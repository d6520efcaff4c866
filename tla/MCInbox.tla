------------------------------- MODULE MCInbox -------------------------------
(***************************************************************************)
(* Inbox with two INIT_DIDs of one DID at the same time (1 and 2), and one *)
(* of another DID that takes over a wallet (3).                            *)
(***************************************************************************)
EXTENDS Inbox

MCBlockTx == [b \in {"b1", "b2", "b3"} |->
                IF b = "b1" THEN 1 ELSE IF b = "b2" THEN 2 ELSE 3]
MCBlockTs == [b \in {"b1", "b2", "b3"} |->
                IF b = "b3" THEN 2 ELSE 3]
MCTargets == [tx \in 1..3 |-> <<"w1">>]
MCDidOf   == [tx \in 1..3 |-> IF tx = 3 THEN "d2" ELSE "d1"]
MCLinks   == [tx \in 1..3 |-> IF tx = 1 THEN {"w1", "w2"} ELSE {"w1"}]
==============================================================================
