------------------------------ MODULE MCP2PSync ------------------------------
(***************************************************************************)
(* Small instances of P2PSync: views of one shard or of two, with blocks   *)
(* on one shard or on both, and pages of one block.                        *)
(***************************************************************************)
EXTENDS P2PSync, TLC

CONSTANTS v1, v2, s1, s2, b1, b2, b3

\* b1 and b2 are on s1, b2 and b3 on s2.
MCBlockShards == [b \in Blocks |-> IF b = b1 THEN {s1} ELSE IF b = b2 THEN {s1, s2} ELSE {s2}]

\* Two peers, each with a view of both shards; the first has fewer blocks.
BothShards == [v \in {v1, v2} |-> {s1, s2}]
TwoListings == v1 :> <<b2>> @@ v2 :> <<b3, b2>>
OneWide == v1 :> {s1, s2}
OneListing == v1 :> <<b3, b2, b1>>

\* One view is on both shards, the other on one.
WideAndNarrow == v1 :> {s1, s2} @@ v2 :> {s2}
ShardListings == v1 :> <<b3, b2, b1>> @@ v2 :> <<b3, b2>>

\* Nothing fails; calls fail; one peer is in trouble and the other only flaky.
NoFaults == [v \in Views |-> {}]
CallFaults == [v \in Views |-> {"call"}]
OneInTrouble == v1 :> {"call", "answer", "store", "expiry"} @@ v2 :> {"flaky"}
==============================================================================
