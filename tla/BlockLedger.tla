----------------------------- MODULE BlockLedger -----------------------------
(***************************************************************************)
(* What a storage node promises about the blocks it is handed, whatever    *)
(* the number of callers and whatever goes wrong: a block is recorded at   *)
(* most once, one call owns the indexing of a recorded block, and once     *)
(* that call ended - having indexed the block, or having been cut short -  *)
(* nobody takes the block up again.                                        *)
(***************************************************************************)
CONSTANT Blocks

VARIABLE status

Statuses == {"absent", "indexing", "indexed", "torn"}

TypeOK == status \in [Blocks -> Statuses]

Init == status = [b \in Blocks |-> "absent"]

\* A row for the block appears in the table "blocks".
Record(b) == /\ status[b] = "absent"
             /\ status' = [status EXCEPT ![b] = "indexing"]

\* The owner has filled every inbox it had to fill.
Complete(b) == /\ status[b] = "indexing"
               /\ status' = [status EXCEPT ![b] = "indexed"]

\* Owners end early: one call throws, or a crash ends all of them at once.
Abandon(S) == /\ S # {}
              /\ \A b \in S : status[b] = "indexing"
              /\ status' = [b \in Blocks |->
                              IF b \in S THEN "torn" ELSE status[b]]

\* The row is written, but its writer never hears of it.
RecordUnheard(b) == /\ status[b] = "absent"
                    /\ status' = [status EXCEPT ![b] = "torn"]

Next == \/ \E b \in Blocks : Record(b) \/ Complete(b) \/ RecordUnheard(b)
        \/ \E S \in SUBSET Blocks : Abandon(S)

Spec == Init /\ [][Next]_status
==============================================================================
