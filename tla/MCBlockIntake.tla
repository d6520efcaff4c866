---------------------------- MODULE MCBlockIntake ----------------------------
(***************************************************************************)
(* A small instance of BlockIntake.  Two blocks share the transaction tx1; *)
(* the first has a recipient without a shard, the second registers a DID,  *)
(* so it touches every shard, and has a recipient whose address does not   *)
(* parse.  The data of that DID may not parse, and tx3, which the second   *)
(* block carries as well, has a category that is too long for a row.       *)
(***************************************************************************)
EXTENDS BlockIntake, TLC

CONSTANTS b1, b2, tx1, tx2, tx3, w1, w2, w3, w4, s1, s2, v1, v2

D(t, w) == [tx |-> t, wallet |-> w]

MCDeliveries == b1 :> <<D(tx1, w1), D(tx1, w4)>>
             @@ b2 :> <<D(tx1, w1), D(tx2, w2), D(tx3, w1), D(tx2, w3)>>

MCRefused == {D(tx3, w1)}

\* One wallet has an address too short to be hashed, one an address that does
\* not parse.
MCShardOf == w1 :> s1 @@ w2 :> s2 @@ w3 :> BadCaip @@ w4 :> NoShard

MCSigners == b1 :> <<v1>> @@ b2 :> <<v1, v2>>

\* The contract assigns nothing, a shard of both blocks, or one only b2 touches.
MCViews == {{}, {s1}, {s2}}
==============================================================================
