------------------------------ MODULE MCReshard ------------------------------
(***************************************************************************)
(* Small instances of Reshard: two shards, one transaction that may be on  *)
(* both, and one peer or two.                                              *)
(***************************************************************************)
EXTENDS Reshard, TLC

CONSTANTS b1, b2, t1, t2, t3, s1, s2, p1, p2

R(s, t) == [shard |-> s, tx |-> t]

\* b1 is on both shards, with one transaction on both and one on s1; b2 is on s2.
MCContents == b1 :> {R(s1, t1), R(s2, t1), R(s1, t3)} @@ b2 :> {R(s2, t2)}

\* The same without the third transaction.
FewerRows == b1 :> {R(s1, t1), R(s2, t1)} @@ b2 :> {R(s2, t2)}

\* One transaction per shard.
OneEach == b2 :> {R(s1, t1), R(s2, t2)}

MCPeerShards == p1 :> {s1, s2} @@ p2 :> {s2}

OnePeer == p1 :> {s1, s2}

ThreeViews == {{}, {s1}, {s1, s2}}
LessOrMore == {{s1}, {s1, s2}}
==============================================================================
