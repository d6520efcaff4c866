-------------------------- MODULE BlockIntakeProofs --------------------------
(***************************************************************************)
(* Proofs about BlockIntake, for any number of calls, blocks, wallets,     *)
(* shards, crashes and failures.                                           *)
(***************************************************************************)
EXTENDS BlockIntake, TLAPS

\* The fields of a call in each of its program states (handleBlock()'s locals).
LEMMA CallStateFacts ==
  ASSUME NEW r \in CallStates
  PROVE  /\ r.pc \in {"idle", "select", "insert", "unpack", "put", "index"}
         /\ r.pc \in {"select", "insert", "unpack"} => r \in Savers
         /\ r.pc \in {"put", "index"} => r \in Putters
         /\ r.pc # "idle" => r.blk \in Blocks
BY DEF CallStates, Idles, Savers, Putters

\* AtPosition builds a typed loop state of unpackBlockToInboxes().
LEMMA PositionTyped ==
  ASSUME NEW pc \in {"put", "index"}, NEW b \in Blocks,
         NEW view \in SUBSET Shards, NEW i \in Nat
  PROVE  AtPosition(pc, b, view, i) \in CallStates
BY DEF AtPosition, CallStates, Putters

\* A call inside the unpack loop has a block, a shard view and a position.
LEMMA PutterFacts ==
  ASSUME NEW r \in Putters
  PROVE  r.blk \in Blocks /\ r.view \in SUBSET Shards /\ r.pos \in Nat
BY DEF Putters

\* An element of a sequence lies in the set the sequence is over.
LEMMA ElementTyped ==
  ASSUME NEW T, NEW s \in Seq(T), NEW i \in 1..Len(s)
  PROVE  s[i] \in T
OBVIOUS

\* The wallet and the transaction at a position of a block's deliveries are typed,
\* and so is the inbox row it gives when its shard exists.
LEMMA DeliveryFacts ==
  ASSUME NEW b \in Blocks
  PROVE  /\ Len(Deliveries[b]) \in Nat
         /\ \A i \in Positions(b) :
              /\ i \in Nat /\ i >= 1
              /\ Deliveries[b][i] \in [tx : Txs, wallet : Wallets]
              /\ WalletShard(b, i) \in Shards \cup {NoShard, BadCaip}
              /\ WalletShard(b, i) \in Shards => Row(b, i) \in Rows
<1>1. Deliveries[b] \in Seq([tx : Txs, wallet : Wallets])
  BY DeliveriesAssumption
<1>2. Len(Deliveries[b]) \in Nat
  BY <1>1
<1>3. ASSUME NEW i \in Positions(b)
      PROVE  /\ i \in Nat /\ i >= 1
             /\ Deliveries[b][i] \in [tx : Txs, wallet : Wallets]
             /\ WalletShard(b, i) \in Shards \cup {NoShard, BadCaip}
             /\ WalletShard(b, i) \in Shards => Row(b, i) \in Rows
  <2>1. i \in 1..Len(Deliveries[b])
    BY <1>3 DEF Positions
  <2>2. Deliveries[b][i] \in [tx : Txs, wallet : Wallets]
    BY <1>1, <2>1, ElementTyped, Zenon
  <2>3. WalletShard(b, i) \in Shards \cup {NoShard, BadCaip}
    BY <2>2, ShardOfAssumption DEF WalletShard
  <2>4. ASSUME WalletShard(b, i) \in Shards PROVE Row(b, i) \in Rows
    <3>1. Deliveries[b][i].tx \in Txs /\ Deliveries[b][i].wallet \in Wallets
      BY <2>2
    <3>2. QED
      BY <2>4, <3>1 DEF Row, Rows
  <2>5. i \in Nat /\ i >= 1
    BY <1>2, <2>1
  <2>6. QED
    BY <2>2, <2>3, <2>4, <2>5
<1>4. QED
  BY <1>2, <1>3

------------------------------------------------------------------------------
(* Type correctness. *)

\* An answer of handleBlock() leaves the calls typed.
LEMMA ReturnTyped ==
  ASSUME call \in [Calls -> CallStates], NEW c \in Calls,
         NEW reply \in {"none", "new", "duplicate", "error"}, Return(c, reply)
  PROVE  call' \in [Calls -> CallStates]
BY DEF Return, IdleCall, CallStates, Idles

\* Moving the unpack loop on leaves the calls typed.
LEMMA AdvanceTyped ==
  ASSUME call \in [Calls -> CallStates], NEW c \in Calls,
         call[c].pc \in {"put", "index"}, Advance(c)
  PROVE  call' \in [Calls -> CallStates]
<1>1. call[c] \in Putters
  BY CallStateFacts
<1>2. AtPosition("put", call[c].blk, call[c].view, call[c].pos + 1) \in CallStates
  BY <1>1, PutterFacts, PositionTyped
<1>3. QED
  BY <1>2 DEF Advance

\* The initial states are typed.
LEMMA TypeInit == Init => TypeOK
<1> SUFFICES ASSUME Init PROVE TypeOK
  OBVIOUS
<1>1. IdleCall("none") \in CallStates
  BY DEF IdleCall, CallStates, Idles
<1>2. crashes \in 0..MaxCrashes /\ failures \in 0..MaxFailures
  BY BoundsAssumption DEF Init
<1>3. call \in [Calls -> CallStates]
  BY <1>1 DEF Init
<1>4. unpackedFor \in [Blocks -> SUBSET Shards]
  BY DEF Init
<1>5. QED
  BY <1>2, <1>3, <1>4 DEF Init, TypeOK

\* Every step of handleBlock() and of its environment keeps the types.
LEMMA TypeStep == TypeOK /\ [Next]_vars => TypeOK'
<1> SUFFICES ASSUME TypeOK, [Next]_vars PROVE TypeOK'
  OBVIOUS
<1>0. call \in [Calls -> CallStates]
  BY DEF TypeOK
<1>1. ASSUME NEW c \in Calls, NEW b \in Blocks, HandleBlock(c, b) PROVE TypeOK'
  <2>1. [pc |-> "select", blk |-> b] \in CallStates
    BY DEF CallStates, Savers
  <2>2. call' \in [Calls -> CallStates]
    <3>1. CASE CheckBlockAsSNode(b) /\ ~AffectedShardsThrows(b)
      BY <1>0, <1>1, <2>1, <3>1 DEF HandleBlock
    <3>2. CASE ~(CheckBlockAsSNode(b) /\ ~AffectedShardsThrows(b))
      BY <1>0, <1>1, <3>2, ReturnTyped DEF HandleBlock
    <3>3. QED
      BY <3>1, <3>2
  <2>3. QED
    BY <1>1, <2>2 DEF HandleBlock, TypeOK, tables, chain, history, faults
<1>2. ASSUME NEW c \in Calls, SelectHash(c) PROVE TypeOK'
  <2>1. [pc |-> "insert", blk |-> call[c].blk] \in CallStates
    BY <1>0, <1>2, CallStateFacts DEF SelectHash, CallStates, Savers
  <2>2. call' \in [Calls -> CallStates]
    <3>1. CASE call[c].blk \in stored
      BY <1>0, <1>2, <3>1, ReturnTyped DEF SelectHash
    <3>2. CASE call[c].blk \notin stored
      BY <1>0, <1>2, <2>1, <3>2 DEF SelectHash
    <3>3. QED
      BY <3>1, <3>2
  <2>3. QED
    BY <1>2, <2>2 DEF SelectHash, TypeOK, tables, chain, history, faults
<1>3. ASSUME NEW c \in Calls, InsertBlock(c) PROVE TypeOK'
  <2>1. call[c].blk \in Blocks
    BY <1>0, <1>3, CallStateFacts DEF InsertBlock
  <2>2. [pc |-> "unpack", blk |-> call[c].blk] \in CallStates
    BY <2>1 DEF CallStates, Savers
  <2>3. call' \in [Calls -> CallStates]
    <3>1. CASE RowCount(call[c].blk) = 1
      BY <1>0, <1>3, <2>2, <3>1 DEF InsertBlock
    <3>2. CASE RowCount(call[c].blk) # 1
      BY <1>0, <1>3, <3>2, ReturnTyped DEF InsertBlock
    <3>3. QED
      BY <3>1, <3>2
  <2>4. QED
    BY <1>3, <2>1, <2>3 DEF InsertBlock, TypeOK, chain, history, faults
<1>4. ASSUME NEW c \in Calls, BeginUnpack(c) PROVE TypeOK'
  <2>1. call[c].blk \in Blocks
    BY <1>0, <1>4, CallStateFacts DEF BeginUnpack
  <2>2. nodeShards \in SUBSET Shards
    BY ShardViewsAssumption DEF TypeOK
  <2>3. CASE nodeShards = {}
    <3>1. call' \in [Calls -> CallStates]
      BY <1>0, <1>4, <2>3, ReturnTyped DEF BeginUnpack
    <3>2. QED
      BY <1>4, <2>3, <3>1 DEF BeginUnpack, TypeOK, tables, chain, history, faults
  <2>4. CASE nodeShards # {}
    <3>1. AtPosition("put", call[c].blk, nodeShards, 1) \in CallStates
      BY <2>1, <2>2, PositionTyped
    <3>2. call' \in [Calls -> CallStates]
      BY <1>0, <1>4, <2>4, <3>1 DEF BeginUnpack
    <3>3. QED
      BY <1>4, <2>1, <2>2, <2>4, <3>2
         DEF BeginUnpack, TypeOK, tables, chain, faults
  <2>5. QED
    BY <2>3, <2>4
<1>5. ASSUME NEW c \in Calls, Skip(c) PROVE TypeOK'
  <2>1. call' \in [Calls -> CallStates]
    BY <1>0, <1>5, AdvanceTyped DEF Skip, AtDelivery
  <2>2. QED
    BY <1>5, <2>1 DEF Skip, TypeOK, tables, chain, history, faults
<1>6. ASSUME NEW c \in Calls, PutRow(c) PROVE TypeOK'
  <2>1. call[c] \in Putters /\ call[c].blk \in Blocks
    BY <1>0, <1>6, CallStateFacts DEF PutRow, AtDelivery
  <2>2. Row(call[c].blk, call[c].pos) \in Rows
    BY <1>6, <2>1, DeliveryFacts DEF PutRow, AtDelivery
  <2>3. call' \in [Calls -> CallStates]
    <3>1. CASE IsInitDid(call[c].blk, call[c].pos)
      <4>1. AtPosition("index", call[c].blk, call[c].view, call[c].pos) \in CallStates
        BY <2>1, PutterFacts, PositionTyped
      <4>2. QED
        BY <1>0, <1>6, <3>1, <4>1 DEF PutRow
    <3>2. CASE ~IsInitDid(call[c].blk, call[c].pos)
      BY <1>0, <1>6, <3>2, AdvanceTyped DEF PutRow, AtDelivery
    <3>3. QED
      BY <3>1, <3>2
  <2>4. QED
    BY <1>6, <2>2, <2>3 DEF PutRow, TypeOK, chain, history, faults
<1>7. ASSUME NEW c \in Calls, PutThrows(c) PROVE TypeOK'
  <2>1. call' \in [Calls -> CallStates]
    BY <1>0, <1>7, ReturnTyped DEF PutThrows
  <2>2. QED
    BY <1>7, <2>1 DEF PutThrows, TypeOK, tables, chain, history, faults
<1>8. ASSUME NEW c \in Calls, IndexTx(c) PROVE TypeOK'
  <2>1. call' \in [Calls -> CallStates]
    <3>1. CASE Advance(c)
      BY <1>0, <1>8, <3>1, AdvanceTyped DEF IndexTx
    <3>2. CASE Return(c, "error")
      BY <1>0, <1>8, <3>2, ReturnTyped DEF IndexTx
    <3>3. QED
      BY <1>8, <3>1, <3>2 DEF IndexTx
  <2>2. QED
    BY <1>8, <2>1 DEF IndexTx, TypeOK, tables, chain, history, faults
<1>9. ASSUME NEW c \in Calls, FinishUnpack(c) PROVE TypeOK'
  <2>1. call' \in [Calls -> CallStates]
    BY <1>0, <1>9, ReturnTyped DEF FinishUnpack
  <2>2. call[c].blk \in Blocks
    BY <1>0, <1>9, CallStateFacts DEF FinishUnpack
  <2>3. QED
    BY <1>9, <2>1, <2>2 DEF FinishUnpack, TypeOK, tables, chain, faults
<1>10. ASSUME NEW c \in Calls, DbFails(c) PROVE TypeOK'
  <2>1. call' \in [Calls -> CallStates]
    BY <1>0, <1>10, ReturnTyped DEF DbFails
  <2>2. failures' \in 0..MaxFailures
    BY <1>10, BoundsAssumption DEF DbFails, TypeOK
  <2>3. QED
    BY <1>10, <2>1, <2>2 DEF DbFails, TypeOK, tables, chain, history
<1>11. ASSUME NEW c \in Calls, InsertUnheard(c) PROVE TypeOK'
  <2>1. call' \in [Calls -> CallStates]
    BY <1>0, <1>11, ReturnTyped DEF InsertUnheard
  <2>2. failures' \in 0..MaxFailures
    BY <1>11, BoundsAssumption DEF InsertUnheard, TypeOK
  <2>3. call[c].blk \in Blocks
    BY <1>0, <1>11, CallStateFacts DEF InsertUnheard
  <2>4. QED
    BY <1>11, <2>1, <2>2, <2>3 DEF InsertUnheard, TypeOK, chain, history
<1>12. ASSUME Crash PROVE TypeOK'
  <2>1. call' \in [Calls -> CallStates]
    BY <1>12 DEF Crash, IdleCall, CallStates, Idles
  <2>2. crashes' \in 0..MaxCrashes
    BY <1>12, BoundsAssumption DEF Crash, TypeOK
  <2>3. QED
    BY <1>12, <2>1, <2>2 DEF Crash, TypeOK, tables, chain, history
<1>13. ASSUME NEW v \in Validators, NodeAdded(v) PROVE TypeOK'
  BY <1>13 DEF NodeAdded, TypeOK, tables, history, faults
<1>14. ASSUME NEW n \in 1..MaxValPerBlock, BlockParamsUpdated(n) PROVE TypeOK'
  BY <1>14 DEF BlockParamsUpdated, TypeOK, tables, history, faults
<1>15. ASSUME NEW S \in ShardViews, MappingChanged(S) PROVE TypeOK'
  BY <1>15 DEF MappingChanged, TypeOK, tables, history, faults
<1>16. CASE UNCHANGED vars
  BY <1>16 DEF TypeOK, vars, tables, chain, history, faults
<1>17. QED
  BY <1>1, <1>2, <1>3, <1>4, <1>5, <1>6, <1>7, <1>8, <1>9, <1>10, <1>11, <1>12,
     <1>13, <1>14, <1>15, <1>16 DEF Next, Step

\* The tables and the state of every call keep their types, whatever callers,
\* failures and contract events do to handleBlock().
THEOREM TypeCorrect == Spec => []TypeOK
<1>1. Init => TypeOK
  BY TypeInit
<1>2. TypeOK /\ [Next]_vars => TypeOK'
  BY TypeStep
<1>3. QED
  BY <1>1, <1>2, PTL DEF Spec

------------------------------------------------------------------------------
(* The inductive invariant.  Core is what it says beyond types. *)

Core == /\ OneOwner /\ AnnouncedIsIndexed /\ RowsJustified
        /\ FreshUnpack /\ PassedIsServed

\* Steps that leave the tables alone and start no unpacking preserve it.
LEMMA QuietStep ==
  ASSUME Core, UNCHANGED <<stored, inbox, announced, unpackedFor>>,
         \A c \in Calls : Unpacking(c)' => call'[c] = call[c]
  PROVE  Core'
<1>1. \A c \in Calls : Unpacking(c)' => Unpacking(c) /\ call'[c] = call[c]
  BY DEF Unpacking
<1>2. OneOwner'
  BY <1>1 DEF Core, OneOwner
<1>3. AnnouncedIsIndexed'
  BY DEF Core, AnnouncedIsIndexed
<1>4. RowsJustified'
  BY DEF Core, RowsJustified
<1>5. FreshUnpack'
  <2>1. \A c \in Calls : call'[c].pc = "unpack" => call'[c] = call[c]
    BY DEF Unpacking
  <2>2. QED
    BY <2>1 DEF Core, FreshUnpack
<1>6. PassedIsServed'
  <2>1. \A c \in Calls : call'[c].pc \in {"put", "index"} => call'[c] = call[c]
    BY DEF Unpacking
  <2>2. QED
    BY <2>1 DEF Core, PassedIsServed
<1>7. QED
  BY <1>2, <1>3, <1>4, <1>5, <1>6 DEF Core

\* The INSERT preserves the core: the winner had no rival and a fresh block.
LEMMA CoreInsert ==
  ASSUME TypeOK, Core, NEW c \in Calls, InsertBlock(c)
  PROVE  Core'
<1> DEFINE b == call[c].blk
<1>0. call \in [Calls -> CallStates] /\ b \in Blocks /\ ~Unpacking(c)
  BY CallStateFacts DEF TypeOK, InsertBlock, Unpacking
<1>1. CASE b \in stored
  <2>1. stored' = stored
    BY <1>1 DEF InsertBlock
  <2>2. call' = [call EXCEPT ![c] = IdleCall("duplicate")]
    BY <1>1 DEF InsertBlock, RowCount, Return
  <2>3. \A d \in Calls : Unpacking(d)' => call'[d] = call[d]
    BY <1>0, <2>2 DEF Unpacking, IdleCall
  <2>4. QED
    BY <2>1, <2>3, QuietStep DEF InsertBlock, history
<1>2. CASE b \notin stored
  <2>1. call' = [call EXCEPT ![c] = [pc |-> "unpack", blk |-> b]]
    BY <1>2 DEF InsertBlock, RowCount
  <2>2. /\ call'[c] = [pc |-> "unpack", blk |-> b]
        /\ \A d \in Calls \ {c} : call'[d] = call[d]
    BY <1>0, <2>1
  <2>3. /\ stored' = stored \cup {b} /\ inbox' = inbox
        /\ announced' = announced /\ unpackedFor' = unpackedFor
    BY DEF InsertBlock, history
  <2>4. \A d \in Calls : Unpacking(d) => call[d].blk # b
    BY <1>2 DEF Core, OneOwner
  <2>5. b \notin announced
    BY <1>2 DEF Core, FreshUnpack
  <2>6. OneOwner'
    BY <2>2, <2>3, <2>4, <2>5 DEF Core, OneOwner, Unpacking
  <2>7. AnnouncedIsIndexed'
    BY <2>3 DEF Core, AnnouncedIsIndexed
  <2>8. RowsJustified'
    BY <2>3 DEF Core, RowsJustified
  <2>9. FreshUnpack'
    BY <1>0, <1>2, <2>2, <2>3 DEF Core, FreshUnpack
  <2>10. PassedIsServed'
    BY <2>2, <2>3 DEF Core, PassedIsServed
  <2>11. QED
    BY <2>6, <2>7, <2>8, <2>9, <2>10 DEF Core
<1>3. QED
  BY <1>1, <1>2

\* An INSERT whose answer is lost preserves it: the block has no owner.
LEMMA CoreInsertUnheard ==
  ASSUME TypeOK, Core, NEW c \in Calls, InsertUnheard(c)
  PROVE  Core'
<1> DEFINE b == call[c].blk
<1>0. call \in [Calls -> CallStates] /\ b \in Blocks /\ ~Unpacking(c)
  BY CallStateFacts DEF TypeOK, InsertUnheard, Unpacking
<1>1. /\ call'[c] = IdleCall("error")
      /\ \A d \in Calls \ {c} : call'[d] = call[d]
  BY <1>0 DEF InsertUnheard, Return
<1>2. /\ stored' = stored \cup {b} /\ inbox' = inbox
      /\ announced' = announced /\ unpackedFor' = unpackedFor
  BY DEF InsertUnheard, history
<1>3. \A d \in Calls : Unpacking(d)' => d # c /\ Unpacking(d) /\ call'[d] = call[d]
  BY <1>1 DEF Unpacking, IdleCall
<1>4. OneOwner'
  BY <1>2, <1>3 DEF Core, OneOwner
<1>5. AnnouncedIsIndexed'
  BY <1>2 DEF Core, AnnouncedIsIndexed
<1>6. RowsJustified'
  BY <1>2 DEF Core, RowsJustified
<1>7. FreshUnpack'
  BY <1>1, <1>2 DEF Core, FreshUnpack, IdleCall
<1>8. PassedIsServed'
  BY <1>1, <1>2 DEF Core, PassedIsServed, IdleCall
<1>9. QED
  BY <1>4, <1>5, <1>6, <1>7, <1>8 DEF Core

\* The start of the unpacking fixes the assignment the block is unpacked for.
LEMMA CoreBeginUnpack ==
  ASSUME TypeOK, Core, NEW c \in Calls, BeginUnpack(c)
  PROVE  Core'
<1> DEFINE b == call[c].blk
<1>0. call \in [Calls -> CallStates] /\ b \in Blocks /\ Unpacking(c)
  BY CallStateFacts DEF TypeOK, BeginUnpack, Unpacking
<1>1. CASE nodeShards = {}
  <2>1. \A d \in Calls : Unpacking(d)' => call'[d] = call[d]
    BY <1>0, <1>1 DEF BeginUnpack, Return, Unpacking, IdleCall
  <2>2. QED
    BY <1>1, <2>1, QuietStep DEF BeginUnpack, tables, history
<1>2. CASE nodeShards # {}
  <2>1. /\ call'[c] = AtPosition("put", b, nodeShards, 1)
        /\ \A d \in Calls \ {c} : call'[d] = call[d]
    BY <1>0, <1>2 DEF BeginUnpack
  <2>2. /\ stored' = stored /\ inbox' = inbox /\ announced' = announced
        /\ unpackedFor' = [unpackedFor EXCEPT ![b] = nodeShards]
    BY <1>2 DEF BeginUnpack, tables
  <2>3. unpackedFor'[b] = nodeShards /\ \A a \in Blocks \ {b} : unpackedFor'[a] = unpackedFor[a]
    BY <1>0, <2>2 DEF TypeOK
  <2>4. /\ unpackedFor[b] = {} /\ b \in stored /\ b \notin announced
        /\ \A d \in Calls : Unpacking(d) /\ d # c => call[d].blk # b
    BY <1>0 DEF Core, FreshUnpack, OneOwner, BeginUnpack
  <2>5. /\ call'[c].pc = "put" /\ call'[c].blk = b
        /\ call'[c].view = nodeShards /\ call'[c].pos = 1
    BY <2>1 DEF AtPosition
  <2>6. OneOwner'
    BY <1>0, <2>1, <2>2, <2>5 DEF Core, OneOwner, Unpacking
  <2>7. AnnouncedIsIndexed'
    BY <2>2, <2>3, <2>4 DEF Core, AnnouncedIsIndexed, TypeOK
  <2>8. RowsJustified'
    <3> SUFFICES ASSUME NEW r \in inbox
                 PROVE  \E a \in stored : \E i \in Positions(a) :
                          /\ r = Row(a, i) /\ unpackedFor'[a] # {}
                          /\ Due(a, i, unpackedFor'[a])
      BY <2>2 DEF RowsJustified
    <3>1. PICK a \in stored :
            \E i \in Positions(a) :
              r = Row(a, i) /\ unpackedFor[a] # {} /\ Due(a, i, unpackedFor[a])
      BY DEF Core, RowsJustified
    <3>2. a # b /\ a \in Blocks
      BY <2>4, <3>1 DEF TypeOK
    <3>3. QED
      BY <2>3, <3>1, <3>2
  <2>9. FreshUnpack'
    <3>1. announced' \subseteq stored' /\ \A a \in Blocks \ stored' : unpackedFor'[a] = {}
      BY <2>2, <2>3, <2>4 DEF Core, FreshUnpack
    <3>2. ASSUME NEW d \in Calls, call'[d].pc = "unpack"
          PROVE  unpackedFor'[call'[d].blk] = {}
      <4>1. d # c /\ call'[d] = call[d] /\ Unpacking(d) /\ call[d].blk \in Blocks
        BY <1>0, <2>1, <2>5, <3>2, CallStateFacts DEF Unpacking
      <4>2. QED
        BY <2>3, <2>4, <3>2, <4>1 DEF Core, FreshUnpack
    <3>3. QED
      BY <3>1, <3>2 DEF FreshUnpack
  <2>10. PassedIsServed'
    <3> SUFFICES ASSUME NEW d \in Calls, call'[d].pc \in {"put", "index"}
                 PROVE  /\ call'[d].view # {} /\ unpackedFor'[call'[d].blk] = call'[d].view
                        /\ call'[d].pos >= 1
                        /\ \A i \in Positions(call'[d].blk) :
                             (i < call'[d].pos \/ (i = call'[d].pos /\ call'[d].pc = "index"))
                               /\ Due(call'[d].blk, i, call'[d].view)
                             => Row(call'[d].blk, i) \in inbox'
      BY DEF PassedIsServed
    <3>1. CASE d = c
      <4>1. \A i \in Positions(b) : i \in Nat /\ i >= 1
        BY <1>0, DeliveryFacts
      <4>2. \A i \in Positions(b) : ~(i < 1)
        BY <4>1
      <4>3. QED
        BY <1>2, <2>3, <2>5, <3>1, <4>2
    <3>2. CASE d # c
      <4>1. call'[d] = call[d] /\ Unpacking(d) /\ call[d].blk \in Blocks \ {b}
        BY <1>0, <2>1, <2>4, <3>2, CallStateFacts DEF Unpacking
      <4>2. QED
        BY <2>2, <2>3, <4>1 DEF Core, PassedIsServed
    <3>3. QED
      BY <3>1, <3>2
  <2>11. QED
    BY <2>6, <2>7, <2>8, <2>9, <2>10 DEF Core
<1>3. QED
  BY <1>1, <1>2
\* A step of the unpack loop: it may add the row of its position, and does if due.
LEMMA CoreLoop ==
  ASSUME TypeOK, Core, NEW c \in Calls, call[c].pc \in {"put", "index"},
         NEW b, NEW v, NEW p, b = call[c].blk, v = call[c].view, p = call[c].pos,
         \/ call'[c] = AtPosition("put", b, v, p + 1)
         \/ call'[c] = AtPosition("index", b, v, p),
         \A d \in Calls \ {c} : call'[d] = call[d],
         UNCHANGED <<stored, announced, unpackedFor>>,
         inbox \subseteq inbox',
         inbox' # inbox => /\ inbox' = inbox \cup {Row(b, p)}
                           /\ p \in Positions(b) /\ Due(b, p, v),
         p \in Positions(b) /\ Due(b, p, v) => Row(b, p) \in inbox'
  PROVE  Core'
<1>0. /\ call[c] \in Putters /\ b \in Blocks /\ p \in Nat /\ Unpacking(c)
  BY CallStateFacts, PutterFacts DEF TypeOK, Unpacking
<1>1. /\ call'[c].pc \in {"put", "index"} /\ call'[c].blk = b /\ call'[c].view = v
      /\ \/ call'[c].pc = "put" /\ call'[c].pos = p + 1
         \/ call'[c].pc = "index" /\ call'[c].pos = p
  BY DEF AtPosition
<1>2. /\ v # {} /\ unpackedFor[b] = v /\ p >= 1 /\ b \in stored
      /\ \A i \in Positions(b) : i < p /\ Due(b, i, v) => Row(b, i) \in inbox
  BY <1>0 DEF Core, PassedIsServed, OneOwner
<1>3. OneOwner'
  <2>1. \A d \in Calls : Unpacking(d)' => Unpacking(d) /\ call'[d].blk = call[d].blk
    BY <1>0, <1>1 DEF Unpacking
  <2>2. QED
    BY <2>1 DEF Core, OneOwner
<1>4. AnnouncedIsIndexed'
  BY DEF Core, AnnouncedIsIndexed
<1>5. RowsJustified'
  <2>1. CASE inbox' = inbox
    BY <2>1 DEF Core, RowsJustified
  <2>2. CASE inbox' # inbox
    BY <1>2, <2>2 DEF Core, RowsJustified
  <2>3. QED
    BY <2>1, <2>2
<1>6. FreshUnpack'
  BY <1>1 DEF Core, FreshUnpack
<1>7. PassedIsServed'
  <2> SUFFICES ASSUME NEW d \in Calls, call'[d].pc \in {"put", "index"}
               PROVE  /\ call'[d].view # {} /\ unpackedFor'[call'[d].blk] = call'[d].view
                      /\ call'[d].pos >= 1
                      /\ \A i \in Positions(call'[d].blk) :
                           (i < call'[d].pos \/ (i = call'[d].pos /\ call'[d].pc = "index"))
                             /\ Due(call'[d].blk, i, call'[d].view)
                           => Row(call'[d].blk, i) \in inbox'
    BY DEF PassedIsServed
  <2>1. CASE d = c
    <3>1. call'[c].pos >= 1
      BY <1>0, <1>1, <1>2
    <3>2. ASSUME NEW i \in Positions(b), i < p + 1, Due(b, i, v)
          PROVE  Row(b, i) \in inbox'
      <4>1. i \in Nat
        BY <1>0, DeliveryFacts
      <4>2. i < p \/ i = p
        BY <1>0, <3>2, <4>1
      <4>3. QED
        BY <1>2, <3>2, <4>2
    <3>3. p < p + 1
      BY <1>0
    <3>4. QED
      BY <1>1, <1>2, <2>1, <3>1, <3>2, <3>3, <1>0
  <2>2. CASE d # c
    BY <2>2 DEF Core, PassedIsServed
  <2>3. QED
    BY <2>1, <2>2
<1>8. QED
  BY <1>3, <1>4, <1>5, <1>6, <1>7 DEF Core

\* Skipping an inbox of a shard that is not processed here preserves the core.
LEMMA CoreSkip ==
  ASSUME TypeOK, Core, NEW c \in Calls, Skip(c)
  PROVE  Core'
<1> DEFINE b == call[c].blk
           v == call[c].view
           p == call[c].pos
<1>1. /\ call'[c] = AtPosition("put", b, v, p + 1)
      /\ \A d \in Calls \ {c} : call'[d] = call[d]
  BY DEF Skip, Advance, TypeOK
<1>2. ~Due(b, p, v)
  BY DEF Skip, Due
<1>3. QED
  BY <1>1, <1>2, CoreLoop DEF Skip, AtDelivery, tables, history

\* Writing an inbox row preserves it: the row was due.
LEMMA CorePutRow ==
  ASSUME TypeOK, Core, NEW c \in Calls, PutRow(c)
  PROVE  Core'
<1> DEFINE b == call[c].blk
           v == call[c].view
           p == call[c].pos
<1>1. /\ \/ call'[c] = AtPosition("put", b, v, p + 1)
         \/ call'[c] = AtPosition("index", b, v, p)
      /\ \A d \in Calls \ {c} : call'[d] = call[d]
  BY DEF PutRow, Advance, TypeOK
<1>2. Due(b, p, v) /\ p \in Positions(b) /\ call[c].pc = "put"
  BY DEF PutRow, AtDelivery, Due
<1>3. inbox' = inbox \cup {Row(b, p)} /\ UNCHANGED <<stored, announced, unpackedFor>>
  BY DEF PutRow, history
<1>4. QED
  BY <1>1, <1>2, <1>3, CoreLoop

\* Indexing an INIT_DID transaction preserves it: its row is in the table, and a call
\* that throws over the data serves nothing more.
LEMMA CoreIndexTx ==
  ASSUME TypeOK, Core, NEW c \in Calls, IndexTx(c)
  PROVE  Core'
<1>0. CASE Return(c, "error")
  <2>1. \A d \in Calls : Unpacking(d)' => call'[d] = call[d]
    BY <1>0 DEF TypeOK, Return, IdleCall, Unpacking
  <2>2. QED
    BY <2>1, QuietStep DEF IndexTx, tables, history
<1> SUFFICES ASSUME Advance(c) PROVE Core'
  BY <1>0 DEF IndexTx
<1> DEFINE b == call[c].blk
           v == call[c].view
           p == call[c].pos
<1>1. /\ call'[c] = AtPosition("put", b, v, p + 1)
      /\ \A d \in Calls \ {c} : call'[d] = call[d]
  BY DEF IndexTx, Advance, TypeOK
<1>2. p \in Positions(b) /\ Due(b, p, v) => Row(b, p) \in inbox
  BY DEF IndexTx, Core, PassedIsServed
<1>3. UNCHANGED <<stored, inbox, announced, unpackedFor>> /\ call[c].pc = "index"
  BY DEF IndexTx, tables, history
<1>4. QED
  BY <1>1, <1>2, <1>3, CoreLoop

\* The end of the loops preserves it: every position has been served.
LEMMA CoreFinish ==
  ASSUME TypeOK, Core, NEW c \in Calls, FinishUnpack(c)
  PROVE  Core'
<1> DEFINE b == call[c].blk
<1>0. call \in [Calls -> CallStates] /\ call[c] \in Putters /\ b \in Blocks
  BY CallStateFacts DEF TypeOK, FinishUnpack
<1>1. /\ call'[c] = IdleCall("new")
      /\ \A d \in Calls \ {c} : call'[d] = call[d]
  BY <1>0 DEF FinishUnpack, Return
<1>2. /\ announced' = announced \cup {b}
      /\ UNCHANGED <<stored, inbox, unpackedFor>>
  BY DEF FinishUnpack, tables
<1>3. Unpacking(c) /\ b \in stored
  BY DEF FinishUnpack, Unpacking, Core, OneOwner
<1>4. \A d \in Calls : Unpacking(d)' => d # c /\ Unpacking(d) /\ call'[d] = call[d]
  BY <1>1 DEF Unpacking, IdleCall
<1>5. OneOwner'
  BY <1>2, <1>3, <1>4 DEF Core, OneOwner
<1>6. AnnouncedIsIndexed'
  <2>1. \A i \in Positions(b) : Due(b, i, unpackedFor[b]) => Row(b, i) \in inbox
    <3> SUFFICES ASSUME NEW i \in Positions(b), Due(b, i, unpackedFor[b])
                 PROVE  Row(b, i) \in inbox
      OBVIOUS
    <3>1. /\ unpackedFor[b] = call[c].view /\ call[c].pos >= 1
          /\ \A j \in Positions(b) : j < call[c].pos /\ Due(b, j, call[c].view)
                                      => Row(b, j) \in inbox
      BY DEF FinishUnpack, Core, PassedIsServed
    <3>2. call[c].pos \in Nat /\ call[c].pos \notin 1..Len(Deliveries[b])
      BY <1>0, PutterFacts DEF FinishUnpack, Positions
    <3>3. Len(Deliveries[b]) \in Nat /\ i \in 1..Len(Deliveries[b])
      BY <1>0, DeliveryFacts DEF Positions
    <3>4. i < call[c].pos
      BY <3>1, <3>2, <3>3
    <3>5. QED
      BY <3>1, <3>4
  <2>2. QED
    BY <1>2, <2>1 DEF Core, AnnouncedIsIndexed
<1>7. RowsJustified'
  BY <1>2 DEF Core, RowsJustified
<1>8. FreshUnpack'
  BY <1>1, <1>2, <1>3 DEF Core, FreshUnpack, IdleCall
<1>9. PassedIsServed'
  BY <1>1, <1>2 DEF Core, PassedIsServed, IdleCall
<1>10. QED
  BY <1>5, <1>6, <1>7, <1>8, <1>9 DEF Core

\* The core is inductive relative to the types.
LEMMA CoreStep == TypeOK /\ Core /\ [Next]_vars => Core'
<1> SUFFICES ASSUME TypeOK, Core, [Next]_vars PROVE Core'
  OBVIOUS
<1>0. call \in [Calls -> CallStates]
  BY DEF TypeOK
<1>1. ASSUME NEW c \in Calls, NEW b \in Blocks, HandleBlock(c, b) PROVE Core'
  <2>1. \A d \in Calls : Unpacking(d)' => call'[d] = call[d]
    BY <1>0, <1>1 DEF HandleBlock, Return, IdleCall, Unpacking
  <2>2. QED
    BY <1>1, <2>1, QuietStep DEF HandleBlock, tables, history
<1>2. ASSUME NEW c \in Calls, SelectHash(c) PROVE Core'
  <2>1. \A d \in Calls : Unpacking(d)' => call'[d] = call[d]
    BY <1>0, <1>2 DEF SelectHash, Return, IdleCall, Unpacking
  <2>2. QED
    BY <1>2, <2>1, QuietStep DEF SelectHash, tables, history
<1>3. ASSUME NEW c \in Calls, PutThrows(c) PROVE Core'
  <2>1. \A d \in Calls : Unpacking(d)' => call'[d] = call[d]
    BY <1>0, <1>3 DEF PutThrows, Return, IdleCall, Unpacking
  <2>2. QED
    BY <1>3, <2>1, QuietStep DEF PutThrows, tables, history
<1>4. ASSUME NEW c \in Calls, DbFails(c) PROVE Core'
  <2>1. \A d \in Calls : Unpacking(d)' => call'[d] = call[d]
    BY <1>0, <1>4 DEF DbFails, Return, IdleCall, Unpacking
  <2>2. QED
    BY <1>4, <2>1, QuietStep DEF DbFails, tables, history
<1>5. ASSUME Crash PROVE Core'
  <2>1. \A d \in Calls : Unpacking(d)' => call'[d] = call[d]
    BY <1>5 DEF Crash, IdleCall, Unpacking
  <2>2. QED
    BY <1>5, <2>1, QuietStep DEF Crash, tables, history
<1>6. ASSUME UNCHANGED <<tables, call, history>> PROVE Core'
  <2>1. \A d \in Calls : Unpacking(d)' => call'[d] = call[d]
    BY <1>6
  <2>2. QED
    BY <1>6, <2>1, QuietStep DEF tables, history
<1>7. ASSUME NEW v \in Validators, NodeAdded(v) PROVE Core'
  BY <1>6, <1>7 DEF NodeAdded
<1>8. ASSUME NEW n \in 1..MaxValPerBlock, BlockParamsUpdated(n) PROVE Core'
  BY <1>6, <1>8 DEF BlockParamsUpdated
<1>9. ASSUME NEW S \in ShardViews, MappingChanged(S) PROVE Core'
  BY <1>6, <1>9 DEF MappingChanged
<1>10. CASE UNCHANGED vars
  BY <1>6, <1>10 DEF vars
<1>11. QED
  BY <1>1, <1>2, <1>3, <1>4, <1>5, <1>7, <1>8, <1>9, <1>10, CoreInsert,
     CoreInsertUnheard, CoreBeginUnpack, CoreSkip, CorePutRow, CoreIndexTx,
     CoreFinish DEF Next, Step

\* The inductive invariant holds in every state of every behaviour.
THEOREM IntakeInvariant == Spec => []IInv
<1>1. Init => IInv
  <2> SUFFICES ASSUME Init PROVE IInv
    OBVIOUS
  <2>1. \A c \in Calls : call[c].pc = "idle"
    BY DEF Init, IdleCall
  <2>2. OneOwner /\ PassedIsServed
    BY <2>1 DEF OneOwner, PassedIsServed, Unpacking
  <2>3. AnnouncedIsIndexed /\ RowsJustified
    BY DEF Init, AnnouncedIsIndexed, RowsJustified
  <2>4. FreshUnpack
    BY <2>1 DEF Init, FreshUnpack
  <2>5. QED
    BY <2>2, <2>3, <2>4, TypeInit DEF IInv
<1>2. IInv /\ [Next]_vars => IInv'
  <2>1. IInv <=> TypeOK /\ Core
    BY DEF IInv, Core
  <2>2. TypeOK' /\ Core' => IInv'
    BY DEF IInv, Core
  <2>3. QED
    BY <2>1, <2>2, TypeStep, CoreStep
<1>3. QED
  BY <1>1, <1>2, PTL DEF Spec

\* One call at most unpacks a block, only once its row is stored, and none after
\* handleBlock() answered true for it.
THEOREM SingleOwner == Spec => []OneOwner
BY IntakeInvariant, PTL DEF IInv

\* An answer "true" of handleBlock() means that every due inbox row is stored.
THEOREM AnnouncedAreIndexed == Spec => []AnnouncedIsIndexed
BY IntakeInvariant, PTL DEF IInv

\* Every inbox row stems from a stored block and a position due on this node.
THEOREM RowsAreJustified == Spec => []RowsJustified
BY IntakeInvariant, PTL DEF IInv
------------------------------------------------------------------------------
(* handleBlock() implements the ledger. *)

Status == [b \in Blocks |-> LedgerStatus(b)]

Indexing(b) == b \in stored \ announced /\ \E c \in Calls : Owns(c, b)

\* The ledger's states in terms of the tables and the owners.
LEMMA StatusMeaning ==
  ASSUME NEW b \in Blocks
  PROVE  /\ Status[b] = "absent"   <=> b \notin announced /\ b \notin stored
         /\ Status[b] = "indexing" <=> Indexing(b)
         /\ Status[b] = "indexed"  <=> b \in announced
BY DEF Status, LedgerStatus, Indexing

\* Nothing the ledger sees has changed.
LEMMA SameOwners ==
  ASSUME stored' = stored, announced' = announced,
         \A b \in Blocks : (\E c \in Calls : Owns(c, b)')
                              <=> (\E c \in Calls : Owns(c, b))
  PROVE  Status' = Status
<1>1. \A b \in Blocks : LedgerStatus(b)' = LedgerStatus(b)
  BY DEF LedgerStatus
<1>2. QED
  BY <1>1 DEF Status

\* Calls that keep their block, or go on having none, keep the ledger's state.
LEMMA SameCalls ==
  ASSUME stored' = stored, announced' = announced,
         \A c \in Calls : Unpacking(c) <=> Unpacking(c)',
         \A c \in Calls : Unpacking(c) => call'[c].blk = call[c].blk
  PROVE  Status' = Status
<1>1. \A b \in Blocks, c \in Calls : Owns(c, b)' <=> Owns(c, b)
  BY DEF Owns
<1>2. QED
  BY <1>1, SameOwners

\* Some owners end without an answer: their blocks are torn.
LEMMA OwnersEnd ==
  ASSUME OneOwner, TypeOK, stored' = stored, announced' = announced,
         NEW L \in SUBSET Calls, \A c \in L : ~Unpacking(c)',
         \A c \in Calls \ L : call'[c] = call[c]
  PROVE  [Ledger!Next]_Status
<1> DEFINE S == {b \in Blocks : \E c \in L : Owns(c, b)}
<1>1. \A b \in S : Indexing(b)
  BY DEF OneOwner, Owns, Indexing
<1>2. \A b \in S, c \in Calls : ~Owns(c, b)'
  <2> SUFFICES ASSUME NEW b \in S, NEW c \in Calls, Owns(c, b)' PROVE FALSE
    OBVIOUS
  <2>1. c \notin L /\ Owns(c, b)
    BY DEF Owns, Unpacking
  <2>2. PICK d \in L : Owns(d, b)
    OBVIOUS
  <2>3. QED
    BY <2>1, <2>2 DEF OneOwner, Owns
<1>3. \A b \in Blocks \ S : (\E c \in Calls : Owns(c, b)') <=> (\E c \in Calls : Owns(c, b))
  <2> SUFFICES ASSUME NEW b \in Blocks \ S
               PROVE  (\E c \in Calls : Owns(c, b)') <=> (\E c \in Calls : Owns(c, b))
    OBVIOUS
  <2>1. \A c \in L : ~Owns(c, b) /\ ~Owns(c, b)'
    BY DEF Owns
  <2>2. \A c \in Calls \ L : Owns(c, b)' <=> Owns(c, b)
    BY DEF Owns, Unpacking
  <2>3. QED
    BY <2>1, <2>2
<1>4. \A b \in Blocks : LedgerStatus(b)' = IF b \in S THEN "torn" ELSE LedgerStatus(b)
  BY <1>1, <1>2, <1>3 DEF LedgerStatus, Indexing
<1>5. Status' = [b \in Blocks |-> IF b \in S THEN "torn" ELSE Status[b]]
  BY <1>4 DEF Status
<1>6. CASE S = {}
  BY <1>5, <1>6 DEF Status
<1>7. CASE S # {}
  <2>1. \A b \in S : Status[b] = "indexing"
    BY <1>1, StatusMeaning
  <2>2. Ledger!Abandon(S)
    BY <1>5, <1>7, <2>1 DEF Ledger!Abandon, Status
  <2>3. S \in SUBSET Blocks
    OBVIOUS
  <2>4. QED
    BY <2>2, <2>3 DEF Ledger!Next
<1>8. QED
  BY <1>6, <1>7

\* The INSERT is the ledger's Record, or a stutter for a hash already present.
LEMMA LedgerInsert ==
  ASSUME TypeOK, Core, NEW c \in Calls, InsertBlock(c)
  PROVE  [Ledger!Next]_Status
<1>a. call \in [Calls -> CallStates] /\ call[c].blk \in Blocks /\ ~Unpacking(c)
  BY CallStateFacts DEF TypeOK, InsertBlock, Unpacking
<1>b. PICK b \in Blocks : b = call[c].blk
  BY <1>a
<1>0. call \in [Calls -> CallStates] /\ b = call[c].blk /\ ~Unpacking(c)
  BY <1>a, <1>b
<1>1. announced' = announced /\ stored' = stored \cup {b}
  BY <1>0 DEF InsertBlock, history
<1>2. \A d \in Calls \ {c} : call'[d] = call[d]
  BY <1>0 DEF InsertBlock, Return
<1>3. CASE b \in stored
  <2>1. call'[c].pc = "idle"
    BY <1>0, <1>3 DEF InsertBlock, RowCount, Return, IdleCall
  <2>2. \A d \in Calls : /\ Unpacking(d) <=> Unpacking(d)'
                         /\ Unpacking(d) => call'[d].blk = call[d].blk
    BY <1>0, <1>2, <2>1 DEF Unpacking
  <2>3. QED
    BY <1>1, <1>3, <2>2, SameCalls
<1>4. CASE b \notin stored
  <2>1. call'[c] = [pc |-> "unpack", blk |-> b]
    BY <1>0, <1>4 DEF InsertBlock, RowCount
  <2>2. Owns(c, b)' /\ \A d \in Calls \ {c}, a \in Blocks : Owns(d, a)' <=> Owns(d, a)
    BY <1>2, <2>1 DEF Owns, Unpacking
  <2>3. \A a \in Blocks : a # b => ~Owns(c, a)' /\ ~Owns(c, a)
    BY <1>0, <2>1 DEF Owns
  <2>4. \A a \in Blocks \ {b} : LedgerStatus(a)' = LedgerStatus(a)
    BY <1>1, <2>2, <2>3 DEF LedgerStatus
  <2>5. b \notin announced
    BY <1>4 DEF Core, FreshUnpack
  <2>6. LedgerStatus(b)' = "indexing" /\ Status[b] = "absent"
    <3>1. b \in stored' /\ b \notin announced' /\ \E d \in Calls : Owns(d, b)'
      BY <1>1, <2>2, <2>5
    <3>2. LedgerStatus(b)' = "indexing"
      BY <3>1 DEF LedgerStatus
    <3>3. LedgerStatus(b) = "absent"
      BY <1>4, <2>5 DEF LedgerStatus
    <3>4. QED
      BY <1>0, <3>2, <3>3 DEF Status
  <2>7. Status' = [Status EXCEPT ![b] = "indexing"]
    BY <1>0, <2>4, <2>6 DEF Status
  <2>8. Ledger!Record(b)
    BY <2>6, <2>7 DEF Ledger!Record, Status
  <2>9. QED
    BY <1>0, <2>8 DEF Ledger!Next
<1>5. QED
  BY <1>3, <1>4

\* An INSERT whose answer is lost is the ledger's RecordUnheard, or a stutter.
LEMMA LedgerInsertUnheard ==
  ASSUME TypeOK, Core, NEW c \in Calls, InsertUnheard(c)
  PROVE  [Ledger!Next]_Status
<1>a. call \in [Calls -> CallStates] /\ call[c].blk \in Blocks /\ ~Unpacking(c)
  BY CallStateFacts DEF TypeOK, InsertUnheard, Unpacking
<1>b. PICK b \in Blocks : b = call[c].blk
  BY <1>a
<1>0. call \in [Calls -> CallStates] /\ b = call[c].blk /\ ~Unpacking(c)
  BY <1>a, <1>b
<1>1. /\ announced' = announced /\ stored' = stored \cup {b}
      /\ call'[c].pc = "idle" /\ \A d \in Calls \ {c} : call'[d] = call[d]
  BY <1>0 DEF InsertUnheard, history, Return, IdleCall
<1>2. \A d \in Calls : /\ Unpacking(d) <=> Unpacking(d)'
                       /\ Unpacking(d) => call'[d].blk = call[d].blk
  BY <1>0, <1>1 DEF Unpacking
<1>3. CASE b \in stored
  BY <1>1, <1>2, <1>3, SameCalls
<1>4. CASE b \notin stored
  <2>1. \A a \in Blocks, d \in Calls : Owns(d, a)' <=> Owns(d, a)
    BY <1>2 DEF Owns
  <2>2. \A d \in Calls : ~Owns(d, b)
    BY <1>4 DEF Owns, Core, OneOwner
  <2>3. \A a \in Blocks \ {b} : LedgerStatus(a)' = LedgerStatus(a)
    BY <1>1, <2>1 DEF LedgerStatus
  <2>4. b \notin announced
    BY <1>4 DEF Core, FreshUnpack
  <2>5. LedgerStatus(b)' = "torn" /\ Status[b] = "absent"
    <3>1. b \in stored' /\ b \notin announced' /\ \A d \in Calls : ~Owns(d, b)'
      BY <1>0, <1>1, <2>1, <2>2, <2>4
    <3>2. LedgerStatus(b)' = "torn"
      BY <3>1 DEF LedgerStatus
    <3>3. LedgerStatus(b) = "absent"
      BY <1>4, <2>4 DEF LedgerStatus
    <3>4. QED
      BY <1>0, <3>2, <3>3 DEF Status
  <2>6. Status' = [Status EXCEPT ![b] = "torn"]
    BY <1>0, <2>3, <2>5 DEF Status
  <2>7. Ledger!RecordUnheard(b)
    BY <2>5, <2>6 DEF Ledger!RecordUnheard, Status
  <2>8. QED
    BY <1>0, <2>7 DEF Ledger!Next
<1>5. QED
  BY <1>3, <1>4

\* The end of the loops is the ledger's Complete.
LEMMA LedgerFinish ==
  ASSUME TypeOK, Core, NEW c \in Calls, FinishUnpack(c)
  PROVE  [Ledger!Next]_Status
<1>a. call \in [Calls -> CallStates] /\ call[c].blk \in Blocks /\ Unpacking(c)
  BY CallStateFacts DEF TypeOK, FinishUnpack, Unpacking
<1>b. PICK b \in Blocks : b = call[c].blk
  BY <1>a
<1>0. call \in [Calls -> CallStates] /\ b = call[c].blk /\ Unpacking(c)
  BY <1>a, <1>b
<1>1. /\ announced' = announced \cup {b} /\ stored' = stored
      /\ call'[c].pc = "idle" /\ \A d \in Calls \ {c} : call'[d] = call[d]
  BY <1>0 DEF FinishUnpack, tables, Return, IdleCall
<1>2. \A a \in Blocks \ {b}, d \in Calls : Owns(d, a)' <=> Owns(d, a)
  BY <1>0, <1>1 DEF Owns, Unpacking
<1>3. \A a \in Blocks \ {b} : LedgerStatus(a)' = LedgerStatus(a)
  BY <1>1, <1>2 DEF LedgerStatus
<1>4. Status[b] = "indexing"
  BY <1>0, StatusMeaning DEF Core, OneOwner, Indexing, Owns
<1>5. LedgerStatus(b)' = "indexed"
  <2>1. b \in announced'
    BY <1>1
  <2>2. QED
    BY <2>1 DEF LedgerStatus
<1>6. Status' = [Status EXCEPT ![b] = "indexed"]
  BY <1>0, <1>3, <1>5 DEF Status
<1>7. Ledger!Complete(b)
  BY <1>4, <1>6 DEF Ledger!Complete, Status
<1>8. QED
  BY <1>0, <1>7 DEF Ledger!Next

\* A call that returns, or all of them at a crash, may leave a torn block behind.
LEMMA LedgerReturn ==
  ASSUME TypeOK, Core, NEW c \in Calls, NEW reply, Return(c, reply),
         stored' = stored, announced' = announced
  PROVE  [Ledger!Next]_Status
<1>1. /\ \A d \in {c} : ~Unpacking(d)'
      /\ \A d \in Calls \ {c} : call'[d] = call[d]
  BY DEF TypeOK, Return, IdleCall, Unpacking
<1>2. {c} \in SUBSET Calls /\ OneOwner
  BY DEF Core
<1>3. QED
  BY <1>1, <1>2, OwnersEnd

\* A call that goes on keeps its block.
LEMMA LedgerContinue ==
  ASSUME TypeOK, NEW c \in Calls, NEW r,
         call' = [call EXCEPT ![c] = r], stored' = stored, announced' = announced,
         r.pc \in {"unpack", "put", "index"} <=> Unpacking(c),
         Unpacking(c) => r.blk = call[c].blk
  PROVE  [Ledger!Next]_Status
<1>1. call'[c] = r /\ \A d \in Calls \ {c} : call'[d] = call[d]
  BY DEF TypeOK
<1>2. \A d \in Calls : /\ Unpacking(d) <=> Unpacking(d)'
                       /\ Unpacking(d) => call'[d].blk = call[d].blk
  BY <1>1 DEF Unpacking
<1>3. QED
  BY <1>2, SameCalls

\* Every step of handleBlock() and its environment is a step of the ledger or none.
LEMMA LedgerStep == TypeOK /\ Core /\ [Next]_vars => [Ledger!Next]_Status
<1> SUFFICES ASSUME TypeOK, Core, [Next]_vars PROVE [Ledger!Next]_Status
  OBVIOUS
<1>1. ASSUME NEW c \in Calls, NEW b \in Blocks, HandleBlock(c, b)
      PROVE [Ledger!Next]_Status
  <2>1. CASE Return(c, "error")
    BY <1>1, <2>1, LedgerReturn DEF HandleBlock, tables, history
  <2>2. CASE call' = [call EXCEPT ![c] = [pc |-> "select", blk |-> b]]
    <3>1. ~Unpacking(c)
      BY <1>1 DEF HandleBlock, Unpacking
    <3>2. QED
      BY <1>1, <2>2, <3>1, LedgerContinue DEF HandleBlock, tables, history
  <2>3. QED
    BY <1>1, <2>1, <2>2 DEF HandleBlock
<1>2. ASSUME NEW c \in Calls, SelectHash(c) PROVE [Ledger!Next]_Status
  <2>1. CASE Return(c, "duplicate")
    BY <1>2, <2>1, LedgerReturn DEF SelectHash, tables, history
  <2>2. CASE call' = [call EXCEPT ![c] = [pc |-> "insert", blk |-> call[c].blk]]
    <3>1. ~Unpacking(c)
      BY <1>2 DEF SelectHash, Unpacking
    <3>2. QED
      BY <1>2, <2>2, <3>1, LedgerContinue DEF SelectHash, tables, history
  <2>3. QED
    BY <1>2, <2>1, <2>2 DEF SelectHash
<1>3. ASSUME NEW c \in Calls, BeginUnpack(c) PROVE [Ledger!Next]_Status
  <2>1. CASE nodeShards = {}
    BY <1>3, <2>1, LedgerReturn DEF BeginUnpack, tables, history
  <2>2. CASE nodeShards # {}
    <3>1. Unpacking(c)
      BY <1>3 DEF BeginUnpack, Unpacking
    <3>2. /\ AtPosition("put", call[c].blk, nodeShards, 1).pc = "put"
          /\ AtPosition("put", call[c].blk, nodeShards, 1).blk = call[c].blk
      BY DEF AtPosition
    <3>3. QED
      BY <1>3, <2>2, <3>1, <3>2, LedgerContinue DEF BeginUnpack, tables
  <2>3. QED
    BY <2>1, <2>2
<1>4. ASSUME NEW c \in Calls, NEW pc \in {"put", "index"}, NEW i, Unpacking(c),
             call' = [call EXCEPT ![c] = AtPosition(pc, call[c].blk, call[c].view, i)],
             stored' = stored, announced' = announced
      PROVE  [Ledger!Next]_Status
  <2>1. /\ AtPosition(pc, call[c].blk, call[c].view, i).pc = pc
        /\ AtPosition(pc, call[c].blk, call[c].view, i).blk = call[c].blk
    BY DEF AtPosition
  <2>2. QED
    BY <1>4, <2>1, LedgerContinue
<1>5. ASSUME NEW c \in Calls, Skip(c) PROVE [Ledger!Next]_Status
  <2>1. Unpacking(c) /\ Advance(c) /\ stored' = stored /\ announced' = announced
    BY <1>5 DEF Skip, AtDelivery, Unpacking, tables, history
  <2>2. QED
    BY <1>4, <2>1 DEF Advance
<1>6. ASSUME NEW c \in Calls, PutRow(c) PROVE [Ledger!Next]_Status
  BY <1>4, <1>6 DEF PutRow, AtDelivery, Advance, Unpacking, history
<1>7. ASSUME NEW c \in Calls, IndexTx(c) PROVE [Ledger!Next]_Status
  <2>1. Unpacking(c) /\ stored' = stored /\ announced' = announced
    BY <1>7 DEF IndexTx, Unpacking, tables, history
  <2>2. CASE Advance(c)
    BY <1>4, <2>1, <2>2 DEF Advance
  <2>3. CASE Return(c, "error")
    BY <2>1, <2>3, LedgerReturn
  <2>4. QED
    BY <1>7, <2>2, <2>3 DEF IndexTx
<1>8. ASSUME NEW c \in Calls, PutThrows(c) PROVE [Ledger!Next]_Status
  BY <1>8, LedgerReturn DEF PutThrows, tables, history
<1>9. ASSUME NEW c \in Calls, DbFails(c) PROVE [Ledger!Next]_Status
  BY <1>9, LedgerReturn DEF DbFails, tables, history
<1>10. ASSUME Crash PROVE [Ledger!Next]_Status
  <2>1. \A c \in Calls : ~Unpacking(c)'
    BY <1>10 DEF Crash, IdleCall, Unpacking
  <2>2. QED
    BY <1>10, <2>1, OwnersEnd DEF Crash, Core, tables, history
<1>11. ASSUME UNCHANGED <<tables, call, history>> PROVE [Ledger!Next]_Status
  BY <1>11, SameOwners DEF tables, history, Owns, Unpacking
<1>12. ASSUME NEW v \in Validators, NodeAdded(v) PROVE [Ledger!Next]_Status
  BY <1>11, <1>12 DEF NodeAdded
<1>13. ASSUME NEW n \in 1..MaxValPerBlock, BlockParamsUpdated(n)
       PROVE [Ledger!Next]_Status
  BY <1>11, <1>13 DEF BlockParamsUpdated
<1>14. ASSUME NEW S \in ShardViews, MappingChanged(S) PROVE [Ledger!Next]_Status
  BY <1>11, <1>14 DEF MappingChanged
<1>15. CASE UNCHANGED vars
  BY <1>11, <1>15 DEF vars
<1>16. QED
  BY <1>1, <1>2, <1>3, <1>5, <1>6, <1>7, <1>8, <1>9, <1>10, <1>12, <1>13, <1>14,
     <1>15, LedgerInsert, LedgerInsertUnheard, LedgerFinish DEF Next, Step

\* handleBlock() implements the ledger: every block is recorded once, indexed by one
\* owner, and never taken up again.
THEOREM Refinement == Spec => ImplementsLedger
<1>1. Init => Ledger!Init
  BY DEF Init, Ledger!Init, LedgerStatus
<1>2. IInv /\ [Next]_vars => [Ledger!Next]_Status
  BY LedgerStep DEF IInv, Core
<1>3. [Ledger!Next]_Status => [Ledger!Next]_[b \in Blocks |-> LedgerStatus(b)]
  BY DEF Status
<1>4. QED
  BY <1>1, <1>2, <1>3, IntakeInvariant, PTL DEF Spec, ImplementsLedger, Ledger!Spec
==============================================================================
