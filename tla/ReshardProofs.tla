---------------------------- MODULE ReshardProofs ----------------------------
(***************************************************************************)
(* Proofs about Reshard: its inductive invariant RInv, the two grace       *)
(* periods that follow from it, and that the peers of what is on record    *)
(* were asked for it, but those that said no or have no NodeInfo.          *)
(***************************************************************************)
EXTENDS Reshard, FiniteSetTheorems, TLAPS

USE DEF Rows, Days

\* A page of rows or blocks is a part of what it is taken from.
LEMMA PageIsPart ==
  ASSUME NEW S, NEW k, NEW P \in Page(S, k)
  PROVE  P \subseteq S
BY DEF Page, kSubset

\* The number of rows of a shard is a natural number, and so is that of its pages.
LEMMA PagesAreNat ==
  ASSUME TypeOK, NEW s \in Shards
  PROVE  (Cardinality(InShard(s)) + PageSize - 1) \div PageSize \in Nat
<1>1. InShard(s) \in SUBSET Rows
  BY DEF TypeOK, InShard
<1>2. Cardinality(InShard(s)) \in Nat
  BY <1>1, TablesAssumption, FS_Subset, FS_CardinalityType
<1>3. PageSize \in Nat /\ PageSize >= 1
  BY PageSizeAssumption
<1>4. Cardinality(InShard(s)) + PageSize - 1 \in Nat
  BY <1>2, <1>3
<1> QED
  BY <1>3, <1>4

\* The states a reshard passes through are typed.
LEMMA StatesTyped ==
  ASSUME NEW new \in SUBSET Shards, NEW old \in SUBSET Shards, NEW x \in Days,
         NEW todo \in SUBSET Shards, NEW s \in Shards, NEW n \in Nat, NEW m \in Nat,
         NEW P \in SUBSET Peers
  PROVE  /\ [pc |-> "answered", new |-> new] \in HandlerStates
         /\ [pc |-> "learned"] \in HandlerStates
         /\ [pc |-> "load", new |-> new] \in HandlerStates
         /\ [pc |-> "count", new |-> new, old |-> old, expiry |-> x, todo |-> todo]
              \in HandlerStates
         /\ [pc |-> "rows", new |-> new, old |-> old, expiry |-> x, todo |-> todo,
             shard |-> s, page |-> n, pages |-> m] \in HandlerStates
         /\ [pc |-> "blocks", new |-> new, old |-> old, expiry |-> x, offset |-> n]
              \in HandlerStates
         /\ [pc |-> "plan", new |-> new, old |-> old, left |-> P] \in HandlerStates
         /\ Idle \in HandlerStates
BY DEF HandlerStates, Idle

\* What the program counter of a reshard says about its other fields.
LEMMA FieldsTyped ==
  ASSUME NEW u \in HandlerStates
  PROVE  /\ u.pc \in {"idle", "answered", "learned", "load", "count", "rows", "blocks",
                       "plan"}
         /\ u.pc = "idle" => u = Idle
         /\ u.pc \notin {"idle", "learned"} => u.new \in SUBSET Shards
         /\ u.pc \in {"answered", "load"} => u = [pc |-> u.pc, new |-> u.new]
         /\ u.pc \in {"count", "rows", "blocks", "plan"} => u.old \in SUBSET Shards
         /\ u.pc \in {"count", "rows", "blocks"} => u.expiry \in Days
         /\ u.pc \in {"count", "rows"} => u.todo \in SUBSET Shards
         /\ u.pc = "rows" => /\ u.shard \in Shards /\ u.page \in Nat /\ u.pages \in Nat
                             /\ u = [pc |-> "rows", new |-> u.new, old |-> u.old,
                                     expiry |-> u.expiry, todo |-> u.todo,
                                     shard |-> u.shard, page |-> u.page,
                                     pages |-> u.pages]
         /\ u.pc = "blocks" => /\ u.offset \in Nat
                               /\ u = [pc |-> "blocks", new |-> u.new, old |-> u.old,
                                       expiry |-> u.expiry, offset |-> u.offset]
         /\ u.pc = "plan" => /\ u.left \in SUBSET Peers
                             /\ u = [pc |-> "plan", new |-> u.new, old |-> u.old,
                                     left |-> u.left]
BY DEF HandlerStates, Idle

\* A reshard that goes on, in a typed state, or ends leaves the others as they are.
LEMMA GotoTyped ==
  ASSUME TypeOK, NEW h \in Handlers, NEW state \in HandlerStates, Goto(h, state)
  PROVE  handler' \in [Handlers -> HandlerStates] /\ phase' \in {"down", "boot", "up"}
BY DEF Goto, TypeOK

LEMMA EndTyped ==
  ASSUME TypeOK, NEW h \in Handlers, EndOf(h)
  PROVE  handler' \in [Handlers -> HandlerStates] /\ phase' \in {"down", "boot", "up"}
BY DEF EndOf, TypeOK, HandlerStates

\* The same for the two places where the code chooses how to go on.
LEMMA PlanTyped ==
  ASSUME TypeOK, NEW h \in Handlers, NEW new \in SUBSET Shards, NEW old \in SUBSET Shards,
         PlanOrEnd(h, new, old)
  PROVE  handler' \in [Handlers -> HandlerStates] /\ phase' \in {"down", "boot", "up"}
<1>1. PeersFor(ToAdd(new, old)) \in SUBSET Peers
  BY DEF PeersFor, TypeOK
<1>2. [pc |-> "plan", new |-> new, old |-> old, left |-> PeersFor(ToAdd(new, old))]
        \in HandlerStates
  BY <1>1 DEF HandlerStates
<1> QED
  BY <1>2, GotoTyped, EndTyped DEF PlanOrEnd

LEMMA MarkNextTyped ==
  ASSUME TypeOK, NEW h \in Handlers, handler[h].pc \in {"count", "rows"},
         NEW todo \in SUBSET Shards, MarkNext(h, todo)
  PROVE  handler' \in [Handlers -> HandlerStates] /\ phase' \in {"down", "boot", "up"}
<1>1. handler[h] \in HandlerStates
  BY DEF TypeOK
<1>2. /\ handler[h].new \in SUBSET Shards /\ handler[h].old \in SUBSET Shards
      /\ handler[h].expiry \in Days
  BY <1>1, FieldsTyped
<1>3. /\ [pc |-> "blocks", new |-> handler[h].new, old |-> handler[h].old,
          expiry |-> handler[h].expiry, offset |-> 0] \in HandlerStates
      /\ [pc |-> "count", new |-> handler[h].new, old |-> handler[h].old,
          expiry |-> handler[h].expiry, todo |-> todo] \in HandlerStates
  BY <1>2 DEF HandlerStates
<1> QED
  BY <1>3, GotoTyped DEF MarkNext

\* The tables are typed functions on what they hold; the parts of TypeOK that most
\* steps leave alone.
ShardsTyped ==
  /\ assigned \in ShardViews /\ nodeShards \subseteq Shards /\ saved \subseteq Shards
  /\ storageNodes \subseteq Peers

TablesTyped ==
  /\ DOMAIN inbox \subseteq Rows /\ inbox \in [DOMAIN inbox -> Days]
  /\ DOMAIN blocks \subseteq Blocks /\ blocks \in [DOMAIN blocks -> Days]
  /\ planned \subseteq Peers \X Shards /\ declined \subseteq Peers \X Shards
  /\ unknown \subseteq Peers \X Shards

RunTyped ==
  /\ phase \in {"down", "boot", "up"} /\ pending \in Nat
  /\ handler \in [Handlers -> HandlerStates] /\ inFlight \subseteq Rows /\ skip \in Nat

ClockTyped ==
  /\ today \in 1..MaxDays /\ removed \in [Shards -> 0..today]
  /\ counts \in [{"arrivals", "changes", "failures", "crashes"} -> Nat]

\* TypeOK, put together from its parts.
LEMMA TypeParts == TypeOK <=> ShardsTyped /\ TablesTyped /\ RunTyped /\ ClockTyped
BY DEF TypeOK, ShardsTyped, TablesTyped, RunTyped, ClockTyped

\* Counting an event keeps the counters natural numbers.
LEMMA CountedTyped ==
  ASSUME TypeOK, NEW k \in {"arrivals", "changes", "failures", "crashes"}, NEW max,
         Counted(k, max)
  PROVE  counts' \in [{"arrivals", "changes", "failures", "crashes"} -> Nat]
BY DEF TypeOK, Counted

\* After a crash the service is down and no reshard is under way.
LEMMA DownTyped ==
  ASSUME GoDown
  PROVE  RunTyped'
BY DEF GoDown, RunTyped, HandlerStates

\* The inboxes a block fills are rows.
LEMMA DueRowsTyped ==
  ASSUME NEW b \in Blocks, NEW view
  PROVE  DueRows(b, view) \subseteq Contents[b] /\ DueRows(b, view) \subseteq Rows
BY ContentsAssumption DEF DueRows

\* The pairs asked for are pairs of a peer and a shard.
LEMMA AskedTyped ==
  ASSUME NEW P \in SUBSET Peers, NEW S \in SUBSET Shards
  PROVE  AskedFor(P, S) \subseteq Peers \X Shards
BY DEF AskedFor

\* Init establishes the inductive invariant.
LEMMA InitInv == Init => RInv
<1> SUFFICES ASSUME Init PROVE RInv
  OBVIOUS
<1>1. ShardsTyped /\ ClockTyped
  BY ViewsAssumption, ReshardBoundsAssumption DEF Init, ShardsTyped, ClockTyped
<1>2. RunTyped
  BY DEF Init, RunTyped, HandlerStates
<1>3. /\ TablesTyped /\ RowsComeFromBlocks
      /\ RowsExpireWithCause /\ BlocksExpireWithCause
  <2>1. CASE inbox = <<>> /\ blocks = <<>> /\ declined = {} /\ unknown = {}
    <3>1. DOMAIN inbox = {} /\ DOMAIN blocks = {}
      BY <2>1
    <3> QED
      BY <2>1, <3>1 DEF Init, TablesTyped, RowsComeFromBlocks, RowsExpireWithCause,
                        BlocksExpireWithCause
  <2>2. ASSUME NEW B \in SUBSET Blocks, blocks = [b \in B |-> 0],
               inbox = [r \in UNION {DueRows(b, assigned) : b \in B} |-> 0],
               declined = AskedFor(storageNodes, assigned),
               unknown = AskedFor(Peers \ storageNodes, assigned)
        PROVE  /\ TablesTyped /\ RowsComeFromBlocks
               /\ RowsExpireWithCause /\ BlocksExpireWithCause
    <3>1. \A r \in DOMAIN inbox : r \in Rows /\ \E b \in Blocks : r \in Contents[b]
      BY <2>2, DueRowsTyped
    <3>2. \A r \in DOMAIN inbox : r = [shard |-> r.shard, tx |-> r.tx]
      BY <3>1
    <3>3. RowsComeFromBlocks
      BY <3>1, <3>2 DEF RowsComeFromBlocks, TxShards, Init
    <3>4. assigned \in SUBSET Shards /\ storageNodes \in SUBSET Peers
      BY ViewsAssumption DEF Init
    <3>5. declined \subseteq Peers \X Shards /\ unknown \subseteq Peers \X Shards
      BY <2>2, <3>4, AskedTyped
    <3>b. planned = {} /\ DOMAIN inbox \subseteq Rows /\ DOMAIN blocks \subseteq Blocks
      BY <2>2, <3>1 DEF Init
    <3>c. inbox \in [DOMAIN inbox -> Days] /\ blocks \in [DOMAIN blocks -> Days]
      BY <2>2, ReshardBoundsAssumption
    <3>a. TablesTyped
      BY <3>5, <3>b, <3>c DEF TablesTyped
    <3>6. RowsExpireWithCause /\ BlocksExpireWithCause
      BY <2>2 DEF RowsExpireWithCause, BlocksExpireWithCause
    <3> QED
      BY <3>3, <3>a, <3>6
  <2> QED
    BY <2>1, <2>2 DEF Init
<1>4. MarksAreGrounded
  BY DEF Init, MarksAreGrounded, Idle
<1> QED
  BY <1>1, <1>2, <1>3, <1>4, TypeParts DEF RInv

\* Every step keeps the types of what the node knows and of the clock.
LEMMA ShardsAndClockStep ==
  ASSUME TypeOK, [Next]_vars
  PROVE  ShardsTyped' /\ ClockTyped'
<1> USE TypeParts DEF ShardsTyped, ClockTyped, node, plans, tables
<1>1. ASSUME NEW S \in ShardViews, Reassign(S) PROVE ShardsTyped' /\ ClockTyped'
  BY <1>1, CountedTyped DEF Reassign
<1>a. ASSUME NEW p \in Peers, Register(p) PROVE ShardsTyped' /\ ClockTyped'
  BY <1>a, CountedTyped DEF Register
<1>b. ASSUME NEW h \in Handlers, TakeShards(h) PROVE ShardsTyped' /\ ClockTyped'
  BY <1>b DEF TakeShards
<1>2. ASSUME NEW h \in Handlers, Boot(h) \/ Deliver(h)
      PROVE  ShardsTyped' /\ ClockTyped'
  BY <1>2 DEF Boot, Deliver
<1>3. ASSUME NEW h \in Handlers, Learn(h) PROVE ShardsTyped' /\ ClockTyped'
  <2>1. handler[h] \in HandlerStates
    BY DEF TypeOK
  <2>2. handler[h].new \in SUBSET Shards
    BY <1>3, <2>1, FieldsTyped DEF Learn
  <2> QED
    BY <1>3, <2>2 DEF Learn
<1>4. ASSUME NEW h \in Handlers, LoadSaved(h) PROVE ShardsTyped' /\ ClockTyped'
  BY <1>4, ReshardBoundsAssumption DEF LoadSaved
<1>5. ASSUME NEW h \in Handlers, CountRows(h) \/ MarkPage(h) \/ MarkBlocks(h) \/ AskPeer(h)
      PROVE  ShardsTyped' /\ ClockTyped'
  BY <1>5 DEF CountRows, MarkPage, MarkBlocks, AskPeer
<1>6. ASSUME NEW h \in Handlers, Save(h) PROVE ShardsTyped' /\ ClockTyped'
  <2>1. handler[h] \in HandlerStates
    BY DEF TypeOK
  <2>2. handler[h].new \in SUBSET Shards
    BY <1>6, <2>1, FieldsTyped DEF Save
  <2> QED
    BY <1>6, <2>2 DEF Save
<1>7. ASSUME NEW h \in Handlers, ReshardFails(h) \/ AskFails(h)
      PROVE  ShardsTyped' /\ ClockTyped'
  BY <1>7, CountedTyped DEF ReshardFails, AskFails
<1>8. ASSUME NEW b \in Blocks, BlockArrives(b) PROVE ShardsTyped' /\ ClockTyped'
  BY <1>8, CountedTyped DEF BlockArrives
<1>9. ASSUME NEW r \in inFlight, PutRow(r) PROVE ShardsTyped' /\ ClockTyped'
  BY <1>9 DEF PutRow
<1>10. CASE DeleteRows \/ DeleteBlocks
  BY <1>10 DEF DeleteRows, DeleteBlocks
<1>11. CASE Crash
  BY <1>11, CountedTyped DEF Crash
<1>12. CASE DayPasses
  BY <1>12, ReshardBoundsAssumption DEF DayPasses
<1>13. CASE UNCHANGED vars
  BY <1>13 DEF vars
<1> QED
  BY <1>1, <1>a, <1>b, <1>2, <1>3, <1>4, <1>5, <1>6, <1>7, <1>8, <1>9, <1>10, <1>11,
     <1>12, <1>13
     DEF Next, HandlerStep

\* Every step keeps the types of the tables.
LEMMA TablesStep ==
  ASSUME TypeOK, RowsComeFromBlocks, [Next]_vars
  PROVE  TablesTyped'
<1> USE TypeParts DEF TablesTyped, node, plans, tables
<1>1. ASSUME NEW S \in ShardViews, Reassign(S) PROVE TablesTyped'
  BY <1>1 DEF Reassign
<1>a. ASSUME NEW p \in Peers, Register(p) PROVE TablesTyped'
  BY <1>a DEF Register
<1>2. ASSUME NEW h \in Handlers,
             \/ Boot(h) \/ Deliver(h) \/ Learn(h) \/ TakeShards(h) \/ CountRows(h)
             \/ Save(h) \/ ReshardFails(h) \/ AskFails(h)
      PROVE  TablesTyped'
  BY <1>2 DEF Boot, Deliver, Learn, TakeShards, CountRows, Save, ReshardFails, AskFails
<1>b. ASSUME NEW h \in Handlers, NEW new, NEW old, PlanOrEnd(h, new, old),
             new \in SUBSET Shards
      PROVE  unknown' \subseteq Peers \X Shards
  <2>1. ToAdd(new, old) \in SUBSET Shards
    BY <1>b DEF ToAdd
  <2>2. AskedFor(Peers \ storageNodes, ToAdd(new, old)) \subseteq Peers \X Shards
    BY <2>1, AskedTyped
  <2> QED
    BY <1>b, <2>2 DEF PlanOrEnd
<1>c. ASSUME NEW h \in Handlers, LoadSaved(h) PROVE TablesTyped'
  <2>1. handler[h] \in HandlerStates /\ handler[h].pc = "load"
    BY <1>c DEF TypeOK, LoadSaved
  <2>2. handler[h].new \in SUBSET Shards
    BY <2>1, FieldsTyped
  <2>3. PlanOrEnd(h, handler[h].new, saved) \/ unknown' = unknown
    BY <1>c DEF LoadSaved
  <2> QED
    BY <1>b, <1>c, <2>2, <2>3 DEF LoadSaved
<1>3. ASSUME NEW h \in Handlers, MarkPage(h) PROVE TablesTyped'
  <2>1. handler[h] \in HandlerStates
    BY DEF TypeOK
  <2>2. handler[h].expiry \in Days
    BY <1>3, <2>1, FieldsTyped DEF MarkPage
  <2>3. PICK P : inbox' = [r \in DOMAIN inbox |-> IF \E q \in P : q.tx = r.tx
                                                   THEN handler[h].expiry ELSE inbox[r]]
    BY <1>3 DEF MarkPage
  <2>4. UNCHANGED <<blocks, plans>>
    BY <1>3 DEF MarkPage
  <2> QED
    BY <2>2, <2>3, <2>4
<1>4. ASSUME NEW h \in Handlers, MarkBlocks(h) PROVE TablesTyped'
  <2>1. handler[h] \in HandlerStates
    BY DEF TypeOK
  <2>2. handler[h].expiry \in Days
    BY <1>4, <2>1, FieldsTyped DEF MarkBlocks
  <2>3. PICK P : blocks' = [b \in DOMAIN blocks |-> IF b \in P THEN handler[h].expiry
                                                     ELSE blocks[b]]
    BY <1>4 DEF MarkBlocks
  <2>4. UNCHANGED <<inbox, planned, declined>>
    BY <1>4 DEF MarkBlocks
  <2>5. handler[h].new \in SUBSET Shards
    BY <1>4, <2>1, FieldsTyped DEF MarkBlocks
  <2>6. PlanOrEnd(h, handler[h].new, handler[h].old) \/ unknown' = unknown
    BY <1>4 DEF MarkBlocks
  <2> QED
    BY <1>b, <2>2, <2>3, <2>4, <2>5, <2>6
<1>5. ASSUME NEW h \in Handlers, AskPeer(h) PROVE TablesTyped'
  <2>1. handler[h] \in HandlerStates
    BY DEF TypeOK
  <2>2. /\ handler[h].new \in SUBSET Shards /\ handler[h].left \in SUBSET Peers
    BY <1>5, <2>1, FieldsTyped DEF AskPeer
  <2>3. ToAdd(handler[h].new, handler[h].old) \in SUBSET Shards
    BY <2>2 DEF ToAdd
  <2>4. PICK p \in handler[h].left :
          LET pairs == AskedFor({p}, ToAdd(handler[h].new, handler[h].old))
          IN \/ planned' = planned \cup pairs /\ UNCHANGED declined
             \/ declined' = declined \cup pairs /\ UNCHANGED planned
    BY <1>5 DEF AskPeer
  <2>5. AskedFor({p}, ToAdd(handler[h].new, handler[h].old)) \subseteq Peers \X Shards
    BY <2>2, <2>3, AskedTyped
  <2>6. UNCHANGED <<inbox, blocks, unknown>>
    BY <1>5 DEF AskPeer
  <2> QED
    BY <2>4, <2>5, <2>6
<1>6. ASSUME NEW b \in Blocks, BlockArrives(b) PROVE TablesTyped'
  BY <1>6, ReshardBoundsAssumption DEF BlockArrives
<1>7. ASSUME NEW r \in inFlight, PutRow(r) PROVE TablesTyped'
  <2>1. r \in Rows
    BY DEF TypeOK
  <2> QED
    BY <1>7, <2>1, ReshardBoundsAssumption DEF PutRow
<1>8. CASE DeleteRows
  BY <1>8 DEF DeleteRows, Restrict
<1>9. CASE DeleteBlocks
  BY <1>9 DEF DeleteBlocks, Restrict
<1>10. CASE Crash \/ DayPasses
  BY <1>10 DEF Crash, DayPasses
<1>11. CASE UNCHANGED vars
  BY <1>11 DEF vars
<1> QED
  BY <1>1, <1>a, <1>2, <1>c, <1>3, <1>4, <1>5, <1>6, <1>7, <1>8, <1>9, <1>10, <1>11
     DEF Next, HandlerStep

\* Every step keeps the types of the service, its reshards and its unpacking.
LEMMA RunStep ==
  ASSUME TypeOK, [Next]_vars
  PROVE  RunTyped'
<1> USE TypeParts DEF RunTyped, node, plans, tables
<1>1. ASSUME NEW S \in ShardViews, Reassign(S) PROVE RunTyped'
  BY <1>1 DEF Reassign
<1>a. ASSUME NEW p \in Peers, Register(p) PROVE RunTyped'
  BY <1>a DEF Register
<1>2. ASSUME NEW h \in Handlers, Boot(h) \/ Deliver(h) PROVE RunTyped'
  <2>1. assigned \in SUBSET Shards
    BY ViewsAssumption DEF TypeOK
  <2>2. [pc |-> "answered", new |-> assigned] \in HandlerStates
    BY <2>1 DEF HandlerStates
  <2> QED
    BY <1>2, <2>2 DEF Boot, Deliver, Ask
<1>3. ASSUME NEW h \in Handlers, Learn(h) PROVE RunTyped'
  BY <1>3 DEF Learn, HandlerStates
<1>b. ASSUME NEW h \in Handlers, TakeShards(h) PROVE RunTyped'
  <2>1. [pc |-> "load", new |-> nodeShards] \in HandlerStates
    BY DEF HandlerStates, TypeOK
  <2> QED
    BY <1>b, <2>1, DownTyped DEF TakeShards
<1>4. ASSUME NEW h \in Handlers, LoadSaved(h) PROVE RunTyped'
  <2>1. handler[h] \in HandlerStates
    BY DEF TypeOK
  <2>2. handler[h].new \in SUBSET Shards /\ saved \in SUBSET Shards
    BY <1>4, <2>1, FieldsTyped DEF LoadSaved, TypeOK
  <2>3. ToDelete(handler[h].new, saved) \in SUBSET Shards
    BY <2>2 DEF ToDelete
  <2>4. ExpiryTime \in Days
    BY ReshardBoundsAssumption DEF ExpiryTime, TypeOK
  <2>5. [pc |-> "count", new |-> handler[h].new, old |-> saved, expiry |-> ExpiryTime,
         todo |-> ToDelete(handler[h].new, saved)] \in HandlerStates
    BY <2>2, <2>3, <2>4 DEF HandlerStates
  <2>6. /\ handler' \in [Handlers -> HandlerStates]
        /\ phase' \in {"down", "boot", "up"}
    BY <1>4, <2>2, <2>5, EndTyped, PlanTyped, GotoTyped DEF LoadSaved
  <2> QED
    BY <1>4, <2>6 DEF LoadSaved
<1>5. ASSUME NEW h \in Handlers, CountRows(h) PROVE RunTyped'
  <2>1. handler[h] \in HandlerStates
    BY DEF TypeOK
  <2>2. /\ handler[h].new \in SUBSET Shards /\ handler[h].old \in SUBSET Shards
        /\ handler[h].expiry \in Days /\ handler[h].todo \in SUBSET Shards
    BY <1>5, <2>1, FieldsTyped DEF CountRows
  <2> DEFINE pages(s) == (Cardinality(InShard(s)) + PageSize - 1) \div PageSize
             state(s) == [pc |-> "rows", new |-> handler[h].new, old |-> handler[h].old,
                          expiry |-> handler[h].expiry, todo |-> handler[h].todo \ {s},
                          shard |-> s, page |-> 0, pages |-> pages(s)]
  <2>3. PICK s \in handler[h].todo : \/ MarkNext(h, handler[h].todo \ {s})
                                     \/ Goto(h, state(s))
    BY <1>5 DEF CountRows
  <2>4. s \in Shards /\ handler[h].todo \ {s} \in SUBSET Shards
    BY <2>2
  <2>5. pages(s) \in Nat
    BY <2>4, PagesAreNat
  <2>6. state(s) \in HandlerStates
    <3> HIDE DEF pages
    <3> QED
      BY <2>2, <2>4, <2>5, StatesTyped
  <2>7. /\ handler' \in [Handlers -> HandlerStates]
        /\ phase' \in {"down", "boot", "up"}
    <3>1. handler[h].pc \in {"count", "rows"}
      BY <1>5 DEF CountRows
    <3> HIDE DEF state
    <3> QED
      BY <2>3, <2>4, <2>6, <3>1, GotoTyped, MarkNextTyped
  <2> QED
    BY <1>5, <2>7 DEF CountRows
<1>6. ASSUME NEW h \in Handlers, MarkPage(h) PROVE RunTyped'
  <2>1. handler[h] \in HandlerStates /\ handler[h].pc = "rows"
    BY <1>6 DEF TypeOK, MarkPage
  <2>2. [handler[h] EXCEPT !.page = @ + 1] \in HandlerStates
    BY <2>1, FieldsTyped DEF HandlerStates
  <2>3. handler[h].todo \in SUBSET Shards
    BY <2>1, FieldsTyped
  <2>4. \/ Goto(h, [handler[h] EXCEPT !.page = @ + 1])
        \/ MarkNext(h, handler[h].todo)
    BY <1>6 DEF MarkPage
  <2>5. /\ handler' \in [Handlers -> HandlerStates]
        /\ phase' \in {"down", "boot", "up"}
    BY <2>1, <2>2, <2>3, <2>4, GotoTyped, MarkNextTyped
  <2> QED
    BY <1>6, <2>5 DEF MarkPage
<1>7. ASSUME NEW h \in Handlers, MarkBlocks(h) PROVE RunTyped'
  <2>1. handler[h] \in HandlerStates /\ handler[h].pc = "blocks"
    BY <1>7 DEF TypeOK, MarkBlocks
  <2>2. [handler[h] EXCEPT !.offset = @ + PageSize] \in HandlerStates
    BY <2>1, FieldsTyped, PageSizeAssumption DEF HandlerStates
  <2>3. handler[h].new \in SUBSET Shards /\ handler[h].old \in SUBSET Shards
    BY <2>1, FieldsTyped
  <2>4. \/ Goto(h, [handler[h] EXCEPT !.offset = @ + PageSize])
        \/ PlanOrEnd(h, handler[h].new, handler[h].old)
    BY <1>7 DEF MarkBlocks
  <2>5. /\ handler' \in [Handlers -> HandlerStates]
        /\ phase' \in {"down", "boot", "up"}
    BY <2>2, <2>3, <2>4, GotoTyped, PlanTyped
  <2> QED
    BY <1>7, <2>5 DEF MarkBlocks
<1>8. ASSUME NEW h \in Handlers, AskPeer(h) PROVE RunTyped'
  <2>1. handler[h] \in HandlerStates /\ handler[h].pc = "plan"
    BY <1>8 DEF TypeOK, AskPeer
  <2>2. PICK p \in handler[h].left : Goto(h, [handler[h] EXCEPT !.left = @ \ {p}])
    BY <1>8 DEF AskPeer
  <2>3. [handler[h] EXCEPT !.left = @ \ {p}] \in HandlerStates
    BY <2>1, FieldsTyped DEF HandlerStates
  <2>4. /\ handler' \in [Handlers -> HandlerStates]
        /\ phase' \in {"down", "boot", "up"}
    BY <2>2, <2>3, GotoTyped
  <2> QED
    BY <1>8, <2>4 DEF AskPeer
<1>9. ASSUME NEW h \in Handlers, Save(h) \/ ReshardFails(h) PROVE RunTyped'
  <2>1. EndOf(h)
    BY <1>9 DEF Save, ReshardFails
  <2> QED
    BY <1>9, <2>1, EndTyped DEF Save, ReshardFails
<1>10. ASSUME NEW h \in Handlers, AskFails(h) PROVE RunTyped'
  BY <1>10, DownTyped DEF AskFails
<1>11. ASSUME NEW b \in Blocks, BlockArrives(b) PROVE RunTyped'
  <2>1. DueRows(b, nodeShards) \subseteq Rows
    BY DueRowsTyped
  <2> QED
    BY <1>11, <2>1 DEF BlockArrives
<1>12. ASSUME NEW r \in inFlight, PutRow(r) PROVE RunTyped'
  BY <1>12 DEF PutRow
<1>13. CASE DeleteRows
  BY <1>13 DEF DeleteRows
<1>14. CASE DeleteBlocks
  <2>1. skip' = 0 \/ skip' = skip + PageSize
    BY <1>14 DEF DeleteBlocks
  <2> QED
    BY <1>14, <2>1, PageSizeAssumption DEF DeleteBlocks
<1>15. CASE Crash
  BY <1>15, DownTyped DEF Crash
<1>16. CASE DayPasses \/ UNCHANGED vars
  BY <1>16 DEF DayPasses, vars
<1> QED
  BY <1>1, <1>a, <1>b, <1>2, <1>3, <1>4, <1>5, <1>6, <1>7, <1>8, <1>9, <1>10, <1>11,
     <1>12, <1>13, <1>14, <1>15, <1>16
     DEF Next, HandlerStep

\* A shard that was removed before some day stays so: the first day of its removal
\* is never overwritten.
LEMMA RemovedStays ==
  ASSUME TypeOK, [Next]_vars, NEW s \in Shards, NEW d, RemovedBefore(s, d)
  PROVE  RemovedBefore(s, d)'
<1>1. removed' = removed \/ \E h \in Handlers : LoadSaved(h)
  BY DEF Next, vars, node, Reassign, Register, Boot, Deliver, HandlerStep, Learn,
         TakeShards, CountRows, MarkPage, MarkBlocks, AskPeer, Save, ReshardFails,
         AskFails, BlockArrives, PutRow, DeleteRows, DeleteBlocks, Crash, DayPasses
<1>2. removed'[s] = removed[s]
  BY <1>1 DEF LoadSaved, RemovedBefore
<1> QED
  BY <1>2 DEF RemovedBefore

\* Rows in the inboxes and on their way there always come from blocks.
LEMMA OriginStep ==
  ASSUME RInv, [Next]_vars
  PROVE  RowsComeFromBlocks'
<1>1. \/ DOMAIN inbox' \cup inFlight' \subseteq DOMAIN inbox \cup inFlight
      \/ \E b \in Blocks : /\ inFlight' = inFlight \cup DueRows(b, nodeShards)
                           /\ inbox' = inbox
  <2> USE DEF node, plans, tables
  <2>1. ASSUME NEW h \in Handlers, MarkPage(h) PROVE DOMAIN inbox' = DOMAIN inbox
    BY <2>1 DEF MarkPage
  <2>2. CASE DeleteRows
    BY <2>2 DEF DeleteRows, Restrict
  <2>3. ASSUME NEW r \in inFlight, PutRow(r)
        PROVE  DOMAIN inbox' \cup inFlight' \subseteq DOMAIN inbox \cup inFlight
    BY <2>3 DEF PutRow
  <2> QED
    BY <2>1, <2>2, <2>3
       DEF Next, vars, Reassign, Register, Boot, Deliver, HandlerStep, Learn,
           TakeShards, GoDown, LoadSaved, CountRows, MarkPage, MarkBlocks, AskPeer,
           Save, ReshardFails, AskFails, BlockArrives, DeleteBlocks, Crash, DayPasses
<1>2. ASSUME NEW b \in Blocks, NEW r \in DueRows(b, nodeShards)
      PROVE  r.shard \in TxShards(r.tx)
  <2>1. r \in Contents[b] /\ r \in Rows
    BY DueRowsTyped
  <2>2. r = [shard |-> r.shard, tx |-> r.tx] /\ r.shard \in Shards
    BY <2>1
  <2> QED
    BY <2>1, <2>2 DEF TxShards
<1> QED
  BY <1>1, <1>2 DEF RInv, RowsComeFromBlocks, TxShards

\* What MarksAreGrounded says of one reshard.
Grounded(u) ==
  LET del == ToDelete(u.new, u.old)
  IN /\ u.pc \in {"count", "rows", "blocks"} => \A s \in del : RemovedBefore(s, u.expiry)
     /\ u.pc \in {"count", "rows"} => u.todo \subseteq del
     /\ u.pc = "rows" => u.shard \in del

\* A reshard that has nothing to mark, or is done with it, is grounded.
LEMMA UnmarkingGrounded ==
  ASSUME NEW u, u.pc \in {"idle", "answered", "learned", "load", "plan"}
  PROVE  Grounded(u)
BY DEF Grounded

\* A step of a reshard that leaves the history alone takes it to a grounded state.
LEMMA MarkNextGrounded ==
  ASSUME TypeOK, NEW h \in Handlers, handler[h].pc \in {"count", "rows"},
         Grounded(handler[h]), UNCHANGED removed,
         NEW todo \in SUBSET handler[h].todo, MarkNext(h, todo)
  PROVE  Grounded(handler[h])'
<1>1. handler' = [handler EXCEPT ![h] = handler'[h]]
  BY DEF MarkNext, Goto, TypeOK
<1>2. \/ handler'[h] = [pc |-> "blocks", new |-> handler[h].new, old |-> handler[h].old,
                        expiry |-> handler[h].expiry, offset |-> 0]
      \/ handler'[h] = [pc |-> "count", new |-> handler[h].new, old |-> handler[h].old,
                        expiry |-> handler[h].expiry, todo |-> todo]
  BY DEF MarkNext, Goto, TypeOK
<1> QED
  BY <1>2 DEF Grounded, RemovedBefore

LEMMA PlanGrounded ==
  ASSUME TypeOK, NEW h \in Handlers, NEW new, NEW old, PlanOrEnd(h, new, old)
  PROVE  handler'[h].pc \in {"idle", "plan"}
BY DEF PlanOrEnd, EndOf, Goto, TypeOK, Idle

\* A reshard takes up the removal of shards only together with the record of it.
LEMMA MarksStep ==
  ASSUME RInv, [Next]_vars
  PROVE  MarksAreGrounded'
<1> SUFFICES ASSUME NEW k \in Handlers PROVE Grounded(handler[k])'
  BY DEF MarksAreGrounded, Grounded
<1> USE DEF node, plans, tables
<1>1. TypeOK /\ Grounded(handler[k])
  BY DEF RInv, MarksAreGrounded, Grounded
<1>2. handler[k] \in HandlerStates
  BY <1>1 DEF TypeOK
<1>3. CASE handler'[k] = handler[k]
  <2>1. \A s \in Shards : \A d \in Days :
          RemovedBefore(s, d) => removed'[s] # 0 /\ removed'[s] < d
    BY <1>1, RemovedStays DEF RemovedBefore
  <2>2. handler[k].pc \in {"count", "rows", "blocks"} =>
          /\ ToDelete(handler[k].new, handler[k].old) \subseteq Shards
          /\ handler[k].expiry \in Days
    BY <1>2, FieldsTyped DEF ToDelete
  <2>3. handler[k].pc \in {"count", "rows", "blocks"} =>
          \A s \in ToDelete(handler[k].new, handler[k].old) :
            removed'[s] # 0 /\ removed'[s] < handler[k].expiry
    BY <1>1, <2>1, <2>2 DEF Grounded
  <2> QED
    BY <1>1, <1>3, <2>3 DEF Grounded, RemovedBefore
<1>4. CASE handler'[k].pc \in {"idle", "answered", "learned", "load", "plan"}
  BY <1>4 DEF Grounded
<1>5. CASE LoadSaved(k)
  <2>1. handler[k].new \in SUBSET Shards /\ saved \in SUBSET Shards
    BY <1>1, <1>2, <1>5, FieldsTyped DEF LoadSaved, TypeOK
  <2> DEFINE del == ToDelete(handler[k].new, saved)
  <2>2. \/ handler'[k].pc \in {"idle", "plan"}
        \/ handler'[k] = [pc |-> "count", new |-> handler[k].new, old |-> saved,
                          expiry |-> today + 1, todo |-> del]
    BY <1>1, <1>5, PlanGrounded
       DEF LoadSaved, EndOf, Goto, TypeOK, Idle, ExpiryTime
  <2>3. \A s \in del : removed'[s] # 0 /\ removed'[s] < today + 1
    BY <1>1, <1>5, <2>1 DEF LoadSaved, ToDelete, TypeOK
  <2> QED
    BY <1>4, <2>2, <2>3 DEF Grounded, RemovedBefore
<1>6. CASE CountRows(k)
  <2>1. handler[k].pc = "count" /\ UNCHANGED removed
    BY <1>6 DEF CountRows
  <2>2. PICK s \in handler[k].todo :
          \/ MarkNext(k, handler[k].todo \ {s})
          \/ \E n \in {(Cardinality(InShard(s)) + PageSize - 1) \div PageSize} :
               Goto(k, [pc |-> "rows", new |-> handler[k].new, old |-> handler[k].old,
                        expiry |-> handler[k].expiry, todo |-> handler[k].todo \ {s},
                        shard |-> s, page |-> 0, pages |-> n])
    BY <1>6 DEF CountRows
  <2>3. CASE MarkNext(k, handler[k].todo \ {s})
    <3>1. handler[k].todo \ {s} \in SUBSET handler[k].todo
      OBVIOUS
    <3> QED
      BY <1>1, <2>1, <2>3, <3>1, MarkNextGrounded
  <2>4. ASSUME NEW n,
               Goto(k, [pc |-> "rows", new |-> handler[k].new, old |-> handler[k].old,
                        expiry |-> handler[k].expiry, todo |-> handler[k].todo \ {s},
                        shard |-> s, page |-> 0, pages |-> n])
        PROVE  Grounded(handler[k])'
    <3>1. handler'[k] = [pc |-> "rows", new |-> handler[k].new, old |-> handler[k].old,
                         expiry |-> handler[k].expiry, todo |-> handler[k].todo \ {s},
                         shard |-> s, page |-> 0, pages |-> n]
      BY <1>1, <2>4 DEF Goto, TypeOK
    <3> QED
      BY <1>1, <2>1, <3>1 DEF Grounded, RemovedBefore
  <2> QED
    BY <2>2, <2>3, <2>4
<1>7. CASE MarkPage(k)
  <2>1. handler[k].pc = "rows" /\ UNCHANGED removed
    BY <1>7 DEF MarkPage
  <2>2. \/ Goto(k, [handler[k] EXCEPT !.page = @ + 1])
        \/ MarkNext(k, handler[k].todo)
    BY <1>7 DEF MarkPage
  <2>3. CASE MarkNext(k, handler[k].todo)
    BY <1>1, <2>1, <2>3, MarkNextGrounded
  <2>4. CASE Goto(k, [handler[k] EXCEPT !.page = @ + 1])
    <3>1. handler'[k] = [handler[k] EXCEPT !.page = @ + 1]
      BY <1>1, <2>4 DEF Goto, TypeOK
    <3>2. /\ handler'[k].pc = "rows" /\ handler'[k].new = handler[k].new
          /\ handler'[k].old = handler[k].old /\ handler'[k].todo = handler[k].todo
          /\ handler'[k].expiry = handler[k].expiry /\ handler'[k].shard = handler[k].shard
      BY <1>2, <2>1, <3>1, FieldsTyped
    <3> QED
      BY <1>1, <2>1, <3>2 DEF Grounded, RemovedBefore
  <2> QED
    BY <2>2, <2>3, <2>4
<1>8. CASE MarkBlocks(k)
  <2>1. handler[k].pc = "blocks" /\ UNCHANGED removed
    BY <1>8 DEF MarkBlocks
  <2>2. \/ PlanOrEnd(k, handler[k].new, handler[k].old)
        \/ Goto(k, [handler[k] EXCEPT !.offset = @ + PageSize])
    BY <1>8 DEF MarkBlocks
  <2>3. CASE PlanOrEnd(k, handler[k].new, handler[k].old)
    BY <1>1, <1>4, <2>3, PlanGrounded
  <2>4. CASE Goto(k, [handler[k] EXCEPT !.offset = @ + PageSize])
    <3>1. handler'[k] = [handler[k] EXCEPT !.offset = @ + PageSize]
      BY <1>1, <2>4 DEF Goto, TypeOK
    <3>2. /\ handler'[k].pc = "blocks" /\ handler'[k].new = handler[k].new
          /\ handler'[k].old = handler[k].old /\ handler'[k].expiry = handler[k].expiry
      BY <1>2, <2>1, <3>1, FieldsTyped
    <3> QED
      BY <1>1, <2>1, <3>2 DEF Grounded, RemovedBefore
  <2> QED
    BY <2>2, <2>3, <2>4
<1>9. ASSUME NEW h \in Handlers,
             \/ LoadSaved(h) \/ CountRows(h) \/ MarkPage(h) \/ MarkBlocks(h), h # k
      PROVE  handler'[k] = handler[k]
  BY <1>1, <1>9
     DEF LoadSaved, CountRows, MarkPage, MarkBlocks, MarkNext, PlanOrEnd, EndOf, Goto,
         TypeOK
<1>10. ASSUME NEW h \in Handlers,
              \/ Boot(h) \/ Deliver(h) \/ Learn(h) \/ TakeShards(h) \/ Save(h)
              \/ ReshardFails(h) \/ AskFails(h)
       PROVE  \/ handler'[k] = handler[k]
              \/ handler'[k].pc \in {"idle", "answered", "learned", "load"}
  BY <1>1, <1>2, <1>10, FieldsTyped
     DEF Boot, Deliver, Ask, Learn, TakeShards, GoDown, Save, ReshardFails, AskFails,
         EndOf, TypeOK, Idle
<1>11. ASSUME NEW h \in Handlers, AskPeer(h)
       PROVE  handler'[k] = handler[k] \/ handler'[k].pc = "plan"
  <2>1. handler[h].pc = "plan" /\ handler[h] \in HandlerStates
    BY <1>1, <1>11 DEF AskPeer, TypeOK
  <2>2. PICK p : Goto(h, [handler[h] EXCEPT !.left = @ \ {p}])
    BY <1>11 DEF AskPeer
  <2>3. [handler[h] EXCEPT !.left = @ \ {p}].pc = "plan"
    BY <2>1, FieldsTyped
  <2> QED
    BY <1>1, <2>2, <2>3 DEF Goto, TypeOK
<1>12. CASE \/ \E S \in ShardViews : Reassign(S)
            \/ \E p \in Peers : Register(p)
            \/ \E b \in Blocks : BlockArrives(b)
            \/ \E r \in inFlight : PutRow(r)
            \/ DeleteRows \/ DeleteBlocks \/ Crash \/ DayPasses \/ UNCHANGED vars
  <2>1. handler' = handler \/ handler'[k] = Idle
    BY <1>12 DEF Reassign, Register, BlockArrives, PutRow, DeleteRows, DeleteBlocks,
                 Crash, GoDown, DayPasses, vars
  <2> QED
    BY <1>3, <1>4, <2>1 DEF Idle
<1> QED
  BY <1>3, <1>4, <1>5, <1>6, <1>7, <1>8, <1>9, <1>10, <1>11, <1>12 DEF Next, HandlerStep

\* A row gets its expiration date from a reshard that removed a shard of its
\* transaction.
LEMMA RowsCauseStep ==
  ASSUME RInv, [Next]_vars
  PROVE  RowsExpireWithCause'
<1> USE DEF node, plans, tables
<1>1. TypeOK /\ RowsComeFromBlocks /\ RowsExpireWithCause
  BY DEF RInv
<1>2. ASSUME NEW r \in DOMAIN inbox, inbox[r] # 0
      PROVE  \E s \in TxShards(r.tx) : RemovedBefore(s, inbox[r])
                                         /\ removed'[s] # 0 /\ removed'[s] < inbox[r]
  <2>1. PICK s \in TxShards(r.tx) : RemovedBefore(s, inbox[r])
    BY <1>1, <1>2 DEF RowsExpireWithCause
  <2>2. s \in Shards /\ inbox[r] \in Days
    BY <1>1, <2>1 DEF TxShards, TypeOK
  <2>3. \A d \in Days : RemovedBefore(s, d) => removed'[s] # 0 /\ removed'[s] < d
    BY <1>1, <2>2, RemovedStays DEF RemovedBefore
  <2> QED
    BY <2>1, <2>2, <2>3
<1>3. CASE \A r \in DOMAIN inbox' : inbox'[r] # 0 => r \in DOMAIN inbox /\ inbox'[r] = inbox[r]
  BY <1>2, <1>3 DEF RowsExpireWithCause, RemovedBefore, TxShards
<1>4. ASSUME NEW h \in Handlers, MarkPage(h) PROVE RowsExpireWithCause'
  <2> DEFINE u == handler[h]
  <2>1. u \in HandlerStates /\ u.pc = "rows" /\ UNCHANGED removed
    BY <1>1, <1>4 DEF TypeOK, MarkPage
  <2>2. u.shard \in ToDelete(u.new, u.old) /\ RemovedBefore(u.shard, u.expiry)
    BY <2>1 DEF RInv, MarksAreGrounded
  <2>3. PICK P \in Page(InShard(u.shard), u.page * PageSize) :
          inbox' = [r \in DOMAIN inbox |-> IF \E q \in P : q.tx = r.tx
                                           THEN u.expiry ELSE inbox[r]]
    BY <1>4 DEF MarkPage
  <2>4. P \subseteq InShard(u.shard)
    BY <2>3, PageIsPart
  <2>5. \A q \in P : u.shard \in TxShards(q.tx)
    BY <1>1, <2>4 DEF InShard, RowsComeFromBlocks
  <2> HIDE DEF u
  <2>6. ASSUME NEW r \in DOMAIN inbox', inbox'[r] # 0
        PROVE  \E s \in TxShards(r.tx) : removed[s] # 0 /\ removed[s] < inbox'[r]
    <3>1. CASE \E q \in P : q.tx = r.tx
      <4>1. u.shard \in TxShards(r.tx)
        BY <2>5, <3>1
      <4>2. inbox'[r] = u.expiry
        BY <2>3, <2>6, <3>1
      <4> QED
        BY <2>2, <4>1, <4>2 DEF RemovedBefore
    <3>2. CASE ~ \E q \in P : q.tx = r.tx
      <4>1. r \in DOMAIN inbox /\ inbox'[r] = inbox[r]
        BY <2>3, <2>6, <3>2
      <4> QED
        BY <1>2, <2>6, <4>1 DEF RemovedBefore
    <3> QED
      BY <3>1, <3>2
  <2> QED
    BY <2>1, <2>6 DEF RowsExpireWithCause, RemovedBefore, TxShards
<1>5. ASSUME NEW r \in inFlight, PutRow(r) PROVE RowsExpireWithCause'
  BY <1>3, <1>5 DEF PutRow
<1>6. CASE DeleteRows
  BY <1>3, <1>6 DEF DeleteRows, Restrict
<1>7. CASE inbox' = inbox
  BY <1>3, <1>7
<1> QED
  BY <1>4, <1>5, <1>6, <1>7
     DEF Next, vars, Reassign, Register, Boot, Deliver, HandlerStep, Learn, TakeShards,
         LoadSaved, CountRows, MarkBlocks, AskPeer, Save, ReshardFails, AskFails,
         BlockArrives, DeleteBlocks, Crash, DayPasses

\* A block gets its expiry date from a reshard that removed all of its shards.
LEMMA BlocksCauseStep ==
  ASSUME RInv, [Next]_vars
  PROVE  BlocksExpireWithCause'
<1> USE DEF node, plans, tables
<1>1. TypeOK /\ BlocksExpireWithCause
  BY DEF RInv
<1>2. ASSUME NEW b \in DOMAIN blocks, blocks[b] # 0, NEW s \in ShardsOf(b)
      PROVE  removed'[s] # 0 /\ removed'[s] < blocks[b]
  <2>1. RemovedBefore(s, blocks[b]) /\ blocks[b] \in Days /\ b \in Blocks
    BY <1>1, <1>2 DEF BlocksExpireWithCause, TypeOK
  <2>2. s \in Shards
    BY <1>2, <2>1, ContentsAssumption DEF ShardsOf
  <2>3. \A d \in Days : RemovedBefore(s, d) => removed'[s] # 0 /\ removed'[s] < d
    BY <1>1, <2>2, RemovedStays DEF RemovedBefore
  <2> QED
    BY <2>1, <2>3
<1>3. CASE \A b \in DOMAIN blocks' :
             blocks'[b] # 0 => b \in DOMAIN blocks /\ blocks'[b] = blocks[b]
  BY <1>2, <1>3 DEF BlocksExpireWithCause, RemovedBefore
<1>4. ASSUME NEW h \in Handlers, MarkBlocks(h) PROVE BlocksExpireWithCause'
  <2> DEFINE u == handler[h]
             obsolete == {b \in DOMAIN blocks : Obsolete(b, ToDelete(u.new, u.old))}
  <2>1. u.pc = "blocks" /\ UNCHANGED removed
    BY <1>4 DEF MarkBlocks
  <2>2. \A s \in ToDelete(u.new, u.old) : RemovedBefore(s, u.expiry)
    BY <2>1 DEF RInv, MarksAreGrounded
  <2>3. PICK P \in Page(obsolete, u.offset) :
          blocks' = [b \in DOMAIN blocks |-> IF b \in P THEN u.expiry ELSE blocks[b]]
    BY <1>4 DEF MarkBlocks
  <2>4. P \subseteq obsolete
    BY <2>3, PageIsPart
  <2>5. \A b \in P : \A s \in ShardsOf(b) : RemovedBefore(s, u.expiry)
    BY <2>2, <2>4 DEF Obsolete
  <2> HIDE DEF u
  <2>6. ASSUME NEW b \in DOMAIN blocks', blocks'[b] # 0, NEW s \in ShardsOf(b)
        PROVE  removed[s] # 0 /\ removed[s] < blocks'[b]
    <3>1. CASE b \in P
      BY <2>3, <2>5, <2>6, <3>1 DEF RemovedBefore
    <3>2. CASE b \notin P
      BY <1>2, <2>1, <2>3, <2>6, <3>2
    <3> QED
      BY <3>1, <3>2
  <2> QED
    BY <2>1, <2>6 DEF BlocksExpireWithCause, RemovedBefore
<1>5. ASSUME NEW b \in Blocks, BlockArrives(b) PROVE BlocksExpireWithCause'
  BY <1>3, <1>5 DEF BlockArrives
<1>6. CASE DeleteBlocks
  BY <1>3, <1>6 DEF DeleteBlocks, Restrict
<1>7. CASE blocks' = blocks
  BY <1>3, <1>7
<1> QED
  BY <1>4, <1>5, <1>6, <1>7
     DEF Next, vars, Reassign, Register, Boot, Deliver, HandlerStep, Learn, TakeShards,
         LoadSaved, CountRows, MarkPage, AskPeer, Save, ReshardFails, AskFails, PutRow,
         DeleteRows, Crash, DayPasses

\* The inductive invariant holds in every reachable state: whatever expires does so
\* because a reshard removed its shard, at least a day before.
THEOREM ReshardInvariant == Spec => []RInv
<1>1. RInv /\ [Next]_vars => RInv'
  BY ShardsAndClockStep, TablesStep, RunStep, OriginStep, MarksStep, RowsCauseStep,
     BlocksCauseStep, TypeParts
     DEF RInv, ShardsTyped, TablesTyped, RunTyped, ClockTyped, TypeOK
<1> QED
  BY InitInv, <1>1, PTL DEF Spec

\* No inbox row is deleted before a day has passed since a reshard removed one of the
\* shards of its transaction.
THEOREM RowsKeepTheirDay == Spec => RowsOutliveRemoval
<1> DEFINE Kept == \A r \in DOMAIN inbox \ DOMAIN inbox' :
                     \E s \in TxShards(r.tx) : RemovedBefore(s, today)
<1>1. RInv /\ [Next]_vars => [Kept]_vars
  <2> SUFFICES ASSUME RInv, Next PROVE Kept
    OBVIOUS
  <2> USE DEF node, plans, tables
  <2>1. CASE DeleteRows
    <3> SUFFICES ASSUME NEW r \in DOMAIN inbox, r \notin DOMAIN inbox'
                 PROVE  \E s \in TxShards(r.tx) : RemovedBefore(s, today)
      OBVIOUS
    <3>1. PICK P \in Page({q \in DOMAIN inbox : Expired(inbox[q])}, 0) :
            inbox' = Restrict(inbox, {q \in DOMAIN inbox : \A d \in P : d.tx # q.tx})
      BY <2>1 DEF DeleteRows
    <3>2. PICK d \in P : d.tx = r.tx
      BY <3>1 DEF Restrict
    <3>3. d \in DOMAIN inbox /\ inbox[d] # 0 /\ inbox[d] <= today
      BY <3>1, PageIsPart DEF Expired
    <3>4. PICK s \in TxShards(d.tx) : RemovedBefore(s, inbox[d])
      BY <3>3 DEF RInv, RowsExpireWithCause
    <3>5. s \in Shards /\ removed[s] \in Nat /\ inbox[d] \in Nat /\ today \in Nat
      BY <3>3, <3>4, ReshardBoundsAssumption DEF RInv, TypeOK, TxShards
    <3> QED
      BY <3>2, <3>3, <3>4, <3>5 DEF RemovedBefore
  <2>2. CASE DOMAIN inbox \subseteq DOMAIN inbox'
    BY <2>2
  <2>3. ASSUME NEW h \in Handlers, MarkPage(h) PROVE DOMAIN inbox' = DOMAIN inbox
    BY <2>3 DEF MarkPage
  <2>4. ASSUME NEW r \in inFlight, PutRow(r) PROVE DOMAIN inbox \subseteq DOMAIN inbox'
    BY <2>4 DEF PutRow
  <2> QED
    BY <2>1, <2>2, <2>3, <2>4
       DEF Next, Reassign, Register, Boot, Deliver, HandlerStep, Learn, TakeShards,
           LoadSaved, CountRows, MarkBlocks, AskPeer, Save, ReshardFails, AskFails,
           BlockArrives, DeleteBlocks, Crash, DayPasses
<1> QED
  BY ReshardInvariant, <1>1, PTL DEF Spec, RowsOutliveRemoval

\* No block is deleted before a day has passed since reshards removed every one of
\* its shards.
THEOREM BlocksKeepTheirDay == Spec => BlocksOutliveRemoval
<1> DEFINE Kept == \A b \in DOMAIN blocks \ DOMAIN blocks' :
                     \A s \in ShardsOf(b) : RemovedBefore(s, today)
<1>1. RInv /\ [Next]_vars => [Kept]_vars
  <2> SUFFICES ASSUME RInv, Next PROVE Kept
    OBVIOUS
  <2> USE DEF node, plans, tables
  <2>1. CASE DeleteBlocks
    <3> SUFFICES ASSUME NEW b \in DOMAIN blocks, b \notin DOMAIN blocks',
                        NEW s \in ShardsOf(b)
                 PROVE  RemovedBefore(s, today)
      OBVIOUS
    <3>1. PICK P \in Page({c \in DOMAIN blocks : Expired(blocks[c])}, skip) :
            blocks' = Restrict(blocks, DOMAIN blocks \ P)
      BY <2>1 DEF DeleteBlocks
    <3>2. b \in P
      BY <3>1 DEF Restrict
    <3>3. blocks[b] # 0 /\ blocks[b] <= today
      BY <3>1, <3>2, PageIsPart DEF Expired
    <3>4. RemovedBefore(s, blocks[b])
      BY <3>3 DEF RInv, BlocksExpireWithCause
    <3>5. removed[s] \in Nat /\ blocks[b] \in Nat /\ today \in Nat
      BY ContentsAssumption, ReshardBoundsAssumption DEF RInv, TypeOK, ShardsOf
    <3> QED
      BY <3>3, <3>4, <3>5 DEF RemovedBefore
  <2>2. CASE DOMAIN blocks \subseteq DOMAIN blocks'
    BY <2>2
  <2>3. ASSUME NEW h \in Handlers, MarkBlocks(h) PROVE DOMAIN blocks' = DOMAIN blocks
    BY <2>3 DEF MarkBlocks
  <2>4. ASSUME NEW c \in Blocks, BlockArrives(c) PROVE DOMAIN blocks \subseteq DOMAIN blocks'
    BY <2>4 DEF BlockArrives
  <2> QED
    BY <2>1, <2>2, <2>3, <2>4
       DEF Next, Reassign, Register, Boot, Deliver, HandlerStep, Learn, TakeShards,
           LoadSaved, CountRows, MarkPage, AskPeer, Save, ReshardFails, AskFails,
           PutRow, DeleteRows, Crash, DayPasses
<1> QED
  BY ReshardInvariant, <1>1, PTL DEF Spec, BlocksOutliveRemoval
------------------------------------------------------------------------------
(* What is on record was asked for. *)

\* What was asked for so far, with or without success, or left out of a plan.
Asked == planned \cup declined \cup unknown

\* A reshard that compares with an earlier record knows that record to be asked for,
\* and of its own additions the part of the peers that have answered.
Followed(u, asked) ==
  /\ u.pc \in {"count", "rows", "blocks", "plan"} =>
       AskedFor(Peers, u.old) \subseteq asked
  /\ u.pc = "plan" => AskedFor(Peers \ u.left, ToAdd(u.new, u.old)) \subseteq asked

PlansFollow == \A h \in Handlers : Followed(handler[h], Asked)

PInv == RInv /\ SavedIsPlanned /\ PlansFollow

\* Peers that have answered stay asked: what happened to a pair is only added to.
LEMMA AskedGrows ==
  ASSUME [Next]_vars
  PROVE  Asked \subseteq Asked'
<1> USE DEF Asked, node, plans, tables
<1>1. ASSUME NEW h \in Handlers, AskPeer(h) PROVE Asked \subseteq Asked'
  BY <1>1 DEF AskPeer
<1>2. ASSUME NEW h \in Handlers, LoadSaved(h) \/ MarkBlocks(h)
      PROVE  Asked \subseteq Asked'
  BY <1>2 DEF LoadSaved, MarkBlocks, PlanOrEnd
<1>3. \/ UNCHANGED plans
      \/ \E h \in Handlers : AskPeer(h) \/ LoadSaved(h) \/ MarkBlocks(h)
  BY DEF Next, vars, Reassign, Register, Boot, Deliver, HandlerStep, Learn, TakeShards,
         CountRows, MarkPage, Save, ReshardFails, AskFails, BlockArrives, PutRow,
         DeleteRows, DeleteBlocks, Crash, DayPasses
<1> QED
  BY <1>1, <1>2, <1>3

\* A plan begins with all known peers that have an added shard; the pairs of the
\* others are noted as passed over.
LEMMA PlanFollows ==
  ASSUME TypeOK, NEW h \in Handlers, NEW new, NEW old, NEW asked,
         AskedFor(Peers, old) \subseteq asked, unknown' \subseteq asked,
         PlanOrEnd(h, new, old)
  PROVE  Followed(handler'[h], asked)
<1>1. \/ handler'[h] = Idle
      \/ /\ handler'[h] = [pc |-> "plan", new |-> new, old |-> old,
                           left |-> PeersFor(ToAdd(new, old))]
         /\ AskedFor(Peers \ storageNodes, ToAdd(new, old)) \subseteq asked
  BY DEF PlanOrEnd, EndOf, Goto, TypeOK
<1>2. AskedFor(Peers \ PeersFor(ToAdd(new, old)), ToAdd(new, old))
        \subseteq AskedFor(Peers \ storageNodes, ToAdd(new, old))
  BY DEF AskedFor, PeersFor
<1> QED
  BY <1>1, <1>2 DEF Followed, Idle

\* While data is marked the comparison stays the one the reshard began with.
LEMMA MarkingFollows ==
  ASSUME TypeOK, NEW h \in Handlers, CountRows(h) \/ MarkPage(h),
         NEW asked, Followed(handler[h], asked)
  PROVE  Followed(handler'[h], asked)
<1> USE DEF TypeOK, Goto
<1>1. handler[h] \in HandlerStates /\ handler[h].pc \in {"count", "rows"}
  BY DEF CountRows, MarkPage
<1>2. ASSUME NEW todo, MarkNext(h, todo)
      PROVE  handler'[h].pc \in {"count", "blocks"} /\ handler'[h].old = handler[h].old
  BY <1>2 DEF MarkNext
<1>3. CASE CountRows(h)
  <2>1. PICK s \in handler[h].todo :
          \/ MarkNext(h, handler[h].todo \ {s})
          \/ \E n \in {(Cardinality(InShard(s)) + PageSize - 1) \div PageSize} :
               Goto(h, [pc |-> "rows", new |-> handler[h].new, old |-> handler[h].old,
                        expiry |-> handler[h].expiry, todo |-> handler[h].todo \ {s},
                        shard |-> s, page |-> 0, pages |-> n])
    BY <1>3 DEF CountRows
  <2>2. handler'[h].pc \in {"count", "rows", "blocks"} /\ handler'[h].old = handler[h].old
    BY <1>2, <2>1
  <2> QED
    BY <1>1, <2>2 DEF Followed
<1>4. CASE MarkPage(h)
  <2>1. \/ Goto(h, [handler[h] EXCEPT !.page = @ + 1])
        \/ MarkNext(h, handler[h].todo)
    BY <1>4 DEF MarkPage
  <2>2. handler[h].pc = "rows"
    BY <1>4 DEF MarkPage
  <2>3. ASSUME Goto(h, [handler[h] EXCEPT !.page = @ + 1])
        PROVE  handler'[h].pc = "rows" /\ handler'[h].old = handler[h].old
    BY <1>1, <2>2, <2>3, FieldsTyped
  <2>4. handler'[h].pc \in {"count", "rows", "blocks"} /\ handler'[h].old = handler[h].old
    BY <1>2, <2>1, <2>3
  <2> QED
    BY <1>1, <2>4 DEF Followed
<1> QED
  BY <1>3, <1>4

\* The peer that answers is the one that is struck off.
LEMMA AskingFollows ==
  ASSUME TypeOK, NEW h \in Handlers, AskPeer(h), Followed(handler[h], Asked)
  PROVE  Followed(handler'[h], Asked')
<1> DEFINE add == ToAdd(handler[h].new, handler[h].old)
<1>1. PICK p \in handler[h].left :
        /\ Asked' = Asked \cup AskedFor({p}, add)
        /\ Goto(h, [handler[h] EXCEPT !.left = @ \ {p}])
  BY DEF AskPeer, Asked
<1>2. handler[h] \in HandlerStates /\ handler[h].pc = "plan"
  BY DEF TypeOK, AskPeer
<1>3. handler'[h] = [handler[h] EXCEPT !.left = @ \ {p}]
  BY <1>1 DEF Goto, TypeOK
<1>4. /\ handler'[h].pc = "plan" /\ handler'[h].left = handler[h].left \ {p}
      /\ handler'[h].new = handler[h].new /\ handler'[h].old = handler[h].old
  BY <1>2, <1>3, FieldsTyped
<1>5. AskedFor(Peers \ (handler[h].left \ {p}), add)
        \subseteq AskedFor(Peers \ handler[h].left, add) \cup AskedFor({p}, add)
  BY DEF AskedFor
<1> QED
  BY <1>1, <1>2, <1>4, <1>5 DEF Followed

\* Every step of a reshard, or of anything else, keeps the plans in order.
LEMMA PlansStep ==
  ASSUME PInv, [Next]_vars
  PROVE  PlansFollow'
<1> SUFFICES ASSUME NEW k \in Handlers PROVE Followed(handler'[k], Asked')
  BY DEF PlansFollow, Followed, AskedFor, ToAdd
<1> USE DEF node, plans, tables
<1>1. TypeOK /\ Followed(handler[k], Asked) /\ AskedFor(Peers, saved) \subseteq Asked
  BY DEF PInv, RInv, PlansFollow, SavedIsPlanned, Asked
<1>2. handler[k] \in HandlerStates
  BY <1>1 DEF TypeOK
<1>3. Asked \subseteq Asked'
  BY AskedGrows
<1>4. ASSUME NEW u, Followed(u, Asked) PROVE Followed(u, Asked')
  BY <1>3, <1>4 DEF Followed
<1>5. CASE handler'[k] = handler[k]
  BY <1>1, <1>4, <1>5
<1>a. unknown' \subseteq Asked'
  BY DEF Asked
<1>6. CASE handler'[k].pc \in {"idle", "answered", "learned", "load"}
  BY <1>6 DEF Followed
<1>7. CASE LoadSaved(k)
  <2>1. \/ handler'[k] = Idle
        \/ PlanOrEnd(k, handler[k].new, saved)
        \/ handler'[k] = [pc |-> "count", new |-> handler[k].new, old |-> saved,
                          expiry |-> ExpiryTime,
                          todo |-> ToDelete(handler[k].new, saved)]
    BY <1>1, <1>7 DEF LoadSaved, EndOf, Goto, TypeOK
  <2>2. CASE PlanOrEnd(k, handler[k].new, saved)
    BY <1>1, <1>3, <1>a, <2>2, PlanFollows
  <2> QED
    BY <1>1, <1>4, <2>1, <2>2 DEF Followed, Idle
<1>8. CASE CountRows(k) \/ MarkPage(k)
  BY <1>1, <1>4, <1>8, MarkingFollows
<1>9. CASE MarkBlocks(k)
  <2>1. handler[k].pc = "blocks" /\ AskedFor(Peers, handler[k].old) \subseteq Asked
    BY <1>1, <1>9 DEF MarkBlocks, Followed
  <2>2. \/ PlanOrEnd(k, handler[k].new, handler[k].old)
        \/ Goto(k, [handler[k] EXCEPT !.offset = @ + PageSize])
    BY <1>9 DEF MarkBlocks
  <2>3. CASE PlanOrEnd(k, handler[k].new, handler[k].old)
    BY <1>1, <1>3, <1>a, <2>1, <2>3, PlanFollows
  <2>4. CASE Goto(k, [handler[k] EXCEPT !.offset = @ + PageSize])
    <3>1. handler'[k] = [handler[k] EXCEPT !.offset = @ + PageSize]
      BY <1>1, <2>4 DEF Goto, TypeOK
    <3>2. handler'[k].pc = "blocks" /\ handler'[k].old = handler[k].old
      BY <1>2, <2>1, <3>1, FieldsTyped
    <3> QED
      BY <1>3, <2>1, <3>2 DEF Followed
  <2> QED
    BY <2>2, <2>3, <2>4
<1>10. CASE AskPeer(k)
  BY <1>1, <1>10, AskingFollows
<1>11. \/ handler'[k] = handler[k]
       \/ handler'[k].pc \in {"idle", "answered", "learned", "load"}
       \/ LoadSaved(k) \/ CountRows(k) \/ MarkPage(k) \/ MarkBlocks(k) \/ AskPeer(k)
  <2> USE <1>1 DEF TypeOK
  <2>1. ASSUME GoDown PROVE handler'[k].pc = "idle"
    BY <2>1 DEF GoDown, Idle
  <2>2. ASSUME NEW h \in Handlers, EndOf(h)
        PROVE  handler'[k] = handler[k] \/ handler'[k].pc = "idle"
    BY <2>2 DEF EndOf, Idle
  <2>3. ASSUME NEW h \in Handlers, Ask(h)
        PROVE  handler'[k] = handler[k] \/ handler'[k].pc = "answered"
    BY <2>3 DEF Ask
  <2>4. ASSUME NEW h \in Handlers, NEW state, Goto(h, state), h # k
        PROVE  handler'[k] = handler[k]
    BY <2>4 DEF Goto
  <2>5. ASSUME NEW h \in Handlers, Learn(h) \/ TakeShards(h)
        PROVE  handler'[k] = handler[k] \/ handler'[k].pc \in {"idle", "learned", "load"}
    BY <2>1, <2>5 DEF Learn, TakeShards
  <2>6. ASSUME NEW h \in Handlers, NEW new, NEW old, PlanOrEnd(h, new, old), h # k
        PROVE  handler'[k] = handler[k] \/ handler'[k].pc = "idle"
    BY <2>2, <2>4, <2>6 DEF PlanOrEnd
  <2>7. ASSUME NEW h \in Handlers, NEW todo, MarkNext(h, todo), h # k
        PROVE  handler'[k] = handler[k]
    BY <2>4, <2>7 DEF MarkNext
  <2>8. ASSUME NEW h \in Handlers, HandlerStep(h), h # k
        PROVE  handler'[k] = handler[k] \/ handler'[k].pc \in {"idle", "learned", "load"}
    <3>1. CASE Learn(h) \/ TakeShards(h)
      BY <2>5, <3>1
    <3>2. CASE LoadSaved(h)
      BY <2>2, <2>4, <2>6, <2>8, <3>2 DEF LoadSaved
    <3>3. CASE CountRows(h)
      BY <2>4, <2>7, <2>8, <3>3 DEF CountRows
    <3>4. CASE MarkPage(h)
      BY <2>4, <2>7, <2>8, <3>4 DEF MarkPage
    <3>5. CASE MarkBlocks(h)
      BY <2>4, <2>6, <2>8, <3>5 DEF MarkBlocks
    <3>6. CASE AskPeer(h)
      BY <2>4, <2>8, <3>6 DEF AskPeer
    <3>7. CASE Save(h)
      BY <2>2, <3>7 DEF Save
    <3> QED
      BY <2>8, <3>1, <3>2, <3>3, <3>4, <3>5, <3>6, <3>7 DEF HandlerStep
  <2>9. CASE Learn(k) \/ TakeShards(k) \/ Save(k)
    BY <2>2, <2>5, <2>9 DEF Save
  <2>10. ASSUME NEW h \in Handlers, Boot(h) \/ Deliver(h)
         PROVE  handler'[k] = handler[k] \/ handler'[k].pc = "answered"
    BY <2>3, <2>10 DEF Boot, Deliver
  <2>11. ASSUME NEW h \in Handlers, ReshardFails(h) \/ AskFails(h)
         PROVE  handler'[k] = handler[k] \/ handler'[k].pc = "idle"
    BY <2>1, <2>2, <2>11 DEF ReshardFails, AskFails
  <2>12. CASE \E h \in Handlers : HandlerStep(h)
    BY <2>8, <2>9, <2>12 DEF HandlerStep
  <2>13. CASE Crash
    BY <2>1, <2>13 DEF Crash
  <2>14. CASE UNCHANGED handler
    BY <2>14
  <2> QED
    BY <2>10, <2>11, <2>12, <2>13, <2>14
       DEF Next, vars, Reassign, Register, BlockArrives, PutRow, DeleteRows,
           DeleteBlocks, DayPasses
<1> QED
  BY <1>5, <1>6, <1>7, <1>8, <1>9, <1>10, <1>11

\* The record changes only when a reshard has all its answers.
LEMMA SavedStep ==
  ASSUME PInv, [Next]_vars
  PROVE  SavedIsPlanned'
<1> USE DEF node, plans, tables
<1>1. Asked \subseteq Asked' /\ AskedFor(Peers, saved) \subseteq Asked
  BY AskedGrows DEF PInv, SavedIsPlanned, Asked
<1>2. saved' = saved \/ \E h \in Handlers : Save(h)
  BY DEF Next, vars, Reassign, Register, Boot, Deliver, HandlerStep, Learn, TakeShards,
         LoadSaved, CountRows, MarkPage, MarkBlocks, AskPeer, ReshardFails, AskFails,
         BlockArrives, PutRow, DeleteRows, DeleteBlocks, Crash, DayPasses
<1>3. ASSUME NEW h \in Handlers, Save(h) PROVE AskedFor(Peers, saved') \subseteq Asked
  <2>1. /\ handler[h].pc = "plan" /\ handler[h].left = {}
        /\ saved' = handler[h].new /\ Followed(handler[h], Asked)
    BY <1>3 DEF Save, PInv, PlansFollow
  <2>2. /\ AskedFor(Peers, handler[h].old) \subseteq Asked
        /\ AskedFor(Peers, ToAdd(handler[h].new, handler[h].old)) \subseteq Asked
    BY <2>1 DEF Followed
  <2>3. AskedFor(Peers, handler[h].new)
          \subseteq AskedFor(Peers, handler[h].old)
                      \cup AskedFor(Peers, ToAdd(handler[h].new, handler[h].old))
    BY DEF AskedFor, ToAdd
  <2> QED
    BY <2>1, <2>2, <2>3
<1> QED
  BY <1>1, <1>2, <1>3 DEF SavedIsPlanned, Asked, AskedFor

\* A shard is on record only after each peer that has it was asked for its blocks or,
\* without NodeInfo, left out of a plan, through overlapping reshards, failures and
\* restarts.
THEOREM RecordedShardsAsked == Spec => []SavedIsPlanned
<1>1. Init => SavedIsPlanned /\ PlansFollow
  BY DEF Init, SavedIsPlanned, PlansFollow, Followed, Idle, AskedFor
<1>2. RInv /\ SavedIsPlanned /\ PlansFollow /\ [Next]_vars
        => SavedIsPlanned' /\ PlansFollow'
  BY PlansStep, SavedStep DEF PInv
<1> QED
  BY ReshardInvariant, <1>1, <1>2, PTL DEF Spec
------------------------------------------------------------------------------
(* Reshards that come one at a time, with a database that answers. *)

\* A reshard that is through the map's update works for the map, and compares with the
\* record, which nobody else changes; between reshards the record has the map.
InTurn(u) ==
  /\ u.pc \notin {"idle", "answered", "learned"} => u.new = nodeShards
  /\ u.pc \in {"count", "rows", "blocks", "plan"} => u.old = saved
  /\ phase = "up" /\ u.pc \in {"idle", "answered"} => nodeShards \subseteq saved

AllInTurn == \A h \in Handlers : InTurn(handler[h])

\* A comparison ends at once, when nothing is added, or goes on to the plan.
LEMMA PlanInTurn ==
  ASSUME TypeOK, NEW h \in Handlers, PlanOrEnd(h, nodeShards, saved),
         UNCHANGED <<nodeShards, saved>>
  PROVE  InTurn(handler[h])'
<1>1. \/ handler'[h] = Idle /\ nodeShards \subseteq saved
      \/ handler'[h] = [pc |-> "plan", new |-> nodeShards, old |-> saved,
                        left |-> PeersFor(ToAdd(nodeShards, saved))]
  BY DEF PlanOrEnd, EndOf, Goto, TypeOK, ToAdd
<1> QED
  BY <1>1 DEF InTurn, Idle

\* A step within the marking or the asking leaves map, record and comparison alone.
LEMMA WithinInTurn ==
  ASSUME NEW h \in Handlers, InTurn(handler[h]), UNCHANGED <<nodeShards, saved>>,
         handler[h].pc \in {"count", "rows", "blocks", "plan"},
         handler'[h].pc \in {"count", "rows", "blocks", "plan"},
         handler'[h].new = handler[h].new, handler'[h].old = handler[h].old
  PROVE  InTurn(handler[h])'
BY DEF InTurn

\* Marking goes on with the same comparison.
LEMMA MarkingInTurn ==
  ASSUME TypeOK, NEW h \in Handlers, InTurn(handler[h]), CountRows(h) \/ MarkPage(h)
  PROVE  InTurn(handler[h])'
<1> USE DEF Goto
<1>1. /\ handler[h] \in HandlerStates /\ handler[h].pc \in {"count", "rows"}
      /\ UNCHANGED <<nodeShards, saved>> /\ handler \in [Handlers -> HandlerStates]
  BY DEF TypeOK, CountRows, MarkPage, node
<1>2. ASSUME NEW todo, MarkNext(h, todo)
      PROVE  /\ handler'[h].pc \in {"count", "blocks"}
             /\ handler'[h].new = handler[h].new /\ handler'[h].old = handler[h].old
  BY <1>1, <1>2 DEF MarkNext
<1>3. /\ handler'[h].pc \in {"count", "rows", "blocks"}
      /\ handler'[h].new = handler[h].new /\ handler'[h].old = handler[h].old
  <2>1. CASE CountRows(h)
    <3>1. PICK s \in handler[h].todo :
            \/ MarkNext(h, handler[h].todo \ {s})
            \/ \E n \in {(Cardinality(InShard(s)) + PageSize - 1) \div PageSize} :
                 Goto(h, [pc |-> "rows", new |-> handler[h].new, old |-> handler[h].old,
                          expiry |-> handler[h].expiry, todo |-> handler[h].todo \ {s},
                          shard |-> s, page |-> 0, pages |-> n])
      BY <2>1 DEF CountRows
    <3> QED
      BY <1>1, <1>2, <3>1
  <2>2. CASE MarkPage(h)
    <3>1. handler[h].pc = "rows"
      BY <2>2 DEF MarkPage
    <3>2. \/ Goto(h, [handler[h] EXCEPT !.page = @ + 1])
          \/ MarkNext(h, handler[h].todo)
      BY <2>2 DEF MarkPage
    <3>3. ASSUME Goto(h, [handler[h] EXCEPT !.page = @ + 1])
          PROVE  /\ handler'[h].pc = "rows"
                 /\ handler'[h].new = handler[h].new /\ handler'[h].old = handler[h].old
      BY <1>1, <3>1, <3>3, FieldsTyped
    <3> QED
      BY <1>2, <3>2, <3>3
  <2> QED
    BY <2>1, <2>2
<1> QED
  BY <1>1, <1>3, WithinInTurn

\* The steps of the one reshard.
LEMMA HandlerInTurn ==
  ASSUME TypeOK, NEW h \in Handlers, InTurn(handler[h]), HandlerStep(h)
  PROVE  InTurn(handler[h])'
<1> USE DEF node
<1>1. handler[h] \in HandlerStates /\ handler \in [Handlers -> HandlerStates]
  BY DEF TypeOK
<1>2. CASE Learn(h)
  BY <1>1, <1>2 DEF Learn, InTurn
<1>a. CASE TakeShards(h)
  BY <1>1, <1>a DEF TakeShards, GoDown, InTurn, Idle
<1>3. CASE LoadSaved(h)
  <2>1. handler[h].new = nodeShards /\ UNCHANGED <<nodeShards, saved>>
    BY <1>3 DEF LoadSaved, InTurn
  <2>2. \/ PlanOrEnd(h, nodeShards, saved)
        \/ handler'[h] = [pc |-> "count", new |-> nodeShards, old |-> saved,
                          expiry |-> ExpiryTime, todo |-> ToDelete(nodeShards, saved)]
    BY <1>1, <1>3, <2>1 DEF LoadSaved, EndOf, Goto
  <2> QED
    BY <2>1, <2>2, PlanInTurn DEF InTurn, Idle
<1>4. CASE CountRows(h) \/ MarkPage(h)
  BY <1>4, MarkingInTurn
<1>5. CASE MarkBlocks(h)
  <2>1. /\ handler[h].pc = "blocks" /\ UNCHANGED <<nodeShards, saved>>
        /\ handler[h].new = nodeShards /\ handler[h].old = saved
    BY <1>5 DEF MarkBlocks, InTurn
  <2>2. \/ PlanOrEnd(h, nodeShards, saved)
        \/ Goto(h, [handler[h] EXCEPT !.offset = @ + PageSize])
    BY <1>5, <2>1 DEF MarkBlocks
  <2>3. CASE Goto(h, [handler[h] EXCEPT !.offset = @ + PageSize])
    <3>1. handler'[h] = [handler[h] EXCEPT !.offset = @ + PageSize]
      BY <1>1, <2>3 DEF Goto
    <3>2. /\ handler'[h].pc = "blocks"
          /\ handler'[h].new = handler[h].new /\ handler'[h].old = handler[h].old
      BY <1>1, <2>1, <3>1, FieldsTyped
    <3> QED
      BY <2>1, <3>2, WithinInTurn
  <2> QED
    BY <2>1, <2>2, <2>3, PlanInTurn
<1>6. CASE AskPeer(h)
  <2>1. handler[h].pc = "plan" /\ UNCHANGED <<nodeShards, saved>>
    BY <1>6 DEF AskPeer
  <2>2. PICK p \in handler[h].left : Goto(h, [handler[h] EXCEPT !.left = @ \ {p}])
    BY <1>6 DEF AskPeer
  <2>3. handler'[h] = [handler[h] EXCEPT !.left = @ \ {p}]
    BY <1>1, <2>2 DEF Goto
  <2>4. /\ handler'[h].pc = "plan"
        /\ handler'[h].new = handler[h].new /\ handler'[h].old = handler[h].old
    BY <1>1, <2>1, <2>3, FieldsTyped
  <2> QED
    BY <2>1, <2>4, WithinInTurn
<1>7. CASE Save(h)
  <2>1. handler[h].new = nodeShards /\ nodeShards' = nodeShards /\ saved' = nodeShards
    BY <1>7 DEF Save, InTurn
  <2>2. handler'[h] = Idle
    BY <1>1, <1>7 DEF Save, EndOf
  <2> QED
    BY <2>1, <2>2 DEF InTurn, Idle
<1> QED
  BY <1>2, <1>a, <1>3, <1>4, <1>5, <1>6, <1>7 DEF HandlerStep

\* With one reshard at a time and as long as no call fails, whatever else happens.
LEMMA InTurnStep ==
  ASSUME NEW one, Handlers = {one}, TypeOK, counts.failures = 0 => AllInTurn, [Next]_vars
  PROVE  counts'.failures = 0 => AllInTurn'
<1> USE DEF node
<1>a. counts.failures \in Nat /\ counts'.failures >= counts.failures
  <2>1. ASSUME NEW k \in {"arrivals", "changes", "failures", "crashes"}, NEW max,
               Counted(k, max)
        PROVE  counts'.failures >= counts.failures
    BY <2>1 DEF Counted, TypeOK
  <2>2. \/ UNCHANGED counts \/ Counted("arrivals", MaxArrivals)
        \/ Counted("changes", MaxChanges) \/ Counted("failures", MaxFailures)
        \/ Counted("crashes", MaxCrashes)
    BY DEF Next, vars, Reassign, Register, Boot, Deliver, HandlerStep, Learn,
           TakeShards, LoadSaved, CountRows, MarkPage, MarkBlocks, AskPeer, Save,
           ReshardFails, AskFails, BlockArrives, PutRow, DeleteRows, DeleteBlocks,
           Crash, DayPasses
  <2>3. counts.failures \in Nat
    BY DEF TypeOK
  <2> QED
    BY <2>1, <2>2, <2>3
<1> SUFFICES ASSUME counts'.failures = 0, counts.failures = 0, AllInTurn
             PROVE  InTurn(handler[one])'
  BY <1>a DEF AllInTurn
<1>1. one \in Handlers /\ InTurn(handler[one]) /\ handler \in [Handlers -> HandlerStates]
  BY DEF AllInTurn, TypeOK
<1>2. ASSUME UNCHANGED <<phase, nodeShards, saved, handler>> PROVE InTurn(handler[one])'
  BY <1>1, <1>2 DEF InTurn
<1>3. CASE HandlerStep(one)
  BY <1>1, <1>3, HandlerInTurn
<1>4. CASE Boot(one)
  BY <1>1, <1>4 DEF Boot, Ask, InTurn
<1>5. CASE Deliver(one)
  BY <1>1, <1>5 DEF Deliver, Ask, InTurn, Idle
<1>6. ASSUME ReshardFails(one) \/ AskFails(one) PROVE FALSE
  BY <1>6 DEF ReshardFails, AskFails, Counted, TypeOK
<1>7. CASE Crash
  BY <1>1, <1>7 DEF Crash, GoDown, InTurn, Idle
<1>8. ASSUME NEW S \in ShardViews, Reassign(S) PROVE InTurn(handler[one])'
  BY <1>2, <1>8 DEF Reassign
<1>b. ASSUME NEW p \in Peers, Register(p) PROVE InTurn(handler[one])'
  BY <1>2, <1>b DEF Register
<1>9. ASSUME NEW b \in Blocks, BlockArrives(b) PROVE InTurn(handler[one])'
  BY <1>2, <1>9 DEF BlockArrives
<1>10. ASSUME NEW r \in inFlight, PutRow(r) PROVE InTurn(handler[one])'
  BY <1>2, <1>10 DEF PutRow
<1>11. CASE DeleteRows \/ DeleteBlocks \/ DayPasses
  BY <1>2, <1>11 DEF DeleteRows, DeleteBlocks, DayPasses
<1>12. CASE UNCHANGED vars
  BY <1>2, <1>12 DEF vars
<1> QED
  BY <1>3, <1>4, <1>5, <1>6, <1>7, <1>8, <1>b, <1>9, <1>10, <1>11, <1>12 DEF Next

\* Whatever shards and blocks there are and however often the process dies: when
\* reshards come one at a time, a node at rest has all its shards on record as long as
\* no call has failed.
THEOREM SerialReshardsAreRecorded ==
  ASSUME NEW one, Handlers = {one}
  PROVE  Spec => []CurrentIsSaved
<1> DEFINE Serial == counts.failures = 0 => AllInTurn
<1>1. Init => Serial
  BY DEF Init, AllInTurn, InTurn, Idle
<1>2. TypeOK /\ Serial /\ [Next]_vars => Serial'
  BY InTurnStep
<1>3. Serial => CurrentIsSaved
  BY DEF AllInTurn, InTurn, CurrentIsSaved, Quiet, Idle
<1>4. RInv => TypeOK
  BY DEF RInv
<1> QED
  BY ReshardInvariant, <1>1, <1>2, <1>3, <1>4, PTL DEF Spec
==============================================================================
