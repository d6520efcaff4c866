------------------------------- MODULE Reshard -------------------------------
(***************************************************************************)
(* How a storage node follows the shard assignment of the contract:        *)
(* StorageContractState reads the assignment at start-up and on every      *)
(* SNodeMappingChanged, StorageNode.handleReshard() compares it with the   *)
(* last one it saved, marks the data of removed shards to expire a day     *)
(* later and plans the sync of added shards; a cron job deletes what has   *)
(* expired.  Reshards run concurrently, interleaved at every await, and    *)
(* beside the unpacking of new blocks.                                     *)
(***************************************************************************)
EXTENDS Integers, FiniteSets, FiniteSetsExt, Functions

CONSTANTS
  Shards, Blocks, Txs,
  Contents,    \* block -> the (shard, tx) pairs of its inboxes
  Peers,       \* the other storage nodes
  PeerShards,  \* peer -> the shards the contract gives it
  ShardViews,  \* the shard sets the contract may assign to this node
  Handlers,    \* slots for reshards that may run at the same time
  PageSize,    \* rows per statement
  MaxArrivals, \* bound: blocks that arrive
  MaxChanges,  \* bound: changes of the assignment and of the storage nodes
  MaxFailures, \* bound: failing calls of the database or the chain
  MaxCrashes,  \* bound: crashes
  MaxDays      \* bound: the last day of the clock

Rows == [shard : Shards, tx : Txs]

ASSUME TablesAssumption == IsFiniteSet(Rows)
ASSUME ContentsAssumption == Contents \in [Blocks -> SUBSET Rows]
ASSUME PeersAssumption == PeerShards \in [Peers -> SUBSET Shards]
ASSUME ViewsAssumption == ShardViews \subseteq SUBSET Shards
ASSUME PageSizeAssumption == PageSize \in Nat \ {0}
ASSUME ReshardBoundsAssumption ==
  /\ MaxArrivals \in Nat /\ MaxChanges \in Nat /\ MaxFailures \in Nat
  /\ MaxCrashes \in Nat /\ MaxDays \in Nat \ {0}

VARIABLES
  assigned,    \* the contract's shards of this node
  phase,       \* the service is "down", in "boot", or "up"
  pending,     \* events the provider has not handed over yet
  nodeShards,  \* nodeShardMap.get(nodeAddress)
  storageNodes, \* the keys of valContractState.getStorageNodesMap()
  saved,       \* the latest row of contract_shards
  inbox,       \* the rows of storage_node -> expiration_ts, 0 for null
  blocks,      \* the rows of blocks -> expiry_ts, 0 for null
  planned,     \* the (peer, shard) pairs of the IN records in storage_sync_info
  handler,     \* the reshards under way
  inFlight,    \* inbox rows that unpackBlockToInboxes() has still to write
  skip,        \* the offset of the block deletion under way
  today,       \* the clock, in days
  removed,     \* history: shard -> the day a reshard first removed it, or 0
  declined,    \* history: (peer, shard) pairs asked for in vain
  unknown,     \* history: (peer, shard) pairs left out of a plan without NodeInfo
  counts       \* of arrivals, changes, failures and crashes

node   == <<nodeShards, storageNodes, saved, removed>>
plans  == <<planned, declined, unknown>>
tables == <<inbox, blocks, plans>>
vars   == <<assigned, phase, pending, node, tables, handler, inFlight, skip,
            today, counts>>

Idle == [pc |-> "idle"]

Days == 0..(MaxDays + 1)

HandlerStates ==
  {Idle}
    \cup [pc : {"answered", "load"}, new : SUBSET Shards] \cup [pc : {"learned"}]
    \cup [pc : {"count"}, new : SUBSET Shards, old : SUBSET Shards,
          expiry : Days, todo : SUBSET Shards]
    \cup [pc : {"rows"}, new : SUBSET Shards, old : SUBSET Shards,
          expiry : Days, todo : SUBSET Shards, shard : Shards, page : Nat, pages : Nat]
    \cup [pc : {"blocks"}, new : SUBSET Shards, old : SUBSET Shards,
          expiry : Days, offset : Nat]
    \cup [pc : {"plan"}, new : SUBSET Shards, old : SUBSET Shards, left : SUBSET Peers]

ShardsOf(b) == {r.shard : r \in Contents[b]}

\* The inboxes of a block that a node with these shards fills: all of them when
\* the block touches none of its shards.
DueRows(b, view) ==
  IF ShardsOf(b) \cap view = {} THEN Contents[b]
  ELSE {r \in Contents[b] : r.shard \in view}

AskedFor(P, S) == {ps \in P \X S : ps[2] \in PeerShards[ps[1]]}

\* The clock starts on day 1, so that 0 can stand for "never" and for null.
Init ==
  /\ pending = 0 /\ skip = 0 /\ today = 1
  /\ planned = {} /\ inFlight = {}
  /\ handler = [h \in Handlers |-> Idle]
  /\ removed = [s \in Shards |-> 0]
  /\ counts = [arrivals |-> 0, changes |-> 0, failures |-> 0, crashes |-> 0]
  /\ assigned \in ShardViews /\ storageNodes \in SUBSET Peers
  /\ \/ \* a first start
        /\ phase = "down" /\ nodeShards = {} /\ saved = {}
        /\ declined = {} /\ unknown = {}
        /\ inbox = <<>> /\ blocks = <<>>
     \/ \* a node in operation
        /\ assigned # {}
        /\ phase = "up" /\ nodeShards = assigned /\ saved = assigned
        /\ declined = AskedFor(storageNodes, assigned)
        /\ unknown = AskedFor(Peers \ storageNodes, assigned)
        /\ \E B \in SUBSET Blocks :
             /\ blocks = [b \in B |-> 0]
             /\ inbox = [r \in UNION {DueRows(b, assigned) : b \in B} |-> 0]

------------------------------------------------------------------------------
(* The contract and the service around handleReshard(). *)

Counted(k, max) == counts[k] < max /\ counts' = [counts EXCEPT ![k] = @ + 1]

\* The contract maps this node to other shards.  The event reaches a service that
\* has subscribed; one that is starting or down never sees it.
Reassign(S) ==
  /\ S # assigned /\ Counted("changes", MaxChanges)
  /\ assigned' = S
  /\ pending' = IF phase = "up" THEN pending + 1 ELSE pending
  /\ UNCHANGED <<phase, node, tables, handler, inFlight, skip, today>>

\* A peer's NodeInfo becomes known: NodeAdded of the validator contract, which names
\* no shards, or the reading of that contract at the next start.
Register(p) ==
  /\ p \notin storageNodes /\ Counted("changes", MaxChanges)
  /\ storageNodes' = storageNodes \cup {p}
  /\ UNCHANGED <<assigned, phase, pending, nodeShards, saved, removed, tables, handler,
                 inFlight, skip, today>>

\* Everything in memory is lost.
GoDown ==
  /\ phase' = "down" /\ pending' = 0 /\ inFlight' = {} /\ skip' = 0
  /\ handler' = [h \in Handlers |-> Idle]

\* Mutant of Ask: the map in memory is taken for the contract's.
AskNothing(h) == handler' = [handler EXCEPT ![h] = [pc |-> "load", new |-> nodeShards]]

\* getNodeShardsByAddr() is on its way back with the assignment of this moment.
Ask(h) == handler' = [handler EXCEPT ![h] = [pc |-> "answered", new |-> assigned]]

\* readContractState() at start-up; it awaits the whole reshard, and only then does
\* the service subscribe to changes.
Boot(h) ==
  /\ phase = "down" /\ handler[h] = Idle
  /\ phase' = "boot" /\ Ask(h)
  /\ UNCHANGED <<assigned, pending, node, tables, inFlight, skip, today, counts>>

\* The provider emits an event.
Deliver(h) ==
  /\ phase = "up" /\ pending > 0 /\ handler[h] = Idle
  /\ pending' = pending - 1 /\ Ask(h)
  /\ UNCHANGED <<assigned, phase, node, tables, inFlight, skip, today, counts>>

\* The map is updated; the entries of other nodes are still awaited.
Learn(h) ==
  /\ handler[h].pc = "answered"
  /\ nodeShards' = handler[h].new
  /\ handler' = [handler EXCEPT ![h] = [pc |-> "learned"]]
  /\ UNCHANGED <<assigned, phase, pending, storageNodes, saved, removed, tables,
                 inFlight, skip, today, counts>>

\* getNodeShards() takes what the map holds now, perhaps the answer to a later event.
\* It throws at an empty set, outside of any "try": start-up fails, and in an event
\* handler the rejection ends the process.
TakeShards(h) ==
  /\ handler[h].pc = "learned"
  /\ IF nodeShards = {} THEN GoDown
     ELSE /\ handler' = [handler EXCEPT ![h] = [pc |-> "load", new |-> nodeShards]]
          /\ UNCHANGED <<phase, pending, inFlight, skip>>
  /\ UNCHANGED <<assigned, node, tables, today, counts>>

------------------------------------------------------------------------------
(* StorageNode.handleReshard(). *)

\* The reshard is over; the one of the start-up is followed by the subscription.
EndOf(h) == handler' = [handler EXCEPT ![h] = Idle] /\ phase' = "up"

Goto(h, state) == handler' = [handler EXCEPT ![h] = state] /\ UNCHANGED phase

ToDelete(new, old) == old \ new

ToAdd(new, old) == new \ old

\* The peers SNodeInfoUtil finds for the added shards: those whose NodeInfo is known.
PeersFor(add) == {p \in storageNodes : PeerShards[p] \cap add # {}}

\* The other peers are dropped without a trace.
PlanOrEnd(h, new, old) ==
  LET add == ToAdd(new, old)
  IN IF add = {} THEN EndOf(h) /\ UNCHANGED unknown
     ELSE /\ Goto(h, [pc |-> "plan", new |-> new, old |-> old, left |-> PeersFor(add)])
          /\ unknown' = unknown \cup AskedFor(Peers \ storageNodes, add)

\* Mutant of ExpiryTime: the data of a removed shard expires at once.
ExpiryToday == today

\* ONE_DAY_IN_MILLISECONDS from now.
ExpiryTime == today + 1

\* loadNodeShards() answers: nothing to do, or the difference is worked on.
LoadSaved(h) ==
  /\ handler[h].pc = "load"
  /\ LET new == handler[h].new
         del == ToDelete(new, saved)
     IN /\ IF del = {} THEN PlanOrEnd(h, new, saved)
           ELSE /\ Goto(h, [pc |-> "count", new |-> new, old |-> saved,
                            expiry |-> ExpiryTime, todo |-> del])
                /\ UNCHANGED unknown
        /\ removed' = [s \in Shards |->
                         IF s \in del /\ removed[s] = 0 THEN today ELSE removed[s]]
  /\ UNCHANGED <<assigned, pending, nodeShards, storageNodes, saved, inbox, blocks,
                 planned, declined, inFlight, skip, today, counts>>

\* Mutant of InShard: the batch is not restricted to the shard.
InShardAny(s) == DOMAIN inbox

InShard(s) == {r \in DOMAIN inbox : r.shard = s}

\* LIMIT PageSize OFFSET k: which rows these are is open without ORDER BY.
Page(S, k) ==
  LET rest == Cardinality(S) - k
  IN kSubset(IF rest <= 0 THEN 0 ELSE IF rest < PageSize THEN rest ELSE PageSize, S)

\* Mutant of MarkNext: the loop over the shards does not see its end.
MarkNextAlways(h, todo) ==
  LET u == handler[h]
  IN Goto(h, [pc |-> "count", new |-> u.new, old |-> u.old,
              expiry |-> u.expiry, todo |-> todo])

\* The next shard to mark, or on to the blocks.
MarkNext(h, todo) ==
  LET u == handler[h]
  IN IF todo = {}
     THEN Goto(h, [pc |-> "blocks", new |-> u.new, old |-> u.old,
                   expiry |-> u.expiry, offset |-> 0])
     ELSE Goto(h, [pc |-> "count", new |-> u.new, old |-> u.old,
                   expiry |-> u.expiry, todo |-> todo])

\* setExpiryTimeForTransactions(): count the rows of a shard to be deleted.
CountRows(h) ==
  /\ handler[h].pc = "count"
  /\ \E s \in handler[h].todo :
       LET u == handler[h]
           pages == (Cardinality(InShard(s)) + PageSize - 1) \div PageSize
       IN IF pages = 0 THEN MarkNext(h, u.todo \ {s})
          ELSE Goto(h, [pc |-> "rows", new |-> u.new, old |-> u.old,
                        expiry |-> u.expiry, todo |-> u.todo \ {s},
                        shard |-> s, page |-> 0, pages |-> pages])
  /\ UNCHANGED <<assigned, pending, node, tables, inFlight, skip, today, counts>>

\* UPDATE ... WHERE skey IN (batch): the rows of the page's transactions, on
\* whatever shard they are.
MarkPage(h) ==
  /\ handler[h].pc = "rows"
  /\ LET u == handler[h]
     IN /\ \E P \in Page(InShard(u.shard), u.page * PageSize) :
             inbox' = [r \in DOMAIN inbox |->
                         IF \E q \in P : q.tx = r.tx THEN u.expiry ELSE inbox[r]]
        /\ IF u.page + 1 < u.pages
           THEN Goto(h, [u EXCEPT !.page = @ + 1])
           ELSE MarkNext(h, u.todo)
  /\ UNCHANGED <<assigned, pending, node, blocks, plans, inFlight, skip,
                 today, counts>>

\* Mutant of Obsolete: "overlaps" for "is contained in".
ObsoleteOverlap(b, del) == ShardsOf(b) \cap del # {}

\* A block all of whose shards are deleted; array_agg() of none is null.
Obsolete(b, del) == ShardsOf(b) # {} /\ ShardsOf(b) \subseteq del

\* updateBlockExpiryTimestampPaginated(), a page; a short page is the last.
MarkBlocks(h) ==
  /\ handler[h].pc = "blocks"
  /\ LET u == handler[h]
         obsolete == {b \in DOMAIN blocks : Obsolete(b, ToDelete(u.new, u.old))}
     IN \E P \in Page(obsolete, u.offset) :
          /\ blocks' = [b \in DOMAIN blocks |-> IF b \in P THEN u.expiry ELSE blocks[b]]
          /\ IF Cardinality(P) < PageSize THEN PlanOrEnd(h, u.new, u.old)
             ELSE Goto(h, [u EXCEPT !.offset = @ + PageSize]) /\ UNCHANGED unknown
  /\ UNCHANGED <<assigned, pending, node, inbox, planned, declined, inFlight, skip,
                 today, counts>>

\* A peer answers storage_getShardView: with a view of its blocks, of which a record
\* is made, or with an error or an empty view, which are only logged.
AskPeer(h) ==
  /\ handler[h].pc = "plan"
  /\ \E p \in handler[h].left :
       LET u == handler[h]
           pairs == AskedFor({p}, ToAdd(u.new, u.old))
       IN /\ \/ planned' = planned \cup pairs /\ UNCHANGED declined
             \/ declined' = declined \cup pairs /\ UNCHANGED planned
          /\ Goto(h, [u EXCEPT !.left = @ \ {p}])
  /\ UNCHANGED <<assigned, pending, node, inbox, blocks, unknown, inFlight, skip, today,
                 counts>>

\* Mutant of Save: the assignment is saved without waiting for the peers.
SaveEarly(h) ==
  /\ handler[h].pc = "plan"
  /\ saved' = handler[h].new /\ EndOf(h)
  /\ UNCHANGED <<assigned, pending, nodeShards, storageNodes, removed, tables, inFlight,
                 skip, today, counts>>

\* Mutant of Save: the assignment is never saved, every reshard plans again.
SaveNothing(h) ==
  /\ handler[h].pc = "plan" /\ handler[h].left = {}
  /\ EndOf(h)
  /\ UNCHANGED <<assigned, pending, node, tables, inFlight, skip, today, counts>>

\* Promise.all() is through: saveNodeShards(), and the sync starts on its own.
Save(h) ==
  /\ handler[h].pc = "plan" /\ handler[h].left = {}
  /\ saved' = handler[h].new /\ EndOf(h)
  /\ UNCHANGED <<assigned, pending, nodeShards, storageNodes, removed, tables, inFlight,
                 skip, today, counts>>

\* A database call of handleReshard() throws, which it swallows.
ReshardFails(h) ==
  /\ handler[h].pc \notin {"idle", "answered", "learned"}
  /\ handler[h].pc = "plan" => handler[h].left = {}
  /\ Counted("failures", MaxFailures)
  /\ EndOf(h)
  /\ UNCHANGED <<assigned, pending, node, tables, inFlight, skip, today>>

\* The chain does not answer for this node or for a later one, which nobody swallows.
AskFails(h) ==
  /\ handler[h].pc \in {"answered", "learned"}
  /\ Counted("failures", MaxFailures)
  /\ GoDown
  /\ UNCHANGED <<assigned, node, tables, today>>

------------------------------------------------------------------------------
(* Blocks, the deletion job, crashes and time. *)

\* handleBlock() has inserted a block that is not in the table and starts to unpack,
\* which getNodeShards() refuses over an empty set.
BlockArrives(b) ==
  /\ phase = "up" /\ b \notin DOMAIN blocks
  /\ Counted("arrivals", MaxArrivals)
  /\ blocks' = [c \in DOMAIN blocks \cup {b} |-> IF c = b THEN 0 ELSE blocks[c]]
  /\ inFlight' = IF nodeShards = {} THEN inFlight
                 ELSE inFlight \cup DueRows(b, nodeShards)
  /\ UNCHANGED <<assigned, phase, pending, node, inbox, plans, handler,
                 skip, today>>

\* The upsert does not touch the expiration_ts of a row that is there.
PutRow(r) ==
  /\ r \in inFlight
  /\ inFlight' = inFlight \ {r}
  /\ inbox' = [q \in DOMAIN inbox \cup {r} |-> IF q \in DOMAIN inbox THEN inbox[q] ELSE 0]
  /\ UNCHANGED <<assigned, phase, pending, node, blocks, plans, handler,
                 skip, today, counts>>

Expired(x) == x # 0 /\ x <= today

\* Mutant of DeleteRows: only rows of shards the node does not have are deleted.
DeleteForeignRows ==
  /\ phase = "up"
  /\ LET due == {r \in DOMAIN inbox : Expired(inbox[r]) /\ r.shard \notin nodeShards}
     IN /\ due # {}
        /\ inbox' = Restrict(inbox, DOMAIN inbox \ due)
  /\ UNCHANGED <<assigned, phase, pending, node, blocks, plans, handler,
                 inFlight, skip, today, counts>>

\* deleteShardsFromInboxes(), a page: DELETE ... WHERE skey IN (batch).
DeleteRows ==
  /\ phase = "up"
  /\ LET due == {r \in DOMAIN inbox : Expired(inbox[r])}
     IN /\ due # {}
        /\ \E P \in Page(due, 0) :
             inbox' = Restrict(inbox, {r \in DOMAIN inbox : \A q \in P : q.tx # r.tx})
  /\ UNCHANGED <<assigned, phase, pending, node, blocks, plans, handler,
                 inFlight, skip, today, counts>>

\* deleteExpiredBlocksPaginated(), a page: the offset grows although rows vanish; a
\* short page is the last of the job.
DeleteBlocks ==
  /\ phase = "up"
  /\ LET due == {b \in DOMAIN blocks : Expired(blocks[b])}
     IN /\ due # {} \/ skip # 0
        /\ \E P \in Page(due, skip) :
             /\ blocks' = Restrict(blocks, DOMAIN blocks \ P)
             /\ skip' = IF Cardinality(P) < PageSize THEN 0 ELSE skip + PageSize
  /\ UNCHANGED <<assigned, phase, pending, node, inbox, plans, handler,
                 inFlight, today, counts>>

Crash ==
  /\ phase # "down" /\ Counted("crashes", MaxCrashes)
  /\ GoDown
  /\ UNCHANGED <<assigned, node, tables, today>>

DayPasses ==
  /\ today < MaxDays
  /\ today' = today + 1
  /\ UNCHANGED <<assigned, phase, pending, node, tables, handler, inFlight, skip, counts>>

\* The code's own continuations of a reshard.
HandlerStep(h) ==
  \/ Learn(h) \/ TakeShards(h) \/ LoadSaved(h) \/ CountRows(h) \/ MarkPage(h)
  \/ MarkBlocks(h) \/ AskPeer(h) \/ Save(h)

Next ==
  \/ \E S \in ShardViews : Reassign(S)
  \/ \E p \in Peers : Register(p)
  \/ \E h \in Handlers : \/ Boot(h) \/ Deliver(h) \/ HandlerStep(h)
                         \/ ReshardFails(h) \/ AskFails(h)
  \/ \E b \in Blocks : BlockArrives(b)
  \/ \E r \in inFlight : PutRow(r)
  \/ DeleteRows \/ DeleteBlocks \/ Crash \/ DayPasses

Spec == Init /\ [][Next]_vars

\* Promises are resumed, the provider polls, the cron job fires every five minutes,
\* and a process that ended is started again.
FairSpec ==
  /\ Spec
  /\ \A h \in Handlers : WF_vars(HandlerStep(h))
  /\ WF_vars(\E h \in Handlers : Deliver(h))
  /\ WF_vars(\E h \in Handlers : Boot(h))
  /\ WF_vars(DeleteRows) /\ WF_vars(DeleteBlocks)

------------------------------------------------------------------------------
(* Properties. *)

\* Type invariant of the contract, the node, its tables and its reshards.
TypeOK ==
  /\ assigned \in ShardViews
  /\ phase \in {"down", "boot", "up"}
  /\ pending \in Nat
  /\ nodeShards \subseteq Shards /\ saved \subseteq Shards /\ storageNodes \subseteq Peers
  /\ DOMAIN inbox \subseteq Rows /\ inbox \in [DOMAIN inbox -> Days]
  /\ DOMAIN blocks \subseteq Blocks /\ blocks \in [DOMAIN blocks -> Days]
  /\ planned \subseteq Peers \X Shards /\ declined \subseteq Peers \X Shards
  /\ unknown \subseteq Peers \X Shards
  /\ handler \in [Handlers -> HandlerStates]
  /\ inFlight \subseteq Rows
  /\ skip \in Nat /\ today \in 1..MaxDays
  /\ removed \in [Shards -> 0..today]
  /\ counts \in [{"arrivals", "changes", "failures", "crashes"} -> Nat]

TxShards(t) == {s \in Shards : \E b \in Blocks : [shard |-> s, tx |-> t] \in Contents[b]}

\* A reshard removed shard s at least a day before day d.
RemovedBefore(s, d) == removed[s] # 0 /\ removed[s] < d

\* A reshard that marks data works through shards it has removed, and the date it
\* writes is later than the day of their removal.
MarksAreGrounded ==
  \A h \in Handlers :
    LET u == handler[h]
        del == ToDelete(u.new, u.old)
    IN /\ u.pc \in {"count", "rows", "blocks"} => \A s \in del : RemovedBefore(s, u.expiry)
       /\ u.pc \in {"count", "rows"} => u.todo \subseteq del
       /\ u.pc = "rows" => u.shard \in del

RowsExpireWithCause ==
  \A r \in DOMAIN inbox :
    inbox[r] # 0 => \E s \in TxShards(r.tx) : RemovedBefore(s, inbox[r])

BlocksExpireWithCause ==
  \A b \in DOMAIN blocks :
    blocks[b] # 0 => \A s \in ShardsOf(b) : RemovedBefore(s, blocks[b])

\* Every row was put there, or is about to be, because of a block.
RowsComeFromBlocks ==
  \A r \in DOMAIN inbox \cup inFlight : r.shard \in TxShards(r.tx)

\* The inductive invariant of resharding: no expiration date without a cause.  A row
\* expires only if a reshard removed one of its transaction's shards, and not
\* before a day is over; a block only if that is so of all its shards.  This is
\* what the two grace periods below rest on.
RInv == /\ TypeOK /\ RowsComeFromBlocks /\ MarksAreGrounded
        /\ RowsExpireWithCause /\ BlocksExpireWithCause

\* An inbox row disappears only when a day has passed since a reshard removed one of
\* the shards its transaction is on ("now + one day" in handleReshard()),
\* whatever reshards overlap and wherever the process dies.
RowsOutliveRemoval ==
  [][\A r \in DOMAIN inbox \ DOMAIN inbox' :
       \E s \in TxShards(r.tx) : RemovedBefore(s, today)]_vars

\* A block disappears only when a day has passed since reshards had removed all of
\* its shards: a block of a shard this node never gave up is never deleted.
BlocksOutliveRemoval ==
  [][\A b \in DOMAIN blocks \ DOMAIN blocks' :
       \A s \in ShardsOf(b) : RemovedBefore(s, today)]_vars

\* A shard is on record as the node's own only after each peer that has it was asked
\* for its blocks, also when a reshard failed or died half way and was redone - but
\* for the peers without NodeInfo when a reshard planned: nobody asks them later.
SavedIsPlanned == AskedFor(Peers, saved) \subseteq planned \cup declined \cup unknown

Quiet ==
  phase = "up" /\ pending = 0 /\ \A h \in Handlers : handler[h] = Idle

\* When reshards come one at a time, and as long as no call has failed, every shard the
\* node works for is on record once they are over, also after crashes: otherwise the
\* removal of a shard would go unnoticed by the next comparison.
CurrentIsSaved == Quiet /\ counts.failures = 0 => nodeShards \subseteq saved

\* Every reshard ends: no page loop runs for ever beside arriving blocks.
ReshardsEnd == \A h \in Handlers : (handler[h] # Idle) ~> (handler[h] = Idle)

ExpiredRow(r) == r \in DOMAIN inbox /\ Expired(inbox[r])
ExpiredBlock(b) == b \in DOMAIN blocks /\ Expired(blocks[b])

\* What has expired is deleted, although the block job's offset grows while the rows
\* below it vanish - unless another reshard gets there first: removals are not
\* saved, so each reshard, that of a restart too, grants the data another day.  A node
\* without any shard keeps it: the service does not even start.
ExpiredVanish ==
  /\ \A r \in Rows : ExpiredRow(r) ~> (~ExpiredRow(r) \/ assigned = {})
  /\ \A b \in Blocks : ExpiredBlock(b) ~> (~ExpiredBlock(b) \/ assigned = {})

\* A service that was told of a change takes the new assignment over, unless the
\* contract changes again, through restarts and calls that fail.
ChangesAreTakenOver ==
  \A S \in ShardViews \ {{}} :
    (pending > 0 /\ assigned = S) ~> (nodeShards = S \/ assigned # S)

\* ... "storing the associated transaction data": the deletion job of a settled node
\* takes no row of a shard the contract gives it.
AssignedDataStays ==
  [][Quiet /\ nodeShards = assigned =>
       \A r \in DOMAIN inbox \ DOMAIN inbox' : r.shard \notin assigned]_vars
==============================================================================
