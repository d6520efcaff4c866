------------------------------- MODULE P2PSync -------------------------------
(***************************************************************************)
(* How a node copies the blocks of added shards from its peers.  A reshard *)
(* has each peer make a view, a snapshot of its blocks on some shards, and *)
(* records it in storage_sync_info (flow_type IN).  BlockPolling then      *)
(* works through the views shard by shard under a mutex: for each shard a  *)
(* StorageSyncClient per view asks for page after page of block hashes,    *)
(* fetches the blocks it misses and has StorageNode.handleBlock() store    *)
(* them, until a page comes back empty.  A cron job drops what is SYNCED,  *)
(* one at the peer what has expired.                                       *)
(***************************************************************************)
EXTENDS Integers, Sequences, FiniteSets, Functions

CONSTANTS
  Views, Shards, Blocks,
  ViewShards,  \* view -> the shards it was made for, never none
  BlockShards, \* block -> the shards it touches
  Listing,     \* view -> its blocks, latest first: ORDER BY ts DESC
  PageSize,    \* StorageSyncClient.PAGE_SIZE
  Faults,      \* view -> what may go wrong with it and its peer, of FaultKinds
  Retries,     \* StorageSyncClient.RETIRES
  MaxRequests, \* bound: reshards that added views
  MaxCrashes   \* bound: crashes

\* "call": the peer is out of reach or the database throws; "flaky": attempts at a call
\* fail, but not all that it has; "answer": the peer's RPC answers with an error object;
\* "store": handleBlock() throws; "expiry": the sync outlasts the view.
FaultKinds == {"call", "flaky", "answer", "store", "expiry"}

ASSUME ShardsAssumption == IsFiniteSet(Shards)
ASSUME ViewShardsAssumption == ViewShards \in [Views -> (SUBSET Shards) \ {{}}]
ASSUME BlockShardsAssumption == BlockShards \in [Blocks -> SUBSET Shards]
ASSUME ListingAssumption == Listing \in [Views -> Seq(Blocks)]
ASSUME PageAssumption == PageSize \in Nat \ {0}
ASSUME FaultsAssumption == Faults \in [Views -> SUBSET FaultKinds]
ASSUME RetriesAssumption == Retries \in Nat
ASSUME SyncBoundsAssumption ==
  MaxRequests \in Nat /\ MaxCrashes \in Nat

VARIABLES
  up,       \* the process runs
  rows,     \* storage_sync_info, IN: view -> its row, "none" before, "deleted" after
  adding,   \* a reshard has recorded a view and not called initiatePooling() yet
  waiting,  \* calls of initiatePooling() that wait for the mutex
  clients,  \* nodeMap: (view, shard) -> the client's lastSyncedPageNumber, 0 for none
  pass,     \* the initiatePooling() that holds the mutex
  proc,     \* view -> what the client of the shard in progress does next
  batch,    \* view -> block hashes in hand
  tries,    \* view -> failed attempts of the call its client is making
  stored,   \* the blocks table of this node
  served,   \* the views whose table the peer has
  counts    \* of requests and crashes

memory == <<adding, waiting, clients, pass, proc, batch, tries>>
vars   == <<up, rows, memory, stored, served, counts>>

Idle == [pc |-> "idle"]

\* The lines of a view's table that hold a block on shard s, and the rank of a line
\* among them.
LinesOf(v, s) == {i \in DOMAIN Listing[v] : s \in BlockShards[Listing[v][i]]}
Rank(v, s, i) == Cardinality({j \in LinesOf(v, s) : j <= i})

\* LIMIT pageSize OFFSET (pageNumber - 1) * pageSize
PageOf(v, s, n) ==
  {Listing[v][i] : i \in {j \in LinesOf(v, s) :
     Rank(v, s, j) > (n - 1) * PageSize /\ Rank(v, s, j) <= n * PageSize}}

Init ==
  /\ up = TRUE /\ adding = FALSE /\ waiting = 0
  /\ rows = [v \in Views |-> [status |-> "none", page |-> 1, synced |-> <<>>]]
  /\ clients = [c \in Views \X Shards |-> 0]
  /\ pass = Idle
  /\ proc = [v \in Views |-> "none"] /\ batch = [v \in Views |-> {}]
  /\ tries = [v \in Views |-> 0]
  /\ stored \in SUBSET Blocks
  /\ served = {}
  /\ counts = [requests |-> 0, crashes |-> 0]

------------------------------------------------------------------------------
(* The reshard's side. *)

\* handleReshard() has a peer make a view of its blocks and records it.  The
\* peer's table lives for a day.
AddView(v) ==
  /\ up /\ rows[v].status = "none" /\ counts.requests < MaxRequests
  /\ served' = served \cup {v}
  /\ rows' = [rows EXCEPT ![v].status = "SYNCING"]
  /\ adding' = TRUE
  /\ UNCHANGED <<up, waiting, clients, pass, proc, batch, stored, tries, counts>>

\* ... and calls initiatePooling() when every peer has been asked.
Request ==
  /\ adding
  /\ adding' = FALSE /\ waiting' = waiting + 1
  /\ counts' = [counts EXCEPT !.requests = @ + 1]
  /\ UNCHANGED <<up, rows, clients, pass, proc, batch, stored, served, tries>>

------------------------------------------------------------------------------
(* initiatePooling(): one at a time, shard by shard. *)

\* constructNodeShardMap() makes a client for each shard of each view that is
\* SYNCING, with the row's page.  Its filter on the shards that are synced compares
\* numbers with strings and lets every shard pass.
Constructed ==
  [c \in Views \X Shards |->
     IF rows[c[1]].status = "SYNCING" /\ c[2] \in ViewShards[c[1]]
     THEN rows[c[1]].page ELSE 0]

NoClients == \A c \in Views \X Shards : clients[c] = 0

\* The map is built only when it is empty, and nothing ever empties it.
KnownClients == IF NoClients THEN Constructed ELSE clients

StartPass ==
  /\ up /\ waiting > 0 /\ pass = Idle
  /\ waiting' = waiting - 1
  /\ \/ /\ clients' = KnownClients
        /\ pass' = [pc |-> "next",
                    todo |-> {s \in Shards : \E v \in Views : KnownClients[<<v, s>>] # 0}]
     \/ \* the query fails
        /\ NoClients /\ \E v \in Views : "call" \in Faults[v]
        /\ UNCHANGED <<clients, pass>>
  /\ UNCHANGED <<up, rows, adding, proc, batch, stored, served, tries, counts>>

\* The map lists shards in the order their clients were made: that of the rows, which
\* are read without ORDER BY, and of their shard sets.
NextShard(s) ==
  /\ pass.pc = "next" /\ s \in pass.todo
  /\ pass' = [pc |-> "shard", todo |-> pass.todo \ {s}, shard |-> s]
  /\ proc' = [v \in Views |-> IF clients[<<v, s>>] # 0 THEN "open" ELSE "none"]
  /\ UNCHANGED <<up, rows, adding, waiting, clients, batch, stored, served, tries, counts>>

\* validateAndStoreBlockHashes() waits for its clients whatever becomes of them and
\* returns true: the retry loop never takes a second turn.
EndShard ==
  /\ pass.pc = "shard" /\ \A v \in Views : proc[v] = "none"
  /\ pass' = [pc |-> "next", todo |-> pass.todo]
  /\ UNCHANGED <<up, rows, adding, waiting, clients, proc, batch, stored, served, tries, counts>>

EndPass ==
  /\ pass.pc = "next" /\ pass.todo = {}
  /\ pass' = Idle
  /\ UNCHANGED <<up, rows, adding, waiting, clients, proc, batch, stored, served, tries, counts>>

------------------------------------------------------------------------------
(* processClient(): the clients of the shard run beside each other, one per view. *)

Present(v) == rows[v].status \in {"SYNCING", "SYNCED"}

\* The UPDATE of storage_sync_info; a row that is gone is not missed.
WritePage(v, n) ==
  rows' = IF Present(v) THEN [rows EXCEPT ![v].page = n] ELSE rows

Go(v, pc) == proc' = [proc EXCEPT ![v] = pc]

\* Mutant of GiveUp: the loop goes on with the next page.
GiveUpPage(v) == Go(v, "page") /\ batch' = [batch EXCEPT ![v] = {}]

\* Mutant of GiveUp: the loop asks again, without end.
AskAgain(v) == Go(v, "ask") /\ batch' = [batch EXCEPT ![v] = {}]

\* The client breaks out of its loop; nobody comes back to it in this pass.
GiveUp(v) == Go(v, "none") /\ batch' = [batch EXCEPT ![v] = {}]

\* The client's own page replaces the one that the previous shard left in the row.
Open(v) ==
  /\ proc[v] = "open"
  /\ Go(v, "ask")
  /\ \/ WritePage(v, clients[<<v, pass.shard>>])
     \/ "call" \in Faults[v] /\ UNCHANGED rows
  /\ UNCHANGED <<up, adding, waiting, clients, pass, batch, stored, served, tries, counts>>

\* An answer that is not an array counts as an empty page.
AfterHashes(hashes) == IF hashes = {} THEN "mark" ELSE "fetch"

\* The client's call of its peer: all clients have opened, or blocks are missing.
Calling(v) == \/ proc[v] = "ask" /\ \A w \in Views : proc[w] # "open"
              \/ proc[v] = "fetch" /\ ~(batch[v] \subseteq stored)

\* callWithRetires(): RETIRES more attempts after the first.
MayRetry(v) == tries[v] < Retries

\* call() throws: no connection, a status other than 200, an answer without a result.
\* The next attempt follows after a delay.
AttemptFails(v) ==
  /\ Calling(v) /\ MayRetry(v)
  /\ "call" \in Faults[v] \/ "flaky" \in Faults[v]
  /\ tries' = [tries EXCEPT ![v] = @ + 1]
  /\ UNCHANGED <<up, rows, adding, waiting, clients, pass, proc, batch, stored, served, counts>>

\* The call has an answer or no attempts left.
EndCall(v) == tries' = [tries EXCEPT ![v] = 0]

\* push_getBlockHashFromView, after all clients have opened.  The peer means to put
\* off the expiry of its view each time, but its UPDATE leaves out expiry_ts.
Ask(v) ==
  /\ proc[v] = "ask" /\ \A w \in Views : proc[w] # "open"
  /\ \/ \E hashes \in {IF v \in served THEN PageOf(v, pass.shard, clients[<<v, pass.shard>>])
                       ELSE {}} \cup (IF "answer" \in Faults[v] THEN {{}} ELSE {}) :
          /\ Go(v, AfterHashes(hashes))
          /\ batch' = [batch EXCEPT ![v] = hashes]
     \/ \* out of reach, after all retries
        "call" \in Faults[v] /\ ~MayRetry(v) /\ GiveUp(v)
  /\ EndCall(v)
  /\ UNCHANGED <<up, rows, adding, waiting, clients, pass, stored, served, counts>>

\* getBulkBlockHashes() tells the blocks this node has.
Missing(v) == batch[v] \ stored

\* push_getBlocksFromHashes; an error object has no map().
Fetch(v) ==
  /\ proc[v] = "fetch"
  /\ \/ Missing(v) = {} /\ Go(v, "page") /\ batch' = [batch EXCEPT ![v] = {}]
     \/ /\ Missing(v) # {} /\ v \in served
        /\ Go(v, "store") /\ batch' = [batch EXCEPT ![v] = Missing(v)]
     \/ Missing(v) # {} /\ (v \notin served \/ "answer" \in Faults[v]) /\ GiveUp(v)
     \/ \* the query of this node's blocks throws, or the peer is out of reach
        /\ "call" \in Faults[v]
        /\ tries[v] = 0 \/ ~MayRetry(v)
        /\ GiveUp(v)
  /\ EndCall(v)
  /\ UNCHANGED <<up, rows, adding, waiting, clients, pass, stored, served, counts>>

\* handleBlock() of one block; an exception is logged and forgotten.
Store(v, b) ==
  /\ proc[v] = "store" /\ b \in batch[v]
  /\ batch' = [batch EXCEPT ![v] = @ \ {b}]
  /\ proc' = IF batch[v] = {b} THEN [proc EXCEPT ![v] = "page"] ELSE proc
  /\ \/ stored' = stored \cup {b}
     \/ "store" \in Faults[v] /\ UNCHANGED stored
  /\ UNCHANGED <<up, rows, adding, waiting, clients, pass, served, tries, counts>>

\* The page counter moves on, in memory and then in the table.
NextPage(v) ==
  /\ proc[v] = "page"
  /\ clients' = [clients EXCEPT ![<<v, pass.shard>>] = @ + 1]
  /\ \/ WritePage(v, clients[<<v, pass.shard>>] + 1) /\ Go(v, "ask")
     \/ "call" \in Faults[v] /\ UNCHANGED rows /\ Go(v, "none")
  /\ UNCHANGED <<up, adding, waiting, pass, batch, stored, served, tries, counts>>

\* Mutant of AllSynced: the shard is counted twice.
AllButOne(v, list) == Len(list) + 1 = Cardinality(ViewShards[v])

\* Mutant of AllSynced: the length from before the shard was added.
AllBefore(v, list) == Len(list) - 1 = Cardinality(ViewShards[v])

\* What updateAlreadySyncedShards() takes for the end of the view.
AllSynced(v, list) == Len(list) = Cardinality(ViewShards[v])

\* updateAlreadySyncedShards() reads the row and then adds the shard in SQL; a row
\* that is gone reads as null and throws.  Between the two only the cron job can
\* touch the row, and only if it is SYNCED already: one step.
Mark(v) ==
  /\ proc[v] = "mark"
  /\ LET list == Append(rows[v].synced, pass.shard)
     IN \/ /\ Present(v)
           /\ rows' = [rows EXCEPT ![v].synced = list,
                                   ![v].status = IF AllSynced(v, list) THEN "SYNCED" ELSE @]
           /\ Go(v, "close")
        \/ (~Present(v) \/ "call" \in Faults[v]) /\ Go(v, "none") /\ UNCHANGED rows
  /\ UNCHANGED <<up, adding, waiting, clients, pass, batch, stored, served, tries, counts>>

Close(v) ==
  /\ proc[v] = "close"
  /\ \/ WritePage(v, clients[<<v, pass.shard>>])
     \/ "call" \in Faults[v] /\ UNCHANGED rows
  /\ Go(v, "none")
  /\ UNCHANGED <<up, adding, waiting, clients, pass, batch, stored, served, tries, counts>>

------------------------------------------------------------------------------
(* Jobs and crashes. *)

\* dropSyncedTables()
DropSynced(v) ==
  /\ up /\ rows[v].status = "SYNCED"
  /\ rows' = [rows EXCEPT ![v].status = "deleted"]
  /\ UNCHANGED <<up, memory, stored, served, counts>>

\* dropExpiredTables() at the peer, a day after it made the view by its own clock.
PeerDrops(v) ==
  /\ "expiry" \in Faults[v] /\ v \in served
  /\ served' = served \ {v}
  /\ UNCHANGED <<up, rows, memory, stored, counts>>

Crash ==
  /\ up /\ counts.crashes < MaxCrashes
  /\ counts' = [counts EXCEPT !.crashes = @ + 1]
  /\ up' = FALSE /\ adding' = FALSE /\ waiting' = 0 /\ pass' = Idle
  /\ clients' = [c \in Views \X Shards |-> 0]
  /\ proc' = [v \in Views |-> "none"] /\ batch' = [v \in Views |-> {}]
  /\ tries' = [v \in Views |-> 0]
  /\ UNCHANGED <<rows, stored, served>>

\* checkAndInitiatePooling() at start-up.
Restart ==
  /\ ~up /\ up' = TRUE
  /\ waiting' = IF \E v \in Views : rows[v].status = "SYNCING" THEN 1 ELSE 0
  /\ UNCHANGED <<rows, adding, clients, pass, proc, batch, stored, served, tries, counts>>

------------------------------------------------------------------------------
ClientStep(v) ==
  \/ Open(v) \/ Ask(v) \/ Fetch(v)
  \/ \E b \in batch[v] : Store(v, b)
  \/ NextPage(v) \/ Mark(v) \/ Close(v)

PassStep == StartPass \/ (\E s \in Shards : NextShard(s)) \/ EndShard \/ EndPass

Next ==
  \/ \E v \in Views : AddView(v)
  \/ Request
  \/ StartPass
  \/ \E s \in Shards : NextShard(s)
  \/ EndShard \/ EndPass
  \/ \E v \in Views :
       \/ Open(v) \/ AttemptFails(v) \/ Ask(v) \/ Fetch(v)
       \/ \E b \in Blocks : Store(v, b)
       \/ NextPage(v) \/ Mark(v) \/ Close(v)
       \/ DropSynced(v) \/ PeerDrops(v)
  \/ Crash \/ Restart

Spec == Init /\ [][Next]_vars

\* Promises are resumed, the jobs fire, and a process that ended is started again.
FairSpec ==
  /\ Spec
  /\ WF_vars(Request) /\ WF_vars(PassStep) /\ WF_vars(Restart)
  /\ \A v \in Views : WF_vars(ClientStep(v))

------------------------------------------------------------------------------
(* Properties. *)

Page == Nat \ {0}
ClientPcs == {"none", "open", "ask", "fetch", "store", "page", "mark", "close"}

\* Type invariant of the sync tables and the clients.
TypeOK ==
  /\ up \in BOOLEAN /\ adding \in BOOLEAN /\ waiting \in Nat
  /\ rows \in [Views -> [status : {"none", "SYNCING", "SYNCED", "deleted"},
                         page : Page, synced : Seq(Shards)]]
  /\ clients \in [Views \X Shards -> Nat]
  /\ pass \in {Idle} \cup [pc : {"next"}, todo : SUBSET Shards]
                \cup [pc : {"shard"}, todo : SUBSET Shards, shard : Shards]
  /\ proc \in [Views -> ClientPcs]
  /\ batch \in [Views -> SUBSET Blocks] /\ tries \in [Views -> 0..Retries]
  /\ stored \subseteq Blocks
  /\ served \subseteq Views
  /\ counts \in [{"requests", "crashes"} -> Nat]

BlocksOf(v, s) == {b \in Range(Listing[v]) : s \in BlockShards[b]}
Before(v, s, n) == UNION {PageOf(v, s, i) : i \in 1..(n - 1)}

\* A view in whose sync no call fails for good.
Healthy(v) == Faults[v] \subseteq {"flaky"}

\* A view whose saved page can be trusted: it is on one shard, or the page was never
\* resumed from.
Resumable(v) == counts.crashes = 0 \/ Cardinality(ViewShards[v]) = 1

\* "parse the block and store it in the db": a shard is noted as synced only when every
\* block of the view on it is stored, although blocks are stored concurrently, calls
\* fail between two steps and clients may be polled again.
MarkedIsStored ==
  \A v \in Views : Resumable(v) =>
    \A s \in Range(rows[v].synced) : BlocksOf(v, s) \subseteq stored

\* A client is never ahead of the blocks it has stored.
ClientsPagesStored ==
  \A v \in Views, s \in Shards :
    Resumable(v) => Before(v, s, clients[<<v, s>>]) \subseteq stored

\* The page in the table, from which a restart resumes, is never ahead of the blocks
\* that are stored, for a view of one shard.
SavedPagesStored ==
  \A v \in Views, s \in Shards :
    ViewShards[v] = {s} => Before(v, s, rows[v].page) \subseteq stored

\* What a client at work relies on: a shard is in progress, and the client is one of
\* its clients, made for a view that was recorded.
ClientsAtWork ==
  /\ \A v \in Views : proc[v] # "none" => pass.pc = "shard" /\ clients[<<v, pass.shard>>] # 0
  /\ \A v \in Views, s \in Shards : clients[<<v, s>>] # 0 => s \in ViewShards[v]

\* The same of a client as of the row, for a view of one shard ...
OneShardPages ==
  \A v \in Views, s \in Shards :
    ViewShards[v] = {s} => Before(v, s, clients[<<v, s>>]) \subseteq stored

\* ... and of the page it is working on: what is not stored is in hand.
PageInHand ==
  \A v \in Views : proc[v] \in {"fetch", "store", "page"} =>
    PageOf(v, pass.shard, clients[<<v, pass.shard>>]) \subseteq stored \cup batch[v]

\* A client counts a page only with nothing of it left in hand.
PageDone == \A v \in Views : proc[v] = "page" => batch[v] = {}

\* The inductive invariant behind SavedPagesStored, in which nothing is said of a
\* block that handleBlock() refuses: "store" must not be among the faults.
SInv == /\ TypeOK /\ ClientsAtWork /\ SavedPagesStored
        /\ OneShardPages /\ PageInHand /\ PageDone

\* "keep calling the client until all the block hashes are exhausted": a view that is
\* SYNCED, and about to be forgotten, has all its blocks stored.
SyncedMeansStored ==
  \A v \in Views : Healthy(v) /\ rows[v].status \in {"SYNCED", "deleted"} =>
    \A s \in ViewShards[v] : BlocksOf(v, s) \subseteq stored

\* The same through failing calls, later passes and restarts, as long as the page can be
\* trusted and no shard was noted twice.
SyncedIfResumable ==
  \A v \in Views :
    /\ Resumable(v) /\ Len(rows[v].synced) = Cardinality(Range(rows[v].synced))
    /\ rows[v].status \in {"SYNCED", "deleted"}
    => \A s \in ViewShards[v] : BlocksOf(v, s) \subseteq stored

\* A view counts as SYNCED only after each of its shards was worked through, whatever
\* fails in the first pass of a process: the number of marks stands for the set.  A later
\* pass repeats the marks of the shards that were through, unless none was left behind.
SyncedIsPolled ==
  \A v \in Views :
    /\ counts.crashes = 0
    /\ counts.requests <= 1 \/ Healthy(v)
    /\ rows[v].status \in {"SYNCED", "deleted"}
    => Range(rows[v].synced) = ViewShards[v]

\* What the row of a view says of it: nothing before it is recorded and no work of its
\* clients before there are any; the peer has it from then on; and it is SYNCED with a
\* mark for each of its shards at least.
RowFollows(v) ==
  LET row == rows[v]
      noClients == \A s \in Shards : clients[<<v, s>>] = 0
  IN /\ row.status = "none" => noClients /\ row.page = 1 /\ row.synced = <<>>
     /\ counts.crashes = 0 /\ noClients => row.page = 1 /\ row.synced = <<>>
     /\ row.status # "none" /\ "expiry" \notin Faults[v] => v \in served
     /\ Range(row.synced) \subseteq ViewShards[v]
     /\ row.status \in {"SYNCED", "deleted"} =>
          Len(row.synced) >= Cardinality(ViewShards[v])

\* A view whose peer answers for what it has, and whose blocks handleBlock() stores.
Faithful(v) == Faults[v] \subseteq {"call", "flaky"}

\* What its clients have done for the blocks of such a view, up to a mark.
BlocksFollow(v) ==
  /\ \A s \in Shards : Before(v, s, clients[<<v, s>>]) \subseteq stored
  /\ \A s \in Shards : ViewShards[v] = {s} => Before(v, s, rows[v].page) \subseteq stored
  /\ proc[v] \in {"fetch", "store", "page"} =>
       PageOf(v, pass.shard, clients[<<v, pass.shard>>]) \subseteq stored \cup batch[v]
  /\ proc[v] = "page" => batch[v] = {}
  /\ proc[v] = "mark" => BlocksOf(v, pass.shard) \subseteq stored
  /\ \A s \in Range(rows[v].synced) : BlocksOf(v, s) \subseteq stored

\* The inductive invariant behind MarkedIsStored and SyncedIfResumable.
MarkInv ==
  /\ TypeOK /\ ClientsAtWork /\ \A v \in Views : RowFollows(v)
  /\ \A v \in Views : Faithful(v) /\ Resumable(v) => BlocksFollow(v)

\* The mutex gives a pass to each request at most, and none goes back to a shard.
PassesFollow ==
  /\ counts.crashes = 0 =>
       /\ up
       /\ waiting + (IF pass = Idle THEN 0 ELSE 1) <= counts.requests
       /\ counts.requests = waiting => \A c \in Views \X Shards : clients[c] = 0
  /\ pass.pc = "shard" => pass.shard \notin pass.todo

\* The shards that the pass may still mark for a view.
ToMark(v) ==
  (IF pass = Idle THEN {} ELSE pass.todo)
    \cup (IF pass.pc = "shard" /\ proc[v] \notin {"none", "close"} THEN {pass.shard} ELSE {})

\* The shards of a view are in their first round: in the only pass there was, or in one
\* that leaves none behind.
FirstRound(v) ==
  counts.requests <= 1 \/ (Healthy(v) /\ ~(ViewShards[v] \subseteq Range(rows[v].synced)))

\* In the first round no shard is marked twice, for what is marked is over ...
MarkedOnce(v) ==
  IsInjective(rows[v].synced) /\ Range(rows[v].synced) \cap ToMark(v) = {}

\* ... and of a view that has clients no shard is left behind, when no call fails.
NoneLeft(v) ==
  /\ \A s \in ViewShards[v] : clients[<<v, s>>] # 0
  /\ ViewShards[v] \subseteq Range(rows[v].synced) \cup ToMark(v)

\* The inductive invariant behind SyncedIsPolled.
PollInv ==
  /\ TypeOK /\ ClientsAtWork /\ PassesFollow /\ SyncedIsPolled
  /\ \A v \in Views : RowFollows(v)
  /\ counts.crashes = 0 => \A v \in Views :
       /\ FirstRound(v) => MarkedOnce(v)
       /\ Healthy(v) /\ (\E s \in Shards : clients[<<v, s>>] # 0) => NoneLeft(v)

\* The views a pass knows become SYNCED when nothing fails, also when other reshards
\* call for more passes and the job deletes rows meanwhile.
KnownViewsSync ==
  \A v \in Views : Healthy(v) =>
    (\E s \in Shards : clients[<<v, s>>] # 0) ~> (rows[v].status \in {"SYNCED", "deleted"})

\* Every call of initiatePooling() gets the mutex and gives it back.
PassesEnd == (waiting > 0 \/ pass # Idle) ~> (waiting = 0 /\ pass = Idle)
==============================================================================
