----------------------------- MODULE BlockQueue ------------------------------
(***************************************************************************)
(* How blocks travel from the validators to the storage node.  Each        *)
(* validator appends blocks to a QueueServer table whose ids come from a   *)
(* BIGSERIAL; the storage node's QueueClient polls the validators in turn, *)
(* hands every item of a page to StorageNode.accept() and then saves the   *)
(* page's last id as the endpoint's offset in the table "dset_client".     *)
(***************************************************************************)
EXTENDS Integers, FiniteSets

CONSTANTS
  NumEndpoints,   \* validators; their ids are the ids of the dset_client rows
  Hashes,         \* the blocks
  PageSize,       \* QueueServer.replyPageSize
  MaxRequests,    \* CLIENT_REQUEST_PER_SCHEDULED_JOB
  SerialCommits,  \* TRUE: inserts commit in the order their ids were drawn
  MaxId,          \* bound: ids a queue may draw ...
  Quota,          \* ... and, of those, each queue
  MaxFaults,      \* bound: lost or stale replies, failing calls
  MaxCrashes,     \* bound: crashes of the storage node
  MaxChanges      \* bound: validator status changes

ASSUME EndpointsAssumption == NumEndpoints \in Nat \ {0}
ASSUME PageAssumption == PageSize \in Nat \ {0} /\ MaxRequests \in Nat \ {0}
ASSUME QuotaAssumption == Quota \in [1..NumEndpoints -> 0..MaxId]
ASSUME SerialAssumption == SerialCommits \in BOOLEAN
ASSUME QueueBoundsAssumption ==
  MaxId \in Nat /\ MaxFaults \in Nat /\ MaxCrashes \in Nat /\ MaxChanges \in Nat

VARIABLES
  log,       \* validator -> committed rows of its queue table
  open,      \* validator -> rows whose INSERT has drawn an id, not yet committed
  lastId,    \* validator -> the last id its sequence has given out
  enabled,   \* validators the contract state calls enabled
  rowState,  \* dset_client.state, or "none" where there is no row
  offset,    \* dset_client.target_offset
  client,    \* where the poll stands
  stored,    \* blocks StorageNode.accept() has saved
  offered,   \* history: the (validator, id) pairs handed to accept()
  faults, crashes, changes

servers == <<log, open, lastId>>
counts  == <<faults, crashes, changes>>
vars    == <<servers, enabled, rowState, offset, client, stored, offered, counts>>

Endpoints == 1..NumEndpoints

Rows == [id : Nat, hash : Hashes]

Offsets == [Endpoints -> Nat]

ClientStates ==
  [pc : {"boot", "idle"}]
    \cup [pc : {"read"}, at : Endpoints, n : Nat, last : Nat, seen : Offsets]
    \cup [pc : {"page"}, at : Endpoints, n : Nat, last : Nat, seen : Offsets,
          left : SUBSET Rows, upto : Nat]

Init ==
  /\ log = [e \in Endpoints |-> {}]
  /\ open = [e \in Endpoints |-> {}]
  /\ lastId = [e \in Endpoints |-> 0]
  /\ enabled \in SUBSET Endpoints
  /\ rowState = [e \in Endpoints |-> "none"]
  /\ offset = [e \in Endpoints |-> 0]
  /\ client = [pc |-> "boot"]
  /\ stored = {} /\ offered = {}
  /\ faults = 0 /\ crashes = 0 /\ changes = 0

------------------------------------------------------------------------------
(* QueueServer: accept() and appendWithHashChecks() on a validator. *)

\* The INSERT draws its id from the sequence before it knows whether it will stay.
Append(e, h) ==
  /\ lastId[e] < Quota[e]
  /\ lastId' = [lastId EXCEPT ![e] = @ + 1]
  /\ open' = [open EXCEPT ![e] = @ \cup {[id |-> lastId[e] + 1, hash |-> h]}]
  /\ UNCHANGED <<log, enabled, rowState, offset, client, stored, offered, counts>>

InQueue(e, h) == \E r \in log[e] : r.hash = h

\* ON CONFLICT DO NOTHING drops a hash the queue has; the id stays unused.
Commit(e, r) ==
  /\ r \in open[e]
  /\ SerialCommits => \A q \in open[e] : r.id <= q.id
  /\ open' = [open EXCEPT ![e] = @ \ {r}]
  /\ log' = IF InQueue(e, r.hash) THEN log
            ELSE [log EXCEPT ![e] = @ \cup {r}]
  /\ UNCHANGED <<lastId, enabled, rowState, offset, client, stored, offered, counts>>

\* Mutant of FirstPage: the page is read without ORDER BY.
FirstPageUnordered(P, rows) ==
  /\ P \subseteq rows
  /\ \/ P = rows /\ Cardinality(P) <= PageSize
     \/ Cardinality(P) = PageSize

\* readItems(): the PageSize rows with the lowest ids above the offset.
FirstPage(P, rows) ==
  /\ P \subseteq rows
  /\ \A r \in P : \A q \in rows \ P : r.id < q.id
  /\ \/ P = rows /\ Cardinality(P) <= PageSize
     \/ Cardinality(P) = PageSize

\* readWithLastOffset(): the id of the last item, when there are items.
IsLastOffset(P, n) == (\E r \in P : r.id = n) /\ (\A r \in P : r.id <= n)

\* Mutant of RowsAfter: the page starts one id too late.
RowsAfterNext(e, n) == {r \in log[e] : r.id > n + 1}

RowsAfter(e, n) == {r \in log[e] : r.id > n}

------------------------------------------------------------------------------
(* QueueClient.pollRemoteQueue() and the job around it. *)

\* QueueClientHelper: upsert a dset_client row for every enabled validator; the
\* offset of an existing row is kept, a row of a disabled validator is not touched.
InitClients ==
  /\ client.pc = "boot"
  /\ rowState' = [e \in Endpoints |-> IF e \in enabled THEN "on" ELSE rowState[e]]
  /\ client' = [pc |-> "idle"]
  /\ UNCHANGED <<servers, enabled, offset, stored, offered, counts>>

\* The rows the SELECT returns: state = 1, in the order of their ids.
Polled == {e \in Endpoints : rowState[e] = "on"}

\* Mutant of Visit: "break" leaves the loop over the endpoints as well.
VisitFirstOnly(e, seen) ==
  IF e # 0 \/ Polled = {} THEN client' = [pc |-> "idle"]
  ELSE \E f \in Polled :
         /\ \A g \in Polled : f <= g
         /\ client' = [pc |-> "read", at |-> f, n |-> 0, last |-> seen[f],
                       seen |-> seen]

\* The loop's next endpoint after e, starting from the offset the SELECT read, or
\* the end of the job.
Visit(e, seen) ==
  LET rest == {f \in Polled : f > e}
  IN IF rest = {} THEN client' = [pc |-> "idle"]
     ELSE \E f \in rest :
            /\ \A g \in rest : f <= g
            /\ client' = [pc |-> "read", at |-> f, n |-> 0, last |-> seen[f],
                          seen |-> seen]

\* The cron job fires; while a poll runs the mutex turns it away.
CronTick ==
  /\ client.pc = "idle"
  /\ Visit(0, offset)
  /\ UNCHANGED <<servers, enabled, rowState, offset, stored, offered, counts>>

\* push_readBlockQueue answers with a page, or with nothing: "break".
ReadPage ==
  /\ client.pc = "read"
  /\ LET rows == RowsAfter(client.at, client.last)
     IN \/ rows = {} /\ Visit(client.at, client.seen)
        \/ /\ rows # {}
           /\ \E P \in SUBSET rows : \E n \in 1..MaxId :
                /\ FirstPage(P, rows) /\ IsLastOffset(P, n)
                /\ client' = [pc |-> "page", at |-> client.at, n |-> client.n,
                              last |-> client.last, seen |-> client.seen,
                              left |-> P, upto |-> n]
  /\ UNCHANGED <<servers, enabled, rowState, offset, stored, offered, counts>>

\* accept() returns: the block was saved now or before.
AcceptItem(r) ==
  /\ client.pc = "page"
  /\ r \in client.left /\ \A q \in client.left : r.id <= q.id
  /\ stored' = stored \cup {r.hash}
  /\ offered' = offered \cup {<<client.at, r.id>>}
  /\ client' = [client EXCEPT !.left = @ \ {r}]
  /\ UNCHANGED <<servers, enabled, rowState, offset, counts>>

\* Mutant of TrustOffset: the remote offset is believed.
TrustAnyOffset(n, last) == TRUE

\* The check that no offset lower than the current one is trusted.
TrustOffset(n, last) == n > last

\* Mutant of Persist: the UPDATE touches no row.
PersistNothing(e, n) == UNCHANGED offset

\* UPDATE dset_client SET target_offset.
Persist(e, n) == offset' = [offset EXCEPT ![e] = n]

\* The page is through: save its last offset, then ask for the next page unless
\* this was the last request of the job for the endpoint.
SaveOffset ==
  /\ client.pc = "page" /\ client.left = {}
  /\ LET last == IF TrustOffset(client.upto, client.last) THEN client.upto
                 ELSE client.last
     IN /\ IF last # client.last THEN Persist(client.at, last)
           ELSE UNCHANGED offset
        /\ IF client.n + 1 < MaxRequests
           THEN client' = [pc |-> "read", at |-> client.at, n |-> client.n + 1,
                           last |-> last, seen |-> client.seen]
           ELSE Visit(client.at, client.seen)
  /\ UNCHANGED <<servers, enabled, rowState, stored, offered, counts>>

------------------------------------------------------------------------------
(* Failures and the environment. *)

\* The INSERT fails on the validator: its id is never used.
AppendFails(e, r) ==
  /\ r \in open[e] /\ faults < MaxFaults
  /\ faults' = faults + 1
  /\ open' = [open EXCEPT ![e] = @ \ {r}]
  /\ UNCHANGED <<log, lastId, enabled, rowState, offset, client, stored, offered,
                 crashes, changes>>

\* readItems() got no answer and returned null: "break".
ReplyLost ==
  /\ client.pc = "read" /\ faults < MaxFaults
  /\ faults' = faults + 1
  /\ Visit(client.at, client.seen)
  /\ UNCHANGED <<servers, enabled, rowState, offset, stored, offered, crashes, changes>>

\* An answer without a list of items: the loop over them throws, which ends the job.
NoItems ==
  /\ client.pc = "read" /\ faults < MaxFaults
  /\ faults' = faults + 1
  /\ client' = [pc |-> "idle"]
  /\ UNCHANGED <<servers, enabled, rowState, offset, stored, offered, crashes, changes>>

\* A validator answers with items the client is past, and their last offset.
StaleReply ==
  /\ client.pc = "read" /\ faults < MaxFaults
  /\ faults' = faults + 1
  /\ \E P \in SUBSET (log[client.at] \ RowsAfter(client.at, client.last)) :
     \E n \in 1..MaxId :
       /\ IsLastOffset(P, n)
       /\ client' = [pc |-> "page", at |-> client.at, n |-> client.n,
                     last |-> client.last, seen |-> client.seen, left |-> P, upto |-> n]
  /\ UNCHANGED <<servers, enabled, rowState, offset, stored, offered, crashes, changes>>

\* accept() throws, which the loop swallows, or finds a wrong hash.
AcceptFails(r) ==
  /\ client.pc = "page" /\ faults < MaxFaults
  /\ r \in client.left /\ \A q \in client.left : r.id <= q.id
  /\ faults' = faults + 1
  /\ offered' = offered \cup {<<client.at, r.id>>}
  /\ client' = [client EXCEPT !.left = @ \ {r}]
  /\ UNCHANGED <<servers, enabled, rowState, offset, stored, crashes, changes>>

\* The UPDATE of dset_client throws, which ends the whole job.
SaveFails ==
  /\ client.pc = "page" /\ client.left = {} /\ faults < MaxFaults
  /\ TrustOffset(client.upto, client.last)
  /\ faults' = faults + 1
  /\ client' = [pc |-> "idle"]
  /\ UNCHANGED <<servers, enabled, rowState, offset, stored, offered, crashes, changes>>

\* The storage node restarts: the poll is lost, its tables are not.
Crash ==
  /\ client.pc # "boot" /\ crashes < MaxCrashes
  /\ crashes' = crashes + 1
  /\ client' = [pc |-> "boot"]
  /\ UNCHANGED <<servers, enabled, rowState, offset, stored, offered, faults, changes>>

\* NodeAdded or NodeStatusChanged: dset_client does not follow.
StatusChanged(e) ==
  /\ changes < MaxChanges
  /\ changes' = changes + 1
  /\ enabled' = IF e \in enabled THEN enabled \ {e} ELSE enabled \cup {e}
  /\ UNCHANGED <<servers, rowState, offset, client, stored, offered, faults, crashes>>

ClientStep ==
  \/ InitClients \/ CronTick \/ ReadPage \/ SaveOffset
  \/ client.pc = "page" /\ \E r \in client.left : AcceptItem(r)

Next ==
  \/ \E e \in Endpoints : \E h \in Hashes : Append(e, h)
  \/ \E e \in Endpoints : \E r \in open[e] : Commit(e, r) \/ AppendFails(e, r)
  \/ ClientStep
  \/ client.pc = "page" /\ \E r \in client.left : AcceptFails(r)
  \/ ReplyLost \/ NoItems \/ StaleReply \/ SaveFails \/ Crash
  \/ \E e \in Endpoints : StatusChanged(e)

Spec == Init /\ [][Next]_vars

\* The scheduler fires the job every 30 seconds and the job runs to its end.
FairSpec == Spec /\ WF_vars(ClientStep)

------------------------------------------------------------------------------
(* Properties. *)

\* Type invariant of the queues, the endpoint table and the poll.
TypeOK ==
  /\ log \in [Endpoints -> SUBSET Rows] /\ open \in [Endpoints -> SUBSET Rows]
  /\ lastId \in [Endpoints -> 0..MaxId]
  /\ enabled \subseteq Endpoints
  /\ rowState \in [Endpoints -> {"none", "on"}]
  /\ offset \in Offsets
  /\ client \in ClientStates
  /\ stored \subseteq Hashes
  /\ offered \subseteq Endpoints \X Nat
  /\ faults \in 0..MaxFaults /\ crashes \in 0..MaxCrashes
  /\ changes \in 0..MaxChanges

\* The saved offset never runs ahead of the consumer: every row of a validator's
\* queue up to the offset was handed to accept(), through lost and stale replies,
\* failed saves and restarts.  It needs the ids to become visible in their order.
NothingSkipped ==
  \A e \in Endpoints : \A r \in log[e] :
    r.id <= offset[e] => <<e, r.id>> \in offered

Polling == client.pc \in {"read", "page"}

\* The poll's idea of the offsets it may still use is the table's: of the endpoint
\* it is at, and of those it has not visited.
OffsetInStep ==
  Polling => /\ client.last = offset[client.at]
             /\ \A e \in Endpoints : e > client.at => client.seen[e] = offset[e]

\* An id that may still become visible is above every id that is: in the queue,
\* in the table of offsets and in the page under way.
IdsOrdered ==
  \A e \in Endpoints :
    /\ offset[e] <= lastId[e]
    /\ \A r \in log[e] \cup open[e] : r.id <= lastId[e]
    /\ \A r \in open[e] : /\ offset[e] < r.id
                          /\ \A q \in log[e] : q.id < r.id
                          /\ \A q \in open[e] : q.id = r.id => q = r
    /\ client.pc = "page" /\ client.at = e =>
         client.upto <= lastId[e] /\ \A r \in open[e] : client.upto < r.id

\* The page under way covers every row between the offset and its last id.
PageCovered ==
  client.pc = "page" =>
    \A r \in log[client.at] :
      client.last < r.id /\ r.id <= client.upto =>
        r \in client.left \/ <<client.at, r.id>> \in offered

\* The inductive invariant of queue and poll, for ids that commit in their order:
\* why no row up to a saved offset is ever missed.
QInv == TypeOK /\ OffsetInStep /\ IdsOrdered /\ PageCovered /\ NothingSkipped

\* A restart repeats little: what was handed to accept() beyond the saved offset
\* is never more than one page.
RedeliveryBounded ==
  \A e \in Endpoints :
    Cardinality({i \in 1..MaxId : i > offset[e] /\ <<e, i>> \in offered}) <= PageSize

\* "never trust any offset lower than the current": the saved offset of a validator
\* never goes back, whatever the validator answers.
OffsetMonotone == [][\A e \in Endpoints : offset'[e] >= offset[e]]_vars

\* Every row of a polled validator's queue is handed to accept() in the end: no
\* endpoint starves behind another, no gap in the ids stops the poll.
EveryRowOffered ==
  \A e \in Endpoints : \A i \in 1..Quota[e] :
    (rowState[e] = "on" /\ \E r \in log[e] : r.id = i) ~> (<<e, i>> \in offered)

\* accept() is called once per row and its failure is not retried, but "we read
\* duplicates from every validator": a block that all of at least two polled
\* validators queue is stored in the end although one accept() fails.
EveryBlockStored ==
  \A h \in Hashes :
    (\A e \in Endpoints : rowState[e] = "on" /\ InQueue(e, h)) ~> (h \in stored)
==============================================================================
