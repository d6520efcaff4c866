-------------------------- MODULE BlockQueueProofs ---------------------------
(***************************************************************************)
(* Proofs about BlockQueue, for any number of validators, blocks, pages,   *)
(* faults and restarts.                                                    *)
(***************************************************************************)
EXTENDS BlockQueue, FiniteSetTheorems, TLAPS

\* What the poll's locals are in each of its states.
LEMMA ClientFacts ==
  ASSUME NEW c \in ClientStates
  PROVE  /\ c.pc \in {"boot", "idle", "read", "page"}
         /\ c.pc \in {"read", "page"} =>
              c.at \in Endpoints /\ c.n \in Nat /\ c.last \in Nat /\ c.seen \in Offsets
         /\ c.pc = "page" => c.left \in SUBSET Rows /\ c.upto \in Nat
BY DEF ClientStates

\* An idle or booting poll is typed.
LEMMA RestTyped ==
  ASSUME NEW pc \in {"boot", "idle"}
  PROVE  [pc |-> pc] \in ClientStates
BY DEF ClientStates

\* A poll about to ask for a page is typed.
LEMMA ReadTyped ==
  ASSUME NEW e \in Endpoints, NEW n \in Nat, NEW last \in Nat, NEW seen \in Offsets
  PROVE  [pc |-> "read", at |-> e, n |-> n, last |-> last, seen |-> seen]
           \in ClientStates
BY DEF ClientStates

\* A poll that works on a page is typed.
LEMMA PageTyped ==
  ASSUME NEW e \in Endpoints, NEW n \in Nat, NEW last \in Nat, NEW seen \in Offsets,
         NEW left \in SUBSET Rows, NEW upto \in Nat
  PROVE  [pc |-> "page", at |-> e, n |-> n, last |-> last, seen |-> seen,
          left |-> left, upto |-> upto] \in ClientStates
BY DEF ClientStates

\* The loop over the endpoints ends, or goes on with a later endpoint from the
\* offset the SELECT read for it.
LEMMA VisitFacts ==
  ASSUME NEW e \in Nat, NEW seen \in Offsets, Visit(e, seen)
  PROVE  \/ client' = [pc |-> "idle"]
         \/ \E f \in Endpoints :
              /\ f > e
              /\ client' = [pc |-> "read", at |-> f, n |-> 0, last |-> seen[f],
                            seen |-> seen]
BY DEF Visit, Polled

\* The loop over the endpoints keeps the poll typed.
LEMMA VisitTyped ==
  ASSUME NEW e \in Nat, NEW seen \in Offsets, Visit(e, seen)
  PROVE  client' \in ClientStates
<1>1. CASE client' = [pc |-> "idle"]
  BY <1>1, RestTyped
<1>2. ASSUME NEW f \in Endpoints,
             client' = [pc |-> "read", at |-> f, n |-> 0, last |-> seen[f],
                        seen |-> seen]
      PROVE  client' \in ClientStates
  <2>1. seen[f] \in Nat
    BY DEF Offsets
  <2>2. QED
    BY <1>2, <2>1, ReadTyped
<1>3. QED
  BY <1>1, <1>2, VisitFacts

\* The initial states are typed.
LEMMA TypeInit == Init => TypeOK
<1> SUFFICES ASSUME Init PROVE TypeOK
  OBVIOUS
<1>1. client \in ClientStates
  BY RestTyped DEF Init
<1>2. QED
  BY <1>1, QueueBoundsAssumption DEF Init, TypeOK, Offsets

\* Every step of a queue, of the poll and of what goes wrong keeps the types.
LEMMA TypeStep == TypeOK /\ [Next]_vars => TypeOK'
<1> SUFFICES ASSUME TypeOK, [Next]_vars PROVE TypeOK'
  OBVIOUS
<1> USE DEF TypeOK
<1>0. /\ client.pc \in {"read", "page"} =>
           /\ client.at \in Endpoints /\ client.at \in Nat /\ client.n \in Nat
           /\ client.last \in Nat /\ client.seen \in Offsets
      /\ client.pc = "page" => client.left \in SUBSET Rows /\ client.upto \in Nat
      /\ 1..MaxId \subseteq Nat
  BY ClientFacts, EndpointsAssumption, QueueBoundsAssumption DEF Endpoints
<1>1. ASSUME NEW e \in Endpoints, NEW h \in Hashes, Append(e, h) PROVE TypeOK'
  <2>1. lastId[e] + 1 \in 0..MaxId /\ lastId[e] + 1 \in Nat
    <3>1. lastId[e] \in 0..MaxId /\ Quota[e] \in 0..MaxId /\ lastId[e] < Quota[e]
      BY <1>1, QuotaAssumption DEF Append, Endpoints
    <3> QED
      BY <3>1, QueueBoundsAssumption
  <2>2. [id |-> lastId[e] + 1, hash |-> h] \in Rows
    BY <2>1 DEF Rows
  <2>3. QED
    BY <1>1, <2>1, <2>2 DEF Append, counts
<1>2. ASSUME NEW e \in Endpoints, NEW r \in open[e], Commit(e, r) PROVE TypeOK'
  BY <1>2 DEF Commit, counts
<1>3. ASSUME NEW e \in Endpoints, NEW r \in open[e], AppendFails(e, r) PROVE TypeOK'
  BY <1>3, QueueBoundsAssumption DEF AppendFails
<1>4. CASE InitClients
  BY <1>4, RestTyped DEF InitClients, servers, counts
<1>5. CASE CronTick
  <2>1. client' \in ClientStates
    BY <1>5, VisitTyped DEF CronTick
  <2>2. QED
    BY <1>5, <2>1 DEF CronTick, servers, counts
<1>6. CASE ReadPage
  <2>1. client' \in ClientStates
    <3>1. CASE Visit(client.at, client.seen)
      BY <1>0, <1>6, <3>1, VisitTyped DEF ReadPage
    <3>2. ASSUME NEW P \in SUBSET RowsAfter(client.at, client.last), NEW n \in 1..MaxId,
                 client' = [pc |-> "page", at |-> client.at, n |-> client.n,
                            last |-> client.last, seen |-> client.seen,
                            left |-> P, upto |-> n]
          PROVE  client' \in ClientStates
      <4>1. client.pc = "read"
        BY <1>6 DEF ReadPage
      <4>2. P \in SUBSET Rows /\ n \in Nat
        BY <1>0, <3>2, <4>1 DEF RowsAfter
      <4>3. QED
        BY <1>0, <3>2, <4>1, <4>2, PageTyped
    <3>3. QED
      BY <1>6, <3>1, <3>2 DEF ReadPage
  <2>2. QED
    BY <1>6, <2>1 DEF ReadPage, servers, counts
<1>7. ASSUME NEW r \in client.left, client.pc = "page",
             client' = [client EXCEPT !.left = @ \ {r}]
      PROVE  /\ client' \in ClientStates
             /\ r.hash \in Hashes /\ r.id \in Nat /\ client.at \in Endpoints
  <2>1. client \in [pc : {"page"}, at : Endpoints, n : Nat, last : Nat, seen : Offsets,
                    left : SUBSET Rows, upto : Nat]
    BY <1>7 DEF ClientStates
  <2>2. client' \in [pc : {"page"}, at : Endpoints, n : Nat, last : Nat, seen : Offsets,
                     left : SUBSET Rows, upto : Nat]
    BY <1>7, <2>1
  <2>3. r \in Rows
    BY <1>0, <1>7
  <2>4. QED
    BY <1>0, <1>7, <2>2, <2>3 DEF ClientStates, Rows
<1>8. ASSUME NEW r \in client.left, AcceptItem(r) PROVE TypeOK'
  <2>1. client' \in ClientStates /\ r.hash \in Hashes /\ r.id \in Nat
          /\ client.at \in Endpoints
    BY <1>7, <1>8 DEF AcceptItem
  <2>2. offered' \subseteq Endpoints \X Nat
    BY <1>8, <2>1 DEF AcceptItem
  <2>3. QED
    BY <1>8, <2>1, <2>2, QueueBoundsAssumption DEF AcceptItem, servers, counts
<1>9. ASSUME NEW r \in client.left, AcceptFails(r) PROVE TypeOK'
  <2>1. client' \in ClientStates /\ r.hash \in Hashes /\ r.id \in Nat
          /\ client.at \in Endpoints
    BY <1>7, <1>9 DEF AcceptFails
  <2>2. offered' \subseteq Endpoints \X Nat
    BY <1>9, <2>1 DEF AcceptFails
  <2>3. QED
    BY <1>9, <2>1, <2>2, QueueBoundsAssumption DEF AcceptFails, servers
<1>10. CASE SaveOffset
  <2> DEFINE last == IF TrustOffset(client.upto, client.last) THEN client.upto
                     ELSE client.last
  <2>1. last \in Nat /\ client.pc = "page"
    BY <1>0, <1>10 DEF SaveOffset
  <2>2. client' \in ClientStates
    <3>1. CASE Visit(client.at, client.seen)
      BY <1>0, <2>1, <3>1, VisitTyped
    <3>2. CASE client' = [pc |-> "read", at |-> client.at, n |-> client.n + 1,
                          last |-> last, seen |-> client.seen]
      <4>1. client.n + 1 \in Nat
        BY <1>0, <2>1
      <4>2. QED
        BY <1>0, <2>1, <3>2, <4>1, ReadTyped
    <3>3. QED
      BY <1>10, <3>1, <3>2 DEF SaveOffset
  <2>3. offset' \in Offsets
    BY <1>0, <1>10, <2>1 DEF SaveOffset, Persist, Offsets
  <2>4. QED
    BY <1>10, <2>2, <2>3 DEF SaveOffset, servers, counts
<1>11. CASE ReplyLost
  <2>1. client' \in ClientStates
    BY <1>0, <1>11, VisitTyped DEF ReplyLost
  <2>2. QED
    BY <1>11, <2>1, QueueBoundsAssumption DEF ReplyLost, servers
<1>12. CASE StaleReply
  <2>1. PICK P \in SUBSET (log[client.at] \ RowsAfter(client.at, client.last)),
             n \in 1..MaxId :
            client' = [pc |-> "page", at |-> client.at, n |-> client.n,
                       last |-> client.last, seen |-> client.seen, left |-> P, upto |-> n]
    BY <1>12 DEF StaleReply
  <2>2. client.pc = "read"
    BY <1>12 DEF StaleReply
  <2>3. P \in SUBSET Rows
    BY <1>0, <2>1, <2>2
  <2>4. client' \in ClientStates
    <3>1. n \in Nat /\ client.at \in Endpoints /\ client.n \in Nat
            /\ client.last \in Nat /\ client.seen \in Offsets
      BY <1>0, <2>2
    <3>2. QED
      BY <2>1, <2>3, <3>1, PageTyped
  <2>5. /\ faults' = faults + 1 /\ faults < MaxFaults
        /\ UNCHANGED <<servers, enabled, rowState, offset, stored, offered, crashes,
                       changes>>
    BY <1>12 DEF StaleReply
  <2>6. faults' \in 0..MaxFaults
    BY <2>5, QueueBoundsAssumption
  <2>7. QED
    BY <2>4, <2>5, <2>6 DEF servers
<1>13. CASE SaveFails
  BY <1>13, RestTyped, QueueBoundsAssumption DEF SaveFails, servers
<1>14. CASE Crash
  BY <1>14, RestTyped, QueueBoundsAssumption DEF Crash, servers
<1>15. CASE NoItems
  BY <1>15, RestTyped, QueueBoundsAssumption DEF NoItems, servers
<1>16. ASSUME NEW e \in Endpoints, StatusChanged(e) PROVE TypeOK'
  BY <1>16, QueueBoundsAssumption DEF StatusChanged, servers
<1>17. CASE UNCHANGED vars
  BY <1>17 DEF vars, servers, counts
<1>18. QED
  BY <1>1, <1>2, <1>3, <1>4, <1>5, <1>6, <1>8, <1>9, <1>10, <1>11, <1>12, <1>13, <1>14,
     <1>15, <1>16, <1>17 DEF Next, ClientStep

\* The queues, the endpoint table and the poll keep their types in every behaviour.
THEOREM TypeCorrect == Spec => []TypeOK
BY TypeInit, TypeStep, PTL DEF Spec

------------------------------------------------------------------------------
(* The poll's offsets. *)

\* What the types say of a poll that is under way.
LEMMA PollFacts ==
  ASSUME TypeOK
  PROVE  /\ Polling => /\ client.at \in Endpoints /\ client.at \in Nat
                       /\ client.n \in Nat /\ client.last \in Nat
                       /\ client.seen \in Offsets
         /\ client.pc = "page" => client.left \in SUBSET Rows /\ client.upto \in Nat
         /\ Endpoints \subseteq Nat
BY ClientFacts, EndpointsAssumption DEF TypeOK, Polling, Endpoints

\* Going on to a later endpoint whose offset nobody has changed keeps the poll in
\* step with the table.
LEMMA VisitInStep ==
  ASSUME NEW e \in Nat, NEW seen \in Offsets, Visit(e, seen),
         \A f \in Endpoints : f > e => seen[f] = offset'[f]
  PROVE  OffsetInStep' /\ client'.pc # "page"
<1>1. CASE client' = [pc |-> "idle"]
  BY <1>1 DEF OffsetInStep, Polling
<1>2. ASSUME NEW f \in Endpoints, f > e,
             client' = [pc |-> "read", at |-> f, n |-> 0, last |-> seen[f],
                        seen |-> seen]
      PROVE  OffsetInStep' /\ client'.pc # "page"
  <2>1. client'.at = f /\ client'.last = seen[f] /\ client'.seen = seen
          /\ client'.pc = "read"
    BY <1>2
  <2>2. \A g \in Endpoints : g > f => g > e
    BY <1>2, EndpointsAssumption DEF Endpoints
  <2>3. QED
    BY <1>2, <2>1, <2>2 DEF OffsetInStep
<1>3. QED
  BY <1>1, <1>2, VisitFacts

\* Steps that move the poll neither on nor back, nor touch the table of offsets.
LEMMA SameInStep ==
  ASSUME OffsetInStep, offset' = offset,
         Polling' => /\ Polling /\ client'.at = client.at
                     /\ client'.last = client.last /\ client'.seen = client.seen
  PROVE  OffsetInStep'
BY DEF OffsetInStep

\* SaveOffset writes the offset of the endpoint the poll is at, and only forwards.
LEMMA SaveFacts ==
  ASSUME TypeOK, OffsetInStep, SaveOffset
  PROVE  /\ client.pc = "page" /\ client.left = {}
         /\ \A e \in Endpoints \ {client.at} : offset'[e] = offset[e]
         /\ offset'[client.at] = IF client.upto > client.last THEN client.upto
                                 ELSE client.last
         /\ \/ Visit(client.at, client.seen)
            \/ client' = [pc |-> "read", at |-> client.at, n |-> client.n + 1,
                          last |-> offset'[client.at], seen |-> client.seen]
<1>1. /\ client.pc = "page" /\ client.left = {} /\ Polling
      /\ client.last = offset[client.at]
  BY DEF SaveOffset, OffsetInStep, Polling
<1>2. client.at \in Endpoints /\ client.last \in Nat /\ client.upto \in Nat
  BY <1>1, PollFacts
<1>3. offset \in [Endpoints -> Nat]
  BY DEF TypeOK, Offsets
<1>4. CASE client.upto > client.last
  <2>1. offset' = [offset EXCEPT ![client.at] = client.upto]
    BY <1>1, <1>2, <1>4 DEF SaveOffset, TrustOffset, Persist
  <2>2. offset'[client.at] = client.upto
    BY <1>2, <1>3, <2>1
  <2>3. \/ Visit(client.at, client.seen)
        \/ client' = [pc |-> "read", at |-> client.at, n |-> client.n + 1,
                      last |-> client.upto, seen |-> client.seen]
    BY <1>4 DEF SaveOffset, TrustOffset
  <2>4. QED
    BY <1>1, <1>3, <1>4, <2>1, <2>2, <2>3
<1>5. CASE ~(client.upto > client.last)
  <2>1. offset' = offset
    BY <1>1, <1>5 DEF SaveOffset, TrustOffset
  <2>2. \/ Visit(client.at, client.seen)
        \/ client' = [pc |-> "read", at |-> client.at, n |-> client.n + 1,
                      last |-> client.last, seen |-> client.seen]
    BY <1>5 DEF SaveOffset, TrustOffset
  <2>3. QED
    BY <1>1, <1>5, <2>1, <2>2
<1>6. QED
  BY <1>4, <1>5

\* Every step keeps the poll in step with the table of offsets.
LEMMA InStep == TypeOK /\ OffsetInStep /\ [Next]_vars => OffsetInStep'
<1> SUFFICES ASSUME TypeOK, OffsetInStep, [Next]_vars PROVE OffsetInStep'
  OBVIOUS
<1>1. ASSUME UNCHANGED <<offset, client>> PROVE OffsetInStep'
  BY <1>1, SameInStep DEF Polling
<1>2. ASSUME NEW pc \in {"boot", "idle"}, client' = [pc |-> pc] PROVE OffsetInStep'
  BY <1>2 DEF OffsetInStep, Polling
<1>3. ASSUME client.pc = "read", offset' = offset, Visit(client.at, client.seen)
      PROVE  OffsetInStep'
  <2>1. /\ client.at \in Nat /\ client.seen \in Offsets
        /\ \A f \in Endpoints : f > client.at => client.seen[f] = offset'[f]
    BY <1>3, PollFacts DEF Polling, OffsetInStep
  <2>2. QED
    BY <1>3, <2>1, VisitInStep
<1>4. ASSUME client.pc = "read", offset' = offset, NEW left, NEW upto,
             client' = [pc |-> "page", at |-> client.at, n |-> client.n,
                        last |-> client.last, seen |-> client.seen,
                        left |-> left, upto |-> upto]
      PROVE  OffsetInStep'
  BY <1>4, SameInStep DEF Polling
<1>5. ASSUME client.pc = "page", offset' = offset, NEW left,
             client' = [client EXCEPT !.left = left]
      PROVE  OffsetInStep'
  <2>1. client \in [pc : {"page"}, at : Endpoints, n : Nat, last : Nat, seen : Offsets,
                    left : SUBSET Rows, upto : Nat]
    BY <1>5 DEF TypeOK, ClientStates
  <2>2. client'.at = client.at /\ client'.last = client.last
          /\ client'.seen = client.seen
    BY <1>5, <2>1
  <2>3. QED
    BY <1>5, <2>2, SameInStep DEF Polling
<1>6. CASE CronTick
  <2>1. \A f \in Endpoints : offset[f] = offset'[f]
    BY <1>6 DEF CronTick
  <2>2. offset \in Offsets
    BY DEF TypeOK
  <2>3. QED
    BY <1>6, <2>1, <2>2, VisitInStep DEF CronTick
<1>7. CASE ReadPage
  BY <1>3, <1>4, <1>7 DEF ReadPage
<1>8. ASSUME NEW r \in client.left, AcceptItem(r) PROVE OffsetInStep'
  BY <1>5, <1>8 DEF AcceptItem
<1>9. ASSUME NEW r \in client.left, AcceptFails(r) PROVE OffsetInStep'
  BY <1>5, <1>9 DEF AcceptFails
<1>10. CASE SaveOffset
  <2>1. /\ Polling /\ client.at \in Nat /\ client.seen \in Offsets
        /\ \A f \in Endpoints : f > client.at => client.seen[f] = offset'[f]
    BY <1>10, SaveFacts, PollFacts DEF Polling, OffsetInStep
  <2>2. CASE Visit(client.at, client.seen)
    BY <2>1, <2>2, VisitInStep
  <2>3. CASE client' = [pc |-> "read", at |-> client.at, n |-> client.n + 1,
                        last |-> offset'[client.at], seen |-> client.seen]
    BY <2>1, <2>3 DEF OffsetInStep
  <2>4. QED
    BY <1>10, <2>2, <2>3, SaveFacts
<1>11. CASE StaleReply
  BY <1>4, <1>11 DEF StaleReply
<1>12. QED
  BY <1>1, <1>2, <1>3, <1>6, <1>7, <1>8, <1>9, <1>10, <1>11
     DEF Next, ClientStep, Append, Commit, AppendFails, InitClients, ReplyLost,
         NoItems, SaveFails, Crash, StatusChanged, vars

\* The poll always works with the offsets of the table: it reads the table once per
\* job, and only its own saves change it.
THEOREM PollInStep == Spec => []OffsetInStep
<1>1. Init => OffsetInStep
  BY DEF Init, OffsetInStep, Polling
<1>2. QED
  BY <1>1, InStep, TypeCorrect, PTL DEF Spec

\* No step takes a saved offset back.
LEMMA OffsetForward ==
  TypeOK /\ OffsetInStep /\ [Next]_vars => \A e \in Endpoints : offset'[e] >= offset[e]
<1> SUFFICES ASSUME TypeOK, OffsetInStep, [Next]_vars, NEW e \in Endpoints
             PROVE  offset'[e] >= offset[e]
  OBVIOUS
<1>1. offset[e] \in Nat
  BY DEF TypeOK, Offsets
<1>2. CASE offset' = offset
  BY <1>1, <1>2
<1>3. CASE SaveOffset
  <2>1. client.last = offset[client.at] /\ client.last \in Nat /\ client.upto \in Nat
    BY <1>3, SaveFacts, PollFacts DEF OffsetInStep, Polling
  <2>2. CASE e # client.at
    BY <1>1, <1>3, <2>2, SaveFacts
  <2>3. CASE e = client.at
    BY <1>3, <2>1, <2>3, SaveFacts
  <2>4. QED
    BY <2>2, <2>3
<1>4. QED
  BY <1>2, <1>3
     DEF Next, ClientStep, Append, Commit, AppendFails, InitClients, CronTick, ReadPage,
         AcceptItem, AcceptFails, StaleReply, ReplyLost, NoItems, SaveFails, Crash,
         StatusChanged, vars

\* Whatever a validator answers and whatever fails, an endpoint's saved offset never
\* goes back.
THEOREM OffsetsNeverGoBack == Spec => OffsetMonotone
<1>1. TypeOK /\ OffsetInStep /\ [Next]_vars
        => [\A e \in Endpoints : offset'[e] >= offset[e]]_vars
  BY OffsetForward
<1>2. QED
  BY <1>1, TypeCorrect, PollInStep, PTL DEF Spec, OffsetMonotone

------------------------------------------------------------------------------
(* No row is missed when the ids commit in their order. *)

Core == IdsOrdered /\ PageCovered /\ NothingSkipped

\* The integers that the invariants compare.
LEMMA IdFacts ==
  ASSUME TypeOK, NEW e \in Endpoints
  PROVE  /\ offset[e] \in Nat /\ lastId[e] \in Nat
         /\ log[e] \subseteq Rows /\ open[e] \subseteq Rows
         /\ \A r \in log[e] \cup open[e] : r.id \in Nat
BY QueueBoundsAssumption DEF TypeOK, Offsets, Rows

\* Steps of the poll that leave its page alone, or end it, preserve the core.
LEMMA CoreQuiet ==
  ASSUME Core, UNCHANGED servers, offset' = offset, offered \subseteq offered',
         client'.pc = "page" => client' = client
  PROVE  Core'
<1>1. IdsOrdered'
  BY DEF Core, IdsOrdered, servers
<1>2. PageCovered'
  BY DEF Core, PageCovered, servers
<1>3. NothingSkipped'
  BY DEF Core, NothingSkipped, servers
<1>4. QED
  BY <1>1, <1>2, <1>3 DEF Core

\* Drawing an id: it is above all ids of its queue.
LEMMA CoreAppend ==
  ASSUME TypeOK, Core, NEW e \in Endpoints, NEW h \in Hashes, Append(e, h)
  PROVE  Core'
<1>1. /\ log' = log /\ client' = client /\ offset' = offset /\ offered' = offered
      /\ lastId' = [lastId EXCEPT ![e] = lastId[e] + 1]
      /\ open' = [open EXCEPT ![e] = open[e] \cup {[id |-> lastId[e] + 1, hash |-> h]}]
  BY DEF Append
<1>2. lastId \in [Endpoints -> 0..MaxId] /\ open \in [Endpoints -> SUBSET Rows]
  BY DEF TypeOK
<1>3. /\ lastId'[e] = lastId[e] + 1
      /\ open'[e] = open[e] \cup {[id |-> lastId[e] + 1, hash |-> h]}
      /\ \A f \in Endpoints \ {e} : lastId'[f] = lastId[f] /\ open'[f] = open[f]
  BY <1>1, <1>2
<1>4. IdsOrdered'
  <2> SUFFICES ASSUME NEW f \in Endpoints
               PROVE /\ offset[f] <= lastId'[f]
                     /\ \A r \in log[f] \cup open'[f] : r.id <= lastId'[f]
                     /\ \A r \in open'[f] : /\ offset[f] < r.id
                                            /\ \A q \in log[f] : q.id < r.id
                                            /\ \A q \in open'[f] : q.id = r.id => q = r
                     /\ client.pc = "page" /\ client.at = f =>
                          /\ client.upto <= lastId'[f]
                          /\ \A r \in open'[f] : client.upto < r.id
    BY <1>1 DEF IdsOrdered
  <2>1. CASE f # e
    BY <1>3, <2>1 DEF Core, IdsOrdered
  <2>2. CASE f = e
    <3>1. /\ offset[e] \in Nat /\ lastId[e] \in Nat
          /\ \A r \in log[e] \cup open[e] : r.id \in Nat
          /\ client.pc = "page" => client.upto \in Nat
      BY IdFacts, PollFacts
    <3>2. /\ offset[e] <= lastId[e] /\ \A r \in log[e] \cup open[e] : r.id <= lastId[e]
          /\ \A r \in open[e] : /\ offset[e] < r.id
                                /\ \A q \in log[e] : q.id < r.id
                                /\ \A q \in open[e] : q.id = r.id => q = r
          /\ client.pc = "page" /\ client.at = e =>
                 client.upto <= lastId[e] /\ \A r \in open[e] : client.upto < r.id
      BY DEF Core, IdsOrdered
    <3> DEFINE new == [id |-> lastId[e] + 1, hash |-> h]
    <3>3. new.id = lastId[e] + 1
      OBVIOUS
    <3> HIDE DEF new
    <3>4. open'[e] = open[e] \cup {new}
      BY <1>3 DEF new
    <3>5. \A r \in log[e] \cup open[e] : r.id < new.id
      BY <3>1, <3>2, <3>3
    <3>6. \A r \in open'[e] : /\ offset[e] < r.id
                              /\ \A q \in log[e] : q.id < r.id
                              /\ \A q \in open'[e] : q.id = r.id => q = r
      BY <3>1, <3>2, <3>3, <3>4, <3>5
    <3>7. \A r \in log[e] \cup open'[e] : r.id <= lastId'[e]
      BY <1>3, <3>1, <3>2, <3>3, <3>4
    <3>8. client.pc = "page" /\ client.at = e =>
            client.upto <= lastId'[e] /\ \A r \in open'[e] : client.upto < r.id
      BY <1>3, <3>1, <3>2, <3>3, <3>4
    <3>9. QED
      BY <1>3, <2>2, <3>1, <3>2, <3>6, <3>7, <3>8
  <2>3. QED
    BY <2>1, <2>2
<1>5. PageCovered' /\ NothingSkipped'
  BY <1>1 DEF Core, PageCovered, NothingSkipped
<1>6. QED
  BY <1>4, <1>5 DEF Core

\* A row that becomes visible, or that never will: with serial commits it is the
\* lowest of the open ones, so it is above the offset and above the page.
LEMMA CoreCommit ==
  ASSUME TypeOK, Core, NEW e \in Endpoints, NEW r \in open[e],
         open' = [open EXCEPT ![e] = @ \ {r}],
         \/ log' = log
         \/ /\ log' = [log EXCEPT ![e] = @ \cup {r}]
            /\ \A q \in open[e] : r.id <= q.id,
         UNCHANGED <<lastId, offset, client, offered>>
  PROVE  Core'
<1>1. log \in [Endpoints -> SUBSET Rows] /\ open \in [Endpoints -> SUBSET Rows]
  BY DEF TypeOK
<1>2. /\ open'[e] = open[e] \ {r} /\ log[e] \subseteq log'[e]
      /\ log'[e] \subseteq log[e] \cup {r}
      /\ r \in log'[e] => r \in log[e] \/ \A q \in open[e] : r.id <= q.id
      /\ \A f \in Endpoints \ {e} : log'[f] = log[f] /\ open'[f] = open[f]
  BY <1>1
<1>3. /\ offset[e] < r.id
      /\ \A q \in open[e] : q.id = r.id => q = r
      /\ client.pc = "page" /\ client.at = e => client.upto < r.id
  BY DEF Core, IdsOrdered
<1>4. /\ offset[e] \in Nat /\ r.id \in Nat
      /\ \A q \in log[e] \cup open[e] : q.id \in Nat
  BY IdFacts
<1>5. \A p \in log'[e] : \A q \in open'[e] : p.id < q.id
  <2> SUFFICES ASSUME NEW p \in log'[e], NEW q \in open'[e] PROVE p.id < q.id
    OBVIOUS
  <2>1. CASE p \in log[e]
    BY <1>2, <2>1 DEF Core, IdsOrdered
  <2>2. CASE p = r /\ p \notin log[e]
    BY <1>2, <1>3, <1>4, <2>2
  <2>3. QED
    BY <1>2, <2>1, <2>2
<1>6. IdsOrdered'
  <2> SUFFICES ASSUME NEW f \in Endpoints
               PROVE /\ offset[f] <= lastId[f]
                     /\ \A p \in log'[f] \cup open'[f] : p.id <= lastId[f]
                     /\ \A p \in open'[f] : /\ offset[f] < p.id
                                            /\ \A q \in log'[f] : q.id < p.id
                                            /\ \A q \in open'[f] : q.id = p.id => q = p
                     /\ client.pc = "page" /\ client.at = f =>
                          /\ client.upto <= lastId[f]
                          /\ \A p \in open'[f] : client.upto < p.id
    BY DEF IdsOrdered
  <2>1. CASE f # e
    BY <1>2, <2>1 DEF Core, IdsOrdered
  <2>2. CASE f = e
    BY <1>2, <1>5, <2>2 DEF Core, IdsOrdered
  <2>3. QED
    BY <2>1, <2>2
<1>7. PageCovered'
  <2> SUFFICES ASSUME client.pc = "page", NEW q \in log'[client.at],
                      client.last < q.id, q.id <= client.upto
               PROVE  q \in client.left \/ <<client.at, q.id>> \in offered
    BY DEF PageCovered
  <2>1. client.at \in Endpoints /\ client.upto \in Nat
    BY PollFacts DEF Polling
  <2>2. q \in log[client.at]
    BY <1>2, <1>3, <1>4, <2>1
  <2>3. QED
    BY <2>2 DEF Core, PageCovered
<1>8. NothingSkipped'
  <2> SUFFICES ASSUME NEW f \in Endpoints, NEW q \in log'[f], q.id <= offset[f]
               PROVE  <<f, q.id>> \in offered
    BY DEF NothingSkipped
  <2>1. q \in log[f]
    BY <1>2, <1>3, <1>4
  <2>2. QED
    BY <2>1 DEF Core, NothingSkipped
<1>9. QED
  BY <1>6, <1>7, <1>8 DEF Core

\* A new page: what it covers, and that it ends below the open ids.
LEMMA CorePage ==
  ASSUME TypeOK, Core, client.pc = "read",
         NEW P \in SUBSET log[client.at], NEW n \in 1..MaxId, IsLastOffset(P, n),
         \A r \in log[client.at] : client.last < r.id /\ r.id <= n => r \in P,
         client' = [pc |-> "page", at |-> client.at, n |-> client.n,
                    last |-> client.last, seen |-> client.seen, left |-> P, upto |-> n],
         UNCHANGED <<servers, offset, offered>>
  PROVE  Core'
<1>1. client.at \in Endpoints
  BY PollFacts DEF Polling
<1>2. /\ client'.pc = "page" /\ client'.at = client.at /\ client'.left = P
      /\ client'.upto = n /\ client'.last = client.last
      /\ log' = log /\ open' = open /\ lastId' = lastId
  BY DEF servers
<1>3. PICK r \in log[client.at] : r.id = n
  BY DEF IsLastOffset
<1>4. n <= lastId[client.at] /\ \A q \in open[client.at] : n < q.id
  BY <1>1, <1>3 DEF Core, IdsOrdered
<1>5. IdsOrdered'
  BY <1>2, <1>4 DEF Core, IdsOrdered
<1>6. PageCovered'
  BY <1>2 DEF PageCovered
<1>7. NothingSkipped'
  BY <1>2 DEF Core, NothingSkipped
<1>8. QED
  BY <1>5, <1>6, <1>7 DEF Core

\* readItems() on the server: a page has every row up to its last offset.
LEMMA CoreReadPage ==
  ASSUME TypeOK, Core, ReadPage
  PROVE  Core'
<1>1. client.pc = "read" /\ UNCHANGED <<servers, offset, offered>>
  BY DEF ReadPage
<1>2. client.at \in Endpoints /\ client.last \in Nat /\ client.at \in Nat
        /\ client.seen \in Offsets
  BY <1>1, PollFacts DEF Polling
<1>3. CASE Visit(client.at, client.seen)
  <2>1. client'.pc # "page"
    BY <1>2, <1>3, VisitFacts
  <2>2. QED
    BY <1>1, <2>1, CoreQuiet
<1>4. ASSUME NEW P \in SUBSET RowsAfter(client.at, client.last), NEW n \in 1..MaxId,
             FirstPage(P, RowsAfter(client.at, client.last)), IsLastOffset(P, n),
             client' = [pc |-> "page", at |-> client.at, n |-> client.n,
                        last |-> client.last, seen |-> client.seen,
                        left |-> P, upto |-> n]
      PROVE  Core'
  <2>1. P \in SUBSET log[client.at]
    BY DEF RowsAfter
  <2>2. ASSUME NEW r \in log[client.at], client.last < r.id, r.id <= n
        PROVE  r \in P
    <3>1. r \in RowsAfter(client.at, client.last)
      BY <1>2, <2>2, IdFacts DEF RowsAfter
    <3>2. PICK q \in P : q.id = n
      BY <1>4 DEF IsLastOffset
    <3>3. r \notin P => q.id < r.id
      BY <1>4, <3>1, <3>2 DEF FirstPage
    <3>4. q.id \in Nat /\ r.id \in Nat
      BY <1>2, <2>1, <3>2, IdFacts
    <3>5. QED
      BY <2>2, <3>2, <3>3, <3>4
  <2>3. QED
    BY <1>1, <1>4, <2>1, <2>2, CorePage
<1>5. QED
  BY <1>3, <1>4 DEF ReadPage

\* A stale page has no row beyond the offset, and its last offset is one of its ids.
LEMMA CoreStaleReply ==
  ASSUME TypeOK, Core, StaleReply
  PROVE  Core'
<1>1. client.pc = "read" /\ UNCHANGED <<servers, offset, offered>>
  BY DEF StaleReply
<1>2. client.at \in Endpoints /\ client.last \in Nat
  BY <1>1, PollFacts DEF Polling
<1>3. PICK P \in SUBSET (log[client.at] \ RowsAfter(client.at, client.last)),
           n \in 1..MaxId :
        /\ IsLastOffset(P, n)
        /\ client' = [pc |-> "page", at |-> client.at, n |-> client.n,
                      last |-> client.last, seen |-> client.seen,
                      left |-> P, upto |-> n]
  BY DEF StaleReply
<1>4. PICK q \in P : q.id = n
  BY <1>3 DEF IsLastOffset
<1>5. q \in log[client.at] /\ ~(q.id > client.last)
  BY <1>4 DEF RowsAfter
<1>6. \A r \in log[client.at] : client.last < r.id /\ r.id <= n => r \in P
  BY <1>2, <1>4, <1>5, IdFacts
<1>7. P \in SUBSET log[client.at]
  OBVIOUS
<1>8. QED
  BY <1>1, <1>3, <1>6, <1>7, CorePage

\* accept() is called for an item, and ends well or not: the row has been offered.
LEMMA CoreItem ==
  ASSUME TypeOK, Core, client.pc = "page", NEW r \in client.left,
         offered' = offered \cup {<<client.at, r.id>>},
         client' = [client EXCEPT !.left = @ \ {r}],
         UNCHANGED <<servers, offset>>
  PROVE  Core'
<1>1. client \in [pc : {"page"}, at : Endpoints, n : Nat, last : Nat, seen : Offsets,
                  left : SUBSET Rows, upto : Nat]
  BY DEF TypeOK, ClientStates
<1>2. /\ client'.pc = "page" /\ client'.at = client.at /\ client'.last = client.last
      /\ client'.left = client.left \ {r} /\ client'.upto = client.upto
      /\ log' = log /\ open' = open /\ lastId' = lastId
  BY <1>1 DEF servers
<1>3. IdsOrdered'
  BY <1>2 DEF Core, IdsOrdered
<1>4. PageCovered'
  BY <1>2 DEF Core, PageCovered
<1>5. NothingSkipped'
  BY <1>2 DEF Core, NothingSkipped
<1>6. QED
  BY <1>3, <1>4, <1>5 DEF Core

\* The offset moves over a page that was offered as a whole.
LEMMA CoreSave ==
  ASSUME TypeOK, OffsetInStep, Core, SaveOffset
  PROVE  Core'
<1>1. /\ client.pc = "page" /\ client.left = {} /\ Polling
      /\ \A e \in Endpoints \ {client.at} : offset'[e] = offset[e]
      /\ offset'[client.at] = IF client.upto > client.last THEN client.upto
                              ELSE client.last
      /\ client.last = offset[client.at]
  BY SaveFacts DEF OffsetInStep, Polling
<1>2. /\ client.at \in Endpoints /\ client.at \in Nat /\ client.seen \in Offsets
      /\ client.upto \in Nat /\ client.last \in Nat
  BY <1>1, PollFacts
<1>3. log' = log /\ open' = open /\ lastId' = lastId /\ offered' = offered
  BY DEF SaveOffset, servers
<1>4. client'.pc # "page"
  BY <1>2, SaveFacts, VisitFacts
<1>5. IdsOrdered'
  <2> SUFFICES ASSUME NEW e \in Endpoints
               PROVE  offset'[e] <= lastId[e] /\ \A r \in open[e] : offset'[e] < r.id
    BY <1>3, <1>4 DEF Core, IdsOrdered
  <2>1. CASE e # client.at
    BY <1>1, <2>1 DEF Core, IdsOrdered
  <2>2. CASE e = client.at
    BY <1>1, <1>2, <2>2 DEF Core, IdsOrdered
  <2>3. QED
    BY <2>1, <2>2
<1>6. NothingSkipped'
  <2> SUFFICES ASSUME NEW e \in Endpoints, NEW r \in log[e], r.id <= offset'[e]
               PROVE  <<e, r.id>> \in offered
    BY <1>3 DEF NothingSkipped
  <2>1. CASE r.id <= offset[e]
    BY <2>1 DEF Core, NothingSkipped
  <2>2. CASE ~(r.id <= offset[e])
    <3>1. e = client.at
      BY <1>1, <2>2
    <3>2. client.last < r.id /\ r.id <= client.upto
      BY <1>1, <1>2, <2>2, <3>1, IdFacts
    <3>3. QED
      BY <1>1, <3>1, <3>2 DEF Core, PageCovered
  <2>3. QED
    BY <2>1, <2>2
<1>7. PageCovered'
  BY <1>4 DEF PageCovered
<1>8. QED
  BY <1>5, <1>6, <1>7 DEF Core

\* With serial commits every step preserves the core.
LEMMA CoreStep ==
  ASSUME SerialCommits, TypeOK, OffsetInStep, Core, [Next]_vars
  PROVE  Core'
<1>1. ASSUME UNCHANGED <<servers, offset, client, offered>> PROVE Core'
  BY <1>1, CoreQuiet
<1>2. ASSUME NEW e \in Endpoints, NEW h \in Hashes, Append(e, h) PROVE Core'
  BY <1>2, CoreAppend
<1>3. ASSUME NEW e \in Endpoints, NEW r \in open[e], Commit(e, r) PROVE Core'
  BY <1>3, CoreCommit DEF Commit
<1>4. ASSUME NEW e \in Endpoints, NEW r \in open[e], AppendFails(e, r) PROVE Core'
  BY <1>4, CoreCommit DEF AppendFails
<1>5. CASE InitClients
  BY <1>5, CoreQuiet DEF InitClients
<1>6. CASE CronTick
  <2>1. offset \in Offsets
    BY DEF TypeOK
  <2>2. client'.pc # "page"
    BY <1>6, <2>1, VisitFacts DEF CronTick
  <2>3. QED
    BY <1>6, <2>2, CoreQuiet DEF CronTick
<1>7. ASSUME NEW r \in client.left, AcceptItem(r) PROVE Core'
  BY <1>7, CoreItem DEF AcceptItem
<1>8. ASSUME NEW r \in client.left, AcceptFails(r) PROVE Core'
  BY <1>8, CoreItem DEF AcceptFails
<1>9. CASE ReplyLost
  <2>1. client.at \in Nat /\ client.seen \in Offsets
    BY <1>9, PollFacts DEF ReplyLost, Polling
  <2>2. client'.pc # "page"
    BY <1>9, <2>1, VisitFacts DEF ReplyLost
  <2>3. QED
    BY <1>9, <2>2, CoreQuiet DEF ReplyLost
<1>10. CASE SaveFails \/ NoItems
  BY <1>10, CoreQuiet DEF SaveFails, NoItems
<1>11. CASE Crash
  BY <1>11, CoreQuiet DEF Crash
<1>12. ASSUME NEW e \in Endpoints, StatusChanged(e) PROVE Core'
  BY <1>1, <1>12 DEF StatusChanged
<1>13. CASE UNCHANGED vars
  BY <1>1, <1>13 DEF vars
<1>14. QED
  BY <1>2, <1>3, <1>4, <1>5, <1>6, <1>7, <1>8, <1>9, <1>10, <1>11, <1>12, <1>13,
     CoreReadPage, CoreStaleReply, CoreSave DEF Next, ClientStep

\* The inductive invariant of queue and poll, when the validators' inserts become
\* visible in the order of their ids.
THEOREM QueueInvariant == ASSUME SerialCommits PROVE Spec => []QInv
<1>1. Init => Core
  BY DEF Init, Core, IdsOrdered, PageCovered, NothingSkipped
<1>2. TypeOK /\ OffsetInStep /\ Core /\ [Next]_vars => Core'
  BY CoreStep
<1>3. Spec => []Core
  BY <1>1, <1>2, TypeCorrect, PollInStep, PTL DEF Spec
<1>4. TypeOK /\ OffsetInStep /\ Core => QInv
  BY DEF Core, QInv
<1>5. QED
  BY <1>3, <1>4, TypeCorrect, PollInStep, PTL

\* Then the saved offset never runs ahead of what accept() has seen.
THEOREM NoRowSkipped == ASSUME SerialCommits PROVE Spec => []NothingSkipped
<1>1. QInv => NothingSkipped
  BY DEF QInv
<1>2. QED
  BY <1>1, QueueInvariant, PTL
------------------------------------------------------------------------------
(* What a restart repeats. *)

\* The ids accept() has seen although the saved offset is not there yet.
Beyond(e) == {i \in 1..MaxId : i > offset[e] /\ <<e, i>> \in offered}

\* The ids of the rows between two offsets.
IdsIn(e, a, b) == {i \in 1..MaxId : a < i /\ i <= b /\ \E r \in log[e] : r.id = i}

OfferedAreRows ==
  \A e \in Endpoints : \A i \in Nat :
    <<e, i>> \in offered => \E r \in log[e] : r.id = i

IdsUnique == \A e \in Endpoints : \A q, r \in log[e] : q.id = r.id => q = r

\* A page is handed over from its beginning, so what was seen of it has no gap.
BeyondIsPrefix ==
  \A e \in Endpoints : \A i \in Beyond(e) : \A r \in log[e] :
    offset[e] < r.id /\ r.id < i => <<e, r.id>> \in offered

\* The page under way is one page of the queue and contains what a page that a crash
\* cut short has handed over before.
PageIsWhole ==
  client.pc = "page" =>
    /\ client.left \subseteq log[client.at]
    /\ \A r \in client.left : r.id <= client.upto
    /\ client.upto > client.last =>
         /\ Cardinality(IdsIn(client.at, client.last, client.upto)) <= PageSize
         /\ \A i \in Beyond(client.at) : i <= client.upto

Bounded(e) == Cardinality(Beyond(e)) <= PageSize

Again ==
  /\ OfferedAreRows /\ IdsUnique /\ BeyondIsPrefix /\ PageIsWhole
  /\ \A e \in Endpoints : Bounded(e)

\* Sets of ids are finite, and their sizes follow inclusion.
LEMMA IdSets ==
  ASSUME NEW S \in SUBSET (1..MaxId), NEW T \in SUBSET S
  PROVE  /\ IsFiniteSet(S) /\ Cardinality(S) \in Nat /\ Cardinality(T) \in Nat
         /\ Cardinality(T) <= Cardinality(S)
<1>1. IsFiniteSet(1..MaxId)
  BY FS_Interval, QueueBoundsAssumption
<1>2. IsFiniteSet(S)
  BY <1>1, FS_Subset
<1>3. IsFiniteSet(T) /\ Cardinality(T) <= Cardinality(S)
  BY <1>2, FS_Subset
<1> QED
  BY <1>2, <1>3, FS_CardinalityType

\* Rows with different ids are as many as their ids.
LEMMA AsManyIds ==
  ASSUME NEW P, NEW I \in SUBSET (1..MaxId),
         \A r \in P : r.id \in I, \A i \in I : \E r \in P : r.id = i,
         \A q, r \in P : q.id = r.id => q = r
  PROVE  Cardinality(P) = Cardinality(I)
<1> DEFINE f == [r \in P |-> r.id]
<1>1. f \in Bijection(P, I) /\ f \in Injection(P, I)
  BY DEF Bijection, Injection, Surjection, IsInjective
<1>2. IsFiniteSet(I)
  BY IdSets
<1>3. IsFiniteSet(P)
  BY <1>1, <1>2, FS_Injection
<1> QED
  BY <1>1, <1>3, FS_Bijection DEF ExistsBijection

\* Steps that hand over nothing, begin no page and take no offset back.
LEMMA AgainQuiet ==
  ASSUME TypeOK, Again, log' = log, offered' = offered, offset' \in Offsets,
         \A e \in Endpoints : offset'[e] >= offset[e],
         client'.pc = "page" => client' = client /\ offset' = offset
  PROVE  Again'
<1>1. \A e \in Endpoints : offset[e] \in Nat /\ offset'[e] \in Nat
  BY DEF TypeOK, Offsets
<1>2. OfferedAreRows' /\ IdsUnique'
  BY DEF Again, OfferedAreRows, IdsUnique
<1>3. \A e \in Endpoints : Beyond(e)' \subseteq Beyond(e)
  BY <1>1 DEF Beyond
<1>4. BeyondIsPrefix'
  <2> SUFFICES ASSUME NEW e \in Endpoints, NEW i \in Beyond(e)', NEW r \in log[e],
                      offset'[e] < r.id, r.id < i
               PROVE  <<e, r.id>> \in offered
    BY DEF BeyondIsPrefix
  <2>1. r.id \in Nat
    BY IdFacts
  <2>2. offset[e] < r.id /\ i \in Beyond(e)
    BY <1>1, <1>3, <2>1
  <2> QED
    BY <2>2 DEF Again, BeyondIsPrefix
<1>5. PageIsWhole'
  BY DEF Again, PageIsWhole, Beyond, IdsIn
<1>6. ASSUME NEW e \in Endpoints PROVE Bounded(e)'
  <2>1. Beyond(e) \in SUBSET (1..MaxId) /\ Beyond(e)' \in SUBSET Beyond(e)
    BY <1>3 DEF Beyond
  <2>2. /\ Cardinality(Beyond(e)') <= Cardinality(Beyond(e))
        /\ Cardinality(Beyond(e)') \in Nat /\ Cardinality(Beyond(e)) \in Nat
    BY <2>1, IdSets
  <2> QED
    BY <2>2, PageAssumption DEF Again, Bounded
<1> QED
  BY <1>2, <1>4, <1>5, <1>6 DEF Again

\* A row that becomes visible lies above everything that was handed over and above
\* the page.
LEMMA AgainCommit ==
  ASSUME TypeOK, Core, Again, NEW e \in Endpoints, NEW r \in open[e],
         log' = [log EXCEPT ![e] = @ \cup {r}], UNCHANGED <<offset, client, offered>>
  PROVE  Again'
<1>1. /\ log'[e] = log[e] \cup {r}
      /\ \A f \in Endpoints \ {e} : log'[f] = log[f]
      /\ \A f \in Endpoints : log[f] \subseteq log'[f]
  BY DEF TypeOK
<1>2. r.id \in Nat /\ \A q \in log[e] : q.id < r.id /\ q.id \in Nat
  BY IdFacts DEF Core, IdsOrdered
<1>3. OfferedAreRows'
  BY <1>1 DEF Again, OfferedAreRows
<1>4. IdsUnique'
  <2> SUFFICES ASSUME NEW f \in Endpoints, NEW p \in log'[f], NEW q \in log'[f],
                      p.id = q.id
               PROVE  p = q
    BY DEF IdsUnique
  <2> QED
    BY <1>1, <1>2 DEF Again, IdsUnique
<1>5. \A f \in Endpoints : Beyond(f)' = Beyond(f)
  BY DEF Beyond
<1>6. \A i \in Beyond(e) : i < r.id
  <2> SUFFICES ASSUME NEW i \in Beyond(e) PROVE i < r.id
    OBVIOUS
  <2>1. i \in Nat /\ <<e, i>> \in offered
    BY QueueBoundsAssumption DEF Beyond
  <2>2. \E q \in log[e] : q.id = i
    BY <2>1 DEF Again, OfferedAreRows
  <2> QED
    BY <1>2, <2>2
<1>7. BeyondIsPrefix'
  <2> SUFFICES ASSUME NEW f \in Endpoints, NEW i \in Beyond(f), NEW q \in log'[f],
                      offset[f] < q.id, q.id < i
               PROVE  <<f, q.id>> \in offered
    BY <1>5 DEF BeyondIsPrefix
  <2>1. i \in Nat
    BY QueueBoundsAssumption DEF Beyond
  <2>2. q \in log[f]
    BY <1>1, <1>2, <1>6, <2>1
  <2> QED
    BY <2>2 DEF Again, BeyondIsPrefix
<1>8. PageIsWhole'
  <2> SUFFICES ASSUME client.pc = "page" PROVE PageIsWhole'
    BY DEF PageIsWhole
  <2>1. client.at \in Endpoints /\ client.upto \in Nat
    BY PollFacts DEF Polling
  <2>2. client.at = e => client.upto < r.id
    BY DEF Core, IdsOrdered
  <2>3. IdsIn(client.at, client.last, client.upto)'
          = IdsIn(client.at, client.last, client.upto)
    BY <1>1, <1>2, <2>1, <2>2, QueueBoundsAssumption DEF IdsIn
  <2> QED
    BY <1>1, <1>5, <2>1, <2>3 DEF Again, PageIsWhole
<1>9. ASSUME NEW f \in Endpoints PROVE Bounded(f)'
  BY <1>5 DEF Again, Bounded
<1> QED
  BY <1>3, <1>4, <1>7, <1>8, <1>9 DEF Again

\* A new page of the poll leaves what was handed over alone; what is left to show is
\* that the page is whole.
LEMMA AgainPage ==
  ASSUME TypeOK, Again, client.pc = "read", NEW P \in SUBSET log[client.at],
         NEW n \in 1..MaxId, IsLastOffset(P, n),
         n > client.last =>
           /\ Cardinality(IdsIn(client.at, client.last, n)) <= PageSize
           /\ \A i \in Beyond(client.at) : i <= n,
         client' = [pc |-> "page", at |-> client.at, n |-> client.n,
                    last |-> client.last, seen |-> client.seen, left |-> P, upto |-> n],
         log' = log, UNCHANGED <<offset, offered>>
  PROVE  Again'
<1>1. /\ client'.pc = "page" /\ client'.at = client.at /\ client'.left = P
      /\ client'.upto = n /\ client'.last = client.last
  OBVIOUS
<1>2. PageIsWhole'
  BY <1>1 DEF PageIsWhole, IsLastOffset, Beyond, IdsIn
<1>3. OfferedAreRows' /\ IdsUnique' /\ BeyondIsPrefix'
  BY DEF Again, OfferedAreRows, IdsUnique, BeyondIsPrefix, Beyond
<1>4. ASSUME NEW e \in Endpoints PROVE Bounded(e)'
  BY DEF Again, Bounded, Beyond
<1> QED
  BY <1>2, <1>3, <1>4 DEF Again

\* The first rows beyond the offset contain those a page that was cut short has handed
\* over: these have no gap, and are no more than a page.
LEMMA AgainReadPage ==
  ASSUME TypeOK, OffsetInStep, Core, Again, ReadPage
  PROVE  Again'
<1>1. client.pc = "read" /\ UNCHANGED <<log, offset, offered>>
  BY DEF ReadPage, servers
<1>2. /\ client.at \in Endpoints /\ client.last \in Nat /\ client.at \in Nat
      /\ client.seen \in Offsets /\ client.last = offset[client.at]
  BY <1>1, PollFacts DEF Polling, OffsetInStep
<1>3. CASE Visit(client.at, client.seen)
  <2>1. client'.pc # "page"
    BY <1>2, <1>3, VisitFacts
  <2> QED
    BY <1>1, <2>1, AgainQuiet DEF TypeOK, Offsets
<1>4. ASSUME NEW P \in SUBSET RowsAfter(client.at, client.last), NEW n \in 1..MaxId,
             FirstPage(P, RowsAfter(client.at, client.last)), IsLastOffset(P, n),
             client' = [pc |-> "page", at |-> client.at, n |-> client.n,
                        last |-> client.last, seen |-> client.seen,
                        left |-> P, upto |-> n]
      PROVE  Again'
  <2> DEFINE e == client.at
             I == IdsIn(e, client.last, n)
  <2>1. /\ P \in SUBSET log[e] /\ \A r \in P : client.last < r.id /\ r.id <= n
        /\ \A r \in log[e] : r.id \in Nat
        /\ \A r \in log[e] : client.last < r.id => r \in RowsAfter(e, client.last)
    BY <1>2, <1>4, IdFacts DEF RowsAfter, IsLastOffset
  <2>2. PICK z \in P : z.id = n
    BY <1>4 DEF IsLastOffset
  <2>3. n \in Nat
    BY QueueBoundsAssumption
  <2>4. ASSUME NEW r \in log[e], client.last < r.id, r \notin P PROVE r.id > n
    BY <1>4, <2>1, <2>2, <2>4 DEF FirstPage
  <2>5. \A r \in P : r.id \in I
    BY <1>2, <2>1, <2>3, QueueBoundsAssumption DEF IdsIn
  <2>6. \A i \in I : \E r \in P : r.id = i
    BY <2>1, <2>3, <2>4 DEF IdsIn
  <2>7. I \in SUBSET (1..MaxId)
    BY DEF IdsIn
  <2>8. Cardinality(P) = Cardinality(I)
    <3>1. \A q, r \in P : q.id = r.id => q = r
      BY <1>2, <2>1 DEF Again, IdsUnique
    <3> HIDE DEF I
    <3> QED
      BY <2>5, <2>6, <2>7, <3>1, AsManyIds
  <2>9. Cardinality(I) <= PageSize
    BY <1>4, <2>8, PageAssumption DEF FirstPage
  <2>10. ASSUME NEW i \in Beyond(e), i > n PROVE FALSE
    <3>1. i \in 1..MaxId /\ i \in Nat /\ <<e, i>> \in offered
      BY QueueBoundsAssumption DEF Beyond
    <3>2. PICK r \in log[e] : r.id = i
      BY <1>2, <3>1 DEF Again, OfferedAreRows
    <3>3. r \in RowsAfter(e, client.last) /\ r \notin P
      BY <1>2, <2>1, <2>3, <2>10, <3>1, <3>2 DEF Beyond
    <3>4. Cardinality(I) = PageSize
      BY <1>4, <2>8, <3>3 DEF FirstPage
    <3>5. \A j \in I : j \in Beyond(e)
      <4> SUFFICES ASSUME NEW j \in I PROVE j \in Beyond(e)
        OBVIOUS
      <4>1. /\ j \in 1..MaxId /\ client.last < j /\ j <= n
            /\ \E q \in log[e] : q.id = j
        BY DEF IdsIn
      <4>2. j < i
        BY <2>3, <2>10, <3>1, <4>1
      <4>3. <<e, j>> \in offered
        BY <1>2, <4>1, <4>2 DEF Again, BeyondIsPrefix
      <4> QED
        BY <1>2, <4>1, <4>3 DEF Beyond
    <3>6. i \notin I
      BY <2>3, <2>10, <3>1 DEF IdsIn
    <3> HIDE DEF I
    <3>7. IsFiniteSet(I) /\ Cardinality(I) \in Nat
      BY <2>7, IdSets
    <3>8. Cardinality(I \cup {i}) = PageSize + 1
      BY <3>4, <3>6, <3>7, FS_AddElement
    <3>9. I \cup {i} \in SUBSET Beyond(e) /\ Beyond(e) \in SUBSET (1..MaxId)
      BY <3>5 DEF Beyond
    <3>10. /\ Cardinality(I \cup {i}) <= Cardinality(Beyond(e))
           /\ Cardinality(Beyond(e)) \in Nat
      BY <3>9, IdSets
    <3> QED
      BY <1>2, <3>8, <3>10, PageAssumption DEF Again, Bounded
  <2>11. \A i \in Beyond(e) : i <= n
    <3> SUFFICES ASSUME NEW i \in Beyond(e) PROVE i <= n
      OBVIOUS
    <3>1. i \in Nat
      BY QueueBoundsAssumption DEF Beyond
    <3> QED
      BY <2>3, <2>10, <3>1
  <2> QED
    BY <1>1, <1>4, <2>1, <2>9, <2>11, AgainPage
<1> QED
  BY <1>3, <1>4 DEF ReadPage

\* A stale page does not reach beyond the offset.
LEMMA AgainStaleReply ==
  ASSUME TypeOK, Again, StaleReply
  PROVE  Again'
<1>1. client.pc = "read" /\ UNCHANGED <<log, offset, offered>>
  BY DEF StaleReply, servers
<1>2. client.at \in Endpoints /\ client.last \in Nat
  BY <1>1, PollFacts DEF Polling
<1>3. PICK P \in SUBSET (log[client.at] \ RowsAfter(client.at, client.last)),
           n \in 1..MaxId :
        /\ IsLastOffset(P, n)
        /\ client' = [pc |-> "page", at |-> client.at, n |-> client.n,
                      last |-> client.last, seen |-> client.seen,
                      left |-> P, upto |-> n]
  BY DEF StaleReply
<1>4. ~(n > client.last)
  BY <1>3 DEF IsLastOffset, RowsAfter
<1>5. P \in SUBSET log[client.at]
  OBVIOUS
<1> QED
  BY <1>1, <1>3, <1>4, <1>5, AgainPage

\* An item is handed over: the first of the page that was not, so no gap arises.
LEMMA AgainItem ==
  ASSUME TypeOK, OffsetInStep, Core, Again, client.pc = "page", NEW r \in client.left,
         \A q \in client.left : r.id <= q.id,
         offered' = offered \cup {<<client.at, r.id>>},
         client' = [client EXCEPT !.left = @ \ {r}],
         log' = log, offset' = offset
  PROVE  Again'
<1> DEFINE e == client.at
           I == IdsIn(e, client.last, client.upto)
<1>1. client \in [pc : {"page"}, at : Endpoints, n : Nat, last : Nat, seen : Offsets,
                  left : SUBSET Rows, upto : Nat]
  BY DEF TypeOK, ClientStates
<1>2. /\ client'.pc = "page" /\ client'.at = e /\ client'.last = client.last
      /\ client'.left = client.left \ {r} /\ client'.upto = client.upto
      /\ e \in Endpoints /\ client.last \in Nat /\ client.upto \in Nat
      /\ client.last = offset[e]
  BY <1>1 DEF OffsetInStep, Polling
<1>3. r \in log[e] /\ r.id \in Nat /\ r.id <= client.upto
  BY <1>2, IdFacts DEF Again, PageIsWhole
<1>4. OfferedAreRows'
  BY <1>2, <1>3 DEF Again, OfferedAreRows
<1>5. IdsUnique'
  BY DEF Again, IdsUnique
<1>6. r.id > client.last => r.id \in I
  <2>1. r.id <= MaxId
    BY <1>2, <1>3, IdFacts, QueueBoundsAssumption DEF Core, IdsOrdered, TypeOK
  <2> QED
    BY <1>2, <1>3, <2>1, QueueBoundsAssumption DEF IdsIn
<1>7. /\ \A f \in Endpoints \ {e} : Beyond(f)' = Beyond(f)
      /\ Beyond(e)' \subseteq Beyond(e) \cup {r.id}
      /\ Beyond(e)' # Beyond(e) => r.id > client.last
  BY <1>2 DEF Beyond
<1>8. BeyondIsPrefix'
  <2> SUFFICES ASSUME NEW f \in Endpoints, NEW i \in Beyond(f)', NEW q \in log[f],
                      offset[f] < q.id, q.id < i
               PROVE  <<f, q.id>> \in offered'
    BY DEF BeyondIsPrefix
  <2>1. CASE i \in Beyond(f)
    BY <2>1 DEF Again, BeyondIsPrefix
  <2>2. CASE i \notin Beyond(f)
    <3>1. f = e /\ i = r.id
      BY <1>7, <2>2
    <3>2. q.id \in Nat
      BY IdFacts
    <3>3. q \in client.left \/ <<e, q.id>> \in offered
      BY <1>2, <1>3, <3>1, <3>2 DEF Core, PageCovered
    <3> QED
      BY <1>3, <3>1, <3>2, <3>3
  <2> QED
    BY <2>1, <2>2
<1>9. client.upto > client.last => Beyond(e)' \subseteq I /\ Cardinality(I) <= PageSize
  <2> SUFFICES ASSUME client.upto > client.last
               PROVE  Beyond(e)' \subseteq I /\ Cardinality(I) <= PageSize
    OBVIOUS
  <2>1. ASSUME NEW i \in Beyond(e) PROVE i \in I
    <3>1. i \in 1..MaxId /\ i \in Nat /\ i > client.last /\ <<e, i>> \in offered
      BY <1>2, QueueBoundsAssumption DEF Beyond
    <3>2. i <= client.upto
      BY DEF Again, PageIsWhole
    <3>3. \E q \in log[e] : q.id = i
      BY <1>2, <3>1 DEF Again, OfferedAreRows
    <3> QED
      BY <3>1, <3>2, <3>3 DEF IdsIn
  <2>2. Cardinality(I) <= PageSize
    BY DEF Again, PageIsWhole
  <2>3. Beyond(e)' \subseteq I
    <3> HIDE DEF I
    <3> QED
      BY <1>6, <1>7, <2>1
  <2> QED
    BY <2>2, <2>3
<1>10. PageIsWhole'
  <2>1. IdsIn(client.at, client.last, client.upto)' = I
    BY <1>2 DEF IdsIn
  <2>2. client.upto > client.last => \A i \in Beyond(e)' : i <= client.upto
    BY <1>9 DEF IdsIn
  <2>3. client.left \subseteq log[e] /\ \A q \in client.left : q.id <= client.upto
    BY DEF Again, PageIsWhole
  <2>4. Cardinality(I) <= PageSize \/ ~(client.upto > client.last)
    BY <1>9
  <2> HIDE DEF I
  <2> QED
    BY <1>2, <2>1, <2>2, <2>3, <2>4 DEF PageIsWhole
<1>11. ASSUME NEW f \in Endpoints PROVE Bounded(f)'
  <2>1. CASE Beyond(f)' = Beyond(f)
    BY <2>1 DEF Again, Bounded
  <2>2. CASE Beyond(f)' # Beyond(f)
    <3>1. f = e /\ client.upto > client.last
      BY <1>2, <1>3, <1>7, <2>2
    <3>2. Beyond(f)' \in SUBSET I /\ Cardinality(I) <= PageSize
      BY <1>9, <3>1
    <3>3. I \in SUBSET (1..MaxId)
      BY DEF IdsIn
    <3> HIDE DEF I
    <3>4. /\ Cardinality(Beyond(f)') <= Cardinality(I)
          /\ Cardinality(Beyond(f)') \in Nat /\ Cardinality(I) \in Nat
      BY <3>2, <3>3, IdSets
    <3> QED
      BY <3>2, <3>4, PageAssumption DEF Bounded
  <2> QED
    BY <2>1, <2>2
<1> QED
  BY <1>4, <1>5, <1>8, <1>10, <1>11 DEF Again

\* With serial commits every step repeats little.
LEMMA AgainStep ==
  ASSUME SerialCommits, TypeOK, OffsetInStep, Core, Again, [Next]_vars
  PROVE  Again'
<1>0. offset' \in Offsets /\ offset \in Offsets /\ Endpoints \subseteq Nat
      /\ \A e \in Endpoints : offset[e] \in Nat
  BY TypeStep, PollFacts DEF TypeOK, Offsets
<1>1. ASSUME log' = log, UNCHANGED <<offset, offered>>,
             client'.pc = "page" => client' = client
      PROVE  Again'
  BY <1>0, <1>1, AgainQuiet
<1>2. ASSUME NEW e \in Nat, NEW seen \in Offsets, Visit(e, seen)
      PROVE  client'.pc # "page"
  BY <1>2, VisitFacts
<1>3. ASSUME NEW e \in Endpoints, NEW r \in open[e], Commit(e, r) PROVE Again'
  <2>1. CASE log' = log
    BY <1>1, <1>3, <2>1 DEF Commit
  <2>2. CASE log' = [log EXCEPT ![e] = @ \cup {r}]
    BY <1>3, <2>2, AgainCommit DEF Commit
  <2> QED
    BY <1>3, <2>1, <2>2 DEF Commit
<1>4. CASE SaveOffset
  <2>1. \A e \in Endpoints : offset'[e] >= offset[e]
    BY OffsetForward
  <2>2. client'.pc # "page"
    <3>1. client.at \in Nat /\ client.seen \in Offsets
      BY <1>4, SaveFacts, PollFacts DEF Polling
    <3> QED
      BY <1>2, <1>4, <3>1, SaveFacts
  <2>3. UNCHANGED <<log, offered>>
    BY <1>4 DEF SaveOffset, servers
  <2> QED
    BY <1>0, <2>1, <2>2, <2>3, AgainQuiet
<1>5. ASSUME NEW r \in client.left, AcceptItem(r) \/ AcceptFails(r) PROVE Again'
  BY <1>5, AgainItem DEF AcceptItem, AcceptFails, servers
<1>6. CASE CronTick
  BY <1>0, <1>1, <1>2, <1>6 DEF CronTick, servers
<1>7. CASE ReplyLost
  <2>1. client.at \in Nat /\ client.seen \in Offsets
    BY <1>7, PollFacts DEF ReplyLost, Polling
  <2> QED
    BY <1>1, <1>2, <1>7, <2>1 DEF ReplyLost, servers
<1>8. CASE InitClients \/ NoItems \/ SaveFails \/ Crash
  BY <1>1, <1>8 DEF InitClients, NoItems, SaveFails, Crash, servers
<1>9. ASSUME NEW e \in Endpoints,
             \/ \E h \in Hashes : Append(e, h)
             \/ \E r \in open[e] : AppendFails(e, r)
             \/ StatusChanged(e)
      PROVE  Again'
  BY <1>1, <1>9 DEF Append, AppendFails, StatusChanged, servers
<1>10. CASE UNCHANGED vars
  BY <1>1, <1>10 DEF vars, servers
<1> QED
  BY <1>3, <1>4, <1>5, <1>6, <1>7, <1>8, <1>9, <1>10, AgainReadPage, AgainStaleReply
     DEF Next, ClientStep

\* For any page size and any number of crashes: what was handed over beyond the saved
\* offset, which a restart repeats, is never more than a page.
THEOREM LittleIsRepeated == ASSUME SerialCommits PROVE Spec => []RedeliveryBounded
<1>1. Init => Again
  <2> SUFFICES ASSUME Init PROVE Again
    OBVIOUS
  <2>1. \A e \in Endpoints : Beyond(e) = {}
    BY DEF Init, Beyond
  <2>2. OfferedAreRows /\ IdsUnique /\ BeyondIsPrefix /\ PageIsWhole
    BY <2>1 DEF Init, OfferedAreRows, IdsUnique, BeyondIsPrefix, PageIsWhole
  <2>3. \A e \in Endpoints : Bounded(e)
    BY <2>1, FS_EmptySet, PageAssumption DEF Bounded
  <2> QED
    BY <2>2, <2>3 DEF Again
<1>2. TypeOK /\ OffsetInStep /\ Core /\ Again /\ [Next]_vars => Again'
  BY AgainStep
<1>3. QInv => TypeOK /\ OffsetInStep /\ Core
  BY DEF QInv, Core
<1>4. Again => RedeliveryBounded
  BY DEF Again, Bounded, Beyond, RedeliveryBounded
<1> QED
  BY QueueInvariant, <1>1, <1>2, <1>3, <1>4, PTL DEF Spec
==============================================================================
