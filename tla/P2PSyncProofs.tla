---------------------------- MODULE P2PSyncProofs ----------------------------
(***************************************************************************)
(* Proofs about P2PSync: type correctness, that the page a restart resumes *)
(* from is never ahead of the stored blocks for a view of one shard, that  *)
(* a shard noted as synced has its blocks stored, and that a view which    *)
(* counts as SYNCED has been worked through shard by shard.                *)
(***************************************************************************)
EXTENDS P2PSync, TLAPS, FiniteSetTheorems

\* What is proved by itself: types, and that a client at work has a shard.
Typed == TypeOK /\ ClientsAtWork

\* The shard in progress, when a client is at work.
LEMMA WorkingShard ==
  ASSUME Typed, NEW v \in Views, proc[v] # "none"
  PROVE  /\ pass.pc = "shard" /\ pass.shard \in Shards
         /\ pass.shard \in ViewShards[v]
         /\ clients[<<v, pass.shard>>] \in Page
<1>1. pass.pc = "shard" /\ clients[<<v, pass.shard>>] # 0
  BY DEF Typed, ClientsAtWork
<1>2. pass.shard \in Shards
  BY <1>1 DEF Typed, TypeOK, Idle
<1>3. <<v, pass.shard>> \in Views \X Shards
  BY <1>2
<1>4. clients[<<v, pass.shard>>] \in Nat
  BY <1>3 DEF Typed, TypeOK
<1> QED
  BY <1>1, <1>2, <1>4 DEF Typed, ClientsAtWork, Page

\* Writing a page of a client leaves a table of rows.
LEMMA WritePageTyped ==
  ASSUME TypeOK, NEW v \in Views, NEW n \in Page, WritePage(v, n)
  PROVE  rows' \in [Views -> [status : {"none", "SYNCING", "SYNCED", "deleted"},
                              page : Page, synced : Seq(Shards)]]
<1> DEFINE Row == [status : {"none", "SYNCING", "SYNCED", "deleted"},
                   page : Page, synced : Seq(Shards)]
           r == [rows[v] EXCEPT !.page = n]
<1>1. rows \in [Views -> Row]
  BY DEF TypeOK
<1>2. rows[v] \in Row
  BY <1>1
<1>3. r \in Row
  BY <1>2
<1>4. rows' = rows \/ rows' = [rows EXCEPT ![v] = r]
  BY DEF WritePage
<1> HIDE DEF Row, r
<1>5. rows' \in [Views -> Row]
  BY <1>1, <1>3, <1>4
<1> QED
  BY <1>5 DEF Row

\* A call that ends leaves counts of attempts.
LEMMA EndCallTyped ==
  ASSUME TypeOK, NEW v \in Views, EndCall(v)
  PROVE  tries' \in [Views -> 0..Retries]
<1>1. 0 \in 0..Retries
  BY RetriesAssumption
<1> QED
  BY <1>1 DEF EndCall, TypeOK

\* The initial states are typed.
LEMMA InitTyped == Init => Typed
<1> SUFFICES ASSUME Init PROVE Typed
  OBVIOUS
<1>1. <<>> \in Seq(Shards) /\ 1 \in Page
  BY DEF Page
<1>2. rows \in [Views -> [status : {"none", "SYNCING", "SYNCED", "deleted"},
                          page : Page, synced : Seq(Shards)]]
  <2>1. [status |-> "none", page |-> 1, synced |-> <<>>]
          \in [status : {"none", "SYNCING", "SYNCED", "deleted"},
               page : Page, synced : Seq(Shards)]
    BY <1>1
  <2> QED
    BY <2>1 DEF Init
<1>3. TypeOK
  <2>0. counts \in [{"requests", "crashes"} -> Nat]
    <3>1. counts = [requests |-> 0, crashes |-> 0]
      BY DEF Init
    <3> QED
      BY <3>1
  <2>1. /\ pass = Idle /\ up \in BOOLEAN /\ adding \in BOOLEAN
        /\ waiting \in Nat
    BY <1>1 DEF Init
  <2>2. served \subseteq Views /\ tries \in [Views -> 0..Retries]
    BY RetriesAssumption DEF Init
  <2>3. /\ clients \in [Views \X Shards -> Nat] /\ proc \in [Views -> ClientPcs]
        /\ batch \in [Views -> SUBSET Blocks] /\ stored \subseteq Blocks
    BY DEF Init, ClientPcs
  <2> QED
    BY <1>2, <2>0, <2>1, <2>2, <2>3 DEF TypeOK
<1>4. ClientsAtWork
  BY DEF Init, ClientsAtWork
<1> QED
  BY <1>3, <1>4 DEF Typed

\* A step of a client keeps the types.
LEMMA ClientTyped ==
  ASSUME Typed, NEW v \in Views,
         Open(v) \/ Ask(v) \/ Fetch(v) \/ (\E b \in Blocks : Store(v, b))
           \/ NextPage(v) \/ Mark(v) \/ Close(v)
  PROVE  Typed'
<1> USE DEF Typed
<1> DEFINE s == pass.shard
           n == clients[<<v, s>>]
<1>1. proc[v] # "none"
  BY DEF Open, Ask, Fetch, Store, NextPage, Mark, Close
<1>2. s \in Shards /\ s \in ViewShards[v] /\ pass.pc = "shard" /\ n \in Page
  BY <1>1, WorkingShard
<1>3. CASE Open(v)
  <2>1. rows' \in [Views -> [status : {"none", "SYNCING", "SYNCED", "deleted"},
                             page : Page, synced : Seq(Shards)]]
    BY <1>2, <1>3, WritePageTyped DEF Open, TypeOK
  <2>2. TypeOK'
    BY <1>3, <2>1 DEF Open, Go, TypeOK, ClientPcs
  <2>3. ClientsAtWork'
    BY <1>1, <1>3 DEF Open, Go, ClientsAtWork, TypeOK
  <2> QED
    BY <2>2, <2>3
<1>4. CASE Ask(v)
  <2>1. proc' \in [Views -> ClientPcs]
    <3>1. \E pc \in ClientPcs : proc' = [proc EXCEPT ![v] = pc]
      BY <1>4 DEF Ask, Go, GiveUp, AfterHashes, ClientPcs
    <3> QED
      BY <3>1 DEF TypeOK
  <2>2. PageOf(v, s, n) \subseteq Blocks
    <3>1. Listing[v] \in Seq(Blocks)
      BY ListingAssumption
    <3>2. \A i \in LinesOf(v, s) : Listing[v][i] \in Blocks
      BY <3>1 DEF LinesOf
    <3> QED
      BY <3>2 DEF PageOf
  <2>3. batch' \in [Views -> SUBSET Blocks]
    <3>1. \E hashes \in SUBSET Blocks : batch' = [batch EXCEPT ![v] = hashes]
      BY <1>4, <2>2 DEF Ask, GiveUp
    <3> QED
      BY <3>1 DEF TypeOK
  <2>4. TypeOK'
    <3>1. tries' \in [Views -> 0..Retries]
      BY <1>4, EndCallTyped DEF Ask
    <3> QED
      BY <1>4, <2>1, <2>3, <3>1 DEF Ask, TypeOK
  <2>5. ClientsAtWork'
    BY <1>1, <1>4 DEF Ask, Go, GiveUp, ClientsAtWork, TypeOK
  <2> QED
    BY <2>4, <2>5
<1>5. CASE Fetch(v)
  <2>1. \E pc \in ClientPcs, part \in SUBSET batch[v] :
          proc' = [proc EXCEPT ![v] = pc] /\ batch' = [batch EXCEPT ![v] = part]
    BY <1>5 DEF Fetch, Go, GiveUp, Missing, ClientPcs
  <2>2. TypeOK'
    <3>1. tries' \in [Views -> 0..Retries]
      BY <1>5, EndCallTyped DEF Fetch
    <3>2. proc' \in [Views -> ClientPcs] /\ batch' \in [Views -> SUBSET Blocks]
      BY <2>1 DEF TypeOK
    <3> QED
      BY <1>5, <3>1, <3>2 DEF Fetch, TypeOK
  <2>3. ClientsAtWork'
    BY <1>1, <1>5 DEF Fetch, Go, GiveUp, ClientsAtWork, TypeOK
  <2> QED
    BY <2>2, <2>3
<1>6. CASE \E b \in Blocks : Store(v, b)
  <2>1. TypeOK'
    BY <1>6 DEF Store, TypeOK, ClientPcs
  <2>2. ClientsAtWork'
    BY <1>1, <1>6 DEF Store, ClientsAtWork, TypeOK
  <2> QED
    BY <2>1, <2>2
<1>7. CASE NextPage(v)
  <2>1. n + 1 \in Page
    BY <1>2 DEF Page
  <2>2. rows' \in [Views -> [status : {"none", "SYNCING", "SYNCED", "deleted"},
                             page : Page, synced : Seq(Shards)]]
    BY <1>7, <2>1, WritePageTyped DEF NextPage, TypeOK
  <2>3. /\ clients' = [clients EXCEPT ![<<v, s>>] = n + 1]
        /\ clients' \in [Views \X Shards -> Nat]
    BY <1>2, <1>7, <2>1 DEF NextPage, TypeOK, Page
  <2>4. TypeOK'
    BY <1>7, <2>2, <2>3 DEF NextPage, Go, TypeOK, ClientPcs
  <2>5. \A w \in Views, t \in Shards : clients'[<<w, t>>] # 0 => clients[<<w, t>>] # 0
    BY <1>2, <2>3 DEF TypeOK, Page
  <2>6. \A w \in Views, t \in Shards : clients[<<w, t>>] # 0 => clients'[<<w, t>>] # 0
    BY <1>2, <2>3, <2>1 DEF TypeOK, Page
  <2>7. /\ pass' = pass
        /\ \A w \in Views : proc'[w] # "none" => proc[w] # "none"
    BY <1>1, <1>7 DEF NextPage, Go, TypeOK
  <2>8. ClientsAtWork'
    BY <1>2, <2>5, <2>6, <2>7 DEF ClientsAtWork
  <2> QED
    BY <2>4, <2>8
<1>8. CASE Mark(v)
  <2>1. Append(rows[v].synced, s) \in Seq(Shards)
    BY <1>2 DEF TypeOK
  <2>2. rows' \in [Views -> [status : {"none", "SYNCING", "SYNCED", "deleted"},
                             page : Page, synced : Seq(Shards)]]
    <3> DEFINE Row == [status : {"none", "SYNCING", "SYNCED", "deleted"},
                       page : Page, synced : Seq(Shards)]
               list == Append(rows[v].synced, s)
    <3>1. rows \in [Views -> Row] /\ rows[v] \in Row
      BY DEF TypeOK
    <3>2. \A st \in {rows[v].status, "SYNCED"} :
            [status |-> st, page |-> rows[v].page, synced |-> list] \in Row
      BY <2>1, <3>1
    <3>3. \/ rows' = rows
          \/ \E st \in {rows[v].status, "SYNCED"} :
               rows' = [rows EXCEPT ![v] = [status |-> st, page |-> rows[v].page,
                                            synced |-> list]]
      BY <1>8, <3>1 DEF Mark
    <3> HIDE DEF Row
    <3>4. rows' \in [Views -> Row]
      BY <3>1, <3>2, <3>3
    <3> QED
      BY <3>4 DEF Row
  <2>3. TypeOK'
    BY <1>8, <2>2 DEF Mark, Go, TypeOK, ClientPcs
  <2>4. ClientsAtWork'
    BY <1>1, <1>8 DEF Mark, Go, ClientsAtWork, TypeOK
  <2> QED
    BY <2>3, <2>4
<1>9. CASE Close(v)
  <2>1. rows' \in [Views -> [status : {"none", "SYNCING", "SYNCED", "deleted"},
                             page : Page, synced : Seq(Shards)]]
    BY <1>2, <1>9, WritePageTyped DEF Close, TypeOK
  <2>2. TypeOK'
    BY <1>9, <2>1 DEF Close, Go, TypeOK, ClientPcs
  <2>3. ClientsAtWork'
    BY <1>1, <1>9 DEF Close, Go, ClientsAtWork, TypeOK
  <2> QED
    BY <2>2, <2>3
<1> QED
  BY <1>3, <1>4, <1>5, <1>6, <1>7, <1>8, <1>9

\* A count that grows stays a count.
LEMMA CountsTyped ==
  ASSUME TypeOK, NEW k \in {"requests", "crashes"}, counts' = [counts EXCEPT ![k] = @ + 1]
  PROVE  counts' \in [{"requests", "crashes"} -> Nat]
<1>1. counts \in [{"requests", "crashes"} -> Nat] /\ counts[k] + 1 \in Nat
  BY DEF TypeOK
<1> QED
  BY <1>1

\* A row whose status changes stays a row.
LEMMA StatusTyped ==
  ASSUME TypeOK, NEW v \in Views, NEW st \in {"SYNCING", "deleted"},
         rows' = [rows EXCEPT ![v].status = st]
  PROVE  rows' \in [Views -> [status : {"none", "SYNCING", "SYNCED", "deleted"},
                              page : Page, synced : Seq(Shards)]]
<1> DEFINE Row == [status : {"none", "SYNCING", "SYNCED", "deleted"},
                   page : Page, synced : Seq(Shards)]
           r == [rows[v] EXCEPT !.status = st]
<1>1. rows \in [Views -> Row] /\ rows[v] \in Row
  BY DEF TypeOK
<1>2. r \in Row
  BY <1>1
<1>3. rows' = [rows EXCEPT ![v] = r]
  OBVIOUS
<1> HIDE DEF Row, r
<1>4. rows' \in [Views -> Row]
  BY <1>1, <1>2, <1>3
<1> QED
  BY <1>4 DEF Row

\* Every step keeps the types.
LEMMA NextTyped == Typed /\ [Next]_vars => Typed'
<1> SUFFICES ASSUME Typed, [Next]_vars PROVE Typed'
  OBVIOUS
<1> USE DEF Typed
<1>1. CASE \E v \in Views : AddView(v)
  <2> PICK v \in Views : AddView(v)
    BY <1>1
  <2>4. TypeOK'
    BY StatusTyped DEF AddView, TypeOK
  <2>5. ClientsAtWork'
    BY DEF AddView, ClientsAtWork
  <2> QED
    BY <2>4, <2>5
<1>2. CASE Request
  <2>1. counts' = [counts EXCEPT !["requests"] = @ + 1]
    BY <1>2 DEF Request
  <2>2. counts' \in [{"requests", "crashes"} -> Nat]
    BY <2>1, CountsTyped
  <2> QED
    <3>1. waiting' \in Nat /\ adding' \in BOOLEAN
      <4>1. waiting \in Nat /\ waiting' = waiting + 1 /\ adding' = FALSE
        BY <1>2 DEF Request, TypeOK
      <4>2. waiting' \in Nat
        BY <4>1
      <4>3. adding' \in BOOLEAN
        BY <4>1
      <4> QED
        BY <4>2, <4>3
    <3>2. UNCHANGED <<up, rows, clients, pass, proc, batch, tries, stored, served>>
      BY <1>2 DEF Request
    <3>3. TypeOK'
      BY <2>2, <3>1, <3>2 DEF TypeOK
    <3> QED
      BY <3>2, <3>3 DEF ClientsAtWork
<1>3. CASE StartPass
  <2>1. Constructed \in [Views \X Shards -> Nat]
    <3>1. \A c \in Views \X Shards : c[1] \in Views /\ c[2] \in Shards
      OBVIOUS
    <3>2. \A v \in Views : rows[v].page \in Nat
      BY DEF TypeOK, Page
    <3>3. \A c \in Views \X Shards : rows[c[1]].page \in Nat
      BY <3>1, <3>2
    <3> QED
      BY <3>3 DEF Constructed
  <2>2. clients' \in [Views \X Shards -> Nat]
    BY <1>3, <2>1 DEF StartPass, KnownClients, TypeOK
  <2>3. TypeOK'
    BY <1>3, <2>2 DEF StartPass, TypeOK
  <2>4. \A v \in Views, s \in Shards : Constructed[<<v, s>>] # 0 => s \in ViewShards[v]
    BY DEF Constructed
  <2>5. \A v \in Views : proc[v] = "none"
    BY <1>3 DEF StartPass, ClientsAtWork, Idle
  <2>6. ClientsAtWork'
    BY <1>3, <2>4, <2>5 DEF StartPass, KnownClients, ClientsAtWork
  <2> QED
    BY <2>3, <2>6
<1>4. CASE \E s \in Shards : NextShard(s)
  <2> PICK s \in Shards : NextShard(s)
    BY <1>4
  <2>1. pass.todo \in SUBSET Shards
    BY DEF NextShard, TypeOK, Idle
  <2>2. TypeOK'
    BY <2>1 DEF NextShard, TypeOK, ClientPcs
  <2>3. ClientsAtWork'
    BY DEF NextShard, ClientsAtWork
  <2> QED
    BY <2>2, <2>3
<1>5. CASE EndShard
  <2>1. pass.todo \in SUBSET Shards
    BY <1>5 DEF EndShard, TypeOK, Idle
  <2> QED
    BY <1>5, <2>1 DEF EndShard, TypeOK, ClientsAtWork
<1>6. CASE EndPass
  BY <1>6 DEF EndPass, TypeOK, ClientsAtWork
<1>7. CASE \E v \in Views :
             Open(v) \/ Ask(v) \/ Fetch(v) \/ (\E b \in Blocks : Store(v, b))
               \/ NextPage(v) \/ Mark(v) \/ Close(v)
  BY <1>7, ClientTyped
<1>8. CASE \E v \in Views : DropSynced(v)
  BY <1>8, StatusTyped DEF DropSynced, memory, TypeOK, ClientsAtWork
<1>9. CASE \E v \in Views : PeerDrops(v)
  BY <1>9 DEF PeerDrops, memory, TypeOK, ClientsAtWork
<1>10. CASE \E v \in Views : AttemptFails(v)
  <2> PICK v \in Views : AttemptFails(v)
    BY <1>10
  <2>1. tries[v] \in 0..Retries /\ tries[v] < Retries
    BY DEF AttemptFails, MayRetry, TypeOK
  <2>2. tries[v] + 1 \in 0..Retries
    BY <2>1, RetriesAssumption
  <2>3. tries' \in [Views -> 0..Retries]
    BY <2>2 DEF AttemptFails, TypeOK
  <2> QED
    BY <2>3 DEF AttemptFails, TypeOK, ClientsAtWork
<1>11. CASE Crash
  <2>1. counts' \in [{"requests", "crashes"} -> Nat]
    <3>1. counts' = [counts EXCEPT !["crashes"] = @ + 1]
      BY <1>11 DEF Crash
    <3> QED
      BY <3>1, CountsTyped
  <2>2. tries' \in [Views -> 0..Retries]
    BY <1>11, RetriesAssumption DEF Crash
  <2>3. TypeOK'
    BY <1>11, <2>1, <2>2 DEF Crash, TypeOK, ClientPcs
  <2> QED
    BY <1>11, <2>3 DEF Crash, ClientsAtWork
<1>12. CASE Restart
  BY <1>12 DEF Restart, TypeOK, ClientsAtWork
<1>13. CASE UNCHANGED vars
  BY <1>13 DEF vars, memory, TypeOK, ClientsAtWork
<1> QED
  BY <1>1, <1>2, <1>3, <1>4, <1>5, <1>6, <1>7, <1>8, <1>9, <1>10, <1>11, <1>12, <1>13 DEF Next

------------------------------------------------------------------------------
(* Pages. *)

\* Counting one more page adds that page to what lies before.
LEMMA BeforeGrows ==
  ASSUME NEW v, NEW s, NEW n \in Page
  PROVE  Before(v, s, n + 1) \subseteq Before(v, s, n) \cup PageOf(v, s, n)
<1>1. \A i \in 1..((n + 1) - 1) : i \in 1..(n - 1) \/ i = n
  BY DEF Page
<1> QED
  BY <1>1 DEF Before

\* Nothing lies before the first page, nor before the page 0 of no client.
LEMMA BeforeStart ==
  ASSUME NEW v, NEW s
  PROVE  Before(v, s, 1) = {} /\ Before(v, s, 0) = {}
<1>1. 1..(1 - 1) = {} /\ 1..(0 - 1) = {}
  OBVIOUS
<1> QED
  BY <1>1 DEF Before

\* The parts of SInv beside the types.
Pages == SavedPagesStored /\ OneShardPages /\ PageInHand /\ PageDone

LEMMA InitPages == Init => Pages
<1> SUFFICES ASSUME Init PROVE Pages
  OBVIOUS
<1>1. \A v \in Views : rows[v].page = 1 /\ proc[v] = "none"
  BY DEF Init
<1>2. \A v \in Views, s \in Shards : clients[<<v, s>>] = 0
  BY DEF Init
<1>3. SavedPagesStored
  BY <1>1, BeforeStart DEF SavedPagesStored
<1>4. OneShardPages
  BY <1>2, BeforeStart DEF OneShardPages
<1> QED
  BY <1>1, <1>3, <1>4 DEF Pages, PageInHand, PageDone

\* What is known of pages stays true while blocks are only added.
LEMMA StoredGrows ==
  ASSUME Pages, stored \subseteq stored', clients' = clients,
         \A w \in Views : rows'[w].page = rows[w].page
  PROVE  SavedPagesStored' /\ OneShardPages'
<1>1. ASSUME NEW w \in Views, NEW s \in Shards, ViewShards[w] = {s}
      PROVE  /\ Before(w, s, rows'[w].page) \subseteq stored'
             /\ Before(w, s, clients'[<<w, s>>]) \subseteq stored'
  BY <1>1 DEF Pages, SavedPagesStored, OneShardPages
<1> QED
  BY <1>1 DEF SavedPagesStored, OneShardPages, Before, PageOf, LinesOf, Rank

\* A step of one client leaves the others with their pages in hand.
LEMMA OthersInHand ==
  ASSUME Pages, NEW v \in Views, pass' = pass, stored \subseteq stored',
         \A w \in Views \ {v} :
           /\ proc'[w] = proc[w] /\ batch'[w] = batch[w]
           /\ clients'[<<w, pass.shard>>] = clients[<<w, pass.shard>>],
         proc'[v] \in {"fetch", "store", "page"} =>
           PageOf(v, pass.shard, clients'[<<v, pass.shard>>]) \subseteq stored' \cup batch'[v],
         proc'[v] = "page" => batch'[v] = {}
  PROVE  PageInHand' /\ PageDone'
<1>1. ASSUME NEW w \in Views, proc'[w] \in {"fetch", "store", "page"}
      PROVE  PageOf(w, pass.shard, clients'[<<w, pass.shard>>]) \subseteq stored' \cup batch'[w]
  <2>1. CASE w = v
    BY <1>1, <2>1
  <2>2. CASE w # v
    <3>1. PageOf(w, pass.shard, clients[<<w, pass.shard>>]) \subseteq stored \cup batch[w]
      BY <1>1, <2>2 DEF Pages, PageInHand
    <3> QED
      BY <2>2, <3>1
  <2> QED
    BY <2>1, <2>2
<1>2. ASSUME NEW w \in Views, proc'[w] = "page" PROVE batch'[w] = {}
  BY <1>2 DEF Pages, PageDone
<1>3. PageInHand'
  BY <1>1 DEF PageInHand, PageOf, LinesOf, Rank
<1> QED
  BY <1>2, <1>3 DEF PageDone

\* A client whose own page goes to the row leaves the row right: a view of one shard
\* has the client of that shard.
LEMMA PageWritten ==
  ASSUME Typed, Pages, NEW v \in Views, proc[v] # "none",
         WritePage(v, clients[<<v, pass.shard>>]) \/ rows' = rows,
         stored' = stored
  PROVE  SavedPagesStored'
<1> DEFINE n == clients[<<v, pass.shard>>]
<1>1. pass.shard \in Shards /\ pass.shard \in ViewShards[v]
  BY WorkingShard
<1>2. \A w \in Views : rows'[w].page = rows[w].page \/ (w = v /\ rows'[w].page = n)
  BY DEF WritePage, Typed, TypeOK
<1> SUFFICES ASSUME NEW w \in Views, NEW s \in Shards, ViewShards[w] = {s}
             PROVE  Before(w, s, rows'[w].page) \subseteq stored
  BY DEF SavedPagesStored, Before, PageOf, LinesOf, Rank
<1>3. CASE rows'[w].page = rows[w].page
  BY <1>3 DEF Pages, SavedPagesStored
<1>4. CASE w = v /\ rows'[w].page = n
  <2>1. s = pass.shard
    BY <1>1, <1>4
  <2> QED
    BY <1>4, <2>1 DEF Pages, OneShardPages
<1> QED
  BY <1>2, <1>3, <1>4

\* A step of a client keeps what is known of pages, if handleBlock() does not throw.
LEMMA ClientPages ==
  ASSUME Typed, Pages, \A u \in Views : "store" \notin Faults[u], NEW v \in Views,
         Open(v) \/ Ask(v) \/ Fetch(v) \/ (\E b \in Blocks : Store(v, b))
           \/ NextPage(v) \/ Mark(v) \/ Close(v)
  PROVE  Pages'
<1> USE DEF Go
<1> DEFINE s == pass.shard
           n == clients[<<v, s>>]
<1>1. proc[v] # "none"
  BY DEF Open, Ask, Fetch, Store, NextPage, Mark, Close
<1>2. s \in Shards /\ s \in ViewShards[v] /\ n \in Page
  BY <1>1, WorkingShard
<1>3. proc \in [Views -> ClientPcs] /\ batch \in [Views -> SUBSET Blocks]
  BY DEF Typed, TypeOK
<1>4. CASE Open(v)
  <2>1. SavedPagesStored'
    BY <1>1, <1>4, PageWritten DEF Open
  <2>2. OneShardPages'
    BY <1>4 DEF Open, Pages, OneShardPages, Before, PageOf, LinesOf, Rank
  <2>3. PageInHand' /\ PageDone'
    BY <1>3, <1>4, OthersInHand DEF Open
  <2> QED
    BY <2>1, <2>2, <2>3 DEF Pages
<1>5. CASE Ask(v)
  <2>1. SavedPagesStored' /\ OneShardPages'
    BY <1>5, StoredGrows DEF Ask
  <2>2. proc'[v] \in {"fetch", "store", "page"} =>
          proc'[v] = "fetch" /\ batch'[v] = PageOf(v, s, n)
    BY <1>3, <1>5 DEF Ask, AfterHashes, GiveUp
  <2>3. \A w \in Views \ {v} : proc'[w] = proc[w] /\ batch'[w] = batch[w]
    BY <1>3, <1>5 DEF Ask, GiveUp
  <2>4. UNCHANGED <<pass, stored, clients>>
    BY <1>5 DEF Ask
  <2>5. PageInHand' /\ PageDone'
    BY <2>2, <2>3, <2>4, OthersInHand
  <2> QED
    BY <2>1, <2>5 DEF Pages
<1>6. CASE Fetch(v)
  <2>1. SavedPagesStored' /\ OneShardPages'
    BY <1>6, StoredGrows DEF Fetch
  <2>2. PageOf(v, s, n) \subseteq stored \cup batch[v]
    BY <1>6 DEF Fetch, Pages, PageInHand
  <2>3. UNCHANGED <<pass, stored, clients>>
    BY <1>6 DEF Fetch
  <2>4. \A w \in Views \ {v} : proc'[w] = proc[w] /\ batch'[w] = batch[w]
    BY <1>3, <1>6 DEF Fetch, GiveUp
  <2>5. \/ proc'[v] = "page" /\ batch'[v] = {} /\ batch[v] \ stored = {}
        \/ proc'[v] = "store" /\ batch'[v] = batch[v] \ stored
        \/ proc'[v] = "none"
    BY <1>3, <1>6 DEF Fetch, GiveUp, Missing
  <2>6. PageInHand' /\ PageDone'
    BY <2>2, <2>3, <2>4, <2>5, OthersInHand
  <2> QED
    BY <2>1, <2>6 DEF Pages
<1>7. CASE \E b \in Blocks : Store(v, b)
  <2> PICK b \in Blocks : Store(v, b)
    BY <1>7
  <2>1. SavedPagesStored' /\ OneShardPages'
    BY StoredGrows DEF Store
  <2>2. PageOf(v, s, n) \subseteq stored \cup batch[v]
    BY DEF Store, Pages, PageInHand
  <2>3. UNCHANGED <<pass, clients>> /\ stored' = stored \cup {b}
    BY DEF Store
  <2>4. \A w \in Views \ {v} : proc'[w] = proc[w] /\ batch'[w] = batch[w]
    BY <1>3 DEF Store
  <2>5. batch'[v] = batch[v] \ {b} /\ (proc'[v] = "page" => batch'[v] = {})
    BY <1>3 DEF Store
  <2>6. PageInHand' /\ PageDone'
    BY <2>2, <2>3, <2>4, <2>5, OthersInHand
  <2> QED
    BY <2>1, <2>6 DEF Pages
<1>8. CASE NextPage(v)
  <2>1. clients \in [Views \X Shards -> Nat] /\ <<v, s>> \in Views \X Shards
    BY <1>2 DEF Typed, TypeOK
  <2>2. clients' = [clients EXCEPT ![<<v, s>>] = n + 1]
    BY <1>8 DEF NextPage
  <2>3. UNCHANGED <<pass, stored, batch>>
    BY <1>8 DEF NextPage
  <2>4. PageOf(v, s, n) \subseteq stored
    BY <1>8 DEF NextPage, Pages, PageInHand, PageDone
  <2>5. ViewShards[v] = {s} => Before(v, s, n + 1) \subseteq stored
    BY <1>2, <2>4, BeforeGrows DEF Pages, OneShardPages
  <2>6. ASSUME NEW w \in Views, NEW t \in Shards, ViewShards[w] = {t}
        PROVE  /\ Before(w, t, clients'[<<w, t>>]) \subseteq stored
               /\ Before(w, t, rows'[w].page) \subseteq stored
    <3>1. CASE w = v
      <4>1. t = s
        BY <1>2, <2>6, <3>1
      <4>2. clients'[<<w, t>>] = n + 1
        BY <2>1, <2>2, <3>1, <4>1
      <4>3. rows'[v].page = n + 1 \/ rows'[v].page = rows[v].page
        BY <1>8 DEF NextPage, WritePage, Typed, TypeOK
      <4> QED
        BY <2>5, <2>6, <3>1, <4>1, <4>2, <4>3 DEF Pages, SavedPagesStored
    <3>2. CASE w # v
      <4>1. clients'[<<w, t>>] = clients[<<w, t>>]
        BY <2>1, <2>2, <3>2
      <4>2. rows'[w].page = rows[w].page
        BY <1>8, <3>2 DEF NextPage, WritePage, Typed, TypeOK
      <4> QED
        BY <2>6, <4>1, <4>2 DEF Pages, SavedPagesStored, OneShardPages
    <3> QED
      BY <3>1, <3>2
  <2>7. SavedPagesStored' /\ OneShardPages'
    BY <2>3, <2>6 DEF SavedPagesStored, OneShardPages, Before, PageOf, LinesOf, Rank
  <2>8. /\ proc'[v] \in {"ask", "none"}
        /\ \A w \in Views \ {v} : proc'[w] = proc[w]
    BY <1>3, <1>8 DEF NextPage
  <2>9. \A w \in Views \ {v} : clients'[<<w, s>>] = clients[<<w, s>>]
    BY <1>2, <2>1, <2>2
  <2>10. PageInHand' /\ PageDone'
    BY <2>3, <2>8, <2>9, OthersInHand
  <2> QED
    BY <2>7, <2>10 DEF Pages
<1>9. CASE Mark(v)
  <2>1. \A w \in Views : rows'[w].page = rows[w].page
    <3> DEFINE list == Append(rows[v].synced, s)
    <3>1. rows[v] \in [status : {"none", "SYNCING", "SYNCED", "deleted"},
                       page : Page, synced : Seq(Shards)]
      BY DEF Typed, TypeOK
    <3>2. \/ rows' = rows
          \/ \E st \in {rows[v].status, "SYNCED"} :
               rows' = [rows EXCEPT ![v] = [status |-> st, page |-> rows[v].page,
                                            synced |-> list]]
      BY <1>9, <3>1 DEF Mark, Typed, TypeOK
    <3>3. DOMAIN rows = Views
      BY DEF Typed, TypeOK
    <3> HIDE DEF list
    <3> QED
      BY <3>2, <3>3
  <2>2. SavedPagesStored' /\ OneShardPages'
    BY <1>9, <2>1, StoredGrows DEF Mark
  <2>3. PageInHand' /\ PageDone'
    BY <1>3, <1>9, OthersInHand DEF Mark
  <2> QED
    BY <2>2, <2>3 DEF Pages
<1>10. CASE Close(v)
  <2>1. SavedPagesStored'
    BY <1>1, <1>10, PageWritten DEF Close
  <2>2. OneShardPages'
    BY <1>10 DEF Close, Pages, OneShardPages, Before, PageOf, LinesOf, Rank
  <2>3. PageInHand' /\ PageDone'
    BY <1>3, <1>10, OthersInHand DEF Close
  <2> QED
    BY <2>1, <2>2, <2>3 DEF Pages
<1> QED
  BY <1>4, <1>5, <1>6, <1>7, <1>8, <1>9, <1>10

\* Steps that leave the clients' work alone leave the pages in hand.
LEMMA SameWork ==
  ASSUME Pages, UNCHANGED <<pass, clients, proc, batch, stored>>
  PROVE  PageInHand' /\ PageDone'
BY DEF Pages, PageInHand, PageDone, PageOf, LinesOf, Rank

\* Without a client at work there is nothing in hand.
LEMMA NoWork ==
  ASSUME \A v \in Views : proc'[v] \in {"none", "open"}
  PROVE  PageInHand' /\ PageDone'
BY DEF PageInHand, PageDone

LEMMA NextPages ==
  ASSUME Typed, Pages, \A u \in Views : "store" \notin Faults[u], [Next]_vars
  PROVE  Pages'
<1>1. CASE \E v \in Views : AddView(v)
  <2>1. \A w \in Views : rows'[w].page = rows[w].page
    BY <1>1 DEF AddView, Typed, TypeOK
  <2> QED
    BY <1>1, <2>1, StoredGrows, SameWork DEF AddView, Pages
<1>2. CASE Request
  BY <1>2, StoredGrows, SameWork DEF Request, Pages
<1>3. CASE StartPass
  <2>1. \A v \in Views : proc'[v] = "none"
    BY <1>3 DEF StartPass, Typed, ClientsAtWork, Idle
  <2>2. ASSUME NEW v \in Views, NEW s \in Shards
        PROVE  clients'[<<v, s>>] \in {clients[<<v, s>>], 0, rows[v].page}
    BY <1>3 DEF StartPass, KnownClients, Constructed
  <2>3. ASSUME NEW v \in Views, NEW s \in Shards, ViewShards[v] = {s}
        PROVE  Before(v, s, clients'[<<v, s>>]) \subseteq stored
    BY <2>2, <2>3, BeforeStart DEF Pages, SavedPagesStored, OneShardPages
  <2>4. UNCHANGED <<rows, stored>>
    BY <1>3 DEF StartPass
  <2>5. OneShardPages'
    BY <2>3, <2>4 DEF OneShardPages, Before, PageOf, LinesOf, Rank
  <2>6. SavedPagesStored'
    BY <2>4 DEF Pages, SavedPagesStored, Before, PageOf, LinesOf, Rank
  <2> QED
    BY <2>1, <2>5, <2>6, NoWork DEF Pages
<1>4. CASE \E s \in Shards : NextShard(s)
  <2>1. \A v \in Views : proc'[v] \in {"none", "open"}
    BY <1>4 DEF NextShard
  <2>2. SavedPagesStored' /\ OneShardPages'
    BY <1>4, StoredGrows DEF NextShard
  <2> QED
    BY <2>1, <2>2, NoWork DEF Pages
<1>5. CASE EndShard
  <2>1. \A v \in Views : proc'[v] = "none"
    BY <1>5 DEF EndShard
  <2>2. SavedPagesStored' /\ OneShardPages'
    BY <1>5, StoredGrows DEF EndShard
  <2> QED
    BY <2>1, <2>2, NoWork DEF Pages
<1>6. CASE EndPass
  <2>1. \A v \in Views : proc'[v] = "none"
    BY <1>6 DEF EndPass, Typed, ClientsAtWork
  <2>2. SavedPagesStored' /\ OneShardPages'
    BY <1>6, StoredGrows DEF EndPass
  <2> QED
    BY <2>1, <2>2, NoWork DEF Pages
<1>7. CASE \E v \in Views :
             Open(v) \/ Ask(v) \/ Fetch(v) \/ (\E b \in Blocks : Store(v, b))
               \/ NextPage(v) \/ Mark(v) \/ Close(v)
  BY <1>7, ClientPages
<1>8. CASE \E v \in Views : DropSynced(v)
  <2>1. \A w \in Views : rows'[w].page = rows[w].page
    BY <1>8 DEF DropSynced, Typed, TypeOK
  <2> QED
    BY <1>8, <2>1, StoredGrows, SameWork DEF DropSynced, memory, Pages
<1>9. CASE \E v \in Views : PeerDrops(v) \/ AttemptFails(v)
  BY <1>9, StoredGrows, SameWork DEF PeerDrops, AttemptFails, memory, Pages
<1>10. CASE Crash
  <2>1. \A v \in Views : proc'[v] = "none"
    BY <1>10 DEF Crash
  <2>2. \A v \in Views, s \in Shards : clients'[<<v, s>>] = 0
    BY <1>10 DEF Crash
  <2>3. OneShardPages'
    BY <2>2, BeforeStart DEF OneShardPages, Before, PageOf, LinesOf, Rank
  <2>4. SavedPagesStored'
    BY <1>10 DEF Crash, Pages, SavedPagesStored, Before, PageOf, LinesOf, Rank
  <2> QED
    BY <2>1, <2>3, <2>4, NoWork DEF Pages
<1>11. CASE Restart
  BY <1>11, StoredGrows, SameWork DEF Restart, Pages
<1>12. CASE UNCHANGED vars
  BY <1>12, StoredGrows, SameWork DEF vars, memory, Pages
<1> QED
  BY <1>1, <1>2, <1>3, <1>4, <1>5, <1>6, <1>7, <1>8, <1>9, <1>10, <1>11, <1>12 DEF Next

------------------------------------------------------------------------------
\* The rows, the clients and the passes of BlockPolling and StorageSyncClient stay
\* within their types, whatever fails.
THEOREM TypeCorrect == Spec => []TypeOK
<1>1. Typed /\ [Next]_vars => Typed'
  BY NextTyped
<1>2. Typed => TypeOK
  BY DEF Typed
<1> QED
  BY InitTyped, <1>1, <1>2, PTL DEF Spec

\* The sync keeps its inductive invariant as long as handleBlock() stores what it is
\* given: through crashes, peers that fail or answer with errors, and rows deleted
\* under the clients.
THEOREM SyncInvariant ==
  ASSUME \A u \in Views : "store" \notin Faults[u]
  PROVE  Spec => []SInv
<1>1. Init => Typed /\ Pages
  BY InitTyped, InitPages
<1>2. Typed /\ Pages /\ [Next]_vars => Typed' /\ Pages'
  BY NextTyped, NextPages
<1>3. Typed /\ Pages => SInv
  BY DEF Typed, Pages, SInv
<1> QED
  BY <1>1, <1>2, <1>3, PTL DEF Spec

\* A restart that resumes a view of one shard at the page in storage_sync_info skips
\* no block: all pages before it are stored (updateLastSyncedPageNumber()).
THEOREM NothingSkippedOnRestart ==
  ASSUME \A u \in Views : "store" \notin Faults[u]
  PROVE  Spec => []SavedPagesStored
<1>1. SInv => SavedPagesStored
  BY DEF SInv
<1> QED
  BY SyncInvariant, <1>1, PTL

------------------------------------------------------------------------------
(* Least and greatest numbers. *)

\* A set of numbers that is not empty has a least one.
LEMMA LeastNat ==
  ASSUME NEW T \in SUBSET Nat, T # {}
  PROVE  \E m \in T : \A k \in T : m <= k
<1> DEFINE R == OpToRel(<, Nat)
<1>1. IsWellFoundedOn(R, Nat)
  BY NatLessThanWellFounded
<1>2. \A m, k \in Nat : k < m => <<k, m>> \in R
  BY DEF OpToRel
<1> HIDE DEF R
<1>3. PICK m \in T : \A k \in T : ~(<<k, m>> \in R)
  BY <1>1, WFMin
<1>4. \A k \in T : ~(k < m)
  BY <1>2, <1>3
<1> QED
  BY <1>4

\* ... and a greatest one, if it is bounded.
LEMMA GreatestNat ==
  ASSUME NEW n \in Nat, NEW T \in SUBSET (0..n), T # {}
  PROVE  \E m \in T : \A k \in T : k <= m
<1> DEFINE D == {n - k : k \in T}
<1>1. D \in SUBSET Nat /\ D # {}
  <2>1. \A k \in T : n - k \in Nat
    OBVIOUS
  <2> QED
    BY <2>1
<1> HIDE DEF D
<1>2. PICK d \in D : \A e \in D : d <= e
  BY <1>1, LeastNat
<1>3. PICK m \in T : d = n - m
  BY <1>2 DEF D
<1>4. ASSUME NEW k \in T PROVE k <= m
  <2>1. n - k \in D
    BY DEF D
  <2>2. d <= n - k
    BY <1>2, <2>1
  <2>3. m \in 0..n /\ k \in 0..n
    OBVIOUS
  <2> QED
    BY <1>3, <2>2, <2>3
<1> QED
  BY <1>4

------------------------------------------------------------------------------
(* Ranks and pages. *)

\* The lines of a view on a shard are finitely many numbers.
LEMMA LinesFinite ==
  ASSUME NEW v \in Views, NEW s
  PROVE  /\ LinesOf(v, s) \subseteq 1..Len(Listing[v])
         /\ Len(Listing[v]) \in Nat
         /\ IsFiniteSet(LinesOf(v, s))
<1>1. Listing[v] \in Seq(Blocks)
  BY ListingAssumption
<1>2. Len(Listing[v]) \in Nat /\ DOMAIN Listing[v] = 1..Len(Listing[v])
  BY <1>1
<1>3. LinesOf(v, s) \subseteq 1..Len(Listing[v])
  BY <1>2 DEF LinesOf
<1>4. IsFiniteSet(1..Len(Listing[v]))
  <2> DEFINE k == Len(Listing[v])
  <2>1. k \in Int /\ 1 \in Int
    BY <1>2
  <2> HIDE DEF k
  <2>2. IsFiniteSet(1..k)
    BY <2>1, FS_Interval
  <2> QED
    BY <2>2 DEF k
<1> QED
  BY <1>2, <1>3, <1>4, FS_Subset

\* A line has a rank, and the first line on a shard or the one before it has the
\* rank one less.
LEMMA RankBefore ==
  ASSUME NEW v \in Views, NEW s, NEW i \in LinesOf(v, s)
  PROVE  /\ Rank(v, s, i) \in Nat \ {0}
         /\ Rank(v, s, i) = 1 \/ \E j \in LinesOf(v, s) : Rank(v, s, j) = Rank(v, s, i) - 1
<1> DEFINE L == LinesOf(v, s)
           A == {j \in L : j <= i}
           B == A \ {i}
           k == Len(Listing[v])
<1>1. L \subseteq 1..k /\ k \in Nat /\ IsFiniteSet(L)
  BY LinesFinite
<1>2. IsFiniteSet(A) /\ Cardinality(A) \in Nat
  BY <1>1, FS_Subset, FS_CardinalityType
<1>3. i \in A
  BY <1>1
<1>4. IsFiniteSet(B) /\ Cardinality(B) = Cardinality(A) - 1
  BY <1>2, <1>3, FS_RemoveElement
<1>5. Cardinality(B) \in Nat
  BY <1>4, FS_CardinalityType
<1>6. Rank(v, s, i) = Cardinality(A)
  BY DEF Rank
<1>7. CASE B = {}
  BY <1>2, <1>4, <1>5, <1>6, <1>7, FS_EmptySet
<1>8. CASE B # {}
  <2>1. B \in SUBSET (0..k)
    BY <1>1
  <2>2. PICK j \in B : \A h \in B : h <= j
    BY <1>1, <1>8, <2>1, GreatestNat
  <2>3. {h \in L : h <= j} = B
    BY <1>1, <2>2
  <2>4. j \in L /\ Rank(v, s, j) = Cardinality(B)
    BY <2>3 DEF Rank
  <2> QED
    BY <1>2, <1>4, <1>5, <1>6, <2>4
<1> QED
  BY <1>7, <1>8

\* An empty page is the end of the list: no line is of a higher rank.
LEMMA EmptyPageEnds ==
  ASSUME NEW v \in Views, NEW s, NEW n \in Page, PageOf(v, s, n) = {},
         NEW i \in LinesOf(v, s)
  PROVE  Rank(v, s, i) <= (n - 1) * PageSize
<1> DEFINE low  == (n - 1) * PageSize
           high == n * PageSize
           T == {Rank(v, s, j) : j \in {h \in LinesOf(v, s) : Rank(v, s, h) > low}}
<1>1. low \in Nat /\ high = low + PageSize /\ PageSize \in Nat /\ PageSize >= 1
  <2>1. n \in Nat /\ n >= 1 /\ PageSize \in Nat /\ PageSize >= 1
    BY PageAssumption DEF Page
  <2>2. PICK m \in Nat : n = m + 1
    BY <2>1
  <2>3. low = m * PageSize /\ high = (m + 1) * PageSize
    BY <2>2
  <2>4. m * PageSize \in Nat /\ (m + 1) * PageSize = m * PageSize + PageSize
    BY <2>1
  <2> QED
    BY <2>1, <2>3, <2>4
<1>2. \A j \in LinesOf(v, s) : Rank(v, s, j) \in Nat
  BY RankBefore
<1>3. \A j \in LinesOf(v, s) : ~(Rank(v, s, j) > low /\ Rank(v, s, j) <= high)
  BY DEF PageOf
<1> HIDE DEF low, high
<1> SUFFICES ASSUME ~(Rank(v, s, i) <= low) PROVE FALSE
  BY DEF low
<1>4. T \in SUBSET Nat /\ Rank(v, s, i) \in T
  BY <1>1, <1>2
<1>5. PICK r \in T : \A q \in T : r <= q
  BY <1>4, LeastNat
<1>6. PICK j \in LinesOf(v, s) : r = Rank(v, s, j) /\ r > low
  BY <1>5
<1>7. r \in Nat /\ r > low + PageSize
  BY <1>1, <1>2, <1>3, <1>6
<1>8. PICK h \in LinesOf(v, s) : Rank(v, s, h) = r - 1
  BY <1>1, <1>6, <1>7, RankBefore
<1>9. r - 1 \in T
  BY <1>1, <1>7, <1>8
<1> QED
  BY <1>5, <1>7, <1>9

\* A line of rank r at most m pages long is on one of the first m pages.
LEMMA OnSomePage ==
  ASSUME NEW v \in Views, NEW s, NEW m \in Nat, NEW i \in LinesOf(v, s),
         Rank(v, s, i) <= m * PageSize
  PROVE  \E k \in 1..m : Listing[v][i] \in PageOf(v, s, k)
<1> DEFINE r == Rank(v, s, i)
           T == {k \in Nat : r <= k * PageSize}
<1>1. r \in Nat /\ r >= 1
  BY RankBefore
<1>2. m \in T /\ T \in SUBSET Nat
  OBVIOUS
<1>3. PICK k \in T : \A q \in T : k <= q
  BY <1>2, LeastNat
<1>4. k \in Nat /\ k <= m /\ r <= k * PageSize
  BY <1>2, <1>3
<1>5. k # 0
  <2>1. 0 * PageSize = 0
    BY PageAssumption
  <2> QED
    BY <1>1, <1>4, <2>1
<1>6. k - 1 \in Nat /\ ~(k - 1 \in T)
  BY <1>3, <1>4, <1>5
<1>7. (k - 1) * PageSize \in Int
  BY <1>6, PageAssumption
<1>8. r > (k - 1) * PageSize
  BY <1>1, <1>6, <1>7
<1>9. Listing[v][i] \in PageOf(v, s, k)
  BY <1>4, <1>8 DEF PageOf
<1> QED
  BY <1>4, <1>5, <1>9

\* Before an empty page lie all the blocks of the view on the shard.
LEMMA EmptyPageAll ==
  ASSUME NEW v \in Views, NEW s, NEW n \in Page, PageOf(v, s, n) = {}
  PROVE  BlocksOf(v, s) \subseteq Before(v, s, n)
<1> SUFFICES ASSUME NEW b \in BlocksOf(v, s) PROVE b \in Before(v, s, n)
  OBVIOUS
<1>1. PICK i \in DOMAIN Listing[v] : b = Listing[v][i]
  BY DEF BlocksOf, Range
<1>2. i \in LinesOf(v, s)
  BY <1>1 DEF BlocksOf, LinesOf
<1>3. n - 1 \in Nat
  BY DEF Page
<1>4. Rank(v, s, i) <= (n - 1) * PageSize
  BY <1>2, EmptyPageEnds
<1>5. PICK k \in 1..(n - 1) : b \in PageOf(v, s, k)
  BY <1>1, <1>2, <1>3, <1>4, OnSomePage
<1> QED
  BY <1>5 DEF Before

------------------------------------------------------------------------------
(* What a step of a client does, to its own view and to the others. *)

Client(v) == \/ Open(v) \/ Ask(v) \/ Fetch(v) \/ (\E b \in Blocks : Store(v, b))
             \/ NextPage(v) \/ Mark(v) \/ Close(v)

\* A client at work belongs to a view that has clients.
LEMMA ClientWorks ==
  ASSUME Typed, NEW v \in Views, Client(v)
  PROVE  /\ proc[v] # "none" /\ pass.pc = "shard"
         /\ pass.shard \in Shards /\ pass.shard \in ViewShards[v]
         /\ clients[<<v, pass.shard>>] \in Page
<1>1. proc[v] # "none"
  BY DEF Client, Open, Ask, Fetch, Store, NextPage, Mark, Close
<1> QED
  BY <1>1, WorkingShard DEF Typed, ClientsAtWork

\* The other views are none of its business, but that it adds blocks.
LEMMA ClientElsewhere ==
  ASSUME Typed, NEW w \in Views, Client(w)
  PROVE  /\ UNCHANGED <<up, adding, waiting, pass, served, counts>>
         /\ stored \subseteq stored'
         /\ \A v \in Views \ {w} :
              /\ rows'[v] = rows[v] /\ proc'[v] = proc[v] /\ batch'[v] = batch[v]
              /\ \A s \in Shards : clients'[<<v, s>>] = clients[<<v, s>>]
<1>1. UNCHANGED <<up, adding, waiting, pass, served, counts>> /\ stored \subseteq stored'
  BY DEF Client, Open, Ask, Fetch, Store, NextPage, Mark, Close
<1>2. ASSUME NEW v \in Views \ {w}
      PROVE  /\ rows'[v] = rows[v] /\ proc'[v] = proc[v] /\ batch'[v] = batch[v]
             /\ \A s \in Shards : clients'[<<v, s>>] = clients[<<v, s>>]
  <2>1. rows \in [Views -> [status : {"none", "SYNCING", "SYNCED", "deleted"},
                            page : Page, synced : Seq(Shards)]]
    BY DEF Typed, TypeOK
  <2>2. DOMAIN rows = Views /\ proc \in [Views -> ClientPcs]
        /\ batch \in [Views -> SUBSET Blocks] /\ clients \in [Views \X Shards -> Nat]
    BY <2>1 DEF Typed, TypeOK
  <2>3. rows'[v] = rows[v]
    BY <2>2 DEF Client, Open, Ask, Fetch, Store, NextPage, Mark, Close, WritePage
  <2>4. proc'[v] = proc[v]
    BY <2>2 DEF Client, Open, Ask, Fetch, Store, NextPage, Mark, Close, Go, GiveUp
  <2>5. batch'[v] = batch[v]
    BY <2>2 DEF Client, Open, Ask, Fetch, Store, NextPage, Mark, Close, GiveUp
  <2>6. \A s \in Shards : clients'[<<v, s>>] = clients[<<v, s>>]
    BY <2>2, ClientWorks DEF Client, Open, Ask, Fetch, Store, NextPage, Mark, Close
  <2> QED
    BY <2>3, <2>4, <2>5, <2>6
<1> QED
  BY <1>1, <1>2

\* What it marks, it marks in a row that is there.
Marks(v) ==
  /\ Mark(v) /\ Present(v) /\ proc'[v] = "close"
  /\ rows'[v].synced = Append(rows[v].synced, pass.shard)
  /\ rows'[v].page = rows[v].page
  /\ rows'[v].status =
       IF AllSynced(v, rows'[v].synced) THEN "SYNCED" ELSE rows[v].status

\* Otherwise it leaves the marks alone, and writes its own page or none.
LEMMA ClientRow ==
  ASSUME Typed, NEW v \in Views, Client(v)
  PROVE  \/ Marks(v) /\ clients' = clients
         \/ /\ rows'[v].synced = rows[v].synced /\ rows'[v].status = rows[v].status
            /\ rows'[v].page \in {rows[v].page, clients'[<<v, pass.shard>>]}
            /\ Mark(v) => proc'[v] = "none" /\ (~Present(v) \/ "call" \in Faults[v])
<1> DEFINE s == pass.shard
           Row == [status : {"none", "SYNCING", "SYNCED", "deleted"},
                   page : Page, synced : Seq(Shards)]
<1>1. rows \in [Views -> Row] /\ rows[v] \in Row /\ DOMAIN rows = Views
      /\ proc \in [Views -> ClientPcs] /\ clients \in [Views \X Shards -> Nat]
  BY DEF Typed, TypeOK
<1>2. <<v, s>> \in Views \X Shards
  BY ClientWorks
<1>3. \A n : WritePage(v, n) => /\ rows'[v].synced = rows[v].synced
                                /\ rows'[v].status = rows[v].status
                                /\ rows'[v].page \in {rows[v].page, n}
  BY <1>1 DEF WritePage
<1>4. CASE Mark(v)
  <2> DEFINE list == Append(rows[v].synced, s)
             st == IF AllSynced(v, list) THEN "SYNCED" ELSE rows[v].status
  <2>1. CASE rows' = rows /\ proc'[v] = "none" /\ (~Present(v) \/ "call" \in Faults[v])
    BY <2>1
  <2>2. CASE /\ Present(v) /\ Go(v, "close")
             /\ rows' = [rows EXCEPT ![v].synced = list, ![v].status = st]
    <3>1. rows'[v] = [rows[v] EXCEPT !.synced = list, !.status = st]
      BY <1>1, <2>2
    <3>2. rows'[v].synced = list /\ rows'[v].status = st /\ rows'[v].page = rows[v].page
      BY <1>1, <3>1
    <3>3. proc'[v] = "close"
      BY <1>1, <2>2 DEF Go
    <3> QED
      BY <1>4, <2>2, <3>2, <3>3 DEF Marks, Mark
  <2> QED
    BY <1>1, <1>4, <2>1, <2>2 DEF Mark, Go
<1>5. CASE ~Mark(v)
  <2>1. UNCHANGED rows \/ WritePage(v, clients'[<<v, s>>])
    BY <1>1, <1>2, <1>5 DEF Client, Open, Ask, Fetch, Store, NextPage, Close
  <2> QED
    BY <1>3, <1>5, <2>1
<1> QED
  BY <1>4, <1>5

\* A client that was made stays made.
LEMMA ClientStays ==
  ASSUME Typed, NEW v \in Views, Client(v)
  PROVE  /\ \A s \in Shards : clients[<<v, s>>] # 0 <=> clients'[<<v, s>>] # 0
         /\ clients'[<<v, pass.shard>>] # 0
<1> DEFINE n == clients[<<v, pass.shard>>]
<1>1. clients \in [Views \X Shards -> Nat] /\ pass.shard \in Shards /\ n \in Page
  BY ClientWorks DEF Typed, TypeOK
<1>2. clients' = clients \/ clients' = [clients EXCEPT ![<<v, pass.shard>>] = n + 1]
  BY DEF Client, Open, Ask, Fetch, Store, NextPage, Mark, Close
<1>3. n # 0 /\ n + 1 # 0
  BY <1>1 DEF Page
<1> HIDE DEF n
<1>4. \A s \in Shards : clients'[<<v, s>>] = clients[<<v, s>>]
                          \/ (s = pass.shard /\ clients'[<<v, s>>] = n + 1)
  BY <1>1, <1>2
<1> QED
  BY <1>1, <1>3, <1>4 DEF n

------------------------------------------------------------------------------
(* Rows. *)

NoClientsOf(v) == \A s \in Shards : clients[<<v, s>>] = 0

LEMMA InitRows == ASSUME Init, NEW v \in Views PROVE RowFollows(v)
<1>1. rows[v] = [status |-> "none", page |-> 1, synced |-> <<>>]
  BY DEF Init
<1>2. \A s \in Shards : clients[<<v, s>>] = 0
  BY DEF Init
<1>3. Range(rows[v].synced) = {}
  BY <1>1 DEF Range
<1> QED
  BY <1>1, <1>2, <1>3 DEF RowFollows

\* A row that is left alone, while its clients are not made behind its back.
LEMMA SameRow ==
  ASSUME NEW v \in Views, RowFollows(v), UNCHANGED <<rows[v], counts>>,
         NoClientsOf(v)' => NoClientsOf(v),
         rows[v].status = "none" => NoClientsOf(v)',
         v \in served /\ "expiry" \notin Faults[v] => v \in served'
  PROVE  RowFollows(v)'
BY DEF RowFollows, NoClientsOf

\* The marks of a row with one more.
LEMMA MarkAdded ==
  ASSUME NEW list \in Seq(Shards), NEW s \in Shards
  PROVE  /\ Append(list, s) \in Seq(Shards)
         /\ Len(list) \in Nat /\ Len(Append(list, s)) = Len(list) + 1
         /\ Range(Append(list, s)) = Range(list) \cup {s}
         /\ IsInjective(list) /\ s \notin Range(list) => IsInjective(Append(list, s))
<1> DEFINE l == Append(list, s)
           k == Len(list)
<1>1. /\ l \in Seq(Shards) /\ Len(l) = k + 1 /\ k \in Nat
      /\ \A i \in 1..k : l[i] = list[i]
      /\ l[k + 1] = s
      /\ DOMAIN l = 1..(k + 1) /\ DOMAIN list = 1..k
  OBVIOUS
<1> HIDE DEF l, k
<1>2. \A i \in 1..(k + 1) : i \in 1..k \/ i = k + 1
  BY <1>1
<1>3. 1..k \subseteq 1..(k + 1) /\ k + 1 \in 1..(k + 1)
  BY <1>1
<1>4. Range(l) = Range(list) \cup {s}
  BY <1>1, <1>2, <1>3 DEF Range
<1>5. IsInjective(list) /\ s \notin Range(list) => IsInjective(l)
  BY <1>1, <1>2 DEF IsInjective, Range
<1> QED
  BY <1>1, <1>4, <1>5 DEF l, k

\* A step of a client keeps what its row says.
LEMMA ClientRows ==
  ASSUME Typed, NEW v \in Views, RowFollows(v), Client(v)
  PROVE  RowFollows(v)'
<1> DEFINE s == pass.shard
<1>1. s \in Shards /\ s \in ViewShards[v]
  BY ClientWorks
<1>2. ~NoClientsOf(v) /\ ~NoClientsOf(v)'
  BY <1>1, ClientWorks, ClientStays DEF NoClientsOf, Page
<1>3. rows[v].status # "none" /\ UNCHANGED <<served, counts>>
  <2>1. UNCHANGED <<served, counts>>
    BY ClientElsewhere
  <2> QED
    BY <1>2, <2>1 DEF RowFollows, NoClientsOf
<1>4. CASE Marks(v)
  <2> DEFINE list == rows[v].synced
             l == Append(list, s)
  <2>1. list \in Seq(Shards) /\ rows'[v].synced = l
    BY <1>4 DEF Marks, Typed, TypeOK
  <2>2. Len(list) \in Nat /\ Len(l) = Len(list) + 1 /\ Range(l) = Range(list) \cup {s}
    BY <1>1, <2>1, MarkAdded
  <2>3. Cardinality(ViewShards[v]) \in Nat
    BY ViewShardsAssumption, ShardsAssumption, FS_Subset, FS_CardinalityType
  <2> HIDE DEF l, list
  <2>4. rows'[v].status = "SYNCED" \/ rows'[v].status = rows[v].status
    BY <1>4 DEF Marks
  <2>5. rows'[v].status # "none"
    BY <1>3, <2>4
  <2>6. Range(l) \subseteq ViewShards[v]
    BY <1>1, <2>2 DEF RowFollows, list
  <2>7. rows'[v].status \in {"SYNCED", "deleted"} => Len(l) >= Cardinality(ViewShards[v])
    <3>1. CASE AllSynced(v, l)
      BY <2>2, <2>3, <3>1 DEF AllSynced
    <3>2. CASE ~AllSynced(v, l)
      <4>1. rows'[v].status = rows[v].status
        BY <1>4, <2>1, <3>2 DEF Marks
      <4> QED
        BY <2>2, <2>3, <4>1 DEF RowFollows, list
    <3> QED
      BY <3>1, <3>2
  <2> QED
    BY <1>2, <1>3, <2>1, <2>5, <2>6, <2>7 DEF RowFollows, NoClientsOf
<1>5. CASE ~Marks(v)
  <2>1. rows'[v].synced = rows[v].synced /\ rows'[v].status = rows[v].status
    BY <1>5, ClientRow
  <2> QED
    BY <1>2, <1>3, <2>1 DEF RowFollows, NoClientsOf
<1> QED
  BY <1>4, <1>5

\* Starting a pass makes clients of rows that are SYNCING only.
LEMMA ClientsMade ==
  ASSUME Typed, StartPass, NEW v \in Views
  PROVE  \/ \A s \in Shards : clients'[<<v, s>>] = clients[<<v, s>>]
         \/ /\ NoClientsOf(v) /\ rows[v].status = "SYNCING"
            /\ \A s \in Shards : clients'[<<v, s>>] =
                 IF s \in ViewShards[v] THEN rows[v].page ELSE 0
<1>1. CASE NoClients /\ clients' = Constructed
  <2>1. NoClientsOf(v)
    BY <1>1 DEF NoClients, NoClientsOf
  <2>2. \A s \in Shards : clients'[<<v, s>>] =
          IF rows[v].status = "SYNCING" /\ s \in ViewShards[v] THEN rows[v].page ELSE 0
    BY <1>1 DEF Constructed
  <2> QED
    BY <2>1, <2>2 DEF NoClientsOf
<1>2. CASE clients' = clients
  BY <1>2
<1> QED
  BY <1>1, <1>2 DEF StartPass, KnownClients

LEMMA NextRows ==
  ASSUME Typed, NEW v \in Views, RowFollows(v), [Next]_vars
  PROVE  RowFollows(v)'
<1>1. CASE \E w \in Views : AddView(w)
  <2> PICK w \in Views : AddView(w)
    BY <1>1
  <2>1. /\ UNCHANGED <<clients, counts>> /\ served' = served \cup {w}
        /\ rows' = [rows EXCEPT ![w].status = "SYNCING"] /\ rows[w].status = "none"
    BY DEF AddView
  <2>2. CASE v = w
    <3>1. /\ rows'[v].status = "SYNCING" /\ rows'[v].page = rows[v].page
          /\ rows'[v].synced = rows[v].synced
      BY <2>1, <2>2 DEF Typed, TypeOK
    <3> QED
      BY <2>1, <2>2, <3>1 DEF RowFollows
  <2>3. CASE v # w
    <3>1. rows'[v] = rows[v]
      BY <2>1, <2>3 DEF Typed, TypeOK
    <3> QED
      BY <2>1, <3>1, SameRow DEF RowFollows, NoClientsOf
  <2> QED
    BY <2>2, <2>3
<1>2. CASE Request
  BY <1>2 DEF Request, RowFollows
<1>3. CASE StartPass
  <2>1. UNCHANGED <<rows, counts, served>>
    BY <1>3 DEF StartPass
  <2>2. /\ NoClientsOf(v)' => NoClientsOf(v)
        /\ rows[v].status = "none" => NoClientsOf(v)'
    BY <1>3, ClientsMade DEF NoClientsOf, RowFollows
  <2> QED
    BY <2>1, <2>2, SameRow
<1>4. CASE (\E s \in Shards : NextShard(s)) \/ EndShard \/ EndPass \/ Restart
            \/ \E w \in Views : AttemptFails(w)
  BY <1>4 DEF NextShard, EndShard, EndPass, Restart, AttemptFails, RowFollows
<1>5. CASE \E w \in Views : Client(w)
  <2> PICK w \in Views : Client(w)
    BY <1>5
  <2>1. CASE v = w
    BY <2>1, ClientRows
  <2>2. CASE v # w
    BY <2>2, ClientElsewhere, SameRow DEF NoClientsOf, RowFollows
  <2> QED
    BY <2>1, <2>2
<1>6. CASE \E w \in Views : DropSynced(w)
  <2> PICK w \in Views : DropSynced(w)
    BY <1>6
  <2>1. UNCHANGED <<clients, counts, served>> /\ rows[w].status = "SYNCED"
    BY DEF DropSynced, memory
  <2>2. CASE v = w
    <3>1. /\ rows'[v].status = "deleted" /\ rows'[v].page = rows[v].page
          /\ rows'[v].synced = rows[v].synced
      BY <2>2 DEF DropSynced, Typed, TypeOK
    <3> QED
      BY <2>1, <2>2, <3>1 DEF RowFollows
  <2>3. CASE v # w
    <3>1. rows'[v] = rows[v]
      BY <2>3 DEF DropSynced, Typed, TypeOK
    <3> QED
      BY <2>1, <3>1, SameRow DEF RowFollows, NoClientsOf
  <2> QED
    BY <2>2, <2>3
<1>7. CASE \E w \in Views : PeerDrops(w)
  <2> PICK w \in Views : PeerDrops(w)
    BY <1>7
  <2>1. UNCHANGED <<rows, clients, counts>>
    BY DEF PeerDrops, memory
  <2>2. v \in served /\ "expiry" \notin Faults[v] => v \in served'
    BY DEF PeerDrops
  <2> QED
    BY <2>1, <2>2 DEF RowFollows
<1>8. CASE Crash
  <2>1. UNCHANGED <<rows, served>> /\ counts'.crashes = counts.crashes + 1
    BY <1>8 DEF Crash, Typed, TypeOK
  <2>2. counts'.crashes # 0
    BY <2>1 DEF Typed, TypeOK
  <2>3. \A s \in Shards : clients'[<<v, s>>] = 0
    BY <1>8 DEF Crash
  <2> QED
    BY <2>1, <2>2, <2>3 DEF RowFollows
<1>9. CASE UNCHANGED vars
  BY <1>9 DEF vars, memory, RowFollows
<1> QED
  BY <1>1, <1>2, <1>3, <1>4, <1>5, <1>6, <1>7, <1>8, <1>9 DEF Next, Client

------------------------------------------------------------------------------
(* Blocks. *)

\* What BlocksFollow() says of the next state, with the state of the view there.
BlocksHold(v, own, row, hand, pc, s, blocks) ==
  /\ \A t \in Shards : Before(v, t, own[t]) \subseteq blocks
  /\ \A t \in Shards : ViewShards[v] = {t} => Before(v, t, row.page) \subseteq blocks
  /\ pc \in {"fetch", "store", "page"} => PageOf(v, s, own[s]) \subseteq blocks \cup hand
  /\ pc = "page" => hand = {}
  /\ pc = "mark" => BlocksOf(v, s) \subseteq blocks
  /\ \A t \in Range(row.synced) : BlocksOf(v, t) \subseteq blocks

OwnPages(v) == [s \in Shards |-> clients[<<v, s>>]]

LEMMA BlocksHere ==
  ASSUME NEW v \in Views,
         proc[v] \in {"fetch", "store", "page", "mark"} => pass.shard \in Shards
  PROVE  BlocksFollow(v) <=>
           BlocksHold(v, OwnPages(v), rows[v], batch[v], proc[v], pass.shard, stored)
BY DEF BlocksFollow, BlocksHold, OwnPages

LEMMA BlocksThere ==
  ASSUME NEW v \in Views,
         proc'[v] \in {"fetch", "store", "page", "mark"} => pass'.shard \in Shards,
         BlocksHold(v, OwnPages(v)', rows'[v], batch'[v], proc'[v], pass'.shard, stored')
  PROVE  BlocksFollow(v)'
BY DEF BlocksFollow, BlocksHold, OwnPages, Before, BlocksOf, PageOf, LinesOf, Rank

\* Steps that do not touch the client's page, its row's page and its marks, and that
\* leave it its work or none that depends on blocks.
LEMMA BlocksKept ==
  ASSUME Typed, NEW v \in Views, BlocksFollow(v), stored \subseteq stored',
         \A s \in Shards : clients'[<<v, s>>] = clients[<<v, s>>],
         rows'[v].page = rows[v].page, rows'[v].synced = rows[v].synced,
         \/ proc'[v] \in {"none", "open", "ask", "close"}
         \/ UNCHANGED <<proc[v], batch[v], pass>>
  PROVE  BlocksFollow(v)'
<1>1. proc[v] # "none" => pass.shard \in Shards
  BY WorkingShard
<1>2. OwnPages(v)' = OwnPages(v)
  BY DEF OwnPages
<1>3. BlocksHold(v, OwnPages(v), rows[v], batch[v], proc[v], pass.shard, stored)
  BY <1>1, BlocksHere
<1>4. BlocksHold(v, OwnPages(v)', rows'[v], batch'[v], proc'[v], pass'.shard, stored')
  BY <1>2, <1>3 DEF BlocksHold
<1> QED
  BY <1>1, <1>4, BlocksThere

\* A step of the client of a view keeps what is known of its blocks, if the peer answers
\* for what it has and handleBlock() stores what it is given.
LEMMA ClientBlocks ==
  ASSUME Typed, NEW v \in Views, Faithful(v), Resumable(v), RowFollows(v),
         BlocksFollow(v), Client(v)
  PROVE  BlocksFollow(v)'
<1> DEFINE s == pass.shard
           n == clients[<<v, s>>]
<1>1. s \in Shards /\ s \in ViewShards[v] /\ n \in Page /\ proc[v] # "none"
  BY ClientWorks
<1>2. proc \in [Views -> ClientPcs] /\ batch \in [Views -> SUBSET Blocks]
      /\ clients \in [Views \X Shards -> Nat]
  BY DEF Typed, TypeOK
<1>3. "store" \notin Faults[v] /\ "answer" \notin Faults[v] /\ "expiry" \notin Faults[v]
  BY DEF Faithful
<1>4. v \in served
  <2>1. rows[v].status # "none"
    BY <1>1 DEF RowFollows, Page
  <2> QED
    BY <1>3, <2>1 DEF RowFollows
<1>5. Before(v, s, n) \subseteq stored
  BY <1>1 DEF BlocksFollow
<1>6. UNCHANGED pass /\ stored \subseteq stored'
  BY ClientElsewhere
<1>7. CASE Open(v) \/ Close(v) \/ NextPage(v)
  <2> DEFINE m == clients'[<<v, s>>]
  <2>1. /\ UNCHANGED <<stored, batch>> /\ proc'[v] \in {"none", "ask"}
        /\ rows'[v].synced = rows[v].synced /\ rows'[v].page \in {rows[v].page, m}
    <3>1. ~Marks(v)
      BY <1>7 DEF Open, Close, NextPage, Marks, Mark
    <3>2. proc'[v] \in {"none", "ask"}
      BY <1>2, <1>7 DEF Open, Close, NextPage, Go
    <3> QED
      BY <1>7, <3>1, <3>2, ClientRow DEF Open, Close, NextPage
  <2>2. Before(v, s, m) \subseteq stored
    <3>1. CASE NextPage(v)
      <4>1. m = n + 1
        BY <1>1, <1>2, <3>1 DEF NextPage
      <4>2. PageOf(v, s, n) \subseteq stored
        BY <3>1 DEF NextPage, BlocksFollow
      <4> QED
        BY <1>1, <1>5, <4>1, <4>2, BeforeGrows
    <3>2. CASE ~NextPage(v)
      BY <1>5, <1>7, <3>2 DEF Open, Close
    <3> QED
      BY <3>1, <3>2
  <2>3. \A t \in Shards : t # s => clients'[<<v, t>>] = clients[<<v, t>>]
    BY <1>1, <1>2, <1>7 DEF Open, Close, NextPage
  <2>4. \A t \in Shards : Before(v, t, clients'[<<v, t>>]) \subseteq stored
    BY <2>2, <2>3 DEF BlocksFollow
  <2>5. \A t \in Shards : ViewShards[v] = {t} => Before(v, t, rows'[v].page) \subseteq stored
    <3> SUFFICES ASSUME NEW t \in Shards, ViewShards[v] = {t}
                 PROVE  Before(v, t, rows'[v].page) \subseteq stored
      OBVIOUS
    <3>1. t = s
      BY <1>1
    <3> HIDE DEF s, m
    <3> QED
      BY <2>1, <2>2, <3>1 DEF BlocksFollow
  <2> HIDE DEF m, s
  <2>6. \A t \in Range(rows'[v].synced) : BlocksOf(v, t) \subseteq stored
    BY <2>1 DEF BlocksFollow
  <2>7. BlocksHold(v, OwnPages(v)', rows'[v], batch'[v], proc'[v], pass'.shard, stored')
    BY <2>1, <2>4, <2>5, <2>6 DEF BlocksHold, OwnPages
  <2> QED
    BY <1>1, <1>6, <2>7, BlocksThere DEF s
<1>8. CASE Ask(v)
  <2>1. UNCHANGED <<rows, clients, stored>>
    BY <1>8 DEF Ask
  <2>2. \/ proc'[v] = "none"
        \/ /\ proc'[v] = AfterHashes(PageOf(v, s, n))
           /\ batch'[v] = PageOf(v, s, n)
    BY <1>2, <1>3, <1>4, <1>8 DEF Ask, Go, GiveUp
  <2>3. CASE proc'[v] = "none"
    BY <2>1, <2>3, BlocksKept
  <2>4. CASE proc'[v] = "fetch" /\ batch'[v] = PageOf(v, s, n)
    <3>1. BlocksHold(v, OwnPages(v), rows[v], batch[v], proc[v], s, stored)
      BY <1>1, BlocksHere
    <3>2. OwnPages(v)' = OwnPages(v) /\ OwnPages(v)[s] = n
      BY <1>1, <2>1 DEF OwnPages
    <3> HIDE DEF n
    <3>3. BlocksHold(v, OwnPages(v)', rows'[v], batch'[v], proc'[v], pass'.shard, stored')
      BY <1>6, <2>1, <2>4, <3>1, <3>2 DEF BlocksHold
    <3> QED
      BY <1>1, <1>6, <3>3, BlocksThere
  <2>5. CASE proc'[v] = "mark" /\ PageOf(v, s, n) = {}
    <3>1. BlocksHold(v, OwnPages(v), rows[v], batch[v], proc[v], s, stored)
      BY <1>1, BlocksHere
    <3>2. BlocksOf(v, s) \subseteq stored
      BY <1>1, <1>5, <2>5, EmptyPageAll
    <3>3. OwnPages(v)' = OwnPages(v)
      BY <2>1 DEF OwnPages
    <3>4. BlocksHold(v, OwnPages(v)', rows'[v], batch'[v], proc'[v], pass'.shard, stored')
      BY <1>6, <2>1, <2>5, <3>1, <3>2, <3>3 DEF BlocksHold
    <3> QED
      BY <1>1, <1>6, <3>4, BlocksThere
  <2> QED
    BY <2>2, <2>3, <2>4, <2>5 DEF AfterHashes
<1>9. CASE Fetch(v) \/ \E b \in Blocks : Store(v, b)
  <2>1. UNCHANGED <<rows, clients>>
    BY <1>9 DEF Fetch, Store
  <2>2. PageOf(v, s, n) \subseteq stored \cup batch[v]
    BY <1>9 DEF Fetch, Store, BlocksFollow
  <2>3. CASE proc'[v] = "none"
    BY <1>6, <2>1, <2>3, BlocksKept
  <2>4. CASE proc'[v] # "none"
    <3>1. /\ proc'[v] \in {"store", "page"} /\ (proc'[v] = "page" => batch'[v] = {})
          /\ batch[v] \subseteq stored' \cup batch'[v]
      <4>1. CASE Fetch(v)
        BY <1>2, <2>4, <4>1 DEF Fetch, Go, GiveUp, Missing
      <4>2. CASE \E b \in Blocks : Store(v, b)
        BY <1>2, <1>3, <4>2 DEF Store
      <4> QED
        BY <1>9, <4>1, <4>2
    <3>2. BlocksHold(v, OwnPages(v), rows[v], batch[v], proc[v], s, stored)
      BY <1>1, BlocksHere
    <3>3. OwnPages(v)' = OwnPages(v) /\ OwnPages(v)[s] = n
      BY <1>1, <2>1 DEF OwnPages
    <3> HIDE DEF n
    <3>4. BlocksHold(v, OwnPages(v)', rows'[v], batch'[v], proc'[v], pass'.shard, stored')
      BY <1>6, <2>1, <2>2, <3>1, <3>2, <3>3 DEF BlocksHold
    <3> QED
      BY <1>1, <1>6, <3>4, BlocksThere
  <2> QED
    BY <2>3, <2>4
<1>10. CASE Mark(v)
  <2>1. UNCHANGED <<clients, stored>> /\ proc'[v] \in {"close", "none"}
    BY <1>2, <1>10 DEF Mark, Go
  <2>2. rows'[v].page = rows[v].page
    BY <1>10, ClientRow DEF Marks, Mark, Typed, TypeOK
  <2>3. CASE Marks(v)
    <3>1. rows[v].synced \in Seq(Shards)
      BY DEF Typed, TypeOK
    <3>2. Range(rows'[v].synced) = Range(rows[v].synced) \cup {s}
      BY <1>1, <2>3, <3>1, MarkAdded DEF Marks
    <3>3. BlocksOf(v, s) \subseteq stored
      BY <1>10 DEF Mark, BlocksFollow
    <3>4. BlocksHold(v, OwnPages(v), rows[v], batch[v], proc[v], s, stored)
      BY <1>1, BlocksHere
    <3>5. OwnPages(v)' = OwnPages(v)
      BY <2>1 DEF OwnPages
    <3>6. BlocksHold(v, OwnPages(v)', rows'[v], batch'[v], proc'[v], pass'.shard, stored')
      BY <1>6, <2>1, <2>2, <3>2, <3>3, <3>4, <3>5 DEF BlocksHold
    <3> QED
      BY <1>1, <1>6, <3>6, BlocksThere
  <2>4. CASE ~Marks(v)
    <3>1. rows'[v].synced = rows[v].synced
      BY <2>4, ClientRow
    <3> QED
      BY <2>1, <2>2, <3>1, BlocksKept
  <2> QED
    BY <2>3, <2>4
<1> QED
  BY <1>7, <1>8, <1>9, <1>10 DEF Client

\* Crashes are only counted.
LEMMA CrashesGrow ==
  ASSUME Typed, [Next]_vars, counts'.crashes = 0
  PROVE  counts.crashes = 0
<1>1. counts'.crashes \in {counts.crashes, counts.crashes + 1} /\ counts.crashes \in Nat
  <2>1. CASE Crash
    BY <2>1 DEF Crash, Typed, TypeOK
  <2>2. CASE Request
    BY <2>2 DEF Request, Typed, TypeOK
  <2>3. CASE UNCHANGED counts
    BY <2>3 DEF Typed, TypeOK
  <2> QED
    BY <2>1, <2>2, <2>3 DEF Next, AddView, StartPass, NextShard, EndShard, EndPass, Open,
         AttemptFails, Ask, Fetch, Store, NextPage, Mark, Close, DropSynced, PeerDrops,
         Restart, vars
<1> QED
  BY <1>1

\* A view can be resumed only if it could be before.
LEMMA ResumableBefore ==
  ASSUME Typed, [Next]_vars, NEW v \in Views, Resumable(v)'
  PROVE  Resumable(v)
BY CrashesGrow DEF Resumable

LEMMA InitBlocks == ASSUME Init, NEW v \in Views PROVE BlocksFollow(v)
<1>1. rows[v].page = 1 /\ rows[v].synced = <<>> /\ proc[v] = "none"
  BY DEF Init
<1>2. \A s \in Shards : clients[<<v, s>>] = 0
  BY DEF Init
<1>3. Range(rows[v].synced) = {}
  BY <1>1 DEF Range
<1> QED
  BY <1>1, <1>2, <1>3, BeforeStart DEF BlocksFollow

\* Every step keeps what is known of the blocks of a view, as long as it is resumable.
LEMMA NextBlocks ==
  ASSUME Typed, NEW v \in Views, Faithful(v), Resumable(v), RowFollows(v),
         BlocksFollow(v), Resumable(v)', [Next]_vars
  PROVE  BlocksFollow(v)'
<1>1. rows \in [Views -> [status : {"none", "SYNCING", "SYNCED", "deleted"},
                          page : Page, synced : Seq(Shards)]]
  BY DEF Typed, TypeOK
<1>2. CASE \E w \in Views : AddView(w)
  BY <1>1, <1>2, BlocksKept DEF AddView
<1>3. CASE StartPass
  <2>1. proc'[v] = "none"
    BY <1>3 DEF StartPass, Typed, ClientsAtWork, Idle
  <2>2. UNCHANGED <<rows, stored, counts>>
    BY <1>3 DEF StartPass
  <2>3. CASE \A s \in Shards : clients'[<<v, s>>] = clients[<<v, s>>]
    BY <2>1, <2>2, <2>3, BlocksKept
  <2>4. CASE /\ NoClientsOf(v)
             /\ \A s \in Shards : clients'[<<v, s>>] =
                  IF s \in ViewShards[v] THEN rows[v].page ELSE 0
    <3>1. \A s \in ViewShards[v] : Before(v, s, rows[v].page) \subseteq stored
      <4>1. CASE counts.crashes = 0
        <5>1. rows[v].page = 1
          BY <2>4, <4>1 DEF RowFollows, NoClientsOf
        <5> QED
          BY <5>1, BeforeStart
      <4>2. CASE Cardinality(ViewShards[v]) = 1
        <5>1. IsFiniteSet(ViewShards[v]) /\ ViewShards[v] \subseteq Shards
          BY ViewShardsAssumption, ShardsAssumption, FS_Subset
        <5>2. PICK t : ViewShards[v] = {t}
          BY <4>2, <5>1, FS_Singleton
        <5> QED
          BY <5>1, <5>2 DEF BlocksFollow
      <4> QED
        BY <4>1, <4>2 DEF Resumable
    <3>2. \A s \in Shards : Before(v, s, clients'[<<v, s>>]) \subseteq stored
      BY <2>4, <3>1, BeforeStart
    <3>3. BlocksHold(v, OwnPages(v)', rows'[v], batch'[v], proc'[v], pass'.shard, stored')
      BY <2>1, <2>2, <3>2 DEF BlocksHold, BlocksFollow, OwnPages
    <3> QED
      BY <2>1, <3>3, BlocksThere
  <2> QED
    BY <1>3, <2>3, <2>4, ClientsMade
<1>4. CASE (\E s \in Shards : NextShard(s)) \/ EndShard \/ EndPass
  <2>1. proc'[v] \in {"none", "open"} /\ UNCHANGED <<rows, clients, stored>>
    BY <1>4 DEF NextShard, EndShard, EndPass, Typed, ClientsAtWork
  <2> QED
    BY <2>1, BlocksKept
<1>5. CASE \E w \in Views : Client(w)
  <2> PICK w \in Views : Client(w)
    BY <1>5
  <2>1. CASE v = w
    BY <2>1, ClientBlocks
  <2>2. CASE v # w
    BY <2>2, ClientElsewhere, BlocksKept
  <2> QED
    BY <2>1, <2>2
<1>6. CASE \E w \in Views : DropSynced(w)
  <2>1. /\ rows'[v].page = rows[v].page /\ rows'[v].synced = rows[v].synced
        /\ UNCHANGED <<clients, proc, batch, pass, stored>>
    BY <1>1, <1>6 DEF DropSynced, memory
  <2> QED
    BY <2>1, BlocksKept
<1>7. CASE Crash
  <2>1. UNCHANGED <<rows, stored>> /\ proc'[v] = "none"
    BY <1>7 DEF Crash
  <2>2. \A s \in Shards : clients'[<<v, s>>] = 0
    BY <1>7 DEF Crash
  <2>3. BlocksHold(v, OwnPages(v)', rows'[v], batch'[v], proc'[v], pass'.shard, stored')
    BY <2>1, <2>2, BeforeStart DEF BlocksHold, BlocksFollow, OwnPages
  <2> QED
    BY <2>1, <2>3, BlocksThere
<1>8. CASE \/ Request \/ Restart \/ UNCHANGED vars
           \/ \E w \in Views : AttemptFails(w) \/ PeerDrops(w)
  <2>1. UNCHANGED <<rows, clients, proc, batch, pass, stored>>
    BY <1>8 DEF Request, Restart, AttemptFails, PeerDrops, vars, memory
  <2> QED
    BY <2>1, BlocksKept
<1> QED
  BY <1>2, <1>3, <1>4, <1>5, <1>6, <1>7, <1>8 DEF Next, Client

\* The rows and blocks of one view, whatever becomes of the others.
ViewInv(v) == RowFollows(v) /\ (Faithful(v) /\ Resumable(v) => BlocksFollow(v))

LEMMA ViewInvariant == Spec => [](Typed /\ \A v \in Views : ViewInv(v))
<1> DEFINE Inv == Typed /\ \A v \in Views : ViewInv(v)
<1>1. Init => Inv
  BY InitTyped, InitRows, InitBlocks DEF ViewInv
<1>2. Inv /\ [Next]_vars => Inv'
  <2> SUFFICES ASSUME Inv, [Next]_vars PROVE Inv'
    OBVIOUS
  <2>1. Typed'
    BY NextTyped
  <2>2. ASSUME NEW v \in Views PROVE ViewInv(v)'
    <3>1. RowFollows(v)'
      BY NextRows DEF ViewInv
    <3>2. ASSUME Faithful(v), Resumable(v)' PROVE BlocksFollow(v)'
      BY <3>2, ResumableBefore, NextBlocks DEF ViewInv
    <3> QED
      BY <3>1, <3>2 DEF ViewInv, Faithful
  <2> QED
    BY <2>1, <2>2
<1> QED
  BY <1>1, <1>2, PTL DEF Spec

\* As many marks as shards, none of them twice, are all the shards.
LEMMA AllMarked ==
  ASSUME NEW v \in Views, NEW list \in Seq(Shards), Range(list) \subseteq ViewShards[v],
         Cardinality(Range(list)) >= Cardinality(ViewShards[v])
  PROVE  Range(list) = ViewShards[v]
<1>1. IsFiniteSet(ViewShards[v])
  BY ViewShardsAssumption, ShardsAssumption, FS_Subset
<1>2. /\ Cardinality(Range(list)) <= Cardinality(ViewShards[v])
      /\ Cardinality(ViewShards[v]) = Cardinality(Range(list)) => ViewShards[v] = Range(list)
      /\ IsFiniteSet(Range(list))
  BY <1>1, FS_Subset
<1>3. Cardinality(ViewShards[v]) \in Nat /\ Cardinality(Range(list)) \in Nat
  BY <1>1, <1>2, FS_CardinalityType
<1> QED
  BY <1>2, <1>3

------------------------------------------------------------------------------
(* Passes. *)

LEMMA InitPasses == Init => PassesFollow
<1> SUFFICES ASSUME Init PROVE PassesFollow
  OBVIOUS
<1>1. up /\ waiting = 0 /\ pass = Idle /\ counts = [requests |-> 0, crashes |-> 0]
  BY DEF Init
<1>2. \A c \in Views \X Shards : clients[c] = 0
  BY DEF Init
<1>3. counts.requests = 0
  BY <1>1
<1> QED
  BY <1>1, <1>2, <1>3 DEF PassesFollow, Idle

LEMMA NextPasses ==
  ASSUME Typed, PassesFollow, [Next]_vars
  PROVE  PassesFollow'
<1>1. /\ waiting \in Nat /\ counts.requests \in Nat /\ counts.crashes \in Nat
      /\ counts \in [{"requests", "crashes"} -> Nat]
  BY DEF Typed, TypeOK
<1>2. CASE Request
  <2>1. counts'.requests = counts.requests + 1 /\ counts'.crashes = counts.crashes
    BY <1>1, <1>2 DEF Request
  <2> QED
    BY <1>1, <1>2, <2>1 DEF Request, PassesFollow
<1>3. CASE StartPass
  <2>1. UNCHANGED <<up, counts>> /\ waiting' = waiting - 1 /\ pass = Idle
    BY <1>3 DEF StartPass
  <2>2. counts.crashes = 0 => waiting <= counts.requests /\ counts.requests # waiting'
    BY <1>1, <2>1 DEF PassesFollow
  <2>3. pass'.pc # "shard"
    BY <1>3 DEF StartPass, Idle
  <2> QED
    BY <1>1, <2>1, <2>2, <2>3 DEF PassesFollow
<1>4. CASE \E s \in Shards : NextShard(s)
  <2>1. /\ UNCHANGED <<up, waiting, clients, counts>> /\ pass # Idle
        /\ pass'.shard \notin pass'.todo
    BY <1>4 DEF NextShard, Idle
  <2> QED
    BY <1>1, <2>1 DEF PassesFollow
<1>5. CASE EndShard \/ EndPass
  <2>1. UNCHANGED <<up, waiting, clients, counts>> /\ pass # Idle /\ pass'.pc # "shard"
    BY <1>5 DEF EndShard, EndPass, Idle
  <2> QED
    BY <1>1, <2>1 DEF PassesFollow
<1>6. CASE \E v \in Views : Client(v)
  <2> PICK v \in Views : Client(v)
    BY <1>6
  <2>1. UNCHANGED <<up, waiting, pass, counts>>
    BY ClientElsewhere
  <2>2. <<v, pass.shard>> \in Views \X Shards /\ clients[<<v, pass.shard>>] # 0
    BY ClientWorks DEF Page
  <2> QED
    BY <2>1, <2>2 DEF PassesFollow
<1>7. CASE Crash
  <2>1. counts'.crashes = counts.crashes + 1 /\ pass' = Idle
    BY <1>1, <1>7 DEF Crash
  <2> QED
    BY <1>1, <2>1 DEF PassesFollow, Idle
<1>8. CASE Restart
  <2>1. counts.crashes # 0
    BY <1>8 DEF Restart, PassesFollow
  <2> QED
    BY <1>8, <2>1 DEF Restart, PassesFollow
<1>9. CASE UNCHANGED <<up, waiting, clients, pass, counts>>
  BY <1>9 DEF PassesFollow
<1> QED
  BY <1>2, <1>3, <1>4, <1>5, <1>6, <1>7, <1>8, <1>9 DEF Next, Client, AddView, AttemptFails,
     DropSynced, PeerDrops, vars, memory

------------------------------------------------------------------------------
(* Marks of the first round. *)

PollFollow(v) ==
  /\ FirstRound(v) => MarkedOnce(v)
  /\ Healthy(v) /\ ~NoClientsOf(v) => NoneLeft(v)
  /\ /\ counts.requests <= 1 \/ Healthy(v)
     /\ rows[v].status \in {"SYNCED", "deleted"}
     => Range(rows[v].synced) = ViewShards[v]

\* A list without repetition is as long as its range is large.
LEMMA InjectiveLen ==
  ASSUME NEW list \in Seq(Shards), IsInjective(list)
  PROVE  Cardinality(Range(list)) = Len(list)
<1> DEFINE k == Len(list)
<1>1. k \in Nat /\ DOMAIN list = 1..k /\ list \in [1..k -> Range(list)]
  BY DEF Range
<1>2. list \in Injection(1..k, Range(list))
  BY <1>1 DEF Injection
<1>3. list \in Surjection(1..k, Range(list))
  BY <1>1 DEF Surjection, Range
<1>4. ExistsBijection(1..k, Range(list))
  BY <1>2, <1>3 DEF Bijection, ExistsBijection
<1> HIDE DEF k
<1>5. Cardinality(Range(list)) = k
  BY <1>1, <1>4, FS_CountingElements
<1> QED
  BY <1>5 DEF k

\* Steps that add no mark and nothing to mark, and lose nothing of a healthy view.
LEMMA PollKept ==
  ASSUME Typed, NEW v \in Views, PollFollow(v),
         rows'[v].synced = rows[v].synced,
         rows'[v].status \in {"SYNCED", "deleted"} => rows[v].status \in {"SYNCED", "deleted"},
         counts'.requests \in Nat, counts.requests <= counts'.requests,
         \A s \in Shards : clients'[<<v, s>>] # 0 <=> clients[<<v, s>>] # 0,
         ToMark(v)' \subseteq ToMark(v),
         Healthy(v) /\ NoneLeft(v) => ViewShards[v] \subseteq Range(rows[v].synced) \cup ToMark(v)'
  PROVE  PollFollow(v)'
<1>1. counts.requests \in Nat /\ ViewShards[v] \subseteq Shards
  BY ViewShardsAssumption DEF Typed, TypeOK
<1>2. counts'.requests <= 1 => counts.requests <= 1
  BY <1>1
<1>3. FirstRound(v)' => FirstRound(v)
  BY <1>2 DEF FirstRound, Healthy
<1>4. MarkedOnce(v) => MarkedOnce(v)'
  BY DEF MarkedOnce
<1>5. ~NoClientsOf(v)' => ~NoClientsOf(v)
  BY DEF NoClientsOf
<1>6. Healthy(v) /\ NoneLeft(v) => NoneLeft(v)'
  BY <1>1 DEF NoneLeft
<1> QED
  BY <1>2, <1>3, <1>4, <1>5, <1>6 DEF PollFollow, Healthy

\* A step of a client of the view.
LEMMA ClientPoll ==
  ASSUME Typed, NEW v \in Views, RowFollows(v), PassesFollow, PollFollow(v), Client(v)
  PROVE  PollFollow(v)'
<1> DEFINE s == pass.shard
           list == rows[v].synced
<1>1. /\ s \in Shards /\ s \in ViewShards[v] /\ pass.pc = "shard" /\ pass # Idle
      /\ clients[<<v, s>>] # 0 /\ s \notin pass.todo
  BY ClientWorks DEF Page, Idle, PassesFollow
<1>2. list \in Seq(Shards) /\ proc \in [Views -> ClientPcs]
      /\ batch \in [Views -> SUBSET Blocks] /\ counts.requests \in Nat
  BY DEF Typed, TypeOK
<1>3. UNCHANGED <<pass, served, counts>>
  BY ClientElsewhere
<1>4. ~NoClientsOf(v) /\ rows[v].status # "none"
  BY <1>1 DEF NoClientsOf, RowFollows
<1>5. \A t \in Shards : clients'[<<v, t>>] # 0 <=> clients[<<v, t>>] # 0
  BY ClientStays
<1>6. CASE Marks(v)
  <2> DEFINE l == Append(list, s)
  <2>1. rows'[v].synced = l /\ Range(l) = Range(list) \cup {s} /\ l \in Seq(Shards)
        /\ (IsInjective(list) /\ s \notin Range(list) => IsInjective(l))
    BY <1>1, <1>2, <1>6, MarkAdded DEF Marks
  <2>2. proc[v] = "mark" /\ proc'[v] = "close"
    BY <1>6 DEF Marks, Mark
  <2>3. ToMark(v) = pass.todo \cup {s} /\ ToMark(v)' = pass.todo
    BY <1>1, <1>3, <2>2 DEF ToMark
  <2> HIDE DEF l
  <2>4. FirstRound(v)' => FirstRound(v)
    BY <1>3, <2>1 DEF FirstRound, Healthy
  <2>5. MarkedOnce(v) => s \notin Range(list) /\ IsInjective(l) /\ MarkedOnce(v)'
    BY <1>1, <2>1, <2>3 DEF MarkedOnce
  <2>6. NoneLeft(v) => NoneLeft(v)'
    BY <1>5, <2>1, <2>3, ViewShardsAssumption DEF NoneLeft
  <2>7. ASSUME counts.requests <= 1 \/ Healthy(v), rows'[v].status \in {"SYNCED", "deleted"}
        PROVE  Range(l) = ViewShards[v]
    <3>1. Range(l) \subseteq ViewShards[v]
      BY <1>1, <2>1 DEF RowFollows
    <3>2. CASE ViewShards[v] \subseteq Range(list)
      BY <2>1, <3>1, <3>2
    <3>3. CASE ~(ViewShards[v] \subseteq Range(list))
      <4>1. FirstRound(v)
        BY <2>7, <3>3 DEF FirstRound
      <4>2. IsInjective(l)
        BY <2>5, <4>1 DEF PollFollow
      <4>3. rows[v].status \notin {"SYNCED", "deleted"}
        BY <2>7, <3>3 DEF PollFollow
      <4>4. AllSynced(v, l)
        BY <1>6, <2>1, <2>7, <4>3 DEF Marks
      <4>5. Cardinality(Range(l)) = Cardinality(ViewShards[v])
        BY <2>1, <4>2, <4>4, InjectiveLen DEF AllSynced
      <4>6. IsFiniteSet(ViewShards[v])
        BY ViewShardsAssumption, ShardsAssumption, FS_Subset
      <4> QED
        BY <3>1, <4>5, <4>6, FS_Subset
    <3> QED
      BY <3>2, <3>3
  <2> QED
    BY <1>3, <1>4, <2>1, <2>4, <2>5, <2>6, <2>7 DEF PollFollow, Healthy
<1>7. CASE ~Marks(v)
  <2>1. rows'[v].synced = list /\ rows'[v].status = rows[v].status
    BY <1>7, ClientRow
  <2>2. proc'[v] \in {"none", "close"} \/ proc[v] \notin {"none", "close"}
    BY <1>2 DEF Client, Open, Ask, Fetch, Store, NextPage, Mark, Close, Go, GiveUp
  <2>3. ToMark(v)' \subseteq ToMark(v)
    BY <1>1, <1>3, <2>2 DEF ToMark
  <2>4. ASSUME Healthy(v), NoneLeft(v)
        PROVE  ViewShards[v] \subseteq Range(list) \cup ToMark(v)'
    <3>1. v \in served /\ Faults[v] \subseteq {"flaky"}
      BY <1>4, <2>4 DEF Healthy, RowFollows
    <3>2. CASE Mark(v)
      <4>1. ~Present(v)
        BY <1>7, <3>1, <3>2, ClientRow
      <4>2. rows[v].status \in {"none", "SYNCING", "SYNCED", "deleted"}
        BY DEF Typed, TypeOK
      <4>3. rows[v].status = "deleted"
        BY <1>4, <4>1, <4>2 DEF Present
      <4> QED
        BY <2>4, <4>3 DEF PollFollow
    <3>3. CASE Close(v)
      <4>1. ToMark(v)' = ToMark(v)
        BY <1>1, <1>2, <1>3, <3>3 DEF ToMark, Close, Go
      <4> QED
        BY <2>4, <4>1 DEF NoneLeft
    <3>4. CASE ~Mark(v) /\ ~Close(v)
      <4>1. proc'[v] \notin {"none", "close"}
        BY <1>2, <3>1, <3>4 DEF Client, Open, Ask, Fetch, Store, NextPage, Go, GiveUp, AfterHashes
      <4>2. ToMark(v)' = pass.todo \cup {s}
        BY <1>1, <1>3, <4>1 DEF ToMark
      <4>3. ToMark(v) \subseteq pass.todo \cup {s}
        BY <1>1 DEF ToMark
      <4> QED
        BY <2>4, <4>2, <4>3 DEF NoneLeft
    <3> QED
      BY <3>2, <3>3, <3>4
  <2> QED
    BY <1>2, <1>3, <1>5, <2>1, <2>3, <2>4, PollKept
<1> QED
  BY <1>6, <1>7

LEMMA NextPoll ==
  ASSUME Typed, NEW v \in Views, RowFollows(v), PassesFollow, PollFollow(v),
         counts.crashes = 0, counts'.crashes = 0, [Next]_vars
  PROVE  PollFollow(v)'
<1>1. /\ rows \in [Views -> [status : {"none", "SYNCING", "SYNCED", "deleted"},
                             page : Page, synced : Seq(Shards)]]
      /\ counts \in [{"requests", "crashes"} -> Nat] /\ counts.requests \in Nat
      /\ waiting \in Nat
  BY DEF Typed, TypeOK
<1>2. CASE \E w \in Views : AddView(w)
  <2>1. /\ rows'[v].synced = rows[v].synced
        /\ rows'[v].status \in {rows[v].status, "SYNCING"}
    BY <1>1, <1>2 DEF AddView
  <2>2. UNCHANGED <<clients, counts>> /\ ToMark(v)' = ToMark(v)
    BY <1>2 DEF AddView, ToMark
  <2> QED
    BY <1>1, <2>1, <2>2, PollKept DEF NoneLeft
<1>3. CASE Request
  <2>1. counts'.requests = counts.requests + 1
    BY <1>1, <1>3 DEF Request
  <2>2. UNCHANGED <<rows, clients>> /\ ToMark(v)' = ToMark(v)
    BY <1>3 DEF Request, ToMark
  <2>3. counts'.requests \in Nat /\ counts.requests <= counts'.requests
    BY <1>1, <2>1
  <2> QED
    BY <2>2, <2>3, PollKept DEF NoneLeft
<1>4. CASE StartPass
  <2>1. UNCHANGED <<rows, proc, counts>> /\ pass = Idle /\ waiting > 0
    BY <1>4 DEF StartPass
  <2>2. ToMark(v) = {} /\ pass'.pc # "shard"
    BY <1>4, <2>1 DEF ToMark, StartPass, Idle
  <2>3. NoClientsOf(v) => rows[v].synced = <<>>
    BY DEF RowFollows, NoClientsOf
  <2>4. counts.requests <= 1 => NoClientsOf(v)
    <3>1. counts.requests <= 1 => counts.requests = waiting
      BY <1>1, <2>1 DEF PassesFollow
    <3> QED
      BY <3>1 DEF PassesFollow, NoClientsOf
  <2>5. IsInjective(<<>>) /\ Range(<<>>) = {}
    BY DEF IsInjective, Range
  <2>6. FirstRound(v)' => NoClientsOf(v)
    <3>1. ASSUME Healthy(v), ~NoClientsOf(v) PROVE ViewShards[v] \subseteq Range(rows[v].synced)
      BY <2>2, <3>1 DEF PollFollow, NoneLeft
    <3> QED
      BY <2>1, <2>4, <3>1 DEF FirstRound, Healthy
  <2>7. FirstRound(v)' => MarkedOnce(v)'
    BY <2>1, <2>3, <2>5, <2>6 DEF MarkedOnce
  <2>8. ASSUME Healthy(v), ~NoClientsOf(v)' PROVE NoneLeft(v)'
    <3>1. CASE \A s \in Shards : clients'[<<v, s>>] = clients[<<v, s>>]
      <4>1. NoneLeft(v)
        BY <2>8, <3>1 DEF PollFollow, NoClientsOf
      <4>2. ViewShards[v] \subseteq Shards
        BY ViewShardsAssumption
      <4> QED
        BY <2>1, <2>2, <3>1, <4>1, <4>2 DEF NoneLeft
    <3>2. CASE /\ rows[v].status = "SYNCING"
               /\ \A s \in Shards : clients'[<<v, s>>] =
                    IF s \in ViewShards[v] THEN rows[v].page ELSE 0
      <4>1. ViewShards[v] \subseteq Shards /\ rows[v].page # 0
        BY <1>1, ViewShardsAssumption DEF Page
      <4>2. \A s \in ViewShards[v] : clients'[<<v, s>>] # 0
        BY <3>2, <4>1
      <4>3. \/ pass' = [pc |-> "next",
                        todo |-> {s \in Shards : \E w \in Views : clients'[<<w, s>>] # 0}]
            \/ clients' = clients
        BY <1>4 DEF StartPass
      <4>4. CASE clients' = clients
        <5>1. NoneLeft(v)
          BY <2>8, <4>4 DEF PollFollow, NoClientsOf
        <5> QED
          BY <2>1, <2>2, <4>2, <5>1 DEF NoneLeft
      <4>5. CASE pass' = [pc |-> "next",
                          todo |-> {s \in Shards : \E w \in Views : clients'[<<w, s>>] # 0}]
        <5>1. pass' # Idle /\ ViewShards[v] \subseteq pass'.todo
          BY <4>1, <4>2, <4>5 DEF Idle
        <5> QED
          BY <4>2, <5>1 DEF NoneLeft, ToMark
      <4> QED
        BY <4>3, <4>4, <4>5
    <3> QED
      BY <1>4, <3>1, <3>2, ClientsMade
  <2> QED
    BY <2>1, <2>7, <2>8 DEF PollFollow, Healthy
<1>5. CASE \E s \in Shards : NextShard(s)
  <2> PICK s \in Shards : NextShard(s)
    BY <1>5
  <2>1. UNCHANGED <<rows, clients, counts>> /\ pass.pc = "next" /\ s \in pass.todo
        /\ pass' = [pc |-> "shard", todo |-> pass.todo \ {s}, shard |-> s]
        /\ proc'[v] = IF clients[<<v, s>>] # 0 THEN "open" ELSE "none"
    BY DEF NextShard
  <2>2. ToMark(v) = pass.todo
    BY <2>1 DEF ToMark, Idle
  <2>3. pass' # Idle /\ pass'.pc = "shard" /\ pass'.shard = s /\ pass'.todo = pass.todo \ {s}
    BY <2>1 DEF Idle
  <2>4. ToMark(v)' = IF clients[<<v, s>>] # 0 THEN pass.todo ELSE pass.todo \ {s}
    BY <2>1, <2>3 DEF ToMark
  <2>5. NoneLeft(v) => ViewShards[v] \subseteq Range(rows[v].synced) \cup ToMark(v)'
    BY <2>2, <2>4 DEF NoneLeft
  <2>6. ToMark(v)' \subseteq ToMark(v)
    BY <2>2, <2>4
  <2>7. UNCHANGED <<rows, clients, counts>>
    BY <2>1
  <2> QED
    BY <1>1, <2>5, <2>6, <2>7, PollKept
<1>6. CASE EndShard \/ EndPass
  <2>1. UNCHANGED <<rows, clients, proc, counts>> /\ proc[v] = "none"
    BY <1>6 DEF EndShard, EndPass, Typed, ClientsAtWork
  <2>2. ToMark(v)' = ToMark(v)
    BY <1>6, <2>1 DEF EndShard, EndPass, ToMark, Idle
  <2> QED
    BY <1>1, <2>1, <2>2, PollKept DEF NoneLeft
<1>7. CASE \E w \in Views : Client(w)
  <2> PICK w \in Views : Client(w)
    BY <1>7
  <2>1. CASE v = w
    BY <2>1, ClientPoll
  <2>2. CASE v # w
    <3>1. /\ rows'[v] = rows[v] /\ UNCHANGED counts
          /\ \A s \in Shards : clients'[<<v, s>>] = clients[<<v, s>>]
          /\ UNCHANGED <<pass, proc[v]>>
      BY <2>2, ClientElsewhere
    <3>2. ToMark(v)' = ToMark(v)
      BY <3>1 DEF ToMark
    <3> QED
      BY <1>1, <3>1, <3>2, PollKept DEF NoneLeft
  <2> QED
    BY <2>1, <2>2
<1>8. CASE \E w \in Views : DropSynced(w)
  <2> PICK w \in Views : DropSynced(w)
    BY <1>8
  <2>1. /\ rows'[v].synced = rows[v].synced
        /\ rows'[v].status = rows[v].status \/ rows[v].status = "SYNCED"
    BY <1>1 DEF DropSynced
  <2>2. UNCHANGED <<clients, counts>> /\ ToMark(v)' = ToMark(v)
    BY DEF DropSynced, memory, ToMark
  <2> QED
    BY <1>1, <2>1, <2>2, PollKept DEF NoneLeft
<1>9. CASE \/ Restart \/ UNCHANGED vars
           \/ \E w \in Views : AttemptFails(w) \/ PeerDrops(w)
  <2>1. UNCHANGED <<rows, clients, counts, pass, proc>>
    BY <1>9 DEF Restart, AttemptFails, PeerDrops, vars, memory
  <2>2. ToMark(v)' = ToMark(v)
    BY <2>1 DEF ToMark
  <2> QED
    BY <1>1, <2>1, <2>2, PollKept DEF NoneLeft
<1>10. CASE Crash
  <2>1. counts'.crashes = counts.crashes + 1
    BY <1>1, <1>10 DEF Crash
  <2> QED
    BY <2>1
<1> QED
  BY <1>2, <1>3, <1>4, <1>5, <1>6, <1>7, <1>8, <1>9, <1>10 DEF Next, Client

LEMMA InitPoll == ASSUME Init, NEW v \in Views PROVE PollFollow(v)
<1>1. rows[v].synced = <<>> /\ rows[v].status = "none"
  BY DEF Init
<1>2. NoClientsOf(v) /\ ToMark(v) = {}
  BY DEF Init, NoClientsOf, ToMark, Idle
<1>3. IsInjective(<<>>)
  BY DEF IsInjective
<1> QED
  BY <1>1, <1>2, <1>3 DEF PollFollow, MarkedOnce

------------------------------------------------------------------------------
\* What storage_sync_info, the clients and the blocks table say of each other holds in
\* every state, whatever fails: MarkInv, the inductive invariant of the theorems below.
THEOREM MarkInvariant == Spec => []MarkInv
<1>1. Typed /\ (\A v \in Views : ViewInv(v)) => MarkInv
  BY DEF Typed, ViewInv, MarkInv
<1> QED
  BY <1>1, ViewInvariant, PTL

\* A shard is noted as synced by updateAlreadySyncedShards() only when every block of the
\* view on it is stored, in a sync whose calls fail, whose process crashes and whose
\* clients are polled again: as long as peers answer for what they have and handleBlock()
\* stores it, and the page a restart resumes from belongs to one shard.
THEOREM MarksAreStored ==
  ASSUME \A v \in Views : Faithful(v)
  PROVE  Spec => []MarkedIsStored
<1>1. MarkInv => MarkedIsStored
  BY DEF MarkInv, BlocksFollow, MarkedIsStored
<1> QED
  BY <1>1, MarkInvariant, PTL

\* Under the same conditions a SYNCED view, which is about to be forgotten, has its blocks
\* stored, unless a shard was noted twice.
THEOREM SyncedAreStored ==
  ASSUME \A v \in Views : Faithful(v)
  PROVE  Spec => []SyncedIfResumable
<1>1. MarkInv => SyncedIfResumable
  <2> SUFFICES ASSUME MarkInv, NEW v \in Views, Resumable(v),
                      Len(rows[v].synced) = Cardinality(Range(rows[v].synced)),
                      rows[v].status \in {"SYNCED", "deleted"},
                      NEW s \in ViewShards[v]
               PROVE  BlocksOf(v, s) \subseteq stored
    BY DEF SyncedIfResumable
  <2>1. rows[v].synced \in Seq(Shards) /\ RowFollows(v) /\ BlocksFollow(v)
    BY DEF MarkInv, TypeOK
  <2>2. Range(rows[v].synced) = ViewShards[v]
    BY <2>1, AllMarked DEF RowFollows
  <2> QED
    BY <2>1, <2>2 DEF BlocksFollow
<1> QED
  BY <1>1, MarkInvariant, PTL

\* The passes, the marks they still have to make and those that are made hold together in
\* every state of a process that has not crashed: PollInv.
THEOREM PollInvariant == Spec => []PollInv
<1> DEFINE Inv == /\ Typed /\ PassesFollow /\ \A v \in Views : RowFollows(v)
                  /\ counts.crashes = 0 => \A v \in Views : PollFollow(v)
<1>1. Init => Inv
  BY InitTyped, InitPasses, InitRows, InitPoll
<1>2. Inv /\ [Next]_vars => Inv'
  <2> SUFFICES ASSUME Inv, [Next]_vars PROVE Inv'
    OBVIOUS
  <2>1. Typed' /\ PassesFollow' /\ \A v \in Views : RowFollows(v)'
    BY NextTyped, NextPasses, NextRows
  <2>2. counts'.crashes = 0 => counts.crashes = 0
    BY CrashesGrow
  <2>3. counts'.crashes = 0 => \A v \in Views : PollFollow(v)'
    BY <2>2, NextPoll
  <2> QED
    BY <2>1, <2>3
<1>3. Inv => PollInv
  BY DEF Typed, PollFollow, NoClientsOf, PollInv, SyncedIsPolled
<1> QED
  BY <1>1, <1>2, <1>3, PTL DEF Spec

\* updateAlreadySyncedShards() counts marks, and not shards; still a view is SYNCED only
\* after each of its shards was worked through, in the first pass of a process whatever
\* fails in it, and in any pass if no call fails.
THEOREM SyncedArePolled == Spec => []SyncedIsPolled
<1>1. PollInv => SyncedIsPolled
  BY DEF PollInv
<1> QED
  BY <1>1, PollInvariant, PTL

\* A process that does not crash makes a view SYNCED, for dropSyncedTables() to forget it,
\* only when all its blocks are stored, if nothing fails in the sync of this view; the
\* other views may be in any trouble, and reshards may add views and passes at any time.
THEOREM HealthySyncIsStored ==
  ASSUME MaxCrashes = 0
  PROVE  Spec => []SyncedMeansStored
<1> DEFINE NoCrash == counts \in [{"requests", "crashes"} -> Nat] /\ counts.crashes = 0
<1>1. Init => NoCrash
  <2> SUFFICES ASSUME Init PROVE NoCrash
    OBVIOUS
  <2>1. counts = [requests |-> 0, crashes |-> 0]
    BY DEF Init
  <2>2. Typed
    BY InitTyped
  <2> QED
    BY <2>1, <2>2 DEF Typed, TypeOK
<1>2. Typed /\ NoCrash /\ [Next]_vars => NoCrash'
  <2> SUFFICES ASSUME Typed, NoCrash, [Next]_vars PROVE NoCrash'
    OBVIOUS
  <2>1. ~Crash
    BY DEF Crash
  <2>2. counts'.crashes = 0
    <3>1. CASE Request
      BY <3>1 DEF Request
    <3>2. CASE UNCHANGED counts
      BY <3>2
    <3> QED
      BY <2>1, <3>1, <3>2 DEF Next, AddView, StartPass, NextShard, EndShard, EndPass, Open,
           AttemptFails, Ask, Fetch, Store, NextPage, Mark, Close, DropSynced, PeerDrops,
           Restart, vars
  <2>3. Typed'
    BY NextTyped
  <2> QED
    BY <2>2, <2>3 DEF Typed, TypeOK
<1>3. MarkInv /\ PollInv /\ NoCrash => SyncedMeansStored
  <2> SUFFICES ASSUME MarkInv, PollInv, NoCrash, NEW v \in Views, Healthy(v),
                      rows[v].status \in {"SYNCED", "deleted"}, NEW s \in ViewShards[v]
               PROVE  BlocksOf(v, s) \subseteq stored
    BY DEF SyncedMeansStored
  <2>1. Faithful(v) /\ Resumable(v)
    BY DEF Healthy, Faithful, Resumable
  <2>2. Range(rows[v].synced) = ViewShards[v]
    BY DEF PollInv, SyncedIsPolled
  <2> QED
    BY <2>1, <2>2 DEF MarkInv, BlocksFollow
<1>4. Init => Typed
  BY InitTyped
<1>5. Typed /\ [Next]_vars => Typed'
  BY NextTyped
<1> HIDE DEF NoCrash
<1> QED
  BY <1>1, <1>2, <1>3, <1>4, <1>5, MarkInvariant, PollInvariant, PTL DEF Spec
==============================================================================
