----------------------------- MODULE InboxProofs -----------------------------
(***************************************************************************)
(* Proofs about Inbox: its types, that a linked wallet is found whatever   *)
(* overlaps or fails, that keys and wallets agree otherwise, and that      *)
(* reading page by page is exact.                                          *)
(***************************************************************************)
EXTENDS Inbox, TLAPS, FiniteSetTheorems, WellFoundedInduction

Orders == {"ASC", "DESC"}

LEMMA NowIsNat == NowRounded \in Nat
  BY InboxAssumption DEF NowRounded

LEMMA TypeInit == Init => TypeOK
  <1> SUFFICES ASSUME Init PROVE TypeOK
    OBVIOUS
  <1>1. ReadingOK
    BY DEF Init, ReadingOK
  <1>2. \A b \in Blocks : JobOK(b)
    BY DEF Init, JobOK, Running
  <1>3. 0 \in 0..MaxErrors /\ 0 \in 0..MaxRuns
    BY InboxAssumption
  <1> QED BY <1>1, <1>2, <1>3 DEF Init, TypeOK

\* A job at the row of an inbox, or at the end.
LEMMA NextTargetOK ==
  ASSUME TypeOK, NEW b \in Blocks, Running(b)
  PROVE  LET next == NextTarget(jobs[b], b) IN
         /\ next \in [pc : {"row", "done"}, at : Nat, runs : 1..MaxRuns]
         /\ next.pc = "row" => next.at \in 1..Len(Targets[Tx(b)])
  <1>1. /\ jobs[b] \in [pc : {"idle", "row", "keys", "wallets", "done"}, at : Nat,
                        runs : 0..MaxRuns]
        /\ jobs[b].at \in 1..Len(Targets[Tx(b)]) /\ jobs[b].runs \in 1..MaxRuns
    BY DEF TypeOK, JobOK
  <1>2. Len(Targets[Tx(b)]) \in Nat
    BY InboxAssumption DEF Tx
  <1>3. CASE jobs[b].at < Len(Targets[Tx(b)])
    <2>1. NextTarget(jobs[b], b) = [jobs[b] EXCEPT !.pc = "row", !.at = @ + 1]
      BY <1>3 DEF NextTarget
    <2>2. jobs[b].at + 1 \in 1..Len(Targets[Tx(b)]) /\ jobs[b].at + 1 \in Nat
      BY <1>1, <1>2, <1>3
    <2> QED BY <1>1, <2>1, <2>2
  <1>4. CASE ~(jobs[b].at < Len(Targets[Tx(b)]))
    <2>1. NextTarget(jobs[b], b) = [jobs[b] EXCEPT !.pc = "done"]
      BY <1>4 DEF NextTarget
    <2> QED BY <1>1, <2>1
  <1> QED BY <1>3, <1>4

\* Counting shows that a finite set has elements that nothing relates to.
LEMMA MinimalExists ==
  ASSUME NEW S, IsFiniteSet(S), S # {}, NEW R,
         \A x, y, z \in S : <<x, y>> \in R /\ <<y, z>> \in R => <<x, z>> \in R,
         \A x \in S : <<x, x>> \notin R
  PROVE  \E x \in S : \A y \in S : <<y, x>> \notin R
  <1> DEFINE below == [x \in S |-> {y \in S : <<y, x>> \in R}]
             count == [x \in S |-> Cardinality(below[x])]
             counts == {count[x] : x \in S}
  <1>1. \A x \in S : below[x] \in SUBSET S
    OBVIOUS
  <1>2. \A x, y \in S : y \in below[x] <=> <<y, x>> \in R
    OBVIOUS
  <1> HIDE DEF below
  <1>3. \A x \in S : IsFiniteSet(below[x]) /\ count[x] \in Nat
    BY <1>1, FS_Subset, FS_CardinalityType
  <1>4. \E n \in counts : \A m \in counts : <<m, n>> \notin OpToRel(<, Nat)
    <2> HIDE DEF count
    <2>1. counts \subseteq Nat /\ counts # {}
      BY <1>3
    <2> HIDE DEF counts
    <2> QED BY <2>1, NatLessThanWellFounded, WFMin
  <1>5. PICK x \in S : \A y \in S : ~(count[y] < count[x])
    <2> HIDE DEF count
    <2>1. \A m, n \in Nat : m < n => <<m, n>> \in OpToRel(<, Nat)
      BY DEF OpToRel
    <2>2. PICK x \in S : \A m \in counts : <<m, count[x]>> \notin OpToRel(<, Nat)
      BY <1>4
    <2>3. ASSUME NEW y \in S, count[y] < count[x] PROVE FALSE
      BY <1>3, <2>1, <2>2, <2>3
    <2> QED BY <2>3
  <1>6. ASSUME NEW y \in S, <<y, x>> \in R PROVE FALSE
    <2>1. below[y] \in SUBSET below[x] /\ y \in below[x] /\ y \notin below[y]
      BY <1>1, <1>2, <1>6
    <2>2. /\ Cardinality(below[y]) <= Cardinality(below[x])
          /\ Cardinality(below[x]) # Cardinality(below[y])
      BY <1>3, <2>1, FS_Subset
    <2>3. count[y] <= count[x] /\ count[y] # count[x]
      BY <2>2
    <2>4. count[x] \in Nat /\ count[y] \in Nat /\ ~(count[y] < count[x])
      BY <1>3, <1>5
    <2> HIDE DEF count
    <2> QED BY <2>3, <2>4
  <1> QED BY <1>6

LEMMA FirstExists ==
  ASSUME TypeOK, NEW S \in SUBSET Txs, S # {}, NEW sort \in Orders
  PROVE  \E tx \in S : \A other \in S : ~Before(other, tx, sort)
  <1> DEFINE R == {p \in S \X S : Before(p[1], p[2], sort)}
  <1>1. IsFiniteSet(S)
    BY InboxAssumption, FS_Subset
  <1>2. \A tx \in S : Ts(tx) \in Nat
    BY InboxAssumption DEF TypeOK, Ts
  <1>3. \A x, y, z \in S : <<x, y>> \in R /\ <<y, z>> \in R => <<x, z>> \in R
    BY <1>2 DEF Before
  <1>4. \A x \in S : <<x, x>> \notin R
    BY <1>2 DEF Before
  <1>5. \E tx \in S : \A other \in S : <<other, tx>> \notin R
    <2> HIDE DEF R
    <2> QED BY <1>1, <1>3, <1>4, MinimalExists
  <1> QED BY <1>5

LEMMA LastOK ==
  ASSUME TypeOK, NEW S \in SUBSET Txs, S # {}, NEW sort \in Orders
  PROVE  Last(S, sort) \in S /\ \A other \in S : ~Before(Last(S, sort), other, sort)
  <1> DEFINE R == {p \in S \X S : Before(p[2], p[1], sort)}
  <1>1. IsFiniteSet(S)
    BY InboxAssumption, FS_Subset
  <1>2. \A tx \in S : Ts(tx) \in Nat
    BY InboxAssumption DEF TypeOK, Ts
  <1>3. \A x, y, z \in S : <<x, y>> \in R /\ <<y, z>> \in R => <<x, z>> \in R
    BY <1>2 DEF Before
  <1>4. \A x \in S : <<x, x>> \notin R
    BY <1>2 DEF Before
  <1>5. \E tx \in S : \A other \in S : <<other, tx>> \notin R
    <2> HIDE DEF R
    <2> QED BY <1>1, <1>3, <1>4, MinimalExists
  <1>6. \E tx \in S : \A other \in S : ~Before(tx, other, sort)
    BY <1>5
  <1> QED BY <1>6 DEF Last

LEMMA PageOK ==
  ASSUME NEW from, NEW sort PROVE Page(from, sort) \in SUBSET Txs
  BY DEF Page

\* The upsert of a running job keeps the table's type and the rows that are there.
LEMMA RowsAfterOK ==
  ASSUME TypeOK, NEW b \in Blocks, Running(b)
  PROVE  /\ RowsAfter(b) \in [Txs \X Wallets -> Nat]
         /\ \A row \in Txs \X Wallets : rows[row] # 0 => RowsAfter(b)[row] = rows[row]
  <1> DEFINE row == <<Tx(b), Targets[Tx(b)][jobs[b].at]>>
  <1>1. row \in Txs \X Wallets
    BY InboxAssumption DEF TypeOK, JobOK, Tx
  <1>2. Upserted(row, BlockTs[b]) \in Nat
    BY <1>1, InboxAssumption DEF TypeOK, Upserted
  <1>3. RowsAfter(b) = [rows EXCEPT ![row] = Upserted(row, BlockTs[b])]
    BY DEF RowsAfter
  <1>4. rows[row] # 0 => Upserted(row, BlockTs[b]) = rows[row]
    BY DEF Upserted
  <1> HIDE DEF row
  <1> QED BY <1>1, <1>2, <1>3, <1>4 DEF TypeOK

LEMMA TypeNext == TypeOK /\ [Next]_vars => TypeOK'
  <1> SUFFICES ASSUME TypeOK, [Next]_vars PROVE TypeOK'
    OBVIOUS
  <1> USE DEF TypeOK
  <1>1. ASSUME NEW b \in Blocks, Unpack(b) PROVE TypeOK'
    <2>1. Targets[Tx(b)] \in Seq(Wallets) /\ Len(Targets[Tx(b)]) \in Nat \ {0}
      BY InboxAssumption DEF Tx
    <2>2. jobs[b].runs + 1 \in 1..MaxRuns
      BY <1>1, InboxAssumption DEF Unpack
    <2>3. \A c \in Blocks : JobOK(c)'
      BY <1>1, <2>1, <2>2 DEF Unpack, JobOK, Running, Tx
    <2>4. overlap' \in BOOLEAN
      BY <1>1 DEF Unpack
    <2> QED BY <1>1, <2>2, <2>3, <2>4 DEF Unpack, ReadingOK
  <1>2. ASSUME NEW b \in Blocks, PutRow(b) PROVE TypeOK'
    <2>1. Running(b)
      BY <1>2 DEF PutRow, Running
    <2> DEFINE next == NextTarget(jobs[b], b)
    <2>2. /\ next \in [pc : {"row", "done"}, at : Nat, runs : 1..MaxRuns]
          /\ next.pc = "row" => next.at \in 1..Len(Targets[Tx(b)])
      BY <2>1, NextTargetOK
    <2>3. rows' \in [Txs \X Wallets -> Nat]
      BY <1>2, <2>1, RowsAfterOK DEF PutRow
    <2> HIDE DEF next
    <2>5. jobs' = [jobs EXCEPT ![b] =
             IF Tx(b) \in InitDids /\ Links[Tx(b)] # {} THEN [@ EXCEPT !.pc = "keys"] ELSE next]
      BY <1>2 DEF PutRow, next
    <2>6. jobs' \in [Blocks -> [pc : {"idle", "row", "keys", "wallets", "done"},
                                at : Nat, runs : 0..MaxRuns]]
      <3>1. 1..MaxRuns \subseteq 0..MaxRuns
        OBVIOUS
      <3>2. [jobs[b] EXCEPT !.pc = "keys"] \in
               [pc : {"idle", "row", "keys", "wallets", "done"}, at : Nat, runs : 0..MaxRuns]
        OBVIOUS
      <3>3. next \in [pc : {"idle", "row", "keys", "wallets", "done"}, at : Nat,
                      runs : 0..MaxRuns]
        BY <2>2, <3>1
      <3> QED BY <2>5, <3>2, <3>3
    <2>7. \A c \in Blocks : JobOK(c)'
      BY <2>1, <2>2, <2>5 DEF JobOK, Running, Tx
    <2> QED BY <1>2, <2>3, <2>6, <2>7 DEF PutRow, ReadingOK
  <1>3. ASSUME NEW b \in Blocks, AddKeys(b) PROVE TypeOK'
    <2>1. Running(b) /\ Tx(b) \in InitDids /\ jobs[b].runs \in 1..MaxRuns
      BY <1>3 DEF AddKeys, JobOK, Running
    <2>2. keys' \in [Dids -> InitDids \cup {0}] /\ errors' \in 0..MaxErrors
      <3>1. DidOf[Tx(b)] \in Dids
        BY <2>1, InboxAssumption
      <3>2. KeysAfter(b) \in [Dids -> InitDids \cup {0}]
        BY <2>1, <3>1 DEF KeysAfter
      <3>3. errors < MaxErrors => errors + 1 \in 0..MaxErrors
        BY InboxAssumption
      <3> QED BY <1>3, <3>2, <3>3 DEF AddKeys
    <2>3. inserts' \subseteq {c \in Blocks : Tx(c) \in InitDids} \X (1..MaxRuns) \X Wallets
      <3>1. Links[Tx(b)] \subseteq Wallets
        BY <2>1, InboxAssumption
      <3>2. {b} \X {jobs[b].runs} \X Links[Tx(b)] \subseteq
              {c \in Blocks : Tx(c) \in InitDids} \X (1..MaxRuns) \X Wallets
        BY <2>1, <3>1
      <3> QED BY <1>3, <3>2 DEF AddKeys
    <2>4. \A c \in Blocks : JobOK(c)'
      BY <1>3, <2>1 DEF AddKeys, JobOK, Running, Tx
    <2> QED BY <1>3, <2>2, <2>3, <2>4 DEF AddKeys, ReadingOK, Tx
  <1>4. ASSUME NEW i \in inserts, AddWallet(i) PROVE TypeOK'
    <2> DEFINE b == i[1]
               next == NextTarget(jobs[b], b)
    <2>1. b \in Blocks /\ Tx(b) \in InitDids /\ i[3] \in Wallets
      OBVIOUS
    <2>2. jobs[b].pc = "wallets" =>
            /\ next \in [pc : {"row", "done"}, at : Nat, runs : 1..MaxRuns]
            /\ next.pc = "row" => next.at \in 1..Len(Targets[Tx(b)])
      BY <2>1, NextTargetOK DEF Running
    <2> HIDE DEF next, b
    <2>3. jobs' = [jobs EXCEPT ![b] =
            IF @.pc = "wallets" /\ InsertsOf(b) = {i} THEN next ELSE @]
      BY <1>4 DEF AddWallet, next, b
    <2>4. jobs' \in [Blocks -> [pc : {"idle", "row", "keys", "wallets", "done"},
                                at : Nat, runs : 0..MaxRuns]]
      BY <2>1, <2>2, <2>3
    <2>5. \A c \in Blocks : JobOK(c)'
      BY <2>1, <2>2, <2>3 DEF JobOK, Running, Tx
    <2>6. wallets' \in [Wallets -> InitDids \cup {0}]
      BY <1>4, <2>1 DEF AddWallet, b
    <2> QED BY <1>4, <2>4, <2>5, <2>6 DEF AddWallet, ReadingOK, Tx
  <1>5. ASSUME NEW i \in inserts, WalletFails(i) PROVE TypeOK'
    <2>1. errors' \in 0..MaxErrors
      BY <1>5, InboxAssumption DEF WalletFails
    <2>2. jobs' \in [Blocks -> [pc : {"idle", "row", "keys", "wallets", "done"},
                                at : Nat, runs : 0..MaxRuns]]
      BY <1>5 DEF WalletFails
    <2>3. \A c \in Blocks : JobOK(c)'
      BY <1>5 DEF WalletFails, JobOK, Running, Tx
    <2> QED BY <1>5, <2>1, <2>2, <2>3 DEF WalletFails, ReadingOK, Tx
  <1>6. ASSUME NEW tx \in Txs, DeleteRows(tx) PROVE TypeOK'
    <2>1. rows' \in [Txs \X Wallets -> Nat]
      BY <1>6 DEF DeleteRows
    <2>2. ReadingOK'
      BY <1>6 DEF DeleteRows, ReadingOK
    <2> QED BY <1>6, <2>1, <2>2 DEF DeleteRows, JobOK, Running, Tx
  <1>7. ASSUME NEW sort \in Orders, NEW firstTs \in FirstTimes, Open(sort, firstTs)
        PROVE TypeOK'
    <2>1. ReadingOK'
      BY <1>7, NowIsNat, InboxAssumption DEF Open, ReadingOK, Orders
    <2> QED BY <1>7, <2>1 DEF Open, JobOK, Running, Tx
  <1>8. CASE ReadPage
    <2>1. CASE Page(reading.from, reading.sort) = {}
      BY <1>8, <2>1 DEF ReadPage, ReadingOK, JobOK, Running, Tx
    <2>2. CASE Page(reading.from, reading.sort) # {}
      <3> DEFINE page == Page(reading.from, reading.sort)
                 last == Last(page, reading.sort)
      <3>1. page \subseteq Txs
        BY DEF Page
      <3>2. Ts(last) \in Nat
        <4>1. last \in page
          BY <2>2, PageOK, LastOK DEF ReadingOK, Orders
        <4> QED BY <3>1, <4>1, InboxAssumption DEF Ts
      <3> QED BY <1>8, <2>2, <3>1, <3>2 DEF ReadPage, ReadingOK, JobOK, Running, Tx
    <2> QED BY <2>1, <2>2
  <1>9. CASE UNCHANGED vars
    BY <1>9 DEF vars, JobOK, Running, ReadingOK, Tx
  <1>10. ASSUME NEW b \in Blocks, RowFails(b) PROVE TypeOK'
    <2>1. Running(b)
      BY <1>10 DEF RowFails, Running
    <2>2. rows' \in [Txs \X Wallets -> Nat] /\ errors' \in 0..MaxErrors
      <3>1. RowsAfter(b) \in [Txs \X Wallets -> Nat]
        BY <2>1, RowsAfterOK
      <3>2. rows' \in [Txs \X Wallets -> Nat]
        BY <1>10, <3>1 DEF RowFails
      <3>3. errors' \in 0..MaxErrors
        BY <1>10, InboxAssumption DEF RowFails
      <3> QED BY <3>2, <3>3
    <2>3. jobs' \in [Blocks -> [pc : {"idle", "row", "keys", "wallets", "done"},
                                at : Nat, runs : 0..MaxRuns]]
      BY <1>10 DEF RowFails
    <2>4. \A c \in Blocks : JobOK(c)'
      BY <1>10 DEF RowFails, JobOK, Running, Tx
    <2> QED BY <1>10, <2>2, <2>3, <2>4 DEF RowFails, ReadingOK, Tx
  <1>11. CASE Crash
    <2>1. errors' \in 0..MaxErrors
      BY <1>11, InboxAssumption DEF Crash
    <2>2. jobs' \in [Blocks -> [pc : {"idle", "row", "keys", "wallets", "done"},
                                at : Nat, runs : 0..MaxRuns]]
      BY <1>11 DEF Crash
    <2>3. \A c \in Blocks : JobOK(c)'
      BY <1>11 DEF Crash, JobOK, Running, Tx
    <2> QED BY <1>11, <2>1, <2>2, <2>3 DEF Crash, ReadingOK, Tx
  <1> QED
    BY <1>1, <1>2, <1>3, <1>4, <1>5, <1>6, <1>7, <1>8, <1>9, <1>10, <1>11 DEF Next, Orders

\* Inbox.TypeOK: the tables, the unpackings and the client stay within their types, and
\* only INIT_DIDs get into the tables of accounts.
THEOREM InboxTyped == Spec => []TypeOK
  BY TypeInit, TypeNext, PTL DEF Spec

------------------------------------------------------------------------------
(* Accounts. *)

LEMMA AccountInit == Init => AccountInv
  BY TypeInit DEF Init, AccountInv, KeysOfTheirDid, LinkedHaveKeys

LEMMA AccountNext == AccountInv /\ [Next]_vars => AccountInv'
  <1> SUFFICES ASSUME AccountInv, [Next]_vars PROVE (KeysOfTheirDid /\ LinkedHaveKeys)'
    BY TypeNext DEF AccountInv
  <1>1. TypeOK /\ KeysOfTheirDid /\ LinkedHaveKeys
    BY DEF AccountInv
  <1>2. CASE UNCHANGED <<keys, wallets>>
    BY <1>1, <1>2 DEF KeysOfTheirDid, LinkedHaveKeys
  <1>3. ASSUME NEW b \in Blocks, AddKeys(b) PROVE (KeysOfTheirDid /\ LinkedHaveKeys)'
    <2>1. CASE keys' = KeysAfter(b)
      <3>1. Tx(b) \in InitDids /\ Tx(b) # 0 /\ DidOf[Tx(b)] \in Dids
        BY <1>1, <1>3, InboxAssumption DEF AddKeys, TypeOK, JobOK
      <3>2. keys' = [keys EXCEPT ![DidOf[Tx(b)]] = Tx(b)] /\ wallets' = wallets
        BY <1>3, <2>1 DEF AddKeys, KeysAfter
      <3>3. KeysOfTheirDid'
        BY <1>1, <3>1, <3>2 DEF KeysOfTheirDid, TypeOK
      <3>4. \A w \in Wallets : wallets[w] # 0 => DidOf[wallets[w]] \in Dids
        BY <1>1, InboxAssumption DEF TypeOK
      <3> QED BY <1>1, <3>1, <3>2, <3>3, <3>4 DEF LinkedHaveKeys, TypeOK
    <2>2. CASE keys' = keys
      BY <1>2, <1>3, <2>2 DEF AddKeys
    <2> QED BY <1>3, <2>1, <2>2 DEF AddKeys
  <1>4. ASSUME NEW i \in inserts, AddWallet(i) PROVE (KeysOfTheirDid /\ LinkedHaveKeys)'
    <2>1. keys[DidOf[Tx(i[1])]] # 0 /\ keys' = keys
          /\ wallets' = [wallets EXCEPT ![i[3]] = Tx(i[1])]
      BY <1>4 DEF AddWallet, HasKeys
    <2> QED BY <1>1, <2>1 DEF KeysOfTheirDid, LinkedHaveKeys, TypeOK
  <1> QED
    BY <1>2, <1>3, <1>4
    DEF Next, vars, Unpack, PutRow, RowFails, WalletFails, Crash, DeleteRows, Open, ReadPage

\* Inbox.LinkedIsFound: whatever fails, crashes or overlaps, get_accountInfo of a linked
\* wallet finds keys, of the DID the wallet is linked with, and the wallet among the
\* attached ones.
THEOREM LinkedAlwaysFound == Spec => []LinkedIsFound
  <1>1. AccountInv => LinkedIsFound
    <2> SUFFICES ASSUME AccountInv, NEW w \in Wallets, wallets[w] # 0
                 PROVE  LET info == InfoOfWallet(w) IN
                        /\ info.keys # 0 /\ DidOf[info.keys] = DidOf[wallets[w]]
                        /\ w \in info.attached
      BY DEF LinkedIsFound
    <2>1. DidOf[wallets[w]] \in Dids
      BY InboxAssumption DEF AccountInv, TypeOK
    <2> DEFINE did == DidOf[wallets[w]]
    <2>2. keys[did] # 0 /\ DidOf[keys[did]] = did
      BY <2>1 DEF AccountInv, KeysOfTheirDid, LinkedHaveKeys
    <2>3. InfoOfWallet(w) = [keys |-> keys[did], attached |-> Attached(did)]
      BY <2>2 DEF InfoOfWallet, InfoOfDid
    <2>4. w \in Attached(did)
      BY DEF Attached
    <2> QED BY <2>2, <2>3, <2>4
  <1> QED BY <1>1, AccountInit, AccountNext, PTL DEF Spec

------------------------------------------------------------------------------
(* Reading. *)

\* What the client has seen and is still there lies behind the time it goes on with, and
\* what it is owed and has not seen lies ahead.
ReadInv ==
  /\ TypeOK /\ ReadingsAreExact
  /\ reading.pc = "idle" => reading.seen = {}
  /\ reading.pc = "open" =>
       /\ \A tx \in reading.seen \ reading.gone :
            Ts(tx) # 0 /\ ~Beyond(tx, reading.from, reading.sort)
       /\ \A tx \in reading.there :
            tx \in reading.seen \/ Beyond(tx, reading.from, reading.sort)

\* A page is empty only when nothing is left.
LEMMA EmptyPage ==
  ASSUME TypeOK, NEW from \in Nat, NEW sort \in Orders, Page(from, sort) = {},
         NEW tx \in Txs
  PROVE  ~Beyond(tx, from, sort)
  <1> DEFINE after == {x \in Txs : Beyond(x, from, sort)}
  <1> SUFFICES ASSUME after # {} PROVE FALSE
    OBVIOUS
  <1>1. PICK first \in after : \A other \in after : ~Before(other, first, sort)
    <2> HIDE DEF after
    <2>1. after \in SUBSET Txs
      BY DEF after
    <2> QED BY <2>1, FirstExists
  <1>2. {other \in after : Before(other, first, sort)} = {}
    BY <1>1
  <1>3. Cardinality({}) < PageSize
    BY FS_EmptySet, InboxAssumption
  <1>4. first \in Page(from, sort)
    BY <1>1, <1>2, <1>3 DEF Page
  <1> QED BY <1>4

\* The time a page ends with separates what it shows from what is left.
LEMMA PageSplits ==
  ASSUME TypeOK, NEW from \in Nat, NEW sort \in Orders, Page(from, sort) # {},
         NEW tx \in Txs, Ts(tx) # 0
  PROVE  LET page == Page(from, sort)
             next == Ts(Last(page, sort))
         IN  /\ tx \in page => Beyond(tx, from, sort) /\ ~Beyond(tx, next, sort)
             /\ ~Beyond(tx, from, sort) => ~Beyond(tx, next, sort)
             /\ Beyond(tx, from, sort) /\ tx \notin page => Beyond(tx, next, sort)
  <1> DEFINE after == {x \in Txs : Beyond(x, from, sort)}
             page == Page(from, sort)
             last == Last(page, sort)
             Ahead(x) == {other \in after : Before(other, x, sort)}
  <1>1. last \in page /\ \A other \in page : ~Before(last, other, sort)
    BY PageOK, LastOK
  <1>2. \A x \in page : x \in after /\ Cardinality(Ahead(x)) < PageSize
    BY DEF Page
  <1>3. \A x \in after : x \notin page => ~(Cardinality(Ahead(x)) < PageSize)
    BY DEF Page
  <1>4. \A x \in Txs : Ts(x) \in Nat
    BY InboxAssumption DEF TypeOK, Ts
  <1>5. last \in Txs /\ Beyond(last, from, sort)
    BY <1>1, <1>2
  <1> HIDE DEF page, last
  <1>6. tx \in page => Beyond(tx, from, sort) /\ ~Beyond(tx, Ts(last), sort)
    BY <1>1, <1>2, <1>4, <1>5 DEF Before, Beyond, Orders
  <1>7. ~Beyond(tx, from, sort) => ~Beyond(tx, Ts(last), sort)
    BY <1>4, <1>5 DEF Beyond, Orders
  <1>8. ASSUME Beyond(tx, from, sort), tx \notin page PROVE Beyond(tx, Ts(last), sort)
    <2> SUFFICES ASSUME ~Beyond(tx, Ts(last), sort) PROVE FALSE
      OBVIOUS
    <2>1. Ahead(tx) \in SUBSET Ahead(last)
      BY <1>4, <1>5 DEF Before, Beyond, Orders
    <2>2. tx \in after /\ last \in after /\ last \in page
      BY <1>1, <1>5, <1>8
    <2>3. ~(Cardinality(Ahead(tx)) < PageSize) /\ Cardinality(Ahead(last)) < PageSize
      BY <1>2, <1>3, <1>8, <2>2
    <2>4. Ahead(last) \in SUBSET Txs
      OBVIOUS
    <2> HIDE DEF Ahead
    <2>5. IsFiniteSet(Ahead(last)) /\ IsFiniteSet(Ahead(tx))
      BY <2>1, <2>4, InboxAssumption, FS_Subset
    <2>6. Cardinality(Ahead(tx)) <= Cardinality(Ahead(last))
      BY <2>1, <2>5, FS_Subset
    <2>7. Cardinality(Ahead(tx)) \in Nat /\ Cardinality(Ahead(last)) \in Nat
      BY <2>5, FS_CardinalityType
    <2> QED BY <2>3, <2>6, <2>7, InboxAssumption
  <1> QED BY <1>6, <1>7, <1>8 DEF page, last

LEMMA ReadInit == Init => ReadInv
  BY TypeInit DEF Init, ReadInv, ReadingsAreExact

\* Only rows that were not there are written while a client reads.
LEMMA WritingKeepsReadings ==
  ASSUME ReadInv, TypeOK', reading' = reading,
         \A tx \in Txs : Ts(tx) # 0 => Ts(tx)' = Ts(tx)
  PROVE  ReadInv'
  <1>1. reading.seen \subseteq Txs /\ reading.there \subseteq Txs
    BY DEF ReadInv, TypeOK, ReadingOK
  <1>2. ReadingsAreExact' /\ (reading.pc = "idle" => reading.seen = {})'
    BY DEF ReadInv, ReadingsAreExact
  <1>3. ASSUME reading.pc = "open", NEW tx \in reading.seen \ reading.gone
        PROVE  (Ts(tx) # 0 /\ ~Beyond(tx, reading.from, reading.sort))'
    BY <1>1, <1>3 DEF ReadInv, Beyond
  <1>4. ASSUME reading.pc = "open", NEW tx \in reading.there
        PROVE  (tx \in reading.seen \/ Beyond(tx, reading.from, reading.sort))'
    BY <1>1, <1>4 DEF ReadInv, Beyond
  <1> QED BY <1>2, <1>3, <1>4 DEF ReadInv

LEMMA ReadNext == ReadInv /\ [Next]_vars => ReadInv'
  <1> SUFFICES ASSUME ReadInv, [Next]_vars PROVE ReadInv'
    OBVIOUS
  <1>1. TypeOK /\ TypeOK'
    BY TypeNext DEF ReadInv
  <1>2. CASE UNCHANGED <<rows, reading>>
    BY <1>1, <1>2, WritingKeepsReadings DEF Ts
  <1>3. ASSUME NEW b \in Blocks, PutRow(b) PROVE ReadInv'
    <2>1. \A tx \in Txs : Ts(tx) # 0 => Ts(tx)' = Ts(tx)
      BY <1>1, <1>3, RowsAfterOK, InboxAssumption DEF PutRow, Running, Ts
    <2> QED BY <1>1, <1>3, <2>1, WritingKeepsReadings DEF PutRow
  <1>4. ASSUME NEW gone \in Txs, DeleteRows(gone) PROVE ReadInv'
    <2>1. \A tx \in Txs : Ts(tx)' = IF tx = gone THEN 0 ELSE Ts(tx)
      BY <1>1, <1>4, InboxAssumption DEF DeleteRows, Ts, TypeOK
    <2>2. CASE Ts(gone) # 0 /\ reading.pc = "open"
      <3>1. reading' = [reading EXCEPT !.there = @ \ {gone}, !.gone = @ \cup {gone}]
        BY <1>4, <2>2 DEF DeleteRows, Ts
      <3>2. /\ reading'.pc = "open" /\ reading'.seen = reading.seen
            /\ reading'.there = reading.there \ {gone}
            /\ reading'.gone = reading.gone \cup {gone} /\ reading'.twice = reading.twice
            /\ reading'.from = reading.from /\ reading'.sort = reading.sort
        BY <1>1, <2>2, <3>1 DEF TypeOK, ReadingOK
      <3>3. ReadingsAreExact'
        BY <3>2 DEF ReadInv, ReadingsAreExact
      <3>4. reading.seen \subseteq Txs /\ reading.there \subseteq Txs
        BY <1>1 DEF TypeOK, ReadingOK
      <3>5. ASSUME NEW tx \in reading'.seen \ reading'.gone
            PROVE  (Ts(tx) # 0 /\ ~Beyond(tx, reading.from, reading.sort))'
        BY <2>1, <2>2, <3>2, <3>4, <3>5 DEF ReadInv, Beyond
      <3>6. ASSUME NEW tx \in reading'.there
            PROVE  (tx \in reading.seen \/ Beyond(tx, reading.from, reading.sort))'
        BY <2>1, <2>2, <3>2, <3>4, <3>6 DEF ReadInv, Beyond
      <3> QED BY <1>1, <3>2, <3>3, <3>5, <3>6 DEF ReadInv
    <2>3. CASE reading.pc = "open" /\ Ts(gone) = 0
      BY <1>1, <1>4, <2>1, <2>3, WritingKeepsReadings DEF DeleteRows, Ts
    <2>4. CASE reading.pc # "open"
      <3>1. reading' = reading
        BY <1>4, <2>4 DEF DeleteRows
      <3> QED BY <1>1, <2>4, <3>1 DEF ReadInv, ReadingsAreExact
    <2> QED BY <2>2, <2>3, <2>4
  <1>5. ASSUME NEW sort \in Orders, NEW firstTs \in FirstTimes, Open(sort, firstTs)
        PROVE  ReadInv'
    <2> DEFINE from == IF firstTs = 0 THEN NowRounded ELSE firstTs
    <2>1. /\ reading' = [reading EXCEPT !.pc = "open", !.sort = sort, !.from = from,
                           !.there = {tx \in Txs : Beyond(tx, from, sort)}]
          /\ reading.pc = "idle" /\ rows' = rows
      BY <1>5 DEF Open
    <2> HIDE DEF from
    <2>2. /\ reading'.pc = "open" /\ reading'.seen = reading.seen
          /\ reading'.there = {tx \in Txs : Beyond(tx, from, sort)}
          /\ reading'.gone = reading.gone /\ reading'.twice = reading.twice
          /\ reading'.from = from /\ reading'.sort = sort
      BY <1>1, <2>1 DEF TypeOK, ReadingOK
    <2>3. ReadingsAreExact' /\ reading'.seen = {}
      BY <2>1, <2>2 DEF ReadInv, ReadingsAreExact
    <2>4. ASSUME NEW tx \in reading'.there
          PROVE  Beyond(tx, reading.from, reading.sort)'
      BY <2>1, <2>2, <2>4 DEF Beyond, Ts
    <2> QED BY <1>1, <2>2, <2>3, <2>4 DEF ReadInv
  <1>6. CASE ReadPage
    <2> DEFINE from == reading.from
               sort == reading.sort
               page == Page(from, sort)
               next == Ts(Last(page, sort))
    <2>1. from \in Nat /\ sort \in Orders /\ page \subseteq Txs
          /\ reading.seen \subseteq Txs /\ reading.there \subseteq Txs
      BY <1>1, PageOK DEF TypeOK, ReadingOK, Orders
    <2>2. \A tx \in reading.seen \ reading.gone : Ts(tx) # 0 /\ ~Beyond(tx, from, sort)
      BY <1>6 DEF ReadPage, ReadInv
    <2>3. \A tx \in reading.there : tx \in reading.seen \/ Beyond(tx, from, sort)
      BY <1>6 DEF ReadPage, ReadInv
    <2>4. rows' = rows
      BY <1>6 DEF ReadPage
    <2>5. CASE page = {}
      <3>1. \A tx \in Txs : ~Beyond(tx, from, sort)
        BY <1>1, <2>1, <2>5, EmptyPage
      <3>2. /\ reading'.pc = "done" /\ reading'.seen = reading.seen
            /\ reading'.there = reading.there
            /\ reading'.gone = reading.gone /\ reading'.twice = reading.twice
        BY <1>1, <1>6, <2>5 DEF ReadPage, TypeOK, ReadingOK
      <3>3. reading.there \subseteq reading.seen
        BY <2>1, <2>3, <3>1
      <3>4. ReadingsAreExact'
        BY <3>2, <3>3 DEF ReadInv, ReadingsAreExact
      <3> QED BY <1>1, <3>2, <3>4 DEF ReadInv
    <2>6. CASE page # {}
      <3>1. \A tx \in Txs : Ts(tx) # 0 =>
              /\ tx \in page => Beyond(tx, from, sort) /\ ~Beyond(tx, next, sort)
              /\ ~Beyond(tx, from, sort) => ~Beyond(tx, next, sort)
              /\ Beyond(tx, from, sort) /\ tx \notin page => Beyond(tx, next, sort)
        BY <1>1, <2>1, <2>6, PageSplits
      <3>2. \A tx \in Txs : Beyond(tx, from, sort) => Ts(tx) # 0
        BY DEF Beyond
      <3>3. \A tx \in page : Beyond(tx, from, sort)
        BY DEF Page
      <3>4. /\ reading'.pc = "open" /\ reading'.seen = reading.seen \cup page
            /\ reading'.there = reading.there /\ reading'.gone = reading.gone
            /\ reading'.twice = reading.twice \cup (page \cap reading.seen)
            /\ reading'.from = next /\ reading'.sort = sort
        BY <1>1, <1>6, <2>6 DEF ReadPage, TypeOK, ReadingOK
      <3> HIDE DEF page, next, from, sort
      <3>5. ReadingsAreExact'
        <4>1. page \cap reading.seen \subseteq reading.gone
          BY <2>2, <3>3
        <4> QED BY <3>4, <4>1 DEF ReadInv, ReadingsAreExact
      <3>6. \A f, s : \A tx \in Txs : Ts(tx)' = Ts(tx) /\ (Beyond(tx, f, s) <=>
              (Ts(tx)' # 0 /\ IF s = "DESC" THEN Ts(tx)' < f ELSE Ts(tx)' > f))
        BY <2>4 DEF Ts, Beyond
      <3>7. ASSUME NEW tx \in reading'.seen \ reading'.gone
            PROVE  Ts(tx)' # 0 /\ ~Beyond(tx, next, sort)
        BY <2>1, <2>2, <3>1, <3>2, <3>3, <3>4, <3>6, <3>7
      <3>8. ASSUME NEW tx \in reading'.there
            PROVE  tx \in reading'.seen \/ Beyond(tx, next, sort)
        BY <2>1, <2>3, <3>1, <3>2, <3>4, <3>8
      <3>9. /\ \A tx \in reading'.seen \ reading'.gone :
                 (Ts(tx) # 0 /\ ~Beyond(tx, reading.from, reading.sort))'
            /\ \A tx \in reading'.there :
                 (tx \in reading.seen \/ Beyond(tx, reading.from, reading.sort))'
        BY <2>1, <3>4, <3>6, <3>7, <3>8 DEF Beyond
      <3> QED BY <1>1, <3>4, <3>5, <3>9 DEF ReadInv
    <2> QED BY <2>5, <2>6
  <1>7. ASSUME NEW b \in Blocks, RowFails(b) PROVE ReadInv'
    <2>1. \A tx \in Txs : Ts(tx) # 0 => Ts(tx)' = Ts(tx)
      BY <1>1, <1>7, RowsAfterOK, InboxAssumption DEF RowFails, Running, Ts
    <2> QED BY <1>1, <1>7, <2>1, WritingKeepsReadings DEF RowFails
  <1> QED
    BY <1>2, <1>3, <1>4, <1>5, <1>6, <1>7
    DEF Next, vars, Orders, Unpack, AddKeys, AddWallet, WalletFails, Crash

\* Inbox.ReadingsAreExact: reading an inbox page by page skips no row that stays and
\* repeats none but those deleted and put back, whatever is written meanwhile.
THEOREM ReadingIsExact == Spec => []ReadingsAreExact
  <1>1. ReadInv => ReadingsAreExact
    BY DEF ReadInv
  <1> QED BY <1>1, ReadInit, ReadNext, PTL DEF Spec

------------------------------------------------------------------------------
(* Agreement of keys and wallets. *)

LEMMA AgreeInit == Init => AgreeInv
  BY AccountInit
  DEF Init, AgreeInv, OneAtATime, Running, InsertsInHand, LinkedOrComing

\* An unpacking that goes on, or ends, leaves no two of a DID running.
LEMMA OneStays ==
  ASSUME OneAtATime, \A b \in Blocks : Running(b)' => Running(b)
  PROVE  OneAtATime'
  BY DEF OneAtATime, SameDid, Tx

\* The job of a block is the only thing that its own steps change in jobs.
LEMMA NextTargetPc ==
  ASSUME TypeOK, NEW b \in Blocks
  PROVE  NextTarget(jobs[b], b).pc \in {"row", "done"}
  <1>1. jobs[b] \in [pc : {"idle", "row", "keys", "wallets", "done"}, at : Nat,
                     runs : 0..MaxRuns]
    BY DEF TypeOK
  <1> QED BY <1>1 DEF NextTarget

LEMMA AgreeNext == AgreeInv /\ [Next]_vars => AgreeInv'
  <1> SUFFICES ASSUME AgreeInv, [Next]_vars PROVE AgreeInv'
    OBVIOUS
  <1> DEFINE Agree == OneAtATime /\ InsertsInHand /\ LinkedOrComing
             Sound == errors = 0 /\ ~overlap
  <1>1. TypeOK /\ TypeOK' /\ (Sound => Agree)
    BY TypeNext DEF AgreeInv, AccountInv
  <1>2. AccountInv'
    BY AccountNext DEF AgreeInv
  <1> SUFFICES ASSUME Sound' PROVE Agree'
    BY <1>2 DEF AgreeInv
  <1>3. Sound
    <2>1. errors \in Nat
      BY <1>1, InboxAssumption DEF TypeOK
    <2>2. errors' = errors \/ errors' = errors + 1
      BY DEF Next, vars, Unpack, PutRow, RowFails, AddKeys, AddWallet, WalletFails, Crash,
             DeleteRows, Open, ReadPage
    <2>3. overlap => overlap'
      BY DEF Next, vars, Unpack, PutRow, RowFails, AddKeys, AddWallet, WalletFails, Crash,
             DeleteRows, Open, ReadPage
    <2> QED BY <2>1, <2>2, <2>3
  <1>4. OneAtATime /\ InsertsInHand /\ LinkedOrComing
    BY <1>1, <1>3
  <1>5. jobs \in [Blocks -> [pc : {"idle", "row", "keys", "wallets", "done"}, at : Nat,
                             runs : 0..MaxRuns]]
    BY <1>1 DEF TypeOK
  <1>6. \A i \in inserts : /\ i[1] \in Blocks /\ Tx(i[1]) \in InitDids /\ Tx(i[1]) # 0
                           /\ i[3] \in Wallets /\ DidOf[Tx(i[1])] \in Dids
                           /\ Running(i[1]) /\ keys[DidOf[Tx(i[1])]] = Tx(i[1])
    BY <1>1, <1>4, InboxAssumption DEF TypeOK, InsertsInHand, Running
  <1> HIDE DEF Agree, Sound
  <1>7. ASSUME NEW b \in Blocks, Unpack(b) PROVE Agree'
    <2>1. \A other \in Blocks : SameDid(b, other) =>
            ~Running(other) /\ ~\E i \in inserts : i[1] = other
      BY <1>7 DEF Unpack, Sound
    <2>2. ~Running(b) /\ UNCHANGED <<keys, wallets, inserts>>
          /\ jobs' = [jobs EXCEPT ![b] = [pc |-> "row", at |-> 1, runs |-> @.runs + 1]]
      BY <1>7 DEF Unpack
    <2>3. \A c \in Blocks \ {b} : jobs'[c] = jobs[c] /\ (Running(c)' <=> Running(c))
      BY <1>5, <2>2 DEF Running
    <2>4. OneAtATime'
      BY <1>4, <2>1, <2>3 DEF OneAtATime, SameDid, Tx
    <2>5. \A i \in inserts : i[1] \in Blocks \ {b}
      BY <1>6, <2>2
    <2>6. jobs'[b].pc = "row"
      BY <1>5, <2>2
    <2>7. InsertsInHand'
      BY <1>4, <2>2, <2>3, <2>5, <2>6 DEF InsertsInHand, Tx
    <2>8. LinkedOrComing'
      BY <1>4, <2>2 DEF LinkedOrComing, Tx
    <2> QED BY <2>4, <2>7, <2>8 DEF Agree
  <1>8. ASSUME NEW b \in Blocks, PutRow(b) PROVE Agree'
    <2>1. UNCHANGED <<keys, wallets, inserts>> /\ jobs[b].pc = "row" /\ Running(b)
      BY <1>8 DEF PutRow, Running
    <2>2. jobs'[b].pc \in {"keys", "row", "done"}
      BY <1>1, <1>5, <1>8, NextTargetPc DEF PutRow
    <2>3. \A c \in Blocks \ {b} : jobs'[c] = jobs[c]
      BY <1>5, <1>8 DEF PutRow
    <2>4. OneAtATime'
      BY <1>4, <2>1, <2>3, OneStays DEF Running
    <2>5. \A i \in inserts : i[1] \in Blocks \ {b}
      BY <1>4, <1>6, <2>1 DEF InsertsInHand
    <2>6. InsertsInHand'
      BY <1>4, <2>1, <2>2, <2>3, <2>5 DEF InsertsInHand, Tx
    <2>7. LinkedOrComing'
      BY <1>4, <2>1 DEF LinkedOrComing, Tx
    <2> QED BY <2>4, <2>6, <2>7 DEF Agree
  <1>9. ASSUME NEW b \in Blocks, AddKeys(b) PROVE Agree'
    <2> DEFINE d == DidOf[Tx(b)]
    <2>1. Tx(b) \in InitDids /\ d \in Dids /\ Running(b) /\ jobs[b].pc = "keys"
      BY <1>1, <1>9, InboxAssumption DEF AddKeys, TypeOK, JobOK, Running
    <2>2. keys' = [keys EXCEPT ![d] = Tx(b)]
      <3>1. errors \in Nat
        BY <1>1, InboxAssumption DEF TypeOK
      <3>2. errors' = 0
        BY DEF Sound
      <3>3. errors' # errors + 1
        BY <3>1, <3>2
      <3> QED BY <1>9, <3>3 DEF AddKeys, KeysAfter
    <2>3. /\ wallets' = wallets /\ jobs' = [jobs EXCEPT ![b].pc = "wallets"]
          /\ inserts' = inserts \cup ({b} \X {jobs[b].runs} \X Links[Tx(b)])
      BY <1>9 DEF AddKeys
    <2>4. /\ jobs'[b].pc = "wallets" /\ jobs'[b].runs = jobs[b].runs
          /\ \A c \in Blocks \ {b} : jobs'[c] = jobs[c]
      BY <1>5, <2>3
    <2>5. OneAtATime'
      BY <1>4, <2>1, <2>4, OneStays DEF Running
    <2>6. \A c \in Blocks \ {b} : jobs[c].pc = "wallets" => Tx(c) \in InitDids /\ DidOf[Tx(c)] # d
      BY <1>1, <1>4, <2>1 DEF OneAtATime, SameDid, Running, TypeOK, JobOK
    <2>7. keys'[d] = Tx(b) /\ \A did \in Dids \ {d} : keys'[did] = keys[did]
      BY <1>1, <2>1, <2>2 DEF TypeOK
    <2>8. \A c \in Blocks : jobs'[c].pc = "wallets" => keys'[DidOf[Tx(c)]] = Tx(c)
      <3> SUFFICES ASSUME NEW c \in Blocks, c # b, jobs'[c].pc = "wallets"
                   PROVE  keys'[DidOf[Tx(c)]] = Tx(c)
        BY <2>7
      <3>1. jobs[c].pc = "wallets"
        BY <2>4
      <3>2. DidOf[Tx(c)] \in Dids \ {d}
        BY <2>6, <3>1, InboxAssumption
      <3> QED BY <1>4, <2>7, <3>1, <3>2 DEF InsertsInHand
    <2>9. \A i \in inserts' : jobs'[i[1]].pc = "wallets" /\ jobs'[i[1]].runs = i[2]
      <3>1. \A i \in inserts : i[1] \in Blocks \ {b}
        BY <1>4, <1>6, <2>1 DEF InsertsInHand
      <3>2. \A i \in {b} \X {jobs[b].runs} \X Links[Tx(b)] : i[1] = b /\ i[2] = jobs[b].runs
        OBVIOUS
      <3> QED BY <1>4, <2>3, <2>4, <3>1, <3>2 DEF InsertsInHand
    <2>10. InsertsInHand'
      BY <2>8, <2>9 DEF InsertsInHand, Tx
    <2>11. ASSUME NEW did \in Dids, keys'[did] # 0, NEW w \in Links[keys'[did]]
           PROVE  \/ wallets'[w] = keys'[did] \/ (wallets'[w] # 0 /\ DidOf[wallets'[w]] # did)
                  \/ \E i \in inserts' : Tx(i[1]) = keys'[did] /\ i[3] = w
      <3>1. CASE did = d
        <4>1. <<b, jobs[b].runs, w>> \in inserts'
          BY <2>3, <2>7, <2>11, <3>1
        <4> QED BY <2>7, <3>1, <4>1
      <3>2. CASE did # d
        BY <1>4, <2>3, <2>7, <2>11, <3>2 DEF LinkedOrComing
      <3> QED BY <3>1, <3>2
    <2>12. LinkedOrComing'
      BY <2>11 DEF LinkedOrComing, Tx
    <2> QED BY <2>5, <2>10, <2>12 DEF Agree
  <1>10. ASSUME NEW i \in inserts, AddWallet(i) PROVE Agree'
    <2> DEFINE b == i[1]
               d == DidOf[Tx(b)]
    <2>1. b \in Blocks /\ d \in Dids /\ keys[d] = Tx(b) /\ i[3] \in Wallets
          /\ Tx(b) # 0 /\ Running(b) /\ jobs[b].pc = "wallets"
      BY <1>4, <1>6 DEF InsertsInHand
    <2>2. /\ keys' = keys /\ wallets' = [wallets EXCEPT ![i[3]] = Tx(b)]
          /\ inserts' = inserts \ {i}
          /\ jobs' = [jobs EXCEPT ![b] = IF @.pc = "wallets" /\ InsertsOf(b) = {i}
                                        THEN NextTarget(@, b) ELSE @]
      BY <1>10 DEF AddWallet
    <2>3. \A c \in Blocks \ {b} : jobs'[c] = jobs[c]
      BY <1>5, <2>2
    <2>4. InsertsInHand'
      <3>1. CASE InsertsOf(b) # {i}
        <4>1. jobs' = jobs
          BY <1>5, <2>2, <3>1
        <4> QED BY <1>4, <2>2, <4>1 DEF InsertsInHand, Tx
      <3>2. CASE InsertsOf(b) = {i}
        <4>1. jobs'[b].pc \in {"row", "done"}
          BY <1>1, <1>5, <2>1, <2>2, <3>2, NextTargetPc
        <4>2. \A j \in inserts' : j[1] \in Blocks \ {b}
          <5>1. \A j \in inserts : j[1] = b => j \in InsertsOf(b)
            BY <1>4 DEF InsertsInHand, InsertsOf
          <5> QED BY <1>6, <2>2, <3>2, <5>1
        <4> QED
          BY <1>4, <2>1, <2>2, <2>3, <4>1, <4>2 DEF InsertsInHand, Tx
      <3> QED BY <3>1, <3>2
    <2>5. OneAtATime'
      BY <1>4, <2>1, <2>3, OneStays DEF Running
    <2>6. ASSUME NEW did \in Dids, keys[did] # 0, NEW w \in Links[keys[did]]
          PROVE  \/ wallets'[w] = keys[did] \/ (wallets'[w] # 0 /\ DidOf[wallets'[w]] # did)
                 \/ \E j \in inserts' : Tx(j[1]) = keys[did] /\ j[3] = w
      <3>1. w \in Wallets
        BY <1>1, <2>6, InboxAssumption DEF TypeOK
      <3>2. CASE w = i[3]
        <4>1. wallets'[w] = Tx(b)
          BY <1>1, <2>1, <2>2, <3>2 DEF TypeOK
        <4> QED BY <2>1, <4>1
      <3>3. CASE w # i[3]
        <4>1. wallets'[w] = wallets[w]
          BY <1>1, <2>2, <3>1, <3>3 DEF TypeOK
        <4>2. \A j \in inserts : j[3] = w => j \in inserts'
          BY <2>2, <3>3
        <4> QED BY <1>4, <2>6, <4>1, <4>2 DEF LinkedOrComing
      <3> QED BY <3>2, <3>3
    <2>7. LinkedOrComing'
      BY <2>2, <2>6 DEF LinkedOrComing, Tx
    <2> QED BY <2>4, <2>5, <2>7 DEF Agree
  <1>11. ASSUME NEW i \in inserts, WalletFails(i) PROVE FALSE
    <2>1. HasKeys(Tx(i[1]))
      BY <1>6 DEF HasKeys
    <2>2. errors' = errors + 1 /\ errors \in Nat
      BY <1>1, <1>11, <2>1, InboxAssumption DEF WalletFails, TypeOK
    <2> QED BY <2>2 DEF Sound
  <1>12. CASE UNCHANGED <<keys, wallets, jobs, inserts>>
    BY <1>4, <1>12 DEF Agree, OneAtATime, Running, SameDid, Tx, InsertsInHand, LinkedOrComing
  <1>13. ASSUME errors' = errors + 1 PROVE FALSE
    BY <1>1, <1>13, InboxAssumption DEF TypeOK, Sound
  <1> QED
    BY <1>7, <1>8, <1>9, <1>10, <1>11, <1>12, <1>13
    DEF Next, vars, RowFails, Crash, DeleteRows, Open, ReadPage

\* Inbox.AccountsAgree: without failures and crashes, and with INIT_DIDs of a DID unpacked
\* one after the other, each wallet linked by the INIT_DID that a DID's keys are from is
\* linked with the DID by that INIT_DID, but for wallets another DID took over; unpackings
\* of other DIDs, repeated ones included, run beside each other at will.
THEOREM KeysAndWalletsAgree == Spec => []AccountsAgree
  <1>1. AgreeInv => AccountsAgree
    BY DEF AgreeInv, AccountsAgree, LinkedOrComing
  <1> QED BY <1>1, AgreeInit, AgreeNext, PTL DEF Spec
==============================================================================
