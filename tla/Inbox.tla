-------------------------------- MODULE Inbox --------------------------------
(***************************************************************************)
(* Inboxes and accounts as they are written and read.  IndexStorage puts   *)
(* each transaction of a block into the inbox of each wallet it names      *)
(* (storage_node); for an INIT_DID every such row also writes push_keys    *)
(* and then, all at once, a row of push_wallets for each wallet it links.  *)
(* Blocks are unpacked concurrently: by the queue, a peer's sync and a     *)
(* reshard.  Meanwhile a client reads an inbox page by page                *)
(* (storage_getTransactions) and somebody looks up accounts                *)
(* (get_accountInfo).                                                      *)
(***************************************************************************)
EXTENDS Integers, Sequences, FiniteSets

CONSTANTS
  Blocks, Txs, Wallets, Dids,
  BlockTx,   \* block -> its transaction
  BlockTs,   \* block -> its time, in half seconds
  Targets,   \* transaction -> its recipients and sender
  DidOf,     \* INIT_DID transaction -> its DID
  Links,     \* INIT_DID transaction -> the wallets it links
  Reader,    \* the wallet whose inbox is read
  PageSize,  \* 30
  StartTime, \* when the client begins
  FirstTimes, \* the times it may begin with, 0 for none
  MaxRuns,   \* bound: times a block is unpacked
  MaxErrors  \* bound: statements that fail, and crashes

InitDids == DOMAIN DidOf
ASSUME InboxAssumption ==
  /\ BlockTx \in [Blocks -> Txs] /\ BlockTs \in [Blocks -> Nat \ {0}]
  /\ Targets \in [Txs -> Seq(Wallets) \ {<<>>}] /\ IsFiniteSet(Txs)
  /\ InitDids \subseteq Txs /\ DidOf \in [InitDids -> Dids]
  /\ Links \in [InitDids -> SUBSET Wallets]
  /\ Reader \in Wallets /\ 0 \notin Txs /\ PageSize \in Nat \ {0}
  /\ StartTime \in Nat /\ FirstTimes \subseteq Nat
  /\ MaxRuns \in Nat /\ MaxErrors \in Nat

VARIABLES
  rows,    \* storage_node of one category: <<skey, namespace_id>> -> ts, 0 for no row
  keys,    \* push_keys: DID -> the transaction its row is from, 0 for no row
  wallets, \* push_wallets: address -> the transaction its row is from, 0 for no row
  jobs,    \* block -> its unpackBlockToInboxes()
  inserts, \* inserts into push_wallets under way: <<block, run, wallet>>
  reading, \* the client
  errors,  \* statements that failed, and crashes
  overlap  \* history: two unpackings of INIT_DIDs of one DID overlapped

vars == <<rows, keys, wallets, jobs, inserts, reading, errors, overlap>>

Tx(b) == BlockTx[b]

Init ==
  /\ rows = [r \in Txs \X Wallets |-> 0]
  /\ keys = [d \in Dids |-> 0] /\ wallets = [w \in Wallets |-> 0]
  /\ jobs = [b \in Blocks |-> [pc |-> "idle", at |-> 0, runs |-> 0]]
  /\ inserts = {}
  /\ reading = [pc |-> "idle", sort |-> "DESC", from |-> 0, seen |-> {}, twice |-> {},
                there |-> {}, gone |-> {}]
  /\ errors = 0 /\ overlap = FALSE

------------------------------------------------------------------------------
(* Writing. *)

Running(b) == jobs[b].pc \in {"row", "keys", "wallets"}

\* The INIT_DIDs of two blocks are of the same DID.
SameDid(b, other) ==
  Tx(b) \in InitDids /\ Tx(other) \in InitDids /\ DidOf[Tx(b)] = DidOf[Tx(other)]

\* unpackBlockToInboxes() of a new block, or of a stored one after a reshard
Unpack(b) ==
  /\ ~Running(b) /\ jobs[b].runs < MaxRuns
  /\ jobs' = [jobs EXCEPT ![b] = [pc |-> "row", at |-> 1, runs |-> @.runs + 1]]
  /\ overlap' = \/ overlap
                \/ \E other \in Blocks : SameDid(b, other) /\
                     (Running(other) \/ \E i \in inserts : i[1] = other)
  /\ UNCHANGED <<rows, keys, wallets, inserts, reading, errors>>

NextTarget(job, b) ==
  IF job.at < Len(Targets[Tx(b)]) THEN [job EXCEPT !.pc = "row", !.at = @ + 1]
  ELSE [job EXCEPT !.pc = "done"]

\* ON CONFLICT DO UPDATE SET payload: a row that is there keeps its time.
Upserted(row, ts) == IF rows[row] = 0 THEN ts ELSE rows[row]

RowsAfter(b) ==
  LET row == <<Tx(b), Targets[Tx(b)][jobs[b].at]>>
  IN  [rows EXCEPT ![row] = Upserted(row, BlockTs[b])]

\* putValueInStorageTable(): an INIT_DID that links no wallet is not indexed.
PutRow(b) ==
  LET tx == Tx(b)
  IN  /\ jobs[b].pc = "row"
      /\ rows' = RowsAfter(b)
      /\ jobs' = [jobs EXCEPT ![b] =
           IF tx \in InitDids /\ Links[tx] # {} THEN [@ EXCEPT !.pc = "keys"]
           ELSE NextTarget(@, b)]
      /\ UNCHANGED <<keys, wallets, inserts, reading, errors, overlap>>

\* The statement fails, or what is read of an INIT_DID's data throws when the row is there:
\* the unpacking ends.
RowFails(b) ==
  /\ jobs[b].pc = "row"
  /\ errors < MaxErrors /\ errors' = errors + 1
  /\ rows' \in {rows, RowsAfter(b)}
  /\ jobs' = [jobs EXCEPT ![b].pc = "done"]
  /\ UNCHANGED <<keys, wallets, inserts, reading, overlap>>

\* Mutant of KeysAfter: ON CONFLICT DO NOTHING.
FirstKeysStay(b) ==
  [keys EXCEPT ![DidOf[Tx(b)]] = IF @ = 0 THEN Tx(b) ELSE @]

\* ON CONFLICT (did) DO UPDATE
KeysAfter(b) == [keys EXCEPT ![DidOf[Tx(b)]] = Tx(b)]

\* addPushKeys(), which swallows errors; then Promise.all(addPushWallets()) starts.
AddKeys(b) ==
  /\ jobs[b].pc = "keys"
  /\ \/ keys' = KeysAfter(b) /\ errors' = errors
     \/ errors < MaxErrors /\ errors' = errors + 1 /\ keys' = keys
  /\ inserts' = inserts \cup ({b} \X {jobs[b].runs} \X Links[Tx(b)])
  /\ jobs' = [jobs EXCEPT ![b].pc = "wallets"]
  /\ UNCHANGED <<rows, wallets, reading, overlap>>

\* Mutant of HasKeys: there is no foreign key.
NoForeignKey(tx) == TRUE

\* The foreign key of push_wallets
HasKeys(tx) == keys[DidOf[tx]] # 0

InsertsOf(b) == {i \in inserts : i[1] = b /\ i[2] = jobs[b].runs}

\* The last insert of a Promise.all() lets the unpacking go on.
AddWallet(i) ==
  LET b == i[1] IN
  /\ HasKeys(Tx(b))
  /\ wallets' = [wallets EXCEPT ![i[3]] = Tx(b)]
  /\ inserts' = inserts \ {i}
  /\ jobs' = [jobs EXCEPT ![b] =
                IF @.pc = "wallets" /\ InsertsOf(b) = {i} THEN NextTarget(@, b) ELSE @]
  /\ UNCHANGED <<rows, keys, reading, errors, overlap>>

\* An insert that fails rejects the Promise.all(), and with it the whole unpacking; the
\* other inserts go on.
WalletFails(i) ==
  /\ \/ HasKeys(Tx(i[1])) /\ errors < MaxErrors /\ errors' = errors + 1
     \/ ~HasKeys(Tx(i[1])) /\ errors' = errors
  /\ inserts' = inserts \ {i}
  /\ jobs' = [jobs EXCEPT ![i[1]].pc =
                IF @ = "wallets" /\ jobs[i[1]].runs = i[2] THEN "done" ELSE @]
  /\ UNCHANGED <<rows, keys, wallets, reading, overlap>>

\* The process ends, at any statement of any unpacking, and is started again.  Inserts that
\* the database already has may still be carried out.
Crash ==
  /\ errors < MaxErrors /\ errors' = errors + 1
  /\ jobs' = [b \in Blocks |-> IF Running(b) THEN [jobs[b] EXCEPT !.pc = "done"] ELSE jobs[b]]
  /\ inserts' \in SUBSET inserts
  /\ UNCHANGED <<rows, keys, wallets, reading, overlap>>

\* The rows of a transaction expire and are deleted together, whatever their shards.
DeleteRows(tx) ==
  /\ \E w \in Wallets : rows[<<tx, w>>] # 0
  /\ rows' = [row \in DOMAIN rows |-> IF row[1] = tx THEN 0 ELSE rows[row]]
  /\ reading' = IF rows[<<tx, Reader>>] # 0 /\ reading.pc = "open"
                THEN [reading EXCEPT !.there = @ \ {tx}, !.gone = @ \cup {tx}]
                ELSE reading
  /\ UNCHANGED <<keys, wallets, jobs, inserts, errors, overlap>>

------------------------------------------------------------------------------
(* Reading an inbox. *)

\* DateUtil.currentTimeSeconds() rounds.
NowRounded == 2 * ((StartTime + 1) \div 2)

Ts(tx) == rows[<<tx, Reader>>]

\* ts < firstTs, or ts > firstTs
Beyond(tx, from, sort) ==
  Ts(tx) # 0 /\ IF sort = "DESC" THEN Ts(tx) < from ELSE Ts(tx) > from
Before(tx, other, sort) ==
  IF sort = "DESC" THEN Ts(tx) > Ts(other) ELSE Ts(tx) < Ts(other)

\* Mutant of Page: rows of the last time that are too many for the page are cut off.
CutPage(from, sort) ==
  LET after == {tx \in Txs : Beyond(tx, from, sort)}
  IN  IF Cardinality(after) <= PageSize THEN after
      ELSE CHOOSE page \in SUBSET after :
             /\ Cardinality(page) = PageSize
             /\ \A tx \in page, other \in after \ page : ~Before(other, tx, sort)

\* Mutant of Page: the page begins with the time where the last one ended.
PageFrom(from, sort) ==
  LET after == {tx \in Txs : Ts(tx) # 0 /\ (Ts(tx) = from \/ Beyond(tx, from, sort))}
  IN  {tx \in after : Cardinality({other \in after : Before(other, tx, sort)}) < PageSize}

\* ORDER BY ts FETCH FIRST n ROWS WITH TIES: the rows that have fewer than n before them
Page(from, sort) ==
  LET after == {tx \in Txs : Beyond(tx, from, sort)}
  IN  {tx \in after : Cardinality({other \in after : Before(other, tx, sort)}) < PageSize}

Last(page, sort) == CHOOSE tx \in page : \A other \in page : ~Before(tx, other, sort)

\* storage_getTransactions; without a firstTs (0 here) the time now takes its place,
\* whatever the order.
Open(sort, firstTs) ==
  LET from == IF firstTs = 0 THEN NowRounded ELSE firstTs IN
  /\ reading.pc = "idle"
  /\ reading' = [reading EXCEPT !.pc = "open", !.sort = sort, !.from = from,
                   !.there = {tx \in Txs : Beyond(tx, from, sort)}]
  /\ UNCHANGED <<rows, keys, wallets, jobs, inserts, errors, overlap>>

\* The client asks on with the last time of the page (lastTs, in milliseconds, which it
\* has to bring to seconds) until a page is empty.
ReadPage ==
  LET page == Page(reading.from, reading.sort) IN
  /\ reading.pc = "open"
  /\ reading' =
       IF page = {} THEN [reading EXCEPT !.pc = "done", !.from = 0]
       ELSE [reading EXCEPT
               !.from = Ts(Last(page, reading.sort)),
               !.twice = @ \cup (page \cap reading.seen),
               !.seen = @ \cup page]
  /\ UNCHANGED <<rows, keys, wallets, jobs, inserts, errors, overlap>>

Next ==
  \/ \E b \in Blocks : \/ Unpack(b) \/ PutRow(b) \/ RowFails(b) \/ AddKeys(b)
  \/ \E i \in inserts : AddWallet(i) \/ WalletFails(i)
  \/ Crash
  \/ \E tx \in Txs : DeleteRows(tx)
  \/ \E sort \in {"ASC", "DESC"}, firstTs \in FirstTimes : Open(sort, firstTs)
  \/ ReadPage

\* A client that reads asks on.
Spec == Init /\ [][Next]_vars /\ WF_vars(ReadPage)

------------------------------------------------------------------------------
(* Looking up accounts: the keys' transaction and the wallets attached. *)

Attached(did) == {w \in Wallets : wallets[w] # 0 /\ DidOf[wallets[w]] = did}

InfoOfDid(did) ==
  IF keys[did] = 0 THEN [keys |-> 0, attached |-> {}]
  ELSE [keys |-> keys[did], attached |-> Attached(did)]

InfoOfWallet(w) ==
  IF wallets[w] = 0 THEN [keys |-> 0, attached |-> {}] ELSE InfoOfDid(DidOf[wallets[w]])

------------------------------------------------------------------------------
(* Properties. *)

\* An unpacking is at one of the transaction's inboxes, and only an INIT_DID fills the
\* tables of accounts.
JobOK(b) ==
  /\ Running(b) => jobs[b].at \in 1..Len(Targets[Tx(b)]) /\ jobs[b].runs \in 1..MaxRuns
  /\ jobs[b].pc \in {"keys", "wallets"} => Tx(b) \in InitDids

ReadingOK ==
  reading \in [pc : {"idle", "open", "done"}, sort : {"ASC", "DESC"}, from : Nat,
               seen : SUBSET Txs, twice : SUBSET Txs, there : SUBSET Txs, gone : SUBSET Txs]

TypeOK ==
  /\ rows \in [Txs \X Wallets -> Nat]
  /\ keys \in [Dids -> InitDids \cup {0}] /\ wallets \in [Wallets -> InitDids \cup {0}]
  /\ jobs \in [Blocks -> [pc : {"idle", "row", "keys", "wallets", "done"},
                         at : Nat, runs : 0..MaxRuns]]
  /\ \A b \in Blocks : JobOK(b)
  /\ inserts \subseteq {b \in Blocks : Tx(b) \in InitDids} \X (1..MaxRuns) \X Wallets
  /\ ReadingOK /\ errors \in 0..MaxErrors /\ overlap \in BOOLEAN

\* A client that reads an inbox to its end gets every row that was there when it began and
\* stayed, also rows of one time that do not fit on a page, and none twice but those
\* deleted and put back meanwhile, whatever is written or deleted between its pages.
ReadingsAreExact ==
  /\ reading.pc = "done" => reading.there \subseteq reading.seen
  /\ reading.twice \subseteq reading.gone

\* Where nothing failed or crashed and INIT_DIDs of one DID were not unpacked at the same
\* time, each wallet that the INIT_DID of a DID's keys links is linked with the DID by this
\* very INIT_DID, unless another DID has taken it over.  (Wallets that only an older
\* INIT_DID of the DID linked stay linked as well.)
AccountsAgree ==
  errors = 0 /\ ~overlap /\ inserts = {} /\ (\A b \in Blocks : ~Running(b)) =>
    \A did \in Dids : keys[did] # 0 => \A w \in Links[keys[did]] :
      wallets[w] = keys[did] \/ (wallets[w] # 0 /\ DidOf[wallets[w]] # did)

\* Keys are of the DID they are kept for, and a linked wallet's DID has some.
KeysOfTheirDid == \A did \in Dids : keys[did] # 0 => DidOf[keys[did]] = did
LinkedHaveKeys == \A w \in Wallets : wallets[w] # 0 => keys[DidOf[wallets[w]]] # 0
AccountInv == TypeOK /\ KeysOfTheirDid /\ LinkedHaveKeys

\* One unpacking per DID, unless they overlap.
OneAtATime ==
  \A b, other \in Blocks : Running(b) /\ Running(other) /\ SameDid(b, other) => b = other

\* Inserts belong to the unpacking that waits for them, and its keys are there: those of
\* its own transaction.
InsertsInHand ==
  /\ \A i \in inserts : jobs[i[1]].pc = "wallets" /\ jobs[i[1]].runs = i[2]
  /\ \A b \in Blocks : jobs[b].pc = "wallets" => keys[DidOf[Tx(b)]] = Tx(b)

\* A wallet that the keys' transaction links is linked, taken over, or has its insert
\* under way.
LinkedOrComing ==
  \A did \in Dids : keys[did] # 0 => \A w \in Links[keys[did]] :
    \/ wallets[w] = keys[did] \/ (wallets[w] # 0 /\ DidOf[wallets[w]] # did)
    \/ \E i \in inserts : Tx(i[1]) = keys[did] /\ i[3] = w

\* The inductive invariant behind AccountsAgree.
AgreeInv ==
  /\ AccountInv
  /\ errors = 0 /\ ~overlap => OneAtATime /\ InsertsInHand /\ LinkedOrComing

\* Whatever fails, crashes or overlaps, get_accountInfo of a linked wallet finds keys, of
\* the DID the wallet is linked with, and the wallet is among the attached ones.
LinkedIsFound ==
  \A w \in Wallets : wallets[w] # 0 =>
    LET info == InfoOfWallet(w) IN
    info.keys # 0 /\ DidOf[info.keys] = DidOf[wallets[w]] /\ w \in info.attached

\* Reading ends, although new rows come in.
ReadingsEnd == (reading.pc = "open") ~> (reading.pc = "done")
==============================================================================
