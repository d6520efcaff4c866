# Verification of the Push storage node

TLA+ models of the storage node in `src/`, model-checked with TLC, with theorems
proved by TLAPS. A storage node receives blocks from the validators of the Push
network, unpacks them into inboxes (one row per recipient and transaction) for the
shards the contract assigns to it, follows changes of that assignment and copies
from its peers what it is missing.

Source paths below are relative to `src/src/`.

## 1. The system

### Components

| Component | Code | State it keeps | Operations |
|---|---|---|---|
| Block intake | `services/messaging/storageNode.ts` (`handleBlock`), `BlockStorage.ts`, `IndexStorage.ts`, `messaging-common/blockUtil.ts` | tables `blocks`, `blocks_to_shards`, `storage_node` | validate, insert, unpack to inboxes, answer |
| Block queue | `services/messaging-dset/*`, `messaging/queueManager.ts`, `messaging-common/queueClientHelper.ts` | a queue table per validator; `dset_client` (endpoints and offsets) | append (validator), poll, accept, save the offset, set up the endpoints |
| Contract state and resharding | `messaging-common/storageContractState.ts`, `storageNode.ts` (`handleReshard`), `cronScheduler.ts` | `nodeShardMap`, `contract_shards`, `expiration_ts` of rows and `expiry_ts` of blocks | read at start-up, events, compare, mark, plan the sync, save, delete what has expired |
| Peer-to-peer sync | `services/block/blockPolling.ts`, `block/block.ts`, `messaging/storageSyncClient.ts`, `rpc/storage_getShardView.ts` and its two siblings | `storage_sync_info`, a view table per request at the peer, the clients in memory | make a view, poll the shards of views page by page, mark, drop |
| Validator contract state | `messaging-common/validatorContractState.ts` | the maps of validators and storage nodes, the block parameters | read at start-up call by call, subscribe, apply events |
| Signatures and attestations | `messaging-common/blockUtil.ts`, `pushSdkUtil.ts`, `utilz/chainUtil.ts`, `ethUtil.ts` | none of their own; the block a producer is collecting signatures for | sign, attest, append patches, recover signers, check transactions and blocks |
| Wire format | `generated/push/block_pb.js` | none | read and write messages |
| Inbox reading, accounts | `helpers/dbHelper.ts`, `rpc/storage_getTransactions.ts`, `rpc/get_accountInfo.ts`, `services/account`, `services/transactions` | tables `storage_node`, `push_keys`, `push_wallets` | index INIT_DIDs; paged reads of an inbox; keys and wallets of an account |
| RPC helpers | `utilz/rpcUtil.ts`, `services/validatorRpc` | attempts of a call | calls with retries |
| Server, loaders, utilities | `appInit.ts`, `api`, `loaders`, `utilz` | none | set-up, logging, formatting |

### How they interact

- Three callers enter `handleBlock()`: the queue poll (`queueClient.ts` through
  `accept()`), the RPC `push_putBlock` and the peer sync. They share nothing but the
  database and interleave at every `await`.
- `handleReshard()` runs at start-up and in every `SNodeMappingChanged` handler. It
  writes the expiry columns that two cron jobs act on, asks peers for views and then
  calls `initiatePooling()`, whose calls queue at one static mutex.
- What a storage node is given was made by validators with code of this repository: the
  producer signs a block, attestors check it and answer with patches, the producer
  appends them. `push_putBlock` passes on whatever bytes it is sent. The node checks
  signatures over bytes it writes anew from what it read, and hashes and stores the bytes
  it was sent.
- Clients read inboxes and accounts while blocks are unpacked into them and the
  deletion job takes rows out.
- Contract events change the validator set, the block size and the assignment while
  the other parts are at work. They reach the node by polling, each subscription for
  itself, and none is told of what happened before it began.

### What is hard, and what makes each part correct

| Component | Hard behaviour | Correct means |
|---|---|---|
| Intake | insert race of several callers; a block's row and its inbox rows are not one transaction; an answer lost after a commit; addresses and INIT_DID data that do not parse, values that no row takes; contract data read at two times | one caller unpacks a block; "true" means that every due inbox has its row; no row without a reason |
| Queue | ids drawn before the commit; stale and lost replies; a crash between accepting and saving the offset; one failing item; starving validators | no row is skipped, the offset never goes back, little is offered twice, every row is offered |
| Resharding | overlapping reshards; answers of the chain out of order; crashes in the middle of a reshard; page loops whose rows move; data shared between shards; arriving blocks | data expires only with a cause and after its day of grace; a shard is on record only when its data was asked for of all peers that could be found; changes are taken over |
| Validator contract | a snapshot read over many calls; listeners that begin behind it; subscriptions that are not ordered among each other; a start that fails half-way | at rest the maps are the contract's, wherever a listener could know |
| Peer sync | one page number per view for several shards; error answers that look like the last page; blocks that are refused; a cron job that drops rows under the clients; views that expire; repeated passes | SYNCED means stored; the page to resume from never runs ahead; passes end; recorded views are polled |
| Attestation | messages lost, late, twice or of another version of the block; signatures over what is restored, of a block that may have been sent in other bytes; nodes with another schema | accepted means attested, as it is and by whom it says; attested means accepted |
| Inboxes, accounts | rows of equal time at the end of a page; rows written and deleted between pages; INIT_DIDs of one DID indexed beside each other; statements that fail and are passed over | a reading is complete and without repetition; a linked wallet is found with its keys |

`PROJECT.json` lists the hazards at their lines, each with the properties that would
catch it.

## 2. Modules

    BlockLedger <-- refines -- BlockIntake   <-- MCBlockIntake, BlockIntakeProofs
                               BlockQueue    <-- MCBlockQueue, BlockQueueProofs
                               Reshard       <-- MCReshard, ReshardProofs
                               P2PSync       <-- MCP2PSync, P2PSyncProofs
                               ContractState <-- ContractStateProofs
    BlockCodec <-- extends --  BlockAttestation <-- MCBlockAttestation,
        |                                           BlockAttestationProofs
        +-- BlockCodecProofs <-- extends ----------/
                               Inbox         <-- MCInbox, InboxProofs

The order is that of importance: first the path every block takes (intake, queue),
then what may delete blocks (resharding), then what must fetch them again (sync),
then what they all take for granted (the contract's data, the signatures of a block),
then what is read of it all.
`BlockQueue` and `P2PSync` see the intake as one step that stores a block, refuses
it or finds it there, which is what the ledger promises. `Reshard` ends where
`P2PSync` begins: its `planned` is the set of records that `AddView` adds there. The
signers of a block are an input of `BlockIntake`; what they have vouched for is
`BlockAttestation`, whose last step is the check with which `BlockIntake` begins.
`Inbox` takes up the rows that `BlockIntake` writes and `Reshard` deletes, without their
shards. The contract events of `BlockIntake` and `BlockQueue` are atomic changes of what the node
knows; how that knowledge comes about is `ContractState`.

One action is the code between two `await`s on the database, a peer or the chain; a
step between two answers runs undisturbed because Node.js is single-threaded.
Operators that carry the comment "Mutant of ..." belong to no specification: they
are plausible errors, put in place of a definition to see that a property notices.

### BlockLedger - what the intake promises

A block is `absent`, `indexing`, `indexed` or `torn`. Being recorded happens once, an
owner completes it or is cut short, and a torn block is never taken up again. The
last part is what the code does, not what one would wish.

### BlockIntake - `StorageNode.handleBlock()`

State: `stored` (table `blocks`, by hash), `inbox` (table `storage_node`, by primary
key), `call` (each call's place in the handler), the contract data the handler reads,
and two history variables: the blocks answered "true", and the assignment with which
an unpacking began.

| Action | Code |
|---|---|
| `HandleBlock` | the validation: `checkBlock`, the signatures against the current validator set, `valPerBlock`, the shards of the block |
| `SelectHash`, `InsertBlock` | `saveBlockWithShardData()`: SELECT, then `INSERT .. ON CONFLICT DO NOTHING`, and the row count that decides who goes on |
| `BeginUnpack` | `unpackBlockToInboxes()` reads the assignment; the shards to process are the intersection, and an empty one switches the filter off |
| `Skip`, `PutRow`, `PutThrows`, `IndexTx` | one recipient: filtered out, its row written, its row never taken by the table or its address thrown at, the account of an INIT_DID indexed |
| `FinishUnpack` | the answer |
| `DbFails`, `InsertUnheard`, `Crash` | a database call throws; the INSERT commits but its answer is lost; the process dies |
| `NodeAdded`, `BlockParamsUpdated`, `MappingChanged` | contract events |

Nothing at a storage node looks at the inside of a transaction before it is unpacked, so
its content may end the unpacking each time it is tried: an address that does not parse or
has no shard (`ShardOf`), a value the row has no room for (`Refused`), and an INIT_DID whose
data or master key does not parse (`BadData`, `dbHelper.ts:408`), which throws with the
recipient's row already written. `AdmittedIsAnnounced` excepts blocks with such content.
What is filtered out does not count, except an address that does not parse: the filter
itself computes the shard.

### BlockQueue - from the validators' queues to `accept()`

State: per validator the committed rows, those inserted but not committed and the
last id of the sequence; the `dset_client` table; where the poll stands, with its
copy of the offsets (all offsets are read at the start of a job, and the endpoint's own
is kept up to date page by page). `CronTick`, `ReadPage`, `AcceptItem` and
`SaveOffset` are `poll()` and `readEndpoint()`; `InitClients` is
`queueClientHelper.ts`; the failing variants (`ReplyLost`, `NoItems`, `StaleReply`,
`AcceptFails`, `SaveFails`, `Crash`) are its `catch` branches and early returns. The
servers' side is `Append`, `Commit` and `AppendFails`, in which a burned id leaves a
gap. `SerialCommits` says whether inserts commit in the order of their ids; the code
does not enforce it.

### Reshard - following the assignment

State: the contract's assignment, this node's entry of the map in memory, the peers whose
`NodeInfo` is known (`storageNodes`), `saved` (the latest `contract_shards` row), the two
tables with their expiry columns, the records of planned syncs, the reshards under way, the
inbox rows an unpacking has still to write, and a clock that counts whole days. `Boot`,
`Deliver`, `Learn` and `TakeShards` are `StorageContractState`: the answer of the chain is
fixed when it is asked and arrives later, so that two answers may cross; the entry is set,
other nodes' entries are awaited, and what the reshard takes then may be the answer to a
later event. `LoadSaved`, `CountRows`, `MarkPage`, `MarkBlocks`, `AskPeer` and `Save` are
`handleReshard()` in order; `DeleteRows` and `DeleteBlocks` are the cron jobs;
`BlockArrives` and `PutRow` are the intake as far as it meets the reshard.

Whom a reshard asks is `PeersFor`: the storage contract names the peers of a shard, but
`SNodeInfoUtil` drops those that the validator contract's map does not have
(`snodeInfoUtil.ts:48`), which no one is told, and the assignment is saved all the same.
`Register` is a peer that becomes known there, at any time; the history `unknown` has the
pairs a reshard left out. So `SavedIsPlanned` promises that each peer of a recorded shard
was asked *unless it was unknown at that time*; a peer that becomes known later is not asked
for the shard again. What the other nodes' shards are is a constant. `AskPeer` is the
outcome of the last of the attempts that `callWithRetires(3, 1000)` makes.

Three readings of the code deserve a word. A page of `LIMIT/OFFSET` without `ORDER BY`
is any subset of the page's size. An empty assignment makes `getNodeShards()` throw
outside any `try`, so the process ends (Node 20 ends on an unhandled rejection), and
it does not come up again until the contract assigns it something. A reshard that
finds shards removed marks them and saves nothing, so each later one marks them anew.

### P2PSync - copying blocks from peers

State: the IN rows of `storage_sync_info` (status, last page, list of synced shards),
the mutex (`waiting`, `pass`), the map of clients with their page numbers, what each
client does next and the block hashes it holds, the blocks table, and at the peer's
side the views with their expiry. `AddView` and `Request` are the end of a reshard;
`StartPass`, `NextShard`, `EndShard` and `EndPass` are `initiatePooling()`; `Open`,
`Ask`, `Fetch`, `Store`, `NextPage`, `Mark` and `Close` are a client's turn;
`DropSynced` and `PeerDrops` are the cron jobs; `Crash` and `Restart` lose and
rebuild the memory. `AttemptFails`, `MayRetry` and `EndCall` are `callWithRetires()`:
a call to a peer has one attempt and `RETIRES` more, and fails with the last. `Faults`
chooses for each view what may fail: calls, some attempts of them, answers that are
errors, blocks that are refused, and whether the view may expire under its reader.

Left out because the code gives them no effect: `current_syncing_shard_id`, which is
written and never read; the filter in the construction of the map of clients, which
compares numbers with strings and filters nothing; the second turn of the retry
loop, which never runs. Polling is taken to be enabled, and blocks of equal time to
be listed in one order.

### ContractState - what a node knows of the validator contract

State: the contract's entries (the status of each node, the block parameters), the
events the provider has not polled and those it has polled and not emitted, where
`connect()` stands, the maps in memory, and two history variables. `List`, `Read` and
`Advance` are `loadConstantsAndSubscribeToUpdates()` and
`loadVSDNodesAndSubscribeToUpdates()`, one call of the contract each; `Subscribed` says
which `contract.on()` has been reached. `Handle` is the listener of an event:
`NodeAdded` writes the map of the node's type with the status OK, `NodeStatusChanged`
looks a node up among the validators, then the storage nodes, and drops what it does
not find. `GoDown` is a call that throws during the start, or the end of the process.

How ethers delivers events is not in `src/` and is taken as its provider works: logs
are polled on a timer, each subscription gets those of its own event in the order of
the chain, and the order between subscriptions is free. Nodes are not removed from the
contract's lists, whose events would not tell (there is no listener for it). A node's
URL and tokens never change after its registration in what the code reads, so an entry
is its status alone.

Left out: archival nodes (switched off by `ARCHIVAL_NODES_ON`), the random-node
parameters, which nothing reads, and the test validators from the environment.

### BlockCodec and BlockAttestation - the signatures of a block

`BlockCodec` is the wire format. Bytes are a sequence of field numbers with values; each
message has its defaults, the table of its reader's cases and that of its writer's
lines, as the generated code has them, and one `Decode` and one `Encode` run the tables.
They are operators with an operator parameter for what a field holds. The reader's loop is
a function of how many fields are read (`ReadFields`), not a recursive operator. A reader passes
over fields it does not know. `TxAttestorData`, where a comment of `block.proto` leaves room for
further fields of the attestors, exists in two versions.

State of `BlockAttestation`: the validators registered, the block in the producer's
memory, the bytes sent to attestors, the patches sent back, the bytes in the queue and
those the storage node accepted, as it was sent them. No message is ever taken out of a set,
so each may be
late, lost, or come twice.

| Action | Code |
|---|---|
| `Propose` | `signBlockAsValidator()`: votes, no attestations, the first signature |
| `Attest` | `checkBlockAsAttestor()` with all checks of the transactions, then `signBlockAsAttestor()` |
| `AppendPatch`, `Publish` | `appendPatchAsValidator()`, which checks nothing; the queue of the validator |
| `HandleBlock` | `checkBlockAsSNode()`, with which `handleBlock()` begins, of bytes from the queue or `Resent` |
| `RemoveValidator` | the contract |

A storage node gets a block from a queue, a peer or `push_putBlock`, and who sends it may
write it in another form: with its fields in another order, or with fields that the node
does not know and nobody signed. `Forms` gives such bytes, and `Resent` those of them that
the node reads as the same block. It accepts them, keeps and hashes them as they are
(`storageNode.ts:102`, `storageNode.ts:126`), and verifies a re-serialization of what it
read (`blockUtil.ts:587`). So one block may be stored under several hashes, and what
`BytesReadBack` promises of an accepted block is that its *readable* part is, written again,
byte for byte a block of the queue; of the bytes that are kept it promises nothing.

A signature is a term of its key and the bytes it is over, so that two signatures are
equal, and one is valid, exactly when bytes are equal: a check that restores other bytes
than were signed fails here as it does there. A hash is a term of its bytes. Lengths are
counted in fields and characters the check looks at. Whose signature an address asks for
is `OwnerOf`: the key in a push address, else the address itself. The value `"nobody"` is
the address that a signature over other bytes recovers to, and `"none"` that of no push
address; `SignaturesAssumption` and `PushAssumption` say that no proposed transaction
claims them. What validators do between these
calls is not in `src/`, and no test calls these functions: that a producer stops at
`valPerBlock` signatures and that an attestor checks before it signs is assumed. The first
is what `checkBlockFinalized()` asks for; the second is what `checkBlockAsAttestor()` is
there for.

### Inbox - what clients read

State: the rows of one category (`storage_node`), `push_keys` and `push_wallets` with
the transaction each row is from, where each unpacking is, the inserts under way, the
reading client with what it was given, and two histories: how much failed or crashed, and
whether INIT_DIDs of one DID were ever unpacked at the same time.

| Action | Code |
|---|---|
| `Unpack`, `PutRow` | `unpackBlockToInboxes()` and `putValueInStorageTable()`, recipient by recipient |
| `AddKeys` | `addPushKeys()`, whose errors are swallowed; then all wallets at once |
| `AddWallet`, `WalletFails` | `addPushWallets()`: the foreign key, the upsert, and the `Promise.all()` that one failure rejects while the others go on |
| `RowFails`, `Crash` | a statement fails or an INIT_DID's data throws, and the unpacking ends; the process dies anywhere, also between `push_keys` and `push_wallets`, and what the database has already been sent may still be carried out |
| `DeleteRows` | the deletion job, as far as one inbox sees it |
| `Open`, `ReadPage` | `getTransactions()`: the default of `firstTs`, then pages of 30 rows `WITH TIES` |
| `InfoOfDid`, `InfoOfWallet` | the two queries of `getAccountInfo()` |

An account is built up: wallets that only an older INIT_DID of a DID linked stay linked to
it. `AccountsAgree` therefore speaks of the wallets that the INIT_DID of the recorded keys
links, and of no others, and only where nothing failed or crashed.

A block's time is counted in half seconds, so that "now", which is rounded, may be
before or after the rows of this second. A page is read in one statement, which sees one
state of the table. `lastTs` is in milliseconds and `firstTs` in seconds; the client is
taken to convert.

## 3. Runs

Passing runs:

| Run | Question | Instance |
|---|---|---|
| `intake_safety` | One owner, answers mean indexed, justified rows, refinement of the ledger, calls return, what can be indexed is | two calls, two blocks that share a transaction (one registers a DID, which goes to every shard), an address that throws and one without a shard, an INIT_DID with bad data, a row the table refuses, the assignments "none", "one" and "the other", two validators, one crash, one failure |
| `queue_polls` | Nothing skipped, bounded redelivery, monotone offsets, every row offered although one validator may have more than a job reads; a block is stored although one `accept()` fails | two validators with the same two blocks, one with up to three ids and one with a single one, pages of 1, 2 requests per job, a fault, a crash, a status change |
| `reshard_safety` | Expiry only with a cause, grace periods, planned before saved | two overlapping reshards, two shards, two peers with `NodeInfo` or not, a transaction on both shards, pages of 1, an arriving block, two changes (also to nothing), a failure, a crash, two days |
| `reshard_serial` | Reshards end, changes are taken over, expired data goes; shards are on record as long as no call has failed | one reshard at a time, one peer, three inbox rows; also an empty assignment, a failing call and a crash, two changes, two days |
| `sync_mixed` | The views whose calls fail only now and then become SYNCED with all their blocks; the number of marks stands for the set of shards; passes end whatever fails | two views of both shards, one that is flaky, one with all kinds of faults and an expiry; a retry, pages of 1, two requests |
| `sync_restart` | The saved page never runs ahead, nor does a mark or SYNCED where the page can be trusted; the inductive invariant | a view of both shards and a view of one, two requests, one crash, calls that fail anywhere |
| `contract_events` | At rest the maps are the contract's; a node that stays up comes to rest | two validators and a storage node, each present or not at the start, one later status, two sizes, three changes, a restart |
| `attested_blocks` | What is accepted was attested and is owned; what was attested is accepted; patches are told apart; bytes survive | a producer, three attestors (one votes against, one has a newer schema), three signatures per block, two of four proposals (one links a foreign wallet, one was changed after it was signed), three patches, one published block, sent in its own bytes or with a field that the node does not know (in the block, a transaction or a signer), one accepted; a validator that is dropped |
| `inbox_reads` | Readings are complete and end; linked wallets are found; keys and wallets agree | three blocks, two INIT_DIDs of one DID at the same time and one of another DID that takes over a wallet, pages of 1, both orders, a failing statement or a crash, deletions |

Runs that must find a violation. Each shows a disagreement between the code and what
its own comments or README say; `PROJECT.json` quotes the line under "findings".

| Run | What the counterexample shows | Its place beside the theorems |
|---|---|---|
| `queue_reorder` | of two inserts that commit in the opposite order of their ids the later one is never read | why `NoRowSkipped` needs its assumption |
| `reshard_again` | a shard removed and given back within a day loses its data: removals are not saved, so the node sees no change | the theorems promise a day, not that assigned data stays |
| `sync_crashed` | after a restart all shards of a view resume at the page of the one that was in progress | why `NothingSkippedOnRestart` speaks of views of one shard |

### What the models contain and no property promises

The following come out of the code as it is translated. A property that promised
the opposite is violated in a few steps, so none is stated; the hazards in
`PROJECT.json` carry a note.

- A crash or a throw between the INSERT of a block and the end of its unpacking loses
  the rest of its inbox rows: every later call stops at the hash
  (`IndexStorage.ts:37`). The ledger calls this state `torn`.
- A block that touches none of the node's shards is unpacked to all its recipients,
  since an empty intersection switches the filter off (`IndexStorage.ts:63`).
- A validator banned while the node was down stays enabled in `dset_client`
  (`queueClientHelper.ts:17`).
- A change of the assignment between the read at start-up and the subscription goes
  unnoticed until the next one (`storageContractState.ts:71`).
- Rows are marked and deleted by transaction: those of a shard that stays go with
  those of one that was removed (`IndexStorage.ts:196`); and unordered pages may
  leave rows without a date (`IndexStorage.ts:190`).
- An error answer of a peer is taken for the last page (`storageSyncClient.ts:133`),
  and a block that is refused is passed over (`blockPolling.ts:300`); the shard is
  marked in both cases.
- A shard that is polled again after it was done is marked twice, and the length of
  the list of marks then makes a view SYNCED while another shard is open
  (`storageSyncClient.ts:85`).
- What changes in the validator contract between the read of an entry and the first
  poll with a listener is never told (`validatorContractState.ts:326`), and an
  addition emitted behind a later change of the same node sets it back to OK
  (`validatorContractState.ts:346`). The properties of `ContractState` except entries
  of which this may be so (`missed`, `overtaken`).
- A view recorded by a second reshard is not polled before a restart
  (`blockPolling.ts:184`), and a view is dropped a day after it was made, however
  lately it was read (`block.ts:236`).
- A peer whose `NodeInfo` is unknown when a reshard plans is left out
  (`snodeInfoUtil.ts:48`), and one that answers with an error is only logged: the
  assignment is saved in both cases, and while the shard is on record it is not asked again.
- A block in another form, which reads the same, has another hash (`storageNode.ts:126`)
  and is stored beside the first.
- A patch that is appended twice fills the count of signatures with one attestor's, and
  no check counts nodes (`blockUtil.ts:405`, `blockUtil.ts:580`).
- `checkTxPayload()` returns none of the failures it makes (`blockUtil.ts:349`).
- An ascending reading that begins without a `firstTs` begins at the present and finds
  nothing that is there: `isFirstQuery` is computed after the default is put in
  (`dbHelper.ts:510`, `dbHelper.ts:518`).
- A failed write of `push_keys` is passed over (`pushKeys.ts:38`), and nothing compares
  times: an INIT_DID that is unpacked later than a newer one puts its keys back.

### Why the bounds are enough

Each bound lets its case happen at least once next to every other step. Two calls
make the insert race, and a third would meet the block in the same two states; two
blocks with a common transaction make rows that two unpackings write; one crash can
fall on every step. Three ids for two blocks with pages of one row give two pages
and a gap in the ids; the second validator's single row is what must not starve. Two reshards
at once and two changes make answers of the chain cross; pages of one row make every
page loop run more than once; two days are one in which data is granted its grace
and one in which it is over. Three blocks, of which one is on both shards, make
pages of one shard that contain what another has already fetched. In
`contract_events` three changes suffice for a registration, a change of status that
overtakes it and one more in the window; before, between and after all calls of the
start. Two requests and three patches are a patch of another block or of another version
of the same one beside those that belong together, with one attestor over. One accepted
block is enough for its properties, each of which speaks of one at a time, and in a
form of its own it differs from all that is published. Pages of one row
with two rows of one time are the least in which a tie does not fit; three INIT_DIDs are
two of one DID and one that comes between them and a wallet. What does not
depend on the bound is proved (section 5).

Deadlock is checked for the intake, the queue and the attestation. It is not for
`Reshard`, `P2PSync`, `ContractState` and `Inbox`: with its days, faults, events or
blocks spent the modelled system really stops, with nothing left to mark, delete, fetch,
tell or read.

Each property of a passing run has a mutant in `PROJECT.json`: a change of one
definition, the kind of error one might make in that code, with which the same run
finds the property violated.

## 4. Fairness

Liveness is only claimed under weak fairness of the program's own continuations:

- `BlockIntake`: each call's `Step`. The database answers, or fails and the call
  throws. Crashes, failures and contract events are never fair.
- `BlockQueue`: `ClientStep`, the poll as one sequential process. Its cron job fires
  every 30 seconds (`queueManager.ts`) and reads the endpoints in turn. Validators
  owe nothing; the faults are bounded.
- `Reshard`: the steps of each reshard, the delivery of events, the two deletion
  jobs of `cronScheduler.ts`, and the restart of a process that ended.
- `P2PSync`: the call that follows the recorded views, the pass, each client, the
  restart. A peer that never answers is outside this assumption: with the static
  mutex it would block every later sync, since no call has a timeout of its own.

- `ContractState`: the provider's poll and the emission of what it has polled.
  `SettlesOnContract` asks that the process stays up, so neither its start nor its
  restart needs to be fair.
- `Inbox`: `ReadPage`, a client that asks on. An ascending reading ends because there are
  finitely many blocks; nothing is asked of the writers.
- `BlockAttestation` states no liveness: producers may stop, and messages may be lost.

The repository has no unit that restarts the process; restart fairness is the
operator's part, and only the liveness properties of `Reshard` and `P2PSync` use it.

## 5. Proofs

TLAPS proves the following for every value of the constants, from the named
assumptions in the modules, which state types and are evaluated by the runs.

**`BlockIntakeProofs`.** `TypeCorrect`; `IntakeInvariant` (`IInv`) and, from it,
`SingleOwner`, `AnnouncedAreIndexed`, `RowsAreJustified`; `Refinement`
(`Spec => Ledger!Spec`).
`OneOwner` alone is inductive only together with what `stored` and `announced` say
of each other. `AnnouncedIsIndexed` speaks of the moment the last position is
passed, so the invariant must say what a call in the middle of its loop has done
(`PassedIsServed`) and that its view is the recorded one. That a row is inserted with
nothing recorded about its unpacking is `FreshUnpack`. One lemma per action, then a
lemma that combines them. The refinement maps each step: `InsertBlock` of an absent
block to `Record`, `FinishUnpack` to `Complete`, a throw of an owner or a crash
to `Abandon` of the blocks that lose their owner, all others to a stutter.

**`BlockQueueProofs`.** `TypeCorrect`; `PollInStep` (`OffsetInStep`) and from it
`OffsetsNeverGoBack`, for any order of commits; `QueueInvariant` and `NoRowSkipped`
under `SerialCommits`. A row can be missed only by an offset that passes it, so
the invariant has to say that a page covers the whole range from the offset to its
last id (`PageCovered`), that an id which is still to appear lies above all that are
used (`IdsOrdered`, where the assumption is needed) and that the poll's copy of the
offset is the table's. `queue_reorder` shows that the assumption cannot be dropped.
`LittleIsRepeated` is the bound on what a restart repeats. What was handed over beyond
the offset has no gap (`BeyondIsPrefix`), and ids are not used twice, so the next page
from the same offset, which is as long as the queue allows, contains it (`PageIsWhole`).

**`ReshardProofs`.** `ReshardInvariant` (`RInv`), `RowsKeepTheirDay`,
`BlocksKeepTheirDay`, `RecordedShardsAsked`, `SerialReshardsAreRecorded`. The grace periods are action properties; they follow from the
fact that a date in a table, or one a reshard is about to write, is later than the
day on which a reshard removed the shards that justify it. The difficulty is that
a reshard writes dates long after it computed them, while others run: `MarksAreGrounded`
ties its dates to the history of removals, which never moves forward. The only
assumption with content is that the set of possible rows is finite. That recorded shards
were asked for is kept through each reshard by what it compares with: the record it read
was asked for, nothing that was asked for is forgotten, and of its own additions those
peers have been asked, or left out for want of their `NodeInfo`, that are not left to ask
(`Followed`). `SerialReshardsAreRecorded` is for one reshard at a time, as in
`reshard_serial`, and speaks of the time before the first failing call: until then the
reshard works for the map in memory and compares with the record until it ends (`InTurn`).

**`P2PSyncProofs`.** `TypeCorrect` for every choice of faults; `SyncInvariant`
(`SInv`) and `NothingSkippedOnRestart` when `handleBlock()` refuses no block. What is
not stored of the page a client is at is in its hands (`PageInHand`), and only an
empty hand lets it count the page (`PageDone`). The theorem speaks of views of
one shard: for several, `sync_crashed` is the counterexample. Pages are defined by the
rank of a line instead of a filtered sequence, so that no fact about a recursive
function is needed.

The second part of `P2PSyncProofs` is about the marks in `storage_sync_info` and the status that follows
from their number. `MarkInvariant` (`MarkInv`) and from it `MarksAreStored` and
`SyncedAreStored`: their hypothesis is that every view is `Faithful`, so that calls may
fail anywhere and for good, but a peer that answers tells the truth and keeps its view,
and `handleBlock()` stores what it gets. Without it an error answer ends a shard early
(`storageSyncClient.ts` cannot tell it from an empty page), and the property is false.
The invariant says for each view what its row stands for (`RowFollows`) and that the
blocks follow its clients (`BlocksFollow`): the pages before a client are stored, the
page it is at is stored or in its hands. A shard is marked at an empty page, so the proof
needs that no line of the shard lies beyond one. That is an induction over the listing;
it is done with least and greatest numbers instead (`LeastNat`, `GreatestNat`): of the
lines with at least the rank that the page asks for, the first one has exactly that rank,
and would be on the page (`RankBefore`, `EmptyPageEnds`).
`PollInvariant` (`PollInv`) and `SyncedArePolled` hold whatever fails. The code counts
marks and not shards, so the proof has to show that no shard is marked twice in the
first round (`MarkedOnce`: what is marked is no longer among the shards the pass has to
do), and that in a view whose calls succeed in the end none is left for a second one
(`NoneLeft`). `FirstRound` says where this counts. `HealthySyncIsStored` brings both
together for `SyncedMeansStored`; its hypothesis `MaxCrashes = 0` is that of `sync_mixed`,
and `sync_crashed` shows why it is needed. The set of shards is finite
(`ShardsAssumption`), as the cardinality of a view's shards is compared with the marks.

**`ContractStateProofs`.** `ContractInvariant` (`CInv`), `NodesAreKnown`,
`QuietNodesAgree`. Both promises speak of a node at rest; the invariant has to say
what holds of one that is not: an entry already taken agrees with the contract up to
the events under way (`MapsTrue`). It stands on the events themselves: their numbers
rise, what was polled comes before what was not, and the latest change under way
holds the contract's value (`EventsTrue`); what was polled has a listener
(`DueHeard`). The history variables mark the two holes in the code, so that the
theorems say that there is no third.

**`BlockCodecProofs`.** What the readers make of what the writers wrote. `TransactionBack`
gives a transaction back as it was, `BlockBack` and `PatchBack` a block and a patch of any
schema as another schema knows them, and `BlockBytesKept` says when reading and writing
gives the very bytes again: when no attestation has content in a field the reader passes
over. The loop of a reader is a recursive function; that it exists and is what its
equation says (`ReadsExist`, `ReadsSolve`) is shown with the least number at which it would
not be (`LeastNat`), without an induction theorem over an operator, and with it that the
fields of two parts are read one part after the other. One general lemma (`MessageRead`)
then goes through a writer's lines: when the reader's table has each line's case, with
numbers that are all different, a message is read back line by line; each message adds the
fact that its tables fit (`TransactionTables`, `BlockTables`, ...). A zero or empty field is
not written and is the reader's default, which is where the types of the fields count.

**`BlockAttestationProofs`.** `BlocksInvariant` (`BlocksInv`) is for any nodes, schemas,
proposals, bounds and order of messages. It says of each thing on its way whose parts it
is made of: a request is a block the producer signed with nothing else in it (`IsRequest`);
a reply is the patch its attestor made of such a block, after it reviewed it (`IsAnswer`);
the draft, and each published block, is the producer's block with, at each further place,
signature and attestations of one patch (`Composed`). From it follow all five properties
of `attested_blocks`. `BytesAreReadBack` has to deal with the newer schema, whose
attestors write a field the storage node passes over: it restores other bytes than such
an attestor signed, recovers nobody, and does not accept; so what it reads of a block that
it accepts is all that anyone signed, and `BlockBytesKept` applies to it (`AcceptedRead`).
That it may have been sent more than it reads is in the statement: `Forms` is any operator.
`AcceptedAreAttested` and
`PatchesAreRecovered` run backwards through a signature: a recovered signer means equal
bytes, equal bytes are read as equal blocks, so the patch was made of this block and no
earlier version. `AttestedAreAccepted` runs forwards: what a check restores of a published
block (`AsProposed`, `AsAttested`) are the bytes that were signed.
`AcceptedAreOwned` then asks what such an attestor looked at (`Reviewed`).
The two last are for `ValPerBlock >= 2`: with one signature a block is the
producer's alone, its transactions are looked at by nobody, and the storage node takes it.
`FinalIsStorable`: a block that `checkBlockFinalized()` passes also passes the storage
node's weaker check. `AttestationTyped` is the type invariant.

**`InboxProofs`.** `InboxTyped`; `LinkedAlwaysFound`, from the foreign key and the fact
that a row of `push_keys` always is of its own DID; `ReadingIsExact`. The invariant of a
reading says that what was given and is still there lies before the place the client has
reached, and what was there and was not given lies beyond it. A step of the client keeps
it because a page `WITH TIES` splits the rows that are left at the time of its last
(`PageSplits`), which rests on a finite set having a first element (`MinimalExists`,
proved without induction on an operator). A step of a writer keeps it because an upsert
leaves the time of a row that is there.

`KeysAndWalletsAgree` for `AccountsAgree`: as long as nothing failed or crashed and no two
unpackings of a DID overlapped, each insert under way is one of the unpacking that waits
for it, and of the transaction whose keys are recorded (`InsertsInHand`), so that a
wallet which is not linked yet still will be (`LinkedOrComing`); that is `AgreeInv`.

Only model-checked: all liveness (`CallsReturn`, `AdmittedIsAnnounced`,
`EveryRowOffered`, `EveryBlockStored`, `ReshardsEnd`, `ExpiredVanish`,
`ChangesAreTakenOver`, `KnownViewsSync`, `PassesEnd`, `SettlesOnContract`,
`ReadingsEnd`), which is out of the prover's reach under fairness. All other properties of
the runs that are to pass have a theorem. The hypotheses of the theorems are those of the runs: `MarkedIsStored`
while no block is refused and no answer is an error, and, like `SyncedIfResumable`, for
views of one shard or without a restart (`Resumable`); `SyncedIsPolled` in the first pass,
or for views whose calls succeed in the end; `SyncedMeansStored` for the latter
(`Healthy`), without a restart. The types and the inductive invariants `IInv`, `QInv`,
`MarkInv`, `PollInv`, `AgreeInv` and `BlocksInv` are proved and not part of a run; TLC
finds the last four to hold in the instances of `sync_restart`, `sync_mixed`, `inbox_reads`
and `attested_blocks` (with `IsSequence(s)`, which TLC cannot evaluate, read as
`DOMAIN s = 1..Len(s)`).

## 6. Not modelled

- Cryptography: signatures and hashes are terms, and no two of them collide. The age of a
  block (`ATTESTOR_MAX_BLOCK_AGE_SECONDS`), which depends on clocks.
- Blocks whose readable part no producer published. The node accepts such a block only when
  its parts were really signed, for instance when somebody else than the producer appends
  the attestors' patches; who might do so is not in `src/`.
- Of the wire format: session keys, `toObject()`, and bytes below the level of fields.
- `storage_getTransaction`, `storage_putTransaction`, `push_putBlockHash` and
  `pushSessionKeys.ts`: one statement, or none, without a state of their own.
- The plumbing around ethers: keys, ABI files, providers. Of archival nodes, random-node
  parameters and test validators see `ContractState`.
- What shards the contract gives the other nodes, which is a constant of `Reshard`
  (whether their `NodeInfo` is known is not).
- Express set-up, logging, environment, formatting, MySQL and Redis helpers that nothing
  calls: no state.

## 7. What could come next

1. The shards of the other nodes in `storageContractState.ts`, as they change: which peers
   a reshard finds for a shard while their own assignments move.
2. A composition of `Reshard` and `P2PSync`, in which the planned records are views,
   and of several nodes.
3. The steps on which the liveness arguments rest, proved without fairness: which measure
   each fair step of a call, a poll or a pass lessens, and that no other step raises it.
