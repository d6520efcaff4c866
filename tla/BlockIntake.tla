----------------------------- MODULE BlockIntake -----------------------------
(***************************************************************************)
(* StorageNode.handleBlock() as its concurrent callers run it: the queue   *)
(* poll, the RPC push_putBlock and the peer sync each hold a call, and     *)
(* calls interleave at every await.  One step is the code between two      *)
(* answers of the database.                                                *)
(*                                                                         *)
(* The table "blocks" is a set of hashes (its primary key) and the table   *)
(* "storage_node" a set of inbox rows, a row being its primary key         *)
(* (shard, wallet, transaction hash).                                      *)
(***************************************************************************)
EXTENDS Naturals, Sequences

CONSTANTS
  Calls,        \* slots for handleBlock() calls that may run at the same time
  Blocks, Txs, Wallets, Shards, Validators,
  Deliveries,   \* block -> its (tx, wallet) pairs in the order unpack visits them
  InitDid,      \* the transactions of category INIT_DID
  BadData,      \* those whose data does not parse or whose keys the tables may refuse
  Refused,      \* deliveries whose row does not fit: a category of over 20 characters
  ShardOf,      \* wallet -> its shard, NoShard or BadCaip
  NoShard,      \* calculateAffectedShard() returns null: empty or short address
  BadCaip,      \* calculateAffectedShard() throws
  Signers,      \* block -> sequence of the nodes that signed it
  ShardViews,   \* the shard sets the contract may assign to this node
  MaxValPerBlock, \* bound: the largest valPerBlock the contract sets
  MaxCrashes,   \* bound: process crashes
  MaxFailures   \* bound: database calls that fail

ASSUME DeliveriesAssumption ==
  Deliveries \in [Blocks -> Seq([tx : Txs, wallet : Wallets])]
ASSUME BadDataAssumption ==
  BadData \subseteq InitDid /\ Refused \subseteq [tx : Txs, wallet : Wallets]
ASSUME ShardOfAssumption ==
  /\ ShardOf \in [Wallets -> Shards \cup {NoShard, BadCaip}]
  /\ NoShard \notin Shards /\ BadCaip \notin Shards /\ NoShard # BadCaip
ASSUME SignersAssumption == Signers \in [Blocks -> Seq(Validators)]
ASSUME ShardViewsAssumption == ShardViews \subseteq SUBSET Shards
ASSUME BoundsAssumption ==
  MaxValPerBlock \in Nat /\ MaxCrashes \in Nat /\ MaxFailures \in Nat

VARIABLES
  stored,       \* the rows of table "blocks"
  inbox,        \* the rows of table "storage_node"
  call,         \* the state of every handleBlock() call
  nodeShards,   \* storageContractState.nodeShardMap.get(nodeAddress)
  validators,   \* the keys of valContractState.getAllNodesMap()
  valPerBlock,  \* contractCli.valPerBlock
  announced,    \* history: blocks for which handleBlock() returned true
  unpackedFor,  \* history: the nodeShards a block's unpack started with
  crashes, failures

tables  == <<stored, inbox>>
chain   == <<nodeShards, validators, valPerBlock>>
history == <<announced, unpackedFor>>
faults  == <<crashes, failures>>
vars    == <<tables, call, chain, history, faults>>

------------------------------------------------------------------------------
(* Pure parts of the handler. *)

Rows == [shard : Shards, wallet : Wallets, tx : Txs]

Positions(b) == 1..Len(Deliveries[b])

WalletShard(b, i) == ShardOf[Deliveries[b][i].wallet]

IsInitDid(b, i) == Deliveries[b][i].tx \in InitDid

Row(b, i) == [shard  |-> WalletShard(b, i),
              wallet |-> Deliveries[b][i].wallet,
              tx     |-> Deliveries[b][i].tx]

\* Statements and data nobody checked before the block was stored
IsRefused(b, i) == Deliveries[b][i] \in Refused
IsBadDid(b, i) == Deliveries[b][i].tx \in BadData

\* An INIT_DID transaction affects every shard, and its addresses are not parsed.
AffectedShards(b) ==
  IF \E i \in Positions(b) : IsInitDid(b, i)
  THEN Shards
  ELSE {WalletShard(b, i) : i \in Positions(b)} \ {NoShard, BadCaip}

AffectedShardsThrows(b) ==
  \E i \in Positions(b) : ~IsInitDid(b, i) /\ WalletShard(b, i) = BadCaip

CheckBlockAsSNode(b) ==
  /\ Len(Signers[b]) = valPerBlock
  /\ \A k \in 1..Len(Signers[b]) : Signers[b][k] \in validators

ShardsToProcess(b, view) == AffectedShards(b) \cap view

\* The loop "continue"s over an inbox only if the block touches this node at all.
SkipDelivery(b, i, view) ==
  /\ ShardsToProcess(b, view) # {}
  /\ WalletShard(b, i) \notin ShardsToProcess(b, view)

------------------------------------------------------------------------------
(* Calls. *)

IdleCall(reply) == [pc |-> "idle", reply |-> reply]

Idles == [pc : {"idle"}, reply : {"none", "new", "duplicate", "error"}]
Savers == [pc : {"select", "insert", "unpack"}, blk : Blocks]
Putters == [pc : {"put", "index"}, blk : Blocks, view : SUBSET Shards, pos : Nat]
CallStates == Idles \cup Savers \cup Putters

\* A call at position i of its block's deliveries.
AtPosition(pc, b, view, i) == [pc |-> pc, blk |-> b, view |-> view, pos |-> i]

\* The call inserted its block's row and now has to unpack the block.
Unpacking(c) == call[c].pc \in {"unpack", "put", "index"}

Return(c, reply) == call' = [call EXCEPT ![c] = IdleCall(reply)]

\* The service does not start on an empty assignment.
Init ==
  /\ stored = {} /\ inbox = {}
  /\ call = [c \in Calls |-> IdleCall("none")]
  /\ nodeShards \in ShardViews \ {{}}
  /\ validators \in SUBSET Validators
  /\ valPerBlock \in 1..MaxValPerBlock
  /\ announced = {}
  /\ unpackedFor = [b \in Blocks |-> {}]
  /\ crashes = 0 /\ failures = 0

\* A caller submits a block.  The signature check and the shard computation run
\* without waiting for I/O; what they reject leaves no trace.
HandleBlock(c, b) ==
  /\ call[c].pc = "idle"
  /\ IF CheckBlockAsSNode(b) /\ ~AffectedShardsThrows(b)
     THEN call' = [call EXCEPT ![c] = [pc |-> "select", blk |-> b]]
     ELSE Return(c, "error")
  /\ UNCHANGED <<tables, chain, history, faults>>

\* saveBlockWithShardData(): SELECT ... WHERE object_hash.
SelectHash(c) ==
  /\ call[c].pc = "select"
  /\ IF call[c].blk \in stored
     THEN Return(c, "duplicate")
     ELSE call' = [call EXCEPT ![c] = [pc |-> "insert", blk |-> call[c].blk]]
  /\ UNCHANGED <<tables, chain, history, faults>>

\* Mutant of RowCount: the row count is not looked at, every caller unpacks.
RowCountIgnored(b) == 1

\* Mutant of RowCount: the driver's count is misread, nobody unpacks.
RowCountZero(b) == 0

\* INSERT ... ON CONFLICT DO NOTHING affects one row iff the hash was absent.
RowCount(b) == IF b \in stored THEN 0 ELSE 1

InsertBlock(c) ==
  /\ call[c].pc = "insert"
  /\ stored' = stored \cup {call[c].blk}
  /\ IF RowCount(call[c].blk) = 1
     THEN call' = [call EXCEPT ![c] = [pc |-> "unpack", blk |-> call[c].blk]]
     ELSE Return(c, "duplicate")
  /\ UNCHANGED <<inbox, chain, history, faults>>

\* Mutant of BeginUnpack: the loop leaves out the first inbox.
BeginUnpackLate(c) ==
  /\ call[c].pc = "unpack" /\ nodeShards # {}
  /\ call' = [call EXCEPT ![c] = AtPosition("put", call[c].blk, nodeShards, 2)]
  /\ unpackedFor' = [unpackedFor EXCEPT ![call[c].blk] = nodeShards]
  /\ UNCHANGED <<tables, chain, announced, faults>>

\* unpackBlockToInboxes() begins: getNodeShards() throws on an empty assignment.
BeginUnpack(c) ==
  /\ call[c].pc = "unpack"
  /\ IF nodeShards = {}
     THEN Return(c, "error") /\ UNCHANGED history
     ELSE /\ call' = [call EXCEPT ![c] =
                          AtPosition("put", call[c].blk, nodeShards, 1)]
          /\ unpackedFor' = [unpackedFor EXCEPT ![call[c].blk] = nodeShards]
          /\ UNCHANGED announced
  /\ UNCHANGED <<tables, chain, faults>>

AtDelivery(c) ==
  /\ call[c].pc = "put"
  /\ call[c].pos \in Positions(call[c].blk)

\* Mutant of Advance: the position does not move.
AdvanceStuck(c) == UNCHANGED call

Advance(c) ==
  call' = [call EXCEPT ![c] =
             AtPosition("put", call[c].blk, call[c].view, call[c].pos + 1)]

\* The inbox belongs to a shard that is not processed here.
Skip(c) ==
  /\ AtDelivery(c)
  /\ WalletShard(call[c].blk, call[c].pos) # BadCaip
  /\ SkipDelivery(call[c].blk, call[c].pos, call[c].view)
  /\ Advance(c)
  /\ UNCHANGED <<tables, chain, history, faults>>

\* Mutant of PutRow: the shard of an inbox is not compared with the node's.
PutRowEverywhere(c) ==
  /\ AtDelivery(c)
  /\ WalletShard(call[c].blk, call[c].pos) \in Shards
  /\ inbox' = inbox \cup {Row(call[c].blk, call[c].pos)}
  /\ Advance(c)
  /\ UNCHANGED <<stored, chain, history, faults>>

\* putValueInStorageTable(): upsert the row, then index an INIT_DID transaction.
PutRow(c) ==
  /\ AtDelivery(c)
  /\ WalletShard(call[c].blk, call[c].pos) \in Shards
  /\ ~IsRefused(call[c].blk, call[c].pos)
  /\ ~SkipDelivery(call[c].blk, call[c].pos, call[c].view)
  /\ inbox' = inbox \cup {Row(call[c].blk, call[c].pos)}
  /\ IF IsInitDid(call[c].blk, call[c].pos)
     THEN call' = [call EXCEPT ![c] =
                     AtPosition("index", call[c].blk, call[c].view, call[c].pos)]
     ELSE Advance(c)
  /\ UNCHANGED <<stored, chain, history, faults>>

\* An address that does not parse throws; a null shard violates NOT NULL, and a value
\* that is too long is refused as well.
PutThrows(c) ==
  /\ AtDelivery(c)
  /\ \/ WalletShard(call[c].blk, call[c].pos) = BadCaip
     \/ /\ \/ WalletShard(call[c].blk, call[c].pos) = NoShard
           \/ IsRefused(call[c].blk, call[c].pos)
        /\ ~SkipDelivery(call[c].blk, call[c].pos, call[c].view)
  /\ Return(c, "error")
  /\ UNCHANGED <<tables, chain, history, faults>>

\* indexTransactionCategory() has written push_keys and push_wallets, or throws over the
\* data of an INIT_DID, of which the node has looked at nothing before.
IndexTx(c) ==
  /\ call[c].pc = "index"
  /\ \/ Advance(c)
     \/ IsBadDid(call[c].blk, call[c].pos) /\ Return(c, "error")
  /\ UNCHANGED <<tables, chain, history, faults>>

\* The loops are over and handleBlock() returns true.
FinishUnpack(c) ==
  /\ call[c].pc = "put"
  /\ call[c].pos \notin Positions(call[c].blk)
  /\ announced' = announced \cup {call[c].blk}
  /\ Return(c, "new")
  /\ UNCHANGED <<tables, chain, unpackedFor, faults>>

------------------------------------------------------------------------------
(* Failures and the environment. *)

\* A database call fails and the rejection travels up to the caller.
DbFails(c) ==
  /\ failures < MaxFailures
  /\ \/ call[c].pc \in {"select", "insert", "index"}
     \/ /\ AtDelivery(c)
        /\ ~SkipDelivery(call[c].blk, call[c].pos, call[c].view)
  /\ failures' = failures + 1
  /\ Return(c, "error")
  /\ UNCHANGED <<tables, chain, history, crashes>>

\* The INSERT commits but its answer is lost with the connection.
InsertUnheard(c) ==
  /\ failures < MaxFailures
  /\ call[c].pc = "insert"
  /\ stored' = stored \cup {call[c].blk}
  /\ failures' = failures + 1
  /\ Return(c, "error")
  /\ UNCHANGED <<inbox, chain, history, crashes>>

\* Mutant of Crash: the row of a block is kept only once the block is unpacked.
CrashUndoesInsert ==
  /\ crashes < MaxCrashes
  /\ crashes' = crashes + 1
  /\ stored' = stored \cap announced
  /\ call' = [c \in Calls |-> IdleCall("none")]
  /\ UNCHANGED <<inbox, chain, history, failures>>

\* The process dies: every call is lost, the tables stay.
Crash ==
  /\ crashes < MaxCrashes
  /\ \E c \in Calls : call[c].pc # "idle"
  /\ crashes' = crashes + 1
  /\ call' = [c \in Calls |-> IdleCall("none")]
  /\ UNCHANGED <<tables, chain, history, failures>>

\* NodeAdded event of the validator contract.
NodeAdded(v) ==
  /\ v \notin validators
  /\ validators' = validators \cup {v}
  /\ UNCHANGED <<tables, call, nodeShards, valPerBlock, history, faults>>

\* BlockParamsUpdated event of the validator contract.
BlockParamsUpdated(n) ==
  /\ n # valPerBlock
  /\ valPerBlock' = n
  /\ UNCHANGED <<tables, call, nodeShards, validators, history, faults>>

\* SNodeMappingChanged gives this node another set of shards.  An empty one is
\* seen until the error it raises in the event handler ends the process: Crash.
MappingChanged(S) ==
  /\ S # nodeShards
  /\ nodeShards' = S
  /\ UNCHANGED <<tables, call, validators, valPerBlock, history, faults>>

\* The continuation of a call that is not idle.
Step(c) == \/ SelectHash(c) \/ InsertBlock(c) \/ BeginUnpack(c)
           \/ Skip(c) \/ PutRow(c) \/ PutThrows(c) \/ IndexTx(c)
           \/ FinishUnpack(c)

Next ==
  \/ \E c \in Calls : \E b \in Blocks : HandleBlock(c, b)
  \/ \E c \in Calls : Step(c) \/ DbFails(c) \/ InsertUnheard(c)
  \/ Crash
  \/ \E v \in Validators : NodeAdded(v)
  \/ \E n \in 1..MaxValPerBlock : BlockParamsUpdated(n)
  \/ \E S \in ShardViews : MappingChanged(S)

Spec == Init /\ [][Next]_vars

\* The event loop resumes every call whose database answer is in.
FairSpec == Spec /\ \A c \in Calls : WF_vars(Step(c))

------------------------------------------------------------------------------
(* Properties. *)

\* Type invariant of the tables, the calls and what the node knows of the chain.
TypeOK ==
  /\ stored \subseteq Blocks
  /\ inbox \subseteq Rows
  /\ call \in [Calls -> CallStates]
  /\ nodeShards \in ShardViews
  /\ validators \subseteq Validators
  /\ valPerBlock \in 1..MaxValPerBlock
  /\ announced \subseteq Blocks
  /\ unpackedFor \in [Blocks -> SUBSET Shards]
  /\ crashes \in 0..MaxCrashes /\ failures \in 0..MaxFailures

Owns(c, b) == Unpacking(c) /\ call[c].blk = b

\* However many callers submit the same block at once - a queue poll, an RPC and
\* a peer sync - at most one of them unpacks it, only after its row is in the
\* table, and never again once handleBlock() returned true for it.
OneOwner ==
  /\ \A c \in Calls : Unpacking(c) => call[c].blk \in stored \ announced
  /\ \A c, d \in Calls :
       Unpacking(c) /\ Unpacking(d) /\ call[c].blk = call[d].blk => c = d

\* The i-th inbox of block b is one that a node assigned to "view" fills.
Due(b, i, view) == WalletShard(b, i) \in Shards /\ ~SkipDelivery(b, i, view)

\* When handleBlock() answered true, the row of every inbox that was due under the
\* shard assignment the unpack read is in the table, crashes and failures of
\* other calls notwithstanding.
AnnouncedIsIndexed ==
  \A b \in announced : \A i \in Positions(b) :
    Due(b, i, unpackedFor[b]) => Row(b, i) \in inbox

\* No inbox row without a reason: each comes from a stored block whose unpack had
\* begun, at a position that was due under the assignment it read - also when
\* the assignment, the validator set or the block size changed meanwhile.
RowsJustified ==
  \A r \in inbox : \E b \in stored : \E i \in Positions(b) :
    /\ r = Row(b, i)
    /\ unpackedFor[b] # {}
    /\ Due(b, i, unpackedFor[b])

\* Only stored blocks were announced, and a block that is not unpacked yet has no
\* recorded assignment.
FreshUnpack ==
  /\ announced \subseteq stored
  /\ \A b \in Blocks \ stored : unpackedFor[b] = {}
  /\ \A c \in Calls : call[c].pc = "unpack" => unpackedFor[call[c].blk] = {}

\* A call in the loop has served every position it passed.
PassedIsServed ==
  \A c \in Calls :
    call[c].pc \in {"put", "index"} =>
      /\ call[c].view # {} /\ unpackedFor[call[c].blk] = call[c].view
      /\ call[c].pos >= 1
      /\ \A i \in Positions(call[c].blk) :
           (i < call[c].pos \/ (i = call[c].pos /\ call[c].pc = "index"))
             /\ Due(call[c].blk, i, call[c].view)
           => Row(call[c].blk, i) \in inbox

\* The inductive invariant of handleBlock(): who owns a block, what its owner has
\* done so far, and what the tables hold as a result.
IInv == /\ TypeOK /\ OneOwner /\ AnnouncedIsIndexed /\ RowsJustified
        /\ FreshUnpack /\ PassedIsServed

LedgerStatus(b) ==
  IF b \in announced THEN "indexed"
  ELSE IF b \notin stored THEN "absent"
  ELSE IF \E c \in Calls : Owns(c, b) THEN "indexing"
  ELSE "torn"

Ledger == INSTANCE BlockLedger WITH status <- [b \in Blocks |-> LedgerStatus(b)]

\* handleBlock() implements the ledger: a block is recorded once, indexed by one
\* owner, and a block whose owner failed is never taken up again, because every
\* later call stops at "already exists".
ImplementsLedger == Ledger!Spec

\* Every call returns: nothing in handleBlock() waits for another call.
CallsReturn == \A c \in Calls : (call[c].pc # "idle") ~> (call[c].pc = "idle")

\* A node assigned to "view" may fail to unpack block b over what is in it: some address
\* does not parse, or one that is not filtered out has no shard, does not fit into its
\* row or gets an INIT_DID with bad data.
Unservable(b, view) ==
  \E i \in Positions(b) :
    \/ WalletShard(b, i) = BadCaip
    \/ /\ WalletShard(b, i) = NoShard \/ IsRefused(b, i) \/ IsBadDid(b, i)
       /\ ~SkipDelivery(b, i, view)

\* A block that passed validation and was not left half indexed before is indexed in
\* the end, whoever of its submitters wins the insert and however the other calls
\* fare.  What comes in between is a crash, a failing database, an empty assignment,
\* or content of the block that validation at a storage node does not look at.
AdmittedIsAnnounced ==
  \A b \in Blocks :
    (LedgerStatus(b) # "torn" /\ \E c \in Calls : call[c].pc = "select" /\ call[c].blk = b)
      ~> \/ b \in announced
         \/ crashes # 0 \/ failures # 0 \/ nodeShards = {}
         \/ unpackedFor[b] # {} /\ Unservable(b, unpackedFor[b])
==============================================================================
