-------------------------- MODULE BlockAttestation --------------------------
(***************************************************************************)
(* How a block gets the signatures a storage node asks of it (BlockUtil).  *)
(* A block producer, V, votes for its transactions and signs the block.    *)
(* Attestors check it, add one attestation per transaction, sign what they *)
(* have then, and answer with a patch.  The producer appends patches until *)
(* the block has as many signatures as the contract asks for and puts it   *)
(* into its queue.  A storage node takes it from there or from whoever     *)
(* sends it on, and restores from it the bytes each of the signers had     *)
(* before it.  What is sent on need not be the bytes of the queue: others  *)
(* may write the fields in another order or add fields of a later schema,  *)
(* and the node hashes and keeps what it was sent.                         *)
(*                                                                         *)
(* Messages may be lost, delayed or delivered twice: requests and replies  *)
(* stay where they are, and any of them may be read at any time.           *)
(***************************************************************************)
EXTENDS BlockCodec

CONSTANTS
  Producer, Attestors, \* nodes: names of keys
  Schema,       \* node -> its version of block.proto
  StorageNode,  \* runs the code of this repository
  Proposals,    \* blocks the producer may come up with, not signed
  VoteOf,       \* attestor -> its vote
  Forms(_),     \* bytes of a block -> bytes that others write when they send it on
  PushAddress,  \* a push address -> the EVM address in it
  ValPerBlock,  \* validatorContract.valPerBlock
  MaxTransactions, MaxTransactionSize, MaxTotalSize, \* MAX_TRANSACTION... of BlockUtil
  MaxProposals, \* bound: blocks signed by the producer
  MaxReplies,   \* bound: patches
  MaxPublished, \* bound: blocks in the queue
  MaxAccepted,  \* bound: bytes of blocks that the storage node accepts
  Removable     \* bound: nodes the contract may drop

\* A block of transactions that nobody signed yet
IsList(s) == Len(s) \in Nat /\ s = [i \in 1..Len(s) |-> s[i]]
IsProposal(block) ==
  /\ block = [ts |-> block.ts, attesttoken |-> block.attesttoken, txobj |-> block.txobj,
              signers |-> <<>>]
  /\ IsList(block.txobj)
  /\ \A i \in 1..Len(block.txobj) :
       LET txObj == block.txobj[i] IN
       /\ txObj = [tx |-> txObj.tx, validatordata |-> txObj.validatordata,
                   attestordata |-> txObj.attestordata]
       /\ txObj.tx # Null =>
            /\ txObj.tx = [n \in DOMAIN EmptyTransaction |-> txObj.tx[n]]
            /\ IsList(txObj.tx.recipients)

Nodes == {Producer} \cup Attestors
ASSUME NodesAssumption == Producer \notin Attestors
ASSUME SchemaAssumption ==
  Schema \in [Nodes \cup {StorageNode} -> Schemas] /\ Schema[StorageNode] = "this"
ASSUME VotesAssumption == VoteOf \in [Attestors -> {1, 2}]
ASSUME NobodyAssumption == "nobody" \notin Nodes
ASSUME ProposalsAssumption == \A block \in Proposals : IsProposal(block)
ASSUME CountAssumption ==
  /\ ValPerBlock \in Nat \ {0} /\ MaxTransactions \in Nat /\ MaxTransactionSize \in Nat
  /\ MaxTotalSize \in Nat /\ MaxProposals \in Nat /\ MaxReplies \in Nat
  /\ MaxPublished \in Nat /\ MaxAccepted \in Nat

VARIABLES
  validators, \* nodes registered at the validator contract
  draft,      \* the block in the producer's memory
  requests,   \* bytes of the blocks sent to the attestors
  replies,    \* patches sent back: [from, of (the request's bytes), bytes]
  published,  \* bytes of the blocks in the producer's queue
  accepted    \* bytes that passed the storage node's check, as it was sent them

vars == <<validators, draft, requests, replies, published, accepted>>

Init ==
  /\ validators = Nodes
  /\ draft = EmptyBlock
  /\ requests = {} /\ replies = {} /\ published = {} /\ accepted = {}

------------------------------------------------------------------------------
(* Signatures: a signature names its key and the bytes it is over. *)

\* EthUtil.signBytes() and what else signs
Signature(key, bytes) == <<[by |-> key, over |-> bytes]>>

\* EthUtil.recoverAddressFromMsg(), ethers' verifyMessage(): of other bytes than those
\* that were signed comes the address of nobody.
Recover(bytes, sig) ==
  IF sig # <<>> /\ sig[1].over = bytes THEN sig[1].by ELSE "nobody"

BlockBytes(bytes) == [block |-> bytes]
HashBytes(bytes)  == [hash |-> bytes]                  \* messageBytesToHashBytes()
ConnectAccount(masterKey) == [connectTo |-> masterKey] \* buildConnectAccountString()

HasSize(text, min, max) == Len(text) >= min /\ Len(text) <= max
StartsWith(text, prefix) ==
  Len(text) >= Len(prefix) /\ SubSeq(text, 1, Len(prefix)) = prefix

\* An address is what split(':') makes of it.
ParseCaip(address) ==
  LET n == Len(address)
      addr == IF n = 0 THEN "" ELSE address[n]
  IN  [ok |-> /\ n \in {2, 3}
              /\ HasSize(address[1], 1, 8)
              /\ n = 3 => HasSize(address[2], 1, 32)
              /\ IF StartsWith(addr, "0x") THEN HasSize(addr, 6, 67)
                 ELSE HasSize(addr, 4, 65),
       namespace |-> IF n = 0 THEN "" ELSE address[1],
       chainId |-> IF n = 3 THEN address[2] ELSE "",
       addr |-> addr]

IsFullCaip(address) == ParseCaip(address).ok /\ ParseCaip(address).chainId # ""

EvmOfPush(addr) == IF addr \in DOMAIN PushAddress THEN PushAddress[addr] ELSE "none"

\* The check of a signature by the owner of an address, on the chains there are.
CheckNetworkSignature(caip, bytes, sig) ==
  \/ caip.namespace = "push" /\ Recover(bytes, sig) = EvmOfPush(caip.addr)
  \/ caip.namespace \in {"eip155", "solana"} /\ Recover(bytes, sig) = caip.addr

\* Who signs has a key, and its address is neither the one that other bytes give nor a
\* push address; and nobody claims that one.
IsKey(key) == key \notin {"nobody", "none"} \cup DOMAIN PushAddress
IsSignature(sig) ==
  \/ sig = <<>>
  \/ sig = <<[by |-> sig[1].by, over |-> sig[1].over]>> /\ IsKey(sig[1].by)
IsClaimed(address, sig) == address[Len(address)] # "nobody" /\ IsSignature(sig)
IsSigned(tx) ==
  LET links == DecodeInitDid(tx.data).wallettoencderivedkey IN
  /\ IsClaimed(tx.sender, tx.signature)
  /\ \A wallet \in DOMAIN links : IsClaimed(wallet, links[wallet].signature)
ASSUME PushAssumption == \A addr \in DOMAIN PushAddress : PushAddress[addr] # "nobody"
ASSUME SignaturesAssumption ==
  \A block \in Proposals : \A i \in 1..Len(block.txobj) :
    block.txobj[i].tx # Null => IsSigned(block.txobj[i].tx)

------------------------------------------------------------------------------
(* Transactions.  A check that throws counts as one that fails: either way  *)
(* the attestor does not sign. *)

CheckInitDidSignature(initDid, tx, bytes) ==
  Recover(HashBytes(bytes), tx.signature) = initDid.masterpubkey
CheckInitDidSender(initDid, caip) == EvmOfPush(caip.addr) = initDid.masterpubkey
\* Mutant: any wallet may be linked.
AnyWallet(initDid, wallet) == ParseCaip(wallet).ok

CheckWalletMapping(initDid, wallet) ==
  /\ ParseCaip(wallet).ok
  /\ CheckNetworkSignature(ParseCaip(wallet), ConnectAccount(initDid.masterpubkey),
                           initDid.wallettoencderivedkey[wallet].signature)

\* The signature is over the transaction without it, written once more.
UnsignedBytes(tx) ==
  EncodeTransaction([DecodeTransaction(EncodeTransaction(tx)) EXCEPT !.signature = <<>>])

CheckTxSignature(tx) ==
  LET caip == ParseCaip(tx.sender)
      initDid == DecodeInitDid(tx.data)
  IN  /\ caip.ok /\ tx.signature # <<>>
      /\ IF tx.category = "INIT_DID"
         THEN /\ CheckInitDidSignature(initDid, tx, UnsignedBytes(tx))
              /\ CheckInitDidSender(initDid, caip)
              /\ \A wallet \in DOMAIN initDid.wallettoencderivedkey :
                   CheckWalletMapping(initDid, wallet)
         ELSE CheckNetworkSignature(caip, HashBytes(UnsignedBytes(tx)), tx.signature)

\* checkTxPayload() makes a failure of a missing key, a missing wallet or an unknown
\* category, and returns none of them.
CheckTxPayload(tx) == TRUE

CheckTx(tx) ==
  /\ StartsWith(tx.apitoken, "VT1")
  /\ tx.type = 0
  /\ IsFullCaip(tx.sender)
  /\ \A i \in DOMAIN tx.recipients : IsFullCaip(tx.recipients[i])
  /\ Len(tx.salt) >= 4
  /\ CheckTxPayload(tx)
  /\ CheckTxSignature(tx)

------------------------------------------------------------------------------
(* Whose signatures a block has. *)

\* What the producer signed: no signatures, no attestations.
AsProposed(block) ==
  [block EXCEPT !.signers = <<>>,
                !.txobj = [i \in DOMAIN @ |-> [@[i] EXCEPT !.attestordata = <<>>]]]

\* Mutant: always the first attestation.
FirstAttestation(block, k) ==
  [block EXCEPT !.signers = <<@[1]>>,
                !.txobj = [i \in DOMAIN @ |->
                   [block.txobj[i] EXCEPT !.attestordata = <<@[1]>>]]]

\* What the attestor of signature k > 1 signed: the producer's signature and the
\* attestation k - 1 of each transaction.
AsAttested(block, k) ==
  [block EXCEPT !.signers = <<@[1]>>,
                !.txobj = [i \in DOMAIN @ |->
                   [block.txobj[i] EXCEPT !.attestordata = <<@[k - 1]>>]]]

\* An attestation that is missing cannot be written: setAttestordataList([undefined]) throws.
CanRestore(block, k) ==
  k = 1 \/ \A i \in DOMAIN block.txobj : k - 1 \in DOMAIN block.txobj[i].attestordata

\* recoverSignerAddress(), with signers counted from 1
RecoverSigner(node, block, k) ==
  LET copy == DecodeBlock(Schema[node], EncodeBlock(Schema[node], block))
  IN  IF ~CanRestore(block, k) THEN "nobody"
      ELSE Recover(BlockBytes(EncodeBlock(Schema[node],
                     IF k = 1 THEN AsProposed(copy) ELSE AsAttested(copy, k))),
                   block.signers[k].sig)

\* Mutant: the patch's attestations are not put into the block.
RecoverBare(node, block, patch) ==
  Recover(BlockBytes(EncodeBlock(Schema[node],
            DecodeBlock(Schema[node], EncodeBlock(Schema[node], block)))),
          patch.signer.sig)

\* recoverPatchAddress(): what the attestor signed if block has only the producer's
\* signature, as this puts the patch's attestations and leaves the signatures.
RecoverPatch(node, block, patch) ==
  LET copy == DecodeBlock(Schema[node], EncodeBlock(Schema[node], block))
  IN  IF \E i \in DOMAIN copy.txobj : i \notin DOMAIN patch.attestordata THEN "nobody"
      ELSE Recover(BlockBytes(EncodeBlock(Schema[node],
             [copy EXCEPT !.txobj = [i \in DOMAIN @ |->
                [@[i] EXCEPT !.attestordata = <<patch.attestordata[i]>>]]])),
             patch.signer.sig)

------------------------------------------------------------------------------
(* The checks of blocks. *)

\* The bytes of a transaction, counted in fields.
TransactionSize(tx) == Len(EncodeTransaction(tx))
SumOf(sizes) == FoldLeft(LAMBDA sum, size : sum + size, 0, sizes)
TotalSize(block) ==
  SumOf([i \in DOMAIN block.txobj |-> TransactionSize(block.txobj[i].tx)])

ValidTransaction(txObj) ==
  /\ txObj.tx # Null
  /\ TransactionSize(txObj.tx) <= MaxTransactionSize
  /\ txObj.validatordata # Null /\ txObj.validatordata.vote = 1
  /\ CheckTx(txObj.tx)

CheckBlockAsAttestor(node, block) ==
  /\ StartsWith(block.attesttoken, "AT1") /\ Len(block.attesttoken) >= 4
  /\ Len(block.txobj) < MaxTransactions
  /\ \A i \in DOMAIN block.txobj : ValidTransaction(block.txobj[i])
  /\ TotalSize(block) <= MaxTotalSize
  /\ block.signers # <<>>
  /\ \A i \in DOMAIN block.txobj :
       Len(block.txobj[i].attestordata) = Len(block.signers) - 1
  /\ RecoverSigner(node, block, 1) \in validators

CheckBlockFinalized(node, block) ==
  /\ CheckBlockAsAttestor(node, block)
  /\ Len(block.signers) = ValPerBlock
  /\ \A i \in DOMAIN block.txobj :
       LET attestations == block.txobj[i].attestordata
       IN  \A k \in DOMAIN attestations : attestations[k].vote \in {1, 2}
  /\ \A k \in 2..Len(block.signers) : RecoverSigner(node, block, k) \in validators

\* Mutant: only the producer has to be registered.
ProducerOnly(node, block) ==
  /\ Len(block.signers) = ValPerBlock
  /\ RecoverSigner(node, block, 1) \in validators

CheckBlockAsSNode(node, block) ==
  /\ Len(block.signers) = ValPerBlock
  /\ \A k \in 1..Len(block.signers) : RecoverSigner(node, block, k) \in validators

------------------------------------------------------------------------------
(* The steps. *)

SignBlockAsValidator(block) ==
  LET voted == [block EXCEPT !.txobj = [i \in DOMAIN @ |->
                  [@[i] EXCEPT !.validatordata = [vote |-> 1, didmapping |-> Null],
                               !.attestordata = <<>>]]]
      sig == Signature(Producer, BlockBytes(EncodeBlock(Schema[Producer], voted)))
  IN  [voted EXCEPT !.signers = <<[sig |-> sig]>>]

\* The producer starts over with another block, or another time for the same.
Propose(block) ==
  /\ block.signers = <<>>
  /\ LET signed == SignBlockAsValidator(block) IN
       /\ draft' = signed
       /\ requests' = requests \cup {EncodeBlock(Schema[Producer], signed)}
       /\ Cardinality(requests') <= MaxProposals
  /\ UNCHANGED <<validators, replies, published, accepted>>

Attestation(node) ==
  IF Schema[node] = "this" THEN [vote |-> VoteOf[node]]
  ELSE [vote |-> VoteOf[node], note |-> "spam"]

SignBlockAsAttestor(node, block) ==
  LET attested == [block EXCEPT !.txobj = [i \in DOMAIN @ |->
                     [@[i] EXCEPT !.attestordata = <<Attestation(node)>>]]]
      sig == Signature(node, BlockBytes(EncodeBlock(Schema[node], attested)))
  IN  [attestordata |-> [i \in DOMAIN block.txobj |-> Attestation(node)],
       signer |-> [sig |-> sig]]

Attest(node, request) ==
  LET block == DecodeBlock(Schema[node], request) IN
  /\ CheckBlockAsAttestor(node, block)
  /\ Len(block.signers) = 1
  /\ replies' = replies \cup
       {[from |-> node, of |-> request,
         bytes |-> EncodePatch(Schema[node], SignBlockAsAttestor(node, block))]}
  /\ Cardinality(replies') <= MaxReplies
  /\ UNCHANGED <<validators, draft, requests, published, accepted>>

WithPatch(block, patch) ==
  LET txs == [i \in DOMAIN block.txobj |->
        [block.txobj[i] EXCEPT !.attestordata = Append(@, patch.attestordata[i])]]
  IN  [block EXCEPT !.signers = Append(@, patch.signer), !.txobj = txs]

\* appendPatchAsValidator() checks nothing of what it appends, but an attestation that is
\* missing makes a block that cannot be written any more.
AppendPatch(reply) ==
  LET patch == DecodePatch(Schema[Producer], reply.bytes) IN
  /\ draft.signers # <<>> /\ Len(draft.signers) < ValPerBlock
  /\ DOMAIN draft.txobj \subseteq DOMAIN patch.attestordata
  /\ draft' = WithPatch(draft, patch)
  /\ UNCHANGED <<validators, requests, replies, published, accepted>>

Publish ==
  /\ Len(draft.signers) = ValPerBlock
  /\ published' = published \cup {EncodeBlock(Schema[Producer], draft)}
  /\ Cardinality(published') <= MaxPublished
  /\ UNCHANGED <<validators, draft, requests, replies, accepted>>

\* What the storage node may be sent for a block of the queue: its bytes, or others that
\* it reads as the same block.
Resent(bytes) ==
  {raw \in {bytes} \cup Forms(bytes) :
     DecodeBlock(Schema[StorageNode], raw) = DecodeBlock(Schema[StorageNode], bytes)}

\* handleBlock() up to its check: checked is what was read, kept is what was sent.
HandleBlock(raw) ==
  /\ CheckBlockAsSNode(StorageNode, DecodeBlock(Schema[StorageNode], raw))
  /\ accepted' = accepted \cup {raw}
  /\ Cardinality(accepted') <= MaxAccepted
  /\ UNCHANGED <<validators, draft, requests, replies, published>>

\* The contract drops a node.
RemoveValidator(node) ==
  /\ node \in validators \cap Removable
  /\ validators' = validators \ {node}
  /\ UNCHANGED <<draft, requests, replies, published, accepted>>

Next ==
  \/ \E block \in Proposals : Propose(block)
  \/ \E node \in Attestors, request \in requests : Attest(node, request)
  \/ \E reply \in replies : AppendPatch(reply)
  \/ Publish
  \/ \E bytes \in published : \E raw \in Resent(bytes) : HandleBlock(raw)
  \/ \E node \in Nodes : RemoveValidator(node)

Spec == Init /\ [][Next]_vars

------------------------------------------------------------------------------
(* Properties. *)

\* Patches answer requests, blocks get no more signatures than are asked for, and what
\* is accepted is read as a block that was published.
TypeOK ==
  /\ validators \subseteq Nodes
  /\ \A reply \in replies : reply.from \in Attestors /\ reply.of \in requests
  /\ Len(draft.signers) <= ValPerBlock
  /\ \A raw \in accepted : \E bytes \in published :
       DecodeBlock(Schema[StorageNode], raw) = DecodeBlock(Schema[StorageNode], bytes)

\* Bytes survive reading and writing: those of its blocks and patches at the node that
\* wrote them.  And what the storage node reads of a block that it accepts is, written
\* again, byte for byte a block of a queue: a field that a newer schema added and that
\* attestors signed is lost in reading, and a block that has it is not accepted.  Only
\* what nobody signed can be beyond it in the bytes that it keeps and hashes: fields
\* that it does not know, and the order of the fields.
BytesReadBack ==
  /\ \A bytes \in requests \cup published :
       EncodeBlock(Schema[Producer], DecodeBlock(Schema[Producer], bytes)) = bytes
  /\ \A reply \in replies :
       EncodePatch(Schema[reply.from], DecodePatch(Schema[reply.from], reply.bytes))
         = reply.bytes
  /\ \A raw \in accepted :
       EncodeBlock(Schema[StorageNode], DecodeBlock(Schema[StorageNode], raw)) \in published

\* recoverPatchAddress() finds the attestor of exactly the patches that answer the block
\* as the producer has it, before it appends the first one, and that it read whole.
PatchRecovery ==
  \A reply \in replies :
    LET patch == DecodePatch(Schema[Producer], reply.bytes) IN
    draft.signers # <<>> =>
      (RecoverPatch(Producer, draft, patch) = reply.from
         <=> /\ reply.of = EncodeBlock(Schema[Producer], draft)
             /\ EncodePatch(Schema[Producer], patch) = reply.bytes)

\* Signature k of a block is that of a patch made for this very block by a node of the
\* set.
AttestedIn(bytes, k, nodes) ==
  LET block == DecodeBlock(Schema[StorageNode], bytes)
      request == [AsProposed(block) EXCEPT !.signers = <<block.signers[1]>>]
  IN  \E reply \in replies :
        LET patch == DecodePatch(Schema[reply.from], reply.bytes) IN
        /\ reply.from \in nodes
        /\ reply.of = EncodeBlock(Schema[StorageNode], request)
        /\ patch.signer = block.signers[k]
        /\ \A i \in DOMAIN block.txobj :
             patch.attestordata[i] = block.txobj[i].attestordata[k - 1]

\* A storage node accepts only blocks whose further signatures all are of attestors that
\* attested what the block says they did, of this block: no patch of an earlier
\* version of it, or of another block, counts.
AcceptedIsAttested ==
  \A bytes \in accepted : \A k \in 2..ValPerBlock : AttestedIn(bytes, k, Attestors)

\* And it accepts each block that its attestors attested, in whatever order their
\* patches were appended and whatever they voted, while all are registered; so does
\* checkBlockFinalized().
AttestedIsAccepted ==
  \A bytes \in published :
    LET block == DecodeBlock(Schema[StorageNode], bytes) IN
    Producer \in validators /\ (\A k \in 2..ValPerBlock : AttestedIn(bytes, k, validators))
      => /\ CheckBlockAsSNode(StorageNode, block)
         /\ CheckBlockFinalized(StorageNode, block)

\* Who can sign for an address: the key in a push address, or that of the address
OwnerOf(address) ==
  LET addr == address[Len(address)] IN
  IF addr \in DOMAIN PushAddress THEN PushAddress[addr] ELSE addr

\* The storage node looks into no transaction, yet those it accepts are signed by their
\* senders as they are, and an INIT_DID links only wallets whose owners signed for its
\* master key: its attestors have looked.
AcceptedTxsAreOwned ==
  \A bytes \in accepted :
    LET block == DecodeBlock(Schema[StorageNode], bytes) IN
    \A i \in DOMAIN block.txobj :
      LET tx == block.txobj[i].tx
          links == DecodeInitDid(tx.data).wallettoencderivedkey
      IN  /\ tx.signature = Signature(OwnerOf(tx.sender), HashBytes(
               EncodeTransaction([tx EXCEPT !.signature = <<>>])))
          /\ tx.category = "INIT_DID" =>
               \A wallet \in DOMAIN links : links[wallet].signature
                 = Signature(OwnerOf(wallet), ConnectAccount(OwnerOf(tx.sender)))
=============================================================================
