----------------------- MODULE BlockAttestationProofs ------------------------
(*****************************************************************************)
(* Proofs about BlockAttestation, for every schema, set of proposals and    *)
(* number of nodes.                                                         *)
(*****************************************************************************)
EXTENDS BlockAttestation, BlockCodecProofs

------------------------------------------------------------------------------
(* Blocks with no attestations, and with one of each transaction. *)

\* A block as its producer sent it to the attestors, and with one attestation of each
\* transaction
Bare(block) ==
  [ts |-> block.ts, attesttoken |-> block.attesttoken,
   txobj |-> [i \in 1..Len(block.txobj) |->
     [tx |-> block.txobj[i].tx, validatordata |-> block.txobj[i].validatordata,
      attestordata |-> <<>>]],
   signers |-> <<block.signers[1]>>]
\* A block with one attestation of each transaction
Put(block, list) ==
  [ts |-> block.ts, attesttoken |-> block.attesttoken,
   txobj |-> [i \in 1..Len(block.txobj) |->
     [tx |-> block.txobj[i].tx, validatordata |-> block.txobj[i].validatordata,
      attestordata |-> <<list[i]>>]],
   signers |-> block.signers]
\* A block without attestations, and with one signature
IsBare(block) == IsBlock("this", block) /\ Bare(block) = block
\* Attestations of n transactions
AttestsAll(schema, list, n) == \A i \in 1..n : IsAttestation(schema, list[i])
\* Attestations as a node of a schema reads them
ListAs(schema, list, n) == [i \in 1..n |-> AttestationAs(schema, list[i])]

\* A block without attestations is one of every schema.
LEMMA BareTyped ==
  ASSUME NEW schema \in Schemas, NEW block, IsBare(block)
  PROVE  /\ IsBlock(schema, block)
         /\ \A i \in 1..Len(block.txobj) : block.txobj[i].attestordata = <<>>
<1>1. ASSUME NEW i \in 1..Len(block.txobj)
      PROVE  IsTransactionObj(schema, block.txobj[i]) /\ block.txobj[i].attestordata = <<>>
  <2>1. block.txobj[i].attestordata = <<>>
    <3>1. block.txobj[i] = Bare(block).txobj[i]
      BY DEF IsBare
    <3>2. Bare(block).txobj[i].attestordata = <<>>
      BY DEF Bare
    <3> QED BY <3>1, <3>2
  <2>2. IsTransactionObj("this", block.txobj[i])
    BY DEF IsBare, IsBlock
  <2> DEFINE o == block.txobj[i]
  <2> HIDE DEF o
  <2>3. IsTransactionObj("this", o) /\ o.attestordata = <<>> /\ Len(<<>>) = 0
    BY <2>1, <2>2, ShortSequences DEF o
  <2>4. IsTransactionObj(schema, o)
    BY <2>3 DEF IsTransactionObj
  <2> QED BY <2>1, <2>4 DEF o
<1> QED BY <1>1 DEF IsBare, IsBlock

\* All schemas agree on a block without attestations.
LEMMA SilentBack ==
  ASSUME NEW from \in Schemas, NEW to \in Schemas, NEW block, IsBlock(from, block),
         \A i \in 1..Len(block.txobj) : block.txobj[i].attestordata = <<>>
  PROVE  /\ DecodeBlock(to, EncodeBlock(from, block)) = block
         /\ EncodeBlock(to, block) = EncodeBlock(from, block)
<1>1. IsBlock(from, block) /\ \A i \in 1..Len(block.txobj) : block.txobj[i].attestordata = <<>>
  OBVIOUS
<1>2. BlockAs(to, block) = block
  <2>1. ASSUME NEW i \in 1..Len(block.txobj)
        PROVE  TransactionObjAs(to, block.txobj[i]) = block.txobj[i]
    <3> DEFINE o == block.txobj[i]
    <3>1. o.attestordata = <<>> /\ IsTransactionObj(from, o)
      BY <1>1 DEF IsBlock
    <3> HIDE DEF o
    <3>2. AttestationsAs(to, <<>>) = <<>>
      <4>1. IsSequence(<<>>) /\ Len(<<>>) = 0
        BY ShortSequences
      <4>2. IsSequence(AttestationsAs(to, <<>>)) /\ Len(AttestationsAs(to, <<>>)) = 0
        BY <4>1, AttestationsKept
      <4> QED BY <4>1, <4>2, SameSequence
    <3>3. TransactionObjAs(to, o) = o
      BY <3>1, <3>2 DEF TransactionObjAs, IsTransactionObj
    <3> QED BY <3>3 DEF o
  <2>2. block.txobj = [i \in 1..Len(block.txobj) |-> block.txobj[i]]
    BY <1>1, SequenceFacts DEF IsBlock
  <2>3. TransactionObjsAs(to, block.txobj) = block.txobj
    BY <2>1, <2>2 DEF TransactionObjsAs
  <2> QED BY <1>1, <2>3 DEF BlockAs, IsBlock
<1>3. BlockSurvives(from, to, block)
  <2>1. Len(<<>>) = 0
    OBVIOUS
  <2>2. ASSUME NEW i \in 1..Len(block.txobj)
        PROVE  AttestationsSurvive(from, to, block.txobj[i].attestordata)
    <3>1. block.txobj[i].attestordata = <<>>
      BY <1>1
    <3>2. AttestationsSurvive(from, to, <<>>)
      BY <2>1 DEF AttestationsSurvive
    <3> QED BY <3>1, <3>2
  <2> QED BY <2>2 DEF BlockSurvives
<1> QED BY <1>1, <1>2, <1>3, BlockBack, BlockBytesKept

\* So do they on a block with the producer's signature.
LEMMA BareBack ==
  ASSUME NEW from \in Schemas, NEW to \in Schemas, NEW block, IsBare(block)
  PROVE  /\ DecodeBlock(to, EncodeBlock(from, block)) = block
         /\ EncodeBlock(to, block) = EncodeBlock(from, block)
<1>1. IsBlock(from, block) /\ \A i \in 1..Len(block.txobj) : block.txobj[i].attestordata = <<>>
  BY BareTyped
<1> QED BY ONLY <1>1, SilentBack, from \in Schemas, to \in Schemas

\* A block with attestations of a schema is a block of that schema.
LEMMA PutTyped ==
  ASSUME NEW schema \in Schemas, NEW block, IsBlock(schema, block), NEW list,
         AttestsAll(schema, list, Len(block.txobj))
  PROVE  /\ IsBlock(schema, Put(block, list))
         /\ Len(Put(block, list).txobj) = Len(block.txobj)
         /\ \A i \in 1..Len(block.txobj) :
              Put(block, list).txobj[i] =
                [tx |-> block.txobj[i].tx, validatordata |-> block.txobj[i].validatordata,
                 attestordata |-> <<list[i]>>]
<1> DEFINE p == Put(block, list)
           txs == p.txobj
<1>1. IsBlock(schema, block) /\ Len(block.txobj) \in Nat
  <2> QED BY SequenceFacts DEF IsBlock
<1>2. /\ txs = [i \in 1..Len(block.txobj) |-> txs[i]]
      /\ \A i \in 1..Len(block.txobj) : txs[i] =
           [tx |-> block.txobj[i].tx, validatordata |-> block.txobj[i].validatordata,
            attestordata |-> <<list[i]>>]
      /\ p = [ts |-> p.ts, attesttoken |-> p.attesttoken, txobj |-> txs, signers |-> p.signers]
      /\ p.signers = block.signers
  BY DEF Put
<1> HIDE DEF p
<1>3. IsSequence(txs) /\ Len(txs) = Len(block.txobj)
  <2> HIDE DEF txs
  <2> QED BY <1>1, <1>2, FunctionIsSequence
<1>4. ASSUME NEW i \in 1..Len(block.txobj) PROVE IsTransactionObj(schema, txs[i])
  <2> DEFINE o == block.txobj[i]
             a == list[i]
             new == [tx |-> o.tx, validatordata |-> o.validatordata, attestordata |-> <<a>>]
  <2>1. IsTransactionObj(schema, o) /\ IsAttestation(schema, a)
    BY <1>1 DEF IsBlock, AttestsAll
  <2> HIDE DEF o, a
  <2>2. IsSequence(<<a>>) /\ Len(<<a>>) = 1 /\ <<a>>[1] = a /\ \A k \in 1..1 : k = 1
    BY ShortSequences
  <2>3. new.attestordata = <<a>> /\ new.tx = o.tx /\ new.validatordata = o.validatordata
    OBVIOUS
  <2>4. new = [tx |-> new.tx, validatordata |-> new.validatordata, attestordata |-> new.attestordata]
    OBVIOUS
  <2> HIDE DEF new
  <2>5. IsTransactionObj(schema, new)
    BY <2>1, <2>2, <2>3, <2>4 DEF IsTransactionObj
  <2> QED BY <1>2, <2>5 DEF new, o, a
<1>5. IsBlock(schema, p)
  BY <1>1, <1>2, <1>3, <1>4 DEF IsBlock
<1> QED BY <1>2, <1>3, <1>5 DEF p

\* A list of one attestation
LEMMA OneAs ==
  ASSUME NEW schema, NEW a
  PROVE  AttestationsAs(schema, <<a>>) = <<AttestationAs(schema, a)>>
<1> DEFINE b == AttestationAs(schema, a)
           s == <<a>>
           t == <<b>>
<1> HIDE DEF b
<1>1. IsSequence(s) /\ Len(s) = 1 /\ s[1] = a /\ IsSequence(t) /\ Len(t) = 1 /\ t[1] = b
  BY ShortSequences
<1> HIDE DEF s, t
<1>2. /\ IsSequence(AttestationsAs(schema, s)) /\ Len(AttestationsAs(schema, s)) = 1
      /\ AttestationsAs(schema, s)[1] = b
  BY <1>1, AttestationsKept DEF b
<1>3. \A i \in 1..Len(t) : AttestationsAs(schema, s)[i] = t[i]
  <2>1. \A i \in 1..1 : i = 1
    OBVIOUS
  <2> QED BY <1>1, <1>2, <2>1
<1>4. AttestationsAs(schema, s) = t
  BY <1>1, <1>2, <1>3, SameSequence
<1> QED BY <1>4 DEF s, t, b

\* A block with one attestation of each transaction is read as the attestations are.
LEMMA PutBack ==
  ASSUME NEW from \in Schemas, NEW to \in Schemas, NEW block, IsBlock(from, block), NEW list,
         AttestsAll(from, list, Len(block.txobj))
  PROVE  DecodeBlock(to, EncodeBlock(from, Put(block, list)))
           = Put(block, ListAs(to, list, Len(block.txobj)))
<1> DEFINE n == Len(block.txobj)
           p == Put(block, list)
           q == Put(block, ListAs(to, list, n))
<1>1. /\ IsBlock(from, p) /\ Len(p.txobj) = n
      /\ \A i \in 1..n : p.txobj[i] =
           [tx |-> block.txobj[i].tx, validatordata |-> block.txobj[i].validatordata,
            attestordata |-> <<list[i]>>]
  BY PutTyped
<1>2. DecodeBlock(to, EncodeBlock(from, p)) = BlockAs(to, p)
  <2> HIDE DEF p
  <2> QED BY <1>1, BlockBack
<1>3. ASSUME NEW i \in 1..n
      PROVE  TransactionObjAs(to, p.txobj[i]) =
               [tx |-> block.txobj[i].tx, validatordata |-> block.txobj[i].validatordata,
                attestordata |-> <<AttestationAs(to, list[i])>>]
  <2> DEFINE a == list[i]
  <2>1. AttestationsAs(to, <<a>>) = <<AttestationAs(to, a)>>
    <3> HIDE DEF a
    <3> QED BY OneAs
  <2>2. p.txobj[i] = [tx |-> block.txobj[i].tx, validatordata |-> block.txobj[i].validatordata,
                      attestordata |-> <<a>>]
    BY <1>1
  <2> HIDE DEF p, a
  <2> QED BY <2>1, <2>2 DEF TransactionObjAs, a
<1>4. TransactionObjsAs(to, p.txobj)
        = [i \in 1..n |->
            [tx |-> block.txobj[i].tx, validatordata |-> block.txobj[i].validatordata,
             attestordata |-> <<AttestationAs(to, list[i])>>]]
  <2> HIDE DEF p, n
  <2> QED BY <1>1, <1>3 DEF TransactionObjsAs
<1>5. q.txobj = [i \in 1..n |->
            [tx |-> block.txobj[i].tx, validatordata |-> block.txobj[i].validatordata,
             attestordata |-> <<AttestationAs(to, list[i])>>]]
  BY DEF Put, ListAs
<1>6. p.ts = block.ts /\ p.attesttoken = block.attesttoken /\ p.signers = block.signers
      /\ q = [ts |-> block.ts, attesttoken |-> block.attesttoken, txobj |-> q.txobj,
              signers |-> block.signers]
  BY DEF Put
<1> HIDE DEF p, q
<1>7. BlockAs(to, p) = q
  BY <1>4, <1>5, <1>6 DEF BlockAs
<1> QED BY <1>2, <1>7 DEF p, q, n

\* Lists that agree on their first n elements
SameOn(list, other, n) == \A i \in 1..n : list[i] = other[i]

\* From a block with attestations both can be told.
LEMMA PutInjective ==
  ASSUME NEW one, NEW two, IsSequence(one.txobj), IsSequence(two.txobj), NEW list, NEW other,
         Put(one, list) = Put(two, other)
  PROVE  /\ one.signers = two.signers /\ Bare(one) = Bare(two)
         /\ SameOn(list, other, Len(one.txobj))
<1> DEFINE p == Put(one, list)
           q == Put(two, other)
<1>1. /\ p.ts = one.ts /\ p.attesttoken = one.attesttoken /\ p.signers = one.signers
      /\ q.ts = two.ts /\ q.attesttoken = two.attesttoken /\ q.signers = two.signers
  BY DEF Put
<1>2. /\ DOMAIN p.txobj = 1..Len(one.txobj) /\ DOMAIN q.txobj = 1..Len(two.txobj)
      /\ \A i \in 1..Len(one.txobj) : p.txobj[i] =
           [tx |-> one.txobj[i].tx, validatordata |-> one.txobj[i].validatordata,
            attestordata |-> <<list[i]>>]
      /\ \A i \in 1..Len(two.txobj) : q.txobj[i] =
           [tx |-> two.txobj[i].tx, validatordata |-> two.txobj[i].validatordata,
            attestordata |-> <<other[i]>>]
  BY DEF Put
<1>3. p = q
  OBVIOUS
<1> HIDE DEF p, q
<1>4. Len(one.txobj) \in Nat /\ Len(two.txobj) \in Nat
  BY SequenceFacts
<1>5. Len(one.txobj) = Len(two.txobj)
  BY <1>2, <1>3, <1>4
<1>6. ASSUME NEW i \in 1..Len(one.txobj)
      PROVE  /\ list[i] = other[i] /\ one.txobj[i].tx = two.txobj[i].tx
             /\ one.txobj[i].validatordata = two.txobj[i].validatordata
  <2>0. /\ p.txobj[i] = [tx |-> one.txobj[i].tx, validatordata |-> one.txobj[i].validatordata,
                         attestordata |-> <<list[i]>>]
        /\ q.txobj[i] = [tx |-> two.txobj[i].tx, validatordata |-> two.txobj[i].validatordata,
                         attestordata |-> <<other[i]>>]
    BY <1>2, <1>5
  <2>1. /\ p.txobj[i].tx = one.txobj[i].tx /\ q.txobj[i].tx = two.txobj[i].tx
        /\ p.txobj[i].validatordata = one.txobj[i].validatordata
        /\ q.txobj[i].validatordata = two.txobj[i].validatordata
        /\ p.txobj[i].attestordata = <<list[i]>> /\ q.txobj[i].attestordata = <<other[i]>>
    BY <2>0
  <2>2. <<list[i]>>[1] = list[i] /\ <<other[i]>>[1] = other[i]
    OBVIOUS
  <2>3. <<list[i]>> = <<other[i]>>
    BY <1>3, <2>1
  <2>4. list[i] = other[i]
    BY <2>2, <2>3
  <2> QED BY <1>3, <2>1, <2>4
<1>7. Bare(one) = Bare(two)
  <2>1. one.ts = two.ts /\ one.attesttoken = two.attesttoken /\ one.signers = two.signers
    BY <1>1, <1>3
  <2> QED BY <1>5, <1>6, <2>1 DEF Bare
<1> QED BY <1>1, <1>3, <1>6, <1>7 DEF SameOn

\* Whose bytes are the same said the same of the same block, as far as the one of the two
\* that is read knows.
LEMMA SameAttested ==
  ASSUME NEW from \in Schemas, NEW to \in Schemas, NEW one, IsBare(one), NEW two, IsBare(two),
         NEW list, AttestsAll(from, list, Len(one.txobj)),
         NEW other, AttestsAll(to, other, Len(two.txobj)),
         EncodeBlock(from, Put(one, list)) = EncodeBlock(to, Put(two, other))
  PROVE  one = two /\ \A i \in 1..Len(one.txobj) : AttestationAs(to, list[i]) = other[i]
<1> DEFINE as == ListAs(to, list, Len(one.txobj))
           is == ListAs(to, other, Len(two.txobj))
<1>0. IsBlock(from, one) /\ IsBlock(to, two) /\ IsSequence(one.txobj) /\ IsSequence(two.txobj)
  BY BareTyped DEF IsBlock
<1>1. Put(one, as) = Put(two, is)
  BY <1>0, PutBack
<1>2. /\ \A i \in 1..Len(one.txobj) : as[i] = AttestationAs(to, list[i])
      /\ \A i \in 1..Len(two.txobj) : is[i] = AttestationAs(to, other[i])
  BY DEF ListAs
<1> HIDE DEF as, is
<1>3a. Bare(one) = Bare(two) /\ SameOn(as, is, Len(one.txobj))
  BY ONLY <1>0, <1>1, PutInjective
<1>3. one = two /\ SameOn(as, is, Len(one.txobj))
  BY <1>3a DEF IsBare
<1>4. \A a : IsAttestation(to, a) => AttestationAs(to, a) = a
  BY DEF IsAttestation, AttestationAs, Schemas
<1> QED BY <1>2, <1>3, <1>4 DEF AttestsAll, SameOn

\* And the other way round.
LEMMA PutBytes ==
  ASSUME NEW from \in Schemas, NEW to \in Schemas, NEW block, IsBare(block), NEW list,
         AttestsAll(from, list, Len(block.txobj)),
         \A i \in 1..Len(block.txobj) :
           AttestationAs(from, AttestationAs(to, list[i])) = list[i]
  PROVE  EncodeBlock(to, Put(block, ListAs(to, list, Len(block.txobj))))
           = EncodeBlock(from, Put(block, list))
<1> DEFINE p == Put(block, list)
           q == Put(block, ListAs(to, list, Len(block.txobj)))
<1>0. /\ IsBlock(from, p) /\ Len(p.txobj) = Len(block.txobj)
      /\ \A i \in 1..Len(block.txobj) : p.txobj[i] =
           [tx |-> block.txobj[i].tx, validatordata |-> block.txobj[i].validatordata,
            attestordata |-> <<list[i]>>]
  BY BareTyped, PutTyped
<1>1. /\ IsBlock(from, p) /\ Len(p.txobj) = Len(block.txobj)
      /\ \A i \in 1..Len(block.txobj) : p.txobj[i].attestordata = <<list[i]>>
  <2> SUFFICES ASSUME NEW i \in 1..Len(block.txobj)
               PROVE  p.txobj[i].attestordata = <<list[i]>>
    BY <1>0
  <2>1. p.txobj[i] =
           [tx |-> block.txobj[i].tx, validatordata |-> block.txobj[i].validatordata,
            attestordata |-> <<list[i]>>]
    BY <1>0
  <2> HIDE DEF p
  <2> QED BY <2>1
<1> HIDE DEF p
<1>2. BlockAs(to, p) = q
  <2>1. DecodeBlock(to, EncodeBlock(from, p)) = BlockAs(to, p)
    BY <1>1, BlockBack
  <2>2. DecodeBlock(to, EncodeBlock(from, p)) = q
    BY BareTyped, PutBack DEF p
  <2> QED BY <2>1, <2>2
<1>3. BlockSurvives(from, to, p)
  <2> SUFFICES ASSUME NEW i \in 1..Len(block.txobj)
               PROVE  AttestationsSurvive(from, to, <<list[i]>>)
    BY <1>1 DEF BlockSurvives
  <2> DEFINE a == list[i]
  <2>1. AttestationAs(from, AttestationAs(to, a)) = a
    OBVIOUS
  <2> HIDE DEF a
  <2>2. Len(<<a>>) = 1 /\ <<a>>[1] = a /\ \A k \in 1..1 : k = 1
    OBVIOUS
  <2>3. AttestationsSurvive(from, to, <<a>>)
    BY <2>1, <2>2 DEF AttestationsSurvive
  <2> QED BY <2>3 DEF a
<1>4. EncodeBlock(to, BlockAs(to, p)) = EncodeBlock(from, p)
  BY <1>1, <1>3, BlockBytesKept
<1> QED BY <1>2, <1>4 DEF p, q

------------------------------------------------------------------------------
(* What the producer signs. *)

\* The schema of the producer
SP == Schema[Producer]

\* Each node has a schema; the storage node has that of this repository.
LEMMA SchemasOfNodes ==
  /\ \A n \in Nodes : Schema[n] \in Schemas
  /\ SP \in Schemas /\ Schema[StorageNode] = "this" /\ "this" \in Schemas
  /\ Producer \in Nodes /\ Attestors \subseteq Nodes
BY SchemaAssumption DEF Nodes, SP, Schemas

\* A block before its producer signed it
Unsigned(block) ==
  [ts |-> block.ts, attesttoken |-> block.attesttoken, txobj |-> block.txobj,
   signers |-> <<>>]
\* What a producer signs
ProducerSignature(block) ==
  Signature(Producer, BlockBytes(EncodeBlock(SP, Unsigned(block))))
\* Its transactions are those of a proposal.
Proposed(block) ==
  \E proposal \in Proposals :
    /\ Len(proposal.txobj) = Len(block.txobj)
    /\ \A i \in 1..Len(block.txobj) : block.txobj[i].tx = proposal.txobj[i].tx
\* A block as its producer sends it to the attestors
Produced(block) ==
  /\ IsBare(block) /\ block.signers = <<[sig |-> ProducerSignature(block)]>>
  /\ Proposed(block)

\* A list is a sequence.
LEMMA ListIsSequence ==
  ASSUME NEW s, IsList(s)
  PROVE  IsSequence(s)
BY FunctionIsSequence DEF IsList

\* A transaction the producer voted for
VotedObj(o) ==
  [tx |-> o.tx, validatordata |-> [vote |-> 1, didmapping |-> Null], attestordata |-> <<>>]
\* Transactions the producer voted for
VotedList(list) == [i \in 1..Len(list) |-> VotedObj(list[i])]

\* They are transactions every schema knows.
LEMMA VotedFacts ==
  ASSUME NEW block \in Proposals
  PROVE  /\ IsSequence(VotedList(block.txobj))
         /\ Len(VotedList(block.txobj)) = Len(block.txobj)
         /\ \A i \in 1..Len(block.txobj) :
              /\ VotedList(block.txobj)[i] = VotedObj(block.txobj[i])
              /\ IsTransactionObj("this", VotedObj(block.txobj[i]))
<1> DEFINE list == block.txobj
<1>1. IsSequence(list) /\ Len(list) \in Nat
  BY ProposalsAssumption, ListIsSequence DEF IsProposal, IsList
<1>2. IsSequence(VotedList(list)) /\ Len(VotedList(list)) = Len(list)
  <2> HIDE DEF list
  <2> DEFINE f == VotedList(list)
  <2>1. f = [i \in 1..Len(list) |-> f[i]]
    BY DEF VotedList
  <2> HIDE DEF f
  <2>2. IsSequence(f) /\ Len(f) = Len(list)
    BY <1>1, <2>1, FunctionIsSequence
  <2> QED BY <2>2 DEF f
<1>3. ASSUME NEW i \in 1..Len(list)
      PROVE  VotedList(list)[i] = VotedObj(list[i]) /\ IsTransactionObj("this", VotedObj(list[i]))
  <2>1. VotedList(list)[i] = VotedObj(list[i])
    BY DEF VotedList
  <2>2. list[i].tx # Null => IsTransaction(list[i].tx)
    BY ProposalsAssumption, ListIsSequence DEF IsProposal, IsTransaction, IsMessage
  <2> DEFINE o == list[i]
             v == VotedObj(o)
  <2>3. o.tx # Null => IsTransaction(o.tx)
    BY <2>2
  <2> HIDE DEF o
  <2>4. /\ v = [tx |-> v.tx, validatordata |-> v.validatordata, attestordata |-> v.attestordata]
        /\ v.tx = o.tx /\ v.attestordata = <<>>
        /\ v.validatordata = [vote |-> 1, didmapping |-> Null]
    BY DEF VotedObj
  <2> HIDE DEF v
  <2>5. IsVote(v.validatordata)
    BY <2>4 DEF IsVote
  <2>6. IsSequence(v.attestordata) /\ Len(v.attestordata) = 0
    BY <2>4, ShortSequences
  <2>7. IsTransactionObj("this", v)
    BY <2>3, <2>4, <2>5, <2>6 DEF IsTransactionObj
  <2> QED BY <2>1, <2>7 DEF o, v
<1> QED BY <1>2, <1>3

\* What the producer signs is a block all schemas know, with its signature alone.
LEMMA SignedIsProduced ==
  ASSUME NEW block \in Proposals
  PROVE  Produced(SignBlockAsValidator(block))
<1> DEFINE txs == VotedList(block.txobj)
           voted == [ts |-> block.ts, attesttoken |-> block.attesttoken, txobj |-> txs,
                     signers |-> <<>>]
           one == [sig |-> Signature(Producer, BlockBytes(EncodeBlock(SP, voted)))]
           signed == [ts |-> block.ts, attesttoken |-> block.attesttoken, txobj |-> txs,
                      signers |-> <<one>>]
<1>1. /\ block = [ts |-> block.ts, attesttoken |-> block.attesttoken, txobj |-> block.txobj,
                  signers |-> <<>>]
      /\ DOMAIN block.txobj = 1..Len(block.txobj)
      /\ \A i \in 1..Len(block.txobj) : LET o == block.txobj[i] IN
           o = [tx |-> o.tx, validatordata |-> o.validatordata, attestordata |-> o.attestordata]
  BY ProposalsAssumption DEF IsProposal, IsList
<1>2. SignBlockAsValidator(block) = signed
  <2> DEFINE list == [i \in DOMAIN block.txobj |->
                        [block.txobj[i] EXCEPT !.validatordata = [vote |-> 1, didmapping |-> Null],
                                               !.attestordata = <<>>]]
             b == [block EXCEPT !.txobj = list]
  <2>1. ASSUME NEW i \in 1..Len(block.txobj)
        PROVE  [block.txobj[i] EXCEPT !.validatordata = [vote |-> 1, didmapping |-> Null],
                                               !.attestordata = <<>>] = VotedObj(block.txobj[i])
    <3> DEFINE o == block.txobj[i]
    <3>1. o = [tx |-> o.tx, validatordata |-> o.validatordata, attestordata |-> o.attestordata]
      BY <1>1
    <3> HIDE DEF o
    <3>2. [o EXCEPT !.validatordata = [vote |-> 1, didmapping |-> Null], !.attestordata = <<>>]
            = VotedObj(o)
      <4> DEFINE d == [vote |-> 1, didmapping |-> Null]
                 half == [o EXCEPT !.validatordata = d]
                 two == [half EXCEPT !.attestordata = <<>>]
      <4>1. VotedObj(o) = [tx |-> o.tx, validatordata |-> d, attestordata |-> <<>>]
        BY DEF VotedObj
      <4> HIDE DEF d
      <4>2. half = [tx |-> o.tx, validatordata |-> d, attestordata |-> o.attestordata]
        BY <3>1
      <4>3. two = [tx |-> o.tx, validatordata |-> d, attestordata |-> <<>>]
        <5> HIDE DEF half
        <5> QED BY <4>2
      <4> QED BY <4>1, <4>3 DEF d
    <3> QED BY <3>2 DEF o
  <2>2. list = txs
    BY <1>1, <2>1 DEF VotedList
  <2>3. SignBlockAsValidator(block)
          = [b EXCEPT !.signers = <<[sig |-> Signature(Producer,
                         BlockBytes(EncodeBlock(Schema[Producer], b)))]>>]
    BY DEF SignBlockAsValidator
  <2> HIDE DEF list, txs
  <2>4. b = voted
    BY <1>1, <2>2
  <2> HIDE DEF b
  <2>5. SignBlockAsValidator(block) = [voted EXCEPT !.signers = <<one>>]
    BY <2>3, <2>4 DEF SP
  <2> HIDE DEF one
  <2> QED BY <2>5
<1>3. /\ IsSequence(txs) /\ Len(txs) = Len(block.txobj)
      /\ \A i \in 1..Len(txs) : txs[i] = VotedObj(block.txobj[i])
                                /\ IsTransactionObj("this", txs[i])
  BY VotedFacts
<1>4. /\ signed.ts = block.ts /\ signed.attesttoken = block.attesttoken /\ signed.txobj = txs
      /\ signed.signers = <<one>>
  OBVIOUS
<1>5. ProducerSignature(signed) = one.sig /\ IsSigner(one)
  BY DEF ProducerSignature, Unsigned, IsSigner
<1>6. one = [sig |-> one.sig]
  OBVIOUS
<1> HIDE DEF txs, one, signed
<1>7. IsSignerList(signed.signers)
  <2>1. IsSequence(<<one>>) /\ Len(<<one>>) = 1 /\ <<one>>[1] = one /\ \A k \in 1..1 : k = 1
    BY ShortSequences
  <2> QED BY <1>4, <1>5, <2>1 DEF IsSignerList
<1>8. IsBlock("this", signed)
  <2>1. signed = [ts |-> signed.ts, attesttoken |-> signed.attesttoken, txobj |-> signed.txobj,
              signers |-> signed.signers]
    BY DEF signed
  <2> QED BY <1>3, <1>4, <1>7, <2>1 DEF IsBlock
<1>9. Bare(signed) = signed
  <2>1. ASSUME NEW i \in 1..Len(txs)
        PROVE  txs[i] = [tx |-> txs[i].tx, validatordata |-> txs[i].validatordata,
                         attestordata |-> <<>>]
    <3> DEFINE o == block.txobj[i]
               v == VotedObj(o)
    <3> HIDE DEF o
    <3>1. v = [tx |-> v.tx, validatordata |-> v.validatordata, attestordata |-> <<>>]
      BY DEF VotedObj
    <3>2. txs[i] = v
      BY <1>3 DEF o
    <3> HIDE DEF v
    <3> QED BY <3>1, <3>2
  <2>2. txs = [i \in 1..Len(txs) |-> txs[i]]
    BY <1>3, SequenceFacts
  <2>3. txs = [i \in 1..Len(txs) |-> [tx |-> txs[i].tx, validatordata |-> txs[i].validatordata,
                         attestordata |-> <<>>]]
    BY <2>1, <2>2
  <2>4. signed = [ts |-> signed.ts, attesttoken |-> signed.attesttoken, txobj |-> signed.txobj,
              signers |-> <<signed.signers[1]>>]
    BY <1>4 DEF signed
  <2> QED BY <1>4, <2>3, <2>4 DEF Bare
<1>10. Proposed(signed)
  <2>1. ASSUME NEW i \in 1..Len(txs)
        PROVE  txs[i].tx = block.txobj[i].tx
    <3>1. txs[i] = VotedObj(block.txobj[i])
      BY <1>3
    <3> QED BY <3>1 DEF VotedObj
  <2> QED BY <1>3, <1>4, <2>1 DEF Proposed
<1> QED BY <1>2, <1>4, <1>5, <1>6, <1>8, <1>9, <1>10 DEF Produced, IsBare

------------------------------------------------------------------------------
(* What the attestors sign. *)

\* The attestations of number j, and those of a node of n transactions
Said(block, j) == [i \in 1..Len(block.txobj) |-> block.txobj[i].attestordata[j]]
\* What a node says of n transactions
Says(node, n) == [i \in 1..n |-> Attestation(node)]
\* What an attestor signs of a block
AnswerSignature(node, block) ==
  Signature(node, BlockBytes(EncodeBlock(Schema[node], Put(block, Says(node, Len(block.txobj))))))
\* What an attestor answers to a block
Answer(node, block) ==
  [attestordata |-> Says(node, Len(block.txobj)),
   signer |-> [sig |-> AnswerSignature(node, block)]]

\* The parts of a block
LEMMA BlockParts ==
  ASSUME NEW schema \in Schemas, NEW block, IsBlock(schema, block)
  PROVE  /\ DOMAIN block.txobj = 1..Len(block.txobj) /\ Len(block.txobj) \in Nat
         /\ block = [ts |-> block.ts, attesttoken |-> block.attesttoken, txobj |-> block.txobj,
                     signers |-> block.signers]
         /\ DOMAIN block.signers = 1..Len(block.signers) /\ Len(block.signers) \in Nat
         /\ \A i \in 1..Len(block.txobj) :
              block.txobj[i] =
                [tx |-> block.txobj[i].tx, validatordata |-> block.txobj[i].validatordata,
                 attestordata |-> block.txobj[i].attestordata]
BY SequenceFacts DEF IsBlock, IsTransactionObj, IsSignerList

\* Putting attestations into a block, as the code does it
LEMMA PutShape ==
  ASSUME NEW schema \in Schemas, NEW block, IsBlock(schema, block), NEW list,
         NEW txs, txs = [i \in DOMAIN block.txobj |->
                          [block.txobj[i] EXCEPT !.attestordata = <<list[i]>>]]
  PROVE  /\ [block EXCEPT !.txobj = txs] = Put(block, list)
         /\ \A signers : [block EXCEPT !.signers = signers, !.txobj = txs]
              = [ts |-> block.ts, attesttoken |-> block.attesttoken,
                 txobj |-> Put(block, list).txobj, signers |-> signers]
<1>1. ASSUME NEW i \in 1..Len(block.txobj)
      PROVE  [block.txobj[i] EXCEPT !.attestordata = <<list[i]>>]
               = [tx |-> block.txobj[i].tx, validatordata |-> block.txobj[i].validatordata,
                  attestordata |-> <<list[i]>>]
  <2> DEFINE o == block.txobj[i]
             s == <<list[i]>>
  <2>1. o = [tx |-> o.tx, validatordata |-> o.validatordata, attestordata |-> o.attestordata]
    BY BlockParts
  <2> HIDE DEF o, s
  <2>2. [o EXCEPT !.attestordata = s]
          = [tx |-> o.tx, validatordata |-> o.validatordata, attestordata |-> s]
    BY <2>1
  <2> QED BY <2>2 DEF o, s
<1> DEFINE puts == [i \in 1..Len(block.txobj) |->
                 [tx |-> block.txobj[i].tx, validatordata |-> block.txobj[i].validatordata,
                  attestordata |-> <<list[i]>>]]
<1>2. txs = puts
  BY <1>1, BlockParts
<1>3. Put(block, list) = [ts |-> block.ts, attesttoken |-> block.attesttoken,
                          txobj |-> puts, signers |-> block.signers]
  BY DEF Put
<1>4. block = [ts |-> block.ts, attesttoken |-> block.attesttoken, txobj |-> block.txobj,
                     signers |-> block.signers]
  BY BlockParts
<1> HIDE DEF puts
<1>5. [block EXCEPT !.txobj = txs] = Put(block, list)
  BY <1>2, <1>3, <1>4
<1>6. ASSUME NEW signers
      PROVE  [block EXCEPT !.signers = signers, !.txobj = txs]
              = [ts |-> block.ts, attesttoken |-> block.attesttoken,
                 txobj |-> Put(block, list).txobj, signers |-> signers]
  <2> DEFINE one == [block EXCEPT !.signers = signers]
  <2>1. one = [ts |-> block.ts, attesttoken |-> block.attesttoken, txobj |-> block.txobj,
               signers |-> signers]
    BY <1>4
  <2>2. [block EXCEPT !.signers = signers, !.txobj = txs] = [one EXCEPT !.txobj = txs]
    OBVIOUS
  <2>3. Put(block, list).txobj = txs
    BY <1>2, <1>3
  <2> HIDE DEF one
  <2> QED BY <2>1, <2>2, <2>3
<1> QED BY <1>5, <1>6

\* An attestor's attestation is one of its schema.
LEMMA AttestationOf ==
  ASSUME NEW node \in Attestors
  PROVE  /\ IsAttestation(Schema[node], Attestation(node))
         /\ Attestation(node).vote = VoteOf[node]
         /\ Schema[node] # "this" => Attestation(node).note = "spam"
         /\ Schema[node] # "this" => Attestation(node) # [vote |-> VoteOf[node]]
BY DEF Attestation, IsAttestation

\* And so are all of them.
LEMMA SaysTyped ==
  ASSUME NEW node \in Attestors, NEW n \in Nat
  PROVE  /\ IsSequence(Says(node, n)) /\ Len(Says(node, n)) = n
         /\ AttestsAll(Schema[node], Says(node, n), n)
         /\ \A i \in 1..n : Says(node, n)[i] = Attestation(node)
<1>1. \A i \in 1..n : Says(node, n)[i] = Attestation(node)
  BY DEF Says
<1>2. IsSequence(Says(node, n)) /\ Len(Says(node, n)) = n
  <2> DEFINE f == Says(node, n)
  <2>1. f = [i \in 1..n |-> f[i]]
    BY DEF Says
  <2> HIDE DEF f
  <2>2. IsSequence(f) /\ Len(f) = n
    BY <2>1, FunctionIsSequence
  <2> QED BY <2>2 DEF f
<1> QED BY <1>1, <1>2, AttestationOf DEF AttestsAll

\* What an attestor answers
LEMMA AnswerShape ==
  ASSUME NEW node \in Attestors, NEW block, IsBare(block)
  PROVE  /\ SignBlockAsAttestor(node, block) = Answer(node, block)
         /\ IsPatch(Schema[node], Answer(node, block))
<1>1. IsBlock("this", block) /\ "this" \in Schemas
  BY DEF IsBare, Schemas
<1>2. DOMAIN block.txobj = 1..Len(block.txobj) /\ Len(block.txobj) \in Nat
  BY <1>1, BlockParts
<1> DEFINE says == Says(node, Len(block.txobj))
           txs == [i \in DOMAIN block.txobj |->
                     [block.txobj[i] EXCEPT !.attestordata = <<Attestation(node)>>]]
<1>3. [block EXCEPT !.txobj = txs] = Put(block, says)
  <2>1. txs = [i \in DOMAIN block.txobj |->
                     [block.txobj[i] EXCEPT !.attestordata = <<says[i]>>]]
    <3>1. \A i \in DOMAIN block.txobj : says[i] = Attestation(node)
      BY <1>2, SaysTyped
    <3> HIDE DEF says
    <3> QED BY <3>1
  <2> HIDE DEF txs, says
  <2> QED BY <1>1, <2>1, PutShape
<1>4. says = [i \in DOMAIN block.txobj |-> Attestation(node)]
  BY <1>2 DEF Says
<1>5. SignBlockAsAttestor(node, block) =
        [attestordata |-> [i \in DOMAIN block.txobj |-> Attestation(node)],
         signer |-> [sig |-> Signature(node, BlockBytes(EncodeBlock(Schema[node],
                       [block EXCEPT !.txobj = txs])))]]
  BY DEF SignBlockAsAttestor
<1>6. IsSequence(says) /\ Len(says) = Len(block.txobj)
      /\ AttestsAll(Schema[node], says, Len(block.txobj))
  BY <1>2, SaysTyped
<1> HIDE DEF says, txs
<1>7. SignBlockAsAttestor(node, block) = Answer(node, block)
  BY <1>3, <1>4, <1>5 DEF Answer, AnswerSignature, says
<1> DEFINE a == Answer(node, block)
<1>8. a = [attestordata |-> a.attestordata, signer |-> a.signer]
      /\ a.attestordata = says /\ a.signer = [sig |-> a.signer.sig]
  BY DEF Answer, says
<1> HIDE DEF a
<1>9. IsPatch(Schema[node], a)
  BY <1>6, <1>8 DEF IsPatch, IsSigner, AttestsAll
<1> QED BY <1>7, <1>9 DEF a

------------------------------------------------------------------------------
(* What a node reads of its own. *)

\* A node knows all attestations of its schema.
LEMMA OwnAttestations ==
  ASSUME NEW schema \in Schemas, NEW list, IsSequence(list),
         \A i \in 1..Len(list) : IsAttestation(schema, list[i])
  PROVE  AttestationsAs(schema, list) = list
<1>1. \A a : IsAttestation(schema, a) => AttestationAs(schema, a) = a
  BY DEF IsAttestation, AttestationAs, Schemas
<1>2. \A i \in 1..Len(list) : AttestationAs(schema, list[i]) = list[i]
  BY <1>1
<1>3. IsSequence(AttestationsAs(schema, list)) /\ Len(AttestationsAs(schema, list)) = Len(list)
      /\ \A i \in 1..Len(list) : AttestationsAs(schema, list)[i] = AttestationAs(schema, list[i])
  BY AttestationsKept
<1> DEFINE as == AttestationsAs(schema, list)
<1>4. \A i \in 1..Len(as) : as[i] = list[i]
  BY <1>2, <1>3
<1>5. IsSequence(as) /\ Len(as) = Len(list)
  BY <1>3
<1> HIDE DEF as
<1>6. as = list
  BY <1>4, <1>5, SameSequence
<1> QED BY <1>6 DEF as

\* A node knows all of what it may write itself.
LEMMA OwnBlock ==
  ASSUME NEW schema \in Schemas, NEW block, IsBlock(schema, block)
  PROVE  BlockAs(schema, block) = block
<1> DEFINE txs == block.txobj
<1>1. ASSUME NEW i \in 1..Len(txs)
      PROVE  TransactionObjAs(schema, txs[i]) = txs[i]
  <2> DEFINE o == txs[i]
  <2>1. IsTransactionObj(schema, o)
    BY DEF IsBlock
  <2> HIDE DEF o
  <2>2. AttestationsAs(schema, o.attestordata) = o.attestordata
    BY <2>1, OwnAttestations DEF IsTransactionObj
  <2>3. TransactionObjAs(schema, o) = o
    BY <2>1, <2>2 DEF TransactionObjAs, IsTransactionObj
  <2> QED BY <2>3 DEF o
<1>2. txs = [i \in 1..Len(txs) |-> txs[i]]
  BY SequenceFacts DEF IsBlock
<1>3. TransactionObjsAs(schema, txs) = txs
  BY <1>1, <1>2 DEF TransactionObjsAs
<1> QED BY <1>3 DEF BlockAs, IsBlock

\* And so for patches
LEMMA OwnPatch ==
  ASSUME NEW schema \in Schemas, NEW patch, IsPatch(schema, patch)
  PROVE  PatchAs(schema, patch) = patch
<1>1. AttestationsAs(schema, patch.attestordata) = patch.attestordata
  BY OwnAttestations DEF IsPatch
<1> QED BY <1>1 DEF PatchAs, IsPatch

\* A block without attestations and with one signature
LEMMA BareFacts ==
  ASSUME NEW schema \in Schemas, NEW block, IsBlock(schema, block), Len(block.signers) >= 1
  PROVE  /\ IsBare(Bare(block))
         /\ Len(Bare(block).txobj) = Len(block.txobj)
         /\ \A i \in 1..Len(block.txobj) :
              Bare(block).txobj[i] =
                [tx |-> block.txobj[i].tx, validatordata |-> block.txobj[i].validatordata,
                 attestordata |-> <<>>]
<1> DEFINE b == Bare(block)
           txs == b.txobj
           n == Len(block.txobj)
           one == block.signers[1]
<1>1. n \in Nat /\ IsSigner(one)
  BY BlockParts DEF IsBlock, IsSignerList
<1>2. /\ txs = [i \in 1..n |-> txs[i]]
      /\ \A i \in 1..n : txs[i] =
           [tx |-> block.txobj[i].tx, validatordata |-> block.txobj[i].validatordata,
            attestordata |-> <<>>]
      /\ b = [ts |-> b.ts, attesttoken |-> b.attesttoken, txobj |-> txs, signers |-> b.signers]
      /\ b.signers = <<one>>
  BY DEF Bare
<1>3. <<one>>[1] = one /\ Len(<<one>>) = 1 /\ IsSequence(<<one>>) /\ \A k \in 1..1 : k = 1
  BY ShortSequences
<1>4. ASSUME NEW i \in 1..n PROVE IsTransactionObj("this", txs[i])
  <2> DEFINE o == block.txobj[i]
             v == [tx |-> o.tx, validatordata |-> o.validatordata, attestordata |-> <<>>]
  <2>1. IsTransactionObj(schema, o)
    BY DEF IsBlock
  <2> HIDE DEF o
  <2>2. v = [tx |-> v.tx, validatordata |-> v.validatordata, attestordata |-> v.attestordata]
        /\ v.tx = o.tx /\ v.validatordata = o.validatordata /\ v.attestordata = <<>>
    OBVIOUS
  <2> HIDE DEF v
  <2>3. IsSequence(v.attestordata) /\ Len(v.attestordata) = 0
    BY <2>2, ShortSequences
  <2>4. IsTransactionObj("this", v)
    BY <2>1, <2>2, <2>3 DEF IsTransactionObj
  <2>5. txs[i] = v
    BY <1>2 DEF v, o
  <2> HIDE DEF txs
  <2> QED BY <2>4, <2>5
<1> HIDE DEF b
<1>5. IsSequence(txs) /\ Len(txs) = n
  <2> HIDE DEF txs
  <2> QED BY <1>1, <1>2, FunctionIsSequence
<1>6. IsSignerList(b.signers)
  <2> HIDE DEF one
  <2> QED BY <1>1, <1>2, <1>3 DEF IsSignerList
<1>7. IsBlock("this", b)
  BY <1>2, <1>4, <1>5, <1>6 DEF IsBlock
<1>8. Bare(b) = b
  <2>1. ASSUME NEW i \in 1..n
        PROVE  txs[i] = [tx |-> txs[i].tx, validatordata |-> txs[i].validatordata,
                         attestordata |-> <<>>]
    <3> DEFINE o == block.txobj[i]
               v == [tx |-> o.tx, validatordata |-> o.validatordata, attestordata |-> <<>>]
    <3>1. txs[i] = v
      BY <1>2
    <3> HIDE DEF txs, o
    <3> QED BY <3>1
  <2>2. txs = [i \in 1..Len(txs) |-> [tx |-> txs[i].tx, validatordata |-> txs[i].validatordata,
                         attestordata |-> <<>>]]
    BY <1>2, <1>5, <2>1
  <2>3. <<b.signers[1]>> = b.signers
    BY <1>2, <1>3
  <2> QED BY <1>2, <2>2, <2>3 DEF Bare
<1> QED BY <1>2, <1>5, <1>7, <1>8 DEF IsBare, b

------------------------------------------------------------------------------
(* The invariant: whose parts the blocks are made of. *)

\* What an attestor has looked at before it signs
Reviewed(block) ==
  /\ StartsWith(block.attesttoken, "AT1") /\ Len(block.attesttoken) >= 4
  /\ Len(block.txobj) < MaxTransactions
  /\ \A i \in DOMAIN block.txobj : ValidTransaction(block.txobj[i])
  /\ TotalSize(block) <= MaxTotalSize

\* The block a patch answers, and the patch as the producer reads it
RequestOf(reply) == DecodeBlock(SP, reply.of)
\* The patch as the producer reads it
PatchOf(reply) == DecodePatch(SP, reply.bytes)

\* Bytes of a block the producer signed
IsRequest(bytes) ==
  Produced(DecodeBlock(SP, bytes)) /\ bytes = EncodeBlock(SP, DecodeBlock(SP, bytes))
\* A patch an attestor made of such a block, after it reviewed it
IsAnswer(reply) ==
  /\ reply.from \in Attestors /\ IsRequest(reply.of) /\ Reviewed(RequestOf(reply))
  /\ reply.bytes = EncodePatch(Schema[reply.from], Answer(reply.from, RequestOf(reply)))

\* Signature and attestations k - 1 of a block are those of a patch.
PatchIn(block, k, reply) ==
  /\ block.signers[k] = PatchOf(reply).signer
  /\ Len(block.txobj) <= Len(PatchOf(reply).attestordata)
  /\ \A i \in 1..Len(block.txobj) :
       block.txobj[i].attestordata[k - 1] = PatchOf(reply).attestordata[i]

\* A block of the producer and of patches it got
Composed(block, answers) ==
  /\ IsBlock(SP, block) /\ Len(block.signers) >= 1 /\ Len(block.signers) <= ValPerBlock
  /\ Produced(Bare(block))
  /\ \A i \in 1..Len(block.txobj) :
       Len(block.txobj[i].attestordata) = Len(block.signers) - 1
  /\ \A k \in 2..Len(block.signers) : \E reply \in answers : PatchIn(block, k, reply)

\* The draft has no signature, or is made of the producer's block and of patches of it.
DraftInv == draft = EmptyBlock \/ Composed(draft, replies)
\* What was sent to the attestors are blocks the producer signed.
RequestsInv == \A bytes \in requests : IsRequest(bytes)
\* What they sent back are their patches of blocks they reviewed.
RepliesInv == \A reply \in replies : IsAnswer(reply)
\* What was published are such drafts, with all signatures asked for.
PublishedInv ==
  \A bytes \in published :
    LET block == DecodeBlock(SP, bytes) IN
    Composed(block, replies) /\ Len(block.signers) = ValPerBlock /\ bytes = EncodeBlock(SP, block)
\* Each signature of what was accepted is of a node.
AcceptedInv ==
  \A bytes \in accepted :
    \A k \in 1..ValPerBlock :
      RecoverSigner(StorageNode, DecodeBlock("this", bytes), k) \in Nodes
\* The inductive invariant
BlocksInv == TypeOK /\ DraftInv /\ RequestsInv /\ RepliesInv /\ PublishedInv /\ AcceptedInv

\* A patch as its attestor and as the producer reads it
LEMMA AnswerRead ==
  ASSUME NEW reply, IsAnswer(reply)
  PROVE  LET n == reply.from
             b == RequestOf(reply)
         IN  /\ IsPatch(Schema[n], Answer(n, b)) /\ DecodePatch(Schema[n], reply.bytes) = Answer(n, b)
             /\ PatchOf(reply) = PatchAs(SP, Answer(n, b))
             /\ PatchOf(reply).signer = [sig |-> AnswerSignature(n, b)]
             /\ IsSequence(PatchOf(reply).attestordata)
             /\ Len(PatchOf(reply).attestordata) = Len(b.txobj)
             /\ \A i \in 1..Len(b.txobj) :
                  /\ PatchOf(reply).attestordata[i] = AttestationAs(SP, Attestation(n))
                  /\ IsAttestation(SP, PatchOf(reply).attestordata[i])
<1> DEFINE n == reply.from
           b == RequestOf(reply)
           a == Answer(n, b)
           p == PatchOf(reply)
<1>1. n \in Attestors /\ Schema[n] \in Schemas /\ SP \in Schemas /\ IsBare(b)
  BY SchemasOfNodes DEF IsAnswer, IsRequest, RequestOf, Produced
<1>2. Len(b.txobj) \in Nat
  BY <1>1, SequenceFacts DEF IsBare, IsBlock
<1>3. IsPatch(Schema[n], a)
  BY <1>1, AnswerShape
<1>4. DecodePatch(Schema[n], reply.bytes) = a
  <2>1. reply.bytes = EncodePatch(Schema[n], a)
    BY DEF IsAnswer
  <2> HIDE DEF a, n
  <2> QED BY <1>1, <1>3, <2>1, PatchBack, OwnPatch
<1>5. p = PatchAs(SP, a)
  <2>1. reply.bytes = EncodePatch(Schema[n], a)
    BY DEF IsAnswer
  <2>2. p = DecodePatch(SP, reply.bytes)
    BY DEF PatchOf
  <2> HIDE DEF a, n, p
  <2> QED BY <1>1, <1>3, <2>1, <2>2, PatchBack
<1>6. a.attestordata = Says(n, Len(b.txobj)) /\ a.signer = [sig |-> AnswerSignature(n, b)]
  BY DEF Answer
<1>7. p.attestordata = AttestationsAs(SP, a.attestordata) /\ p.signer = a.signer
  BY <1>5 DEF PatchAs
<1>8. /\ IsSequence(a.attestordata) /\ Len(a.attestordata) = Len(b.txobj)
      /\ \A i \in 1..Len(b.txobj) : a.attestordata[i] = Attestation(n)
  BY <1>1, <1>2, <1>6, SaysTyped
<1>9. /\ IsSequence(p.attestordata) /\ Len(p.attestordata) = Len(b.txobj)
      /\ \A i \in 1..Len(b.txobj) : p.attestordata[i] = AttestationAs(SP, Attestation(n))
  BY <1>7, <1>8, AttestationsKept
<1>10. IsAttestation(SP, AttestationAs(SP, Attestation(n)))
  BY DEF IsAttestation, AttestationAs
<1> QED BY <1>3, <1>4, <1>5, <1>6, <1>7, <1>9, <1>10

\* How a block grows by a patch
PatchedList(block, patch) ==
  [i \in 1..Len(block.txobj) |->
    [tx |-> block.txobj[i].tx, validatordata |-> block.txobj[i].validatordata,
     attestordata |-> Append(block.txobj[i].attestordata, patch.attestordata[i])]]
\* A block with a patch
Patched(block, patch) ==
  [ts |-> block.ts, attesttoken |-> block.attesttoken, txobj |-> PatchedList(block, patch),
   signers |-> Append(block.signers, patch.signer)]

\* Appending a patch makes such a block.
LEMMA WithPatchShape ==
  ASSUME NEW schema \in Schemas, NEW block, IsBlock(schema, block), NEW patch
  PROVE  WithPatch(block, patch) = Patched(block, patch)
<1> DEFINE txs == [i \in DOMAIN block.txobj |->
              [block.txobj[i] EXCEPT !.attestordata = Append(@, patch.attestordata[i])]]
<1>1. ASSUME NEW i \in 1..Len(block.txobj)
      PROVE  [block.txobj[i] EXCEPT !.attestordata = Append(@, patch.attestordata[i])]
               = PatchedList(block, patch)[i]
  <2> DEFINE o == block.txobj[i]
             v == patch.attestordata[i]
  <2>1. o = [tx |-> o.tx, validatordata |-> o.validatordata, attestordata |-> o.attestordata]
    BY BlockParts
  <2>2. PatchedList(block, patch)[i]
          = [tx |-> o.tx, validatordata |-> o.validatordata,
             attestordata |-> Append(o.attestordata, v)]
    BY DEF PatchedList
  <2> HIDE DEF o, v
  <2>3. [o EXCEPT !.attestordata = Append(@, v)]
          = [tx |-> o.tx, validatordata |-> o.validatordata,
             attestordata |-> Append(o.attestordata, v)]
    BY <2>1
  <2> QED BY <2>2, <2>3 DEF o, v
<1> DEFINE list == PatchedList(block, patch)
<1>2. list = [i \in 1..Len(block.txobj) |-> list[i]]
  BY DEF PatchedList
<1>3. txs = list
  <2> HIDE DEF list
  <2> QED BY <1>1, <1>2, BlockParts DEF list
<1>4. WithPatch(block, patch)
        = [block EXCEPT !.signers = Append(@, patch.signer), !.txobj = txs]
  BY DEF WithPatch
<1>5. block = [ts |-> block.ts, attesttoken |-> block.attesttoken, txobj |-> block.txobj,
                     signers |-> block.signers]
  BY BlockParts
<1> DEFINE signers == Append(block.signers, patch.signer)
           one == [block EXCEPT !.signers = signers]
<1>6. WithPatch(block, patch) = [one EXCEPT !.txobj = txs]
  BY <1>4
<1> HIDE DEF txs, list, signers
<1>7. one = [ts |-> block.ts, attesttoken |-> block.attesttoken, txobj |-> block.txobj,
               signers |-> signers]
  BY <1>5
<1> HIDE DEF one
<1>8. [one EXCEPT !.txobj = txs]
        = [ts |-> block.ts, attesttoken |-> block.attesttoken, txobj |-> txs,
               signers |-> signers]
  BY <1>7
<1> QED BY <1>3, <1>6, <1>8 DEF Patched, list, signers

\* A block stays made of patches when more come.
LEMMA ComposedMore ==
  ASSUME NEW block, NEW answers, NEW more, answers \subseteq more, Composed(block, answers)
  PROVE  Composed(block, more)
BY DEF Composed

\* A block that was just signed
LEMMA ProducedIsComposed ==
  ASSUME NEW block, Produced(block), NEW answers
  PROVE  Composed(block, answers) /\ IsRequest(EncodeBlock(SP, block))
<1>1. /\ IsBlock(SP, block) /\ Bare(block) = block /\ SP \in Schemas
      /\ \A i \in 1..Len(block.txobj) : block.txobj[i].attestordata = <<>>
  BY BareTyped, SchemasOfNodes DEF Produced, IsBare
<1>2. Len(block.signers) = 1
  <2> DEFINE one == [sig |-> ProducerSignature(block)]
  <2>1. block.signers = <<one>>
    BY DEF Produced
  <2> HIDE DEF one
  <2> QED BY <2>1
<1>3. \A i \in 1..Len(block.txobj) :
       Len(block.txobj[i].attestordata) = Len(block.signers) - 1
  <2>1. Len(<<>>) = 0
    OBVIOUS
  <2> QED BY <1>1, <1>2, <2>1
<1>4. Composed(block, answers)
  BY <1>1, <1>2, <1>3, CountAssumption DEF Composed
<1>5. DecodeBlock(SP, EncodeBlock(SP, block)) = block
  BY <1>1, BareBack DEF Produced
<1> QED BY <1>4, <1>5 DEF IsRequest

\* A block grown by a patch
LEMMA PatchedIsComposed ==
  ASSUME NEW answers, NEW block, Composed(block, answers), Len(block.signers) < ValPerBlock,
         NEW reply \in answers, IsAnswer(reply),
         DOMAIN block.txobj \subseteq DOMAIN PatchOf(reply).attestordata
  PROVE  Composed(Patched(block, PatchOf(reply)), answers)
<1> DEFINE p == PatchOf(reply)
           new == Patched(block, p)
           txs == new.txobj
           n == Len(block.txobj)
           c == Len(block.signers)
<1>1. IsBlock(SP, block) /\ SP \in Schemas /\ n \in Nat /\ c \in Nat /\ c >= 1
      /\ IsSequence(block.signers) /\ DOMAIN block.txobj = 1..n
  BY BlockParts, SchemasOfNodes DEF Composed, IsBlock, IsSignerList
<1>2. /\ IsSequence(p.attestordata) /\ n <= Len(p.attestordata)
      /\ \A i \in 1..n : IsAttestation(SP, p.attestordata[i])
      /\ IsSigner(p.signer)
  <2>1. /\ IsSequence(p.attestordata) /\ p.signer = [sig |-> AnswerSignature(reply.from, RequestOf(reply))]
        /\ Len(p.attestordata) = Len(RequestOf(reply).txobj)
        /\ \A i \in 1..Len(RequestOf(reply).txobj) : IsAttestation(SP, p.attestordata[i])
    BY AnswerRead
  <2>2. DOMAIN p.attestordata = 1..Len(p.attestordata) /\ Len(p.attestordata) \in Nat
    BY <2>1, SequenceFacts
  <2>3. \A i \in 1..n : i \in 1..Len(p.attestordata)
    BY <1>1, <2>2
  <2>4. n <= Len(p.attestordata)
    BY <1>1, <2>2, <2>3
  <2>5. IsSigner(p.signer)
    BY <2>1 DEF IsSigner
  <2> QED BY <2>1, <2>3, <2>4, <2>5
<1> HIDE DEF p
<1>3. /\ txs = [i \in 1..n |-> txs[i]]
      /\ \A i \in 1..n : txs[i] =
           [tx |-> block.txobj[i].tx, validatordata |-> block.txobj[i].validatordata,
            attestordata |-> Append(block.txobj[i].attestordata, p.attestordata[i])]
      /\ new = [ts |-> new.ts, attesttoken |-> new.attesttoken, txobj |-> txs, signers |-> new.signers]
      /\ new.signers = Append(block.signers, p.signer)
      /\ new.ts = block.ts /\ new.attesttoken = block.attesttoken
  BY DEF Patched, PatchedList
<1> HIDE DEF new
<1>4. IsSequence(txs) /\ Len(txs) = n
  <2> HIDE DEF txs, n
  <2> QED BY <1>1, <1>3, FunctionIsSequence
<1>5. ASSUME NEW i \in 1..n
      PROVE  /\ IsTransactionObj(SP, txs[i]) /\ Len(txs[i].attestordata) = c
             /\ \A j \in 1..(c - 1) : txs[i].attestordata[j] = block.txobj[i].attestordata[j]
             /\ txs[i].attestordata[c] = p.attestordata[i]
             /\ txs[i].tx = block.txobj[i].tx /\ txs[i].validatordata = block.txobj[i].validatordata
  <2> DEFINE o == block.txobj[i]
             a == p.attestordata[i]
             list == Append(o.attestordata, a)
             v == [tx |-> o.tx, validatordata |-> o.validatordata, attestordata |-> list]
  <2>1. IsTransactionObj(SP, o) /\ IsAttestation(SP, a) /\ Len(o.attestordata) = c - 1
    BY <1>1, <1>2 DEF IsBlock, Composed
  <2>2. txs[i] = v
    BY <1>3
  <2> HIDE DEF o, a, txs, c
  <2>3. /\ IsSequence(list) /\ Len(list) = c /\ list[c] = a
        /\ \A j \in 1..(c - 1) : list[j] = o.attestordata[j]
    BY <1>1, <2>1, AppendFacts DEF IsTransactionObj
  <2>4. \A j \in 1..Len(list) : IsAttestation(SP, list[j])
    <3> SUFFICES ASSUME NEW j \in 1..Len(list) PROVE IsAttestation(SP, list[j])
      OBVIOUS
    <3>1. CASE j = c
      BY <2>1, <2>3, <3>1
    <3>2. CASE j # c
      <4>1. j \in 1..(c - 1)
        BY <1>1, <2>3, <3>2
      <4> QED BY <2>1, <2>3, <4>1 DEF IsTransactionObj
    <3> QED BY <3>1, <3>2
  <2> HIDE DEF list
  <2>5. v = [tx |-> v.tx, validatordata |-> v.validatordata, attestordata |-> v.attestordata]
        /\ v.tx = o.tx /\ v.validatordata = o.validatordata /\ v.attestordata = list
    OBVIOUS
  <2> HIDE DEF v
  <2>6. IsTransactionObj(SP, v)
    BY <2>1, <2>3, <2>4, <2>5 DEF IsTransactionObj
  <2> QED BY <2>2, <2>3, <2>5, <2>6 DEF o, a
<1>6. /\ IsSequence(new.signers) /\ Len(new.signers) = c + 1
      /\ \A k \in 1..c : new.signers[k] = block.signers[k]
      /\ new.signers[c + 1] = p.signer
  BY <1>1, <1>3, AppendFacts
<1>7. IsSignerList(new.signers)
  <2> SUFFICES ASSUME NEW k \in 1..(c + 1) PROVE IsSigner(new.signers[k])
    BY <1>6 DEF IsSignerList
  <2>1. CASE k = c + 1
    BY <1>2, <1>6, <2>1
  <2>2. CASE k # c + 1
    <3>1. k \in 1..c
      BY <1>1, <2>2
    <3> QED BY <1>1, <1>6, <3>1 DEF IsBlock, IsSignerList
  <2> QED BY <2>1, <2>2
<1>8. IsBlock(SP, new)
  BY <1>3, <1>4, <1>5, <1>7 DEF IsBlock
<1>9. Bare(new) = Bare(block)
  <2>1. new.signers[1] = block.signers[1]
    BY <1>1, <1>6
  <2>2. new.ts = block.ts /\ new.attesttoken = block.attesttoken
    BY <1>3
  <2>3. \A i \in 1..n : txs[i].tx = block.txobj[i].tx /\ txs[i].validatordata = block.txobj[i].validatordata
    BY <1>5
  <2> QED BY <1>4, <2>1, <2>2, <2>3 DEF Bare
<1>10. ASSUME NEW k \in 2..Len(new.signers)
       PROVE  \E other \in answers : PatchIn(new, k, other)
  <2>1. CASE k = c + 1
    <3>1. k - 1 = c
      BY <1>1, <2>1
    <3>2. PatchIn(new, k, reply)
      BY <1>2, <1>4, <1>5, <1>6, <2>1, <3>1 DEF PatchIn, p
    <3> QED BY <3>2
  <2>2. CASE k # c + 1
    <3>1. k \in 2..c /\ k - 1 \in 1..(c - 1) /\ k \in 1..c
      BY <1>1, <1>6, <2>2
    <3>2. PICK other \in answers : PatchIn(block, k, other)
      BY <3>1 DEF Composed
    <3>3. \A i \in 1..n : txs[i].attestordata[k - 1] = block.txobj[i].attestordata[k - 1]
      BY <1>5, <3>1
    <3>4. PatchIn(new, k, other)
      BY <1>4, <1>6, <3>1, <3>2, <3>3 DEF PatchIn
    <3> QED BY <3>4
  <2> QED BY <2>1, <2>2
<1>11. \A i \in 1..Len(txs) : Len(txs[i].attestordata) = Len(new.signers) - 1
  BY <1>1, <1>4, <1>5, <1>6
<1>12. Len(new.signers) <= ValPerBlock /\ Len(new.signers) >= 1
  BY <1>1, <1>6, CountAssumption
<1>13. Composed(new, answers)
  BY <1>8, <1>9, <1>10, <1>11, <1>12 DEF Composed
<1> QED BY <1>13 DEF new, p

------------------------------------------------------------------------------
(* The steps keep it. *)

\* There is nothing yet.
LEMMA InitBlocks == Init => BlocksInv
<1> SUFFICES ASSUME Init PROVE BlocksInv
  OBVIOUS
<1>1. /\ draft = EmptyBlock /\ requests = {} /\ replies = {} /\ published = {} /\ accepted = {}
      /\ validators = Nodes
  BY DEF Init
<1>2. Len(draft.signers) = 0
  BY <1>1 DEF EmptyBlock
<1>3. TypeOK
  BY <1>1, <1>2, CountAssumption DEF TypeOK
<1> QED BY <1>1, <1>3 DEF BlocksInv, DraftInv, RequestsInv, RepliesInv, PublishedInv, AcceptedInv

\* A new draft is the producer's block alone.
LEMMA ProposeKeeps ==
  ASSUME BlocksInv, NEW block \in Proposals, Propose(block)
  PROVE  BlocksInv'
<1> DEFINE signed == SignBlockAsValidator(block)
<1>1. Produced(signed)
  BY SignedIsProduced
<1>2. /\ draft' = signed /\ requests' = requests \cup {EncodeBlock(SP, signed)}
      /\ UNCHANGED <<validators, replies, published, accepted>>
  BY DEF Propose, SP
<1> HIDE DEF signed
<1>3. Composed(signed, replies') /\ IsRequest(EncodeBlock(SP, signed))
  BY <1>1, ProducedIsComposed
<1>4. DraftInv'
  BY <1>2, <1>3 DEF DraftInv
<1>5. RequestsInv'
  BY <1>2, <1>3 DEF BlocksInv, RequestsInv
<1>6. RepliesInv' /\ PublishedInv' /\ AcceptedInv'
  BY <1>2 DEF BlocksInv, RepliesInv, PublishedInv, AcceptedInv
<1>7. TypeOK'
  BY <1>2, <1>3 DEF BlocksInv, TypeOK, Composed
<1> QED BY <1>4, <1>5, <1>6, <1>7 DEF BlocksInv

\* An attestor answers what it reviewed.
LEMMA AttestKeeps ==
  ASSUME BlocksInv, NEW node \in Attestors, NEW request \in requests, Attest(node, request)
  PROVE  BlocksInv'
<1> DEFINE b == DecodeBlock(SP, request)
           reply == [from |-> node, of |-> request,
                     bytes |-> EncodePatch(Schema[node], Answer(node, b))]
<1>1. Produced(b) /\ request = EncodeBlock(SP, b) /\ IsRequest(request)
  BY DEF BlocksInv, RequestsInv, IsRequest
<1> HIDE DEF b
<1>2. DecodeBlock(Schema[node], request) = b
  <2>1. Schema[node] \in Schemas /\ SP \in Schemas /\ IsBare(b)
    BY <1>1, SchemasOfNodes DEF Produced
  <2> QED BY <1>1, <2>1, BareBack
<1>3. SignBlockAsAttestor(node, b) = Answer(node, b)
  BY <1>1, AnswerShape DEF Produced
<1>4. /\ CheckBlockAsAttestor(node, b) /\ replies' = replies \cup {reply}
      /\ UNCHANGED <<validators, draft, requests, published, accepted>>
  BY <1>2, <1>3 DEF Attest
<1>5. Reviewed(b)
  BY <1>4 DEF CheckBlockAsAttestor, Reviewed
<1>6. /\ reply.from = node /\ reply.of = request
      /\ reply.bytes = EncodePatch(Schema[node], Answer(node, b))
  OBVIOUS
<1> HIDE DEF reply
<1>7. IsAnswer(reply)
  BY <1>1, <1>5, <1>6 DEF IsAnswer, RequestOf, b
<1>8. RepliesInv'
  BY <1>4, <1>7 DEF BlocksInv, RepliesInv
<1>9. \A block : Composed(block, replies) => Composed(block, replies')
  BY <1>4, ComposedMore
<1>10. DraftInv'
  BY <1>4, <1>9 DEF BlocksInv, DraftInv
<1>11. PublishedInv'
  BY <1>4, <1>9 DEF BlocksInv, PublishedInv
<1>12. RequestsInv' /\ AcceptedInv'
  BY <1>4 DEF BlocksInv, RequestsInv, AcceptedInv
<1>13. TypeOK'
  BY <1>4, <1>6 DEF BlocksInv, TypeOK
<1> QED BY <1>8, <1>10, <1>11, <1>12, <1>13 DEF BlocksInv

\* The draft grows by a patch.
LEMMA AppendKeeps ==
  ASSUME BlocksInv, NEW reply \in replies, AppendPatch(reply)
  PROVE  BlocksInv'
<1>1. /\ draft.signers # <<>> /\ Len(draft.signers) < ValPerBlock
      /\ DOMAIN draft.txobj \subseteq DOMAIN PatchOf(reply).attestordata
      /\ draft' = WithPatch(draft, PatchOf(reply))
      /\ UNCHANGED <<validators, requests, replies, published, accepted>>
  BY DEF AppendPatch, PatchOf, SP
<1>2. Composed(draft, replies)
  <2>1. EmptyBlock.signers = <<>>
    BY DEF EmptyBlock
  <2> QED BY <1>1, <2>1 DEF BlocksInv, DraftInv
<1>3. draft' = Patched(draft, PatchOf(reply))
  BY <1>1, <1>2, WithPatchShape, SchemasOfNodes DEF Composed
<1>4. Composed(Patched(draft, PatchOf(reply)), replies)
  BY <1>1, <1>2, PatchedIsComposed DEF BlocksInv, RepliesInv
<1>5. Composed(draft', replies')
  BY <1>1, <1>3, <1>4
<1>6. DraftInv'
  BY <1>5 DEF DraftInv
<1>7. RequestsInv' /\ RepliesInv' /\ PublishedInv' /\ AcceptedInv'
  BY <1>1 DEF BlocksInv, RequestsInv, RepliesInv, PublishedInv, AcceptedInv
<1>8. TypeOK'
  BY <1>1, <1>5 DEF BlocksInv, TypeOK, Composed
<1> QED BY <1>6, <1>7, <1>8 DEF BlocksInv

\* The queue gets a draft with all signatures.
LEMMA PublishKeeps ==
  ASSUME BlocksInv, Publish
  PROVE  BlocksInv'
<1> DEFINE bytes == EncodeBlock(SP, draft)
<1>1. /\ Len(draft.signers) = ValPerBlock /\ published' = published \cup {bytes}
      /\ UNCHANGED <<validators, draft, requests, replies, accepted>>
  BY DEF Publish, SP
<1>2. Composed(draft, replies)
  <2>1. EmptyBlock.signers = <<>> /\ Len(<<>>) = 0
    BY DEF EmptyBlock
  <2> QED BY <1>1, <2>1, CountAssumption DEF BlocksInv, DraftInv
<1>3. DecodeBlock(SP, bytes) = draft
  BY <1>2, BlockBack, OwnBlock, SchemasOfNodes DEF Composed
<1>4. PublishedInv'
  <2> SUFFICES ASSUME NEW b \in published'
               PROVE  /\ Composed(DecodeBlock(SP, b), replies')
                      /\ Len(DecodeBlock(SP, b).signers) = ValPerBlock
                      /\ b = EncodeBlock(SP, DecodeBlock(SP, b))
    BY DEF PublishedInv
  <2>1. CASE b = bytes
    BY <1>1, <1>2, <1>3, <2>1
  <2>2. CASE b # bytes
    BY <1>1, <2>2 DEF BlocksInv, PublishedInv
  <2> QED BY <2>1, <2>2
<1> HIDE DEF bytes
<1>5. TypeOK' /\ DraftInv' /\ RequestsInv' /\ RepliesInv' /\ AcceptedInv'
  BY <1>1 DEF BlocksInv, TypeOK, DraftInv, RequestsInv, RepliesInv, AcceptedInv
<1> QED BY <1>4, <1>5 DEF BlocksInv

\* The storage node accepts what all signatures hold for, in any form.
LEMMA HandleKeeps ==
  ASSUME BlocksInv, NEW bytes \in published, NEW raw \in Resent(bytes), HandleBlock(raw)
  PROVE  BlocksInv'
<1> DEFINE block == DecodeBlock("this", raw)
<1>1. /\ CheckBlockAsSNode(StorageNode, block) /\ accepted' = accepted \cup {raw}
      /\ UNCHANGED <<validators, draft, requests, replies, published>>
  BY SchemasOfNodes DEF HandleBlock
<1>2. \A k \in 1..ValPerBlock : RecoverSigner(StorageNode, block, k) \in Nodes
  BY <1>1 DEF CheckBlockAsSNode, BlocksInv, TypeOK
<1>3. AcceptedInv'
  BY <1>1, <1>2 DEF BlocksInv, AcceptedInv
<1>4. DecodeBlock(Schema[StorageNode], raw) = DecodeBlock(Schema[StorageNode], bytes)
  BY DEF Resent
<1>5. TypeOK'
  BY <1>1, <1>4 DEF BlocksInv, TypeOK
<1>6. DraftInv' /\ RequestsInv' /\ RepliesInv' /\ PublishedInv'
  BY <1>1 DEF BlocksInv, DraftInv, RequestsInv, RepliesInv, PublishedInv
<1> QED BY <1>3, <1>5, <1>6 DEF BlocksInv

\* No step depends on the validators that are left.
LEMMA RemoveKeeps ==
  ASSUME BlocksInv, NEW node \in Nodes, RemoveValidator(node)
  PROVE  BlocksInv'
<1>1. validators' \subseteq validators
      /\ UNCHANGED <<draft, requests, replies, published, accepted>>
  BY DEF RemoveValidator
<1>2. TypeOK' /\ DraftInv' /\ RequestsInv' /\ RepliesInv' /\ PublishedInv' /\ AcceptedInv'
  BY <1>1 DEF BlocksInv, TypeOK, DraftInv, RequestsInv, RepliesInv, PublishedInv, AcceptedInv
<1> QED BY <1>2 DEF BlocksInv

\* Every published block is a block its producer signed, with the attestations and
\* signatures of patches of attestors, each of which reviewed the block it was made for.
THEOREM BlocksInvariant == Spec => []BlocksInv
<1>1. BlocksInv /\ [Next]_vars => BlocksInv'
  <2> SUFFICES ASSUME BlocksInv, [Next]_vars PROVE BlocksInv'
    OBVIOUS
  <2>1. CASE Next
    BY <2>1, ProposeKeeps, AttestKeeps, AppendKeeps, PublishKeeps, HandleKeeps, RemoveKeeps DEF Next
  <2>2. CASE UNCHANGED vars
    BY <2>2 DEF vars, BlocksInv, TypeOK, DraftInv, RequestsInv, RepliesInv, PublishedInv, AcceptedInv
  <2> QED BY <2>1, <2>2
<1> QED BY <1>1, InitBlocks, PTL DEF Spec

------------------------------------------------------------------------------
(* Blocks as the storage node reads and restores them. *)

\* The attestations are those of another block, as the storage node knows them.
ReadOf(block, blk) ==
  \A i \in 1..Len(blk.txobj) :
    LET was == blk.txobj[i].attestordata
        is == block.txobj[i].attestordata
    IN  Len(is) = Len(was) /\ \A j \in 1..Len(was) : is[j] = AttestationAs("this", was[j])

\* A block as the storage node reads it
LEMMA StorageView ==
  ASSUME NEW from \in Schemas, NEW blk, IsBlock(from, blk), Len(blk.signers) >= 1
  PROVE  LET block == BlockAs("this", blk) IN
         /\ IsBlock("this", block) /\ block.signers = blk.signers
         /\ Len(block.txobj) = Len(blk.txobj) /\ Bare(block) = Bare(blk)
         /\ ReadOf(block, blk)
<1> DEFINE block == BlockAs("this", blk)
           txs == block.txobj
<1>1. /\ txs = TransactionObjsAs("this", blk.txobj) /\ block.ts = blk.ts
      /\ block.attesttoken = blk.attesttoken /\ block.signers = blk.signers
      /\ block = [ts |-> block.ts, attesttoken |-> block.attesttoken, txobj |-> block.txobj,
                  signers |-> block.signers]
  BY DEF BlockAs
<1> HIDE DEF block
<1>2. /\ IsSequence(txs) /\ Len(txs) = Len(blk.txobj)
      /\ \A i \in 1..Len(blk.txobj) : txs[i] = TransactionObjAs("this", blk.txobj[i])
  BY <1>1, TransactionObjsKept DEF IsBlock
<1>3. ASSUME NEW i \in 1..Len(blk.txobj)
      PROVE  /\ IsTransactionObj("this", txs[i])
             /\ txs[i].tx = blk.txobj[i].tx /\ txs[i].validatordata = blk.txobj[i].validatordata
             /\ Len(txs[i].attestordata) = Len(blk.txobj[i].attestordata)
             /\ \A j \in 1..Len(blk.txobj[i].attestordata) :
                  txs[i].attestordata[j] = AttestationAs("this", blk.txobj[i].attestordata[j])
  <2> DEFINE o == blk.txobj[i]
             v == TransactionObjAs("this", o)
             list == AttestationsAs("this", o.attestordata)
  <2>1. txs[i] = v /\ IsTransactionObj(from, o)
    BY <1>2 DEF IsBlock
  <2> HIDE DEF o, txs
  <2>2. v = [tx |-> o.tx, validatordata |-> o.validatordata, attestordata |-> list]
    BY DEF TransactionObjAs
  <2>3. /\ IsSequence(list) /\ Len(list) = Len(o.attestordata)
        /\ \A j \in 1..Len(o.attestordata) : list[j] = AttestationAs("this", o.attestordata[j])
    BY <2>1, AttestationsKept DEF IsTransactionObj
  <2>4. \A a : IsAttestation("this", AttestationAs("this", a))
    BY DEF IsAttestation, AttestationAs
  <2> HIDE DEF v, list
  <2>5. v = [tx |-> v.tx, validatordata |-> v.validatordata, attestordata |-> v.attestordata]
        /\ v.tx = o.tx /\ v.validatordata = o.validatordata /\ v.attestordata = list
    BY <2>2
  <2>6. \A j \in 1..Len(list) : IsAttestation("this", list[j])
    BY <2>3, <2>4
  <2>7. IsTransactionObj("this", v)
    BY <2>1, <2>3, <2>5, <2>6 DEF IsTransactionObj
  <2> QED BY <2>1, <2>3, <2>5, <2>7 DEF o
<1>4. IsBlock("this", block)
  BY <1>1, <1>2, <1>3 DEF IsBlock
<1>5. Bare(block) = Bare(blk)
  <2>1. \A i \in 1..Len(blk.txobj) : txs[i].tx = blk.txobj[i].tx
                                     /\ txs[i].validatordata = blk.txobj[i].validatordata
    BY <1>3
  <2> QED BY <1>1, <1>2, <2>1 DEF Bare
<1>6. ReadOf(block, blk)
  BY <1>3 DEF ReadOf
<1> QED BY <1>1, <1>2, <1>4, <1>5, <1>6 DEF block

\* What the signers of a block had before them, as it is restored
LEMMA Restored ==
  ASSUME NEW schema \in Schemas, NEW block, IsBlock(schema, block)
  PROVE  /\ AsProposed(block) = Unsigned(Bare(block))
         /\ [AsProposed(block) EXCEPT !.signers = <<block.signers[1]>>] = Bare(block)
         /\ \A k : AsAttested(block, k) = Put(Bare(block), Said(block, k - 1))
<1> DEFINE txs == [i \in DOMAIN block.txobj |-> [block.txobj[i] EXCEPT !.attestordata = <<>>]]
           one == [block EXCEPT !.signers = <<>>]
           bares == [i \in 1..Len(block.txobj) |->
                 [tx |-> block.txobj[i].tx, validatordata |-> block.txobj[i].validatordata,
                  attestordata |-> <<>>]]
<1>1. txs = bares
  <2>1. ASSUME NEW i \in 1..Len(block.txobj)
        PROVE  [block.txobj[i] EXCEPT !.attestordata = <<>>]
                 = [tx |-> block.txobj[i].tx, validatordata |-> block.txobj[i].validatordata,
                    attestordata |-> <<>>]
    <3> DEFINE o == block.txobj[i]
    <3>1. o = [tx |-> o.tx, validatordata |-> o.validatordata, attestordata |-> o.attestordata]
      BY BlockParts
    <3> HIDE DEF o
    <3>2. [o EXCEPT !.attestordata = <<>>]
            = [tx |-> o.tx, validatordata |-> o.validatordata, attestordata |-> <<>>]
      BY <3>1
    <3> QED BY <3>2 DEF o
  <2> QED BY <2>1, BlockParts
<1>2. block = [ts |-> block.ts, attesttoken |-> block.attesttoken, txobj |-> block.txobj,
                     signers |-> block.signers]
  BY BlockParts
<1>3. AsProposed(block) = [one EXCEPT !.txobj = txs]
  BY DEF AsProposed
<1>4. Bare(block) = [ts |-> block.ts, attesttoken |-> block.attesttoken, txobj |-> bares,
                     signers |-> <<block.signers[1]>>]
  BY DEF Bare
<1>5. Len(bares) = Len(block.txobj) /\ \A i \in 1..Len(block.txobj) :
        bares[i].tx = block.txobj[i].tx /\ bares[i].validatordata = block.txobj[i].validatordata
  <2>1. Len(block.txobj) \in Nat
    BY BlockParts
  <2>2. bares = [i \in 1..Len(block.txobj) |-> bares[i]]
    OBVIOUS
  <2>3. \A i \in 1..Len(block.txobj) :
          bares[i].tx = block.txobj[i].tx /\ bares[i].validatordata = block.txobj[i].validatordata
    OBVIOUS
  <2> HIDE DEF bares
  <2> QED BY <2>1, <2>2, <2>3, FunctionIsSequence
<1> HIDE DEF txs, bares
<1>6. one = [ts |-> block.ts, attesttoken |-> block.attesttoken, txobj |-> block.txobj,
             signers |-> <<>>]
  BY <1>2
<1> HIDE DEF one
<1>7. [one EXCEPT !.txobj = txs] = [ts |-> block.ts, attesttoken |-> block.attesttoken,
                                    txobj |-> bares, signers |-> <<>>]
  BY <1>1, <1>6
<1>8. Unsigned(Bare(block)) = [ts |-> block.ts, attesttoken |-> block.attesttoken,
                               txobj |-> bares, signers |-> <<>>]
  BY <1>4 DEF Unsigned
<1>9. AsProposed(block) = Unsigned(Bare(block))
  BY <1>3, <1>7, <1>8
<1>10. [AsProposed(block) EXCEPT !.signers = <<block.signers[1]>>] = Bare(block)
  <2> DEFINE signers == <<block.signers[1]>>
             p == AsProposed(block)
  <2>1. p = [ts |-> block.ts, attesttoken |-> block.attesttoken,
                               txobj |-> bares, signers |-> <<>>]
    BY <1>8, <1>9
  <2> HIDE DEF signers, p
  <2>2. [p EXCEPT !.signers = signers] = [ts |-> block.ts, attesttoken |-> block.attesttoken,
                               txobj |-> bares, signers |-> signers]
    BY <2>1
  <2> QED BY <1>4, <2>2 DEF signers, p
<1>11. ASSUME NEW k
       PROVE  AsAttested(block, k) = Put(Bare(block), Said(block, k - 1))
  <2> DEFINE list == Said(block, k - 1)
             b == Bare(block)
             ats == [i \in DOMAIN block.txobj |->
                      [block.txobj[i] EXCEPT !.attestordata = <<@[k - 1]>>]]
             signers == <<block.signers[1]>>
             puts == [i \in 1..Len(block.txobj) |->
                 [tx |-> block.txobj[i].tx, validatordata |-> block.txobj[i].validatordata,
                  attestordata |-> <<list[i]>>]]
  <2>1. AsAttested(block, k) = [block EXCEPT !.signers = signers, !.txobj = ats]
    BY DEF AsAttested
  <2>2. ats = [i \in DOMAIN block.txobj |->
                [block.txobj[i] EXCEPT !.attestordata = <<list[i]>>]]
    <3>1. \A i \in DOMAIN block.txobj : list[i] = block.txobj[i].attestordata[k - 1]
      BY BlockParts DEF Said
    <3>2. \A i \in DOMAIN block.txobj :
            [block.txobj[i] EXCEPT !.attestordata = <<@[k - 1]>>]
              = [block.txobj[i] EXCEPT !.attestordata = <<list[i]>>]
      <4> SUFFICES ASSUME NEW i \in DOMAIN block.txobj
                   PROVE  [block.txobj[i] EXCEPT !.attestordata = <<@[k - 1]>>]
                            = [block.txobj[i] EXCEPT !.attestordata = <<list[i]>>]
        OBVIOUS
      <4> DEFINE o == block.txobj[i]
      <4>1. o = [tx |-> o.tx, validatordata |-> o.validatordata, attestordata |-> o.attestordata]
            /\ list[i] = o.attestordata[k - 1]
        BY <3>1, BlockParts
      <4> DEFINE s == <<list[i]>>
      <4>2. [o EXCEPT !.attestordata = <<@[k - 1]>>] = [o EXCEPT !.attestordata = <<o.attestordata[k - 1]>>]
        <5> HIDE DEF o
        <5> QED OBVIOUS
      <4> QED BY <4>1, <4>2
    <3> HIDE DEF list
    <3> QED BY <3>2
  <2> HIDE DEF ats, list, signers
  <2>3. AsAttested(block, k)
          = [ts |-> block.ts, attesttoken |-> block.attesttoken,
             txobj |-> Put(block, list).txobj, signers |-> signers]
    BY <2>1, <2>2, PutShape
  <2>4. Put(block, list).txobj = puts
    BY DEF Put
  <2>5. b.ts = block.ts /\ b.attesttoken = block.attesttoken /\ b.txobj = bares /\ b.signers = signers
    BY <1>4 DEF signers
  <2> HIDE DEF b
  <2>6. Put(b, list) = [ts |-> block.ts, attesttoken |-> block.attesttoken,
                        txobj |-> puts, signers |-> signers]
    <3>1. [i \in 1..Len(bares) |->
            [tx |-> bares[i].tx, validatordata |-> bares[i].validatordata,
             attestordata |-> <<list[i]>>]] = puts
      BY <1>5
    <3> HIDE DEF puts
    <3> QED BY <2>5, <3>1 DEF Put
  <2> QED BY <2>3, <2>4, <2>6 DEF b, list
<1> QED BY <1>9, <1>10, <1>11

------------------------------------------------------------------------------
(* Whose signatures are found. *)

\* Whose signature over some bytes is taken for one over others
Recovered(key, bytes, over) ==
  Recover(BlockBytes(bytes), Signature(key, BlockBytes(over)))

\* The signer's, if the bytes are the same, and nobody's otherwise.
LEMMA RecoverSigned ==
  ASSUME NEW key, NEW bytes, NEW over
  PROVE  Recovered(key, bytes, over) = IF bytes = over THEN key ELSE "nobody"
<1> DEFINE m == [by |-> key, over |-> BlockBytes(over)]
           sig == <<m>>
<1>1. m.by = key /\ m.over = BlockBytes(over)
  OBVIOUS
<1>2. Signature(key, BlockBytes(over)) = sig
  BY DEF Signature
<1> HIDE DEF m
<1>3. sig[1] = m /\ Len(sig) = 1 /\ Len(<<>>) = 0
  OBVIOUS
<1> HIDE DEF sig
<1>4. sig # <<>>
  BY <1>3
<1>5. BlockBytes(over) = BlockBytes(bytes) <=> bytes = over
  <2>1. BlockBytes(over).block = over /\ BlockBytes(bytes).block = bytes
    BY DEF BlockBytes
  <2> QED BY <2>1
<1> QED BY <1>1, <1>2, <1>3, <1>4, <1>5 DEF Recover, Recovered

\* A block with as many attestations of each transaction as further signatures
Attested(block) ==
  /\ IsBlock("this", block) /\ Len(block.signers) >= 1
  /\ \A i \in 1..Len(block.txobj) :
       Len(block.txobj[i].attestordata) = Len(block.signers) - 1

\* Whose signature is whose, at the storage node
LEMMA RecoverShape ==
  ASSUME NEW block, Attested(block), NEW k \in 1..Len(block.signers)
  PROVE  RecoverSigner(StorageNode, block, k) =
           Recover(BlockBytes(EncodeBlock("this",
                     IF k = 1 THEN Unsigned(Bare(block))
                     ELSE Put(Bare(block), Said(block, k - 1)))),
                   block.signers[k].sig)
<1>1. IsBlock("this", block) /\ "this" \in Schemas /\ Schema[StorageNode] = "this"
  BY SchemasOfNodes DEF Attested
<1>2. DecodeBlock("this", EncodeBlock("this", block)) = block
  BY <1>1, BlockBack, OwnBlock
<1>3. CanRestore(block, k)
  <2> SUFFICES ASSUME k # 1, NEW i \in DOMAIN block.txobj
               PROVE  k - 1 \in DOMAIN block.txobj[i].attestordata
    BY DEF CanRestore
  <2>1. i \in 1..Len(block.txobj) /\ Len(block.signers) \in Nat
    BY <1>1, BlockParts
  <2>2. Len(block.txobj[i].attestordata) = Len(block.signers) - 1
    BY <2>1 DEF Attested
  <2>3. DOMAIN block.txobj[i].attestordata = 1..Len(block.txobj[i].attestordata)
    BY <1>1, <2>1, SequenceFacts DEF IsBlock, IsTransactionObj
  <2> QED BY <2>1, <2>2, <2>3
<1>4. AsProposed(block) = Unsigned(Bare(block))
      /\ AsAttested(block, k) = Put(Bare(block), Said(block, k - 1))
  BY <1>1, Restored
<1> DEFINE what == IF k = 1 THEN Unsigned(Bare(block))
                   ELSE Put(Bare(block), Said(block, k - 1))
<1>5. (IF k = 1 THEN AsProposed(block) ELSE AsAttested(block, k)) = what
  BY <1>4
<1>6. RecoverSigner(StorageNode, block, k)
        = Recover(BlockBytes(EncodeBlock("this",
                     IF k = 1 THEN AsProposed(block) ELSE AsAttested(block, k))),
                   block.signers[k].sig)
  BY <1>1, <1>2, <1>3 DEF RecoverSigner
<1> HIDE DEF what
<1>7. RecoverSigner(StorageNode, block, k)
        = Recover(BlockBytes(EncodeBlock("this", what)), block.signers[k].sig)
  BY <1>5, <1>6
<1> QED BY <1>7 DEF what

\* The storage node's block of one that was composed
LEMMA ViewAttested ==
  ASSUME NEW answers, NEW blk, Composed(blk, answers)
  PROVE  Attested(BlockAs("this", blk)) /\ Bare(BlockAs("this", blk)) = Bare(blk)
<1> DEFINE block == BlockAs("this", blk)
<1>1. SP \in Schemas /\ IsBlock(SP, blk) /\ Len(blk.signers) >= 1
      /\ \A i \in 1..Len(blk.txobj) : Len(blk.txobj[i].attestordata) = Len(blk.signers) - 1
  BY SchemasOfNodes DEF Composed
<1>2. /\ IsBlock("this", block) /\ block.signers = blk.signers
      /\ Len(block.txobj) = Len(blk.txobj) /\ Bare(block) = Bare(blk) /\ ReadOf(block, blk)
  BY <1>1, StorageView
<1> HIDE DEF block
<1>3. Attested(block)
  BY <1>1, <1>2 DEF Attested, ReadOf
<1> QED BY <1>2, <1>3 DEF block

\* The attestations of signature k are those of a node.
SaidBy(block, k, node) ==
  \A i \in 1..Len(block.txobj) : block.txobj[i].attestordata[k - 1] = Attestation(node)

\* The attestations of signature k are those of the storage node's schema.
LEMMA SaidTyped ==
  ASSUME NEW block, Attested(block), NEW k \in 2..Len(block.signers)
  PROVE  /\ AttestsAll("this", Said(block, k - 1), Len(block.txobj))
         /\ \A i \in 1..Len(block.txobj) :
              Said(block, k - 1)[i] = block.txobj[i].attestordata[k - 1]
<1>1. \A i \in 1..Len(block.txobj) : Said(block, k - 1)[i] = block.txobj[i].attestordata[k - 1]
  BY DEF Said
<1>2. ASSUME NEW i \in 1..Len(block.txobj)
      PROVE  IsAttestation("this", block.txobj[i].attestordata[k - 1])
  <2>1. Len(block.signers) \in Nat
    BY BlockParts DEF Attested, Schemas
  <2>2. k - 1 \in 1..Len(block.txobj[i].attestordata)
    BY <2>1 DEF Attested
  <2> QED BY <2>2 DEF Attested, IsBlock, IsTransactionObj
<1> QED BY <1>1, <1>2 DEF AttestsAll

\* A further signature that holds is that of an attestor that said what the block has.
LEMMA Found ==
  ASSUME NEW answers, \A reply \in answers : IsAnswer(reply),
         NEW blk, Composed(blk, answers), NEW k \in 2..Len(blk.signers),
         RecoverSigner(StorageNode, BlockAs("this", blk), k) \in Nodes
  PROVE  \E reply \in answers :
           PatchIn(blk, k, reply) /\ RequestOf(reply) = Bare(blk)
           /\ SaidBy(BlockAs("this", blk), k, reply.from)
<1> DEFINE block == BlockAs("this", blk)
<1>1. PICK reply \in answers : PatchIn(blk, k, reply)
  BY DEF Composed
<1> DEFINE n == reply.from
           b == RequestOf(reply)
           list == Said(block, k - 1)
           says == Says(n, Len(b.txobj))
<1>2. /\ IsAnswer(reply) /\ n \in Attestors /\ IsBare(b) /\ Schema[n] \in Schemas
      /\ "this" \in Schemas /\ SP \in Schemas
  BY SchemasOfNodes DEF IsAnswer, IsRequest, RequestOf, Produced
<1>3. Attested(block) /\ Bare(block) = Bare(blk) /\ IsBare(Bare(block))
      /\ block.signers = blk.signers
  <2>1. Attested(block) /\ Bare(block) = Bare(blk)
    BY ViewAttested
  <2>2. block.signers = blk.signers
    BY DEF BlockAs
  <2>3. IsBare(Bare(blk))
    BY DEF Composed, Produced
  <2> QED BY <2>1, <2>2, <2>3
<1>4. blk.signers[k].sig = AnswerSignature(n, b)
  <2>1. PatchOf(reply).signer = [sig |-> AnswerSignature(n, b)]
    BY <1>2, AnswerRead
  <2>2. blk.signers[k] = PatchOf(reply).signer
    BY <1>1 DEF PatchIn
  <2> QED BY <2>1, <2>2
<1>5. AnswerSignature(n, b)
        = Signature(n, BlockBytes(EncodeBlock(Schema[n], Put(b, says))))
  BY DEF AnswerSignature
<1> HIDE DEF block, n, b
<1>6. RecoverSigner(StorageNode, block, k)
        = Recover(BlockBytes(EncodeBlock("this", Put(Bare(block), list))), block.signers[k].sig)
  <2>1. k \in 1..Len(block.signers) /\ k # 1
    BY <1>3
  <2> HIDE DEF list
  <2> QED BY <1>3, <2>1, RecoverShape DEF list
<1>7. RecoverSigner(StorageNode, block, k)
        = Recovered(n, EncodeBlock("this", Put(Bare(block), list)), EncodeBlock(Schema[n], Put(b, says)))
  BY <1>3, <1>4, <1>5, <1>6 DEF Recovered
<1>8. AttestsAll("this", list, Len(block.txobj))
      /\ \A i \in 1..Len(block.txobj) : list[i] = block.txobj[i].attestordata[k - 1]
  BY <1>3, SaidTyped
<1>9. AttestsAll(Schema[n], says, Len(b.txobj))
      /\ \A i \in 1..Len(b.txobj) : says[i] = Attestation(n)
  BY <1>2, SaysTyped, BareTyped, BlockParts
<1>10. Len(Bare(block).txobj) = Len(block.txobj)
  BY <1>2, <1>3, BareFacts DEF Attested
<1> HIDE DEF list, says
<1>11. EncodeBlock("this", Put(Bare(block), list)) = EncodeBlock(Schema[n], Put(b, says))
  BY <1>7, RecoverSigned, NobodyAssumption DEF block
<1>12. /\ Bare(block) = b
       /\ \A i \in 1..Len(Bare(block).txobj) : AttestationAs(Schema[n], list[i]) = says[i]
  <2> DEFINE one == Bare(block)
  <2>1. IsBare(one) /\ AttestsAll("this", list, Len(one.txobj))
        /\ EncodeBlock("this", Put(one, list)) = EncodeBlock(Schema[n], Put(b, says))
    BY <1>3, <1>8, <1>10, <1>11
  <2> HIDE DEF one
  <2>2. one = b /\ \A i \in 1..Len(one.txobj) : AttestationAs(Schema[n], list[i]) = says[i]
    BY ONLY <1>2, <1>9, <2>1, SameAttested
  <2> QED BY <2>2 DEF one
<1>13. ASSUME NEW i \in 1..Len(block.txobj)
       PROVE  block.txobj[i].attestordata[k - 1] = Attestation(n)
  <2>1. /\ AttestationAs(Schema[n], list[i]) = Attestation(n)
        /\ IsAttestation("this", list[i]) /\ list[i] = block.txobj[i].attestordata[k - 1]
    BY <1>8, <1>9, <1>10, <1>12 DEF AttestsAll
  <2>2. CASE Schema[n] = "this"
    BY <2>1, <2>2 DEF AttestationAs, IsAttestation
  <2>3. CASE Schema[n] # "this"
    <3> DEFINE a == list[i]
    <3>1. a = [vote |-> a.vote]
      BY <2>1 DEF IsAttestation
    <3> HIDE DEF a
    <3>2. "note" \notin DOMAIN a
      BY <3>1
    <3>3. AttestationAs(Schema[n], a).note = ""
      BY <2>3, <3>2 DEF AttestationAs
    <3>4. Attestation(n).note = "spam"
      BY <1>2, <2>3, AttestationOf
    <3> QED BY <2>1, <3>3, <3>4 DEF a
  <2> QED BY <2>2, <2>3
<1>14. SaidBy(block, k, n)
  BY <1>13 DEF SaidBy
<1> QED BY <1>1, <1>3, <1>12, <1>14 DEF block, n, b

------------------------------------------------------------------------------
(* What is accepted was attested, and bytes are read back. *)

\* What the storage node reads of a published block
PublishedAs(bytes, blk) ==
  /\ Composed(blk, replies) /\ Len(blk.signers) = ValPerBlock
  /\ bytes = EncodeBlock(SP, blk) /\ DecodeBlock("this", bytes) = BlockAs("this", blk)

\* Published blocks are read so.
LEMMA ReadPublished ==
  ASSUME BlocksInv, NEW bytes \in published
  PROVE  PublishedAs(bytes, DecodeBlock(SP, bytes))
<1> DEFINE blk == DecodeBlock(SP, bytes)
<1>1. Composed(blk, replies) /\ Len(blk.signers) = ValPerBlock /\ bytes = EncodeBlock(SP, blk)
  BY DEF BlocksInv, PublishedInv
<1> HIDE DEF blk
<1>2. DecodeBlock("this", EncodeBlock(SP, blk)) = BlockAs("this", blk)
  BY <1>1, BlockBack, SchemasOfNodes DEF Composed
<1> QED BY <1>1, <1>2 DEF PublishedAs, blk

\* What is accepted is read as what is published, with signatures of nodes.
LEMMA AcceptedRead ==
  ASSUME BlocksInv, NEW raw \in accepted
  PROVE  \E bytes \in published :
           /\ DecodeBlock("this", raw) = DecodeBlock("this", bytes)
           /\ \A k \in 1..ValPerBlock :
                RecoverSigner(StorageNode, DecodeBlock("this", bytes), k) \in Nodes
<1>1. PICK bytes \in published : DecodeBlock("this", raw) = DecodeBlock("this", bytes)
  BY SchemasOfNodes DEF BlocksInv, TypeOK
<1>2. \A k \in 1..ValPerBlock : RecoverSigner(StorageNode, DecodeBlock("this", raw), k) \in Nodes
  BY DEF BlocksInv, AcceptedInv
<1> QED BY <1>1, <1>2

\* Each further signature of what was accepted has its patch.
LEMMA AcceptedFound ==
  ASSUME BlocksInv, NEW bytes \in published, NEW k \in 2..ValPerBlock,
         \A j \in 1..ValPerBlock :
           RecoverSigner(StorageNode, DecodeBlock("this", bytes), j) \in Nodes
  PROVE  LET blk == DecodeBlock(SP, bytes) IN
         /\ PublishedAs(bytes, blk)
         /\ \E reply \in replies :
              /\ IsAnswer(reply) /\ PatchIn(blk, k, reply) /\ RequestOf(reply) = Bare(blk)
              /\ SaidBy(BlockAs("this", blk), k, reply.from)
<1> DEFINE blk == DecodeBlock(SP, bytes)
<1>1. PublishedAs(bytes, blk)
  BY ReadPublished
<1> HIDE DEF blk
<1>2. RecoverSigner(StorageNode, BlockAs("this", blk), k) \in Nodes
  <2>1. k \in 1..ValPerBlock
    BY CountAssumption
  <2> QED BY <1>1, <2>1 DEF PublishedAs
<1>3. Composed(blk, replies) /\ k \in 2..Len(blk.signers)
      /\ \A reply \in replies : IsAnswer(reply)
  BY <1>1 DEF PublishedAs, BlocksInv, RepliesInv
<1>4. PICK reply \in replies :
        PatchIn(blk, k, reply) /\ RequestOf(reply) = Bare(blk)
        /\ SaidBy(BlockAs("this", blk), k, reply.from)
  BY <1>2, <1>3, Found
<1> QED BY <1>1, <1>3, <1>4 DEF blk

\* Reading a patch of the block found as the attestor wrote it
LEMMA FoundIsAttested ==
  ASSUME NEW bytes, NEW blk, PublishedAs(bytes, blk), NEW k \in 2..ValPerBlock, NEW nodes,
         NEW reply \in replies, reply.from \in nodes, IsAnswer(reply), PatchIn(blk, k, reply),
         RequestOf(reply) = Bare(blk), SaidBy(BlockAs("this", blk), k, reply.from)
  PROVE  AttestedIn(bytes, k, nodes)
<1> DEFINE block == BlockAs("this", blk)
           n == reply.from
           patch == DecodePatch(Schema[n], reply.bytes)
           request == [AsProposed(block) EXCEPT !.signers = <<block.signers[1]>>]
<1>1. DecodeBlock(Schema[StorageNode], bytes) = block /\ Schema[StorageNode] = "this"
  BY SchemasOfNodes DEF PublishedAs
<1>2. Attested(block) /\ Bare(block) = Bare(blk) /\ block.signers = blk.signers
      /\ IsBare(Bare(blk))
  <2>1. Attested(block) /\ Bare(block) = Bare(blk)
    BY ViewAttested DEF PublishedAs
  <2>2. block.signers = blk.signers
    BY DEF BlockAs
  <2> QED BY <2>1, <2>2 DEF PublishedAs, Composed, Produced
<1>3. request = Bare(blk)
  <2> HIDE DEF block
  <2>1. IsBlock("this", block) /\ "this" \in Schemas
    BY <1>2 DEF Attested, Schemas
  <2> QED BY <1>2, <2>1, Restored
<1>4. reply.of = EncodeBlock("this", request)
  <2>1. reply.of = EncodeBlock(SP, Bare(blk))
    BY DEF IsAnswer, IsRequest, RequestOf
  <2> HIDE DEF request
  <2> QED BY <1>2, <1>3, <2>1, BareBack, SchemasOfNodes
<1>5. /\ patch = Answer(n, RequestOf(reply))
      /\ PatchOf(reply).signer = [sig |-> AnswerSignature(n, RequestOf(reply))]
  BY AnswerRead
<1>6. patch.signer = block.signers[k]
  <2>1. patch.signer = [sig |-> AnswerSignature(n, RequestOf(reply))]
    BY <1>5 DEF Answer
  <2>2. block.signers[k] = PatchOf(reply).signer
    BY <1>2 DEF PatchIn
  <2> QED BY <1>5, <2>1, <2>2
<1>7. DOMAIN block.txobj = 1..Len(block.txobj) /\ Len(block.txobj) = Len(Bare(blk).txobj)
      /\ Len(block.txobj) \in Nat
  <2> HIDE DEF block
  <2> QED BY <1>2, BlockParts, BareFacts DEF Attested, Schemas
<1>8. \A i \in DOMAIN block.txobj : patch.attestordata[i] = block.txobj[i].attestordata[k - 1]
  <2> SUFFICES ASSUME NEW i \in 1..Len(block.txobj)
               PROVE  patch.attestordata[i] = block.txobj[i].attestordata[k - 1]
    BY <1>7
  <2>1. patch.attestordata = Says(n, Len(block.txobj))
    BY <1>5, <1>7 DEF Answer
  <2>2. Says(n, Len(block.txobj))[i] = Attestation(n)
    BY DEF Says
  <2>3. block.txobj[i].attestordata[k - 1] = Attestation(n)
    BY DEF SaidBy
  <2> QED BY <2>1, <2>2, <2>3
<1> HIDE DEF block, request, patch
<1>9. n \in nodes /\ reply.of = EncodeBlock(Schema[StorageNode], request)
      /\ patch.signer = block.signers[k]
      /\ \A i \in DOMAIN block.txobj : patch.attestordata[i] = block.txobj[i].attestordata[k - 1]
  BY <1>1, <1>4, <1>6, <1>8
<1> QED BY <1>1, <1>9 DEF AttestedIn, block, request, patch

\* Found patches are what the property asks for.
LEMMA AcceptedAttested == BlocksInv => AcceptedIsAttested
<1> SUFFICES ASSUME BlocksInv, NEW raw \in accepted, NEW k \in 2..ValPerBlock
             PROVE  AttestedIn(raw, k, Attestors)
  BY DEF AcceptedIsAttested
<1>1. PICK bytes \in published :
        /\ DecodeBlock("this", raw) = DecodeBlock("this", bytes)
        /\ \A j \in 1..ValPerBlock :
             RecoverSigner(StorageNode, DecodeBlock("this", bytes), j) \in Nodes
  BY AcceptedRead
<1> DEFINE blk == DecodeBlock(SP, bytes)
<1>2. PublishedAs(bytes, blk)
      /\ \E reply \in replies :
           /\ IsAnswer(reply) /\ PatchIn(blk, k, reply) /\ RequestOf(reply) = Bare(blk)
           /\ SaidBy(BlockAs("this", blk), k, reply.from)
  BY <1>1, AcceptedFound
<1> HIDE DEF blk
<1>3. PICK reply \in replies :
           /\ IsAnswer(reply) /\ PatchIn(blk, k, reply) /\ RequestOf(reply) = Bare(blk)
           /\ SaidBy(BlockAs("this", blk), k, reply.from)
  BY <1>2
<1>4. reply.from \in Attestors
  BY <1>3 DEF IsAnswer
<1>5. AttestedIn(bytes, k, Attestors)
  BY <1>2, <1>3, <1>4, FoundIsAttested
<1> QED BY <1>1, <1>5, SchemasOfNodes DEF AttestedIn

\* The parts of blocks and patches that survive are all there are.
LEMMA ReadAndWritten == BlocksInv => BytesReadBack
<1> SUFFICES ASSUME BlocksInv PROVE BytesReadBack
  OBVIOUS
<1>1. ASSUME NEW bytes \in requests \cup published
      PROVE  EncodeBlock(SP, DecodeBlock(SP, bytes)) = bytes
  BY <1>1 DEF BlocksInv, RequestsInv, PublishedInv, IsRequest
<1>2. ASSUME NEW reply \in replies
      PROVE  EncodePatch(Schema[reply.from], DecodePatch(Schema[reply.from], reply.bytes))
               = reply.bytes
  <2>1. IsAnswer(reply)
    BY DEF BlocksInv, RepliesInv
  <2>2. DecodePatch(Schema[reply.from], reply.bytes) = Answer(reply.from, RequestOf(reply))
    BY <2>1, AnswerRead
  <2> QED BY <2>1, <2>2 DEF IsAnswer
<1>3. ASSUME NEW bytes \in published,
             \A j \in 1..ValPerBlock :
               RecoverSigner(StorageNode, DecodeBlock("this", bytes), j) \in Nodes
      PROVE  EncodeBlock("this", DecodeBlock("this", bytes)) = bytes
  <2> DEFINE blk == DecodeBlock(SP, bytes)
  <2>1. PublishedAs(bytes, blk)
    BY ReadPublished
  <2>2. ASSUME NEW k \in 2..ValPerBlock
        PROVE  \E reply \in replies :
                 /\ IsAnswer(reply) /\ PatchIn(blk, k, reply) /\ RequestOf(reply) = Bare(blk)
                 /\ SaidBy(BlockAs("this", blk), k, reply.from)
    BY <1>3, AcceptedFound
  <2> HIDE DEF blk
  <2> DEFINE block == BlockAs("this", blk)
  <2>3. IsBlock(SP, blk) /\ SP \in Schemas /\ "this" \in Schemas /\ Len(blk.signers) >= 1
        /\ Len(blk.signers) = ValPerBlock
    BY <2>1, SchemasOfNodes DEF PublishedAs, Composed
  <2>4. /\ Len(block.txobj) = Len(blk.txobj)
        /\ ReadOf(block, blk)
    BY ONLY <2>3, StorageView
  <2> HIDE DEF block
  <2>5. ASSUME NEW i \in 1..Len(blk.txobj), NEW j \in 1..Len(blk.txobj[i].attestordata)
        PROVE  AttestationAs(SP, AttestationAs("this", blk.txobj[i].attestordata[j]))
                 = blk.txobj[i].attestordata[j]
    <3>1. j + 1 \in 2..ValPerBlock /\ (j + 1) - 1 = j
      <4>1. Len(blk.txobj[i].attestordata) = ValPerBlock - 1
        BY <2>1, <2>3 DEF PublishedAs, Composed
      <4> QED BY <4>1, CountAssumption
    <3>2. PICK reply \in replies :
                 /\ IsAnswer(reply) /\ PatchIn(blk, j + 1, reply) /\ RequestOf(reply) = Bare(blk)
                 /\ SaidBy(BlockAs("this", blk), j + 1, reply.from)
      BY <2>2, <3>1
    <3>3. block.txobj[i].attestordata[j] = Attestation(reply.from)
      BY <2>4, <3>1, <3>2 DEF SaidBy, block
    <3>4. blk.txobj[i].attestordata[j] = PatchOf(reply).attestordata[i]
      BY <3>1, <3>2 DEF PatchIn
    <3>5. PatchOf(reply).attestordata[i] = AttestationAs(SP, Attestation(reply.from))
      <4>1. Len(RequestOf(reply).txobj) = Len(blk.txobj)
        BY <2>3, <3>2, BareFacts
      <4> QED BY <3>2, <4>1, AnswerRead
    <3>6. block.txobj[i].attestordata[j] = AttestationAs("this", blk.txobj[i].attestordata[j])
      BY <2>4 DEF ReadOf
    <3> QED BY <3>3, <3>4, <3>5, <3>6
  <2>6. BlockSurvives(SP, "this", blk)
    BY <2>5 DEF BlockSurvives, AttestationsSurvive
  <2>7. EncodeBlock("this", BlockAs("this", blk)) = EncodeBlock(SP, blk)
    BY <2>3, <2>6, BlockBytesKept
  <2> QED BY <2>1, <2>7 DEF PublishedAs
<1>4. ASSUME NEW raw \in accepted
      PROVE  EncodeBlock("this", DecodeBlock("this", raw)) \in published
  BY <1>3, AcceptedRead
<1>5. Schema[StorageNode] = "this"
  BY SchemasOfNodes
<1> QED BY <1>1, <1>2, <1>4, <1>5 DEF BytesReadBack, SP

\* Replies answer requests, the draft has no more signatures than asked for, and what is
\* accepted is read as a block that was published, for any number of nodes, blocks and rounds.
THEOREM AttestationTyped == Spec => []TypeOK
<1>1. BlocksInv => TypeOK
  BY DEF BlocksInv
<1> QED BY <1>1, BlocksInvariant, PTL

\* A storage node accepts only blocks whose further signatures are of attestors that
\* attested this very block as it is.
THEOREM AcceptedAreAttested == Spec => []AcceptedIsAttested
BY BlocksInvariant, AcceptedAttested, PTL

\* The bytes of requests, patches and published blocks survive reading and writing at
\* those who wrote them, and what the storage node reads of a block that it accepts is,
\* written again, a published block byte for byte.
THEOREM BytesAreReadBack == Spec => []BytesReadBack
BY BlocksInvariant, ReadAndWritten, PTL

------------------------------------------------------------------------------
(* Patches and the attestors recovered from them. *)

\* Attestations past the transactions do not count.
LEMMA PutSame ==
  ASSUME NEW block, NEW list, NEW other, SameOn(list, other, Len(block.txobj))
  PROVE  Put(block, list) = Put(block, other)
<1>1. \A i \in 1..Len(block.txobj) : list[i] = other[i]
  BY DEF SameOn
<1>2. [i \in 1..Len(block.txobj) |->
        [tx |-> block.txobj[i].tx, validatordata |-> block.txobj[i].validatordata,
         attestordata |-> <<list[i]>>]]
      = [i \in 1..Len(block.txobj) |->
        [tx |-> block.txobj[i].tx, validatordata |-> block.txobj[i].validatordata,
         attestordata |-> <<other[i]>>]]
  BY <1>1
<1> QED BY <1>2 DEF Put

\* A block with the producer's signature alone
LEMMA ComposedAlone ==
  ASSUME NEW answers, NEW block, Composed(block, answers), Len(block.signers) = 1
  PROVE  Bare(block) = block
<1>1. IsBlock(SP, block) /\ SP \in Schemas /\ IsSequence(block.txobj)
  BY SchemasOfNodes DEF Composed, IsBlock
<1>2. ASSUME NEW i \in 1..Len(block.txobj)
      PROVE  block.txobj[i] = [tx |-> block.txobj[i].tx,
               validatordata |-> block.txobj[i].validatordata, attestordata |-> <<>>]
  <2> DEFINE o == block.txobj[i]
  <2>1. IsTransactionObj(SP, o) /\ Len(o.attestordata) = 0
    BY <1>1 DEF Composed, IsBlock
  <2> HIDE DEF o
  <2>2. o.attestordata = <<>>
    <3> DEFINE s == o.attestordata
    <3>1. IsSequence(s) /\ Len(s) = 0 /\ IsSequence(<<>>) /\ Len(<<>>) = 0
      BY <2>1, ShortSequences DEF IsTransactionObj
    <3> HIDE DEF s
    <3>2. s = <<>>
      BY <3>1, SameSequence
    <3> QED BY <3>2 DEF s
  <2>3. o = [tx |-> o.tx, validatordata |-> o.validatordata, attestordata |-> <<>>]
    BY <2>1, <2>2 DEF IsTransactionObj
  <2> QED BY <2>3 DEF o
<1>3. block.txobj = [i \in 1..Len(block.txobj) |-> [tx |-> block.txobj[i].tx,
               validatordata |-> block.txobj[i].validatordata, attestordata |-> <<>>]]
  BY <1>1, <1>2, SequenceFacts
<1>4. block.signers = <<block.signers[1]>>
  <2> DEFINE s == block.signers
             one == s[1]
  <2>1. IsSequence(s) /\ Len(s) = 1
    BY <1>1 DEF IsBlock, IsSignerList
  <2>2. IsSequence(<<one>>) /\ Len(<<one>>) = 1 /\ <<one>>[1] = one /\ \A k \in 1..1 : k = 1
    BY ShortSequences
  <2> HIDE DEF s
  <2>3. \A k \in 1..1 : s[k] = <<one>>[k]
    BY <2>2
  <2>4. s = <<one>>
    <3> DEFINE t == <<one>>
    <3>1. IsSequence(t) /\ Len(t) = 1 /\ \A k \in 1..Len(s) : s[k] = t[k]
      BY <2>1, <2>2, <2>3
    <3> HIDE DEF t
    <3>2. s = t
      BY <2>1, <3>1, SameSequence
    <3> QED BY <3>2 DEF t
  <2> QED BY <2>4 DEF s
<1>5. block = [ts |-> block.ts, attesttoken |-> block.attesttoken, txobj |-> block.txobj,
               signers |-> block.signers]
  BY <1>1, BlockParts
<1> QED BY <1>3, <1>4, <1>5 DEF Bare

\* The bytes an attestor signed, written from the patch as the producer reads it
Covers(block, reply) == Len(block.txobj) <= Len(PatchOf(reply).attestordata)
\* The bytes recoverPatchAddress() checks the signature over
PatchBytes(block, reply) ==
  EncodeBlock(SP, Put(block, PatchOf(reply).attestordata))
\* The bytes the attestor signed
SignedBytes(reply) ==
  EncodeBlock(Schema[reply.from],
              Put(RequestOf(reply), Says(reply.from, Len(RequestOf(reply).txobj))))

\* It finds the attestor when they are the same.
LEMMA RecoverPatchShape ==
  ASSUME NEW answers, NEW block, Composed(block, answers), NEW reply, IsAnswer(reply)
  PROVE  (RecoverPatch(Producer, block, PatchOf(reply)) = reply.from)
           <=> Covers(block, reply) /\ PatchBytes(block, reply) = SignedBytes(reply)
<1> DEFINE p == PatchOf(reply)
           b == RequestOf(reply)
           n == reply.from
<1>1. IsBlock(SP, block) /\ SP \in Schemas /\ SP = Schema[Producer]
  BY SchemasOfNodes DEF Composed, SP
<1>2. DecodeBlock(SP, EncodeBlock(SP, block)) = block
  BY <1>1, BlockBack, OwnBlock
<1>3. DOMAIN block.txobj = 1..Len(block.txobj) /\ Len(block.txobj) \in Nat
  BY <1>1, BlockParts
<1>4. /\ p.signer.sig = AnswerSignature(n, b)
      /\ DOMAIN p.attestordata = 1..Len(p.attestordata) /\ Len(p.attestordata) \in Nat
  <2>1. p.signer = [sig |-> AnswerSignature(n, b)] /\ IsSequence(p.attestordata)
    BY AnswerRead
  <2>2. p.signer.sig = AnswerSignature(n, b)
    BY <2>1
  <2> HIDE DEF p
  <2> QED BY <2>1, <2>2, SequenceFacts
<1>5. n # "nobody"
  BY NobodyAssumption, SchemasOfNodes DEF IsAnswer
<1>6. (\E i \in DOMAIN block.txobj : i \notin DOMAIN p.attestordata) <=> ~Covers(block, reply)
  <2> DEFINE x == Len(block.txobj)
             y == Len(p.attestordata)
  <2>1. x \in Nat /\ y \in Nat
    BY <1>3, <1>4
  <2> HIDE DEF x, y
  <2>2. (\E i \in 1..x : i \notin 1..y) <=> ~(x <= y)
    <3>1. x > y => x \in 1..x /\ x \notin 1..y
      BY <2>1
    <3> QED BY <2>1, <3>1
  <2> QED BY <1>3, <1>4, <2>2 DEF Covers, x, y
<1> DEFINE txs == [i \in DOMAIN block.txobj |->
                    [block.txobj[i] EXCEPT !.attestordata = <<p.attestordata[i]>>]]
<1>7. RecoverPatch(Producer, block, p) =
        IF ~Covers(block, reply) THEN "nobody"
        ELSE Recover(BlockBytes(EncodeBlock(SP, [block EXCEPT !.txobj = txs])), p.signer.sig)
  <2> HIDE DEF p
  <2> QED BY <1>1, <1>2, <1>6 DEF RecoverPatch
<1>8. [block EXCEPT !.txobj = txs] = Put(block, p.attestordata)
  <2> DEFINE list == p.attestordata
  <2>1. txs = [i \in DOMAIN block.txobj |->
                    [block.txobj[i] EXCEPT !.attestordata = <<list[i]>>]]
    OBVIOUS
  <2> HIDE DEF list, txs
  <2> QED BY <1>1, <2>1, PutShape DEF list
<1> HIDE DEF p, b, n, txs
<1>9. RecoverPatch(Producer, block, p) =
        IF ~Covers(block, reply) THEN "nobody"
        ELSE Recovered(n, PatchBytes(block, reply), SignedBytes(reply))
  <2>1. AnswerSignature(n, b) = Signature(n, BlockBytes(SignedBytes(reply)))
    BY DEF AnswerSignature, SignedBytes, n, b
  <2>2. PatchBytes(block, reply) = EncodeBlock(SP, Put(block, p.attestordata))
    BY DEF PatchBytes, p
  <2> QED BY <1>4, <1>7, <1>8, <2>1, <2>2 DEF Recovered
<1>10. (RecoverPatch(Producer, block, p) = n)
         <=> Covers(block, reply) /\ PatchBytes(block, reply) = SignedBytes(reply)
  BY <1>5, <1>9, RecoverSigned
<1> QED BY <1>10 DEF p, n

\* The patch read whole: the producer's schema has all the attestor noted.
LEMMA ReadWhole ==
  ASSUME NEW reply, IsAnswer(reply)
  PROVE  (EncodePatch(SP, PatchOf(reply)) = reply.bytes)
           <=> \A i \in 1..Len(RequestOf(reply).txobj) :
                 AttestationAs(Schema[reply.from], PatchOf(reply).attestordata[i])
                   = Attestation(reply.from)
<1> DEFINE n == reply.from
           b == RequestOf(reply)
           p == PatchOf(reply)
           a == Answer(n, b)
           m == Len(b.txobj)
<1>1. /\ IsPatch(Schema[n], a) /\ DecodePatch(Schema[n], reply.bytes) = a
      /\ p = PatchAs(SP, a) /\ IsSequence(p.attestordata) /\ Len(p.attestordata) = m
      /\ p.signer = [sig |-> AnswerSignature(n, b)]
      /\ \A i \in 1..m :
           /\ p.attestordata[i] = AttestationAs(SP, Attestation(n))
           /\ IsAttestation(SP, p.attestordata[i])
  BY AnswerRead
<1>2. n \in Attestors /\ Schema[n] \in Schemas /\ SP \in Schemas /\ m \in Nat
  <2>1. n \in Attestors /\ IsBare(b)
    BY DEF IsAnswer, IsRequest, RequestOf, Produced
  <2> QED BY <2>1, SchemasOfNodes, SequenceFacts DEF IsBare, IsBlock
<1>3. /\ a.attestordata = Says(n, m) /\ Len(Says(n, m)) = m
      /\ \A i \in 1..m : Says(n, m)[i] = Attestation(n)
  BY <1>2, SaysTyped DEF Answer
<1>4. reply.bytes = EncodePatch(Schema[n], a)
  BY DEF IsAnswer
<1>5. IsPatch(SP, p)
  <2>1. p = [attestordata |-> p.attestordata, signer |-> p.signer]
    BY <1>1 DEF PatchAs
  <2>2. IsSigner(p.signer)
    BY <1>1 DEF IsSigner
  <2> HIDE DEF p
  <2> QED BY <1>1, <2>1, <2>2 DEF IsPatch
<1> HIDE DEF n, b, p, a, m
<1>6. ASSUME EncodePatch(SP, p) = reply.bytes, NEW i \in 1..m
      PROVE  AttestationAs(Schema[n], p.attestordata[i]) = Attestation(n)
  <2>1. PatchAs(Schema[n], p) = a
    BY <1>1, <1>2, <1>5, <1>6, PatchBack
  <2>2. AttestationsAs(Schema[n], p.attestordata) = a.attestordata
    BY <2>1 DEF PatchAs
  <2>3. AttestationsAs(Schema[n], p.attestordata)[i] = AttestationAs(Schema[n], p.attestordata[i])
    BY <1>1, AttestationsKept
  <2> QED BY <1>3, <2>2, <2>3
<1>7. ASSUME \A i \in 1..m : AttestationAs(Schema[n], p.attestordata[i]) = Attestation(n)
      PROVE  EncodePatch(SP, p) = reply.bytes
  <2>1. \A i \in 1..m : AttestationAs(Schema[n], AttestationAs(SP, Attestation(n))) = Attestation(n)
    BY <1>1, <1>7
  <2>2. AttestationsSurvive(Schema[n], SP, a.attestordata)
    <3> DEFINE list == a.attestordata
    <3>1. Len(list) = m /\ \A i \in 1..m : list[i] = Attestation(n)
      BY <1>3
    <3> HIDE DEF list
    <3> SUFFICES ASSUME NEW i \in 1..Len(list)
                 PROVE  AttestationAs(Schema[n], AttestationAs(SP, list[i])) = list[i]
      BY DEF AttestationsSurvive, list
    <3>2. list[i] = Attestation(n) /\ i \in 1..m
      BY <3>1
    <3> QED BY <2>1, <3>2
  <2>3. EncodePatch(SP, PatchAs(SP, a)) = EncodePatch(Schema[n], a)
    BY <1>1, <1>2, <2>2, PatchBytesKept
  <2> QED BY <1>1, <1>4, <2>3
<1> QED BY <1>6, <1>7 DEF n, b, p, m

\* The patch of the block as it is makes the bytes the attestor signed, if read whole.
LEMMA RecoveredIf ==
  ASSUME NEW answers, NEW block, Composed(block, answers), NEW reply, IsAnswer(reply),
         reply.of = EncodeBlock(SP, block), EncodePatch(SP, PatchOf(reply)) = reply.bytes
  PROVE  Covers(block, reply) /\ PatchBytes(block, reply) = SignedBytes(reply)
<1> DEFINE n == reply.from
           b == RequestOf(reply)
           p == PatchOf(reply)
           m == Len(b.txobj)
           list == p.attestordata
           says == Says(n, m)
<1>1. /\ SP \in Schemas /\ n \in Attestors /\ Schema[n] \in Schemas /\ IsBare(b)
      /\ IsBlock(SP, block)
  BY SchemasOfNodes DEF IsAnswer, IsRequest, RequestOf, Produced, Composed
<1>2. b = block
  <2>1. DecodeBlock(SP, EncodeBlock(SP, block)) = block
    BY <1>1, BlockBack, OwnBlock
  <2> QED BY <2>1 DEF RequestOf
<1>3. Len(list) = m /\ m \in Nat
      /\ \A i \in 1..m : list[i] = AttestationAs(SP, Attestation(n))
  <2>1. Len(list) = m /\ \A i \in 1..m : list[i] = AttestationAs(SP, Attestation(n))
    BY AnswerRead
  <2>2. m \in Nat
    BY <1>1, SequenceFacts DEF IsBare, IsBlock
  <2> QED BY <2>1, <2>2
<1>4. \A i \in 1..m : AttestationAs(Schema[n], list[i]) = Attestation(n)
  BY ReadWhole
<1>5. AttestsAll(Schema[n], says, m) /\ \A i \in 1..m : says[i] = Attestation(n)
  BY <1>1, <1>3, SaysTyped
<1> HIDE DEF says, list, n, b, p
<1>6. \A i \in 1..m : AttestationAs(Schema[n], AttestationAs(SP, says[i])) = says[i]
  BY <1>3, <1>4, <1>5
<1>7. EncodeBlock(SP, Put(b, ListAs(SP, says, m))) = EncodeBlock(Schema[n], Put(b, says))
  BY <1>1, <1>5, <1>6, PutBytes
<1>8. SameOn(list, ListAs(SP, says, m), m)
  BY <1>3, <1>5 DEF SameOn, ListAs
<1>9. Put(b, list) = Put(b, ListAs(SP, says, m))
  BY <1>8, PutSame
<1>10. Covers(block, reply)
  <2>1. m <= Len(list)
    BY <1>3
  <2> QED BY <1>2, <2>1 DEF Covers, list, p
<1> QED BY <1>2, <1>7, <1>9, <1>10 DEF PatchBytes, SignedBytes, list, p, b, n, says

\* And only that one does.
LEMMA RecoveredOnlyIf ==
  ASSUME NEW answers, NEW block, Composed(block, answers), NEW reply, IsAnswer(reply),
         Covers(block, reply), PatchBytes(block, reply) = SignedBytes(reply)
  PROVE  reply.of = EncodeBlock(SP, block) /\ EncodePatch(SP, PatchOf(reply)) = reply.bytes
<1> DEFINE n == reply.from
           b == RequestOf(reply)
           p == PatchOf(reply)
           m == Len(b.txobj)
           list == p.attestordata
           says == Says(n, m)
           as == ListAs(SP, list, Len(block.txobj))
           is == ListAs(SP, says, m)
<1>1. /\ SP \in Schemas /\ n \in Attestors /\ Schema[n] \in Schemas /\ IsBare(b)
      /\ IsBlock(SP, block) /\ Produced(b)
  BY SchemasOfNodes DEF IsAnswer, IsRequest, RequestOf, Produced, Composed
<1>2. /\ Len(list) = m /\ m \in Nat /\ Len(block.txobj) \in Nat
      /\ \A i \in 1..m : list[i] = AttestationAs(SP, Attestation(n)) /\ IsAttestation(SP, list[i])
  <2>1. Len(list) = m
        /\ \A i \in 1..m : list[i] = AttestationAs(SP, Attestation(n)) /\ IsAttestation(SP, list[i])
    BY AnswerRead
  <2>2. m \in Nat /\ Len(block.txobj) \in Nat
    BY <1>1, SequenceFacts DEF IsBare, IsBlock
  <2> QED BY <2>1, <2>2
<1>3. AttestsAll(Schema[n], says, m) /\ \A i \in 1..m : says[i] = Attestation(n)
  BY <1>1, <1>2, SaysTyped
<1>4. Len(block.txobj) <= m
  BY <1>2 DEF Covers
<1>5. EncodeBlock(SP, Put(block, list)) = EncodeBlock(Schema[n], Put(b, says))
  BY DEF PatchBytes, SignedBytes
<1>6. IsBlock(Schema[n], b) /\ IsBlock(SP, b) /\ IsSequence(b.txobj) /\ IsSequence(block.txobj)
  BY <1>1, BareTyped DEF IsBlock
<1> HIDE DEF says, list, n, b, p
<1>7. AttestsAll(SP, list, Len(block.txobj))
  <2>1. \A i \in 1..Len(block.txobj) : i \in 1..m
    BY <1>2, <1>4
  <2> QED BY <1>2, <2>1 DEF AttestsAll
<1>8. Put(block, as) = Put(b, is)
  <2>1. DecodeBlock(SP, EncodeBlock(SP, Put(block, list))) = Put(block, as)
    BY <1>1, <1>7, PutBack
  <2>2. DecodeBlock(SP, EncodeBlock(Schema[n], Put(b, says))) = Put(b, is)
    BY <1>1, <1>3, <1>6, PutBack
  <2> QED BY <1>5, <2>1, <2>2
<1>9. block.signers = b.signers /\ Bare(block) = Bare(b)
  <2> HIDE DEF as, is
  <2> QED BY <1>6, <1>8, PutInjective
<1>10. Len(block.signers) = 1
  <2> DEFINE one == [sig |-> ProducerSignature(b)]
  <2>1. b.signers = <<one>>
    BY <1>1 DEF Produced
  <2> HIDE DEF one
  <2> QED BY <1>9, <2>1
<1>11. block = b
  <2>1. Bare(block) = block
    BY <1>10, ComposedAlone
  <2>2. Bare(b) = b
    BY <1>1 DEF IsBare
  <2> QED BY <1>9, <2>1, <2>2
<1>12. reply.of = EncodeBlock(SP, block)
  BY <1>11 DEF IsAnswer, IsRequest, RequestOf, b
<1>13. \A i \in 1..m : AttestationAs(Schema[n], list[i]) = Attestation(n)
  <2>1. EncodeBlock(SP, Put(b, list)) = EncodeBlock(Schema[n], Put(b, says))
        /\ AttestsAll(SP, list, Len(b.txobj)) /\ AttestsAll(Schema[n], says, Len(b.txobj))
    BY <1>3, <1>5, <1>7, <1>11
  <2>2. \A i \in 1..m : AttestationAs(Schema[n], list[i]) = says[i]
    BY ONLY <1>1, <2>1, SameAttested
  <2> QED BY <1>3, <2>2
<1>14. EncodePatch(SP, PatchOf(reply)) = reply.bytes
  BY <1>13, ReadWhole DEF n, list, p, b
<1> QED BY <1>12, <1>14

\* The two directions together
LEMMA PatchRecovered == BlocksInv => PatchRecovery
<1> SUFFICES ASSUME BlocksInv, NEW reply \in replies, draft.signers # <<>>
             PROVE  RecoverPatch(Producer, draft, PatchOf(reply)) = reply.from
                      <=> /\ reply.of = EncodeBlock(SP, draft)
                          /\ EncodePatch(SP, PatchOf(reply)) = reply.bytes
  BY DEF PatchRecovery, SP, PatchOf
<1>1. Composed(draft, replies) /\ IsAnswer(reply)
  <2>1. EmptyBlock.signers = <<>>
    BY DEF EmptyBlock
  <2> QED BY <2>1 DEF BlocksInv, DraftInv, RepliesInv
<1> QED BY <1>1, RecoverPatchShape, RecoveredIf, RecoveredOnlyIf

\* recoverPatchAddress() finds the attestor of exactly the patches that answer the
\* producer's block as it is and that the producer read whole.
THEOREM PatchesAreRecovered == Spec => []PatchRecovery
BY BlocksInvariant, PatchRecovered, PTL

------------------------------------------------------------------------------
(* What is attested is accepted. *)

\* The attestation that was found, of the block as its producer sent it
LEMMA AttestedRead ==
  ASSUME BlocksInv, NEW bytes, NEW blk, PublishedAs(bytes, blk), NEW k \in 2..ValPerBlock, NEW nodes,
         AttestedIn(bytes, k, nodes)
  PROVE  \E reply \in replies :
           LET n == reply.from
               block == BlockAs("this", blk)
           IN  /\ n \in nodes /\ n \in Attestors /\ SaidBy(block, k, n)
               /\ Reviewed(Bare(blk))
               /\ block.signers[k].sig = AnswerSignature(n, Bare(blk))
<1> DEFINE block == BlockAs("this", blk)
           request == [AsProposed(block) EXCEPT !.signers = <<block.signers[1]>>]
<1>1. DecodeBlock(Schema[StorageNode], bytes) = block /\ Schema[StorageNode] = "this"
  BY SchemasOfNodes DEF PublishedAs
<1>2. Attested(block) /\ Bare(block) = Bare(blk) /\ IsBare(Bare(blk))
  BY ViewAttested DEF PublishedAs, Composed, Produced
<1>3. request = Bare(blk)
  <2> HIDE DEF block
  <2>1. IsBlock("this", block) /\ "this" \in Schemas
    BY <1>2 DEF Attested, Schemas
  <2> QED BY <1>2, <2>1, Restored
<1> HIDE DEF block, request
<1>4. PICK reply \in replies :
        LET patch == DecodePatch(Schema[reply.from], reply.bytes) IN
        /\ reply.from \in nodes
        /\ reply.of = EncodeBlock("this", request)
        /\ patch.signer = block.signers[k]
        /\ \A i \in DOMAIN block.txobj :
             patch.attestordata[i] = block.txobj[i].attestordata[k - 1]
  BY <1>1 DEF AttestedIn, request
<1> DEFINE n == reply.from
           patch == DecodePatch(Schema[n], reply.bytes)
           b == RequestOf(reply)
<1>5. IsAnswer(reply) /\ n \in Attestors /\ Reviewed(b)
  BY DEF BlocksInv, RepliesInv, IsAnswer
<1>6. b = Bare(blk)
  <2>1. reply.of = EncodeBlock("this", Bare(blk))
    BY <1>3, <1>4
  <2>2. "this" \in Schemas /\ SP \in Schemas
    BY SchemasOfNodes
  <2> QED BY <1>2, <2>1, <2>2, BareBack DEF RequestOf
<1>7. patch = Answer(n, b)
  BY <1>5, AnswerRead
<1>8. block.signers[k].sig = AnswerSignature(n, Bare(blk))
  BY <1>4, <1>6, <1>7 DEF Answer
<1>9. DOMAIN block.txobj = 1..Len(block.txobj) /\ Len(block.txobj) = Len(b.txobj)
  BY <1>2, <1>6, BlockParts, BareFacts DEF Attested, Schemas
<1>10. SaidBy(block, k, n)
  <2> SUFFICES ASSUME NEW i \in 1..Len(block.txobj)
               PROVE  block.txobj[i].attestordata[k - 1] = Attestation(n)
    BY DEF SaidBy
  <2>1. patch.attestordata[i] = block.txobj[i].attestordata[k - 1]
    BY <1>4, <1>9
  <2>2. patch.attestordata = Says(n, Len(b.txobj))
    BY <1>7 DEF Answer
  <2>3. Says(n, Len(b.txobj))[i] = Attestation(n)
    BY <1>9 DEF Says
  <2> QED BY <2>1, <2>2, <2>3
<1> QED BY <1>4, <1>5, <1>6, <1>8, <1>10 DEF block

\* A further signature over what the block says is its attestor's.
LEMMA FurtherSigner ==
  ASSUME NEW block, Attested(block), IsBare(Bare(block)), NEW k \in 2..Len(block.signers),
         NEW n \in Attestors, SaidBy(block, k, n),
         block.signers[k].sig = AnswerSignature(n, Bare(block))
  PROVE  RecoverSigner(StorageNode, block, k) = n
<1> DEFINE b == Bare(block)
           m == Len(b.txobj)
           list == Said(block, k - 1)
           says == Says(n, m)
<1>1. "this" \in Schemas /\ Schema[n] \in Schemas /\ IsBlock("this", block)
      /\ Len(block.signers) \in Nat
  BY SchemasOfNodes, BlockParts DEF Attested
<1>2. Len(block.txobj) = m /\ m \in Nat
  BY <1>1, BareFacts, BlockParts DEF Attested
<1>3. RecoverSigner(StorageNode, block, k)
        = Recover(BlockBytes(EncodeBlock("this", Put(b, list))), block.signers[k].sig)
  <2>1. k \in 1..Len(block.signers) /\ k # 1
    BY <1>1
  <2> HIDE DEF list
  <2> QED BY <2>1, RecoverShape DEF list
<1>4. AnswerSignature(n, b) = Signature(n, BlockBytes(EncodeBlock(Schema[n], Put(b, says))))
  BY DEF AnswerSignature
<1>5. AttestsAll(Schema[n], says, m) /\ \A i \in 1..m : says[i] = Attestation(n)
  BY <1>2, SaysTyped
<1>6. ASSUME NEW i \in 1..m
      PROVE  list[i] = Attestation(n) /\ Schema[n] = "this" /\ IsAttestation("this", list[i])
  <2>1. list[i] = Attestation(n) /\ IsAttestation("this", list[i])
    BY <1>2, SaidTyped DEF SaidBy, AttestsAll
  <2>2. Schema[n] = "this"
    <3> SUFFICES ASSUME Schema[n] # "this" PROVE FALSE
      OBVIOUS
    <3> DEFINE a == Attestation(n)
    <3>1. a = [vote |-> a.vote] /\ a = [vote |-> a.vote, note |-> a.note]
      BY <2>1, AttestationOf DEF IsAttestation
    <3> HIDE DEF a
    <3>2. "note" \notin DOMAIN a /\ "note" \in DOMAIN a
      BY <3>1
    <3> QED BY <3>2
  <2> QED BY <2>1, <2>2
<1> HIDE DEF list, says, b
<1>7. \A i \in 1..m : /\ AttestationAs(Schema[n], AttestationAs("this", says[i])) = says[i]
                      /\ AttestationAs("this", says[i]) = list[i]
  <2> SUFFICES ASSUME NEW i \in 1..m
               PROVE  /\ AttestationAs(Schema[n], AttestationAs("this", says[i])) = says[i]
                      /\ AttestationAs("this", says[i]) = list[i]
    OBVIOUS
  <2>1. says[i] = list[i] /\ Schema[n] = "this" /\ IsAttestation("this", list[i])
    BY <1>5, <1>6
  <2> QED BY <2>1 DEF AttestationAs, IsAttestation
<1>8. EncodeBlock("this", Put(b, ListAs("this", says, m))) = EncodeBlock(Schema[n], Put(b, says))
  <2>1. IsBare(b)
    BY DEF b
  <2> QED BY <1>1, <1>5, <1>7, <2>1, PutBytes
<1>9. Put(b, list) = Put(b, ListAs("this", says, m))
  <2>1. SameOn(list, ListAs("this", says, m), m)
    BY <1>7 DEF SameOn, ListAs
  <2> QED BY <2>1, PutSame
<1>10. RecoverSigner(StorageNode, block, k)
         = Recovered(n, EncodeBlock("this", Put(b, list)), EncodeBlock(Schema[n], Put(b, says)))
  BY <1>3, <1>4 DEF Recovered, b
<1> QED BY <1>8, <1>9, <1>10, RecoverSigned

\* And the first one is the producer's.
LEMMA FirstSigner ==
  ASSUME NEW block, Attested(block), Produced(Bare(block))
  PROVE  RecoverSigner(StorageNode, block, 1) = Producer
<1> DEFINE b == Bare(block)
           u == Unsigned(b)
<1>1. "this" \in Schemas /\ SP \in Schemas /\ 1 \in 1..Len(block.signers) /\ IsBare(b)
      /\ b.signers = <<[sig |-> ProducerSignature(b)]>>
  BY SchemasOfNodes, BlockParts DEF Attested, Produced
<1>2. block.signers[1].sig = ProducerSignature(b)
  <2> DEFINE one == block.signers[1]
             two == [sig |-> ProducerSignature(b)]
  <2>1. b.signers = <<one>>
    BY DEF Bare
  <2>2. two.sig = ProducerSignature(b)
    OBVIOUS
  <2>3. <<one>> = <<two>>
    BY <1>1, <2>1
  <2> HIDE DEF one, two
  <2>4. one = two
    <3>1. <<one>>[1] = one /\ <<two>>[1] = two
      OBVIOUS
    <3> QED BY <2>3, <3>1
  <2> QED BY <2>2, <2>4 DEF one
<1>3. RecoverSigner(StorageNode, block, 1)
        = Recover(BlockBytes(EncodeBlock("this", u)), block.signers[1].sig)
  BY <1>1, RecoverShape
<1>4. IsBlock(SP, b) /\ \A i \in 1..Len(b.txobj) : b.txobj[i].attestordata = <<>>
  BY <1>1, BareTyped
<1> HIDE DEF b
<1>5. u = [ts |-> u.ts, attesttoken |-> u.attesttoken, txobj |-> u.txobj, signers |-> u.signers]
      /\ u.txobj = b.txobj /\ u.signers = <<>>
  BY DEF Unsigned
<1>6. IsSignerList(<<>>)
  <2>1. IsSequence(<<>>) /\ Len(<<>>) = 0
    BY ShortSequences
  <2> QED BY <2>1 DEF IsSignerList
<1>7. ProducerSignature(b) = Signature(Producer, BlockBytes(EncodeBlock(SP, u)))
  BY DEF ProducerSignature
<1> HIDE DEF u
<1>8. IsBlock(SP, u) /\ \A i \in 1..Len(u.txobj) : u.txobj[i].attestordata = <<>>
  BY <1>4, <1>5, <1>6 DEF IsBlock
<1>9. EncodeBlock("this", u) = EncodeBlock(SP, u)
  BY ONLY <1>1, <1>8, SilentBack
<1>10. RecoverSigner(StorageNode, block, 1)
         = Recovered(Producer, EncodeBlock("this", u), EncodeBlock(SP, u))
  BY <1>2, <1>3, <1>7 DEF Recovered
<1> QED BY <1>9, <1>10, RecoverSigned

\* What was reviewed is what the storage node reads.
LEMMA ReviewedAsRead ==
  ASSUME NEW block, IsBlock("this", block), Len(block.signers) >= 1, Reviewed(Bare(block))
  PROVE  Reviewed(block)
<1> DEFINE b == Bare(block)
<1>1. /\ "this" \in Schemas /\ Len(b.txobj) = Len(block.txobj)
      /\ \A i \in 1..Len(block.txobj) : b.txobj[i] =
                [tx |-> block.txobj[i].tx, validatordata |-> block.txobj[i].validatordata,
                 attestordata |-> <<>>]
  BY BareFacts DEF Schemas
<1>2. b.attesttoken = block.attesttoken /\ DOMAIN b.txobj = 1..Len(block.txobj)
      /\ DOMAIN block.txobj = 1..Len(block.txobj)
  <2>1. DOMAIN block.txobj = 1..Len(block.txobj)
    BY <1>1, BlockParts
  <2> QED BY <2>1 DEF Bare
<1> HIDE DEF b
<1>3. \A i \in 1..Len(block.txobj) :
        b.txobj[i].tx = block.txobj[i].tx /\ b.txobj[i].validatordata = block.txobj[i].validatordata
  <2> SUFFICES ASSUME NEW i \in 1..Len(block.txobj)
               PROVE  b.txobj[i].tx = block.txobj[i].tx
                      /\ b.txobj[i].validatordata = block.txobj[i].validatordata
    OBVIOUS
  <2>1. b.txobj[i] = [tx |-> block.txobj[i].tx, validatordata |-> block.txobj[i].validatordata,
                 attestordata |-> <<>>]
    BY <1>1
  <2> QED BY <2>1
<1>4. ASSUME NEW i \in 1..Len(block.txobj)
      PROVE  ValidTransaction(block.txobj[i])
  <2>1. ValidTransaction(b.txobj[i])
    BY <1>2 DEF Reviewed, b
  <2> QED BY <1>3, <2>1 DEF ValidTransaction
<1>5. TotalSize(block) = TotalSize(b)
  <2>1. [i \in DOMAIN block.txobj |-> TransactionSize(block.txobj[i].tx)]
          = [i \in DOMAIN b.txobj |-> TransactionSize(b.txobj[i].tx)]
    BY <1>2, <1>3
  <2> QED BY <2>1 DEF TotalSize
<1>6. Reviewed(b)
  BY DEF b
<1> QED BY <1>1, <1>2, <1>4, <1>5, <1>6 DEF Reviewed

\* checkBlockFinalized() of attestors asks for all that checkBlockAsSNode() does: a block
\* that is final for the nodes that make it passes at a storage node of their schema
\* that sees the same contract.
THEOREM FinalIsStorable ==
  ASSUME NEW node, NEW other, Schema[node] = Schema[other], NEW block,
         Len(block.signers) \in Nat, CheckBlockFinalized(node, block)
  PROVE  CheckBlockAsSNode(other, block)
<1>1. \A k \in 1..Len(block.signers) : RecoverSigner(node, block, k) \in validators
  <2> SUFFICES ASSUME NEW k \in 1..Len(block.signers)
               PROVE  RecoverSigner(node, block, k) \in validators
    OBVIOUS
  <2>1. CASE k = 1
    BY <2>1 DEF CheckBlockFinalized, CheckBlockAsAttestor
  <2>2. CASE k # 1
    <3>1. k \in 2..Len(block.signers)
      BY <2>2
    <3> QED BY <3>1 DEF CheckBlockFinalized
  <2> QED BY <2>1, <2>2
<1>2. \A k : RecoverSigner(node, block, k) = RecoverSigner(other, block, k)
  BY DEF RecoverSigner
<1>3. Len(block.signers) = ValPerBlock
  BY DEF CheckBlockFinalized
<1> QED BY <1>1, <1>2, <1>3 DEF CheckBlockAsSNode

\* What its attestors attested passes both checks.
LEMMA AttestedPasses ==
  ASSUME BlocksInv, ValPerBlock >= 2, NEW bytes \in published, Producer \in validators,
         \A k \in 2..ValPerBlock : AttestedIn(bytes, k, validators)
  PROVE  LET block == DecodeBlock(Schema[StorageNode], bytes) IN
         CheckBlockAsSNode(StorageNode, block) /\ CheckBlockFinalized(StorageNode, block)
<1> DEFINE blk == DecodeBlock(SP, bytes)
           block == BlockAs("this", blk)
<1>1. PublishedAs(bytes, blk)
  BY ReadPublished
<1>2. /\ Attested(block) /\ Bare(block) = Bare(blk) /\ Produced(Bare(blk)) /\ IsBare(Bare(blk))
      /\ block.signers = blk.signers /\ Len(block.signers) = ValPerBlock
      /\ DecodeBlock(Schema[StorageNode], bytes) = block
  <2>1. Attested(block) /\ Bare(block) = Bare(blk)
    BY <1>1, ViewAttested DEF PublishedAs
  <2>2. block.signers = blk.signers
    BY DEF BlockAs
  <2> QED BY <1>1, <2>1, <2>2, SchemasOfNodes DEF PublishedAs, Composed, Produced
<1>3. ASSUME NEW k \in 2..ValPerBlock
      PROVE  \E n \in Attestors :
               /\ n \in validators /\ SaidBy(block, k, n) /\ Reviewed(Bare(blk))
               /\ block.signers[k].sig = AnswerSignature(n, Bare(blk))
  <2>1. AttestedIn(bytes, k, validators)
    OBVIOUS
  <2>2. PICK reply \in replies :
          LET n == reply.from
              view == BlockAs("this", blk)
           IN  /\ n \in validators /\ n \in Attestors /\ SaidBy(view, k, n)
               /\ Reviewed(Bare(blk))
               /\ view.signers[k].sig = AnswerSignature(n, Bare(blk))
    <3> HIDE DEF blk
    <3> QED BY <1>1, <2>1, AttestedRead
  <2> QED BY <2>2
<1> HIDE DEF block, blk
<1>4. IsBlock("this", block) /\ Len(block.signers) >= 1 /\ "this" \in Schemas
      /\ DOMAIN block.txobj = 1..Len(block.txobj) /\ Len(block.signers) \in Nat
      /\ \A i \in 1..Len(block.txobj) :
           Len(block.txobj[i].attestordata) = Len(block.signers) - 1
  BY <1>2, BlockParts DEF Attested, Schemas
<1>5. Reviewed(block)
  <2>1. 2 \in 2..ValPerBlock
    BY CountAssumption
  <2>2. Reviewed(Bare(block))
    BY <1>2, <1>3, <2>1
  <2> QED BY <1>4, <2>2, ReviewedAsRead
<1>6. RecoverSigner(StorageNode, block, 1) = Producer
  BY <1>2, FirstSigner
<1>7. block.signers # <<>>
  <2>1. Len(<<>>) = 0
    OBVIOUS
  <2> QED BY <1>4, <2>1
<1>8. CheckBlockAsAttestor(StorageNode, block)
  BY <1>4, <1>5, <1>6, <1>7 DEF CheckBlockAsAttestor, Reviewed
<1>9. \A k \in 2..Len(block.signers) : RecoverSigner(StorageNode, block, k) \in validators
  <2> SUFFICES ASSUME NEW k \in 2..Len(block.signers)
               PROVE  RecoverSigner(StorageNode, block, k) \in validators
    OBVIOUS
  <2>1. PICK n \in Attestors :
               /\ n \in validators /\ SaidBy(block, k, n)
               /\ block.signers[k].sig = AnswerSignature(n, Bare(block))
    BY <1>2, <1>3
  <2>2. RecoverSigner(StorageNode, block, k) = n
    BY <1>2, <2>1, FurtherSigner
  <2> QED BY <2>1, <2>2
<1>10. ASSUME NEW i \in DOMAIN block.txobj, NEW k \in DOMAIN block.txobj[i].attestordata
       PROVE  block.txobj[i].attestordata[k].vote \in {1, 2}
  <2>1. DOMAIN block.txobj[i].attestordata = 1..Len(block.txobj[i].attestordata)
    BY <1>4, SequenceFacts DEF IsBlock, IsTransactionObj
  <2>2. k + 1 \in 2..ValPerBlock /\ (k + 1) - 1 = k
    BY <1>2, <1>4, <2>1, CountAssumption
  <2>3. PICK n \in Attestors : SaidBy(block, k + 1, n)
    BY <1>3, <2>2
  <2>4. block.txobj[i].attestordata[k] = Attestation(n)
    BY <1>4, <2>2, <2>3 DEF SaidBy
  <2>5. Attestation(n).vote = VoteOf[n]
    BY AttestationOf
  <2> QED BY <2>4, <2>5, VotesAssumption
<1>11. CheckBlockFinalized(StorageNode, block)
  BY <1>2, <1>8, <1>9, <1>10 DEF CheckBlockFinalized
<1>12. CheckBlockAsSNode(StorageNode, block)
  BY <1>4, <1>11, FinalIsStorable
<1> QED BY <1>2, <1>11, <1>12

\* A storage node accepts, and checkBlockFinalized() passes, each block all of whose
\* further signatures are of registered attestors that attested it, if a block needs an
\* attestor at all.
THEOREM AttestedAreAccepted ==
  ASSUME ValPerBlock >= 2
  PROVE  Spec => []AttestedIsAccepted
<1>1. BlocksInv => AttestedIsAccepted
  BY AttestedPasses DEF AttestedIsAccepted
<1> QED BY <1>1, BlocksInvariant, PTL

------------------------------------------------------------------------------
(* Whose transactions are accepted. *)

\* A signature that gives an address that is somebody's is that one's, over these bytes.
LEMMA SignedBy ==
  ASSUME NEW sig, IsSignature(sig), NEW bytes, NEW key, key # "nobody", Recover(bytes, sig) = key
  PROVE  sig = Signature(key, bytes) /\ IsKey(key)
<1>1. sig # <<>> /\ sig[1].over = bytes /\ sig[1].by = key
  BY DEF Recover
<1>2. sig = <<[by |-> sig[1].by, over |-> sig[1].over]>> /\ IsKey(sig[1].by)
  BY <1>1 DEF IsSignature
<1> DEFINE one == sig[1]
<1>3. one.by = key /\ one.over = bytes /\ sig = <<[by |-> one.by, over |-> one.over]>>
  BY <1>1, <1>2
<1> HIDE DEF one
<1>4. sig = <<[by |-> key, over |-> bytes]>>
  BY <1>3
<1> QED BY <1>1, <1>2, <1>4 DEF Signature

\* The address in an address that parses
LEMMA CaipAddress ==
  ASSUME NEW address, ParseCaip(address).ok
  PROVE  ParseCaip(address).addr = address[Len(address)]
<1>1. Len(address) \in {2, 3}
  BY DEF ParseCaip
<1>2. ParseCaip(address).addr = IF Len(address) = 0 THEN "" ELSE address[Len(address)]
  BY ZenonT(30) DEF ParseCaip
<1>3. Len(address) # 0
  BY <1>1
<1> QED BY <1>2, <1>3

\* A signature checked for an address is its owner's.
LEMMA SignedByOwner ==
  ASSUME NEW address, ParseCaip(address).ok, NEW sig, IsClaimed(address, sig), NEW bytes,
         CheckNetworkSignature(ParseCaip(address), bytes, sig)
  PROVE  sig = Signature(OwnerOf(address), bytes)
<1> DEFINE addr == address[Len(address)]
<1>1. ParseCaip(address).addr = addr /\ addr # "nobody" /\ IsSignature(sig)
  BY CaipAddress DEF IsClaimed
<1>2. Recover(bytes, sig) = EvmOfPush(addr) \/ Recover(bytes, sig) = addr
  BY <1>1 DEF CheckNetworkSignature
<1>3. OwnerOf(address) = IF addr \in DOMAIN PushAddress THEN PushAddress[addr] ELSE addr
  BY DEF OwnerOf
<1> HIDE DEF addr
<1>4. CASE Recover(bytes, sig) = EvmOfPush(addr)
  <2>1. EvmOfPush(addr) # "nobody"
    BY PushAssumption DEF EvmOfPush
  <2>2. sig = Signature(EvmOfPush(addr), bytes) /\ IsKey(EvmOfPush(addr))
    BY <1>1, <1>4, <2>1, SignedBy
  <2>3. EvmOfPush(addr) # "none"
    BY <2>2 DEF IsKey
  <2>4. EvmOfPush(addr) = OwnerOf(address)
    BY <1>3, <2>3 DEF EvmOfPush
  <2> QED BY <2>2, <2>4
<1>5. CASE Recover(bytes, sig) = addr
  <2>1. sig = Signature(addr, bytes) /\ IsKey(addr)
    BY <1>1, <1>5, SignedBy
  <2> QED BY <1>3, <2>1 DEF IsKey
<1> QED BY <1>2, <1>4, <1>5

\* What AcceptedTxsAreOwned says of a transaction
TxIsOwned(tx) ==
  LET links == DecodeInitDid(tx.data).wallettoencderivedkey
  IN  /\ tx.signature = Signature(OwnerOf(tx.sender), HashBytes(
           EncodeTransaction([tx EXCEPT !.signature = <<>>])))
      /\ tx.category = "INIT_DID" =>
           \A wallet \in DOMAIN links : links[wallet].signature
             = Signature(OwnerOf(wallet), ConnectAccount(OwnerOf(tx.sender)))

\* A transaction that was checked is its sender's, and links wallets of their owners.
LEMMA CheckedIsOwned ==
  ASSUME NEW tx, IsTransaction(tx), IsSigned(tx), CheckTxSignature(tx)
  PROVE  TxIsOwned(tx)
<1> DEFINE caip == ParseCaip(tx.sender)
           initDid == DecodeInitDid(tx.data)
           links == initDid.wallettoencderivedkey
           bytes == EncodeTransaction([tx EXCEPT !.signature = <<>>])
           owner == OwnerOf(tx.sender)
<1>1. UnsignedBytes(tx) = bytes
  BY TransactionBack DEF UnsignedBytes
<1>2. caip.ok /\ IsClaimed(tx.sender, tx.signature)
  BY DEF CheckTxSignature, IsSigned
<1>3. CASE tx.category # "INIT_DID"
  <2>1. CheckNetworkSignature(caip, HashBytes(bytes), tx.signature)
    BY <1>1, <1>3 DEF CheckTxSignature
  <2>2. tx.signature = Signature(owner, HashBytes(bytes))
    BY <1>2, <2>1, SignedByOwner
  <2> QED BY <1>3, <2>2 DEF TxIsOwned
<1>4. CASE tx.category = "INIT_DID"
  <2>1. /\ CheckInitDidSignature(initDid, tx, bytes)
        /\ CheckInitDidSender(initDid, caip)
        /\ \A wallet \in DOMAIN links : CheckWalletMapping(initDid, wallet)
    BY <1>1, <1>4 DEF CheckTxSignature
  <2> DEFINE addr == tx.sender[Len(tx.sender)]
             master == initDid.masterpubkey
  <2>2. master = EvmOfPush(addr)
    BY <1>2, <2>1, CaipAddress DEF CheckInitDidSender
  <2>3. Recover(HashBytes(bytes), tx.signature) = master
    BY <2>1 DEF CheckInitDidSignature
  <2>4. owner = IF addr \in DOMAIN PushAddress THEN PushAddress[addr] ELSE addr
    BY DEF OwnerOf
  <2>5. IsSignature(tx.signature)
    BY <1>2 DEF IsClaimed
  <2>6. \A wallet \in DOMAIN links : IsClaimed(wallet, links[wallet].signature)
    BY DEF IsSigned
  <2> HIDE DEF addr, master, bytes, owner
  <2>7. master # "nobody"
    BY <2>2, PushAssumption DEF EvmOfPush
  <2>8. tx.signature = Signature(master, HashBytes(bytes)) /\ IsKey(master)
    BY <2>3, <2>5, <2>7, SignedBy
  <2>9. master = owner
    <3>1. master # "none"
      BY <2>8 DEF IsKey
    <3> QED BY <2>2, <2>4, <3>1 DEF EvmOfPush
  <2>10. ASSUME NEW wallet \in DOMAIN links
         PROVE  links[wallet].signature = Signature(OwnerOf(wallet), ConnectAccount(owner))
    <3>1. ParseCaip(wallet).ok
          /\ CheckNetworkSignature(ParseCaip(wallet), ConnectAccount(master), links[wallet].signature)
      BY <2>1 DEF CheckWalletMapping, master
    <3>2. links[wallet].signature = Signature(OwnerOf(wallet), ConnectAccount(master))
      BY <2>6, <3>1, SignedByOwner
    <3> QED BY <2>9, <3>2
  <2> QED BY <2>8, <2>9, <2>10 DEF TxIsOwned, owner, bytes
<1> QED BY <1>3, <1>4

\* Accepted transactions have been checked by an attestor.
LEMMA AcceptedOwned ==
  ASSUME BlocksInv, ValPerBlock >= 2
  PROVE  AcceptedTxsAreOwned
<1> SUFFICES ASSUME NEW raw \in accepted,
                    NEW i \in DOMAIN DecodeBlock(Schema[StorageNode], raw).txobj
             PROVE  TxIsOwned(DecodeBlock(Schema[StorageNode], raw).txobj[i].tx)
  BY DEF AcceptedTxsAreOwned, TxIsOwned
<1>0. PICK bytes \in published :
        /\ DecodeBlock("this", raw) = DecodeBlock("this", bytes)
        /\ \A j \in 1..ValPerBlock :
             RecoverSigner(StorageNode, DecodeBlock("this", bytes), j) \in Nodes
  BY AcceptedRead
<1> DEFINE blk == DecodeBlock(SP, bytes)
           block == BlockAs("this", blk)
           b == Bare(blk)
<1>1. 2 \in 2..ValPerBlock
  BY CountAssumption
<1>2. /\ PublishedAs(bytes, blk)
      /\ \E reply \in replies : IsAnswer(reply) /\ RequestOf(reply) = b
  BY <1>0, <1>1, AcceptedFound
<1> HIDE DEF blk
<1>3. Reviewed(b)
  BY <1>2 DEF IsAnswer
<1>4. /\ Attested(block) /\ Bare(block) = b /\ Produced(b)
      /\ DecodeBlock(Schema[StorageNode], raw) = block
  <2>1. Attested(block) /\ Bare(block) = b
    BY <1>2, ViewAttested DEF PublishedAs
  <2> QED BY <1>0, <1>2, <2>1, SchemasOfNodes DEF PublishedAs, Composed
<1> HIDE DEF block, b
<1>5. IsBlock("this", block) /\ Len(block.signers) >= 1 /\ "this" \in Schemas
      /\ DOMAIN block.txobj = 1..Len(block.txobj)
  BY <1>4, BlockParts DEF Attested, Schemas
<1>6. i \in 1..Len(block.txobj) /\ i \in DOMAIN block.txobj
  BY <1>4, <1>5
<1> DEFINE tx == block.txobj[i].tx
<1>7. tx # Null /\ CheckTxSignature(tx)
  <2>1. Reviewed(block)
    BY <1>3, <1>4, <1>5, ReviewedAsRead
  <2>2. ValidTransaction(block.txobj[i])
    BY <1>6, <2>1 DEF Reviewed
  <2> QED BY <2>2 DEF ValidTransaction, CheckTx
<1>8. IsTransaction(tx)
  BY <1>5, <1>6, <1>7 DEF IsBlock, IsTransactionObj
<1>9. IsSigned(tx)
  <2>1. PICK proposal \in Proposals :
          /\ Len(proposal.txobj) = Len(b.txobj)
          /\ \A j \in 1..Len(b.txobj) : b.txobj[j].tx = proposal.txobj[j].tx
    BY <1>4 DEF Produced, Proposed
  <2>2. Len(b.txobj) = Len(block.txobj)
        /\ b.txobj[i] = [tx |-> block.txobj[i].tx, validatordata |-> block.txobj[i].validatordata,
                         attestordata |-> <<>>]
    BY <1>4, <1>5, <1>6, BareFacts
  <2>3. b.txobj[i].tx = tx
    BY <2>2
  <2>4. proposal.txobj[i].tx = tx /\ i \in 1..Len(proposal.txobj)
    BY <1>6, <2>1, <2>2, <2>3
  <2> HIDE DEF tx
  <2> QED BY <1>7, <2>4, SignaturesAssumption
<1>10. TxIsOwned(tx)
  <2> HIDE DEF tx
  <2> QED BY <1>7, <1>8, <1>9, CheckedIsOwned
<1> QED BY <1>4, <1>10

\* The transactions a storage node accepts are signed by their senders as they are, and an
\* INIT_DID links only wallets whose owners signed for its master key.
THEOREM AcceptedAreOwned ==
  ASSUME ValPerBlock >= 2
  PROVE  Spec => []AcceptedTxsAreOwned
<1>1. BlocksInv => AcceptedTxsAreOwned
  BY AcceptedOwned
<1> QED BY <1>1, BlocksInvariant, PTL
==============================================================================
