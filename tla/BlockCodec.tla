----------------------------- MODULE BlockCodec -----------------------------
(***************************************************************************)
(* The wire format of blocks and transactions (block_pb.js, generated from *)
(* block.proto).  Bytes are a sequence of <<field number, value>>, where   *)
(* the value of a nested message is such a sequence again.  For each       *)
(* message there is what a new one holds (the getters' defaults), the      *)
(* cases of its reader and the lines of its writer; the readers and        *)
(* writers work alike, so Decode and Encode are said once.                 *)
(*                                                                         *)
(* What was signed is bytes, and what is checked are messages written once *)
(* more: a signature holds only as far as the two tables of a message      *)
(* agree, with each other and with those of the node that signed.          *)
(***************************************************************************)
EXTENDS Integers, Sequences, SequencesExt

CONSTANT Null \* a message field that is not set

EmptyMap == [k \in {} |-> Null]

\* A case of deserializeBinaryFromReader(): the field number and the setter it calls,
\* "set", "add" to a list, or "put" into a map.
Case(no, how, name) == [no |-> no, how |-> how, name |-> name]

\* A line of serializeBinaryToWriter(): the field number and when it is written: a
\* "number" that is not 0, a "text" or "bytes" with a length, a "message" that is set,
\* "each" of a list, each entry of a "map".
Line(no, how, name) == [no |-> no, how |-> how, name |-> name]

\* One turn of the reader's loop.  A field of an unknown number is skipped.
ReadField(msg, field, reader) ==
  LET known == {c \in Range(reader) : c.no = field[1]}
      case == CHOOSE c \in known : TRUE
      old == msg[case.name]
      value == field[2]
  IN  IF known = {} THEN msg
      ELSE [msg EXCEPT ![case.name] =
              IF case.how = "set" THEN value
              ELSE IF case.how = "add" THEN Append(old, value)
              ELSE [k \in DOMAIN old \cup {value[1]} |->
                      IF k = value[1] THEN value[2] ELSE old[k]]]

\* The message when n fields are read.
ReadFields(empty, reader, fields, n) ==
  LET read[i \in 0..n] ==
        IF i = 0 THEN empty ELSE ReadField(read[i - 1], fields[i], reader)
  IN  read[n]

\* Inner reads the value of a field of a number: bytes, when it is a message.
Decode(empty, reader, Inner(_, _), bytes) ==
  ReadFields(empty, reader,
             [i \in DOMAIN bytes |-> <<bytes[i][1], Inner(bytes[i][1], bytes[i][2])>>],
             Len(bytes))

\* What a line writes.  jspb.Map writes its entries in the order of their keys.
Values(how, value) ==
  IF how = "each" THEN value
  ELSE IF how = "map" THEN [i \in 1..Len(SetToSeq(DOMAIN value)) |->
         <<SetToSeq(DOMAIN value)[i], value[SetToSeq(DOMAIN value)[i]]>>]
  ELSE IF \/ how = "number" /\ value # 0
          \/ how = "text" /\ value # ""
          \/ how = "bytes" /\ value # <<>>
          \/ how = "message" /\ value # Null
  THEN <<value>> ELSE <<>>

LineFields(line, msg) ==
  LET values == Values(line.how, msg[line.name])
  IN  [j \in 1..Len(values) |-> <<line.no, values[j]>>]

Encode(writer, Inner(_, _), msg) ==
  FlattenSeq([i \in 1..Len(writer) |->
    LET fields == LineFields(writer[i], msg)
    IN  [j \in 1..Len(fields) |-> <<fields[j][1], Inner(fields[j][1], fields[j][2])>>]])

\* Numbers, texts and bytes are not messages.
Plain(no, value) == value

------------------------------------------------------------------------------
(* Payloads. *)

EmptyEncryptedText ==
  [ciphertext |-> "", salt |-> "", nonce |-> "", version |-> "", prekey |-> ""]
EncryptedTextReader ==
  <<Case(1, "set", "ciphertext"), Case(2, "set", "salt"), Case(3, "set", "nonce"),
    Case(4, "set", "version"), Case(5, "set", "prekey")>>
EncryptedTextWriter ==
  <<Line(1, "text", "ciphertext"), Line(2, "text", "salt"),
    Line(3, "text", "nonce"), Line(4, "text", "version"),
    Line(5, "text", "prekey")>>

EmptyWalletToEncDerivedKey == [encderivedprivkey |-> Null, signature |-> <<>>]
WalletToEncDerivedKeyReader ==
  <<Case(1, "set", "encderivedprivkey"), Case(2, "set", "signature")>>
WalletToEncDerivedKeyWriter ==
  <<Line(1, "message", "encderivedprivkey"), Line(2, "bytes", "signature")>>

DecodeDerivedKey(bytes) ==
  Decode(EmptyWalletToEncDerivedKey, WalletToEncDerivedKeyReader,
         LAMBDA no, value : IF no = 1
           THEN Decode(EmptyEncryptedText, EncryptedTextReader, Plain, value) ELSE value,
         bytes)
EncodeDerivedKey(msg) ==
  Encode(WalletToEncDerivedKeyWriter,
         LAMBDA no, value : IF no = 1
           THEN Encode(EncryptedTextWriter, Plain, value) ELSE value,
         msg)

EmptyInitDid ==
  [masterpubkey |-> "", derivedkeyindex |-> 0, derivedpubkey |-> "",
   wallettoencderivedkey |-> EmptyMap]
InitDidReader ==
  <<Case(1, "set", "masterpubkey"), Case(2, "set", "derivedkeyindex"),
    Case(3, "set", "derivedpubkey"), Case(4, "put", "wallettoencderivedkey")>>
InitDidWriter ==
  <<Line(1, "text", "masterpubkey"), Line(2, "number", "derivedkeyindex"),
    Line(3, "text", "derivedpubkey"), Line(4, "map", "wallettoencderivedkey")>>

DecodeInitDid(bytes) ==
  Decode(EmptyInitDid, InitDidReader,
         LAMBDA no, value : IF no = 4
           THEN <<value[1], DecodeDerivedKey(value[2])>> ELSE value,
         bytes)
EncodeInitDid(msg) ==
  Encode(InitDidWriter,
         LAMBDA no, value : IF no = 4
           THEN <<value[1], EncodeDerivedKey(value[2])>> ELSE value,
         msg)

------------------------------------------------------------------------------
(* Transactions. *)

EmptyTransaction ==
  [type |-> 0, category |-> "", sender |-> <<>>, recipients |-> <<>>, data |-> <<>>,
   salt |-> "", apitoken |-> "", signature |-> <<>>, fee |-> ""]
\* Mutant: the case of the salt is missing.
ReaderWithoutSalt ==
  <<Case(1, "set", "type"), Case(2, "set", "category"), Case(3, "set", "sender"),
    Case(4, "add", "recipients"), Case(5, "set", "data"), Case(7, "set", "apitoken"),
    Case(8, "set", "signature"), Case(9, "set", "fee")>>
TransactionReader ==
  <<Case(1, "set", "type"), Case(2, "set", "category"), Case(3, "set", "sender"),
    Case(4, "add", "recipients"), Case(5, "set", "data"), Case(6, "set", "salt"),
    Case(7, "set", "apitoken"), Case(8, "set", "signature"), Case(9, "set", "fee")>>
TransactionWriter ==
  <<Line(1, "number", "type"), Line(2, "text", "category"),
    Line(3, "bytes", "sender"), Line(4, "each", "recipients"),
    Line(5, "bytes", "data"), Line(6, "text", "salt"),
    Line(7, "text", "apitoken"), Line(8, "bytes", "signature"),
    Line(9, "text", "fee")>>

DecodeTransaction(bytes) == Decode(EmptyTransaction, TransactionReader, Plain, bytes)
EncodeTransaction(msg) == Encode(TransactionWriter, Plain, msg)

EmptyDidMapping == [didmapping |-> EmptyMap]
DidMappingReader == <<Case(1, "put", "didmapping")>>
DidMappingWriter == <<Line(1, "map", "didmapping")>>

EmptyTxValidatorData == [vote |-> 0, didmapping |-> Null]
TxValidatorDataReader == <<Case(1, "set", "vote"), Case(2, "set", "didmapping")>>
TxValidatorDataWriter == <<Line(1, "number", "vote"), Line(2, "message", "didmapping")>>

DecodeTxValidatorData(bytes) ==
  Decode(EmptyTxValidatorData, TxValidatorDataReader,
         LAMBDA no, value : IF no = 2
           THEN Decode(EmptyDidMapping, DidMappingReader, Plain, value) ELSE value,
         bytes)
EncodeTxValidatorData(msg) ==
  Encode(TxValidatorDataWriter,
         LAMBDA no, value : IF no = 2
           THEN Encode(DidMappingWriter, Plain, value) ELSE value,
         msg)

EmptyTxAttestorData == [vote |-> 0]
TxAttestorDataReader == <<Case(1, "set", "vote")>>
TxAttestorDataWriter == <<Line(1, "number", "vote")>>

\* The readers and writers are one version of the schema.  A comment in block.proto leaves
\* further fields of TxAttestorData to what attestors come to add, "i.e. repeated string
\* spam": "newer" has such a field, with whatever the attestor noted.
Schemas == {"this", "newer"}

EmptyAttestorData(schema) ==
  IF schema = "this" THEN EmptyTxAttestorData ELSE [vote |-> 0, note |-> ""]
AttestorDataReader(schema) ==
  IF schema = "this" THEN TxAttestorDataReader
  ELSE Append(TxAttestorDataReader, Case(2, "set", "note"))
AttestorDataWriter(schema) ==
  IF schema = "this" THEN TxAttestorDataWriter
  ELSE Append(TxAttestorDataWriter, Line(2, "text", "note"))

DecodeAttestorData(schema, bytes) ==
  Decode(EmptyAttestorData(schema), AttestorDataReader(schema), Plain, bytes)
EncodeAttestorData(schema, msg) == Encode(AttestorDataWriter(schema), Plain, msg)

------------------------------------------------------------------------------
(* Blocks and patches. *)

EmptyTransactionObj == [tx |-> Null, validatordata |-> Null, attestordata |-> <<>>]
TransactionObjReader ==
  <<Case(1, "set", "tx"), Case(2, "set", "validatordata"),
    Case(3, "add", "attestordata")>>
TransactionObjWriter ==
  <<Line(1, "message", "tx"), Line(2, "message", "validatordata"),
    Line(3, "each", "attestordata")>>

DecodeTransactionObj(schema, bytes) ==
  Decode(EmptyTransactionObj, TransactionObjReader,
         LAMBDA no, value :
           IF no = 1 THEN DecodeTransaction(value)
           ELSE IF no = 2 THEN DecodeTxValidatorData(value)
           ELSE DecodeAttestorData(schema, value),
         bytes)
EncodeTransactionObj(schema, msg) ==
  Encode(TransactionObjWriter,
         LAMBDA no, value :
           IF no = 1 THEN EncodeTransaction(value)
           ELSE IF no = 2 THEN EncodeTxValidatorData(value)
           ELSE EncodeAttestorData(schema, value),
         msg)

EmptySigner == [sig |-> <<>>]
SignerReader == <<Case(1, "set", "sig")>>
SignerWriter == <<Line(1, "bytes", "sig")>>

EmptyBlock == [ts |-> 0, attesttoken |-> "", txobj |-> <<>>, signers |-> <<>>]
BlockReader ==
  <<Case(1, "set", "ts"), Case(4, "set", "attesttoken"), Case(2, "add", "txobj"),
    Case(3, "add", "signers")>>
BlockWriter ==
  <<Line(1, "number", "ts"), Line(4, "text", "attesttoken"), Line(2, "each", "txobj"),
    Line(3, "each", "signers")>>

DecodeBlock(schema, bytes) ==
  Decode(EmptyBlock, BlockReader,
         LAMBDA no, value :
           IF no = 2 THEN DecodeTransactionObj(schema, value)
           ELSE IF no = 3 THEN Decode(EmptySigner, SignerReader, Plain, value)
           ELSE value,
         bytes)
EncodeBlock(schema, msg) ==
  Encode(BlockWriter,
         LAMBDA no, value :
           IF no = 2 THEN EncodeTransactionObj(schema, value)
           ELSE IF no = 3 THEN Encode(SignerWriter, Plain, value)
           ELSE value,
         msg)

EmptyAttestBlockResult == [attestordata |-> <<>>, signer |-> Null]
AttestBlockResultReader == <<Case(1, "add", "attestordata"), Case(2, "set", "signer")>>
AttestBlockResultWriter ==
  <<Line(1, "each", "attestordata"), Line(2, "message", "signer")>>

DecodePatch(schema, bytes) ==
  Decode(EmptyAttestBlockResult, AttestBlockResultReader,
         LAMBDA no, value : IF no = 2
           THEN Decode(EmptySigner, SignerReader, Plain, value)
           ELSE DecodeAttestorData(schema, value),
         bytes)
EncodePatch(schema, msg) ==
  Encode(AttestBlockResultWriter,
         LAMBDA no, value : IF no = 2
           THEN Encode(SignerWriter, Plain, value)
           ELSE EncodeAttestorData(schema, value),
         msg)
=============================================================================
