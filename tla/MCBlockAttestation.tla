------------------------- MODULE MCBlockAttestation -------------------------
(***************************************************************************)
(* BlockAttestation with transactions that are signed: one with recipients,*)
(* a DID of two wallets, the same linking a wallet of somebody else, and   *)
(* one whose data was changed after it was signed.  The producer and       *)
(* attestor "a3" have a newer schema than the storage node.  Others who    *)
(* send a block on add fields no schema has yet, to it, its first          *)
(* transaction and its first signature, and write its fields in the order  *)
(* of their numbers.                                                       *)
(***************************************************************************)
EXTENDS BlockAttestation

MCPushAddress == [a \in {"pushMaster"} |-> "0xMaster"]
MCSchema ==
  [n \in {"v", "a1", "a2", "a3", "s"} |-> IF n \in {"v", "a3"} THEN "newer" ELSE "this"]
MCVoteOf == [n \in {"a1", "a2", "a3"} |-> IF n = "a2" THEN 2 ELSE 1]

SignedBy(key, tx) == [tx EXCEPT !.signature = Signature(key, HashBytes(EncodeTransaction(tx)))]

Alice == <<"eip155", "1", "0xAlice">>
Sol   == <<"solana", "mainnet", "Solana1">>
DidOf == <<"push", "devnet", "pushMaster">>

Message ==
  SignedBy("0xAlice",
    [EmptyTransaction EXCEPT !.category = "CUSTOM:CORE_CHAT", !.sender = Alice,
       !.recipients = <<DidOf, Sol>>, !.salt = "salt", !.apitoken = "VT1-v",
       !.data = <<<<100, "text">>>>])
Tampered == [Message EXCEPT !.data = <<<<100, "else">>>>]

Link(key) ==
  [encderivedprivkey |-> [EmptyEncryptedText EXCEPT !.ciphertext = "c", !.version = "1"],
   signature |-> Signature(key, ConnectAccount("0xMaster"))]
Did(links) ==
  SignedBy("0xMaster",
    [EmptyTransaction EXCEPT !.category = "INIT_DID", !.sender = DidOf,
       !.salt = "salt", !.apitoken = "VT1-v",
       !.data = EncodeInitDid([masterpubkey |-> "0xMaster", derivedkeyindex |-> 1,
                  derivedpubkey |-> "0xDerived", wallettoencderivedkey |-> links])])
Owned  == Did([w \in {Alice, Sol} |-> IF w = Sol THEN Link("Solana1") ELSE Link("0xAlice")])
Stolen == Did([w \in {Alice} |-> Link("0xMaster")])

Extra == <<9, <<>>>>
WithExtra(bytes, no) ==
  LET i == CHOOSE i \in DOMAIN bytes : bytes[i][1] = no
  IN  [bytes EXCEPT ![i][2] = Append(@, Extra)]
InOrder(bytes) ==
  SelectSeq(bytes, LAMBDA field : field[1] < 4)
    \o SelectSeq(bytes, LAMBDA field : field[1] >= 4)
MCForms(bytes) == {InOrder(Append(WithExtra(WithExtra(bytes, 2), 3), Extra))}

BlockOf(txs) ==
  [EmptyBlock EXCEPT !.ts = 7, !.attesttoken = "AT1-v",
     !.txobj = [i \in DOMAIN txs |-> [EmptyTransactionObj EXCEPT !.tx = txs[i]]]]
MCProposals ==
  {BlockOf(<<Message, Owned>>), BlockOf(<<Message>>), BlockOf(<<Stolen>>),
   BlockOf(<<Tampered>>)}
=============================================================================
