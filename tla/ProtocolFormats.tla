---------------------------- MODULE ProtocolFormats ----------------------------
(***************************************************************************)
(* The formats of the protocol in the shapes of WireFormat, each as it is      *)
(* written and as it is read, and one message of one of them on its way: a     *)
(* connection or a disk may change a unit, lose the end or add one.           *)
(***************************************************************************)
EXTENDS WireFormat

CONSTANTS
  Limit,        \* the limits of constants.ts, gossip.ts and chain.ts
  Messages(_),  \* the messages of a format, a sequence
  TopUnit,      \* the largest unit that may take another's place
  MaxEdits      \* how often a message changes on its way

VARIABLE
  packet   \* [format, number, bytes, edits]: the message sent and what arrived of it

-----------------------------------------------------------------------------
(* Payloads, by the tag of their kind. *)
WriteAppRecord ==
  Fields(<<Text(Limit.appId), Number, Text(Limit.version), Number, Number,
           List(Limit.validators, Number)>>)

ReadAppRecord ==
  Fields(<<Text(Limit.appId), Number, Text(Limit.version), Number, Number,
           List(Limit.validators, Number)>>)

WriteAnchorBody ==
  Fields(<<Text(Limit.appId), Number, Number, Number,
           Option(Fields(<<Number, Text(Limit.action), Blob(Limit.args)>>))>>)

ReadAnchorBody ==
  Fields(<<Text(Limit.appId), Number, Number, Number,
           Option(Fields(<<Number, Text(Limit.action), Blob(Limit.args)>>))>>)

\* transfer, deploy_contract, execute_contract, register_app, update_app, anchor
WritePayload ==
  Tagged(<<Fields(<<Number, Number>>),
           Blob(Limit.code),
           Fields(<<Number, Number, Text(Limit.action), Blob(Limit.args)>>),
           WriteAppRecord, WriteAppRecord,
           Fields(<<WriteAnchorBody, List(Limit.validators, Fields(<<Number, Number>>))>>)>>)

ReadPayload ==
  Tagged(<<Fields(<<Number, Number>>),
           Blob(Limit.code),
           Fields(<<Number, Number, Text(Limit.action), Blob(Limit.args)>>),
           ReadAppRecord, ReadAppRecord,
           Fields(<<ReadAnchorBody, List(Limit.validators, Fields(<<Number, Number>>))>>)>>)

(* Transactions: the chain, the nonce, the sender, the fee, the payload; the    *)
(* size of a whole one is limited, of one inside a block only the block's.     *)
WriteUnsigned == Fields(<<Text(Limit.chainId), Number, Number, Number, WritePayload>>)
WriteTransaction == Fields(<<WriteUnsigned, Number>>)

ReadTransaction ==
  Fields(<<Fields(<<Text(Limit.chainId), Number, Number, Number, ReadPayload>>), Number>>)

EncodeTransaction(tx) == Encode(Sized(Limit.tx, WriteTransaction), tx)
DecodeTransaction(b) == DecodeWhole(Sized(Limit.tx, ReadTransaction), b)

(* What is signed: a domain and the unsigned part, also taken from the bytes.   *)
TxDomain == <<"tx">>
TransactionSigningBytes(tx) == TxDomain \o Encode(WriteUnsigned, tx[1])

TransactionSigningBytesFromEncoded(b) == TxDomain \o SubSeq(b, 1, Len(b) - 1)

-----------------------------------------------------------------------------
(* Blocks: version, chain, height, previous hash, time, proposer, roots.       *)
WriteHeader ==
  Fields(<<Number, Text(Limit.chainId), Number, Number, Number, Number, Number, Number>>)

ReadHeader ==
  Fields(<<Number, Text(Limit.chainId), Number, Number, Number, Number, Number, Number>>)

EncodeBlock(block) ==
  Encode(Sized(Limit.block,
               Fields(<<WriteHeader, List(Limit.txs, WriteTransaction), Number>>)), block)

(* decodeBlockWithTransactionBytes also cuts each transaction out of the bytes. *)
DecodeBlock(b) ==
  DecodeWhole(Sized(Limit.block,
                    Fields(<<ReadHeader, List(Limit.txs, ReadTransaction), Number>>)), b)

TransactionSlices(b) ==
  LET counted == Decode(Fields(<<ReadHeader, Number>>), b)
      start   == [txs |-> <<>>, rest |-> counted.rest]
      Cut(cut, i) ==
        LET rest == Decode(ReadTransaction, cut.rest).rest
        IN [txs |-> Append(cut.txs, SubSeq(cut.rest, 1, Len(cut.rest) - Len(rest))),
            rest |-> rest]
  IN FoldLeft(Cut, start, [i \in 1 .. counted.value[2] |-> i]).txs

(* Votes: chain, height, round, block, validator and signature. *)
WriteUnsignedVote == Fields(<<Text(Limit.chainId), Number, Number, Number, Number>>)
EncodeVote == Fields(<<WriteUnsignedVote, Number>>)
DecodeVote == Fields(<<Fields(<<Text(Limit.chainId), Number, Number, Number, Number>>), Number>>)

-----------------------------------------------------------------------------
(* Gossip, by tag: hello, tx, proposal, vote, block_request, block_response,   *)
(* proposal_request, proposal_response, tx_batch, tx_request, tx_response.     *)
(* What travels encoded is a blob; a vote is framed.                         *)
Proposal == Fields(<<Number, Blob(Limit.block)>>)

EncodeGossip ==
  Tagged(<<Number, Blob(Limit.tx), Proposal, Framed(Limit.vote, EncodeVote),
           Fields(<<Number, Number>>),
           List(Limit.blocks, Fields(<<Blob(Limit.block),
                                       List(Limit.votes, Framed(Limit.vote, EncodeVote))>>)),
           Fields(<<Number, Number>>), Proposal,
           List(Limit.txs, Blob(Limit.tx)),
           List(Limit.repairs, Fields(<<Number, Number>>)),
           List(Limit.repairs, Blob(Limit.tx))>>)

DecodeGossip ==
  Tagged(<<Number, Blob(Limit.tx), Proposal, Framed(Limit.vote, DecodeVote),
           Fields(<<Number, UpTo(Limit.blocks)>>),
           List(Limit.blocks, Fields(<<Blob(Limit.block),
                                       List(Limit.votes, Framed(Limit.vote, DecodeVote))>>)),
           Fields(<<Number, Number>>), Proposal,
           List(Limit.txs, Blob(Limit.tx)),
           List(Limit.repairs, Fields(<<Number, Number>>)),
           List(Limit.repairs, Blob(Limit.tx))>>)

(* What a chain stores: the votes of a block; of a transaction the height, the  *)
(* place, success, the error, the fee, the events and what was returned.       *)
EncodeCertificate == List(Limit.votes, Framed(Limit.vote, EncodeVote))
DecodeCertificate == List(Limit.votes, Framed(Limit.vote, DecodeVote))

EncodeTxRecord ==
  Fields(<<Number, Number, Flag, Text(Limit.error), Number,
           List(Limit.events, Blob(Limit.event)), Blob(Limit.returned)>>)

DecodeTxRecord ==
  Fields(<<Number, Number, Flag, Text(Limit.error), Number,
           List(Limit.events, Blob(Limit.event)), Blob(Limit.returned)>>)

-----------------------------------------------------------------------------
Format == {"payload", "tx", "block", "gossip", "certificate", "record"}

Encoded(format, message) ==
  CASE format = "payload"     -> Encode(WritePayload, message)
    [] format = "tx"          -> EncodeTransaction(message)
    [] format = "block"       -> EncodeBlock(message)
    [] format = "gossip"      -> Encode(EncodeGossip, message)
    [] format = "certificate" -> Encode(EncodeCertificate, message)
    [] format = "record"      -> Encode(EncodeTxRecord, message)

Decoded(format, b) ==
  CASE format = "payload"     -> DecodeWhole(ReadPayload, b)
    [] format = "tx"          -> DecodeTransaction(b)
    [] format = "block"       -> DecodeBlock(b)
    [] format = "gossip"      -> DecodeWhole(DecodeGossip, b)
    [] format = "certificate" -> DecodeWhole(DecodeCertificate, b)
    [] format = "record"      -> DecodeWhole(DecodeTxRecord, b)

NoPacket == [format |-> "none"]

WireInit ==
  \E format \in Format : \E i \in DOMAIN Messages(format) :
    LET bytes == Encoded(format, Messages(format)[i])
    IN /\ Refused \notin Range(bytes)
       /\ packet = [format |-> format, number |-> i, bytes |-> bytes, edits |-> 0]

WireFault(bytes) ==
  /\ packet.edits < MaxEdits
  /\ packet' = [packet EXCEPT !.bytes = bytes, !.edits = @ + 1]

ChangeUnit ==
  \E i \in DOMAIN packet.bytes, u \in 0 .. TopUnit :
    u # packet.bytes[i] /\ WireFault([packet.bytes EXCEPT ![i] = u])
LoseEnd  == \E i \in DOMAIN packet.bytes : WireFault(SubSeq(packet.bytes, 1, i - 1))
AddUnit  == \E u \in 0 .. TopUnit : WireFault(Append(packet.bytes, u))

WireNext == ChangeUnit \/ LoseEnd \/ AddUnit

-----------------------------------------------------------------------------
(***************************************************************************)
(* Every structure has one representation (wire.ts:4): what was sent is        *)
(* read as it was written, and whatever is accepted is what the encoder would   *)
(* write for it, so the bytes a signature or a hash was made of are those a     *)
(* reader checks it against; the bytes cut out of a block are the              *)
(* transactions' own, and so is what is signed of them.                       *)
(***************************************************************************)
WireIsExact == packet # NoPacket =>
  LET read == Decoded(packet.format, packet.bytes) IN
  /\ packet.edits = 0 => read.ok /\ read.value = Messages(packet.format)[packet.number]
  /\ read.ok => Encoded(packet.format, read.value) = packet.bytes
  /\ read.ok /\ packet.format = "tx" =>
       TransactionSigningBytesFromEncoded(packet.bytes) = TransactionSigningBytes(read.value)
  /\ read.ok /\ packet.format = "block" =>
       TransactionSlices(packet.bytes)
         = [i \in DOMAIN read.value[2] |-> Encode(WriteTransaction, read.value[2][i])]
=============================================================================
