------------------------------ MODULE WireFormat ------------------------------
(***************************************************************************)
(* The wire format of the protocol package: what is hashed, signed, stored    *)
(* and sent.  The code writes every format twice, as a list of fields to      *)
(* write and a list to read; so does this module.                            *)
(*                                                                          *)
(* A byte string is a sequence of units.  A number of any width, a field of    *)
(* fixed size, a tag, a flag and a length prefix are one unit each; what is    *)
(* of variable size is a unit per byte.  A text is well-formed; of its bytes   *)
(* only two matter, one that UTF-8 never has and a byte-order mark.           *)
(***************************************************************************)
EXTENDS Naturals, Sequences, SequencesExt

BadByte == 3    \* never occurs in UTF-8
Bom     == 2    \* the byte-order mark

-----------------------------------------------------------------------------
(* The shapes a field may have. *)
Number        == [kind |-> "number"]     \* u8, u32, u64 or a field of fixed size
UpTo(max)     == [kind |-> "up to", max |-> max]
Flag          == [kind |-> "flag"]
Blob(max)     == [kind |-> "blob", max |-> max]
Text(max)     == [kind |-> "text", max |-> max]
List(max, of) == [kind |-> "list", max |-> max, of |-> of]
Fields(of)    == [kind |-> "fields", of |-> of]
Tagged(of)    == [kind |-> "tagged", of |-> of]    \* of[tag], after the tag
Option(of)    == [kind |-> "option", of |-> of]    \* a sequence of at most one
Framed(max, of) == [kind |-> "framed", max |-> max, of |-> of]  \* bytes with a length
Sized(max, of)  == [kind |-> "sized", max |-> max, of |-> of]   \* a whole message

(***************************************************************************)
(* Writer.  A value past its limit is refused: the unit Refused marks it.      *)
(***************************************************************************)
Refused == 999

AtMost(max, bytes) == IF Len(bytes) > max THEN <<Refused>> ELSE bytes
Prefixed(max, bytes) == IF Len(bytes) > max THEN <<Refused>> ELSE <<Len(bytes)>> \o bytes

RECURSIVE Encode(_, _)
Encode(f, v) ==
  CASE f.kind \in {"number", "up to"} -> <<v>>
    [] f.kind = "flag"   -> <<IF v THEN 1 ELSE 0>>
    [] f.kind \in {"blob", "text"} -> Prefixed(f.max, v)
    [] f.kind = "list"   ->
         IF Len(v) > f.max THEN <<Refused>>
         ELSE <<Len(v)>> \o FlattenSeq([i \in DOMAIN v |-> Encode(f.of, v[i])])
    [] f.kind = "fields" -> FlattenSeq([i \in DOMAIN v |-> Encode(f.of[i], v[i])])
    [] f.kind = "tagged" -> <<v.tag>> \o Encode(f.of[v.tag], v.body)
    [] f.kind = "option" -> IF v = <<>> THEN <<0>> ELSE <<1>> \o Encode(f.of, v[1])
    [] f.kind = "framed" -> Prefixed(f.max, Encode(f.of, v))
    [] OTHER             -> AtMost(f.max, Encode(f.of, v))

(***************************************************************************)
(* Reader.  A read takes units off the front or fails; finish() refuses what   *)
(* is left of a whole message.                                              *)
(***************************************************************************)
Read(value, rest) == [ok |-> TRUE, value |-> value, rest |-> rest]
Failed == [ok |-> FALSE, value |-> 0, rest |-> <<>>]

\* (mutant: the decoder is not told to keep a byte-order mark)
WithoutBom(bytes) ==
  CASE BadByte \in Range(bytes)             -> Failed
    [] bytes # <<>> /\ Head(bytes) = Bom    -> Read(Tail(bytes), <<>>)
    [] OTHER                                -> Read(bytes, <<>>)

Utf8Text(bytes) == IF BadByte \in Range(bytes) THEN Failed ELSE Read(bytes, <<>>)

Finish(read) == IF read.rest = <<>> THEN read ELSE Failed

(* need(): the bytes a length prefix announces are there. *)
Slice(max, length, rest) ==
  IF length <= max /\ length <= Len(rest)
  THEN Read(SubSeq(rest, 1, length), SubSeq(rest, length + 1, Len(rest)))
  ELSE Failed

RECURSIVE Decode(_, _), DecodeField(_, _, _)

ReadOn(f, read) ==
  LET item == Decode(f, read.rest)
  IN IF read.ok /\ item.ok THEN Read(Append(read.value, item.value), item.rest) ELSE Failed

(* A field that starts with the unit `first`. *)
DecodeField(f, first, rest) ==
  CASE f.kind = "number" -> Read(first, rest)
    [] f.kind = "up to"  -> IF first > f.max THEN Failed ELSE Read(first, rest)
    [] f.kind = "flag"   -> IF first > 1 THEN Failed ELSE Read(first = 1, rest)
    [] f.kind = "blob"   -> Slice(f.max, first, rest)
    [] f.kind = "text"   ->
         LET bytes == Slice(f.max, first, rest)  text == Utf8Text(bytes.value)
         IN IF bytes.ok /\ text.ok THEN Read(text.value, bytes.rest) ELSE Failed
    [] f.kind = "framed" ->
         LET bytes == Slice(f.max, first, rest)  inner == Finish(Decode(f.of, bytes.value))
         IN IF bytes.ok /\ inner.ok THEN Read(inner.value, bytes.rest) ELSE Failed
    [] f.kind = "list"   ->
         IF first > f.max THEN Failed
         ELSE FoldLeft(LAMBDA read, i : ReadOn(f.of, read), Read(<<>>, rest),
                       [i \in 1 .. first |-> i])
    [] f.kind = "option" ->
         CASE first > 1 -> Failed
           [] first = 0 -> Read(<<>>, rest)
           [] OTHER     -> ReadOn(f.of, Read(<<>>, rest))
    [] OTHER ->
         LET body == Decode(f.of[first], rest)
         IN IF first \in DOMAIN f.of /\ body.ok
            THEN Read([tag |-> first, body |-> body.value], body.rest) ELSE Failed

Decode(f, b) ==
  CASE f.kind = "sized"  -> IF Len(b) > f.max THEN Failed ELSE Decode(f.of, b)
    [] f.kind = "fields" -> FoldLeft(LAMBDA read, field : ReadOn(field, read), Read(<<>>, b), f.of)
    [] OTHER             -> IF b = <<>> THEN Failed ELSE DecodeField(f, Head(b), Tail(b))

DecodeWhole(f, b) == Finish(Decode(f, b))
=============================================================================
