---------------------------- MODULE AddressCodec ----------------------------
(***************************************************************************)
(* Addresses of transaction outputs, per chain (chains/*/src): the bytes   *)
(* an output script is indexed under, and the text those bytes have in     *)
(* REST requests and answers.  A script has a kind and an opaque payload   *)
(* of some length; bytes are the leading bytes that say what follows, and  *)
(* the payload; text is the encoding and what was encoded.                 *)
(***************************************************************************)
EXTENDS Integers, Sequences

TAG_SEGWIT == 176
TAG_OP_RETURN == 240
TAG_NON_ADDR == 255

Bytes(head, len, id) == [head |-> head, len |-> len, id |-> id]

NoBytes == Bytes(<<>>, 0, 0)

Length(b) == Len(b.head) + b.len

\* Encodings: base58 with a checksum, bech32 under a prefix, a plain word; the
\* decoder of the library finds out the witness version by itself.
Text(enc, hrp, bytes) == [enc |-> enc, hrp |-> hrp, bytes |-> bytes]

Err == Text("error", "", NoBytes)

\* What the libraries recognise in a script (external): its kind, the witness
\* version and the length of the payload.
Scripts ==
  [kind : {"p2pkh", "p2sh"}, ver : {0}, len : {20}, id : {1, 2}]
    \cup [kind : {"witness"}, ver : {0, 1, 2}, len : {20, 31, 32}, id : {1, 2}]
    \cup [kind : {"op_return", "other"}, ver : {0}, len : {0, 28, 56}, id : {1, 2}]

-----------------------------------------------------------------------------
(* Bitcoin *)

Tag(s) == Bytes(<<IF s.kind = "op_return" THEN TAG_OP_RETURN ELSE TAG_NON_ADDR>>, 0, 0)

SegwitBytes(s) ==
  IF s.len \in {20, 32} THEN Bytes(<<TAG_SEGWIT, s.ver>>, s.len, s.id)
  ELSE Bytes(<<TAG_NON_ADDR>>, 0, 0)

\* Mutant: the witness version is left out.
SpkNoVersion(s) ==
  CASE s.kind = "p2pkh"   -> Bytes(<<0>>, 20, s.id)
    [] s.kind = "p2sh"    -> Bytes(<<5>>, 20, s.id)
    [] s.kind = "witness" -> SegwitBytes([s EXCEPT !.ver = 0])
    [] OTHER              -> Tag(s)

btc_spk_to_address_bytes_or_tag(s) ==
  CASE s.kind = "p2pkh"   -> Bytes(<<0>>, 20, s.id)
    [] s.kind = "p2sh"    -> Bytes(<<5>>, 20, s.id)
    [] s.kind = "witness" -> SegwitBytes(s)
    [] OTHER              -> Tag(s)

Segwit(b) == Length(b) >= 3 /\ b.head[1] = TAG_SEGWIT

Legacy(b, versions) == Length(b) = 21 /\ b.head # <<>> /\ b.head[1] \in versions

btc_serialize_as(b) ==
  IF Segwit(b)
  THEN IF b.head[2] <= 16 /\ b.len \in {20, 32} THEN Text("bech32", "bc", b) ELSE Err
  ELSE IF Legacy(b, {0, 5}) THEN Text("base58", "", b) ELSE Err

\* Mutant: a script hash address is taken for a foreign one.
DeserializePubkeyHashOnly(t) ==
  IF t.enc = "bech32" /\ t.hrp \in {"bc", "tb", "bcrt"}
  THEN IF t.bytes.len \in {20, 32} THEN t.bytes ELSE NoBytes
  ELSE IF t.enc = "base58" /\ Legacy(t.bytes, {0}) THEN t.bytes ELSE NoBytes

\* A text that is no address is refused; NoBytes stands for the error.
btc_deserialize_as(t) ==
  IF t.enc = "bech32" /\ t.hrp \in {"bc", "tb", "bcrt"}
  THEN IF t.bytes.len \in {20, 32} THEN t.bytes ELSE NoBytes
  ELSE IF t.enc = "base58" /\ Legacy(t.bytes, {0, 5}) THEN t.bytes ELSE NoBytes

-----------------------------------------------------------------------------
(* Litecoin: other version bytes; only witness versions 0 and 1 have a text. *)

ltc_spk_to_address_bytes_or_tag(s) ==
  CASE s.kind = "p2pkh"   -> Bytes(<<48>>, 20, s.id)
    [] s.kind = "p2sh"    -> Bytes(<<50>>, 20, s.id)
    [] s.kind = "witness" -> SegwitBytes(s)
    [] OTHER              -> Tag(s)

ltc_serialize_as(b) ==
  IF Segwit(b)
  THEN IF b.head[2] \in {0, 1} /\ b.len \in {20, 32} THEN Text("bech32", "ltc", b) ELSE Err
  ELSE IF Legacy(b, {48, 50}) THEN Text("base58", "", b) ELSE Err

ltc_deserialize_as(t) ==
  IF t.enc = "bech32" /\ t.hrp \in {"ltc", "tltc"}
  THEN IF t.bytes.len \in {20, 32} /\ t.bytes.head[2] <= 16 THEN t.bytes ELSE NoBytes
  ELSE IF t.enc = "base58" /\ Legacy(t.bytes, {48, 50}) THEN t.bytes ELSE NoBytes

-----------------------------------------------------------------------------
(* Bitcoin Cash: no witness programs, legacy addresses only. *)

bch_spk_to_address_bytes_or_tag(s) ==
  CASE s.kind = "p2pkh" -> Bytes(<<0>>, 20, s.id)
    [] s.kind = "p2sh"  -> Bytes(<<5>>, 20, s.id)
    [] OTHER            -> Tag(s)

bch_serialize_as(b) == IF Legacy(b, {0, 5}) THEN Text("base58", "", b) ELSE Err

bch_deserialize_as(t) ==
  IF t.enc = "base58" /\ Legacy(t.bytes, {0, 5}) THEN t.bytes ELSE NoBytes

-----------------------------------------------------------------------------
(* Ergo and Cardano: the bytes of the address, none when the output has no   *)
(* address.                                                                  *)

\* The leading byte of an address says its kind and network (external).
HeaderByte(s) ==
  CASE s.kind = "p2pkh" -> 1 [] s.kind = "p2sh" -> 2 [] s.kind = "witness" -> 16 + s.ver
    [] OTHER -> 3

ergo_address(s) == IF s.kind = "op_return" THEN NoBytes ELSE Bytes(<<HeaderByte(s)>>, s.len, s.id)

cardano_address(s) == IF s.kind = "op_return" THEN NoBytes ELSE Bytes(<<HeaderByte(s)>>, s.len, s.id)

ergo_serialize_as(b) == IF b = NoBytes THEN Text("plain", "EMPTY", b) ELSE Text("base58", "", b)

ergo_deserialize_as(t) == IF t.enc = "plain" /\ t.hrp = "EMPTY" THEN NoBytes ELSE t.bytes

cardano_serialize_as(b) ==
  IF Length(b) \in 20 .. 32 THEN Text("bech32", "addr", b) ELSE Text("base58", "", b)

cardano_deserialize_as(t) == IF t.enc \in {"bech32", "base58"} THEN t.bytes ELSE NoBytes

-----------------------------------------------------------------------------
AddressBytes(chain, s) ==
  CASE chain = "btc"  -> btc_spk_to_address_bytes_or_tag(s)
    [] chain = "ltc"  -> ltc_spk_to_address_bytes_or_tag(s)
    [] chain = "bch"  -> bch_spk_to_address_bytes_or_tag(s)
    [] chain = "ergo" -> ergo_address(s)
    [] OTHER          -> cardano_address(s)

AddressText(chain, b) ==
  CASE chain = "btc"  -> btc_serialize_as(b)
    [] chain = "ltc"  -> ltc_serialize_as(b)
    [] chain = "bch"  -> bch_serialize_as(b)
    [] chain = "ergo" -> ergo_serialize_as(b)
    [] OTHER          -> cardano_serialize_as(b)

AddressFromText(chain, t) ==
  CASE chain = "btc"  -> btc_deserialize_as(t)
    [] chain = "ltc"  -> ltc_deserialize_as(t)
    [] chain = "bch"  -> bch_deserialize_as(t)
    [] chain = "ergo" -> ergo_deserialize_as(t)
    [] OTHER          -> cardano_deserialize_as(t)

\* Bytes that only say that the output has no address.
IsTag(b) == b.head \in {<<TAG_OP_RETURN>>, <<TAG_NON_ADDR>>} \/ b = NoBytes

\* A text found in an answer leads back to the same rows: it parses to the very
\* bytes the output is indexed under.
RoundTrips(chain, s) ==
  LET b == AddressBytes(chain, s)
      t == AddressText(chain, b)
  IN  t # Err => AddressFromText(chain, t) = b

\* Outputs of different addresses are never indexed under the same bytes.
Told(chain, s, other) ==
  LET b == AddressBytes(chain, s)
  IN  b = AddressBytes(chain, other) /\ ~IsTag(b)
        => s.kind = other.kind /\ s.ver = other.ver /\ s.id = other.id /\ s.len = other.len
=============================================================================
