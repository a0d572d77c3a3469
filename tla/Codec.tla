------------------------------- MODULE Codec -------------------------------
(***************************************************************************)
(* wiretest/codec.py: BACnet/IP frames by hand.  A datagram is a sequence  *)
(* of octets, as on the wire; positions count from 1.  The encoders keep   *)
(* the source's names.  A REAL is its four octets and a text its UTF-8     *)
(* octets (struct and str are Python's); an optional parameter is None or  *)
(* Some(value), and so is the result of a parser.                          *)
(***************************************************************************)
EXTENDS Integers, SequencesExt

None == <<>>
Some(x) == <<x>>
Given(x) == x # None
Optional(x, octets) == IF Given(x) THEN octets ELSE <<>>

Octet == 0..255
Octets == Seq(Octet)

\* data[from:to], which stops at the end of the data.
Slice(data, from, to) == SubSeq(data, from, Min({to, Len(data)}))
From(data, from) == SubSeq(data, from, Len(data))

\* int.to_bytes and int.from_bytes, big-endian.
ToBytes(value, n) == [i \in 1..n |-> (value \div 256^(n - i)) % 256]
Accumulated(octets, sign) ==
    LET upTo[i \in 0..Len(octets)] == IF i = 0 THEN sign ELSE 256 * upTo[i - 1] + octets[i]
    IN  upTo[Len(octets)]
FromBytes(octets) == Accumulated(octets, 0)
FromSigned(octets) == Accumulated(octets, IF octets[1] >= 128 THEN -1 ELSE 0)

MAX_INSTANCE == 4194303
OBJECT_TYPE_DEVICE == 8
PDU_CONFIRMED_REQUEST == 0
PDU_UNCONFIRMED_REQUEST == 1
PDU_SIMPLE_ACK == 2
PDU_COMPLEX_ACK == 3
PDU_ERROR == 5
PDU_REJECT == 6
PDU_ABORT == 7
SERVICE_READ_PROPERTY == 12
SERVICE_READ_PROPERTY_MULTIPLE == 14
SERVICE_WRITE_PROPERTY == 15
SERVICE_I_AM == 0
SERVICE_WHO_IS == 8
ERROR_CLASS_OBJECT == 1
ERROR_CLASS_PROPERTY == 2
ERROR_CODE_UNKNOWN_OBJECT == 31
ERROR_CODE_UNKNOWN_PROPERTY == 32
ERROR_CODE_INVALID_ARRAY_INDEX == 42

-----------------------------------------------------------------------------
(* Primitives                                                              *)

\* An object identifier is a pair <<type, instance>>.
object_id(object) == ToBytes(object[1] * (MAX_INSTANCE + 1) + object[2], 4)
AsObject(octets) ==
    LET raw == FromBytes(octets)
    IN  <<raw \div (MAX_INSTANCE + 1), raw % (MAX_INSTANCE + 1)>>

unsigned_octets(value) ==
    ToBytes(value, Min({n \in 1..3 : value < 256^n} \cup {4}))
\* Mutant: the sign bit is not reserved.
MutSignedShort(value) ==
    ToBytes(value, Min({n \in 1..3 : -(2^(8*n - 1)) <= value /\ value < 256^n} \cup {4}))
signed_octets(value) ==
    ToBytes(value, Min({n \in 1..3 : -(2^(8*n - 1)) <= value /\ value < 2^(8*n - 1)} \cup {4}))

\* A tag's first octet: number, class and length/value/type.
Context(tag, lvt) == <<16 * tag + 8 + lvt>>
Application(tag, lvt) == <<16 * tag + lvt>>
\* The header of a string, from its first octet with length 0: the length goes in
\* one more octet from 5 on.
StringHeader(first, body) ==
    IF Len(body) < 5 THEN <<first + Len(body)>> ELSE <<first + 5, Len(body)>>

opening(tag) == Context(tag, 6)
closing(tag) == Context(tag, 7)
Enclosed(tag, octets) == opening(tag) \o octets \o closing(tag)

context_unsigned(tag, value) ==
    LET body == unsigned_octets(value) IN Context(tag, Len(body)) \o body
context_enumerated(tag, value) == context_unsigned(tag, value)
context_signed(tag, value) ==
    LET body == signed_octets(value) IN Context(tag, Len(body)) \o body
context_object_id(tag, object) == Context(tag, 4) \o object_id(object)
context_octet_string(tag, octets) == StringHeader(Context(tag, 0)[1], octets) \o octets
\* Mutant: the length does not count the character set.
MutNoCharacterSet(tag, text) == StringHeader(Context(tag, 0)[1], text) \o <<0>> \o text
context_character_string(tag, text) ==
    LET body == <<0>> \o text IN StringHeader(Context(tag, 0)[1], body) \o body
context_real(tag, real) == Context(tag, 4) \o real
context_boolean(tag, value) == Context(tag, 1) \o <<IF value THEN 1 ELSE 0>>

application_null == Application(0, 0)
application_boolean(value) == Application(1, IF value THEN 1 ELSE 0)
application_unsigned(value) ==
    LET body == unsigned_octets(value) IN Application(2, Len(body)) \o body
application_signed(value) ==
    LET body == signed_octets(value) IN Application(3, Len(body)) \o body
application_real(real) == Application(4, 4) \o real
application_octet_string(octets) ==
    IF Len(octets) < 254 THEN StringHeader(Application(6, 0)[1], octets) \o octets
    ELSE Application(6, 5) \o <<254>> \o ToBytes(Len(octets), 2) \o octets
application_character_string(text) ==
    LET body == <<0>> \o text IN StringHeader(Application(7, 0)[1], body) \o body
application_enumerated(value) ==
    LET body == unsigned_octets(value) IN Application(9, Len(body)) \o body
application_date(date) == Application(10, 4) \o <<date[1] - 1900, date[2], date[3], date[4]>>
application_time(time) == Application(11, 4) \o time
application_object_id(object) == Application(12, 4) \o object_id(object)

\* Bit 0 is the most significant bit of the first octet after the count of
\* unused bits.
BitStringBody(bits) ==
    LET n == (Len(bits) + 7) \div 8
    IN  <<8 * n - Len(bits)>> \o
        [j \in 1..n |-> SumSet({2^(8 - k) : k \in {b \in 1..8 :
                               8 * (j - 1) + b <= Len(bits) /\ bits[8 * (j - 1) + b]}})]
application_bit_string(bits) ==
    LET body == BitStringBody(bits) IN Application(8, Len(body)) \o body
context_bit_string(tag, bits) ==
    LET body == BitStringBody(bits) IN Context(tag, Len(body)) \o body
\* Mutant: the unused bits are kept.
MutUnusedKept(body) ==
    [i \in 1..(8 * (Len(body) - 1)) |->
        (body[2 + (i - 1) \div 8] \div 2^(7 - ((i - 1) % 8))) % 2 = 1]
Bits(body) ==
    [i \in 1..(8 * (Len(body) - 1) - body[1]) |->
        (body[2 + (i - 1) \div 8] \div 2^(7 - ((i - 1) % 8))) % 2 = 1]

-----------------------------------------------------------------------------
(* The datagram: BVLC and NPDU                                             *)

bvll(function, body) == <<129, function>> \o ToBytes(4 + Len(body), 2) \o body
bvlc(octets, broadcast) == bvll(IF broadcast THEN 11 ELSE 10, octets)
forwarded_npdu(originating, octets) == bvll(4, originating \o octets)
distribute_broadcast_to_network(octets) == bvll(9, octets)
write_broadcast_distribution_table(entries) == bvll(1, FlattenSeq(entries))

\* How an NPDU is addressed: npdu()'s keywords.
Plain == [network_message |-> None, dnet |-> None, dadr |-> <<>>,
          snet |-> None, sadr |-> <<>>, expecting_reply |-> FALSE]
NetworkAddress(net, address) == ToBytes(net, 2) \o <<Len(address)>> \o address

npdu(payload, r) ==
    <<1, (IF Given(r.network_message) THEN 128 ELSE 0) + (IF Given(r.dnet) THEN 32 ELSE 0)
         + (IF Given(r.snet) THEN 8 ELSE 0) + (IF r.expecting_reply THEN 4 ELSE 0)>>
    \o Optional(r.dnet, NetworkAddress(r.dnet[1], r.dadr))
    \o Optional(r.snet, NetworkAddress(r.snet[1], r.sadr))
    \o Optional(r.dnet, <<255>>)
    \o r.network_message \o payload

Bit(octet, value) == (octet \div value) % 2 = 1

\* Frame._decode.  The octets of a datagram with an NPDU from offset on.
DecodeNpdu(octets) ==
    LET control == octets[2]
        dlen == IF Bit(control, 32) THEN 3 + octets[5] ELSE 0
        slen == IF Bit(control, 8) THEN 3 + octets[3 + dlen + 2] ELSE 0
        hop  == 3 + dlen + slen
        type == hop + (IF Bit(control, 32) THEN 1 ELSE 0)
        message == IF Bit(control, 128) THEN Some(octets[type]) ELSE None
        Net(at, length) == IF length = 0 THEN None ELSE Some(FromBytes(Slice(octets, at, at + 1)))
    IN  [dnet |-> Net(3, dlen), dadr |-> Slice(octets, 6, 2 + dlen),
         snet |-> Net(3 + dlen, slen), sadr |-> Slice(octets, 6 + dlen, 2 + dlen + slen),
         expecting_reply |-> Bit(control, 4), network_message |-> message,
         payload |-> From(octets, type + Len(message) +
                                  (IF Given(message) /\ message[1] >= 128 THEN 2 ELSE 0))]

\* The fields of a Frame without an NPDU.
NoNpdu == [dnet |-> None, dadr |-> <<>>, snet |-> None, sadr |-> <<>>,
           expecting_reply |-> FALSE, network_message |-> None, payload |-> <<>>]
NotOk == [ok |-> FALSE]
Frame(data) ==
    LET offset == IF data[2] = 4 THEN 11 ELSE 5
        octets == From(data, offset)
        has_npdu == data[2] \in {4, 9, 10, 11}
        n == IF has_npdu THEN DecodeNpdu(octets) ELSE NoNpdu
    IN  IF \/ Len(data) < 4 \/ data[1] # 129
           \/ has_npdu /\ (Len(octets) < 2 \/ octets[1] # 1)
        THEN NotOk
        ELSE [ok |-> TRUE, bvlc_function |-> data[2], bvll_data |-> From(data, 5),
              has_npdu |-> has_npdu, originating_mac |-> Slice(data, 5, offset - 1),
              dnet |-> n.dnet, dadr |-> n.dadr, snet |-> n.snet, sadr |-> n.sadr,
              expecting_reply |-> n.expecting_reply, network_message |-> n.network_message,
              payload |-> n.payload]

pdu_type(frame) ==
    IF Given(frame.network_message) \/ frame.payload = <<>> THEN None
    ELSE Some(frame.payload[1] \div 16)
IsPdu(frame, types) == Given(pdu_type(frame)) /\ pdu_type(frame)[1] \in types
Answers == {PDU_SIMPLE_ACK, PDU_COMPLEX_ACK, PDU_ERROR, PDU_REJECT, PDU_ABORT}
invoke_id(frame) ==
    IF IsPdu(frame, Answers) THEN Some(frame.payload[2])
    ELSE IF IsPdu(frame, {PDU_CONFIRMED_REQUEST}) /\ Len(frame.payload) > 2
         THEN Some(frame.payload[3]) ELSE None
service(frame) ==
    IF IsPdu(frame, {PDU_SIMPLE_ACK, PDU_COMPLEX_ACK, PDU_ERROR}) THEN Some(frame.payload[3])
    ELSE IF IsPdu(frame, {PDU_CONFIRMED_REQUEST}) /\ Len(frame.payload) > 3
         THEN Some(frame.payload[4])
    ELSE IF IsPdu(frame, {PDU_UNCONFIRMED_REQUEST}) /\ Len(frame.payload) > 1
         THEN Some(frame.payload[2]) ELSE None

\* The entries of a table read: ten octets each.
TableEntries(frame) ==
    [i \in 1..(Len(frame.bvll_data) \div 10) |-> SubSeq(frame.bvll_data, 10 * i - 9, 10 * i)]
bdt_entries(frame) == IF frame.bvlc_function = 3 THEN Some(TableEntries(frame)) ELSE None
networks(frame) ==
    [i \in 1..(Len(frame.payload) \div 2) |-> FromBytes(SubSeq(frame.payload, 2 * i - 1, 2 * i))]
=============================================================================
