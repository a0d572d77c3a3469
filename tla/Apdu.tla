-------------------------------- MODULE Apdu --------------------------------
(***************************************************************************)
(* wiretest/codec.py: the APDUs every client and peer of the wire tests    *)
(* exchanges, the tag reader (clause 20.2.1) and the parsers built on it.  *)
(* A parser walks the tags of an APDU in order; skipping a constructed     *)
(* value is skipping tags up to the matching closing one.                  *)
(***************************************************************************)
EXTENDS Codec

confirmed_request(id, choice, parameters) == <<0, 5, id, choice>> \o parameters
simple_ack(id, choice) == <<16 * PDU_SIMPLE_ACK, id, choice>>
complex_ack(id, choice, parameters) == <<16 * PDU_COMPLEX_ACK, id, choice>> \o parameters
error_pdu(id, choice, error_class, error_code) ==
    <<16 * PDU_ERROR, id, choice>> \o application_enumerated(error_class)
                                   \o application_enumerated(error_code)
reject_pdu(id, reason) == <<16 * PDU_REJECT, id, reason>>
abort_pdu(id, reason) == <<16 * PDU_ABORT + 1, id, reason>>

\* A property reference: object [0], property [1], array index [2].
Reference(object, property, array_index) ==
    context_object_id(0, object) \o context_unsigned(1, property)
    \o Optional(array_index, context_unsigned(2, array_index[1]))

read_property_request(id, object, property, array_index) ==
    confirmed_request(id, SERVICE_READ_PROPERTY, Reference(object, property, array_index))
read_property_ack(id, object, property, array_index, value) ==
    complex_ack(id, SERVICE_READ_PROPERTY,
                Reference(object, property, array_index) \o Enclosed(3, value))
write_property_request(id, object, property, value, priority, array_index) ==
    confirmed_request(id, SERVICE_WRITE_PROPERTY,
        Reference(object, property, array_index) \o Enclosed(3, value)
        \o Optional(priority, context_unsigned(4, priority[1])))
list_element_request(id, choice, object, property, elements) ==
    confirmed_request(id, choice,
        Reference(object, property, None) \o Enclosed(3, FlattenSeq(elements)))
reinitialize_device_request(id, state, password) ==
    confirmed_request(id, 20, context_unsigned(0, state)
        \o Optional(password, context_character_string(1, password[1])))

who_is(limits) ==
    <<16 * PDU_UNCONFIRMED_REQUEST, SERVICE_WHO_IS>>
    \o Optional(limits, context_unsigned(0, limits[1][1]) \o context_unsigned(1, limits[1][2]))
i_am(instance, vendor) ==
    <<16 * PDU_UNCONFIRMED_REQUEST, SERVICE_I_AM>>
    \o application_object_id(<<OBJECT_TYPE_DEVICE, instance>>) \o application_unsigned(1476)
    \o application_enumerated(3) \o application_unsigned(vendor)

\* A specification is [object, references], each reference [property, array_index].
PropertyReference(r) ==
    context_unsigned(0, r.property) \o Optional(r.array_index, context_unsigned(1, r.array_index[1]))
read_access_specification(spec) ==
    context_object_id(0, spec.object) \o Enclosed(1, FlattenSeq(
        [i \in 1..Len(spec.references) |-> PropertyReference(spec.references[i])]))
\* A result is [object, properties], each property [property, value] with no
\* value for one the device does not have.
PropertyResult(p) ==
    context_unsigned(2, p.property) \o
        IF Given(p.value) THEN Enclosed(4, p.value[1])
        ELSE Enclosed(5, application_enumerated(ERROR_CLASS_PROPERTY)
                         \o application_enumerated(ERROR_CODE_UNKNOWN_PROPERTY))
ReadAccessResult(r) ==
    context_object_id(0, r.object) \o Enclosed(1, FlattenSeq(
        [i \in 1..Len(r.properties) |-> PropertyResult(r.properties[i])]))
read_property_multiple_ack(id, results) ==
    complex_ack(id, SERVICE_READ_PROPERTY_MULTIPLE, FlattenSeq(
        [i \in 1..Len(results) |-> ReadAccessResult(results[i])]))
\* A change is [channel, value, priority].
ChangeListEntry(c) ==
    context_unsigned(0, c.channel) \o Optional(c.priority, context_unsigned(1, c.priority[1])) \o c.value
write_group_request(group, priority, changes, inhibit_delay) ==
    <<16 * PDU_UNCONFIRMED_REQUEST, 10>> \o context_unsigned(0, group)
    \o context_unsigned(1, priority)
    \o Enclosed(2, FlattenSeq([i \in 1..Len(changes) |-> ChangeListEntry(changes[i])]))
    \o Optional(inhibit_delay, context_boolean(3, inhibit_delay[1]))

-----------------------------------------------------------------------------
(* The tag reader                                                          *)

\* What read_tag raises on: an octet it needs is not there.
Raised == [kind |-> "raise"]

LongMarker == 254
ValueInHeader(number, context) == ~context /\ number = 1

read_tag(data, position) ==
    LET first    == data[position]
        extended == first \div 16 = 15
        context  == Bit(first, 8)
        after    == position + (IF extended THEN 2 ELSE 1)
        number   == IF extended THEN data[position + 1] ELSE first \div 16
        kind     == IF context /\ first % 8 = 6 THEN "open"
                    ELSE IF context /\ first % 8 = 7 THEN "close" ELSE "value"
        \* octets of the length, and of the part that follows a marker
        lengths  == IF kind = "value" /\ first % 8 = 5 THEN 1 ELSE 0
        wide     == IF lengths = 0 \/ after > Len(data) THEN 0
                    ELSE IF data[after] = LongMarker THEN 2
                    ELSE IF data[after] = 255 THEN 4 ELSE 0
        start    == after + lengths + wide
        length   == IF kind # "value" THEN 0
                    ELSE IF wide > 0 THEN FromBytes(SubSeq(data, after + 1, after + wide))
                    ELSE IF lengths = 1 THEN data[after] ELSE first % 8
    IN  IF position > Len(data) \/ after + lengths + wide > Len(data) + 1 THEN Raised
        ELSE IF ValueInHeader(number, context)
             THEN [number |-> number, context |-> FALSE, kind |-> "value",
                   body |-> <<length>>, start |-> position, next |-> start]
        ELSE [number |-> number, context |-> context, kind |-> kind,
              body |-> Slice(data, start, start + length - 1),
              start |-> position, next |-> start + length]

\* The tags from a position to the end of the data, up to one that raises.
Tags(data, from) ==
    LET walk[p \in Nat \ {0}] ==
          IF p > Len(data) THEN <<>>
          ELSE LET tag == read_tag(data, p)
               IN  IF tag.kind = "raise" THEN <<tag>> ELSE <<tag>> \o walk[tag.next]
    IN  walk[from]

IsValue(tag, number) == tag.kind = "value" /\ tag.context /\ tag.number = number
IsOpen(tag, number) == tag.kind = "open" /\ tag.number = number

\* The index of the tag that closes the value whose opening tag is at index i,
\* or 0 when the tags end before it.
Nesting(tags, i, j) ==
    Cardinality({k \in i..j : tags[k].kind = "open"})
    - Cardinality({k \in i..j : tags[k].kind = "close"})
ClosedBy(tags, i) ==
    LET closes == {j \in i..Len(tags) : Nesting(tags, i, j) = 0}
    IN  IF closes = {} THEN 0 ELSE Min(closes)
\* What the opening tag at index i encloses, up to the end if nothing closes it.
Inside(data, tags, i) ==
    SubSeq(data, tags[i].next, IF ClosedBy(tags, i) = 0 THEN Len(data)
                               ELSE tags[ClosedBy(tags, i)].start - 1)

-----------------------------------------------------------------------------
(* Parsers                                                                 *)

\* The value of a ReadProperty-ACK: what its first [3] encloses.  (Where nothing
\* closes it the code raises; no such APDU is cut in the model.)
read_property_value(apdu) ==
    LET tags == Tags(apdu, 4)
        i == SelectInSeq(tags, LAMBDA tag : IsOpen(tag, 3))
    IN  IF i = 0 THEN None ELSE Some(Inside(apdu, tags, i))

ReadRequest(tags) ==
    IF Len(tags) < 2 \/ Raised \in ToSet(tags) \/ Len(tags[1].body) # 4 THEN None
    ELSE Some([object |-> AsObject(tags[1].body), property |-> FromBytes(tags[2].body),
               array_index |-> IF Len(tags) > 2 /\ IsValue(tags[3], 2)
                               THEN Some(FromBytes(tags[3].body)) ELSE None])
parse_read_property_request(apdu) == ReadRequest(Slice(Tags(apdu, 5), 1, 3))

WriteRequest(apdu, tags) ==
    LET indexed == tags[3].kind = "value" /\ tags[3].number = 2
        open == IF indexed THEN 4 ELSE 3
        close == ClosedBy(tags, open)
    IN  IF \/ apdu[1] \div 16 # PDU_CONFIRMED_REQUEST \/ apdu[4] # SERVICE_WRITE_PROPERTY
           \/ Raised \in ToSet(tags) \/ Len(tags) < 4 \/ Len(tags[1].body) # 4 \/ close = 0
        THEN None
        ELSE Some([object |-> AsObject(tags[1].body), property |-> FromBytes(tags[2].body),
                   array_index |-> IF indexed THEN Some(FromBytes(tags[3].body)) ELSE None,
                   value |-> Inside(apdu, tags, open),
                   priority |-> IF close < Len(tags) THEN Some(FromBytes(tags[close + 1].body))
                                ELSE None])
parse_write_property_request(apdu) == WriteRequest(apdu, Tags(apdu, 5))

application_elements(octets) ==
    LET tags == Tags(octets, 1)
    IN  [i \in 1..Len(tags) |-> Slice(octets, tags[i].start, tags[i].next - 1)]
\* The primitives among tags, of the classes that count, in their order.
ValuesAmong(tags, contexts) ==
    LET upTo[i \in 0..Len(tags)] ==
          IF i = 0 THEN <<>>
          ELSE IF tags[i].kind = "value" /\ tags[i].context \in contexts
          THEN Append(upTo[i - 1], tags[i]) ELSE upTo[i - 1]
    IN  upTo[Len(tags)]
application_values(octets) == ValuesAmong(Tags(octets, 1), {FALSE})
application_tag(octets) ==
    IF octets = <<>> \/ read_tag(octets, 1).context THEN None
    ELSE Some(read_tag(octets, 1).number)
error_class_and_code(apdu) ==
    LET values == application_values(From(apdu, 4))
    IN  IF Len(values) < 2 THEN None
        ELSE Some(<<FromBytes(values[1].body), FromBytes(values[2].body)>>)
i_am_device_instance(apdu) ==
    LET tag == read_tag(apdu, 3)
        object == AsObject(tag.body)
    IN  IF Len(apdu) < 7 \/ apdu[1] \div 16 # PDU_UNCONFIRMED_REQUEST \/ apdu[2] # SERVICE_I_AM
           \/ tag.context \/ tag.number # 12 \/ Len(tag.body) # 4
           \/ object[1] # OBJECT_TYPE_DEVICE
        THEN None ELSE Some(object[2])

\* The Python value of one application-tagged primitive; None for NULL too.
decode_application(octets) ==
    LET tag == read_tag(octets, 1)
    IN  IF octets = <<>> \/ tag.context \/ tag.kind # "value" \/ tag.number = 0 THEN None
        ELSE Some(CASE tag.number = 1 -> tag.body[1] # 0
                    [] tag.number \in {2, 9} -> FromBytes(tag.body)
                    [] tag.number = 3 -> FromSigned(tag.body)
                    [] tag.number = 7 -> Tail(tag.body)
                    [] tag.number = 8 -> Bits(tag.body)
                    [] tag.number = 12 -> AsObject(tag.body)
                    [] OTHER -> tag.body)
decoded_values(octets) ==
    LET values == application_values(octets)
    IN  [i \in 1..Len(values) |->
            decode_application(SubSeq(octets, values[i].start, values[i].next - 1))]

\* The objects of a list of ReadAccessSpecifications, in order, each with the
\* properties asked of it; array indexes are skipped, and an object named
\* again starts over.
SpecificationStep(s, tag) ==
    IF IsValue(tag, 0) /\ ~Given(s.current) /\ Len(tag.body) = 4
    THEN LET object == AsObject(tag.body)
         IN  [current |-> Some(object),
              order |-> IF Contains(s.order, object) THEN s.order ELSE Append(s.order, object),
              members |-> [o \in DOMAIN s.members \cup {object} |->
                              IF o = object THEN <<>> ELSE s.members[o]]]
    ELSE IF IsValue(tag, 0) /\ Given(s.current)
    THEN [s EXCEPT !.members[s.current[1]] = Append(@, FromBytes(tag.body))]
    ELSE IF tag.kind = "close" /\ tag.number = 1 THEN [s EXCEPT !.current = None]
    ELSE s
SpecificationsRead(tags) ==
    LET after[i \in 0..Len(tags)] ==
          IF i = 0 THEN [current |-> None, order |-> <<>>, members |-> <<>>]
          ELSE SpecificationStep(after[i - 1], tags[i])
    IN  after[Len(tags)]
read_access_specifications(octets) ==
    LET read == SpecificationsRead(Tags(octets, 1))
    IN  [i \in 1..Len(read.order) |->
            [object |-> read.order[i], properties |-> read.members[read.order[i]]]]
=============================================================================
