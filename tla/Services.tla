------------------------------ MODULE Services ------------------------------
(***************************************************************************)
(* wiretest/services.py and wiretest/alarm.py: the requests, values and    *)
(* decoders beyond ReadProperty and WriteProperty.  A decoder is written   *)
(* over the tags of the APDU, each with its place among them and its depth *)
(* (how many constructed values it is inside), which is what the loops of  *)
(* the source keep track of with positions and counters.                   *)
(***************************************************************************)
EXTENDS Apdu

\* Tags with their index and depth; one that raises has neither.
Placed(tag, at, depth) ==
    IF tag.kind = "raise" THEN tag
    ELSE [number |-> tag.number, context |-> tag.context, kind |-> tag.kind, body |-> tag.body,
          start |-> tag.start, next |-> tag.next, at |-> at, depth |-> depth]
Structured(data, from) ==
    LET tags == Tags(data, from)
    IN  [i \in 1..Len(tags) |-> Placed(tags[i], i, Nesting(tags, 1, i - 1))]
Broken(tags) == \E i \in 1..Len(tags) : tags[i].kind = "raise"
TopLevel == {0}
AnyDepth == Nat

\* The last primitive [number] in a..b at one of the depths, as its octets.
Field(tags, a, b, depths, number) ==
    LET found == {i \in a..b : IsValue(tags[i], number) /\ tags[i].depth \in depths}
    IN  IF found = {} THEN None ELSE Some(tags[Max(found)].body)
\* The field as what it stands for, if it is there.
Mapped(option, value) == IF Given(option) THEN Some(value) ELSE None
Number(option) == Mapped(option, FromBytes(option[1]))
Truth(option) == Mapped(option, FromBytes(option[1]) # 0)
ObjectIdentifier(option) == Mapped(option, AsObject(option[1]))
BitString(option) == Mapped(option, Bits(option[1]))
TextOf(option) == Mapped(option, Tail(option[1]))

\* The end of the k-th element's tags, when each starts with a tag of starts.
LastOf(tags, starts, k) == IF k = Len(starts) THEN Len(tags) ELSE starts[k + 1].at - 1

-----------------------------------------------------------------------------
(* Requests and values                                                     *)

read_property_multiple_request(id, specs) ==
    confirmed_request(id, SERVICE_READ_PROPERTY_MULTIPLE, FlattenSeq(
        [i \in 1..Len(specs) |-> read_access_specification(specs[i])]))
read_range_request(id, object, property, range) ==
    confirmed_request(id, 26, Reference(object, property, None)
        \o Optional(range, Enclosed(3, application_unsigned(range[1][1]) \o application_signed(range[1][2]))))
create_object_request(id, type, instance, initial_values) ==
    confirmed_request(id, 10,
        Enclosed(0, IF Given(instance) THEN context_object_id(1, <<type, instance[1]>>)
                    ELSE context_unsigned(0, type))
        \o IF initial_values = <<>> THEN <<>>
           ELSE Enclosed(1, FlattenSeq([i \in 1..Len(initial_values) |->
                    context_unsigned(0, initial_values[i].property)
                    \o Enclosed(2, initial_values[i].value)])))
delete_object_request(id, object) == confirmed_request(id, 11, application_object_id(object))
atomic_read_file_request(id, file, start, count) ==
    confirmed_request(id, 6, application_object_id(<<10, file>>)
        \o Enclosed(0, application_signed(start) \o application_unsigned(count)))
atomic_write_file_request(id, file, start, data) ==
    confirmed_request(id, 7, application_object_id(<<10, file>>)
        \o Enclosed(0, application_signed(start) \o application_octet_string(data)))
CovSubscription(spec) ==
    context_object_id(0, spec.object) \o Enclosed(1, FlattenSeq(
        [i \in 1..Len(spec.properties) |-> Enclosed(0, context_unsigned(0, spec.properties[i]))
                                           \o context_boolean(2, FALSE)]))
\* A cancellation has no lifetime and no delay.
subscribe_cov_property_multiple_request(id, process, confirmed, lifetime, specs) ==
    confirmed_request(id, 30, context_unsigned(0, process) \o context_boolean(1, confirmed)
        \o Optional(lifetime, context_unsigned(2, lifetime[1]) \o context_unsigned(3, 0))
        \o Enclosed(4, FlattenSeq([i \in 1..Len(specs) |-> CovSubscription(specs[i])])))
life_safety_operation_request(id, process, source, operation, object) ==
    confirmed_request(id, 27, context_unsigned(0, process) \o context_character_string(1, source)
        \o context_enumerated(2, operation) \o Optional(object, context_object_id(3, object[1])))

\* A call is [floor, direction, destination, floor_text], with a direction or
\* a destination.
landing_call_status(call) ==
    context_unsigned(0, call.floor)
    \o Optional(call.direction, context_enumerated(1, call.direction[1]))
    \o Optional(call.destination, context_unsigned(2, call.destination[1]))
    \o Optional(call.floor_text, context_character_string(3, call.floor_text[1]))
lighting_command(c) ==
    context_enumerated(0, c.operation)
    \o Optional(c.target_level, context_real(1, c.target_level[1]))
    \o Optional(c.ramp_rate, context_real(2, c.ramp_rate[1]))
    \o Optional(c.step_increment, context_real(3, c.step_increment[1]))
    \o Optional(c.fade_time, context_unsigned(4, c.fade_time[1]))
    \o Optional(c.priority, context_unsigned(5, c.priority[1]))

\* A time stamp is a pair <<date octets, time octets>>.
context_date_time(tag, stamp) ==
    Enclosed(tag, Enclosed(2, Application(10, 4) \o stamp[1] \o Application(11, 4) \o stamp[2]))
destination(mac, process, confirmed, transitions) ==
    application_bit_string([i \in 1..7 |-> TRUE])
    \o application_time(<<0, 0, 0, 0>>) \o application_time(<<23, 59, 59, 99>>)
    \o Enclosed(1, application_unsigned(0) \o StringHeader(Application(6, 0)[1], mac) \o mac)
    \o application_unsigned(process) \o application_boolean(confirmed)
    \o application_bit_string(transitions)
acknowledge_alarm_request(id, process, object, state, stamp, source, time) ==
    confirmed_request(id, 0, context_unsigned(0, process) \o context_object_id(1, object)
        \o context_enumerated(2, state) \o context_date_time(3, stamp)
        \o context_character_string(4, source) \o context_date_time(5, time))
get_event_information_request(id, last_received) ==
    confirmed_request(id, 29, Optional(last_received, context_object_id(0, last_received[1])))
device_communication_control_request(id, enable_disable, password, minutes) ==
    confirmed_request(id, 17, Optional(minutes, context_unsigned(0, minutes[1]))
        \o context_enumerated(1, enable_disable)
        \o Optional(password, context_character_string(2, password[1])))
time_synchronization(date, time) ==
    <<16 * PDU_UNCONFIRMED_REQUEST, 6>> \o application_date(date) \o application_time(time)

NOTIFY_TYPE_ACK_NOTIFICATION == 2
\* An ACK_NOTIFICATION carries no ack-required, from-state or event values.
event_notification(e) ==
    LET parameters ==
          context_unsigned(0, e.process_identifier) \o context_object_id(1, e.initiating_device)
          \o context_object_id(2, e.event_object) \o context_date_time(3, e.time_stamp)
          \o context_unsigned(4, e.notification_class) \o context_unsigned(5, e.priority)
          \o context_enumerated(6, 5)
          \o Optional(e.message_text, context_character_string(7, e.message_text[1]))
          \o context_enumerated(8, e.notify_type)
          \o IF e.notify_type = NOTIFY_TYPE_ACK_NOTIFICATION THEN context_enumerated(11, e.to_state)
             ELSE context_boolean(9, e.ack_required) \o context_enumerated(10, e.from_state)
                  \o context_enumerated(11, e.to_state)
                  \o Enclosed(12, Enclosed(5, context_real(0, e.exceeding_value)
                       \o context_bit_string(1, <<e.to_state # 0, FALSE, FALSE, FALSE>>)
                       \o context_real(2, <<63, 128, 0, 0>>) \o context_real(3, e.exceeded_limit)))
    IN  IF e.confirmed THEN confirmed_request(e.invoke_id, 2, parameters)
        ELSE <<16 * PDU_UNCONFIRMED_REQUEST, 3>> \o parameters

-----------------------------------------------------------------------------
(* Decoders of answers                                                     *)

\* The answer is a ComplexACK, of the service if one is given.
IsComplexAck(frame, choice) ==
    IsPdu(frame, {PDU_COMPLEX_ACK}) /\ (Given(choice) => service(frame) = choice)

\* Results by <<object, property, array index>>: [value] or [class, code].
Entries(tags) ==
    {i \in 1..Len(tags) : tags[i].kind = "open" /\ tags[i].number \in {4, 5} /\ tags[i].depth = 1}
\* The index of the last property before, or the first index.
PropertyOf(tags, i) == Max({1} \cup {j \in 1..i : IsValue(tags[j], 2) /\ tags[j].depth = 1})
EntryKey(tags, i) ==
    <<AsObject(Field(tags, 1, i, {0}, 0)[1]), FromBytes(Field(tags, 1, i, {1}, 2)[1]),
      Number(Field(tags, PropertyOf(tags, i), i, {1}, 3))>>
EntryResult(apdu, tags, i) ==
    LET inner == Inside(apdu, tags, i)
    IN  IF tags[i].number = 4 THEN [value |-> inner]
        ELSE [error |-> [k \in 1..2 |-> FromBytes(application_values(inner)[k].body)]]
ResultsOf(apdu, tags) ==
    LET entries == Entries(tags)
    IN  [key \in {EntryKey(tags, i) : i \in entries} |->
            EntryResult(apdu, tags, Max({i \in entries : EntryKey(tags, i) = key}))]
\* Mutant: a value cut short is kept as far as it goes.
MutUnclosedKept(tags) == FALSE
Unclosed(tags) == \E i \in Entries(tags) : ClosedBy(tags, i) = 0
MultipleAck(apdu, tags) ==
    IF Broken(tags) \/ Unclosed(tags)
       \/ \E i \in 1..Len(tags) : IsValue(tags[i], 0) /\ tags[i].depth = 0 /\ Len(tags[i].body) # 4
    THEN None ELSE Some(ResultsOf(apdu, tags))
parse_read_property_multiple_ack(frame) ==
    IF IsComplexAck(frame, Some(SERVICE_READ_PROPERTY_MULTIPLE))
    THEN MultipleAck(frame.payload, Structured(frame.payload, 4)) ELSE None

RangeAck(apdu, tags) ==
    LET n == Len(tags)
        data == {i \in 1..n : IsOpen(tags[i], 5) /\ tags[i].depth = 0}
        flags == Field(tags, 1, n, TopLevel, 3)
    IN  IF Broken(tags) THEN None
        ELSE Some([result_flags |-> Mapped(flags,
                       decode_application(Application(8, Len(flags[1])) \o flags[1])[1]),
                   item_count |-> Number(Field(tags, 1, n, TopLevel, 4)),
                   item_data |-> IF data = {} THEN <<>> ELSE Inside(apdu, tags, Max(data))])
parse_read_range_ack(frame) ==
    IF IsComplexAck(frame, Some(26))
    THEN RangeAck(frame.payload, Structured(frame.payload, 4)) ELSE None

\* The records of an Event Log; a notification with its top-level primitives.
FieldsOf(tags) ==
    LET F(number) == Field(tags, 1, Len(tags), TopLevel, number)
    IN  [process_identifier |-> IF Given(F(0)) THEN Number(F(0)) ELSE Some(0),
         initiating_device |-> ObjectIdentifier(F(1)), event_object |-> ObjectIdentifier(F(2)),
         from_state |-> Number(F(10)), to_state |-> Number(F(11))]
notification_fields(octets) == FieldsOf(Structured(octets, 1))
RecordsOf(item_data, tags) ==
    LET starts == SelectSeq(tags, LAMBDA tag : IsOpen(tag, 0) /\ tag.depth = 0)
        Record(i) ==
          LET stamped == ClosedBy(tags, i)
              datum == tags[stamped + 2]
              stamp == SubSeq(item_data, tags[i].next, tags[stamped].next - 1)
          IN  IF datum.number = 0 /\ datum.kind = "value"
              THEN [timestamp |-> stamp, kind |-> "status", log_status |-> datum.body]
              ELSE IF IsOpen(datum, 1)
              THEN [timestamp |-> stamp, kind |-> "notification",
                    fields |-> notification_fields(SubSeq(item_data, datum.next,
                                   tags[ClosedBy(tags, datum.at)].next - 1))]
              ELSE [timestamp |-> stamp, kind |-> "time-change"]
    IN  [k \in 1..Len(starts) |-> Record(starts[k].at)]
event_log_records(item_data) == RecordsOf(item_data, Structured(item_data, 1))

created_object_identifier(frame) ==
    IF IsComplexAck(frame, None) /\ application_tag(From(frame.payload, 4)) = Some(12)
    THEN decode_application(From(frame.payload, 4)) ELSE None
FileAck(tags) ==
    IF Len(tags) < 4 \/ Broken(tags) \/ ~IsOpen(tags[2], 0) THEN None
    ELSE Some([end_of_file |-> tags[1].body[1] # 0, start |-> FromSigned(tags[3].body),
               data |-> tags[4].body])
parse_atomic_read_file_ack(frame) ==
    IF IsComplexAck(frame, None) THEN FileAck(Slice(Tags(frame.payload, 4), 1, 4)) ELSE None
parse_atomic_write_file_ack(frame) ==
    LET tag == read_tag(frame.payload, 4)
    IN  IF IsComplexAck(frame, None) /\ IsValue(tag, 0) THEN Some(FromSigned(tag.body)) ELSE None

-----------------------------------------------------------------------------
(* Decoders of notifications and values                                    *)

IsRequest(frame, confirmed_choice, unconfirmed_choice) ==
    \/ IsPdu(frame, {PDU_CONFIRMED_REQUEST}) /\ service(frame) = Some(confirmed_choice)
    \/ IsPdu(frame, {PDU_UNCONFIRMED_REQUEST}) /\ service(frame) = Some(unconfirmed_choice)
is_cov_notification_multiple(frame) == IsRequest(frame, 31, 11)
is_event_notification(frame) == ~Given(frame.network_message) /\ IsRequest(frame, 2, 3)
Confirmed(frame) == IsPdu(frame, {PDU_CONFIRMED_REQUEST})
Parameters(frame) == From(frame.payload, IF Confirmed(frame) THEN 5 ELSE 3)

CovFields(frame, octets, tags) ==
    LET n == Len(tags)
        opened == SelectSeq(tags, LAMBDA tag : IsOpen(tag, 2) /\ tag.depth = 2)
        Value(i) ==
          LET property == Max({j \in 1..i : IsValue(tags[j], 0) /\ tags[j].depth = 2})
          IN  [object |-> AsObject(Field(tags, 1, i, {1}, 0)[1]),
               property |-> FromBytes(tags[property].body),
               array_index |-> Number(Field(tags, property, i, {2}, 1)),
               value |-> Inside(octets, tags, i)]
    IN  [confirmed |-> Confirmed(frame),
         process_identifier |-> Number(Field(tags, 1, n, TopLevel, 0)),
         initiating_device |-> ObjectIdentifier(Field(tags, 1, n, TopLevel, 1)),
         time_remaining |-> Number(Field(tags, 1, n, TopLevel, 2)),
         values |-> [k \in 1..Len(opened) |-> Value(opened[k].at)]]
CovNotificationMultiple(frame) ==
    CovFields(frame, Parameters(frame), Structured(Parameters(frame), 1))

\* A BACnetTimeStamp choice at index i: the stamp, if it is a dateTime, and the
\* index after it.
read_time_stamp_choice(tags, i) ==
    IF IsOpen(tags[i], 2)
    THEN [stamp |-> Some(<<tags[i + 1].body, tags[i + 2].body>>), next |-> i + 4]
    ELSE [stamp |-> None,
          next |-> IF tags[i].kind = "open" THEN ClosedBy(tags, i) + 1 ELSE i + 1]

EventFields(frame, tags) ==
    LET F(number) == Field(tags, 1, Len(tags), TopLevel, number)
        stamped == SelectInSeq(tags, LAMBDA tag : IsOpen(tag, 3) /\ tag.depth = 0)
    IN  [confirmed |-> Confirmed(frame),
         invoke_id |-> IF Confirmed(frame) THEN invoke_id(frame) ELSE None,
         process_identifier |-> Number(F(0)), initiating_device |-> ObjectIdentifier(F(1)),
         event_object |-> ObjectIdentifier(F(2)),
         time_stamp |-> read_time_stamp_choice(tags, stamped + 1).stamp,
         notification_class |-> Number(F(4)), priority |-> Number(F(5)),
         event_type |-> Number(F(6)), notify_type |-> Number(F(8)),
         ack_required |-> Truth(F(9)),
         from_state |-> Number(F(10)), to_state |-> Number(F(11))]
EventNotification(frame) == EventFields(frame, Structured(Parameters(frame), 1))

SummariesOf(tags) ==
    LET starts == SelectSeq(tags, LAMBDA tag : IsValue(tag, 0) /\ tag.depth = 1)
        Summary(k) ==
          LET a == starts[k].at
              b == LastOf(tags, starts, k)
              F(number) == Field(tags, a, b, {1}, number)
              Opened(number) == CHOOSE i \in a..b : IsOpen(tags[i], number) /\ tags[i].depth = 1
              first == read_time_stamp_choice(tags, Opened(3) + 1)
              second == read_time_stamp_choice(tags, first.next)
              third == read_time_stamp_choice(tags, second.next)
          IN  [object |-> AsObject(tags[a].body), event_state |-> Number(F(1)),
               acked_transitions |-> BitString(F(2)),
               time_stamps |-> <<first.stamp, second.stamp, third.stamp>>,
               notify_type |-> Number(F(4)), event_enable |-> BitString(F(5)),
               priorities |-> [i \in 1..(ClosedBy(tags, Opened(6)) - Opened(6) - 1) |->
                                  FromBytes(tags[Opened(6) + i].body)]]
    IN  [summaries |-> [k \in 1..Len(starts) |-> Summary(k)],
         more_events |-> Truth(Field(tags, 1, Len(tags), TopLevel, 1))]
parse_event_summaries(apdu) == SummariesOf(Structured(From(apdu, 4), 1))

LandingCalls(tags) ==
    LET starts == SelectSeq(tags, LAMBDA tag : IsValue(tag, 0))
        Call(k) ==
          LET F(number) == Field(tags, starts[k].at, LastOf(tags, starts, k), AnyDepth, number)
          IN  [floor |-> FromBytes(starts[k].body), direction |-> Number(F(1)),
               destination |-> Number(F(2)), floor_text |-> TextOf(F(3))]
    IN  [k \in 1..Len(starts) |-> Call(k)]
decode_landing_calls(octets) == LandingCalls(Structured(octets, 1))
LightingCommand(tags) ==
    LET F(number) == Field(tags, 1, Len(tags), AnyDepth, number)
    IN  [operation |-> Number(F(0)), target_level |-> F(1), ramp_rate |-> F(2),
         step_increment |-> F(3), fade_time |-> Number(F(4)), priority |-> Number(F(5))]
decode_lighting_command(octets) == LightingCommand(Structured(octets, 1))
=============================================================================
