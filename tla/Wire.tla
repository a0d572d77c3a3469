-------------------------------- MODULE Wire --------------------------------
(***************************************************************************)
(* The wire tests' messages end to end: built by the encoders, put in a    *)
(* datagram, received, decoded and, for a read, answered by the simulated  *)
(* device or server of peer.py and read back by the client.                *)
(*                                                                         *)
(* A message is a record [kind, id, p] with the parameters p of its        *)
(* encoder.  External: the answers and notifications of an example, which  *)
(* only decoders of the wire tests meet; a router, which relays a datagram *)
(* with the addresses of Routes.                                           *)
(***************************************************************************)
EXTENDS Services

CONSTANTS
    Messages,       \* what is sent
    Routes,         \* how an NPDU is addressed: records like Plain
    CutSizes,       \* octets that arrive of a datagram whose end is lost
    Peer            \* the simulated server: [instance, name, served, refused]

\* What a test serves is application-tagged primitives, each one tag and no more.
\* A name with its character set is shorter than the lengths that are markers.
Primitive(element) ==
    \A tags \in {Tags(element, 1)} :
      Len(tags) = 1 /\ tags[1].kind = "value" /\ tags[1].next = Len(element) + 1
ASSUME PeerAssumption ==
    /\ Peer.instance \in 0..MAX_INSTANCE-1
    /\ Peer.name \in Octets /\ Len(Peer.name) < 253
    /\ \A key \in DOMAIN Peer.served :
         /\ Peer.served[key] \in Seq(Octets)
         /\ \A element \in ToSet(Peer.served[key]) : Primitive(element)
\* The parameters of the requests the peer answers.
PropertyReferences == [property : Nat, array_index : Seq(Nat)]
Specifications == [object : Nat \X Nat, references : Seq(PropertyReferences)]
ASSUME MessagesAssumption ==
    \A m \in Messages :
      /\ m.kind \in {"read", "read multiple"} => m.id \in Octet
      /\ m.kind = "read" => m.p \in [object : Nat \X Nat, property : Nat, array_index : Seq(Nat)]
      /\ m.kind = "read multiple" => m.p.specs \in Seq(Specifications)
      /\ m.kind = "who-is" => m.p.limits \in Seq(Nat \X Nat)
\* A request is its parameters, and each of them fits its place: _unsigned_octets
\* raises on more than four octets, struct.pack on a type of more than ten bits.
Unsigned32(n) == n \div 65536 < 65536
Referable(p) ==
    /\ p.object \in Nat \X Nat /\ p.object[1] < 1024 /\ p.object[2] <= MAX_INSTANCE
    /\ p.property \in Nat /\ Unsigned32(p.property)
    /\ p.array_index \in Seq(Nat) /\ Len(p.array_index) <= 1
    /\ \A n \in ToSet(p.array_index) : Unsigned32(n)
ASSUME ReadsAssumption ==
    \A m \in Messages : m.kind = "read" =>
      m = [kind |-> "read", id |-> m.id, p |-> m.p] /\ Referable(m.p)
\* who_is() is given no limits or both.
ASSUME WhoIsAssumption ==
    \A m \in Messages : m.kind = "who-is" =>
      Len(m.p.limits) <= 1 /\ \A l \in ToSet(m.p.limits) : Unsigned32(l[1]) /\ Unsigned32(l[2])
\* What an answer carries: a value is whole tags, and none closes what is not open.
Enclosable(value) ==
    \A tags \in {Tags(value, 1)} :
      /\ \A i \in 1..Len(tags) : tags[i].kind # "raise" /\ tags[i].next <= Len(value) + 1
      /\ Nesting(tags, 1, Len(tags)) = 0
      /\ \A k \in 0..Len(tags) : Nesting(tags, 1, k) >= 0
ASSUME AnswersAssumption ==
    \A m \in Messages :
      /\ m.kind \in {"ack", "error", "reject", "abort"} => m.id \in Octet
      /\ m.kind = "ack" => Referable(m.p) /\ m.p.value \in Octets /\ Enclosable(m.p.value)
      /\ m.kind = "error" =>
           /\ m = [kind |-> "error", id |-> m.id, p |-> [error |-> m.p.error]]
           /\ m.p.error \in Nat \X Nat /\ Unsigned32(m.p.error[1]) /\ Unsigned32(m.p.error[2])
      /\ m.kind \in {"reject", "abort"} =>
           m = [kind |-> m.kind, id |-> m.id, p |-> [reason |-> m.p.reason]] /\ m.p.reason \in Octet
      /\ m.kind = "i-am" => m.p.instance \in Nat /\ m.p.instance <= MAX_INSTANCE
\* What an answer to ReadPropertyMultiple reports, by object, property and array
\* index: the value, or the error of a property that is not there.
ResultOf(value) == IF Given(value) THEN [value |-> value[1]] ELSE [error |-> <<2, 32>>]
Reports(results) ==
    UNION {{<<<<r.object, v.property, v.array_index>>, ResultOf(v.value)>> : v \in ToSet(r.properties)} :
             r \in ToSet(results)}
ObjectReports ==
    [object : Nat \X Nat, properties : Seq([property : Nat, array_index : Seq(Nat), value : Seq(Octets)])]
\* It names what can be asked for and says one thing of each.
ASSUME ReportsAssumption ==
    \A m \in Messages : m.kind = "multiple ack" =>
      /\ m.id \in Octet /\ m.p.results \in Seq(ObjectReports)
      /\ \A r \in ToSet(m.p.results) :
           /\ r.object[1] < 1024 /\ r.object[2] <= MAX_INSTANCE
           /\ \A v \in ToSet(r.properties) :
                /\ Referable([object |-> r.object, property |-> v.property, array_index |-> v.array_index])
                /\ \A value \in ToSet(v.value) : Enclosable(value)
      /\ \A a, b \in Reports(m.p.results) : a[1] = b[1] => a = b
\* A request for several names what can be asked for, and fits the 1476 octets of
\* an APDU on BACnet/IP: the requests are not segmented.
Unsegmented(apdu) == Len(apdu) <= 1476
ASSUME SpecificationsAssumption ==
    \A m \in Messages : m.kind = "read multiple" =>
      /\ \A spec \in ToSet(m.p.specs) :
           /\ spec.object[1] < 1024 /\ spec.object[2] <= MAX_INSTANCE
           /\ \A reference \in ToSet(spec.references) :
                Referable([object |-> spec.object, property |-> reference.property,
                           array_index |-> reference.array_index])
      /\ Unsegmented(read_property_multiple_request(m.id, m.p.specs))
\* A network number is two octets and a length one; no address without a network.
NetworkNumbers == 0..65535
ASSUME RoutesAssumption ==
    \A r \in Routes :
      /\ r.network_message = None /\ r.expecting_reply \in BOOLEAN
      /\ \A net \in {r.dnet, r.snet} : net \in Seq(NetworkNumbers) /\ Len(net) <= 1
      /\ \A address \in {r.dadr, r.sadr} : address \in Octets /\ Len(address) <= 255
      /\ ~Given(r.dnet) => r.dadr = <<>>
      /\ ~Given(r.snet) => r.sadr = <<>>
      /\ r.via = "forwarded" => r.originating \in Octets /\ Len(r.originating) = 6
\* A cut leaves the headers whole: BVLC, originating address, NPDU, three octets.
ASSUME CutSizesAssumption ==
    \A size \in CutSizes, r \in Routes :
      size \in Nat /\ size >= 22 + Len(r.dadr) + Len(r.sadr)

VARIABLES
    stage,     \* how far the exchange is
    message,   \* the message under way
    route,     \* its addressing
    wire,      \* the datagram in the network
    cut,       \* the end of the datagram was lost
    frame,     \* the Frame the receiver made of it
    result     \* what the receiver read in it

wireVars == <<stage, message, route, wire, cut, frame, result>>

-----------------------------------------------------------------------------
(* The example's answers and notifications (external)                      *)

IndexedResult(v) ==
    context_unsigned(2, v.property) \o Optional(v.array_index, context_unsigned(3, v.array_index[1]))
    \o IF Given(v.value) THEN Enclosed(4, v.value[1])
       ELSE Enclosed(5, application_enumerated(2) \o application_enumerated(32))
ObjectResults(r) ==
    context_object_id(0, r.object)
    \o Enclosed(1, FlattenSeq([i \in 1..Len(r.properties) |-> IndexedResult(r.properties[i])]))
multiple_ack(id, p) ==
    complex_ack(id, SERVICE_READ_PROPERTY_MULTIPLE,
                FlattenSeq([i \in 1..Len(p.results) |-> ObjectResults(p.results[i])]))
read_range_ack(id, p) ==
    complex_ack(id, 26, Reference(p.object, p.property, None)
        \o context_bit_string(3, p.flags) \o context_unsigned(4, Len(p.records))
        \o Enclosed(5, FlattenSeq([i \in 1..Len(p.records) |->
               Enclosed(0, p.records[i].timestamp) \o Enclosed(1, p.records[i].datum)])))
atomic_read_file_ack(id, p) ==
    complex_ack(id, 6, application_boolean(p.end_of_file)
        \o Enclosed(0, application_signed(p.start) \o application_octet_string(p.data)))
ChangedValue(v) ==
    context_unsigned(0, v.property) \o Optional(v.array_index, context_unsigned(1, v.array_index[1]))
    \o Enclosed(2, v.value)
ObjectChanges(n) ==
    context_object_id(0, n.object)
    \o Enclosed(1, FlattenSeq([i \in 1..Len(n.values) |-> ChangedValue(n.values[i])]))
cov_notification_multiple(id, p) ==
    confirmed_request(id, 31, context_unsigned(0, p.process) \o context_object_id(1, p.device)
        \o context_unsigned(2, p.remaining) \o Enclosed(4, FlattenSeq(
            [i \in 1..Len(p.notifications) |-> ObjectChanges(p.notifications[i])])))
\* A time stamp of a summary is a dateTime or, with none, a sequence number.
TimeStamp(stamp) ==
    IF Given(stamp)
    THEN Enclosed(2, Application(10, 4) \o stamp[1][1] \o Application(11, 4) \o stamp[1][2])
    ELSE context_unsigned(1, 7)
EventSummary(s) ==
    context_object_id(0, s.object) \o context_enumerated(1, s.event_state)
    \o context_bit_string(2, s.acked_transitions)
    \o Enclosed(3, FlattenSeq([i \in 1..Len(s.time_stamps) |-> TimeStamp(s.time_stamps[i])]))
    \o context_enumerated(4, s.notify_type) \o context_bit_string(5, s.event_enable)
    \o Enclosed(6, FlattenSeq([i \in 1..Len(s.priorities) |-> application_unsigned(s.priorities[i])]))
event_information_ack(id, p) ==
    complex_ack(id, 29,
        Enclosed(0, FlattenSeq([i \in 1..Len(p.summaries) |-> EventSummary(p.summaries[i])]))
        \o context_boolean(1, p.more_events))

-----------------------------------------------------------------------------
(* Messages: what each encoder makes of them and each decoder reads        *)

\* An application value is a pair <<tag number, value>>.
ApplicationValue(v) ==
    CASE v[1] = 0 -> application_null
      [] v[1] = 1 -> application_boolean(v[2])
      [] v[1] = 2 -> application_unsigned(v[2])
      [] v[1] = 3 -> application_signed(v[2])
      [] v[1] = 4 -> application_real(v[2])
      [] v[1] = 6 -> application_octet_string(v[2])
      [] v[1] = 7 -> application_character_string(v[2])
      [] v[1] = 8 -> application_bit_string(v[2])
      [] v[1] = 9 -> application_enumerated(v[2])
      [] v[1] = 12 -> application_object_id(v[2])

Encoded(m) ==
    LET id == m.id
        p == m.p
        ValueAck(value) == read_property_ack(id, <<0, 1>>, 85, None, value)
    IN  CASE m.kind = "read" -> read_property_request(id, p.object, p.property, p.array_index)
          [] m.kind = "write" -> write_property_request(id, p.object, p.property, p.value,
                                                        p.priority, p.array_index)
          [] m.kind = "read multiple" -> read_property_multiple_request(id, p.specs)
          [] m.kind = "who-is" -> who_is(p.limits)
          [] m.kind = "i-am" -> i_am(p.instance, 389)
          [] m.kind = "ack" -> read_property_ack(id, p.object, p.property, p.array_index, p.value)
          [] m.kind = "multiple ack" -> multiple_ack(id, p)
          [] m.kind = "error" -> error_pdu(id, 12, p.error[1], p.error[2])
          [] m.kind = "reject" -> reject_pdu(id, p.reason)
          [] m.kind = "abort" -> abort_pdu(id, p.reason)
          [] m.kind = "values" -> ValueAck(FlattenSeq([i \in 1..Len(p.values) |->
                                                       ApplicationValue(p.values[i])]))
          [] m.kind = "landing calls" -> 
                ValueAck(FlattenSeq([i \in 1..Len(p.calls) |-> landing_call_status(p.calls[i])]))
          [] m.kind = "lighting" -> ValueAck(lighting_command(p))
          [] m.kind = "event" -> event_notification([invoke_id |-> id] @@ p)
          [] m.kind = "range ack" -> read_range_ack(id, p)
          [] m.kind = "file ack" -> atomic_read_file_ack(id, p)
          [] m.kind = "created" -> complex_ack(id, 10, application_object_id(p.object))
          [] m.kind = "written" -> complex_ack(id, 7, context_signed(0, p.start))
          [] m.kind = "recipient" ->
                ValueAck(destination(p.mac, p.process, p.confirmed, p.transitions))
          [] m.kind = "cov" -> cov_notification_multiple(id, p)
          [] m.kind = "summaries" -> event_information_ack(id, p)
          [] m.kind = "reinitialize" -> reinitialize_device_request(id, p.state, p.password)
          [] m.kind = "communication" ->
                device_communication_control_request(id, p.state, p.password, p.minutes)
          [] m.kind = "add element" -> list_element_request(id, 8, p.object, 102, p.elements)
          [] m.kind = "range" -> read_range_request(id, p.object, 131, p.range)
          [] m.kind = "create" -> create_object_request(id, p.type, p.instance, p.initial_values)
          [] m.kind = "delete" -> delete_object_request(id, p.object)
          [] m.kind = "read file" -> atomic_read_file_request(id, p.file, p.start, p.count)
          [] m.kind = "write file" -> atomic_write_file_request(id, p.file, p.start, p.data)
          [] m.kind = "subscribe" ->
                subscribe_cov_property_multiple_request(id, p.process, p.confirmed, p.lifetime, p.specs)
          [] m.kind = "life safety" ->
                life_safety_operation_request(id, 1, p.source, p.operation, p.object)
          [] m.kind = "acknowledge" ->
                acknowledge_alarm_request(id, 1, p.object, p.state, p.stamp, p.source, p.stamp)
          [] m.kind = "event information" -> get_event_information_request(id, p.last_received)
          [] m.kind = "write group" ->
                write_group_request(p.group, 8, p.changes, p.inhibit_delay)
          [] m.kind = "time" -> time_synchronization(p.date, p.time)
          [] m.kind = "networks" -> 
                FlattenSeq([i \in 1..Len(p.networks) |-> ToBytes(p.networks[i], 2)])

Requests == {"read", "read multiple", "who-is"}   \* what the peer answers
Decodable == {"read", "write", "read multiple", "i-am", "ack", "multiple ack", "error", "reject",
              "abort", "values", "landing calls", "lighting", "event", "range ack", "file ack",
              "created", "written", "recipient", "cov", "summaries", "networks", "table"}

\* Answer: what a frame that answers a request says.
value_octets(f) == IF IsPdu(f, {PDU_COMPLEX_ACK}) THEN read_property_value(f.payload) ELSE None
error(f) == IF IsPdu(f, {PDU_ERROR}) THEN error_class_and_code(f.payload) ELSE None
Reason(f, type) ==
    IF IsPdu(f, {type}) /\ Len(f.payload) >= 3 THEN Some(f.payload[3]) ELSE None
reject_reason(f) == Reason(f, PDU_REJECT)
abort_reason(f) == Reason(f, PDU_ABORT)

RangeResult(ack) ==
    Mapped(ack, [flags |-> ack[1].result_flags, count |-> ack[1].item_count,
                 records |-> event_log_records(ack[1].item_data)])
Decoded(kind, f) ==
    CASE kind = "read" -> parse_read_property_request(f.payload)
      [] kind = "write" -> parse_write_property_request(f.payload)
      [] kind = "read multiple" -> read_access_specifications(From(f.payload, 5))
      [] kind = "i-am" -> i_am_device_instance(f.payload)
      [] kind = "ack" -> value_octets(f)
      [] kind = "multiple ack" -> parse_read_property_multiple_ack(f)
      [] kind = "error" -> error(f)
      [] kind = "reject" -> reject_reason(f)
      [] kind = "abort" -> abort_reason(f)
      [] kind = "values" -> decoded_values(value_octets(f)[1])
      [] kind = "landing calls" -> decode_landing_calls(value_octets(f)[1])
      [] kind = "lighting" -> decode_lighting_command(value_octets(f)[1])
      [] kind = "event" -> IF is_event_notification(f) THEN Some(EventNotification(f)) ELSE None
      [] kind = "range ack" ->
            RangeResult(parse_read_range_ack(f))
      [] kind = "file ack" -> parse_atomic_read_file_ack(f)
      [] kind = "created" -> created_object_identifier(f)
      [] kind = "written" -> parse_atomic_write_file_ack(f)
      [] kind = "recipient" -> decoded_values(value_octets(f)[1])
      [] kind = "cov" -> IF is_cov_notification_multiple(f) THEN Some(CovNotificationMultiple(f))
                         ELSE None
      [] kind = "summaries" -> parse_event_summaries(f.payload)
      [] kind = "networks" -> networks(f)
      [] kind = "table" -> bdt_entries(f)

\* What the sender meant, in the form its decoder gives.
Meant(m) ==
    LET p == m.p
        OneNotification(n) == [k \in 1..Len(n.values) |-> [object |-> n.object] @@ n.values[k]]
        acked == p.notify_type = NOTIFY_TYPE_ACK_NOTIFICATION
    IN  CASE m.kind \in {"read", "write", "file ack"} -> Some(p)
          [] m.kind = "read multiple" ->
                [i \in 1..Len(p.specs) |-> [object |-> p.specs[i].object, properties |->
                    [k \in 1..Len(p.specs[i].references) |-> p.specs[i].references[k].property]]]
          [] m.kind = "i-am" -> Some(p.instance)
          [] m.kind = "ack" -> Some(p.value)
          [] m.kind = "multiple ack" ->
                Some([key \in {a[1] : a \in Reports(p.results)} |->
                        (CHOOSE a \in Reports(p.results) : a[1] = key)[2]])
          [] m.kind = "error" -> Some(p.error)
          [] m.kind \in {"reject", "abort"} -> Some(p.reason)
          [] m.kind = "values" ->
                [i \in 1..Len(p.values) |-> IF p.values[i][1] = 0 THEN None ELSE Some(p.values[i][2])]
          [] m.kind = "landing calls" -> p.calls
          [] m.kind = "lighting" -> [p EXCEPT !.operation = Some(@)]
          [] m.kind = "event" ->
                Some([confirmed |-> p.confirmed, invoke_id |-> IF p.confirmed THEN Some(m.id) ELSE None,
                      process_identifier |-> Some(p.process_identifier),
                      initiating_device |-> Some(p.initiating_device),
                      event_object |-> Some(p.event_object), time_stamp |-> Some(p.time_stamp),
                      notification_class |-> Some(p.notification_class), priority |-> Some(p.priority),
                      event_type |-> Some(5), notify_type |-> Some(p.notify_type),
                      ack_required |-> IF acked THEN None ELSE Some(p.ack_required),
                      from_state |-> IF acked THEN None ELSE Some(p.from_state),
                      to_state |-> Some(p.to_state)])
          [] m.kind = "range ack" ->
                Some([flags |-> Some(p.flags), count |-> Some(Len(p.records)),
                      records |-> [i \in 1..Len(p.records) |->
                          [timestamp |-> p.records[i].timestamp \o closing(0)] @@ p.records[i].meaning]])
          [] m.kind = "created" -> Some(p.object)
          [] m.kind = "written" -> Some(p.start)
          [] m.kind = "recipient" ->
                <<Some([i \in 1..7 |-> TRUE]), Some(<<0, 0, 0, 0>>), Some(<<23, 59, 59, 99>>), Some(0),
                  Some(p.mac), Some(p.process), Some(p.confirmed), Some(p.transitions)>>
          [] m.kind = "cov" ->
                Some([confirmed |-> TRUE, process_identifier |-> Some(p.process),
                      initiating_device |-> Some(p.device), time_remaining |-> Some(p.remaining),
                      values |-> FlattenSeq([i \in 1..Len(p.notifications) |->
                                                OneNotification(p.notifications[i])])])
          [] m.kind = "summaries" ->
                [more_events |-> Some(p.more_events), summaries |->
                    [i \in 1..Len(p.summaries) |->
                        [p.summaries[i] EXCEPT !.event_state = Some(@), !.acked_transitions = Some(@),
                                               !.notify_type = Some(@), !.event_enable = Some(@)]]]
          [] m.kind = "networks" -> p.networks
          [] m.kind = "table" -> Some(p.entries)

\* A message in its datagram.  A BBMD gives back the table written to it.
Addressing(m, r) == IF m.kind = "networks" THEN [r EXCEPT !.network_message = Some(1)] ELSE r
Carried(octets, r) ==
    CASE r.via = "forwarded" -> forwarded_npdu(r.originating, octets)
      [] r.via = "foreign" -> distribute_broadcast_to_network(octets)
      [] OTHER -> bvlc(octets, r.via = "broadcast")
Datagram(m, r) ==
    IF m.kind = "table" THEN bvll(3, From(write_broadcast_distribution_table(m.p.entries), 5))
    ELSE Carried(npdu(Encoded(m), Addressing(m, r)), r)

-----------------------------------------------------------------------------
(* The simulated device and server: an answer is None or Some(APDU)        *)

Value(object, property) ==
    IF <<object, property>> \in DOMAIN Peer.served
    THEN Some(FlattenSeq(Peer.served[object, property])) ELSE None
Listed(object) == \E key \in DOMAIN Peer.served : key[1] = object
PropertyError(f, code) ==
    Some(error_pdu(invoke_id(f)[1], SERVICE_READ_PROPERTY, ERROR_CLASS_PROPERTY, code))

DeviceReadProperty(f, request) ==
    LET id == invoke_id(f)[1]
        Ack(value) == Some(read_property_ack(id, <<OBJECT_TYPE_DEVICE, Peer.instance>>,
                                             request[1].property, None, value))
    IN  IF ~Given(request) THEN None
        ELSE IF request[1].object \notin {<<OBJECT_TYPE_DEVICE, Peer.instance>>,
                                          <<OBJECT_TYPE_DEVICE, MAX_INSTANCE>>}
        THEN Some(error_pdu(id, SERVICE_READ_PROPERTY, ERROR_CLASS_OBJECT, ERROR_CODE_UNKNOWN_OBJECT))
        ELSE CASE request[1].property = 77 -> Ack(application_character_string(Peer.name))
               [] request[1].property = 75 ->
                     Ack(application_object_id(<<OBJECT_TYPE_DEVICE, Peer.instance>>))
               [] OTHER -> PropertyError(f, ERROR_CODE_UNKNOWN_PROPERTY)

InRange(f) ==
    LET tags == ValuesAmong(Tags(f.payload, 3), BOOLEAN)
    IN  Len(tags) = 2 => FromBytes(tags[1].body) <= Peer.instance /\ Peer.instance <= FromBytes(tags[2].body)
DeviceWhoIs(f) == IF InRange(f) THEN Some(i_am(Peer.instance, 389)) ELSE None

\* Mutant: the last element is past the end.
MutLastPast(f, request, served) ==
    LET elements == application_elements(served)
        n == request.array_index[1]
        Ack(value) == Some(read_property_ack(invoke_id(f)[1], request.object, request.property,
                                             Some(n), value))
    IN  CASE n = 0 -> Ack(application_unsigned(Len(elements)))
          [] n > 0 /\ n < Len(elements) -> Ack(elements[n])
          [] OTHER -> PropertyError(f, ERROR_CODE_INVALID_ARRAY_INDEX)
ArrayElement(f, request, served) ==
    LET elements == application_elements(served)
        n == request.array_index[1]
        Ack(value) == Some(read_property_ack(invoke_id(f)[1], request.object, request.property,
                                             Some(n), value))
    IN  CASE n = 0 -> Ack(application_unsigned(Len(elements)))
          [] n > 0 /\ n <= Len(elements) -> Ack(elements[n])
          [] OTHER -> PropertyError(f, ERROR_CODE_INVALID_ARRAY_INDEX)

\* An online server made with array_elements=True and no failures.
ServerReadProperty(f, request) ==
    LET served == Value(request[1].object, request[1].property)
    IN  IF ~Given(request) \/ ~Listed(request[1].object) THEN DeviceReadProperty(f, request)
        ELSE IF ~Given(request[1].array_index) /\ <<request[1].object, request[1].property>> \in Peer.refused
        THEN Some(abort_pdu(invoke_id(f)[1], 4))
        ELSE IF ~Given(served) THEN PropertyError(f, ERROR_CODE_UNKNOWN_PROPERTY)
        ELSE IF Given(request[1].array_index) THEN ArrayElement(f, request[1], served[1])
        ELSE Some(read_property_ack(invoke_id(f)[1], request[1].object, request[1].property, None,
                                    served[1]))
ServerReadMultiple(f, specs) ==
    Some(read_property_multiple_ack(invoke_id(f)[1],
        [i \in 1..Len(specs) |-> [object |-> specs[i].object, properties |->
            [k \in 1..Len(specs[i].properties) |->
                [property |-> specs[i].properties[k],
                 value |-> Value(specs[i].object, specs[i].properties[k])]]]]))
ServerAnswer(f) ==
    IF IsPdu(f, {PDU_CONFIRMED_REQUEST}) /\ service(f) = Some(SERVICE_READ_PROPERTY_MULTIPLE)
    THEN ServerReadMultiple(f, read_access_specifications(From(f.payload, 5)))
    ELSE IF IsPdu(f, {PDU_CONFIRMED_REQUEST}) /\ service(f) = Some(SERVICE_READ_PROPERTY)
    THEN ServerReadProperty(f, parse_read_property_request(f.payload))
    ELSE IF IsPdu(f, {PDU_UNCONFIRMED_REQUEST}) /\ service(f) = Some(SERVICE_WHO_IS)
    THEN DeviceWhoIs(f) ELSE None

\* Mutant: the answer to a relayed request goes to the relaying network, not to
\* the device there.
MutReplyToNetwork(f) == IF Given(f.snet) THEN [Plain EXCEPT !.dnet = f.snet] ELSE Plain
ReplyAddress(f) ==
    IF Given(f.snet) THEN [Plain EXCEPT !.dnet = f.snet, !.dadr = f.sadr] ELSE Plain
Reply(f, apdu) == bvlc(npdu(apdu, ReplyAddress(f)), FALSE)
\* Whose address recvfrom() gave as the request's source: the reply is sent there.
Source(r) ==
    CASE r.via = "forwarded" -> "BBMD"
      [] r.via # "forwarded" /\ Given(r.snet) -> "router"
      [] OTHER -> "device"

-----------------------------------------------------------------------------
(* An exchange                                                             *)

WireInit ==
    /\ stage = "idle"
    /\ message = None /\ route = None
    /\ wire = <<>>
    /\ cut = FALSE
    /\ frame = NotOk
    /\ result = None

Send(m, r) ==
    /\ stage = "idle"
    /\ stage' = "sent"
    /\ message' = m /\ route' = r
    /\ wire' = Datagram(m, r)
    /\ UNCHANGED <<cut, frame, result>>

\* recvfrom(2048): the rest of a longer datagram is lost.  The sizes of a cut
\* stand for it; only the answer that grows with what is asked is cut.
RECEIVE_SIZE == 2048
Receive(size) ==
    /\ stage \in {"sent", "answered"}
    /\ \/ size = RECEIVE_SIZE
       \/ /\ size < Len(wire)
          /\ <<stage, message.kind>> \in {<<"sent", "multiple ack">>, <<"answered", "read multiple">>}
    /\ cut' = (Len(wire) > size)
    /\ stage' = IF stage = "sent" THEN "received" ELSE "returned"
    /\ frame' = Frame(Slice(wire, 1, size))
    /\ wire' = <<>>
    /\ UNCHANGED <<message, route, result>>

Decode ==
    /\ stage = "received"
    /\ message.kind \in Decodable
    /\ stage' = "decoded"
    /\ result' = Decoded(message.kind, frame)
    /\ UNCHANGED <<message, route, wire, cut, frame>>

\* SimulatedDevice._serve: an answer, if there is one, to where the request
\* came from.
Answer ==
    /\ stage = "received" /\ message.kind \in Requests
    /\ frame.ok /\ ~Given(frame.network_message)
    /\ \E apdu \in {ServerAnswer(frame)} :
          /\ stage' = IF Given(apdu) THEN "answered" ELSE "silent"
          /\ wire' = Optional(apdu, Reply(frame, apdu[1]))
    /\ UNCHANGED <<message, route, cut, frame, result>>

\* The client reads the answer.
Read ==
    /\ stage = "returned"
    /\ stage' = "read"
    /\ result' = CASE message.kind = "read multiple" -> parse_read_property_multiple_ack(frame)
                   [] message.kind = "who-is" -> i_am_device_instance(frame.payload)
                   [] OTHER -> [value |-> value_octets(frame), error |-> error(frame),
                                abort |-> abort_reason(frame), id |-> invoke_id(frame)]
    /\ UNCHANGED <<message, route, wire, cut, frame>>

Finish ==
    /\ \/ stage \in {"decoded", "read", "silent"}
       \/ stage = "received" /\ message.kind \notin Decodable \cup Requests
    /\ stage' = "idle"
    /\ message' = None /\ route' = None
    /\ wire' = <<>> /\ cut' = FALSE /\ frame' = NotOk /\ result' = None

WireNext ==
    \/ \E m \in Messages, r \in Routes : Send(m, r)
    \/ \E size \in {RECEIVE_SIZE} \cup CutSizes : Receive(size)
    \/ Decode \/ Answer \/ Read \/ Finish

WireSpec == WireInit /\ [][WireNext]_wireVars

-----------------------------------------------------------------------------
(* Properties                                                              *)

\* What the decoders of codec.py, services.py and alarm.py read in a frame is
\* what its sender gave the encoder, and the frame is addressed as npdu() was
\* asked to: numbers at the edges of their widths, strings at the lengths where
\* the tag changes form, values that hold constructed values and octets that look
\* like tags.
RoundTrip ==
    stage = "decoded" /\ ~cut =>
      /\ result = Meant(message)
      /\ frame.has_npdu =>
           \A field \in DOMAIN Plain : frame[field] = Addressing(message, route)[field]

\* Every APDU the wire tests build is octets and a complete sequence of tags: no
\* number is wider than its place, no tag is cut short or runs over, and each closing
\* tag has the number of the opening tag it closes.
Parametrised(apdu) == apdu[1] \div 16 \in {0, 1, 3, 5}
Header(apdu) == CASE apdu[1] \div 16 = 0 -> 4 [] apdu[1] \div 16 = 1 -> 2 [] OTHER -> 3
Complete(apdu, tags) ==
    tags # <<>> =>
      /\ ~Broken(tags) /\ Last(tags).next = Len(apdu) + 1
      /\ \A i \in 1..Len(tags) : tags[i].kind = "open" =>
           ClosedBy(tags, i) > 0 /\ tags[ClosedBy(tags, i)].number = tags[i].number
      /\ Nesting(tags, 1, Len(tags)) = 0
WellFormed ==
    stage = "sent" /\ message.kind \notin {"networks", "table"} =>
      \A apdu \in {Encoded(message)} :
        /\ \A i \in 1..Len(apdu) : apdu[i] \in 0..255
        /\ Parametrised(apdu) => Complete(apdu, Tags(apdu, Header(apdu) + 1))

\* Two different messages of a kind never look alike on the wire: a device can
\* tell a missing optional parameter, a shorter number or another element from
\* what was meant.
Unambiguous ==
    stage = "sent" /\ message.kind # "table" =>
      \A other \in Messages :
        other.kind = message.kind /\ Encoded(other) = Encoded(message) => other = message

\* peer.py:12-14: the answer to a request a router relayed is addressed to the
\* network and the device the request came from, and any other answer to nobody
\* but the sender.
ReplyReachesSource ==
    stage \in {"returned", "read"} =>
      frame.dnet = route.snet /\ frame.dadr = route.sadr

\* peer.py:12-13: every answer goes "to the address the request came from", which is
\* the originating device's when no router but a BBMD relayed the request.
AnswerGoesBack == stage = "answered" /\ ~Given(route.snet) => Source(route) = "device"

\* What a read should give the client, from what the peer was made with.
Served(m) ==
    LET p == m.p
        key == <<p.object, p.property>>
        none == [value |-> None, error |-> None, abort |-> None, id |-> Some(m.id)]
        listed == \E k \in DOMAIN Peer.served : k[1] = p.object
        whole == ~Given(p.array_index)
        OfDevice == p.object \in {<<8, Peer.instance>>, <<8, MAX_INSTANCE>>}
        n == p.array_index[1]
    IN  CASE listed /\ whole /\ key \in Peer.refused -> [none EXCEPT !.abort = Some(4)]
          [] key \in DOMAIN Peer.served /\ whole /\ key \notin Peer.refused ->
               [none EXCEPT !.value = Some(FlattenSeq(Peer.served[key]))]
          [] key \in DOMAIN Peer.served /\ ~whole /\ n = 0 ->
               [none EXCEPT !.value = Some(application_unsigned(Len(Peer.served[key])))]
          [] key \in DOMAIN Peer.served /\ ~whole /\ n \in 1..Len(Peer.served[key]) ->
               [none EXCEPT !.value = Some(Peer.served[key][n])]
          [] key \in DOMAIN Peer.served /\ ~whole /\ n > Len(Peer.served[key]) ->
               [none EXCEPT !.error = Some(<<2, 42>>)]
          [] ~listed /\ OfDevice /\ p.property = 75 ->
               [none EXCEPT !.value = Some(application_object_id(<<8, Peer.instance>>))]
          [] ~listed /\ OfDevice /\ p.property = 77 ->
               [none EXCEPT !.value = Some(application_character_string(Peer.name))]
          [] OTHER -> [none EXCEPT !.error = Some(IF listed \/ OfDevice THEN <<2, 32>> ELSE <<1, 31>>)]

\* What the server's ReadPropertyMultiple-ACK says: of every property it is asked
\* for the whole value, or that there is none.
AnsweredMultiple(m) ==
    LET Asked(spec) == {<<spec.object, spec.references[k].property, None>> : k \in 1..Len(spec.references)}
    IN  [key \in UNION {Asked(m.p.specs[i]) : i \in 1..Len(m.p.specs)} |->
            IF <<key[1], key[2]>> \in DOMAIN Peer.served
            THEN [value |-> FlattenSeq(Peer.served[key[1], key[2]])] ELSE [error |-> <<2, 32>>]]
\* What it should say, "the same way, property by property" (peer.py:166): of every
\* reference what a ReadProperty of it would bring.
ServedEach(m) ==
    LET Asked(spec) == {<<spec.object, spec.references[k].property, spec.references[k].array_index>> :
                           k \in 1..Len(spec.references)}
        Single(key) == Served([id |-> m.id, p |-> [object |-> key[1], property |-> key[2],
                                                   array_index |-> key[3]]])
    IN  [key \in UNION {Asked(m.p.specs[i]) : i \in 1..Len(m.p.specs)} |->
            IF Given(Single(key).value) THEN [value |-> Single(key).value[1]]
            ELSE [error |-> Single(key).error[1]]]
\* The references for which the two agree: no object listed twice, and of objects the
\* test made the server with whole properties that may be read whole.
Separate(specs) == \A i, j \in 1..Len(specs) : specs[i].object = specs[j].object => i = j
WholeProperties(specs) ==
    /\ Separate(specs)
    /\ \A i \in 1..Len(specs) :
         /\ Listed(specs[i].object)
         /\ \A k \in 1..Len(specs[i].references) :
              /\ specs[i].references[k].array_index = None
              /\ <<specs[i].object, specs[i].references[k].property>> \notin Peer.refused

\* A client reads from the simulated server what the test put there: with ReadProperty
\* the whole value, the element asked for or the length of the array, and the error
\* the server documents for what is not there; with ReadPropertyMultiple the same for
\* each of any number of whole properties; a Who-Is brings an I-Am exactly when the
\* instance is in its range.
ReadsWhatIsServed ==
    /\ stage = "read" /\ ~cut =>
         CASE message.kind = "read" -> result = Served(message)
           [] message.kind = "read multiple" ->
                WholeProperties(message.p.specs) => result = Some(ServedEach(message))
           [] message.kind = "who-is" -> result = Some(Peer.instance)
    /\ stage \in {"silent", "answered"} /\ message.kind = "who-is" =>
         (stage = "silent" <=> \E l \in ToSet(message.p.limits) :
                                  ~(l[1] <= Peer.instance /\ Peer.instance <= l[2]))

\* peer.py:166: the server "answers ReadPropertyMultiple (cl. 15.7) the same way,
\* property by property", also of an element of an array and of an object that is
\* listed twice.
MultipleReadsTheSame ==
    stage = "read" /\ ~cut /\ message.kind = "read multiple" => result = Some(ServedEach(message))

\* An answer whose end was lost is refused or gives fewer results, never a wrong
\* one: no value of it is cut, and none is filed under another property.
CutNeverWrong ==
    (stage = "decoded" /\ message.kind = "multiple ack") \/ (stage = "read" /\ message.kind = "read multiple") =>
      LET whole == IF stage = "decoded" THEN Meant(message)[1] ELSE AnsweredMultiple(message)
      IN  cut /\ Given(result) =>
            \A key \in DOMAIN result[1] : key \in DOMAIN whole /\ result[1][key] = whole[key]
=============================================================================
