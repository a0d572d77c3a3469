------------------------------- MODULE MCWire -------------------------------
(* Messages at the edges of every encoding. *)
EXTENDS Wire

M(kind, parameters) == {[kind |-> kind, id |-> id, p |-> p] : id \in {0, 255}, p \in parameters}
Once(kind, parameters) == {[kind |-> kind, id |-> 7, p |-> p] : p \in parameters}
Maybe(S) == {None} \cup {Some(x) : x \in S}

Text(n) == [i \in 1..n |-> 62 + (i % 2)]    \* octets that look like tags [3]
AI == <<0, 1>>
DEV == <<8, 4194302>>
PROPRIETARY == <<400, 65536>>
Numbers == {0, 255, 256, 65535, 65536, 16777215, 16777216, 2000000000}
SignedNumbers == {0, 127, 128, -128, -129, 200, -56, 32768, -32769, -8388609}
REAL == <<62, 63, 0, 5>>
Stamp == <<<<124, 2, 29, 255>>, <<23, 59, 62, 63>>>>
EventStamp == <<Stamp[1], <<23, 59, 62, 0>>>>
Nested == Enclosed(3, Enclosed(3, application_unsigned(9)) \o context_unsigned(3, 63))
          \o Enclosed(5, Enclosed(4, context_unsigned(2, 85)))
SomeValues == {application_null, application_boolean(TRUE) \o application_boolean(FALSE),
               application_octet_string(Text(5)), Nested, <<>>}

ReadMessages ==
    M("read", [object : {AI, DEV, PROPRIETARY}, property : {75, 77, 85, 87, 256}, array_index : Maybe({0, 2, 3, 256})])
    \cup Once("read", [object : {<<8, 4194303>>, <<8, 5>>}, property : {77, 85}, array_index : {None}])
Specs == {<<[object |-> AI, references |-> <<[property |-> 85, array_index |-> None],
                                           [property |-> 256, array_index |-> None]>>]>>,
          <<[object |-> AI, references |-> <<[property |-> 87, array_index |-> None]>>],
            [object |-> PROPRIETARY, references |-> <<[property |-> 85, array_index |-> None],
                                                    [property |-> 87, array_index |-> Some(0)]>>]>>,
          <<[object |-> AI, references |-> <<[property |-> 87, array_index |-> None]>>],
            [object |-> PROPRIETARY, references |-> <<[property |-> 85, array_index |-> None],
                                                    [property |-> 256, array_index |-> None]>>]>>}
\* An element of an array, and an object listed twice.
IndexedMessages == M("read multiple", [specs : {
    <<[object |-> AI, references |-> <<[property |-> 87, array_index |-> index]>>]>> : index \in Maybe({0, 2})}])
RepeatedMessages == M("read multiple", [specs : {
    <<[object |-> AI, references |-> <<[property |-> 85, array_index |-> None]>>],
      [object |-> AI, references |-> <<[property |-> 87, array_index |-> None]>>]>>}])
Results == {<<>>,
    <<[object |-> AI, properties |-> <<
         [property |-> 85, array_index |-> None, value |-> Some(Nested)],
         [property |-> 87, array_index |-> Some(2), value |-> Some(application_unsigned(256))],
         [property |-> 300, array_index |-> None, value |-> None]>>],
      [object |-> DEV, properties |-> <<
         [property |-> 77, array_index |-> None, value |-> Some(application_character_string(Text(7)))]>>]>>}
PlainValues == {<<0, 0>>, <<1, TRUE>>, <<1, FALSE>>, <<4, REAL>>, <<12, PROPRIETARY>>}
    \cup {<<t, n>> : t \in {2, 9}, n \in Numbers} \cup {<<3, n>> : n \in SignedNumbers}
    \cup {<<6, Text(n)>> : n \in {0, 4, 5, 253, 254, 300}}
    \cup {<<7, Text(n)>> : n \in {0, 3, 4, 252}}
    \cup {<<8, [i \in 1..n |-> i % 3 = 0]>> : n \in {0, 3, 7, 8, 9, 24}}
ValueMessages ==
    Once("values", {[values |-> <<v>>] : v \in PlainValues}
                   \cup {[values |-> <<v, <<1, TRUE>>, <<2, 256>>>>] : v \in PlainValues})
\* Character strings of which the shortest is the longest a tag of two octets can
\* say the length of.
LongMessages == Once("values", {[values |-> <<<<7, [i \in 1..n |-> 114]>>>>] : n \in {252, 253}})
WhoIsMessages == Once("who-is", [limits : Maybe({<<5, 5>>, <<6, 255>>})])
LightingCommands ==
    [operation : {5}, target_level : Maybe({REAL}), ramp_rate : {None}, step_increment : Maybe({REAL}),
     fade_time : Maybe({256}), priority : Maybe({16})]
Calls == {[floor |-> 255, direction |-> Some(1), destination |-> None, floor_text |-> Some(Text(4))],
          [floor |-> 0, direction |-> None, destination |-> Some(3), floor_text |-> None]}
Events ==
    [confirmed : BOOLEAN, process_identifier : {16777216}, initiating_device : {DEV}, event_object : {AI},
     time_stamp : {EventStamp}, notification_class : {0}, priority : {255}, message_text : Maybe({Text(5)}),
     notify_type : {0, 2}, ack_required : BOOLEAN, from_state : {0}, to_state : {3},
     exceeding_value : {REAL}, exceeded_limit : {REAL}]
\* An ACK_NOTIFICATION does not say whether an acknowledgement is required, and
\* an unconfirmed notification has no invoke id.
EventMessages ==
    {m \in M("event", Events) : /\ m.p.notify_type = 2 => ~m.p.ack_required
                                /\ m.id = 0 => m.p.confirmed}
Record(datum, meaning) ==
    [timestamp |-> Application(10, 4) \o Stamp[1] \o Application(11, 4) \o Stamp[2],
     datum |-> datum, meaning |-> meaning]
Records == <<
    Record(context_bit_string(0, <<TRUE, FALSE, TRUE>>), [kind |-> "status", log_status |-> <<5, 160>>]),
    Record(Enclosed(1, context_unsigned(0, 256) \o context_object_id(1, DEV) \o context_object_id(2, AI)
               \o context_date_time(3, Stamp) \o context_enumerated(11, 3)
               \o Enclosed(12, Enclosed(5, context_unsigned(10, 8)))),
           [kind |-> "notification", fields |->
              [process_identifier |-> Some(256), initiating_device |-> Some(DEV),
               event_object |-> Some(AI), from_state |-> None, to_state |-> Some(3)]]),
    Record(context_real(2, REAL), [kind |-> "time-change"])>>
Summary(stamps) ==
    [object |-> AI, event_state |-> 3, acked_transitions |-> <<TRUE, FALSE, TRUE>>, time_stamps |-> stamps,
     notify_type |-> 0, event_enable |-> <<TRUE, TRUE, FALSE>>, priorities |-> <<255, 0, 256>>]
Notifications == <<
    [object |-> AI, values |-> <<[property |-> 85, array_index |-> Some(2), value |-> Nested],
                                 [property |-> 111, array_index |-> None, value |-> application_null]>>],
    [object |-> DEV, values |-> <<[property |-> 87, array_index |-> None, value |-> <<>>]>>]>>

AnswerMessages ==
    M("ack", [object : {PROPRIETARY}, property : {85}, array_index : Maybe({2}), value : SomeValues])
    \cup Once("multiple ack", [results : Results])
    \cup M("error", [error : {<<2, 32>>, <<256, 65536>>}])
    \cup M("reject", [reason : {0, 255}]) \cup M("abort", [reason : {4}])
    \cup Once("landing calls", {[calls |-> calls] : calls \in {<<>>} \cup {<<a, b>> : a, b \in Calls}})
    \cup Once("lighting", LightingCommands)
    \cup Once("range ack", {[object |-> AI, property |-> 131, flags |-> <<TRUE, FALSE, TRUE>>,
                             records |-> SubSeq(Records, 1, n)] : n \in 0..3})
    \cup Once("file ack", [end_of_file : BOOLEAN, start : {0, -1, 128}, data : {<<>>, Text(254)}])
    \cup Once("created", [object : {AI, DEV}]) \cup Once("written", [start : SignedNumbers])
    \cup Once("recipient", [mac : {<<10, 0, 0, 255, 186, 192>>, <<9>>}, process : {256}, confirmed : BOOLEAN,
                            transitions : {<<TRUE, FALSE, TRUE>>}])
    \cup Once("cov", {[process |-> 1, device |-> DEV, remaining |-> 256,
                       notifications |-> SubSeq(Notifications, 1, n)] : n \in 0..2})
    \cup Once("summaries", {[more_events |-> more, summaries |-> SubSeq(
             <<Summary(<<Some(Stamp), None, Some(Stamp)>>), Summary(<<None, None, None>>)>>, 1, n)] :
             more \in BOOLEAN, n \in 0..2})

RequestMessages ==
    Once("write", [object : {AI}, property : {85, 256}, value : SomeValues, priority : Maybe({1, 16}),
                   array_index : Maybe({0, 256})])
    \cup Once("read multiple", [specs : Specs])
    \cup Once("who-is", [limits : Maybe({<<5, 5>>, <<0, 5>>, <<5, 4194302>>, <<4194302, 4194303>>, <<6, 255>>})])
    \cup Once("i-am", [instance : {0, 4194302}])
    \cup Once("reinitialize", [state : {0, 7}, password : Maybe({<<>>, Text(4), Text(252)})])
    \cup Once("communication", [state : {0, 2}, password : Maybe({Text(4)}), minutes : Maybe({0, 2})])
    \cup Once("add element", [object : {AI}, elements : {<<>>, <<Nested>>, <<<<0>>, <<0>>>>}])
    \cup Once("range", [object : {AI}, range : Maybe(Numbers \X SignedNumbers)])
    \cup Once("create", [type : {0, 256}, instance : Maybe({0, 256}),
                         initial_values : {<<>>, <<[property |-> 85, value |-> Nested]>>}])
    \cup Once("delete", [object : {AI, DEV}])
    \cup Once("read file", [file : {0, 256}, start : SignedNumbers, count : Numbers])
    \cup Once("write file", [file : {1}, start : {0, -1}, data : {Text(n) : n \in {0, 4, 5, 253, 254, 300}}])
    \cup Once("subscribe", [process : {1}, confirmed : BOOLEAN, lifetime : Maybe({0, 300}),
                            specs : {<<>>, <<[object |-> AI, properties |-> <<85, 111>>]>>,
                                     <<[object |-> AI, properties |-> <<85>>], [object |-> DEV, properties |-> <<111>>]>>}])
    \cup Once("life safety", [source : {Text(3), Text(4)}, operation : {1, 4}, object : Maybe({AI})])
    \cup Once("acknowledge", [object : {AI}, state : {0, 3}, stamp : {Stamp}, source : {<<>>, Text(252)}])
    \cup Once("event information", [last_received : Maybe({AI, DEV})])
    \cup Once("write group", [group : {1, 65536}, inhibit_delay : Maybe(BOOLEAN),
                              changes : {<<>>, <<[channel |-> 1, priority |-> None, value |-> application_null]>>,
                                         <<[channel |-> 1, priority |-> Some(16), value |-> application_real(REAL)],
                                           [channel |-> 256, priority |-> None, value |-> application_unsigned(1)]>>}])
    \cup Once("time", [date : {<<2024, 2, 29, 255>>, <<1900, 1, 1, 1>>}, time : {Stamp[2]}])
    \cup Once("networks", [networks : {<<>>, <<1>>, <<255, 65535>>}])
    \cup Once("table", [entries : {<<>>, <<<<192, 168, 1, 2, 186, 192, 255, 255, 255, 0>>,
                                           <<10, 0, 0, 255, 186, 192, 255, 0, 0, 0>>>>}])

WireMessages == ReadMessages \cup ValueMessages \cup EventMessages \cup AnswerMessages \cup RequestMessages

Unicast == [via |-> "unicast", originating |-> <<>>, expecting_reply |-> TRUE] @@ Plain
Address == <<10, 0, 0, 255, 186, 192>>
WireRoutes == {
    Unicast,
    [Unicast EXCEPT !.dnet = Some(65535), !.via = "broadcast", !.expecting_reply = FALSE],
    [Unicast EXCEPT !.dnet = Some(2), !.dadr = <<9>>, !.snet = Some(256), !.sadr = Address,
                    !.via = "forwarded", !.originating = Address],
    [Unicast EXCEPT !.snet = Some(1), !.sadr = <<255>>, !.via = "foreign"]}
\* A BBMD forwards a broadcast of a device of its own subnet.
ForwardedRoutes == {Unicast, [Unicast EXCEPT !.via = "forwarded", !.originating = Address]}
WireCuts == 30..95

\* A value whose elements hold octets that look like tags, an array that is
\* refused as a whole, and an element of 254 octets.
WirePeer == [
    instance |-> 5, name |-> Text(4), refused |-> {<<PROPRIETARY, 87>>},
    served |-> (<<AI, 85>> :> <<application_real(REAL)>>)
               @@ (<<AI, 87>> :> <<application_null, application_octet_string(Text(5)), application_boolean(TRUE)>>)
               @@ (<<PROPRIETARY, 85>> :> <<>>)
               @@ (<<PROPRIETARY, 87>> :> <<application_octet_string(Text(254)), application_unsigned(256),
                                             application_bit_string(<<TRUE>>)>>)]
=============================================================================
