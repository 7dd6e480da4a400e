------------------------------ MODULE DnsWire -------------------------------
(***************************************************************************)
(* DNS messages on the wire: the strict parser of the engine (hns-dns-wire) *)
(* and the one of the browser (hns-browser-primitives).  Names and RDATA    *)
(* are read from octets, which are numbers below Radix; positions count     *)
(* from 0.  The two top bits of an octet say whether it is a label length   *)
(* or a pointer.  Whole messages are records of their parsed sections.      *)
(***************************************************************************)
EXTENDS Naturals, Sequences, SequencesExt, FiniteSets, Checks, TLC

CONSTANTS Radix,                                   \* 256
          MAX_LABEL_LEN, MAX_WIRE_NAME_LEN,
          max_labels_per_name, max_compression_jumps, max_questions, max_records,
          MAX_DNS_QUESTIONS, MAX_DNS_RECORDS,
          MAX_HANDSHAKE_RESOURCE_RECORDS, MAX_HANDSHAKE_TXT_STRINGS,
          Lower(_), IsHostOctet(_), Wildcard       \* what octets are as letters

PointerMark == 3 * (Radix \div 4)
ReservedMark == Radix \div 4
Octet(message, at) == message[at + 1]
Part(message, from, to) == SubSeq(message, from + 1, to)      \* [from, to)

canonical_label(label) == [i \in DOMAIN label |-> Lower(label[i])]

RECURSIVE encode(_)
encode(name) == IF name = <<>> THEN <<0>> ELSE <<Len(name[1])>> \o name[1] \o encode(Tail(name))
wire_len(name) == Len(encode(name))

Name(labels, next) == [ok |-> TRUE, labels |-> labels, next |-> next]
NoName == [ok |-> FALSE, labels |-> <<>>, next |-> 0]

\* The labels from "at" on; consumed is <<end>> once a pointer was followed.
RECURSIVE Walk(_, _, _, _, _, _, _)
Walk(message, at, end, consumed, jumps, visited, labels) ==
    IF at >= Len(message) \/ at \in visited THEN NoName
    ELSE LET length == Octet(message, at)
             pointer == (length % ReservedMark) * Radix + Octet(message, at + 1)
             label == Part(message, at + 1, at + 1 + length)
         IN CASE length >= PointerMark ->
                   IF \/ consumed = <<>> /\ at + 2 > end
                      \/ at + 1 >= Len(message)
                     THEN NoName
                   ELSE IF pointer >= at \/ jumps >= max_compression_jumps THEN NoName
                   ELSE Walk(message, pointer, end, IF consumed = <<>> THEN <<at + 2>> ELSE consumed,
                             jumps + 1, visited \cup {at}, labels)
              [] length = 0 -> Name(labels, IF consumed = <<>> THEN at + 1 ELSE consumed[1])
              [] length \in 1..MAX_LABEL_LEN ->
                   IF \/ consumed = <<>> /\ at + 1 + length > end
                      \/ at + 1 + length > Len(message)
                      \/ wire_len(Append(labels, label)) > MAX_WIRE_NAME_LEN
                      \/ Len(labels) >= max_labels_per_name
                     THEN NoName
                   ELSE Walk(message, at + 1 + length, end, consumed, jumps, visited \cup {at},
                             Append(labels, canonical_label(label)))
              [] OTHER -> NoName
decode_name(message, at, end) ==
    IF end > Len(message) \/ at >= end THEN NoName ELSE Walk(message, at, end, <<>>, 0, {}, <<>>)

\* The browser's walk: a pointer may lead anywhere in the message.
RECURSIVE BrowserWalk(_, _, _, _, _)
BrowserWalk(message, at, consumed, jumps, labels) ==
    IF at >= Len(message) THEN NoName
    ELSE LET length == Octet(message, at)
             label == Part(message, at + 1, at + 1 + length)
         IN CASE length >= PointerMark ->
                   IF at + 1 >= Len(message) THEN NoName
                   ELSE LET pointer == (length % ReservedMark) * Radix + Octet(message, at + 1)
                        IN IF pointer >= Len(message) \/ jumps >= max_compression_jumps THEN NoName
                           ELSE BrowserWalk(message, pointer, IF consumed = <<>> THEN <<at + 2>> ELSE consumed,
                                            jumps + 1, labels)
              [] length = 0 -> Name(labels, IF consumed = <<>> THEN at + 1 ELSE consumed[1])
              [] length \in 1..MAX_LABEL_LEN ->
                   IF \/ at + 1 + length > Len(message)
                      \/ ~(label = <<Wildcard>> \/ \A i \in DOMAIN label : IsHostOctet(label[i]))
                      \/ wire_len(Append(labels, label)) > MAX_WIRE_NAME_LEN
                     THEN NoName
                   ELSE BrowserWalk(message, at + 1 + length, consumed, jumps, Append(labels, canonical_label(label)))
              [] OTHER -> NoName
parse_wire(message, at) == BrowserWalk(message, at, <<>>, 0, <<>>)

-----------------------------------------------------------------------------
(* RDATA: what each type is made of.                                        *)

\* A field: so many octets, a name, octets to the end (at least one, or any), a part
\* with its own length, character strings, options, a type bitmap.
Fixed(n) == [field |-> "octets", size |-> n]
Of(kind) == [field |-> kind, size |-> 0]
Layout(type) ==
    CASE type = "A" -> <<Fixed(4)>>
      [] type = "AAAA" -> <<Fixed(16)>>
      [] type \in {"NS", "CNAME"} -> <<Of("name")>>
      [] type = "SOA" -> <<Of("name"), Of("name"), Fixed(20)>>
      [] type = "MX" -> <<Fixed(2), Of("name")>>
      [] type = "SRV" -> <<Fixed(6), Of("name")>>
      [] type \in {"DS", "DNSKEY"} -> <<Fixed(4), Of("some")>>
      [] type = "RRSIG" -> <<Fixed(18), Of("name"), Of("some")>>
      [] type = "NSEC" -> <<Of("name"), Of("bitmap")>>
      [] type = "NSEC3" -> <<Fixed(4), Of("counted"), Of("counted some"), Of("bitmap")>>
      [] type = "TLSA" -> <<Fixed(3), Of("some")>>
      [] type = "TXT" -> <<Of("strings")>>
      [] type = "OPT" -> <<Of("options")>>
      [] OTHER -> <<Of("any")>>

\* parse_txt and parse_edns: parts that end with the RDATA, of a length each states.
RECURSIVE Parts(_, _)
Parts(raw, width) ==
    LET length == IF width = 1 THEN raw[1] ELSE raw[3] * Radix + raw[4]
    IN raw = <<>> \/ /\ Len(raw) >= width /\ Len(raw) >= width + length
                     /\ Parts(SubSeq(raw, width + length + 1, Len(raw)), width)
RECURSIVE BitmapFrom(_, _)
BitmapFrom(raw, previous) ==
    raw = <<>> \/ /\ Len(raw) >= 2 /\ raw[2] \in 1..32 /\ previous < raw[1] + 1 /\ Len(raw) >= 2 + raw[2]
                  /\ BitmapFrom(SubSeq(raw, 3 + raw[2], Len(raw)), raw[1] + 1)
validate_type_bitmaps(raw) == raw # <<>> /\ BitmapFrom(raw, 0)

NoRdata == [ok |-> FALSE, fields |-> <<>>]
Took(value, next) == [ok |-> TRUE, value |-> value, next |-> next]
NotTaken == [ok |-> FALSE, value |-> <<>>, next |-> 0]
Take(field, message, at, end) ==
    LET rest == Part(message, at, end)
    IN CASE field.field = "octets" -> IF at + field.size > end THEN NotTaken
                                      ELSE Took(Part(message, at, at + field.size), at + field.size)
         [] field.field = "name" -> LET name == decode_name(message, at, end)
                                    IN IF name.ok THEN Took(encode(name.labels), name.next) ELSE NotTaken
         [] field.field \in {"counted", "counted some"} ->
              IF at >= end THEN NotTaken
              ELSE LET n == Octet(message, at)
                   IN IF at + 1 + n > end \/ (field.field = "counted some" /\ n = 0) THEN NotTaken
                      ELSE Took(Part(message, at, at + 1 + n), at + 1 + n)
         [] OTHER -> IF at <= end /\ CASE field.field = "some" -> rest # <<>>
                                       [] field.field = "strings" -> rest # <<>> /\ Parts(rest, 1)
                                       [] field.field = "options" -> Parts(rest, 4)
                                       [] field.field = "bitmap" -> validate_type_bitmaps(rest)
                                       [] OTHER -> TRUE
                       THEN Took(rest, end) ELSE NotTaken
RECURSIVE TakeAll(_, _, _, _, _)
TakeAll(layout, message, at, end, fields) ==
    IF layout = <<>> THEN IF at = end THEN [ok |-> TRUE, fields |-> fields] ELSE NoRdata
    ELSE LET taken == Take(layout[1], message, at, end)
         IN IF ~taken.ok THEN NoRdata ELSE TakeAll(Tail(layout), message, taken.next, end, Append(fields, taken.value))
parse_rdata(message, start, end, type) == TakeAll(Layout(type), message, start, end, <<>>)
encode_rdata(rdata) == FlattenSeq(rdata.fields)

\* The browser keeps the octets, with the names of some types written out.
normalize_record_rdata(message, start, end, type) ==
    LET raw == Part(message, start, end)
        first == parse_wire(message, start)
        second == parse_wire(message, first.next)
        signer == parse_wire(message, start + 18)
        Normal(octets) == [ok |-> TRUE, octets |-> octets]
        Bad == [ok |-> FALSE, octets |-> <<>>]
    IN CASE type \in {"NS", "CNAME"} -> IF first.ok /\ first.next = end THEN Normal(encode(first.labels)) ELSE Bad
         [] type = "SOA" -> IF first.ok /\ first.next <= end /\ second.ok /\ second.next + 20 = end
                              THEN Normal(encode(first.labels) \o encode(second.labels) \o Part(message, second.next, end))
                              ELSE Bad
         [] type = "RRSIG" /\ Len(raw) > 18 /\ raw[19] >= PointerMark ->
              IF signer.ok /\ signer.next <= end
                THEN Normal(Part(message, start, start + 18) \o encode(signer.labels) \o Part(message, signer.next, end))
                ELSE Bad
         [] OTHER -> Normal(raw)

-----------------------------------------------------------------------------
(* Messages.  wire is [size, reserved, header, questions, answers,          *)
(* authorities, additionals, trailing]; header is [id, response, opcode,    *)
(* truncated, extra, ad], extra for the flags a query does not set.         *)

validate_pseudo_records(m) ==
    /\ \A i \in DOMAIN (m.answers \o m.authorities) : (m.answers \o m.authorities)[i].type # "OPT"
    /\ LET opts == {i \in DOMAIN m.additionals : m.additionals[i].type = "OPT"}
       IN Cardinality(opts) <= 1 /\ \A i \in opts : m.additionals[i].name = <<>>

\* A message of size 0 is shorter than its header.
parse_with_limits(wire, max_message_len) ==
    FirstError(<< <<wire.size <= max_message_len, "MessageTooLong">>,
                  <<wire.size > 0, "UnexpectedEof">>,
                  <<~wire.reserved, "ReservedHeaderBits">>,
                  <<Len(wire.questions) <= max_questions, "CountLimit">>,
                  <<Len(wire.answers) + Len(wire.authorities) + Len(wire.additionals) <= max_records, "CountLimit">>,
                  <<~wire.trailing, "TrailingBytes">>,
                  <<validate_pseudo_records(wire), "InvalidEdns">> >>)

IsStandard(question) == question.class = "IN" /\ question.name # <<>> /\ question.type # "OPT"
parse_query(wire, max_message_len) ==
    LET parsed == parse_with_limits(wire, max_message_len)
    IN IF parsed # "none" THEN parsed
       ELSE IF /\ ~wire.header.response /\ wire.header.opcode = 0 /\ ~wire.header.truncated /\ ~wire.header.extra
               /\ Len(wire.questions) = 1 /\ wire.answers = <<>> /\ wire.authorities = <<>>
               /\ Len(wire.additionals) <= 1
               /\ IsStandard(wire.questions[1])
               /\ \A i \in DOMAIN wire.additionals :
                    LET opt == wire.additionals[i]
                    IN opt.name = <<>> /\ opt.type = "OPT" /\ "client subnet" \notin opt.options
              THEN "none" ELSE "InvalidQuery"

encode_query(query) ==
    [size |-> 2, reserved |-> FALSE, trailing |-> FALSE,
     header |-> [id |-> query.id, response |-> FALSE, opcode |-> 0, truncated |-> FALSE, extra |-> FALSE, ad |-> FALSE],
     questions |-> <<query.question>>, answers |-> <<>>, authorities |-> <<>>,
     additionals |-> <<[name |-> <<>>, type |-> "OPT", options |-> {}]>>]

\* DnsMessage::parse, the browser's.
parse(wire) ==
    FirstError(<< <<wire.size > 0, "UnexpectedEof">>,
                  <<Len(wire.questions) <= MAX_DNS_QUESTIONS, "LengthLimit">>,
                  <<Len(wire.answers) + Len(wire.authorities) + Len(wire.additionals) <= MAX_DNS_RECORDS, "LengthLimit">>,
                  <<~wire.trailing, "TrailingBytes">> >>)

\* Mutant: the question of the response is not compared.
SameId(query, m) ==
    FirstError(<< <<m.header.response, "NotResponse">>, <<m.header.id = query.id, "IdMismatch">>,
                  <<m.header.opcode = 0, "OpcodeMismatch">>, <<~m.header.truncated, "Truncated">> >>)
correlate(query, m) ==
    FirstError(<< <<m.header.response, "NotResponse">>, <<m.header.id = query.id, "IdMismatch">>,
                  <<m.header.opcode = 0, "OpcodeMismatch">>, <<~m.header.truncated, "Truncated">>,
                  <<m.questions = <<query.question>>, "QuestionMismatch">> >>)

parse_correlated(query, wire, max_message_len) ==
    LET parsed == parse_with_limits(wire, max_message_len)
    IN IF parsed # "none" THEN parsed ELSE correlate(query, wire)

-----------------------------------------------------------------------------
(***************************************************************************)
(* Direct queries to the name servers a verified HNS resource commits to   *)
(* (hns-transport).  Requests run beside each other and the platform may    *)
(* cancel them all at any point; a request looks at the token before it     *)
(* connects, before it sends and after it has received.                     *)
(*                                                                         *)
(* An address is [class, id]; what is sent and received is a message of     *)
(* DnsWire.                                                                 *)
(***************************************************************************)

CONSTANTS Requests, MAX_AUTHORITY_ENDPOINTS, max_response_bytes

VARIABLES cancelled,        \* the token
          requests          \* each request: where it is and what it has

in_bailiwick(record, name) == record.tld = name
IsCommitted(record, name) == record.kind = "Synth" \/ (record.kind = "Glue" /\ in_bailiwick(record, name))

is_globally_routable(address) == address.class = "global"
IsPermitted(address, network, policy) ==
    CASE policy = "fixture" -> address.class = "loopback"
      [] network \in {"Mainnet", "Testnet"} -> is_globally_routable(address)
      [] OTHER -> address.class \notin {"unspecified", "multicast"}

\* The committed addresses the policy permits, each once, at one port.
from_verified_resource(resource, policy) ==
    LET committed == SelectSeq(resource.records, LAMBDA r : IsCommitted(r, resource.name))
        addresses == {committed[i].address : i \in DOMAIN committed}
        permitted == {a \in addresses : IsPermitted(a, resource.network, policy)}
        port == IF policy = "fixture" THEN "fixture" ELSE "53"
        Failed(error) == [error |-> error, endpoints |-> {}]
    IN IF policy = "fixture" /\ resource.network # "Regtest" THEN Failed("InvalidRegtestFixture")
       ELSE IF Cardinality(permitted) > MAX_AUTHORITY_ENDPOINTS THEN Failed("EndpointLimit")
       ELSE IF permitted = {} THEN Failed("NoPermittedEndpoint")
       ELSE [error |-> "none",
             endpoints |-> {[address |-> a, port |-> port, name |-> resource.name,
                             from |-> resource.from, until |-> resource.until] : a \in permitted}]

authorize(endpoint, query, now) ==
    CASE now < endpoint.from \/ now > endpoint.until -> "StaleAnchor"
      [] query.question.name = <<>> \/ Last(query.question.name) # endpoint.name -> "QueryOutsideAuthority"
      [] OTHER -> "none"

\* The same resource as the browser reads it: its entries become DNS records.  An entry
\* is [kind, ns, address, strings]; what a record does not carry is empty.
is_subdomain_or_equal(name, parent) == IsSuffix(parent, name)
synth_name(address) == <<<<address>>, <<Radix>>>>       \* Radix for the label "_synth"
RecordsOf(entry, owner) ==
    LET Own(type, ns) == [name |-> owner, type |-> type, ns |-> ns, address |-> 0]
        At(ns) == [name |-> ns, type |-> "A", ns |-> <<>>, address |-> entry.address]
    IN CASE entry.kind = "Ns" -> <<Own("NS", entry.ns)>>
         [] entry.kind = "Glue" -> <<Own("NS", entry.ns)>> \o
              (IF is_subdomain_or_equal(entry.ns, owner) THEN <<At(entry.ns)>> ELSE <<>>)
         [] entry.kind = "Synth" -> <<Own("NS", synth_name(entry.address)), At(synth_name(entry.address))>>
         [] OTHER -> <<Own(entry.kind, <<>>)>>
push_records(done, added) ==
    IF Len(done.records) + Len(added) > MAX_HANDSHAKE_RESOURCE_RECORDS THEN [done EXCEPT !.error = "TooManyRecords"]
    ELSE [done EXCEPT !.records = @ \o added]
decode_handshake_resource_records(owner, version, entries) ==
    LET Read(done, entry) ==
          CASE done.error # "none" -> done
            [] entry.kind = "cut short" -> [done EXCEPT !.error = "Malformed"]
            [] entry.kind = "unknown" -> [done EXCEPT !.error = "UnsupportedRecordType"]
            [] entry.kind = "Txt" /\ entry.strings > MAX_HANDSHAKE_TXT_STRINGS -> [done EXCEPT !.error = "TooManyRecords"]
            [] OTHER -> push_records(done, RecordsOf(entry, owner))
    IN FoldLeft(Read, [error |-> IF version = 0 THEN "none" ELSE "UnsupportedVersion", records |-> <<>>], entries)

\* The resources, queries and answers of the small world the transport runs in.
Address(class) == [class |-> class, id |-> 1]
Glue(tld, class) == [kind |-> "Glue", tld |-> tld, address |-> Address(class)]
Committed == {<<Glue(<<6>>, "global"), Glue(<<9>>, "multicast")>>, <<Glue(<<6>>, "loopback"), Glue(<<6>>, "private")>>,
              <<[kind |-> "Synth", tld |-> <<>>, address |-> Address("loopback")], Glue(<<6>>, "global")>>,
              <<[kind |-> "Ns", tld |-> <<6>>, address |-> Address("global")]>>}
AllResources == [network : {"Mainnet", "Regtest"}, name : {<<6>>}, records : Committed, from : {1}, until : {2}]

Question(name, type) == [name |-> name, type |-> type, class |-> "IN"]
AllQueries == {[id |-> id, question |-> Question(name, "TLSA")] : id \in 1..2, name \in {<<<<6>>>>, <<<<6>>, <<9>>>>, <<<<9>>, <<6>>>>}}
AnswerHeader(id) == [id |-> id, response |-> TRUE, opcode |-> 0, truncated |-> FALSE, extra |-> FALSE, ad |-> TRUE]
Opt == [name |-> <<>>, type |-> "OPT", options |-> {}]
Sound(query) == [size |-> 2, reserved |-> FALSE, trailing |-> FALSE, header |-> AnswerHeader(query.id),
                 questions |-> <<query.question>>, answers |-> <<>>, authorities |-> <<>>, additionals |-> <<Opt>>]
\* A response with one part off.
Off(wire) == {wire, [wire EXCEPT !.size = 0], [wire EXCEPT !.size = 4], [wire EXCEPT !.reserved = TRUE],
              [wire EXCEPT !.trailing = TRUE], [wire EXCEPT !.header.response = FALSE], [wire EXCEPT !.header.opcode = 1],
              [wire EXCEPT !.header.truncated = TRUE], [wire EXCEPT !.header.extra = TRUE], [wire EXCEPT !.answers = <<Opt>>],
              [wire EXCEPT !.additionals = <<Opt, Opt>>], [wire EXCEPT !.additionals[1].name = <<<<6>>>>],
              [wire EXCEPT !.additionals[1].options = {"client subnet"}], [wire EXCEPT !.questions = <<>>],
              [wire EXCEPT !.questions[1].class = "CH"], [wire EXCEPT !.questions[1].name = <<>>],
              [wire EXCEPT !.questions = @ \o @], [wire EXCEPT !.authorities = <<Opt, Opt, Opt>>]}
Arriving == UNION {Off(Sound(q)) : q \in {q \in AllQueries : q.id = 1 /\ Last(q.question.name) = <<6>>}}

Idle == [pc |-> "idle"]
Fail(error) == [pc |-> "done", result |-> error]
DirectInit == cancelled = FALSE /\ requests = [r \in Requests |-> Idle]

cancel == ~cancelled /\ cancelled' = TRUE /\ UNCHANGED requests

\* exchange_udp and exchange_tcp, up to the socket.
Begin(r) ==
    /\ requests[r].pc = "idle"
    /\ \E resource \in AllResources, policy \in {"standard", "fixture"},
       query \in {q \in AllQueries : q.id = 1}, now \in {0, 2, 3}, tcp \in BOOLEAN :
         LET set == from_verified_resource(resource, policy)
         IN /\ set.error = "none"
            /\ \E endpoint \in set.endpoints :
                 requests' = [requests EXCEPT ![r] =
                   IF authorize(endpoint, query, now) # "none" THEN Fail(authorize(endpoint, query, now))
                   ELSE IF cancelled THEN Fail("Cancelled")
                   ELSE [pc |-> "connecting", resource |-> resource, policy |-> policy, endpoint |-> endpoint,
                         query |-> query, now |-> now, tcp |-> tcp]]
    /\ UNCHANGED cancelled

\* The socket is connected, or fails; the token is read again.
Connect(r) ==
    /\ requests[r].pc = "connecting"
    /\ \/ requests' = [requests EXCEPT ![r] = Fail("Io")]
       \/ requests' = [requests EXCEPT ![r] = IF cancelled THEN Fail("Cancelled") ELSE [@ EXCEPT !.pc = "sending"]]
    /\ UNCHANGED cancelled

Send(r) ==
    /\ requests[r].pc = "sending"
    /\ \/ requests' = [requests EXCEPT ![r] = Fail(IF @.tcp THEN "Io" ELSE "ShortWrite")]
       \/ requests' = [requests EXCEPT ![r] = [@ EXCEPT !.pc = "receiving"]]
    /\ UNCHANGED cancelled

\* Whatever arrives, or a timeout.  TCP states a length before the message is read.
Receive(r) ==
    /\ requests[r].pc = "receiving"
    /\ \/ requests' = [requests EXCEPT ![r] = Fail("Io")]
       \/ \E wire \in Arriving :
            requests' = [requests EXCEPT ![r] =
              IF @.tcp /\ (wire.size = 0 \/ wire.size > max_response_bytes) THEN Fail("ResponseLimit")
              ELSE [pc |-> "received", wire |-> wire, dead |-> cancelled] @@ @]
    /\ UNCHANGED cancelled

\* The last look at the token, and the parse.
Finish(r) ==
    /\ requests[r].pc = "received"
    /\ LET q == requests[r]
           error == IF cancelled THEN "Cancelled"
                    ELSE IF q.wire.size = 0 \/ q.wire.size > max_response_bytes THEN "ResponseLimit"
                    ELSE parse_correlated(q.query, q.wire, max_response_bytes)
       IN requests' = [requests EXCEPT ![r] = IF error = "none" THEN [q EXCEPT !.pc = "answered"] ELSE Fail(error)]
    /\ UNCHANGED cancelled

DirectNext == cancel \/ \E r \in Requests : Begin(r) \/ Connect(r) \/ Send(r) \/ Receive(r) \/ Finish(r)

-----------------------------------------------------------------------------
(***************************************************************************)
(* The DNS parsers on small messages, and the direct transport over them.  *)
(***************************************************************************)

CONSTANT MaxOctets

VARIABLE input

AskNames == \E message \in BoundedSeq({0, 1, 2, 4, 5, 7, 12}, MaxOctets) : input' = [ask |-> "dns name", message |-> message]

\* A name judged: it means the same written out, does not depend on what follows it
\* when no pointer is followed, and the browser reads the same one when its labels are those of hosts.
NameIsWhole(message, at, end) ==
    LET name == decode_name(message, at, end)
        written == encode(name.labels)
    IN name.ok =>
         /\ Len(written) <= 6
         /\ decode_name(written, 0, Len(written)) = Name(name.labels, Len(written))
         /\ name.next = at + Len(written) /\ name.next <= end => decode_name(SubSeq(message, 1, end), at, end) = name
         /\ (\A i \in DOMAIN name.labels : \A j \in DOMAIN name.labels[i] : IsHostOctet(name.labels[i][j])) =>
              parse_wire(message, at) = name

Zeros(n) == [i \in 1..n |-> 0]
Lead(type) == CASE type = "A" -> 3 [] type = "MX" -> 2 [] type = "SRV" -> 6 [] type \in {"DS", "NSEC3"} -> 4
                [] type = "RRSIG" -> 18 [] type = "TLSA" -> 3 [] type = "OPT" -> 3 [] OTHER -> 0
AskRdata ==
    \E type \in {"A", "NS", "SOA", "MX", "SRV", "DS", "RRSIG", "NSEC", "NSEC3", "TLSA", "TXT", "OPT", "HTTPS"},
       before \in {<<1, 5, 0>>, <<12, 0, 0>>}, names \in BoundedSeq({0, 1, 5, 12}, 3), tail \in {0, 1, 20},
       after \in {<<>>, <<0>>, <<1>>} :
      LET rdata == Zeros(Lead(type)) \o names \o Zeros(tail)
      IN input' = [ask |-> "rdata", type |-> type, message |-> before \o rdata \o after,
                   start |-> Len(before), end |-> Len(before) + Len(rdata)]

\* RDATA judged: the same fields without what follows it in the message, written out
\* on its own, and as the browser keeps it (which writes the signer of an RRSIG out
\* only where it begins with a pointer).
RdataIsWhole(message, start, end, type) ==
    LET rdata == parse_rdata(message, start, end, type)
        Alone(octets) == parse_rdata(octets, 0, Len(octets), type)
        kept == normalize_record_rdata(message, start, end, type)
    IN rdata.ok =>
         /\ parse_rdata(SubSeq(message, 1, end), start, end, type) = rdata
         /\ Alone(encode_rdata(rdata)) = rdata
         /\ type \in {"NS", "SOA"} /\ kept.ok => Alone(kept.octets) = rdata
         /\ type = "RRSIG" /\ kept.ok /\ Len(kept.octets) = Len(encode_rdata(rdata)) => Alone(kept.octets) = rdata

AskMessages == \E query \in AllQueries : \E wire \in Off(Sound(query)) \cup Off(encode_query(query)) :
                 input' = [ask |-> "dns message", query |-> query, wire |-> wire]

\* A message answers one query at most, is one the browser can read and is not a query
\* itself; a query that is sent is one a strict server accepts.
MessageAnswersOne(query, wire) ==
    LET answered == {q \in AllQueries : parse_correlated(q, wire, 3) = "none"}
    IN /\ Cardinality(answered) <= 1
       /\ answered # {} => parse(wire) = "none"
       /\ answered # {} => parse_query(wire, 3) # "none"
       /\ parse_query(encode_query(query), 3) = "none"

Entry(kind, ns, address, strings) == [kind |-> kind, ns |-> ns, address |-> address, strings |-> strings]
ServerNames == {<<>>, <<<<6>>>>, <<<<5>>, <<6>>>>, <<<<6>>, <<9>>>>, synth_name(1)}
Entries == {Entry("Glue", ns, 1, 0) : ns \in ServerNames} \cup {Entry("Glue", <<<<5>>, <<6>>>>, 2, 0)}
           \cup {Entry("Ns", ns, 0, 0) : ns \in {<<<<6>>, <<9>>>>, synth_name(1)}}
           \cup {Entry("Synth", <<>>, address, 0) : address \in 1..2}
           \cup {Entry(kind, <<>>, 0, 1) : kind \in {"Txt", "cut short", "unknown"}} \cup {Entry("Txt", <<>>, 0, 2)}
AskServers == \E entries \in BoundedSeq(Entries, 3), version \in 0..1 :
                input' = [ask |-> "resource", version |-> version, entries |-> entries]

\* The name servers the browser finds in a resource are at the addresses the engine
\* may ask: those synthesized, and those of a server inside the name itself.
ServersAgree(version, entries) ==
    LET owner == <<<<6>>>>
        read == decode_handshake_resource_records(owner, version, entries)
        servers == {r.ns : r \in {r \in Range(read.records) : r.name = owner /\ r.type = "NS"}}
        addressed == {r \in Range(read.records) : r.type = "A" /\ r.name \in servers}
        Engines(entry) == [kind |-> entry.kind, tld |-> IF entry.ns = <<>> THEN <<>> ELSE Last(entry.ns)]
    IN read.error = "none" =>
         /\ {r.address : r \in addressed} = {e.address : e \in {e \in Range(entries) : IsCommitted(Engines(e), owner[1])}}
         /\ \A r \in Range(read.records) : r.type = "A" \/ r.name = owner
         /\ Len(read.records) <= MAX_HANDSHAKE_RESOURCE_RECORDS

\* An answer is the whole answer to the query that was sent, and it was sent to an
\* address the query's own name commits to and the network permits, under an anchor
\* that was current; nothing that arrives after a cancellation is an answer.
DirectAnswersHold ==
    \A r \in Requests :
      LET q == requests[r]
      IN /\ q.pc \in {"sending", "receiving", "received", "answered"} =>
              /\ q.now \in q.resource.from..q.resource.until
              /\ Last(q.query.question.name) = q.resource.name
              /\ \E i \in DOMAIN q.resource.records :
                   LET record == q.resource.records[i]
                   IN /\ record.address = q.endpoint.address
                      /\ record.kind = "Synth" \/ (record.kind = "Glue" /\ record.tld = q.resource.name)
              /\ q.resource.network = "Mainnet" => q.endpoint.address.class = "global" /\ q.endpoint.port = "53"
         /\ q.pc = "answered" => ~q.dead /\ q.wire.questions = <<q.query.question>> /\ q.wire.size \in 1..3

AskDns == AskNames \/ AskRdata \/ AskMessages \/ AskServers

\* What is read from a DNS message is what it says, whoever reads it, and is the
\* answer to the query that was sent where it may be sent (hns-dns-wire,
\* hns-browser-primitives, hns-transport).
DnsMessagesAgree ==
    /\ input.ask = "dns name" => \A end \in 1..Len(input.message) : \A at \in 0..(end - 1) : NameIsWhole(input.message, at, end)
    /\ input.ask = "rdata" => RdataIsWhole(input.message, input.start, input.end, input.type)
    /\ input.ask = "dns message" => MessageAnswersOne(input.query, input.wire)
    /\ input.ask = "resource" => ServersAgree(input.version, input.entries)
    /\ DirectAnswersHold
=============================================================================
