---------------------------- MODULE PeerMessages ----------------------------
(***************************************************************************)
(* hns-p2p-transport: one request to an authenticated peer and what may be *)
(* admitted as its response, over DNS Relay and over ODoH through a proxy. *)
(*                                                                         *)
(* An adapter moves the packets: it returns a response or a failure, and   *)
(* nothing about a response is taken on its word but the peer it was       *)
(* authenticated for and the time it was complete.  The peer's admission   *)
(* state and the sealing of queries are libraries.                         *)
(***************************************************************************)
EXTENDS Checks, FiniteSets, Integers, Sequences, SequencesExt

CONSTANTS MaxId,              \* the last request identifier (u64::MAX)
          MaxPayload,         \* MAX_DNS_RELAY_RESPONSE_PAYLOAD_SIZE, MAX_ODOH_PACKET_SIZE
          MaxDns              \* maximum_dns_response_bytes

Exhausted == 0                \* RequestIds with no identifier left

\* RequestIds::take: the identifier and what is left.
take(next) == [id |-> next, next |-> IF next = MaxId THEN Exhausted ELSE next + 1]

\* ExperimentalPeerState::admit_packet: which service a packet needs.
Services == [DnsRelay |-> {"relay"}, Odoh |-> {"extension", "odoh"}, Hnsr |-> {"extension", "hnsr"},
             Extension |-> {"extension"}]
Admits(peer, packet) == Services[packet] \subseteq peer.services

\* AuthenticatedPeer::bind: the error for a negotiation that cannot be.
bind(advertised, n) ==
    FirstError(<<
      <<advertised, "PeerAdmission">>,
      <<n.version # 0 /\ n.maximum_send_size # 0 /\ n.maximum_live_requests # 0, "InvalidNegotiatedRegistry">>,
      <<\A i \in 1..Len(n.protocols) : n.protocols[i].version # 0, "InvalidNegotiatedRegistry">>,
      <<Cardinality({n.protocols[i].id : i \in 1..Len(n.protocols)}) = Len(n.protocols),
        "InvalidNegotiatedRegistry">>>>)

\* admit_canonical_odoh_proxy, _hnsr_relay and _hnsr_participant: they differ in the packet.
CanonicalFor == [odoh_proxy |-> "Odoh", hnsr_relay |-> "Hnsr", hnsr_participant |-> "Extension"]
admit_canonical(role, peer, expected) ==
    FirstError(<<
      <<peer.profile = expected.profile /\ expected.profile = "ShakescapeV1", "UnexpectedWireProfile">>,
      <<peer.network = expected.network, "PeerAdmission">>,
      <<peer.genesis = expected.genesis, "PeerAdmission">>,
      <<peer.registry = "v1" /\ peer.registry_protocol, "InvalidNegotiatedRegistry">>,
      <<Admits(peer, CanonicalFor[role]), "PeerAdmission">>>>)

-----------------------------------------------------------------------------
(* The checks of an exchange, in their order.  A call is the requester's   *)
(* next identifier, the peer, for ODoH the target, the times and whether   *)
(* it is cancelled before or after the exchange; `answer' is what the      *)
(* adapter returns.                                                        *)

check_lifecycle(call) ==
    <<<<call.cancelled # "before", "Cancelled">>,
      <<call.now <= call.deadline, "DeadlineExpired">>>>

\* Before anything is sent.  With a target, it must be current and not be the proxy.
Sendable(call) ==
    LET packet == IF call.kind = "relay" THEN "DnsRelay" ELSE "Odoh"
    IN  check_lifecycle(call)
          \o (IF call.kind = "odoh" THEN <<<<call.now < call.expires_at, "ExpiredOdohTarget">>>> ELSE <<>>)
          \o (IF call.kind # "relay" THEN <<<<call.peer.identity # call.target, "ProxyTargetCollision">>>> ELSE <<>>)
          \o <<<<call.next # Exhausted, "RequestIdExhausted">>,
               <<Admits(call.peer, packet), "PeerAdmission">>,
               <<call.size <= call.peer.maximum_send_size, "NegotiatedRequestLimit">>>>

check_response_boundary(call, answer) ==
    <<<<call.cancelled # "after", "Cancelled">>,
      <<answer.completed_at >= call.now, "ResponseClockRollback">>,
      <<answer.completed_at <= call.deadline, "DeadlineExpired">>,
      <<answer.peer = call.peer.identity, "PeerIdentityMismatch">>,
      <<answer.payload \in 1..MaxPayload, "ResponseLimit">>>>

\* The DNS bytes of an answer: parsed, and of this very query.
admit_dns(call, answer) ==
    <<<<answer.dns \in 1..MaxDns, "ResponseLimit">>,
      <<answer.query # "unparsable", "DnsWire">>,
      <<answer.query = call.query, "DnsWire">>>>

\* VerifiedOdohTarget::decode of the record a proxy returned.
VerifiedTarget(call, answer) ==
    <<<<answer.signer = call.target, "OdohProtocol">>,
      <<answer.completed_at < call.expires_at, "OdohProtocol">>>>

Admissible(call, answer) ==
    LET packet == IF call.kind = "relay" THEN "DnsRelay" ELSE "Odoh"
        opcode == CASE call.kind = "relay" -> "Ok" [] call.kind = "odoh" -> "ClientResponse" [] OTHER -> "Config"
    IN  <<<<~answer.failed, "Adapter">>>>
          \o check_response_boundary(call, answer)
          \o (IF call.kind = "odoh" THEN <<<<answer.completed_at < call.expires_at, "ExpiredOdohTarget">>>> ELSE <<>>)
          \o <<<<answer.packet = packet, "UnexpectedPacket">>,
               <<answer.id = call.next, "RequestIdMismatch">>,
               <<answer.opcode # "Error", "Status">>,
               <<answer.opcode = opcode, "UnexpectedOdohOpcode">>>>
          \o (IF call.kind = "config" THEN VerifiedTarget(call, answer) ELSE admit_dns(call, answer))

\* exchange and request_target_configuration: how the call ends, whether a packet was sent
\* and what is left of the identifiers, which are spent before the packet is admitted.
exchange(call, answer) ==
    LET before == Sendable(call)
        failure == FirstFailure(before)
        sent == failure > Len(before)
    IN  [sent |-> sent,
         error |-> IF sent THEN FirstError(Admissible(call, answer)) ELSE FirstError(before),
         next |-> IF failure > Len(before) - 2 THEN take(call.next).next ELSE call.next]

\* encode_padded_client_query: the padding that fills the last bucket.
Padding(size, bucket) == IF bucket = 0 THEN 0 ELSE (bucket - ((12 + size) % bucket)) % bucket

\* gateway_failure; `status' is what the peer or the adapter itself said.
gateway_failure(error, status) ==
    CASE error \in {"Adapter", "Status"} /\ status \in {"Unreachable", "Busy"} -> "Unreachable"
      [] error = "DeadlineExpired" \/ (error \in {"Adapter", "Status"} /\ status = "Timeout") -> "Timeout"
      [] error = "NegotiatedRequestLimit" \/ (error \in {"Adapter", "Status"} /\ status = "Unsupported") ->
           "Unsupported"
      [] \/ error \in {"PeerAdmission", "InvalidNegotiatedRegistry", "UnexpectedWireProfile", "ExpiredOdohTarget",
                       "ProxyTargetCollision", "PeerIdentityMismatch", "InvalidPeerIdentity"}
         \/ error = "Adapter" /\ status = "AuthenticationFailed" -> "AuthenticationFailed"
      [] error = "Cancelled" \/ (error \in {"Adapter", "Status"} /\ status = "Cancelled") -> "Cancelled"
      [] OTHER -> "Malformed"

-----------------------------------------------------------------------------

\* The answer to one request is never admitted for a later one, whatever the adapter returns
\* again: the requester never uses an identifier twice, not even when a request is refused after
\* it took one, and it stops when there is none left.
AnswersAreNotReused(call, again, answer) ==
    LET first == exchange(call, answer)
        second == exchange([again EXCEPT !.next = first.next], answer)
    IN  /\ first.sent /\ second.sent => ~(first.error = "none" /\ second.error = "none")
        /\ second.sent => first.next # Exhausted

\* What is admitted came from the peer that was asked, while the request was alive, for this query
\* and, through a proxy, while the target's key was current; nothing is sent to a peer that has not
\* negotiated the protocol or to a proxy that is also the target.
AdmittedWasAsked(call, answer) ==
    LET e == exchange(call, answer)
    IN  /\ e.sent => /\ Admits(call.peer, IF call.kind = "relay" THEN "DnsRelay" ELSE "Odoh")
                     /\ call.kind # "relay" => call.peer.identity # call.target
        /\ e.error = "none" =>
             /\ e.sent /\ answer.peer = call.peer.identity
             /\ answer.completed_at \in call.now..call.deadline
             /\ call.kind # "config" => answer.query = call.query
             /\ call.kind # "relay" => answer.completed_at < call.expires_at

\* A failure that says something is wrong with the peer or with its answer never looks like one that
\* says it could not be reached: only the adapter, the clock or the peer's own status does.
FailuresAreNotSoftened(call, answer, status) ==
    LET e == exchange(call, answer)
        failure == gateway_failure(e.error, status)
    IN  /\ failure \in {"Unreachable", "Timeout"} => e.error \in {"Adapter", "Status", "DeadlineExpired"}
        /\ e.error = "PeerIdentityMismatch" => failure = "AuthenticationFailed"

\* A peer is canonical for every role or for none, but for the services of the role.
RolesAgree(peer, expected) ==
    LET Error(role) == admit_canonical(role, peer, expected)
    IN  /\ Error("hnsr_relay") = "none" => Error("hnsr_participant") = "none"
        /\ Error("odoh_proxy") = "none" => Error("hnsr_participant") = "none"
        /\ Error("hnsr_participant") \notin {"none", "PeerAdmission"} =>
             \A role \in DOMAIN CanonicalFor : Error(role) = Error("hnsr_participant")

-----------------------------------------------------------------------------
(***************************************************************************)
(* The questions put to an exchange.                                       *)
(***************************************************************************)

VARIABLE input

Proxy == [identity |-> "p", services |-> {"relay", "extension", "odoh"}, maximum_send_size |-> 1]
ExchangePeers == {Proxy, [Proxy EXCEPT !.identity = "t"], [Proxy EXCEPT !.services = {"extension"}]}
Calls ==
    [kind : {"relay", "odoh", "config"}, next : {Exhausted, 1, MaxId}, cancelled : {"before", "after", "no"},
     now : {1}, deadline : {2}, peer : {Proxy}, target : {"t"}, expires_at : {3}, size : {1}, query : {"q"}]
      \cup [kind : {"relay", "odoh", "config"}, next : {1}, cancelled : {"no"}, now : {1}, deadline : {0, 2},
            peer : ExchangePeers, target : {"t"}, expires_at : 1..3, size : {1, 2}, query : {"q"}]
ExchangeAnswers ==
    [failed : {FALSE}, completed_at : 0..3, peer : {"p", "t"}, payload : {1}, packet : {"DnsRelay", "Odoh"}, id : 1..2,
     opcode : {"Ok", "ClientResponse", "Config", "Error"}, dns : {1}, query : {"q", "other"}, signer : {"t", "p"}]
      \cup [failed : BOOLEAN, completed_at : {2}, peer : {"p"}, payload : {0, MaxPayload, MaxPayload + 1},
            packet : {"DnsRelay", "Odoh"}, id : {1}, opcode : {"Ok", "ClientResponse"},
            dns : {0, MaxDns, MaxDns + 1}, query : {"q", "unparsable"}, signer : {"t"}]

AskExchange ==
    \E call \in Calls, answer \in ExchangeAnswers :
      input' = [ask |-> "exchange", call |-> call, answer |-> answer]

Canonical == [profile |-> "ShakescapeV1", network |-> "n", genesis |-> "g"]
AskRole ==
    \E peer \in [profile : {"ShakescapeV1", "Other"}, network : {"n", "m"}, genesis : {"g", "h"}, registry : {"v1", "v2"},
                 registry_protocol : BOOLEAN, services : SUBSET {"relay", "extension", "odoh", "hnsr"}],
       profile \in {"ShakescapeV1", "Other"} :
      input' = [ask |-> "role", peer |-> peer, expected |-> [Canonical EXCEPT !.profile = profile]]

Negotiations == [version : 0..1, maximum_send_size : 0..1, maximum_live_requests : 0..1,
                 protocols : {<<>>, <<[id |-> 1, version |-> 1]>>, <<[id |-> 1, version |-> 0]>>,
                              <<[id |-> 1, version |-> 1], [id |-> 1, version |-> 2]>>,
                              <<[id |-> 1, version |-> 1], [id |-> 2, version |-> 1]>>}]
AskBinding ==
    \E n \in Negotiations, advertised \in BOOLEAN, size \in 0..9 :
      input' = [ask |-> "binding", negotiated |-> n, advertised |-> advertised, size |-> size]

AskExchanges == AskExchange \/ AskRole \/ AskBinding

\* A request is answered by the peer that was asked, once, and fails as what it is (exchange);
\* a padded query fills its bucket, and a session is bound only with one version per protocol.
ExchangesAgree ==
    /\ input.ask = "exchange" =>
         /\ AdmittedWasAsked(input.call, input.answer)
         /\ AnswersAreNotReused(input.call, input.call, input.answer)
         /\ \A status \in {"Unreachable", "Timeout", "Busy", "AuthenticationFailed", "Cancelled"} :
              FailuresAreNotSoftened(input.call, input.answer, status)
    /\ input.ask = "role" => RolesAgree(input.peer, input.expected)
    /\ input.ask = "binding" =>
         /\ bind(input.advertised, input.negotiated) = "none" =>
              \A i, j \in 1..Len(input.negotiated.protocols) :
                input.negotiated.protocols[i].id = input.negotiated.protocols[j].id => i = j
         /\ \A bucket \in {0, 4} : bucket # 0 => (12 + input.size + Padding(input.size, bucket)) % bucket = 0

-----------------------------------------------------------------------------
(***************************************************************************)
(* hns-browser-p2p: how packets cross a peer connection.                   *)
(*                                                                         *)
(* A wire is a sequence of fields: a field of fixed width is one number, a *)
(* varint is its value or a prefix and its value, a list is its count and  *)
(* its items.  Fixed-width fields that no decoder looks at (services,      *)
(* times, nonces, heights) are left out.  Limits are parameters.           *)
(***************************************************************************)

CONSTANTS Varint1, Varint2, Varint4,  \* the last values of one, two and four bytes
          Prefix2, Prefix4, Prefix8,  \* 0xfd, 0xfe, 0xff
          MAX_ADDR, MAX_HEADERS, MAX_INV, MAX_AGENT_LEN,
          MAX_DNS_RELAY_QUERY_SIZE,
          LastStatus,                 \* the last known DnsRelayStatus
          Magic, MAX_MESSAGE

FRAME_HEADER_SIZE == 3                \* magic, type and length

\* A decoded value and what is left of the wire, or why there is none.
Got(value, rest) == [error |-> "none", value |-> value, rest |-> rest]
Fail(error) == [error |-> error]
Failed(result) == result.error # "none"
AndThen(result, Step(_, _)) == IF Failed(result) THEN result ELSE Step(result.value, result.rest)

read(wire, n) == IF Len(wire) < n THEN Fail("UnexpectedEof")
                 ELSE Got(SubSeq(wire, 1, n), SubSeq(wire, n + 1, Len(wire)))

-----------------------------------------------------------------------------
(* Varints and lists.                                                      *)

write_varint(value) ==
    CASE value <= Varint1 -> <<value>>
      [] value > Varint1 /\ value <= Varint2 -> <<Prefix2, value>>
      [] value > Varint2 /\ value <= Varint4 -> <<Prefix4, value>>
      [] OTHER -> <<Prefix8, value>>

read_varint(wire) ==
    AndThen(read(wire, 1), LAMBDA first, rest :
      IF first[1] \notin {Prefix2, Prefix4, Prefix8} THEN Got(first[1], rest)
      ELSE AndThen(read(rest, 1), LAMBDA value, after :
             IF value[1] <= (CASE first[1] = Prefix2 -> Varint1
                               [] first[1] = Prefix4 -> Varint2
                               [] OTHER -> Varint4)
             THEN Fail("NonCanonicalVarint") ELSE Got(value[1], after)))

read_list(wire, limit, Width) ==
    AndThen(read_varint(wire), LAMBDA count, rest :
      IF count > limit THEN Fail("CountLimit") ELSE read(rest, count * Width))

\* NetAddress: only the address type 0 carries an address.
NetAddressEncode(address) == <<0, address>>
NetAddressDecode(pair) == IF pair[1] = 0 THEN pair[2] ELSE 0
Addresses(items) == [i \in 1..Len(items) \div 2 |-> NetAddressDecode(<<items[2 * i - 1], items[2 * i]>>)]

-----------------------------------------------------------------------------
(* Packets: a kind and the fields it carries.                              *)

Packet(kind, fields) == [kind |-> kind, fields |-> fields]
Empty == {"Verack", "GetAddr", "SendHeaders"}
Type == [Version |-> 0, Verack |-> 1, Ping |-> 2, Pong |-> 3, GetAddr |-> 4, Addr |-> 5,
         GetHeaders |-> 10, Headers |-> 11, SendHeaders |-> 12, GetProof |-> 26, Proof |-> 27,
         GetDnsRelay |-> 240, DnsRelay |-> 241]
KindOf(type) ==
    IF \E k \in DOMAIN Type : Type[k] = type THEN CHOOSE k \in DOMAIN Type : Type[k] = type ELSE "Unknown"

\* An unknown packet keeps its type byte as its first field.
raw_packet_type(packet) == IF packet.kind = "Unknown" THEN packet.fields[1] ELSE Type[packet.kind]

\* GetDnsRelayPacket and DnsRelayPacket: validate.
ValidQuery(id, query) ==
    CASE id = 0 -> "InvalidDnsRelayRequestId"
      [] id # 0 /\ query = <<>> -> "InvalidDnsRelayPacket"
      [] id # 0 /\ Len(query) > MAX_DNS_RELAY_QUERY_SIZE -> "DnsRelayQueryTooLarge"
      [] OTHER -> "none"
ValidResponse(id, status, response) ==
    CASE id = 0 -> "InvalidDnsRelayRequestId"
      [] id # 0 /\ (status = 0) = (response = <<>>) -> "InvalidDnsRelayPacket"
      [] OTHER -> "none"

\* encode_payload: the fields of a packet, refused where they do not fit.
encode_payload(packet) ==
    LET f == packet.fields
        kind == packet.kind
        Items(limit) == IF Len(f) > limit THEN Fail("CountLimit") ELSE Got(write_varint(Len(f)) \o f, <<>>)
    IN  CASE kind = "Version" ->
               IF Len(f[3]) > MAX_AGENT_LEN THEN Fail("AgentTooLong")
               ELSE Got(<<f[1]>> \o NetAddressEncode(f[2]) \o <<Len(f[3])>> \o f[3] \o <<f[4]>>, <<>>)
          [] kind \in Empty -> Got(<<>>, <<>>)
          [] kind = "Addr" ->
               IF Len(f) > MAX_ADDR THEN Fail("CountLimit")
               ELSE Got(write_varint(Len(f)) \o FlattenSeq([i \in 1..Len(f) |-> NetAddressEncode(f[i])]), <<>>)
          [] kind = "GetHeaders" ->
               IF Len(f[1]) > MAX_INV THEN Fail("CountLimit")
               ELSE Got(write_varint(Len(f[1])) \o f[1] \o <<f[2]>>, <<>>)
          [] kind = "Headers" -> Items(MAX_HEADERS)
          [] kind = "GetDnsRelay" ->
               LET error == ValidQuery(f[1], f[2])
               IN  IF error # "none" THEN Fail(error) ELSE Got(<<f[1], Len(f[2])>> \o f[2], <<>>)
          [] kind = "DnsRelay" ->
               LET error == ValidResponse(f[1], f[2], f[3])
               IN  IF error # "none" THEN Fail(error) ELSE Got(<<f[1], f[2], Len(f[3])>> \o f[3], <<>>)
          [] kind = "Unknown" -> Got(Tail(f), <<>>)
          [] OTHER -> Got(f, <<>>)              \* Ping, Pong, GetProof, Proof

VersionDecode(wire) ==
    AndThen(read(wire, 4), LAMBDA head, rest :
      IF head[4] > MAX_AGENT_LEN THEN Fail("AgentTooLong")
      ELSE AndThen(read(rest, head[4] + 1), LAMBDA tail, after :
             Got(Packet("Version", <<head[1], NetAddressDecode(<<head[2], head[3]>>), Front(tail),
                                     IF Last(tail) = 1 THEN 1 ELSE 0>>), after)))

\* The length of the body is checked against the limit before the payload.
GetDnsRelayDecode(wire) ==
    AndThen(read(wire, 2), LAMBDA head, rest :
      CASE head[1] = 0 -> Fail("InvalidDnsRelayRequestId")
        [] head[1] # 0 /\ head[2] > MAX_DNS_RELAY_QUERY_SIZE -> Fail("DnsRelayQueryTooLarge")
        [] OTHER -> AndThen(read(rest, head[2]), LAMBDA query, after :
             IF after # <<>> THEN Fail("TrailingBytes")
             ELSE IF ValidQuery(head[1], query) # "none" THEN Fail(ValidQuery(head[1], query))
             ELSE Got(Packet("GetDnsRelay", <<head[1], query>>), <<>>)))
DnsRelayDecode(wire) ==
    AndThen(read(wire, 3), LAMBDA head, rest :
      CASE head[1] = 0 -> Fail("InvalidDnsRelayRequestId")
        [] head[1] # 0 /\ head[2] > LastStatus -> Fail("InvalidDnsRelayStatus")
        [] OTHER -> AndThen(read(rest, head[3]), LAMBDA response, after :
             IF after # <<>> THEN Fail("TrailingBytes")
             ELSE IF ValidResponse(head[1], head[2], response) # "none"
                  THEN Fail(ValidResponse(head[1], head[2], response))
             ELSE Got(Packet("DnsRelay", <<head[1], head[2], response>>), <<>>)))

decode_payload(type, wire) ==
    LET kind == KindOf(type)
        Fixed(n) == AndThen(read(wire, n), LAMBDA f, rest : Got(Packet(kind, f), rest))
        packet ==
          CASE kind = "Version" -> VersionDecode(wire)
            [] kind \in Empty -> Fixed(0)
            [] kind \in {"Ping", "Pong"} -> Fixed(1)
            [] kind = "Addr" ->
                 AndThen(read_list(wire, MAX_ADDR, 2), LAMBDA items, rest : Got(Packet(kind, Addresses(items)), rest))
            [] kind = "GetHeaders" ->
                 AndThen(read_list(wire, MAX_INV, 1), LAMBDA locator, rest :
                   AndThen(read(rest, 1), LAMBDA stop, after : Got(Packet(kind, <<locator, stop[1]>>), after)))
            [] kind = "Headers" ->
                 AndThen(read_list(wire, MAX_HEADERS, 1), LAMBDA items, rest : Got(Packet(kind, items), rest))
            [] kind = "GetProof" -> Fixed(2)
            [] kind = "Proof" -> AndThen(read(wire, 2), LAMBDA f, rest : Got(Packet(kind, wire), <<>>))
            [] kind = "GetDnsRelay" -> GetDnsRelayDecode(wire)
            [] kind = "DnsRelay" -> DnsRelayDecode(wire)
            [] OTHER -> Got(Packet("Unknown", <<type>> \o wire), <<>>)
    IN  AndThen(packet, LAMBDA value, rest : IF rest # <<>> THEN Fail("TrailingBytes") ELSE Got(value, <<>>))

-----------------------------------------------------------------------------
(* Frames and the decoder that collects them from partial reads.           *)

encode_frame(packet) ==
    AndThen(encode_payload(packet), LAMBDA payload, rest :
      IF Len(payload) > MAX_MESSAGE THEN Fail("MessageTooLarge")
      ELSE Got(<<Magic, raw_packet_type(packet), Len(payload)>> \o payload, <<>>))

\* Nothing is decoded (value <<>>) while the frame is not complete.
decode_frame(data) ==
    IF Len(data) < FRAME_HEADER_SIZE THEN Got(<<>>, data)
    ELSE LET size == data[3]
         IN  CASE data[1] # Magic -> Fail("InvalidMagic")
               [] data[1] = Magic /\ size > MAX_MESSAGE -> Fail("MessageTooLarge")
               [] data[1] = Magic /\ size <= MAX_MESSAGE /\ data[2] = Type.GetDnsRelay
                    /\ size > 2 + MAX_DNS_RELAY_QUERY_SIZE -> Fail("DnsRelayQueryTooLarge")
               [] OTHER ->
                    IF Len(data) < FRAME_HEADER_SIZE + size THEN Got(<<>>, data)
                    ELSE AndThen(decode_payload(data[2], SubSeq(data, 4, 3 + size)), LAMBDA packet, none :
                           Got(<<packet>>, SubSeq(data, 4 + size, Len(data))))

\* FrameDecoder::feed: all complete frames of the buffer, decoded in turn.  After an
\* error nothing of this read is delivered; the connection is dropped.
Frames(data) ==
    LET collect[n \in 0..Len(data)] ==
          IF n = 0 THEN Got(<<>>, data)
          ELSE AndThen(collect[n - 1], LAMBDA packets, rest :
                 AndThen(decode_frame(rest), LAMBDA packet, after : Got(packets \o packet, after)))
    IN  collect[Len(data) \div FRAME_HEADER_SIZE]
feed(buffer, data) ==
    IF Len(buffer) + Len(data) > MAX_MESSAGE + FRAME_HEADER_SIZE THEN Fail("MessageTooLarge")
    ELSE Frames(buffer \o data)

-----------------------------------------------------------------------------
(* Addresses a peer tells of, and where peers come from.                   *)

\* AddrPacket::service_sockets: the usable addresses, each once, in order.
Unique(items) ==
    LET First(i) == \A j \in 1..(i - 1) : items[j] # items[i]
    IN  [k \in 1..Len(SelectSeq([i \in 1..Len(items) |-> i], First)) |->
           items[SelectSeq([i \in 1..Len(items) |-> i], First)[k]]]
service_sockets(items) ==
    LET Usable(a) == a.network /\ a.port # 0 /\ a.ip # "unspecified"
        Socket(a) == [ip |-> a.ip, port |-> a.port]
        kept == SelectSeq(items, Usable)
    IN  Unique([i \in 1..Len(kept) |-> Socket(kept[i])])

\* is_allowed_peer_endpoint.
is_allowed_peer_endpoint(network, port, socket) ==
    /\ socket.port # 0 /\ socket.ip # "unspecified"
    /\ \/ network \in {"mainnet", "testnet"} /\ socket.port = port /\ socket.ip = "public"
       \/ network = "regtest"

\* DnsSeedPeerSource::discover over seeds whose lookups gave `answers' (addresses,
\* or "io" for a failure): the error is reported only when nothing was found.
discover(answers, limit) ==
    LET found == [i \in 1..Len(answers) |-> IF answers[i] = <<"io">> THEN <<>> ELSE answers[i]]
        peers == Unique(FlattenSeq(found))
        failed == \E i \in 1..Len(answers) : answers[i] = <<"io">>
    IN  IF limit = 0 \/ answers = <<>> THEN Got(<<>>, <<>>)
        ELSE IF peers = <<>> /\ failed THEN Fail("Io")
        ELSE Got(SubSeq(peers, 1, IF Len(peers) < limit THEN Len(peers) ELSE limit), <<>>)

-----------------------------------------------------------------------------
(* Rows of the peer store: numbers in columns of 64 bits, times as text.   *)

Null == -1
Forever == 9                          \* the ban that saturated
MaxU32 == 3
Unreadable == 8                       \* text that is no number

optional_u64_to_text(time) == IF time = Null THEN <<>> ELSE <<time>>
optional_u64_from_text(text) ==
    CASE text = <<>> -> Got(Null, <<>>)
      [] text = <<Unreadable>> -> Fail("Storage")
      [] OTHER -> Got(text[1], <<>>)

save_peer_to_connection(peer) ==
    [last_height |-> peer.last_height, successes |-> peer.successes,
     observed_at |-> optional_u64_to_text(peer.observed_at),
     banned_until |-> optional_u64_to_text(peer.banned_until)]
row_to_peer_state(row) ==
    AndThen(optional_u64_from_text(row.banned_until), LAMBDA until, r1 :
      AndThen(optional_u64_from_text(row.observed_at), LAMBDA observed, r2 :
        IF {row.last_height, row.successes} \subseteq 0..MaxU32
        THEN Got([last_height |-> row.last_height, successes |-> row.successes, observed_at |-> observed,
                  banned_until |-> IF until = Forever THEN Null ELSE until], <<>>)
        ELSE Fail("Storage")))

-----------------------------------------------------------------------------

\* A packet means one thing on the wire: what decodes is what the same packet encodes
\* to (but for an address type or a relay flag that the decoder reads loosely), so no
\* packet has two encodings and none is accepted that could not have been sent.
PacketsAreCanonical(type, wire) ==
    \A decoded \in {decode_payload(type, wire)} :
        ~Failed(decoded) =>
          /\ raw_packet_type(decoded.value) = type
          /\ \A encoded \in {encode_payload(decoded.value)} :
                 /\ ~Failed(encoded)
                 /\ decode_payload(type, encoded.value) = decoded
                 /\ decoded.value.kind \notin {"Version", "Addr"} => encoded.value = wire

\* However a stream is cut into reads, its packets come out in order, once, up to the
\* first read that fails; when none fails, what is buffered is an incomplete frame.  Where the
\* whole stream fits the buffer, the cut decides nothing but which packets precede a failure.
ReadsDoNotMatter(packets, junk, cut1, cut2) ==
    \A stream \in {FlattenSeq([i \in 1..Len(packets) |-> encode_frame(packets[i]).value]) \o junk} :
    \A first \in {feed(<<>>, SubSeq(stream, 1, cut1))} :
    \A second \in {AndThen(first, LAMBDA got, rest : feed(rest, SubSeq(stream, cut1 + 1, cut2)))} :
    \A third \in {AndThen(second, LAMBDA got, rest : feed(rest, SubSeq(stream, cut2 + 1, Len(stream))))} :
    LET Part(result) == IF Failed(result) THEN <<>> ELSE result.value
        delivered == Part(first) \o (IF Failed(first) THEN <<>> ELSE Part(second))
                       \o (IF Failed(second) THEN <<>> ELSE Part(third))
    IN \A whole \in {Frames(stream)} :
        /\ ~Failed(third) => ~Failed(whole) /\ delivered = whole.value /\ third.rest = whole.rest
        /\ IsPrefix(delivered, packets) \/ IsPrefix(packets, delivered)
        /\ Len(stream) <= MAX_MESSAGE + FRAME_HEADER_SIZE => (Failed(third) = Failed(whole))

\* What peers and seeds tell is used once, within the limit, and a lookup that fails
\* hides nothing that another one found.
SeedsAreUsed(answers, limit) ==
    LET found == discover(answers, limit)
    IN  IF Failed(found)
        THEN \A i \in 1..Len(answers) : answers[i] \in {<<"io">>, <<>>}
        ELSE /\ Len(found.value) <= limit
             /\ \A i, j \in 1..Len(found.value) : found.value[i] = found.value[j] => i = j
             /\ Len(found.value) < limit => \A k \in 1..Len(answers) :
                  answers[k] # <<"io">> => ToSet(answers[k]) \subseteq ToSet(found.value)
\* A peer that was saved is loaded as it was, but for a ban without end, which lapses; a row
\* that no save wrote is loaded within the widths of its fields or not at all.
RowsAreFaithful(row) ==
    LET loaded == row_to_peer_state(row)
    IN  ~Failed(loaded) =>
          /\ loaded.value.last_height \in 0..MaxU32 /\ loaded.value.banned_until # Forever
          /\ row_to_peer_state(save_peer_to_connection(loaded.value)) = loaded
SocketsAreUsable(items, network, port) ==
    LET sockets == service_sockets(items)
        Allowed(s) == is_allowed_peer_endpoint(network, port, s)
        dialled == SelectSeq(sockets, Allowed)
    IN  \A i \in 1..Len(dialled) :
          /\ \A j \in 1..Len(dialled) : dialled[i] = dialled[j] => i = j
          /\ network # "regtest" => dialled[i].ip = "public" /\ dialled[i].port = port
          /\ \E k \in 1..Len(items) : items[k].network /\ items[k].port = dialled[i].port

-----------------------------------------------------------------------------
(***************************************************************************)
(* hns-browser-p2p, dns_relay.rs: the queries that may be relayed and the  *)
(* answers that may be returned for them.                                  *)
(*                                                                         *)
(* A message is a record of what is checked of it; a flag of the header is *)
(* a member of `flags', where "other" stands for the bits no query may set *)
(* and "rcode" for a response code.  An EDNS option is its code, or "cut"  *)
(* for one that ends before its length.  A name is one of the three that   *)
(* matter: two below Handshake names, and one that is not.                 *)
(***************************************************************************)

CONSTANTS MaxQuerySize, MaxResponseSize, MinEdnsSize

is_supported_dns_relay_type(type) == type # "ANY"

EdnsOption(option) ==
    CASE option = "cut" -> "InvalidEdns"
      [] option = "subnet" -> "EdnsClientSubnetForbidden"
      [] option = "padding" -> "none"
      [] OTHER -> "InvalidEdns"
validate_edns_options(options) ==
    LET bad == {i \in 1..Len(options) : EdnsOption(options[i]) # "none"}
    IN  IF bad = {} THEN "none"
        ELSE EdnsOption(options[CHOOSE i \in bad : \A j \in bad : i <= j])

validate_dns_relay_query(q, recursive) ==
    LET opts == q.additionals
        early == FirstError(<<
          <<q.size <= MaxQuerySize, "MessageTooLarge">>,
          <<q.parses, "MalformedMessage">>,
          <<~q.response /\ q.opcode = 0, "NotStandardQuery">>,
          <<q.questions = 1, "InvalidQuestionCount">>,
          <<{"other", "rcode"} \cap q.flags = {}, "InvalidQueryFlags">>,
          <<q.class = 1, "InvalidQuestionClass">>,
          <<is_supported_dns_relay_type(q.type), "UnsupportedQuestionType">>,
          <<q.name # "elsewhere", "InvalidHnsRoot">>,
          <<q.sections = 0, "QueryHasResponseSections">>,
          <<recursive => {"RD", "CD"} \subseteq q.flags, "InvalidRecursiveFlags">>,
          <<Len(opts) = 1, "InvalidEdns">>>>)
    IN  IF early # "none" THEN early
        ELSE FirstError(<<
          <<opts[1].type = 41 /\ opts[1].name = "", "InvalidEdns">>,
          <<opts[1].size \in MinEdnsSize..MaxQuerySize, "InvalidEdnsSize">>,
          <<opts[1].dnssec_ok, "DnssecOkRequired">>,
          <<~opts[1].extended, "InvalidEdns">>,
          <<validate_edns_options(opts[1].options) = "none", validate_edns_options(opts[1].options)>>>>)

\* The prepared query, or the query as it was and why it is refused.
prepare_dns_relay_query(q) ==
    LET error == validate_dns_relay_query(q, FALSE)
        prepared == [q EXCEPT !.flags = @ \cup {"RD", "CD"}]
    IN  IF error # "none" THEN [query |-> q, error |-> error]
        ELSE [query |-> prepared, error |-> validate_dns_relay_query(prepared, TRUE)]

validate_dns_relay_response(q, r) ==
    LET query == validate_dns_relay_query(q, TRUE)
    IN  IF query # "none" THEN query
        ELSE FirstError(<<
          <<r.size <= MaxResponseSize, "MessageTooLarge">>,
          <<r.parses, "MalformedMessage">>,
          <<r.response /\ r.opcode = 0, "NotStandardQuery">>,
          <<r.questions = 1, "InvalidQuestionCount">>,
          <<{"RD", "RA"} \subseteq r.flags, "InvalidRecursiveFlags">>,
          <<r.id = q.id, "ResponseIdMismatch">>,
          <<<<r.name, r.type, r.class>> = <<q.name, q.type, q.class>>, "ResponseQuestionMismatch">>>>)

-----------------------------------------------------------------------------

\* A query that is relayed asks a Handshake name, once, recursively, for signatures,
\* without checking by the relay and without telling where it comes from; preparing
\* changes nothing but the two flags, is done once, and never turns a good query bad.
PreparedAsksSafely(q) ==
    LET p == prepare_dns_relay_query(q)
    IN  /\ p.error = validate_dns_relay_query(q, FALSE)
        /\ p.error = "none" =>
             /\ {"RD", "CD"} \subseteq p.query.flags /\ p.query.name # "elsewhere"
             /\ Len(p.query.additionals) = 1 /\ p.query.additionals[1].dnssec_ok
             /\ \A i \in 1..Len(p.query.additionals[1].options) : p.query.additionals[1].options[i] = "padding"
             /\ prepare_dns_relay_query(p.query) = p
             /\ [p.query EXCEPT !.flags = {}] = [q EXCEPT !.flags = {}]

\* A response is accepted for a prepared query only if it is a recursive answer to that
\* very question, and for a query that was not prepared never.
ResponseAnswersQuestion(q, r) ==
    validate_dns_relay_response(q, r) = "none" =>
      /\ prepare_dns_relay_query(q) = [query |-> q, error |-> "none"]
      /\ r.response /\ r.id = q.id /\ <<r.name, r.type, r.class>> = <<q.name, q.type, q.class>> /\ "RA" \in r.flags

-----------------------------------------------------------------------------
(***************************************************************************)
(* The questions put to packets, frames and relay contents.                *)
(***************************************************************************)

CONSTANTS WireFields, MaxWire         \* the fields and length of a wire


Types == {Type[k] : k \in DOMAIN Type} \cup {30}

AskPayload ==
    \E type \in Types, wire \in BoundedSeq(WireFields, MaxWire) :
      input' = [ask |-> "payload", type |-> type, wire |-> wire]

Packets == {Packet("Verack", <<>>), Packet("Ping", <<1>>), Packet("Headers", <<1, 2>>),
            Packet("DnsRelay", <<1, 0, <<4>>>>), Packet("Unknown", <<30, 3>>)}
\* What may follow good frames: nothing, part of a frame, a frame of another network, a frame that
\* is too long or one that does not decode.
Junk == {<<>>, <<Magic>>, <<Magic, 2, 1>>, <<Magic + 1, 1, 0>>, <<Magic, 1, MAX_MESSAGE + 1>>,
         <<Magic, 240, MAX_DNS_RELAY_QUERY_SIZE + 3>>, <<Magic, 1, 1, 9>>}

AskReads ==
    \E packets \in BoundedSeq(Packets, 2), junk \in Junk, cut1, cut2 \in 0..14 :
      /\ cut1 <= cut2
      /\ cut2 <= Len(FlattenSeq([i \in 1..Len(packets) |-> encode_frame(packets[i]).value]) \o junk)
      /\ input' = [ask |-> "reads", packets |-> packets, junk |-> junk, cut1 |-> cut1, cut2 |-> cut2]

AskSeeds ==
    \E answers \in BoundedSeq({<<"io">>, <<>>, <<"a">>, <<"a", "b">>, <<"b", "c">>}, 3), limit \in 0..3 :
      input' = [ask |-> "seeds", answers |-> answers, limit |-> limit]

AskSockets ==
    \E items \in BoundedSeq([network : BOOLEAN, port : {0, 1, 2}, ip : {"unspecified", "public", "private"}], 2),
       network \in {"mainnet", "regtest", "other"} :
      input' = [ask |-> "sockets", items |-> items, network |-> network]

AskRow ==
    \E last_height, successes \in -1..4, observed_at, banned_until \in {<<>>, <<Unreadable>>, <<0>>, <<Forever>>} :
      input' = [ask |-> "row", row |-> [last_height |-> last_height, successes |-> successes,
                                        observed_at |-> observed_at, banned_until |-> banned_until]]

Options == {"padding", "subnet", "other", "cut"}
Opt == [type |-> 41, name |-> "", size |-> MinEdnsSize, dnssec_ok |-> TRUE, extended |-> FALSE, options |-> <<>>]
RelayQuery == [id |-> 1, size |-> 1, parses |-> TRUE, response |-> FALSE, opcode |-> 0, questions |-> 1,
               flags |-> {}, class |-> 1, type |-> "A", name |-> "one", sections |-> 0, additionals |-> <<Opt>>]
RelayQueries ==
    {[RelayQuery EXCEPT !.size = size, !.parses = parses, !.response = response, !.opcode = opcode,
                        !.questions = questions, !.flags = flags, !.name = name, !.sections = sections] :
       size \in {1, MaxQuerySize + 1}, parses \in BOOLEAN, response \in BOOLEAN, opcode \in {0, 1},
       questions \in 0..2, flags \in SUBSET {"RD", "CD", "other", "rcode"},
       name \in {"one", "elsewhere"}, sections \in 0..1}
      \cup {[RelayQuery EXCEPT !.class = class, !.type = type] : class \in {1, 2}, type \in {"A", "ANY"}}
Opts == [type : {1, 41}, name : {"", "n"}, size : {MinEdnsSize - 1, MinEdnsSize, MaxQuerySize, MaxQuerySize + 1},
         dnssec_ok : BOOLEAN, extended : BOOLEAN, options : BoundedSeq(Options, 2)]

AskRelayQuery ==
    \/ \E q \in RelayQueries : input' = [ask |-> "relay query", query |-> q]
    \/ \E opts \in BoundedSeq(Opts, 1) \cup {<<Opt, Opt>>} :
         input' = [ask |-> "relay query", query |-> [RelayQuery EXCEPT !.additionals = opts]]

AskRelayResponse ==
    \E flags \in SUBSET {"RD", "CD"}, reply \in SUBSET {"RD", "RA"}, id \in {1, 2}, response \in BOOLEAN,
       questions \in 0..2, name \in {"one", "two", "elsewhere"}, type \in {"A", "NS"},
       class \in {1, 2}, size \in {1, MaxResponseSize + 1}, parses \in BOOLEAN :
      input' = [ask |-> "relay response", query |-> [RelayQuery EXCEPT !.flags = flags],
                response |-> [RelayQuery EXCEPT !.flags = reply, !.id = id, !.response = response,
                                                !.questions = questions, !.name = name, !.type = type,
                                                !.class = class, !.size = size,
                                                !.parses = parses]]

AskWire == AskPayload \/ AskReads \/ AskSeeds \/ AskSockets \/ AskRow \/ AskRelayQuery \/ AskRelayResponse

\* What peers send means one thing, however it is read, and what is asked of a relay and taken
\* from it is what may be (Packet::decode, FrameDecoder::feed).
PeerMessagesAgree ==
    /\ input.ask = "payload" => PacketsAreCanonical(input.type, input.wire)
    /\ input.ask = "reads" => ReadsDoNotMatter(input.packets, input.junk, input.cut1, input.cut2)
    /\ input.ask = "seeds" => SeedsAreUsed(input.answers, input.limit)
    /\ input.ask = "sockets" => SocketsAreUsable(input.items, input.network, 1)
    /\ input.ask = "row" => RowsAreFaithful(input.row)
    /\ input.ask = "relay query" => PreparedAsksSafely(input.query)
    /\ input.ask = "relay response" => ResponseAnswersQuestion(input.query, input.response)
=============================================================================
