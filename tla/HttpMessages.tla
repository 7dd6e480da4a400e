---------------------------- MODULE HttpMessages ----------------------------
(***************************************************************************)
(* The HTTP/1 decisions of the browser's loopback proxy as functions: what *)
(* a request target means, how a request body is delimited, which fields   *)
(* cross the proxy in either direction, and how a response is delimited    *)
(* for the client.  (hns-browser-loopback-proxy: http1.rs, response.rs and *)
(* the ICANN relay of mobile/server.rs)                                    *)
(*                                                                         *)
(* A field is a record of a lower-case name, which stands for the class    *)
(* the code puts it in, and of what its value says: text, a set of tokens  *)
(* or a number.  Error is in place of a result, or among the tokens, where *)
(* the code returns an error; an optional number is a sequence of at most  *)
(* one.                                                                    *)
(***************************************************************************)
EXTENDS Naturals, Sequences, SequencesExt

Error == "error"
Bad == 1000              \* a number that does not parse
NoPort == 2000           \* no port is written
NoAuthority == [host |-> "none", port |-> NoPort]
Field(n) == [name |-> n, text |-> "x", tokens |-> {}, number |-> 0]
Refused == <<Field(Error)>>
Failed == [kind |-> Error, scheme |-> Error, authority |-> NoAuthority]

\* Field-name classes: is_hop_by_hop and is_proxy_managed_response_header are
\* predicates on them; "x-end" is any end-to-end field.
is_hop_by_hop(n) ==
  n \in {"connection", "keep-alive", "proxy-authorization", "proxy-connection", "te",
         "trailer", "transfer-encoding", "upgrade"}
IsProxyField(n) == n \in {"proxy-authorization", "proxy-connection", "proxy-other"}
is_internal_header(n) == n \in {"x-hns-trusted", "x-hns-other"}
is_trusted_metadata_header(n) == n = "x-hns-trusted"
is_proxy_managed_response_header(n) ==
  IsProxyField(n) \/ n \in {"connection", "alt-svc", "content-length", "keep-alive", "te",
                            "trailer", "transfer-encoding", "upgrade"}

Fields(headers, n) == SelectSeq(headers, LAMBDA h : h.name = n)
header_values(headers, n) ==
  LET named == Fields(headers, n) IN [i \in DOMAIN named |-> named[i].text]

(***************************************************************************)
(* Request targets.  An authority is a host and a port; NoAuthority stands *)
(* for no CONNECT session around the request.                              *)
(***************************************************************************)
default_port(scheme) == IF scheme \in {"http", "ws"} THEN 80 ELSE 443
is_secure(scheme) == scheme \in {"https", "wss"}

\* The text of a target: authority form (CONNECT), absolute form or a path.
\* A port is NoPort when it is not written, 0 or Bad when it is no port.
ParsedPort(written, default) == IF written = NoPort THEN default ELSE written
parse_authority(text, default) ==
  IF text.host = Error \/ ParsedPort(text.port, default) \in {0, Bad, NoPort}
    THEN NoAuthority
    ELSE [host |-> text.host, port |-> ParsedPort(text.port, default)]

parse_absolute_target(text) ==
  LET authority == parse_authority(text.authority, default_port(text.scheme))
  IN IF authority = NoAuthority \/ text.scheme = Error THEN Failed
     ELSE [kind |-> "absolute", scheme |-> text.scheme, authority |-> authority]

parse_request_target(method, text, connected) ==
  LET inside == connected # NoAuthority
      authority == parse_authority(text.authority, NoPort)
      absolute == parse_absolute_target(text)
  IN CASE method = "CONNECT" ->
            IF inside \/ text.form # "authority" \/ authority = NoAuthority THEN Failed
            ELSE [kind |-> "connect", scheme |-> "https", authority |-> authority]
       [] method # "CONNECT" /\ inside /\ text.form = "path" ->
            [kind |-> "origin", scheme |-> "https", authority |-> connected]
       [] method # "CONNECT" /\ text.form = "absolute" ->
            IF inside /\ (~is_secure(absolute.scheme) \/ absolute.authority # connected)
              THEN Failed ELSE absolute
       [] OTHER -> Failed

\* RequestHead::validated_target: the Host field names the same authority.
\* "host" is the sequence of Host values; each is the text of an authority.
DefaultPort(target) ==
  CASE target.kind = "absolute" -> default_port(target.scheme)
    [] target.kind = "connect" -> target.authority.port
    [] OTHER -> 443
validated_target(head, connected) ==
  LET target == parse_request_target(head.method, head.text, connected)
      named == CASE Len(head.host) = 0 -> head.version = "1.0"
                 [] Len(head.host) = 1 ->
                      parse_authority(head.host[1], DefaultPort(target)) = target.authority
                 [] OTHER -> FALSE
  IN IF target # Failed /\ named THEN target ELSE Failed

(***************************************************************************)
(* Request bodies.                                                         *)
(***************************************************************************)
\* parse_content_length on each Content-Length field: the declared lengths.
Lengths(headers) == [i \in DOMAIN Fields(headers, "content-length") |->
                      Fields(headers, "content-length")[i].number]

determine_body_framing(headers) ==
  LET lengths == Lengths(headers)
      codings == header_values(headers, "transfer-encoding")
  IN IF Len(lengths) > 1 \/ lengths = <<Bad>> \/ (Len(codings) > 0 /\ Len(lengths) > 0)
        \/ codings \notin {<<>>, <<"chunked">>}
       THEN [kind |-> Error, length |-> 0]
     ELSE IF codings # <<>> THEN [kind |-> "chunked", length |-> 0]
     ELSE IF lengths # <<>> THEN [kind |-> "fixed", length |-> lengths[1]]
     ELSE [kind |-> "none", length |-> 0]

\* A chunked body on the wire is a sequence of lines and data: a chunk line has
\* a size and an extension that is valid or not, then that many bytes of data
\* are there or not; size 0 is followed by trailer fields up to an empty line.
TrailerAllowed(n) ==
  ~is_hop_by_hop(n) /\ n \notin {"content-length", "host", "proxy-other", "x-hns-other", "x-hns-trusted"}

read_chunk_trailers(trailers) == \A i \in DOMAIN trailers : TrailerAllowed(trailers[i])

\* The result is the number of body bytes, or Bad.
read_chunked_body(chunks, trailers, max) ==
  LET read[i \in 0..Len(chunks)] ==
        IF i = 0 THEN 0
        ELSE IF read[i - 1] = Bad \/ ~chunks[i].valid \/ ~chunks[i].complete THEN Bad
        ELSE IF read[i - 1] + chunks[i].size > max THEN Bad
        ELSE read[i - 1] + chunks[i].size
  IN IF read_chunk_trailers(trailers) THEN read[Len(chunks)] ELSE Bad

\* "wire" is what follows the head: the bytes there are, and the chunked reading.
read_request_body(framing, wire, max) ==
  CASE framing.kind = "none" -> 0
    [] framing.kind = "fixed" ->
         IF framing.length > max \/ wire.bytes < framing.length THEN Bad ELSE framing.length
    [] framing.kind = "chunked" -> read_chunked_body(wire.chunks, wire.trailers, max)
    [] OTHER -> Bad

(***************************************************************************)
(* Fields that cross the proxy towards the origin.                         *)
(***************************************************************************)

\* connection_nominated_fields: the tokens of the fields with these names, with
\* Error among them when one of them is not a token.
Tokens(headers, names) ==
  UNION {headers[i].tokens : i \in {j \in DOMAIN headers : headers[j].name \in names}}
connection_nominated_fields(headers) == Tokens(headers, {"connection", "proxy-connection"})

\* The fields that cross are a sequence; Refused is an error.
sanitize_forward_headers(headers) ==
  LET nominated == connection_nominated_fields(headers)
  IN IF Error \in nominated THEN Refused
     ELSE SelectSeq(headers, LAMBDA h : /\ ~is_hop_by_hop(h.name) /\ ~IsProxyField(h.name)
                                        /\ ~is_internal_header(h.name) /\ h.name \notin nominated)

Upgrades(headers) ==
  /\ "upgrade" \in Tokens(headers, {"connection"})
  /\ header_values(headers, "upgrade") = <<"websocket">>

UpgradeFields == << [Field("connection") EXCEPT !.tokens = {"upgrade"}],
                    [Field("upgrade") EXCEPT !.text = "websocket"] >>

sanitize_upgrade_forward_headers(headers) ==
  IF Error \in connection_nominated_fields(headers) \/ ~Upgrades(headers) THEN Refused
  ELSE sanitize_forward_headers(headers) \o UpgradeFields

\* build_forward_headers and build_upgrade_forward_headers: the Host of the
\* route replaces whatever the client sent, and no length or expectation passes.
build_forward_headers(headers, authority, upgrade) ==
  LET kept == IF upgrade THEN sanitize_upgrade_forward_headers(headers)
                         ELSE sanitize_forward_headers(headers)
  IN IF kept = Refused THEN kept
     ELSE Append(SelectSeq(kept, LAMBDA h : h.name \notin {"host", "content-length", "expect"}),
                 [Field("host") EXCEPT !.text = authority])

(***************************************************************************)
(* Responses.                                                              *)
(***************************************************************************)
\* The first step drops nominated fields, so a nominated X-HNS field never
\* becomes metadata; a repeated trusted field is an error.
sanitize_response_headers(headers) ==
  LET nominated == Tokens(headers, {"connection"})
      kept == SelectSeq(headers, LAMBDA h : h.name \notin nominated)
      metadata == SelectSeq(kept, LAMBDA h : is_trusted_metadata_header(h.name))
  IN IF Error \in nominated \/ Len(metadata) > 1
       THEN [ok |-> FALSE, forwarded |-> <<>>, metadata |-> <<>>]
     ELSE [ok |-> TRUE, metadata |-> metadata,
           forwarded |-> SelectSeq(kept, LAMBDA h : /\ ~is_internal_header(h.name)
                                                    /\ ~is_proxy_managed_response_header(h.name))]

ForbidsBody(status) == status \in {204, 205, 304}

\* encode_response_head: a body whose length the backend declares.
encode_response_head(method, status, body_len) ==
  IF status \notin 200..599 \/ (ForbidsBody(status) /\ body_len # 0)
    THEN [ok |-> FALSE, length |-> <<>>, body |-> 0]
  ELSE [ok |-> TRUE,
        length |-> IF ForbidsBody(status) THEN <<>> ELSE <<body_len>>,
        body |-> IF method = "HEAD" \/ ForbidsBody(status) THEN 0 ELSE body_len]

encode_upgrade_response_head(status, headers) ==
  LET nominated == Tokens(headers, {"connection"})
  IN IF status # 101 \/ Error \in nominated \/ ~Upgrades(headers) THEN Refused
     ELSE UpgradeFields \o
          SelectSeq(headers, LAMBDA h : /\ h.name \notin nominated /\ ~is_internal_header(h.name)
                                        /\ ~is_proxy_managed_response_header(h.name))

\* read_icann_response_head, with response_content_length and response_is_chunked,
\* on the final head; interim responses carry no framing field and are skipped,
\* at most MaxInformational of them.
MaxInformational == 8
read_icann_response_head(method, informational, status, headers) ==
  LET lengths == Lengths(headers)
      codings == header_values(headers, "transfer-encoding")
  IN IF informational > MaxInformational
        \/ Len(lengths) > 1 \/ lengths = <<Bad>> \/ codings \notin {<<>>, <<"chunked">>}
        \/ (codings # <<>> /\ lengths # <<>>)
        \/ (status \in {204, 205} /\ (codings # <<>> \/ lengths \notin {<<>>, <<0>>}))
       THEN [framing |-> Error, length |-> <<>>]
     ELSE [length |-> lengths,
           framing |-> IF method = "HEAD" \/ ForbidsBody(status) THEN "none"
                       ELSE IF codings # <<>> THEN "chunked"
                       ELSE IF lengths # <<>> THEN "fixed" ELSE "close"]

\* encode_icann_response_head: the length the client is told.
encode_icann_response_head(method, response) ==
  IF response.framing = "fixed" \/ (response.framing = "none" /\ method = "HEAD")
    THEN response.length ELSE <<>>

\* relay_exact_body, relay_chunked_body and relay_close_delimited_body: the body
\* bytes the client is sent, from an origin that has "bytes" of body to send.
relay_icann_body(response, bytes) ==
  CASE response.framing = "none" -> 0
    [] response.framing = "fixed" -> IF bytes < response.length[1] THEN Bad ELSE response.length[1]
    [] OTHER -> bytes

(***************************************************************************)
(* Properties, as predicates of the inputs.                                *)
(***************************************************************************)
NamesIn(fields) == {fields[i].name : i \in DOMAIN fields}
EndToEnd(fields, nominated) ==
  \A i \in DOMAIN fields : /\ ~is_hop_by_hop(fields[i].name) /\ ~IsProxyField(fields[i].name)
                           /\ ~is_internal_header(fields[i].name) /\ fields[i].name \notin nominated

\* What a client can make the origin see: of the fields it sent only end-to-end
\* ones it did not nominate, in their order; exactly one Host, the route's; no
\* length; and the hop-by-hop pair of an upgrade only when it asked for the
\* WebSocket upgrade (build_forward_headers, build_upgrade_forward_headers).
RequestFieldsAreSafe(headers, upgrade) ==
  LET out == build_forward_headers(headers, "route", upgrade)
      own == SelectSeq(out, LAMBDA h : h \notin {UpgradeFields[1], UpgradeFields[2]})
  IN out # Refused =>
       /\ header_values(out, "host") = <<"route">>
       /\ NamesIn(out) \cap {"content-length", "expect", "transfer-encoding"} = {}
       /\ EndToEnd(own, Tokens(headers, {"connection", "proxy-connection"}) \ {"host"})
       /\ upgrade <=> "upgrade" \in NamesIn(out)
       /\ upgrade => Upgrades(headers) /\ header_values(out, "upgrade") = <<"websocket">>

\* A client that reads the head it was sent takes exactly the bytes relayed to
\* it as the body: a declared length is the number of bytes sent, and where none
\* is declared the end of the connection ends the body (encode_response_head,
\* encode_icann_response_head with the three relays).
ClientReads(method, status, length, sent) ==
  IF method = "HEAD" \/ status \in {204, 304} THEN 0
  ELSE IF length # <<>> THEN length[1] ELSE sent
ResponseFramingAgrees(method, status, headers, informational, bytes) ==
  LET response == read_icann_response_head(method, informational, status, headers)
      sent == relay_icann_body(response, bytes)
      own == encode_response_head(method, status, bytes)
  IN /\ (response.framing # Error /\ sent # Bad) =>
          ClientReads(method, status, encode_icann_response_head(method, response), sent) = sent
     /\ own.ok => ClientReads(method, status, own.length, own.body) = own.body

\* What an origin can make the browser see or trust: no framing, connection or
\* X-HNS field of its own, metadata only from a single trusted field that the
\* origin's Connection field does not nominate.
ResponseFieldsAreSafe(headers, status) ==
  LET out == sanitize_response_headers(headers)
      switched == encode_upgrade_response_head(status, headers)
      Clean(fields) == \A i \in DOMAIN fields :
                         /\ ~is_internal_header(fields[i].name)
                         /\ ~is_proxy_managed_response_header(fields[i].name)
                         /\ fields[i].name \notin Tokens(headers, {"connection"})
  IN /\ out.ok => Clean(out.forwarded) /\ Len(out.metadata) <= 1
     /\ (out.ok /\ "x-hns-trusted" \in Tokens(headers, {"connection"})) => out.metadata = <<>>
     /\ switched # Refused => Clean(SubSeq(switched, 3, Len(switched))) /\ SubSeq(switched, 1, 2) = UpgradeFields

\* A request that reaches a handler names one authority: the target's, which the
\* Host field repeats, and inside a CONNECT session the session's, over TLS.
TargetIsOneAuthority(head, connected) ==
  LET target == validated_target(head, connected)
  IN target # Failed =>
       /\ target.authority.port \notin {0, Bad, NoPort}
       /\ connected # NoAuthority => /\ target.authority = connected /\ is_secure(target.scheme)
                                     /\ target.kind \in {"origin", "absolute"}
       /\ connected = NoAuthority => target.kind \in {"absolute", "connect"}
       /\ \A i \in DOMAIN head.host : Len(head.host) = 1 /\ head.host[i].host = target.authority.host

\* A body that was read has the length its framing declared, within the limit,
\* and a head that says two things about its body is refused (determine_body_framing,
\* read_request_body, read_chunked_body).
BodyIsDelimited(headers, wire, max) ==
  LET framing == determine_body_framing(headers)
      read == read_request_body(framing, wire, max)
      total == FoldLeft(LAMBDA sum, chunk : sum + chunk.size, 0, wire.chunks)
  IN read # Bad =>
       /\ read <= max
       /\ ~({"content-length", "transfer-encoding"} \subseteq NamesIn(headers))
       /\ framing.kind = "fixed" => Lengths(headers) = <<read>> /\ wire.bytes >= read
       /\ framing.kind = "chunked" => read = total /\ \A i \in DOMAIN wire.chunks : wire.chunks[i].valid
       /\ framing.kind = "none" => read = 0

-----------------------------------------------------------------------------
(***************************************************************************)
(* The origin transport's messages as functions: which requests it takes,  *)
(* what it writes for one, and how it finds the end of the response so     *)
(* that the connection can carry another.  (hns-browser-transport:         *)
(* mobile.rs and chromium.rs, which agree on all of this)                  *)
(*                                                                         *)
(* Fields are as above.  A stream is a sequence of tokens: a *)
(* head, a chunk-size line, a byte of data, the line end after a chunk, a  *)
(* trailer field, an empty line; the stream's end is the peer closing.     *)
(***************************************************************************)

CONSTANTS MaxInterim,     \* MAX_INFORMATIONAL_RESPONSES
          HeaderBudget,   \* max_response_header_bytes: a head costs 2, a line 1
          MaxBody,        \* max_response_body_bytes
          MaxTrailers     \* MAX_HTTP_TRAILER_FIELDS

(***************************************************************************)
(* Requests.                                                               *)
(***************************************************************************)
is_hop_by_hop_header(n) ==
  n \in {"connection", "keep-alive", "proxy-authorization", "proxy-connection", "te",
         "trailer", "transfer-encoding", "upgrade"}
connection_nominated_headers(headers) == Tokens(headers, {"connection"})
has_header(headers, n) == n \in {headers[i].name : i \in DOMAIN headers}
is_protocol_upgrade(headers) ==
  has_header(headers, "upgrade") \/ "upgrade" \in Tokens(headers, {"connection"})

UsesTls(scheme) == scheme \in {"https", "wss"}
ServiceTransport(protocol) == IF protocol = "Http3" THEN "Udp" ELSE "Tcp"

\* validate_browser_tls_decision: what the namespace policy decided agrees with
\* the records that are there.
validate_browser_tls_decision(tls) ==
  tls.decision = "none" \/
    /\ tls.mode = "IcannWebPki"
    /\ CASE tls.decision = "EnforceDane" -> tls.secure /\ tls.records > 0
         [] tls.decision = "WebPkiAuthenticatedAbsence" -> tls.secure /\ tls.records = 0
         [] OTHER -> ~tls.secure /\ tls.records = 0

validate_request_common(r) ==
  /\ UsesTls(r.scheme) => r.tls.port = r.port
  /\ r.tls.transport = ServiceTransport(r.protocol)
  /\ r.tls.ech => UsesTls(r.scheme)
  /\ Len(Fields(r.headers, "user-agent")) <= 1
  /\ Error \notin connection_nominated_headers(r.headers)
validate_request(r) == validate_request_common(r) /\ ~is_protocol_upgrade(r.headers)
validate_tunnel_request(r) ==
  validate_request_common(r) /\ is_protocol_upgrade(r.headers) /\ r.body = 0

\* validate_explicit_webpki_passthrough_request: raw bytes to an address are only
\* for a planned ICANN request whose plan found no TLSA record to enforce.
validate_explicit_webpki_passthrough_request(r) ==
  /\ validate_request_common(r) /\ validate_browser_tls_decision(r.tls)
  /\ UsesTls(r.scheme) /\ r.protocol # "Http3" /\ r.tls.mode = "IcannWebPki"
  /\ r.tls.planned /\ r.tls.transport = "Tcp"
  /\ r.tls.decision \in {"WebPkiAuthenticatedAbsence", "WebPkiInsecureDelegation"}
  /\ r.explicit

Own(name, text) == [Field(name) EXCEPT !.text = text]
Defaults(headers, nominated) ==
  SelectSeq(<<Own("user-agent", "default"), Own("accept", "default")>>,
            LAMBDA h : ~has_header(headers, h.name) /\ h.name \notin nominated)
Passed(headers, nominated) ==
  SelectSeq(headers, LAMBDA h : /\ ~is_hop_by_hop_header(h.name) /\ h.name \notin nominated
                                /\ h.name \notin {"host", "content-length"})
Sizes(body) == IF body = 0 THEN <<>> ELSE <<[Field("content-length") EXCEPT !.number = body]>>

build_http_request(headers, body, keep_alive) ==
  LET nominated == connection_nominated_headers(headers)
  IN <<Own("host", "route")>> \o Defaults(headers, nominated) \o Passed(headers, nominated)
     \o Sizes(body) \o <<Own("connection", IF keep_alive THEN "keep-alive" ELSE "close")>>

\* The authority is in the URI of an HTTP/2 or HTTP/3 request.
build_http2_request(headers, body) ==
  LET nominated == connection_nominated_headers(headers)
  IN Defaults(headers, nominated) \o Passed(headers, nominated) \o Sizes(body)

build_http_upgrade_request(headers) ==
  LET nominated == connection_nominated_headers(headers)
      kept == SelectSeq(headers, LAMBDA h :
                /\ h.name \notin {"host", "content-length", "proxy-connection"}
                /\ is_hop_by_hop_header(h.name) => h.name \in {"connection", "upgrade"}
                /\ h.name \in nominated => h.name = "upgrade")
      connection == [Field("connection") EXCEPT !.tokens = {"upgrade"}]
  IN <<Own("host", "route")>> \o Defaults(headers, nominated) \o kept
     \o (IF "upgrade" \in Tokens(kept, {"connection"}) THEN <<>> ELSE <<connection>>)
     \o (IF has_header(kept, "upgrade") THEN <<>> ELSE <<Own("upgrade", "websocket")>>)

validate_upgrade_response_head(status, headers) ==
  /\ status = 101 /\ "upgrade" \in Tokens(headers, {"connection"})
  /\ \E i \in DOMAIN headers : headers[i].name = "upgrade" /\ headers[i].text = "websocket"

(***************************************************************************)
(* Responses.                                                              *)
(***************************************************************************)
Token(kind, n) == [kind |-> kind, n |-> n, version |-> "1.1", headers |-> <<>>]
HeadToken(version, status, headers) ==
  [kind |-> "head", n |-> status, version |-> version, headers |-> headers]

\* content_length: <<>>, the one length repeated or not, or <<Bad>>.
content_length(headers) ==
  LET lengths == Lengths(headers)
  IN IF lengths = <<>> THEN <<>>
     ELSE IF \A i \in DOMAIN lengths : lengths[i] = lengths[1] THEN <<lengths[1]>> ELSE <<Bad>>
transfer_encoding(headers) == header_values(headers, "transfer-encoding")
connection_close(headers) == "close" \in Tokens(headers, {"connection"})

response_has_no_body(method, status) ==
  method = "HEAD" \/ status \in 100..199 \/ status \in {204, 304}

Outcome(ok, reusable, body, rest) == [ok |-> ok, reusable |-> reusable, body |-> body, rest |-> rest]
Malformed == Outcome(FALSE, FALSE, 0, <<>>)
After(stream, n) == SubSeq(stream, n + 1, Len(stream))
AllData(stream, n) == Len(stream) >= n /\ \A i \in 1..n : stream[i].kind = "data"

\* read_header_bytes with the loop over interim responses: the final head and what
\* follows it, with what is left of the header budget.
FinalHead(stream) ==
  LET budget(i) == HeaderBudget - 2 * i
      interim(i) == /\ stream[i].n \in 100..199 /\ stream[i].n # 101 /\ i <= MaxInterim
                    /\ ~has_header(stream[i].headers, "transfer-encoding")
                    /\ ~has_header(stream[i].headers, "content-length")
      read[i \in 0..Len(stream)] ==     \* heads read, Bad after an error
        IF i = 0 THEN 0
        ELSE IF read[i - 1] # i - 1 THEN read[i - 1]
        ELSE IF stream[i].kind # "head" \/ budget(i) < 0 THEN Bad
        ELSE IF stream[i].n \notin 100..199 THEN i - 1
        ELSE IF interim(i) /\ budget(i) > 0 THEN i ELSE Bad
      skipped == read[Len(stream)]
  IN IF skipped = Bad \/ skipped = Len(stream) THEN [ok |-> FALSE, at |-> 0, budget |-> 0]
     ELSE [ok |-> TRUE, at |-> skipped + 1, budget |-> budget(skipped + 1)]

read_fixed_body_to_writer(stream, length) ==
  IF length > MaxBody \/ ~AllData(stream, length) THEN Malformed
  ELSE Outcome(TRUE, TRUE, length, After(stream, length))

read_until_eof_to_writer(stream) ==
  IF Len(stream) > MaxBody \/ ~AllData(stream, Len(stream)) THEN Malformed
  ELSE Outcome(TRUE, FALSE, Len(stream), <<>>)

\* read_trailers: fields up to an empty line, within the rest of the header budget.
read_trailers(stream, budget) ==
  LET field(i) == stream[i].kind = "trailer" /\ stream[i].n = 0 /\ i <= MaxTrailers
      ends == {i \in DOMAIN stream : stream[i].kind = "empty" /\ \A j \in 1..(i - 1) : field(j)}
  IN {i \in ends : i <= budget}

\* read_chunked_body_to_writer, one chunk after another.
read_chunked_body_to_writer(stream, budget) ==
  LET Step(r) ==
        IF ~r.ok \/ r.reusable THEN r
        ELSE IF r.rest = <<>> \/ r.rest[1].kind # "size" THEN Malformed
        ELSE LET size == r.rest[1].n
                 data == After(r.rest, 1)
             IN IF size = Bad THEN Malformed
                ELSE IF size = 0
                  THEN LET ends == read_trailers(data, budget)
                       IN IF ends = {} THEN Malformed
                          ELSE Outcome(TRUE, TRUE, r.body, After(data, CHOOSE i \in ends : TRUE))
                ELSE IF r.body + size > MaxBody \/ ~AllData(data, size) \/ Len(data) <= size
                        \/ data[size + 1].kind # "crlf"
                  THEN Malformed
                  ELSE Outcome(TRUE, FALSE, r.body + size, After(data, size + 1))
      read == FoldLeft(LAMBDA r, token : Step(r), Outcome(TRUE, FALSE, 0, stream), stream)
  IN IF read.reusable THEN read ELSE Malformed

\* "reusable" in the result of a body reader says that the body delimits itself.
parse_http_response_to_writer_reusable(method, stream) ==
  LET final == FinalHead(stream)
      head == stream[final.at]
      rest == After(stream, final.at)
      length == content_length(head.headers)
      codings == transfer_encoding(head.headers)
      body == IF response_has_no_body(method, head.n) THEN Outcome(TRUE, TRUE, 0, rest)
              ELSE IF codings # <<>>
                THEN IF length # <<>> \/ codings # <<"chunked">> THEN Malformed
                     ELSE read_chunked_body_to_writer(rest, final.budget)
              ELSE IF length # <<>> THEN read_fixed_body_to_writer(rest, length[1])
              ELSE read_until_eof_to_writer(rest)
  IN IF ~final.ok THEN Malformed
     ELSE [body EXCEPT !.reusable = body.reusable /\ head.version = "1.1" /\ ~connection_close(head.headers)]

\* fetch_https_http2_to_writer_inner and the HTTP/3 one after the head: the frames
\* of data against the declared length.
read_http2_response(method, status, headers, frames) ==
  LET total == FoldLeft(LAMBDA sum, n : sum + n, 0, frames)
      expected == content_length(headers)
  IN IF transfer_encoding(headers) # <<>> \/ expected = <<Bad>> THEN Bad
     ELSE IF response_has_no_body(method, status) THEN (IF total = 0 THEN 0 ELSE Bad)
     ELSE IF total > MaxBody \/ (expected # <<>> /\ expected[1] # total) THEN Bad
     ELSE total

(***************************************************************************)
(* Properties, as predicates of the inputs.                                *)
(***************************************************************************)
\* What the origin reads: one Host, the route's, and one length exactly when there
\* is a body; no field the request nominated, whether it came with the request or
\* is a default; and Connection only in the transport's own words
\* (build_http_request, build_http2_request, build_http_upgrade_request).
OriginSeesOwnFields(headers, body) ==
  LET nominated == Tokens(headers, {"connection"})
      h1 == build_http_request(headers, body, TRUE)
      h2 == build_http2_request(headers, body)
      up == build_http_upgrade_request(headers)
      Clean(out, allowed) ==
        /\ \A n \in NamesIn(out) \ allowed : n \notin nominated /\ ~is_hop_by_hop(n)
        /\ Lengths(out) = IF body = 0 THEN <<>> ELSE <<body>>
        /\ Len(Fields(out, "user-agent")) <= 1 \/ Len(Fields(headers, "user-agent")) > 1
  IN Error \notin nominated =>
       /\ Clean(h1, {"host", "connection", "content-length"}) /\ Clean(h2, {"content-length"})
       /\ header_values(h1, "host") = <<"route">> /\ "host" \notin NamesIn(h2)
       /\ header_values(h1, "connection") = <<"keep-alive">>
       /\ header_values(up, "host") = <<"route">> /\ Lengths(up) = <<>>
       /\ "upgrade" \in Tokens(up, {"connection"}) /\ has_header(up, "upgrade")
       /\ \A n \in NamesIn(up) \ {"host", "connection", "upgrade"} : n \notin nominated

\* How an origin that follows RFC 9112 delimits its response, and what it writes:
\* interim heads, the head, the body, and the start of its next response unless
\* only closing ends the body.
Framing(method, status, headers) ==
  IF method = "HEAD" \/ status \in 100..199 \cup {204, 304} THEN "none"
  ELSE IF header_values(headers, "transfer-encoding") # <<>> THEN "chunked"
  ELSE IF Lengths(headers) # <<>> THEN "fixed" ELSE "close"
Data(n) == [i \in 1..n |-> Token("data", 0)]
Chunked(sizes, trailers) ==
  FlattenSeq([i \in DOMAIN sizes |-> <<Token("size", sizes[i])>> \o Data(sizes[i]) \o <<Token("crlf", 0)>>])
  \o <<Token("size", 0)>> \o [i \in 1..trailers |-> Token("trailer", 0)] \o <<Token("empty", 0)>>
Total(sizes) == FoldLeft(LAMBDA sum, n : sum + n, 0, sizes)
NextResponse == <<HeadToken("1.1", 200, <<>>)>>
OriginWrites(m) ==
  LET framing == Framing(m.method, m.status, m.headers)
      body == CASE framing = "none" -> <<>>
                [] framing = "chunked" -> Chunked(m.sizes, m.trailers)
                [] OTHER -> Data(Total(m.sizes))
  IN [i \in 1..m.interim |-> HeadToken("1.1", 103, <<>>)]
     \o <<HeadToken(m.version, m.status, m.headers)>> \o body
     \o IF framing = "close" THEN <<>> ELSE NextResponse

\* A response is read to its end and no further: a connection goes back to the
\* pool only at the start of the next response, the body is the one the origin
\* sent, a response cut short is an error unless closing ends it, and one within
\* the limits is not refused (parse_http_response_to_writer_reusable).
ResponseEndsWhereItEnds(m) ==
  LET framing == Framing(m.method, m.status, m.headers)
      wire == OriginWrites(m)
      out == parse_http_response_to_writer_reusable(m.method, wire)
      total == IF framing = "none" THEN 0 ELSE Total(m.sizes)
      plain == /\ header_values(m.headers, "transfer-encoding") \in {<<>>, <<"chunked">>}
               /\ Lengths(m.headers) = <<>> \/ header_values(m.headers, "transfer-encoding") = <<>>
      honest == /\ Lengths(m.headers) # <<>> /\ framing = "fixed" =>
                     \A i \in DOMAIN Lengths(m.headers) : Lengths(m.headers)[i] = total
                /\ plain
  IN /\ out.ok /\ honest => /\ out.body = total
                            /\ out.reusable => out.rest = NextResponse
     /\ out.reusable => framing # "close" /\ m.version = "1.1" /\ ~connection_close(m.headers)
     /\ honest /\ total <= MaxBody /\ m.interim <= MaxInterim
          /\ 2 * (m.interim + 1) + m.trailers + 1 <= HeaderBudget /\ m.trailers <= MaxTrailers
          => out.ok
     /\ framing # "close" /\ honest =>
          \A cut \in (m.interim + 1)..(Len(wire) - 2) :
            ~parse_http_response_to_writer_reusable(m.method, SubSeq(wire, 1, cut)).ok

\* An HTTP/2 body that was taken is whole and is the declared one.
FramesAgree(method, status, headers, frames) ==
  LET body == read_http2_response(method, status, headers, frames)
  IN body # Bad =>
       /\ body = Total(frames) /\ body <= MaxBody
       /\ Framing(method, status, headers) = "fixed" => \A i \in DOMAIN Lengths(headers) : Lengths(headers)[i] = body
       /\ header_values(headers, "transfer-encoding") = <<>>

\* A switch of protocols that the proxy passes on is one the transport takes, as it
\* came and as it is passed on (validate_upgrade_response_head).
SwitchesAgree(status, headers) ==
  LET switched == encode_upgrade_response_head(status, headers)
  IN switched # Refused => /\ validate_upgrade_response_head(status, headers)
                           /\ validate_upgrade_response_head(status, switched)

\* Browser bytes are passed through without the transport's own TLS only where
\* there is no TLSA record to enforce, and never by the two other ways in.
PassthroughHasNoRecords(r) ==
  /\ validate_explicit_webpki_passthrough_request(r) =>
       r.tls.records = 0 /\ r.tls.decision # "EnforceDane" /\ r.tls.planned /\ ~(r.protocol = "Http3")
  /\ ~(validate_request(r) /\ validate_tunnel_request(r))
=============================================================================
