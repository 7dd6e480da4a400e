----------------------------- MODULE MCDecisions -----------------------------
(***************************************************************************)
(* What the system reads, what it makes of it and what it decides, on      *)
(* every small input. Most of it is functions: one step picks a question   *)
(* and its input, and the invariants judge the answer. The request         *)
(* handlers and the rate limiter of the browser proxy, a TLSA resolution   *)
(* and a direct DNS exchange take several steps and run beside them, while *)
(* "input" stays what it was at the start.                                 *)
(***************************************************************************)
EXTENDS HttpMessages, FiniteSets, StatusRecords

CONSTANTS MaxLabel, MaxName, MaxText, Clients, MaxEpoch,
          RateHosts, GlobalRequests, PerHostRequests, Window, MaxTrackedHosts, MaxTime, MaxSkew,
          MaxAliasSteps, MaxEndpoints, MaxAlpn, MaxParameters, MaxTlsa, MaxCname, PrivateIps, BlockedPorts,
          MaxTreeHeight,          \* bound on the heights of the name tree
          Varint1, Varint2, Varint4, Prefix2, Prefix4, Prefix8,
          MAX_ADDR, MAX_HEADERS, MAX_INV, MAX_AGENT_LEN, MAX_DNS_RELAY_QUERY_SIZE, LastStatus, Magic, MAX_MESSAGE,
          MaxQuerySize, MaxResponseSize, MinEdnsSize, WireFields, MaxWire,
          MaxId, MaxPayload, MaxDns,
          Wrap, MaxClock, max_cname_hops, Requests, MaxOctets, MaxZeros
VARIABLES input,
          platform, mode, cancelled, epoch, pc, req, captured, permits, rated, forwarded,
          heads, phases,
          clock, global, hosts, log, refused,
          resolution, found, tlsaClock, authorities, keysets, stopped, requests

R == INSTANCE ProxyRequests
       WITH IcannTlds <- {<<"b">>}, SpecialUse <- {<<"0", "a">>}, Blacklisted <- {<<"a", "b">>}
request == <<platform, mode, cancelled, epoch, pc, req, captured, permits, rated, forwarded,
             heads, phases>>
N == INSTANCE BrowserGateway
P == INSTANCE ProvenNames
limiter == <<clock, global, hosts, log, refused>>

KeyNamed(id) == [algorithm |-> IF id = "old" THEN 99 ELSE 8,
            tag |-> CASE id \in {"kc", "ev"} -> 1 [] id = "zc" -> 2 [] OTHER -> 3,
            zone |-> id # "host", revoked |-> id = "gone", valid |-> id # "odd", sound |-> id # "weak"]

\* Octets below 16: 5 is the capital of 6, 7 no letter of a host, 8 the wildcard.
LowerOf(o) == IF o = 5 THEN 6 ELSE o
IsHost(o) == o \in {1, 2, 5, 6, 9}

M == INSTANCE PeerMessages
S == INSTANCE DnssecSignatures
       WITH clock <- tlsaClock, evidence <- found, KeyOf <- KeyNamed, Supported <- {8}, SupportedDigests <- {"sha256"}, max_rrset_records <- 3, max_signatures <- 3,
            max_keys <- 3, max_tlsa_records <- 1, RequestedOwner <- <<"a", "z">>, BaseDomain <- <<"z">>,
            HnsResourceTtl <- 4, Star <- 0, Labels <- 0..2, HashSize <- 1031, max_denial_records <- 6,
            max_nsec3_iterations <- 1, NSEC3_MAX_ITERATIONS <- 1, ByteBits <- 2, MaxBlock <- 2, Apex <- <<1>>,
            Salts <- {500}, MaxRounds <- 1, MaxBitmap <- 4
W == INSTANCE DnsWire
       WITH cancelled <- stopped, Radix <- 16, MAX_LABEL_LEN <- 3, MAX_WIRE_NAME_LEN <- 6, max_labels_per_name <- 2,
            max_compression_jumps <- 1, max_questions <- 1, max_records <- 2, Lower <- LowerOf, IsHostOctet <- IsHost,
            Wildcard <- 8, MAX_AUTHORITY_ENDPOINTS <- 1, max_response_bytes <- 3,
            MAX_DNS_QUESTIONS <- 2, MAX_DNS_RECORDS <- 2, MAX_HANDSHAKE_RESOURCE_RECORDS <- 4, MAX_HANDSHAKE_TXT_STRINGS <- 1
C == INSTANCE DaneMatching
       WITH max_chain_certificates <- 3, max_tlsa_records <- 2, MAX_CERTIFICATE_TLSA_RECORDS <- 2,
            MAX_CERTIFICATE_TLSA_INPUT_RECORDS <- 2, MAX_DANE_TA_CANDIDATES <- 3, MAX_STATELESS_DANE_ROOTS <- 1,
            MAX_STATELESS_DANE_PROOFS <- 2, ByteBits <- 3, TagRadix <- 4, EngineOctets <- 2, BrowserOctets <- 3
resolving == <<resolution, found, tlsaClock, authorities, keysets>>
direct == <<stopped, requests>>

With(n, tokens) == [Field(n) EXCEPT !.tokens = tokens]
Said(n, text) == [Field(n) EXCEPT !.text = text]
Sized(number) == [Field("content-length") EXCEPT !.number = number]

RequestFields ==
  {With("connection", {"x-end"}), With("connection", {"upgrade"}), With("connection", {"host"}),
   With("connection", {Error}), With("proxy-connection", {"x-end"}), Said("upgrade", "websocket"),
   Said("upgrade", "h2c"), Said("host", "other"), Sized(1), Sized(2), Sized(Bad),
   Said("transfer-encoding", "chunked"), Said("transfer-encoding", "gzip"), Field("te"),
   Field("proxy-authorization"), Field("x-hns-trusted"), Field("x-end"), Field("expect")}
ResponseFields ==
  {With("connection", {"x-end"}), With("connection", {"upgrade"}), With("connection", {"x-hns-trusted"}),
   With("connection", {Error}), Said("upgrade", "websocket"), Sized(0), Sized(2), Sized(Bad),
   Said("transfer-encoding", "chunked"), Said("transfer-encoding", "gzip"), Field("alt-svc"),
   Field("x-hns-trusted"), Field("x-hns-other"), Field("x-end")}
Heads(fields) == BoundedSeq(fields, 3)

Authorities == [host : {"h1", "h2", Error}, port : {NoPort, 0, 80, 443, Bad}]
Texts == [form : {"authority", "absolute", "path"}, scheme : {"http", "https", "wss", Error},
          authority : Authorities]
Chunks == [size : {1, 2}, valid : BOOLEAN, complete : BOOLEAN]
Wires == [bytes : 0..2, chunks : BoundedSeq(Chunks, 2), trailers : {<<>>, <<"x-end">>, <<"host">>}]

OriginRequestFields ==
  {With("connection", {"x-end"}), With("connection", {"upgrade"}), With("connection", {"accept", "host"}),
   With("connection", {Error}), With("connection", {"connection"}), Said("upgrade", "websocket"),
   Said("host", "other"), Sized(1), Field("te"), Field("user-agent"), Field("x-end"), Field("proxy-connection")}
OriginResponseFields ==
  {With("connection", {"close"}), Sized(0), Sized(1), Sized(2), Sized(Bad), Said("transfer-encoding", "chunked"),
   Said("transfer-encoding", "gzip"), Field("x-end")}
Trusts == [port : {443}, transport : {"Tcp", "Udp"}, ech : {FALSE}, mode : {"HnsStrict", "IcannWebPki"},
           secure : BOOLEAN, records : 0..1, planned : BOOLEAN,
           decision : {"none", "EnforceDane", "WebPkiAuthenticatedAbsence", "WebPkiInsecureDelegation"}]

-----------------------------------------------------------------------------
(* Status records that are good but for one group of fields, the engine's  *)
(* own reports, and heights of the name tree.                              *)

Transports == {"DirectAuthoritativeUdp", "DirectAuthoritativeTcp", "AuthenticatedAuthoritativeDoh",
               "HandshakeP2pOdoh", "HandshakeP2pDnsRelay", "Unavailable", "ValidatingIcannDoh",
               "UserConfiguredRecursiveHnsDoh", "LocalHnsProof"}
Identities == [peer : {None, "", "a", "too long"}, proxy : {None, "a", "too long"}, target : {None, "", "a", "b"},
               direct_relay_fallback : BOOLEAN]
RoleNames == {"dns_relay", "hnsr_endpoint"}
ReadinessStates == {"Disabled", "Starting", "Ready", "RateLimited", "Degraded", "Revoked"}
Idle == [in_flight |-> 0, max_concurrency |-> 0, window_requests |-> 0, window_limit |-> 0, limited |-> FALSE]
Roles == [r \in RoleNames |-> r = "dns_relay"]

\* A status of a process that has resolved nothing yet.
Quiet == [schema_known |-> TRUE, runtime_generation |-> 1, policy_generation |-> 1, authority |-> "HeaderSyncing",
          roles |-> Roles, chain_anchor |-> FALSE, actual_transport |-> "Unavailable", identities |-> NoIdentities,
          evidence |-> not_attempted, registry_fingerprint |-> FALSE, protocol_version |-> 0,
          provider_readiness |-> from_policy(Roles), rate_limits |-> Idle, namespace_outcome |-> None,
          hns_root_failure |-> None, icann_root_failure |-> None, selected_namespace |-> None,
          selection_reason |-> None, decision_fingerprint |-> None, icann_tls_action |-> None,
          icann_dnssec_status |-> None, degraded_reason |-> None, revocation_reason |-> None,
          unsupported_evidence |-> 0]
Put(s) == input' = [ask |-> "status", status |-> s]

AskIdentities ==
  \E t \in Transports, ids \in Identities, registry \in BOOLEAN, version \in 0..1, anchor \in BOOLEAN,
     evidence \in {not_attempted, EvidenceOf("Verified")} :
    Put([Quiet EXCEPT !.actual_transport = t, !.identities = ids, !.registry_fingerprint = registry,
                      !.protocol_version = version, !.chain_anchor = anchor, !.evidence = evidence])
AskFailures ==
  \E authority \in {"HeaderSyncing", "Active", "Degraded", "Revoked", "Stopped"},
     degraded \in {None, "HeadersStale"}, reason \in {None, "PolicyChanged", "Stopped"},
     generations \in [runtime : 0..1, policy : 0..1], known \in BOOLEAN,
     unsupported \in 0..(MAX_UNSUPPORTED_EVIDENCE + 1) :
    Put([Quiet EXCEPT !.authority = authority, !.degraded_reason = degraded, !.revocation_reason = reason,
                      !.runtime_generation = generations.runtime, !.policy_generation = generations.policy,
                      !.schema_known = known, !.unsupported_evidence = unsupported])
AskProviders ==
  \E readiness \in [RoleNames -> ReadinessStates], roles \in [RoleNames -> BOOLEAN],
     limits \in [in_flight : 0..2, max_concurrency : 0..1, window_requests : 0..2, window_limit : 0..1, limited : BOOLEAN] :
    /\ limits = Idle \/ readiness = from_policy(roles)
    /\ Put([Quiet EXCEPT !.roles = roles, !.provider_readiness = readiness, !.rate_limits = limits])
Outcomes == {None, "Neither", "HnsOnly", "IcannOnly", "BothConvergent", "BothDivergent"}
Reasons == {None, "SingleRoot", "ExplicitPin", "StickyBinding", "IcannDefault"}
Failures == {None, "Timeout", "StaleHnsAnchor", "BogusDnssec", "IndeterminateDnssec"}
Actions == {None, "EnforceDane", "WebPkiAuthenticatedAbsence", "WebPkiInsecureDelegation", "FailClosed"}
IcannEvidence == {[not_attempted EXCEPT !.dnssec = d, !.tlsa = t, !.dane = a] :
                    d \in {"Verified", "Failed", "Unavailable", "NotAttempted"},
                    t \in {"Verified", "Unavailable", "NotAttempted"},
                    a \in {"Verified", "Failed", "NotAttempted"}}
AskNamespace ==
  \E outcome \in Outcomes, selected \in {None, "Hns", "Icann"}, reason \in Reasons, hns \in {None, "Timeout"},
     icann \in {None, "Timeout"}, fingerprint \in {None, "zero", "f"}, action \in {None, "FailClosed"},
     t \in {"Unavailable", "ValidatingIcannDoh", "DirectAuthoritativeUdp"} :
    Put([Quiet EXCEPT !.namespace_outcome = outcome, !.selected_namespace = selected, !.selection_reason = reason,
                      !.hns_root_failure = hns, !.icann_root_failure = icann, !.decision_fingerprint = fingerprint,
                      !.icann_tls_action = action, !.actual_transport = t])
AskIcann ==
  \E selected \in BOOLEAN, failure \in Failures, action \in Actions, e \in IcannEvidence,
     dnssec \in {None, "Secure", "InsecureDelegation", "Bogus", "Indeterminate"} :
    /\ ~selected \/ failure = None
    /\ Put([Quiet EXCEPT !.namespace_outcome = IF selected THEN "IcannOnly" ELSE None,
                         !.selected_namespace = IF selected THEN "Icann" ELSE None,
                         !.selection_reason = IF selected THEN "SingleRoot" ELSE None,
                         !.decision_fingerprint = IF selected THEN "f" ELSE None,
                         !.icann_root_failure = failure, !.icann_tls_action = action, !.icann_dnssec_status = dnssec,
                         !.actual_transport = "ValidatingIcannDoh", !.evidence = e])

-----------------------------------------------------------------------------
(* The engine's reports.                                                   *)

Engine(provenance, last) ==
  [provenance |-> provenance, last_evidence |-> last, runtime_generation |-> 1, policy_generation |-> 1,
   authority |-> "Active", roles |-> Roles]
Completed(t, ids, anchor) ==
  [transport |-> t, identities |-> ids, anchor |-> anchor, evidence |-> EvidenceOf("Verified")]
Engines == {Engine(<<>>, e) : e \in {not_attempted, revoked, unavailable_evidence}}
           \cup {Engine(<<Completed(t, ids, anchor)>>, EvidenceOf("Verified")) :
                   t \in Transports, ids \in {i \in Identities : WellFormed(i)}, anchor \in BOOLEAN}
\* What the caller adds for a lookup that was not made.
Asked == [icann_evidence |-> <<>>, registry_fingerprint |-> TRUE, protocol_version |-> 1,
          provider_readiness |-> from_policy(Roles), rate_limits |-> Idle, namespace_outcome |-> None,
          hns_root_failure |-> None, icann_root_failure |-> None, selected_namespace |-> None,
          selection_reason |-> None, decision_fingerprint |-> None, icann_tls_action |-> None,
          icann_dnssec_status |-> None, degraded_reason |-> None, revocation_reason |-> None,
          unsupported_evidence |-> 0]
AskCompletion ==
  \E engine \in Engines : input' = [ask |-> "report", engine |-> engine, runtime |-> Asked]

\* The namespaces select_namespace and select_single_namespace choose.
Policies == [pin : {"", "Hns", "Icann"}, binding : {"", "Hns", "Icann"}, precedence : {"PreferIcann", "FailClosed"}]
Choice(outcome, policy) ==
  CASE outcome = "Neither" -> N!Selected("", "")
    [] outcome = "HnsOnly" -> N!select_single_namespace(policy, "Hns")
    [] outcome = "IcannOnly" -> N!select_single_namespace(policy, "Icann")
    [] OTHER -> N!select_namespace(policy, outcome = "BothConvergent")
OrNone(text) == IF text = "" THEN None ELSE text
Chosen(outcome, choice) ==
  [Asked EXCEPT !.namespace_outcome = outcome, !.selected_namespace = OrNone(choice.selected),
                !.selection_reason = OrNone(choice.reason), !.decision_fingerprint = "f"]

\* What the caller reports of a validating lookup that decide_browser_tls judged.
Lookups == [authenticated : BOOLEAN, validated : BOOLEAN,
            dnssec : {"Secure", "InsecureDelegation", "Bogus", "Indeterminate"}, count : 0..1, denial : BOOLEAN]
Found(dnssec, tlsa, dane) == <<[not_attempted EXCEPT !.dnssec = dnssec, !.tlsa = tlsa, !.dane = dane]>>
OnIcann(r, lookup, matches) ==
  LET decision == N!decide_browser_tls(lookup)
      Says(action, status, evidence) ==
        [r EXCEPT !.icann_tls_action = action, !.icann_dnssec_status = status, !.icann_evidence = evidence]
  IN CASE decision = "EnforceDane" /\ matches -> Says(decision, "Secure", Found("Verified", "Verified", "Verified"))
       [] decision = "EnforceDane" -> Says("FailClosed", "Secure", Found("Verified", "Verified", "Failed"))
       [] decision = "WebPkiAuthenticatedAbsence" -> Says(decision, "Secure", Found("Verified", "Unavailable", "NotAttempted"))
       [] decision = "WebPkiInsecureDelegation" ->
            Says(decision, "InsecureDelegation", Found("Verified", "Unavailable", "NotAttempted"))
       [] OTHER -> r
FailedOnIcann(lookup, hns) ==
  LET judged == lookup.authenticated /\ lookup.validated
      r == [Asked EXCEPT !.icann_tls_action = "FailClosed", !.hns_root_failure = hns]
  IN CASE judged /\ lookup.dnssec = "Bogus" ->
            [r EXCEPT !.icann_root_failure = "BogusDnssec", !.icann_dnssec_status = "Bogus",
                      !.icann_evidence = Found("Failed", "NotAttempted", "NotAttempted")]
       [] judged /\ lookup.dnssec = "Indeterminate" ->
            [r EXCEPT !.icann_root_failure = "IndeterminateDnssec", !.icann_dnssec_status = "Indeterminate",
                      !.icann_evidence = Found("Unavailable", "NotAttempted", "NotAttempted")]
       [] OTHER -> [r EXCEPT !.icann_root_failure = "MalformedResponse",
                             !.icann_evidence = Found("NotAttempted", "NotAttempted", "NotAttempted")]
Decided(lookup) == N!decide_browser_tls(lookup) \in {"EnforceDane", "WebPkiAuthenticatedAbsence", "WebPkiInsecureDelegation"}
Sound == {Engine(<<>>, not_attempted),
          Engine(<<Completed("HandshakeP2pDnsRelay", [NoIdentities EXCEPT !.peer = "a"], TRUE)>>, EvidenceOf("Verified"))}
AskDecided ==
  \E engine \in Sound, outcome \in Outcomes \ {None}, policy \in Policies, lookup \in Lookups, matches \in BOOLEAN :
    LET choice == Choice(outcome, policy)
        r == Chosen(outcome, choice)
    IN /\ choice.error = ""
       /\ Decided(lookup)
       /\ input' = [ask |-> "decided", engine |-> engine,
                    runtime |-> IF choice.selected = "Icann" THEN OnIcann(r, lookup, matches) ELSE r]
AskFailed ==
  \E engine \in Sound, lookup \in Lookups, hns \in {None, "StaleHnsAnchor"}, icann \in BOOLEAN :
    /\ ~Decided(lookup)
    /\ icann \/ hns # None
    /\ input' = [ask |-> "decided", engine |-> engine,
                 runtime |-> IF icann THEN FailedOnIcann(lookup, hns) ELSE [Asked EXCEPT !.hns_root_failure = hns]]
AskHeights ==
  \E network \in DOMAIN name_tree_interval, local, target \in Unknown..MaxTreeHeight :
    input' = [ask |-> "heights", network |-> network, local |-> local, target |-> target]
AskFeature ==
  \E compiled, configured, active \in BOOLEAN, observed \in {None, "true", "false"} :
    input' = [ask |-> "feature", compiled |-> compiled, configured |-> configured, active |-> active, observed |-> observed]

AskStatus == \/ AskIdentities \/ AskFailures \/ AskProviders \/ AskNamespace \/ AskIcann
             \/ AskCompletion \/ AskDecided \/ AskFailed \/ AskHeights \/ AskFeature

-----------------------------------------------------------------------------
AskRequestFields ==
  \E h \in Heads(RequestFields), u \in BOOLEAN :
    input' = [ask |-> "request fields", headers |-> h, upgrade |-> u]
AskResponse ==
  \E h \in Heads(ResponseFields), method \in {"GET", "HEAD"}, status \in {101, 200, 204, 205, 304, 600} :
    input' = [ask |-> "response", headers |-> h, method |-> method, status |-> status]
AskTarget ==
  \E method \in {"GET", "CONNECT"}, text \in Texts, version \in {"1.0", "1.1"},
     host \in BoundedSeq(Authorities, 1), connected \in {NoAuthority, [host |-> "h1", port |-> 443]} :
    input' = [ask |-> "target", connected |-> connected,
              head |-> [method |-> method, text |-> text, version |-> version, host |-> host]]
AskBody ==
  \E h \in BoundedSeq({Sized(1), Sized(2), Sized(Bad), Said("transfer-encoding", "chunked"),
                       Said("transfer-encoding", "gzip"), Field("x-end")}, 2), wire \in Wires :
    input' = [ask |-> "body", headers |-> h, wire |-> wire]
AskHost ==
  \E text \in BoundedSeq({"a", "A", "b", "0", "-", ".", "o", "/", "_"}, MaxText),
     root \in {<<"a">>, <<"b", ".", "a">>, <<"0", ".", "0">>, <<".">>, <<"a", ".">>} :
    input' = [ask |-> "host", text |-> text, root |-> root]

AskOriginRequest ==
  \E h \in BoundedSeq(OriginRequestFields, 3), body \in 0..1 :
    input' = [ask |-> "origin request", headers |-> h, body |-> body]
AskOriginResponse ==
  \E h \in BoundedSeq(OriginResponseFields, 2), method \in {"GET", "HEAD"}, status \in {200, 204, 304},
     version \in {"1.0", "1.1"}, interim \in 0..3, trailers \in 0..2, sizes \in BoundedSeq(1..2, 2) :
    /\ Len(sizes) = 2 => trailers = 0
    /\ input' = [ask |-> "origin response",
                 message |-> [headers |-> h, method |-> method, status |-> status, version |-> version,
                              interim |-> interim, trailers |-> trailers, sizes |-> sizes]]
AskTrust ==
  \E tls \in Trusts, scheme \in {"http", "https"}, protocol \in {"Http11", "Http3"}, explicit \in BOOLEAN,
     headers \in {<<>>, <<With("connection", {"upgrade"}), Said("upgrade", "websocket")>>} :
    input' = [ask |-> "trust", request |-> [scheme |-> scheme, port |-> 443, protocol |-> protocol, tls |-> tls,
                                            headers |-> headers, body |-> 0, explicit |-> explicit]]

-----------------------------------------------------------------------------
\* Where a behaviour begins: one state for each kind of question.
Starts == {"denials", "hashed", "exchanges", "messages", "origins", "plans", "decisions", "fingerprints", "gateways",
           "proofs", "statuses", "wire", "signatures", "certificates", "dns",
           "handlers", "limiter", "tlsa", "direct"}
At(kind) == input = [start |-> kind, ask |-> ""]
Init == /\ R!Init /\ R!RateInit /\ S!TlsaInit /\ W!DirectInit
        /\ \E kind \in Starts : At(kind)
        /\ ~At("handlers") => platform = "chromium" /\ mode = "DaneBrowser"

Ask == /\ UNCHANGED <<request, limiter, resolving, direct>>
       /\ \/ At("messages") /\ (AskRequestFields \/ AskResponse \/ AskTarget \/ AskBody \/ AskHost)
          \/ At("origins") /\ (AskOriginRequest \/ AskOriginResponse \/ AskTrust)
          \/ At("plans") /\ N!AskPlan
          \/ At("decisions") /\ N!AskDecision
          \/ At("fingerprints") /\ N!AskPair
          \/ At("gateways") /\ (N!AskGateway \/ N!AskConnect \/ N!AskSingle)
          \/ At("proofs") /\ (P!AskDelegating \/ P!AskDeclaration \/ P!AskEndpoints)
          \/ At("statuses") /\ AskStatus
          \/ At("wire") /\ M!AskWire
          \/ At("exchanges") /\ M!AskExchanges
          \/ At("denials") /\ (S!AskDenial \/ S!AskBitmap)
          \/ At("hashed") /\ S!AskHashed
          \/ At("signatures") /\ S!AskChain
          \/ At("certificates") /\ C!AskCertificates
          \/ At("dns") /\ W!AskDns
Handle == At("handlers") /\ R!Next /\ UNCHANGED <<input, limiter, resolving, direct>>
\* The first host admitted is always the same.
Admit == At("limiter") /\ R!RateNext /\ (\A i \in DOMAIN log' \cap {1} : log'[i].host = "h1") /\ UNCHANGED <<input, request, resolving, direct>>
Resolve == At("tlsa") /\ S!TlsaNext /\ UNCHANGED <<input, request, limiter, direct>>
Exchange == At("direct") /\ W!DirectNext /\ UNCHANGED <<input, request, limiter, resolving>>
Next == Ask \/ Handle \/ Admit \/ Resolve \/ Exchange
Spec == Init /\ [][Next]_<<input, request, limiter, resolving, direct>>

\* A request is forwarded only as the proxy that admitted it stood and within its limits,
\* every answer says what happened, and a host is in scope by whole labels
\* (ProxyRequests!ForwardedIsAdmitted, AnswersAreTruthful, AdmittedWithinLimits,
\* ScopeIsByLabels, HostMeansOneThing).
RequestsAreAdmitted ==
  /\ R!ForwardedIsAdmitted /\ R!AnswersAreTruthful /\ R!AdmittedWithinLimits
  /\ input.ask = "host" => R!ScopeIsByLabels(input.root, input.text) /\ R!HostMeansOneThing(input.text)

\* What crosses the proxy in either direction is what its author may say: a
\* request names one authority and carries only its end-to-end fields and a
\* delimited body; a response is delimited as it is relayed and cannot set the
\* proxy's own fields or the trusted metadata (HttpMessages).
MessagesCrossSafely ==
  /\ input.ask = "request fields" => RequestFieldsAreSafe(input.headers, input.upgrade)
  /\ input.ask = "target" => TargetIsOneAuthority(input.head, input.connected)
  /\ input.ask = "body" => BodyIsDelimited(input.headers, input.wire, 2)
  /\ input.ask = "response" =>
       /\ ResponseFieldsAreSafe(input.headers, input.status)
       /\ SwitchesAgree(input.status, input.headers)
       /\ \A informational \in {0, 8, 9}, bytes \in 0..2 :
            ResponseFramingAgrees(input.method, input.status, input.headers, informational, bytes)

\* What the transport writes to an origin names the route's authority and only the
\* end-to-end fields, what it reads ends where the origin ended it, and bytes are
\* passed through only where nothing is to be enforced (HttpMessages).
OriginMessagesAgree ==
  /\ input.ask = "origin request" => OriginSeesOwnFields(input.headers, input.body)
  /\ input.ask = "origin response" =>
       LET m == input.message
       IN ResponseEndsWhereItEnds(m) /\ FramesAgree(m.method, m.status, m.headers, m.sizes)
  /\ input.ask = "trust" => PassthroughHasNoRecords(input.request)

\* What one side writes is what the other reads, and nothing else is read: through the
\* proxy, from an origin, between peers and between resolvers (MessagesCrossSafely,
\* OriginMessagesAgree, PeerMessages!PeerMessagesAgree, PeerMessages!ExchangesAgree,
\* DnsWire!DnsMessagesAgree).
MessagesAgree ==
  /\ MessagesCrossSafely /\ OriginMessagesAgree
  /\ M!PeerMessagesAgree /\ M!ExchangesAgree
  /\ W!DnsMessagesAgree

\* What is taken as proven is what the owner of the name signed: answers, denials, TLSA
\* evidence and the certificates it vouches for (DnssecSignatures!AnswersAreSigned,
\* DenialsAreTrue, TlsaEvidenceHolds, DaneMatching!CertificatesAreVouchedFor).
EvidenceHolds ==
  /\ S!AnswersAreSigned /\ S!DenialsAreTrue /\ S!TlsaEvidenceHolds
  /\ C!CertificatesAreVouchedFor

\* A status says only what its fields bear out, and nothing the system produces is
\* refused by its checks: every namespace decision, every outcome of the ICANN
\* lookup and every failure of a root can be reported, whatever the engine last
\* completed; and so can every completion the engine accepted, once it carries the
\* anchor of its proof.  The name tree's currency is exact.
StatusesAreTrue ==
  /\ input.ask = "status" => StatusIsBorneOut(input.status)
  /\ input.ask = "decided" => observability_status(input.engine, input.runtime) = "none"
  /\ input.ask = "report" =>
       LET p == input.engine.provenance
           accepted == p = <<>> \/ validate_completion_context(p[1].transport, p[1].identities) = "none"
       IN accepted => (observability_status(input.engine, input.runtime) = "none" <=> p = <<>> \/ p[1].anchor)
  /\ input.ask = "heights" => CurrentnessIsExact(input.network, input.local, input.target)
  /\ input.ask = "feature" =>
       (try_new(input.compiled, input.configured, input.active, input.observed) = "none"
          <=> \A i, j \in 1..4 : LET on == <<input.compiled, input.configured, input.active, input.observed = "true">>
                                 IN i < j /\ on[j] => on[i])

\* Each namespace is decided as its proofs and its policy say, and reported as decided
\* (BrowserGateway!NamespacesAreDecided, FingerprintsAreIdentities, OriginsAreResolved,
\* ProvenNames!ProofsAreRespected, StatusesAreTrue).
DecisionsAreTrue ==
  /\ N!NamespacesAreDecided /\ N!FingerprintsAreIdentities /\ N!OriginsAreResolved
  /\ P!ProofsAreRespected
  /\ StatusesAreTrue
=============================================================================
