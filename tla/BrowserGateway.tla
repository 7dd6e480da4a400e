--------------------------- MODULE BrowserGateway ---------------------------
(***************************************************************************)
(* Origin plans of the two roots and the decision between them: what makes *)
(* a plan of one root coherent, when two plans are the same connection,    *)
(* which root a policy selects, how long the decision may be used, and the *)
(* fingerprint that partitions transport state.                            *)
(* (hns-namespace-resolution/src/lib.rs)                                   *)
(*                                                                         *)
(* Hosts, addresses, ports, ALPN identifiers, networks and record contents *)
(* are strings.  A vector the code sorts and deduplicates is a set; an     *)
(* option is a sequence of at most one element; "" is the absent namespace *)
(* of a policy.                                                            *)
(***************************************************************************)
EXTENDS Naturals, Sequences, SequencesExt, FiniteSetsExt, TLC

CONSTANTS MaxAliasSteps, MaxEndpoints, MaxAlpn, MaxParameters, MaxTlsa

Hns == "Hns"
Icann == "Icann"
uses_tls(scheme) == scheme \in {"https", "wss"}
default_port(scheme) == IF uses_tls(scheme) THEN "443" ELSE "80"
origin_port(query) == IF query.port = <<>> THEN default_port(query.scheme) ELSE query.port[1]

(***************************************************************************)
(* ServiceBinding::new.  A parameter is [key, value] with a sequence for   *)
(* its value: the ALPN identifiers of key 1, the port of key 3, the        *)
(* addresses of keys 4 and 6, the ECH configuration of key 5.              *)
(***************************************************************************)
Distinct(s) == \A i, j \in DOMAIN s : s[i] = s[j] => i = j
Keys(params) == {params[i].key : i \in DOMAIN params}
service_parameter(params, key) ==
  LET found == SelectSeq(params, LAMBDA p : p.key = key)
  IN IF found = <<>> THEN <<>> ELSE <<found[1].value>>

is_http3_alpn(id) == id \in {"h3", "h3-29"}
AlpnSelects(protocol, id) ==
  CASE protocol = "Http11" -> id = "http/1.1" [] protocol = "Http2" -> id = "h2"
    [] OTHER -> is_http3_alpn(id)
selected_alpn_is_valid(s) ==
  \/ s.protocol = "Http11" /\ 2 \notin Keys(s.params)
  \/ \E i \in DOMAIN s.alpn : AlpnSelects(s.protocol, s.alpn[i])

V6 == {"v6"}
service_parameters_contain_hint(params, hint) ==
  \E i \in DOMAIN params : /\ params[i].key = (IF hint \in V6 THEN 6 ELSE 4)
                           /\ hint \in ToSet(params[i].value)
known_service_parameters_match(s) ==
  /\ service_parameter(s.params, 1) = IF s.alpn = <<>> THEN <<>> ELSE <<s.alpn>>
  /\ service_parameter(s.params, 2) \in {<<>>, <<<<>>>>}
  /\ service_parameter(s.params, 3) \in {<<>>, <<<<s.port>>>>}
  /\ service_parameter(s.params, 5) = IF s.ech = <<>> THEN <<>> ELSE <<s.ech>>
  /\ \A key \in {4, 6} : service_parameter(s.params, key) # <<<<>>>>
  /\ \A i \in DOMAIN s.hints : service_parameters_contain_hint(s.params, s.hints[i])

ServiceBindingIsValid(s) ==
  /\ Len(s.alpn) <= MaxAlpn /\ Len(s.mandatory) <= MaxParameters
  /\ Len(s.hints) <= MaxEndpoints /\ Len(s.params) <= MaxParameters
  /\ s.transport = IF s.protocol = "Http3" THEN "Udp" ELSE "Tcp"
  /\ s.priority # <<0>>
  /\ s.priority = <<>> => /\ s.mandatory = <<>> /\ s.alpn = <<>> /\ s.hints = <<>>
                          /\ s.ech = <<>> /\ s.params = <<>>
  /\ Distinct(s.mandatory) /\ Distinct(s.alpn)
  /\ \A i, j \in DOMAIN s.params : s.params[i].key = s.params[j].key => i = j
  /\ 0 \notin Keys(s.params)
  /\ \A i \in DOMAIN s.mandatory : s.mandatory[i] \in 1..6 /\ s.mandatory[i] \in Keys(s.params)
  /\ selected_alpn_is_valid(s) /\ known_service_parameters_match(s)

(***************************************************************************)
(* ValidatedOriginPlan::new.                                               *)
(***************************************************************************)
provenance_matches(namespace, provenance) ==
  namespace = Hns <=> provenance.source = "Hns"

Owners(host, aliases) == <<host>> \o [i \in DOMAIN aliases |-> aliases[i].target]
validate_alias_path(host, aliases, terminal) ==
  LET names == Owners(host, aliases)
  IN /\ \A i \in DOMAIN aliases : /\ aliases[i].owner = names[i]
                                  /\ aliases[i].target \notin ToSet(SubSeq(names, 1, i))
     /\ Last(names) = terminal

validate_plan_aliases(p) ==
  LET seen == ToSet(Owners(p.query.host, p.aliases))
      target == p.service.target
      ends == Owners(target, p.endpoint_aliases)
  IN /\ validate_alias_path(p.query.host, p.aliases, p.terminal)
     /\ \A i \in DOMAIN p.endpoint_aliases : p.endpoint_aliases[i].kind = "Cname"
     /\ validate_alias_path(target, p.endpoint_aliases, p.endpoint_target)
     /\ target # p.terminal => target \notin seen
     /\ \A i \in 2..Len(ends) : ends[i] \notin seen \cup ToSet(SubSeq(ends, 1, i - 1))

Cleartext(s) ==
  s.priority = <<>> /\ s.protocol = "Http11" /\ s.transport = "Tcp"
validate_plan_endpoints_and_service(p) ==
  LET s == p.service
  IN /\ \A e \in ToSet(p.endpoints) : e.port = s.port
     /\ \A i \in DOMAIN s.hints : \E e \in ToSet(p.endpoints) : e.ip = s.hints[i]
     /\ s.protocol \in p.query.protocols
     /\ ~uses_tls(p.query.scheme) => Cleartext(s)
     /\ uses_tls(p.query.scheme) <=> p.policy # "Cleartext"
     /\ s.priority = <<>> => s.target = p.terminal /\ s.port = origin_port(p.query)
     /\ s.priority # <<>> /\ 3 \notin Keys(s.params) => s.port = origin_port(p.query)

WebPki == {"WebPkiAuthenticatedAbsence", "WebPkiInsecureDelegation"}

\* Mutant: proven-insecure evidence may stand for an authenticated absence.
validate_plan_tls_any_chain(p) ==
  /\ (p.policy = "Dane") <=> (p.tlsa # <<>>)
  /\ p.namespace = Hns => p.policy \notin WebPki
  /\ CASE p.provenance.source = "Icann" -> p.policy \in {"Cleartext", "Dane"} \cup WebPki
       [] OTHER -> p.policy \in {"Cleartext", "Dane", "StatelessDane"}

validate_plan_tls(p) ==
  /\ (p.policy = "Dane") <=> (p.tlsa # <<>>)
  /\ p.namespace = Hns => p.policy \notin WebPki
  /\ \/ p.policy = "Cleartext"
     \/ p.provenance.source = "Hns" /\ p.policy \in {"Dane", "StatelessDane"}
     \/ /\ p.provenance.source = "Icann" /\ p.provenance.chain = "Secure"
        /\ p.policy \in {"Dane", "WebPkiAuthenticatedAbsence"}
     \/ /\ p.provenance.source = "Icann" /\ p.provenance.chain = "ProvenInsecure"
        /\ p.policy = "WebPkiInsecureDelegation"

PlanIsValid(p) ==
  /\ ServiceBindingIsValid(p.service)
  /\ provenance_matches(p.namespace, p.provenance)
  /\ Len(p.aliases) <= MaxAliasSteps /\ Len(p.endpoint_aliases) <= MaxAliasSteps
  /\ p.endpoints # <<>> /\ Len(p.endpoints) <= MaxEndpoints /\ Len(p.tlsa) <= MaxTlsa
  /\ validate_plan_aliases(p) /\ validate_plan_endpoints_and_service(p) /\ validate_plan_tls(p)

\* The parts "differences" compares, one bit of the mask for each.
Connection(p) ==
  [query |-> p.query, aliases |-> p.aliases, terminal |-> p.terminal,
   endpoints |-> ToSet(p.endpoints), priority |-> p.service.priority,
   service_target |-> p.service.target, endpoint_aliases |-> p.endpoint_aliases,
   endpoint_target |-> p.endpoint_target, mandatory |-> ToSet(p.service.mandatory),
   alpn |-> p.service.alpn, protocol |-> p.service.protocol, port |-> p.service.port,
   transport |-> p.service.transport, hints |-> ToSet(p.service.hints), ech |-> p.service.ech,
   params |-> ToSet(p.service.params), policy |-> p.policy, tlsa |-> ToSet(p.tlsa)]
differences(p, q) == {part \in DOMAIN Connection(p) : Connection(p)[part] # Connection(q)[part]}

(***************************************************************************)
(* Lookups and the decision.  A lookup is Present with a plan, Absent with *)
(* a kind of absence, or Failed.                                           *)
(***************************************************************************)
AbsenceIsValid(a) ==
  /\ provenance_matches(a.namespace, a.provenance)
  /\ \/ /\ a.namespace = Hns
        /\ a.kind \in {"HnsCurrentUrkelNonInclusion", "DnssecNxDomain", "DnssecNoUsableEndpoint"}
     \/ /\ a.namespace = Icann /\ a.provenance.chain = "Secure"
        /\ a.kind \in {"DnssecNxDomain", "DnssecNoUsableEndpoint"}
     \/ /\ a.namespace = Icann /\ a.provenance.chain = "ProvenInsecure"
        /\ a.kind \in {"IcannInsecureNxDomain", "IcannInsecureNoUsableEndpoint"}

is_fresh_at(freshness, now) == freshness.from <= now /\ now < freshness.until

Evidence(lookup) == lookup.evidence
validate_lookup(query, namespace, lookup, now) ==
  LET e == Evidence(lookup)
  IN IF e.namespace # namespace THEN "RootPositionMismatch"
     ELSE IF e.query # query THEN "QueryMismatch"
     ELSE IF lookup.state # "Failed" /\ ~is_fresh_at(e.freshness, now) THEN "StaleEvidence"
     ELSE ""

Refused(error) == [error |-> error, selected |-> "", reason |-> ""]
Selected(namespace, reason) == [error |-> "", selected |-> namespace, reason |-> reason]

select_namespace(policy, convergent) ==
  IF policy.pin # "" THEN Selected(policy.pin, "ExplicitPin")
  ELSE IF policy.binding # "" THEN Selected(policy.binding, "StickyBinding")
  ELSE IF policy.precedence = "FailClosed" /\ ~convergent THEN Refused("DivergenceRequiresSelection")
  ELSE Selected(Icann, "IcannDefault")

select_single_namespace(policy, available) ==
  LET wanted == IF policy.pin # "" THEN policy.pin ELSE policy.binding
      reason == IF policy.pin # "" THEN "ExplicitPin" ELSE "StickyBinding"
  IN IF wanted = "" THEN Selected(available, "SingleRoot")
     ELSE IF wanted = available THEN Selected(available, reason)
     ELSE Refused("SelectedNamespaceUnavailable")

Present(lookup) == lookup.state = "Present"
OutcomeKind(hns, icann) ==
  IF Present(hns) /\ Present(icann)
    THEN IF differences(hns.evidence, icann.evidence) = {} THEN "BothConvergent" ELSE "BothDivergent"
  ELSE IF Present(hns) THEN "HnsOnly" ELSE IF Present(icann) THEN "IcannOnly" ELSE "Neither"

\* The decision retains the query, the policy and both pieces of evidence.
decide_namespace(query, hns, icann, policy, now) ==
  LET first == validate_lookup(query, Hns, hns, now)
      second == validate_lookup(query, Icann, icann, now)
      kind == OutcomeKind(hns, icann)
      choice == IF first # "" THEN Refused(first)
                ELSE IF second # "" THEN Refused(second)
                ELSE IF "Failed" \in {hns.state, icann.state} THEN Refused("RootFailed")
                ELSE CASE kind = "HnsOnly" -> select_single_namespace(policy, Hns)
                       [] kind = "IcannOnly" -> select_single_namespace(policy, Icann)
                       [] kind = "Neither" -> Selected("", "")
                       [] OTHER -> select_namespace(policy, kind = "BothConvergent")
  IN [error |-> choice.error, selected |-> choice.selected, reason |-> choice.reason,
      kind |-> IF choice.error = "" THEN kind ELSE "", query |-> query, policy |-> policy,
      hns |-> hns, icann |-> icann]

\* selected_plan, expires_at_unix and is_fresh_at of a decision.
selected_plan(d) == IF d.selected = Hns THEN d.hns.evidence ELSE d.icann.evidence
expires_at_unix(d) == Min({d.hns.evidence.freshness.until, d.icann.evidence.freshness.until})
decision_is_fresh_at(d, now) ==
  /\ now < expires_at_unix(d)
  /\ is_fresh_at(d.hns.evidence.freshness, now) /\ is_fresh_at(d.icann.evidence.freshness, now)

(***************************************************************************)
(* FingerprintInput: what is hashed, with every variable-length part behind *)
(* its length.  SHA-256 is taken to tell any two inputs apart.             *)
(***************************************************************************)
Length(s) == <<ToString(Len(s))>>
Tag(name) == <<name>>
OptionTag(option) == IF option = <<>> THEN <<"0">> ELSE <<"1">> \o option
List(s, Encode(_)) == Length(s) \o FlattenSeq([i \in DOMAIN s |-> Encode(s[i])])
Sorted(s) == SetToSeq(ToSet(s))   \* the same for every order of the same elements

QueryInput(q) ==
  <<q.host, q.scheme, origin_port(q)>> \o [i \in 1..3 |-> ToString(<<"Http11", "Http2", "Http3">>[i] \in q.protocols)]
provenance_authority(p) == IF p.source = "Hns" THEN <<"1", p.network>> ELSE <<"2">>
AliasInput(a) == <<a.kind, a.owner, a.target>>
ServiceInput(s) ==
  (IF s.priority = <<>> THEN <<"0">> ELSE <<"1", ToString(s.priority[1])>>)
  \o <<s.target>> \o List(Sorted(s.mandatory), LAMBDA k : <<ToString(k)>>)
  \o List(s.alpn, LAMBDA id : <<id>>) \o <<s.protocol, s.port, s.transport>>
  \o List(Sorted(s.hints), LAMBDA ip : <<ip>>) \o OptionTag(s.ech)
  \o List(Sorted(s.params), LAMBDA p : <<ToString(p.key)>> \o List(p.value, LAMBDA v : <<v>>))
PlanInput(p) ==
  Tag(p.namespace) \o provenance_authority(p.provenance) \o QueryInput(p.query)
  \o List(p.aliases, AliasInput) \o <<p.terminal>>
  \o List(p.endpoint_aliases, AliasInput) \o <<p.endpoint_target>>
  \o List(Sorted(p.endpoints), LAMBDA e : <<e.ip, e.port>>) \o ServiceInput(p.service)
  \o Tag(p.policy) \o List(Sorted(p.tlsa), LAMBDA r : <<r>>)
AbsenceInput(a) ==
  Tag(a.namespace) \o provenance_authority(a.provenance) \o QueryInput(a.query) \o Tag(a.kind)
EvidenceInput(lookup) ==
  IF Present(lookup) THEN PlanInput(lookup.evidence) ELSE AbsenceInput(lookup.evidence)
PolicyInput(p) == <<ToString(p.revision), p.pin, p.binding, p.precedence>>

\* The mask follows from the two plans and adds nothing to tell apart.
decision_fingerprint(d) ==
  LET both == IF d.kind = "IcannOnly" THEN <<d.icann, d.hns>> ELSE <<d.hns, d.icann>>
  IN QueryInput(d.query) \o PolicyInput(d.policy) \o <<d.kind, d.selected, d.reason>>
     \o EvidenceInput(both[1]) \o EvidenceInput(both[2])

(***************************************************************************)
(* Properties, as predicates of the inputs.                                *)
(***************************************************************************)
\* A plan that is taken is one root's, and one journey: from the host by aliases
\* to the terminal name, to the service's target and by CNAMEs to the owner of
\* the addresses, no name twice; it connects only to the port the service or
\* the URL names; and what it lets a certificate be trusted for is what that
\* root's evidence supports (ValidatedOriginPlan::new).
PlanIsCoherent(p) ==
  LET journey == Owners(p.query.host, p.aliases)
                 \o (IF p.service.target = p.terminal THEN <<>> ELSE <<p.service.target>>)
                 \o [i \in DOMAIN p.endpoint_aliases |-> p.endpoint_aliases[i].target]
      steps == {<<a.owner, a.target>> : a \in ToSet(p.aliases) \cup ToSet(p.endpoint_aliases)}
                 \cup {<<p.terminal, p.service.target>>}
      named == {origin_port(p.query)} \cup
               UNION {ToSet(p.service.params[i].value) : i \in {j \in DOMAIN p.service.params : p.service.params[j].key = 3}}
  IN PlanIsValid(p) =>
       /\ Distinct(journey) /\ Last(journey) = p.endpoint_target
       /\ \A i \in 2..Len(journey) : <<journey[i - 1], journey[i]>> \in steps
       /\ \A e \in ToSet(p.endpoints) : e.port \in named
       /\ p.provenance.source = p.namespace
       /\ p.policy \in WebPki => p.namespace = Icann /\ p.tlsa = <<>>
       /\ p.policy = "Dane" => p.tlsa # <<>> /\ (p.namespace = Icann => p.provenance.chain = "Secure")
       /\ p.policy = "WebPkiAuthenticatedAbsence" => p.provenance.chain = "Secure"
       /\ p.policy = "WebPkiInsecureDelegation" => p.provenance.chain = "ProvenInsecure"
       /\ p.policy = "StatelessDane" => p.namespace = Hns
       /\ p.policy = "Cleartext" => p.query.scheme \in {"http", "ws"}

\* A root is selected only on complete current evidence of both roots for this
\* very query; a pin, then a binding, is obeyed or the decision is refused, and
\* a failed root is never read as an absent one; the decision stays usable
\* exactly as long as both pieces of evidence (decide_namespace).
DecisionIsSound(query, hns, icann, policy, now) ==
  LET d == decide_namespace(query, hns, icann, policy, now)
      wanted == IF policy.pin # "" THEN policy.pin ELSE policy.binding
      usable == /\ \A lookup \in {hns, icann} :
                     /\ lookup.state # "Failed" /\ lookup.evidence.query = query
                     /\ lookup.evidence.freshness.from <= now /\ now < lookup.evidence.freshness.until
                /\ hns.evidence.namespace = Hns /\ icann.evidence.namespace = Icann
      present == (IF Present(hns) THEN {Hns} ELSE {}) \cup (IF Present(icann) THEN {Icann} ELSE {})
  IN /\ d.error = "" =>
          /\ usable
          /\ IF present = {} THEN d.selected = "" ELSE d.selected \in present
          /\ present # {} /\ wanted # "" => d.selected = wanted
          /\ present # {} => selected_plan(d).namespace = d.selected
          /\ \A t \in now..(now + 4) :
               decision_is_fresh_at(d, t) <=>
                 \A lookup \in {hns, icann} : is_fresh_at(lookup.evidence.freshness, t)
     /\ usable /\ d.error # "" =>
          \/ present # {} /\ wanted # "" /\ wanted \notin present
          \/ present = {Hns, Icann} /\ wanted = "" /\ policy.precedence = "FailClosed"
             /\ differences(hns.evidence, icann.evidence) # {}

\* Two decisions share transport state only if they are the same origin under the
\* same policy, with the same root selected and the same connections, whatever
\* the freshness and the order of the records (decision_fingerprint).
FingerprintIsIdentity(d, e) ==
  LET Origin(q) == [q EXCEPT !.port = <<origin_port(q)>>]
      Known(lookup) == IF Present(lookup)
                         THEN [Connection(lookup.evidence) EXCEPT !.query = Origin(lookup.evidence.query)]
                         ELSE [kind |-> lookup.evidence.kind]
      SameRoot(a, b) == /\ a.state = b.state /\ Known(a) = Known(b)
                        /\ a.evidence.provenance.network = b.evidence.provenance.network
  IN (d.error = "" /\ e.error = "") =>
       ((decision_fingerprint(d) = decision_fingerprint(e)) <=>
          /\ Origin(d.query) = Origin(e.query) /\ d.policy = e.policy /\ d.selected = e.selected
          /\ SameRoot(d.hns, e.hns) /\ SameRoot(d.icann, e.icann))

-----------------------------------------------------------------------------
(***************************************************************************)
(* The browser gateway: from a browser's request to the request the origin *)
(* transport is given, either from a prepared namespace decision or, for a *)
(* resolver of one root, from the answers to its questions; and whether an *)
(* outer CONNECT is intercepted.  (hns-browser-gateway: chromium.rs and    *)
(* mobile.rs; the two builds differ where "platform" appears)              *)
(*                                                                         *)
(* A record is [owner, type, value, class, svc]; an answer is [error,      *)
(* secure, records] with error "" when there is one.                       *)
(***************************************************************************)

CONSTANTS MaxCname,       \* MAX_CNAME_CHAIN_LEN
          PrivateIps, BlockedPorts

Transport == INSTANCE HttpMessages
               WITH MaxInterim <- 0, HeaderBudget <- 0, MaxBody <- 0, MaxTrailers <- 0

NoName == "no name"
NoAddress == "no address"
Failed(error) == [error |-> error]

authorize(config, token) == config.token = "" \/ config.token = token

validate_origin_address(config, ip) == config.allow_private \/ ip \notin PrivateIps
validate_origin_port(config, port) == config.allow_ports \/ port \notin BlockedPorts
mode_for(namespace) == IF namespace = Hns THEN "HnsStrict" ELSE "IcannWebPki"
tlsa_transport(protocol) == IF protocol = "Http3" THEN "Udp" ELSE "Tcp"

(***************************************************************************)
(* Records of an answer.                                                   *)
(***************************************************************************)
OfType(records, owner, types) == SelectSeq(records, LAMBDA r : r.owner = owner /\ r.type \in types)

\* cname_target_for_owner: exactly one CNAME.
cname_target_for_owner(records, owner) ==
  LET found == OfType(records, owner, {"Cname"})
  IN IF Len(found) = 1 THEN found[1].value ELSE NoName
\* resolved_address_for_owner, down at most MaxCname aliases.
first_resolved_address(records, host) ==
  LET owner[k \in 0..MaxCname] == IF k = 0 THEN host ELSE cname_target_for_owner(records, owner[k - 1])
      at(k) == OfType(records, owner[k], {"A", "Aaaa"})
      found == {k \in 0..MaxCname : owner[k] # NoName /\ at(k) # <<>>}
  IN IF found = {} THEN NoAddress ELSE at(Min(found))[1].value

\* tlsa_records: usable records at the end of a chain of single CNAMEs; an
\* absence is believed only at the name that was asked.
tlsa_records(records, qname) ==
  LET names[k \in 0..(MaxCname + 1)] ==
        IF k = 0 THEN qname
        ELSE IF OfType(records, names[k - 1], {"Tlsa"}) # <<>> THEN NoName
        ELSE cname_target_for_owner(records, names[k - 1])
      last == Max({k \in 0..(MaxCname + 1) : \A j \in 0..k : names[j] # NoName})
      Foreign(k) == \E i \in DOMAIN records :
                      /\ records[i].owner = names[k] /\ records[i].type \in {"Tlsa", "Cname"}
                      /\ records[i].class # "IN"
      here == OfType(records, names[last], {"Tlsa"})
      aliases == OfType(records, names[last], {"Cname"})
      usable == SelectSeq(here, LAMBDA r : r.value # "unusable")
      ok == /\ last <= MaxCname /\ ~\E k \in 0..last : Foreign(k)
            /\ \A j, k \in 0..last : names[j] = names[k] => j = k
            /\ aliases = <<>>
            /\ IF here = <<>> THEN last = 0 ELSE usable # <<>>
  IN [error |-> IF ok THEN "" ELSE "InvalidDnsResponse", count |-> Len(usable)]

\* selected_https_service: the lowest priority the client can use; any record of
\* the owner that cannot be used at all refuses the whole answer.
selected_alpn_protocol(svc, protocols) ==
  LET offers(protocol) == protocol \in protocols /\
        \E i \in DOMAIN svc.alpn : AlpnSelects(protocol, svc.alpn[i])
  IN IF offers("Http3") THEN "Http3" ELSE IF offers("Http2") THEN "Http2"
     ELSE IF offers("Http11") \/ ("Http11" \in protocols /\ ~svc.no_default) THEN "Http11" ELSE ""
validate_supported_mandatory_params(svc) == svc.mandatory \subseteq {1, 2, 3}
selected_https_service(records, host, protocols) ==
  LET found == OfType(records, host, {"Https"})
      services == {found[i].svc : i \in DOMAIN found}
      usable == {s \in services : selected_alpn_protocol(s, protocols) # ""}
      first == found[Min({i \in DOMAIN found : /\ found[i].svc \in usable
                                               /\ \A s \in usable : found[i].svc.priority <= s.priority})].svc
      refused == \E s \in services : \/ s.priority = 0 \/ s.target \notin {".", host}
                                     \/ ~validate_supported_mandatory_params(s)
  IN IF services = {} THEN [error |-> "", found |-> FALSE]
     ELSE IF refused \/ usable = {} THEN [error |-> "UnsupportedSvcb", found |-> FALSE]
     ELSE [error |-> "", found |-> TRUE, protocol |-> selected_alpn_protocol(first, protocols), port |-> first.port]

WithService(r, service) ==
  IF service.error # "" THEN Failed(service.error)
  ELSE IF ~service.found THEN [error |-> "", applied |-> FALSE, request |-> r]
  ELSE [error |-> "", applied |-> TRUE,
        request |-> [r EXCEPT !.protocol = service.protocol,
                              !.port = IF service.port = <<>> THEN @ ELSE service.port[1]]]
apply_https_service_policy(r, records, protocols) ==
  WithService(r, selected_https_service(records, r.host, protocols))

(***************************************************************************)
(* decide_browser_tls (hns-icann-dane) and the TLSA answer.                *)
(***************************************************************************)
decide_browser_tls(e) ==
  IF ~e.authenticated \/ ~e.validated \/ e.dnssec \in {"Bogus", "Indeterminate"} THEN "refused"
  ELSE IF e.dnssec = "InsecureDelegation"
    THEN IF e.denial THEN "refused" ELSE "WebPkiInsecureDelegation"
  ELSE IF e.count > 0 /\ ~e.denial THEN "EnforceDane"
  ELSE IF e.count = 0 /\ e.denial THEN "WebPkiAuthenticatedAbsence"
  ELSE "refused"

\* icann_tlsa_records, decide_icann_browser_tls: an unsigned answer is the proven
\* insecure state, a signed one without records an authenticated absence.
IcannTlsa(config, secure, count) ==
  decide_browser_tls([authenticated |-> config.authenticated, validated |-> config.validated,
                      dnssec |-> IF secure THEN "Secure" ELSE "InsecureDelegation",
                      count |-> count, denial |-> secure /\ count = 0])

resolve_native_tlsa_records(config, namespace, answer, qname) ==
  LET read == IF namespace = Icann /\ ~answer.secure THEN [error |-> "", count |-> 0]
              ELSE tlsa_records(answer.records, qname)
      decision == IcannTlsa(config, answer.secure, read.count)
  IN IF answer.error # "" THEN Failed(answer.error)
     ELSE IF read.error # "" THEN Failed(read.error)
     ELSE IF namespace # Icann /\ config.require_secure /\ ~answer.secure /\ read.count > 0
       THEN Failed("InsecureResolution")
     ELSE IF namespace = Icann /\ decision = "refused" THEN Failed("IcannDane")
     ELSE [error |-> "", secure |-> answer.secure, count |-> read.count,
           decision |-> IF namespace = Icann THEN decision ELSE "none"]

(***************************************************************************)
(* One root: resolve_origin_request without a prepared decision.  The      *)
(* answers are those to the browser's own question and to the gateway's    *)
(* questions for A, AAAA, HTTPS and TLSA.                                  *)
(***************************************************************************)
resolve_origin_address(namespace, host, answers) ==
  LET Ask(answer) == IF answer.error # "" THEN Failed(answer.error)
                     ELSE IF ~answer.secure /\ namespace # Icann THEN Failed("InsecureResolution")
                     ELSE [error |-> "", ip |-> first_resolved_address(answer.records, host)]
      a == Ask(answers.A)
  IN IF a.error # "" \/ a.ip # NoAddress THEN a ELSE Ask(answers.Aaaa)

\* Every error of the resolver; on mobile not for an ICANN name.
optional_https_service_policy_error(platform, namespace) == platform = "mobile" => namespace # Icann
resolve_https_service_policy(config, platform, namespace, r, answer, protocols) ==
  LET same == [error |-> "", applied |-> FALSE, request |-> r]
  IN IF answer.error # ""
       THEN IF optional_https_service_policy_error(platform, namespace) THEN same
            ELSE Failed(answer.error)
     ELSE IF ~answer.secure /\ namespace = Icann THEN same
     ELSE IF config.require_secure /\ ~answer.secure THEN Failed("InsecureResolution")
     ELSE apply_https_service_policy(r, answer.records, protocols)

TlsaOwner(host) == "_tlsa." \o host   \* TlsaOwner::derive for the service

\* What the gateway makes of the address, the service and the TLSA answer.  Only
\* the mobile gateway knows of ECH and clears the caller's fingerprint.
Secured(connected, platform, namespace, tlsa) ==
  [connected EXCEPT
     !.tls = [@ EXCEPT !.mode = mode_for(namespace), !.port = connected.port,
                       !.transport = tlsa_transport(connected.protocol),
                       !.secure = tlsa.secure, !.records = tlsa.count, !.decision = tlsa.decision,
                       !.planned = @ /\ platform = "chromium"]]
ResolvedOrigin(config, platform, namespace, request, first, address, service, tlsa) ==
  LET tls == uses_tls(request.scheme)
      served == IF tls THEN service.request ELSE request
      connected == [served EXCEPT !.connect = address.ip, !.tls.ech = FALSE]
      result == IF tls THEN Secured(connected, platform, namespace, tlsa) ELSE connected
  IN IF request.host # request.qname THEN Failed("HostResolutionMismatch")
     ELSE IF ~validate_origin_port(config, request.port) THEN Failed("UnsafeOriginPort")
     ELSE IF first.error # "" THEN Failed(first.error)
     ELSE IF ~first.secure /\ namespace # Icann THEN Failed("InsecureResolution")
     ELSE IF address.error # "" THEN address
     ELSE IF address.ip = NoAddress THEN Failed("NoResolvedAddress")
     ELSE IF ~validate_origin_address(config, address.ip) THEN Failed("NonPublicOriginAddress")
     ELSE IF tls /\ service.error # "" THEN Failed(service.error)
     ELSE IF tls /\ tlsa.error # "" THEN Failed(tlsa.error)
     ELSE IF ~validate_origin_port(config, result.port) THEN Failed("UnsafeOriginPort")
     ELSE [error |-> "", request |-> result]
OriginAddress(own, namespace, host, answers) ==
  IF own # NoAddress THEN [error |-> "", ip |-> own] ELSE resolve_origin_address(namespace, host, answers)
OriginService(initial, config, platform, namespace, request, answers, protocols) ==
  IF initial.error # "" \/ initial.applied THEN initial
  ELSE resolve_https_service_policy(config, platform, namespace, request, answers.Https, protocols)

resolve_origin_request(config, platform, namespace, request, answers, protocols) ==
  LET first == answers.first
      initial == IF first.secure THEN apply_https_service_policy(request, first.records, protocols)
                 ELSE [error |-> "", applied |-> FALSE, request |-> request]
  IN ResolvedOrigin(config, platform, namespace, request, first,
       OriginAddress(first_resolved_address(first.records, request.host), namespace, request.host, answers),
       OriginService(initial, config, platform, namespace, request, answers, protocols),
       resolve_native_tlsa_records(config, namespace, answers.Tlsa, TlsaOwner(request.host)))

(***************************************************************************)
(* Both roots: apply_prepared_namespace_resolution (Chromium) and          *)
(* prepared_origin_request (mobile).                                       *)
(***************************************************************************)
Trust(tls, mode, secure, records, decision) ==
  [tls EXCEPT !.mode = mode, !.secure = secure, !.records = records, !.decision = decision]

\* apply_selected_tls_plan: one row for each root and policy that belong together.
apply_selected_tls_plan(config, tls, namespace, plan) ==
  LET records == Cardinality(ToSet(plan.tlsa) \ {"unusable"})
      bad == Failed("InvalidDnsResponse")
      Done(t) == [error |-> "", tls |-> t]
  IN CASE plan.policy = "Dane" /\ records > 0 ->
            Done(Trust(tls, mode_for(namespace), TRUE, records, IF namespace = Icann THEN "EnforceDane" ELSE "none"))
       [] plan.policy = "StatelessDane" /\ namespace = Hns /\ records = 0 /\ config.stateless ->
            Done(Trust(tls, "HnsStrict", FALSE, 0, "none"))
       [] plan.policy \in WebPki /\ namespace = Icann /\ records = 0 ->
            Done(Trust(tls, "IcannWebPki", plan.policy = "WebPkiAuthenticatedAbsence", 0, plan.policy))
       [] OTHER -> bad

\* The request that follows a plan.
PlannedRequest(request, service, endpoint, trust, ech) ==
  [request EXCEPT !.connect = endpoint.ip, !.port = service.port, !.protocol = service.protocol,
                  !.tls = [trust EXCEPT !.port = service.port, !.transport = service.transport,
                                        !.planned = TRUE, !.ech = ech]]

prepared_origin_request(config, platform, request, query, decision, answered, protocols) ==
  LET plan == selected_plan(decision)
      endpoints == SelectSeq(Sorted(plan.endpoints), LAMBDA e : validate_origin_address(config, e.ip))
      tls == uses_tls(request.scheme)
      trust == IF tls THEN apply_selected_tls_plan(config, request.tls, decision.selected, plan)
               ELSE [error |-> IF plan.policy = "Cleartext" THEN "" ELSE "InvalidDnsResponse", tls |-> request.tls]
      ech == platform = "mobile" /\ plan.service.ech # <<>>
  IN IF decision.query # query THEN Failed("InvalidDnsResponse")
     ELSE IF decision.selected = "" \/ ~answered THEN Failed("NamespaceUnavailable")
     ELSE IF ech /\ ~tls THEN Failed("InvalidDnsResponse")
     ELSE IF platform = "mobile" /\ plan.service.protocol \notin protocols THEN Failed("UnsupportedSvcb")
     ELSE IF endpoints = <<>> THEN Failed("NonPublicOriginAddress")
     ELSE IF ~validate_origin_port(config, plan.service.port) THEN Failed("UnsafeOriginPort")
     ELSE IF trust.error # "" THEN Failed(trust.error)
     ELSE [error |-> "", request |-> PlannedRequest(request, plan.service, endpoints[1], trust.tls, ech)]

\* namespace_origin_query and gateway_origin_query.
origin_query(request, protocols) ==
  [host |-> request.host, scheme |-> request.scheme, port |-> <<request.port>>, protocols |-> protocols]

\* handle and the other entries, before the transport is called.
prepare(config, platform, token, request, decision, answered, protocols) ==
  IF ~authorize(config, token) THEN Failed("Unauthorized")
  ELSE IF request.host # request.qname THEN Failed("HostResolutionMismatch")
  ELSE IF ~validate_origin_port(config, request.port) THEN Failed("UnsafeOriginPort")
  ELSE prepared_origin_request(config, platform, request, origin_query(request, protocols), decision, answered, protocols)

(***************************************************************************)
(* open_browser_connect_with_failure_context (Chromium).                   *)
(***************************************************************************)
selected_browser_connect_uses_webpki(plan, tls) ==
  IF plan.namespace # Icann \/ plan.policy \notin WebPki THEN "no"
  ELSE IF tls.decision = plan.policy /\ tls.transport = "Tcp" THEN "yes" ELSE "error"

\* "dialed" is the address the transport reports of the candidates it was given,
\* or NoAddress when none could be opened.
open_browser_connect(config, token, request, decision, answered, dialed) ==
  LET prepared == prepare(config, "chromium", token, request, decision, answered, {"Http11", "Http2"})
      plan == selected_plan(decision)
      webpki == selected_browser_connect_uses_webpki(plan, prepared.request.tls)
      endpoints == Sorted(plan.endpoints)
      allowed == SelectSeq(endpoints, LAMBDA e : validate_origin_address(config, e.ip))
      candidates == [i \in DOMAIN allowed |-> [prepared.request EXCEPT !.connect = allowed[i].ip]]
      opened == SelectSeq(candidates, LAMBDA c : c.connect = dialed)
      Result(disposition) == [disposition |-> disposition, candidates |-> candidates, request |-> opened]
      Nothing(disposition) == [disposition |-> disposition, candidates |-> <<>>, request |-> <<>>]
  IN IF prepared.error # "" \/ webpki = "error" THEN Nothing("error")
     ELSE IF webpki = "no" THEN Nothing("intercept")
     ELSE IF \E i \in DOMAIN endpoints : endpoints[i].port # prepared.request.port THEN Nothing("error")
     ELSE IF candidates = <<>> THEN Nothing("error")
     ELSE IF opened = <<>> THEN Result("error")
     ELSE Result("passthrough")

(***************************************************************************)
(* Properties, as predicates of the inputs.                                *)
(***************************************************************************)
\* What the transport asks of every request it is given.
TransportAccepts(r) ==
  /\ uses_tls(r.scheme) => Transport!validate_browser_tls_decision(r.tls) /\ r.tls.port = r.port
  /\ r.tls.transport = tlsa_transport(r.protocol)
  /\ r.tls.ech => uses_tls(r.scheme)

\* A request built from a decision goes where the selected root's plan says and
\* nowhere else, is trusted exactly as that root's evidence allows (never WebPKI
\* for a Handshake name), is one the transport takes, and a sound plan with a
\* reachable endpoint is not refused.
RequestFollowsPlan(config, platform, request, decision, answered, protocols) ==
  \A out \in {prepare(config, platform, config.token, request, decision, answered, protocols)} :
  LET plan == selected_plan(decision)
      r == out.request
      reachable == \E e \in ToSet(plan.endpoints) : config.allow_private \/ e.ip \notin PrivateIps
      ports == config.allow_ports \/ {request.port, plan.service.port} \cap BlockedPorts = {}
      sound == /\ decision.selected # "" /\ decision.query = origin_query(request, protocols) /\ answered
               /\ reachable /\ ports /\ "unusable" \notin ToSet(plan.tlsa)
               /\ plan.policy = "StatelessDane" => config.stateless
  IN /\ out.error = "" =>
          /\ r.connect \in {e.ip : e \in ToSet(plan.endpoints)} /\ r.port = plan.service.port
          /\ config.allow_private \/ r.connect \notin PrivateIps
          /\ config.allow_ports \/ r.port \notin BlockedPorts
          /\ r.tls.planned /\ TransportAccepts(r)
          /\ uses_tls(r.scheme) =>
               /\ r.tls.mode = "HnsStrict" <=> decision.selected = Hns
               /\ decision.selected = Hns => /\ r.tls.decision = "none"
                                             /\ r.tls.records > 0 \/ (config.stateless /\ ~r.tls.secure)
               /\ decision.selected = Icann => r.tls.decision # "none"
               /\ r.tls.records > 0 <=> plan.policy = "Dane"
     /\ sound => out.error = ""

\* A resolver of one root: the address and the service come from answers that
\* root vouches for, the TLSA records count only when they are signed, and the
\* request is one the transport takes (resolve_origin_request).
RequestIsAuthenticated(config, platform, namespace, request, answers, protocols) ==
  \A out \in {resolve_origin_request(config, platform, namespace, request, answers, protocols)} :
  LET r == out.request
      vouched == {a \in {answers.first, answers.A, answers.Aaaa} : a.error = "" /\ (a.secure \/ namespace = Icann)}
      signed == {a \in {answers.first, answers.Https} : a.error = "" /\ a.secure}
      said(a) == {a.records[i].svc : i \in {j \in DOMAIN a.records : a.records[j].type = "Https"}}
      services == UNION {said(a) : a \in signed}
  IN out.error = "" =>
       /\ \E a \in vouched : \E i \in DOMAIN a.records :
            a.records[i].type \in {"A", "Aaaa"} /\ a.records[i].value = r.connect
       /\ config.allow_private \/ r.connect \notin PrivateIps
       /\ config.allow_ports \/ r.port \notin BlockedPorts
       /\ config.require_secure /\ r.port # request.port => \E s \in services : s.port = <<r.port>>
       /\ config.require_secure /\ r.protocol # request.protocol =>
            \E s \in services : r.protocol = "Http11" \/ \E i \in DOMAIN s.alpn : AlpnSelects(r.protocol, s.alpn[i])
       /\ uses_tls(r.scheme) =>
            /\ TransportAccepts(r) /\ r.tls.mode = mode_for(namespace)
            /\ config.require_secure /\ r.tls.records > 0 => answers.Tlsa.secure
            /\ r.tls.secure => answers.Tlsa.secure
            /\ namespace = Icann => r.tls.decision # "none"
            /\ namespace = Hns => r.tls.decision = "none"

\* Browser bytes are passed through untouched only for a plan of ICANN that has
\* proved there is nothing to enforce, and only to endpoints of that plan the
\* transport would take; every other plan is intercepted.
PassthroughIsWebPki(config, request, decision, answered, dialed) ==
  \A out \in {open_browser_connect(config, config.token, request, decision, answered, dialed)} :
  LET plan == selected_plan(decision)
  IN /\ out.disposition = "passthrough" =>
          /\ decision.selected = Icann /\ plan.policy \in WebPki /\ plan.tlsa = <<>> /\ out.candidates # <<>>
          /\ \A i \in DOMAIN out.candidates :
               LET c == out.candidates[i]
               IN /\ [ip |-> c.connect, port |-> c.port] \in ToSet(plan.endpoints) /\ TransportAccepts(c)
                  /\ c.tls.planned /\ c.tls.mode = "IcannWebPki" /\ c.tls.records = 0 /\ c.protocol # "Http3"
                  /\ config.allow_private \/ c.connect \notin PrivateIps
          /\ out.request[1].connect = dialed
     /\ out.disposition = "intercept" => decision.selected = Hns \/ plan.policy \notin WebPki

-----------------------------------------------------------------------------
(***************************************************************************)
(* The questions put to plans, decisions and adapters: plans that are      *)
(* two changes away from a good one, pairs of lookups, pairs of decisions, *)
(* and requests of the browser with the decision or the answers they get.  *)
(***************************************************************************)

VARIABLE input

Q == [host |-> "h", scheme |-> "https", port |-> <<>>, protocols |-> {"Http11", "Http2", "Http3"}]
Plain == [priority |-> <<>>, target |-> "h", mandatory |-> <<>>, alpn |-> <<>>, protocol |-> "Http11",
          port |-> "443", transport |-> "Tcp", hints |-> <<>>, ech |-> <<>>, params |-> <<>>]
Param(k, v) == [key |-> k, value |-> v]
Bound == [Plain EXCEPT !.priority = <<1>>, !.alpn = <<"h2", "h3">>, !.protocol = "Http2", !.port = "8443",
          !.target = "t", !.hints = <<"a1">>, !.ech = <<"ech">>, !.mandatory = <<1>>,
          !.params = <<Param(1, <<"h2", "h3">>), Param(3, <<"8443">>), Param(4, <<"a1", "a2">>), Param(5, <<"ech">>)>>]
At(ip, port) == [ip |-> ip, port |-> port]
HnsProof == [source |-> "Hns", network |-> "main", chain |-> ""]
Doh(chain) == [source |-> "Icann", network |-> "", chain |-> chain]
Alias(kind, owner, target) == [kind |-> kind, owner |-> owner, target |-> target]
Fresh == [from |-> 1, until |-> 4]
HnsPlan == [namespace |-> Hns, query |-> Q, aliases |-> <<>>, terminal |-> "h", endpoint_aliases |-> <<>>,
            endpoint_target |-> "h", endpoints |-> <<At("a1", "443")>>, service |-> Plain, policy |-> "Dane",
            tlsa |-> <<"r1">>, provenance |-> HnsProof, freshness |-> Fresh]
IcannPlan == [HnsPlan EXCEPT !.namespace = Icann, !.provenance = Doh("Secure")]
Rich == [IcannPlan EXCEPT !.aliases = <<Alias("Https", "h", "i")>>, !.terminal = "i", !.service = Bound,
           !.endpoint_aliases = <<Alias("Cname", "t", "u")>>, !.endpoint_target = "u",
           !.endpoints = <<At("a1", "8443"), At("a2", "8443")>>]
Services(s) ==
  {[s EXCEPT !.priority = v] : v \in {<<>>, <<0>>, <<2>>}}
  \cup {[s EXCEPT !.target = v] : v \in {"h", "i", "t"}}
  \cup {[s EXCEPT !.mandatory = v] : v \in {<<>>, <<1, 1>>, <<3>>, <<7>>}}
  \cup {[s EXCEPT !.alpn = v] : v \in {<<>>, <<"h2">>, <<"h3", "h2">>, <<"h2", "h2">>}}
  \cup {[s EXCEPT !.protocol = v] : v \in {"Http11", "Http2", "Http3"}}
  \cup {[s EXCEPT !.protocol = "Http3", !.transport = "Udp"]}
  \cup {[s EXCEPT !.port = v] : v \in {"443", "8443"}}
  \cup {[s EXCEPT !.transport = v] : v \in {"Tcp", "Udp"}}
  \cup {[s EXCEPT !.hints = v] : v \in {<<>>, <<"a2">>, <<"a3">>, <<"v6">>}}
  \cup {[s EXCEPT !.ech = v] : v \in {<<>>, <<"other">>}}
  \cup {[s EXCEPT !.params = v] : v \in {<<>>, Append(s.params, Param(2, <<>>)), Append(s.params, Param(3, <<"443">>)),
                                         Append(s.params, Param(7, <<"x">>)), Append(s.params, Param(0, <<"x">>))}}
  \cup {[s EXCEPT !.params = <<Param(1, <<"h2">>), Param(2, <<>>)>>, !.alpn = <<"h2">>, !.ech = <<>>, !.hints = <<>>]}
Near(p) ==
  {[p EXCEPT !.service = s] : s \in Services(p.service)}
  \cup {[p EXCEPT !.namespace = v] : v \in {Hns, Icann}}
  \cup {[p EXCEPT !.provenance = v] : v \in {HnsProof, [HnsProof EXCEPT !.network = "reg"], Doh("Secure"), Doh("ProvenInsecure")}}
  \cup {[p EXCEPT !.aliases = v] : v \in {<<>>, <<Alias("Cname", "h", "i")>>, <<Alias("Cname", "h", "t")>>, <<Alias("Cname", "i", "h")>>,
                                          <<Alias("Cname", "h", "i"), Alias("Https", "i", "h")>>, <<Alias("Cname", "h", "i"), Alias("Https", "i", "t")>>}}
  \cup {[p EXCEPT !.terminal = v] : v \in {"h", "i", "t"}}
  \cup {[p EXCEPT !.endpoint_aliases = v] : v \in {<<>>, <<Alias("Https", "t", "u")>>, <<Alias("Cname", "t", "h")>>, <<Alias("Cname", "h", "u")>>,
                                          <<Alias("Cname", "t", "i")>>, <<Alias("Cname", "t", "u"), Alias("Cname", "u", "t")>>}}
  \cup {[p EXCEPT !.endpoint_target = v] : v \in {"h", "i", "t", "u"}}
  \cup {[p EXCEPT !.endpoints = v] : v \in {<<>>, <<At("a1", "8443")>>, <<At("a2", "443"), At("a1", "443")>>, <<At("a2", "8443"), At("a1", "8443")>>}}
  \cup {[p EXCEPT !.policy = v] : v \in {"Cleartext", "Dane", "StatelessDane"} \cup WebPki}
  \cup {[p EXCEPT !.tlsa = v] : v \in {<<>>, <<"r2">>, <<"r2", "r1">>}}
  \cup {[p EXCEPT !.query = v] : v \in {[Q EXCEPT !.scheme = "http"], [Q EXCEPT !.port = <<"443">>], [Q EXCEPT !.port = <<"8443">>],
                                        [Q EXCEPT !.protocols = {"Http11"}]}}
  \cup {[p EXCEPT !.freshness.until = 3]}
Bases == {HnsPlan, IcannPlan, Rich}
Stateless == [HnsPlan EXCEPT !.policy = "StatelessDane", !.tlsa = <<>>]
WebPkiPlan == [IcannPlan EXCEPT !.policy = "WebPkiAuthenticatedAbsence", !.tlsa = <<>>,
                                !.endpoints = <<At("a1", "443"), At("private", "443")>>]
Unsigned == [IcannPlan EXCEPT !.policy = "WebPkiInsecureDelegation", !.tlsa = <<>>, !.provenance = Doh("ProvenInsecure")]
AskPlan == \E b \in Bases : \E p \in Near(b) : \E q \in Near(p) : input' = [ask |-> "plan", plan |-> q]

Lookup(state, e) == [state |-> state, evidence |-> e]
Absence(namespace, kind, provenance) ==
  [namespace |-> namespace, query |-> Q, kind |-> kind, provenance |-> provenance,
   freshness |-> [from |-> 0, until |-> 3]]
HnsGone == Absence(Hns, "HnsCurrentUrkelNonInclusion", HnsProof)
IcannGone == Absence(Icann, "DnssecNxDomain", Doh("Secure"))
Lookups ==
  {Lookup("Present", p) : p \in {HnsPlan, IcannPlan, Rich, [HnsPlan EXCEPT !.query.port = <<"443">>],
                                 [IcannPlan EXCEPT !.freshness.until = 2]}}
  \cup {Lookup("Absent", a) : a \in {a \in {HnsGone, IcannGone, [HnsGone EXCEPT !.freshness.from = 2],
                                         [IcannGone EXCEPT !.provenance = Doh("ProvenInsecure")]} : AbsenceIsValid(a)}}
  \cup {Lookup("Failed", a) : a \in {HnsGone, IcannGone}}
Policies == [pin : {"", Hns, Icann}, binding : {"", Hns, Icann},
             precedence : {"PreferIcann", "FailClosed"}, revision : {0}]
AskDecision ==
  \E h, i \in Lookups, policy \in Policies, now \in 0..4 :
    input' = [ask |-> "decision", hns |-> h, icann |-> i, policy |-> policy, now |-> now]

\* Decisions whose fingerprints are compared: one part of one side changed.
Default == [pin |-> "", binding |-> "", precedence |-> "PreferIcann", revision |-> 0]
Taken(p) == {Lookup("Present", q) : q \in {r \in Near(p) : PlanIsValid(r)}}
On(query, lookup) == [lookup EXCEPT !.evidence.query = query]
Decide(h, i, policy) == decide_namespace(h.evidence.query, h, i, policy, 2)
Decisions ==
  LET base == Lookup("Present", HnsPlan)
      rich == Lookup("Present", Rich)
      all == {Decide(h, rich, Default) : h \in Taken(HnsPlan)} \cup {Decide(base, i, Default) : i \in Taken(Rich)}
             \cup {Decide(base, i, Default) : i \in Taken(IcannPlan)}
             \cup {Decide(Lookup("Absent", g), i, Default) :
                     g \in {HnsGone, [HnsGone EXCEPT !.kind = "DnssecNxDomain"], [HnsGone EXCEPT !.provenance.network = "reg"]},
                     i \in {rich, Lookup("Absent", IcannGone)}}
             \cup {Decide(base, Lookup("Absent", IcannGone), Default)}
             \cup {Decide(base, i, policy) : i \in {rich, Lookup("Present", IcannPlan)},
                     policy \in {[Default EXCEPT !.revision = 1], [Default EXCEPT !.pin = Icann],
                                 [Default EXCEPT !.binding = Icann], [Default EXCEPT !.pin = Hns],
                                 [Default EXCEPT !.precedence = "FailClosed"]}}
             \cup {Decide(On(q, base), On(q, Lookup("Present", IcannPlan)), Default) :
                     q \in {[Q EXCEPT !.port = <<"443">>], [Q EXCEPT !.scheme = "wss"], [Q EXCEPT !.protocols = {"Http11"}]}}
  IN {d \in all : d.error = ""}
AskPair == \E d, e \in Decisions : input' = [ask |-> "pair", one |-> d, two |-> e]

(***************************************************************************)
(* The browser gateway.                                                    *)
(***************************************************************************)
Config == [token |-> "t", allow_private |-> FALSE, allow_ports |-> FALSE, require_secure |-> TRUE,
           stateless |-> TRUE, authenticated |-> TRUE, validated |-> TRUE]
Configs == {Config, [Config EXCEPT !.allow_private = TRUE], [Config EXCEPT !.allow_ports = TRUE],
            [Config EXCEPT !.stateless = FALSE], [Config EXCEPT !.token = ""]}
\* What the caller left in the request is not to be believed.
Caller == [port |-> "1", transport |-> "Tcp", ech |-> TRUE, mode |-> "IcannWebPki", secure |-> TRUE,
           records |-> 1, decision |-> "none", planned |-> FALSE]
Request(scheme, port) ==
  [host |-> "h", qname |-> "h", scheme |-> scheme, port |-> port, protocol |-> "Http11",
   connect |-> "caller", tls |-> [Caller EXCEPT !.ech = uses_tls(scheme)]]
For(query, p) == [p EXCEPT !.query = query]
Planned(query) ==
  LET https == {HnsPlan, Stateless, IcannPlan, WebPkiPlan, Unsigned, Rich,
                [HnsPlan EXCEPT !.endpoints = <<At("private", "443")>>],
                [WebPkiPlan EXCEPT !.endpoints = <<At("private", "443"), At("a2", "443")>>],
                [HnsPlan EXCEPT !.tlsa = <<"unusable">>],
                [HnsPlan EXCEPT !.tlsa = <<"r1", "unusable">>],
                [Rich EXCEPT !.service.protocol = "Http3", !.service.transport = "Udp"],
                [Rich EXCEPT !.policy = "WebPkiInsecureDelegation", !.tlsa = <<>>, !.provenance = Doh("ProvenInsecure")]}
      http == {[p EXCEPT !.policy = "Cleartext", !.tlsa = <<>>, !.service.port = "80", !.endpoints = <<At("a1", "80")>>] :
                 p \in {HnsPlan, IcannPlan}}
      ssh == {[p EXCEPT !.service.port = "22", !.endpoints = <<At("a1", "22")>>] : p \in {HnsPlan, WebPkiPlan}}
  IN {p \in {For(query, q) : q \in https \cup http \cup ssh} : PlanIsValid(p)}
Gone(query, namespace) == Lookup("Absent", [(IF namespace = Hns THEN HnsGone ELSE IcannGone) EXCEPT !.query = query])
Resolved(query) ==
  LET lookups(namespace) == {Lookup("Present", p) : p \in {q \in Planned(query) : q.namespace = namespace}}
                            \cup {Gone(query, namespace)}
  IN {d \in {decide_namespace(query, h, i, policy, 2) : h \in lookups(Hns), i \in lookups(Icann),
                policy \in {Default, [Default EXCEPT !.pin = Hns]}} : d.error = ""}
Protocols == {{"Http11"}, {"Http11", "Http2"}, {"Http11", "Http2", "Http3"}}
Browsed == {Request("https", "443"), Request("http", "80"), Request("https", "22"), Request("wss", "443")}
AskGateway ==
  \E request \in Browsed, config \in Configs, platform \in {"mobile", "chromium"}, protocols \in Protocols, answered \in BOOLEAN :
    \E d \in Resolved(origin_query(request, protocols)) \cup Resolved([Q EXCEPT !.port = <<"443">>, !.host = "other"]) :
      /\ answered \/ config = Config
      /\ input' = [ask |-> "gateway", config |-> config, platform |-> platform, request |-> request,
                   decision |-> d, answered |-> answered, protocols |-> protocols]
AskConnect ==
  \E request \in Browsed, config \in Configs, dialed \in {"a1", "a2", "private", "elsewhere", NoAddress} :
    \E d \in Resolved(origin_query(request, {"Http11", "Http2"})) :
      input' = [ask |-> "connect", config |-> config, request |-> request, decision |-> d, dialed |-> dialed]

(***************************************************************************)
(* A resolver of one root.                                                 *)
(***************************************************************************)
NoSvc == [priority |-> 0, target |-> "", mandatory |-> {}, alpn |-> <<>>, no_default |-> FALSE, port |-> <<>>]
Svc == [NoSvc EXCEPT !.priority = 1, !.target = ".", !.alpn = <<"h2">>, !.port = <<"8443">>]
RR(owner, type, value) == [owner |-> owner, type |-> type, value |-> value, class |-> "IN", svc |-> NoSvc]
Https(svc) == [RR("h", "Https", "") EXCEPT !.svc = svc]
Answer(secure, records) == [error |-> "", secure |-> secure, records |-> records]
NoAnswer == [error |-> "Timeout", secure |-> FALSE, records |-> <<>>]
Aliased == <<RR("h", "Cname", "c"), RR("c", "A", "a2")>>
Firsts == {Answer(s, r) : s \in BOOLEAN,
             r \in {<<>>, <<RR("h", "A", "a1")>>, <<RR("h", "A", "private")>>, <<RR("x", "A", "a1")>>, Aliased,
                    <<RR("h", "A", "a1"), Https(Svc)>>, <<RR("h", "Cname", "c"), RR("h", "Cname", "d"), RR("c", "A", "a1")>>,
                    <<RR("h", "Cname", "c"), RR("c", "Cname", "d"), RR("d", "Cname", "e"), RR("e", "A", "a1")>>}}
          \cup {NoAnswer}
Addresses == {NoAnswer, Answer(TRUE, <<>>), Answer(TRUE, <<RR("h", "Aaaa", "v6")>>), Answer(FALSE, <<RR("h", "A", "a3")>>)}
Services1 == {Https(s) : s \in {Svc, [Svc EXCEPT !.priority = 2, !.alpn = <<"h3">>, !.port = <<>>],
                                [Svc EXCEPT !.alpn = <<"h9">>], [Svc EXCEPT !.alpn = <<"h9">>, !.no_default = TRUE],
                                [Svc EXCEPT !.priority = 0], [Svc EXCEPT !.target = "t"],
                                [Svc EXCEPT !.mandatory = {5}], [Svc EXCEPT !.port = <<"22">>]}}
HttpsAnswers == {NoAnswer, Answer(TRUE, <<>>)} \cup {Answer(s, <<x>>) : s \in BOOLEAN, x \in Services1}
                \cup {Answer(TRUE, <<x, y>>) : x, y \in {Https(Svc), Https([Svc EXCEPT !.priority = 2, !.alpn = <<"h3">>, !.port = <<>>]),
                                                        Https([Svc EXCEPT !.priority = 3, !.alpn = <<"h9">>, !.no_default = TRUE])}}
T(name, value) == RR(name, "Tlsa", value)
TlsaAnswers ==
  LET owner == TlsaOwner("h")
  IN {NoAnswer} \cup {Answer(s, r) : s \in BOOLEAN,
        r \in {<<>>, <<T(owner, "r1")>>, <<T(owner, "r1"), T(owner, "unusable")>>, <<T(owner, "unusable")>>,
               <<RR(owner, "Cname", "c"), T("c", "r1")>>, <<RR(owner, "Cname", "c")>>,
               <<RR(owner, "Cname", "c"), T(owner, "r1")>>, <<RR(owner, "Cname", "c"), RR("c", "Cname", owner)>>,
               <<[T(owner, "r1") EXCEPT !.class = "CH"]>>}}
SingleConfigs == {Config, [Config EXCEPT !.require_secure = FALSE], [Config EXCEPT !.authenticated = FALSE], [Config EXCEPT !.validated = FALSE]}
Quiet == [first |-> Answer(TRUE, <<RR("h", "A", "a1")>>), A |-> Answer(TRUE, <<>>), Aaaa |-> Answer(TRUE, <<>>),
          Https |-> Answer(TRUE, <<>>), Tlsa |-> Answer(TRUE, <<T(TlsaOwner("h"), "r1")>>)]
AnswerSets ==
  {[Quiet EXCEPT !.first = f, !.A = a, !.Aaaa = b] : f \in Firsts, a, b \in Addresses}
  \cup {[Quiet EXCEPT !.first = f, !.Https = s, !.Tlsa = t] :
          f \in {Quiet.first, Answer(FALSE, Quiet.first.records), Answer(TRUE, <<RR("h", "A", "a1"), Https(Svc)>>)},
          s \in HttpsAnswers, t \in TlsaAnswers}
AskSingle ==
  \E request \in {Request("https", "443"), Request("http", "80"), Request("https", "22")}, config \in SingleConfigs,
     platform \in {"mobile", "chromium"}, namespace \in {Hns, Icann}, answers \in AnswerSets, protocols \in {{"Http11"}, {"Http11", "Http2", "Http3"}} :
    /\ config = Config \/ (request.scheme = "https" /\ protocols # {"Http11"})
    /\ input' = [ask |-> "single", config |-> config, platform |-> platform, namespace |-> namespace,
                 request |-> request, answers |-> answers, protocols |-> protocols]

(***************************************************************************)
(* The properties at every question.                                       *)
(***************************************************************************)
\* A plan that is taken is coherent (ValidatedOriginPlan::new); a root is
\* selected only on complete current evidence of both (decide_namespace).
NamespacesAreDecided ==
  /\ input.ask = "plan" => PlanIsCoherent(input.plan)
  /\ input.ask = "decision" => DecisionIsSound(Q, input.hns, input.icann, input.policy, input.now)

\* Fingerprints are equal exactly for the same origin, policy, root and
\* connections (decision_fingerprint).
FingerprintsAreIdentities == input.ask = "pair" => FingerprintIsIdentity(input.one, input.two)

\* The transport is given only requests that follow the plan or the vouched
\* answers, and browser bytes pass through only under WebPKI
\* (resolve_origin_request, open_browser_connect_with_failure_context).
OriginsAreResolved ==
  /\ input.ask = "gateway" =>
       RequestFollowsPlan(input.config, input.platform, input.request, input.decision, input.answered, input.protocols)
  /\ input.ask = "connect" =>
       PassthroughIsWebPki(input.config, input.request, input.decision, TRUE, input.dialed)
  /\ input.ask = "single" =>
       RequestIsAuthenticated(input.config, input.platform, input.namespace, input.request, input.answers, input.protocols)
=============================================================================
