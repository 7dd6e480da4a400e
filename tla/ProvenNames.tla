---------------------------- MODULE ProvenNames -----------------------------
(***************************************************************************)
(* The resolvers of hns-browser-resolver over proofs of Handshake names:   *)
(* what is answered from the proven records of a root name and what is     *)
(* left to the name servers they delegate to (DelegatingResolver), and     *)
(* which authoritative DoH endpoints a delegation declares.                *)
(*                                                                         *)
(* Names: the root name "root", a name "sub" below it, the name servers    *)
(* "ns.root" below it and "ns.other" below another root name.  A record is *)
(* [owner, type, data].                                                    *)
(***************************************************************************)
EXTENDS Naturals, Sequences, FiniteSets, SequencesExt

Record(owner, type, data) == [owner |-> owner, type |-> type, data |-> data]

RootOf(name) == IF name = "ns.other" THEN "other" ELSE "root"

has_owner_record(records, owner, type) ==
    \E r \in records : r.owner = owner /\ r.type = type

\* filter_records, where ALL is the code u16::MAX
filter_records(records, name, qtype) ==
    IF qtype = "ALL" THEN records
    ELSE {r \in records : r.owner = name /\ r.type = qtype}

root_records_answer_request(name, qtype) ==
    name = "root" /\ qtype \in {"ALL", "DS", "NS", "TXT"}

nameservers(records) ==
    {r.data : r \in {r \in records : r.owner = "root" /\ r.type = "NS"}}

\* A proof: whether it is for the name asked and secure, whether the name
\* exists, its records; or an error of the provider.
Proof(matches, exists, records) ==
    [error |-> "", matches |-> matches, exists |-> exists, records |-> records]
NoProof(error) ==
    [error |-> error, matches |-> FALSE, exists |-> FALSE, records |-> {}]

Failure(error) == [error |-> error, records |-> {}, secure |-> FALSE]
Success(records, secure) == [error |-> "", records |-> records, secure |-> secure]

\* ProofBackedResolver::resolve
resolve_proof_backed(request, proof) ==
    CASE proof.error # "" -> Failure(proof.error)
      [] ~proof.matches -> Failure("ProofNameMismatch")
      [] ~proof.exists -> Failure("NameNotFound")
      [] OTHER -> Success(filter_records(proof.records, request.name,
                                         request.qtype), TRUE)

-----------------------------------------------------------------------------
(* hydrate_hns_nameserver_addresses: the addresses of name servers that the *)
(* proof does not give, from the proof of their own root names.             *)

Missing(records) ==
    {ns \in nameservers(records) :
       ~has_owner_record(records, ns, "A") /\ ~has_owner_record(records, ns, "AAAA")}

HydrateError(records, proofs) ==
    LET errors == {IF proofs[RootOf(ns)].error = ""
                   THEN IF proofs[RootOf(ns)].matches THEN "" ELSE "ProofNameMismatch"
                   ELSE proofs[RootOf(ns)].error : ns \in Missing(records)}
                    \ {"", "ProofUnavailable"}
    IN  IF errors = {} THEN "" ELSE CHOOSE e \in errors : TRUE

hydrate_hns_nameserver_addresses(records, proofs) ==
    records \cup
      {r \in UNION {proofs[RootOf(ns)].records :
                      ns \in {ns \in Missing(records) : proofs[RootOf(ns)].exists}} :
         r.owner \in Missing(records) /\ r.type \in {"A", "AAAA"}}

\* Without DS records a name error is nobody's word.
delegated_error(secured, error) ==
    IF error = "NameNotFound" /\ ~secured THEN "DnssecFailed" ELSE error

\* DelegatingResolver::resolve, where delegated is what the servers of the
\* delegation are found to answer.
resolve_delegating(request, proofs, delegated) ==
    LET proof == proofs["root"]
        direct == filter_records(proof.records, request.name, request.qtype)
        answered == \/ request.name = "root" /\ direct # {}
                    \/ root_records_answer_request(request.name, request.qtype)
                    \/ ~has_owner_record(proof.records, "root", "NS")
        unreachable == HydrateError(proof.records, proofs)
        secured == has_owner_record(proof.records, "root", "DS")
    IN  CASE proof.error # "" -> Failure(proof.error)
          [] ~proof.matches -> Failure("ProofNameMismatch")
          [] ~proof.exists -> Failure("NameNotFound")
          [] answered -> Success(direct, TRUE)
          [] unreachable # "" -> Failure(unreachable)
          [] delegated.error # "" ->
               Failure(delegated_error(secured, delegated.error))
          [] ~secured -> Success(delegated.records, FALSE)
          [] ~delegated.secure -> Failure("DnssecFailed")
          [] OTHER -> delegated

-----------------------------------------------------------------------------
(* hnsdns declarations in TXT records: parts of a key and a value.  "bad"  *)
(* is a value that does not parse; a part without key or value is NoPart;  *)
(* "long" makes the text longer than HNSDNS_MAX_TEXT_BYTES.                *)

Part(key, value) == [key |-> key, value |-> value]
NoPart == Part("", "")

MaxPins == 2

hnsdns_is_declared(parts) == Contains(parts, Part("hnsdns", "1"))

\* What the loop over the parts has gathered; "" where nothing was given yet.
Template == [error |-> FALSE, declared |-> TRUE, ns |-> "", transport |-> "",
             doh |-> "", port |-> "", path |-> "", pins |-> {}]
NotDeclared == [Template EXCEPT !.declared = FALSE]
Invalid == [Template EXCEPT !.error = TRUE]

\* parse_hnsdns_tlsa, and no more than two different pins.
add_pin(read, pin) ==
    IF pin = "bad" \/ Cardinality(read.pins \cup {pin}) > MaxPins THEN Invalid
    ELSE [read EXCEPT !.pins = @ \cup {pin}]

\* One part.  Each of ns, transport, doh, port and path may be given once.
hnsdns_part(read, part) ==
    CASE read.error -> read
      [] part = NoPart -> Invalid
      [] part.key = "hnsdns" -> IF part.value = "1" THEN read ELSE Invalid
      [] part.key = "tlsa" -> add_pin(read, part.value)
      [] part.key \in {"ns", "transport", "doh", "port", "path"} ->
           IF read[part.key] # "" \/ part.value = "bad" THEN Invalid
           ELSE [read EXCEPT ![part.key] = part.value]
      [] OTHER -> read

\* parse_hnsdns_declaration: one label names a server below the root.
parse_hnsdns_declaration(parts) ==
    LET read == FoldLeft(hnsdns_part, Template, parts)
        ns == IF read.ns = "ns" THEN "ns.root" ELSE read.ns
        or(given, default) == IF given = "" THEN default ELSE given
    IN  CASE ~hnsdns_is_declared(parts) -> NotDeclared
          [] Contains(parts, Part("other", "long")) -> Invalid
          [] read.error \/ read.transport \notin {"", "doh"} \/ read.ns = "" -> Invalid
          [] OTHER -> [read EXCEPT
                         !.ns = ns,
                         !.doh = IF read.doh = "" THEN ns ELSE "uri host",
                         !.port = or(read.port, IF read.doh = "" THEN "443"
                                                ELSE "uri port"),
                         !.path = or(read.path, IF read.doh = "" THEN "/dns-query"
                                                ELSE "uri path")]

-----------------------------------------------------------------------------
(* authoritative_doh_template_from_svcb and authoritative_doh_endpoints    *)

\* An SVCB record of a name server: whether it is an alias, whether its
\* mandatory keys are known, its ALPN list, its path and its port ("none",
\* "bad" or good).
svcb_template(ns, svcb) ==
    CASE svcb.alias \/ ~svcb.mandatory -> NotDeclared
      [] svcb.alpn = "bad" -> Invalid
      [] svcb.alpn # "h2" \/ svcb.path = "none" -> NotDeclared
      [] "bad" \in {svcb.path, svcb.port} -> Invalid
      [] OTHER -> [Template EXCEPT
                     !.ns = ns,
                     !.doh = IF svcb.target = "." THEN ns ELSE svcb.target,
                     !.port = IF svcb.port = "none" THEN "443" ELSE svcb.port,
                     !.path = svcb.path]

nameserver_ip_addresses(records) ==
    {[ns |-> ns, address |-> r.data] :
       ns \in nameservers(records),
       r \in {r \in records : r.type \in {"A", "AAAA"}}} \cap
    {[ns |-> r.owner, address |-> r.data] :
       r \in {r \in records : r.type \in {"A", "AAAA"}}}

Endpoint(entry, template) ==
    [ns |-> entry.ns, address |-> entry.address, host |-> template.doh,
     port |-> template.port, path |-> template.path, pins |-> template.pins]

\* Each template at the addresses of the name server it names.
template_endpoints(addresses, templates) ==
    UNION {{Endpoint(a, t) : a \in {a \in addresses : a.ns = t.ns}} :
             t \in templates}

\* bindings: ns |-> what its SVCB question brings: an error, an insecure
\* answer, or secure records.  Declarations come first.
authoritative_doh_endpoints(records, declarations, bindings) ==
    LET parsed == {parse_hnsdns_declaration(d) : d \in declarations}
        templates == {t \in parsed : t.declared}
        addresses == nameserver_ip_addresses(records)
        declared == template_endpoints(addresses, templates)
        bound == {a \in addresses : bindings[a.ns].outcome = "secure"}
        found == UNION {{Endpoint(a, svcb_template(a.ns, s)) :
                           s \in {s \in bindings[a.ns].records :
                                    svcb_template(a.ns, s).declared}} : a \in bound}
        broken == \E a \in bound : \E s \in bindings[a.ns].records :
                      svcb_template(a.ns, s).error
    IN  CASE \E t \in parsed : t.error -> [error |-> TRUE, endpoints |-> {}]
          [] declared # {} -> [error |-> FALSE, endpoints |-> declared]
          [] ~has_owner_record(records, "root", "DS") ->
               [error |-> FALSE, endpoints |-> {}]
          [] broken -> [error |-> TRUE, endpoints |-> {}]
          [] OTHER -> [error |-> FALSE, endpoints |-> found]

-----------------------------------------------------------------------------
(***************************************************************************)
(* The questions put to ProvenNames.                                       *)
(***************************************************************************)

VARIABLE input

RootRecords ==
    {Record("root", "NS", "ns.root"), Record("root", "NS", "ns.other"),
     Record("root", "DS", "ds"), Record("root", "A", "a1"),
     Record("ns.root", "A", "a2"), Record("sub", "A", "a3")}
OtherRecords == {Record("ns.other", "A", "a4"), Record("other", "DS", "ds"),
                 Record("root", "A", "a5")}

Proofs ==
    {[root |-> root, other |-> other] :
       root \in {Proof(matches, exists, records) : matches \in BOOLEAN,
                   exists \in BOOLEAN, records \in SUBSET RootRecords}
                  \cup {NoProof("Storage")},
       other \in {Proof(TRUE, TRUE, OtherRecords), Proof(TRUE, FALSE, {}),
                  Proof(FALSE, TRUE, OtherRecords), NoProof("ProofUnavailable"),
                  NoProof("Storage")}}

AskDelegating ==
    \E proofs \in Proofs, name \in {"root", "sub"},
       qtype \in {"A", "NS", "TXT", "ALL"},
       delegated \in {Failure("NameNotFound"), Failure("DnsTransport"),
                      Success({Record("sub", "A", "d")}, TRUE),
                      Success({Record("sub", "A", "d")}, FALSE)} :
        input' = [ask |-> "delegating", proofs |-> proofs, delegated |-> delegated,
                  request |-> [name |-> name, qtype |-> qtype]]

Parts ==
    {NoPart, Part("hnsdns", "2"), Part("ns", "ns"), Part("ns", "bad"),
     Part("transport", "doh"), Part("transport", "dot"), Part("doh", "uri"),
     Part("port", "853"), Part("path", "bad"), Part("tlsa", "p1"),
     Part("tlsa", "p2"), Part("tlsa", "p3"), Part("tlsa", "bad"),
     Part("other", "x"), Part("other", "long")}

AskDeclaration ==
    \E parts \in SeqOf(Parts, 4), i \in 0..1 :
        /\ i <= Len(parts) /\ (Len(parts) = 4 => i = 0 /\ Part("ns", "ns") \in Range(parts))
        /\ input' = [ask |-> "declaration",
                     parts |-> InsertAt(parts, i + 1, Part("hnsdns", "1"))]

Declarations ==
    {<<Part("hnsdns", "1"), Part("ns", "ns"), Part("tlsa", "p1")>>,
     <<Part("hnsdns", "1"), Part("ns", "ns.other")>>,
     <<Part("hnsdns", "1"), Part("ns", "ns.none")>>,
     <<Part("hnsdns", "1"), Part("ns", "bad")>>, <<Part("other", "x")>>}
Svcb == [alias |-> FALSE, mandatory |-> TRUE, alpn |-> "h2", path |-> "/q",
         port |-> "none", target |-> "."]
Bindings ==
    {[outcome |-> outcome, records |-> records] :
       outcome \in {"error", "insecure", "secure"},
       records \in {{Svcb}, {[Svcb EXCEPT !.alias = TRUE]},
                    {[Svcb EXCEPT !.alpn = "h3"]}, {[Svcb EXCEPT !.port = "bad"]},
                    {Svcb, [Svcb EXCEPT !.port = "853", !.target = "t"]}}}

AskEndpoints ==
    \E records \in SUBSET (RootRecords \cup OtherRecords),
       declarations \in SUBSET Declarations, one \in Bindings, two \in Bindings :
        /\ Cardinality(declarations) <= 2
        /\ one # two => \E parts \in declarations : Part("ns", "ns.other") \in Range(parts)
        /\ Record("root", "NS", "ns.root") \in records
        /\ Record("sub", "A", "a3") \notin records
        /\ Record("root", "A", "a1") \notin records
        /\ Record("other", "DS", "ds") \notin records
        /\ input' = [ask |-> "endpoints", records |-> records,
                     declarations |-> declarations,
                     bindings |-> [ns \in {"ns.root", "ns.other"} |->
                                     IF ns = "ns.root" THEN one ELSE two]]

-----------------------------------------------------------------------------
\* A secure answer is proven by the chain itself or, below a proven DS record,
\* by DNSSEC; an insecure one comes from a delegation proven to have no DS
\* record; and that a name does not exist is never an unsigned zone's word.
\* Where nothing is delegated the answer is the one read from the proof alone.
Delegation(proofs, request, delegated) ==
    LET result == resolve_delegating(request, proofs, delegated)
        proven == proofs["root"]
        signed == has_owner_record(proven.records, "root", "DS")
        added == hydrate_hns_nameserver_addresses(proven.records, proofs)
                   \ proven.records
    IN  /\ result.error = "" /\ result.secure =>
             /\ proven.matches /\ proven.exists
             /\ \/ result.records \subseteq proven.records
                \/ signed /\ delegated.secure /\ result.records = delegated.records
        /\ result.error = "" /\ ~result.secure => ~signed
        /\ ~has_owner_record(proven.records, "root", "NS") => result = resolve_proof_backed(request, proven)
        /\ result.error = "NameNotFound" =>
             \/ ~proven.exists \/ proven.error # ""
             \/ signed /\ delegated.error = "NameNotFound"
        /\ \A r \in added :
             /\ r.type \in {"A", "AAAA"}
             /\ r.owner \in nameservers(proven.records)
             /\ r \in proofs[RootOf(r.owner)].records

\* What a declaration says does not depend on the order of its parts: it is
\* read exactly if nothing in it is malformed, doubled or too much, and then
\* it is authenticated by all its pins if it has any.
Declaration(parts) ==
    LET all(key) == {i \in DOMAIN parts : parts[i].key = key}
        pins == {parts[i].value : i \in all("tlsa")}
        read == parse_hnsdns_declaration(parts)
        legible == /\ Cardinality(pins) <= 2
                   /\ Cardinality(all("ns")) = 1
                   /\ \A key \in {"transport", "doh", "port", "path"} :
                        Cardinality(all(key)) <= 1
                   /\ \A i \in DOMAIN parts :
                        /\ parts[i].value \notin {"", "bad", "2", "long", "dot"}
    IN  /\ read.error = ~legible
        /\ legible => read.pins = pins /\ read.ns = "ns.root"

\* An endpoint is a server's own: its address is one that the delegation gives
\* for the server that its template names; without DS records only a
\* declaration of the chain makes one, and a declared one keeps its pins.
Endpoints(records, declarations, bindings) ==
    LET result == authoritative_doh_endpoints(records, declarations, bindings)
        declared == {parse_hnsdns_declaration(d) : d \in declarations}
    IN  \A e \in result.endpoints :
          /\ e.ns \in nameservers(records)
          /\ \E r \in records : r.owner = e.ns /\ r.data = e.address
          /\ \/ \E t \in declared : t.ns = e.ns /\ t.pins = e.pins
             \/ /\ has_owner_record(records, "root", "DS")
                /\ bindings[e.ns].outcome = "secure"

\* All three, on the input at hand.
ProofsAreRespected ==
    /\ input.ask = "delegating" =>
         Delegation(input.proofs, input.request, input.delegated)
    /\ input.ask = "declaration" => Declaration(input.parts)
    /\ input.ask = "endpoints" =>
         Endpoints(input.records, input.declarations, input.bindings)
=============================================================================
