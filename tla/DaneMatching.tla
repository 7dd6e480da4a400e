---------------------------- MODULE DaneMatching ----------------------------
(***************************************************************************)
(* Whether a presented certificate chain meets the TLSA records of its      *)
(* service: hns-dane for the engine, hns-browser-dane and                   *)
(* certificate_association.rs for the browser, and the evidence a           *)
(* certificate may carry about itself (stateless DANE).                     *)
(*                                                                         *)
(* A certificate is [id, key, by, ca, signs, valid, limit, names, parses]:  *)
(* its key and the key that signed it, whether it is a CA, may sign         *)
(* certificates and is in its validity period, at most one path length,     *)
(* the names it is for and whether it is DER.  A TLSA record is [usage,      *)
(* selector, matching, data]; data is <<selector, matching, id>>, what the  *)
(* record was made from, or empty when its length cannot be right.          *)
(***************************************************************************)
EXTENDS Sequences, SequencesExt, FiniteSets, FiniteSetsExt, Checks, Integers

CONSTANTS max_chain_certificates, max_tlsa_records,
          MAX_CERTIFICATE_TLSA_RECORDS, MAX_CERTIFICATE_TLSA_INPUT_RECORDS, MAX_DANE_TA_CANDIDATES,
          MAX_STATELESS_DANE_ROOTS, MAX_STATELESS_DANE_PROOFS

Association(certificate, selector, matching) ==
    <<selector, matching, IF selector = 0 THEN certificate.id ELSE certificate.key>>

\* MatchMaterial::matches and TlsaRecord::matches_der.
matches_der(record, certificate) == record.data = Association(certificate, record.selector, record.matching)
Range1(s) == {s[i] : i \in DOMAIN s}

-----------------------------------------------------------------------------
(* Certificate paths: rustls-webpki and OpenSSL, external.                  *)

\* Every chain of distinct valid CA certificates from a leaf up to a signer.
IsLink(c) == c.parses /\ c.ca /\ c.signs /\ c.valid
Chained(leaf, path) ==
    /\ \A i \in DOMAIN path : IsLink(path[i]) /\ (i = 1 => leaf.by = path[1].key)
    /\ \A i \in 2..Len(path) : path[i - 1].by = path[i].key
    /\ \A i, j \in DOMAIN path : path[i] = path[j] => i = j
    /\ \A i \in DOMAIN path : path[i].limit # <<>> => i - 1 <= path[i].limit[1]
PathsTo(leaf, pool, key) ==
    {path \in UNION {[1..n -> pool] : n \in 0..Cardinality(pool)} :
       Chained(leaf, path) /\ (IF path = <<>> THEN leaf ELSE Last(path)).by = key}

\* verify_for_usage of rustls-webpki: the leaf is valid, and some path ends at one of
\* the anchors (certificates) that the callback accepts.
verify_for_usage(leaf, intermediates, anchors, Accepts(_, _)) ==
    /\ leaf.valid
    /\ \E a \in anchors : \E path \in PathsTo(leaf, Range1(intermediates), a.key) : Accepts(path, a)

-----------------------------------------------------------------------------
(* hns-dane.                                                                *)

parse_record(record) ==
    FirstError(<<<<record.usage \in {2, 3}, "UnsupportedUsage">>,
                 <<record.selector \in {0, 1}, "UnsupportedSelector">>,
                 <<record.matching \in {0, 1, 2}, "UnsupportedMatchingType">>,
                 <<record.data # <<>>, "InvalidAssociationLength">>>>)
ParseErrors(records) == SelectSeq([i \in DOMAIN records |-> parse_record(records[i])], LAMBDA e : e # "none")

MatchedAs(record, index) == [error |-> "none", usage |-> record.usage, index |-> index]
Refused(error) == [error |-> error, usage |-> 0, index |-> 0]

validate_chain_inputs(chain, domain, records) ==
    FirstError(<<<<chain # <<>> /\ Len(chain) <= max_chain_certificates, "ChainLength">>,
                 <<domain # "", "InvalidServerName">>,
                 <<records # <<>>, "MissingTlsa">>,
                 <<Len(records) <= max_tlsa_records, "TooManyTlsaRecords">>>>)

verify_dane_ee(leaf, records) ==
    LET hit == {i \in DOMAIN records : matches_der(records[i], leaf)}
        error == FirstError(<<<<records # <<>>, "MissingTlsa">>,
                              <<Len(records) <= max_tlsa_records, "TooManyTlsaRecords">>,
                              <<ParseErrors(records) = <<>>, "record">>,
                              <<\A i \in DOMAIN records : records[i].usage = 3, "UnsupportedUsage">>,
                              <<leaf.parses, "MalformedCertificate">>,
                              <<hit # {}, "Mismatch">>>>)
    IN IF error # "none" THEN Refused(error) ELSE MatchedAs(records[Min(hit)], Min(hit))

\* OpenSSL, trusting the anchor alone: the leaf is for the name and valid, and is the
\* anchor or reaches it through what was presented above the leaf.
validate_private_chain(chain, anchor, domain) ==
    LET leaf == chain[1]
        untrusted == Range1(Tail(chain)) \ {anchor}
    IN /\ domain \in leaf.names /\ leaf.valid
       /\ \/ leaf = anchor
          \/ IsLink(anchor) /\ \E path \in PathsTo(leaf, untrusted, anchor.key) :
                                  anchor.limit # <<>> => Len(path) <= anchor.limit[1]

\* The certificate a DANE-TA record names: presented, or carried whole by the record.
\* "none" where nothing matches and "error" where a certificate cannot be read.
AnchorOf(record, chain, certificates) ==
    LET whole == record.selector = 0 /\ record.matching = 0
        hit == {i \in DOMAIN chain : matches_der(record, chain[i])}
        before == IF hit = {} THEN DOMAIN chain ELSE 1..Min(hit)
        carried == {c \in certificates : c.id = record.data[3]}
    IN IF ~whole /\ \E i \in before : ~chain[i].parses THEN [kind |-> "error"]
       ELSE IF hit # {} THEN [kind |-> "anchor", certificate |-> chain[Min(hit)]]
       ELSE IF ~whole THEN [kind |-> "none"]
       ELSE IF carried = {} \/ \E c \in carried : ~c.parses THEN [kind |-> "error"]
       ELSE [kind |-> "anchor", certificate |-> CHOOSE c \in carried : TRUE]

\* Certificates is what an exact record may carry.
verify_dane_chain(chain, domain, records, certificates) ==
    LET inputs == validate_chain_inputs(chain, domain, records)
        leaf == chain[1]
        ee == {i \in DOMAIN records : records[i].usage = 3 /\ matches_der(records[i], leaf)}
        tas == {i \in DOMAIN records : records[i].usage = 2}
        anchor(i) == AnchorOf(records[i], chain, certificates)
        good == {i \in tas : anchor(i).kind = "anchor" /\ validate_private_chain(chain, anchor(i).certificate, domain)}
        broken == {i \in tas : anchor(i).kind = "error"}
    IN IF inputs # "none" THEN Refused(inputs)
       ELSE IF ParseErrors(records) # <<>> THEN Refused(ParseErrors(records)[1])
       ELSE IF ~leaf.parses THEN Refused("MalformedCertificate")
       ELSE IF ee # {} THEN MatchedAs(records[Min(ee)], Min(ee))
       ELSE IF \E i \in DOMAIN chain : ~chain[i].parses THEN Refused("MalformedCertificate")
       ELSE IF good # {} /\ \A i \in broken : Min(good) < i THEN MatchedAs(records[Min(good)], Min(good))
       ELSE IF broken # {} THEN Refused("MalformedCertificate")
       ELSE Refused(IF \E i \in tas : anchor(i).kind = "anchor" THEN "ChainValidation" ELSE "Mismatch")

-----------------------------------------------------------------------------
(* hns-browser-dane and certificate_association.rs.                         *)

parse_usable_rdata(record) ==
    /\ record.usage \in 0..3 /\ record.selector \in {0, 1} /\ record.matching \in {0, 1, 2} /\ record.data # <<>>
parse_usable_tlsa_rrset(records) == SelectSeq(records, parse_usable_rdata)

is_ee_usage(record) == record.usage \in {1, 3}
is_pkix_usage(record) == record.usage \in {0, 1}
NeedsSpki(records) == \E i \in DOMAIN records : is_ee_usage(records[i]) /\ records[i].selector = 1

Decided(decision, usage) == [error |-> "none", decision |-> decision, usage |-> usage]
Erred(error) == [error |-> error, decision |-> "", usage |-> 0]

evaluate_no_tlsa_policy(mode, webpki) ==
    IF mode = "HnsStrict" THEN Erred("MissingRequiredTlsa")
    ELSE CASE webpki = "Valid" -> Decided("WebPkiFallback", 0)
           [] webpki = "Invalid" -> Erred("WebPkiFailed")
           [] OTHER -> Decided("NoTlsa", 0)

\* Only the records of the end entity can match without a path.
evaluate_tlsa_for_chain(records, leaf, webpki) ==
    LET hit == {i \in DOMAIN records : is_ee_usage(records[i]) /\ matches_der(records[i], leaf)}
        good == {i \in hit : is_pkix_usage(records[i]) => webpki = "Valid"}
    IN IF good # {} THEN Decided("Matched", records[Min(good)].usage)
       ELSE IF \E i \in DOMAIN records : ~is_ee_usage(records[i]) THEN Erred("PathValidationRequired")
       ELSE IF hit # {} THEN Erred("WebPkiFailed") ELSE Decided("Failed", 0)
evaluate_policy(mode, secure, records, leaf, webpki) ==
    IF records = <<>> THEN evaluate_no_tlsa_policy(mode, webpki)
    ELSE IF ~secure THEN Erred("InsecureTlsa")
    ELSE IF NeedsSpki(records) /\ ~leaf.parses THEN Erred("MalformedCertificate")
    ELSE evaluate_tlsa_for_chain(records, leaf, webpki)

\* A full certificate is matched on the path; of the root only the key is known.
path_matches_pkix_ta(record, path, root) ==
    \/ \E i \in DOMAIN path : matches_der(record, path[i])
    \/ record.selector = 1 /\ matches_der(record, root)
verify_pkix_ta(records, leaf, intermediates, name, roots) ==
    /\ leaf.parses /\ name \in leaf.names
    /\ verify_for_usage(leaf, intermediates, roots,
                        LAMBDA path, root : \E r \in records : path_matches_pkix_ta(r, path, root))

\* valid_dane_ta: a CA in its validity period that may sign certificates.
valid_dane_ta(candidate) == IsLink(candidate)
\* Anchors are the candidates a record matches: presented, or carried whole.
verify_dane_ta(records, leaf, intermediates, name, certificates) ==
    LET carried == {c \in certificates : \E r \in records : r.selector = 0 /\ r.matching = 0 /\ r.data[3] = c.id}
        candidates == Range1(intermediates) \cup carried
        anchors == {c \in candidates : c.parses /\ valid_dane_ta(c) /\ \E r \in records : matches_der(r, c)}
    IN /\ leaf.parses /\ name \in leaf.names
       /\ Cardinality(candidates) <= MAX_DANE_TA_CANDIDATES
       /\ verify_for_usage(leaf, intermediates, anchors,
                           LAMBDA path, a : a.limit # <<>> => Len(path) <= a.limit[1])

evaluate_policy_with_path_verifier(mode, secure, records, leaf, intermediates, name, webpki, roots, certificates) ==
    LET set == Range1(records)
        of(usage) == {r \in set : r.usage = usage}
        ee(usage) == \E r \in of(usage) : matches_der(r, leaf)
    IN IF records = <<>> THEN evaluate_no_tlsa_policy(mode, webpki)
       ELSE IF ~secure THEN Erred("InsecureTlsa")
       ELSE IF \/ Len(records) > MAX_CERTIFICATE_TLSA_INPUT_RECORDS
               \/ Cardinality(set) > MAX_CERTIFICATE_TLSA_RECORDS THEN Erred("TooManyTlsaRecords")
       ELSE IF NeedsSpki(records) /\ ~leaf.parses THEN Erred("MalformedCertificate")
       ELSE IF ee(3) THEN Decided("Matched", 3)
       ELSE IF ee(1) /\ webpki = "Valid" THEN Decided("Matched", 1)
       ELSE IF of(2) # {} /\ verify_dane_ta(of(2), leaf, intermediates, name, certificates) THEN Decided("Matched", 2)
       ELSE IF of(0) # {} /\ webpki = "Valid" /\ verify_pkix_ta(of(0), leaf, intermediates, name, roots)
         THEN Decided("Matched", 0)
       ELSE IF webpki # "Valid" /\ (ee(1) \/ of(0) # {}) THEN Erred("WebPkiFailed")
       ELSE Decided("Failed", 0)

-----------------------------------------------------------------------------
(* Stateless DANE: the certificate carries Urkel proofs (each [root, parses, *)
(* included, name, data], data "cut" where the name state is cut short, "ds" *)
(* where it holds one) and a DNSSEC chain [parses, tlsa, owner, status]      *)
(* with its TLSA records, their owner and what validate_signed_rrset makes   *)
(* of them.                                                                  *)

\* The first proof under an accepted root that is of the name, or is malformed.
FirstProof(proofs, roots, name) ==
    LET usable == {i \in DOMAIN proofs : proofs[i].root \in roots /\ (proofs[i].parses => proofs[i].included)}
    IN IF usable = {} THEN 0 ELSE Min(usable)

extract_name_state_resource_value(proof, name) ==
    FirstError(<< <<proof.name = name, "InvalidCertificateEvidence">>, <<proof.data # "cut", "MalformedCertificateEvidence">> >>)

Evidence(error, records, root) == [error |-> error, records |-> records, root |-> root]
\* name is the last label of the host; service its TLSA owner for the transport.
evaluate_stateless_dane_certificate(certificate, name, service, roots) ==
    LET proofs == certificate.proofs
        chain == certificate.chain
        first == FirstProof(proofs[1], roots, name)
        proof == proofs[1][first]
        extracted == extract_name_state_resource_value(proof, name)
        usable == parse_usable_tlsa_rrset(chain[1].tlsa)
        error == FirstError(<<
            <<proofs # <<>> \/ chain # <<>>, "Missing">>,
            <<Len(proofs) = 1 /\ Len(chain) = 1, "MalformedCertificateEvidence">>,
            <<roots # {} /\ Cardinality(roots) <= MAX_STATELESS_DANE_ROOTS, "InvalidCertificateEvidence">>>>)
        parsed == FirstError(<<
            <<proofs[1] # <<>> /\ Len(proofs[1]) <= MAX_STATELESS_DANE_PROOFS, "MalformedCertificateEvidence">>,
            <<chain[1].parses, "MalformedCertificateEvidence">>,
            <<chain[1].owner = service /\ chain[1].tlsa # <<>>, "MissingCertificateTlsa">>,
            <<first # 0, "InvalidCertificateEvidence">>>>)
        proved == FirstError(<<
            <<proof.parses, "MalformedCertificateEvidence">>,
            <<extracted = "none", extracted>>,
            <<proof.data = "ds", "UnsupportedCertificateEvidence">>,
            <<chain[1].status = "Secure", "InvalidCertificateDnssec">>,
            <<usable # <<>>, "MissingCertificateTlsa">>>>)
    IN IF error # "none" THEN Evidence(error, <<>>, "")
       ELSE IF parsed # "none" THEN Evidence(parsed, <<>>, "")
       ELSE IF proved # "none" THEN Evidence(proved, <<>>, "")
       ELSE Evidence("none", usable, proof.root)

-----------------------------------------------------------------------------
(***************************************************************************)
(* Reading certificates: one DER element (the readers of hns-dane and       *)
(* hns-browser-dane), and the fields of a certificate, from which the two   *)
(* take the subjectPublicKeyInfo a TLSA record names.                       *)
(*                                                                         *)
(* Bytes are numbers below Radix.  A certificate is [trailing, outer, tbs]:  *)
(* whether bytes follow it, its own elements and those of its first; an     *)
(* element is [tag, id, good], good when its content has its form.          *)
(***************************************************************************)

CONSTANTS ByteBits,                     \* 8
          TagRadix,                     \* 32: the tag number of one byte is below TagRadix - 1
          EngineOctets, BrowserOctets   \* 4, and the 8 of a usize

Radix == 2 ^ ByteBits
HighBit == Radix \div 2
NoElement == [ok |-> FALSE, tag |-> 0, value |-> <<>>, end |-> 0]

RECURSIVE BigEndian(_)
BigEndian(s) == IF s = <<>> THEN 0 ELSE BigEndian(SubSeq(s, 1, Len(s) - 1)) * Radix + s[Len(s)]

\* The length at a position: <<length, position after it>>, or <<>>.  A long form has
\* no leading zero and is not used for what the short form says.
read_der_length(input, at, octets) ==
    IF at > Len(input) THEN <<>>
    ELSE IF input[at] < HighBit THEN <<input[at], at + 1>>
    ELSE LET n == input[at] - HighBit
             length == BigEndian(SubSeq(input, at + 1, at + n))
         IN IF n = 0 \/ n > octets \/ at + n > Len(input) \/ input[at + 1] = 0 \/ length < HighBit THEN <<>>
            ELSE <<length, at + n + 1>>

read_der_element(input, octets) ==
    LET length == read_der_length(input, 2, octets)
    IN IF Len(input) < 2 \/ length = <<>> \/ length[2] + length[1] - 1 > Len(input) THEN NoElement
       ELSE [ok |-> TRUE, tag |-> input[1], value |-> SubSeq(input, length[2], length[2] + length[1] - 1),
             end |-> length[2] + length[1]]
\* The engine also refuses a tag of several bytes.
read_tlv(input) ==
    IF input # <<>> /\ input[1] % TagRadix = TagRadix - 1 THEN NoElement ELSE read_der_element(input, EngineOctets)

RECURSIVE ToBytes(_)
ToBytes(n) == IF n = 0 THEN <<>> ELSE Append(ToBytes(n \div Radix), n % Radix)
wrap_der_sequence(tag, contents) ==
    LET n == Len(contents)
    IN IF n < HighBit THEN <<tag, n>> \o contents
       ELSE <<tag, HighBit + Len(ToBytes(n))>> \o ToBytes(n) \o contents

\* The contents the engine accepts for an integer.
validate_integer(input) ==
    /\ input # <<>>
    /\ Len(input) > 1 => /\ ~(input[1] = 0 /\ input[2] < HighBit)
                         /\ ~(input[1] = Radix - 1 /\ input[2] >= HighBit)

-----------------------------------------------------------------------------
(* The fields of a certificate.                                             *)

IsVersion(e) == e.tag = "version"
AfterVersion(tbs) == IF tbs # <<>> /\ IsVersion(tbs[1]) THEN Tail(tbs) ELSE tbs

\* validate_tbs_tail: each optional field once, in order.
TailOrder == [e \in {"issuer id", "subject id", "extensions"} |->
                CASE e = "issuer id" -> 1 [] e = "subject id" -> 2 [] OTHER -> 3]
validate_tbs_tail(tail) ==
    /\ \A i \in DOMAIN tail : tail[i].tag \in DOMAIN TailOrder
    /\ \A i \in 2..Len(tail) : TailOrder[tail[i - 1].tag] < TailOrder[tail[i].tag]

Kinds == <<"integer", "sequence", "sequence", "sequence", "sequence", "sequence">>
\* The id of the subjectPublicKeyInfo, 0 when the certificate is not of its form.
extract_subject_public_key_info(c) ==
    LET fields == AfterVersion(c.tbs)
    IN IF /\ ~c.trailing
          /\ Len(c.outer) = 3 /\ \A i \in 1..3 : c.outer[i].tag = <<"sequence", "sequence", "bits">>[i] /\ c.outer[i].good
          /\ c.tbs # <<>> /\ (IsVersion(c.tbs[1]) => c.tbs[1].good)
          /\ Len(fields) >= 6 /\ \A i \in 1..6 : fields[i].tag = Kinds[i] /\ fields[i].good
          /\ fields[2].id = c.outer[2].id
          /\ validate_tbs_tail(SubSeq(fields, 7, Len(fields)))
         THEN fields[6].id ELSE 0

\* The browser skips what comes before it.
extract_spki_der(c) ==
    LET fields == AfterVersion(c.tbs)
    IN IF /\ ~c.trailing /\ c.outer # <<>> /\ c.outer[1].tag = "sequence"
          /\ Len(fields) >= 6 /\ fields[6].tag = "sequence"
         THEN fields[6].id ELSE 0

\* The element that holds the extensions, 0 when there is none.
certificate_extension_values(c) ==
    LET fields == AfterVersion(c.tbs)
        found == {i \in 7..Len(fields) : fields[i].tag = "extensions"}
    IN IF c.trailing \/ c.outer = <<>> \/ Len(fields) < 6 \/ found = {} THEN 0 ELSE fields[Min(found)].id

-----------------------------------------------------------------------------
(***************************************************************************)
(* TLSA records against certificate chains, and the readers of certificate *)
(* bytes, on small inputs.  The root signs the CA ca1, which signs the      *)
(* leaf; "other" is a CA nobody vouches for with a leaf of its own.         *)
(***************************************************************************)

CONSTANT MaxZeros

VARIABLE input


Certificate(id, key, by, ca) == [id |-> id, key |-> key, by |-> by, ca |-> ca, signs |-> ca, valid |-> TRUE,
                                 limit |-> <<>>, names |-> {"host"}, parses |-> TRUE]
Root == Certificate("root", "kr", "kr", TRUE)
Ca == Certificate("ca1", "k1", "kr", TRUE)
Leaf == Certificate("leaf", "kl", "k1", FALSE)
Other == Certificate("other", "kx", "kx", TRUE)
OtherLeaf == Certificate("other leaf", "ky", "kx", FALSE)
Leaves == {Leaf, OtherLeaf, [Leaf EXCEPT !.names = {"elsewhere"}], [Leaf EXCEPT !.valid = FALSE],
           [Leaf EXCEPT !.parses = FALSE]}
Issuers == {Ca, Other, Root, [Ca EXCEPT !.valid = FALSE], [Ca EXCEPT !.signs = FALSE], [Root EXCEPT !.limit = <<0>>],
            [Ca EXCEPT !.parses = FALSE]}
Chains == {<<>>} \cup {<<c>> : c \in Issuers} \cup {<<Ca, Root>>, <<Ca, [Root EXCEPT !.limit = <<0>>]>>, <<Other, Ca>>}

\* Records of the certificates a service may have, and some of no use.
Tlsa(usage, selector, matching, c) ==
    [usage |-> usage, selector |-> selector, matching |-> matching, data |-> Association(c, selector, matching)]
RecordsOf(c) == {Tlsa(u, s, m, c) : u \in 0..3, s \in 0..1, m \in 0..1}
Useless == {[Tlsa(3, 1, 1, Leaf) EXCEPT !.usage = 9], [Tlsa(3, 1, 1, Leaf) EXCEPT !.data = <<>>]}
AllRecords == UNION {RecordsOf(c) : c \in {Leaf, Ca, Root}} \cup Useless
RecordSets == {<<>>} \cup {<<r>> : r \in AllRecords}
                \cup {<<q, r>> : q \in {Tlsa(3, 1, 1, Leaf), Tlsa(2, 1, 1, Ca), Tlsa(1, 0, 1, Leaf), Tlsa(2, 0, 0, Root)},
                                 r \in AllRecords}

\* WebPKI was judged on the same chain: Valid when it reaches the root for the name.
PkixPaths(leaf, chain) == IF leaf.parses /\ leaf.valid /\ "host" \in leaf.names
                            THEN PathsTo(leaf, Range1(chain), Root.key) ELSE {}
WebPki(leaf, chain, asked) == IF ~asked THEN "NotEvaluated" ELSE IF PkixPaths(leaf, chain) # {} THEN "Valid" ELSE "Invalid"

AskDane ==
    \E leaf \in Leaves, chain \in Chains, records \in RecordSets, secure, asked \in BOOLEAN, mode \in {"HnsStrict", "IcannWebPki"} :
      /\ ~secure => Len(records) = 1 /\ chain = <<>>
      /\ ~asked => Len(records) < 2
      /\ mode = "IcannWebPki" => Len(records) < 2
      /\ input' = [ask |-> "dane", leaf |-> leaf, chain |-> chain, records |-> records, secure |-> secure,
                   webpki |-> WebPki(leaf, chain, asked), mode |-> mode]

Carried == {Root}
Browser(q, records) ==
    evaluate_policy_with_path_verifier(q.mode, q.secure, records, q.leaf, q.chain, "host", q.webpki, {Root}, Carried)
LeafOnly(q, records) == evaluate_policy(q.mode, q.secure, records, q.leaf, q.webpki)
Engine(q) == verify_dane_chain(<<q.leaf>> \o q.chain, "host", q.records, Carried)

\* What a record of each usage stands for.
Vouches(r, leaf, chain) ==
    CASE r.usage = 3 -> matches_der(r, leaf)
      [] r.usage = 1 -> matches_der(r, leaf) /\ PkixPaths(leaf, chain) # {}
      [] r.usage = 0 -> \E path \in PkixPaths(leaf, chain) :
                          \E c \in Range1(path) \cup {Root} : matches_der(r, c)
      [] r.usage = 2 -> /\ leaf.parses /\ leaf.valid /\ "host" \in leaf.names
                        /\ \E a \in Range1(chain) \cup Carried \cup {leaf} :
                             /\ matches_der(r, a)
                             /\ \/ a = leaf
                                \/ IsLink(a) /\ \E path \in PathsTo(leaf, Range1(chain) \ {a}, a.key) :
                                                  a.limit # <<>> => Len(path) <= a.limit[1]
      [] OTHER -> FALSE

Matched(decision) == decision.error = "none" /\ decision.decision = "Matched"

\* A chain is matched only where a usable record, authenticated by DNSSEC, vouches for
\* it in the way of the usage that is reported: by the leaf alone, by an anchor the
\* leaf was signed under, and for the PKIX usages under WebPKI as well
\* (evaluate_policy_with_path_verifier, verify_dane_chain, verify_dane_ee).  In the
\* browser's evaluation nothing falls back to WebPKI while there is a record, and the
\* answer does not depend on the order of the records; verify_dane_chain takes the
\* DANE-TA records one by one and is not asked that.
MatchesAreVouchedFor ==
    input.ask = "dane" =>
      LET q == input
          usable == parse_usable_tlsa_rrset(q.records)
          decision == Browser(q, usable)
          leafonly == LeafOnly(q, usable)
          engine == Engine(q)
          leafengine == verify_dane_ee(q.leaf, q.records)
          reversed == [i \in DOMAIN usable |-> usable[Len(usable) + 1 - i]]
          vouched(usage) == \E i \in DOMAIN q.records :
                              q.records[i].usage = usage /\ Vouches(q.records[i], q.leaf, q.chain)
      IN /\ Matched(decision) => q.secure /\ vouched(decision.usage)
         /\ Matched(leafonly) => q.secure /\ vouched(leafonly.usage) /\ Matched(decision)
         /\ engine.error = "none" => vouched(engine.usage)
         /\ leafengine.error = "none" => vouched(3) /\ engine = leafengine
         /\ usable # <<>> => decision.decision \notin {"NoTlsa", "WebPkiFallback"}
         /\ q.mode = "HnsStrict" => decision.decision \in {"Matched", "Failed", ""}
         /\ Browser(q, reversed) = decision
         /\ (q.secure /\ q.leaf.parses /\ vouched(3) /\ Len(usable) = Len(q.records)) => Matched(decision)

CarriedProofs == {p \in [root : {"r1", "r2"}, parses : BOOLEAN, included : BOOLEAN, name : {"tld", "other"},
                         data : {"ds", "no ds", "cut"}] : p.parses \/ (~p.included /\ p.data = "cut")}
AskStateless ==
    \E proofs \in {<<>>} \cup {<<s>> : s \in UNION {[1..n -> CarriedProofs] : n \in 0..2}},
       chain \in {<<>>} \cup {<<c>> : c \in [parses : BOOLEAN, tlsa : {<<>>, <<Tlsa(3, 1, 1, Leaf)>>},
                                             owner : {"_443._tcp", "_443._udp"}, status : {"Secure", "Bogus"}]},
       roots \in {{}, {"r1"}} :
      input' = [ask |-> "stateless", certificate |-> [proofs |-> proofs, chain |-> chain], roots |-> roots]

\* Evidence a certificate carries counts only with a proof, under a root the client
\* accepts, of the host's own name, whose DS signs the TLSA records of exactly this
\* service and transport (evaluate_stateless_dane_certificate_for_transport).
CarriedEvidenceIsProved ==
    input.ask = "stateless" =>
      LET q == input
          evidence == evaluate_stateless_dane_certificate(q.certificate, "tld", "_443._tcp", q.roots)
          chain == q.certificate.chain[1]
      IN evidence.error = "none" =>
           /\ chain.status = "Secure" /\ chain.owner = "_443._tcp"
           /\ \E i \in DOMAIN q.certificate.proofs[1] :
                LET p == q.certificate.proofs[1][i]
                IN p.root = evidence.root /\ p.root \in q.roots /\ p.parses /\ p.included /\ p.name = "tld" /\ p.data = "ds"
           /\ evidence.records # <<>>

-----------------------------------------------------------------------------
(* Bytes.                                                                   *)

Zeros(n) == [i \in 1..n |-> 0]
AskBytes ==
    \E prefix \in UNION {[1..n -> 0..(Radix - 1)] : n \in 0..3}, zeros \in 0..MaxZeros, tag \in {1, Radix - 1} :
      input' = [ask |-> "bytes", bytes |-> <<tag>> \o prefix \o Zeros(zeros)]

\* The number a content stands for, in two's complement.
Number(content) ==
    BigEndian(content) - (IF content[1] >= HighBit THEN Radix ^ Len(content) ELSE 0)

\* An element that is read is the one encoding of its content, an integer the
\* shortest of its number, and the engine reads no other element than the browser
\* (read_tlv, read_der_element, wrap_der_sequence, validate_integer).
ElementsAreCanonical ==
    input.ask = "bytes" =>
      LET browser == read_der_element(input.bytes, BrowserOctets)
          engine == read_tlv(input.bytes)
          content == Tail(input.bytes)
      IN /\ browser.ok => SubSeq(input.bytes, 1, browser.end - 1) = wrap_der_sequence(browser.tag, browser.value)
         /\ engine.ok => engine = browser
         /\ Len(content) \in 1..4 =>
              (validate_integer(content) <=> Len(content) > 1 => Number(content) # Number(Tail(content)))

Element(tag, id) == [tag |-> tag, id |-> id, good |-> TRUE]
Whole == <<Element("version", 9), Element("integer", 1), Element("sequence", 2), Element("sequence", 3),
           Element("sequence", 4), Element("sequence", 5), Element("sequence", 6), Element("extensions", 7)>>
Odd == {Element("sequence", 8), Element("integer", 8), Element("version", 8), Element("issuer id", 8),
        Element("extensions", 8), [Element("sequence", 2) EXCEPT !.good = FALSE]}
\* The usual fields with one left out, put in or replaced, twice.
Edits(s) == {s} \cup {RemoveAt(s, i) : i \in DOMAIN s} \cup {InsertAt(s, i, e) : i \in DOMAIN s, e \in Odd}
                \cup {[s EXCEPT ![i] = e] : i \in DOMAIN s, e \in Odd}
AskFields ==
    \E tbs \in UNION {Edits(s) : s \in Edits(Whole)}, trailing \in BOOLEAN :
      input' = [ask |-> "fields",
                certificate |-> [trailing |-> trailing, tbs |-> tbs,
                                 outer |-> <<Element("sequence", 0), Element("sequence", 2), Element("bits", 0)>>]]

\* Both readers take the same key from a certificate the strict one accepts, and the
\* extensions are read from the end of the same fields (extract_spki_der).
ReadersAgreeOnTheKey ==
    input.ask = "fields" =>
      LET c == input.certificate strict == extract_subject_public_key_info(c)
          extensions == certificate_extension_values(c)
      IN strict # 0 =>
           /\ extract_spki_der(c) = strict
           /\ extensions = (IF Last(c.tbs).tag = "extensions" THEN Last(c.tbs).id ELSE 0)

AskCertificates == AskDane \/ AskStateless \/ AskBytes \/ AskFields

\* What is matched is vouched for, by records and evidence that were authenticated and
\* a key both readers take from the certificate: the four statements above.
CertificatesAreVouchedFor ==
    MatchesAreVouchedFor /\ CarriedEvidenceIsProved /\ ElementsAreCanonical /\ ReadersAgreeOnTheKey
=============================================================================
