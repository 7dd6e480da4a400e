---------------------------- MODULE StatusRecords ----------------------------
(***************************************************************************)
(* hns-browser-observability: the status a browser shows of the engine is   *)
(* one record, and BrowserStatus::new takes it only where its fields bear   *)
(* each other out.  Engine::observability_status fills the record from the  *)
(* engine's last provenance or from the ICANN path, and the completions the *)
(* provenance comes from pass validate_completion_context.                  *)
(*                                                                         *)
(* An absent field is None.  An identity is a text of which only emptiness, *)
(* excess and equality count.                                               *)
(***************************************************************************)
EXTENDS Checks, Integers

None == "none"
Present(x) == x # None

-----------------------------------------------------------------------------
(* Evidence.                                                               *)

EvidenceKinds == {"hns_proof", "dnssec", "tlsa", "dane", "chain_current", "origin_sni"}
EvidenceOf(state) == [k \in EvidenceKinds |-> state]
not_attempted == EvidenceOf("NotAttempted")
revoked == EvidenceOf("Revoked")
unavailable_evidence == EvidenceOf("Unavailable")
fully_verified(evidence) == \A k \in EvidenceKinds : evidence[k] = "Verified"

-----------------------------------------------------------------------------
(* The intermediaries of a transport.                                      *)

NoIdentities == [peer |-> None, proxy |-> None, target |-> None, direct_relay_fallback |-> FALSE]
Named(identities) == {r \in {"peer", "proxy", "target"} : Present(identities[r])}
WellFormed(identities) == \A r \in Named(identities) : identities[r] \notin {"", "too long"}
is_experimental_p2p(transport) == transport \in {"HandshakeP2pOdoh", "HandshakeP2pDnsRelay"}

\* hns-dane-engine checks the intermediaries of a completion.
validate_completion_context(transport, context) ==
  FirstError(
    <<<<WellFormed(context), "InvalidTransportIdentity">>>>
    \o CASE transport = "HandshakeP2pOdoh" ->
              <<<<{"proxy", "target"} \subseteq Named(context), "MissingTransportIdentity">>,
                <<context.proxy # context.target, "ProxyTargetNotSeparated">>,
                <<"peer" \notin Named(context) /\ ~context.direct_relay_fallback, "InvalidCompletionContext">>>>
         [] transport = "HandshakeP2pDnsRelay" ->
              <<<<"peer" \in Named(context), "MissingTransportIdentity">>,
                <<Named(context) \subseteq {"peer"}, "InvalidCompletionContext">>>>
         [] transport \in {"DirectAuthoritativeUdp", "DirectAuthoritativeTcp", "AuthenticatedAuthoritativeDoh",
                           "UserConfiguredRecursiveHnsDoh"} ->
              <<<<Named(context) = {} /\ ~context.direct_relay_fallback, "InvalidCompletionContext">>>>
         [] OTHER -> <<<<FALSE, "InvalidCompletionContext">>>>)

validate_identities(transport, identities) ==
  FirstError(
    <<<<WellFormed(identities), "InvalidIdentity">>>>
    \o CASE transport = "HandshakeP2pOdoh" ->
              <<<<{"proxy", "target"} \subseteq Named(identities), "MissingIdentity">>,
                <<identities.proxy # identities.target /\ "peer" \notin Named(identities)
                    /\ ~identities.direct_relay_fallback, "InvalidTransportContext">>>>
         [] transport = "HandshakeP2pDnsRelay" ->
              <<<<Named(identities) = {"peer"}, "InvalidTransportContext">>>>
         [] OTHER -> <<<<identities = NoIdentities, "InvalidTransportContext">>>>)

-----------------------------------------------------------------------------
(* Providers and limits.                                                   *)

initial_readiness(enabled) == IF enabled THEN "Starting" ELSE "Disabled"
from_policy(roles) == [r \in DOMAIN roles |-> initial_readiness(roles[r])]
validate_provider_readiness(roles, readiness) ==
  \A r \in DOMAIN roles :
    IF roles[r] THEN readiness[r] # "Disabled" ELSE readiness[r] \in {"Disabled", "Revoked"}

RateLimitIsValid(l) ==
  /\ l.max_concurrency = 0 <=> l.window_limit = 0
  /\ IF l.max_concurrency = 0
     THEN l.in_flight = 0 /\ l.window_requests = 0 /\ ~l.limited
     ELSE /\ l.in_flight <= l.max_concurrency /\ l.window_requests <= l.window_limit
          /\ l.limited <=> (l.in_flight = l.max_concurrency \/ l.window_requests = l.window_limit)

\* RuntimeFeatureState: what is observed is active, configured and compiled.
try_new(compiled, configured, active, observed) ==
  FirstError(<<<<configured => compiled, "ConfiguredWithoutCapability">>,
               <<active => configured, "ActiveWithoutConfiguration">>,
               <<observed = "true" => active, "ObservedWithoutActivePath">>>>)

-----------------------------------------------------------------------------
(* Failures, selections and the ICANN path.                                *)

validate_failure_reasons(authority, degraded, revocation) ==
  FirstError(
    <<<<~(Present(degraded) /\ Present(revocation)), "ConflictingFailureReasons">>>>
    \o CASE authority = "Degraded" -> <<<<Present(degraded), "MissingFailureReason">>>>
         [] authority \in {"Revoked", "Stopped"} ->
              <<<<Present(revocation), "MissingFailureReason">>,
                <<authority = "Stopped" <=> revocation = "Stopped", "FailureReasonMismatch">>>>
         [] OTHER -> <<<<~Present(degraded) /\ ~Present(revocation), "FailureReasonMismatch">>>>)

valid_namespace_selection(outcome, selected, reason) ==
  CASE outcome \in {None, "Neither"} -> selected = None /\ reason = None
    [] outcome = "HnsOnly" -> selected = "Hns" /\ reason \in {"SingleRoot", "ExplicitPin", "StickyBinding"}
    [] outcome = "IcannOnly" -> selected = "Icann" /\ reason \in {"SingleRoot", "ExplicitPin", "StickyBinding"}
    [] OTHER -> \/ selected \in {"Hns", "Icann"} /\ reason \in {"ExplicitPin", "StickyBinding"}
                \/ selected = "Icann" /\ reason = "IcannDefault"

validate_namespace_context(s) ==
  LET selected_icann == s.selected_namespace = "Icann"
      failed_icann == Present(s.icann_root_failure)
      failed_hns_only == Present(s.hns_root_failure) /\ ~failed_icann
      used_icann_doh == s.actual_transport = "ValidatingIcannDoh"
  IN FirstError(
       <<<<s.decision_fingerprint # "zero", "InvalidDecisionFingerprint">>,
         <<Present(s.namespace_outcome) => ~Present(s.hns_root_failure) /\ ~failed_icann, "InvalidNamespaceContext">>,
         <<Present(s.decision_fingerprint) <=> Present(s.namespace_outcome), "InvalidNamespaceContext">>,
         <<s.namespace_outcome = "Neither" => s.actual_transport = "Unavailable", "InvalidNamespaceContext">>,
         <<valid_namespace_selection(s.namespace_outcome, s.selected_namespace, s.selection_reason),
           "InvalidNamespaceContext">>,
         <<(selected_icann \/ failed_icann) => used_icann_doh, "InvalidIcannTlsContext">>,
         <<failed_hns_only => s.actual_transport = "Unavailable", "InvalidNamespaceContext">>,
         <<used_icann_doh => selected_icann \/ failed_icann, "InvalidIcannTlsContext">>,
         <<(~selected_icann /\ ~failed_icann) => ~Present(s.icann_tls_action) /\ ~Present(s.icann_dnssec_status),
           "InvalidIcannTlsContext">>,
         <<failed_icann => s.icann_tls_action = "FailClosed", "InvalidIcannTlsContext">>>>)

validate_icann_failure_context(failure, dnssec_status, evidence) ==
  CASE failure = "BogusDnssec" -> dnssec_status = "Bogus" /\ evidence.dnssec = "Failed"
    [] failure = "IndeterminateDnssec" ->
         dnssec_status = "Indeterminate" /\ evidence.dnssec \in {"NotAttempted", "Unavailable"}
    [] failure \in {"StaleHnsAnchor", None} -> FALSE
    [] OTHER -> dnssec_status = None /\ evidence.dnssec # "Verified"

validate_icann_tls_context(selected_icann, failure, action, dnssec_status, e) ==
  LET dane == e.dnssec = "Verified" /\ e.tlsa = "Verified" /\ e.dane = "Verified"
      webpki == e.dnssec = "Verified" /\ e.tlsa = "Unavailable" /\ e.dane \in {"NotAttempted", "Unavailable"}
      usable == dnssec_status \in {"Secure", "InsecureDelegation"}
  IN CASE action = None /\ selected_icann ->
            e.dnssec = "Verified" /\ e.tlsa = "NotAttempted" /\ e.dane = "NotAttempted" /\ usable
       [] action = None /\ ~selected_icann -> failure = None /\ dnssec_status = None
       [] action = "EnforceDane" -> selected_icann /\ dnssec_status = "Secure" /\ dane
       [] action = "WebPkiAuthenticatedAbsence" -> selected_icann /\ dnssec_status = "Secure" /\ webpki
       [] action = "WebPkiInsecureDelegation" -> selected_icann /\ dnssec_status = "InsecureDelegation" /\ webpki
       [] action = "FailClosed" /\ Present(failure) ->
            validate_icann_failure_context(failure, dnssec_status, e) /\ ~dane /\ ~webpki
       [] OTHER -> selected_icann /\ usable /\ e.dnssec = "Verified" /\ ~dane /\ ~webpki

-----------------------------------------------------------------------------
(* The record.                                                             *)

CONSTANT MAX_UNSUPPORTED_EVIDENCE

\* BrowserStatus::new
StatusError(s) ==
  FirstError(
    <<<<s.schema_known /\ s.runtime_generation # 0 /\ s.policy_generation # 0, "InvalidGeneration">>,
      <<validate_identities(s.actual_transport, s.identities) = "none", "Identities">>,
      <<validate_provider_readiness(s.roles, s.provider_readiness), "InvalidProviderReadiness">>,
      <<RateLimitIsValid(s.rate_limits), "InvalidRateLimit">>,
      <<s.unsupported_evidence <= MAX_UNSUPPORTED_EVIDENCE, "UnsupportedEvidenceLimit">>,
      <<s.evidence.hns_proof = "Verified" => s.chain_anchor, "MissingChainAnchor">>,
      <<fully_verified(s.evidence) => s.actual_transport # "Unavailable", "VerifiedWithoutTransport">>,
      <<is_experimental_p2p(s.actual_transport) => s.registry_fingerprint /\ s.protocol_version # 0,
        "MissingProtocolIdentity">>,
      <<~is_experimental_p2p(s.actual_transport) => ~s.registry_fingerprint /\ s.protocol_version = 0,
        "UnexpectedProtocolIdentity">>,
      <<validate_failure_reasons(s.authority, s.degraded_reason, s.revocation_reason) = "none", "FailureReasons">>,
      <<validate_namespace_context(s) = "none", "NamespaceContext">>,
      <<validate_icann_tls_context(s.selected_namespace = "Icann", s.icann_root_failure, s.icann_tls_action,
                                   s.icann_dnssec_status, s.evidence), "InvalidIcannTlsContext">>>>)

\* Where Engine::observability_status takes transport and evidence from; r is the
\* caller's ObservabilityRuntime, p the last provenance.
Context(r) ==
  IF r.selected_namespace = "Icann" \/ Present(r.icann_root_failure) THEN "icann"
  ELSE IF r.namespace_outcome = "Neither" \/ Present(r.hns_root_failure) THEN "nothing" ELSE "hns"

Reported(engine, r) ==
  LET p == engine.provenance
  IN CASE Context(r) = "icann" ->
            [anchor |-> FALSE, transport |-> "ValidatingIcannDoh", identities |-> NoIdentities,
             evidence |-> r.icann_evidence[1]]
       [] Context(r) = "nothing" \/ p = <<>> ->
            [anchor |-> FALSE, transport |-> "Unavailable", identities |-> NoIdentities,
             evidence |-> IF Context(r) = "nothing" THEN not_attempted ELSE engine.last_evidence]
       [] OTHER ->
            [anchor |-> p[1].anchor, transport |-> p[1].transport, identities |-> p[1].identities,
             evidence |-> p[1].evidence]

\* The record observability_status hands to BrowserStatus::new.
StatusInput(engine, r) ==
  LET shown == Reported(engine, r)
      p2p == is_experimental_p2p(shown.transport)
  IN [schema_known |-> TRUE, runtime_generation |-> engine.runtime_generation,
      policy_generation |-> engine.policy_generation, authority |-> engine.authority, roles |-> engine.roles,
      chain_anchor |-> shown.anchor, actual_transport |-> shown.transport, identities |-> shown.identities,
      evidence |-> shown.evidence,
      registry_fingerprint |-> p2p /\ r.registry_fingerprint,
      protocol_version |-> IF p2p THEN r.protocol_version ELSE 0,
      provider_readiness |-> r.provider_readiness, rate_limits |-> r.rate_limits,
      namespace_outcome |-> r.namespace_outcome, hns_root_failure |-> r.hns_root_failure,
      icann_root_failure |-> r.icann_root_failure, selected_namespace |-> r.selected_namespace,
      selection_reason |-> r.selection_reason, decision_fingerprint |-> r.decision_fingerprint,
      icann_tls_action |-> r.icann_tls_action, icann_dnssec_status |-> r.icann_dnssec_status,
      degraded_reason |-> r.degraded_reason, revocation_reason |-> r.revocation_reason,
      unsupported_evidence |-> r.unsupported_evidence]

observability_status(engine, r) ==
  CASE Context(r) = "icann" /\ r.icann_evidence = <<>> -> "MissingIcannEvidence"
    [] Context(r) # "icann" /\ r.icann_evidence # <<>> -> "UnexpectedIcannEvidence"
    [] OTHER -> StatusError(StatusInput(engine, r))

-----------------------------------------------------------------------------
(* The currency of the name tree.                                          *)

Unknown == -1
name_tree_interval == [Mainnet |-> 36, Testnet |-> 36, Regtest |-> 5, Simnet |-> 2]
name_tree_authority_height(network, height) ==
  LET interval == name_tree_interval[network]
  IN IF height = 0 THEN 0 ELSE ((height - 1) \div interval) * interval + 1

\* NameTreeCurrentness::assess; a height may be Unknown.
assess(network, local, target) ==
  LET Authority(height) == IF height > 0 THEN name_tree_authority_height(network, height) ELSE Unknown
      ready == /\ Authority(local) # Unknown /\ Authority(target) # Unknown
               /\ Authority(local) >= Authority(target)
      missing == Authority(target) - local
  IN [ready |-> ready,
      blocks_until_authority |->
        IF local = Unknown \/ Authority(target) = Unknown THEN Unknown
        ELSE IF ready \/ missing < 0 THEN 0 ELSE missing]

-----------------------------------------------------------------------------
(* What a status shows.                                                    *)

\* An accepted status never says more than its fields bear out: verified evidence
\* names the transport it came by and, for a name's proof, the anchor; a private
\* transport names two intermediaries, a relay one, any other none; a failed root
\* leaves no selection and no verified DNSSEC; and a browser is told to use the
\* certificate authorities only where signed data says that there is no TLSA record
\* to enforce.
StatusIsBorneOut(s) ==
  StatusError(s) = "none" =>
    /\ s.evidence.hns_proof = "Verified" => s.chain_anchor
    /\ fully_verified(s.evidence) => s.actual_transport # "Unavailable"
    /\ CASE s.actual_transport = "HandshakeP2pOdoh" ->
              Named(s.identities) = {"proxy", "target"} /\ s.identities.proxy # s.identities.target
         [] s.actual_transport = "HandshakeP2pDnsRelay" -> Named(s.identities) = {"peer"}
         [] OTHER -> Named(s.identities) = {} /\ s.protocol_version = 0
    /\ (Present(s.hns_root_failure) \/ Present(s.icann_root_failure)) =>
         /\ s.selected_namespace = None /\ s.namespace_outcome = None
         /\ Present(s.icann_root_failure) => s.evidence.dnssec # "Verified" /\ s.icann_tls_action = "FailClosed"
    /\ s.icann_tls_action \in {"WebPkiAuthenticatedAbsence", "WebPkiInsecureDelegation"} =>
         /\ s.selected_namespace = "Icann" /\ s.actual_transport = "ValidatingIcannDoh"
         /\ s.evidence.dnssec = "Verified" /\ s.evidence.tlsa = "Unavailable" /\ s.evidence.dane # "Failed"
    /\ s.icann_tls_action = "EnforceDane" => s.evidence.dane = "Verified"
    /\ (s.authority \in {"Degraded", "Revoked", "Stopped"}) <=> (Present(s.degraded_reason) \/ Present(s.revocation_reason))

\* A name tree is ready exactly where no header above the local one, up to the
\* target, shows a newer root (the root committed at the end of an interval shows in
\* the next header), and the count of missing headers is the least that makes it so.
CurrentnessIsExact(network, local, target) ==
  LET shows(h) == h % name_tree_interval[network] = 1
      a == assess(network, local, target)
      known == local > 0 /\ target > 0
  IN /\ a.ready <=> known /\ \A h \in (local + 1)..target : ~shows(h)
     /\ known => /\ assess(network, local + a.blocks_until_authority, target).ready
                 /\ \A n \in 0..(a.blocks_until_authority - 1) : ~assess(network, local + n, target).ready
=============================================================================
