------------------------------- MODULE Engine -------------------------------
(***************************************************************************)
(* hns-dane-engine: the engine facade over the runtime and the policy      *)
(* controller, from the admission of a resolution to the provider          *)
(* authority a browser product keeps.                                      *)
(*                                                                         *)
(* Every method takes the lock of EngineState once and is one action; the  *)
(* ICANN binding takes it twice, with the browser's TLS authenticator in   *)
(* between, and is two.  Callers hold the objects the engine mints and may *)
(* present them at any later time: each variable below `last_evidence' is  *)
(* one such object, a new one replacing it.  Time is an argument of every  *)
(* call and need not be monotone.  An operation that returns an error and  *)
(* changes nothing is a disabled guard.                                    *)
(*                                                                         *)
(* A decision or an evidence record carries the data it is compared on as  *)
(* one value, its subject: host, port, TLSA RRset and chain anchor.  `root'*)
(* is a history field: the epoch in which the object's first admission     *)
(* took place.                                                             *)
(***************************************************************************)
EXTENDS BrowserRuntime, ResolutionPolicy

CONSTANTS Decision,           \* NamespaceDecision values
          Evidence,           \* ValidatedTlsa values
          Transport,          \* transports callers ask for
          UserConfig,         \* configurations a user may switch to
          Time,               \* times of calls
          EngineNetwork,      \* EngineState.network
          None

Provenance ==
    [session : Session, generation : 1..MaxCounter,
     policy_generation : 1..MaxGeneration, event_sequence : 1..MaxCounter]

ASSUME TimeAssumption == Time \subseteq Nat
ASSUME DecisionAssumption ==
    \A decision \in Decision :
        decision.observed \in Nat /\ decision.expires \in Nat
ASSUME EvidenceAssumption ==
    \A evidence \in Evidence :
        evidence.validated_at \in Nat /\ evidence.expires_at \in Nat
ASSUME ConfigAssumption == UserConfig \subseteq PolicyConfig
ASSUME NoneAssumption == None \notin Provenance

VARIABLES
    last_provenance, last_evidence,
    attempt,                  \* ResolutionAttempt
    response,                 \* ParsedResponse.attempt_stamp
    completion,               \* DaneCompletion
    request,                  \* IcannOriginAuthenticationRequest in flight
    context,                  \* AuthenticatedOriginContext
    authority,                \* ProviderAuthorityContext
    used_sessions             \* sessions of earlier process starts

evidence_state == <<last_provenance, last_evidence>>
engine == <<runtime, policy, evidence_state>>
held == <<attempt, response, completion, request, context, authority>>
vars == <<engine, held, used_sessions>>

-----------------------------------------------------------------------------
(* Decisions.                                                              *)

Fresh(decision, now) == decision.observed <= now /\ now < decision.expires

Secured(decision) == decision.scheme = "Https" /\ decision.tcp

\* The (namespace, TLS policy, context status) triples of
\* authentication_policy_denial and provider_authority_is_current_in_state.
AuthenticationPolicy ==
    {<<"Hns", "Dane", "HnsDaneVerified">>,
     <<"Icann", "Dane", "IcannDaneVerified">>,
     <<"Icann", "WebPkiAuthenticatedAbsence",
       "IcannWebPkiAuthenticatedAbsence">>,
     <<"Icann", "WebPkiInsecureDelegation",
       "IcannWebPkiInsecureDelegation">>}

Authenticates(decision, status) ==
    <<decision.namespace, decision.tls_policy, status>>
        \in AuthenticationPolicy

-----------------------------------------------------------------------------
(* Currency of what callers present.                                       *)

Epoch == [session |-> session, floor |-> invalidation_sequence]

BridgeState == {"BrowserBridgeReady", "Active"}
OriginState == {"DaneOriginVerified"} \cup BridgeState

\* ensure_current
EnsureCurrent(a) == Admits(a.stamp) /\ AcceptCompletion(a)

\* Mutant of CompletionIsCurrent: the admission stamp is not looked at again.
CompletionIsCurrentByGeneration(c) ==
    /\ c.stamp.session = session
    /\ c.stamp.generation = generation
    /\ c.event_sequence <= event_sequence
    /\ c.policy_generation = policy.generation

CompletionIsCurrent(c) ==
    /\ Admits(c.stamp)
    /\ c.stamp.event_sequence <= c.event_sequence
    /\ c.event_sequence <= event_sequence
    /\ c.policy_generation = policy.generation

\* authenticated_context_is_admitted, with the generation comparisons that
\* precede it in both of its callers.
ContextIsAdmitted(c) ==
    /\ c.stamp # None
    /\ c.policy_generation = policy.generation
    /\ Admits(c.stamp)

\* evaluate_provider_injection permits.
Permitted(decision, c, now) ==
    /\ decision.scheme = "Https"
    /\ decision.namespace # None
    /\ c.status # "Unauthenticated"
    /\ c.decision = decision
    /\ Fresh(decision, now)
    /\ decision.network = EngineNetwork
    /\ authority_state \in BridgeState
    /\ ContextIsAdmitted(c)
    /\ Authenticates(decision, c.status)
    /\ c.valid_from <= now
    /\ now < c.valid_until

\* provider_authority_is_current_in_state
AuthorityIsCurrent(a, now) ==
    /\ authority_state \in BridgeState
    /\ a.decision.scheme = "Https"
    /\ Authenticates(a.decision, a.status)
    /\ a.decision.network = EngineNetwork
    /\ ContextIsAdmitted(a)
    /\ a.valid_from <= now
    /\ now < a.valid_until

-----------------------------------------------------------------------------
(* Process start, policy and lifecycle.                                    *)

Init ==
    /\ session \in Session
    /\ generation = 1
    /\ event_sequence = 0
    /\ invalidation_sequence = 0
    /\ authority_state = "Uninitialized"
    /\ policy \in PolicySnapshot(UserConfig)
    /\ last_provenance = None
    /\ last_evidence = "not_attempted"
    /\ attempt = None /\ response = None /\ completion = None
    /\ request = None /\ context = None /\ authority = None
    /\ used_sessions = {session}

\* A new process: from_persisted with a fresh session id and a blob saved at
\* some earlier time.  What the old process handed out may still be around.
Restart(s, saved) ==
    /\ s \notin used_sessions
    /\ saved.generation <= policy.generation
    /\ New(s)
    /\ policy' = saved
    /\ last_provenance' = None
    /\ last_evidence' = "not_attempted"
    /\ request' = None
    /\ used_sessions' = used_sessions \cup {s}
    /\ UNCHANGED <<attempt, response, completion, context, authority>>

\* Mutant of UpdatePolicy: no capacity check, so the runtime may fail to
\* follow a policy that has already been replaced.
UpdatePolicyUnguarded(expected, config) ==
    /\ Replace(expected, config)
    /\ IF config = policy.config
       THEN UNCHANGED <<runtime, evidence_state>>
       ELSE /\ \/ PolicyChanged
               \/ ~EnsurePolicyChangeCapacity /\ UNCHANGED runtime
            /\ last_provenance' = None
            /\ last_evidence' = "revoked"
    /\ UNCHANGED <<held, used_sessions>>

\* update_policy; update_policy_blob passes it the generation of the blob.
UpdatePolicy(expected, config) ==
    /\ config # policy.config => EnsurePolicyChangeCapacity
    /\ Replace(expected, config)
    /\ IF config = policy.config
       THEN UNCHANGED <<runtime, evidence_state>>
       ELSE /\ PolicyChanged
            /\ last_provenance' = None
            /\ last_evidence' = "revoked"
    /\ UNCHANGED <<held, used_sessions>>

\* Mutant of AdvanceAuthorityState: degradation keeps the last provenance.
AdvanceAuthorityStateKeeps(next) ==
    /\ Transition(next)
    /\ IF next \in {"Revoked", "Stopped"}
       THEN last_provenance' = None /\ last_evidence' = "revoked"
       ELSE UNCHANGED evidence_state
    /\ UNCHANGED <<policy, held, used_sessions>>

AdvanceAuthorityState(next) ==
    /\ Transition(next)
    /\ CASE next = "Degraded" ->
                last_provenance' = None /\ last_evidence' = "unavailable"
         [] next \in {"Revoked", "Stopped"} ->
                last_provenance' = None /\ last_evidence' = "revoked"
         [] OTHER -> UNCHANGED evidence_state
    /\ UNCHANGED <<policy, held, used_sessions>>

-----------------------------------------------------------------------------
(* Resolutions.                                                            *)

NewAttempt(transport) ==
    [stamp |-> NextStamp, policy_generation |-> policy.generation,
     transport |-> transport, root |-> Epoch]

AdmitResolution(transport) ==
    /\ authority_state \in WorkState
    /\ AdmitTransport(transport)
    /\ AdmitEvent
    /\ attempt' = NewAttempt(transport)
    /\ UNCHANGED <<policy, evidence_state, response, completion, request,
                   context, authority, used_sessions>>

\* parse_response: nothing changes in the engine.
ParseResponse ==
    /\ attempt # None
    /\ EnsureCurrent(attempt)
    /\ response' = attempt.stamp
    /\ UNCHANGED <<engine, attempt, completion, request, context, authority,
                   used_sessions>>

\* admit_gateway_selection: a gateway's answer under some policy generation.
AdmitGatewaySelection(selected_under, transport) ==
    /\ selected_under = policy.generation
    /\ authority_state \in WorkState
    /\ AdmitTransport(transport)
    /\ AdmitEvent
    /\ attempt' = NewAttempt(transport)
    /\ response' = NextStamp
    /\ UNCHANGED <<policy, evidence_state, completion, request, context,
                   authority, used_sessions>>

\* complete_resolution: the first completion of an epoch moves the authority
\* state, later ones only take an event.
CompleteResolution ==
    /\ EnsureCurrent(attempt)
    /\ authority_state \in {"DnssecVerified"} \cup OriginState
    /\ IF authority_state = "DnssecVerified"
       THEN Transition("DaneOriginVerified")
       ELSE AdmitEvent
    /\ last_provenance' = [session |-> session, generation |-> generation,
                           policy_generation |-> attempt.policy_generation,
                           event_sequence |-> event_sequence']
    /\ last_evidence' = "verified"

Completed(evidence) ==
    [stamp |-> attempt.stamp, root |-> attempt.root,
     policy_generation |-> attempt.policy_generation,
     event_sequence |-> event_sequence + 1,
     evidence |-> evidence,
     valid_from |-> IF evidence = None THEN None ELSE evidence.validated_at,
     valid_until |-> IF evidence = None THEN None
                     ELSE evidence.expires_at - 1]

\* complete_resolution_with_local_dane: the caller vouches for the evidence,
\* and the completion binds no origin.
CompleteWithLocalDane ==
    /\ attempt # None
    /\ response = attempt.stamp
    /\ CompleteResolution
    /\ completion' = Completed(None)
    /\ UNCHANGED <<policy, attempt, response, request, context, authority,
                   used_sessions>>

CompleteWithValidatedTlsa(evidence) ==
    /\ attempt # None
    /\ response = attempt.stamp
    /\ evidence.validated_at < evidence.expires_at
    /\ evidence.network = EngineNetwork
    /\ CompleteResolution
    /\ completion' = Completed(evidence)
    /\ UNCHANGED <<policy, attempt, response, request, context, authority,
                   used_sessions>>

\* A completion of the strict path, within its lifetime.
Bridgeable(c, now) ==
    /\ c.evidence # None
    /\ c.evidence.tcp
    /\ c.valid_from <= now
    /\ now <= c.valid_until

\* The authorization it returns is a copy of the completion's data.
AuthorizeBrowserBridge(now) ==
    /\ completion # None
    /\ Bridgeable(completion, now)
    /\ authority_state \in OriginState
    /\ CompletionIsCurrent(completion)
    /\ IF authority_state = "DaneOriginVerified"
       THEN Transition("BrowserBridgeReady")
       ELSE AdmitEvent
    /\ UNCHANGED <<policy, evidence_state, held, used_sessions>>

-----------------------------------------------------------------------------
(* Origin contexts.                                                        *)

BindUnauthenticated(decision, now) ==
    /\ context' = [decision |-> decision, status |-> "Unauthenticated",
                   stamp |-> None, policy_generation |-> policy.generation,
                   valid_from |-> now, valid_until |-> decision.expires,
                   evidence |-> None, root |-> None]
    /\ UNCHANGED <<engine, attempt, response, completion, request, authority,
                   used_sessions>>

\* bind_icann_origin_context up to the call of the authenticator.
BindIcannRequest(decision, now) ==
    /\ request = None
    /\ Secured(decision)
    /\ decision.namespace = "Icann"
    /\ Fresh(decision, now)
    /\ decision.network = EngineNetwork
    /\ authority_state \in BridgeState
    /\ AdmitEvent
    /\ request' = [decision |-> decision, now |-> now, stamp |-> NextStamp,
                   policy_generation |-> policy.generation, root |-> Epoch]
    /\ UNCHANGED <<policy, evidence_state, attempt, response, completion,
                   context, authority, used_sessions>>

\* Mutant of IcannRequestStands: only the policy is checked again.
IcannRequestStandsByPolicy(r) ==
    r.policy_generation = policy.generation /\ r.stamp.session = session

\* The checks bind_icann_origin_context repeats under the second lock.
IcannRequestStands(r) ==
    /\ r.policy_generation = policy.generation
    /\ Admits(r.stamp)
    /\ Fresh(r.decision, r.now)

\* The authenticator answered for this request with the kind its TLS policy
\* asks for.
BindIcannContext ==
    /\ request # None
    /\ \E status \in {triple[3] : triple \in AuthenticationPolicy} :
        /\ Authenticates(request.decision, status)
        /\ IcannRequestStands(request)
        /\ AdmitEvent
        /\ context' = [decision |-> request.decision, status |-> status,
                       stamp |-> NextStamp,
                       policy_generation |-> policy.generation,
                       valid_from |-> request.now,
                       valid_until |-> request.decision.expires,
                       evidence |-> None, root |-> request.root]
    /\ request' = None
    /\ UNCHANGED <<policy, evidence_state, attempt, response, completion,
                   authority, used_sessions>>

\* The authenticator refused, or answered for something else.
BindIcannRefused ==
    /\ request # None
    /\ request' = None
    /\ UNCHANGED <<engine, attempt, response, completion, context, authority,
                   used_sessions>>

Earlier(m, n) == IF m <= n THEN m ELSE n
Later(m, n) == IF m >= n THEN m ELSE n

\* Mutant of HnsContextUntil: the completion's lifetime is left out.
HnsContextUntilDecision(decision, c) == decision.expires

\* The completion's bound is inclusive, the context's exclusive.
HnsContextUntil(decision, c) == Earlier(decision.expires, c.valid_until + 1)

\* What bind_hns_origin_context checks before it changes anything.
HnsBindable(decision, c, now) ==
    /\ Bridgeable(c, now)
    /\ Secured(decision)
    /\ decision.namespace = "Hns"
    /\ decision.tls_policy = "Dane"
    /\ decision.subject = c.evidence.subject
    /\ Fresh(decision, now)
    /\ decision.network = EngineNetwork
    /\ authority_state \in OriginState
    /\ CompletionIsCurrent(c)

\* bind_hns_origin_context: an optional transition and an admission, two
\* events under one lock.
BindHns(decision, now) ==
    LET moves == IF authority_state = "DaneOriginVerified" THEN 1 ELSE 0
    IN  /\ completion # None
        /\ HnsBindable(decision, completion, now)
        /\ event_sequence + moves + 1 <= MaxCounter
        /\ event_sequence' = event_sequence + moves + 1
        /\ authority_state' = IF moves = 1 THEN "BrowserBridgeReady"
                                           ELSE authority_state
        /\ context' = [decision |-> decision, status |-> "HnsDaneVerified",
                       stamp |-> [session |-> session,
                                  generation |-> generation,
                                  event_sequence |-> event_sequence'],
                       policy_generation |-> policy.generation,
                       valid_from |-> completion.valid_from,
                       valid_until |-> HnsContextUntil(decision, completion),
                       evidence |-> completion.evidence,
                       root |-> completion.root]
        /\ UNCHANGED <<session, generation, invalidation_sequence, policy,
                       evidence_state, attempt, response, completion,
                       request, authority, used_sessions>>

\* The counter ends between the two: the transition stays, the call fails.
BindHnsExhausted(decision, now) ==
    /\ completion # None
    /\ HnsBindable(decision, completion, now)
    /\ authority_state = "DaneOriginVerified"
    /\ event_sequence + 1 = MaxCounter
    /\ Transition("BrowserBridgeReady")
    /\ UNCHANGED <<policy, evidence_state, held, used_sessions>>

-----------------------------------------------------------------------------
(* Provider authorities.                                                   *)

\* provider_authority_outcome on a permitted evaluation.
Narrowed(c, decision, now) ==
    [c EXCEPT !.valid_from = Later(@, now),
              !.valid_until = Earlier(@, decision.expires)]

AuthorizeProviderInjection(decision, now) ==
    /\ context # None
    /\ Permitted(decision, context, now)
    /\ decision.tcp
    /\ authority' = Narrowed(context, decision, now)
    /\ UNCHANGED <<engine, attempt, response, completion, request, context,
                   used_sessions>>

\* The old authority is consumed, also by a denial.
RevalidateProviderAuthority(decision, now) ==
    /\ authority # None
    /\ authority' = IF Permitted(decision, authority, now) /\ decision.tcp
                    THEN Narrowed(authority, decision, now) ELSE None
    /\ UNCHANGED <<engine, attempt, response, completion, request, context,
                   used_sessions>>

-----------------------------------------------------------------------------
Next ==
    \/ \E s \in Session, saved \in PolicySnapshot(UserConfig) :
            Restart(s, saved)
    \/ \E expected \in 1..MaxGeneration, config \in UserConfig :
            UpdatePolicy(expected, config)
    \/ \E next \in AuthorityState : AdvanceAuthorityState(next)
    \/ \E transport \in Transport :
        \/ AdmitResolution(transport)
        \/ \E selected_under \in 1..MaxGeneration :
                AdmitGatewaySelection(selected_under, transport)
    \/ ParseResponse
    \/ CompleteWithLocalDane
    \/ \E evidence \in Evidence : CompleteWithValidatedTlsa(evidence)
    \/ \E now \in Time :
        \/ AuthorizeBrowserBridge(now)
        \/ \E decision \in Decision :
            \/ BindUnauthenticated(decision, now)
            \/ BindIcannRequest(decision, now)
            \/ BindHns(decision, now)
            \/ BindHnsExhausted(decision, now)
            \/ AuthorizeProviderInjection(decision, now)
            \/ RevalidateProviderAuthority(decision, now)
    \/ BindIcannContext
    \/ BindIcannRefused

Spec == Init /\ [][Next]_vars

-----------------------------------------------------------------------------
(* Properties.                                                             *)

\* Type invariant of the engine's own state.
TypeOK ==
    /\ RuntimeTypeOK
    /\ policy \in PolicySnapshot(PolicyConfig)
    /\ last_provenance \in Provenance \cup {None}
    /\ last_evidence \in {"not_attempted", "verified", "unavailable",
                          "revoked"}
    /\ used_sessions \subseteq Session
    /\ session \in used_sessions

\* What the status reports as verified was verified under the policy and the
\* runtime generation in force, by an authority that still admits work.
EvidenceIsCurrent ==
    /\ last_evidence = "verified" <=> last_provenance # None
    /\ last_provenance # None =>
        /\ authority_state \in OriginState
        /\ last_provenance.session = session
        /\ last_provenance.generation = generation
        /\ last_provenance.policy_generation = policy.generation
        /\ last_provenance.event_sequence > invalidation_sequence
        /\ last_provenance.event_sequence <= event_sequence

\* A completion that passes for current goes back to a resolution admitted
\* after the last invalidation, however far the runtime has recovered since.
CompletionFromThisEpoch ==
    completion # None /\ CompletionIsCurrent(completion)
        => completion.root = Epoch

\* A provider authority that passes for current goes back, through context,
\* completion or ICANN request, to an admission after the last invalidation:
\* nothing that began before it can end in an authority.
AuthorityFromThisEpoch ==
    \A now \in Time :
        authority # None /\ AuthorityIsCurrent(authority, now)
            => authority.root = Epoch

\* A provider authority is current only while the decision it was given for
\* is fresh and, on the HNS path, while the TLSA evidence is valid.
AuthorityWithinEvidence ==
    \A now \in Time :
        authority # None /\ AuthorityIsCurrent(authority, now) =>
            /\ Fresh(authority.decision, now)
            /\ authority.decision.namespace = "Hns" =>
                /\ authority.evidence.validated_at <= now
                /\ now < authority.evidence.expires_at

\* Within a process the policy generation and the runtime generation move
\* together or not at all, also when a counter is exhausted.
GenerationsInLockstep ==
    [][session' = session =>
        policy'.generation - policy.generation = generation' - generation]_vars

=============================================================================
