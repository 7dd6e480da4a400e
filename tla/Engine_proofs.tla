---------------------------- MODULE Engine_proofs ----------------------------
(***************************************************************************)
(* Proofs about the engine facade, for every set of sessions, decisions,   *)
(* evidence, configurations and times and every counter width.             *)
(*                                                                         *)
(* Whether a held object is current is decided from its stamp alone.  The  *)
(* argument is that every stamp is behind the clock of its session, so an  *)
(* invalidation, which lifts the floor to the clock, puts all of them out  *)
(* of the epoch at once; a stamp still in the epoch therefore belongs to   *)
(* an object rooted in it.                                                 *)
(***************************************************************************)
EXTENDS Engine, TLAPS

-----------------------------------------------------------------------------
(* The inductive invariant.                                                *)

\* The stamp is behind the clock of its session, and if it is in the epoch
\* the object's first admission was too.
Rooted(o) ==
    /\ o.stamp.session \in used_sessions
    /\ o.stamp.event_sequence \in Nat
    /\ o.stamp.session = session =>
            o.stamp.event_sequence <= event_sequence
    /\ InEpoch(o.stamp) => o.root = Epoch

\* An unauthenticated context has no stamp.
Sound(o) == o # None /\ o.stamp # None => Rooted(o)

ObjectsSound ==
    /\ attempt # None => Rooted(attempt)
    /\ completion # None => Rooted(completion)
    /\ request # None => Rooted(request)
    /\ Sound(context)
    /\ Sound(authority)

\* An authority is a narrowed copy of a context.
ContextField ==
    {"decision", "status", "stamp", "root", "evidence", "valid_from",
     "valid_until"}

ContextShape(o) == o # None => ContextField \subseteq DOMAIN o

Shapes == ContextShape(context) /\ ContextShape(authority)

IInv == TypeOK /\ Shapes /\ ObjectsSound

-----------------------------------------------------------------------------
(* What a step does to the clock.                                          *)

Calm ==
    /\ UNCHANGED <<session, generation, invalidation_sequence>>
    /\ event_sequence' \in Nat
    /\ event_sequence' >= event_sequence

Invalidation ==
    /\ UNCHANGED session
    /\ event_sequence' = event_sequence + 1
    /\ invalidation_sequence' = event_sequence'

ClockStep ==
    /\ used_sessions \subseteq used_sessions'
    /\ Calm \/ Invalidation \/ session' \notin used_sessions

\* Every action keeps the types of the engine's own state.
LEMMA TypeStep == TypeOK /\ [Next]_vars => TypeOK'
<1> SUFFICES ASSUME TypeOK, [Next]_vars PROVE TypeOK'
  OBVIOUS
<1> USE MaxCounterAssumption, MaxGenerationAssumption, ConfigAssumption
    DEF TypeOK, RuntimeTypeOK, PolicySnapshot, evidence_state
<1>1. ASSUME NEW s \in Session, NEW saved \in PolicySnapshot(UserConfig),
             Restart(s, saved)
      PROVE  TypeOK'
  BY <1>1 DEF Restart, New, AuthorityState, ClimbingState
<1>2. ASSUME NEW expected, NEW config \in UserConfig,
             UpdatePolicy(expected, config)
      PROVE  TypeOK'
  <2>1. policy' \in PolicySnapshot(PolicyConfig)
    BY <1>2 DEF UpdatePolicy, Replace, CanReplace, ReplacedBy
  <2>2. RuntimeTypeOK'
    BY <1>2 DEF UpdatePolicy, PolicyChanged, EnsurePolicyChangeCapacity,
       AuthorityState, FailureState, runtime
  <2>3. last_evidence' \in {"not_attempted", "verified", "unavailable",
                            "revoked"}
    BY <1>2 DEF UpdatePolicy
  <2> QED
    BY <1>2, <2>1, <2>2, <2>3 DEF UpdatePolicy, PolicyChanged, runtime
<1>3. ASSUME NEW next \in AuthorityState, AdvanceAuthorityState(next)
      PROVE  TypeOK'
  BY <1>3 DEF AdvanceAuthorityState, Transition
<1>4. CASE \E transport \in Transport :
              \/ AdmitResolution(transport)
              \/ \E g \in 1..MaxGeneration :
                    AdmitGatewaySelection(g, transport)
  BY <1>4 DEF AdmitResolution, AdmitGatewaySelection, AdmitEvent
<1>5. CASE CompleteWithLocalDane \/
           \E evidence \in Evidence : CompleteWithValidatedTlsa(evidence)
  <2>1. CompleteResolution /\ UNCHANGED <<policy, used_sessions>>
    BY <1>5 DEF CompleteWithLocalDane, CompleteWithValidatedTlsa
  <2>2. RuntimeTypeOK'
    BY <2>1 DEF CompleteResolution, Transition, AdmitEvent, AuthorityState,
       WorkState
  <2>3. last_provenance' \in Provenance
    BY <2>1, <2>2 DEF CompleteResolution, EnsureCurrent, AcceptCompletion,
       Transition, AdmitEvent, Provenance
  <2> QED
    BY <2>1, <2>2, <2>3 DEF CompleteResolution, Transition, AdmitEvent
<1>6. ASSUME NEW now \in Time, AuthorizeBrowserBridge(now) PROVE TypeOK'
  BY <1>6 DEF AuthorizeBrowserBridge, Transition, AdmitEvent,
     AuthorityState, WorkState
<1>7. ASSUME NEW decision \in Decision, NEW now \in Time,
             \/ BindIcannRequest(decision, now)
             \/ BindHns(decision, now)
             \/ BindHnsExhausted(decision, now)
      PROVE  TypeOK'
  BY <1>7 DEF BindIcannRequest, BindHns, BindHnsExhausted, Transition,
     AdmitEvent, AuthorityState, WorkState
<1>8. CASE BindIcannContext
  <2>1. AdmitEvent /\ UNCHANGED <<policy, last_provenance, last_evidence,
                                  used_sessions>>
    BY <1>8 DEF BindIcannContext
  <2> QED
    BY <2>1 DEF AdmitEvent
<1>9. CASE UNCHANGED <<engine, used_sessions>>
  BY <1>9 DEF engine, runtime
<1>10. ParseResponse => UNCHANGED <<engine, used_sessions>>
  BY DEF ParseResponse
<1>11. \A decision \in Decision, now \in Time :
          \/ BindUnauthenticated(decision, now)
          \/ AuthorizeProviderInjection(decision, now)
          \/ RevalidateProviderAuthority(decision, now)
          => UNCHANGED <<engine, used_sessions>>
  BY DEF BindUnauthenticated, AuthorizeProviderInjection,
     RevalidateProviderAuthority
<1>12. BindIcannRefused \/ UNCHANGED vars => UNCHANGED <<engine, used_sessions>>
  BY DEF BindIcannRefused, vars
<1> QED
  BY <1>1, <1>2, <1>3, <1>4, <1>5, <1>6, <1>7, <1>8, <1>9, <1>10, <1>11,
     <1>12 DEF Next

\* Every action runs the clock on, invalidates, or starts a new session.
LEMMA ClockMoves == TypeOK /\ [Next]_vars => ClockStep
<1> SUFFICES ASSUME TypeOK, [Next]_vars PROVE ClockStep
  OBVIOUS
<1> USE MaxCounterAssumption
    DEF TypeOK, RuntimeTypeOK, ClockStep, Calm, evidence_state
<1>1. ASSUME NEW s \in Session, NEW saved \in PolicySnapshot(UserConfig),
             Restart(s, saved)
      PROVE  ClockStep
  BY <1>1 DEF Restart, New
<1>2. ASSUME NEW expected, NEW config \in UserConfig,
             UpdatePolicy(expected, config)
      PROVE  ClockStep
  BY <1>2 DEF UpdatePolicy, PolicyChanged, Invalidation, runtime
<1>3. ASSUME NEW next \in AuthorityState, AdvanceAuthorityState(next)
      PROVE  ClockStep
  BY <1>3 DEF AdvanceAuthorityState, Transition, Invalidation
<1>4. CASE \E transport \in Transport :
              \/ AdmitResolution(transport)
              \/ \E g \in 1..MaxGeneration :
                    AdmitGatewaySelection(g, transport)
  BY <1>4 DEF AdmitResolution, AdmitGatewaySelection, AdmitEvent
<1>5. CASE CompleteWithLocalDane \/
           \E evidence \in Evidence : CompleteWithValidatedTlsa(evidence)
  BY <1>5 DEF CompleteWithLocalDane, CompleteWithValidatedTlsa,
     CompleteResolution, Transition, AdmitEvent, FailureState
<1>6. ASSUME NEW now \in Time, AuthorizeBrowserBridge(now) PROVE ClockStep
  BY <1>6 DEF AuthorizeBrowserBridge, Transition, AdmitEvent, FailureState
<1>7. ASSUME NEW decision \in Decision, NEW now \in Time,
             \/ BindIcannRequest(decision, now)
             \/ BindHns(decision, now)
             \/ BindHnsExhausted(decision, now)
      PROVE  ClockStep
  BY <1>7 DEF BindIcannRequest, BindHns, BindHnsExhausted, Transition,
     AdmitEvent, FailureState
<1>8. CASE BindIcannContext
  <2>1. AdmitEvent /\ UNCHANGED used_sessions
    BY <1>8 DEF BindIcannContext
  <2> QED
    BY <2>1 DEF AdmitEvent
<1>9. CASE UNCHANGED <<engine, used_sessions>>
  BY <1>9 DEF engine, runtime
<1>10. ParseResponse => UNCHANGED <<engine, used_sessions>>
  BY DEF ParseResponse
<1>11. \A decision \in Decision, now \in Time :
          \/ BindUnauthenticated(decision, now)
          \/ AuthorizeProviderInjection(decision, now)
          \/ RevalidateProviderAuthority(decision, now)
          => UNCHANGED <<engine, used_sessions>>
  BY DEF BindUnauthenticated, AuthorizeProviderInjection,
     RevalidateProviderAuthority
<1>12. BindIcannRefused \/ UNCHANGED vars => UNCHANGED <<engine, used_sessions>>
  BY DEF BindIcannRefused, vars
<1> QED
  BY <1>1, <1>2, <1>3, <1>4, <1>5, <1>6, <1>7, <1>8, <1>9, <1>10, <1>11,
     <1>12 DEF Next

-----------------------------------------------------------------------------
(* Held objects.                                                           *)

\* An object nobody touches stays sound, whatever the clock does.
LEMMA Aging ==
    ASSUME TypeOK, ClockStep, NEW o, Rooted(o) PROVE Rooted(o)'
<1> USE DEF TypeOK, RuntimeTypeOK, Rooted, InEpoch, Epoch
<1>1. CASE Calm
  BY <1>1 DEF ClockStep, Calm
<1>2. CASE Invalidation
  BY <1>2 DEF ClockStep, Invalidation
<1>3. CASE session' \notin used_sessions
  BY <1>3 DEF ClockStep
<1> QED
  BY <1>1, <1>2, <1>3 DEF ClockStep

\* The same for each of the five objects.
LEMMA UntouchedStaysSound ==
    ASSUME TypeOK, ClockStep, ObjectsSound
    PROVE  /\ UNCHANGED attempt => (attempt # None => Rooted(attempt))'
           /\ UNCHANGED completion => (completion # None => Rooted(completion))'
           /\ UNCHANGED request => (request # None => Rooted(request))'
           /\ UNCHANGED context => Sound(context)'
           /\ UNCHANGED authority => Sound(authority)'
<1> USE DEF ObjectsSound
<1>1. UNCHANGED attempt => (attempt # None => Rooted(attempt))'
  <2> SUFFICES ASSUME UNCHANGED attempt, attempt # None
               PROVE  Rooted(attempt)'
    OBVIOUS
  <2>1. PICK o : o = attempt
    OBVIOUS
  <2>2. Rooted(o)'
    BY <2>1, Aging DEF Rooted
  <2> QED
    BY <2>1, <2>2 DEF Rooted
<1>2. UNCHANGED completion => (completion # None => Rooted(completion))'
  <2> SUFFICES ASSUME UNCHANGED completion, completion # None
               PROVE  Rooted(completion)'
    OBVIOUS
  <2>1. PICK o : o = completion
    OBVIOUS
  <2>2. Rooted(o)'
    BY <2>1, Aging DEF Rooted
  <2> QED
    BY <2>1, <2>2 DEF Rooted
<1>3. UNCHANGED request => (request # None => Rooted(request))'
  <2> SUFFICES ASSUME UNCHANGED request, request # None
               PROVE  Rooted(request)'
    OBVIOUS
  <2>1. PICK o : o = request
    OBVIOUS
  <2>2. Rooted(o)'
    BY <2>1, Aging DEF Rooted
  <2> QED
    BY <2>1, <2>2 DEF Rooted
<1>4. UNCHANGED context => Sound(context)'
  <2> SUFFICES ASSUME UNCHANGED context, context # None /\ context.stamp # None
               PROVE  Rooted(context)'
    BY DEF Sound
  <2>1. PICK o : o = context
    OBVIOUS
  <2>2. Rooted(o)'
    BY <2>1, Aging DEF Sound, Rooted
  <2> QED
    BY <2>1, <2>2 DEF Rooted
<1>5. UNCHANGED authority => Sound(authority)'
  <2> SUFFICES ASSUME UNCHANGED authority, authority # None /\ authority.stamp # None
               PROVE  Rooted(authority)'
    BY DEF Sound
  <2>1. PICK o : o = authority
    OBVIOUS
  <2>2. Rooted(o)'
    BY <2>1, Aging DEF Sound, Rooted
  <2> QED
    BY <2>1, <2>2 DEF Rooted
<1> QED
  BY <1>1, <1>2, <1>3, <1>4, <1>5

\* Every action keeps every object sound: one it mints takes its stamp from
\* the clock, and its root from this epoch or from an object it has just
\* found current.
LEMMA ObjectsStep == IInv /\ [Next]_vars => ObjectsSound'
<1> SUFFICES ASSUME IInv, [Next]_vars PROVE ObjectsSound'
  OBVIOUS
<1>a. TypeOK /\ Shapes /\ ObjectsSound /\ ClockStep
  BY ClockMoves DEF IInv
<1>b. /\ UNCHANGED attempt => (attempt # None => Rooted(attempt))'
      /\ UNCHANGED completion => (completion # None => Rooted(completion))'
      /\ UNCHANGED request => (request # None => Rooted(request))'
      /\ UNCHANGED context => Sound(context)'
      /\ UNCHANGED authority => Sound(authority)'
  BY <1>a, UntouchedStaysSound
<1>1. ASSUME NEW s \in Session, NEW saved \in PolicySnapshot(UserConfig),
             Restart(s, saved)
      PROVE  ObjectsSound'
  <2>1. (request # None => Rooted(request))'
    BY <1>1 DEF Restart
  <2> QED
    BY <1>b, <1>1, <2>1 DEF Restart, ObjectsSound
<1>2. CASE UNCHANGED held
  BY <1>b, <1>2 DEF held, ObjectsSound
<1>3. ASSUME NEW transport \in Transport,
             \/ AdmitResolution(transport)
             \/ \E g \in 1..MaxGeneration :
                    AdmitGatewaySelection(g, transport)
      PROVE  ObjectsSound'
  <2>1. (attempt # None => Rooted(attempt))'
    BY <1>a, <1>3 DEF AdmitResolution, AdmitGatewaySelection, AdmitEvent,
       NewAttempt, NextStamp, Epoch, Rooted, TypeOK, RuntimeTypeOK, InEpoch
  <2> QED
    BY <1>b, <1>3, <2>1 DEF AdmitResolution, AdmitGatewaySelection,
       ObjectsSound
<1>4. CASE ParseResponse \/ BindIcannRefused
  <2>1. BindIcannRefused => (request # None => Rooted(request))'
    BY DEF BindIcannRefused
  <2> QED
    BY <1>b, <1>4, <2>1 DEF ParseResponse, BindIcannRefused, ObjectsSound
<1>5. ASSUME NEW evidence,
             /\ attempt # None
             /\ completion' = Completed(evidence)
             /\ UNCHANGED <<attempt, request, context, authority>>
      PROVE  ObjectsSound'
  <2>1. (attempt # None => Rooted(attempt))'
    BY <1>b, <1>5
  <2>2. completion'.stamp = attempt'.stamp /\ completion'.root = attempt'.root
    BY <1>5 DEF Completed
  <2>3. (completion # None => Rooted(completion))'
    BY <1>5, <2>1, <2>2 DEF Rooted
  <2> QED
    BY <1>b, <1>5, <2>3 DEF ObjectsSound
<1>6. ASSUME NEW decision \in Decision, NEW now \in Time,
             BindUnauthenticated(decision, now)
      PROVE  ObjectsSound'
  <2>1. Sound(context)'
    BY <1>6 DEF BindUnauthenticated, Sound
  <2> QED
    BY <1>b, <1>6, <2>1 DEF BindUnauthenticated, ObjectsSound
<1>7. ASSUME NEW decision \in Decision, NEW now \in Time,
             BindIcannRequest(decision, now)
      PROVE  ObjectsSound'
  <2>1. (request # None => Rooted(request))'
    BY <1>a, <1>7 DEF BindIcannRequest, AdmitEvent, NextStamp, Epoch, Rooted,
       TypeOK, RuntimeTypeOK, InEpoch
  <2> QED
    BY <1>b, <1>7, <2>1 DEF BindIcannRequest, ObjectsSound
<1>8. CASE BindIcannContext
  <2>2. request.root = Epoch
    BY <1>a, <1>8 DEF BindIcannContext, IcannRequestStands, Admits,
       ObjectsSound, Rooted
  <2>3. Sound(context)'
    BY <1>a, <1>8, <2>2 DEF BindIcannContext, AdmitEvent, NextStamp, Epoch,
       Sound, Rooted, TypeOK, RuntimeTypeOK, InEpoch
  <2>4. (request # None => Rooted(request))'
    BY <1>8 DEF BindIcannContext
  <2> QED
    BY <1>b, <1>8, <2>3, <2>4 DEF BindIcannContext, ObjectsSound
<1>9. ASSUME NEW decision \in Decision, NEW now \in Time,
             BindHns(decision, now)
      PROVE  ObjectsSound'
  <2>1. completion.root = Epoch
    BY <1>a, <1>9 DEF BindHns, HnsBindable, CompletionIsCurrent, Admits,
       ObjectsSound, Rooted
  <2>2. /\ context'.stamp = [session |-> session, generation |-> generation,
                             event_sequence |-> event_sequence']
        /\ context'.root = completion.root
        /\ event_sequence' \in Nat
        /\ UNCHANGED <<session, generation, invalidation_sequence,
                       used_sessions>>
    BY <1>a, <1>9 DEF BindHns, TypeOK, RuntimeTypeOK
  <2>3. Sound(context)'
    BY <1>a, <2>1, <2>2 DEF Epoch, Sound, Rooted, TypeOK, RuntimeTypeOK, InEpoch
  <2> QED
    BY <1>b, <1>9, <2>3 DEF BindHns, ObjectsSound
<1>10. ASSUME NEW decision \in Decision, NEW now \in Time,
              AuthorizeProviderInjection(decision, now)
       PROVE  ObjectsSound'
  <2>1. authority'.stamp = context'.stamp /\ authority'.root = context'.root
    BY <1>a, <1>10 DEF AuthorizeProviderInjection, Narrowed, Shapes,
       ContextShape, ContextField
  <2>2. Sound(authority)'
    BY <1>b, <1>10, <2>1 DEF AuthorizeProviderInjection, Sound, Rooted
  <2> QED
    BY <1>b, <1>10, <2>2 DEF AuthorizeProviderInjection, ObjectsSound
<1>11. ASSUME NEW decision \in Decision, NEW now \in Time,
              RevalidateProviderAuthority(decision, now)
       PROVE  ObjectsSound'
  <2>1. ASSUME authority' = None PROVE Sound(authority)'
    BY <2>1 DEF Sound
  <2>2. ASSUME authority' # None, authority.stamp # None
        PROVE  Sound(authority)'
    <3>1. PICK o : o = authority
      OBVIOUS
    <3>2. Rooted(o)'
      BY <1>a, <1>11, <2>2, <3>1, Aging DEF RevalidateProviderAuthority,
         ObjectsSound, Sound
    <3>3. authority'.stamp = o.stamp /\ authority'.root = o.root
      BY <1>a, <1>11, <2>2, <3>1 DEF RevalidateProviderAuthority, Narrowed,
         Shapes, ContextShape, ContextField
    <3> QED
      BY <3>2, <3>3 DEF Sound, Rooted
  <2>3. ASSUME authority' # None, authority.stamp = None
        PROVE  Sound(authority)'
    BY <1>a, <1>11, <2>3 DEF RevalidateProviderAuthority, Permitted,
       ContextIsAdmitted
  <2>4. Sound(authority)'
    BY <2>1, <2>2, <2>3
  <2> QED
    BY <1>b, <1>11, <2>4 DEF RevalidateProviderAuthority, ObjectsSound
<1>12. CompleteWithLocalDane => ObjectsSound'
  BY <1>5 DEF CompleteWithLocalDane
<1>13. \A evidence \in Evidence :
          CompleteWithValidatedTlsa(evidence) => ObjectsSound'
  BY <1>5 DEF CompleteWithValidatedTlsa
<1>14. \/ \E expected \in 1..MaxGeneration, config \in UserConfig :
               UpdatePolicy(expected, config)
       \/ \E next \in AuthorityState : AdvanceAuthorityState(next)
       \/ \E now \in Time :
            \/ AuthorizeBrowserBridge(now)
            \/ \E decision \in Decision : BindHnsExhausted(decision, now)
       \/ UNCHANGED vars
       => UNCHANGED held
  BY DEF UpdatePolicy, AdvanceAuthorityState, AuthorizeBrowserBridge,
     BindHnsExhausted, vars
<1> QED
  BY <1>1, <1>2, <1>3, <1>4, <1>6, <1>7, <1>8, <1>9, <1>10, <1>11, <1>12,
     <1>13, <1>14 DEF Next

\* Contexts and authorities keep the fields the argument looks at.
LEMMA ShapesStep == Shapes /\ [Next]_vars => Shapes'
<1> SUFFICES ASSUME Shapes, [Next]_vars PROVE Shapes'
  OBVIOUS
<1> USE DEF Shapes, ContextShape, ContextField
<1>1. CASE UNCHANGED <<context, authority>>
  BY <1>1
<1>2. ASSUME NEW decision \in Decision, NEW now \in Time,
             \/ BindUnauthenticated(decision, now)
             \/ BindHns(decision, now)
      PROVE  Shapes'
  BY <1>2 DEF BindUnauthenticated, BindHns
<1>3. CASE BindIcannContext
  BY <1>3 DEF BindIcannContext
<1>4. ASSUME NEW decision \in Decision, NEW now \in Time,
             \/ AuthorizeProviderInjection(decision, now)
             \/ RevalidateProviderAuthority(decision, now)
      PROVE  Shapes'
  BY <1>4 DEF AuthorizeProviderInjection, RevalidateProviderAuthority,
     Narrowed
<1>5. \/ \E s \in Session, saved \in PolicySnapshot(UserConfig) :
              Restart(s, saved)
      \/ \E expected \in 1..MaxGeneration, config \in UserConfig :
              UpdatePolicy(expected, config)
      \/ \E next \in AuthorityState : AdvanceAuthorityState(next)
      \/ \E transport \in Transport :
            \/ AdmitResolution(transport)
            \/ \E selected_under \in 1..MaxGeneration :
                    AdmitGatewaySelection(selected_under, transport)
      \/ ParseResponse
      \/ CompleteWithLocalDane
      \/ \E evidence \in Evidence : CompleteWithValidatedTlsa(evidence)
      \/ \E now \in Time :
            \/ AuthorizeBrowserBridge(now)
            \/ \E decision \in Decision :
                \/ BindIcannRequest(decision, now)
                \/ BindHnsExhausted(decision, now)
      \/ BindIcannRefused
      \/ UNCHANGED vars
      => UNCHANGED <<context, authority>>
  BY DEF Restart, UpdatePolicy, AdvanceAuthorityState, AdmitResolution,
     AdmitGatewaySelection, ParseResponse, CompleteWithLocalDane,
     CompleteWithValidatedTlsa, AuthorizeBrowserBridge, BindIcannRequest,
     BindHnsExhausted, BindIcannRefused, vars, held
<1> QED
  BY <1>1, <1>2, <1>3, <1>4, <1>5 DEF Next

-----------------------------------------------------------------------------
(* Reported evidence.                                                      *)

\* The report stays current while the clock runs on and the runtime stays in
\* a state that has an origin.
LEMMA EvidenceKept ==
    ASSUME TypeOK, EvidenceIsCurrent,
           UNCHANGED <<session, generation, invalidation_sequence, policy,
                       last_provenance, last_evidence>>,
           event_sequence' \in {event_sequence + 1, event_sequence + 2},
           authority_state' \in {"BrowserBridgeReady", authority_state}
    PROVE  EvidenceIsCurrent'
BY DEF TypeOK, RuntimeTypeOK, EvidenceIsCurrent, Provenance, OriginState,
   BridgeState

\* Every action keeps the reported evidence current: a completion reports
\* its own event, and whatever invalidates withdraws the report.
LEMMA EvidenceStep ==
    TypeOK /\ EvidenceIsCurrent /\ [Next]_vars => EvidenceIsCurrent'
<1> SUFFICES ASSUME TypeOK, EvidenceIsCurrent, [Next]_vars
             PROVE  EvidenceIsCurrent'
  OBVIOUS
<1> USE MaxCounterAssumption, MaxGenerationAssumption
    DEF TypeOK, RuntimeTypeOK, EvidenceIsCurrent, evidence_state,
        OriginState, BridgeState, Provenance
<1>1. ASSUME NEW s \in Session, NEW saved \in PolicySnapshot(UserConfig),
             Restart(s, saved)
      PROVE  EvidenceIsCurrent'
  BY <1>1 DEF Restart
<1>2. ASSUME NEW expected, NEW config \in UserConfig,
             UpdatePolicy(expected, config)
      PROVE  EvidenceIsCurrent'
  <2>1. CASE config = policy.config
    BY <1>2, <2>1 DEF UpdatePolicy, Replace, ReplacedBy, runtime
  <2>2. CASE config # policy.config
    BY <1>2, <2>2 DEF UpdatePolicy
  <2> QED
    BY <2>1, <2>2
<1>3. ASSUME NEW next \in AuthorityState, AdvanceAuthorityState(next)
      PROVE  EvidenceIsCurrent'
  <2>1. CASE next \in FailureState
    BY <1>3, <2>1 DEF AdvanceAuthorityState, FailureState
  <2>2. CASE next \notin FailureState
    BY <1>3, <2>2 DEF AdvanceAuthorityState, FailureState, Transition,
       ValidTransition, ForwardEdge
  <2> QED
    BY <2>1, <2>2
<1>4. CASE \E transport \in Transport :
              \/ AdmitResolution(transport)
              \/ \E g \in 1..MaxGeneration :
                    AdmitGatewaySelection(g, transport)
  BY <1>4 DEF AdmitResolution, AdmitGatewaySelection, AdmitEvent
<1>5. CASE CompleteWithLocalDane \/
           \E evidence \in Evidence : CompleteWithValidatedTlsa(evidence)
  <2>1. CompleteResolution /\ policy' = policy
    BY <1>5 DEF CompleteWithLocalDane, CompleteWithValidatedTlsa
  <2>2. attempt.policy_generation = policy.generation
    BY <2>1 DEF CompleteResolution, EnsureCurrent, AcceptCompletion
  <2>3. event_sequence' = event_sequence + 1 /\ event_sequence < MaxCounter
        /\ UNCHANGED <<session, generation, invalidation_sequence>>
        /\ authority_state' \in OriginState
    BY <2>1 DEF CompleteResolution, Transition, AdmitEvent, FailureState
  <2>4. last_provenance' \in Provenance
    BY <2>1, <2>2, <2>3 DEF CompleteResolution, Provenance, PolicySnapshot
  <2>5. last_provenance' # None
    BY <2>4, NoneAssumption
  <2>6. /\ last_evidence' = "verified"
        /\ last_provenance' =
              [session |-> session, generation |-> generation,
               policy_generation |-> policy.generation,
               event_sequence |-> event_sequence + 1]
    BY <2>1, <2>2, <2>3 DEF CompleteResolution
  <2> QED
    BY <2>1, <2>3, <2>5, <2>6
<1>6. ASSUME NEW now \in Time, AuthorizeBrowserBridge(now)
      PROVE  EvidenceIsCurrent'
  BY <1>6 DEF AuthorizeBrowserBridge, Transition, AdmitEvent, FailureState
<1>7. ASSUME NEW decision \in Decision, NEW now \in Time,
             \/ BindIcannRequest(decision, now)
             \/ BindHns(decision, now)
             \/ BindHnsExhausted(decision, now)
      PROVE  EvidenceIsCurrent'
  <2>1. CASE BindIcannRequest(decision, now)
    BY <2>1 DEF BindIcannRequest, AdmitEvent
  <2>2. CASE BindHns(decision, now)
    <3> HIDE DEF EvidenceIsCurrent, Provenance, OriginState
    <3>1. UNCHANGED <<session, generation, invalidation_sequence, policy,
                      last_provenance, last_evidence>>
      BY <2>2 DEF BindHns
    <3>2. event_sequence' \in {event_sequence + 1, event_sequence + 2}
      BY <2>2 DEF BindHns
    <3>3. authority_state' \in {"BrowserBridgeReady", authority_state}
      BY <2>2 DEF BindHns
    <3> QED
      BY <3>1, <3>2, <3>3, EvidenceKept
  <2>3. CASE BindHnsExhausted(decision, now)
    BY <2>3 DEF BindHnsExhausted, Transition, AdmitEvent, FailureState
  <2> QED
    BY <1>7, <2>1, <2>2, <2>3
<1>8. CASE BindIcannContext
  <2>1. AdmitEvent /\ UNCHANGED <<policy, last_provenance, last_evidence>>
    BY <1>8 DEF BindIcannContext
  <2> HIDE DEF EvidenceIsCurrent, Provenance, OriginState
  <2> QED
    BY <2>1, EvidenceKept DEF AdmitEvent
<1>9. CASE UNCHANGED <<engine, used_sessions>>
  BY <1>9 DEF engine, runtime
<1>10. \/ ParseResponse
       \/ \E decision \in Decision, now \in Time :
            \/ BindUnauthenticated(decision, now)
            \/ AuthorizeProviderInjection(decision, now)
            \/ RevalidateProviderAuthority(decision, now)
       \/ BindIcannRefused
       \/ UNCHANGED vars
       => UNCHANGED <<engine, used_sessions>>
  BY DEF ParseResponse, BindUnauthenticated, AuthorizeProviderInjection,
     RevalidateProviderAuthority, BindIcannRefused, vars
<1> QED
  BY <1>1, <1>2, <1>3, <1>4, <1>5, <1>6, <1>7, <1>8, <1>9, <1>10 DEF Next

-----------------------------------------------------------------------------
(* Lifetimes.                                                              *)

\* A completion of the strict path lives exactly as long as its evidence,
\* the last second included.
CompletionLifetime(c) ==
    c.evidence # None =>
        /\ c.evidence \in Evidence
        /\ c.valid_from = c.evidence.validated_at
        /\ c.valid_until = c.evidence.expires_at - 1

\* An HNS context lies within the lifetime of its evidence.
WithinEvidence(o) ==
    o.decision.namespace = "Hns" /\ o.status # "Unauthenticated" =>
        /\ o.evidence \in Evidence
        /\ o.evidence.validated_at <= o.valid_from
        /\ o.valid_until <= o.evidence.expires_at

ContextLifetime(o) ==
    /\ o.decision \in Decision
    /\ o.valid_from \in Nat
    /\ o.valid_until \in Nat
    /\ WithinEvidence(o)

\* An authority lies within the lifetime of its decision as well.
AuthorityLifetime(o) ==
    /\ o.decision.observed <= o.valid_from
    /\ o.valid_until <= o.decision.expires

IcannRequest(r) ==
    r.decision \in Decision /\ r.now \in Time /\ r.decision.namespace = "Icann"

Lifetimes ==
    /\ completion # None => CompletionLifetime(completion)
    /\ request # None => IcannRequest(request)
    /\ context # None => ContextLifetime(context)
    /\ authority # None =>
            ContextLifetime(authority) /\ AuthorityLifetime(authority)

\* Narrowing a context in a call that found its decision fresh gives it the
\* lifetime of an authority.
LEMMA NarrowedLifetime ==
    ASSUME NEW o, ContextField \subseteq DOMAIN o, ContextLifetime(o),
           NEW now \in Time, Fresh(o.decision, now)
    PROVE  /\ ContextLifetime(Narrowed(o, o.decision, now))
           /\ AuthorityLifetime(Narrowed(o, o.decision, now))
<1> DEFINE n == Narrowed(o, o.decision, now)
<1>1. /\ n.decision = o.decision /\ n.status = o.status
      /\ n.evidence = o.evidence
      /\ n.valid_from = Later(o.valid_from, now)
      /\ n.valid_until = Earlier(o.valid_until, o.decision.expires)
  BY DEF Narrowed, ContextField
<1> HIDE DEF n
<1>2. /\ o.decision.observed \in Nat /\ o.decision.expires \in Nat
      /\ o.valid_from \in Nat /\ o.valid_until \in Nat /\ now \in Nat
  BY DecisionAssumption, TimeAssumption DEF ContextLifetime
<1>3. /\ n.valid_from \in Nat /\ n.valid_until \in Nat
      /\ o.valid_from <= n.valid_from /\ now <= n.valid_from
      /\ n.valid_until <= o.valid_until
      /\ n.valid_until <= o.decision.expires
  BY <1>1, <1>2 DEF Later, Earlier
<1>4. WithinEvidence(n)
  <2> SUFFICES ASSUME n.decision.namespace = "Hns",
                      n.status # "Unauthenticated"
               PROVE  /\ n.evidence \in Evidence
                      /\ n.evidence.validated_at <= n.valid_from
                      /\ n.valid_until <= n.evidence.expires_at
    BY DEF WithinEvidence
  <2>1. /\ o.evidence \in Evidence
        /\ o.evidence.validated_at <= o.valid_from
        /\ o.valid_until <= o.evidence.expires_at
    BY <1>1 DEF ContextLifetime, WithinEvidence
  <2>2. o.evidence.validated_at \in Nat /\ o.evidence.expires_at \in Nat
    BY <2>1, EvidenceAssumption
  <2> QED
    BY <1>1, <1>2, <1>3, <2>1, <2>2
<1>5. ContextLifetime(n)
  BY <1>1, <1>3, <1>4 DEF ContextLifetime
<1>6. AuthorityLifetime(n)
  BY <1>1, <1>2, <1>3 DEF AuthorityLifetime, Fresh
<1> QED
  BY <1>5, <1>6 DEF n

\* Every action keeps the lifetimes: what it mints takes its own from an
\* object it has just found valid.
LEMMA LifetimesStep == Shapes /\ Lifetimes /\ [Next]_vars => Lifetimes'
<1> SUFFICES ASSUME Shapes, Lifetimes, [Next]_vars PROVE Lifetimes'
  OBVIOUS
<1>a. /\ UNCHANGED completion =>
            (completion # None => CompletionLifetime(completion))'
      /\ UNCHANGED request => (request # None => IcannRequest(request))'
      /\ UNCHANGED context => (context # None => ContextLifetime(context))'
      /\ UNCHANGED authority =>
            (authority # None =>
                ContextLifetime(authority) /\ AuthorityLifetime(authority))'
  BY DEF Lifetimes, CompletionLifetime, IcannRequest, ContextLifetime,
     WithinEvidence, AuthorityLifetime
<1>1. CASE request' = None /\ UNCHANGED <<completion, context, authority>>
  BY <1>1, <1>a DEF Lifetimes
<1>2. CASE UNCHANGED <<completion, request, context, authority>>
  BY <1>2, <1>a DEF Lifetimes
<1>3. ASSUME NEW evidence \in Evidence \cup {None},
             completion' = Completed(evidence),
             UNCHANGED <<request, context, authority>>
      PROVE  Lifetimes'
  <2>1. CompletionLifetime(completion')
    BY <1>3 DEF Completed, CompletionLifetime
  <2>2. CompletionLifetime(completion)'
    BY <2>1 DEF CompletionLifetime
  <2> QED
    BY <1>3, <1>a, <2>2 DEF Lifetimes
<1>4. ASSUME NEW decision \in Decision, NEW now \in Time,
             BindUnauthenticated(decision, now)
      PROVE  Lifetimes'
  <2>1. ContextLifetime(context)'
    BY <1>4, DecisionAssumption, TimeAssumption
       DEF BindUnauthenticated, ContextLifetime, WithinEvidence
  <2> QED
    BY <1>4, <1>a, <2>1 DEF BindUnauthenticated, Lifetimes
<1>5. ASSUME NEW decision \in Decision, NEW now \in Time,
             BindIcannRequest(decision, now)
      PROVE  Lifetimes'
  <2>1. IcannRequest(request)'
    BY <1>5 DEF BindIcannRequest, IcannRequest
  <2> QED
    BY <1>5, <1>a, <2>1 DEF BindIcannRequest, Lifetimes
<1>6. CASE BindIcannContext
  <2>1. IcannRequest(request)
    BY <1>6 DEF BindIcannContext, Lifetimes
  <2>2. /\ context'.decision = request.decision
        /\ context'.valid_from = request.now
        /\ context'.valid_until = request.decision.expires
    BY <1>6 DEF BindIcannContext
  <2>3. ContextLifetime(context)'
    <3>1. /\ request.decision \in Decision
          /\ request.now \in Nat /\ request.decision.expires \in Nat
          /\ request.decision.namespace # "Hns"
      BY <2>1, DecisionAssumption, TimeAssumption DEF IcannRequest
    <3> QED
      BY <2>2, <3>1, Zenon DEF ContextLifetime, WithinEvidence
  <2>4. request' = None /\ UNCHANGED <<completion, authority>>
    BY <1>6 DEF BindIcannContext
  <2> QED
    BY <1>a, <2>3, <2>4 DEF Lifetimes
<1>7. ASSUME NEW decision \in Decision, NEW now \in Time,
             BindHns(decision, now)
      PROVE  Lifetimes'
  <2>1. /\ completion # None
        /\ completion.evidence # None
    BY <1>7 DEF BindHns, HnsBindable, Bridgeable
  <2>2. CompletionLifetime(completion)
    BY <2>1 DEF Lifetimes
  <2>3. /\ context'.decision = decision
        /\ context'.evidence = completion.evidence
        /\ context'.valid_from = completion.valid_from
        /\ context'.valid_until = HnsContextUntil(decision, completion)
    BY <1>7 DEF BindHns
  <2>4. /\ completion.evidence \in Evidence
        /\ completion.evidence.validated_at \in Nat
        /\ completion.evidence.expires_at \in Nat
        /\ decision.expires \in Nat
    BY <2>1, <2>2, DecisionAssumption, EvidenceAssumption
       DEF CompletionLifetime
  <2>5. /\ context'.valid_until \in Nat
        /\ context'.valid_until <= completion.evidence.expires_at
    BY <2>1, <2>2, <2>3, <2>4 DEF HnsContextUntil, Earlier,
       CompletionLifetime
  <2>6. ContextLifetime(context)'
    BY <2>1, <2>2, <2>3, <2>4, <2>5 DEF CompletionLifetime,
       ContextLifetime, WithinEvidence
  <2>7. UNCHANGED <<completion, request, authority>>
    BY <1>7 DEF BindHns
  <2> QED
    BY <1>a, <2>6, <2>7 DEF Lifetimes
<1>8. ASSUME NEW decision \in Decision, NEW now \in Time,
             AuthorizeProviderInjection(decision, now)
      PROVE  Lifetimes'
  <2>1. /\ context # None /\ context.decision = decision
        /\ Fresh(context.decision, now)
        /\ authority' = Narrowed(context, context.decision, now)
        /\ UNCHANGED <<completion, request, context>>
    BY <1>8 DEF AuthorizeProviderInjection, Permitted
  <2>2. ContextLifetime(context) /\ ContextField \subseteq DOMAIN context
    BY <2>1 DEF Lifetimes, Shapes, ContextShape
  <2>3. ContextLifetime(authority') /\ AuthorityLifetime(authority')
    BY <2>1, <2>2, NarrowedLifetime
  <2>4. (ContextLifetime(authority) /\ AuthorityLifetime(authority))'
    BY <2>3 DEF ContextLifetime, AuthorityLifetime, WithinEvidence
  <2> QED
    BY <1>a, <2>1, <2>4 DEF Lifetimes
<1>9. ASSUME NEW decision \in Decision, NEW now \in Time,
             RevalidateProviderAuthority(decision, now)
      PROVE  Lifetimes'
  <2>1. UNCHANGED <<completion, request, context>>
    BY <1>9 DEF RevalidateProviderAuthority
  <2>2. CASE authority' = None
    BY <1>a, <2>1, <2>2 DEF Lifetimes
  <2>3. CASE authority' # None
    <3>1. /\ authority # None /\ authority.decision = decision
          /\ Fresh(authority.decision, now)
          /\ authority' = Narrowed(authority, authority.decision, now)
      BY <1>9, <2>3 DEF RevalidateProviderAuthority, Permitted
    <3>2. ContextLifetime(authority) /\ ContextField \subseteq DOMAIN authority
      BY <3>1 DEF Lifetimes, Shapes, ContextShape
    <3>3. ContextLifetime(authority') /\ AuthorityLifetime(authority')
      BY <3>1, <3>2, NarrowedLifetime
    <3>4. (ContextLifetime(authority) /\ AuthorityLifetime(authority))'
      BY <3>3 DEF ContextLifetime, AuthorityLifetime, WithinEvidence
    <3> QED
      BY <1>a, <2>1, <3>4 DEF Lifetimes
  <2> QED
    BY <2>2, <2>3
<1>10. CompleteWithLocalDane => Lifetimes'
  BY <1>3 DEF CompleteWithLocalDane
<1>11. \A evidence \in Evidence :
          CompleteWithValidatedTlsa(evidence) => Lifetimes'
  BY <1>3 DEF CompleteWithValidatedTlsa
<1>12. \/ \E s \in Session, saved \in PolicySnapshot(UserConfig) :
              Restart(s, saved)
       \/ BindIcannRefused
       => request' = None /\ UNCHANGED <<completion, context, authority>>
  BY DEF Restart, BindIcannRefused
<1>13. \/ \E expected \in 1..MaxGeneration, config \in UserConfig :
              UpdatePolicy(expected, config)
       \/ \E next \in AuthorityState : AdvanceAuthorityState(next)
       \/ \E transport \in Transport :
            \/ AdmitResolution(transport)
            \/ \E selected_under \in 1..MaxGeneration :
                    AdmitGatewaySelection(selected_under, transport)
       \/ ParseResponse
       \/ \E now \in Time :
            \/ AuthorizeBrowserBridge(now)
            \/ \E decision \in Decision : BindHnsExhausted(decision, now)
       \/ UNCHANGED vars
       => UNCHANGED <<completion, request, context, authority>>
  BY DEF UpdatePolicy, AdvanceAuthorityState, AdmitResolution,
     AdmitGatewaySelection, ParseResponse, AuthorizeBrowserBridge,
     BindHnsExhausted, vars, held
<1> QED
  BY <1>1, <1>2, <1>4, <1>5, <1>6, <1>7, <1>8, <1>9, <1>10, <1>11, <1>12,
     <1>13 DEF Next

-----------------------------------------------------------------------------
(* The theorems.                                                           *)

\* The initial state holds no object and reports no evidence.
LEMMA InitInvariants == Init => IInv /\ EvidenceIsCurrent
BY MaxCounterAssumption, MaxGenerationAssumption, ConfigAssumption
   DEF Init, IInv, TypeOK, RuntimeTypeOK, Shapes, ContextShape, ObjectsSound,
   Sound, EvidenceIsCurrent, AuthorityState, ClimbingState, PolicySnapshot

\* Every step keeps the conjunction that the theorems below rest on.
LEMMA InvariantStep == IInv /\ [Next]_vars => IInv'
BY TypeStep, ShapesStep, ObjectsStep DEF IInv

\* The engine's state is type correct, and what it reports as verified was
\* verified under the policy and generation in force.
THEOREM EvidenceSafety == Spec => []TypeOK /\ []EvidenceIsCurrent
<1>1. Init => TypeOK /\ EvidenceIsCurrent
  BY InitInvariants DEF IInv
<1>2. TypeOK /\ EvidenceIsCurrent /\ [Next]_vars
        => TypeOK' /\ EvidenceIsCurrent'
  BY TypeStep, EvidenceStep
<1> QED
  BY <1>1, <1>2, PTL DEF Spec

\* No completion from before an invalidation passes for current after it.
THEOREM CompletionSafety == Spec => []CompletionFromThisEpoch
<1>1. Init => IInv
  BY InitInvariants
<1>2. IInv => CompletionFromThisEpoch
  BY DEF IInv, ObjectsSound, Rooted, CompletionFromThisEpoch,
     CompletionIsCurrent, Admits
<1> QED
  BY <1>1, <1>2, InvariantStep, PTL DEF Spec

\* No provider authority that goes back to an admission before an
\* invalidation or in another process passes for current after it.
THEOREM AuthoritySafety == Spec => []AuthorityFromThisEpoch
<1>1. Init => IInv
  BY InitInvariants
<1>2. IInv => AuthorityFromThisEpoch
  BY DEF IInv, ObjectsSound, Sound, Rooted, AuthorityFromThisEpoch,
     AuthorityIsCurrent, ContextIsAdmitted, Admits
<1> QED
  BY <1>1, <1>2, InvariantStep, PTL DEF Spec

\* A provider authority passes for current only while its decision is fresh
\* and, on the HNS path, its TLSA evidence is valid, however often it has
\* been revalidated and however the clocks of the calls jump.
THEOREM LifetimeSafety == Spec => []AuthorityWithinEvidence
<1>1. Init => Shapes /\ Lifetimes
  BY DEF Init, Shapes, ContextShape, Lifetimes
<1>2. ASSUME Lifetimes PROVE AuthorityWithinEvidence
  <2> SUFFICES ASSUME NEW now \in Time, authority # None,
                      AuthorityIsCurrent(authority, now)
               PROVE  /\ Fresh(authority.decision, now)
                      /\ authority.decision.namespace = "Hns" =>
                            /\ authority.evidence.validated_at <= now
                            /\ now < authority.evidence.expires_at
    BY DEF AuthorityWithinEvidence
  <2>1. /\ authority.decision \in Decision
        /\ authority.valid_from \in Nat /\ authority.valid_until \in Nat
        /\ WithinEvidence(authority)
        /\ AuthorityLifetime(authority)
    BY <1>2 DEF Lifetimes, ContextLifetime
  <2>2. /\ authority.valid_from <= now /\ now < authority.valid_until
        /\ authority.status # "Unauthenticated"
    BY DEF AuthorityIsCurrent, Authenticates, AuthenticationPolicy
  <2>3. Fresh(authority.decision, now)
    BY <2>1, <2>2, DecisionAssumption, TimeAssumption
       DEF AuthorityLifetime, Fresh
  <2>4. ASSUME authority.decision.namespace = "Hns"
        PROVE  /\ authority.evidence.validated_at <= now
               /\ now < authority.evidence.expires_at
    BY <2>1, <2>2, <2>4, EvidenceAssumption, TimeAssumption
       DEF WithinEvidence
  <2> QED
    BY <2>3, <2>4
<1> QED
  BY <1>1, <1>2, ShapesStep, LifetimesStep, PTL DEF Spec

\* The two generations of a process move together or not at all.
THEOREM LockstepSafety == Spec => GenerationsInLockstep
<1>1. Init => TypeOK
  BY InitInvariants DEF IInv
<1>2. TypeOK /\ [Next]_vars => TypeOK'
  BY TypeStep
<1>3. ASSUME TypeOK, [Next]_vars
      PROVE  [session' = session =>
                policy'.generation - policy.generation
                    = generation' - generation]_vars
  <2> USE <1>3, MaxCounterAssumption, MaxGenerationAssumption
      DEF TypeOK, RuntimeTypeOK, PolicySnapshot
  <2>1. CASE policy' = policy /\ generation' = generation
    BY <2>1
  <2>2. ASSUME NEW s \in Session,
               NEW saved \in PolicySnapshot(UserConfig), Restart(s, saved)
        PROVE  session' # session
    BY <2>2 DEF Restart, New
  <2>3. ASSUME NEW expected, NEW config \in UserConfig,
               UpdatePolicy(expected, config)
        PROVE  policy'.generation - policy.generation
                    = generation' - generation
    <3>1. CASE config = policy.config
      BY <2>3, <3>1 DEF UpdatePolicy, Replace, ReplacedBy, runtime
    <3>2. CASE config # policy.config
      BY <2>3, <3>2 DEF UpdatePolicy, Replace, CanReplace, ReplacedBy,
         PolicyChanged
    <3> QED
      BY <3>1, <3>2
  <2>4. \/ \E next \in AuthorityState : AdvanceAuthorityState(next)
        \/ \E transport \in Transport :
            \/ AdmitResolution(transport)
            \/ \E selected_under \in 1..MaxGeneration :
                    AdmitGatewaySelection(selected_under, transport)
        \/ CompleteWithLocalDane
        \/ \E evidence \in Evidence : CompleteWithValidatedTlsa(evidence)
        \/ \E now \in Time :
            \/ AuthorizeBrowserBridge(now)
            \/ \E decision \in Decision :
                \/ BindIcannRequest(decision, now)
                \/ BindHns(decision, now)
                \/ BindHnsExhausted(decision, now)
        \/ BindIcannContext
        => policy' = policy /\ generation' = generation
    BY DEF AdvanceAuthorityState, AdmitResolution, AdmitGatewaySelection,
       CompleteWithLocalDane, CompleteWithValidatedTlsa, CompleteResolution,
       AuthorizeBrowserBridge, BindIcannRequest, BindHns, BindHnsExhausted,
       BindIcannContext, Transition, AdmitEvent
  <2>5. \/ ParseResponse
        \/ \E decision \in Decision, now \in Time :
            \/ BindUnauthenticated(decision, now)
            \/ AuthorizeProviderInjection(decision, now)
            \/ RevalidateProviderAuthority(decision, now)
        \/ BindIcannRefused
        \/ UNCHANGED vars
        => policy' = policy /\ generation' = generation
    BY DEF ParseResponse, BindUnauthenticated, AuthorizeProviderInjection,
       RevalidateProviderAuthority, BindIcannRefused, vars, engine, runtime
  <2> QED
    BY <2>1, <2>2, <2>3, <2>4, <2>5 DEF Next
<1> QED
  BY <1>1, <1>2, <1>3, PTL DEF Spec, GenerationsInLockstep

=============================================================================
