--------------------------- MODULE BrowserRuntime ---------------------------
(***************************************************************************)
(* hns-browser-runtime: the authority state machine of one browser         *)
(* session, its generation and event counters, the invalidation floor and  *)
(* the admission stamps they mint.  A failed operation returns an error    *)
(* and changes nothing, so every error path is a disabled guard.           *)
(*                                                                         *)
(* The module holds the runtime and its operations; RuntimeSessions runs   *)
(* them alone, Engine behind the engine facade.                            *)
(*                                                                         *)
(* MaxCounter plays u64::MAX: a checked_add that fails in the code is a    *)
(* guard that is false at MaxCounter, so runs reach exhaustion.            *)
(***************************************************************************)
EXTENDS Integers

CONSTANTS Session,            \* RuntimeSessionId values (nonzero, caller-made)
          MaxCounter          \* u64::MAX

ASSUME MaxCounterAssumption == MaxCounter \in Nat \ {0}

VARIABLES
    session,                  \* BrowserRuntime.session
    generation,               \* BrowserRuntime.generation
    event_sequence,           \* BrowserRuntime.event_sequence
    invalidation_sequence,    \* BrowserRuntime.invalidation_sequence
    authority_state           \* BrowserRuntime.authority_state

runtime == <<session, generation, event_sequence, invalidation_sequence,
             authority_state>>

-----------------------------------------------------------------------------
(* The authority graph.                                                    *)

FailureState == {"Degraded", "Revoked", "Stopped"}

ClimbingState == {"Uninitialized", "LocalStateOpened", "HeaderSyncing",
                  "HeaderCurrent", "ProofReady"}

\* authority_admits_work
WorkState == {"ResolutionTransportReady", "DnssecVerified",
              "DaneOriginVerified", "BrowserBridgeReady", "Active"}

AuthorityState == ClimbingState \cup WorkState \cup FailureState

ForwardEdge ==
    {<<"Uninitialized", "LocalStateOpened">>,
     <<"LocalStateOpened", "HeaderSyncing">>,
     <<"Degraded", "HeaderSyncing">>,
     <<"Revoked", "HeaderSyncing">>,
     <<"HeaderSyncing", "HeaderCurrent">>,
     <<"HeaderCurrent", "ProofReady">>,
     <<"ProofReady", "ResolutionTransportReady">>,
     <<"ResolutionTransportReady", "DnssecVerified">>,
     <<"ResolutionTransportReady", "BrowserBridgeReady">>,
     <<"DnssecVerified", "DaneOriginVerified">>,
     <<"DnssecVerified", "BrowserBridgeReady">>,
     <<"DaneOriginVerified", "BrowserBridgeReady">>,
     <<"BrowserBridgeReady", "Active">>,
     <<"Degraded", "Stopped">>,
     <<"Revoked", "Stopped">>}

\* Mutant of ValidTransition: a degraded runtime resumes where it can serve.
ValidTransitionResume ==
    ForwardEdge \cup ((ClimbingState \cup WorkState) \X FailureState)
                \cup {<<"Degraded", "ResolutionTransportReady">>}

\* valid_authority_transition
ValidTransition ==
    ForwardEdge \cup ((ClimbingState \cup WorkState) \X FailureState)

-----------------------------------------------------------------------------
(* Stamps.                                                                 *)

Stamp == [session : Session, generation : 1..MaxCounter,
          event_sequence : 1..MaxCounter]

\* BrowserRuntime::admits without the authority-state conjunct
InEpoch(stamp) ==
    /\ stamp.session = session
    /\ stamp.generation = generation
    /\ stamp.event_sequence > invalidation_sequence
    /\ stamp.event_sequence <= event_sequence

Admits(stamp) == authority_state \in WorkState /\ InEpoch(stamp)

-----------------------------------------------------------------------------
(* Operations of BrowserRuntime.                                           *)

\* BrowserRuntime::new with session s
New(s) ==
    /\ session' = s
    /\ generation' = 1
    /\ event_sequence' = 0
    /\ invalidation_sequence' = 0
    /\ authority_state' = "Uninitialized"

EnsurePolicyChangeCapacity ==
    generation # MaxCounter /\ event_sequence # MaxCounter

\* Mutant of PolicyChanged: only the generation is relied on, the floor stays.
PolicyChangedKeepsFloor ==
    /\ EnsurePolicyChangeCapacity
    /\ generation' = generation + 1
    /\ event_sequence' = event_sequence + 1
    /\ authority_state' =
          IF authority_state = "Stopped" THEN "Stopped" ELSE "Revoked"
    /\ UNCHANGED <<session, invalidation_sequence>>

PolicyChanged ==
    /\ EnsurePolicyChangeCapacity
    /\ generation' = generation + 1
    /\ event_sequence' = event_sequence + 1
    /\ invalidation_sequence' = event_sequence'
    /\ authority_state' =
          IF authority_state = "Stopped" THEN "Stopped" ELSE "Revoked"
    /\ UNCHANGED session

\* Mutant of Transition: degradation is treated as an ordinary transition.
TransitionDegradedKeepsFloor(next) ==
    /\ <<authority_state, next>> \in ValidTransition
    /\ event_sequence < MaxCounter
    /\ event_sequence' = event_sequence + 1
    /\ invalidation_sequence' =
          IF next \in FailureState \ {"Degraded"} THEN event_sequence'
                                                 ELSE invalidation_sequence
    /\ authority_state' = next
    /\ UNCHANGED <<session, generation>>

Transition(next) ==
    /\ <<authority_state, next>> \in ValidTransition
    /\ event_sequence < MaxCounter
    /\ event_sequence' = event_sequence + 1
    /\ invalidation_sequence' =
          IF next \in FailureState THEN event_sequence'
                                   ELSE invalidation_sequence
    /\ authority_state' = next
    /\ UNCHANGED <<session, generation>>

\* The stamp admit_event returns from the current state.
NextStamp == [session |-> session, generation |-> generation,
              event_sequence |-> event_sequence + 1]

AdmitEvent ==
    /\ authority_state \in WorkState
    /\ event_sequence < MaxCounter
    /\ event_sequence' = event_sequence + 1
    /\ UNCHANGED <<session, generation, invalidation_sequence,
                   authority_state>>

-----------------------------------------------------------------------------
(* Type correctness of the runtime.                                        *)

RuntimeTypeOK ==
    /\ session \in Session
    /\ generation \in 1..MaxCounter
    /\ event_sequence \in 0..MaxCounter
    /\ invalidation_sequence \in 0..event_sequence
    /\ authority_state \in AuthorityState

=============================================================================
