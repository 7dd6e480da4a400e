--------------------------- MODULE RuntimeSessions ---------------------------
(***************************************************************************)
(* The browser runtime on its own: every operation of BrowserRuntime in    *)
(* every order, process restarts with a fresh session, and the stamps that *)
(* callers keep across all of it.  Its properties are proved below, for    *)
(* every set of sessions and every counter width.                          *)
(***************************************************************************)
EXTENDS BrowserRuntime, FiniteSets, TLAPS

CONSTANT MaxHeld              \* bound of the model on the stamps kept

VARIABLES
    used_sessions,            \* sessions a runtime was ever started with
    held                      \* the RuntimeStamps callers have kept

vars == <<runtime, used_sessions, held>>

Init ==
    /\ session \in Session
    /\ generation = 1
    /\ event_sequence = 0
    /\ invalidation_sequence = 0
    /\ authority_state = "Uninitialized"
    /\ used_sessions = {session}
    /\ held = {}

ChangePolicy == PolicyChanged /\ UNCHANGED <<used_sessions, held>>

Move(next) == Transition(next) /\ UNCHANGED <<used_sessions, held>>

\* The caller of admit_event keeps the stamp or, as the engine does after a
\* completion, drops it.
Admit ==
    /\ AdmitEvent
    /\ \/ Cardinality(held) < MaxHeld /\ held' = held \cup {NextStamp}
       \/ UNCHANGED held
    /\ UNCHANGED used_sessions

\* A new process start.  The caller owes the runtime a session never used
\* before; stamps of the old session may still be around.
Restart(s) ==
    /\ s \notin used_sessions
    /\ New(s)
    /\ used_sessions' = used_sessions \cup {s}
    /\ UNCHANGED held

Next ==
    \/ ChangePolicy
    \/ \E next \in AuthorityState : Move(next)
    \/ Admit
    \/ \E s \in Session : Restart(s)

Spec == Init /\ [][Next]_vars

-----------------------------------------------------------------------------
(* Properties.                                                             *)

\* Type invariant of the runtime and of the stamps handed out.
TypeOK ==
    /\ RuntimeTypeOK
    /\ used_sessions \subseteq Session
    /\ session \in used_sessions
    /\ held \subseteq Stamp

\* Stamps only carry counters their session has really reached, and a stamp
\* of an older generation is also below the invalidation floor: the two
\* checks of BrowserRuntime::admits agree on what a policy change revoked.
StampsBehindClock ==
    \A s \in held :
        /\ s.session \in used_sessions
        /\ s.session = session =>
              /\ s.event_sequence <= event_sequence
              /\ s.generation <= generation
              /\ s.generation < generation
                    => s.event_sequence <= invalidation_sequence

\* Recovery climbs the whole ladder again: whenever the runtime admits work,
\* at least the four transitions HeaderSyncing, HeaderCurrent, ProofReady and
\* ResolutionTransportReady happened after the last invalidation, so no edge
\* of the graph leads from a failure state past the header synchronisation.
RecoveryClimbsLadder ==
    LET climbed == event_sequence - invalidation_sequence
    IN  /\ authority_state = "HeaderSyncing" => climbed >= 1
        /\ authority_state = "HeaderCurrent" => climbed >= 2
        /\ authority_state = "ProofReady" => climbed >= 3
        /\ authority_state \in WorkState => climbed >= 4

\* The runtime implements the stamp ledger: its three comparisons on the
\* counters define exactly the set of stamps not yet invalidated.
Ledger == INSTANCE StampLedger WITH
    issued <- held,
    live <- {s \in held : InEpoch(s)},
    ready <- authority_state \in WorkState

LedgerSpec == Ledger!Spec

-----------------------------------------------------------------------------
(* The invariants are inductive.                                           *)

\* The state predicate the refinement rests on: StampsBehindClock alone is
\* not inductive, since it says nothing about the width of the counters.
IInv == TypeOK /\ StampsBehindClock

-----------------------------------------------------------------------------
(* The inductive step, one lemma per invariant.                            *)

\* Every operation of the runtime keeps the types of its state.
LEMMA TypeStep == TypeOK /\ [Next]_vars => TypeOK'
<1> SUFFICES ASSUME TypeOK, [Next]_vars PROVE TypeOK'
  OBVIOUS
<1> USE MaxCounterAssumption DEF TypeOK, RuntimeTypeOK
<1>1. CASE ChangePolicy
  BY <1>1 DEF ChangePolicy, PolicyChanged, EnsurePolicyChangeCapacity,
     AuthorityState, FailureState
<1>2. ASSUME NEW next \in AuthorityState, Move(next) PROVE TypeOK'
  BY <1>2 DEF Move, Transition
<1>3. CASE Admit
  <2>1. NextStamp \in Stamp
    BY <1>3 DEF Admit, AdmitEvent, NextStamp, Stamp
  <2> QED
    BY <1>3, <2>1 DEF Admit, AdmitEvent
<1>4. ASSUME NEW s \in Session, Restart(s) PROVE TypeOK'
  BY <1>4 DEF Restart, New, AuthorityState, ClimbingState
<1>5. CASE UNCHANGED vars
  BY <1>5 DEF vars, runtime
<1> QED
  BY <1>1, <1>2, <1>3, <1>4, <1>5 DEF Next

\* Every operation keeps the minted stamps behind the clock of their session:
\* a policy change lifts the floor over all stamps of the old generation.
LEMMA BehindClockStep == IInv /\ [Next]_vars => StampsBehindClock'
<1> SUFFICES ASSUME IInv, [Next]_vars PROVE StampsBehindClock'
  OBVIOUS
<1> USE MaxCounterAssumption DEF IInv, TypeOK, RuntimeTypeOK, StampsBehindClock, Stamp
<1>1. CASE ChangePolicy
  BY <1>1 DEF ChangePolicy, PolicyChanged, EnsurePolicyChangeCapacity
<1>2. ASSUME NEW next \in AuthorityState, Move(next) PROVE StampsBehindClock'
  BY <1>2 DEF Move, Transition
<1>3. CASE Admit
  BY <1>3 DEF Admit, AdmitEvent, NextStamp
<1>4. ASSUME NEW s \in Session, Restart(s) PROVE StampsBehindClock'
  BY <1>4 DEF Restart, New
<1>5. CASE UNCHANGED vars
  BY <1>5 DEF vars, runtime
<1> QED
  BY <1>1, <1>2, <1>3, <1>4, <1>5 DEF Next

\* Every operation respects the ladder: a failure resets it, each rung adds
\* one event, and nothing else enters a rung.
LEMMA LadderStep ==
    TypeOK /\ RecoveryClimbsLadder /\ [Next]_vars => RecoveryClimbsLadder'
<1> SUFFICES ASSUME TypeOK, RecoveryClimbsLadder, [Next]_vars
             PROVE  RecoveryClimbsLadder'
  OBVIOUS
<1> USE DEF TypeOK, RuntimeTypeOK, RecoveryClimbsLadder, WorkState
<1>1. CASE ChangePolicy
  BY <1>1 DEF ChangePolicy, PolicyChanged, EnsurePolicyChangeCapacity
<1>2. ASSUME NEW next \in AuthorityState, Move(next)
      PROVE  RecoveryClimbsLadder'
  BY <1>2 DEF Move, Transition, ValidTransition, ForwardEdge,
     FailureState, ClimbingState
<1>3. CASE Admit
  BY <1>3 DEF Admit, AdmitEvent
<1>4. ASSUME NEW s \in Session, Restart(s) PROVE RecoveryClimbsLadder'
  BY <1>4 DEF Restart, New
<1>5. CASE UNCHANGED vars
  BY <1>5 DEF vars, runtime
<1> QED
  BY <1>1, <1>2, <1>3, <1>4, <1>5 DEF Next

-----------------------------------------------------------------------------
(* The safety theorems.                                                    *)

\* The initial state of BrowserRuntime::new satisfies every invariant.
LEMMA InitInvariants == Init => IInv /\ RecoveryClimbsLadder
BY MaxCounterAssumption DEF Init, IInv, TypeOK, RuntimeTypeOK,
   StampsBehindClock, RecoveryClimbsLadder, WorkState, ClimbingState,
   AuthorityState

\* The runtime is type correct and its stamps stay behind its clock.
THEOREM StampSafety == Spec => []TypeOK /\ []StampsBehindClock
<1>1. Init => IInv
  BY InitInvariants
<1>2. IInv /\ [Next]_vars => IInv'
  BY TypeStep, BehindClockStep DEF IInv
<1>3. IInv => TypeOK /\ StampsBehindClock
  BY DEF IInv
<1> QED
  BY <1>1, <1>2, <1>3, PTL DEF Spec

\* The runtime never admits work without having climbed the header, proof and
\* transport rungs after its last invalidation.
THEOREM LadderSafety == Spec => []RecoveryClimbsLadder
<1>1. Init => TypeOK /\ RecoveryClimbsLadder
  BY InitInvariants DEF IInv
<1>2. TypeOK /\ RecoveryClimbsLadder /\ [Next]_vars
         => TypeOK' /\ RecoveryClimbsLadder'
  BY TypeStep, LadderStep
<1> QED
  BY <1>1, <1>2, PTL DEF Spec

-----------------------------------------------------------------------------
(* Refinement.                                                             *)

\* Each operation of the runtime is a step of the stamp ledger or none.
LEMMA LedgerStep == IInv /\ [Next]_vars => [Ledger!Next]_(Ledger!vars)
<1> SUFFICES ASSUME IInv, [Next]_vars
             PROVE  Ledger!Next \/ UNCHANGED Ledger!vars
  OBVIOUS
<1> USE MaxCounterAssumption
    DEF IInv, TypeOK, RuntimeTypeOK, StampsBehindClock, InEpoch
<1>1. CASE ChangePolicy
  <2>1. Ledger!Invalidate
    BY <1>1 DEF ChangePolicy, PolicyChanged, EnsurePolicyChangeCapacity,
       Ledger!Invalidate, WorkState, Stamp
  <2> QED
    BY <2>1 DEF Ledger!Next
<1>2. ASSUME NEW next \in AuthorityState, Move(next) PROVE Ledger!Next
  <2>1. CASE next \in FailureState
    <3>1. Ledger!Invalidate
      BY <1>2, <2>1 DEF Move, Transition, FailureState,
         Ledger!Invalidate, WorkState, Stamp
    <3> QED
      BY <3>1 DEF Ledger!Next
  <2>2. CASE next \notin FailureState
    <3>1. \A s \in held : InEpoch(s)' <=> InEpoch(s)
      BY <1>2, <2>2 DEF Move, Transition, Stamp
    <3>2. authority_state \in WorkState => authority_state' \in WorkState
      BY <1>2, <2>2 DEF Move, Transition, ValidTransition, ForwardEdge,
         WorkState
    <3>3. Ledger!Advance
      BY <1>2, <3>1, <3>2 DEF Move, Transition, Ledger!Advance
    <3> QED
      BY <3>3 DEF Ledger!Next
  <2> QED
    BY <2>1, <2>2
<1>3. CASE Admit
  <2>1. \A t \in held : InEpoch(t)' <=> InEpoch(t)
    BY <1>3 DEF Admit, AdmitEvent, Stamp
  <2>2. UNCHANGED authority_state /\ authority_state \in WorkState
    BY <1>3 DEF Admit, AdmitEvent
  <2>3. CASE UNCHANGED held
    <3>1. Ledger!Advance
      BY <2>1, <2>2, <2>3 DEF Ledger!Advance
    <3> QED
      BY <3>1 DEF Ledger!Next
  <2>4. CASE held' = held \cup {NextStamp}
    <3>1. PICK s \in Stamp \ held : s = NextStamp
      <4>1. NextStamp \in Stamp
        BY <1>3 DEF Admit, AdmitEvent, NextStamp, Stamp
      <4>2. NextStamp.session = session
            /\ NextStamp.event_sequence = event_sequence + 1
        BY DEF NextStamp
      <4>3. NextStamp \notin held
        BY <4>2 DEF Stamp
      <4> QED
        BY <4>1, <4>3
    <3>2. InEpoch(s)'
      BY <1>3, <3>1 DEF Admit, AdmitEvent, NextStamp
    <3>3. held' = held \cup {s}
      BY <2>4, <3>1
    <3>4. {t \in held : InEpoch(t)}' = {t \in held : InEpoch(t)} \cup {s}
      BY <2>1, <3>2, <3>3
    <3>5. Ledger!Admit
      BY <2>2, <3>1, <3>3, <3>4 DEF Ledger!Admit
    <3> QED
      BY <3>5 DEF Ledger!Next
  <2> QED
    BY <1>3, <2>3, <2>4 DEF Admit
<1>4. ASSUME NEW s \in Session, Restart(s) PROVE Ledger!Next
  <2>1. Ledger!Invalidate
    BY <1>4 DEF Restart, New, Ledger!Invalidate, WorkState, Stamp
  <2> QED
    BY <2>1 DEF Ledger!Next
<1>5. CASE UNCHANGED vars
  BY <1>5 DEF vars, runtime, Ledger!vars
<1> QED
  BY <1>1, <1>2, <1>3, <1>4, <1>5 DEF Next

\* The browser runtime implements the stamp ledger: a stamp, once minted, is
\* in the epoch until the first invalidation and never after it.
THEOREM RuntimeImplementsLedger == Spec => LedgerSpec
<1>1. Init => Ledger!Init
  BY DEF Init, Ledger!Init, WorkState
<1>2. IInv /\ [Next]_vars => [Ledger!Next]_(Ledger!vars)
  BY LedgerStep
<1>3. Spec => []IInv
  BY StampSafety, PTL DEF IInv
<1> QED
  BY <1>1, <1>2, <1>3, PTL DEF Spec, LedgerSpec, Ledger!Spec

=============================================================================
