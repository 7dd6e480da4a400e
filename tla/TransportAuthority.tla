------------------------- MODULE TransportAuthority -------------------------
(***************************************************************************)
(* The engine authority a private transport runtime is bound to            *)
(* (PrivateTransportBinding of private_transport.rs, HnsrTransportBinding  *)
(* of hnsr_transport.rs): the session and generation of the browser        *)
(* runtime, its event counter and invalidation floor, and the policy.  The *)
(* runtime itself is BrowserRuntime; here it is reduced to what a binding  *)
(* is compared with.                                                       *)
(***************************************************************************)
EXTENDS Integers

CONSTANTS Roles,              \* transports a policy may admit
          MaxChanges          \* bound on the events of the authority

VARIABLE authority

Unbound == [session |-> 0, generation |-> 0, policy |-> 0, event |-> 0]

AuthorityInit ==
  authority = [session |-> 1, generation |-> 1, policy |-> 1, roles |-> Roles,
               ready |-> TRUE, floor |-> 0, events |-> 0]

\* A binding can be minted: resolution transport is ready and the policy admits
\* the role; the runtime then admits one event.
CanMint(role) == authority.ready /\ role \in authority.roles /\ authority.events < MaxChanges
Minted == [session |-> authority.session, generation |-> authority.generation,
           policy |-> authority.policy, event |-> authority.events + 1]
Mint == authority' = [authority EXCEPT !.events = @ + 1]

\* What validate_private_transport_binding says, in its order.
Validation(role, binding) ==
  CASE authority.session # binding.session -> "RuntimeSessionChanged"
    [] authority.generation # binding.generation -> "RuntimeGenerationChanged"
    [] authority.policy # binding.policy -> "PolicyGenerationChanged"
    [] ~authority.ready -> "AuthorityUnavailable"
    [] binding.event <= authority.floor -> "AdmissionInvalidated"
    [] role \notin authority.roles -> "PolicyDisabled"
    [] OTHER -> "ok"

\* The authority degrades or is revoked: what was admitted so far is invalid.
Invalidate ==
  /\ authority.ready /\ authority.events < MaxChanges
  /\ authority' = [authority EXCEPT !.ready = FALSE, !.events = @ + 1, !.floor = authority.events + 1]

\* It climbs back to a ready resolution transport.
Recover == ~authority.ready /\ authority' = [authority EXCEPT !.ready = TRUE]

\* The policy is replaced.  Through Engine the runtime enters a new generation with
\* it; a platform that owns the runtime may show a new policy first.
ReplacePolicy ==
  /\ authority.events < MaxChanges
  /\ \E roles \in SUBSET Roles \ {authority.roles}, revoked \in BOOLEAN :
       authority' = [authority EXCEPT !.policy = @ + 1, !.roles = roles, !.events = @ + 1,
                       !.generation = IF revoked THEN @ + 1 ELSE @,
                       !.ready = @ /\ ~revoked,
                       !.floor = IF revoked THEN authority.events + 1 ELSE @]

AuthorityStep == Invalidate \/ Recover \/ ReplacePolicy

\* A new process: another session, the policy as it was.
NewSession ==
  authority' = [authority EXCEPT !.session = @ + 1, !.generation = 1, !.ready = TRUE, !.floor = 0, !.events = 0]
=============================================================================
