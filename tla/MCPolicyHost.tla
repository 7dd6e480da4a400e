---------------------------- MODULE MCPolicyHost ----------------------------
(***************************************************************************)
(* PolicyHost and RuntimeSessions for TLC, in five regimes.  "sessions":    *)
(* the runtime alone.  Twelve events are the fewest in which a stamp is     *)
(* minted, invalidated by a degradation and followed by a second stamp      *)
(* after the full recovery; two stamps are enough for either to be the      *)
(* stale one.  "files": every field of                                      *)
(* the blob found runs over its codes and the first unknown value above     *)
(* them, in all schemas and the first unknown one (roles and generations    *)
(* sampled), and the adapters hold nothing.  "adapters": the process starts *)
(* from a sound blob and moves between configurations that differ in every  *)
(* setting transition_effects looks at, one of them in conflict.            *)
(* "updates": threads of a C host change the policy, each field of the      *)
(* structure to a good value, a conflicting or an unknown one.  "attempts": *)
(* one thread lists transports, admits and validates while another changes  *)
(* the policy and the engine is destroyed and created again.                *)
(***************************************************************************)
EXTENDS PolicyHost, RuntimeSessions, TLC

CONSTANTS MaxSaves,           \* bound on the saves of the adapters regime
          MaxUpdates          \* bound on the updates of the C host's threads

VARIABLES regime, saves

DefaultBlob == Encode([generation |-> 1, config |-> DefaultConfig])

MCFoundBlob ==
    {DefaultBlob, [DefaultBlob EXCEPT !.sealed = FALSE]} \cup
    [sealed : {TRUE}, schema : 1..4, generation : {0, 1, MaxGeneration},
     relay : {0, 2, 3}, oblivious : {0, 2, 3, 4}, hnsr : {0, 5, 6, 7, 16},
     wire : {0, 3}, providers : {2, 12, 16}, settings : {3, 6, 8}]

MCUserConfig ==
    {DefaultConfig,
     [DefaultConfig EXCEPT !.oblivious_dns = "Required",
                           !.providers = {"odoh_target", "market_gossip"}],
     [DefaultConfig EXCEPT !.oblivious_dns = "Required",
                           !.dns_relay_requester = "Required"],
     [DefaultConfig EXCEPT !.user_configured_recursive_hns_doh = TRUE,
                           !.hnsr = {"client", "endpoint"},
                           !.wire_profile = "Official"],
     [DefaultConfig EXCEPT !.dns_relay_requester = "Disabled",
                           !.authenticated_authoritative_doh = FALSE,
                           !.hnsr = {}, !.providers = {}]}

\* Fields of the policy structure and the values threads give them.
Edits ==
    [updates |-> {<<"user_configured_recursive_hns_doh", 1>>, <<"user_configured_recursive_hns_doh", 2>>,
                  <<"authenticated_authoritative_doh", 0>>, <<"oblivious_dns", 3>>, <<"hnsr", 16>>},
     attempts |-> {<<"dns_relay_requester", 0>>, <<"authenticated_authoritative_doh", 0>>}]

Masks == {{0, 1, 4, 5}, {0, 1, 4}, {0, 1, 2, 4, 5}, {0, 1, 3, 4, 5}, {}}
Answers == [correlated : BOOLEAN, rcode : {0, 2}, asked_tlsa : BOOLEAN, matches : BOOLEAN, ready : BOOLEAN]
Texts == {"", "a", "b", "too long", "not UTF-8"}
Contexts == {<<>>} \cup {<<c>> : c \in [size : 1..2, reserved : {0}, direct_relay_fallback : {0, 2},
                                        peer : Texts, proxy : Texts, target : Texts]}
Good == [correlated |-> TRUE, rcode |-> 0, asked_tlsa |-> TRUE, matches |-> TRUE, ready |-> TRUE]

MCInit ==
    /\ HostInit
    /\ AbiInit
    /\ saves = 0
    /\ \/ regime = "files"
       \/ regime \in {"sessions", "adapters", "updates", "attempts"} /\ blob = DefaultBlob
    /\ Init /\ (regime # "sessions" => session = CHOOSE s \in Session : TRUE)

HostNext ==
    /\ HostStep
    /\ saves' = saves + IF blob' # blob /\ regime = "adapters" THEN 1 ELSE 0
    /\ saves' <= MaxSaves
    /\ regime = "files" =>
          effects' = <<>> /\ selections' = {} /\ advertised' = {}
    /\ regime = "files" => ~loaded \/ policy' = policy
    /\ UNCHANGED abi

ThreadNext(t) ==
    \/ GetPolicy(t)
    \/ \E e \in Edits[regime] : EditStructure(t, e[1], e[2])
    \/ SetPolicy(t)
ListerNext(t) ==
    \/ TransportCount(t)
    \/ TransportAt(t)
    \/ \E transport \in ResolutionTransport, named, ready \in BOOLEAN : AdmitAttempt(t, transport, named, ready)
    \/ \E answer \in {Good, [Good EXCEPT !.matches = FALSE]}, mask \in {{0, 1, 4, 5}, {0, 1}} :
          Validate(t, answer, mask, <<>>)
EngineNext ==
    \/ \E zero, empty \in BOOLEAN, code \in {0, 3, 4} : Create(zero, code, empty)
    \/ Destroy
    \/ regime = "updates" /\ \E capacity \in 0..1, null \in BOOLEAN : Export(capacity, null)

MCNext ==
    /\ UNCHANGED regime
    /\ \/ regime = "sessions" /\ Next /\ UNCHANGED <<hostVars, abi, saves>>
       \/ regime \in {"files", "adapters"} /\ HostNext /\ UNCHANGED vars
       \/ /\ regime \in {"updates", "attempts"}
          /\ UNCHANGED <<saves, vars>>
          /\ \/ EngineNext
             \/ \E t \in Thread : (regime = "updates" \/ t \notin Version1) /\ ThreadNext(t)
             \/ regime = "attempts" /\ \E t \in Version1 : ListerNext(t)
          /\ policy'.generation <= MaxUpdates + 1

MCSpec == MCInit /\ [][MCNext]_<<vars, hostVars, abi, regime, saves>>

Interchangeable == Permutations(Session)

\* The first engine, before anything but the admission.
Undisturbed == engines = 1 /\ policy.generation = 1 /\ \A t \in Thread \ Version1 : threads[t] = Nothing

\* What a C host writes, exports, lists and validates: see WritesOverWhatWasRead,
\* EncodingIsExact, ListsAndAttemptsAreCurrent and ValidatedIsAsserted; the last is
\* asked of every answer when an attempt has just been admitted.
CallsAreSound ==
    /\ WritesOverWhatWasRead
    /\ EncodingIsExact
    /\ ListsAndAttemptsAreCurrent
    /\ returned.call = "admit" /\ returned.status = "Ok" /\ Undisturbed =>
          \A t \in Version1, answer \in Answers, mask \in Masks, context \in Contexts :
              ValidatedIsAsserted(threads[t].attempt[1], answer, mask, context)
=============================================================================
