------------------------------- MODULE Gateway -------------------------------
(***************************************************************************)
(* hns-gateway: walking the direct-first transport plan of one policy      *)
(* snapshot, one attempt at a time, for several gateways of one process.   *)
(*                                                                         *)
(* Attempt tokens are Copy, so a caller may present any token it was ever  *)
(* given to any gateway, any number of times.  Response bytes are reduced  *)
(* to whether their length is admissible; an identity is a name, absent,   *)
(* or BadIdentity (empty or too long).                                     *)
(***************************************************************************)
EXTENDS ResolutionPolicy

CONSTANTS MaxGateways,        \* gateways a process may create
          AttemptTimeout,     \* GatewayLimits.attempt_timeout_seconds
          MaxNow,             \* bound on the clock of the model
          MaxTime,            \* u64::MAX of a time
          UserConfig,         \* configurations a user may switch to
          Failure,            \* failures adapters report
          Response,           \* responses adapters report
          Absent, BadIdentity

ASSUME TimeoutAssumption ==
    /\ AttemptTimeout \in Nat \ {0}
    /\ MaxNow \in Nat
    /\ MaxTime \in Nat
ASSUME MaxGatewaysAssumption == MaxGateways \in Nat

VARIABLES next_gateway_id,    \* NEXT_GATEWAY_ID
          gateway,            \* the gateways created, by instance id
          attempts,           \* every token handed out
          selections,         \* every GatewaySelection returned
          tried,              \* history: failures of each gateway, in order
          now

history == <<attempts, selections, tried>>
vars == <<policy, next_gateway_id, gateway, history, now>>

-----------------------------------------------------------------------------
TransportFailure ==
    {"Unreachable", "Timeout", "Unsupported", "Truncated", "Malformed",
     "AuthenticationFailed", "Cancelled"}

\* Mutant of PermitsFallbackFrom: a truncated answer is retried on any path.
PermitsFallbackFromTruncated(failure, transport) ==
    failure \in {"Unreachable", "Timeout", "Unsupported", "Truncated"}

PermitsFallbackFrom(failure, transport) ==
    \/ failure \in {"Unreachable", "Timeout", "Unsupported"}
    \/ failure = "Truncated" /\ transport = "DirectAuthoritativeUdp"

ASSUME FailureAssumption == Failure \subseteq TransportFailure

\* Gateway::validate_response
ValidResponse(response, transport) ==
    LET i == response.identities
    IN  /\ response.sized
        /\ BadIdentity \notin {i.peer, i.proxy, i.target}
        /\ CASE transport = "HandshakeP2pOdoh" ->
                    /\ i.proxy # Absent
                    /\ i.target # Absent
                    /\ i.peer = Absent
                    /\ i.proxy # i.target
             [] transport = "HandshakeP2pDnsRelay" ->
                    i.peer # Absent /\ i.proxy = Absent /\ i.target = Absent
             [] transport \in {"DirectAuthoritativeUdp",
                               "DirectAuthoritativeTcp",
                               "AuthenticatedAuthoritativeDoh",
                               "UserConfiguredRecursiveHnsDoh"} ->
                    {i.peer, i.proxy, i.target} = {Absent}
             [] OTHER -> FALSE

NoAttempt == [candidate_index |-> 0]

Created == 1..(next_gateway_id - 1)

Plan(id) == TransportPlan(gateway[id].policy.config)

-----------------------------------------------------------------------------
Init ==
    /\ \E config \in UserConfig :
            policy = [generation |-> 1, config |-> config]
    /\ next_gateway_id = 1
    /\ gateway = <<>>
    /\ attempts = {}
    /\ selections = {}
    /\ tried = <<>>
    /\ now = 0

\* Gateway::new
New ==
    /\ next_gateway_id <= MaxGateways
    /\ next_gateway_id' = next_gateway_id + 1
    /\ gateway' = Append(gateway, [policy |-> policy, next_candidate |-> 1,
                                   active |-> NoAttempt, terminal |-> FALSE,
                                   odoh_attempted |-> FALSE])
    /\ tried' = Append(tried, <<>>)
    /\ UNCHANGED <<policy, attempts, selections, now>>

\* Gateway::revoke, by the host or by ensure_current_policy.
Revoke(id) ==
    /\ id \in Created
    /\ gateway' = [gateway EXCEPT ![id].active = NoAttempt,
                                  ![id].terminal = TRUE]
    /\ UNCHANGED <<policy, next_gateway_id, history, now>>

\* Mutant of CurrentPolicy: the generation is not compared.
CurrentPolicyByConfig(id) == gateway[id].policy.config = policy.config

CurrentPolicy(id) == gateway[id].policy = policy

\* Any call under another policy revokes the gateway and does nothing else.
StalePolicy(id) ==
    /\ id \in Created
    /\ ~CurrentPolicy(id)
    /\ Revoke(id)

\* The sequence of an attempt is its candidate index here: next_attempt
\* advances both together, from 0.
NextAttempt(id) ==
    /\ id \in Created
    /\ CurrentPolicy(id)
    /\ ~gateway[id].terminal
    /\ gateway[id].active = NoAttempt
    /\ gateway[id].next_candidate <= Len(Plan(id))
    /\ now + AttemptTimeout <= MaxTime
    /\ LET candidate == gateway[id].next_candidate
           transport == Plan(id)[candidate]
           attempt == [instance_id |-> id,
                       policy_generation |-> gateway[id].policy.generation,
                       candidate_index |-> candidate,
                       transport |-> transport,
                       deadline |-> now + AttemptTimeout]
       IN  /\ gateway' = [gateway EXCEPT
                            ![id].next_candidate = candidate + 1,
                            ![id].active = attempt,
                            ![id].odoh_attempted =
                                @ \/ transport = "HandshakeP2pOdoh"]
           /\ attempts' = attempts \cup {attempt}
    /\ UNCHANGED <<policy, next_gateway_id, selections, tried, now>>

RetryOrUnavailable(id, failure, transport) ==
    /\ gateway' = [gateway EXCEPT
                    ![id].active = NoAttempt,
                    ![id].terminal =
                        \/ ~PermitsFallbackFrom(failure, transport)
                        \/ gateway[id].next_candidate > Len(Plan(id))]
    /\ tried' = [tried EXCEPT ![id] = Append(@, failure)]
    /\ UNCHANGED selections

\* The presented token is the active one.
Matches(id, attempt) == gateway[id].active = attempt

CompleteFailed(id, attempt, failure) ==
    /\ id \in Created
    /\ CurrentPolicy(id)
    /\ Matches(id, attempt)
    /\ RetryOrUnavailable(id, IF now > attempt.deadline
                              THEN "Timeout" ELSE failure, attempt.transport)
    /\ UNCHANGED <<policy, next_gateway_id, attempts, now>>

DirectRelayFallback(id, transport) ==
    /\ transport = "HandshakeP2pDnsRelay"
    /\ gateway[id].odoh_attempted

\* `in_force' is history: the generation of the policy at this moment.
Select(id, attempt) ==
    /\ gateway' = [gateway EXCEPT ![id].active = NoAttempt,
                                  ![id].terminal = TRUE]
    /\ selections' = selections \cup
            {[instance_id |-> id,
              policy_generation |-> gateway[id].policy.generation,
              transport |-> attempt.transport,
              at |-> now,
              in_force |-> policy.generation,
              direct_relay_fallback |->
                    DirectRelayFallback(id, attempt.transport)]}

\* A response: late, inadmissible (the gateway is then terminal), or selected.
CompleteResponse(id, attempt, response) ==
    /\ id \in Created
    /\ CurrentPolicy(id)
    /\ Matches(id, attempt)
    /\ \/ /\ now > attempt.deadline
          /\ RetryOrUnavailable(id, "Timeout", attempt.transport)
       \/ /\ now <= attempt.deadline
          /\ ~ValidResponse(response, attempt.transport)
          /\ gateway' = [gateway EXCEPT ![id].active = NoAttempt,
                                        ![id].terminal = TRUE]
          /\ UNCHANGED <<selections, tried>>
       \/ /\ now <= attempt.deadline
          /\ ValidResponse(response, attempt.transport)
          /\ Select(id, attempt)
          /\ UNCHANGED tried
    /\ UNCHANGED <<policy, next_gateway_id, attempts, now>>

Complete(id, attempt) ==
    \/ \E failure \in Failure : CompleteFailed(id, attempt, failure)
    \/ \E response \in Response : CompleteResponse(id, attempt, response)

ChangePolicy(config) ==
    /\ config # policy.config
    /\ Replace(policy.generation, config)
    /\ UNCHANGED <<next_gateway_id, gateway, history, now>>

Tick ==
    /\ now < MaxNow
    /\ now' = now + 1
    /\ UNCHANGED <<policy, next_gateway_id, gateway, history>>

Next ==
    \/ New
    \/ \E id \in 1..MaxGateways :
        \/ Revoke(id)
        \/ StalePolicy(id)
        \/ NextAttempt(id)
        \/ \E attempt \in attempts : Complete(id, attempt)
    \/ \E config \in UserConfig : ChangePolicy(config)
    \/ Tick

\* A driver goes on calling its gateway: it asks for the next attempt and
\* reports an outcome for the active one, if only the deadline it waited for.
Drive(id) ==
    \/ StalePolicy(id)
    \/ NextAttempt(id)
    \/ \E attempt \in attempts : Complete(id, attempt)

Fairness ==
    \A id \in 1..MaxGateways : WF_vars(Drive(id) /\ gateway' # gateway)

Spec == Init /\ [][Next]_vars /\ Fairness

-----------------------------------------------------------------------------
(* Properties.                                                             *)

Attempt ==
    [instance_id : 1..MaxGateways, policy_generation : 1..MaxGeneration,
     candidate_index : Nat \ {0}, transport : ResolutionTransport,
     deadline : Nat]

GatewayState ==
    [policy : PolicySnapshot(UserConfig), next_candidate : Nat \ {0},
     active : Attempt \cup {NoAttempt}, terminal : BOOLEAN,
     odoh_attempted : BOOLEAN]

\* Type invariant.
TypeOK ==
    /\ policy \in PolicySnapshot(UserConfig)
    /\ next_gateway_id \in 1..(MaxGateways + 1)
    /\ now \in Nat
    /\ attempts \subseteq Attempt
    /\ gateway \in Seq(GatewayState)
    /\ tried \in Seq(Seq(TransportFailure))
    /\ Len(gateway) = next_gateway_id - 1
    /\ Len(tried) = next_gateway_id - 1

FollowsPlan(s, failures, plan) ==
    /\ Len(failures) < Len(plan)
    /\ plan[Len(failures) + 1] = s.transport
    /\ \A k \in 1..Len(failures) :
        \/ failures[k] \in {"Unreachable", "Timeout", "Unsupported"}
        \/ failures[k] = "Truncated" /\ k = 1
    /\ s.direct_relay_fallback <=>
        /\ s.transport = "HandshakeP2pDnsRelay"
        /\ \E k \in 1..Len(failures) : plan[k] = "HandshakeP2pOdoh"

\* No downgrade: a gateway answers from a transport only after every earlier
\* candidate of its policy's plan was tried and failed in a way that lets the
\* next one be tried (an authentication or protocol failure on one path is
\* never papered over by another: module header of hns-gateway), and it flags
\* the answer exactly when a relay gave it after ODoH had been tried.
NoDowngrade ==
    \A s \in selections :
        FollowsPlan(s, tried[s.instance_id], Plan(s.instance_id))

\* A gateway answers once, for an attempt it issued itself, before that
\* attempt's deadline and while the policy it was created under is in force,
\* whatever tokens are presented to it and also when a later policy has gone
\* back to the same configuration.
SelectionIsSound ==
    \A s \in selections :
        /\ \A t \in selections : t.instance_id = s.instance_id => t = s
        /\ gateway[s.instance_id].terminal
        /\ s.in_force = gateway[s.instance_id].policy.generation
        /\ \E attempt \in attempts :
            /\ attempt.instance_id = s.instance_id
            /\ attempt.candidate_index = Len(tried[s.instance_id]) + 1
            /\ s.at <= attempt.deadline

\* Every gateway that is driven ends: selected, unavailable, failed closed or
\* revoked.  A gateway that has ended stays so, and only so many are created.
AllEnded == \A id \in Created : gateway[id].terminal
EveryGatewayEnds == []<>AllEnded

=============================================================================
