--------------------------- MODULE Gateway_proofs ---------------------------
(***************************************************************************)
(* hns-gateway for every set of configurations, every number of gateways   *)
(* and every timeout.                                                      *)
(*                                                                         *)
(* A gateway's cursor, its active attempt and the failures it has seen say *)
(* the same thing three times: how far the plan has been walked (Walked).  *)
(* Only the gateway that has an active attempt moves on, so what was true  *)
(* of a gateway when it answered stays true.                               *)
(***************************************************************************)
EXTENDS Gateway, SequenceTheorems, TLAPS

-----------------------------------------------------------------------------
(* The inductive invariant.                                                *)

\* What gateway id, in state g after these failures, knows of its walk.
Walked(id, g, failures, plan) ==
    /\ g.next_candidate <= Len(plan) + 1
    /\ g.active # NoAttempt =>
        /\ ~g.terminal
        /\ g.next_candidate >= 2
        /\ g.active.instance_id = id
        /\ g.active.candidate_index = g.next_candidate - 1
        /\ g.active.transport = plan[g.next_candidate - 1]
        /\ Len(failures) = g.next_candidate - 2
    /\ g.active = NoAttempt /\ ~g.terminal =>
            Len(failures) = g.next_candidate - 1
    /\ ~g.terminal => \A k \in 1..Len(failures) :
                            PermitsFallbackFrom(failures[k], plan[k])
    /\ g.odoh_attempted <=>
            \E k \in 1..(g.next_candidate - 1) : plan[k] = "HandshakeP2pOdoh"

Walks ==
    \A id \in Created :
        /\ Walked(id, gateway[id], tried[id], Plan(id))
        /\ gateway[id].active \in attempts \cup {NoAttempt}

\* The attempt an answer came from.
Answers(s, failures) ==
    \E attempt \in attempts :
        /\ attempt.instance_id = s.instance_id
        /\ attempt.candidate_index = Len(failures) + 1
        /\ s.at <= attempt.deadline

Answered(s) ==
    /\ s.instance_id \in Created
    /\ gateway[s.instance_id].terminal
    /\ s.in_force = gateway[s.instance_id].policy.generation
    /\ Answers(s, tried[s.instance_id])
    /\ FollowsPlan(s, tried[s.instance_id], Plan(s.instance_id))

Once ==
    \A s, t \in selections : t.instance_id = s.instance_id => t = s

IInv == TypeOK /\ Walks /\ Once /\ \A s \in selections : Answered(s)

-----------------------------------------------------------------------------
(* Plans.                                                                  *)

\* What the proofs need of a plan: UDP is its first candidate and no other.
UdpFirst(plan) ==
    /\ plan \in Seq(ResolutionTransport)
    /\ Len(plan) >= 1
    /\ \A k \in 1..Len(plan) : plan[k] = "DirectAuthoritativeUdp" => k = 1

\* A candidate for_policy pushes is another transport.
LEMMA PushedKeepsUdpFirst ==
    ASSUME NEW plan, UdpFirst(plan), NEW condition,
           NEW transport \in ResolutionTransport \ {"DirectAuthoritativeUdp"}
    PROVE  UdpFirst(plan \o Pushed(condition, transport))
<1> USE DEF UdpFirst
<1>1. CASE Pushed(condition, transport) = <<>>
  BY <1>1
<1>2. CASE Pushed(condition, transport) = <<transport>>
  BY <1>2
<1> QED
  BY <1>1, <1>2 DEF Pushed

\* Every configuration's plan begins with UDP.
LEMMA PlanIsUdpFirst == \A config : UdpFirst(TransportPlan(config))
<1> TAKE config
<1> DEFINE p1 == <<"DirectAuthoritativeUdp", "DirectAuthoritativeTcp">>
           p2 == p1 \o Pushed(config.authenticated_authoritative_doh,
                              "AuthenticatedAuthoritativeDoh")
           p3 == p2 \o Pushed(config.oblivious_dns # "Disabled",
                              "HandshakeP2pOdoh")
           p4 == p3 \o Pushed(RelayAllowed(config), "HandshakeP2pDnsRelay")
           p5 == p4 \o Pushed(config.user_configured_recursive_hns_doh,
                              "UserConfiguredRecursiveHnsDoh")
<1>1. UdpFirst(p1)
  BY DEF UdpFirst, ResolutionTransport
<1>t. {"AuthenticatedAuthoritativeDoh", "HandshakeP2pOdoh",
       "HandshakeP2pDnsRelay", "UserConfiguredRecursiveHnsDoh"}
      \subseteq ResolutionTransport \ {"DirectAuthoritativeUdp"}
  BY DEF ResolutionTransport
<1> HIDE DEF p1
<1>2. UdpFirst(p2)
  BY <1>1, <1>t, PushedKeepsUdpFirst
<1> HIDE DEF p2
<1>3. UdpFirst(p3)
  BY <1>2, <1>t, PushedKeepsUdpFirst
<1> HIDE DEF p3
<1>4. UdpFirst(p4)
  BY <1>3, <1>t, PushedKeepsUdpFirst
<1> HIDE DEF p4
<1>5. UdpFirst(p5)
  BY <1>4, <1>t, PushedKeepsUdpFirst
<1>6. TransportPlan(config) = p5
  BY Zenon DEF TransportPlan, p1, p2, p3, p4
<1> QED
  BY <1>5, <1>6, Zenon

-----------------------------------------------------------------------------
(* One gateway.                                                            *)

\* A gateway that ends keeps its walk.
LEMMA EndedWalk ==
    ASSUME NEW id, NEW g, NEW h, NEW failures, NEW plan,
           Walked(id, g, failures, plan),
           h.next_candidate = g.next_candidate, h.active = NoAttempt,
           h.terminal = TRUE, h.odoh_attempted = g.odoh_attempted
    PROVE  Walked(id, h, failures, plan)
BY Zenon DEF Walked

\* The failure of an active attempt is the next of its walk.
LEMMA RetriedWalk ==
    ASSUME NEW id, NEW g \in GatewayState, NEW h \in GatewayState,
           NEW failures \in Seq(TransportFailure),
           NEW plan \in Seq(ResolutionTransport),
           NEW failure \in TransportFailure,
           Walked(id, g, failures, plan), g.active # NoAttempt,
           h.next_candidate = g.next_candidate, h.active = NoAttempt,
           h.odoh_attempted = g.odoh_attempted,
           ~h.terminal => PermitsFallbackFrom(failure, g.active.transport)
    PROVE  Walked(id, h, Append(failures, failure), plan)
<1> DEFINE longer == Append(failures, failure)
<1>1. /\ g.next_candidate \in Nat \ {0} /\ g.next_candidate >= 2
      /\ g.next_candidate <= Len(plan) + 1
      /\ Len(failures) = g.next_candidate - 2
      /\ g.active.transport = plan[g.next_candidate - 1]
      /\ ~g.terminal
  BY DEF Walked, GatewayState
<1>2. /\ Len(longer) = g.next_candidate - 1
      /\ longer[g.next_candidate - 1] = failure
      /\ \A k \in 1..Len(failures) : longer[k] = failures[k]
  BY <1>1
<1> HIDE DEF longer
<1>3. \A k \in 1..Len(failures) : PermitsFallbackFrom(failures[k], plan[k])
  BY <1>1, Zenon DEF Walked
<1>4. ASSUME ~h.terminal, NEW k \in 1..Len(longer)
      PROVE  PermitsFallbackFrom(longer[k], plan[k])
  <2>1. CASE k = g.next_candidate - 1
    BY <1>1, <1>2, <1>4, <2>1
  <2>2. CASE k # g.next_candidate - 1
    <3>1. k \in 1..Len(failures)
      BY <1>1, <1>2, <2>2
    <3> QED
      BY <1>2, <1>3, <3>1
  <2> QED
    BY <2>1, <2>2
<1>5. h.odoh_attempted <=>
        \E k \in 1..(h.next_candidate - 1) : plan[k] = "HandshakeP2pOdoh"
  BY Zenon DEF Walked
<1> QED
  BY <1>1, <1>2, <1>4, <1>5, Zenon DEF Walked, longer

\* The next attempt is for the candidate at the cursor, which moves on.
LEMMA IssuedWalk ==
    ASSUME NEW id, NEW g \in GatewayState, NEW h \in GatewayState,
           NEW failures \in Seq(TransportFailure),
           NEW plan \in Seq(ResolutionTransport),
           Walked(id, g, failures, plan),
           g.active = NoAttempt, ~g.terminal, ~h.terminal,
           g.next_candidate <= Len(plan),
           h.next_candidate = g.next_candidate + 1,
           h.active.instance_id = id,
           h.active.candidate_index = g.next_candidate,
           h.active.transport = plan[g.next_candidate],
           h.odoh_attempted =
                (g.odoh_attempted
                    \/ plan[g.next_candidate] = "HandshakeP2pOdoh")
    PROVE  Walked(id, h, failures, plan)
<1> DEFINE n == g.next_candidate
<1>1. n \in Nat \ {0} /\ n <= Len(plan) /\ Len(failures) = n - 1
  BY DEF Walked, GatewayState
<1>2. \A k \in 1..Len(failures) : PermitsFallbackFrom(failures[k], plan[k])
  BY Zenon DEF Walked
<1>3. g.odoh_attempted <=> \E k \in 1..(n - 1) : plan[k] = "HandshakeP2pOdoh"
  BY Zenon DEF Walked
<1>4. (\E k \in 1..n : plan[k] = "HandshakeP2pOdoh") <=>
        \/ \E k \in 1..(n - 1) : plan[k] = "HandshakeP2pOdoh"
        \/ plan[n] = "HandshakeP2pOdoh"
  BY <1>1
<1>5. h.odoh_attempted <=> \E k \in 1..n : plan[k] = "HandshakeP2pOdoh"
  BY <1>3, <1>4, Zenon
<1>6. h.next_candidate - 1 = n /\ h.next_candidate - 2 = n - 1
      /\ h.next_candidate >= 2 /\ h.next_candidate <= Len(plan) + 1
  BY <1>1
<1>7. h.active # NoAttempt
  BY <1>1 DEF NoAttempt
<1> HIDE DEF n
<1> QED
  BY <1>1, <1>2, <1>5, <1>6, <1>7, Zenon DEF Walked, n

\* An answer to the active attempt follows the plan.
LEMMA SelectedFollowsPlan ==
    ASSUME NEW id, NEW g \in GatewayState,
           NEW failures \in Seq(TransportFailure), NEW plan, UdpFirst(plan),
           Walked(id, g, failures, plan), g.active # NoAttempt, NEW s,
           s.transport = g.active.transport,
           s.direct_relay_fallback =
                (s.transport = "HandshakeP2pDnsRelay" /\ g.odoh_attempted)
    PROVE  FollowsPlan(s, failures, plan)
<1> DEFINE n == g.next_candidate - 1
<1>1. /\ n \in Nat /\ n >= 1 /\ n <= Len(plan) /\ Len(failures) = n - 1
      /\ Len(failures) + 1 = n /\ Len(failures) < Len(plan)
      /\ s.transport = plan[n] /\ ~g.terminal
  BY DEF Walked, GatewayState, UdpFirst
<1>2. ASSUME NEW k \in 1..Len(failures)
      PROVE  \/ failures[k] \in {"Unreachable", "Timeout", "Unsupported"}
             \/ failures[k] = "Truncated" /\ k = 1
  <2>1. PermitsFallbackFrom(failures[k], plan[k])
    BY <1>1, Zenon DEF Walked
  <2>2. plan[k] = "DirectAuthoritativeUdp" => k = 1
    BY <1>1 DEF UdpFirst
  <2> QED
    BY <2>1, <2>2, Zenon DEF PermitsFallbackFrom
<1>3. g.odoh_attempted <=> \E k \in 1..n : plan[k] = "HandshakeP2pOdoh"
  BY Zenon DEF Walked
<1>4. ASSUME s.transport = "HandshakeP2pDnsRelay"
      PROVE  (\E k \in 1..n : plan[k] = "HandshakeP2pOdoh") <=>
             \E k \in 1..Len(failures) : plan[k] = "HandshakeP2pOdoh"
  <2>1. plan[n] # "HandshakeP2pOdoh"
    BY <1>1, <1>4
  <2> HIDE DEF n
  <2>2. \A k : k \in 1..n <=> k \in 1..Len(failures) \/ k = n
    BY <1>1
  <2> QED
    BY <2>1, <2>2, Zenon
<1>5. s.direct_relay_fallback <=>
        /\ s.transport = "HandshakeP2pDnsRelay"
        /\ \E k \in 1..Len(failures) : plan[k] = "HandshakeP2pOdoh"
  BY <1>3, <1>4, Zenon
<1> HIDE DEF n
<1> QED
  BY <1>1, <1>2, <1>5, Zenon DEF FollowsPlan

-----------------------------------------------------------------------------
(* Steps.                                                                  *)

\* What the steps of a gateway leave alone: the others, and its own policy.
OnlyGateway(id) ==
    /\ id \in Created
    /\ UNCHANGED <<policy, next_gateway_id, now>>
    /\ \A j \in Created \ {id} : /\ gateway'[j] = gateway[j]
                                 /\ tried'[j] = tried[j]
    /\ gateway'[id].policy = gateway[id].policy

\* A step of one gateway keeps the walks of all.
LEMMA OneWalk ==
    ASSUME TypeOK, Walks, NEW id, OnlyGateway(id), attempts \subseteq attempts',
           Walked(id, gateway'[id], tried'[id], Plan(id)),
           gateway'[id].active \in attempts' \cup {NoAttempt}
    PROVE  Walks'
<1> SUFFICES ASSUME NEW j \in Created
             PROVE  /\ Walked(j, gateway'[j], tried'[j], Plan(j)')
                    /\ gateway'[j].active \in attempts' \cup {NoAttempt}
  BY Zenon DEF Walks, Walked, OnlyGateway, Created
<1>1. Plan(j)' = Plan(j)
  BY Zenon DEF Plan, OnlyGateway
<1>2. CASE j = id
  BY <1>1, <1>2, Zenon
<1>3. CASE j # id
  BY <1>1, <1>3, Zenon DEF Walks, OnlyGateway
<1> QED
  BY <1>2, <1>3, Zenon

\* A step of a gateway that has not answered keeps the answers of the others;
\* a gateway that has answered may only be ended again.
LEMMA AnswersKept ==
    ASSUME NEW id, OnlyGateway(id), attempts \subseteq attempts',
           \/ ~gateway[id].terminal
           \/ gateway'[id].terminal /\ tried'[id] = tried[id],
           NEW s, Answered(s)
    PROVE  Answered(s)'
<1> DEFINE i == s.instance_id
<1>1. i \in Created /\ gateway[i].terminal
  BY Zenon DEF Answered
<1>2. /\ gateway'[i].terminal /\ tried'[i] = tried[i]
      /\ gateway'[i].policy = gateway[i].policy
  BY <1>1, Zenon DEF OnlyGateway
<1>3. Plan(i)' = Plan(i)
  BY <1>2, Zenon DEF Plan
<1>4. Answers(s, tried[i])'
  BY <1>2, Zenon DEF Answered, Answers
<1>5. FollowsPlan(s, tried[i], Plan(i))'
  BY <1>2, <1>3, Zenon DEF Answered, FollowsPlan
<1>6. (i \in Created)' /\ s.in_force = gateway'[i].policy.generation
  BY <1>1, <1>2, Zenon DEF OnlyGateway, Created, Answered
<1> QED
  BY <1>2, <1>4, <1>5, <1>6, Zenon DEF Answered

\* A step that leaves gateways, tokens and answers alone keeps the invariant.
LEMMA FrameStep ==
    ASSUME IInv, TypeOK', UNCHANGED <<next_gateway_id, gateway, history>>
    PROVE  IInv'
<1>u. /\ next_gateway_id' = next_gateway_id /\ gateway' = gateway
      /\ attempts' = attempts /\ selections' = selections /\ tried' = tried
  BY DEF history
<1>1. Walks'
  BY <1>u DEF IInv, Walks, Walked, Plan, Created
<1>2. Once'
  BY <1>u DEF IInv, Once
<1>3. \A s \in selections' : Answered(s)'
  BY <1>u DEF IInv, Answered, Answers, FollowsPlan, Plan, Created
<1> QED
  BY <1>1, <1>2, <1>3, Zenon DEF IInv

Closes(gateways, next, id, b) ==
    next = [gateways EXCEPT ![id].active = NoAttempt, ![id].terminal = b]

\* What every outcome of an attempt does to its gateway.
LEMMA ClosedGateway ==
    ASSUME NEW gateways \in Seq(GatewayState), NEW id \in 1..Len(gateways),
           NEW b \in BOOLEAN, NEW next, Closes(gateways, next, id, b)
    PROVE  /\ next \in Seq(GatewayState) /\ Len(next) = Len(gateways)
           /\ \A j \in 1..Len(gateways) : j # id => next[j] = gateways[j]
           /\ next[id].next_candidate = gateways[id].next_candidate
           /\ next[id].active = NoAttempt /\ next[id].terminal = b
           /\ next[id].odoh_attempted = gateways[id].odoh_attempted
           /\ next[id].policy = gateways[id].policy
<1> DEFINE g == gateways[id]
           h == [g EXCEPT !.active = NoAttempt, !.terminal = b]
<1>1. g \in GatewayState
  OBVIOUS
<1>2. /\ h \in GatewayState
      /\ h.next_candidate = g.next_candidate
      /\ h.active = NoAttempt /\ h.terminal = b
      /\ h.odoh_attempted = g.odoh_attempted
      /\ h.policy = g.policy
  BY <1>1 DEF GatewayState
<1>3. next = [gateways EXCEPT ![id] = h]
  BY DEF Closes
<1> HIDE DEF g, h
<1>4. /\ next \in Seq(GatewayState) /\ Len(next) = Len(gateways)
      /\ \A j \in 1..Len(gateways) : j # id => next[j] = gateways[j]
      /\ next[id] = h
  <2>1. /\ [gateways EXCEPT ![id] = h] \in Seq(GatewayState)
        /\ Len([gateways EXCEPT ![id] = h]) = Len(gateways)
        /\ \A j \in 1..Len(gateways) :
              [gateways EXCEPT ![id] = h][j] = IF j = id THEN h ELSE gateways[j]
    BY <1>2, ExceptSeq
  <2> QED
    BY <1>3, <2>1, Zenon
<1> QED
  BY <1>2, <1>4 DEF g

\* Ending a gateway keeps the invariant.
LEMMA EndStep ==
    ASSUME IInv, NEW id \in Created, Closes(gateway, gateway', id, TRUE),
           UNCHANGED <<policy, next_gateway_id, attempts, tried, now>>
    PROVE  /\ TypeOK' /\ Walks' /\ OnlyGateway(id)
           /\ gateway'[id].terminal
           /\ \A s : Answered(s) => Answered(s)'
<1>1. id \in 1..Len(gateway) /\ gateway[id] \in GatewayState
  BY DEF IInv, TypeOK, Created
<1>2. /\ gateway' \in Seq(GatewayState) /\ Len(gateway') = Len(gateway)
      /\ \A j \in 1..Len(gateway) : j # id => gateway'[j] = gateway[j]
      /\ gateway'[id].next_candidate = gateway[id].next_candidate
      /\ gateway'[id].active = NoAttempt /\ gateway'[id].terminal = TRUE
      /\ gateway'[id].odoh_attempted = gateway[id].odoh_attempted
      /\ gateway'[id].policy = gateway[id].policy
  <2>1. PICK b \in BOOLEAN : Closes(gateway, gateway', id, b)
    BY Zenon
  <2>2. gateway \in Seq(GatewayState)
    BY DEF IInv, TypeOK
  <2>3. /\ gateway' \in Seq(GatewayState) /\ Len(gateway') = Len(gateway)
        /\ \A j \in 1..Len(gateway) : j # id => gateway'[j] = gateway[j]
        /\ gateway'[id].next_candidate = gateway[id].next_candidate
        /\ gateway'[id].active = NoAttempt
        /\ gateway'[id].odoh_attempted = gateway[id].odoh_attempted
        /\ gateway'[id].policy = gateway[id].policy
    BY <1>1, <2>1, <2>2, ClosedGateway
  <2>4. gateway'[id].terminal = TRUE
    BY <1>1 DEF IInv, TypeOK, GatewayState, Closes
  <2> QED
    BY <2>3, <2>4, Zenon
<1>3. TypeOK'
  BY <1>2 DEF IInv, TypeOK
<1>4. OnlyGateway(id)
  BY <1>2 DEF OnlyGateway, Created, IInv, TypeOK
<1>5. Walked(id, gateway'[id], tried'[id], Plan(id))
  <2>1. Walked(id, gateway[id], tried[id], Plan(id)) /\ tried' = tried
    BY Zenon DEF IInv, Walks
  <2>2. Walked(id, gateway'[id], tried[id], Plan(id))
    BY <1>2, <2>1, EndedWalk, Zenon
  <2> QED
    BY <2>1, <2>2, Zenon
<1>6. Walks'
  BY <1>2, <1>4, <1>5, OneWalk, Zenon DEF IInv
<1>7. \A s : Answered(s) => Answered(s)'
  BY <1>2, <1>4, AnswersKept, Zenon
<1> QED
  BY <1>2, <1>3, <1>4, <1>6, <1>7, Zenon

\* A failure of the active attempt keeps the invariant.
LEMMA RetryStep ==
    ASSUME IInv, NEW id \in Created, NEW failure \in TransportFailure,
           gateway[id].active # NoAttempt,
           RetryOrUnavailable(id, failure, gateway[id].active.transport),
           UNCHANGED <<policy, next_gateway_id, attempts, now>>
    PROVE  IInv'
<1> DEFINE g == gateway[id]
           h == gateway'[id]
<1>1. /\ id \in 1..Len(gateway) /\ id \in 1..Len(tried)
      /\ g \in GatewayState /\ tried[id] \in Seq(TransportFailure)
  BY DEF IInv, TypeOK, Created
<1>2. /\ gateway' \in Seq(GatewayState) /\ Len(gateway') = Len(gateway)
      /\ \A j \in 1..Len(gateway) : j # id => gateway'[j] = gateway[j]
      /\ h.next_candidate = g.next_candidate
      /\ h.active = NoAttempt
      /\ h.odoh_attempted = g.odoh_attempted
      /\ h.policy = g.policy
  <2>1. PICK b \in BOOLEAN : Closes(gateway, gateway', id, b)
    BY Zenon DEF RetryOrUnavailable, Closes
  <2>2. gateway \in Seq(GatewayState)
    BY DEF IInv, TypeOK
  <2> QED
    BY <1>1, <2>1, <2>2, ClosedGateway
<1>3. ~h.terminal => PermitsFallbackFrom(failure, g.active.transport)
  BY <1>1 DEF RetryOrUnavailable, IInv, TypeOK, GatewayState
<1>4. /\ tried' \in Seq(Seq(TransportFailure)) /\ Len(tried') = Len(tried)
      /\ \A j \in 1..Len(tried) : j # id => tried'[j] = tried[j]
      /\ tried'[id] = Append(tried[id], failure)
  BY <1>1 DEF RetryOrUnavailable, IInv, TypeOK
<1>5. TypeOK'
  BY <1>2, <1>4 DEF IInv, TypeOK
<1>6. OnlyGateway(id)
  BY <1>2, <1>4 DEF OnlyGateway, Created, IInv, TypeOK
<1>7. h \in GatewayState
  BY <1>1, <1>2
<1> HIDE DEF g, h
<1>8. Walked(id, h, tried'[id], Plan(id))
  <2>1. Walked(id, g, tried[id], Plan(id)) /\ g.active # NoAttempt
    BY Zenon DEF IInv, Walks, g
  <2>2. Plan(id) \in Seq(ResolutionTransport)
    BY PlanIsUdpFirst, Zenon DEF Plan, UdpFirst
  <2> QED
    BY <1>1, <1>2, <1>3, <1>4, <1>7, <2>1, <2>2, RetriedWalk
<1>9. Walks'
  BY <1>2, <1>6, <1>8, OneWalk, Zenon DEF IInv, h
<1>10. ~gateway[id].terminal
  BY Zenon DEF IInv, Walks, Walked
<1>11. selections' = selections
  BY Zenon DEF RetryOrUnavailable
<1>12. \A s \in selections' : Answered(s)'
  BY <1>6, <1>10, <1>11, AnswersKept, Zenon DEF IInv
<1> QED
  BY <1>5, <1>9, <1>11, <1>12, Zenon DEF IInv, Once

\* A new gateway has walked nothing.
LEMMA NewStep == IInv /\ New => IInv'
<1> SUFFICES ASSUME IInv, New PROVE IInv'
  OBVIOUS
<1> DEFINE n == next_gateway_id
           g == [policy |-> policy, next_candidate |-> 1,
                 active |-> NoAttempt, terminal |-> FALSE,
                 odoh_attempted |-> FALSE]
<1>1. /\ gateway \in Seq(GatewayState) /\ Len(gateway) = n - 1
      /\ tried \in Seq(Seq(TransportFailure)) /\ Len(tried) = n - 1
      /\ n \in Nat \ {0} /\ n <= MaxGateways
      /\ policy \in PolicySnapshot(UserConfig)
  BY MaxGatewaysAssumption DEF IInv, TypeOK, New
<1>2. g \in GatewayState
  BY <1>1 DEF GatewayState
<1>3. gateway' = Append(gateway, g) /\ tried' = Append(tried, <<>>)
  BY DEF New
<1>4. UNCHANGED <<policy, attempts, selections, now>> /\ n' = n + 1
  BY DEF New
<1>w. Walked(n, g, <<>>, TransportPlan(g.policy.config))
  <2>1. /\ g.next_candidate = 1 /\ g.active = NoAttempt
        /\ g.odoh_attempted = FALSE /\ g.terminal = FALSE
    OBVIOUS
  <2>2. Len(TransportPlan(g.policy.config)) >= 1
    BY PlanIsUdpFirst, Zenon DEF UdpFirst
  <2>3. TransportPlan(g.policy.config) \in Seq(ResolutionTransport)
    BY PlanIsUdpFirst, Zenon DEF UdpFirst
  <2> HIDE DEF g
  <2> QED
    BY <2>1, <2>2, <2>3 DEF Walked
<1> HIDE DEF g
<1>5. /\ gateway' \in Seq(GatewayState) /\ Len(gateway') = n
      /\ \A j \in 1..(n - 1) : gateway'[j] = gateway[j]
      /\ gateway'[n] = g
  BY <1>1, <1>2, <1>3
<1>6. /\ tried' \in Seq(Seq(TransportFailure)) /\ Len(tried') = n
      /\ \A j \in 1..(n - 1) : tried'[j] = tried[j]
      /\ tried'[n] = <<>>
  BY <1>1, <1>3
<1>7. n' \in 1..(MaxGateways + 1)
  BY <1>1, <1>4, MaxGatewaysAssumption
<1>8. TypeOK'
  BY <1>1, <1>4, <1>5, <1>6, <1>7 DEF IInv, TypeOK
<1>9. Created = 1..(n - 1) /\ Created' = 1..n
  BY <1>1, <1>4 DEF Created
<1>10. \A j \in Created : /\ gateway'[j] = gateway[j] /\ tried'[j] = tried[j]
                          /\ Plan(j)' = Plan(j) /\ j \in Created'
  <2> SUFFICES ASSUME NEW j \in Created
               PROVE  /\ gateway'[j] = gateway[j] /\ tried'[j] = tried[j]
                      /\ Plan(j)' = Plan(j) /\ j \in Created'
    BY Zenon DEF Plan, Created
  <2>1. gateway'[j] = gateway[j] /\ tried'[j] = tried[j]
    BY <1>5, <1>6, <1>9
  <2>2. j \in Created'
    BY <1>1, <1>9
  <2> QED
    BY <2>1, <2>2, Zenon DEF Plan
<1>11. Walks'
  <2> SUFFICES ASSUME NEW j \in Created'
               PROVE  /\ Walked(j, gateway'[j], tried'[j], Plan(j)')
                      /\ gateway'[j].active \in attempts' \cup {NoAttempt}
    BY Zenon DEF Walks, Walked
  <2>1. CASE j = n
    <3>1. Plan(j)' = TransportPlan(g.policy.config)
      BY <1>5, <2>1, Zenon DEF Plan
    <3>2. g.active = NoAttempt
      BY DEF g
    <3> QED
      BY <1>w, <1>5, <1>6, <2>1, <3>1, <3>2, Zenon
  <2>2. CASE j # n
    <3>1. j \in Created
      BY <1>1, <1>9, <2>2
    <3> QED
      BY <1>4, <1>10, <3>1 DEF IInv, Walks
  <2> QED
    BY <2>1, <2>2
<1>12. ASSUME NEW s \in selections' PROVE Answered(s)'
  <2>1. Answered(s) /\ s.instance_id \in Created
    BY <1>4, <1>12 DEF IInv, Answered
  <2> DEFINE j == s.instance_id
  <2>2. /\ gateway'[j] = gateway[j] /\ tried'[j] = tried[j]
        /\ Plan(j)' = Plan(j) /\ j \in Created'
    BY <1>10, <2>1, Zenon
  <2>3. Answers(s, tried[j])'
    BY <1>4, <2>1, <2>2 DEF Answered, Answers
  <2>4. FollowsPlan(s, tried[j], Plan(j))'
    BY <2>1, <2>2 DEF Answered, FollowsPlan
  <2>5. gateway'[j].terminal /\ s.in_force = gateway'[j].policy.generation
    BY <2>1, <2>2, Zenon DEF Answered
  <2> QED
    BY <2>2, <2>3, <2>4, <2>5, Zenon DEF Answered
<1> QED
  BY <1>4, <1>8, <1>11, <1>12 DEF IInv, Once

\* An attempt is issued for the candidate at the cursor.
LEMMA NextAttemptStep ==
    ASSUME IInv, NEW id, NextAttempt(id) PROVE IInv'
<1> DEFINE g == gateway[id]
           h == gateway'[id]
           candidate == g.next_candidate
           attempt == [instance_id |-> id,
                       policy_generation |-> g.policy.generation,
                       candidate_index |-> candidate,
                       transport |-> Plan(id)[candidate],
                       deadline |-> now + AttemptTimeout]
           odoh == \/ g.odoh_attempted
                   \/ Plan(id)[candidate] = "HandshakeP2pOdoh"
<1>1. /\ id \in Created /\ id \in 1..Len(gateway) /\ id \in 1..Len(tried)
      /\ id \in 1..MaxGateways
      /\ g \in GatewayState /\ tried[id] \in Seq(TransportFailure)
      /\ gateway \in Seq(GatewayState)
  BY MaxGatewaysAssumption DEF IInv, TypeOK, Created, NextAttempt
<1>2. /\ g.active = NoAttempt /\ ~g.terminal
      /\ candidate \in Nat \ {0} /\ candidate <= Len(Plan(id))
  BY <1>1 DEF NextAttempt, GatewayState
<1>3. Plan(id) \in Seq(ResolutionTransport)
  BY PlanIsUdpFirst, Zenon DEF Plan, UdpFirst
<1>4. attempt \in Attempt
  <2>1. g.policy.generation \in 1..MaxGeneration
    BY <1>1 DEF GatewayState, PolicySnapshot
  <2>2. Plan(id)[candidate] \in ResolutionTransport
    BY <1>2, <1>3
  <2>3. now + AttemptTimeout \in Nat
    BY TimeoutAssumption DEF IInv, TypeOK
  <2> QED
    BY <1>1, <1>2, <2>1, <2>2, <2>3 DEF Attempt
<1>b. PICK b \in BOOLEAN : b = odoh
  BY Zenon
<1>i. PICK issued : issued = [g EXCEPT !.next_candidate = candidate + 1,
                                       !.active = attempt,
                                       !.odoh_attempted = b]
  BY Zenon
<1>5. gateway' = [gateway EXCEPT ![id] = issued]
      /\ attempts' = attempts \cup {attempt}
  BY <1>b, <1>i DEF NextAttempt
<1>6. UNCHANGED <<policy, next_gateway_id, selections, tried, now>>
  BY DEF NextAttempt
<1>a. /\ attempt.instance_id = id /\ attempt.candidate_index = candidate
      /\ attempt.transport = Plan(id)[candidate]
  OBVIOUS
<1> HIDE DEF attempt, odoh
<1>7. /\ issued \in GatewayState
      /\ issued.next_candidate = candidate + 1
      /\ issued.active = attempt
      /\ issued.terminal = g.terminal
      /\ issued.policy = g.policy
      /\ issued.odoh_attempted = b
  <2>1. g \in GatewayState /\ candidate + 1 \in Nat \ {0}
    BY <1>1, <1>2
  <2> HIDE DEF g, candidate
  <2> QED
    BY <1>4, <1>i, <2>1 DEF GatewayState
<1>8. /\ gateway' \in Seq(GatewayState) /\ Len(gateway') = Len(gateway)
      /\ \A j \in 1..Len(gateway) : j # id => gateway'[j] = gateway[j]
      /\ gateway'[id] = issued
  BY <1>1, <1>5, <1>7, ExceptSeq
<1>9. TypeOK'
  BY <1>4, <1>5, <1>6, <1>8 DEF IInv, TypeOK
<1>10. OnlyGateway(id)
  BY <1>1, <1>6, <1>7, <1>8 DEF OnlyGateway, Created, IInv, TypeOK
<1> HIDE DEF g, h, candidate
<1>11. Walked(id, issued, tried[id], Plan(id))
  <2>1. Walked(id, g, tried[id], Plan(id))
    BY <1>1, Zenon DEF IInv, Walks, g
  <2> QED
    BY <1>1, <1>2, <1>3, <1>7, <1>a, <1>b, <2>1, IssuedWalk DEF candidate, odoh
<1>12. Walks'
  <2>1. Walked(id, gateway'[id], tried'[id], Plan(id))
    BY <1>6, <1>8, <1>11, Zenon
  <2>2. /\ gateway'[id].active \in attempts' \cup {NoAttempt}
        /\ attempts \subseteq attempts'
    BY <1>5, <1>7, <1>8
  <2> QED
    BY <1>10, <2>1, <2>2, OneWalk, Zenon DEF IInv
<1>13. \A s \in selections' : Answered(s)'
  BY <1>2, <1>5, <1>6, <1>10, AnswersKept, Zenon DEF IInv, g
<1> QED
  BY <1>6, <1>9, <1>12, <1>13, Zenon DEF IInv, Once

\* An answer to the active attempt, before its deadline and under its policy.
LEMMA SelectStep ==
    ASSUME IInv, NEW id \in Created, NEW attempt \in attempts,
           Matches(id, attempt), CurrentPolicy(id),
           now <= attempt.deadline, Select(id, attempt),
           UNCHANGED <<policy, next_gateway_id, attempts, tried, now>>
    PROVE  IInv'
<1> DEFINE g == gateway[id]
           new == [instance_id |-> id,
                   policy_generation |-> g.policy.generation,
                   transport |-> attempt.transport, at |-> now,
                   in_force |-> policy.generation,
                   direct_relay_fallback |->
                        DirectRelayFallback(id, attempt.transport)]
<1>n. PICK s : s = new
  BY Zenon
<1>1. g.active = attempt /\ g.active # NoAttempt
  <2>1. attempt \in Attempt
    BY DEF IInv, TypeOK
  <2>2. attempt # NoAttempt
    BY <2>1 DEF Attempt, NoAttempt
  <2> QED
    BY <2>2, Zenon DEF Matches
<1>2. Closes(gateway, gateway', id, TRUE) /\ selections' = selections \cup {s}
  BY <1>n, Zenon DEF Select, Closes
<1>3. /\ TypeOK' /\ Walks' /\ OnlyGateway(id) /\ gateway'[id].terminal
      /\ \A t : Answered(t) => Answered(t)'
  BY <1>2, EndStep, Zenon
<1>4. Walked(id, g, tried[id], Plan(id))
  BY Zenon DEF IInv, Walks
<1>5. \A t \in selections : t.instance_id # id
  BY <1>1, <1>4, Zenon DEF IInv, Answered, Walked
<1>6. /\ g \in GatewayState /\ tried[id] \in Seq(TransportFailure)
  BY DEF IInv, TypeOK, Created
<1>7. FollowsPlan(s, tried[id], Plan(id))
  <2>1. UdpFirst(Plan(id))
    BY PlanIsUdpFirst, Zenon DEF Plan
  <2>3. /\ s.transport = g.active.transport
        /\ s.direct_relay_fallback =
              (s.transport = "HandshakeP2pDnsRelay" /\ g.odoh_attempted)
    BY <1>n, <1>1 DEF DirectRelayFallback
  <2> HIDE DEF g, new
  <2> QED
    BY <1>1, <1>4, <1>6, <2>1, <2>3, SelectedFollowsPlan
<1>8. /\ s.instance_id = id /\ s.at = now
      /\ s.in_force = gateway'[id].policy.generation
  BY <1>n, <1>3 DEF CurrentPolicy, OnlyGateway
<1>9. Answers(s, tried[id])'
  <2>1. /\ attempt.instance_id = id
        /\ attempt.candidate_index = Len(tried[id]) + 1
    BY <1>1, <1>4, <1>6 DEF Walked, GatewayState
  <2> QED
    BY <1>8, <2>1, Zenon DEF Answers
<1> HIDE DEF new
<1>10. Answered(s)'
  <2>1. Plan(id)' = Plan(id)
    BY <1>3, Zenon DEF OnlyGateway, Plan
  <2>2. (id \in Created)'
    BY Zenon DEF Created
  <2>3. FollowsPlan(s, tried[id], Plan(id))'
    BY <1>7, <2>1, Zenon DEF FollowsPlan
  <2> QED
    BY <1>3, <1>8, <1>9, <2>2, <2>3, Zenon DEF Answered
<1>11. \A t \in selections' : Answered(t)'
  BY <1>2, <1>3, <1>10 DEF IInv
<1>12. Once'
  BY <1>2, <1>5, <1>8 DEF IInv, Once
<1> QED
  BY <1>3, <1>11, <1>12, Zenon DEF IInv

\* Whatever an adapter reports for whatever token.
LEMMA CompleteStep ==
    ASSUME IInv, NEW id, NEW attempt \in attempts, Complete(id, attempt)
    PROVE  IInv'
<1>1. /\ id \in Created /\ CurrentPolicy(id) /\ Matches(id, attempt)
      /\ UNCHANGED <<policy, next_gateway_id, attempts, now>>
  BY Zenon DEF Complete, CompleteFailed, CompleteResponse
<1>2. gateway[id].active = attempt /\ gateway[id].active # NoAttempt
  <2>1. attempt \in Attempt
    BY DEF IInv, TypeOK
  <2>2. attempt # NoAttempt
    BY <2>1 DEF Attempt, NoAttempt
  <2> QED
    BY <1>1, <2>2, Zenon DEF Matches
<1>3. ASSUME NEW failure \in TransportFailure,
             RetryOrUnavailable(id, failure, attempt.transport)
      PROVE  IInv'
  BY <1>1, <1>2, <1>3, RetryStep, Zenon
<1>4. "Timeout" \in TransportFailure /\ Failure \subseteq TransportFailure
  BY FailureAssumption DEF TransportFailure
<1>5. ASSUME NEW failure \in Failure, CompleteFailed(id, attempt, failure)
      PROVE  IInv'
  <2>1. CASE now > attempt.deadline
    BY <1>3, <1>4, <1>5, <2>1, Zenon DEF CompleteFailed
  <2>2. CASE ~(now > attempt.deadline)
    BY <1>3, <1>4, <1>5, <2>2, Zenon DEF CompleteFailed
  <2> QED
    BY <2>1, <2>2, Zenon
<1>6. ASSUME NEW response \in Response, CompleteResponse(id, attempt, response)
      PROVE  IInv'
  <2>1. CASE RetryOrUnavailable(id, "Timeout", attempt.transport)
    BY <1>3, <1>4, <2>1, Zenon
  <2>2. CASE /\ Closes(gateway, gateway', id, TRUE)
             /\ selections' = selections /\ tried' = tried
    <3>1. /\ TypeOK' /\ Walks' /\ \A s : Answered(s) => Answered(s)'
      BY <1>1, <2>2, EndStep, Zenon
    <3> QED
      BY <2>2, <3>1, Zenon DEF IInv, Once
  <2>3. CASE now <= attempt.deadline /\ Select(id, attempt) /\ tried' = tried
    BY <1>1, <2>3, SelectStep, Zenon
  <2> QED
    BY <1>6, <2>1, <2>2, <2>3 DEF CompleteResponse, Closes
<1> QED
  BY <1>5, <1>6, Zenon DEF Complete

-----------------------------------------------------------------------------
(* The theorems.                                                           *)

\* The process begins without gateways.
LEMMA InitIInv == Init => IInv
<1> SUFFICES ASSUME Init PROVE IInv
  OBVIOUS
<1>1. TypeOK
  BY MaxGenerationAssumption, MaxGatewaysAssumption
     DEF Init, TypeOK, PolicySnapshot
<1>2. Created = {}
  BY DEF Init, Created
<1>3. selections = {}
  BY DEF Init
<1> QED
  BY <1>1, <1>2, <1>3, Zenon DEF IInv, Walks, Once

\* Every action keeps the invariant.
LEMMA NextIInv == IInv /\ [Next]_vars => IInv'
<1> SUFFICES ASSUME IInv, [Next]_vars PROVE IInv'
  OBVIOUS
<1>1. ASSUME NEW id, Revoke(id) PROVE IInv'
  <2>1. /\ id \in Created /\ Closes(gateway, gateway', id, TRUE)
        /\ UNCHANGED <<policy, next_gateway_id, attempts, tried, now>>
        /\ selections' = selections
    BY <1>1 DEF Revoke, Closes, history
  <2>2. TypeOK' /\ Walks' /\ \A s : Answered(s) => Answered(s)'
    BY <2>1, EndStep, Zenon
  <2> QED
    BY <2>1, <2>2, Zenon DEF IInv, Once
<1>2. ASSUME NEW config \in UserConfig, ChangePolicy(config) PROVE IInv'
  <2>1. policy' \in PolicySnapshot(UserConfig)
    BY <1>2, MaxGenerationAssumption DEF ChangePolicy, Replace, CanReplace,
       ReplacedBy, IInv, TypeOK, PolicySnapshot
  <2>2. UNCHANGED <<next_gateway_id, gateway, history, now>>
    BY <1>2 DEF ChangePolicy
  <2>3. TypeOK'
    BY <2>1, <2>2 DEF IInv, TypeOK, history
  <2> QED
    BY <2>2, <2>3, FrameStep
<1>3. CASE Tick
  <2>1. UNCHANGED <<next_gateway_id, gateway, history, policy>> /\ now' \in Nat
    BY <1>3 DEF Tick, IInv, TypeOK
  <2>2. TypeOK'
    BY <2>1 DEF IInv, TypeOK, history
  <2> QED
    BY <2>1, <2>2, FrameStep
<1>4. CASE UNCHANGED vars
  <2>1. UNCHANGED <<next_gateway_id, gateway, history, policy, now>>
    BY <1>4 DEF vars
  <2>2. TypeOK'
    BY <2>1 DEF IInv, TypeOK, history
  <2> QED
    BY <2>1, <2>2, FrameStep
<1>5. CASE \E id \in 1..MaxGateways :
            \/ Revoke(id)
            \/ StalePolicy(id)
            \/ NextAttempt(id)
            \/ \E attempt \in attempts : Complete(id, attempt)
  BY <1>1, <1>5, NextAttemptStep, CompleteStep, Zenon DEF StalePolicy
<1> QED
  BY <1>2, <1>3, <1>4, <1>5, NewStep, Zenon DEF Next

\* A gateway answers from a transport only after every earlier candidate of
\* its plan failed in a way that permits the next, and flags a relay's answer
\* exactly when ODoH had been tried: for every set of policies and however
\* the tokens of several gateways are mixed up.
THEOREM DowngradeSafety == Spec => []NoDowngrade
<1>1. IInv => NoDowngrade
  BY Zenon DEF IInv, NoDowngrade, Answered
<1> QED
  BY <1>1, InitIInv, NextIInv, PTL DEF Spec

\* A gateway answers at most once, for an attempt of its own within its
\* deadline and under the policy it was created for.
THEOREM SelectionSafety == Spec => []SelectionIsSound
<1>1. IInv => SelectionIsSound
  BY Zenon DEF IInv, SelectionIsSound, Answered, Answers, Once
<1> QED
  BY <1>1, InitIInv, NextIInv, PTL DEF Spec

=============================================================================
