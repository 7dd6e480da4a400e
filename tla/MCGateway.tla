------------------------------ MODULE MCGateway ------------------------------
(***************************************************************************)
(* Gateway and ProxyLifecycle for TLC.  A behaviour is one of the gateway  *)
(* or of one part of the browser proxy, as `regime' says: its listener     *)
(* with the stop protocol, one raw CONNECT tunnel ("tunnel"), or one       *)
(* origin request under a deadline and a cancellation ("fetch").  The      *)
(* gateway has two regimes that bound only the environment.                *)
(* "walk": one gateway over plans of four and five candidates, with the    *)
(* relay after ODoH, and with the relay alone and a recursive resolver     *)
(* behind it.  "tokens": two gateways over two plans of three candidates,  *)
(* and a policy that changes and changes back.  One response of each       *)
(* admissible topology, and inadmissible ones that miss it in size, in an  *)
(* identity and in the roles of their identities.                          *)
(***************************************************************************)
EXTENDS Gateway, ProxyLifecycle

CONSTANTS a, b

VARIABLE regime

Observed(seen, proxy, target) ==
    [sized |-> TRUE,
     identities |-> [peer |-> seen, proxy |-> proxy, target |-> target]]

MCResponse ==
    {Observed(Absent, Absent, Absent), Observed(a, Absent, Absent),
     Observed(Absent, a, b), Observed(Absent, a, a),
     Observed(BadIdentity, Absent, Absent),
     [Observed(Absent, Absent, Absent) EXCEPT !.sized = FALSE]}

WalkConfig ==
    {DefaultConfig,
     [DefaultConfig EXCEPT !.authenticated_authoritative_doh = FALSE,
                           !.oblivious_dns = "Disabled",
                           !.user_configured_recursive_hns_doh = TRUE]}

TokenConfig ==
    {[DefaultConfig EXCEPT !.authenticated_authoritative_doh = FALSE,
                           !.oblivious_dns = o] :
        o \in {"Required", "Disabled"}}

MCConfig == WalkConfig \cup TokenConfig

WithinRegime ==
    CASE regime = "walk" ->
            /\ next_gateway_id <= 2
            /\ policy.config \in WalkConfig
            /\ policy.generation <= 2
      [] regime = "tokens" ->
            /\ policy.config \in TokenConfig
            /\ now <= 1
            /\ \A id \in Created : \A k \in DOMAIN tried[id] :
                  tried[id][k] \in {"Unreachable", "Timeout"}

MCInit ==
    /\ Init /\ ListenerInit /\ TunnelInit /\ FetchInit
    /\ \/ regime \in {"walk", "tokens"} /\ WithinRegime
       \/ regime \in {"listener", "tunnel", "fetch"} /\ policy.config = DefaultConfig

MCVars == <<regime, vars, proxyVars, tunnelVars, fetchVars>>
OnGateway == regime \in {"walk", "tokens"} /\ UNCHANGED <<regime, proxyVars, tunnelVars, fetchVars>>
OnListener == regime = "listener" /\ UNCHANGED <<regime, vars, tunnelVars, fetchVars>>
OnTunnel == regime = "tunnel" /\ UNCHANGED <<regime, vars, proxyVars, fetchVars>>
OnFetch == regime = "fetch" /\ UNCHANGED <<regime, vars, proxyVars, tunnelVars>>

MCNext ==
    \/ OnGateway /\ Next /\ WithinRegime'
    \/ OnListener /\ ListenerNext
    \/ OnTunnel /\ TunnelNext
    \/ OnFetch /\ FetchNext

\* Gateways are driven; each thread of the listener, the tunnel and the request runs,
\* and time passes.  A handler must end only once its socket has been shut down.
MCFairness ==
    /\ \A id \in 1..MaxGateways : WF_MCVars(OnGateway /\ Drive(id) /\ gateway' # gateway)
    /\ WF_MCVars(OnListener /\ StartStep) /\ WF_MCVars(OnListener /\ AcceptStep)
    /\ WF_MCVars(OnListener /\ reaper_run)
    /\ \A t \in Threads : WF_MCVars(OnListener /\ StopStep(t))
    /\ \A w \in Workers : /\ WF_MCVars(OnListener /\ PrepareStep(w))
                          /\ WF_MCVars(OnListener /\ stopping /\ worker_finish(w))
    /\ WF_MCVars(OnTunnel /\ connect_outcome)
    /\ \A d \in Directions : WF_MCVars(OnTunnel /\ PumpStep(d))
    /\ WF_MCVars(OnFetch /\ FetchThread) /\ WF_MCVars(OnFetch /\ Clock)

MCSpec == MCInit /\ [][MCNext]_MCVars /\ MCFairness

\* Every gateway that is driven ends (Gateway!EveryGatewayEnds).  Every stop() and drop of the proxy returns and
\* a proxy asked to stop, by whom or what ever, ends with its threads joined; a tunnel
\* ends once a peer has ended or the generation is cancelled, and a request at its
\* deadline at the latest (Gateway::next_attempt, AcceptThread::join, WorkerSet,
\* pump_connect_tunnel, controlled_remaining).  The parts that do not run stay as they
\* began, so the endings of the proxy are one.
EverythingEnds ==
    (regime \in {"walk", "tokens", "fetch"} \/ Due \/ TunnelDue)
        ~> IF regime \in {"walk", "tokens"} THEN AllEnded ELSE AtRest \/ returned # "none" \/ stage = "ended"

\* See ProxyLifecycle!LifecycleEventsInOrder, StoppedIsQuiet, OutcomeIsTrue and
\* ControlIsObeyed.
ProxyStopsCleanly ==
    LifecycleEventsInOrder /\ StoppedIsQuiet /\ OutcomeIsTrue /\ ControlIsObeyed
=============================================================================
