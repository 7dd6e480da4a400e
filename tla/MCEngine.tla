------------------------------ MODULE MCEngine ------------------------------
(***************************************************************************)
(* The engine, and the origin transport that uses its authority, for TLC.  *)
(* Three regimes are of Engine: "hns", the HNS path of one process to the  *)
(* end of the counters; "icann", the ICANN path of two processes;          *)
(* "lifetimes", decisions and evidence that overlap in time.  A regime     *)
(* bounds its admissions, which otherwise fill the event counter with      *)
(* stamps of no interest.  Four are of OriginTransport's shared state: two *)
(* threads fetch ("together"), one fetches longer ("alone"), two handshake *)
(* or two dial; the first thread and host to be used are always the same.  *)
(***************************************************************************)
EXTENDS Engine

CONSTANTS s1, s2, x, y, net, other_net,
          Regimes, Platforms, MaxFetches, MaxOpens

VARIABLES regime, admissions,
          platform, now, fetches, pool, altSvc, blocked, failedAt, task,
          build, handshakes, verifiers, policyOf, captures, last, sessions, judged, thread,
          rotation, opens, revoked, open, recent

engineVars == <<vars, admissions>>
fetching == <<platform, now, fetches, pool, altSvc, blocked, failedAt, task>>
shaking == <<build, handshakes, verifiers, policyOf, captures, last, sessions, judged, thread>>
dialing == <<rotation, opens, revoked, open, recent>>

HnsDecision(observed, expires) ==
    [scheme |-> "Https", namespace |-> "Hns", tls_policy |-> "Dane",
     tcp |-> TRUE, subject |-> x, network |-> net, observed |-> observed,
     expires |-> expires]

IcannDecision(tls, observed, expires) ==
    [HnsDecision(observed, expires) EXCEPT !.namespace = "Icann",
                                           !.tls_policy = tls]

Tlsa(validated_at, expires_at) ==
    [subject |-> x, tcp |-> TRUE, network |-> net,
     validated_at |-> validated_at, expires_at |-> expires_at]

Regime ==
    [hns |-> [sessions |-> {s1}, counter |-> 14, admissions |-> 3,
              generation |-> 2, times |-> {0},
              decisions |-> {HnsDecision(0, 1)},
              evidence |-> {Tlsa(0, 1)}],
     icann |-> [sessions |-> {s1, s2}, counter |-> 14, admissions |-> 2,
                generation |-> 1, times |-> {0},
                decisions |->
                    {IcannDecision("WebPkiAuthenticatedAbsence", 0, 1),
                     [IcannDecision("Dane", 0, 1) EXCEPT !.scheme = "Http"]},
                evidence |-> {}],
     lifetimes |-> [sessions |-> {s1}, counter |-> 9, admissions |-> 3,
                    generation |-> 1, times |-> Time,
                    decisions |-> {HnsDecision(0, 2), HnsDecision(1, 4),
                                   IcannDecision("Dane", 1, 3)},
                    evidence |-> {Tlsa(0, 3), Tlsa(2, 4)}]]

MCDecision == UNION {Regime[r].decisions : r \in DOMAIN Regime}
MCEvidence == UNION {Regime[r].evidence : r \in DOMAIN Regime}

MCUserConfig ==
    {DefaultConfig, [DefaultConfig EXCEPT !.oblivious_dns = "Required"]}

WithinRegime ==
    LET r == Regime[regime]
        Decided(h) == h = None \/ h.decision \in r.decisions
    IN  /\ session \in r.sessions
        /\ r.counter < MaxCounter => event_sequence <= r.counter
        /\ admissions <= r.admissions
        /\ policy.generation <= r.generation
        /\ r.generation = 1 => policy.config = DefaultConfig
        /\ Decided(request) /\ Decided(context) /\ Decided(authority)
        /\ context = None \/ context.valid_from \in r.times
        /\ regime = "hns" /\ context # None
                => context.status = "HnsDaneVerified"
        /\ r.evidence = {} => attempt = None
        /\ completion = None \/ completion.evidence \in r.evidence \cup {None}

Admission ==
    /\ event_sequence' # event_sequence
    /\ authority_state' = authority_state \/ held' # held

-----------------------------------------------------------------------------
Ask(method, mode, how) == [method |-> method, mode |-> mode, policy |-> how]
Requests ==
    {Ask("GET", "fetch", "open"), Ask("GET", "writer", "open"), Ask("GET", "fetch", "planned"),
     Ask("POST", "writer", "open"), Ask("DNS", "fetch", "planned")}
Streams == {Ask("GET", "streaming", "open"), Ask("POST", "streaming", "open")}
Threads == {"t1", "t2"}
Hosts == {"h1", "h2"}

Together == INSTANCE OriginTransport
       WITH Callers <- Threads, MaxTime <- 2,
            MaxPerOrigin <- 1, MaxOrigins <- 1, MaxAge <- 2, Cooldown <- 2,
            TlsPolicies <- {"plain", "ech"}, EchPolicies <- {"ech"}, Decisions <- {"Dane", "WebPki"},
            Builds <- Platforms, MaxVerifiers <- 1, MaxCaptures <- 1, MaxInstances <- 2, MaxHandshakes <- 3,
            Openers <- Threads, Plans <- {1, 2}, Candidates <- <<3, 2>>, MaxAttempts <- 2, Budget <- 3
Alone == INSTANCE OriginTransport
       WITH Callers <- {"t1"}, MaxFetches <- MaxFetches + 1, MaxTime <- 2,
            MaxPerOrigin <- 1, MaxOrigins <- 1, MaxAge <- 2, Cooldown <- 2,
            TlsPolicies <- {"plain", "ech"}, EchPolicies <- {"ech"}, Decisions <- {"Dane", "WebPki"},
            Builds <- Platforms, MaxVerifiers <- 1, MaxCaptures <- 1, MaxInstances <- 2, MaxHandshakes <- 3,
            Openers <- Threads, Plans <- {1, 2}, Candidates <- <<3, 2>>, MaxAttempts <- 2, Budget <- 3
Stream == INSTANCE OriginTransport
       WITH Callers <- Threads, Requests <- Streams, MaxTime <- 0,
            MaxPerOrigin <- 1, MaxOrigins <- 1, MaxAge <- 2, Cooldown <- 2,
            TlsPolicies <- {"plain", "ech"}, EchPolicies <- {"ech"}, Decisions <- {"Dane", "WebPki"},
            Builds <- Platforms, MaxVerifiers <- 1, MaxCaptures <- 1, MaxInstances <- 2, MaxHandshakes <- 3,
            Openers <- Threads, Plans <- {1, 2}, Candidates <- <<3, 2>>, MaxAttempts <- 2, Budget <- 3

-----------------------------------------------------------------------------
MCInit ==
    /\ Init /\ policy.generation = 1 /\ policy.config = DefaultConfig
    /\ admissions = 0
    /\ regime \in Regimes
    /\ session \in IF regime \in DOMAIN Regime THEN Regime[regime].sessions ELSE {s1}
    /\ IF regime = "alone" THEN Alone!FetchInit ELSE Together!FetchInit
    /\ Together!HandshakeInit /\ Together!DialInit
    /\ regime \notin {"together", "alone"} => platform = "mobile"
    /\ regime # "handshakes" => build = "mobile"

EngineStep ==
    /\ regime \in DOMAIN Regime
    /\ Next
    /\ regime' = regime
    /\ admissions' = admissions + IF Admission THEN 1 ELSE 0
    /\ WithinRegime'
    /\ UNCHANGED <<fetching, shaking, dialing>>

Fetch ==
    /\ UNCHANGED <<regime, engineVars, shaking, dialing>>
    /\ \/ regime = "together" /\ Together!FetchNext /\ (fetches' = 1 => UNCHANGED task["t2"])
       \/ regime = "alone" /\ Alone!FetchNext

Handshake ==
    /\ regime = "handshakes"
    /\ UNCHANGED <<regime, engineVars, fetching, dialing>>
    /\ Together!HandshakeNext
    /\ handshakes' = 1 => UNCHANGED thread["t2"] /\ thread'["t1"].host = "h1"

Dial ==
    /\ regime = "dialing"
    /\ UNCHANGED <<regime, engineVars, fetching, shaking>>
    /\ Together!DialNext

MCNext == EngineStep \/ Fetch \/ Handshake \/ Dial

MCVars == <<regime, engineVars, fetching, shaking, dialing>>
MCSpec == MCInit /\ [][MCNext]_MCVars

\* Callers that stream, and nothing else running.
StreamNext == Stream!FetchNext /\ UNCHANGED <<regime, engineVars, shaking, dialing>>
StreamSpec == MCInit /\ [][StreamNext]_MCVars

\* Fetches that are retried or reuse a connection, handshakes that share verifiers and
\* opens that share candidates answer their own callers (OriginTransport!RetriesAreSafe,
\* ReuseIsSound, HandshakesReportTheirOwn, OpensAreFair).
ConnectionsAreSound ==
    /\ regime = "together" => Together!RetriesAreSafe /\ Together!ReuseIsSound
    /\ regime = "alone" => Alone!RetriesAreSafe /\ Alone!ReuseIsSound
    /\ regime = "handshakes" => Together!HandshakesReportTheirOwn
    /\ regime = "dialing" => Together!OpensAreFair

\* A response of which a part has reached the caller is never asked for again
\* (OriginTransport!PartialResponseIsFinal).
PartialResponseIsFinal == Stream!PartialResponseIsFinal

=============================================================================
