-------------------------- MODULE OriginTransport ---------------------------
(***************************************************************************)
(* The origin transport's reuse of connections and of Alt-Svc: several     *)
(* callers fetch from one origin through one TcpHttpTransport, which keeps *)
(* idle HTTP/1.1 connections by key, retries a request whose pooled        *)
(* connection turned out to be dead, moves safe requests to an advertised  *)
(* protocol and falls back when that fails.                                *)
(* (hns-browser-transport: mobile.rs and chromium.rs, which differ where   *)
(* "platform" is consulted)                                                *)
(*                                                                         *)
(* A step is what a caller does between two acquisitions of the state      *)
(* lock.  A request's policy stands for the TLS part of the pool key:      *)
(* "plain" is an http request, "open" an https request without a namespace *)
(* fingerprint, "planned" one with a fingerprint; its service transport is *)
(* TCP.  A connection is the policy its certificate was judged under.      *)
(***************************************************************************)
EXTENDS Naturals, Sequences, FiniteSets

CONSTANTS Callers,       \* threads that use the transport
          Platforms,     \* the builds explored
          Requests,      \* what callers ask for: method GET, POST or DNS, an
                         \* RFC 8484 POST; mode fetch, writer or streaming; policy
          MaxPerOrigin,  \* MAX_HTTP11_POOL_PER_ORIGIN
          MaxOrigins,    \* MAX_HTTP11_POOL_ORIGINS
          MaxAge,        \* Alt-Svc max-age, in ticks
          Cooldown,      \* ALT_SVC_FAILURE_COOLDOWN, in ticks
          MaxTime,       \* bound on the clock
          MaxFetches     \* bound on the fetches of one behaviour

Policies == {"plain", "open", "planned"}
Never == 100             \* later than every clock value
NoEndpoint == [protocol |-> "none", expires |-> 0]

VARIABLES platform, now, fetches,
          pool,      \* http11_pool: idle connections by key, oldest first
          altSvc,    \* alt_svc by key
          blocked,   \* blocked_alt_svc: the end of the cooldown by key
          failedAt,  \* when each key's last fallback happened, Never if cleared
          task       \* what each caller does

fetchVars == <<platform, now, fetches, pool, altSvc, blocked, failedAt, task>>

Idle == [pc |-> "idle", req |-> [method |-> "GET", mode |-> "fetch", policy |-> "plain"],
         protocol |-> "Http11", conn |-> "none", attempt |-> 0, delivered |-> 0,
         wrote |-> {}, heads |-> 0, began |-> 0, error |-> "none"]

FetchInit ==
  /\ platform \in Platforms /\ now = 0 /\ fetches = 0
  /\ pool = [p \in Policies |-> <<>>]
  /\ altSvc = [p \in Policies |-> NoEndpoint]
  /\ blocked = [p \in Policies |-> 0]
  /\ failedAt = [p \in Policies |-> Never]
  /\ task = [c \in Callers |-> Idle]

is_safe_retry_method(method) == method = "GET"

(***************************************************************************)
(* The pool.                                                               *)
(***************************************************************************)
\* Mutant: the key leaves out the TLS policy.
http11_pool_key_by_host(req) == IF req.policy = "plain" THEN "plain" ELSE "open"

http11_pool_key(req) == req.policy

\* put_http11_connection: a new key evicts any other key when the table is full,
\* and a full queue loses its oldest connection.
put_http11_connection(k, conn) ==
  LET used == {p \in Policies : pool[p] # <<>>}
      queue(q) == IF Len(q) >= MaxPerOrigin THEN Append(Tail(q), conn) ELSE Append(q, conn)
  IN IF pool[k] = <<>> /\ Cardinality(used) >= MaxOrigins
       THEN \E evicted \in used : pool' = [pool EXCEPT ![evicted] = <<>>, ![k] = <<conn>>]
       ELSE pool' = [pool EXCEPT ![k] = queue(pool[k])]

(***************************************************************************)
(* Alt-Svc.                                                                *)
(***************************************************************************)
Fresh(endpoints) ==
  [p \in Policies |-> IF endpoints[p].expires > now THEN endpoints[p] ELSE NoEndpoint]
StillBlocked == [p \in Policies |-> IF blocked[p] > now THEN blocked[p] ELSE 0]

\* What Alt-Svc may be recorded or used for: not a planned request on mobile,
\* whose plan fixes the protocol.
Advertisable(policy) == policy = "open" \/ (platform = "chromium" /\ policy = "planned")

Carrier(protocol) == IF protocol = "Http3" THEN "Udp" ELSE "Tcp"
TransportFits(policy, protocol) ==
  Carrier(protocol) = "Tcp" \/ (platform = "chromium" /\ policy # "planned")

\* promoted_request: the protocol the request is sent with.
promoted_protocol(req) ==
  LET endpoint == Fresh(altSvc)[req.policy]
  IN IF /\ Advertisable(req.policy) /\ is_safe_retry_method(req.method)
        /\ StillBlocked[req.policy] = 0
        /\ endpoint # NoEndpoint /\ TransportFits(req.policy, endpoint.protocol)
       THEN endpoint.protocol ELSE "Http11"

\* selected_alt_svc_endpoint: of the advertised protocols the highest supported.
Advertised == {"nothing", "clear", "h2", "h3"}
selected_alt_svc_endpoint(header) ==
  CASE header = "h2" -> "Http2"
    [] header = "h3" /\ platform = "chromium" -> "Http3"
    [] OTHER -> "none"

record_alt_svc(req, header) ==
  LET selected == selected_alt_svc_endpoint(header)
      k == req.policy
  IN IF ~Advertisable(k) \/ header = "nothing"
       THEN UNCHANGED <<altSvc, blocked, failedAt>>
     ELSE IF header = "clear"
       THEN /\ altSvc' = [altSvc EXCEPT ![k] = NoEndpoint]
            /\ blocked' = [blocked EXCEPT ![k] = 0]
            /\ failedAt' = [failedAt EXCEPT ![k] = Never]
     ELSE IF selected = "none"
       THEN UNCHANGED <<altSvc, blocked, failedAt>>
     ELSE /\ blocked' = StillBlocked
          /\ altSvc' = IF StillBlocked[k] # 0 THEN Fresh(altSvc)
                       ELSE [Fresh(altSvc) EXCEPT ![k] = [protocol |-> selected, expires |-> now + MaxAge]]
          /\ UNCHANGED failedAt

suppress_alt_svc(req) ==
  /\ altSvc' = [altSvc EXCEPT ![req.policy] = NoEndpoint]
  /\ blocked' = [StillBlocked EXCEPT ![req.policy] = now + Cooldown]
  /\ failedAt' = [failedAt EXCEPT ![req.policy] = now]

(***************************************************************************)
(* One fetch.                                                              *)
(***************************************************************************)
Set(c, t) == task' = [task EXCEPT ![c] = t]

\* validate_request: a request promoted to HTTP/3 keeps its TCP service
\* transport, which the protocol then contradicts.
InvalidRequest(protocol) == Carrier(protocol) # "Tcp"

\* fetch, fetch_to_writer, fetch_to_writer_streaming and fetch_rfc8484_post up to
\* the first attempt.  The RFC 8484 path is not promoted and is HTTP/1.1.
Begin(c, req) ==
  LET protocol == IF req.method = "DNS" THEN "Http11" ELSE promoted_protocol(req)
  IN /\ task[c].pc = "idle" /\ fetches < MaxFetches
     /\ req.mode = "streaming" => platform = "mobile"
     /\ req.method = "DNS" => platform = "chromium"
     /\ fetches' = fetches + 1
     /\ Set(c, [Idle EXCEPT !.req = req, !.protocol = protocol, !.began = now,
                            !.error = IF InvalidRequest(protocol) THEN "InvalidRequest" ELSE "none",
                            !.pc = IF InvalidRequest(protocol) THEN "failed"
                                   ELSE IF protocol = "Http11" THEN "take" ELSE "fresh"])
     /\ IF Advertisable(req.policy) /\ is_safe_retry_method(req.method)
          THEN altSvc' = Fresh(altSvc) /\ blocked' = StillBlocked
          ELSE UNCHANGED <<altSvc, blocked>>
     /\ UNCHANGED <<platform, now, pool, failedAt>>

take_http11_connection(c) ==
  LET k == http11_pool_key(task[c].req)
  IN /\ task[c].pc = "take"
     /\ IF pool[k] = <<>>
          THEN Set(c, [task[c] EXCEPT !.pc = "fresh"]) /\ UNCHANGED pool
          ELSE /\ pool' = [pool EXCEPT ![k] = Tail(pool[k])]
               /\ Set(c, [task[c] EXCEPT !.pc = "pooled", !.conn = Head(pool[k])])
     /\ UNCHANGED <<platform, now, fetches, altSvc, blocked, failedAt>>

\* A response: the request arrives, the head is published in the streaming mode,
\* the body is written, Alt-Svc is recorded (HTTP/1.1 only, by send_http11_stream
\* and send_http11_streaming).
Answered(t) ==
  [t EXCEPT !.attempt = t.attempt + 1, !.delivered = t.delivered + 1,
            !.heads = IF t.req.mode = "streaming" THEN t.heads + 1 ELSE t.heads,
            !.wrote = t.wrote \cup {t.attempt + 1}]

Respond(c, reusable, header) ==
  LET t == task[c]
      established == IF t.pc = "pooled" THEN t.conn ELSE t.req.policy
  IN /\ t.pc \in {"pooled", "fresh"}
     /\ reusable => t.protocol = "Http11"
     /\ IF t.protocol = "Http11" THEN record_alt_svc(t.req, header)
                                 ELSE header = "nothing" /\ UNCHANGED <<altSvc, blocked, failedAt>>
     /\ Set(c, [Answered(t) EXCEPT !.pc = IF reusable THEN "put" ELSE "return",
                                   !.conn = established])
     /\ UNCHANGED <<platform, now, fetches, pool>>

\* The result is handed to the caller, after a reusable connection is put back.
Return(c) ==
  /\ task[c].pc \in {"put", "return"}
  /\ IF task[c].pc = "put"
       THEN put_http11_connection(http11_pool_key(task[c].req), task[c].conn)
       ELSE UNCHANGED pool
  /\ Set(c, Idle)
  /\ UNCHANGED <<platform, now, fetches, altSvc, blocked, failedAt>>

\* How far an attempt gets before it fails: the connection is never made or its
\* handshake fails, the request is not delivered, it is delivered and nothing
\* comes back, the head arrives, or a part of the body is written.
Progress == {"refused", "unsent", "delivered", "head", "body"}
FailedAttempt(t, progress, error) ==
  LET came == progress \in {"head", "body"}
  IN [t EXCEPT !.attempt = t.attempt + 1, !.error = error,
               !.delivered = t.delivered + (IF progress \in {"refused", "unsent"} THEN 0 ELSE 1),
               !.heads = t.heads + (IF came /\ t.req.mode = "streaming" THEN 1 ELSE 0),
               !.wrote = IF progress = "body" THEN t.wrote \cup {t.attempt + 1} ELSE t.wrote]

\* The errors of an attempt: a transport error, a certificate the policy refuses,
\* a response beyond the limits.
Errors(progress) ==
  CASE progress = "refused" -> {"Io", "DaneFailed"}
    [] progress \in {"head", "body"} -> {"Io", "ResponseTooLarge"}
    [] OTHER -> {"Io"}

\* may_retry_stale_pooled_request: nothing of the response has been written, and
\* the method is safe or this is the RFC 8484 path and the transport failed.
may_retry_stale_pooled_request(req, error, written) ==
  /\ ~written
  /\ is_safe_retry_method(req.method) \/ (req.method = "DNS" /\ error = "Io")

PooledFails(c, progress, error) ==
  LET t == FailedAttempt(task[c], progress, error)
      retries == \/ t.req.mode = "streaming"
                 \/ may_retry_stale_pooled_request(t.req, error, progress = "body")
  IN /\ task[c].pc = "pooled" /\ progress # "refused"
     /\ Set(c, [t EXCEPT !.pc = IF retries THEN "fresh" ELSE "failed", !.conn = "none"])
     /\ UNCHANGED <<platform, now, fetches, pool, altSvc, blocked, failedAt>>

FreshFails(c, progress, error) ==
  /\ task[c].pc = "fresh"
  /\ error = "DaneFailed" => task[c].req.policy # "plain"
  /\ Set(c, [FailedAttempt(task[c], progress, error) EXCEPT !.pc = "failed"])
  /\ UNCHANGED <<platform, now, fetches, pool, altSvc, blocked, failedAt>>

\* should_retry_alt_svc_fallback and is_alt_svc_fallback_error; fetch() throws its
\* buffer away, fetch_to_writer() counts what was written, and the streaming
\* variant does not fall back.
should_retry_alt_svc_fallback(t) ==
  /\ t.req.mode # "streaming" /\ t.protocol # "Http11"
  /\ t.req.mode = "fetch" \/ t.wrote = {}
  /\ is_safe_retry_method(t.req.method) /\ t.error = "Io"

Fail(c) ==
  LET t == task[c]
  IN /\ t.pc = "failed"
     /\ IF should_retry_alt_svc_fallback(t)
          THEN /\ suppress_alt_svc(t.req)
               /\ Set(c, [t EXCEPT !.pc = "take", !.protocol = "Http11", !.error = "none",
                                   !.wrote = IF t.req.mode = "fetch" THEN {} ELSE t.wrote])
          ELSE /\ Set(c, [t EXCEPT !.pc = "return", !.conn = "error"])
               /\ UNCHANGED <<altSvc, blocked, failedAt>>
     /\ UNCHANGED <<platform, now, fetches, pool>>

Tick ==
  /\ now < MaxTime /\ now' = now + 1
  /\ UNCHANGED <<platform, fetches, pool, altSvc, blocked, failedAt, task>>

FetchNext ==
  \/ Tick
  \/ \E c \in Callers :
       \/ \E req \in Requests : Begin(c, req)
       \/ take_http11_connection(c) \/ Return(c) \/ Fail(c)
       \/ \E reusable \in BOOLEAN, header \in Advertised : Respond(c, reusable, header)
       \/ \E progress \in Progress : \E error \in Errors(progress) :
            PooledFails(c, progress, error) \/ FreshFails(c, progress, error)

FetchSpec == FetchInit /\ [][FetchNext]_fetchVars

(***************************************************************************)
(* Properties.                                                             *)
(***************************************************************************)
Succeeded(t) == t.pc \in {"put", "return"} /\ t.conn # "error"

\* Outside the streaming variant a POST reaches the origin at most once, whatever
\* pooled connection fails under it, and what a successful fetch hands over is
\* one response: every byte written comes from the attempt that succeeded
\* (may_retry_stale_pooled_request, should_retry_alt_svc_fallback).
RetriesAreSafe ==
  \A c \in Callers : task[c].req.mode # "streaming" =>
    /\ task[c].req.method = "POST" => task[c].delivered <= 1
    /\ task[c].req.method = "DNS" => task[c].delivered <= 2
    /\ Succeeded(task[c]) => task[c].wrote \subseteq {task[c].attempt}

\* A request is answered over a connection judged under its own TLS policy, the
\* pool stays within its bounds, and a key whose promotion failed is not
\* promoted again before its cooldown ends (http11_pool_key,
\* put_http11_connection, promoted_request, suppress_alt_svc).
ReuseIsSound ==
  /\ \A c \in Callers : Succeeded(task[c]) => task[c].conn = task[c].req.policy
  /\ \A k \in Policies : Len(pool[k]) <= MaxPerOrigin
  /\ Cardinality({k \in Policies : pool[k] # <<>>}) <= MaxOrigins
  /\ \A c \in Callers : LET t == task[c] IN
       t.protocol # "Http11" =>
         /\ t.req.method = "GET" /\ Advertisable(t.req.policy)
         /\ ~(t.began > failedAt[t.req.policy] /\ t.began < failedAt[t.req.policy] + Cooldown)

\* does_not_retry_a_partial_response_from_a_pooled_connection: a response of which
\* a part was handed over is not fetched again.
PartialResponseIsFinal ==
  \A c \in Callers : Succeeded(task[c]) => task[c].wrote \subseteq {task[c].attempt}

-----------------------------------------------------------------------------
(***************************************************************************)
(* How the origin transport learns what its TLS handshakes decided.  The   *)
(* certificate verifier of a TLS policy is shared by every thread that     *)
(* connects under the policy and cached by the policy's key; rustls calls  *)
(* it from inside the handshake, so it leaves its decision in a table of   *)
(* captures by thread.  A resumed session calls no verifier: its decision  *)
(* is the last success for the host.                                       *)
(* (hns-browser-transport: DaneServerCertVerifier, client_config and       *)
(* complete_blocking_tls_handshake of mobile.rs and chromium.rs)           *)
(*                                                                         *)
(* A policy stands for tls_validation_key, a decision for the DaneDecision *)
(* with its inspection; rustls and the peer are the environment.           *)
(***************************************************************************)

CONSTANTS Threads, Hosts, TlsPolicies, Decisions,
          EchPolicies,    \* the policies that offer ECH (mobile)
          Builds,         \* of {"mobile", "chromium"}
          MaxVerifiers,   \* MAX_TLS_POLICY_CACHE_ENTRIES
          MaxCaptures,    \* MAX_TLS_CAPTURE_ENTRIES
          MaxInstances,   \* bound on the verifiers of one behaviour
          MaxHandshakes   \* bound on its handshakes

VARIABLES build, handshakes,
          verifiers,  \* tls_verifiers: the instance cached for each policy, 0 if none
          policyOf,   \* the policy of each instance, in the order of creation
          captures,   \* handshakes: by instance, what each thread's handshake left
          last,       \* last_success: by instance and host
          sessions,   \* what was decided in completed handshakes: policy, host, decision
          judged,     \* every decision any handshake reached: policy, host, decision
          thread      \* what each thread does

handshakeVars == <<build, handshakes, verifiers, policyOf, captures, last, sessions, judged, thread>>

Undecided == "undecided"
NoHost == "no host"
NoCapture == [here |-> FALSE, host |-> NoHost, decision |-> Undecided, failed |-> FALSE]
Default == [NoCapture EXCEPT !.here = TRUE]
NoHandshake == [pc |-> "idle", policy |-> CHOOSE p \in TlsPolicies : TRUE,
         host |-> CHOOSE h \in Hosts : TRUE, verifier |-> 0, found |-> Undecided,
         mismatch |-> FALSE, result |-> "none"]

HandshakeInit ==
  /\ build \in Builds /\ handshakes = 0
  /\ verifiers = [p \in TlsPolicies |-> 0] /\ policyOf = <<>>
  /\ captures = [i \in 1 .. MaxInstances |-> [t \in Threads |-> NoCapture]]
  /\ last = [i \in 1 .. MaxInstances |-> [h \in Hosts |-> Undecided]]
  /\ sessions = {} /\ judged = {}
  /\ thread = [t \in Threads |-> NoHandshake]

Go(t, pc) == thread' = [thread EXCEPT ![t].pc = pc]
OffersEch(p) == build = "mobile" /\ p \in EchPolicies

\* client_config with dane_verifier_for: the cached instance, or a new one that
\* takes a place of the table, any other policy's if the table is full.
client_config(t, p, h) ==
  LET cached == {q \in TlsPolicies : verifiers[q] # 0}
      new == Len(policyOf) + 1
      begun(i) == [NoHandshake EXCEPT !.pc = "configured", !.policy = p, !.host = h, !.verifier = i]
  IN /\ thread[t].pc = "idle" /\ handshakes < MaxHandshakes
     /\ handshakes' = handshakes + 1
     /\ IF verifiers[p] # 0
          THEN /\ thread' = [thread EXCEPT ![t] = begun(verifiers[p])]
               /\ UNCHANGED <<verifiers, policyOf>>
          ELSE /\ new <= MaxInstances /\ policyOf' = Append(policyOf, p)
               /\ \E evicted \in IF Cardinality(cached) < MaxVerifiers THEN {p} ELSE cached :
                    verifiers' = [verifiers EXCEPT ![evicted] = 0, ![p] = new]
               /\ thread' = [thread EXCEPT ![t] = begun(new)]
     /\ UNCHANGED <<build, captures, last, sessions, judged>>

\* The table of captures with thread t's entry set; a new entry in a full table
\* takes another thread's place.
WithCapture(table, t, capture) ==
  LET others == {u \in Threads : table[u].here}
  IN {[u \in Threads |-> IF u = t THEN capture ELSE IF u = lost THEN NoCapture ELSE table[u]] :
        lost \in IF table[t].here \/ Cardinality(others) < MaxCaptures THEN {t} ELSE others}

begin_handshake(t) ==
  LET i == thread[t].verifier
  IN /\ thread[t].pc = "configured"
     /\ \E table \in WithCapture(captures[i], t, [Default EXCEPT !.host = thread[t].host]) :
          captures' = [captures EXCEPT ![i] = table]
     /\ Go(t, "handshaking")
     /\ UNCHANGED <<build, handshakes, verifiers, policyOf, last, sessions, judged>>

\* or_default: the thread's capture, or an empty one if another thread took it.
Entry(i, t) == IF captures[i][t].here THEN captures[i][t] ELSE Default

\* last_success.insert, with the eviction of another host from a full table.
Committed(i, host, decision) ==
  LET known == {h \in Hosts : last[i][h] # Undecided}
      gone == IF host \in known \/ Cardinality(known) < MaxCaptures THEN {host} ELSE known
  IN IF host = NoHost THEN {last}
     ELSE {[last EXCEPT ![i][lost] = Undecided, ![i][host] = decision] : lost \in gone}

\* verify_server_cert on a certificate the policy accepts, and store_capture.
\* Chromium commits the success at once; mobile leaves it provisional.
verify_accepts(t, d) ==
  LET th == thread[t]
      i == th.verifier
  IN /\ th.pc = "handshaking"
     /\ captures' = [captures EXCEPT ![i][t] = [Entry(i, t) EXCEPT !.decision = d]]
     /\ last' \in IF build = "chromium" THEN Committed(i, Entry(i, t).host, d) ELSE {last}
     /\ judged' = judged \cup {<<th.policy, th.host, d>>}
     /\ thread' = [thread EXCEPT ![t].pc = "verified", ![t].found = d]
     /\ UNCHANGED <<build, handshakes, verifiers, policyOf, sessions>>

\* The association does not match: record_dane_certificate_failure on mobile,
\* record_failure on chromium.
verify_refuses(t) ==
  LET th == thread[t]
      i == th.verifier
      e == Entry(i, t)
  IN /\ th.pc = "handshaking"
     /\ captures' = [captures EXCEPT ![i][t] =
          [e EXCEPT !.failed = TRUE,
                    !.host = IF build = "mobile" /\ e.host = NoHost THEN th.host ELSE e.host]]
     /\ thread' = [thread EXCEPT ![t].pc = "error", ![t].mismatch = TRUE]
     /\ UNCHANGED <<build, handshakes, verifiers, policyOf, last, sessions, judged>>

\* resumption_for: a session store belongs to one policy, so only a session of
\* this policy and host can be resumed, and no certificate is verified.
Resume(t) ==
  /\ thread[t].pc = "handshaking"
  /\ \E s \in sessions : s[1] = thread[t].policy /\ s[2] = thread[t].host
  /\ Go(t, "verified")
  /\ UNCHANGED <<build, handshakes, verifiers, policyOf, captures, last, sessions, judged>>

\* The handshake fails for another reason: the transport, WebPKI, a signature, or
\* rustls aborting a handshake whose ECH was rejected.
Interrupted(t) ==
  /\ thread[t].pc \in {"handshaking", "verified"}
  /\ Go(t, "error")
  /\ UNCHANGED <<build, handshakes, verifiers, policyOf, captures, last, sessions, judged>>

\* ensure_ech_accepted refuses, or an HTTP/3 handshake times out: the error
\* returns past classify_handshake_error and the capture stays.
Abandoned(t) ==
  /\ OffersEch(thread[t].policy) /\ thread[t].pc = "verified"
  /\ thread' = [thread EXCEPT ![t].pc = "return", ![t].result = "Tls"]
  /\ UNCHANGED <<build, handshakes, verifiers, policyOf, captures, last, sessions, judged>>

\* classify_handshake_error on mobile, where the error itself still tells a
\* mismatch; map_handshake_error on chromium.
classify_handshake_error(t) ==
  LET th == thread[t]
      c == captures[th.verifier][t]
      recorded == c.failed /\ (build = "mobile" => c.host = th.host)
      carried == build = "mobile" /\ th.mismatch
  IN /\ th.pc = "error"
     /\ captures' = [captures EXCEPT ![th.verifier][t] = NoCapture]
     /\ thread' = [thread EXCEPT ![t].pc = "return",
                                 ![t].result = IF recorded \/ carried THEN "DaneFailed" ELSE "Io"]
     /\ UNCHANGED <<build, handshakes, verifiers, policyOf, last, sessions, judged>>

\* finish_handshake of a completed handshake (ECH, when offered, was accepted):
\* this handshake's decision, which mobile commits now, or the last success for
\* the host.
finish_handshake(t) ==
  LET th == thread[t]
      i == th.verifier
      c == captures[i][t]
      answer(d) == thread' = [thread EXCEPT ![t].pc = "return", ![t].found = d,
                                            ![t].result = IF d = Undecided THEN "Tls" ELSE "ok"]
  IN /\ th.pc = "verified"
     /\ captures' = [captures EXCEPT ![i][t] = NoCapture]
     /\ IF build = "mobile" /\ c.failed
          THEN /\ thread' = [thread EXCEPT ![t].pc = "return", ![t].result = "DaneFailed"]
               /\ UNCHANGED last
        ELSE IF c.decision # Undecided
          THEN /\ last' \in IF build = "mobile" THEN Committed(i, c.host, c.decision) ELSE {last}
               /\ answer(c.decision)
        ELSE UNCHANGED last /\ answer(last[i][th.host])
     /\ sessions' = IF th.found = Undecided THEN sessions
                    ELSE sessions \cup {<<th.policy, th.host, th.found>>}
     /\ UNCHANGED <<build, handshakes, verifiers, policyOf, judged>>

ReturnHandshake(t) ==
  /\ thread[t].pc = "return"
  /\ thread' = [thread EXCEPT ![t] = NoHandshake]
  /\ UNCHANGED <<build, handshakes, verifiers, policyOf, captures, last, sessions, judged>>

HandshakeNext ==
  \E t \in Threads :
    \/ \E p \in TlsPolicies, h \in Hosts : client_config(t, p, h)
    \/ begin_handshake(t) \/ verify_refuses(t) \/ Resume(t) \/ Interrupted(t)
    \/ \E d \in Decisions : verify_accepts(t, d)
    \/ Abandoned(t) \/ classify_handshake_error(t) \/ finish_handshake(t) \/ ReturnHandshake(t)

HandshakeSpec == HandshakeInit /\ [][HandshakeNext]_handshakeVars

\* What a caller is told of its handshake is true: a success reports a decision
\* reached for this policy and host, on mobile in a handshake that completed; a
\* mismatch is never a success, and mobile names it DaneFailed whatever other
\* threads did to the table of captures (begin_handshake, finish_handshake,
\* classify_handshake_error, store_capture).
HandshakesReportTheirOwn ==
  \A t \in Threads : LET th == thread[t] IN th.pc = "return" =>
    /\ th.result = "ok" =>
         <<th.policy, th.host, th.found>> \in IF build = "mobile" THEN sessions ELSE judged
    /\ th.mismatch => th.result # "ok" /\ (build = "mobile" => th.result = "DaneFailed")
    /\ th.result = "DaneFailed" => th.mismatch
    /\ policyOf[th.verifier] = th.policy

-----------------------------------------------------------------------------
(***************************************************************************)
(* Dialing one of several equivalent addresses of an origin for a browser  *)
(* that does its own TLS: a bounded batch of the candidates, starting at a *)
(* position that one counter rotates for every open of every plan, under   *)
(* one connection budget, with the caller's guard before each dial.        *)
(* (hns-browser-transport: open_explicit_webpki_passthrough_candidates of  *)
(* chromium.rs)                                                            *)
(***************************************************************************)

CONSTANTS Openers,    \* threads that open tunnels
          Plans,      \* the origins they open
          Candidates, \* how many candidates each plan has
          MaxAttempts,  \* MAX_WEBPKI_ENDPOINT_ATTEMPTS_PER_OPEN
          Budget,       \* connect_timeout in time units, the least dial being 1
          MaxOpens      \* bound on the opens of one behaviour

VARIABLES rotation,   \* webpki_candidate_rotation
          opens, revoked,
          open,       \* what each thread's open does
          recent      \* each plan's batches since another plan's open

dialVars == <<rotation, opens, revoked, open, recent>>

NotOpening == [pc |-> "idle", order |-> <<>>, dialed |-> <<>>, spent |-> 0]
DialInit ==
  /\ rotation = 0 /\ opens = 0 /\ revoked = FALSE
  /\ open = [o \in Openers |-> NotOpening]
  /\ recent = [p \in Plans |-> <<>>]

Least(a, b) == IF a < b THEN a ELSE b
Attempts(count) == Least(count, MaxAttempts)

bounded_candidate_indices(count, start) ==
  [i \in 1..Attempts(count) |-> (start + i - 1) % count]

apportioned_connect_timeout(remaining, candidates, configured) ==
  LET share == remaining \div candidates
  IN Least(Least(IF share < 1 THEN 1 ELSE share, remaining), configured)

rotation_stride(count) == IF Attempts(count) = count THEN 1 ELSE Attempts(count)

Distinct(seq) == Cardinality({seq[i] : i \in DOMAIN seq}) = Len(seq)

\* The open up to the first dial: the candidates were validated, the counter
\* moves, the batch is fixed and the deadline is set.
Open(o, p) ==
  LET count == Candidates[p]
      order == bounded_candidate_indices(count, rotation % count)
  IN /\ open[o].pc = "idle" /\ opens < MaxOpens /\ opens' = opens + 1
     /\ rotation' = rotation + rotation_stride(count)
     /\ open' = [open EXCEPT ![o] = [NotOpening EXCEPT !.pc = "dialing", !.order = order]]
     /\ recent' = [q \in Plans |-> IF q = p THEN Append(recent[p], order)
                                   ELSE <<>>]
     /\ UNCHANGED revoked

\* One turn of the loop: the guard, the time left, and a dial that takes at most
\* its share.  A connection ends the open, and so does an error that is not the
\* connect's (the peer or the socket is not what was asked for).
Dial(o, took, outcome) ==
  LET op == open[o]
      left == Len(op.order) - Len(op.dialed)
      remaining == Budget - op.spent
      timeout == apportioned_connect_timeout(remaining, left, Budget)
      next == [op EXCEPT !.dialed = Append(op.dialed, op.order[Len(op.dialed) + 1]),
                         !.spent = op.spent + took]
  IN /\ op.pc = "dialing" /\ ~revoked /\ left > 0 /\ remaining > 0
     /\ took \in 0..timeout
     /\ outcome = "timeout" => took = timeout
     /\ open' = [open EXCEPT ![o] = [next EXCEPT !.pc =
          IF outcome = "connected" THEN "connected" ELSE IF outcome = "terminal" THEN "error" ELSE "dialing"]]
     /\ UNCHANGED <<rotation, opens, revoked, recent>>

\* The guard refuses, or the time or the candidates are used up.
GiveUp(o) ==
  LET op == open[o]
  IN /\ op.pc = "dialing"
     /\ revoked \/ op.spent >= Budget \/ Len(op.dialed) = Len(op.order)
     /\ open' = [open EXCEPT ![o].pc = IF revoked /\ Len(op.dialed) < Len(op.order) THEN "revoked" ELSE "failed"]
     /\ UNCHANGED <<rotation, opens, revoked, recent>>

ReturnOpened(o) ==
  /\ open[o].pc \in {"connected", "error", "revoked", "failed"}
  /\ open' = [open EXCEPT ![o] = NotOpening]
  /\ UNCHANGED <<rotation, opens, revoked, recent>>

\* The authority behind the guard is withdrawn.
Revoke == ~revoked /\ revoked' = TRUE /\ UNCHANGED <<rotation, opens, open, recent>>

DialNext ==
  \/ Revoke
  \/ \E o \in Openers :
       \/ \E p \in Plans : Open(o, p)
       \/ \E took \in 0..Budget, outcome \in {"connected", "refused", "timeout", "terminal"} :
            Dial(o, took, outcome)
       \/ GiveUp(o) \/ ReturnOpened(o)

DialSpec == DialInit /\ [][DialNext]_dialVars

\* One open dials each of its candidates at most once and never spends more than
\* its budget; it gives up without a revocation only when its candidates or its
\* time are used up, and with a unit of time for each of them no silent candidate
\* takes the time of the next; as many consecutive opens of a plan as its batches
\* need have tried all of its candidates, and the candidate one open begins with
\* is not the one the next begins with (bounded_candidate_indices,
\* apportioned_connect_timeout, rotation_stride).
OpensAreFair ==
  /\ \A o \in Openers : LET op == open[o] IN
       /\ op.spent <= Budget /\ Distinct(op.dialed)
       /\ op.pc = "failed" /\ Budget >= MaxAttempts => Len(op.dialed) = Len(op.order)
  /\ \A p \in Plans :
       LET count == Candidates[p]
           needed == (count + Attempts(count) - 1) \div Attempts(count)
           n == Len(recent[p])
           tried(k) == {recent[p][k][i] : i \in DOMAIN recent[p][k]}
       IN /\ n >= needed => UNION {tried(k) : k \in (n - needed + 1)..n} = 0..(count - 1)
          /\ n > 1 /\ count > 1 => recent[p][n][1] # recent[p][n - 1][1]
=============================================================================
