--------------------------- MODULE ProxyRequests ----------------------------
(***************************************************************************)
(* What one client worker of the browser's loopback proxy does with the    *)
(* connection it was given: authenticate, admit the target, count it       *)
(* against the rate limit, terminate CONNECT in a local TLS session and    *)
(* admit the request inside it, call the backend (or, on mobile, dial an   *)
(* ICANN origin), and publish the answer.                                  *)
(* (hns-browser-loopback-proxy: mobile/server.rs and chromium/server.rs)   *)
(*                                                                         *)
(* A request head is the facts the handlers branch on.  A fact is chosen   *)
(* by the handler that first looks at it.  One action is one handler; the  *)
(* backend call, the publication and the body are steps of their own, so   *)
(* that cancellation and revocation can fall between them.                 *)
(***************************************************************************)
EXTENDS Naturals, FiniteSets, Sequences, SequencesExt, FiniteSetsExt

CONSTANTS Clients, MaxEpoch

\* NormalizedHost::parse, HostScope, IpAddr::parse and the special-use list
\* sort the host of a request target into these classes.
HostClasses == {"in scope", "dotted", "undotted", "special", "public ip", "private ip", "invalid"}
Names == {"in scope", "dotted", "undotted", "special"}

Schemes == {"http", "https", "ws", "wss"}
Targets == [auth : BOOLEAN, kind : {"absolute", "connect", "origin"}, scheme : Schemes,
            host : HostClasses, blocked : BOOLEAN]

\* determine_body_framing: what the Content-Length and Transfer-Encoding fields
\* of a head say; "large" declares more than max_body_bytes.
Framings == {"none", "empty", "fixed", "large", "chunked", "invalid"}
NoBody == {"none", "empty"}
Expectations == {"none", "100-continue", "other"}

MobileModes == {"ScopedHns", "WholeBrowser", "WholeBrowserIcannBootstrap"}
ChromiumModes == {"ScopedHns", "DaneBrowser"}

VARIABLES
  platform, mode,  \* the build and its ProxyRoutingMode
  cancelled,       \* the generation's CancellationToken
  epoch,           \* the backend's lifecycle generation
  pc,              \* the handler each client worker is in
  req,             \* what is known of its current request
  captured,        \* the backend generation a result was produced in
  permits,         \* workers that hold a publication permit
  rated,           \* times the current connection was counted by the limiter
  forwarded,       \* the current request went to the backend or an origin
  heads,           \* final response heads written for the current request
  phases           \* RequestPhase observations of the current request

vars == <<platform, mode, cancelled, epoch, pc, req, captured, permits, rated,
          forwarded, heads, phases>>
env == <<platform, mode, cancelled, epoch>>

NoReq == [host |-> "invalid", kind |-> "origin", scheme |-> "http", blocked |-> FALSE,
          auth |-> FALSE, inner |-> FALSE, same |-> TRUE, body |-> "none", then |-> "none"]

Init ==
  /\ \/ platform = "mobile" /\ mode \in MobileModes
     \/ platform = "chromium" /\ mode \in ChromiumModes
  /\ cancelled = FALSE /\ epoch = 0
  /\ pc = [c \in Clients |-> "accepted"] /\ req = [c \in Clients |-> NoReq]
  /\ captured = [c \in Clients |-> 0] /\ permits = {}
  /\ rated = [c \in Clients |-> 0] /\ forwarded = [c \in Clients |-> FALSE]
  /\ heads = [c \in Clients |-> 0] /\ phases = [c \in Clients |-> <<>>]

(***************************************************************************)
(* How a handler ends or continues.                                        *)
(***************************************************************************)
Observe(c, phase) == phases' = [phases EXCEPT ![c] = Append(@, phase)]
WriteHead(c) == heads' = [heads EXCEPT ![c] = @ + 1]
Goto(c, to) == pc' = [pc EXCEPT ![c] = to]
Same == UNCHANGED <<captured, permits, forwarded>>

\* reject_routed_request, reject_scoped_request, reject_http_request: observe
\* Rejected, then write one error response and close.
Reject(c) ==
  /\ Goto(c, "done") /\ Observe(c, "Rejected") /\ WriteHead(c)
  /\ UNCHANGED <<req, rated>> /\ Same

\* A rejection before there is a request to name, and a silent close.
RejectClient(c) ==
  /\ Goto(c, "done") /\ WriteHead(c) /\ UNCHANGED <<req, rated, phases>> /\ Same
Close(c) == Goto(c, "done") /\ UNCHANGED <<req, rated, phases, heads>> /\ Same
CloseRejected(c) ==
  /\ Goto(c, "done") /\ Observe(c, "Rejected") /\ UNCHANGED <<req, rated, heads>> /\ Same

Continue(c, to) == Goto(c, to) /\ UNCHANGED <<req, rated, heads, phases>> /\ Same

\* admit_rate: the limiter counts an allowed request; a limited one gets 429.
admit_rate(c, to) ==
  \/ Reject(c)
  \/ /\ rated' = [rated EXCEPT ![c] = @ + 1]
     /\ Goto(c, to) /\ UNCHANGED <<req, heads, phases>> /\ Same

(***************************************************************************)
(* Admission of the outer request.                                         *)
(***************************************************************************)

\* mobile admit_target_host
admit_target_host(h) ==
  CASE mode = "ScopedHns" -> IF h = "in scope" THEN "Hns" ELSE "denied"
    [] mode # "ScopedHns" /\ h = "public ip" -> "Icann"
    [] mode # "ScopedHns" /\ h \in {"private ip", "invalid", "special"} -> "denied"
    [] mode = "WholeBrowserIcannBootstrap" /\ h \in Names ->
         IF h = "undotted" THEN "denied" ELSE "Icann"
    [] mode = "WholeBrowser" /\ h \in Names -> "Hns"

\* chromium authorize_native_gateway_host
authorize_native_gateway_host(h) ==
  CASE mode = "DaneBrowser" -> IF h \in Names \ {"special"} THEN "Hns" ELSE "denied"
    [] mode = "ScopedHns" -> IF h = "in scope" THEN "Hns" ELSE "denied"

Facts(t) == [NoReq EXCEPT !.host = t.host, !.kind = t.kind, !.scheme = t.scheme,
                          !.blocked = t.blocked, !.auth = t.auth]

Accepted(c, t, to) ==
  /\ req' = [req EXCEPT ![c] = Facts(t)] /\ Observe(c, "Accepted")
  /\ Goto(c, to) /\ UNCHANGED <<rated, heads>> /\ Same

Route(class, kind) ==
  CASE kind = "absolute" -> IF class = "Hns" THEN "direct" ELSE "icann http"
    [] kind = "connect" -> IF class = "Hns" THEN "connect" ELSE "icann connect"
    [] OTHER -> "origin form"

\* The peer is not loopback, or the generation is cancelled: close.  A head that
\* cannot be read or parsed in time, and missing credentials: answer, close.
handle_client(c) ==
  /\ pc[c] = "accepted" /\ platform = "mobile"
  /\ \/ Close(c)
     \/ ~cancelled /\ RejectClient(c)
     \/ /\ ~cancelled
        /\ \E t \in Targets :
             LET class == admit_target_host(t.host) IN
             IF ~t.auth THEN RejectClient(c)
             ELSE IF class = "denied" \/ t.blocked THEN Reject(c)
             ELSE Accepted(c, t, Route(class, t.kind))
  /\ UNCHANGED env

chromium_handle_client(c) ==
  /\ pc[c] = "accepted" /\ platform = "chromium"
  /\ \/ Close(c)
     \/ ~cancelled /\ RejectClient(c)
     \/ /\ ~cancelled
        /\ \E t \in Targets :
             LET class == authorize_native_gateway_host(t.host) IN
             IF ~t.auth THEN RejectClient(c)
             ELSE IF class = "denied" THEN Reject(c)
             ELSE Accepted(c, t, Route(class, t.kind))
  /\ UNCHANGED env

origin_form(c) == pc[c] = "origin form" /\ Reject(c) /\ UNCHANGED env

\* handle_direct_http: the rate limit comes before the body is looked at.
handle_direct_http(c) ==
  /\ pc[c] = "direct"
  /\ \E upgrade \in BOOLEAN :
       admit_rate(c, IF upgrade \/ req[c].scheme \in {"ws", "wss"} THEN "upgrade" ELSE "http")
  /\ UNCHANGED env

(***************************************************************************)
(* CONNECT to a Handshake name: local TLS, then the request inside it.     *)
(***************************************************************************)
ConnectIsPlain(upgrade, expect, framing) ==
  ~upgrade /\ expect = "none" /\ framing \in NoBody

handle_connect(c) ==
  /\ pc[c] = "connect" /\ platform = "mobile"
  /\ \E upgrade \in BOOLEAN, expect \in Expectations, framing \in Framings :
       IF ~ConnectIsPlain(upgrade, expect, framing) THEN Reject(c)
       ELSE IF cancelled THEN CloseRejected(c)
       ELSE admit_rate(c, "prepare")
  /\ UNCHANGED env

chromium_handle_connect(c) ==
  /\ pc[c] = "connect" /\ platform = "chromium"
  /\ \E upgrade \in BOOLEAN, expect \in Expectations, framing \in Framings :
       IF ~ConnectIsPlain(upgrade, expect, framing) \/ req[c].blocked THEN Reject(c)
       ELSE IF cancelled THEN CloseRejected(c)
       ELSE admit_rate(c, "open connect")
  /\ UNCHANGED env

\* ProxyBackend::open_connect: the CONNECT goes to the backend, which decides
\* between local TLS and a raw tunnel; an unavailable WebPKI origin is never
\* replaced by local TLS.
open_connect(c) ==
  /\ pc[c] = "open connect"
  /\ forwarded' = [forwarded EXCEPT ![c] = TRUE]
  /\ \/ Goto(c, "done") /\ UNCHANGED <<req, captured, heads, phases>>
     \/ \E phase \in {"BackendFailed", "Rejected"} :
          Goto(c, "done") /\ Observe(c, phase) /\ WriteHead(c) /\ UNCHANGED <<req, captured>>
     \/ Goto(c, "prepare") /\ UNCHANGED <<req, captured, heads, phases>>
     \/ /\ captured' = [captured EXCEPT ![c] = epoch]
        /\ req' = [req EXCEPT ![c].then = "passthrough"]
        /\ Goto(c, "permit") /\ UNCHANGED <<heads, phases>>
  /\ UNCHANGED <<permits, rated>> /\ UNCHANGED env

\* tls_identities.prepare, the 200 answer and accept_local_tls (exact SNI, no
\* ALPN or http/1.1).  The request inside the session starts afresh.
accept_local_tls(c) ==
  /\ pc[c] = "prepare"
  /\ \/ Reject(c)
     \/ Close(c)
     \/ /\ Goto(c, "done") /\ WriteHead(c) /\ Observe(c, "Rejected")
        /\ UNCHANGED <<req, rated>> /\ Same
     \/ /\ Goto(c, "connected")
        /\ heads' = [heads EXCEPT ![c] = 0] /\ phases' = [phases EXCEPT ![c] = <<>>]
        /\ forwarded' = [forwarded EXCEPT ![c] = FALSE]
        /\ UNCHANGED <<req, rated, captured, permits>>
  /\ UNCHANGED env

\* Mutant: the authority inside the session is not compared with CONNECT's.
authorize_connected_class(c, same) ==
  IF mode = "WholeBrowser" THEN req[c].host \notin {"special", "public ip"}
  ELSE mode = "ScopedHns" /\ req[c].host = "in scope"

\* mobile authorize_connected_target: the inner authority is the CONNECT authority
\* and the class of its host is admitted again.
authorize_connected_target(c, same) ==
  /\ same
  /\ IF mode = "WholeBrowser" THEN req[c].host \notin {"special", "public ip"}
     ELSE mode = "ScopedHns" /\ req[c].host = "in scope"

\* The request inside the session is Accepted before its form is looked at: only
\* an origin-form, https or wss target goes on, any other is refused with 501.
RouteConnected(c, same, kind, scheme, upgrade) ==
  LET secure == kind = "origin" \/ (kind = "absolute" /\ scheme \in {"https", "wss"})
      switch == upgrade \/ (kind = "absolute" /\ scheme = "wss")
  IN IF secure
       THEN /\ req' = [req EXCEPT ![c].inner = TRUE, ![c].same = same, ![c].kind = kind,
                                  ![c].scheme = IF kind = "origin" THEN "https" ELSE scheme]
            /\ Goto(c, IF switch THEN "upgrade" ELSE "http")
            /\ Observe(c, "Accepted") /\ UNCHANGED <<rated, heads>> /\ Same
       ELSE /\ phases' = [phases EXCEPT ![c] = @ \o <<"Accepted", "Rejected">>]
            /\ Goto(c, "done") /\ WriteHead(c) /\ UNCHANGED <<req, rated>> /\ Same

handle_connected_http(c) ==
  /\ pc[c] = "connected" /\ platform = "mobile"
  /\ \/ Reject(c)
     \/ \E kind \in {"origin", "absolute", "connect"}, scheme \in Schemes,
           same \in BOOLEAN, upgrade \in BOOLEAN :
          IF authorize_connected_target(c, same)
            THEN RouteConnected(c, same, kind, scheme, upgrade) ELSE Reject(c)
  /\ UNCHANGED env

chromium_handle_connected_http(c) ==
  /\ pc[c] = "connected" /\ platform = "chromium"
  /\ \/ Reject(c)
     \/ \E kind \in {"origin", "absolute", "connect"}, scheme \in Schemes,
           same \in BOOLEAN, upgrade \in BOOLEAN :
          IF authorize_native_gateway_host(req[c].host) = "Hns" /\ same
            THEN RouteConnected(c, same, kind, scheme, upgrade) ELSE Reject(c)
  /\ UNCHANGED env

(***************************************************************************)
(* Admitted requests to the backend.                                       *)
(***************************************************************************)
\* What is read of the request before the backend has it: a forbidden header, or a body
\* cut short or over the limit, is still refused.
ReadAdmitted(c, acceptable, framing, to) ==
  IF ~acceptable THEN Reject(c)
  ELSE \/ Reject(c)
       \/ CloseRejected(c)
       \/ /\ ~cancelled
          /\ req' = [req EXCEPT ![c].body = framing]
          /\ Goto(c, to) /\ UNCHANGED <<rated, heads, phases>> /\ Same

handle_admitted_http(c) ==
  /\ pc[c] = "http"
  /\ \E expect \in Expectations, framing \in Framings :
       LET acceptable == framing \notin {"invalid", "large"} /\ expect # "other"
       IN \/ ReadAdmitted(c, acceptable, framing, "execute")
          \/ acceptable /\ Close(c)    \* 100 Continue could not be written
  /\ UNCHANGED env

handle_admitted_upgrade(c) ==
  /\ pc[c] = "upgrade"
  /\ \E expect \in Expectations, framing \in Framings :
       ReadAdmitted(c, framing \in NoBody /\ expect = "none", framing, "open tunnel")
  /\ UNCHANGED env

\* A failed backend call: mobile closes without an answer, chromium answers
\* unless the generation was cancelled.
BackendFailed(c) ==
  /\ Goto(c, "done") /\ Observe(c, "BackendFailed")
  /\ IF platform = "chromium" /\ ~cancelled THEN WriteHead(c) ELSE UNCHANGED heads
  /\ UNCHANGED <<req, rated, captured, permits>>
  /\ forwarded' = [forwarded EXCEPT ![c] = TRUE]

\* The backend answers with a result bound to the generation it was made in.
BackendAnswers(c, then) ==
  /\ forwarded' = [forwarded EXCEPT ![c] = TRUE]
  /\ captured' = [captured EXCEPT ![c] = epoch]
  /\ req' = [req EXCEPT ![c].then = then]
  /\ Goto(c, "permit") /\ UNCHANGED <<permits, rated, heads, phases>>

execute_backend(c) ==
  /\ pc[c] = "execute"
  /\ BackendFailed(c) \/ BackendAnswers(c, "body")
  /\ UNCHANGED env

execute_backend_tunnel(c) ==
  /\ pc[c] = "open tunnel"
  /\ BackendFailed(c) \/ BackendAnswers(c, "body") \/ BackendAnswers(c, "tunnel")
  /\ UNCHANGED env

\* acquire_publication_permit: granted only for the generation that produced the
\* result, and held until the head is flushed.  Chromium takes it around the
\* write and looks at the token once more inside it.
acquire_publication_permit(c) ==
  /\ pc[c] = "permit"
  /\ \/ cancelled /\ Close(c)
     \/ /\ ~cancelled /\ captured[c] # epoch
        /\ Goto(c, "done") /\ UNCHANGED <<req, rated, heads, captured, permits, forwarded>>
        /\ IF platform = "mobile" THEN Observe(c, "BackendFailed") ELSE UNCHANGED phases
     \/ /\ ~cancelled /\ captured[c] = epoch
        /\ permits' = permits \cup {c}
        /\ Goto(c, "publish") /\ UNCHANGED <<req, rated, heads, phases, captured, forwarded>>
  /\ UNCHANGED env

\* write_backend_response and the 101 switch: sanitize, encode, write, flush,
\* and only then release the permit.
write_backend_response(c) ==
  /\ pc[c] = "publish"
  /\ permits' = permits \ {c}
  /\ \/ /\ Goto(c, "done") /\ Observe(c, "BackendFailed")  \* invalid before the head
        /\ IF ~cancelled /\ (platform = "chromium" \/ req[c].then = "tunnel")
             THEN WriteHead(c) ELSE UNCHANGED heads
     \/ Goto(c, "done") /\ UNCHANGED <<phases, heads>>     \* the write failed
     \/ ~(platform = "chromium" /\ cancelled)
        /\ WriteHead(c) /\ Goto(c, req[c].then) /\ UNCHANGED phases
  /\ UNCHANGED <<req, rated, captured, forwarded>> /\ UNCHANGED env

\* write_response_body and copy_exact_response: an incomplete or failed body is
\* never followed by another head.
write_response_body(c) ==
  /\ pc[c] = "body" /\ Goto(c, "done")
  /\ \/ ~cancelled /\ Observe(c, "Completed")
     \/ Observe(c, "BackendFailed")
     \/ UNCHANGED phases
  /\ UNCHANGED <<req, rated, heads>> /\ Same /\ UNCHANGED env

\* pump_tunnel and pump_connect_tunnel, by their TunnelPumpOutcome.
pump_tunnel(c) ==
  /\ pc[c] \in {"tunnel", "passthrough"} /\ Goto(c, "done")
  /\ Observe(c, "Completed") \/ Observe(c, "BackendFailed") \/ UNCHANGED phases
  /\ UNCHANGED <<req, rated, heads>> /\ Same /\ UNCHANGED env

(***************************************************************************)
(* ICANN origins, mobile only.                                             *)
(***************************************************************************)
handle_icann_http(c) ==
  /\ pc[c] = "icann http"
  /\ IF req[c].scheme \notin {"http", "ws"} \/ req[c].blocked THEN Reject(c)
     ELSE \E upgrade \in BOOLEAN :
            admit_rate(c, IF upgrade \/ req[c].scheme = "ws" THEN "icann upgrade" ELSE "icann request")
  /\ UNCHANGED env

Dial(c, framing, then) ==
  /\ req' = [req EXCEPT ![c].body = framing, ![c].then = then]
  /\ Goto(c, "dial") /\ UNCHANGED <<rated, heads, phases>> /\ Same

handle_icann_connect(c) ==
  /\ pc[c] = "icann connect"
  /\ \E upgrade \in BOOLEAN, expect \in Expectations, framing \in Framings :
       IF ~ConnectIsPlain(upgrade, expect, framing) \/ req[c].blocked THEN Reject(c)
       ELSE \/ Reject(c)
            \/ /\ rated' = [rated EXCEPT ![c] = @ + 1]
               /\ req' = [req EXCEPT ![c].then = "icann tunnel"]
               /\ Goto(c, "dial") /\ UNCHANGED <<heads, phases>> /\ Same
  /\ UNCHANGED env

handle_icann_request(c) ==
  /\ pc[c] = "icann request"
  /\ \E expect \in Expectations, framing \in Framings :
       IF framing \in {"invalid", "large"} \/ expect = "other" THEN Reject(c)
       ELSE Reject(c) \/ Close(c) \/ (~cancelled /\ Dial(c, framing, "icann response"))
  /\ UNCHANGED env

handle_icann_upgrade(c) ==
  /\ pc[c] = "icann upgrade"
  /\ \E expect \in Expectations, framing \in Framings :
       IF framing \notin NoBody \/ expect # "none" THEN Reject(c)
       ELSE Reject(c) \/ Close(c) \/ (~cancelled /\ Dial(c, framing, "icann switch"))
  /\ UNCHANGED env

\* dial_icann: resolve, keep the distinct public addresses with the requested
\* port, connect to one of them; the request is written once connected.
dial_icann(c) ==
  /\ pc[c] = "dial"
  /\ \/ /\ Goto(c, "done") /\ Observe(c, "BackendFailed")
        /\ IF cancelled THEN UNCHANGED heads ELSE WriteHead(c)
        /\ UNCHANGED <<req, rated>> /\ Same
     \/ /\ ~cancelled /\ Goto(c, req[c].then)
        /\ forwarded' = [forwarded EXCEPT ![c] = TRUE]
        /\ UNCHANGED <<req, rated, captured, permits, heads, phases>>
  /\ UNCHANGED env

icann_tunnel(c) ==
  /\ pc[c] = "icann tunnel" /\ Goto(c, "done")
  /\ \/ UNCHANGED <<heads, phases>>
     \/ WriteHead(c) /\ Observe(c, "Completed")
  /\ UNCHANGED <<req, rated>> /\ Same /\ UNCHANGED env

\* The write to the origin and relay_icann_response: an error before the head is
\* answered with 502, one after it only closes.
relay_icann_response(c) ==
  /\ pc[c] = "icann response"
  /\ \/ /\ Goto(c, "done") /\ Observe(c, "BackendFailed")
        /\ IF cancelled THEN UNCHANGED heads ELSE WriteHead(c)
     \/ Goto(c, "done") /\ Observe(c, "BackendFailed") /\ UNCHANGED heads
     \/ WriteHead(c) /\ Goto(c, "icann body") /\ UNCHANGED phases
  /\ UNCHANGED <<req, rated>> /\ Same /\ UNCHANGED env

relay_icann_body(c) ==
  /\ pc[c] = "icann body" /\ Goto(c, "done")
  /\ Observe(c, "Completed") \/ Observe(c, "BackendFailed")
  /\ UNCHANGED <<req, rated, heads>> /\ Same /\ UNCHANGED env

icann_switch(c) ==
  /\ pc[c] = "icann switch"
  /\ \/ /\ Goto(c, "done") /\ Observe(c, "BackendFailed")
        /\ IF cancelled THEN UNCHANGED heads ELSE WriteHead(c)
     \/ Goto(c, "done") /\ UNCHANGED heads /\ (Observe(c, "BackendFailed") \/ UNCHANGED phases)
     \/ WriteHead(c) /\ Goto(c, "tunnel") /\ UNCHANGED phases
  /\ UNCHANGED <<req, rated>> /\ Same /\ UNCHANGED env

(***************************************************************************)
(* The world around the workers.                                           *)
(***************************************************************************)
CancelGeneration ==
  /\ ~cancelled /\ cancelled' = TRUE
  /\ UNCHANGED <<platform, mode, epoch, pc, req, captured, permits, rated, forwarded, heads, phases>>

\* The backend invalidates what it produced so far.  The permit holds the same
\* lock, so this waits for a publication in progress.
Revoke ==
  /\ epoch < MaxEpoch /\ permits = {} /\ epoch' = epoch + 1
  /\ UNCHANGED <<platform, mode, cancelled, pc, req, captured, permits, rated, forwarded, heads, phases>>

Handler(c) ==
  \/ handle_client(c) \/ chromium_handle_client(c) \/ origin_form(c) \/ handle_direct_http(c)
  \/ handle_connect(c) \/ chromium_handle_connect(c) \/ open_connect(c) \/ accept_local_tls(c)
  \/ handle_connected_http(c) \/ chromium_handle_connected_http(c) \/ handle_admitted_http(c)
  \/ handle_admitted_upgrade(c)
  \/ execute_backend(c) \/ execute_backend_tunnel(c) \/ acquire_publication_permit(c)
  \/ write_backend_response(c) \/ write_response_body(c) \/ pump_tunnel(c)
  \/ handle_icann_http(c) \/ handle_icann_connect(c) \/ handle_icann_request(c)
  \/ handle_icann_upgrade(c) \/ dial_icann(c) \/ icann_tunnel(c)
  \/ relay_icann_response(c) \/ relay_icann_body(c) \/ icann_switch(c)

Next == (\E c \in Clients : Handler(c)) \/ CancelGeneration \/ Revoke

Spec == Init /\ [][Next]_vars

(***************************************************************************)
(* Properties.                                                             *)
(***************************************************************************)
Reachable(h) ==
  CASE mode = "ScopedHns" -> h = "in scope"
    [] mode = "DaneBrowser" -> h \in {"in scope", "dotted", "undotted"}
    [] mode = "WholeBrowser" -> h \in {"in scope", "dotted", "undotted", "public ip"}
    [] mode = "WholeBrowserIcannBootstrap" -> h \in {"in scope", "dotted", "public ip"}

\* Whatever reaches the backend or an ICANN origin came from an authenticated
\* client, names a host the routing mode may reach, was counted by the rate
\* limiter exactly once (a request inside a CONNECT session shares the count of
\* its CONNECT and has the same authority), carries a body the proxy could
\* delimit, and on mobile, as in every CONNECT, does not go to a blocked port
\* (handle_client, admit_rate, authorize_connected_target, handle_admitted_*).
ForwardedIsAdmitted ==
  \A c \in Clients : forwarded[c] =>
    /\ req[c].auth /\ Reachable(req[c].host)
    /\ rated[c] = 1
    /\ req[c].body \in {"none", "empty", "fixed", "chunked"}
    /\ req[c].inner => req[c].same /\ req[c].scheme \in {"https", "wss"}
    /\ req[c].blocked => platform = "chromium" /\ req[c].kind = "absolute" /\ ~req[c].inner

\* A request is answered at most once, a request reported Rejected was never
\* forwarded unless it is a CONNECT the backend gave no tunnel for (open_connect is
\* called before the 502 and the 503), one reported Completed was answered, and a
\* worker about to flush a backend's head still holds a result of the backend's
\* current generation (write_backend_response, acquire_publication_permit,
\* copy_exact_response).
AnswersAreTruthful ==
  \A c \in Clients :
    LET seen == {phases[c][i] : i \in DOMAIN phases[c]} IN
    /\ heads[c] <= 1
    /\ "Rejected" \in seen /\ forwarded[c]
         => platform = "chromium" /\ req[c].kind = "connect" /\ ~req[c].inner /\ req[c].then # "passthrough"
    /\ "Completed" \in seen => heads[c] = 1
    /\ Cardinality(seen \ {"Accepted"}) <= 1
    /\ pc[c] = "publish" => captured[c] = epoch

-----------------------------------------------------------------------------
(***************************************************************************)
(* RequestRateLimiter: one sliding window over all requests and one per    *)
(* host, with a bounded number of tracked hosts.  Time is a counter the    *)
(* callers read before they take the lock, so calls may arrive with an     *)
(* older "now" than the call before.                                       *)
(* (hns-browser-loopback-proxy: rate_limit.rs)                             *)
(***************************************************************************)

CONSTANTS RateHosts, GlobalRequests, PerHostRequests, Window, MaxTrackedHosts,
          MaxTime,  \* bound on the clock
          MaxSkew   \* how old a caller's "now" may be when it gets the lock

VARIABLES clock,   \* the present
          global,  \* RateLimitState.global
          hosts,   \* RateLimitState.hosts: a tracked host's window
          log,     \* every admitted request, in order: [host, at]
          refused  \* until when each host was last told to wait

RateInit ==
  /\ clock = 0 /\ global = <<>> /\ hosts = <<>> /\ log = <<>>
  /\ refused = [h \in RateHosts |-> 0]

\* expire pops from the front only: an old entry behind a newer one stays.
expire(requests, now) ==
  LET live == {i \in DOMAIN requests : requests[i] + Window > now}
  IN IF live = {} THEN <<>> ELSE SubSeq(requests, Min(live), Len(requests))

\* The time at which the window's front expires (now + retry_after).
retry_at(requests, now) == IF requests = <<>> THEN now + Window ELSE requests[1] + Window

\* The host map after every window was expired and the empty ones dropped.
Retained(now) ==
  LET kept == {h \in DOMAIN hosts : expire(hosts[h], now) # <<>>}
  IN [h \in kept |-> expire(hosts[h], now)]

\* What limits a request: the global window, the host's own, or no room for
\* another host.
Limit(h, now) ==
  LET m == Retained(now)
  IN IF Len(expire(global, now)) >= GlobalRequests THEN "Global"
     ELSE IF h \in DOMAIN m THEN IF Len(m[h]) >= PerHostRequests THEN "Host" ELSE "none"
     ELSE IF Cardinality(DOMAIN m) >= MaxTrackedHosts THEN "Tracked" ELSE "none"

\* RequestRateLimiter::check, under the state's lock.
check(h, now) ==
  LET g == expire(global, now)
      m == Retained(now)
      limit == Limit(h, now)
  IN IF limit # "none"
       THEN /\ global' = g /\ hosts' = m
            /\ refused' = [refused EXCEPT ![h] =
                 CASE limit = "Global" -> retry_at(g, now)
                   [] limit = "Host" -> retry_at(m[h], now)
                   [] limit = "Tracked" -> Min({retry_at(m[k], now) : k \in DOMAIN m})]
            /\ UNCHANGED <<clock, log>>
       ELSE /\ global' = Append(g, now)
            /\ hosts' = [k \in DOMAIN m \cup {h} |->
                          IF k # h THEN m[k] ELSE IF h \in DOMAIN m THEN Append(m[h], now) ELSE <<now>>]
            /\ log' = Append(log, [host |-> h, at |-> now])
            /\ UNCHANGED <<clock, refused>>

Tick == clock < MaxTime /\ clock' = clock + 1 /\ UNCHANGED <<global, hosts, log, refused>>

Nows == {t \in 0..clock : t + MaxSkew >= clock}
RateNext == Tick \/ \E h \in RateHosts, now \in Nows : check(h, now)

\* In every span of one window, less the time a caller may have waited for the
\* lock, at most GlobalRequests requests are admitted and at most PerHostRequests
\* of one host; the tracked hosts never exceed their bound; and a caller told to
\* wait is not admitted before that time has come, so the answer is not a
\* penalty but the earliest useful retry (RequestRateLimiter::check).
AdmittedWithinLimits ==
  LET In(t) == {i \in DOMAIN log : log[i].at >= t /\ log[i].at + MaxSkew < t + Window}
      Of(t, h) == {i \in In(t) : log[i].host = h}
  IN /\ \A t \in 0..clock : /\ Cardinality(In(t)) <= GlobalRequests
                            /\ \A h \in RateHosts : Cardinality(Of(t, h)) <= PerHostRequests
     /\ Cardinality(DOMAIN hosts) <= MaxTrackedHosts
     /\ \A h \in RateHosts : refused[h] > clock => Limit(h, clock) # "none"

-----------------------------------------------------------------------------
(***************************************************************************)
(* Canonical hosts and the scope of a browser proxy: NormalizedHost::parse *)
(* and HostScope::authorize on texts over a small alphabet, in which "a"   *)
(* stands for a letter, "0" for a digit, "o" for the ideographic full stop *)
(* that IDNA reads as a dot, "/" for a forbidden character and "A" for a   *)
(* letter that IDNA folds to "a".                                          *)
(* (hns-browser-loopback-proxy: mobile/host.rs and chromium/host.rs; the   *)
(* parsers of hns-namespace-resolution, hns-icann-dane, hns-browser-       *)
(* gateway, hns-browser-resolver and hns-browser-primitives that the host  *)
(* meets on its way)                                                       *)
(***************************************************************************)

CONSTANTS MaxLabel, MaxName,   \* 63 and 253 octets
          IcannTlds, SpecialUse, Blacklisted   \* sets of labels

InvalidHost == <<"invalid">>

is_idna_dot(c) == c \in {".", "o"}
strip_one_terminal_dot(text) ==
  IF text # <<>> /\ is_idna_dot(Last(text)) THEN Front(text) ELSE text

\* idna::domain_to_ascii_cow and to_ascii_lowercase: dots and case are folded.
Fold(c) == IF is_idna_dot(c) THEN "." ELSE IF c = "A" THEN "a" ELSE c
domain_to_ascii(text) == [i \in DOMAIN text |-> Fold(text[i])]

\* str::split('.'): the labels, empty ones included.
Split(text) ==
  LET dots == {i \in DOMAIN text : text[i] = "."}
      after == SetToSortSeq({0} \cup dots, <)
      end(k) == IF k = Len(after) THEN Len(text) ELSE after[k + 1] - 1
  IN [k \in DOMAIN after |-> SubSeq(text, after[k] + 1, end(k))]

ValidLabel(label) ==
  /\ label # <<>> /\ Len(label) <= MaxLabel
  /\ Head(label) # "-" /\ Last(label) # "-"
  /\ \A i \in DOMAIN label : label[i] \in {"a", "b", "0", "-"}
validate_ascii_dns_name(text) ==
  /\ text # <<>> /\ Len(text) <= MaxName /\ Last(text) # "."
  /\ \A k \in DOMAIN Split(text) : ValidLabel(Split(text)[k])

\* The WHATWG reading of one to four numeric labels as an IPv4 address.
is_ipv4_number(label) == label # <<>> /\ \A i \in DOMAIN label : label[i] = "0"
looks_like_legacy_ipv4(text) ==
  LET labels == Split(text)
  IN Len(labels) \in 1..4 /\ \A k \in DOMAIN labels : is_ipv4_number(labels[k])

NormalizedHost(text) ==
  LET stripped == strip_one_terminal_dot(text)
      ascii == domain_to_ascii(stripped)
  IN IF text = <<>> \/ "/" \in ToSet(text) \/ stripped = <<>> \/ is_idna_dot(Last(stripped))
        \/ ~validate_ascii_dns_name(ascii) \/ looks_like_legacy_ipv4(ascii)
       THEN InvalidHost ELSE ascii

\* The candidate is the root, or ends with it after a dot.
is_equal_or_subdomain(candidate, root) ==
  \/ candidate = root
  \/ /\ Len(candidate) > Len(root) /\ IsSuffix(root, candidate)
     /\ candidate[Len(candidate) - Len(root)] = "."

\* HostScope::new and HostScope::authorize; the scope of the Chromium proxy also
\* asks the resolver's classification, isHns, of the root and the candidate.
authorize(root, text, isHns(_)) ==
  LET scope == NormalizedHost(root)
      candidate == NormalizedHost(text)
  IN IF InvalidHost \in {scope, candidate} \/ ~isHns(scope) \/ ~isHns(candidate)
        \/ ~is_equal_or_subdomain(candidate, scope)
       THEN InvalidHost ELSE candidate

\* ObservedHost::new, which the handlers apply to a host they admitted.
ObservedHost(text) ==
  LET labels == Split(text)
  IN IF text = <<>> \/ Len(text) > MaxName
        \/ \E k \in DOMAIN labels : ~ValidLabel(labels[k])
       THEN InvalidHost ELSE text

(***************************************************************************)
(* The parsers behind the proxy.                                           *)
(***************************************************************************)
RECURSIVE trim_end_matches(_)
trim_end_matches(text) == IF text # <<>> /\ Last(text) = "." THEN trim_end_matches(Front(text)) ELSE text
\* str::split at '/', '?' and '#', of which "/" stands for each.
BeforePath(text) ==
  LET ends == {i \in DOMAIN text : text[i] = "/"}
  IN IF ends = {} THEN text ELSE SubSeq(text, 1, Min(ends) - 1)
Lower(text) == [i \in DOMAIN text |-> IF text[i] = "A" THEN "a" ELSE text[i]]
IsIpAddr(text) == LET labels == Split(text) IN Len(labels) = 4 /\ \A k \in 1..4 : is_ipv4_number(labels[k])

normalize_host(text) == BeforePath(Lower(trim_end_matches(text)))

CanonicalHost(text) ==
  LET bare == IF text # <<>> /\ Last(text) = "." THEN Front(text) ELSE text
      labels == Split(Lower(bare))
  IN IF text = <<>> \/ bare = <<>> \/ Last(bare) = "." \/ Len(bare) > MaxName \/ IsIpAddr(bare)
        \/ \E k \in DOMAIN labels : ~ValidLabel(labels[k])
       THEN InvalidHost ELSE Lower(bare)

\* TlsaOwner::derive, up to the service labels in front of the host.
TlsaHost(text) ==
  LET bare == IF text # <<>> /\ Last(text) = "." THEN Front(text) ELSE text
      labels == Split(Lower(bare))
  IN IF bare = <<>> \/ Last(bare) = "." \/ Len(bare) > MaxName \/ IsIpAddr(bare)
        \/ \E k \in DOMAIN labels : ~ValidLabel(labels[k])
       THEN InvalidHost ELSE Lower(bare)

\* DnsName::from_ascii: underscores are labels of DNS names.
DnsLabel(label) == /\ label # <<>> /\ Len(label) <= MaxLabel
                   /\ \A i \in DOMAIN label : label[i] \in {"a", "A", "b", "0", "-", "_"}
DnsName(text) ==
  LET bare == trim_end_matches(text)
      labels == Split(bare)
  IN IF bare = <<>> THEN <<>>
     ELSE IF (\E k \in DOMAIN labels : ~DnsLabel(labels[k])) \/ Len(bare) > MaxName THEN InvalidHost
     ELSE Lower(bare)

validate_handshake_name(label) ==
  /\ label # <<>> /\ Len(label) <= MaxLabel /\ label \notin Blacklisted
  /\ \A i \in DOMAIN label : \/ label[i] \in {"a", "b", "0"}
                             \/ label[i] \in {"-", "_"} /\ i \notin {1, Len(label)}
hns_root_label(text) ==
  LET name == DnsName(BeforePath(text))
  IN IF name \in {InvalidHost, <<>>} \/ ~validate_handshake_name(Last(Split(name))) THEN InvalidHost
     ELSE Last(Split(name))

uses_icann_namespace(host) ==
  LET labels == Split(Lower(host))
  IN Last(labels) \in SpecialUse \/ (Len(labels) > 1 /\ Last(labels) \in IcannTlds)
classify_name(text) ==
  LET host == trim_end_matches(BeforePath(text))
  IN IF host = <<>> THEN "Search"
     ELSE IF IsIpAddr(host) \/ uses_icann_namespace(host) THEN "Icann"
     ELSE IF hns_root_label(host) # InvalidHost THEN "Hns" ELSE "Icann"

\* An authorized host is canonical (parsing it again changes nothing), lies under
\* the scope label by label and not merely as a suffix of text, can be named in
\* an observation, and every spelling that differs only in case, kind of dot or
\* one trailing dot is authorized to the same host (NormalizedHost::parse,
\* HostScope::authorize, ObservedHost::new).
ScopeIsByLabels(root, text) ==
  \A host \in {authorize(root, text, LAMBDA h : TRUE)}, scope \in {NormalizedHost(root)} :
  LET spelled == [i \in DOMAIN text |-> IF text[i] = "." THEN "o" ELSE IF text[i] = "a" THEN "A" ELSE text[i]]
  IN /\ host # InvalidHost =>
          /\ NormalizedHost(host) = host /\ ObservedHost(host) = host
          /\ IsSuffix(Split(scope), Split(host))
     /\ authorize(root, spelled, LAMBDA h : TRUE) = host
     /\ (text # <<>> /\ ~is_idna_dot(Last(text))) =>
          authorize(root, Append(text, "."), LAMBDA h : TRUE) = host
     /\ (/\ NormalizedHost(text) # InvalidHost /\ scope # InvalidHost
         /\ IsSuffix(Split(scope), Split(NormalizedHost(text)))) => host # InvalidHost

\* A host the proxy admits means the same to everyone behind it: the gateway's
\* query, the TLSA owner and the DNS question name exactly that host, and it
\* belongs to the same namespace under every spelling; a host the gateway can
\* query for is one the TLSA owner can be derived from
\* (NormalizedHost::parse, CanonicalHost::parse, TlsaOwner::derive, classify_name).
HostMeansOneThing(text) ==
  LET host == NormalizedHost(text)
      query == CanonicalHost(normalize_host(text))
  IN /\ host # InvalidHost =>
          /\ CanonicalHost(normalize_host(host)) = host /\ TlsaHost(host) = host /\ DnsName(host) = host
          /\ classify_name(host) \in {"Hns", "Icann"}
          /\ "o" \notin ToSet(text) => classify_name(text) = classify_name(host) /\ query = host
          /\ classify_name(host) = "Hns" => hns_root_label(host) = Last(Split(host))
     /\ query # InvalidHost => /\ TlsaHost(query) = query /\ DnsName(query) = query
                               /\ classify_name(query) = classify_name(normalize_host(text))
                               /\ looks_like_legacy_ipv4(query) \/ NormalizedHost(query) = query
=============================================================================
