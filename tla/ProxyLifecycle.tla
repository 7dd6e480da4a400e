--------------------------- MODULE ProxyLifecycle ---------------------------
(***************************************************************************)
(* One generation of the authenticated browser proxy: the listener whose   *)
(* accept thread owns every client worker, the stop protocol shared by     *)
(* every thread that holds the proxy, the announcement of lifecycle events *)
(* and the store of local TLS identities that a stop revokes.              *)
(* (hns-browser-loopback-proxy: listener.rs, server.rs, certificate.rs)    *)
(*                                                                         *)
(* A step is one critical section: what a thread does between two lock     *)
(* acquisitions, atomic accesses or blocking waits.  A thread inside       *)
(* RunningProxy::stop (or inside the listener's exit handler, which runs   *)
(* the same tail) has its position in "call"; the accept thread also has   *)
(* a position of its own in "accept".                                      *)
(***************************************************************************)
EXTENDS Naturals, Sequences, FiniteSets

CONSTANTS External,      \* control threads that hold the RunningProxy
          Workers,       \* client worker threads, one per accepted client
          MaxActive,     \* limits.max_active_clients
          Hosts,         \* canonical hosts of CONNECT requests
          MaxIdentities, \* MAX_CACHED_IDENTITIES
          MaxStops       \* bound on the stop() calls of one behaviour

Accept == "accept"
Threads == External \cup Workers \cup {Accept}
NoOne == "no one"
NoHost == "no host"

VARIABLES
  accept,        \* where the accept thread is in accept_loop_with
  cancelled,     \* CancellationToken
  stopping,      \* ClientControlState.stopping
  streams,       \* registered client sockets, by worker
  worker,        \* the state of each worker thread
  joinable,      \* WorkerSet.handles
  exitReason,    \* ListenerExitReason
  requested,     \* ProxyStopState.requested
  completed,     \* ProxyStopState.completed
  published,     \* ProxyStopState.listening_published
  announcement,  \* StopAnnouncementState; an emitting thread stands for itself
  events,        \* lifecycle events in the order the observer sees them
  call,          \* each thread's stage in stop() or in the exit handler
  alive,         \* the RunningProxy value has not been dropped
  dropper,       \* the thread that drops the last reference
  handle,        \* AcceptThreadState.handle is Some
  joining,       \* AcceptThreadState.joining
  reaping,       \* the reaper's queue holds the accept handle
  active,        \* LocalTlsIdentityStore.active
  entries,       \* hosts with a cached identity
  storeLock,     \* the thread that holds StoreState's mutex
  prep,          \* the host whose identity each worker is preparing
  lease,         \* the host whose identity each worker has leased
  stops          \* stop() calls made so far

listenerVars == <<accept, cancelled, stopping, streams, worker, joinable, exitReason>>
stopVars == <<requested, completed, published, announcement, events>>
ownerVars == <<alive, dropper, handle, joining, reaping>>
storeVars == <<active, entries, storeLock, prep, lease>>
proxyVars == <<listenerVars, stopVars, ownerVars, storeVars, call, stops>>

Owned(t) == t \in Workers \cup {Accept}
Running == {w \in Workers : worker[w] = "running"}

ListenerInit ==
  /\ accept = "loop" /\ exitReason = "Requested"
  /\ cancelled = FALSE /\ stopping = FALSE
  /\ streams = {} /\ joinable = {}
  /\ worker = [w \in Workers |-> "none"]
  /\ requested = FALSE /\ completed = FALSE /\ published = FALSE
  /\ announcement = "Pending" /\ events = <<>>
  /\ call = [t \in Threads |-> "none"] /\ stops = 0
  /\ alive = TRUE /\ dropper = NoOne
  /\ handle = TRUE /\ joining = FALSE /\ reaping = FALSE
  /\ active = TRUE /\ entries = {} /\ storeLock = NoOne
  /\ prep = [w \in Workers |-> NoHost] /\ lease = [w \in Workers |-> NoHost]

(***************************************************************************)
(* Starting: the accept thread already runs when the starter emits         *)
(* Listening and publishes it.                                             *)
(***************************************************************************)
EmitListening ==
  /\ ~published /\ "Listening" \notin {events[i] : i \in DOMAIN events}
  /\ events' = Append(events, "Listening")
  /\ UNCHANGED <<listenerVars, requested, completed, published, announcement,
                 ownerVars, storeVars, call, stops>>

publish_listening ==
  /\ ~published /\ "Listening" \in {events[i] : i \in DOMAIN events}
  /\ published' = TRUE
  /\ UNCHANGED <<listenerVars, requested, completed, announcement, events,
                 ownerVars, storeVars, call, stops>>

(***************************************************************************)
(* RunningProxy::stop, one action per critical section.                    *)
(***************************************************************************)
Enter(t, stage) == call' = [call EXCEPT ![t] = stage]

\* A thread whose code may run a callback or user code: an external thread, a
\* worker in its handler, the accept thread in a rejection callback.
MayCall(t) ==
  /\ call[t] = "none" /\ alive /\ published
  /\ \/ t \in External
     \/ t \in Running /\ prep[t] = NoHost
     \/ t = Accept /\ accept = "accepted" /\ Cardinality(Running) >= MaxActive

stop(t) ==
  /\ MayCall(t) /\ stops < MaxStops
  /\ requested' = TRUE /\ stops' = stops + 1
  /\ Enter(t, "cancel")
  /\ UNCHANGED <<listenerVars, completed, published, announcement, events,
                 ownerVars, storeVars>>

\* Dropping the last reference: no other thread can be inside stop(&self).
Drop(t) ==
  /\ MayCall(t) /\ \A u \in Threads : call[u] # "none" => u = Accept /\ accept \in {"failed", "quiesced"}
  /\ alive' = FALSE /\ dropper' = t /\ requested' = TRUE
  /\ Enter(t, "cancel")
  /\ UNCHANGED <<listenerVars, completed, published, announcement, events,
                 handle, joining, reaping, storeVars, stops>>

request_stop_cancel(t) ==
  /\ call[t] = "cancel"
  /\ cancelled' = TRUE
  /\ Enter(t, "shutdown")
  /\ UNCHANGED <<accept, stopping, streams, worker, joinable, exitReason,
                 stopVars, ownerVars, storeVars, stops>>

begin_stop(t) ==
  /\ call[t] = "shutdown"
  /\ stopping' = TRUE
  /\ Enter(t, "revoke")
  /\ UNCHANGED <<accept, cancelled, streams, worker, joinable, exitReason,
                 stopVars, ownerVars, storeVars, stops>>

deactivate_flag(t) ==
  /\ call[t] = "revoke"
  /\ active' = FALSE
  /\ Enter(t, "clear")
  /\ UNCHANGED <<listenerVars, stopVars, ownerVars, entries, storeLock, prep, lease, stops>>

deactivate_clear(t) ==
  /\ call[t] = "clear" /\ storeLock = NoOne
  /\ entries' = {}
  /\ Enter(t, "announce")
  /\ UNCHANGED <<listenerVars, stopVars, ownerVars, active, storeLock, prep, lease, stops>>

\* What a thread does once Stopping has been emitted by somebody.
AfterAnnounce(t) ==
  CASE t = Accept /\ accept = "failed" -> "none"
    [] t = Accept /\ accept = "quiesced" -> "complete"
    [] OTHER -> "join"

\* StopAnnouncement::announce: the first caller emits Stopping; the others wait
\* on the condition variable until it has been emitted.
announce(t) ==
  /\ call[t] = "announce" /\ (t = Accept => published)
  /\ \/ /\ announcement = "Pending"
        /\ announcement' = t /\ events' = Append(events, "Stopping")
        /\ Enter(t, "emitting")
        /\ UNCHANGED accept
     \/ /\ announcement = "Emitted"
        /\ Enter(t, AfterAnnounce(t))
        /\ accept' = IF t = Accept /\ accept = "failed" THEN "joining" ELSE accept
        /\ UNCHANGED <<announcement, events>>
  /\ UNCHANGED <<cancelled, stopping, streams, worker, joinable, exitReason,
                 requested, completed, published, ownerVars, storeVars, stops>>

announce_emitted(t) ==
  /\ call[t] = "emitting"
  /\ announcement' = "Emitted"
  /\ Enter(t, AfterAnnounce(t))
  /\ accept' = IF t = Accept /\ accept = "failed" THEN "joining" ELSE accept
  /\ UNCHANGED <<cancelled, stopping, streams, worker, joinable, exitReason,
                 requested, completed, published, events, ownerVars, storeVars, stops>>

Return(t) == IF dropper = t THEN "release" ELSE "none"

\* OwnedListener::stop and AcceptThread::join: an owned thread never joins; of
\* the others one takes the handle and the rest wait for it.
join(t) ==
  /\ call[t] = "join"
  /\ IF Owned(t)
       THEN Enter(t, Return(t)) /\ UNCHANGED <<handle, joining>>
       ELSE \/ /\ handle
               /\ handle' = FALSE /\ joining' = TRUE
               /\ Enter(t, "joining")
            \/ /\ ~handle /\ ~joining
               /\ Enter(t, "complete") /\ UNCHANGED <<handle, joining>>
  /\ UNCHANGED <<listenerVars, stopVars, alive, dropper, reaping, storeVars, stops>>

\* Mutant: the joiner does not wake the threads that wait for it.
joined_silently(t) ==
  /\ call[t] = "joining" /\ accept = "exited"
  /\ Enter(t, "complete")
  /\ UNCHANGED <<listenerVars, stopVars, alive, dropper, handle, joining, reaping, storeVars, stops>>

joined(t) ==
  /\ call[t] = "joining" /\ accept = "exited"
  /\ joining' = FALSE
  /\ Enter(t, "complete")
  /\ UNCHANGED <<listenerVars, stopVars, alive, dropper, handle, reaping, storeVars, stops>>

\* Mutant: completed is stored, not swapped.
complete_every_time(t) ==
  /\ call[t] = "complete"
  /\ completed' = TRUE /\ events' = Append(events, "Stopped")
  /\ Enter(t, IF t = Accept /\ accept = "quiesced" THEN "none" ELSE Return(t))
  /\ accept' = IF t = Accept /\ accept = "quiesced" THEN "exited" ELSE accept
  /\ UNCHANGED <<cancelled, stopping, streams, worker, joinable, exitReason,
                 requested, published, announcement, ownerVars, storeVars, stops>>

complete(t) ==
  /\ call[t] = "complete"
  /\ completed' = TRUE
  /\ events' = IF completed THEN events ELSE Append(events, "Stopped")
  /\ Enter(t, IF t = Accept /\ accept = "quiesced" THEN "none" ELSE Return(t))
  /\ accept' = IF t = Accept /\ accept = "quiesced" THEN "exited" ELSE accept
  /\ UNCHANGED <<cancelled, stopping, streams, worker, joinable, exitReason,
                 requested, published, announcement, ownerVars, storeVars, stops>>

\* Drop for OwnedListener: an owned thread hands the accept handle to the
\* reaper unless somebody is joining it; any other thread has joined already.
Handoff == handle /\ ~joining
drop_listener(t) ==
  /\ call[t] = "release"
  /\ Enter(t, "none") /\ dropper' = NoOne
  /\ IF Owned(t) /\ Handoff
       THEN reaping' = TRUE /\ handle' = FALSE
       ELSE UNCHANGED <<reaping, handle>>
  /\ UNCHANGED <<listenerVars, stopVars, alive, joining, storeVars, stops>>

\* The observer drops the last reference while the accept thread announces: the
\* nested stop() returns from announce at once and the handle goes to the reaper.
DropInAnnouncement ==
  /\ call[Accept] = "emitting" /\ alive
  /\ \A u \in Threads \ {Accept} : call[u] = "none"
  /\ alive' = FALSE
  /\ handle' = FALSE /\ reaping' = Handoff
  /\ UNCHANGED <<listenerVars, stopVars, dropper, joining, storeVars, call, stops>>

\* AcceptReaper::run
reaper_run ==
  /\ reaping /\ accept = "exited"
  /\ reaping' = FALSE
  /\ UNCHANGED <<listenerVars, stopVars, alive, dropper, handle, joining, storeVars, call, stops>>

(***************************************************************************)
(* The accept thread.                                                      *)
(***************************************************************************)
InLoop == call[Accept] = "none"

reap_finished == joinable' = {w \in joinable : worker[w] = "running"}

accept_client ==
  /\ InLoop /\ accept = "loop" /\ ~cancelled
  /\ accept' = "accepted" /\ reap_finished
  /\ UNCHANGED <<cancelled, stopping, streams, worker, exitReason,
                 stopVars, ownerVars, storeVars, call, stops>>

\* ClientControls::register, ActiveClientLimiter::try_acquire and the spawn.
register_and_spawn(w) ==
  /\ InLoop /\ accept = "accepted" /\ ~stopping
  /\ Cardinality(Running) < MaxActive /\ worker[w] = "none"
  /\ accept' = "loop"
  /\ streams' = streams \cup {w} /\ joinable' = joinable \cup {w}
  /\ worker' = [worker EXCEPT ![w] = "running"]
  /\ UNCHANGED <<cancelled, stopping, exitReason, stopVars, ownerVars, storeVars, call, stops>>

\* A full listener answers on the accept thread; a socket that cannot be
\* configured, cloned or given a thread is closed.
turn_away ==
  /\ InLoop /\ accept = "accepted"
  /\ accept' = "loop"
  /\ UNCHANGED <<cancelled, stopping, streams, worker, joinable, exitReason,
                 stopVars, ownerVars, storeVars, call, stops>>

leave_loop ==
  /\ InLoop
  /\ \/ accept = "loop" /\ cancelled
     \/ accept = "accepted" /\ (cancelled \/ stopping)
  /\ accept' = "joining"
  /\ UNCHANGED <<cancelled, stopping, streams, worker, joinable, exitReason,
                 stopVars, ownerVars, storeVars, call, stops>>

\* A permanent accept error: cancel() tells a failure from a stop that raced it,
\* and FailureDetected runs the exit handler on this thread.
accept_error ==
  /\ InLoop /\ accept = "loop"
  /\ IF cancelled
       THEN accept' = "joining" /\ UNCHANGED <<cancelled, stopping, exitReason, requested, call>>
       ELSE /\ accept' = "failed" /\ exitReason' = "ListenerFailure"
            /\ cancelled' = TRUE /\ stopping' = TRUE /\ requested' = TRUE
            /\ Enter(Accept, "revoke")
  /\ UNCHANGED <<streams, worker, joinable, completed, published, announcement, events,
                 ownerVars, storeVars, stops>>

\* Drop for WorkerSet: cancel, close the sockets, join every worker.
worker_set_drop ==
  /\ InLoop /\ accept = "joining"
  /\ cancelled' = TRUE /\ stopping' = TRUE /\ accept' = "draining"
  /\ UNCHANGED <<streams, worker, joinable, exitReason, stopVars, ownerVars, storeVars, call, stops>>

workers_joined ==
  /\ InLoop /\ accept = "draining" /\ \A w \in joinable : worker[w] = "finished"
  /\ joinable' = {} /\ accept' = "quiesced" /\ requested' = TRUE
  /\ Enter(Accept, "revoke")
  /\ UNCHANGED <<cancelled, stopping, streams, worker, exitReason, completed, published,
                 announcement, events, ownerVars, storeVars, stops>>

(***************************************************************************)
(* Client workers: CONNECT requests prepare a TLS identity under the       *)
(* store's lock; every handler ends.                                       *)
(***************************************************************************)
Busy(w) == worker[w] = "running" /\ call[w] = "none"

prepare_lock(w, h) ==
  /\ Busy(w) /\ prep[w] = NoHost /\ lease[w] = NoHost
  /\ storeLock = NoOne /\ active
  /\ storeLock' = w /\ prep' = [prep EXCEPT ![w] = h]
  /\ UNCHANGED <<listenerVars, stopVars, ownerVars, active, entries, lease, call, stops>>

\* The code evicts the least recently used identity without a lease; which one it
\* is does not matter here, so any is.
Leased == {lease[w] : w \in Workers}
prepare_insert(w) ==
  /\ storeLock = w /\ prep[w] \notin entries /\ active
  /\ \/ /\ Cardinality(entries) < MaxIdentities
        /\ entries' = entries \cup {prep[w]}
     \/ /\ Cardinality(entries) >= MaxIdentities
        /\ \E evicted \in entries \ Leased : entries' = (entries \ {evicted}) \cup {prep[w]}
  /\ UNCHANGED <<listenerVars, stopVars, ownerVars, active, storeLock, prep, lease, call, stops>>

prepare_finish(w) ==
  /\ storeLock = w
  /\ \/ /\ prep[w] \in entries /\ active
        /\ lease' = [lease EXCEPT ![w] = prep[w]] /\ UNCHANGED entries
     \/ /\ ~active
        /\ entries' = entries \ {prep[w]} /\ UNCHANGED lease
     \/ \* the cache is full of leased identities, or generation fails
        /\ prep[w] \notin entries /\ UNCHANGED <<entries, lease>>
  /\ storeLock' = NoOne /\ prep' = [prep EXCEPT ![w] = NoHost]
  /\ UNCHANGED <<listenerVars, stopVars, ownerVars, active, call, stops>>

worker_finish(w) ==
  /\ Busy(w) /\ prep[w] = NoHost
  /\ worker' = [worker EXCEPT ![w] = "finished"]
  /\ streams' = streams \ {w} /\ lease' = [lease EXCEPT ![w] = NoHost]
  /\ UNCHANGED <<accept, cancelled, stopping, joinable, exitReason, stopVars, ownerVars,
                 active, entries, storeLock, prep, call, stops>>

(***************************************************************************)
(* Each thread runs; a handler must end only once its socket has been shut *)
(* down, which is the contract OwnedListener states for client handlers.   *)
(***************************************************************************)
StopStep(t) ==
  \/ request_stop_cancel(t) \/ begin_stop(t) \/ deactivate_flag(t) \/ deactivate_clear(t)
  \/ announce(t) \/ announce_emitted(t) \/ join(t) \/ joined(t) \/ complete(t)
  \/ drop_listener(t)
StartStep == EmitListening \/ publish_listening
AcceptStep == accept_client \/ turn_away \/ leave_loop \/ worker_set_drop \/ workers_joined
              \/ \E w \in Workers : register_and_spawn(w)
PrepareStep(w) == prepare_insert(w) \/ prepare_finish(w)

ListenerNext ==
  \/ StartStep \/ AcceptStep \/ accept_error \/ reaper_run \/ DropInAnnouncement
  \/ \E t \in Threads : stop(t) \/ Drop(t) \/ StopStep(t)
  \/ \E w \in Workers : \/ PrepareStep(w) \/ worker_finish(w)
                        \/ \E h \in Hosts : prepare_lock(w, h)

ListenerFairness ==
  /\ WF_proxyVars(StartStep) /\ WF_proxyVars(AcceptStep) /\ WF_proxyVars(reaper_run)
  /\ \A t \in Threads : WF_proxyVars(StopStep(t))
  /\ \A w \in Workers : WF_proxyVars(PrepareStep(w)) /\ WF_proxyVars(stopping /\ worker_finish(w))

ListenerSpec == ListenerInit /\ [][ListenerNext]_proxyVars /\ ListenerFairness

(***************************************************************************)
(* Properties.                                                             *)
(***************************************************************************)

\* The observer sees Listening, then Stopping, then Stopped, each at most once,
\* whichever threads stop, fail or start at the same time (ProxyStopState,
\* StopAnnouncement, listener_exit_handler).
LifecycleEventsInOrder ==
  \E n \in 0..3 : events = SubSeq(<<"Listening", "Stopping", "Stopped">>, 1, n)

\* When Stopped is reported no client worker runs, no socket is registered, no
\* TLS identity can be prepared or is leased, and the store is empty; and from
\* the moment Stopping is announced the store is empty already (complete,
\* WorkerSet::drop, LocalTlsIdentityStore::deactivate and prepare).
StoppedIsQuiet ==
  /\ announcement # "Pending" => ~active /\ entries = {}
  /\ completed => Running = {} /\ streams = {} /\ joinable = {} /\ Leased = {NoHost}

\* A proxy that is called, or whose stop was requested by a call, a drop or a
\* listener failure, comes to rest: every call of stop() and every drop has
\* returned, the accept thread has exited, Stopped is reported and the reaper has
\* nothing left to join.  (The calls of a behaviour are bounded, so none of them
\* can be overtaken for ever.)
Due == requested \/ \E t \in Threads : call[t] # "none"
AtRest ==
  /\ accept = "exited" /\ completed /\ ~reaping /\ ~joining
  /\ \A t \in Threads : call[t] = "none"
-----------------------------------------------------------------------------
(***************************************************************************)
(* The raw CONNECT tunnel of the Chromium proxy: an upload and a download  *)
(* thread share the two sockets, the word that records which of them ended *)
(* first and the shutdown of both sockets.                                 *)
(* (hns-browser-loopback-proxy: chromium/server.rs, pump_connect_tunnel)   *)
(***************************************************************************)

VARIABLES stopped,   \* the generation's CancellationToken
          peer,      \* each peer: "open", "slow" (once did not read for 250 ms),
                     \* "closed" (end of stream) or "failed"
          shut,      \* the sockets shut down by this side
          dir,       \* where each direction is in its loop
          result,    \* the outcome a direction broke out of its loop with
          first,     \* first_outcome; "none" is 0
          returned   \* what pump_connect_tunnel returned

tunnelVars == <<stopped, peer, shut, dir, result, first, returned>>

Sides == {"client", "origin"}
Directions == {"upload", "download"}
\* The socket a direction reads and the one it writes.
Reads(d) == IF d = "upload" THEN "client" ELSE "origin"
Writes(d) == IF d = "upload" THEN "origin" ELSE "client"
Fault(s) == IF s = "client" THEN "ClientIo" ELSE "OriginIo"

TunnelInit ==
  /\ stopped = FALSE /\ peer = [s \in Sides |-> "open"] /\ shut = {}
  /\ dir = [d \in Directions |-> "loop"] /\ result = [d \in Directions |-> "none"]
  /\ first = "none" /\ returned = "none"

\* The sockets could not be cloned or configured, or the upload thread could not
\* be started: shut both down and return before any byte moves.
setup_failed ==
  /\ dir = [d \in Directions |-> "loop"] /\ first = "none" /\ returned = "none" /\ shut = {}
  /\ shut' = Sides /\ dir' = [d \in Directions |-> "done"]
  /\ returned' \in {"ClientIo", "OriginIo"}
  /\ UNCHANGED <<stopped, peer, result, first>>

Break(d, outcome) ==
  /\ dir' = [dir EXCEPT ![d] = "record"] /\ result' = [result EXCEPT ![d] = outcome]
  /\ UNCHANGED <<stopped, peer, shut, first, returned>>
Move(d, to) ==
  /\ dir' = [dir EXCEPT ![d] = to] /\ UNCHANGED <<stopped, peer, shut, result, first, returned>>

\* The head of the loop: cancellation first, then the other direction's outcome.
pump_check(d) ==
  /\ dir[d] = "loop" /\ returned = "none"
  /\ IF stopped THEN Break(d, "Cancelled")
     ELSE IF first # "none" THEN Move(d, "done")
     ELSE Move(d, "io")

Gone(s) == peer[s] \in {"closed", "failed"}
Ended(s) == s \in shut \/ Gone(s)
FaultOf(s) == IF stopped THEN "Cancelled" ELSE Fault(s)

\* One read with a bounded wait, and the write of what it returned.  A read that
\* times out is taken up again; a write to the client that does
\* (CONNECT_TUNNEL_IO_TIMEOUT) ends the tunnel.
pump_io(d) ==
  /\ dir[d] = "io"
  /\ LET r == Reads(d)
         w == Writes(d)
     IN \/ (r \in shut \/ peer[r] = "closed") /\ Break(d, "Completed")
        \/ (r \in shut \/ peer[r] = "failed") /\ Break(d, FaultOf(r))
        \/ ~Ended(r) /\ ~Ended(w) /\ Move(d, "loop")
        \/ ~Ended(r) /\ (Ended(w) \/ peer[w] = "slow") /\ Break(d, FaultOf(w))
        \/ ~Ended(r) /\ Move(d, "loop")

\* record_connect_outcome: compare_exchange from 0.
record_connect_outcome(d) ==
  /\ dir[d] = "record"
  /\ first' = IF first = "none" THEN result[d] ELSE first
  /\ dir' = [dir EXCEPT ![d] = "shut"]
  /\ UNCHANGED <<stopped, peer, shut, result, returned>>

pump_shutdown(d) ==
  /\ dir[d] = "shut"
  /\ shut' = Sides /\ dir' = [dir EXCEPT ![d] = "done"]
  /\ UNCHANGED <<stopped, peer, result, first, returned>>

\* The worker runs the download itself, then joins the upload.
connect_outcome ==
  /\ \A d \in Directions : dir[d] = "done"
  /\ returned = "none" /\ returned' = IF first = "none" THEN "OriginIo" ELSE first
  /\ UNCHANGED <<stopped, peer, shut, dir, result, first>>

\* The world: a peer closes or fails, the client may stop reading for a while; a stop
\* cancels and then shuts the client's socket (ClientControls::begin_stop); the
\* backend may revoke the origin.
PeerEnds ==
  /\ \/ \E s \in Sides, e \in {"closed", "failed"} : ~Gone(s) /\ peer' = [peer EXCEPT ![s] = e]
     \/ peer["client"] = "open" /\ peer' = [peer EXCEPT !["client"] = "slow"]
  /\ UNCHANGED <<stopped, shut, dir, result, first, returned>>
StopGeneration == /\ ~stopped /\ stopped' = TRUE
                  /\ UNCHANGED <<peer, shut, dir, result, first, returned>>
StopClosesClient == /\ stopped /\ "client" \notin shut /\ shut' = shut \cup {"client"}
                    /\ UNCHANGED <<stopped, peer, dir, result, first, returned>>

PumpStep(d) == pump_check(d) \/ pump_io(d) \/ record_connect_outcome(d) \/ pump_shutdown(d)
TunnelNext == \/ setup_failed \/ connect_outcome \/ PeerEnds \/ StopGeneration \/ StopClosesClient
              \/ \E d \in Directions : PumpStep(d)

\* What is returned is what the first direction to end saw: an end of stream
\* that a peer or the stop caused, a fault of the side that failed (or of a client
\* that did not read in time), or the cancellation; and no socket is still open for the other thread to wait on.
OutcomeIsTrue ==
  returned # "none" =>
    /\ shut = Sides
    /\ returned = "Completed" => stopped \/ \E s \in Sides : peer[s] = "closed"
    /\ returned = "Cancelled" => stopped
    /\ first = "ClientIo" => stopped \/ peer["client"] # "open"
    /\ first = "OriginIo" => stopped \/ peer["origin"] # "open"

\* Once a peer has ended or the generation is cancelled, the tunnel ends: neither
\* direction waits for the other (pump_connect_upload, pump_connect_download).
TunnelDue == stopped \/ \E s \in Sides : Gone(s)
-----------------------------------------------------------------------------
(***************************************************************************)
(* One HTTP/1.1 request to an explicit address under an absolute deadline  *)
(* and a cancellation flag that another thread sets.  Every wait on the    *)
(* socket is cut into polls no longer than the time left.                  *)
(* (hns-browser-transport: fetch_http11_with_control, ControlledTcpStream  *)
(* and controlled_remaining of mobile.rs and chromium.rs)                  *)
(***************************************************************************)

CONSTANTS Deadline,        \* the deadline, in clock ticks from the start
          PollInterval,    \* poll_interval
          ConnectTimeout,  \* connect_timeout
          MaxIo            \* socket operations of a whole exchange

VARIABLES time, cancel, stage,
          waits,   \* the end of the wait the thread is in
          done,    \* socket operations done
          ends,    \* the result
          noticed  \* ticks since the cancellation or the deadline
fetchVars == <<time, cancel, stage, waits, done, ends, noticed>>

FetchInit ==
  /\ time = 0 /\ cancel = FALSE /\ stage = "start" /\ waits = 0 /\ done = 0
  /\ ends = "none" /\ noticed = 0

Shorter(a, b) == IF a < b THEN a ELSE b
Finish(outcome) == stage' = "ended" /\ ends' = outcome /\ UNCHANGED <<waits, done>>

\* controlled_remaining, and next_timeout of the stream: what stops the request.
controlled_remaining ==
  IF cancel THEN "cancelled" ELSE IF time >= Deadline THEN "deadline" ELSE "ok"

Begin ==
  /\ stage = "start"
  /\ IF controlled_remaining # "ok" THEN Finish(controlled_remaining)
     ELSE /\ stage' = "connecting" /\ waits' = time + Shorter(ConnectTimeout, Deadline - time)
          /\ UNCHANGED <<done, ends>>
  /\ UNCHANGED <<time, cancel, noticed>>

\* connect_timeout returns a socket or an error, at the latest when it is due.
Connected(ok) ==
  /\ stage = "connecting"
  /\ ok => time < waits
  /\ IF controlled_remaining # "ok" THEN Finish(controlled_remaining)
     ELSE IF ok THEN stage' = "between" /\ UNCHANGED <<waits, done, ends>>
     ELSE Finish("io")
  /\ UNCHANGED <<time, cancel, noticed>>

\* next_timeout before a read or a write.
next_timeout ==
  /\ stage = "between" /\ done < MaxIo
  /\ IF controlled_remaining # "ok" THEN Finish(controlled_remaining)
     ELSE /\ stage' = "waiting" /\ waits' = time + Shorter(PollInterval, Deadline - time)
          /\ UNCHANGED <<done, ends>>
  /\ UNCHANGED <<time, cancel, noticed>>

\* The operation succeeds, times out and is polled again, or fails.
Io(outcome) ==
  /\ stage = "waiting"
  /\ outcome = "timeout" <=> time >= waits
  /\ CASE outcome = "done" -> stage' = "between" /\ done' = done + 1 /\ UNCHANGED <<waits, ends>>
       [] outcome = "timeout" -> stage' = "between" /\ UNCHANGED <<waits, done, ends>>
       [] OTHER -> Finish("io")
  /\ UNCHANGED <<time, cancel, noticed>>

\* The response is complete: one last look before it is returned.
ResponseComplete ==
  /\ stage = "between" /\ done = MaxIo
  /\ Finish(controlled_remaining)
  /\ UNCHANGED <<time, cancel, noticed>>

Cancel == ~cancel /\ stage # "ended" /\ cancel' = TRUE /\ UNCHANGED <<time, stage, waits, done, ends, noticed>>

\* Time passes; a wait that is due returns before the next tick.
Clock ==
  /\ stage \in {"connecting", "waiting"} /\ time < waits
  /\ time' = time + 1
  /\ noticed' = IF cancel \/ time >= Deadline THEN noticed + 1 ELSE noticed
  /\ UNCHANGED <<cancel, stage, waits, done, ends>>

FetchThread ==
  \/ Begin \/ next_timeout \/ ResponseComplete
  \/ \E ok \in BOOLEAN : Connected(ok)
  \/ \E outcome \in {"done", "timeout", "error"} : Io(outcome)
FetchNext == FetchThread \/ Cancel \/ Clock

\* A whole exchange is a success only before the deadline and with no cancellation
\* before its last look at the flag, the reason given is true, and a cancelled or overdue request ends within one
\* poll, or within the connect it is in (controlled_remaining, next_timeout).
ControlIsObeyed ==
  /\ stage = "ended" /\ ends = "ok" => time < Deadline /\ ~cancel /\ done = MaxIo
  /\ ends = "cancelled" => cancel
  /\ ends = "deadline" => time >= Deadline
  /\ noticed <= (IF done = 0 /\ stage # "waiting" THEN Shorter(ConnectTimeout, Deadline) ELSE PollInterval)
  /\ time <= Deadline

=============================================================================
