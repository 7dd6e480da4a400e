-------------------------- MODULE AuthorityBrokers --------------------------
(***************************************************************************)
(* The brokers of named authority (hns-dane-engine/src/hrm_hnsa_broker.rs  *)
(* and hrm_hnsa_hnsr_broker.rs) in several processes over one trusted      *)
(* backend.  A broker runs an operation on the current state of a subject, *)
(* and for a route on the requester's state too, under fenced leases.      *)
(*                                                                         *)
(* The backend and the protocol crate's aggregates are external and follow *)
(* the contract the backend traits state: a write is a compare-and-swap    *)
(* under the fence whose outcome may stay unknown, a load may return an    *)
(* old snapshot but never a lower floor, and a lease may be lost at any    *)
(* moment.                                                                 *)
(***************************************************************************)
EXTENDS Integers, Sequences, FiniteSets, TLC, TransportAuthority, FiniteSetsExt

CONSTANTS Brokers,            \* processes
          Subjects,           \* authority subjects
          Requester,          \* the lineage of the requester aggregate
          MaximumLiveSubjects, MaxRevision, MaxNow, MaxJobs

VARIABLES lease,              \* lineage -> [owner, fence]
          history,            \* lineage -> snapshots written, in order
          live,               \* broker -> lineage -> the aggregate in memory
          job,                \* broker -> its operation
          trusted,                \* the trusted clock
          released,           \* the result released last
          jobs                \* operations begun

brokerVars == <<lease, history, live, job, trusted, released, jobs>>

Lineages == Subjects \cup {Requester}
Free == [owner |-> "", fence |-> 0]
NoSnapshot == [writer |-> "", revision |-> 0, time |-> 0]
Vacant == [held |-> FALSE, committed |-> NoSnapshot, pending |-> NoSnapshot]
NoJob == [pc |-> "idle", subject |-> "", route |-> FALSE, at |-> "", now |-> 0,
          fence |-> [l \in Lineages |-> 0], result |-> ""]
NoRelease == [held |-> {}, used |-> {}, durable |-> {}, time |-> 0]

Stored(l) == IF history[l] = <<>> THEN NoSnapshot ELSE history[l][Len(history[l])]
Needs(j) == IF j.route THEN {j.subject, Requester} ELSE {j.subject}
Holds(b, l) == lease[l].owner = b /\ lease[l].fence = job[b].fence[l]
ensure_held(b) == \A l \in Needs(job[b]) : Holds(b, l)

Set(b, next) == job' = [job EXCEPT ![b] = next]
\* The guards are dropped, the operation is over.
Dropped(b) == [l \in Lineages |-> IF lease[l].owner = b THEN [lease[l] EXCEPT !.owner = ""] ELSE lease[l]]
End(b) == Set(b, NoJob) /\ lease' = Dropped(b)
\* An early return with an error.
Fails(b) == End(b) /\ UNCHANGED <<history, live, trusted, released, jobs>>
At(b, pc) == job[b].pc = pc

-----------------------------------------------------------------------------
(* Entry.                                                                  *)

validate_and_admit(b, subject) ==
  \/ live[b][subject].held
  \/ Cardinality({s \in Subjects : live[b][s].held}) < MaximumLiveSubjects

\* with_current_named_service admits the subject before the lease; with_current_named_route
\* asks only once both leases are held.
Begin(b, subject, route) ==
  /\ At(b, "idle") /\ jobs < MaxJobs
  /\ route \/ validate_and_admit(b, subject)
  /\ Set(b, [NoJob EXCEPT !.pc = "acquire", !.subject = subject, !.route = route, !.at = subject])
  /\ jobs' = jobs + 1
  /\ UNCHANGED <<lease, history, live, trusted, released>>

\* The authority lease, then the requester's.
Acquire(b) ==
  /\ At(b, "acquire")
  /\ LET l == job[b].at
         next == [job[b] EXCEPT !.fence[l] = lease[l].fence + 1]
     IN \/ /\ lease[l].owner = "" /\ lease' = [lease EXCEPT ![l] = [owner |-> b, fence |-> @.fence + 1]]
           /\ Set(b, IF job[b].route /\ l # Requester THEN [next EXCEPT !.at = Requester]
                     ELSE [next EXCEPT !.pc = "enter", !.at = job[b].subject])
           /\ UNCHANGED <<history, live, trusted, released, jobs>>
        \/ Fails(b)

\* One trusted time for the whole operation.
Enter(b) ==
  /\ At(b, "enter")
  /\ IF ensure_held(b) /\ validate_and_admit(b, job[b].subject)
     THEN /\ Set(b, [job[b] EXCEPT !.pc = "load", !.now = trusted])
          /\ UNCHANGED <<lease, history, live, trusted, released, jobs>>
     ELSE Fails(b)

-----------------------------------------------------------------------------
(* One lineage: its aggregate is loaded if need be, reconfirmed, advanced  *)
(* to the operation's time before anything is retrieved, and then again    *)
(* with what was retrieved.                                                *)

Known(b, l) == live[b][l]
\* A load returns some snapshot that was written, Absent only before the first.
Loads(l) == IF history[l] = <<>> THEN {NoSnapshot} ELSE {history[l][i] : i \in DOMAIN history[l]}
Restorable(l, s, time) == s.revision >= Stored(l).revision /\ s.time <= time

Load(b) ==
  LET l == job[b].at
      next == [job[b] EXCEPT !.pc = "reconfirm"]
  IN /\ At(b, "load")
     /\ IF ~ensure_held(b) THEN Fails(b)
        ELSE IF Known(b, l).held
        THEN Set(b, next) /\ UNCHANGED <<lease, history, live, trusted, released, jobs>>
        ELSE \E s \in Loads(l) :
               IF Restorable(l, s, job[b].now)
               THEN /\ live' = [live EXCEPT ![b][l] = [held |-> TRUE, committed |-> s, pending |-> NoSnapshot]]
                    /\ Set(b, next)
                    /\ UNCHANGED <<lease, history, trusted, released, jobs>>
               ELSE Fails(b)

\* The aggregate must be the snapshot the backend holds, or the proposal whose outcome
\* was unknown must turn out to be; a proposal that was not written is retried.
reconfirm(b) ==
  LET l == job[b].at
      s == Stored(l)
      k == Known(b, l)
  IN /\ At(b, "reconfirm")
     /\ CASE ~ensure_held(b) -> Fails(b)
          [] s = k.committed ->
               /\ Set(b, [job[b] EXCEPT !.pc = IF k.pending = NoSnapshot THEN "time" ELSE "retry"])
               /\ UNCHANGED <<lease, history, live, trusted, released, jobs>>
          [] s # k.committed /\ s = k.pending ->
               /\ live' = [live EXCEPT ![b][l] = [@ EXCEPT !.committed = s, !.pending = NoSnapshot]]
               /\ Set(b, [job[b] EXCEPT !.pc = "time"])
               /\ UNCHANGED <<lease, history, trusted, released, jobs>>
          [] OTHER -> Fails(b)

\* persist: an exact fenced compare-and-swap.  The broker hears of success, or of a
\* failure that may have been written; then the proposal stays pending.
Persist(b, proposal, after) ==
  LET l == job[b].at
      exact == Holds(b, l) /\ Stored(l) = Known(b, l).committed
      Written == history' = [history EXCEPT ![l] = Append(@, proposal)]
      Pending == live' = [live EXCEPT ![b][l].pending = proposal]
  IN \/ /\ exact /\ Written
        /\ live' = [live EXCEPT ![b][l] = [@ EXCEPT !.committed = proposal, !.pending = NoSnapshot]]
        /\ Set(b, [job[b] EXCEPT !.pc = after])
        /\ UNCHANGED <<lease, trusted, released, jobs>>
     \/ /\ \/ exact /\ Written
           \/ UNCHANGED history
        /\ Pending /\ End(b)
        /\ UNCHANGED <<trusted, released, jobs>>

Proposal(b) ==
  LET k == Known(b, job[b].at).committed
  IN [writer |-> b, revision |-> k.revision + 1, time |-> job[b].now]
CanGrow(l) == Len(history[l]) < MaxRevision

Retry(b) == At(b, "retry") /\ CanGrow(job[b].at) /\ Persist(b, Known(b, job[b].at).pending, "time")

\* The time of the operation is written before the retrieval; a clock behind the state
\* is refused.
ObserveTime(b) ==
  LET time == Known(b, job[b].at).committed.time
  IN /\ At(b, "time")
     /\ CASE job[b].now < time -> Fails(b)
          [] job[b].now = time /\ history[job[b].at] # <<>> ->
               Set(b, [job[b] EXCEPT !.pc = "retrieve"]) /\ UNCHANGED <<lease, history, live, trusted, released, jobs>>
          [] OTHER -> CanGrow(job[b].at) /\ Persist(b, Proposal(b), "retrieve")

\* retrieve_current_manifest or retrieve_complete_raw_route_batch: it fails, shows what
\* is known already, or something to commit.
Retrieve(b) ==
  /\ At(b, "retrieve")
  /\ \/ Fails(b)
     \/ \E pc \in {"commit", "bound"} :
          Set(b, [job[b] EXCEPT !.pc = pc]) /\ UNCHANGED <<lease, history, live, trusted, released, jobs>>
Commit(b) == At(b, "commit") /\ CanGrow(job[b].at) /\ Persist(b, Proposal(b), "bound")

\* bind_current_at and ensure_lease_held; a route then goes on with the requester.
Bound(b) ==
  /\ At(b, "bound")
  /\ IF ~ensure_held(b) THEN Fails(b)
     ELSE /\ Set(b, IF job[b].route /\ job[b].at # Requester THEN [job[b] EXCEPT !.pc = "load", !.at = Requester]
                    ELSE [job[b] EXCEPT !.pc = "operate"])
          /\ UNCHANGED <<lease, history, live, trusted, released, jobs>>

-----------------------------------------------------------------------------
(* The operation and the release of its result.                            *)

\* The callback succeeds, fails or panics; a panic is caught inside the lease scope.
Operate(b) ==
  /\ At(b, "operate")
  /\ \E result \in {"ok", "error", "panic"} : Set(b, [job[b] EXCEPT !.pc = "leave", !.result = result])
  /\ UNCHANGED <<lease, history, live, trusted, released, jobs>>

Release(b) ==
  released' = [held |-> {l \in Needs(job[b]) : Holds(b, l)},
               used |-> {<<l, Known(b, l).committed>> : l \in Needs(job[b])},
               durable |-> {<<l, Stored(l)>> : l \in Needs(job[b])}, time |-> job[b].now]

\* Mutant of Leave: the result is released as it is.
LeaveUnchecked(b) ==
  /\ At(b, "leave") /\ End(b)
  /\ IF job[b].result = "ok" THEN Release(b) ELSE UNCHANGED released
  /\ UNCHANGED <<history, live, trusted, jobs>>

\* The leases are checked again; only then is a result released, a panic resumed.
Leave(b) ==
  /\ At(b, "leave") /\ End(b)
  /\ IF job[b].result = "ok" /\ ensure_held(b) THEN Release(b) ELSE UNCHANGED released
  /\ UNCHANGED <<history, live, trusted, jobs>>

-----------------------------------------------------------------------------
(* The environment.                                                        *)

LoseLease(l) ==
  /\ lease[l].owner # "" /\ lease' = [lease EXCEPT ![l].owner = ""]
  /\ UNCHANGED <<history, live, job, trusted, released, jobs>>
Restart(b) ==
  /\ live' = [live EXCEPT ![b] = [l \in Lineages |-> Vacant]]
  /\ live # live'
  /\ Set(b, NoJob) /\ lease' = Dropped(b)
  /\ UNCHANGED <<history, trusted, released, jobs>>
Tick == trusted < MaxNow /\ trusted' = trusted + 1 /\ UNCHANGED <<lease, history, live, job, released, jobs>>

BrokerInit ==
  /\ lease = [l \in Lineages |-> Free] /\ history = [l \in Lineages |-> <<>>]
  /\ live = [b \in Brokers |-> [l \in Lineages |-> Vacant]]
  /\ job = [b \in Brokers |-> NoJob] /\ trusted = 1 /\ released = NoRelease /\ jobs = 0
BrokerNext ==
  \/ \E b \in Brokers :
       \/ \E subject \in Subjects, route \in BOOLEAN : Begin(b, subject, route)
       \/ Acquire(b) \/ Enter(b) \/ Load(b) \/ reconfirm(b) \/ Retry(b) \/ ObserveTime(b)
       \/ Retrieve(b) \/ Commit(b) \/ Bound(b) \/ Operate(b) \/ Leave(b) \/ Restart(b)
  \/ \E l \in Lineages : LoseLease(l)
  \/ Tick

-----------------------------------------------------------------------------
(* Properties.                                                             *)

\* A result is released only from the state the backend holds at that moment, in every
\* lineage the operation used, under leases still held and at a time that was written
\* first: not when another process took a lost lease and wrote in between, when a write
\* of unknown outcome was or was not applied, when an old snapshot was handed back, or
\* after a restart or a panic.  And a broker that has something to retrieve has written
\* the time it does so at, so that no process resumes the subject from an earlier one.
ReleasedIsCurrent ==
  /\ released # NoRelease =>
       /\ released.used = released.durable
       /\ Cardinality(released.held) = Cardinality(released.used)
       /\ \A s \in released.durable : s[2].time = released.time
  /\ \A b \in Brokers :
       job[b].pc \in {"retrieve", "commit", "bound"} => Stored(job[b].at).time >= job[b].now

-----------------------------------------------------------------------------
(***************************************************************************)
(* The HNSR runtimes bound to the engine (hns-dane-engine/src/             *)
(* hnsr_transport.rs): HnsrRequesterRuntime and HnsrOpaqueRelayRuntime.    *)
(* Both wrap a core of the protocol crate, which is external: here it is   *)
(* the circuits and reservations it holds, its enablement, its generation  *)
(* and the latest trusted time.  The runtime adds the binding to the       *)
(* engine's authority, the authenticated connections and the snapshots.    *)
(***************************************************************************)

CONSTANTS Labels,             \* labels of outer connections; one is never used again
          MaxTrusted, MaxRoleGeneration, MaxRelaySessions, MaxExports

VARIABLES kind,               \* the role: "requester" or "relay"
          node,               \* its runtime
          peers,              \* authenticated connections the platform holds
          gone,               \* connections it has disconnected
          exports             \* snapshots it has saved

relayVars == <<authority, kind, node, peers, gone, exports>>

NoNode ==
  [live |-> FALSE, binding |-> Unbound, enabled |-> FALSE, generation |-> 0, time |-> 0, revoked |-> "",
   undone |-> FALSE, observed |-> {}, reservations |-> {}, circuits |-> {},
   saved |-> [generation |-> 0, time |-> 0]]
Times == 0..MaxTrusted

\* validate_hnsr_transport_binding: the policy is asked before the session.  "own" is the
\* flag of the runtime's role in it.
HnsrValidation(binding) ==
  IF "own" \notin authority.roles THEN "PolicyDisabled" ELSE Validation("own", binding)
revocation_reason_for_error(error) ==
  IF error \in {"PolicyDisabled", "PolicyGenerationChanged"} THEN "PolicyChanged" ELSE "AuthorityChanged"

-----------------------------------------------------------------------------
(* Ending what the runtime holds.                                          *)

\* The core ends what a connection, or a reservation, takes part in.
CoreDisconnect(circuits, label) == {c \in circuits : c.peer # label /\ c.owner # label}

\* Every observed connection loses its reservations, and with them their circuits.
clear_reservations(n) ==
  LET ended == {r \in n.reservations : r.owner \in n.observed}
  IN [n EXCEPT !.observed = {}, !.reservations = @ \ ended,
               !.circuits = {c \in @ : \A r \in ended : c.owner # r.owner}]

\* replace_enabled of the core: disabling ends every circuit.  The last generation cannot
\* be followed by another: the core fails and changes nothing.
Exhausted(n) == n.generation = MaxRoleGeneration
CoreEnabled(n, enabled) ==
  [n EXCEPT !.enabled = enabled, !.generation = @ + 1, !.circuits = IF enabled THEN @ ELSE {}]

\* The reason is recorded first.  When the core fails, the relay returns before its
\* reservations are cleared, and ensure_current and observe_authority ignore the error;
\* "undone" says that this happened.
revoke_for(n, reason) ==
  LET revoked == [n EXCEPT !.revoked = reason]
      disabled == CoreEnabled(revoked, FALSE)
  IN CASE Exhausted(n) -> [revoked EXCEPT !.undone = @ \/ n.revoked = ""]
       [] ~Exhausted(n) /\ kind = "relay" -> clear_reservations(disabled)
       [] OTHER -> disabled

\* ensure_current, then Work on a runtime that is still bound.
Checked(n, Work(_)) ==
  LET verdict == HnsrValidation(n.binding)
  IN CASE n.revoked # "" -> n
       [] verdict # "ok" -> revoke_for(n, revocation_reason_for_error(verdict))
       [] OTHER -> Work(n)

ensure_peer(n, peer, Work(_)) == Checked(n, LAMBDA m : IF peer.binding # m.binding THEN m ELSE Work(m))

-----------------------------------------------------------------------------
(* Operations.                                                             *)

Used == gone \cup {p.label : p \in peers}

\* authenticate_relay and authenticate_participant.
Authenticate(label) ==
  /\ node.live /\ label \notin Used
  /\ node' = Checked(node, LAMBDA n : n)
  /\ peers' = IF node.revoked = "" /\ HnsrValidation(node.binding) = "ok"
              THEN peers \cup {[label |-> label, binding |-> node.binding]} ELSE peers
  /\ UNCHANGED <<authority, kind, gone, exports>>

Acts(next) == node.live /\ node' = next /\ UNCHANGED <<authority, kind, peers, gone, exports>>

\* handle_reservation: the clock is observed first; the service then may reserve.
HandleReservation(peer, now) ==
  /\ kind = "relay"
  /\ Acts(ensure_peer(node, peer,
       LAMBDA n : IF now < n.time THEN n
                  ELSE [n EXCEPT !.time = now, !.observed = @ \cup {peer.label},
                          !.reservations = @ \cup {[owner |-> peer.label, until |-> now + 1]}]))

\* handle_circuit: the core opens a circuit to the owner of a reservation.
HandleCircuit(peer, owner) ==
  /\ kind = "relay" /\ owner # peer.label
  /\ Acts(ensure_peer(node, peer,
       LAMBDA n : [n EXCEPT !.observed = @ \cup {peer.label},
                     !.circuits = IF n.enabled /\ \E r \in n.reservations : r.owner = owner /\ n.time < r.until
                                  THEN @ \cup {[peer |-> peer.label, owner |-> owner]} ELSE @]))

\* begin_open of the requester, for the generic profile.
BeginOpen(peer, now) ==
  /\ kind = "requester"
  /\ Acts(ensure_peer(node, peer,
       LAMBDA n : IF now < n.time \/ ~n.enabled THEN n
                  ELSE [n EXCEPT !.time = now, !.circuits = @ \cup {[peer |-> peer.label, owner |-> peer.label]}]))

\* handle, send_data, take_data, close and cancel_open of the requester, acknowledge of
\* the relay: the core keeps the circuit or ends it.
UseCircuit(c) ==
  /\ \/ Acts(Checked(node, LAMBDA n : n))
     \/ Acts(Checked(node, LAMBDA n : [n EXCEPT !.circuits = @ \ {c}]))

\* disconnect asks no authority and ignores a connection of another binding; the
\* platform does not use the connection again.
Disconnect(peer) ==
  /\ node.live
  /\ peers' = peers \ {peer} /\ gone' = gone \cup {peer.label}
  /\ node' = IF peer.binding # node.binding THEN node
             ELSE [node EXCEPT !.observed = @ \ {peer.label},
                     !.reservations = {r \in @ : r.owner # peer.label},
                     !.circuits = CoreDisconnect(@, peer.label)]
  /\ UNCHANGED <<authority, kind, exports>>

\* expire: reservations are pruned before the core's clock is asked.
Expire(now, kept) ==
  /\ kept \subseteq node.circuits
  /\ Acts(Checked(node, LAMBDA n :
       LET pruned == [n EXCEPT !.reservations = {r \in @ : now < r.until}]
       IN IF now < n.time THEN pruned ELSE [pruned EXCEPT !.time = now, !.circuits = kept]))

replace_enabled(expected, enabled) ==
  Acts(Checked(node, LAMBDA n :
    IF expected # n.generation \/ Exhausted(n) THEN n
    ELSE IF ~enabled /\ kind = "relay" THEN clear_reservations(CoreEnabled(n, FALSE))
    ELSE CoreEnabled(n, enabled)))

status == Acts(Checked(node, LAMBDA n : n))
revoke == Acts(revoke_for(node, "Explicit"))

\* The snapshot: counters and settings, nothing live.
encode_runtime_export(now) ==
  [generation |-> node.generation, time |-> now, enabled |-> node.enabled, policy |-> node.binding.policy]

\* export observes the clock; the platform saves the snapshot and its floors at once.
export(now) ==
  /\ node.live
  /\ node' = Checked(node, LAMBDA n : IF now < n.time THEN n ELSE [n EXCEPT !.time = now])
  /\ exports' = IF node.revoked = "" /\ HnsrValidation(node.binding) = "ok" /\ now >= node.time
                THEN exports \cup {encode_runtime_export(now)}
                ELSE exports
  /\ Cardinality(exports') <= MaxExports
  /\ UNCHANGED <<authority, kind, peers, gone>>

-----------------------------------------------------------------------------
(* Starting and restoring.                                                 *)

minimum_generation == Max({s.generation : s \in exports} \cup {0})
minimum_time == Max({s.time : s \in exports} \cup {0})

\* start_hnsr_requester and start_hnsr_opaque_relay: nothing is live.
Started(generation, enabled, now) ==
  [NoNode EXCEPT !.live = TRUE, !.binding = Minted, !.enabled = enabled, !.generation = generation,
                 !.time = now, !.saved = [generation |-> minimum_generation, time |-> minimum_time]]

\* The platform continues its generations.
Start(now) ==
  /\ CanMint("own") /\ Mint /\ now >= minimum_time /\ minimum_generation < MaxRoleGeneration
  /\ node' = Started(minimum_generation + 1, TRUE, now)
  /\ UNCHANGED <<kind, peers, gone, exports>>

validate_restore_envelope(s, now) ==
  /\ s.generation >= minimum_generation /\ s.time >= minimum_time
  /\ now >= s.time /\ now >= minimum_time
  /\ s.policy = authority.policy

\* The core of the snapshot steps to the next generation, if there is one.
Restored(s, now) ==
  IF validate_restore_envelope(s, now) /\ s.generation < MaxRoleGeneration
  THEN Started(s.generation + 1, s.enabled, now) ELSE node
Restore(s, now) ==
  /\ CanMint("own") /\ Mint
  /\ node' = Restored(s, now)
  /\ UNCHANGED <<kind, peers, gone, exports>>

\* The process ends, its connections with it.
EndProcess ==
  /\ authority.session < MaxRelaySessions /\ NewSession
  /\ node' = NoNode /\ peers' = {} /\ gone' = Used
  /\ UNCHANGED <<kind, exports>>

Stopped ==
  /\ kind \in {"requester", "relay"}
  /\ node = NoNode /\ peers = {} /\ gone = {} /\ exports = {}
RelayInit == AuthorityInit /\ Stopped
RelayNext ==
  \/ \E label \in Labels : Authenticate(label)
  \/ \E peer \in peers :
       \/ \E now \in Times : HandleReservation(peer, now) \/ BeginOpen(peer, now)
       \/ \E owner \in Labels : HandleCircuit(peer, owner)
       \/ Disconnect(peer)
  \/ \E c \in node.circuits : UseCircuit(c)
  \/ \E now \in Times, kept \in {{}, node.circuits} : Expire(now, kept)
  \/ \E expected \in {node.generation, node.generation + 1}, enabled \in BOOLEAN : replace_enabled(expected, enabled)
  \/ status \/ revoke
  \/ \E now \in Times : export(now) \/ Start(now) \/ \E s \in exports : Restore(s, now)
  \/ EndProcess
  \/ AuthorityStep /\ UNCHANGED <<kind, node, peers, gone, exports>>

-----------------------------------------------------------------------------
(* Properties.                                                             *)

\* What a runtime holds belongs to connections authenticated under its own binding and
\* still open: a connection of an earlier runtime or process cannot use it, and a closed
\* one leaves neither a reservation nor a circuit behind, even after a revocation.  A
\* runtime revoked by any path (explicitly, or on finding the authority changed) holds
\* nothing, except when its generation was the last: then revoke_for has returned the
\* core's error before clear_reservations, and what is left goes with its connections.
NothingOutlivesItsOwner ==
  LET Mine(label) == [label |-> label, binding |-> node.binding] \in peers
  IN /\ \A r \in node.reservations : Mine(r.owner)
     /\ \A c \in node.circuits : Mine(c.peer) /\ Mine(c.owner)
     /\ node.revoked # "" /\ ~node.undone => node.reservations = {} /\ node.circuits = {}
     /\ node.undone => Exhausted(node) /\ node.revoked # ""

\* A runtime is in a later generation than every snapshot saved before it began, and its
\* clock is behind none of theirs, whichever saved snapshot it was restored from.
RestoredIsNewer ==
  node.live => node.generation > node.saved.generation /\ node.time >= node.saved.time
=============================================================================
