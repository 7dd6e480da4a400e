---------------------------- MODULE OdohRequester ----------------------------
(***************************************************************************)
(* OdohRequesterRuntime of hns-dane-engine/src/private_transport.rs and    *)
(* the HIP-77 requester below it (hns-p2p-transport): signed target        *)
(* configurations in bounded slots, one authenticated proxy, exchanges     *)
(* whose adapter I/O lets the engine authority and the cancellation change *)
(* before the answer is used, and the cache that survives a restart.       *)
(*                                                                         *)
(* Every operation holds "&mut self", so only the authority, the           *)
(* cancellation token and the network act while "call" is pending.  Each   *)
(* returns early on its first error and keeps what it changed before, so   *)
(* operations are chains of steps over a pair of runtime and error.        *)
(***************************************************************************)
EXTENDS TransportAuthority, FiniteSets, FiniteSetsExt

CONSTANTS Records,            \* signed target records: locator, sequence, id, expires
          Target(_),          \* the peer key a locator names
          Proxies,            \* peers that pass admit_canonical_odoh_proxy
          NoPeer,
          MaxCached,          \* MAX_CACHED_ODOH_TARGETS
          MaxTime,
          MaxGeneration,      \* u64::MAX of the cache generation
          MaxRequests,        \* u64::MAX of the request identifiers
          MaxSessions,        \* bound on restarts
          MaxSaves            \* bound on saved caches

VARIABLES odoh,               \* the runtime
          call,               \* an operation waiting for its adapter
          cancelled,          \* CancellationToken::is_cancelled
          store,              \* the platform's store: blob and floor, saved together
          blobs,              \* every blob the store ever held
          outcome             \* what the last operation handed out

odohVars == <<authority, odoh, call, cancelled, store, blobs, outcome>>

Locators == {r.locator : r \in Records}
NoRecord == [locator |-> "", sequence |-> 0, id |-> "", expires |-> 0]
NoSlot == [highest |-> 0, current |-> NoRecord]
Runtime(binding, slots, time, generation) ==
  [live |-> TRUE, binding |-> binding, revoked |-> "", proxy |-> NoPeer, slots |-> slots,
   time |-> time, generation |-> generation, next |-> 1]
Down == [Runtime(Unbound, [l \in Locators |-> NoSlot], 0, 0) EXCEPT !.live = FALSE]
NoCall == [kind |-> "none", record |-> NoRecord, id |-> 0, proxy |-> NoPeer, now |-> 0, deadline |-> 0]
NoBlob == [slots |-> [l \in Locators |-> NoSlot], time |-> 0, generation |-> 0]

-----------------------------------------------------------------------------
(* Steps of an operation: a runtime and the error it stopped with.         *)

Ok(r) == [runtime |-> r, error |-> ""]
Err(r, error) == [runtime |-> r, error |-> error]
Then(result, Step(_)) == IF result.error = "" THEN Step(result.runtime) ELSE result

Expired(slot, now) == slot.current # NoRecord /\ now >= slot.current.expires
prune(slots, now) ==
  [l \in Locators |-> IF Expired(slots[l], now) THEN [slots[l] EXCEPT !.current = NoRecord] ELSE slots[l]]

advance_target_cache_generation(r) ==
  IF r.generation = MaxGeneration THEN Err(r, "TargetCacheGenerationExhausted")
                                  ELSE Ok([r EXCEPT !.generation = @ + 1])

advance_trusted_time(r, now) ==
  CASE now < r.time -> Err(r, "TrustedClockRollback")
    [] now = r.time -> Ok(r)
    [] OTHER -> Then(advance_target_cache_generation(r), LAMBDA s : Ok([s EXCEPT !.time = now]))

prune_targets(r, now) ==
  IF \E l \in Locators : Expired(r.slots[l], now)
  THEN Then(advance_target_cache_generation(r), LAMBDA s : Ok([s EXCEPT !.slots = prune(s.slots, now)]))
  ELSE Ok(r)

revoke_for_error(r, reason) == Err([r EXCEPT !.revoked = reason, !.proxy = NoPeer], reason)

Validated(r) ==
  LET verdict == Validation("odoh", r.binding)
  IN IF verdict = "ok" THEN Ok(r) ELSE revoke_for_error(r, verdict)

ensure_current(r) == IF r.revoked # "" THEN Err(r, "BindingRevoked") ELSE Validated(r)

\* The common beginning of install, fetch and exchange.
Prepared(r, now) ==
  Then(ensure_current(r), LAMBDA s : Then(advance_trusted_time(s, now), LAMBDA t : prune_targets(t, now)))

HasRoom(r) == IF r.generation = MaxGeneration THEN Err(r, "TargetCacheGenerationExhausted") ELSE Ok(r)

\* OdohTargetCache::install of a record verified at "now", with the generation step.
install(r, record, now) ==
  LET slot == r.slots[record.locator]
      Stored == [r EXCEPT !.slots[record.locator] = [highest |-> record.sequence, current |-> record]]
  IN CASE now >= record.expires -> Err(r, "Transport")
       [] record.sequence < slot.highest -> Err(r, "TargetSequenceRollback")
       [] record.sequence = slot.highest ->
            IF slot.current = record THEN Ok(r) ELSE Err(r, "TargetSequenceConflict")
       [] slot = NoSlot /\ Cardinality({l \in Locators : r.slots[l] # NoSlot}) = MaxCached ->
            Err(r, "TargetCacheFull")
       [] OTHER -> advance_target_cache_generation(Stored)

-----------------------------------------------------------------------------
(* Operations without I/O.                                                 *)

Idle == odoh.live /\ call = NoCall
Quiet == [kind |-> "none"]
Ended(result) == odoh' = result.runtime /\ outcome' = Quiet

start_odoh_requester ==
  /\ ~odoh.live /\ store = NoBlob /\ CanMint("odoh") /\ Mint
  /\ odoh' = Runtime(Minted, [l \in Locators |-> NoSlot], 0, 1)
  /\ outcome' = Quiet
  /\ UNCHANGED <<call, cancelled, store, blobs>>

\* encode and decode of the cache: the slots with their sequences, the time and the
\* generation; decode verifies each record, at its expiry if that has passed, and drops
\* what has expired.
encode(r) == [slots |-> r.slots, time |-> r.time, generation |-> r.generation]
decode(blob, now) ==
  IF now < blob.time THEN Err(odoh, "TrustedClockRollback")
  ELSE Ok(Runtime(Minted, prune(blob.slots, now), blob.time, blob.generation))

\* Restore from a blob of the store's past, under the floor the store holds.
Restored(blob, now) ==
  LET moved == Then(decode(blob, now), LAMBDA r :
                 IF blob.generation < store.generation THEN Err(r, "TargetCacheGenerationRollback")
                 ELSE Then(advance_trusted_time(r, now), LAMBDA s :
                        IF r.slots # blob.slots THEN advance_target_cache_generation(s) ELSE Ok(s)))
  IN IF moved.error = "" THEN moved ELSE Err(odoh, moved.error)
restore_odoh_requester(blob, now) ==
  /\ ~odoh.live /\ store # NoBlob /\ CanMint("odoh") /\ Mint
  /\ odoh' = Restored(blob, now).runtime
  /\ outcome' = IF Restored(blob, now).error # "" THEN Quiet
                ELSE [kind |-> "restored", blob |-> blob, saved |-> store]
  /\ UNCHANGED <<call, cancelled, store, blobs>>

bind_proxy(peer) ==
  /\ Idle
  /\ Ended(Then(ensure_current(odoh), LAMBDA r : Ok([r EXCEPT !.proxy = peer])))
  /\ UNCHANGED <<authority, call, cancelled, store, blobs>>

install_target(record, now) ==
  /\ Idle
  /\ Ended(Then(Prepared(odoh, now), LAMBDA r : Then(HasRoom(r), LAMBDA s : install(s, record, now))))
  /\ UNCHANGED <<authority, call, cancelled, store, blobs>>

\* export_target_cache needs no current binding; the platform then saves the blob and
\* its generation as the floor in one write, or stops before it does.
export_target_cache(now, saved) ==
  LET result == Then(advance_trusted_time(odoh, now), LAMBDA r : prune_targets(r, now))
      blob == encode(result.runtime)
  IN /\ Idle
     /\ Ended(result)
     /\ IF saved /\ result.error = ""
        THEN /\ store' = blob /\ blobs' = blobs \cup {blob}
             /\ Cardinality(blobs') <= MaxSaves
        ELSE UNCHANGED <<store, blobs>>
     /\ UNCHANGED <<authority, call, cancelled>>

\* status revokes a runtime whose epoch ended and still reports.
status(now) ==
  /\ Idle
  /\ Ended(Then(advance_trusted_time(odoh, now),
                LAMBDA r : prune_targets(IF r.revoked = "" THEN Validated(r).runtime ELSE r, now)))
  /\ UNCHANGED <<authority, call, cancelled, store, blobs>>

\* revoke erases everything even when the generation cannot advance.
revoke ==
  LET counted == IF \A l \in Locators : odoh.slots[l] = NoSlot
                 THEN Ok(odoh) ELSE advance_target_cache_generation(odoh)
  IN /\ Idle
     /\ Ended([counted EXCEPT !.runtime =
                            [@ EXCEPT !.revoked = "Explicit", !.proxy = NoPeer,
                                      !.slots = [l \in Locators |-> NoSlot]]])
     /\ UNCHANGED <<authority, call, cancelled, store, blobs>>

-----------------------------------------------------------------------------
(* Operations with I/O.                                                    *)

\* check_lifecycle, proxy/target separation and RequestIds::take.
Begun(r, peer, now, deadline) ==
  CASE r.proxy = NoPeer -> Err(r, "ProxyUnavailable")
    [] cancelled -> Err(r, "Cancelled")
    [] now > deadline -> Err(r, "DeadlineExpired")
    [] r.proxy = peer -> Err(r, "ProxyTargetCollision")
    [] r.next > MaxRequests -> Err(r, "RequestIdExhausted")
    [] OTHER -> Ok([r EXCEPT !.next = @ + 1])

Begin(kind, result, record, now, deadline) ==
  /\ Idle
  /\ odoh' = result.runtime
  /\ IF result.error = ""
     THEN /\ call' = [kind |-> kind, record |-> record, id |-> odoh.next, proxy |-> odoh.proxy,
                      now |-> now, deadline |-> deadline]
          /\ outcome' = Quiet
     ELSE call' = NoCall /\ outcome' = Quiet
  /\ UNCHANGED <<authority, cancelled, store, blobs>>

\* A fetch names a locator: the record is what the proxy will be asked for.
BeginFetch(locator, now, deadline) ==
  Begin("fetch",
        Then(Prepared(odoh, now),
             LAMBDA r : Then(HasRoom(r), LAMBDA s : Begun(s, Target(locator), now, deadline))),
        [NoRecord EXCEPT !.locator = locator], now, deadline)

\* An exchange names a record; it must be the current one of its slot.
target(r, record) == IF r.slots[record.locator].current = record THEN Ok(r) ELSE Err(r, "TargetUnavailable")
BeginExchange(record, now, deadline) ==
  Begin("exchange",
        Then(Prepared(odoh, now),
             LAMBDA r : Then(target(r, record), LAMBDA s : Begun(s, Target(record.locator), now, deadline))),
        record, now, deadline)

\* What the adapter hands back: nothing, or a response completed at some time that may
\* come from another peer, answer another request or report an error.
Failure == [completed |-> 0, fault |-> "adapter"]
Responses == {Failure} \cup [completed : 0..MaxTime, fault : {"none", "peer", "id", "status"}]

\* check_response_boundary and the correlation of either request.
Boundary(response) ==
  CASE response = Failure -> "Adapter"
    [] cancelled -> "Cancelled"
    [] response.completed < call.now -> "ResponseClockRollback"
    [] response.completed > call.deadline -> "DeadlineExpired"
    [] response.fault = "peer" -> "PeerIdentityMismatch"
    [] call.kind = "exchange" /\ response.completed >= call.record.expires -> "ExpiredOdohTarget"
    [] response.fault = "id" -> "RequestIdMismatch"
    [] response.fault = "status" -> "OdohStatus"
    [] OTHER -> ""

Finished(result, response) ==
  /\ odoh' = result.runtime
  /\ call' = NoCall
  /\ outcome' = IF result.error # "" THEN Quiet
                ELSE [kind |-> call.kind, call |-> call, response |-> response, cancelled |-> cancelled,
                      authority |-> authority]
  /\ UNCHANGED <<authority, cancelled, store, blobs>>

\* The record a CONFIG body carries is verified for the locator before it is installed.
FinishFetch(response, record) ==
  /\ call.kind = "fetch"
  /\ LET asked == Boundary(response)
         error == IF asked # "" THEN asked
                  ELSE IF record.locator # call.record.locator \/ response.completed >= record.expires
                       THEN "Transport" ELSE ""
     IN Finished(IF error # "" THEN Err(odoh, error)
                 ELSE Then(advance_trusted_time(odoh, response.completed),
                           LAMBDA r : Then(Validated(r),
                             LAMBDA s : Then(HasRoom(s), LAMBDA t : install(t, record, response.completed)))),
                 response)

\* Mutant of FinishExchange: the binding is checked before the I/O only.
FinishUnchecked(response) ==
  /\ call.kind = "exchange"
  /\ LET tracked == response # Failure /\ response.completed \in call.now..call.deadline
         timed == IF tracked THEN advance_trusted_time(odoh, response.completed) ELSE Ok(odoh)
     IN Finished(Then(timed, LAMBDA s : Err(s, Boundary(response))), response)

\* The completion time counts even if the response is refused; the binding is
\* validated before the response is returned.
FinishExchange(response) ==
  /\ call.kind = "exchange"
  /\ LET tracked == response # Failure /\ response.completed \in call.now..call.deadline
         timed == IF tracked THEN advance_trusted_time(odoh, response.completed) ELSE Ok(odoh)
     IN Finished(Then(timed, LAMBDA r : Then(Validated(r), LAMBDA s : Err(s, Boundary(response)))), response)

-----------------------------------------------------------------------------
(* The environment.                                                        *)

Cancel == call # NoCall /\ ~cancelled /\ cancelled' = TRUE
          /\ UNCHANGED <<authority, odoh, call, store, blobs, outcome>>
\* The caller makes a new token for its next operation.
NewToken == call = NoCall /\ cancelled /\ cancelled' = FALSE
            /\ UNCHANGED <<authority, odoh, call, store, blobs, outcome>>
Crash ==
  /\ odoh.live /\ authority.session < MaxSessions
  /\ NewSession /\ odoh' = Down /\ call' = NoCall /\ cancelled' = FALSE
  /\ outcome' = Quiet
  /\ UNCHANGED <<store, blobs>>

Times == {t \in 0..MaxTime : t >= odoh.time - 1}
Deadlines == {1, MaxTime}
OdohNext ==
  \/ start_odoh_requester
  \/ \E blob \in blobs, now \in Times : restore_odoh_requester(blob, now)
  \/ \E peer \in Proxies : bind_proxy(peer)
  \/ \E record \in Records, now \in Times : install_target(record, now)
  \/ \E now \in Times, saved \in BOOLEAN : export_target_cache(now, saved)
  \/ \E now \in Times : status(now)
  \/ revoke
  \/ \E locator \in Locators, now \in Times, deadline \in Deadlines : BeginFetch(locator, now, deadline)
  \/ \E record \in Records, now \in Times, deadline \in Deadlines : BeginExchange(record, now, deadline)
  \/ \E response \in Responses : \E record \in IF response.fault = "none" THEN Records ELSE {NoRecord} :
       FinishFetch(response, record)
  \/ \E response \in Responses : FinishExchange(response)
  \/ AuthorityStep /\ UNCHANGED <<odoh, call, cancelled, store, blobs, outcome>>
  \/ Cancel \/ NewToken \/ Crash

-----------------------------------------------------------------------------
(* Properties.                                                             *)

\* An answer handed out by an exchange is current in every respect although the
\* authority, the clock and the cancellation moved during the I/O: the binding still
\* validates, nothing was cancelled, the proxy asked is the one that answered this
\* request within its deadline and is not the target, and the target's record is
\* unexpired and still the one with the greatest sequence (exchange checks "both
\* before and after adapter I/O; stale bytes are never returned").
AnswersAreCurrent ==
  outcome.kind = "exchange" =>
    LET c == outcome.call r == outcome.response a == outcome.authority b == odoh.binding
    IN /\ a.ready /\ "odoh" \in a.roles /\ b.event > a.floor
       /\ b.session = a.session /\ b.generation = a.generation /\ b.policy = a.policy
       /\ ~outcome.cancelled
       /\ r.fault = "none" /\ r.completed \in c.now..c.deadline
       /\ c.proxy # Target(c.record.locator)
       /\ r.completed < c.record.expires
       /\ c.record.sequence = odoh.slots[c.record.locator].highest

\* Restarts lose nothing: the cache a restored runtime starts from is the one saved
\* last, whichever earlier blob the store is made to hand back, until the generation
\* space is used up (restore "rejects an older valid blob").
RestoresAreLatest ==
  outcome.kind = "restored" /\ outcome.saved.generation < MaxGeneration =>
    outcome.blob = outcome.saved
=============================================================================
