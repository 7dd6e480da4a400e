---------------------------- MODULE BrowserSync -----------------------------
(***************************************************************************)
(* HeaderSyncRunner of hns-browser-sync with the PeerManager and the       *)
(* SqlitePeerStore of hns-browser-p2p: one sequential or parallel sync run *)
(* after another, their probes, prefetched checkpoint ranges, header races *)
(* and final corroboration, what each records of a peer, and when it is    *)
(* saved.  The replies of the worker threads come in any order.            *)
(*                                                                         *)
(* The validated chain is the height of its best header.  What a peer may  *)
(* serve is every claim, batch and verdict.  A peer's score and counters   *)
(* only order the candidates (a malformed batch alone reaches BAN_SCORE),  *)
(* so candidates are taken in any order that spreads over address groups.  *)
(***************************************************************************)
EXTENDS Integers, FiniteSets, FiniteSetsExt

CONSTANTS Peer,               \* socket addresses
          Group,              \* PeerAddressGroup::from_socket_addr
          Allowed,            \* endpoints peer_endpoint_allowed accepts
          Checkpoint,         \* heights of checkpoint_header_prefetch
          Config,             \* runner configurations considered
          MaxHeight,          \* bound on the heights of valid headers
          Claim,              \* heights a version packet may announce
          Time,               \* clock values a caller may pass
          BanSeconds,         \* malformed_ban_seconds
          Nil

ASSUME BrowserSyncAssumption ==
    /\ Allowed \subseteq Peer
    /\ Checkpoint \subseteq 1..MaxHeight
    /\ Claim \subseteq Nat /\ Time \subseteq Nat /\ BanSeconds \in Nat
    /\ \A c \in Config :
        /\ c.discover_peers \in BOOLEAN
        /\ {c.preferred_peers, c.max_header_batches_per_peer,
            c.peer_discovery_target, c.peer_discovery_query_peers,
            c.parallel_peer_probes, c.parallel_header_fetch_peers,
            c.peer_height_refresh_interval} \subseteq Nat

VARIABLES config,             \* the runner's configuration
          tip,                \* height of the chain's best header, Nil with none
          peers,              \* PeerManager: a record, or Nil, per address
          store,              \* the peers table
          run                 \* the call in progress, or how the last ended

syncVars == <<config, tip, peers, store, run>>

-----------------------------------------------------------------------------
(* PeerManager.  `backing' is history: the tip the height was compared     *)
(* with, and whether the peer had just extended the chain.                 *)

NoBacking == [tip |-> 0, extended |-> FALSE]

NewPeer == [last_height |-> 0, last_height_observed_at |-> Nil,
            banned_until |-> Nil, backing |-> NoBacking]

\* A row of a database from before heights had an observation time.
LegacyPeer == [NewPeer EXCEPT !.last_height = MaxHeight]

Known(m) == {p \in Peer : m[p] # Nil}

Seed(m, found) ==
    [p \in Peer |-> IF p \in found \cap Allowed /\ m[p] = Nil
                    THEN NewPeer ELSE m[p]]

RecordSuccess(m, p, height, now, backing) ==
    [m EXCEPT ![p].last_height = height,
              ![p].last_height_observed_at = now,
              ![p].backing = backing]

RecordUncorroborated(m, p) ==
    [m EXCEPT ![p].last_height = 0, ![p].last_height_observed_at = Nil]

RecordMalformed(m, p, now) == [m EXCEPT ![p].banned_until = now + BanSeconds]

IsBanned(peer, now) == peer.banned_until # Nil /\ peer.banned_until > now

Unbanned(now, exclude) ==
    {p \in Known(peers) \ exclude : ~IsBanned(peers[p], now)}

\* select_outbound and select_discovery_outbound, then the endpoint filter:
\* no two of a group before every group has had its turn, unless the first of
\* that group was filtered out.
Selections(count, now, exclude) ==
    LET pool == Unbanned(now, exclude)
        size == Min({count, Cardinality(pool \cap Allowed)})
        Spread(S) ==
            \A p, q \in S : p # q /\ Group[p] = Group[q] =>
                \A r \in pool :
                    \/ \E s \in S : Group[s] = Group[r]
                    \/ \E s \in pool \ Allowed : Group[s] = Group[r]
    IN  {S \in kSubset(size, pool \cap Allowed) : Spread(S)}

\* save_manager writes every peer it knows and deletes no row.
Saved(m) == [p \in Peer |-> IF m[p] # Nil THEN m[p] ELSE store[p]]

-----------------------------------------------------------------------------
(* A call.                                                                 *)

NotRunning == run.phase \in {"idle", "done", "failed"}

Ended(phase) ==
    [phase |-> phase, now |-> run.now, parallel |-> run.parallel,
     persist |-> run.persist, todo |-> {}, asked |-> {}, talk |-> Nil,
     ranges |-> {}, batches |-> 0, answered |-> run.answered]

\* The peers become m and are saved; a save that fails ends the call.
PersistThen(m, next) ==
    /\ peers' = m
    /\ \/ /\ store' = IF run.persist THEN Saved(m) ELSE store
          /\ run' = next
       \/ /\ run.persist
          /\ run' = Ended("failed")
          /\ UNCHANGED store

\* The same with two saves, of m and then of n.
PersistTwiceThen(m, n, next) ==
    \/ run.persist /\ peers' = m /\ run' = Ended("failed") /\ UNCHANGED store
    \/ run.persist /\ peers' = n /\ run' = Ended("failed") /\ store' = Saved(m)
    \/ /\ peers' = n
       /\ store' = IF run.persist THEN Saved(n) ELSE store
       /\ run' = next

\* record_chain_failure, for a verdict that is
Blamed(m, p, verdict) ==
    IF verdict = "malformed" THEN RecordMalformed(m, p, run.now) ELSE m

SyncInit ==
    /\ config \in Config
    /\ tip \in {Nil, 0}
    /\ store \in [Peer -> {Nil, NewPeer, LegacyPeer}]
    /\ peers = store
    /\ run = [phase |-> "idle", now |-> 0, parallel |-> FALSE,
              persist |-> FALSE, todo |-> {}, asked |-> {}, talk |-> Nil,
              ranges |-> {}, batches |-> 0, answered |-> {}]

Begin(phase, now, parallel, persist, todo) ==
    [Ended(phase) EXCEPT !.now = now, !.parallel = parallel,
                         !.persist = persist, !.todo = todo, !.answered = {}]

-----------------------------------------------------------------------------
(* Sequential sync: sync_once_inner, sync_peer, discover_more_peers.       *)

StartSequential(now, persist) ==
    /\ NotRunning
    /\ \E todo \in Selections(config.preferred_peers, now, {}) :
          run' = Begin("sync", now, FALSE, persist, todo)
    /\ UNCHANGED <<config, tip, peers, store>>

PeerDone(p) == [run EXCEPT !.todo = @ \ {p}, !.asked = @ \cup {p},
                           !.talk = Nil]

\* connect or handshake fails
GreetFails(p) ==
    /\ run.phase = "sync" /\ run.talk = Nil /\ p \in run.todo
    /\ run' = PeerDone(p)
    /\ UNCHANGED <<config, tip, peers, store>>

Greet(p, claim) ==
    /\ run.phase = "sync" /\ run.talk = Nil /\ p \in run.todo
    /\ run' = [run EXCEPT !.talk = [address |-> p, claim |-> claim,
                                    stage |-> "greeted", batches |-> 0,
                                    extended |-> FALSE]]
    /\ UNCHANGED <<config, tip, peers, store>>

Compare == [run EXCEPT !.talk.stage = "compare"]

RequestAddresses(found) ==
    /\ run.phase = "sync" /\ run.talk # Nil /\ run.talk.stage = "greeted"
    /\ \/ config.discover_peers /\ PersistThen(Seed(peers, found), Compare)
       \/ run' = Compare /\ UNCHANGED <<peers, store>>
    /\ UNCHANGED <<config, tip>>

\* Mutant of Certified: the peer's word is taken.
CertifiedOnClaim(claim, best) == claim

\* What an answer that ends the extension certifies: with no header to compare it
\* with, the claim.
Certified(claim, best) == IF best = Nil THEN claim ELSE Min({claim, best})

\* best_header() with unwrap_or(Height(0))
TipOrZero == IF tip = Nil THEN 0 ELSE tip
Reached(claim) == tip # Nil /\ claim <= tip

Finish(height, best, extended) ==
    LET p == run.talk.address
    IN  PersistThen(RecordSuccess(peers, p, height, run.now,
                                  [tip |-> best, extended |-> extended]),
                    PeerDone(p))

AtOrBelowTip ==
    /\ run.phase = "sync" /\ run.talk # Nil /\ run.talk.stage = "compare"
    /\ run.talk.batches = 0 /\ Reached(run.talk.claim)
    /\ Finish(run.talk.claim, tip, FALSE)
    /\ UNCHANGED <<config, tip>>

Fetching ==
    /\ run.phase = "sync" /\ run.talk # Nil /\ run.talk.stage = "compare"
    /\ run.talk.batches > 0 \/ ~Reached(run.talk.claim)

FetchFails ==
    /\ Fetching
    /\ run' = PeerDone(run.talk.address)
    /\ UNCHANGED <<config, tip, peers, store>>

\* No headers, or none that were new: the claim stands only below the tip.
FetchNothing ==
    /\ Fetching
    /\ Finish(Certified(run.talk.claim, tip), tip, run.talk.extended)
    /\ UNCHANGED <<config, tip>>

\* Headers are inserted above one that is stored.
Extends(best) == tip # Nil /\ best >= tip /\ tip' = best

\* A batch that inserts headers, full (MAX_HEADERS) or short.
FetchAccepted(full, best) ==
    /\ Fetching
    /\ Extends(best)
    /\ \/ /\ ~full
          /\ Finish(Certified(run.talk.claim, best), best, TRUE)
       \/ /\ full
          /\ run.talk.batches + 1 < Max({config.max_header_batches_per_peer, 1})
          /\ run' = [run EXCEPT !.talk.batches = @ + 1, !.talk.extended = TRUE]
          /\ UNCHANGED <<peers, store>>
       \/ /\ full
          /\ run.talk.batches + 1 = Max({config.max_header_batches_per_peer, 1})
          /\ Finish(run.talk.claim, best, TRUE)
    /\ UNCHANGED config

\* The ban of a malformed batch is saved only with the rest of the call.
FetchRejected(verdict) ==
    /\ Fetching
    /\ peers' = Blamed(peers, run.talk.address, verdict)
    /\ run' = PeerDone(run.talk.address)
    /\ UNCHANGED <<config, tip, store>>

\* A verdict of insert_headers that is not the peer's fault ends the call.
FetchStorageError ==
    /\ Fetching
    /\ run' = Ended("failed")
    /\ UNCHANGED <<config, tip, peers, store>>

WantsPeers ==
    /\ config.discover_peers
    /\ Cardinality(Known(peers) \cap Allowed) < config.peer_discovery_target
    /\ config.peer_discovery_query_peers > 0

SequenceEnds ==
    /\ run.phase = "sync" /\ run.todo = {}
    /\ \E todo \in IF WantsPeers
                   THEN Selections(config.peer_discovery_query_peers, run.now,
                                   run.asked)
                   ELSE {{}} :
          run' = [run EXCEPT !.phase = "discover", !.todo = todo]
    /\ UNCHANGED <<config, tip, peers, store>>

Discover(p, found) ==
    /\ run.phase = "discover" /\ p \in run.todo /\ WantsPeers
    /\ LET seeded == Seed(peers, found)
       IN  PersistTwiceThen(seeded, RecordUncorroborated(seeded, p),
                            PeerDone(p))
    /\ UNCHANGED <<config, tip>>

DiscoverFails(p) ==
    /\ run.phase = "discover" /\ p \in run.todo /\ WantsPeers
    /\ run' = PeerDone(p)
    /\ UNCHANGED <<config, tip, peers, store>>

DiscoveryEnds ==
    /\ run.phase = "discover"
    /\ run.todo = {} \/ ~WantsPeers
    /\ PersistThen(peers, Ended(IF run.parallel THEN "synced" ELSE "done"))
    /\ UNCHANGED <<config, tip>>

-----------------------------------------------------------------------------
(* Parallel sync: probes, then a race or the sequence, then corroboration. *)

PeerHeightRefreshDue(now) ==
    /\ config.peer_height_refresh_interval # 0
    /\ ~\E p \in Known(peers) :
            /\ peers[p].last_height > 0
            /\ peers[p].last_height_observed_at # Nil
            /\ peers[p].last_height_observed_at
                  >= now - config.peer_height_refresh_interval

Probes(now) ==
    /\ config.discover_peers
    /\ config.parallel_peer_probes # 0
    /\ \/ Cardinality(Known(peers)) < config.peer_discovery_target
       \/ \A p \in Known(peers) : peers[p].last_height = 0
       \/ PeerHeightRefreshDue(now)

StartParallel(now) ==
    /\ NotRunning
    /\ \E todo \in IF Probes(now)
                   THEN Selections(config.parallel_peer_probes, now, {})
                   ELSE {{}} :
          run' = Begin("probe", now, TRUE, TRUE,
                       IF Cardinality(todo) <= 1 THEN {} ELSE todo)
    /\ UNCHANGED <<config, tip, peers, store>>

Replied(p) == [run EXCEPT !.todo = @ \ {p}]

ProbeReply(p, found) ==
    /\ run.phase = "probe" /\ p \in run.todo
    /\ PersistThen(Seed(RecordUncorroborated(peers, p), found), Replied(p))
    /\ UNCHANGED <<config, tip>>

\* A probe, prefetch or corroboration that fails changes the score only.
ReplyFails(p) ==
    /\ run.phase \in {"probe", "prefetch", "corroborate"} /\ p \in run.todo
    /\ PersistThen(peers, Replied(p))
    /\ UNCHANGED <<config, tip>>

\* The checkpoints are dealt out to the peers in turn.
RoundRobin(wanted, asked) ==
    LET Rank(c) == Cardinality({d \in wanted : d < c}) % Cardinality(asked)
    IN  {f \in [wanted -> asked] :
            \A c, d \in wanted : f[c] = f[d] <=> Rank(c) = Rank(d)}

\* prefetch_checkpoint_header_ranges: every checkpoint above the tip is asked
\* of one of the selected peers.
ProbesEnd ==
    /\ run.phase = "probe" /\ run.todo = {}
    /\ IF config.parallel_header_fetch_peers > 1
       THEN LET wanted == {c \in Checkpoint : tip # Nil /\ c > tip}
            IN  \E asked \in
                    Selections(Min({config.parallel_header_fetch_peers,
                                    Cardinality(wanted)}), run.now, {}) :
                \E f \in IF asked = {} THEN {<<>>} ELSE RoundRobin(wanted, asked) :
                    run' = [run EXCEPT
                        !.phase = "prefetch",
                        !.todo = {<<c, f[c]>> : c \in DOMAIN f}]
       ELSE \E todo \in Selections(config.preferred_peers, run.now, {}) :
                run' = [run EXCEPT !.phase = "sync", !.todo = todo]
    /\ UNCHANGED <<config, tip, peers, store>>

\* A range that starts after its checkpoint is staged; an empty one is not, and
\* any other is a failure.
RangeReplies(c, p) == {{}, {<<c, p>>}}

PrefetchReply(c, p, staged) ==
    /\ run.phase = "prefetch" /\ <<c, p>> \in run.todo
    /\ PersistThen(RecordUncorroborated(peers, p),
                   [run EXCEPT !.todo = @ \ {<<c, p>>},
                               !.ranges = @ \cup staged])
    /\ UNCHANGED <<config, tip>>

PrefetchEnds ==
    /\ run.phase = "prefetch" /\ run.todo = {}
    /\ run' = [run EXCEPT !.phase = "race"]
    /\ UNCHANGED <<config, tip, peers, store>>

\* Ranges whose checkpoint the chain holds, lowest first, before anything else
Ready == {r \in run.ranges : r[1] <= tip}

NextRange == CHOOSE r \in Ready : \A s \in Ready : r[1] <= s[1]

Applying == run.phase \in {"race", "closing"} /\ run.talk = Nil /\ Ready # {}

ApplyRange(best) ==
    /\ Applying
    /\ Extends(best)
    /\ run' = [run EXCEPT !.ranges = @ \ {NextRange}]
    /\ UNCHANGED <<config, peers, store>>

ApplyRangeRejected(verdict) ==
    /\ Applying
    /\ PersistThen(Blamed(peers, NextRange[2], verdict),
                   [run EXCEPT !.ranges = @ \ {NextRange}])
    /\ UNCHANGED <<config, tip>>

ApplyRangeStorageError ==
    /\ Applying
    /\ PersistThen(peers, Ended("failed"))
    /\ UNCHANGED <<config, tip>>

\* Peers heard before the winner that are at or below the tip, or have no
\* headers to give, with their claims
Skipped(m, claims) ==
    [p \in Peer |->
        IF p \in DOMAIN claims
        THEN RecordSuccess(m, p, Certified(claims[p], TipOrZero), run.now,
                           [tip |-> TipOrZero, extended |-> FALSE])[p]
        ELSE m[p]]

Closing == [run EXCEPT !.phase = "closing"]

RaceLimit == Max({config.preferred_peers, 1})
                * Max({config.max_header_batches_per_peer, 1})

\* One race: the first useful answer wins, later ones are dropped with their
\* channel; without one every candidate has been heard.
Race ==
    /\ run.phase = "race" /\ run.talk = Nil /\ Ready = {}
    /\ run.batches < RaceLimit
    /\ \E candidates \in
            Selections(Max({config.parallel_header_fetch_peers, 1}),
                       run.now, {}) :
       \E heard \in SUBSET candidates :
       \E claims \in [heard -> Claim] :
          \/ PersistThen(Skipped(peers, claims), Closing)
          \/ \E p \in candidates \ heard, claim \in Claim :
                /\ ~Reached(claim)
                /\ PersistThen(Skipped(peers, claims),
                        [run EXCEPT
                            !.batches = @ + 1,
                            !.talk = [address |-> p, claim |-> claim,
                                      stage |-> "won", batches |-> 0,
                                      extended |-> FALSE]])
    /\ UNCHANGED <<config, tip>>

Winner == run.phase = "race" /\ run.talk # Nil

RaceDone(phase) == [run EXCEPT !.phase = phase, !.talk = Nil]

RaceAccepted(full, best) ==
    /\ Winner
    /\ Extends(best)
    /\ PersistThen(
            RecordSuccess(peers, run.talk.address,
                          IF full THEN run.talk.claim
                                  ELSE Certified(run.talk.claim, best),
                          run.now, [tip |-> best, extended |-> TRUE]),
            RaceDone(IF full THEN "race" ELSE "closing"))
    /\ UNCHANGED config

RaceNothingNew ==
    /\ Winner /\ tip # Nil
    /\ PersistThen(
            RecordSuccess(peers, run.talk.address,
                          Certified(run.talk.claim, tip), run.now,
                          [tip |-> tip, extended |-> FALSE]),
            RaceDone("closing"))
    /\ UNCHANGED <<config, tip>>

\* The call returns at once: staged ranges are dropped.
RaceRejected(verdict) ==
    /\ Winner
    /\ PersistThen(Blamed(peers, run.talk.address, verdict), Ended("synced"))
    /\ UNCHANGED <<config, tip>>

RaceStorageError ==
    /\ Winner
    /\ PersistThen(peers, Ended("failed"))
    /\ UNCHANGED <<config, tip>>

RaceEnds ==
    /\ run.talk = Nil /\ Ready = {}
    /\ \/ run.phase = "closing"
       \/ run.phase = "race" /\ run.batches = RaceLimit
    /\ PersistThen(peers, Ended("synced"))
    /\ UNCHANGED <<config, tip>>

\* Corroboration selects again, at the time it starts; without a tip there is none.
StartCorroboration(completion) ==
    /\ run.phase = "synced"
    /\ IF tip = Nil THEN run' = Ended("done") ELSE
       LET now == Max({completion, run.now})
       IN  \E todo \in
                Selections(Max({config.parallel_peer_probes,
                                config.parallel_header_fetch_peers, 3}),
                           now, {}) :
            run' = [run EXCEPT !.phase = "corroborate", !.now = now,
                               !.todo = todo]
    /\ UNCHANGED <<config, tip, peers, store>>

CorroborationReply(p, claim, found) ==
    /\ run.phase = "corroborate" /\ p \in run.todo
    /\ LET m == IF claim <= tip
                THEN RecordSuccess(peers, p, claim, run.now,
                                   [tip |-> tip, extended |-> FALSE])
                ELSE RecordUncorroborated(peers, p)
       IN  PersistThen(Seed(m, found),
                       [Replied(p) EXCEPT !.answered = @ \cup {p}])
    /\ UNCHANGED <<config, tip>>

CorroborationEnds ==
    /\ run.phase = "corroborate" /\ run.todo = {}
    /\ run' = Ended("done")
    /\ UNCHANGED <<config, tip, peers, store>>

-----------------------------------------------------------------------------
(* The owner of manager and store between calls, and the process.          *)

\* PeerManager::retain with the endpoint policy
Prune ==
    /\ NotRunning
    /\ Known(peers) \ Allowed # {}
    /\ peers' = [p \in Peer |-> IF p \in Allowed THEN peers[p] ELSE Nil]
    /\ run' = Ended("idle")
    /\ UNCHANGED <<config, tip, store>>

\* replace_manager_with_sync_generation
ReplaceManager ==
    /\ NotRunning
    /\ store # peers
    /\ store' = peers
    /\ UNCHANGED <<config, tip, peers, run>>

\* The process ends at any point and loads what was saved.
Crash ==
    /\ peers' = store
    /\ run' = [Ended("idle") EXCEPT !.answered = {}]
    /\ UNCHANGED <<config, tip, store>>

Verdict == {"malformed", "stale"}

Sequential ==
    \/ \E now \in Time, persist \in BOOLEAN : StartSequential(now, persist)
    \/ \E p \in Peer :
        \/ GreetFails(p)
        \/ DiscoverFails(p)
        \/ \E claim \in Claim : Greet(p, claim)
        \/ \E found \in SUBSET Peer : Discover(p, found)
    \/ \E found \in SUBSET Peer : RequestAddresses(found)
    \/ AtOrBelowTip
    \/ FetchFails
    \/ FetchNothing
    \/ \E full \in BOOLEAN, best \in 0..MaxHeight : FetchAccepted(full, best)
    \/ \E verdict \in Verdict : FetchRejected(verdict)
    \/ FetchStorageError
    \/ SequenceEnds
    \/ DiscoveryEnds

Parallel ==
    \/ \E now \in Time : StartParallel(now) \/ StartCorroboration(now)
    \/ \E p \in run.todo : ReplyFails(p)
    \/ ProbesEnd
    \/ PrefetchEnds
    \/ \E p \in Peer, found \in SUBSET Peer :
        \/ ProbeReply(p, found)
        \/ \E claim \in Claim : CorroborationReply(p, claim, found)
    \/ \E c \in Checkpoint, p \in Peer :
        \E staged \in RangeReplies(c, p) : PrefetchReply(c, p, staged)
    \/ \E best \in 0..MaxHeight :
        ApplyRange(best) \/ \E full \in BOOLEAN : RaceAccepted(full, best)
    \/ \E verdict \in Verdict :
        ApplyRangeRejected(verdict) \/ RaceRejected(verdict)
    \/ ApplyRangeStorageError
    \/ Race
    \/ RaceNothingNew
    \/ RaceStorageError
    \/ RaceEnds
    \/ CorroborationEnds

SyncNext == Sequential \/ Parallel \/ Prune \/ ReplaceManager \/ Crash

SyncSpec == SyncInit /\ [][SyncNext]_syncVars

-----------------------------------------------------------------------------
(* Properties.                                                             *)

PeerState ==
    [last_height : Nat, last_height_observed_at : Time \cup {Nil},
     banned_until : Nat \cup {Nil},
     backing : [tip : Nat \cup {Nil}, extended : BOOLEAN]]

\* "The version height is an unauthenticated advisory claim": on record with
\* an observation time, in memory or on disk, it is one that the validated
\* tip covered or that its peer had just extended the chain for, after any
\* mix of races, probes, failed saves and restarts, and no peer is spoken to
\* that a malformed batch of the same or an earlier call has banned.  The one
\* exception is a sequential call on a chain without so much as a genesis:
\* sync_peer has no height to compare with and records the claim.
EvidenceIsBacked ==
    /\ \A m \in {peers, store} : \A p \in Known(m) :
          /\ m[p] \in PeerState
          /\ m[p].last_height_observed_at # Nil =>
                IF m[p].backing.tip = Nil THEN tip = Nil
                ELSE m[p].last_height <= m[p].backing.tip \/ m[p].backing.extended
    /\ run.talk # Nil => ~IsBanned(peers[run.talk.address], run.now)

\* "A version-only claim above the validated tip is not target evidence":
\* when a parallel call returns, every peer that answered its corroboration
\* is on record with no more than the tip, also one whose claim an earlier
\* batch of the same call had put on record.
AnsweredIsBelowTip ==
    run.phase = "done" /\ run.parallel =>
        \A p \in run.answered : peers[p].last_height <= tip

\* A persisting call that returns without an error has saved all it learnt,
\* bans of the last peer asked included.
SuccessIsSaved ==
    run.phase = "done" /\ run.persist =>
        \A p \in Known(peers) : store[p] = peers[p]

-----------------------------------------------------------------------------
(***************************************************************************)
(* One connection of hns-browser-p2p (HeaderSyncSession under a            *)
(* PeerConnection) and the ProofScheduler of hns-browser-sync that asks it *)
(* for name proofs.  The peer may send any packet at any time: what it was *)
(* asked for, an answer to an earlier question, or neither.                *)
(*                                                                         *)
(* A name stands for its hash too.  A tree root is the height whose header *)
(* commits to it, and what verifies against a root is what its tree holds. *)
(***************************************************************************)

CONSTANTS Name,
          Root,               \* tree roots, as the heights committing to them
          Present             \* names of each root's tree: [Root -> SUBSET Name]

VARIABLES session,            \* HeaderSyncSession
          call,               \* the request in progress
          pending,            \* ProofSyncCoordinator::pending
          stored,             \* what the sink holds for each name
          tally               \* history: proofs asked for and accepted

proof_vars == <<session, call, pending, stored, tally>>

NewSession == [state |-> "AwaitingVersion", ack_received |-> FALSE,
               remote_version |-> FALSE]

NoTally == [asked |-> [k \in Root \X Name |-> 0],
            accepted |-> [k \in Root \X Name |-> 0]]

ProofInit ==
    /\ session = NewSession
    /\ call = Nil
    /\ pending = {}
    /\ stored = [n \in Name |-> Nil]
    /\ tally = NoTally

Plain(kind) == [kind |-> kind]

Packet ==
    {Plain(k) : k \in {"version", "bad_version", "verack", "headers", "ping",
                       "ignored", "addr", "other"}}
        \cup [kind : {"proof"}, root : Root, name : Name, verifies : BOOLEAN]

\* HeaderSyncSession::on_packet: the session after it, whether a packet is to
\* be sent, and the action after that.
Reaction(s, send, result) == [session |-> s, send |-> send, result |-> result]

OnPacket(packet) ==
    LET s == session
        In(state, kind) == s.state = state /\ packet.kind = kind
        Greeted == [s EXCEPT !.remote_version = TRUE]
    IN
    CASE In("AwaitingVersion", "bad_version") ->
            Reaction([s EXCEPT !.state = "Closed"], FALSE, "disconnect")
      [] In("AwaitingVersion", "version") /\ s.ack_received ->
            Reaction([Greeted EXCEPT !.state = "Ready"], TRUE, "ready")
      [] In("AwaitingVersion", "version") /\ ~s.ack_received ->
            Reaction([Greeted EXCEPT !.state = "AwaitingVerack"], TRUE, "none")
      [] In("AwaitingVersion", "verack") ->
            Reaction([s EXCEPT !.ack_received = TRUE], FALSE, "none")
      [] In("AwaitingVerack", "verack") ->
            Reaction([s EXCEPT !.ack_received = TRUE, !.state = "Ready"],
                     FALSE, "ready")
      [] In("HeadersRequested", "headers") ->
            Reaction([s EXCEPT !.state = "Ready"], FALSE, "headers")
      [] In("ProofRequested", "proof") ->
            Reaction([s EXCEPT !.state = "Ready"], FALSE, "proof")
      [] s.state # "Closed" /\ packet.kind \in {"addr", "ignored"} ->
            Reaction(s, FALSE, "none")
      [] s.state # "Closed" /\ packet.kind = "ping" ->
            Reaction(s, TRUE, "none")
      [] OTHER -> Reaction(s, FALSE, "disconnect")

-----------------------------------------------------------------------------
(* Calls.  A write that fails, like a read that times out, ends the call   *)
(* and leaves the session as it is (CallFails, which may come at once).    *)

Asking(kind, root, name, height) ==
    [kind |-> kind, root |-> root, name |-> name, height |-> height]

Handshake ==
    /\ call = Nil
    /\ call' = Asking("handshake", Nil, Nil, Nil)
    /\ UNCHANGED <<session, pending, stored, tally>>

RequestHeaders ==
    /\ call = Nil /\ session.state = "Ready"
    /\ session' = [session EXCEPT !.state = "HeadersRequested"]
    /\ call' = Asking("headers", Nil, Nil, Nil)
    /\ UNCHANGED <<pending, stored, tally>>

\* GetAddr goes past the session.
RequestAddressesOnly ==
    /\ call = Nil
    /\ call' = Asking("addresses", Nil, Nil, Nil)
    /\ UNCHANGED <<session, pending, stored, tally>>

\* request_hash_and_store_with_height, to the first packet received
RequestAndStore(root, name, height) ==
    /\ call = Nil /\ session.state = "Ready"
    /\ session' = [session EXCEPT !.state = "ProofRequested"]
    /\ tally' = [tally EXCEPT !.asked[<<root, name>>] = @ + 1]
    /\ call' = Asking("proof", root, name, height)
    /\ pending' = pending \cup {<<root, name>>}
    /\ UNCHANGED stored

ForgetRequest ==
    pending' = IF call.kind = "proof"
               THEN pending \ {<<call.root, call.name>>} ELSE pending

CallFails ==
    /\ call # Nil
    /\ call' = Nil
    /\ ForgetRequest
    /\ UNCHANGED <<session, stored, tally>>

ReceiveAddresses(packet) ==
    /\ call # Nil /\ call.kind = "addresses"
    /\ call' = IF packet.kind \in {"ping", "ignored", "verack"}
               THEN call ELSE Nil
    /\ UNCHANGED <<session, pending, stored, tally>>

\* A packet that does not bring a proof to a proof request
Receive(packet) ==
    LET r == OnPacket(packet)
    IN  /\ call # Nil /\ call.kind # "addresses"
        /\ call.kind = "proof" => r.result # "proof"
        /\ session' = r.session
        /\ \/ r.result = "none" /\ UNCHANGED <<call, pending>>
           \/ /\ r.send \/ r.result # "none"
              /\ call' = Nil
              /\ ForgetRequest
        /\ UNCHANGED <<stored, tally>>

\* Mutant of Consumed: the request stays pending.
ConsumedKeeps(key) == pending

Consumed(key) == pending \ {key}

\* ingest_proof and verified_resource_value: the proof verifies, and the name
\* state of an inclusion carries the name asked for.
Storable(packet) ==
    /\ packet.verifies
    /\ packet.name \in Present[packet.root] => packet.name = call.name

\* The proof is pending: its request is consumed whatever comes of it.  The
\* sink may fail.
IngestProof(packet) ==
    LET key == <<packet.root, packet.name>>
    IN  /\ call # Nil /\ call.kind = "proof"
        /\ OnPacket(packet).result = "proof"
        /\ key \in pending
        /\ session' = OnPacket(packet).session
        /\ call' = Nil
        /\ pending' = Consumed(key)
        /\ \/ UNCHANGED <<stored, tally>>
           \/ /\ Storable(packet)
              /\ stored' = [stored EXCEPT ![call.name] =
                    [name |-> packet.name,
                     included |-> packet.name \in Present[packet.root],
                     asked |-> call.root,
                     tree_root |-> packet.root, height |-> call.height]]
              /\ tally' = [tally EXCEPT !.accepted[key] = @ + 1]

\* The proof is not: the call ends, and its own request stays pending.
UnexpectedProof(packet) ==
    /\ call # Nil /\ call.kind = "proof"
    /\ OnPacket(packet).result = "proof"
    /\ <<packet.root, packet.name>> \notin pending
    /\ session' = OnPacket(packet).session
    /\ call' = Nil
    /\ UNCHANGED <<pending, stored, tally>>

\* The scheduler goes on with another connection.
Reconnect ==
    /\ call = Nil
    /\ session' = NewSession
    /\ UNCHANGED <<call, pending, stored, tally>>

ProofNext ==
    \/ Handshake
    \/ RequestHeaders
    \/ RequestAddressesOnly
    \/ \E root \in Root, name \in Name :
        \E height \in {root, Nil} : RequestAndStore(root, name, height)
    \/ CallFails
    \/ \E packet \in Packet :
        \/ ReceiveAddresses(packet)
        \/ Receive(packet)
        \/ IngestProof(packet)
        \/ UnexpectedProof(packet)
    \/ Reconnect

ProofSpec == ProofInit /\ [][ProofNext]_proof_vars

-----------------------------------------------------------------------------
(* Properties.                                                             *)

\* No proof counts twice, and none that was not asked for at all: over all
\* connections, unsolicited and late packets, the proofs accepted for a root
\* and name are at most the requests made for them; an inclusion is stored
\* under the name it proves; and only a peer that has sent its version is
\* ever asked (track_request, ingest_proof, extract_name_state_resource_value
\* and on_packet together).
ProofsAreAccounted ==
    /\ \A k \in Root \X Name : tally.accepted[k] <= tally.asked[k]
    /\ \A n \in Name : stored[n] # Nil /\ stored[n].included =>
            stored[n].name = n
    /\ session.state \in {"Ready", "HeadersRequested", "ProofRequested"} =>
            session.remote_version /\ session.ack_received

\* "proof payload does not match requested root or key" is an error: what is
\* stored for a name answers the request it was stored by, in name and root.
StoredAnswersItsRequest ==
    \A n \in Name : stored[n] # Nil =>
        stored[n].name = n /\ stored[n].tree_root = stored[n].asked
=============================================================================
