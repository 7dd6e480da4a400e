# A TLA+ model of hns-dane-engine

`hns-dane-engine` is a family of Rust crates that lets a browser resolve
Handshake names without trusting a resolver: a light client keeps a header chain
and name proofs, a resolver validates DNSSEC under them, DANE binds the answer to
the certificate an origin presents, and a loopback proxy hands the result to the
browser.  Every object that crosses a boundary (a stamp, a completion, a grant, a
cached answer, a recorded peer height) is a claim about the state under which it
was made.  The recurring question of the code base, and of this project, is
whether such a claim can still be acted on after that state has changed.

The directory holds the TLA+ modules, the TLC configurations that check them on
small instances, and eight modules with theorems that TLAPS proves for all
instances.  `PROJECT.json` lists components, runs, mutants, the source lines
behind every definition, hazards and theorems.

    tlc -config MCEngine.cfg MCEngine      # one run
    tlapm Engine_proofs.tla                # the proofs of one module

## 1. Parts and modules

Crates are under `src/crates/`.

| Part | Crate or file | What makes it hard | Modules |
|---|---|---|---|
| Browser runtime | `hns-browser-runtime` | stamps presented after an invalidation and a recovery; counters at their maximum; restarts | `BrowserRuntime`, `RuntimeSessions`, `StampLedger` |
| Resolution policy, its file, the C ABI | `hns-resolution-policy`, `hns-dane-engine-ffi` | effects executed several changes late; blobs of three schemas; threads of a host that read, change and use what they read | `ResolutionPolicy`, `PolicyHost` |
| Transport gateway | `hns-gateway` | copied tokens, late outcomes, a policy that changes and changes back | `Gateway`, `Gateway_proofs` |
| Engine facade | `hns-dane-engine/src/lib.rs` | the lock is released while the TLS authenticator runs; lifetimes that meet at an instant | `Engine`, `Engine_proofs` |
| Private transports | ODoH, HNSA and HNSR runtimes and the brokers, `hns-dane-engine` | authority that changes during adapter I/O; saves and restores; writes of unknown outcome; lost leases | `TransportAuthority`, `OdohRequester`, `NamedRoutes`, `AuthorityBrokers` |
| Loopback proxy sessions | `hns-loopback-proxy` | two questions to the engine in one call; reclaiming without a new generation | `LoopbackProxy`, `LoopbackProxy_proofs`, `LoopbackProxy_safety` |
| Browser proxy server | `hns-browser-loopback-proxy` | stop and drop from any thread, joins, a request admitted before and forwarded after a change | `ProxyLifecycle`, `ProxyRequests`, `HttpMessages` |
| Origin transport | `hns-browser-transport` | pooled connections that fail late, verifiers shared by handshakes, cancellation and deadlines | `OriginTransport`, `ProxyLifecycle`, `HttpMessages` |
| Namespace decision, browser gateways, ICANN discovery | `hns-namespace-resolution`, `hns-browser-gateway`, `hns-icann-dane` | two roots that disagree; lifetimes of decisions | `BrowserGateway` |
| Resolver | `hns-browser-resolver` | servers that lie, fail or are refused by policy; values and answers that outlive what they rest on | `DelegatedResolution`, `ProvenNames`, `ResolverCaches` |
| DNS relay client, peer wire format, P2P transports | `hns-browser-p2p`, `hns-p2p-transport` | answers matched to requests over connections that come and go | `DelegatedResolution`, `PeerMessages` |
| DNSSEC, TLSA, DANE | `hns-dnssec`, `hns-browser-dnssec`, `hns-resolver`, `hns-dane`, `hns-browser-dane` | several signers, keys, clocks and denials in one answer | `DnssecSignatures`, `DaneMatching` |
| DNS messages, direct DNS | `hns-dns-wire`, `hns-transport` | compression, cancellation between any two steps | `DnsWire` |
| Answer caches | `hns-cache` | two structures kept in step; time that passes inside an operation | `SecureCache`, `ResolverCaches` |
| Light client | `hns-light-*` | late, repeated and wrong answers, peers that leave and return, reopening | `HeaderSync`, `HeaderSync_proofs`, `LightClient` |
| Browser header chain | `hns-browser-chain`, `hns-browser-urkel`, difficulty in `hns-browser-primitives` | a crash between two transactions; the live chain moves while a stage is extended | `BrowserChain`, `ConsensusRules` |
| Header sync runner, peers, proof scheduler | `hns-browser-sync`, `hns-browser-p2p` | replies in any order, failing saves, crashes, late proofs | `BrowserSync` |
| Status record | `hns-browser-observability` | a report made of fields written at different times | `StatusRecords` |

`Checks` is the idiom of a function that returns the first check that fails.
`PROJECT.json` breaks the parts into 41 components and says of each what is
modelled and what is not.

How they interact: the engine owns a runtime and a policy controller and moves
both generations together; the gateway walks the plan of one policy snapshot and
its selection is admitted by the engine; the private transports are bound to the
engine's authority and ask it again after every I/O; the loopback proxy asks the
engine whether an authority is current; caches are keyed by the engine's
generations; the sync runner feeds the header chain and the peer store; proofs
are requested against roots of the chain and become the values the resolver
starts from; what it resolves becomes a namespace decision, an origin plan, a
connection, and a response the proxy relays.

## 2. How the modules correspond to the code

An operation of the code is one action, named after the method.  Where a method
releases a lock, blocks, or commits a transaction part way, it is split exactly
there.  A method that returns an error and changes nothing is a disabled guard, or
an outcome where the caller acts on it; one that changes something first is an
action of its own (`BindHnsExhausted`).  `checked_add` is a guard at a constant
that stands for the type's maximum, so that runs reach exhaustion.  Pure code is a
set of operators, which the runs compare with a definition of what they should say.

* **BrowserRuntime** holds the runtime's variables and operations without a
  `Next`; `RuntimeSessions` adds callers that keep stamps and a process that
  restarts, `Engine` puts the facade over the same operations.
  **StampLedger** is the abstract promise: a stamp is minted once, is live from
  then on, and the first invalidation kills it for good.  It has no counters.
* **ResolutionPolicy** has configurations, conflicts, the ordered plan and the
  controller.  **PolicyHost** has the persisted blob (the record of its fields, and
  whether magic, length and CRC agree with them), a disk, crashes, adapters that
  lag behind, and the threads of a C host between whose calls anything may happen.
* **Gateway** extends `ResolutionPolicy`.  Any token ever issued may be presented
  to any gateway at any time, because tokens are `Copy`.
* **Engine** extends `BrowserRuntime` and `ResolutionPolicy`.  Every method is
  one action under the lock; the ICANN binding is two, with the authenticator
  between them.  Each object a caller may hold is a variable; `root` fields
  remember in which session and epoch the first admission behind the object took
  place, which the code does not store and the properties are about.
* **TransportAuthority** is what the private runtimes see of the engine.
  **OdohRequester**, **NamedRoutes** and **AuthorityBrokers** split every
  operation at its adapter call; stores may hand back older state, a commit may
  fail before or after it took effect, and a signature holds for what its key
  issued.
* **LoopbackProxy** reduces the engine to the three things a session asks it, and
  lets it change between any two questions of one call.
* **ProxyLifecycle** has the accept thread, its workers, owners that stop or drop
  the proxy, the reaper, one raw tunnel with both pump directions, one controlled
  fetch, and the identity store.  **ProxyRequests** has each request handler from
  its head to its answer, for both builds, and the rate limiter, whose callers
  read the clock before they take the lock.  The two builds route a request inside a
  local TLS session differently and share what follows its admission.
* **OriginTransport** has the shared state of connections: pools, Alt-Svc and
  suppression, verifiers with their captures by thread, and the dial of several
  candidates.
* **DelegatedResolution** has one resolution against a world chosen at the start
  (each server tells the truth, lies, fails or is refused), and the relay client's
  pool.  **ResolverCaches** has the value table, the answer cache with flights that
  began earlier, and the expiring LRU.
* **DnssecSignatures**, **DaneMatching**, **DnsWire**, **PeerMessages**,
  **HttpMessages**, **ConsensusRules**, **ProvenNames**, **BrowserGateway** and
  **StatusRecords** are mostly operators.  A signature, a hash and a certificate
  are terms that name their key and content; lengths and octets run over small
  ranges that keep every boundary of the code.  Where two crates read the same thing,
  both readers are there and are compared: the DNS message, the name servers of a
  Handshake resource, the value in a name's state, the denial of a name, the locator.
* **HeaderSync** has a network that loses, delays, repeats and reorders.  A block
  is the path of headers that leads to it, so `append_batch` succeeds exactly for
  extensions.  **LightClient** has the retained window beneath it, one peer
  session, and the wallet's evidence.
* **BrowserChain** has a constant tree of headers.  The live database and the
  stage are two records of the same shape, so one set of operators serves both.
* **BrowserSync** takes the chain as the height of its best header and lets a peer
  claim, serve, withhold and send anything at any time.

## 3. Runs

A run composes the parts that belong together; a variable fixed in the initial
state says which of them, and in which *regime*, the behaviour is about, so that
each gets room without the product of all.  A regime bounds the environment only;
guards and updates are the component's.

| Run | What it checks |
|---|---|
| `policy_and_runtime` | `StampsBehindClock`: a stamp of an older generation is below the floor. `RecoveryClimbsLadder`: work is admitted only after all four rungs since the last invalidation. `LedgerSpec`: the counters implement the ledger. `SettledHostObeysPolicy`: once the adapters have caught up they use and advertise nothing the policy in force forbids. `CallsAreSound`: decoding accepts what encoding writes, migrates older schemas and accepts nothing else; no thread of a C host undoes a write it has not read, and lists, attempts and validations are of the policy in force |
| `gateway_and_proxy_threads` | `NoDowngrade`: a fallback only after failures that permit it. `SelectionIsSound`: one answer, for its own attempt, in time, under its own policy. `ProxyStopsCleanly`: `Stopped` is announced once, last and after all threads; a tunnel's outcome is true; a fetch obeys cancellation and deadline. `EverythingEnds` (liveness) |
| `engine_and_transport` | `EvidenceIsCurrent`, `CompletionFromThisEpoch`, `AuthorityFromThisEpoch`: nothing admitted before an invalidation, or in another process, passes for current. `AuthorityWithinEvidence`: an authority lies within every lifetime it rests on. `GenerationsInLockstep`. `ConnectionsAreSound`: retries, reuse, shared verifiers and shared dials answer their own callers |
| `private_transports` | `PrivateStateIsCurrent`: a private answer is from a target that authority, configuration and clock still allow, and a restored state is the latest saved. `OpenedOnlyAdvance`: routes opened for a name never go back and never equivocate. `GrantsOutliveNothing`: no connection or lease is used after what it was granted under is gone |
| `loopback_registry` | `ReclaimedIsDead`, `HandlesStayDead`: a dropped publication can never be current again, a handle once dead stays so. `GrantsAreSound`, `TunnelsAreCurrent` |
| `resolution_and_caches` | `ResolutionsHold`: a secure answer is what the zone published, one honest server is enough, a relayed answer is the answer to its query. `RemembersWithinBounds`: the value table, the answer cache and the LRU. `EvictsOldestFirst`, `ReadsAreSound`: the secure cache |
| `light_client` | `TipWasAgreed`, `RoundMatchesChain`, `CurrentMeansNoExtension`; `LightEvidenceHolds`: the retained window judges as the whole chain would, a session is ready once and answers each request once, and accepted blocks, views and resources are what the chain committed to |
| `browser_chain_and_sync` | `CanonicalIsBestChain`, `BestIsHeaviest` (up to headers an interruption or an unconditional publication passed over), `BestOnlyGainsWork`; `CallsLeaveEvidence`: a height on record is backed by validated headers, no answering peer is left above the tip, success is saved. `ProofsAreAccounted`. `RulesHold`: retargeting and name proofs agree with their definitions |
| `decisions` | `RequestsAreAdmitted`, `MessagesAgree` (HTTP, DNS and peer messages: what one side writes is what the other reads, and nothing else is), `DecisionsAreTrue` (namespaces, origins, proven names, statuses), `EvidenceHolds` (signatures, denials, TLSA evidence, certificates) |
| `streamed_retry`, `erased_failure`, `late_proof` | violations, see section 6 |

A composed property names, in its comment, the properties of the components it is
the conjunction of; each is stated and commented in the component's module.  For
every property `PROJECT.json` names a mutant: a change to one mapped definition,
of the kind a slip in the code would be, under which TLC finds the property
violated.

Deadlock is not checked: in all these systems counters, time or the number of
calls are bounded, and a bounded model stops when they are used up.

## 4. Bounds

* `MCPolicyHost`: two sessions and twelve events, the fewest that mint a stamp,
  degrade, recover fully and mint again; every field of a found blob over its codes
  and one unknown value, in all schemas and an unknown one; configurations that
  differ in every setting the effects look at; two host threads, one of the older
  interface, two updates and two engines, so that what a thread read may be of an
  older policy or of an engine that is gone.
* `MCGateway`: one gateway over plans of four and five candidates; two gateways
  with exchanged tokens over plans of three and a policy that changes and changes
  back; for the proxy two workers, one of which the client limit admits, two owners
  and two stops, enough for a stop from inside a worker to meet one from outside.
* `MCEngine`: one process to the end of the counters (14 events), two processes on
  the ICANN path, decisions and TLSA evidence that overlap in every way over four
  instants; two threads that fetch, handshake or dial together, in both builds.
* `MCPrivate`: two targets, one of which is also a proxy, conflicting
  configurations of one sequence, an early expiry; a batch for each way in which a
  route may relate to one before it; two brokers over one live subject.  The resource
  of a name may change twice, or its profile, while the authority keeps its
  policy and the clock stands; with the first resource and profile both move.  After a
  restart authority and resource stay as they came up.
* `MCLoopbackProxy`: three origins in two places to the end of the counters; one
  origin with two CONNECTs; two sessions that exchange handles.
* `MCResolution`: worlds that put a working server behind others that need not
  work, two relays of one address group and one of another; three keys in two
  places, sizes that make one value displace two; what replaces a value in the
  secure cache is another value, so that a stale read shows.
* `MCLight`: three peers and an agreement of two, on a fork of equal work with a
  heavier continuation; announcements and a restart on a single header; a window
  of four headers in chains of up to six; evidence over every small input.
* `MCBrowserChain`: three branches with a tie, an overtaking branch and an
  unacceptable header; two askable peers in one address group and one that may not
  be asked, under a sequential and a racing configuration; a chain that has its
  genesis header and, for two peers nothing is recorded of, one that has none.
* `MCDecisions`: every combination of the inputs that the code tells apart, with
  numbers just below, at and above each limit.  Declarations of several parts are
  tried with the delegation that gives the parts a meaning.

Symmetry is used where all uses of a set are symmetric and no liveness property
is checked: sessions, peers of `HeaderSync`, origins.  Elsewhere the first member
of an interchangeable set to be used is always the same.

## 5. Fairness

`EverythingEnds` is the only liveness property, and `MCGateway` the only
specification with fairness.  It assumes weak fairness of

* a step by each gateway's driver that changes the gateway: `next_attempt` and
  `complete` are called by an adapter that loops until the gateway is terminal, and
  every attempt has a deadline after which a failure can be reported;
* each thread of the proxy that is able to run: start, accept loop, reaper,
  a thread inside `stop` or `drop`, the preparation of a worker.  A handler is
  assumed to end only once the proxy is stopping, because its socket is then
  shut down;
* the pumps of a tunnel and the outcome of its connect, which all have timeouts;
* the thread of a fetch, and the clock.

Nothing is assumed about answers, peers, owners or the policy.

## 6. Disagreements between code, documentation and tests

* `streamed_retry`: `fetch_http11_to_writer_streaming` sends a request again after
  any failure on a pooled connection, whatever its method and whatever was already
  handed over (`hns-browser-transport/src/mobile.rs:721`).  The buffered form asks
  for a safe method and that nothing was written, and its tests
  (`mobile.rs:3771`, `3828`) say so of the crate.  `PartialResponseIsFinal` is
  violated: the caller gets a second head and the body from the start.
* `erased_failure`: `resolve_secure_child_referral` keeps the last server's error
  (`hns-browser-resolver/src/lib.rs:2931`), while `resolution_error_priority` (line
  1230) says that validation and policy failures are kept "stronger so a later
  transport failure cannot erase it".  `NoFailureIsErased` is violated.
* `late_proof`: `ProofScheduler` leaves its receive loop with `ingest_proof(proof)?`
  when a proof was not requested (`hns-browser-sync/src/lib.rs:1927`).  It is the
  one exit that does not forget the request of the call.  The answer to that first
  request then still counts as requested when it arrives during the next one; it is
  accepted, and its root (for a proof of absence, its name too) is stored under the
  second request.  The crate's own error for this situation is
  "proof payload does not match requested root or key" (line 232), and its tests
  expect `pending_len() == 0` after a call (lines 3180, 3201).
  `StoredAnswersItsRequest` is violated.

## 7. Proofs

Each theorem is about the component's own specification, for every value of its
constants that meets the named assumptions; no regime and no bound of the runs is
in it beyond those the constants stand for (a counter's width, a limit of the
configuration).  The assumptions say that limits are numbers of the range the
code's `validate` functions demand, that constants have their types, and that a
marker for absence (`None`, `NoEntry`) is none of the values it stands beside.
`RootedAssumption` of `BrowserChain` says that headers form a tree under genesis,
so that height, lineage and chainwork are defined.

* **RuntimeSessions**.  `StampSafety` (type correctness and `StampsBehindClock`),
  by the inductive invariant `TypeOK /\ StampsBehindClock`: a stamp is behind the
  clock of its session, and one of an older generation is below the floor.
  `LadderSafety` (`RecoveryClimbsLadder`) is inductive with `TypeOK`.
  `RuntimeImplementsLedger`: the step simulation to `StampLedger`.  A degradation or
  policy change lifts the floor to the clock, and because every kept stamp is behind
  the clock this hits all of them at once, which is what `Invalidate` says; without
  the invariant a stamp from the future could survive.
* **Engine_proofs**.  The invariant is `TypeOK /\ Shapes /\ ObjectsSound`:
  every held object carries a stamp behind the clock of its session, and if the
  stamp is within the epoch in force so is the first admission behind the object.
  Whether an object is current is decided in the code from the stamp alone, so the
  property itself is not inductive.  `ClockMoves` reduces every action to three
  cases (calm, invalidation, new session); `Aging` shows once that an object
  nobody touches stays sound in all three; what remains is one step per action
  that mints or replaces an object.  From it follow `CompletionSafety` and
  `AuthoritySafety`; `EvidenceSafety` and `LockstepSafety` need only `TypeOK`.
  `LifetimeSafety` (`AuthorityWithinEvidence`) has an invariant of its own,
  `Lifetimes`: the window of every context and authority lies in the lifetimes of
  the decision and of the TLSA evidence it was made from, through every narrowing
  and revalidation, although the calls may be given any times.
* **LoopbackProxy_proofs, LoopbackProxy_safety**.  `LoopbackInvariant` is the
  inductive invariant: what sessions, calls in progress, grants, admissions and
  reclaimed records know of each other between two questions a method asks.  A
  step does one of four things to a session (`Evolves`), and the engine only moves
  forward (`EngineMoves`); each conjunct follows from these.  `GrantSafety`,
  `TunnelSafety`, `ReclaimSafety` and the action property `HandleSafety` follow
  from the invariant.
* **HeaderSync_proofs**.  `RoundSafety` (with type correctness), `AgreementSafety`
  and `CurrencySafety`, by one invariant that adds `HeardInThisRound`: every answer
  a round holds was given to a request of that round.  Without it a late answer
  could be counted as agreement, and the tip's agreement would not be inductive.
* **Gateway_proofs**.  `DowngradeSafety` and `SelectionSafety`.  Cursor, active
  attempt and failures seen say the same thing three times (`Walks`); only a
  gateway with an active attempt moves on, and one that answered is terminal
  (`Once`, `Answered`), so what was true when it answered stays true.  That UDP is
  the first candidate of every plan and no other is a lemma about `for_policy`.
* **BrowserChain**.  `HeaviestSafety` and `WorkSafety`.  The invariant says of both
  databases that the headers heavier than the best one are among those passed over;
  that one with a best header has its genesis header; and that a stage has only
  gained work since its baseline (`StageAhead`), which is why a conditional
  publication, made when the live state still is the baseline, never loses work.
* **SecureCache**.  `ReadSafety`.  The invariant `Admitted` says that every resident
  entry is the one last admitted under its key, through evictions and removals.

Only model-checked:

* `EverythingEnds`: liveness under fairness, and `ENABLED`, are out of the prover's
  reach.
* `CanonicalIsBestChain`, `EvictsOldestFirst`, the accounting and queue order of the
  caches: induction over data (lineages and batches of headers, sums and queues).
* Everything about `ConsensusRules`, `DaneMatching`, `DnsWire`, `DnssecSignatures`,
  `LightClient` and `ProxyRequests`, which use `RECURSIVE` operators.
* The remaining safety properties, composed in the MC modules: `CallsAreSound`,
  `SettledHostObeysPolicy`, `ProxyStopsCleanly`, `ConnectionsAreSound`, the private
  transports, `ResolutionsHold`, `RemembersWithinBounds`, `CallsLeaveEvidence`,
  `ProofsAreAccounted`, and the decisions.

## 8. Not modelled

Hashing, signature arithmetic, certificate path building and TLS are external:
their verdicts are inputs, or terms without collisions.  Browser primitives and
the test kit have no state.  Byte layouts that no property tells apart, wording,
logging and statistics that decide nothing are left out, as are peer scores (they
only order candidates, except that an accumulated score is one more reason not to
be selected), DNS seeds of the browser's peer manager, damaged SQLite files, the
checkpoint table of the browser chain, and pointer validity in the C ABI, which is
the caller's contract.  `PROJECT.json` says of each component what is missing.

## 9. What was noticed on the way

Behaviour that no property forbids, kept here because the models show it or had to
decide about it:

* Proxy: two proxies whose worker callbacks stop each other could wait for each
  other's join.  A cancelled raw tunnel may be reported as completed.  Direct
  absolute requests to blocked ports are refused by the gateway, not the proxy, in
  the Chromium build.  The rate limiter's callers read the clock before the lock,
  so entries may be stamped out of order.  The Chromium build offers a CONNECT to its
  backend first, so one the backend has seen may still end as `Rejected` with 502 or
  503.  A client that does not read for the I/O timeout ends its tunnel, where one
  that does not write is waited for.
* Origin transport: in the Chromium build a verifier's success is recorded before
  its handshake completes.  The rotation of WebPKI candidates is one counter for
  all plans.  HTTP/3 address resolution has no timeout of its own, HTTP/2's is
  within the total.
* Resolver: an interception diagnosis overwrites earlier errors, and a relay's
  result discards earlier DoH errors.  The DoH endpoint cache does not expire and
  keeps an empty list after a transient failure.  The NXDOMAIN of an inline child,
  and a child-signed CNAME without referral, always fail.  All NSEC or NSEC3
  records are passed as one RRset, which fails closed.  An alias answered together
  with the NXDOMAIN of its target is read as a name error of the alias and fails as
  `DnssecFailed`.  The byte limit, the pruning
  of anchors, `DnsRelayClient` and `report_dnssec_failure` have no caller in this
  repository outside their crates.
* Peers: a relay pool full of peers that cool down yields `NoCapablePeer`.
  `FrameDecoder::feed` may refuse a legal stream close to its maximum, and packets
  read before a feed error are lost.  The light session samples the clock once
  before blocking reads.
* Private transports: ODoH revocation at the last generation erases without
  counting.  An HNSR snapshot cannot be used after a policy change, and a relay
  revoked at the last generation keeps its reservations.  Whether routes below the
  running maximum conflict is noticed or not depending on their order.  A broker
  behind another process's commit refuses until it is restarted.
* Light wallet: the claimed total of a view is not authenticated, and views that
  differ in it do not merge.
* Status: a completion without a chain anchor is reported as `MissingChainAnchor`,
  which is every completion that came through the C ABI.  A C host that lists
  transports across a policy change may see a list made of two plans.
* Validation: `verify_dane_chain` depends on the order of the records it is given,
  a trust-anchor record may name the leaf, and the browser's DNSSEC ignores the
  revoked flag and compares times without serial arithmetic.
  `docs/security-policy.md:138` speaks of closest-encloser and wildcard proofs for NSEC
  and NSEC3.  For NSEC the engine takes the nearest ancestor that has a record, the
  browser any ancestor whose wildcard is covered: in both an empty non-terminal counts
  as absent, and the record of a delegation counts for the names below it.
* Header chain: a conditional publication over an empty live database, of a stage
  without a best header, leaves headers stored without the genesis header; they
  count as passed over until a later insertion.  Without a genesis header a
  sequential sync records the height a peer claims as it stands.
