---------------------------- MODULE LightClient -----------------------------
(***************************************************************************)
(* hns-light-chain: a linear chain of validated headers that keeps only the *)
(* entries the median time and the next difficulty are computed from, and   *)
(* the checkpoints it is saved in and restored from.                        *)
(*                                                                          *)
(* The hash of a header stands for the headers from genesis to it, each by  *)
(* its time and bits.  What the consensus library computes from the entries *)
(* it is given is a function that tells them apart.                         *)
(***************************************************************************)
EXTENDS Checks, Integers, FiniteSets, SequencesExt, Sequences

CONSTANTS TargetWindow,       \* pow.target_window
          RequiredHistory,    \* REQUIRED_DIFFICULTY_HISTORY
          MedianSpan,         \* MEDIAN_TIME_SPAN
          LinearLocator,      \* entries of a locator before its steps double
          MaxBatch,           \* limits.max_headers_per_batch
          MaxTime,            \* bound on the times of headers
          MaxHeight,          \* bound on the height of a chain
          MaxSaves            \* bound on the checkpoints of a behaviour

VARIABLES chain,              \* the open LightChain, <<>> while there is none
          store,              \* checkpoints in the caller's authenticated store
          floor               \* the rollback floor the caller holds
chainVars == <<chain, store, floor>>

Genesis == [height |-> 0, hash |-> <<>>, previous |-> <<>>, time |-> 0, bits |-> 1, work |-> 1]

from_genesis == [network |-> "main", history |-> <<Genesis>>, tip |-> Genesis]

entry_at(history, height) == SelectSeq(history, LAMBDA e : e.height = height)

\* The entry of median time among three consecutive ones, empty when one of them
\* is no longer retained.
suitable_entry(history, height) ==
    LET three == entry_at(history, height - 2) \o entry_at(history, height - 1) \o entry_at(history, height)
        sorted == SortSeq(three, LAMBDA a, b : a.time < b.time \/ (a.time = b.time /\ a.height < b.height))
    IN IF height < 2 \/ Len(three) < 3 THEN <<>> ELSE <<sorted[2]>>

LastOf(s, n) == SubSeq(s, IF Len(s) > n THEN Len(s) - n + 1 ELSE 1, Len(s))
MedianOf(times) == LET sorted == SortSeq(times, <) IN sorted[(Len(times) \div 2) + 1]
median_time_past(history) ==
    LET last == LastOf(history, MedianSpan) IN MedianOf([i \in DOMAIN last |-> last[i].time])

\* The difficulty the library asks of the next header.
expected_next_bits(first, last) ==
    IF first = <<>> THEN 1
    ELSE 1 + ((last[1].time + first[1].time + last[1].height) % 2)

NextBits(c) ==
    IF c.tip.height >= TargetWindow + 2
    THEN expected_next_bits(suitable_entry(c.history, c.tip.height - TargetWindow),
                            suitable_entry(c.history, c.tip.height))
    ELSE expected_next_bits(<<>>, <<>>)
HistoryIsThere(c) ==
    c.tip.height >= TargetWindow + 2 =>
      /\ suitable_entry(c.history, c.tip.height - TargetWindow) # <<>>
      /\ suitable_entry(c.history, c.tip.height) # <<>>

\* What the library checks of a header against its context.
validate_header(h, c, now) ==
    FirstError(<< <<h.previous = c.tip.hash, "previous">>,
                  <<h.time > median_time_past(c.history), "too old">>,
                  <<h.time <= now + 1, "too new">>,
                  <<h.bits = NextBits(c), "bits">>,
                  <<h.work, "work">> >>)

entry_from_header(height, h, work) ==
    [height |-> height, hash |-> Append(h.previous, <<h.time, h.bits>>), previous |-> h.previous,
     time |-> h.time, bits |-> h.bits, work |-> work]

Retained(history) == LastOf(history, RequiredHistory)

\* LightChain::append; a failed append leaves the error in place of the chain.
append(c, h, now) ==
    LET error == FirstError(<< <<HistoryIsThere(c), "MissingDifficultyHistory">>,
                               <<HistoryIsThere(c) => validate_header(h, c, now) = "none", "Header">> >>)
        entry == entry_from_header(c.tip.height + 1, h, c.tip.work + h.bits)
    IN IF error # "none" THEN [c EXCEPT !.network = error]
       ELSE [c EXCEPT !.history = Retained(Append(@, entry)), !.tip = entry]
Failed(c) == c.network \in {"MissingDifficultyHistory", "Header"}

\* LightChain::append_batch on a copy that replaces the chain only as a whole.
append_batch(c, headers, now) ==
    LET candidate == FoldLeft(LAMBDA done, h : IF Failed(done) THEN done ELSE append(done, h, now), c, headers)
    IN IF Len(headers) \in 1..MaxBatch /\ ~Failed(candidate) THEN candidate ELSE c

\* LightChain::locator: recent first, with doubling steps, genesis last.
RECURSIVE LocatorFrom(_, _, _, _)
LocatorFrom(history, height, step, locator) ==
    LET entry == entry_at(history, height)
        extended == Append(locator, entry[1].hash)
        wider == IF Len(extended) >= LinearLocator THEN 2 * step ELSE step
    IN IF entry = <<>> THEN locator
       ELSE IF height = 0 THEN extended
       ELSE LocatorFrom(history, IF height > wider THEN height - wider ELSE 0, wider, extended)
locator(c) ==
    LET found == LocatorFrom(c.history, c.tip.height, 1, <<>>)
    IN IF Last(found) = Genesis.hash THEN found ELSE Append(found, Genesis.hash)

\* HeaderSyncCoordinator::locator_with_limit, the browser's: along the parents of a best
\* header, which are all stored; the steps double one entry later.
RECURSIVE BrowserLocator(_, _, _, _)
BrowserLocator(block, step, limit, listed) ==
    LET extended == Append(listed, block)
        height == Len(block) - Len(Genesis.hash)
        wider == IF Len(extended) >= LinearLocator THEN 2 * step ELSE step
    IN IF Len(listed) >= limit THEN listed
       ELSE IF height = 0 THEN extended
       ELSE BrowserLocator(SubSeq(block, 1, Len(block) - (IF step < height THEN step ELSE height)), wider, limit, extended)
locator_with_limit(best, limit) == BrowserLocator(best, 1, limit, <<>>)

\* LightChain::require_current: the error, and until when the grant says it holds.
require_current(tip, policy) ==
    LET valid_until == tip.time + policy.maximum_tip_age
    IN [error |-> FirstError(<< <<tip.height >= policy.minimum_height, "InsufficientHeight">>,
                                <<tip.work >= policy.minimum_work, "InsufficientChainwork">>,
                                <<policy.now <= valid_until, "StaleTip">>,
                                <<tip.time <= policy.now + 1, "FutureTip">> >>),
        valid_until |-> valid_until]

-----------------------------------------------------------------------------
(* Checkpoints.  The checksum stands for the payload it was computed from.  *)

encode_authenticated_snapshot(c) ==
    LET payload == [network |-> c.network, history |-> c.history]
    IN [payload |-> payload, checksum |-> payload]

validate_snapshot_pair(previous, next) ==
    /\ previous.height + 1 = next.height
    /\ next.previous = previous.hash
    /\ next.work > previous.work
    /\ next.bits # 0

validate_snapshot_history(history, atLeast) ==
    LET tip == Last(history)
        length == IF tip.height + 1 < RequiredHistory THEN tip.height + 1 ELSE RequiredHistory
    IN FirstError(<< <<Len(history) = length, "InvalidSnapshot">>,
                     <<\A i \in DOMAIN history : history[i].bits # 0 /\ history[i].work # 0, "InvalidSnapshot">>,
                     <<tip.height >= atLeast.height /\ tip.work >= atLeast.work, "SnapshotRollback">>,
                     <<Head(history).height = 0 => Head(history) = Genesis, "InvalidSnapshot">>,
                     <<\A i \in 1..(Len(history) - 1) : validate_snapshot_pair(history[i], history[i + 1]),
                       "InvalidSnapshot">> >>)

decode_authenticated_snapshot(snapshot, expected, atLeast) ==
    LET p == snapshot.payload
        count == Len(p.history)
    IN FirstError(<< <<snapshot.checksum = p, "SnapshotChecksumMismatch">>,
                     <<p.network = expected, "SnapshotNetworkMismatch">>,
                     <<count \in 1..RequiredHistory, "InvalidSnapshot">>,
                     <<count \in 1..RequiredHistory => validate_snapshot_history(p.history, atLeast) = "none",
                       "InvalidHistory">> >>)

-----------------------------------------------------------------------------
ChainInit == chain = <<from_genesis>> /\ store = {} /\ floor = [height |-> 0, work |-> 0]

Headers(c) == [previous : {c.tip.hash, <<>>}, time : 0..MaxTime, bits : 1..2, work : BOOLEAN]

\* Empty batches, single headers, and pairs whose second header names the first.
Batches(c) ==
    LET Second(h) == [previous : {Append(h.previous, <<h.time, h.bits>>)}, time : 0..MaxTime, bits : 1..2, work : {TRUE}]
    IN {<<>>} \cup {<<h>> : h \in Headers(c)}
       \cup UNION {{<<h, g>> : g \in Second(h)} : h \in {h \in Headers(c) : h.work /\ h.previous = c.tip.hash}}

Extend == /\ chain # <<>> /\ chain[1].tip.height < MaxHeight
          /\ \E headers \in Batches(chain[1]), now \in {0, MaxTime} :
               chain' = <<append_batch(chain[1], headers, now)>>
          /\ UNCHANGED <<store, floor>>

\* The caller persists the chain and raises its floor to it.
Save == /\ chain # <<>> /\ Cardinality(store) < MaxSaves
        /\ store' = store \cup {encode_authenticated_snapshot(chain[1])}
        /\ floor' = [height |-> chain[1].tip.height, work |-> chain[1].tip.work]
        /\ UNCHANGED chain

Stop == chain # <<>> /\ chain' = <<>> /\ UNCHANGED <<store, floor>>

\* A snapshot as it was stored, of another network, damaged, or without its
\* oldest entry and sealed again.
Versions(s) ==
    LET short == [s.payload EXCEPT !.history = Tail(@)]
    IN {s, [s EXCEPT !.payload.network = "test"], [s EXCEPT !.checksum.network = "test"],
        [payload |-> short, checksum |-> short]}

\* A start: from what the store holds, an older checkpoint included, or from
\* genesis when nothing was ever saved.
Start == /\ chain = <<>>
         /\ \/ store = {} /\ chain' = <<from_genesis>>
            \/ \E s \in store : \E version \in Versions(s), expected \in {"main", "test"} :
                 /\ decode_authenticated_snapshot(version, expected, floor) = "none"
                 /\ chain' = <<[network |-> expected, history |-> version.payload.history,
                                tip |-> Last(version.payload.history)]>>
         /\ UNCHANGED <<store, floor>>

ChainNext == Extend \/ Save \/ Stop \/ Start

-----------------------------------------------------------------------------
\* The headers of the whole chain, genesis included, as their hashes name them.
WholeChain(c) ==
    [i \in 1..(Len(c.tip.hash) + 1) |->
       IF i = 1 THEN Genesis
       ELSE [height |-> i - 1, time |-> c.tip.hash[i - 1][1], bits |-> c.tip.hash[i - 1][2]]]

\* The window is enough: on a chain that was extended, saved, stopped and restored
\* in any order, the median time and both difficulty points are the ones of the whole
\* chain, and none of the entries they need is gone (LightChain::append,
\* REQUIRED_DIFFICULTY_HISTORY).
WindowIsEnough ==
    \A c \in Range(chain) :
      LET whole == WholeChain(c)
          height == c.tip.height
          Same(at) == LET s == suitable_entry(c.history, at) IN s # <<>> /\ s[1].height = suitable_entry(whole, at)[1].height
      IN /\ Len(whole) = height + 1
         /\ median_time_past(c.history) = median_time_past(whole)
         /\ height >= TargetWindow + 2 => Same(height) /\ Same(height - TargetWindow)

\* No restart takes the chain below the last checkpoint the caller saved, whichever
\* checkpoint the store hands out, nor onto another network's chain
\* (decode_authenticated_snapshot).
NeverBelowFloor ==
    \A c \in Range(chain) : c.tip.height >= floor.height /\ c.tip.work >= floor.work /\ c.network = "main"

\* A locator begins with the tip and ends with genesis; its hashes are blocks of this
\* chain, each older than the one before.  The browser's does not exceed its limit, and
\* ends short of genesis only there (LightChain::locator, locator_with_limit).
LeadsBackFrom(l, tip) ==
    /\ l[1] = tip
    /\ \A i \in DOMAIN l : IsPrefix(l[i], tip)
    /\ \A i \in 1..(Len(l) - 1) : Len(l[i + 1]) < Len(l[i])
LocatorIsOfThisChain ==
    \A c \in Range(chain) :
      /\ LeadsBackFrom(locator(c), c.tip.hash) /\ Last(locator(c)) = Genesis.hash
      /\ \A limit \in 1..4 :
           LET l == locator_with_limit(c.tip.hash, limit)
           IN LeadsBackFrom(l, c.tip.hash) /\ Len(l) <= limit /\ (Last(l) # Genesis.hash => Len(l) = limit)

\* An anchor that was granted holds until the time it carries and no longer: asking
\* again with the same policy succeeds up to that time, and fails after it
\* (LightChain::require_current, HnsAnchor).
GrantsHoldUntilTheySay ==
    \A c \in Range(chain), age \in 0..2, from \in 0..MaxTime, height \in {0, 2} :
      LET Policy(now) == [now |-> now, maximum_tip_age |-> age, minimum_height |-> height, minimum_work |-> 0]
          grant == require_current(c.tip, Policy(from))
      IN grant.error = "none" =>
           \A later \in from..(MaxTime + 3) :
             (require_current(c.tip, Policy(later)).error = "none") = (later <= grant.valid_until)

LightChainHolds == WindowIsEnough /\ NeverBelowFloor /\ LocatorIsOfThisChain /\ GrantsHoldUntilTheySay

-----------------------------------------------------------------------------
(***************************************************************************)
(* hns-light-p2p: one standard session with a peer over a byte stream.     *)
(*                                                                         *)
(* The peer may send any packet at any time.  receive_event samples the    *)
(* clock once, when it is called, and then reads frames until one is an    *)
(* event for the caller; the clock runs on while it reads.  Any write may  *)
(* fail, and the caller may go on after any error.                         *)
(***************************************************************************)

CONSTANTS HandshakeTimeout,   \* PeerConfig.handshake_timeout_seconds
          RequestTimeout,     \* PeerConfig.request_timeout_seconds
          MaxPendingFrames,   \* MAX_PENDING_PEER_FRAMES
          Tags,               \* proofs by root and key, pings by nonce
          MaxClock,           \* bound on the clock
          MaxAsked            \* bound on the requests of a behaviour

VARIABLES session,            \* PeerSession
          queue,              \* PeerConnection.pending
          now,                \* the clock receive_event was called with, 0 outside it
          clock,
          asked, told,        \* history: requests armed and events returned, by kind
          last,               \* history: the tag asked for last, by kind
          lost                \* history: a write failed
peerVars == <<session, queue, now, clock, asked, told, last, lost>>

Kinds == {"Headers", "Proof", "Pong"}
NoRequest == [tag |-> 0, deadline |-> 0]
Packet(kind, tag) == [kind |-> kind, tag |-> tag]
Packets == {Packet(k, 0) : k \in {"Version", "UnfitVersion", "Verack", "Ping", "Headers", "Inv", "Undecodable"}}
           \cup {Packet(k, t) : k \in {"Proof", "Pong"}, t \in Tags}

\* PeerSession::start
PeerInit == /\ session = [state |-> "AwaitingVersion", verack |-> FALSE, readyAfter |-> FALSE,
                          deadline |-> 1 + HandshakeTimeout, pending |-> [k \in Kinds |-> NoRequest]]
            /\ queue = <<>> /\ now = 0 /\ clock = 1
            /\ asked = [k \in Kinds |-> 0] /\ last = [k \in Kinds |-> 0]
            /\ told = [k \in Kinds \cup {"Ready", "Wallet"} |-> 0]
            /\ lost = FALSE

Outstanding(s, kind) == s.pending[kind] # NoRequest
close(s) == [s EXCEPT !.state = "Closed", !.pending = [k \in Kinds |-> NoRequest]]
Result(s, event) == [session |-> s, event |-> event]

\* The checks on the peer's version are one: the version fits or it does not.
handle_version(s, p) ==
    IF p.kind # "Version" THEN Result(s, "Error")
    ELSE IF s.verack THEN Result([s EXCEPT !.state = "Ready", !.readyAfter = TRUE], "SendVerack")
    ELSE Result([s EXCEPT !.state = "AwaitingVerack"], "SendVerack")

AnsweredAndKept(s, p, at) == Result(s, IF Outstanding(s, p.kind) THEN p.kind ELSE "Error")

\* Headers and proofs take their request whatever comes of it; a pong takes its
\* ping only when it is late or answers it.
Answered(s, p, at) ==
    LET request == s.pending[p.kind]
        taken == [s EXCEPT !.pending[p.kind] = NoRequest]
    IN IF ~Outstanding(s, p.kind) THEN Result(s, "Error")
       ELSE IF at > request.deadline THEN Result(taken, "Error")
       ELSE IF p.tag # request.tag THEN Result(IF p.kind = "Pong" THEN s ELSE taken, "Error")
       ELSE Result(taken, p.kind)

handle_ready(s, p, at) ==
    CASE p.kind \in {"Version", "UnfitVersion", "Verack"} -> Result(s, "Error")
      [] p.kind = "Ping" -> Result(s, "SendPong")
      [] p.kind = "Inv" -> Result(s, "Wallet")
      [] p.kind \in Kinds -> Answered(s, p, at)

handle_frame(s, p, at) ==
    IF s.state = "Closed" THEN Result(s, "Error")
    ELSE IF s.state # "Ready" /\ at > s.deadline THEN Result(close(s), "Error")
    ELSE IF p.kind = "Undecodable" THEN Result(s, "Error")
    ELSE CASE s.state = "AwaitingVersion" /\ p.kind = "Verack" -> Result([s EXCEPT !.verack = TRUE], "Ignored")
           [] s.state = "AwaitingVersion" /\ p.kind # "Verack" -> handle_version(s, p)
           [] s.state = "AwaitingVerack" ->
                IF p.kind = "Verack" THEN Result([s EXCEPT !.state = "Ready"], "Ready") ELSE Result(s, "Error")
           [] s.state = "Ready" -> handle_ready(s, p, at)

-----------------------------------------------------------------------------
\* request_headers, request_proof and ping: the request is armed, then written.
Ask(kind, tag) ==
    /\ now = 0 /\ session.state = "Ready" /\ ~Outstanding(session, kind) /\ asked["Headers"] + asked["Proof"] + asked["Pong"] < MaxAsked
    /\ session' = [session EXCEPT !.pending[kind] = [tag |-> tag, deadline |-> clock + RequestTimeout]]
    /\ asked' = [asked EXCEPT ![kind] = @ + 1] /\ last' = [last EXCEPT ![kind] = tag]
    /\ lost' \in {lost, TRUE}
    /\ UNCHANGED <<queue, now, clock, told>>
AskAny == Ask("Headers", 0) \/ Ask("Pong", 1) \/ \E tag \in Tags : Ask("Proof", tag)

Expired(s, kind) == Outstanding(s, kind) /\ clock > s.pending[kind].deadline
Expire ==
    /\ now = 0
    /\ \/ session.state = "Ready" /\ session' = [session EXCEPT !.pending =
                                       [k \in Kinds |-> IF Expired(session, k) THEN NoRequest ELSE @[k]]]
       \/ session.state \notin {"Ready", "Closed"} /\ clock > session.deadline /\ session' = close(session)
    /\ UNCHANGED <<queue, now, clock, asked, told, last, lost>>

\* PeerConnection::close
Close == /\ now = 0 /\ session.state # "Closed"
         /\ session' = close(session) /\ queue' = <<>>
         /\ UNCHANGED <<now, clock, asked, told, last, lost>>

Receive == now = 0 /\ now' = clock /\ UNCHANGED <<session, queue, clock, asked, told, last, lost>>

\* receive_frame finds no frame it has kept: the stream ended, or a read brings some.
Read(frames) ==
    /\ now # 0 /\ queue = <<>>
    /\ queue' = IF Len(frames) <= MaxPendingFrames THEN frames ELSE <<>>
    /\ now' = IF Len(frames) \in 1..MaxPendingFrames THEN now ELSE 0
    /\ UNCHANGED <<session, clock, asked, told, last, lost>>
Following == {Packet("Verack", 0), Packet("Proof", 1)}
ReadAny == \/ Read(<<>>)
           \/ \E p \in Packets : Read(<<p>>) \/ Read(<<p, p, p>>) \/ \E q \in Following : Read(<<p, q>>)

\* The next frame is admitted; an answer to it is written before anything else.
Returned(s, event) ==
    /\ session' = s /\ now' = 0
    /\ told' = IF event \notin DOMAIN told THEN told
               ELSE [told EXCEPT ![event] = IF event = "Wallet" THEN 1 ELSE @ + 1]
Handle ==
    /\ now # 0 /\ queue # <<>>
    /\ queue' = Tail(queue)
    /\ LET r == handle_frame(session, Head(queue), now)
           s == r.session
       IN IF r.event \notin {"SendVerack", "SendPong"} THEN Returned(s, r.event) /\ UNCHANGED lost
          ELSE \/ Returned(s, "Error") /\ lost' = TRUE
               \/ UNCHANGED lost /\ IF s.readyAfter THEN Returned([s EXCEPT !.readyAfter = FALSE], "Ready")
                                    ELSE session' = s /\ UNCHANGED <<now, told>>
    /\ UNCHANGED <<clock, asked, last>>

Tick == clock < MaxClock /\ clock' = clock + 1 /\ UNCHANGED <<session, queue, now, asked, told, last, lost>>

PeerNext == AskAny \/ Expire \/ Close \/ Receive \/ ReadAny \/ Handle \/ Tick

-----------------------------------------------------------------------------
\* The handshake completes once: whichever of version and verack came first, the
\* caller is told so exactly once, before anything else the peer sends, and
\* requests are outstanding only on a session that is ready
\* (peer_verack_received, take_ready_after_response).
ReadyIsToldOnce ==
    /\ told["Ready"] <= 1
    /\ (\E k \in Kinds \cup {"Wallet"} : told[k] > 0) => told["Ready"] = 1 \/ lost
    /\ session.state = "Ready" /\ ~lost => told["Ready"] = 1
    /\ (\E k \in Kinds : Outstanding(session, k)) => session.state = "Ready"

\* A request is answered at most once, closing or expiring takes it back, and what
\* is still outstanding is the request made last (pending_headers, pending_proof,
\* pending_ping).
AnsweredAtMostOnce ==
    \A k \in Kinds :
      /\ told[k] + (IF Outstanding(session, k) THEN 1 ELSE 0) <= asked[k]
      /\ Outstanding(session, k) => session.pending[k].tag = last[k]
LightSessionsAgree == ReadyIsToldOnce /\ AnsweredAtMostOnce

-----------------------------------------------------------------------------
(***************************************************************************)
(* hns-light-wallet: what a peer's filtered block proves about the block   *)
(* of a validated header, the collection of the transactions it matched,   *)
(* the union of several peers' views, and the filter the peers match with. *)
(*                                                                         *)
(* A hash is the term it was computed from, so two hashes are equal only   *)
(* when what was hashed is.  A block is the sequence of its transactions.  *)
(***************************************************************************)

CONSTANTS MaxFlagBytes,       \* MAX_PARTIAL_MERKLE_FLAG_BYTES
          MaxTransactions,    \* MAX_FILTERED_BLOCK_TRANSACTIONS
          FlagBits            \* bits of one flag byte

hash_empty == <<"empty">>
hash_leaf(h) == <<"leaf", h>>
hash_internal(l, r) == <<"node", l, r>>
TxHash(t) == <<"tx", t>>

tree_width(total, height) == (total + 2^height - 1) \div 2^height
TreeHeight(total) == CHOOSE h \in 0..total : tree_width(total, h) = 1 /\ \A g \in 0..(h - 1) : tree_width(total, g) > 1

-----------------------------------------------------------------------------
(* The partial tree.  A claim is [header, total, hashes, flags], its flags  *)
(* one bit after the other, a whole number of bytes.                        *)

ReadHash(reader, claim) == claim.hashes[reader.hashesUsed + 1]
Match(reader, claim, height, position, parent) ==
    IF reader.hashesUsed >= Len(claim.hashes) THEN [reader EXCEPT !.error = "ExhaustedHashes"]
    ELSE LET h == ReadHash(reader, claim)
             read == [reader EXCEPT !.hashesUsed = @ + 1]
         IN IF ~(height = 0 /\ parent) THEN [read EXCEPT !.hash = h]
            ELSE IF \E i \in DOMAIN read.matches : read.matches[i].hash = h
                 THEN [read EXCEPT !.error = "DuplicateMatchedTransaction"]
            ELSE [read EXCEPT !.hash = hash_leaf(h), !.matches = Append(@, [hash |-> h, index |-> position])]
\* PartialTreeReader::traverse
RECURSIVE traverse(_, _, _, _)
traverse(reader, claim, height, position) ==
    IF reader.error # "none" THEN reader
    ELSE IF reader.bitsUsed >= Len(claim.flags) THEN [reader EXCEPT !.error = "ExhaustedFlags"]
    ELSE LET parent == claim.flags[reader.bitsUsed + 1]
             read == [reader EXCEPT !.bitsUsed = @ + 1]
         IN IF height = 0 \/ ~parent THEN Match(read, claim, height, position, parent)
            ELSE LET left == traverse(read, claim, height - 1, 2 * position)
                     both == 2 * position + 1 < tree_width(claim.total, height - 1)
                     right == IF both THEN traverse(left, claim, height - 1, 2 * position + 1)
                              ELSE [left EXCEPT !.hash = hash_empty]
                 IN IF right.error # "none" THEN right
                    ELSE [right EXCEPT !.hash = hash_internal(left.hash, right.hash)]

Reader == [bitsUsed |-> 0, hashesUsed |-> 0, matches |-> <<>>, hash |-> hash_empty, error |-> "none"]
DivCeil(n, d) == (n + d - 1) \div d

\* decode_partial_merkle: the error, and what was matched.
decode_partial_merkle(claim, header) ==
    LET bytes == Len(claim.flags) \div FlagBits
        shape == FirstError(<< <<claim.header = header, "WrongHeader">>,
                               <<claim.total # 0, "ZeroTransactions">>,
                               <<claim.total <= MaxTransactions, "TooManyTransactions">>,
                               <<Len(claim.hashes) <= claim.total, "TooManyHashes">>,
                               <<bytes <= MaxFlagBytes, "Decode">>,
                               <<bytes * FlagBits >= Len(claim.hashes), "FlagsTooSmall">> >>)
        reader == traverse(Reader, claim, TreeHeight(claim.total), 0)
        error == FirstError(<< <<reader.error = "none", reader.error>>,
                               <<DivCeil(reader.bitsUsed, FlagBits) = bytes, "UnusedFlagBits">>,
                               <<reader.hashesUsed = Len(claim.hashes), "UnusedHashes">>,
                               <<reader.hash = header.root, "MerkleRootMismatch">> >>)
    IN IF shape # "none" THEN [error |-> shape, matches |-> <<>>]
       ELSE [error |-> error, matches |-> IF error = "none" THEN reader.matches ELSE <<>>]

-----------------------------------------------------------------------------
(* Collection: transactions in the order they arrive, each [hash, witness]. *)

\* FilteredBlockCollector::admit: a transaction that is not pending is refused and leaves
\* the collector as it was.
admit(collector, transaction) ==
    LET found == {m \in collector.pending : m.hash = transaction.hash}
    IN [collector EXCEPT !.pending = @ \ found,
                         !.transactions = @ \cup {[index |-> m.index, transaction |-> transaction] : m \in found},
                         !.results = Append(@, IF found = {} THEN "UnexpectedTransaction" ELSE "none")]

\* FilteredBlockCollector::finish: the transactions by their position in the block.
finish(collector) ==
    LET byIndex == SetToSortSeq(collector.transactions, LAMBDA a, b : a.index < b.index)
    IN [error |-> IF collector.pending = {} THEN "none" ELSE "MissingTransactions",
        results |-> collector.results, transactions |-> [i \in DOMAIN byIndex |-> byIndex[i].transaction]]

collect(matches, arrivals) ==
    finish(FoldLeft(admit, [pending |-> Range(matches), transactions |-> {}, results |-> <<>>], arrivals))

\* A view is [header, total, matches, transactions]; the views are united one
\* after the other.
Merges(merged, view) ==
    LET Own(m) == CHOOSE i \in DOMAIN view.transactions : view.transactions[i].hash = m.hash
        claims == {[hash |-> m.hash, index |-> m.index, transaction |-> view.transactions[Own(m)]] : m \in Range(view.matches)}
        conflict == \E a \in claims, b \in merged.claims :
                      /\ a.hash = b.hash \/ a.index = b.index
                      /\ a # b
        hashes == {view.transactions[i].hash : i \in DOMAIN view.transactions}
        error == FirstError(<< <<merged.error = "none", merged.error>>,
                               <<view.header = merged.header /\ view.total = merged.total, "PeerViewHeaderMismatch">>,
                               <<Len(view.transactions) = Len(view.matches), "PeerViewTransactionMismatch">>,
                               <<Cardinality(hashes) = Len(view.transactions), "PeerViewTransactionMismatch">>,
                               <<hashes = {m.hash : m \in Range(view.matches)}, "PeerViewTransactionMismatch">> >>)
    IN IF error # "none" THEN [merged EXCEPT !.error = error]
       ELSE IF conflict THEN [merged EXCEPT !.error = "PeerViewConflict"]
       ELSE [merged EXCEPT !.claims = @ \cup claims]

\* VerifiedWalletBlock::merge_peer_views
merge_peer_views(views) ==
    IF views = <<>> THEN [error |-> "EmptyPeerViews", claims |-> {}]
    ELSE FoldLeft(Merges, [error |-> "none", header |-> views[1].header, total |-> views[1].total, claims |-> {}], views)

-----------------------------------------------------------------------------
(* The filter: a set of bits, and for each value the numbers its functions  *)
(* hash it to.                                                              *)

NewFilter(sizeBits, functions, maxBytes, maxFunctions) ==
    LET bits == IF sizeBits < 8 THEN 8 ELSE sizeBits
        count == IF functions < 1 THEN 1 ELSE functions
    IN [error |-> FirstError(<< <<bits <= maxBytes * 8, "FilterTooLarge">>,
                                <<count <= maxFunctions, "TooManyHashFunctions">> >>),
        size |-> (bits \div 8) * 8, functions |-> count, bits |-> {}]
insert(filter, hashes) == [filter EXCEPT !.bits = @ \cup {hashes[f] % filter.size : f \in 1..filter.functions}]
\* HsdBloomFilter::decode_strict on what encode wrote.
decode_strict(filter, maxBytes, maxFunctions) ==
    FirstError(<< <<filter.size <= maxBytes * 8, "LengthLimit">>, <<filter.size > 0, "EmptyFilter">>,
                  <<filter.functions # 0, "ZeroHashFunctions">>, <<filter.functions <= maxFunctions, "TooManyHashFunctions">> >>)
contains(filter, hashes) == \A f \in 1..filter.functions : hashes[f] % filter.size \in filter.bits

-----------------------------------------------------------------------------
(***************************************************************************)
(* hns-light-chain: the names in a Handshake resource, which may share     *)
(* their endings with names read before, and the checks on the name state  *)
(* the resource is committed in.                                           *)
(*                                                                         *)
(* The bytes are the ones the reader tells apart: lengths up to MaxLabel,  *)
(* the high byte PointerTop of a pointer and a reserved length.  Offsets   *)
(* are from 0.                                                             *)
(***************************************************************************)

CONSTANTS MaxLabel,           \* longest label
          MaxLabels,          \* MAX_RESOURCE_NAME_LABELS
          MaxJumps,           \* MAX_RESOURCE_NAME_JUMPS
          MaxNameBytes,       \* expanded length of a name
          PointerTop, Reserved

At(bytes, i) == bytes[i + 1]
In(bytes, i) == i < Len(bytes)

Name(error, labels, position, known) == [error |-> error, labels |-> labels, position |-> position, known |-> known]

\* ResourceReader::read_name, one length byte at a time; "resume" is where the
\* name ends in the resource, once a pointer was followed.
RECURSIVE ReadName(_, _, _, _)
ReadName(bytes, cursor, known, w) ==
    LET length == At(bytes, cursor)
        target == At(bytes, cursor + 1)
        expanded == w.expanded + length + 1
        Bad(error) == Name(error, <<>>, w.position, known)
        Pointer ==
          IF ~In(bytes, cursor + 1) THEN Bad("ResourceTruncated")
          ELSE IF target >= cursor \/ target \notin known THEN Bad("InvalidResourceNamePointer")
          ELSE IF w.jumps + 1 > MaxJumps THEN Bad("ResourceNameJumpLimit")
          ELSE ReadName(bytes, target, known,
                        [w EXCEPT !.resume = IF @ = 0 THEN cursor + 2 ELSE @, !.jumps = @ + 1,
                                  !.visited = @ \cup {cursor}])
        Label ==
          LET end == cursor + 1 + length
              error == FirstError(<< <<length <= MaxLabel /\ Len(w.labels) < MaxLabels, "InvalidResourceName">>,
                                     <<expanded <= MaxNameBytes, "InvalidResourceName">>,
                                     <<end <= Len(bytes), "ResourceTruncated">> >>)
          IN IF error # "none" THEN Name(error, <<>>, w.position, known \cup {cursor})
             ELSE ReadName(bytes, end, known \cup {cursor},
                           [w EXCEPT !.labels = Append(@, SubSeq(bytes, cursor + 2, end)), !.expanded = expanded,
                                     !.visited = @ \cup {cursor},
                                     !.position = IF w.resume = 0 THEN end ELSE @])
    IN IF cursor \in w.visited THEN Bad("ResourceNameCompressionLoop")
       ELSE IF ~In(bytes, cursor) THEN Bad("ResourceTruncated")
       ELSE IF length = PointerTop THEN Pointer
       ELSE IF length = Reserved THEN Bad("InvalidResourceName")
       ELSE IF length = 0 THEN Name("none", w.labels, IF w.resume = 0 THEN cursor + 1 ELSE w.resume, known \cup {cursor})
       ELSE Label
Walk(position) ==
    [labels |-> <<>>, expanded |-> 1, jumps |-> 0, visited |-> {}, resume |-> 0, position |-> position]
read_name(bytes, position, known) == ReadName(bytes, position, known, Walk(position))

\* HnsResource::decode on a resource of nameservers only: names one after the other,
\* each after its kind byte 1, after the version byte 0.
RECURSIVE ReadRecords(_, _, _, _)
ReadRecords(bytes, position, known, names) ==
    IF position = Len(bytes) THEN [error |-> "none", names |-> names]
    ELSE IF At(bytes, position) # 1 THEN [error |-> "UnknownResourceRecord", names |-> <<>>]
    ELSE LET n == read_name(bytes, position + 1, known)
         IN IF n.error # "none" THEN [error |-> n.error, names |-> <<>>]
            ELSE ReadRecords(bytes, n.position, n.known, Append(names, [labels |-> n.labels, start |-> position + 1]))
decode(bytes) ==
    IF bytes = <<>> THEN [error |-> "ResourceTruncated", names |-> <<>>]
    ELSE IF bytes[1] # 0 THEN [error |-> "UnsupportedResourceVersion", names |-> <<>>]
    ELSE ReadRecords(bytes, 1, {}, <<>>)

\* decode_name_state: a state is its name, the length of its resource, its heights,
\* the bits of its field and, per event bit, the height it carries.
decode_name_state(state, expected, tip, maxResource) ==
    FirstError(<< <<state.name = expected, "NameStateNameMismatch">>,
                  <<state.resource # 0, "MissingResource">>,
                  <<state.resource <= maxResource, "ResourceTooLarge">>,
                  <<state.field \subseteq 0..9, "UnknownNameStateField">>,
                  <<state.height <= tip /\ state.renewal <= tip, "FutureNameState">>,
                  <<\A bit \in state.field \cap {3, 4, 5} : state.event <= tip, "FutureNameState">> >>)

-----------------------------------------------------------------------------
\* What the name at an offset says, by the bytes alone: labels up to a zero, or up
\* to a pointer to where it goes on.
RECURSIVE Expansion(_, _, _)
Expansion(bytes, i, fuel) ==
    IF fuel = 0 \/ ~In(bytes, i) THEN <<>>
    ELSE IF At(bytes, i) = 0 THEN <<>>
    ELSE IF At(bytes, i) = PointerTop THEN Expansion(bytes, At(bytes, i + 1), fuel - 1)
    ELSE <<SubSeq(bytes, i + 2, i + 1 + At(bytes, i))>> \o Expansion(bytes, i + 1 + At(bytes, i), fuel - 1)

RECURSIVE NextAfter(_, _)
NextAfter(bytes, i) ==
    IF At(bytes, i) = 0 THEN i + 1
    ELSE IF At(bytes, i) = PointerTop THEN i + 2
    ELSE NextAfter(bytes, i + 1 + At(bytes, i))

\* Every name of an accepted resource is what its bytes say, the names take up the
\* whole resource one after the other, and no pointer leads into the middle of a
\* label or forward: a label begins where an earlier name has one
\* (HnsResource::decode, read_name).
NamesAreWhatTheySay(bytes) ==
    LET d == decode(bytes)
        After(i) == NextAfter(bytes, d.names[i].start)
    IN d.error = "none" =>
         \A i \in DOMAIN d.names :
           /\ d.names[i].labels = Expansion(bytes, d.names[i].start, 2 * Len(bytes))
           /\ i = Len(d.names) => After(i) = Len(bytes)
           /\ i < Len(d.names) => After(i) + 1 = d.names[i + 1].start
           /\ \A k \in 1..Len(d.names[i].labels) : Len(d.names[i].labels[k]) \in 1..MaxLabel
           /\ Len(d.names[i].labels) <= MaxLabels

\* A name state is accepted only for the name that was asked for, with a resource, and
\* with no height the committing header does not have (decode_name_state).
NothingFromTheFuture(state, expected, tip, maxResource) ==
    decode_name_state(state, expected, tip, maxResource) = "none" =>
      /\ state.name = expected /\ state.resource \in 1..maxResource
      /\ {state.height, state.renewal} \subseteq 0..tip
      /\ state.event > tip => state.field \cap {3, 4, 5} = {}

-----------------------------------------------------------------------------
(***************************************************************************)
(* Filtered blocks, wallet views, filters and resource names on every      *)
(* small input.                                                            *)
(***************************************************************************)

CONSTANTS Transactions,       \* the transactions of the block, in order
          MaxTotal,           \* largest total a claim makes
          MaxHashes,          \* most hashes of a claim
          MaxResource         \* longest resource

VARIABLE input

-----------------------------------------------------------------------------
(* The tree of a block, and the claim an honest peer makes of it.           *)

RECURSIVE Node(_, _, _)
Node(block, height, position) ==
    IF position >= tree_width(Len(block), height) THEN hash_empty
    ELSE IF height = 0 THEN hash_leaf(TxHash(block[position + 1]))
    ELSE hash_internal(Node(block, height - 1, 2 * position), Node(block, height - 1, 2 * position + 1))
Root(block) == Node(block, TreeHeight(Len(block)), 0)
HeaderOf(block) == [hash |-> block, root |-> Root(block)]

Below(position, height) == (position * 2^height)..((position + 1) * 2^height - 1)
RECURSIVE Honest(_, _, _, _)
Honest(block, chosen, height, position) ==
    IF position >= tree_width(Len(block), height) THEN [flags |-> <<>>, hashes |-> <<>>]
    ELSE LET parent == Below(position, height) \cap chosen # {}
         IN IF height = 0 THEN [flags |-> <<parent>>,
                                hashes |-> <<IF parent THEN TxHash(block[position + 1]) ELSE Node(block, 0, position)>>]
            ELSE IF ~parent THEN [flags |-> <<FALSE>>, hashes |-> <<Node(block, height, position)>>]
            ELSE LET l == Honest(block, chosen, height - 1, 2 * position)
                     r == Honest(block, chosen, height - 1, 2 * position + 1)
                 IN [flags |-> <<TRUE>> \o l.flags \o r.flags, hashes |-> l.hashes \o r.hashes]

Padded(flags) == flags \o [i \in 1..(DivCeil(Len(flags), FlagBits) * FlagBits - Len(flags)) |-> FALSE]
HonestClaim(block, chosen) ==
    LET h == Honest(block, chosen, TreeHeight(Len(block)), 0)
    IN [header |-> HeaderOf(block), total |-> Len(block), hashes |-> h.hashes, flags |-> Padded(h.flags)]

WholeBlock == Transactions
Blocks == {SubSeq(Transactions, 1, n) : n \in 1..Len(Transactions)}
Indexes(block) == 0..(Len(block) - 1)
Terms == {TxHash(WholeBlock[i]) : i \in DOMAIN WholeBlock} \cup {hash_empty}
         \cup {Node(WholeBlock, h, p) : h \in 0..TreeHeight(Len(WholeBlock)), p \in Indexes(WholeBlock)}

AskClaim == \E total \in 0..MaxTotal, hashes \in BoundedSeq(Terms, MaxHashes), flags \in [1..FlagBits -> BOOLEAN] :
              /\ Len(hashes) <= IF total = MaxTotal THEN total - 2 ELSE total + 1
              /\ input' = [ask |-> "claim", claim |-> [header |-> HeaderOf(WholeBlock), total |-> total, hashes |-> hashes,
                                                       flags |-> flags]]
AskHonest == \E block \in Blocks : \E chosen \in SUBSET Indexes(block) :
               input' = [ask |-> "honest", block |-> block, chosen |-> chosen]
Transaction == [hash : {TxHash(WholeBlock[i]) : i \in DOMAIN WholeBlock}, witness : 0..1]
AskCollection ==
    \E chosen \in SUBSET Indexes(WholeBlock), arrivals \in BoundedSeq(Transaction, Len(WholeBlock)) :
      input' = [ask |-> "collection", chosen |-> chosen, arrivals |-> arrivals]
AskViews ==
    \E a, b \in SUBSET Indexes(WholeBlock), witness \in 0..1, total \in {Len(WholeBlock), Len(WholeBlock) + 1} :
      input' = [ask |-> "views", first |-> a, second |-> b, witness |-> witness, total |-> total]
AskFilter ==
    \E size \in {0, 8, 15, 17}, functions \in 0..3, v, w \in [1..3 -> {1, 9, 14}] :
      input' = [ask |-> "filter", size |-> size, functions |-> functions, values |-> {v, w}]
AskResource == \E bytes \in BoundedSeq({0, 1, 2, PointerTop, Reserved}, MaxResource) :
                 input' = [ask |-> "resource", bytes |-> <<0, 1>> \o bytes]
AskState ==
    \E name \in {"a", "b"}, resource \in 0..2, height, renewal, event \in 0..2, field \in SUBSET {0, 3, 5, 10} :
      input' = [ask |-> "state", state |-> [name |-> name, resource |-> resource, height |-> height,
                                            renewal |-> renewal, event |-> event, field |-> field]]
AskLight == AskClaim \/ AskHonest \/ AskCollection \/ AskViews \/ AskFilter \/ AskResource \/ AskState

-----------------------------------------------------------------------------
MatchesOf(block, chosen) ==
    LET order == SetToSortSeq(chosen, <)
    IN [i \in DOMAIN order |-> [hash |-> TxHash(block[order[i] + 1]), index |-> order[i]]]

\* What a filtered block matches is in the block of the validated header, at the
\* position it says and once, whatever hashes, flags and total a peer supplies
\* (decode_partial_merkle).
ClaimsAreInTheBlock ==
    input.ask = "claim" =>
      LET d == decode_partial_merkle(input.claim, HeaderOf(WholeBlock))
      IN d.error = "none" =>
           /\ \A i \in DOMAIN d.matches : d.matches[i].index \in Indexes(WholeBlock)
           /\ d.matches = MatchesOf(WholeBlock, {d.matches[i].index : i \in DOMAIN d.matches})

\* An honest peer's filtered block is accepted and matches what the peer chose.
HonestIsAccepted ==
    input.ask = "honest" =>
      decode_partial_merkle(HonestClaim(input.block, input.chosen), HeaderOf(input.block))
        = [error |-> "none", matches |-> MatchesOf(input.block, input.chosen)]

\* A block is complete once each matched transaction has arrived, in any order and
\* whatever else arrived between.  It then has exactly the matched ones, in block order,
\* each as it came first: what is not matched, and a repetition with another witness, was
\* refused and left no trace (FilteredBlockCollector).
CollectedIsMatched ==
    input.ask = "collection" =>
      LET matches == MatchesOf(WholeBlock, input.chosen)
          c == collect(matches, input.arrivals)
          Came(hash) == {i \in DOMAIN input.arrivals : input.arrivals[i].hash = hash}
          first == {Min(Came(matches[i].hash)) : i \in {i \in DOMAIN matches : Came(matches[i].hash) # {}}}
      IN /\ (c.error = "none") = (Cardinality(first) = Len(matches))
         /\ c.error = "none" =>
              c.transactions = [i \in DOMAIN matches |-> input.arrivals[Min(Came(matches[i].hash))]]
         /\ \A i \in DOMAIN input.arrivals : (c.results[i] = "none") = (i \in first)

ViewOf(chosen, witness, total) ==
    LET matches == MatchesOf(WholeBlock, chosen)
    IN [header |-> HeaderOf(WholeBlock), total |-> total, matches |-> matches,
        transactions |-> [i \in DOMAIN matches |-> [hash |-> matches[i].hash, witness |-> witness]]]

\* No peer hides what another proved: the union has what any of the views has, and
\* views are refused exactly when they disagree on the total or on a transaction
\* both have (VerifiedWalletBlock::merge_peer_views).
NoPeerHides ==
    input.ask = "views" =>
      LET views == <<ViewOf(input.first, 0, Len(WholeBlock)), ViewOf(input.second, input.witness, input.total)>>
          m == merge_peer_views(views)
      IN /\ (m.error = "none") = (/\ input.total = Len(WholeBlock)
                                  /\ input.first \cap input.second # {} => input.witness = 0)
         /\ m.error = "none" => {c.index : c \in m.claims} = input.first \cup input.second

\* A value that was inserted is never missed, whatever else was, and the filter that
\* was made is one that decodes again (HsdBloomFilter::insert, contains, decode_strict).
FilterMissesNothing ==
    input.ask = "filter" =>
      LET new == NewFilter(input.size, input.functions, 2, 2)
          full == FoldSet(LAMBDA v, f : insert(f, v), new, input.values)
      IN new.error = "none" => decode_strict(full, 2, 2) = "none" /\ \A v \in input.values : contains(full, v)

\* Resources and name states are read as they are written (NamesAreWhatTheySay,
\* NothingFromTheFuture).
ResourcesAreWhatTheySay ==
    /\ input.ask = "resource" => NamesAreWhatTheySay(input.bytes)
    /\ input.ask = "state" => NothingFromTheFuture(input.state, "a", 1, 1)

WalletEvidenceHolds ==
    ClaimsAreInTheBlock /\ HonestIsAccepted /\ CollectedIsMatched /\ NoPeerHides /\ FilterMissesNothing
      /\ ResourcesAreWhatTheySay
=============================================================================
