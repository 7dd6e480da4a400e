----------------------------- MODULE HeaderSync -----------------------------
(***************************************************************************)
(* hns-light-sync: header rounds in which several peers answer the same    *)
(* request and the greatest-work answer wins if enough of them agree.      *)
(*                                                                         *)
(* A block is the sequence of headers that leads to it from genesis, so    *)
(* the chain of a HeaderSync is its tip and append_batch succeeds exactly  *)
(* for the blocks that extend the tip; a batch that fails header consensus *)
(* is BadBatch.  Peers answer requests over a network that loses, delays,  *)
(* reorders and repeats.  Times are compared with a round's deadline only, *)
(* so a call says whether the deadline has passed.  The caller may crash   *)
(* and reopen from the last chain it saved.                                *)
(***************************************************************************)
EXTENDS Integers, Sequences, FiniteSets

CONSTANTS Peer,
          Header,
          Block,              \* sequences of headers
          Chainwork,          \* the cumulative work of each block
          BadBatch,
          AdvertisedHeight,   \* heights peers announce
          MaxPeers,           \* SyncConfig.max_peers
          MinimumPeerAgreement,
          MaxPeerFailures,
          MaxGeneration,      \* u64::MAX of the generation
          MaxInFlight,        \* bound on the answers on their way
          MaxCrashes,         \* bound on the restarts of a behaviour
          None

ASSUME ConfigAssumption ==
    /\ IsFiniteSet(Peer)
    /\ MaxPeers \in Nat \ {0}
    /\ MinimumPeerAgreement \in 1..MaxPeers
    /\ MaxPeerFailures \in Nat \ {0}
    /\ MaxGeneration \in Nat \ {0}
    /\ MaxInFlight \in Nat
    /\ MaxCrashes \in Nat

ASSUME BlockAssumption ==
    /\ <<>> \in Block
    /\ Block \subseteq Seq(Header)
    /\ Chainwork \in [Block -> Nat]
    /\ AdvertisedHeight \subseteq Nat

ASSUME MarkerAssumption ==
    /\ BadBatch \notin Block
    /\ \A g \in 0..MaxGeneration : None # g

PeerRecord ==
    [advertised_height : Nat, failures : Nat, banned : BOOLEAN]

Response == [tip : Block \cup {BadBatch}, asked_in : 1..MaxGeneration]

Round ==
    [generation : 1..MaxGeneration, base : Block, requested : SUBSET Peer,
     responses : [Peer -> Response \cup {None}]]

ASSUME NoneAssumption == None \notin PeerRecord \cup Response \cup Round

VARIABLES tip,                \* HeaderSync.chain, by its tip
          state,              \* HeaderSync.state
          generation,         \* HeaderSync.generation
          peers,              \* HeaderSync.peers, None where untracked
          round,              \* HeaderSync.round
          network,            \* answers on their way
          saved,              \* the chain the caller last persisted
          crashes,
          last,               \* history: candidates and supporters of the tip
          joined              \* history: peers added since the last round

volatile == <<tip, state, generation, peers, round>>
vars == <<volatile, network, saved, crashes, last, joined>>

-----------------------------------------------------------------------------
Extends(b, base) ==
    /\ b # BadBatch
    /\ Len(base) <= Len(b)
    /\ SubSeq(b, 1, Len(base)) = base

Tracked == {p \in Peer : peers[p] # None}
Active == {p \in Tracked : ~peers[p].banned}

Init ==
    /\ tip = <<>>
    /\ state = "HeaderSyncing"
    /\ generation = 1
    /\ peers = [p \in Peer |-> None]
    /\ round = None
    /\ network = {}
    /\ saved = <<>>
    /\ crashes = 0
    /\ last = None
    /\ joined = {}

\* add_peer
AddPeer(p, height) ==
    /\ p \notin Tracked
    /\ Cardinality(Tracked) < MaxPeers
    /\ peers' = [peers EXCEPT ![p] = [advertised_height |-> height,
                                      failures |-> 0, banned |-> FALSE]]
    /\ joined' = joined \cup {p}
    /\ UNCHANGED <<tip, state, generation, round, network, saved, crashes,
                   last>>

\* Mutant of RemovePeer: the active round keeps expecting the peer.
RemovePeerKeepsRound(p) ==
    /\ p \in Tracked
    /\ peers' = [peers EXCEPT ![p] = None]
    /\ joined' = joined \ {p}
    /\ UNCHANGED <<tip, state, generation, round, network, saved, crashes,
                   last>>

\* remove_peer
RemovePeer(p) ==
    /\ p \in Tracked
    /\ peers' = [peers EXCEPT ![p] = None]
    /\ round' = IF round = None THEN None ELSE
          [round EXCEPT !.requested = @ \ {p}, !.responses[p] = None]
    /\ joined' = joined \ {p}
    /\ UNCHANGED <<tip, state, generation, network, saved, crashes, last>>

\* update_peer_height
UpdatePeerHeight(p, height) ==
    /\ p \in Tracked
    /\ peers' = [peers EXCEPT ![p].advertised_height = height]
    /\ state' = IF height > Len(tip) THEN "HeaderSyncing" ELSE state
    /\ UNCHANGED <<tip, generation, round, network, saved, crashes, last,
                   joined>>

\* The peers begin_round accepts.
MayBeAsked(requested) ==
    /\ Cardinality(requested) >= MinimumPeerAgreement
    /\ requested \subseteq Active

\* begin_round
BeginRound(requested) ==
    /\ round = None
    /\ MayBeAsked(requested)
    /\ generation < MaxGeneration
    /\ generation' = generation + 1
    /\ round' = [generation |-> generation', base |-> tip,
                 requested |-> requested,
                 responses |-> [p \in Peer |-> None]]
    /\ UNCHANGED <<tip, state, peers, network, saved, crashes, last, joined>>

\* abandon_uncommitted_round; finish_round does the same with a round whose
\* base is no longer the tip.
AbandonUncommittedRound ==
    /\ round # None
    /\ round' = None
    /\ UNCHANGED <<tip, state, generation, peers, network, saved, crashes,
                   last, joined>>

\* A requested peer answers the round in progress: with nothing, with headers
\* up to some block, or with headers that fail consensus.
Answer(p, b) ==
    /\ round # None
    /\ p \in round.requested
    /\ Cardinality(network) < MaxInFlight
    /\ network' = network \cup
          {[generation |-> round.generation, peer |-> p, tip |-> b]}
    /\ UNCHANGED <<volatile, saved, crashes, last, joined>>

Lose(m) ==
    /\ network' = network \ {m}
    /\ UNCHANGED <<volatile, saved, crashes, last, joined>>

\* Mutant of Submittable: an answer to another round is taken.
SubmittableAnyRound(m) ==
    /\ round # None
    /\ m.peer \in round.requested
    /\ round.responses[m.peer] = None

\* What submit_headers accepts before the deadline.
Submittable(m) ==
    /\ round # None
    /\ m.generation = round.generation
    /\ m.peer \in round.requested
    /\ round.responses[m.peer] = None

\* submit_headers; the answer stays on the network and may come again.
SubmitHeaders(m) ==
    /\ Submittable(m)
    /\ round' = [round EXCEPT !.responses[m.peer] =
                     [tip |-> m.tip, asked_in |-> m.generation]]
    /\ UNCHANGED <<tip, state, generation, peers, network, saved, crashes,
                   last, joined>>

-----------------------------------------------------------------------------
(* finish_round_with_headers.                                              *)

Responded == {p \in Peer : round.responses[p] # None}
Claimed(p) == round.responses[p].tip

\* Peers whose headers append_batch accepts on a clone of the chain.
Valid == {p \in Responded : Extends(Claimed(p), tip)}

\* The tips of greatest work among the valid candidates.
Best ==
    {Claimed(p) : p \in {q \in Valid : \A r \in Valid :
                            Chainwork[Claimed(r)] <= Chainwork[Claimed(q)]}}

Supporters(b) == {p \in Valid : Claimed(p) = b}

\* record_failure for every peer with an invalid candidate
Scored ==
    [p \in Peer |->
        IF p \in Responded \ Valid /\ peers[p] # None
        THEN [peers[p] EXCEPT
                !.failures = @ + 1,
                !.banned = @ \/ peers[p].failures + 1 >= MaxPeerFailures]
        ELSE peers[p]]

\* record_success for the supporters of b, after Scored
Rewarded(b) ==
    [p \in Peer |->
        IF p \in Supporters(b) /\ Scored[p] # None /\ Scored[p].failures > 0
        THEN [Scored[p] EXCEPT !.failures = @ - 1]
        ELSE Scored[p]]

\* Too few answers when the deadline has passed; before it, nothing happens.
FinishInsufficient ==
    /\ round # None
    /\ Cardinality(Responded) < MinimumPeerAgreement
    /\ round' = None
    /\ state' = "Degraded"
    /\ UNCHANGED <<tip, generation, peers, network, saved, crashes, last,
                   joined>>

\* No valid candidate, no single best tip, or too little agreement on it.
FinishDegraded ==
    /\ round # None
    /\ Cardinality(Responded) >= MinimumPeerAgreement
    /\ round.base = tip
    /\ \/ Cardinality(Best) # 1
       \/ \A b \in Best : Cardinality(Supporters(b)) < MinimumPeerAgreement
    /\ peers' = Scored
    /\ round' = None
    /\ state' = "Degraded"
    /\ UNCHANGED <<tip, generation, network, saved, crashes, last, joined>>

\* Mutant of NoExtension: peers that did not answer do not matter.
NoExtensionAmongSupporters(b) ==
    /\ b = tip
    /\ \A p \in Supporters(b) :
          /\ Rewarded(b)[p] # None
          /\ Rewarded(b)[p].advertised_height <= Len(b)

\* The conditions under which an agreed round makes the chain current.
NoExtension(b) ==
    /\ b = tip
    /\ Responded = round.requested
    /\ \A p \in Peer : Rewarded(b)[p] # None /\ ~Rewarded(b)[p].banned
                          => Rewarded(b)[p].advertised_height <= Len(b)
    /\ \A p \in Supporters(b) :
          /\ Rewarded(b)[p] # None
          /\ Rewarded(b)[p].advertised_height <= Len(b)

\* The winner is installed.
FinishAgreed ==
    /\ round # None
    /\ Cardinality(Responded) >= MinimumPeerAgreement
    /\ round.base = tip
    /\ \E b \in Best :
          /\ Best = {b}
          /\ Cardinality(Supporters(b)) >= MinimumPeerAgreement
          /\ tip' = b
          /\ peers' = Rewarded(b)
          /\ state' = IF NoExtension(b) THEN "HeaderCurrent"
                                        ELSE "HeaderSyncing"
          /\ last' = [tip |-> b,
                      supporters |-> {p \in Supporters(b) :
                          round.responses[p].asked_in = round.generation},
                      rivals |-> {Claimed(p) : p \in Valid}]
    /\ round' = None
    /\ joined' = {}
    /\ UNCHANGED <<generation, network, saved, crashes>>

\* The caller stores the chain (encode_authenticated_snapshot).
Save ==
    /\ crashes < MaxCrashes
    /\ saved' = tip
    /\ UNCHANGED <<volatile, network, crashes, last, joined>>

\* The process stops; the chain is reopened with from_chain.
CrashAndReopen ==
    /\ crashes < MaxCrashes
    /\ crashes' = crashes + 1
    /\ tip' = saved
    /\ state' = "HeaderSyncing"
    /\ generation' = 1
    /\ peers' = [p \in Peer |-> None]
    /\ round' = None
    /\ network' = {}
    /\ joined' = {}
    /\ UNCHANGED <<saved, last>>

Next ==
    \/ \E p \in Peer :
          \/ RemovePeer(p)
          \/ \E h \in AdvertisedHeight : AddPeer(p, h)
          \/ \E h \in AdvertisedHeight : UpdatePeerHeight(p, h)
          \/ \E b \in Block \cup {BadBatch} : Answer(p, b)
    \/ \E requested \in SUBSET Peer : BeginRound(requested)
    \/ AbandonUncommittedRound
    \/ \E m \in network : Lose(m) \/ SubmitHeaders(m)
    \/ FinishInsufficient
    \/ FinishDegraded
    \/ FinishAgreed
    \/ Save
    \/ CrashAndReopen

Spec == Init /\ [][Next]_vars

-----------------------------------------------------------------------------
(* Properties.                                                             *)

\* The synchronizer's state is well formed and tracks at most max_peers.
TypeOK ==
    /\ tip \in Block
    /\ state \in {"HeaderSyncing", "HeaderCurrent", "Degraded"}
    /\ generation \in 1..MaxGeneration
    /\ peers \in [Peer -> PeerRecord \cup {None}]
    /\ round \in Round \cup {None}
    /\ network \subseteq [generation : 1..MaxGeneration, peer : Peer,
                          tip : Block \cup {BadBatch}]
    /\ saved \in Block
    /\ Cardinality(Tracked) <= MaxPeers

\* The round in progress was started by this chain (it has the current
\* generation and the current tip as its base, so finish_round never drops a
\* round as stale), it asks only tracked peers that are not banned and hears
\* only peers it asked, also when peers leave, return or are banned meanwhile.
RoundMatchesChain ==
    round # None =>
        /\ round.generation = generation
        /\ round.base = tip
        /\ round.requested \subseteq Active
        /\ Responded \subseteq round.requested

\* "A bounded peer round reports no greater-work extension": while the chain
\* is HeaderCurrent, no active peer that the last round knew, and none that
\* announced a height since, advertises a higher one.
CurrentMeansNoExtension ==
    state = "HeaderCurrent" =>
        \A p \in Active \ joined : peers[p].advertised_height <= Len(tip)

\* Every tip finish_round installed had the greatest work of all valid
\* answers, and was given by minimum_peer_agreement peers in one round.
TipWasAgreed ==
    last # None =>
        /\ Cardinality(last.supporters) >= MinimumPeerAgreement
        /\ \A b \in last.rivals : Chainwork[b] <= Chainwork[last.tip]
        /\ \A b \in last.rivals :
              Chainwork[b] = Chainwork[last.tip] => b = last.tip

=============================================================================
