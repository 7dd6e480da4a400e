-------------------------- MODULE HeaderSync_proofs --------------------------
(***************************************************************************)
(* Proofs about header rounds, for every set of peers, every tree of       *)
(* blocks with any work, and every quorum, ban limit and counter width.    *)
(*                                                                         *)
(* A round is sound because whatever could make it stale ends it: the tip  *)
(* moves only when a round finishes, the generation only when one begins,  *)
(* and a peer is banned only by a round that finishes or leaves the round  *)
(* when it leaves the table.  What the round has heard was asked in it,    *)
(* which is what the count of supporters at the end of a round rests on.   *)
(***************************************************************************)
EXTENDS HeaderSync, FiniteSetTheorems, TLAPS

-----------------------------------------------------------------------------
(* The inductive invariant.                                                *)

\* Every answer the round holds was given to a request of this round.
HeardInThisRound ==
    round # None =>
        \A p \in Responded : round.responses[p].asked_in = round.generation

IInv ==
    /\ TypeOK
    /\ RoundMatchesChain
    /\ HeardInThisRound
    /\ CurrentMeansNoExtension
    /\ TipWasAgreed

PeerTable == [Peer -> PeerRecord \cup {None}]

-----------------------------------------------------------------------------
(* Scores.                                                                 *)

\* A failed answer changes scores only: it adds and removes no peer.
LEMMA ScoredTypes ==
    ASSUME peers \in PeerTable
    PROVE  /\ Scored \in PeerTable
           /\ \A p \in Peer : Scored[p] # None <=> peers[p] # None
<1> DEFINE failed(p) ==
        [peers[p] EXCEPT
            !.failures = @ + 1,
            !.banned = @ \/ peers[p].failures + 1 >= MaxPeerFailures]
<1>1. ASSUME NEW p \in Peer, peers[p] # None
      PROVE  failed(p) \in PeerRecord
  <2>1. peers[p] \in PeerRecord
    BY <1>1 DEF PeerTable
  <2>2. ASSUME NEW f \in Nat, NEW x \in BOOLEAN
        PROVE  [peers[p] EXCEPT !.failures = f, !.banned = x] \in PeerRecord
    BY <2>1 DEF PeerRecord
  <2>3. peers[p].failures + 1 \in Nat
    BY <2>1 DEF PeerRecord
  <2>4. (peers[p].banned \/ peers[p].failures + 1 >= MaxPeerFailures)
            \in BOOLEAN
    BY Zenon
  <2> QED
    BY Zenon, <2>2, <2>3, <2>4
<1>2. ASSUME NEW p \in Peer, NEW q \in {peers[p], failed(p)},
             peers[p] = None => q = peers[p]
      PROVE  q \in PeerRecord \cup {None} /\ (q # None <=> peers[p] # None)
  BY <1>1, <1>2, NoneAssumption DEF PeerTable
<1> HIDE DEF failed
<1>3. ASSUME NEW p \in Peer
      PROVE  /\ Scored[p] \in {peers[p], failed(p)}
             /\ peers[p] = None => Scored[p] = peers[p]
  BY DEF Scored, failed
<1> QED
  BY <1>2, <1>3 DEF Scored, PeerTable

\* The same of the supporters' reward.
LEMMA RewardedTypes ==
    ASSUME peers \in PeerTable, NEW b
    PROVE  /\ Rewarded(b) \in PeerTable
           /\ \A p \in Peer : Rewarded(b)[p] # None <=> peers[p] # None
<1> DEFINE redeemed(p) == [Scored[p] EXCEPT !.failures = @ - 1]
<1>1. Scored \in PeerTable /\ \A p \in Peer : Scored[p] # None <=> peers[p] # None
  BY ScoredTypes
<1>2. ASSUME NEW p \in Peer, Scored[p] # None, Scored[p].failures > 0
      PROVE  redeemed(p) \in PeerRecord
  <2>1. Scored[p] \in PeerRecord
    BY <1>1, <1>2 DEF PeerTable
  <2> QED
    BY <1>2, <2>1 DEF PeerRecord
<1>3. ASSUME NEW p \in Peer
      PROVE  \/ Rewarded(b)[p] = Scored[p]
             \/ /\ Rewarded(b)[p] = redeemed(p)
                /\ Scored[p] # None
                /\ Scored[p].failures > 0
  BY DEF Rewarded
<1> HIDE DEF redeemed
<1>4. ASSUME NEW p \in Peer
      PROVE  /\ Rewarded(b)[p] \in PeerRecord \cup {None}
             /\ Rewarded(b)[p] # None <=> peers[p] # None
  BY <1>1, <1>2, <1>3, NoneAssumption DEF PeerTable
<1> QED
  BY <1>4 DEF Rewarded, PeerTable

-----------------------------------------------------------------------------
(* The table of peers keeps its bound.                                     *)

Few == Cardinality(Tracked) <= MaxPeers

\* A table that tracks no new peer is no larger.
LEMMA NoNewPeer ==
    ASSUME Few, Tracked' \subseteq Tracked
    PROVE  Few'
<1>1. IsFiniteSet(Tracked)
  BY ConfigAssumption, FS_Subset DEF Tracked
<1>2. Cardinality(Tracked') <= Cardinality(Tracked)
  BY <1>1, FS_Subset
<1>3. Cardinality(Tracked) \in Nat /\ Cardinality(Tracked') \in Nat
  BY <1>1, FS_Subset, FS_CardinalityType
<1> QED
  BY <1>2, <1>3, ConfigAssumption DEF Few

\* Adding a peer fills at most the last place.
LEMMA AddedPeer ==
    ASSUME NEW p \in Peer, NEW h, peers \in PeerTable, AddPeer(p, h)
    PROVE  Few'
<1>1. IsFiniteSet(Tracked)
  BY ConfigAssumption, FS_Subset DEF Tracked
<1>2. Tracked' \subseteq Tracked \cup {p}
  BY DEF AddPeer, Tracked, PeerTable
<1>3. /\ IsFiniteSet(Tracked \cup {p})
      /\ Cardinality(Tracked \cup {p}) = Cardinality(Tracked) + 1
  <2>1. p \notin Tracked
    BY DEF AddPeer
  <2>2. \A x : /\ IsFiniteSet(Tracked \cup {x})
               /\ x \notin Tracked => Cardinality(Tracked \cup {x})
                                        = Cardinality(Tracked) + 1
    BY Zenon, <1>1, FS_AddElement
  <2> QED
    BY Zenon, <2>1, <2>2
<1>4. Cardinality(Tracked') <= Cardinality(Tracked \cup {p})
  BY <1>2, <1>3, FS_Subset
<1>5. /\ Cardinality(Tracked) \in Nat
      /\ Cardinality(Tracked') \in Nat
      /\ Cardinality(Tracked \cup {p}) \in Nat
  BY <1>1, <1>2, <1>3, FS_Subset, FS_CardinalityType
<1>6. Cardinality(Tracked) < MaxPeers
  BY DEF AddPeer
<1> QED
  BY <1>3, <1>4, <1>5, <1>6, ConfigAssumption DEF Few

-----------------------------------------------------------------------------
(* What a step does.  Every action is one of these.                        *)

\* Of the peers and their heights.
PeerStep ==
    \E p \in Peer :
        \/ RemovePeer(p)
        \/ \E h \in AdvertisedHeight : AddPeer(p, h)
        \/ \E h \in AdvertisedHeight : UpdatePeerHeight(p, h)

\* Of the round while it lasts.
RoundStep ==
    \/ \E requested \in SUBSET Peer : BeginRound(requested)
    \/ \E m \in network : SubmitHeaders(m)

\* The end of a round that installs nothing.
Dropped ==
    \/ AbandonUncommittedRound
    \/ FinishInsufficient
    \/ FinishDegraded

\* Steps around the synchronizer, which they leave alone.
Outside ==
    \/ \E p \in Peer, b \in Block \cup {BadBatch} : Answer(p, b)
    \/ \E m \in network : Lose(m)
    \/ Save
    \/ UNCHANGED vars

\* Every step of the specification is of one of these groups.
LEMMA StepCases ==
    [Next]_vars => \/ PeerStep \/ RoundStep \/ Dropped \/ FinishAgreed
                   \/ CrashAndReopen \/ Outside
BY Zenon DEF Next, PeerStep, RoundStep, Dropped, Outside

-----------------------------------------------------------------------------
(* Types.                                                                  *)

Messages == [generation : 1..MaxGeneration, peer : Peer,
             tip : Block \cup {BadBatch}]

\* The type invariant, by its parts.
LEMMA TypeOKParts ==
    TypeOK <=>
        /\ tip \in Block
        /\ state \in {"HeaderSyncing", "HeaderCurrent", "Degraded"}
        /\ generation \in 1..MaxGeneration
        /\ peers \in PeerTable
        /\ round \in Round \cup {None}
        /\ network \subseteq Messages
        /\ saved \in Block
        /\ Few
BY Zenon DEF TypeOK, PeerTable, Messages, Few

\* The round an answer was put into is a round.
LEMMA RoundTypes ==
    ASSUME round \in Round, NEW p \in Peer, NEW r \in Response \cup {None}
    PROVE  /\ [round EXCEPT !.responses[p] = r] \in Round
           /\ [round EXCEPT !.requested = @ \ {p}, !.responses[p] = r] \in Round
BY DEF Round

\* A peer is added, removed or announces a height.
LEMMA PeerStepTypes == TypeOK /\ PeerStep => TypeOK'
<1> SUFFICES ASSUME TypeOK, PeerStep PROVE TypeOK'
  OBVIOUS
<1>0. /\ tip \in Block /\ generation \in 1..MaxGeneration
      /\ state \in {"HeaderSyncing", "HeaderCurrent", "Degraded"}
      /\ peers \in PeerTable
      /\ round \in Round \cup {None}
      /\ network \subseteq Messages
      /\ saved \in Block
      /\ Few
  BY Zenon, TypeOKParts
<1>1. UNCHANGED <<tip, generation, network, saved>>
  BY Zenon DEF PeerStep, RemovePeer, AddPeer, UpdatePeerHeight
<1>2. state' \in {"HeaderSyncing", "HeaderCurrent", "Degraded"}
  BY <1>0 DEF PeerStep, RemovePeer, AddPeer, UpdatePeerHeight
<1>3. round' \in Round \cup {None}
  <2>1. CASE UNCHANGED round
    BY <1>0, <2>1
  <2>2. ASSUME NEW p \in Peer, RemovePeer(p) PROVE round' \in Round \cup {None}
    BY <1>0, <2>2, RoundTypes DEF RemovePeer
  <2> QED
    BY Zenon, <2>1, <2>2 DEF PeerStep, AddPeer, UpdatePeerHeight
<1>4. ASSUME NEW p \in Peer, RemovePeer(p) PROVE peers' \in PeerTable /\ Few'
  <2>1. peers' = [peers EXCEPT ![p] = None]
    BY <1>4 DEF RemovePeer
  <2>2. peers' \in PeerTable
    BY <1>0, <2>1 DEF PeerTable
  <2>3. Tracked' \subseteq Tracked
    BY <1>0, <2>1 DEF Tracked, PeerTable
  <2> QED
    BY <1>0, <2>2, <2>3, NoNewPeer
<1>5. ASSUME NEW p \in Peer, NEW h \in AdvertisedHeight, AddPeer(p, h)
      PROVE  peers' \in PeerTable /\ Few'
  <2>1. [advertised_height |-> h, failures |-> 0, banned |-> FALSE]
            \in PeerRecord
    BY BlockAssumption DEF PeerRecord
  <2>2. peers' = [peers EXCEPT ![p] = [advertised_height |-> h,
                                       failures |-> 0, banned |-> FALSE]]
    BY <1>5 DEF AddPeer
  <2>3. peers' \in PeerTable
    BY <1>0, <2>1, <2>2 DEF PeerTable
  <2> QED
    BY <1>0, <1>5, <2>3, AddedPeer
<1>6. ASSUME NEW p \in Peer, NEW h \in AdvertisedHeight, UpdatePeerHeight(p, h)
      PROVE  peers' \in PeerTable /\ Few'
  <2>1. peers[p] \in PeerRecord
    BY <1>0, <1>6 DEF UpdatePeerHeight, Tracked, PeerTable
  <2>2. [peers[p] EXCEPT !.advertised_height = h] \in PeerRecord
    BY <2>1, BlockAssumption DEF PeerRecord
  <2>3. peers' = [peers EXCEPT ![p] = [peers[p] EXCEPT !.advertised_height = h]]
    BY <1>6 DEF UpdatePeerHeight
  <2>4. peers' \in PeerTable
    BY <1>0, <2>2, <2>3 DEF PeerTable
  <2>5. Tracked' \subseteq Tracked
    BY <1>0, <1>6, <2>3 DEF Tracked, PeerTable, UpdatePeerHeight
  <2> QED
    BY <1>0, <2>4, <2>5, NoNewPeer
<1>7. peers' \in PeerTable /\ Few'
  BY Zenon, <1>4, <1>5, <1>6 DEF PeerStep
<1> QED
  <2>1. (TypeOK)' <=>
        /\ tip' \in Block
        /\ state' \in {"HeaderSyncing", "HeaderCurrent", "Degraded"}
        /\ generation' \in 1..MaxGeneration
        /\ peers' \in PeerTable
        /\ round' \in Round \cup {None}
        /\ network' \subseteq Messages
        /\ saved' \in Block
        /\ Few'
    BY Zenon DEF TypeOK, PeerTable, Messages, Few
  <2> QED
    BY <1>0, <1>1, <1>2, <1>3, <1>7, <2>1

\* A round begins or hears an answer.
LEMMA RoundStepTypes == TypeOK /\ RoundStep => TypeOK'
<1> SUFFICES ASSUME TypeOK, RoundStep PROVE TypeOK'
  OBVIOUS
<1>0. /\ tip \in Block /\ generation \in 1..MaxGeneration
      /\ round \in Round \cup {None}
      /\ network \subseteq Messages
  BY Zenon, TypeOKParts
<1>1. UNCHANGED <<tip, state, peers, network, saved>>
  BY Zenon DEF RoundStep, BeginRound, SubmitHeaders
<1>2. ASSUME NEW requested \in SUBSET Peer, BeginRound(requested)
      PROVE  generation' \in 1..MaxGeneration /\ round' \in Round
  <2>1. generation' \in 1..MaxGeneration
    BY <1>0, <1>2, ConfigAssumption DEF BeginRound
  <2>2. round' = [generation |-> generation', base |-> tip,
                  requested |-> requested, responses |-> [p \in Peer |-> None]]
    BY <1>2 DEF BeginRound
  <2> QED
    BY <1>0, <2>1, <2>2 DEF Round
<1>3. ASSUME NEW m \in network, SubmitHeaders(m)
      PROVE  generation' = generation /\ round' \in Round
  <2>1. m \in Messages /\ round \in Round
    BY <1>0, <1>3 DEF SubmitHeaders, Submittable
  <2>2. m.peer \in Peer /\ [tip |-> m.tip, asked_in |-> m.generation] \in Response
    BY <2>1 DEF Messages, Response
  <2>3. /\ generation' = generation
        /\ round' = [round EXCEPT !.responses[m.peer] =
                        [tip |-> m.tip, asked_in |-> m.generation]]
    BY <1>3 DEF SubmitHeaders
  <2> HIDE DEF Messages, Response
  <2> QED
    BY <2>1, <2>2, <2>3, RoundTypes
<1>4. generation' \in 1..MaxGeneration /\ round' \in Round \cup {None}
  BY Zenon, <1>0, <1>2, <1>3 DEF RoundStep
<1>5. Few' <=> Few
  BY <1>1 DEF Few, Tracked
<1> QED
  BY <1>1, <1>4, <1>5 DEF TypeOK, Few

\* A round ends.
LEMMA EndTypes ==
    TypeOK /\ (Dropped \/ FinishAgreed \/ CrashAndReopen) => TypeOK'
<1> SUFFICES ASSUME TypeOK, Dropped \/ FinishAgreed \/ CrashAndReopen
             PROVE  TypeOK'
  OBVIOUS
<1>0. /\ tip \in Block /\ generation \in 1..MaxGeneration
      /\ state \in {"HeaderSyncing", "HeaderCurrent", "Degraded"}
      /\ peers \in PeerTable
      /\ round \in Round \cup {None}
      /\ network \subseteq Messages
      /\ saved \in Block
      /\ Few
  BY Zenon, TypeOKParts
<1>1. round' = None
  BY Zenon DEF Dropped, AbandonUncommittedRound, FinishInsufficient,
     FinishDegraded, FinishAgreed, CrashAndReopen
<1>2. state' \in {"HeaderSyncing", "HeaderCurrent", "Degraded"}
  BY <1>0 DEF Dropped, AbandonUncommittedRound, FinishInsufficient,
     FinishDegraded, FinishAgreed, CrashAndReopen
<1>3. generation' \in 1..MaxGeneration /\ network' \subseteq Messages
      /\ saved' \in Block
  BY <1>0, ConfigAssumption DEF Dropped, AbandonUncommittedRound,
     FinishInsufficient, FinishDegraded, FinishAgreed, CrashAndReopen
<1>4. tip' \in Block
  <2>1. CASE FinishAgreed
    <3>1. round \in Round
      BY <1>0, <2>1 DEF FinishAgreed
    <3>2. tip' \in Best
      BY Zenon, <2>1 DEF FinishAgreed
    <3>3. PICK p \in Valid : tip' = Claimed(p)
      BY Zenon, <3>2 DEF Best
    <3>4. p \in Peer /\ round.responses[p] # None /\ Claimed(p) # BadBatch
      BY <3>3 DEF Valid, Responded, Extends
    <3>5. round.responses[p] \in Response
      BY <3>1, <3>4 DEF Round
    <3> QED
      BY <3>3, <3>4, <3>5 DEF Response, Claimed
  <2>2. CASE ~FinishAgreed
    BY <1>0, <2>2 DEF Dropped, AbandonUncommittedRound, FinishInsufficient,
       FinishDegraded, CrashAndReopen
  <2> QED
    BY <2>1, <2>2
<1>5. peers' \in PeerTable /\ Few'
  <2>1. CASE UNCHANGED peers
    BY <1>0, <2>1 DEF Few, Tracked
  <2>2. CASE \/ peers' = Scored
             \/ \E b \in Best : peers' = Rewarded(b)
    <3>1. /\ peers' \in PeerTable
          /\ \A p \in Peer : peers'[p] # None <=> peers[p] # None
      BY Zenon, <1>0, <2>2, ScoredTypes, RewardedTypes
    <3>2. Tracked' \subseteq Tracked
      BY <3>1 DEF Tracked
    <3> QED
      BY <1>0, <3>1, <3>2, NoNewPeer
  <2>3. CASE CrashAndReopen
    <3>1. peers' = [p \in Peer |-> None]
      BY <2>3 DEF CrashAndReopen
    <3>2. Tracked' = {}
      BY <3>1 DEF Tracked
    <3>3. peers' \in PeerTable
      BY <3>1 DEF PeerTable
    <3> QED
      BY <1>0, <3>2, <3>3, NoNewPeer
  <2> QED
    BY Zenon, <2>1, <2>2, <2>3 DEF Dropped, AbandonUncommittedRound,
       FinishInsufficient, FinishDegraded, FinishAgreed
<1> QED
  BY <1>1, <1>2, <1>3, <1>4, <1>5 DEF TypeOK, PeerTable, Few, Messages

\* The peers answer, the network loses, the caller saves.
LEMMA OutsideTypes == TypeOK /\ Outside => TypeOK'
<1> SUFFICES ASSUME TypeOK, Outside PROVE TypeOK'
  OBVIOUS
<1>0. /\ tip \in Block /\ round \in Round \cup {None}
      /\ network \subseteq Messages
      /\ saved \in Block
  BY Zenon, TypeOKParts
<1>1. UNCHANGED volatile
  BY Zenon DEF Outside, Answer, Lose, Save, vars
<1>2. saved' \in Block
  BY <1>0 DEF Outside, Answer, Lose, Save, vars
<1>3. network' \subseteq Messages
  <2>1. ASSUME NEW p \in Peer, NEW b \in Block \cup {BadBatch}, Answer(p, b)
        PROVE  network' \subseteq Messages
    <3>1. round \in Round
      BY <1>0, <2>1 DEF Answer
    <3>2. round.generation \in 1..MaxGeneration
      BY <3>1 DEF Round
    <3>3. [generation |-> round.generation, peer |-> p, tip |-> b] \in Messages
      BY <3>2 DEF Messages
    <3>4. network' = network \cup
              {[generation |-> round.generation, peer |-> p, tip |-> b]}
      BY <2>1 DEF Answer
    <3> QED
      BY <1>0, <3>3, <3>4
  <2> QED
    BY <1>0, <2>1 DEF Outside, Lose, Save, vars
<1> QED
  BY <1>1, <1>2, <1>3 DEF TypeOK, volatile, Tracked, Messages

\* No step breaks the type invariant.
LEMMA TypesStep == TypeOK /\ [Next]_vars => TypeOK'
BY Zenon, StepCases, PeerStepTypes, RoundStepTypes, EndTypes, OutsideTypes

-----------------------------------------------------------------------------
(* The round in progress.                                                  *)

RoundInv == RoundMatchesChain /\ HeardInThisRound

\* Whatever a peer does, the round keeps to the peers that are still active.
LEMMA PeersKeepRound == TypeOK /\ RoundInv /\ PeerStep => RoundInv'
<1> SUFFICES ASSUME TypeOK, RoundInv, PeerStep, round' # None PROVE RoundInv'
  BY Zenon DEF RoundInv, RoundMatchesChain, HeardInThisRound
<1>0. peers \in PeerTable /\ round \in Round \cup {None}
  BY Zenon, TypeOKParts
<1>1. ASSUME NEW p \in Peer, RemovePeer(p) PROVE RoundInv'
  <2>1. round # None /\ round \in Round
    BY <1>0, <1>1 DEF RemovePeer
  <2>2. /\ round'.generation = round.generation
        /\ round'.base = round.base
        /\ round'.requested = round.requested \ {p}
        /\ round'.responses = [round.responses EXCEPT ![p] = None]
    BY <1>1, <2>1 DEF RemovePeer, Round
  <2>3. round.responses \in [Peer -> Response \cup {None}]
    BY <2>1 DEF Round
  <2>4. Responded' = Responded \ {p}
    BY <2>2, <2>3 DEF Responded
  <2>5. \A q \in Responded' : round'.responses[q] = round.responses[q]
    BY <2>2, <2>3, <2>4 DEF Responded
  <2>6. Active \ {p} \subseteq Active'
    BY <1>0, <1>1 DEF RemovePeer, Active, Tracked, PeerTable
  <2>7. UNCHANGED <<generation, tip>>
    BY <1>1 DEF RemovePeer
  <2> QED
    BY <2>1, <2>2, <2>4, <2>5, <2>6, <2>7 DEF RoundInv, RoundMatchesChain,
       HeardInThisRound
<1>2. ASSUME UNCHANGED <<round, generation, tip>>, Active \subseteq Active'
      PROVE  RoundInv'
  <2>1. Responded' = Responded
    BY <1>2 DEF Responded
  <2> QED
    BY <1>2, <2>1 DEF RoundInv, RoundMatchesChain, HeardInThisRound
<1>3. ASSUME NEW p \in Peer, NEW h \in AdvertisedHeight, AddPeer(p, h)
      PROVE  RoundInv'
  <2>1. Active \subseteq Active'
    BY <1>0, <1>3 DEF AddPeer, Active, Tracked, PeerTable
  <2> QED
    BY <1>2, <1>3, <2>1 DEF AddPeer
<1>4. ASSUME NEW p \in Peer, NEW h \in AdvertisedHeight, UpdatePeerHeight(p, h)
      PROVE  RoundInv'
  <2>1. peers[p] \in PeerRecord
    BY <1>0, <1>4 DEF UpdatePeerHeight, Tracked, PeerTable
  <2>2. peers' = [peers EXCEPT ![p] = [peers[p] EXCEPT !.advertised_height = h]]
    BY <1>4 DEF UpdatePeerHeight
  <2>3. /\ [peers[p] EXCEPT !.advertised_height = h] \in PeerRecord
        /\ [peers[p] EXCEPT !.advertised_height = h].banned = peers[p].banned
    BY <2>1, BlockAssumption DEF PeerRecord
  <2>4. /\ peers'[p] # None
        /\ peers'[p].banned = peers[p].banned
        /\ \A q \in Peer \ {p} : peers'[q] = peers[q]
    BY <1>0, <2>2, <2>3, NoneAssumption DEF PeerTable
  <2>5. Active \subseteq Active'
    BY <2>4 DEF Active, Tracked
  <2> QED
    BY <1>2, <1>4, <2>5 DEF UpdatePeerHeight
<1> QED
  BY Zenon, <1>1, <1>3, <1>4 DEF PeerStep

\* A new round asks active peers and has heard nobody; an answer is taken from
\* a peer that was asked, in this round.
LEMMA RoundStepKeepsRound == TypeOK /\ RoundInv /\ RoundStep => RoundInv'
<1> SUFFICES ASSUME TypeOK, RoundInv, RoundStep PROVE RoundInv'
  OBVIOUS
<1>0. round \in Round \cup {None} /\ network \subseteq Messages
  BY Zenon, TypeOKParts
<1>1. UNCHANGED <<peers, tip>>
  BY Zenon DEF RoundStep, BeginRound, SubmitHeaders
<1>2. Active' = Active
  BY <1>1 DEF Active, Tracked
<1>3. ASSUME NEW requested \in SUBSET Peer, BeginRound(requested)
      PROVE  RoundInv'
  <2>1. round' = [generation |-> generation', base |-> tip,
                  requested |-> requested, responses |-> [p \in Peer |-> None]]
    BY <1>3 DEF BeginRound
  <2>2. requested \subseteq Active
    BY <1>3 DEF BeginRound, MayBeAsked
  <2>3. Responded' = {}
    BY <2>1 DEF Responded
  <2> QED
    BY <1>1, <1>2, <2>1, <2>2, <2>3 DEF RoundInv, RoundMatchesChain,
       HeardInThisRound
<1>4. ASSUME NEW m \in network, SubmitHeaders(m) PROVE RoundInv'
  <2> DEFINE r == [tip |-> m.tip, asked_in |-> m.generation]
  <2>1. m \in Messages /\ round # None /\ round \in Round
    BY <1>0, <1>4 DEF SubmitHeaders, Submittable
  <2>2. m.peer \in round.requested /\ m.generation = round.generation
    BY <1>4 DEF SubmitHeaders, Submittable
  <2>3. generation' = generation /\ round' = [round EXCEPT !.responses[m.peer] = r]
    BY <1>4 DEF SubmitHeaders
  <2>4. r.asked_in = round.generation
    BY <2>2
  <2> HIDE DEF r
  <2>5. /\ round'.generation = round.generation
        /\ round'.base = round.base
        /\ round'.requested = round.requested
        /\ round'.responses = [round.responses EXCEPT ![m.peer] = r]
    BY <2>1, <2>3 DEF Round
  <2>6. round.responses \in [Peer -> Response \cup {None}]
    BY <2>1 DEF Round
  <2>7. Responded' \subseteq Responded \cup {m.peer}
    BY <2>5, <2>6 DEF Responded
  <2>8. \A q \in Peer : round'.responses[q] =
            IF q = m.peer THEN r ELSE round.responses[q]
    BY <2>5, <2>6
  <2>9. Responded' \subseteq Peer
    BY DEF Responded
  <2> QED
    BY <1>1, <1>2, <2>1, <2>2, <2>3, <2>4, <2>5, <2>7, <2>8, <2>9
       DEF RoundInv, RoundMatchesChain, HeardInThisRound
<1> QED
  BY Zenon, <1>3, <1>4 DEF RoundStep

\* No step breaks a running round: it still starts at the tip, in the present
\* generation, asks peers that are tracked and not banned, and holds answers given to it.
LEMMA RoundStays == TypeOK /\ RoundInv /\ [Next]_vars => RoundInv'
<1> SUFFICES ASSUME TypeOK, RoundInv, [Next]_vars PROVE RoundInv'
  OBVIOUS
<1>1. CASE round' = None
  BY Zenon, <1>1 DEF RoundInv, RoundMatchesChain, HeardInThisRound
<1>2. Dropped \/ FinishAgreed \/ CrashAndReopen => round' = None
  BY Zenon DEF Dropped, AbandonUncommittedRound, FinishInsufficient,
     FinishDegraded, FinishAgreed, CrashAndReopen
<1>3. CASE Outside
  <2>1. UNCHANGED <<tip, generation, peers, round>>
    BY Zenon, <1>3 DEF Outside, Answer, Lose, Save, vars, volatile
  <2>2. Responded' = Responded /\ Active' = Active
    BY <2>1 DEF Responded, Active, Tracked
  <2> QED
    BY <2>1, <2>2 DEF RoundInv, RoundMatchesChain, HeardInThisRound
<1> QED
  BY Zenon, <1>1, <1>2, <1>3, StepCases, PeersKeepRound, RoundStepKeepsRound

-----------------------------------------------------------------------------
(* Currency.                                                               *)

\* Only a round that found no extension makes the chain current, a higher
\* announcement ends that, and nothing else raises a known peer's height.
LEMMA CurrencyStays ==
    TypeOK /\ CurrentMeansNoExtension /\ [Next]_vars
        => CurrentMeansNoExtension'
<1> SUFFICES ASSUME TypeOK, CurrentMeansNoExtension, [Next]_vars,
                    state' = "HeaderCurrent",
                    NEW p \in Active', p \notin joined'
             PROVE  peers'[p].advertised_height <= Len(tip')
  BY DEF CurrentMeansNoExtension
<1>0. peers \in PeerTable /\ tip \in Block
  BY Zenon, TypeOKParts
<1>1. p \in Peer /\ peers'[p] # None /\ ~peers'[p].banned
  BY DEF Active, Tracked
<1>2. ASSUME state = "HeaderCurrent", tip' = tip, peers'[p] = peers[p],
             p \notin joined
      PROVE  peers'[p].advertised_height <= Len(tip')
  BY <1>1, <1>2 DEF CurrentMeansNoExtension, Active, Tracked
<1>3. ASSUME NEW q \in Peer, RemovePeer(q)
      PROVE  peers'[p].advertised_height <= Len(tip')
  <2>1. p # q
    BY <1>0, <1>1, <1>3 DEF RemovePeer, PeerTable
  <2>2. peers'[p] = peers[p]
    BY <1>0, <1>1, <1>3, <2>1 DEF RemovePeer, PeerTable
  <2>3. p \notin joined /\ tip' = tip /\ state = "HeaderCurrent"
    BY <1>3, <2>1 DEF RemovePeer
  <2> QED
    BY Zenon, <1>2, <2>2, <2>3
<1>4. ASSUME NEW q \in Peer, NEW h \in AdvertisedHeight, AddPeer(q, h)
      PROVE  peers'[p].advertised_height <= Len(tip')
  <2>1. p # q /\ p \notin joined /\ tip' = tip /\ state = "HeaderCurrent"
    BY <1>4 DEF AddPeer
  <2>2. peers'[p] = peers[p]
    BY <1>0, <1>1, <1>4, <2>1 DEF AddPeer, PeerTable
  <2> QED
    BY Zenon, <1>2, <2>1, <2>2
<1>5. ASSUME NEW q \in Peer, NEW h \in AdvertisedHeight, UpdatePeerHeight(q, h)
      PROVE  peers'[p].advertised_height <= Len(tip')
  <2>1. /\ ~(h > Len(tip)) /\ state = "HeaderCurrent"
        /\ p \notin joined /\ tip' = tip
    BY <1>5 DEF UpdatePeerHeight
  <2>2. CASE p # q
    <3>1. peers'[p] = peers[p]
      BY <1>0, <1>1, <1>5, <2>2 DEF UpdatePeerHeight, PeerTable
    <3> QED
      BY Zenon, <1>2, <2>1, <3>1
  <2>3. CASE p = q
    <3>1. peers[p] \in PeerRecord
      BY <1>0, <1>5, <2>3 DEF UpdatePeerHeight, Tracked, PeerTable
    <3>2. peers'[p] = [peers[p] EXCEPT !.advertised_height = h]
      BY <1>0, <1>1, <1>5, <2>3 DEF UpdatePeerHeight, PeerTable
    <3>3. peers'[p].advertised_height = h
      BY <3>1, <3>2 DEF PeerRecord
    <3>4. h \in Nat /\ Len(tip) \in Nat
      BY <1>0, BlockAssumption
    <3> QED
      BY <2>1, <3>3, <3>4
  <2> QED
    BY <2>2, <2>3
<1>6. CASE FinishAgreed
  <2>1. PICK b \in Best : /\ tip' = b
                          /\ peers' = Rewarded(b)
                          /\ state' = IF NoExtension(b) THEN "HeaderCurrent"
                                                        ELSE "HeaderSyncing"
    BY Zenon, <1>6 DEF FinishAgreed
  <2>2. NoExtension(b)
    BY <2>1
  <2> QED
    BY <1>1, <2>1, <2>2 DEF NoExtension
<1>7. CASE RoundStep \/ Outside \/ AbandonUncommittedRound
  <2>1. UNCHANGED <<state, tip, peers, joined>>
    BY Zenon, <1>7 DEF RoundStep, BeginRound, SubmitHeaders,
       AbandonUncommittedRound, Outside, Answer, Lose, Save, vars, volatile
  <2> QED
    BY <1>2, <2>1
<1>8. state' # "HeaderCurrent" \/
      ~(FinishInsufficient \/ FinishDegraded \/ CrashAndReopen)
  BY DEF FinishInsufficient, FinishDegraded, CrashAndReopen
<1> QED
  BY Zenon, <1>3, <1>4, <1>5, <1>6, <1>7, <1>8, StepCases DEF PeerStep, Dropped

-----------------------------------------------------------------------------
(* Agreement.                                                              *)

\* The round that installs a tip has heard of it from enough peers, and of no
\* other valid tip with as much work.
LEMMA AgreedTip ==
    ASSUME TypeOK, RoundInv, FinishAgreed
    PROVE  TipWasAgreed'
<1>1. round \in Round /\ round # None
  BY DEF FinishAgreed, TypeOK
<1>2. PICK b \in Best :
          /\ Best = {b}
          /\ Cardinality(Supporters(b)) >= MinimumPeerAgreement
          /\ last' = [tip |-> b,
                      supporters |-> {p \in Supporters(b) :
                          round.responses[p].asked_in = round.generation},
                      rivals |-> {Claimed(p) : p \in Valid}]
  BY Zenon DEF FinishAgreed
<1>3. {p \in Supporters(b) : round.responses[p].asked_in = round.generation}
        = Supporters(b)
  BY <1>1 DEF Supporters, Valid, RoundInv, HeardInThisRound
<1>4. /\ last'.tip = b
      /\ last'.supporters = Supporters(b)
      /\ last'.rivals = {Claimed(p) : p \in Valid}
  BY <1>2, <1>3
<1>5. ASSUME NEW p \in Valid PROVE Chainwork[Claimed(p)] \in Nat
  <2>1. p \in Peer /\ round.responses[p] # None /\ Claimed(p) # BadBatch
    BY DEF Valid, Responded, Extends
  <2>2. round.responses[p] \in Response
    BY <1>1, <2>1 DEF Round
  <2>3. Claimed(p) \in Block
    BY <2>1, <2>2 DEF Response, Claimed
  <2> QED
    BY <2>3, BlockAssumption
<1>6. PICK q \in Valid :
          /\ Claimed(q) = b
          /\ \A r \in Valid : Chainwork[Claimed(r)] <= Chainwork[Claimed(q)]
  BY Zenon, <1>2 DEF Best
<1>7. ASSUME NEW p \in Valid, Chainwork[Claimed(p)] = Chainwork[b]
      PROVE  Claimed(p) = b
  <2>1. \A r \in Valid : Chainwork[Claimed(r)] <= Chainwork[Claimed(p)]
    BY <1>6, <1>7
  <2>2. Claimed(p) \in Best
    BY Zenon, <2>1 DEF Best
  <2> QED
    BY <1>2, <2>2
<1>8. \A c \in last'.rivals : /\ Chainwork[c] <= Chainwork[last'.tip]
                              /\ Chainwork[c] = Chainwork[last'.tip]
                                    => c = last'.tip
  BY Zenon, <1>4, <1>6, <1>7
<1> QED
  BY Zenon, <1>2, <1>4, <1>8 DEF TipWasAgreed

\* A tip is installed by FinishAgreed alone, so it stays one that was agreed.
LEMMA AgreementStays ==
    TypeOK /\ RoundInv /\ TipWasAgreed /\ [Next]_vars => TipWasAgreed'
<1> SUFFICES ASSUME TypeOK, RoundInv, TipWasAgreed, [Next]_vars
             PROVE  TipWasAgreed'
  OBVIOUS
<1>1. CASE UNCHANGED last
  BY Zenon, <1>1 DEF TipWasAgreed
<1>2. CASE FinishAgreed
  BY Zenon, <1>2, AgreedTip
<1> QED
  BY Zenon, <1>1, <1>2, StepCases DEF PeerStep, RemovePeer, AddPeer,
     UpdatePeerHeight, RoundStep, BeginRound, SubmitHeaders, Dropped,
     AbandonUncommittedRound, FinishInsufficient, FinishDegraded,
     CrashAndReopen, Outside, Answer, Lose, Save, vars

-----------------------------------------------------------------------------
\* A new synchronizer satisfies the invariant.
LEMMA InitIInv == Init => IInv
<1> SUFFICES ASSUME Init PROVE IInv
  OBVIOUS
<1>1. Tracked = {}
  BY DEF Init, Tracked
<1>2. Cardinality(Tracked) = 0
  BY <1>1, FS_EmptySet
<1>3. TypeOK
  BY <1>2, ConfigAssumption, BlockAssumption DEF Init, TypeOK
<1> QED
  BY <1>3 DEF Init, IInv, RoundMatchesChain, HeardInThisRound,
     CurrentMeansNoExtension, TipWasAgreed

\* Every step preserves the invariant.
LEMMA NextIInv == IInv /\ [Next]_vars => IInv'
BY Zenon, TypesStep, RoundStays, CurrencyStays, AgreementStays
   DEF IInv, RoundInv

\* The synchronizer's state stays well formed, and a round in progress belongs
\* to the chain as it is: finish_round never meets a round of another tip or
\* generation, nor an answer of a peer that has left, was not asked or was
\* asked in an earlier round.
THEOREM RoundSafety == Spec => []TypeOK /\ []RoundMatchesChain
<1>1. IInv => TypeOK /\ RoundMatchesChain
  BY Zenon DEF IInv
<1> QED
  BY InitIInv, NextIInv, <1>1, PTL DEF Spec

\* Every tip finish_round installed was the valid answer of greatest work, the
\* only one of that work, and came from minimum_peer_agreement peers that were
\* asked for it in that round.
THEOREM AgreementSafety == Spec => []TipWasAgreed
<1>1. IInv => TipWasAgreed
  BY Zenon DEF IInv
<1> QED
  BY InitIInv, NextIInv, <1>1, PTL DEF Spec

\* HeaderCurrent is never reported while a peer that the deciding round knew,
\* or that announced a height since, advertises more than the tip.
THEOREM CurrencySafety == Spec => []CurrentMeansNoExtension
<1>1. IInv => CurrentMeansNoExtension
  BY Zenon DEF IInv
<1> QED
  BY InitIInv, NextIInv, <1>1, PTL DEF Spec

=============================================================================
