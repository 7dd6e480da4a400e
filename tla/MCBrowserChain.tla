--------------------------- MODULE MCBrowserChain ---------------------------
(***************************************************************************)
(* The browser's header chain, what keeps it in step and the rules it      *)
(* judges by, for TLC, in six regimes. Two are of BrowserChain, on a tree  *)
(* of three branches in which a2 and b1 have the same chainwork, b2        *)
(* outweighs both, c2 forks off a1, and the header after b2 is not         *)
(* acceptable: "inserts", on the whole tree without a stage, and           *)
(* "publications", on two of its branches, interrupted only while one      *)
(* header of the first is in play. Two are of the calls of BrowserSync,    *)
(* with two peers of one address group that may be asked and one of        *)
(* another group that may not, under a configuration that syncs one peer   *)
(* after the other and one that races: "wide", one call from any store,    *)
(* and "again", under the first, a second persisting call, that succeeds,  *)
(* after what one call, a failed save or a crash left behind. "proofs" is  *)
(* of its proof requests, over changing connections. "rules" is of         *)
(* ConsensusRules: one step picks a question and its input.                *)
(***************************************************************************)
EXTENDS BrowserChain, BrowserSync, TLC

CONSTANTS g, a1, a2, b1, b2, c2, bad, p1, p2, p3

VARIABLES regime,
          count,              \* interruptions of a chain, calls or proof requests started
          input

MCPrev ==
    g :> None @@ a1 :> g @@ a2 :> a1 @@ b1 :> g @@ b2 :> b1 @@ c2 :> a1
        @@ bad :> b2

MCWork == [h \in Hash |-> IF h = b1 THEN 2 ELSE 1]

MCBatch ==
    {<<a1, a2>>, <<a1, b1, a2>>, <<a1, b1, b2>>, <<b1, b2>>, <<a2, c2>>,
     <<a1, a1, c2>>, <<b2, bad>>}

Stored == live.headers \cup IF staged = None THEN {} ELSE staged.headers

MCGroup == p1 :> "a" @@ p2 :> "a" @@ p3 :> "b"

MCConfig ==
    {[discover_peers |-> TRUE, preferred_peers |-> 2,
      max_header_batches_per_peer |-> 2, peer_discovery_target |-> 2,
      peer_discovery_query_peers |-> 1, parallel_peer_probes |-> 2,
      parallel_header_fetch_peers |-> 1, peer_height_refresh_interval |-> 1],
     [discover_peers |-> FALSE, preferred_peers |-> 2,
      max_header_batches_per_peer |-> 1, peer_discovery_target |-> 2,
      peer_discovery_query_peers |-> 1, parallel_peer_probes |-> 0,
      parallel_header_fetch_peers |-> 2, peer_height_refresh_interval |-> 0]}

MCPresent == 1 :> {p1} @@ 2 :> {p1, p2}

Rules == INSTANCE ConsensusRules
           WITH BASE <- 4, BYTES <- 4, POW_BITS <- [exponent |-> 4, mantissa |-> 15], BLOCKS_PER_DAY <- 4,
                TARGET_SPACING <- 1, MaxParent <- 6, BITS <- 3, MAX_PROOF_SIZE <- 1, MaxNames <- 3

-----------------------------------------------------------------------------
Most == [inserts |-> 3, publications |-> 1, wide |-> 1, again |-> 2, proofs |-> 3, rules |-> 1]

WithinRegime ==
    /\ count <= Most[regime]
    /\ regime = "inserts" => staged = None /\ live.generation = 0
    /\ regime = "publications" =>
        /\ Stored \subseteq {g, a1, a2, b1, b2}
        /\ count = 1 => Stored \subseteq {g, a1, b1, b2}
    /\ regime = "again" =>
        /\ tip \in 0..1
        /\ count = 1 /\ run.phase # "idle" => run.now = 0
        /\ count > 0 => run.persist /\ config.discover_peers
        /\ run.phase \in {"failed", "idle"} => count < 2

MCInit ==
    /\ Init /\ SyncInit /\ ProofInit
    /\ regime \in DOMAIN Most
    /\ store[p1] = NewPeer /\ store[p3] # LegacyPeer
    /\ regime # "wide" => tip = 0
    /\ regime # "wide" \/ tip = Nil => store[p2] = NewPeer /\ store[p3] = Nil
    /\ regime \notin {"wide", "again"} => config.discover_peers
    /\ count = 0 /\ input = [ask |-> ""]

ChainStep ==
    /\ regime \in {"inserts", "publications"}
    /\ Next
    /\ count' = count + IF passed_over' # passed_over THEN 1 ELSE 0
    /\ UNCHANGED <<syncVars, proof_vars, input>>

SyncStep ==
    /\ regime \in {"wide", "again"}
    /\ SyncNext
    /\ count' = count + IF NotRunning /\ ~NotRunning' THEN 1 ELSE 0
    /\ UNCHANGED <<vars, proof_vars, input>>

ProofStep ==
    /\ regime = "proofs"
    /\ ProofNext
    /\ count' = count + IF tally'.asked # tally.asked THEN 1 ELSE 0
    /\ UNCHANGED <<vars, syncVars, input>>

AskRules ==
    /\ regime = "rules" /\ count = 0 /\ count' = 1
    /\ Rules!AskDifficulty \/ Rules!AskUrkel
    /\ UNCHANGED <<vars, syncVars, proof_vars>>

MCNext == regime' = regime /\ (ChainStep \/ SyncStep \/ ProofStep \/ AskRules) /\ WithinRegime'
MCVars == <<regime, count, input, vars, syncVars, proof_vars>>
MCSpec == MCInit /\ [][MCNext]_MCVars

\* The proof requests alone
LateProofSpec == MCInit /\ regime = "proofs" /\ [][MCNext]_MCVars

\* BrowserSync: heights on record are backed by validated headers, a parallel call leaves
\* no peer that answered it above the tip, and one that succeeded has saved what it learnt.
CallsLeaveEvidence == EvidenceIsBacked /\ AnsweredIsBelowTip /\ SuccessIsSaved

\* A target asked of a block follows from its ancestors as the rules say, whichever form
\* it is kept in, and a proof of the name tree shows what the tree holds and no more
\* (ConsensusRules!DifficultyIsSound, NameProofsAreExact).
RulesHold == Rules!DifficultyIsSound /\ Rules!NameProofsAreExact
=============================================================================
