---------------------------- MODULE BrowserChain ----------------------------
(***************************************************************************)
(* hns-browser-chain: the persistent header chain, its reorganisations and *)
(* the publication of a privately extended snapshot.                       *)
(*                                                                         *)
(* Two SQLite databases: the live one and a staged copy.  A database is    *)
(* written through one HeaderChain, so calls on it do not overlap, but a   *)
(* call is up to two transactions: the headers are committed before the    *)
(* canonical index is moved, and a crash or a failure in between leaves    *)
(* them stored only (`outcome').  A publication is one transaction on the  *)
(* live database.                                                          *)
(*                                                                         *)
(* The block tree is a constant: a header is named by its hash, and height *)
(* and chainwork follow from it.  Acceptable are the headers whose bits,   *)
(* proof of work and checkpoint hold.  An operation that returns an error  *)
(* and changes nothing is a disabled guard.                                *)
(***************************************************************************)
EXTENDS Integers, Sequences, FiniteSets, SequencesExt, FiniteSetTheorems, TLAPS

CONSTANTS Hash, Genesis,
          Prev,               \* prev_block; None for a genesis header
          Work,               \* Chainwork::from_bits of the header's bits
          Acceptable,         \* validate_difficulty_bits, verify_pow,
                              \* validate_checkpoint
          Batch,              \* header sequences a peer may send
          MaxGeneration,      \* bound on set_sync_generation
          None

ASSUME TreeAssumption ==
    /\ None \notin Hash
    /\ Genesis \in Hash
    /\ Prev \in [Hash -> Hash \cup {None}]
    /\ Prev[Genesis] = None
    /\ Work \in [Hash -> Nat]
    /\ Acceptable \subseteq Hash
    /\ Batch \subseteq Seq(Hash)
    /\ MaxGeneration \in Nat

VARIABLES live, staged,       \* databases; no stage is None
          passed_over         \* history: stored headers that a crash, a
                              \* failure or an unconditional publication left
                              \* behind a lighter best header

vars == <<live, staged, passed_over>>

-----------------------------------------------------------------------------
(* Stored headers.                                                         *)

\* The headers canonical_chain_to walks over, the header itself included.
Lineage ==
    LET lineage[h \in Hash] ==
            {h} \cup IF Prev[h] = None THEN {} ELSE lineage[Prev[h]]
    IN  [h \in Hash |-> lineage[h]]

Height ==
    LET height[h \in Hash] ==
            IF Prev[h] = None THEN 0 ELSE height[Prev[h]] + 1
    IN  [h \in Hash |-> height[h]]

Chainwork ==
    LET chainwork[h \in Hash] ==
            Work[h] + IF Prev[h] = None THEN 0 ELSE chainwork[Prev[h]]
    IN  [h \in Hash |-> chainwork[h]]

\* The headers are the tree of the genesis header: no other ever connects.  No
\* header is its own ancestor, so that heights and chainworks are numbers.
ASSUME RootedAssumption ==
    /\ Height \in [Hash -> Nat]
    /\ Chainwork \in [Hash -> Nat]
    /\ Lineage[Genesis] = {Genesis}
    /\ \A h \in Hash : Genesis \in Lineage[h] /\ (Prev[h] = None => h = Genesis)

\* The state of a database is not the absent one.
ASSUME StateAssumption ==
    \A generation \in 0..MaxGeneration, best \in Hash \cup {None} :
        None # [generation |-> generation, best |-> best]

\* Mutant of Outweighs: a tie counts.
OutweighsOrTies(h, best) == best = None \/ Chainwork[h] >= Chainwork[best]

Outweighs(h, best) == best = None \/ Chainwork[h] > Chainwork[best]

\* The stored headers that are heavier than the best one.
Heavier(db) ==
    {h \in db.headers :
        db.best = None \/ Chainwork[h] > Chainwork[db.best]}

EmptyDatabase ==
    [headers |-> {}, canonical |-> <<>>, best |-> None, generation |-> 0,
     baseline |-> None, journal |-> {}]

\* put_header, put_headers, and the trigger that journals an insertion.
PutHeaders(db, hs) ==
    [db EXCEPT !.headers = @ \cup hs,
               !.journal = IF db.baseline = None THEN @ ELSE @ \cup hs]

\* promote_canonical_tip(s): the rows of these heights only.
PromoteCanonicalTips(db, tips, tip) ==
    [db EXCEPT
        !.canonical =
            [k \in DOMAIN @ \cup {Height[h] : h \in tips} |->
                IF \E h \in tips : Height[h] = k
                THEN CHOOSE h \in tips : Height[h] = k
                ELSE @[k]],
        !.best = tip]

\* replace_canonical_chain: all rows are deleted first.
ReplaceCanonicalChain(db, chain, tip) ==
    PromoteCanonicalTips([db EXCEPT !.canonical = <<>>], chain, tip)

\* promote_best_hash: canonical_chain_to fails when an ancestor is missing.
PromoteBestHash(db, tip) ==
    IF Lineage[tip] \subseteq db.headers
    THEN ReplaceCanonicalChain(db, Lineage[tip], tip)
    ELSE db

-----------------------------------------------------------------------------
(* HeaderChain.                                                            *)

\* The headers of a batch that are neither repeated nor stored.
Accepted(db, batch) ==
    LET kept == {i \in DOMAIN batch :
                    /\ batch[i] \notin db.headers
                    /\ \A j \in 1..(i - 1) : batch[j] # batch[i]}
    IN  [k \in 1..Cardinality(kept) |->
            batch[CHOOSE i \in kept :
                    Cardinality({j \in kept : j <= i}) = k]]

\* Every header is acceptable and follows a stored or an earlier one.
Connects(db, accepted) ==
    \A i \in DOMAIN accepted :
        /\ accepted[i] \in Acceptable
        /\ \/ Prev[accepted[i]] \in db.headers
           \/ \E j \in 1..(i - 1) : accepted[j] = Prev[accepted[i]]

\* Iterator::max_by returns the last of several maxima.
IsBestIndex(accepted, i) ==
    \A j \in DOMAIN accepted :
        \/ Chainwork[accepted[j]] < Chainwork[accepted[i]]
        \/ Chainwork[accepted[j]] = Chainwork[accepted[i]] /\ j <= i

\* Mutant of ExtendsBest: the headers up to the best one are not compared.
ExtendsBestFirstOnly(db, accepted, i) ==
    db.best # None /\ Prev[accepted[1]] = db.best

ExtendsBest(db, accepted, i) ==
    /\ db.best # None
    /\ Prev[accepted[1]] = db.best
    /\ \A j \in 1..(i - 1) : Prev[accepted[j + 1]] = accepted[j]

\* The second half of insert_headers, on a database that has the headers.
Promoted(db, accepted, i) ==
    IF ~Outweighs(accepted[i], db.best)
    THEN db
    ELSE IF ExtendsBest(db, accepted, i)
         THEN PromoteCanonicalTips(db, {accepted[j] : j \in 1..i},
                                   accepted[i])
         ELSE PromoteBestHash(db, accepted[i])

\* Whether the second transaction of an insertion takes place.
Outcome == {"promoted", "stored"}

Interrupted(db, tip, outcome) ==
    outcome = "stored" \/ ~(Lineage[tip] \subseteq db.headers)

\* Insertion of `accepted', the i-th of which is the heaviest, takes the
\* database from db to new.
Inserts(db, new, accepted, i, outcome) ==
    LET stored == PutHeaders(db, Range(accepted))
    IN  /\ new = IF outcome = "stored" THEN stored
                 ELSE Promoted(stored, accepted, i)
        /\ passed_over' = passed_over \cup
                {h \in Range(accepted) :
                    /\ Interrupted(stored, accepted[i], outcome)
                    /\ h \in Heavier(stored)}

InsertGenesis(db, new, outcome) ==
    LET stored == PutHeaders(db, {Genesis})
    IN  /\ Genesis \notin db.headers
        /\ new = IF outcome = "stored" THEN stored
                 ELSE PromoteBestHash(stored, Genesis)
        /\ passed_over' = passed_over \cup
                IF outcome = "stored" THEN {Genesis} ELSE {}

InsertHeader(db, new, h, outcome) ==
    /\ h \notin db.headers
    /\ Connects(db, <<h>>)
    /\ Inserts(db, new, <<h>>, 1, outcome)

InsertHeaders(db, new, batch, outcome) ==
    LET accepted == Accepted(db, batch)
    IN  /\ Connects(db, accepted)
        /\ \E i \in DOMAIN accepted :
            /\ IsBestIndex(accepted, i)
            /\ Inserts(db, new, accepted, i, outcome)

SetSyncGeneration(db, new, generation) ==
    /\ new = [db EXCEPT !.generation = generation]
    /\ UNCHANGED passed_over

-----------------------------------------------------------------------------
(* Snapshots.                                                              *)

Init ==
    /\ live = EmptyDatabase
    /\ staged = None
    /\ passed_over = {}

\* snapshot_to: the destination must not exist.
SnapshotTo ==
    /\ staged = None
    /\ staged' = live
    /\ UNCHANGED <<live, passed_over>>

\* The owner of the stage removes the file.
RemoveStage ==
    /\ staged # None
    /\ staged' = None
    /\ UNCHANGED <<live, passed_over>>

State(db) == [generation |-> db.generation, best |-> db.best]

BeginSnapshotPublicationDelta(expected) ==
    /\ staged # None
    /\ State(staged) = expected
    /\ staged' = [staged EXCEPT !.baseline = expected, !.journal = {}]
    /\ UNCHANGED <<live, passed_over>>

\* read_canonical_tip succeeds.
HasCanonicalTip(db) ==
    IF db.best = None
    THEN DOMAIN db.canonical = {}
    ELSE /\ Height[db.best] \in DOMAIN db.canonical
         /\ db.canonical[Height[db.best]] = db.best
         /\ \A k \in DOMAIN db.canonical : k <= Height[db.best]

\* The heights first_canonical_divergence looks at, from the lower tip down
\* to the first on which both chains agree.
Agrees(a, b, k) ==
    /\ k \in DOMAIN a.canonical \cap DOMAIN b.canonical
    /\ a.canonical[k] = b.canonical[k]

\* first_canonical_divergence of two databases with canonical tips: no
\* height, or the only member of the set.
FirstDivergence(a, b) ==
    IF a.best = b.best THEN {}
    ELSE IF a.best = None \/ b.best = None THEN {0}
    ELSE {k + 1 : k \in {n \in DOMAIN a.canonical \cap DOMAIN b.canonical :
                            /\ Agrees(a, b, n)
                            /\ \A m \in DOMAIN a.canonical
                                        \cap DOMAIN b.canonical :
                                    m > n => ~Agrees(a, b, m)}}

\* validate_staged_canonical_suffix
SuffixIsLinked(from) ==
    /\ {k \in DOMAIN staged.canonical : k >= from}
            = from..(IF staged.best = None THEN -1 ELSE Height[staged.best])
    /\ from > 0 => from - 1 \in DOMAIN staged.canonical
    /\ \A k \in DOMAIN staged.canonical :
        k >= from => Prev[staged.canonical[k]] =
                        IF k = 0 THEN None ELSE staged.canonical[k - 1]

\* validate_staged_canonical_publication_coverage, after the insertion of
\* the journaled headers.
SuffixIsCovered(from) ==
    \A k \in DOMAIN staged.canonical :
        k >= from => staged.canonical[k] \in live.headers \cup staged.journal

\* DELETE from a height on, and INSERT the rows of the stage.
CanonicalWithSuffix(from) ==
    [k \in {n \in DOMAIN live.canonical : n < from}
            \cup {n \in DOMAIN staged.canonical : n >= from} |->
        IF k < from THEN live.canonical[k] ELSE staged.canonical[k]]

Published(headers, canonical) ==
    [live EXCEPT !.headers = @ \cup headers,
                 !.canonical = canonical,
                 !.best = staged.best,
                 !.generation = staged.generation]

\* Mutant of IsCurrent: only the generation is compared.
IsCurrentByGeneration(expected) == live.generation = expected.generation

\* The live database has not changed since the baseline was taken.
IsCurrent(expected) == State(live) = expected

\* validate_snapshot_publication_baseline
BaselineIsValid(expected) ==
    staged.baseline = expected /\ staged.generation > expected.generation

\* validate_journaled_headers
JournalIsValid ==
    \A h \in staged.journal :
        h \in staged.headers /\ Prev[h] \in staged.headers \cup {None}

\* The journaled headers, and the rows from the first divergence on.
publish_snapshot_delta ==
    /\ JournalIsValid
    /\ HasCanonicalTip(live)
    /\ HasCanonicalTip(staged)
    /\ LET divergence == FirstDivergence(live, staged)
       IN  /\ staged.best # live.best => divergence # {}
           /\ \A from \in divergence : SuffixIsLinked(from) /\ SuffixIsCovered(from)
           /\ live' = Published(staged.journal,
                        IF divergence = {} THEN live.canonical
                        ELSE CanonicalWithSuffix(
                                CHOOSE from \in divergence : TRUE))

\* publish_snapshot with an expected state, when it returns true.
PublishSnapshotFromIfCurrent(expected) ==
    /\ staged # None
    /\ IsCurrent(expected)
    /\ BaselineIsValid(expected)
    /\ publish_snapshot_delta
    /\ UNCHANGED <<staged, passed_over>>

\* publish_snapshot_from: whatever the live database holds.
PublishSnapshotFrom ==
    /\ staged # None
    /\ \A k \in DOMAIN staged.canonical :
            staged.canonical[k] \in staged.headers
    /\ LET differs == {k \in DOMAIN live.canonical \cup
                              DOMAIN staged.canonical :
                        ~Agrees(live, staged, k)}
       IN  live' = Published(staged.headers,
                        IF differs = {} THEN live.canonical
                        ELSE CanonicalWithSuffix(
                                CHOOSE k \in differs :
                                    \A n \in differs : k <= n))
    /\ passed_over' = passed_over \cup Heavier(live')
    /\ UNCHANGED staged

-----------------------------------------------------------------------------
Writes(db, new) ==
    \/ \E outcome \in Outcome :
        \/ InsertGenesis(db, new, outcome)
        \/ \E h \in Hash : InsertHeader(db, new, h, outcome)
        \/ \E batch \in Batch : InsertHeaders(db, new, batch, outcome)
    \/ \E g \in 0..MaxGeneration : SetSyncGeneration(db, new, g)

Next ==
    \/ Writes(live, live') /\ UNCHANGED staged
    \/ staged # None /\ Writes(staged, staged') /\ UNCHANGED live
    \/ SnapshotTo
    \/ RemoveStage
    \/ \E generation \in 0..MaxGeneration, best \in Hash \cup {None} :
        LET expected == [generation |-> generation, best |-> best]
        IN  \/ BeginSnapshotPublicationDelta(expected)
            \/ PublishSnapshotFromIfCurrent(expected)
    \/ PublishSnapshotFrom

Spec == Init /\ [][Next]_vars

-----------------------------------------------------------------------------
(* Properties.                                                             *)

DatabaseOK(db) ==
    /\ db.headers \subseteq Hash
    /\ DOMAIN db.canonical \subseteq 0..Cardinality(Hash)
    /\ \A k \in DOMAIN db.canonical : db.canonical[k] \in db.headers
    /\ db.best \in db.headers \cup {None}
    /\ db.generation \in 0..MaxGeneration
    /\ db.journal \subseteq db.headers
    /\ db.baseline = None => db.journal = {}

\* Type invariant: the foreign keys of the schema hold, and only a stage
\* keeps a journal.
TypeOK ==
    /\ DatabaseOK(live)
    /\ live.baseline = None
    /\ staged # None => DatabaseOK(staged)
    /\ passed_over \subseteq Hash

\* The canonical index is exactly the parent-linked chain that ends in the
\* best header, one row per height from the genesis on: after extensions,
\* reorganisations and batches in any order, crashes between the two
\* transactions of an insertion, and publications of any stage.
CanonicalIsBestChain ==
    \A db \in {live, staged} \ {None} :
        IF db.best = None
        THEN DOMAIN db.canonical = {}
        ELSE /\ DOMAIN db.canonical = 0..Height[db.best]
             /\ db.canonical[Height[db.best]] = db.best
             /\ \A k \in 1..Height[db.best] :
                    Prev[db.canonical[k]] = db.canonical[k - 1]

\* No stored header is heavier than the best one, apart from those that an
\* interrupted insertion or an unconditional publication left behind: a
\* conditional publication never sets the chain back behind work that the
\* live database took in meanwhile.
BestIsHeaviest ==
    \A db \in {live, staged} \ {None} : Heavier(db) \subseteq passed_over

\* The best header moves to strictly more work or not at all (the first of
\* two equal chains stays), except by an unconditional publication.
BestOnlyGainsWork ==
    [][live'.best # live.best /\ live.best # None
        => \/ PublishSnapshotFrom
           \/ Chainwork[live'.best] > Chainwork[live.best]]_vars

-----------------------------------------------------------------------------
(***************************************************************************)
(* Proofs.  BestIsHeaviest is not inductive: a conditional publication is  *)
(* allowed by the state the stage started from, so one has to know that    *)
(* the stage has only gained work since (StageAhead), and that a genesis   *)
(* header, which is promoted without being weighed, is stored before any   *)
(* other is promoted (DatabaseSound).                                      *)
(***************************************************************************)

DatabaseField == {"headers", "canonical", "best", "generation", "baseline", "journal"}

\* A database that has a best header has its genesis header.
DatabaseSound(db) ==
    /\ DatabaseField \subseteq DOMAIN db
    /\ db.headers \subseteq Hash
    /\ db.best # None => Genesis \in db.headers
    /\ db.best \in Hash \cup {None}
    /\ db.generation \in 0..MaxGeneration
    /\ db.journal \subseteq db.headers

\* The best header is the one it was, or a heavier one.
Gained(best, was) ==
    \/ best = was
    \/ best \in Hash /\ (was = None \/ Chainwork[best] > Chainwork[was])

\* A stage has gained work since its baseline was taken.
StageAhead(db) ==
    \A generation \in 0..MaxGeneration, best \in Hash \cup {None} :
        db.baseline = [generation |-> generation, best |-> best]
            => Gained(db.best, best)

IInv ==
    /\ DatabaseSound(live)
    /\ live.baseline = None
    /\ staged # None => DatabaseSound(staged) /\ StageAhead(staged)
    /\ Heavier(live) \subseteq passed_over
    /\ staged # None => Heavier(staged) \subseteq passed_over

\* What a write leaves behind (insert_genesis, insert_header, insert_headers,
\* set_sync_generation): a sound database whose best header gained work or
\* stayed, and no heavier header that is not accounted for.
Wrote(db, new) ==
    /\ DatabaseSound(new)
    /\ new.baseline = db.baseline
    /\ Gained(new.best, db.best)
    /\ Heavier(new) \subseteq passed_over'
    /\ passed_over \subseteq passed_over'

\* Gaining work is transitive.
LEMMA GainedTransitive ==
    ASSUME NEW a \in Hash \cup {None}, NEW b \in Hash \cup {None}, NEW c \in Hash \cup {None},
           Gained(a, b), Gained(b, c)
    PROVE  Gained(a, c)
BY TreeAssumption, RootedAssumption DEF Gained

\* What is heavier than a header that gained work was heavier before.
LEMMA HeavierShrinks ==
    ASSUME NEW h \in Hash, NEW best \in Hash \cup {None}, NEW was \in Hash \cup {None},
           Gained(best, was), best = None \/ Chainwork[h] > Chainwork[best]
    PROVE  was = None \/ Chainwork[h] > Chainwork[was]
BY TreeAssumption, RootedAssumption DEF Gained

\* put_headers changes the headers and the journal.
LEMMA PutFields ==
    ASSUME NEW db, DatabaseField \subseteq DOMAIN db, NEW hs, NEW new, new = PutHeaders(db, hs)
    PROVE  /\ DatabaseField \subseteq DOMAIN new
           /\ new.headers = db.headers \cup hs
           /\ new.best = db.best /\ new.generation = db.generation /\ new.baseline = db.baseline
           /\ new.journal \subseteq db.journal \cup hs
BY DEF PutHeaders, DatabaseField

\* promote_canonical_tips changes the index and the best header.
LEMMA PromoteFields ==
    ASSUME NEW db, DatabaseField \subseteq DOMAIN db, NEW tips, NEW tip,
           NEW new, new = PromoteCanonicalTips(db, tips, tip)
    PROVE  /\ DatabaseField \subseteq DOMAIN new
           /\ new.headers = db.headers /\ new.best = tip /\ new.generation = db.generation
           /\ new.baseline = db.baseline /\ new.journal = db.journal
<1>1. ASSUME NEW rows, new = [db EXCEPT !.canonical = rows, !.best = tip]
      PROVE  /\ DatabaseField \subseteq DOMAIN new
             /\ new.headers = db.headers /\ new.best = tip /\ new.generation = db.generation
             /\ new.baseline = db.baseline /\ new.journal = db.journal
  BY <1>1 DEF DatabaseField
<1> QED
  BY <1>1, Zenon DEF PromoteCanonicalTips

\* promote_best_hash moves the best header to the tip, or changes nothing when
\* an ancestor of it is missing.
LEMMA PromoteBestFields ==
    ASSUME NEW db, DatabaseField \subseteq DOMAIN db, NEW tip,
           NEW new, new = PromoteBestHash(db, tip)
    PROVE  /\ DatabaseField \subseteq DOMAIN new
           /\ new.headers = db.headers /\ new.generation = db.generation
           /\ new.baseline = db.baseline /\ new.journal = db.journal
           /\ IF Lineage[tip] \subseteq db.headers THEN new.best = tip ELSE new.best = db.best
<1>1. CASE Lineage[tip] \subseteq db.headers
  <2>0. PICK bare : bare = [db EXCEPT !.canonical = <<>>]
    OBVIOUS
  <2>1. /\ DatabaseField \subseteq DOMAIN bare
        /\ bare.headers = db.headers /\ bare.generation = db.generation
        /\ bare.baseline = db.baseline /\ bare.journal = db.journal
    BY <2>0 DEF DatabaseField
  <2>2. new = PromoteCanonicalTips(bare, Lineage[tip], tip)
    BY <1>1, <2>0, Zenon DEF PromoteBestHash, ReplaceCanonicalChain
  <2>3. /\ DatabaseField \subseteq DOMAIN new
        /\ new.headers = bare.headers /\ new.best = tip /\ new.generation = bare.generation
        /\ new.baseline = bare.baseline /\ new.journal = bare.journal
    BY <2>1, <2>2, PromoteFields
  <2> QED
    BY <1>1, <2>1, <2>3, Zenon
<1>2. CASE ~(Lineage[tip] \subseteq db.headers)
  BY <1>2, Zenon DEF PromoteBestHash
<1> QED
  BY <1>1, <1>2

\* The insertion of headers of which the i-th is the heaviest: it becomes the
\* best header if it outweighs it, unless the insertion is interrupted, and then
\* what outweighs the best header is passed over.
LEMMA InsertsWrite ==
    ASSUME NEW db, DatabaseSound(db), Heavier(db) \subseteq passed_over,
           NEW n \in Nat, NEW accepted, DOMAIN accepted = 1..n, NEW i \in 1..n,
           Connects(db, accepted), IsBestIndex(accepted, i),
           NEW outcome \in Outcome, NEW new, Inserts(db, new, accepted, i, outcome)
    PROVE  Wrote(db, new)
<1> PICK stored : stored = PutHeaders(db, Range(accepted))
  OBVIOUS
<1>1. /\ \A j \in 1..n : accepted[j] \in Hash
      /\ Range(accepted) \subseteq Hash
      /\ \A h \in Range(accepted) : \E j \in 1..n : h = accepted[j]
      /\ accepted[i] \in Range(accepted)
  BY TreeAssumption DEF Connects, Range
<1>3. /\ DatabaseField \subseteq DOMAIN stored
      /\ stored.headers = db.headers \cup Range(accepted)
      /\ stored.best = db.best /\ stored.generation = db.generation /\ stored.baseline = db.baseline
      /\ stored.journal \subseteq db.journal \cup Range(accepted)
  BY PutFields DEF DatabaseSound
<1>4. ASSUME NEW h \in Range(accepted) PROVE Chainwork[h] <= Chainwork[accepted[i]]
  <2>1. PICK j \in 1..n : h = accepted[j]
    BY <1>1, Zenon
  <2>2. \/ Chainwork[accepted[j]] < Chainwork[accepted[i]]
        \/ Chainwork[accepted[j]] = Chainwork[accepted[i]] /\ j <= i
    BY Zenon DEF IsBestIndex
  <2>3. Chainwork[accepted[j]] \in Nat /\ Chainwork[accepted[i]] \in Nat
    <3>1. Chainwork \in [Hash -> Nat]
      BY RootedAssumption, Zenon
    <3> QED
      BY <1>1, <3>1
  <2> QED
    BY <2>1, <2>2, <2>3
<1>5. /\ DatabaseField \subseteq DOMAIN new
      /\ new.headers = stored.headers /\ new.generation = stored.generation
      /\ new.baseline = stored.baseline /\ new.journal = stored.journal
      /\ \/ new.best = stored.best /\ Interrupted(stored, accepted[i], outcome)
         \/ new.best = stored.best /\ ~Outweighs(accepted[i], stored.best)
         \/ /\ new.best = accepted[i] /\ Outweighs(accepted[i], stored.best)
            /\ stored.best # None \/ Lineage[accepted[i]] \subseteq stored.headers
  <2>1. CASE outcome = "stored"
    BY <1>3, <2>1, Zenon DEF Inserts, Interrupted
  <2>2. CASE outcome # "stored"
    <3>1. new = Promoted(stored, accepted, i)
      BY <2>2, Zenon DEF Inserts
    <3>2. CASE ~Outweighs(accepted[i], stored.best)
      BY <1>3, <3>1, <3>2, Zenon DEF Promoted
    <3>3. CASE Outweighs(accepted[i], stored.best) /\ ExtendsBest(stored, accepted, i)
      <4>1. new = PromoteCanonicalTips(stored, {accepted[j] : j \in 1..i}, accepted[i])
        BY <3>1, <3>3, Zenon DEF Promoted
      <4> QED
        BY <1>3, <3>3, <4>1, PromoteFields DEF ExtendsBest
    <3>4. CASE Outweighs(accepted[i], stored.best) /\ ~ExtendsBest(stored, accepted, i)
      <4>1. new = PromoteBestHash(stored, accepted[i])
        BY <3>1, <3>4, Zenon DEF Promoted
      <4> QED
        BY <1>3, <3>4, <4>1, PromoteBestFields DEF Interrupted
    <3> QED
      BY <3>2, <3>3, <3>4
  <2> QED
    BY <2>1, <2>2
<1>6. new.best \in Hash \cup {None} /\ db.best \in Hash \cup {None}
  BY <1>1, <1>3, <1>5 DEF DatabaseSound
<1>7. Gained(new.best, db.best)
  BY <1>1, <1>3, <1>5 DEF Gained, Outweighs
<1>8. DatabaseSound(new)
  <2>1. new.best # None => Genesis \in new.headers
    BY <1>1, <1>3, <1>5, RootedAssumption DEF DatabaseSound
  <2> QED
    BY <1>1, <1>3, <1>5, <2>1 DEF DatabaseSound
<1>9. passed_over' = passed_over \cup {h \in Range(accepted) :
                        Interrupted(stored, accepted[i], outcome) /\ h \in Heavier(stored)}
  BY Zenon DEF Inserts
<1>10. ASSUME NEW h \in Heavier(new) PROVE h \in passed_over'
  <2>1. h \in Hash /\ h \in db.headers \cup Range(accepted)
        /\ (new.best = None \/ Chainwork[h] > Chainwork[new.best])
    BY <1>1, <1>3, <1>5, <1>10 DEF Heavier, DatabaseSound
  <2>2. db.best = None \/ Chainwork[h] > Chainwork[db.best]
    BY <1>6, <1>7, <2>1, HeavierShrinks
  <2>3. CASE h \in db.headers
    BY <1>9, <2>2, <2>3 DEF Heavier
  <2>4. CASE h \in Range(accepted) /\ Interrupted(stored, accepted[i], outcome)
    BY <1>3, <1>9, <2>2, <2>4 DEF Heavier
  <2>5. CASE h \in Range(accepted) /\ ~Interrupted(stored, accepted[i], outcome)
    <3>1. Chainwork[h] <= Chainwork[accepted[i]]
      BY <1>4, <2>5
    <3>2. accepted[i] \in Hash /\ accepted[i] # None
      BY <1>1, TreeAssumption
    <3>3. ~(new.best = accepted[i])
      BY <2>1, <3>1, <3>2, RootedAssumption
    <3>4. new.best = db.best /\ ~Outweighs(accepted[i], db.best)
      BY <1>3, <1>5, <2>5, <3>3
    <3> QED
      BY <1>6, <2>1, <3>1, <3>2, <3>4, RootedAssumption DEF Outweighs
  <2> QED
    BY <2>1, <2>3, <2>4, <2>5
<1> QED
  BY <1>3, <1>5, <1>7, <1>8, <1>9, <1>10 DEF Wrote

\* insert_genesis: a database without its genesis header has no best header.
LEMMA GenesisWrites ==
    ASSUME NEW db, DatabaseSound(db), Heavier(db) \subseteq passed_over,
           NEW outcome \in Outcome, NEW new, InsertGenesis(db, new, outcome)
    PROVE  Wrote(db, new)
<1>0. PICK stored : stored = PutHeaders(db, {Genesis})
  OBVIOUS
<1>1. db.best = None
  BY DEF DatabaseSound, InsertGenesis
<1>2. /\ DatabaseField \subseteq DOMAIN stored
      /\ stored.headers = db.headers \cup {Genesis} /\ stored.best = None
      /\ stored.generation = db.generation /\ stored.baseline = db.baseline
      /\ stored.journal \subseteq db.journal \cup {Genesis}
  <2>1. DatabaseField \subseteq DOMAIN db
    BY DEF DatabaseSound
  <2> QED
    BY <1>0, <1>1, <2>1, PutFields
<1>3. /\ DatabaseField \subseteq DOMAIN new
      /\ new.headers = db.headers \cup {Genesis} /\ new.generation = db.generation
      /\ new.baseline = db.baseline /\ new.journal \subseteq db.journal \cup {Genesis}
      /\ new.best = Genesis \/ (new.best = None /\ passed_over' = passed_over \cup {Genesis})
  <2>1. CASE outcome = "stored"
    BY <1>0, <1>2, <2>1, Zenon DEF InsertGenesis
  <2>2. CASE outcome # "stored"
    <3>1. new = PromoteBestHash(stored, Genesis)
      BY <1>0, <2>2, Zenon DEF InsertGenesis
    <3>2. Lineage[Genesis] \subseteq stored.headers
      BY <1>2, RootedAssumption
    <3>3. /\ DatabaseField \subseteq DOMAIN new
          /\ new.headers = stored.headers /\ new.generation = stored.generation
          /\ new.baseline = stored.baseline /\ new.journal = stored.journal
          /\ IF Lineage[Genesis] \subseteq stored.headers THEN new.best = Genesis ELSE new.best = stored.best
      BY <1>2, <3>1, PromoteBestFields
    <3> QED
      BY <1>2, <3>2, <3>3, Zenon
  <2> QED
    BY <2>1, <2>2
<1>4. passed_over \subseteq passed_over'
  BY DEF InsertGenesis
<1>5. Gained(new.best, db.best)
  BY <1>1, <1>3, TreeAssumption DEF Gained
<1>6. DatabaseSound(new)
  BY <1>3, TreeAssumption DEF DatabaseSound
<1>7. Heavier(new) \subseteq passed_over'
  BY <1>1, <1>3, <1>4, TreeAssumption, RootedAssumption DEF Heavier
<1> QED
  BY <1>3, <1>4, <1>5, <1>6, <1>7 DEF Wrote

\* set_sync_generation
LEMMA GenerationWrites ==
    ASSUME NEW db, DatabaseSound(db), Heavier(db) \subseteq passed_over,
           NEW generation \in 0..MaxGeneration, NEW new, SetSyncGeneration(db, new, generation)
    PROVE  Wrote(db, new)
<1>1. /\ DatabaseField \subseteq DOMAIN new
      /\ new.headers = db.headers /\ new.best = db.best /\ new.generation = generation
      /\ new.baseline = db.baseline /\ new.journal = db.journal
  BY DEF SetSyncGeneration, DatabaseSound, DatabaseField
<1>2. passed_over' = passed_over
  BY DEF SetSyncGeneration
<1> QED
  BY <1>1, <1>2 DEF Wrote, DatabaseSound, Gained, Heavier

\* Every write of a HeaderChain.
LEMMA WritesWrite ==
    ASSUME NEW db, DatabaseSound(db), Heavier(db) \subseteq passed_over, NEW new, Writes(db, new)
    PROVE  Wrote(db, new)
<1>1. ASSUME NEW outcome \in Outcome, NEW h \in Hash, InsertHeader(db, new, h, outcome)
      PROVE  Wrote(db, new)
  <2>0. PICK accepted : accepted = <<h>>
    OBVIOUS
  <2> PICK n \in Nat : n = 1
    OBVIOUS
  <2>1. DOMAIN accepted = 1..n /\ n \in 1..n
    BY <2>0
  <2>2. /\ Connects(db, accepted) /\ Inserts(db, new, accepted, n, outcome)
        /\ IsBestIndex(accepted, n)
    BY <1>1, <2>0, <2>1 DEF InsertHeader, IsBestIndex
  <2> QED
    BY <2>1, <2>2, InsertsWrite
<1>2. ASSUME NEW outcome \in Outcome, NEW batch \in Batch, InsertHeaders(db, new, batch, outcome)
      PROVE  Wrote(db, new)
  <2> DEFINE kept == {i \in DOMAIN batch : /\ batch[i] \notin db.headers
                                          /\ \A j \in 1..(i - 1) : batch[j] # batch[i]}
  <2> PICK accepted : accepted = Accepted(db, batch)
    OBVIOUS
  <2>1. Cardinality(kept) \in Nat
    <3>1. DOMAIN batch = 1..Len(batch) /\ Len(batch) \in Nat
      BY TreeAssumption
    <3>2. IsFiniteSet(1..Len(batch))
      BY <3>1, FS_Interval
    <3>3. kept \subseteq 1..Len(batch)
      BY <3>1
    <3> QED
      BY <3>2, <3>3, FS_Subset, FS_CardinalityType
  <2>2. DOMAIN accepted = 1..Cardinality(kept)
    BY DEF Accepted
  <2>3. /\ Connects(db, accepted)
        /\ \E i \in DOMAIN accepted :
              IsBestIndex(accepted, i) /\ Inserts(db, new, accepted, i, outcome)
    BY <1>2, Zenon DEF InsertHeaders
  <2> HIDE DEF kept
  <2>4. PICK i \in 1..Cardinality(kept) :
              IsBestIndex(accepted, i) /\ Inserts(db, new, accepted, i, outcome)
    BY <2>2, <2>3
  <2> QED
    BY <2>1, <2>2, <2>3, <2>4, InsertsWrite
<1> QED
  BY <1>1, <1>2, GenesisWrites, GenerationWrites DEF Writes

-----------------------------------------------------------------------------
\* publish_snapshot_delta and publish_snapshot_from change no other field.
LEMMA PublishedFields ==
    ASSUME DatabaseField \subseteq DOMAIN live, NEW headers, NEW canonical, NEW new,
           new = Published(headers, canonical)
    PROVE  /\ DatabaseField \subseteq DOMAIN new
           /\ new.headers = live.headers \cup headers
           /\ new.best = staged.best /\ new.generation = staged.generation
           /\ new.baseline = live.baseline /\ new.journal = live.journal
BY DEF Published, DatabaseField

\* A publication over a database without a best header brings the genesis header.
LEMMA DeltaIsRooted ==
    ASSUME IInv, staged # None, publish_snapshot_delta, live.best = None, staged.best # None
    PROVE  Genesis \in live.headers \cup staged.journal
<1>1. SuffixIsLinked(0) /\ SuffixIsCovered(0)
  <2>1. FirstDivergence(live, staged) = {0}
    BY DEF FirstDivergence
  <2> QED
    BY <2>1, Zenon DEF publish_snapshot_delta
<1>2. staged.best \in Hash
  BY DEF IInv, DatabaseSound
<1>3. 0 \in DOMAIN staged.canonical
  BY <1>1, <1>2, RootedAssumption DEF SuffixIsLinked
<1>4. Prev[staged.canonical[0]] = None
  BY <1>1, <1>3 DEF SuffixIsLinked
<1>5. staged.canonical[0] \in live.headers \cup staged.journal
  BY <1>1, <1>3 DEF SuffixIsCovered
<1>6. staged.canonical[0] \in Hash
  BY <1>5 DEF IInv, DatabaseSound
<1> QED
  BY <1>4, <1>5, <1>6, RootedAssumption

\* A publication that the live database is current for gains work, since the
\* stage has.
LEMMA ConditionalPublication ==
    ASSUME IInv, NEW generation \in 0..MaxGeneration, NEW best \in Hash \cup {None},
           PublishSnapshotFromIfCurrent([generation |-> generation, best |-> best])
    PROVE  IInv' /\ Gained(live'.best, live.best)
<1>1. /\ staged # None /\ publish_snapshot_delta
      /\ staged' = staged /\ passed_over' = passed_over
      /\ live.best = best /\ staged.baseline = [generation |-> generation, best |-> best]
  BY DEF PublishSnapshotFromIfCurrent, IsCurrent, State, BaselineIsValid
<1>2. DatabaseSound(live) /\ DatabaseSound(staged) /\ StageAhead(staged) /\ live.baseline = None
  BY <1>1 DEF IInv
<1>3. Gained(staged.best, live.best)
  BY <1>1, <1>2 DEF StageAhead
<1>4. /\ DatabaseField \subseteq DOMAIN live'
      /\ live'.headers = live.headers \cup staged.journal
      /\ live'.best = staged.best /\ live'.generation = staged.generation
      /\ live'.baseline = live.baseline /\ live'.journal = live.journal
  <2>1. \E canonical : live' = Published(staged.journal, canonical)
    BY <1>1, Zenon DEF publish_snapshot_delta
  <2> QED
    BY <1>2, <2>1, PublishedFields DEF DatabaseSound
<1>5. DatabaseSound(live')
  <2>1. live'.best # None => Genesis \in live'.headers
    BY <1>1, <1>2, <1>4, DeltaIsRooted DEF DatabaseSound
  <2> QED
    BY <1>2, <1>4, <2>1 DEF DatabaseSound
<1>6. ASSUME NEW h \in Heavier(live') PROVE h \in passed_over
  <2>1. /\ h \in Hash /\ h \in live.headers \cup staged.journal
        /\ staged.best = None \/ Chainwork[h] > Chainwork[staged.best]
    BY <1>2, <1>4 DEF Heavier, DatabaseSound
  <2>2. live.best = None \/ Chainwork[h] > Chainwork[live.best]
    BY <1>2, <1>3, <2>1, HeavierShrinks DEF DatabaseSound
  <2>3. CASE h \in live.headers
    BY <2>2, <2>3 DEF IInv, Heavier
  <2>4. CASE h \in staged.journal
    BY <1>1, <1>2, <2>1, <2>4 DEF IInv, Heavier, DatabaseSound
  <2> QED
    BY <2>1, <2>3, <2>4
<1> QED
  BY <1>1, <1>2, <1>3, <1>4, <1>5, <1>6 DEF IInv

\* An unconditional publication takes the stage as it is; what it leaves behind is
\* passed over.
LEMMA UnconditionalPublication ==
    ASSUME IInv, PublishSnapshotFrom
    PROVE  IInv'
<1>1. /\ staged # None /\ staged' = staged
      /\ passed_over' = passed_over \cup Heavier(live')
      /\ \E canonical : live' = Published(staged.headers, canonical)
  BY Zenon DEF PublishSnapshotFrom
<1>2. DatabaseSound(live) /\ DatabaseSound(staged) /\ StageAhead(staged) /\ live.baseline = None
  BY <1>1 DEF IInv
<1>3. /\ DatabaseField \subseteq DOMAIN live'
      /\ live'.headers = live.headers \cup staged.headers
      /\ live'.best = staged.best /\ live'.generation = staged.generation
      /\ live'.baseline = live.baseline /\ live'.journal = live.journal
  BY <1>1, <1>2, PublishedFields DEF DatabaseSound
<1>4. DatabaseSound(live')
  BY <1>2, <1>3 DEF DatabaseSound
<1>5. Heavier(staged) \subseteq passed_over' /\ Heavier(live') \subseteq passed_over'
  BY <1>1 DEF IInv
<1> QED
  BY <1>1, <1>2, <1>3, <1>4, <1>5, Zenon DEF IInv

\* begin_snapshot_publication_delta takes the baseline from the stage itself.
LEMMA BaselineTaken ==
    ASSUME IInv, NEW generation \in 0..MaxGeneration, NEW best \in Hash \cup {None},
           BeginSnapshotPublicationDelta([generation |-> generation, best |-> best])
    PROVE  IInv' /\ live' = live
<1> DEFINE expected == [generation |-> generation, best |-> best]
<1>1. staged # None /\ live' = live /\ passed_over' = passed_over /\ staged.best = best
  BY DEF BeginSnapshotPublicationDelta, State
<1>2. DatabaseSound(staged) /\ Heavier(staged) \subseteq passed_over
  BY <1>1 DEF IInv
<1>3. /\ DatabaseField \subseteq DOMAIN staged'
      /\ staged'.headers = staged.headers /\ staged'.best = best
      /\ staged'.generation = staged.generation
      /\ staged'.baseline = expected /\ staged'.journal = {}
  BY <1>1, <1>2 DEF BeginSnapshotPublicationDelta, DatabaseSound, DatabaseField
<1>4. DatabaseSound(staged')
  BY <1>1, <1>2, <1>3 DEF DatabaseSound
<1>5. StageAhead(staged')
  BY <1>3 DEF StageAhead, Gained
<1>6. Heavier(staged') = Heavier(staged)
  BY <1>1, <1>3 DEF Heavier
<1> QED
  BY <1>1, <1>2, <1>4, <1>5, <1>6, Zenon DEF IInv

\* Every step keeps the invariant, and the best header of the live database gains
\* work or stays, except by an unconditional publication.
LEMMA NextIInv ==
    ASSUME IInv, Next
    PROVE  IInv' /\ (PublishSnapshotFrom \/ Gained(live'.best, live.best))
<1>1. CASE Writes(live, live') /\ UNCHANGED staged
  <2>1. Wrote(live, live')
    BY <1>1, WritesWrite DEF IInv
  <2> QED
    BY <1>1, <2>1 DEF IInv, Wrote, StageAhead, Heavier
<1>2. CASE staged # None /\ Writes(staged, staged') /\ UNCHANGED live
  <2>1. Wrote(staged, staged')
    BY <1>2, WritesWrite DEF IInv
  <2>2. StageAhead(staged')
    <3> SUFFICES ASSUME NEW generation \in 0..MaxGeneration, NEW best \in Hash \cup {None},
                        staged'.baseline = [generation |-> generation, best |-> best]
                 PROVE  Gained(staged'.best, best)
      BY Zenon DEF StageAhead
    <3>1. Gained(staged.best, best) /\ Gained(staged'.best, staged.best)
      BY <1>2, <2>1 DEF IInv, StageAhead, Wrote
    <3>2. staged.best \in Hash \cup {None} /\ staged'.best \in Hash \cup {None}
      BY <1>2, <2>1 DEF IInv, Wrote, DatabaseSound
    <3> QED
      BY <3>1, <3>2, GainedTransitive
  <2>3. Heavier(live) \subseteq passed_over'
    BY <2>1 DEF IInv, Wrote
  <2>4. DatabaseSound(staged') /\ Heavier(staged') \subseteq passed_over'
    BY <2>1 DEF Wrote
  <2>5. Gained(live'.best, live.best)
    BY <1>2 DEF Gained
  <2> QED
    BY <1>2, <2>2, <2>3, <2>4, <2>5, Zenon DEF IInv
<1>3. CASE SnapshotTo
  <2>1. staged' = live /\ live' = live /\ passed_over' = passed_over
    BY <1>3 DEF SnapshotTo
  <2>2. StageAhead(live)
    BY StateAssumption DEF IInv, StageAhead
  <2>3. Gained(live'.best, live.best)
    BY <2>1 DEF Gained
  <2> QED
    BY <2>1, <2>2, <2>3, Zenon DEF IInv
<1>4. CASE RemoveStage
  BY <1>4 DEF RemoveStage, IInv, Gained, DatabaseSound, Heavier
<1>5. ASSUME NEW generation \in 0..MaxGeneration, NEW best \in Hash \cup {None},
             BeginSnapshotPublicationDelta([generation |-> generation, best |-> best])
      PROVE  IInv' /\ Gained(live'.best, live.best)
  BY <1>5, BaselineTaken DEF Gained
<1>6. ASSUME NEW generation \in 0..MaxGeneration, NEW best \in Hash \cup {None},
             PublishSnapshotFromIfCurrent([generation |-> generation, best |-> best])
      PROVE  IInv' /\ Gained(live'.best, live.best)
  BY <1>6, ConditionalPublication
<1>7. CASE PublishSnapshotFrom
  BY <1>7, UnconditionalPublication
<1> QED
  BY <1>1, <1>2, <1>3, <1>4, <1>5, <1>6, <1>7, Zenon DEF Next

\* An empty database satisfies the invariant.
LEMMA InitIInv == Init => IInv
BY TreeAssumption DEF Init, IInv, EmptyDatabase, DatabaseSound, DatabaseField, Heavier

\* The invariant holds in every reachable state.
LEMMA InvariantHolds == Spec => []IInv
<1>1. IInv /\ UNCHANGED vars => IInv'
  BY DEF vars, IInv, DatabaseSound, StageAhead, Heavier
<1>2. IInv /\ [Next]_vars => IInv'
  BY <1>1, NextIInv
<1> QED
  BY <1>2, InitIInv, PTL DEF Spec

\* No stored header is heavier than the best one but those an interrupted insertion
\* or an unconditional publication left behind, for every tree of headers and
\* every batch (insert_headers, publish_snapshot_from_if_current).
THEOREM HeaviestSafety == Spec => []BestIsHeaviest
<1>1. IInv => BestIsHeaviest
  BY DEF IInv, BestIsHeaviest
<1> QED
  BY <1>1, InvariantHolds, PTL

\* The live best header moves to strictly more work or not at all, except by an
\* unconditional publication, for every tree of headers and every batch.
THEOREM WorkSafety == Spec => BestOnlyGainsWork
<1>1. IInv /\ [Next]_vars =>
        [live'.best # live.best /\ live.best # None
           => \/ PublishSnapshotFrom
              \/ Chainwork[live'.best] > Chainwork[live.best]]_vars
  BY NextIInv DEF Gained
<1> QED
  BY <1>1, InvariantHolds, PTL DEF Spec, BestOnlyGainsWork

=============================================================================
