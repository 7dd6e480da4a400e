--------------------------- MODULE ConsensusRules ---------------------------
(***************************************************************************)
(* Targets, work and the next difficulty: hns-browser-primitives/src/pow.rs *)
(* and the retargeting of hns-browser-chain.  A byte has BASE values and a  *)
(* hash BYTES bytes (256 and 32 in the code), so that 256-bit arithmetic    *)
(* with its compact form of three bytes and a sign bit shrinks as a whole.  *)
(* A fallible result is a sequence, empty where the code returns an error.  *)
(***************************************************************************)
EXTENDS Naturals, Sequences, FiniteSets, SequencesExt

CONSTANTS BASE, BYTES,
          POW_BITS,           \* the easiest target, as exponent and mantissa
          BLOCKS_PER_DAY,     \* blocks in the window
          TARGET_SPACING      \* seconds a block should take

Space == BASE ^ BYTES
SignBit == (BASE ^ 3) \div 2

-----------------------------------------------------------------------------
(* pow.rs                                                                  *)

Shifted(bits) == IF bits.exponent <= 3 THEN bits.mantissa \div BASE ^ (3 - bits.exponent)
                 ELSE bits.mantissa * BASE ^ (bits.exponent - 3)

compact_to_target(bits) ==
  IF \/ bits.mantissa >= SignBit             \* NegativeTarget
     \/ bits.mantissa = 0                    \* ZeroTarget
     \/ Shifted(bits) = 0                    \* ZeroTarget
     \/ Shifted(bits) >= Space               \* Overflow
  THEN <<>> ELSE <<Shifted(bits)>>

\* Bytes of a number, most significant first, without leading zeros.
ByteLength(n) == CHOOSE k \in 0..BYTES : n < BASE ^ k /\ (k > 0 => n >= BASE ^ (k - 1))

target_to_compact(target) ==
  IF target = 0 THEN [exponent |-> 0, mantissa |-> 0]
  ELSE LET exponent == ByteLength(target)
           mantissa == IF exponent <= 3 THEN target * BASE ^ (3 - exponent) ELSE target \div BASE ^ (exponent - 3)
       IN IF mantissa >= SignBit
          THEN [exponent |-> exponent + 1, mantissa |-> mantissa \div BASE]
          ELSE [exponent |-> exponent, mantissa |-> mantissa]

work_for_target(target) == IF target = 0 THEN <<>> ELSE <<Space \div (target + 1)>>
target_for_work(work) ==
  IF work = 0 \/ Space \div work = 0 THEN <<>> ELSE <<(Space \div work) - 1>>

\* The bytes of a target without big numbers, for every exponent that fits a hash.
target_bytes_from_compact(bits) ==
  IF bits.mantissa >= SignBit \/ bits.mantissa = 0 THEN <<>>
  ELSE IF bits.exponent > BYTES THEN compact_to_target(bits) ELSE <<Shifted(bits)>>
verify_pow(hash, bits) ==
  LET target == target_bytes_from_compact(bits) IN IF target = <<>> THEN <<>> ELSE <<hash <= target[1]>>

-----------------------------------------------------------------------------
(* Retargeting.  A header is known by its height on the one branch at hand, *)
(* "stored" and "pending" are the heights the store and the batch hold, and *)
(* a batch may hold headers the store has too.                              *)

previous_with_pending(branch, h) ==
  IF h > 0 /\ h - 1 \in branch.pending \cup branch.stored THEN <<h - 1>> ELSE <<>>     \* UnknownParent

\* The middle one of three by time; a stable sort keeps the older of two equals first.
suitable_block_with_pending(branch, z) ==
  LET y == previous_with_pending(branch, z)
      x == IF y = <<>> THEN <<>> ELSE previous_with_pending(branch, y[1])
      Before(a, b) == branch.time[a] < branch.time[b] \/ (branch.time[a] = branch.time[b] /\ a < b)
  IN IF x = <<>> THEN <<>>
     ELSE <<CHOOSE m \in {x[1], y[1], z} : Cardinality({o \in {x[1], y[1], z} : Before(o, m)}) = 1>>

ancestor_with_pending(branch, from, height) ==
  IF height <= from /\ \A h \in (height + 1)..from : previous_with_pending(branch, h) # <<>> THEN <<height>> ELSE <<>>

MIN_ACTUAL_TIMESPAN == (BLOCKS_PER_DAY \div 4) * TARGET_SPACING
MAX_ACTUAL_TIMESPAN == (BLOCKS_PER_DAY * 4) * TARGET_SPACING
Clamped(n) == IF n < MIN_ACTUAL_TIMESPAN THEN MIN_ACTUAL_TIMESPAN
              ELSE IF n > MAX_ACTUAL_TIMESPAN THEN MAX_ACTUAL_TIMESPAN ELSE n
SaturatingSub(a, b) == IF a < b THEN 0 ELSE a - b

retarget_bits(branch, first, last) ==
  IF last <= first \/ branch.chainwork[last] < branch.chainwork[first] THEN <<>>       \* InvalidDifficultyWindow
  ELSE LET timespan == Clamped(SaturatingSub(branch.time[last], branch.time[first]))
           work == ((branch.chainwork[last] - branch.chainwork[first]) * TARGET_SPACING) \div timespan
           target == target_for_work(work)
       IN IF work = 0 THEN <<POW_BITS>>
          ELSE IF target = <<>> THEN <<>>
          ELSE IF target[1] > compact_to_target(POW_BITS)[1] THEN <<POW_BITS>>
          ELSE <<target_to_compact(target[1])>>

\* Mutant of InitialBits: the two headers below the far end of the window are forgotten.
InitialBitsOneWindow(parent) == parent < BLOCKS_PER_DAY

\* Heights too low for two suitable blocks a window apart.
InitialBits(parent) == parent < BLOCKS_PER_DAY + 2

expected_mainnet_bits_with_pending(branch, parent) ==
  IF InitialBits(parent) THEN <<POW_BITS>>
  ELSE LET last == suitable_block_with_pending(branch, parent)
           ancestor == ancestor_with_pending(branch, parent, parent - BLOCKS_PER_DAY)
           first == IF ancestor = <<>> THEN <<>> ELSE suitable_block_with_pending(branch, ancestor[1])
       IN IF last = <<>> \/ first = <<>> THEN <<>> ELSE retarget_bits(branch, first[1], last[1])

-----------------------------------------------------------------------------
(* Statements.                                                             *)

\* A target survives its compact form rounded down to the three leading bytes, by
\* less than a step of the last byte kept, and the compact form of a target is a
\* fixed point; nothing but zero is lost altogether.  Turned into work and back it
\* gets no harder and stands for the same work.
CompactRoundsDown(target) ==
  LET back == compact_to_target(target_to_compact(target))
      work == work_for_target(target)
  IN IF target = 0 THEN back = <<>> /\ work = <<>>
     ELSE /\ back # <<>>
          /\ back[1] <= target
          /\ (target - back[1]) * BASE < target
          /\ target_to_compact(back[1]) = target_to_compact(target)
          /\ target_for_work(work[1])[1] >= target
          /\ work_for_target(target_for_work(work[1])[1]) = work

\* The two readers of a compact target agree: a hash passes exactly when it is at
\* most the target, and where there is no target at most the zero hash passes.
PowReadersAgree(hash, bits) ==
  LET target == compact_to_target(bits)
      verdict == verify_pow(hash, bits)
  IN IF target # <<>> THEN verdict = <<hash <= target[1]>> ELSE verdict # <<TRUE>> \/ hash = 0

\* On a branch whose headers are all known the next difficulty is defined, is at
\* most the easiest target, is the same however the branch is divided between the
\* store and a batch, and moves from the work of the window by no more than a
\* factor of four for time (and what three-header suitable blocks add at each end).
NextBitsAreSound(branch, parent) ==
  LET next == expected_mainnet_bits_with_pending(branch, parent)
      Gained(h) == branch.chainwork[h] - branch.chainwork[h - 1]
      window == (parent - BLOCKS_PER_DAY - 1)..parent
      most == CHOOSE w \in {Gained(h) : h \in window} : \A h \in window : Gained(h) <= w
      fewest == CHOOSE w \in {Gained(h) : h \in window} : \A h \in window : Gained(h) >= w
      target == compact_to_target(next[1])
  IN /\ next # <<>>
     /\ target # <<>> /\ target[1] <= compact_to_target(POW_BITS)[1]
     /\ \A p \in 0..parent :
          expected_mainnet_bits_with_pending([branch EXCEPT !.stored = 0..p, !.pending = p..parent], parent) = next
     /\ ~InitialBits(parent) =>
          LET hardest == (most * (BLOCKS_PER_DAY + 2) * 4) \div BLOCKS_PER_DAY
              easiest == (fewest * (BLOCKS_PER_DAY - 2)) \div (BLOCKS_PER_DAY * 4)
          IN /\ target[1] >= compact_to_target(target_to_compact(target_for_work(hardest)[1]))[1]
             /\ easiest > 0 => target[1] <= target_for_work(easiest)[1]

-----------------------------------------------------------------------------
(***************************************************************************)
(* The questions put to the targets: every target and compact form of the     *)
(* small arithmetic, and branches whose times run evenly, stand still, jump  *)
(* or go back, over headers of several difficulties.                         *)
(***************************************************************************)

CONSTANT MaxParent            \* bound on the height of the parent

VARIABLE input

Branch(gaps, works) ==
  LET time[h \in 0..MaxParent] == IF h = 0 THEN 10 ELSE time[h - 1] + gaps[h] - 1
      chainwork[h \in 0..MaxParent] == IF h = 0 THEN 4 ELSE chainwork[h - 1] + works[h]
  IN [time |-> time, chainwork |-> chainwork, stored |-> 0..MaxParent, pending |-> {}]

\* Works of blocks, from the easiest target's upwards.
Works == {[h \in 1..MaxParent |-> 4], [h \in 1..MaxParent |-> 9],
          [h \in 1..MaxParent |-> IF h % 2 = 0 THEN 4 ELSE 12], [h \in 1..MaxParent |-> h + 3]}

AskTargets == \E target \in 0..(Space - 1) : input' = [ask |-> "target", target |-> target]
AskCompact ==
  \E exponent \in 0..(BYTES + 3), mantissa \in 0..(BASE ^ 3 - 1) :
    input' = [ask |-> "compact", bits |-> [exponent |-> exponent, mantissa |-> mantissa]]
AskRetarget ==
  \E gaps \in [1..MaxParent -> {0, 2, 9}], works \in Works, parent \in {MaxParent - 2, MaxParent} :
    input' = [ask |-> "retarget", gaps |-> gaps, works |-> works, parent |-> parent]
AskDifficulty == AskTargets \/ AskCompact \/ AskRetarget

\* Targets, proofs of work and the next difficulty are what their definitions say on
\* every input: see CompactRoundsDown, PowReadersAgree and NextBitsAreSound.
DifficultyIsSound ==
  /\ input.ask = "target" => CompactRoundsDown(input.target)
  /\ input.ask = "compact" => \A hash \in 0..(Space - 1) : PowReadersAgree(hash, input.bits)
  /\ input.ask = "retarget" => NextBitsAreSound(Branch(input.gaps, input.works), input.parent)

-----------------------------------------------------------------------------
(***************************************************************************)
(* hns-browser-urkel: proofs that a name is, or is not, in the tree a block   *)
(* commits to.  A key is a sequence of BITS bits (256 in the code).  The hash *)
(* is taken to have no collisions: the hash of a node is the node's own term, *)
(* tagged as the code tags what it hashes.  Blocks of bytes are read whole.   *)
(***************************************************************************)

CONSTANTS BITS,               \* bits of a key
          MAX_PROOF_SIZE      \* bytes of the longest encoding

ZERO == <<"zero">>
Bits(n) == [1..n -> 0..1]
Zeros(n) == [i \in 1..n |-> 0]

-----------------------------------------------------------------------------
(* Hashes and prefixes.                                                    *)

hash_value(value) == <<"value", value>>
hash_leaf(key, value_hash) == <<"leaf", key, value_hash>>
hash_internal(prefix, left, right) ==
  IF prefix = <<>> THEN <<"internal", left, right>> ELSE <<"skip", prefix, left, right>>

\* BitPrefix::count: how many bits of the prefix the key has from a depth on.
count(prefix, key, depth) ==
  LET len == IF depth >= BITS THEN 0 ELSE IF Len(prefix) < BITS - depth THEN Len(prefix) ELSE BITS - depth
  IN CHOOSE n \in 0..len : /\ \A i \in 1..n : prefix[i] = key[depth + i]
                           /\ n < len => prefix[n + 1] # key[depth + n + 1]
\* BitPrefix::has
has(prefix, key, depth) == count(prefix, key, depth) = Len(prefix)

-----------------------------------------------------------------------------
(* Proofs.                                                                 *)

is_sane(proof) ==
  /\ proof.depth <= BITS /\ Len(proof.nodes) <= BITS
  /\ \A i \in DOMAIN proof.nodes : Len(proof.nodes[i].prefix) <= BITS
  /\ proof.body.type = "Short" => Len(proof.body.prefix) \in 1..BITS

kind(proof) == IF proof.body.type = "Exists" THEN "Inclusion" ELSE "NonInclusion"

\* The hash a proof starts from, if its body speaks of this key.
LeafOf(body, key, depth) ==
  CASE body.type = "Deadend" -> <<ZERO>>
    [] body.type = "Short" -> IF has(body.prefix, key, depth) THEN <<>>
                              ELSE <<hash_internal(body.prefix, body.left, body.right)>>
    [] body.type = "Collision" -> IF body.key = key THEN <<>> ELSE <<hash_leaf(body.key, body.value_hash)>>
    [] body.type = "Exists" -> <<hash_leaf(key, hash_value(body.value))>>

\* One node of the loop in UrkelProof::verify, from the leaf towards the root.
Climb(key, state, node) ==
  IF ~state.ok \/ state.depth < Len(node.prefix) + 1 THEN [state EXCEPT !.ok = FALSE]
  ELSE LET depth == state.depth - 1
           next == IF key[depth + 1] = 1 THEN hash_internal(node.prefix, node.hash, state.next)
                   ELSE hash_internal(node.prefix, state.next, node.hash)
       IN [next |-> next, depth |-> depth - Len(node.prefix), ok |-> has(node.prefix, key, depth - Len(node.prefix))]

verify(proof, root, key) ==
  /\ is_sane(proof)
  /\ LeafOf(proof.body, key, proof.depth) # <<>>
  /\ LET start == [next |-> LeafOf(proof.body, key, proof.depth)[1], depth |-> proof.depth, ok |-> TRUE]
         end == FoldRight(LAMBDA node, state : Climb(key, state, node), proof.nodes, start)
     IN end.ok /\ end.depth = 0 /\ end.next = root

\* UrkelProofVerifier::verify: the root the proof was asked for is the expected one.
VerifyFor(parsed, expected_root) ==
  parsed.root = expected_root /\ verify(parsed.proof, expected_root, parsed.name_hash)

-----------------------------------------------------------------------------
(* Encodings.  A prefix on the wire has its size, whether the size takes two   *)
(* bytes, and its bits; a node has the bitmap's word on whether it has one.    *)

\* Cursor::read_prefix: a size of two bytes is for sizes from 128 on (LONG).
LONG == 2
ReadsPrefix(p) == (p.long <=> Len(p.bits) >= LONG) /\ Len(p.bits) \in 1..BITS
decode(wire) ==
  IF \/ wire.size > MAX_PROOF_SIZE
     \/ wire.depth > BITS \/ wire.count > BITS
     \/ wire.count > Len(wire.nodes)                                        \* the bytes end early
     \/ \E i \in 1..wire.count : wire.nodes[i].prefix # <<>> /\ ~ReadsPrefix(wire.nodes[i].prefix[1])
     \/ wire.body.type = "Short" /\ ~ReadsPrefix(wire.body.prefix)
     \/ Len(wire.nodes) > wire.count \/ wire.trailing                        \* bytes are left over
  THEN <<>>
  ELSE LET Plain(p) == IF p = <<>> THEN <<>> ELSE p[1].bits
       IN <<[depth |-> wire.depth,
             nodes |-> [i \in 1..wire.count |-> [prefix |-> Plain(wire.nodes[i].prefix), hash |-> wire.nodes[i].hash]],
             body |-> IF wire.body.type = "Short" THEN [wire.body EXCEPT !.prefix = wire.body.prefix.bits] ELSE wire.body]>>

\* ParsedProof::parse_for_key
parse_for_key(wire, root, name_hash) ==
  LET proof == decode(wire)
  IN IF proof = <<>> THEN <<>>
     ELSE <<[kind |-> kind(proof[1]), root |-> root, name_hash |-> name_hash, proof |-> proof[1]]>>

-----------------------------------------------------------------------------
(* The tree the chain commits to, and its prover: external.                *)

\* The keys of a tree agree up to a depth; where they part decides the next node.
RECURSIVE Tree(_, _)
Tree(names, depth) ==
  LET keys == DOMAIN names
      Common(n) == \A i \in (depth + 1)..(depth + n), k, j \in keys : k[i] = j[i]
      n == CHOOSE n \in 0..(BITS - depth) : Common(n) /\ (n < BITS - depth => ~Common(n + 1))
      Side(b) == [k \in {k \in keys : k[depth + n + 1] = b} |-> names[k]]
      some == CHOOSE k \in keys : TRUE
  IN IF keys = {} THEN [type |-> "empty", hash |-> ZERO]
     ELSE IF n = BITS - depth
          THEN [type |-> "leaf", key |-> some, value |-> names[some], hash |-> hash_leaf(some, hash_value(names[some]))]
          ELSE LET left == Tree(Side(0), depth + n + 1)
                   right == Tree(Side(1), depth + n + 1)
                   prefix == SubSeq(some, depth + 1, depth + n)
               IN [type |-> "node", prefix |-> prefix, left |-> left, right |-> right,
                   hash |-> hash_internal(prefix, left.hash, right.hash)]

\* The proof a full node gives for a key.
RECURSIVE ProofFrom(_, _, _, _)
ProofFrom(tree, key, depth, nodes) ==
  LET Ends(body) == [depth |-> depth, nodes |-> nodes, body |-> body]
  IN CASE tree.type = "empty" -> Ends([type |-> "Deadend"])
       [] tree.type = "leaf" ->
            IF tree.key = key THEN Ends([type |-> "Exists", value |-> tree.value])
            ELSE Ends([type |-> "Collision", key |-> tree.key, value_hash |-> hash_value(tree.value)])
       [] tree.type = "node" ->
            IF ~has(tree.prefix, key, depth)
            THEN Ends([type |-> "Short", prefix |-> tree.prefix, left |-> tree.left.hash, right |-> tree.right.hash])
            ELSE LET at == depth + Len(tree.prefix) + 1
                     Goes(next, other) == ProofFrom(next, key, at, Append(nodes, [prefix |-> tree.prefix, hash |-> other.hash]))
                 IN IF key[at] = 1 THEN Goes(tree.right, tree.left) ELSE Goes(tree.left, tree.right)

\* How a full node writes it.
EncodePrefix(p) == [long |-> Len(p) >= LONG, bits |-> p]
Encode(proof) ==
  [size |-> 1, depth |-> proof.depth, count |-> Len(proof.nodes), trailing |-> FALSE,
   nodes |-> [i \in DOMAIN proof.nodes |->
                [prefix |-> IF proof.nodes[i].prefix = <<>> THEN <<>> ELSE <<EncodePrefix(proof.nodes[i].prefix)>>,
                 hash |-> proof.nodes[i].hash]],
   body |-> IF proof.body.type = "Short" THEN [proof.body EXCEPT !.prefix = EncodePrefix(proof.body.prefix)] ELSE proof.body]

-----------------------------------------------------------------------------
(* Statements.                                                             *)

\* Whatever a full node gives for a key of any tree is read back, verifies against
\* the tree's root and says what the tree says; it does not verify for another root.
HonestProofsVerify(names, key) ==
  LET tree == Tree(names, 0)
      parsed == parse_for_key(Encode(ProofFrom(tree, key, 0, <<>>)), tree.hash, key)
  IN /\ parsed # <<>>
     /\ VerifyFor(parsed[1], tree.hash)
     /\ parsed[1].kind = "Inclusion" <=> key \in DOMAIN names
     /\ parsed[1].kind = "Inclusion" => parsed[1].proof.body.value = names[key]
     /\ ~verify(parsed[1].proof, <<"other">>, key)

\* Whatever verifies against a tree's root is true of the tree: a value proved for a
\* key is the key's, and a key proved absent is absent.
VerifiedIsTrue(names, key, proof) ==
  verify(proof, Tree(names, 0).hash, key) =>
    IF kind(proof) = "Inclusion" THEN key \in DOMAIN names /\ proof.body.value = names[key] ELSE key \notin DOMAIN names

\* What is decoded is sane, from whatever bytes.
DecodedIsSane(wire) == decode(wire) # <<>> => is_sane(decode(wire)[1])

-----------------------------------------------------------------------------
(***************************************************************************)
(* The questions put to name proofs: every small set of names with every      *)
(* key, proofs put together at will from the hashes of some trees, and        *)
(* encodings around the limits.                                               *)
(***************************************************************************)

CONSTANT MaxNames             \* bound on the names of a tree


Keys == Bits(BITS)
Names(keys) == [k \in keys |-> IF k[BITS] = 0 THEN "v" ELSE "w"]
KeySets == {ToSet(s) : s \in BoundedSeq(Keys, MaxNames)}

\* Trees with leaves under one another's prefixes, for proofs put together at will.
Zero == Zeros(BITS)
LastKey == [Zero EXCEPT ![BITS] = 1]
FirstKey == [Zero EXCEPT ![1] = 1]
Targeted == {{LastKey}, {Zero, LastKey}, {Zero, LastKey, FirstKey}}
RECURSIVE Hashes(_)
Hashes(tree) == {tree.hash} \cup (IF tree.type = "node" THEN Hashes(tree.left) \cup Hashes(tree.right) ELSE {})
RECURSIVE Inner(_)
Inner(tree) == IF tree.type = "node" THEN {tree} \cup Inner(tree.left) \cup Inner(tree.right) ELSE {}
SmallPrefixes == {<<>>, <<0>>, <<1>>, <<0, 0>>, <<1, 0>>}

Nodes(tree) == BoundedSeq([prefix : SmallPrefixes, hash : Hashes(tree) \cup {<<"junk">>}], 2)
Bodies(tree) ==
  {[type |-> "Deadend"]}
  \cup {[type |-> "Short", prefix |-> p, left |-> IF turned THEN n.right.hash ELSE n.left.hash,
         right |-> IF turned THEN n.left.hash ELSE n.right.hash] :
          p \in SmallPrefixes \ {<<>>}, n \in Inner(tree), turned \in BOOLEAN}
  \cup [type : {"Collision"}, key : Keys, value_hash : {hash_value("v"), hash_value("w")}]
  \cup [type : {"Exists"}, value : {"v", "w"}]

AskHonest == \E keys \in KeySets, key \in Keys : input' = [ask |-> "honest", names |-> Names(keys), key |-> key]
AskForged ==
  \E keys \in Targeted, key \in {Zero, LastKey, FirstKey, [Zero EXCEPT ![2] = 1]}, depth \in 0..BITS :
    \E nodes \in Nodes(Tree(Names(keys), 0)) :
      input' = [ask |-> "forged", names |-> Names(keys), key |-> key, depth |-> depth, nodes |-> nodes]
WirePrefixes == [long : BOOLEAN, bits : {<<>>, <<0>>, <<0, 1>>, Zeros(BITS), Zeros(BITS + 1)}]
AskWire ==
  \E size \in {MAX_PROOF_SIZE, MAX_PROOF_SIZE + 1}, depth \in {0, BITS, BITS + 1}, counted \in {0, 1, BITS + 1},
     n \in {0, 1, BITS + 1}, trailing \in BOOLEAN, p \in WirePrefixes, body \in WirePrefixes, short \in BOOLEAN :
    input' = [ask |-> "wire",
              wire |-> [size |-> size, depth |-> depth, count |-> counted, trailing |-> trailing,
                        nodes |-> [i \in 1..n |-> [prefix |-> IF i = 1 THEN <<p>> ELSE <<>>, hash |-> ZERO]],
                        body |-> IF short THEN [type |-> "Short", prefix |-> body, left |-> ZERO, right |-> ZERO]
                                 ELSE [type |-> "Deadend"]]]
AskUrkel == AskHonest \/ AskForged \/ AskWire

\* A proof is accepted exactly for what the committed tree holds: full nodes' proofs
\* always are, and no other proof shows a name, a value or an absence the tree does
\* not have (HonestProofsVerify, VerifiedIsTrue, DecodedIsSane).
NameProofsAreExact ==
  /\ input.ask = "honest" => HonestProofsVerify(input.names, input.key)
  /\ input.ask = "forged" =>
       \A body \in Bodies(Tree(input.names, 0)) :
         VerifiedIsTrue(input.names, input.key, [depth |-> input.depth, nodes |-> input.nodes, body |-> body])
  /\ input.ask = "wire" => DecodedIsSane(input.wire)
=============================================================================
