----------------------------- MODULE SecureCache -----------------------------
(***************************************************************************)
(* hns-cache SecureCache: the bounded cache of positive and authenticated  *)
(* negative results, each bound to the authority generation it was         *)
(* produced under.                                                         *)
(*                                                                         *)
(* A CacheGeneration is one value, a key any value a caller derives (the   *)
(* derivation hashes the generation too, but nothing makes a caller ask    *)
(* with the generation it derived from).  Time is an argument and need not *)
(* be monotone.  Counters of hits, misses and removals saturate and decide *)
(* nothing; they are left out.                                             *)
(***************************************************************************)
EXTENDS Integers, Sequences, FiniteSets, FiniteSetsExt, TLAPS

CONSTANTS Key, Value, Generation,
          Size,               \* value_bytes callers report
          Ttl,                \* ttl_seconds callers ask for
          MaxEntries, MaxTotalValueBytes, MaxValueBytes,
          MaxPositiveTtl, MaxNegativeTtl,
          CacheMaxNow,             \* bound on the times callers pass
          CacheMaxTime,            \* u64::MAX of a time
          MaxSequence,        \* u64::MAX of the LRU sequence
          NoEntry

\* CacheLimits::validate
ASSUME CacheLimitsAssumption ==
    /\ MaxEntries \in Nat \ {0}
    /\ MaxTotalValueBytes \in Nat \ {0}
    /\ MaxValueBytes \in 1..MaxTotalValueBytes
    /\ MaxPositiveTtl \in Nat \ {0}
    /\ MaxNegativeTtl \in Nat \ {0}

\* An admission is not the absent one.
ASSUME AdmissionAssumption ==
    \A v \in Value, g \in Generation, d \in {"Positive", "Negative"}, end \in 0..CacheMaxTime :
        NoEntry # [value |-> v, generation |-> g, disposition |-> d, expires_at |-> end]

VARIABLES entries,            \* SecureCache.entries, NoEntry where absent
          sequence,           \* SecureCache.sequence
          value_bytes,        \* CacheStats.value_bytes
          read,               \* what the last get returned
          written,            \* history: the admission of each key's value
          recency             \* history: resident keys, oldest use first

cacheVars == <<entries, sequence, value_bytes, read, written, recency>>

-----------------------------------------------------------------------------
Resident == {k \in Key : entries[k] # NoEntry}

CacheInit ==
    /\ entries = [k \in Key |-> NoEntry]
    /\ sequence = 0
    /\ value_bytes = 0
    /\ read = NoEntry
    /\ written = [k \in Key |-> NoEntry]
    /\ recency = <<>>

Bytes(keys) == MapThenSumSet(LAMBDA k : entries[k].value_bytes, keys)

\* stats.value_bytes after remove_internal on each of `keys' (saturating_sub)
Released(keys) == Max({0, value_bytes - Bytes(keys)})

Without(keys) == [k \in Key |-> IF k \in keys THEN NoEntry ELSE entries[k]]

\* remove_expired
Expired(now) == {k \in Resident : now >= entries[k].expires_at}

\* `live' without its least recently used entries, as few of them as leave
\* room for `bytes' more and one more entry: where the eviction loop stops.
Survivors(live, bytes) ==
    LET NewerThan(k) ==
            {j \in live : entries[j].last_access >= entries[k].last_access}
        Fits(keys) ==
            /\ Cardinality(keys) < MaxEntries
            /\ Released(Resident \ keys) + bytes <= MaxTotalValueBytes
    IN  UNION {keys \in {NewerThan(k) : k \in live} : Fits(keys)}

MaximumTtl(disposition) ==
    IF disposition = "Positive" THEN MaxPositiveTtl ELSE MaxNegativeTtl

Forget(keys) == SelectSeq(recency, LAMBDA k : k \notin keys)

\* next_sequence
NextSequence == sequence < MaxSequence /\ sequence' = sequence + 1

\* Mutant of Occupied: a replaced entry does not release its bytes.
OccupiedLeaks(gone, k, bytes) == Released(gone \ {k}) + bytes

Occupied(gone, k, bytes) == Released(gone) + bytes

\* insert, for an admission that passes the checks before next_sequence;
\* one that fails them changes nothing.
Insert(k, value, bytes, disposition, g, now, ttl) ==
    LET live == Resident \ (Expired(now) \cup {k})
        kept == Survivors(live, bytes)
        gone == Resident \ kept
    IN  /\ bytes \in 1..MaxValueBytes
        /\ ttl \in 1..MaximumTtl(disposition)
        /\ now + ttl <= CacheMaxTime
        /\ NextSequence
        /\ value_bytes' = Occupied(gone, k, bytes)
        /\ entries' = [Without(gone) EXCEPT ![k] =
              [value |-> value, value_bytes |-> bytes, generation |-> g,
               disposition |-> disposition, expires_at |-> now + ttl,
               last_access |-> sequence']]
        /\ written' = [j \in Key |->
              IF j = k THEN [value |-> value, generation |-> g,
                             disposition |-> disposition,
                             expires_at |-> now + ttl]
              ELSE IF j \in gone THEN NoEntry ELSE written[j]]
        /\ recency' = Append(Forget(gone \cup {k}), k)
        /\ UNCHANGED read

RemoveInternal(k) ==
    /\ entries' = Without({k})
    /\ value_bytes' = Released({k})
    /\ written' = [written EXCEPT ![k] = NoEntry]
    /\ recency' = Forget({k})

\* Mutant of Usable: whose generation it was is not asked.
UsableAnyGeneration(entry, g, now) == now < entry.expires_at

Usable(entry, g, now) == entry.generation = g /\ now < entry.expires_at

Touched(k) == [entries EXCEPT ![k].last_access = sequence + 1]

\* get of a usable entry
GetHit(k, g, now) ==
    /\ k \in Resident
    /\ Usable(entries[k], g, now)
    /\ NextSequence
    /\ entries' = Touched(k)
    /\ read' = [key |-> k, generation |-> g, now |-> now,
                value |-> entries[k].value,
                disposition |-> entries[k].disposition,
                written |-> written[k]]
    /\ recency' = Append(Forget({k}), k)
    /\ UNCHANGED <<value_bytes, written>>

\* get of an absent, foreign or expired entry: the entry goes
GetMiss(k, g, now) ==
    /\ read # NoEntry \/ k \in Resident
    /\ read' = NoEntry
    /\ \/ /\ k \notin Resident
          /\ UNCHANGED <<entries, value_bytes, written, recency>>
       \/ /\ k \in Resident
          /\ ~Usable(entries[k], g, now)
          /\ RemoveInternal(k)
    /\ UNCHANGED sequence

Clear ==
    /\ Resident # {}
    /\ entries' = [k \in Key |-> NoEntry]
    /\ value_bytes' = 0
    /\ written' = [k \in Key |-> NoEntry]
    /\ recency' = <<>>
    /\ UNCHANGED <<sequence, read>>

Remove(k) ==
    /\ k \in Resident
    /\ RemoveInternal(k)
    /\ UNCHANGED <<sequence, read>>

CacheNext ==
    \/ Clear
    \/ \E k \in Key :
          \/ Remove(k)
          \/ \E g \in Generation, now \in 0..CacheMaxNow :
                \/ GetHit(k, g, now)
                \/ GetMiss(k, g, now)
                \/ \E v \in Value, b \in Size, t \in Ttl,
                      d \in {"Positive", "Negative"} :
                         Insert(k, v, b, d, g, now, t)

CacheSpec == CacheInit /\ [][CacheNext]_cacheVars

-----------------------------------------------------------------------------
(* Properties.                                                             *)

\* CacheLimits bounds what is resident; stats.value_bytes, on which the eviction
\* loop decides, is exactly the bytes resident and never drifts through
\* replacement, expiry, eviction and removal; and last_access orders the entries
\* by their last use, so evict_lru never takes one that was used after one that
\* stays.
EvictsOldestFirst ==
    /\ Cardinality(Resident) <= MaxEntries
    /\ value_bytes = Bytes(Resident)
    /\ value_bytes <= MaxTotalValueBytes
    /\ {recency[i] : i \in DOMAIN recency} = Resident
    /\ \A i, j \in DOMAIN recency :
          i < j => entries[recency[i]].last_access
                     < entries[recency[j]].last_access

\* get returns the value last inserted for the key, under the generation it
\* was inserted under, before the end of its lifetime; what was removed,
\* evicted or replaced in between is not returned again.
ReadsAreSound ==
    read # NoEntry =>
        /\ read.written # NoEntry
        /\ read.value = read.written.value
        /\ read.disposition = read.written.disposition
        /\ read.generation = read.written.generation
        /\ read.now < read.written.expires_at

-----------------------------------------------------------------------------
(***************************************************************************)
(* Proof of ReadsAreSound.  A read is of the entry that is resident, so    *)
(* every entry, however often it was touched and whatever was evicted      *)
(* around it, has to be the one last admitted under its key.               *)
(***************************************************************************)
EntryField == {"value", "generation", "disposition", "expires_at", "last_access"}

EntryIsAdmitted(entry, admitted) ==
    /\ EntryField \subseteq DOMAIN entry
    /\ admitted # NoEntry
    /\ entry.value = admitted.value
    /\ entry.generation = admitted.generation
    /\ entry.disposition = admitted.disposition
    /\ entry.expires_at = admitted.expires_at

Admitted ==
    /\ DOMAIN entries = Key /\ DOMAIN written = Key
    /\ \A k \in Key : entries[k] # NoEntry => EntryIsAdmitted(entries[k], written[k])

\* insert admits what it stores, and whatever it evicts is forgotten.
LEMMA InsertAdmits ==
    ASSUME Admitted, NEW k \in Key, NEW v \in Value, NEW b, NEW d \in {"Positive", "Negative"},
           NEW g \in Generation, NEW now \in Nat, NEW t, Insert(k, v, b, d, g, now, t)
    PROVE  Admitted'
<1> PICK gone : /\ entries' = [Without(gone) EXCEPT ![k] =
                      [value |-> v, value_bytes |-> b, generation |-> g,
                       disposition |-> d, expires_at |-> now + t, last_access |-> sequence']]
                /\ written' = [j \in Key |->
                      IF j = k THEN [value |-> v, generation |-> g, disposition |-> d,
                                     expires_at |-> now + t]
                      ELSE IF j \in gone THEN NoEntry ELSE written[j]]
  BY Zenon DEF Insert
<1>1. now + t \in 0..CacheMaxTime
  BY CacheLimitsAssumption DEF Insert, MaximumTtl
<1>2. DOMAIN entries' = Key /\ DOMAIN written' = Key
  BY DEF Without
<1>3. EntryIsAdmitted(entries'[k], written'[k])
  BY <1>1, AdmissionAssumption DEF EntryIsAdmitted, EntryField, Without
<1>4. ASSUME NEW j \in Key, j # k, entries'[j] # NoEntry
      PROVE  EntryIsAdmitted(entries'[j], written'[j])
  <2>1. j \notin gone /\ entries'[j] = entries[j] /\ written'[j] = written[j]
    BY <1>4 DEF Without
  <2> QED
    BY <1>4, <2>1, Zenon DEF Admitted
<1> QED
  BY <1>2, <1>3, <1>4, Zenon DEF Admitted

\* A removal forgets the entry and its admission.
LEMMA RemovalAdmits ==
    ASSUME Admitted, NEW k \in Key, RemoveInternal(k)
    PROVE  Admitted'
BY DEF RemoveInternal, Without, Admitted

\* get of a usable entry returns what was admitted, under its generation and
\* within its lifetime, and moves nothing but the time of its last use.
LEMMA HitReads ==
    ASSUME Admitted, NEW k \in Key, NEW g \in Generation, NEW now \in Nat, GetHit(k, g, now)
    PROVE  Admitted' /\ ReadsAreSound'
<1>1. entries[k] # NoEntry /\ EntryIsAdmitted(entries[k], written[k])
  BY DEF GetHit, Resident, Admitted
<1>2. ReadsAreSound'
  BY <1>1 DEF GetHit, Usable, ReadsAreSound, EntryIsAdmitted
<1>3. /\ DOMAIN entries' = Key /\ written' = written
      /\ \A j \in Key : j # k => entries'[j] = entries[j]
      /\ entries'[k] = [entries[k] EXCEPT !.last_access = sequence + 1]
  BY DEF GetHit, Touched, Admitted
<1>4. EntryIsAdmitted(entries'[k], written[k])
  BY <1>1, <1>3 DEF EntryIsAdmitted, EntryField
<1> QED
  BY <1>2, <1>3, <1>4 DEF Admitted

\* Every step keeps the admissions and reads what was admitted.
LEMMA CacheStep ==
    ASSUME Admitted, ReadsAreSound, CacheNext
    PROVE  Admitted' /\ ReadsAreSound'
<1>1. CASE Clear
  BY <1>1 DEF Clear, Admitted, ReadsAreSound
<1>2. ASSUME NEW k \in Key, Remove(k) PROVE Admitted' /\ ReadsAreSound'
  <2>1. Admitted'
    BY <1>2, RemovalAdmits DEF Remove
  <2> QED
    BY <1>2, <2>1 DEF Remove, ReadsAreSound
<1>3. ASSUME NEW k \in Key, NEW g \in Generation, NEW now \in 0..CacheMaxNow, GetMiss(k, g, now)
      PROVE  Admitted' /\ ReadsAreSound'
  <2>1. Admitted'
    BY <1>3, RemovalAdmits DEF GetMiss, Admitted
  <2> QED
    BY <1>3, <2>1 DEF GetMiss, ReadsAreSound
<1>4. ASSUME NEW k \in Key, NEW g \in Generation, NEW now \in 0..CacheMaxNow, NEW v \in Value,
             NEW b \in Size, NEW t \in Ttl, NEW d \in {"Positive", "Negative"},
             Insert(k, v, b, d, g, now, t)
      PROVE  Admitted' /\ ReadsAreSound'
  <2>1. Admitted'
    BY <1>4, InsertAdmits
  <2>2. read' = read
    BY <1>4, Zenon DEF Insert
  <2> QED
    BY <2>1, <2>2 DEF ReadsAreSound
<1>5. ASSUME NEW k \in Key, NEW g \in Generation, NEW now \in 0..CacheMaxNow, GetHit(k, g, now)
      PROVE  Admitted' /\ ReadsAreSound'
  BY <1>5, HitReads
<1> QED
  BY <1>1, <1>2, <1>3, <1>4, <1>5, Zenon DEF CacheNext

\* Whatever get returns was admitted last under its key, under the generation asked
\* for and within its lifetime, for every limit, size and sequence of calls.
THEOREM ReadSafety == CacheSpec => []ReadsAreSound
<1>1. CacheInit => Admitted /\ ReadsAreSound
  BY DEF CacheInit, Admitted, ReadsAreSound
<1>2. Admitted /\ ReadsAreSound /\ UNCHANGED cacheVars => (Admitted /\ ReadsAreSound)'
  BY DEF cacheVars, Admitted, ReadsAreSound
<1>3. Admitted /\ ReadsAreSound /\ [CacheNext]_cacheVars => (Admitted /\ ReadsAreSound)'
  BY <1>2, CacheStep
<1> QED
  BY <1>1, <1>3, PTL DEF CacheSpec
=============================================================================
