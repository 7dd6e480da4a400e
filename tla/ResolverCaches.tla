--------------------------- MODULE ResolverCaches ---------------------------
(***************************************************************************)
(* SqliteResourceValueProvider of hns-browser-resolver: the table of       *)
(* verified resource values, one row per root name.  A name stands for its *)
(* root and its hash, a value for its length (0 for a proven absence), an  *)
(* anchor for its tree root and height (0 for none).                       *)
(***************************************************************************)
EXTENDS Integers, FiniteSets, FiniteSetsExt, Sequences, SequencesExt

CONSTANTS
    Anchor,          \* anchors of proofs, positive
    Name,            \* root names, numbered in their order as text
    Size,            \* lengths of resource values, positive
    Limit,           \* byte limits that a host enforces
    TableMaxNow      \* bound on the clock of the model

VARIABLES
    table,           \* verified_resource_values: name |-> row, or NoRow
    table_now        \* unixepoch()

table_vars == <<table, table_now>>

NoRow == [length |-> -1, anchor |-> 0, at |-> 0]

Rows(t) == {n \in Name : t[n] # NoRow}

\* COALESCE(length(value), 0), summed over the rows
total_value_bytes(t) == FoldSet(LAMBDA n, sum : t[n].length + sum, 0, Rows(t))

\* ORDER BY updated_at_unix, root_name, name_hash
Older(t, a, b) == t[a].at < t[b].at \/ (t[a].at = t[b].at /\ a < b)

\* oldest_resource_value_entry, of a table that is not empty
oldest_resource_value_entry(t) ==
    CHOOSE n \in Rows(t) : \A m \in Rows(t) \ {n} : Older(t, n, m)

Without(t, names) == [n \in Name |-> IF n \in names THEN NoRow ELSE t[n]]

\* The loop of enforce_value_byte_limit, which takes the length of each row it
\* deletes off the total it began with.
RECURSIVE EvictFrom(_, _, _)
EvictFrom(t, total, limit) ==
    IF total <= limit \/ Rows(t) = {} THEN t
    ELSE LET n == oldest_resource_value_entry(t)
         IN  EvictFrom(Without(t, {n}), Max({total - t[n].length, 0}), limit)

-----------------------------------------------------------------------------
TableInit == table = [n \in Name |-> NoRow] /\ table_now = 1

\* insert: the row of a name is replaced, whatever it was anchored to.
TableInsert(n, length, anchor) ==
    /\ table' = [table EXCEPT ![n] =
                   [length |-> length, anchor |-> anchor, at |-> table_now]]
    /\ UNCHANGED table_now

enforce_value_byte_limit(limit) ==
    /\ table' = EvictFrom(table, total_value_bytes(table), limit)
    /\ UNCHANGED table_now

\* prune_invalid_anchors: after the chain has moved, in one transaction.
prune_invalid_anchors(valid, unanchored) ==
    /\ table' = Without(table, {n \in Rows(table) :
                    IF table[n].anchor = 0 THEN unanchored
                    ELSE table[n].anchor \notin valid})
    /\ UNCHANGED table_now

TableClear ==
    /\ table' = [n \in Name |-> NoRow]
    /\ UNCHANGED table_now

TableTick ==
    /\ table_now < TableMaxNow
    /\ table_now' = table_now + 1
    /\ UNCHANGED table

TableNext ==
    \/ \E n \in Name, length \in Size \cup {0}, anchor \in Anchor \cup {0} :
           TableInsert(n, length, anchor)
    \/ \E limit \in Limit : enforce_value_byte_limit(limit)
    \/ \E valid \in SUBSET Anchor, unanchored \in BOOLEAN :
           prune_invalid_anchors(valid, unanchored)
    \/ TableClear
    \/ TableTick

TableSpec == TableInit /\ [][TableNext]_table_vars

-----------------------------------------------------------------------------
(* Properties *)

\* Enforcing a limit keeps exactly the rows that fit together with every row that
\* is newer, whatever was replaced, pruned or inserted in the same second before: no
\* old row is kept at the expense of a new one, none goes that could stay, and an
\* absence, which has no bytes, stays with whatever is newer
\* (enforce_value_byte_limit).
NewestAreKept ==
    \A limit \in Limit :
        LET newer(n) == {m \in Rows(table) : ~Older(table, m, n)}
        IN  Rows(EvictFrom(table, total_value_bytes(table), limit))
              = {n \in Rows(table) : MapThenSumSet(LAMBDA m : table[m].length, newer(n)) <= limit}

-----------------------------------------------------------------------------
(***************************************************************************)
(* CachedResolver of hns-browser-resolver over the resource values of one  *)
(* root name.  A caller that misses the cache reads the row without        *)
(* holding the lock of the cache, resolves for as long as its exchanges    *)
(* take, and inserts what it found; the row is replaced or pruned          *)
(* meanwhile.  A row, and the answer made from it, stand for the anchor of *)
(* its proof.                                                              *)
(***************************************************************************)

CONSTANTS
    Caller,
    AnswerTtl,       \* lifetimes of answers; ExpiringLru refuses 0
    MaxFlight,       \* the longest a resolution takes
    AnswerMaxNow           \* bound on the clock of the model

VARIABLES
    row,             \* the anchor of the row, 0 without one
    answer,          \* the entry of the cache, or NoAnswer
    lifetime,        \* CachedResolver.ttl
    flight,          \* caller |-> the resolution it is in, or Idle
    answer_now,
    held,            \* history: anchor |-> when the row last had it
    served           \* history: the answer returned last, and when

answer_vars == <<row, answer, lifetime, flight, answer_now, held, served>>

NoAnswer == [anchor |-> 0, expires |-> 0]
Idle == [anchor |-> 0, since |-> 0]

AnswerInit ==
    /\ row = 0
    /\ answer = NoAnswer
    /\ lifetime \in AnswerTtl
    /\ flight = [c \in Caller |-> Idle]
    /\ answer_now = 1
    /\ held = [a \in Anchor |-> 0]
    /\ served = [anchor |-> 0, at |-> 0]

Hold(anchor, time) == [a \in Anchor |-> IF a = anchor THEN time ELSE held[a]]

\* The row is inserted, replaced, or taken out by a limit, a pruning or clear.
Replace(anchor) ==
    /\ row' = anchor
    /\ held' = Hold(anchor, answer_now)
    /\ UNCHANGED <<answer, lifetime, flight, answer_now, served>>

Live == answer # NoAnswer /\ answer.expires > answer_now

\* Mutant: a hit renews the lifetime.
HitRenews(c) ==
    /\ flight[c] = Idle
    /\ Live
    /\ answer' = [answer EXCEPT !.expires = answer_now + lifetime]
    /\ served' = [anchor |-> answer.anchor, at |-> answer_now]
    /\ UNCHANGED <<row, lifetime, flight, answer_now, held>>

Hit(c) ==
    /\ flight[c] = Idle
    /\ Live
    /\ served' = [anchor |-> answer.anchor, at |-> answer_now]
    /\ UNCHANGED <<row, answer, lifetime, flight, answer_now, held>>

\* get drops an entry that has expired.  The inner resolver reads the row; if
\* there is none its error is returned and not remembered.
Miss(c) ==
    /\ flight[c] = Idle
    /\ ~Live
    /\ answer' = NoAnswer
    /\ flight' = IF row = 0 THEN flight
                 ELSE [flight EXCEPT ![c] = [anchor |-> row, since |-> answer_now]]
    /\ UNCHANGED <<row, lifetime, answer_now, held, served>>

\* An answer, or that the name does not exist, is remembered for the lifetime; an
\* insert that fails clears the cache, and the answer is returned all the same.
Resolved(c) ==
    /\ flight[c] # Idle
    /\ answer' = IF lifetime = 0 THEN NoAnswer ELSE [anchor |-> flight[c].anchor, expires |-> answer_now + lifetime]
    /\ served' = [anchor |-> flight[c].anchor, at |-> answer_now]
    /\ flight' = [flight EXCEPT ![c] = Idle]
    /\ UNCHANGED <<row, lifetime, answer_now, held>>

\* Any other error is returned and not remembered.
Failed(c) ==
    /\ flight[c] # Idle
    /\ flight' = [flight EXCEPT ![c] = Idle]
    /\ UNCHANGED <<row, answer, lifetime, answer_now, held, served>>

AnswerTick ==
    /\ answer_now < AnswerMaxNow
    /\ \A c \in Caller : flight[c] # Idle => answer_now < flight[c].since + MaxFlight
    /\ answer_now' = answer_now + 1
    /\ held' = Hold(row, answer_now')
    /\ UNCHANGED <<row, answer, lifetime, flight, served>>

AnswerNext ==
    \/ \E anchor \in Anchor \cup {0} : Replace(anchor)
    \/ \E c \in Caller : Hit(c) \/ Miss(c) \/ Resolved(c) \/ Failed(c)
    \/ AnswerTick

AnswerSpec == AnswerInit /\ [][AnswerNext]_answer_vars

-----------------------------------------------------------------------------
(* Properties *)

\* An answer outlives the row it was made from, replaced or pruned because the
\* chain no longer has its anchor, by less than one resolution and one
\* lifetime, however the callers and the replacements interleave; where nothing
\* is remembered, by no more than the resolution.
StaleAnswersExpire ==
    served.at # 0 =>
        served.at < held[served.anchor] + MaxFlight + Max({lifetime, 1})

-----------------------------------------------------------------------------
(***************************************************************************)
(* hns-cache ExpiringLru: the process-local cache of connection plans and  *)
(* delegated answers, a table of expiring entries beside a queue of their  *)
(* keys in order of use.                                                   *)
(*                                                                         *)
(* Instants never run backwards, but insert reads the clock twice, for the *)
(* deadline and for the pruning, and time may pass in between.             *)
(***************************************************************************)

CONSTANTS LruKey, LruValue,
          LruTtl,                \* lifetimes callers ask for
          LruMaxEntries,
          LruMaxNow,             \* bound on the clock of the model
          MaxUses,            \* bound on the inserts and hits
          None

VARIABLES entries,            \* ExpiringLru.entries, None where absent
          order,              \* ExpiringLru.order, next victim first
          lru_now,                \* Instant::lru_now()
          read,               \* what the last get returned
          written,            \* history: what each key was inserted with last
          uses,               \* history: inserts and hits so far
          used                \* history: the use each key was last part of

lru_vars == <<entries, order, lru_now, read, written, uses, used>>

-----------------------------------------------------------------------------
Resident == {k \in LruKey : entries[k] # None}

LruInit ==
    /\ entries = [k \in LruKey |-> None]
    /\ order = <<>>
    /\ lru_now = 0
    /\ read = None
    /\ written = [k \in LruKey |-> None]
    /\ uses = 0
    /\ used = [k \in LruKey |-> 0]

Only(keys) == [k \in LruKey |-> IF k \in keys THEN entries[k] ELSE None]

\* prune_expired at time t: what stays of the table, and of the queue
Unexpired(t) == {k \in Resident : entries[k].expires_at > t}
Pruned(t) == SelectSeq(order, LAMBDA k : k \in Unexpired(t))

\* promote
Promote(queue, k) == Append(SelectSeq(queue, LAMBDA j : j # k), k)

Fits(keys) == Cardinality(keys) <= LruMaxEntries

\* How many keys evict_over_limit takes off the front of the queue.
Victims(queue, keys) ==
    LET Rest(n) == keys \ {queue[i] : i \in 1..n}
    IN  CHOOSE n \in 0..Len(queue) :
            /\ Fits(Rest(n)) \/ n = Len(queue)
            /\ \A m \in 0..(n - 1) : ~Fits(Rest(m))

Use(k) ==
    /\ uses < MaxUses
    /\ uses' = uses + 1
    /\ used' = [used EXCEPT ![k] = uses']

\* insert; the entries are pruned at time t
LruInsert(k, value, ttl, t) ==
    LET entry == [value |-> value, expires_at |-> lru_now + ttl]
        queue == Promote(Pruned(t), k)
        keys == Unexpired(t) \cup {k}
        n == Victims(queue, keys)
        kept == keys \ {queue[i] : i \in 1..n}
    IN  /\ ttl > 0
        /\ Use(k)
        /\ lru_now' = t
        /\ entries' = [j \in LruKey |-> IF j \notin kept THEN None
                                     ELSE IF j = k THEN entry ELSE entries[j]]
        /\ order' = SubSeq(queue, n + 1, Len(queue))
        /\ written' = [written EXCEPT ![k] = entry]
        /\ UNCHANGED read

\* get of a live entry
GetHit(k, t) ==
    /\ k \in Unexpired(t)
    /\ Use(k)
    /\ lru_now' = t
    /\ entries' = Only(Unexpired(t))
    /\ order' = Promote(Pruned(t), k)
    /\ read' = [value |-> entries[k].value, now |-> t, written |-> written[k]]
    /\ UNCHANGED written

\* get of any other key, len and is_empty prune and change nothing else
LruMiss(t) ==
    /\ lru_now' = t
    /\ entries' = Only(Unexpired(t))
    /\ order' = Pruned(t)
    /\ UNCHANGED <<read, written, uses, used>>

LruClear ==
    /\ entries' = [k \in LruKey |-> None]
    /\ order' = <<>>
    /\ UNCHANGED <<lru_now, read, written, uses, used>>

LruNext ==
    \/ LruClear
    \/ \E t \in lru_now..LruMaxNow :
          \/ LruMiss(t)
          \/ \E k \in LruKey :
                \/ GetHit(k, t)
                \/ \E v \in LruValue, ttl \in LruTtl : LruInsert(k, v, ttl, t)

LruSpec == LruInit /\ [][LruNext]_lru_vars

-----------------------------------------------------------------------------
(* Properties.                                                             *)

\* The queue lists every resident key once and no other, least recent use
\* first (inserts and hits are uses), so that evict_over_limit finds the right
\* victim for every entry too many, and no more than max_entries survive.
QueueIsByUse ==
    /\ IsInjective(order)
    /\ ToSet(order) = Resident
    /\ Cardinality(Resident) <= LruMaxEntries
    /\ \A i, j \in DOMAIN order : i < j => used[order[i]] < used[order[j]]

\* get returns what was inserted last under its key, and only before its
\* deadline; in particular never a value that a later insert replaced.
ReadsAreLive ==
    read # None =>
        /\ read.value = read.written.value
        /\ read.now < read.written.expires_at
=============================================================================
