---------------------------- MODULE MCResolution ----------------------------
(***************************************************************************)
(* Resolution and the resolver's memory for TLC.  A behaviour is of one of *)
(* these, as `part' says: a delegated resolution ("call") and the client   *)
(* of relaying peers (DelegatedResolution); the table of resource values,  *)
(* the cache of answers above it and the LRU (ResolverCaches); the secure  *)
(* cache (SecureCache).  Keys, generations and queries are told apart only *)
(* by equality: the first to be used is always the same.                   *)
(***************************************************************************)
EXTENDS SecureCache

CONSTANTS Parts,
          MaxCnameChain,
          Name, Anchor, Limit, TableMaxNow,
          Caller, AnswerTtl, MaxFlight, AnswerMaxNow,
          Peer, Reliable, ProofPeer, Query, MaxConnections, AlternateRetries,
          HandshakeBudget, MaxPackets, Cooldown, Ban, MaxCalls, MaxQueue, RelayMaxTime,
          LruTtl, LruMaxNow, MaxUses

VARIABLES part,
          world, job, clock, connections, cooldowns, banned, pending, call, issued, reported,
          table, table_now, row, answer, lifetime, flight, answer_now, held, served,
          lru_entries, order, lru_now, lru_read, lru_written, uses, used

callVars == <<world, job>>
relayVars == <<clock, connections, cooldowns, banned, pending, call, issued, reported>>
tableVars == <<table, table_now>>
answerVars == <<row, answer, lifetime, flight, answer_now, held, served>>
lruVars == <<lru_entries, order, lru_now, lru_read, lru_written, uses, used>>

\* Two peers share an address group.
Group == [p \in Peer |-> IF p = "p3" THEN 2 ELSE 1]

Setup(doh, relay, declared, endpoints, servers) ==
    [doh |-> doh, relay |-> relay, declared |-> declared,
     endpoints |-> endpoints, servers |-> servers]

\* Endpoints and servers in every order, with a server that works behind
\* others that need not, addresses that policy refuses, and a relay.
Setups ==
    {Setup("off", FALSE, TRUE, <<>>, <<>>),
     Setup("off", FALSE, TRUE, <<>>, <<"private", "public">>),
     Setup("off", FALSE, TRUE, <<>>, <<"public", "honest">>),
     Setup("after", FALSE, TRUE, <<"public">>, <<"public">>),
     Setup("first", FALSE, TRUE, <<"public">>, <<"honest">>),
     Setup("first", FALSE, TRUE, <<"private">>, <<"public", "honest">>),
     Setup("first", FALSE, FALSE, <<>>, <<"public">>),
     Setup("off", TRUE, TRUE, <<>>, <<"private", "public">>),
     Setup("off", TRUE, TRUE, <<>>, <<"private">>),
     Setup("first", TRUE, TRUE, <<"public">>, <<"public">>)}

ChildLists ==
    {<<>>, <<"public">>, <<"public", "public">>, <<"private", "public">>}

D == INSTANCE DelegatedResolution WITH MaxTime <- RelayMaxTime
C == INSTANCE ResolverCaches
       WITH LruKey <- Key, LruValue <- {"v1", "v2"}, LruMaxEntries <- MaxEntries, None <- NoEntry,
            entries <- lru_entries, read <- lru_read, written <- lru_written

Init ==
    /\ part \in Parts
    /\ CacheInit
    /\ D!ResolutionInit /\ D!RelayInit
    /\ C!TableInit /\ C!AnswerInit /\ C!LruInit
    /\ part # "answers" => lifetime = 0
    /\ part # "call" => world = CHOOSE w \in D!Worlds : TRUE

Others(mine) ==
    /\ UNCHANGED part
    /\ mine # "call" => UNCHANGED callVars
    /\ mine # "relay" => UNCHANGED relayVars
    /\ mine # "values" => UNCHANGED tableVars
    /\ mine # "answers" => UNCHANGED answerVars
    /\ mine # "lru" => UNCHANGED lruVars
    /\ mine # "cache" => UNCHANGED cacheVars

\* What the first to be used is, where it makes no difference.
FirstUse == order' = <<"k1">> /\ lru_entries'["k1"].value = "v1"
\* What replaces a value is another value.
Alternating ==
    \A k \in Key : written'[k] # NoEntry /\ written'[k] # written[k] =>
        written'[k].value = IF written[k] = NoEntry \/ written[k].value = "v2" THEN "v1" ELSE "v2"
FirstStored == recency' = <<"k1">> /\ entries'["k1"].generation = "g1"

Next ==
    \/ part = "call" /\ D!ResolutionNext /\ Others("call")
    \/ part = "relay" /\ D!RelayNext /\ Others("relay") /\ (call'.pc # "idle" /\ issued = 0 => call'.query = "q1")
    \/ part = "values" /\ C!TableNext /\ Others("values")
    \/ part = "answers" /\ C!AnswerNext /\ Others("answers")
    \/ part = "lru" /\ C!LruNext /\ Others("lru") /\ (uses = 0 /\ uses' = 1 => FirstUse)
    \/ part = "cache" /\ CacheNext /\ Others("cache") /\ Alternating /\ (sequence = 0 /\ sequence' = 1 => FirstStored)

MCVars == <<part, cacheVars, callVars, relayVars, tableVars, answerVars, lruVars>>
Spec == Init /\ [][Next]_MCVars

\* Whatever the network says, a secure answer is exactly what the zone published; one
\* honest server is enough for an answer, whoever is asked before it; and a relayed
\* answer is the answer to its query (DelegatedResolution!AnswersAreAuthentic,
\* OneHonestServerIsEnough, RelayExchangesAgree).
ResolutionsHold ==
    /\ part = "call" => D!AnswersAreAuthentic /\ D!OneHonestServerIsEnough
    /\ part = "relay" => D!RelayExchangesAgree

\* A transport failure never hides a stronger failure seen before it
\* (DelegatedResolution!NoFailureIsErased).
NoFailureIsErased == part = "call" => D!NoFailureIsErased

\* Memory is bounded in size and in time: the byte limit keeps exactly the newest rows
\* that fit, an answer whose row is gone soon goes too, and the LRU keeps the most
\* recently used of the live entries (ResolverCaches!NewestAreKept,
\* StaleAnswersExpire, QueueIsByUse, ReadsAreLive).
RemembersWithinBounds ==
    /\ part = "values" => C!NewestAreKept
    /\ part = "answers" => C!StaleAnswersExpire
    /\ part = "lru" => C!QueueIsByUse /\ C!ReadsAreLive
=============================================================================
