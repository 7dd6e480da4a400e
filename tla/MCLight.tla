------------------------------ MODULE MCLight -------------------------------
(***************************************************************************)
(* The light client for TLC.  Each behaviour is about one part.            *)
(* HeaderSync has two regimes: "agreement", a fork after genesis whose     *)
(* branches have equal work, one of them with a heavier continuation,      *)
(* where heights and restarts play no part and a third round begins only   *)
(* where it may reorganise the other branch away or find the chain whole;  *)
(* and "currency", a single header, with peers that announce it before and *)
(* after they send it, and a restart.  Its peers are interchangeable.  The *)
(* other parts are the header chain, a session with one peer, and the      *)
(* evidence on every small input.                                          *)
(***************************************************************************)
EXTENDS HeaderSync, TLC

CONSTANTS TargetWindow, RequiredHistory, MedianSpan, LinearLocator, MaxBatch, MaxTime, MaxHeight, MaxSaves,
          HandshakeTimeout, RequestTimeout, MaxPendingFrames, Tags, MaxClock, MaxAsked,
          MaxFlagBytes, MaxTransactions, FlagBits, MaxLabel, MaxLabels, MaxJumps, MaxNameBytes, PointerTop, Reserved,
          Transactions, MaxTotal, MaxHashes, MaxResource

VARIABLES part,
          chain, store, floor,
          session, queue, now, clock, asked, told, lastAsked, lost,
          input

L == INSTANCE LightClient WITH last <- lastAsked
lightChain == <<chain, store, floor>>
lightPeer == <<session, queue, now, clock, asked, told, lastAsked, lost>>

Fork == {<<>>, <<"a">>, <<"b">>, <<"a", "a">>}
ForkWork == [b \in Fork |-> Len(b)]
MCTransactions == <<"t1", "t2", "t3">>

WithinRegime ==
    CASE part = "agreement" ->
            /\ \A p \in Tracked : peers[p].advertised_height = 0
            /\ saved = <<>>
            /\ crashes = 0
            /\ tip \in {<<>>, <<"a">>} => generation <= 2
      [] part = "currency" ->
            /\ \A m \in network : m.tip \in {<<>>, <<"a">>}
            /\ generation + crashes <= MaxGeneration

MCInit == /\ part \in {"agreement", "currency", "chain", "peer", "evidence"}
          /\ Init /\ L!ChainInit /\ L!PeerInit /\ input = [ask |-> ""]

Synchronise == /\ part \in {"agreement", "currency"} /\ Next /\ WithinRegime'
               /\ UNCHANGED <<lightChain, lightPeer, input>>
ExtendChain == part = "chain" /\ L!ChainNext /\ UNCHANGED <<vars, lightPeer, input>>
TalkToPeer == part = "peer" /\ L!PeerNext /\ UNCHANGED <<vars, lightChain, input>>
AskEvidence == part = "evidence" /\ input.ask = "" /\ L!AskLight /\ UNCHANGED <<vars, lightChain, lightPeer>>
MCNext == UNCHANGED part /\ (Synchronise \/ ExtendChain \/ TalkToPeer \/ AskEvidence)

MCSpec == MCInit /\ [][MCNext]_<<vars, part, lightChain, lightPeer, input>>

Peers == Permutations(Peer)

\* The header chain of the light client keeps enough history to judge the next header,
\* never falls below the caller's floor, and grants only what its headers say; a session
\* tells its caller once that it is ready and answers each request at most once; and
\* blocks, views and resources that are accepted are what the chain committed to
\* (LightClient!LightChainHolds, LightSessionsAgree, WalletEvidenceHolds).
LightEvidenceHolds ==
    /\ part = "chain" => L!LightChainHolds
    /\ part = "peer" => L!LightSessionsAgree
    /\ part = "evidence" => L!WalletEvidenceHolds
=============================================================================
