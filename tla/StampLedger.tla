----------------------------- MODULE StampLedger -----------------------------
(***************************************************************************)
(* What the browser runtime promises about admission stamps, without any   *)
(* of its counters: a stamp is minted once, is live from then on, and the  *)
(* first invalidation after it kills it for good.                          *)
(***************************************************************************)

CONSTANT Stamp                \* every stamp that could ever be minted

VARIABLES issued,             \* the stamps minted so far
          live,               \* the minted stamps no invalidation has hit
          ready               \* whether work is admitted at all

vars == <<issued, live, ready>>

Init == issued = {} /\ live = {} /\ ready = FALSE

Admit ==
    /\ ready
    /\ \E s \in Stamp \ issued :
          /\ issued' = issued \cup {s}
          /\ live' = live \cup {s}
    /\ UNCHANGED ready

\* Readiness is gained without touching a stamp; it is only lost together
\* with all of them.
Advance ==
    /\ ready' \in BOOLEAN
    /\ ready => ready'
    /\ UNCHANGED <<issued, live>>

Invalidate ==
    /\ live' = {}
    /\ ready' = FALSE
    /\ UNCHANGED issued

Next == Admit \/ Advance \/ Invalidate

Spec == Init /\ [][Next]_vars

=============================================================================
