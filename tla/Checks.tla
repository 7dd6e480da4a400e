------------------------------- MODULE Checks -------------------------------
(***************************************************************************)
(* Functions that check one thing after another and return the error of    *)
(* the first that does not hold.                                           *)
(***************************************************************************)
EXTENDS Naturals, Sequences

\* A check is <<holds, error>>; the position of the first that does not hold, and
\* past the end when all do.
FirstFailure(checks) ==
    CHOOSE i \in 1..(Len(checks) + 1) :
      /\ i <= Len(checks) => ~checks[i][1]
      /\ \A j \in 1..(i - 1) : checks[j][1]
FirstError(checks) ==
    LET i == FirstFailure(checks) IN IF i > Len(checks) THEN "none" ELSE checks[i][2]
=============================================================================
