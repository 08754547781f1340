----------------------------- MODULE MCSAnalysis -----------------------------
(***************************************************************************)
(* What a minimal cut set analysis promises (spec sections 2 and 4.3),    *)
(* independent of how the sets are found: the result is published once,  *)
(* it is a collection of consistent implicants of the top event of at     *)
(* most LimitOrder literals, no member contains another, and without      *)
(* pruning it covers every failure of the top event.  For a tree without  *)
(* negation it is exactly the set of minimal failure combinations within  *)
(* the limit.  Once published it never changes.                           *)
(***************************************************************************)
EXTENDS FaultTree

CONSTANT LimitOrder

VARIABLES
    done,   \* the result has been published
    mcs     \* the published collection of literal sets

\* The collections an analysis may publish for this tree and limit.
Acceptable(S) ==
    /\ \A s \in S : Cardinality(s) <= LimitOrder /\ Consistent(s) /\ IsImplicant(s)
    /\ \A a, b \in S : a # b => ~(a \subseteq b)
    /\ LimitOrder >= NumPrimaries =>
           \A fail \in SUBSET Primaries : TopOccurs(fail) => \E s \in S : Satisfies(fail, s)
    /\ Coherent => S = CoherentMinimal(LimitOrder)

Init == ~done /\ mcs = {}

\* The analysis publishes its result in one step.
Publish == ~done /\ done' /\ Acceptable(mcs')

Spec == Init /\ [][Publish]_<<done, mcs>>
=============================================================================
