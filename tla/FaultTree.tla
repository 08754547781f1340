------------------------------ MODULE FaultTree ------------------------------
(***************************************************************************)
(* The already-parsed fault tree that FaultTreeAnalysis reads: the top     *)
(* gate, the intermediate gates with their type, vote number and children, *)
(* and the primary events with their probabilities.  The analysis never    *)
(* changes it, so it is a set of CONSTANTS.                                *)
(*                                                                         *)
(* The module also gives the reference meaning of a tree: whether the top  *)
(* event occurs when exactly a given set of primary events has failed, and *)
(* the exact probability of the top event obtained by summing over all     *)
(* failure combinations.  The properties of the analysis are stated        *)
(* against these definitions, which do not share any of the expansion or   *)
(* inclusion-exclusion logic of the code.                                  *)
(***************************************************************************)
EXTENDS Integers, FiniteSets, Sequences, FiniteSetsExt

CONSTANTS
    Primaries,  \* names of the primary events (model values)
    Gates,      \* names of the intermediate gates, without the top gate
    Top,        \* name of the top gate
    GateDef,    \* GateDef[g] = [type, vote, children]; children in name order
    Prob,       \* Prob[e] = probability of primary event e, in units 1/Denom
    Denom       \* denominator of the probabilities

\* The gate types accepted by the analysis (FaultTreeAnalysis constructor).
GateTypes == {"and", "or", "not", "nor", "nand", "xor", "null", "inhibit", "vote"}

AllGates == Gates \cup {Top}
Events   == Primaries \cup AllGates

\* Child counts that the assertions of ExpandSets require of each type.
WellFormed(d) ==
    /\ d.type \in GateTypes
    /\ d.children \in Seq(Primaries \cup Gates)
    /\ \A i, j \in DOMAIN d.children : i # j => d.children[i] # d.children[j]
    /\ d.type \in {"not", "null"} => Len(d.children) = 1
    /\ d.type \in {"xor", "inhibit"} => Len(d.children) = 2
    /\ d.type \in {"and", "or", "nor", "nand"} => Len(d.children) > 1
    /\ d.type = "vote" => d.vote \in 2..Len(d.children)

ASSUME Top \notin Gates /\ Primaries \cap AllGates = {}
ASSUME \A g \in AllGates : WellFormed(GateDef[g])
ASSUME Denom \in Nat \ {0} /\ Prob \in [Primaries -> 0..Denom]

NumPrimaries == Cardinality(Primaries)
NumGates     == Cardinality(Gates)

-----------------------------------------------------------------------------
(***************************************************************************)
(* Reference semantics.  Occurs(e, fail) is TRUE when event e occurs given *)
(* that exactly the primary events in fail have failed.  The gate cases    *)
(* are the textbook meaning of each gate type.                             *)
(***************************************************************************)
RECURSIVE Occurs(_, _)
Occurs(e, fail) ==
    IF e \in Primaries THEN e \in fail
    ELSE LET d   == GateDef[e]
             len == Len(d.children)
             n   == Cardinality({k \in DOMAIN d.children : Occurs(d.children[k], fail)})
         IN  CASE d.type = "and"     -> n = len
               [] d.type = "or"      -> n >= 1
               [] d.type = "not"     -> n = 0
               [] d.type = "nor"     -> n = 0
               [] d.type = "nand"    -> n < len
               [] d.type = "xor"     -> n = 1
               [] d.type = "null"    -> n = 1
               [] d.type = "inhibit" -> n = 2
               [] d.type = "vote"    -> n >= d.vote

TopOccurs(fail) == Occurs(Top, fail)

\* A cut set in the reported form is a set of literals <<event, polarity>>;
\* polarity FALSE is the "not " prefix of the report.
Literals == Primaries \X BOOLEAN

\* The failure combination fail makes every literal of the set true.
Satisfies(fail, lits) == \A l \in lits : (l[1] \in fail) = l[2]

\* The literal set does not contain an event together with its negation.
Consistent(lits) == \A l \in lits : <<l[1], ~l[2]>> \notin lits

\* Every failure combination that makes the literals true fails the top.
IsImplicant(lits) == \A fail \in SUBSET Primaries : Satisfies(fail, lits) => TopOccurs(fail)

\* The tree contains no negating gate: its top event is monotone.
Coherent == \A g \in AllGates : GateDef[g].type \in {"and", "or", "vote", "inhibit", "null"}

\* For a coherent tree: the minimal failure combinations of size at most k
\* that fail the top event, as literal sets.
CoherentMinimal(k) ==
    { {<<e, TRUE>> : e \in S} :
        S \in { S \in SUBSET Primaries :
                   /\ Cardinality(S) <= k
                   /\ TopOccurs(S)
                   /\ \A e \in S : ~TopOccurs(S \ {e}) } }

\* Probability of a failure combination, in units 1/Denom^NumPrimaries.
CombinationWeight(fail) ==
    FoldSet(LAMBDA e, acc : (IF e \in fail THEN Prob[e] ELSE Denom - Prob[e]) * acc,
            1, Primaries)

\* Exact probability of the top event, in units 1/Denom^NumPrimaries.
RefTopProbability ==
    MapThenSumSet(CombinationWeight, {fail \in SUBSET Primaries : TopOccurs(fail)})
=============================================================================
