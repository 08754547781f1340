------------------------- MODULE ProbabilityQuantifier -------------------------
(***************************************************************************)
(* The probability routines of FaultTreeAnalysis (fault_tree_analysis.cc): *)
(* ProbAnd, CombineElAndSet, the recursive inclusion-exclusion ProbOr and  *)
(* the Monte Carlo term generator MProbOr.  They read the table iprobs     *)
(* that AssignIndices fills, so iprobs is the one variable here.           *)
(*                                                                         *)
(* Probabilities are exact integers in units 1/Scale, Scale being          *)
(* Denom^NumPrimaries: a literal has a probability in units 1/Denom and a  *)
(* cut set has at most NumPrimaries literals.                              *)
(*                                                                         *)
(* ProbOr and MProbOr take the collection of cut sets by reference and     *)
(* erase from it; the operators return what is left of it as "rest".       *)
(***************************************************************************)
EXTENDS FaultTree, SequencesExt

VARIABLE iprobs

Scale == Denom ^ NumPrimaries

\* std::set<int> ordering: lexicographic on the ascending elements.
RECURSIVE SetLess(_, _)
SetLess(a, b) ==
    IF b = {} THEN FALSE
    ELSE IF a = {} THEN TRUE
    ELSE IF Min(a) # Min(b) THEN Min(a) < Min(b)
    ELSE SetLess(a \ {Min(a)}, b \ {Min(b)})

\* begin() of a std::set<std::set<int>>.
FirstSet(S) == CHOOSE s \in S : \A t \in S \ {s} : SetLess(s, t)

\* The elements of a std::set<std::set<int>> in iteration order.
RECURSIVE SetsInOrder(_)
SetsInOrder(S) ==
    IF S = {} THEN <<>> ELSE <<FirstSet(S)>> \o SetsInOrder(S \ {FirstSet(S)})

\* Mutant: a negated literal takes p instead of 1 - p.
LiteralProbNoComplement(l) == IF l > 0 THEN iprobs[l] ELSE iprobs[-l]

\* Probability of one literal: p for a positive index, 1 - p for a negated one.
LiteralProb(l) == IF l > 0 THEN iprobs[l] ELSE Denom - iprobs[-l]

\* ProbAnd: product of the literal probabilities; the empty set gives 0.
ProbAnd(min_cut_set) ==
    IF min_cut_set = {} THEN 0
    ELSE FoldSet(LAMBDA l, acc : LiteralProb(l) * acc, 1, min_cut_set)
           * Denom ^ (NumPrimaries - Cardinality(min_cut_set))

\* CombineElAndSet: el joined to every member of set that does not contain
\* the complement of a literal of el; duplicates collapse in the std::set.
CombineElAndSet(el, set) ==
    { member \cup el : member \in { m \in set : \A l \in el : -l \notin m } }

\* Mutant: the early return tests nsums <= 1 instead of nsums == 0.
RECURSIVE ProbOrCutEarly(_, _)
ProbOrCutEarly(min_cut_sets, nsums) ==
    IF min_cut_sets = {} \/ nsums <= 1
    THEN [p |-> 0, rest |-> min_cut_sets]
    ELSE IF Cardinality(min_cut_sets) = 1
    THEN [p |-> ProbAnd(CHOOSE s \in min_cut_sets : TRUE), rest |-> min_cut_sets]
    ELSE LET element_one == FirstSet(min_cut_sets)
             others      == min_cut_sets \ {element_one}
             combo_sets  == CombineElAndSet(element_one, others)
             tail        == ProbOrCutEarly(others, nsums)
         IN  [p    |-> ProbAnd(element_one) + tail.p - ProbOrCutEarly(combo_sets, nsums - 1).p,
              rest |-> tail.rest]

\* ProbOr: inclusion-exclusion with the subtracted series cut after nsums.
RECURSIVE ProbOr(_, _)
ProbOr(min_cut_sets, nsums) ==
    IF min_cut_sets = {} \/ nsums = 0
    THEN [p |-> 0, rest |-> min_cut_sets]
    ELSE IF Cardinality(min_cut_sets) = 1
    THEN [p |-> ProbAnd(CHOOSE s \in min_cut_sets : TRUE), rest |-> min_cut_sets]
    ELSE LET element_one == FirstSet(min_cut_sets)
             others      == min_cut_sets \ {element_one}
             combo_sets  == CombineElAndSet(element_one, others)
             tail        == ProbOr(others, nsums)
         IN  [p    |-> ProbAnd(element_one) + tail.p - ProbOr(combo_sets, nsums - 1).p,
              rest |-> tail.rest]

\* Mutant: the combination terms keep the sign of element_one.
RECURSIVE MProbOrSameSign(_, _, _)
MProbOrSameSign(min_cut_sets, sign, nsums) ==
    IF min_cut_sets = {} \/ nsums = 0
    THEN [pos |-> <<>>, neg |-> <<>>, rest |-> min_cut_sets]
    ELSE LET element_one == FirstSet(min_cut_sets)
             others      == min_cut_sets \ {element_one}
             combo_sets  == CombineElAndSet(element_one, others)
             here        == IF sign % 2 = 1 THEN <<element_one>> ELSE <<>>
             hereNeg     == IF sign % 2 = 1 THEN <<>> ELSE <<element_one>>
             tail        == MProbOrSameSign(others, sign, nsums)
             combo       == MProbOrSameSign(combo_sets, sign, nsums - 1)
         IN  [pos  |-> here \o tail.pos \o combo.pos,
              neg  |-> hereNeg \o tail.neg \o combo.neg,
              rest |-> tail.rest]

\* MProbOr: the same traversal, recording each visited set as a positive
\* term at odd sign and as a negative term at even sign.
RECURSIVE MProbOr(_, _, _)
MProbOr(min_cut_sets, sign, nsums) ==
    IF min_cut_sets = {} \/ nsums = 0
    THEN [pos |-> <<>>, neg |-> <<>>, rest |-> min_cut_sets]
    ELSE LET element_one == FirstSet(min_cut_sets)
             others      == min_cut_sets \ {element_one}
             combo_sets  == CombineElAndSet(element_one, others)
             here        == IF sign % 2 = 1 THEN <<element_one>> ELSE <<>>
             hereNeg     == IF sign % 2 = 1 THEN <<>> ELSE <<element_one>>
             tail        == MProbOr(others, sign, nsums)
             combo       == MProbOr(combo_sets, sign + 1, nsums - 1)
         IN  [pos  |-> here \o tail.pos \o combo.pos,
              neg  |-> hereNeg \o tail.neg \o combo.neg,
              rest |-> tail.rest]

\* Sum of the probabilities of a sequence of terms.
TermsProb(terms) == FoldLeft(LAMBDA acc, s : acc + ProbAnd(s), 0, terms)
=============================================================================
