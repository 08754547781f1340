--------------------------- MODULE FaultTreeAnalysis ---------------------------
(***************************************************************************)
(* FaultTreeAnalysis::Analyze (src/src/fault_tree_analysis.cc) as a state  *)
(* machine.  One analysis runs as one synchronous call; its steps are the  *)
(* sub-calls and loop iterations of that call, in the order the code makes *)
(* them, and pc says which one comes next:                                 *)
(*                                                                         *)
(*   "analyze"  AssignIndices                                              *)
(*   "seed"     ExpandSets(top_event_index_) seeds inter_sets              *)
(*   "expand"   one iteration of the cut set generation loop, or its exit  *)
(*   "findmcs"  one level of the FindMCS recursion, or its return          *)
(*   "prob"     the probability part (Monte Carlo terms or quantification) *)
(*   "done"     Analyze has returned                                       *)
(*                                                                         *)
(* Indices: the primary events get 1..NumPrimaries in the iteration order  *)
(* of a boost::unordered_map (any order), the top gate gets                *)
(* NumPrimaries+1 and the other gates the next indices, again in any       *)
(* order.  A negative index is the complement.                             *)
(***************************************************************************)
EXTENDS ProbabilityQuantifier

CONSTANTS
    LimitOrder,     \* limit_order_: largest cut set kept
    NSums,          \* nsums_ as given to the constructor
    ApproxArgs,     \* the approx arguments the constructor may be given
    AnalysisArgs,   \* the analysis arguments the constructor may be given
    ProbRequestedArgs, \* the prob_requested arguments a call may pass
    AnalyzeCalls    \* how many times Analyze is called on the object

\* The arguments the constructor accepts; it throws ValueError on the rest.
ValidConfig ==
    /\ AnalysisArgs \subseteq {"default", "mc"} /\ AnalysisArgs # {}
    /\ LimitOrder \in Nat \ {0}
    /\ NSums \in Nat \ {0}
    /\ ApproxArgs \subseteq {"no", "rare", "mcub"} /\ ApproxArgs # {}

ASSUME ValidConfig
ASSUME ProbRequestedArgs \subseteq BOOLEAN /\ ProbRequestedArgs # {} /\ AnalyzeCalls \in Nat \ {0}

VARIABLES
    pc,
    int_to_prime, prime_to_int,    \* primary event index tables
    int_to_inter, inter_to_int,    \* gate index tables
    top_event_index,
    inter_sets,     \* stack of Supersets still holding gates
    cut_sets,       \* vector of generated cut sets (primary literals only)
    find_sets,      \* FindMCS argument cut_sets of the next level
    find_lower,     \* FindMCS argument mcs_lower_order of the next level
    min_order,      \* FindMCS argument min_order of the next level
    imcs,           \* imcs_: minimal cut sets as index sets
    max_order,
    min_cut_sets,   \* min_cut_sets_: minimal cut sets as literal sets
    nsums,
    warnings,
    analysis_done,
    prob_of_min_sets,
    imp_of_primaries,
    p_total,        \* [num, den]: p_total_ = num / den
    pos_terms, neg_terms,
    calls,          \* Analyze calls made so far, the current one included
    approx,         \* approx_: "no", "rare" or "mcub", fixed by the constructor
    analysis,       \* analysis_: "default" or "mc", fixed by the constructor
    prob_requested  \* prob_requested_: the argument of the current call

vars == <<pc, int_to_prime, prime_to_int, int_to_inter, inter_to_int,
          top_event_index, inter_sets, cut_sets, find_sets, find_lower,
          min_order, imcs, max_order, min_cut_sets, nsums, warnings,
          analysis_done, prob_of_min_sets, imp_of_primaries, p_total,
          pos_terms, neg_terms, iprobs, calls, approx, analysis,
          prob_requested>>

PrimeIndices == 1..NumPrimaries
GateIndices  == (NumPrimaries + 1)..(NumPrimaries + 1 + NumGates)
Signed(S)    == S \cup {-i : i \in S}

\* A Superset: resolved primary literals and gates still to expand.
Superset == [primes : SUBSET Signed(PrimeIndices), gates : SUBSET Signed(GateIndices)]

Abs(i) == IF i < 0 THEN -i ELSE i

-----------------------------------------------------------------------------
(* Superset (its class is not part of src/; modelled from the spec). *)

\* InsertPrimary / InsertGate: a child index goes to the gates when it is
\* above the top event index and to the primes otherwise.
Member(i, mult) ==
    IF i > top_event_index THEN [primes |-> {}, gates |-> {i * mult}]
                           ELSE [primes |-> {i * mult}, gates |-> {}]

\* A Superset holding all the given children, each multiplied by mult.
AllOf(children, mult) ==
    [primes |-> {i * mult : i \in {c \in children : c <= top_event_index}},
     gates  |-> {i * mult : i \in {c \in children : c > top_event_index}}]

Join(a, b) == [primes |-> a.primes \cup b.primes, gates |-> a.gates \cup b.gates]

\* InsertSet fails when the Superset st holds the complement of a literal
\* or of a gate of this one.
InsertSetFails(this, st) ==
    \/ \E l \in st.primes : -l \in this.primes
    \/ \E g \in st.gates : -g \in this.gates

-----------------------------------------------------------------------------
(* ExpandSets and its helpers. *)

\* Indices of the children of gate |inter_index|, in name order.
EventsChildren(inter_index) ==
    LET ch == GateDef[int_to_inter[Abs(inter_index)]].children
    IN  [k \in DOMAIN ch |-> IF ch[k] \in Gates THEN inter_to_int[ch[k]]
                                                ELSE prime_to_int[ch[k]]]

\* Mutant: the loop over the children stops one short.
SetOrSkipLast(children, mult) == [k \in 1..(Len(children) - 1) |-> Member(children[k], mult)]

SetOr(children, mult) == [k \in DOMAIN children |-> Member(children[k], mult)]

SetAnd(children, mult) == << AllOf(Range(children), mult) >>

\* Mutant: the second set repeats the sign of the first instead of flipping it.
XorSetsSameSign(children, inter_index) ==
    LET j == IF inter_index > 0 THEN -1 ELSE 1
    IN  << Join(Member(children[1], 1), Member(children[2], j)),
           Join(Member(children[1], -1), Member(children[2], j)) >>

\* The two Supersets of a two-input XOR gate.
XorSets(children, inter_index) ==
    LET j == IF inter_index > 0 THEN -1 ELSE 1
    IN  << Join(Member(children[1], 1), Member(children[2], j)),
           Join(Member(children[1], -1), Member(children[2], -j)) >>

\* The loop growing all_sets: after it, the sets of vote_number children.
RECURSIVE VoteGrow(_, _, _, _)
VoteGrow(all_sets, i, vote_number, children) ==
    IF i >= vote_number THEN all_sets
    ELSE VoteGrow({ s \in { a \cup {c} : a \in all_sets, c \in children } :
                        Cardinality(s) > i },
                  i + 1, vote_number, children)

\* Mutant: the negated vote number without the + 1.
VoteSetsOffByOne(children, vote, inter_index) ==
    LET size        == Len(children)
        mult        == IF inter_index < 0 THEN -1 ELSE 1
        vote_number == IF inter_index < 0 THEN size - vote ELSE vote
        all_sets    == SetsInOrder(VoteGrow({{c} : c \in Range(children)}, 1,
                                            vote_number, Range(children)))
    IN  [k \in DOMAIN all_sets |-> AllOf(all_sets[k], mult)]

VoteSets(children, vote, inter_index) ==
    LET size        == Len(children)
        mult        == IF inter_index < 0 THEN -1 ELSE 1
        vote_number == IF inter_index < 0 THEN size - vote + 1 ELSE vote
        all_sets    == SetsInOrder(VoteGrow({{c} : c \in Range(children)}, 1,
                                            vote_number, Range(children)))
    IN  [k \in DOMAIN all_sets |-> AllOf(all_sets[k], mult)]

\* The Supersets that gate inter_index expands to, by type and polarity.
ExpandSets(inter_index) ==
    LET gate     == GateDef[int_to_inter[Abs(inter_index)]]
        children == EventsChildren(inter_index)
        positive == inter_index > 0
        mult     == IF positive THEN 1 ELSE -1
    IN  CASE gate.type = "or"      -> IF positive THEN SetOr(children, 1) ELSE SetAnd(children, -1)
          [] gate.type = "and"     -> IF positive THEN SetAnd(children, 1) ELSE SetOr(children, -1)
          [] gate.type = "not"     -> SetAnd(children, -1 * mult)
          [] gate.type = "nor"     -> IF positive THEN SetAnd(children, -1) ELSE SetOr(children, 1)
          [] gate.type = "nand"    -> IF positive THEN SetOr(children, -1) ELSE SetAnd(children, 1)
          [] gate.type = "xor"     -> XorSets(children, inter_index)
          [] gate.type = "null"    -> SetAnd(children, mult)
          [] gate.type = "inhibit" -> IF positive THEN SetAnd(children, 1) ELSE SetOr(children, -1)
          [] gate.type = "vote"    -> VoteSets(children, gate.vote, inter_index)

\* The reported form of an index cut set: "not " for a negative index.
NamedSet(m) == { IF l > 0 THEN <<int_to_prime[l], TRUE>> ELSE <<int_to_prime[-l], FALSE>> : l \in m }

-----------------------------------------------------------------------------
Init ==
    /\ pc = "analyze"
    /\ int_to_prime = <<>> /\ prime_to_int = <<>>
    /\ int_to_inter = <<>> /\ inter_to_int = <<>>
    /\ top_event_index = -1
    /\ iprobs = <<>>
    /\ inter_sets = <<>> /\ cut_sets = <<>>
    /\ find_sets = {} /\ find_lower = {} /\ min_order = 0
    /\ imcs = {} /\ max_order = 1 /\ min_cut_sets = {}
    /\ nsums = NSums
    /\ warnings = <<>>
    /\ analysis_done = FALSE
    /\ prob_of_min_sets = <<>> /\ imp_of_primaries = <<>>
    /\ p_total = [num |-> 0, den |-> 1]
    /\ pos_terms = <<>> /\ neg_terms = <<>>
    /\ calls = 1
    /\ approx \in ApproxArgs
    /\ analysis \in AnalysisArgs
    /\ prob_requested \in ProbRequestedArgs

\* The possible iteration orders of the two boost::unordered_maps, as
\* index tables: any numbering of the primary events from 1, and the top
\* gate followed by any numbering of the other gates.
PrimeOrders == Bijection(PrimeIndices, Primaries)
GateOrders  == {f \in Bijection(GateIndices, AllGates) : f[NumPrimaries + 1] = Top}

\* Mutant: the top gate numbered one too low, onto the last primary event.
AssignIndicesTopOffByOne ==
    /\ pc = "analyze"
    /\ int_to_prime' \in PrimeOrders
    /\ int_to_inter' \in GateOrders
    /\ prime_to_int' = [e \in Primaries |-> CHOOSE i \in PrimeIndices : int_to_prime'[i] = e]
    /\ inter_to_int' = [g \in AllGates |-> CHOOSE i \in GateIndices : int_to_inter'[i] = g]
    /\ iprobs' = IF prob_requested
                 THEN [i \in 0..NumPrimaries |-> IF i = 0 THEN 0 ELSE Prob[int_to_prime'[i]]]
                 ELSE [i \in {0} |-> 0]
    /\ top_event_index' = NumPrimaries
    /\ pc' = "seed"
    /\ UNCHANGED <<inter_sets, cut_sets, find_sets, find_lower, min_order, imcs,
                   max_order, min_cut_sets, nsums, warnings, analysis_done,
                   prob_of_min_sets, imp_of_primaries, p_total, pos_terms, neg_terms, calls>>

\* Mutant: a later call refills int_to_prime_ and iprobs_ in a new order
\* but keeps the old prime_to_int_.
AssignIndicesRefillPrimes ==
    /\ pc = "analyze"
    /\ int_to_prime' \in PrimeOrders
    /\ iprobs' = IF prob_requested
                 THEN [i \in 0..NumPrimaries |-> IF i = 0 THEN 0 ELSE Prob[int_to_prime'[i]]]
                 ELSE [i \in {0} |-> 0]
    /\ \/ /\ top_event_index = -1
          /\ int_to_inter' \in GateOrders
          /\ prime_to_int' = [e \in Primaries |-> CHOOSE i \in PrimeIndices : int_to_prime'[i] = e]
          /\ inter_to_int' = [g \in AllGates |-> CHOOSE i \in GateIndices : int_to_inter'[i] = g]
       \/ /\ top_event_index # -1
          /\ UNCHANGED <<prime_to_int, int_to_inter, inter_to_int>>
    /\ top_event_index' = NumPrimaries + 1
    /\ pc' = "seed"
    /\ UNCHANGED <<inter_sets, cut_sets, find_sets, find_lower, min_order, imcs,
                   max_order, min_cut_sets, nsums, warnings, analysis_done,
                   prob_of_min_sets, imp_of_primaries, p_total, pos_terms, neg_terms, calls>>

\* iprobs_ after the push_backs of one AssignIndices: the dummy 0, then,
\* if prob_requested_, the probability of every primary event in the
\* iteration order, appended to whatever an earlier call left there.
PushBackProbs(probs, order) ==
    LET n    == Cardinality(DOMAIN probs)
        vals == <<0>> \o (IF prob_requested THEN [i \in PrimeIndices |-> Prob[order[i]]] ELSE <<>>)
    IN  [i \in 0..(n + Len(vals) - 1) |-> IF i < n THEN probs[i] ELSE vals[i - n + 1]]

\* AssignIndices: primary events 1..N in unordered_map order (index 0 is
\* the dummy with probability 0), then the top gate, then the other gates.
\* On a later call the tables are not cleared: push_back appends past the
\* entries 0..N that are read, and map insert keeps the first index of a
\* name, so the lookups stay those of the first call.
AssignIndices ==
    /\ pc = "analyze"
    /\ \/ /\ top_event_index = -1
          /\ int_to_prime' \in PrimeOrders
          /\ int_to_inter' \in GateOrders
          /\ prime_to_int' = [e \in Primaries |-> CHOOSE i \in PrimeIndices : int_to_prime'[i] = e]
          /\ inter_to_int' = [g \in AllGates |-> CHOOSE i \in GateIndices : int_to_inter'[i] = g]
          /\ iprobs' = PushBackProbs(iprobs, int_to_prime')
       \/ /\ top_event_index # -1
          /\ \E order \in PrimeOrders : iprobs' = PushBackProbs(iprobs, order)
          /\ UNCHANGED <<int_to_prime, prime_to_int, int_to_inter, inter_to_int>>
    /\ top_event_index' = NumPrimaries + 1
    /\ pc' = "seed"
    /\ UNCHANGED <<inter_sets, cut_sets, find_sets, find_lower, min_order, imcs,
                   max_order, min_cut_sets, nsums, warnings, analysis_done,
                   prob_of_min_sets, imp_of_primaries, p_total, pos_terms, neg_terms, calls>>

\* Analyze: ExpandSets(top_event_index_, inter_sets).
ExpandTop ==
    /\ pc = "seed"
    /\ inter_sets' = ExpandSets(top_event_index)
    /\ pc' = "expand"
    /\ UNCHANGED <<int_to_prime, prime_to_int, int_to_inter, inter_to_int,
                   top_event_index, iprobs, cut_sets, find_sets, find_lower,
                   min_order, imcs, max_order, min_cut_sets, nsums, warnings,
                   analysis_done, prob_of_min_sets, imp_of_primaries, p_total,
                   pos_terms, neg_terms, calls>>

ExpandVars == <<pc, int_to_prime, prime_to_int, int_to_inter, inter_to_int,
                top_event_index, iprobs, find_sets, find_lower, min_order, imcs,
                max_order, min_cut_sets, nsums, warnings, analysis_done,
                prob_of_min_sets, imp_of_primaries, p_total, pos_terms, neg_terms, calls>>

\* Mutant: a set of exactly limit_order_ primary events is discarded too.
DiscardOversizeAtLimit ==
    /\ pc = "expand"
    /\ inter_sets # <<>>
    /\ Cardinality(Last(inter_sets).primes) >= LimitOrder
    /\ inter_sets' = Front(inter_sets)
    /\ UNCHANGED <<cut_sets>>
    /\ UNCHANGED ExpandVars

\* Loop iteration: the rightmost set is larger than the limit.
DiscardOversize ==
    /\ pc = "expand"
    /\ inter_sets # <<>>
    /\ Cardinality(Last(inter_sets).primes) > LimitOrder
    /\ inter_sets' = Front(inter_sets)
    /\ UNCHANGED <<cut_sets>>
    /\ UNCHANGED ExpandVars

\* Mutant: the no-gates test placed before the limit test.
CollectCutSetBeforeLimit ==
    /\ pc = "expand"
    /\ inter_sets # <<>>
    /\ Last(inter_sets).gates = {}
    /\ inter_sets' = Front(inter_sets)
    /\ cut_sets' = Append(cut_sets, Last(inter_sets).primes)
    /\ UNCHANGED ExpandVars

\* Loop iteration: the rightmost set has primary events only.
CollectCutSet ==
    /\ pc = "expand"
    /\ inter_sets # <<>>
    /\ Cardinality(Last(inter_sets).primes) <= LimitOrder
    /\ Last(inter_sets).gates = {}
    /\ inter_sets' = Front(inter_sets)
    /\ cut_sets' = Append(cut_sets, Last(inter_sets).primes)
    /\ UNCHANGED ExpandVars

\* Loop iteration: PopGate, expand that gate, and push every child set
\* into which the rest of the original set could be inserted.
ExpandGate ==
    /\ pc = "expand"
    /\ inter_sets # <<>>
    /\ Cardinality(Last(inter_sets).primes) <= LimitOrder
    /\ Last(inter_sets).gates # {}
    /\ \E g \in Last(inter_sets).gates :
         LET tmp_set       == [Last(inter_sets) EXCEPT !.gates = @ \ {g}]
             children_sets == ExpandSets(g)
             kept          == SelectSeq(children_sets, LAMBDA c : ~InsertSetFails(c, tmp_set))
         IN  inter_sets' = Front(inter_sets) \o [k \in DOMAIN kept |-> Join(kept[k], tmp_set)]
    /\ UNCHANGED <<cut_sets>>
    /\ UNCHANGED ExpandVars

\* Loop exit with no cut set within the limit: warn and return.
NoCutSets ==
    /\ pc = "expand"
    /\ inter_sets = <<>>
    /\ cut_sets = <<>>
    /\ warnings' = Append(warnings, "NoCutSets")
    /\ analysis_done' = TRUE
    /\ pc' = "done"
    /\ UNCHANGED <<int_to_prime, prime_to_int, int_to_inter, inter_to_int,
                   top_event_index, iprobs, inter_sets, cut_sets, find_sets,
                   find_lower, min_order, imcs, max_order, min_cut_sets, nsums,
                   prob_of_min_sets, imp_of_primaries, p_total, pos_terms, neg_terms, calls>>

\* Loop exit: singletons go straight to imcs_, the other cut sets (without
\* duplicates) to FindMCS(unique_cut_sets, imcs_, 2).
StartFindMCS ==
    /\ pc = "expand"
    /\ inter_sets = <<>>
    /\ cut_sets # <<>>
    /\ imcs' = imcs \cup {s \in Range(cut_sets) : Cardinality(s) = 1}
    /\ find_sets' = {s \in Range(cut_sets) : Cardinality(s) # 1}
    /\ find_lower' = imcs'
    /\ min_order' = 2
    /\ pc' = "findmcs"
    /\ UNCHANGED <<int_to_prime, prime_to_int, int_to_inter, inter_to_int,
                   top_event_index, iprobs, inter_sets, cut_sets, max_order,
                   min_cut_sets, nsums, warnings, analysis_done, prob_of_min_sets,
                   imp_of_primaries, p_total, pos_terms, neg_terms, calls>>

FindVars == <<int_to_prime, prime_to_int, int_to_inter, inter_to_int,
              top_event_index, iprobs, inter_sets, cut_sets, warnings,
              prob_of_min_sets, imp_of_primaries, p_total, pos_terms, neg_terms, calls>>

\* Mutant: every surviving set of at least min_order is taken as minimal.
FindMCSAllSizes ==
    /\ pc = "findmcs"
    /\ find_sets # {}
    /\ LET include       == {s \in find_sets : ~\E m \in find_lower : m \subseteq s}
           temp_min_sets == {s \in include : Cardinality(s) >= min_order}
       IN  /\ imcs' = imcs \cup temp_min_sets
           /\ max_order' = IF temp_min_sets # {} /\ min_order > max_order
                           THEN min_order ELSE max_order
           /\ find_sets' = include \ temp_min_sets
           /\ find_lower' = temp_min_sets
    /\ min_order' = min_order + 1
    /\ UNCHANGED <<pc, min_cut_sets, nsums, analysis_done>>
    /\ UNCHANGED FindVars

\* Mutant: the recursive call keeps min_order instead of min_order + 1.
FindMCSSameOrder ==
    /\ pc = "findmcs"
    /\ find_sets # {}
    /\ LET include       == {s \in find_sets : ~\E m \in find_lower : m \subseteq s}
           temp_min_sets == {s \in include : Cardinality(s) = min_order}
       IN  /\ imcs' = imcs \cup temp_min_sets
           /\ max_order' = IF temp_min_sets # {} /\ min_order > max_order
                           THEN min_order ELSE max_order
           /\ find_sets' = include \ temp_min_sets
           /\ find_lower' = temp_min_sets
    /\ min_order' = min_order
    /\ UNCHANGED <<pc, min_cut_sets, nsums, analysis_done>>
    /\ UNCHANGED FindVars

\* One call of FindMCS on a non-empty cut_sets: drop the supersets of the
\* minimal sets of the level below, keep the sets of size min_order as
\* minimal, and pass the larger ones on to the next level.
FindMCS ==
    /\ pc = "findmcs"
    /\ find_sets # {}
    /\ LET include       == {s \in find_sets : ~\E m \in find_lower : m \subseteq s}
           temp_min_sets == {s \in include : Cardinality(s) = min_order}
       IN  /\ imcs' = imcs \cup temp_min_sets
           /\ max_order' = IF temp_min_sets # {} /\ min_order > max_order
                           THEN min_order ELSE max_order
           /\ find_sets' = include \ temp_min_sets
           /\ find_lower' = temp_min_sets
    /\ min_order' = min_order + 1
    /\ UNCHANGED <<pc, min_cut_sets, nsums, analysis_done>>
    /\ UNCHANGED FindVars

\* FindMCS returns on an empty cut_sets; Analyze then runs SetsToString,
\* sets analysis_done_, returns unless probabilities are requested, and
\* clamps nsums_ to the number of minimal cut sets.
FinishMCS ==
    /\ pc = "findmcs"
    /\ find_sets = {}
    /\ min_cut_sets' = min_cut_sets \cup {NamedSet(m) : m \in imcs}
    /\ analysis_done' = TRUE
    /\ nsums' = IF prob_requested /\ nsums > Cardinality(imcs) THEN Cardinality(imcs) ELSE nsums
    /\ pc' = IF prob_requested THEN "prob" ELSE "done"
    /\ UNCHANGED <<find_sets, find_lower, min_order, imcs, max_order>>
    /\ UNCHANGED FindVars

-----------------------------------------------------------------------------
(* The probability part of Analyze. *)

\* The loop over imcs_: ProbAnd of every set, keyed by its name.
SetProbs == [n \in {NamedSet(m) : m \in imcs} |-> ProbAnd(CHOOSE m \in imcs : NamedSet(m) = n)]

\* prob_of_min_sets_ after that loop: insert keeps a key already present.
MinSetProbs == prob_of_min_sets @@ SetProbs

\* Contribution of the literal <<e, pol>>: a set counts toward "not e" only
\* when it does not hold e itself (the else-if of the code).
Contribution(e, pol) ==
    MapThenSumSet(LAMBDA s : MinSetProbs[s],
                  {s \in DOMAIN MinSetProbs : /\ <<e, pol>> \in s
                                              /\ ~pol => <<e, TRUE>> \notin s})

\* imp_of_primaries_: every event, and "not e" when its contribution is > 0.
Importance ==
    [l \in {<<e, TRUE>> : e \in Primaries}
             \cup {<<e, FALSE>> : e \in {x \in Primaries : Contribution(x, FALSE) > 0}}
       |-> Contribution(l[1], l[2])]

\* Mutant: p_total_ = p instead of p_total_ += p in the rare event loop.
RareEventOverwrite ==
    /\ approx = "rare"
    /\ warnings' = warnings \o <<"RareApprox">>
                   \o (IF \E n \in DOMAIN MinSetProbs : 10 * MinSetProbs[n] > Scale
                       THEN <<"RareInaccurate">> ELSE <<>>)
    /\ \E last \in DOMAIN MinSetProbs : p_total' = [num |-> MinSetProbs[last], den |-> Scale]
    /\ UNCHANGED imcs
\* Rare event approximation: the sum, warning once if a set exceeds 0.1.
RareEvent ==
    /\ approx = "rare"
    /\ warnings' = warnings \o <<"RareApprox">>
                   \o (IF \E n \in DOMAIN MinSetProbs : 10 * MinSetProbs[n] > Scale
                       THEN <<"RareInaccurate">> ELSE <<>>)
    /\ p_total' = [num |-> (p_total.num * Scale) \div p_total.den
                           + MapThenSumSet(LAMBDA n : MinSetProbs[n], DOMAIN MinSetProbs),
                   den |-> Scale]
    /\ UNCHANGED imcs

\* Mutant: p_total_ = m, the "1 -" forgotten.
McubMissingComplement ==
    /\ approx = "mcub"
    /\ warnings' = Append(warnings, "McubApprox")
    /\ LET k == Cardinality(DOMAIN MinSetProbs)
           m == FoldSet(LAMBDA n, acc : (Scale - MinSetProbs[n]) * acc, 1, DOMAIN MinSetProbs)
       IN  p_total' = [num |-> m, den |-> Scale ^ k]
    /\ UNCHANGED imcs
\* MCUB: 1 - product of (1 - p) over the minimal cut sets.
Mcub ==
    /\ approx = "mcub"
    /\ warnings' = Append(warnings, "McubApprox")
    /\ LET k == Cardinality(DOMAIN MinSetProbs)
           m == FoldSet(LAMBDA n, acc : (Scale - MinSetProbs[n]) * acc, 1, DOMAIN MinSetProbs)
       IN  p_total' = [num |-> Scale ^ k - m, den |-> Scale ^ k]
    /\ UNCHANGED imcs

\* No approximation: ProbOr(imcs_, nsums_), which erases from imcs_.
Exact ==
    /\ approx = "no"
    /\ LET r == ProbOr(imcs, nsums)
       IN  /\ p_total' = [num |-> r.p, den |-> Scale]
           /\ imcs' = r.rest
    /\ UNCHANGED warnings

ProbVars == <<int_to_prime, prime_to_int, int_to_inter, inter_to_int,
              top_event_index, iprobs, inter_sets, cut_sets, find_sets,
              find_lower, min_order, max_order, min_cut_sets, nsums,
              analysis_done, calls>>

\* analysis_ == "mc": MProbOr(imcs_, 1, nsums_) and MSample(), which is empty.
MonteCarlo ==
    /\ pc = "prob"
    /\ analysis = "mc"
    /\ LET r == MProbOr(imcs, 1, nsums)
       IN  /\ pos_terms' = pos_terms \o r.pos
           /\ neg_terms' = neg_terms \o r.neg
           /\ imcs' = r.rest
    /\ pc' = "done"
    /\ UNCHANGED <<warnings, prob_of_min_sets, imp_of_primaries, p_total>>
    /\ UNCHANGED ProbVars

\* analysis_ == "default": set probabilities, the total by approx_, and the
\* importance of every primary event.
QuantifyProbability ==
    /\ pc = "prob"
    /\ analysis = "default"
    /\ prob_of_min_sets' = MinSetProbs
    /\ imp_of_primaries' = imp_of_primaries @@ Importance
    /\ RareEvent \/ Mcub \/ Exact
    /\ pc' = "done"
    /\ UNCHANGED <<pos_terms, neg_terms, calls>>
    /\ UNCHANGED ProbVars

\* Mutant: a later call clears min_cut_sets_ but leaves analysis_done_ set.
ReanalyzeClearsResult ==
    /\ pc = "done"
    /\ calls < AnalyzeCalls
    /\ calls' = calls + 1
    /\ prob_requested' \in ProbRequestedArgs
    /\ pc' = "analyze"
    /\ inter_sets' = <<>> /\ cut_sets' = <<>>
    /\ find_sets' = {} /\ find_lower' = {} /\ min_order' = 0
    /\ min_cut_sets' = {}
    /\ UNCHANGED <<int_to_prime, prime_to_int, int_to_inter, inter_to_int,
                   top_event_index, iprobs, imcs, max_order, nsums,
                   warnings, analysis_done, prob_of_min_sets, imp_of_primaries,
                   p_total, pos_terms, neg_terms>>

\* A new call of Analyze on the same object, once the previous one has
\* returned: the locals of Analyze start empty, the members keep their values.
Reanalyze ==
    /\ pc = "done"
    /\ calls < AnalyzeCalls
    /\ calls' = calls + 1
    /\ prob_requested' \in ProbRequestedArgs
    /\ pc' = "analyze"
    /\ inter_sets' = <<>> /\ cut_sets' = <<>>
    /\ find_sets' = {} /\ find_lower' = {} /\ min_order' = 0
    /\ UNCHANGED <<int_to_prime, prime_to_int, int_to_inter, inter_to_int,
                   top_event_index, iprobs, imcs, max_order, min_cut_sets, nsums,
                   warnings, analysis_done, prob_of_min_sets, imp_of_primaries,
                   p_total, pos_terms, neg_terms>>

\* approx_ and analysis_ are set by the constructor and no operation
\* assigns them; prob_requested_ is assigned only on entry to Analyze.
Next ==
  /\ UNCHANGED <<approx, analysis>>
  /\ \/ /\ UNCHANGED prob_requested
        /\ \/ AssignIndices
           \/ ExpandTop
           \/ DiscardOversize
           \/ CollectCutSet
           \/ ExpandGate
           \/ NoCutSets
           \/ StartFindMCS
           \/ FindMCS
           \/ FinishMCS
           \/ MonteCarlo
           \/ QuantifyProbability
     \/ Reanalyze

\* Analyze is one synchronous call that runs to completion: every step that
\* is enabled is eventually taken.
Spec == Init /\ [][Next]_vars /\ WF_vars(Next)

-----------------------------------------------------------------------------
TypeOK ==
    /\ pc \in {"analyze", "seed", "expand", "findmcs", "prob", "done"}
    /\ approx \in ApproxArgs /\ analysis \in AnalysisArgs
    /\ prob_requested \in ProbRequestedArgs
    /\ top_event_index \in {-1, NumPrimaries + 1}
    /\ inter_sets \in Seq(Superset)
    /\ cut_sets \in Seq(SUBSET Signed(PrimeIndices))
    /\ find_sets \cup find_lower \cup imcs \subseteq SUBSET Signed(PrimeIndices)
    /\ min_cut_sets \subseteq SUBSET Literals
    /\ analysis_done \in BOOLEAN
    /\ nsums \in 0..NSums
    /\ calls \in 1..AnalyzeCalls

(***************************************************************************)
(* No-superset invariant of the spec: no minimal cut set in imcs_ is a     *)
(* subset of another, at every step of the level-by-level FindMCS          *)
(* recursion, where each level only compares against the minimal sets of  *)
(* the level directly below it.                                            *)
(***************************************************************************)
MCSMinimal == \A a, b \in imcs : a # b => ~(a \subseteq b)

(***************************************************************************)
(* Every reported minimal cut set fails the top event: it holds no event   *)
(* together with its negation, and every failure combination that makes    *)
(* its literals true makes the top event occur.  This is what the gate     *)
(* expansion rules of ExpandSets (polarity, XOR, the vote negation trick)  *)
(* and the contradiction check of InsertSet must together guarantee.       *)
(***************************************************************************)
MCSSound ==
    analysis_done => \A s \in min_cut_sets : Consistent(s) /\ IsImplicant(s)

(***************************************************************************)
(* With a limit that prunes nothing, every failure combination that makes  *)
(* the top event occur satisfies some reported minimal cut set: the        *)
(* expansion loop, ExpandSets and FindMCS lose no way the top can occur.   *)
(***************************************************************************)
MCSComplete ==
    (analysis_done /\ LimitOrder >= NumPrimaries) =>
        \A fail \in SUBSET Primaries :
            TopOccurs(fail) => \E s \in min_cut_sets : Satisfies(fail, s)

(***************************************************************************)
(* For a tree without negation, the reported minimal cut sets are exactly  *)
(* the minimal failure combinations of at most limit_order_ events: the    *)
(* pruning of oversized Supersets in the expansion loop is exact, not an   *)
(* approximation (spec 4.2).                                               *)
(***************************************************************************)
CoherentWithinLimit == CoherentMinimal(LimitOrder)

CoherentExact ==
    (Coherent /\ analysis_done) => min_cut_sets = CoherentWithinLimit

(***************************************************************************)
(* The analysis terminates: every expansion step removes a gate, FindMCS  *)
(* raises min_order each level, and Analyze returns.                       *)
(***************************************************************************)
Termination == <>(pc = "done")

\* Conditions under which the computed collection covers the whole tree.
Unpruned == LimitOrder >= NumPrimaries /\ prob_requested

(***************************************************************************)
(* Exact quantification: with no approximation, nsums_ at least the number *)
(* of minimal cut sets and no pruning, ProbOr over the minimal cut sets    *)
(* equals the probability of the top event summed over all failure         *)
(* combinations.                                                           *)
(***************************************************************************)
ExactProbability ==
    (pc = "done" /\ Unpruned /\ analysis = "default" /\ approx = "no"
     /\ NSums >= Cardinality(min_cut_sets))
        => p_total = [num |-> RefTopProbability, den |-> Scale]

(***************************************************************************)
(* Truncated inclusion-exclusion: ProbOr cut after an odd number of sums   *)
(* is an upper bound of the top event probability and after an even       *)
(* number a lower bound, whatever order the sets are taken in.             *)
(***************************************************************************)
TruncationBound ==
    (pc = "done" /\ Unpruned /\ analysis = "default" /\ approx = "no")
        => IF nsums % 2 = 1 THEN p_total.num >= RefTopProbability
                            ELSE p_total.num <= RefTopProbability

(***************************************************************************)
(* For a tree without negation the MCUB result is never below the exact    *)
(* probability of the top event (spec 4.5, 8).                             *)
(***************************************************************************)
McubUpperBound ==
    (pc = "done" /\ Unpruned /\ Coherent /\ analysis = "default" /\ approx = "mcub")
        => p_total.num * Scale >= RefTopProbability * p_total.den

(***************************************************************************)
(* The rare event sum is never below the exact probability of the top      *)
(* event: it adds the probability of every minimal cut set.                *)
(***************************************************************************)
RareUpperBound ==
    (pc = "done" /\ Unpruned /\ analysis = "default" /\ approx = "rare")
        => p_total.num * Scale >= RefTopProbability * p_total.den

(***************************************************************************)
(* Monte Carlo terms: the positive terms minus the negative terms that     *)
(* MProbOr records give the exact top event probability when nsums_ does   *)
(* not truncate the series.                                                *)
(***************************************************************************)
MCTermsExact ==
    (pc = "done" /\ Unpruned /\ analysis = "mc" /\ NSums >= Cardinality(min_cut_sets))
        => TermsProb(pos_terms) - TermsProb(neg_terms) = RefTopProbability

(***************************************************************************)
(* The totals a call reports are its own: once a call that requested       *)
(* probabilities returns, the rare event p_total_ is the sum of             *)
(* prob_of_min_sets_ over the minimal cut sets, and the Monte Carlo terms  *)
(* give the top event probability.  A member that a later Analyze on the   *)
(* same object adds to (p_total_ +=, pos_terms_.push_back) breaks this.    *)
(***************************************************************************)
TotalsOfThisCall ==
    (pc = "done" /\ prob_requested) =>
        /\ (analysis = "default" /\ approx = "rare"
            /\ min_cut_sets \subseteq DOMAIN prob_of_min_sets) =>
               p_total.num * Scale
                   = MapThenSumSet(LAMBDA n : prob_of_min_sets[n], min_cut_sets) * p_total.den
        /\ (analysis = "mc" /\ Unpruned /\ NSums >= Cardinality(min_cut_sets)) =>
               TermsProb(pos_terms) - TermsProb(neg_terms) = RefTopProbability

(***************************************************************************)
(* Refinement: min_cut_sets_ and analysis_done_ behave as the abstract     *)
(* analysis of MCSAnalysis.  Nothing is reported before analysis_done_ is *)
(* set, the collection reported then is acceptable, and no later step,    *)
(* of this call or of a later Analyze on the same object, changes it.     *)
(***************************************************************************)
Abstract == INSTANCE MCSAnalysis WITH done <- analysis_done, mcs <- min_cut_sets
MCSRefinement == Abstract!Spec
=============================================================================
