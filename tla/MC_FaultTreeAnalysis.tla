------------------------- MODULE MC_FaultTreeAnalysis -------------------------
(***************************************************************************)
(* Fault trees for model checking FaultTreeAnalysis.  Event names are      *)
(* strings; the children of a gate are listed in the order of their names, *)
(* which is the order of the std::map the code iterates.  Probabilities    *)
(* are in units 1/Denom.                                                   *)
(***************************************************************************)
EXTENDS FaultTreeAnalysis

Gate(type, children) == [type |-> type, vote |-> 0, children |-> children]
Vote(k, children)    == [type |-> "vote", vote |-> k, children |-> children]

(* Coherent tree with minimal cut sets of orders 1, 2 and 3, where a     *)
(* level-2 set is a superset of the singleton and a level-3 set is a     *)
(* superset of a level-2 set:                                           *)
(*   top = a | g1 | g2,  g1 = b & g3,  g3 = a | c,                       *)
(*   g2 = e & g4,  g4 = 2-of-{b, c, d}                                   *)
(* Minimal cut sets: {a}, {b,c}, {b,d,e}, {c,d,e}.                       *)
CoherentPrimaries == {"a", "b", "c", "d", "e"}
CoherentGates     == {"g1", "g2", "g3", "g4"}
CoherentDef ==
    [g \in CoherentGates \cup {"top"} |->
        CASE g = "top" -> Gate("or", <<"a", "g1", "g2">>)
          [] g = "g1"  -> Gate("and", <<"b", "g3">>)
          [] g = "g3"  -> Gate("or", <<"a", "c">>)
          [] g = "g2"  -> Gate("and", <<"e", "g4">>)
          [] g = "g4"  -> Vote(2, <<"b", "c", "d">>)]
CoherentProb == [e \in CoherentPrimaries |-> 1]
\* Every event of the coherent tree at probability 3/4.
CoherentHighProb == [e \in CoherentPrimaries |-> 3]

(* Spec scenario C: a 2-of-3 vote gate over three events. *)
VotePrimaries == {"a", "b", "c"}
VoteGates     == {}
VoteDef       == [g \in {"top"} |-> Vote(2, <<"a", "b", "c">>)]
VoteProb      == [e \in VotePrimaries |-> CASE e = "a" -> 1 [] e = "b" -> 2 [] e = "c" -> 3]

(* Scenario D with gate inputs: top = vote2(c, g1, g2), g1 = or(a, b),   *)
(* g2 = and(b, d).  Every minimal cut set has two or more events.       *)
VoteGatedPrimaries == {"a", "b", "c", "d"}
VoteGatedGates     == {"g1", "g2"}
VoteGatedDef       == [g \in {"top", "g1", "g2"} |->
                         CASE g = "top" -> Vote(2, <<"c", "g1", "g2">>)
                           [] g = "g1"  -> Gate("or", <<"a", "b">>)
                           [] g = "g2"  -> Gate("and", <<"b", "d">>)]
VoteGatedProb      == [e \in VoteGatedPrimaries |-> 1]

(* Non-coherent tree 1:                                                  *)
(*   top = ~(g1 & g2),  g1 = a xor g3,  g3 = ~(b | c),                  *)
(*   g2 = b | g4,  g4 = ~g5,  g5 = 2-of-{a, b, c}                        *)
(* It expands NAND+, XOR-, NOR+ and NOR-, OR-, NOT- and VOTE+.           *)
N1Primaries == {"a", "b", "c"}
N1Gates     == {"g1", "g2", "g3", "g4", "g5"}
N1Def ==
    [g \in N1Gates \cup {"top"} |->
        CASE g = "top" -> Gate("nand", <<"g1", "g2">>)
          [] g = "g1"  -> Gate("xor", <<"a", "g3">>)
          [] g = "g3"  -> Gate("nor", <<"b", "c">>)
          [] g = "g2"  -> Gate("or", <<"b", "g4">>)
          [] g = "g4"  -> Gate("not", <<"g5">>)
          [] g = "g5"  -> Vote(2, <<"a", "b", "c">>)]

(* Non-coherent tree 2:                                                  *)
(*   top = ~(g1 | g2),  g1 = a inhibit g3,  g3 = 2-of-{a, b, c},         *)
(*   g2 = null g4,  g4 = b & g5,  g5 = ~(a & c)                          *)
(* It expands NOR+, INHIBIT-, VOTE-, NULL-, AND- and NAND-.              *)
N2Primaries == {"a", "b", "c"}
N2Gates     == {"g1", "g2", "g3", "g4", "g5"}
N2Def ==
    [g \in N2Gates \cup {"top"} |->
        CASE g = "top" -> Gate("nor", <<"g1", "g2">>)
          [] g = "g1"  -> Gate("inhibit", <<"a", "g3">>)
          [] g = "g3"  -> Vote(2, <<"a", "b", "c">>)
          [] g = "g2"  -> Gate("null", <<"g4">>)
          [] g = "g4"  -> Gate("and", <<"b", "g5">>)
          [] g = "g5"  -> Gate("nand", <<"a", "c">>)]

(* Non-coherent tree 3:                                                  *)
(*   top = g1 xor g2,  g1 = ~a,  g2 = b inhibit g3,  g3 = null c         *)
(* It expands XOR+, NOT+ and NOT-, INHIBIT+ and INHIBIT-, NULL+ and      *)
(* NULL-.                                                                *)
N3Primaries == {"a", "b", "c"}
N3Gates     == {"g1", "g2", "g3"}
N3Def ==
    [g \in N3Gates \cup {"top"} |->
        CASE g = "top" -> Gate("xor", <<"g1", "g2">>)
          [] g = "g1"  -> Gate("not", <<"a">>)
          [] g = "g2"  -> Gate("inhibit", <<"b", "g3">>)
          [] g = "g3"  -> Gate("null", <<"c">>)]

NProb == [e \in {"a", "b", "c"} |-> CASE e = "a" -> 1 [] e = "b" -> 2 [] e = "c" -> 3]
=============================================================================
