------------------------------ MODULE Diagram ------------------------------
(***************************************************************************)
(* The fault tree diagram of the GUI (src/gui/diagram.cpp): DiagramScene   *)
(* draws the gate m_root and everything below it.  The Gate constructor    *)
(* draws its arguments left to right, recursing into gates; a gate that    *)
(* was already drawn in full is drawn again as a TransferIn symbol and the *)
(* full drawing gets a transfer-out mark.  redraw() connects the signals   *)
(* of every drawn gate and basic event to itself, so an edit of the model  *)
(* redraws the scene synchronously (direct Qt connections).                *)
(*                                                                         *)
(* Positions are in units of units().width() = h/2; a level is one step   *)
(* of depth, since every event has the same height.                       *)
(***************************************************************************)
EXTENDS Integers, SequencesExt, Functions, FiniteSets

CONSTANTS
    GateOrder,      \* the gates, each only above gates later in the order
    BasicEvents,
    HouseEvents,
    MaxArgs,        \* the longest formula an edit may give a gate
    LeafWidth,      \* Event::width(): m_size.width() units
    Space,          \* Gate::m_space * units().height(), in units
    NoGate          \* m_root == nullptr

Gates  == ToSet(GateOrder)
Events == Gates \cup BasicEvents \cup HouseEvents
Flavors == {"basic", "undeveloped"}

ASSUME /\ IsInjective(GateOrder) /\ NoGate \notin Gates
       /\ LeafWidth % 2 = 0 /\ Space % 2 = 0 /\ MaxArgs \in Nat \ {0}

\* The formulas a gate can have: distinct, uncomplemented arguments, and
\* only gates below it, so the model stays acyclic.
Below(g) == {GateOrder[j] : j \in {j \in DOMAIN GateOrder : \E i \in 1..(j-1) : GateOrder[i] = g}}
ArgChoices(g) ==
    {s \in BoundedSeq(Below(g) \cup BasicEvents \cup HouseEvents, MaxArgs) :
        Len(s) >= 1 /\ IsInjective(s)}

VARIABLES
    args,        \* model::Gate::args(), per gate
    flavor,      \* model::BasicEvent::flavor()
    root,        \* DiagramScene::m_root
    scene,       \* the scene's items and the gates carrying a transfer-out mark
    gateLinks,   \* gates whose formulaChanged is connected to redraw
    eventLinks   \* basic events whose flavorChanged is connected to redraw

vars == <<args, flavor, root, scene, gateLinks, eventLinks>>

\* An item: the event, its kind of symbol, x relative to the drawing's
\* origin, and depth below it.
Item(e, kind) == [ev |-> e, kind |-> kind, x |-> 0, d |-> 0]

\* A child's items moved by moveBy(dx, one level down).
Shift(items, dx) == [k \in DOMAIN items |-> [items[k] EXCEPT !.x = @ + dx, !.d = @ + 1]]

\* st.tr: the transfer map's gates; st.out: gates given addTransferOut().
RECURSIVE DrawGate(_, _, _, _)
RECURSIVE Place(_, _, _, _, _, _, _)

\* Gate::addTransferOut(): the mark is drawn once, however many TransferIns.
AddTransferOut(st, g) == [st EXCEPT !.out = @ \cup {g}]

\* Mutant: the visitor without the ext::find(*m_transfer, arg) lookup.
ChildNoTransferLookup(e, ar, fl, st) ==
    CASE e \in BasicEvents -> [items |-> <<Item(e, fl[e])>>, width |-> LeafWidth, st |-> st]
      [] e \in HouseEvents -> [items |-> <<Item(e, "house")>>, width |-> LeafWidth, st |-> st]
      [] OTHER ->
             LET r == DrawGate(e, ar, fl, st)
             IN  [items |-> r.items, width |-> r.width,
                  st |-> [r.st EXCEPT !.tr = @ \cup {e}]]

\* The formula visitor of the Gate constructor: a drawing of argument e.
Child(e, ar, fl, st) ==
    CASE e \in BasicEvents -> [items |-> <<Item(e, fl[e])>>, width |-> LeafWidth, st |-> st]
      [] e \in HouseEvents -> [items |-> <<Item(e, "house")>>, width |-> LeafWidth, st |-> st]
      [] e \in st.tr ->
             [items |-> <<Item(e, "transfer_in")>>, width |-> LeafWidth,
              st |-> AddTransferOut(st, e)]
      [] OTHER ->
             LET r == DrawGate(e, ar, fl, st)
             IN  [items |-> r.items, width |-> r.width,
                  st |-> [r.st EXCEPT !.tr = @ \cup {e}]]

\* The loop over event->args(): argument i is placed after the width so
\* far, with m_space before every argument but the first.
Place(a, i, ar, fl, st, width, placed) ==
    IF i > Len(a) THEN [st |-> st, width |-> width, placed |-> placed]
    ELSE LET c  == Child(a[i], ar, fl, st)
             w0 == IF i = 1 THEN width ELSE width + Space
         IN  Place(a, i + 1, ar, fl, c.st, w0 + c.width,
                   Append(placed, [items |-> c.items, at |-> w0 + c.width \div 2]))

\* Mutant: the children are not shifted left by m_width / 2.
DrawGateNoShift(g, ar, fl, st) ==
    LET p == Place(ar[g], 1, ar, fl, st, 0, <<>>)
    IN  [st |-> p.st, width |-> p.width,
         items |-> <<Item(g, "gate")>> \o
                   FoldLeft(LAMBDA acc, c : acc \o Shift(c.items, c.at), <<>>, p.placed)]

\* The Gate constructor: its own symbol, then the children shifted left
\* by m_width / 2.
DrawGate(g, ar, fl, st) ==
    LET p == Place(ar[g], 1, ar, fl, st, 0, <<>>)
    IN  [st |-> p.st, width |-> p.width,
         items |-> <<Item(g, "gate")>> \o
                   FoldLeft(LAMBDA acc, c : acc \o Shift(c.items, c.at - p.width \div 2),
                            <<>>, p.placed)]

EmptyScene == [items |-> <<>>, out |-> {}]

\* What DiagramScene::redraw() draws and connects for a non-null m_root:
\* the scene, m_root with every gate in the transfer map, and the basic
\* event arguments of those gates.
Drawing(ar, fl, rt) ==
    LET r     == DrawGate(rt, ar, fl, [tr |-> {}, out |-> {}])
        drawn == {rt} \cup r.st.tr
    IN  [scene  |-> [items |-> r.items, out |-> r.st.out],
         gates  |-> drawn,
         events |-> BasicEvents \cap UNION {Range(ar[g]) : g \in drawn}]

\* Mutant: redraw() connects formulaChanged of m_root only.
RedrawLinkRootOnly(ar, fl, rt) ==
    IF rt = NoGate
    THEN UNCHANGED <<scene, gateLinks, eventLinks>>
    ELSE LET D == Drawing(ar, fl, rt)
         IN  /\ scene' = D.scene
             /\ gateLinks' = gateLinks \cup {rt}
             /\ eventLinks' = eventLinks \cup D.events

\* DiagramScene::redraw(): the early return on a null m_root, else clear(),
\* draw, and connect (Qt::UniqueConnection, so the links only grow).
Redraw(ar, fl, rt) ==
    IF rt = NoGate
    THEN UNCHANGED <<scene, gateLinks, eventLinks>>
    ELSE LET D == Drawing(ar, fl, rt)
         IN  /\ scene' = D.scene
             /\ gateLinks' = gateLinks \cup D.gates
             /\ eventLinks' = eventLinks \cup D.events

\* The DiagramScene constructor on a loaded model: redraw(), then connect
\* the model's removed(Gate*) signal.
Init ==
    /\ args \in [Gates -> UNION {ArgChoices(g) : g \in Gates}]
    /\ \A g \in Gates : args[g] \in ArgChoices(g)
    /\ flavor \in [BasicEvents -> Flavors]
    /\ root = GateOrder[1]
    /\ scene = Drawing(args, flavor, root).scene
    /\ gateLinks = Drawing(args, flavor, root).gates
    /\ eventLinks = Drawing(args, flavor, root).events

\* An edit of gate g's formula emits formulaChanged, which runs redraw()
\* at once if it is connected.
SetArgs(g, a) ==
    /\ args' = [args EXCEPT ![g] = a]
    /\ IF g \in gateLinks THEN Redraw(args', flavor, root)
                          ELSE UNCHANGED <<scene, gateLinks, eventLinks>>
    /\ UNCHANGED <<flavor, root>>

\* A basic event turned basic <-> undeveloped emits flavorChanged.
SetFlavor(e, f) ==
    /\ flavor' = [flavor EXCEPT ![e] = f]
    /\ IF e \in eventLinks THEN Redraw(args, flavor', root)
                           ELSE UNCHANGED <<scene, gateLinks, eventLinks>>
    /\ UNCHANGED <<args, root>>

\* The removed(Gate*) handler: only the removal of m_root itself clears
\* the scene and nulls m_root.
RemoveRoot ==
    /\ root # NoGate
    /\ root' = NoGate
    /\ scene' = EmptyScene
    /\ UNCHANGED <<args, flavor, gateLinks, eventLinks>>

Next ==
    \/ \E g \in Gates : \E a \in ArgChoices(g) \ {args[g]} : SetArgs(g, a)
    \/ \E e \in BasicEvents : \E f \in Flavors \ {flavor[e]} : SetFlavor(e, f)
    \/ RemoveRoot

Spec == Init /\ [][Next]_vars

-----------------------------------------------------------------------------
(***************************************************************************)
(* The scene is never stale: after any sequence of edits it is what a     *)
(* fresh redraw() of the current model would draw (empty once m_root is   *)
(* removed).  This rests on redraw() connecting every gate of the transfer *)
(* map and every basic event it draws, not only m_root.                    *)
(***************************************************************************)
SceneCurrent ==
    scene = IF root = NoGate THEN EmptyScene ELSE Drawing(args, flavor, root).scene

\* The gates reachable from g, and how many reachable gates list x.
RECURSIVE Reach(_)
Reach(g) == {g} \cup UNION {Reach(c) : c \in Range(args[g]) \cap Gates}
Parents(x) == {p \in Reach(root) : x \in Range(args[p])}
Count(ev, kinds) ==
    Cardinality({k \in DOMAIN scene.items : scene.items[k].ev = ev /\ scene.items[k].kind \in kinds})

(***************************************************************************)
(* The transfer scheme of the Gate constructor: every gate below m_root is *)
(* drawn in full exactly once and as a TransferIn at each of its other     *)
(* parents; exactly the gates with a TransferIn carry the transfer-out     *)
(* mark; every basic event is drawn once per parent with its flavor, and   *)
(* nothing unreachable is drawn.                                           *)
(***************************************************************************)
TransferScheme ==
    root # NoGate =>
        /\ \A g \in Gates :
               /\ Count(g, {"gate"}) = IF g \in Reach(root) THEN 1 ELSE 0
               /\ Count(g, {"transfer_in"}) =
                      IF g \in Reach(root) \ {root} THEN Cardinality(Parents(g)) - 1 ELSE 0
        /\ scene.out = {g \in Reach(root) \ {root} : Cardinality(Parents(g)) > 1}
        /\ \A e \in BasicEvents :
               /\ Count(e, {flavor[e]}) = Cardinality(Parents(e))
               /\ Count(e, Flavors \ {flavor[e]}) = 0

(***************************************************************************)
(* The layout of the Gate constructor never overlaps two symbols: any two  *)
(* items on the same level, in different subtrees included, are at least  *)
(* a symbol width plus m_space apart.                                      *)
(***************************************************************************)
NoOverlap ==
    \A i, j \in DOMAIN scene.items :
        (i # j /\ scene.items[i].d = scene.items[j].d) =>
            \/ scene.items[i].x - scene.items[j].x >= LeafWidth + Space
            \/ scene.items[j].x - scene.items[i].x >= LeafWidth + Space
=============================================================================
