# TLA+ model of SCRAM fault tree analysis

This directory holds a model-checking development of `FaultTreeAnalysis`
(`src/src/fault_tree_analysis.cc`). That class turns a fault tree into its
minimal cut sets (MCS) and then quantifies the probability of the top event.
Two parts of the GUI are modelled as well: the fault tree diagram
(`src/gui/diagram.cpp`) and the HTML report writer
(`src/gui/htmlreportgenerator.h`).

## 1. Inventory of the system

| Part | Source | State | Operations |
|------|--------|-------|------------|
| Analysis configuration | constructor, lines 25-90 | `analysis_`, `approx_`, `limit_order_`, `nsums_`, plus initial values (`top_event_index_ = -1`, `max_order_ = 1`, `p_total_ = 0`) | argument validation, which throws `ValueError` |
| Indexer | `AssignIndices`, lines 504-537 | `int_to_prime_`, `prime_to_int_`, `int_to_inter_`, `inter_to_int_`, `iprobs_`, `top_event_index_` | numbers the primary events 1..N in `boost::unordered_map` order behind a dummy at 0, then the top gate, then the other gates |
| Cut Set Expansion Engine | `ExpandSets`, `SetOr`, `SetAnd` (lines 272-456), plus the loop in `Analyze` (lines 122-148) | the work stack `inter_sets` of Supersets (primes plus unexpanded gates) and `cut_sets` | per gate type and polarity, the expansion rules; then pop, discard when oversized, collect when it has no gates, otherwise `PopGate`, expand, and `InsertSet` with a contradiction check |
| Minimality Reducer | `Analyze` lines 150-187, and `FindMCS` lines 458-501 | `imcs_`, `max_order_`, `min_cut_sets_` | singleton extraction, then the level-by-level recursion of `FindMCS`, then `SetsToString` |
| Probability Quantifier | `Analyze` lines 189-270, and `ProbOr`, `ProbAnd`, `CombineElAndSet`, `MProbOr` (lines 556-649) | `prob_of_min_sets_`, `imp_of_primaries_`, `p_total_`, `pos_terms_`, `neg_terms_`, `warnings_` | the nsums clamp; Monte Carlo term generation; or the set probabilities, the total (rare, MCUB or exact), and importance |
| Canonical Diagram Engine | `src/src/zbdd.h` | declaration only | ConvertBdd, Subsume, Minimize, GenerateCutSets, counting |
| Fault tree diagram | `src/gui/diagram.cpp` | the scene's items, `m_root`, and the signals connected to `redraw` | `DiagramScene` construction, `redraw`, the root-removal handler; the `Gate` constructor's transfer scheme and layout |
| HTML report | `src/gui/htmlreportgenerator.h` | per table its header, rows and `cols`; per image list its paths, captions and scales; the generator's file and `contentElements` | table constructors, `setHeader`, `addRow`, `addImage`, `clearImage`, `toHTMLString`; the generator's constructor, `addReportElement`, `doWrite`, destructor |
| Report tree and printing | `src/gui/reporttree.h`, `printable.h` | declarations only | a read-only Qt item model and a print-dialog mixin |

How the parts interact: `Analyze` is one synchronous call. It runs the
Indexer, then the expansion loop, then the reducer, then the quantifier, in
that order.

Nothing is concurrent. The hard behaviours are:

- **Nondeterminism the code does not control.**
  - The iteration order of `boost::unordered_map` decides the indices.
  - Through the indices, it decides the `std::set` order in which `ProbOr` and `MProbOr` take the sets.
  - `Superset::PopGate` may pick any gate, and the spec lets it.
- **Sign bookkeeping.** Polarity under NOT, NOR and NAND, XOR's `j`, and the vote negation trick.
- **Off-by-one bounds.** The limit, the vote growth, and the `nsums` cut of inclusion–exclusion.
- **Erasure.** `ProbOr` and `MProbOr` erase from `imcs_`, which they receive by reference.

Properties each part needs:

- Indexer: well-typed tables.
- Expansion: soundness and completeness against the Boolean semantics of the tree, and exact pruning.
- Reducer: the antichain invariant and termination.
- Quantifier:
  - exactness;
  - the truncation bounds;
  - MCUB and rare-event upper bounds;
  - a Monte Carlo equation that sums to the exact value.

## 2. Modules

- **`FaultTree.tla`** describes the tree, which is the input and never changes.
  - Constants: `Primaries`, `Gates`, `Top`, `GateDef` (type, children sorted by name, vote number), and `Prob` (in units of `1/Denom`).
  - `WellFormed` holds the child-count assertions of `ExpandSets`.
  - It also gives the reference semantics:
    - `Occurs`, a recursive evaluation of a gate for a set of failed events;
    - `IsImplicant` and `CoherentMinimal`;
    - `RefTopProbability`, a sum over all failure combinations.

  These are the specifications that the code is checked against, not translations of the code.
- **`ProbabilityQuantifier.tla`** holds the pure recursive algorithms as operators: `ProbAnd`, `CombineElAndSet`, `ProbOr` and `MProbOr`.
  - `FirstSet` and `SetLess` reproduce the lexicographic order of `std::set<std::set<int>>`, so `begin()` picks the same set as the code does.
  - `ProbOr` and `MProbOr` also return what is left of the set they erase from, because the code passes it by reference.
- **`FaultTreeAnalysis.tla`** is one `Analyze` call as a state machine, with `pc` ∈ analyze → seed → expand → findmcs → prob → done. Each loop iteration or recursion level is one step.

  | Action | Code |
  |--------|------|
  | `AssignIndices` | `AssignIndices`. Every unordered_map order is a choice over `PrimeOrders` and `GateOrders`. |
  | `ExpandTop` | `ExpandSets(top_event_index_, inter_sets)` |
  | `DiscardOversize`, `CollectCutSet`, `ExpandGate` | the three outcomes of one iteration of the `while` loop. `ExpandGate` includes `PopGate` (any gate), `ExpandSets` and `InsertSet`. |
  | `NoCutSets` | the early return with the warning |
  | `StartFindMCS` | singleton extraction and the call `FindMCS(unique, imcs_, 2)` |
  | `FindMCS` | one recursion level |
  | `FinishMCS` | the recursion's empty return, plus `SetsToString`, `analysis_done_`, the `!prob_requested_` return and the nsums clamp |
  | `MonteCarlo` | the `analysis_ == "mc"` branch |
  | `QuantifyProbability` | the default branch: set probabilities, one of `RareEvent`, `Mcub` or `Exact`, and then importance |
  | `Reanalyze` | the entry of a second `Analyze` call on the same object (lines 92-110) |

- **`MCSAnalysis.tla`** is the abstract specification of what an MCS analysis promises (spec sections 2 and 4.3), independent of how the sets are found. Its state is `done` and `mcs`, and its one action `Publish` sets `done` and publishes a collection that is `Acceptable`:
  - every member is a consistent implicant of the top event with at most `LimitOrder` literals;
  - no member contains another;
  - without pruning, every failure of the top event satisfies some member;
  - on a coherent tree, it is exactly `CoherentMinimal(LimitOrder)`.

  `FaultTreeAnalysis` instantiates it with the refinement mapping `done <- analysis_done, mcs <- min_cut_sets` and checks `MCSRefinement == Abstract!Spec`. Every step of the detailed analysis other than `FinishMCS` leaves the mapped state unchanged (a stuttering step). The first `FinishMCS` is `Publish`; on a later call of the same tree it adds the same sets again, which is also a stuttering step.
- **Repeated calls.** The constant `AnalyzeCalls` says how many times `Analyze` is called on one object, and the variable `calls` counts the calls.
  - `Reanalyze` is the entry of a later call. The locals start empty again, and every member keeps its value.
  - `AssignIndices` on a later call is its second disjunct. `top_event_index_ != -1` there, and `std::map::insert` keeps the old keys, so the index tables are unchanged. `iprobs_` is different: every call pushes a dummy 0 and then, only if `prob_requested_`, the probabilities (`PushBackProbs`), while `ProbAnd` reads `iprobs_[1..N]`. Those are the right values only if the first call requested probabilities.
  - `MinSetProbs` is `prob_of_min_sets_` after the inserts of a call, where old keys win (`@@`).
- **The constructor arguments.** `approx` is `approx_` and `analysis` is `analysis_`. `Init` chooses them from the constants `ApproxArgs` and `AnalysisArgs`, the constructor arguments a run considers, and `Next` keeps them unchanged. `prob_requested` is the argument of `Analyze`: `Init` chooses it from `ProbRequestedArgs`, and `Reanalyze` chooses it again for every later call.
- **`Diagram.tla`** models the fault tree diagram of the GUI (`src/gui/diagram.cpp`).
  - State: the model's formulas `args` and basic event `flavor`; `root` (`m_root`); the `scene`; and `gateLinks` and `eventLinks`, the gates and basic events whose `formulaChanged` and `flavorChanged` signals are connected to `redraw`.
  - `DrawGate`, `Place` and `Child` are the recursive `Gate` constructor: the loop over the arguments, and the formula visitor with its transfer-map lookup. `Item` and `Shift` abstract each symbol to its event, its kind, its x in units of `units().width()`, and its depth.
  - Actions: `Init` (the `DiagramScene` constructor), `SetArgs` and `SetFlavor` (a model edit whose signal runs `redraw` at once if connected, since Qt direct connections are synchronous), and `RemoveRoot` (the `removed(Gate*)` handler).
  - The edits themselves are in `src/model`, which is not in the repository. The model allows any acyclic formula of distinct, uncomplemented arguments (the `GUI_ASSERT`).
  - `m_width` is taken to start at 0 (its initializer is in `diagram.h`, which is not in the repository).
- **`HtmlReport.tla`** models the HTML report writer (`src/gui/htmlreportgenerator.h`), a header-only template that nothing in `src` instantiates yet.
  - A string is a member of `Cells` or `Empty` (`StringType()`). A vector of strings is `[cells, size]`: its size and the strings it starts with, every later element being empty. This is what makes the 256-column table of `cols = -1` cheap to represent.
  - `CopyStringVectorAndComplete` is `copyStringVectorAndComplete`: `resize(n)` keeps the first `n` old elements, the loop overwrites the first `min(n, |src|)`, and a short source gets `n - |src|` more empty elements appended.
  - `NewTable` and `NewTableCols` are the two `ReportItemTable` constructors (`DefaultCols` is the narrowest-row search from 256); `TableHTML` and `IsValid` are `toHTMLString` and `isValid`; `ImagesHTML` and `Scale` are `ReportImages::toHTMLString` and the scale string of `addImage`.
  - Actions: `SetHeader`, `AddRow`, `SetInterlaceColor`, `AddImage`, `ClearImage`, `SetContent` (of a `ReportItemNormal`, whose content `Init` chooses as its constructors do), `AddReportElement`, `DoWrite`, `DoWriteFails` and `Destroy`. `DoWriteFails` is `writeContent` with one stream insertion failing (disk full): the elements before it reach the file, the stream's badbit stays set, and `doWrite` still returns true. `Init` runs the constructors of the items and of the generator, whose `file.open` may fail.
  - The file records, per `doWrite`, which elements were rendered. What each renders is `TableHTML` or `ImagesHTML` of the item at that step, because the generator holds `shared_ptr`s.
  - `given` is a history variable: the header and rows each table was last given, and the scales given to `addImage` since the last `clearImage`.
- **`MC_FaultTreeAnalysis.tla`** defines the trees the cfgs use:
  - a coherent tree with MCS {a}, {b,c}, {b,d,e}, {c,d,e} (orders 1 to 3, with a shared event);
  - a 2-of-3 vote over gates with no minimal cut set of order 1 (spec scenario D);
  - three non-coherent trees, N1 to N3. Between them they use every gate type under both polarities.

**Data abstraction.**

- Probabilities are exact integers:
  - a set's probability is scaled to `Scale = Denom^N`;
  - the MCUB value is a fraction with denominator `Scale^k`.
- Floating-point rounding is not modelled.
- The "not " prefix of `SetsToString` is a boolean on each literal.
- Warnings are tags, not text.

## 3. Runs

All `FaultTreeAnalysis` runs use `Spec` with `CHECK_DEADLOCK FALSE`, because `Analyze` returns and the final state has no successor.

| Run | Tree and bounds | Checks | What it shows |
|-----|-----------------|--------|---------------|
| coherent_limit | coherent, limit 2, no probability | TypeOK, MCSRefinement | The analysis implements `MCSAnalysis`: pruning of oversized sets is exact, and the result is published once. |
| coherent_truncated | coherent, no pruning, nsums 2, Denom 2, approx `no`, `rare` or `mcub` | MCSMinimal, TruncationBound, RareUpperBound, McubUpperBound | FindMCS yields an antichain although each level sees only the previous level's sets. Truncated inclusion–exclusion is a lower bound after 2 sums, for every index order. The rare sum and MCUB are each ≥ the exact value, also when the 0.1 warning fires (`p = 1/2`). |
| coherent_odd | coherent, no pruning, nsums 3, Denom 2, approx `no` | TruncationBound | The other half of the truncation rule: inclusion–exclusion cut after 3 sums (an odd number) is an upper bound, for every index order. |
| n1_exact | N1 (NAND, XOR, NOR, NOT, OR, negated VOTE), two calls | MCSSound, MCSComplete, ExactProbability | The expansion is sound and complete, and exact `ProbOr` equals the top probability, on the first call and on a second one that starts from the first call's tables, `imcs_` and `prob_of_min_sets_`. |
| n2_exact | N2 (NOR, INHIBIT±, VOTE±, NULL, AND, NAND), two calls | MCSSound, MCSComplete, MCSRefinement | Sound and complete; over two calls `min_cut_sets_` and `analysis_done_` behave as the abstract analysis, and the second call publishes the same collection again. |
| n3_exact | N3 (XOR at the top, NOT, INHIBIT, NULL), analysis `default` or `mc` | MCSSound, MCSComplete, MCTermsExact, Termination | The signed Monte Carlo term lists sum to the exact probability, and Analyze always reaches `done`. |
| vote_limit1 | 2-of-3 vote over an OR and an AND gate, limit 1 | CoherentExact | Spec scenario D: no cut set within the limit, and an empty result that is exact. The warning is output and not checked; a non-strict limit test gives the same empty result, so that case is checked by `MCSRefinement` in `coherent_limit`. |
| diagram | `MC_Diagram`: gates g1 > g2 > g3, basic event e1, house event h, formulas of 1 or 2 arguments | SceneCurrent, TransferScheme, NoOverlap | From every initial model, over every sequence of edits: the scene equals a fresh drawing of the current model; each reachable gate is drawn in full once, with a `TransferIn` at each other parent and a transfer-out mark exactly when it has one; and symbols on a level are at least a width plus `m_space` apart. It checks deadlock: an edit is always possible. |
| html_report | `MC_HtmlReport`: one table, one image list, one text item, one cell string, cols 2 or -1, up to 2 rows, 1 image, 2 elements, 2 writes (a success before a failing write) | TypeOK, RowsAsGiven, TailOnlyOnWholeReport | Every row a table renders is the row it was given, cut to `cols` or padded with empty cells, for both constructors and for `cols` computed from the rows (including 256 for no rows). A file that ends with the closing tags has its header and every element of every `doWrite`, even when an insertion fails part way. |
| reanalyze | N1, approx `rare`, analysis `default` or `mc`, two calls (**violation**) | TotalsOfThisCall | Finding: the second call adds to `p_total_` (line 227) and appends to `pos_terms_` and `neg_terms_` (line 637). |
| stale_iprobs | N1, two calls, `prob_requested` false then true (**violation**) | ExactProbability | Finding: `iprobs_` holds two dummies before the probabilities, so every probability is read one index early. |
| html_stale | `MC_HtmlReport` (**violation**) | RenderedAsGiven | Finding: `setHeader` keeps cells of a longer previous header, and `clearImage` leaves `imageScales`. |

The violation runs whose property has two halves were checked half by half as well: each half alone is violated. `TotalsOfThisCall` holds with one call.

Every run explores all index orders and all `PopGate` choices.

**Why the bounds are enough.**

- N1 to N3 have 3 primary events and up to 5 gates. Between them they reach each gate rule under both polarities, contradiction rejection, and duplicate cut sets.
- The coherent tree has minimal sets of three sizes, so FindMCS runs several levels.
- The bounds are kept small because TLC integers are 32-bit: `Scale^k` must not overflow.
- For the HTML report, one cell string is enough: a rendered cell is either the caller's string or the empty one, and that is all the properties tell apart. Headers and rows of 0 or 1 cells against `cols` 2 reach padding, the stale header cell (a header of 1 cell, then one of 0 cells), and the `cols = -1` cases of no rows (256) and an empty row (0). The items are independent, so their product with the generator is what bounds the run (about 570,000 states).
- Three gates in a fixed order are enough for a gate shared by two parents (g3 under g1 and g2), for a gate that becomes drawn only after an edit of its parent, and for two sibling subtrees of different widths. These are the cases in which staleness, the transfer scheme and overlap can go wrong. One basic and one house event cover both leaf kinds: a house event has no signal to connect.

Each property of a passing run has a mutant in `PROJECT.json`. A mutant is a plausible slip in the mapped code:

- an off-by-one;
- a dropped `1 -`;
- a wrong XOR sign;
- a missing `min_order++`.

TLC finds each mutant violated under the run's own cfg.

**Fairness.** `WF_vars(Next)`: `Analyze` is a single-threaded call, and nothing waits on anything else. Termination is checked only in `n3_exact`, because liveness checking is slow on the larger trees.

## 4. Findings

`ProbOr` and `MProbOr` erase the sets of `imcs_`, which they take by reference (lines 573 and 633). This is not a finding: `imcs_` is private scratch, the comment at line 572 says so, nothing reads it after `Analyze`, and the reported collection `min_cut_sets_` keeps every set (`MCSRefinement`; runs `n1_exact` and `n2_exact` rebuild `imcs_` correctly on a second call).

A second `Analyze` on the same object is not forbidden by the code or the spec, but the spec says each run is a pure function of (model, config). Nothing resets the members the quantifier accumulates into (run `reanalyze`):

- `pos_terms_` and `neg_terms_` are appended to, so the Monte Carlo equation counts every term twice;
- the rare-event branch does `p_total_ +=` (line 227), so it reports twice the sum.

`iprobs_` is pushed onto on every call: a dummy 0, then the probabilities only if `prob_requested_` (lines 513-521). After a call without probabilities, a call with them reads `[0, 0, p1, ...]`, so the exact total is wrong (run `stale_iprobs`). The spec names stale tables between runs with different probability assignments as a correctness hazard.

The MCS and the exact probability are still right on a second call with the same request (run `n1_exact`), because `std::map::insert` keeps the first call's entries, which are the same ones.

The HTML report writer has two stale-state bugs (run `html_stale`):

- `copyStringVectorAndComplete` resizes the target instead of clearing it, so `setHeader` with a shorter header keeps later cells of the previous one.
- `clearImage` clears the paths and captions but not `imageScales`, so an image added after the clear is rendered with the scale of the image that had its index before.

Three more observations are not run, because no property of a run states them: `setInterlaceColor(false)` turns off only the header's shading (rows 2, 4, ... are always shaded), the width set by `setWidthPixel` or `setWidthPercentage` is never printed, and `doWrite` returns true after an insertion fails part way (`DoWriteFails`), so a caller cannot tell a truncated report. The destructor's check of the stream does keep such a file without its closing tags (`TailOnlyOnWholeReport`, run `html_report`).

## 5. Not modelled, and the plan for later sittings

1. The Canonical Diagram Engine (`zbdd.h`) is not modelled: only its declaration is in the repository, with no definitions. The plan is a spec-modelled `Zbdd` module covering unique-table identity, `Subsume`, `Minimize` and cut-set extraction, shown to refine `MCSAnalysis` as `FaultTreeAnalysis` already does.
2. Two spec section 8 properties are planned:
   - polarity duality of `ExpandSets`;
   - vote(k=n) ≡ AND and vote(1) ≡ OR.

   Both would be pure operator checks over small gate sets.
3. The constructor's argument validation is `ValidConfig`, taken as an `ASSUME`, since a rejected configuration throws before any analysis. The `ValueError` for an unknown gate type is excluded by `WellFormed`.
4. `Analyze` takes the fault tree as an argument, so a second call may pass a *different* tree. The model's tree is a constant, so only a repeated call on the same tree is checked. With a different tree, the stale `prime_to_int_` and `imcs_` would mix the two trees' results. That case is listed as a hazard with no property.
5. Not modelled because they are pure I/O or formatting: the report tree and printing (declarations only), the titles, the heading level, widths, alignment, borders, padding and locale of the HTML report (text printed verbatim), the painting and vertical geometry of the diagram, timing, and the wording of warnings.
6. The removal of a non-root gate from the model is not an action of `Diagram`. The handler ignores it, so a drawn gate that is removed would keep items that read the deleted element. Whether the model allows removing a gate that a formula still lists is decided in `src/model`, which is not in the repository.
