# P4Visor in TLA+

P4Visor merges two P4 programs - the *production* program and a *testing* program - with a
small *metadata* program, the testing operator, into one program for the bmv2 switch. The
merged program either splits traffic between the two versions (A-B testing) or sends marked
packets through both and compares the results (differential testing). Tables of the two
programs may share a merged table; which ones do is an instance of maximum weighted
independent set, handed to an external solver, `mwis`, kept in the same repository.

This directory models the parts of that pipeline in which a mistake is quiet: the passes
between a parsed program and its table graph, the merging of tables and parsers, the solver,
what is derived from the graphs, and the merged program at run time. Every definition is
translated from the code under `src/`; `PROJECT.json` names the lines each one stands for,
the properties every run checks, the hazards they are about, and the findings.

    tlc  -workers 4 -config MCSolution.cfg MCSolution.tla      # any MC*.cfg, with its module
    tlapm SolutionProofs.tla              # any *Proofs.tla, and Lemmas.tla

## 1. Inventory

How the parts interact: `__main__.py` builds three programs with p4_hlir (metadata,
production, testing), has `SP4_merge.py` write a table merge graph to a file, runs `mwis`
on it, reads the result, merges the programs, and has `gen_json.py` write the JSON that
bmv2 loads. At run time the switch runs the merged program while controllers add table
entries through `runtime_CLI.py`, with names translated by PVM.

| Component (source) | State | Operations | What makes it correct | Modelled |
|---|---|---|---|---|
| mwis `Graph` (`mwis/src/Graph.*`) | adjacency lists, weights | add/remove edge, sort, read a file plainly or complemented | a simple graph, lists sorted and without repetition | `WeightedGraph`, `Lemmas` |
| mwis `Solution` (`mwis/src/Solution.*`) | one permutation in three blocks, its inverse, `tightness_`, `mu_`, `weight_` | `addVertex`, `removeVertex` and four block moves | members pairwise not adjacent; blocks, counters and sums agree, in the middle of calls too | `SolutionOps`, `Solution`, `IndependentSet`, `Lemmas`, `SolutionProofs` |
| mwis annealing (`mwis/src/main.cpp`) | three `Solution` objects, temperature, patience, rounds | greedy start, shake, fill, two improvements, accept | every solution sound; what is written is the best set seen; termination | `LocalSearch`, `LocalSearchProofs` |
| mwis exact solver (`mwis/src/main.cpp`) | activations of `BronKerbosch`, best set so far | branch, record, return | no maximal clique lost; the optimum printed | `BronKerbosch`, `BronKerboschProofs` |
| p4_hlir table graph (`p4_hlir/hlir/p4_tables.py`) | nodes, `next_`, `base_default_next`, `visited` | build a graph from a control function, patch open edges, reject repeats | a packet meets exactly the calls of the source | `TableGraph`, `TableWalk` |
| Merge of tables (`p4c_bm/SP4_merge.py`) | dictionaries of nodes by name; edges of three programs | `AB_merge_p4_tables`, `DF_merge_p4_tables` | the merged graph is the graph of the merged P4 program | `MergeTables`, `MergedWalk` |
| gen_json (`p4c_bm/gen_json.py`) | - | dump the nodes reachable from each entry, edges by name | every name resolves to the node that was meant | `MergeTables` (`DumpPipeline`, `Resolve`) |
| Differential testing (`p4c_bm/SP4_metas_diff.p4`) | a packet, its metadata, the traffic control table | mark, run, record, recirculate, compare, report | testing is harmless; the comparator is exact | `DiffTesting`, `DiffTestingProofs` |
| A-B testing (`p4c_bm/SP4_metas_ab.p4`) | traffic control table | go to production or to testing | each packet runs one version, whole | `MergedWalk` (control flow) |
| Merge of parsers (`SP4_merge.py` 935-1097) | parse states of three programs, shared objects | rename, put the tag state in front, join the branches of `parse_ethernet` | a frame is parsed as by its own version | `ParserRun`, `ParserMerge`, `ParserMergeProofs` |
| Table merge graph (`SP4_merge.py`, `__main__.py`) | numbers of tables, edges, two files | search for reusable tables, conflicts, write, solve, read back | a number stands for one table of each program; what is picked can be merged | `TableMergeGraph`, `TableMergeGraphProofs` |
| Frontend (`frontend/semantic_check.py`, `unused_removal.py`, `hlir/main.py`) | objects, symbol table, marks | check, type, remove formals, check stateful references, trim, build | a program keeps its meaning, and what is accepted can be built | `Ast`, `Frontend` |
| Renaming (`frontend/dumper.py`) | names of the testing program | dump the objects, with `_SHADOW` | applied to every object and to every reference to it | `Frontend`; tables in `MergedWalk` |
| Conditional optimisation (`p4_tables.py` 404-643, `exclusive_conditions.py`) | table graph, conditional barriers | bypass decided conditions, remove useless ones, purge | no packet's path changes | `TableOptimize`, `TableWalk` |
| Table dependencies (`table_dependency.py`, `dependency_graph.py`) | dependency graph | kinds of dependency, reduction, stages, critical times | no conflict forgotten; stages the least that keep it | `TableDependency`, `Stages`, `StagesProofs` |
| PVM (`PVM/PVM_translate_cmd.py`) | map of names | replace names in commands | every name replaced once | planned (section 7) |
| runtime_CLI (`tools/runtime_CLI.py`) | - | table commands | - | the effect on the traffic control table |
| Lexer and grammar, `gen_pd.py`, `of.py`, drawings, option parsing, FPGA programs | - | one pass over text | - | no (section 8) |

What is hard here. There are no threads in the compiler and in mwis; what hides errors is
*passes that edit what later passes read* (the symbol table, the formals, the edges of the
table graph), *results that depend on the order of a dictionary*,
*long sequences of legal calls* on redundant state (Solution), *combinations of shapes*
(every nesting of conditions, switches and invoked functions), *dictionaries by name*
shared by three programs, and *edges rewired in several passes*. At run time there is real
concurrency: a packet passes the traffic control table twice, and the controller may have
changed the table in between; results recorded in the first pass are used in the second.
`PROJECT.json` lists each hazard with its line.

## 2. Modules

    WeightedGraph <- SolutionOps <- Solution                          IndependentSet (abstract)
                 |              \-- LocalSearch
                 |-- BronKerbosch
                 \-- TableMergeGraph
    Lemmas (over SolutionOps) <- SolutionProofs, LocalSearchProofs, BronKerboschProofs,
                                 TableMergeGraphProofs, StagesProofs, ParserMergeProofs
    Ast <- Frontend
    TableGraph <- TableOptimize <- TableWalk
               \-- MergedWalk --> MergeTables
    TableDependency <- Stages <- StagesProofs
    ParserRun <- ParserMerge <- ParserMergeProofs
    DiffTesting <- DiffTestingProofs
    MCGraphs, and for every run a module MC... that names the instances; MCStages joins Stages
    and TableOptimize: it analyses graphs that were built and optimised

Operators named for a mistake (`...Skipped`, `...Unguarded`, `AnyStaticAllowed`, `MarksListed`)
are broken variants of the definition after them. `PROJECT.json` pairs each property with
one: with the variant in place the property fails.

### 2.1 The solver

`SolutionOps` has the fields of a Solution as a record and every method as an operator;
each swap writes `solution_` and `position_` separately, as the code does. `Solution` turns
`addVertex` and `removeVertex` into actions: `AddCall` and `RemoveCall` are what happens
before the loop over the neighbours, `AddLoop` and `RemoveLoop` one turn of it, `Return` its
end. The states in the middle of a call are therefore states of the model, which is where
the block moves act. Callers in the code add free vertices and remove members only; the
guards say so. `IndependentSet` is the promise: a set that grows by a vertex without a
neighbour in it and shrinks by a member. `ImplementsIndependentSet` is the refinement.

`LocalSearch` follows `main` with a program counter; the module comment lists its points.
Random draws are existential choices, so that every seed is covered. `target` is the option
of that name. The temperature is a countdown: `FINAL_T` and `COOLING` only decide how many
iterations a round has. In the last of the rounds the code's `COOLING` becomes exactly 1,
so that only the patience counter ends it; the model keeps that.

`BronKerbosch` keeps the recursion as a stack of frames with the parameters the function
takes by value, and the erasing loop over a copy of `P` as it is written.

### 2.2 From a parsed program to its HLIR

`Ast` is a program as the grammar hands it over: a sequence of objects, each with the
references it makes, and of every reference the place it is made from, because each pass treats
places differently. `Frontend` is `HLIR.build` with one action per pass: `Check` and `Typing`
of the first round, `Args` (one turn of the loop that removes unused formals and the arguments
at their positions), `StatefulPass`, `Cases`, `Start`, `Trim` (one turn of the removal of
unused objects), `DumpPass` (the text the second round reads, with the names of the testing
version) and `ValidatePass` (p4_validate with the types of action arguments). It ends
accepted, rejected, or crashed where Python would raise. The properties:

- `EffectKept`: removing formals, round after round, leaves what every action does as it was.
- `CountersStay`: an accepted program touches a direct or static counter only from actions of its
  own table. The first round looks at the first reference of a name only (`check_stateful_refs`
  edits the symbol table as it goes), so this rests on the second.
- `NothingDangles`: every reference of a production program that the first round keeps can be
  resolved by the second, except from a stateful object to its table, where the compiler does
  crash when the table was trimmed; and no action that has lost its body still has formals.
- `TestingSame`: a program is judged alike as production and as testing, wherever the dumper
  renames every place it uses. Where it does not - default actions, the cases of a table with hit
  or miss under it, stateful objects passed through formals, references by a name that a primitive
  has, and meters, whose dump uses a name that is not imported - the testing version alone is
  rejected or crashes, and the property excludes it by name.

Seen on the way: a formal with the name of an object empties that name's types for the later
passes (a formal called `start` makes the compiler find no start state); the data of a default
action is not adjusted when formals are removed; cases below cases are not checked. A testing
program whose table, action profile or action has the name of a primitive is declared under its
new name and referred to by the old one (`Shadowed`): the lookup fails, or finds the primitive,
which the table then has instead if table data will do for all its parameters (`no_op`). A program
crashes, rather than being rejected, on a cycle of control calls, on a binding to a table that was
trimmed, and on an exception that resumes at a control function which is no entry point.

### 2.3 From control functions to merged pipelines

`TableGraph` begins with the reference: calls as records, and `Unfold`/`Continue`, what is left to
run after an outcome. The rest is `_p4_control_flow_to_table_graph`, one operator per
kind of call: the list of parents whose open edges the next call fills, `visited`, the
numbering of conditions by `program_version`. `TableWalk` sends a packet through the graph
and keeps what the source still asks for beside it: `SameAsSource` says they agree at
every node, for every outcome of every table.

`TableOptimize` is `optimize_table_graph`: the solver that decides a condition from the conditions
around it and from which headers the parser can extract together; the bypassing, one edge after
the other in the order of the dictionary; the barriers; the removal of conditions whose arms meet,
with the redirection of `base_default_next`; the purge. `TableWalk` runs on its result:
`SameAsSource` holds for every set of headers some path of the parser extracts. Actions that
change the validity of headers are not in the model: `_set_modified_hdrs` starts from the empty
set and intersects, so the solver knows of none, and a test of a header that only an action adds
is removed. `MergedWalk` merges graphs as they are built, without the optimiser.

`MergeTables` puts the dictionaries of three programs together by *name* - a later object of
a name replaces an earlier one, as `dict.update` does - and rewires the edges.
`DumpPipeline` keeps only nodes reachable from an entry, and edges become names, resolved
in the pipeline they are used in: an object lost under its name shows as a packet that
arrives at the wrong node. `MergedWalk` compares the walk with `Source`, the merged program
written as one P4 program: the metadata program's control function with the two programs
invoked where its comments have their place.

`ParserRun` is the parser of the target, for any set of states: it takes one header after the
other off a frame. `ParserMerge` keeps parse states as objects in a heap, because several
dictionaries share them and a rename or a new branch is seen through all of them. `MergeParsers`
is `merge_parser_states`, and `Dumped` what gen_json writes of it. `find_accessible_parse_states`
stops at what it has met; `Reached` goes on for as many rounds as there are objects instead,
which comes to the same set.

Then the order of the deparser is found as `produce_parser_topo_sorting` does. `walk_rec` is a
recursion in depth, `todo` the calls it has still to make, in their order: `Visit` is a call that
goes on, with the header just extracted as the next one's predecessor; `Skip` one that has been
made before; `CutLoop` one whose state is on the way to itself. The nodes of the graph are header
*objects*, each of one program (`Header`): two programs that parse ipv4 have two nodes of that name.
`Sort` takes any order the sorting may return, `GiveUp` is the end of the compiler when a cycle
leaves none. Header stacks and the pragma `header_ordering` are left out; a state extracts at most
one header.

Then frames arrive at the merged parser. Two properties are refinements of `ParserRun`:
`UntaggedAsProduction` says that on frames without the tag it runs, state by state, as
production's parser alone, and `TaggedAsTesting` that on frames with the tag it runs as testing's
on what was tagged, which is at `parse_ethernet` until the tag is off. `EmitsOwnAsParsed` is about
the deparser, for parsers without loops (`LoopFree`; around a loop a header is parsed again,
behind those it stands before in any order): the headers of a frame, as the objects of the program
that parsed it, are in the order, one behind the other as they were parsed. It does *not* say that
the frame is put together again as it was. The order in the JSON is a list of names, and a header
that both programs parse is in it twice, as ipv4 is in
`cases/merge-DiffTesting/router_merged.json:414`; the target emits a valid header wherever its
name stands. The third part of the property says exactly when that happens: when the other program
has a reachable state for a header of this name.

### 2.4 What is derived from the graphs

`TableMergeGraph` is class `Graph` of `SP4_merge.py` and its use in `__main__.py`: numbers for the
tables of production, then table by table of testing a shared number (`ReuseTable`) or a fresh one
(`NumberFresh`); conflict edges; the instance file; the solver's result file, to which it appends;
reading it; and compiling again into the same directory, where the old files still are. The solver
is what `LocalSearch` promises, a maximal independent set. `ReuseMatched`: shared numbers match
tables of one key one to one. `ReuseComplete`: of every kind of key as many tables are shared as
the poorer program has. `InstanceExact`: the file, read by `ReadInstance` of `WeightedGraph`, is
the graph that was meant. `PickedUnopposed`: no two picked tables are neighbours in opposite
orders in the two programs, and every shared table left out is so with a picked one. Only *direct*
edges count: `SP4_isReachable` returns before its search, and two shared tables ordered through a
third one are missed. The numbers the compiler reads back are used nowhere yet (`SP4_merge_id`),
the egress merge id is the constant 1, and the keys of two tables are the same if the match type
of their *first* field and the total width are.

`TableDependency` takes a program as it is when the optimiser is done, with its table graph.
`ProgramsAssumption` is what it may rely on: a finite graph without a cycle, as p4_validate asserts
of it, and conditional barriers that are nodes in front. The module follows each edge of the graph
to everything behind it and gives a pair of tables the kind of the dependency found last, then marks
those that follow from others. `Stages` builds from it the graph with one node per table and counts
stages, or with a match and an action node per table and computes earliest and latest times.
Dictionaries of Python 2 have no order one can rely on; every order is tried. `NothingForgotten`: if
on some path one table passes a field to another, or overwrites it, there is a dependency between
them, and whatever is under a condition depends on it. `ReductionKeeps`: a dependency marked
redundant follows from those left by a path at least as strong. (The *latest* times of the split
graph are not kept by the reduction: an action dependency hidden behind a chain no longer holds its
table back.) `StagesLeast`: every dependency, redundant ones included, is respected by the stages,
and no table is later than they ask for. `TimesAgree`: no node is early enough to miss what it waits
for, the two passes agree on the length of the critical path, and nothing is due before it can be
done.

### 2.5 The merged program at run time

`DiffTesting` is one packet after the other in a switch with the merged program. `where` is
the node it is at, with the names of SP4_metas_diff.p4; each table or condition is an
action. `Configure` is any change of the traffic control table by the controller, between
any two steps of a packet. The two programs are routers as in `cases/merge-DiffTesting`:
a packet that is not ipv4, or has no hops left, is left alone; others get a port, one hop
less and a new destination address, or are dropped; egress may drop everything (`cut`).
`seen` is not state of the switch but of an observer: what happened to the packet, and
whether the two programs would have treated the packet *that came in* differently. What the
switch has in `egress_spec` after recirculation depends on the target: `standard_metadata`
is in the field list, but a target may have overwritten the field for egress; both are
tried (`Targets`).

## 3. What the passing runs show

| Run | Bound | What holds |
|---|---|---|
| `solution` | all 64 graphs on four vertices, weights 1, 2, 4, 8; any sequence of calls | permutation, independence, exact counters, free block, sums (no two sets of vertices weigh the same, so a wrong sum cannot be right by accident), the compiled-out assertions, the code's own `integrityCheck` between calls, refinement |
| `local_search` | all graphs on three vertices with three weightings, all on four with two, and a few picked; `OuterIters` 3, `NoChangeTime` 3, `NoImproveStop` 2, `Temperatures` 2, target 0 or 3 | the three solutions stay sound, `force` always has a victim, the best is never lost and is what is written, improvements gain weight, both loops end |
| `bron_kerbosch` | every conflict graph on four tables, with distinct, equal and zero weights | candidates and tried vertices split correctly in every activation, no heavier clique is given up, the optimum is printed, the search ends |
| `frontend` | four families of programs with one header, two actions, two tables, a stateful object of each kind, unbound, static or direct: what the actions do, how the tables are used, parsers, names of primitives; each as production and as testing | formals are removed without changing an action, counters stay with their table, nothing dangles, testing is judged as production |
| `table_walk` | 1 371 control functions: up to three tables, two calls in sequence, one of them nested a level deeper, opaque conditions, up to renaming of the tables; and up to three conditions on headers with every set of headers of a parser of four states | after the optimisation packets still meet exactly the calls of the source; only repeats are rejected |
| `stages` | eight shapes of control flow over three tables and a condition, 27 combinations of footprints, default actions, with and without reduction, one node or two per table; match latency 9, action latency 1 | no conflict forgotten, reduction sound, stages least, critical times consistent |
| `merged_pipelines` | 2 601 choices of two programs, operator and pipeline | the merged and dumped pipelines are exactly the merged program |
| `merge_graph` | 2 744 pairs of pipelines of up to three nodes, exact and ternary keys, two keys of one width, conditions; two compilations into one directory; all orders in which a free table can be found | numbers match one to one, as many as possible shared, the file is the graph, the picked tables are unopposed |
| `parser_merge` | 40 pairs of parsers, all 64 frames of four headers of which the last has a type nobody selects on, every order the sorting may return | untagged frames are parsed as by production, tagged ones as by testing; the order of the deparser has their own headers as they were parsed, and a second place exactly for those the other program parses too |
| `diff_testing` | two addresses, ports 0-3, 0 to 2 hops left, untagged, tagged and doubly tagged frames, all 25 tables, 13 pairs of routers, two changes of the table, both targets | see below |

`nested_conditions` and `difference_missed` are expected to fail; they are findings of section 4.
The type invariants, `TypeOK`, are proved for the seven models of section 5. The runs do not
repeat them: the properties above could not be evaluated on values of other types.

Why the bounds are enough. *solution*: a neighbour loop of three turns, a vertex moved from each
block to each other, and both boundary swaps degenerate and not, all occur on four vertices; the
theorems of section 5 cover the rest. *local_search*: four vertices give both improvements, shakes
of one and two vertices, and improvements that evict several members at once. *bron_kerbosch*:
four vertices give activations four deep and loops that erase several vertices before they go on.
*table_walk*: patching depends on the call and on the one after it; a level of nesting reaches
every recursive call; three conditions let one be decided by two others. *frontend*: two actions
give calls through calls, unused formals in both, and removal in two turns; two tables give a
wrong owner. *stages*: three tables are the least with a redundant dependency. *merge_graph*: two
shared tables in opposite orders with a third node, and two candidates for one table; the second
compilation meets the files of the first. *parser_merge*: parsers with and without a select on
ethernet, with masks, defaults that go on, states without extract, and equal names for different
states; two programs with one pair of headers in opposite orders, which the compiler accepts; a
program with both orders, for which it ends without a result; parsers with a loop, which the walk
cuts and a frame's last header leaves. Without loops no path is longer than the frame behind the
tag. *merged_pipelines*: the merge looks at ends and entries of the programs only, and the bound
has every kind of end. *diff_testing*: three passes of a packet, with a change of the table before
the second and the third.

In `diff_testing`:

- `TestsOnlyMarked`: whatever the controller changes, only marked packets that production
  has processed reach the testing program.
- `ComparesRecorded`: the comparator has the result of *this* packet.
- `LeavesSafely`: a packet leaves where production sent it, or to the controller; the
  testing program decides nothing.
- `ComparatorExact`: if the packet could still be routed when testing got it, it is reported
  if and only if the programs differ on the packet that came in. The condition is the
  point: without it the property fails (`difference_missed`).
- `MarkedIsCompared`: a packet that is gone with its mark was compared, or was dropped by
  production or in egress. Dropping is the exception that matters: bmv2 ends a packet with
  the drop port before it can be recirculated, so what production drops is never compared,
  although `readme.md` says the traffic is "split across all versions and the output is compared".
- `LeavesUnlessStray`: a packet leaves, unless the traffic control table keeps sending it,
  recirculated and marked, to production.

Restrictions of the passing runs, each because the code does go wrong outside of it:

- `MCTableWalk` leaves out functions that apply a table with cases under it twice. The branch for
  such tables in `p4_tables.py` (line 301 on) neither looks at `visited` nor adds to it, so the
  repeat is not rejected, the graph gets a cycle, and the recursion of `_find_conditional_barrier`
  never ends. The message "is invoked multiple times" of line 236 is never given.
- In control functions that name a table twice every table has a default action: a condition with
  the same table in both arms is removed, and a packet that missed just before it would skip the
  table (`MCKnownCondition.cfg`).
- A table in both arms of a condition on headers is in no control function of the run that tests a
  header afterwards. The table keeps the conditional barrier of the arm built last (`p4_tables.py`
  line 242), and the optimiser decides the test behind it as if every packet came from that arm
  (`Flows <- MCBothArms` in `MCTableWalk.cfg` shows a packet led past the right table).
- `MCParserMerge` pairs a production parser with its own 0x8100 branch with nothing
  (`MCVlanParser.cfg`). What the model asks of every pair is `PairsAssumption`: states do not
  branch back to `start` or `parse_ethernet`, both programs select on the type of ethernet if they
  select there, and no state is called `shadow_` and the name of a testing state, or
  `parse_shadow_tag` in production. Frames whose outer type is 0x8100 are the tagged ones, and
  have a header for the tag (`FramesAssumption`). Testing's `start` is used and production's is
  dropped, so both go to `parse_ethernet`, as the merge itself demands.
- `TableOptimize` has no disjunction of conditions, and `TableMergeGraph` no key of which only
  later fields differ.
- `MCMergedWalk` has the conditions of the two programs in the outermost sequence of their control
  functions (`nested_conditions` shows why), a default action on every table (`DefaultsSet`), as
  the commands files under `cases/` configure, and not the egress pipeline of A-B testing
  (`ab_egress`). Without default actions a miss in the last table of production follows
  `base_default_next`, which the merge does not rewire, and `SameAsSource` fails.

## 4. Findings

Each is a documented claim that what the code does violates. The first two are runs. The others
have a configuration beside the runs, with which TLC finds the counterexample
(`tlc -config MCStray.cfg MCDiffTesting.tla`).

| Configuration | Claim | What happens |
|---|---|---|
| `MCNested.cfg` (run `nested_conditions`) | conditions are numbered from 0, 10000 or 20000 by program (`main.py:85`) | recursive calls drop `program_version`; a nested condition takes a name of the metadata program, and packets go to the wrong condition |
| `MCDifference.cfg` (run `difference_missed`) | a difference between the programs can be detected from the comparator (`readme.md:200`) | testing gets the packet production has rewritten; with the last hop gone it decides nothing and production's own port is compared with itself |
| `MCStray.cfg` | the comparator comes at the end of the pipeline (`readme.md:89`) | the recirculated packet is looked up again by an address production may have rewritten; with the repository's commands it is recirculated for ever |
| `MCGotoTesting.cfg` | `goto_testing_pipe` sends a packet to testing (`readme.md:72`) | merged for differential testing it leads to `_condition_0`, and on to production (`SP4_merge.py:1303`) |
| `MCEgressAB.cfg` | the egress entry is to tell the two kinds of traffic apart | after an A-B merge all traffic runs the testing program's egress |
| `MCTwoOptimal.cfg` | `twoImprovement` checks whether there is *a* vertex of the list that is not a neighbour (`Solution.cpp:314`) | the walk in tandem ends with the shorter list (line 318); on a star no pair is examined |
| `MCKnownCondition.cfg` | `base_default_next` is where a miss without default action goes (`p4_tables.py:54`, `:59`) | the removal of a useless condition (line 543) sends such a packet past the table that follows |
| `MCStaticState.cfg` | a static register or meter is used from its own table only (the error of `semantic_check.py:644`) | only the first reference of a name is checked (line 619), and the second round knows counters alone |
| `MCWeakened.cfg` | all possible dependencies are computed (`table_dependency.py:465`) | a table that can be reached over two edges of another is visited once for each, and the later result replaces the earlier (line 482): a match dependency may end as a weaker one |
| `MCVlanParser.cfg` | a tagged frame is parsed as by testing | production's own branch for 0x8100 overwrites the one that leads to the tag (`SP4_merge.py:1088`) |

Seen while modelling, and visible in `DiffTesting` without a run of its own: no packet has
`instance_type` 1, so `Condition3` always takes the branch with the production egress and the
testing program's egress never runs; and on a target that clears `egress_spec` the same
program compared with itself is reported when its last hop is taken. In `ParserMerge`: a
header that both programs parse is emitted twice (section 2.3).

## 5. What is proved

Everything in this section holds for every value of the constants that the named assumptions
admit. Each assumption is evaluated by TLC on the instances of the runs. In every module an
inductive invariant is proved first, and the properties the runs check follow from it.

**Below all of them.** The code loops over lists, and the model folds over sequences and sets.
`Lemmas` shows that a fold goes through a trace of intermediate values, one per element, and shows
that sums over a finite set add up, whatever its size. Induction is over subsets or prefixes, with
the property given as a set, because the provers cannot instantiate an operator. Its second part
uses this for the graph itself: what `Keep`, `SortAdj`, `AddEdges`, `RemoveEdges` and `SetWeights`
make of a graph, and from these what `ReadInstance` makes of a file. A file is any number of
conflict lines, repeated or not. `ReadComplement` is the graph the exact solver works on;
`ReadAsListed` and `ReadWeights` are for the table merge graph.

**Solution** (the last part of `Lemmas`, `SolutionProofs`), for every set of simple graphs
(`GraphsAssumption`, which TLC confirms for the graphs of the runs): `PermutationKept`,
`AlwaysIndependent`, `CountersExact`, `WeightsExact`, `FreeBlockExact`, `CallsProgress`,
`AssertionsHold`, `IntegrityHolds`, `TypeCorrect`, and the refinement of `IndependentSet`
(`Refinement`: only `AddHead` and `RemoveHead` change the first block, every turn of a loop
stutters). Independence is not inductive: `addVertex` looks at block boundaries only, so it relies
on the free block being the vertices without a neighbour in the solution; that relies on the
counters; and in the middle of a call the counters are wrong by exactly what the call still owes.
Hence

    IInv == TypeOK /\ AddsUp

where `AddsUp` says that the fields are `Settled` between calls, and otherwise `AddingTo` or
`RemovingFrom` with the neighbours whose turn is still to come: those have a counter, and a `mu_`,
from before the call, all others the new one (`Accounted`). `AddVertexAdds` and
`RemoveVertexRemoves` put the turns of one call together, by induction along the adjacency list.
They are what the annealing is proved from.

**The annealing** (`LocalSearchProofs`), for every instance and every draw:

- `SearchIsSound`: `s`, `next_s` and `best_s` add up at every point of the program, and the best
  set dominates those accepted. `WritesMaximalSet`: what is written is a maximal independent set,
  in order, of the weight that is reported. `JudgedCannotGain`: when a solution is judged, no
  insertion of one vertex would improve it.
- `InsertTakesIn`: forcing a vertex in removes exactly the members beside it, and the weight
  changes by its `mu_`.
- `TwoSwapGains`: when `twoImprovement` finds something, one member is replaced by two of its
  neighbours, the result adds up, and the weight grows. That the two are not adjacent is what the
  walk in tandem over two lists decides, and it rests on both being sorted.
- `ImprovementsPay` and `GainsAreBounded`: every turn of the do-while loop gains weight, which the
  weight of the graph bounds. With them the loop ends, although termination of the whole, a
  liveness property, is left to TLC.

`IInv` is `TypeOK` with the three objects settled (`ObjectsSettled`), what is maximal at which point
(`PhasesReached`), the bounds of the loops (`LoopsEnd`), `VictimExists` and `BestDominates`.
`SearchAssumption` is what the compiler's files guarantee: lists in order
(`Graph::sort`), no negative weight (`SP4_write_graph_to_file` writes 1 instead), an edge
if the file announces one (`readInstance` compares the counts). The weights that other callers
of mwis may give it with its own options are not covered.

**The exact solver** (`BronKerboschProofs`), for instance files of any size with labels that are
announced and weights that are not negative (`FilesAssumption`): `SearchIsSound` and `Optimal`, that
the set printed is a maximum weight independent set of the conflicts *in the file*; so reading a
file complemented is part of it. `SearchSound` as the run checks it is not inductive. It says that
no maximal clique heavier than the best is lost: one of the activations on the stack still covers
it. But an activation that is in the middle of a call covers all of its candidates, also the one it
is calling with. `AllAhead` asks that a clique be covered by an activation that is *not* at this
moment making the call that would find it, and `StackOK` that everything below the top of the stack
is in a call.

**The table merge graph** (`TableMergeGraphProofs`), for any pairs of programs, any order of the
dictionary and any number of compilations into one directory:

- `SharedTablesMatch`: a shared number stands for one table of each program, with keys of one
  kind. A new shared number is not in use because the search leaves out the taken ones; a fresh
  one is never production's because fresh numbers lie between `FirstFresh` and the counter
  (`OwnNumbers`). That needs `FirstFreshAssumption`: production has fewer tables than 1000, which
  the code does not check.
- `SharingComplete`: as many tables are shared as can be. `AllShared` counts, key by key, the
  shared tables and the testing tables met so far.
- `InstanceIsMeant`: the file, read back, is the conflict graph. The nested loops list each
  opposed pair once (`EdgesMeant`), places in the list become labels and back (`FileMeant`), and
  reading gives each label its edges and its weight.
- `PickedCanBeShared`: what the solver picks - any maximal independent set, as `WritesMaximalSet`
  promises - can be shared together, and every table left out clashes with one picked
  (`PickedMeant`).

`Whole` is the conjunction of the invariants named here. A pair that is opposed both ways round
would be listed twice, and `readInstance` does count lines. `OrderAssumption` excludes it: no two
tables of production are each directly behind the other, since `p4_tables.py` refuses to apply a
table twice.

**Merging of parsers** (`ParserMergeProofs`), for any pairs of parsers that `PairsAssumption`
admits, of any size, with loops or without, and any frames: `UntaggedRefined`, `TaggedRefined` and
`OwnInOrder` state the three properties of the run, `TypeCorrect` the types. The first half of the
module is about the heap. `ReachedClosed` and `ReachedLeast` say that a walk comes to the least
set that holds its start and that no edge leaves; so after the renaming exactly the objects
testing reaches, but `start`, are prefixed (`RenamedIs`), and after the merge every object, of
either program, is as `MergedIs` describes. `UpdateEffect` says what `OrderedDict.update` leaves
of two dictionaries of cases and in which order, and `ChosenUpdated` what a state then branches
to. From these come the dumped states (`StatesAre`, `ParserStates`): each is one of production's
or of testing's under the new name, the joint `parse_ethernet`, the tag's state, or `start`; and
no two that differ have one name (`StateNamed`), although the parser looks for a name among states
of two programs. The steps are then compared one by one. What each refinement needs beside
`Parsing`, the types and the position in the frame, is which program's states the parser is in:
`AtProductions` on a frame without the tag, `AtTestings` on one with it, where `got` must begin
with ethernet and the tag. `TaggedRefined` assumes `NoOwnTag`: no production parser branches on
0x8100 after ethernet. It is needed (`MCVlanParser.cfg`), and is an assumption of that theorem and
of `OwnInOrder` alone. For `OwnInOrder` the walk comes first: `Walked` says that all it has met or
has still to do are reachable objects, and that every call it owes, for what it has seen, was made
or is in `todo`. Without loops none is ever cut, because what is in `visited` leads to the call's
state and a state never to itself. So when `todo` is empty, whatever leads from a state with a
header before it was walked *with that header*, and its edge is in the graph. `Emitting` ties the
parser to that: it is at a state the walk was at with the last header it extracted, and all it has
extracted is in order; whose object a header is follows from `AtProductions` and `AtTestings`.

**Dependencies and stages** (`StagesProofs`), for any program that `ProgramsAssumption` admits,
any order of the dictionaries and any latencies (`LatencyAssumption`):

- `NoConflictForgotten`: `Searched` says that once the edges of a node have been followed, every
  conflict on a path through one of them has its dependency. A dependency found later replaces one
  found earlier, but never by nothing (`Remembered`).
- `ReductionIsSound`: `Unbroken` says that while nodes are reduced, in any order, each dependency
  found still follows from those left by a path at least as strong. A path is a statement about all
  sets of nodes that no edge leaves (`Below`), so that it can be taken apart at its first edge
  (`FirstEdge`); the argument needs `Forwards`, that dependencies lead forward only and hence never
  round in a circle.
- `LeastStages`: `Placed` says that a node is placed after all it depends on, in the least stage
  that they allow; with `Unbroken` the redundant dependencies are kept too, since stages along a
  path only grow.
- `PassesAgree`: `Clocked` has for each of the two passes that no node is too early for an edge to
  it, and none later than a path to it takes (`Times`). The second half is said without paths: any
  function that falls along each edge by at least the latency falls from some node done to this one
  by at least its time. The times of one pass are such a function for the other, so that the two
  longest are equal. `Paths` says the same of the lengths noted for the nodes to come.

**Differential testing** (`DiffTestingProofs`), for any addresses, ports, routers, incoming
packets, tables and number of changes (`ConstantsAssumption`): `OnlyMarkedTested`,
`RecordedResultCompared`, `TestingHarmless`, `MarkedCompared`, `ComparatorIsExact` and
`TypeCorrect`. `IInv` says what is known of a packet at the head of the program, in production, in
testing and behind both (`HeadInv`, `ProductionInv`, `TestingInv`, `TailInv`), and ties results to
the routers (`RoutableInv`, `WholeInv`): if a packet can still be routed *after* production, it
could be routed before, so that the recorded result is what production does to any packet it
routes, and comparing results is comparing programs. `HeadersInv` is needed because a packet is
parsed again when it is recirculated: behind a tag there is ipv4 only if there was when it was
marked.

**Only model-checked:**

- Liveness, which needs `ENABLED`: `Terminates` of `LocalSearch` and `BronKerbosch`, `Leaves` of
  `MergedWalk`, and `LeavesUnlessStray` of `DiffTesting`.
- `Frontend`, `TableWalk` and `MergedWalk`. They follow the code's recursion over nested calls with
  RECURSIVE operators, of which the proof system knows nothing; what they compute for every input
  would take an induction over data.
- The properties that the findings of section 4 are about: they do not hold.

## 6. Fairness

- `Solution` has none: only safety is stated.
- `LocalSearch`: `[]<>(pc = "done") \/ []<><<Next>>_vars`, weak fairness of `Next` with
  `ENABLED` written out. It is a sequential program that nothing stops; no choice is forced,
  so that termination holds for every outcome of the random draws.
- `BronKerbosch`: weak fairness of its three steps, for the same reason.
- `MergedWalk`: weak fairness of `Step`, a switch goes on with a packet it has. No
  outcome of a table is favoured, and packets need not arrive.
- `DiffTesting`: weak fairness of `Step`, the steps of the packet; the controller and the
  arrival of packets have none.

- `Frontend`, `TableWalk`, `Stages`, `TableMergeGraph`, `ParserMerge`: safety only, no fairness.

Deadlock is checked wherever something runs on; where a program ends there is a step that says so
(`Terminated`, `Printed`, `Rejected`, `Ended`). `frontend`, `stages` and `merge_graph` have `CHECK_DEADLOCK
FALSE`: their models are one run of a compiler pass, which ends, with nothing after it.

## 7. Plan

Done: the solver's Solution, its annealing and its exact solver; table graphs, their optimisation
and merge; the frontend and the renaming; the table merge graph; the merge of parsers; dependencies
and stages; the differential testing data plane; proofs about the graph and its files, Solution, the
annealing, the exact solver, the table merge graph, the merge of parsers, dependencies and stages,
and differential testing.

Next:

1. `PVMTranslate`: `translate_all` of `PVM_translate_cmd.py` replaces the names of tables one
   after the other, as substrings, in the order of a dictionary. Property: translated commands
   name tables of the merged program, each replaced once; it needs names none of which is part of
   another, nor of an inserted one.
2. The merge of headers, fields and actions by name, where two programs declare one name
   differently.

## 8. Not modelled, and why

Lexing and parsing of P4 text: `Ast` starts from its result, with the grammar's limits on what may
follow what. Typing of expressions, header layouts and widths: they accept or reject and change
nothing. Code generation from templates (`gen_pd.py`), drawings and reports: one pass over a
finished structure, no state that later steps depend on. The field-by-field dump of headers, actions
and expressions in `gen_json.py`: formatting. The thrift client of `runtime_CLI.py` and the mininet
scripts: I/O. Option parsing and the clock of mwis: no result depends on them. The second solver the
compiler calls (`GWMIN_alg`) is not in the repository. The resource summary
`SP4_reduce_reuse_tables` of production runs before any table has a merge id and changes nothing.
The OpenFlow plugin and the P4 programs under `FPGAtarget`: not reached by the merge. Counters,
registers, meters and action profiles of the merged program: merged by name like tables, without
edges between them. The list of fields that cause a dependency, and which edges of a critical path
are drawn.
