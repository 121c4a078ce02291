---------------------------- MODULE LocalSearch -----------------------------
(***************************************************************************)
(* mwis, the program that picks the tables to merge: main.cpp after the    *)
(* instance is read, for the naive greedy algorithm (-N) and the simulated *)
(* annealing that is the default.  Three Solution objects are live: s, the *)
(* point of the walk; next_s, its perturbed copy; best_s, what is          *)
(* reported.  pc names the point of the program:                           *)
(*                                                                         *)
(*   greedy   the initial while loop, addVertexDegreeLowest                *)
(*   outer    head and tail of the loop over OUT_ITER_TIME                 *)
(*   cool     head of the temperature loop                                 *)
(*   shake    force: todo vertices are still to be inserted                *)
(*   fill     while not maximal, addRandomVertex                           *)
(*   improve  omegaImprovement() || twoImprovement()                       *)
(*   judge    the comparison with s and best_s                             *)
(*   exit     the label of that name                                       *)
(*                                                                         *)
(* The temperature is a countdown of Temperatures steps per round; in the  *)
(* last round COOLING is exactly 1, t never falls, and the countdown does  *)
(* not move: that round ends only by a break or the goto, so the outer loop *)
(* never runs out.  The random acceptance test is not a choice: the energy       *)
(* change is never positive where it is made, exp of its negation is at    *)
(* least 1, and ACCEPT_PARA is at most 0.002.                              *)
(***************************************************************************)
EXTENDS SolutionOps

CONSTANTS
  Graphs,         \* problem instances
  Targets,        \* values of the option target; 0 is "no target"
  OuterIters,     \* OUT_ITER_TIME, 200 in the code
  NoChangeTime,   \* NO_CHANGE_TIME, 250000 in the code
  NoImproveStop,  \* outer_no_improve_round at which the search stops, 4
  Temperatures    \* steps of the temperature loop in a round but the last

\* Graph::sort leaves every list in order.
Ascending(q) == \A a, b \in 1 .. Len(q) : a < b => q[a] < q[b]

\* The instances: simple graphs, sorted after reading, with the weights that
\* SP4_write_graph_to_file writes, none negative, and, as readInstance makes sure,
\* with an edge if they announce one.
ASSUME SearchAssumption ==
  /\ \A h \in Graphs :
        /\ IsSimpleGraph(h)
        /\ \A v \in Vertices(h) : Ascending(h.adj[v]) /\ h.weight[v] >= 0
        /\ h.m # 0 => \E v \in Vertices(h) : Neighbors(h, v) # {}
  /\ Targets \subseteq Nat
  /\ {OuterIters, NoChangeTime, NoImproveStop, Temperatures} \subseteq Nat \ {0}

VARIABLES
  g, naive, target,           \* instance and options
  pc,
  s, next_s, best_s,          \* the three objects
  todo,                       \* force: insertions left
  k, local_best,              \* as in the code
  i, temps, improve_flag,     \* round, temperatures left, local progress
  no_improve_time, outer_no_improve_round,
  outfile                     \* what was written to the file of option -o

counters == <<i, temps, improve_flag, no_improve_time, outer_no_improve_round>>
options  == <<g, naive, target>>
vars == <<options, pc, s, next_s, best_s, todo, k, local_best, counters, outfile>>

-----------------------------------------------------------------------------
(***************************************************************************)
(* Operations of Solution built on addVertex and removeVertex              *)
(***************************************************************************)

\* addVertexDegreeLowest: the first free vertex of least degree.
LowestDegreePlace(h, t) ==
  LET places == t.size .. t.size + t.free - 1
      Degree(p) == Len(h.adj[t.solution[p]])
      lowest == {p \in places : \A q \in places : Degree(p) <= Degree(q)}
  IN Min(lowest)

AddVertexDegreeLowest(h, t) == AddVertex(h, t, t.solution[LowestDegreePlace(h, t)])

\* The removal loop that force and omegaImprovement share, and the insertion
\* after it.  Membership is tested as the list is walked.
\* Mutant: only the first member of the list is evicted.
InsertEvictsOne(h, t, v) ==
  LET members == Keep(h.adj[v], ISet(t))
  IN AddVertex(h, IF members = <<>> THEN t ELSE RemoveVertex(h, t, members[1]), v)

EvictOne(h, t, u) == IF InSolution(t, u) THEN RemoveVertex(h, t, u) ELSE t
Evict(h, t, v) == FoldLeft(LAMBDA r, u : EvictOne(h, r, u), t, h.adj[v])

Insert(h, t, v) == AddVertex(h, Evict(h, t, v), v)

\* omegaImprovement looks from the end of the permutation for a vertex whose
\* insertion gains weight.
\* Mutants: a vertex that gains nothing qualifies; the scan stops one place early.
OmegaPlacesLax(h, t)   == {p \in t.size .. h.n - 1 : t.mu[t.solution[p]] >= 0}
OmegaPlacesShort(h, t) == {p \in t.size + 1 .. h.n - 1 : t.mu[t.solution[p]] > 0}

OmegaPlaces(h, t) == {p \in t.size .. h.n - 1 : t.mu[t.solution[p]] > 0}
OmegaImprovement(h, t) == Insert(h, t, t.solution[Max(OmegaPlaces(h, t))])

\* twoImprovement, for a member x and one of its 1-tight neighbours v: the walk
\* in tandem over the neighbours of v and the 1-tight list of x.  The result is
\* the vertex w to insert with v, or None.
None == -1
OneTight(h, t, x) == Keep(h.adj[x], {u \in Vertices(h) : t.tight[u] = 1})

\* The walk is at u in the neighbours and at w in the list.
Tandem(h, x, v, onetight) ==
  LET nv == h.adj[v]
      walk[at \in (1 .. Len(nv) + 1) \X (1 .. Len(onetight) + 1)] ==
        IF at[1] > Len(nv) \/ at[2] > Len(onetight) THEN None
        ELSE LET u == nv[at[1]]
                 w == onetight[at[2]]
             IN IF w # v /\ u > w /\ h.weight[x] < h.weight[v] + h.weight[w] THEN w
                ELSE walk[<<IF w = v THEN at[1] ELSE at[1] + 1,
                            IF w = v \/ u = w THEN at[2] + 1 ELSE at[2]>>]
  IN walk[<<1, 1>>]

\* The pairs <<place of x, index of v>> for which the walk finds a swap.  With
\* fewer than two 1-tight neighbours there is none to find.
TwoSwaps(h, t) ==
  {e \in (0 .. t.size - 1) \X (1 .. h.n) :
     LET x == t.solution[e[1]]
         l == OneTight(h, t, x)
     IN Len(l) >= 2 /\ e[2] <= Len(l) /\ Tandem(h, x, l[e[2]], l) # None}

TwoImprovement(h, t) ==
  LET swaps == TwoSwaps(h, t)
      first == CHOOSE e \in swaps : \A f \in swaps :
                 e[1] < f[1] \/ (e[1] = f[1] /\ e[2] <= f[2])
      x == t.solution[first[1]]
      l == OneTight(h, t, x)
      v == l[first[2]]
  IN AddVertex(h, AddVertex(h, RemoveVertex(h, t, x), v), Tandem(h, x, v, l))

-----------------------------------------------------------------------------
Init ==
  /\ g \in Graphs
  /\ naive \in BOOLEAN
  /\ target \in Targets
  /\ pc = "greedy"
  /\ s = NewSolution(g) /\ next_s = s /\ best_s = s
  /\ todo = 0 /\ k = 1 /\ local_best = 0
  /\ i = 0 /\ temps = 0 /\ improve_flag = FALSE
  /\ no_improve_time = 0 /\ outer_no_improve_round = 0
  /\ outfile = <<>>

GreedyStep ==
  /\ pc = "greedy" /\ ~IsMaximal(s)
  /\ s' = AddVertexDegreeLowest(g, s)
  /\ UNCHANGED <<options, pc, next_s, best_s, todo, k, local_best, counters, outfile>>

\* The copy into best_s; -N prints it and returns, a graph that announces no
\* edge skips the search.
GreedyDone ==
  /\ pc = "greedy" /\ IsMaximal(s)
  /\ best_s' = s
  /\ local_best' = s.weight
  /\ pc' = IF naive THEN "done" ELSE IF g.m = 0 THEN "exit" ELSE "outer"
  /\ UNCHANGED <<options, s, next_s, todo, k, counters, outfile>>

StartRound ==
  /\ pc = "outer" /\ i < OuterIters
  /\ i' = i + 1
  /\ improve_flag' = FALSE
  /\ temps' = Temperatures
  /\ pc' = "cool"
  /\ UNCHANGED <<options, s, next_s, best_s, todo, k, local_best, no_improve_time,
                 outer_no_improve_round, outfile>>

LastRound == i = OuterIters

\* The shake inserts p1 = 1 or p2 = 2 vertices, depending on the parity of k.
StartIteration ==
  /\ pc = "cool" /\ temps > 0
  /\ temps' = IF LastRound THEN temps ELSE temps - 1
  /\ next_s' = s
  /\ todo' = IF k % 2 = 0 THEN 1 ELSE 2
  /\ pc' = "shake"
  /\ UNCHANGED <<options, s, best_s, k, local_best, i, improve_flag,
                 no_improve_time, outer_no_improve_round, outfile>>

\* One turn of the loop of force.
ForceVertex(v) ==
  /\ pc = "shake" /\ todo > 0
  /\ IsNonFree(next_s, v)
  /\ next_s' = Insert(g, next_s, v)
  /\ todo' = todo - 1
  /\ UNCHANGED <<options, pc, s, best_s, k, local_best, counters, outfile>>

ForceDone ==
  /\ pc = "shake" /\ todo = 0
  /\ pc' = "fill"
  /\ UNCHANGED <<options, s, next_s, best_s, todo, k, local_best, counters, outfile>>

AddRandomVertex(v) ==
  /\ pc = "fill" /\ IsFree(next_s, v)
  /\ next_s' = AddVertex(g, next_s, v)
  /\ UNCHANGED <<options, pc, s, best_s, todo, k, local_best, counters, outfile>>

FillDone ==
  /\ pc = "fill" /\ IsMaximal(next_s)
  /\ pc' = "improve"
  /\ UNCHANGED <<options, s, next_s, best_s, todo, k, local_best, counters, outfile>>

\* omegaImprovement() || twoImprovement(): an improvement goes back to filling.
Improve ==
  /\ pc = "improve"
  /\ \/ /\ OmegaPlaces(g, next_s) # {}
        /\ next_s' = OmegaImprovement(g, next_s)
        /\ pc' = "fill"
     \/ /\ OmegaPlaces(g, next_s) = {} /\ TwoSwaps(g, next_s) # {}
        /\ next_s' = TwoImprovement(g, next_s)
        /\ pc' = "fill"
     \/ /\ OmegaPlaces(g, next_s) = {} /\ TwoSwaps(g, next_s) = {}
        /\ pc' = "judge"
        /\ UNCHANGED next_s
  /\ UNCHANGED <<options, s, best_s, todo, k, local_best, counters, outfile>>

\* next_s is heavier than s.
Better ==
  /\ pc = "judge" /\ next_s.weight > s.weight
  /\ s' = next_s
  /\ LET beatsLocal == local_best < next_s.weight
         beatsBest  == best_s.weight < next_s.weight
     IN /\ k' = IF beatsLocal THEN 1 ELSE 0
        /\ local_best' = IF beatsLocal THEN next_s.weight ELSE local_best
        /\ best_s' = IF beatsBest THEN next_s ELSE best_s
        /\ improve_flag' = (improve_flag \/ beatsLocal \/ beatsBest)
        /\ no_improve_time' = IF beatsLocal \/ beatsBest THEN 0 ELSE no_improve_time
        /\ pc' = IF beatsBest /\ target # 0 /\ next_s.weight >= target
                 THEN "exit" ELSE "cool"
  /\ UNCHANGED <<options, next_s, todo, i, temps, outer_no_improve_round, outfile>>

\* Mutant: accepting a point renews the patience.
NotBetterRenews ==
  /\ pc = "judge" /\ next_s.weight <= s.weight
  /\ no_improve_time' = 0
  /\ pc' = "cool" /\ s' = next_s /\ k' = 1
  /\ UNCHANGED <<options, next_s, best_s, todo, local_best, i, temps, improve_flag,
                 outer_no_improve_round, outfile>>

\* It is not, and becomes s all the same, unless the patience is exhausted: the
\* break leaves the temperature loop before s and k are assigned.
NotBetter ==
  /\ pc = "judge" /\ next_s.weight <= s.weight
  /\ no_improve_time' = no_improve_time + 1
  /\ IF no_improve_time' > NoChangeTime
     THEN pc' = "roundend" /\ UNCHANGED <<s, k>>
     ELSE pc' = "cool" /\ s' = next_s /\ k' = 1
  /\ UNCHANGED <<options, next_s, best_s, todo, local_best, i, temps, improve_flag,
                 outer_no_improve_round, outfile>>

Cooled ==
  /\ pc = "cool" /\ temps = 0
  /\ pc' = "roundend"
  /\ UNCHANGED <<options, s, next_s, best_s, todo, k, local_best, counters, outfile>>

EndRound ==
  /\ pc = "roundend"
  /\ IF no_improve_time > NoChangeTime
     THEN pc' = "exit" /\ UNCHANGED outer_no_improve_round
     ELSE /\ outer_no_improve_round' =
               outer_no_improve_round + (IF improve_flag THEN 0 ELSE 1)
          /\ pc' = IF outer_no_improve_round' = NoImproveStop THEN "exit" ELSE "outer"
  /\ UNCHANGED <<options, s, next_s, best_s, todo, k, local_best, i, temps,
                 improve_flag, no_improve_time, outfile>>

\* Mutant: the last point of the walk is written.
WriteResultOfWalk ==
  /\ pc = "exit"
  /\ outfile' = outfile \o Keep([v \in 1 .. g.n |-> v - 1], ISet(s))
  /\ pc' = "done"
  /\ UNCHANGED <<options, s, next_s, best_s, todo, k, local_best, counters>>

\* i_set() of best_s, one vertex per line.
WriteResult ==
  /\ pc = "exit"
  /\ outfile' = outfile \o Keep([v \in 1 .. g.n |-> v - 1], ISet(best_s))
  /\ pc' = "done"
  /\ UNCHANGED <<options, s, next_s, best_s, todo, k, local_best, counters>>

\* The process has exited.
Terminated == pc = "done" /\ UNCHANGED vars

Next ==
  \/ GreedyStep \/ GreedyDone
  \/ StartRound \/ StartIteration \/ Cooled \/ EndRound
  \/ \E v \in Vertices(g) : ForceVertex(v) \/ AddRandomVertex(v)
  \/ ForceDone \/ FillDone \/ Improve
  \/ Better \/ NotBetter
  \/ WriteResult
  \/ Terminated

\* A sequential program: nothing but its own end stops it.  This is WF_vars(Next)
\* with ENABLED Next written out - Next is enabled at every point of the program
\* but the last - because TLC's evaluation of ENABLED is exponential in the folds
\* of addVertex and removeVertex.
Fairness == []<>(pc = "done") \/ []<><<Next>>_vars

Spec == Init /\ [][Next]_vars /\ Fairness

-----------------------------------------------------------------------------
(***************************************************************************)
(* Properties                                                              *)
(***************************************************************************)

TypeOK ==
  /\ IsSimpleGraph(g) /\ naive \in BOOLEAN /\ target \in Targets
  /\ pc \in {"greedy", "outer", "cool", "shake", "fill", "improve", "judge",
             "roundend", "exit", "done"}
  /\ todo \in 0 .. 2 /\ k \in {0, 1} /\ local_best \in Nat
  /\ i \in 0 .. OuterIters /\ temps \in 0 .. Temperatures
  /\ improve_flag \in BOOLEAN
  /\ no_improve_time \in 0 .. NoChangeTime + 1
  /\ outer_no_improve_round \in 0 .. NoImproveStop
  /\ outfile \in Seq(Vertices(g))

SumOver(S) == MapThenSumSet(LAMBDA v : g.weight[v], S)

\* A solution whose every redundant field agrees with the set it stands for.
Sound(t) ==
  /\ \A v \in Vertices(g) : t.solution[t.position[v]] = v
  /\ Independent(g, ISet(t))
  /\ IntegrityCheck(g, t)
  /\ t.weight = SumOver(ISet(t))
  /\ \A v \in Vertices(g) :
        /\ t.tight[v] = Cardinality(Neighbors(g, v) \cap ISet(t))
        /\ t.mu[v] = g.weight[v] - SumOver(Neighbors(g, v) \cap ISet(t))

\* The three objects stay sound through every improvement: each one removes
\* while it walks an adjacency list and tests membership as it goes, and the
\* vertex it inserts must have become free by the end of the walk.
SolutionsSound == Sound(s) /\ Sound(next_s) /\ Sound(best_s)

\* force draws a place of the third block: it must not be empty, or the
\* distribution is built over [0, -1].
VictimExists ==
  pc = "shake" /\ todo > 0 => \E v \in Vertices(g) : IsNonFree(next_s, v)

\* local_best and best_s are updated by separate tests and must stay the same
\* thing; the walk may accept worse points but never a point above the best.
BestDominates ==
  pc # "greedy" => /\ local_best = best_s.weight
                   /\ s.weight <= best_s.weight

\* What every step of the search keeps, in all three objects at once.
SearchSound == SolutionsSound /\ VictimExists /\ BestDominates

\* What is judged is maximal and admits no insertion that gains weight: the
\* do-while ends only when both improvements have failed.
OmegaOptimal ==
  pc = "judge" => /\ IsMaximal(next_s)
                  /\ \A v \in Vertices(g) \ ISet(next_s) :
                        g.weight[v] <= SumOver(Neighbors(g, v) \cap ISet(next_s))

\* What reaches the file is one maximal independent set, in increasing order,
\* of the weight the search claims.
ReportedSet ==
  pc = "done" /\ ~naive =>
    LET I == ToSet(outfile) IN
      /\ Independent(g, I)
      /\ \A v \in Vertices(g) \ I : Neighbors(g, v) \cap I # {}
      /\ SumOver(I) = local_best
      /\ Ascending(outfile)

\* Every improvement pays, with the fillings that follow: nothing else makes the
\* do-while loop end.
ImprovementGains ==
  [][/\ pc \in {"improve", "fill"} => next_s'.weight >= next_s.weight
     /\ pc = "improve" /\ pc' = "fill" => next_s'.weight > next_s.weight]_vars

\* The program ends although its last round never cools: each iteration of it
\* gains weight or uses up patience.
Terminates == <>(pc = "done")

\* The claim of the comment in twoImprovement: the search for a pair of
\* 1-tight neighbours of a member x that are not adjacent is exhaustive, so no
\* such pair that outweighs x is left when it reports failure.
TwoOptimal ==
  pc = "judge" =>
    \A x \in ISet(next_s) : \A v, w \in Neighbors(g, x) :
      (/\ v # w /\ w \notin Neighbors(g, v)
       /\ next_s.tight[v] = 1 /\ next_s.tight[w] = 1)
        => g.weight[v] + g.weight[w] <= g.weight[x]
=============================================================================
