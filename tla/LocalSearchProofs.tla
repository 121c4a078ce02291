-------------------------- MODULE LocalSearchProofs --------------------------
(***************************************************************************)
(* Proofs about LocalSearch, for every instance and every choice the walk  *)
(* makes: what each improvement does to a solution whose fields add up,    *)
(* and with it that the search keeps its three objects sound, that what it *)
(* judges cannot be improved by one insertion, and what it writes.         *)
(***************************************************************************)
EXTENDS LocalSearch, Lemmas

-----------------------------------------------------------------------------
(***************************************************************************)
(* Inserting a vertex that has members beside it                           *)
(***************************************************************************)

\* What a settled solution says of its members and the others.
LEMMA SettledFacts ==
  ASSUME NEW h, IsSimpleGraph(h), NEW t, Settled(h, t)
  PROVE  /\ WellFormed(h, t) /\ Independent(h, ISet(t)) /\ ISet(t) \subseteq Vertices(h)
         /\ t.weight = SumOf(h.weight, ISet(t)) /\ t.weight \in Int
         /\ \A u \in Vertices(h) :
              /\ u \in ISet(t) <=> InSolution(t, u)
              /\ u \notin ISet(t) => (IsFree(t, u) <=> Neighbors(h, u) \cap ISet(t) = {})
              /\ u \notin ISet(t) => (IsFree(t, u) <=> ~IsNonFree(t, u))
              /\ t.tight[u] = Count(h, ISet(t), u)
              /\ t.mu[u] = h.weight[u] - Load(h, ISet(t), u)
<1> DEFINE I == ISet(t)
<1>1. /\ WellFormed(h, t) /\ Independent(h, I)
      /\ \A u \in Vertices(h) : ~InSolution(t, u) => (IsFree(t, u) <=> t.tight[u] = 0)
      /\ t.weight = SumOf(h.weight, I)
      /\ \A u \in Vertices(h) : /\ t.tight[u] = Count(h, I, u) + 0
                                /\ t.mu[u] = h.weight[u] - Load(h, I, u) - 0
  BY DEF Settled, Accounted
<1>2. /\ I \subseteq Vertices(h) /\ t \in SolutionType(h)
      /\ \A u \in Vertices(h) :
           /\ u \in I <=> InSolution(t, u)
           /\ ~(InSolution(t, u) /\ IsFree(t, u))
           /\ InSolution(t, u) \/ IsFree(t, u) \/ IsNonFree(t, u)
           /\ IsNonFree(t, u) => ~InSolution(t, u) /\ ~IsFree(t, u)
  BY <1>1, BlockFacts
<1>3. t.weight \in Int
  BY <1>2 DEF SolutionType
<1> HIDE DEF I
<1>4. \A u \in Vertices(h) :
        /\ Count(h, I, u) \in Nat /\ Load(h, I, u) \in Int /\ h.weight[u] \in Int
        /\ Count(h, I, u) = 0 <=> Neighbors(h, u) \cap I = {}
  BY <1>2, CountFacts, NeighborFacts
<1>5. \A u \in Vertices(h) : /\ t.tight[u] = Count(h, I, u)
                             /\ t.mu[u] = h.weight[u] - Load(h, I, u)
  BY <1>1, <1>4
<1>6. \A u \in Vertices(h) :
        /\ u \notin I => (IsFree(t, u) <=> Neighbors(h, u) \cap I = {})
        /\ u \notin I => (IsFree(t, u) <=> ~IsNonFree(t, u))
  BY <1>1, <1>2, <1>4, <1>5
<1>7. QED
  BY <1>1, <1>2, <1>3, <1>5, <1>6 DEF I

\* One turn of the removal loop: the neighbour is not a member afterwards, and
\* nothing else changes.
Evicted(h, t, r, u) == Settled(h, r) /\ ISet(r) = ISet(t) \ {u}

\* It removes a member and leaves any other vertex alone.
LEMMA EvictOneEffect ==
  ASSUME NEW h, IsSimpleGraph(h), NEW t, Settled(h, t), NEW u \in Vertices(h)
  PROVE  Evicted(h, t, EvictOne(h, t, u), u)
<1>1. u \in ISet(t) <=> InSolution(t, u)
  BY SettledFacts
<1>2. CASE InSolution(t, u)
  <2>1. Removed(h, t, RemoveVertex(h, t, u), u)
    BY <1>2, RemoveVertexRemoves
  <2>2. EvictOne(h, t, u) = RemoveVertex(h, t, u)
    BY <1>2 DEF EvictOne
  <2>3. QED
    BY <2>1, <2>2 DEF Removed, Evicted
<1>3. CASE ~InSolution(t, u)
  <2>1. EvictOne(h, t, u) = t
    BY <1>3 DEF EvictOne
  <2>2. ISet(t) = ISet(t) \ {u}
    BY <1>1, <1>3
  <2>3. QED
    BY <2>1, <2>2 DEF Evicted
<1>4. QED
  BY <1>2, <1>3

\* The solutions whose fields add up.
SettledOnes(h) == {t \in Solutions(h) : Settled(h, t)}

\* What the removal loop has made of a solution after each neighbour.
EvictTrace(f, h, t, v) ==
  /\ f \in [0 .. Len(h.adj[v]) -> SettledOnes(h)]
  /\ f[0] = t /\ f[Len(h.adj[v])] = Evict(h, t, v)
  /\ \A j \in 1 .. Len(h.adj[v]) : f[j] = EvictOne(h, f[j - 1], h.adj[v][j])

\* The loop goes through such values, whatever it is given.
LEMMA EvictSteps ==
  ASSUME NEW h, IsSimpleGraph(h), NEW t, Settled(h, t), NEW v \in Vertices(h)
  PROVE  \E f : EvictTrace(f, h, t, v)
<1> DEFINE n == Len(h.adj[v])
           T == SettledOnes(h)
           Eq(e) == e = [U \in SUBSET DOMAIN h.adj[v] |->
                           IF U = {} THEN t
                           ELSE LET x == Max(U) IN EvictOne(h, e[U \ {x}], h.adj[v][x])]
           H == CHOOSE e : Eq(e)
           step == [p \in T \X (1 .. n) |-> EvictOne(h, p[1], h.adj[v][p[2]])]
<1>1. Evict(h, t, v) = H[DOMAIN h.adj[v]]
  BY DEF Evict, FoldLeft, MapThenFoldSet
<1>2. n \in Nat /\ DOMAIN h.adj[v] = 1 .. n
  OBVIOUS
<1>3. t \in T
  BY DEF SettledOnes, Solutions, Settled, Accounted, WellFormed
<1>4. step \in [T \X (1 .. n) -> T]
  <2>1. ASSUME NEW r \in T, NEW c \in 1 .. n PROVE EvictOne(h, r, h.adj[v][c]) \in T
    <3>1. h.adj[v][c] \in Vertices(h)
      BY NeighborFacts, NeighborTurns
    <3>2. Settled(h, r)
      BY DEF SettledOnes
    <3>3. Evicted(h, r, EvictOne(h, r, h.adj[v][c]), h.adj[v][c])
      BY <3>1, <3>2, EvictOneEffect
    <3>4. QED
      BY <3>3 DEF Evicted, SettledOnes, Solutions, Settled, Accounted, WellFormed
  <2> HIDE DEF T, n
  <2>2. QED
    BY <2>1
<1>5. \E e : Eq(e)
  <2>1. PICK e : FoldsSteps(e, n, T, t, step)
    <3> HIDE DEF step, n, T
    <3>1. QED BY <1>2, <1>3, <1>4, StepsExist
  <2>2. \A U \in SUBSET (1 .. n) : U # {} => Max(U) \in 1 .. n /\ U \ {Max(U)} \in SUBSET (1 .. n)
    BY <1>2, MaxIsMember
  <2>3. Eq(e)
    <3> HIDE DEF T, n
    <3>1. e = [U \in SUBSET (1 .. n) |-> e[U]]
      BY <2>1 DEF FoldsSteps
    <3>2. ASSUME NEW U \in SUBSET (1 .. n), U # {}
          PROVE  e[U] = EvictOne(h, e[U \ {Max(U)}], h.adj[v][Max(U)])
      <4>1. e[U \ {Max(U)}] \in T /\ Max(U) \in 1 .. n
        BY <2>1, <2>2, <3>2 DEF FoldsSteps
      <4>2. e[U] = step[<<e[U \ {Max(U)}], Max(U)>>]
        BY <2>1, <3>2 DEF FoldsSteps
      <4>3. QED BY <4>1, <4>2
    <3>3. e[{}] = t
      BY <2>1 DEF FoldsSteps
    <3> HIDE DEF step
    <3>4. QED BY <1>2, <3>1, <3>2, <3>3
  <2>4. QED BY <2>3
<1>6. Eq(H)
  <2> HIDE DEF Eq
  <2>1. QED BY <1>5
<1> HIDE DEF H
<1>7. Follows(H, n, T, t, step)
  <2> HIDE DEF T, n
  <2>1. H[{}] = t
    BY <1>6
  <2>2. ASSUME NEW j \in 1 .. n, H[1 .. j - 1] \in T
        PROVE  H[1 .. j] = step[<<H[1 .. j - 1], j>>]
    <3>1. /\ 1 .. j \in SUBSET (1 .. n) /\ 1 .. j # {}
          /\ Max(1 .. j) = j /\ (1 .. j) \ {j} = 1 .. j - 1
      BY <1>2, PrefixMax
    <3>2. H[1 .. j] = EvictOne(h, H[1 .. j - 1], h.adj[v][j])
      BY <1>2, <1>6, <3>1
    <3>3. QED BY <2>2, <3>2
  <2> HIDE DEF step, Eq
  <2>3. QED BY <2>1, <2>2 DEF Follows
<1>8. PICK f : Trace(f, H, n, T, t, step)
  <2> HIDE DEF step, n, T, Eq
  <2>1. QED BY <1>2, <1>3, <1>4, <1>7, StepsTaken
<1>9. f \in [0 .. n -> T] /\ f[0] = t /\ f[n] = H[1 .. n]
  BY <1>8 DEF Trace
<1>10. ASSUME NEW j \in 1 .. n PROVE f[j] = EvictOne(h, f[j - 1], h.adj[v][j])
  <2> HIDE DEF T, n
  <2>1. j - 1 \in 0 .. n
    BY <1>2
  <2>2. f[j - 1] \in T
    BY <2>1, <1>9
  <2>3. f[j] = step[<<f[j - 1], j>>]
    BY <1>8 DEF Trace
  <2>4. QED BY <2>2, <2>3
<1>11. EvictTrace(f, h, t, v)
  BY <1>1, <1>2, <1>9, <1>10 DEF EvictTrace
<1>12. QED BY <1>11

\* The loop over the neighbours of v removes exactly those that are members.
LEMMA EvictEffect ==
  ASSUME NEW h, IsSimpleGraph(h), NEW t, Settled(h, t), NEW v \in Vertices(h)
  PROVE  Settled(h, Evict(h, t, v)) /\ ISet(Evict(h, t, v)) = ISet(t) \ Neighbors(h, v)
<1> DEFINE q == h.adj[v]
           Upto(j) == {q[c] : c \in 1 .. j}
<1>1. PICK f : EvictTrace(f, h, t, v)
  BY EvictSteps
<1>2. /\ f[0] = t /\ f[Len(q)] = Evict(h, t, v)
      /\ \A j \in 1 .. Len(q) : f[j] = EvictOne(h, f[j - 1], q[j])
  BY <1>1 DEF EvictTrace
<1>3. Len(q) \in Nat /\ \A j \in 1 .. Len(q) : q[j] \in Vertices(h)
  BY NeighborTurns, NeighborFacts
<1> DEFINE Good(j) == Settled(h, f[j]) /\ ISet(f[j]) = ISet(t) \ Upto(j)
           A == {j \in 0 .. Len(q) : Good(j)}
<1>4. 0 \in A
  BY <1>2, <1>3
<1>5. ASSUME NEW j \in 0 .. Len(q) - 1, j \in A PROVE j + 1 \in A
  <2>1. j + 1 \in 1 .. Len(q) /\ (j + 1) - 1 = j /\ j + 1 \in 0 .. Len(q)
    BY <1>3
  <2>2. f[j + 1] = EvictOne(h, f[j], q[j + 1])
    BY <1>2, <2>1
  <2>3. Evicted(h, f[j], f[j + 1], q[j + 1])
    BY <1>3, <1>5, <2>1, <2>2, EvictOneEffect
  <2>4. Upto(j + 1) = Upto(j) \cup {q[j + 1]}
    <3>1. 1 .. j + 1 = (1 .. j) \cup {j + 1}
      BY <1>3
    <3>2. QED BY <3>1
  <2>5. QED
    BY <1>5, <2>1, <2>3, <2>4 DEF Evicted
<1>6. \A j \in 0 .. Len(q) : j \in A
  <2> HIDE DEF A
  <2>1. QED BY <1>3, <1>4, <1>5, UpTo
<1>7. Good(Len(q))
  <2>1. Len(q) \in 0 .. Len(q)
    BY <1>3
  <2>2. Len(q) \in A
    <3> HIDE DEF A
    <3>1. QED BY <1>6, <2>1
  <2>3. QED BY <2>2
<1>8. Upto(Len(q)) = Neighbors(h, v)
  BY DEF Neighbors
<1>9. QED
  BY <1>2, <1>7, <1>8

\* force and omegaImprovement: v comes in, the members beside it go, and the
\* weight changes by what mu promises for v.
TakesIn(h, t, r, v) ==
  /\ Settled(h, r) /\ ISet(r) = (ISet(t) \ Neighbors(h, v)) \cup {v}
  /\ r.weight = t.weight + t.mu[v]

\* v has become free by the end of the removals.
THEOREM InsertTakesIn ==
  ASSUME NEW h, IsSimpleGraph(h), NEW t, Settled(h, t), NEW v \in Vertices(h), v \notin ISet(t)
  PROVE  TakesIn(h, t, Insert(h, t, v), v)
<1> DEFINE e == Evict(h, t, v)
           r == Insert(h, t, v)
           N == Neighbors(h, v)
           I == ISet(t)
<1>1. Settled(h, e) /\ ISet(e) = I \ N
  BY EvictEffect
<1> HIDE DEF e
<1>2. IsFree(e, v)
  <2>1. v \notin ISet(e) /\ N \cap ISet(e) = {}
    BY <1>1
  <2>2. QED BY <1>1, <2>1, SettledFacts
<1>3. r = AddVertex(h, e, v)
  BY DEF Insert, e
<1> HIDE DEF r
<1>4. Added(h, e, r, v)
  BY <1>1, <1>2, <1>3, AddVertexAdds
<1>5. /\ Settled(h, r) /\ ISet(r) = (I \ N) \cup {v}
      /\ r.weight = e.weight + h.weight[v]
  BY <1>1, <1>4 DEF Added
<1>6. t.weight = e.weight + Load(h, I, v)
  <2> DEFINE V == Vertices(h)
             w == h.weight
             S == I \ N
             R == N \cap I
  <2>1. /\ IsFiniteSet(V) /\ w \in [V -> Int]
        /\ S \in SUBSET V /\ R \in SUBSET V /\ S \cap R = {} /\ S \cup R = I
    BY NeighborFacts, SettledFacts
  <2>2. SumOf(w, S \cup R) = SumOf(w, S) + SumOf(w, R)
    <3> HIDE DEF V, w, S, R
    <3>1. QED BY <2>1, SumOfUnion
  <2>3. SumOf(w, S) = e.weight
    BY <1>1, SettledFacts
  <2>4. SumOf(w, I) = t.weight
    BY SettledFacts
  <2>5. Load(h, I, v) = SumOf(w, R)
    BY DEF Load
  <2> HIDE DEF V, w, S, R
  <2>6. QED
    BY <2>1, <2>2, <2>3, <2>4, <2>5
<1>7. /\ t.mu[v] = h.weight[v] - Load(h, I, v) /\ h.weight[v] \in Int
      /\ Load(h, I, v) \in Int /\ e.weight \in Int
  BY <1>1, SettledFacts, NeighborFacts, CountFacts
<1>8. r.weight = t.weight + t.mu[v]
  <2> HIDE DEF I
  <2>1. QED BY <1>5, <1>6, <1>7
<1>9. QED
  BY <1>5, <1>8 DEF TakesIn, r

-----------------------------------------------------------------------------
(***************************************************************************)
(* Choosing a place of the permutation                                     *)
(***************************************************************************)

\* A place from size on holds a vertex that is no member, a place of the second
\* block a free one, and every vertex is at its place.
LEMMA PlaceFacts ==
  ASSUME NEW h, IsSimpleGraph(h), NEW t, Settled(h, t)
  PROVE  /\ t.size \in Nat /\ t.free \in Nat /\ t.size + t.free <= h.n /\ h.n \in Nat
         /\ \A p \in 0 .. h.n - 1 :
              /\ t.solution[p] \in Vertices(h)
              /\ p >= t.size <=> t.solution[p] \notin ISet(t)
              /\ p \in t.size .. t.size + t.free - 1 => IsFree(t, t.solution[p])
         /\ \A v \in Vertices(h) : /\ t.position[v] \in 0 .. h.n - 1
                                   /\ t.solution[t.position[v]] = v
                                   /\ v \notin ISet(t) <=> t.position[v] >= t.size
<1>1. WellFormed(h, t) /\ \A v \in Vertices(h) : v \in ISet(t) <=> InSolution(t, v)
  BY SettledFacts
<1>2. /\ t.solution \in [Vertices(h) -> Vertices(h)]
      /\ t.position \in [Vertices(h) -> Vertices(h)]
      /\ t.size \in Nat /\ t.free \in Nat /\ t.size + t.free <= h.n
      /\ h.n \in Nat /\ InverseArrays(h, t)
  BY <1>1, NeighborFacts DEF WellFormed, SolutionType
<1>3. ASSUME NEW p \in 0 .. h.n - 1
      PROVE  /\ t.solution[p] \in Vertices(h)
             /\ p >= t.size <=> t.solution[p] \notin ISet(t)
             /\ p \in t.size .. t.size + t.free - 1 => IsFree(t, t.solution[p])
  <2>1. t.solution[p] \in Vertices(h) /\ t.position[t.solution[p]] = p
    BY <1>2 DEF InverseArrays, Vertices
  <2>2. QED
    BY <1>1, <1>2, <2>1 DEF InSolution, IsFree
<1>4. ASSUME NEW v \in Vertices(h)
      PROVE  /\ t.position[v] \in 0 .. h.n - 1
             /\ t.solution[t.position[v]] = v
             /\ v \notin ISet(t) <=> t.position[v] >= t.size
  <2>1. t.position[v] \in Vertices(h) /\ t.solution[t.position[v]] = v
    BY <1>2 DEF InverseArrays
  <2>2. t.position[v] \in 0 .. h.n - 1
    BY <2>1 DEF Vertices
  <2>3. QED
    BY <1>1, <1>2, <2>1, <2>2 DEF InSolution
<1>5. QED
  BY <1>2, <1>3, <1>4

\* addVertexDegreeLowest adds a free vertex.
LEMMA LowestDegreeAdds ==
  ASSUME NEW h, IsSimpleGraph(h), NEW t, Settled(h, t), ~IsMaximal(t)
  PROVE  \E v \in Vertices(h) : Added(h, t, AddVertexDegreeLowest(h, t), v)
<1> DEFINE places == t.size .. t.size + t.free - 1
           Degree(p) == Len(h.adj[t.solution[p]])
           lowest == {p \in places : \A q \in places : Degree(p) <= Degree(q)}
           place == LowestDegreePlace(h, t)
<1>1. /\ t.size \in Nat /\ t.free \in Nat /\ t.size + t.free <= h.n /\ h.n \in Nat
      /\ \A p \in 0 .. h.n - 1 :
           /\ t.solution[p] \in Vertices(h)
           /\ p \in t.size .. t.size + t.free - 1 => IsFree(t, t.solution[p])
  BY PlaceFacts
<1>2. places \subseteq 0 .. h.n - 1 /\ t.size \in places
  BY <1>1 DEF IsMaximal
<1>3. \A p \in places : Degree(p) \in Nat
  BY <1>1, <1>2, NeighborTurns
<1>4. lowest # {}
  <2> DEFINE D == {Degree(p) : p \in places}
  <2>1. D \subseteq Nat /\ D # {}
    BY <1>2, <1>3
  <2>2. PICK d \in D : \A e \in D : d <= e
    <3> HIDE DEF D
    <3>1. QED BY <2>1, LeastNumber
  <2>3. PICK p \in places : d = Degree(p)
    BY <2>2
  <2>4. \A q \in places : Degree(p) <= Degree(q)
    BY <2>2, <2>3
  <2>5. QED BY <2>4
<1>5. place = CHOOSE p \in lowest : \A q \in lowest : p <= q
  BY DEF LowestDegreePlace, Min
<1>6. place \in places
  <2>1. lowest \subseteq places /\ places \subseteq Nat
    BY <1>1
  <2> HIDE DEF lowest, place, places
  <2>2. \E p \in lowest : \A q \in lowest : p <= q
    BY <1>4, <2>1, LeastNumber
  <2>3. QED BY <1>5, <2>1, <2>2
<1> HIDE DEF place
<1>7. t.solution[place] \in Vertices(h) /\ IsFree(t, t.solution[place])
  BY <1>1, <1>2, <1>6
<1>8. AddVertexDegreeLowest(h, t) = AddVertex(h, t, t.solution[place])
  BY DEF AddVertexDegreeLowest, place
<1>9. QED
  BY <1>7, <1>8, AddVertexAdds

\* omegaImprovement inserts a vertex that gains weight.
LEMMA OmegaGains ==
  ASSUME NEW h, IsSimpleGraph(h), NEW t, Settled(h, t), OmegaPlaces(h, t) # {}
  PROVE  \E v \in Vertices(h) : /\ TakesIn(h, t, OmegaImprovement(h, t), v)
                                /\ v \notin ISet(t) /\ t.mu[v] > 0
<1> DEFINE places == OmegaPlaces(h, t)
           place == Max(places)
<1>1. /\ t.size \in Nat /\ h.n \in Nat
      /\ \A p \in 0 .. h.n - 1 : /\ t.solution[p] \in Vertices(h)
                                 /\ p >= t.size <=> t.solution[p] \notin ISet(t)
  BY PlaceFacts
<1>2. \A p \in places : p \in 0 .. h.n - 1 /\ p >= t.size /\ t.mu[t.solution[p]] > 0
  BY <1>1 DEF OmegaPlaces
<1>3. place \in places
  <2>1. places \subseteq 0 .. h.n
    BY <1>1, <1>2
  <2> HIDE DEF places
  <2>2. \E p \in places : \A q \in places : p >= q
    BY <1>1, <2>1, GreatestNumber DEF places
  <2>3. QED BY <2>2 DEF Max
<1>4. OmegaImprovement(h, t) = Insert(h, t, t.solution[place])
  BY DEF OmegaImprovement
<1> HIDE DEF place, places
<1>5. /\ t.solution[place] \in Vertices(h) /\ t.solution[place] \notin ISet(t)
      /\ t.mu[t.solution[place]] > 0
  BY <1>1, <1>2, <1>3
<1>6. QED
  BY <1>4, <1>5, InsertTakesIn

\* When it finds none, no vertex outside would gain weight.
LEMMA OmegaExhausted ==
  ASSUME NEW h, IsSimpleGraph(h), NEW t, Settled(h, t), OmegaPlaces(h, t) = {}
  PROVE  \A v \in Vertices(h) \ ISet(t) : h.weight[v] <= Load(h, ISet(t), v)
<1> SUFFICES ASSUME NEW v \in Vertices(h) \ ISet(t) PROVE h.weight[v] <= Load(h, ISet(t), v)
  OBVIOUS
<1>1. t.position[v] \in t.size .. h.n - 1 /\ t.solution[t.position[v]] = v
  BY PlaceFacts
<1>2. ~(t.mu[v] > 0)
  BY <1>1 DEF OmegaPlaces
<1>3. /\ t.mu[v] = h.weight[v] - Load(h, ISet(t), v)
      /\ h.weight[v] \in Int /\ Load(h, ISet(t), v) \in Int
  BY SettledFacts, NeighborFacts, CountFacts
<1>4. QED
  BY <1>2, <1>3

-----------------------------------------------------------------------------
(***************************************************************************)
(* The tandem walk                                                         *)
(***************************************************************************)

\* Keeping some of the elements keeps them in order.
LEMMA KeepAscends ==
  ASSUME NEW V, V \subseteq Int, NEW q \in Seq(V), Ascending(q), NEW A
  PROVE  Ascending(Keep(q, A))
<1>1. PICK f : KeepTrace(f, V, q, A)
  BY KeepSteps
<1>2. /\ f \in [0 .. Len(q) -> Seq(V)]
      /\ f[0] = <<>> /\ f[Len(q)] = Keep(q, A)
      /\ \A j \in 1 .. Len(q) :
            f[j] = IF q[j] \in A THEN Append(f[j - 1], q[j]) ELSE f[j - 1]
  BY <1>1 DEF KeepTrace
<1>3. Len(q) \in Nat /\ \A j \in 1 .. Len(q) : q[j] \in Int
  <2>1. \A j \in 1 .. Len(q) : q[j] \in V
    OBVIOUS
  <2>2. \A j \in 1 .. Len(q) : q[j] \in Int
    BY <2>1
  <2>3. Len(q) \in Nat
    OBVIOUS
  <2>4. QED BY <2>2, <2>3
<1> DEFINE Good(j) == /\ Ascending(f[j])
                      /\ \A c \in 1 .. Len(f[j]) : \E d \in 1 .. j : f[j][c] = q[d]
           B == {j \in 0 .. Len(q) : Good(j)}
<1>4. 0 \in B
  BY <1>2, <1>3 DEF Ascending
<1>5. ASSUME NEW j \in 0 .. Len(q) - 1, j \in B PROVE j + 1 \in B
  <2>1. j + 1 \in 1 .. Len(q) /\ (j + 1) - 1 = j /\ j + 1 \in 0 .. Len(q) /\ j \in 0 .. Len(q)
    BY <1>3
  <2>2. f[j + 1] = IF q[j + 1] \in A THEN Append(f[j], q[j + 1]) ELSE f[j]
    BY <1>2, <2>1
  <2>3. f[j] \in Seq(V) /\ Good(j)
    BY <1>2, <1>5, <2>1
  <2> DEFINE b == f[j]
             r == f[j + 1]
             z == q[j + 1]
  <2>4. \A c \in 1 .. Len(b) : b[c] < z
    <3>1. \A d \in 1 .. j : q[d] < z
      BY <1>3, <2>1 DEF Ascending
    <3>2. QED BY <2>3, <3>1
  <2>5. Good(j + 1)
    <3>1. CASE z \in A
      <4>1. /\ Len(b) \in Nat /\ Len(r) = Len(b) + 1 /\ r[Len(b) + 1] = z
            /\ \A c \in 1 .. Len(b) : r[c] = b[c]
        BY <2>2, <2>3, <3>1
      <4>2. \A c \in 1 .. Len(r) : c \in 1 .. Len(b) \/ c = Len(b) + 1
        BY <4>1
      <4>3. ASSUME NEW c \in 1 .. Len(r), NEW d \in 1 .. Len(r), c < d PROVE r[c] < r[d]
        <5>1. c \in 1 .. Len(b)
          BY <4>1, <4>2, <4>3
        <5>2. CASE d \in 1 .. Len(b)
          <6>1. b[c] < b[d]
            BY <2>3, <4>3, <5>1, <5>2 DEF Ascending
          <6> HIDE DEF b, r
          <6>2. QED BY <4>1, <5>1, <5>2, <6>1
        <5>3. CASE d = Len(b) + 1
          <6> HIDE DEF b, r, z
          <6>1. QED BY <2>4, <4>1, <5>1, <5>3
        <5>4. QED BY <4>2, <5>2, <5>3
      <4>4. \A c \in 1 .. Len(r) : \E d \in 1 .. j + 1 : r[c] = q[d]
        <5>1. \A d \in 1 .. j : d \in 1 .. j + 1
          BY <1>3
        <5>2. j + 1 \in 1 .. j + 1
          BY <1>3
        <5>3. QED BY <2>3, <4>1, <4>2, <5>1, <5>2
      <4>5. Ascending(r)
        BY <4>3 DEF Ascending
      <4>6. QED BY <4>4, <4>5
    <3>2. CASE z \notin A
      <4>1. r = b
        BY <2>2, <3>2
      <4>2. \A d \in 1 .. j : d \in 1 .. j + 1
        BY <1>3
      <4>3. QED BY <2>3, <4>1, <4>2
    <3>3. QED BY <3>1, <3>2
  <2>6. QED BY <2>1, <2>5
<1>6. \A j \in 0 .. Len(q) : j \in B
  <2> HIDE DEF B
  <2>1. QED BY <1>3, <1>4, <1>5, UpTo
<1>7. QED
  BY <1>2, <1>3, <1>6

\* The places of the walk, where it stops, what it finds, and how it goes on.
Spots(q, l) == (1 .. Len(q) + 1) \X (1 .. Len(l) + 1)
AtEnd(q, l, at) == at[1] > Len(q) \/ at[2] > Len(l)
Finds(h, x, v, q, l, at) ==
  /\ l[at[2]] # v /\ q[at[1]] > l[at[2]]
  /\ h.weight[x] < h.weight[v] + h.weight[l[at[2]]]
Onward(v, q, l, at) ==
  <<IF l[at[2]] = v THEN at[1] ELSE at[1] + 1,
    IF l[at[2]] = v \/ q[at[1]] = l[at[2]] THEN at[2] + 1 ELSE at[2]>>

\* What the walk finds from each place.
Walks(W, h, x, v, q, l) ==
  W = [at \in Spots(q, l) |-> IF AtEnd(q, l, at) THEN None
                              ELSE IF Finds(h, x, v, q, l, at) THEN l[at[2]]
                              ELSE W[Onward(v, q, l, at)]]

\* Each step leaves less of the two lists.
Ahead(q, l, at) == (Len(q) + 1 - at[1]) + (Len(l) + 1 - at[2])

\* The places are pairs of numbers, and each step stays among them.
LEMMA OnwardFacts ==
  ASSUME NEW q \in Seq(Int), NEW l \in Seq(Int), NEW v, NEW at \in Spots(q, l)
  PROVE  /\ at = <<at[1], at[2]>> /\ at[1] \in 1 .. Len(q) + 1 /\ at[2] \in 1 .. Len(l) + 1
         /\ Ahead(q, l, at) \in 0 .. Len(q) + Len(l)
         /\ ~AtEnd(q, l, at) =>
              /\ at[1] \in 1 .. Len(q) /\ at[2] \in 1 .. Len(l)
              /\ q[at[1]] \in Int /\ l[at[2]] \in Int
              /\ Onward(v, q, l, at) \in Spots(q, l)
              /\ Ahead(q, l, Onward(v, q, l, at)) < Ahead(q, l, at)
<1> DEFINE a == at[1]
           b == at[2]
<1>1. at = <<a, b>> /\ a \in 1 .. Len(q) + 1 /\ b \in 1 .. Len(l) + 1
  BY DEF Spots
<1>2. Len(q) \in Nat /\ Len(l) \in Nat
  OBVIOUS
<1>3. Ahead(q, l, at) \in 0 .. Len(q) + Len(l)
  <2> HIDE DEF a, b
  <2>1. Ahead(q, l, at) = (Len(q) + 1 - a) + (Len(l) + 1 - b)
    BY DEF Ahead, a, b
  <2>2. QED BY <1>1, <1>2, <2>1
<1>4. ASSUME ~AtEnd(q, l, at)
      PROVE  /\ a \in 1 .. Len(q) /\ b \in 1 .. Len(l) /\ q[a] \in Int /\ l[b] \in Int
             /\ Onward(v, q, l, at) \in Spots(q, l)
             /\ Ahead(q, l, Onward(v, q, l, at)) < Ahead(q, l, at)
  <2>1. a \in 1 .. Len(q) /\ b \in 1 .. Len(l)
    BY <1>1, <1>2, <1>4 DEF AtEnd
  <2>2. q[a] \in Int /\ l[b] \in Int
    BY <2>1
  <2> DEFINE c == IF l[b] = v THEN a ELSE a + 1
             d == IF l[b] = v \/ q[a] = l[b] THEN b + 1 ELSE b
  <2>3. /\ c \in 1 .. Len(q) + 1 /\ d \in 1 .. Len(l) + 1
        /\ c + d > a + b
    <3> HIDE DEF a, b
    <3>1. QED BY <1>2, <2>1
  <2>4. Onward(v, q, l, at) = <<c, d>>
    BY DEF Onward
  <2> HIDE DEF a, b, c, d
  <2>5. Onward(v, q, l, at) \in Spots(q, l)
    BY <2>3, <2>4 DEF Spots
  <2>6. /\ Ahead(q, l, at) = (Len(q) + 1 - a) + (Len(l) + 1 - b)
        /\ Ahead(q, l, Onward(v, q, l, at)) = (Len(q) + 1 - c) + (Len(l) + 1 - d)
    BY <2>4 DEF Ahead, a, b
  <2>7. Ahead(q, l, Onward(v, q, l, at)) < Ahead(q, l, at)
    BY <1>2, <2>1, <2>3, <2>6
  <2>8. QED BY <2>1, <2>2, <2>5, <2>7
<1>5. QED
  BY <1>1, <1>3, <1>4

\* The recursion of the walk has a solution: it is built from the end on.
LEMMA WalkExists ==
  ASSUME NEW h, NEW x, NEW v, NEW q \in Seq(Int), NEW l \in Seq(Int)
  PROVE  \E W : Walks(W, h, x, v, q, l)
<1> DEFINE P == Spots(q, l)
           Stop(at) == AtEnd(q, l, at) \/ Finds(h, x, v, q, l, at)
           val(at) == IF AtEnd(q, l, at) THEN None ELSE l[at[2]]
           next(at) == Onward(v, q, l, at)
           rank(at) == Ahead(q, l, at)
           K == Len(q) + Len(l) + 1
           Partial(W, m) == /\ W \in [P -> Int]
                            /\ \A at \in P : rank(at) < m =>
                                 W[at] = IF Stop(at) THEN val(at) ELSE W[next(at)]
           A == {m \in 0 .. K : \E W : Partial(W, m)}
<1>1. K \in Nat
  OBVIOUS
<1>2. \A at \in P : /\ rank(at) \in 0 .. K - 1
                    /\ val(at) \in Int
                    /\ ~Stop(at) => next(at) \in P /\ rank(next(at)) < rank(at)
  <2>1. K - 1 = Len(q) + Len(l)
    OBVIOUS
  <2>2. ASSUME NEW at \in P
        PROVE  /\ rank(at) \in 0 .. K - 1
               /\ val(at) \in Int
               /\ ~Stop(at) => next(at) \in P /\ rank(next(at)) < rank(at)
    <3>1. /\ rank(at) \in 0 .. Len(q) + Len(l)
          /\ ~AtEnd(q, l, at) => /\ l[at[2]] \in Int /\ next(at) \in P
                                 /\ rank(next(at)) < rank(at)
      BY OnwardFacts
    <3> HIDE DEF K, P, next, rank
    <3>2. QED BY <2>1, <3>1 DEF None
  <2>3. QED BY <2>2
<1> HIDE DEF P, Stop, val, next, rank, K
<1>3. 0 \in A
  <2>1. Partial([at \in P |-> 0], 0)
    BY <1>1, <1>2
  <2>2. QED BY <1>1, <2>1
<1>4. ASSUME NEW m \in 0 .. K - 1, m \in A PROVE m + 1 \in A
  <2>1. PICK W : Partial(W, m)
    BY <1>4
  <2> DEFINE Z == [at \in P |-> IF rank(at) = m
                                THEN IF Stop(at) THEN val(at) ELSE W[next(at)]
                                ELSE W[at]]
  <2>2. Z \in [P -> Int]
    BY <1>2, <2>1
  <2>3. ASSUME NEW at \in P, rank(at) < m + 1
        PROVE  Z[at] = IF Stop(at) THEN val(at) ELSE Z[next(at)]
    <3>1. ~Stop(at) => /\ next(at) \in P /\ rank(next(at)) < m
                       /\ Z[next(at)] = W[next(at)]
      BY <1>1, <1>2, <2>3
    <3>2. Z[at] = IF Stop(at) THEN val(at) ELSE W[next(at)]
      BY <1>1, <1>2, <2>1, <2>3
    <3>3. QED BY <3>1, <3>2
  <2> HIDE DEF Z
  <2>4. Partial(Z, m + 1)
    BY <2>2, <2>3
  <2>5. m + 1 \in 0 .. K
    BY <1>1
  <2>6. QED BY <2>4, <2>5
<1>5. \A m \in 0 .. K : m \in A
  <2> HIDE DEF A
  <2>1. QED BY <1>1, <1>3, <1>4, UpTo
<1>6. PICK W : Partial(W, K)
  <2>1. K \in A
    <3>1. K \in 0 .. K
      BY <1>1
    <3> HIDE DEF A
    <3>2. QED BY <1>5, <3>1
  <2>2. QED BY <2>1
<1>7. \A at \in P : W[at] = IF Stop(at) THEN val(at) ELSE W[next(at)]
  BY <1>1, <1>2, <1>6
<1>8. Walks(W, h, x, v, q, l)
  <2>1. W = [at \in P |-> W[at]]
    BY <1>6
  <2>2. W = [at \in P |-> IF Stop(at) THEN val(at) ELSE W[next(at)]]
    BY <1>7, <2>1
  <2>3. QED BY <2>2 DEF Walks, P, Stop, val, next
<1>9. QED BY <1>8

\* The operator is such a walk from the first place.
LEMMA TandemWalks ==
  ASSUME NEW h, NEW x, NEW v, h.adj[v] \in Seq(Int), NEW l \in Seq(Int)
  PROVE  \E W : Walks(W, h, x, v, h.adj[v], l) /\ Tandem(h, x, v, l) = W[<<1, 1>>]
<1> DEFINE q == h.adj[v]
           Eq(W) == W = [at \in (1 .. Len(q) + 1) \X (1 .. Len(l) + 1) |->
                           IF at[1] > Len(q) \/ at[2] > Len(l) THEN None
                           ELSE IF /\ l[at[2]] # v /\ q[at[1]] > l[at[2]]
                                   /\ h.weight[x] < h.weight[v] + h.weight[l[at[2]]]
                           THEN l[at[2]]
                           ELSE W[<<IF l[at[2]] = v THEN at[1] ELSE at[1] + 1,
                                    IF l[at[2]] = v \/ q[at[1]] = l[at[2]]
                                    THEN at[2] + 1 ELSE at[2]>>]]
           C == CHOOSE W : Eq(W)
<1>1. Tandem(h, x, v, l) = C[<<1, 1>>]
  BY DEF Tandem
<1>2. PICK W : Walks(W, h, x, v, q, l)
  BY WalkExists
<1>3. Eq(W)
  BY <1>2 DEF Walks, Spots, AtEnd, Finds, Onward
<1>4. Eq(C)
  <2> HIDE DEF Eq
  <2>1. QED BY <1>3
<1> HIDE DEF C
<1>5. Walks(C, h, x, v, q, l)
  BY <1>4 DEF Walks, Spots, AtEnd, Finds, Onward
<1>6. QED
  BY <1>1, <1>5

\* The vertex found is in the list, is not v, is not beside v, and outweighs x
\* together with v.
Pairs(h, x, v, l, w) ==
  /\ w \in ToSet(l) /\ w # v /\ w \notin ToSet(h.adj[v])
  /\ h.weight[x] < h.weight[v] + h.weight[w]

\* As both lists ascend, what the walk has passed is below what it has still to
\* look at, unless it is stuck: it has met a w that is too light, and then every
\* neighbour to come is above that w and the walk ends with nothing.
LEMMA TandemFinds ==
  ASSUME NEW h, NEW x, NEW v, h.adj[v] \in Seq(Int), Ascending(h.adj[v]),
         NEW l \in Seq(Int), Ascending(l), Tandem(h, x, v, l) # None
  PROVE  Pairs(h, x, v, l, Tandem(h, x, v, l))
<1> DEFINE q == h.adj[v]
<1>1. PICK W : Walks(W, h, x, v, q, l) /\ Tandem(h, x, v, l) = W[<<1, 1>>]
  BY TandemWalks
<1>2. /\ q \in Seq(Int) /\ Len(q) \in Nat /\ Len(l) \in Nat
      /\ \A c \in 1 .. Len(q) : q[c] \in Int
      /\ \A c \in 1 .. Len(l) : l[c] \in Int
      /\ \A c, d \in 1 .. Len(q) : c < d => q[c] < q[d]
      /\ \A c, d \in 1 .. Len(l) : c < d => l[c] < l[d]
  BY DEF Ascending
<1> DEFINE Light(at) == ~(h.weight[x] < h.weight[v] + h.weight[l[at[2]]])
           Passed(at) == \A c \in 1 .. at[1] - 1 : \A d \in at[2] .. Len(l) : q[c] < l[d]
           Stuck(at) == /\ at[2] \in 1 .. Len(l) /\ l[at[2]] # v /\ Light(at)
                        /\ \A c \in at[1] .. Len(q) : q[c] > l[at[2]]
           Good(at) == W[at] = None \/ Pairs(h, x, v, l, W[at])
           K == Len(q) + Len(l) + 1
           A == {m \in 0 .. K : \A at \in Spots(q, l) :
                   Ahead(q, l, at) < m /\ (Passed(at) \/ Stuck(at)) => Good(at)}
<1> HIDE DEF q
<1>3. \A at \in Spots(q, l) :
        W[at] = IF AtEnd(q, l, at) THEN None
                ELSE IF Finds(h, x, v, q, l, at) THEN l[at[2]]
                ELSE W[Onward(v, q, l, at)]
  BY <1>1 DEF Walks
<1>4. \A at \in Spots(q, l) :
        /\ at[1] \in 1 .. Len(q) + 1 /\ at[2] \in 1 .. Len(l) + 1
        /\ Ahead(q, l, at) \in 0 .. Len(q) + Len(l)
        /\ ~AtEnd(q, l, at) => /\ at[1] \in 1 .. Len(q) /\ at[2] \in 1 .. Len(l)
                               /\ Onward(v, q, l, at) \in Spots(q, l)
                               /\ Ahead(q, l, Onward(v, q, l, at)) < Ahead(q, l, at)
  BY <1>2, OnwardFacts
\* What is found is not beside v.
<1>5. ASSUME NEW at \in Spots(q, l), ~AtEnd(q, l, at), Finds(h, x, v, q, l, at),
             Passed(at) \/ Stuck(at)
      PROVE  Pairs(h, x, v, l, l[at[2]])
  <2>1. at[1] \in 1 .. Len(q) /\ at[2] \in 1 .. Len(l)
    BY <1>4, <1>5
  <2> DEFINE a == at[1]
             b == at[2]
             w == l[at[2]]
  <2>2. w # v /\ q[a] > w /\ h.weight[x] < h.weight[v] + h.weight[w]
    BY <1>5 DEF Finds
  <2>3. Passed(at)
    BY <1>5, <2>2
  <2>4. w \in ToSet(l)
    BY <2>1 DEF ToSet
  <2>5. ASSUME NEW c \in 1 .. Len(q) PROVE q[c] # w
    <3>1. CASE c < a
      <4>1. c \in 1 .. a - 1 /\ b \in b .. Len(l)
        <5>1. a \in 1 .. Len(q) /\ b \in 1 .. Len(l)
          BY <2>1
        <5> HIDE DEF a, b, w
        <5>2. QED BY <1>2, <3>1, <5>1
      <4>2. q[c] < w
        BY <2>3, <4>1
      <4>3. q[c] \in Int /\ w \in Int
        BY <1>2, <2>1
      <4> HIDE DEF w
      <4>4. QED BY <4>2, <4>3
    <3>2. CASE c = a
      <4>1. q[c] \in Int /\ w \in Int /\ q[c] > w
        BY <1>2, <2>1, <2>2, <3>2
      <4> HIDE DEF w
      <4>2. QED BY <4>1
    <3>3. CASE c > a
      <4>1. q[a] < q[c] /\ q[a] > w /\ q[a] \in Int /\ q[c] \in Int /\ w \in Int
        BY <1>2, <2>1, <2>2, <3>3
      <4> HIDE DEF a, w
      <4>2. QED BY <4>1
    <3>4. a \in Int /\ c \in Int
      BY <2>1
    <3> HIDE DEF a
    <3>5. QED BY <3>1, <3>2, <3>3, <3>4
  <2>6. w \notin ToSet(q)
    <3>1. DOMAIN q = 1 .. Len(q)
      BY <1>2
    <3> HIDE DEF q, w
    <3>2. QED BY <2>5, <3>1 DEF ToSet
  <2>7. QED
    BY <2>2, <2>4, <2>6 DEF Pairs, q
\* Going on keeps one or the other.
<1>6. ASSUME NEW at \in Spots(q, l), ~AtEnd(q, l, at), ~Finds(h, x, v, q, l, at),
             Passed(at) \/ Stuck(at), NEW on, on = Onward(v, q, l, at)
      PROVE  Passed(on) \/ Stuck(on)
  <2> DEFINE a == at[1]
             b == at[2]
             w == l[at[2]]
  <2>1. a \in 1 .. Len(q) /\ b \in 1 .. Len(l) /\ w = l[b]
    BY <1>4, <1>6
  <2>2. q[a] \in Int /\ w \in Int
    BY <1>2, <2>1
  <2>3. /\ on[1] = IF w = v THEN a ELSE a + 1
        /\ on[2] = IF w = v \/ q[a] = w THEN b + 1 ELSE b
    BY <1>6 DEF Onward
  <2>4. CASE Stuck(at)
    <3>0. w # v /\ Light(at) /\ \A c \in a .. Len(q) : q[c] > w
      BY <2>4
    <3>1. w # v /\ q[a] > w /\ Light(at) /\ \A c \in a .. Len(q) : q[c] > w
      <4>1. a \in a .. Len(q)
        <5> HIDE DEF a
        <5>1. QED BY <1>2, <2>1
      <4> HIDE DEF a, w, Light
      <4>2. QED BY <3>0, <4>1
    <3>2. on[1] = a + 1 /\ on[2] = b
      BY <2>2, <2>3, <3>1
    <3>3. \A c \in a + 1 .. Len(q) : c \in a .. Len(q)
      BY <1>2, <2>1
    <3>4. \A c \in on[1] .. Len(q) : q[c] > l[on[2]]
      BY <2>1, <3>1, <3>2, <3>3
    <3>5. QED BY <2>1, <3>1, <3>2, <3>4
  <2>5. CASE Passed(at)
    <3>1. CASE w = v
      <4>1. on[1] = a /\ on[2] = b + 1
        BY <2>3, <3>1
      <4>2. \A d \in b + 1 .. Len(l) : d \in b .. Len(l)
        BY <1>2, <2>1
      <4>3. Passed(on)
        BY <2>5, <4>1, <4>2
      <4>4. QED BY <4>3
    <3>2. CASE w # v /\ q[a] <= w
      <4>1. on[1] = a + 1 /\ on[2] \in b .. b + 1 /\ (q[a] = w => on[2] = b + 1)
        BY <2>1, <2>3, <3>2
      <4>2. ASSUME NEW c \in 1 .. on[1] - 1, NEW d \in on[2] .. Len(l) PROVE q[c] < l[d]
        <5>1. d \in b .. Len(l) /\ (c \in 1 .. a - 1 \/ c = a) /\ d \in 1 .. Len(l)
          <6>1. c \in 1 .. (a + 1) - 1 /\ d \in on[2] .. Len(l)
            BY <4>1
          <6>2. on[2] \in Int /\ on[2] >= b
            BY <2>1, <4>1
          <6> HIDE DEF a, b
          <6>3. a \in 1 .. Len(q) /\ b \in 1 .. Len(l) /\ Len(l) \in Nat /\ Len(q) \in Nat
            BY <1>2, <2>1 DEF a, b
          <6>4. c \in 1 .. a - 1 \/ c = a
            BY <6>1, <6>3
          <6>5. d \in b .. Len(l) /\ d \in 1 .. Len(l)
            BY <6>1, <6>2, <6>3
          <6>6. QED BY <6>4, <6>5
        <5>2. CASE c \in 1 .. a - 1
          BY <2>5, <5>1, <5>2
        <5>3. CASE c = a /\ d = b
          <6>1. q[a] # w
            BY <2>1, <4>1, <5>3
          <6>2. q[a] < w
            <7> HIDE DEF w
            <7>1. QED BY <2>2, <3>2, <6>1
          <6>3. QED BY <5>3, <6>2, <2>1
        <5>4. CASE c = a /\ d > b
          <6>1. w < l[d] /\ l[d] \in Int
            BY <1>2, <2>1, <5>1, <5>4
          <6> HIDE DEF w
          <6>2. QED BY <2>2, <3>2, <5>4, <6>1
        <5>5. d = b \/ d > b
          BY <2>1, <5>1
        <5>6. QED BY <5>1, <5>2, <5>3, <5>4, <5>5
      <4>3. Passed(on)
        BY <4>2
      <4>4. QED BY <4>3
    <3>3. CASE w # v /\ q[a] > w
      <4>1. on[1] = a + 1 /\ on[2] = b
        BY <2>2, <2>3, <3>3
      <4>2. Light(at)
        BY <1>6, <3>3 DEF Finds
      <4>3. ASSUME NEW c \in on[1] .. Len(q) PROVE q[c] > l[on[2]]
        <5>1. c \in 1 .. Len(q) /\ a < c
          BY <1>2, <2>1, <4>1
        <5>2. q[a] < q[c] /\ q[c] \in Int
          BY <1>2, <2>1, <5>1
        <5>3. l[on[2]] = w
          BY <4>1
        <5> HIDE DEF w
        <5>4. QED BY <2>2, <3>3, <5>2, <5>3
      <4>4. Stuck(on)
        BY <2>1, <3>3, <4>1, <4>2, <4>3
      <4>5. QED BY <4>4
    <3>4. q[a] <= w \/ q[a] > w
      <4> HIDE DEF w
      <4>1. QED BY <2>2
    <3>5. QED BY <3>1, <3>2, <3>3, <3>4
  <2>6. QED BY <1>6, <2>4, <2>5
<1> HIDE DEF Light, Passed, Stuck
<1>7. 0 \in A
  BY <1>2, <1>4
<1>8. ASSUME NEW m \in 0 .. K - 1, m \in A PROVE m + 1 \in A
  <2>1. ASSUME NEW at \in Spots(q, l), Ahead(q, l, at) < m + 1, Passed(at) \/ Stuck(at)
        PROVE  Good(at)
    <3>1. CASE AtEnd(q, l, at)
      BY <1>3, <3>1
    <3>2. CASE ~AtEnd(q, l, at) /\ Finds(h, x, v, q, l, at)
      BY <1>3, <1>5, <2>1, <3>2
    <3>3. CASE ~AtEnd(q, l, at) /\ ~Finds(h, x, v, q, l, at)
      <4> DEFINE on == Onward(v, q, l, at)
      <4>1. /\ on \in Spots(q, l) /\ Ahead(q, l, on) < Ahead(q, l, at)
            /\ Ahead(q, l, on) \in Int /\ Ahead(q, l, at) \in Int
        BY <1>4, <3>3
      <4>2. W[at] = W[on]
        BY <1>3, <3>3
      <4>3. Passed(on) \/ Stuck(on)
        BY <1>6, <2>1, <3>3
      <4> HIDE DEF on
      <4>4. Ahead(q, l, on) < m
        BY <2>1, <4>1
      <4>5. Good(on)
        BY <1>8, <4>1, <4>3, <4>4
      <4>6. QED BY <4>2, <4>5
    <3>4. QED BY <3>1, <3>2, <3>3
  <2>2. m + 1 \in 0 .. K
    BY <1>2
  <2>3. QED BY <2>1, <2>2
<1>9. K \in A
  <2>1. K \in Nat
    BY <1>2
  <2> HIDE DEF A, K
  <2>2. \A m \in 0 .. K : m \in A
    BY <1>7, <1>8, <2>1, UpTo
  <2>3. QED BY <2>1, <2>2
<1>10. <<1, 1>> \in Spots(q, l) /\ Passed(<<1, 1>>)
  BY <1>2 DEF Spots, Passed
<1>11. Ahead(q, l, <<1, 1>>) < K
  BY <1>2, <1>4, <1>10
<1>12. QED
  BY <1>1, <1>9, <1>10, <1>11

-----------------------------------------------------------------------------
(***************************************************************************)
(* Swapping a member for two                                               *)
(***************************************************************************)

\* A 1-tight neighbour of a member has no other member beside it.
LEMMA OnlyMember ==
  ASSUME NEW h, IsSimpleGraph(h), NEW t, Settled(h, t), NEW x \in ISet(t),
         NEW v \in Neighbors(h, x), t.tight[v] = 1
  PROVE  /\ v \in Vertices(h) /\ v \notin ISet(t)
         /\ Neighbors(h, v) \cap (ISet(t) \ {x}) = {}
<1> DEFINE I == ISet(t)
           J == I \ {x}
<1>1. /\ I \subseteq Vertices(h) /\ Independent(h, I)
      /\ \A u \in Vertices(h) : t.tight[u] = Count(h, I, u)
  BY SettledFacts
<1>2. v \in Vertices(h) /\ x \in Neighbors(h, v)
  BY <1>1, NeighborFacts
<1>3. v \notin I
  BY <1>1 DEF Independent
<1>4. J \subseteq Vertices(h) /\ x \in Vertices(h) /\ x \notin J /\ I = J \cup {x}
  BY <1>1
<1>5. Count(h, I, v) = 1
  BY <1>1, <1>2
<1> HIDE DEF I, J
<1>6. OneMoreFor(h, J, I, x, v)
  BY <1>2, <1>4, OneMember
<1>7. Count(h, J, v) = 0
  BY <1>2, <1>5, <1>6 DEF OneMoreFor
<1>8. Neighbors(h, v) \cap J = {}
  BY <1>2, <1>4, <1>7, CountFacts
<1>9. QED
  BY <1>2, <1>3, <1>8 DEF I, J

\* The 1-tight list of x has no repetition and ascends, as the code asserts.
LEMMA OneTightFacts ==
  ASSUME NEW h, IsSimpleGraph(h), NEW t, NEW x \in Vertices(h), Ascending(h.adj[x])
  PROVE  /\ OneTight(h, t, x) \in Seq(Int) /\ Ascending(OneTight(h, t, x))
         /\ ToSet(OneTight(h, t, x)) =
              {u \in Neighbors(h, x) : t.tight[u] = 1}
<1> DEFINE V == Vertices(h)
           q == h.adj[x]
           A == {u \in V : t.tight[u] = 1}
<1>1. V \subseteq Int /\ q \in Seq(V)
  <2>1. h.adj \in [Vertices(h) -> Seq(Vertices(h))]
    BY DEF IsSimpleGraph
  <2>2. QED BY <2>1, NeighborFacts
<1>2. ToSet(q) = Neighbors(h, x) /\ Neighbors(h, x) \subseteq V
  <2>1. Neighbors(h, x) \subseteq V
    BY NeighborFacts
  <2>2. Neighbors(h, x) = {q[c] : c \in 1 .. Len(q)}
    BY DEF Neighbors
  <2> HIDE DEF q, V
  <2>3. DOMAIN q = 1 .. Len(q)
    BY <1>1
  <2>4. QED BY <2>1, <2>2, <2>3 DEF ToSet
<1>3. OneTight(h, t, x) = Keep(q, A)
  BY DEF OneTight
<1> HIDE DEF V, q, A
<1>4. /\ Keep(q, A) \in Seq(V) /\ ToSet(Keep(q, A)) = ToSet(q) \cap A
      /\ Ascending(Keep(q, A))
  BY <1>1, KeepElements, KeepAscends DEF q
<1>5. Keep(q, A) \in Seq(Int)
  <2> DEFINE r == Keep(q, A)
  <2>1. r \in Seq(V)
    BY <1>4
  <2> HIDE DEF r
  <2>2. \A j \in 1 .. Len(r) : r[j] \in Int
    <3>1. \A j \in 1 .. Len(r) : r[j] \in V
      BY <2>1
    <3>2. QED BY <1>1, <3>1
  <2>3. r \in Seq(Int)
    BY <2>1, <2>2
  <2>4. QED BY <2>3 DEF r
<1>6. ToSet(q) \cap A = {u \in Neighbors(h, x) : t.tight[u] = 1}
  BY <1>2 DEF A
<1>7. QED
  BY <1>3, <1>4, <1>5, <1>6

\* What twoImprovement does: x goes, two of its neighbours come in.
Swaps(h, t, r, x, v, w) ==
  /\ Settled(h, r) /\ ISet(r) = (ISet(t) \ {x}) \cup {v, w}
  /\ r.weight > t.weight

\* Removing x frees both, and adding v leaves w free because they are not adjacent.
LEMMA SwapGains ==
  ASSUME NEW h, IsSimpleGraph(h), NEW t, Settled(h, t), NEW x \in ISet(t),
         NEW v \in Neighbors(h, x), NEW w \in Neighbors(h, x),
         t.tight[v] = 1, t.tight[w] = 1, w # v, w \notin Neighbors(h, v),
         h.weight[x] < h.weight[v] + h.weight[w]
  PROVE  Swaps(h, t, AddVertex(h, AddVertex(h, RemoveVertex(h, t, x), v), w), x, v, w)
<1> DEFINE r1 == RemoveVertex(h, t, x)
           r2 == AddVertex(h, r1, v)
           r3 == AddVertex(h, r2, w)
           I == ISet(t)
<1>1. /\ x \in Vertices(h) /\ v \in Vertices(h) /\ w \in Vertices(h)
      /\ v \notin I /\ w \notin I
      /\ Neighbors(h, v) \cap (I \ {x}) = {} /\ Neighbors(h, w) \cap (I \ {x}) = {}
  BY OnlyMember, SettledFacts
<1>2. v \notin Neighbors(h, w)
  BY <1>1, NeighborFacts
<1>3. Removed(h, t, r1, x)
  BY <1>1, SettledFacts, RemoveVertexRemoves
<1> HIDE DEF r1
<1>4. Settled(h, r1) /\ ISet(r1) = I \ {x} /\ r1.weight = t.weight - h.weight[x]
  BY <1>3 DEF Removed
<1>5. IsFree(r1, v)
  <2>1. v \notin ISet(r1) /\ Neighbors(h, v) \cap ISet(r1) = {}
    BY <1>1, <1>4
  <2>2. QED BY <1>1, <1>4, <2>1, SettledFacts
<1>6. Added(h, r1, r2, v)
  BY <1>1, <1>4, <1>5, AddVertexAdds
<1> HIDE DEF r2
<1>7. Settled(h, r2) /\ ISet(r2) = (I \ {x}) \cup {v} /\ r2.weight = r1.weight + h.weight[v]
  BY <1>4, <1>6 DEF Added
<1>8. IsFree(r2, w)
  <2>1. w \notin ISet(r2) /\ Neighbors(h, w) \cap ISet(r2) = {}
    BY <1>1, <1>2, <1>7
  <2>2. QED BY <1>1, <1>7, <2>1, SettledFacts
<1>9. Added(h, r2, r3, w)
  BY <1>1, <1>7, <1>8, AddVertexAdds
<1> HIDE DEF r3
<1>10. Settled(h, r3) /\ ISet(r3) = (I \ {x}) \cup {v, w} /\ r3.weight = r2.weight + h.weight[w]
  BY <1>7, <1>9 DEF Added
<1>11. r3.weight > t.weight
  <2>1. /\ t.weight \in Int /\ h.weight[x] \in Int /\ h.weight[v] \in Int /\ h.weight[w] \in Int
    BY <1>1, SettledFacts, NeighborFacts
  <2>2. QED BY <1>4, <1>7, <1>10, <2>1
<1>12. QED
  BY <1>10, <1>11 DEF Swaps, r1, r2, r3

\* The first pair in the order of two nested loops exists.
LEMMA FirstPair ==
  ASSUME NEW S, S \subseteq Nat \X Nat, S # {}
  PROVE  \E e \in S : \A f \in S : e[1] < f[1] \/ (e[1] = f[1] /\ e[2] <= f[2])
<1> DEFINE A == {e[1] : e \in S}
<1>1. \A e \in S : e[1] \in Nat /\ e[2] \in Nat
  OBVIOUS
<1>2. PICK a \in A : \A c \in A : a <= c
  <2>1. A \subseteq Nat /\ A # {}
    BY <1>1
  <2> HIDE DEF A
  <2>2. QED BY <2>1, LeastNumber
<1> DEFINE B == {e[2] : e \in {f \in S : f[1] = a}}
<1>3. PICK b \in B : \A d \in B : b <= d
  <2>1. B \subseteq Nat /\ B # {}
    BY <1>1, <1>2
  <2> HIDE DEF B
  <2>2. QED BY <2>1, LeastNumber
<1>4. PICK e \in S : e[1] = a /\ e[2] = b
  BY <1>3
<1>5. ASSUME NEW f \in S PROVE e[1] < f[1] \/ (e[1] = f[1] /\ e[2] <= f[2])
  <2>1. f[1] \in A /\ a <= f[1] /\ (f[1] = a => f[2] \in B)
    BY <1>2
  <2>2. f[1] = a => b <= f[2]
    BY <1>3, <2>1
  <2>3. a \in Nat /\ f[1] \in Nat
    BY <1>1, <1>4
  <2>4. QED BY <1>4, <2>1, <2>2, <2>3
<1>6. QED BY <1>5

\* twoImprovement, when it finds a pair, makes a swap that gains weight.
THEOREM TwoSwapGains ==
  ASSUME NEW h, IsSimpleGraph(h), \A v \in Vertices(h) : Ascending(h.adj[v]),
         NEW t, Settled(h, t), TwoSwaps(h, t) # {}
  PROVE  \E x \in ISet(t) : \E v, w \in Neighbors(h, x) :
            Swaps(h, t, TwoImprovement(h, t), x, v, w)
<1> DEFINE swaps == TwoSwaps(h, t)
           first == CHOOSE e \in swaps : \A f \in swaps :
                      e[1] < f[1] \/ (e[1] = f[1] /\ e[2] <= f[2])
           x == t.solution[first[1]]
           l == OneTight(h, t, x)
           v == l[first[2]]
           w == Tandem(h, x, v, l)
<1>1. /\ t.size \in Nat /\ h.n \in Nat /\ t.size <= h.n
      /\ \A p \in 0 .. h.n - 1 : /\ t.solution[p] \in Vertices(h)
                                 /\ p >= t.size <=> t.solution[p] \notin ISet(t)
  <2>1. /\ t.size \in Nat /\ t.free \in Nat /\ t.size + t.free <= h.n /\ h.n \in Nat
        /\ \A p \in 0 .. h.n - 1 : /\ t.solution[p] \in Vertices(h)
                                   /\ p >= t.size <=> t.solution[p] \notin ISet(t)
    BY PlaceFacts
  <2>2. QED BY <2>1
<1>2. first \in swaps
  <2>1. swaps \subseteq Nat \X Nat
    BY <1>1 DEF TwoSwaps
  <2> HIDE DEF swaps
  <2>2. \E e \in swaps : \A f \in swaps : e[1] < f[1] \/ (e[1] = f[1] /\ e[2] <= f[2])
    BY <2>1, FirstPair DEF swaps
  <2>3. QED BY <2>2
<1>3. TwoImprovement(h, t) = AddVertex(h, AddVertex(h, RemoveVertex(h, t, x), v), w)
  BY DEF TwoImprovement
<1> HIDE DEF first
<1>4. /\ first[1] \in 0 .. t.size - 1 /\ first[2] \in 1 .. Len(l) /\ w # None
  BY <1>2 DEF TwoSwaps
<1> HIDE DEF swaps
<1>5. x \in ISet(t) /\ x \in Vertices(h)
  <2>1. first[1] \in 0 .. h.n - 1 /\ ~(first[1] >= t.size)
    BY <1>1, <1>4
  <2>2. QED BY <1>1, <2>1
<1> HIDE DEF x
<1>6. /\ l \in Seq(Int) /\ Ascending(l)
      /\ ToSet(l) = {u \in Neighbors(h, x) : t.tight[u] = 1}
  BY <1>5, OneTightFacts
<1> HIDE DEF l
<1>7. v \in Neighbors(h, x) /\ t.tight[v] = 1 /\ v \in Vertices(h)
  <2>1. v \in ToSet(l)
    BY <1>4, <1>6 DEF ToSet
  <2>2. QED BY <1>5, <1>6, <2>1, NeighborFacts
<1> HIDE DEF v
<1>8. h.adj[v] \in Seq(Int) /\ Ascending(h.adj[v]) /\ ToSet(h.adj[v]) = Neighbors(h, v)
  <2>1. h.adj[v] \in Seq(Vertices(h)) /\ Vertices(h) \subseteq Int
    <3>1. h.adj[v] \in Seq(Vertices(h))
      BY <1>7 DEF IsSimpleGraph
    <3>2. QED BY <3>1, NeighborFacts
  <2>2. ToSet(h.adj[v]) = Neighbors(h, v)
    BY <2>1 DEF ToSet, Neighbors
  <2>3. QED BY <1>7, <2>1, <2>2
<1>9. Pairs(h, x, v, l, w)
  BY <1>4, <1>6, <1>8, TandemFinds
<1> HIDE DEF w
<1>10. /\ w \in Neighbors(h, x) /\ t.tight[w] = 1 /\ w # v /\ w \notin Neighbors(h, v)
       /\ h.weight[x] < h.weight[v] + h.weight[w]
  BY <1>6, <1>8, <1>9 DEF Pairs
<1>11. Swaps(h, t, TwoImprovement(h, t), x, v, w)
  BY <1>3, <1>5, <1>7, <1>10, SwapGains
<1>12. QED
  BY <1>5, <1>7, <1>10, <1>11

-----------------------------------------------------------------------------
(***************************************************************************)
(* The inductive invariant                                                 *)
(***************************************************************************)

\* The three objects add up, at every point of the program.
ObjectsSettled == g \in Graphs /\ Settled(g, s) /\ Settled(g, next_s) /\ Settled(g, best_s)

\* The points inside the search.
Searching == {"outer", "cool", "shake", "fill", "improve", "judge", "roundend"}

\* What has been reached by each point: the walk and the best stay maximal, the
\* copy is maximal again before it is improved and has been improved before it is
\* judged.
PhasesReached ==
  /\ pc # "greedy" => IsMaximal(s) /\ IsMaximal(best_s)
  /\ pc \in {"improve", "judge"} => IsMaximal(next_s)
  /\ pc = "judge" => OmegaPlaces(g, next_s) = {}
  /\ pc \in Searching => g.m # 0
  /\ pc # "done" => outfile = <<>>
  /\ pc = "done" /\ ~naive =>
       outfile = Keep([v \in 1 .. g.n |-> v - 1], ISet(best_s))

\* The patience and the rounds without progress are tested as soon as they have
\* grown; the last round never cools, so the outer loop never runs out.
LoopsEnd ==
  /\ pc \notin {"roundend", "exit", "done"} => no_improve_time <= NoChangeTime
  /\ pc \notin {"exit", "done"} => outer_no_improve_round < NoImproveStop
  /\ pc \in {"greedy", "outer"} => i < OuterIters
  /\ LastRound => temps > 0
  /\ pc = "roundend" /\ LastRound => no_improve_time > NoChangeTime

IInv ==
  TypeOK /\ ObjectsSettled /\ PhasesReached /\ LoopsEnd /\ VictimExists /\ BestDominates

\* The instance is one of the assumed ones.
LEMMA InstanceFacts ==
  ASSUME g \in Graphs
  PROVE  /\ IsSimpleGraph(g) /\ g.weight \in [Vertices(g) -> Nat]
         /\ \A v \in Vertices(g) : Ascending(g.adj[v])
         /\ g.m # 0 => \E v \in Vertices(g) : Neighbors(g, v) # {}
<1>1. /\ IsSimpleGraph(g)
      /\ \A v \in Vertices(g) : Ascending(g.adj[v]) /\ g.weight[v] >= 0
      /\ g.m # 0 => \E v \in Vertices(g) : Neighbors(g, v) # {}
  BY SearchAssumption
<1>2. g.weight \in [Vertices(g) -> Int]
  BY <1>1, NeighborFacts
<1>3. QED
  BY <1>1, <1>2

\* The bounds are numbers.
LEMMA BoundFacts ==
  /\ Targets \subseteq Nat
  /\ OuterIters \in Nat \ {0} /\ NoChangeTime \in Nat \ {0}
  /\ NoImproveStop \in Nat \ {0} /\ Temperatures \in Nat \ {0}
BY SearchAssumption

\* Without a negative weight no solution weighs less than nothing.
LEMMA WeightNat ==
  ASSUME g \in Graphs, NEW t, Settled(g, t)
  PROVE  t.weight \in Nat
<1> DEFINE V == Vertices(g)
           w == g.weight
           S == ISet(t)
<1>1. IsSimpleGraph(g)
  BY InstanceFacts
<1>2. IsFiniteSet(V) /\ w \in [V -> Nat] /\ V \in SUBSET V
  BY <1>1, InstanceFacts, NeighborFacts
<1>3. S \in SUBSET V /\ t.weight = SumOf(w, S)
  BY <1>1, SettledFacts
<1> HIDE DEF V, w, S
<1>4. SumOf(w, S) \in Nat
  BY <1>2, <1>3, SumOfPart
<1>5. QED
  BY <1>3, <1>4

\* A maximal solution has no free vertex, and every vertex outside has a member
\* beside it.
LEMMA MaximalFacts ==
  ASSUME NEW h, IsSimpleGraph(h), NEW t, Settled(h, t), IsMaximal(t)
  PROVE  \A v \in Vertices(h) \ ISet(t) : IsNonFree(t, v) /\ Neighbors(h, v) \cap ISet(t) # {}
<1> SUFFICES ASSUME NEW v \in Vertices(h) \ ISet(t)
             PROVE  IsNonFree(t, v) /\ Neighbors(h, v) \cap ISet(t) # {}
  OBVIOUS
<1>1. ~IsFree(t, v)
  <2>1. t.size \in Nat /\ t.position[v] \in 0 .. h.n - 1 /\ h.n \in Nat
    BY PlaceFacts
  <2>2. QED BY <2>1 DEF IsMaximal, IsFree
<1>2. QED
  BY <1>1, SettledFacts

\* A graph with an edge leaves somebody out of every maximal solution.
LEMMA SomeoneLeftOut ==
  ASSUME NEW h, IsSimpleGraph(h), NEW t, Settled(h, t), IsMaximal(t),
         NEW v \in Vertices(h), Neighbors(h, v) # {}
  PROVE  \E u \in Vertices(h) : IsNonFree(t, u)
<1>1. PICK u \in Neighbors(h, v) : u \in Vertices(h)
  BY NeighborFacts
<1>2. ~(u \in ISet(t) /\ v \in ISet(t))
  BY SettledFacts DEF Independent
<1>3. QED
  BY <1>1, <1>2, MaximalFacts

\* So does an insertion that evicts: whoever is beside the new member.
LEMMA EvictedLeftOut ==
  ASSUME NEW h, IsSimpleGraph(h), NEW t, Settled(h, t), NEW v \in Vertices(h), IsNonFree(t, v)
  PROVE  \E u \in Vertices(h) : IsNonFree(Insert(h, t, v), u)
<1> DEFINE r == Insert(h, t, v)
<1>1. v \notin ISet(t) /\ ~IsFree(t, v)
  <2>1. /\ v \in ISet(t) <=> InSolution(t, v)
        /\ IsNonFree(t, v) => ~InSolution(t, v) /\ ~IsFree(t, v)
    BY SettledFacts, BlockFacts
  <2>2. QED BY <2>1
<1>2. PICK u \in Neighbors(h, v) : u \in Vertices(h)
  <2>1. Neighbors(h, v) \cap ISet(t) # {}
    BY <1>1, SettledFacts
  <2>2. QED BY <2>1, NeighborFacts
<1>3. TakesIn(h, t, r, v)
  BY <1>1, InsertTakesIn
<1> HIDE DEF r
<1>4. Settled(h, r) /\ v \in ISet(r)
  BY <1>3 DEF TakesIn
<1>5. u \notin ISet(r) /\ Neighbors(h, u) \cap ISet(r) # {}
  <2>1. v \in Neighbors(h, u)
    BY <1>2, NeighborFacts
  <2>2. u \notin ISet(r)
    BY <1>4, <1>2, SettledFacts DEF Independent
  <2>3. QED BY <1>4, <2>1, <2>2
<1>6. IsNonFree(r, u)
  BY <1>2, <1>4, <1>5, SettledFacts
<1>7. QED
  BY <1>2, <1>6 DEF r

\* What the invariant says, as facts about the instance and each object.
LEMMA InvariantFacts ==
  ASSUME IInv
  PROVE  /\ g \in Graphs /\ IsSimpleGraph(g) /\ g.weight \in [Vertices(g) -> Nat]
         /\ Settled(g, s) /\ Settled(g, next_s) /\ Settled(g, best_s)
         /\ s.weight \in Nat /\ next_s.weight \in Nat /\ best_s.weight \in Nat
BY InstanceFacts, WeightNat DEF IInv, ObjectsSettled

\* What is written for a maximal solution: its members, in increasing order.
LEMMA WrittenFacts ==
  ASSUME NEW h, IsSimpleGraph(h), NEW t, Settled(h, t)
  PROVE  LET out == Keep([v \in 1 .. h.n |-> v - 1], ISet(t))
         IN out \in Seq(Vertices(h)) /\ ToSet(out) = ISet(t) /\ Ascending(out)
<1> DEFINE q == [v \in 1 .. h.n |-> v - 1]
           V == Vertices(h)
<1>1. h.n \in Nat /\ V \subseteq Int /\ ISet(t) \subseteq V
  BY NeighborFacts, SettledFacts
<1>2. q \in Seq(V) /\ Len(q) = h.n /\ \A a \in 1 .. h.n : q[a] = a - 1
  <2>1. \A a \in 1 .. h.n : a - 1 \in V
    BY <1>1 DEF Vertices
  <2>2. QED BY <1>1, <2>1
<1>3. ToSet(q) = V
  <2>1. ASSUME NEW u \in V PROVE u \in ToSet(q)
    <3>1. u + 1 \in 1 .. h.n /\ q[u + 1] = u
      BY <1>1 DEF Vertices
    <3>2. QED BY <1>2, <3>1 DEF ToSet
  <2>2. ToSet(q) \subseteq V
    <3> HIDE DEF q, V
    <3>1. \A a \in 1 .. Len(q) : q[a] \in V
      BY <1>2
    <3>2. DOMAIN q = 1 .. Len(q)
      BY <1>2
    <3>3. QED BY <3>1, <3>2 DEF ToSet
  <2>3. QED BY <2>1, <2>2
<1>4. Ascending(q)
  BY <1>1, <1>2 DEF Ascending
<1> HIDE DEF q, V
<1>5. /\ Keep(q, ISet(t)) \in Seq(V) /\ ToSet(Keep(q, ISet(t))) = ToSet(q) \cap ISet(t)
      /\ Ascending(Keep(q, ISet(t)))
  BY <1>1, <1>2, <1>4, KeepElements, KeepAscends
<1>6. ToSet(Keep(q, ISet(t))) = ISet(t)
  BY <1>1, <1>3, <1>5
<1>7. QED
  BY <1>5, <1>6 DEF q, V

\* The first state.
LEMMA InitInvariant == Init => IInv
<1> SUFFICES ASSUME Init PROVE IInv
  OBVIOUS
<1>1. /\ g \in Graphs /\ IsSimpleGraph(g)
      /\ OuterIters \in Nat \ {0} /\ NoChangeTime \in Nat \ {0}
      /\ NoImproveStop \in Nat \ {0} /\ Temperatures \in Nat \ {0}
  BY InstanceFacts, BoundFacts DEF Init
<1>2. ObjectsSettled
  BY <1>1, NewSettled DEF Init, ObjectsSettled
<1>3. TypeOK
  <2>1. /\ todo \in 0 .. 2 /\ k \in {0, 1} /\ local_best \in Nat
        /\ i \in 0 .. OuterIters /\ temps \in 0 .. Temperatures
        /\ no_improve_time \in 0 .. NoChangeTime + 1
        /\ outer_no_improve_round \in 0 .. NoImproveStop
    BY <1>1 DEF Init
  <2>2. /\ naive \in BOOLEAN /\ target \in Targets /\ improve_flag \in BOOLEAN
        /\ pc = "greedy" /\ outfile = <<>>
    BY DEF Init
  <2>3. outfile \in Seq(Vertices(g))
    BY <2>2
  <2>4. QED BY <1>1, <2>1, <2>2, <2>3 DEF TypeOK
<1>4. PhasesReached /\ VictimExists /\ BestDominates
  BY DEF Init, PhasesReached, VictimExists, BestDominates, Searching
<1>5. LoopsEnd
  BY <1>1 DEF Init, LoopsEnd, LastRound
<1>6. QED
  BY <1>2, <1>3, <1>4, <1>5 DEF IInv

\* Steps that leave the objects and the file alone keep what is said of them.
LEMMA ObjectsUnchanged ==
  ASSUME IInv, UNCHANGED <<g, s, next_s, best_s>>
  PROVE  ObjectsSettled'
BY DEF IInv, ObjectsSettled

\* Every step of the program keeps the invariant.
LEMMA StepInvariant == IInv /\ [Next]_vars => IInv'
<1> SUFFICES ASSUME IInv, [Next]_vars PROVE IInv'
  OBVIOUS
<1> USE DEF options, counters
<1>0. /\ TypeOK /\ PhasesReached /\ LoopsEnd /\ VictimExists /\ BestDominates
      /\ g \in Graphs /\ IsSimpleGraph(g) /\ g.weight \in [Vertices(g) -> Nat]
      /\ Settled(g, s) /\ Settled(g, next_s) /\ Settled(g, best_s)
      /\ s.weight \in Nat /\ next_s.weight \in Nat /\ best_s.weight \in Nat
      /\ OuterIters \in Nat \ {0} /\ NoChangeTime \in Nat \ {0}
      /\ NoImproveStop \in Nat \ {0} /\ Temperatures \in Nat \ {0}
  BY InvariantFacts, BoundFacts DEF IInv
<1>1. CASE GreedyStep
  <2>1. /\ pc = "greedy" /\ ~IsMaximal(s) /\ s' = AddVertexDegreeLowest(g, s)
        /\ UNCHANGED <<options, pc, next_s, best_s, todo, k, local_best, counters, outfile>>
    BY <1>1 DEF GreedyStep
  <2>2. Settled(g, s')
    <3>1. PICK v \in Vertices(g) : Added(g, s, s', v)
      BY <1>0, <2>1, LowestDegreeAdds
    <3>2. QED BY <3>1 DEF Added
  <2>3. TypeOK'
    BY <1>0, <2>1 DEF TypeOK
  <2>4. ObjectsSettled'
    BY <1>0, <2>1, <2>2 DEF ObjectsSettled
  <2>5. PhasesReached' /\ LoopsEnd' /\ VictimExists' /\ BestDominates'
    BY <1>0, <2>1 DEF PhasesReached, Searching, LoopsEnd, LastRound, VictimExists, BestDominates
  <2>6. QED BY <2>3, <2>4, <2>5 DEF IInv
<1>2. CASE GreedyDone
  <2>1. /\ pc = "greedy" /\ IsMaximal(s) /\ best_s' = s /\ local_best' = s.weight
        /\ pc' = IF naive THEN "done" ELSE IF g.m = 0 THEN "exit" ELSE "outer"
        /\ UNCHANGED <<options, s, next_s, todo, k, counters, outfile>>
    BY <1>2 DEF GreedyDone
  <2>2. TypeOK'
    BY <1>0, <2>1 DEF TypeOK
  <2>3. ObjectsSettled'
    BY <1>0, <2>1 DEF ObjectsSettled
  <2>4. PhasesReached'
    BY <1>0, <2>1 DEF PhasesReached, Searching
  <2>5. LoopsEnd'
    BY <1>0, <2>1 DEF LoopsEnd, LastRound
  <2>6. VictimExists' /\ BestDominates'
    BY <1>0, <2>1 DEF VictimExists, BestDominates
  <2>7. QED BY <2>2, <2>3, <2>4, <2>5, <2>6 DEF IInv
<1>3. CASE StartRound
  <2>1. /\ pc = "outer" /\ i < OuterIters /\ i' = i + 1 /\ improve_flag' = FALSE
        /\ temps' = Temperatures /\ pc' = "cool"
        /\ UNCHANGED <<options, s, next_s, best_s, todo, k, local_best, no_improve_time,
                       outer_no_improve_round, outfile>>
    BY <1>3 DEF StartRound
  <2>2. TypeOK'
    <3>1. i' \in 0 .. OuterIters /\ temps' \in 0 .. Temperatures
      BY <1>0, <2>1 DEF TypeOK
    <3>2. QED BY <1>0, <2>1, <3>1 DEF TypeOK
  <2>3. ObjectsSettled'
    BY <2>1, ObjectsUnchanged
  <2>4. PhasesReached' /\ VictimExists' /\ BestDominates'
    BY <1>0, <2>1 DEF PhasesReached, Searching, VictimExists, BestDominates
  <2>5. LoopsEnd'
    BY <1>0, <2>1 DEF LoopsEnd, LastRound
  <2>6. QED BY <2>2, <2>3, <2>4, <2>5 DEF IInv
<1>4. CASE StartIteration
  <2>1. /\ pc = "cool" /\ temps > 0
        /\ temps' = IF LastRound THEN temps ELSE temps - 1
        /\ next_s' = s /\ todo' = (IF k % 2 = 0 THEN 1 ELSE 2) /\ pc' = "shake"
        /\ UNCHANGED <<options, s, best_s, k, local_best, i, improve_flag,
                       no_improve_time, outer_no_improve_round, outfile>>
    BY <1>4 DEF StartIteration
  <2>2. TypeOK'
    <3>1. temps' \in 0 .. Temperatures /\ todo' \in 0 .. 2
      BY <1>0, <2>1 DEF TypeOK
    <3>2. QED BY <1>0, <2>1, <3>1 DEF TypeOK
  <2>3. ObjectsSettled'
    BY <1>0, <2>1 DEF ObjectsSettled
  <2>4. PhasesReached' /\ BestDominates'
    BY <1>0, <2>1 DEF PhasesReached, Searching, BestDominates
  <2>5. LoopsEnd'
    BY <1>0, <2>1 DEF LoopsEnd, LastRound, TypeOK
  <2>6. VictimExists'
    <3>1. IsMaximal(s) /\ g.m # 0
      BY <1>0, <2>1 DEF PhasesReached, Searching
    <3>2. \E v \in Vertices(g) : IsNonFree(s, v)
      BY <1>0, <3>1, InstanceFacts, SomeoneLeftOut
    <3>3. QED BY <2>1, <3>2 DEF VictimExists
  <2>7. QED BY <2>2, <2>3, <2>4, <2>5, <2>6 DEF IInv
<1>5. CASE Cooled
  <2>1. /\ pc = "cool" /\ temps = 0 /\ pc' = "roundend"
        /\ UNCHANGED <<options, s, next_s, best_s, todo, k, local_best, counters, outfile>>
    BY <1>5 DEF Cooled
  <2>2. TypeOK'
    BY <1>0, <2>1 DEF TypeOK
  <2>3. ObjectsSettled'
    BY <2>1, ObjectsUnchanged
  <2>4. PhasesReached' /\ VictimExists' /\ BestDominates'
    BY <1>0, <2>1 DEF PhasesReached, Searching, VictimExists, BestDominates
  <2>5. LoopsEnd'
    BY <1>0, <2>1 DEF LoopsEnd, LastRound
  <2>6. QED BY <2>2, <2>3, <2>4, <2>5 DEF IInv
<1>6. CASE EndRound
  <2>1. /\ pc = "roundend"
        /\ \/ /\ no_improve_time > NoChangeTime /\ pc' = "exit"
              /\ outer_no_improve_round' = outer_no_improve_round
           \/ /\ ~(no_improve_time > NoChangeTime)
              /\ outer_no_improve_round' = outer_no_improve_round + (IF improve_flag THEN 0 ELSE 1)
              /\ pc' = IF outer_no_improve_round' = NoImproveStop THEN "exit" ELSE "outer"
        /\ UNCHANGED <<options, s, next_s, best_s, todo, k, local_best, i, temps,
                       improve_flag, no_improve_time, outfile>>
    BY <1>6 DEF EndRound
  <2>2. outer_no_improve_round < NoImproveStop /\ outer_no_improve_round \in Nat
    BY <1>0, <2>1 DEF LoopsEnd, TypeOK
  <2>3. /\ outer_no_improve_round' \in 0 .. NoImproveStop /\ pc' \in {"exit", "outer"}
        /\ pc' = "outer" => /\ ~(no_improve_time > NoChangeTime)
                            /\ outer_no_improve_round' < NoImproveStop
    BY <1>0, <2>1, <2>2
  <2>4. TypeOK'
    BY <1>0, <2>1, <2>3 DEF TypeOK
  <2>5. ObjectsSettled'
    BY <2>1, ObjectsUnchanged
  <2>6. PhasesReached' /\ VictimExists' /\ BestDominates'
    BY <1>0, <2>1, <2>3 DEF PhasesReached, Searching, VictimExists, BestDominates
  <2>7. LoopsEnd'
    <3>1. i \in 0 .. OuterIters /\ no_improve_time \in Nat
      BY <1>0 DEF TypeOK
    <3>2. QED BY <1>0, <2>1, <2>3, <3>1 DEF LoopsEnd, LastRound
  <2>8. QED BY <2>4, <2>5, <2>6, <2>7 DEF IInv
<1>7. ASSUME NEW v \in Vertices(g), ForceVertex(v) PROVE IInv'
  <2>1. /\ pc = "shake" /\ todo > 0 /\ IsNonFree(next_s, v)
        /\ next_s' = Insert(g, next_s, v) /\ todo' = todo - 1
        /\ UNCHANGED <<options, pc, s, best_s, k, local_best, counters, outfile>>
    BY <1>7 DEF ForceVertex
  <2>2. Settled(g, next_s')
    <3>1. /\ v \in ISet(next_s) <=> InSolution(next_s, v)
          /\ IsNonFree(next_s, v) => ~InSolution(next_s, v)
      BY <1>0, SettledFacts, BlockFacts
    <3>2. TakesIn(g, next_s, next_s', v)
      BY <1>0, <2>1, <3>1, InsertTakesIn
    <3>3. QED BY <3>2 DEF TakesIn
  <2>3. TypeOK'
    <3>1. todo' \in 0 .. 2
      BY <1>0, <2>1 DEF TypeOK
    <3>2. QED BY <1>0, <2>1, <3>1 DEF TypeOK
  <2>4. ObjectsSettled'
    BY <1>0, <2>1, <2>2 DEF ObjectsSettled
  <2>5. PhasesReached' /\ LoopsEnd' /\ BestDominates'
    BY <1>0, <2>1 DEF PhasesReached, Searching, LoopsEnd, LastRound, BestDominates
  <2>6. VictimExists'
    <3>1. \E u \in Vertices(g) : IsNonFree(next_s', u)
      BY <1>0, <2>1, EvictedLeftOut
    <3>2. QED BY <2>1, <3>1 DEF VictimExists
  <2>7. QED BY <2>3, <2>4, <2>5, <2>6 DEF IInv
<1>8. ASSUME NEW v \in Vertices(g), AddRandomVertex(v) PROVE IInv'
  <2>1. /\ pc = "fill" /\ IsFree(next_s, v) /\ next_s' = AddVertex(g, next_s, v)
        /\ UNCHANGED <<options, pc, s, best_s, todo, k, local_best, counters, outfile>>
    BY <1>8 DEF AddRandomVertex
  <2>2. Settled(g, next_s')
    <3>1. Added(g, next_s, next_s', v)
      BY <1>0, <2>1, AddVertexAdds
    <3>2. QED BY <3>1 DEF Added
  <2>3. TypeOK'
    BY <1>0, <2>1 DEF TypeOK
  <2>4. ObjectsSettled'
    BY <1>0, <2>1, <2>2 DEF ObjectsSettled
  <2>5. PhasesReached' /\ LoopsEnd' /\ VictimExists' /\ BestDominates'
    BY <1>0, <2>1 DEF PhasesReached, Searching, LoopsEnd, LastRound, VictimExists, BestDominates
  <2>6. QED BY <2>3, <2>4, <2>5 DEF IInv
<1>9. CASE ForceDone \/ FillDone
  <2>1. /\ \/ pc = "shake" /\ todo = 0 /\ pc' = "fill"
           \/ pc = "fill" /\ IsMaximal(next_s) /\ pc' = "improve"
        /\ UNCHANGED <<options, s, next_s, best_s, todo, k, local_best, counters, outfile>>
    BY <1>9 DEF ForceDone, FillDone
  <2>2. TypeOK'
    BY <1>0, <2>1 DEF TypeOK
  <2>3. ObjectsSettled'
    BY <2>1, ObjectsUnchanged
  <2>4. PhasesReached' /\ LoopsEnd' /\ VictimExists' /\ BestDominates'
    BY <1>0, <2>1 DEF PhasesReached, Searching, LoopsEnd, LastRound, VictimExists, BestDominates
  <2>5. QED BY <2>2, <2>3, <2>4 DEF IInv
<1>10. CASE Improve
  <2>1. /\ pc = "improve"
        /\ \/ OmegaPlaces(g, next_s) # {} /\ next_s' = OmegaImprovement(g, next_s) /\ pc' = "fill"
           \/ TwoSwaps(g, next_s) # {} /\ next_s' = TwoImprovement(g, next_s) /\ pc' = "fill"
           \/ OmegaPlaces(g, next_s) = {} /\ pc' = "judge" /\ next_s' = next_s
        /\ UNCHANGED <<options, s, best_s, todo, k, local_best, counters, outfile>>
    BY <1>10 DEF Improve
  <2>2. Settled(g, next_s')
    <3>1. CASE OmegaPlaces(g, next_s) # {} /\ next_s' = OmegaImprovement(g, next_s)
      <4>1. PICK v \in Vertices(g) : TakesIn(g, next_s, next_s', v)
        BY <1>0, <3>1, OmegaGains
      <4>2. QED BY <4>1 DEF TakesIn
    <3>2. CASE TwoSwaps(g, next_s) # {} /\ next_s' = TwoImprovement(g, next_s)
      <4>1. \E x \in ISet(next_s) : \E v, w \in Neighbors(g, x) :
               Swaps(g, next_s, next_s', x, v, w)
        BY <1>0, <3>2, InstanceFacts, TwoSwapGains
      <4>2. QED BY <4>1 DEF Swaps
    <3>3. QED BY <1>0, <2>1, <3>1, <3>2
  <2>3. TypeOK'
    BY <1>0, <2>1 DEF TypeOK
  <2>4. ObjectsSettled'
    BY <1>0, <2>1, <2>2 DEF ObjectsSettled
  <2>5. PhasesReached' /\ LoopsEnd' /\ VictimExists' /\ BestDominates'
    BY <1>0, <2>1 DEF PhasesReached, Searching, LoopsEnd, LastRound, VictimExists, BestDominates
  <2>6. QED BY <2>3, <2>4, <2>5 DEF IInv
<1>11. CASE Better
  <2> DEFINE beatsLocal == local_best < next_s.weight
             beatsBest  == best_s.weight < next_s.weight
  <2>1. /\ pc = "judge" /\ next_s.weight > s.weight /\ s' = next_s
        /\ k' = (IF beatsLocal THEN 1 ELSE 0)
        /\ local_best' = (IF beatsLocal THEN next_s.weight ELSE local_best)
        /\ best_s' = (IF beatsBest THEN next_s ELSE best_s)
        /\ improve_flag' = (improve_flag \/ beatsLocal \/ beatsBest)
        /\ no_improve_time' = (IF beatsLocal \/ beatsBest THEN 0 ELSE no_improve_time)
        /\ pc' \in {"exit", "cool"}
        /\ UNCHANGED <<options, next_s, todo, i, temps, outer_no_improve_round, outfile>>
    BY <1>11 DEF Better
  <2>2. /\ IsMaximal(next_s) /\ IsMaximal(best_s) /\ g.m # 0 /\ outfile = <<>>
        /\ local_best = best_s.weight /\ s.weight <= best_s.weight
        /\ no_improve_time <= NoChangeTime /\ outer_no_improve_round < NoImproveStop
        /\ LastRound => temps > 0
    BY <1>0, <2>1 DEF PhasesReached, Searching, BestDominates, LoopsEnd
  <2>3. TypeOK'
    <3>1. /\ k' \in {0, 1} /\ local_best' \in Nat /\ improve_flag' \in BOOLEAN
          /\ no_improve_time' \in 0 .. NoChangeTime + 1
      BY <1>0, <2>1 DEF TypeOK
    <3>2. QED BY <1>0, <2>1, <3>1 DEF TypeOK
  <2>4. ObjectsSettled'
    BY <1>0, <2>1 DEF ObjectsSettled
  <2>5. PhasesReached'
    BY <2>1, <2>2 DEF PhasesReached, Searching
  <2>6. LoopsEnd'
    <3>1. no_improve_time' <= NoChangeTime
      BY <1>0, <2>1, <2>2
    <3>2. QED BY <2>1, <2>2, <3>1 DEF LoopsEnd, LastRound
  <2>7. VictimExists'
    BY <2>1 DEF VictimExists
  <2>8. BestDominates'
    <3>1. local_best' = best_s'.weight /\ next_s.weight <= best_s'.weight
      BY <1>0, <2>1, <2>2
    <3>2. QED BY <2>1, <3>1 DEF BestDominates
  <2>9. QED BY <2>3, <2>4, <2>5, <2>6, <2>7, <2>8 DEF IInv
<1>12. CASE NotBetter
  <2>1. /\ pc = "judge" /\ next_s.weight <= s.weight
        /\ no_improve_time' = no_improve_time + 1
        /\ \/ /\ no_improve_time' > NoChangeTime
              /\ pc' = "roundend" /\ s' = s /\ k' = k
           \/ /\ ~(no_improve_time' > NoChangeTime)
              /\ pc' = "cool" /\ s' = next_s /\ k' = 1
        /\ UNCHANGED <<options, next_s, best_s, todo, local_best, i, temps, improve_flag,
                       outer_no_improve_round, outfile>>
    BY <1>12 DEF NotBetter
  <2>2. /\ IsMaximal(s) /\ IsMaximal(next_s) /\ IsMaximal(best_s) /\ g.m # 0 /\ outfile = <<>>
        /\ local_best = best_s.weight /\ s.weight <= best_s.weight
        /\ no_improve_time <= NoChangeTime /\ outer_no_improve_round < NoImproveStop
        /\ LastRound => temps > 0
    BY <1>0, <2>1 DEF PhasesReached, Searching, BestDominates, LoopsEnd
  <2>3. TypeOK'
    <3>1. no_improve_time' \in 0 .. NoChangeTime + 1 /\ k' \in {0, 1}
      BY <1>0, <2>1, <2>2 DEF TypeOK
    <3>2. QED BY <1>0, <2>1, <3>1 DEF TypeOK
  <2>4. ObjectsSettled'
    BY <1>0, <2>1 DEF ObjectsSettled
  <2>5. PhasesReached'
    BY <2>1, <2>2 DEF PhasesReached, Searching
  <2>6. LoopsEnd'
    <3>1. pc' = "cool" => no_improve_time' <= NoChangeTime
      <4>1. no_improve_time \in Nat
        BY <1>0 DEF TypeOK
      <4>2. QED BY <1>0, <2>1, <4>1
    <3>2. QED BY <2>1, <2>2, <3>1 DEF LoopsEnd, LastRound
  <2>7. VictimExists'
    BY <2>1 DEF VictimExists
  <2>8. BestDominates'
    <3>1. s'.weight <= best_s.weight
      BY <1>0, <2>1, <2>2
    <3>2. QED BY <2>1, <2>2, <3>1 DEF BestDominates
  <2>9. QED BY <2>3, <2>4, <2>5, <2>6, <2>7, <2>8 DEF IInv
<1>13. CASE WriteResult
  <2> DEFINE out == Keep([v \in 1 .. g.n |-> v - 1], ISet(best_s))
  <2>1. /\ pc = "exit" /\ outfile' = outfile \o out /\ pc' = "done"
        /\ UNCHANGED <<options, s, next_s, best_s, todo, k, local_best, counters>>
    BY <1>13 DEF WriteResult
  <2>2. outfile' = out /\ out \in Seq(Vertices(g))
    <3>1. outfile = <<>>
      BY <1>0, <2>1 DEF PhasesReached
    <3>2. out \in Seq(Vertices(g))
      BY <1>0, WrittenFacts
    <3> HIDE DEF out
    <3>3. QED BY <2>1, <3>1, <3>2
  <2>3. TypeOK'
    BY <1>0, <2>1, <2>2 DEF TypeOK
  <2>4. ObjectsSettled'
    BY <2>1, ObjectsUnchanged
  <2>5. PhasesReached'
    <3>1. outfile' = out'
      BY <2>1, <2>2
    <3>2. QED BY <1>0, <2>1, <3>1 DEF PhasesReached, Searching
  <2>6. LoopsEnd' /\ VictimExists' /\ BestDominates'
    BY <1>0, <2>1 DEF LoopsEnd, LastRound, VictimExists, BestDominates
  <2>7. QED BY <2>3, <2>4, <2>5, <2>6 DEF IInv
<1>14. CASE Terminated \/ UNCHANGED vars
  <2>1. UNCHANGED <<options, pc, s, next_s, best_s, todo, k, local_best, counters, outfile>>
    BY <1>14 DEF Terminated, vars
  <2>2. TypeOK' /\ ObjectsSettled'
    BY <1>0, <2>1, ObjectsUnchanged DEF TypeOK
  <2>3. PhasesReached' /\ LoopsEnd' /\ VictimExists' /\ BestDominates'
    BY <1>0, <2>1 DEF PhasesReached, Searching, LoopsEnd, LastRound, VictimExists, BestDominates
  <2>4. QED BY <2>2, <2>3 DEF IInv
<1>15. QED
  BY <1>1, <1>2, <1>3, <1>4, <1>5, <1>6, <1>7, <1>8, <1>9, <1>10, <1>11, <1>12, <1>13, <1>14
  DEF Next

\* The invariant holds throughout.
THEOREM Invariant == Spec => []IInv
<1>1. QED BY InitInvariant, StepInvariant, PTL DEF Spec

-----------------------------------------------------------------------------
(***************************************************************************)
(* The properties                                                          *)
(***************************************************************************)

\* The sums of the properties are the sums of the lemmas.
LEMMA SumsAreSums ==
  /\ \A S : SumOver(S) = SumOf(g.weight, S)
  /\ \A t, v : Load(g, ISet(t), v) = SumOver(Neighbors(g, v) \cap ISet(t))
BY DEF SumOver, SumOf, Load

\* A solution whose fields add up is sound.
LEMMA SettledSound ==
  ASSUME IsSimpleGraph(g), NEW t, Settled(g, t)
  PROVE  Sound(t)
<1> DEFINE I == ISet(t)
<1>1. /\ Independent(g, I) /\ t.weight = SumOf(g.weight, I)
      /\ \A u \in Vertices(g) : /\ t.tight[u] = Count(g, I, u)
                                /\ t.mu[u] = g.weight[u] - Load(g, I, u)
  BY SettledFacts
<1>2. \A v \in Vertices(g) : t.solution[t.position[v]] = v
  BY PlaceFacts
<1>3. IntegrityCheck(g, t)
  BY SettledIntegrity
<1>4. t.weight = SumOver(I)
  BY <1>1, SumsAreSums
<1>5. \A v \in Vertices(g) :
        /\ t.tight[v] = Cardinality(Neighbors(g, v) \cap I)
        /\ t.mu[v] = g.weight[v] - SumOver(Neighbors(g, v) \cap I)
  BY <1>1, SumsAreSums DEF Count
<1>6. QED
  BY <1>1, <1>2, <1>3, <1>4, <1>5 DEF Sound

\* Types and bounds: no counter of the loops leaves its range, and only vertices
\* are written.
THEOREM TypeCorrect == Spec => []TypeOK
<1>1. IInv => TypeOK
  BY DEF IInv
<1>2. QED
  BY <1>1, Invariant, PTL

\* The walk, its copy and the best stay sound through every call, force always has
\* somebody to draw, and the walk never stands above the best.
THEOREM SearchIsSound == Spec => []SearchSound
<1>1. IInv => SearchSound
  BY InvariantFacts, SettledSound DEF IInv, SearchSound, SolutionsSound
<1>2. QED
  BY <1>1, Invariant, PTL

\* What is judged is maximal, and no insertion into it would gain weight.
THEOREM JudgedCannotGain == Spec => []OmegaOptimal
<1>1. ASSUME IInv PROVE OmegaOptimal
  <2> SUFFICES ASSUME pc = "judge"
               PROVE  /\ IsMaximal(next_s)
                      /\ \A v \in Vertices(g) \ ISet(next_s) :
                           g.weight[v] <= SumOver(Neighbors(g, v) \cap ISet(next_s))
    BY DEF OmegaOptimal
  <2>1. IsMaximal(next_s) /\ OmegaPlaces(g, next_s) = {}
    BY <1>1 DEF IInv, PhasesReached
  <2>2. \A v \in Vertices(g) \ ISet(next_s) : g.weight[v] <= Load(g, ISet(next_s), v)
    BY <1>1, <2>1, InvariantFacts, OmegaExhausted
  <2>3. QED BY <2>1, <2>2, SumsAreSums
<1>2. QED
  BY <1>1, Invariant, PTL

\* The file gets a maximal independent set in increasing order, with the weight
\* that the search claims for it.
THEOREM WritesMaximalSet == Spec => []ReportedSet
<1>1. ASSUME IInv PROVE ReportedSet
  <2> SUFFICES ASSUME pc = "done", ~naive
               PROVE  /\ Independent(g, ToSet(outfile))
                      /\ \A v \in Vertices(g) \ ToSet(outfile) :
                           Neighbors(g, v) \cap ToSet(outfile) # {}
                      /\ SumOver(ToSet(outfile)) = local_best
                      /\ Ascending(outfile)
    BY DEF ReportedSet
  <2>1. /\ outfile = Keep([v \in 1 .. g.n |-> v - 1], ISet(best_s))
        /\ IsMaximal(best_s) /\ local_best = best_s.weight
    BY <1>1 DEF IInv, PhasesReached, BestDominates
  <2>2. IsSimpleGraph(g) /\ Settled(g, best_s)
    BY <1>1, InvariantFacts
  <2>3. ToSet(outfile) = ISet(best_s) /\ Ascending(outfile)
    BY <2>1, <2>2, WrittenFacts
  <2>4. /\ Independent(g, ISet(best_s)) /\ best_s.weight = SumOver(ISet(best_s))
        /\ \A v \in Vertices(g) \ ISet(best_s) : Neighbors(g, v) \cap ISet(best_s) # {}
    BY <2>1, <2>2, SettledFacts, MaximalFacts, SumsAreSums
  <2>5. QED BY <2>1, <2>3, <2>4
<1>2. QED
  BY <1>1, Invariant, PTL

\* An improvement gains weight and the fillings lose none.
THEOREM ImprovementsPay == Spec => ImprovementGains
<1> DEFINE A == /\ pc \in {"improve", "fill"} => next_s'.weight >= next_s.weight
                /\ pc = "improve" /\ pc' = "fill" => next_s'.weight > next_s.weight
<1>1. ASSUME IInv, [Next]_vars PROVE [A]_vars
  <2> SUFFICES ASSUME Next, pc \in {"improve", "fill"} PROVE A
    BY <1>1
  <2>1. /\ IsSimpleGraph(g) /\ g.weight \in [Vertices(g) -> Nat]
        /\ Settled(g, next_s) /\ next_s.weight \in Nat
    BY <1>1, InvariantFacts
  <2>2. ASSUME NEW v \in Vertices(g), AddRandomVertex(v) PROVE A
    <3>1. pc = "fill" /\ IsFree(next_s, v) /\ next_s' = AddVertex(g, next_s, v)
      BY <2>2 DEF AddRandomVertex
    <3>2. next_s'.weight = next_s.weight + g.weight[v]
      BY <2>1, <3>1, AddVertexAdds DEF Added
    <3>3. QED BY <2>1, <3>1, <3>2
  <2>3. CASE FillDone
    BY <2>1, <2>3 DEF FillDone
  <2>4. CASE Improve
    <3>1. \/ OmegaPlaces(g, next_s) # {} /\ next_s' = OmegaImprovement(g, next_s)
          \/ TwoSwaps(g, next_s) # {} /\ next_s' = TwoImprovement(g, next_s)
          \/ pc' = "judge" /\ next_s' = next_s
      BY <2>4 DEF Improve
    <3>2. CASE OmegaPlaces(g, next_s) # {} /\ next_s' = OmegaImprovement(g, next_s)
      <4>1. PICK v \in Vertices(g) : TakesIn(g, next_s, next_s', v) /\ next_s.mu[v] > 0
        BY <2>1, <3>2, OmegaGains
      <4>2. next_s.mu[v] \in Int
        BY <2>1, SettledFacts, BlockFacts
      <4>3. next_s'.weight = next_s.weight + next_s.mu[v]
        BY <4>1 DEF TakesIn
      <4>4. QED BY <2>1, <4>1, <4>2, <4>3
    <3>3. CASE TwoSwaps(g, next_s) # {} /\ next_s' = TwoImprovement(g, next_s)
      <4>1. PICK x \in ISet(next_s) : \E v, w \in Neighbors(g, x) :
               Swaps(g, next_s, next_s', x, v, w)
        BY <1>1, <2>1, <3>3, InvariantFacts, InstanceFacts, TwoSwapGains
      <4>2. Settled(g, next_s') /\ next_s'.weight > next_s.weight
        BY <4>1 DEF Swaps
      <4>3. next_s'.weight \in Int
        BY <2>1, <4>2, SettledFacts
      <4>4. QED BY <2>1, <4>2, <4>3
    <3>4. CASE pc' = "judge" /\ next_s' = next_s
      BY <2>1, <3>4
    <3>5. QED BY <3>1, <3>2, <3>3, <3>4
  <2>5. QED
    BY <2>2, <2>3, <2>4
    DEF Next, GreedyStep, GreedyDone, StartRound, StartIteration, Cooled, EndRound,
        ForceVertex, ForceDone, Better, NotBetter, WriteResult, Terminated
<1>2. QED
  BY <1>1, Invariant, PTL DEF Spec, ImprovementGains

\* No solution outweighs the graph: with ImprovementsPay, the do-while loop of an
\* iteration ends after at most that many improvements.
THEOREM GainsAreBounded ==
  Spec => [](next_s.weight \in 0 .. SumOver(Vertices(g)))
<1>1. ASSUME IInv PROVE next_s.weight \in 0 .. SumOver(Vertices(g))
  <2> DEFINE V == Vertices(g)
             w == g.weight
             I == ISet(next_s)
  <2>1. /\ IsSimpleGraph(g) /\ w \in [V -> Nat] /\ Settled(g, next_s)
        /\ next_s.weight \in Nat
    BY <1>1, InvariantFacts
  <2>2. IsFiniteSet(V) /\ V \in SUBSET V /\ I \in SUBSET V /\ next_s.weight = SumOf(w, I)
    BY <2>1, NeighborFacts, SettledFacts
  <2>3. SumOver(V) = SumOf(w, V)
    BY SumsAreSums
  <2> HIDE DEF V, w, I
  <2>4. SumOf(w, V) \in Nat /\ SumOf(w, I) <= SumOf(w, V)
    BY <2>1, <2>2, SumOfPart
  <2>5. next_s.weight \in 0 .. SumOver(V)
    BY <2>1, <2>2, <2>3, <2>4
  <2>6. QED BY <2>5 DEF V
<1>2. QED
  BY <1>1, Invariant, PTL
=============================================================================
