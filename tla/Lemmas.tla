------------------------------- MODULE Lemmas -------------------------------
(***************************************************************************)
(* The lemmas that the proofs share.                                       *)
(*                                                                         *)
(* First the folds and sums that the models are built from, for sequences  *)
(* and finite sets of any size.  The operators of the community modules    *)
(* are recursive functions on the subsets of a finite set; that the        *)
(* recursion has a solution is shown here once, for steps given as a       *)
(* function on the subsets and the values of one set.                      *)
(*                                                                         *)
(* Then what the operations of mwis do to its graph and its solutions, for *)
(* every graph, every instance file and every well-formed object.  Of      *)
(* WeightedGraph: what its operations do to the adjacency lists, and the   *)
(* graph that an instance file is read as.  Represents(h, V, E) says that  *)
(* the lists of h hold exactly the pairs of E, each once.  The loops of    *)
(* readInstance are folds; a lemma "...Steps" gives the value of such a    *)
(* fold after each of its places.  Of SolutionOps, up the code: one swap,  *)
(* the four moves between blocks, the head and one turn of the loop of     *)
(* addVertex and removeVertex; the counts and the weights of neighbours;   *)
(* what the fields add up to in the middle of a call, and the whole calls. *)
(***************************************************************************)
EXTENDS SolutionOps, Integers, SequencesExt,
        FiniteSetTheorems, WellFoundedInduction, SequenceTheorems, TLAPS

-----------------------------------------------------------------------------
(***************************************************************************)
(* Induction, with the property as a set                                   *)
(***************************************************************************)

\* A set of subsets of a finite set that is not empty has a smallest member.
LEMMA SmallestSubset ==
  ASSUME NEW S, IsFiniteSet(S), NEW Bad, Bad \subseteq SUBSET S, Bad # {}
  PROVE  \E U \in Bad : \A V \in SUBSET U : V # U => V \notin Bad
<1>1. IsWellFoundedOn(StrictSubsetOrdering(S), SUBSET S)
  BY FS_StrictSubsetOrderingWellFounded, FS_FiniteSubsetsOfFinite
<1>2. PICK U \in Bad : \A V \in Bad : <<V, U>> \notin StrictSubsetOrdering(S)
  BY <1>1, WFMin
<1>3. ASSUME NEW V \in SUBSET U, V # U, V \in Bad PROVE FALSE
  <2>1. <<V, U>> \in (SUBSET S) \X (SUBSET S)
    BY <1>3
  <2>2. <<V, U>> \in StrictSubsetOrdering(S)
    BY <2>1, <1>3 DEF StrictSubsetOrdering
  <2>3. QED BY <2>2, <1>2, <1>3
<1>4. QED BY <1>2, <1>3

\* Whatever holds of 0 and goes from each number below n to the next holds up to n.
LEMMA UpTo ==
  ASSUME NEW n \in Nat, NEW A, 0 \in A,
         \A i \in 0 .. n - 1 : i \in A => i + 1 \in A
  PROVE  \A i \in 0 .. n : i \in A
<1> SUFFICES ASSUME NEW j \in 0 .. n, j \notin A PROVE FALSE
  OBVIOUS
<1> DEFINE Bad == {0 .. i : i \in {m \in 0 .. n : m \notin A}}
<1>1. IsFiniteSet(0 .. n)
  BY FS_Interval
<1>2. Bad \subseteq SUBSET (0 .. n) /\ Bad # {}
  OBVIOUS
<1>3. PICK U \in Bad : \A V \in SUBSET U : V # U => V \notin Bad
  <2> HIDE DEF Bad
  <2>1. QED BY <1>1, <1>2, SmallestSubset
<1>4. PICK m \in 0 .. n : m \notin A /\ U = 0 .. m
  BY <1>3
<1>5. m # 0 /\ m - 1 \in 0 .. n - 1
  BY <1>4
<1>6. m - 1 \notin A
  BY <1>4, <1>5
<1>7. 0 .. m - 1 \in Bad
  BY <1>5, <1>6
<1>8. 0 .. m - 1 \in SUBSET U /\ 0 .. m - 1 # U
  BY <1>4, <1>5
<1>9. QED BY <1>3, <1>7, <1>8

\* A set of numbers that is not empty has a least.
LEMMA LeastNumber ==
  ASSUME NEW S, S \subseteq Nat, S # {}
  PROVE  \E x \in S : \A y \in S : x <= y
<1> SUFFICES ASSUME \A x \in S : \E y \in S : ~(x <= y) PROVE FALSE
  OBVIOUS
<1>1. PICK n \in S : TRUE
  OBVIOUS
<1> DEFINE A == {i \in 0 .. n : \A j \in 0 .. i : j \notin S}
<1>2. n \in Nat
  BY <1>1
<1>3. 0 \in A
  BY <1>2
<1>4. ASSUME NEW i \in 0 .. n - 1, i \in A PROVE i + 1 \in A
  <2>1. i + 1 \in 0 .. n /\ \A j \in 0 .. i : j \notin S
    BY <1>2, <1>4
  <2>2. i + 1 \notin S
    <3>1. SUFFICES ASSUME i + 1 \in S PROVE FALSE
      OBVIOUS
    <3>2. PICK y \in S : ~(i + 1 <= y)
      BY <3>1
    <3>3. y \in 0 .. i
      BY <1>2, <3>2
    <3>4. QED BY <2>1, <3>2, <3>3
  <2>3. QED BY <1>2, <2>1, <2>2
<1>5. n \in A
  <2>1. \A i \in 0 .. n : i \in A
    <3> HIDE DEF A
    <3>1. QED BY <1>2, <1>3, <1>4, UpTo
  <2>2. QED BY <1>2, <2>1
<1>6. QED BY <1>1, <1>2, <1>5

\* A bounded set of numbers that is not empty has a greatest.
LEMMA GreatestNumber ==
  ASSUME NEW n \in Nat, NEW S, S \subseteq 0 .. n, S # {}
  PROVE  \E x \in S : \A y \in S : x >= y
<1> DEFINE R == {n - x : x \in S}
<1>1. R \subseteq Nat /\ R # {}
  <2>1. \A x \in S : x \in 0 .. n /\ n - x \in Nat
    OBVIOUS
  <2>2. PICK x : x \in S
    OBVIOUS
  <2>3. n - x \in R
    BY <2>2
  <2>4. QED BY <2>1, <2>3
<1>2. PICK z \in R : \A y \in R : z <= y
  <2> HIDE DEF R
  <2>1. QED BY <1>1, LeastNumber
<1>3. PICK x \in S : z = n - x
  BY <1>2
<1>4. \A y \in S : n - x <= n - y
  BY <1>2, <1>3
<1>5. QED BY <1>3, <1>4

\* Whatever holds of a set as soon as it holds of all its proper subsets holds of
\* every subset of a finite set.
LEMMA EverySubset ==
  ASSUME NEW S, IsFiniteSet(S), NEW A,
         \A U \in SUBSET S : (\A Y \in SUBSET U : Y # U => Y \in A) => U \in A
  PROVE  \A U \in SUBSET S : U \in A
<1> SUFFICES ASSUME NEW W \in SUBSET S, W \notin A PROVE FALSE
  OBVIOUS
<1> DEFINE Bad == {U \in SUBSET S : U \notin A}
<1>1. PICK U \in Bad : \A V \in SUBSET U : V # U => V \notin Bad
  <2>1. Bad \subseteq SUBSET S /\ W \in Bad
    OBVIOUS
  <2> HIDE DEF Bad
  <2>2. QED BY <2>1, SmallestSubset
<1>2. \A V \in SUBSET U : V # U => V \in A
  BY <1>1
<1>3. QED BY <1>2

\* A finite non-empty set of numbers has a largest.
LEMMA MaxIsMember ==
  ASSUME NEW n \in Nat
  PROVE  \A U \in SUBSET (1 .. n) : U # {} => Max(U) \in U /\ \A y \in U : Max(U) >= y
<1> DEFINE HasMax(U) == \E x \in U : \A y \in U : x >= y
           A == {U \in SUBSET (1 .. n) : U = {} \/ HasMax(U)}
<1>1. IsFiniteSet(1 .. n)
  BY FS_Interval
<1>2. ASSUME NEW U \in SUBSET (1 .. n), \A Y \in SUBSET U : Y # U => Y \in A
      PROVE  U \in A
  <2>1. CASE U = {}
    BY <2>1
  <2>2. CASE U # {}
    <3>1. PICK x : x \in U
      BY <2>2
    <3>2. U \ {x} \in A
      BY <1>2, <3>1
    <3>3. CASE U \ {x} = {}
      BY <3>1, <3>3
    <3>4. CASE HasMax(U \ {x})
      <4>1. PICK z \in U \ {x} : \A y \in U \ {x} : z >= y
        BY <3>4
      <4>2. CASE x >= z
        <5>1. \A y \in U : x >= y
          BY <3>1, <4>1, <4>2
        <5>2. QED BY <3>1, <5>1
      <4>3. CASE ~(x >= z)
        <5>1. x \in Nat /\ z \in Nat
          BY <3>1, <4>1
        <5>2. z >= x
          BY <4>3, <5>1
        <5>3. \A y \in U : y = x \/ y \in U \ {x}
          OBVIOUS
        <5>4. \A y \in U : z >= y
          BY <4>1, <5>2, <5>3
        <5>5. QED BY <5>4, <4>1
      <4>4. QED BY <4>2, <4>3
    <3>5. QED BY <3>2, <3>3, <3>4
  <2>3. QED BY <2>1, <2>2
<1>4. \A U \in SUBSET (1 .. n) : U \in A
  <2> DEFINE T == 1 .. n
  <2>1. IsFiniteSet(T) /\ \A U \in SUBSET T : (\A Y \in SUBSET U : Y # U => Y \in A) => U \in A
    BY <1>1, <1>2
  <2> HIDE DEF A, T
  <2>2. \A U \in SUBSET T : U \in A
    BY <2>1, EverySubset
  <2>3. QED BY <2>2 DEF T
<1>5. QED BY <1>4 DEF Max

-----------------------------------------------------------------------------
(***************************************************************************)
(* Recursion over the subsets of a finite set                              *)
(***************************************************************************)

\* f is a solution on the subsets of W: b for the empty set, and for another the
\* step G from the value of the set without its chosen element.
Solves(W, T, b, c, G, f) ==
  /\ f \in [SUBSET W -> T]
  /\ \A U \in SUBSET W :
        f[U] = IF U = {} THEN b ELSE G[<<U, f[U \ {c[U]}]>>]

\* Two solutions agree where both are defined.
LEMMA SolutionsAgree ==
  ASSUME NEW S, IsFiniteSet(S), NEW T, NEW b, NEW c, NEW G,
         \A U \in SUBSET S : U # {} => c[U] \in U,
         NEW V \in SUBSET S, NEW W \in SUBSET S, NEW f, NEW e,
         Solves(V, T, b, c, G, f), Solves(W, T, b, c, G, e),
         NEW X \in SUBSET V, X \in SUBSET W
  PROVE  f[X] = e[X]
<1> SUFFICES ASSUME f[X] # e[X] PROVE FALSE
  OBVIOUS
<1> DEFINE Bad == {U \in SUBSET X : f[U] # e[U]}
<1>1. Bad \subseteq SUBSET S /\ Bad # {}
  OBVIOUS
<1>2. PICK U \in Bad : \A Y \in SUBSET U : Y # U => Y \notin Bad
  <2> HIDE DEF Bad
  <2>1. QED BY <1>1, SmallestSubset
<1>3. U \in SUBSET V /\ U \in SUBSET W /\ U \in SUBSET S
  OBVIOUS
<1>4. U # {}
  BY <1>3 DEF Solves
<1>5. c[U] \in U
  BY <1>3, <1>4
<1>6. f[U \ {c[U]}] = e[U \ {c[U]}]
  BY <1>2, <1>5
<1>7. f[U] = e[U]
  BY <1>3, <1>4, <1>6 DEF Solves
<1>8. QED BY <1>7

\* A recursion whose step stays in a set has a solution in that set.
LEMMA SolutionExists ==
  ASSUME NEW S, IsFiniteSet(S), NEW T, NEW b \in T, NEW c, NEW G,
         \A U \in SUBSET S : U # {} => c[U] \in U,
         \A U \in SUBSET S : \A t \in T : U # {} => G[<<U, t>>] \in T
  PROVE  \E f : Solves(S, T, b, c, G, f)
<1> SUFFICES ASSUME ~ \E f : Solves(S, T, b, c, G, f) PROVE FALSE
  OBVIOUS
<1> DEFINE Bad == {W \in SUBSET S : ~ \E f : Solves(W, T, b, c, G, f)}
<1>1. Bad \subseteq SUBSET S /\ Bad # {}
  OBVIOUS
<1>2. PICK W \in Bad : \A V \in SUBSET W : V # W => V \notin Bad
  <2> HIDE DEF Bad
  <2>1. QED BY <1>1, SmallestSubset
<1>3. W \in SUBSET S /\ ~ \E f : Solves(W, T, b, c, G, f)
  OBVIOUS
<1> DEFINE F(V) == CHOOSE f : Solves(V, T, b, c, G, f)
           Less(V) == V \ {c[V]}
           h == [V \in SUBSET W |-> IF V = {} THEN b
                                    ELSE G[<<V, F(Less(V))[Less(V)]>>]]
<1>4. ASSUME NEW V \in SUBSET W, V # W PROVE Solves(V, T, b, c, G, F(V))
  <2>1. \E f : Solves(V, T, b, c, G, f)
    BY <1>2, <1>4, <1>3
  <2>2. QED BY <2>1
<1>5. ASSUME NEW V \in SUBSET W, V # {}
      PROVE  Less(V) \in SUBSET W /\ Less(V) # W /\ Less(V) \in SUBSET V /\ c[V] \in V
  BY <1>3, <1>5
<1> HIDE DEF F, Less
<1>6. ASSUME NEW V \in SUBSET W, V # {} PROVE F(Less(V))[Less(V)] \in T
  <2>1. Solves(Less(V), T, b, c, G, F(Less(V)))
    BY <1>4, <1>5, <1>6
  <2>2. QED BY <2>1 DEF Solves
<1>7. h \in [SUBSET W -> T]
  <2>1. \A V \in SUBSET W : V # {} => G[<<V, F(Less(V))[Less(V)]>>] \in T
    BY <1>6, <1>3
  <2>2. QED BY <2>1
<1>8. ASSUME NEW V \in SUBSET W, V # W PROVE h[V] = F(V)[V]
  <2>1. Solves(V, T, b, c, G, F(V))
    BY <1>4, <1>8
  <2>2. CASE V = {}
    BY <2>1, <2>2 DEF Solves
  <2>3. CASE V # {}
    <3>1. Solves(Less(V), T, b, c, G, F(Less(V)))
      BY <1>4, <1>5, <2>3
    <3>2. Less(V) \in SUBSET V /\ Less(V) \in SUBSET S /\ V \in SUBSET S
      BY <1>5, <2>3, <1>3
    <3>3. F(V)[Less(V)] = F(Less(V))[Less(V)]
      BY <2>1, <3>1, <3>2, SolutionsAgree
    <3>4. F(V)[V] = G[<<V, F(V)[Less(V)]>>]
      BY <2>1, <2>3 DEF Solves, Less
    <3>5. h[V] = G[<<V, F(Less(V))[Less(V)]>>]
      BY <2>3
    <3>6. QED BY <3>3, <3>4, <3>5
  <2>4. QED BY <2>2, <2>3
<1>9. \A V \in SUBSET W : h[V] = IF V = {} THEN b ELSE G[<<V, h[V \ {c[V]}]>>]
  <2>1. \A V \in SUBSET W : V # {} => h[Less(V)] = F(Less(V))[Less(V)]
    BY <1>5, <1>8
  <2>2. QED BY <2>1 DEF Less
<1>10. Solves(W, T, b, c, G, h)
  <2> HIDE DEF h
  <2>1. QED BY <1>7, <1>9 DEF Solves
<1>11. QED BY <1>3, <1>10

-----------------------------------------------------------------------------
(***************************************************************************)
(* Folding a sequence from the left                                        *)
(***************************************************************************)

\* The last place of a prefix, and the prefix without it.
LEMMA PrefixMax ==
  ASSUME NEW n \in Nat, NEW i \in 1 .. n
  PROVE  /\ 1 .. i \in SUBSET (1 .. n) /\ 1 .. i # {}
         /\ Max(1 .. i) = i /\ (1 .. i) \ {i} = 1 .. i - 1
<1>1. 1 .. i \in SUBSET (1 .. n) /\ i \in 1 .. i
  OBVIOUS
<1>2. Max(1 .. i) \in 1 .. i /\ Max(1 .. i) >= i
  BY <1>1, MaxIsMember
<1>3. QED BY <1>1, <1>2

\* A fold over n places whose step stays in T is defined.
FoldsSteps(h, n, T, b, step) ==
  /\ h \in [SUBSET (1 .. n) -> T]
  /\ \A U \in SUBSET (1 .. n) :
        h[U] = IF U = {} THEN b ELSE step[<<h[U \ {Max(U)}], Max(U)>>]

\* Such a fold exists on every number of places.
LEMMA StepsExist ==
  ASSUME NEW n \in Nat, NEW T, NEW b \in T, NEW step \in [T \X (1 .. n) -> T]
  PROVE  \E h : FoldsSteps(h, n, T, b, step)
<1> DEFINE S == 1 .. n
           c == [U \in SUBSET S |-> Max(U)]
           G == [p \in (SUBSET S) \X T |-> step[<<p[2], Max(p[1])>>]]
<1>1. IsFiniteSet(S) /\ \A U \in SUBSET S : U # {} => c[U] \in U /\ Max(U) \in S
  <2>1. IsFiniteSet(1 .. n)
    BY FS_Interval
  <2>2. \A U \in SUBSET S : U # {} => Max(U) \in U
    BY MaxIsMember
  <2>3. QED BY <2>1, <2>2
<1>2. \A U \in SUBSET S : \A t \in T : U # {} => G[<<U, t>>] \in T
  BY <1>1
<1>3. PICK h : Solves(S, T, b, c, G, h)
  <2> HIDE DEF S, c, G
  <2>1. QED BY <1>1, <1>2, SolutionExists
<1>4. h \in [SUBSET S -> T]
  BY <1>3 DEF Solves
<1>5. ASSUME NEW U \in SUBSET S
      PROVE  h[U] = IF U = {} THEN b ELSE step[<<h[U \ {Max(U)}], Max(U)>>]
  <2>1. h[U] = IF U = {} THEN b ELSE G[<<U, h[U \ {c[U]}]>>]
    BY <1>3 DEF Solves
  <2>2. c[U] = Max(U) /\ U \ {Max(U)} \in SUBSET S
    OBVIOUS
  <2>3. h[U \ {Max(U)}] \in T
    BY <1>4, <2>2
  <2>4. G[<<U, h[U \ {Max(U)}]>>] = step[<<h[U \ {Max(U)}], Max(U)>>]
    BY <2>3
  <2>5. QED BY <2>1, <2>2, <2>4
<1>6. FoldsSteps(h, n, T, b, step)
  BY <1>4, <1>5 DEF FoldsSteps
<1>7. QED BY <1>6

\* What such a fold leaves after each place, as a function on the places.
Trace(f, H, n, T, b, step) ==
  /\ f \in [0 .. n -> T] /\ f[0] = b /\ f[n] = H[1 .. n]
  /\ \A i \in 1 .. n : f[i] = step[<<f[i - 1], i>>]

Follows(H, n, T, b, step) ==
  /\ H[{}] = b
  /\ \A i \in 1 .. n : H[1 .. i - 1] \in T => H[1 .. i] = step[<<H[1 .. i - 1], i>>]

\* A function that follows the steps gives the values place by place.
LEMMA StepsTaken ==
  ASSUME NEW n \in Nat, NEW T, NEW b \in T, NEW step \in [T \X (1 .. n) -> T],
         NEW H, Follows(H, n, T, b, step)
  PROVE  \E f : Trace(f, H, n, T, b, step)
<1> DEFINE A == {i \in 0 .. n : H[1 .. i] \in T}
           f == [i \in 0 .. n |-> H[1 .. i]]
<1>1. 0 \in A /\ 1 .. 0 = {}
  BY DEF Follows
<1>2. ASSUME NEW i \in 0 .. n - 1, i \in A PROVE i + 1 \in A
  <2>1. i + 1 \in 1 .. n /\ (i + 1) - 1 = i
    OBVIOUS
  <2>2. H[1 .. i] \in T
    BY <1>2
  <2>3. H[1 .. i + 1] = step[<<H[1 .. i], i + 1>>]
    BY <2>1, <2>2 DEF Follows
  <2>4. QED BY <2>1, <2>2, <2>3
<1>3. \A i \in 0 .. n : i \in A
  <2> HIDE DEF A
  <2>1. QED BY <1>1, <1>2, UpTo
<1>4. f \in [0 .. n -> T] /\ f[0] = b /\ f[n] = H[1 .. n]
  BY <1>1, <1>3 DEF Follows
<1>5. \A i \in 1 .. n : i - 1 \in 0 .. n /\ f[i] = step[<<f[i - 1], i>>]
  BY <1>3 DEF Follows
<1>6. Trace(f, H, n, T, b, step)
  BY <1>4, <1>5 DEF Trace
<1>7. QED BY <1>4, <1>6

\* The weights of a sequence of vertices added up, and what the sum is on the way.
TotalOf(w, q) == FoldLeft(LAMBDA sum, v : sum + w[v], 0, q)

RunningTotal(f, w, q) ==
  /\ f \in [0 .. Len(q) -> Int]
  /\ f[0] = 0 /\ TotalOf(w, q) = f[Len(q)]
  /\ \A i \in 1 .. Len(q) : f[i] = f[i - 1] + w[q[i]]

\* The sum of a sequence is reached by adding one weight after the other.
LEMMA SumSteps ==
  ASSUME NEW V, NEW w \in [V -> Int], NEW q \in Seq(V)
  PROVE  \E f : RunningTotal(f, w, q)
<1> DEFINE n == Len(q)
           Eq(h) == h = [U \in SUBSET DOMAIN q |->
                           IF U = {} THEN 0
                           ELSE LET x == Max(U) IN h[U \ {x}] + w[q[x]]]
           H == CHOOSE h : Eq(h)
           step == [p \in Int \X (1 .. n) |-> p[1] + w[q[p[2]]]]
<1>1. TotalOf(w, q) = H[DOMAIN q]
  BY DEF TotalOf, FoldLeft, MapThenFoldSet
<1>2. n \in Nat /\ DOMAIN q = 1 .. n /\ step \in [Int \X (1 .. n) -> Int]
  OBVIOUS
<1>3. \E h : Eq(h)
  <2>1. PICK h : FoldsSteps(h, n, Int, 0, step)
    <3>1. 0 \in Int
      OBVIOUS
    <3> HIDE DEF step, n
    <3>2. QED BY <1>2, <3>1, StepsExist
  <2>2. \A U \in SUBSET (1 .. n) : U # {} => Max(U) \in 1 .. n /\ U \ {Max(U)} \in SUBSET (1 .. n)
    BY <1>2, MaxIsMember
  <2>3. Eq(h)
    BY <1>2, <2>1, <2>2 DEF FoldsSteps
  <2>4. QED BY <2>3
<1>4. Eq(H)
  <2> HIDE DEF Eq
  <2>1. QED BY <1>3
<1> HIDE DEF H
<1>5. Follows(H, n, Int, 0, step)
  <2>1. H[{}] = 0
    BY <1>4
  <2>2. \A i \in 1 .. n : H[1 .. i - 1] \in Int => H[1 .. i] = step[<<H[1 .. i - 1], i>>]
    <3> SUFFICES ASSUME NEW i \in 1 .. n, H[1 .. i - 1] \in Int
                 PROVE  H[1 .. i] = step[<<H[1 .. i - 1], i>>]
      OBVIOUS
    <3>1. /\ 1 .. i \in SUBSET (1 .. n) /\ 1 .. i # {}
          /\ Max(1 .. i) = i /\ (1 .. i) \ {i} = 1 .. i - 1
      BY <1>2, PrefixMax
    <3>2. H[1 .. i] = H[(1 .. i) \ {Max(1 .. i)}] + w[q[Max(1 .. i)]]
      BY <1>2, <1>4, <3>1
    <3>3. H[1 .. i] = H[1 .. i - 1] + w[q[i]]
      BY <3>1, <3>2
    <3>4. QED BY <3>3
  <2>3. QED BY <2>1, <2>2 DEF Follows
<1>6. PICK f : Trace(f, H, n, Int, 0, step)
  <2>1. 0 \in Int
    OBVIOUS
  <2> HIDE DEF step, n
  <2>2. QED BY <1>2, <1>5, <2>1, StepsTaken
<1>7. f \in [0 .. n -> Int] /\ f[0] = 0 /\ f[n] = H[1 .. n]
  BY <1>6 DEF Trace
<1>8. ASSUME NEW i \in 1 .. n PROVE f[i] = f[i - 1] + w[q[i]]
  <2>1. i - 1 \in 0 .. n
    BY <1>2
  <2>2. f[i - 1] \in Int
    BY <2>1, <1>7
  <2>3. f[i] = step[<<f[i - 1], i>>]
    BY <1>6 DEF Trace
  <2>4. QED BY <2>2, <2>3
<1>9. TotalOf(w, q) = f[n]
  BY <1>1, <1>2, <1>7
<1>10. RunningTotal(f, w, q)
  BY <1>7, <1>8, <1>9 DEF RunningTotal
<1>11. QED BY <1>10

-----------------------------------------------------------------------------
(***************************************************************************)
(* Sums over finite sets                                                   *)
(***************************************************************************)

\* The sum of the models.
SumOf(w, S) == MapThenSumSet(LAMBDA v : w[v], S)

\* h adds up w over every subset of V.
Sums(V, w, h) ==
  /\ h \in [SUBSET V -> Int] /\ h[{}] = 0
  /\ \A U \in SUBSET V : \A x \in U : h[U] = w[x] + h[U \ {x}]

\* A solution of the recursion over chosen elements adds up in any order.
LEMMA AnyOrder ==
  ASSUME NEW V, IsFiniteSet(V), NEW w \in [V -> Int], NEW c, NEW G, NEW h,
         \A U \in SUBSET V : U # {} => c[U] \in U,
         \A U \in SUBSET V : \A t \in Int : U # {} => G[<<U, t>>] = w[c[U]] + t,
         Solves(V, Int, 0, c, G, h)
  PROVE  Sums(V, w, h)
<1> DEFINE Bad == {U \in SUBSET V : \E x \in U : h[U] # w[x] + h[U \ {x}]}
<1>1. h \in [SUBSET V -> Int] /\ h[{}] = 0
  BY DEF Solves
<1>2. ASSUME NEW U \in SUBSET V, U # {}
      PROVE  c[U] \in U /\ h[U] = w[c[U]] + h[U \ {c[U]}]
  <2>1. h[U] = G[<<U, h[U \ {c[U]}]>>] /\ h[U \ {c[U]}] \in Int
    BY <1>2 DEF Solves
  <2>2. QED BY <2>1, <1>2
<1>3. Bad = {}
  <2> SUFFICES ASSUME Bad # {} PROVE FALSE
    OBVIOUS
  <2>1. PICK U \in Bad : \A Y \in SUBSET U : Y # U => Y \notin Bad
    <3>1. Bad \subseteq SUBSET V
      OBVIOUS
    <3> HIDE DEF Bad
    <3>2. QED BY <3>1, SmallestSubset
  <2>2. U \in SUBSET V
    OBVIOUS
  <2>3. PICK x \in U : h[U] # w[x] + h[U \ {x}]
    BY <2>1
  <2> DEFINE y == c[U]
  <2>4. y \in U /\ h[U] = w[y] + h[U \ {y}]
    BY <1>2, <2>2
  <2>5. x # y
    BY <2>3, <2>4
  <2>6. /\ U \ {y} \in SUBSET V /\ U \ {x} \in SUBSET V
        /\ U \ {y} \in SUBSET U /\ U \ {x} \in SUBSET U
        /\ U \ {y} # U /\ U \ {x} # U
        /\ x \in U \ {y} /\ y \in U \ {x}
        /\ (U \ {y}) \ {x} = (U \ {x}) \ {y}
    BY <2>2, <2>4, <2>5
  <2>7. U \ {y} \notin Bad /\ U \ {x} \notin Bad
    BY <2>1, <2>6
  <2>8. h[U \ {y}] = w[x] + h[(U \ {y}) \ {x}]
    BY <2>6, <2>7
  <2>9. h[U \ {x}] = w[y] + h[(U \ {x}) \ {y}]
    BY <2>6, <2>7
  <2>10. /\ w[x] \in Int /\ w[y] \in Int
         /\ h[(U \ {x}) \ {y}] \in Int /\ h[U \ {x}] \in Int /\ h[U] \in Int
    BY <2>2, <2>4, <1>1
  <2>11. (U \ {y}) \ {x} = (U \ {x}) \ {y}
    BY <2>6
  <2> DEFINE z == h[(U \ {x}) \ {y}]
  <2>12. h[U \ {y}] = w[x] + z
    BY <2>8, <2>11
  <2> HIDE DEF z, y, Bad
  <2>13. h[U] = w[y] + (w[x] + z) /\ h[U \ {x}] = w[y] + z
    BY <2>4, <2>9, <2>12 DEF z
  <2>14. w[x] \in Int /\ w[y] \in Int /\ z \in Int
    BY <2>10 DEF z
  <2>15. QED BY <2>3, <2>13, <2>14
<1>4. QED BY <1>1, <1>3 DEF Sums

\* The community operator is such a sum, for every part of a finite set at once.
LEMMA SumExists ==
  ASSUME NEW V, IsFiniteSet(V), NEW w \in [V -> Int]
  PROVE  \E h : Sums(V, w, h) /\ \A S \in SUBSET V : SumOf(w, S) = h[S]
<1> DEFINE c == [U \in SUBSET V |-> CHOOSE x \in U : TRUE]
           G == [p \in (SUBSET V) \X Int |-> w[c[p[1]]] + p[2]]
           Eq(S, h) == h = [U \in SUBSET S |->
                              IF U = {} THEN 0
                              ELSE LET x == CHOOSE x \in U : TRUE IN w[x] + h[U \ {x}]]
           H(S) == CHOOSE h : Eq(S, h)
<1>1. \A S : SumOf(w, S) = H(S)[S]
  BY DEF SumOf, MapThenSumSet, MapThenFoldSet
<1>2. \A U \in SUBSET V : U # {} => c[U] \in U /\ c[U] \in V
  OBVIOUS
<1>3. \A U \in SUBSET V : \A t \in Int :
         U # {} => G[<<U, t>>] = w[c[U]] + t /\ G[<<U, t>>] \in Int
  <2> SUFFICES ASSUME NEW U \in SUBSET V, NEW t \in Int, U # {}
               PROVE  G[<<U, t>>] = w[c[U]] + t /\ G[<<U, t>>] \in Int
    OBVIOUS
  <2>1. G[<<U, t>>] = w[c[U]] + t
    OBVIOUS
  <2>2. w[c[U]] \in Int
    BY <1>2
  <2> HIDE DEF G, c
  <2>3. QED BY <2>1, <2>2
<1>4. ASSUME NEW S \in SUBSET V PROVE Solves(S, Int, 0, c, G, H(S))
  <2>1. PICK h : Solves(S, Int, 0, c, G, h)
    <3>1. IsFiniteSet(S) /\ 0 \in Int
      BY FS_Subset
    <3>2. /\ \A U \in SUBSET S : U # {} => c[U] \in U
          /\ \A U \in SUBSET S : \A t \in Int : U # {} => G[<<U, t>>] \in Int
      BY <1>2, <1>3
    <3> HIDE DEF c, G
    <3>3. QED BY <3>1, <3>2, SolutionExists
  <2>2. Eq(S, h)
    <3>1. ASSUME NEW U \in SUBSET S
          PROVE  h[U] = IF U = {} THEN 0 ELSE w[c[U]] + h[U \ {c[U]}]
      <4>1. h[U] = IF U = {} THEN 0 ELSE G[<<U, h[U \ {c[U]}]>>]
        BY <2>1 DEF Solves
      <4>2. h[U \ {c[U]}] \in Int /\ U \in SUBSET V
        <5>1. U \ {c[U]} \in SUBSET S
          OBVIOUS
        <5> HIDE DEF c
        <5>2. QED BY <2>1, <5>1 DEF Solves
      <4> HIDE DEF G, c
      <4>3. QED BY <4>1, <4>2, <1>3
    <3>2. \A U \in SUBSET S : c[U] = CHOOSE x \in U : TRUE
      OBVIOUS
    <3>3. h = [U \in SUBSET S |-> h[U]]
      BY <2>1 DEF Solves
    <3> HIDE DEF c
    <3>4. QED BY <3>1, <3>2, <3>3
  <2>3. Eq(S, H(S))
    <3> HIDE DEF Eq
    <3>1. QED BY <2>2
  <2> HIDE DEF H
  <2>4. /\ H(S) = [U \in SUBSET S |-> H(S)[U]]
        /\ H(S)[{}] = 0
        /\ \A U \in SUBSET S : U # {} => H(S)[U] = w[c[U]] + H(S)[U \ {c[U]}]
    BY <2>3
  <2> HIDE DEF c, G
  <2>5. \A U \in SUBSET S : H(S)[U] \in Int
    <3> DEFINE A == {U \in SUBSET S : H(S)[U] \in Int}
    <3>1. IsFiniteSet(S) /\ {} \in A
      BY <2>4, FS_Subset
    <3>2. ASSUME NEW U \in SUBSET S, \A Y \in SUBSET U : Y # U => Y \in A
          PROVE  U \in A
      <4>1. CASE U = {}
        BY <4>1, <3>1
      <4>2. CASE U # {}
        <5>1. c[U] \in U /\ w[c[U]] \in Int
          BY <4>2, <1>2
        <5>2. H(S)[U \ {c[U]}] \in Int
          BY <3>2, <5>1
        <5>3. H(S)[U] = w[c[U]] + H(S)[U \ {c[U]}]
          BY <4>2, <2>4
        <5>4. H(S)[U] \in Int
          BY <5>1, <5>2, <5>3
        <5>5. QED BY <5>4
      <4>3. QED BY <4>1, <4>2
    <3>3. \A U \in SUBSET S : U \in A
      <4> HIDE DEF A
      <4>1. QED BY <3>1, <3>2, EverySubset
    <3>4. QED BY <3>3
  <2>6. H(S) \in [SUBSET S -> Int]
    BY <2>4, <2>5
  <2>7. ASSUME NEW U \in SUBSET S
        PROVE  H(S)[U] = IF U = {} THEN 0 ELSE G[<<U, H(S)[U \ {c[U]}]>>]
    <3>1. U \ {c[U]} \in SUBSET S /\ U \in SUBSET V
      OBVIOUS
    <3>2. H(S)[U \ {c[U]}] \in Int
      BY <3>1, <2>5
    <3>3. QED BY <3>1, <3>2, <2>4, <1>3
  <2>8. QED BY <2>6, <2>7 DEF Solves
<1>5. Sums(V, w, H(V))
  <2>1. Solves(V, Int, 0, c, G, H(V))
    BY <1>4
  <2> HIDE DEF c, G, H
  <2>2. QED BY <2>1, <1>2, <1>3, AnyOrder
<1>6. ASSUME NEW S \in SUBSET V PROVE H(S)[S] = H(V)[S]
  <2>1. Solves(S, Int, 0, c, G, H(S)) /\ Solves(V, Int, 0, c, G, H(V))
    BY <1>4
  <2> HIDE DEF c, G, H
  <2>2. V \in SUBSET V /\ S \in SUBSET S
    OBVIOUS
  <2>3. QED BY <2>1, <2>2, <1>2, SolutionsAgree
<1>7. \A S \in SUBSET V : SumOf(w, S) = H(V)[S]
  BY <1>1, <1>6
<1>8. QED BY <1>5, <1>7

\* The sum over no element, and what one element more or less makes.
LEMMA SumOfSet ==
  ASSUME NEW V, IsFiniteSet(V), NEW w \in [V -> Int]
  PROVE  /\ SumOf(w, {}) = 0
         /\ \A S \in SUBSET V : SumOf(w, S) \in Int
         /\ \A S \in SUBSET V : \A x \in S : SumOf(w, S) = w[x] + SumOf(w, S \ {x})
         /\ \A S \in SUBSET V : \A x \in V \ S : SumOf(w, S \cup {x}) = w[x] + SumOf(w, S)
<1>1. PICK h : Sums(V, w, h) /\ \A S \in SUBSET V : SumOf(w, S) = h[S]
  BY SumExists
<1>2. SumOf(w, {}) = 0 /\ \A S \in SUBSET V : SumOf(w, S) \in Int
  BY <1>1 DEF Sums
<1>3. \A S \in SUBSET V : \A x \in S : SumOf(w, S) = w[x] + SumOf(w, S \ {x})
  BY <1>1 DEF Sums
<1>4. ASSUME NEW S \in SUBSET V, NEW x \in V \ S
      PROVE  SumOf(w, S \cup {x}) = w[x] + SumOf(w, S)
  <2>1. S \cup {x} \in SUBSET V /\ x \in S \cup {x} /\ (S \cup {x}) \ {x} = S
    OBVIOUS
  <2>2. QED BY <2>1, <1>3
<1>5. QED BY <1>2, <1>3, <1>4

\* Of two disjoint sets the sum is that of both together.
LEMMA SumOfUnion ==
  ASSUME NEW V, IsFiniteSet(V), NEW w \in [V -> Int], NEW S \in SUBSET V
  PROVE  \A T \in SUBSET V : S \cap T = {} => SumOf(w, S \cup T) = SumOf(w, S) + SumOf(w, T)
<1>1. /\ SumOf(w, {}) = 0
      /\ \A U \in SUBSET V : SumOf(w, U) \in Int
      /\ \A U \in SUBSET V : \A x \in U : SumOf(w, U) = w[x] + SumOf(w, U \ {x})
      /\ \A U \in SUBSET V : \A x \in V \ U : SumOf(w, U \cup {x}) = w[x] + SumOf(w, U)
  BY SumOfSet
<1> DEFINE A == {T \in SUBSET V : S \cap T = {} => SumOf(w, S \cup T) = SumOf(w, S) + SumOf(w, T)}
<1>2. ASSUME NEW T \in SUBSET V, \A Y \in SUBSET T : Y # T => Y \in A
      PROVE  T \in A
  <2> SUFFICES ASSUME S \cap T = {} PROVE SumOf(w, S \cup T) = SumOf(w, S) + SumOf(w, T)
    OBVIOUS
  <2>1. CASE T = {}
    <3>1. S \cup T = S
      BY <2>1
    <3>2. SumOf(w, S \cup T) = SumOf(w, S) /\ SumOf(w, T) = 0
      BY <1>1, <2>1, <3>1
    <3>3. QED BY <1>1, <3>2
  <2>2. CASE T # {}
    <3>1. PICK x : x \in T
      BY <2>2
    <3> DEFINE R == T \ {x}
               W == S \cup R
    <3>2. R \in A
      BY <1>2, <3>1
    <3>3. /\ S \cap R = {} /\ R \in SUBSET V /\ W \in SUBSET V
          /\ x \in V /\ x \notin W /\ S \cup T = W \cup {x}
      BY <3>1
    <3>4. SumOf(w, W) = SumOf(w, S) + SumOf(w, R)
      BY <3>2, <3>3
    <3>5. SumOf(w, T) = w[x] + SumOf(w, R)
      BY <1>1, <3>1
    <3>6. SumOf(w, S \cup T) = w[x] + SumOf(w, W)
      <4> HIDE DEF W
      <4>1. QED BY <1>1, <3>3
    <3>7. SumOf(w, S) \in Int /\ SumOf(w, R) \in Int /\ w[x] \in Int
      BY <1>1, <3>3
    <3> HIDE DEF R, W
    <3>8. QED BY <3>4, <3>5, <3>6, <3>7
  <2>3. QED BY <2>1, <2>2
<1>3. \A T \in SUBSET V : T \in A
  <2> HIDE DEF A
  <2>1. QED BY <1>2, EverySubset
<1>4. QED BY <1>3

\* With weights that are never negative a part weighs no more than the whole.
LEMMA SumOfPart ==
  ASSUME NEW V, IsFiniteSet(V), NEW w \in [V -> Nat], NEW T \in SUBSET V
  PROVE  \A S \in SUBSET T : SumOf(w, S) \in Nat /\ SumOf(w, S) <= SumOf(w, T)
<1>1. w \in [V -> Int]
  OBVIOUS
<1>2. /\ SumOf(w, {}) = 0
      /\ \A S \in SUBSET V : SumOf(w, S) \in Int
      /\ \A S \in SUBSET V : \A x \in S : SumOf(w, S) = w[x] + SumOf(w, S \ {x})
  BY <1>1, SumOfSet
<1> DEFINE A == {U \in SUBSET V : SumOf(w, U) \in Nat
                                  /\ \A S \in SUBSET U : SumOf(w, S) <= SumOf(w, U)}
<1>3. ASSUME NEW U \in SUBSET V, \A Y \in SUBSET U : Y # U => Y \in A
      PROVE  U \in A
  <2>1. CASE U = {}
    BY <2>1, <1>2
  <2>2. CASE U # {}
    <3>1. PICK z : z \in U
      BY <2>2
    <3>2. ASSUME NEW x \in U
          PROVE  /\ SumOf(w, U \ {x}) \in Nat
                 /\ \A S \in SUBSET (U \ {x}) : SumOf(w, S) <= SumOf(w, U \ {x})
                 /\ w[x] \in Nat /\ SumOf(w, U) = w[x] + SumOf(w, U \ {x})
      BY <1>2, <1>3
    <3> HIDE DEF A
    <3>3. SumOf(w, U) \in Nat
      <4>1. /\ SumOf(w, U \ {z}) \in Nat /\ w[z] \in Nat
            /\ SumOf(w, U) = w[z] + SumOf(w, U \ {z})
        BY <3>1, <3>2
      <4>2. QED BY <4>1
    <3>4. ASSUME NEW S \in SUBSET U PROVE SumOf(w, S) <= SumOf(w, U)
      <4>1. CASE S = U
        BY <4>1, <3>3
      <4>2. CASE S # U
        <5>1. PICK x \in U : x \notin S
          BY <4>2
        <5>2. SumOf(w, S) <= SumOf(w, U \ {x}) /\ SumOf(w, S) \in Int
          BY <5>1, <3>2, <1>2
        <5>3. /\ SumOf(w, U \ {x}) \in Nat /\ w[x] \in Nat
              /\ SumOf(w, U) = w[x] + SumOf(w, U \ {x})
          BY <3>2
        <5>4. QED BY <5>2, <5>3
      <4>3. QED BY <4>1, <4>2
    <3>5. QED BY <3>3, <3>4 DEF A
  <2>3. QED BY <2>1, <2>2
<1>4. \A U \in SUBSET V : U \in A
  <2> HIDE DEF A
  <2>1. QED BY <1>3, EverySubset
<1>5. T \in A /\ \A S \in SUBSET T : S \in A
  <2> HIDE DEF A
  <2>1. QED BY <1>4
<1>6. QED BY <1>5

\* The weights of a sequence without repetition add up to the sum over its members.
LEMMA SumOfSequence ==
  ASSUME NEW V, IsFiniteSet(V), NEW w \in [V -> Int], NEW q \in Seq(V),
         \A i, j \in 1 .. Len(q) : q[i] = q[j] => i = j
  PROVE  TotalOf(w, q) = SumOf(w, ToSet(q))
<1>0. PICK f : RunningTotal(f, w, q)
  BY SumSteps
<1>1. /\ f \in [0 .. Len(q) -> Int]
      /\ f[0] = 0 /\ TotalOf(w, q) = f[Len(q)]
      /\ \A i \in 1 .. Len(q) : f[i] = f[i - 1] + w[q[i]]
  BY <1>0 DEF RunningTotal
<1> DEFINE Upto(i) == {q[j] : j \in 1 .. i}
           A == {i \in 0 .. Len(q) : f[i] = SumOf(w, Upto(i))}
<1>2. Len(q) \in Nat /\ Upto(0) = {} /\ Upto(Len(q)) = ToSet(q)
  BY DEF ToSet
<1>3. 0 \in A
  <2>1. SumOf(w, {}) = 0
    BY SumOfSet
  <2>2. SumOf(w, Upto(0)) = f[0] /\ 0 \in 0 .. Len(q)
    <3>1. Upto(0) = {} /\ f[0] = 0 /\ Len(q) \in Nat
      BY <1>1, <1>2
    <3>2. 0 \in 0 .. Len(q)
      BY <3>1
    <3>3. SumOf(w, Upto(0)) = SumOf(w, {})
      BY <3>1, Zenon
    <3>4. QED BY <2>1, <3>1, <3>2, <3>3
  <2> HIDE DEF Upto
  <2>3. QED BY <2>2
<1>4. ASSUME NEW i \in 0 .. Len(q) - 1, i \in A PROVE i + 1 \in A
  <2>1. i + 1 \in 1 .. Len(q) /\ (i + 1) - 1 = i
    BY <1>2
  <2>2. Upto(i + 1) = Upto(i) \cup {q[i + 1]} /\ Upto(i) \in SUBSET V
    BY <1>2, <2>1
  <2>3. q[i + 1] \in V \ Upto(i)
    BY <1>2, <2>1
  <2>4. f[i] = SumOf(w, Upto(i))
    BY <1>4
  <2>5. f[i + 1] = f[i] + w[q[i + 1]]
    BY <1>1, <2>1
  <2> HIDE DEF Upto
  <2>6. SumOf(w, Upto(i + 1)) = w[q[i + 1]] + SumOf(w, Upto(i))
    BY <2>2, <2>3, SumOfSet
  <2>7. f[i] \in Int /\ w[q[i + 1]] \in Int
    <3> HIDE DEF A
    <3>1. i \in 0 .. Len(q)
      BY <1>2
    <3>2. f \in [0 .. Len(q) -> Int]
      BY <1>1
    <3>3. f[i] \in Int
      BY <3>1, <3>2
    <3>4. w[q[i + 1]] \in Int
      BY <2>3
    <3>5. QED BY <3>3, <3>4
  <2>8. f[i + 1] = SumOf(w, Upto(i + 1))
    BY <2>4, <2>5, <2>6, <2>7
  <2>9. i + 1 \in 0 .. Len(q)
    BY <2>1
  <2>10. QED BY <2>8, <2>9
<1>5. \A i \in 0 .. Len(q) : i \in A
  <2> HIDE DEF A
  <2>1. QED BY <1>2, <1>3, <1>4, UpTo
<1>6. f[Len(q)] = SumOf(w, Upto(Len(q)))
  <2>1. Len(q) \in A
    BY <1>2, <1>5
  <2> HIDE DEF Upto
  <2>2. QED BY <2>1
<1>7. QED BY <1>1, <1>2, <1>6

-----------------------------------------------------------------------------
(***************************************************************************)
(* The graph                                                               *)
(***************************************************************************)

\* Append adds one member, and no second copy of a new one.
LEMMA AppendMembers ==
  ASSUME NEW V, NEW q \in Seq(V), NEW x
  PROVE  /\ ToSet(Append(q, x)) = ToSet(q) \cup {x}
         /\ NoDuplicates(q) /\ x \notin ToSet(q) => NoDuplicates(Append(q, x))
<1>1. /\ Len(q) \in Nat /\ DOMAIN q = 1 .. Len(q)
      /\ Len(Append(q, x)) = Len(q) + 1 /\ DOMAIN Append(q, x) = 1 .. Len(q) + 1
      /\ Append(q, x)[Len(q) + 1] = x
      /\ \A k \in 1 .. Len(q) : Append(q, x)[k] = q[k]
  OBVIOUS
<1> DEFINE r == Append(q, x)
<1> HIDE DEF r
<1>2. 1 .. Len(q) + 1 = (1 .. Len(q)) \cup {Len(q) + 1}
  BY <1>1
<1>3. ToSet(r) = ToSet(q) \cup {x}
  BY <1>1, <1>2 DEF ToSet, r
<1>4. ASSUME NoDuplicates(q), x \notin ToSet(q) PROVE NoDuplicates(r)
  <2>1. \A k \in 1 .. Len(q) : q[k] # x
    BY <1>1, <1>4 DEF ToSet
  <2>2. QED BY <1>1, <1>2, <1>4, <2>1 DEF NoDuplicates, r
<1>5. QED BY <1>3, <1>4 DEF r

\* What Keep has kept after each place of q.
KeepTrace(f, V, q, A) ==
  /\ f \in [0 .. Len(q) -> Seq(V)]
  /\ f[0] = <<>> /\ f[Len(q)] = Keep(q, A)
  /\ \A i \in 1 .. Len(q) : f[i] = IF q[i] \in A THEN Append(f[i - 1], q[i]) ELSE f[i - 1]

\* The loop goes through such values, whatever it is given.
LEMMA KeepSteps ==
  ASSUME NEW V, NEW q \in Seq(V), NEW A
  PROVE  \E f : KeepTrace(f, V, q, A)
<1> DEFINE n == Len(q)
           T == Seq(V)
           Eq(h) == h = [U \in SUBSET DOMAIN q |->
                           IF U = {} THEN <<>>
                           ELSE LET x == Max(U) IN IF q[x] \in A THEN Append(h[U \ {x}], q[x]) ELSE h[U \ {x}]]
           H == CHOOSE h : Eq(h)
           step == [p \in T \X (1 .. n) |-> IF q[p[2]] \in A THEN Append(p[1], q[p[2]]) ELSE p[1]]
<1>1. Keep(q, A) = H[DOMAIN q]
  BY DEF Keep, FoldLeft, MapThenFoldSet
<1>2. n \in Nat /\ DOMAIN q = 1 .. n
  OBVIOUS
<1>3. <<>> \in T
  OBVIOUS
<1>4. step \in [T \X (1 .. n) -> T]
  OBVIOUS
<1>5. \E h : Eq(h)
  <2>1. PICK h : FoldsSteps(h, n, T, <<>>, step)
    <3> HIDE DEF step, n, T
    <3>1. QED BY <1>2, <1>3, <1>4, StepsExist
  <2>2. \A U \in SUBSET (1 .. n) : U # {} => Max(U) \in 1 .. n /\ U \ {Max(U)} \in SUBSET (1 .. n)
    BY <1>2, MaxIsMember
  <2>3. Eq(h)
    <3> HIDE DEF T, n
    <3>1. h = [U \in SUBSET (1 .. n) |-> h[U]]
      BY <2>1 DEF FoldsSteps
    <3>2. ASSUME NEW U \in SUBSET (1 .. n), U # {}
          PROVE  h[U] = IF q[Max(U)] \in A THEN Append(h[U \ {Max(U)}], q[Max(U)]) ELSE h[U \ {Max(U)}]
      <4>1. h[U \ {Max(U)}] \in T /\ Max(U) \in 1 .. n
        BY <2>1, <2>2, <3>2 DEF FoldsSteps
      <4>2. h[U] = step[<<h[U \ {Max(U)}], Max(U)>>]
        BY <2>1, <3>2 DEF FoldsSteps
      <4>3. QED BY <4>1, <4>2
    <3>3. h[{}] = <<>>
      BY <2>1 DEF FoldsSteps
    <3> HIDE DEF step
    <3>4. QED BY <1>2, <3>1, <3>2, <3>3
  <2>4. QED BY <2>3
<1>6. Eq(H)
  <2> HIDE DEF Eq
  <2>1. QED BY <1>5
<1> HIDE DEF H
<1>7. Follows(H, n, T, <<>>, step)
  <2> HIDE DEF T, n
  <2>1. H[{}] = <<>>
    BY <1>6
  <2>2. ASSUME NEW i \in 1 .. n, H[1 .. i - 1] \in T
        PROVE  H[1 .. i] = step[<<H[1 .. i - 1], i>>]
    <3>1. /\ 1 .. i \in SUBSET (1 .. n) /\ 1 .. i # {}
          /\ Max(1 .. i) = i /\ (1 .. i) \ {i} = 1 .. i - 1
      BY <1>2, PrefixMax
    <3>2. H[1 .. i] = IF q[i] \in A THEN Append(H[1 .. i - 1], q[i]) ELSE H[1 .. i - 1]
      BY <1>2, <1>6, <3>1
    <3>3. QED BY <2>2, <3>2
  <2> HIDE DEF step, Eq
  <2>3. QED BY <2>1, <2>2 DEF Follows
<1>8. PICK f : Trace(f, H, n, T, <<>>, step)
  <2> HIDE DEF step, n, T, Eq
  <2>1. QED BY <1>2, <1>3, <1>4, <1>7, StepsTaken
<1>9. f \in [0 .. n -> T] /\ f[0] = <<>> /\ f[n] = H[1 .. n]
  BY <1>8 DEF Trace
<1>10. ASSUME NEW i \in 1 .. n PROVE f[i] = IF q[i] \in A THEN Append(f[i - 1], q[i]) ELSE f[i - 1]
  <2> HIDE DEF T, n
  <2>1. i - 1 \in 0 .. n
    BY <1>2
  <2>2. f[i - 1] \in T
    BY <2>1, <1>9
  <2>3. f[i] = step[<<f[i - 1], i>>]
    BY <1>8 DEF Trace
  <2>4. QED BY <2>2, <2>3
<1>11. KeepTrace(f, V, q, A)
  BY <1>1, <1>2, <1>9, <1>10 DEF KeepTrace
<1>12. QED BY <1>11


\* Keep returns the elements of q that are in A, and none twice that q has once.
LEMMA KeepElements ==
  ASSUME NEW V, NEW q \in Seq(V), NEW A
  PROVE  /\ Keep(q, A) \in Seq(V)
         /\ ToSet(Keep(q, A)) = ToSet(q) \cap A
         /\ NoDuplicates(q) => NoDuplicates(Keep(q, A))
<1>1. PICK f : KeepTrace(f, V, q, A)
  BY KeepSteps
<1>2. /\ f \in [0 .. Len(q) -> Seq(V)]
      /\ f[0] = <<>> /\ f[Len(q)] = Keep(q, A)
      /\ \A i \in 1 .. Len(q) :
            f[i] = IF q[i] \in A THEN Append(f[i - 1], q[i]) ELSE f[i - 1]
  BY <1>1 DEF KeepTrace
<1> DEFINE Upto(i) == {q[j] : j \in 1 .. i}
           Good(i) == /\ ToSet(f[i]) = Upto(i) \cap A
                      /\ NoDuplicates(q) => NoDuplicates(f[i])
           I == {i \in 0 .. Len(q) : Good(i)}
<1>3. Len(q) \in Nat /\ Upto(0) = {} /\ Upto(Len(q)) = ToSet(q)
  BY DEF ToSet
<1>4. 0 \in I
  <2>1. ToSet(<<>>) = {} /\ NoDuplicates(<<>>)
    BY DEF ToSet, NoDuplicates
  <2>2. 0 \in 0 .. Len(q)
    BY <1>3
  <2>3. f[0] = <<>>
    BY <1>2
  <2> HIDE DEF Upto
  <2>4. QED BY <2>1, <2>2, <2>3, <1>3
<1>5. ASSUME NEW i \in 0 .. Len(q) - 1, i \in I PROVE i + 1 \in I
  <2>1. i + 1 \in 1 .. Len(q) /\ i + 1 \in 0 .. Len(q) /\ i \in 0 .. Len(q) /\ (i + 1) - 1 = i
    BY <1>3
  <2>2. /\ f[i] \in Seq(V) /\ q[i + 1] \in V
        /\ f[i + 1] = IF q[i + 1] \in A THEN Append(f[i], q[i + 1]) ELSE f[i]
    BY <1>2, <2>1
  <2>3. Upto(i + 1) = Upto(i) \cup {q[i + 1]}
    BY <2>1
  <2>4. NoDuplicates(q) => q[i + 1] \notin Upto(i)
    BY <2>1 DEF NoDuplicates
  <2>5. Good(i)
    BY <1>5
  <2> HIDE DEF Upto, I
  <2>6. CASE q[i + 1] \notin A
    <3>1. Good(i + 1)
      BY <2>2, <2>3, <2>5, <2>6
    <3>2. QED BY <3>1, <2>1 DEF I
  <2>7. CASE q[i + 1] \in A
    <3>1. /\ f[i + 1] = Append(f[i], q[i + 1]) /\ Len(f[i + 1]) = Len(f[i]) + 1
          /\ f[i + 1][Len(f[i]) + 1] = q[i + 1]
          /\ \A k \in 1 .. Len(f[i]) : f[i + 1][k] = f[i][k]
          /\ Len(f[i]) \in Nat
      BY <2>2, <2>7
    <3>2. ToSet(f[i + 1]) = ToSet(f[i]) \cup {q[i + 1]}
      BY <2>2, <2>7, AppendMembers
    <3>3. ToSet(f[i + 1]) = Upto(i + 1) \cap A
      BY <3>2, <2>3, <2>5, <2>7
    <3>4. ASSUME NoDuplicates(q) PROVE NoDuplicates(f[i + 1])
      <4>1. NoDuplicates(f[i]) /\ q[i + 1] \notin ToSet(f[i])
        BY <3>4, <2>4, <2>5
      <4>2. QED BY <4>1, <2>2, <3>1, AppendMembers
    <3>5. Good(i + 1)
      BY <3>3, <3>4
    <3>6. QED BY <3>5, <2>1 DEF I
  <2>8. QED BY <2>6, <2>7
<1>6. \A i \in 0 .. Len(q) : i \in I
  <2> HIDE DEF I
  <2>1. QED BY <1>3, <1>4, <1>5, UpTo
<1>7. Len(q) \in 0 .. Len(q) /\ Good(Len(q))
  BY <1>3, <1>6
<1>8. f[Len(q)] \in Seq(V)
  BY <1>2, <1>7
<1> HIDE DEF Upto
<1>9. QED BY <1>2, <1>3, <1>7, <1>8

\* Erasing the first element of a sequence without repetition leaves the rest.
LEMMA KeepTail ==
  ASSUME NEW V, NEW q \in Seq(V), q # <<>>, NoDuplicates(q)
  PROVE  Keep(q, ToSet(q) \ {Head(q)}) = Tail(q)
<1> DEFINE A == ToSet(q) \ {Head(q)}
<1>1. PICK f : KeepTrace(f, V, q, A)
  BY KeepSteps
<1>2. /\ f \in [0 .. Len(q) -> Seq(V)]
      /\ f[0] = <<>> /\ f[Len(q)] = Keep(q, A)
      /\ \A i \in 1 .. Len(q) :
            f[i] = IF q[i] \in A THEN Append(f[i - 1], q[i]) ELSE f[i - 1]
  BY <1>1 DEF KeepTrace
<1>3. /\ Len(q) \in Nat \ {0} /\ DOMAIN q = 1 .. Len(q) /\ Head(q) = q[1]
      /\ Tail(q) \in Seq(V) /\ Len(Tail(q)) = Len(q) - 1
      /\ \A k \in 1 .. Len(q) - 1 : Tail(q)[k] = q[k + 1]
  OBVIOUS
<1>4. q[1] \notin A /\ \A i \in 2 .. Len(q) : q[i] \in A
  BY <1>3 DEF ToSet, NoDuplicates
<1> DEFINE Good(i) == /\ f[i + 1] \in Seq(V) /\ Len(f[i + 1]) = i
                      /\ \A k \in 1 .. i : f[i + 1][k] = q[k + 1]
           I == {i \in 0 .. Len(q) - 1 : Good(i)}
<1> HIDE DEF A
<1>5. 0 \in I
  <2>1. 1 \in 1 .. Len(q) /\ 1 - 1 = 0 /\ 0 \in 0 .. Len(q) - 1
    BY <1>3
  <2>2. f[1] = <<>>
    BY <1>2, <1>4, <2>1
  <2>3. f[0 + 1] \in Seq(V) /\ Len(f[0 + 1]) = 0 /\ 1 .. 0 = {}
    <3>1. 0 + 1 = 1 /\ <<>> \in Seq(V) /\ Len(<<>>) = 0 /\ 1 .. 0 = {}
      OBVIOUS
    <3>2. QED BY <3>1, <2>2
  <2>4. Good(0)
    BY <2>3
  <2> HIDE DEF Good
  <2>5. QED BY <2>1, <2>4
<1>6. ASSUME NEW i \in 0 .. (Len(q) - 1) - 1, i \in I PROVE i + 1 \in I
  <2>1. /\ i + 2 \in 2 .. Len(q) /\ i + 2 \in 1 .. Len(q) /\ (i + 2) - 1 = i + 1
        /\ (i + 1) + 1 = i + 2 /\ i + 1 \in 0 .. Len(q) - 1
    BY <1>3
  <2>2. f[i + 2] = Append(f[i + 1], q[i + 2])
    BY <1>2, <1>4, <2>1
  <2>3. Good(i) /\ q[i + 2] \in V
    BY <1>6, <2>1
  <2>4. f[i + 2] \in Seq(V) /\ Len(f[i + 2]) = i + 1
    BY <2>2, <2>3
  <2>5. \A k \in 1 .. i + 1 : f[i + 2][k] = q[k + 1]
    BY <2>1, <2>2, <2>3
  <2>6. Good(i + 1)
    BY <2>1, <2>4, <2>5
  <2>7. QED BY <2>1, <2>6
<1>7. \A i \in 0 .. Len(q) - 1 : i \in I
  <2>1. Len(q) - 1 \in Nat
    BY <1>3
  <2> HIDE DEF I
  <2>2. QED BY <2>1, <1>5, <1>6, UpTo
<1>8. Good(Len(q) - 1) /\ (Len(q) - 1) + 1 = Len(q)
  <2>1. Len(q) - 1 \in I /\ (Len(q) - 1) + 1 = Len(q)
    <3> HIDE DEF I
    <3>1. QED BY <1>3, <1>7
  <2> HIDE DEF Good
  <2>2. QED BY <2>1
<1>9. Keep(q, A) \in Seq(V) /\ Len(Keep(q, A)) = Len(Tail(q))
      /\ \A k \in 1 .. Len(Tail(q)) : Keep(q, A)[k] = Tail(q)[k]
  BY <1>2, <1>3, <1>8
<1>10. Keep(q, A) = Tail(q)
  <2> DEFINE a == Keep(q, A)
             b == Tail(q)
  <2>1. /\ a \in Seq(V) /\ b \in Seq(V) /\ Len(a) = Len(b)
        /\ \A k \in 1 .. Len(b) : a[k] = b[k]
    BY <1>3, <1>9
  <2> HIDE DEF a, b
  <2>2. a = b
    BY <2>1
  <2>3. QED BY <2>2 DEF a, b
<1>11. QED BY <1>10 DEF A

-----------------------------------------------------------------------------
(***************************************************************************)
(* Sorting                                                                 *)
(***************************************************************************)

\* The place of x behind the elements that are not larger.
Inserted(s, x) == InsertAt(s, Cardinality({i \in DOMAIN s : s[i] <= x}) + 1, x)

\* An insertion adds one member, and no second copy of a new one.
LEMMA InsertMembers ==
  ASSUME NEW V, NEW s \in Seq(V), NEW x \in V
  PROVE  /\ Inserted(s, x) \in Seq(V)
         /\ ToSet(Inserted(s, x)) = ToSet(s) \cup {x}
         /\ NoDuplicates(s) /\ x \notin ToSet(s) => NoDuplicates(Inserted(s, x))
<1> DEFINE n == Len(s)
           c == Cardinality({i \in DOMAIN s : s[i] <= x})
           p == c + 1
           a == SubSeq(s, 1, p - 1)
           b == SubSeq(s, p, n)
           r == Inserted(s, x)
<1>1. n \in Nat /\ DOMAIN s = 1 .. n
  OBVIOUS
<1>2. c \in 0 .. n
  <2>1. IsFiniteSet(1 .. n) /\ Cardinality(1 .. n) = n
    BY <1>1, FS_Interval
  <2>2. {i \in DOMAIN s : s[i] <= x} \in SUBSET (1 .. n)
    BY <1>1
  <2>3. /\ IsFiniteSet({i \in DOMAIN s : s[i] <= x}) /\ c <= n
    BY <2>1, <2>2, FS_Subset
  <2>4. c \in Nat
    BY <2>3, FS_CardinalityType
  <2> HIDE DEF c, n
  <2>5. QED BY <2>3, <2>4, <1>1
<1> HIDE DEF c, n
<1>3. /\ a \in Seq(V) /\ Len(a) = c /\ \A i \in 1 .. c : a[i] = s[i]
  BY <1>1, <1>2 DEF n
<1>4. /\ b \in Seq(V) /\ Len(b) = n - c /\ \A i \in 1 .. n - c : b[i] = s[c + i]
  <2>1. \A i \in p .. n : i \in 1 .. Len(s)
    BY <1>1, <1>2 DEF n
  <2>2. \A i \in p .. n : s[i] \in V
    BY <2>1
  <2>3. p \in Int /\ n \in Int /\ n - p + 1 = n - c /\ (p <= n <=> c < n)
    BY <1>1, <1>2
  <2>4. /\ b \in Seq(V)
        /\ Len(b) = IF p <= n THEN n - p + 1 ELSE 0
        /\ \A i \in 1 .. n - p + 1 : b[i] = s[p + i - 1]
    <3> HIDE DEF p
    <3>1. QED BY <2>2, <2>3, SubSeqProperties
  <2>5. Len(b) = n - c
    <3> HIDE DEF b
    <3>1. QED BY <2>3, <2>4, <1>1, <1>2
  <2>6. ASSUME NEW i \in 1 .. n - c PROVE b[i] = s[c + i]
    <3>1. p + i - 1 = c + i
      BY <1>1, <1>2
    <3> HIDE DEF b
    <3>2. QED BY <2>3, <2>4, <3>1
  <2>7. QED BY <2>4, <2>5, <2>6
<1>5. r = (a \o <<x>>) \o b
  BY DEF Inserted, InsertAt, c, n
<1> HIDE DEF a, b, r, p
<1>6. /\ r \in Seq(V) /\ Len(r) = n + 1
      /\ \A i \in 1 .. n + 1 : r[i] = IF i <= c THEN s[i] ELSE IF i = c + 1 THEN x ELSE s[i - 1]
  <2> DEFINE t == a \o <<x>>
  <2>1. t \in Seq(V) /\ Len(t) = c + 1 /\ \A i \in 1 .. c + 1 : t[i] = IF i <= c THEN s[i] ELSE x
    BY <1>2, <1>3
  <2> HIDE DEF t
  <2>2. r = t \o b
    BY <1>5 DEF t
  <2>3. r \in Seq(V) /\ Len(r) = n + 1
    <3>1. r \in Seq(V) /\ Len(r) = Len(t) + Len(b)
      BY <1>4, <2>1, <2>2, ConcatProperties
    <3>2. QED BY <1>1, <1>2, <1>4, <2>1, <3>1
  <2>4. ASSUME NEW i \in 1 .. n + 1
        PROVE  r[i] = IF i <= c THEN s[i] ELSE IF i = c + 1 THEN x ELSE s[i - 1]
    <3>1. CASE i <= c + 1
      BY <1>1, <1>2, <1>4, <2>1, <2>2, <3>1
    <3>2. CASE i > c + 1
      <4>1. r[i] = b[i - (c + 1)] /\ i - (c + 1) \in 1 .. n - c
        BY <1>1, <1>2, <1>4, <2>1, <2>2, <3>2
      <4>2. b[i - (c + 1)] = s[c + (i - (c + 1))] /\ c + (i - (c + 1)) = i - 1
        BY <4>1, <1>1, <1>2, <1>4
      <4>3. QED BY <4>1, <4>2, <3>2, <1>2
    <3>3. QED BY <3>1, <3>2, <1>1, <1>2
  <2>5. QED BY <2>3, <2>4
<1>7. ToSet(r) = ToSet(s) \cup {x}
  <2>1. ASSUME NEW y \in ToSet(r) PROVE y \in ToSet(s) \cup {x}
    <3>1. PICK i \in 1 .. n + 1 : y = r[i]
      BY <1>6, <2>1 DEF ToSet
    <3>2. i <= c => i \in 1 .. n
      BY <1>1, <1>2
    <3>3. i > c + 1 => i - 1 \in 1 .. n
      BY <1>1, <1>2
    <3>4. QED BY <1>1, <1>2, <1>6, <3>1, <3>2, <3>3 DEF ToSet
  <2>2. x \in ToSet(r)
    <3>1. c + 1 \in 1 .. n + 1
      BY <1>1, <1>2
    <3>2. QED BY <1>2, <1>6, <3>1 DEF ToSet
  <2>3. ASSUME NEW i \in 1 .. n PROVE s[i] \in ToSet(r)
    <3>1. CASE i <= c
      BY <1>1, <1>2, <1>6, <3>1 DEF ToSet
    <3>2. CASE i > c
      <4>1. i + 1 \in 1 .. n + 1 /\ r[i + 1] = s[i]
        BY <1>1, <1>2, <1>6, <3>2
      <4>2. QED BY <4>1, <1>6 DEF ToSet
    <3>3. QED BY <3>1, <3>2, <1>2
  <2>4. QED BY <2>1, <2>2, <2>3, <1>1 DEF ToSet
<1>8. ASSUME NoDuplicates(s), x \notin ToSet(s) PROVE NoDuplicates(r)
  <2>1. /\ \A i, j \in 1 .. n : s[i] = s[j] => i = j
        /\ \A i \in 1 .. n : s[i] # x
    BY <1>1, <1>8 DEF NoDuplicates, ToSet, n
  <2>2. ASSUME NEW i \in 1 .. n + 1, NEW j \in 1 .. n + 1, r[i] = r[j], i < j PROVE FALSE
    <3>1. CASE j <= c
      BY <1>1, <1>2, <1>6, <2>1, <2>2, <3>1
    <3>2. CASE j = c + 1
      BY <1>1, <1>2, <1>6, <2>1, <2>2, <3>2
    <3>3. CASE j > c + 1
      <4>1. r[j] = s[j - 1] /\ j - 1 \in 1 .. n /\ j - 1 > c
        BY <1>1, <1>2, <1>6, <3>3
      <4>2. CASE i <= c
        BY <1>1, <1>2, <1>6, <2>1, <2>2, <4>1, <4>2
      <4>3. CASE i = c + 1
        BY <1>1, <1>2, <1>6, <2>1, <2>2, <4>1, <4>3
      <4>4. CASE i > c + 1
        <5>1. r[i] = s[i - 1] /\ i - 1 \in 1 .. n
          BY <1>1, <1>2, <1>6, <4>4
        <5>2. i - 1 = j - 1
          BY <2>1, <2>2, <4>1, <5>1
        <5>3. QED BY <5>2, <2>2
      <4>5. QED BY <4>2, <4>3, <4>4, <1>2
    <3>4. QED BY <3>1, <3>2, <3>3, <1>2
  <2>3. \A i, j \in 1 .. n + 1 : r[i] = r[j] => i = j
    <3>1. SUFFICES ASSUME NEW i \in 1 .. n + 1, NEW j \in 1 .. n + 1, r[i] = r[j] PROVE i = j
      OBVIOUS
    <3>2. ~(i < j) /\ ~(j < i)
      BY <2>2, <3>1
    <3>3. QED BY <3>2, <1>1
  <2>4. QED BY <2>3, <1>6 DEF NoDuplicates
<1>9. QED BY <1>6, <1>7, <1>8 DEF r

\* The sorted prefix after each place of q.
SortedTrace(f, V, q) ==
  /\ f \in [0 .. Len(q) -> Seq(V)]
  /\ f[0] = <<>> /\ f[Len(q)] = Sorted(q)
  /\ \A i \in 1 .. Len(q) : f[i] = Inserted(f[i - 1], q[i])

\* The loop goes through such values, whatever it is given.
LEMMA SortedSteps ==
  ASSUME NEW V, V \subseteq Int, NEW q \in Seq(V)
  PROVE  \E f : SortedTrace(f, V, q)
<1> DEFINE n == Len(q)
           T == Seq(V)
           Eq(h) == h = [U \in SUBSET DOMAIN q |->
                           IF U = {} THEN <<>>
                           ELSE LET x == Max(U) IN Inserted(h[U \ {x}], q[x])]
           H == CHOOSE h : Eq(h)
           step == [p \in T \X (1 .. n) |-> Inserted(p[1], q[p[2]])]
<1>1. Sorted(q) = H[DOMAIN q]
  BY DEF Sorted, Inserted, FoldLeft, MapThenFoldSet
<1>2. n \in Nat /\ DOMAIN q = 1 .. n
  OBVIOUS
<1>3. <<>> \in T
  OBVIOUS
<1>4. step \in [T \X (1 .. n) -> T]
  BY <1>2, InsertMembers DEF Inserted
<1>5. \E h : Eq(h)
  <2>1. PICK h : FoldsSteps(h, n, T, <<>>, step)
    <3> HIDE DEF step, n, T
    <3>1. QED BY <1>2, <1>3, <1>4, StepsExist
  <2>2. \A U \in SUBSET (1 .. n) : U # {} => Max(U) \in 1 .. n /\ U \ {Max(U)} \in SUBSET (1 .. n)
    BY <1>2, MaxIsMember
  <2>3. Eq(h)
    <3> HIDE DEF T, n
    <3>1. h = [U \in SUBSET (1 .. n) |-> h[U]]
      BY <2>1 DEF FoldsSteps
    <3>2. ASSUME NEW U \in SUBSET (1 .. n), U # {}
          PROVE  h[U] = Inserted(h[U \ {Max(U)}], q[Max(U)])
      <4>1. h[U \ {Max(U)}] \in T /\ Max(U) \in 1 .. n
        BY <2>1, <2>2, <3>2 DEF FoldsSteps
      <4>2. h[U] = step[<<h[U \ {Max(U)}], Max(U)>>]
        BY <2>1, <3>2 DEF FoldsSteps
      <4>3. QED BY <4>1, <4>2
    <3>3. h[{}] = <<>>
      BY <2>1 DEF FoldsSteps
    <3> HIDE DEF step
    <3>4. QED BY <1>2, <3>1, <3>2, <3>3
  <2>4. QED BY <2>3
<1>6. Eq(H)
  <2> HIDE DEF Eq
  <2>1. QED BY <1>5
<1> HIDE DEF H
<1>7. Follows(H, n, T, <<>>, step)
  <2> HIDE DEF T, n
  <2>1. H[{}] = <<>>
    BY <1>6
  <2>2. ASSUME NEW i \in 1 .. n, H[1 .. i - 1] \in T
        PROVE  H[1 .. i] = step[<<H[1 .. i - 1], i>>]
    <3>1. /\ 1 .. i \in SUBSET (1 .. n) /\ 1 .. i # {}
          /\ Max(1 .. i) = i /\ (1 .. i) \ {i} = 1 .. i - 1
      BY <1>2, PrefixMax
    <3>2. H[1 .. i] = Inserted(H[1 .. i - 1], q[i])
      BY <1>2, <1>6, <3>1
    <3>3. QED BY <2>2, <3>2
  <2> HIDE DEF step, Eq
  <2>3. QED BY <2>1, <2>2 DEF Follows
<1>8. PICK f : Trace(f, H, n, T, <<>>, step)
  <2> HIDE DEF step, n, T, Eq
  <2>1. QED BY <1>2, <1>3, <1>4, <1>7, StepsTaken
<1>9. f \in [0 .. n -> T] /\ f[0] = <<>> /\ f[n] = H[1 .. n]
  BY <1>8 DEF Trace
<1>10. ASSUME NEW i \in 1 .. n PROVE f[i] = Inserted(f[i - 1], q[i])
  <2> HIDE DEF T, n
  <2>1. i - 1 \in 0 .. n
    BY <1>2
  <2>2. f[i - 1] \in T
    BY <2>1, <1>9
  <2>3. f[i] = step[<<f[i - 1], i>>]
    BY <1>8 DEF Trace
  <2>4. QED BY <2>2, <2>3
<1>11. SortedTrace(f, V, q)
  BY <1>1, <1>2, <1>9, <1>10 DEF SortedTrace
<1>12. QED BY <1>11


\* Sorting keeps the members, and repeats none that is there once.
LEMMA SortedElements ==
  ASSUME NEW V, V \subseteq Int, NEW q \in Seq(V)
  PROVE  /\ Sorted(q) \in Seq(V)
         /\ ToSet(Sorted(q)) = ToSet(q)
         /\ NoDuplicates(q) => NoDuplicates(Sorted(q))
<1>1. PICK f : SortedTrace(f, V, q)
  BY SortedSteps
<1>2. /\ f \in [0 .. Len(q) -> Seq(V)]
      /\ f[0] = <<>> /\ f[Len(q)] = Sorted(q)
      /\ \A i \in 1 .. Len(q) : f[i] = Inserted(f[i - 1], q[i])
  BY <1>1 DEF SortedTrace
<1> DEFINE Upto(i) == {q[j] : j \in 1 .. i}
           Good(i) == /\ ToSet(f[i]) = Upto(i)
                      /\ NoDuplicates(q) => NoDuplicates(f[i])
           I == {i \in 0 .. Len(q) : Good(i)}
<1>3. Len(q) \in Nat /\ Upto(0) = {} /\ Upto(Len(q)) = ToSet(q)
  BY DEF ToSet
<1>4. 0 \in I
  <2>1. ToSet(<<>>) = {} /\ NoDuplicates(<<>>)
    BY DEF ToSet, NoDuplicates
  <2>2. 0 \in 0 .. Len(q)
    BY <1>3
  <2>3. f[0] = <<>>
    BY <1>2
  <2> HIDE DEF Upto
  <2>4. QED BY <2>1, <2>2, <2>3, <1>3
<1>5. ASSUME NEW i \in 0 .. Len(q) - 1, i \in I PROVE i + 1 \in I
  <2>1. i + 1 \in 1 .. Len(q) /\ i + 1 \in 0 .. Len(q) /\ i \in 0 .. Len(q) /\ (i + 1) - 1 = i
    BY <1>3
  <2>2. f[i] \in Seq(V) /\ q[i + 1] \in V /\ f[i + 1] = Inserted(f[i], q[i + 1])
    BY <1>2, <2>1
  <2>3. Upto(i + 1) = Upto(i) \cup {q[i + 1]}
    BY <2>1
  <2>4. NoDuplicates(q) => q[i + 1] \notin Upto(i)
    BY <2>1 DEF NoDuplicates
  <2>5. Good(i)
    BY <1>5
  <2> HIDE DEF Upto, I
  <2>6. /\ ToSet(f[i + 1]) = ToSet(f[i]) \cup {q[i + 1]}
        /\ NoDuplicates(f[i]) /\ q[i + 1] \notin ToSet(f[i]) => NoDuplicates(f[i + 1])
    BY <2>2, InsertMembers
  <2>7. Good(i + 1)
    BY <2>3, <2>4, <2>5, <2>6
  <2>8. QED BY <2>7, <2>1 DEF I
<1>6. \A i \in 0 .. Len(q) : i \in I
  <2> HIDE DEF I
  <2>1. QED BY <1>3, <1>4, <1>5, UpTo
<1>7. Len(q) \in 0 .. Len(q) /\ Good(Len(q))
  <2>1. Len(q) \in I
    <3> HIDE DEF I
    <3>1. QED BY <1>3, <1>6
  <2> HIDE DEF Good
  <2>2. QED BY <2>1
<1>8. f[Len(q)] \in Seq(V)
  BY <1>2, <1>7
<1> HIDE DEF Upto
<1>9. QED BY <1>2, <1>3, <1>7, <1>8

-----------------------------------------------------------------------------
(***************************************************************************)
(* Reading an instance: which graph it represents                          *)
(***************************************************************************)

\* The graphs with the counts of g, vertices V and weights in W.
GraphsLike(g, V, W) ==
  [n : {g.n}, m : {g.m}, weight : [V -> W], adj : [V -> Seq(V)]]

\* The neighbours of each vertex are those that E pairs it with, each listed once.
Represents(h, V, E) ==
  \A v \in V : /\ NoDuplicates(h.adj[v])
               /\ ToSet(h.adj[v]) = {u \in V : <<v, u>> \in E}

\* Replacing the lists changes nothing else.
LEMMA NewLists ==
  ASSUME NEW g, NEW V, NEW W, NEW h \in GraphsLike(g, V, W), NEW q \in [V -> Seq(V)]
  PROVE  /\ [h EXCEPT !.adj = q] \in GraphsLike(g, V, W)
         /\ [h EXCEPT !.adj = q].adj = q /\ [h EXCEPT !.adj = q].weight = h.weight
  BY DEF GraphsLike

\* a and b list each other, at the end.
Linked(e, h, V, a, b) ==
  \A v \in V : e.adj[v] = IF v = a THEN Append(h.adj[a], b)
                          ELSE IF v = b THEN Append(h.adj[b], a) ELSE h.adj[v]

\* a and b do not list each other any more.
Unlinked(e, h, V, a, b) ==
  \A v \in V : e.adj[v] = IF v = a THEN Keep(h.adj[a], ToSet(h.adj[a]) \ {b})
                          ELSE IF v = b THEN Keep(h.adj[b], ToSet(h.adj[b]) \ {a})
                          ELSE h.adj[v]

SameMembers(e, h, V) ==
  \A v \in V : /\ ToSet(e.adj[v]) = ToSet(h.adj[v])
               /\ NoDuplicates(h.adj[v]) => NoDuplicates(e.adj[v])

\* An edge appends each of its ends to the list of the other.
LEMMA AddEdgeLists ==
  ASSUME NEW g, NEW V, NEW W, NEW h \in GraphsLike(g, V, W), NEW a \in V, NEW b \in V
  PROVE  /\ AddEdge(h, a, b) \in GraphsLike(g, V, W)
         /\ AddEdge(h, a, b).weight = h.weight
         /\ a # b => Linked(AddEdge(h, a, b), h, V, a, b)
<1>1. h.adj \in [V -> Seq(V)]
  BY DEF GraphsLike
<1> DEFINE d == AddNeighbor(h, a, b)
           e == AddNeighbor(d, b, a)
           q == [h.adj EXCEPT ![a] = Append(h.adj[a], b)]
           r == [d.adj EXCEPT ![b] = Append(d.adj[b], a)]
<1>2. /\ d \in GraphsLike(g, V, W) /\ d.weight = h.weight
      /\ d.adj = [h.adj EXCEPT ![a] = Append(h.adj[a], b)]
  <2>1. [h.adj EXCEPT ![a] = Append(h.adj[a], b)] \in [V -> Seq(V)]
    BY <1>1
  <2>2. d = [h EXCEPT !.adj = q]
    BY DEF AddNeighbor
  <2> HIDE DEF d, q
  <2>3. q \in [V -> Seq(V)]
    BY <2>1 DEF q
  <2>4. d \in GraphsLike(g, V, W) /\ d.weight = h.weight /\ d.adj = q
    BY <2>2, <2>3, NewLists
  <2>5. QED BY <2>4 DEF q
<1> HIDE DEF d
<1>3. d.adj \in [V -> Seq(V)]
  BY <1>2 DEF GraphsLike
<1>4. /\ e \in GraphsLike(g, V, W) /\ e.weight = d.weight
      /\ e.adj = [d.adj EXCEPT ![b] = Append(d.adj[b], a)]
  <2>1. [d.adj EXCEPT ![b] = Append(d.adj[b], a)] \in [V -> Seq(V)]
    BY <1>3
  <2>2. e = [d EXCEPT !.adj = r]
    BY DEF AddNeighbor
  <2> HIDE DEF e, r
  <2>3. r \in [V -> Seq(V)]
    BY <2>1 DEF r
  <2>4. e \in GraphsLike(g, V, W) /\ e.weight = d.weight /\ e.adj = r
    BY <1>2, <2>2, <2>3, NewLists
  <2>5. QED BY <2>4 DEF r
<1> HIDE DEF e
<1>5. a # b => Linked(e, h, V, a, b)
  BY <1>1, <1>2, <1>4 DEF Linked
<1>6. e = AddEdge(h, a, b)
  BY DEF AddEdge, d, e
<1>7. QED BY <1>2, <1>4, <1>5, <1>6

\* Removing an edge drops each of its ends from the list of the other.
LEMMA RemoveEdgeLists ==
  ASSUME NEW g, NEW V, NEW W, NEW h \in GraphsLike(g, V, W), NEW a \in V, NEW b \in V
  PROVE  /\ RemoveEdge(h, a, b) \in GraphsLike(g, V, W)
         /\ RemoveEdge(h, a, b).weight = h.weight
         /\ a # b => Unlinked(RemoveEdge(h, a, b), h, V, a, b)
         /\ a = b /\ a \notin ToSet(h.adj[a]) => SameMembers(RemoveEdge(h, a, b), h, V)
<1>1. h.adj \in [V -> Seq(V)]
  BY DEF GraphsLike
<1> DEFINE d == RemoveNeighbor(h, a, b)
           e == RemoveNeighbor(d, b, a)
           qa == Keep(h.adj[a], ToSet(h.adj[a]) \ {b})
           qb == Keep(d.adj[b], ToSet(d.adj[b]) \ {a})
           q == [h.adj EXCEPT ![a] = qa]
           r == [d.adj EXCEPT ![b] = qb]
<1>2. /\ d \in GraphsLike(g, V, W) /\ d.weight = h.weight
      /\ d.adj = [h.adj EXCEPT ![a] = qa]
  <2>1. h.adj[a] \in Seq(V)
    BY <1>1
  <2>2. qa \in Seq(V)
    BY <2>1, KeepElements
  <2>3. [h.adj EXCEPT ![a] = qa] \in [V -> Seq(V)]
    <3> HIDE DEF qa
    <3>1. QED BY <1>1, <2>2
  <2>4. d = [h EXCEPT !.adj = q]
    BY DEF RemoveNeighbor
  <2> HIDE DEF d, q
  <2>5. q \in [V -> Seq(V)]
    BY <2>3 DEF q
  <2>6. d \in GraphsLike(g, V, W) /\ d.weight = h.weight /\ d.adj = q
    BY <2>4, <2>5, NewLists
  <2>7. QED BY <2>6 DEF q
<1> HIDE DEF d
<1>3. d.adj \in [V -> Seq(V)]
  BY <1>2 DEF GraphsLike
<1>4. /\ e \in GraphsLike(g, V, W) /\ e.weight = d.weight
      /\ e.adj = [d.adj EXCEPT ![b] = qb]
  <2>1. d.adj[b] \in Seq(V)
    BY <1>3
  <2>2. qb \in Seq(V)
    BY <2>1, KeepElements
  <2>3. [d.adj EXCEPT ![b] = qb] \in [V -> Seq(V)]
    <3> HIDE DEF qb
    <3>1. QED BY <1>3, <2>2
  <2>4. e = [d EXCEPT !.adj = r]
    BY DEF RemoveNeighbor
  <2> HIDE DEF e, r
  <2>5. r \in [V -> Seq(V)]
    BY <2>3 DEF r
  <2>6. e \in GraphsLike(g, V, W) /\ e.weight = d.weight /\ e.adj = r
    BY <1>2, <2>4, <2>5, NewLists
  <2>7. QED BY <2>6 DEF r
<1> HIDE DEF e
<1>7. e \in GraphsLike(g, V, W) /\ e.weight = h.weight
  BY <1>2, <1>4
<1>8. ASSUME a # b
      PROVE  Unlinked(e, h, V, a, b)
  <2>1. d.adj[b] = h.adj[b] /\ d.adj = [h.adj EXCEPT ![a] = qa]
    BY <1>1, <1>2, <1>8
  <2>2. e.adj = [[h.adj EXCEPT ![a] = qa] EXCEPT ![b] = Keep(h.adj[b], ToSet(h.adj[b]) \ {a})]
    BY <1>4, <2>1
  <2> HIDE DEF qa, qb, d, e
  <2>3. \A v \in V : e.adj[v] = IF v = a THEN qa
                                ELSE IF v = b THEN Keep(h.adj[b], ToSet(h.adj[b]) \ {a})
                                ELSE h.adj[v]
    BY <1>1, <1>8, <2>2
  <2>4. QED BY <2>3 DEF Unlinked, qa
<1>9. ASSUME a = b, a \notin ToSet(h.adj[a]), NEW v \in V
      PROVE  ToSet(e.adj[v]) = ToSet(h.adj[v])
             /\ (NoDuplicates(h.adj[v]) => NoDuplicates(e.adj[v]))
  <2>1. h.adj[a] \in Seq(V) /\ d.adj[a] \in Seq(V) /\ d.adj[a] = qa
    BY <1>1, <1>2, <1>3
  <2>2. ToSet(qa) = ToSet(h.adj[a]) /\ (NoDuplicates(h.adj[a]) => NoDuplicates(qa))
    <3>1. /\ ToSet(qa) = ToSet(h.adj[a]) \cap (ToSet(h.adj[a]) \ {b})
          /\ (NoDuplicates(h.adj[a]) => NoDuplicates(qa))
      BY <2>1, KeepElements
    <3> HIDE DEF qa
    <3>2. QED BY <3>1, <1>9
  <2>3. ToSet(qb) = ToSet(qa) /\ (NoDuplicates(qa) => NoDuplicates(qb))
    <3>1. b = a /\ qb = Keep(d.adj[b], ToSet(d.adj[b]) \ {a})
      BY <1>9
    <3>2. /\ ToSet(qb) = ToSet(d.adj[b]) \cap (ToSet(d.adj[b]) \ {a})
          /\ (NoDuplicates(d.adj[b]) => NoDuplicates(qb))
      BY <2>1, <3>1, KeepElements
    <3> HIDE DEF qa, qb, d
    <3>3. QED BY <3>1, <3>2, <2>1, <2>2, <1>9
  <2> HIDE DEF qa, qb
  <2>4. CASE v = a
    <3>1. e.adj[v] = qb
      BY <1>3, <1>4, <1>9, <2>4
    <3> HIDE DEF d, e
    <3>2. QED BY <3>1, <2>2, <2>3, <2>4
  <2>5. CASE v # a
    <3>1. e.adj[v] = h.adj[v]
      BY <1>1, <1>2, <1>3, <1>4, <1>9, <2>5
    <3> HIDE DEF d, e
    <3>2. QED BY <3>1
  <2>6. QED BY <2>4, <2>5
<1>10. e = RemoveEdge(h, a, b)
  BY DEF RemoveEdge, d, e
<1>11. a = b /\ a \notin ToSet(h.adj[a]) => SameMembers(e, h, V)
  BY <1>9 DEF SameMembers
<1>12. QED BY <1>7, <1>8, <1>10, <1>11

\* An edge that is not there yet adds the pair of its ends, both ways round.
LEMMA AddEdgeRepresents ==
  ASSUME NEW g, NEW V, NEW W, NEW h \in GraphsLike(g, V, W), NEW a \in V, NEW b \in V, a # b,
         NEW E, <<a, b>> \notin E, <<b, a>> \notin E, Represents(h, V, E)
  PROVE  Represents(AddEdge(h, a, b), V, E \cup {<<a, b>>, <<b, a>>})
<1> DEFINE e == AddEdge(h, a, b)
           F == E \cup {<<a, b>>, <<b, a>>}
<1>1. \A v \in V : e.adj[v] = IF v = a THEN Append(h.adj[a], b)
                              ELSE IF v = b THEN Append(h.adj[b], a) ELSE h.adj[v]
  <2>1. Linked(AddEdge(h, a, b), h, V, a, b)
    BY AddEdgeLists
  <2>2. QED BY <2>1 DEF Linked
<1>2. \A v \in V : h.adj[v] \in Seq(V)
  BY DEF GraphsLike
<1> HIDE DEF e
<1>3. ASSUME NEW v \in V, NEW o \in V, (v = a /\ o = b) \/ (v = b /\ o = a)
      PROVE  NoDuplicates(e.adj[v]) /\ ToSet(e.adj[v]) = {u \in V : <<v, u>> \in F}
  <2>1. e.adj[v] = Append(h.adj[v], o)
    BY <1>1, <1>3
  <2>2. <<v, o>> \notin E /\ NoDuplicates(h.adj[v]) /\ ToSet(h.adj[v]) = {u \in V : <<v, u>> \in E}
    BY <1>3 DEF Represents
  <2>3. o \notin ToSet(h.adj[v])
    BY <2>2
  <2>4. NoDuplicates(e.adj[v]) /\ ToSet(e.adj[v]) = ToSet(h.adj[v]) \cup {o}
    <3> DEFINE q == h.adj[v]
    <3>1. q \in Seq(V) /\ NoDuplicates(q) /\ o \notin ToSet(q) /\ e.adj[v] = Append(q, o)
      BY <1>2, <2>1, <2>2, <2>3
    <3> HIDE DEF q
    <3>2. NoDuplicates(e.adj[v]) /\ ToSet(e.adj[v]) = ToSet(q) \cup {o}
      BY <3>1, AppendMembers
    <3>3. QED BY <3>2 DEF q
  <2>5. \A u \in V : <<v, u>> \in F <=> <<v, u>> \in E \/ u = o
    BY <1>3
  <2> HIDE DEF F
  <2>6. QED BY <2>2, <2>4, <2>5
<1>4. ASSUME NEW v \in V, v # a, v # b
      PROVE  NoDuplicates(e.adj[v]) /\ ToSet(e.adj[v]) = {u \in V : <<v, u>> \in F}
  <2>1. e.adj[v] = h.adj[v]
    BY <1>1, <1>4
  <2>2. \A u \in V : <<v, u>> \in F <=> <<v, u>> \in E
    BY <1>4
  <2> HIDE DEF F
  <2>3. QED BY <2>1, <2>2 DEF Represents
<1>5. Represents(e, V, F)
  <2> HIDE DEF F
  <2>1. QED BY <1>3, <1>4 DEF Represents
<1>6. QED BY <1>5 DEF e

\* Removing an edge takes the pair of its ends away, if it was there; an edge of a
\* vertex with itself changes nothing.
LEMMA RemoveEdgeRepresents ==
  ASSUME NEW g, NEW V, NEW W, NEW h \in GraphsLike(g, V, W), NEW a \in V, NEW b \in V,
         NEW E, \A v \in V : <<v, v>> \notin E, Represents(h, V, E)
  PROVE  Represents(RemoveEdge(h, a, b), V, E \ {<<a, b>>, <<b, a>>})
<1> DEFINE e == RemoveEdge(h, a, b)
           F == E \ {<<a, b>>, <<b, a>>}
<1>1. CASE a = b
  <2>1. a \notin ToSet(h.adj[a])
    BY DEF Represents
  <2>2. SameMembers(e, h, V)
    BY <1>1, <2>1, RemoveEdgeLists
  <2>3. \A u, v \in V : <<v, u>> \in F <=> <<v, u>> \in E
    BY <1>1
  <2> HIDE DEF e, F
  <2>4. Represents(e, V, F)
    BY <2>2, <2>3 DEF Represents, SameMembers
  <2>5. QED BY <2>4 DEF e, F
<1>2. CASE a # b
  <2>1. \A v \in V : e.adj[v] = IF v = a THEN Keep(h.adj[a], ToSet(h.adj[a]) \ {b})
                                ELSE IF v = b THEN Keep(h.adj[b], ToSet(h.adj[b]) \ {a})
                                ELSE h.adj[v]
    <3>1. Unlinked(RemoveEdge(h, a, b), h, V, a, b)
      BY <1>2, RemoveEdgeLists
    <3>2. QED BY <3>1 DEF Unlinked
  <2>2. \A v \in V : h.adj[v] \in Seq(V)
    BY DEF GraphsLike
  <2> HIDE DEF e
  <2>3. ASSUME NEW v \in V, NEW o \in V, (v = a /\ o = b) \/ (v = b /\ o = a)
        PROVE  NoDuplicates(e.adj[v]) /\ ToSet(e.adj[v]) = {u \in V : <<v, u>> \in F}
    <3>1. e.adj[v] = Keep(h.adj[v], ToSet(h.adj[v]) \ {o})
      BY <1>2, <2>1, <2>3
    <3>2. NoDuplicates(h.adj[v]) /\ ToSet(h.adj[v]) = {u \in V : <<v, u>> \in E}
      BY DEF Represents
    <3>3. NoDuplicates(e.adj[v]) /\ ToSet(e.adj[v]) = ToSet(h.adj[v]) \ {o}
      <4> DEFINE q == h.adj[v]
      <4>1. q \in Seq(V) /\ NoDuplicates(q) /\ e.adj[v] = Keep(q, ToSet(q) \ {o})
        BY <2>2, <3>1, <3>2
      <4> HIDE DEF q
      <4>2. NoDuplicates(e.adj[v]) /\ ToSet(e.adj[v]) = ToSet(q) \cap (ToSet(q) \ {o})
        BY <4>1, KeepElements
      <4>3. QED BY <4>2 DEF q
    <3>4. \A u \in V : <<v, u>> \in F <=> <<v, u>> \in E /\ u # o
      BY <1>2, <2>3
    <3> HIDE DEF F
    <3>5. QED BY <3>2, <3>3, <3>4
  <2>4. ASSUME NEW v \in V, v # a, v # b
        PROVE  NoDuplicates(e.adj[v]) /\ ToSet(e.adj[v]) = {u \in V : <<v, u>> \in F}
    <3>1. e.adj[v] = h.adj[v]
      BY <2>1, <2>4
    <3>2. \A u \in V : <<v, u>> \in F <=> <<v, u>> \in E
      BY <2>4
    <3> HIDE DEF F
    <3>3. QED BY <3>1, <3>2 DEF Represents
  <2>5. Represents(e, V, F)
    <3> HIDE DEF F
    <3>1. QED BY <2>3, <2>4 DEF Represents
  <2>6. QED BY <2>5 DEF e
<1>3. QED BY <1>1, <1>2

\* The graph after each of the edges.
AddTrace(f, g, V, W, start, pairs) ==
  /\ f \in [0 .. Len(pairs) -> GraphsLike(g, V, W)]
  /\ f[0] = start /\ f[Len(pairs)] = AddEdges(start, pairs)
  /\ \A i \in 1 .. Len(pairs) : f[i] = AddEdge(f[i - 1], pairs[i][1], pairs[i][2])

\* The loop goes through such values, whatever it is given.
LEMMA AddSteps ==
  ASSUME NEW g, NEW V, NEW W, NEW start \in GraphsLike(g, V, W), NEW pairs \in Seq(V \X V)
  PROVE  \E f : AddTrace(f, g, V, W, start, pairs)
<1> DEFINE n == Len(pairs)
           T == GraphsLike(g, V, W)
           Eq(h) == h = [U \in SUBSET DOMAIN pairs |->
                           IF U = {} THEN start
                           ELSE LET x == Max(U) IN AddEdge(h[U \ {x}], pairs[x][1], pairs[x][2])]
           H == CHOOSE h : Eq(h)
           step == [p \in T \X (1 .. n) |-> AddEdge(p[1], pairs[p[2]][1], pairs[p[2]][2])]
<1>1. AddEdges(start, pairs) = H[DOMAIN pairs]
  BY DEF AddEdges, FoldLeft, MapThenFoldSet
<1>2. n \in Nat /\ DOMAIN pairs = 1 .. n
  OBVIOUS
<1>3. start \in T
  OBVIOUS
<1>4. step \in [T \X (1 .. n) -> T]
  BY <1>2, AddEdgeLists
<1>5. \E h : Eq(h)
  <2>1. PICK h : FoldsSteps(h, n, T, start, step)
    <3> HIDE DEF step, n, T
    <3>1. QED BY <1>2, <1>3, <1>4, StepsExist
  <2>2. \A U \in SUBSET (1 .. n) : U # {} => Max(U) \in 1 .. n /\ U \ {Max(U)} \in SUBSET (1 .. n)
    BY <1>2, MaxIsMember
  <2>3. Eq(h)
    <3> HIDE DEF T, n
    <3>1. h = [U \in SUBSET (1 .. n) |-> h[U]]
      BY <2>1 DEF FoldsSteps
    <3>2. ASSUME NEW U \in SUBSET (1 .. n), U # {}
          PROVE  h[U] = AddEdge(h[U \ {Max(U)}], pairs[Max(U)][1], pairs[Max(U)][2])
      <4>1. h[U \ {Max(U)}] \in T /\ Max(U) \in 1 .. n
        BY <2>1, <2>2, <3>2 DEF FoldsSteps
      <4>2. h[U] = step[<<h[U \ {Max(U)}], Max(U)>>]
        BY <2>1, <3>2 DEF FoldsSteps
      <4>3. QED BY <4>1, <4>2
    <3>3. h[{}] = start
      BY <2>1 DEF FoldsSteps
    <3> HIDE DEF step
    <3>4. QED BY <1>2, <3>1, <3>2, <3>3
  <2>4. QED BY <2>3
<1>6. Eq(H)
  <2> HIDE DEF Eq
  <2>1. QED BY <1>5
<1> HIDE DEF H
<1>7. Follows(H, n, T, start, step)
  <2> HIDE DEF T, n
  <2>1. H[{}] = start
    BY <1>6
  <2>2. ASSUME NEW i \in 1 .. n, H[1 .. i - 1] \in T
        PROVE  H[1 .. i] = step[<<H[1 .. i - 1], i>>]
    <3>1. /\ 1 .. i \in SUBSET (1 .. n) /\ 1 .. i # {}
          /\ Max(1 .. i) = i /\ (1 .. i) \ {i} = 1 .. i - 1
      BY <1>2, PrefixMax
    <3>2. H[1 .. i] = AddEdge(H[1 .. i - 1], pairs[i][1], pairs[i][2])
      BY <1>2, <1>6, <3>1
    <3>3. QED BY <2>2, <3>2
  <2> HIDE DEF step, Eq
  <2>3. QED BY <2>1, <2>2 DEF Follows
<1>8. PICK f : Trace(f, H, n, T, start, step)
  <2> HIDE DEF step, n, T, Eq
  <2>1. QED BY <1>2, <1>3, <1>4, <1>7, StepsTaken
<1>9. f \in [0 .. n -> T] /\ f[0] = start /\ f[n] = H[1 .. n]
  BY <1>8 DEF Trace
<1>10. ASSUME NEW i \in 1 .. n PROVE f[i] = AddEdge(f[i - 1], pairs[i][1], pairs[i][2])
  <2> HIDE DEF T, n
  <2>1. i - 1 \in 0 .. n
    BY <1>2
  <2>2. f[i - 1] \in T
    BY <2>1, <1>9
  <2>3. f[i] = step[<<f[i - 1], i>>]
    BY <1>8 DEF Trace
  <2>4. QED BY <2>2, <2>3
<1>11. AddTrace(f, g, V, W, start, pairs)
  BY <1>1, <1>2, <1>9, <1>10 DEF AddTrace
<1>12. QED BY <1>11

\* The graph after each removal.
RemoveTrace(f, g, V, W, start, pairs) ==
  /\ f \in [0 .. Len(pairs) -> GraphsLike(g, V, W)]
  /\ f[0] = start /\ f[Len(pairs)] = RemoveEdges(start, pairs)
  /\ \A i \in 1 .. Len(pairs) : f[i] = RemoveEdge(f[i - 1], pairs[i][1], pairs[i][2])

\* The loop goes through such values, whatever it is given.
LEMMA RemoveSteps ==
  ASSUME NEW g, NEW V, NEW W, NEW start \in GraphsLike(g, V, W), NEW pairs \in Seq(V \X V)
  PROVE  \E f : RemoveTrace(f, g, V, W, start, pairs)
<1> DEFINE n == Len(pairs)
           T == GraphsLike(g, V, W)
           Eq(h) == h = [U \in SUBSET DOMAIN pairs |->
                           IF U = {} THEN start
                           ELSE LET x == Max(U) IN RemoveEdge(h[U \ {x}], pairs[x][1], pairs[x][2])]
           H == CHOOSE h : Eq(h)
           step == [p \in T \X (1 .. n) |-> RemoveEdge(p[1], pairs[p[2]][1], pairs[p[2]][2])]
<1>1. RemoveEdges(start, pairs) = H[DOMAIN pairs]
  BY DEF RemoveEdges, FoldLeft, MapThenFoldSet
<1>2. n \in Nat /\ DOMAIN pairs = 1 .. n
  OBVIOUS
<1>3. start \in T
  OBVIOUS
<1>4. step \in [T \X (1 .. n) -> T]
  BY <1>2, RemoveEdgeLists
<1>5. \E h : Eq(h)
  <2>1. PICK h : FoldsSteps(h, n, T, start, step)
    <3> HIDE DEF step, n, T
    <3>1. QED BY <1>2, <1>3, <1>4, StepsExist
  <2>2. \A U \in SUBSET (1 .. n) : U # {} => Max(U) \in 1 .. n /\ U \ {Max(U)} \in SUBSET (1 .. n)
    BY <1>2, MaxIsMember
  <2>3. Eq(h)
    <3> HIDE DEF T, n
    <3>1. h = [U \in SUBSET (1 .. n) |-> h[U]]
      BY <2>1 DEF FoldsSteps
    <3>2. ASSUME NEW U \in SUBSET (1 .. n), U # {}
          PROVE  h[U] = RemoveEdge(h[U \ {Max(U)}], pairs[Max(U)][1], pairs[Max(U)][2])
      <4>1. h[U \ {Max(U)}] \in T /\ Max(U) \in 1 .. n
        BY <2>1, <2>2, <3>2 DEF FoldsSteps
      <4>2. h[U] = step[<<h[U \ {Max(U)}], Max(U)>>]
        BY <2>1, <3>2 DEF FoldsSteps
      <4>3. QED BY <4>1, <4>2
    <3>3. h[{}] = start
      BY <2>1 DEF FoldsSteps
    <3> HIDE DEF step
    <3>4. QED BY <1>2, <3>1, <3>2, <3>3
  <2>4. QED BY <2>3
<1>6. Eq(H)
  <2> HIDE DEF Eq
  <2>1. QED BY <1>5
<1> HIDE DEF H
<1>7. Follows(H, n, T, start, step)
  <2> HIDE DEF T, n
  <2>1. H[{}] = start
    BY <1>6
  <2>2. ASSUME NEW i \in 1 .. n, H[1 .. i - 1] \in T
        PROVE  H[1 .. i] = step[<<H[1 .. i - 1], i>>]
    <3>1. /\ 1 .. i \in SUBSET (1 .. n) /\ 1 .. i # {}
          /\ Max(1 .. i) = i /\ (1 .. i) \ {i} = 1 .. i - 1
      BY <1>2, PrefixMax
    <3>2. H[1 .. i] = RemoveEdge(H[1 .. i - 1], pairs[i][1], pairs[i][2])
      BY <1>2, <1>6, <3>1
    <3>3. QED BY <2>2, <3>2
  <2> HIDE DEF step, Eq
  <2>3. QED BY <2>1, <2>2 DEF Follows
<1>8. PICK f : Trace(f, H, n, T, start, step)
  <2> HIDE DEF step, n, T, Eq
  <2>1. QED BY <1>2, <1>3, <1>4, <1>7, StepsTaken
<1>9. f \in [0 .. n -> T] /\ f[0] = start /\ f[n] = H[1 .. n]
  BY <1>8 DEF Trace
<1>10. ASSUME NEW i \in 1 .. n PROVE f[i] = RemoveEdge(f[i - 1], pairs[i][1], pairs[i][2])
  <2> HIDE DEF T, n
  <2>1. i - 1 \in 0 .. n
    BY <1>2
  <2>2. f[i - 1] \in T
    BY <2>1, <1>9
  <2>3. f[i] = step[<<f[i - 1], i>>]
    BY <1>8 DEF Trace
  <2>4. QED BY <2>2, <2>3
<1>11. RemoveTrace(f, g, V, W, start, pairs)
  BY <1>1, <1>2, <1>9, <1>10 DEF RemoveTrace
<1>12. QED BY <1>11

\* Vertices counted from 1.
Labels(L, V) == \A l \in L : l - 1 \in V

\* A weight changes nothing but that weight.
LEMMA SetWeightShape ==
  ASSUME NEW g, NEW V, NEW W, NEW h \in GraphsLike(g, V, W),
         NEW i, i - 1 \in V, NEW w \in W
  PROVE  /\ SetWeight(h, i - 1, w) \in GraphsLike(g, V, W)
         /\ SetWeight(h, i - 1, w).adj = h.adj
  BY DEF SetWeight, GraphsLike

\* The graph after each n line.
WeightTrace(f, g, V, W, start, lines) ==
  /\ f \in [0 .. Len(lines) -> GraphsLike(g, V, W)]
  /\ f[0] = start /\ f[Len(lines)] = SetWeights(start, lines)
  /\ \A i \in 1 .. Len(lines) : f[i] = SetWeight(f[i - 1], lines[i][1] - 1, lines[i][2])

\* The loop goes through such values, whatever it is given.
LEMMA WeightSteps ==
  ASSUME NEW g, NEW V, NEW W, NEW start \in GraphsLike(g, V, W), NEW L, Labels(L, V), NEW lines \in Seq(L \X W)
  PROVE  \E f : WeightTrace(f, g, V, W, start, lines)
<1> DEFINE n == Len(lines)
           T == GraphsLike(g, V, W)
           Eq(h) == h = [U \in SUBSET DOMAIN lines |->
                           IF U = {} THEN start
                           ELSE LET x == Max(U) IN SetWeight(h[U \ {x}], lines[x][1] - 1, lines[x][2])]
           H == CHOOSE h : Eq(h)
           step == [p \in T \X (1 .. n) |-> SetWeight(p[1], lines[p[2]][1] - 1, lines[p[2]][2])]
<1>1. SetWeights(start, lines) = H[DOMAIN lines]
  BY DEF SetWeights, FoldLeft, MapThenFoldSet
<1>2. n \in Nat /\ DOMAIN lines = 1 .. n
  OBVIOUS
<1>3. start \in T
  OBVIOUS
<1>4. step \in [T \X (1 .. n) -> T]
  BY <1>2, SetWeightShape DEF Labels
<1>5. \E h : Eq(h)
  <2>1. PICK h : FoldsSteps(h, n, T, start, step)
    <3> HIDE DEF step, n, T
    <3>1. QED BY <1>2, <1>3, <1>4, StepsExist
  <2>2. \A U \in SUBSET (1 .. n) : U # {} => Max(U) \in 1 .. n /\ U \ {Max(U)} \in SUBSET (1 .. n)
    BY <1>2, MaxIsMember
  <2>3. Eq(h)
    <3> HIDE DEF T, n
    <3>1. h = [U \in SUBSET (1 .. n) |-> h[U]]
      BY <2>1 DEF FoldsSteps
    <3>2. ASSUME NEW U \in SUBSET (1 .. n), U # {}
          PROVE  h[U] = SetWeight(h[U \ {Max(U)}], lines[Max(U)][1] - 1, lines[Max(U)][2])
      <4>1. h[U \ {Max(U)}] \in T /\ Max(U) \in 1 .. n
        BY <2>1, <2>2, <3>2 DEF FoldsSteps
      <4>2. h[U] = step[<<h[U \ {Max(U)}], Max(U)>>]
        BY <2>1, <3>2 DEF FoldsSteps
      <4>3. QED BY <4>1, <4>2
    <3>3. h[{}] = start
      BY <2>1 DEF FoldsSteps
    <3> HIDE DEF step
    <3>4. QED BY <1>2, <3>1, <3>2, <3>3
  <2>4. QED BY <2>3
<1>6. Eq(H)
  <2> HIDE DEF Eq
  <2>1. QED BY <1>5
<1> HIDE DEF H
<1>7. Follows(H, n, T, start, step)
  <2> HIDE DEF T, n
  <2>1. H[{}] = start
    BY <1>6
  <2>2. ASSUME NEW i \in 1 .. n, H[1 .. i - 1] \in T
        PROVE  H[1 .. i] = step[<<H[1 .. i - 1], i>>]
    <3>1. /\ 1 .. i \in SUBSET (1 .. n) /\ 1 .. i # {}
          /\ Max(1 .. i) = i /\ (1 .. i) \ {i} = 1 .. i - 1
      BY <1>2, PrefixMax
    <3>2. H[1 .. i] = SetWeight(H[1 .. i - 1], lines[i][1] - 1, lines[i][2])
      BY <1>2, <1>6, <3>1
    <3>3. QED BY <2>2, <3>2
  <2> HIDE DEF step, Eq
  <2>3. QED BY <2>1, <2>2 DEF Follows
<1>8. PICK f : Trace(f, H, n, T, start, step)
  <2> HIDE DEF step, n, T, Eq
  <2>1. QED BY <1>2, <1>3, <1>4, <1>7, StepsTaken
<1>9. f \in [0 .. n -> T] /\ f[0] = start /\ f[n] = H[1 .. n]
  BY <1>8 DEF Trace
<1>10. ASSUME NEW i \in 1 .. n PROVE f[i] = SetWeight(f[i - 1], lines[i][1] - 1, lines[i][2])
  <2> HIDE DEF T, n
  <2>1. i - 1 \in 0 .. n
    BY <1>2
  <2>2. f[i - 1] \in T
    BY <2>1, <1>9
  <2>3. f[i] = step[<<f[i - 1], i>>]
    BY <1>8 DEF Trace
  <2>4. QED BY <2>2, <2>3
<1>11. WeightTrace(f, g, V, W, start, lines)
  BY <1>1, <1>2, <1>9, <1>10 DEF WeightTrace
<1>12. QED BY <1>11


\* The first k pairs, both ways round.
BothWays(pairs, k) ==
  UNION {{<<pairs[i][1], pairs[i][2]>>, <<pairs[i][2], pairs[i][1]>>} : i \in 1 .. k}

\* Each pair joins two vertices that nothing has joined before.
Fresh(pairs, E) ==
  \A i \in 1 .. Len(pairs) :
     /\ pairs[i][1] # pairs[i][2]
     /\ <<pairs[i][1], pairs[i][2]>> \notin E \cup BothWays(pairs, i - 1)
     /\ <<pairs[i][2], pairs[i][1]>> \notin E \cup BothWays(pairs, i - 1)

\* The first k pairs are the first k - 1 and one more.
LEMMA BothWaysSteps ==
  ASSUME NEW pairs
  PROVE  /\ BothWays(pairs, 0) = {}
         /\ \A i \in Nat : BothWays(pairs, i + 1) =
              BothWays(pairs, i) \cup {<<pairs[i + 1][1], pairs[i + 1][2]>>,
                                       <<pairs[i + 1][2], pairs[i + 1][1]>>}
<1>1. BothWays(pairs, 0) = {}
  BY DEF BothWays
<1>2. ASSUME NEW i \in Nat
      PROVE  BothWays(pairs, i + 1) =
               BothWays(pairs, i) \cup {<<pairs[i + 1][1], pairs[i + 1][2]>>,
                                        <<pairs[i + 1][2], pairs[i + 1][1]>>}
  <2>1. 1 .. i + 1 = (1 .. i) \cup {i + 1}
    OBVIOUS
  <2> DEFINE p(j) == {<<pairs[j][1], pairs[j][2]>>, <<pairs[j][2], pairs[j][1]>>}
  <2>2. BothWays(pairs, i + 1) = UNION {p(j) : j \in 1 .. i + 1}
        /\ BothWays(pairs, i) = UNION {p(j) : j \in 1 .. i}
    BY DEF BothWays
  <2> HIDE DEF p
  <2>3. BothWays(pairs, i + 1) = BothWays(pairs, i) \cup p(i + 1)
    BY <2>1, <2>2
  <2>4. QED BY <2>3 DEF p
<1>3. QED BY <1>1, <1>2

\* Adding edges that are all new joins exactly their ends.
LEMMA AddEdgesRepresents ==
  ASSUME NEW g, NEW V, NEW W, NEW start \in GraphsLike(g, V, W), NEW pairs \in Seq(V \X V),
         NEW E, Represents(start, V, E), Fresh(pairs, E)
  PROVE  /\ AddEdges(start, pairs) \in GraphsLike(g, V, W)
         /\ AddEdges(start, pairs).weight = start.weight
         /\ Represents(AddEdges(start, pairs), V, E \cup BothWays(pairs, Len(pairs)))
<1>1. PICK f : AddTrace(f, g, V, W, start, pairs)
  BY AddSteps
<1>2. /\ f \in [0 .. Len(pairs) -> GraphsLike(g, V, W)]
      /\ f[0] = start /\ f[Len(pairs)] = AddEdges(start, pairs)
      /\ \A i \in 1 .. Len(pairs) : f[i] = AddEdge(f[i - 1], pairs[i][1], pairs[i][2])
  BY <1>1 DEF AddTrace
<1> DEFINE E2(i) == E \cup BothWays(pairs, i)
           Good(i) == f[i].weight = start.weight /\ Represents(f[i], V, E2(i))
           I == {i \in 0 .. Len(pairs) : Good(i)}
<1>3. Len(pairs) \in Nat /\ \A i \in 1 .. Len(pairs) : pairs[i] \in V \X V
  OBVIOUS
<1>4. 0 \in I
  <2>1. E2(0) = E
    BY BothWaysSteps
  <2> HIDE DEF E2
  <2>2. Good(0)
    BY <1>2, <2>1
  <2> HIDE DEF Good
  <2>3. QED BY <1>3, <2>2
<1>5. ASSUME NEW i \in 0 .. Len(pairs) - 1, i \in I PROVE i + 1 \in I
  <2>1. /\ i + 1 \in 1 .. Len(pairs) /\ i + 1 \in 0 .. Len(pairs) /\ (i + 1) - 1 = i
        /\ i \in 0 .. Len(pairs) /\ i \in Nat
    BY <1>3
  <2>2. PICK a \in V, b \in V : pairs[i + 1] = <<a, b>>
    BY <1>3, <2>1
  <2>3. f[i] \in GraphsLike(g, V, W) /\ f[i + 1] = AddEdge(f[i], a, b)
    BY <1>2, <2>1, <2>2
  <2>4. a # b /\ <<a, b>> \notin E2(i) /\ <<b, a>> \notin E2(i)
    BY <2>1, <2>2 DEF Fresh
  <2>5. E2(i + 1) = E2(i) \cup {<<a, b>>, <<b, a>>}
    <3>1. BothWays(pairs, i + 1) = BothWays(pairs, i) \cup {<<a, b>>, <<b, a>>}
      BY <2>1, <2>2, BothWaysSteps
    <3>2. QED BY <3>1
  <2>6. Good(i)
    BY <1>5
  <2> HIDE DEF E2, I
  <2>7. Represents(f[i + 1], V, E2(i + 1))
    BY <2>3, <2>4, <2>5, <2>6, AddEdgeRepresents
  <2>8. f[i + 1].weight = start.weight
    <3> DEFINE h == f[i]
    <3>1. h \in GraphsLike(g, V, W)
      BY <2>3
    <3> HIDE DEF h
    <3>2. AddEdge(h, a, b).weight = h.weight
      BY <3>1, AddEdgeLists
    <3>3. QED BY <3>2, <2>3, <2>6 DEF h
  <2>9. QED BY <2>1, <2>7, <2>8 DEF I
<1>6. \A i \in 0 .. Len(pairs) : i \in I
  <2> HIDE DEF I
  <2>1. QED BY <1>3, <1>4, <1>5, UpTo
<1>7. Len(pairs) \in 0 .. Len(pairs) /\ Good(Len(pairs))
  <2>1. Len(pairs) \in 0 .. Len(pairs) /\ Len(pairs) \in I
    <3> HIDE DEF I
    <3>1. QED BY <1>3, <1>6
  <2> HIDE DEF Good
  <2>2. QED BY <2>1
<1>8. f[Len(pairs)] \in GraphsLike(g, V, W)
  BY <1>2, <1>7
<1>9. QED BY <1>2, <1>7, <1>8

\* Removing edges takes exactly their ends apart.
LEMMA RemoveEdgesRepresents ==
  ASSUME NEW g, NEW V, NEW W, NEW start \in GraphsLike(g, V, W), NEW pairs \in Seq(V \X V),
         NEW E, Represents(start, V, E), \A v \in V : <<v, v>> \notin E
  PROVE  /\ RemoveEdges(start, pairs) \in GraphsLike(g, V, W)
         /\ RemoveEdges(start, pairs).weight = start.weight
         /\ Represents(RemoveEdges(start, pairs), V, E \ BothWays(pairs, Len(pairs)))
<1>1. PICK f : RemoveTrace(f, g, V, W, start, pairs)
  BY RemoveSteps
<1>2. /\ f \in [0 .. Len(pairs) -> GraphsLike(g, V, W)]
      /\ f[0] = start /\ f[Len(pairs)] = RemoveEdges(start, pairs)
      /\ \A i \in 1 .. Len(pairs) : f[i] = RemoveEdge(f[i - 1], pairs[i][1], pairs[i][2])
  BY <1>1 DEF RemoveTrace
<1> DEFINE E2(i) == E \ BothWays(pairs, i)
           Good(i) == f[i].weight = start.weight /\ Represents(f[i], V, E2(i))
           I == {i \in 0 .. Len(pairs) : Good(i)}
<1>3. Len(pairs) \in Nat /\ \A i \in 1 .. Len(pairs) : pairs[i] \in V \X V
  OBVIOUS
<1>4. 0 \in I
  <2>1. E2(0) = E
    BY BothWaysSteps
  <2> HIDE DEF E2
  <2>2. Good(0)
    BY <1>2, <2>1
  <2> HIDE DEF Good
  <2>3. QED BY <1>3, <2>2
<1>5. ASSUME NEW i \in 0 .. Len(pairs) - 1, i \in I PROVE i + 1 \in I
  <2>1. /\ i + 1 \in 1 .. Len(pairs) /\ i + 1 \in 0 .. Len(pairs) /\ (i + 1) - 1 = i
        /\ i \in 0 .. Len(pairs) /\ i \in Nat
    BY <1>3
  <2>2. PICK a \in V, b \in V : pairs[i + 1] = <<a, b>>
    BY <1>3, <2>1
  <2>3. f[i] \in GraphsLike(g, V, W) /\ f[i + 1] = RemoveEdge(f[i], a, b)
    BY <1>2, <2>1, <2>2
  <2>4. \A v \in V : <<v, v>> \notin E2(i)
    OBVIOUS
  <2>5. E2(i + 1) = E2(i) \ {<<a, b>>, <<b, a>>}
    <3>1. BothWays(pairs, i + 1) = BothWays(pairs, i) \cup {<<a, b>>, <<b, a>>}
      BY <2>1, <2>2, BothWaysSteps
    <3>2. QED BY <3>1
  <2>6. Good(i)
    BY <1>5
  <2> HIDE DEF E2, I
  <2>7. Represents(f[i + 1], V, E2(i + 1))
    BY <2>3, <2>4, <2>5, <2>6, RemoveEdgeRepresents
  <2>8. f[i + 1].weight = start.weight
    <3> DEFINE h == f[i]
    <3>1. h \in GraphsLike(g, V, W)
      BY <2>3
    <3> HIDE DEF h
    <3>2. RemoveEdge(h, a, b).weight = h.weight
      BY <3>1, RemoveEdgeLists
    <3>3. QED BY <3>2, <2>3, <2>6 DEF h
  <2>9. QED BY <2>1, <2>7, <2>8 DEF I
<1>6. \A i \in 0 .. Len(pairs) : i \in I
  <2> HIDE DEF I
  <2>1. QED BY <1>3, <1>4, <1>5, UpTo
<1>7. Len(pairs) \in 0 .. Len(pairs) /\ Good(Len(pairs))
  <2>1. Len(pairs) \in 0 .. Len(pairs) /\ Len(pairs) \in I
    <3> HIDE DEF I
    <3>1. QED BY <1>3, <1>6
  <2> HIDE DEF Good
  <2>2. QED BY <2>1
<1>8. f[Len(pairs)] \in GraphsLike(g, V, W)
  BY <1>2, <1>7
<1>9. QED BY <1>2, <1>7, <1>8

\* The n lines change weights only.
LEMMA SetWeightsLists ==
  ASSUME NEW g, NEW V, NEW W, NEW start \in GraphsLike(g, V, W),
         NEW L, Labels(L, V), NEW lines \in Seq(L \X W)
  PROVE  /\ SetWeights(start, lines) \in GraphsLike(g, V, W)
         /\ SetWeights(start, lines).adj = start.adj
<1>1. PICK f : WeightTrace(f, g, V, W, start, lines)
  BY WeightSteps
<1>2. /\ f \in [0 .. Len(lines) -> GraphsLike(g, V, W)]
      /\ f[0] = start /\ f[Len(lines)] = SetWeights(start, lines)
      /\ \A i \in 1 .. Len(lines) : f[i] = SetWeight(f[i - 1], lines[i][1] - 1, lines[i][2])
  BY <1>1 DEF WeightTrace
<1> DEFINE I == {i \in 0 .. Len(lines) : f[i].adj = start.adj}
<1>3. Len(lines) \in Nat /\ \A i \in 1 .. Len(lines) : lines[i] \in L \X W
  OBVIOUS
<1>4. 0 \in I
  BY <1>2, <1>3
<1>5. ASSUME NEW i \in 0 .. Len(lines) - 1, i \in I PROVE i + 1 \in I
  <2>1. /\ i + 1 \in 1 .. Len(lines) /\ i + 1 \in 0 .. Len(lines) /\ (i + 1) - 1 = i
        /\ i \in 0 .. Len(lines)
    BY <1>3
  <2>2. PICK l \in L, w \in W : lines[i + 1] = <<l, w>>
    BY <1>3, <2>1
  <2>3. f[i] \in GraphsLike(g, V, W) /\ f[i + 1] = SetWeight(f[i], l - 1, w) /\ l - 1 \in V
    BY <1>2, <2>1, <2>2 DEF Labels
  <2>4. f[i + 1].adj = f[i].adj
    <3> DEFINE h == f[i]
    <3>1. h \in GraphsLike(g, V, W)
      BY <2>3
    <3> HIDE DEF h
    <3>2. SetWeight(h, l - 1, w).adj = h.adj
      BY <3>1, <2>3, SetWeightShape
    <3>3. QED BY <3>2, <2>3 DEF h
  <2>5. QED BY <1>5, <2>1, <2>4
<1>6. \A i \in 0 .. Len(lines) : i \in I
  <2> HIDE DEF I
  <2>1. QED BY <1>3, <1>4, <1>5, UpTo
<1>7. Len(lines) \in 0 .. Len(lines) /\ Len(lines) \in I
  <2> HIDE DEF I
  <2>1. QED BY <1>3, <1>6
<1>8. f[Len(lines)] \in GraphsLike(g, V, W)
  BY <1>2, <1>7
<1>9. QED BY <1>2, <1>7, <1>8

\* A weight is set for its vertex and for no other.
LEMMA SetWeightValues ==
  ASSUME NEW g, NEW V, NEW W, NEW h \in GraphsLike(g, V, W),
         NEW i, i - 1 \in V, NEW w \in W
  PROVE  /\ SetWeight(h, i - 1, w).weight[i - 1] = w
         /\ \A v \in V : v # i - 1 => SetWeight(h, i - 1, w).weight[v] = h.weight[v]
  BY DEF SetWeight, GraphsLike

\* No vertex has two lines.
OneLineEach(lines) ==
  \A i, j \in 1 .. Len(lines) : lines[i][1] - 1 = lines[j][1] - 1 => i = j

\* Each vertex with a line has the weight of that line.
WeightsAsListed(h, lines) ==
  \A i \in 1 .. Len(lines) : h.weight[lines[i][1] - 1] = lines[i][2]

\* Where no vertex has two n lines, each gets the weight of its own.
LEMMA SetWeightsValues ==
  ASSUME NEW g, NEW V, NEW W, NEW start \in GraphsLike(g, V, W),
         NEW L, Labels(L, V), NEW lines \in Seq(L \X W),
         OneLineEach(lines)
  PROVE  WeightsAsListed(SetWeights(start, lines), lines)
<1>1. PICK f : WeightTrace(f, g, V, W, start, lines)
  BY WeightSteps
<1>2. /\ f \in [0 .. Len(lines) -> GraphsLike(g, V, W)]
      /\ f[0] = start /\ f[Len(lines)] = SetWeights(start, lines)
      /\ \A i \in 1 .. Len(lines) : f[i] = SetWeight(f[i - 1], lines[i][1] - 1, lines[i][2])
  BY <1>1 DEF WeightTrace
<1> DEFINE I == {k \in 0 .. Len(lines) :
                   \A i \in 1 .. k : f[k].weight[lines[i][1] - 1] = lines[i][2]}
<1>3. Len(lines) \in Nat /\ \A i \in 1 .. Len(lines) : lines[i] \in L \X W
  OBVIOUS
<1>4. 0 \in I
  BY <1>3
<1>5. ASSUME NEW k \in 0 .. Len(lines) - 1, k \in I PROVE k + 1 \in I
  <2>1. /\ k + 1 \in 1 .. Len(lines) /\ k + 1 \in 0 .. Len(lines) /\ (k + 1) - 1 = k
        /\ k \in 0 .. Len(lines)
    BY <1>3
  <2>2. PICK l \in L, w \in W : lines[k + 1] = <<l, w>>
    <3>1. lines[k + 1] \in L \X W
      BY <1>3, <2>1
    <3>2. QED BY <3>1
  <2>3. f[k] \in GraphsLike(g, V, W) /\ f[k + 1] = SetWeight(f[k], l - 1, w) /\ l - 1 \in V
    <3>1. f[k] \in GraphsLike(g, V, W) /\ l - 1 \in V
      BY <1>2, <2>1 DEF Labels
    <3>2. f[k + 1] = SetWeight(f[k], lines[k + 1][1] - 1, lines[k + 1][2])
      BY <1>2, <2>1
    <3>3. lines[k + 1][1] = l /\ lines[k + 1][2] = w
      BY <2>2
    <3>4. QED BY <3>1, <3>2, <3>3
  <2>4. f[k + 1].weight[l - 1] = w /\ \A v \in V : v # l - 1 => f[k + 1].weight[v] = f[k].weight[v]
    <3> DEFINE h == f[k]
    <3>1. h \in GraphsLike(g, V, W) /\ l - 1 \in V
      BY <2>3
    <3> HIDE DEF h
    <3>2. /\ SetWeight(h, l - 1, w).weight[l - 1] = w
          /\ \A v \in V : v # l - 1 => SetWeight(h, l - 1, w).weight[v] = h.weight[v]
      BY <3>1, SetWeightValues
    <3>3. QED BY <3>2, <2>3 DEF h
  <2>5. ASSUME NEW i \in 1 .. k + 1
        PROVE  f[k + 1].weight[lines[i][1] - 1] = lines[i][2]
    <3>1. CASE i = k + 1
      BY <3>1, <2>2, <2>4
    <3>2. CASE i # k + 1
      <4>1. i \in 1 .. k /\ i \in 1 .. Len(lines)
        BY <3>2, <2>1, <1>3
      <4>2. PICK a \in L, b \in W : lines[i] = <<a, b>>
        BY <1>3, <4>1
      <4>3. a - 1 \in V
        BY DEF Labels
      <4>4. a - 1 # l - 1
        <5>1. lines[i][1] = a /\ lines[k + 1][1] = l
          BY <4>2, <2>2
        <5>2. lines[i][1] - 1 # lines[k + 1][1] - 1
          BY <3>2, <4>1, <2>1 DEF OneLineEach
        <5>3. QED BY <5>1, <5>2
      <4>5. f[k].weight[a - 1] = b
        BY <1>5, <4>1, <4>2
      <4>6. QED BY <2>4, <4>2, <4>3, <4>4, <4>5
    <3>3. QED BY <3>1, <3>2
  <2>6. QED BY <2>1, <2>5
<1>6. \A k \in 0 .. Len(lines) : k \in I
  <2> HIDE DEF I
  <2>1. QED BY <1>3, <1>4, <1>5, UpTo
<1>7. Len(lines) \in I
  <2> HIDE DEF I
  <2>1. QED BY <1>3, <1>6
<1>8. QED BY <1>2, <1>7 DEF WeightsAsListed

\* The inner loop pairs vertex i - 1 with those behind it.
LEMMA LaterThanPairs ==
  ASSUME NEW n \in Nat, NEW i \in 1 .. n
  PROVE  /\ LaterThan(i, n) \in Seq((0 .. n - 1) \X (0 .. n - 1))
         /\ Len(LaterThan(i, n)) = n - i
         /\ \A j \in 1 .. n - i : LaterThan(i, n)[j] = <<i - 1, i + j - 1>>
<1>1. n - i \in Nat
  OBVIOUS
<1>2. \A j \in 1 .. n - i : <<i - 1, i + j - 1>> \in (0 .. n - 1) \X (0 .. n - 1)
  OBVIOUS
<1>3. QED BY <1>1, <1>2 DEF LaterThan

\* Whatever the edges, a graph of the same vertices results.
LEMMA AddEdgesShape ==
  ASSUME NEW g, NEW V, NEW W, NEW start \in GraphsLike(g, V, W), NEW pairs \in Seq(V \X V)
  PROVE  AddEdges(start, pairs) \in GraphsLike(g, V, W)
<1>1. PICK f : AddTrace(f, g, V, W, start, pairs)
  BY AddSteps
<1>2. f \in [0 .. Len(pairs) -> GraphsLike(g, V, W)] /\ f[Len(pairs)] = AddEdges(start, pairs)
  BY <1>1 DEF AddTrace
<1>3. Len(pairs) \in 0 .. Len(pairs)
  OBVIOUS
<1>4. QED BY <1>2, <1>3

\* So it does after a turn of the outer loop.
LEMMA InnerLoopShape ==
  ASSUME NEW g, g.n \in Nat, NEW W, NEW h \in GraphsLike(g, 0 .. g.n - 1, W),
         NEW i \in 1 .. g.n
  PROVE  AddEdges(h, LaterThan(i, g.n)) \in GraphsLike(g, 0 .. g.n - 1, W)
<1> DEFINE V == 0 .. g.n - 1
           p == LaterThan(i, g.n)
<1>1. p \in Seq(V \X V) /\ h \in GraphsLike(g, V, W)
  BY LaterThanPairs
<1> HIDE DEF V, p
<1>2. AddEdges(h, p) \in GraphsLike(g, V, W)
  BY <1>1, AddEdgesShape
<1>3. QED BY <1>2 DEF V, p

\* The graph after each turn of the outer loop.
CompleteTrace(f, g, W, q) ==
  /\ f \in [0 .. Len(q) -> GraphsLike(g, 0 .. g.n - 1, W)]
  /\ f[0] = g /\ f[Len(q)] = CompleteGraph(g)
  /\ \A i \in 1 .. Len(q) : f[i] = AddEdges(f[i - 1], LaterThan(q[i], g.n))

\* The loop goes through such values, whatever it is given.
LEMMA CompleteSteps ==
  ASSUME NEW g, g.n \in Nat, NEW W, g \in GraphsLike(g, 0 .. g.n - 1, W), NEW q \in Seq(1 .. g.n),
         q = [i \in 1 .. g.n |-> i]
  PROVE  \E f : CompleteTrace(f, g, W, q)
<1> DEFINE n == Len(q)
           T == GraphsLike(g, 0 .. g.n - 1, W)
           Eq(h) == h = [U \in SUBSET DOMAIN q |->
                           IF U = {} THEN g
                           ELSE LET x == Max(U) IN AddEdges(h[U \ {x}], LaterThan(q[x], g.n))]
           H == CHOOSE h : Eq(h)
           step == [p \in T \X (1 .. n) |-> AddEdges(p[1], LaterThan(q[p[2]], g.n))]
<1>1. CompleteGraph(g) = H[DOMAIN q]
  BY DEF CompleteGraph, FoldLeft, MapThenFoldSet
<1>2. n \in Nat /\ DOMAIN q = 1 .. n
  OBVIOUS
<1>3. g \in T
  OBVIOUS
<1>4. step \in [T \X (1 .. n) -> T]
  BY <1>2, InnerLoopShape
<1>5. \E h : Eq(h)
  <2>1. PICK h : FoldsSteps(h, n, T, g, step)
    <3> HIDE DEF step, n, T
    <3>1. QED BY <1>2, <1>3, <1>4, StepsExist
  <2>2. \A U \in SUBSET (1 .. n) : U # {} => Max(U) \in 1 .. n /\ U \ {Max(U)} \in SUBSET (1 .. n)
    BY <1>2, MaxIsMember
  <2>3. Eq(h)
    <3> HIDE DEF T, n
    <3>1. h = [U \in SUBSET (1 .. n) |-> h[U]]
      BY <2>1 DEF FoldsSteps
    <3>2. ASSUME NEW U \in SUBSET (1 .. n), U # {}
          PROVE  h[U] = AddEdges(h[U \ {Max(U)}], LaterThan(q[Max(U)], g.n))
      <4>1. h[U \ {Max(U)}] \in T /\ Max(U) \in 1 .. n
        BY <2>1, <2>2, <3>2 DEF FoldsSteps
      <4>2. h[U] = step[<<h[U \ {Max(U)}], Max(U)>>]
        BY <2>1, <3>2 DEF FoldsSteps
      <4>3. QED BY <4>1, <4>2
    <3>3. h[{}] = g
      BY <2>1 DEF FoldsSteps
    <3> HIDE DEF step
    <3>4. QED BY <1>2, <3>1, <3>2, <3>3
  <2>4. QED BY <2>3
<1>6. Eq(H)
  <2> HIDE DEF Eq
  <2>1. QED BY <1>5
<1> HIDE DEF H
<1>7. Follows(H, n, T, g, step)
  <2> HIDE DEF T, n
  <2>1. H[{}] = g
    BY <1>6
  <2>2. ASSUME NEW i \in 1 .. n, H[1 .. i - 1] \in T
        PROVE  H[1 .. i] = step[<<H[1 .. i - 1], i>>]
    <3>1. /\ 1 .. i \in SUBSET (1 .. n) /\ 1 .. i # {}
          /\ Max(1 .. i) = i /\ (1 .. i) \ {i} = 1 .. i - 1
      BY <1>2, PrefixMax
    <3>2. H[1 .. i] = AddEdges(H[1 .. i - 1], LaterThan(q[i], g.n))
      BY <1>2, <1>6, <3>1
    <3>3. QED BY <2>2, <3>2
  <2> HIDE DEF step, Eq
  <2>3. QED BY <2>1, <2>2 DEF Follows
<1>8. PICK f : Trace(f, H, n, T, g, step)
  <2> HIDE DEF step, n, T, Eq
  <2>1. QED BY <1>2, <1>3, <1>4, <1>7, StepsTaken
<1>9. f \in [0 .. n -> T] /\ f[0] = g /\ f[n] = H[1 .. n]
  BY <1>8 DEF Trace
<1>10. ASSUME NEW i \in 1 .. n PROVE f[i] = AddEdges(f[i - 1], LaterThan(q[i], g.n))
  <2> HIDE DEF T, n
  <2>1. i - 1 \in 0 .. n
    BY <1>2
  <2>2. f[i - 1] \in T
    BY <2>1, <1>9
  <2>3. f[i] = step[<<f[i - 1], i>>]
    BY <1>8 DEF Trace
  <2>4. QED BY <2>2, <2>3
<1>11. CompleteTrace(f, g, W, q)
  BY <1>1, <1>2, <1>9, <1>10 DEF CompleteTrace
<1>12. QED BY <1>11


\* The pairs that the first i turns of the outer loop join.
Joined(n, i) == {e \in (0 .. n - 1) \X (0 .. n - 1) : e[1] # e[2] /\ (e[1] < i \/ e[2] < i)}

\* A turn of the outer loop joins one more vertex with all those behind it.
LEMMA OuterTurn ==
  ASSUME NEW n \in Nat, NEW i \in 0 .. n - 1
  PROVE  /\ Fresh(LaterThan(i + 1, n), Joined(n, i))
         /\ Joined(n, i) \cup BothWays(LaterThan(i + 1, n), Len(LaterThan(i + 1, n)))
              = Joined(n, i + 1)
<1> DEFINE p == LaterThan(i + 1, n)
           k == n - (i + 1)
<1>1. i + 1 \in 1 .. n /\ k \in Nat /\ i \in Int
  OBVIOUS
<1>2. Len(p) = k /\ \A j \in 1 .. k : p[j][1] = i /\ p[j][2] = i + j
  <2>1. Len(p) = k /\ \A j \in 1 .. k : p[j] = <<(i + 1) - 1, (i + 1) + j - 1>>
    BY <1>1, LaterThanPairs
  <2> HIDE DEF p
  <2>2. \A j \in 1 .. k : (i + 1) - 1 = i /\ (i + 1) + j - 1 = i + j
    OBVIOUS
  <2>3. QED BY <2>1, <2>2
<1> HIDE DEF p
<1>3. \A j \in Int : \A x, y : j <= k =>
        (<<x, y>> \in BothWays(p, j) <=>
          \E l \in 1 .. j : (x = i /\ y = i + l) \/ (y = i /\ x = i + l))
  <2> HIDE DEF k
  <2> SUFFICES ASSUME NEW j \in Int, NEW x, NEW y, j <= k
               PROVE  <<x, y>> \in BothWays(p, j) <=>
                        \E l \in 1 .. j : (x = i /\ y = i + l) \/ (y = i /\ x = i + l)
    OBVIOUS
  <2>1. \A l \in 1 .. j : p[l][1] = i /\ p[l][2] = i + l
    <3>1. \A l \in 1 .. j : l \in 1 .. k
      BY <1>1
    <3>2. QED BY <1>2, <3>1
  <2>2. <<x, y>> \in BothWays(p, j) <=>
          \E l \in 1 .. j : <<x, y>> = <<p[l][1], p[l][2]>> \/ <<x, y>> = <<p[l][2], p[l][1]>>
    BY DEF BothWays
  <2>3. ASSUME NEW l \in 1 .. j
        PROVE  <<x, y>> = <<p[l][1], p[l][2]>> \/ <<x, y>> = <<p[l][2], p[l][1]>>
                 <=> (x = i /\ y = i + l) \/ (y = i /\ x = i + l)
    BY <2>1
  <2>4. QED BY <2>2, <2>3
<1>4. ASSUME NEW j \in 1 .. k
      PROVE  /\ i # i + j
             /\ <<i, i + j>> \notin Joined(n, i) /\ <<i + j, i>> \notin Joined(n, i)
             /\ <<i, i + j>> \notin BothWays(p, j - 1) /\ <<i + j, i>> \notin BothWays(p, j - 1)
  <2>1. i # i + j /\ <<i, i + j>> \notin Joined(n, i) /\ <<i + j, i>> \notin Joined(n, i)
    BY <1>1 DEF Joined
  <2>2. j - 1 \in Int /\ j - 1 <= k
    BY <1>1
  <2>3. \A l \in 1 .. j - 1 : i + l # i + j /\ i # i + l
    BY <1>1
  <2>4. QED BY <1>3, <2>1, <2>2, <2>3
<1>5. Fresh(p, Joined(n, i))
  BY <1>2, <1>4 DEF Fresh
<1>6. Joined(n, i) \cup BothWays(p, k) = Joined(n, i + 1)
  <2>1. ASSUME NEW e \in Joined(n, i) \cup BothWays(p, k) PROVE e \in Joined(n, i + 1)
    <3>1. CASE e \in Joined(n, i)
      BY <1>1, <3>1 DEF Joined
    <3>2. CASE e \in BothWays(p, k)
      <4>1. PICK x, y : e = <<x, y>>
        BY <3>2 DEF BothWays
      <4>2. PICK l \in 1 .. k : (x = i /\ y = i + l) \/ (y = i /\ x = i + l)
        BY <1>1, <1>3, <3>2, <4>1
      <4>3. i \in 0 .. n - 1 /\ i + l \in 0 .. n - 1 /\ i # i + l /\ i < i + 1
        BY <1>1
      <4>4. QED BY <4>1, <4>2, <4>3 DEF Joined
    <3>3. QED BY <2>1, <3>1, <3>2
  <2>2. ASSUME NEW e \in Joined(n, i + 1), e \notin Joined(n, i) PROVE e \in BothWays(p, k)
    <3>1. PICK x \in 0 .. n - 1, y \in 0 .. n - 1 : e = <<x, y>>
      BY DEF Joined
    <3>2. x # y /\ (x < i + 1 \/ y < i + 1) /\ ~(x < i) /\ ~(y < i)
      BY <2>2, <3>1 DEF Joined
    <3>3. (x = i /\ y - i \in 1 .. k /\ y = i + (y - i)) \/ (y = i /\ x - i \in 1 .. k /\ x = i + (x - i))
      BY <3>2, <1>1
    <3>4. k \in Int /\ k <= k
      BY <1>1
    <3>5. \E l \in 1 .. k : (x = i /\ y = i + l) \/ (y = i /\ x = i + l)
      BY <3>3
    <3> HIDE DEF k
    <3>6. QED BY <1>3, <3>1, <3>4, <3>5
  <2>3. QED BY <2>1, <2>2
<1>7. QED BY <1>2, <1>5, <1>6 DEF p

\* The two loops join every two vertices, and list none twice.
LEMMA CompleteGraphRepresents ==
  ASSUME NEW g, g.n \in Nat, NEW W, g \in GraphsLike(g, 0 .. g.n - 1, W),
         Represents(g, 0 .. g.n - 1, {})
  PROVE  /\ CompleteGraph(g) \in GraphsLike(g, 0 .. g.n - 1, W)
         /\ Represents(CompleteGraph(g), 0 .. g.n - 1, Joined(g.n, g.n))
<1> DEFINE V == 0 .. g.n - 1
           q == [i \in 1 .. g.n |-> i]
<1>1. q \in Seq(1 .. g.n) /\ Len(q) = g.n /\ \A i \in 1 .. g.n : q[i] = i
  OBVIOUS
<1>2. PICK f : CompleteTrace(f, g, W, q)
  BY <1>1, CompleteSteps
<1> HIDE DEF q
<1>3. /\ f \in [0 .. g.n -> GraphsLike(g, V, W)] /\ f[0] = g /\ f[g.n] = CompleteGraph(g)
      /\ \A i \in 1 .. g.n : f[i] = AddEdges(f[i - 1], LaterThan(i, g.n))
  BY <1>1, <1>2 DEF CompleteTrace
<1> HIDE DEF V
<1> DEFINE Good(i) == Represents(f[i], V, Joined(g.n, i))
           I == {i \in 0 .. g.n : Good(i)}
<1>4. 0 \in I
  <2>1. Joined(g.n, 0) = {}
    BY DEF Joined
  <2>2. Good(0)
    BY <1>3, <2>1 DEF V
  <2> HIDE DEF Good
  <2>3. QED BY <2>2
<1>5. ASSUME NEW i \in 0 .. g.n - 1, i \in I PROVE i + 1 \in I
  <2>1. i + 1 \in 1 .. g.n /\ i + 1 \in 0 .. g.n /\ (i + 1) - 1 = i /\ i \in 0 .. g.n
    OBVIOUS
  <2> DEFINE p == LaterThan(i + 1, g.n)
             h == f[i]
             J == Joined(g.n, i)
  <2>2. f[i + 1] = AddEdges(h, p) /\ h \in GraphsLike(g, V, W)
    BY <1>3, <2>1
  <2>3. p \in Seq(V \X V)
    BY <2>1, LaterThanPairs DEF V
  <2>4. Fresh(p, J) /\ J \cup BothWays(p, Len(p)) = Joined(g.n, i + 1)
    BY OuterTurn
  <2>5. Represents(h, V, J)
    BY <1>5
  <2> HIDE DEF p, h, J, I
  <2>6. Represents(AddEdges(h, p), V, J \cup BothWays(p, Len(p)))
    BY <2>2, <2>3, <2>4, <2>5, AddEdgesRepresents
  <2>7. Good(i + 1)
    BY <2>2, <2>4, <2>6
  <2> HIDE DEF Good
  <2>8. QED BY <2>1, <2>7 DEF I
<1>6. \A i \in 0 .. g.n : i \in I
  <2> HIDE DEF I
  <2>1. QED BY <1>4, <1>5, UpTo
<1>7. g.n \in 0 .. g.n /\ Good(g.n)
  <2>1. g.n \in 0 .. g.n
    OBVIOUS
  <2>2. g.n \in I
    <3> HIDE DEF I
    <3>1. QED BY <2>1, <1>6
  <2> HIDE DEF Good
  <2>3. QED BY <2>1, <2>2
<1>8. QED BY <1>3, <1>7 DEF V

\* What a file has to be to be read: labels within the announced number, and weights
\* that are numbers of entries.
IsFile(file) ==
  /\ file.n \in Nat
  /\ file.nlines \in Seq((1 .. file.n) \X Nat)
  /\ file.elines \in Seq((1 .. file.n) \X (1 .. file.n))

\* g has the file's vertices, weights that are not negative, and the pairs of E.
ReadAs(g, file, E) ==
  /\ g.n = file.n
  /\ g.weight \in [0 .. file.n - 1 -> Nat]
  /\ g.adj \in [0 .. file.n - 1 -> Seq(0 .. file.n - 1)]
  /\ Represents(g, 0 .. file.n - 1, E)

\* The pairs in conflict.
FilePairs(file) == BothWays(Conflicts(file), Len(Conflicts(file)))

\* The constructor makes a graph without edges.
LEMMA NewGraphRepresents ==
  ASSUME NEW n \in Nat, NEW m
  PROVE  /\ NewGraph(n, m).n = n
         /\ NewGraph(n, m) \in GraphsLike(NewGraph(n, m), 0 .. n - 1, Nat)
         /\ Represents(NewGraph(n, m), 0 .. n - 1, {})
<1> DEFINE g == NewGraph(n, m)
<1>1. /\ g.n = n
      /\ g.weight = [i \in 0 .. n - 1 |-> ((i + 1) % 200) + 1]
      /\ g.adj = [i \in 0 .. n - 1 |-> <<>>]
      /\ g = [n |-> g.n, m |-> g.m, weight |-> g.weight, adj |-> g.adj]
  BY DEF NewGraph
<1> HIDE DEF g
<1>2. g.weight \in [0 .. n - 1 -> Nat]
  <2>1. \A i \in 0 .. n - 1 : ((i + 1) % 200) + 1 \in Nat
    OBVIOUS
  <2>2. QED BY <1>1, <2>1
<1>3. g.adj \in [0 .. n - 1 -> Seq(0 .. n - 1)]
  BY <1>1
<1>4. g \in GraphsLike(g, 0 .. n - 1, Nat)
  <2>1. [n |-> g.n, m |-> g.m, weight |-> g.weight, adj |-> g.adj] \in GraphsLike(g, 0 .. n - 1, Nat)
    BY <1>2, <1>3 DEF GraphsLike
  <2>2. QED BY <1>1, <2>1
<1>5. Represents(g, 0 .. n - 1, {})
  <2>1. NoDuplicates(<<>>) /\ ToSet(<<>>) = {}
    BY DEF NoDuplicates, ToSet
  <2>2. \A v \in 0 .. n - 1 : g.adj[v] = <<>>
    BY <1>1
  <2>3. QED BY <2>1, <2>2 DEF Represents
<1>6. QED BY <1>1, <1>4, <1>5 DEF g

\* The e lines are pairs of vertices.
LEMMA ConflictsAreVertices ==
  ASSUME NEW file, IsFile(file)
  PROVE  /\ Conflicts(file) \in Seq((0 .. file.n - 1) \X (0 .. file.n - 1))
         /\ Len(Conflicts(file)) = Len(file.elines)
         /\ \A k \in 1 .. Len(file.elines) :
              Conflicts(file)[k] = <<file.elines[k][1] - 1, file.elines[k][2] - 1>>
<1> DEFINE q == file.elines
           V == 0 .. file.n - 1
<1>1. file.n \in Nat /\ q \in Seq((1 .. file.n) \X (1 .. file.n))
  BY DEF IsFile
<1>2. /\ Len(q) \in Nat /\ DOMAIN q = 1 .. Len(q)
      /\ \A k \in 1 .. Len(q) : q[k] \in (1 .. file.n) \X (1 .. file.n)
  BY <1>1
<1>3. \A k \in 1 .. Len(q) : <<q[k][1] - 1, q[k][2] - 1>> \in V \X V
  <2> SUFFICES ASSUME NEW k \in 1 .. Len(q) PROVE <<q[k][1] - 1, q[k][2] - 1>> \in V \X V
    OBVIOUS
  <2>1. q[k][1] \in 1 .. file.n /\ q[k][2] \in 1 .. file.n
    BY <1>2
  <2>2. \A x \in 1 .. file.n : x - 1 \in V
    BY <1>1
  <2> HIDE DEF q, V
  <2>3. QED BY <2>1, <2>2
<1>4. Conflicts(file) = [k \in 1 .. Len(q) |-> <<q[k][1] - 1, q[k][2] - 1>>]
  BY <1>2 DEF Conflicts
<1> HIDE DEF q, V
<1>5. /\ Conflicts(file) \in Seq(V \X V) /\ Len(Conflicts(file)) = Len(q)
      /\ \A k \in 1 .. Len(q) : Conflicts(file)[k] = <<q[k][1] - 1, q[k][2] - 1>>
  BY <1>2, <1>3, <1>4
<1>6. QED BY <1>5 DEF q, V

\* Read complemented, a file gives the pairs that it does not list.
THEOREM ReadComplement ==
  ASSUME NEW file, IsFile(file)
  PROVE  ReadAs(ReadInstance(file, TRUE), file, Joined(file.n, file.n) \ FilePairs(file))
<1> DEFINE g == NewGraph(file.n, file.m)
           V == 0 .. file.n - 1
           c == CompleteGraph(g)
           w == SetWeights(c, file.nlines)
           p == Conflicts(file)
           r == RemoveEdges(w, p)
           J == Joined(file.n, file.n)
<1>1. file.n \in Nat /\ file.nlines \in Seq((1 .. file.n) \X Nat)
  BY DEF IsFile
<1>2. g.n = file.n /\ g \in GraphsLike(g, V, Nat) /\ Represents(g, V, {})
  BY <1>1, NewGraphRepresents
<1>3. p \in Seq(V \X V)
  BY ConflictsAreVertices
<1>4. ReadInstance(file, TRUE) = r
  BY DEF ReadInstance
<1> HIDE DEF g
<1>5. c \in GraphsLike(g, V, Nat) /\ Represents(c, V, J)
  BY <1>1, <1>2, CompleteGraphRepresents
<1>6. Labels(1 .. file.n, V)
  BY <1>1 DEF Labels
<1>7. \A v \in V : <<v, v>> \notin J
  BY DEF Joined
<1> HIDE DEF V, c, p, J
<1>8. w \in GraphsLike(g, V, Nat) /\ w.adj = c.adj
  BY <1>1, <1>5, <1>6, SetWeightsLists
<1>9. Represents(w, V, J)
  BY <1>5, <1>8 DEF Represents
<1> HIDE DEF w
<1>10. r \in GraphsLike(g, V, Nat) /\ Represents(r, V, J \ BothWays(p, Len(p)))
  BY <1>3, <1>7, <1>8, <1>9, RemoveEdgesRepresents
<1> HIDE DEF r
<1>11. r.n = file.n /\ r.weight \in [V -> Nat] /\ r.adj \in [V -> Seq(V)]
  BY <1>2, <1>10 DEF GraphsLike
<1>12. QED BY <1>4, <1>10, <1>11 DEF ReadAs, FilePairs, V, p, J

\* Read as it is, a file that lists each conflict once, and none of a vertex with
\* itself, gives the pairs that it lists.
LEMMA ReadAsListed ==
  ASSUME NEW file, IsFile(file), Fresh(Conflicts(file), {})
  PROVE  ReadAs(ReadInstance(file, FALSE), file, FilePairs(file))
<1> DEFINE g == NewGraph(file.n, file.m)
           V == 0 .. file.n - 1
           w == SetWeights(g, file.nlines)
           p == Conflicts(file)
           r == AddEdges(w, p)
<1>1. file.n \in Nat /\ file.nlines \in Seq((1 .. file.n) \X Nat)
  BY DEF IsFile
<1>2. g.n = file.n /\ g \in GraphsLike(g, V, Nat) /\ Represents(g, V, {})
  BY <1>1, NewGraphRepresents
<1>3. p \in Seq(V \X V)
  BY ConflictsAreVertices
<1>4. ReadInstance(file, FALSE) = r
  BY DEF ReadInstance
<1>5. Labels(1 .. file.n, V)
  BY <1>1 DEF Labels
<1> HIDE DEF V, g, p
<1>6. w \in GraphsLike(g, V, Nat) /\ w.adj = g.adj
  BY <1>1, <1>2, <1>5, SetWeightsLists
<1>7. Represents(w, V, {})
  BY <1>2, <1>6 DEF Represents
<1>8. Fresh(p, {})
  BY DEF p
<1> HIDE DEF w
<1> DEFINE E == {} \cup BothWays(p, Len(p))
<1>9. r \in GraphsLike(g, V, Nat) /\ Represents(r, V, E)
  BY <1>3, <1>6, <1>7, <1>8, AddEdgesRepresents
<1>10. E = BothWays(p, Len(p))
  OBVIOUS
<1> HIDE DEF r, E
<1>11. r.n = file.n /\ r.weight \in [V -> Nat] /\ r.adj \in [V -> Seq(V)]
  BY <1>2, <1>9 DEF GraphsLike
<1>12. QED BY <1>4, <1>9, <1>10, <1>11 DEF ReadAs, FilePairs, V, p

\* Edges that are all new leave the weights alone.
LEMMA AddEdgesWeights ==
  ASSUME NEW g, NEW V, NEW W, NEW start \in GraphsLike(g, V, W), NEW pairs \in Seq(V \X V),
         Represents(start, V, {}), Fresh(pairs, {})
  PROVE  AddEdges(start, pairs).weight = start.weight
<1> DEFINE none == {}
<1>1. Represents(start, V, none) /\ Fresh(pairs, none)
  OBVIOUS
<1> HIDE DEF none
<1>2. /\ AddEdges(start, pairs) \in GraphsLike(g, V, W)
      /\ AddEdges(start, pairs).weight = start.weight
      /\ Represents(AddEdges(start, pairs), V, none \cup BothWays(pairs, Len(pairs)))
  BY <1>1, AddEdgesRepresents
<1>3. QED BY <1>2

\* And each vertex with an n line of its own has the weight of that line.
LEMMA ReadWeights ==
  ASSUME NEW file, IsFile(file), Fresh(Conflicts(file), {}),
         OneLineEach(file.nlines)
  PROVE  WeightsAsListed(ReadInstance(file, FALSE), file.nlines)
<1> DEFINE g == NewGraph(file.n, file.m)
           V == 0 .. file.n - 1
           w == SetWeights(g, file.nlines)
           p == Conflicts(file)
           r == AddEdges(w, p)
           q == file.nlines
           L == 1 .. file.n
<1>1. file.n \in Nat /\ q \in Seq(L \X Nat)
  BY DEF IsFile
<1>2. g.n = file.n /\ g \in GraphsLike(g, V, Nat) /\ Represents(g, V, {})
  BY <1>1, NewGraphRepresents
<1>3. p \in Seq(V \X V)
  BY ConflictsAreVertices
<1>4. ReadInstance(file, FALSE) = r
  BY DEF ReadInstance
<1>5. Labels(L, V)
  BY <1>1 DEF Labels
<1>6. OneLineEach(q)
  OBVIOUS
<1>7. Fresh(p, {})
  BY DEF p
<1>8. w = SetWeights(g, q)
  OBVIOUS
<1> HIDE DEF V, g, p, q, L, w
<1>9. w \in GraphsLike(g, V, Nat) /\ w.adj = g.adj
  BY <1>1, <1>2, <1>5, <1>8, SetWeightsLists
<1>10. WeightsAsListed(w, q)
  BY <1>1, <1>2, <1>5, <1>6, <1>8, SetWeightsValues
<1>11. Represents(w, V, {})
  BY <1>2, <1>9 DEF Represents
<1>12. r.weight = w.weight
  BY <1>3, <1>7, <1>9, <1>11, AddEdgesWeights
<1> HIDE DEF r
<1>13. QED BY <1>4, <1>10, <1>12 DEF q, WeightsAsListed

\* Sorting the lists changes no pair.
LEMMA SortAdjReadAs ==
  ASSUME NEW g, NEW file, file.n \in Nat, NEW E, ReadAs(g, file, E)
  PROVE  ReadAs(SortAdj(g), file, E)
<1> DEFINE V == 0 .. file.n - 1
           h == SortAdj(g)
<1>1. g.n = file.n /\ g.weight \in [V -> Nat] /\ g.adj \in [V -> Seq(V)] /\ Represents(g, V, E)
  BY DEF ReadAs
<1>2. h.n = g.n /\ h.weight = g.weight /\ h.adj = [v \in V |-> Sorted(g.adj[v])]
  BY <1>1 DEF SortAdj, Vertices
<1>3. V \subseteq Int
  OBVIOUS
<1> HIDE DEF V, h
<1>4. ASSUME NEW v \in V
      PROVE  /\ h.adj[v] \in Seq(V) /\ NoDuplicates(h.adj[v])
             /\ ToSet(h.adj[v]) = {u \in V : <<v, u>> \in E}
  <2> DEFINE q == g.adj[v]
  <2>1. q \in Seq(V) /\ NoDuplicates(q) /\ ToSet(q) = {u \in V : <<v, u>> \in E}
    BY <1>1 DEF Represents
  <2>2. h.adj[v] = Sorted(q)
    BY <1>2
  <2> HIDE DEF q
  <2>3. Sorted(q) \in Seq(V) /\ ToSet(Sorted(q)) = ToSet(q) /\ NoDuplicates(Sorted(q))
    BY <1>3, <2>1, SortedElements
  <2>4. QED BY <2>1, <2>2, <2>3
<1>5. h.adj \in [V -> Seq(V)]
  <2>1. \A v \in V : Sorted(g.adj[v]) \in Seq(V)
    BY <1>2, <1>4
  <2>2. QED BY <1>2, <2>1
<1>6. Represents(h, V, E)
  BY <1>4 DEF Represents
<1>7. QED BY <1>1, <1>2, <1>5, <1>6 DEF ReadAs, V, h

\* What is read is a simple graph, if no vertex is paired with itself and every pair
\* is there both ways.
LEMMA ReadIsSimple ==
  ASSUME NEW g, NEW file, file.n \in Nat, NEW E, ReadAs(g, file, E),
         \A v : <<v, v>> \notin E, \A u, v : <<u, v>> \in E => <<v, u>> \in E
  PROVE  /\ IsSimpleGraph(g)
         /\ Vertices(g) = 0 .. file.n - 1
         /\ \A u, v \in Vertices(g) : u \in Neighbors(g, v) <=> <<v, u>> \in E
<1> DEFINE V == 0 .. file.n - 1
<1>1. g.n = file.n /\ g.weight \in [V -> Nat] /\ g.adj \in [V -> Seq(V)] /\ Represents(g, V, E)
  BY DEF ReadAs
<1>2. Vertices(g) = V
  BY <1>1 DEF Vertices
<1> HIDE DEF V
<1>3. ASSUME NEW v \in V PROVE Neighbors(g, v) = {u \in V : <<v, u>> \in E}
  <2>1. g.adj[v] \in Seq(V) /\ ToSet(g.adj[v]) = {u \in V : <<v, u>> \in E}
    BY <1>1 DEF Represents
  <2> DEFINE q == g.adj[v]
  <2>2. DOMAIN q = 1 .. Len(q) /\ Neighbors(g, v) = {q[i] : i \in 1 .. Len(q)}
    BY <2>1 DEF Neighbors
  <2> HIDE DEF q
  <2>3. Neighbors(g, v) = ToSet(q)
    BY <2>2 DEF ToSet
  <2>4. QED BY <2>1, <2>3 DEF q
<1>4. \A u, v \in V : u \in Neighbors(g, v) <=> <<v, u>> \in E
  BY <1>3
<1>5. g.weight \in [V -> Int]
  BY <1>1
<1>6. IsSimpleGraph(g)
  BY <1>1, <1>2, <1>4, <1>5 DEF IsSimpleGraph, Represents
<1>7. QED BY <1>2, <1>4, <1>6 DEF V

\* A line names both vertices.
Listed(file, u, v) ==
  \E i \in 1 .. Len(file.elines) :
     {file.elines[i][1] - 1, file.elines[i][2] - 1} = {u, v}

\* The pairs of a file are those that it lists, one way round or the other.
LEMMA PairsOfFile ==
  ASSUME NEW file, IsFile(file), NEW u, NEW v
  PROVE  /\ <<u, v>> \in FilePairs(file) <=> Listed(file, u, v)
         /\ <<u, v>> \in FilePairs(file) <=> <<v, u>> \in FilePairs(file)
<1> DEFINE p == Conflicts(file)
           a(i) == file.elines[i][1] - 1
           b(i) == file.elines[i][2] - 1
           n == Len(file.elines)
<1>1. Len(p) = n /\ \A i \in 1 .. n : p[i] = <<a(i), b(i)>>
  BY ConflictsAreVertices
<1>2. FilePairs(file) = BothWays(p, n)
  BY <1>1 DEF FilePairs
<1> HIDE DEF p, a, b, n
<1>3. \A i \in 1 .. n : p[i][1] = a(i) /\ p[i][2] = b(i)
  BY <1>1
<1>4. ASSUME NEW x, NEW y
      PROVE  <<x, y>> \in BothWays(p, n) <=> \E i \in 1 .. n : {a(i), b(i)} = {x, y}
  <2>1. <<x, y>> \in BothWays(p, n) <=>
          \E i \in 1 .. n : <<x, y>> = <<a(i), b(i)>> \/ <<x, y>> = <<b(i), a(i)>>
    BY <1>3 DEF BothWays
  <2>2. ASSUME NEW i
        PROVE  (<<x, y>> = <<a(i), b(i)>> \/ <<x, y>> = <<b(i), a(i)>>) <=> {a(i), b(i)} = {x, y}
    OBVIOUS
  <2>3. QED BY <2>1, <2>2
<1>5. <<u, v>> \in BothWays(p, n) <=> \E i \in 1 .. n : {a(i), b(i)} = {u, v}
  BY <1>4
<1>6. <<v, u>> \in BothWays(p, n) <=> \E i \in 1 .. n : {a(i), b(i)} = {v, u}
  BY <1>4
<1>7. {u, v} = {v, u}
  OBVIOUS
<1>8. <<u, v>> \in BothWays(p, n) <=> <<v, u>> \in BothWays(p, n)
  BY <1>5, <1>6, <1>7
<1>9. QED BY <1>2, <1>5, <1>8 DEF a, b, n, Listed

-----------------------------------------------------------------------------
(***************************************************************************)
(* Solutions                                                               *)
(***************************************************************************)

\* A well-formed solution: the fields have their types, the blocks fit into the
\* permutation, and the two arrays are inverse.
WellFormed(h, t) ==
  /\ t \in SolutionType(h)
  /\ t.size + t.free <= h.n
  /\ InverseArrays(h, t)

\* Everything but the permutation and the block lengths is the same.
SameCounters(t, r) == r.tight = t.tight /\ r.mu = t.mu /\ r.weight = t.weight

-----------------------------------------------------------------------------
(***************************************************************************)
(* The permutation                                                         *)
(***************************************************************************)

\* SwapTo exchanges two vertices: the arrays stay inverse, v gets place p, the
\* vertex that was at p gets the place of v, nothing else moves.
LEMMA SwapToExchanges ==
  ASSUME NEW h, h.n \in Nat, NEW t, t \in SolutionType(h), InverseArrays(h, t),
         NEW v \in Vertices(h), NEW p \in Vertices(h)
  PROVE  LET r == SwapTo(t, v, p)
             j == t.solution[p]
         IN /\ r \in SolutionType(h)
            /\ InverseArrays(h, r)
            /\ r.size = t.size /\ r.free = t.free
            /\ SameCounters(t, r)
            /\ j \in Vertices(h) /\ t.position[j] = p
            /\ r.position[v] = p
            /\ v # j => r.position[j] = t.position[v]
            /\ \A w \in Vertices(h) : w # v /\ w # j => r.position[w] = t.position[w]
<1> DEFINE r == SwapTo(t, v, p)
           j == t.solution[p]
           pv == t.position[v]
<1>1. /\ t.solution \in [Vertices(h) -> Vertices(h)]
      /\ t.position \in [Vertices(h) -> Vertices(h)]
  BY DEF SolutionType
<1>2. j \in Vertices(h) /\ pv \in Vertices(h) /\ t.position[j] = p
      /\ t.solution[pv] = v
  BY <1>1 DEF InverseArrays
<1>3. /\ r.solution = [t.solution EXCEPT ![pv] = j, ![p] = t.solution[pv]]
      /\ r.position = [t.position EXCEPT ![v] = p, ![j] = pv]
      /\ r.size = t.size /\ r.free = t.free
      /\ SameCounters(t, r)
  BY DEF SwapTo, SolutionType, SameCounters
<1>4. r \in SolutionType(h)
  BY <1>1, <1>2 DEF SwapTo, SolutionType
<1>5. /\ r.position[v] = p
      /\ v # j => r.position[j] = pv
      /\ \A w \in Vertices(h) : w # v /\ w # j => r.position[w] = t.position[w]
  <2>1. v = j => pv = p
    BY <1>2
  <2>2. QED
    BY <1>1, <1>2, <1>3, <2>1
<1>6. ASSUME NEW w \in Vertices(h) PROVE r.solution[r.position[w]] = w
  <2>1. /\ t.position[w] \in Vertices(h) /\ t.solution[t.position[w]] = w
        /\ r.solution = [t.solution EXCEPT ![pv] = j, ![p] = v]
    BY <1>1, <1>2, <1>3 DEF InverseArrays
  <2> HIDE DEF r, j, pv
  <2>2. CASE w = v
    BY <1>1, <1>5, <2>1, <2>2
  <2>3. CASE w # v /\ w = j
    <3>1. pv # p
      BY <1>2, <2>1, <2>3
    <3>2. r.position[w] = pv
      BY <1>5, <2>3
    <3>3. QED
      BY <1>1, <1>2, <2>1, <2>3, <3>1, <3>2
  <2>4. CASE w # v /\ w # j
    <3>1. r.position[w] = t.position[w] /\ t.position[w] # pv /\ t.position[w] # p
      BY <1>2, <1>5, <2>1, <2>4 DEF j
    <3>2. QED
      BY <1>1, <2>1, <3>1
  <2>5. QED
    BY <2>2, <2>3, <2>4
<1>7. ASSUME NEW q \in Vertices(h) PROVE r.position[r.solution[q]] = q
  BY <1>1, <1>2, <1>3, <1>5 DEF InverseArrays
<1>8. QED
  BY <1>2, <1>3, <1>4, <1>5, <1>6, <1>7 DEF InverseArrays

-----------------------------------------------------------------------------
(***************************************************************************)
(* The moves between blocks                                                *)
(***************************************************************************)

\* Changing the block lengths changes nothing else.
LEMMA WithBlocksResizes ==
  \A h, q, a, b : q \in SolutionType(h) /\ a \in Nat /\ b \in Nat =>
    /\ WithBlocks(q, a, b) \in SolutionType(h)
    /\ WithBlocks(q, a, b).size = a
    /\ WithBlocks(q, a, b).free = b
    /\ WithBlocks(q, a, b).position = q.position
    /\ WithBlocks(q, a, b).solution = q.solution
    /\ SameCounters(q, WithBlocks(q, a, b))
<1> SUFFICES ASSUME NEW h, NEW q, NEW a, NEW b,
                    q \in SolutionType(h), a \in Nat, b \in Nat
             PROVE  LET r == WithBlocks(q, a, b)
                    IN /\ r \in SolutionType(h) /\ r.size = a /\ r.free = b
                       /\ r.position = q.position /\ r.solution = q.solution
                       /\ SameCounters(q, r)
  OBVIOUS
<1> QED
  BY DEF SolutionType, SameCounters, WithBlocks

\* What every move does, in terms of places: v goes to p, the vertex that was at p
\* to where v was, the blocks get new lengths, nothing else changes.
Exchanged(h, t, r, v, p, a, b) ==
  /\ WellFormed(h, r) /\ SameCounters(t, r)
  /\ r.size = a /\ r.free = b /\ r.position[v] = p
  /\ \A w \in Vertices(h) \ {v} :
       /\ t.position[w] \in Int /\ t.position[w] # t.position[v]
       /\ t.position[w] = p => r.position[w] = t.position[v]
       /\ t.position[w] # p => r.position[w] = t.position[w]

\* The common part of the four moves.
LEMMA MoveExchanges ==
  \A h, t, v, p, a, b :
    /\ h.n \in Nat /\ WellFormed(h, t) /\ v \in Vertices(h) /\ p \in Vertices(h)
    /\ a \in Nat /\ b \in Nat /\ a + b <= h.n
    => Exchanged(h, t, WithBlocks(SwapTo(t, v, p), a, b), v, p, a, b)
<1> SUFFICES ASSUME NEW h, NEW t, NEW v, NEW p, NEW a, NEW b,
                    h.n \in Nat, WellFormed(h, t), v \in Vertices(h), p \in Vertices(h),
                    a \in Nat, b \in Nat, a + b <= h.n
             PROVE  Exchanged(h, t, WithBlocks(SwapTo(t, v, p), a, b), v, p, a, b)
  OBVIOUS
<1> DEFINE q == SwapTo(t, v, p)
           r == WithBlocks(q, a, b)
           j == t.solution[p]
<1>1. t \in SolutionType(h) /\ InverseArrays(h, t)
  BY DEF WellFormed
<1>2. /\ q \in SolutionType(h) /\ InverseArrays(h, q) /\ SameCounters(t, q)
      /\ j \in Vertices(h) /\ t.position[j] = p
      /\ q.position[v] = p
      /\ v # j => q.position[j] = t.position[v]
      /\ \A w \in Vertices(h) : w # v /\ w # j => q.position[w] = t.position[w]
  BY <1>1, SwapToExchanges
<1> HIDE DEF q
<1>3. /\ r \in SolutionType(h) /\ r.size = a /\ r.free = b
      /\ r.position = q.position /\ r.solution = q.solution
      /\ SameCounters(q, r)
  BY <1>2, WithBlocksResizes
<1> HIDE DEF r
<1>4. WellFormed(h, r) /\ SameCounters(t, r)
  BY <1>2, <1>3 DEF WellFormed, InverseArrays, SameCounters
<1>5. t.position \in [Vertices(h) -> Vertices(h)]
  BY <1>1 DEF SolutionType
<1>6. ASSUME NEW w \in Vertices(h) \ {v}
      PROVE  /\ t.position[w] \in Int /\ t.position[w] # t.position[v]
             /\ t.position[w] = p => r.position[w] = t.position[v]
             /\ t.position[w] # p => r.position[w] = t.position[w]
  <2>1. t.position[w] \in Int
    BY <1>5 DEF Vertices
  <2>2. t.position[w] # t.position[v]
    BY <1>1 DEF InverseArrays
  <2>3. t.position[w] = p <=> w = j
    BY <1>1, <1>2 DEF InverseArrays
  <2> HIDE DEF j
  <2>4. QED
    BY <1>2, <1>3, <2>1, <2>2, <2>3
<1>7. Exchanged(h, t, r, v, p, a, b)
  BY <1>2, <1>3, <1>4, <1>6 DEF Exchanged
<1>8. QED
  BY <1>7 DEF q, r

\* A free vertex becomes a member; all other vertices keep their block.
LEMMA FreeToSolution ==
  ASSUME NEW h, h.n \in Nat, NEW t, WellFormed(h, t),
         NEW v \in Vertices(h), IsFree(t, v)
  PROVE  LET r == MoveFreeToSolution(t, v)
         IN /\ WellFormed(h, r) /\ SameCounters(t, r)
            /\ \A w \in Vertices(h) :
                  /\ InSolution(r, w) <=> InSolution(t, w) \/ w = v
                  /\ IsFree(r, w) <=> IsFree(t, w) /\ w # v
<1> DEFINE p == t.size
           a == t.size + 1
           b == t.free - 1
           r == MoveFreeToSolution(t, v)
<1>1. /\ t.size \in Nat /\ t.free \in Nat /\ t.size + t.free <= h.n
      /\ t.position[v] \in 0 .. h.n - 1
  BY DEF WellFormed, SolutionType, Vertices
<1>2. /\ p \in Vertices(h) /\ a \in Nat /\ b \in Nat /\ a + b <= h.n
      /\ t.free > 0
  BY <1>1 DEF IsFree, InSolution, IsNonFree, Vertices
<1>3. r = WithBlocks(SwapTo(t, v, p), a, b)
  BY DEF MoveFreeToSolution
<1> HIDE DEF p, a, b, r
<1>4. Exchanged(h, t, r, v, p, a, b)
  BY <1>2, <1>3, MoveExchanges
<1>5. ASSUME NEW w \in Vertices(h)
      PROVE  /\ InSolution(r, w) <=> InSolution(t, w) \/ w = v
             /\ IsFree(r, w) <=> IsFree(t, w) /\ w # v
  BY <1>1, <1>2, <1>4 DEF Exchanged, InSolution, IsFree, IsNonFree, p, a, b
<1>6. QED
  BY <1>4, <1>5 DEF Exchanged, r

\* A free vertex leaves the free block by its end.
LEMMA FreeToNonFree ==
  ASSUME NEW h, h.n \in Nat, NEW t, WellFormed(h, t),
         NEW v \in Vertices(h), IsFree(t, v)
  PROVE  LET r == MoveFreeToNonFree(t, v)
         IN /\ WellFormed(h, r) /\ SameCounters(t, r)
            /\ \A w \in Vertices(h) :
                  /\ InSolution(r, w) <=> InSolution(t, w)
                  /\ IsFree(r, w) <=> IsFree(t, w) /\ w # v
<1> DEFINE p == t.size + t.free - 1
           a == t.size
           b == t.free - 1
           r == MoveFreeToNonFree(t, v)
<1>1. /\ t.size \in Nat /\ t.free \in Nat /\ t.size + t.free <= h.n
      /\ t.position[v] \in 0 .. h.n - 1
  BY DEF WellFormed, SolutionType, Vertices
<1>2. /\ p \in Vertices(h) /\ a \in Nat /\ b \in Nat /\ a + b <= h.n
      /\ t.free > 0
  BY <1>1 DEF IsFree, InSolution, IsNonFree, Vertices
<1>3. r = WithBlocks(SwapTo(t, v, p), a, b)
  BY DEF MoveFreeToNonFree
<1> HIDE DEF p, a, b, r
<1>4. Exchanged(h, t, r, v, p, a, b)
  BY <1>2, <1>3, MoveExchanges
<1>5. ASSUME NEW w \in Vertices(h)
      PROVE  /\ InSolution(r, w) <=> InSolution(t, w)
             /\ IsFree(r, w) <=> IsFree(t, w) /\ w # v
  BY <1>1, <1>2, <1>4 DEF Exchanged, InSolution, IsFree, IsNonFree, p, a, b
<1>6. QED
  BY <1>4, <1>5 DEF Exchanged, r

\* A member becomes a free vertex.
LEMMA SolutionToFree ==
  ASSUME NEW h, h.n \in Nat, NEW t, WellFormed(h, t),
         NEW v \in Vertices(h), InSolution(t, v)
  PROVE  LET r == MoveSolutionToFree(t, v)
         IN /\ WellFormed(h, r) /\ SameCounters(t, r)
            /\ \A w \in Vertices(h) :
                  /\ InSolution(r, w) <=> InSolution(t, w) /\ w # v
                  /\ IsFree(r, w) <=> IsFree(t, w) \/ w = v
<1> DEFINE p == t.size - 1
           a == t.size - 1
           b == t.free + 1
           r == MoveSolutionToFree(t, v)
<1>1. /\ t.size \in Nat /\ t.free \in Nat /\ t.size + t.free <= h.n
      /\ t.position[v] \in 0 .. h.n - 1
  BY DEF WellFormed, SolutionType, Vertices
<1>2. /\ p \in Vertices(h) /\ a \in Nat /\ b \in Nat /\ a + b <= h.n
      /\ t.size > 0
  BY <1>1 DEF IsFree, InSolution, IsNonFree, Vertices
<1>3. r = WithBlocks(SwapTo(t, v, p), a, b)
  BY DEF MoveSolutionToFree
<1> HIDE DEF p, a, b, r
<1>4. Exchanged(h, t, r, v, p, a, b)
  BY <1>2, <1>3, MoveExchanges
<1>5. ASSUME NEW w \in Vertices(h)
      PROVE  /\ InSolution(r, w) <=> InSolution(t, w) /\ w # v
             /\ IsFree(r, w) <=> IsFree(t, w) \/ w = v
  BY <1>1, <1>2, <1>4 DEF Exchanged, InSolution, IsFree, IsNonFree, p, a, b
<1>6. QED
  BY <1>4, <1>5 DEF Exchanged, r

\* A vertex of the third block becomes a free vertex.
LEMMA NonFreeToFree ==
  ASSUME NEW h, h.n \in Nat, NEW t, WellFormed(h, t),
         NEW v \in Vertices(h), IsNonFree(t, v)
  PROVE  LET r == MoveNonFreeToFree(t, v)
         IN /\ WellFormed(h, r) /\ SameCounters(t, r)
            /\ \A w \in Vertices(h) :
                  /\ InSolution(r, w) <=> InSolution(t, w)
                  /\ IsFree(r, w) <=> IsFree(t, w) \/ w = v
<1> DEFINE p == t.size + t.free
           a == t.size
           b == t.free + 1
           r == MoveNonFreeToFree(t, v)
<1>1. /\ t.size \in Nat /\ t.free \in Nat /\ t.size + t.free <= h.n
      /\ t.position[v] \in 0 .. h.n - 1
  BY DEF WellFormed, SolutionType, Vertices
<1>2. /\ p \in Vertices(h) /\ a \in Nat /\ b \in Nat /\ a + b <= h.n
      /\ t.size + t.free < h.n
  BY <1>1 DEF IsFree, InSolution, IsNonFree, Vertices
<1>3. r = WithBlocks(SwapTo(t, v, p), a, b)
  BY DEF MoveNonFreeToFree
<1> HIDE DEF p, a, b, r
<1>4. Exchanged(h, t, r, v, p, a, b)
  BY <1>2, <1>3, MoveExchanges
<1>5. ASSUME NEW w \in Vertices(h)
      PROVE  /\ InSolution(r, w) <=> InSolution(t, w)
             /\ IsFree(r, w) <=> IsFree(t, w) \/ w = v
  BY <1>1, <1>2, <1>4 DEF Exchanged, InSolution, IsFree, IsNonFree, p, a, b
<1>6. QED
  BY <1>4, <1>5 DEF Exchanged, r

-----------------------------------------------------------------------------
(***************************************************************************)
(* addVertex and removeVertex                                              *)
(***************************************************************************)

\* The blocks do not depend on the weights and the counters.
SameBlocks(t, r) ==
  r.position = t.position /\ r.size = t.size /\ r.free = t.free

\* The counter of u, and no other, moves by d, and what u would gain by w.
CountedBy(h, t, r, u, d, w) ==
  /\ r.weight = t.weight
  /\ \A x \in Vertices(h) :
       /\ r.tight[x] = IF x = u THEN t.tight[x] + d ELSE t.tight[x]
       /\ r.mu[x] = IF x = u THEN t.mu[x] + w ELSE t.mu[x]

\* Changing the weight changes nothing else.
LEMMA WeighKeepsBlocks ==
  \A h, t, w : WellFormed(h, t) /\ w \in Int =>
    WellFormed(h, Weigh(t, w)) /\ SameBlocks(t, Weigh(t, w))
    /\ Weigh(t, w).tight = t.tight /\ Weigh(t, w).mu = t.mu
    /\ Weigh(t, w).weight = t.weight + w
<1> SUFFICES ASSUME NEW h, NEW t, NEW w, WellFormed(h, t), w \in Int
             PROVE  LET r == Weigh(t, w)
                    IN /\ WellFormed(h, r) /\ SameBlocks(t, r) /\ r.tight = t.tight
                       /\ r.mu = t.mu /\ r.weight = t.weight + w
  OBVIOUS
<1> QED
  BY DEF WellFormed, SolutionType, InverseArrays, SameBlocks, Weigh

\* Counting one neighbour on or off moves no vertex between the blocks.
LEMMA RecountKeepsBlocks ==
  \A h, t, u, d, w :
    WellFormed(h, t) /\ u \in Vertices(h) /\ d \in Int /\ w \in Int =>
      /\ WellFormed(h, Recount(t, u, d, w)) /\ SameBlocks(t, Recount(t, u, d, w))
      /\ CountedBy(h, t, Recount(t, u, d, w), u, d, w)
<1> SUFFICES ASSUME NEW h, NEW t, NEW u \in Vertices(h), NEW d \in Int, NEW w \in Int,
                    WellFormed(h, t)
             PROVE  LET r == Recount(t, u, d, w)
                    IN WellFormed(h, r) /\ SameBlocks(t, r) /\ CountedBy(h, t, r, u, d, w)
  OBVIOUS
<1> DEFINE r == Recount(t, u, d, w)
<1>1. t \in SolutionType(h)
  BY DEF WellFormed
<1>2. r.solution = t.solution /\ SameBlocks(t, r)
      /\ r.tight = [t.tight EXCEPT ![u] = t.tight[u] + d]
      /\ r.mu = [t.mu EXCEPT ![u] = t.mu[u] + w] /\ r.weight = t.weight
  BY <1>1 DEF SolutionType, SameBlocks, Recount
<1>3. r \in SolutionType(h)
  <2> DEFINE tight == [t.tight EXCEPT ![u] = t.tight[u] + d]
             mu == [t.mu EXCEPT ![u] = t.mu[u] + w]
  <2>1. tight \in [Vertices(h) -> Int] /\ mu \in [Vertices(h) -> Int]
    BY <1>1 DEF SolutionType
  <2>2. r = [t EXCEPT !.tight = tight, !.mu = mu]
    BY <1>1 DEF SolutionType, Recount
  <2> HIDE DEF tight, mu, r
  <2>3. QED
    BY <1>1, <2>1, <2>2 DEF SolutionType
<1>4. CountedBy(h, t, r, u, d, w)
  BY <1>1, <1>2 DEF SolutionType, CountedBy
<1>5. QED
  BY <1>1, <1>2, <1>3, <1>4 DEF WellFormed, InverseArrays, SameBlocks

\* The start of addVertex: v enters the solution, no counter changes yet.
LEMMA AddHeadEffect ==
  ASSUME NEW h, h.n \in Nat, h.weight \in [Vertices(h) -> Int],
         NEW t, WellFormed(h, t), NEW v \in Vertices(h), IsFree(t, v)
  PROVE  LET r == AddHead(h, t, v)
         IN /\ WellFormed(h, r) /\ r.tight = t.tight
            /\ r.mu = t.mu /\ r.weight = t.weight + h.weight[v]
            /\ \A w \in Vertices(h) : /\ InSolution(r, w) <=> InSolution(t, w) \/ w = v
                                      /\ IsFree(r, w) <=> IsFree(t, w) /\ w # v
<1> DEFINE q == Weigh(t, h.weight[v])
<1>1. h.weight[v] \in Int
  OBVIOUS
<1>2. WellFormed(h, q) /\ SameBlocks(t, q) /\ q.tight = t.tight
      /\ q.mu = t.mu /\ q.weight = t.weight + h.weight[v]
  BY <1>1, WeighKeepsBlocks
<1>3. \A w : (InSolution(q, w) <=> InSolution(t, w)) /\ (IsFree(q, w) <=> IsFree(t, w))
  BY <1>2 DEF SameBlocks, InSolution, IsFree
<1>4. AddHead(h, t, v) = MoveFreeToSolution(q, v)
  BY DEF AddHead
<1> HIDE DEF q
<1>5. QED
  BY <1>2, <1>3, <1>4, FreeToSolution DEF SameCounters

\* The start of removeVertex: v leaves the solution and is free.
LEMMA RemoveHeadEffect ==
  ASSUME NEW h, h.n \in Nat, h.weight \in [Vertices(h) -> Int],
         NEW t, WellFormed(h, t), NEW v \in Vertices(h), InSolution(t, v)
  PROVE  LET r == RemoveHead(h, t, v)
         IN /\ WellFormed(h, r) /\ r.tight = t.tight
            /\ r.mu = t.mu /\ r.weight = t.weight - h.weight[v]
            /\ \A w \in Vertices(h) : /\ InSolution(r, w) <=> InSolution(t, w) /\ w # v
                                      /\ IsFree(r, w) <=> IsFree(t, w) \/ w = v
<1> DEFINE q == Weigh(t, -h.weight[v])
<1>1. -h.weight[v] \in Int
  OBVIOUS
<1>2. WellFormed(h, q) /\ SameBlocks(t, q) /\ q.tight = t.tight
      /\ q.mu = t.mu /\ q.weight = t.weight - h.weight[v]
  <2>1. t.weight \in Int
    BY DEF WellFormed, SolutionType
  <2>2. t.weight + (-h.weight[v]) = t.weight - h.weight[v]
    BY <2>1
  <2>3. WellFormed(h, q) /\ SameBlocks(t, q) /\ q.tight = t.tight
        /\ q.mu = t.mu /\ q.weight = t.weight + (-h.weight[v])
    BY <1>1, WeighKeepsBlocks
  <2>4. QED
    BY <2>2, <2>3
<1>3. \A w : (InSolution(q, w) <=> InSolution(t, w)) /\ (IsFree(q, w) <=> IsFree(t, w))
  BY <1>2 DEF SameBlocks, InSolution, IsFree
<1>4. RemoveHead(h, t, v) = MoveSolutionToFree(q, v)
  BY DEF RemoveHead
<1> HIDE DEF q
<1>5. QED
  BY <1>2, <1>3, <1>4, SolutionToFree DEF SameCounters

\* One turn of the loop of addVertex: u is counted and is no longer free.
LEMMA AddNeighborEffect ==
  ASSUME NEW h, h.n \in Nat, h.weight \in [Vertices(h) -> Int],
         NEW t, WellFormed(h, t), NEW v \in Vertices(h), NEW u \in Vertices(h)
  PROVE  LET r == AddNeighborOf(h, t, v, u)
         IN /\ WellFormed(h, r) /\ CountedBy(h, t, r, u, 1, -h.weight[v])
            /\ \A w \in Vertices(h) : /\ InSolution(r, w) <=> InSolution(t, w)
                                      /\ IsFree(r, w) <=> IsFree(t, w) /\ w # u
<1> DEFINE d == 1
           w0 == -h.weight[v]
           q == Recount(t, u, d, w0)
<1>1. d \in Int /\ w0 \in Int
  OBVIOUS
<1>2. AddNeighborOf(h, t, v, u) = IF IsFree(q, u) THEN MoveFreeToNonFree(q, u) ELSE q
  BY DEF AddNeighborOf
<1> HIDE DEF d, w0
<1>3. WellFormed(h, q) /\ SameBlocks(t, q) /\ CountedBy(h, t, q, u, d, w0)
  BY <1>1, RecountKeepsBlocks, Zenon
<1> HIDE DEF q
<1>4. \A w : /\ InSolution(q, w) <=> InSolution(t, w)
             /\ IsFree(q, w) <=> IsFree(t, w)
  BY <1>3 DEF SameBlocks, InSolution, IsFree
<1>5. CASE IsFree(q, u)
  <2> DEFINE r == MoveFreeToNonFree(q, u)
  <2>1. /\ WellFormed(h, r) /\ SameCounters(q, r)
        /\ \A w \in Vertices(h) : /\ InSolution(r, w) <=> InSolution(q, w)
                                  /\ IsFree(r, w) <=> IsFree(q, w) /\ w # u
    BY <1>3, <1>5, FreeToNonFree
  <2>2. AddNeighborOf(h, t, v, u) = r
    BY <1>2, <1>5
  <2> HIDE DEF r
  <2>3. CountedBy(h, t, r, u, 1, -h.weight[v])
    BY <1>3, <2>1 DEF SameCounters, CountedBy, d, w0
  <2>4. QED
    BY <1>4, <2>1, <2>2, <2>3
<1>6. CASE ~IsFree(q, u)
  <2>1. CountedBy(h, t, q, u, 1, -h.weight[v])
    BY <1>3 DEF d, w0
  <2>2. AddNeighborOf(h, t, v, u) = q
    BY <1>2, <1>6
  <2>3. QED
    BY <1>3, <1>4, <1>6, <2>1, <2>2
<1>7. QED
  BY <1>5, <1>6

\* One turn of the loop of removeVertex: u is counted off, and is free if that
\* was its last neighbour.
LEMMA RemoveNeighborEffect ==
  ASSUME NEW h, h.n \in Nat, h.weight \in [Vertices(h) -> Int],
         NEW t, WellFormed(h, t), NEW v \in Vertices(h), NEW u \in Vertices(h),
         t.tight[u] = 1 => IsNonFree(t, u)
  PROVE  LET r == RemoveNeighborOf(h, t, v, u)
         IN /\ WellFormed(h, r) /\ CountedBy(h, t, r, u, -1, h.weight[v])
            /\ \A w \in Vertices(h) :
                  /\ InSolution(r, w) <=> InSolution(t, w)
                  /\ IsFree(r, w) <=> IsFree(t, w) \/ (w = u /\ t.tight[u] = 1)
<1> DEFINE d == -1
           w0 == h.weight[v]
           q == Recount(t, u, d, w0)
<1>1. d \in Int /\ w0 \in Int
  OBVIOUS
<1>2. RemoveNeighborOf(h, t, v, u) = IF q.tight[u] = 0 THEN MoveNonFreeToFree(q, u) ELSE q
  BY DEF RemoveNeighborOf
<1> HIDE DEF d, w0
<1>3. WellFormed(h, q) /\ SameBlocks(t, q) /\ CountedBy(h, t, q, u, d, w0)
  BY <1>1, RecountKeepsBlocks, Zenon
<1> HIDE DEF q
<1>4. \A w : /\ InSolution(q, w) <=> InSolution(t, w)
             /\ IsFree(q, w) <=> IsFree(t, w)
             /\ IsNonFree(q, w) <=> IsNonFree(t, w)
  BY <1>3 DEF SameBlocks, InSolution, IsFree, IsNonFree
<1>5. q.tight[u] = 0 <=> t.tight[u] = 1
  <2>1. t.tight[u] \in Int
    BY DEF WellFormed, SolutionType
  <2>2. QED
    BY <1>3, <2>1 DEF CountedBy, d, w0
<1>6. CASE t.tight[u] = 1
  <2> DEFINE r == MoveNonFreeToFree(q, u)
  <2>1. IsNonFree(q, u)
    BY <1>4, <1>6
  <2>2. /\ WellFormed(h, r) /\ SameCounters(q, r)
        /\ \A w \in Vertices(h) : /\ InSolution(r, w) <=> InSolution(q, w)
                                  /\ IsFree(r, w) <=> IsFree(q, w) \/ w = u
    BY <1>3, <2>1, NonFreeToFree
  <2>3. RemoveNeighborOf(h, t, v, u) = r
    BY <1>2, <1>5, <1>6
  <2> HIDE DEF r
  <2>4. CountedBy(h, t, r, u, -1, h.weight[v])
    BY <1>3, <2>2 DEF SameCounters, CountedBy, d, w0
  <2>5. QED
    BY <1>4, <1>6, <2>2, <2>3, <2>4
<1>7. CASE t.tight[u] # 1
  <2>1. CountedBy(h, t, q, u, -1, h.weight[v])
    BY <1>3 DEF d, w0
  <2>2. RemoveNeighborOf(h, t, v, u) = q
    BY <1>2, <1>5, <1>7
  <2>3. QED
    BY <1>3, <1>4, <1>7, <2>1, <2>2
<1>8. QED
  BY <1>6, <1>7

-----------------------------------------------------------------------------
(***************************************************************************)
(* Neighbours and how many of them are members                             *)
(***************************************************************************)

\* The neighbours of a vertex are finitely many vertices, and the relation is
\* symmetric and irreflexive.
LEMMA NeighborFacts ==
  ASSUME NEW h, IsSimpleGraph(h)
  PROVE  /\ h.n \in Nat /\ h.weight \in [Vertices(h) -> Int]
         /\ Vertices(h) \subseteq Nat /\ IsFiniteSet(Vertices(h))
         /\ \A v \in Vertices(h) :
              /\ Neighbors(h, v) \subseteq Vertices(h)
              /\ IsFiniteSet(Neighbors(h, v))
              /\ v \notin Neighbors(h, v)
              /\ \A u \in Vertices(h) : u \in Neighbors(h, v) <=> v \in Neighbors(h, u)
<1>1. h.n \in Nat /\ h.weight \in [Vertices(h) -> Int]
      /\ h.adj \in [Vertices(h) -> Seq(Vertices(h))]
  BY DEF IsSimpleGraph
<1>2. Vertices(h) \subseteq Nat /\ IsFiniteSet(Vertices(h))
  <2>1. 0 \in Int /\ h.n - 1 \in Int
    BY <1>1
  <2>2. IsFiniteSet(0 .. h.n - 1)
    BY <2>1, FS_Interval
  <2>3. QED BY <1>1, <2>2 DEF Vertices
<1>3. ASSUME NEW v \in Vertices(h) PROVE Neighbors(h, v) \subseteq Vertices(h)
  <2>1. h.adj[v] \in Seq(Vertices(h))
    BY <1>1
  <2>2. QED
    BY <2>1 DEF Neighbors
<1>4. ASSUME NEW v \in Vertices(h) PROVE IsFiniteSet(Neighbors(h, v))
  BY <1>2, <1>3, FS_Subset
<1>5. ASSUME NEW v \in Vertices(h)
      PROVE  /\ v \notin Neighbors(h, v)
             /\ \A u \in Vertices(h) : u \in Neighbors(h, v) <=> v \in Neighbors(h, u)
  BY DEF IsSimpleGraph
<1>6. QED
  BY <1>1, <1>2, <1>3, <1>4, <1>5

\* The neighbours of v that a loop at place i has still to reach: all of them at
\* first, none at the end, and at each turn the one whose turn it is drops out.
StillToCome(h, v, i) == {h.adj[v][k] : k \in i .. Len(h.adj[v])}

\* All neighbours are to come at the first turn, none after the last, and the
\* lists being free of repetitions each turn takes exactly one of them.
LEMMA NeighborTurns ==
  ASSUME NEW h, IsSimpleGraph(h), NEW v \in Vertices(h)
  PROVE  /\ Len(h.adj[v]) \in Nat
         /\ StillToCome(h, v, 1) = Neighbors(h, v)
         /\ StillToCome(h, v, Len(h.adj[v]) + 1) = {}
         /\ \A i \in 1 .. Len(h.adj[v]) :
              /\ h.adj[v][i] \in Neighbors(h, v)
              /\ h.adj[v][i] \in StillToCome(h, v, i)
              /\ StillToCome(h, v, i + 1) = StillToCome(h, v, i) \ {h.adj[v][i]}
<1> DEFINE q == h.adj[v]
           From(i) == {q[k] : k \in i .. Len(q)}
<1>1. q \in Seq(Vertices(h)) /\ NoDuplicates(q)
  BY DEF IsSimpleGraph
<1>2. Len(q) \in Nat
  BY <1>1
<1>3. From(1) = Neighbors(h, v)
  BY DEF Neighbors
<1>4. From(Len(q) + 1) = {}
  BY <1>2
<1>5. ASSUME NEW i \in 1 .. Len(q)
      PROVE  q[i] \in Neighbors(h, v) /\ q[i] \in From(i) /\ From(i + 1) = From(i) \ {q[i]}
  <2>1. q[i] \in Neighbors(h, v)
    BY DEF Neighbors
  <2>2. q[i] \in From(i)
    BY <1>2
  <2>3. ASSUME NEW x \in From(i + 1) PROVE x \in From(i) /\ x # q[i]
    <3>1. PICK k \in i + 1 .. Len(q) : x = q[k]
      OBVIOUS
    <3>2. k \in i .. Len(q) /\ k \in 1 .. Len(q) /\ k # i
      BY <1>2
    <3>3. QED
      BY <1>1, <3>1, <3>2 DEF NoDuplicates
  <2>4. ASSUME NEW x \in From(i), x # q[i] PROVE x \in From(i + 1)
    <3>1. PICK k \in i .. Len(q) : x = q[k]
      OBVIOUS
    <3>2. k \in i + 1 .. Len(q)
      BY <1>2, <2>4, <3>1
    <3>3. QED
      BY <3>1, <3>2
  <2> HIDE DEF From, q
  <2>5. QED
    BY <2>1, <2>2, <2>3, <2>4
<1>6. QED
  BY <1>2, <1>3, <1>4, <1>5 DEF StillToCome

\* A set that takes in one more element meets S in one more, if that is in S.
LEMMA OneMore ==
  ASSUME NEW S, IsFiniteSet(S), NEW T, NEW x, x \notin T
  PROVE  /\ Cardinality(S \cap T) \in Nat
         /\ Cardinality(S \cap (T \cup {x})) =
              Cardinality(S \cap T) + (IF x \in S THEN 1 ELSE 0)
<1>1. IsFiniteSet(S \cap T)
  BY FS_Intersection
<1>2. Cardinality(S \cap T) \in Nat
  BY <1>1, FS_CardinalityType
<1>3. CASE x \in S
  <2>1. S \cap (T \cup {x}) = (S \cap T) \cup {x} /\ x \notin S \cap T
    BY <1>3
  <2>2. Cardinality((S \cap T) \cup {x}) = Cardinality(S \cap T) + 1
    BY <1>1, <2>1, FS_AddElement
  <2>3. QED
    BY <1>2, <1>3, <2>1, <2>2
<1>4. CASE x \notin S
  <2>1. S \cap (T \cup {x}) = S \cap T
    BY <1>4
  <2>2. Cardinality(S \cap (T \cup {x})) = Cardinality(S \cap T)
    BY <2>1, Zenon
  <2>3. QED
    BY <1>2, <1>4, <2>2
<1>5. QED
  BY <1>3, <1>4

\* The counter of a vertex is zero exactly when it meets no member.
LEMMA NoneCounted ==
  ASSUME NEW S, IsFiniteSet(S), NEW T
  PROVE  Cardinality(S \cap T) \in Nat /\ (Cardinality(S \cap T) = 0 <=> S \cap T = {})
<1>1. IsFiniteSet(S \cap T)
  BY FS_Intersection
<1>2. QED
  BY <1>1, FS_CardinalityType, FS_EmptySet


\* What members count for: how many of them are beside u, and what they weigh.
Count(h, I, u) == Cardinality(Neighbors(h, u) \cap I)
Load(h, I, u) == SumOf(h.weight, Neighbors(h, u) \cap I)

\* What one member more, x, makes for u, beside it or not.
OneMoreFor(h, I, J, x, u) ==
  /\ Count(h, I, u) \in Nat /\ Load(h, I, u) \in Int
  /\ Count(h, J, u) = Count(h, I, u) + (IF x \in Neighbors(h, u) THEN 1 ELSE 0)
  /\ Load(h, J, u) = Load(h, I, u) + (IF x \in Neighbors(h, u) THEN h.weight[x] ELSE 0)

\* It counts one, and weighs its weight, for its neighbours and no other vertex.
LEMMA OneMember ==
  ASSUME NEW h, IsSimpleGraph(h), NEW I, I \subseteq Vertices(h),
         NEW x \in Vertices(h), x \notin I, NEW J, J = I \cup {x}, NEW u \in Vertices(h)
  PROVE  OneMoreFor(h, I, J, x, u)
<1> DEFINE N == Neighbors(h, u)
           S == N \cap I
<1>1. /\ h.weight \in [Vertices(h) -> Int] /\ IsFiniteSet(Vertices(h))
      /\ N \subseteq Vertices(h) /\ IsFiniteSet(N)
  BY NeighborFacts
<1>2. /\ Cardinality(N \cap I) \in Nat
      /\ Cardinality(N \cap (I \cup {x})) = Cardinality(N \cap I) + (IF x \in N THEN 1 ELSE 0)
  <2> HIDE DEF N
  <2>1. QED BY <1>1, OneMore
<1>3. /\ \A A \in SUBSET Vertices(h) : SumOf(h.weight, A) \in Int
      /\ \A A \in SUBSET Vertices(h) : \A y \in Vertices(h) \ A :
           SumOf(h.weight, A \cup {y}) = h.weight[y] + SumOf(h.weight, A)
  <2> DEFINE V == Vertices(h)
             w == h.weight
  <2>1. IsFiniteSet(V) /\ w \in [V -> Int]
    BY <1>1
  <2> HIDE DEF V, w
  <2>2. /\ \A A \in SUBSET V : SumOf(w, A) \in Int
        /\ \A A \in SUBSET V : \A y \in V \ A : SumOf(w, A \cup {y}) = w[y] + SumOf(w, A)
    BY <2>1, SumOfSet
  <2>3. QED BY <2>2 DEF V, w
<1>4. S \in SUBSET Vertices(h) /\ SumOf(h.weight, S) \in Int /\ x \in Vertices(h) \ S
      /\ h.weight[x] \in Int
  BY <1>1, <1>3
<1>5. CASE x \in N
  <2>1. N \cap (I \cup {x}) = S \cup {x}
    BY <1>5
  <2>2. SumOf(h.weight, S \cup {x}) = h.weight[x] + SumOf(h.weight, S)
    BY <1>3, <1>4
  <2>3. SumOf(h.weight, N \cap (I \cup {x})) = SumOf(h.weight, S) + h.weight[x]
    <3>1. SumOf(h.weight, N \cap (I \cup {x})) = SumOf(h.weight, S \cup {x})
      BY <2>1, Zenon
    <3> HIDE DEF S, N
    <3>2. QED BY <3>1, <2>2, <1>4
  <2>4. QED BY <1>2, <1>4, <1>5, <2>3 DEF Count, Load, OneMoreFor
<1>6. CASE x \notin N
  <2>1. N \cap (I \cup {x}) = S
    BY <1>6
  <2>2. SumOf(h.weight, N \cap (I \cup {x})) = SumOf(h.weight, S)
    BY <2>1, Zenon
  <2>3. QED BY <1>2, <1>4, <1>6, <2>2 DEF Count, Load, OneMoreFor
<1>7. QED BY <1>5, <1>6

\* Counts and loads are numbers, and a vertex counts none when no member is beside it.
LEMMA CountFacts ==
  ASSUME NEW h, IsSimpleGraph(h), NEW I, I \subseteq Vertices(h)
  PROVE  \A u \in Vertices(h) :
           /\ Count(h, I, u) \in Nat /\ Load(h, I, u) \in Int
           /\ Count(h, I, u) = 0 <=> Neighbors(h, u) \cap I = {}
<1> SUFFICES ASSUME NEW u \in Vertices(h)
             PROVE  /\ Count(h, I, u) \in Nat /\ Load(h, I, u) \in Int
                    /\ Count(h, I, u) = 0 <=> Neighbors(h, u) \cap I = {}
  OBVIOUS
<1>1. /\ Neighbors(h, u) \subseteq Vertices(h) /\ IsFiniteSet(Neighbors(h, u))
      /\ h.weight \in [Vertices(h) -> Int] /\ IsFiniteSet(Vertices(h))
  BY NeighborFacts
<1>2. /\ Count(h, I, u) \in Nat
      /\ Count(h, I, u) = 0 <=> Neighbors(h, u) \cap I = {}
  BY <1>1, NoneCounted DEF Count
<1>3. Load(h, I, u) \in Int
  <2> DEFINE V == Vertices(h)
             w == h.weight
             S == Neighbors(h, u) \cap I
  <2>1. IsFiniteSet(V) /\ w \in [V -> Int] /\ S \in SUBSET V
    BY <1>1
  <2> HIDE DEF V, w, S
  <2>2. SumOf(w, S) \in Int
    BY <2>1, SumOfSet
  <2>3. QED BY <2>2 DEF w, S, Load
<1>4. QED BY <1>2, <1>3

-----------------------------------------------------------------------------
(***************************************************************************)
(* What the fields add up to                                               *)
(***************************************************************************)

\* Every field is what the members make it, except that the vertices in P are
\* counted d, and weighed w, too much.
Accounted(h, t, P, d, w) ==
  /\ WellFormed(h, t)
  /\ Independent(h, ISet(t))
  /\ \A u \in Vertices(h) : ~InSolution(t, u) => (IsFree(t, u) <=> t.tight[u] = 0)
  /\ t.weight = SumOf(h.weight, ISet(t))
  /\ \A u \in Vertices(h) :
       /\ t.tight[u] = Count(h, ISet(t), u) + (IF u \in P THEN d ELSE 0)
       /\ t.mu[u] = h.weight[u] - Load(h, ISet(t), u) - (IF u \in P THEN w ELSE 0)

\* Between calls; while v is added or removed and its neighbours in P are still
\* to be reached.  v has entered or left already.
Settled(h, t) == Accounted(h, t, {}, 0, 0)

AddingTo(h, t, P, v) ==
  /\ Accounted(h, t, P, -1, -h.weight[v])
  /\ P \subseteq Neighbors(h, v) /\ v \in ISet(t)

RemovingFrom(h, t, P, v) ==
  /\ Accounted(h, t, P, 1, h.weight[v])
  /\ P \subseteq Neighbors(h, v) /\ v \notin ISet(t)
  /\ Neighbors(h, v) \cap ISet(t) = {}

\* A well-formed solution has the type, its members are a set of vertices, and
\* every vertex is in one of the three blocks.
LEMMA BlockFacts ==
  ASSUME NEW h, IsSimpleGraph(h), NEW t, WellFormed(h, t)
  PROVE  /\ t \in SolutionType(h) /\ t.size + t.free <= h.n /\ InverseArrays(h, t)
         /\ ISet(t) = {v \in Vertices(h) : InSolution(t, v)}
         /\ ISet(t) \subseteq Vertices(h)
         /\ \A v \in Vertices(h) : /\ v \in ISet(t) <=> InSolution(t, v)
                                   /\ t.tight[v] \in Int /\ t.mu[v] \in Int
                                   /\ ~(InSolution(t, v) /\ IsFree(t, v))
                                   /\ InSolution(t, v) \/ IsFree(t, v) \/ IsNonFree(t, v)
                                   /\ IsNonFree(t, v) => ~InSolution(t, v) /\ ~IsFree(t, v)
<1>1. t \in SolutionType(h) /\ t.size + t.free <= h.n /\ InverseArrays(h, t)
  BY DEF WellFormed
<1>2. /\ t.position \in [Vertices(h) -> Vertices(h)] /\ t.tight \in [Vertices(h) -> Int]
      /\ t.mu \in [Vertices(h) -> Int] /\ t.size \in Nat /\ t.free \in Nat
  BY <1>1 DEF SolutionType
<1>3. Vertices(h) \subseteq Nat
  BY NeighborFacts
<1>4. ISet(t) = {v \in Vertices(h) : InSolution(t, v)}
  BY <1>2 DEF ISet
<1>5. ASSUME NEW v \in Vertices(h)
      PROVE  /\ ~(InSolution(t, v) /\ IsFree(t, v))
             /\ InSolution(t, v) \/ IsFree(t, v) \/ IsNonFree(t, v)
             /\ IsNonFree(t, v) => ~InSolution(t, v) /\ ~IsFree(t, v)
  <2>1. t.position[v] \in Nat
    BY <1>2, <1>3
  <2>2. QED
    BY <1>2, <2>1 DEF InSolution, IsFree, IsNonFree
<1>6. QED
  BY <1>1, <1>2, <1>4, <1>5

\* A new solution has no member, and everything is free.
LEMMA NewSettled ==
  ASSUME NEW h, IsSimpleGraph(h)
  PROVE  /\ Settled(h, NewSolution(h)) /\ ISet(NewSolution(h)) = {}
         /\ NewSolution(h).size = 0 /\ NewSolution(h).free = h.n
<1> DEFINE t == NewSolution(h)
<1>1. /\ h.n \in Nat /\ h.weight \in [Vertices(h) -> Int] /\ Vertices(h) \subseteq Nat
  BY NeighborFacts
<1>2. /\ t \in SolutionType(h) /\ t.size = 0 /\ t.free = h.n
      /\ t.tight = [i \in Vertices(h) |-> 0] /\ InverseArrays(h, t)
      /\ t.mu = [i \in Vertices(h) |-> h.weight[i]] /\ t.weight = 0
      /\ t.position = [i \in Vertices(h) |-> i]
  BY <1>1 DEF NewSolution, SolutionType, InverseArrays
<1> HIDE DEF t
<1>3. WellFormed(h, t)
  BY <1>1, <1>2 DEF WellFormed
<1>4. \A v \in Vertices(h) : IsFree(t, v) /\ ~InSolution(t, v)
  BY <1>1, <1>2 DEF IsFree, InSolution, Vertices
<1>5. ISet(t) = {}
  BY <1>2, <1>4 DEF ISet
<1>6. SumOf(h.weight, {}) = 0
  <2> DEFINE V == Vertices(h)
             w == h.weight
  <2>2. IsFiniteSet(V) /\ w \in [V -> Int]
    BY NeighborFacts
  <2> HIDE DEF V, w
  <2>3. SumOf(w, {}) = 0
    BY <2>2, SumOfSet
  <2>4. QED BY <2>3 DEF w
<1>7. ASSUME NEW u \in Vertices(h)
      PROVE  Count(h, ISet(t), u) = 0 /\ Load(h, ISet(t), u) = 0
  <2>1. Neighbors(h, u) \cap ISet(t) = {}
    BY <1>5
  <2>2. Count(h, ISet(t), u) = 0
    BY <1>5, <2>1, CountFacts
  <2>3. Load(h, ISet(t), u) = SumOf(h.weight, {})
    BY <2>1, Zenon DEF Load
  <2>4. QED BY <1>6, <2>2, <2>3
<1>8. t.weight = SumOf(h.weight, ISet(t))
  <2>1. SumOf(h.weight, ISet(t)) = SumOf(h.weight, {})
    BY <1>5, Zenon
  <2>2. QED BY <2>1, <1>2, <1>6
<1>9. ASSUME NEW u \in Vertices(h)
      PROVE  /\ t.tight[u] = Count(h, ISet(t), u) + 0
             /\ t.mu[u] = h.weight[u] - Load(h, ISet(t), u) - 0
  BY <1>1, <1>2, <1>7
<1>10. Settled(h, t)
  BY <1>2, <1>3, <1>4, <1>5, <1>8, <1>9 DEF Settled, Accounted, Independent
<1>11. QED BY <1>2, <1>5, <1>10 DEF t

\* addVertex begins: v had no neighbour among the members, and from now on all its
\* neighbours are owed one.
LEMMA AddBegins ==
  ASSUME NEW h, IsSimpleGraph(h), NEW t, Settled(h, t), NEW v \in Vertices(h), IsFree(t, v)
  PROVE  LET r == AddHead(h, t, v)
         IN /\ AddingTo(h, r, Neighbors(h, v), v)
            /\ ISet(r) = ISet(t) \cup {v} /\ v \notin ISet(t)
            /\ r.weight = t.weight + h.weight[v]
<1> DEFINE r == AddHead(h, t, v)
           I == ISet(t)
<1>1. WellFormed(h, t)
  BY DEF Settled, Accounted
<1>2. /\ h.n \in Nat /\ h.weight \in [Vertices(h) -> Int]
      /\ \A u \in Vertices(h) : u \in Neighbors(h, v) <=> v \in Neighbors(h, u)
      /\ Neighbors(h, v) \subseteq Vertices(h) /\ v \notin Neighbors(h, v)
  BY NeighborFacts
<1>3. /\ WellFormed(h, r) /\ r.tight = t.tight
      /\ r.mu = t.mu /\ r.weight = t.weight + h.weight[v]
      /\ \A w \in Vertices(h) : /\ InSolution(r, w) <=> InSolution(t, w) \/ w = v
                                /\ IsFree(r, w) <=> IsFree(t, w) /\ w # v
  BY <1>1, <1>2, AddHeadEffect
<1> HIDE DEF r
<1>4. I \subseteq Vertices(h) /\ v \notin I /\ ISet(r) = I \cup {v}
  <2>1. /\ I = {w \in Vertices(h) : InSolution(t, w)}
        /\ ~InSolution(t, v)
    BY <1>1, BlockFacts
  <2>2. ISet(r) = {w \in Vertices(h) : InSolution(r, w)}
    BY <1>3, BlockFacts
  <2>3. QED
    BY <1>3, <2>1, <2>2
<1>5. /\ Independent(h, I) /\ t.weight = SumOf(h.weight, I)
      /\ \A u \in Vertices(h) :
           /\ ~InSolution(t, u) => (IsFree(t, u) <=> t.tight[u] = 0)
           /\ t.tight[u] = Count(h, I, u) + 0 /\ t.mu[u] = h.weight[u] - Load(h, I, u) - 0
  BY DEF Settled, Accounted
<1> HIDE DEF I
<1>6. ASSUME NEW u \in Vertices(h)
      PROVE  /\ r.tight[u] = Count(h, ISet(r), u) + (IF u \in Neighbors(h, v) THEN -1 ELSE 0)
             /\ r.mu[u] = h.weight[u] - Load(h, ISet(r), u)
                            - (IF u \in Neighbors(h, v) THEN -h.weight[v] ELSE 0)
  <2> DEFINE c == Count(h, I, u)
             l == Load(h, I, u)
             c2 == Count(h, ISet(r), u)
             l2 == Load(h, ISet(r), u)
  <2>1. /\ c \in Nat /\ l \in Int
        /\ c2 = c + (IF v \in Neighbors(h, u) THEN 1 ELSE 0)
        /\ l2 = l + (IF v \in Neighbors(h, u) THEN h.weight[v] ELSE 0)
    <3>1. OneMoreFor(h, I, ISet(r), v, u)
      BY <1>4, OneMember
    <3>2. QED
      BY <3>1 DEF OneMoreFor
  <2>2. h.weight[v] \in Int /\ h.weight[u] \in Int
    BY <1>2
  <2>3. u \in Neighbors(h, v) <=> v \in Neighbors(h, u)
    BY <1>2
  <2>4. r.tight[u] = c /\ r.mu[u] = h.weight[u] - l
    BY <1>3, <1>5, <2>1, <2>2
  <2> HIDE DEF c, l, c2, l2
  <2>5. QED
    BY <2>1, <2>2, <2>3, <2>4 DEF c2, l2
<1>7. Neighbors(h, v) \cap I = {}
  <2>1. t.tight[v] = 0
    <3>1. ~InSolution(t, v)
      BY <1>1, BlockFacts
    <3>2. QED
      BY <1>5, <3>1
  <2>2. Count(h, I, v) \in Nat /\ (Count(h, I, v) = 0 <=> Neighbors(h, v) \cap I = {})
    BY <1>4, CountFacts
  <2>3. QED
    BY <1>5, <2>1, <2>2
<1>8. Independent(h, ISet(r))
  <2>1. ASSUME NEW a \in ISet(r), NEW b \in ISet(r) PROVE b \notin Neighbors(h, a)
    BY <1>2, <1>4, <1>5, <1>7 DEF Independent
  <2>2. QED
    BY <2>1 DEF Independent
<1>9. r.weight = SumOf(h.weight, ISet(r))
  <2> DEFINE V == Vertices(h)
             w == h.weight
  <2>1. IsFiniteSet(V) /\ w \in [V -> Int] /\ I \in SUBSET V /\ v \in V \ I
    BY <1>4, NeighborFacts
  <2> HIDE DEF V, w
  <2>2. SumOf(w, I \cup {v}) = w[v] + SumOf(w, I) /\ SumOf(w, I) \in Int
    BY <2>1, SumOfSet
  <2>3. SumOf(w, ISet(r)) = SumOf(w, I \cup {v})
    BY <1>4, Zenon
  <2>4. r.weight = SumOf(w, I) + w[v] /\ w[v] \in Int
    BY <1>3, <1>5, <2>1 DEF w
  <2>5. QED
    BY <2>2, <2>3, <2>4 DEF w
<1>10. ASSUME NEW u \in Vertices(h), ~InSolution(r, u)
       PROVE  IsFree(r, u) <=> r.tight[u] = 0
  BY <1>3, <1>5, <1>10
<1>11. AddingTo(h, r, Neighbors(h, v), v)
  <2>1. v \in ISet(r)
    BY <1>4
  <2>2. QED
    BY <1>3, <1>6, <1>8, <1>9, <1>10, <2>1 DEF AddingTo, Accounted
<1>12. QED
  BY <1>3, <1>4, <1>11 DEF r, I

\* removeVertex begins: v leaves, no other member was beside it, and its
\* neighbours are still counted as having it beside them.
LEMMA RemoveBegins ==
  ASSUME NEW h, IsSimpleGraph(h), NEW t, Settled(h, t), NEW v \in Vertices(h),
         InSolution(t, v)
  PROVE  LET r == RemoveHead(h, t, v)
         IN /\ RemovingFrom(h, r, Neighbors(h, v), v)
            /\ ISet(r) = ISet(t) \ {v} /\ v \in ISet(t)
            /\ r.weight = t.weight - h.weight[v]
            /\ IsFree(r, v)
<1> DEFINE r == RemoveHead(h, t, v)
           I == ISet(r)
<1>1. WellFormed(h, t)
  BY DEF Settled, Accounted
<1>2. /\ h.n \in Nat /\ h.weight \in [Vertices(h) -> Int]
      /\ \A u \in Vertices(h) : u \in Neighbors(h, v) <=> v \in Neighbors(h, u)
      /\ Neighbors(h, v) \subseteq Vertices(h) /\ v \notin Neighbors(h, v)
  BY NeighborFacts
<1>3. /\ WellFormed(h, r) /\ r.tight = t.tight
      /\ r.mu = t.mu /\ r.weight = t.weight - h.weight[v]
      /\ \A w \in Vertices(h) : /\ InSolution(r, w) <=> InSolution(t, w) /\ w # v
                                /\ IsFree(r, w) <=> IsFree(t, w) \/ w = v
  BY <1>1, <1>2, RemoveHeadEffect
<1> HIDE DEF r
<1>4. I \subseteq Vertices(h) /\ v \notin I /\ ISet(t) = I \cup {v} /\ I = ISet(t) \ {v}
  <2>1. ISet(t) = {w \in Vertices(h) : InSolution(t, w)}
    BY <1>1, BlockFacts
  <2>2. I = {w \in Vertices(h) : InSolution(r, w)}
    BY <1>3, BlockFacts
  <2> HIDE DEF I
  <2>3. QED
    BY <1>3, <2>1, <2>2
<1>5. /\ Independent(h, ISet(t)) /\ t.weight = SumOf(h.weight, ISet(t))
      /\ \A u \in Vertices(h) :
           /\ ~InSolution(t, u) => (IsFree(t, u) <=> t.tight[u] = 0)
           /\ t.tight[u] = Count(h, ISet(t), u) + 0
           /\ t.mu[u] = h.weight[u] - Load(h, ISet(t), u) - 0
  BY DEF Settled, Accounted
<1> HIDE DEF I
<1>6. ASSUME NEW u \in Vertices(h)
      PROVE  /\ r.tight[u] = Count(h, I, u) + (IF u \in Neighbors(h, v) THEN 1 ELSE 0)
             /\ r.mu[u] = h.weight[u] - Load(h, I, u)
                            - (IF u \in Neighbors(h, v) THEN h.weight[v] ELSE 0)
  <2> DEFINE c == Count(h, I, u)
             l == Load(h, I, u)
             c2 == Count(h, ISet(t), u)
             l2 == Load(h, ISet(t), u)
  <2>1. /\ c \in Nat /\ l \in Int
        /\ c2 = c + (IF v \in Neighbors(h, u) THEN 1 ELSE 0)
        /\ l2 = l + (IF v \in Neighbors(h, u) THEN h.weight[v] ELSE 0)
    <3>1. OneMoreFor(h, I, ISet(t), v, u)
      BY <1>4, OneMember
    <3>2. QED
      BY <3>1 DEF OneMoreFor
  <2>2. h.weight[v] \in Int /\ h.weight[u] \in Int
    BY <1>2
  <2>3. u \in Neighbors(h, v) <=> v \in Neighbors(h, u)
    BY <1>2
  <2>4. r.tight[u] = c2 + 0 /\ r.mu[u] = h.weight[u] - l2 - 0
    BY <1>3, <1>5
  <2> HIDE DEF c, l, c2, l2
  <2>5. QED
    BY <2>1, <2>2, <2>3, <2>4 DEF c, l
<1>7. Neighbors(h, v) \cap ISet(t) = {}
  BY <1>4, <1>5 DEF Independent
<1>8. Independent(h, I) /\ Neighbors(h, v) \cap I = {}
  BY <1>4, <1>5, <1>7 DEF Independent
<1>9. r.weight = SumOf(h.weight, I)
  <2> DEFINE V == Vertices(h)
             w == h.weight
  <2>1. IsFiniteSet(V) /\ w \in [V -> Int] /\ I \in SUBSET V /\ v \in V \ I
    BY <1>4, NeighborFacts
  <2> HIDE DEF V, w
  <2>2. SumOf(w, I \cup {v}) = w[v] + SumOf(w, I) /\ SumOf(w, I) \in Int
    BY <2>1, SumOfSet
  <2>3. SumOf(w, ISet(t)) = SumOf(w, I \cup {v})
    BY <1>4, Zenon
  <2>4. r.weight = SumOf(w, ISet(t)) - w[v] /\ w[v] \in Int
    BY <1>3, <1>5, <2>1 DEF w
  <2>5. QED
    BY <2>2, <2>3, <2>4 DEF w
<1>10. ASSUME NEW u \in Vertices(h), ~InSolution(r, u)
       PROVE  IsFree(r, u) <=> r.tight[u] = 0
  <2>1. r.tight[v] = 0
    <3>1. Count(h, ISet(t), v) = 0
      <4>1. ISet(t) \subseteq Vertices(h)
        BY <1>1, BlockFacts
      <4>2. QED
        BY <1>7, <4>1, CountFacts
    <3>2. QED
      BY <1>3, <1>5, <3>1
  <2>2. QED
    BY <1>3, <1>5, <1>10, <2>1
<1>11. RemovingFrom(h, r, Neighbors(h, v), v)
  BY <1>3, <1>4, <1>6, <1>8, <1>9, <1>10 DEF RemovingFrom, Accounted, I
<1>12. IsFree(r, v)
  BY <1>3
<1>13. QED
  BY <1>3, <1>4, <1>11, <1>12 DEF r, I

\* A turn of the loop of addVertex: the neighbour counted has a member beside it,
\* so its counter cannot be zero and it cannot stay free.
AddTurned(h, t, r, P, v, u) ==
  AddingTo(h, r, P \ {u}, v) /\ ISet(r) = ISet(t) /\ r.weight = t.weight

\* One turn of addVertex leaves the fields accounted for, less that neighbour.
LEMMA AddTurns ==
  ASSUME NEW h, IsSimpleGraph(h), NEW t, NEW P, NEW v \in Vertices(h),
         AddingTo(h, t, P, v), NEW u \in P
  PROVE  AddTurned(h, t, AddNeighborOf(h, t, v, u), P, v, u)
<1> DEFINE r == AddNeighborOf(h, t, v, u)
           I == ISet(t)
<1>1. /\ WellFormed(h, t) /\ Independent(h, I) /\ t.weight = SumOf(h.weight, I)
      /\ P \subseteq Neighbors(h, v) /\ v \in I
      /\ \A x \in Vertices(h) :
           /\ ~InSolution(t, x) => (IsFree(t, x) <=> t.tight[x] = 0)
           /\ t.tight[x] = Count(h, I, x) + (IF x \in P THEN -1 ELSE 0)
           /\ t.mu[x] = h.weight[x] - Load(h, I, x) - (IF x \in P THEN -h.weight[v] ELSE 0)
  BY DEF AddingTo, Accounted
<1>2. /\ h.n \in Nat /\ h.weight \in [Vertices(h) -> Int]
      /\ u \in Vertices(h) /\ u \in Neighbors(h, v) /\ v \in Neighbors(h, u)
  BY <1>1, NeighborFacts
<1>3. /\ WellFormed(h, r) /\ CountedBy(h, t, r, u, 1, -h.weight[v])
      /\ \A x \in Vertices(h) : /\ InSolution(r, x) <=> InSolution(t, x)
                                /\ IsFree(r, x) <=> IsFree(t, x) /\ x # u
  BY <1>1, <1>2, AddNeighborEffect
<1> HIDE DEF r
<1>4. ISet(r) = I /\ I \subseteq Vertices(h)
  <2>1. I = {x \in Vertices(h) : InSolution(t, x)}
    BY <1>1, BlockFacts
  <2>2. ISet(r) = {x \in Vertices(h) : InSolution(r, x)}
    BY <1>3, BlockFacts
  <2>3. QED
    BY <1>3, <2>1, <2>2
<1> HIDE DEF I
<1>5. \A x \in Vertices(h) :
        /\ Count(h, I, x) \in Nat /\ Load(h, I, x) \in Int
        /\ Count(h, I, x) = 0 <=> Neighbors(h, x) \cap I = {}
  BY <1>4, CountFacts
<1>6. ASSUME NEW x \in Vertices(h)
      PROVE  /\ r.tight[x] = Count(h, I, x) + (IF x \in P \ {u} THEN -1 ELSE 0)
             /\ r.mu[x] = h.weight[x] - Load(h, I, x)
                            - (IF x \in P \ {u} THEN -h.weight[v] ELSE 0)
  <2> DEFINE c == Count(h, I, x)
             l == Load(h, I, x)
  <2>1. c \in Nat /\ l \in Int /\ h.weight[v] \in Int /\ h.weight[x] \in Int
    BY <1>2, <1>5
  <2>2. /\ t.tight[x] = c + (IF x \in P THEN -1 ELSE 0)
        /\ t.mu[x] = h.weight[x] - l - (IF x \in P THEN -h.weight[v] ELSE 0)
    BY <1>1
  <2>3. /\ r.tight[x] = IF x = u THEN t.tight[x] + 1 ELSE t.tight[x]
        /\ r.mu[x] = IF x = u THEN t.mu[x] + (-h.weight[v]) ELSE t.mu[x]
    BY <1>3 DEF CountedBy
  <2> HIDE DEF c, l
  <2>4. QED
    BY <2>1, <2>2, <2>3 DEF c, l
<1>7. ASSUME NEW x \in Vertices(h), ~InSolution(r, x)
      PROVE  IsFree(r, x) <=> r.tight[x] = 0
  <2>1. CASE x = u
    <3>1. Count(h, I, u) # 0 /\ Count(h, I, u) \in Nat
      BY <1>1, <1>2, <1>5
    <3>2. r.tight[u] = Count(h, I, u) + 0
      BY <1>2, <1>6
    <3>3. QED
      BY <1>3, <2>1, <3>1, <3>2
  <2>2. CASE x # u
    <3>1. r.tight[x] = t.tight[x]
      BY <1>3, <2>2 DEF CountedBy
    <3>2. QED
      BY <1>1, <1>3, <1>7, <2>2, <3>1
  <2>3. QED
    BY <2>1, <2>2
<1>8. r.weight = t.weight
  BY <1>3 DEF CountedBy
<1>9. AddingTo(h, r, P \ {u}, v)
  <2>1. Accounted(h, r, P \ {u}, -1, -h.weight[v])
    BY <1>1, <1>3, <1>4, <1>6, <1>7, <1>8 DEF Accounted
  <2>2. QED
    BY <1>1, <1>4, <2>1 DEF AddingTo
<1>10. QED
  BY <1>4, <1>8, <1>9 DEF AddTurned, r, I

\* While v is removed, a neighbour that is still to be reached is in the third
\* block, whatever its counter; v itself is free.
LEMMA RemovingFacts ==
  ASSUME NEW h, IsSimpleGraph(h), NEW t, NEW P, NEW v \in Vertices(h),
         RemovingFrom(h, t, P, v)
  PROVE  /\ WellFormed(h, t) /\ ISet(t) \subseteq Vertices(h)
         /\ P \subseteq Vertices(h) /\ IsFree(t, v)
         /\ \A u \in P : IsNonFree(t, u) /\ t.tight[u] # 0
<1> DEFINE I == ISet(t)
<1>1. /\ WellFormed(h, t) /\ P \subseteq Neighbors(h, v) /\ v \notin I
      /\ Neighbors(h, v) \cap I = {}
      /\ \A x \in Vertices(h) :
           /\ ~InSolution(t, x) => (IsFree(t, x) <=> t.tight[x] = 0)
           /\ t.tight[x] = Count(h, I, x) + (IF x \in P THEN 1 ELSE 0)
  BY DEF RemovingFrom, Accounted
<1>2. /\ Neighbors(h, v) \subseteq Vertices(h) /\ v \notin Neighbors(h, v)
  BY NeighborFacts
<1>3. /\ I \subseteq Vertices(h)
      /\ \A x \in Vertices(h) : /\ x \in I <=> InSolution(t, x)
                                /\ InSolution(t, x) \/ IsFree(t, x) \/ IsNonFree(t, x)
  BY <1>1, BlockFacts
<1> HIDE DEF I
<1>4. \A x \in Vertices(h) :
        /\ Count(h, I, x) \in Nat
        /\ Count(h, I, x) = 0 <=> Neighbors(h, x) \cap I = {}
  BY <1>3, CountFacts
<1>5. IsFree(t, v)
  <2>1. Count(h, I, v) = 0 /\ v \notin P
    BY <1>1, <1>2, <1>4
  <2>2. t.tight[v] = 0
    BY <1>1, <2>1
  <2>3. QED
    BY <1>1, <1>3, <2>2
<1>6. ASSUME NEW u \in P PROVE IsNonFree(t, u) /\ t.tight[u] # 0
  <2>1. u \in Vertices(h) /\ u \notin I
    BY <1>1, <1>2
  <2>2. t.tight[u] = Count(h, I, u) + 1 /\ Count(h, I, u) \in Nat
    BY <1>1, <1>4, <2>1
  <2>3. t.tight[u] # 0
    BY <2>2
  <2>4. QED
    BY <1>1, <1>3, <2>1, <2>3
<1>7. QED
  BY <1>1, <1>2, <1>3, <1>5, <1>6 DEF I

\* A turn of the loop of removeVertex: the neighbour is counted off, and is free
\* if it has no other member beside it.
RemoveTurned(h, t, r, P, v, u) ==
  RemovingFrom(h, r, P \ {u}, v) /\ ISet(r) = ISet(t) /\ r.weight = t.weight

\* One turn of removeVertex leaves the fields accounted for, less that neighbour.
LEMMA RemoveTurns ==
  ASSUME NEW h, IsSimpleGraph(h), NEW t, NEW P, NEW v \in Vertices(h),
         RemovingFrom(h, t, P, v), NEW u \in P
  PROVE  RemoveTurned(h, t, RemoveNeighborOf(h, t, v, u), P, v, u)
<1> DEFINE r == RemoveNeighborOf(h, t, v, u)
           I == ISet(t)
<1>1. /\ WellFormed(h, t) /\ Independent(h, I) /\ t.weight = SumOf(h.weight, I)
      /\ P \subseteq Neighbors(h, v) /\ v \notin I /\ Neighbors(h, v) \cap I = {}
      /\ \A x \in Vertices(h) :
           /\ ~InSolution(t, x) => (IsFree(t, x) <=> t.tight[x] = 0)
           /\ t.tight[x] = Count(h, I, x) + (IF x \in P THEN 1 ELSE 0)
           /\ t.mu[x] = h.weight[x] - Load(h, I, x) - (IF x \in P THEN h.weight[v] ELSE 0)
  BY DEF RemovingFrom, Accounted
<1>2. h.n \in Nat /\ h.weight \in [Vertices(h) -> Int] /\ u \in Vertices(h)
  BY <1>1, NeighborFacts
<1>3. IsNonFree(t, u) /\ ~IsFree(t, u)
  BY <1>1, <1>2, RemovingFacts, BlockFacts
<1>4. /\ WellFormed(h, r) /\ CountedBy(h, t, r, u, -1, h.weight[v])
      /\ \A x \in Vertices(h) :
            /\ InSolution(r, x) <=> InSolution(t, x)
            /\ IsFree(r, x) <=> IsFree(t, x) \/ (x = u /\ t.tight[u] = 1)
  BY <1>1, <1>2, <1>3, RemoveNeighborEffect
<1> HIDE DEF r
<1>5. ISet(r) = I /\ I \subseteq Vertices(h)
  <2>1. I = {x \in Vertices(h) : InSolution(t, x)}
    BY <1>1, BlockFacts
  <2>2. ISet(r) = {x \in Vertices(h) : InSolution(r, x)}
    BY <1>4, BlockFacts
  <2>3. QED
    BY <1>4, <2>1, <2>2
<1> HIDE DEF I
<1>6. \A x \in Vertices(h) : Count(h, I, x) \in Nat /\ Load(h, I, x) \in Int
  BY <1>5, CountFacts
<1>7. ASSUME NEW x \in Vertices(h)
      PROVE  /\ r.tight[x] = Count(h, I, x) + (IF x \in P \ {u} THEN 1 ELSE 0)
             /\ r.mu[x] = h.weight[x] - Load(h, I, x)
                            - (IF x \in P \ {u} THEN h.weight[v] ELSE 0)
  <2> DEFINE c == Count(h, I, x)
             l == Load(h, I, x)
  <2>1. c \in Nat /\ l \in Int /\ h.weight[v] \in Int /\ h.weight[x] \in Int
    BY <1>2, <1>6
  <2>2. /\ t.tight[x] = c + (IF x \in P THEN 1 ELSE 0)
        /\ t.mu[x] = h.weight[x] - l - (IF x \in P THEN h.weight[v] ELSE 0)
    BY <1>1
  <2>3. /\ r.tight[x] = IF x = u THEN t.tight[x] + (-1) ELSE t.tight[x]
        /\ r.mu[x] = IF x = u THEN t.mu[x] + h.weight[v] ELSE t.mu[x]
    BY <1>4 DEF CountedBy
  <2> HIDE DEF c, l
  <2>4. QED
    BY <2>1, <2>2, <2>3 DEF c, l
<1>8. ASSUME NEW x \in Vertices(h), ~InSolution(r, x)
      PROVE  IsFree(r, x) <=> r.tight[x] = 0
  <2>1. CASE x = u
    <3>1. t.tight[u] \in Int /\ r.tight[u] = t.tight[u] + (-1)
      BY <1>1, <1>2, <1>4, BlockFacts DEF CountedBy
    <3>2. QED
      BY <1>3, <1>4, <2>1, <3>1
  <2>2. CASE x # u
    <3>1. r.tight[x] = t.tight[x]
      BY <1>4, <2>2 DEF CountedBy
    <3>2. QED
      BY <1>1, <1>4, <1>8, <2>2, <3>1
  <2>3. QED
    BY <2>1, <2>2
<1>9. r.weight = t.weight
  BY <1>4 DEF CountedBy
<1>10. RemovingFrom(h, r, P \ {u}, v)
  <2>1. Accounted(h, r, P \ {u}, 1, h.weight[v])
    BY <1>1, <1>4, <1>5, <1>7, <1>8, <1>9 DEF Accounted
  <2>2. QED
    BY <1>1, <1>5, <2>1 DEF RemovingFrom
<1>11. QED
  BY <1>5, <1>9, <1>10 DEF RemoveTurned, r, I

\* When all neighbours have been reached everything adds up again.
LEMMA CallEnds ==
  ASSUME NEW h, NEW t, NEW d, NEW w, Accounted(h, t, {}, d, w)
  PROVE  Settled(h, t)
  BY DEF Settled, Accounted


-----------------------------------------------------------------------------
(***************************************************************************)
(* The whole calls                                                         *)
(***************************************************************************)

\* The solutions that are well-formed.
Solutions(g) == {t \in SolutionType(g) : WellFormed(g, t)}

\* What addVertex has made of a solution after each neighbour.
AddVertexTrace(f, g, t, v) ==
  /\ f \in [0 .. Len(g.adj[v]) -> Solutions(g)]
  /\ f[0] = AddHead(g, t, v) /\ f[Len(g.adj[v])] = AddVertex(g, t, v)
  /\ \A i \in 1 .. Len(g.adj[v]) : f[i] = AddNeighborOf(g, f[i - 1], v, g.adj[v][i])

\* The loop goes through such values, whatever it is given.
LEMMA AddVertexSteps ==
  ASSUME NEW g, IsSimpleGraph(g), NEW t, WellFormed(g, t), NEW v \in Vertices(g), IsFree(t, v)
  PROVE  \E f : AddVertexTrace(f, g, t, v)
<1> DEFINE n == Len(g.adj[v])
           T == Solutions(g)
           Eq(h) == h = [U \in SUBSET DOMAIN g.adj[v] |->
                           IF U = {} THEN AddHead(g, t, v)
                           ELSE LET x == Max(U) IN AddNeighborOf(g, h[U \ {x}], v, g.adj[v][x])]
           H == CHOOSE h : Eq(h)
           step == [p \in T \X (1 .. n) |-> AddNeighborOf(g, p[1], v, g.adj[v][p[2]])]
<1>1. AddVertex(g, t, v) = H[DOMAIN g.adj[v]]
  BY DEF AddVertex, FoldLeft, MapThenFoldSet
<1>2. n \in Nat /\ DOMAIN g.adj[v] = 1 .. n
  OBVIOUS
<1>3. AddHead(g, t, v) \in T
  <2>1. /\ g.n \in Nat /\ g.weight \in [Vertices(g) -> Int]
    BY NeighborFacts
  <2>2. WellFormed(g, AddHead(g, t, v))
    BY <2>1, AddHeadEffect
  <2>3. QED
    BY <2>2 DEF WellFormed, Solutions
<1>4. step \in [T \X (1 .. n) -> T]
  <2>1. ASSUME NEW r \in T, NEW k \in 1 .. n PROVE AddNeighborOf(g, r, v, g.adj[v][k]) \in T
    <3>1. g.n \in Nat /\ g.weight \in [Vertices(g) -> Int] /\ g.adj[v][k] \in Vertices(g)
      BY NeighborFacts, NeighborTurns
    <3>2. WellFormed(g, r)
      BY DEF Solutions
    <3>3. WellFormed(g, AddNeighborOf(g, r, v, g.adj[v][k]))
      BY <3>1, <3>2, AddNeighborEffect
    <3>4. QED
      BY <3>3 DEF WellFormed, Solutions
  <2> HIDE DEF T, n
  <2>2. QED
    BY <2>1
<1>5. \E h : Eq(h)
  <2>1. PICK h : FoldsSteps(h, n, T, AddHead(g, t, v), step)
    <3> HIDE DEF step, n, T
    <3>1. QED BY <1>2, <1>3, <1>4, StepsExist
  <2>2. \A U \in SUBSET (1 .. n) : U # {} => Max(U) \in 1 .. n /\ U \ {Max(U)} \in SUBSET (1 .. n)
    BY <1>2, MaxIsMember
  <2>3. Eq(h)
    <3> HIDE DEF T, n
    <3>1. h = [U \in SUBSET (1 .. n) |-> h[U]]
      BY <2>1 DEF FoldsSteps
    <3>2. ASSUME NEW U \in SUBSET (1 .. n), U # {}
          PROVE  h[U] = AddNeighborOf(g, h[U \ {Max(U)}], v, g.adj[v][Max(U)])
      <4>1. h[U \ {Max(U)}] \in T /\ Max(U) \in 1 .. n
        BY <2>1, <2>2, <3>2 DEF FoldsSteps
      <4>2. h[U] = step[<<h[U \ {Max(U)}], Max(U)>>]
        BY <2>1, <3>2 DEF FoldsSteps
      <4>3. QED BY <4>1, <4>2
    <3>3. h[{}] = AddHead(g, t, v)
      BY <2>1 DEF FoldsSteps
    <3> HIDE DEF step
    <3>4. QED BY <1>2, <3>1, <3>2, <3>3
  <2>4. QED BY <2>3
<1>6. Eq(H)
  <2> HIDE DEF Eq
  <2>1. QED BY <1>5
<1> HIDE DEF H
<1>7. Follows(H, n, T, AddHead(g, t, v), step)
  <2> HIDE DEF T, n
  <2>1. H[{}] = AddHead(g, t, v)
    BY <1>6
  <2>2. ASSUME NEW i \in 1 .. n, H[1 .. i - 1] \in T
        PROVE  H[1 .. i] = step[<<H[1 .. i - 1], i>>]
    <3>1. /\ 1 .. i \in SUBSET (1 .. n) /\ 1 .. i # {}
          /\ Max(1 .. i) = i /\ (1 .. i) \ {i} = 1 .. i - 1
      BY <1>2, PrefixMax
    <3>2. H[1 .. i] = AddNeighborOf(g, H[1 .. i - 1], v, g.adj[v][i])
      BY <1>2, <1>6, <3>1
    <3>3. QED BY <2>2, <3>2
  <2> HIDE DEF step, Eq
  <2>3. QED BY <2>1, <2>2 DEF Follows
<1>8. PICK f : Trace(f, H, n, T, AddHead(g, t, v), step)
  <2> HIDE DEF step, n, T, Eq
  <2>1. QED BY <1>2, <1>3, <1>4, <1>7, StepsTaken
<1>9. f \in [0 .. n -> T] /\ f[0] = AddHead(g, t, v) /\ f[n] = H[1 .. n]
  BY <1>8 DEF Trace
<1>10. ASSUME NEW i \in 1 .. n PROVE f[i] = AddNeighborOf(g, f[i - 1], v, g.adj[v][i])
  <2> HIDE DEF T, n
  <2>1. i - 1 \in 0 .. n
    BY <1>2
  <2>2. f[i - 1] \in T
    BY <2>1, <1>9
  <2>3. f[i] = step[<<f[i - 1], i>>]
    BY <1>8 DEF Trace
  <2>4. QED BY <2>2, <2>3
<1>11. AddVertexTrace(f, g, t, v)
  BY <1>1, <1>2, <1>9, <1>10 DEF AddVertexTrace
<1>12. QED BY <1>11

\* Those on which a neighbour can be counted off without looking at its block: a
\* counter is positive in the third block only.
Removable(g) ==
  {t \in Solutions(g) : \A u \in Vertices(g) : ~IsNonFree(t, u) => t.tight[u] <= 0}

\* removeVertex starts with such a solution.
LEMMA RemovableStarts ==
  ASSUME NEW g, IsSimpleGraph(g), NEW t, Settled(g, t), NEW v \in Vertices(g),
         InSolution(t, v)
  PROVE  RemoveHead(g, t, v) \in Removable(g)
<1> DEFINE r == RemoveHead(g, t, v)
<1>1. WellFormed(g, t)
  BY DEF Settled, Accounted
<1>2. /\ g.n \in Nat /\ g.weight \in [Vertices(g) -> Int]
  BY NeighborFacts
<1>3. /\ WellFormed(g, r) /\ r.tight = t.tight
      /\ \A x \in Vertices(g) : /\ InSolution(r, x) <=> InSolution(t, x) /\ x # v
                                /\ IsFree(r, x) <=> IsFree(t, x) \/ x = v
  BY <1>1, <1>2, RemoveHeadEffect
<1> HIDE DEF r
<1>4. ISet(t) \subseteq Vertices(g) /\ \A x \in Vertices(g) : x \in ISet(t) <=> InSolution(t, x)
  BY <1>1, BlockFacts
<1>5. ASSUME NEW u \in Vertices(g), ~IsNonFree(r, u) PROVE r.tight[u] <= 0
  <2>1. /\ Independent(g, ISet(t))
        /\ ~InSolution(t, u) => (IsFree(t, u) <=> t.tight[u] = 0)
        /\ t.tight[u] = Count(g, ISet(t), u) + 0
    BY DEF Settled, Accounted
  <2>2. Count(g, ISet(t), u) \in Nat
        /\ (Count(g, ISet(t), u) = 0 <=> Neighbors(g, u) \cap ISet(t) = {})
    BY <1>4, CountFacts
  <2>3. CASE InSolution(t, u)
    <3>1. Neighbors(g, u) \cap ISet(t) = {}
      BY <1>4, <2>1, <2>3 DEF Independent
    <3>2. QED
      BY <1>3, <2>1, <2>2, <3>1
  <2>4. CASE ~InSolution(t, u)
    <3>1. InSolution(r, u) \/ IsFree(r, u) \/ IsNonFree(r, u)
      BY <1>3, BlockFacts
    <3>2. IsFree(t, u)
      BY <1>3, <1>5, <2>4, <3>1
    <3>3. QED
      BY <1>3, <2>1, <2>4, <3>2
  <2>5. QED
    BY <2>3, <2>4
<1>6. r \in Solutions(g)
  BY <1>3 DEF WellFormed, Solutions
<1>7. QED
  BY <1>5, <1>6 DEF Removable, r

\* Counting off any neighbour leaves such a solution.
LEMMA RemovableKept ==
  ASSUME NEW g, IsSimpleGraph(g), NEW t \in Removable(g),
         NEW v \in Vertices(g), NEW u \in Vertices(g)
  PROVE  RemoveNeighborOf(g, t, v, u) \in Removable(g)
<1> DEFINE r == RemoveNeighborOf(g, t, v, u)
<1>1. WellFormed(g, t) /\ \A x \in Vertices(g) : ~IsNonFree(t, x) => t.tight[x] <= 0
  BY DEF Removable, Solutions
<1>2. g.n \in Nat /\ g.weight \in [Vertices(g) -> Int]
  BY NeighborFacts
<1>3. t.tight[u] = 1 => IsNonFree(t, u)
  BY <1>1
<1>4. /\ WellFormed(g, r) /\ CountedBy(g, t, r, u, -1, g.weight[v])
      /\ \A x \in Vertices(g) :
            /\ InSolution(r, x) <=> InSolution(t, x)
            /\ IsFree(r, x) <=> IsFree(t, x) \/ (x = u /\ t.tight[u] = 1)
  BY <1>1, <1>2, <1>3, RemoveNeighborEffect
<1> HIDE DEF r
<1>5. ASSUME NEW x \in Vertices(g), ~IsNonFree(r, x) PROVE r.tight[x] <= 0
  <2>1. t.tight[x] \in Int /\ t.tight[u] \in Int
    BY <1>1, BlockFacts
  <2>2. r.tight[x] = IF x = u THEN t.tight[x] + (-1) ELSE t.tight[x]
    BY <1>4 DEF CountedBy
  <2>3. InSolution(r, x) \/ IsFree(r, x)
    BY <1>4, <1>5, BlockFacts
  <2>4. t.tight[x] <= 0 \/ (x = u /\ t.tight[u] = 1)
    <3>1. InSolution(t, x) \/ IsFree(t, x) => ~IsNonFree(t, x)
      BY <1>1, BlockFacts
    <3>2. QED
      BY <1>1, <1>4, <2>3, <3>1
  <2>5. QED
    BY <2>1, <2>2, <2>4
<1>6. r \in Solutions(g)
  BY <1>4 DEF WellFormed, Solutions
<1>7. QED
  BY <1>5, <1>6 DEF Removable, r

\* What removeVertex has made of a solution after each neighbour.
RemoveVertexTrace(f, g, t, v) ==
  /\ f \in [0 .. Len(g.adj[v]) -> Removable(g)]
  /\ f[0] = RemoveHead(g, t, v) /\ f[Len(g.adj[v])] = RemoveVertex(g, t, v)
  /\ \A i \in 1 .. Len(g.adj[v]) : f[i] = RemoveNeighborOf(g, f[i - 1], v, g.adj[v][i])

\* The loop goes through such values, whatever it is given.
LEMMA RemoveVertexSteps ==
  ASSUME NEW g, IsSimpleGraph(g), NEW t, Settled(g, t), NEW v \in Vertices(g), InSolution(t, v)
  PROVE  \E f : RemoveVertexTrace(f, g, t, v)
<1> DEFINE n == Len(g.adj[v])
           T == Removable(g)
           Eq(h) == h = [U \in SUBSET DOMAIN g.adj[v] |->
                           IF U = {} THEN RemoveHead(g, t, v)
                           ELSE LET x == Max(U) IN RemoveNeighborOf(g, h[U \ {x}], v, g.adj[v][x])]
           H == CHOOSE h : Eq(h)
           step == [p \in T \X (1 .. n) |-> RemoveNeighborOf(g, p[1], v, g.adj[v][p[2]])]
<1>1. RemoveVertex(g, t, v) = H[DOMAIN g.adj[v]]
  BY DEF RemoveVertex, FoldLeft, MapThenFoldSet
<1>2. n \in Nat /\ DOMAIN g.adj[v] = 1 .. n
  OBVIOUS
<1>3. RemoveHead(g, t, v) \in T
  BY RemovableStarts
<1>4. step \in [T \X (1 .. n) -> T]
  <2>1. ASSUME NEW r \in T, NEW k \in 1 .. n PROVE RemoveNeighborOf(g, r, v, g.adj[v][k]) \in T
    <3>1. g.adj[v][k] \in Vertices(g)
      BY NeighborFacts, NeighborTurns
    <3>2. QED
      BY <3>1, RemovableKept
  <2> HIDE DEF T, n
  <2>2. QED
    BY <2>1
<1>5. \E h : Eq(h)
  <2>1. PICK h : FoldsSteps(h, n, T, RemoveHead(g, t, v), step)
    <3> HIDE DEF step, n, T
    <3>1. QED BY <1>2, <1>3, <1>4, StepsExist
  <2>2. \A U \in SUBSET (1 .. n) : U # {} => Max(U) \in 1 .. n /\ U \ {Max(U)} \in SUBSET (1 .. n)
    BY <1>2, MaxIsMember
  <2>3. Eq(h)
    <3> HIDE DEF T, n
    <3>1. h = [U \in SUBSET (1 .. n) |-> h[U]]
      BY <2>1 DEF FoldsSteps
    <3>2. ASSUME NEW U \in SUBSET (1 .. n), U # {}
          PROVE  h[U] = RemoveNeighborOf(g, h[U \ {Max(U)}], v, g.adj[v][Max(U)])
      <4>1. h[U \ {Max(U)}] \in T /\ Max(U) \in 1 .. n
        BY <2>1, <2>2, <3>2 DEF FoldsSteps
      <4>2. h[U] = step[<<h[U \ {Max(U)}], Max(U)>>]
        BY <2>1, <3>2 DEF FoldsSteps
      <4>3. QED BY <4>1, <4>2
    <3>3. h[{}] = RemoveHead(g, t, v)
      BY <2>1 DEF FoldsSteps
    <3> HIDE DEF step
    <3>4. QED BY <1>2, <3>1, <3>2, <3>3
  <2>4. QED BY <2>3
<1>6. Eq(H)
  <2> HIDE DEF Eq
  <2>1. QED BY <1>5
<1> HIDE DEF H
<1>7. Follows(H, n, T, RemoveHead(g, t, v), step)
  <2> HIDE DEF T, n
  <2>1. H[{}] = RemoveHead(g, t, v)
    BY <1>6
  <2>2. ASSUME NEW i \in 1 .. n, H[1 .. i - 1] \in T
        PROVE  H[1 .. i] = step[<<H[1 .. i - 1], i>>]
    <3>1. /\ 1 .. i \in SUBSET (1 .. n) /\ 1 .. i # {}
          /\ Max(1 .. i) = i /\ (1 .. i) \ {i} = 1 .. i - 1
      BY <1>2, PrefixMax
    <3>2. H[1 .. i] = RemoveNeighborOf(g, H[1 .. i - 1], v, g.adj[v][i])
      BY <1>2, <1>6, <3>1
    <3>3. QED BY <2>2, <3>2
  <2> HIDE DEF step, Eq
  <2>3. QED BY <2>1, <2>2 DEF Follows
<1>8. PICK f : Trace(f, H, n, T, RemoveHead(g, t, v), step)
  <2> HIDE DEF step, n, T, Eq
  <2>1. QED BY <1>2, <1>3, <1>4, <1>7, StepsTaken
<1>9. f \in [0 .. n -> T] /\ f[0] = RemoveHead(g, t, v) /\ f[n] = H[1 .. n]
  BY <1>8 DEF Trace
<1>10. ASSUME NEW i \in 1 .. n PROVE f[i] = RemoveNeighborOf(g, f[i - 1], v, g.adj[v][i])
  <2> HIDE DEF T, n
  <2>1. i - 1 \in 0 .. n
    BY <1>2
  <2>2. f[i - 1] \in T
    BY <2>1, <1>9
  <2>3. f[i] = step[<<f[i - 1], i>>]
    BY <1>8 DEF Trace
  <2>4. QED BY <2>2, <2>3
<1>11. RemoveVertexTrace(f, g, t, v)
  BY <1>1, <1>2, <1>9, <1>10 DEF RemoveVertexTrace
<1>12. QED BY <1>11

\* addVertex makes a free vertex a member, and the fields add up as before.
Added(h, t, r, v) ==
  /\ Settled(h, r) /\ ISet(r) = ISet(t) \cup {v} /\ v \notin ISet(t)
  /\ r.weight = t.weight + h.weight[v]

\* The whole call, by induction along the adjacency list.
THEOREM AddVertexAdds ==
  ASSUME NEW h, IsSimpleGraph(h), NEW t, Settled(h, t), NEW v \in Vertices(h), IsFree(t, v)
  PROVE  Added(h, t, AddVertex(h, t, v), v)
<1> DEFINE q == h.adj[v]
           b == AddHead(h, t, v)
<1>1. /\ AddingTo(h, b, Neighbors(h, v), v)
      /\ ISet(b) = ISet(t) \cup {v} /\ v \notin ISet(t)
      /\ b.weight = t.weight + h.weight[v]
  BY AddBegins
<1>2. WellFormed(h, t)
  BY DEF Settled, Accounted
<1>3. PICK f : AddVertexTrace(f, h, t, v)
  BY <1>2, AddVertexSteps
<1>4. /\ f[0] = b /\ f[Len(q)] = AddVertex(h, t, v)
      /\ \A i \in 1 .. Len(q) : f[i] = AddNeighborOf(h, f[i - 1], v, q[i])
  BY <1>3 DEF AddVertexTrace
<1>5. /\ Len(q) \in Nat
      /\ StillToCome(h, v, 1) = Neighbors(h, v) /\ StillToCome(h, v, Len(q) + 1) = {}
      /\ \A i \in 1 .. Len(q) :
           /\ q[i] \in StillToCome(h, v, i)
           /\ StillToCome(h, v, i + 1) = StillToCome(h, v, i) \ {q[i]}
  BY NeighborTurns, SMTT(30)
<1> DEFINE Good(i) == /\ AddingTo(h, f[i], StillToCome(h, v, i + 1), v)
                      /\ ISet(f[i]) = ISet(b) /\ f[i].weight = b.weight
           A == {i \in 0 .. Len(q) : Good(i)}
<1>6. Good(0)
  BY <1>1, <1>4, <1>5
<1>7. ASSUME NEW i \in 0 .. Len(q) - 1, Good(i) PROVE Good(i + 1)
  <2>1. i + 1 \in 1 .. Len(q) /\ (i + 1) - 1 = i
    BY <1>5
  <2>2. f[i + 1] = AddNeighborOf(h, f[i], v, q[i + 1])
    BY <1>4, <2>1
  <2>3. /\ q[i + 1] \in StillToCome(h, v, i + 1)
        /\ StillToCome(h, v, (i + 1) + 1) = StillToCome(h, v, i + 1) \ {q[i + 1]}
    BY <1>5, <2>1
  <2>4. AddTurned(h, f[i], f[i + 1], StillToCome(h, v, i + 1), v, q[i + 1])
    BY <1>7, <2>2, <2>3, AddTurns
  <2>5. QED
    BY <1>7, <2>3, <2>4 DEF AddTurned
<1> HIDE DEF Good, q
<1>8. \A i \in 0 .. Len(q) : i \in A
  <2>1. 0 \in A
    BY <1>5, <1>6
  <2>2. ASSUME NEW i \in 0 .. Len(q) - 1, i \in A PROVE i + 1 \in A
    BY <1>5, <1>7, <2>2
  <2> HIDE DEF A
  <2>3. QED
    BY <1>5, <2>1, <2>2, UpTo
<1>9. Good(Len(q))
  BY <1>5, <1>8
<1>10. Settled(h, f[Len(q)])
  <2>1. AddingTo(h, f[Len(q)], {}, v)
    BY <1>5, <1>9 DEF Good
  <2>2. QED
    BY <2>1, CallEnds DEF AddingTo
<1>11. QED
  BY <1>1, <1>4, <1>9, <1>10 DEF Good, Added

\* removeVertex takes a member out and frees it, and the fields add up as before.
Removed(h, t, r, v) ==
  /\ Settled(h, r) /\ ISet(r) = ISet(t) \ {v} /\ v \in ISet(t) /\ IsFree(r, v)
  /\ r.weight = t.weight - h.weight[v]

\* The whole call, by induction along the adjacency list.
THEOREM RemoveVertexRemoves ==
  ASSUME NEW h, IsSimpleGraph(h), NEW t, Settled(h, t), NEW v \in Vertices(h),
         InSolution(t, v)
  PROVE  Removed(h, t, RemoveVertex(h, t, v), v)
<1> DEFINE q == h.adj[v]
           b == RemoveHead(h, t, v)
<1>1. /\ RemovingFrom(h, b, Neighbors(h, v), v)
      /\ ISet(b) = ISet(t) \ {v} /\ v \in ISet(t)
      /\ b.weight = t.weight - h.weight[v]
  BY RemoveBegins
<1>3. PICK f : RemoveVertexTrace(f, h, t, v)
  BY RemoveVertexSteps
<1>4. /\ f[0] = b /\ f[Len(q)] = RemoveVertex(h, t, v)
      /\ \A i \in 1 .. Len(q) : f[i] = RemoveNeighborOf(h, f[i - 1], v, q[i])
  BY <1>3 DEF RemoveVertexTrace
<1>5. /\ Len(q) \in Nat
      /\ StillToCome(h, v, 1) = Neighbors(h, v) /\ StillToCome(h, v, Len(q) + 1) = {}
      /\ \A i \in 1 .. Len(q) :
           /\ q[i] \in StillToCome(h, v, i)
           /\ StillToCome(h, v, i + 1) = StillToCome(h, v, i) \ {q[i]}
  BY NeighborTurns, SMTT(30)
<1> DEFINE Good(i) == /\ RemovingFrom(h, f[i], StillToCome(h, v, i + 1), v)
                      /\ ISet(f[i]) = ISet(b) /\ f[i].weight = b.weight
           A == {i \in 0 .. Len(q) : Good(i)}
<1>6. Good(0)
  BY <1>1, <1>4, <1>5
<1>7. ASSUME NEW i \in 0 .. Len(q) - 1, Good(i) PROVE Good(i + 1)
  <2>1. i + 1 \in 1 .. Len(q) /\ (i + 1) - 1 = i
    BY <1>5
  <2>2. f[i + 1] = RemoveNeighborOf(h, f[i], v, q[i + 1])
    BY <1>4, <2>1
  <2>3. /\ q[i + 1] \in StillToCome(h, v, i + 1)
        /\ StillToCome(h, v, (i + 1) + 1) = StillToCome(h, v, i + 1) \ {q[i + 1]}
    BY <1>5, <2>1
  <2>4. RemoveTurned(h, f[i], f[i + 1], StillToCome(h, v, i + 1), v, q[i + 1])
    BY <1>7, <2>2, <2>3, RemoveTurns
  <2>5. QED
    BY <1>7, <2>3, <2>4 DEF RemoveTurned
<1> HIDE DEF Good, q
<1>8. \A i \in 0 .. Len(q) : i \in A
  <2>1. 0 \in A
    BY <1>5, <1>6
  <2>2. ASSUME NEW i \in 0 .. Len(q) - 1, i \in A PROVE i + 1 \in A
    BY <1>5, <1>7, <2>2
  <2> HIDE DEF A
  <2>3. QED
    BY <1>5, <2>1, <2>2, UpTo
<1>9. Good(Len(q))
  BY <1>5, <1>8
<1>10. Settled(h, f[Len(q)]) /\ IsFree(f[Len(q)], v)
  <2>1. RemovingFrom(h, f[Len(q)], {}, v)
    BY <1>5, <1>9 DEF Good
  <2>2. Settled(h, f[Len(q)])
    BY <2>1, CallEnds DEF RemovingFrom
  <2>3. IsFree(f[Len(q)], v)
    BY <2>1, RemovingFacts
  <2>4. QED
    BY <2>2, <2>3
<1>11. QED
  BY <1>1, <1>4, <1>9, <1>10 DEF Good, Removed

\* A solution whose fields add up passes integrityCheck.
LEMMA SettledIntegrity ==
  ASSUME NEW h, IsSimpleGraph(h), NEW t, Settled(h, t)
  PROVE  IntegrityCheck(h, t)
<1> DEFINE I == ISet(t)
<1>1. /\ WellFormed(h, t) /\ Independent(h, I)
      /\ \A u \in Vertices(h) :
           /\ ~InSolution(t, u) => (IsFree(t, u) <=> t.tight[u] = 0)
           /\ t.tight[u] = Count(h, I, u) + 0
  BY DEF Settled, Accounted
<1>2. /\ t.solution \in [Vertices(h) -> Vertices(h)]
      /\ t.position \in [Vertices(h) -> Vertices(h)]
      /\ t.size \in Nat /\ t.free \in Nat /\ t.size + t.free <= h.n
      /\ h.n \in Nat /\ InverseArrays(h, t)
  BY <1>1, NeighborFacts DEF WellFormed, SolutionType
<1>3. /\ I \subseteq Vertices(h)
      /\ \A v \in Vertices(h) : v \in I <=> InSolution(t, v)
  BY <1>1, BlockFacts
<1>4. \A v \in I : t.tight[v] = 0
  <2> SUFFICES ASSUME NEW v \in I PROVE t.tight[v] = 0
    OBVIOUS
  <2> HIDE DEF I
  <2>1. Neighbors(h, v) \cap I = {} /\ v \in Vertices(h)
    BY <1>1, <1>3 DEF Independent
  <2>2. Count(h, I, v) = 0
    BY <1>3, <2>1, CountFacts
  <2>3. QED
    BY <1>1, <2>1, <2>2
<1> HIDE DEF I
<1>5. \A k \in 0 .. h.n - 1 : /\ t.solution[k] \in Vertices(h)
                              /\ t.position[t.solution[k]] = k
  BY <1>2 DEF InverseArrays, Vertices
<1>6. ASSUME NEW i \in 0 .. t.size - 1
      PROVE  /\ t.tight[t.solution[i]] <= 0
             /\ \A u \in Neighbors(h, t.solution[i]) :
                  \A k \in 0 .. t.size - 1 : t.solution[k] # u
  <2>1. \A k \in 0 .. t.size - 1 : t.solution[k] \in I
    BY <1>2, <1>3, <1>5 DEF InSolution
  <2>2. QED
    BY <1>1, <1>4, <2>1 DEF Independent
<1>7. ASSUME NEW i \in t.size .. t.size + t.free - 1
      PROVE  t.tight[t.solution[i]] <= 0
  <2>1. /\ t.solution[i] \in Vertices(h) /\ IsFree(t, t.solution[i])
        /\ ~InSolution(t, t.solution[i])
    BY <1>2, <1>5 DEF IsFree, InSolution
  <2>2. t.tight[t.solution[i]] = 0
    BY <1>1, <2>1
  <2>3. QED
    BY <2>2
<1>8. ASSUME NEW i \in t.size + t.free .. h.n - 1
      PROVE  t.tight[t.solution[i]] # 0
  <2>1. /\ t.solution[i] \in Vertices(h) /\ ~IsFree(t, t.solution[i])
        /\ ~InSolution(t, t.solution[i])
    BY <1>2, <1>5 DEF IsFree, InSolution
  <2>2. QED
    BY <1>1, <2>1
<1>9. QED
  BY <1>6, <1>7, <1>8 DEF IntegrityCheck
=============================================================================
