------------------------- MODULE ParserMergeProofs -------------------------
(***************************************************************************)
(* For any two parsers whose names the merge leaves apart, and any frames: *)
(* the merged parser goes, state by state, where production's goes on a    *)
(* frame without the tag, and where testing's goes on what was tagged; and *)
(* without loops, any order of headers the deparser may be given has the   *)
(* headers of a frame, each as its own program's, in the order they were   *)
(* parsed in, and a second one of that name exactly when the other program *)
(* parses a header of that name as well.                                   *)
(***************************************************************************)
EXTENDS ParserMerge, Lemmas

-----------------------------------------------------------------------------
(***************************************************************************)
(* What a recursion over a finite graph comes to                           *)
(***************************************************************************)

Within(steps) == \A q \in DOMAIN steps : steps[q] \subseteq DOMAIN steps
Closed(steps, S) == \A q \in S : steps[q] \subseteq S
Rounds(steps) == [i \in 1 .. Cardinality(DOMAIN steps) |-> i]

\* What the recursion has come to after each round.
ReachedTrace(f, steps, o) ==
  /\ f \in [0 .. Len(Rounds(steps)) -> SUBSET (DOMAIN steps)]
  /\ f[0] = {o} /\ f[Len(Rounds(steps))] = Reached(steps, o)
  /\ \A i \in 1 .. Len(Rounds(steps)) : f[i] = f[i - 1] \cup UNION {steps[q] : q \in f[i - 1]}

\* The loop goes through such values, whatever it is given.
LEMMA ReachedSteps ==
  ASSUME NEW steps, IsFiniteSet(DOMAIN steps), Within(steps), NEW o \in DOMAIN steps
  PROVE  \E f : ReachedTrace(f, steps, o)
<1> DEFINE n == Len(Rounds(steps))
           T == SUBSET (DOMAIN steps)
           Eq(h) == h = [U \in SUBSET DOMAIN Rounds(steps) |->
                           IF U = {} THEN {o}
                           ELSE LET x == Max(U) IN h[U \ {x}] \cup UNION {steps[q] : q \in h[U \ {x}]}]
           H == CHOOSE h : Eq(h)
           step == [p \in T \X (1 .. n) |-> p[1] \cup UNION {steps[q] : q \in p[1]}]
<1>1. Reached(steps, o) = H[DOMAIN Rounds(steps)]
  BY DEF Reached, Rounds, FoldLeft, MapThenFoldSet
<1>2. n \in Nat /\ DOMAIN Rounds(steps) = 1 .. n
  BY FS_CardinalityType DEF Rounds
<1>3. {o} \in T
  OBVIOUS
<1>4. step \in [T \X (1 .. n) -> T]
  BY DEF Within
<1>5. \E h : Eq(h)
  <2>1. PICK h : FoldsSteps(h, n, T, {o}, step)
    <3> HIDE DEF step, n, T
    <3>1. QED BY <1>2, <1>3, <1>4, StepsExist
  <2>2. \A U \in SUBSET (1 .. n) : U # {} => Max(U) \in 1 .. n /\ U \ {Max(U)} \in SUBSET (1 .. n)
    BY <1>2, MaxIsMember
  <2>3. Eq(h)
    <3> HIDE DEF T, n
    <3>1. h = [U \in SUBSET (1 .. n) |-> h[U]]
      BY <2>1 DEF FoldsSteps
    <3>2. ASSUME NEW U \in SUBSET (1 .. n), U # {}
          PROVE  h[U] = h[U \ {Max(U)}] \cup UNION {steps[q] : q \in h[U \ {Max(U)}]}
      <4>1. h[U \ {Max(U)}] \in T /\ Max(U) \in 1 .. n
        BY <2>1, <2>2, <3>2 DEF FoldsSteps
      <4>2. h[U] = step[<<h[U \ {Max(U)}], Max(U)>>]
        BY <2>1, <3>2 DEF FoldsSteps
      <4>3. QED BY <4>1, <4>2
    <3>3. h[{}] = {o}
      BY <2>1 DEF FoldsSteps
    <3> HIDE DEF step
    <3>4. QED BY <1>2, <3>1, <3>2, <3>3
  <2>4. QED BY <2>3
<1>6. Eq(H)
  <2> HIDE DEF Eq
  <2>1. QED BY <1>5
<1> HIDE DEF H
<1>7. Follows(H, n, T, {o}, step)
  <2> HIDE DEF T, n
  <2>1. H[{}] = {o}
    BY <1>6
  <2>2. ASSUME NEW i \in 1 .. n, H[1 .. i - 1] \in T
        PROVE  H[1 .. i] = step[<<H[1 .. i - 1], i>>]
    <3>1. /\ 1 .. i \in SUBSET (1 .. n) /\ 1 .. i # {}
          /\ Max(1 .. i) = i /\ (1 .. i) \ {i} = 1 .. i - 1
      BY <1>2, PrefixMax
    <3>2. H[1 .. i] = H[1 .. i - 1] \cup UNION {steps[q] : q \in H[1 .. i - 1]}
      BY <1>2, <1>6, <3>1
    <3>3. QED BY <2>2, <3>2
  <2> HIDE DEF step, Eq
  <2>3. QED BY <2>1, <2>2 DEF Follows
<1>8. PICK f : Trace(f, H, n, T, {o}, step)
  <2> HIDE DEF step, n, T, Eq
  <2>1. QED BY <1>2, <1>3, <1>4, <1>7, StepsTaken
<1>9. f \in [0 .. n -> T] /\ f[0] = {o} /\ f[n] = H[1 .. n]
  BY <1>8 DEF Trace
<1>10. ASSUME NEW i \in 1 .. n PROVE f[i] = f[i - 1] \cup UNION {steps[q] : q \in f[i - 1]}
  <2> HIDE DEF T, n
  <2>1. i - 1 \in 0 .. n
    BY <1>2
  <2>2. f[i - 1] \in T
    BY <2>1, <1>9
  <2>3. f[i] = step[<<f[i - 1], i>>]
    BY <1>8 DEF Trace
  <2>4. QED BY <2>2, <2>3
<1>11. ReachedTrace(f, steps, o)
  BY <1>1, <1>2, <1>9, <1>10 DEF ReachedTrace
<1>12. QED BY <1>11


\* The rounds are enough: there is one for each of what there is to come to, and
\* one that adds nothing ends the walk.
LEMMA ReachedClosed ==
  ASSUME NEW steps, IsFiniteSet(DOMAIN steps), Within(steps), NEW o \in DOMAIN steps
  PROVE  /\ Reached(steps, o) \subseteq DOMAIN steps
         /\ o \in Reached(steps, o)
         /\ Closed(steps, Reached(steps, o))
<1> DEFINE n == Cardinality(DOMAIN steps)
<1>1. n \in Nat /\ Len(Rounds(steps)) = n
  BY FS_CardinalityType DEF Rounds
<1>2. PICK f : ReachedTrace(f, steps, o)
  BY ReachedSteps
<1>3. /\ f \in [0 .. n -> SUBSET (DOMAIN steps)]
      /\ f[0] = {o} /\ f[n] = Reached(steps, o)
      /\ \A i \in 1 .. n : f[i] = f[i - 1] \cup UNION {steps[q] : q \in f[i - 1]}
  BY <1>1, <1>2 DEF ReachedTrace
<1> DEFINE A == {i \in 0 .. n : o \in f[i] /\ (Closed(steps, f[i]) \/ Cardinality(f[i]) > i)}
<1> HIDE DEF n
<1>4. \A i \in 0 .. n : f[i] \subseteq DOMAIN steps /\ IsFiniteSet(f[i]) /\ Cardinality(f[i]) \in Nat
  BY <1>3, FS_Subset, FS_CardinalityType
<1>5. 0 \in A
  <2>1. Cardinality({o}) = 1
    BY FS_Singleton
  <2>2. 0 \in 0 .. n /\ 1 > 0
    BY <1>1
  <2>3. QED BY <1>3, <2>1, <2>2
<1>6. ASSUME NEW i \in 0 .. n - 1, i \in A PROVE i + 1 \in A
  <2>1. i + 1 \in 1 .. n /\ (i + 1) - 1 = i /\ i \in 0 .. n /\ i + 1 \in 0 .. n
    BY <1>1
  <2>2. f[i + 1] = f[i] \cup UNION {steps[q] : q \in f[i]}
    BY <1>3, <2>1
  <2>3. CASE Closed(steps, f[i])
    <3>1. f[i + 1] = f[i]
      BY <2>2, <2>3 DEF Closed
    <3>2. QED BY <2>1, <2>3, <3>1, <1>6
  <2>4. CASE ~Closed(steps, f[i])
    <3>1. f[i] \subseteq f[i + 1] /\ f[i] # f[i + 1]
      BY <2>2, <2>4 DEF Closed
    <3>2. Cardinality(f[i]) < Cardinality(f[i + 1])
      BY <1>4, <2>1, <3>1, FS_Subset
    <3>3. Cardinality(f[i]) > i
      BY <1>6, <2>4
    <3>4. QED BY <1>4, <1>6, <2>1, <3>1, <3>2, <3>3
  <2>5. QED BY <2>3, <2>4
<1>7. \A i \in 0 .. n : i \in A
  <2> HIDE DEF A
  <2>1. QED BY <1>1, <1>5, <1>6, UpTo
<1>8. n \in 0 .. n
  BY <1>1
<1>9. Cardinality(f[n]) <= n
  BY <1>3, <1>8, FS_Subset DEF n
<1>10. QED BY <1>1, <1>3, <1>4, <1>7, <1>8, <1>9

\* It comes to nothing that it need not: it stays in every set it cannot leave.
LEMMA ReachedLeast ==
  ASSUME NEW steps, IsFiniteSet(DOMAIN steps), Within(steps), NEW o \in DOMAIN steps,
         NEW S, o \in S, Closed(steps, S)
  PROVE  Reached(steps, o) \subseteq S
<1> DEFINE n == Cardinality(DOMAIN steps)
<1>1. n \in Nat /\ Len(Rounds(steps)) = n
  BY FS_CardinalityType DEF Rounds
<1>2. PICK f : ReachedTrace(f, steps, o)
  BY ReachedSteps
<1>3. /\ f[0] = {o} /\ f[n] = Reached(steps, o)
      /\ \A i \in 1 .. n : f[i] = f[i - 1] \cup UNION {steps[q] : q \in f[i - 1]}
  BY <1>1, <1>2 DEF ReachedTrace
<1> DEFINE A == {i \in 0 .. n : f[i] \subseteq S}
<1> HIDE DEF n
<1>4. 0 \in A
  BY <1>1, <1>3
<1>5. ASSUME NEW i \in 0 .. n - 1, i \in A PROVE i + 1 \in A
  <2>1. i + 1 \in 1 .. n /\ (i + 1) - 1 = i /\ i + 1 \in 0 .. n
    BY <1>1
  <2>2. f[i + 1] = f[i] \cup UNION {steps[q] : q \in f[i]}
    BY <1>3, <2>1
  <2>3. QED BY <1>5, <2>1, <2>2 DEF Closed
<1>6. \A i \in 0 .. n : i \in A
  <2> HIDE DEF A
  <2>1. QED BY <1>1, <1>4, <1>5, UpTo
<1>7. QED BY <1>1, <1>3, <1>6

-----------------------------------------------------------------------------
(***************************************************************************)
(* The dictionary of branches                                              *)
(***************************************************************************)

LEMMA PutInto ==
  ASSUME NEW B, NEW d \in Seq(B), NEW b \in B
  PROVE  Put(d, b) \in Seq(B)
<1>1. DOMAIN d = 1 .. Len(d) /\ Len(d) \in Nat /\ \A i \in DOMAIN d : d[i] \in B
  OBVIOUS
<1>2. [i \in DOMAIN d |-> IF d[i][1] = b[1] THEN b ELSE d[i]] \in [1 .. Len(d) -> B]
  BY <1>1
<1>3. QED BY <1>1, <1>2 DEF Put

\* What update has made of the dictionary after each case.
UpdateTrace(f, B, to, new) ==
  /\ f \in [0 .. Len(new) -> Seq(B)]
  /\ f[0] = to /\ f[Len(new)] = Update(to, new)
  /\ \A i \in 1 .. Len(new) : f[i] = Put(f[i - 1], new[i])

\* The loop goes through such values, whatever it is given.
LEMMA UpdateSteps ==
  ASSUME NEW B, NEW to \in Seq(B), NEW new \in Seq(B)
  PROVE  \E f : UpdateTrace(f, B, to, new)
<1> DEFINE n == Len(new)
           T == Seq(B)
           Eq(h) == h = [U \in SUBSET DOMAIN new |->
                           IF U = {} THEN to
                           ELSE LET x == Max(U) IN Put(h[U \ {x}], new[x])]
           H == CHOOSE h : Eq(h)
           step == [p \in T \X (1 .. n) |-> Put(p[1], new[p[2]])]
<1>1. Update(to, new) = H[DOMAIN new]
  BY DEF Update, FoldLeft, MapThenFoldSet
<1>2. n \in Nat /\ DOMAIN new = 1 .. n
  OBVIOUS
<1>3. to \in T
  OBVIOUS
<1>4. step \in [T \X (1 .. n) -> T]
  <2>1. ASSUME NEW p \in T \X (1 .. n) PROVE Put(p[1], new[p[2]]) \in T
    <3>1. p[1] \in Seq(B) /\ new[p[2]] \in B
      BY <1>2
    <3>2. QED BY <3>1, PutInto
  <2>2. QED BY <2>1
<1>5. \E h : Eq(h)
  <2>1. PICK h : FoldsSteps(h, n, T, to, step)
    <3> HIDE DEF step, n, T
    <3>1. QED BY <1>2, <1>3, <1>4, StepsExist
  <2>2. \A U \in SUBSET (1 .. n) : U # {} => Max(U) \in 1 .. n /\ U \ {Max(U)} \in SUBSET (1 .. n)
    BY <1>2, MaxIsMember
  <2>3. Eq(h)
    <3> HIDE DEF T, n
    <3>1. h = [U \in SUBSET (1 .. n) |-> h[U]]
      BY <2>1 DEF FoldsSteps
    <3>2. ASSUME NEW U \in SUBSET (1 .. n), U # {}
          PROVE  h[U] = Put(h[U \ {Max(U)}], new[Max(U)])
      <4>1. h[U \ {Max(U)}] \in T /\ Max(U) \in 1 .. n
        BY <2>1, <2>2, <3>2 DEF FoldsSteps
      <4>2. h[U] = step[<<h[U \ {Max(U)}], Max(U)>>]
        BY <2>1, <3>2 DEF FoldsSteps
      <4>3. QED BY <4>1, <4>2
    <3>3. h[{}] = to
      BY <2>1 DEF FoldsSteps
    <3> HIDE DEF step
    <3>4. QED BY <1>2, <3>1, <3>2, <3>3
  <2>4. QED BY <2>3
<1>6. Eq(H)
  <2> HIDE DEF Eq
  <2>1. QED BY <1>5
<1> HIDE DEF H
<1>7. Follows(H, n, T, to, step)
  <2> HIDE DEF T, n
  <2>1. H[{}] = to
    BY <1>6
  <2>2. ASSUME NEW i \in 1 .. n, H[1 .. i - 1] \in T
        PROVE  H[1 .. i] = step[<<H[1 .. i - 1], i>>]
    <3>1. /\ 1 .. i \in SUBSET (1 .. n) /\ 1 .. i # {}
          /\ Max(1 .. i) = i /\ (1 .. i) \ {i} = 1 .. i - 1
      BY <1>2, PrefixMax
    <3>2. H[1 .. i] = Put(H[1 .. i - 1], new[i])
      BY <1>2, <1>6, <3>1
    <3>3. QED BY <2>2, <3>2
  <2> HIDE DEF step, Eq
  <2>3. QED BY <2>1, <2>2 DEF Follows
<1>8. PICK f : Trace(f, H, n, T, to, step)
  <2> HIDE DEF step, n, T, Eq
  <2>1. QED BY <1>2, <1>3, <1>4, <1>7, StepsTaken
<1>9. f \in [0 .. n -> T] /\ f[0] = to /\ f[n] = H[1 .. n]
  BY <1>8 DEF Trace
<1>10. ASSUME NEW i \in 1 .. n PROVE f[i] = Put(f[i - 1], new[i])
  <2> HIDE DEF T, n
  <2>1. i - 1 \in 0 .. n
    BY <1>2
  <2>2. f[i - 1] \in T
    BY <2>1, <1>9
  <2>3. f[i] = step[<<f[i - 1], i>>]
    BY <1>8 DEF Trace
  <2>4. QED BY <2>2, <2>3
<1>11. UpdateTrace(f, B, to, new)
  BY <1>1, <1>2, <1>9, <1>10 DEF UpdateTrace
<1>12. QED BY <1>11

\* No case twice.
Keyed(d) == \A i, j \in DOMAIN d : d[i][1] = d[j][1] => i = j

\* The dictionary when m cases of new have come to those of to: what is put over
\* another keeps its place, and the rest follow in their own order.
UpdatedBy(d, to, new, m) ==
  /\ Keyed(d) /\ Len(to) <= Len(d)
  /\ \A i \in DOMAIN to : d[i][1] = to[i][1]
  /\ \A i \in DOMAIN d : (i \in DOMAIN to /\ d[i] = to[i]) \/ \E j \in 1 .. m : d[i] = new[j]
  /\ \A j \in 1 .. m : \E i \in DOMAIN d : d[i] = new[j]
  /\ \A i, k \in DOMAIN d \ DOMAIN to : \A a, b \in 1 .. m :
       i < k /\ d[i] = new[a] /\ d[k] = new[b] => a < b

\* One case more.
LEMMA PutOne ==
  ASSUME NEW B, NEW to \in Seq(B), NEW new \in Seq(B), Keyed(new),
         NEW d \in Seq(B), NEW m \in Nat, m + 1 \in DOMAIN new, UpdatedBy(d, to, new, m)
  PROVE  UpdatedBy(Put(d, new[m + 1]), to, new, m + 1)
<1> DEFINE b == new[m + 1]
           e == Put(d, b)
<1>1. /\ DOMAIN d = 1 .. Len(d) /\ Len(d) \in Nat /\ DOMAIN to = 1 .. Len(to) /\ Len(to) \in Nat
      /\ Len(to) <= Len(d) /\ DOMAIN to \subseteq DOMAIN d
  BY DEF UpdatedBy
<1>2. 1 .. m + 1 = (1 .. m) \cup {m + 1}
  OBVIOUS
<1>3. \A j \in 1 .. m : j \in DOMAIN new /\ new[j][1] # b[1] /\ j < m + 1
  BY DEF Keyed
<1>4. CASE \E i \in DOMAIN d : d[i][1] = b[1]
  <2>1. PICK p \in DOMAIN d : d[p][1] = b[1]
    BY <1>4
  <2>2. \A i \in DOMAIN d : d[i][1] = b[1] <=> i = p
    BY <2>1 DEF UpdatedBy, Keyed
  <2>3. e = [i \in DOMAIN d |-> IF d[i][1] = b[1] THEN b ELSE d[i]]
    BY <1>4 DEF Put
  <2>4. DOMAIN e = DOMAIN d /\ Len(e) = Len(d) /\ \A i \in DOMAIN d : e[i] = IF i = p THEN b ELSE d[i]
    BY <1>1, <2>2, <2>3
  <2> HIDE DEF e
  <2>5. \A i \in DOMAIN d : e[i][1] = d[i][1]
    BY <2>1, <2>4
  <2>6. Keyed(e) /\ Len(to) <= Len(e) /\ \A i \in DOMAIN to : e[i][1] = to[i][1]
    BY <1>1, <2>4, <2>5 DEF UpdatedBy, Keyed
  <2>7. p \in DOMAIN to
    <3>1. SUFFICES ASSUME \E j \in 1 .. m : d[p] = new[j] PROVE FALSE
      BY <2>1 DEF UpdatedBy
    <3>2. QED BY <1>3, <2>1, <3>1
  <2>8. \A i \in DOMAIN e : (i \in DOMAIN to /\ e[i] = to[i]) \/ \E j \in 1 .. m + 1 : e[i] = new[j]
    BY <1>2, <2>4 DEF UpdatedBy
  <2>9. \A j \in 1 .. m + 1 : \E i \in DOMAIN e : e[i] = new[j]
    BY <1>2, <1>3, <2>1, <2>4 DEF UpdatedBy
  <2>10. ASSUME NEW i \in DOMAIN e \ DOMAIN to, NEW k \in DOMAIN e \ DOMAIN to,
                NEW x \in 1 .. m + 1, NEW y \in 1 .. m + 1,
                i < k, e[i] = new[x], e[k] = new[y]
         PROVE  x < y
    <3>1. e[i] = d[i] /\ e[k] = d[k] /\ i # p /\ k # p /\ d[i][1] # b[1] /\ d[k][1] # b[1]
      BY <2>2, <2>4, <2>7, <2>10
    <3>2. x \in 1 .. m /\ y \in 1 .. m
      BY <1>2, <2>10, <3>1
    <3>3. i \in DOMAIN d \ DOMAIN to /\ k \in DOMAIN d \ DOMAIN to /\ d[i] = new[x] /\ d[k] = new[y]
      BY <2>4, <2>10, <3>1
    <3>4. QED BY <2>10, <3>2, <3>3 DEF UpdatedBy
  <2>11. UpdatedBy(e, to, new, m + 1)
    BY <2>6, <2>8, <2>9, <2>10 DEF UpdatedBy
  <2>12. QED BY <2>11 DEF e
<1>5. CASE ~\E i \in DOMAIN d : d[i][1] = b[1]
  <2>1. e = Append(d, b)
    BY <1>5 DEF Put
  <2>2. /\ DOMAIN e = 1 .. Len(d) + 1 /\ Len(e) = Len(d) + 1 /\ e[Len(d) + 1] = b
        /\ \A i \in DOMAIN d : e[i] = d[i]
    BY <1>1, <2>1
  <2> HIDE DEF e
  <2>3. DOMAIN e = DOMAIN d \cup {Len(d) + 1} /\ Len(d) + 1 \notin DOMAIN d
    BY <1>1, <2>2
  <2>4. Keyed(e)
    <3>1. Keyed(d) /\ \A i \in DOMAIN d : e[i][1] = d[i][1] /\ d[i][1] # e[Len(d) + 1][1]
      BY <1>5, <2>2 DEF UpdatedBy
    <3>2. SUFFICES ASSUME NEW i \in DOMAIN e, NEW j \in DOMAIN e, e[i][1] = e[j][1]
                   PROVE  i = j
      BY DEF Keyed
    <3>3. CASE i \in DOMAIN d /\ j \in DOMAIN d
      <4>1. d[i][1] = d[j][1]
        BY <3>1, <3>2, <3>3
      <4>2. QED BY <3>1, <3>3, <4>1 DEF Keyed
    <3>4. CASE i = Len(d) + 1
      BY <2>3, <3>1, <3>2, <3>4
    <3>5. CASE j = Len(d) + 1
      BY <2>3, <3>1, <3>2, <3>5
    <3>6. QED BY <2>3, <3>3, <3>4, <3>5
  <2>5. Len(to) <= Len(e) /\ \A i \in DOMAIN to : e[i][1] = to[i][1]
    BY <1>1, <2>2 DEF UpdatedBy
  <2>6. ASSUME NEW i \in DOMAIN e
        PROVE  (i \in DOMAIN to /\ e[i] = to[i]) \/ \E j \in 1 .. m + 1 : e[i] = new[j]
    <3>1. CASE i = Len(d) + 1
      <4>1. e[i] = new[m + 1] /\ m + 1 \in 1 .. m + 1
        BY <2>2, <3>1
      <4>2. QED BY <4>1
    <3>2. CASE i \in DOMAIN d
      <4>1. e[i] = d[i]
        BY <2>2, <3>2
      <4>2. (i \in DOMAIN to /\ d[i] = to[i]) \/ \E j \in 1 .. m : d[i] = new[j]
        BY <3>2 DEF UpdatedBy
      <4>3. QED BY <1>2, <4>1, <4>2
    <3>3. QED BY <2>3, <3>1, <3>2
  <2>7. ASSUME NEW j \in 1 .. m + 1 PROVE \E i \in DOMAIN e : e[i] = new[j]
    <3>1. CASE j = m + 1
      <4>1. Len(d) + 1 \in DOMAIN e /\ e[Len(d) + 1] = new[j]
        BY <2>2, <2>3, <3>1
      <4>2. QED BY <4>1
    <3>2. CASE j \in 1 .. m
      <4>1. PICK i \in DOMAIN d : d[i] = new[j]
        BY <3>2 DEF UpdatedBy
      <4>2. QED BY <2>2, <2>3, <4>1
    <3>3. QED BY <1>2, <3>1, <3>2
  <2>8. ASSUME NEW i \in DOMAIN e \ DOMAIN to, NEW k \in DOMAIN e \ DOMAIN to,
               NEW x \in 1 .. m + 1, NEW y \in 1 .. m + 1,
               i < k, e[i] = new[x], e[k] = new[y]
        PROVE  x < y
    <3>1. i \in DOMAIN d /\ i \notin DOMAIN to
      BY <1>1, <2>2, <2>3, <2>8
    <3>2. x \in 1 .. m
      BY <1>2, <1>5, <2>2, <2>8, <3>1
    <3>3. CASE k = Len(d) + 1
      <4>1. y = m + 1
        BY <1>2, <1>3, <2>2, <2>8, <3>3
      <4>2. QED BY <3>2, <4>1
    <3>4. CASE k \in DOMAIN d
      <4>1. y \in 1 .. m
        BY <1>2, <1>5, <2>2, <2>8, <3>4
      <4>2. i \in DOMAIN d \ DOMAIN to /\ k \in DOMAIN d \ DOMAIN to /\ d[i] = new[x] /\ d[k] = new[y]
        BY <2>2, <2>8, <3>1, <3>4
      <4>3. QED BY <2>8, <3>2, <4>1, <4>2 DEF UpdatedBy
    <3>5. QED BY <2>3, <2>8, <3>3, <3>4
  <2>9. UpdatedBy(e, to, new, m + 1)
    BY <2>4, <2>5, <2>6, <2>7, <2>8 DEF UpdatedBy
  <2>10. QED BY <2>9 DEF e
<1>6. QED BY <1>4, <1>5

\* update as a whole.
LEMMA UpdateEffect ==
  ASSUME NEW B, NEW to \in Seq(B), NEW new \in Seq(B), Keyed(to), Keyed(new)
  PROVE  Update(to, new) \in Seq(B) /\ UpdatedBy(Update(to, new), to, new, Len(new))
<1>1. PICK f : UpdateTrace(f, B, to, new)
  BY UpdateSteps
<1> DEFINE n == Len(new)
           A == {i \in 0 .. n : UpdatedBy(f[i], to, new, i)}
<1>2. n \in Nat /\ DOMAIN new = 1 .. n
  OBVIOUS
<1>3. UpdatedBy(to, to, new, 0)
  BY DEF UpdatedBy
<1>4. 0 \in A
  BY <1>1, <1>2, <1>3 DEF UpdateTrace
<1>5. ASSUME NEW i \in 0 .. n - 1, i \in A PROVE i + 1 \in A
  <2>1. i \in Nat /\ i + 1 \in 1 .. n /\ (i + 1) - 1 = i /\ i \in 0 .. n /\ i + 1 \in 0 .. n
    BY <1>2
  <2>2. f[i] \in Seq(B) /\ f[i + 1] = Put(f[i], new[i + 1])
    BY <1>1, <2>1 DEF UpdateTrace
  <2>3. UpdatedBy(f[i], to, new, i)
    BY <1>5
  <2>4. UpdatedBy(f[i + 1], to, new, i + 1)
    <3> HIDE DEF A, n
    <3>1. QED BY <1>2, <2>1, <2>2, <2>3, PutOne
  <2>5. QED BY <2>1, <2>4
<1>6. \A i \in 0 .. n : i \in A
  <2> HIDE DEF A, n
  <2>1. QED BY <1>2, <1>4, <1>5, UpTo
<1>7. QED BY <1>1, <1>2, <1>6 DEF UpdateTrace

-----------------------------------------------------------------------------
(***************************************************************************)
(* Which branch is taken                                                   *)
(***************************************************************************)

\* The first case that matches.
LEMMA ChosenFirst ==
  ASSUME NEW s, DOMAIN s.to \subseteq Nat, s.on, NEW k, NEW m \in DOMAIN s.to, k \in s.to[m][1],
         \A j \in DOMAIN s.to : k \in s.to[j][1] => m <= j
  PROVE  Chosen(s, k) = s.to[m][2]
<1> DEFINE hits == {i \in DOMAIN s.to : s.on /\ k \in s.to[i][1]}
           c == CHOOSE i \in hits : \A j \in hits : i <= j
<1>1. m \in hits /\ \A j \in hits : m <= j
  OBVIOUS
<1>2. hits \subseteq Nat
  OBVIOUS
<1>3. c \in hits /\ \A j \in hits : c <= j
  <2> HIDE DEF hits
  <2>1. QED BY <1>1
<1>4. c = m
  <2> HIDE DEF hits, c
  <2>1. QED BY <1>1, <1>2, <1>3
<1>5. Chosen(s, k) = s.to[c][2]
  BY <1>1 DEF Chosen
<1>6. QED BY <1>4, <1>5

\* The default, if none matches.
LEMMA ChosenDefault ==
  ASSUME NEW s, Keyed(s.to), NEW k, \A j \in DOMAIN s.to : k \notin s.to[j][1],
         NEW m \in DOMAIN s.to, s.to[m][1] = Default
  PROVE  Chosen(s, k) = s.to[m][2]
<1> DEFINE dflt == {i \in DOMAIN s.to : s.to[i][1] = Default}
           c == CHOOSE i \in dflt : TRUE
<1>1. m \in dflt /\ \A i \in dflt : i = m
  BY DEF Keyed
<1>2. c = m
  <2> HIDE DEF dflt
  <2>1. QED BY <1>1
<1>3. Chosen(s, k) = s.to[c][2]
  BY <1>1 DEF Chosen
<1>4. QED BY <1>2, <1>3

\* The end, if there is no default either.
LEMMA ChosenEnd ==
  ASSUME NEW s, NEW k, \A j \in DOMAIN s.to : k \notin s.to[j][1] /\ s.to[j][1] # Default
  PROVE  Chosen(s, k) = EndOfParser
BY DEF Chosen

\* Two states with the same cases take the same branch.
LEMMA ChosenAlike ==
  ASSUME NEW s, NEW t, NEW k, DOMAIN s.to = DOMAIN t.to, DOMAIN t.to \subseteq Nat,
         \A i \in DOMAIN t.to : s.to[i][1] = t.to[i][1],
         (s.on <=> t.on) \/ \A i \in DOMAIN t.to : t.to[i][1] = Default
  PROVE  \/ \E i \in DOMAIN t.to : Chosen(s, k) = s.to[i][2] /\ Chosen(t, k) = t.to[i][2]
         \/ Chosen(s, k) = EndOfParser /\ Chosen(t, k) = EndOfParser
<1> DEFINE hits(u) == {i \in DOMAIN u.to : u.on /\ k \in u.to[i][1]}
           dflt(u) == {i \in DOMAIN u.to : u.to[i][1] = Default}
           H == hits(t)
           D == dflt(t)
           first == CHOOSE i \in H : \A j \in H : i <= j
           any == CHOOSE i \in D : TRUE
<1>1. hits(s) = H /\ dflt(s) = D
  BY DEF Default
<1>2. Chosen(t, k) = IF H # {} THEN t.to[first][2] ELSE IF D # {} THEN t.to[any][2] ELSE EndOfParser
  BY DEF Chosen
<1>3. Chosen(s, k) = IF hits(s) # {} THEN s.to[CHOOSE i \in hits(s) : \A j \in hits(s) : i <= j][2]
                     ELSE IF dflt(s) # {} THEN s.to[CHOOSE i \in dflt(s) : TRUE][2] ELSE EndOfParser
  BY DEF Chosen
<1>4. H \subseteq DOMAIN t.to /\ D \subseteq DOMAIN t.to
  OBVIOUS
<1> HIDE DEF hits, dflt, H, D
<1>5. Chosen(s, k) = IF H # {} THEN s.to[first][2] ELSE IF D # {} THEN s.to[any][2] ELSE EndOfParser
  BY <1>1, <1>3
<1>6. H # {} => first \in H
  <2>1. H # {} => \E i \in H : \A j \in H : i <= j
    BY <1>4, LeastNumber
  <2>2. QED BY <2>1
<1>7. D # {} => any \in D
  OBVIOUS
<1> HIDE DEF first, any
<1>8. QED BY <1>2, <1>4, <1>5, <1>6, <1>7

TagState == <<"m", ShadowTag>>
Base == <<<<{Tag}, TagState>>, <<Default, EndOfParser>>>>

\* Ethernet with production's branches over the one to the tag: the tag's where
\* production has none of its own for it, production's for every other key.
LEMMA ChosenUpdated ==
  ASSUME NEW B, Base \in Seq(B),
         NEW t, t.to \in Seq(B), Keyed(t.to), t.on \/ \A i \in DOMAIN t.to : t.to[i][1] = Default,
         NEW s, s.on, s.to = Update(Base, t.to), NEW k
  PROVE  /\ k # Tag => Chosen(s, k) = Chosen(t, k)
         /\ k = Tag /\ (\A i \in DOMAIN t.to : Tag \notin t.to[i][1]) => Chosen(s, k) = TagState
<1> DEFINE d == s.to
           R == t.to
           n == Len(R)
<1>1. Keyed(Base) /\ DOMAIN Base = {1, 2} /\ Base[1] = <<{Tag}, TagState>> /\ Base[2] = <<Default, EndOfParser>>
  <2>1. DOMAIN Base = {1, 2} /\ Base[1] = <<{Tag}, TagState>> /\ Base[2] = <<Default, EndOfParser>>
    BY DEF Base
  <2>2. Base[1][1] # Base[2][1]
    BY <2>1 DEF Default
  <2>3. QED BY <2>1, <2>2 DEF Keyed
<1>2. d \in Seq(B) /\ UpdatedBy(d, Base, R, n)
  BY <1>1, UpdateEffect
<1>3. DOMAIN R = 1 .. n /\ n \in Nat /\ DOMAIN R \subseteq Nat /\ DOMAIN d \subseteq Nat
  BY <1>2
<1>4. 1 \in DOMAIN d /\ 2 \in DOMAIN d /\ d[1][1] = {Tag} /\ d[2][1] = Default
  <2>1. 2 <= Len(d) /\ DOMAIN d = 1 .. Len(d) /\ Len(Base) = 2 /\ Len(d) \in Nat
    <3>1. Len(Base) = 2
      BY DEF Base
    <3>2. QED BY <1>2, <3>1 DEF UpdatedBy
  <2>2. d[1][1] = Base[1][1] /\ d[2][1] = Base[2][1]
    BY <1>1, <1>2 DEF UpdatedBy
  <2>3. d[1][1] = {Tag} /\ d[2][1] = Default
    <3>1. Base[1][1] = {Tag}
      BY <1>1
    <3>2. Base[2][1] = Default
      BY <1>1
    <3>3. QED BY <2>2, <3>1, <3>2
  <2>4. 1 \in DOMAIN d /\ 2 \in DOMAIN d
    BY <2>1
  <2>5. QED BY <2>3, <2>4
<1> HIDE DEF d, R, n
<1>5. Keyed(d) /\ Keyed(R)
  BY <1>2 DEF UpdatedBy, R
<1>6. \A i \in {1, 2} : d[i] = Base[i] \/ \E j \in DOMAIN R : d[i] = R[j]
  BY <1>1, <1>2, <1>3, <1>4 DEF UpdatedBy
<1>7. \A i \in DOMAIN d : i \in {1, 2} \/ \E j \in DOMAIN R : d[i] = R[j]
  BY <1>1, <1>2, <1>3 DEF UpdatedBy
<1>8. \A j \in DOMAIN R : \E i \in DOMAIN d : d[i] = R[j]
  BY <1>2, <1>3 DEF UpdatedBy
<1>9. ASSUME k # Tag PROVE Chosen(s, k) = Chosen(t, k)
  <2>1. \A i \in DOMAIN d : k \in d[i][1] => i \notin {1, 2} /\ \E j \in DOMAIN R : d[i] = R[j]
    BY <1>4, <1>7, <1>9 DEF Default
  <2>2. CASE \E j \in DOMAIN R : k \in R[j][1]
    <3> DEFINE H == {j \in DOMAIN R : k \in R[j][1]}
    <3>1. H \subseteq Nat /\ H # {}
      BY <1>3, <2>2
    <3>2. PICK m \in H : \A j \in H : m <= j
      <4> HIDE DEF H
      <4>1. QED BY <3>1, LeastNumber
    <3>3. m \in DOMAIN R /\ k \in R[m][1]
      BY <3>2
    <3>4. t.on
      BY <3>3 DEF R, Default
    <3>5. Chosen(t, k) = R[m][2]
      <4>1. \A j \in DOMAIN R : k \in R[j][1] => m <= j
        BY <3>2
      <4>2. QED BY <1>3, <3>3, <3>4, <4>1, ChosenFirst DEF R
    <3>6. PICK i \in DOMAIN d : d[i] = R[m]
      BY <1>8, <3>3
    <3>7. ASSUME NEW j \in DOMAIN d, k \in d[j][1] PROVE i <= j
      <4>1. i \notin {1, 2} /\ j \notin {1, 2}
        BY <2>1, <3>3, <3>6, <3>7
      <4>2. PICK l \in DOMAIN R : d[j] = R[l]
        BY <2>1, <3>7
      <4>3. m <= l
        BY <3>2, <3>7, <4>2
      <4>4. j < i => l < m
        BY <1>1, <1>2, <1>3, <3>3, <3>6, <4>1, <4>2 DEF UpdatedBy
      <4>5. QED BY <1>3, <3>3, <4>2, <4>3, <4>4
    <3>8. Chosen(s, k) = d[i][2]
      BY <1>3, <3>3, <3>6, <3>7, ChosenFirst DEF d
    <3>9. QED BY <3>5, <3>6, <3>8
  <2>3. CASE \A j \in DOMAIN R : k \notin R[j][1]
    <3>1. \A i \in DOMAIN d : k \notin d[i][1]
      BY <2>1, <2>3
    <3>2. Chosen(s, k) = d[2][2]
      <4>1. d[2][1] = Default /\ 2 \in DOMAIN d
        BY <1>4
      <4>2. QED BY <1>5, <3>1, <4>1, ChosenDefault DEF d
    <3>3. CASE \E j \in DOMAIN R : R[j][1] = Default
      <4>1. PICK j \in DOMAIN R : R[j][1] = Default
        BY <3>3
      <4>2. PICK i \in DOMAIN d : d[i] = R[j]
        BY <1>8
      <4>3. i = 2
        BY <1>4, <1>5, <4>1, <4>2 DEF Keyed
      <4>4. Chosen(t, k) = R[j][2]
        BY <1>5, <2>3, <4>1, ChosenDefault DEF R
      <4>5. QED BY <3>2, <4>2, <4>3, <4>4
    <3>4. CASE \A j \in DOMAIN R : R[j][1] # Default
      <4>1. d[2] = Base[2]
        BY <1>4, <1>6, <3>4
      <4>2. Chosen(t, k) = EndOfParser
        BY <2>3, <3>4, ChosenEnd DEF R
      <4>3. QED BY <1>1, <3>2, <4>1, <4>2
    <3>5. QED BY <3>3, <3>4
  <2>4. QED BY <2>2, <2>3
<1>10. ASSUME k = Tag, \A i \in DOMAIN R : Tag \notin R[i][1] PROVE Chosen(s, k) = TagState
  <2>1. d[1] = Base[1]
    BY <1>4, <1>6, <1>10
  <2>2. \A j \in DOMAIN d : 1 <= j
    BY <1>2
  <2>3. Chosen(s, k) = d[1][2]
    <3>1. 1 \in DOMAIN d /\ k \in d[1][1]
      BY <1>4, <1>10
    <3>2. QED BY <1>3, <2>2, <3>1, ChosenFirst DEF d
  <2>4. QED BY <1>1, <2>1, <2>3
<1>11. QED BY <1>9, <1>10 DEF R

-----------------------------------------------------------------------------
(***************************************************************************)
(* Names                                                                   *)
(***************************************************************************)

LEMMA ShadowNames ==
  ASSUME NEW n, n \in Seq(ToSet(n))
  PROVE  /\ Head(Shadow(n)) = "shadow_" /\ Tail(Shadow(n)) = n /\ Unprefixed(Shadow(n)) = n
         /\ Shadow(n) \notin {Start, ShadowTag, EndOfParser}
<1> DEFINE w == "shadow_"
           S == ToSet(n) \cup {w}
           m == <<w>> \o n
<1>1. m \in Seq(S) /\ Len(m) = Len(n) + 1 /\ m # <<>> /\ m[1] = w /\ \A i \in 1 .. Len(n) : m[i + 1] = n[i]
  <2>1. <<w>> \in Seq(S) /\ Len(<<w>>) = 1 /\ <<w>>[1] = w /\ n \in Seq(S)
    <3>1. w \in S /\ ToSet(n) \subseteq S
      OBVIOUS
    <3> HIDE DEF w, S
    <3>2. QED BY <3>1
  <2>2. Len(n) \in Nat
    OBVIOUS
  <2> HIDE DEF w, S
  <2>3. m \in Seq(S) /\ Len(m) = 1 + Len(n)
        /\ \A i \in 1 .. 1 + Len(n) : m[i] = IF i <= 1 THEN <<w>>[i] ELSE n[i - 1]
    BY <2>1, ConcatProperties
  <2>4. m[1] = w
    BY <2>1, <2>2, <2>3
  <2> HIDE DEF m
  <2>5. QED BY <2>1, <2>2, <2>3, <2>4
<1>2. Head(m) = "shadow_"
  BY <1>1
<1>3. Tail(m) \in Seq(S) /\ Len(Tail(m)) = Len(n) /\ \A i \in 1 .. Len(n) : Tail(m)[i] = m[i + 1]
  <2> HIDE DEF m, S, w
  <2>1. QED BY <1>1, HeadTailProperties
<1>4. Tail(m) = n
  <2>1. n \in Seq(S)
    OBVIOUS
  <2> HIDE DEF m, S
  <2>2. QED BY <1>1, <1>3, <2>1, SeqEqual
<1>5. m # Start /\ m # ShadowTag /\ m # EndOfParser
  <2> HIDE DEF m
  <2>1. QED BY <1>1 DEF Start, ShadowTag, EndOfParser
<1>6. QED BY <1>2, <1>4, <1>5 DEF Shadow, Unprefixed

-----------------------------------------------------------------------------
(***************************************************************************)
(* The heap as it is loaded                                                *)
(***************************************************************************)

\* What PairsAssumption says of a pair.
Apart(r, s) ==
  /\ IsParser(r) /\ IsParser(s)
  /\ ShadowTag \notin DOMAIN r
  /\ \A n \in DOMAIN s : Shadow(n) \notin DOMAIN r \cup DOMAIN s

Objects(r, s) == ({"r"} \X DOMAIN r) \cup ({"s"} \X DOMAIN s) \cup ({"m"} \X DOMAIN MetaParser)
SStart == <<"s", Start>>
SEth == <<"s", Ethernet>>
REth == <<"r", Ethernet>>

\* The states of a parser that a branch may lead to.
Inner(p) == DOMAIN p \ {Start, Ethernet}

LoadedAs(h, r, s) ==
  /\ DOMAIN h.heap = Objects(r, s)
  /\ \A n \in DOMAIN r : <<"r", n>> \in Objects(r, s) /\ h.heap[<<"r", n>>] = Built("r", r, n)
  /\ \A n \in DOMAIN s : <<"s", n>> \in Objects(r, s) /\ h.heap[<<"s", n>>] = Built("s", s, n)
  /\ TagState \in Objects(r, s) /\ h.heap[TagState] = Built("m", MetaParser, ShadowTag)
  /\ h.dict = [n \in DOMAIN s |-> <<"s", n>>]

\* Every object is found where it is looked for.
LEMMA LoadedIs ==
  ASSUME NEW r, NEW s
  PROVE  LoadedAs(Loaded(r, s), r, s)
<1> DEFINE O == Objects(r, s)
           heap == [o \in O |-> CASE o[1] = "r" -> Built("r", r, o[2])
                                  [] o[1] = "s" -> Built("s", s, o[2])
                                  [] o[1] = "m" -> Built("m", MetaParser, o[2])]
<1>1. Loaded(r, s).heap = heap /\ Loaded(r, s).dict = [n \in DOMAIN s |-> <<"s", n>>]
  BY DEF Loaded, Objects
<1>2. TagState \in O /\ \A n \in DOMAIN r : <<"r", n>> \in O
  BY DEF Objects, TagState, MetaParser
<1>3. \A n \in DOMAIN s : <<"s", n>> \in O
  BY DEF Objects
<1> HIDE DEF O
<1>4. \A n \in DOMAIN r : heap[<<"r", n>>] = Built("r", r, n)
  BY <1>2
<1>5. \A n \in DOMAIN s : heap[<<"s", n>>] = Built("s", s, n)
  BY <1>3
<1>6. heap[TagState] = Built("m", MetaParser, ShadowTag)
  BY <1>2 DEF TagState
<1>7. QED BY <1>1, <1>2, <1>3, <1>4, <1>5, <1>6 DEF O, LoadedAs

\* Where the branches of a state lead, in names and in objects.
LEMMA BranchesOf ==
  ASSUME NEW p, IsParser(p), NEW n \in DOMAIN p, n # Start
  PROVE  /\ p[n].to \in Seq(ToSet(p[n].to)) /\ Keyed(p[n].to)
         /\ DOMAIN p[n].to = 1 .. Len(p[n].to) /\ Len(p[n].to) \in Nat
         /\ \A i \in DOMAIN p[n].to : p[n].to[i][2] \in Inner(p) \cup {EndOfParser}
         /\ p[n].on \/ \A i \in DOMAIN p[n].to : p[n].to[i][1] = Default
<1>1. n \in DOMAIN p \ {Start}
  OBVIOUS
<1>2. /\ p[n].to \in Seq(ToSet(p[n].to)) /\ Keyed(p[n].to)
      /\ \A i \in DOMAIN p[n].to : p[n].to[i][2] \in Inner(p) \cup {EndOfParser}
      /\ p[n].on \/ \A i \in DOMAIN p[n].to : p[n].to[i][1] = Default
  BY <1>1 DEF IsParser, Keyed, Inner
<1>3. QED BY <1>2

\* An object's branches are those of its state.
IsBuilt(b, x, s, n) ==
  /\ b.name = n /\ b.extract = s.extract /\ b.on = s.on
  /\ DOMAIN b.to = DOMAIN s.to
  /\ \A i \in DOMAIN s.to :
       /\ b.to[i][1] = s.to[i][1]
       /\ b.to[i][2] = IF s.to[i][2] = EndOfParser THEN EndOfParser ELSE <<x, s.to[i][2]>>

\* Built makes such objects.
LEMMA BuiltIs ==
  ASSUME NEW x, NEW p, NEW n
  PROVE  IsBuilt(Built(x, p, n), x, p[n], n)
BY DEF Built, IsBuilt

\* They lead to the program's own objects.
LEMMA BuiltTargets ==
  ASSUME NEW x, NEW p, IsParser(p), NEW n \in DOMAIN p
  PROVE  /\ n = Start => Targets(Built(x, p, n).to) = {<<x, Ethernet>>}
         /\ n # Start => Targets(Built(x, p, n).to) \subseteq {x} \X Inner(p)
<1> DEFINE b == Built(x, p, n)
<1>1. IsBuilt(b, x, p[n], n)
  BY BuiltIs
<1> HIDE DEF b
<1>2. CASE n = Start
  <2>1. p[n].to = <<<<Default, Ethernet>>>> /\ Ethernet # EndOfParser
    BY <1>2 DEF IsParser, Ethernet, EndOfParser
  <2>2. <<x, Ethernet>> # EndOfParser
    BY DEF EndOfParser
  <2>3. DOMAIN b.to = {1} /\ b.to[1][2] = <<x, Ethernet>>
    <3>1. DOMAIN p[n].to = {1}
      BY <2>1
    <3>2. p[n].to[1][2] = Ethernet
      BY <2>1
    <3>3. QED BY <1>1, <2>1, <3>1, <3>2 DEF IsBuilt
  <2>4. Targets(b.to) = {<<x, Ethernet>>}
    BY <2>2, <2>3 DEF Targets
  <2>5. QED BY <1>2, <2>4 DEF b
<1>3. CASE n # Start
  <2>1. ASSUME NEW i \in DOMAIN b.to, b.to[i][2] # EndOfParser
        PROVE  b.to[i][2] \in {x} \X Inner(p)
    <3>1. i \in DOMAIN p[n].to /\ b.to[i][2] = <<x, p[n].to[i][2]>> /\ p[n].to[i][2] # EndOfParser
      BY <1>1, <2>1 DEF IsBuilt
    <3>2. p[n].to[i][2] \in Inner(p)
      BY <1>3, <3>1, BranchesOf
    <3>3. QED BY <3>1, <3>2
  <2>2. Targets(b.to) \subseteq {x} \X Inner(p)
    BY <2>1 DEF Targets
  <2>3. QED BY <1>3, <2>2 DEF b
<1>4. QED BY <1>2, <1>3

\* The heap is finite, and no branch leaves it.
LEMMA LoadedWithin ==
  ASSUME NEW r, NEW s, IsParser(r), IsParser(s)
  PROVE  /\ IsFiniteSet(Objects(r, s))
         /\ \A o \in Objects(r, s) : Targets(Loaded(r, s).heap[o].to) \subseteq Objects(r, s)
<1>1. IsFiniteSet(Objects(r, s))
  <2>1. IsFiniteSet(DOMAIN r) /\ IsFiniteSet(DOMAIN s) /\ IsFiniteSet(DOMAIN MetaParser)
    BY FS_Singleton DEF IsParser, MetaParser
  <2>2. IsFiniteSet({"r"}) /\ IsFiniteSet({"s"}) /\ IsFiniteSet({"m"})
    BY FS_Singleton
  <2>3. IsFiniteSet({"r"} \X DOMAIN r) /\ IsFiniteSet({"s"} \X DOMAIN s) /\ IsFiniteSet({"m"} \X DOMAIN MetaParser)
    BY <2>1, <2>2, FS_Product
  <2>4. QED BY <2>3, FS_Union DEF Objects
<1>2. LoadedAs(Loaded(r, s), r, s)
  BY LoadedIs
<1>3. ASSUME NEW x \in {"r", "s"}, NEW p, IsParser(p), NEW n \in DOMAIN p
      PROVE  Targets(Built(x, p, n).to) \subseteq {x} \X DOMAIN p
  <2>1. CASE n = Start
    <3>1. Targets(Built(x, p, n).to) = {<<x, Ethernet>>}
      BY <1>3, <2>1, BuiltTargets
    <3>2. Ethernet \in DOMAIN p
      BY <1>3 DEF IsParser
    <3>3. QED BY <3>1, <3>2
  <2>2. CASE n # Start
    <3>1. Targets(Built(x, p, n).to) \subseteq {x} \X Inner(p)
      BY <1>3, <2>2, BuiltTargets
    <3>2. QED BY <3>1 DEF Inner
  <2>3. QED BY <2>1, <2>2
<1>4. ASSUME NEW o \in Objects(r, s) PROVE Targets(Loaded(r, s).heap[o].to) \subseteq Objects(r, s)
  <2>1. CASE o \in {"r"} \X DOMAIN r
    <3>1. PICK n \in DOMAIN r : o = <<"r", n>>
      BY <2>1
    <3>2. Targets(Built("r", r, n).to) \subseteq {"r"} \X DOMAIN r
      BY <1>3
    <3>3. Loaded(r, s).heap[o] = Built("r", r, n)
      BY <1>2, <3>1 DEF LoadedAs
    <3>4. QED BY <3>2, <3>3 DEF Objects
  <2>2. CASE o \in {"s"} \X DOMAIN s
    <3>1. PICK n \in DOMAIN s : o = <<"s", n>>
      BY <2>2
    <3>2. Targets(Built("s", s, n).to) \subseteq {"s"} \X DOMAIN s
      BY <1>3
    <3>3. Loaded(r, s).heap[o] = Built("s", s, n)
      BY <1>2, <3>1 DEF LoadedAs
    <3>4. QED BY <3>2, <3>3 DEF Objects
  <2>3. CASE o \in {"m"} \X DOMAIN MetaParser
    <3>1. o = TagState
      BY <2>3 DEF MetaParser, TagState
    <3> DEFINE b == Built("m", MetaParser, ShadowTag)
    <3>2. IsBuilt(b, "m", MetaParser[ShadowTag], ShadowTag)
      BY BuiltIs
    <3>3. MetaParser[ShadowTag].to = <<<<Default, EndOfParser>>>>
      BY DEF MetaParser
    <3> HIDE DEF b
    <3>4. DOMAIN MetaParser[ShadowTag].to = {1}
      BY <3>3
    <3>5. MetaParser[ShadowTag].to[1][2] = EndOfParser
      BY <3>3
    <3>6. DOMAIN b.to = {1} /\ b.to[1][2] = EndOfParser
      BY <3>2, <3>4, <3>5 DEF IsBuilt
    <3>7. Targets(b.to) = {}
      BY <3>6 DEF Targets
    <3>8. Loaded(r, s).heap[o] = b
      BY <1>2, <3>1 DEF LoadedAs, b
    <3>9. QED BY <3>8, <3>7
  <2>4. QED BY <2>1, <2>2, <2>3 DEF Objects
<1>5. QED BY <1>1, <1>4

\* What find_accessible_parse_states finds: a set it cannot leave.
LEMMA AccessibleClosed ==
  ASSUME NEW heap, IsFiniteSet(DOMAIN heap), NEW o \in DOMAIN heap,
         \A q \in DOMAIN heap : Targets(heap[q].to) \subseteq DOMAIN heap
  PROVE  /\ Accessible(heap, o) \subseteq DOMAIN heap /\ o \in Accessible(heap, o)
         /\ \A q \in Accessible(heap, o) : Targets(heap[q].to) \subseteq Accessible(heap, o)
<1> DEFINE steps == [q \in DOMAIN heap |-> Targets(heap[q].to)]
<1>1. DOMAIN steps = DOMAIN heap /\ \A q \in DOMAIN heap : steps[q] = Targets(heap[q].to)
  OBVIOUS
<1>2. Accessible(heap, o) = Reached(steps, o)
  BY DEF Accessible
<1> HIDE DEF steps
<1>3. Within(steps)
  BY <1>1 DEF Within
<1>4. /\ Reached(steps, o) \subseteq DOMAIN steps /\ o \in Reached(steps, o)
      /\ Closed(steps, Reached(steps, o))
  BY <1>1, <1>3, ReachedClosed
<1>5. QED BY <1>1, <1>2, <1>4 DEF Closed

\* The least.
LEMMA AccessibleLeast ==
  ASSUME NEW heap, IsFiniteSet(DOMAIN heap), NEW o \in DOMAIN heap,
         \A q \in DOMAIN heap : Targets(heap[q].to) \subseteq DOMAIN heap,
         NEW S, o \in S, \A q \in S : Targets(heap[q].to) \subseteq S, S \subseteq DOMAIN heap
  PROVE  Accessible(heap, o) \subseteq S
<1> DEFINE steps == [q \in DOMAIN heap |-> Targets(heap[q].to)]
<1>1. DOMAIN steps = DOMAIN heap /\ \A q \in DOMAIN heap : steps[q] = Targets(heap[q].to)
  OBVIOUS
<1>2. Accessible(heap, o) = Reached(steps, o)
  BY DEF Accessible
<1> HIDE DEF steps
<1>3. Within(steps)
  BY <1>1 DEF Within
<1>4. Closed(steps, S)
  BY <1>1 DEF Closed
<1>5. Reached(steps, o) \subseteq S
  BY <1>1, <1>3, <1>4, ReachedLeast
<1>6. QED BY <1>2, <1>5

\* Testing's states that are reached, but for start: those that are renamed.
Moved(r, s) == Accessible(Loaded(r, s).heap, SStart) \ {SStart}

\* They are states of testing that branches lead to, and parse_ethernet is one.
LEMMA MovedAre ==
  ASSUME NEW r, NEW s, IsParser(r), IsParser(s)
  PROVE  /\ SEth \in Moved(r, s)
         /\ \A o \in Moved(r, s) : o \in {"s"} \X (DOMAIN s \ {Start})
         /\ \A o \in Moved(r, s) : Targets(Loaded(r, s).heap[o].to) \subseteq Moved(r, s) \cap ({"s"} \X Inner(s))
<1> DEFINE heap == Loaded(r, s).heap
           A == Accessible(heap, SStart)
           S == {SStart} \cup ({"s"} \X (DOMAIN s \ {Start}))
<1>1. LoadedAs(Loaded(r, s), r, s)
  BY LoadedIs
<1>2. /\ DOMAIN heap = Objects(r, s) /\ IsFiniteSet(DOMAIN heap)
      /\ \A q \in DOMAIN heap : Targets(heap[q].to) \subseteq DOMAIN heap
  BY <1>1, LoadedWithin DEF LoadedAs
<1>3. Start \in DOMAIN s /\ Ethernet \in DOMAIN s /\ Start # Ethernet
  BY DEF IsParser, Start, Ethernet
<1>4. SStart \in DOMAIN heap /\ heap[SStart] = Built("s", s, Start)
  BY <1>1, <1>2, <1>3 DEF LoadedAs, SStart
<1>5. Targets(heap[SStart].to) = {SEth}
  BY <1>3, <1>4, BuiltTargets DEF SEth
<1>6. ASSUME NEW n \in DOMAIN s \ {Start} PROVE Targets(heap[<<"s", n>>].to) \subseteq {"s"} \X Inner(s)
  <2>1. heap[<<"s", n>>] = Built("s", s, n)
    BY <1>1 DEF LoadedAs
  <2>2. QED BY <2>1, BuiltTargets
<1>7. S \subseteq DOMAIN heap
  BY <1>2, <1>4 DEF Objects
<1>8. ASSUME NEW q \in S PROVE Targets(heap[q].to) \subseteq S
  <2>1. CASE q = SStart
    BY <1>3, <1>5, <2>1 DEF SEth
  <2>2. CASE q \in {"s"} \X (DOMAIN s \ {Start})
    <3>1. PICK n \in DOMAIN s \ {Start} : q = <<"s", n>>
      BY <2>2
    <3>2. QED BY <1>6, <3>1 DEF Inner
  <2>3. QED BY <2>1, <2>2
<1> HIDE DEF heap, S
<1>9. A \subseteq S
  <2>1. SStart \in S
    BY DEF S
  <2>2. QED BY <1>2, <1>4, <1>7, <1>8, <2>1, AccessibleLeast
<1>10. SStart \in A /\ \A q \in A : Targets(heap[q].to) \subseteq A
  BY <1>2, <1>4, AccessibleClosed
<1> HIDE DEF A
<1>11. SEth \in A \ {SStart}
  BY <1>3, <1>5, <1>10 DEF SEth, SStart
<1>12. ASSUME NEW o \in A \ {SStart} PROVE o \in {"s"} \X (DOMAIN s \ {Start})
  BY <1>9 DEF S
<1>13. ASSUME NEW o \in A \ {SStart}
       PROVE  Targets(heap[o].to) \subseteq (A \ {SStart}) \cap ({"s"} \X Inner(s))
  <2>1. PICK n \in DOMAIN s \ {Start} : o = <<"s", n>>
    BY <1>12
  <2>2. Targets(heap[o].to) \subseteq {"s"} \X Inner(s)
    BY <1>6, <2>1
  <2>3. SStart \notin {"s"} \X Inner(s)
    BY DEF SStart, Inner
  <2>4. QED BY <1>10, <2>2, <2>3
<1>14. QED BY <1>11, <1>12, <1>13 DEF Moved, A, heap

-----------------------------------------------------------------------------
(***************************************************************************)
(* The heap as it is merged                                                *)
(***************************************************************************)

\* Testing's states have new names, and are found under them.
RenamedAs(h, l, r, s) ==
  /\ DOMAIN h.heap = Objects(r, s)
  /\ \A o \in Moved(r, s) : h.heap[o] = [l[o] EXCEPT !.name = Shadow(o[2])]
  /\ \A o \in Objects(r, s) \ Moved(r, s) : h.heap[o] = l[o]
  /\ Start \in DOMAIN h.dict /\ h.dict[Start] = SStart
  /\ Shadow(Ethernet) \in DOMAIN h.dict /\ h.dict[Shadow(Ethernet)] = SEth

\* rename_parser_states does that.
LEMMA RenamedIs ==
  ASSUME NEW r, NEW s, Apart(r, s)
  PROVE  RenamedAs(Rename(Loaded(r, s)), Loaded(r, s).heap, r, s)
<1> DEFINE l == Loaded(r, s)
           h == Rename(l)
           M == Moved(r, s)
           moved == {n \in DOMAIN l.dict : l.dict[n] \in M}
           kept == DOMAIN l.dict \ moved
<1>1. LoadedAs(l, r, s) /\ IsParser(r) /\ IsParser(s)
  BY LoadedIs DEF Apart
<1>2. Start \in DOMAIN s /\ Ethernet \in DOMAIN s /\ Ethernet \in Seq(ToSet(Ethernet))
  BY <1>1 DEF IsParser
<1>3. DOMAIN l.dict = DOMAIN s /\ l.dict[Start] = SStart /\ l.dict[Ethernet] = SEth
  BY <1>1, <1>2 DEF LoadedAs, SStart, SEth
<1>4. SStart \notin M /\ SEth \in M
  <2>1. SEth \in M
    BY <1>1, MovedAre
  <2>2. QED BY <2>1 DEF Moved
<1>5. M = Accessible(l.heap, l.dict[Start]) \ {l.dict[Start]}
  BY <1>3 DEF Moved
<1> HIDE DEF M
<1>6. /\ h.heap = [o \in DOMAIN l.heap |-> IF o \in M THEN [l.heap[o] EXCEPT !.name = Shadow(o[2])] ELSE l.heap[o]]
      /\ h.dict = [n \in kept \cup {Shadow(m) : m \in moved} |->
                     IF n \in kept THEN l.dict[n] ELSE l.dict[Tail(n)]]
  BY <1>5 DEF Rename
<1>7. DOMAIN l.heap = Objects(r, s) /\ M \subseteq Objects(r, s)
  <2>1. M \subseteq Objects(r, s)
    BY <1>1, MovedAre DEF M, Objects
  <2>2. QED BY <1>1, <2>1 DEF LoadedAs
<1>8. Start \in kept /\ Ethernet \in moved
  BY <1>2, <1>3, <1>4
<1>9. Shadow(Ethernet) \notin kept
  BY <1>2, <1>3 DEF Apart
<1>10. Tail(Shadow(Ethernet)) = Ethernet
  BY <1>2, ShadowNames
<1> HIDE DEF h, l, moved, kept
<1>11. h.dict[Start] = SStart /\ h.dict[Shadow(Ethernet)] = SEth /\ {Start, Shadow(Ethernet)} \subseteq DOMAIN h.dict
  BY <1>3, <1>6, <1>8, <1>9, <1>10
<1>12. RenamedAs(h, l.heap, r, s)
  BY <1>6, <1>7, <1>11 DEF RenamedAs, M
<1>13. QED BY <1>12 DEF h, l

\* The merged parser: ethernet with the branches of both, the tag's state with
\* testing's, all else as it was.
MergedAs(h, l, r, s) ==
  /\ h.dict[Start] = SStart
  /\ DOMAIN h.heap = Objects(r, s)
  /\ h.heap[SEth].name = Shadow(Ethernet) /\ h.heap[SEth].extract = l[SEth].extract
  /\ h.heap[SEth].on = TRUE /\ h.heap[SEth].to = Update(Base, l[REth].to)
  /\ h.heap[TagState].name = l[TagState].name /\ h.heap[TagState].extract = l[TagState].extract
  /\ h.heap[TagState].on = l[TagState].on /\ h.heap[TagState].to = l[SEth].to
  /\ \A o \in Moved(r, s) \ {SEth} : h.heap[o] = [l[o] EXCEPT !.name = Shadow(o[2])]
  /\ \A o \in Objects(r, s) \ (Moved(r, s) \cup {TagState}) : h.heap[o] = l[o]

\* merge_parser_states makes it.
LEMMA MergedIs ==
  ASSUME NEW r, NEW s, Apart(r, s)
  PROVE  MergedAs(MergeParsers(r, s), Loaded(r, s).heap, r, s)
<1> DEFINE l == Loaded(r, s).heap
           g == Rename(Loaded(r, s))
           a == AddShadowTag(g)
           h == AddProduction(a, r)
           O == Objects(r, s)
           M == Moved(r, s)
<1>1. RenamedAs(g, l, r, s)
  BY RenamedIs
<1>2. IsParser(r) /\ IsParser(s) /\ LoadedAs(Loaded(r, s), r, s)
  BY LoadedIs DEF Apart
<1>3. SEth \in M /\ M \subseteq {"s"} \X (DOMAIN s \ {Start}) /\ M \subseteq O
  <2>1. SEth \in M /\ M \subseteq {"s"} \X (DOMAIN s \ {Start})
    BY <1>2, MovedAre
  <2>2. QED BY <2>1 DEF Objects
<1>4. REth \in O /\ TagState \in O
  BY <1>2 DEF LoadedAs, REth, IsParser
<1>5. REth \notin M /\ TagState \notin M /\ REth # SEth /\ TagState # SEth /\ REth # TagState
  BY <1>3 DEF REth, TagState, SEth
<1>6. Ethernet \in Seq(ToSet(Ethernet)) /\ Shadow(Ethernet) # ShadowTag /\ Start # ShadowTag /\ Start # Shadow(Ethernet)
  <2>1. Ethernet \in Seq(ToSet(Ethernet))
    BY <1>2 DEF IsParser
  <2>2. QED BY <2>1, ShadowNames DEF Start, ShadowTag
<1> DEFINE to == <<<<{Tag}, TagState>>, <<Default, EndOfParser>>>>
<1>7. /\ a.heap = [g.heap EXCEPT ![SEth].on = TRUE, ![SEth].to = to, ![TagState].to = g.heap[SEth].to]
      /\ a.dict = WithState(g.dict, {ShadowTag}, [n \in {ShadowTag} |-> TagState])
  BY <1>1 DEF AddShadowTag, RenamedAs, TagState
<1>8. a.dict[Start] = SStart /\ a.dict[Shadow(Ethernet)] = SEth /\ Start \in DOMAIN a.dict
  BY <1>1, <1>6, <1>7 DEF WithState, RenamedAs
<1>9. /\ h.heap = [a.heap EXCEPT ![SEth].to = Update(@, a.heap[REth].to)]
      /\ h.dict = WithState(a.dict, DOMAIN r \ {Start, Ethernet},
                            [n \in DOMAIN r \ {Start, Ethernet} |-> <<"r", n>>])
  BY <1>8 DEF AddProduction, REth
<1> HIDE DEF h, a, g, l, O, M, to
<1>10. h.dict[Start] = SStart
  BY <1>8, <1>9 DEF WithState
<1>11. /\ DOMAIN g.heap = O
       /\ g.heap[SEth] = [l[SEth] EXCEPT !.name = Shadow(SEth[2])]
       /\ g.heap[TagState] = l[TagState] /\ g.heap[REth] = l[REth]
       /\ \A o \in M \ {SEth} : g.heap[o] = [l[o] EXCEPT !.name = Shadow(o[2])]
       /\ \A o \in O \ (M \cup {TagState}) : g.heap[o] = l[o]
  BY <1>1, <1>3, <1>4, <1>5 DEF RenamedAs, O, M
<1>12. \E x \in {"m", "r", "s"} : \E p : \E n : l[SEth] = Built(x, p, n)
  BY <1>2 DEF LoadedAs, SEth, IsParser, l
<1>13. \E x \in {"m", "r", "s"} : \E p : \E n : l[TagState] = Built(x, p, n)
  BY <1>2 DEF LoadedAs, l
<1>14. DOMAIN l[SEth] = {"name", "extract", "on", "to"} /\ DOMAIN l[TagState] = {"name", "extract", "on", "to"}
  BY <1>12, <1>13 DEF Built
<1>15. /\ g.heap[SEth].name = Shadow(Ethernet) /\ g.heap[SEth].extract = l[SEth].extract
       /\ g.heap[SEth].to = l[SEth].to /\ DOMAIN g.heap[SEth] = {"name", "extract", "on", "to"}
       /\ DOMAIN g.heap[TagState] = {"name", "extract", "on", "to"}
  BY <1>11, <1>14 DEF SEth
<1>16. /\ DOMAIN a.heap = O
       /\ a.heap[SEth] = [[g.heap[SEth] EXCEPT !.on = TRUE] EXCEPT !.to = to]
       /\ a.heap[TagState] = [g.heap[TagState] EXCEPT !.to = g.heap[SEth].to]
       /\ \A o \in O \ {SEth, TagState} : a.heap[o] = g.heap[o]
  BY <1>3, <1>4, <1>5, <1>7, <1>11
<1>17. /\ DOMAIN h.heap = O
       /\ h.heap[SEth] = [a.heap[SEth] EXCEPT !.to = Update(@, a.heap[REth].to)]
       /\ \A o \in O \ {SEth} : h.heap[o] = a.heap[o]
  BY <1>3, <1>9, <1>16
<1>18. /\ a.heap[SEth].name = Shadow(Ethernet) /\ a.heap[SEth].extract = l[SEth].extract
       /\ a.heap[SEth].on = TRUE /\ a.heap[SEth].to = to
       /\ DOMAIN a.heap[SEth] = {"name", "extract", "on", "to"}
  BY <1>15, <1>16
<1>19. a.heap[REth] = l[REth]
  BY <1>4, <1>5, <1>11, <1>16
<1>20. /\ h.heap[SEth].name = Shadow(Ethernet) /\ h.heap[SEth].extract = l[SEth].extract
       /\ h.heap[SEth].on = TRUE /\ h.heap[SEth].to = Update(to, l[REth].to)
  BY <1>17, <1>18, <1>19
<1>21. h.heap[TagState] = [l[TagState] EXCEPT !.to = l[SEth].to]
  BY <1>4, <1>5, <1>11, <1>15, <1>16, <1>17
<1>22. /\ h.heap[TagState].name = l[TagState].name /\ h.heap[TagState].extract = l[TagState].extract
       /\ h.heap[TagState].on = l[TagState].on /\ h.heap[TagState].to = l[SEth].to
  BY <1>14, <1>21
<1>23. \A o \in M \ {SEth} : h.heap[o] = [l[o] EXCEPT !.name = Shadow(o[2])]
  BY <1>3, <1>5, <1>11, <1>16, <1>17
<1>24. \A o \in O \ (M \cup {TagState}) : h.heap[o] = l[o]
  BY <1>3, <1>11, <1>16, <1>17
<1>25. MergedAs(h, l, r, s)
  BY <1>10, <1>17, <1>20, <1>22, <1>23, <1>24 DEF MergedAs, Base, O, M, to
<1>26. QED BY <1>25 DEF MergeParsers, h, a, g, l

-----------------------------------------------------------------------------
(***************************************************************************)
(* Branches of states, objects and dumped states                           *)
(***************************************************************************)

\* A branch leads to a target or to the end.
LEMMA ChosenTarget ==
  ASSUME NEW t, NEW k, DOMAIN t.to \subseteq Nat
  PROVE  Chosen(t, k) \in Targets(t.to) \cup {EndOfParser}
<1>1. \/ \E i \in DOMAIN t.to : Chosen(t, k) = t.to[i][2]
      \/ Chosen(t, k) = EndOfParser
  BY ChosenAlike
<1>2. QED BY <1>1 DEF Targets

\* A state's branch stays in its program.
LEMMA ChosenIn ==
  ASSUME NEW p, IsParser(p), NEW n \in DOMAIN p, n # Start, NEW k
  PROVE  Chosen(p[n], k) \in Inner(p) \cup {EndOfParser}
<1>1. DOMAIN p[n].to \subseteq Nat /\ \A i \in DOMAIN p[n].to : p[n].to[i][2] \in Inner(p) \cup {EndOfParser}
  BY BranchesOf
<1>2. Chosen(p[n], k) \in Targets(p[n].to) \cup {EndOfParser}
  BY <1>1, ChosenTarget
<1>3. QED BY <1>1, <1>2 DEF Targets

\* An object takes the branch of its state.
LEMMA BuiltChosen ==
  ASSUME NEW x, NEW t, NEW n, NEW b, IsBuilt(b, x, t, n), DOMAIN t.to \subseteq Nat, NEW k
  PROVE  Chosen(b, k) = IF Chosen(t, k) = EndOfParser THEN EndOfParser ELSE <<x, Chosen(t, k)>>
<1>1. /\ DOMAIN b.to = DOMAIN t.to /\ (b.on <=> t.on)
      /\ \A i \in DOMAIN t.to : b.to[i][1] = t.to[i][1]
  BY DEF IsBuilt
<1>2. \/ \E i \in DOMAIN t.to : Chosen(b, k) = b.to[i][2] /\ Chosen(t, k) = t.to[i][2]
      \/ Chosen(b, k) = EndOfParser /\ Chosen(t, k) = EndOfParser
  BY <1>1, ChosenAlike
<1>3. QED BY <1>2 DEF IsBuilt

\* A dumped state takes the branch of its object, by name.
LEMMA DumpedChosen ==
  ASSUME NEW heap, NEW o, DOMAIN heap[o].to \subseteq Nat, NEW k
  PROVE  Chosen(DumpedState(heap, o), k)
           = IF Chosen(heap[o], k) = EndOfParser THEN EndOfParser ELSE heap[Chosen(heap[o], k)].name
<1> DEFINE b == DumpedState(heap, o)
           t == heap[o]
<1>1. /\ DOMAIN b.to = DOMAIN t.to /\ (b.on <=> t.on)
      /\ \A i \in DOMAIN t.to : b.to[i][1] = t.to[i][1]
      /\ \A i \in DOMAIN t.to : b.to[i][2] = IF t.to[i][2] = EndOfParser THEN EndOfParser ELSE heap[t.to[i][2]].name
  BY DEF DumpedState
<1> HIDE DEF b, t
<1>2. DOMAIN t.to \subseteq Nat
  BY DEF t
<1>3. \/ \E i \in DOMAIN t.to : Chosen(b, k) = b.to[i][2] /\ Chosen(t, k) = t.to[i][2]
      \/ Chosen(b, k) = EndOfParser /\ Chosen(t, k) = EndOfParser
  BY <1>1, <1>2, ChosenAlike
<1>4. Chosen(b, k) = IF Chosen(t, k) = EndOfParser THEN EndOfParser ELSE heap[Chosen(t, k)].name
  BY <1>1, <1>3
<1>5. QED BY <1>4 DEF b, t

\* A sequence of branches and Base are sequences over some set.
LEMMA BothBranches ==
  ASSUME NEW to, NEW n \in Nat, DOMAIN to = 1 .. n, to = [i \in DOMAIN to |-> to[i]]
  PROVE  \E B : Base \in Seq(B) /\ to \in Seq(B)
<1> DEFINE B == {Base[1], Base[2]} \cup {to[i] : i \in DOMAIN to}
<1>1. Base \in Seq({Base[1], Base[2]})
  BY DEF Base
<1>2. to \in [1 .. n -> B]
  OBVIOUS
<1>3. to \in Seq(B)
  <2> HIDE DEF B
  <2>1. QED BY <1>2
<1>4. Base \in Seq(B)
  <2>1. {Base[1], Base[2]} \subseteq B
    OBVIOUS
  <2> HIDE DEF B
  <2>2. QED BY <1>1, <2>1
<1>5. QED BY <1>3, <1>4

-----------------------------------------------------------------------------
(***************************************************************************)
(* The objects that the merged parser can come to                          *)
(***************************************************************************)

LiveObjects(heap, r, s) ==
  /\ IsBuilt(heap[SStart], "s", s[Start], Start)
  /\ /\ heap[SEth].name = Shadow(Ethernet) /\ heap[SEth].extract = "ethernet" /\ heap[SEth].on = TRUE
     /\ heap[SEth].to = Update(Base, Built("r", r, Ethernet).to)
  /\ /\ heap[TagState].name = ShadowTag /\ heap[TagState].extract = "shadow_tag" /\ heap[TagState].on = TRUE
     /\ heap[TagState].to = Built("s", s, Ethernet).to
  /\ \A n \in Inner(r) : IsBuilt(heap[<<"r", n>>], "r", r[n], n)
  /\ \A n \in Inner(s) : <<"s", n>> \in Moved(r, s) => IsBuilt(heap[<<"s", n>>], "s", s[n], Shadow(n))

\* What each of them has become.
LEMMA LiveObjectsAre ==
  ASSUME NEW r, NEW s, Apart(r, s)
  PROVE  LiveObjects(MergeParsers(r, s).heap, r, s)
<1> DEFINE l == Loaded(r, s).heap
           h == MergeParsers(r, s)
           H == h.heap
           M == Moved(r, s)
<1>1. IsParser(r) /\ IsParser(s) /\ LoadedAs(Loaded(r, s), r, s) /\ MergedAs(h, l, r, s)
  BY LoadedIs, MergedIs DEF Apart
<1>2. /\ {Start, Ethernet} \subseteq DOMAIN s /\ {Start, Ethernet} \subseteq DOMAIN r
      /\ r[Ethernet].extract = "ethernet" /\ s[Ethernet].extract = "ethernet"
  BY <1>1 DEF IsParser
<1>3. l[SStart] = Built("s", s, Start) /\ l[SEth] = Built("s", s, Ethernet) /\ l[REth] = Built("r", r, Ethernet)
      /\ l[TagState] = Built("m", MetaParser, ShadowTag) /\ SStart \in Objects(r, s)
  BY <1>1, <1>2 DEF LoadedAs, SStart, SEth, REth
<1>4. /\ \A n \in DOMAIN r : l[<<"r", n>>] = Built("r", r, n) /\ <<"r", n>> \in Objects(r, s)
      /\ \A n \in DOMAIN s : l[<<"s", n>>] = Built("s", s, n) /\ <<"s", n>> \in Objects(r, s)
  BY <1>1 DEF LoadedAs
<1>5. M \subseteq {"s"} \X (DOMAIN s \ {Start})
  BY <1>1, MovedAre
<1> HIDE DEF l, M, h, H
<1>6. IsBuilt(H[SStart], "s", s[Start], Start)
  <2>1. SStart \notin M /\ SStart # TagState
    BY <1>5 DEF SStart, TagState
  <2>2. H[SStart] = l[SStart]
    BY <1>1, <1>3, <2>1 DEF MergedAs, M, H
  <2>3. QED BY <1>3, <2>2, BuiltIs
<1>7. /\ H[SEth].name = Shadow(Ethernet) /\ H[SEth].extract = "ethernet" /\ H[SEth].on = TRUE
      /\ H[SEth].to = Update(Base, Built("r", r, Ethernet).to)
  <2>1. l[SEth].extract = "ethernet"
    BY <1>2, <1>3, BuiltIs DEF IsBuilt
  <2>2. QED BY <1>1, <1>3, <2>1 DEF MergedAs, H
<1>8. /\ H[TagState].name = ShadowTag /\ H[TagState].extract = "shadow_tag" /\ H[TagState].on = TRUE
      /\ H[TagState].to = Built("s", s, Ethernet).to
  <2>1. IsBuilt(l[TagState], "m", MetaParser[ShadowTag], ShadowTag)
    BY <1>3, BuiltIs
  <2>2. MetaParser[ShadowTag].extract = "shadow_tag" /\ MetaParser[ShadowTag].on = TRUE
    BY DEF MetaParser
  <2>3. l[TagState].name = ShadowTag /\ l[TagState].extract = "shadow_tag" /\ l[TagState].on = TRUE
    BY <2>1, <2>2 DEF IsBuilt
  <2>4. QED BY <1>1, <1>3, <2>3 DEF MergedAs, H
<1>9. ASSUME NEW n \in Inner(r) PROVE IsBuilt(H[<<"r", n>>], "r", r[n], n)
  <2>1. n \in DOMAIN r /\ <<"r", n>> \notin M /\ <<"r", n>> # TagState
    BY <1>5 DEF TagState, Inner
  <2>2. H[<<"r", n>>] = l[<<"r", n>>]
    BY <1>1, <1>4, <2>1 DEF MergedAs, M, H
  <2>3. QED BY <1>4, <2>1, <2>2, BuiltIs
<1>10. ASSUME NEW n \in Inner(s), <<"s", n>> \in M PROVE IsBuilt(H[<<"s", n>>], "s", s[n], Shadow(n))
  <2>1. n \in DOMAIN s /\ <<"s", n>> # SEth
    BY DEF SEth, Inner
  <2>2. H[<<"s", n>>] = [l[<<"s", n>>] EXCEPT !.name = Shadow(n)]
    BY <1>1, <1>10, <2>1 DEF MergedAs, M, H
  <2>3. l[<<"s", n>>] = Built("s", s, n)
    BY <1>4, <2>1
  <2>4. DOMAIN l[<<"s", n>>] = {"name", "extract", "on", "to"}
    BY <2>3 DEF Built
  <2>5. IsBuilt(l[<<"s", n>>], "s", s[n], n)
    BY <2>3, BuiltIs
  <2> DEFINE b == l[<<"s", n>>]
             c == H[<<"s", n>>]
  <2>6. c.name = Shadow(n) /\ c.extract = b.extract /\ c.on = b.on /\ c.to = b.to
    <3> HIDE DEF b
    <3>1. c = [b EXCEPT !.name = Shadow(n)] /\ DOMAIN b = {"name", "extract", "on", "to"}
      BY <2>2, <2>4 DEF b
    <3> HIDE DEF c
    <3>2. QED BY <3>1
  <2> HIDE DEF b, c
  <2>7. IsBuilt(c, "s", s[n], Shadow(n))
    BY <2>5, <2>6 DEF IsBuilt, b
  <2>8. QED BY <2>7 DEF c
<1>11. QED BY <1>6, <1>7, <1>8, <1>9, <1>10 DEF LiveObjects, M, H, h

Live(r, s) == {SStart, TagState} \cup ({"r"} \X Inner(r)) \cup Moved(r, s)

\* The branches that ethernet has of production, and that of the tag.
LEMMA EthernetTargets ==
  ASSUME NEW r, IsParser(r)
  PROVE  LET to == Update(Base, Built("r", r, Ethernet).to)
         IN /\ DOMAIN to \subseteq Nat /\ \E k \in Nat : DOMAIN to = 1 .. k
            /\ Targets(to) \subseteq {TagState} \cup ({"r"} \X Inner(r))
<1> DEFINE b == Built("r", r, Ethernet)
           to == Update(Base, b.to)
<1>1. Ethernet \in DOMAIN r /\ Ethernet # Start
  BY DEF IsParser, Ethernet, Start
<1>2. IsBuilt(b, "r", r[Ethernet], Ethernet) /\ b.to = [i \in DOMAIN b.to |-> b.to[i]]
  BY BuiltIs DEF Built
<1>3. DOMAIN r[Ethernet].to = 1 .. Len(r[Ethernet].to) /\ Len(r[Ethernet].to) \in Nat /\ Keyed(r[Ethernet].to)
  BY <1>1, BranchesOf
<1>4. Targets(b.to) \subseteq {"r"} \X Inner(r)
  BY <1>1, BuiltTargets
<1> HIDE DEF b
<1>5. DOMAIN b.to = 1 .. Len(r[Ethernet].to) /\ Keyed(b.to)
  <2>1. DOMAIN b.to = DOMAIN r[Ethernet].to /\ \A i \in DOMAIN b.to : b.to[i][1] = r[Ethernet].to[i][1]
    BY <1>2 DEF IsBuilt
  <2>2. Keyed(b.to)
    BY <1>3, <2>1 DEF Keyed
  <2>3. QED BY <1>3, <2>1, <2>2
<1>6. PICK B : Base \in Seq(B) /\ b.to \in Seq(B)
  BY <1>2, <1>3, <1>5, BothBranches
<1>7. Keyed(Base) /\ DOMAIN Base = {1, 2} /\ Base[1][2] = TagState /\ Base[2][2] = EndOfParser
  <2>1. DOMAIN Base = {1, 2} /\ Base[1] = <<{Tag}, TagState>> /\ Base[2] = <<Default, EndOfParser>>
    BY DEF Base
  <2>2. Base[1][1] # Base[2][1]
    BY <2>1 DEF Default
  <2>3. QED BY <2>1, <2>2 DEF Keyed
<1>8. to \in Seq(B) /\ UpdatedBy(to, Base, b.to, Len(b.to))
  BY <1>5, <1>6, <1>7, UpdateEffect
<1>9. DOMAIN b.to = 1 .. Len(b.to)
  BY <1>6
<1>10. \A i \in DOMAIN to : (i \in {1, 2} /\ to[i] = Base[i]) \/ \E j \in DOMAIN b.to : to[i] = b.to[j]
  BY <1>7, <1>8, <1>9 DEF UpdatedBy
<1>11. DOMAIN to \subseteq Nat /\ \E k \in Nat : DOMAIN to = 1 .. k
  BY <1>8
<1> HIDE DEF to
<1>12. Targets(to) \subseteq {TagState} \cup Targets(b.to)
  BY <1>7, <1>10 DEF Targets
<1>13. QED BY <1>4, <1>11, <1>12 DEF to, b

\* Where the branches of an object lead that has those of a state.
LEMMA StateTargets ==
  ASSUME NEW p, IsParser(p), NEW n \in DOMAIN p, n # Start, NEW b, NEW x, NEW m, IsBuilt(b, x, p[n], m)
  PROVE  DOMAIN b.to \subseteq Nat /\ Targets(b.to) = Targets(Built(x, p, n).to)
                                   /\ Targets(b.to) \subseteq {x} \X Inner(p)
<1> DEFINE c == Built(x, p, n)
<1>1. IsBuilt(c, x, p[n], n)
  BY BuiltIs
<1>2. Targets(c.to) \subseteq {x} \X Inner(p)
  BY BuiltTargets
<1> HIDE DEF c
<1>3. DOMAIN b.to = DOMAIN c.to /\ \A i \in DOMAIN b.to : b.to[i][2] = c.to[i][2]
  <2>1. DOMAIN b.to = DOMAIN p[n].to /\ DOMAIN c.to = DOMAIN p[n].to
    BY <1>1 DEF IsBuilt
  <2>2. ASSUME NEW i \in DOMAIN p[n].to PROVE b.to[i][2] = c.to[i][2]
    BY <1>1 DEF IsBuilt
  <2>3. QED BY <2>1, <2>2
<1>4. Targets(b.to) = Targets(c.to)
  BY <1>3 DEF Targets
<1>5. DOMAIN b.to \subseteq Nat
  BY BranchesOf DEF IsBuilt
<1>6. QED BY <1>2, <1>4, <1>5 DEF c

\* From these objects, branches lead to these.
LEMMA LiveTargets ==
  ASSUME NEW r, NEW s, Apart(r, s), NEW heap, LiveObjects(heap, r, s), NEW o \in Live(r, s)
  PROVE  DOMAIN heap[o].to \subseteq Nat /\ Targets(heap[o].to) \subseteq Live(r, s)
<1>1. IsParser(r) /\ IsParser(s)
  BY DEF Apart
<1>2. /\ SEth \in Moved(r, s) /\ Moved(r, s) \subseteq {"s"} \X (DOMAIN s \ {Start})
      /\ \A q \in Moved(r, s) : Targets(Loaded(r, s).heap[q].to) \subseteq Moved(r, s)
  BY <1>1, MovedAre
<1>3. Ethernet \in DOMAIN s /\ Ethernet # Start /\ LoadedAs(Loaded(r, s), r, s)
  BY <1>1, LoadedIs DEF IsParser, Ethernet, Start
<1>4. \A n \in DOMAIN s : Loaded(r, s).heap[<<"s", n>>] = Built("s", s, n)
  BY <1>3 DEF LoadedAs
<1>5. \A n \in DOMAIN s : <<"s", n>> \in Moved(r, s) => Targets(Built("s", s, n).to) \subseteq Live(r, s)
  BY <1>2, <1>4 DEF Live
<1>6. CASE o = SStart
  <2>1. IsBuilt(heap[o], "s", s[Start], Start)
    BY <1>6 DEF LiveObjects
  <2>2. s[Start].to = <<<<Default, Ethernet>>>> /\ Ethernet # EndOfParser
    BY <1>1 DEF IsParser, Ethernet, EndOfParser
  <2>3. DOMAIN s[Start].to = {1}
    BY <2>2
  <2>4. s[Start].to[1][2] = Ethernet
    BY <2>2
  <2>5. DOMAIN heap[o].to = {1} /\ heap[o].to[1][2] = SEth
    BY <2>1, <2>2, <2>3, <2>4 DEF IsBuilt, SEth
  <2>6. Targets(heap[o].to) \subseteq {SEth}
    BY <2>5 DEF Targets
  <2>7. QED BY <1>2, <2>5, <2>6 DEF Live
<1>7. CASE o = SEth
  <2>1. heap[o].to = Update(Base, Built("r", r, Ethernet).to)
    BY <1>7 DEF LiveObjects
  <2>2. QED BY <1>1, <2>1, EthernetTargets DEF Live
<1>8. CASE o = TagState
  <2>1. heap[o].to = Built("s", s, Ethernet).to
    BY <1>8 DEF LiveObjects
  <2>2. IsBuilt(Built("s", s, Ethernet), "s", s[Ethernet], Ethernet)
    BY BuiltIs
  <2>3. DOMAIN heap[o].to \subseteq Nat
    BY <1>1, <1>3, <2>1, <2>2, StateTargets
  <2>4. Targets(heap[o].to) \subseteq Live(r, s)
    BY <1>2, <1>3, <1>5, <2>1 DEF SEth
  <2>5. QED BY <2>3, <2>4
<1>9. CASE o \in {"r"} \X Inner(r)
  <2>1. PICK n \in Inner(r) : o = <<"r", n>>
    BY <1>9
  <2>2. IsBuilt(heap[o], "r", r[n], n) /\ n \in DOMAIN r /\ n # Start
    BY <2>1 DEF LiveObjects, Inner
  <2>3. DOMAIN heap[o].to \subseteq Nat /\ Targets(heap[o].to) \subseteq {"r"} \X Inner(r)
    BY <1>1, <2>2, StateTargets
  <2>4. QED BY <2>3 DEF Live
<1>10. CASE o \in Moved(r, s) /\ o # SEth
  <2>1. PICK n \in DOMAIN s \ {Start} : o = <<"s", n>>
    BY <1>2, <1>10
  <2>2. n \in Inner(s)
    BY <1>10, <2>1 DEF Inner, SEth
  <2>3. IsBuilt(heap[o], "s", s[n], Shadow(n))
    BY <1>10, <2>1, <2>2 DEF LiveObjects
  <2>4. DOMAIN heap[o].to \subseteq Nat /\ Targets(heap[o].to) = Targets(Built("s", s, n).to)
    BY <1>1, <2>1, <2>3, StateTargets
  <2>5. QED BY <1>5, <1>10, <2>1, <2>4
<1>11. QED BY <1>6, <1>7, <1>8, <1>9, <1>10 DEF Live

\* No branch leaves the merged heap, and what is dumped is what is described above.
LEMMA MergedWithin ==
  ASSUME NEW r, NEW s, Apart(r, s), NEW h, h = MergeParsers(r, s)
  PROVE  /\ IsFiniteSet(DOMAIN h.heap) /\ h.dict[Start] = SStart /\ SStart \in DOMAIN h.heap
         /\ \A q \in DOMAIN h.heap : Targets(h.heap[q].to) \subseteq DOMAIN h.heap
         /\ LiveObjects(h.heap, r, s)
         /\ Accessible(h.heap, SStart) \subseteq Live(r, s)
<1> DEFINE l == Loaded(r, s).heap
           H == h.heap
           O == Objects(r, s)
<1>1. IsParser(r) /\ IsParser(s) /\ MergedAs(h, l, r, s) /\ LiveObjects(H, r, s)
  BY MergedIs, LiveObjectsAre DEF Apart
<1>2. DOMAIN H = O /\ h.dict[Start] = SStart /\ \A o \in O \ (Moved(r, s) \cup {TagState}) : H[o] = l[o]
  BY <1>1 DEF MergedAs
<1>3. IsFiniteSet(O) /\ \A o \in O : Targets(l[o].to) \subseteq O
  BY <1>1, LoadedWithin
<1>4. Live(r, s) \subseteq O
  <2>1. Moved(r, s) \subseteq {"s"} \X (DOMAIN s \ {Start})
    BY <1>1, MovedAre
  <2>2. Start \in DOMAIN s /\ TagState \in O
    BY <1>1, LoadedIs DEF IsParser, LoadedAs
  <2>3. QED BY <2>1, <2>2 DEF Objects, Live, SStart, Inner
<1> HIDE DEF H, l, O
<1>5. \A q \in Live(r, s) : Targets(H[q].to) \subseteq Live(r, s)
  BY <1>1, LiveTargets
<1>6. \A q \in O : Targets(H[q].to) \subseteq O
  <2>1. TAKE q \in O
  <2>2. CASE q \in Live(r, s)
    BY <1>4, <1>5, <2>2
  <2>3. CASE q \notin Live(r, s)
    <3>1. H[q] = l[q]
      BY <1>2, <2>3 DEF Live
    <3>2. QED BY <1>3, <3>1
  <2>4. QED BY <2>2, <2>3
<1>7. SStart \in Live(r, s) /\ SStart \in O
  BY <1>4 DEF Live
<1>8. Accessible(H, SStart) \subseteq Live(r, s)
  BY <1>2, <1>3, <1>4, <1>5, <1>6, <1>7, AccessibleLeast
<1>9. QED BY <1>1, <1>2, <1>3, <1>6, <1>7, <1>8 DEF H

-----------------------------------------------------------------------------
(***************************************************************************)
(* The states of the merged parser                                         *)
(***************************************************************************)

\* Production has no case for the tag after ethernet.
NoOwnTag(r) == \A i \in DOMAIN r[Ethernet].to : Tag \notin r[Ethernet].to[i][1]

Renamed(n) == IF n = EndOfParser THEN EndOfParser ELSE Shadow(n)

FromStart(t) == t.name = Start /\ t.extract = NoHeader /\ \A k : Chosen(t, k) = Shadow(Ethernet)
FromBoth(t, r) ==
  /\ t.name = Shadow(Ethernet) /\ t.extract = "ethernet"
  /\ \A k : k # Tag => Chosen(t, k) = Chosen(r[Ethernet], k)
  /\ \A k : Chosen(t, k) \in Inner(r) \cup {ShadowTag, EndOfParser}
  /\ NoOwnTag(r) => Chosen(t, Tag) = ShadowTag
FromTag(t, s) ==
  /\ t.name = ShadowTag /\ t.extract = "shadow_tag"
  /\ \A k : Chosen(t, k) = Renamed(Chosen(s[Ethernet], k))
FromProduction(t, r, n) == t.name = n /\ t.extract = r[n].extract /\ \A k : Chosen(t, k) = Chosen(r[n], k)
FromTesting(t, s, n) ==
  t.name = Shadow(n) /\ t.extract = s[n].extract /\ \A k : Chosen(t, k) = Renamed(Chosen(s[n], k))

StateIs(t, r, s) ==
  \/ FromStart(t)
  \/ FromBoth(t, r)
  \/ FromTag(t, s)
  \/ \E n \in Inner(r) : FromProduction(t, r, n)
  \/ \E n \in Inner(s) : FromTesting(t, s, n)

\* What the branches of production's states are called when they are dumped.
LEMMA ProductionBranch ==
  ASSUME NEW r, NEW s, Apart(r, s), NEW heap, LiveObjects(heap, r, s),
         NEW n \in DOMAIN r, n # Start, NEW o, DOMAIN heap[o].to \subseteq Nat, NEW k,
         Chosen(heap[o], k) = IF Chosen(r[n], k) = EndOfParser THEN EndOfParser ELSE <<"r", Chosen(r[n], k)>>
  PROVE  Chosen(DumpedState(heap, o), k) = Chosen(r[n], k)
<1> DEFINE c == Chosen(r[n], k)
           q == Chosen(heap[o], k)
<1>1. Chosen(DumpedState(heap, o), k) = IF q = EndOfParser THEN EndOfParser ELSE heap[q].name
  BY DumpedChosen
<1>2. c \in Inner(r) \cup {EndOfParser}
  BY ChosenIn DEF Apart
<1>3. q = IF c = EndOfParser THEN EndOfParser ELSE <<"r", c>>
  OBVIOUS
<1> HIDE DEF c, q
<1>4. CASE c = EndOfParser
  BY <1>1, <1>3, <1>4 DEF c
<1>5. CASE c # EndOfParser
  <2>1. heap[<<"r", c>>].name = c
    BY <1>2, <1>5 DEF LiveObjects, IsBuilt
  <2>2. <<"r", c>> # EndOfParser
    BY DEF EndOfParser
  <2>3. QED BY <1>1, <1>3, <1>5, <2>1, <2>2 DEF c
<1>6. QED BY <1>4, <1>5

\* The same of testing's.
LEMMA TestingBranch ==
  ASSUME NEW r, NEW s, Apart(r, s), NEW heap, LiveObjects(heap, r, s),
         NEW n \in DOMAIN s, n # Start, <<"s", n>> \in Moved(r, s),
         NEW o, DOMAIN heap[o].to \subseteq Nat, NEW k,
         Chosen(heap[o], k) = IF Chosen(s[n], k) = EndOfParser THEN EndOfParser ELSE <<"s", Chosen(s[n], k)>>
  PROVE  Chosen(DumpedState(heap, o), k) = Renamed(Chosen(s[n], k))
<1> DEFINE c == Chosen(s[n], k)
           q == Chosen(heap[o], k)
<1>1. Chosen(DumpedState(heap, o), k) = IF q = EndOfParser THEN EndOfParser ELSE heap[q].name
  BY DumpedChosen
<1>2. IsParser(s) /\ IsParser(r)
  BY DEF Apart
<1>3. c \in Inner(s) \cup {EndOfParser}
  BY <1>2, ChosenIn
<1>4. q = IF c = EndOfParser THEN EndOfParser ELSE <<"s", c>>
  OBVIOUS
<1>5. c # EndOfParser => <<"s", c>> \in Moved(r, s)
  <2> DEFINE b == Built("s", s, n)
  <2>1. IsBuilt(b, "s", s[n], n) /\ Loaded(r, s).heap[<<"s", n>>] = b
    <3>1. IsBuilt(b, "s", s[n], n)
      BY BuiltIs
    <3>2. LoadedAs(Loaded(r, s), r, s)
      BY LoadedIs
    <3>3. Loaded(r, s).heap[<<"s", n>>] = b
      BY <1>2, <3>2 DEF LoadedAs
    <3>4. QED BY <3>1, <3>3
  <2>2. Targets(b.to) \subseteq Moved(r, s)
    BY <1>2, <2>1, MovedAre
  <2>3. DOMAIN s[n].to \subseteq Nat
    BY <1>2, BranchesOf
  <2> HIDE DEF b
  <2>4. DOMAIN b.to \subseteq Nat /\ Chosen(b, k) = IF c = EndOfParser THEN EndOfParser ELSE <<"s", c>>
    <3>1. Chosen(b, k) = IF c = EndOfParser THEN EndOfParser ELSE <<"s", c>>
      BY <2>1, <2>3, BuiltChosen
    <3>2. QED BY <2>1, <2>3, <3>1 DEF IsBuilt
  <2>5. Chosen(b, k) \in Targets(b.to) \cup {EndOfParser}
    BY <2>4, ChosenTarget
  <2>6. <<"s", c>> # EndOfParser
    BY DEF EndOfParser
  <2>7. QED BY <2>2, <2>4, <2>5, <2>6
<1> HIDE DEF c, q
<1>6. CASE c = EndOfParser
  BY <1>1, <1>4, <1>6 DEF c, Renamed
<1>7. CASE c # EndOfParser
  <2>1. heap[<<"s", c>>].name = Shadow(c)
    BY <1>3, <1>5, <1>7 DEF LiveObjects, IsBuilt
  <2>2. <<"s", c>> # EndOfParser
    BY DEF EndOfParser
  <2>3. QED BY <1>1, <1>4, <1>7, <2>1, <2>2 DEF c, Renamed
<1>8. QED BY <1>6, <1>7

\* The dumped states that have r's branches after ethernet and one to the tag's.
LEMMA BothBranch ==
  ASSUME NEW r, NEW s, Apart(r, s), NEW heap, LiveObjects(heap, r, s)
  PROVE  FromBoth(DumpedState(heap, SEth), r)
<1> DEFINE b == Built("r", r, Ethernet)
           t == DumpedState(heap, SEth)
<1>1. IsParser(r) /\ Ethernet \in DOMAIN r /\ Ethernet # Start
  BY DEF Apart, IsParser, Ethernet, Start
<1>2. IsBuilt(b, "r", r[Ethernet], Ethernet) /\ b.to = [i \in DOMAIN b.to |-> b.to[i]]
  BY BuiltIs DEF Built
<1>3. /\ DOMAIN r[Ethernet].to = 1 .. Len(r[Ethernet].to) /\ Len(r[Ethernet].to) \in Nat
      /\ Keyed(r[Ethernet].to)
      /\ r[Ethernet].on \/ \A i \in DOMAIN r[Ethernet].to : r[Ethernet].to[i][1] = Default
  BY <1>1, BranchesOf
<1>4. DOMAIN heap[SEth].to \subseteq Nat
  BY <1>1, EthernetTargets DEF LiveObjects
<1>5. heap[SEth].on /\ heap[SEth].to = Update(Base, b.to)
  BY DEF LiveObjects
<1> HIDE DEF b
<1>6. /\ DOMAIN b.to = DOMAIN r[Ethernet].to /\ Keyed(b.to)
      /\ b.on \/ \A i \in DOMAIN b.to : b.to[i][1] = Default
  <2>1. DOMAIN b.to = DOMAIN r[Ethernet].to /\ \A i \in DOMAIN b.to : b.to[i][1] = r[Ethernet].to[i][1]
    BY <1>2 DEF IsBuilt
  <2>2. Keyed(b.to)
    BY <1>3, <2>1 DEF Keyed
  <2>3. b.on = r[Ethernet].on
    BY <1>2 DEF IsBuilt
  <2>4. QED BY <1>3, <2>1, <2>2, <2>3
<1>7. PICK B : Base \in Seq(B) /\ b.to \in Seq(B)
  BY <1>2, <1>3, <1>6, BothBranches
<1>8. ASSUME NEW k
      PROVE  /\ k # Tag => Chosen(heap[SEth], k) = Chosen(b, k)
             /\ k = Tag /\ (\A i \in DOMAIN b.to : Tag \notin b.to[i][1]) => Chosen(heap[SEth], k) = TagState
  <2> DEFINE e == heap[SEth]
  <2>1. e.on /\ e.to = Update(Base, b.to)
    BY <1>5
  <2> HIDE DEF e
  <2>2. /\ k # Tag => Chosen(e, k) = Chosen(b, k)
        /\ k = Tag /\ (\A i \in DOMAIN b.to : Tag \notin b.to[i][1]) => Chosen(e, k) = TagState
    BY <1>6, <1>7, <2>1, ChosenUpdated
  <2>3. QED BY <2>2 DEF e
<1>9. ASSUME NEW k, k # Tag PROVE Chosen(t, k) = Chosen(r[Ethernet], k)
  <2>1. Chosen(b, k) = IF Chosen(r[Ethernet], k) = EndOfParser THEN EndOfParser ELSE <<"r", Chosen(r[Ethernet], k)>>
    BY <1>2, <1>3, BuiltChosen
  <2>2. Chosen(heap[SEth], k) = Chosen(b, k)
    BY <1>8, <1>9
  <2>3. QED BY <1>1, <1>4, <2>1, <2>2, ProductionBranch
<1>10. ASSUME NoOwnTag(r) PROVE Chosen(t, Tag) = ShadowTag
  <2>1. \A i \in DOMAIN b.to : Tag \notin b.to[i][1]
    BY <1>2, <1>10 DEF NoOwnTag, IsBuilt
  <2>2. Chosen(heap[SEth], Tag) = TagState
    BY <1>8, <2>1
  <2>3. TagState # EndOfParser /\ heap[TagState].name = ShadowTag
    BY DEF TagState, EndOfParser, LiveObjects
  <2>4. Chosen(t, Tag) = IF TagState = EndOfParser THEN EndOfParser ELSE heap[TagState].name
    BY <1>4, <2>2, DumpedChosen
  <2>5. QED BY <2>3, <2>4
<1>11. ASSUME NEW k PROVE Chosen(t, k) \in Inner(r) \cup {ShadowTag, EndOfParser}
  <2> DEFINE q == Chosen(heap[SEth], k)
  <2>1. Chosen(t, k) = IF q = EndOfParser THEN EndOfParser ELSE heap[q].name
    BY <1>4, DumpedChosen
  <2>2. q \in {TagState, EndOfParser} \cup ({"r"} \X Inner(r))
    <3>1. q \in Targets(heap[SEth].to) \cup {EndOfParser}
      BY <1>4, ChosenTarget
    <3>2. heap[SEth].to = Update(Base, Built("r", r, Ethernet).to)
      BY DEF LiveObjects
    <3>3. Targets(heap[SEth].to) \subseteq {TagState} \cup ({"r"} \X Inner(r))
      BY <1>1, <3>2, EthernetTargets
    <3>4. QED BY <3>1, <3>3
  <2>3. heap[TagState].name = ShadowTag /\ \A n \in Inner(r) : heap[<<"r", n>>].name = n
    BY DEF LiveObjects, IsBuilt
  <2> HIDE DEF q, t
  <2>4. QED BY <2>1, <2>2, <2>3
<1>12. t.name = Shadow(Ethernet) /\ t.extract = "ethernet"
  BY DEF LiveObjects, DumpedState
<1> HIDE DEF t
<1>13. FromBoth(t, r)
  BY <1>9, <1>10, <1>11, <1>12 DEF FromBoth
<1>14. QED BY <1>13 DEF t

\* Every state that is dumped is one of these.
LEMMA StatesAre ==
  ASSUME NEW r, NEW s, Apart(r, s), NEW heap, LiveObjects(heap, r, s), NEW o \in Live(r, s)
  PROVE  StateIs(DumpedState(heap, o), r, s)
<1> DEFINE t == DumpedState(heap, o)
<1>1. IsParser(r) /\ IsParser(s) /\ Ethernet \in DOMAIN s /\ Ethernet # Start
  BY DEF Apart, IsParser, Ethernet, Start
<1>2. DOMAIN heap[o].to \subseteq Nat
  BY LiveTargets
<1>3. t.name = heap[o].name /\ t.extract = heap[o].extract
  BY DEF DumpedState
<1>4. SEth \in Moved(r, s) /\ Moved(r, s) \subseteq {"s"} \X (DOMAIN s \ {Start})
  BY <1>1, MovedAre
<1>5. CASE o = SStart
  <2>1. IsBuilt(heap[o], "s", s[Start], Start)
    BY <1>5 DEF LiveObjects
  <2>2. s[Start].to = <<<<Default, Ethernet>>>> /\ s[Start].extract = NoHeader
    BY <1>1 DEF IsParser
  <2>3. DOMAIN s[Start].to = {1}
    BY <2>2
  <2>4. s[Start].to[1][1] = Default /\ s[Start].to[1][2] = Ethernet
    BY <2>2
  <2>5. ASSUME NEW k PROVE Chosen(t, k) = Shadow(Ethernet)
    <3>1. Ethernet # EndOfParser
      BY DEF Ethernet, EndOfParser
    <3>2. DOMAIN heap[o].to = {1} /\ heap[o].to[1][1] = Default /\ heap[o].to[1][2] = SEth
      BY <2>1, <2>3, <2>4, <3>1 DEF IsBuilt, SEth
    <3>3. Keyed(heap[o].to) /\ \A j \in DOMAIN heap[o].to : k \notin heap[o].to[j][1]
      BY <3>2 DEF Keyed, Default
    <3>4. Chosen(heap[o], k) = SEth
      BY <3>2, <3>3, ChosenDefault
    <3>5. SEth # EndOfParser /\ heap[SEth].name = Shadow(Ethernet)
      BY DEF SEth, EndOfParser, LiveObjects
    <3>6. Chosen(t, k) = IF SEth = EndOfParser THEN EndOfParser ELSE heap[SEth].name
      BY <1>2, <3>4, DumpedChosen
    <3>7. QED BY <3>5, <3>6
  <2>6. t.name = Start /\ t.extract = NoHeader
    BY <1>3, <2>1, <2>2 DEF IsBuilt
  <2> HIDE DEF t
  <2>7. FromStart(t)
    BY <2>5, <2>6 DEF FromStart
  <2>8. QED BY <2>7 DEF StateIs, t
<1>6. CASE o = SEth
  BY <1>6, BothBranch DEF StateIs
<1>7. CASE o = TagState
  <2> DEFINE b == Built("s", s, Ethernet)
  <2>1. /\ heap[o].name = ShadowTag /\ heap[o].extract = "shadow_tag" /\ heap[o].on = TRUE
        /\ heap[o].to = b.to
    BY <1>7 DEF LiveObjects
  <2>2. IsBuilt(b, "s", s[Ethernet], Ethernet)
    BY BuiltIs
  <2>3. /\ DOMAIN s[Ethernet].to \subseteq Nat
        /\ s[Ethernet].on \/ \A i \in DOMAIN s[Ethernet].to : s[Ethernet].to[i][1] = Default
    BY <1>1, BranchesOf
  <2> HIDE DEF b
  <2>4. ASSUME NEW k PROVE Chosen(t, k) = Renamed(Chosen(s[Ethernet], k))
    <3>1. /\ DOMAIN heap[o].to = DOMAIN s[Ethernet].to
          /\ \A i \in DOMAIN s[Ethernet].to : heap[o].to[i][1] = s[Ethernet].to[i][1]
      BY <2>1, <2>2 DEF IsBuilt
    <3>2. (heap[o].on <=> s[Ethernet].on) \/ \A i \in DOMAIN s[Ethernet].to : s[Ethernet].to[i][1] = Default
      BY <2>1, <2>3
    <3>3. \/ \E i \in DOMAIN s[Ethernet].to :
               Chosen(heap[o], k) = heap[o].to[i][2] /\ Chosen(s[Ethernet], k) = s[Ethernet].to[i][2]
          \/ Chosen(heap[o], k) = EndOfParser /\ Chosen(s[Ethernet], k) = EndOfParser
      BY <2>3, <3>1, <3>2, ChosenAlike
    <3>4. Chosen(heap[o], k) = IF Chosen(s[Ethernet], k) = EndOfParser THEN EndOfParser
                               ELSE <<"s", Chosen(s[Ethernet], k)>>
      BY <2>1, <2>2, <3>3 DEF IsBuilt
    <3>5. QED BY <1>1, <1>2, <1>4, <3>4, TestingBranch DEF SEth
  <2>5. t.name = ShadowTag /\ t.extract = "shadow_tag"
    BY <1>3, <2>1
  <2> HIDE DEF t
  <2>6. FromTag(t, s)
    BY <2>4, <2>5 DEF FromTag
  <2>7. QED BY <2>6 DEF StateIs, t
<1>8. CASE o \in {"r"} \X Inner(r)
  <2>1. PICK n \in Inner(r) : o = <<"r", n>>
    BY <1>8
  <2>2. IsBuilt(heap[o], "r", r[n], n) /\ n \in DOMAIN r /\ n # Start
    BY <2>1 DEF LiveObjects, Inner
  <2>3. DOMAIN r[n].to \subseteq Nat
    BY <1>1, <2>2, BranchesOf
  <2>4. ASSUME NEW k PROVE Chosen(t, k) = Chosen(r[n], k)
    <3>1. Chosen(heap[o], k) = IF Chosen(r[n], k) = EndOfParser THEN EndOfParser ELSE <<"r", Chosen(r[n], k)>>
      BY <2>2, <2>3, BuiltChosen
    <3>2. QED BY <1>2, <2>2, <3>1, ProductionBranch
  <2>5. t.name = n /\ t.extract = r[n].extract
    BY <1>3, <2>2 DEF IsBuilt
  <2> HIDE DEF t
  <2>6. FromProduction(t, r, n)
    BY <2>4, <2>5 DEF FromProduction
  <2>7. QED BY <2>6 DEF StateIs, t
<1>9. CASE o \in Moved(r, s) /\ o # SEth
  <2>1. PICK n \in DOMAIN s \ {Start} : o = <<"s", n>>
    BY <1>4, <1>9
  <2>2. n \in Inner(s)
    BY <1>9, <2>1 DEF Inner, SEth
  <2>3. IsBuilt(heap[o], "s", s[n], Shadow(n))
    BY <1>9, <2>1, <2>2 DEF LiveObjects
  <2>4. DOMAIN s[n].to \subseteq Nat
    BY <1>1, <2>1, BranchesOf
  <2>5. ASSUME NEW k PROVE Chosen(t, k) = Renamed(Chosen(s[n], k))
    <3>1. Chosen(heap[o], k) = IF Chosen(s[n], k) = EndOfParser THEN EndOfParser ELSE <<"s", Chosen(s[n], k)>>
      BY <2>3, <2>4, BuiltChosen
    <3>2. QED BY <1>2, <1>9, <2>1, <3>1, TestingBranch
  <2>6. t.name = Shadow(n) /\ t.extract = s[n].extract
    BY <1>3, <2>3 DEF IsBuilt
  <2> HIDE DEF t
  <2>7. FromTesting(t, s, n)
    BY <2>5, <2>6 DEF FromTesting
  <2>8. QED BY <2>2, <2>7 DEF StateIs, t
<1>10. QED BY <1>5, <1>6, <1>7, <1>8, <1>9 DEF Live

-----------------------------------------------------------------------------
(***************************************************************************)
(* Which state has a name                                                  *)
(***************************************************************************)

\* The names of the merged parser do not clash.
LEMMA NamesDiffer ==
  ASSUME NEW r, NEW s, Apart(r, s)
  PROVE  /\ Start # Shadow(Ethernet) /\ Start # ShadowTag /\ Start # EndOfParser
         /\ ShadowTag # Shadow(Ethernet) /\ ShadowTag # EndOfParser /\ Shadow(Ethernet) # EndOfParser
         /\ Unprefixed(Shadow(Ethernet)) = Ethernet
         /\ \A n \in Inner(r) : n \notin {Start, ShadowTag, EndOfParser, Ethernet, Shadow(Ethernet)}
         /\ \A n \in Inner(s) : Shadow(n) \notin {Start, ShadowTag, EndOfParser, Shadow(Ethernet)} /\ Unprefixed(Shadow(n)) = n
         /\ \A n \in Inner(r), m \in Inner(s) : n # Shadow(m)
         /\ \A n, m \in Inner(s) : Shadow(n) = Shadow(m) => n = m
<1>1. IsParser(r) /\ IsParser(s)
  BY DEF Apart
<1>2. Ethernet \in DOMAIN s /\ \A n \in DOMAIN s : n \in Seq(ToSet(n))
  BY <1>1 DEF IsParser
<1>3. \A n \in DOMAIN s : Unprefixed(Shadow(n)) = n /\ Shadow(n) \notin {Start, ShadowTag, EndOfParser}
  BY <1>2, ShadowNames
<1>4. Start # ShadowTag /\ Start # EndOfParser /\ ShadowTag # EndOfParser
  BY DEF Start, ShadowTag, EndOfParser
<1>5. EndOfParser \notin DOMAIN r /\ ShadowTag \notin DOMAIN r
  BY <1>1 DEF IsParser, Apart
<1>6. \A n \in DOMAIN s : Shadow(n) \notin DOMAIN r
  BY DEF Apart
<1>7. Inner(r) \subseteq DOMAIN r \ {Start, Ethernet} /\ Inner(s) \subseteq DOMAIN s \ {Start, Ethernet}
  BY DEF Inner
<1>8. QED BY <1>2, <1>3, <1>4, <1>5, <1>6, <1>7

\* So there is one state of a name.
LEMMA StateNamed ==
  ASSUME NEW r, NEW s, Apart(r, s), NEW t, StateIs(t, r, s)
  PROVE  /\ t.name # EndOfParser
         /\ t.name = Start => FromStart(t)
         /\ t.name = Shadow(Ethernet) => FromBoth(t, r)
         /\ t.name = ShadowTag => FromTag(t, s)
         /\ \A n \in Inner(r) : t.name = n => FromProduction(t, r, n)
         /\ \A n \in Inner(s) : t.name = Shadow(n) => FromTesting(t, s, n)
<1>1. CASE FromStart(t)
  BY <1>1, NamesDiffer DEF FromStart
<1>2. CASE FromBoth(t, r)
  BY <1>2, NamesDiffer DEF FromBoth
<1>3. CASE FromTag(t, s)
  BY <1>3, NamesDiffer DEF FromTag
<1>4. CASE \E n \in Inner(r) : FromProduction(t, r, n)
  <2>1. PICK n \in Inner(r) : FromProduction(t, r, n)
    BY <1>4
  <2>2. t.name = n
    BY <2>1 DEF FromProduction
  <2>3. QED BY <2>1, <2>2, NamesDiffer
<1>5. CASE \E n \in Inner(s) : FromTesting(t, s, n)
  <2>1. PICK n \in Inner(s) : FromTesting(t, s, n)
    BY <1>5
  <2>2. t.name = Shadow(n)
    BY <2>1 DEF FromTesting
  <2>3. QED BY <2>1, <2>2, NamesDiffer
<1>6. QED BY <1>1, <1>2, <1>3, <1>4, <1>5 DEF StateIs

-----------------------------------------------------------------------------
(***************************************************************************)
(* The merged parser at work                                               *)
(***************************************************************************)

\* A step of the compiler leaves the parser alone.
LEMMA StepIs ==
  ASSUME [Next]_vars
  PROVE  pair' = pair /\ (Arrive \/ ParseState \/ Leave \/ UNCHANGED runVars)
BY DEF Next, Run, vars

\* A pair of the assumption is one.
LEMMA PairApart ==
  ASSUME pair \in Pairs
  PROVE  Apart(pair[1], pair[2])
BY PairsAssumption DEF Apart

\* Its states are those described, and every branch leads to another or the end.
LEMMA ParserStates ==
  ASSUME pair \in Pairs, parser = Dumped(Merged)
  PROVE  /\ \A t \in parser : StateIs(t, pair[1], pair[2])
         /\ \A t \in parser : \A k : Chosen(t, k) \in {u.name : u \in parser} \cup {EndOfParser}
         /\ \E t \in parser : t.name = Start
<1> DEFINE r == pair[1]
           s == pair[2]
           H == Merged.heap
           A == Accessible(H, SStart)
<1>1. Apart(r, s)
  BY PairApart
<1>2. /\ IsFiniteSet(DOMAIN H) /\ Merged.dict[Start] = SStart /\ SStart \in DOMAIN H
      /\ \A q \in DOMAIN H : Targets(H[q].to) \subseteq DOMAIN H
      /\ LiveObjects(H, r, s) /\ A \subseteq Live(r, s)
  BY <1>1, MergedWithin DEF Merged
<1>3. parser = {DumpedState(H, o) : o \in A}
  BY <1>2 DEF Dumped
<1>4. SStart \in A /\ \A q \in A : Targets(H[q].to) \subseteq A
  BY <1>2, AccessibleClosed
<1> HIDE DEF r, s, H, A
<1>5. \A o \in A : StateIs(DumpedState(H, o), r, s)
  BY <1>1, <1>2, StatesAre
<1>6. ASSUME NEW o \in A, NEW k
      PROVE  Chosen(DumpedState(H, o), k) \in {u.name : u \in parser} \cup {EndOfParser}
  <2>1. DOMAIN H[o].to \subseteq Nat
    BY <1>1, <1>2, LiveTargets
  <2>2. Chosen(H[o], k) \in A \cup {EndOfParser}
    BY <1>4, <2>1, ChosenTarget
  <2>3. Chosen(DumpedState(H, o), k)
          = IF Chosen(H[o], k) = EndOfParser THEN EndOfParser ELSE H[Chosen(H[o], k)].name
    BY <2>1, DumpedChosen
  <2>4. \A q \in A : H[q].name \in {u.name : u \in parser}
    <3>1. \A q \in A : DumpedState(H, q) \in parser /\ DumpedState(H, q).name = H[q].name
      BY <1>3 DEF DumpedState
    <3>2. QED BY <3>1
  <2>5. QED BY <2>2, <2>3, <2>4
<1>7. DumpedState(H, SStart) \in parser /\ DumpedState(H, SStart).name = Start
  <2>1. H[SStart].name = Start
    BY <1>2 DEF LiveObjects, IsBuilt
  <2>2. DumpedState(H, SStart).name = H[SStart].name
    BY DEF DumpedState
  <2>3. QED BY <1>3, <1>4, <2>1, <2>2
<1>8. QED BY <1>3, <1>5, <1>6, <1>7 DEF r, s

\* What holds of any frame: nothing of it is lost, and at the first two states
\* nothing has been taken off it.
Parsing ==
  /\ pair \in Pairs /\ parser = Dumped(Merged)
  /\ frame \in Frames \cup {<<>>} /\ rest \in Seq(ToSet(frame)) /\ got \in Seq({t.extract : t \in parser})
  /\ Len(got) + Len(rest) = Len(frame)
  /\ at \in {t.name : t \in parser} \cup {EndOfParser}
  /\ frame = <<>> => at = EndOfParser /\ key = NoType /\ got = <<>> /\ rest = <<>>
  /\ at \in {Start, Shadow(Ethernet)} => frame # <<>> /\ got = <<>> /\ rest = frame

\* A frame is taken apart from the front.
LEMMA HeadOff ==
  ASSUME NEW T, NEW q \in Seq(T), q # <<>>
  PROVE  Head(q) \in T /\ Tail(q) \in Seq(T) /\ Len(Tail(q)) + 1 = Len(q)
BY HeadTailProperties

\* It holds at first.
LEMMA ParsingInit ==
  ASSUME Init
  PROVE  Parsing
<1>1. /\ pair \in Pairs /\ parser = Dumped(Merged) /\ Idle
  BY DEF Init, Merged
<1>2. Apart(pair[1], pair[2])
  BY <1>1, PairApart
<1>3. EndOfParser \notin {Start, Shadow(Ethernet)}
  BY <1>2, NamesDiffer
<1>4. <<>> \in Seq(ToSet(<<>>)) /\ <<>> \in Seq({t.extract : t \in parser}) /\ Len(<<>>) = 0
  OBVIOUS
<1>5. QED BY <1>1, <1>3, <1>4 DEF Parsing, Idle

\* Every step of the parser keeps it.
LEMMA ParsingStep ==
  ASSUME Parsing, [Next]_vars
  PROVE  Parsing'
<1>1. pair' = pair /\ parser' = parser /\ Merged' = Merged
  BY StepIs DEF runVars, Arrive, ParseState, Leave, Merged
<1>2. Apart(pair[1], pair[2]) /\ pair \in Pairs /\ parser = Dumped(Merged)
  BY PairApart DEF Parsing
<1>3. EndOfParser \notin {Start, Shadow(Ethernet)} /\ Start # Shadow(Ethernet)
  BY <1>2, NamesDiffer
<1> DEFINE N == {t.name : t \in parser} \cup {EndOfParser}
           E == {t.extract : t \in parser}
<1>4. /\ \A t \in parser : StateIs(t, pair[1], pair[2])
      /\ \A t \in parser : \A k : Chosen(t, k) \in N
      /\ Start \in N
  <2>1. \E t \in parser : t.name = Start
    BY <1>2, ParserStates
  <2>2. QED BY <1>2, <2>1, ParserStates
<1>5. parser' = Dumped(Merged)'
  <2>1. Dumped(Merged)' = Dumped(Merged')
    BY DEF Dumped, Accessible, DumpedState
  <2>2. QED BY <1>1, <1>2, <2>1
<1>6. CASE Arrive
  <2>1. frame' \in Frames /\ rest' = frame' /\ at' = Start /\ got' = <<>>
    BY <1>6 DEF Arrive
  <2>2. frame' \in Seq(ToSet(frame')) /\ frame' # <<>>
    BY <2>1, FramesAssumption
  <2>3. <<>> \in Seq(E) /\ Len(<<>>) = 0
    OBVIOUS
  <2>4. Len(got') + Len(rest') = Len(frame')
    BY <2>1, <2>2, <2>3
  <2>5. at' \in N
    BY <1>4, <2>1
  <2>6. QED BY <1>1, <1>2, <1>5, <2>1, <2>2, <2>3, <2>4, <2>5 DEF Parsing
<1>7. CASE ParseState
  <2>1. at # EndOfParser /\ frame' = frame /\ frame # <<>>
    BY <1>7 DEF ParseState, Parsing
  <2>2. PICK t \in parser :
          /\ t.name = at
          /\ IF t.extract = NoHeader
             THEN at' = Chosen(t, key) /\ UNCHANGED <<key, got, rest>>
             ELSE /\ rest # <<>>
                  /\ key' = Head(rest) /\ rest' = Tail(rest)
                  /\ got' = Append(got, t.extract)
                  /\ at' = Chosen(t, key')
    BY <1>7 DEF ParseState
  <2>3. at' \in N
    BY <1>4, <2>2
  <2>4. got \in Seq(E) /\ rest \in Seq(ToSet(frame)) /\ Len(got) + Len(rest) = Len(frame) /\ t.extract \in E
    BY DEF Parsing
  <2>5. /\ got' \in Seq(E) /\ rest' \in Seq(ToSet(frame))
        /\ Len(got') + Len(rest') = Len(frame)
    <3>1. CASE t.extract = NoHeader
      BY <2>2, <2>4, <3>1
    <3>2. CASE t.extract # NoHeader
      <4>1. Tail(rest) \in Seq(ToSet(frame)) /\ Len(Tail(rest)) + 1 = Len(rest)
        BY <2>2, <2>4, <3>2, HeadOff
      <4>2. Append(got, t.extract) \in Seq(E) /\ Len(Append(got, t.extract)) = Len(got) + 1
        <5> HIDE DEF E
        <5>1. QED BY <2>4
      <4>3. Len(got) \in Nat /\ Len(rest) \in Nat
        BY <2>4
      <4>4. rest' = Tail(rest) /\ got' = Append(got, t.extract)
        BY <2>2, <3>2
      <4> HIDE DEF E
      <4>5. QED BY <2>4, <4>1, <4>2, <4>3, <4>4
    <3>3. QED BY <3>1, <3>2
  <2>6. at' \in {Start, Shadow(Ethernet)} => got' = <<>> /\ rest' = frame
    <3> DEFINE r == pair[1]
               s == pair[2]
    <3>1. StateIs(t, r, s)
      BY <1>4
    <3>2. /\ \A k : Chosen(r[Ethernet], k) \in Inner(r) \cup {EndOfParser}
          /\ \A n \in Inner(r) : \A k : Chosen(r[n], k) \in Inner(r) \cup {EndOfParser}
          /\ \A k : Chosen(s[Ethernet], k) \in Inner(s) \cup {EndOfParser}
          /\ \A n \in Inner(s) : \A k : Chosen(s[n], k) \in Inner(s) \cup {EndOfParser}
      <4>1. IsParser(r) /\ IsParser(s)
        BY <1>2 DEF Apart
      <4>2. Ethernet \in DOMAIN r /\ Ethernet \in DOMAIN s /\ Ethernet # Start
        BY <4>1 DEF IsParser, Ethernet, Start
      <4>3. \A n \in Inner(r) : n \in DOMAIN r /\ n # Start
        BY DEF Inner
      <4>4. \A n \in Inner(s) : n \in DOMAIN s /\ n # Start
        BY DEF Inner
      <4> HIDE DEF r, s
      <4>5. QED BY <4>1, <4>2, <4>3, <4>4, ChosenIn
    <3> HIDE DEF r, s
    <3>3. Apart(r, s)
      BY <1>2 DEF r, s
    <3>4. CASE FromStart(t)
      <4>1. at = Start /\ got' = got /\ rest' = rest
        BY <2>2, <3>4 DEF FromStart
      <4>2. QED BY <4>1 DEF Parsing
    <3>5. CASE ~FromStart(t)
      <4>1. at' \notin {Start, Shadow(Ethernet)}
        <5>1. \A k : Chosen(t, k) \notin {Start, Shadow(Ethernet)}
          <6> SUFFICES ASSUME NEW k PROVE Chosen(t, k) \notin {Start, Shadow(Ethernet)}
            OBVIOUS
          <6>1. \A n \in Inner(s) \cup {EndOfParser} : Renamed(n) \notin {Start, Shadow(Ethernet)}
            BY <3>3, NamesDiffer DEF Renamed
          <6>2. \A n \in Inner(r) \cup {EndOfParser} : n \notin {Start, Shadow(Ethernet)}
            BY <3>3, NamesDiffer
          <6>3. CASE FromBoth(t, r)
            <7>1. ShadowTag \notin {Start, Shadow(Ethernet)}
              BY <3>3, NamesDiffer
            <7>2. QED BY <6>2, <6>3, <7>1 DEF FromBoth
          <6>4. CASE FromTag(t, s)
            BY <3>2, <6>1, <6>4 DEF FromTag
          <6>5. CASE \E n \in Inner(r) : FromProduction(t, r, n)
            BY <3>2, <6>2, <6>5 DEF FromProduction
          <6>6. CASE \E n \in Inner(s) : FromTesting(t, s, n)
            BY <3>2, <6>1, <6>6 DEF FromTesting
          <6>7. QED BY <3>1, <3>5, <6>3, <6>4, <6>5, <6>6 DEF StateIs
        <5>2. QED BY <2>2, <5>1
      <4>2. QED BY <4>1
    <3>6. QED BY <3>4, <3>5
  <2>7. QED BY <1>1, <1>2, <1>5, <2>1, <2>3, <2>5, <2>6 DEF Parsing
<1>8. CASE Leave
  <2>1. frame' = <<>> /\ key' = NoType /\ got' = <<>> /\ rest' = <<>> /\ at' = at /\ at = EndOfParser
    BY <1>8 DEF Leave
  <2>2. <<>> \in Seq(ToSet(<<>>)) /\ <<>> \in Seq(E) /\ Len(<<>>) = 0
    OBVIOUS
  <2>3. QED BY <1>1, <1>2, <1>3, <1>5, <2>1, <2>2 DEF Parsing
<1>9. CASE UNCHANGED runVars
  BY <1>1, <1>5, <1>9 DEF Parsing, runVars
<1>10. QED BY <1>6, <1>7, <1>8, <1>9, StepIs

\* Nothing of a frame is lost or made up, and the parser is always at a state it has.
THEOREM TypeCorrect == Spec => []TypeOK
<1>1. Parsing => TypeOK
  BY DEF Parsing, TypeOK
<1>2. QED BY <1>1, ParsingInit, ParsingStep, PTL DEF Spec

-----------------------------------------------------------------------------
(***************************************************************************)
(* A frame without the tag                                                 *)
(***************************************************************************)

\* It is taken to states of production's, after testing's start and ethernet.
AtProductions == Untagged => at \in {Start, Shadow(Ethernet), EndOfParser} \cup Inner(pair[1])

\* What each step on such a frame does.
LEMMA UntaggedStep ==
  ASSUME Parsing, AtProductions, Untagged, ParseState
  PROVE  /\ UNCHANGED <<pair[1], frame>> => AtProductions'
         /\ \E n \in DOMAIN pair[1] :
              /\ n = IF at = Shadow(Ethernet) THEN Ethernet ELSE at
              /\ n # EndOfParser
              /\ IF pair[1][n].extract = NoHeader
                 THEN UNCHANGED <<key, got, rest>>
                 ELSE /\ rest # <<>> /\ key' = Head(rest) /\ rest' = Tail(rest)
                      /\ got' = Append(got, pair[1][n].extract)
              /\ (IF at' = Shadow(Ethernet) THEN Ethernet ELSE at') = Chosen(pair[1][n], key')
<1> DEFINE r == pair[1]
           s == pair[2]
<1>1. Apart(r, s) /\ pair \in Pairs /\ parser = Dumped(Merged)
  BY PairApart DEF Parsing
<1>2. \A t \in parser : StateIs(t, r, s)
  BY <1>1, ParserStates
<1>3. /\ {Start, Ethernet} \subseteq DOMAIN r /\ r[Ethernet].extract = "ethernet"
      /\ r[Start] = [extract |-> NoHeader, on |-> FALSE, to |-> <<<<Default, Ethernet>>>>]
      /\ IsParser(r) /\ IsParser(s)
  BY <1>1 DEF Apart, IsParser
<1>4. Ethernet # Start /\ Ethernet # EndOfParser
  BY DEF Ethernet, Start, EndOfParser
<1>5. \A n \in DOMAIN r \ {Start} : \A k : Chosen(r[n], k) \in Inner(r) \cup {EndOfParser}
  <2> HIDE DEF r
  <2>1. QED BY <1>3, ChosenIn
<1>6. PICK t \in parser :
        /\ t.name = at
        /\ IF t.extract = NoHeader
           THEN at' = Chosen(t, key) /\ UNCHANGED <<key, got, rest>>
           ELSE /\ rest # <<>>
                /\ key' = Head(rest) /\ rest' = Tail(rest)
                /\ got' = Append(got, t.extract)
                /\ at' = Chosen(t, key')
  BY DEF ParseState
<1>7. StateIs(t, r, s) /\ at # EndOfParser
  BY <1>2 DEF ParseState
<1> HIDE DEF r, s
<1>8. CASE at = Start
  <2>1. FromStart(t)
    BY <1>1, <1>6, <1>7, <1>8, StateNamed
  <2>2. at' = Shadow(Ethernet) /\ UNCHANGED <<key, got, rest>>
    BY <1>6, <2>1 DEF FromStart
  <2>3. \A k : Chosen(r[Start], k) = Ethernet
    <3>1. DOMAIN r[Start].to = {1}
      BY <1>3
    <3>2. r[Start].to[1][1] = Default /\ r[Start].to[1][2] = Ethernet
      BY <1>3
    <3>3. \A k : \A j \in DOMAIN r[Start].to : k \notin r[Start].to[j][1]
      BY <3>1, <3>2 DEF Default
    <3>4. Keyed(r[Start].to)
      BY <3>1 DEF Keyed
    <3>5. QED BY <3>1, <3>2, <3>3, <3>4, ChosenDefault
  <2>4. Start # Shadow(Ethernet)
    BY <1>1, NamesDiffer
  <2>5. r[Start].extract = NoHeader
    BY <1>3
  <2>6. Start # EndOfParser
    BY <1>1, NamesDiffer
  <2>7. QED BY <1>3, <1>8, <2>2, <2>3, <2>4, <2>5, <2>6 DEF AtProductions, r
<1>9. CASE at = Shadow(Ethernet)
  <2>1. FromBoth(t, r)
    BY <1>1, <1>6, <1>7, <1>9, StateNamed
  <2>2. t.extract = "ethernet" /\ "ethernet" # NoHeader
    BY <2>1 DEF FromBoth, NoHeader
  <2>3. /\ rest # <<>> /\ key' = Head(rest) /\ rest' = Tail(rest)
        /\ got' = Append(got, "ethernet") /\ at' = Chosen(t, key')
    BY <1>6, <2>2
  <2>4. key' # Tag
    <3>1. rest = frame /\ frame # <<>> /\ frame[1] # Tag
      BY <1>9 DEF Parsing, Untagged
    <3>2. Head(rest) = frame[1]
      BY <3>1
    <3>3. QED BY <2>3, <3>1, <3>2
  <2>5. at' = Chosen(r[Ethernet], key')
    BY <2>1, <2>3, <2>4 DEF FromBoth
  <2>6. at' \in Inner(r) \cup {EndOfParser}
    BY <1>3, <1>4, <1>5, <2>5
  <2>7. at' # Shadow(Ethernet)
    BY <1>1, <2>6, NamesDiffer
  <2>8. QED BY <1>3, <1>4, <1>9, <2>2, <2>3, <2>5, <2>6, <2>7 DEF AtProductions, r
<1>10. CASE at \in Inner(r)
  <2>1. at \in DOMAIN r /\ at # Start /\ at # Shadow(Ethernet) /\ at # EndOfParser
    BY <1>1, <1>10, NamesDiffer DEF Inner
  <2>2. FromProduction(t, r, at)
    BY <1>1, <1>6, <1>7, <1>10, StateNamed
  <2>3. t.extract = r[at].extract /\ \A k : Chosen(t, k) = Chosen(r[at], k)
    BY <2>2 DEF FromProduction
  <2>4. at' = Chosen(r[at], key')
    BY <1>6, <2>3
  <2>5. at' \in Inner(r) \cup {EndOfParser}
    BY <1>5, <2>1, <2>4
  <2>6. at' # Shadow(Ethernet)
    BY <1>1, <2>5, NamesDiffer
  <2>7. QED BY <1>6, <2>1, <2>3, <2>4, <2>5, <2>6 DEF AtProductions, r
<1>11. QED BY <1>7, <1>8, <1>9, <1>10 DEF AtProductions, r

\* Production's parser takes the same branches, whichever module it is in.
LEMMA ProductionChosen ==
  ASSUME NEW t, NEW k
  PROVE  Production!Chosen(t, k) = Chosen(t, k)
BY DEF Production!Chosen, Chosen, Production!Default, Default, Production!EndOfParser, EndOfParser

\* At first it is idle.
LEMMA UntaggedInit ==
  ASSUME Init
  PROVE  AtProductions /\ Production!Idle
<1>1. frame = <<>> /\ at = EndOfParser
  BY DEF Init, Idle
<1>2. ~Untagged
  BY <1>1 DEF Untagged
<1>3. QED BY <1>1, <1>2 DEF AtProductions, Production!Idle, Production!EndOfParser, EndOfParser,
             Production!NoType, NoType

\* Every step is one of production's, or none.
LEMMA UntaggedNext ==
  ASSUME Parsing, Parsing', AtProductions, [Next]_vars
  PROVE  AtProductions' /\ [Production!Arrive \/ Production!ParseState \/ Production!Leave]_(Production!runVars)
<1> DEFINE f == IF Untagged THEN frame ELSE <<>>
           a == IF Untagged THEN IF at = Shadow(Ethernet) THEN Ethernet ELSE at ELSE EndOfParser
           k == IF Untagged THEN key ELSE NoType
           g == IF Untagged THEN got ELSE <<>>
           e == IF Untagged THEN rest ELSE <<>>
           p == StatesOf(pair[1])
<1>1. pair' = pair /\ p' = p
  BY StepIs DEF runVars, Arrive, ParseState, Leave, StatesOf
<1>2. p' = p /\ f' = f /\ a' = a /\ k' = k /\ g' = g /\ e' = e => UNCHANGED Production!runVars
  BY DEF Production!runVars
<1>3. Apart(pair[1], pair[2])
  BY PairApart DEF Parsing
<1>4. Start # Shadow(Ethernet) /\ EndOfParser # Shadow(Ethernet)
  BY <1>3, NamesDiffer
<1>5. CASE Arrive
  <2>1. /\ frame = <<>> /\ frame' \in Frames /\ rest' = frame'
        /\ at' = Start /\ key' = NoType /\ got' = <<>>
    BY <1>5 DEF Arrive
  <2>2. ~Untagged /\ frame' # <<>>
    BY <2>1, FramesAssumption DEF Untagged
  <2>3. CASE Untagged'
    <3>1. frame'[1] # Tag
      BY <2>3 DEF Untagged
    <3>2. /\ f = <<>> /\ f' = frame' /\ e' = frame' /\ a' = Start /\ k' = NoType /\ g' = <<>>
      BY <1>4, <2>1, <2>2, <2>3
    <3>3. Production!Arrive
      BY <1>1, <2>1, <3>1, <3>2 DEF Production!Arrive, Production!Start, Start, Production!NoType, NoType
    <3>4. QED BY <2>1, <3>3 DEF AtProductions
  <2>4. CASE ~Untagged'
    <3>1. f' = f /\ a' = a /\ k' = k /\ g' = g /\ e' = e
      BY <2>2, <2>4
    <3> HIDE DEF f, a, k, g, e, p
    <3>2. QED BY <1>1, <1>2, <2>4, <3>1 DEF AtProductions
  <2>5. QED BY <2>3, <2>4
<1>6. CASE ParseState
  <2>1. frame' = frame /\ Untagged' = Untagged
    BY <1>6 DEF ParseState, Untagged
  <2>2. CASE Untagged
    <3>1. PICK n \in DOMAIN pair[1] :
            /\ n = IF at = Shadow(Ethernet) THEN Ethernet ELSE at
            /\ n # EndOfParser
            /\ IF pair[1][n].extract = NoHeader
               THEN UNCHANGED <<key, got, rest>>
               ELSE /\ rest # <<>> /\ key' = Head(rest) /\ rest' = Tail(rest)
                    /\ got' = Append(got, pair[1][n].extract)
            /\ (IF at' = Shadow(Ethernet) THEN Ethernet ELSE at') = Chosen(pair[1][n], key')
      BY <1>6, <2>2, UntaggedStep
    <3>2. AtProductions'
      BY <1>1, <1>6, <2>1, <2>2, UntaggedStep
    <3>3. Untagged'
      BY <2>1, <2>2
    <3>4. /\ f = frame /\ f' = frame' /\ a = n /\ a' = Chosen(pair[1][n], key')
          /\ k = key /\ k' = key' /\ g = got /\ g' = got' /\ e = rest /\ e' = rest'
      BY <2>2, <3>1, <3>3
    <3> DEFINE t == [name |-> n, extract |-> pair[1][n].extract, on |-> pair[1][n].on, to |-> pair[1][n].to]
    <3>5. t \in p /\ t.name = n /\ t.extract = pair[1][n].extract
      BY DEF StatesOf
    <3>6. \A x : Chosen(t, x) = Chosen(pair[1][n], x)
      BY DEF Chosen
    <3> HIDE DEF f, a, k, g, e, p, t
    <3>7. \A x : Production!Chosen(t, x) = Chosen(pair[1][n], x)
      BY <3>6, ProductionChosen
    <3>8. /\ t.name = a
          /\ IF t.extract = NoHeader
             THEN a' = Production!Chosen(t, k) /\ k' = k /\ g' = g /\ e' = e
             ELSE /\ e # <<>> /\ k' = Head(e) /\ e' = Tail(e)
                  /\ g' = Append(g, t.extract) /\ a' = Production!Chosen(t, k')
      BY <3>1, <3>4, <3>5, <3>7
    <3>9. a # EndOfParser /\ f' = f
      BY <2>1, <3>1, <3>4
    <3>10. Production!ParseState
      BY <1>1, <3>5, <3>8, <3>9 DEF Production!ParseState, Production!EndOfParser, EndOfParser,
                              Production!NoHeader, NoHeader, f, a, k, g, e, p
    <3>11. QED BY <3>2, <3>10
  <2>3. CASE ~Untagged
    <3>1. f' = f /\ a' = a /\ k' = k /\ g' = g /\ e' = e
      BY <2>1, <2>3
    <3> HIDE DEF f, a, k, g, e, p
    <3>2. QED BY <1>1, <1>2, <2>1, <2>3, <3>1 DEF AtProductions
  <2>4. QED BY <2>2, <2>3
<1>7. CASE Leave
  <2>1. frame # <<>> /\ at = EndOfParser /\ at' = EndOfParser
        /\ frame' = <<>> /\ key' = NoType /\ got' = <<>> /\ rest' = <<>>
    BY <1>7 DEF Leave
  <2>2. ~Untagged'
    BY <2>1 DEF Untagged
  <2>3. CASE Untagged
    <3>1. /\ f = frame /\ f' = <<>> /\ a = EndOfParser /\ a' = EndOfParser
          /\ k' = NoType /\ g' = <<>> /\ e' = <<>>
      BY <1>4, <2>1, <2>2, <2>3
    <3>2. Production!Leave
      BY <1>1, <2>1, <3>1 DEF Production!Leave, Production!EndOfParser, EndOfParser, Production!NoType, NoType
    <3>3. QED BY <2>2, <3>2 DEF AtProductions
  <2>4. CASE ~Untagged
    <3>1. f' = f /\ a' = a /\ k' = k /\ g' = g /\ e' = e
      BY <2>2, <2>4
    <3> HIDE DEF f, a, k, g, e, p
    <3>2. QED BY <1>1, <1>2, <2>2, <3>1 DEF AtProductions
  <2>5. QED BY <2>3, <2>4
<1>8. CASE UNCHANGED runVars
  <2>1. frame' = frame /\ at' = at /\ key' = key /\ got' = got /\ rest' = rest /\ Untagged' = Untagged
    BY <1>8 DEF runVars, Untagged
  <2>2. f' = f /\ a' = a /\ k' = k /\ g' = g /\ e' = e
    BY <2>1
  <2>3. AtProductions'
    BY <1>1, <2>1 DEF AtProductions
  <2> HIDE DEF f, a, k, g, e, p
  <2>4. QED BY <1>1, <1>2, <2>2, <2>3
<1>9. QED BY <1>5, <1>6, <1>7, <1>8, StepIs

\* A frame without the tag is parsed as production alone would parse it.
THEOREM UntaggedRefined == Spec => UntaggedAsProduction
<1>1. Init => Parsing /\ AtProductions /\ Production!Idle
  BY ParsingInit, UntaggedInit
<1>2. Parsing /\ AtProductions /\ [Next]_vars =>
        /\ Parsing' /\ AtProductions'
        /\ [Production!Arrive \/ Production!ParseState \/ Production!Leave]_(Production!runVars)
  BY ParsingStep, UntaggedNext
<1>3. QED BY <1>1, <1>2, PTL DEF Spec, UntaggedAsProduction, Production!Parses

-----------------------------------------------------------------------------
(***************************************************************************)
(* A frame with the tag                                                    *)
(***************************************************************************)

\* What was extracted, but for the second header.
Beside(q) == <<q[1]>> \o SubSeq(q, 3, Len(q))

\* The first, and those from the third on.
LEMMA BesideIs ==
  ASSUME NEW E, NEW q \in Seq(E), Len(q) > 1
  PROVE  /\ Beside(q) \in Seq(E) /\ Len(Beside(q)) = Len(q) - 1
         /\ Beside(q)[1] = q[1] /\ \A i \in 2 .. Len(q) - 1 : Beside(q)[i] = q[i + 1]
<1> DEFINE u == <<q[1]>>
           v == SubSeq(q, 3, Len(q))
<1>1. Len(q) \in Nat /\ DOMAIN q = 1 .. Len(q) /\ \A i \in 1 .. Len(q) : q[i] \in E
  OBVIOUS
<1>2. u \in Seq(E) /\ Len(u) = 1 /\ u[1] = q[1]
  BY <1>1
<1>3. v \in Seq(E) /\ Len(v) = Len(q) - 2 /\ \A i \in 1 .. Len(q) - 2 : v[i] = q[i + 2]
  <2>1. \A i \in 3 .. Len(q) : q[i] \in E
    BY <1>1
  <2>2. /\ v \in Seq(E)
        /\ Len(v) = IF 3 <= Len(q) THEN Len(q) - 3 + 1 ELSE 0
        /\ \A i \in 1 .. Len(q) - 3 + 1 : v[i] = q[3 + i - 1]
    BY <1>1, <2>1, SubSeqProperties
  <2> HIDE DEF v
  <2>3. Len(v) = Len(q) - 2
    <3>1. CASE Len(q) = 2
      BY <2>2, <3>1
    <3>2. CASE Len(q) # 2
      <4>1. 3 <= Len(q)
        BY <1>1, <3>2
      <4>2. QED BY <1>1, <2>2, <4>1
    <3>3. QED BY <3>1, <3>2
  <2>4. ASSUME NEW i \in 1 .. Len(q) - 2 PROVE v[i] = q[i + 2]
    <3>1. i \in 1 .. Len(q) - 3 + 1 /\ 3 + i - 1 = i + 2
      BY <1>1
    <3>2. QED BY <2>2, <3>1
  <2>5. QED BY <2>2, <2>3, <2>4
<1> HIDE DEF u, v
<1>4. /\ u \o v \in Seq(E) /\ Len(u \o v) = Len(u) + Len(v)
      /\ \A i \in 1 .. Len(u) + Len(v) : (u \o v)[i] = IF i <= Len(u) THEN u[i] ELSE v[i - Len(u)]
  BY <1>2, <1>3, ConcatProperties
<1> DEFINE w == u \o v
<1> HIDE DEF w
<1>5. w \in Seq(E) /\ Len(w) = Len(q) - 1
  BY <1>1, <1>2, <1>3, <1>4 DEF w
<1>6. w[1] = q[1]
  BY <1>1, <1>2, <1>3, <1>4 DEF w
<1>7. ASSUME NEW i \in 2 .. Len(q) - 1 PROVE w[i] = q[i + 1]
  <2>1. i \in 1 .. Len(u) + Len(v) /\ ~(i <= Len(u)) /\ i - Len(u) = i - 1 /\ i - 1 \in 1 .. Len(q) - 2 /\ (i - 1) + 2 = i + 1
    BY <1>1, <1>2, <1>3
  <2>2. QED BY <1>3, <1>4, <2>1 DEF w
<1>8. QED BY <1>5, <1>6, <1>7 DEF Beside, w, u, v

\* The tag adds nothing to it.
LEMMA BesideTag ==
  ASSUME NEW E, NEW q \in Seq(E), Len(q) = 2
  PROVE  Beside(q) = <<q[1]>>
<1>1. Len(q) > 1 /\ Len(q) - 1 = 1 /\ q[1] \in E
  OBVIOUS
<1>2. Beside(q) \in Seq(E) /\ Len(Beside(q)) = 1 /\ Beside(q)[1] = q[1]
  BY <1>1, BesideIs
<1>3. <<q[1]>> \in Seq(E) /\ Len(<<q[1]>>) = 1 /\ <<q[1]>>[1] = q[1]
  BY <1>1
<1>4. QED BY <1>2, <1>3, SeqEqual

\* Every later header adds itself.
LEMMA BesideAppend ==
  ASSUME NEW E, NEW q \in Seq(E), NEW x \in E, Len(q) > 1
  PROVE  /\ Append(q, x)[1] = q[1] /\ Append(q, x)[2] = q[2] /\ Len(Append(q, x)) = Len(q) + 1
         /\ Beside(Append(q, x)) = Append(Beside(q), x)
<1> DEFINE p == Append(q, x)
           b == Beside(q)
           c == Append(b, x)
<1>1. Len(q) \in Nat /\ 1 \in 1 .. Len(q) /\ 2 \in 1 .. Len(q)
  OBVIOUS
<1>2. /\ p \in Seq(E) /\ Len(p) = Len(q) + 1 /\ p[Len(q) + 1] = x
      /\ \A i \in 1 .. Len(q) : p[i] = q[i]
  BY AppendProperties
<1>3. b \in Seq(E) /\ Len(b) = Len(q) - 1 /\ b[1] = q[1] /\ \A i \in 2 .. Len(q) - 1 : b[i] = q[i + 1]
  BY BesideIs
<1> HIDE DEF p, b
<1>4. /\ c \in Seq(E) /\ Len(c) = Len(b) + 1 /\ c[Len(b) + 1] = x
      /\ \A i \in 1 .. Len(b) : c[i] = b[i]
  BY <1>3, AppendProperties
<1>5. /\ Beside(p) \in Seq(E) /\ Len(Beside(p)) = Len(p) - 1
      /\ Beside(p)[1] = p[1] /\ \A i \in 2 .. Len(p) - 1 : Beside(p)[i] = p[i + 1]
  BY <1>1, <1>2, BesideIs
<1> HIDE DEF c
<1>6. ASSUME NEW i \in 1 .. Len(q) PROVE Beside(p)[i] = c[i]
  <2>1. CASE i = 1
    <3>1. 1 \in 1 .. Len(b)
      BY <1>1, <1>3
    <3>2. QED BY <1>1, <1>2, <1>3, <1>4, <1>5, <2>1, <3>1
  <2>2. CASE i # 1 /\ i # Len(q)
    <3>1. i \in 2 .. Len(q) - 1 /\ i \in 2 .. Len(p) - 1 /\ i \in 1 .. Len(b) /\ i + 1 \in 1 .. Len(q)
      BY <1>1, <1>2, <1>3, <2>2
    <3>2. QED BY <1>2, <1>3, <1>4, <1>5, <3>1
  <2>3. CASE i # 1 /\ i = Len(q)
    <3>1. i \in 2 .. Len(p) - 1 /\ i = Len(b) + 1 /\ i + 1 = Len(q) + 1
      BY <1>1, <1>2, <1>3, <2>3
    <3>2. Beside(p)[i] = p[i + 1]
      BY <1>5, <3>1
    <3>3. p[i + 1] = x /\ c[i] = x
      BY <1>2, <1>4, <3>1
    <3>4. QED BY <3>2, <3>3
  <2>4. QED BY <2>1, <2>2, <2>3
<1>7. Len(Beside(p)) = Len(q) /\ Len(c) = Len(q)
  BY <1>1, <1>2, <1>3, <1>4, <1>5
<1>8. Beside(p) = c
  BY <1>4, <1>5, <1>6, <1>7, SeqEqual
<1>9. QED BY <1>1, <1>2, <1>8 DEF c, p, b

\* Such a frame is taken from ethernet to the tag's state, and on to testing's.
AtTestings ==
  Tagged =>
    \/ at \in {Start, Shadow(Ethernet)}
    \/ at = ShadowTag /\ got = <<"ethernet">> /\ rest = Tail(frame)
    \/ /\ at \in {Shadow(n) : n \in Inner(pair[2])} \cup {EndOfParser}
       /\ Len(got) > 1 /\ got[1] = "ethernet" /\ got[2] = "shadow_tag"

\* Where testing's parser is, what it has extracted and what is left.
TestingAt == IF at = ShadowTag THEN Ethernet ELSE Unprefixed(at)
TestingKey == IF Len(got) > 1 THEN key ELSE NoType
TestingGot == IF Len(got) > 1 THEN Beside(got) ELSE <<>>
TestingRest == IF got = <<>> THEN Tail(rest) ELSE rest

\* A step of testing's parser.
TestingStep(s) ==
  \E n \in DOMAIN s :
    /\ n = TestingAt /\ n # EndOfParser
    /\ IF s[n].extract = NoHeader
       THEN UNCHANGED <<TestingKey, TestingGot, TestingRest>>
       ELSE /\ TestingRest # <<>>
            /\ TestingKey' = Head(TestingRest) /\ TestingRest' = Tail(TestingRest)
            /\ TestingGot' = Append(TestingGot, s[n].extract)
    /\ TestingAt' = Chosen(s[n], TestingKey')

\* What testing's names are.
LEMMA TestingNames ==
  ASSUME NEW r, NEW s, Apart(r, s)
  PROVE  /\ Unprefixed(Start) = Start /\ Unprefixed(EndOfParser) = EndOfParser
         /\ Unprefixed(Shadow(Ethernet)) = Ethernet
         /\ \A n \in Inner(s) \cup {EndOfParser} : Renamed(n) # ShadowTag /\ Unprefixed(Renamed(n)) = n
         /\ \A n \in Inner(s) : Renamed(n) = Shadow(n)
<1>1. Unprefixed(Start) = Start /\ Unprefixed(EndOfParser) = EndOfParser
  BY DEF Unprefixed, Start, EndOfParser
<1>2. EndOfParser \notin Inner(s)
  BY DEF Apart, IsParser, Inner
<1>3. \A n \in Inner(s) : Renamed(n) = Shadow(n)
  BY <1>2 DEF Renamed
<1>4. EndOfParser # ShadowTag /\ Renamed(EndOfParser) = EndOfParser
  BY DEF Renamed, EndOfParser, ShadowTag
<1>5. QED BY <1>1, <1>3, <1>4, NamesDiffer

\* What each step on such a frame does.
LEMMA TaggedStep ==
  ASSUME Parsing, Parsing', AtTestings, Tagged, NoOwnTag(pair[1]), ParseState, pair' = pair
  PROVE  /\ AtTestings'
         /\ \/ UNCHANGED <<TestingAt, TestingKey, TestingGot, TestingRest>>
            \/ TestingStep(pair[2])
<1> DEFINE r == pair[1]
           s == pair[2]
           E == {t.extract : t \in parser}
<1>1. Apart(r, s) /\ pair \in Pairs /\ parser = Dumped(Merged)
  BY PairApart DEF Parsing
<1>2. \A t \in parser : StateIs(t, r, s)
  BY <1>1, ParserStates
<1>3. /\ {Start, Ethernet} \subseteq DOMAIN s /\ s[Ethernet].extract = "ethernet"
      /\ s[Start] = [extract |-> NoHeader, on |-> FALSE, to |-> <<<<Default, Ethernet>>>>]
      /\ IsParser(r) /\ IsParser(s)
  BY <1>1 DEF Apart, IsParser
<1>4. Ethernet # Start /\ Ethernet # EndOfParser /\ Start # EndOfParser /\ Start # ShadowTag
      /\ ShadowTag # Shadow(Ethernet) /\ Start # Shadow(Ethernet)
  <2>1. Ethernet # Start /\ Ethernet # EndOfParser
    BY DEF Ethernet, Start, EndOfParser
  <2>2. QED BY <1>1, <2>1, NamesDiffer
<1>5. \A n \in DOMAIN s \ {Start} : \A k : Chosen(s[n], k) \in Inner(s) \cup {EndOfParser}
  <2> HIDE DEF s
  <2>1. QED BY <1>3, ChosenIn
<1>6. PICK t \in parser :
        /\ t.name = at
        /\ IF t.extract = NoHeader
           THEN at' = Chosen(t, key) /\ UNCHANGED <<key, got, rest>>
           ELSE /\ rest # <<>>
                /\ key' = Head(rest) /\ rest' = Tail(rest)
                /\ got' = Append(got, t.extract)
                /\ at' = Chosen(t, key')
  BY DEF ParseState
<1>7. StateIs(t, r, s) /\ at # EndOfParser
  BY <1>2 DEF ParseState
<1>8. frame' = frame
  BY DEF ParseState
<1>9. /\ got \in Seq(E) /\ got' \in Seq(E) /\ t.extract \in E
  <2>1. parser' = parser
    BY DEF ParseState
  <2>2. QED BY <1>6, <2>1 DEF Parsing
<1> HIDE DEF r, s, E
<1>10. CASE at = Start
  <2>1. FromStart(t)
    BY <1>1, <1>6, <1>7, <1>10, StateNamed
  <2>2. at' = Shadow(Ethernet) /\ UNCHANGED <<key, got, rest>>
    BY <1>6, <2>1 DEF FromStart
  <2>3. \A k : Chosen(s[Start], k) = Ethernet
    <3>1. DOMAIN s[Start].to = {1}
      BY <1>3
    <3>2. s[Start].to[1][1] = Default /\ s[Start].to[1][2] = Ethernet
      BY <1>3
    <3>3. \A k : \A j \in DOMAIN s[Start].to : k \notin s[Start].to[j][1]
      BY <3>1, <3>2 DEF Default
    <3>4. Keyed(s[Start].to)
      BY <3>1 DEF Keyed
    <3>5. QED BY <3>1, <3>2, <3>3, <3>4, ChosenDefault
  <2>4. TestingAt = Start /\ TestingAt' = Ethernet
    BY <1>1, <1>4, <1>10, <2>2, TestingNames DEF TestingAt
  <2>5. UNCHANGED <<TestingKey, TestingGot, TestingRest>>
    BY <2>2 DEF TestingKey, TestingGot, TestingRest
  <2>6. s[Start].extract = NoHeader
    BY <1>3
  <2>7. TestingStep(s)
    BY <1>3, <1>4, <2>3, <2>4, <2>5, <2>6 DEF TestingStep
  <2>8. QED BY <2>2, <2>7 DEF AtTestings, s
<1>11. CASE at = Shadow(Ethernet)
  <2>1. FromBoth(t, r)
    BY <1>1, <1>6, <1>7, <1>11, StateNamed
  <2>2. t.extract = "ethernet" /\ "ethernet" # NoHeader
    BY <2>1 DEF FromBoth, NoHeader
  <2>3. /\ rest # <<>> /\ key' = Head(rest) /\ rest' = Tail(rest)
        /\ got' = Append(got, "ethernet") /\ at' = Chosen(t, key')
    BY <1>6, <2>2
  <2>4. rest = frame /\ frame # <<>> /\ frame[1] = Tag /\ got = <<>>
    BY <1>11 DEF Parsing, Tagged
  <2>5. key' = Tag
    <3>1. Head(rest) = frame[1]
      BY <2>4
    <3>2. QED BY <2>3, <2>4, <3>1
  <2>6. at' = ShadowTag
    BY <2>1, <2>3, <2>5 DEF FromBoth, r
  <2>7. got' = <<"ethernet">>
    BY <2>3, <2>4
  <2>8. TestingAt = Ethernet /\ TestingAt' = Ethernet
    BY <1>1, <1>4, <1>11, <2>6, TestingNames DEF TestingAt
  <2>9. TestingKey = NoType /\ TestingKey' = NoType /\ TestingGot = <<>> /\ TestingGot' = <<>>
    BY <2>4, <2>7 DEF TestingKey, TestingGot
  <2>10. TestingRest = Tail(frame) /\ TestingRest' = Tail(frame)
    BY <2>3, <2>4, <2>7 DEF TestingRest
  <2>11. AtTestings'
    BY <1>8, <2>3, <2>4, <2>6, <2>7 DEF AtTestings
  <2>12. QED BY <2>8, <2>9, <2>10, <2>11
<1>12. CASE at = ShadowTag
  <2>1. FromTag(t, s)
    BY <1>1, <1>6, <1>7, <1>12, StateNamed
  <2>2. t.extract = "shadow_tag" /\ "shadow_tag" # NoHeader /\ "ethernet" # NoHeader
    BY <2>1 DEF FromTag, NoHeader
  <2>3. /\ rest # <<>> /\ key' = Head(rest) /\ rest' = Tail(rest)
        /\ got' = Append(got, "shadow_tag") /\ at' = Chosen(t, key')
    BY <1>6, <2>2
  <2>4. got = <<"ethernet">> /\ rest = Tail(frame)
    BY <1>1, <1>4, <1>12, NamesDiffer DEF AtTestings, s
  <2>5. /\ Len(got') = 2 /\ got'[1] = "ethernet" /\ got'[2] = "shadow_tag" /\ Beside(got') = <<"ethernet">>
        /\ Len(got) = 1 /\ got # <<>> /\ got' # <<>>
    <3>1. Len(got') = 2 /\ got'[1] = "ethernet" /\ got'[2] = "shadow_tag"
      BY <2>3, <2>4
    <3>2. Beside(got') = <<got'[1]>>
      BY <1>9, <3>1, BesideTag
    <3>3. Len(got) = 1
      BY <2>4
    <3>4. QED BY <3>1, <3>2, <3>3
  <2>6. at' = Renamed(Chosen(s[Ethernet], key')) /\ Chosen(s[Ethernet], key') \in Inner(s) \cup {EndOfParser}
    BY <1>3, <1>4, <1>5, <2>1, <2>3 DEF FromTag
  <2>7. TestingAt = Ethernet /\ TestingAt' = Chosen(s[Ethernet], key')
    BY <1>1, <1>12, <2>6, TestingNames DEF TestingAt
  <2>8. TestingKey' = key' /\ TestingGot = <<>> /\ TestingGot' = <<"ethernet">>
    BY <2>5 DEF TestingKey, TestingGot
  <2>9. TestingRest = rest /\ TestingRest' = rest'
    BY <2>5 DEF TestingRest
  <2>10. TestingGot' = Append(TestingGot, s[Ethernet].extract)
    BY <1>3, <2>8
  <2>11. s[Ethernet].extract # NoHeader
    BY <1>3, <2>2
  <2>12. TestingStep(s)
    BY <1>3, <1>4, <2>3, <2>7, <2>8, <2>9, <2>10, <2>11 DEF TestingStep
  <2>13. at' \in {Shadow(n) : n \in Inner(s)} \cup {EndOfParser}
    BY <2>6 DEF Renamed
  <2>14. Len(got') > 1
    BY <2>5
  <2>15. AtTestings'
    BY <2>5, <2>13, <2>14 DEF AtTestings, s
  <2>16. QED BY <2>12, <2>15 DEF s
<1>13. CASE at \in {Shadow(n) : n \in Inner(s)}
  <2>1. PICK n \in Inner(s) : at = Shadow(n)
    BY <1>13
  <2>2. n \in DOMAIN s /\ n # Start /\ n # EndOfParser
    BY <1>3 DEF Inner, IsParser
  <2>3. at \notin {Start, Shadow(Ethernet), ShadowTag}
    BY <1>1, <2>1, NamesDiffer
  <2>4. Len(got) > 1 /\ got[1] = "ethernet" /\ got[2] = "shadow_tag"
    BY <2>3 DEF AtTestings
  <2>5. FromTesting(t, s, n)
    BY <1>1, <1>6, <1>7, <2>1, StateNamed
  <2>6. t.extract = s[n].extract /\ at' = Renamed(Chosen(s[n], key'))
    BY <1>6, <2>5 DEF FromTesting
  <2>7. Chosen(s[n], key') \in Inner(s) \cup {EndOfParser}
    BY <1>5, <2>2
  <2>8. TestingAt = n /\ TestingAt' = Chosen(s[n], key')
    BY <1>1, <2>1, <2>3, <2>6, <2>7, TestingNames DEF TestingAt
  <2>9. at' \in {Shadow(m) : m \in Inner(s)} \cup {EndOfParser}
    BY <2>6, <2>7 DEF Renamed
  <2>10. CASE t.extract = NoHeader
    <3>1. UNCHANGED <<key, got, rest>>
      BY <1>6, <2>10
    <3>2. UNCHANGED <<TestingKey, TestingGot, TestingRest>>
      BY <3>1 DEF TestingKey, TestingGot, TestingRest
    <3>3. TestingKey' = key'
      BY <2>4, <3>1 DEF TestingKey
    <3>4. TestingStep(s)
      BY <2>2, <2>6, <2>8, <2>10, <3>2, <3>3 DEF TestingStep
    <3>5. AtTestings'
      BY <2>4, <2>9, <3>1 DEF AtTestings, s
    <3>6. QED BY <3>4, <3>5 DEF s
  <2>11. CASE t.extract # NoHeader
    <3>1. /\ rest # <<>> /\ key' = Head(rest) /\ rest' = Tail(rest) /\ got' = Append(got, t.extract)
      BY <1>6, <2>11
    <3>2. /\ got'[1] = got[1] /\ got'[2] = got[2] /\ Len(got') = Len(got) + 1
          /\ Beside(got') = Append(Beside(got), t.extract)
      BY <1>9, <2>4, <3>1, BesideAppend
    <3>3. Len(got) \in Nat /\ Len(got') > 1 /\ got # <<>> /\ got' # <<>>
      BY <1>9, <2>4, <3>1, <3>2
    <3>4. TestingKey' = key' /\ TestingGot = Beside(got) /\ TestingGot' = Append(TestingGot, t.extract)
      BY <2>4, <3>2, <3>3 DEF TestingKey, TestingGot
    <3>5. TestingRest = rest /\ TestingRest' = rest'
      BY <3>3 DEF TestingRest
    <3>6. TestingStep(s)
      BY <2>2, <2>6, <2>8, <2>11, <3>1, <3>4, <3>5 DEF TestingStep
    <3>7. AtTestings'
      BY <2>4, <2>9, <3>2, <3>3 DEF AtTestings, s
    <3>8. QED BY <3>6, <3>7 DEF s
  <2>12. QED BY <2>10, <2>11
<1>14. QED BY <1>7, <1>10, <1>11, <1>12, <1>13 DEF AtTestings, s

\* Testing's parser takes the same branches, whichever module it is in.
LEMMA TestingChosen ==
  ASSUME NEW t, NEW k
  PROVE  Testing!Chosen(t, k) = Chosen(t, k)
BY DEF Testing!Chosen, Chosen, Testing!Default, Default, Testing!EndOfParser, EndOfParser

\* At first it is idle.
LEMMA TaggedInit ==
  ASSUME Init
  PROVE  AtTestings /\ Testing!Idle
<1>1. frame = <<>> /\ at = EndOfParser
  BY DEF Init, Idle
<1>2. ~Tagged
  BY <1>1 DEF Tagged
<1>3. QED BY <1>1, <1>2 DEF AtTestings, Testing!Idle, Testing!EndOfParser, EndOfParser,
             Testing!NoType, NoType

\* Every step is one of testing's, or none.
LEMMA TaggedNext ==
  ASSUME Parsing, Parsing', AtTestings, NoOwnTag(pair[1]), [Next]_vars
  PROVE  AtTestings' /\ [Testing!Arrive \/ Testing!ParseState \/ Testing!Leave]_(Testing!runVars)
<1> DEFINE f == IF Tagged THEN Tail(frame) ELSE <<>>
           a == IF Tagged THEN IF at = ShadowTag THEN Ethernet ELSE Unprefixed(at) ELSE EndOfParser
           k == IF Tagged /\ Len(got) > 1 THEN key ELSE NoType
           g == IF Tagged /\ Len(got) > 1 THEN <<got[1]>> \o SubSeq(got, 3, Len(got)) ELSE <<>>
           e == IF Tagged THEN IF got = <<>> THEN Tail(rest) ELSE rest ELSE <<>>
           p == StatesOf(pair[2])
           s == pair[2]
<1>1. pair' = pair /\ p' = p
  BY StepIs DEF runVars, Arrive, ParseState, Leave, StatesOf
<1>2. p' = p /\ f' = f /\ a' = a /\ k' = k /\ g' = g /\ e' = e => UNCHANGED Testing!runVars
  BY DEF Testing!runVars
<1>3. Apart(pair[1], pair[2])
  BY PairApart DEF Parsing
<1>4. /\ Unprefixed(Start) = Start /\ Unprefixed(EndOfParser) = EndOfParser
      /\ Start # ShadowTag /\ EndOfParser # ShadowTag
  BY <1>3, TestingNames, NamesDiffer
<1>5. Tagged => a = TestingAt /\ k = TestingKey /\ g = TestingGot /\ e = TestingRest
  BY DEF TestingAt, TestingKey, TestingGot, TestingRest, Beside
<1>6. Tagged' => a' = TestingAt' /\ k' = TestingKey' /\ g' = TestingGot' /\ e' = TestingRest'
  BY DEF TestingAt, TestingKey, TestingGot, TestingRest, Beside
<1>7. ~Tagged => f = <<>> /\ a = EndOfParser /\ k = NoType /\ g = <<>> /\ e = <<>>
  OBVIOUS
<1>8. ~Tagged' => f' = <<>> /\ a' = EndOfParser /\ k' = NoType /\ g' = <<>> /\ e' = <<>>
  OBVIOUS
<1>9. Len(<<>>) = 0
  OBVIOUS
<1>10. CASE Arrive
  <2>1. /\ frame = <<>> /\ frame' \in Frames /\ rest' = frame'
        /\ at' = Start /\ key' = NoType /\ got' = <<>>
    BY <1>10 DEF Arrive
  <2>2. ~Tagged /\ frame' # <<>>
    BY <2>1, FramesAssumption DEF Tagged
  <2>3. CASE Tagged'
    <3>1. frame'[1] = Tag
      BY <2>3 DEF Tagged
    <3>2. f' = Tail(frame') /\ e' = Tail(frame') /\ a' = Start /\ k' = NoType /\ g' = <<>>
      BY <1>4, <1>9, <2>1, <2>3
    <3>3. f' \in {Tail(h) : h \in {h \in Frames : h[1] = Tag}}
      BY <2>1, <3>1, <3>2
    <3>4. Testing!Arrive
      <4> HIDE DEF f, a, k, g, e, p
      <4>1. f = <<>> /\ f' \in {Tail(h) : h \in {h \in Frames : h[1] = Tag}} /\ e' = f'
            /\ a' = Start /\ k' = NoType /\ g' = <<>> /\ p' = p
        BY <1>1, <1>7, <2>2, <3>2, <3>3
      <4>2. QED BY <4>1 DEF Testing!Arrive, Testing!Start, Start, Testing!NoType, NoType, f, a, k, g, e, p
    <3>5. AtTestings'
      BY <2>1 DEF AtTestings
    <3>6. QED BY <3>4, <3>5
  <2>4. CASE ~Tagged'
    <3>1. f' = f /\ a' = a /\ k' = k /\ g' = g /\ e' = e
      BY <1>7, <1>8, <2>2, <2>4
    <3> HIDE DEF f, a, k, g, e, p
    <3>2. QED BY <1>1, <1>2, <2>4, <3>1 DEF AtTestings
  <2>5. QED BY <2>3, <2>4
<1>11. CASE ParseState
  <2>1. frame' = frame /\ Tagged' = Tagged
    BY <1>11 DEF ParseState, Tagged
  <2>2. CASE Tagged
    <3>1. AtTestings' /\ (UNCHANGED <<TestingAt, TestingKey, TestingGot, TestingRest>> \/ TestingStep(s))
      BY <1>1, <1>11, <2>2, TaggedStep
    <3>2. Tagged' /\ f' = f
      BY <2>1, <2>2
    <3>3. /\ a = TestingAt /\ k = TestingKey /\ g = TestingGot /\ e = TestingRest
          /\ a' = TestingAt' /\ k' = TestingKey' /\ g' = TestingGot' /\ e' = TestingRest'
      BY <1>5, <1>6, <2>2, <3>2
    <3>4. CASE UNCHANGED <<TestingAt, TestingKey, TestingGot, TestingRest>>
      <4> HIDE DEF f, a, k, g, e, p
      <4>1. QED BY <1>1, <1>2, <3>1, <3>2, <3>3, <3>4
    <3>5. CASE TestingStep(s)
      <4> HIDE DEF f, a, k, g, e
      <4>1. PICK n \in DOMAIN s :
              /\ n = a /\ n # EndOfParser
              /\ IF s[n].extract = NoHeader
                 THEN k' = k /\ g' = g /\ e' = e
                 ELSE e # <<>> /\ k' = Head(e) /\ e' = Tail(e) /\ g' = Append(g, s[n].extract)
              /\ a' = Chosen(s[n], k')
        BY <3>3, <3>5 DEF TestingStep
      <4> DEFINE t == [name |-> n, extract |-> s[n].extract, on |-> s[n].on, to |-> s[n].to]
      <4>2. t \in p /\ t.name = n /\ t.extract = s[n].extract
        BY DEF StatesOf
      <4>3. \A x : Chosen(t, x) = Chosen(s[n], x)
        BY DEF Chosen
      <4> HIDE DEF p, t, s
      <4>4. \A x : Testing!Chosen(t, x) = Chosen(s[n], x)
        BY <4>3, TestingChosen
      <4>5. /\ t.name = a
            /\ IF t.extract = NoHeader
               THEN a' = Testing!Chosen(t, k) /\ k' = k /\ g' = g /\ e' = e
               ELSE /\ e # <<>> /\ k' = Head(e) /\ e' = Tail(e)
                    /\ g' = Append(g, t.extract) /\ a' = Testing!Chosen(t, k')
        BY <4>1, <4>2, <4>4
      <4>6. Testing!ParseState
        BY <1>1, <3>2, <4>1, <4>2, <4>5 DEF Testing!ParseState, Testing!EndOfParser, EndOfParser,
                                Testing!NoHeader, NoHeader, f, a, k, g, e, p
      <4>7. QED BY <3>1, <4>6
    <3>6. QED BY <3>1, <3>4, <3>5
  <2>3. CASE ~Tagged
    <3>1. f' = f /\ a' = a /\ k' = k /\ g' = g /\ e' = e
      BY <1>7, <1>8, <2>1, <2>3
    <3> HIDE DEF f, a, k, g, e, p
    <3>2. QED BY <1>1, <1>2, <2>1, <2>3, <3>1 DEF AtTestings
  <2>4. QED BY <2>2, <2>3
<1>12. CASE Leave
  <2>1. frame # <<>> /\ at = EndOfParser /\ at' = EndOfParser
        /\ frame' = <<>> /\ key' = NoType /\ got' = <<>> /\ rest' = <<>>
    BY <1>12 DEF Leave
  <2>2. ~Tagged'
    BY <2>1 DEF Tagged
  <2>3. CASE Tagged
    <3>1. f # <<>>
      <4>1. frame \in Seq(ToSet(frame)) /\ Len(frame) > 1
        BY <2>1, <2>3, FramesAssumption DEF Parsing, Tagged
      <4>2. Len(Tail(frame)) > 0
        BY <2>1, <4>1
      <4>3. f = Tail(frame)
        BY <2>3
      <4> HIDE DEF f
      <4>4. QED BY <1>9, <4>2, <4>3
    <3>2. f' = <<>> /\ a = EndOfParser /\ a' = EndOfParser /\ k' = NoType /\ g' = <<>> /\ e' = <<>>
      BY <1>4, <1>8, <2>1, <2>2, <2>3
    <3>3. Testing!Leave
      <4> HIDE DEF f, a, k, g, e, p
      <4>1. f # <<>> /\ a = EndOfParser /\ f' = <<>> /\ k' = NoType /\ g' = <<>> /\ e' = <<>> /\ p' = p /\ a' = a
        BY <1>1, <3>1, <3>2
      <4>2. QED BY <4>1 DEF Testing!Leave, Testing!EndOfParser, EndOfParser, Testing!NoType, NoType, f, a, k, g, e, p
    <3>4. QED BY <2>2, <3>3 DEF AtTestings
  <2>4. CASE ~Tagged
    <3>1. f' = f /\ a' = a /\ k' = k /\ g' = g /\ e' = e
      BY <1>7, <1>8, <2>2, <2>4
    <3> HIDE DEF f, a, k, g, e, p
    <3>2. QED BY <1>1, <1>2, <2>2, <3>1 DEF AtTestings
  <2>5. QED BY <2>3, <2>4
<1>13. CASE UNCHANGED runVars
  <2>1. frame' = frame /\ at' = at /\ key' = key /\ got' = got /\ rest' = rest /\ Tagged' = Tagged
    BY <1>13 DEF runVars, Tagged
  <2>2. f' = f /\ a' = a /\ k' = k /\ g' = g /\ e' = e
    BY <2>1
  <2>3. AtTestings'
    BY <1>1, <2>1 DEF AtTestings
  <2> HIDE DEF f, a, k, g, e, p
  <2>4. QED BY <1>1, <1>2, <2>2, <2>3
<1>14. QED BY <1>10, <1>11, <1>12, <1>13, StepIs

\* A frame with the tag is parsed as testing alone would parse what was tagged,
\* as long as no production has a branch of its own for the tag.
THEOREM TaggedRefined ==
  ASSUME \A q \in Pairs : NoOwnTag(q[1])
  PROVE  Spec => TaggedAsTesting
<1>1. Init => Parsing /\ AtTestings /\ Testing!Idle
  BY ParsingInit, TaggedInit
<1>2. Parsing /\ AtTestings /\ [Next]_vars =>
        /\ Parsing' /\ AtTestings'
        /\ [Testing!Arrive \/ Testing!ParseState \/ Testing!Leave]_(Testing!runVars)
  BY ParsingStep, TaggedNext DEF Parsing
<1>3. Parsing /\ AtTestings => (Tagged /\ Len(got) > 1 => got[2] = "shadow_tag")
  BY DEF Parsing, AtTestings
<1>4. QED BY <1>1, <1>2, <1>3, PTL DEF Spec, TaggedAsTesting, Testing!Parses

-----------------------------------------------------------------------------
(***************************************************************************)
(* The order of the deparser                                               *)
(***************************************************************************)

\* A sorting has every node at one place, and edges lead forward.
LEMMA SortingIs ==
  ASSUME NEW g, IsFiniteSet(g.node), NEW q \in Sortings(g)
  PROVE  /\ DOMAIN q \subseteq Nat
         /\ \A x \in g.node : \E a \in DOMAIN q : q[a] = x
         /\ \A a \in DOMAIN q : q[a] \in g.node
         /\ \A a, b \in DOMAIN q : q[a] = q[b] => a = b
         /\ \A a, b \in DOMAIN q : <<q[a], q[b]>> \in g.edge => a < b
<1> DEFINE nodes == g.node
           es == g.edge
           n == Cardinality(nodes)
           D == 1 .. n
<1>1. n \in Nat
  BY FS_CardinalityType
<1>2. /\ q \in [D -> nodes] /\ \A i, j \in D : i # j => q[i] # q[j]
      /\ \A i, j \in DOMAIN q : <<q[i], q[j]>> \in es => i < j
  BY DEF Sortings, SetToSeqs
<1>3. q \in Injection(D, nodes)
  BY <1>2 DEF Injection, IsInjective
<1>4. Cardinality(D) = n
  BY <1>1, FS_Interval
<1> HIDE DEF D
<1>5. q \in Surjection(D, nodes)
  BY <1>3, <1>4, FS_Injection
<1>6. \A x \in nodes : \E a \in D : q[a] = x
  BY <1>5 DEF Surjection
<1>7. DOMAIN q = D /\ D \subseteq Nat
  BY <1>1, <1>2 DEF D
<1>8. QED BY <1>2, <1>6, <1>7

ObjectNamedAs(heap, x, r, s) ==
  \/ x = SStart /\ heap[x].name = Start
  \/ x = TagState /\ heap[x].name = ShadowTag
  \/ x = SEth /\ heap[x].name = Shadow(Ethernet)
  \/ \E n \in Inner(r) : x = <<"r", n>> /\ heap[x].name = n
  \/ \E n \in Inner(s) : x = <<"s", n>> /\ heap[x].name = Shadow(n)

\* What the objects that can be come to are called.
LEMMA ObjectIs ==
  ASSUME NEW r, NEW s, Apart(r, s), NEW heap, LiveObjects(heap, r, s), NEW x \in Live(r, s)
  PROVE  ObjectNamedAs(heap, x, r, s)
<1>1. IsParser(r) /\ IsParser(s)
  BY DEF Apart
<1>2. SEth \in Moved(r, s) /\ Moved(r, s) \subseteq {"s"} \X (DOMAIN s \ {Start})
  BY <1>1, MovedAre
<1>3. CASE x = SStart
  BY <1>3 DEF LiveObjects, IsBuilt, ObjectNamedAs
<1>4. CASE x = TagState
  BY <1>4 DEF LiveObjects, ObjectNamedAs
<1>5. CASE x = SEth
  BY <1>5 DEF LiveObjects, ObjectNamedAs
<1>6. CASE x \in {"r"} \X Inner(r)
  <2>1. PICK n \in Inner(r) : x = <<"r", n>>
    BY <1>6
  <2>2. heap[x].name = n
    BY <2>1 DEF LiveObjects, IsBuilt
  <2>3. QED BY <2>1, <2>2 DEF ObjectNamedAs
<1>7. CASE x \in Moved(r, s) /\ x # SEth
  <2>1. PICK n \in DOMAIN s \ {Start} : x = <<"s", n>>
    BY <1>2, <1>7
  <2>2. n \in Inner(s)
    BY <1>7, <2>1 DEF Inner, SEth
  <2>3. heap[x].name = Shadow(n)
    BY <1>7, <2>1, <2>2 DEF LiveObjects, IsBuilt
  <2>4. QED BY <2>1, <2>2, <2>3 DEF ObjectNamedAs
<1>8. QED BY <1>3, <1>4, <1>5, <1>6, <1>7 DEF Live

\* Two objects that can be come to have different names.
LEMMA ObjectNamed ==
  ASSUME NEW r, NEW s, Apart(r, s), NEW heap, LiveObjects(heap, r, s),
         NEW o \in Live(r, s), NEW q \in Live(r, s), heap[o].name = heap[q].name
  PROVE  o = q
<1>1. ObjectNamedAs(heap, o, r, s) /\ ObjectNamedAs(heap, q, r, s)
  BY ObjectIs
<1>2. CASE o = SStart /\ heap[o].name = Start
  BY <1>1, <1>2, NamesDiffer DEF ObjectNamedAs
<1>3. CASE o = TagState /\ heap[o].name = ShadowTag
  BY <1>1, <1>3, NamesDiffer DEF ObjectNamedAs
<1>4. CASE o = SEth /\ heap[o].name = Shadow(Ethernet)
  BY <1>1, <1>4, NamesDiffer DEF ObjectNamedAs
<1>5. CASE \E n \in Inner(r) : o = <<"r", n>> /\ heap[o].name = n
  <2>1. PICK n \in Inner(r) : o = <<"r", n>> /\ heap[o].name = n
    BY <1>5
  <2>2. QED BY <1>1, <2>1, NamesDiffer DEF ObjectNamedAs
<1>6. CASE \E n \in Inner(s) : o = <<"s", n>> /\ heap[o].name = Shadow(n)
  <2>1. PICK n \in Inner(s) : o = <<"s", n>> /\ heap[o].name = Shadow(n)
    BY <1>6
  <2>2. QED BY <1>1, <2>1, NamesDiffer DEF ObjectNamedAs
<1>7. QED BY <1>1, <1>2, <1>3, <1>4, <1>5, <1>6 DEF ObjectNamedAs

\* Where branches lead, and which state of a program has the branch.
LeadsTo(p, n, m) == \E i \in DOMAIN p[n].to : p[n].to[i][2] = m

LeadsOwn(to, x, p, n) ==
  \A q \in Targets(to) : \E m \in Inner(p) : q = <<x, m>> /\ LeadsTo(p, n, m)

Branching(heap, r, s) ==
  /\ heap[SStart].extract = NoHeader /\ Targets(heap[SStart].to) \subseteq {SEth}
  /\ heap[SEth].extract = "ethernet"
  /\ Targets(heap[SEth].to) \subseteq {TagState} \cup ({"r"} \X Inner(r))
  /\ heap[TagState].extract = "shadow_tag"
  /\ Targets(heap[TagState].to) \subseteq {"s"} \X Inner(s)
  /\ \A n \in Inner(r) : LeadsOwn(heap[<<"r", n>>].to, "r", r, n)
  /\ \A n \in Inner(s) : <<"s", n>> \in Live(r, s) => LeadsOwn(heap[<<"s", n>>].to, "s", s, n)

\* The branches of an object are those of its state.
LEMMA OwnBranches ==
  ASSUME NEW p, IsParser(p), NEW n \in Inner(p), NEW b, NEW x, NEW m, IsBuilt(b, x, p[n], m)
  PROVE  LeadsOwn(b.to, x, p, n)
<1>1. n \in DOMAIN p /\ n # Start
  BY DEF Inner
<1> SUFFICES ASSUME NEW q \in Targets(b.to)
             PROVE  \E k \in Inner(p) : q = <<x, k>> /\ LeadsTo(p, n, k)
  BY DEF LeadsOwn
<1>2. q # EndOfParser
  BY DEF Targets
<1>3. PICK i \in DOMAIN b.to : q = b.to[i][2]
  BY DEF Targets
<1>4. i \in DOMAIN p[n].to /\ q = IF p[n].to[i][2] = EndOfParser THEN EndOfParser ELSE <<x, p[n].to[i][2]>>
  BY <1>3 DEF IsBuilt
<1>5. p[n].to[i][2] \in Inner(p) \cup {EndOfParser}
  BY <1>1, <1>4, BranchesOf
<1>6. QED BY <1>2, <1>4, <1>5 DEF LeadsTo

\* All of them.
LEMMA BranchingIs ==
  ASSUME NEW r, NEW s, Apart(r, s), NEW heap, LiveObjects(heap, r, s)
  PROVE  Branching(heap, r, s)
<1>1. IsParser(r) /\ IsParser(s)
  BY DEF Apart
<1>2. Ethernet \in DOMAIN s /\ Ethernet # Start
      /\ s[Start] = [extract |-> NoHeader, on |-> FALSE, to |-> <<<<Default, Ethernet>>>>]
  BY <1>1 DEF IsParser, Ethernet, Start
<1>3. heap[SStart].extract = NoHeader /\ Targets(heap[SStart].to) \subseteq {SEth}
  <2>1. IsBuilt(heap[SStart], "s", s[Start], Start)
    BY DEF LiveObjects
  <2>2. DOMAIN s[Start].to = {1} /\ s[Start].to[1][2] = Ethernet /\ s[Start].extract = NoHeader
    BY <1>2
  <2>3. Ethernet # EndOfParser
    BY DEF Ethernet, EndOfParser
  <2>4. DOMAIN heap[SStart].to = {1} /\ heap[SStart].to[1][2] = <<"s", Ethernet>>
    BY <2>1, <2>2, <2>3 DEF IsBuilt
  <2>5. QED BY <2>1, <2>2, <2>4 DEF IsBuilt, Targets, SEth
<1>4. /\ heap[SEth].extract = "ethernet"
      /\ Targets(heap[SEth].to) \subseteq {TagState} \cup ({"r"} \X Inner(r))
  BY <1>1, EthernetTargets DEF LiveObjects
<1>5. /\ heap[TagState].extract = "shadow_tag"
      /\ Targets(heap[TagState].to) \subseteq {"s"} \X Inner(s)
  BY <1>1, <1>2, BuiltTargets DEF LiveObjects
<1>6. ASSUME NEW n \in Inner(r) PROVE LeadsOwn(heap[<<"r", n>>].to, "r", r, n)
  <2>1. IsBuilt(heap[<<"r", n>>], "r", r[n], n)
    BY DEF LiveObjects
  <2>2. QED BY <1>1, <2>1, OwnBranches
<1>7. ASSUME NEW n \in Inner(s), <<"s", n>> \in Live(r, s)
      PROVE  LeadsOwn(heap[<<"s", n>>].to, "s", s, n)
  <2>1. n # Start /\ n # Ethernet
    BY DEF Inner
  <2>2. <<"s", n>> \in Moved(r, s)
    BY <1>7, <2>1 DEF Live, SStart, TagState
  <2>3. IsBuilt(heap[<<"s", n>>], "s", s[n], Shadow(n))
    BY <2>2 DEF LiveObjects
  <2>4. QED BY <1>1, <2>3, OwnBranches
<1>8. QED BY <1>3, <1>4, <1>5, <1>6, <1>7 DEF Branching

\* An object's branches are a sequence.
LEMMA BranchesCounted ==
  ASSUME NEW r, NEW s, Apart(r, s), NEW heap, LiveObjects(heap, r, s), NEW o \in Live(r, s)
  PROVE  \E k \in Nat : DOMAIN heap[o].to = 1 .. k
<1>1. IsParser(r) /\ IsParser(s)
  BY DEF Apart
<1>2. Ethernet \in DOMAIN s /\ Ethernet # Start
      /\ s[Start] = [extract |-> NoHeader, on |-> FALSE, to |-> <<<<Default, Ethernet>>>>]
  BY <1>1 DEF IsParser, Ethernet, Start
<1>3. \A n \in Inner(r) : n \in DOMAIN r /\ n # Start
  BY DEF Inner
<1>4. \A n \in Inner(s) : n \in DOMAIN s /\ n # Start
  BY DEF Inner
<1>5. CASE o = SStart
  <2>1. DOMAIN heap[o].to = DOMAIN s[Start].to
    BY <1>5 DEF LiveObjects, IsBuilt
  <2>2. DOMAIN s[Start].to = 1 .. 1
    BY <1>2
  <2>3. QED BY <2>1, <2>2
<1>6. CASE o = TagState
  <2>1. heap[o].to = Built("s", s, Ethernet).to
    BY <1>6 DEF LiveObjects
  <2>2. DOMAIN heap[o].to = DOMAIN s[Ethernet].to
    BY <2>1, BuiltIs DEF IsBuilt
  <2>3. QED BY <1>1, <1>2, <2>2, BranchesOf
<1>7. CASE o = SEth
  BY <1>1, <1>7, EthernetTargets DEF LiveObjects
<1>8. CASE o \in {"r"} \X Inner(r)
  <2>1. PICK n \in Inner(r) : o = <<"r", n>>
    BY <1>8
  <2>2. DOMAIN heap[o].to = DOMAIN r[n].to
    BY <2>1 DEF LiveObjects, IsBuilt
  <2>3. QED BY <1>1, <1>3, <2>2, BranchesOf
<1>9. CASE o \in Moved(r, s) /\ o # SEth
  <2>1. PICK n \in DOMAIN s \ {Start} : o = <<"s", n>>
    BY <1>1, <1>9, MovedAre
  <2>2. n \in Inner(s)
    BY <1>9, <2>1 DEF Inner, SEth
  <2>3. DOMAIN heap[o].to = DOMAIN s[n].to
    BY <1>9, <2>1, <2>2 DEF LiveObjects, IsBuilt
  <2>4. QED BY <1>1, <1>4, <2>2, <2>3, BranchesOf
<1>10. QED BY <1>5, <1>6, <1>7, <1>8, <1>9 DEF Live

-----------------------------------------------------------------------------
(***************************************************************************)
(* On a way without loops no state is met again.                           *)
(***************************************************************************)

\* In a program's states of V each one leads to one of V, or to the state o.
Way(p, x, o, V) ==
  \A m \in Inner(p) : <<x, m>> \in V =>
    \E k \in Inner(p) : LeadsTo(p, m, k) /\ (<<x, k>> \in V \/ <<x, k>> = o)

\* What walk_rec has gone through when it comes to o.
OnWay(r, s, o, V) ==
  \/ o = SStart /\ V = {}
  \/ o = SEth /\ V \subseteq {SStart}
  \/ o = TagState /\ V \subseteq {SStart, SEth}
  \/ o \in {"r"} \X Inner(r) /\ Way(r, "r", o, V)
  \/ o \in {"s"} \X Inner(s) /\ Way(s, "s", o, V)

\* A program without loops: the state is not among them.
LEMMA WayFree ==
  ASSUME NEW p, LoopFree(p), NEW x, NEW n \in Inner(p), NEW V, Way(p, x, <<x, n>>, V)
  PROVE  <<x, n>> \notin V
<1> SUFFICES ASSUME <<x, n>> \in V PROVE FALSE
  OBVIOUS
<1> DEFINE S == {m \in Inner(p) : <<x, m>> \in V}
<1>1. S \subseteq DOMAIN p /\ n \in S
  BY DEF Inner
<1>2. \A m \in S : \E k \in S : LeadsTo(p, m, k)
  <2>1. TAKE m \in S
  <2>2. PICK k \in Inner(p) : LeadsTo(p, m, k) /\ (<<x, k>> \in V \/ <<x, k>> = <<x, n>>)
    BY DEF Way
  <2>3. QED BY <2>2
<1> HIDE DEF S
<1>3. PICK m \in S : \A i \in DOMAIN p[m].to : p[m].to[i][2] \notin S
  BY <1>1 DEF LoopFree
<1>4. QED BY <1>2, <1>3 DEF LeadsTo

\* So it is for all of the states that are met.
LEMMA NotMetAgain ==
  ASSUME NEW r, NEW s, LoopFree(r), LoopFree(s), NEW o, NEW V, OnWay(r, s, o, V)
  PROVE  o \notin V
<1>1. SStart # SEth /\ TagState \notin {SStart, SEth}
  BY DEF SStart, SEth, TagState, Start, Ethernet
<1>2. CASE o \in {"r"} \X Inner(r) /\ Way(r, "r", o, V)
  <2>1. PICK n \in Inner(r) : o = <<"r", n>>
    BY <1>2
  <2>2. QED BY <1>2, <2>1, WayFree
<1>3. CASE o \in {"s"} \X Inner(s) /\ Way(s, "s", o, V)
  <2>1. PICK n \in Inner(s) : o = <<"s", n>>
    BY <1>3
  <2>2. QED BY <1>3, <2>1, WayFree
<1>4. QED BY <1>1, <1>2, <1>3 DEF OnWay

\* A branch is followed.
LEMMA WayFollowed ==
  ASSUME NEW p, NEW x, NEW n \in Inner(p), NEW V, Way(p, x, <<x, n>>, V),
         NEW k \in Inner(p), LeadsTo(p, n, k)
  PROVE  Way(p, x, <<x, k>>, V \cup {<<x, n>>})
<1> SUFFICES ASSUME NEW m \in Inner(p), <<x, m>> \in V \cup {<<x, n>>}
             PROVE  \E j \in Inner(p) : /\ LeadsTo(p, m, j)
                                        /\ <<x, j>> \in V \cup {<<x, n>>} \/ <<x, j>> = <<x, k>>
  BY DEF Way
<1>1. CASE m = n
  BY <1>1
<1>2. CASE m # n
  <2>1. <<x, m>> \in V
    BY <1>2
  <2>2. PICK j \in Inner(p) : LeadsTo(p, m, j) /\ (<<x, j>> \in V \/ <<x, j>> = <<x, n>>)
    BY <2>1 DEF Way
  <2>3. QED BY <2>2
<1>3. QED BY <1>1, <1>2

\* The first of a program's states comes after none of them.
LEMMA WayBegun ==
  ASSUME NEW p, NEW x, NEW o, NEW V, V \subseteq {SStart, SEth, TagState}, x \in {"r", "s"}
  PROVE  Way(p, x, o, V)
<1> SUFFICES ASSUME NEW m \in Inner(p), <<x, m>> \in V PROVE FALSE
  BY DEF Way
<1>1. m # Start /\ m # Ethernet
  BY DEF Inner
<1>2. <<x, m>> \in {SStart, SEth, TagState}
  OBVIOUS
<1>3. QED BY <1>1, <1>2 DEF SStart, SEth, TagState

\* And for all of them.
LEMMA OnWayFollowed ==
  ASSUME NEW r, NEW s, NEW heap, Branching(heap, r, s), NEW o \in Live(r, s), NEW V, OnWay(r, s, o, V),
         NEW q \in Targets(heap[o].to)
  PROVE  OnWay(r, s, q, V \cup {o})
<1>1. CASE o = SStart /\ V = {}
  <2>1. q = SEth
    BY <1>1 DEF Branching
  <2>2. QED BY <1>1, <2>1 DEF OnWay
<1>2. CASE o = SEth /\ V \subseteq {SStart}
  <2>1. V \cup {o} \subseteq {SStart, SEth}
    BY <1>2
  <2>2. q \in {TagState} \cup ({"r"} \X Inner(r))
    BY <1>2 DEF Branching
  <2>3. V \cup {o} \subseteq {SStart, SEth, TagState}
    BY <2>1
  <2>4. Way(r, "r", q, V \cup {o})
    BY <2>3, WayBegun
  <2>5. QED BY <2>1, <2>2, <2>4 DEF OnWay
<1>3. CASE o = TagState /\ V \subseteq {SStart, SEth}
  <2>1. V \cup {o} \subseteq {SStart, SEth, TagState}
    BY <1>3
  <2>2. q \in {"s"} \X Inner(s)
    BY <1>3 DEF Branching
  <2>3. Way(s, "s", q, V \cup {o})
    BY <2>1, WayBegun
  <2>4. QED BY <2>2, <2>3 DEF OnWay
<1>4. CASE o \in {"r"} \X Inner(r) /\ Way(r, "r", o, V)
  <2>1. PICK n \in Inner(r) : o = <<"r", n>>
    BY <1>4
  <2>2. LeadsOwn(heap[o].to, "r", r, n)
    BY <2>1 DEF Branching
  <2>3. PICK k \in Inner(r) : q = <<"r", k>> /\ LeadsTo(r, n, k)
    BY <2>2 DEF LeadsOwn
  <2>4. Way(r, "r", q, V \cup {o})
    BY <1>4, <2>1, <2>3, WayFollowed
  <2>5. QED BY <2>3, <2>4 DEF OnWay
<1>5. CASE o \in {"s"} \X Inner(s) /\ Way(s, "s", o, V)
  <2>1. PICK n \in Inner(s) : o = <<"s", n>>
    BY <1>5
  <2>2. LeadsOwn(heap[o].to, "s", s, n)
    BY <2>1 DEF Branching
  <2>3. PICK k \in Inner(s) : q = <<"s", k>> /\ LeadsTo(s, n, k)
    BY <2>2 DEF LeadsOwn
  <2>4. Way(s, "s", q, V \cup {o})
    BY <1>5, <2>1, <2>3, WayFollowed
  <2>5. QED BY <2>3, <2>4 DEF OnWay
<1>6. QED BY <1>1, <1>2, <1>3, <1>4, <1>5 DEF OnWay

-----------------------------------------------------------------------------
(***************************************************************************)
(* The walk leaves nothing out.                                            *)
(***************************************************************************)

HeaderIn(heap, o) == <<o[1], heap[o].extract>>
PrevIn(heap, p, o) == IF heap[o].extract # NoHeader THEN HeaderIn(heap, o) ELSE p

\* The state has been met with this header before it, or will be.
Covered(calls, met, o, p) ==
  <<o, p>> \in met \/ \E i \in DOMAIN calls : calls[i].state = o /\ calls[i].prev = p

\* What follows from having met a state.
WentOn(heap, calls, met, g, o, p) ==
  /\ \A q \in Targets(heap[o].to) : Covered(calls, met, q, PrevIn(heap, p, o))
  /\ heap[o].extract # NoHeader =>
       /\ HeaderIn(heap, o) \in g.node
       /\ p # NoPrev => <<p, HeaderIn(heap, o)>> \in g.edge

Complete(heap, calls, met, g) ==
  \A o, p : <<o, p>> \in met => WentOn(heap, calls, met, g, o, p)

\* A graph with as much in it.
LEMMA CompleteStays ==
  ASSUME NEW heap, NEW calls, NEW calls2, NEW met, NEW met2, NEW g, NEW g2,
         Complete(heap, calls, met, g), g.node \subseteq g2.node, g.edge \subseteq g2.edge,
         \A o, p : o # EndOfParser /\ Covered(calls, met, o, p) => Covered(calls2, met2, o, p),
         \A o, p : <<o, p>> \in met2 => <<o, p>> \in met \/ WentOn(heap, calls2, met2, g2, o, p)
  PROVE  Complete(heap, calls2, met2, g2)
<1> SUFFICES ASSUME NEW o, NEW p, <<o, p>> \in met
             PROVE  WentOn(heap, calls2, met2, g2, o, p)
  BY DEF Complete
<1>1. WentOn(heap, calls, met, g, o, p)
  BY DEF Complete
<1>2. \A q \in Targets(heap[o].to) : q # EndOfParser
  BY DEF Targets
<1>3. QED BY <1>1, <1>2 DEF WentOn

\* A call that is not needed is dropped.
LEMMA DropCovers ==
  ASSUME NEW C, NEW calls \in Seq(C), calls # <<>>, NEW met,
         calls[1].state = EndOfParser \/ <<calls[1].state, calls[1].prev>> \in met,
         NEW o, o # EndOfParser, NEW p, Covered(calls, met, o, p)
  PROVE  Covered(Tail(calls), met, o, p)
<1>1. CASE <<o, p>> \in met
  BY <1>1 DEF Covered
<1>2. CASE <<o, p>> \notin met
  <2>1. PICK i \in DOMAIN calls : calls[i].state = o /\ calls[i].prev = p
    BY <1>2 DEF Covered
  <2>2. i # 1
    BY <1>2, <2>1
  <2>3. i - 1 \in DOMAIN Tail(calls) /\ Tail(calls)[i - 1] = calls[i]
    BY <2>1, <2>2
  <2>4. QED BY <2>1, <2>3 DEF Covered
<1>3. QED BY <1>1, <1>2

\* A call makes way for those of its branches.
LEMMA VisitCovers ==
  ASSUME NEW C, NEW calls \in Seq(C), calls # <<>>, NEW new \in Seq(C), NEW met
  PROVE  /\ new \o Tail(calls) \in Seq(C)
         /\ \A i \in DOMAIN new : \E j \in DOMAIN (new \o Tail(calls)) : (new \o Tail(calls))[j] = new[i]
         /\ \A o, p : Covered(calls, met, o, p) =>
              Covered(new \o Tail(calls), met \cup {<<calls[1].state, calls[1].prev>>}, o, p)
<1> DEFINE both == new \o Tail(calls)
<1>1. Tail(calls) \in Seq(C) /\ Len(Tail(calls)) = Len(calls) - 1
  OBVIOUS
<1>2. both \in Seq(C) /\ Len(both) = Len(new) + Len(calls) - 1
  BY <1>1
<1>3. \A i \in DOMAIN new : i \in DOMAIN both /\ both[i] = new[i]
  BY <1>1, <1>2
<1>4. \A i \in DOMAIN calls : i # 1 => Len(new) + i - 1 \in DOMAIN both /\ both[Len(new) + i - 1] = calls[i]
  BY <1>1, <1>2
<1> HIDE DEF both
<1>5. ASSUME NEW o, NEW p, Covered(calls, met, o, p)
      PROVE  Covered(both, met \cup {<<calls[1].state, calls[1].prev>>}, o, p)
  <2>1. CASE <<o, p>> \in met
    BY <2>1 DEF Covered
  <2>2. CASE <<o, p>> \notin met
    <3>1. PICK i \in DOMAIN calls : calls[i].state = o /\ calls[i].prev = p
      BY <1>5, <2>2 DEF Covered
    <3>2. CASE i = 1
      BY <3>1, <3>2 DEF Covered
    <3>3. CASE i # 1
      <4>1. Len(new) + i - 1 \in DOMAIN both /\ both[Len(new) + i - 1] = calls[i]
        BY <1>4, <3>3
      <4>2. QED BY <3>1, <4>1 DEF Covered
    <3>4. QED BY <3>2, <3>3
  <2>3. QED BY <2>1, <2>2
<1>6. QED BY <1>2, <1>3, <1>5 DEF both

\* When there are no calls left, every state has been met that can be come to.
LEMMA AllMet ==
  ASSUME NEW heap, IsFiniteSet(DOMAIN heap), SStart \in DOMAIN heap,
         \A q \in DOMAIN heap : Targets(heap[q].to) \subseteq DOMAIN heap,
         NEW met, \A o, p : <<o, p>> \in met => o \in DOMAIN heap, NEW g,
         Complete(heap, <<>>, met, g), <<SStart, NoPrev>> \in met,
         NEW o \in Accessible(heap, SStart)
  PROVE  \E p : <<o, p>> \in met
<1> DEFINE S == {q \in DOMAIN heap : \E p : <<q, p>> \in met}
<1>1. SStart \in S /\ S \subseteq DOMAIN heap
  OBVIOUS
<1>2. ASSUME NEW q \in S, NEW t \in Targets(heap[q].to)
      PROVE  t \in S
  <2>1. PICK p : <<q, p>> \in met
    OBVIOUS
  <2>2. Covered(<<>>, met, t, PrevIn(heap, p, q))
    BY <2>1 DEF Complete, WentOn
  <2>3. <<t, PrevIn(heap, p, q)>> \in met
    BY <2>2 DEF Covered
  <2>4. QED BY <2>3
<1> HIDE DEF S
<1>3. Accessible(heap, SStart) \subseteq S
  BY <1>1, <1>2, AccessibleLeast
<1>4. QED BY <1>3 DEF S

-----------------------------------------------------------------------------
(***************************************************************************)
(* The walk, the sorting, and the parser after it                          *)
(***************************************************************************)

Reach == Accessible(Merged.heap, SStart)
NoLoops == LoopFree(pair[1]) /\ LoopFree(pair[2])

Prevs(heap, R) == {NoPrev} \cup {HeaderIn(heap, o) : o \in R}
Calls(r, s, heap, R) ==
  {c \in [state : R \cup {EndOfParser}, prev : Prevs(heap, R), visited : SUBSET R] :
     c.state = EndOfParser \/ OnWay(r, s, c.state, c.visited)}

\* What the walk has found so far, and that only its end lets the parser begin.
Walked ==
  /\ todo \in Seq(Calls(pair[1], pair[2], Merged.heap, Reach))
  /\ seen \subseteq Reach \X Prevs(Merged.heap, Reach)
  /\ IsFiniteSet(graph.node)
  /\ \A x \in graph.node : \E o \in Reach : Extracts(o) /\ x = Header(o)
  /\ Covered(todo, seen, SStart, NoPrev)
  /\ NoLoops => Complete(Merged.heap, todo, seen, graph)
  /\ phase # "walk" => todo = <<>>
  /\ IF phase = "run" THEN order \in Sortings(graph) ELSE at = EndOfParser /\ got = <<>>

\* What is known of the merged heap.
HeapKnown(H, R, r, s) ==
  /\ IsFiniteSet(DOMAIN H) /\ SStart \in DOMAIN H
  /\ \A q \in DOMAIN H : Targets(H[q].to) \subseteq DOMAIN H
  /\ R \subseteq DOMAIN H /\ SStart \in R /\ EndOfParser \notin R
  /\ \A o \in R : Targets(H[o].to) \subseteq R
  /\ \A o \in R : \E k \in Nat : DOMAIN H[o].to = 1 .. k
  /\ R \subseteq Live(r, s) /\ LiveObjects(H, r, s) /\ Branching(H, r, s)

\* It is known of every pair.
LEMMA HeapIs ==
  ASSUME pair \in Pairs
  PROVE  Merged.dict[Start] = SStart /\ HeapKnown(Merged.heap, Reach, pair[1], pair[2])
<1> DEFINE r == pair[1]
           s == pair[2]
           H == Merged.heap
<1>1. Apart(r, s)
  BY PairApart
<1>2. /\ IsFiniteSet(DOMAIN H) /\ Merged.dict[Start] = SStart /\ SStart \in DOMAIN H
      /\ \A q \in DOMAIN H : Targets(H[q].to) \subseteq DOMAIN H
      /\ LiveObjects(H, r, s) /\ Reach \subseteq Live(r, s)
  BY <1>1, MergedWithin DEF Merged, Reach
<1>3. /\ Reach \subseteq DOMAIN H /\ SStart \in Reach
      /\ \A q \in Reach : Targets(H[q].to) \subseteq Reach
  <2> HIDE DEF H
  <2>1. Reach = Accessible(H, SStart)
    BY DEF Reach, H
  <2>2. QED BY <1>2, <2>1, AccessibleClosed
<1> HIDE DEF r, s, H
<1>4. \A o \in Reach : \E k \in Nat : DOMAIN H[o].to = 1 .. k
  BY <1>1, <1>2, BranchesCounted
<1>5. EndOfParser \notin Reach
  <2>1. \A o \in Live(r, s) : ObjectNamedAs(H, o, r, s)
    BY <1>1, <1>2, ObjectIs
  <2>2. ~ObjectNamedAs(H, EndOfParser, r, s)
    BY DEF ObjectNamedAs, EndOfParser, SStart, SEth, TagState
  <2>3. QED BY <1>2, <2>1, <2>2
<1>6. Branching(H, r, s)
  BY <1>1, <1>2, BranchingIs
<1>7. QED BY <1>2, <1>3, <1>4, <1>5, <1>6 DEF HeapKnown, r, s, H

\* It holds at first.
LEMMA WalkedInit ==
  ASSUME Init
  PROVE  Walked
<1> DEFINE H == Merged.heap
           P == Prevs(H, Reach)
           first == Call(SStart, NoPrev, {})
<1>1. pair \in Pairs /\ Idle /\ phase = "walk" /\ seen = {} /\ graph = [node |-> {}, edge |-> {}]
      /\ todo = <<Call(Merged.dict[Start], NoPrev, {})>>
  BY DEF Init
<1>2. Merged.dict[Start] = SStart /\ HeapKnown(H, Reach, pair[1], pair[2])
  BY <1>1, HeapIs
<1>3. todo = <<first>>
  BY <1>1, <1>2
<1>4. NoPrev \in P /\ SStart \in Reach
  BY <1>2 DEF Prevs, HeapKnown
<1>5. first \in Calls(pair[1], pair[2], H, Reach)
  <2>1. OnWay(pair[1], pair[2], SStart, {})
    BY DEF OnWay
  <2> HIDE DEF H
  <2>2. first \in [state : Reach \cup {EndOfParser}, prev : Prevs(H, Reach), visited : SUBSET Reach]
        /\ first.state = SStart /\ first.visited = {}
    BY <1>4 DEF Call
  <2>3. QED BY <2>1, <2>2 DEF Calls
<1>6. Covered(todo, seen, SStart, NoPrev)
  BY <1>3 DEF Covered, Call
<1>7. IsFiniteSet({}) /\ Complete(H, todo, {}, graph)
  BY FS_EmptySet DEF Complete
<1>8. at = EndOfParser /\ got = <<>>
  BY <1>1 DEF Idle
<1> HIDE DEF H, first
<1>9. todo \in Seq(Calls(pair[1], pair[2], H, Reach))
  BY <1>3, <1>5
<1>10. QED BY <1>1, <1>6, <1>7, <1>8, <1>9 DEF Walked, H

\* As long as the pair is the same, so is what has been merged of it.
LEMMA MergedStays ==
  ASSUME pair' = pair
  PROVE  /\ Merged' = Merged /\ Reach' = Reach /\ NoLoops' = NoLoops
         /\ \A o : Extracts(o)' = Extracts(o) /\ Header(o)' = Header(o)
BY DEF Merged, Reach, Accessible, NoLoops, LoopFree, Extracts, Header

\* What a state is extended with.
LEMMA ExtendedIs ==
  ASSUME NEW p, NEW o, NEW g, g = Extended(p, o), IsFiniteSet(graph.node), Extracts(o)
  PROVE  /\ g.node = graph.node \cup {Header(o)} /\ graph.edge \subseteq g.edge
         /\ p # NoPrev => <<p, Header(o)>> \in g.edge
         /\ IsFiniteSet(g.node)
<1>1. /\ g.node = graph.node \cup {Header(o)}
      /\ g.edge = graph.edge \cup (IF p = NoPrev THEN {} ELSE {<<p, Header(o)>>})
  BY DEF Extended
<1>2. IsFiniteSet(g.node)
  BY <1>1, FS_AddElement
<1>3. QED BY <1>1, <1>2

\* A call that is skipped, or cut off, is one of a state that is known.
LEMMA WalkedDrop ==
  ASSUME pair \in Pairs, Walked, pair' = pair, UNCHANGED runVars,
         todo # <<>>, todo' = Tail(todo), UNCHANGED <<phase, graph, order>>,
         \/ seen' = seen /\ ~IsNew(Head(todo))
         \/ /\ seen' = seen \cup {<<Head(todo).state, Head(todo).prev>>}
            /\ IsNew(Head(todo)) /\ Loops(Head(todo))
  PROVE  Walked'
<1> DEFINE H == Merged.heap
           r == pair[1]
           s == pair[2]
           C == Calls(r, s, H, Reach)
           P == Prevs(H, Reach)
           c == Head(todo)
<1>1. /\ todo \in Seq(C) /\ seen \subseteq Reach \X P /\ IsFiniteSet(graph.node)
      /\ \A x \in graph.node : \E o \in Reach : Extracts(o) /\ x = Header(o)
      /\ Covered(todo, seen, SStart, NoPrev)
      /\ NoLoops => Complete(H, todo, seen, graph)
      /\ phase # "walk" => todo = <<>>
      /\ IF phase = "run" THEN order \in Sortings(graph) ELSE at = EndOfParser /\ got = <<>>
  BY DEF Walked
<1>2. HeapKnown(H, Reach, r, s)
  BY HeapIs
<1>3. Merged' = Merged /\ Reach' = Reach /\ NoLoops' = NoLoops
      /\ \A o : Extracts(o)' = Extracts(o) /\ Header(o)' = Header(o)
  BY MergedStays
<1>4. phase = "walk" /\ at' = at /\ got' = got
  BY <1>1 DEF runVars
<1>5. c \in C /\ c = todo[1] /\ Tail(todo) \in Seq(C)
  <2> HIDE DEF C
  <2>1. QED BY <1>1
<1>6. /\ c.state \in Reach \cup {EndOfParser} /\ c.prev \in P
      /\ c.state = EndOfParser \/ OnWay(r, s, c.state, c.visited)
  BY <1>5 DEF Calls
<1>7. seen \subseteq seen' /\ seen' \subseteq Reach \X P
  BY <1>1, <1>6 DEF IsNew
<1>8. c.state = EndOfParser \/ <<c.state, c.prev>> \in seen'
  BY DEF IsNew
<1> HIDE DEF c, C, P, H
<1>9. ASSUME NEW o, o # EndOfParser, NEW p, Covered(todo, seen, o, p)
      PROVE  Covered(todo', seen', o, p)
  <2>1. Covered(todo, seen', o, p)
    BY <1>7, <1>9 DEF Covered
  <2>2. QED BY <1>1, <1>5, <1>8, <1>9, <2>1, DropCovers
<1>10. NoLoops => seen' = seen
  <2> SUFFICES ASSUME NoLoops, IsNew(c), Loops(c) PROVE FALSE
    BY DEF c
  <2>1. c.state \in c.visited /\ c.state # EndOfParser
    BY DEF IsNew, Loops
  <2>2. QED BY <1>6, <2>1, NotMetAgain DEF NoLoops, r, s
<1>11. NoLoops => Complete(H, todo', seen', graph)
  <2> SUFFICES ASSUME NoLoops PROVE Complete(H, todo', seen', graph)
    OBVIOUS
  <2>1. Complete(H, todo, seen, graph) /\ seen' = seen
    BY <1>1, <1>10
  <2>2. QED BY <1>9, <2>1, CompleteStays
<1>12. Covered(todo', seen', SStart, NoPrev)
  BY <1>1, <1>2, <1>9 DEF HeapKnown
<1>13. QED
  BY <1>1, <1>3, <1>4, <1>5, <1>7, <1>11, <1>12 DEF Walked, H, C, P, r, s

\* A state is gone through: its branches are to be, with its header before them.
LEMMA WalkedVisit ==
  ASSUME pair \in Pairs, Walked, pair' = pair, UNCHANGED runVars, Visit
  PROVE  Walked'
<1> DEFINE H == Merged.heap
           r == pair[1]
           s == pair[2]
           C == Calls(r, s, H, Reach)
           P == Prevs(H, Reach)
           c == Head(todo)
           to == H[c.state].to
           p == PrevIn(H, c.prev, c.state)
           new == [i \in DOMAIN to |-> Call(to[i][2], p, c.visited \cup {c.state})]
           met == seen \cup {<<c.state, c.prev>>}
           g == Extended(c.prev, c.state)
<1>1. /\ todo \in Seq(C) /\ seen \subseteq Reach \X P /\ IsFiniteSet(graph.node)
      /\ \A x \in graph.node : \E o \in Reach : Extracts(o) /\ x = Header(o)
      /\ Covered(todo, seen, SStart, NoPrev)
      /\ NoLoops => Complete(H, todo, seen, graph)
      /\ phase # "walk" => todo = <<>>
      /\ IF phase = "run" THEN order \in Sortings(graph) ELSE at = EndOfParser /\ got = <<>>
  BY DEF Walked
<1>2. HeapKnown(H, Reach, r, s)
  BY HeapIs
<1>3. Merged' = Merged /\ Reach' = Reach /\ NoLoops' = NoLoops
      /\ \A o : Extracts(o)' = Extracts(o) /\ Header(o)' = Header(o)
  BY MergedStays
<1>4. /\ todo # <<>> /\ IsNew(c) /\ UNCHANGED <<phase, order>>
      /\ seen' = met /\ graph' = g /\ todo' = new \o Tail(todo)
  <2>1. \A x, o : PrevHeader(x, o) = PrevIn(H, x, o)
    BY DEF PrevHeader, PrevIn, Header, HeaderIn, Extracts
  <2>2. QED BY <2>1 DEF Visit
<1>5. phase = "walk" /\ at' = at /\ got' = got
  BY <1>1, <1>4 DEF runVars
<1>6. c \in C /\ c = todo[1] /\ Tail(todo) \in Seq(C)
  <2>1. todo \in Seq(C) /\ todo # <<>>
    BY <1>1, <1>4
  <2> HIDE DEF C
  <2>2. QED BY <2>1
<1>7. /\ c.state \in Reach /\ c.prev \in P /\ c.visited \subseteq Reach
      /\ OnWay(r, s, c.state, c.visited)
  BY <1>4, <1>6 DEF Calls, IsNew
<1>8. met \subseteq Reach \X P
  BY <1>1, <1>7
<1>9. \A o : Header(o) = HeaderIn(H, o) /\ (Extracts(o) <=> H[o].extract # NoHeader)
  BY DEF Header, HeaderIn, Extracts
<1>10. p \in P
  BY <1>7 DEF PrevIn, Prevs
<1> HIDE DEF H, P, c, p
<1>11. ASSUME NEW i \in DOMAIN to
       PROVE  new[i] \in C /\ new[i].state = to[i][2] /\ new[i].prev = p
  <2>1. to[i][2] \in Targets(to) \cup {EndOfParser}
    BY DEF Targets
  <2>2. to[i][2] \in Reach \cup {EndOfParser}
    BY <1>2, <1>7, <2>1 DEF HeapKnown
  <2>3. to[i][2] = EndOfParser \/ OnWay(r, s, to[i][2], c.visited \cup {c.state})
    <3>1. SUFFICES ASSUME to[i][2] \in Targets(H[c.state].to)
                   PROVE  OnWay(r, s, to[i][2], c.visited \cup {c.state})
      BY <2>1
    <3> HIDE DEF to
    <3>2. QED BY <1>2, <1>7, <3>1, OnWayFollowed DEF HeapKnown
  <2>4. new[i] = Call(to[i][2], p, c.visited \cup {c.state})
    OBVIOUS
  <2> DEFINE t == to[i][2]
             V == c.visited \cup {c.state}
  <2>5. V \subseteq Reach
    BY <1>7
  <2> HIDE DEF to, new, t, V
  <2>6. new[i] = Call(t, p, V) /\ t \in Reach \cup {EndOfParser} /\ (t = EndOfParser \/ OnWay(r, s, t, V))
    BY <2>2, <2>3, <2>4 DEF t, V
  <2>7. new[i] \in [state : Reach \cup {EndOfParser}, prev : P, visited : SUBSET Reach]
        /\ new[i].state = t /\ new[i].prev = p /\ new[i].visited = V
    BY <1>10, <2>5, <2>6 DEF Call
  <2>8. QED BY <2>6, <2>7 DEF Calls, t, P
<1>12. new \in Seq(C)
  <2>1. PICK k \in Nat : DOMAIN to = 1 .. k
    BY <1>2, <1>7 DEF HeapKnown
  <2> HIDE DEF to, C
  <2>2. new \in [1 .. k -> C]
    BY <1>11, <2>1
  <2> HIDE DEF new
  <2>3. QED BY <2>1, <2>2
<1>13. /\ todo' \in Seq(C)
       /\ \A i \in DOMAIN to : \E j \in DOMAIN todo' : todo'[j].state = to[i][2] /\ todo'[j].prev = p
       /\ \A o, x : Covered(todo, seen, o, x) => Covered(todo', met, o, x)
  <2>1. DOMAIN new = DOMAIN to
    OBVIOUS
  <2> HIDE DEF new, C, to, met
  <2>2. met = seen \cup {<<todo[1].state, todo[1].prev>>}
    BY <1>6 DEF met
  <2>3. todo \in Seq(C) /\ todo # <<>> /\ todo' = new \o Tail(todo)
    BY <1>1, <1>4
  <2> DEFINE both == new \o Tail(todo)
  <2>4. /\ both \in Seq(C)
        /\ \A i \in DOMAIN new : \E j \in DOMAIN both : both[j] = new[i]
        /\ \A o, x : Covered(todo, seen, o, x) =>
             Covered(both, seen \cup {<<todo[1].state, todo[1].prev>>}, o, x)
    BY <1>12, <2>3, VisitCovers
  <2> HIDE DEF both
  <2>5. todo' = both
    BY <2>3 DEF both
  <2>6. ASSUME NEW i \in DOMAIN to
        PROVE  \E j \in DOMAIN both : both[j].state = to[i][2] /\ both[j].prev = p
    <3>1. PICK j \in DOMAIN both : both[j] = new[i]
      BY <2>1, <2>4
    <3>2. QED BY <1>11, <3>1
  <2>7. \A o, x : Covered(todo, seen, o, x) => Covered(both, met, o, x)
    BY <2>2, <2>4
  <2>8. QED BY <2>4, <2>5, <2>6, <2>7
<1> HIDE DEF new, C, to, met, g
<1>14. WentOn(H, todo', met, g, c.state, c.prev)
       /\ graph.node \subseteq g.node /\ graph.edge \subseteq g.edge /\ IsFiniteSet(g.node)
       /\ \A x \in g.node : \E o \in Reach : Extracts(o) /\ x = Header(o)
  <2>1. \A q \in Targets(H[c.state].to) : Covered(todo', met, q, p)
    BY <1>13 DEF Covered, Targets, to
  <2>2. CASE Extracts(c.state)
    <3>1. /\ g.node = graph.node \cup {Header(c.state)} /\ graph.edge \subseteq g.edge
          /\ c.prev # NoPrev => <<c.prev, Header(c.state)>> \in g.edge
          /\ IsFiniteSet(g.node)
      BY <1>1, <2>2, ExtendedIs DEF g
    <3>2. QED BY <1>1, <1>7, <1>9, <2>1, <2>2, <3>1 DEF WentOn, p
  <2>3. CASE ~Extracts(c.state)
    <3>1. g = graph
      BY <2>3 DEF g, Extended
    <3>2. QED BY <1>1, <1>9, <2>1, <2>3, <3>1 DEF WentOn, p
  <2>4. QED BY <2>2, <2>3
<1>15. NoLoops => Complete(H, todo', met, g)
  <2> SUFFICES ASSUME NoLoops PROVE Complete(H, todo', met, g)
    OBVIOUS
  <2>1. \A o, x : <<o, x>> \in met => <<o, x>> \in seen \/ WentOn(H, todo', met, g, o, x)
    BY <1>14 DEF met
  <2>2. QED BY <1>1, <1>13, <1>14, <2>1, CompleteStays
<1>16. Covered(todo', met, SStart, NoPrev)
  BY <1>1, <1>13
<1>17. /\ (todo \in Seq(Calls(pair[1], pair[2], Merged.heap, Reach)))'
       /\ (seen \subseteq Reach \X Prevs(Merged.heap, Reach))'
       /\ IsFiniteSet(graph.node)'
  BY <1>3, <1>4, <1>8, <1>13, <1>14 DEF H, C, P, r, s
<1>18. (\A x \in graph.node : \E o \in Reach : Extracts(o) /\ x = Header(o))'
  BY <1>3, <1>4, <1>14
<1>19. /\ Covered(todo, seen, SStart, NoPrev)'
       /\ (NoLoops => Complete(Merged.heap, todo, seen, graph))'
  BY <1>3, <1>4, <1>15, <1>16 DEF H
<1>20. /\ (phase # "walk" => todo = <<>>)'
       /\ (IF phase = "run" THEN order \in Sortings(graph) ELSE at = EndOfParser /\ got = <<>>)'
  BY <1>1, <1>4, <1>5
<1>21. QED BY <1>17, <1>18, <1>19, <1>20 DEF Walked

\* Every step keeps it.
LEMMA WalkedStep ==
  ASSUME Parsing, Walked, [Next]_vars
  PROVE  Walked'
<1>1. pair' = pair /\ pair \in Pairs
  BY StepIs DEF Parsing
<1>2. Merged' = Merged /\ Reach' = Reach /\ NoLoops' = NoLoops
      /\ \A o : Extracts(o)' = Extracts(o) /\ Header(o)' = Header(o)
  BY <1>1, MergedStays
<1>3. CASE Skip /\ UNCHANGED runVars
  <2>1. todo # <<>> /\ todo' = Tail(todo) /\ UNCHANGED <<phase, graph, order>>
        /\ seen' = seen /\ ~IsNew(Head(todo))
    BY <1>3 DEF Skip
  <2>2. QED BY <1>1, <1>3, <2>1, WalkedDrop
<1>4. CASE CutLoop /\ UNCHANGED runVars
  <2>1. todo # <<>> /\ todo' = Tail(todo) /\ UNCHANGED <<phase, graph, order>>
        /\ seen' = seen \cup {<<Head(todo).state, Head(todo).prev>>}
        /\ IsNew(Head(todo)) /\ Loops(Head(todo))
    BY <1>4 DEF CutLoop
  <2>2. QED BY <1>1, <1>4, <2>1, WalkedDrop
<1>5. CASE Visit /\ UNCHANGED runVars
  BY <1>1, <1>5, WalkedVisit
<1>6. /\ todo \in Seq(Calls(pair[1], pair[2], Merged.heap, Reach))
      /\ seen \subseteq Reach \X Prevs(Merged.heap, Reach)
      /\ IsFiniteSet(graph.node)
      /\ \A x \in graph.node : \E o \in Reach : Extracts(o) /\ x = Header(o)
      /\ Covered(todo, seen, SStart, NoPrev)
      /\ NoLoops => Complete(Merged.heap, todo, seen, graph)
      /\ phase # "walk" => todo = <<>>
      /\ IF phase = "run" THEN order \in Sortings(graph) ELSE at = EndOfParser /\ got = <<>>
  BY DEF Walked
<1>7. ASSUME UNCHANGED <<todo, seen, graph>>, phase' # "walk" => todo = <<>>,
             IF phase' = "run" THEN order' \in Sortings(graph) ELSE at' = EndOfParser /\ got' = <<>>
      PROVE  Walked'
  <2>1. /\ (todo \in Seq(Calls(pair[1], pair[2], Merged.heap, Reach)))'
        /\ (seen \subseteq Reach \X Prevs(Merged.heap, Reach))'
        /\ IsFiniteSet(graph.node)'
    BY <1>1, <1>2, <1>6, <1>7
  <2>2. (\A x \in graph.node : \E o \in Reach : Extracts(o) /\ x = Header(o))'
    BY <1>2, <1>6, <1>7
  <2>3. /\ Covered(todo, seen, SStart, NoPrev)'
        /\ (NoLoops => Complete(Merged.heap, todo, seen, graph))'
    BY <1>2, <1>6, <1>7
  <2>4. /\ (phase # "walk" => todo = <<>>)'
        /\ (IF phase = "run" THEN order \in Sortings(graph) ELSE at = EndOfParser /\ got = <<>>)'
    BY <1>7
  <2>5. QED BY <2>1, <2>2, <2>3, <2>4 DEF Walked
<1>8. CASE Sort /\ UNCHANGED runVars
  BY <1>7, <1>8 DEF Sort
<1>9. CASE GiveUp /\ UNCHANGED runVars
  BY <1>6, <1>7, <1>9 DEF GiveUp, runVars
<1>10. CASE UNCHANGED <<walkVars, runVars>>
  BY <1>6, <1>7, <1>10 DEF walkVars, runVars
<1>11. CASE phase = "run" /\ UNCHANGED walkVars
  BY <1>6, <1>7, <1>11 DEF walkVars
<1>12. QED
  <2>1. CASE Compile /\ UNCHANGED <<pair, runVars>>
    BY <1>3, <1>4, <1>5, <1>8, <1>9, <1>10, <2>1 DEF Compile, Ended
  <2>2. CASE phase = "run" /\ Run /\ UNCHANGED <<pair, walkVars>>
    BY <1>11, <2>2
  <2>3. CASE UNCHANGED vars
    BY <1>10, <2>3 DEF vars
  <2>4. QED BY <2>1, <2>2, <2>3 DEF Next


-----------------------------------------------------------------------------
(***************************************************************************)
(* The headers of a frame in the order of the deparser                     *)
(***************************************************************************)

\* After ethernet, ethernet has been extracted.
PastEthernet == at \notin {Start, Shadow(Ethernet), EndOfParser} => got # <<>>

\* Only start goes on to a state without having extracted anything.
LEMMA PastEthernetStep ==
  ASSUME Parsing, PastEthernet, [Next]_vars
  PROVE  PastEthernet'
<1>1. Apart(pair[1], pair[2]) /\ \A t \in parser : StateIs(t, pair[1], pair[2])
  BY PairApart, ParserStates DEF Parsing
<1>2. CASE Arrive
  BY <1>2 DEF Arrive, PastEthernet
<1>3. CASE Leave
  BY <1>3 DEF Leave, PastEthernet
<1>4. CASE UNCHANGED runVars
  BY <1>4 DEF runVars, PastEthernet
<1>5. CASE ParseState
  <2>1. at # EndOfParser
    BY <1>5 DEF ParseState
  <2>2. PICK t \in parser :
          /\ t.name = at
          /\ IF t.extract = NoHeader
             THEN at' = Chosen(t, key) /\ UNCHANGED <<key, got, rest>>
             ELSE got' = Append(got, t.extract)
    BY <1>5 DEF ParseState
  <2>3. CASE t.extract # NoHeader
    <3>1. t.extract \in {u.extract : u \in parser}
      OBVIOUS
    <3> DEFINE E == {u.extract : u \in parser}
    <3>2. got \in Seq(E) /\ t.extract \in E /\ got' = Append(got, t.extract)
      BY <2>2, <2>3 DEF Parsing
    <3> HIDE DEF E
    <3>3. got' # <<>>
      BY <3>2
    <3>4. QED BY <3>3 DEF PastEthernet
  <2>4. CASE t.extract = NoHeader /\ got # <<>>
    BY <2>2, <2>4 DEF PastEthernet
  <2>5. CASE t.extract = NoHeader /\ got = <<>>
    <3>1. at \in {Start, Shadow(Ethernet)}
      BY <2>1, <2>5 DEF PastEthernet
    <3>2. at = Start
      <4>1. at = Shadow(Ethernet) => FromBoth(t, pair[1])
        BY <1>1, <2>2, StateNamed
      <4>2. "ethernet" # NoHeader
        BY DEF NoHeader
      <4>3. QED BY <2>5, <3>1, <4>1, <4>2 DEF FromBoth
    <3>3. FromStart(t)
      BY <1>1, <2>2, <3>2, StateNamed
    <3>4. at' = Shadow(Ethernet)
      BY <2>2, <2>5, <3>3 DEF FromStart
    <3>5. QED BY <3>4 DEF PastEthernet
  <2>6. QED BY <2>3, <2>4, <2>5
<1>6. QED BY <1>2, <1>3, <1>4, <1>5, StepIs

\* The state that extracts a header is its owner's.
LEMMA OwnerIs ==
  ASSUME Parsing, AtProductions, AtTestings, PastEthernet, at # EndOfParser,
         NEW o \in Reach, Merged.heap[o].name = at, Extracts(o)
  PROVE  o[1] = Owner(Len(got) + 1)
<1> DEFINE r == pair[1]
           s == pair[2]
           H == Merged.heap
           n == Len(got)
<1>1. Apart(r, s) /\ HeapKnown(H, Reach, r, s)
  BY PairApart, HeapIs DEF Parsing
<1>2. ObjectNamedAs(H, o, r, s)
  BY <1>1, ObjectIs DEF HeapKnown
<1>3. H[SStart].extract = NoHeader
  BY <1>1 DEF HeapKnown, Branching
<1>4. o # SStart
  BY <1>3 DEF Extracts
<1>5. n \in Nat /\ (got # <<>> => n > 0) /\ (got = <<>> => n = 0)
  <2> DEFINE E == {t.extract : t \in parser}
  <2>1. got \in Seq(E)
    BY DEF Parsing
  <2> HIDE DEF E
  <2>2. QED BY <2>1
<1>6. frame # <<>> /\ (Tagged \/ Untagged)
  BY DEF Parsing, Tagged, Untagged
<1>7. ~(Tagged /\ Untagged)
  BY DEF Tagged, Untagged
<1> HIDE DEF r, s, H, n
<1>8. Untagged => at \in {Start, Shadow(Ethernet), EndOfParser} \cup Inner(r)
  BY DEF AtProductions, r
<1>9. Tagged => \/ at \in {Start, Shadow(Ethernet)}
                \/ at = ShadowTag /\ got = <<"ethernet">>
                \/ at \in {Shadow(m) : m \in Inner(s)} \cup {EndOfParser} /\ n > 1
  BY DEF AtTestings, s, n
<1>10. Owner(n + 1) = IF n = 0 THEN "s" ELSE IF ~Tagged THEN "r" ELSE IF n = 1 THEN "m" ELSE "s"
  BY <1>5 DEF Owner
<1>11. CASE o = TagState /\ H[o].name = ShadowTag
  <2>1. at = ShadowTag
    BY <1>11 DEF H
  <2>2. Tagged /\ got = <<"ethernet">>
    BY <1>1, <1>6, <1>8, <1>9, <2>1, NamesDiffer
  <2>3. n = 1
    BY <2>2 DEF n
  <2>4. QED BY <1>10, <1>11, <2>2, <2>3 DEF TagState, n
<1>12. CASE o = SEth /\ H[o].name = Shadow(Ethernet)
  <2>1. got = <<>>
    BY <1>12 DEF Parsing, H
  <2>2. QED BY <1>5, <1>10, <1>12, <2>1 DEF SEth, n
<1>13. CASE \E m \in Inner(r) : o = <<"r", m>> /\ H[o].name = m
  <2>1. PICK m \in Inner(r) : o = <<"r", m>> /\ H[o].name = m
    BY <1>13
  <2>2. at = m
    BY <2>1 DEF H
  <2>3. m \notin {Start, ShadowTag, EndOfParser, Shadow(Ethernet)} /\ \A k \in Inner(s) : m # Shadow(k)
    BY <1>1, NamesDiffer
  <2>4. ~Tagged
    BY <1>9, <2>2, <2>3
  <2>5. got # <<>>
    BY <2>2, <2>3 DEF PastEthernet
  <2>6. QED BY <1>5, <1>10, <2>1, <2>4, <2>5 DEF n
<1>14. CASE \E m \in Inner(s) : o = <<"s", m>> /\ H[o].name = Shadow(m)
  <2>1. PICK m \in Inner(s) : o = <<"s", m>> /\ H[o].name = Shadow(m)
    BY <1>14
  <2>2. at = Shadow(m)
    BY <2>1 DEF H
  <2>3. /\ Shadow(m) \notin {Start, ShadowTag, EndOfParser, Shadow(Ethernet)}
        /\ \A k \in Inner(r) : k # Shadow(m)
    BY <1>1, NamesDiffer
  <2>4. Tagged /\ n > 1
    BY <1>6, <1>8, <1>9, <2>2, <2>3
  <2>5. n # 0 /\ n # 1 /\ o[1] = "s"
    BY <1>5, <2>1, <2>4
  <2>6. Owner(n + 1) = "s"
    BY <1>10, <2>4, <2>5
  <2>7. QED BY <2>5, <2>6 DEF n
<1>15. QED BY <1>2, <1>4, <1>11, <1>12, <1>13, <1>14 DEF ObjectNamedAs

LastOwn == IF got = <<>> THEN NoPrev ELSE Own(Len(got))

Before(x, y) == \E a, b \in DOMAIN order : a < b /\ order[a] = x /\ order[b] = y

InOrder == \A i, j \in DOMAIN got : i < j => Before(Own(i), Own(j))

\* The walk has been where the parser is, after the header it extracted last.
Emitting ==
  /\ at # EndOfParser => \E o \in Reach : Merged.heap[o].name = at /\ <<o, LastOwn>> \in seen
  /\ \A i \in DOMAIN got : Own(i) \in graph.node
  /\ InOrder

\* A header more is behind the one before it, and so behind all of them.
LEMMA EmitsOne ==
  ASSUME NEW E, got \in Seq(E), NEW n, n = Len(got), NEW x \in E, got' = Append(got, x),
         frame' = frame, order' = order,
         InOrder, DOMAIN order \subseteq Nat,
         \A a, b \in DOMAIN order : order[a] = order[b] => a = b,
         got # <<>> => Before(Own(n), <<Owner(n + 1), x>>)
  PROVE  /\ InOrder'
         /\ DOMAIN got' = DOMAIN got \cup {n + 1}
         /\ \A i \in DOMAIN got : Own(i)' = Own(i)
         /\ Own(n + 1)' = <<Owner(n + 1), x>>
         /\ LastOwn' = <<Owner(n + 1), x>>
<1> DEFINE y == <<Owner(n + 1), x>>
<1>1. n \in Nat /\ DOMAIN got = 1 .. n /\ (got = <<>> => n = 0)
  OBVIOUS
<1>2. DOMAIN got' = 1 .. n + 1 /\ got'[n + 1] = x /\ \A i \in 1 .. n : got'[i] = got[i]
  OBVIOUS
<1>3. Len(got') = n + 1 /\ got' # <<>>
  OBVIOUS
<1>4. \A i : Owner(i)' = Owner(i)
  BY DEF Owner, Tagged
<1>5. \A i \in 1 .. n : Own(i)' = Own(i)
  BY <1>2, <1>4 DEF Own
<1>6. Own(n + 1)' = y
  BY <1>2, <1>4 DEF Own
<1>7. LastOwn' = y
  <2>1. LastOwn' = <<Owner(n + 1)', got'[n + 1]>>
    BY <1>3 DEF LastOwn, Own
  <2>2. QED BY <1>2, <1>4, <2>1
<1> HIDE DEF y
<1>8. \A u, v : Before(u, v)' = Before(u, v)
  BY DEF Before
<1>9. ASSUME NEW i \in 1 .. n + 1, NEW j \in 1 .. n + 1, i < j
      PROVE  Before(Own(i)', Own(j)')
  <2>1. CASE j \in 1 .. n
    <3>1. i \in 1 .. n
      BY <1>1, <1>9, <2>1
    <3>2. Before(Own(i), Own(j))
      BY <1>1, <1>9, <2>1, <3>1 DEF InOrder
    <3>3. QED BY <1>5, <2>1, <3>1, <3>2
  <2>2. CASE j = n + 1
    <3>1. i \in 1 .. n /\ n \in 1 .. n /\ n # 0
      BY <1>1, <1>9, <2>2
    <3>2. Before(Own(n), y)
      BY <1>1, <3>1 DEF y
    <3>3. Own(i)' = Own(i) /\ Own(j)' = y
      BY <1>5, <1>6, <2>2, <3>1
    <3>4. CASE i = n
      BY <3>2, <3>3, <3>4
    <3>5. CASE i # n
      <4>1. i < n
        BY <1>1, <3>1, <3>5
      <4>2. Before(Own(i), Own(n))
        BY <1>1, <3>1, <4>1 DEF InOrder
      <4>3. \A u, v, w : Before(u, v) /\ Before(v, w) => Before(u, w)
        BY DEF Before
      <4>4. QED BY <3>2, <3>3, <4>2, <4>3
    <3>6. QED BY <3>4, <3>5
  <2>3. QED BY <1>1, <2>1, <2>2
<1>10. InOrder'
  <2>1. \A i, j \in 1 .. n + 1 : i < j => Before(Own(i), Own(j))'
    BY <1>8, <1>9
  <2>2. QED BY <1>2, <2>1 DEF InOrder
<1>11. 1 .. n + 1 = (1 .. n) \cup {n + 1}
  BY <1>1
<1>12. QED BY <1>1, <1>2, <1>5, <1>6, <1>7, <1>10, <1>11 DEF y

\* What the walk and the sorting have left when the parser runs.
LEMMA SortedIs ==
  ASSUME Walked, phase = "run", NoLoops, pair \in Pairs
  PROVE  /\ order \in Sortings(graph) /\ IsFiniteSet(graph.node)
         /\ <<SStart, NoPrev>> \in seen /\ Complete(Merged.heap, <<>>, seen, graph)
         /\ seen \subseteq Reach \X Prevs(Merged.heap, Reach)
         /\ \A x \in graph.node : \E o \in Reach : Extracts(o) /\ x = Header(o)
<1>1. todo = <<>> /\ Covered(<<>>, seen, SStart, NoPrev)
  BY DEF Walked
<1>2. <<SStart, NoPrev>> \in seen
  BY <1>1 DEF Covered
<1>3. Complete(Merged.heap, <<>>, seen, graph)
  BY <1>1 DEF Walked
<1>4. QED BY <1>2, <1>3 DEF Walked

\* The parser follows the walk.
LEMMA EmittingParse ==
  ASSUME Parsing, Walked, AtProductions, AtTestings, PastEthernet, Emitting, NoLoops,
         ParseState, phase = "run", UNCHANGED <<pair, walkVars>>
  PROVE  Emitting'
<1> DEFINE H == Merged.heap
           r == pair[1]
           s == pair[2]
           E == {t.extract : t \in parser}
<1>1. HeapKnown(H, Reach, r, s) /\ Merged.dict[Start] = SStart /\ Apart(r, s) /\ pair \in Pairs
  BY HeapIs, PairApart DEF Parsing
<1>2. /\ Targets(H[SStart].to) \subseteq Reach
      /\ \A o \in Reach : Targets(H[o].to) \subseteq Reach /\ EndOfParser \notin Targets(H[o].to)
      /\ \A o \in Reach : DOMAIN H[o].to \subseteq Nat
  BY <1>1 DEF HeapKnown, Targets
<1>3. \A o, q \in Reach : H[o].name = H[q].name => o = q
  <2>1. LiveObjects(H, r, s) /\ Reach \subseteq Live(r, s)
    BY <1>1 DEF HeapKnown
  <2> HIDE DEF H, r, s
  <2>2. QED BY <1>1, <2>1, ObjectNamed
<1>4. parser = {DumpedState(H, o) : o \in Reach}
  BY <1>1 DEF Parsing, Dumped, Reach
<1>5. /\ Merged' = Merged /\ Reach' = Reach
      /\ UNCHANGED <<seen, graph, order>> /\ frame' = frame
  BY MergedStays DEF walkVars, ParseState
<1>6. /\ order \in Sortings(graph) /\ IsFiniteSet(graph.node)
      /\ Complete(H, <<>>, seen, graph)
  BY <1>1, SortedIs
<1>7. got \in Seq(E)
  BY DEF Parsing
<1>8. at # EndOfParser
  BY DEF ParseState
<1>9. PICK t \in parser :
        /\ t.name = at
        /\ IF t.extract = NoHeader
           THEN at' = Chosen(t, key) /\ UNCHANGED <<key, got, rest>>
           ELSE got' = Append(got, t.extract) /\ at' = Chosen(t, key')
  BY DEF ParseState
<1>10. PICK o \in Reach : t = DumpedState(H, o)
  BY <1>4
<1>11. t.name = H[o].name /\ t.extract = H[o].extract /\ (Extracts(o) <=> t.extract # NoHeader)
       /\ Header(o) = <<o[1], t.extract>> /\ Header(o) = HeaderIn(H, o)
  BY <1>10 DEF DumpedState, Extracts, Header, HeaderIn
<1>12. <<o, LastOwn>> \in seen
  <2>1. PICK q \in Reach : H[q].name = at /\ <<q, LastOwn>> \in seen
    BY <1>8 DEF Emitting
  <2>2. QED BY <1>3, <1>9, <1>11, <2>1
<1> DEFINE last == LastOwn
           next == PrevIn(H, last, o)
<1>13. WentOn(H, <<>>, seen, graph, o, last)
  BY <1>6, <1>12 DEF Complete
<1>14. Extracts(o) =>
         /\ Header(o) \in graph.node
         /\ last # NoPrev => <<last, Header(o)>> \in graph.edge
  BY <1>11, <1>13 DEF WentOn
<1>15. \A q \in Targets(H[o].to) : <<q, next>> \in seen
  BY <1>13 DEF WentOn, Covered
<1>16. \A q \in Targets(H[o].to) : q \in Reach /\ q # EndOfParser
  BY <1>2
<1>17. at' = IF Chosen(H[o], key') = EndOfParser THEN EndOfParser ELSE H[Chosen(H[o], key')].name
  <2>1. at' = Chosen(t, key')
    BY <1>9
  <2> HIDE DEF H
  <2>2. QED BY <1>2, <1>10, <2>1, DumpedChosen
<1>18. Chosen(H[o], key') \in Targets(H[o].to) \cup {EndOfParser}
  <2> HIDE DEF H
  <2>1. QED BY <1>2, ChosenTarget
<1>19. at' # EndOfParser => \E q \in Reach : H[q].name = at' /\ <<q, next>> \in seen
  <2> HIDE DEF H, next
  <2>1. QED BY <1>15, <1>16, <1>17, <1>18
<1>20. SUFFICES /\ LastOwn' = next
                /\ \A i \in DOMAIN got' : Own(i)' \in graph.node
                /\ InOrder'
  <2>1. (at # EndOfParser => \E q \in Reach : Merged.heap[q].name = at /\ <<q, LastOwn>> \in seen)'
    BY <1>5, <1>19, <1>20
  <2>2. (\A i \in DOMAIN got : Own(i) \in graph.node)'
    BY <1>5, <1>20
  <2>3. QED BY <1>20, <2>1, <2>2 DEF Emitting
<1>21. InOrder /\ \A i \in DOMAIN got : Own(i) \in graph.node
  BY DEF Emitting
<1>22. CASE ~Extracts(o)
  <2>1. got' = got
    BY <1>9, <1>11, <1>22
  <2>2. next = last
    BY <1>11, <1>22 DEF PrevIn
  <2>3. \A i : Own(i)' = Own(i)
    BY <1>5, <2>1 DEF Own, Owner, Tagged
  <2>4. LastOwn' = LastOwn
    BY <1>5, <2>1 DEF LastOwn, Own, Owner, Tagged
  <2>5. \A u, v : Before(u, v)' = Before(u, v)
    BY <1>5 DEF Before
  <2>6. InOrder'
    BY <1>21, <2>1, <2>3, <2>5 DEF InOrder
  <2>7. QED BY <1>21, <2>1, <2>2, <2>3, <2>4, <2>6
<1>23. CASE Extracts(o)
  <2>1. got' = Append(got, t.extract) /\ t.extract \in E
    BY <1>9, <1>11, <1>23
  <2>2. PICK n : n = Len(got)
    OBVIOUS
  <2> DEFINE x == t.extract
             y == <<Owner(n + 1), x>>
  <2>3. Header(o) = y
    <3>1. o[1] = Owner(Len(got) + 1)
      BY <1>8, <1>9, <1>11, <1>23, OwnerIs
    <3>2. QED BY <1>11, <2>2, <3>1
  <2>4. next = y
    BY <1>11, <1>23, <2>3 DEF PrevIn
  <2>5. /\ DOMAIN order \subseteq Nat
        /\ \A z \in graph.node : \E a \in DOMAIN order : order[a] = z
        /\ \A a, b \in DOMAIN order : order[a] = order[b] => a = b
        /\ \A a, b \in DOMAIN order : <<order[a], order[b]>> \in graph.edge => a < b
    BY <1>6, SortingIs
  <2> HIDE DEF x, y, next, last, H, E, r, s
  <2>6. got # <<>> => Before(Own(n), y)
    <3> SUFFICES ASSUME got # <<>> PROVE Before(Own(n), y)
      OBVIOUS
    <3>1. n \in DOMAIN got
      BY <1>7, <2>2
    <3>2. last = Own(n) /\ Own(n) \in graph.node
      BY <1>21, <2>2, <3>1 DEF LastOwn, last
    <3>3. Own(n) # NoPrev
      BY DEF Own, NoPrev
    <3>4. <<Own(n), y>> \in graph.edge /\ y \in graph.node
      BY <1>14, <1>23, <2>3, <3>2, <3>3
    <3>5. PICK a \in DOMAIN order : order[a] = Own(n)
      BY <2>5, <3>2
    <3>6. PICK b \in DOMAIN order : order[b] = y
      BY <2>5, <3>4
    <3>7. a < b
      BY <2>5, <3>4, <3>5, <3>6
    <3>8. QED BY <3>5, <3>6, <3>7 DEF Before
  <2>7. /\ InOrder' /\ DOMAIN got' = DOMAIN got \cup {n + 1}
        /\ \A i \in DOMAIN got : Own(i)' = Own(i)
        /\ Own(n + 1)' = y /\ LastOwn' = y
    <3>1. /\ got \in Seq(E) /\ x \in E /\ got' = Append(got, x)
          /\ frame' = frame /\ order' = order /\ InOrder
          /\ got # <<>> => Before(Own(n), <<Owner(n + 1), x>>)
      BY <1>5, <1>7, <1>21, <2>1, <2>6 DEF x, y
    <3>2. QED BY <2>2, <2>5, <3>1, EmitsOne DEF y
  <2>8. y \in graph.node
    BY <1>14, <1>23, <2>3
  <2>9. QED BY <1>21, <2>4, <2>7, <2>8
<1>24. QED BY <1>22, <1>23

\* Every step keeps it.
LEMMA EmittingStep ==
  ASSUME Parsing, Walked, AtProductions, AtTestings, PastEthernet, NoLoops => Emitting, [Next]_vars
  PROVE  NoLoops' => Emitting'
<1>1. pair' = pair /\ pair \in Pairs
  BY StepIs DEF Parsing
<1>2. Merged' = Merged /\ Reach' = Reach /\ NoLoops' = NoLoops
  BY <1>1, MergedStays
<1> SUFFICES ASSUME NoLoops PROVE Emitting'
  BY <1>2
<1>3. CASE phase # "run" /\ UNCHANGED runVars
  <2>1. at' = EndOfParser /\ got' = <<>>
    BY <1>3 DEF Walked, runVars
  <2>2. QED BY <2>1 DEF Emitting, InOrder
<1>4. CASE phase = "run" /\ UNCHANGED <<walkVars, runVars>>
  <2>1. UNCHANGED <<seen, graph, order, at, got, frame>>
    BY <1>4 DEF walkVars, runVars
  <2>2. \A i : Own(i)' = Own(i)
    BY <2>1 DEF Own, Owner, Tagged
  <2>3. LastOwn' = LastOwn
    BY <2>1 DEF LastOwn, Own, Owner, Tagged
  <2>4. \A u, v : Before(u, v)' = Before(u, v)
    BY <2>1 DEF Before
  <2>5. InOrder'
    BY <2>1, <2>2, <2>4 DEF Emitting, InOrder
  <2>6. (at # EndOfParser => \E o \in Reach : Merged.heap[o].name = at /\ <<o, LastOwn>> \in seen)'
    BY <1>2, <2>1, <2>3 DEF Emitting
  <2>7. (\A i \in DOMAIN got : Own(i) \in graph.node)'
    BY <2>1, <2>2 DEF Emitting
  <2>8. QED BY <2>5, <2>6, <2>7 DEF Emitting
<1>5. CASE phase = "run" /\ UNCHANGED walkVars /\ Arrive
  <2>1. at' = Start /\ got' = <<>> /\ seen' = seen
    BY <1>5 DEF Arrive, walkVars
  <2>2. LastOwn' = NoPrev
    BY <2>1 DEF LastOwn
  <2>3. SStart \in Reach /\ Merged.heap[SStart].name = Start
    BY <1>1, HeapIs DEF HeapKnown, LiveObjects, IsBuilt
  <2>4. <<SStart, NoPrev>> \in seen
    BY <1>1, <1>5, SortedIs
  <2>5. (at # EndOfParser => \E o \in Reach : Merged.heap[o].name = at /\ <<o, LastOwn>> \in seen)'
    BY <1>2, <2>1, <2>2, <2>3, <2>4
  <2>6. QED BY <2>1, <2>5 DEF Emitting, InOrder
<1>6. CASE phase = "run" /\ UNCHANGED walkVars /\ ParseState
  BY <1>1, <1>6, EmittingParse
<1>7. CASE phase = "run" /\ UNCHANGED walkVars /\ Leave
  <2>1. at' = EndOfParser /\ got' = <<>>
    BY <1>7 DEF Leave
  <2>2. QED BY <2>1 DEF Emitting, InOrder
<1>8. QED
  <2>1. CASE Compile /\ UNCHANGED <<pair, runVars>>
    <3>1. phase = "run" => UNCHANGED walkVars
      <4> SUFFICES ASSUME phase = "run" PROVE UNCHANGED walkVars
        OBVIOUS
      <4>1. todo = <<>>
        BY DEF Walked
      <4>2. QED BY <2>1, <4>1 DEF Compile, Skip, CutLoop, Visit, Sort, GiveUp, Ended
    <3>2. QED BY <1>3, <1>4, <2>1, <3>1
  <2>2. CASE phase = "run" /\ Run /\ UNCHANGED <<pair, walkVars>>
    BY <1>5, <1>6, <1>7, <2>2 DEF Run
  <2>3. CASE UNCHANGED vars
    BY <1>3, <1>4, <2>3 DEF vars
  <2>4. QED BY <2>1, <2>2, <2>3 DEF Next

\* The order has the headers of a frame where it should; and every header of the
\* graph is some state's that can be come to, and the other way round.
LEMMA EmittingIs ==
  ASSUME Parsing, Walked, NoLoops => Emitting
  PROVE  EmitsOwnAsParsed
<1> SUFFICES ASSUME NoLoops PROVE EmitsOwnAsParsed
  BY DEF EmitsOwnAsParsed, NoLoops
<1>1. CASE phase # "run"
  <2>1. got = <<>>
    BY <1>1 DEF Walked
  <2>2. QED BY <2>1 DEF EmitsOwnAsParsed
<1>2. CASE phase = "run"
  <2> DEFINE H == Merged.heap
  <2>1. HeapKnown(H, Reach, pair[1], pair[2]) /\ Merged.dict[Start] = SStart /\ pair \in Pairs
    BY HeapIs DEF Parsing
  <2>2. /\ order \in Sortings(graph) /\ IsFiniteSet(graph.node)
        /\ <<SStart, NoPrev>> \in seen /\ Complete(H, <<>>, seen, graph)
        /\ seen \subseteq Reach \X Prevs(H, Reach)
        /\ \A x \in graph.node : \E o \in Reach : Extracts(o) /\ x = Header(o)
    BY <1>2, <2>1, SortedIs
  <2>3. /\ DOMAIN order \subseteq Nat
        /\ \A x \in graph.node : \E a \in DOMAIN order : order[a] = x
        /\ \A a \in DOMAIN order : order[a] \in graph.node
        /\ \A a, b \in DOMAIN order : order[a] = order[b] => a = b
    BY <2>2, SortingIs
  <2>4. (\A i \in DOMAIN got : Own(i) \in graph.node) /\ InOrder
    BY DEF Emitting
  <2>5. \A i \in DOMAIN got : \E a \in DOMAIN order : order[a] = Own(i)
    BY <2>3, <2>4
  <2>6. ASSUME NEW i \in DOMAIN got, NEW j \in DOMAIN got, i < j,
               NEW a \in DOMAIN order, NEW b \in DOMAIN order, order[a] = Own(i), order[b] = Own(j)
        PROVE  a < b
    <3>1. Before(Own(i), Own(j))
      BY <2>4, <2>6 DEF InOrder
    <3>2. PICK c, d \in DOMAIN order : c < d /\ order[c] = Own(i) /\ order[d] = Own(j)
      BY <3>1 DEF Before
    <3>3. c = a /\ d = b
      BY <2>3, <2>6, <3>2
    <3>4. QED BY <3>2, <3>3
  <2>7. \A o \in Reach : Extracts(o) => \E a \in DOMAIN order : order[a] = Header(o)
    <3> SUFFICES ASSUME NEW o \in Reach, Extracts(o)
                 PROVE  \E a \in DOMAIN order : order[a] = Header(o)
      OBVIOUS
    <3>1. \E p : <<o, p>> \in seen
      <4>1. /\ IsFiniteSet(DOMAIN H) /\ SStart \in DOMAIN H
            /\ \A q \in DOMAIN H : Targets(H[q].to) \subseteq DOMAIN H
            /\ \A q, p : <<q, p>> \in seen => q \in DOMAIN H
        BY <2>1, <2>2 DEF HeapKnown
      <4>2. o \in Accessible(H, SStart)
        BY DEF Reach
      <4> HIDE DEF H
      <4>3. QED BY <2>2, <4>1, <4>2, AllMet
    <3>2. PICK p : <<o, p>> \in seen
      BY <3>1
    <3>3. WentOn(H, <<>>, seen, graph, o, p)
      BY <2>2, <3>2 DEF Complete
    <3>4. Header(o) \in graph.node
      BY <3>3 DEF WentOn, Extracts, Header, HeaderIn
    <3>5. QED BY <2>3, <3>4
  <2>8. ASSUME NEW i \in DOMAIN got
        PROVE  (\E a \in DOMAIN order : order[a][2] = got[i] /\ order[a] # Own(i))
                 <=> \E o \in Reach : o[1] # Own(i)[1] /\ H[o].extract = got[i]
    <3>1. Own(i) = <<Own(i)[1], got[i]>>
      BY DEF Own
    <3>2. got[i] # NoHeader
      <4>1. PICK q \in Reach : Extracts(q) /\ Own(i) = Header(q)
        BY <2>2, <2>4
      <4>2. QED BY <4>1 DEF Own, Extracts, Header
    <3>3. ASSUME NEW a \in DOMAIN order, order[a][2] = got[i], order[a] # Own(i)
          PROVE  \E o \in Reach : o[1] # Own(i)[1] /\ H[o].extract = got[i]
      <4>1. PICK o \in Reach : Extracts(o) /\ order[a] = Header(o)
        BY <2>2, <2>3
      <4>2. order[a] = <<o[1], H[o].extract>>
        BY <4>1 DEF Header
      <4> HIDE DEF H
      <4>3. H[o].extract = got[i]
        BY <3>3, <4>2
      <4>4. o[1] # Own(i)[1]
        BY <3>1, <3>3, <4>2, <4>3
      <4>5. QED BY <4>3, <4>4
    <3>4. ASSUME NEW o \in Reach, o[1] # Own(i)[1], H[o].extract = got[i]
          PROVE  \E a \in DOMAIN order : order[a][2] = got[i] /\ order[a] # Own(i)
      <4>1. Extracts(o)
        BY <3>2, <3>4 DEF Extracts
      <4>2. PICK a \in DOMAIN order : order[a] = Header(o)
        BY <2>7, <4>1
      <4>3. Header(o) = <<o[1], got[i]>>
        BY <3>4 DEF Header
      <4>4. QED BY <3>1, <3>4, <4>2, <4>3
    <3>5. QED BY <3>3, <3>4
  <2>9. Accessible(Merged.heap, Merged.dict[Start]) = Reach
    BY <2>1 DEF Reach
  <2>10. QED BY <2>5, <2>6, <2>8, <2>9 DEF EmitsOwnAsParsed
<1>3. QED BY <1>1, <1>2

\* Without loops, and as long as no production has a branch of its own for the
\* tag: whichever order the deparser is given has the headers of every frame in
\* the order they were parsed in, and a second place for one exactly when the
\* other program parses a header of this name as well.
THEOREM OwnInOrder ==
  ASSUME \A q \in Pairs : NoOwnTag(q[1])
  PROVE  Spec => []EmitsOwnAsParsed
<1> DEFINE I == /\ Parsing /\ Walked /\ AtProductions /\ AtTestings /\ PastEthernet
                /\ NoLoops => Emitting
<1>1. Init => I
  <2> SUFFICES ASSUME Init PROVE I
    OBVIOUS
  <2>1. at = EndOfParser /\ got = <<>>
    BY DEF Init, Idle
  <2>2. PastEthernet /\ Emitting
    BY <2>1 DEF PastEthernet, Emitting, InOrder
  <2>3. QED BY <2>2, ParsingInit, WalkedInit, UntaggedInit, TaggedInit
<1>2. I /\ [Next]_vars => I'
  <2> SUFFICES ASSUME I, [Next]_vars PROVE I'
    OBVIOUS
  <2>1. Parsing' /\ Walked'
    BY ParsingStep, WalkedStep
  <2>2. NoOwnTag(pair[1])
    BY DEF Parsing
  <2>3. AtProductions' /\ AtTestings'
    BY <2>1, <2>2, UntaggedNext, TaggedNext
  <2>4. PastEthernet' /\ (NoLoops => Emitting)'
    BY PastEthernetStep, EmittingStep
  <2>5. QED BY <2>1, <2>3, <2>4
<1>3. I => EmitsOwnAsParsed
  BY EmittingIs
<1>4. QED BY <1>1, <1>2, <1>3, PTL DEF Spec
=============================================================================
