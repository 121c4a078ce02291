------------------------- MODULE BronKerboschProofs -------------------------
(***************************************************************************)
(* The exact solver finds the optimum, for instance files of any size.     *)
(*                                                                         *)
(* The state is described by predicates of plain values: C is the set of   *)
(* pairs in conflict, V the set of vertices and w their weights.  The      *)
(* lemmas say what each step makes of one frame and of the stack; the      *)
(* theorems put them together.                                             *)
(***************************************************************************)
EXTENDS BronKerbosch, Lemmas

-----------------------------------------------------------------------------
(***************************************************************************)
(* One activation                                                          *)
(***************************************************************************)
Clique(C, S) == \A u, v \in S : u # v => <<u, v>> \notin C

Maximal(C, V, S) == Clique(C, S) /\ \A v \in V \ S : ~Clique(C, S \cup {v})

Symmetric(C) == \A u, v : <<u, v>> \in C => <<v, u>> \in C

Frames(V) == [R : Seq(V), P : Seq(V), X : Seq(V), rest : Seq(V)]

\* What TypeOK and CandidatesSplit say of one frame.
FrameOK(f, C, V) ==
  /\ f \in Frames(V)
  /\ NoDuplicates(f.R) /\ NoDuplicates(f.P) /\ NoDuplicates(f.X)
  /\ Clique(C, ToSet(f.R))
  /\ ToSet(f.P) \cup ToSet(f.X) = {v \in V \ ToSet(f.R) : Clique(C, ToSet(f.R) \cup {v})}
  /\ ToSet(f.P) \cap ToSet(f.X) = {}
  /\ f.rest = f.P

\* S is R and some of the candidates.
Covers(f, S) == ToSet(f.R) \subseteq S /\ S \subseteq ToSet(f.R) \cup ToSet(f.P)

\* n's neighbours in the complement.
Free(C, V, n) == {u \in V : u # n /\ <<n, u>> \notin C}

\* The head of a sequence is a member.
LEMMA HeadMember ==
  ASSUME NEW V, NEW q \in Seq(V), q # <<>>
  PROVE  Head(q) \in V /\ Head(q) \in ToSet(q)
<1>1. Len(q) \in Nat \ {0} /\ Head(q) = q[1] /\ DOMAIN q = 1 .. Len(q)
  OBVIOUS
<1>2. 1 \in 1 .. Len(q)
  BY <1>1
<1>3. QED BY <1>1, <1>2 DEF ToSet

\* The frame of a recursive call is as sound as its caller's, and every clique with n
\* that the caller covers is covered by it.
LEMMA BranchFrame ==
  ASSUME NEW C, Symmetric(C), NEW V, NEW f, FrameOK(f, C, V), f.rest # <<>>,
         NEW A, A = Free(C, V, Head(f.rest)),
         NEW e, e = Frame(Append(f.R, Head(f.rest)), Keep(f.P, A), Keep(f.X, A))
  PROVE  /\ FrameOK(e, C, V)
         /\ \A S : Covers(f, S) /\ Head(f.rest) \in S /\ Clique(C, S) => Covers(e, S)
<1> DEFINE n == Head(f.rest)
           R == ToSet(f.R)
           P == ToSet(f.P)
           X == ToSet(f.X)
<1>1. f.R \in Seq(V) /\ f.P \in Seq(V) /\ f.X \in Seq(V)
  BY DEF FrameOK, Frames
<1>2. n \in V /\ n \in P
  <2>1. f.rest \in Seq(V) /\ f.rest = f.P
    BY DEF FrameOK, Frames
  <2>2. QED BY <2>1, HeadMember
<1>3. /\ Clique(C, R) /\ P \cap X = {}
      /\ P \cup X = {v \in V \ R : Clique(C, R \cup {v})}
  BY DEF FrameOK
<1>4. n \notin R /\ Clique(C, R \cup {n})
  BY <1>2, <1>3
<1>5. /\ e.R = Append(f.R, n) /\ e.P = Keep(f.P, A) /\ e.X = Keep(f.X, A) /\ e.rest = e.P
      /\ e = [R |-> e.R, P |-> e.P, X |-> e.X, rest |-> e.rest]
  BY DEF Frame
<1>6. e.R \in Seq(V) /\ ToSet(e.R) = R \cup {n} /\ NoDuplicates(e.R)
  <2>1. NoDuplicates(f.R)
    BY DEF FrameOK
  <2>2. Append(f.R, n) \in Seq(V)
    BY <1>1, <1>2
  <2>3. n \notin ToSet(f.R)
    BY <1>4
  <2> HIDE DEF n
  <2>4. ToSet(Append(f.R, n)) = ToSet(f.R) \cup {n} /\ NoDuplicates(Append(f.R, n))
    BY <1>1, <2>1, <2>3, AppendMembers
  <2>5. QED BY <1>5, <2>2, <2>4
<1>7. e.P \in Seq(V) /\ ToSet(e.P) = P \cap A /\ NoDuplicates(e.P)
  <2>1. NoDuplicates(f.P)
    BY DEF FrameOK
  <2>2. /\ Keep(f.P, A) \in Seq(V) /\ ToSet(Keep(f.P, A)) = ToSet(f.P) \cap A
        /\ NoDuplicates(Keep(f.P, A))
    BY <1>1, <2>1, KeepElements
  <2>3. QED BY <1>5, <2>2
<1>8. e.X \in Seq(V) /\ ToSet(e.X) = X \cap A /\ NoDuplicates(e.X)
  <2>1. NoDuplicates(f.X)
    BY DEF FrameOK
  <2>2. /\ Keep(f.X, A) \in Seq(V) /\ ToSet(Keep(f.X, A)) = ToSet(f.X) \cap A
        /\ NoDuplicates(Keep(f.X, A))
    BY <1>1, <2>1, KeepElements
  <2>3. QED BY <1>5, <2>2
<1>9. e \in Frames(V)
  <2>1. [R |-> e.R, P |-> e.P, X |-> e.X, rest |-> e.rest] \in Frames(V)
    BY <1>5, <1>6, <1>7, <1>8 DEF Frames
  <2>2. QED BY <1>5, <2>1
<1> HIDE DEF n, R, P, X
<1>10. A = {u \in V : u # n /\ <<n, u>> \notin C}
  BY DEF Free, n
<1>11. (P \cap A) \cup (X \cap A) = {v \in V \ (R \cup {n}) : Clique(C, (R \cup {n}) \cup {v})}
  <2>1. ASSUME NEW v \in (P \cap A) \cup (X \cap A)
        PROVE  v \in V \ (R \cup {n}) /\ Clique(C, (R \cup {n}) \cup {v})
    <3>1. v \in V \ R /\ Clique(C, R \cup {v})
      BY <1>3
    <3>2. v # n /\ <<n, v>> \notin C /\ <<v, n>> \notin C
      BY <1>10 DEF Symmetric
    <3>3. QED BY <1>4, <3>1, <3>2 DEF Clique
  <2>2. ASSUME NEW v \in V \ (R \cup {n}), Clique(C, (R \cup {n}) \cup {v})
        PROVE  v \in (P \cap A) \cup (X \cap A)
    <3>1. Clique(C, R \cup {v}) /\ v \notin R
      BY <2>2 DEF Clique
    <3>2. v # n /\ <<n, v>> \notin C
      BY <2>2 DEF Clique
    <3>3. QED BY <1>3, <1>10, <3>1, <3>2
  <2>3. QED BY <2>1, <2>2
<1>12. FrameOK(e, C, V)
  <2>1. (P \cap A) \cap (X \cap A) = {}
    BY <1>3
  <2>2. Clique(C, ToSet(e.R))
    BY <1>4, <1>6
  <2>3. ToSet(e.P) \cup ToSet(e.X) = {v \in V \ ToSet(e.R) : Clique(C, ToSet(e.R) \cup {v})}
    BY <1>6, <1>7, <1>8, <1>11
  <2>4. ToSet(e.P) \cap ToSet(e.X) = {}
    BY <1>7, <1>8, <2>1
  <2>5. QED BY <1>5, <1>6, <1>7, <1>8, <1>9, <2>2, <2>3, <2>4 DEF FrameOK
<1>13. ASSUME NEW S, Covers(f, S), n \in S, Clique(C, S) PROVE Covers(e, S)
  <2>1. R \subseteq S /\ S \subseteq R \cup P
    BY <1>13 DEF Covers, R, P
  <2>2. ASSUME NEW s \in S, s # n, s \notin R PROVE s \in P \cap A
    <3>1. s \in P /\ <<n, s>> \notin C
      BY <1>13, <2>1, <2>2 DEF Clique
    <3>2. s \in V
      BY <1>3, <3>1
    <3>3. QED BY <1>10, <2>2, <3>1, <3>2
  <2>3. R \cup {n} \subseteq S /\ S \subseteq (R \cup {n}) \cup (P \cap A)
    BY <1>13, <2>1, <2>2
  <2>4. QED BY <1>6, <1>7, <2>3 DEF Covers
<1>14. QED BY <1>12, <1>13 DEF n

\* When a call is over its caller is still sound, and still covers what does not
\* contain the vertex of the call.
LEMMA TriedFrame ==
  ASSUME NEW C, NEW V, NEW f, FrameOK(f, C, V), f.rest # <<>>
  PROVE  /\ FrameOK(Tried(f), C, V)
         /\ \A S : Covers(f, S) /\ Head(f.rest) \notin S => Covers(Tried(f), S)
<1> DEFINE n == Head(f.rest)
           R == ToSet(f.R)
           P == ToSet(f.P)
           X == ToSet(f.X)
           e == Tried(f)
           kept == Keep(f.P, ToSet(f.P) \ {n})
<1>1. /\ f.R \in Seq(V) /\ f.P \in Seq(V) /\ f.X \in Seq(V) /\ f.rest \in Seq(V)
      /\ f.rest = f.P /\ NoDuplicates(f.R) /\ NoDuplicates(f.P) /\ NoDuplicates(f.X)
      /\ f \in Frames(V)
  BY DEF FrameOK, Frames
<1>2. n \in V /\ n \in P
  BY <1>1, HeadMember
<1>3. /\ Clique(C, R) /\ P \cap X = {}
      /\ P \cup X = {v \in V \ R : Clique(C, R \cup {v})}
  BY DEF FrameOK
<1>4. e.R = f.R /\ e.P = kept /\ e.X = Append(f.X, n) /\ e.rest = Tail(f.rest)
  BY <1>1 DEF Tried, Frames
<1>5. e.P \in Seq(V) /\ ToSet(e.P) = P \ {n} /\ NoDuplicates(e.P)
  <2>1. /\ kept \in Seq(V) /\ ToSet(kept) = P \cap (P \ {n}) /\ NoDuplicates(kept)
    BY <1>1, KeepElements
  <2> HIDE DEF kept, e, P, n
  <2>2. QED BY <1>4, <2>1
<1>6. e.X \in Seq(V) /\ ToSet(e.X) = X \cup {n} /\ NoDuplicates(e.X)
  <2>1. Append(f.X, n) \in Seq(V)
    BY <1>1, <1>2
  <2>2. n \notin ToSet(f.X)
    BY <1>2, <1>3
  <2> HIDE DEF e, n
  <2>3. QED BY <1>1, <1>2, <1>4, <2>1, <2>2, AppendMembers
<1>7. e.rest = e.P
  <2>1. kept = Tail(f.P)
    BY <1>1, KeepTail
  <2>2. QED BY <1>1, <1>4, <2>1
<1>8. e \in Frames(V)
  <2>1. e.R \in Seq(V) /\ e.P \in Seq(V) /\ e.X \in Seq(V) /\ e.rest \in Seq(V)
    BY <1>1, <1>4, <1>5, <1>6, <1>7
  <2>2. e = [f EXCEPT !.P = e.P, !.X = e.X, !.rest = e.rest]
    BY <1>1, <1>4 DEF Tried
  <2> HIDE DEF e
  <2>3. QED BY <1>1, <2>1, <2>2 DEF Frames
<1> HIDE DEF e, R, P, X, n
<1>9. FrameOK(e, C, V)
  <2>1. (P \ {n}) \cup (X \cup {n}) = {v \in V \ R : Clique(C, R \cup {v})}
    BY <1>2, <1>3
  <2>2. (P \ {n}) \cap (X \cup {n}) = {}
    BY <1>3
  <2>3. ToSet(e.R) = R /\ NoDuplicates(e.R)
    BY <1>1, <1>4 DEF R
  <2>4. QED BY <1>3, <1>5, <1>6, <1>7, <1>8, <2>1, <2>2, <2>3 DEF FrameOK
<1>10. ASSUME NEW S, Covers(f, S), n \notin S PROVE Covers(e, S)
  <2>1. R \subseteq S /\ S \subseteq R \cup P /\ ToSet(e.R) = R
    BY <1>4, <1>10 DEF Covers, R, P
  <2>2. S \subseteq R \cup (P \ {n})
    BY <1>10, <2>1
  <2>3. QED BY <1>5, <2>1, <2>2 DEF Covers
<1>11. QED BY <1>9, <1>10 DEF e, n

\* A frame without candidates covers its own clique only, and that is not maximal if
\* a vertex was tried before.
LEMMA DoneFrame ==
  ASSUME NEW C, NEW V, NEW f, FrameOK(f, C, V), f.P = <<>>, NEW S, Covers(f, S)
  PROVE  /\ S = ToSet(f.R)
         /\ f.X # <<>> => ~Maximal(C, V, S)
<1>1. ToSet(<<>>) = {}
  BY DEF ToSet
<1>2. S = ToSet(f.R)
  BY <1>1 DEF Covers
<1>3. ASSUME f.X # <<>> PROVE ~Maximal(C, V, S)
  <2>1. f.X \in Seq(V)
    BY DEF FrameOK, Frames
  <2>2. Head(f.X) \in V /\ Head(f.X) \in ToSet(f.X)
    BY <1>3, <2>1, HeadMember
  <2>3. Head(f.X) \in V \ ToSet(f.R) /\ Clique(C, ToSet(f.R) \cup {Head(f.X)})
    BY <2>2 DEF FrameOK
  <2>4. QED BY <1>2, <2>3 DEF Maximal
<1>4. QED BY <1>2, <1>3

-----------------------------------------------------------------------------
(***************************************************************************)
(* The stack                                                               *)
(***************************************************************************)
\* Every activation but the innermost is in the middle of a call.
StackOK(st, C, V) ==
  /\ st \in Seq(Frames(V))
  /\ \A k \in 1 .. Len(st) : FrameOK(st[k], C, V)
  /\ \A k \in 1 .. Len(st) - 1 : st[k].rest # <<>>

\* S is still to be found in activation k: not by the call that is being made there.
Ahead(st, k, S) ==
  /\ Covers(st[k], S)
  /\ k < Len(st) => Head(st[k].rest) \notin S

\* No maximal clique heavier than bw is given up.
AllAhead(st, bw, w, C, V) ==
  \A S \in SUBSET V :
     Maximal(C, V, S) /\ SumOf(w, S) > bw => \E k \in 1 .. Len(st) : Ahead(st, k, S)

\* The stack when the innermost activation has returned.
Popped(st) ==
  IF Len(st) = 1 THEN <<>>
  ELSE Append(SubSeq(st, 1, Len(st) - 2), Tried(st[Len(st) - 1]))

\* The frames of the stack after a return.
LEMMA PoppedFrames ==
  ASSUME NEW C, NEW V, NEW st, StackOK(st, C, V), st # <<>>, Len(st) # 1
  PROVE  /\ Len(st) \in Nat /\ Len(st) >= 2
         /\ Popped(st) \in Seq(Frames(V)) /\ Len(Popped(st)) = Len(st) - 1
         /\ Popped(st)[Len(st) - 1] = Tried(st[Len(st) - 1])
         /\ \A k \in 1 .. Len(st) - 2 : Popped(st)[k] = st[k]
<1> DEFINE F == Frames(V)
           n == Len(st)
           t == Tried(st[n - 1])
           q == SubSeq(st, 1, n - 2)
<1>1. st \in Seq(F) /\ n \in Nat /\ n >= 2
  <2>1. st \in Seq(F)
    BY DEF StackOK
  <2>2. Len(st) \in Nat /\ Len(st) # 0
    BY <2>1
  <2>3. n \in Nat /\ n # 0 /\ n # 1
    BY <2>2
  <2> HIDE DEF n, F
  <2>4. n >= 2
    BY <2>3
  <2>5. QED BY <2>1, <2>3, <2>4
<1>2. t \in F
  <2>1. n - 1 \in 1 .. Len(st) - 1 /\ n - 1 \in 1 .. Len(st)
    BY <1>1
  <2>2. FrameOK(st[n - 1], C, V) /\ st[n - 1].rest # <<>>
    BY <2>1 DEF StackOK
  <2>3. FrameOK(t, C, V)
    BY <2>2, TriedFrame
  <2>4. QED BY <2>3 DEF FrameOK
<1>3. Popped(st) = Append(q, t)
  BY DEF Popped
<1> HIDE DEF F, t
<1>4. q \in Seq(F) /\ Len(q) = n - 2 /\ \A k \in 1 .. n - 2 : q[k] = st[k]
  <2>1. \A k \in 1 .. n - 2 : st[k] \in F
    BY <1>1
  <2>2. 1 \in Int /\ n - 2 \in Int /\ n - 2 >= 0
    BY <1>1
  <2> DEFINE m == n - 2
  <2>3. m \in Nat /\ q = SubSeq(st, 1, m) /\ \A k \in 1 .. m : st[k] \in F
    BY <2>1, <2>2
  <2> HIDE DEF m, q, n
  <2>4. q \in Seq(F) /\ Len(q) = m /\ \A k \in 1 .. m : q[k] = st[k]
    BY <2>3
  <2>5. QED BY <2>4 DEF m
<1> HIDE DEF q
<1>5. /\ Append(q, t) \in Seq(F) /\ Len(Append(q, t)) = n - 1 /\ Append(q, t)[n - 1] = t
      /\ \A k \in 1 .. n - 2 : Append(q, t)[k] = st[k]
  BY <1>1, <1>2, <1>4
<1>6. QED BY <1>1, <1>3, <1>5 DEF F, t

\* A return keeps the stack sound, and loses nothing, if what the returning
\* activation was about is recorded or not maximal.
LEMMA ReturnKeeps ==
  ASSUME NEW C, NEW V, NEW st, NEW w, NEW bw, NEW bw2,
         StackOK(st, C, V), st # <<>>, Last(st).P = <<>>,
         AllAhead(st, bw, w, C, V),
         \A S \in SUBSET V : SumOf(w, S) > bw2 => SumOf(w, S) > bw,
         \A S \in SUBSET V :
            S = ToSet(Last(st).R) /\ Last(st).X = <<>> => ~(SumOf(w, S) > bw2)
  PROVE  StackOK(Popped(st), C, V) /\ AllAhead(Popped(st), bw2, w, C, V)
<1> DEFINE n == Len(st)
           t == Popped(st)
<1>1. st \in Seq(Frames(V)) /\ n \in Nat /\ n >= 1 /\ Last(st) = st[n]
  BY DEF StackOK, Last
<1>2. FrameOK(st[n], C, V) /\ st[n].P = <<>>
  BY <1>1 DEF StackOK
<1>3. ASSUME NEW S \in SUBSET V, Maximal(C, V, S), SumOf(w, S) > bw2
      PROVE  \E k \in 1 .. n - 1 : Covers(st[k], S) /\ Head(st[k].rest) \notin S
  <2>1. PICK k \in 1 .. n : Ahead(st, k, S)
    BY <1>3 DEF AllAhead
  <2>2. k # n
    <3> SUFFICES ASSUME k = n PROVE FALSE
      OBVIOUS
    <3>1. Covers(st[n], S)
      BY <2>1 DEF Ahead
    <3>2. S = ToSet(st[n].R) /\ (st[n].X # <<>> => ~Maximal(C, V, S))
      BY <1>2, <3>1, DoneFrame
    <3>3. QED BY <1>1, <1>3, <3>2
  <2>3. k \in 1 .. n - 1 /\ k < Len(st)
    BY <1>1, <2>2
  <2>4. QED BY <2>1, <2>3 DEF Ahead
<1>4. CASE n = 1
  <2>1. t = <<>> /\ Len(t) = 0 /\ 1 .. 0 = {}
    BY <1>4 DEF Popped
  <2>2. StackOK(t, C, V)
    BY <2>1 DEF StackOK
  <2>3. ~ \E S \in SUBSET V : Maximal(C, V, S) /\ SumOf(w, S) > bw2
    BY <1>3, <1>4
  <2>4. AllAhead(t, bw2, w, C, V)
    BY <2>3 DEF AllAhead
  <2>5. QED BY <2>2, <2>4
<1>5. CASE n # 1
  <2>1. /\ t \in Seq(Frames(V)) /\ Len(t) = n - 1 /\ t[n - 1] = Tried(st[n - 1])
        /\ \A k \in 1 .. n - 2 : t[k] = st[k]
    BY <1>1, <1>5, PoppedFrames
  <2> HIDE DEF t, n
  <2>2. /\ n - 1 \in 1 .. n - 1 /\ n \in Nat /\ n >= 2
        /\ \A k \in 1 .. n - 1 : k = n - 1 \/ k \in 1 .. n - 2
        /\ \A k \in 1 .. n - 2 : k < n - 1 /\ k \in 1 .. n - 1
    BY <1>1, <1>5
  <2>3. /\ \A k \in 1 .. n - 1 : FrameOK(st[k], C, V) /\ st[k].rest # <<>>
    BY <2>2 DEF StackOK, n
  <2>4. FrameOK(t[n - 1], C, V)
        /\ \A S : Covers(st[n - 1], S) /\ Head(st[n - 1].rest) \notin S => Covers(t[n - 1], S)
    BY <2>1, <2>2, <2>3, TriedFrame
  <2>5. StackOK(t, C, V)
    <3>1. \A k \in 1 .. n - 1 : FrameOK(t[k], C, V)
      BY <2>1, <2>2, <2>3, <2>4
    <3>2. \A k \in 1 .. (n - 1) - 1 : t[k].rest # <<>>
      <4>1. (n - 1) - 1 = n - 2
        BY <2>2
      <4>2. QED BY <2>1, <2>2, <2>3, <4>1
    <3>3. QED BY <2>1, <3>1, <3>2 DEF StackOK
  <2>6. ASSUME NEW S \in SUBSET V, Maximal(C, V, S), SumOf(w, S) > bw2
        PROVE  \E k \in 1 .. n - 1 : Ahead(t, k, S)
    <3>1. PICK k \in 1 .. n - 1 : Covers(st[k], S) /\ Head(st[k].rest) \notin S
      BY <1>3, <2>6 DEF n
    <3>2. CASE k = n - 1
      <4>1. Covers(t[k], S) /\ ~(k < Len(t))
        BY <2>1, <2>2, <2>4, <3>1, <3>2
      <4>2. QED BY <4>1 DEF Ahead
    <3>3. CASE k # n - 1
      <4>1. t[k] = st[k]
        BY <2>1, <2>2, <3>3
      <4>2. QED BY <3>1, <4>1 DEF Ahead
    <3>4. QED BY <3>2, <3>3
  <2>7. AllAhead(t, bw2, w, C, V)
    BY <2>1, <2>6 DEF AllAhead
  <2>8. QED BY <2>5, <2>7 DEF t
<1>6. QED BY <1>4, <1>5

\* A recursive call keeps the stack sound, and loses nothing.
LEMMA CallKeeps ==
  ASSUME NEW C, Symmetric(C), NEW V, NEW st, NEW w, NEW bw, NEW bw2,
         StackOK(st, C, V), st # <<>>, Last(st).rest # <<>>,
         AllAhead(st, bw, w, C, V),
         \A S \in SUBSET V : SumOf(w, S) > bw2 => SumOf(w, S) > bw,
         NEW A, A = Free(C, V, Head(Last(st).rest)),
         NEW e, e = Frame(Append(Last(st).R, Head(Last(st).rest)),
                          Keep(Last(st).P, A), Keep(Last(st).X, A))
  PROVE  StackOK(Append(st, e), C, V) /\ AllAhead(Append(st, e), bw2, w, C, V)
<1> DEFINE n == Len(st)
           f == Last(st)
           h == Head(f.rest)
           t == Append(st, e)
<1>1. st \in Seq(Frames(V)) /\ n \in Nat /\ n >= 1 /\ f = st[n]
  BY DEF StackOK, Last
<1>2. FrameOK(f, C, V) /\ f.rest # <<>>
  BY <1>1 DEF StackOK
<1> HIDE DEF f
<1>3. /\ FrameOK(e, C, V)
      /\ \A S : Covers(f, S) /\ h \in S /\ Clique(C, S) => Covers(e, S)
  BY <1>2, BranchFrame DEF f
<1>4. e \in Frames(V)
  BY <1>3 DEF FrameOK
<1>5. /\ t \in Seq(Frames(V)) /\ Len(t) = n + 1 /\ t[n + 1] = e
      /\ \A k \in 1 .. n : t[k] = st[k]
  BY <1>1, <1>4
<1>6. /\ n \in 1 .. n /\ n + 1 \in 1 .. n + 1 /\ (n + 1) - 1 = n
      /\ \A k \in 1 .. n + 1 : k = n + 1 \/ k \in 1 .. n
      /\ \A k \in 1 .. n : k \in 1 .. n + 1 /\ k < n + 1 /\ (k = n \/ k \in 1 .. n - 1)
      /\ \A k \in 1 .. n - 1 : k < n
  BY <1>1
<1> HIDE DEF t, n, h
<1>7. \A k \in 1 .. n : FrameOK(st[k], C, V) /\ st[k].rest # <<>>
  BY <1>1, <1>2, <1>6 DEF StackOK, n
<1>8. StackOK(t, C, V)
  <2>1. \A k \in 1 .. n + 1 : FrameOK(t[k], C, V)
    BY <1>3, <1>5, <1>6, <1>7
  <2>2. \A k \in 1 .. (n + 1) - 1 : t[k].rest # <<>>
    BY <1>5, <1>6, <1>7
  <2>3. QED BY <1>5, <2>1, <2>2 DEF StackOK
<1>9. ASSUME NEW S \in SUBSET V, Maximal(C, V, S), SumOf(w, S) > bw2
      PROVE  \E k \in 1 .. n + 1 : Ahead(t, k, S)
  <2>1. PICK k \in 1 .. n : Ahead(st, k, S)
    BY <1>9 DEF AllAhead, n
  <2>2. CASE k # n
    <3>1. k < Len(st) /\ Covers(st[k], S) /\ Head(st[k].rest) \notin S
      BY <1>6, <2>1, <2>2 DEF Ahead, n
    <3>2. k \in 1 .. n + 1 /\ t[k] = st[k]
      BY <1>5, <1>6
    <3>3. QED BY <3>1, <3>2 DEF Ahead
  <2>3. CASE k = n /\ h \notin S
    <3>1. Covers(st[n], S) /\ t[n] = st[n] /\ n \in 1 .. n + 1 /\ Head(st[n].rest) \notin S
      BY <1>1, <1>5, <1>6, <2>1, <2>3 DEF Ahead, h
    <3>2. QED BY <3>1 DEF Ahead
  <2>4. CASE k = n /\ h \in S
    <3>1. Covers(f, S) /\ Clique(C, S)
      BY <1>1, <1>9, <2>1, <2>4 DEF Ahead, Maximal
    <3>2. Covers(t[n + 1], S) /\ n + 1 \in 1 .. n + 1 /\ ~(n + 1 < Len(t))
      BY <1>3, <1>5, <1>6, <2>4, <3>1
    <3>3. QED BY <3>2 DEF Ahead
  <2>5. QED BY <2>2, <2>3, <2>4
<1>10. AllAhead(t, bw2, w, C, V)
  BY <1>5, <1>9 DEF AllAhead
<1>11. QED BY <1>8, <1>10 DEF t

\* A clique can be extended to a maximal one.
LEMMA MaximalAbove ==
  ASSUME NEW C, NEW V, IsFiniteSet(V), NEW S \in SUBSET V, Clique(C, S)
  PROVE  \E M \in SUBSET V : S \subseteq M /\ Maximal(C, V, M)
<1> DEFINE Left == {U \in SUBSET V : S \subseteq V \ U /\ Clique(C, V \ U)}
<1>1. V \ S \in Left
  <2>1. V \ (V \ S) = S
    OBVIOUS
  <2>2. QED BY <2>1
<1>2. PICK U \in Left : \A Y \in SUBSET U : Y # U => Y \notin Left
  <2>1. Left \subseteq SUBSET V /\ Left # {}
    BY <1>1
  <2> HIDE DEF Left
  <2>2. QED BY <2>1, SmallestSubset
<1>3. ASSUME NEW v \in V \ (V \ U), Clique(C, (V \ U) \cup {v}) PROVE FALSE
  <2>1. v \in U /\ V \ (U \ {v}) = (V \ U) \cup {v}
    BY <1>2
  <2>2. U \ {v} \in Left
    BY <1>2, <1>3, <2>1
  <2>3. U \ {v} \in SUBSET U /\ U \ {v} # U
    BY <2>1
  <2>4. QED BY <1>2, <2>2, <2>3
<1>4. S \subseteq V \ U /\ Maximal(C, V, V \ U)
  BY <1>2, <1>3 DEF Maximal
<1>5. QED BY <1>4

-----------------------------------------------------------------------------
(***************************************************************************)
(* The inductive invariant                                                 *)
(***************************************************************************)
Conflicting == FilePairs(file)
All == 0 .. file.n - 1

\* The two results agree, and are a clique.
BestOK(bs, bw, w, C, V) ==
  /\ bs \in Seq(V) /\ NoDuplicates(bs) /\ Clique(C, ToSet(bs))
  /\ bw \in Nat /\ bw = SumOf(w, ToSet(bs))

\* The graph is what was read; NothingLost says as well that the call being made is
\* never the one that a clique without its vertex waits for.
IInv ==
  /\ file \in Files /\ g = SortAdj(ReadInstance(file, TRUE))
  /\ StackOK(stack, Conflicting, All)
  /\ AllAhead(stack, best_weight, g.weight, Conflicting, All)
  /\ BestOK(best_set, best_weight, g.weight, Conflicting, All)

Complement(h, C, V) ==
  /\ Vertices(h) = V /\ IsSimpleGraph(h) /\ h.weight \in [V -> Nat]
  /\ IsFiniteSet(V) /\ Symmetric(C)
  /\ \A n \in V : ToSet(h.adj[n]) = Free(C, V, n)

\* The complement, as read: the neighbours are the vertices not in conflict.
LEMMA GraphKnown ==
  ASSUME NEW fl \in Files, NEW V, V = 0 .. fl.n - 1, NEW C, C = FilePairs(fl),
         NEW h, h = SortAdj(ReadInstance(fl, TRUE))
  PROVE  fl.n \in Nat /\ Complement(h, C, V)
<1> DEFINE E == Joined(fl.n, fl.n) \ C
<1>1. IsFile(fl) /\ fl.n \in Nat
  BY FilesAssumption DEF IsFile
<1>2. ReadAs(ReadInstance(fl, TRUE), fl, E)
  BY <1>1, ReadComplement
<1>3. ReadAs(h, fl, E)
  <2> HIDE DEF E
  <2>1. QED BY <1>1, <1>2, SortAdjReadAs
<1>4. Symmetric(C)
  BY <1>1, PairsOfFile DEF Symmetric
<1>5. \A u, v : <<u, v>> \in Joined(fl.n, fl.n) <=> u \in V /\ v \in V /\ u # v
  <2>1. \A u \in V : u < fl.n
    BY <1>1
  <2>2. QED BY <2>1 DEF Joined
<1>6. \A u, v : <<u, v>> \in E <=> u \in V /\ v \in V /\ u # v /\ <<u, v>> \notin C
  BY <1>5
<1>7. (\A v : <<v, v>> \notin E) /\ \A u, v : <<u, v>> \in E => <<v, u>> \in E
  BY <1>4, <1>6 DEF Symmetric
<1> HIDE DEF E
<1>8. IsSimpleGraph(h) /\ Vertices(h) = V
  BY <1>1, <1>3, <1>7, ReadIsSimple
<1>9. h.weight \in [V -> Nat] /\ Represents(h, V, E)
  BY <1>3 DEF ReadAs
<1>10. \A n \in V : ToSet(h.adj[n]) = Free(C, V, n)
  <2> SUFFICES ASSUME NEW n \in V PROVE ToSet(h.adj[n]) = Free(C, V, n)
    OBVIOUS
  <2>1. ToSet(h.adj[n]) = {u \in V : <<n, u>> \in E}
    BY <1>9 DEF Represents
  <2>2. QED BY <1>6, <2>1 DEF Free
<1>11. IsFiniteSet(V)
  BY <1>1, FS_Interval
<1>12. QED BY <1>1, <1>4, <1>8, <1>9, <1>10, <1>11 DEF Complement

\* In conflict by the file is in conflict by its pairs.
LEMMA CliqueByPairs ==
  ASSUME file \in Files
  PROVE  \A S : IsClique(S) <=> Clique(Conflicting, S)
<1>1. IsFile(file)
  BY FilesAssumption DEF IsFile
<1>2. \A u, v : InConflict(u, v) <=> <<u, v>> \in FilePairs(file)
  <2>1. \A u, v : <<u, v>> \in FilePairs(file) <=> Listed(file, u, v)
    BY <1>1, PairsOfFile
  <2>2. QED BY <2>1 DEF InConflict, Listed
<1>3. QED BY <1>2 DEF IsClique, Clique, Conflicting

\* What is recorded is a clique of the weight recorded with it.
LEMMA RecordKeeps ==
  ASSUME NEW C, NEW V, IsFiniteSet(V), NEW w \in [V -> Nat], NEW f, FrameOK(f, C, V)
  PROVE  BestOK(f.R, TotalOf(w, f.R), w, C, V)
<1>1. f.R \in Seq(V) /\ NoDuplicates(f.R) /\ Clique(C, ToSet(f.R))
  BY DEF FrameOK, Frames
<1>2. TotalOf(w, f.R) = SumOf(w, ToSet(f.R))
  <2>1. w \in [V -> Int]
    OBVIOUS
  <2> DEFINE q == f.R
  <2>2. q \in Seq(V) /\ \A i, j \in 1 .. Len(q) : q[i] = q[j] => i = j
    BY <1>1 DEF NoDuplicates
  <2> HIDE DEF q
  <2>3. TotalOf(w, q) = SumOf(w, ToSet(q))
    BY <2>1, <2>2, SumOfSequence
  <2>4. QED BY <2>3 DEF q
<1>3. SumOf(w, ToSet(f.R)) \in Nat
  <2>1. ToSet(f.R) \in SUBSET V
    BY <1>1 DEF ToSet
  <2>2. V \in SUBSET V
    OBVIOUS
  <2>3. QED BY <2>1, <2>2, SumOfPart
<1>4. QED BY <1>1, <1>2, <1>3 DEF BestOK

\* The invariant holds before the first call.
LEMMA InitInv == Init => IInv
<1> SUFFICES ASSUME Init PROVE IInv
  OBVIOUS
<1> DEFINE V == All
           C == Conflicting
           q == [i \in 1 .. file.n |-> i - 1]
           f == Frame(<<>>, q, <<>>)
           w == g.weight
<1>1. file \in Files /\ g = SortAdj(ReadInstance(file, TRUE)) /\ stack = <<f>>
      /\ best_weight = 0 /\ best_set = <<>>
  BY DEF Init
<1>2. file.n \in Nat /\ IsFiniteSet(V) /\ w \in [V -> Nat]
  BY <1>1, GraphKnown DEF All, Complement
<1>3. q \in Seq(V) /\ ToSet(q) = V /\ NoDuplicates(q)
  <2>1. Len(q) = file.n /\ q \in Seq(V) /\ \A i \in 1 .. file.n : q[i] = i - 1
    BY <1>2 DEF All
  <2>2. \A v \in V : v + 1 \in 1 .. file.n /\ (v + 1) - 1 = v
    BY <1>2 DEF All
  <2>3. DOMAIN q = 1 .. file.n
    OBVIOUS
  <2> HIDE DEF q, V
  <2>4. ToSet(q) = V
    <3>1. \A v \in V : v \in ToSet(q)
      BY <2>1, <2>2, <2>3 DEF ToSet
    <3>2. \A v \in ToSet(q) : v \in V
      BY <2>1 DEF ToSet
    <3>3. QED BY <3>1, <3>2
  <2>5. NoDuplicates(q)
    BY <1>2, <2>1 DEF NoDuplicates
  <2>6. QED BY <2>1, <2>4, <2>5
<1>4. ToSet(<<>>) = {} /\ NoDuplicates(<<>>) /\ <<>> \in Seq(V)
  BY DEF ToSet, NoDuplicates
<1>5. /\ f.R = <<>> /\ f.P = q /\ f.X = <<>> /\ f.rest = q
      /\ f = [R |-> <<>>, P |-> q, X |-> <<>>, rest |-> q]
  BY DEF Frame
<1> HIDE DEF q, V, C, f, w
<1>6. FrameOK(f, C, V)
  <2>1. f \in Frames(V)
    BY <1>3, <1>4, <1>5 DEF Frames
  <2>2. Clique(C, {}) /\ \A v : Clique(C, {} \cup {v})
    BY DEF Clique
  <2>3. V \cup {} = {v \in V \ {} : Clique(C, {} \cup {v})} /\ V \cap {} = {}
    BY <2>2
  <2>4. QED BY <1>3, <1>4, <1>5, <2>1, <2>2, <2>3 DEF FrameOK
<1>7. StackOK(stack, C, V)
  <2>1. f \in Frames(V)
    BY <1>6 DEF FrameOK
  <2>2. stack \in Seq(Frames(V)) /\ Len(stack) = 1 /\ stack[1] = f
    BY <1>1, <2>1
  <2>3. \A k \in 1 .. Len(stack) : stack[k] = f
    BY <2>2
  <2>4. 1 .. Len(stack) - 1 = {}
    BY <2>2
  <2>5. QED BY <1>6, <2>2, <2>3, <2>4 DEF StackOK
<1>8. AllAhead(stack, best_weight, w, C, V)
  <2>1. \A S \in SUBSET V : Covers(f, S)
    BY <1>3, <1>4, <1>5 DEF Covers
  <2>2. Len(stack) = 1 /\ stack[1] = f /\ 1 \in 1 .. Len(stack) /\ ~(1 < Len(stack))
    BY <1>1
  <2>3. \A S \in SUBSET V : Ahead(stack, 1, S)
    BY <2>1, <2>2 DEF Ahead
  <2>4. QED BY <2>2, <2>3 DEF AllAhead
<1>9. BestOK(best_set, best_weight, w, C, V)
  <2>1. SumOf(w, {}) = 0
    <3>1. w \in [V -> Int]
      BY <1>2
    <3>2. QED BY <1>2, <3>1, SumOfSet
  <2>2. Clique(C, {})
    BY DEF Clique
  <2>3. SumOf(w, ToSet(<<>>)) = 0
    BY <1>4, <2>1, Zenon
  <2>4. QED BY <1>1, <1>4, <2>2, <2>3 DEF BestOK
<1>10. QED BY <1>1, <1>7, <1>8, <1>9 DEF IInv, V, C, w

\* Every step keeps the invariant.
LEMMA StepInv == IInv /\ [Next]_vars => IInv'
<1> SUFFICES ASSUME IInv, [Next]_vars PROVE IInv'
  OBVIOUS
<1> DEFINE V == All
           C == Conflicting
           w == g.weight
           f == Last(stack)
<1>1. /\ file \in Files /\ g = SortAdj(ReadInstance(file, TRUE))
      /\ StackOK(stack, C, V) /\ AllAhead(stack, best_weight, w, C, V)
      /\ BestOK(best_set, best_weight, w, C, V)
  BY DEF IInv
<1>2. /\ IsFiniteSet(V) /\ w \in [V -> Nat] /\ Symmetric(C)
      /\ \A n \in V : ToSet(g.adj[n]) = Free(C, V, n)
  <2>1. Complement(g, C, V)
    BY <1>1, GraphKnown DEF All, Conflicting
  <2> HIDE DEF V, C
  <2>2. QED BY <2>1 DEF Complement
<1>3. ASSUME file' = file, g' = g,
             StackOK(stack', C, V), AllAhead(stack', best_weight', w, C, V),
             BestOK(best_set', best_weight', w, C, V)
      PROVE  IInv'
  BY <1>1, <1>3 DEF IInv, All, Conflicting
<1>4. ASSUME NEW S \in SUBSET V PROVE SumOf(w, S) \in Int
  <2>1. w \in [V -> Int]
    BY <1>2
  <2>2. QED BY <1>2, <2>1, SumOfSet
<1>5. best_weight \in Int
  <2>1. best_weight \in Nat
    BY <1>1, Zenon DEF BestOK
  <2>2. QED BY <2>1
<1>6. ASSUME stack # <<>> PROVE FrameOK(f, C, V)
  <2>1. stack \in Seq(Frames(V)) /\ Len(stack) \in 1 .. Len(stack)
    BY <1>1, <1>6 DEF StackOK
  <2>2. QED BY <1>1, <2>1 DEF StackOK, Last
<1>7. \A R : Weight(R) = TotalOf(w, R)
  BY DEF Weight, TotalOf
<1>8. Return <=> stack' = Popped(stack)
  BY DEF Return, Popped
<1> HIDE DEF V, C, w
<1>9. CASE Leaf
  <2>1. /\ stack # <<>> /\ f.P = <<>> /\ f.X = <<>> /\ stack' = Popped(stack)
        /\ file' = file /\ g' = g
        /\ \/ TotalOf(w, f.R) > best_weight /\ best_set' = f.R /\ best_weight' = TotalOf(w, f.R)
           \/ ~(TotalOf(w, f.R) > best_weight) /\ best_set' = best_set
              /\ best_weight' = best_weight
    BY <1>7, <1>8, <1>9 DEF Leaf, Record
  <2> HIDE DEF f
  <2>2. FrameOK(f, C, V) /\ BestOK(f.R, TotalOf(w, f.R), w, C, V)
    BY <1>2, <1>6, <2>1, RecordKeeps
  <2>3. BestOK(best_set', best_weight', w, C, V)
    BY <1>1, <2>1, <2>2
  <2>4. TotalOf(w, f.R) = SumOf(w, ToSet(f.R)) /\ TotalOf(w, f.R) \in Int
    BY <2>2 DEF BestOK
  <2>5. best_weight' \in Int /\ best_weight' >= best_weight /\ best_weight' >= TotalOf(w, f.R)
    BY <1>5, <2>1, <2>4
  <2>6. \A S \in SUBSET V : SumOf(w, S) > best_weight' => SumOf(w, S) > best_weight
    BY <1>4, <1>5, <2>5
  <2>7. \A S \in SUBSET V : S = ToSet(f.R) /\ f.X = <<>> => ~(SumOf(w, S) > best_weight')
    BY <2>4, <2>5
  <2>8. StackOK(stack', C, V) /\ AllAhead(stack', best_weight', w, C, V)
    BY <1>1, <2>1, <2>6, <2>7, ReturnKeeps DEF f
  <2>9. QED BY <1>3, <2>1, <2>3, <2>8
<1>10. CASE LoopDone
  <2>1. /\ stack # <<>> /\ f.rest = <<>> /\ ~(f.P = <<>> /\ f.X = <<>>)
        /\ stack' = Popped(stack) /\ file' = file /\ g' = g
        /\ best_set' = best_set /\ best_weight' = best_weight
    BY <1>8, <1>10 DEF LoopDone
  <2> HIDE DEF f
  <2>2. f.P = <<>> /\ f.X # <<>>
    BY <1>6, <2>1 DEF FrameOK
  <2>3. StackOK(stack', C, V) /\ AllAhead(stack', best_weight', w, C, V)
    <3>1. \A S \in SUBSET V : SumOf(w, S) > best_weight' => SumOf(w, S) > best_weight
      BY <2>1
    <3>2. \A S \in SUBSET V : S = ToSet(f.R) /\ f.X = <<>> => ~(SumOf(w, S) > best_weight')
      BY <2>2
    <3>3. QED BY <1>1, <2>1, <2>2, <3>1, <3>2, ReturnKeeps DEF f
  <2>4. QED BY <1>1, <1>3, <2>1, <2>3
<1>11. CASE Branch
  <2> DEFINE n == Head(f.rest)
             A == ToSet(g.adj[n])
             e == Frame(Append(f.R, n), Keep(f.P, A), Keep(f.X, A))
  <2>1. /\ stack # <<>> /\ f.rest # <<>> /\ stack' = Append(stack, e)
        /\ file' = file /\ g' = g
        /\ \/ TotalOf(w, f.R) >= best_weight /\ best_set' = f.R /\ best_weight' = TotalOf(w, f.R)
           \/ best_set' = best_set /\ best_weight' = best_weight
    BY <1>7, <1>11 DEF Branch, Record, Intersection
  <2>2. FrameOK(f, C, V) /\ BestOK(f.R, TotalOf(w, f.R), w, C, V)
    BY <1>2, <1>6, <2>1, RecordKeeps
  <2>3. BestOK(best_set', best_weight', w, C, V)
    BY <1>1, <2>1, <2>2
  <2>4. best_weight' \in Int /\ best_weight' >= best_weight
    BY <1>5, <2>1, <2>2 DEF BestOK
  <2>5. \A S \in SUBSET V : SumOf(w, S) > best_weight' => SumOf(w, S) > best_weight
    BY <1>4, <1>5, <2>4
  <2>6. A = Free(C, V, n)
    <3>1. f.rest \in Seq(V)
      BY <2>2 DEF FrameOK, Frames
    <3>2. n \in V
      BY <2>1, <3>1, HeadMember
    <3>3. QED BY <1>2, <3>2
  <2>7. StackOK(stack', C, V) /\ AllAhead(stack', best_weight', w, C, V)
    <3> HIDE DEF A
    <3>1. e = Frame(Append(Last(stack).R, Head(Last(stack).rest)),
                    Keep(Last(stack).P, A), Keep(Last(stack).X, A))
      OBVIOUS
    <3>2. A = Free(C, V, Head(Last(stack).rest)) /\ Last(stack).rest # <<>>
      BY <2>1, <2>6
    <3> HIDE DEF e, f, n
    <3>3. QED BY <1>1, <1>2, <2>1, <2>5, <3>1, <3>2, CallKeeps
  <2>8. QED BY <1>3, <2>1, <2>3, <2>7
<1>12. CASE Printed \/ UNCHANGED vars
  <2>1. UNCHANGED <<file, g, stack, best_weight, best_set>>
    BY <1>12 DEF Printed, vars
  <2>2. QED BY <1>1, <1>3, <2>1
<1>13. QED BY <1>9, <1>10, <1>11, <1>12 DEF Next

\* The invariant holds throughout.
THEOREM Invariant == Spec => []IInv
<1>1. QED BY InitInv, StepInv, PTL DEF Spec

\* Types, and the lists without repetition: the conjuncts of TypeOK, for every file.
THEOREM TypeCorrect == Spec => []TypeOK
<1>1. ASSUME IInv PROVE TypeOK
  <2>1. /\ IsSimpleGraph(g) /\ Vertices(g) = All
    <3>1. file \in Files /\ g = SortAdj(ReadInstance(file, TRUE))
      BY <1>1 DEF IInv
    <3>2. QED BY <3>1, GraphKnown DEF All, Complement
  <2>2. ASSUME NEW k \in 1 .. Len(stack),
               NEW q \in {stack[k].R, stack[k].P, stack[k].X, stack[k].rest}
        PROVE  q \in Seq(All) /\ NoDuplicates(q)
    <3>1. FrameOK(stack[k], Conflicting, All)
      BY <1>1 DEF IInv, StackOK
    <3>2. QED BY <3>1 DEF FrameOK, Frames
  <2>3. best_weight \in Nat /\ best_set \in Seq(All)
    BY <1>1 DEF IInv, BestOK
  <2>4. QED BY <2>1, <2>2, <2>3 DEF TypeOK
<1>2. QED BY <1>1, Invariant, PTL

\* The search loses no maximal clique, tries none twice and keeps its results in step.
THEOREM SearchIsSound == Spec => []SearchSound
<1>1. ASSUME IInv PROVE SearchSound
  <2>1. /\ file \in Files /\ g = SortAdj(ReadInstance(file, TRUE))
        /\ StackOK(stack, Conflicting, All)
        /\ AllAhead(stack, best_weight, g.weight, Conflicting, All)
        /\ BestOK(best_set, best_weight, g.weight, Conflicting, All)
    BY <1>1 DEF IInv
  <2>2. Vertices(g) = All
    BY <2>1, GraphKnown DEF All, Complement
  <2>3. \A S : IsClique(S) <=> Clique(Conflicting, S)
    BY <2>1, CliqueByPairs
  <2>4. CandidatesSplit
    <3>1. ASSUME NEW k \in 1 .. Len(stack) PROVE FrameOK(stack[k], Conflicting, All)
      BY <2>1 DEF StackOK
    <3>2. QED BY <2>2, <2>3, <3>1 DEF CandidatesSplit, FrameOK
  <2>5. NothingLost
    <3>1. ASSUME NEW S \in SUBSET All, IsMaximalClique(S), WeightOf(S) > best_weight
          PROVE  \E k \in 1 .. Len(stack) :
                   /\ ToSet(stack[k].R) \subseteq S
                   /\ S \subseteq ToSet(stack[k].R) \cup ToSet(stack[k].P)
      <4>1. Maximal(Conflicting, All, S)
        BY <2>2, <2>3, <3>1 DEF IsMaximalClique, Maximal
      <4>2. WeightOf(S) = SumOf(g.weight, S)
        BY DEF WeightOf, SumOf
      <4>3. PICK k \in 1 .. Len(stack) : Ahead(stack, k, S)
        BY <2>1, <3>1, <4>1, <4>2 DEF AllAhead
      <4>4. QED BY <4>3 DEF Ahead, Covers
    <3>2. QED BY <2>2, <3>1 DEF NothingLost
  <2>6. BestAgrees
    <3>1. WeightOf(ToSet(best_set)) = SumOf(g.weight, ToSet(best_set))
      BY DEF WeightOf, SumOf
    <3>2. QED BY <2>1, <2>3, <3>1 DEF BestAgrees, BestOK
  <2>7. QED BY <2>4, <2>5, <2>6 DEF SearchSound
<1>2. QED BY <1>1, Invariant, PTL

\* mwis/README.md promises the optimum: what is printed is an independent set of the
\* file's conflicts, and no other weighs more.
THEOREM Optimal == Spec => []PrintsOptimum
<1>1. ASSUME IInv PROVE PrintsOptimum
  <2> SUFFICES ASSUME stack = <<>>
               PROVE  /\ IsClique(ToSet(best_set))
                      /\ \A S \in SUBSET Vertices(g) :
                           IsClique(S) => WeightOf(S) <= WeightOf(ToSet(best_set))
    BY DEF PrintsOptimum
  <2> DEFINE w == g.weight
  <2>1. /\ file \in Files /\ g = SortAdj(ReadInstance(file, TRUE))
        /\ AllAhead(stack, best_weight, w, Conflicting, All)
        /\ BestOK(best_set, best_weight, w, Conflicting, All)
    BY <1>1 DEF IInv
  <2>2. Vertices(g) = All /\ IsFiniteSet(All) /\ w \in [All -> Nat]
    BY <2>1, GraphKnown DEF All, Complement
  <2>3. \A S : IsClique(S) <=> Clique(Conflicting, S)
    BY <2>1, CliqueByPairs
  <2>4. \A S : WeightOf(S) = SumOf(w, S)
    BY DEF WeightOf, SumOf
  <2>5. Len(stack) = 0 /\ 1 .. Len(stack) = {}
    OBVIOUS
  <2> HIDE DEF w
  <2>6. ASSUME NEW S \in SUBSET All, Clique(Conflicting, S)
        PROVE  SumOf(w, S) <= best_weight
    <3>1. PICK M \in SUBSET All : S \subseteq M /\ Maximal(Conflicting, All, M)
      BY <2>2, <2>6, MaximalAbove
    <3>2. ~(SumOf(w, M) > best_weight)
      BY <2>1, <2>5, <3>1 DEF AllAhead
    <3>3. /\ \A T \in SUBSET M : SumOf(w, T) \in Nat /\ SumOf(w, T) <= SumOf(w, M)
      BY <2>2, SumOfPart
    <3>4. SumOf(w, S) \in Nat /\ SumOf(w, M) \in Nat /\ SumOf(w, S) <= SumOf(w, M)
      BY <3>1, <3>3
    <3>5. best_weight \in Nat
      BY <2>1 DEF BestOK
    <3>6. QED BY <3>2, <3>4, <3>5
  <2>7. Clique(Conflicting, ToSet(best_set)) /\ best_weight = SumOf(w, ToSet(best_set))
    BY <2>1 DEF BestOK
  <2>8. QED BY <2>2, <2>3, <2>4, <2>6, <2>7
<1>2. QED BY <1>1, Invariant, PTL
=============================================================================
