----------------------- MODULE TableMergeGraphProofs -----------------------
(***************************************************************************)
(* For any programs, any order of the dictionary the search goes over and  *)
(* any number of compilations: a shared number stands for one table of     *)
(* each program, with keys of one kind; as many tables are shared as can   *)
(* be; the instance file, read back, is the graph that was meant; and what *)
(* the solver picks can be shared.                                         *)
(*                                                                         *)
(* Two assumptions carry this.  The numbers of production's tables end     *)
(* below FirstFresh, where those of testing's own nodes begin; nothing     *)
(* else keeps the two apart.  And no two production tables are each        *)
(* directly behind the other, so that a pair is opposed one way round      *)
(* only, has one line in the file, and is listed once on each side.        *)
(***************************************************************************)
EXTENDS TableMergeGraph, Lemmas

\* ReuseMatched with what makes it inductive: types, and that the numbers which
\* are not production's lie between FirstFresh and the next fresh one.
Typed ==
  /\ prod \in ProductionPrograms /\ test \in TestingPrograms
  /\ id \in Seq(Nat) /\ reuse \in Seq(Names(prod))
  /\ fresh \in Nat /\ fresh >= FirstFresh
  /\ Len(id) \in 0 .. Len(test.tables)

OwnNumbers ==
  \A i \in 1 .. Len(id) : id[i] \in Names(prod) \/ id[i] \in FirstFresh .. fresh - 1

IInv == Typed /\ OwnNumbers /\ ReuseMatched

\* Before anything is numbered nothing can be wrong with the numbers.
LEMMA InitInv == Init => IInv
BY FirstFreshAssumption, ProgramAssumption
   DEF Init, IInv, Typed, OwnNumbers, ReuseMatched, Names

\* Production's numbers are below FirstFresh.
LEMMA NamesBelowFresh ==
  ASSUME Typed
  PROVE  /\ Names(prod) \subseteq Nat
         /\ \A r \in Names(prod) : r < FirstFresh
         /\ Len(prod.tables) \in Nat /\ Len(test.tables) \in Nat
BY FirstFreshAssumption, ProgramAssumption DEF Typed, Names

\* Sharing a production table that is not taken keeps the numbering matched.
LEMMA ReuseStep ==
  ASSUME IInv, ReuseTable
  PROVE  IInv'
<1> USE DEF IInv
<1>1. PICK r \in Reusable(Current) : id' = Append(id, r) /\ reuse' = Append(reuse, r)
  BY DEF ReuseTable
<1>2. /\ r \in Names(prod)
      /\ SameKey(test.tables[Len(id) + 1], prod.tables[r])
      /\ \A k \in 1 .. Len(reuse) : reuse[k] # r
  BY DEF Reusable, Current, ToSet, Typed
<1>3. prod' = prod /\ test' = test /\ fresh' = fresh /\ Len(id) < Len(test.tables)
  BY DEF ReuseTable
<1>4. Names(prod)' = Names(prod)
  BY <1>3 DEF Names
<1>5. /\ id \in Seq(Nat) /\ r \in Nat /\ reuse \in Seq(Names(prod))
      /\ Len(test.tables) \in Nat
  BY <1>2, NamesBelowFresh DEF Typed
<1>6. Typed'
  <2>1. id' \in Seq(Nat) /\ reuse' \in Seq(Names(prod)') /\ Len(id') = Len(id) + 1
    BY <1>1, <1>2, <1>4, <1>5
  <2> QED BY <2>1, <1>3, <1>5 DEF Typed
<1>7. /\ Len(id') = Len(id) + 1 /\ id'[Len(id) + 1] = r
      /\ \A i \in 1 .. Len(id) : id'[i] = id[i]
      /\ Len(reuse') = Len(reuse) + 1 /\ reuse'[Len(reuse) + 1] = r
      /\ \A k \in 1 .. Len(reuse) : reuse'[k] = reuse[k]
      /\ Len(id) \in Nat /\ Len(reuse) \in Nat
  BY <1>1, <1>5
<1>8. OwnNumbers'
  BY <1>7, <1>4, <1>3, <1>2 DEF OwnNumbers
<1>9. \A i \in 1 .. Len(id) : id[i] # r
  BY <1>2 DEF ReuseMatched
<1>10. ReuseMatched'
  <2>1. \A i, j \in 1 .. Len(id') : id'[i] = id'[j] => i = j
    <3>1. \A i, j \in 1 .. Len(id) : id'[i] = id'[j] => i = j
      BY <1>7 DEF ReuseMatched
    <3>2. \A i \in 1 .. Len(id) : id'[i] # id'[Len(id) + 1]
      BY <1>7, <1>9
    <3>3. 1 .. Len(id') = 1 .. Len(id) \cup {Len(id) + 1}
      BY <1>7
    <3> QED BY <3>1, <3>2, <3>3
  <2>2. \A k, l \in 1 .. Len(reuse') : reuse'[k] = reuse'[l] => k = l
    <3>1. \A k, l \in 1 .. Len(reuse) : reuse'[k] = reuse'[l] => k = l
      BY <1>7 DEF ReuseMatched
    <3>2. \A k \in 1 .. Len(reuse) : reuse'[k] # reuse'[Len(reuse) + 1]
      BY <1>7, <1>2
    <3>3. 1 .. Len(reuse') = 1 .. Len(reuse) \cup {Len(reuse) + 1}
      BY <1>7
    <3> QED BY <3>1, <3>2, <3>3
  <2>3. ASSUME NEW i \in 1 .. Len(id'), id'[i] \in Names(prod)'
        PROVE  /\ \E k \in 1 .. Len(reuse') : reuse'[k] = id'[i]
               /\ SameKey(test'.tables[i], prod'.tables[id'[i]])
    <3>1. CASE i = Len(id) + 1
      BY <3>1, <1>7, <1>2, <1>3
    <3>2. CASE i \in 1 .. Len(id)
      <4>1. PICK k \in 1 .. Len(reuse) : reuse[k] = id[i]
        BY <3>2, <2>3, <1>7, <1>4 DEF ReuseMatched
      <4>2. k \in 1 .. Len(reuse') /\ reuse'[k] = id'[i]
        BY <4>1, <3>2, <1>7
      <4>3. SameKey(test.tables[i], prod.tables[id[i]])
        BY <3>2, <2>3, <1>7, <1>4 DEF ReuseMatched
      <4> QED BY <4>2, <4>3, <3>2, <1>7, <1>3
    <3> QED BY <3>1, <3>2, <2>3, <1>7
  <2>4. ASSUME NEW k \in 1 .. Len(reuse')
        PROVE  \E i \in 1 .. Len(id') : id'[i] = reuse'[k]
    <3>1. CASE k = Len(reuse) + 1
      BY <3>1, <1>7
    <3>2. CASE k \in 1 .. Len(reuse)
      <4>1. PICK i \in 1 .. Len(id) : id[i] = reuse[k]
        BY <3>2 DEF ReuseMatched
      <4>2. i \in 1 .. Len(id') /\ id'[i] = reuse'[k]
        BY <4>1, <3>2, <1>7
      <4> QED BY <4>2
    <3> QED BY <3>1, <3>2, <2>4, <1>7
  <2>5. /\ \A i \in 1 .. Len(id') : id'[i] \in Names(prod)' =>
             /\ \E k \in 1 .. Len(reuse') : reuse'[k] = id'[i]
             /\ SameKey(test'.tables[i], prod'.tables[id'[i]])
        /\ \A k \in 1 .. Len(reuse') : \E i \in 1 .. Len(id') : id'[i] = reuse'[k]
    BY <2>3, <2>4
  <2> QED BY <2>1, <2>2, <2>5 DEF ReuseMatched
<1> QED BY <1>6, <1>8, <1>10

\* A number of its own is new, and none of production's.
LEMMA FreshStep ==
  ASSUME IInv, NumberFresh
  PROVE  IInv'
<1> USE DEF IInv
<1>1. /\ id' = Append(id, fresh) /\ fresh' = fresh + 1 /\ reuse' = reuse
      /\ prod' = prod /\ test' = test /\ Len(id) < Len(test.tables)
  BY DEF NumberFresh
<1>2. Names(prod)' = Names(prod)
  BY <1>1 DEF Names
<1>3. /\ id \in Seq(Nat) /\ fresh \in Nat /\ Len(test.tables) \in Nat
      /\ FirstFresh \in Nat /\ fresh >= FirstFresh /\ Names(prod) \subseteq Nat
  BY NamesBelowFresh, FirstFreshAssumption DEF Typed
<1>4. fresh \notin Names(prod)
  BY <1>3, NamesBelowFresh
<1>5. /\ Len(id') = Len(id) + 1 /\ id'[Len(id) + 1] = fresh
      /\ \A i \in 1 .. Len(id) : id'[i] = id[i]
      /\ Len(id) \in Nat /\ id' \in Seq(Nat)
      /\ 1 .. Len(id') = 1 .. Len(id) \cup {Len(id) + 1}
  BY <1>1, <1>3
<1>6. Typed'
  BY <1>1, <1>2, <1>3, <1>5 DEF Typed
<1>7. \A i \in 1 .. Len(id) : id[i] # fresh
  BY <1>3, <1>4, NamesBelowFresh DEF OwnNumbers
<1>8. OwnNumbers'
  <2>1. ASSUME NEW i \in 1 .. Len(id')
        PROVE  id'[i] \in Names(prod) \/ id'[i] \in FirstFresh .. fresh
    <3>1. CASE i = Len(id) + 1
      BY <3>1, <1>5, <1>3
    <3>2. CASE i \in 1 .. Len(id)
      <4>1. id[i] \in Names(prod) \/ id[i] \in FirstFresh .. fresh - 1
        BY <3>2 DEF OwnNumbers
      <4>2. FirstFresh .. fresh - 1 \subseteq FirstFresh .. fresh
        BY <1>3
      <4>3. id'[i] = id[i]
        BY <3>2, <1>5
      <4> QED BY <4>1, <4>2, <4>3
    <3> QED BY <3>1, <3>2, <2>1, <1>5
  <2>2. fresh' - 1 = fresh
    BY <1>1, <1>3
  <2> QED BY <2>1, <2>2, <1>2 DEF OwnNumbers
<1>9. ReuseMatched'
  <2>1. \A i, j \in 1 .. Len(id') : id'[i] = id'[j] => i = j
    <3>1. \A i, j \in 1 .. Len(id) : id'[i] = id'[j] => i = j
      BY <1>5 DEF ReuseMatched
    <3>2. \A i \in 1 .. Len(id) : id'[i] # id'[Len(id) + 1]
      BY <1>5, <1>7, <1>3
    <3> QED BY <3>1, <3>2, <1>5
  <2>2. \A k, l \in 1 .. Len(reuse') : reuse'[k] = reuse'[l] => k = l
    BY <1>1 DEF ReuseMatched
  <2>3. \A i \in 1 .. Len(id') : id'[i] \in Names(prod)' =>
          /\ \E k \in 1 .. Len(reuse') : reuse'[k] = id'[i]
          /\ SameKey(test'.tables[i], prod'.tables[id'[i]])
    <3>1. ASSUME NEW i \in 1 .. Len(id'), id'[i] \in Names(prod)
          PROVE  i \in 1 .. Len(id) /\ id'[i] = id[i]
      BY <3>1, <1>5, <1>4
    <3> QED BY <3>1, <1>1, <1>2 DEF ReuseMatched
  <2>4. \A k \in 1 .. Len(reuse') : \E i \in 1 .. Len(id') : id'[i] = reuse'[k]
    BY <1>1, <1>5 DEF ReuseMatched
  <2> QED BY <2>1, <2>2, <2>3, <2>4 DEF ReuseMatched
<1> QED BY <1>6, <1>8, <1>9

\* A new compilation numbers from nothing.
LEMMA RecompileStep ==
  ASSUME IInv, Recompile
  PROVE  IInv'
<1>1. /\ prod' = prod /\ test' = test /\ id' = <<>> /\ reuse' = <<>>
      /\ fresh' = FirstFresh
  BY DEF Recompile, Begin
<1>2. Len(test.tables) \in Nat /\ FirstFresh \in Nat
  BY NamesBelowFresh, FirstFreshAssumption DEF IInv
<1>3. Typed'
  BY <1>1, <1>2 DEF IInv, Typed, Names
<1> QED BY <1>1, <1>3 DEF IInv, OwnNumbers, ReuseMatched

\* No other step touches the numbering.
LEMMA NumberingKept ==
  ASSUME IInv, UNCHANGED <<prod, test, id, fresh, reuse>>
  PROVE  IInv'
BY DEF IInv, Typed, OwnNumbers, ReuseMatched, Names

-----------------------------------------------------------------------------
\* The lists of edges between numbers of production.
EdgeLists == Seq(Names(prod) \X Names(prod))

\* What a turn of the inner loop makes of the list.
NewEdge(fs, u, v) ==
  IF Opposed(u, v) /\ <<u, v>> \notin ToSet(fs) THEN Append(fs, <<u, v>>) ELSE fs

\* An edge is there afterwards if it was there, or is the new one.
LEMMA NewEdgeAdds ==
  ASSUME NEW fs \in EdgeLists, NEW u \in Names(prod), NEW v \in Names(prod)
  PROVE  /\ NewEdge(fs, u, v) \in EdgeLists
         /\ ToSet(NewEdge(fs, u, v)) = ToSet(fs) \cup {e \in {<<u, v>>} : Opposed(u, v)}
         /\ NoDuplicates(fs) => NoDuplicates(NewEdge(fs, u, v))
<1> DEFINE P == Names(prod) \X Names(prod)
           e == <<u, v>>
<1>1. fs \in Seq(P) /\ e \in P
  BY DEF EdgeLists
<1> HIDE DEF P, e
<1>2. /\ ToSet(Append(fs, e)) = ToSet(fs) \cup {e}
      /\ NoDuplicates(fs) /\ e \notin ToSet(fs) => NoDuplicates(Append(fs, e))
  BY <1>1, AppendMembers
<1>3. Append(fs, e) \in Seq(P)
  BY <1>1
<1>4. CASE Opposed(u, v) /\ e \notin ToSet(fs)
  <2>1. NewEdge(fs, u, v) = Append(fs, e)
    BY <1>4 DEF NewEdge, e
  <2>2. {x \in {<<u, v>>} : Opposed(u, v)} = {e}
    BY <1>4 DEF e
  <2>3. QED BY <2>1, <2>2, <1>2, <1>3, <1>4 DEF EdgeLists, P
<1>5. CASE ~(Opposed(u, v) /\ e \notin ToSet(fs))
  <2>1. NewEdge(fs, u, v) = fs
    BY <1>5 DEF NewEdge, e
  <2>2. {x \in {<<u, v>>} : Opposed(u, v)} \subseteq ToSet(fs)
    BY <1>5 DEF e
  <2>3. QED BY <2>1, <2>2
<1>6. QED BY <1>4, <1>5

\* The list after each turn of the inner loop.
InnerTrace(f, start, u) ==
  /\ f \in [0 .. Len(reuse) -> EdgeLists]
  /\ f[0] = start /\ f[Len(reuse)] = EdgesFrom(start, u)
  /\ \A j \in 1 .. Len(reuse) : f[j] = NewEdge(f[j - 1], u, reuse[j])

\* The loop goes through such values, whatever it is given.
LEMMA EdgesFromSteps ==
  ASSUME reuse \in Seq(Names(prod)), NEW start \in EdgeLists, NEW u \in Names(prod)
  PROVE  \E f : InnerTrace(f, start, u)
<1> DEFINE n == Len(reuse)
           T == EdgeLists
           Eq(e) == e = [U \in SUBSET DOMAIN reuse |->
                           IF U = {} THEN start
                           ELSE LET x == Max(U) IN NewEdge(e[U \ {x}], u, reuse[x])]
           H == CHOOSE e : Eq(e)
           step == [p \in T \X (1 .. n) |-> NewEdge(p[1], u, reuse[p[2]])]
<1>1. EdgesFrom(start, u) = H[DOMAIN reuse]
  BY DEF EdgesFrom, NewEdge, FoldLeft, MapThenFoldSet
<1>2. n \in Nat /\ DOMAIN reuse = 1 .. n
  OBVIOUS
<1>3. start \in T
  OBVIOUS
<1>4. step \in [T \X (1 .. n) -> T]
  BY <1>2, NewEdgeAdds
<1>5. \E e : Eq(e)
  <2>1. PICK e : FoldsSteps(e, n, T, start, step)
    <3> HIDE DEF step, n, T
    <3>1. QED BY <1>2, <1>3, <1>4, StepsExist
  <2>2. \A U \in SUBSET (1 .. n) : U # {} => Max(U) \in 1 .. n /\ U \ {Max(U)} \in SUBSET (1 .. n)
    BY <1>2, MaxIsMember
  <2>3. Eq(e)
    <3> HIDE DEF T, n
    <3>1. e = [U \in SUBSET (1 .. n) |-> e[U]]
      BY <2>1 DEF FoldsSteps
    <3>2. ASSUME NEW U \in SUBSET (1 .. n), U # {}
          PROVE  e[U] = NewEdge(e[U \ {Max(U)}], u, reuse[Max(U)])
      <4>1. e[U \ {Max(U)}] \in T /\ Max(U) \in 1 .. n
        BY <2>1, <2>2, <3>2 DEF FoldsSteps
      <4>2. e[U] = step[<<e[U \ {Max(U)}], Max(U)>>]
        BY <2>1, <3>2 DEF FoldsSteps
      <4>3. QED BY <4>1, <4>2
    <3>3. e[{}] = start
      BY <2>1 DEF FoldsSteps
    <3> HIDE DEF step
    <3>4. QED BY <1>2, <3>1, <3>2, <3>3
  <2>4. QED BY <2>3
<1>6. Eq(H)
  <2> HIDE DEF Eq
  <2>1. QED BY <1>5
<1> HIDE DEF H
<1>7. Follows(H, n, T, start, step)
  <2> HIDE DEF T, n
  <2>1. H[{}] = start
    BY <1>6
  <2>2. ASSUME NEW j \in 1 .. n, H[1 .. j - 1] \in T
        PROVE  H[1 .. j] = step[<<H[1 .. j - 1], j>>]
    <3>1. /\ 1 .. j \in SUBSET (1 .. n) /\ 1 .. j # {}
          /\ Max(1 .. j) = j /\ (1 .. j) \ {j} = 1 .. j - 1
      BY <1>2, PrefixMax
    <3>2. H[1 .. j] = NewEdge(H[1 .. j - 1], u, reuse[j])
      BY <1>2, <1>6, <3>1
    <3>3. QED BY <2>2, <3>2
  <2> HIDE DEF step, Eq
  <2>3. QED BY <2>1, <2>2 DEF Follows
<1>8. PICK f : Trace(f, H, n, T, start, step)
  <2> HIDE DEF step, n, T, Eq
  <2>1. QED BY <1>2, <1>3, <1>4, <1>7, StepsTaken
<1>9. f \in [0 .. n -> T] /\ f[0] = start /\ f[n] = H[1 .. n]
  BY <1>8 DEF Trace
<1>10. ASSUME NEW j \in 1 .. n PROVE f[j] = NewEdge(f[j - 1], u, reuse[j])
  <2> HIDE DEF T, n
  <2>1. j - 1 \in 0 .. n
    BY <1>2
  <2>2. f[j - 1] \in T
    BY <2>1, <1>9
  <2>3. f[j] = step[<<f[j - 1], j>>]
    BY <1>8 DEF Trace
  <2>4. QED BY <2>2, <2>3
<1>11. InnerTrace(f, start, u)
  BY <1>1, <1>2, <1>9, <1>10 DEF InnerTrace
<1>12. QED BY <1>11

\* The edges from u to the first k of the shared tables.
OpposedTo(u, k) == {e \in {<<u, reuse[j]>> : j \in 1 .. k} : Opposed(u, e[2])}

\* One table more.
LEMMA OpposedToStep ==
  ASSUME NEW u, NEW k \in Nat
  PROVE  /\ OpposedTo(u, 0) = {}
         /\ OpposedTo(u, k + 1)
              = OpposedTo(u, k) \cup {e \in {<<u, reuse[k + 1]>>} : Opposed(u, reuse[k + 1])}
<1>1. 1 .. 0 = {} /\ 1 .. k + 1 = 1 .. k \cup {k + 1}
  OBVIOUS
<1>2. \A v : <<u, v>>[2] = v
  OBVIOUS
<1>3. QED BY <1>1, <1>2 DEF OpposedTo

\* The inner loop adds the edges from u to all shared tables, each once.
LEMMA EdgesFromAdds ==
  ASSUME reuse \in Seq(Names(prod)), NEW es \in EdgeLists, NEW u \in Names(prod)
  PROVE  /\ EdgesFrom(es, u) \in EdgeLists
         /\ ToSet(EdgesFrom(es, u)) = ToSet(es) \cup OpposedTo(u, Len(reuse))
         /\ NoDuplicates(es) => NoDuplicates(EdgesFrom(es, u))
<1>1. PICK f : InnerTrace(f, es, u)
  BY EdgesFromSteps
<1>2. /\ f \in [0 .. Len(reuse) -> EdgeLists]
      /\ f[0] = es /\ f[Len(reuse)] = EdgesFrom(es, u)
      /\ \A j \in 1 .. Len(reuse) : f[j] = NewEdge(f[j - 1], u, reuse[j])
  BY <1>1 DEF InnerTrace
<1>3. Len(reuse) \in Nat /\ \A j \in 1 .. Len(reuse) : reuse[j] \in Names(prod)
  OBVIOUS
<1> DEFINE Good(k) == /\ ToSet(f[k]) = ToSet(es) \cup OpposedTo(u, k)
                      /\ NoDuplicates(es) => NoDuplicates(f[k])
           A == {k \in 0 .. Len(reuse) : Good(k)}
<1>4. 0 \in A
  BY <1>2, <1>3, OpposedToStep
<1>5. ASSUME NEW k \in 0 .. Len(reuse) - 1, k \in A PROVE k + 1 \in A
  <2>1. /\ k \in 0 .. Len(reuse) /\ k \in Nat /\ k + 1 \in 1 .. Len(reuse)
        /\ k + 1 \in 0 .. Len(reuse) /\ (k + 1) - 1 = k
    BY <1>3
  <2>2. f[k] \in EdgeLists /\ f[k + 1] = NewEdge(f[k], u, reuse[k + 1]) /\ reuse[k + 1] \in Names(prod)
    BY <1>2, <1>3, <2>1
  <2> DEFINE fs == f[k]
             v == reuse[k + 1]
  <2>3. fs \in EdgeLists /\ v \in Names(prod)
    BY <2>2
  <2>4. Good(k)
    BY <1>5
  <2> HIDE DEF fs, v
  <2>5. /\ ToSet(NewEdge(fs, u, v)) = ToSet(fs) \cup {e \in {<<u, v>>} : Opposed(u, v)}
        /\ NoDuplicates(fs) => NoDuplicates(NewEdge(fs, u, v))
    BY <2>3, NewEdgeAdds
  <2>6. OpposedTo(u, k + 1) = OpposedTo(u, k) \cup {e \in {<<u, v>>} : Opposed(u, v)}
    BY <2>1, OpposedToStep DEF v
  <2>7. f[k + 1] = NewEdge(fs, u, v)
    BY <2>2 DEF fs, v
  <2>8. /\ ToSet(fs) = ToSet(es) \cup OpposedTo(u, k)
        /\ NoDuplicates(es) => NoDuplicates(fs)
    BY <2>4 DEF fs
  <2>9. ToSet(f[k + 1]) = ToSet(es) \cup OpposedTo(u, k + 1)
    BY <2>5, <2>6, <2>7, <2>8
  <2>10. NoDuplicates(es) => NoDuplicates(f[k + 1])
    BY <2>5, <2>7, <2>8
  <2>11. QED BY <2>1, <2>9, <2>10
<1>6. \A k \in 0 .. Len(reuse) : k \in A
  <2> HIDE DEF A
  <2>1. QED BY <1>3, <1>4, <1>5, UpTo
<1>7. Len(reuse) \in A /\ Len(reuse) \in 0 .. Len(reuse)
  <2> HIDE DEF A
  <2>1. QED BY <1>3, <1>6
<1>8. f[Len(reuse)] \in EdgeLists
  BY <1>2, <1>7
<1>9. QED BY <1>2, <1>7, <1>8

\* Whatever the list, the inner loop makes another.
LEMMA EdgesFromShape ==
  ASSUME reuse \in Seq(Names(prod)), NEW es \in EdgeLists, NEW u \in Names(prod)
  PROVE  EdgesFrom(es, u) \in EdgeLists
BY EdgesFromAdds

\* The list after each turn of the outer loop.
OuterTrace(f) ==
  /\ f \in [0 .. Len(reuse) -> EdgeLists]
  /\ f[0] = <<>> /\ f[Len(reuse)] = MergedEdges
  /\ \A j \in 1 .. Len(reuse) : f[j] = EdgesFrom(f[j - 1], reuse[j])

\* The loop goes through such values, whatever it is given.
LEMMA MergedEdgesSteps ==
  ASSUME reuse \in Seq(Names(prod))
  PROVE  \E f : OuterTrace(f)
<1> DEFINE n == Len(reuse)
           T == EdgeLists
           Eq(e) == e = [U \in SUBSET DOMAIN reuse |->
                           IF U = {} THEN <<>>
                           ELSE LET x == Max(U) IN EdgesFrom(e[U \ {x}], reuse[x])]
           H == CHOOSE e : Eq(e)
           step == [p \in T \X (1 .. n) |-> EdgesFrom(p[1], reuse[p[2]])]
<1>1. MergedEdges = H[DOMAIN reuse]
  BY DEF MergedEdges, FoldLeft, MapThenFoldSet
<1>2. n \in Nat /\ DOMAIN reuse = 1 .. n
  OBVIOUS
<1>3. <<>> \in T
  BY DEF EdgeLists
<1>4. step \in [T \X (1 .. n) -> T]
  BY <1>2, EdgesFromShape
<1>5. \E e : Eq(e)
  <2>1. PICK e : FoldsSteps(e, n, T, <<>>, step)
    <3> HIDE DEF step, n, T
    <3>1. QED BY <1>2, <1>3, <1>4, StepsExist
  <2>2. \A U \in SUBSET (1 .. n) : U # {} => Max(U) \in 1 .. n /\ U \ {Max(U)} \in SUBSET (1 .. n)
    BY <1>2, MaxIsMember
  <2>3. Eq(e)
    <3> HIDE DEF T, n
    <3>1. e = [U \in SUBSET (1 .. n) |-> e[U]]
      BY <2>1 DEF FoldsSteps
    <3>2. ASSUME NEW U \in SUBSET (1 .. n), U # {}
          PROVE  e[U] = EdgesFrom(e[U \ {Max(U)}], reuse[Max(U)])
      <4>1. e[U \ {Max(U)}] \in T /\ Max(U) \in 1 .. n
        BY <2>1, <2>2, <3>2 DEF FoldsSteps
      <4>2. e[U] = step[<<e[U \ {Max(U)}], Max(U)>>]
        BY <2>1, <3>2 DEF FoldsSteps
      <4>3. QED BY <4>1, <4>2
    <3>3. e[{}] = <<>>
      BY <2>1 DEF FoldsSteps
    <3> HIDE DEF step
    <3>4. QED BY <1>2, <3>1, <3>2, <3>3
  <2>4. QED BY <2>3
<1>6. Eq(H)
  <2> HIDE DEF Eq
  <2>1. QED BY <1>5
<1> HIDE DEF H
<1>7. Follows(H, n, T, <<>>, step)
  <2> HIDE DEF T, n
  <2>1. H[{}] = <<>>
    BY <1>6
  <2>2. ASSUME NEW j \in 1 .. n, H[1 .. j - 1] \in T
        PROVE  H[1 .. j] = step[<<H[1 .. j - 1], j>>]
    <3>1. /\ 1 .. j \in SUBSET (1 .. n) /\ 1 .. j # {}
          /\ Max(1 .. j) = j /\ (1 .. j) \ {j} = 1 .. j - 1
      BY <1>2, PrefixMax
    <3>2. H[1 .. j] = EdgesFrom(H[1 .. j - 1], reuse[j])
      BY <1>2, <1>6, <3>1
    <3>3. QED BY <2>2, <3>2
  <2> HIDE DEF step, Eq
  <2>3. QED BY <2>1, <2>2 DEF Follows
<1>8. PICK f : Trace(f, H, n, T, <<>>, step)
  <2> HIDE DEF step, n, T, Eq
  <2>1. QED BY <1>2, <1>3, <1>4, <1>7, StepsTaken
<1>9. f \in [0 .. n -> T] /\ f[0] = <<>> /\ f[n] = H[1 .. n]
  BY <1>8 DEF Trace
<1>10. ASSUME NEW j \in 1 .. n PROVE f[j] = EdgesFrom(f[j - 1], reuse[j])
  <2> HIDE DEF T, n
  <2>1. j - 1 \in 0 .. n
    BY <1>2
  <2>2. f[j - 1] \in T
    BY <2>1, <1>9
  <2>3. f[j] = step[<<f[j - 1], j>>]
    BY <1>8 DEF Trace
  <2>4. QED BY <2>2, <2>3
<1>11. OuterTrace(f)
  BY <1>1, <1>2, <1>9, <1>10 DEF OuterTrace
<1>12. QED BY <1>11

\* The edges from the first k of the shared tables to all of them.
OpposedFrom(k) == UNION {OpposedTo(reuse[i], Len(reuse)) : i \in 1 .. k}

\* The two loops list every opposed pair of shared tables, each once.
LEMMA MergedEdgesListed ==
  ASSUME reuse \in Seq(Names(prod))
  PROVE  /\ MergedEdges \in EdgeLists
         /\ ToSet(MergedEdges) = OpposedFrom(Len(reuse))
         /\ NoDuplicates(MergedEdges)
<1>1. PICK f : OuterTrace(f)
  BY MergedEdgesSteps
<1>2. /\ f \in [0 .. Len(reuse) -> EdgeLists]
      /\ f[0] = <<>> /\ f[Len(reuse)] = MergedEdges
      /\ \A j \in 1 .. Len(reuse) : f[j] = EdgesFrom(f[j - 1], reuse[j])
  BY <1>1 DEF OuterTrace
<1>3. Len(reuse) \in Nat /\ \A j \in 1 .. Len(reuse) : reuse[j] \in Names(prod)
  OBVIOUS
<1> DEFINE Good(k) == ToSet(f[k]) = OpposedFrom(k) /\ NoDuplicates(f[k])
           A == {k \in 0 .. Len(reuse) : Good(k)}
<1>4. 0 \in A
  <2>1. ToSet(<<>>) = {} /\ NoDuplicates(<<>>)
    BY DEF ToSet, NoDuplicates
  <2>2. 1 .. 0 = {}
    OBVIOUS
  <2>3. OpposedFrom(0) = {}
    BY <2>2 DEF OpposedFrom
  <2>4. f[0] = <<>> /\ 0 \in 0 .. Len(reuse)
    BY <1>2, <1>3
  <2>5. Good(0)
    BY <2>1, <2>3, <2>4, Zenon
  <2>6. QED BY <2>4, <2>5
<1>5. ASSUME NEW k \in 0 .. Len(reuse) - 1, k \in A PROVE k + 1 \in A
  <2>1. /\ k \in 0 .. Len(reuse) /\ k \in Nat /\ k + 1 \in 1 .. Len(reuse)
        /\ k + 1 \in 0 .. Len(reuse) /\ (k + 1) - 1 = k
    BY <1>3
  <2> DEFINE fs == f[k]
             u == reuse[k + 1]
  <2>2. fs \in EdgeLists /\ f[k + 1] = EdgesFrom(fs, u) /\ u \in Names(prod)
    BY <1>2, <1>3, <2>1
  <2>3. ToSet(fs) = OpposedFrom(k) /\ NoDuplicates(fs)
    BY <1>5
  <2> HIDE DEF fs
  <2>4. /\ ToSet(EdgesFrom(fs, u)) = ToSet(fs) \cup OpposedTo(u, Len(reuse))
        /\ NoDuplicates(fs) => NoDuplicates(EdgesFrom(fs, u))
    <3> HIDE DEF u
    <3>1. QED BY <2>2, EdgesFromAdds
  <2>5. OpposedFrom(k + 1) = OpposedFrom(k) \cup OpposedTo(u, Len(reuse))
    <3>1. 1 .. k + 1 = 1 .. k \cup {k + 1}
      BY <2>1
    <3>2. QED BY <3>1 DEF OpposedFrom
  <2> HIDE DEF u
  <2>6. QED BY <2>1, <2>2, <2>3, <2>4, <2>5
<1>6. \A k \in 0 .. Len(reuse) : k \in A
  <2> HIDE DEF A
  <2>1. QED BY <1>3, <1>4, <1>5, UpTo
<1>7. Len(reuse) \in A /\ Len(reuse) \in 0 .. Len(reuse)
  <2> HIDE DEF A
  <2>1. QED BY <1>3, <1>6
<1>8. f[Len(reuse)] \in EdgeLists
  BY <1>2, <1>7
<1>9. QED BY <1>2, <1>7, <1>8

\* So an edge is listed if and only if its ends are shared and opposed.
LEMMA MergedEdgesMeant ==
  ASSUME reuse \in Seq(Names(prod)), NEW u, NEW v
  PROVE  <<u, v>> \in ToSet(MergedEdges)
           <=> u \in ToSet(reuse) /\ v \in ToSet(reuse) /\ Opposed(u, v)
<1>1. \A w : w \in ToSet(reuse) <=> \E i \in 1 .. Len(reuse) : w = reuse[i]
  BY DEF ToSet
<1>2. \A i : <<u, v>> \in OpposedTo(reuse[i], Len(reuse))
               <=> /\ u = reuse[i] /\ Opposed(u, v)
                   /\ \E j \in 1 .. Len(reuse) : v = reuse[j]
  BY DEF OpposedTo
<1>3. <<u, v>> \in ToSet(MergedEdges)
        <=> \E i \in 1 .. Len(reuse) : <<u, v>> \in OpposedTo(reuse[i], Len(reuse))
  BY MergedEdgesListed DEF OpposedFrom
<1>4. QED BY <1>1, <1>2, <1>3
-----------------------------------------------------------------------------
\* The number is that of a table of each program, and w is worth both.
WorthBoth(u, w) ==
  /\ w >= 0 /\ w >= prod.tables[u].size
  /\ \A s \in 1 .. Len(id) : id[s] = u => w >= test.tables[s].size

\* Neighbours in opposite orders, whichever of the two comes first in testing.
Clashing(u, v) == Opposed(u, v) \/ Opposed(v, u)

\* Every testing table has its number once the numbering is over.
Numbered == pc # "number" => Len(id) = Len(test.tables)

\* The edges are the opposed pairs of shared tables, each once.
EdgesMeant ==
  pc \in {"write", "solve", "read"} =>
    /\ edges \in EdgeLists /\ NoDuplicates(edges)
    /\ \A u, v \in Names(prod) :
         <<u, v>> \in ToSet(edges)
           <=> u \in ToSet(reuse) /\ v \in ToSet(reuse) /\ Opposed(u, v)

\* The file numbers the shared tables by their places in the list, and has a
\* line with the weight of each and one for each edge.
FileMeant ==
  pc \in {"solve", "read"} =>
    /\ IsFile(file)
    /\ file.n = Len(reuse) /\ file.m = Len(edges)
    /\ Len(file.nlines) = Len(reuse) /\ Len(file.elines) = Len(edges)
    /\ \A k \in 1 .. Len(reuse) : /\ file.nlines[k][1] = k
                                  /\ WorthBoth(reuse[k], file.nlines[k][2])
    /\ \A k \in 1 .. Len(edges) :
         edges[k] = <<reuse[file.elines[k][1]], reuse[file.elines[k][2]]>>

\* Nothing is picked before the solver has run; then what is picked is a
\* set without a clash to which nothing can be added.
PickedMeant ==
  /\ pc \in {"number", "write", "solve"} => picked = {}
  /\ pc = "read" /\ picked # {} =>
       /\ picked \subseteq 0 .. Len(reuse) - 1
       /\ \A u, v \in picked : ~Clashing(reuse[u + 1], reuse[v + 1])
       /\ \A u \in (0 .. Len(reuse) - 1) \ picked :
            \E v \in picked : Clashing(reuse[u + 1], reuse[v + 1])

\* Of the kind of each testing table met so far, as many are shared as can be.
SharedOf(key) == {r \in ToSet(reuse) : r \in Keyed(prod, key)}
MetOf(key) == {i \in 1 .. Len(id) : i \in Keyed(test, key)}

AllShared ==
  \A i \in Names(test) : HasKey(test.tables[i]) =>
    LET key == Key(test.tables[i]) IN
    Cardinality(SharedOf(key))
      = Least(Cardinality(Keyed(prod, key)), Cardinality(MetOf(key)))

Whole == IInv /\ Numbered /\ EdgesMeant /\ FileMeant /\ PickedMeant /\ AllShared

\* What a shared number is: its place in the list, and its table in testing.
LEMMA SharedPlace ==
  ASSUME IInv, NEW k \in 1 .. Len(reuse)
  PROVE  /\ IndexOf(reuse[k]) = k
         /\ reuse[k] \in Names(prod)
         /\ TestingName(reuse[k]) \in 1 .. Len(id)
         /\ \A s \in 1 .. Len(id) : id[s] = reuse[k] => s = TestingName(reuse[k])
<1>1. /\ reuse \in Seq(Names(prod))
      /\ \A i \in 1 .. Len(reuse) : reuse[i] = reuse[k] => i = k
  BY DEF IInv, Typed, ReuseMatched
<1>2. IndexOf(reuse[k]) \in 1 .. Len(reuse) /\ reuse[IndexOf(reuse[k])] = reuse[k]
  BY DEF IndexOf
<1>3. IndexOf(reuse[k]) = k
  BY <1>1, <1>2
<1>4. /\ \E s \in 1 .. Len(id) : id[s] = reuse[k]
      /\ \A s, t \in 1 .. Len(id) : id[s] = id[t] => s = t
  BY DEF IInv, ReuseMatched
<1>5. TestingName(reuse[k]) \in 1 .. Len(id) /\ id[TestingName(reuse[k])] = reuse[k]
  BY <1>4 DEF TestingName
<1>6. QED BY <1>1, <1>3, <1>4, <1>5

\* A shared table is worth its larger copy, and at least nothing.
LEMMA TableWeightWorth ==
  ASSUME IInv, NEW k \in 1 .. Len(reuse)
  PROVE  TableWeight(reuse[k]) \in Nat /\ WorthBoth(reuse[k], TableWeight(reuse[k]))
<1> DEFINE u == reuse[k]
           a == test.tables[TestingName(u)].size
           b == prod.tables[u].size
<1>1. /\ u \in Names(prod) /\ TestingName(u) \in 1 .. Len(id)
      /\ \A s \in 1 .. Len(id) : id[s] = u => s = TestingName(u)
  BY SharedPlace
<1>2. 1 .. Len(id) \subseteq Names(test)
  <2>1. Len(id) \in 0 .. Len(test.tables) /\ Len(test.tables) \in Nat
    BY NamesBelowFresh DEF IInv, Typed
  <2>2. QED BY <2>1 DEF Names
<1>3. a \in Int /\ b \in Int
  BY <1>1, <1>2, ProgramAssumption DEF IInv, Typed, Names
<1>4. TableWeight(u) = IF Greater(a, b) < 0 THEN 1 ELSE Greater(a, b)
  BY DEF TableWeight
<1> HIDE DEF a, b
<1>5. TableWeight(u) \in Nat /\ TableWeight(u) >= a /\ TableWeight(u) >= b
  BY <1>3, <1>4 DEF Greater
<1>6. QED BY <1>1, <1>5 DEF a, b, WorthBoth

\* The file says what FileMeant asks of it.
LEMMA InstanceFileMeant ==
  ASSUME IInv, edges \in EdgeLists,
         \A k \in 1 .. Len(edges) : edges[k][1] \in ToSet(reuse) /\ edges[k][2] \in ToSet(reuse)
  PROVE  /\ IsFile(InstanceFile)
         /\ InstanceFile.n = Len(reuse) /\ InstanceFile.m = Len(edges)
         /\ Len(InstanceFile.nlines) = Len(reuse) /\ Len(InstanceFile.elines) = Len(edges)
         /\ \A k \in 1 .. Len(reuse) :
              /\ InstanceFile.nlines[k][1] = k
              /\ WorthBoth(reuse[k], InstanceFile.nlines[k][2])
         /\ \A k \in 1 .. Len(edges) :
              edges[k] = <<reuse[InstanceFile.elines[k][1]], reuse[InstanceFile.elines[k][2]]>>
<1> DEFINE nl == [i \in 1 .. Len(reuse) |-> <<IndexOf(reuse[i]), TableWeight(reuse[i])>>]
           el == [k \in 1 .. Len(edges) |-> <<IndexOf(edges[k][1]), IndexOf(edges[k][2])>>]
<1>1. /\ InstanceFile.n = Len(reuse) /\ InstanceFile.m = Len(edges)
      /\ InstanceFile.nlines = nl /\ InstanceFile.elines = el
  BY DEF InstanceFile
<1>2. /\ Len(reuse) \in Nat /\ Len(edges) \in Nat
      /\ edges \in Seq(Names(prod) \X Names(prod))
  BY DEF IInv, Typed, EdgeLists
<1>3. ASSUME NEW i \in 1 .. Len(reuse)
      PROVE  nl[i] = <<i, TableWeight(reuse[i])>> /\ nl[i] \in (1 .. Len(reuse)) \X Nat
  BY SharedPlace, TableWeightWorth
<1>4. ASSUME NEW u \in ToSet(reuse)
      PROVE  IndexOf(u) \in 1 .. Len(reuse) /\ reuse[IndexOf(u)] = u
  <2>1. PICK i \in 1 .. Len(reuse) : u = reuse[i]
    BY DEF ToSet
  <2>2. QED BY <2>1 DEF IndexOf
<1>5. ASSUME NEW k \in 1 .. Len(edges)
      PROVE  /\ el[k] \in (1 .. Len(reuse)) \X (1 .. Len(reuse))
             /\ edges[k] = <<reuse[el[k][1]], reuse[el[k][2]]>>
  <2>1. edges[k][1] \in ToSet(reuse) /\ edges[k][2] \in ToSet(reuse)
    OBVIOUS
  <2>2. edges[k] = <<edges[k][1], edges[k][2]>>
    <3>1. edges[k] \in Names(prod) \X Names(prod)
      BY <1>2
    <3>2. QED BY <3>1
  <2>3. el[k] = <<IndexOf(edges[k][1]), IndexOf(edges[k][2])>>
    OBVIOUS
  <2> HIDE DEF el
  <2>4. QED BY <1>4, <2>1, <2>2, <2>3
<1>6. nl \in Seq((1 .. Len(reuse)) \X Nat) /\ Len(nl) = Len(reuse)
  <2>1. nl \in [1 .. Len(reuse) -> (1 .. Len(reuse)) \X Nat]
    BY <1>3
  <2> HIDE DEF nl
  <2>2. QED BY <1>2, <2>1
<1>7. el \in Seq((1 .. Len(reuse)) \X (1 .. Len(reuse))) /\ Len(el) = Len(edges)
  <2>1. el \in [1 .. Len(edges) -> (1 .. Len(reuse)) \X (1 .. Len(reuse))]
    BY <1>5
  <2> HIDE DEF el
  <2>2. QED BY <1>2, <2>1
<1>8. ASSUME NEW i \in 1 .. Len(reuse)
      PROVE  nl[i][1] = i /\ WorthBoth(reuse[i], nl[i][2])
  <2>1. nl[i] = <<i, TableWeight(reuse[i])>>
    BY <1>3
  <2> HIDE DEF nl
  <2>2. QED BY <2>1, TableWeightWorth
<1> HIDE DEF nl, el
<1>9. IsFile(InstanceFile)
  BY <1>1, <1>2, <1>6, <1>7 DEF IsFile
<1>10. QED BY <1>1, <1>5, <1>6, <1>7, <1>8, <1>9

\* What the e lines stand for, in terms of numbers.
LEMMA LinesMeant ==
  ASSUME IInv, EdgesMeant, FileMeant, pc = "solve", NEW k \in 1 .. Len(edges)
  PROVE  /\ file.elines[k][1] \in 1 .. Len(reuse) /\ file.elines[k][2] \in 1 .. Len(reuse)
         /\ file.elines[k] = <<file.elines[k][1], file.elines[k][2]>>
         /\ edges[k] = <<reuse[file.elines[k][1]], reuse[file.elines[k][2]]>>
         /\ Opposed(reuse[file.elines[k][1]], reuse[file.elines[k][2]])
         /\ file.elines[k][1] # file.elines[k][2]
<1> DEFINE a == file.elines[k][1]
           b == file.elines[k][2]
<1>1. /\ IsFile(file) /\ file.n = Len(reuse) /\ Len(file.elines) = Len(edges)
      /\ edges[k] = <<reuse[a], reuse[b]>>
  BY DEF FileMeant
<1>2. file.elines[k] \in (1 .. Len(reuse)) \X (1 .. Len(reuse))
  BY <1>1 DEF IsFile
<1>3. a \in 1 .. Len(reuse) /\ b \in 1 .. Len(reuse) /\ file.elines[k] = <<a, b>>
  BY <1>2
<1>4. <<reuse[a], reuse[b]>> \in ToSet(edges)
  BY <1>1 DEF ToSet, EdgesMeant, EdgeLists
<1>5. reuse[a] \in Names(prod) /\ reuse[b] \in Names(prod)
  BY <1>3 DEF IInv, Typed
<1>6. Opposed(reuse[a], reuse[b])
  BY <1>4, <1>5 DEF EdgesMeant
<1>7. reuse[a] # reuse[b]
  BY <1>6 DEF Opposed
<1>8. QED BY <1>1, <1>3, <1>6, <1>7

\* Production has an order, so that a pair is opposed one way round only.
LEMMA OpposedOnce ==
  ASSUME IInv, NEW u, NEW v, Opposed(u, v)
  PROVE  ~Opposed(v, u)
<1>1. prod \in ProductionPrograms
  BY DEF IInv, Typed
<1>2. \A e \in prod.next : <<e[2], e[1]>> \notin prod.next
  BY <1>1, OrderAssumption
<1>3. ASSUME <<v, u>> \in prod.next
      PROVE  <<u, v>> \notin prod.next
  <2>1. <<v, u>>[1] = v /\ <<v, u>>[2] = u
    OBVIOUS
  <2>2. QED BY <1>2, <1>3, <2>1
<1>4. QED BY <1>3 DEF Opposed

\* No pair of vertices has two e lines, whichever way round.
LEMMA LinesFresh ==
  ASSUME IInv, EdgesMeant, FileMeant, pc = "solve"
  PROVE  Fresh(Conflicts(file), {})
<1> DEFINE c == Conflicts(file)
           A(k) == file.elines[k][1]
           B(k) == file.elines[k][2]
<1>1. /\ IsFile(file) /\ Len(file.elines) = Len(edges) /\ Len(edges) \in Nat
      /\ NoDuplicates(edges) /\ Len(reuse) \in Nat
  BY DEF FileMeant, EdgesMeant, EdgeLists, IInv, Typed
<1>2. Len(c) = Len(edges) /\ \A k \in 1 .. Len(edges) : c[k] = <<A(k) - 1, B(k) - 1>>
  BY <1>1, ConflictsAreVertices
<1>3. \A k \in 1 .. Len(edges) : /\ A(k) \in 1 .. Len(reuse) /\ B(k) \in 1 .. Len(reuse)
                                 /\ A(k) # B(k) /\ edges[k] = <<reuse[A(k)], reuse[B(k)]>>
                                 /\ Opposed(reuse[A(k)], reuse[B(k)])
  BY LinesMeant
<1> HIDE DEF c, A, B
<1>4. ASSUME NEW i \in 1 .. Len(edges), NEW j \in 1 .. i - 1
      PROVE  /\ ~(A(i) - 1 = A(j) - 1 /\ B(i) - 1 = B(j) - 1)
             /\ ~(A(i) - 1 = B(j) - 1 /\ B(i) - 1 = A(j) - 1)
  <2>1. j \in 1 .. Len(edges) /\ i # j
    BY <1>1
  <2>2. A(i) \in Int /\ B(i) \in Int /\ A(j) \in Int /\ B(j) \in Int
    BY <1>1, <1>3, <2>1
  <2>3. ASSUME A(i) - 1 = A(j) - 1, B(i) - 1 = B(j) - 1 PROVE FALSE
    <3>1. A(i) = A(j) /\ B(i) = B(j)
      BY <2>2, <2>3
    <3>2. edges[i] = edges[j]
      BY <1>3, <2>1, <3>1
    <3>3. QED BY <1>1, <2>1, <3>2 DEF NoDuplicates
  <2>4. ASSUME A(i) - 1 = B(j) - 1, B(i) - 1 = A(j) - 1 PROVE FALSE
    <3>1. A(i) = B(j) /\ B(i) = A(j)
      BY <2>2, <2>4
    <3>2. Opposed(reuse[A(i)], reuse[B(i)]) /\ Opposed(reuse[B(i)], reuse[A(i)])
      BY <1>3, <2>1, <3>1
    <3>3. QED BY <3>2, OpposedOnce
  <2>5. QED BY <2>3, <2>4
<1>5. ASSUME NEW i \in 1 .. Len(c)
      PROVE  /\ c[i][1] # c[i][2]
             /\ <<c[i][1], c[i][2]>> \notin {} \cup BothWays(c, i - 1)
             /\ <<c[i][2], c[i][1]>> \notin {} \cup BothWays(c, i - 1)
  <2>1. i \in 1 .. Len(edges) /\ c[i][1] = A(i) - 1 /\ c[i][2] = B(i) - 1
    BY <1>2
  <2>2. c[i][1] # c[i][2]
    <3>1. A(i) \in Int /\ B(i) \in Int /\ A(i) # B(i)
      BY <1>1, <1>3, <2>1
    <3>2. QED BY <2>1, <3>1
  <2>3. \A j \in 1 .. i - 1 : j \in 1 .. Len(edges) /\ c[j][1] = A(j) - 1 /\ c[j][2] = B(j) - 1
    BY <1>1, <1>2, <2>1
  <2>4. ASSUME NEW j \in 1 .. i - 1
        PROVE  /\ <<c[i][1], c[i][2]>> # <<c[j][1], c[j][2]>>
               /\ <<c[i][1], c[i][2]>> # <<c[j][2], c[j][1]>>
               /\ <<c[i][2], c[i][1]>> # <<c[j][1], c[j][2]>>
               /\ <<c[i][2], c[i][1]>> # <<c[j][2], c[j][1]>>
    <3>1. /\ ~(c[i][1] = c[j][1] /\ c[i][2] = c[j][2])
          /\ ~(c[i][1] = c[j][2] /\ c[i][2] = c[j][1])
      BY <1>4, <2>1, <2>3
    <3>2. QED BY <3>1
  <2>5. QED BY <2>2, <2>4 DEF BothWays
<1>6. QED BY <1>5 DEF Fresh, c

\* What is read is the graph that was meant.
LEMMA InstanceRead ==
  ASSUME IInv, EdgesMeant, FileMeant, pc = "solve"
  PROVE  LET g == ReadInstance(file, FALSE)
         IN  /\ IsSimpleGraph(g)
             /\ g.n = Len(reuse) /\ Vertices(g) = 0 .. Len(reuse) - 1
             /\ \A u, v \in Vertices(g) :
                  v \in Neighbors(g, u) <=> Clashing(reuse[u + 1], reuse[v + 1])
             /\ \A v \in Vertices(g) : WorthBoth(reuse[v + 1], g.weight[v])
<1> DEFINE g == ReadInstance(file, FALSE)
           E == FilePairs(file)
<1>1. /\ IsFile(file) /\ file.n = Len(reuse) /\ Len(reuse) \in Nat
      /\ Len(file.nlines) = Len(reuse) /\ Len(file.elines) = Len(edges)
  BY DEF FileMeant, IInv, Typed
<1>2. ReadAs(g, file, E)
  BY <1>1, LinesFresh, ReadAsListed
<1>3. \A u, v : /\ <<u, v>> \in E <=> Listed(file, u, v)
                /\ <<u, v>> \in E <=> <<v, u>> \in E
  BY <1>1, PairsOfFile
<1>4. \A v : <<v, v>> \notin E
  <2>1. ASSUME NEW v, Listed(file, v, v) PROVE FALSE
    <3>1. PICK i \in 1 .. Len(file.elines) :
            {file.elines[i][1] - 1, file.elines[i][2] - 1} = {v, v}
      BY <2>1 DEF Listed
    <3>2. file.elines[i][1] - 1 = file.elines[i][2] - 1
      <4>1. file.elines[i][1] - 1 \in {v, v} /\ file.elines[i][2] - 1 \in {v, v}
        BY <3>1, Zenon
      <4>2. QED BY <4>1
    <3>3. /\ file.elines[i][1] \in 1 .. Len(reuse) /\ file.elines[i][2] \in 1 .. Len(reuse)
          /\ file.elines[i][1] # file.elines[i][2]
      BY <1>1, <3>1, LinesMeant
    <3>4. QED BY <1>1, <3>2, <3>3
  <2>2. QED BY <1>3, <2>1
<1> HIDE DEF g, E
<1>5. /\ IsSimpleGraph(g) /\ Vertices(g) = 0 .. Len(reuse) - 1
      /\ \A u, v \in Vertices(g) : u \in Neighbors(g, v) <=> <<v, u>> \in E
  <2>1. \A u, v : <<u, v>> \in E => <<v, u>> \in E
    BY <1>3
  <2>2. file.n \in Nat
    BY <1>1
  <2>3. /\ IsSimpleGraph(g) /\ Vertices(g) = 0 .. file.n - 1
        /\ \A u, v \in Vertices(g) : u \in Neighbors(g, v) <=> <<v, u>> \in E
    BY <1>2, <1>4, <2>1, <2>2, ReadIsSimple
  <2>4. QED BY <1>1, <2>3
<1>6. g.n = Len(reuse)
  BY <1>1, <1>2 DEF ReadAs
<1>7. ASSUME NEW u \in 0 .. Len(reuse) - 1, NEW v \in 0 .. Len(reuse) - 1
      PROVE  Listed(file, u, v) <=> Clashing(reuse[u + 1], reuse[v + 1])
  <2>1. /\ u + 1 \in 1 .. Len(reuse) /\ v + 1 \in 1 .. Len(reuse)
        /\ u \in Int /\ v \in Int
    BY <1>1
  <2>2. ASSUME Listed(file, u, v) PROVE Clashing(reuse[u + 1], reuse[v + 1])
    <3>1. PICK i \in 1 .. Len(file.elines) :
            {file.elines[i][1] - 1, file.elines[i][2] - 1} = {u, v}
      BY <2>2 DEF Listed
    <3> DEFINE a == file.elines[i][1]
               b == file.elines[i][2]
    <3>2. /\ a \in 1 .. Len(reuse) /\ b \in 1 .. Len(reuse)
          /\ Opposed(reuse[a], reuse[b])
      BY <1>1, <3>1, LinesMeant
    <3>3. {a - 1, b - 1} = {u, v}
      BY <3>1
    <3> HIDE DEF a, b
    <3>4. (a - 1 = u /\ b - 1 = v) \/ (a - 1 = v /\ b - 1 = u)
      <4> DEFINE c == a - 1
                 d == b - 1
      <4> HIDE DEF c, d
      <4>1. \A w : w \in {c, d} <=> w \in {u, v}
        BY <3>3 DEF c, d
      <4>2. (c = u /\ d = v) \/ (c = v /\ d = u)
        BY <4>1
      <4>3. QED BY <4>2 DEF c, d
    <3>5. (a = u + 1 /\ b = v + 1) \/ (a = v + 1 /\ b = u + 1)
      BY <1>1, <2>1, <3>2, <3>4
    <3>6. QED BY <3>2, <3>5 DEF Clashing
  <2>3. ASSUME NEW x \in 0 .. Len(reuse) - 1, NEW y \in 0 .. Len(reuse) - 1,
               Opposed(reuse[x + 1], reuse[y + 1])
        PROVE  \E i \in 1 .. Len(file.elines) :
                 file.elines[i][1] - 1 = x /\ file.elines[i][2] - 1 = y
    <3>1. /\ x + 1 \in 1 .. Len(reuse) /\ y + 1 \in 1 .. Len(reuse)
          /\ x \in Int /\ y \in Int
      BY <1>1
    <3>2. ASSUME NEW k \in 1 .. Len(reuse)
          PROVE  reuse[k] \in Names(prod) /\ reuse[k] \in ToSet(reuse)
      <4>1. reuse[k] \in Names(prod)
        BY SharedPlace
      <4>2. DOMAIN reuse = 1 .. Len(reuse)
        BY DEF IInv, Typed
      <4>3. QED BY <4>1, <4>2 DEF ToSet
    <3>3. <<reuse[x + 1], reuse[y + 1]>> \in ToSet(edges)
      BY <2>3, <3>1, <3>2 DEF EdgesMeant
    <3>4. PICK i \in 1 .. Len(edges) : edges[i] = <<reuse[x + 1], reuse[y + 1]>>
      <4>1. DOMAIN edges = 1 .. Len(edges)
        BY DEF EdgesMeant, EdgeLists
      <4>2. QED BY <3>3, <4>1 DEF ToSet
    <3> DEFINE a == file.elines[i][1]
               b == file.elines[i][2]
    <3>5. /\ a \in 1 .. Len(reuse) /\ b \in 1 .. Len(reuse)
          /\ edges[i] = <<reuse[a], reuse[b]>>
      BY LinesMeant
    <3> HIDE DEF a, b
    <3>6. reuse[a] = reuse[x + 1] /\ reuse[b] = reuse[y + 1]
      BY <3>4, <3>5
    <3>7. a = x + 1 /\ b = y + 1
      BY <3>1, <3>5, <3>6 DEF IInv, ReuseMatched
    <3>8. a - 1 = x /\ b - 1 = y
      BY <3>1, <3>7
    <3>9. QED BY <1>1, <3>8 DEF a, b
  <2>4. ASSUME Clashing(reuse[u + 1], reuse[v + 1]) PROVE Listed(file, u, v)
    <3>1. CASE Opposed(reuse[u + 1], reuse[v + 1])
      <4>1. PICK i \in 1 .. Len(file.elines) :
              file.elines[i][1] - 1 = u /\ file.elines[i][2] - 1 = v
        BY <2>3, <3>1
      <4>2. QED BY <4>1 DEF Listed
    <3>2. CASE Opposed(reuse[v + 1], reuse[u + 1])
      <4>1. PICK i \in 1 .. Len(file.elines) :
              file.elines[i][1] - 1 = v /\ file.elines[i][2] - 1 = u
        BY <2>3, <3>2
      <4>2. QED BY <4>1 DEF Listed
    <3>3. QED BY <2>4, <3>1, <3>2 DEF Clashing
  <2>5. QED BY <2>2, <2>4
<1>8. \A u, v \in Vertices(g) : v \in Neighbors(g, u) <=> Clashing(reuse[u + 1], reuse[v + 1])
  BY <1>3, <1>5, <1>7
<1>9. ASSUME NEW v \in 0 .. Len(reuse) - 1
      PROVE  WorthBoth(reuse[v + 1], g.weight[v])
  <2>1. v + 1 \in 1 .. Len(reuse) /\ (v + 1) - 1 = v
    BY <1>1
  <2>2. \A k \in 1 .. Len(reuse) : /\ file.nlines[k][1] = k
                                   /\ WorthBoth(reuse[k], file.nlines[k][2])
    BY DEF FileMeant
  <2>3. OneLineEach(file.nlines)
    <3>1. \A i, j \in 1 .. Len(reuse) : file.nlines[i][1] - 1 = file.nlines[j][1] - 1 => i = j
      BY <1>1, <2>2
    <3>2. QED BY <1>1, <3>1 DEF OneLineEach
  <2>4. WeightsAsListed(g, file.nlines)
    BY <1>1, <2>3, LinesFresh, ReadWeights DEF g
  <2>5. g.weight[file.nlines[v + 1][1] - 1] = file.nlines[v + 1][2]
    BY <1>1, <2>1, <2>4 DEF WeightsAsListed
  <2>6. g.weight[v] = file.nlines[v + 1][2]
    BY <2>1, <2>2, <2>5
  <2>7. QED BY <2>1, <2>2, <2>6
<1>10. QED BY <1>5, <1>6, <1>8, <1>9 DEF g

\* So the property of the instance holds where the file is as it should be.
LEMMA InstanceIsExact ==
  ASSUME IInv, EdgesMeant, FileMeant
  PROVE  InstanceExact
<1> SUFFICES ASSUME pc = "solve" PROVE InstanceExact
  BY DEF InstanceExact
<1> DEFINE g == ReadInstance(file, FALSE)
<1>1. /\ IsSimpleGraph(g)
      /\ g.n = Len(reuse) /\ Vertices(g) = 0 .. Len(reuse) - 1
      /\ \A u, v \in Vertices(g) :
           v \in Neighbors(g, u) <=> Clashing(reuse[u + 1], reuse[v + 1])
      /\ \A v \in Vertices(g) : WorthBoth(reuse[v + 1], g.weight[v])
  BY InstanceRead
<1>2. file.m = Len(file.elines)
  BY DEF FileMeant
<1> HIDE DEF g
<1>3. ASSUME NEW v \in Vertices(g)
      PROVE  /\ g.weight[v] >= 0
             /\ g.weight[v] >= prod.tables[reuse[v + 1]].size
             /\ g.weight[v] >= test.tables[TestingName(reuse[v + 1])].size
  <2>1. v + 1 \in 1 .. Len(reuse)
    <3>1. Len(reuse) \in Nat
      BY DEF IInv, Typed
    <3>2. QED BY <1>1, <3>1
  <2>2. PICK s \in 1 .. Len(id) : id[s] = reuse[v + 1]
    BY <2>1 DEF IInv, ReuseMatched
  <2>3. s = TestingName(reuse[v + 1])
    BY <2>1, <2>2, SharedPlace
  <2>4. WorthBoth(reuse[v + 1], g.weight[v])
    BY <1>1
  <2>5. QED BY <2>2, <2>3, <2>4 DEF WorthBoth
<1>4. QED BY <1>1, <1>2, <1>3 DEF InstanceExact, g, Clashing

-----------------------------------------------------------------------------
\* What is said of the numbering stays true while it is not touched.
LEMMA NumbersKept ==
  ASSUME UNCHANGED <<prod, test, id, reuse>>
  PROVE  /\ \A u, v : Opposed(u, v)' <=> Opposed(u, v)
         /\ \A u, v : Clashing(u, v)' <=> Clashing(u, v)
         /\ \A u, w : WorthBoth(u, w)' <=> WorthBoth(u, w)
         /\ Names(prod)' = Names(prod) /\ EdgeLists' = EdgeLists
<1>1. /\ \A u, v : Opposed(u, v)' <=> Opposed(u, v)
      /\ \A u, w : WorthBoth(u, w)' <=> WorthBoth(u, w)
      /\ Names(prod)' = Names(prod)
  BY DEF Opposed, TestingEdge, WorthBoth, Names
<1>2. \A u, v : Clashing(u, v)' <=> Clashing(u, v)
  BY <1>1 DEF Clashing
<1>3. EdgeLists' = EdgeLists
  BY <1>1 DEF EdgeLists
<1>4. QED BY <1>1, <1>2, <1>3

\* Sharing is as complete as it was while the numbering is not touched.
LEMMA SharingKept ==
  ASSUME AllShared, UNCHANGED <<prod, test, id, reuse>>
  PROVE  AllShared'
<1>1. \A key : SharedOf(key)' = SharedOf(key) /\ MetOf(key)' = MetOf(key)
  BY DEF SharedOf, MetOf, Keyed, Names
<1>2. \A key : Keyed(prod, key)' = Keyed(prod, key)
  BY DEF Keyed, Names
<1>3. Names(test)' = Names(test)
  BY DEF Names
<1>4. QED BY <1>1, <1>2, <1>3 DEF AllShared

\* While tables get their numbers nothing is merged, written or picked.
LEMMA NumberingFiles ==
  ASSUME Whole, ReuseTable \/ NumberFresh
  PROVE  Numbered' /\ EdgesMeant' /\ FileMeant' /\ PickedMeant'
<1>1. pc' = "number" /\ picked' = {}
  BY DEF Whole, PickedMeant, ReuseTable, NumberFresh
<1>2. QED BY <1>1 DEF Numbered, EdgesMeant, FileMeant, PickedMeant

\* The merged edges are what they should be.
LEMMA MergeStep ==
  ASSUME Whole, MergeGraph
  PROVE  Numbered' /\ EdgesMeant' /\ FileMeant' /\ PickedMeant'
<1>1. /\ pc = "number" /\ pc' = "write" /\ Len(id) = Len(test.tables)
      /\ UNCHANGED <<prod, test, id, reuse, picked>> /\ edges' = MergedEdges
  BY DEF MergeGraph
<1>2. reuse \in Seq(Names(prod))
  BY DEF Whole, IInv, Typed
<1>3. Numbered' /\ FileMeant' /\ PickedMeant'
  BY <1>1 DEF Whole, Numbered, FileMeant, PickedMeant
<1>4. edges' \in EdgeLists' /\ NoDuplicates(edges')
  BY <1>1, <1>2, MergedEdgesListed, NumbersKept
<1>5. \A u, v : <<u, v>> \in ToSet(edges')
                  <=> u \in ToSet(reuse) /\ v \in ToSet(reuse) /\ Opposed(u, v)
  BY <1>1, <1>2, MergedEdgesMeant
<1>6. reuse' = reuse /\ \A u, v : Opposed(u, v)' <=> Opposed(u, v)
  BY <1>1, NumbersKept
<1>7. \A u, v : <<u, v>> \in ToSet(edges')
                  <=> u \in ToSet(reuse') /\ v \in ToSet(reuse') /\ Opposed(u, v)'
  BY <1>5, <1>6
<1>8. EdgesMeant'
  BY <1>4, <1>7 DEF EdgesMeant
<1>9. QED BY <1>3, <1>8

\* The edges mean what they meant while they are not touched.
LEMMA EdgesKept ==
  ASSUME EdgesMeant, pc \in {"write", "solve", "read"}, UNCHANGED <<prod, test, id, reuse, edges>>
  PROVE  EdgesMeant'
<1>1. /\ edges' = edges /\ reuse' = reuse /\ Names(prod)' = Names(prod)
      /\ EdgeLists' = EdgeLists /\ \A u, v : Opposed(u, v)' <=> Opposed(u, v)
  BY NumbersKept
<1>2. /\ edges \in EdgeLists /\ NoDuplicates(edges)
      /\ \A u, v \in Names(prod) :
           <<u, v>> \in ToSet(edges)
             <=> u \in ToSet(reuse) /\ v \in ToSet(reuse) /\ Opposed(u, v)
  BY DEF EdgesMeant
<1>3. edges' \in EdgeLists' /\ NoDuplicates(edges')
  BY <1>1, <1>2
<1>4. \A u, v \in Names(prod)' :
        <<u, v>> \in ToSet(edges')
          <=> u \in ToSet(reuse') /\ v \in ToSet(reuse') /\ Opposed(u, v)'
  BY <1>1, <1>2
<1>5. QED BY <1>3, <1>4 DEF EdgesMeant

\* The file that is written says what it should.
LEMMA WriteStep ==
  ASSUME Whole, WriteInstance
  PROVE  Numbered' /\ EdgesMeant' /\ FileMeant' /\ PickedMeant'
<1>1. /\ pc = "write" /\ pc' = "solve" /\ file' = InstanceFile
      /\ UNCHANGED <<prod, test, id, reuse, edges, picked>>
  BY DEF WriteInstance
<1>2. IInv /\ EdgesMeant /\ edges \in EdgeLists
  BY <1>1 DEF Whole, EdgesMeant
<1>3. Numbered' /\ PickedMeant'
  BY <1>1 DEF Whole, Numbered, PickedMeant
<1>4. EdgesMeant'
  BY <1>1, <1>2, EdgesKept
<1>5. ASSUME NEW k \in 1 .. Len(edges)
      PROVE  edges[k][1] \in ToSet(reuse) /\ edges[k][2] \in ToSet(reuse)
  <2>1. edges[k] \in Names(prod) \X Names(prod) /\ edges[k] \in ToSet(edges)
    BY <1>2 DEF EdgeLists, ToSet
  <2>2. PICK u \in Names(prod), v \in Names(prod) : edges[k] = <<u, v>>
    BY <2>1
  <2>3. <<u, v>> \in ToSet(edges)
    BY <2>1, <2>2
  <2>4. u \in ToSet(reuse) /\ v \in ToSet(reuse)
    BY <1>1, <1>2, <2>3 DEF EdgesMeant
  <2>5. QED BY <2>2, <2>4
<1> DEFINE h == InstanceFile
<1>6. /\ IsFile(h) /\ h.n = Len(reuse) /\ h.m = Len(edges)
      /\ Len(h.nlines) = Len(reuse) /\ Len(h.elines) = Len(edges)
      /\ \A k \in 1 .. Len(reuse) : h.nlines[k][1] = k /\ WorthBoth(reuse[k], h.nlines[k][2])
      /\ \A k \in 1 .. Len(edges) : edges[k] = <<reuse[h.elines[k][1]], reuse[h.elines[k][2]]>>
  BY <1>2, <1>5, InstanceFileMeant
<1>7. /\ file' = h /\ reuse' = reuse /\ edges' = edges
      /\ \A u, w : WorthBoth(u, w)' <=> WorthBoth(u, w)
  BY <1>1, NumbersKept
<1> HIDE DEF h
<1>8. /\ IsFile(file') /\ file'.n = Len(reuse') /\ file'.m = Len(edges')
      /\ Len(file'.nlines) = Len(reuse') /\ Len(file'.elines) = Len(edges')
      /\ \A k \in 1 .. Len(edges') : edges'[k] = <<reuse'[file'.elines[k][1]], reuse'[file'.elines[k][2]]>>
  BY <1>6, <1>7
<1>9. ASSUME NEW k \in 1 .. Len(reuse')
      PROVE  file'.nlines[k][1] = k /\ WorthBoth(reuse[k], file.nlines[k][2])'
  <2>1. k \in 1 .. Len(reuse) /\ file'.nlines = h.nlines
    BY <1>7
  <2>2. h.nlines[k][1] = k /\ WorthBoth(reuse[k], h.nlines[k][2])
    BY <1>6, <2>1
  <2>3. WorthBoth(reuse[k], file.nlines[k][2])' <=> WorthBoth(reuse[k], h.nlines[k][2])
    BY <1>1, <2>1 DEF WorthBoth
  <2>4. QED BY <2>1, <2>2, <2>3
<1>10. FileMeant'
  BY <1>8, <1>9 DEF FileMeant
<1>11. QED BY <1>3, <1>4, <1>10

\* The file means what it meant while it is not touched.
LEMMA FileKept ==
  ASSUME FileMeant, pc \in {"solve", "read"}, UNCHANGED <<prod, test, id, reuse, edges, file>>
  PROVE  FileMeant'
BY DEF FileMeant, WorthBoth

\* A solver that fails leaves nothing picked.
LEMMA FailStep ==
  ASSUME Whole, SolverFails
  PROVE  Numbered' /\ EdgesMeant' /\ FileMeant' /\ PickedMeant'
<1>1. /\ pc = "solve" /\ pc' = "read"
      /\ UNCHANGED <<prod, test, id, reuse, edges, file, picked>>
  BY DEF SolverFails
<1>2. picked = {}
  BY <1>1 DEF Whole, PickedMeant
<1>3. QED BY <1>1, <1>2, EdgesKept, FileKept DEF Whole, Numbered, PickedMeant

\* A solver that finds an independent set to which nothing can be added has found
\* tables without a clash to which none can be added.
LEMMA SolveStep ==
  ASSUME Whole, Solve
  PROVE  Numbered' /\ EdgesMeant' /\ FileMeant' /\ PickedMeant'
<1> DEFINE g == ReadInstance(file, FALSE)
<1>1. /\ pc = "solve" /\ pc' = "read"
      /\ UNCHANGED <<prod, test, id, reuse, edges, file>>
  BY DEF Solve
<1>2. PICK I \in SUBSET Vertices(g) :
        /\ Independent(g, I)
        /\ \A v \in Vertices(g) \ I : Neighbors(g, v) \cap I # {}
        /\ picked' = I
  BY DEF Solve
<1>3. /\ Vertices(g) = 0 .. Len(reuse) - 1
      /\ \A u, v \in Vertices(g) :
           v \in Neighbors(g, u) <=> Clashing(reuse[u + 1], reuse[v + 1])
  BY <1>1, InstanceRead DEF Whole
<1> HIDE DEF g
<1>4. Numbered' /\ EdgesMeant' /\ FileMeant'
  BY <1>1, EdgesKept, FileKept DEF Whole, Numbered
<1>5. \A u, v : Clashing(u, v)' <=> Clashing(u, v)
  BY <1>1, NumbersKept
<1>6. I \subseteq 0 .. Len(reuse) - 1
  BY <1>2, <1>3
<1>7. \A u, v \in I : ~Clashing(reuse[u + 1], reuse[v + 1])
  BY <1>2, <1>3 DEF Independent
<1>8. \A u \in (0 .. Len(reuse) - 1) \ I : \E v \in I : Clashing(reuse[u + 1], reuse[v + 1])
  BY <1>2, <1>3
<1>9. reuse' = reuse /\ picked' = I
  BY <1>1, <1>2
<1>10. /\ \A u, v \in picked' : ~Clashing(reuse[u + 1], reuse[v + 1])'
       /\ \A u \in (0 .. Len(reuse') - 1) \ picked' :
            \E v \in picked' : Clashing(reuse[u + 1], reuse[v + 1])'
  BY <1>1, <1>7, <1>8, <1>9 DEF Clashing, Opposed, TestingEdge
<1>11. PickedMeant'
  BY <1>1, <1>6, <1>9, <1>10 DEF PickedMeant
<1>12. QED BY <1>4, <1>11

\* After the result has been read nothing is promised any more, and a new
\* compilation starts from nothing.
LEMMA EndStep ==
  ASSUME Whole, ReadResult \/ Recompile
  PROVE  Numbered' /\ EdgesMeant' /\ FileMeant' /\ PickedMeant'
<1>1. CASE ReadResult
  <2>1. /\ pc = "read" /\ pc' \in {"failed", "done"} /\ UNCHANGED <<test, id>>
    BY <1>1 DEF ReadResult
  <2>2. QED BY <2>1 DEF Whole, Numbered, EdgesMeant, FileMeant, PickedMeant
<1>2. CASE Recompile
  <2>1. pc' = "number" /\ picked' = {}
    BY <1>2 DEF Recompile, Begin
  <2>2. QED BY <2>1 DEF Numbered, EdgesMeant, FileMeant, PickedMeant
<1>3. QED BY <1>1, <1>2

-----------------------------------------------------------------------------
\* Sets of tables are finite.
LEMMA TablesFinite ==
  ASSUME Typed, NEW key
  PROVE  /\ IsFiniteSet(Keyed(prod, key)) /\ IsFiniteSet(MetOf(key))
         /\ IsFiniteSet(SharedOf(key)) /\ SharedOf(key) \subseteq Keyed(prod, key)
<1>1. Len(prod.tables) \in Nat /\ Len(id) \in Nat
  BY NamesBelowFresh DEF Typed
<1>2. IsFiniteSet(1 .. Len(prod.tables)) /\ IsFiniteSet(1 .. Len(id))
  BY <1>1, FS_Interval
<1>3. /\ Keyed(prod, key) \subseteq 1 .. Len(prod.tables)
      /\ MetOf(key) \subseteq 1 .. Len(id)
      /\ SharedOf(key) \subseteq Keyed(prod, key)
  BY DEF Keyed, Names, MetOf, SharedOf
<1>4. IsFiniteSet(Keyed(prod, key)) /\ IsFiniteSet(MetOf(key))
  BY <1>2, <1>3, FS_Subset
<1>5. IsFiniteSet(SharedOf(key))
  BY <1>3, <1>4, FS_Subset
<1>6. QED BY <1>3, <1>4, <1>5

\* With the number of one more testing table the kind of that table is met once
\* more, and no other kind.
LEMMA MetOneMore ==
  ASSUME Typed, Len(id) < Len(test.tables), NEW x, id' = Append(id, x), test' = test, NEW key
  PROVE  /\ HasKey(Current) /\ Key(Current) = key =>
              /\ MetOf(key)' = MetOf(key) \cup {Len(id) + 1}
              /\ Len(id) + 1 \notin MetOf(key)
         /\ ~(HasKey(Current) /\ Key(Current) = key) => MetOf(key)' = MetOf(key)
<1>1. /\ id \in Seq(Nat) /\ Len(id) \in Nat /\ Len(test.tables) \in Nat
  BY NamesBelowFresh DEF Typed
<1>2. Len(id') = Len(id) + 1 /\ 1 .. Len(id') = 1 .. Len(id) \cup {Len(id) + 1}
  BY <1>1
<1>3. Keyed(test, key)' = Keyed(test, key)
  BY DEF Keyed, Names
<1>4. Len(id) + 1 \in Names(test) /\ Len(id) + 1 \notin 1 .. Len(id)
  BY <1>1 DEF Names
<1>5. Len(id) + 1 \in Keyed(test, key) <=> HasKey(Current) /\ Key(Current) = key
  BY <1>4 DEF Keyed, Current
<1>6. MetOf(key)' = {i \in 1 .. Len(id) \cup {Len(id) + 1} : i \in Keyed(test, key)}
  BY <1>2, <1>3 DEF MetOf
<1>7. QED BY <1>4, <1>5, <1>6 DEF MetOf

\* Sharing one more table shares one more of its kind, which was still free.
LEMMA ReuseShares ==
  ASSUME IInv, AllShared, ReuseTable
  PROVE  AllShared'
<1>1. PICK r \in Reusable(Current) : id' = Append(id, r) /\ reuse' = Append(reuse, r)
  BY DEF ReuseTable
<1>2. prod' = prod /\ test' = test /\ Len(id) < Len(test.tables) /\ Typed
  BY DEF ReuseTable, IInv
<1>3. /\ r \in Names(prod) /\ r \notin ToSet(reuse)
      /\ HasKey(Current) /\ HasKey(prod.tables[r]) /\ Key(Current) = Key(prod.tables[r])
  BY DEF Reusable, SameKey
<1>4. ToSet(reuse') = ToSet(reuse) \cup {r}
  BY <1>1, <1>2, AppendMembers DEF Typed
<1> SUFFICES ASSUME NEW i \in Names(test), HasKey(test.tables[i])
             PROVE  Cardinality(SharedOf(Key(test.tables[i])))'
                      = Least(Cardinality(Keyed(prod, Key(test.tables[i]))),
                              Cardinality(MetOf(Key(test.tables[i])))')
  BY <1>2 DEF AllShared, Keyed, Names
<1> DEFINE key == Key(test.tables[i])
           K == Keyed(prod, key)
           S == SharedOf(key)
           M == MetOf(key)
<1>5. Cardinality(S) = Least(Cardinality(K), Cardinality(M))
  BY DEF AllShared
<1>6. IsFiniteSet(K) /\ IsFiniteSet(S) /\ IsFiniteSet(M) /\ S \subseteq K
  BY <1>2, TablesFinite
<1>7. K' = K
  BY <1>2 DEF Keyed, Names
<1>8. r \in K <=> Key(Current) = key
  BY <1>3 DEF Keyed
<1>9. S' = {q \in ToSet(reuse) \cup {r} : q \in K}
  <2>1. S' = {q \in ToSet(reuse') : q \in Keyed(prod, key)'}
    BY <1>2 DEF SharedOf
  <2>2. QED BY <2>1, <1>4, <1>7
<1>10. S = {q \in ToSet(reuse) : q \in K}
  BY DEF SharedOf
<1>11. /\ Key(Current) = key => M' = M \cup {Len(id) + 1} /\ Len(id) + 1 \notin M
       /\ Key(Current) # key => M' = M
  BY <1>1, <1>2, <1>3, MetOneMore
<1>12. Cardinality(S') = Least(Cardinality(K), Cardinality(M'))
  <2>1. CASE Key(Current) = key
    <3> HIDE DEF key, K, S, M
    <3>1. S' = S \cup {r} /\ r \notin S /\ r \in K
      BY <1>3, <1>8, <1>9, <1>10, <2>1
    <3>2. Cardinality(S') = Cardinality(S) + 1
      BY <1>6, <3>1, FS_AddElement
    <3>3. Cardinality(M') = Cardinality(M) + 1
      BY <1>6, <1>11, <2>1, FS_AddElement
    <3>4. S' \subseteq K
      BY <1>9
    <3>5. Cardinality(S') <= Cardinality(K)
      BY <1>6, <3>4, FS_Subset
    <3>6. Cardinality(S) \in Nat /\ Cardinality(K) \in Nat /\ Cardinality(M) \in Nat
      BY <1>6, FS_CardinalityType
    <3>7. QED BY <1>5, <3>2, <3>3, <3>5, <3>6 DEF Least
  <2>2. CASE Key(Current) # key
    <3> HIDE DEF key, K, S, M
    <3>1. S' = S
      BY <1>8, <1>9, <1>10, <2>2
    <3>2. QED BY <1>5, <1>11, <2>2, <3>1
  <2>3. QED BY <2>1, <2>2
<1>13. QED BY <1>2, <1>12

\* A table gets a number of its own only if every table of its kind is shared.
LEMMA FreshShares ==
  ASSUME IInv, AllShared, NumberFresh
  PROVE  AllShared'
<1>1. /\ id' = Append(id, fresh) /\ reuse' = reuse /\ prod' = prod /\ test' = test
      /\ Len(id) < Len(test.tables) /\ Typed /\ Reusable(Current) = {}
  BY DEF NumberFresh, IInv
<1> SUFFICES ASSUME NEW i \in Names(test), HasKey(test.tables[i])
             PROVE  Cardinality(SharedOf(Key(test.tables[i])))'
                      = Least(Cardinality(Keyed(prod, Key(test.tables[i]))),
                              Cardinality(MetOf(Key(test.tables[i])))')
  BY <1>1 DEF AllShared, Keyed, Names
<1> DEFINE key == Key(test.tables[i])
           K == Keyed(prod, key)
           S == SharedOf(key)
           M == MetOf(key)
<1>2. Cardinality(S) = Least(Cardinality(K), Cardinality(M))
  BY DEF AllShared
<1>3. IsFiniteSet(K) /\ IsFiniteSet(S) /\ IsFiniteSet(M) /\ S \subseteq K
  BY <1>1, TablesFinite
<1>4. S' = S
  BY <1>1 DEF SharedOf, Keyed, Names
<1> DEFINE own == HasKey(Current) /\ Key(Current) = key
<1>5. /\ own => M' = M \cup {Len(id) + 1} /\ Len(id) + 1 \notin M
      /\ ~own => M' = M
  BY <1>1, MetOneMore
<1>6. own => K \subseteq S
  BY <1>1 DEF Reusable, SameKey, Keyed, SharedOf
<1> HIDE DEF key, K, S, M, own
<1>7. Cardinality(S') = Least(Cardinality(K), Cardinality(M'))
  <2>1. CASE own
    <3>1. S = K
      BY <1>3, <1>6, <2>1
    <3>2. Cardinality(M') = Cardinality(M) + 1
      BY <1>3, <1>5, <2>1, FS_AddElement
    <3>3. Cardinality(K) \in Nat /\ Cardinality(M) \in Nat
      BY <1>3, FS_CardinalityType
    <3>4. QED BY <1>2, <1>4, <3>1, <3>2, <3>3 DEF Least
  <2>2. CASE ~own
    BY <1>2, <1>4, <1>5, <2>2
  <2>3. QED BY <2>1, <2>2
<1>8. QED BY <1>7 DEF key, K, S, M

\* With no number given no table is shared, and none is missed.
LEMMA NoneShared == id = <<>> /\ reuse = <<>> /\ Typed => AllShared
<1> SUFFICES ASSUME id = <<>>, reuse = <<>>, Typed, NEW key
             PROVE  Cardinality(SharedOf(key))
                      = Least(Cardinality(Keyed(prod, key)), Cardinality(MetOf(key)))
  BY DEF AllShared
<1>1. SharedOf(key) = {} /\ MetOf(key) = {}
  BY DEF SharedOf, MetOf, ToSet
<1>2. Cardinality({}) = 0
  BY FS_EmptySet
<1>3. Cardinality(Keyed(prod, key)) \in Nat
  BY TablesFinite, FS_CardinalityType
<1>4. QED BY <1>1, <1>2, <1>3 DEF Least

-----------------------------------------------------------------------------
\* The compiler starts with nothing numbered, merged, written or picked.
LEMMA InitWhole == Init => Whole
<1> SUFFICES ASSUME Init PROVE Whole
  OBVIOUS
<1>1. IInv
  BY InitInv
<1>2. pc = "number" /\ id = <<>> /\ reuse = <<>> /\ picked = {}
  BY DEF Init
<1>3. AllShared
  BY <1>1, <1>2, NoneShared DEF IInv
<1>4. QED BY <1>1, <1>2, <1>3
         DEF Whole, Numbered, EdgesMeant, FileMeant, PickedMeant

\* No step leaves IInv.
LEMMA NumberingStep ==
  ASSUME IInv, [Next]_vars
  PROVE  IInv'
<1>1. CASE ReuseTable
  BY <1>1, ReuseStep
<1>2. CASE NumberFresh
  BY <1>2, FreshStep
<1>3. CASE Recompile
  BY <1>3, RecompileStep
<1>4. CASE MergeGraph \/ WriteInstance \/ Solve \/ SolverFails \/ ReadResult
  <2>1. UNCHANGED <<prod, test, id, fresh, reuse>>
    BY <1>4 DEF MergeGraph, WriteInstance, Solve, SolverFails, ReadResult
  <2>2. QED BY <2>1, NumberingKept
<1>5. CASE UNCHANGED vars
  BY <1>5, NumberingKept DEF vars
<1>6. QED BY <1>1, <1>2, <1>3, <1>4, <1>5 DEF Next

\* Every step keeps the edges, the file, what is picked and the sharing as meant.
LEMMA WholeStep ==
  ASSUME Whole, [Next]_vars
  PROVE  Whole'
<1>1. IInv'
  BY NumberingStep DEF Whole
<1>2. AllShared'
  <2>1. CASE ReuseTable
    BY <2>1, ReuseShares DEF Whole
  <2>2. CASE NumberFresh
    BY <2>2, FreshShares DEF Whole
  <2>3. CASE Recompile
    <3>1. (id = <<>> /\ reuse = <<>> /\ Typed)'
      BY <1>1, <2>3 DEF Recompile, Begin, IInv
    <3>2. QED BY <3>1, NoneShared, PTL
  <2>4. CASE MergeGraph \/ WriteInstance \/ Solve \/ SolverFails \/ ReadResult
    <3>1. UNCHANGED <<prod, test, id, reuse>>
      BY <2>4 DEF MergeGraph, WriteInstance, Solve, SolverFails, ReadResult
    <3>2. QED BY <3>1, SharingKept DEF Whole
  <2>5. CASE UNCHANGED vars
    <3>1. UNCHANGED <<prod, test, id, reuse>>
      BY <2>5 DEF vars
    <3>2. QED BY <3>1, SharingKept DEF Whole
  <2>6. QED BY <2>1, <2>2, <2>3, <2>4, <2>5 DEF Next
<1>3. Numbered' /\ EdgesMeant' /\ FileMeant' /\ PickedMeant'
  <2>1. CASE ReuseTable \/ NumberFresh
    BY <2>1, NumberingFiles
  <2>2. CASE MergeGraph
    BY <2>2, MergeStep
  <2>3. CASE WriteInstance
    BY <2>3, WriteStep
  <2>4. CASE Solve
    BY <2>4, SolveStep
  <2>5. CASE SolverFails
    BY <2>5, FailStep
  <2>6. CASE ReadResult \/ Recompile
    BY <2>6, EndStep
  <2>7. CASE UNCHANGED vars
    <3>1. /\ UNCHANGED <<prod, test, id, reuse, edges, file, picked>> /\ pc' = pc
      BY <2>7 DEF vars
    <3>2. Numbered' /\ PickedMeant'
      BY <3>1 DEF Whole, Numbered, PickedMeant, Clashing, Opposed, TestingEdge
    <3>3. EdgesMeant'
      <4>1. CASE pc \in {"write", "solve", "read"}
        BY <3>1, <4>1, EdgesKept DEF Whole
      <4>2. CASE pc \notin {"write", "solve", "read"}
        BY <3>1, <4>2 DEF EdgesMeant
      <4>3. QED BY <4>1, <4>2
    <3>4. FileMeant'
      <4>1. CASE pc \in {"solve", "read"}
        BY <3>1, <4>1, FileKept DEF Whole
      <4>2. CASE pc \notin {"solve", "read"}
        BY <3>1, <4>2 DEF FileMeant
      <4>3. QED BY <4>1, <4>2
    <3>5. QED BY <3>2, <3>3, <3>4
  <2>8. QED BY <2>1, <2>2, <2>3, <2>4, <2>5, <2>6, <2>7 DEF Next
<1>4. QED BY <1>1, <1>2, <1>3 DEF Whole

\* The numbering, the edges, the file, what is picked and how much is shared are
\* as meant in every reachable state of the compiler.
THEOREM Invariant == Spec => []Whole
BY InitWhole, WholeStep, PTL DEF Spec

\* IInv holds in every reachable state of the compiler.
THEOREM NumberingInvariant == Spec => []IInv
<1>1. Whole => IInv
  BY DEF Whole
<1>2. QED BY Invariant, <1>1, PTL

\* A shared number stands for one table of each program, with keys of the same
\* match type and width; no other number is shared.
THEOREM SharedTablesMatch == Spec => []ReuseMatched
<1>1. IInv => ReuseMatched
  BY DEF IInv
<1>2. QED BY NumberingInvariant, <1>1, PTL

\* The numbers and the list of shared tables keep their types, and the compiler
\* is at one of its steps.
THEOREM TypeCorrect == Spec => []TypeOK
<1> DEFINE Step == pc \in {"number", "write", "solve", "read", "done", "failed"}
<1>1. Init => Step
  BY DEF Init
<1>2. Step /\ [Next]_vars => Step'
  BY DEF Next, ReuseTable, NumberFresh, MergeGraph, WriteInstance, Solve,
         SolverFails, ReadResult, Recompile, Begin, vars
<1>3. IInv /\ Step => TypeOK
  BY DEF IInv, Typed, TypeOK
<1>4. QED BY NumberingInvariant, <1>1, <1>2, <1>3, PTL DEF Spec

\* Taking the first free table of the right kind loses nothing: of every kind of
\* key as many tables are shared as the poorer program has, whatever the order.
THEOREM SharingComplete == Spec => []ReuseComplete
<1>1. ASSUME Whole PROVE ReuseComplete
  <2> SUFFICES ASSUME pc # "number", NEW i \in Names(test), HasKey(test.tables[i])
               PROVE  Cardinality(SharedOf(Key(test.tables[i])))
                        = Least(Cardinality(Keyed(prod, Key(test.tables[i]))),
                                Cardinality(Keyed(test, Key(test.tables[i]))))
    BY DEF ReuseComplete, SharedOf
  <2>1. Len(id) = Len(test.tables)
    BY <1>1 DEF Whole, Numbered
  <2>2. \A key : MetOf(key) = Keyed(test, key)
    BY <2>1 DEF MetOf, Keyed, Names
  <2>3. QED BY <1>1, <2>2 DEF Whole, AllShared
<1>2. QED BY Invariant, <1>1, PTL

\* The solver reads a simple graph of the shared tables, with an edge exactly
\* where the programs are opposed, and no weight below either copy's size.
THEOREM InstanceIsMeant == Spec => []InstanceExact
<1>1. Whole => InstanceExact
  BY InstanceIsExact DEF Whole
<1>2. QED BY Invariant, <1>1, PTL

\* The tables the solver picks can be shared, and no other shared table could be
\* added to them.
THEOREM PickedCanBeShared == Spec => []PickedUnopposed
<1>1. ASSUME Whole PROVE PickedUnopposed
  <2> DEFINE tables == {reuse[v + 1] : v \in picked}
             Clash(u, v) == \E i, j \in Names(test) :
                /\ id[i] = u /\ id[j] = v
                /\ \/ <<i, j>> \in test.next /\ <<v, u>> \in prod.next
                   \/ <<j, i>> \in test.next /\ <<u, v>> \in prod.next
  <2> SUFFICES ASSUME pc = "read", picked # {}
               PROVE  /\ \A u, v \in tables : ~Clash(u, v)
                      /\ \A u \in ToSet(reuse) \ tables : \E v \in tables : Clash(u, v)
    BY DEF PickedUnopposed
  <2>1. /\ IInv /\ Len(id) = Len(test.tables)
        /\ test \in TestingPrograms /\ prod \in ProductionPrograms
        /\ Len(reuse) \in Nat /\ DOMAIN reuse = 1 .. Len(reuse)
    BY <1>1 DEF Whole, Numbered, IInv, Typed
  <2>2. /\ picked \subseteq 0 .. Len(reuse) - 1
        /\ \A u, v \in picked : ~Clashing(reuse[u + 1], reuse[v + 1])
        /\ \A u \in (0 .. Len(reuse) - 1) \ picked :
             \E v \in picked : Clashing(reuse[u + 1], reuse[v + 1])
    BY <1>1 DEF Whole, PickedMeant
  <2>3. test.next \subseteq Names(test) \X Names(test)
    BY <2>1, ProgramAssumption DEF Names
  <2>4. \A u : <<u, u>> \notin prod.next
    <3>1. ASSUME NEW u, <<u, u>> \in prod.next PROVE FALSE
      <4>1. \A e \in prod.next : <<e[2], e[1]>> \notin prod.next
        BY <2>1, OrderAssumption
      <4>2. <<u, u>>[1] = u /\ <<u, u>>[2] = u
        OBVIOUS
      <4>3. QED BY <3>1, <4>1, <4>2
    <3>2. QED BY <3>1
  <2>5. \A i, j \in 1 .. Len(id) : id[i] = id[j] => i = j
    BY <2>1 DEF IInv, ReuseMatched
  <2>6. ASSUME NEW u, NEW v PROVE Clash(u, v) => Clashing(u, v)
    <3>1. ASSUME NEW i \in Names(test), NEW j \in Names(test), id[i] = u, id[j] = v,
                 <<i, j>> \in test.next, <<v, u>> \in prod.next
          PROVE  Opposed(u, v)
      <4>1. TestingEdge(u, v)
        BY <3>1 DEF TestingEdge
      <4>2. u # v
        BY <2>4, <3>1
      <4>3. QED BY <3>1, <4>1, <4>2 DEF Opposed
    <3>2. ASSUME NEW i \in Names(test), NEW j \in Names(test), id[i] = u, id[j] = v,
                 <<j, i>> \in test.next, <<u, v>> \in prod.next
          PROVE  Opposed(v, u)
      <4>1. TestingEdge(v, u)
        BY <3>2 DEF TestingEdge
      <4>2. u # v
        BY <2>4, <3>2
      <4>3. QED BY <3>2, <4>1, <4>2 DEF Opposed
    <3>3. QED BY <3>1, <3>2 DEF Clashing
  <2>7. ASSUME NEW u, NEW v, Opposed(u, v)
        PROVE  \E i, j \in Names(test) : /\ id[i] = u /\ id[j] = v
                                         /\ <<i, j>> \in test.next /\ <<v, u>> \in prod.next
    <3>1. PICK e \in test.next : id[e[1]] = u /\ id[e[2]] = v
      BY <2>7 DEF Opposed, TestingEdge
    <3>2. PICK i \in Names(test), j \in Names(test) : e = <<i, j>>
      BY <2>3
    <3>3. <<v, u>> \in prod.next
      BY <2>7 DEF Opposed
    <3>4. QED BY <3>1, <3>2, <3>3
  <2>8. ASSUME NEW u, NEW v PROVE Clashing(u, v) => Clash(u, v)
    <3>1. CASE Opposed(u, v)
      BY <3>1, <2>7
    <3>2. CASE Opposed(v, u)
      BY <3>2, <2>7
    <3> HIDE DEF Clash
    <3>3. QED BY <3>1, <3>2 DEF Clashing
  <2>9. \A u, v : Clash(u, v) <=> Clashing(u, v)
    BY <2>6, <2>8
  <2> HIDE DEF Clash
  <2>10. \A u, v \in tables : ~Clash(u, v)
    BY <2>2, <2>9
  <2>11. ASSUME NEW u \in ToSet(reuse) \ tables PROVE \E v \in tables : Clash(u, v)
    <3>1. PICK k \in 1 .. Len(reuse) : u = reuse[k]
      BY <2>1 DEF ToSet
    <3>2. k - 1 \in 0 .. Len(reuse) - 1 /\ (k - 1) + 1 = k
      BY <2>1
    <3>3. k - 1 \notin picked
      BY <2>11, <3>1, <3>2
    <3>4. PICK v \in picked : Clashing(reuse[(k - 1) + 1], reuse[v + 1])
      BY <2>2, <3>2, <3>3
    <3>5. QED BY <2>9, <3>1, <3>2, <3>4
  <2>12. QED BY <2>10, <2>11
<1>2. QED BY Invariant, <1>1, PTL
=============================================================================
