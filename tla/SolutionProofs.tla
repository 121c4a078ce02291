--------------------------- MODULE SolutionProofs ---------------------------
(***************************************************************************)
(* Proofs about Solution, for every problem instance.  What one head and   *)
(* one turn of a loop does to the fields is in Lemmas; here it             *)
(* is put together for any sequence of calls.                              *)
(***************************************************************************)
EXTENDS Solution, Lemmas

-----------------------------------------------------------------------------
(***************************************************************************)
(* The inductive invariant                                                 *)
(***************************************************************************)

\* The fields add up, to what the call in progress owes the neighbours that its
\* loop has still to reach.  None of the properties is inductive alone: that no
\* two members are adjacent rests on the free vertices having a zero counter, that
\* on the counters being exact, and that on what the call has done so far.
AddsUp ==
  /\ call.op = "none" => Settled(g, s)
  /\ call.op = "add" => AddingTo(g, s, Pending, call.v)
  /\ call.op = "remove" => RemovingFrom(g, s, Pending, call.v)

IInv == TypeOK /\ AddsUp

\* What the invariant says of the graph, the object and the call.
LEMMA InvariantFacts ==
  ASSUME IInv
  PROVE  /\ IsSimpleGraph(g) /\ WellFormed(g, s) /\ call \in CallType
         /\ ISet(s) \subseteq Vertices(g) /\ Independent(g, ISet(s))
         /\ \A v \in Vertices(g) : v \in ISet(s) <=> InSolution(s, v)
<1>1. IsSimpleGraph(g) /\ call \in CallType /\ call.op \in {"none", "add", "remove"}
  BY DEF IInv, TypeOK, CallType
<1>2. WellFormed(g, s) /\ Independent(g, ISet(s))
  BY <1>1 DEF IInv, AddsUp, Settled, AddingTo, RemovingFrom, Accounted
<1>3. QED
  BY <1>1, <1>2, BlockFacts

\* A well-formed object and a call with a vertex are of the types.
LEMMA TypeKept ==
  ASSUME IsSimpleGraph(g), g' = g, WellFormed(g, s'), call' \in CallType,
         call'.op # "none" => /\ call'.v \in Vertices(g)
                              /\ call'.i <= Len(g.adj[call'.v]) + 1
  PROVE  TypeOK'
  BY DEF TypeOK, WellFormed

\* The first state: no members, every vertex free, no call.
LEMMA InitInvariant == Init => IInv
<1> SUFFICES ASSUME Init PROVE IInv
  OBVIOUS
<1>1. IsSimpleGraph(g) /\ s = NewSolution(g) /\ call = Idle
  BY GraphsAssumption DEF Init
<1>2. Settled(g, s)
  BY <1>1, NewSettled
<1>3. call.op = "none" /\ call \in CallType
  BY <1>1 DEF Idle, CallType
<1>4. TypeOK
  BY <1>1, <1>2, <1>3 DEF TypeOK, Settled, Accounted, WellFormed
<1>5. QED
  BY <1>2, <1>3, <1>4 DEF IInv, AddsUp

\* A call begins: all neighbours of its vertex are still to come.
LEMMA CallBegins ==
  ASSUME IInv, NEW op \in {"add", "remove"}, NEW v \in Vertices(g), g' = g,
         call' = [op |-> op, v |-> v, i |-> 1]
  PROVE  /\ call' \in CallType /\ call'.op = op /\ call'.v = v
         /\ call'.i <= Len(g.adj[v]) + 1
         /\ Pending' = Neighbors(g, v)
<1>1. IsSimpleGraph(g) /\ Vertices(g) \subseteq Nat
  BY InvariantFacts, NeighborFacts
<1>2. Len(g.adj[v]) \in Nat /\ StillToCome(g, v, 1) = Neighbors(g, v)
  BY <1>1, NeighborTurns
<1>3. call' \in CallType /\ call'.op = op /\ call'.v = v /\ call'.i = 1
  BY <1>1 DEF CallType
<1>4. Pending' = StillToCome(g, v, 1)
  BY <1>3 DEF Pending, StillToCome
<1>5. QED
  BY <1>2, <1>3, <1>4

\* addVertex begins: the vertex enters, and its neighbours are owed one.
LEMMA AddCallInvariant ==
  ASSUME IInv, NEW v \in Vertices(g), AddCall(v)
  PROVE  /\ IInv' /\ g' = g /\ ISet(s') = ISet(s) \cup {v} /\ v \notin ISet(s)
         /\ Independent(g, ISet(s) \cup {v})
<1>1. /\ call.op = "none" /\ IsFree(s, v)
      /\ s' = AddHead(g, s, v) /\ g' = g
      /\ call' = [op |-> "add", v |-> v, i |-> 1]
  BY DEF AddCall
<1>2. IsSimpleGraph(g) /\ Settled(g, s)
  BY <1>1, InvariantFacts DEF IInv, AddsUp
<1>3. /\ AddingTo(g, s', Neighbors(g, v), v)
      /\ ISet(s') = ISet(s) \cup {v} /\ v \notin ISet(s)
  BY <1>1, <1>2, AddBegins
<1>4. /\ call' \in CallType /\ call'.op = "add" /\ call'.v = v
      /\ call'.i <= Len(g.adj[v]) + 1
      /\ Pending' = Neighbors(g, v)
  BY <1>1, CallBegins
<1>5. TypeOK'
  BY <1>1, <1>2, <1>3, <1>4, TypeKept DEF AddingTo, Accounted
<1>6. AddsUp'
  BY <1>1, <1>3, <1>4 DEF AddsUp
<1>7. Independent(g, ISet(s) \cup {v})
  BY <1>3 DEF AddingTo, Accounted
<1>8. QED
  BY <1>1, <1>3, <1>5, <1>6, <1>7 DEF IInv

\* removeVertex begins: the vertex leaves, and its neighbours still count it.
LEMMA RemoveCallInvariant ==
  ASSUME IInv, NEW v \in Vertices(g), RemoveCall(v)
  PROVE  IInv' /\ g' = g /\ ISet(s') = ISet(s) \ {v} /\ v \in ISet(s)
<1>1. /\ call.op = "none" /\ InSolution(s, v)
      /\ s' = RemoveHead(g, s, v) /\ g' = g
      /\ call' = [op |-> "remove", v |-> v, i |-> 1]
  BY DEF RemoveCall
<1>2. IsSimpleGraph(g) /\ Settled(g, s)
  BY <1>1, InvariantFacts DEF IInv, AddsUp
<1>3. /\ RemovingFrom(g, s', Neighbors(g, v), v)
      /\ ISet(s') = ISet(s) \ {v} /\ v \in ISet(s)
  BY <1>1, <1>2, RemoveBegins
<1>4. /\ call' \in CallType /\ call'.op = "remove" /\ call'.v = v
      /\ call'.i <= Len(g.adj[v]) + 1
      /\ Pending' = Neighbors(g, v)
  BY <1>1, CallBegins
<1>5. TypeOK'
  BY <1>1, <1>2, <1>3, <1>4, TypeKept DEF RemovingFrom, Accounted
<1>6. AddsUp'
  BY <1>1, <1>3, <1>4 DEF AddsUp
<1>7. QED
  BY <1>1, <1>3, <1>5, <1>6 DEF IInv

\* Inside a loop the vertex of the call and the neighbour whose turn it is are
\* vertices, and adjacent; the neighbour is still to come, and after it is not.
LEMMA InLoopFacts ==
  ASSUME IInv, NEW op \in {"add", "remove"}, InLoop(op)
  PROVE  LET v == call.v
             u == g.adj[call.v][call.i]
         IN /\ call.op = op /\ v \in Vertices(g) /\ u \in Neighbors(g, v)
            /\ u \in Pending
            /\ call.i + 1 <= Len(g.adj[v]) + 1 /\ call.i + 1 \in Nat \ {0}
            /\ StillToCome(g, v, call.i + 1) = Pending \ {u}
<1> DEFINE v == call.v
           u == g.adj[call.v][call.i]
<1>1. /\ call.op = op /\ v \in Vertices(g)
      /\ call.i \in Nat \ {0} /\ call.i <= Len(g.adj[v])
  BY DEF IInv, TypeOK, CallType, InLoop
<1>2. /\ Len(g.adj[v]) \in Nat
      /\ \A i \in 1 .. Len(g.adj[v]) :
           /\ g.adj[v][i] \in Neighbors(g, v)
           /\ g.adj[v][i] \in StillToCome(g, v, i)
           /\ StillToCome(g, v, i + 1) = StillToCome(g, v, i) \ {g.adj[v][i]}
  BY <1>1, InvariantFacts, NeighborTurns
<1>3. call.i \in 1 .. Len(g.adj[v])
  BY <1>1, <1>2
<1>4. Pending = StillToCome(g, v, call.i)
  BY <1>1 DEF Pending, StillToCome
<1>5. /\ u \in Neighbors(g, v) /\ u \in StillToCome(g, v, call.i)
      /\ StillToCome(g, v, call.i + 1) = StillToCome(g, v, call.i) \ {u}
  BY <1>2, <1>3
<1>6. QED
  BY <1>1, <1>2, <1>4, <1>5

\* The call goes on with the next neighbour.
LEMMA CallGoesOn ==
  ASSUME IInv, NEW op \in {"add", "remove"}, InLoop(op), g' = g,
         call' = [call EXCEPT !.i = @ + 1]
  PROVE  /\ call' \in CallType /\ call'.op = op /\ call'.v = call.v
         /\ call'.i <= Len(g.adj[call.v]) + 1
         /\ Pending' = Pending \ {g.adj[call.v][call.i]}
<1>1. /\ call.op = op /\ call.i + 1 <= Len(g.adj[call.v]) + 1 /\ call.i + 1 \in Nat \ {0}
      /\ StillToCome(g, call.v, call.i + 1) = Pending \ {g.adj[call.v][call.i]}
  BY InLoopFacts
<1>2. /\ call'.op = op /\ call'.v = call.v /\ call'.i = call.i + 1
      /\ call' \in CallType
  BY <1>1, InvariantFacts DEF CallType
<1>3. Pending' = StillToCome(g, call.v, call.i + 1)
  BY <1>2 DEF Pending, StillToCome
<1>4. QED
  BY <1>1, <1>2, <1>3

\* In the middle of addVertex the neighbour's counter is paid.
LEMMA AddLoopInvariant ==
  ASSUME IInv, AddLoop
  PROVE  IInv' /\ g' = g /\ ISet(s') = ISet(s)
<1>0. PICK v, u : v = call.v /\ u = g.adj[call.v][call.i]
  OBVIOUS
<1>1. /\ InLoop("add") /\ g' = g /\ call' = [call EXCEPT !.i = @ + 1]
      /\ s' = AddNeighborOf(g, s, v, u)
  BY <1>0 DEF AddLoop
<1>2. call.op = "add" /\ v \in Vertices(g) /\ u \in Pending
  BY <1>0, <1>1, InLoopFacts
<1>3. IsSimpleGraph(g) /\ AddingTo(g, s, Pending, v)
  BY <1>0, <1>2, InvariantFacts DEF IInv, AddsUp
<1>4. AddingTo(g, s', Pending \ {u}, v) /\ ISet(s') = ISet(s)
  BY <1>1, <1>2, <1>3, AddTurns DEF AddTurned
<1>5. /\ call' \in CallType /\ call'.op = "add" /\ call'.v = v
      /\ call'.i <= Len(g.adj[v]) + 1 /\ Pending' = Pending \ {u}
  BY <1>0, <1>1, CallGoesOn
<1>6. TypeOK'
  BY <1>1, <1>2, <1>3, <1>4, <1>5, TypeKept DEF AddingTo, Accounted
<1>7. AddsUp'
  BY <1>1, <1>4, <1>5 DEF AddsUp
<1>8. QED
  BY <1>1, <1>4, <1>6, <1>7 DEF IInv

\* In the middle of removeVertex the neighbour is counted off.
LEMMA RemoveLoopInvariant ==
  ASSUME IInv, RemoveLoop
  PROVE  IInv' /\ g' = g /\ ISet(s') = ISet(s)
<1>0. PICK v, u : v = call.v /\ u = g.adj[call.v][call.i]
  OBVIOUS
<1>1. /\ InLoop("remove") /\ g' = g /\ call' = [call EXCEPT !.i = @ + 1]
      /\ s' = RemoveNeighborOf(g, s, v, u)
  BY <1>0 DEF RemoveLoop
<1>2. call.op = "remove" /\ v \in Vertices(g) /\ u \in Pending
  BY <1>0, <1>1, InLoopFacts
<1>3. IsSimpleGraph(g) /\ RemovingFrom(g, s, Pending, v)
  BY <1>0, <1>2, InvariantFacts DEF IInv, AddsUp
<1>4. RemovingFrom(g, s', Pending \ {u}, v) /\ ISet(s') = ISet(s)
  BY <1>1, <1>2, <1>3, RemoveTurns DEF RemoveTurned
<1>5. /\ call' \in CallType /\ call'.op = "remove" /\ call'.v = v
      /\ call'.i <= Len(g.adj[v]) + 1 /\ Pending' = Pending \ {u}
  BY <1>0, <1>1, CallGoesOn
<1>6. TypeOK'
  BY <1>1, <1>2, <1>3, <1>4, <1>5, TypeKept DEF RemovingFrom, Accounted
<1>7. AddsUp'
  BY <1>1, <1>4, <1>5 DEF AddsUp
<1>8. QED
  BY <1>1, <1>4, <1>6, <1>7 DEF IInv

\* A call returns: no neighbour is still to come, so nothing is owed.
LEMMA ReturnInvariant ==
  ASSUME IInv, Return
  PROVE  IInv' /\ g' = g /\ ISet(s') = ISet(s)
<1>1. /\ call.op \in {"add", "remove"} /\ call.i \in Nat /\ call.v \in Vertices(g)
      /\ call.i > Len(g.adj[call.v])
      /\ g' = g /\ s' = s /\ call' = Idle
  BY DEF IInv, TypeOK, CallType, Return
<1>2. Len(g.adj[call.v]) \in Nat
  BY <1>1, InvariantFacts, NeighborTurns
<1>3. Pending = {}
  BY <1>1, <1>2 DEF Pending
<1>4. Settled(g, s)
  <2>1. CASE call.op = "add"
    BY <1>3, <2>1, CallEnds DEF IInv, AddsUp, AddingTo
  <2>2. CASE call.op = "remove"
    BY <1>3, <2>2, CallEnds DEF IInv, AddsUp, RemovingFrom
  <2>3. QED
    BY <1>1, <2>1, <2>2
<1>5. TypeOK'
  BY <1>1 DEF IInv, TypeOK, Idle, CallType
<1>6. AddsUp'
  BY <1>1, <1>4 DEF AddsUp, Idle
<1>7. QED
  BY <1>1, <1>5, <1>6 DEF IInv

\* Every head and turn of a call, and every return, keeps the invariant.
LEMMA StepInvariant == IInv /\ [Next]_vars => IInv'
<1> SUFFICES ASSUME IInv, [Next]_vars PROVE IInv'
  OBVIOUS
<1>1. ASSUME NEW v \in Vertices(g), AddCall(v) PROVE IInv'
  BY <1>1, AddCallInvariant
<1>2. ASSUME NEW v \in Vertices(g), RemoveCall(v) PROVE IInv'
  BY <1>2, RemoveCallInvariant
<1>3. CASE AddLoop
  BY <1>3, AddLoopInvariant
<1>4. CASE RemoveLoop
  BY <1>4, RemoveLoopInvariant
<1>5. CASE Return
  BY <1>5, ReturnInvariant
<1>6. CASE UNCHANGED vars
  BY <1>6 DEF vars, IInv, TypeOK, AddsUp, Pending
<1>7. QED
  BY <1>1, <1>2, <1>3, <1>4, <1>5, <1>6 DEF Next

-----------------------------------------------------------------------------
(***************************************************************************)
(* Theorems                                                                *)
(***************************************************************************)

\* The types, and what every field adds up to, for every instance and every
\* sequence of calls of addVertex and removeVertex.
THEOREM Invariant == Spec => []IInv
  BY InitInvariant, StepInvariant, PTL DEF Spec

\* No array is indexed outside its bounds and every field keeps its type.
THEOREM TypeCorrect == Spec => []TypeOK
  BY Invariant, PTL DEF IInv

\* The swaps of the four moves never lose a vertex nor list one twice.
THEOREM PermutationKept == Spec => []Permutation
<1>1. IInv => Permutation
  BY InvariantFacts DEF WellFormed, Permutation
<1>2. QED
  BY <1>1, Invariant, PTL

\* The object never holds two adjacent vertices, not even inside a call: the
\* property the whole solver exists for.
THEOREM AlwaysIndependent == Spec => []IndependentISet
<1>1. IInv => IndependentISet
  BY InvariantFacts DEF IndependentISet
<1>2. QED
  BY <1>1, Invariant, PTL

\* What is owed to a counter, by the call in progress.
LEMMA OwedFacts ==
  ASSUME IInv
  PROVE  \E P, d, w :
           /\ Accounted(g, s, P, d, w)
           /\ \A u \in Vertices(g) :
                /\ Owed(u) = (IF u \in P THEN d ELSE 0)
                /\ Owed(u) * (IF call.op = "none" THEN 0 ELSE g.weight[call.v])
                     = (IF u \in P THEN w ELSE 0)
<1>1. call.op \in {"none", "add", "remove"}
  BY DEF IInv, TypeOK, CallType
<1>2. CASE call.op = "none"
  <2>1. Accounted(g, s, {}, 0, 0) /\ \A u : Owed(u) = 0
    BY <1>2 DEF IInv, AddsUp, Settled, Owed, Pending
  <2>2. QED
    BY <1>2, <2>1
<1>3. ASSUME call.op # "none" PROVE g.weight[call.v] \in Int
  BY <1>3, InvariantFacts, NeighborFacts DEF IInv, TypeOK
<1>4. CASE call.op = "add"
  <2>1. Accounted(g, s, Pending, -1, -g.weight[call.v])
    BY <1>4 DEF IInv, AddsUp, AddingTo
  <2>2. ASSUME NEW u \in Vertices(g)
        PROVE  /\ Owed(u) = (IF u \in Pending THEN -1 ELSE 0)
               /\ Owed(u) * (IF call.op = "none" THEN 0 ELSE g.weight[call.v])
                    = (IF u \in Pending THEN -g.weight[call.v] ELSE 0)
    BY <1>3, <1>4 DEF Owed
  <2>3. QED
    BY <2>1, <2>2
<1>5. CASE call.op = "remove"
  <2>1. Accounted(g, s, Pending, 1, g.weight[call.v])
    BY <1>5 DEF IInv, AddsUp, RemovingFrom
  <2>2. ASSUME NEW u \in Vertices(g)
        PROVE  /\ Owed(u) = (IF u \in Pending THEN 1 ELSE 0)
               /\ Owed(u) * (IF call.op = "none" THEN 0 ELSE g.weight[call.v])
                    = (IF u \in Pending THEN g.weight[call.v] ELSE 0)
    BY <1>3, <1>5 DEF Owed
  <2>3. QED
    BY <2>1, <2>2
<1>6. QED
  BY <1>1, <1>2, <1>4, <1>5

\* tightness_ is exact, up to what the call in progress owes.
THEOREM CountersExact == Spec => []TightnessCounts
<1>1. IInv => TightnessCounts
  BY OwedFacts DEF Accounted, Count, TightnessCounts
<1>2. QED
  BY <1>1, Invariant, PTL

\* weight_ is the sum of the members' weights, and mu_ what an insertion would
\* gain, up to what the call in progress owes.
THEOREM WeightsExact == Spec => []WeightsAddUp
<1>1. \A S : SumOver(S) = SumOf(g.weight, S)
  BY DEF SumOver, SumOf
<1>2. IInv => WeightsAddUp
  BY <1>1, OwedFacts DEF Accounted, Load, WeightsAddUp
<1>3. QED
  BY <1>2, Invariant, PTL

\* The free block is the set of vertices that could be added.
THEOREM FreeBlockExact == Spec => []FreeIffUntight
<1>1. IInv => FreeIffUntight
  BY OwedFacts DEF Accounted, FreeIffUntight
<1>2. QED
  BY <1>1, Invariant, PTL

\* addVertex holds its vertex, and removeVertex keeps its vertex addable, at every
\* turn of their loops.
THEOREM CallsProgress == Spec => []CallProgress
<1>1. IInv => CallProgress
  <2> SUFFICES ASSUME IInv PROVE CallProgress
    OBVIOUS
  <2>1. call.op = "add" => call.v \in ISet(s) /\ call.v \in Vertices(g)
    BY DEF IInv, TypeOK, AddsUp, AddingTo
  <2>2. call.op = "remove" => /\ call.v \notin ISet(s) /\ call.v \in Vertices(g)
                              /\ Neighbors(g, call.v) \cap ISet(s) = {}
    BY DEF IInv, TypeOK, AddsUp, RemovingFrom
  <2>3. QED
    BY <2>1, <2>2, InvariantFacts, NeighborFacts DEF CallProgress
<1>2. QED
  BY <1>1, Invariant, PTL

\* The assertions of moveFreeToNonFreePartition and moveNonFreeToFreePartition,
\* which the shipped build does not compile, would never have fired.
THEOREM AssertionsHold == Spec => []MovesFromOwnBlock
<1>1. IInv => MovesFromOwnBlock
  <2> SUFFICES ASSUME IInv PROVE MovesFromOwnBlock
    OBVIOUS
  <2> DEFINE u == g.adj[call.v][call.i]
  <2>1. ASSUME InLoop("remove") PROVE IsNonFree(s, u)
    <3>1. call.op = "remove" /\ call.v \in Vertices(g) /\ u \in Pending
      BY <2>1, InLoopFacts
    <3>2. RemovingFrom(g, s, Pending, call.v)
      BY <3>1 DEF IInv, AddsUp
    <3>3. QED
      BY <3>1, <3>2, InvariantFacts, RemovingFacts
  <2>2. ASSUME InLoop("add") PROVE ~InSolution(s, u)
    <3>1. call.op = "add" /\ call.v \in Vertices(g) /\ u \in Neighbors(g, call.v)
      BY <2>2, InLoopFacts
    <3>2. call.v \in ISet(s) /\ u \in Vertices(g)
      BY <3>1, InvariantFacts, NeighborFacts DEF IInv, AddsUp, AddingTo
    <3>3. QED
      BY <3>1, <3>2, InvariantFacts DEF Independent
  <2>3. QED
    BY <2>1, <2>2 DEF MovesFromOwnBlock
<1>2. QED
  BY <1>1, Invariant, PTL

\* integrityCheck, which main.cpp asserts after every change in a debug build,
\* succeeds whenever no call is in progress.
THEOREM IntegrityHolds == Spec => []IntegrityAtRest
<1>1. IInv => IntegrityAtRest
  BY InvariantFacts, SettledIntegrity DEF IInv, AddsUp, IntegrityAtRest
<1>2. QED
  BY <1>1, Invariant, PTL

\* The object implements an abstract independent set of the instance: the first
\* step of addVertex inserts, the first step of removeVertex deletes, every turn
\* of a loop and every return leaves the set alone.
THEOREM Refinement == Spec => ImplementsIndependentSet
<1>1. Init => Abstract!Init
  BY GraphsAssumption, NewSettled DEF Init, Abstract!Init
<1>2. IInv /\ IInv' /\ [Next]_vars => [Abstract!Next]_(Abstract!avars)
  <2> SUFFICES ASSUME IInv, IInv', [Next]_vars
               PROVE  Abstract!Next \/ UNCHANGED <<Vertices(g), Adjacent, ISet(s)>>
    BY DEF Abstract!avars
  <2>1. g' = g => Vertices(g)' = Vertices(g) /\ Adjacent' = Adjacent
    BY DEF Adjacent
  <2>2. ASSUME NEW v \in Vertices(g), AddCall(v) PROVE Abstract!Insert(v)
    <3>1. g' = g /\ ISet(s)' = ISet(s) \cup {v} /\ v \notin ISet(s)
      BY <2>2, AddCallInvariant
    <3>2. Independent(g, ISet(s) \cup {v})
      BY <2>2, AddCallInvariant
    <3>3. \A u \in ISet(s) : <<u, v>> \notin Adjacent /\ <<v, u>> \notin Adjacent
      BY <3>2 DEF Independent, Adjacent
    <3>4. QED
      BY <2>1, <3>1, <3>3 DEF Abstract!Insert
  <2>3. ASSUME NEW v \in Vertices(g), RemoveCall(v) PROVE Abstract!Delete(v)
    <3>1. g' = g /\ ISet(s)' = ISet(s) \ {v} /\ v \in ISet(s)
      BY <2>3, RemoveCallInvariant
    <3>2. QED
      BY <2>1, <3>1 DEF Abstract!Delete
  <2>4. CASE AddLoop \/ RemoveLoop \/ Return
    BY <2>1, <2>4, AddLoopInvariant, RemoveLoopInvariant, ReturnInvariant
  <2>5. CASE UNCHANGED vars
    BY <2>1, <2>5 DEF vars
  <2>6. QED
    BY <2>2, <2>3, <2>4, <2>5 DEF Next, Abstract!Next
<1>3. QED
  BY <1>1, <1>2, Invariant, PTL DEF Spec, ImplementsIndependentSet, Abstract!Spec
=============================================================================
