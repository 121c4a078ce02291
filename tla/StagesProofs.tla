---------------------------- MODULE StagesProofs ----------------------------
(***************************************************************************)
(* For any program whose table graph has no cycle, any order of the        *)
(* dictionaries and any latencies: no conflict between tables is left      *)
(* without a dependency, the reduction loses none, the stages are the      *)
(* least that keep the dependencies, and the two passes over the critical  *)
(* paths agree.                                                            *)
(***************************************************************************)
EXTENDS Stages, Lemmas

-----------------------------------------------------------------------------
(***************************************************************************)
(* Paths                                                                   *)
(***************************************************************************)

\* n is below itself, and an edge never leads out of what is below n.
LEMMA BelowClosed ==
  ASSUME NEW edges, NEW n
  PROVE  /\ n \in Below(edges, n)
         /\ \A e \in edges : e[1] \in Below(edges, n) => e[2] \in Below(edges, n)
BY DEF Below

\* Nothing else is below n: a set with n that no edge leaves has it all.
LEMMA BelowLeast ==
  ASSUME NEW edges, NEW n, NEW S, n \in S, \A e \in edges : e[1] \in S => e[2] \in S
  PROVE  Below(edges, n) \subseteq S
<1> DEFINE nodes == {n} \cup {e[2] : e \in edges}
<1>1. S \cap nodes \in SUBSET nodes /\ n \in S \cap nodes
  OBVIOUS
<1>2. \A e \in edges : e[1] \in S \cap nodes => e[2] \in S \cap nodes
  OBVIOUS
<1>3. \A m \in Below(edges, n) : m \in S \cap nodes
  BY <1>1, <1>2 DEF Below
<1>4. QED BY <1>3

\* What is below a node below n is below n.
LEMMA BelowBelow ==
  ASSUME NEW edges, NEW n, NEW m \in Below(edges, n)
  PROVE  Below(edges, m) \subseteq Below(edges, n)
BY BelowClosed, BelowLeast

\* With more edges there is more below.
LEMMA BelowMore ==
  ASSUME NEW edges, NEW more, NEW n,
         \A e \in edges : e[2] \in Below(more, e[1])
  PROVE  Below(edges, n) \subseteq Below(more, n)
<1>1. n \in Below(more, n)
  BY BelowClosed
<1>2. ASSUME NEW e \in edges, e[1] \in Below(more, n) PROVE e[2] \in Below(more, n)
  BY <1>2, BelowBelow
<1>3. QED BY <1>1, <1>2, BelowLeast

\* A path that goes somewhere has a first edge.
LEMMA FirstEdge ==
  ASSUME NEW edges, NEW n, NEW m \in Below(edges, n), m # n
  PROVE  \E e \in edges : e[1] = n /\ m \in Below(edges, e[2])
<1> DEFINE S == {n} \cup UNION {Below(edges, e[2]) : e \in {d \in edges : d[1] = n}}
<1>1. ASSUME NEW e \in edges, e[1] \in S PROVE e[2] \in S
  BY <1>1, BelowClosed
<1>2. Below(edges, n) \subseteq S
  <2> HIDE DEF S
  <2>1. n \in S BY DEF S
  <2>2. QED BY <1>1, <2>1, BelowLeast
<1>3. QED BY <1>2

\* And a last one.
LEMMA LastEdge ==
  ASSUME NEW edges, NEW n, NEW m \in Below(edges, n), m # n
  PROVE  \E e \in edges : e[2] = m /\ e[1] \in Below(edges, n)
<1> SUFFICES ASSUME \A e \in edges : e[2] = m => e[1] \notin Below(edges, n) PROVE FALSE
  OBVIOUS
<1> DEFINE S == Below(edges, n) \ {m}
<1>1. ASSUME NEW e \in edges, e[1] \in S PROVE e[2] \in S
  BY <1>1, BelowClosed
<1>2. n \in S
  BY BelowClosed
<1>3. Below(edges, n) \subseteq S
  <2> HIDE DEF S
  <2>1. QED BY <1>1, <1>2, BelowLeast
<1>4. QED BY <1>3

\* A graph without a cycle, on the nodes V.
IsDag(edges, V) ==
  /\ IsFiniteSet(V) /\ edges \subseteq V \X V
  /\ \A e \in edges : e[1] \notin Below(edges, e[2])

\* Of two nodes of such a graph at most one is below the other.
LEMMA OneWay ==
  ASSUME NEW V, NEW edges, IsDag(edges, V),
         NEW n, NEW m \in Below(edges, n), n \in Below(edges, m)
  PROVE  n = m
<1> SUFFICES ASSUME n # m PROVE FALSE
  OBVIOUS
<1>1. PICK e \in edges : e[1] = n /\ m \in Below(edges, e[2])
  BY FirstEdge
<1>2. n \in Below(edges, e[2])
  BY <1>1, BelowBelow
<1>3. QED BY <1>1, <1>2 DEF IsDag

\* Every set of its nodes has a first one.
LEMMA Earliest ==
  ASSUME NEW V, NEW edges, IsDag(edges, V), NEW T \in SUBSET V, T # {}
  PROVE  \E v \in T : \A w \in T : v \in Below(edges, w) => w = v
<1> DEFINE above(v) == {x \in V : v \in Below(edges, x)}
           Bad == {above(v) : v \in T}
<1>1. IsFiniteSet(V) /\ Bad \subseteq SUBSET V /\ Bad # {}
  BY DEF IsDag
<1>2. PICK U \in Bad : \A W \in SUBSET U : W # U => W \notin Bad
  <2> HIDE DEF Bad
  <2>1. QED BY <1>1, SmallestSubset
<1>3. PICK v \in T : U = above(v)
  BY <1>2
<1>4. ASSUME NEW w \in T, v \in Below(edges, w), w # v PROVE FALSE
  <2>1. above(w) \in SUBSET above(v)
    BY <1>4, BelowBelow
  <2>2. v \in above(v)
    BY BelowClosed
  <2>3. v \notin above(w)
    BY <1>4, OneWay
  <2>4. above(w) # U /\ above(w) \in SUBSET U /\ above(w) \in Bad
    BY <1>3, <2>1, <2>2, <2>3
  <2>5. QED BY <1>2, <2>4
<1>5. QED BY <1>4

-----------------------------------------------------------------------------
(***************************************************************************)
(* The table graph                                                         *)
(***************************************************************************)

\* The edges of a table graph are edges between its nodes.
LEMMA EdgesInNodes ==
  ASSUME NEW h
  PROVE  Edges(h) \subseteq NodesOf(h) \X NodesOf(h)
<1> DEFINE all == UNION {{<<u, v>> : v \in Successors(h, u)} : u \in DOMAIN h.next_}
<1>1. SUFFICES ASSUME NEW u \in NodesOf(h), NEW v \in Successors(h, u) PROVE v \in NodesOf(h)
  BY DEF Edges
<1>2. u \in Below(all, h.p4_ingress_ptr) /\ u \in DOMAIN h.next_ /\ v \in DOMAIN h.next_
  BY <1>1 DEF NodesOf, Successors
<1>3. <<u, v>> \in all
  BY <1>1, <1>2
<1>4. v \in Below(all, h.p4_ingress_ptr)
  <2> HIDE DEF all
  <2>1. <<u, v>>[1] = u /\ <<u, v>>[2] = v
    OBVIOUS
  <2>2. QED BY <1>2, <1>3, <2>1, BelowClosed
<1>5. QED BY <1>2, <1>4 DEF NodesOf

\* They have no cycle, as assumed, and what is below a node of the pipeline is in it.
LEMMA ProgramIsDag ==
  ASSUME prog \in Programs
  PROVE  /\ IsDag(Edges(graph), Nodes)
         /\ \A n \in Nodes : Below(Edges(graph), n) \subseteq Nodes
<1>1. Edges(graph) \subseteq Nodes \X Nodes
  BY EdgesInNodes DEF Nodes
<1>2. IsFiniteSet(Nodes)
  <2>1. IsFiniteSet(DOMAIN graph.next_)
    BY ProgramsAssumption DEF graph
  <2>2. QED BY <2>1, FS_Subset DEF Nodes, NodesOf
<1>3. \A e \in Edges(graph) : e[1] \notin Below(Edges(graph), e[2])
  BY ProgramsAssumption DEF graph
<1>4. IsDag(Edges(graph), Nodes)
  BY <1>1, <1>2, <1>3 DEF IsDag
<1>5. ASSUME NEW n \in Nodes PROVE Below(Edges(graph), n) \subseteq Nodes
  <2>1. \A e \in Edges(graph) : e[1] \in Nodes => e[2] \in Nodes
    BY <1>1
  <2>2. QED BY <2>1, BelowLeast
<1>6. QED BY <1>4, <1>5

-----------------------------------------------------------------------------
(***************************************************************************)
(* The dependencies found                                                  *)
(***************************************************************************)

Types == {CONTROL_FLOW, REDUNDANT, REVERSE_READ, PREDICATION, SUCCESSOR, ACTION_DEP, MATCH}

\* What resolve_type answers, if it finds a dependency.
LEMMA ResolvedTypes ==
  ASSUME NEW h, NEW u, NEW actions, NEW v, ResolveType(h, u, actions, v) # NOP
  PROVE  ResolveType(h, u, actions, v) \in Types /\ ResolveType(h, u, actions, v) > 0
BY DEF ResolveType, Types, NOP, REVERSE_READ, PREDICATION, SUCCESSOR, ACTION_DEP, MATCH

\* A dependency leads from one node forward to another.
Forwards(e) == /\ e \in Nodes \X Nodes
               /\ e[1] # e[2] /\ e[2] \in Below(Edges(graph), e[1])

DepsOK == \A e \in DOMAIN deps : deps[e] \in Types /\ Forwards(e)

\* The state while the dependencies are looked for and reduced.
Typed ==
  /\ prog \in Programs
  /\ DepsOK
  /\ rest \subseteq Edges(graph)
  /\ unreduced \subseteq Nodes
  /\ resolved \in BOOLEAN
  /\ ~resolved => unreduced = {}

\* An edge itself leads forward.
LEMMA EdgeForwards ==
  ASSUME prog \in Programs, NEW e \in Edges(graph)
  PROVE  Forwards(e) /\ \A to \in Below(Edges(graph), e[2]) : Forwards(<<e[1], to>>)
<1>1. IsDag(Edges(graph), Nodes) /\ e[1] \in Nodes /\ e[2] \in Nodes /\ e = <<e[1], e[2]>>
  BY ProgramIsDag DEF IsDag
<1>2. ASSUME NEW to \in Below(Edges(graph), e[2]) PROVE Forwards(<<e[1], to>>)
  <2>1. to \in Nodes
    BY <1>1, ProgramIsDag
  <2>2. to # e[1]
    BY <1>1 DEF IsDag
  <2>3. e[2] \in Below(Edges(graph), e[1])
    BY BelowClosed
  <2>4. to \in Below(Edges(graph), e[1])
    BY <2>3, BelowBelow
  <2>5. QED BY <1>1, <2>1, <2>2, <2>4 DEF Forwards
<1>3. QED BY <1>1, <1>2, BelowClosed

\* What following an edge adds to the dependencies.
LEMMA Followed ==
  ASSUME NEW e, FollowEdge(e), Typed
  PROVE  /\ \A d \in DOMAIN deps' :
              \/ /\ d[1] = e[1] /\ d = <<e[1], d[2]>> /\ d[2] \in Below(Edges(graph), e[2])
                 /\ deps'[d] \in Types /\ deps'[d] > 0
              \/ d \in DOMAIN deps /\ deps'[d] = deps[d]
         /\ \A d \in Positive(deps) : d \in Positive(deps')
         /\ \A to \in Below(Edges(graph), e[2]) :
              ResolveType(graph, e[1], ActionSet(graph, e[1], e[2]), to) # NOP => <<e[1], to>> \in Positive(deps')
<1> DEFINE type(to) == ResolveType(graph, e[1], ActionSet(graph, e[1], e[2]), to)
           keys == {<<e[1], to>> : to \in {t \in Below(Edges(graph), e[2]) : type(t) # NOP}}
           add == [d \in keys |-> type(d[2])]
<1>1. deps' = [d \in DOMAIN deps \cup keys |-> IF d \in keys THEN type(d[2]) ELSE deps[d]]
  BY DEF FollowEdge
<1>2. DOMAIN deps' = keys \cup DOMAIN deps
      /\ \A d \in DOMAIN deps' : deps'[d] = IF d \in keys THEN add[d] ELSE deps[d]
  <2> HIDE DEF keys, type
  <2>1. QED BY <1>1
<1>3. ASSUME NEW d \in keys
      PROVE  /\ d[1] = e[1] /\ d = <<e[1], d[2]>> /\ d[2] \in Below(Edges(graph), e[2])
             /\ add[d] \in Types /\ add[d] > 0
  <2>1. PICK to \in Below(Edges(graph), e[2]) : d = <<e[1], to>> /\ type(to) # NOP
    OBVIOUS
  <2>2. type(to) \in Types /\ type(to) > 0
    BY <2>1, ResolvedTypes
  <2>3. add[d] = type(to)
    BY <2>1
  <2>4. QED BY <2>1, <2>2, <2>3
<1>4. \A to \in Below(Edges(graph), e[2]) : type(to) # NOP => <<e[1], to>> \in keys
  OBVIOUS
<1> HIDE DEF keys, add
<1>5. QED BY <1>2, <1>3, <1>4 DEF Positive

\* What reducing a node leaves of the dependencies.
LEMMA Reduced ==
  ASSUME NEW u, Reduce(u)
  PROVE  /\ DOMAIN deps' = DOMAIN deps
         /\ \A d \in DOMAIN deps : deps'[d] = deps[d] \/ (deps[d] > 0 /\ deps'[d] = REDUNDANT)
BY DEF Reduce

LEMMA TypedStart == Init => Typed
<1> SUFFICES ASSUME Init PROVE Typed
  OBVIOUS
<1>1. prog \in Programs /\ deps = Direct(graph) /\ rest = Edges(graph) /\ resolved = FALSE /\ unreduced = {}
  BY DEF Init, Analyse
<1>2. ASSUME NEW e \in DOMAIN deps PROVE deps[e] \in Types /\ Forwards(e)
  <2>1. e \in Edges(graph)
    BY <1>1 DEF Direct
  <2>2. Forwards(e)
    BY <1>1, <2>1, EdgeForwards
  <2>3. deps[e] \in Types
    <3> DEFINE type == ResolveType(graph, e[1], ActionSet(graph, e[1], e[2]), e[2])
    <3>1. deps[e] = IF type = NOP THEN CONTROL_FLOW ELSE type
      BY <1>1, <2>1 DEF Direct
    <3>2. type # NOP => type \in Types
      BY ResolvedTypes
    <3>3. CONTROL_FLOW \in Types
      BY DEF Types
    <3> HIDE DEF type
    <3>4. QED BY <3>1, <3>2, <3>3
  <2>4. QED BY <2>2, <2>3
<1>3. QED BY <1>1, <1>2 DEF Typed, DepsOK

LEMMA TypedStep == Typed /\ [Next]_vars => Typed'
<1> SUFFICES ASSUME Typed, [Next]_vars PROVE Typed'
  OBVIOUS
<1>0. ASSUME prog' = prog, \A e \in DOMAIN deps' : deps'[e] \in Types /\ Forwards(e)
      PROVE  DepsOK' /\ graph' = graph /\ Edges(graph)' = Edges(graph) /\ Nodes' = Nodes /\ (prog \in Programs)'
  BY <1>0 DEF DepsOK, Forwards, Nodes, graph, Typed
<1>1. ASSUME NEW e \in rest, FollowEdge(e) PROVE Typed'
  <2>1. prog' = prog /\ rest' \subseteq rest /\ UNCHANGED <<resolved, unreduced>>
    BY <1>1 DEF FollowEdge
  <2>2. e \in Edges(graph) /\ prog \in Programs
    BY DEF Typed
  <2>3. ASSUME NEW d \in DOMAIN deps' PROVE deps'[d] \in Types /\ Forwards(d)
    <3>1. CASE d = <<e[1], d[2]>> /\ d[2] \in Below(Edges(graph), e[2]) /\ deps'[d] \in Types
      <4>1. Forwards(<<e[1], d[2]>>)
        BY <2>2, <3>1, EdgeForwards
      <4>2. QED BY <3>1, <4>1
    <3>2. CASE d \in DOMAIN deps /\ deps'[d] = deps[d]
      BY <3>2 DEF Typed, DepsOK
    <3>3. QED BY <1>1, <3>1, <3>2, Followed
  <2>4. QED BY <1>0, <2>1, <2>3 DEF Typed
<1>2. ASSUME Resolved PROVE Typed'
  <2>1. prog' = prog /\ rest' = rest /\ deps' = deps /\ resolved' = TRUE /\ unreduced' \subseteq Nodes
    BY <1>2 DEF Resolved
  <2>2. QED BY <1>0, <2>1 DEF Typed, DepsOK
<1>3. ASSUME NEW u \in unreduced, Reduce(u) PROVE Typed'
  <2>1. prog' = prog /\ rest' = rest /\ resolved' = resolved /\ unreduced' \subseteq unreduced
    BY <1>3 DEF Reduce
  <2>2. ASSUME NEW d \in DOMAIN deps' PROVE deps'[d] \in Types /\ Forwards(d)
    BY <1>3, Reduced DEF Typed, DepsOK, Types
  <2>3. QED BY <1>0, <2>1, <2>2 DEF Typed
<1>4. ASSUME UNCHANGED depVars PROVE Typed'
  BY <1>0, <1>4 DEF Typed, DepsOK, depVars
<1>5. QED
  BY <1>1, <1>2, <1>3, <1>4 DEF Next, Analysing, Counting, Place, ForwardPath, BackwardPath, vars

\* Dependencies have the types of the code and only lead forward, whatever the programs
\* and the orders: annotate_hlir never makes a table depend on itself or on a later one.
THEOREM TypeCorrect == Spec => []TypeOK
<1>1. Typed => TypeOK
  BY DEF Typed, TypeOK, DepsOK, Forwards, Types
<1>2. QED BY <1>1, TypedStart, TypedStep, PTL DEF Spec

\* The program never changes, nor does what is asked of it.
LEMMA SameProgram ==
  ASSUME prog' = prog
  PROVE  /\ graph' = graph
         /\ \A u, v : \A a : ResolveType(graph, u, a, v)' = ResolveType(graph, u, a, v)
         /\ \A u, v : ActionSet(graph, u, v)' = ActionSet(graph, u, v)
<1>1. graph' = graph
  BY DEF graph
<1>2. \A n : IsConditional(n)' = IsConditional(n)
  BY <1>1 DEF IsConditional
<1>3. \A n : ActionsAt(n)' = ActionsAt(n)
  BY <1>2 DEF ActionsAt
<1>4. \A n : \A a : Read(n, a)' = Read(n, a) /\ Written(n, a)' = Written(n, a)
  BY DEF Read, Written
<1>5. \A n : \A a : Touched(n, a)' = Touched(n, a)
  BY <1>4 DEF Touched
<1>6. ASSUME NEW u, NEW v, NEW a PROVE ResolveType(graph, u, a, v)' = ResolveType(graph, u, a, v)
  BY <1>1, <1>2, <1>3, <1>4, <1>5, Zenon DEF ResolveType, NOP, MATCH, ACTION_DEP, SUCCESSOR, PREDICATION, REVERSE_READ
<1>7. ASSUME NEW u, NEW v PROVE ActionSet(graph, u, v)' = ActionSet(graph, u, v)
  BY <1>1, <1>2, <1>3, Zenon DEF ActionSet
<1>8. QED BY <1>1, <1>6, <1>7
-----------------------------------------------------------------------------
(***************************************************************************)
(* Nothing is forgotten                                                    *)
(***************************************************************************)

\* The dependencies along the edges that have been followed.
Remembered(d) ==
  \A e \in Edges(graph) \ rest : \A v \in Below(Edges(graph), e[2]) :
    ResolveType(graph, e[1], ActionSet(graph, e[1], e[2]), v) # NOP => <<e[1], v>> \in Positive(d)

Searched == /\ ~resolved => Remembered(deps)
            /\ resolved => rest = {} /\ Remembered(found)

LEMMA SearchedStart == Init => Searched
BY DEF Init, Analyse, Searched, Remembered

LEMMA SearchedStep == Typed /\ Searched /\ [Next]_vars => Searched'
<1> SUFFICES ASSUME Typed, Searched, [Next]_vars PROVE Searched'
  OBVIOUS
<1>1. ASSUME NEW e \in rest, FollowEdge(e) PROVE Searched'
  <2>1. prog' = prog /\ rest' = rest \ {e} /\ resolved' = resolved /\ found' = found
    BY <1>1 DEF FollowEdge
  <2>2. ~resolved
    BY DEF Searched
  <2>3. ASSUME NEW d \in Edges(graph) \ rest', NEW v \in Below(Edges(graph), d[2]),
               ResolveType(graph, d[1], ActionSet(graph, d[1], d[2]), v) # NOP
        PROVE  <<d[1], v>> \in Positive(deps')
    <3>1. CASE d = e
      BY <1>1, <2>3, <3>1, Followed
    <3>2. CASE d # e
      <4>1. <<d[1], v>> \in Positive(deps)
        BY <2>1, <2>2, <2>3, <3>2 DEF Searched, Remembered
      <4>2. QED BY <1>1, <4>1, Followed
    <3>3. QED BY <3>1, <3>2
  <2>4. Remembered(deps)'
    BY <2>1, <2>3, SameProgram DEF Remembered
  <2>5. QED BY <2>1, <2>2, <2>4 DEF Searched
<1>2. ASSUME Resolved PROVE Searched'
  BY <1>2, SameProgram DEF Resolved, Searched, Remembered
<1>3. ASSUME NEW u \in unreduced, Reduce(u) PROVE Searched'
  <2>1. resolved
    BY DEF Typed
  <2>2. QED BY <1>3, <2>1, SameProgram DEF Reduce, Searched, Remembered
<1>4. ASSUME UNCHANGED depVars PROVE Searched'
  BY <1>4, SameProgram DEF depVars, Searched, Remembered
<1>5. QED
  BY <1>1, <1>2, <1>3, <1>4 DEF Next, Analysing, Counting, Place, ForwardPath, BackwardPath, vars

\* With more actions, more is read and written.
LEMMA MoreActions ==
  ASSUME NEW u, NEW a, NEW actions, a \in actions
  PROVE  Read(u, {a}) \subseteq Read(u, actions) /\ Written(u, {a}) \subseteq Written(u, actions)
BY DEF Read, Written

LEMMA NothingIsForgotten == Typed /\ Searched => NothingForgotten
<1> SUFFICES ASSUME Typed, Searched, resolved PROVE NothingForgotten
  BY DEF NothingForgotten
<1>1. rest = {} /\ Remembered(found) /\ prog \in Programs
  BY DEF Searched, Typed
<1>2. ASSUME NEW u \in Nodes, NEW a \in ActionsAt(u), NEW v \in Leads(u, a), Conflict(u, a, v)
      PROVE  <<u, v>> \in Positive(found)
  <2>1. PICK e \in Edges(graph) : e[1] = u /\ a \in ActionSet(graph, u, e[2]) /\ v \in Below(Edges(graph), e[2])
    BY <1>2 DEF Leads
  <2> DEFINE actions == ActionSet(graph, u, e[2])
  <2>2. Read(u, {a}) \subseteq Read(u, actions) /\ Written(u, {a}) \subseteq Written(u, actions)
    BY <2>1, MoreActions
  <2>3. ResolveType(graph, u, actions, v) # NOP
    <3> HIDE DEF actions
    <3>1. CASE Written(u, {a}) \cap (prog.match[v] \cup Touched(v, ActionsAt(v))) # {}
      <4>1. \/ Written(u, actions) \cap prog.match[v] # {}
            \/ Written(u, actions) \cap Touched(v, ActionsAt(v)) # {}
        BY <2>2, <3>1
      <4>2. QED BY <4>1 DEF ResolveType, NOP, MATCH, ACTION_DEP, SUCCESSOR, PREDICATION, REVERSE_READ
    <3>2. CASE (prog.match[u] \cup Read(u, {a})) \cap Written(v, ActionsAt(v)) # {}
      <4>1. (prog.match[u] \cup Read(u, actions)) \cap Written(v, ActionsAt(v)) # {}
        BY <2>2, <3>2
      <4>2. QED BY <4>1 DEF ResolveType, NOP, MATCH, ACTION_DEP, SUCCESSOR, PREDICATION, REVERSE_READ
    <3>3. QED BY <1>2, <3>1, <3>2 DEF Conflict
  <2>4. QED BY <1>1, <2>1, <2>3 DEF Remembered
<1>3. ASSUME NEW v \in Nodes, NEW b \in graph.conditional_barrier[v]
      PROVE  <<b[1], v>> \in Positive(found)
  <2>1. b[1] # v /\ v \in Below(Edges(graph), b[1])
    BY <1>1, ProgramsAssumption DEF Nodes, graph
  <2>2. PICK e \in Edges(graph) : e[1] = b[1] /\ v \in Below(Edges(graph), e[2])
    BY <2>1, FirstEdge
  <2>3. ResolveType(graph, e[1], ActionSet(graph, e[1], e[2]), v) # NOP
    BY <2>2 DEF ResolveType, NOP, MATCH, ACTION_DEP, SUCCESSOR, PREDICATION, REVERSE_READ
  <2>4. QED BY <1>1, <2>2, <2>3 DEF Remembered
<1>4. QED BY <1>2, <1>3 DEF NothingForgotten

\* Whatever the tables and the order of the edges, two tables between which a field is
\* passed or overwritten are found to depend on each other, and so is what is under a
\* condition.
THEOREM NoConflictForgotten == Spec => []NothingForgotten
<1>1. Typed /\ Searched => NothingForgotten
  BY NothingIsForgotten
<1>2. QED BY <1>1, TypedStart, TypedStep, SearchedStart, SearchedStep, PTL DEF Spec

-----------------------------------------------------------------------------
(***************************************************************************)
(* The reduction                                                           *)
(***************************************************************************)

\* Dependencies lead to nodes below in the table graph.
LEMMA DependenciesBelow ==
  ASSUME Typed, NEW n
  PROVE  Below(Positive(deps), n) \subseteq Below(Edges(graph), n)
<1>1. \A e \in Positive(deps) : e[2] \in Below(Edges(graph), e[1])
  BY DEF Typed, DepsOK, Forwards, Positive
<1>2. QED BY <1>1, BelowMore

\* Where the node reduced is not below, all paths are left.
LEMMA UntouchedBelow ==
  ASSUME NEW u, Reduce(u), NEW n, u \notin Below(Positive(deps), n)
  PROVE  Below(Positive(deps), n) \subseteq Below(Positive(deps'), n)
<1> DEFINE S == Below(Positive(deps), n) \cap Below(Positive(deps'), n)
<1>1. n \in S
  BY BelowClosed
<1>2. ASSUME NEW e \in Positive(deps), e[1] \in S PROVE e[2] \in S
  <2>1. e[1] # u /\ e \in Positive(deps')
    BY <1>2 DEF Reduce, Positive
  <2>2. QED BY <1>2, <2>1, BelowClosed
<1>3. Below(Positive(deps), n) \subseteq S
  <2> HIDE DEF S
  <2>1. QED BY <1>1, <1>2, BelowLeast
<1>4. QED BY <1>3

\* An edge that is left is a path by itself.
LEMMA EdgeIsPath ==
  ASSUME NEW d, NEW e \in Positive(d), NEW s, d[e] >= s
  PROVE  StrongPath(d, e[1], e[2], s)
BY BelowClosed DEF StrongPath

\* The edges of a node that are taken away are replaced by paths through its others,
\* those to the first nodes first.
LEMMA EdgesReplaced ==
  ASSUME Typed, NEW u, Reduce(u)
  PROVE  \A e \in Positive(deps) : StrongPath(deps', e[1], e[2], deps[e])
<1> DEFINE Lost == {e \in Positive(deps) : ~StrongPath(deps', e[1], e[2], deps[e])}
           T == {e[2] : e \in Lost}
           dag == Edges(graph)
<1> SUFFICES ASSUME Lost # {} PROVE FALSE
  OBVIOUS
<1>1. \A e \in Positive(deps) : deps[e] \in Int /\ Forwards(e)
  BY DEF Typed, DepsOK, Positive, Types, CONTROL_FLOW, REDUNDANT, REVERSE_READ, PREDICATION, SUCCESSOR, ACTION_DEP, MATCH
<1>2. T \in SUBSET Nodes /\ T # {}
  BY <1>1 DEF Forwards
<1>3. IsDag(dag, Nodes)
  BY ProgramIsDag DEF Typed
<1>4. PICK v \in T : \A w \in T : v \in Below(dag, w) => w = v
  <2> HIDE DEF T, dag
  <2>1. QED BY <1>2, <1>3, Earliest
<1>5. PICK e \in Lost : e[2] = v
  BY <1>4
<1>6. e \notin Positive(deps')
  <2>1. e \in Positive(deps') => deps'[e] = deps[e] /\ deps[e] >= deps[e]
    BY <1>1, <1>5 DEF Reduce, Positive, REDUNDANT
  <2>2. e \in Positive(deps') => StrongPath(deps', e[1], e[2], deps[e])
    BY <2>1, EdgeIsPath
  <2>3. QED BY <1>5, <2>2
<1>7. PICK f \in Positive(deps) :
        /\ e[1] = u /\ f[1] = u /\ f[2] # e[2] /\ e[2] \in Below(Positive(deps), f[2])
        /\ deps[f] >= deps[e] \/ StrongPath(deps, f[2], e[2], deps[e])
  BY <1>5, <1>6 DEF Reduce, Positive
<1>8. f \notin Lost
  <2>1. e[2] \in Below(dag, f[2])
    BY <1>7, DependenciesBelow
  <2>2. QED BY <1>4, <1>5, <1>7, <2>1
<1>9. PICK g \in Positive(deps') :
        deps'[g] >= deps[f] /\ g[1] \in Below(Positive(deps'), u) /\ f[2] \in Below(Positive(deps'), g[2])
  BY <1>7, <1>8 DEF StrongPath
<1>10. u \notin Below(Positive(deps), f[2])
  <2>1. u \in Below(Positive(deps), f[2]) => u \in Below(dag, f[2])
    BY DependenciesBelow
  <2>2. f[2] \in Below(dag, u) /\ u # f[2]
    BY <1>1, <1>7 DEF Forwards
  <2> HIDE DEF dag
  <2>3. QED BY <1>3, <2>1, <2>2, OneWay
<1>11. Below(Positive(deps), f[2]) \subseteq Below(Positive(deps'), f[2])
  BY <1>10, UntouchedBelow
<1>12. f[2] \in Below(Positive(deps'), u)
  <2>1. g[2] \in Below(Positive(deps'), u)
    BY <1>9, BelowClosed
  <2>2. QED BY <1>9, <2>1, BelowBelow
<1>13. CASE deps[f] >= deps[e]
  <2>1. deps'[g] \in Int
    BY <1>1, <1>9 DEF Reduce, Positive, REDUNDANT
  <2>2. deps'[g] >= deps[e]
    BY <1>1, <1>5, <1>9, <1>13, <2>1
  <2>3. e[2] \in Below(Positive(deps'), g[2])
    BY <1>7, <1>9, <1>11, BelowBelow
  <2>4. StrongPath(deps', e[1], e[2], deps[e])
    BY <1>7, <1>9, <2>2, <2>3 DEF StrongPath
  <2>5. QED BY <1>5, <2>4
<1>14. CASE StrongPath(deps, f[2], e[2], deps[e])
  <2>1. PICK h \in Positive(deps) :
          deps[h] >= deps[e] /\ h[1] \in Below(Positive(deps), f[2]) /\ e[2] \in Below(Positive(deps), h[2])
    BY <1>14 DEF StrongPath
  <2>2. h[1] # u /\ h \in Positive(deps') /\ deps'[h] = deps[h]
    BY <1>10, <2>1 DEF Reduce, Positive
  <2>3. h[1] \in Below(Positive(deps'), u)
    BY <1>11, <1>12, <2>1, BelowBelow
  <2>4. h[2] \in Below(Positive(deps), f[2])
    BY <2>1, BelowClosed
  <2>5. u \notin Below(Positive(deps), h[2])
    BY <1>10, <2>4, BelowBelow
  <2>6. e[2] \in Below(Positive(deps'), h[2])
    BY <2>1, <2>5, UntouchedBelow
  <2>7. StrongPath(deps', e[1], e[2], deps[e])
    BY <1>7, <2>1, <2>2, <2>3, <2>6 DEF StrongPath
  <2>8. QED BY <1>5, <2>7
<1>15. QED BY <1>7, <1>13, <1>14

\* What is left of the dependencies that were found.
Unbroken ==
  resolved =>
    /\ DOMAIN deps = DOMAIN found
    /\ \A e \in DOMAIN found : deps[e] = found[e] \/ (found[e] > 0 /\ deps[e] = REDUNDANT)
    /\ \A e \in Positive(found) : found[e] \in Int /\ StrongPath(deps, e[1], e[2], found[e])

\* A path as strong as another that was as strong as asked for.
LEMMA PathsCompose ==
  ASSUME Typed, NEW u, Reduce(u), NEW from, NEW to, NEW s \in Int, StrongPath(deps, from, to, s)
  PROVE  StrongPath(deps', from, to, s)
<1>1. PICK f \in Positive(deps) :
        deps[f] >= s /\ f[1] \in Below(Positive(deps), from) /\ to \in Below(Positive(deps), f[2])
  BY DEF StrongPath
<1>2. \A e \in Positive(deps) : StrongPath(deps', e[1], e[2], deps[e])
  BY EdgesReplaced
<1>3. \A e \in Positive(deps) : e[2] \in Below(Positive(deps'), e[1])
  <2>1. SUFFICES ASSUME NEW e \in Positive(deps) PROVE e[2] \in Below(Positive(deps'), e[1])
    OBVIOUS
  <2>2. PICK g \in Positive(deps') : g[1] \in Below(Positive(deps'), e[1]) /\ e[2] \in Below(Positive(deps'), g[2])
    BY <1>2 DEF StrongPath
  <2>3. g[2] \in Below(Positive(deps'), e[1])
    BY <2>2, BelowClosed
  <2>4. QED BY <2>2, <2>3, BelowBelow
<1>4. \A n : Below(Positive(deps), n) \subseteq Below(Positive(deps'), n)
  BY <1>3, BelowMore
<1>5. PICK g \in Positive(deps') :
        deps'[g] >= deps[f] /\ g[1] \in Below(Positive(deps'), f[1]) /\ f[2] \in Below(Positive(deps'), g[2])
  BY <1>2 DEF StrongPath
<1>6. deps[f] \in Int /\ deps'[g] \in Int
  <2>1. \A e \in DOMAIN deps : deps[e] \in Int
    BY DEF Typed, DepsOK, Types, CONTROL_FLOW, REDUNDANT, REVERSE_READ, PREDICATION, SUCCESSOR, ACTION_DEP, MATCH
  <2>2. QED BY <1>5, <2>1 DEF Reduce, Positive, REDUNDANT
<1>7. deps'[g] >= s
  BY <1>1, <1>5, <1>6
<1>8. g[1] \in Below(Positive(deps'), from)
  BY <1>1, <1>4, <1>5, BelowBelow
<1>9. to \in Below(Positive(deps'), g[2])
  BY <1>1, <1>4, <1>5, BelowBelow
<1>10. QED BY <1>7, <1>8, <1>9 DEF StrongPath

LEMMA UnbrokenStep == Typed /\ Searched /\ Unbroken /\ [Next]_vars => Unbroken'
<1> SUFFICES ASSUME Typed, Searched, Unbroken, [Next]_vars PROVE Unbroken'
  OBVIOUS
<1>1. ASSUME NEW e \in rest, FollowEdge(e) PROVE Unbroken'
  BY <1>1 DEF FollowEdge, Searched, Unbroken
<1>2. ASSUME Resolved PROVE Unbroken'
  <2>1. deps' = deps /\ found' = deps
    BY <1>2 DEF Resolved
  <2>2. ASSUME NEW e \in Positive(deps) PROVE deps[e] \in Int /\ StrongPath(deps, e[1], e[2], deps[e])
    <3>1. deps[e] \in Int
      BY DEF Typed, DepsOK, Positive, Types, CONTROL_FLOW, REDUNDANT, REVERSE_READ, PREDICATION, SUCCESSOR, ACTION_DEP, MATCH
    <3>2. deps[e] >= deps[e]
      BY <3>1
    <3>3. QED BY <3>1, <3>2, EdgeIsPath
  <2>3. QED BY <2>1, <2>2 DEF Unbroken
<1>3. ASSUME NEW u \in unreduced, Reduce(u) PROVE Unbroken'
  <2>1. resolved /\ resolved' = resolved /\ found' = found
    BY <1>3 DEF Reduce, Typed
  <2>2. \A e \in Positive(found) : StrongPath(deps', e[1], e[2], found[e])
    BY <1>3, <2>1, PathsCompose DEF Unbroken
  <2>3. DOMAIN deps' = DOMAIN deps
        /\ \A d \in DOMAIN deps : deps'[d] = deps[d] \/ (deps[d] > 0 /\ deps'[d] = REDUNDANT)
    BY <1>3, Reduced
  <2>4. QED BY <2>1, <2>2, <2>3 DEF Unbroken, REDUNDANT
<1>4. ASSUME UNCHANGED depVars PROVE Unbroken'
  BY <1>4 DEF depVars, Unbroken
<1>5. QED
  BY <1>1, <1>2, <1>3, <1>4 DEF Next, Analysing, Counting, Place, ForwardPath, BackwardPath, vars

LEMMA UnbrokenStart == Init => Unbroken
BY DEF Init, Analyse, Unbroken

\* Whatever the order in which the nodes are reduced, a dependency marked redundant still
\* follows from those left, by a path at least as strong: nothing else may be reordered.
THEOREM ReductionIsSound == Spec => []ReductionKeeps
<1>1. Unbroken => ReductionKeeps
  BY DEF Unbroken, ReductionKeeps, Annotated
<1>2. QED BY <1>1, TypedStart, TypedStep, SearchedStart, SearchedStep, UnbrokenStart, UnbrokenStep, PTL DEF Spec
-----------------------------------------------------------------------------
(***************************************************************************)
(* A pass over the critical paths                                          *)
(***************************************************************************)

\* Where a function on a finite set has its largest value.
LEMMA LargestValue ==
  ASSUME NEW V, IsFiniteSet(V), NEW f, \A u \in V : f[u] \in Nat
  PROVE  \A U \in SUBSET V : U # {} => \E u \in U : \A w \in U : f[w] <= f[u]
<1> DEFINE Has(U) == \E u \in U : \A w \in U : f[w] <= f[u]
           A == {U \in SUBSET V : U = {} \/ Has(U)}
<1>1. ASSUME NEW U \in SUBSET V, \A Y \in SUBSET U : Y # U => Y \in A
      PROVE  U \in A
  <2>1. CASE U = {}
    BY <2>1
  <2>2. CASE U # {}
    <3>1. PICK x : x \in U
      BY <2>2
    <3>2. U \ {x} \in A
      BY <1>1, <3>1
    <3>3. CASE U \ {x} = {}
      <4>1. \A w \in U : w = x /\ f[w] \in Nat
        BY <3>3
      <4>2. Has(U)
        BY <3>1, <4>1
      <4>3. QED BY <4>2
    <3>4. CASE Has(U \ {x})
      <4>1. PICK z \in U \ {x} : \A y \in U \ {x} : f[y] <= f[z]
        BY <3>4
      <4>2. f[x] \in Nat /\ f[z] \in Nat /\ \A y \in U : y = x \/ y \in U \ {x}
        BY <3>1, <4>1
      <4>3. CASE f[x] <= f[z]
        BY <4>1, <4>2, <4>3
      <4>4. CASE f[z] <= f[x]
        <5>1. \A y \in U : f[y] \in Nat
          OBVIOUS
        <5>2. \A y \in U : f[y] <= f[x]
          BY <4>1, <4>2, <4>4, <5>1
        <5>3. QED BY <3>1, <5>2
      <4>5. QED BY <4>2, <4>3, <4>4
    <3>5. QED BY <3>2, <3>3, <3>4
  <2>3. QED BY <2>1, <2>2
<1>2. \A U \in SUBSET V : U \in A
  <2> HIDE DEF A
  <2>1. QED BY <1>1, EverySubset
<1>3. QED BY <1>2

\* A graph with latencies on the nodes V: at most one edge from a node to another.
IsTimed(G, V) ==
  /\ \A x \in G : x.from \in V /\ x.to \in V /\ x.latency \in Nat
  /\ \A x, y \in G : x.from = y.from /\ x.to = y.to => x.latency = y.latency

Backwards(G) == {[from |-> x.to, to |-> x.from, latency |-> x.latency] : x \in G}

LEMMA BackwardsIsTimed ==
  ASSUME NEW G, NEW V, IsTimed(G, V)
  PROVE  IsTimed(Backwards(G), V)
BY DEF IsTimed, Backwards

\* h is no less at the start of an edge than at its end, with the latency.
Slopes(G, h) == \A x \in G : x.latency + h[x.to] <= h[x.from]

\* The times of the nodes done: none is too early for an edge to it, and none later than
\* a path to it takes, which is less than any h that slopes falls on it.
Reached(h, t, n) == \E s \in DOMAIN t : t[n] + h[n] <= h[s]

Times(G, V, t) ==
  /\ DOMAIN t \subseteq V
  /\ \A n \in DOMAIN t : t[n] \in Nat
  /\ \A x \in G : x.to \in DOMAIN t => x.from \in DOMAIN t /\ t[x.from] + x.latency <= t[x.to]
  /\ \A h \in [V -> Nat] : Slopes(G, h) => \A n \in DOMAIN t : Reached(h, t, n)

\* What is known of the nodes to come: the longest path from those done.
Longer(G, t, p, n) == \E x \in G : x.to = n /\ x.from \in DOMAIN t /\ p[n] = t[x.from] + x.latency

Paths(G, V, t, p) ==
  /\ p \in [V -> Nat]
  /\ \A x \in G : x.from \in DOMAIN t => t[x.from] + x.latency <= p[x.to]
  /\ \A n \in V : p[n] = 0 \/ Longer(G, t, p, n)

\* Before the first node.
LEMMA PassStart ==
  ASSUME NEW G, NEW V, NEW t, DOMAIN t = {}
  PROVE  Times(G, V, t) /\ Paths(G, V, t, [n \in V |-> 0])
BY DEF Times, Paths

\* The next node of a pass.
LEMMA PassStep ==
  ASSUME NEW G, NEW V, IsTimed(G, V), NEW t, NEW p, Times(G, V, t), Paths(G, V, t, p),
         NEW n \in V, n \notin DOMAIN t, \A x \in G : x.to = n => x.from \in DOMAIN t
  PROVE  Times(G, V, At(t, n, p[n]))
<1> DEFINE r == At(t, n, p[n])
<1>1. DOMAIN r = DOMAIN t \cup {n} /\ r[n] = p[n] /\ \A m \in DOMAIN t : r[m] = t[m] /\ m # n
  BY DEF At
<1>2. p[n] \in Nat
  BY DEF Paths
<1> HIDE DEF r
<1>3. DOMAIN r \subseteq V /\ \A m \in DOMAIN r : r[m] \in Nat
  BY <1>1, <1>2 DEF Times
<1>4. ASSUME NEW x \in G, x.to \in DOMAIN r
      PROVE  x.from \in DOMAIN r /\ r[x.from] + x.latency <= r[x.to]
  <2>1. CASE x.to = n
    BY <1>1, <2>1 DEF Paths
  <2>2. CASE x.to \in DOMAIN t
    BY <1>1, <2>2 DEF Times
  <2>3. QED BY <1>1, <1>4, <2>1, <2>2
<1>5. ASSUME NEW h \in [V -> Nat], Slopes(G, h), NEW m \in DOMAIN r
      PROVE  Reached(h, r, m)
  <2>1. \A k \in DOMAIN t : Reached(h, t, k)
    BY <1>5 DEF Times
  <2>2. CASE m \in DOMAIN t
    BY <1>1, <2>1, <2>2 DEF Reached
  <2>3. CASE m = n /\ p[n] = 0
    BY <1>1, <1>2, <2>3 DEF Reached
  <2>4. CASE m = n /\ Longer(G, t, p, n)
    <3>1. PICK x \in G : x.to = n /\ x.from \in DOMAIN t /\ p[n] = t[x.from] + x.latency
      BY <2>4 DEF Longer
    <3>2. PICK s \in DOMAIN t : t[x.from] + h[x.from] <= h[s]
      BY <2>1, <3>1 DEF Reached
    <3>3. x.latency + h[n] <= h[x.from]
      BY <1>5, <3>1 DEF Slopes
    <3>4. x.latency \in Nat /\ t[x.from] \in Nat /\ h[n] \in Nat /\ h[x.from] \in Nat /\ h[s] \in Nat
      BY <3>1 DEF IsTimed, Times
    <3>5. p[n] + h[n] <= h[s]
      BY <3>1, <3>2, <3>3, <3>4
    <3>6. QED BY <1>1, <2>4, <3>5 DEF Reached
  <2>5. QED BY <1>1, <2>2, <2>3, <2>4 DEF Paths
<1>6. Times(G, V, r)
  BY <1>3, <1>4, <1>5 DEF Times
<1>7. QED BY <1>6 DEF r

\* The edges of the node n have been looked at.
Relaxed(G, V, p, n, q) ==
  /\ q \in [V -> Nat]
  /\ \A m \in V : /\ p[m] <= q[m]
                  /\ q[m] = p[m] \/ \E x \in G : x.from = n /\ x.to = m /\ q[m] = p[n] + x.latency
  /\ \A x \in G : x.from = n => p[n] + x.latency <= q[x.to]

\* What is known of the nodes to come, then.
LEMMA PathsStep ==
  ASSUME NEW G, NEW V, IsTimed(G, V), NEW t, NEW p, NEW q, Times(G, V, t), Paths(G, V, t, p),
         NEW n \in V, n \notin DOMAIN t, Relaxed(G, V, p, n, q)
  PROVE  Paths(G, V, At(t, n, p[n]), q)
<1> DEFINE r == At(t, n, p[n])
<1>1. DOMAIN r = DOMAIN t \cup {n} /\ r[n] = p[n] /\ \A m \in DOMAIN t : r[m] = t[m] /\ m # n
  BY DEF At
<1> HIDE DEF r
<1>2. ASSUME NEW x \in G, x.from \in DOMAIN r PROVE r[x.from] + x.latency <= q[x.to]
  <2>1. CASE x.from = n
    BY <1>1, <2>1 DEF Relaxed
  <2>2. CASE x.from \in DOMAIN t
    <3>1. t[x.from] + x.latency <= p[x.to] /\ x.to \in V
      BY <2>2 DEF Paths, IsTimed
    <3>2. p[x.to] <= q[x.to]
      BY <3>1 DEF Relaxed
    <3>3. t[x.from] \in Nat /\ x.latency \in Nat /\ p[x.to] \in Nat /\ q[x.to] \in Nat
      BY <2>2, <3>1 DEF Times, IsTimed, Paths, Relaxed
    <3>4. QED BY <1>1, <2>2, <3>1, <3>2, <3>3
  <2>3. QED BY <1>1, <1>2, <2>1, <2>2
<1>3. ASSUME NEW m \in V PROVE q[m] = 0 \/ Longer(G, r, q, m)
  <2>1. CASE q[m] = p[m] /\ p[m] # 0
    <3>1. Longer(G, t, p, m)
      BY <2>1 DEF Paths
    <3>2. QED BY <1>1, <2>1, <3>1 DEF Longer
  <2>2. CASE \E x \in G : x.from = n /\ x.to = m /\ q[m] = p[n] + x.latency
    BY <1>1, <2>2 DEF Longer
  <2>3. QED BY <2>1, <2>2 DEF Relaxed
<1>4. Paths(G, V, r, q)
  BY <1>2, <1>3 DEF Paths, Relaxed
<1>5. QED BY <1>4 DEF r

\* The longest path, when there is one.
LEMMA LongestIs ==
  ASSUME NEW V, IsFiniteSet(V), V # {}, NEW t, DOMAIN t = V, \A n \in V : t[n] \in Nat
  PROVE  Longest(t) \in Nat /\ (\E n \in V : Longest(t) = t[n]) /\ \A n \in V : t[n] <= Longest(t)
<1>1. PICK u \in V : \A w \in V : t[w] <= t[u]
  BY LargestValue
<1>2. t[u] \in {t[n] : n \in DOMAIN t} /\ \A n \in DOMAIN t : t[n] <= t[u]
  BY <1>1
<1>3. Longest(t) \in {t[n] : n \in DOMAIN t} /\ \A n \in DOMAIN t : t[n] <= Longest(t)
  BY <1>2 DEF Longest
<1>4. QED BY <1>3

\* When both passes have come to every node, they have found the same longest path, and
\* no node with what is before and after it makes a longer one.
LEMMA PassesMeet ==
  ASSUME NEW G, NEW V, IsTimed(G, V), IsFiniteSet(V), NEW t, NEW b,
         Times(G, V, t), Times(Backwards(G), V, b), DOMAIN t = V, DOMAIN b = V, V # {}
  PROVE  /\ Longest(t) = Longest(b) /\ Longest(b) \in Nat
         /\ \A n \in V : t[n] + b[n] <= Longest(b)
         /\ \A x \in G : b[x.to] + x.latency <= b[x.from]
<1>0. \A n \in V : t[n] \in Nat /\ b[n] \in Nat
  BY DEF Times
<1> DEFINE over(f) == [n \in V |-> f[n]]
<1>1. ASSUME NEW x \in G PROVE b[x.to] + x.latency <= b[x.from] /\ x.latency + b[x.to] <= b[x.from]
  <2>1. [from |-> x.to, to |-> x.from, latency |-> x.latency] \in Backwards(G)
    BY DEF Backwards
  <2>2. b[x.to] + x.latency <= b[x.from]
    BY <2>1 DEF Times, IsTimed
  <2>3. b[x.to] \in Nat /\ x.latency \in Nat
    BY <1>0 DEF IsTimed
  <2>4. QED BY <2>2, <2>3
<1>2. over(b) \in [V -> Nat] /\ Slopes(G, over(b))
  BY <1>0, <1>1 DEF Slopes, IsTimed
<1>3. over(t) \in [V -> Nat] /\ Slopes(Backwards(G), over(t))
  <2>1. ASSUME NEW y \in Backwards(G) PROVE y.latency + t[y.to] <= t[y.from]
    <3>1. PICK x \in G : y = [from |-> x.to, to |-> x.from, latency |-> x.latency]
      BY DEF Backwards
    <3>2. t[x.from] + x.latency <= t[x.to] /\ t[x.from] \in Nat /\ x.latency \in Nat
      BY <1>0 DEF Times, IsTimed
    <3>3. QED BY <3>1, <3>2
  <2>2. \A y \in Backwards(G) : y.to \in V /\ y.from \in V
    BY DEF Backwards, IsTimed
  <2>3. QED BY <1>0, <2>1, <2>2 DEF Slopes
<1>4. ASSUME NEW n \in V PROVE \E s \in V : t[n] + b[n] <= b[s]
  <2>1. Reached(over(b), t, n)
    <3> HIDE DEF over
    <3>1. QED BY <1>2 DEF Times
  <2>2. QED BY <2>1 DEF Reached
<1>5. ASSUME NEW n \in V PROVE \E s \in V : b[n] + t[n] <= t[s]
  <2>1. Reached(over(t), b, n)
    <3> HIDE DEF over
    <3>1. QED BY <1>3 DEF Times
  <2>2. QED BY <2>1 DEF Reached
<1>6. Longest(t) \in Nat /\ (\E n \in V : Longest(t) = t[n]) /\ \A n \in V : t[n] <= Longest(t)
  BY <1>0, LongestIs
<1>7. Longest(b) \in Nat /\ (\E n \in V : Longest(b) = b[n]) /\ \A n \in V : b[n] <= Longest(b)
  BY <1>0, LongestIs
<1>8. ASSUME NEW n \in V PROVE t[n] + b[n] <= Longest(t) /\ t[n] + b[n] <= Longest(b)
  <2>1. PICK s \in V : t[n] + b[n] <= b[s]
    BY <1>4
  <2>2. PICK m \in V : b[n] + t[n] <= t[m]
    BY <1>5
  <2>3. t[n] \in Nat /\ b[n] \in Nat /\ b[s] \in Nat /\ t[m] \in Nat
    BY <1>0
  <2>4. b[s] <= Longest(b) /\ t[m] <= Longest(t)
    BY <1>6, <1>7
  <2>5. QED BY <1>6, <1>7, <2>1, <2>2, <2>3, <2>4
<1>9. Longest(t) <= Longest(b)
  <2>1. PICK n \in V : Longest(t) = t[n]
    BY <1>6
  <2>2. t[n] \in Nat /\ b[n] \in Nat
    BY <1>0
  <2>3. QED BY <1>7, <1>8, <2>1, <2>2
<1>10. Longest(b) <= Longest(t)
  <2>1. PICK n \in V : Longest(b) = b[n]
    BY <1>7
  <2>2. t[n] \in Nat /\ b[n] \in Nat
    BY <1>0
  <2>3. QED BY <1>6, <1>8, <2>1, <2>2
<1>11. Longest(t) = Longest(b)
  BY <1>6, <1>7, <1>9, <1>10
<1>12. QED BY <1>1, <1>7, <1>8, <1>11
-----------------------------------------------------------------------------
(***************************************************************************)
(* Stages                                                                  *)
(***************************************************************************)

\* Which edges are dependencies, and which of them cost a stage.
LEMMA EdgeTypes ==
  ASSUME Typed
  PROVE  /\ DOMAIN TypeOfEdge = Positive(deps) \cup Edges(graph)
         /\ \A e \in DOMAIN TypeOfEdge : TypeOfEdge[e] > 0 <=> e \in Positive(deps)
         /\ \A e \in DOMAIN TypeOfEdge : TypeOfEdge[e] \in 0 .. 4
         /\ \A e \in Positive(deps) : TypeOfEdge[e] >= 3 <=> deps[e] >= ACTION_DEP
<1>1. DOMAIN TypeOfEdge = Positive(deps) \cup Edges(graph)
  BY DEF TypeOfEdge
<1>2. /\ EdgeType(MATCH) = 4 /\ EdgeType(ACTION_DEP) = 3 /\ EdgeType(SUCCESSOR) = 2 /\ EdgeType(PREDICATION) = 2
      /\ EdgeType(REVERSE_READ) = 1 /\ EdgeType(REDUNDANT) = 0 /\ EdgeType(CONTROL_FLOW) = 0
  BY DEF EdgeType, CONTROL_FLOW, REDUNDANT, REVERSE_READ, PREDICATION, SUCCESSOR, ACTION_DEP, MATCH
<1>3. \A e \in DOMAIN TypeOfEdge : TypeOfEdge[e] = IF e \in DOMAIN deps THEN EdgeType(deps[e]) ELSE 0
  BY DEF TypeOfEdge
<1>4. \A e \in DOMAIN deps : deps[e] \in Types
  BY DEF Typed, DepsOK
<1>5. ASSUME NEW e \in DOMAIN TypeOfEdge
      PROVE  /\ TypeOfEdge[e] > 0 <=> e \in Positive(deps)
             /\ TypeOfEdge[e] \in 0 .. 4
             /\ e \in Positive(deps) => (TypeOfEdge[e] >= 3 <=> deps[e] >= ACTION_DEP)
  <2>1. CASE e \notin DOMAIN deps
    BY <1>3, <2>1 DEF Positive
  <2>2. CASE e \in DOMAIN deps
    <3>1. deps[e] \in Types /\ TypeOfEdge[e] = EdgeType(deps[e])
      BY <1>3, <1>4, <2>2
    <3>2. QED BY <1>2, <2>2, <3>1
      DEF Positive, Types, CONTROL_FLOW, REDUNDANT, REVERSE_READ, PREDICATION, SUCCESSOR, ACTION_DEP, MATCH
  <2>3. QED BY <2>1, <2>2
<1>6. \A e \in Positive(deps) : e \in DOMAIN TypeOfEdge
  BY <1>1
<1>7. QED BY <1>1, <1>5, <1>6

\* The stages a dependency costs.
Cost(type) == IF type >= ACTION_DEP THEN 1 ELSE 0

\* The tables placed: after all they depend on, and no later than one of those asks for.
Staged ==
  /\ DOMAIN early \subseteq Nodes
  /\ \A n \in DOMAIN early : early[n] \in Nat
  /\ \A e \in Positive(deps) : e[2] \in DOMAIN early =>
        e[1] \in DOMAIN early /\ early[e[2]] >= early[e[1]] + Cost(deps[e])
  /\ \A n \in DOMAIN early : early[n] > 0 =>
        \E e \in Positive(found) : /\ e[2] = n /\ e[1] \in DOMAIN early
                                   /\ early[n] = early[e[1]] + Cost(found[e])

Placed == ~prog.split => (IF Annotated THEN Staged ELSE early = <<>>)

LEMMA PlacedStart == Init => Placed
BY DEF Init, Analyse, Placed, Annotated

\* The stage of a table that depends on others.
LEMMA StageOfNext ==
  ASSUME Typed, Unbroken, Staged, Annotated, NEW n \in Nodes, Place(n)
  PROVE  Staged'
<1> DEFINE from == {e[1] : e \in {d \in DOMAIN TypeOfEdge : d[2] = n /\ TypeOfEdge[d] > 0}}
           last == CHOOSE i \in {early[u] : u \in from} : \A u \in from : early[u] <= i
           next == \E u \in from : early[u] = last /\ TypeOfEdge[<<u, n>>] >= 3
           stage == IF from = {} THEN 0 ELSE IF next THEN last + 1 ELSE last
<1>1. /\ ~prog.split /\ n \notin DOMAIN early /\ early' = At(early, n, stage)
      /\ prog' = prog /\ deps' = deps /\ found' = found
      /\ \A w \in Waits : w[2] = n => w[1] \in DOMAIN early
  BY DEF Place, Forward, depVars
<1>2. DOMAIN early' = DOMAIN early \cup {n} /\ early'[n] = stage /\ \A m \in DOMAIN early : early'[m] = early[m] /\ m # n
  <2> HIDE DEF stage
  <2>1. QED BY <1>1 DEF At
<1>3. \A e \in Positive(deps) : e = <<e[1], e[2]>> /\ deps[e] \in Int /\ e[1] # e[2]
  BY DEF Typed, DepsOK, Forwards, Positive, Types, CONTROL_FLOW, REDUNDANT, REVERSE_READ, PREDICATION, SUCCESSOR, ACTION_DEP, MATCH
<1>4. \A u : u \in from <=> <<u, n>> \in Positive(deps)
  <2>1. from = {e[1] : e \in {d \in Positive(deps) : d[2] = n}}
    BY EdgeTypes
  <2>2. QED BY <1>3, <2>1
<1>5. from \in SUBSET Nodes /\ \A u \in from : u \in DOMAIN early
  <2>1. ASSUME NEW u \in from PROVE u \in DOMAIN early
    <3>1. <<u, n>> \in Waits
      BY <1>1, <1>4, EdgeTypes DEF Waits
    <3>2. QED BY <1>1, <3>1
  <2>2. QED BY <2>1 DEF Staged
<1>6. ASSUME from # {}
      PROVE  last \in Nat /\ (\E u \in from : last = early[u]) /\ \A u \in from : early[u] <= last
  <2>1. IsFiniteSet(from)
    BY <1>5, ProgramIsDag, FS_Subset DEF Typed, IsDag
  <2>2. \A u \in from : early[u] \in Nat
    BY <1>5 DEF Staged
  <2>3. PICK u \in from : \A w \in from : early[w] <= early[u]
    <3> HIDE DEF from
    <3>1. QED BY <1>6, <2>1, <2>2, LargestValue
  <2>4. last \in {early[w] : w \in from} /\ \A w \in from : early[w] <= last
    <3> HIDE DEF from
    <3>1. early[u] \in {early[w] : w \in from} /\ \A w \in from : early[w] <= early[u]
      BY <2>3
    <3>2. QED BY <3>1
  <2> HIDE DEF last, from
  <2>5. QED BY <2>2, <2>4
<1> HIDE DEF from, last
<1>7. stage \in Nat
  BY <1>6
<1>8. ASSUME NEW e \in Positive(deps), e[2] = n
      PROVE  e[1] \in DOMAIN early /\ stage >= early[e[1]] + Cost(deps[e])
  <2>1. e[1] \in from /\ e = <<e[1], n>>
    BY <1>3, <1>4, <1>8
  <2>2. last \in Nat /\ early[e[1]] <= last /\ early[e[1]] \in Nat /\ e[1] \in DOMAIN early
    BY <1>5, <1>6, <2>1 DEF Staged
  <2>3. CASE next
    BY <2>1, <2>2, <2>3 DEF Cost
  <2>4. CASE ~next /\ deps[e] >= ACTION_DEP
    <3>1. TypeOfEdge[<<e[1], n>>] >= 3
      BY <2>1, <2>4, EdgeTypes
    <3>2. early[e[1]] # last
      BY <2>1, <2>4, <3>1
    <3>3. QED BY <2>1, <2>2, <2>4, <3>2 DEF Cost
  <2>5. CASE ~next /\ ~(deps[e] >= ACTION_DEP)
    BY <2>1, <2>2, <2>5 DEF Cost
  <2>6. QED BY <2>3, <2>4, <2>5
<1>9. ASSUME stage > 0
      PROVE  \E e \in Positive(found) : /\ e[2] = n /\ e[1] \in DOMAIN early
                                        /\ stage = early[e[1]] + Cost(found[e])
  <2>1. from # {}
    BY <1>9
  <2>2. \A e \in Positive(deps) : e \in Positive(found) /\ found[e] = deps[e]
    BY DEF Unbroken, Annotated, Positive, REDUNDANT
  <2>3. CASE next
    <3>1. PICK u \in from : early[u] = last /\ TypeOfEdge[<<u, n>>] >= 3
      BY <2>3
    <3>2. <<u, n>> \in Positive(deps) /\ u \in DOMAIN early
      BY <1>4, <1>5
    <3>3. deps[<<u, n>>] >= ACTION_DEP
      BY <3>1, <3>2, EdgeTypes
    <3>4. stage = early[u] + Cost(deps[<<u, n>>])
      BY <2>1, <2>3, <3>1, <3>3 DEF Cost
    <3> HIDE DEF stage
    <3>5. QED BY <2>2, <3>2, <3>4
  <2>4. CASE ~next
    <3>1. PICK u \in from : last = early[u]
      BY <1>6, <2>1
    <3>2. <<u, n>> \in Positive(deps) /\ u \in DOMAIN early
      BY <1>4, <1>5
    <3>3. ~(deps[<<u, n>>] >= ACTION_DEP)
      <4>1. ~(TypeOfEdge[<<u, n>>] >= 3)
        BY <2>4, <3>1
      <4>2. QED BY <3>2, <4>1, EdgeTypes
    <3>4. early[u] \in Nat /\ stage = last
      BY <2>1, <2>4, <3>2 DEF Staged
    <3>5. stage = early[u] + Cost(deps[<<u, n>>])
      BY <3>1, <3>3, <3>4 DEF Cost
    <3> HIDE DEF stage
    <3>6. QED BY <2>2, <3>2, <3>5
  <2>5. QED BY <2>3, <2>4
<1> HIDE DEF stage
<1>10. ASSUME NEW e \in Positive(deps), e[2] \in DOMAIN early'
       PROVE  e[1] \in DOMAIN early' /\ early'[e[2]] >= early'[e[1]] + Cost(deps[e])
  BY <1>2, <1>8, <1>10 DEF Staged
<1>11. ASSUME NEW m \in DOMAIN early', early'[m] > 0
       PROVE  \E e \in Positive(found) : /\ e[2] = m /\ e[1] \in DOMAIN early'
                                         /\ early'[m] = early'[e[1]] + Cost(found[e])
  <2>1. CASE m = n
    BY <1>2, <1>9, <1>11, <2>1
  <2>2. CASE m \in DOMAIN early
    BY <1>2, <1>11, <2>2 DEF Staged
  <2>3. QED BY <1>2, <2>1, <2>2
<1>12. Nodes' = Nodes
  BY <1>1 DEF Nodes, graph
<1>13. DOMAIN early' \subseteq Nodes /\ \A m \in DOMAIN early' : early'[m] \in Nat
  BY <1>2, <1>7 DEF Staged
<1>14. QED BY <1>1, <1>10, <1>11, <1>12, <1>13 DEF Staged

LEMMA PlacedStep == Typed /\ Searched /\ Unbroken /\ Placed /\ [Next]_vars => Placed'
<1> SUFFICES ASSUME Typed, Searched, Unbroken, Placed, [Next]_vars, ~prog'.split PROVE IF Annotated' THEN Staged' ELSE early' = <<>>
  BY DEF Placed
<1>1. CASE Analysing
  <2>1. ~Annotated /\ prog' = prog /\ early' = early
    BY <1>1 DEF Analysing, FollowEdge, Resolved, Reduce, Annotated, Searched
  <2>2. early' = <<>>
    BY <2>1 DEF Placed
  <2>3. DOMAIN early' = {}
    BY <2>2
  <2>4. QED BY <2>2, <2>3 DEF Staged
<1>2. ASSUME NEW n \in AllNodes, Place(n) PROVE Annotated' /\ Staged'
  <2>1. ~prog.split /\ Annotated /\ Annotated'
    BY <1>2 DEF Place, Forward, Annotated, depVars
  <2>2. n \in Nodes /\ Staged
    BY <2>1 DEF AllNodes, Placed
  <2>3. QED BY <1>2, <2>1, <2>2, StageOfNext
<1>3. CASE \E n \in AllNodes : ForwardPath(n) \/ BackwardPath(n)
  BY <1>3 DEF ForwardPath, BackwardPath, depVars
<1>4. CASE UNCHANGED vars
  BY <1>4 DEF vars, depVars, Placed, Annotated, Staged, Nodes, graph
<1>5. QED BY <1>1, <1>2, <1>3, <1>4 DEF Next, Counting

\* When all are placed, no dependency that was found is broken.
LEMMA AllStaged == Typed /\ Unbroken /\ Placed => StagesLeast
<1> SUFFICES ASSUME Typed, Unbroken, Staged, resolved, DOMAIN early = Nodes PROVE StagesLeast
  BY DEF StagesLeast, Placed, Annotated
<1>1. \A n \in Nodes : early[n] \in Nat
  BY DEF Staged
<1>2. ASSUME NEW n \in Nodes, NEW m \in Below(Positive(deps), n)
      PROVE  m \in Nodes /\ early[n] <= early[m]
  <2> DEFINE S == {k \in Nodes : early[n] <= early[k]}
  <2>1. n \in S
    BY <1>1
  <2>2. ASSUME NEW e \in Positive(deps), e[1] \in S PROVE e[2] \in S
    <3>1. e[1] \in Nodes /\ e[2] \in Nodes
      BY DEF Typed, DepsOK, Forwards, Positive
    <3>2. early[e[2]] >= early[e[1]] + Cost(deps[e]) /\ Cost(deps[e]) \in Nat
      BY <3>1 DEF Staged, Cost
    <3>3. QED BY <1>1, <2>2, <3>1, <3>2
  <2>3. Below(Positive(deps), n) \subseteq S
    <3> HIDE DEF S
    <3>1. QED BY <2>1, <2>2, BelowLeast
  <2>4. QED BY <2>3
<1>3. ASSUME NEW e \in Positive(found)
      PROVE  early[e[2]] >= early[e[1]] + (IF found[e] >= ACTION_DEP THEN 1 ELSE 0)
  <2>1. e \in DOMAIN deps /\ found[e] \in Int /\ StrongPath(deps, e[1], e[2], found[e])
    BY DEF Unbroken, Positive
  <2>2. e[1] \in Nodes
    BY <2>1 DEF Typed, DepsOK, Forwards
  <2>3. PICK f \in Positive(deps) :
          deps[f] >= found[e] /\ f[1] \in Below(Positive(deps), e[1]) /\ e[2] \in Below(Positive(deps), f[2])
    BY <2>1 DEF StrongPath
  <2>4. f[1] \in Nodes /\ early[e[1]] <= early[f[1]]
    BY <1>2, <2>2, <2>3
  <2>5. f[2] \in Nodes /\ deps[f] \in Int
    BY DEF Typed, DepsOK, Forwards, Positive, Types, CONTROL_FLOW, REDUNDANT, REVERSE_READ, PREDICATION, SUCCESSOR, ACTION_DEP, MATCH
  <2>6. e[2] \in Nodes /\ early[f[2]] <= early[e[2]]
    BY <1>2, <2>3, <2>5
  <2>7. early[f[2]] >= early[f[1]] + Cost(deps[f])
    BY <2>5 DEF Staged
  <2>8. QED BY <1>1, <2>1, <2>2, <2>3, <2>4, <2>5, <2>6, <2>7 DEF Cost, ACTION_DEP
<1>4. ASSUME NEW n \in Nodes, early[n] > 0
      PROVE  \E e \in Positive(found) : e[2] = n /\ early[n] = early[e[1]] + IF found[e] >= ACTION_DEP THEN 1 ELSE 0
  BY <1>4 DEF Staged, Cost
<1>5. QED BY <1>3, <1>4 DEF StagesLeast

\* Whatever the tables and the topological order, the stages counted keep every dependency
\* found, reduced or not, and no table is later than one it depends on asks for.
THEOREM LeastStages == Spec => []StagesLeast
<1>1. Typed /\ Unbroken /\ Placed => StagesLeast
  BY AllStaged
<1>2. QED BY <1>1, TypedStart, TypedStep, SearchedStart, SearchedStep, UnbrokenStart, UnbrokenStep,
             PlacedStart, PlacedStep, PTL DEF Spec
-----------------------------------------------------------------------------
(***************************************************************************)
(* Critical paths                                                          *)
(***************************************************************************)

\* The nodes an edge of the split graph leads between are those of its dependency.
LEMMA SplitEnds ==
  ASSUME NEW e, NEW type
  PROVE  LET x == SplitEdge(e, type)
         IN /\ x.from \in {Match(e[1]), Action(e[1])} /\ x.to \in {Match(e[2]), Action(e[2])}
            /\ x.from[1] = e[1] /\ x.to[1] = e[2]
            /\ x.latency \in Nat
<1>1. Match(e[1])[1] = e[1] /\ Match(e[2])[1] = e[2] /\ Action(e[1])[1] = e[1] /\ Action(e[2])[1] = e[2]
  BY DEF Match, Action
<1>2. MinMatchLatency \in Nat /\ MinActionLatency \in Nat
  BY LatencyAssumption
<1>3. /\ SplitEdge(e, type).from \in {Match(e[1]), Action(e[1])}
      /\ SplitEdge(e, type).to \in {Match(e[2]), Action(e[2])}
      /\ SplitEdge(e, type).latency \in Nat
  BY <1>2 DEF SplitEdge
<1>4. QED BY <1>1, <1>3

\* From one node of the split graph to another there is at most one edge: the choices in
\* critical_path are none.
LEMMA SplitIsTimed ==
  ASSUME Typed, prog.split
  PROVE  IsTimed(SplitEdges, AllNodes)
<1> DEFINE some == {d \in DOMAIN TypeOfEdge : TypeOfEdge[d] > 0}
           own(n) == [from |-> Match(n), to |-> Action(n), latency |-> MinMatchLatency]
<1>1. AllNodes = SplitNodes /\ \A n \in Nodes : Match(n) \in SplitNodes /\ Action(n) \in SplitNodes
  BY DEF AllNodes, SplitNodes
<1>2. \A e \in some : e \in Nodes \X Nodes /\ e[1] # e[2] /\ e = <<e[1], e[2]>>
  <2>1. some \subseteq Positive(deps)
    BY EdgeTypes
  <2>2. QED BY <2>1 DEF Typed, DepsOK, Forwards, Positive
<1>3. ASSUME NEW x \in SplitEdges
      PROVE  \/ \E e \in some : x = SplitEdge(e, TypeOfEdge[e])
             \/ \E n \in Nodes : x = own(n)
  BY DEF SplitEdges
<1>4. \A n \in Nodes : own(n).from[1] = n /\ own(n).to[1] = n /\ own(n).latency = MinMatchLatency
                       /\ own(n).from = Match(n) /\ own(n).to = Action(n)
  BY DEF Match, Action
<1> HIDE DEF some, own
<1>5. ASSUME NEW x \in SplitEdges PROVE x.from \in AllNodes /\ x.to \in AllNodes /\ x.latency \in Nat
  <2>1. CASE \E e \in some : x = SplitEdge(e, TypeOfEdge[e])
    BY <1>1, <1>2, <2>1, SplitEnds
  <2>2. CASE \E n \in Nodes : x = own(n)
    BY <1>1, <1>4, <2>2, LatencyAssumption
  <2>3. QED BY <1>3, <2>1, <2>2
<1>6. ASSUME NEW x \in SplitEdges, NEW y \in SplitEdges, x.from = y.from, x.to = y.to
      PROVE  x.latency = y.latency
  <2>1. CASE \E e \in some : x = SplitEdge(e, TypeOfEdge[e])
    <3>1. PICK e \in some : x = SplitEdge(e, TypeOfEdge[e])
      BY <2>1
    <3>2. x.from[1] = e[1] /\ x.to[1] = e[2] /\ e[1] # e[2] /\ e = <<e[1], e[2]>>
      BY <1>2, <3>1, SplitEnds
    <3>3. ~ \E n \in Nodes : y = own(n)
      BY <1>4, <1>6, <3>2
    <3>4. PICK f \in some : y = SplitEdge(f, TypeOfEdge[f])
      BY <1>3, <3>3
    <3>5. y.from[1] = f[1] /\ y.to[1] = f[2] /\ f = <<f[1], f[2]>>
      BY <1>2, <3>4, SplitEnds
    <3>6. f = e
      BY <1>6, <3>2, <3>5
    <3>7. QED BY <3>1, <3>4, <3>6
  <2>2. CASE \E n \in Nodes : x = own(n)
    <3>1. PICK n \in Nodes : x = own(n)
      BY <2>2
    <3>2. ~ \E e \in some : y = SplitEdge(e, TypeOfEdge[e])
      <4>1. SUFFICES ASSUME NEW e \in some, y = SplitEdge(e, TypeOfEdge[e]) PROVE FALSE
        OBVIOUS
      <4>2. y.from[1] = e[1] /\ y.to[1] = e[2] /\ e[1] # e[2]
        BY <1>2, <4>1, SplitEnds
      <4>3. QED BY <1>4, <1>6, <3>1, <4>2
    <3>3. PICK m \in Nodes : y = own(m)
      BY <1>3, <3>2
    <3>4. QED BY <1>4, <3>1, <3>3
  <2>3. QED BY <1>3, <2>1, <2>2
<1>7. QED BY <1>5, <1>6 DEF IsTimed

LEMMA SplitIsFinite == Typed => IsFiniteSet(AllNodes)
<1> SUFFICES ASSUME Typed PROVE IsFiniteSet(AllNodes)
  OBVIOUS
<1>1. IsFiniteSet(Nodes)
  BY ProgramIsDag DEF Typed, IsDag
<1>2. IsFiniteSet(Nodes \X ({"match"} \cup {"action"}))
  BY <1>1, FS_Product, FS_Singleton, FS_Union
<1>3. SplitNodes \subseteq Nodes \X ({"match"} \cup {"action"})
  BY DEF SplitNodes, Match, Action
<1>4. QED BY <1>1, <1>2, <1>3, FS_Subset DEF AllNodes

\* The latencies of the edges of a node, one way or the other.
IsOut(G, n, f) ==
  /\ DOMAIN f = {x.to : x \in {y \in G : y.from = n}}
  /\ \A x \in G : x.from = n => f[x.to] = x.latency

LEMMA OutIs ==
  ASSUME Typed, prog.split, NEW n
  PROVE  IsOut(SplitEdges, n, Out(n))
<1>1. DOMAIN Out(n) = {x.to : x \in {y \in SplitEdges : y.from = n}}
  BY DEF Out
<1>2. ASSUME NEW x \in SplitEdges, x.from = n PROVE Out(n)[x.to] = x.latency
  <2> DEFINE y == CHOOSE e \in SplitEdges : e.from = n /\ e.to = x.to
  <2>1. Out(n)[x.to] = y.latency
    <3>1. x.to \in {e.to : e \in {d \in SplitEdges : d.from = n}}
      BY <1>2
    <3>2. QED BY <3>1 DEF Out
  <2>2. y \in SplitEdges /\ y.from = n /\ y.to = x.to
    BY <1>2
  <2> HIDE DEF y
  <2>3. QED BY <1>2, <2>1, <2>2, SplitIsTimed DEF IsTimed
<1>3. QED BY <1>1, <1>2 DEF IsOut

LEMMA InIs ==
  ASSUME Typed, prog.split, NEW n
  PROVE  IsOut(Backwards(SplitEdges), n, In(n))
<1>1. DOMAIN In(n) = {x.to : x \in {y \in Backwards(SplitEdges) : y.from = n}}
  <2>1. \A m : m \in DOMAIN In(n) <=> \E x \in SplitEdges : x.to = n /\ m = x.from
    BY DEF In
  <2>2. \A m : m \in {x.to : x \in {y \in Backwards(SplitEdges) : y.from = n}} <=> \E x \in SplitEdges : x.to = n /\ m = x.from
    <3>1. ASSUME NEW x \in SplitEdges
          PROVE  LET y == [from |-> x.to, to |-> x.from, latency |-> x.latency]
                 IN y \in Backwards(SplitEdges) /\ y.from = x.to /\ y.to = x.from
      BY DEF Backwards
    <3>2. ASSUME NEW y \in Backwards(SplitEdges)
          PROVE  \E x \in SplitEdges : y.from = x.to /\ y.to = x.from
      BY DEF Backwards
    <3>3. ASSUME NEW x \in SplitEdges, x.to = n
          PROVE  x.from \in {z.to : z \in {y \in Backwards(SplitEdges) : y.from = n}}
      <4>1. PICK y \in Backwards(SplitEdges) : y.from = x.to /\ y.to = x.from
        BY <3>1
      <4>2. QED BY <3>3, <4>1
    <3>4. QED BY <3>2, <3>3
  <2>3. QED BY <2>1, <2>2
<1>2. ASSUME NEW z \in Backwards(SplitEdges), z.from = n PROVE In(n)[z.to] = z.latency
  <2>1. PICK x \in SplitEdges : z = [from |-> x.to, to |-> x.from, latency |-> x.latency]
    BY DEF Backwards
  <2>2. x.to = n /\ z.to = x.from /\ z.latency = x.latency
    BY <1>2, <2>1
  <2> DEFINE y == CHOOSE e \in SplitEdges : e.from = x.from /\ e.to = n
  <2>3. In(n)[x.from] = y.latency
    <3>1. x.from \in {e.from : e \in {d \in SplitEdges : d.to = n}}
      BY <2>2
    <3>2. QED BY <3>1 DEF In
  <2>4. y \in SplitEdges /\ y.from = x.from /\ y.to = n
    BY <2>2
  <2> HIDE DEF y
  <2>5. QED BY <2>2, <2>3, <2>4, SplitIsTimed DEF IsTimed
<1>3. QED BY <1>1, <1>2 DEF IsOut

\* The longest paths so far, of all nodes.
Walk == [m \in AllNodes |-> PathTo(m)]

\* What critical_path does with the edges of a node.
LEMMA RelaxIs ==
  ASSUME NEW G, IsTimed(G, AllNodes), NEW n \in AllNodes, NEW f, IsOut(G, n, f),
         \A m \in AllNodes : PathTo(m) \in Nat,
         ahead' = Relax(n, f), prog' = prog, AllNodes' = AllNodes
  PROVE  Relaxed(G, AllNodes, Walk, n, Walk')
<1> DEFINE p == [m \in AllNodes |-> PathTo(m)]
           q == [m \in AllNodes |-> PathTo(m)']
           longer(m) == m \in DOMAIN f /\ PathTo(n) + f[m] > PathTo(m)
<1>1. Walk = p /\ Walk' = q
  BY DEF Walk
<1>2. \A m \in DOMAIN f : \E x \in G : x.from = n /\ x.to = m /\ f[m] = x.latency
  BY DEF IsOut
<1>3. ASSUME NEW m \in AllNodes
      PROVE  PathTo(m)' = IF longer(m) THEN PathTo(n) + f[m] ELSE PathTo(m)
  <2>1. DOMAIN ahead' = DOMAIN ahead \cup DOMAIN f
        /\ \A k \in DOMAIN ahead' : ahead'[k] = IF k \in DOMAIN f /\ PathTo(n) + f[k] > PathTo(k) THEN PathTo(n) + f[k] ELSE PathTo(k)
    BY DEF Relax
  <2>2. PathTo(m)' = IF m \in DOMAIN ahead' THEN ahead'[m] ELSE 0
    BY DEF PathTo
  <2>3. m \notin DOMAIN ahead => PathTo(m) = 0
    BY DEF PathTo
  <2>4. QED BY <2>1, <2>2, <2>3
<1>4. \A m \in DOMAIN f : f[m] \in Nat
  BY <1>2 DEF IsTimed
<1>5. ASSUME NEW m \in AllNodes
      PROVE  /\ q[m] \in Nat /\ p[m] <= q[m]
             /\ q[m] = p[m] \/ \E x \in G : x.from = n /\ x.to = m /\ q[m] = p[n] + x.latency
  <2>1. q[m] = IF longer(m) THEN p[n] + f[m] ELSE p[m]
    BY <1>3
  <2>2. p[m] \in Nat /\ p[n] \in Nat
    OBVIOUS
  <2>3. CASE longer(m)
    <3>1. f[m] \in Nat /\ p[n] + f[m] > p[m]
      BY <1>4, <2>3
    <3>2. \E x \in G : x.from = n /\ x.to = m /\ q[m] = p[n] + x.latency
      BY <1>2, <2>1, <2>3
    <3> HIDE DEF q, p, longer
    <3>3. QED BY <2>1, <2>2, <2>3, <3>1, <3>2
  <2>4. CASE ~longer(m)
    BY <2>1, <2>2, <2>4
  <2>5. QED BY <2>3, <2>4
<1>6. ASSUME NEW x \in G, x.from = n PROVE p[n] + x.latency <= q[x.to]
  <2>1. x.to \in AllNodes /\ x.to \in DOMAIN f /\ f[x.to] = x.latency /\ x.latency \in Nat
    BY <1>6 DEF IsOut, IsTimed
  <2>2. p[n] \in Nat /\ p[x.to] \in Nat /\ p[n] = PathTo(n) /\ p[x.to] = PathTo(x.to)
    BY <2>1
  <2>3. q[x.to] = IF longer(x.to) THEN p[n] + f[x.to] ELSE p[x.to]
    BY <1>3, <2>1
  <2> HIDE DEF p, q
  <2>4. QED BY <2>1, <2>2, <2>3
<1>7. q \in [AllNodes -> Nat]
  BY <1>5
<1> HIDE DEF p, q
<1>8. QED BY <1>1, <1>5, <1>6, <1>7 DEF Relaxed
\* The times of the split graph, forward and then backward over the same edges.
Clocked ==
  prog.split =>
    IF ~Annotated THEN early = <<>> /\ late = <<>> /\ ahead = <<>>
    ELSE /\ Times(SplitEdges, AllNodes, early)
         /\ Times(Backwards(SplitEdges), AllNodes, late)
         /\ IF DOMAIN early = AllNodes
            THEN Paths(Backwards(SplitEdges), AllNodes, late, Walk)
            ELSE DOMAIN late = {} /\ Paths(SplitEdges, AllNodes, early, Walk)

LEMMA ClockedStart == Init => Clocked
BY DEF Init, Analyse, Clocked, Annotated

\* With the program and the dependencies, the split graph stays.
LEMMA SameSplit ==
  ASSUME prog' = prog, deps' = deps
  PROVE  SplitEdges' = SplitEdges /\ AllNodes' = AllNodes
<1>1. graph' = graph /\ Nodes' = Nodes
  BY DEF graph, Nodes
<1>2. \A n : IsConditional(n)' = IsConditional(n)
  BY <1>1 DEF IsConditional
<1>3. \A n : Action(n)' = Action(n)
  BY <1>2 DEF Action
<1>4. TypeOfEdge' = TypeOfEdge
  BY <1>1 DEF TypeOfEdge
<1>5. \A e : \A type : SplitEdge(e, type)' = SplitEdge(e, type)
  <2>1. ASSUME NEW e, NEW type PROVE SplitEdge(e, type)' = SplitEdge(e, type)
    BY <1>2, <1>3, Zenon DEF SplitEdge
  <2>2. QED BY <2>1
<1>6. SplitEdges' = SplitEdges
  BY <1>1, <1>2, <1>3, <1>4, <1>5 DEF SplitEdges
<1>7. AllNodes' = AllNodes
  BY <1>1, <1>3 DEF AllNodes, SplitNodes
<1>8. QED BY <1>6, <1>7

\* A pass starts with nothing ahead.
LEMMA WalkStart ==
  ASSUME NEW G, NEW t, DOMAIN t = {}, ahead = <<>>
  PROVE  Times(G, AllNodes, t) /\ Paths(G, AllNodes, t, Walk)
<1>1. Walk = [m \in AllNodes |-> 0]
  BY DEF Walk, PathTo
<1>2. QED BY <1>1, PassStart

LEMMA ClockedStep == Typed /\ Searched /\ Clocked /\ [Next]_vars => Clocked'
<1> SUFFICES ASSUME Typed, Searched, Clocked, [Next]_vars, prog'.split PROVE Clocked'
  BY DEF Clocked
<1>1. CASE Analysing
  <2>1. ~Annotated /\ prog' = prog /\ early' = early /\ late' = late /\ ahead' = ahead
    BY <1>1 DEF Analysing, FollowEdge, Resolved, Reduce, Annotated, Searched
  <2>2. early' = <<>> /\ late' = <<>> /\ ahead' = <<>>
    BY <2>1 DEF Clocked
  <2>3. DOMAIN early' = {} /\ DOMAIN late' = {} /\ Walk' = [m \in AllNodes' |-> 0]
    BY <2>2 DEF Walk, PathTo
  <2>4. \A G : /\ Times(G, AllNodes', early') /\ Times(G, AllNodes', late')
               /\ Paths(G, AllNodes', early', Walk') /\ Paths(G, AllNodes', late', Walk')
    <3>1. ASSUME NEW G
          PROVE  /\ Times(G, AllNodes', early') /\ Times(G, AllNodes', late')
                 /\ Paths(G, AllNodes', early', Walk') /\ Paths(G, AllNodes', late', Walk')
      BY <2>3, PassStart
    <3>2. QED BY <3>1
  <2>5. QED BY <2>2, <2>3, <2>4 DEF Clocked
<1>2. CASE \E n \in AllNodes : Place(n)
  BY <1>2 DEF Place, depVars
<1>3. ASSUME NEW n \in AllNodes, ForwardPath(n) PROVE Clocked'
  <2>1. /\ prog.split /\ Annotated /\ n \notin DOMAIN early /\ early' = At(early, n, PathTo(n))
        /\ ahead' = IF DOMAIN early' = AllNodes THEN <<>> ELSE Relax(n, Out(n))
        /\ late' = late /\ prog' = prog /\ deps' = deps /\ resolved' = resolved /\ unreduced' = unreduced
        /\ \A w \in Waits : w[2] = n => w[1] \in DOMAIN early
    BY <1>3 DEF ForwardPath, Forward, depVars
  <2>2. /\ Times(SplitEdges, AllNodes, early) /\ Times(Backwards(SplitEdges), AllNodes, late)
        /\ DOMAIN late = {} /\ Paths(SplitEdges, AllNodes, early, Walk)
    BY <2>1 DEF Clocked
  <2>3. SplitEdges' = SplitEdges /\ AllNodes' = AllNodes /\ Annotated'
    BY <2>1, SameSplit DEF Annotated
  <2>4. IsTimed(SplitEdges, AllNodes)
    BY <2>1, SplitIsTimed
  <2>5. \A x \in SplitEdges : x.to = n => x.from \in DOMAIN early
    <3>1. ASSUME NEW x \in SplitEdges PROVE <<x.from, x.to>> \in Waits
      BY <2>1 DEF Waits
    <3>2. QED BY <2>1, <3>1
  <2>6. Walk[n] = PathTo(n) /\ \A m \in AllNodes : PathTo(m) \in Nat
    <3>1. \A m \in AllNodes : Walk[m] = PathTo(m)
      BY DEF Walk
    <3>2. QED BY <2>2, <3>1 DEF Paths
  <2>7. Times(SplitEdges, AllNodes, early')
    BY <2>1, <2>2, <2>4, <2>5, <2>6, PassStep
  <2>8. CASE DOMAIN early' = AllNodes
    <3>1. ahead' = <<>>
      BY <2>1, <2>8
    <3>2. Walk' = [m \in AllNodes' |-> 0]
      BY <3>1 DEF Walk, PathTo
    <3>3. Paths(Backwards(SplitEdges), AllNodes, late', Walk')
      BY <2>1, <2>2, <2>3, <3>2, PassStart
    <3>4. QED BY <2>1, <2>2, <2>3, <2>7, <2>8, <3>3 DEF Clocked
  <2>9. CASE DOMAIN early' # AllNodes
    <3>1. IsOut(SplitEdges, n, Out(n)) /\ ahead' = Relax(n, Out(n))
      BY <2>1, <2>9, OutIs
    <3>2. Relaxed(SplitEdges, AllNodes, Walk, n, Walk')
      BY <2>1, <2>3, <2>4, <2>6, <3>1, RelaxIs
    <3>3. Paths(SplitEdges, AllNodes, early', Walk')
      BY <2>1, <2>2, <2>4, <2>6, <3>2, PathsStep
    <3>4. QED BY <2>1, <2>2, <2>3, <2>7, <2>9, <3>3 DEF Clocked
  <2>10. QED BY <2>8, <2>9
<1>4. ASSUME NEW n \in AllNodes, BackwardPath(n) PROVE Clocked'
  <2>1. /\ prog.split /\ DOMAIN early = AllNodes /\ n \notin DOMAIN late /\ late' = At(late, n, PathTo(n))
        /\ ahead' = Relax(n, In(n))
        /\ early' = early /\ prog' = prog /\ deps' = deps /\ resolved' = resolved /\ unreduced' = unreduced
        /\ \A w \in Waits : w[1] = n => w[2] \in DOMAIN late
    BY <1>4 DEF BackwardPath, depVars
  <2>2. Annotated
    BY <2>1 DEF Clocked
  <2>3. /\ Times(SplitEdges, AllNodes, early) /\ Times(Backwards(SplitEdges), AllNodes, late)
        /\ Paths(Backwards(SplitEdges), AllNodes, late, Walk)
    BY <2>1, <2>2 DEF Clocked
  <2>4. SplitEdges' = SplitEdges /\ AllNodes' = AllNodes /\ Annotated'
    BY <2>1, <2>2, SameSplit DEF Annotated
  <2>5. IsTimed(Backwards(SplitEdges), AllNodes)
    BY <2>1, SplitIsTimed, BackwardsIsTimed
  <2>6. \A y \in Backwards(SplitEdges) : y.to = n => y.from \in DOMAIN late
    <3>1. ASSUME NEW y \in Backwards(SplitEdges), y.to = n PROVE y.from \in DOMAIN late
      <4>1. PICK x \in SplitEdges : y = [from |-> x.to, to |-> x.from, latency |-> x.latency]
        BY DEF Backwards
      <4>2. <<x.from, x.to>> \in Waits
        BY <2>1 DEF Waits
      <4>3. QED BY <2>1, <3>1, <4>1, <4>2
    <3>2. QED BY <3>1
  <2>7. Walk[n] = PathTo(n) /\ \A m \in AllNodes : PathTo(m) \in Nat
    <3>1. \A m \in AllNodes : Walk[m] = PathTo(m)
      BY DEF Walk
    <3>2. QED BY <2>3, <3>1 DEF Paths
  <2>8. Times(Backwards(SplitEdges), AllNodes, late')
    BY <2>1, <2>3, <2>5, <2>6, <2>7, PassStep
  <2>9. IsOut(Backwards(SplitEdges), n, In(n))
    BY <2>1, InIs
  <2>10. Relaxed(Backwards(SplitEdges), AllNodes, Walk, n, Walk')
    BY <2>1, <2>4, <2>5, <2>7, <2>9, RelaxIs
  <2>11. Paths(Backwards(SplitEdges), AllNodes, late', Walk')
    BY <2>1, <2>3, <2>5, <2>7, <2>10, PathsStep
  <2>12. QED BY <2>1, <2>3, <2>4, <2>8, <2>11 DEF Clocked
<1>5. CASE UNCHANGED vars
  <2>1. /\ prog' = prog /\ deps' = deps /\ early' = early /\ late' = late /\ ahead' = ahead
        /\ Annotated' = Annotated
    BY <1>5 DEF vars, depVars, Annotated
  <2>2. SplitEdges' = SplitEdges /\ AllNodes' = AllNodes
    BY <2>1, SameSplit
  <2>3. Walk' = Walk
    BY <2>1, <2>2 DEF Walk, PathTo
  <2>4. QED BY <2>1, <2>2, <2>3 DEF Clocked
<1>6. QED BY <1>1, <1>2, <1>3, <1>4, <1>5 DEF Next, Counting

LEMMA ClockedAgrees == Typed /\ Clocked => TimesAgree
<1> SUFFICES ASSUME Typed, Clocked, prog.split, Annotated PROVE TimesAgree
  BY DEF TimesAgree
<1> DEFINE G == SplitEdges
           V == AllNodes
<1>1. IsTimed(G, V) /\ IsFiniteSet(V) /\ Times(G, V, early) /\ Times(Backwards(G), V, late)
  BY SplitIsTimed, SplitIsFinite DEF Clocked
<1>2. \A e \in G : e.to \in DOMAIN early => early[e.from] + e.latency <= early[e.to]
  BY <1>1 DEF Times
<1>3. ASSUME DOMAIN late = V
      PROVE  /\ Longest(early) = Longest(late)
             /\ \A n \in V : early[n] <= Latest(n)
             /\ \A e \in G : Latest(e.from) + e.latency <= Latest(e.to)
  <2>1. DOMAIN early = V
    BY <1>1, <1>3 DEF Clocked, Times
  <2>2. CASE V = {}
    <3>1. \A f, g : DOMAIN f = {} /\ DOMAIN g = {} => Longest(f) = Longest(g)
      <4>1. ASSUME NEW f, NEW g, DOMAIN f = {}, DOMAIN g = {} PROVE Longest(f) = Longest(g)
        <5>1. {f[n] : n \in DOMAIN f} = {} /\ {g[n] : n \in DOMAIN g} = {}
          BY <4>1
        <5>2. QED BY <4>1, <5>1 DEF Longest
      <4>2. QED BY <4>1
    <3>2. G = {}
      BY <1>1, <2>2 DEF IsTimed
    <3> HIDE DEF G, V
    <3>3. QED BY <1>3, <2>1, <2>2, <3>1, <3>2
  <2>3. CASE V # {}
    <3>1. \A n \in V : early[n] \in Nat /\ late[n] \in Nat
      BY <1>1, <1>3, <2>1 DEF Times
    <3> HIDE DEF G, V
    <3>2. /\ Longest(early) = Longest(late) /\ Longest(late) \in Nat
          /\ \A n \in V : early[n] + late[n] <= Longest(late)
          /\ \A e \in G : late[e.to] + e.latency <= late[e.from]
      BY <1>1, <1>3, <2>1, <2>3, PassesMeet
    <3>3. ASSUME NEW n \in V PROVE early[n] <= Latest(n)
      <4>1. early[n] \in Nat /\ late[n] \in Nat /\ early[n] + late[n] <= Longest(late)
        BY <3>1, <3>2
      <4>2. QED BY <3>2, <4>1 DEF Latest
    <3>4. ASSUME NEW e \in G PROVE Latest(e.from) + e.latency <= Latest(e.to)
      <4>1. late[e.from] \in Nat /\ late[e.to] \in Nat /\ e.latency \in Nat
        BY <1>1, <3>1 DEF IsTimed
      <4>2. QED BY <3>2, <4>1 DEF Latest
    <3>5. QED BY <3>2, <3>3, <3>4
  <2>4. QED BY <2>2, <2>3
<1> HIDE DEF G, V
<1>4. QED BY <1>2, <1>3 DEF TimesAgree, G, V

\* Whatever the tables, the latencies and the orders, the two passes over the critical paths
\* find one length, and no node is due before it can be done or before what it waits for.
THEOREM PassesAgree == Spec => []TimesAgree
<1>1. Typed /\ Clocked => TimesAgree
  BY ClockedAgrees
<1>2. QED BY <1>1, TypedStart, TypedStep, SearchedStart, SearchedStep, ClockedStart, ClockedStep, PTL DEF Spec
=============================================================================
