-------------------------- MODULE TableMergeGraph --------------------------
(***************************************************************************)
(* The table merge graph of class Graph (p4c_bm/SP4_merge.py) and its use  *)
(* in p4c_bm/__main__.py.  The tables of the production pipeline are       *)
(* numbered from 1, in the order of their names.  The tables of the        *)
(* testing pipeline follow, one by one: a table whose key has the match    *)
(* type and the width of a production table that is not taken gets that    *)
(* table's number, every other node a number of its own from FirstFresh    *)
(* up.  The shared numbers are the vertices of a graph, with an edge       *)
(* between two tables that the two programs apply in opposite orders; it   *)
(* is written to a file, the solver (LocalSearch) appends an independent   *)
(* set to a result file, and the compiler reads that file.                 *)
(*                                                                         *)
(* A program is a record:                                                  *)
(*   tables  its nodes in the order of their names, each with the match    *)
(*           fields <<type, bits>> of its key, <<>> for a condition, and   *)
(*           its size, 1 when none is declared                             *)
(*   next    the edges of the control flow, pairs of positions in tables   *)
(* Which of several free production tables is taken depends on the order   *)
(* of a Python dictionary, and is left open.                               *)
(***************************************************************************)
EXTENDS WeightedGraph

CONSTANTS ProductionPrograms, TestingPrograms,
          FirstFresh,      \* 1000 in the code
          MaxCompilations  \* bound on the compilations into one directory

\* The code does not test that a program has fewer nodes than this.
ASSUME FirstFreshAssumption ==
  /\ FirstFresh \in Nat
  /\ \A p \in ProductionPrograms : Len(p.tables) < FirstFresh
\* Edges go between nodes, and sizes are numbers.
ASSUME ProgramAssumption ==
  \A p \in ProductionPrograms \cup TestingPrograms :
    /\ Len(p.tables) \in Nat
    /\ p.next \subseteq (1 .. Len(p.tables)) \X (1 .. Len(p.tables))
    /\ \A i \in 1 .. Len(p.tables) : p.tables[i].size \in Int
\* No two tables of production are each directly behind the other, and none behind
\* itself: p4_tables.py refuses to apply a table twice.
ASSUME OrderAssumption ==
  \A p \in ProductionPrograms : \A e \in p.next : <<e[2], e[1]>> \notin p.next

VARIABLES prod, test,  \* the two programs of this compilation
          pc,
          id,          \* SP4_name2id of testing: the numbers given so far
          fresh,       \* n_id
          reuse,       \* SP4_reuse_id, the list both graphs share
          edges,       \* SP4_merged_graph_edges
          file,        \* the instance file
          picked,      \* what the solver printed in this compilation
          result,      \* the result file
          merged,      \* SP4_merge_id of the testing graph
          compilations

vars == <<prod, test, pc, id, fresh, reuse, edges, file, picked, result,
          merged, compilations>>

NoFile == [exists |-> FALSE, lines |-> <<>>]
NoInstance == [n |-> 0, m |-> 0, nlines |-> <<>>, elines |-> <<>>]

Names(p) == 1 .. Len(p.tables)

HasKey(t) == t.fields # <<>>

\* match_field_info: the width of a key is the sum of its fields'; of the match
\* types only the first counts.
Key(t) == <<t.fields[1][1], FoldLeft(LAMBDA w, f : w + f[2], 0, t.fields)>>

SameKey(s, t) == HasKey(s) /\ HasKey(t) /\ Key(s) = Key(t)
SameKeyWidth(s, t) == HasKey(s) /\ HasKey(t) /\ Key(s)[2] = Key(t)[2]

\* SP4_search_reuse_node: the production tables it may return for node s.
ReusableByWidth(s) == {r \in Names(prod) : SameKeyWidth(s, prod.tables[r])
                                           /\ r \notin ToSet(reuse)}
ReusableAhead(s) == {r \in Names(prod) : SameKey(s, prod.tables[r])
                                         /\ \A q \in ToSet(reuse) : q < r}
Reusable(s) == {r \in Names(prod) : SameKey(s, prod.tables[r])
                                    /\ r \notin ToSet(reuse)}

Begin(p, s) ==
  /\ prod' = p /\ test' = s
  /\ pc' = "number" /\ id' = <<>> /\ fresh' = FirstFresh /\ reuse' = <<>>
  /\ edges' = <<>> /\ file' = NoInstance /\ picked' = {} /\ merged' = <<>>

Init ==
  /\ prod \in ProductionPrograms /\ test \in TestingPrograms
  /\ pc = "number" /\ id = <<>> /\ fresh = FirstFresh /\ reuse = <<>>
  /\ edges = <<>> /\ file = NoInstance /\ picked = {} /\ merged = <<>>
  /\ result = NoFile /\ compilations = 1

Current == test.tables[Len(id) + 1]

\* The body of the first loop of SP4_gen_shadow_graph_node_edges.
ReuseTable ==
  /\ pc = "number" /\ Len(id) < Len(test.tables)
  /\ \E r \in Reusable(Current) : /\ id' = Append(id, r)
                                  /\ reuse' = Append(reuse, r)
  /\ UNCHANGED <<prod, test, pc, fresh, edges, file, picked, result, merged,
                 compilations>>

NumberFresh ==
  /\ pc = "number" /\ Len(id) < Len(test.tables)
  /\ Reusable(Current) = {}
  /\ id' = Append(id, fresh)
  /\ fresh' = fresh + 1
  /\ UNCHANGED <<prod, test, pc, reuse, edges, file, picked, result, merged,
                 compilations>>

\* SP4_isReachable on the two graphs: edges only, not paths.
TestingEdge(u, v) == \E e \in test.next : id[e[1]] = u /\ id[e[2]] = v
SameDirection(u, v) == u # v /\ TestingEdge(u, v) /\ <<u, v>> \in prod.next
Opposed(u, v) == u # v /\ TestingEdge(u, v) /\ <<v, u>> \in prod.next

\* SP4_get_merged_graph: the inner loop over v, and the outer one over u.
EdgesFrom(es, u) ==
  FoldLeft(LAMBDA fs, v : IF Opposed(u, v) /\ <<u, v>> \notin ToSet(fs)
                          THEN Append(fs, <<u, v>>) ELSE fs,
           es, reuse)
MergedEdges == FoldLeft(LAMBDA es, u : EdgesFrom(es, u), <<>>, reuse)

MergeGraph ==
  /\ pc = "number" /\ Len(id) = Len(test.tables)
  /\ edges' = MergedEdges
  /\ pc' = "write"
  /\ UNCHANGED <<prod, test, id, fresh, reuse, file, picked, result, merged,
                 compilations>>

\* SP4_write_graph_to_file: vertices are positions in SP4_reuse_id, from 1.
IndexOf(u) == CHOOSE i \in 1 .. Len(reuse) : reuse[i] = u
TestingName(u) == CHOOSE s \in 1 .. Len(id) : id[s] = u
Greater(a, b) == IF a > b THEN a ELSE b

TableWeightOfTesting(u) == test.tables[TestingName(u)].size

TableWeight(u) ==
  LET w == Greater(test.tables[TestingName(u)].size, prod.tables[u].size)
  IN IF w < 0 THEN 1 ELSE w

InstanceFile ==
  [n |-> Len(reuse), m |-> Len(edges),
   nlines |-> [i \in 1 .. Len(reuse) |-> <<IndexOf(reuse[i]), TableWeight(reuse[i])>>],
   elines |-> [k \in 1 .. Len(edges) |->
                 <<IndexOf(edges[k][1]), IndexOf(edges[k][2])>>]]

WriteInstance ==
  /\ pc = "write"
  /\ file' = InstanceFile
  /\ pc' = "solve"
  /\ UNCHANGED <<prod, test, id, fresh, reuse, edges, picked, result, merged,
                 compilations>>

(***************************************************************************)
(* os.system runs mwis, which appends a maximal independent set of the     *)
(* graph it reads to the result file (ReportedSet of LocalSearch), with    *)
(* vertices counted from 0.  The exit status is not looked at.             *)
(***************************************************************************)
Solve ==
  LET g == ReadInstance(file, FALSE) IN
  /\ pc = "solve"
  /\ \E I \in SUBSET Vertices(g) :
       /\ Independent(g, I)
       /\ \A v \in Vertices(g) \ I : Neighbors(g, v) \cap I # {}
       /\ picked' = I
       /\ result' = [exists |-> TRUE,
                     lines |-> result.lines \o SortSeq(SetToSeq(I), <)]
  /\ pc' = "read"
  /\ UNCHANGED <<prod, test, id, fresh, reuse, edges, file, merged, compilations>>

SolverFails ==
  /\ pc = "solve"
  /\ pc' = "read"
  /\ UNCHANGED <<prod, test, id, fresh, reuse, edges, file, picked, result,
                 merged, compilations>>

\* Without a result file open raises, and the compiler ends.
ReadResult ==
  /\ pc = "read"
  /\ \/ ~result.exists /\ pc' = "failed" /\ merged' = merged
     \/ result.exists /\ pc' = "done" /\ merged' = merged \o result.lines
  /\ UNCHANGED <<prod, test, id, fresh, reuse, edges, file, picked, result,
                 compilations>>

\* The compiler is called again with the same --gen-dir.
Recompile ==
  /\ pc \in {"done", "failed"} /\ compilations < MaxCompilations
  /\ compilations' = compilations + 1
  /\ Begin(prod, test)
  /\ UNCHANGED result

Next == \/ ReuseTable \/ NumberFresh \/ MergeGraph \/ WriteInstance
        \/ Solve \/ SolverFails \/ ReadResult \/ Recompile

Spec == Init /\ [][Next]_vars
-----------------------------------------------------------------------------
TypeOK ==
  /\ prod \in ProductionPrograms /\ test \in TestingPrograms
  /\ pc \in {"number", "write", "solve", "read", "done", "failed"}
  /\ id \in Seq(Nat) /\ Len(id) \in 0 .. Len(test.tables)
  /\ fresh \in Nat
  /\ reuse \in Seq(Names(prod))

\* A number stands for one table of each program: no two testing tables share
\* one, a number of a production table is given only to a table with a key of
\* the same match type and width, and it is listed as reused exactly then.
ReuseMatched ==
  /\ \A i, j \in 1 .. Len(id) : id[i] = id[j] => i = j
  /\ \A k, l \in 1 .. Len(reuse) : reuse[k] = reuse[l] => k = l
  /\ \A i \in 1 .. Len(id) :
       id[i] \in Names(prod) => /\ \E k \in 1 .. Len(reuse) : reuse[k] = id[i]
                                /\ SameKey(test.tables[i], prod.tables[id[i]])
  /\ \A k \in 1 .. Len(reuse) : \E i \in 1 .. Len(id) : id[i] = reuse[k]

\* Taking the first free table of the right kind loses nothing: of every kind
\* of key as many tables are shared as the poorer program has.
Keyed(p, key) == {i \in Names(p) : HasKey(p.tables[i]) /\ Key(p.tables[i]) = key}
Least(a, b) == IF a < b THEN a ELSE b

ReuseComplete ==
  pc # "number" =>
    \A i \in Names(test) : HasKey(test.tables[i]) =>
      LET key == Key(test.tables[i]) IN
      Cardinality({r \in ToSet(reuse) : r \in Keyed(prod, key)})
        = Least(Cardinality(Keyed(prod, key)), Cardinality(Keyed(test, key)))

\* What the solver reads back is a simple graph on the shared tables, with an
\* edge exactly between tables the two programs apply in opposite orders, and
\* no table is worth less than its larger copy, nor less than nothing.
InstanceExact ==
  pc = "solve" =>
    LET g == ReadInstance(file, FALSE) IN
    /\ IsSimpleGraph(g)
    /\ g.n = Len(reuse) /\ file.m = Len(file.elines)
    /\ \A u, v \in Vertices(g) :
         v \in Neighbors(g, u) <=> \/ Opposed(reuse[u + 1], reuse[v + 1])
                                   \/ Opposed(reuse[v + 1], reuse[u + 1])
    /\ \A v \in Vertices(g) :
         /\ g.weight[v] >= 0
         /\ g.weight[v] >= prod.tables[reuse[v + 1]].size
         /\ g.weight[v] >= test.tables[TestingName(reuse[v + 1])].size

\* The tables the solver picks can be shared: no two of them are neighbours in
\* opposite orders, and every shared table it leaves out is so with one of them.
PickedUnopposed ==
  pc = "read" /\ picked # {} =>
    LET tables == {reuse[v + 1] : v \in picked}
        Clash(u, v) == \E i, j \in Names(test) :
          /\ id[i] = u /\ id[j] = v
          /\ \/ <<i, j>> \in test.next /\ <<v, u>> \in prod.next
             \/ <<j, i>> \in test.next /\ <<u, v>> \in prod.next
    IN /\ \A u, v \in tables : ~Clash(u, v)
       /\ \A u \in ToSet(reuse) \ tables : \E v \in tables : Clash(u, v)
=============================================================================
