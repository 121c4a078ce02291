------------------------------ MODULE MCStages ------------------------------
EXTENDS Stages, TableOptimize

A == <<"p", "a">>
B == <<"p", "b">>
D == <<"p", "d">>
X == <<"p", "x">>
MCTables == {A, B, D}
MCActionsOf == [t \in MCTables |-> {"act1", "act2"}]

\* What a table matches on, what its actions read and write.
Footprint == [
  reader |-> [match |-> {"f"}, reads |-> {}, act1 |-> {}, act2 |-> {}, results |-> {}],
  writer |-> [match |-> {}, reads |-> {}, act1 |-> {"f"}, act2 |-> {}, results |-> {}],
  both |-> [match |-> {"f"}, reads |-> {}, act1 |-> {"g"}, act2 |-> {"f"}, results |-> {}],
  copier |-> [match |-> {}, reads |-> {"f"}, act1 |-> {"g"}, act2 |-> {}, results |-> {}],
  meter |-> [match |-> {"g"}, reads |-> {}, act1 |-> {}, act2 |-> {}, results |-> {"f"}]]

\* Straight on, under a condition, and under the outcomes of a table.
Shapes == {
  <<Apply(A), Apply(B), Apply(D)>>,
  <<If(X, <<Apply(A)>>, <<Apply(B)>>), Apply(D)>>,
  <<Apply(A), If(X, <<Apply(B)>>, <<>>), Apply(D)>>,
  <<If(X, <<Apply(A), Apply(B)>>, <<Apply(D)>>)>>,
  <<HitMiss(A, <<Apply(B)>>, <<>>), Apply(D)>>,
  <<HitMiss(A, <<Apply(B)>>, <<Apply(D)>>)>>,
  <<ActionSwitch(A, {"act1"}, <<Apply(B)>>, <<>>), Apply(D)>>,
  <<ActionSwitch(A, {"act1"}, <<If(X, <<Apply(B)>>, <<>>)>>, <<Apply(D)>>)>>}

Program(calls, foot, tested, default, reduce, split) ==
  [graph |-> Optimize(ProgramOf(calls, <<>>, "", 0)),
   match |-> (X :> tested) @@ [t \in MCTables |-> Footprint[foot[t]].match],
   reads |-> [t \in MCTables |-> [act1 |-> Footprint[foot[t]].reads, act2 |-> {}]],
   writes |-> [t \in MCTables |-> [act1 |-> Footprint[foot[t]].act1, act2 |-> Footprint[foot[t]].act2]],
   results |-> (X :> {}) @@ [t \in MCTables |-> Footprint[foot[t]].results],
   default |-> [t \in MCTables |-> default],
   reduce |-> reduce, split |-> split]

\* Tables that pass fields on, in this order; the default action matters after hit or miss.
Feet == [first : {"both", "copier", "meter"}, second : {"reader", "both", "writer"}, third : {"reader", "both", "meter"}]
Foot(feet) == A :> feet.first @@ B :> feet.second @@ D :> feet.third

OrNothing(calls, kind, set) == IF NodesIn(calls, {kind}) = {} THEN {{}} ELSE {{}, set}

MCPrograms == UNION {
  {Program(c, Foot(feet), tested, default, reduce, split) :
     feet \in Feet, tested \in OrNothing(c, "if", {"f"}), default \in OrNothing(c, "hitmiss", {"act2"}), reduce, split \in BOOLEAN}
  : c \in Shapes}

MCHeaders == {}
MCExtracts == [start |-> {}]
MCBranchTo == [start |-> {"ingress"}]
MCCondition == X :> Opaque
=============================================================================
