---------------------------- MODULE MCTableWalk ----------------------------
EXTENDS TableWalk

MCTables == {<<"p", "a">>, <<"p", "b">>, <<"p", "d">>}
MCActionsOf == [t \in MCTables |-> {"act1", "act2"}]

Plain == {Apply(t) : t \in MCTables}
Short == {<<>>} \cup {<<c>> : c \in Plain}

\* Every call with at most one table under each of its arms.
Calls(c) ==
  Plain \cup {If(c, y, n) : y, n \in Short}
        \cup {HitMiss(t, h, m) : t \in MCTables, h, m \in Short}
        \cup {ActionSwitch(t, {"act1"}, y, n) : t \in MCTables, y, n \in Short}
        \cup {Invoke(b) : b \in Short}

\* One more level: such a call in one arm of a condition, a switch or a function.
Nested ==
  {If(<<"p", "x">>, <<c>>, n) : c \in Calls(<<"p", "y">>), n \in Short}
    \cup {If(<<"p", "x">>, n, <<c>>) : c \in Calls(<<"p", "y">>), n \in Short}
    \cup {HitMiss(t, <<c>>, <<>>) : t \in MCTables, c \in Calls(<<"p", "y">>)}
    \cup {ActionSwitch(t, {"act1"}, <<c>>, <<>>) : t \in MCTables, c \in Calls(<<"p", "y">>)}
    \cup {Invoke(<<c, d>>) : c \in Calls(<<"p", "y">>), d \in Plain}

\* The tables differ in nothing but their names: of all the ways to name them, the
\* one in which they first occur in the order a, b, d.
Before(t) == CHOOSE u \in MCTables : <<u, t>> \in {<<<<"p", "a">>, <<"p", "b">>>>, <<<<"p", "b">>, <<"p", "d">>>>}
InOrder(f) ==
  LET occ == Occurrences(f, TableKinds)
  IN \A i \in DOMAIN occ :
       occ[i] = <<"p", "a">> \/ \E j \in 1 .. (i - 1) : occ[j] = Before(occ[i])

First(calls) == {c \in calls : InOrder(<<c>>)}

AllFlows ==
  {<<c, d>> : c \in First(Calls(<<"p", "x">>)), d \in Calls(<<"p", "y">>)}
    \cup {<<c, d>> : c \in First(Nested), d \in Plain}
    \cup {<<c, d>> : c \in First(Plain), d \in Nested}

\* A table with cases under it is applied nowhere else.  The compiler does not look
\* for such tables: the graph of a control function with one has a cycle, on which
\* _find_conditional_barrier recurses until Python stops it.
SwitchedOnce(f) ==
  LET occ == Occurrences(f, TableKinds)
  IN \A t \in NodesIn(f, {"hitmiss", "actions"}) : Cardinality({i \in DOMAIN occ : occ[i] = t}) = 1

\* A condition with the same table in both its arms is useless and removed.  A packet that
\* missed before it, without a default action, would then skip the table (MCKnownCondition.cfg).
OpaqueFlows ==
  {[calls |-> f, defaults |-> ~AllDistinct(Occurrences(f, TableKinds)), packets |-> {{}}]
     : f \in {g \in AllFlows : InOrder(g) /\ SwitchedOnce(g)}}

-----------------------------------------------------------------------------
\* A parser of Ethernet, IPv4 and then TCP or UDP, and conditions on what it extracted.
MCHeaders == {"ipv4", "tcp", "udp"}
MCExtracts == [start |-> {}, parse_ipv4 |-> {"ipv4"}, parse_tcp |-> {"tcp"}, parse_udp |-> {"udp"}]
MCBranchTo == [start |-> {"parse_ipv4", "ingress"}, parse_ipv4 |-> {"parse_tcp", "parse_udp", "ingress"},
               parse_tcp |-> {"ingress"}, parse_udp |-> {"ingress"}]

OpaqueConds == {<<"p", "x">>, <<"p", "y">>}
Expression == [ipv4 |-> Valid("ipv4"), tcp |-> Valid("tcp"), noudp |-> Not(Valid("udp")),
               iponly |-> And(Not(Valid("tcp")), Valid("ipv4")), other |-> Opaque]
Tests == DOMAIN Expression
LastTests == {"ipv4", "noudp", "other"}
Tested(k, e) == <<"p", k \o e>>
MCCondition ==
  [c \in OpaqueConds |-> Opaque]
  @@ [c \in {Tested(k, e) : k \in {"1", "2", "3"}, e \in Tests} |->
       Expression[CHOOSE e \in Tests : \E k \in {"1", "2", "3"} : c = Tested(k, e)]]

A == Apply(<<"p", "a">>)
B == Apply(<<"p", "b">>)
D == Apply(<<"p", "d">>)

\* A condition inside a condition, before or after a table, and one behind them.
TestedFlows ==
  {<<If(Tested("1", e1), <<A, If(Tested("2", e2), <<B>>, <<>>)>>, <<>>), If(Tested("3", e3), <<>>, <<D>>)>>
     : e1, e2 \in Tests, e3 \in LastTests}
  \cup {<<If(Tested("1", e1), <<>>, <<If(Tested("2", e2), <<A>>, <<B>>)>>), If(Tested("3", e3), <<D>>, <<>>)>>
     : e1, e2 \in Tests, e3 \in LastTests}
  \cup {<<A, If(Tested("1", e1), <<If(Tested("2", e2), <<>>, <<>>)>>, <<>>), If(Tested("3", e3), <<D>>, <<>>), B>>
     : e1, e2 \in Tests, e3 \in LastTests}
  \cup {<<HitMiss(<<"p", "a">>, <<If(Tested("1", e1), <<If(Tested("2", e2), <<B>>, <<>>)>>, <<>>)>>, <<>>),
          If(Tested("3", e3), <<D>>, <<>>)>> : e1, e2 \in Tests, e3 \in LastTests}

MCFlows == OpaqueFlows \cup {[calls |-> f, defaults |-> TRUE, packets |-> Paths] : f \in TestedFlows}

\* Not in the run: a table in both arms of a condition keeps the conditional barrier of
\* the arm built last, and what follows is decided as if packets came from that arm only.
\* With these Flows SameAsSource fails.
MCBothArms ==
  {[calls |-> <<If(Tested("1", e1), <<A>>, <<A>>), If(Tested("3", e3), <<D>>, <<B>>)>>,
    defaults |-> TRUE, packets |-> Paths] : e1, e3 \in Tests}

\* The flows of the run, for packets that miss in a table without a default action.
MCNoDefaults == {[calls |-> f, defaults |-> FALSE, packets |-> Paths] : f \in TestedFlows}
=============================================================================
