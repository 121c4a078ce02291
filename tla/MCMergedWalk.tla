---------------------------- MODULE MCMergedWalk ----------------------------
EXTENDS MergedWalk

P(n) == <<"prod", n>>
T(n) == <<"test", n>>

MCActionsOf ==
  [t \in {P("a"), P("b"), P("e"), T("a"), T("b"), T("e")} |-> {"act1", "act2"}]
  @@ (STC :> STCActions)
  @@ [t \in {Meta(n) : n \in {"record_production_result", "recirculate_table",
                              "record_shadow_result", "handle_comparator_error",
                              "egress_testing_table", "egress_production_table"}} |-> {"act1"}]

\* Ingress control functions of one program N(_), its conditions in the outermost
\* sequence, as in every program under cases/.
FlatFlows(N(_)) ==
  LET a == Apply(N("a")) b == Apply(N("b"))
  IN {<<a>>, <<a, b>>, <<Invoke(<<a>>), b>>}
     \cup {<<If(N("x"), y, n)>> : y, n \in {<<>>, <<a>>, <<b>>}}
     \cup {<<a, If(N("x"), <<b>>, <<>>)>>, <<If(N("x"), <<a>>, <<>>), If(N("y"), <<b>>, <<>>)>>}
     \cup {<<HitMiss(N("a"), <<b>>, <<>>)>>, <<ActionSwitch(N("a"), {"act1"}, <<b>>, <<>>)>>,
           <<ActionSwitch(N("a"), {"act2"}, <<>>, <<b>>)>>}

\* One condition below another, or inside a function that is invoked.
NestedFlows(N(_)) ==
  LET a == Apply(N("a")) b == Apply(N("b"))
  IN {<<If(N("x"), <<If(N("y"), <<a>>, <<>>), b>>, <<>>)>>,
      <<a, Invoke(<<If(N("x"), <<b>>, <<>>)>>)>>}

Egress(N(_)) == {<<>>, <<Apply(N("e"))>>, <<If(N("z"), <<Apply(N("e"))>>, <<>>)>>}

Side(flows, egress) == {[ingress |-> i, egress |-> e] : i \in flows, e \in egress}

MCFlat == [prod : Side(FlatFlows(P), Egress(P)), test : Side(FlatFlows(T), {<<Apply(T("e"))>>})]
MCNested == [prod : Side(NestedFlows(P), {<<>>}), test : Side(FlatFlows(T), {<<>>})]
MCOnePair == [prod : Side({<<Apply(P("a"))>>}, {<<Apply(P("e"))>>}),
              test : Side({<<Apply(T("a"))>>}, {<<Apply(T("e"))>>})]

MCPipelines == {<<"DF", "ingress">>, <<"DF", "egress">>, <<"AB", "ingress">>}
MCIngressDF == {<<"DF", "ingress">>}
MCEgressAB == {<<"AB", "egress">>}
=============================================================================
