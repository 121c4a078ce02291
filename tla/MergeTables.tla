---------------------------- MODULE MergeTables ----------------------------
(***************************************************************************)
(* The control-flow part of the merge (p4c_bm/SP4_merge.py): the nodes of  *)
(* the production program, the testing program and the metadata program    *)
(* are put into one set of dictionaries, keyed by name, and their edges    *)
(* are rewired - for A-B testing or for differential testing.  What        *)
(* gen_json then writes is the merged program: nodes refer to each other   *)
(* by name only.                                                           *)
(*                                                                         *)
(* A program is a record h as TableGraph builds it: next_ and              *)
(* base_default_next of its node objects, their name, and the entries of   *)
(* its two pipelines.                                                      *)
(***************************************************************************)
EXTENDS Naturals, Sequences, FiniteSets, TLC

Nowhere == <<"", "None">>

Meta(n) == <<"meta", n>>
STC == Meta("shadow_traffic_control")

STCActions == {"SP4_add_shadow_tag", "SP4_remove_shadow_tag", "goto_testing_pipe", "goto_production_pipe"}
ToProduction == {"SP4_remove_shadow_tag", "goto_production_pipe"}
ToTesting == STCActions \ ToProduction

Table(n) == [base |-> n, suffix |-> "", num |-> 0]
Condition(k) == [base |-> "_condition_", suffix |-> "", num |-> k]

-----------------------------------------------------------------------------
\* The dictionaries of one program: name to object.
IsConditional(h, n) == DOMAIN h.next_[n] = {"true", "false"}

Named(h, nodes) ==
  [nm \in {h.name[n] : n \in nodes} |-> CHOOSE n \in nodes : h.name[n] = nm]

P4Nodes(h) == Named(h, DOMAIN h.next_)
P4Conditionals(h) == Named(h, {n \in DOMAIN h.next_ : IsConditional(h, n)})
P4Tables(h) == Named(h, {n \in DOMAIN h.next_ : ~IsConditional(h, n)})

\* dict.update: the entries of the second dictionary win.
Update(d, e) == e @@ d

\* The objects of the three programs and the merged dictionaries: the testing
\* program first, updated with production, updated with the metadata program.
MergeObjects(r, s, meta) ==
  [next_ |-> r.next_ @@ s.next_ @@ meta.next_,
   base_default_next |-> r.base_default_next @@ s.base_default_next @@ meta.base_default_next,
   name |-> r.name @@ s.name @@ meta.name,
   p4_nodes |-> Update(Update(P4Nodes(s), P4Nodes(r)), P4Nodes(meta)),
   p4_conditional_nodes |-> Update(Update(P4Conditionals(s), P4Conditionals(r)), P4Conditionals(meta)),
   p4_tables |-> Update(Update(P4Tables(s), P4Tables(r)), P4Tables(meta)),
   p4_ingress_ptr |-> Nowhere,
   p4_egress_ptr |-> Nowhere]

\* The nodes that can be reached from e along next_ (get_nodes of gen_json, the
\* recursion of DF_set_nodes_with_next_none).
Reachable(next_, e) ==
  LET succ(S) == UNION {{next_[n][l] : l \in DOMAIN next_[n]} : n \in S} \ {Nowhere}
      grow[k \in Nat] ==
        IF k = 0 THEN {e} \ {Nowhere} ELSE LET found == grow[k - 1] IN found \cup succ(found)
  IN grow[Cardinality(DOMAIN next_)]

\* Only the edges of the entry itself.
SetNextNoneShallow(m, entry, target) ==
  [m EXCEPT !.next_[entry] = [l \in DOMAIN @ |-> IF @[l] = Nowhere THEN target ELSE @[l]]]

\* The end of the program linked back to its entry.
SetNextNoneLoops(m, entry, target) ==
  [m EXCEPT !.next_ = [n \in DOMAIN @ |->
     IF n \notin Reachable(m.next_, entry) THEN @[n]
     ELSE [l \in DOMAIN @[n] |-> IF @[n][l] = Nowhere THEN entry ELSE @[n][l]]]]

\* DF_set_nodes_with_next_none
SetNextNone(m, entry, target) ==
  LET under == Reachable(m.next_, entry)
  IN [m EXCEPT !.next_ = [n \in DOMAIN @ |->
        IF n \notin under THEN @[n]
        ELSE [l \in DOMAIN @[n] |-> IF @[n][l] = Nowhere THEN target ELSE @[n][l]]]]

SetBranch(m, n, l, target) == [m EXCEPT !.next_[n][l] = target]

\* The edges of the traffic control table for the given actions.
SetSTC(m, acts, target) ==
  [m EXCEPT !.next_[STC] = [a \in DOMAIN @ |-> IF a \in acts THEN target ELSE @[a]]]

-----------------------------------------------------------------------------
\* SP4_AB_merge_p4_objects
MergeAB(r, s, meta) ==
  LET m0 == MergeObjects(r, s, meta)
      m1 == SetSTC(m0, ToTesting, m0.p4_nodes[m0.name[s.p4_ingress_ptr]])
      m2 == SetSTC(m1, ToProduction, m0.p4_nodes[m0.name[r.p4_ingress_ptr]])
  IN [m2 EXCEPT !.p4_ingress_ptr = m2.p4_tables[Table("shadow_traffic_control")],
                !.p4_egress_ptr = s.p4_egress_ptr]

\* SP4_DF_merge_p4_objects
MergeDF(r, s, meta) ==
  LET m0 == MergeObjects(r, s, meta)
      cond0 == m0.p4_conditional_nodes[Condition(0)]
      testing == m0.p4_nodes[m0.name[s.p4_ingress_ptr]]
      production == m0.p4_nodes[m0.name[r.p4_ingress_ptr]]
      m1 == SetNextNone(m0, s.p4_ingress_ptr, m0.p4_nodes[Table("record_shadow_result")])
      m2 == SetBranch(m1, cond0, "false", testing)
      m3 == SetNextNone(m2, r.p4_ingress_ptr, m0.p4_nodes[Condition(1)])
      m4 == SetBranch(m3, cond0, "true", production)
      m5 == SetSTC(m4, ToProduction, production)
      m6 == SetBranch(m5, meta.p4_egress_ptr, "true", s.p4_egress_ptr)
      m7 == SetBranch(m6, meta.p4_egress_ptr, "false", r.p4_egress_ptr)
  IN [m7 EXCEPT !.p4_ingress_ptr = meta.p4_ingress_ptr, !.p4_egress_ptr = meta.p4_egress_ptr]

-----------------------------------------------------------------------------
\* dump_one_pipeline: the tables and conditionals of the dictionaries that can be
\* reached from the pointer, under their names.
DumpPipeline(m, ptr) ==
  LET nodes == Reachable(m.next_, ptr)
      listed(d) == {nm \in DOMAIN d : d[nm] \in nodes}
  IN [nm \in listed(m.p4_tables) \cup listed(m.p4_conditional_nodes) |->
        IF nm \in listed(m.p4_tables) THEN m.p4_tables[nm] ELSE m.p4_conditional_nodes[nm]]

Missing == <<"", "Missing">>

\* The switch finds the node an edge names among those of the pipeline.
Resolve(m, pipeline, n) ==
  IF n = Nowhere THEN Nowhere
  ELSE IF m.name[n] \in DOMAIN pipeline THEN pipeline[m.name[n]] ELSE Missing
=============================================================================
