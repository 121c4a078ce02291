----------------------------- MODULE MergedWalk -----------------------------
(***************************************************************************)
(* Two programs are built, merged and dumped, and packets run through the  *)
(* pipelines of the result.  Beside each packet goes todo: what is left to *)
(* run of the merged program written as one P4 program, with the control   *)
(* functions of production and testing invoked where the metadata program  *)
(* (SP4_metas_diff.p4, SP4_metas_ab.p4) has its comments for them.         *)
(***************************************************************************)
EXTENDS TableGraph, MergeTables

CONSTANTS
  Programs,      \* the pairs of programs merged: their control functions
  Pipelines,     \* the testing operators and pipelines tried: {"AB", "DF"} \X {"ingress", "egress"}
  DefaultsSet    \* every table has a default action configured

VARIABLES
  progs,    \* the two programs, chosen once
  mode,     \* the testing operator they are merged for
  merged,   \* the merged program
  pipes,    \* its pipelines as dumped: name to node
  pipe,     \* the pipeline the packet is in
  at,       \* the node it is at, None between two packets
  todo      \* what the source still has to run for it

vars == <<progs, mode, merged, pipes, pipe, at, todo>>

-----------------------------------------------------------------------------
\* The metadata program.  For A-B testing its control functions are not built.
Cond(k) == Meta(IF k = 0 THEN "c0" ELSE IF k = 1 THEN "c1" ELSE IF k = 2 THEN "c2" ELSE "c3")

RecordProduction == <<If(Cond(1), <<Apply(Meta("record_production_result")),
                                    Apply(Meta("recirculate_table"))>>, <<>>)>>
RecordShadow == <<Apply(Meta("record_shadow_result")),
                  If(Cond(2), <<Apply(Meta("handle_comparator_error"))>>, <<>>)>>

MetaIngress == <<Apply(STC), If(Cond(0), RecordProduction, RecordShadow)>>
MetaEgress == <<If(Cond(3), <<Apply(Meta("egress_testing_table"))>>,
                            <<Apply(Meta("egress_production_table"))>>)>>

MetaProgram(md) ==
  IF md = "DF" THEN ProgramOf(MetaIngress, MetaEgress, "", 0)
  ELSE NewProgram({STC}, "") @@ [p4_ingress_ptr |-> None, p4_egress_ptr |-> None]

Production(p) == ProgramOf(p.prod.ingress, p.prod.egress, "", 10000)
Testing(p) == ProgramOf(p.test.ingress, p.test.egress, "_SHADOW", 20000)

Merge(p, md) ==
  IF md = "AB" THEN MergeAB(Production(p), Testing(p), MetaProgram(md))
  ELSE MergeDF(Production(p), Testing(p), MetaProgram(md))

-----------------------------------------------------------------------------
\* The merged program as one P4 program.
STCSwitch(production, otherwise) ==
  <<[kind |-> "actions", node |-> STC,
     arms |-> <<[on |-> ToProduction, body |-> production],
                [on |-> ToTesting \cup {"unset"}, body |-> otherwise]>>]>>

Source(p, md, pl) ==
  LET production == <<Invoke(p.prod.ingress)>>
      testing == <<Invoke(p.test.ingress)>>
  IN IF pl = "egress" THEN <<If(Cond(3), p.test.egress, p.prod.egress)>>
     ELSE IF md = "AB" THEN STCSwitch(production, testing)
     ELSE STCSwitch(production \o RecordProduction,
                    <<If(Cond(0), production \o RecordProduction, testing \o RecordShadow)>>)

-----------------------------------------------------------------------------
Init ==
  /\ progs \in Programs
  /\ \E p \in Pipelines : mode = p[1] /\ pipe = p[2]
  /\ merged = Merge(progs, mode)
  /\ pipes = [ingress |-> DumpPipeline(merged, merged.p4_ingress_ptr),
              egress |-> DumpPipeline(merged, merged.p4_egress_ptr)]
  /\ at = None
  /\ todo = <<>>

Arrive ==
  /\ at = None
  /\ \E p \in Pipelines : mode = p[1] /\ pipe' = p[2]
  /\ at' = Resolve(merged, pipes[pipe'],
                   IF pipe' = "ingress" THEN merged.p4_ingress_ptr ELSE merged.p4_egress_ptr)
  /\ todo' = Unfold(Source(progs, mode, pipe'))
  /\ UNCHANGED <<progs, mode, merged, pipes>>

\* An outcome leads along its edge; a miss where no default action is configured
\* leads to base_default_next.
Target(o) ==
  IF o = "unset" THEN merged.base_default_next[at] ELSE merged.next_[at][o]

CanHappen(o) ==
  \/ o \in DOMAIN merged.next_[at]
  \/ o = "unset" /\ ~DefaultsSet /\ at \in DOMAIN ActionsOf /\ "hit" \notin DOMAIN merged.next_[at]

Follow(o) ==
  /\ at \notin {None, Missing}
  /\ CanHappen(o)
  /\ at' = Resolve(merged, pipes[pipe], Target(o))
  /\ todo' = IF todo # <<>> /\ Head(todo).node = at THEN Continue(todo, o) ELSE todo
  /\ UNCHANGED <<progs, mode, merged, pipes, pipe>>

Outcomes == {"unset", "hit", "miss", "true", "false"} \cup UNION {ActionsOf[t] : t \in DOMAIN ActionsOf}

Step == \E o \in Outcomes : Follow(o)

Next == Arrive \/ Step

Spec == Init /\ [][Next]_vars /\ WF_vars(Step)

-----------------------------------------------------------------------------
\* The packet is at a node of the merged program and every name an edge carries
\* is found in the pipeline it is used in (the switch would not load the program
\* otherwise).
TypeOK ==
  /\ at \in DOMAIN merged.next_ \cup {None}
  /\ \A pl \in {"ingress", "egress"} : \A nm \in DOMAIN pipes[pl] :
       LET n == pipes[pl][nm]
       IN \A l \in DOMAIN merged.next_[n] :
            Resolve(merged, pipes[pl], merged.next_[n][l]) # Missing

\* Whatever the tables of three programs do, the packet is at the table or
\* condition the merged P4 program has next: in production it runs exactly the
\* production control function, in testing exactly the testing one, and both end
\* where the comparator's part begins.
SameAsSource == at = AtCall(todo)

\* Every packet leaves the pipeline it entered.
Leaves == []<>(at = None)
=============================================================================
