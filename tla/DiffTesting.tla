---------------------------- MODULE DiffTesting ----------------------------
(***************************************************************************)
(* One switch that runs a program merged for differential testing          *)
(* (SP4_metas_diff.p4 with the two programs inserted by                    *)
(* DF_merge_p4_tables).  The traffic control table decides about every     *)
(* packet; a marked packet goes through production, is recirculated, goes  *)
(* through testing, and the two results are compared.  The controller may  *)
(* change the traffic control table between any two steps of a packet.     *)
(*                                                                         *)
(* The two programs are routers as in cases/merge-DiffTesting: a valid     *)
(* packet with time to live is given a port, a new destination address and *)
(* one hop less; they differ in the port.  Their egress control functions  *)
(* let a packet pass or drop it (cut).                                     *)
(***************************************************************************)
EXTENDS Naturals

CONSTANTS
  Macs,         \* destination addresses, the key of the traffic control table
  Ports,        \* ports of the switch
  Controller,   \* the port of the controller
  Drop,         \* the egress_spec drop() writes
  Routers,      \* records prod, test: ports or Drop; rewrite: Macs -> Macs; cut: BOOLEAN
  Incoming,     \* the packets that may arrive: dst, ttl, eth, tag
  Tables,       \* the traffic control tables to start from
  Targets,      \* what a recirculated packet has in egress_spec: {"kept", "cleared"}
  MaxUpdates    \* bound on the changes made to the table

\* What the table can do: one of its actions, or nothing on a miss while no
\* default action is set.
STCActions == {"SP4_add_shadow_tag", "SP4_remove_shadow_tag", "goto_testing_pipe",
               "goto_production_pipe", "unset"}

NoResult == 512   \* not a value of the nine bits of egress_spec

\* Values of instance_type: a packet that has just come in, one that
\* recirculate_table has been applied to, one that was recirculated.  1 is the
\* type of a packet cloned in ingress.
Normal == 0
Recirculating == 3
WasRecirculated == 4
IngressClone == 1

ASSUME ConstantsAssumption ==
  /\ Macs # {}
  /\ Ports \subseteq 0 .. 510 /\ Drop = 511
  /\ 0 \in Ports /\ Controller \in Ports
  /\ Routers \subseteq [prod : Ports \cup {Drop}, test : Ports \cup {Drop},
                       rewrite : [Macs -> Macs], cut : BOOLEAN]
  /\ Incoming \subseteq [dst : Macs, ttl : Nat, eth : {"ip", "shadow"}, tag : {"none", "ip", "shadow"}]
  /\ Tables \subseteq [Macs -> STCActions]
  /\ Targets \subseteq {"kept", "cleared"}
  /\ MaxUpdates \in Nat

VARIABLES
  router,   \* the two programs, chosen once
  stc,      \* the action the traffic control table has for each address
  where,    \* the node the packet is at; "idle" and "gone" between packets
  pkt,      \* its headers and metadata
  seen,     \* what has happened to it
  updates   \* number of changes made to stc

vars == <<router, stc, where, pkt, seen, updates>>

-----------------------------------------------------------------------------
\* parse_ethernet, parse_shadow_tag: ipv4 is found under the type of the frame
\* or, behind a tag, under the type the tag holds.
ParsesIpv4(p) == p.eth = "ip" \/ (p.eth = "shadow" /\ p.tag = "ip")

\* The metadata of a packet that has just come in.
Fresh(i) ==
  [dst |-> i.dst, ttl |-> i.ttl, eth |-> i.eth, tag |-> i.tag, ipv4 |-> ParsesIpv4(i),
   instance_type |-> Normal, shadow_bit |-> FALSE, egress_spec |-> 0,
   meta_p |-> 0, meta_t |-> 0, recirculate |-> FALSE]

\* What an observer notes of a packet: the port production gave it last, whether the
\* two programs treat the packet that came in differently, whether the table marked it or
\* sent it to testing, whether testing ran and still had a packet to route, whether
\* the results were compared and reported as different.
Nothing == [prod |-> NoResult, differ |-> FALSE, marked |-> FALSE, sent |-> FALSE,
            tested |-> FALSE, whole |-> FALSE, compared |-> FALSE, reported |-> FALSE]

Init ==
  /\ router \in Routers
  /\ stc \in Tables
  /\ where = "idle"
  /\ pkt = Fresh([dst |-> CHOOSE m \in Macs : TRUE, ttl |-> 0, eth |-> "ip", tag |-> "none"])
  /\ seen = Nothing
  /\ updates = 0

Between == where \in {"idle", "gone"}

Arrive ==
  /\ Between
  /\ \E i \in Incoming : pkt' = Fresh(i)
  /\ where' = "stc"
  /\ seen' = Nothing
  /\ UNCHANGED <<router, stc, updates>>

\* table_add, table_modify or table_set_default for the traffic control table.
Configure ==
  /\ updates < MaxUpdates
  /\ \E m \in Macs, a \in STCActions : stc' = [stc EXCEPT ![m] = a]
  /\ updates' = updates + 1
  /\ UNCHANGED <<router, where, pkt, seen>>

-----------------------------------------------------------------------------
Hit(a) == where = "stc" /\ stc[pkt.dst] = a

Stay == UNCHANGED <<router, stc, updates>>

AddShadowTag ==
  /\ Hit("SP4_add_shadow_tag")
  /\ pkt' = [pkt EXCEPT !.tag = pkt.eth, !.eth = "shadow", !.shadow_bit = TRUE]
  /\ seen' = [seen EXCEPT !.marked = TRUE]
  /\ where' = "_condition_0"
  /\ Stay

RemoveShadowTag ==
  /\ Hit("SP4_remove_shadow_tag")
  /\ pkt' = [pkt EXCEPT !.eth = pkt.tag, !.tag = "none", !.shadow_bit = FALSE]
  /\ where' = "production"
  /\ Stay /\ UNCHANGED seen

GotoTesting ==
  /\ Hit("goto_testing_pipe")
  /\ where' = "_condition_0"
  /\ seen' = [seen EXCEPT !.sent = TRUE]
  /\ Stay /\ UNCHANGED pkt

GotoProduction ==
  /\ Hit("goto_production_pipe")
  /\ where' = "production"
  /\ Stay /\ UNCHANGED <<pkt, seen>>

Miss ==
  /\ Hit("unset")
  /\ where' = "_condition_0"
  /\ Stay /\ UNCHANGED <<pkt, seen>>

\* standard_metadata.instance_type == 0
Condition0 ==
  /\ where = "_condition_0"
  /\ where' = IF pkt.instance_type = Normal THEN "production" ELSE "testing"
  /\ Stay /\ UNCHANGED <<pkt, seen>>

\* One of the two routers runs: nothing happens to a packet that is not ipv4 or
\* has no hops left; drop() leaves the headers alone.
Routed(p, port) ==
  IF ~p.ipv4 \/ p.ttl = 0 THEN p
  ELSE IF port = Drop THEN [p EXCEPT !.egress_spec = Drop]
  ELSE [p EXCEPT !.egress_spec = port, !.ttl = p.ttl - 1, !.dst = router.rewrite[p.dst]]

RunProduction ==
  /\ where = "production"
  /\ pkt' = Routed(pkt, router.prod)
  /\ seen' = [seen EXCEPT
       !.prod = pkt'.egress_spec,
       !.differ = IF seen.prod # NoResult THEN @
                  ELSE pkt'.egress_spec # Routed(pkt, router.test).egress_spec]
  /\ where' = "_condition_1"
  /\ Stay

\* Every packet recorded and recirculated.
Condition1Always ==
  /\ where = "_condition_1"
  /\ where' = "record_production_result"
  /\ Stay /\ UNCHANGED <<pkt, seen>>

\* shadow_metadata.shadow_bit == SHADOW_PROGRAM_ID
Condition1 ==
  /\ where = "_condition_1"
  /\ where' = IF pkt.shadow_bit THEN "record_production_result" ELSE "end"
  /\ Stay /\ UNCHANGED <<pkt, seen>>

\* The result left unrecorded.
RecordProductionResultSkipped ==
  /\ where = "record_production_result"
  /\ where' = "recirculate_table"
  /\ Stay /\ UNCHANGED <<pkt, seen>>

RecordProductionResult ==
  /\ where = "record_production_result"
  /\ pkt' = [pkt EXCEPT !.meta_p = pkt.egress_spec]
  /\ where' = "recirculate_table"
  /\ Stay /\ UNCHANGED seen

\* The packet given its new type but not recirculated.
RecirculateTableTypeOnly ==
  /\ where = "recirculate_table"
  /\ pkt' = [pkt EXCEPT !.instance_type = Recirculating]
  /\ where' = "end"
  /\ Stay /\ UNCHANGED seen

RecirculateTable ==
  /\ where = "recirculate_table"
  /\ pkt' = [pkt EXCEPT !.recirculate = TRUE, !.instance_type = Recirculating]
  /\ where' = "end"
  /\ Stay /\ UNCHANGED seen

RunTesting ==
  /\ where = "testing"
  /\ pkt' = Routed(pkt, router.test)
  /\ seen' = [seen EXCEPT !.tested = TRUE, !.whole = pkt.ipv4 /\ pkt.ttl > 0]
  /\ where' = "record_shadow_result"
  /\ Stay

\* The result left unrecorded.
RecordShadowResultSkipped ==
  /\ where = "record_shadow_result"
  /\ where' = "_condition_2"
  /\ Stay /\ UNCHANGED <<pkt, seen>>

RecordShadowResult ==
  /\ where = "record_shadow_result"
  /\ pkt' = [pkt EXCEPT !.meta_t = pkt.egress_spec]
  /\ where' = "_condition_2"
  /\ Stay /\ UNCHANGED seen

\* The comparison the wrong way round.
Condition2Swapped ==
  /\ where = "_condition_2"
  /\ seen' = [seen EXCEPT !.compared = TRUE]
  /\ where' = IF pkt.meta_p = pkt.meta_t THEN "handle_comparator_error" ELSE "end"
  /\ Stay /\ UNCHANGED pkt

\* shadow_metadata.meta_p != shadow_metadata.meta_t
Condition2 ==
  /\ where = "_condition_2"
  /\ seen' = [seen EXCEPT !.compared = TRUE]
  /\ where' = IF pkt.meta_p # pkt.meta_t THEN "handle_comparator_error" ELSE "end"
  /\ Stay /\ UNCHANGED pkt

HandleComparatorError ==
  /\ where = "handle_comparator_error"
  /\ pkt' = [pkt EXCEPT !.egress_spec = Controller]
  /\ seen' = [seen EXCEPT !.reported = TRUE]
  /\ where' = "end"
  /\ Stay

-----------------------------------------------------------------------------
\* The switch, at the end of ingress: a packet with the drop port is gone.
EndIngress ==
  /\ where = "end"
  /\ where' = IF pkt.egress_spec = Drop THEN "gone" ELSE "_condition_3"
  /\ Stay /\ UNCHANGED <<pkt, seen>>

\* control egress: standard_metadata.instance_type == 1
Condition3 ==
  /\ where = "_condition_3"
  /\ where' = IF pkt.instance_type = IngressClone THEN "egress_testing" ELSE "egress_production"
  /\ Stay /\ UNCHANGED <<pkt, seen>>

RunEgress ==
  /\ where \in {"egress_testing", "egress_production"}
  /\ where' = IF router.cut THEN "gone" ELSE "deparser"
  /\ Stay /\ UNCHANGED <<pkt, seen>>

\* Behind egress a packet leaves, or is recirculated: parsed again, with the
\* metadata in shadow_recirculate_meta kept.
Leave ==
  /\ where = "deparser"
  /\ ~pkt.recirculate
  /\ where' = "gone"
  /\ Stay /\ UNCHANGED <<pkt, seen>>

\* The field list without shadow_metadata.
RecirculatedBare(p, target) ==
  [p EXCEPT !.recirculate = FALSE, !.instance_type = WasRecirculated, !.ipv4 = ParsesIpv4(p),
            !.egress_spec = IF target = "kept" THEN p.egress_spec ELSE 0,
            !.shadow_bit = FALSE, !.meta_p = 0, !.meta_t = 0]

\* standard_metadata is in the field list, so that egress_spec should be kept; a
\* target that overwrites it for egress has cleared it by then.
Recirculated(p, target) ==
  [p EXCEPT !.recirculate = FALSE, !.instance_type = WasRecirculated, !.ipv4 = ParsesIpv4(p),
            !.egress_spec = IF target = "kept" THEN p.egress_spec ELSE 0]

Recirculate ==
  /\ where = "deparser"
  /\ pkt.recirculate
  /\ \E target \in Targets : pkt' = Recirculated(pkt, target)
  /\ where' = "stc"
  /\ Stay /\ UNCHANGED seen

Step ==
  \/ AddShadowTag \/ RemoveShadowTag \/ GotoTesting \/ GotoProduction \/ Miss
  \/ Condition0 \/ RunProduction \/ Condition1 \/ RecordProductionResult \/ RecirculateTable
  \/ RunTesting \/ RecordShadowResult \/ Condition2 \/ HandleComparatorError
  \/ EndIngress \/ Condition3 \/ RunEgress \/ Leave \/ Recirculate

Next == Arrive \/ Configure \/ Step

Spec == Init /\ [][Next]_vars /\ WF_vars(Step)

-----------------------------------------------------------------------------
Nodes == {"idle", "gone", "stc", "_condition_0", "production", "_condition_1",
          "record_production_result", "recirculate_table", "testing",
          "record_shadow_result", "_condition_2", "handle_comparator_error", "end",
          "_condition_3", "egress_testing", "egress_production", "deparser"}

Results == Ports \cup {Drop}
EtherTypes == {"ip", "shadow", "none"}

PacketType ==
  [dst : Macs, ttl : Nat, eth : EtherTypes, tag : EtherTypes, ipv4 : BOOLEAN,
   instance_type : {Normal, Recirculating, WasRecirculated}, shadow_bit : BOOLEAN,
   egress_spec : Results, meta_p : Results, meta_t : Results, recirculate : BOOLEAN]

SeenType ==
  [prod : Results \cup {NoResult}, differ : BOOLEAN, marked : BOOLEAN, sent : BOOLEAN,
   tested : BOOLEAN, whole : BOOLEAN, compared : BOOLEAN, reported : BOOLEAN]

TypeOK ==
  /\ router \in Routers
  /\ stc \in [Macs -> STCActions]
  /\ where \in Nodes
  /\ pkt \in PacketType
  /\ seen \in SeenType
  /\ updates \in 0 .. MaxUpdates

\* Testing never touches production traffic: only a packet the traffic control
\* table has marked is ever run through the testing program, whatever the
\* controller changes while it recirculates.
TestsOnlyMarked == where = "testing" => seen.marked /\ pkt.shadow_bit /\ seen.prod # NoResult

\* The comparator compares with the result production had for this packet.
ComparesRecorded == where = "_condition_2" => pkt.meta_p = seen.prod

\* The testing program cannot send a packet anywhere of its own choice: what
\* leaves the switch leaves where production sent it, or goes to the controller.
LeavesSafely == where = "gone" => pkt.egress_spec \in {seen.prod, Controller}

\* The comparator is exact for packets production leaves something to route of: it
\* reports one if and only if the two programs, given the packet as it came in,
\* treat it differently.
ComparatorExact ==
  where = "gone" /\ seen.compared /\ seen.whole => (seen.reported <=> seen.differ)

\* A packet that is gone with its mark has been compared, unless production or an
\* egress control function dropped it: what production drops never is compared.
MarkedIsCompared ==
  where = "gone" /\ pkt.shadow_bit => seen.compared \/ pkt.egress_spec = Drop \/ router.cut

\* A packet leaves unless the table keeps sending it, recirculated and marked,
\* to production.
LeavesUnlessStray ==
  []<>(Between \/ (where = "stc" /\ pkt.instance_type = WasRecirculated
                     /\ stc[pkt.dst] = "goto_production_pipe"))

-----------------------------------------------------------------------------
\* What the documentation says and the code does not do.

\* readme.md: "If the production programs and testing has different output for the
\* same packet, we can detect the output packet sent from the Comparator".
DifferenceDetected ==
  where = "gone" /\ seen.compared /\ seen.differ => seen.reported

\* readme.md: goto_testing_pipe sends "the packet to testing pipeline".
GotoTestingTests == where = "gone" /\ seen.sent => seen.tested

\* A marked packet is processed to an end.
MarkedLeaves == (where = "record_production_result") ~> (where = "gone")
=============================================================================
