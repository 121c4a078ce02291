------------------------- MODULE DiffTestingProofs -------------------------
(***************************************************************************)
(* For any addresses, ports, pairs of routers, incoming packets and number *)
(* of changes to the traffic control table: what differential testing      *)
(* keeps safe.  The safety properties of DiffTesting are not inductive;    *)
(* IInv below adds what is known of a packet at every node of the merged   *)
(* program.                                                                *)
(***************************************************************************)
EXTENDS DiffTesting, TLAPS

\* The nodes of the four stretches a packet goes through.
AtHead == {"stc", "_condition_0"}
AtProduction == {"production", "_condition_1", "record_production_result", "recirculate_table"}
AtTesting == {"testing", "record_shadow_result", "_condition_2", "handle_comparator_error"}
AtTail == {"end", "_condition_3", "egress_testing", "egress_production", "deparser", "gone"}

Routable(p) == p.ipv4 /\ p.ttl > 0

\* A packet with its bit set was marked.
BitMeansMarked == pkt.shadow_bit => seen.marked

\* Production has run, and its result is the one recorded.
Recorded == seen.prod # NoResult /\ pkt.shadow_bit /\ pkt.meta_p = seen.prod

\* In front of the two programs: a packet that was recirculated carries its mark
\* and the result of production.
HeadInv ==
  where \in AtHead =>
    /\ ~pkt.recirculate /\ ~seen.tested
    /\ pkt.instance_type # Normal => Recorded

\* From production to the end of its branch: egress_spec is production's result.
ProductionInv ==
  where \in AtProduction =>
    /\ ~pkt.recirculate /\ ~seen.tested
    /\ where # "production" => seen.prod # NoResult /\ pkt.egress_spec = seen.prod
    /\ where \in {"record_production_result", "recirculate_table"} => pkt.shadow_bit
    /\ where = "recirculate_table" => pkt.meta_p = seen.prod

\* From testing to the comparator: the packet has a recorded result.
TestingInv ==
  where \in AtTesting =>
    /\ ~pkt.recirculate /\ Recorded
    /\ seen.tested <=> where # "testing"
    /\ where = "_condition_2" => pkt.meta_t = pkt.egress_spec

\* Behind both: only a marked packet that has not been tested is recirculated, and
\* every packet that has its mark and was not compared, unless it is lost.
TailInv ==
  where \in AtTail =>
    /\ pkt.egress_spec \in {seen.prod, Controller}
    /\ pkt.recirculate => Recorded /\ ~seen.tested
    /\ pkt.shadow_bit /\ ~seen.compared =>
         IF where = "gone" THEN pkt.egress_spec = Drop \/ router.cut ELSE pkt.recirculate

\* The mark and the types of the headers: behind a tag there is ipv4 only if the
\* packet had it when it was tagged.
HeadersInv ==
  where = "stc" \/ pkt.shadow_bit => (ParsesIpv4(pkt) => pkt.ipv4)

\* As long as the packet can still be routed, production's result is what
\* production does to any packet it routes.
RoutableInv ==
  seen.prod # NoResult /\ Routable(pkt) =>
    /\ seen.prod = router.prod
    /\ seen.differ <=> router.prod # router.test

\* The same for a packet that could be routed when testing got it.
WholeInv ==
  seen.whole =>
    /\ seen.tested
    /\ seen.prod = router.prod
    /\ seen.differ <=> router.prod # router.test
    /\ where = "record_shadow_result" => pkt.egress_spec = router.test
    /\ where # "record_shadow_result" => pkt.meta_t = router.test

\* What has been reported is what the comparator has found.
ComparedInv ==
  /\ seen.compared => seen.tested /\ pkt.meta_p = seen.prod
  /\ seen.tested => where \in (AtTesting \cup AtTail) \ {"testing"}
  /\ where = "_condition_2" \/ where = "record_shadow_result" => ~seen.compared
  /\ where = "handle_comparator_error" => seen.compared /\ pkt.meta_p # pkt.meta_t
  /\ seen.compared /\ where # "handle_comparator_error" => (seen.reported <=> pkt.meta_p # pkt.meta_t)
  /\ ~seen.compared => ~seen.reported

PacketInv ==
  /\ BitMeansMarked /\ HeadInv /\ ProductionInv /\ TestingInv /\ TailInv
  /\ HeadersInv /\ RoutableInv /\ WholeInv /\ ComparedInv

IInv == TypeOK /\ PacketInv

-----------------------------------------------------------------------------
\* What no router touches.
SameMarks(p, q) ==
  /\ p.eth = q.eth /\ p.tag = q.tag /\ p.ipv4 = q.ipv4
  /\ p.shadow_bit = q.shadow_bit /\ p.instance_type = q.instance_type
  /\ p.meta_p = q.meta_p /\ p.meta_t = q.meta_t /\ p.recirculate = q.recirculate

\* A packet routed by a program that gives it port is a packet again.
LEMMA RoutedType ==
  ASSUME router \in Routers, NEW p \in PacketType, NEW port \in Results
  PROVE  /\ Routed(p, port) \in PacketType
         /\ Routed(p, port).egress_spec = IF Routable(p) THEN port ELSE p.egress_spec
         /\ Routable(Routed(p, port)) => Routable(p)
         /\ SameMarks(Routed(p, port), p)
<1>1. router.rewrite \in [Macs -> Macs]
  BY ConstantsAssumption
<1>2. CASE ~Routable(p)
  BY <1>2 DEF Routed, Routable, PacketType, SameMarks
<1>3. CASE Routable(p) /\ port = Drop
  <2>1. Routed(p, port) = [p EXCEPT !.egress_spec = Drop]
    BY <1>3 DEF Routed, Routable, PacketType
  <2>. QED
    BY <1>3, <2>1 DEF PacketType, SameMarks, Routable
<1>4. CASE Routable(p) /\ port # Drop
  <2>1. Routed(p, port) = [p EXCEPT !.egress_spec = port, !.ttl = p.ttl - 1, !.dst = router.rewrite[p.dst]]
    BY <1>4 DEF Routed, Routable, PacketType
  <2>2. router.rewrite[p.dst] \in Macs /\ p.ttl - 1 \in Nat
    BY <1>1, <1>4 DEF PacketType, Routable
  <2>. QED
    BY <1>4, <2>1, <2>2 DEF PacketType, SameMarks, Routable
<1>. QED  BY <1>2, <1>3, <1>4

-----------------------------------------------------------------------------
\* Between two packets there is nothing to know.
LEMMA InitInv == Init => IInv
<1>. SUFFICES ASSUME Init PROVE IInv
  OBVIOUS
<1>1. (CHOOSE m \in Macs : TRUE) \in Macs
  BY ConstantsAssumption
<1>2. TypeOK
  BY <1>1, ConstantsAssumption
  DEF Init, Fresh, Nothing, TypeOK, PacketType, SeenType, Nodes, Results, EtherTypes, ParsesIpv4, Normal
<1>. QED
  BY <1>2 DEF Init, Fresh, Nothing, IInv, PacketInv, BitMeansMarked, HeadInv, ProductionInv, TestingInv, TailInv,
     HeadersInv, RoutableInv, WholeInv, ComparedInv, AtHead, AtProduction, AtTesting, AtTail


-----------------------------------------------------------------------------
\* Every step keeps the types.
LEMMA TypeStep ==
  ASSUME TypeOK, [Next]_vars
  PROVE  TypeOK'
<1>0. pkt \in PacketType /\ seen \in SeenType
  BY DEF TypeOK
<1>. CASE UNCHANGED vars
  BY DEF vars, TypeOK
<1>1. CASE Arrive
  <2>1. pkt' \in PacketType
    BY <1>1, ConstantsAssumption DEF Arrive, Fresh, ParsesIpv4, PacketType, Results, EtherTypes, Normal
  <2>2. seen' \in SeenType
    BY <1>0, <1>1, Zenon DEF Arrive, SeenType, Nothing
  <2>. QED
    BY <1>1, <2>1, <2>2 DEF Arrive, Stay, TypeOK, Nodes
<1>2. CASE Configure
  BY <1>2, ConstantsAssumption DEF Configure, TypeOK
<1>3. CASE AddShadowTag
  <2>1. pkt' \in PacketType
    BY <1>0, <1>3, Zenon DEF AddShadowTag, PacketType, EtherTypes
  <2>2. seen' \in SeenType
    BY <1>0, <1>3, Zenon DEF AddShadowTag, SeenType
  <2>. QED
    BY <1>3, <2>1, <2>2 DEF AddShadowTag, Hit, Stay, TypeOK, Nodes
<1>4. CASE RemoveShadowTag
  <2>1. pkt' \in PacketType
    BY <1>0, <1>4, Zenon DEF RemoveShadowTag, PacketType, EtherTypes
  <2>. QED
    BY <1>4, <2>1 DEF RemoveShadowTag, Hit, Stay, TypeOK, Nodes
<1>5. CASE GotoTesting
  <2>1. seen' \in SeenType
    BY <1>0, <1>5, Zenon DEF GotoTesting, SeenType
  <2>. QED
    BY <1>5, <2>1 DEF GotoTesting, Hit, Stay, TypeOK, Nodes
<1>6. CASE GotoProduction
  BY <1>6 DEF GotoProduction, Hit, Stay, TypeOK, Nodes
<1>7. CASE Miss
  BY <1>7 DEF Miss, Hit, Stay, TypeOK, Nodes
<1>8. CASE Condition0
  BY <1>8 DEF Condition0, Stay, TypeOK, Nodes
<1>9. CASE RunProduction
  <2>1. pkt' = Routed(pkt, router.prod) /\ router.prod \in Results
    BY <1>9, ConstantsAssumption DEF RunProduction, TypeOK, Results
  <2>2. pkt' \in PacketType
    BY <1>0, <2>1, RoutedType DEF TypeOK
  <2>3. seen' \in SeenType
    BY <1>0, <1>9, <2>2, Zenon DEF RunProduction, SeenType, PacketType
  <2>. QED
    BY <1>9, <2>2, <2>3 DEF RunProduction, Stay, TypeOK, Nodes
<1>10. CASE Condition1
  BY <1>10 DEF Condition1, Stay, TypeOK, Nodes
<1>11. CASE RecordProductionResult
  <2>1. pkt' \in PacketType
    BY <1>0, <1>11, Zenon DEF RecordProductionResult, PacketType
  <2>. QED
    BY <1>11, <2>1 DEF RecordProductionResult, Stay, TypeOK, Nodes
<1>12. CASE RecirculateTable
  <2>1. pkt' \in PacketType
    BY <1>0, <1>12, Zenon DEF RecirculateTable, PacketType, Recirculating
  <2>. QED
    BY <1>12, <2>1 DEF RecirculateTable, Stay, TypeOK, Nodes
<1>13. CASE RunTesting
  <2>1. pkt' = Routed(pkt, router.test) /\ router.test \in Results
    BY <1>13, ConstantsAssumption DEF RunTesting, TypeOK, Results
  <2>2. pkt' \in PacketType
    BY <1>0, <2>1, RoutedType DEF TypeOK
  <2>3. seen' \in SeenType
    BY <1>0, <1>13, <2>2, Zenon DEF RunTesting, SeenType, PacketType
  <2>. QED
    BY <1>13, <2>2, <2>3 DEF RunTesting, Stay, TypeOK, Nodes
<1>14. CASE RecordShadowResult
  <2>1. pkt' \in PacketType
    BY <1>0, <1>14, Zenon DEF RecordShadowResult, PacketType
  <2>. QED
    BY <1>14, <2>1 DEF RecordShadowResult, Stay, TypeOK, Nodes
<1>15. CASE Condition2
  <2>1. seen' \in SeenType
    BY <1>0, <1>15, Zenon DEF Condition2, SeenType
  <2>. QED
    BY <1>15, <2>1 DEF Condition2, Stay, TypeOK, Nodes
<1>16. CASE HandleComparatorError
  <2>1. Controller \in Results
    BY ConstantsAssumption DEF Results
  <2>2. pkt' \in PacketType
    BY <1>0, <1>16, <2>1, Zenon DEF HandleComparatorError, PacketType
  <2>3. seen' \in SeenType
    BY <1>0, <1>16, Zenon DEF HandleComparatorError, SeenType
  <2>. QED
    BY <1>16, <2>2, <2>3 DEF HandleComparatorError, Stay, TypeOK, Nodes
<1>17. CASE EndIngress
  BY <1>17 DEF EndIngress, Stay, TypeOK, Nodes
<1>18. CASE Condition3
  BY <1>18 DEF Condition3, Stay, TypeOK, Nodes
<1>19. CASE RunEgress
  BY <1>19 DEF RunEgress, Stay, TypeOK, Nodes
<1>20. CASE Leave
  BY <1>20 DEF Leave, Stay, TypeOK, Nodes
<1>21. CASE Recirculate
  <2>1. PICK target \in Targets : pkt' = Recirculated(pkt, target)
    BY <1>21 DEF Recirculate
  <2>2. 0 \in Results /\ ParsesIpv4(pkt) \in BOOLEAN /\ pkt.egress_spec \in Results
    BY <1>0, ConstantsAssumption DEF Results, ParsesIpv4, PacketType
  <2>3. \A e \in Results, b \in BOOLEAN :
          [pkt EXCEPT !.recirculate = FALSE, !.instance_type = WasRecirculated, !.ipv4 = b,
                      !.egress_spec = e] \in PacketType
    BY <1>0, Zenon DEF PacketType
  <2>4. pkt' \in PacketType
    BY <2>1, <2>2, <2>3 DEF Recirculated
  <2>. QED
    BY <1>21, <2>4 DEF Recirculate, Stay, TypeOK, Nodes
<1>. QED
  BY <1>1, <1>2, <1>3, <1>4, <1>5, <1>6, <1>7, <1>8, <1>9, <1>10, <1>11, <1>12, <1>13, <1>14, <1>15, <1>16, <1>17, <1>18, <1>19, <1>20, <1>21 DEF Next, Step

-----------------------------------------------------------------------------
\* Production: its result is in egress_spec, and is router.prod whenever the packet
\* can still be routed afterwards, because it could be routed before.
LEMMA RunProductionInv ==
  ASSUME IInv, RunProduction
  PROVE  PacketInv'
<1>1. pkt \in PacketType /\ router \in Routers /\ {router.prod, router.test} \subseteq Results
  BY ConstantsAssumption DEF IInv, TypeOK, Results
<1>2. /\ pkt' = Routed(pkt, router.prod)
      /\ Routed(pkt, router.prod).egress_spec = IF Routable(pkt) THEN router.prod ELSE pkt.egress_spec
      /\ Routed(pkt, router.test).egress_spec = IF Routable(pkt) THEN router.test ELSE pkt.egress_spec
      /\ Routable(pkt') => Routable(pkt)
      /\ SameMarks(pkt', pkt)
  BY <1>1, RoutedType DEF RunProduction
<1>3. pkt'.egress_spec # NoResult
  BY <1>1, <1>2, ConstantsAssumption DEF Results, NoResult, PacketType
<1>. QED
  BY <1>2, <1>3 DEF RunProduction, Stay, IInv, TypeOK, SeenType, SameMarks, ParsesIpv4, PacketInv,
     BitMeansMarked, HeadInv, ProductionInv, TestingInv, TailInv, HeadersInv, RoutableInv, WholeInv,
     ComparedInv, AtHead, AtProduction, AtTesting, AtTail, Recorded

\* Testing: egress_spec becomes router.test exactly if the packet is whole, and
\* nothing recorded is touched.
LEMMA RunTestingInv ==
  ASSUME IInv, RunTesting
  PROVE  PacketInv'
<1>1. pkt \in PacketType /\ router \in Routers /\ router.test \in Results
  BY ConstantsAssumption DEF IInv, TypeOK, Results
<1>2. /\ pkt' = Routed(pkt, router.test)
      /\ pkt'.egress_spec = IF Routable(pkt) THEN router.test ELSE pkt.egress_spec
      /\ Routable(pkt') => Routable(pkt)
      /\ SameMarks(pkt', pkt)
  BY <1>1, RoutedType DEF RunTesting
<1>3. seen'.whole <=> Routable(pkt)
  BY DEF RunTesting, IInv, TypeOK, SeenType, Routable
<1>. QED
  BY <1>2, <1>3 DEF RunTesting, Stay, IInv, TypeOK, SeenType, SameMarks, ParsesIpv4, PacketInv,
     BitMeansMarked, HeadInv, ProductionInv, TestingInv, TailInv, HeadersInv, RoutableInv, WholeInv,
     ComparedInv, AtHead, AtProduction, AtTesting, AtTail, Recorded

-----------------------------------------------------------------------------
\* Every step keeps what is known of the packet at every node.
LEMMA PacketStep ==
  ASSUME IInv, [Next]_vars
  PROVE  PacketInv'
<1>. USE DEF IInv, PacketInv, BitMeansMarked, HeadInv, ProductionInv, TestingInv, TailInv, HeadersInv,
         RoutableInv, WholeInv, ComparedInv, AtHead, AtProduction, AtTesting, AtTail, Recorded,
         Routable, ParsesIpv4, TypeOK, PacketType, SeenType
<1>. CASE UNCHANGED vars
  BY DEF vars
<1>1. CASE Arrive
  <2>1. PICK i \in Incoming : pkt' = Fresh(i)
    BY <1>1 DEF Arrive
  <2>2. /\ pkt'.instance_type = Normal /\ ~pkt'.shadow_bit /\ ~pkt'.recirculate
        /\ pkt'.ipv4 = ParsesIpv4(i) /\ pkt'.eth = i.eth /\ pkt'.tag = i.tag
    BY <2>1 DEF Fresh
  <2>3. /\ ~seen'.tested /\ ~seen'.whole /\ ~seen'.compared /\ ~seen'.reported
        /\ seen'.prod = NoResult /\ where' = "stc"
    BY <1>1 DEF Arrive, Nothing
  <2>. QED
    BY <2>2, <2>3
<1>2. CASE Configure
  BY <1>2 DEF Configure
<1>3. CASE AddShadowTag
  BY <1>3 DEF AddShadowTag, Hit, Stay
<1>4. CASE RemoveShadowTag
  BY <1>4 DEF RemoveShadowTag, Hit, Stay
<1>5. CASE GotoTesting
  BY <1>5 DEF GotoTesting, Hit, Stay
<1>6. CASE GotoProduction
  BY <1>6 DEF GotoProduction, Hit, Stay
<1>7. CASE Miss
  BY <1>7 DEF Miss, Hit, Stay
<1>8. CASE Condition0
  BY <1>8 DEF Condition0, Stay, Normal
<1>9. CASE RunProduction
  BY <1>9, RunProductionInv
<1>10. CASE Condition1
  BY <1>10 DEF Condition1, Stay
<1>11. CASE RecordProductionResult
  BY <1>11 DEF RecordProductionResult, Stay
<1>12. CASE RecirculateTable
  BY <1>12 DEF RecirculateTable, Stay, Recirculating, Normal
<1>13. CASE RunTesting
  BY <1>13, RunTestingInv
<1>14. CASE RecordShadowResult
  BY <1>14 DEF RecordShadowResult, Stay
<1>15. CASE Condition2
  BY <1>15 DEF Condition2, Stay
<1>16. CASE HandleComparatorError
  BY <1>16 DEF HandleComparatorError, Stay
<1>17. CASE EndIngress
  BY <1>17 DEF EndIngress, Stay
<1>18. CASE Condition3
  BY <1>18 DEF Condition3, Stay, IngressClone
<1>19. CASE RunEgress
  BY <1>19 DEF RunEgress, Stay
<1>20. CASE Leave
  BY <1>20 DEF Leave, Stay
<1>21. CASE Recirculate
  BY <1>21 DEF Recirculate, Stay, Recirculated, WasRecirculated, Normal
<1>. QED
  BY <1>1, <1>2, <1>3, <1>4, <1>5, <1>6, <1>7, <1>8, <1>9, <1>10, <1>11, <1>12, <1>13, <1>14, <1>15, <1>16, <1>17, <1>18, <1>19, <1>20, <1>21 DEF Next, Step

-----------------------------------------------------------------------------
(***************************************************************************)
(* The theorems                                                            *)
(***************************************************************************)

\* IInv is an inductive invariant of DiffTesting.
THEOREM Invariance == Spec => []IInv
<1>1. Init => IInv
  BY InitInv
<1>2. IInv /\ [Next]_vars => IInv'
  BY TypeStep, PacketStep DEF IInv
<1>. QED
  BY <1>1, <1>2, PTL DEF Spec

\* The state of the switch keeps its type.
THEOREM TypeCorrect == Spec => []TypeOK
<1>1. IInv => TypeOK
  BY DEF IInv
<1>. QED
  BY <1>1, Invariance, PTL

\* Only packets the traffic control table has marked, and production has
\* processed, ever reach the testing program.
THEOREM OnlyMarkedTested == Spec => []TestsOnlyMarked
<1>1. IInv => TestsOnlyMarked
  BY DEF IInv, PacketInv, BitMeansMarked, TestingInv, Recorded, AtTesting, TestsOnlyMarked
<1>. QED
  BY <1>1, Invariance, PTL

\* The comparator compares with the result production had for this very packet.
THEOREM RecordedResultCompared == Spec => []ComparesRecorded
<1>1. IInv => ComparesRecorded
  BY DEF IInv, PacketInv, TestingInv, Recorded, AtTesting, ComparesRecorded
<1>. QED
  BY <1>1, Invariance, PTL

\* The testing program never decides where a packet leaves the switch.
THEOREM TestingHarmless == Spec => []LeavesSafely
<1>1. IInv => LeavesSafely
  BY DEF IInv, PacketInv, TailInv, AtTail, LeavesSafely
<1>. QED
  BY <1>1, Invariance, PTL

\* Every packet that is gone with its mark has been compared, was dropped by
\* production or was dropped in egress.
THEOREM MarkedCompared == Spec => []MarkedIsCompared
<1>1. IInv => MarkedIsCompared
  BY DEF IInv, PacketInv, TailInv, AtTail, MarkedIsCompared
<1>. QED
  BY <1>1, Invariance, PTL

\* The comparator reports a packet that could still be routed if and only if the
\* two programs treat the packet that came in differently.
THEOREM ComparatorIsExact == Spec => []ComparatorExact
<1>1. IInv => ComparatorExact
  BY DEF IInv, PacketInv, WholeInv, ComparedInv, ComparatorExact
<1>. QED
  BY <1>1, Invariance, PTL
=============================================================================
