-------------------------- MODULE HybridDriverProofs --------------------------
(***************************************************************************)
(* Proofs about the hybrid driver, for any number of callers and resetting *)
(* goroutines, any cool-off and any counter width.                         *)
(***************************************************************************)
EXTENDS HybridDriver, TLAPS

(* A transition of one goroutine, once and for all.                        *)
LEMMA GotoSets ==
    ASSUME TypeOK, NEW g \in Callers \cup Admins, NEW from, NEW to, Goto(g, from, to)
    PROVE  /\ pc[g] = from
           /\ pc'[g] = to
           /\ \A h \in Callers \cup Admins : h # g => pc'[h] = pc[h]
           /\ DOMAIN pc' = Callers \cup Admins
BY DEF Goto, TypeOK

LEMMA CallerGoes ==
    ASSUME TypeOK, NEW r \in Callers, NEW from, NEW to \in CallerLabels, Goto(r, from, to)
    PROVE  /\ pc' \in [Callers \cup Admins -> CallerLabels \cup AdminLabels]
           /\ \A s \in Callers : pc'[s] \in CallerLabels
           /\ \A a \in Admins : pc'[a] \in AdminLabels
<1>1. r \notin Admins
  BY HybridAssumption
<1>2. QED
  BY <1>1 DEF Goto, TypeOK

LEMMA AdminGoes ==
    ASSUME TypeOK, NEW a \in Admins, NEW from, NEW to \in AdminLabels, Goto(a, from, to)
    PROVE  /\ pc' \in [Callers \cup Admins -> CallerLabels \cup AdminLabels]
           /\ \A s \in Callers : pc'[s] = pc[s]
           /\ \A b \in Admins : pc'[b] \in AdminLabels
<1>1. a \notin Callers
  BY HybridAssumption
<1>2. QED
  BY <1>1 DEF Goto, TypeOK

LEMMA AgesAge ==
    ASSUME NEW age \in Ages
    PROVE  Older(age) \in Ages
BY HybridAssumption DEF Ages, Older

LEMMA CounterWraps ==
    ASSUME NEW n \in 0 .. CountMod - 1
    PROVE  (n + 1) % CountMod \in 0 .. CountMod - 1
BY HybridAssumption

LEMMA TypeInit == Init => TypeOK
<1> SUFFICES ASSUME Init PROVE TypeOK
  OBVIOUS
<1>1. CoolOff \in Ages /\ 0 \in 0 .. CountMod - 1
  BY HybridAssumption DEF Ages
<1>2. "idle" \in CallerLabels /\ "idle" \in AdminLabels
  BY DEF CallerLabels, AdminLabels
<1>3. QED
  BY <1>1, <1>2 DEF Init, TypeOK, Expired, Tiers

LEMMA TypeCaller ==
    ASSUME TypeOK, NEW r \in Callers, Arrive(r) \/ Continue(r)
    PROVE  TypeOK'
<1> USE DEF TypeOK, driverVars, CallerLabels, ProbeSection, Tiers, Serves, Errs
<1>1. CASE EnterClosed(r)
  BY <1>1, CallerGoes DEF EnterClosed
<1>2. CASE PrimaryServes(r)
  BY <1>2, CallerGoes DEF PrimaryServes
<1>3. CASE PrimaryErrs(r)
  BY <1>3, CallerGoes DEF PrimaryErrs
<1>4. CASE CasDown(r)
  BY <1>4, CallerGoes DEF CasDown
<1>5. CASE EnterOpen(r)
  BY <1>5, CallerGoes DEF EnterOpen
<1>6. CASE LoadLastFail(r)
  BY <1>6, CallerGoes DEF LoadLastFail
<1>7. CASE CheckCoolOff(r)
  BY <1>7, CallerGoes, HybridAssumption DEF CheckCoolOff, Expired, Ages
<1>8. CASE CasProbing(r)
  BY <1>8, CallerGoes DEF CasProbing
<1>9. CASE ProbeServes(r)
  BY <1>9, CallerGoes DEF ProbeServes
<1>10. CASE SetUp(r)
  BY <1>10, CallerGoes DEF SetUp
<1>11. CASE ProbeErrs(r)
  BY <1>11, CallerGoes DEF ProbeErrs
<1>12. CASE ReadClock(r)
  BY <1>12, CallerGoes, HybridAssumption DEF ReadClock, Ages
<1>13. CASE StoreLastFail(r)
  BY <1>13, CallerGoes, HybridAssumption DEF StoreLastFail, Expired, Ages
<1>14. CASE ReleaseProbe(r)
  BY <1>14, CallerGoes DEF ReleaseProbe
<1>15. CASE OnError(r)
  BY <1>15, CallerGoes DEF OnError
<1>16. CASE CountFallback(r)
  BY <1>16, CallerGoes, CounterWraps DEF CountFallback
<1>17. CASE CallFallback(r)
  BY <1>17, CallerGoes DEF CallFallback
<1>18. QED
  BY <1>1, <1>2, <1>3, <1>4, <1>5, <1>6, <1>7, <1>8, <1>9, <1>10, <1>11, <1>12,
     <1>13, <1>14, <1>15, <1>16, <1>17 DEF Arrive, Continue

LEMMA TypeAdmin ==
    ASSUME TypeOK, NEW a \in Admins, Reset(a)
    PROVE  TypeOK'
<1> USE DEF TypeOK, driverVars, AdminLabels, Tiers
<1>1. CASE ResetFallback(a)
  BY <1>1, AdminGoes DEF ResetFallback
<1>2. CASE LoadIsDown(a)
  BY <1>2, AdminGoes DEF LoadIsDown
<1>3. CASE ResetPrimary(a)
  BY <1>3, AdminGoes DEF ResetPrimary
<1>4. QED
  BY <1>1, <1>2, <1>3 DEF Reset

LEMMA TypeStep == TypeOK /\ [Next]_vars => TypeOK'
<1> SUFFICES ASSUME TypeOK, [Next]_vars PROVE TypeOK'
  OBVIOUS
<1>1. ASSUME NEW r \in Callers, Arrive(r) \/ Continue(r) PROVE TypeOK'
  BY <1>1, TypeCaller
<1>2. ASSUME NEW a \in Admins, Reset(a) PROVE TypeOK'
  BY <1>2, TypeAdmin
<1>3. CASE Tick
  BY <1>3, AgesAge DEF Tick, TypeOK
<1>4. CASE Outage
  BY <1>4 DEF Outage, TypeOK, driverVars
<1>5. CASE UNCHANGED vars
  BY <1>5 DEF vars, driverVars, TypeOK
<1>6. QED
  BY <1>1, <1>2, <1>3, <1>4, <1>5 DEF Next

(* Type correctness of the driver's fields and of the control points of    *)
(* Allow and Reset (hybrid.go:19-141).                                     *)
THEOREM TypeCorrect == Spec => []TypeOK
BY TypeInit, TypeStep, PTL DEF Spec

-------------------------------------------------------------------------------
(* Mutual exclusion of probes.                                             *)

(* A step of a caller that neither enters nor leaves the probe section.    *)
LEMMA ProbeKept ==
    ASSUME TypeOK, SingleProbe, NEW r \in Callers, NEW from, NEW to, Goto(r, from, to),
           from \in ProbeSection <=> to \in ProbeSection, UNCHANGED probingActive
    PROVE  SingleProbe'
<1>1. \A s \in Callers : pc'[s] \in ProbeSection <=> pc[s] \in ProbeSection
  BY GotoSets
<1>2. QED
  BY <1>1 DEF SingleProbe

LEMMA ProbeEntered ==
    ASSUME TypeOK, SingleProbe, NEW r \in Callers, ~probingActive, probingActive',
           Goto(r, "casProbing", "probe")
    PROVE  SingleProbe'
<1>1. /\ pc'[r] \in ProbeSection
      /\ \A s \in Callers : s # r => pc'[s] \notin ProbeSection
  BY GotoSets DEF SingleProbe, ProbeSection
<1>2. QED
  BY <1>1 DEF SingleProbe

LEMMA ProbeLeft ==
    ASSUME TypeOK, SingleProbe, NEW r \in Callers, NEW from \in ProbeSection,
           NEW to, to \notin ProbeSection, Goto(r, from, to), ~probingActive'
    PROVE  SingleProbe'
<1>1. \A s \in Callers : pc'[s] \notin ProbeSection
  BY GotoSets DEF SingleProbe
<1>2. QED
  BY <1>1 DEF SingleProbe

LEMMA ProbeCaller ==
    ASSUME TypeOK, SingleProbe, NEW r \in Callers, Arrive(r) \/ Continue(r)
    PROVE  SingleProbe'
<1> USE DEF ProbeSection, driverVars
<1>1. CASE EnterClosed(r)
  BY <1>1, ProbeKept DEF EnterClosed
<1>2. CASE PrimaryServes(r)
  BY <1>2, ProbeKept DEF PrimaryServes
<1>3. CASE PrimaryErrs(r)
  BY <1>3, ProbeKept DEF PrimaryErrs
<1>4. CASE CasDown(r)
  BY <1>4, ProbeKept DEF CasDown
<1>5. CASE EnterOpen(r)
  BY <1>5, ProbeKept DEF EnterOpen
<1>6. CASE LoadLastFail(r)
  BY <1>6, ProbeKept DEF LoadLastFail
<1>7. CASE CheckCoolOff(r)
  BY <1>7, ProbeKept DEF CheckCoolOff
<1>8. CASE CasProbing(r)
  <2>1. CASE ~probingActive
    BY <1>8, <2>1, ProbeEntered DEF CasProbing
  <2>2. CASE probingActive
    BY <1>8, <2>2, ProbeKept DEF CasProbing
  <2>3. QED
    BY <2>1, <2>2
<1>9. CASE ProbeServes(r)
  BY <1>9, ProbeKept DEF ProbeServes
<1>10. CASE SetUp(r)
  BY <1>10, ProbeKept DEF SetUp
<1>11. CASE ProbeErrs(r)
  BY <1>11, ProbeKept DEF ProbeErrs
<1>12. CASE ReadClock(r)
  BY <1>12, ProbeKept DEF ReadClock
<1>13. CASE StoreLastFail(r)
  BY <1>13, ProbeKept DEF StoreLastFail
<1>14. CASE ReleaseProbe(r)
  BY <1>14, ProbeLeft DEF ReleaseProbe
<1>15. CASE OnError(r)
  BY <1>15, ProbeKept DEF OnError
<1>16. CASE CountFallback(r)
  BY <1>16, ProbeKept DEF CountFallback
<1>17. CASE CallFallback(r)
  BY <1>17, ProbeKept DEF CallFallback
<1>18. QED
  BY <1>1, <1>2, <1>3, <1>4, <1>5, <1>6, <1>7, <1>8, <1>9, <1>10, <1>11, <1>12,
     <1>13, <1>14, <1>15, <1>16, <1>17 DEF Arrive, Continue

LEMMA ResetLeavesCallers ==
    ASSUME TypeOK, NEW a \in Admins, Reset(a)
    PROVE  /\ \A s \in Callers : pc'[s] = pc[s]
           /\ UNCHANGED <<isDown, probingActive, healthy>>
<1> USE DEF driverVars, AdminLabels
<1>1. CASE ResetFallback(a)
  BY <1>1, AdminGoes DEF ResetFallback
<1>2. CASE LoadIsDown(a)
  BY <1>2, AdminGoes DEF LoadIsDown
<1>3. CASE ResetPrimary(a)
  BY <1>3, AdminGoes DEF ResetPrimary
<1>4. QED
  BY <1>1, <1>2, <1>3 DEF Reset

(* At most one caller tests the primary at a time, and probingActive tells *)
(* exactly whether one does (hybrid.go:82-94).  With TypeOK the invariant  *)
(* is inductive as it stands.                                              *)
THEOREM ProbesExclude == Spec => []SingleProbe
<1>1. Init => SingleProbe
  BY DEF Init, SingleProbe, ProbeSection
<1>2. TypeOK /\ SingleProbe /\ [Next]_vars => SingleProbe'
  <2> SUFFICES ASSUME TypeOK, SingleProbe, [Next]_vars PROVE SingleProbe'
    OBVIOUS
  <2>1. ASSUME NEW r \in Callers, Arrive(r) \/ Continue(r) PROVE SingleProbe'
    BY <2>1, ProbeCaller
  <2>2. ASSUME NEW a \in Admins, Reset(a) PROVE SingleProbe'
    BY <2>2, ResetLeavesCallers DEF SingleProbe
  <2>3. CASE Tick
    BY <2>3 DEF Tick, SingleProbe
  <2>4. CASE Outage
    BY <2>4 DEF Outage, SingleProbe, driverVars
  <2>5. CASE UNCHANGED vars
    BY <2>5 DEF vars, driverVars, SingleProbe
  <2>6. QED
    BY <2>1, <2>2, <2>3, <2>4, <2>5 DEF Next
<1>3. QED
  BY <1>1, <1>2, TypeCorrect, PTL DEF Spec

-------------------------------------------------------------------------------
(* The driver implements the abstract breaker.                             *)

Test == [r \in Callers |-> Phase(pc[r])]

LEMMA PhaseOfLabels ==
    /\ Phase("probe") = "running"
    /\ Phase("setUp") = "passed"
    /\ Phase("release") = "applied"
    /\ \A label \in {"probeNow", "probeStore", "giveUp"} : Phase(label) = "failed"
    /\ \A label \in (CallerLabels \cup AdminLabels) \ ProbeSection : Phase(label) = "none"
BY DEF Phase, CallerLabels, AdminLabels, ProbeSection

(* A step of a caller moves its test, and only its test.                   *)
LEMMA TestMoves ==
    ASSUME TypeOK, NEW r \in Callers, NEW from, NEW to, Goto(r, from, to)
    PROVE  Test[r] = Phase(from) /\ Test' = [Test EXCEPT ![r] = Phase(to)]
BY GotoSets DEF Test

LEMMA TestKept ==
    ASSUME TypeOK, NEW r \in Callers, NEW from, NEW to, Goto(r, from, to),
           Phase(from) = Phase(to)
    PROVE  Test' = Test
BY GotoSets DEF Test

LEMMA StutterByTest ==
    ASSUME Test' = Test, UNCHANGED <<isDown, healthy>>
    PROVE  UNCHANGED Breaker!vars
BY DEF Test, Breaker!vars

LEMMA CallerImplements ==
    ASSUME TypeOK, SingleProbe, NEW r \in Callers, Arrive(r) \/ Continue(r)
    PROVE  [Breaker!Next]_Breaker!vars
<1> USE DEF driverVars
<1> DEFINE Quiet == (CallerLabels \cup AdminLabels) \ ProbeSection
<1>0. {"idle", "loadLastFail", "checkCoolOff", "casProbing", "primary", "casDown",
       "tripNow", "tripStore", "onError", "count", "fallback"} \subseteq Quiet
  BY DEF CallerLabels, ProbeSection
<1> HIDE DEF Quiet
<1>q. \A label \in Quiet : Phase(label) = "none"
  BY PhaseOfLabels DEF Quiet
<1>1. CASE EnterClosed(r)
  BY <1>1, <1>0, <1>q, TestKept, StutterByTest DEF EnterClosed
<1>2. CASE PrimaryServes(r)
  BY <1>2, <1>0, <1>q, TestKept, StutterByTest DEF PrimaryServes
<1>3. CASE PrimaryErrs(r)
  BY <1>3, <1>0, <1>q, TestKept, StutterByTest DEF PrimaryErrs
<1>4. CASE CasDown(r)
  <2>1. Test' = Test
    BY <1>4, <1>0, <1>q, TestKept DEF CasDown
  <2>2. CASE isDown
    BY <1>4, <2>1, <2>2, StutterByTest DEF CasDown, TypeOK
  <2>3. CASE ~isDown
    BY <1>4, <2>1, <2>3 DEF CasDown, Breaker!Next, Breaker!Trip, Test
  <2>4. QED
    BY <2>2, <2>3
<1>5. CASE EnterOpen(r)
  BY <1>5, <1>0, <1>q, TestKept, StutterByTest DEF EnterOpen
<1>6. CASE LoadLastFail(r)
  BY <1>6, <1>0, <1>q, TestKept, StutterByTest DEF LoadLastFail
<1>7. CASE CheckCoolOff(r)
  BY <1>7, <1>0, <1>q, TestKept, StutterByTest DEF CheckCoolOff
<1>8. CASE CasProbing(r)
  <2>1. CASE probingActive
    BY <1>8, <2>1, <1>0, <1>q, TestKept, StutterByTest DEF CasProbing
  <2>2. CASE ~probingActive
    <3>1. \A s \in Callers : Test[s] = "none"
      BY <2>2, PhaseOfLabels DEF SingleProbe, TypeOK, Test
    <3>2. Test' = [Test EXCEPT ![r] = "running"]
      BY <1>8, <2>2, TestMoves, PhaseOfLabels DEF CasProbing
    <3>3. Breaker!Begin(r)
      BY <1>8, <2>2, <3>1, <3>2 DEF CasProbing, Breaker!Begin, Breaker!Advance, Test
    <3>4. QED
      BY <3>3 DEF Breaker!Next
  <2>3. QED
    BY <2>1, <2>2
<1>9. CASE ProbeServes(r)
  <2>1. Test[r] = "running" /\ Test' = [Test EXCEPT ![r] = "passed"]
    BY <1>9, TestMoves, PhaseOfLabels DEF ProbeServes
  <2>2. Breaker!Pass(r)
    BY <1>9, <2>1 DEF ProbeServes, Serves, Breaker!Pass, Breaker!Advance, Test
  <2>3. QED
    BY <2>2 DEF Breaker!Next
<1>10. CASE SetUp(r)
  <2>1. Test[r] = "passed" /\ Test' = [Test EXCEPT ![r] = "applied"]
    BY <1>10, TestMoves, PhaseOfLabels DEF SetUp
  <2>2. Breaker!Apply(r)
    BY <1>10, <2>1 DEF SetUp, Breaker!Apply, Breaker!Advance, Test
  <2>3. QED
    BY <2>2 DEF Breaker!Next
<1>11. CASE ProbeErrs(r)
  <2>1. Test[r] = "running" /\ Test' = [Test EXCEPT ![r] = "failed"]
    BY <1>11, TestMoves, PhaseOfLabels DEF ProbeErrs
  <2>2. Breaker!Fail(r)
    BY <1>11, <2>1 DEF ProbeErrs, Breaker!Fail, Breaker!Advance, Test
  <2>3. QED
    BY <2>2 DEF Breaker!Next
<1>12. CASE ReadClock(r)
  BY <1>12, <1>0, <1>q, PhaseOfLabels, TestKept, StutterByTest DEF ReadClock
<1>13. CASE StoreLastFail(r)
  BY <1>13, <1>0, <1>q, PhaseOfLabels, TestKept, StutterByTest DEF StoreLastFail
<1>14. CASE ReleaseProbe(r)
  <2>1. Test[r] \in {"failed", "applied"} /\ Test' = [Test EXCEPT ![r] = "none"]
    BY <1>14, <1>0, <1>q, TestMoves, PhaseOfLabels DEF ReleaseProbe
  <2>2. Breaker!End(r)
    BY <1>14, <2>1 DEF ReleaseProbe, Breaker!End, Breaker!Advance, Test
  <2>3. QED
    BY <2>2 DEF Breaker!Next
<1>15. CASE OnError(r)
  BY <1>15, <1>0, <1>q, TestKept, StutterByTest DEF OnError
<1>16. CASE CountFallback(r)
  BY <1>16, <1>0, <1>q, TestKept, StutterByTest DEF CountFallback
<1>17. CASE CallFallback(r)
  BY <1>17, <1>0, <1>q, TestKept, StutterByTest DEF CallFallback
<1>18. QED
  BY <1>1, <1>2, <1>3, <1>4, <1>5, <1>6, <1>7, <1>8, <1>9, <1>10, <1>11, <1>12,
     <1>13, <1>14, <1>15, <1>16, <1>17 DEF Arrive, Continue

(* Every behaviour of the driver is one of the abstract breaker: only a    *)
(* test that the primary passed closes it, and tests never overlap.        *)
THEOREM Implements == Spec => ImplementsBreaker
<1>1. Init => Breaker!Init
  BY PhaseOfLabels DEF Init, Breaker!Init, CallerLabels, ProbeSection
<1>2. TypeOK /\ SingleProbe /\ [Next]_vars => [Breaker!Next]_Breaker!vars
  <2> SUFFICES ASSUME TypeOK, SingleProbe, [Next]_vars
               PROVE  [Breaker!Next]_Breaker!vars
    OBVIOUS
  <2>1. ASSUME NEW r \in Callers, Arrive(r) \/ Continue(r)
        PROVE  [Breaker!Next]_Breaker!vars
    BY <2>1, CallerImplements
  <2>2. ASSUME NEW a \in Admins, Reset(a)
        PROVE  [Breaker!Next]_Breaker!vars
    BY <2>2, ResetLeavesCallers, StutterByTest DEF Test
  <2>3. CASE Tick
    BY <2>3, StutterByTest DEF Tick, Test
  <2>4. CASE Outage
    BY <2>4 DEF Outage, driverVars, Breaker!Next, Breaker!Environment
  <2>5. CASE UNCHANGED vars
    BY <2>5, StutterByTest DEF vars, driverVars, Test
  <2>6. QED
    BY <2>1, <2>2, <2>3, <2>4, <2>5 DEF Next
<1>3. QED
  BY <1>1, <1>2, TypeCorrect, ProbesExclude, PTL DEF Spec, Breaker!Spec, ImplementsBreaker
===============================================================================
