--------------------------- MODULE HybridHistoryProofs ------------------------
(***************************************************************************)
(* The hybrid driver reports each outage once and counts its fallbacks, for*)
(* any finite number of callers, any number of resetting goroutines and any*)
(* width of the counter.                                                   *)
(***************************************************************************)
EXTENDS HybridHistory, HybridDriverProofs, CountingLemmas

LEMMA CallersMove ==
    ASSUME NEW S \in SUBSET Callers, NEW T \in SUBSET Callers, NEW r \in Callers,
           \A s \in Callers : s # r => (s \in S <=> s \in T)
    PROVE  /\ Cardinality(S) \in Nat /\ Cardinality(T) \in Nat
           /\ (r \in S <=> r \in T) => T = S
           /\ r \notin S /\ r \in T => Cardinality(T) = Cardinality(S) + 1
           /\ r \in S /\ r \notin T => Cardinality(T) = Cardinality(S) - 1
BY FiniteCallers, OneMoves

(* The steps of Allow that the two counts are about.                       *)
Transition(r) ==
    /\ \A s \in Callers : s # r => pc'[s] = pc[s]
    /\ pc'[r] # pc[r]
    /\ pc[r] = "fallback" => UNCHANGED fallbackCount
    /\ pc'[r] = "fallback" => fallbackCount' = (fallbackCount + 1) % CountMod
    /\ pc[r] # "fallback" /\ pc'[r] # "fallback" => UNCHANGED fallbackCount
    /\ Opens <=> pc'[r] = "tripNow"
    /\ pc'[r] = "tripNow" => pc[r] = "casDown"
    /\ pc[r] = "tripNow" => pc'[r] = "tripStore"
    /\ pc[r] = "tripStore" => pc'[r] = "onError"

LEMMA CallerTransitions ==
    ASSUME TypeOK, NEW r \in Callers, Arrive(r) \/ Continue(r)
    PROVE  Transition(r)
<1> USE DEF Transition, Opens, driverVars
<1>1. CASE EnterClosed(r)
  BY <1>1, GotoSets DEF EnterClosed
<1>2. CASE PrimaryServes(r)
  BY <1>2, GotoSets DEF PrimaryServes
<1>3. CASE PrimaryErrs(r)
  BY <1>3, GotoSets DEF PrimaryErrs
<1>4. CASE CasDown(r)
  BY <1>4, GotoSets DEF CasDown
<1>5. CASE EnterOpen(r)
  BY <1>5, GotoSets DEF EnterOpen
<1>6. CASE LoadLastFail(r)
  BY <1>6, GotoSets DEF LoadLastFail
<1>7. CASE CheckCoolOff(r)
  BY <1>7, GotoSets DEF CheckCoolOff
<1>8. CASE CasProbing(r)
  BY <1>8, GotoSets DEF CasProbing
<1>9. CASE ProbeServes(r)
  BY <1>9, GotoSets DEF ProbeServes
<1>10. CASE SetUp(r)
  BY <1>10, GotoSets DEF SetUp
<1>11. CASE ProbeErrs(r)
  BY <1>11, GotoSets DEF ProbeErrs
<1>12. CASE ReadClock(r)
  BY <1>12, GotoSets DEF ReadClock
<1>13. CASE StoreLastFail(r)
  BY <1>13, GotoSets DEF StoreLastFail
<1>14. CASE ReleaseProbe(r)
  BY <1>14, GotoSets DEF ReleaseProbe
<1>15. CASE OnError(r)
  BY <1>15, GotoSets DEF OnError
<1>16. CASE CountFallback(r)
  BY <1>16, GotoSets DEF CountFallback
<1>17. CASE CallFallback(r)
  BY <1>17, GotoSets DEF CallFallback
<1>18. QED
  BY <1>1, <1>2, <1>3, <1>4, <1>5, <1>6, <1>7, <1>8, <1>9,
     <1>10, <1>11, <1>12, <1>13, <1>14, <1>15, <1>16, <1>17 DEF Arrive, Continue

(* All other steps leave the callers where they are.                       *)
LEMMA OtherSteps ==
    ASSUME TypeOK,
           (\E a \in Admins : Reset(a)) \/ Tick \/ Outage \/ UNCHANGED vars
    PROVE  /\ \A s \in Callers : pc'[s] = pc[s]
           /\ UNCHANGED <<isDown, fallbackCount>>
<1>1. ASSUME NEW a \in Admins, Reset(a)
      PROVE  (\A s \in Callers : pc'[s] = pc[s]) /\ UNCHANGED <<isDown, fallbackCount>>
  BY <1>1, AdminGoes
     DEF Reset, ResetFallback, LoadIsDown, ResetPrimary, AdminLabels, driverVars
<1>2. CASE Tick
  BY <1>2 DEF Tick
<1>3. CASE Outage
  BY <1>3 DEF Outage, driverVars
<1>4. CASE UNCHANGED vars
  BY <1>4 DEF vars, driverVars
<1>5. QED
  BY <1>1, <1>2, <1>3, <1>4

-------------------------------------------------------------------------------
(* One report per outage.                                                  *)

Reporting == {"tripNow", "tripStore", "onError"}

ReportInv ==
    /\ TypeOK
    /\ trippers \subseteq {r \in Callers : pc[r] \in Reporting}
    /\ OneReportPerOutage

LEMMA ReportInit == HistoryInit => ReportInv
<1> SUFFICES ASSUME HistoryInit PROVE ReportInv
  OBVIOUS
<1>1. TypeOK
  BY TypeInit DEF HistoryInit
<1>2. QED
  BY <1>1, FS_EmptySet DEF HistoryInit, ReportInv, OneReportPerOutage

LEMMA ReportCaller ==
    ASSUME ReportInv, TypeOK', NEW r \in Callers, Transition(r), Record
    PROVE  ReportInv'
<1>1. /\ Reaching("tripNow") = IF pc'[r] = "tripNow" THEN {r} ELSE {}
      /\ Leaving("onError") = IF pc[r] = "onError" THEN {r} ELSE {}
  BY DEF Transition, Reaching, Leaving
<1>2. trippers \subseteq Callers /\ outages = Cardinality(trippers)
  BY DEF ReportInv, OneReportPerOutage
<1>3. /\ trippers' = (trippers \cup Reaching("tripNow")) \ Leaving("onError")
      /\ outages' = outages + (IF Opens THEN 1 ELSE 0)
                       - Cardinality(trippers \cap Leaving("onError"))
  BY DEF Record
<1>4. trippers' \subseteq {s \in Callers : pc'[s] \in Reporting}
  BY <1>1, <1>3 DEF ReportInv, Transition, Reporting
<1>5. CASE pc'[r] = "tripNow"
  <2>1. pc[r] = "casDown" /\ r \notin trippers /\ Opens
    BY <1>5 DEF Transition, ReportInv, Reporting
  <2>2. trippers' = trippers \cup {r} /\ trippers \cap Leaving("onError") = {}
    BY <1>1, <1>3, <1>5, <2>1
  <2>3. /\ Cardinality(trippers) \in Nat
        /\ Cardinality(trippers \cup {r}) = Cardinality(trippers) + 1
    BY <1>2, <2>1, Counting, FiniteCallers
  <2>4. outages' = outages + 1
    BY <1>2, <1>3, <2>1, <2>2, <2>3, FS_EmptySet
  <2>5. QED
    BY <1>2, <1>4, <2>2, <2>3, <2>4 DEF ReportInv, OneReportPerOutage
<1>6. CASE r \in trippers /\ pc[r] = "onError"
  <2>1. pc'[r] # "tripNow" /\ ~Opens
    BY <1>6 DEF Transition
  <2>2. trippers' = trippers \ {r} /\ trippers \cap Leaving("onError") = {r}
    BY <1>1, <1>3, <1>6, <2>1
  <2>3. /\ Cardinality(trippers) \in Nat
        /\ Cardinality(trippers \ {r}) = Cardinality(trippers) - 1
    BY <1>2, <1>6, Counting, FiniteCallers
  <2>4. Cardinality(trippers \cap Leaving("onError")) = 1
    BY <2>2, FS_Singleton
  <2>5. outages' = outages - 1
    <3>1. outages' = outages + 0 - 1
      BY <1>3, <2>1, <2>4
    <3>2. QED
      BY <1>2, <2>3, <3>1
  <2>6. QED
    BY <1>2, <1>4, <2>2, <2>3, <2>5 DEF ReportInv, OneReportPerOutage
<1>7. CASE pc'[r] # "tripNow" /\ ~(r \in trippers /\ pc[r] = "onError")
  <2>1. ~Opens
    BY <1>7 DEF Transition
  <2>2. trippers' = trippers /\ trippers \cap Leaving("onError") = {}
    BY <1>1, <1>3, <1>7
  <2>3. Cardinality(trippers) \in Nat
    BY <1>2, FS_Subset, FS_CardinalityType, FiniteCallers
  <2>4. outages' = outages
    BY <1>2, <1>3, <2>1, <2>2, <2>3, FS_EmptySet
  <2>5. QED
    BY <1>2, <1>4, <2>2, <2>4 DEF ReportInv, OneReportPerOutage
<1>8. QED
  BY <1>5, <1>6, <1>7

LEMMA ReportStep == ReportInv /\ [HistoryNext]_hvars => ReportInv'
<1> SUFFICES ASSUME ReportInv, [HistoryNext]_hvars PROVE ReportInv'
  OBVIOUS
<1>1. TypeOK /\ TypeOK'
  BY TypeStep DEF ReportInv, HistoryNext, hvars
<1>2. ASSUME NEW r \in Callers, Arrive(r) \/ Continue(r), Record PROVE ReportInv'
  BY <1>1, <1>2, CallerTransitions, ReportCaller
<1>3. ASSUME (\E a \in Admins : Reset(a)) \/ Tick \/ Outage, Record PROVE ReportInv'
  <2>1. (\A s \in Callers : pc'[s] = pc[s]) /\ UNCHANGED isDown
    BY <1>1, <1>3, OtherSteps
  <2>2. Reaching("tripNow") = {} /\ Leaving("onError") = {} /\ ~Opens
    BY <2>1 DEF Reaching, Leaving, Opens
  <2>3. trippers' = trippers /\ trippers \cap Leaving("onError") = {}
    BY <1>3, <2>2 DEF Record
  <2>4. Cardinality(trippers) \in Nat
    BY FS_Subset, FS_CardinalityType, FiniteCallers DEF ReportInv
  <2>5. outages' = outages
    <3>1. Cardinality(trippers \cap Leaving("onError")) = 0
      BY <2>3, FS_EmptySet
    <3>2. outages' = outages + 0 - 0
      BY <1>3, <2>2, <3>1 DEF Record
    <3>3. QED
      BY <2>4, <3>2 DEF ReportInv, OneReportPerOutage
  <2>6. QED
    BY <1>1, <2>1, <2>3, <2>5 DEF ReportInv, OneReportPerOutage
<1>4. CASE UNCHANGED hvars
  BY <1>1, <1>4 DEF hvars, vars, history, ReportInv, OneReportPerOutage
<1>5. QED
  BY <1>2, <1>3, <1>4 DEF HistoryNext, Next

(* Each opening of the breaker is reported by onError once, by the caller  *)
(* whose swap of isDown succeeded (hybrid.go:110-115).                     *)
THEOREM OutagesAreReportedOnce == HistorySpec => []OneReportPerOutage
<1>1. ReportInv => OneReportPerOutage
  BY DEF ReportInv
<1>2. QED
  BY <1>1, ReportInit, ReportStep, PTL DEF HistorySpec

-------------------------------------------------------------------------------
(* FallbackCount.                                                          *)

UnderWay == {r \in Callers : pc[r] = "fallback"}

CountInv ==
    /\ TypeOK
    /\ delegated \in Nat
    /\ fallbackCount = (delegated + Cardinality(UnderWay)) % CountMod

LEMMA Wraps ==
    ASSUME NEW a \in Int, NEW b \in Int
    PROVE  ((a % CountMod) + b) % CountMod = (a + b) % CountMod
BY HybridAssumption, WrappedSum

LEMMA CountInit == HistoryInit => CountInv
<1> SUFFICES ASSUME HistoryInit PROVE CountInv
  OBVIOUS
<1>1. TypeOK
  BY TypeInit DEF HistoryInit
<1>2. UnderWay = {}
  BY DEF HistoryInit, Init, UnderWay
<1>3. 0 % CountMod = 0
  BY HybridAssumption
<1>4. QED
  BY <1>1, <1>2, <1>3, FS_EmptySet DEF HistoryInit, Init, CountInv

LEMMA CountCaller ==
    ASSUME CountInv, TypeOK', NEW r \in Callers, Transition(r), Record
    PROVE  CountInv'
<1> DEFINE n == Cardinality(UnderWay)
           left == Cardinality(Leaving("fallback"))
<1>1. CountMod \in Nat \ {0}
  BY HybridAssumption
<1>2. /\ n \in Nat
      /\ pc[r] # "fallback" /\ pc'[r] = "fallback" => n' = n + 1
      /\ pc[r] = "fallback" => n' = n - 1
      /\ pc[r] # "fallback" /\ pc'[r] # "fallback" => n' = n
  <2> DEFINE S == UnderWay
             T == UnderWay'
  <2>1. S \in SUBSET Callers /\ T \in SUBSET Callers
    BY DEF UnderWay
  <2>2. /\ r \in S <=> pc[r] = "fallback"
        /\ r \in T <=> pc'[r] = "fallback"
    BY DEF UnderWay
  <2>3. \A s \in Callers : s # r => (s \in S <=> s \in T)
    BY DEF UnderWay, Transition
  <2>4. pc'[r] # pc[r]
    BY DEF Transition
  <2> HIDE DEF S, T
  <2>5. /\ Cardinality(S) \in Nat
        /\ (r \in S <=> r \in T) => T = S
        /\ r \notin S /\ r \in T => Cardinality(T) = Cardinality(S) + 1
        /\ r \in S /\ r \notin T => Cardinality(T) = Cardinality(S) - 1
    BY <2>1, <2>3, CallersMove
  <2>6. QED
    BY <2>2, <2>4, <2>5 DEF S, T
<1>3. left = IF pc[r] = "fallback" THEN 1 ELSE 0
  <2>1. Leaving("fallback") = IF pc[r] = "fallback" THEN {r} ELSE {}
    BY DEF Leaving, Transition
  <2>2. QED
    BY <2>1, FS_Singleton, FS_EmptySet
<1>4. delegated' = (delegated + left) % CountMod
  BY DEF Record
<1>5. delegated \in Nat /\ fallbackCount = (delegated + n) % CountMod
  BY DEF CountInv
<1> HIDE DEF n, left
<1>6. delegated' \in Nat
  BY <1>1, <1>3, <1>4, <1>5
<1>7. CASE pc[r] = "fallback"
  <2>1. UNCHANGED fallbackCount /\ n' = n - 1 /\ left = 1
    BY <1>2, <1>3, <1>7 DEF Transition
  <2>2. (((delegated + 1) % CountMod) + (n - 1)) % CountMod
           = ((delegated + 1) + (n - 1)) % CountMod
    BY <1>2, <1>5, Wraps
  <2>3. (delegated + 1) + (n - 1) = delegated + n
    BY <1>2, <1>5
  <2>4. QED
    BY <1>4, <1>5, <1>6, <2>1, <2>2, <2>3 DEF CountInv, n
<1>8. CASE pc[r] # "fallback" /\ pc'[r] = "fallback"
  <2>1. fallbackCount' = (fallbackCount + 1) % CountMod /\ n' = n + 1 /\ left = 0
    BY <1>2, <1>3, <1>8 DEF Transition
  <2>2. (((delegated + n) % CountMod) + 1) % CountMod = ((delegated + n) + 1) % CountMod
    BY <1>2, <1>5, Wraps
  <2>3. ((delegated % CountMod) + (n + 1)) % CountMod = (delegated + (n + 1)) % CountMod
    BY <1>2, <1>5, Wraps
  <2>4. (delegated + n) + 1 = delegated + (n + 1) /\ delegated + 0 = delegated
    BY <1>2, <1>5
  <2>5. QED
    BY <1>4, <1>5, <1>6, <2>1, <2>2, <2>3, <2>4 DEF CountInv, n
<1>9. CASE pc[r] # "fallback" /\ pc'[r] # "fallback"
  <2>1. UNCHANGED fallbackCount /\ n' = n /\ left = 0
    BY <1>2, <1>3, <1>9 DEF Transition
  <2>2. ((delegated % CountMod) + n) % CountMod = (delegated + n) % CountMod
    BY <1>2, <1>5, Wraps
  <2>3. delegated + 0 = delegated
    BY <1>5
  <2>4. QED
    BY <1>4, <1>5, <1>6, <2>1, <2>2, <2>3 DEF CountInv, n
<1>10. QED
  BY <1>7, <1>8, <1>9

LEMMA CountStep == CountInv /\ [HistoryNext]_hvars => CountInv'
<1> SUFFICES ASSUME CountInv, [HistoryNext]_hvars PROVE CountInv'
  OBVIOUS
<1>1. TypeOK /\ TypeOK'
  BY TypeStep DEF CountInv, HistoryNext, hvars
<1>2. ASSUME NEW r \in Callers, Arrive(r) \/ Continue(r), Record PROVE CountInv'
  BY <1>1, <1>2, CallerTransitions, CountCaller
<1>3. ASSUME (\E a \in Admins : Reset(a)) \/ Tick \/ Outage, Record PROVE CountInv'
  <2>1. (\A s \in Callers : pc'[s] = pc[s]) /\ UNCHANGED fallbackCount
    BY <1>1, <1>3, OtherSteps
  <2>2. UnderWay' = UnderWay /\ Leaving("fallback") = {}
    BY <2>1 DEF UnderWay, Leaving
  <2>3. delegated' = (delegated + 0) % CountMod /\ delegated + 0 = delegated
    <3>1. delegated' = (delegated + Cardinality(Leaving("fallback"))) % CountMod
      BY <1>3 DEF Record
    <3>2. QED
      BY <2>2, <3>1, FS_EmptySet DEF CountInv
  <2>4. Cardinality(UnderWay) \in Nat
    BY FS_Subset, FS_CardinalityType, FiniteCallers DEF UnderWay
  <2>5. ((delegated % CountMod) + Cardinality(UnderWay)) % CountMod
           = (delegated + Cardinality(UnderWay)) % CountMod
    BY <2>4, Wraps DEF CountInv
  <2>6. delegated' \in Nat
    BY <2>3, HybridAssumption DEF CountInv
  <2>7. QED
    BY <1>1, <2>1, <2>2, <2>3, <2>5, <2>6 DEF CountInv
<1>4. CASE UNCHANGED hvars
  BY <1>1, <1>4 DEF hvars, vars, driverVars, history, CountInv, UnderWay
<1>5. QED
  BY <1>2, <1>3, <1>4 DEF HistoryNext, Next

(* FallbackCount is the number of calls delegated to the fallback, those   *)
(* under way included, whatever width the counter has (hybrid.go:102-118,  *)
(* 129-132).                                                               *)
THEOREM FallbacksAreCounted == HistorySpec => []FallbackAccounting
<1>1. CountInv => FallbackAccounting
  BY DEF CountInv, FallbackAccounting, UnderWay
<1>2. QED
  BY <1>1, CountInit, CountStep, PTL DEF HistorySpec

-------------------------------------------------------------------------------
(* Early probes.                                                           *)

(* The instant of the last opening, at its age, is in lastFailUnix or held *)
(* by the goroutine that will store it; the same of the last failed probe. *)
WillStore(r, now, store, age) ==
    pc[r] = now \/ (pc[r] = store /\ stamp[r] <= age)

Accounted(now, store, age) ==
    newest <= age \/ \E r \in Callers : WillStore(r, now, store, age)

(* A caller whose reading is not in doubt holds an instant no older than   *)
(* either event, and has found both over the cool-off once it is to probe. *)
Knows(r) ==
    /\ pc[r] \in Deciding
    /\ pc[r] = "checkCoolOff" => stamp[r] <= sinceOpening /\ stamp[r] <= sinceProbeFail
    /\ pc[r] = "casProbing" => sinceOpening = Expired /\ sinceProbeFail = Expired

WaitInv ==
    /\ TypeOK
    /\ sinceOpening \in Ages /\ sinceProbeFail \in Ages /\ newest \in Ages
    /\ Accounted("tripNow", "tripStore", sinceOpening)
    /\ Accounted("probeNow", "probeStore", sinceProbeFail)
    /\ informed \subseteq Callers
    /\ \A r \in informed : Knows(r)

(* What a step of a caller does to the instants.                           *)
Instants(r) ==
    /\ \A s \in Callers : s # r => pc'[s] = pc[s] /\ stamp'[s] = stamp[s]
    /\ pc'[r] # pc[r]
    /\ Opens <=> pc'[r] = "tripNow"
    /\ pc'[r] = "checkCoolOff" => pc[r] = "loadLastFail" /\ stamp'[r] = lastFail
    /\ pc'[r] = "casProbing" => pc[r] = "checkCoolOff" /\ stamp[r] >= CoolOff
    /\ pc'[r] = "probeNow" => pc[r] = "probe"
    /\ pc[r] = "tripNow" => pc'[r] = "tripStore" /\ stamp'[r] = 0
    /\ pc[r] = "probeNow" => pc'[r] = "probeStore" /\ stamp'[r] = 0
    /\ pc[r] \in {"tripStore", "probeStore"} => lastFail' = stamp[r]

LEMMA CallerInstants ==
    ASSUME TypeOK, NEW r \in Callers, Arrive(r) \/ Continue(r)
    PROVE  Instants(r)
<1> USE DEF Instants, Opens, driverVars
<1>1. CASE EnterClosed(r)
  BY <1>1, GotoSets DEF EnterClosed
<1>2. CASE PrimaryServes(r)
  BY <1>2, GotoSets DEF PrimaryServes
<1>3. CASE PrimaryErrs(r)
  BY <1>3, GotoSets DEF PrimaryErrs
<1>4. CASE CasDown(r)
  BY <1>4, GotoSets DEF CasDown
<1>5. CASE EnterOpen(r)
  BY <1>5, GotoSets DEF EnterOpen
<1>6. CASE LoadLastFail(r)
  BY <1>6, GotoSets DEF LoadLastFail, TypeOK
<1>7. CASE CheckCoolOff(r)
  BY <1>7, GotoSets DEF CheckCoolOff, TypeOK
<1>8. CASE CasProbing(r)
  BY <1>8, GotoSets DEF CasProbing
<1>9. CASE ProbeServes(r)
  BY <1>9, GotoSets DEF ProbeServes
<1>10. CASE SetUp(r)
  BY <1>10, GotoSets DEF SetUp
<1>11. CASE ProbeErrs(r)
  BY <1>11, GotoSets DEF ProbeErrs
<1>12. CASE ReadClock(r)
  BY <1>12, GotoSets DEF ReadClock, TypeOK
<1>13. CASE StoreLastFail(r)
  <2>1. /\ \/ pc[r] = "tripStore" /\ pc'[r] = "onError"
           \/ pc[r] = "probeStore" /\ pc'[r] = "giveUp"
        /\ \A s \in Callers : s # r => pc'[s] = pc[s]
    BY <1>13, GotoSets DEF StoreLastFail
  <2>2. /\ \A s \in Callers : s # r => stamp'[s] = stamp[s]
        /\ lastFail' = stamp[r] /\ UNCHANGED isDown
    BY <1>13 DEF StoreLastFail, TypeOK
  <2>3. QED
    BY <2>1, <2>2
<1>14. CASE ReleaseProbe(r)
  BY <1>14, GotoSets DEF ReleaseProbe
<1>15. CASE OnError(r)
  BY <1>15, GotoSets DEF OnError
<1>16. CASE CountFallback(r)
  BY <1>16, GotoSets DEF CountFallback
<1>17. CASE CallFallback(r)
  BY <1>17, GotoSets DEF CallFallback
<1>18. QED
  BY <1>1, <1>2, <1>3, <1>4, <1>5, <1>6, <1>7, <1>8, <1>9,
     <1>10, <1>11, <1>12, <1>13, <1>14, <1>15, <1>16, <1>17 DEF Arrive, Continue

(* A step of a caller keeps account of an event: it is the event, it leaves*)
(* the instant where it is, reads the clock for it, or stores it.          *)
LEMMA AccountKept ==
    ASSUME WaitInv, TypeOK', NEW r \in Callers, Instants(r),
           NEW now, NEW store, NEW age \in Ages, NEW later \in Ages,
           Accounted(now, store, age),
           pc[r] = now => pc'[r] = store /\ stamp'[r] = 0,
           pc[r] = store => lastFail' = stamp[r],
           \/ pc'[r] = now
           \/ later = age,
           newest' = IF lastFail' < newest THEN lastFail' ELSE newest
    PROVE  newest' <= later \/ \E s \in Callers : WillStore(s, now, store, later)'
<1>1. newest \in Int /\ lastFail' \in Int /\ age \in Nat
  BY HybridAssumption DEF WaitInv, TypeOK, Ages
<1>2. CASE pc'[r] = now
  BY <1>2 DEF WillStore
<1>3. CASE later = age /\ newest <= age
  BY <1>1, <1>3
<1>4. ASSUME later = age, NEW s \in Callers, WillStore(s, now, store, age)
      PROVE  newest' <= later \/ WillStore(s, now, store, later)'
  <2>1. CASE s # r
    BY <1>4, <2>1 DEF Instants, WillStore
  <2>2. CASE s = r /\ pc[r] = now
    BY <1>1, <1>4, <2>2 DEF WillStore
  <2>3. CASE s = r /\ pc[r] = store /\ stamp[r] <= age
    <3>1. lastFail' <= age
      BY <2>3
    <3>2. QED
      BY <1>1, <1>4, <3>1
  <2>4. QED
    BY <1>4, <2>1, <2>2, <2>3 DEF WillStore
<1>5. QED
  BY <1>2, <1>3, <1>4 DEF Accounted

LEMMA WaitCaller ==
    ASSUME WaitInv, TypeOK', NEW r \in Callers, Instants(r), Record
    PROVE  WaitInv'
<1>1. ~Tick
  BY DEF Instants, Tick
<1>2. /\ sinceOpening' = IF Opens THEN 0 ELSE sinceOpening
      /\ sinceProbeFail' = IF ProbeFails THEN 0 ELSE sinceProbeFail
      /\ newest' = IF lastFail' < newest THEN lastFail' ELSE newest
  BY <1>1 DEF Record, Since
<1>3. sinceOpening' \in Ages /\ sinceProbeFail' \in Ages /\ newest' \in Ages
  BY <1>2, HybridAssumption DEF WaitInv, TypeOK, Ages
<1>4. Accounted("tripNow", "tripStore", sinceOpening)'
  <2>1. pc'[r] = "tripNow" \/ sinceOpening' = sinceOpening
    BY <1>2 DEF Instants
  <2>2. pc[r] = "tripNow" => pc'[r] = "tripStore" /\ stamp'[r] = 0
    BY DEF Instants
  <2>3. pc[r] = "tripStore" => lastFail' = stamp[r]
    BY DEF Instants
  <2>4. QED
    BY <1>2, <1>3, <2>1, <2>2, <2>3, AccountKept DEF WaitInv, Accounted
<1>5. Accounted("probeNow", "probeStore", sinceProbeFail)'
  <2>1. pc'[r] = "probeNow" \/ sinceProbeFail' = sinceProbeFail
    BY <1>2 DEF Instants, ProbeFails, Moves
  <2>2. pc[r] = "probeNow" => pc'[r] = "probeStore" /\ stamp'[r] = 0
    BY DEF Instants
  <2>3. pc[r] = "probeStore" => lastFail' = stamp[r]
    BY DEF Instants
  <2>4. QED
    BY <1>2, <1>3, <2>1, <2>2, <2>3, AccountKept DEF WaitInv, Accounted
<1>6. informed' \subseteq Callers
  BY DEF Record, WaitInv, Leaving
<1>7. ASSUME NEW s \in informed' PROVE Knows(s)'
  <2>1. ~Opens /\ ~ProbeFails
    BY <1>7 DEF Record
  <2>2. /\ pc'[s] \in Deciding
        /\ \/ s \in informed
           \/ pc[s] = "loadLastFail" /\ pc'[s] # pc[s] /\ ~StampDue /\ lastFail = newest
    BY <1>7, <2>1 DEF Record, Leaving
  <2>3. UNCHANGED <<sinceOpening, sinceProbeFail>>
    BY <1>2, <2>1
  <2>4. CASE s # r
    <3>1. s \in informed /\ pc'[s] = pc[s] /\ stamp'[s] = stamp[s]
      BY <1>6, <2>2, <2>4 DEF Instants
    <3>2. QED
      BY <2>3, <3>1 DEF WaitInv, Knows, Expired
  <2>5. CASE s = r /\ pc'[r] = "checkCoolOff"
    <3>1. pc[r] = "loadLastFail" /\ stamp'[r] = lastFail
      BY <2>5 DEF Instants
    <3>2. ~StampDue /\ lastFail = newest
      BY <2>2, <2>5, <3>1 DEF WaitInv, Knows, Deciding
    <3>3. newest <= sinceOpening /\ newest <= sinceProbeFail
      BY <3>2 DEF WaitInv, Accounted, WillStore, StampDue
    <3>4. QED
      BY <2>2, <2>3, <2>5, <3>1, <3>2, <3>3 DEF Knows
  <2>6. CASE s = r /\ pc'[r] = "casProbing"
    <3>1. pc[r] = "checkCoolOff" /\ stamp[r] >= CoolOff
      BY <2>6 DEF Instants
    <3>2. stamp[r] <= sinceOpening /\ stamp[r] <= sinceProbeFail
      BY <2>2, <2>6, <3>1 DEF WaitInv, Knows
    <3>3. /\ stamp[r] \in 0 .. CoolOff
          /\ sinceOpening \in 0 .. CoolOff /\ sinceProbeFail \in 0 .. CoolOff
      BY DEF WaitInv, TypeOK, Ages
    <3>4. sinceOpening = CoolOff /\ sinceProbeFail = CoolOff
      BY <3>1, <3>2, <3>3, HybridAssumption
    <3>5. QED
      BY <2>2, <2>3, <2>6, <3>4 DEF Knows, Expired
  <2>7. QED
    BY <2>2, <2>4, <2>5, <2>6 DEF Deciding
<1>8. QED
  BY <1>3, <1>4, <1>5, <1>6, <1>7 DEF WaitInv

LEMMA OlderStays ==
    ASSUME NEW a \in Ages, NEW b \in Ages
    PROVE  /\ Older(a) \in Ages
           /\ a <= b => Older(a) <= Older(b)
           /\ Older(Expired) = Expired
BY HybridAssumption DEF Older, Ages, Expired

(* The clock ages what is stored, what is held and the events alike.       *)
LEMMA WaitElsewhere ==
    ASSUME WaitInv, TypeOK', (\E a \in Admins : Reset(a)) \/ Tick \/ Outage, Record
    PROVE  WaitInv'
<1>1. (\A s \in Callers : pc'[s] = pc[s]) /\ UNCHANGED isDown
  BY OtherSteps DEF WaitInv
<1>2. ~Opens /\ ~ProbeFails /\ Leaving("loadLastFail") = {}
  BY <1>1 DEF Opens, ProbeFails, Moves, Leaving
<1>3. informed' \subseteq informed
  BY <1>2 DEF Record
<1>4. CASE Tick
  <2>1. /\ lastFail' = Older(lastFail) /\ \A s \in Callers : stamp'[s] = Older(stamp[s])
        /\ sinceOpening' = Older(sinceOpening) /\ sinceProbeFail' = Older(sinceProbeFail)
        /\ newest' = IF lastFail' < Older(newest) THEN lastFail' ELSE Older(newest)
    BY <1>2, <1>4 DEF Tick, Record, Since
  <2>2. /\ sinceOpening' \in Ages /\ sinceProbeFail' \in Ages
        /\ newest' \in Ages /\ newest' <= Older(newest)
    <3>1. {sinceOpening, sinceProbeFail, newest, lastFail} \subseteq Ages
      BY DEF WaitInv, TypeOK
    <3>2. {Older(sinceOpening), Older(sinceProbeFail), Older(newest), Older(lastFail)}
             \subseteq Ages
      BY <3>1, OlderStays
    <3>3. QED
      BY <2>1, <3>2, HybridAssumption DEF Ages
  <2>3. ASSUME NEW age \in Ages, NEW now, NEW store, Accounted(now, store, age)
        PROVE  newest' <= Older(age)
               \/ \E s \in Callers :
                     pc'[s] = now \/ (pc'[s] = store /\ stamp'[s] <= Older(age))
    <3>1. CASE newest <= age
      <4>1. newest \in Ages /\ Older(newest) <= Older(age) /\ Older(age) \in Ages
            /\ Older(newest) \in Ages
        BY <3>1, OlderStays DEF WaitInv
      <4>2. QED
        BY <2>2, <4>1, HybridAssumption DEF Ages
    <3>2. ASSUME NEW s \in Callers, WillStore(s, now, store, age)
          PROVE  pc'[s] = now \/ (pc'[s] = store /\ stamp'[s] <= Older(age))
      <4>1. stamp[s] \in Ages
        BY DEF WaitInv, TypeOK
      <4>2. QED
        BY <1>1, <2>1, <3>2, <4>1, OlderStays DEF WillStore
    <3>3. QED
      BY <2>3, <3>1, <3>2 DEF Accounted
  <2>4. /\ Accounted("tripNow", "tripStore", sinceOpening)'
        /\ Accounted("probeNow", "probeStore", sinceProbeFail)'
    <3>1. newest' <= Older(sinceOpening)
          \/ \E s \in Callers :
                pc'[s] = "tripNow"
                \/ (pc'[s] = "tripStore" /\ stamp'[s] <= Older(sinceOpening))
      BY <2>3 DEF WaitInv
    <3>2. newest' <= Older(sinceProbeFail)
          \/ \E s \in Callers :
                pc'[s] = "probeNow"
                \/ (pc'[s] = "probeStore" /\ stamp'[s] <= Older(sinceProbeFail))
      BY <2>3 DEF WaitInv
    <3>3. sinceOpening' = Older(sinceOpening) /\ sinceProbeFail' = Older(sinceProbeFail)
      BY <2>1
    <3>4. QED
      BY <3>1, <3>2, <3>3, Zenon DEF Accounted, WillStore
  <2>5. ASSUME NEW s \in informed' PROVE Knows(s)'
    <3>1. s \in informed /\ s \in Callers /\ Knows(s) /\ pc'[s] = pc[s]
      BY <1>1, <1>3, <2>5 DEF WaitInv
    <3>2. stamp[s] \in Ages /\ sinceOpening \in Ages /\ sinceProbeFail \in Ages
      BY <3>1 DEF WaitInv, TypeOK
    <3>3. pc'[s] = "checkCoolOff" => stamp'[s] <= sinceOpening' /\ stamp'[s] <= sinceProbeFail'
      BY <2>1, <3>1, <3>2, OlderStays DEF Knows
    <3>4. pc'[s] = "casProbing" => sinceOpening' = Expired /\ sinceProbeFail' = Expired
      BY <2>1, <3>1, <3>2, OlderStays DEF Knows
    <3>5. QED
      BY <3>1, <3>3, <3>4 DEF Knows, Expired
  <2>6. QED
    BY <1>3, <2>2, <2>4, <2>5 DEF WaitInv
<1>5. CASE ~Tick
  <2>1. UNCHANGED <<lastFail, stamp>>
    BY <1>5 DEF Reset, ResetFallback, LoadIsDown, ResetPrimary, Outage, driverVars
  <2>2. /\ UNCHANGED <<sinceOpening, sinceProbeFail>>
        /\ newest' = IF lastFail' < newest THEN lastFail' ELSE newest
    BY <1>2, <1>5 DEF Record, Since
  <2>3. newest' \in Ages /\ newest' <= newest
    BY <2>1, <2>2, HybridAssumption DEF WaitInv, TypeOK, Ages
  <2>4. ASSUME NEW age \in Ages, newest <= age PROVE newest' <= age
    BY <2>3, <2>4, HybridAssumption DEF WaitInv, Ages
  <2>5. /\ Accounted("tripNow", "tripStore", sinceOpening)'
        /\ Accounted("probeNow", "probeStore", sinceProbeFail)'
    BY <1>1, <2>1, <2>2, <2>4 DEF WaitInv, Accounted, WillStore
  <2>6. QED
    BY <1>1, <1>3, <2>1, <2>2, <2>3, <2>5 DEF WaitInv, Knows, Expired
<1>6. QED
  BY <1>4, <1>5

LEMMA WaitInit == HistoryInit => WaitInv
<1> SUFFICES ASSUME HistoryInit PROVE WaitInv
  OBVIOUS
<1>1. TypeOK
  BY TypeInit DEF HistoryInit
<1>2. sinceOpening = CoolOff /\ sinceProbeFail = CoolOff /\ newest = CoolOff /\ informed = {}
  BY DEF HistoryInit, Expired
<1>3. CoolOff \in Ages /\ CoolOff <= CoolOff
  BY HybridAssumption DEF Ages
<1>4. QED
  BY <1>1, <1>2, <1>3 DEF WaitInv, Accounted

LEMMA WaitStep == WaitInv /\ [HistoryNext]_hvars => WaitInv'
<1> SUFFICES ASSUME WaitInv, [HistoryNext]_hvars PROVE WaitInv'
  OBVIOUS
<1>1. TypeOK /\ TypeOK'
  BY TypeStep DEF WaitInv, HistoryNext, hvars
<1>2. ASSUME NEW r \in Callers, Arrive(r) \/ Continue(r), Record PROVE WaitInv'
  BY <1>1, <1>2, CallerInstants, WaitCaller
<1>3. ASSUME (\E a \in Admins : Reset(a)) \/ Tick \/ Outage, Record PROVE WaitInv'
  BY <1>1, <1>3, WaitElsewhere
<1>4. CASE UNCHANGED hvars
  BY <1>1, <1>4 DEF hvars, vars, driverVars, history, WaitInv, Accounted, WillStore, Knows, Expired
<1>5. QED
  BY <1>2, <1>3, <1>4 DEF HistoryNext, Next

(* A probe begins before the cool-off is over only if its caller read      *)
(* lastFailUnix while an instant was still to be stored, or one that a slow*)
(* store had put over a newer one, or if the breaker opened or a probe     *)
(* failed since (hybrid.go:78-94, 110-111).                                *)
THEOREM EarlyProbesHaveACause == HistorySpec => InformedProbesWait
<1>1. WaitInv /\ [HistoryNext]_hvars =>
         [\A r \in informed : BeginsProbe(r) =>
             sinceOpening = Expired /\ sinceProbeFail = Expired]_hvars
  BY DEF WaitInv, Knows, BeginsProbe, Moves
<1>2. QED
  BY <1>1, WaitInit, WaitStep, PTL DEF HistorySpec, InformedProbesWait
===============================================================================
