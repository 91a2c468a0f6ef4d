----------------------------- MODULE ServiceProofs ----------------------------
(***************************************************************************)
(* Proofs about the service, for any number of callers, any policies and   *)
(* resolver, any bound on the requests: the limiter and the middleware run *)
(* the hybrid driver as it is specified, nobody is turned away by an       *)
(* outage, and the middleware fails open only after the fallback.          *)
(***************************************************************************)
EXTENDS ServiceHistory, HybridDriverProofs, CountingLemmas

(* Every step of the service is a step of the driver or leaves it alone.   *)
LEMMA DriverSteps == [HistoryNext]_shvars => [Next]_vars
<1> SUFFICES ASSUME [HistoryNext]_shvars PROVE [Next]_vars
  OBVIOUS
<1>1. ASSUME NEW r \in Callers, AllowKey(r) PROVE [Next]_vars
  <2>1. CASE \E answer \in Answers : LoadPolicy(r, answer)
    BY <2>1 DEF LoadPolicy
  <2>2. CASE CallDriver(r)
    BY <2>2 DEF CallDriver, Next
  <2>3. CASE InDriver(r)
    <3>1. Continue(r)
      BY <2>3 DEF InDriver, Continue
    <3>2. QED
      BY <3>1 DEF Next
  <2>4. CASE Observe(r)
    BY <2>4 DEF Observe
  <2>5. QED
    BY <1>1, <2>1, <2>2, <2>3, <2>4 DEF AllowKey
<1>2. ASSUME NEW r \in Callers, Responding(r) PROVE [Next]_vars
  BY <1>2 DEF Responding, Serve, TurnAway, Finish
<1>3. ASSUME NEW p \in Policies, UpdatePolicy(p) PROVE [Next]_vars
  BY <1>3 DEF UpdatePolicy
<1>4. CASE Environment
  BY <1>4 DEF Environment, Next
<1>5. CASE UNCHANGED shvars
  BY <1>5 DEF shvars, lvars
<1>6. QED
  BY <1>1, <1>2, <1>3, <1>4, <1>5 DEF HistoryNext, Answering

(* The composition leaves the driver's specification intact: what is proved*)
(* of the driver holds for it under the limiter and the middleware         *)
(* (distlimit.go:213, nethttp.go:84).                                      *)
THEOREM RunsDriver == HistorySpec => Spec
<1>1. ServiceInit => Init
  BY DEF ServiceInit, LimiterInit
<1>2. QED
  BY <1>1, DriverSteps, PTL DEF HistorySpec, Spec

-------------------------------------------------------------------------------
(* The strengthening: where a request is and what it holds.                *)

Full(r) == \E tier \in Tiers : used[tier] >= request[r].policy.limit

(* Where a request that a tier has answered is.                            *)
Settled == {"idle", "setUp", "release"}

Owed(r) ==
    /\ pc[r] \in {"setUp", "release"} => request[r].verdict # "none"
    /\ request[r].at = "call" \/ pc[r] \notin Settled => request[r].verdict = "none"
    /\ request[r].at \in {"observe", "respond"} /\ request[r].verdict = "none"
          => r \in asked
    /\ request[r].verdict = "refused" => Full(r)

ServiceInv ==
    /\ ServiceTypeOK
    /\ \A r \in Callers : request[r] # NoRequest => Owed(r)

LEMMA RequestFields ==
    ASSUME NEW q \in Requests
    PROVE  /\ q # NoRequest /\ q.at # "none"
           /\ q.at \in Labels /\ q.verdict \in Verdicts /\ q.policy \in Configured
BY DEF Requests, NoRequest, Labels

LEMMA LimitsAreNumbers ==
    ASSUME NEW p \in Configured
    PROVE  p.limit \in Nat /\ p.limit > 0
BY LimiterAssumption DEF Configured, Valid

LEMMA InitOwes == ServiceInit => ServiceInv
<1> SUFFICES ASSUME ServiceInit PROVE ServiceInv
  OBVIOUS
<1>1. TypeOK
  BY TypeInit DEF ServiceInit, LimiterInit
<1>2. QED
  BY <1>1 DEF ServiceInit, LimiterInit, ServiceInv, ServiceTypeOK, Init, At

Spent == used["primary"] + used["fallback"]

(* A step of a request that has its verdict costs nothing.  One of a       *)
(* request that has none costs one unit of a tier, if it is admitted or its*)
(* answer is lost.                                                         *)
Pays(r, verdict) ==
    \/ UNCHANGED used /\ verdict = request[r].verdict
    \/ UNCHANGED used /\ request[r].verdict = "none" /\ verdict = "refused"
    \/ /\ Spent' = Spent + 1
       /\ request[r].verdict = "none"
       /\ \/ verdict = "allowed"
          \/ verdict = "none" /\ pc[r] \in {"primary", "probe"}

(* What a step of a request in the driver may do to it: the verdict it gets*)
(* is paid for or refused by a full tier, a probe that was served has one, *)
(* and only the fallback lets a request go without.                        *)
Advances(r, verdict) ==
    /\ Continues(r, verdict)
    /\ \A s \in Callers : s # r => pc'[s] = pc[s]
    /\ used' \in [Tiers -> Nat]
    /\ \A tier \in Tiers : used'[tier] >= used[tier]
    /\ Pays(r, verdict)
    /\ verdict = "refused" => request[r].verdict = "refused" \/ Full(r)
    /\ pc'[r] \in {"setUp", "release"} => verdict # "none"
    /\ pc'[r] \notin Settled => verdict = "none"
    /\ pc'[r] = "idle" /\ verdict = "none" => pc[r] = "fallback"

LEMMA CountsGrow ==
    ASSUME ServiceInv, NEW r \in Callers, At(r, "driver"), NEW tier \in Tiers
    PROVE  /\ Counted(r, tier) \in [Tiers -> Nat]
           /\ \A t \in Tiers : Counted(r, tier)[t] >= used[t]
           /\ ~Admits(r, tier) => Full(r) /\ Counted(r, tier) = used
           /\ Admits(r, tier) =>
                 Counted(r, tier)["primary"] + Counted(r, tier)["fallback"] = Spent + 1
<1>1. request[r] \in Requests
  BY DEF ServiceInv, ServiceTypeOK, At, NoRequest
<1>2. request[r].policy.limit \in Nat
  BY <1>1, RequestFields, LimitsAreNumbers
<1>3. used \in [Tiers -> Nat]
  BY DEF ServiceInv, ServiceTypeOK
<1>4. ASSUME Admits(r, tier)
      PROVE  Counted(r, tier)["primary"] + Counted(r, tier)["fallback"] = Spent + 1
  BY <1>3, <1>4 DEF Counted, Spent, Tiers
<1>5. QED
  BY <1>2, <1>3, <1>4 DEF Counted, Admits, Full

LEMMA DriverAdvances ==
    ASSUME ServiceInv, NEW r \in Callers, InDriver(r)
    PROVE  \E verdict \in Verdicts : Advances(r, verdict)
<1> DEFINE held == request[r].verdict
<1>1. /\ At(r, "driver")
      /\ request[r] \in Requests
      /\ held \in Verdicts
      /\ used \in [Tiers -> Nat]
      /\ TypeOK
  <2>1. At(r, "driver")
    BY DEF InDriver
  <2>2. QED
    BY <2>1, RequestFields DEF ServiceInv, ServiceTypeOK, At, NoRequest
<1>2. /\ pc[r] \in {"setUp", "release"} => held # "none"
      /\ pc[r] \notin Settled => held = "none"
  BY <1>1, RequestFields DEF ServiceInv, Owed
<1>3. "primary" \in Tiers /\ "fallback" \in Tiers
  BY DEF Tiers
<1>4. ASSUME NEW tier \in Tiers, Answered(r, tier),
             NEW from, NEW to, Goto(r, from, to),
             from \notin Settled, to \in Settled
      PROVE  \E v \in Verdicts : Advances(r, v)
  <2>1. PICK v \in {"allowed", "refused"} :
            /\ Continues(r, v)
            /\ v = "allowed" <=> Admits(r, tier)
    BY <1>4 DEF Answered
  <2>2. used' = Counted(r, tier) /\ held = "none"
    BY <1>2, <1>4 DEF Answered, Goto
  <2>3. Pays(r, v)
    BY <1>1, <2>1, <2>2, CountsGrow DEF Pays, Spent
  <2>4. Advances(r, v)
    BY <1>1, <1>4, <2>1, <2>2, <2>3, CountsGrow, GotoSets DEF Advances
  <2>5. QED
    BY <2>1, <2>4 DEF Verdicts
<1>5. ASSUME Lost(r), NEW from \in {"primary", "probe"}, NEW to, Goto(r, from, to),
             to \notin Settled
      PROVE  \E v \in Verdicts : Advances(r, v)
  <2>1. pc[r] = from /\ held = "none"
    BY <1>2, <1>5 DEF Goto, Settled
  <2>2. Pays(r, "none")
    <3>1. CASE used' = used
      BY <2>1, <3>1 DEF Pays
    <3>2. CASE used' = Counted(r, "primary")
      BY <1>1, <1>3, <2>1, <3>2, CountsGrow DEF Pays, Spent
    <3>3. QED
      BY <1>5, <3>1, <3>2 DEF Lost
  <2>3. used' \in [Tiers -> Nat] /\ \A tier \in Tiers : used'[tier] >= used[tier]
    BY <1>1, <1>3, <1>5, CountsGrow DEF Lost
  <2>4. Advances(r, "none")
    BY <1>1, <1>5, <2>2, <2>3, GotoSets DEF Lost, Advances, Settled
  <2>5. QED
    BY <2>4 DEF Verdicts
<1>6. ASSUME Silent(r), NEW from, NEW to, Goto(r, from, to),
             to \in {"setUp", "release"} => held # "none",
             to \notin Settled => from \notin Settled,
             to = "idle" /\ held = "none" => from = "fallback"
      PROVE  \E v \in Verdicts : Advances(r, v)
  <2>1. \A tier \in Tiers : used[tier] >= used[tier]
    BY <1>1
  <2>2. pc'[r] \notin Settled => held = "none"
    BY <1>1, <1>2, <1>6, GotoSets
  <2>3. Advances(r, held)
    BY <1>1, <1>6, <2>1, <2>2, GotoSets DEF Silent, Advances, Pays
  <2>4. QED
    BY <1>1, <2>3
<1>7. CASE (PrimaryServes(r) \/ ProbeServes(r)) /\ Answered(r, "primary")
  BY <1>3, <1>4, <1>7 DEF Settled, PrimaryServes, ProbeServes
<1>8. CASE (PrimaryErrs(r) \/ ProbeErrs(r)) /\ Lost(r)
  BY <1>5, <1>8 DEF Settled, PrimaryErrs, ProbeErrs
<1>9. CASE CallFallback(r) /\ "fallback" \in entries' /\ Answered(r, "fallback")
  BY <1>3, <1>4, <1>9 DEF Settled, CallFallback
<1>10. CASE CallFallback(r) /\ Silent(r)
  BY <1>6, <1>10 DEF Settled, CallFallback
<1>11. CASE (CasDown(r) \/ LoadLastFail(r) \/ CheckCoolOff(r) \/ CasProbing(r)) /\ Silent(r)
  BY <1>6, <1>11 DEF Settled, CasDown, LoadLastFail, CheckCoolOff, CasProbing
<1>12. CASE SetUp(r) /\ Silent(r)
  <2>1. held # "none"
    BY <1>2, <1>12 DEF Settled, SetUp, Goto
  <2>2. QED
    BY <1>6, <1>12, <2>1 DEF Settled, SetUp
<1>13. CASE ReleaseProbe(r) /\ Silent(r)
  <2>1. CASE Goto(r, "release", "idle")
    <3>1. held # "none"
      BY <1>2, <2>1 DEF Settled, Goto
    <3>2. QED
      BY <1>6, <1>13, <2>1, <3>1 DEF Settled
  <2>2. CASE Goto(r, "giveUp", "onError")
    BY <1>6, <1>13, <2>2 DEF Settled
  <2>3. QED
    BY <1>13, <2>1, <2>2 DEF ReleaseProbe
<1>14. CASE (ReadClock(r) \/ StoreLastFail(r) \/ OnError(r) \/ CountFallback(r)) /\ Silent(r)
  BY <1>6, <1>14 DEF Settled, ReadClock, StoreLastFail, OnError, CountFallback
<1>15. QED
  BY <1>7, <1>8, <1>9, <1>10, <1>11, <1>12, <1>13, <1>14 DEF InDriver

-------------------------------------------------------------------------------
(* Every step keeps the strengthening.                                     *)

(* A step of one request, or of none, leaves what the others owe.          *)
LEMMA OthersOwe ==
    ASSUME ServiceInv, NEW s \in Callers,
           request'[s] = request[s], pc'[s] = pc[s],
           used' \in [Tiers -> Nat], \A tier \in Tiers : used'[tier] >= used[tier],
           s \in asked => s \in asked',
           request[s] # NoRequest
    PROVE  Owed(s)'
<1>1. Owed(s) /\ request[s] \in Requests
  BY DEF ServiceInv, ServiceTypeOK
<1>2. request[s].policy.limit \in Nat /\ used \in [Tiers -> Nat]
  BY <1>1, RequestFields, LimitsAreNumbers DEF ServiceInv, ServiceTypeOK
<1>3. Full(s) => Full(s)'
  <2>1. ASSUME NEW tier \in Tiers, used[tier] >= request[s].policy.limit
        PROVE  used'[tier] >= request'[s].policy.limit
    <3>1. used[tier] \in Nat /\ used'[tier] \in Nat /\ used'[tier] >= used[tier]
      BY <1>2
    <3>2. QED
      BY <1>2, <2>1, <3>1
  <2>2. QED
    BY <2>1 DEF Full
<1>4. QED
  BY <1>1, <1>3 DEF Owed

LEMMA LoadKeeps ==
    ASSUME ServiceInv, TypeOK', NEW r \in Callers, NEW answer \in Answers,
           LoadPolicy(r, answer), UNCHANGED asked
    PROVE  ServiceInv'
<1>1. IF Valid(answer) THEN answer \in Configured ELSE policy \in Configured
  BY DEF Configured, ServiceInv, ServiceTypeOK
<1>2. request'[r] \in Requests /\ request'[r].at = "call" /\ request'[r].verdict = "none"
  BY <1>1 DEF LoadPolicy, ServiceInv, ServiceTypeOK, Requests, Labels, Verdicts
<1>3. \A s \in Callers : s # r => request'[s] = request[s]
  BY DEF LoadPolicy, ServiceInv, ServiceTypeOK
<1>4. pc[r] = "idle" /\ UNCHANGED <<pc, used, policy>>
  BY DEF LoadPolicy, ServiceInv, ServiceTypeOK, At, vars
<1>5. ServiceTypeOK'
  BY <1>2, <1>3, <1>4 DEF LoadPolicy, ServiceInv, ServiceTypeOK, At
<1>6. Owed(r)'
  BY <1>2, <1>4 DEF Owed, Settled
<1>7. \A s \in Callers : s # r /\ request'[s] # NoRequest => Owed(s)'
  <2>1. used' \in [Tiers -> Nat] /\ \A tier \in Tiers : used'[tier] >= used[tier]
    BY <1>4 DEF ServiceInv, ServiceTypeOK
  <2>2. QED
    BY <1>3, <1>4, <2>1, OthersOwe
<1>8. QED
  BY <1>5, <1>6, <1>7 DEF ServiceInv

LEMMA CallKeeps ==
    ASSUME ServiceInv, TypeOK', NEW r \in Callers, CallDriver(r), UNCHANGED asked
    PROVE  ServiceInv'
<1>1. request[r] \in Requests /\ request[r].at = "call"
  BY DEF CallDriver, At, ServiceInv, ServiceTypeOK, NoRequest
<1>2. request' = [request EXCEPT ![r] = [request[r] EXCEPT !.at = "driver"]]
  BY DEF CallDriver
<1>3. /\ request'[r] \in Requests /\ request'[r].at = "driver"
      /\ request'[r].verdict = request[r].verdict
      /\ request'[r].policy = request[r].policy
  BY <1>1, <1>2 DEF ServiceInv, ServiceTypeOK, Requests, Labels
<1>4. \A s \in Callers : s # r => request'[s] = request[s] /\ pc'[s] = pc[s]
  BY <1>2, GotoSets DEF CallDriver, Arrive, EnterClosed, EnterOpen, ServiceInv, ServiceTypeOK
<1>5. pc'[r] \in {"primary", "loadLastFail"}
  BY GotoSets DEF CallDriver, Arrive, EnterClosed, EnterOpen, ServiceInv, ServiceTypeOK
<1>6. ServiceTypeOK'
  BY <1>2, <1>3, <1>4 DEF CallDriver, ServiceInv, ServiceTypeOK, At
<1>7. Owed(r)'
  <2>1. Owed(r)
    BY <1>1, RequestFields DEF ServiceInv
  <2>2. QED
    BY <1>1, <1>3, <1>5, <2>1 DEF Owed, Full, CallDriver
<1>8. \A s \in Callers : s # r /\ request'[s] # NoRequest => Owed(s)'
  <2>1. used' \in [Tiers -> Nat] /\ \A tier \in Tiers : used'[tier] >= used[tier]
    BY DEF CallDriver, ServiceInv, ServiceTypeOK
  <2>2. QED
    BY <1>4, <2>1, OthersOwe
<1>9. QED
  BY <1>6, <1>7, <1>8 DEF ServiceInv

LEMMA InDriverKeeps ==
    ASSUME ServiceInv, TypeOK', NEW r \in Callers, InDriver(r),
           asked' = IF Asks(r) THEN asked \cup {r} ELSE asked
    PROVE  ServiceInv'
<1>1. request[r] \in Requests /\ request[r].at = "driver"
  BY DEF InDriver, At, ServiceInv, ServiceTypeOK, NoRequest
<1>2. PICK verdict \in Verdicts : Advances(r, verdict)
  BY DriverAdvances
<1>3. request' = [request EXCEPT ![r] =
                     [request[r] EXCEPT !.verdict = verdict,
                        !.at = IF pc'[r] = "idle" THEN "observe" ELSE "driver"]]
  BY <1>1, <1>2 DEF Advances, Continues, ServiceInv, ServiceTypeOK
<1>4. /\ request'[r] \in Requests
      /\ request'[r].at = IF pc'[r] = "idle" THEN "observe" ELSE "driver"
      /\ request'[r].verdict = verdict
      /\ request'[r].policy = request[r].policy
  BY <1>1, <1>3 DEF ServiceInv, ServiceTypeOK, Requests, Labels, Verdicts
<1>5. /\ \A s \in Callers : s # r => request'[s] = request[s] /\ pc'[s] = pc[s]
      /\ used' \in [Tiers -> Nat]
      /\ \A tier \in Tiers : used'[tier] >= used[tier]
  BY <1>2, <1>3 DEF Advances, ServiceInv, ServiceTypeOK
<1>6. ServiceTypeOK'
  BY <1>3, <1>4, <1>5 DEF InDriver, ServiceInv, ServiceTypeOK, At
<1>7. Owed(r)'
  <2>1. Full(r) => Full(r)'
    <3>1. request[r].policy.limit \in Nat /\ used \in [Tiers -> Nat]
      BY <1>1, RequestFields, LimitsAreNumbers DEF ServiceInv, ServiceTypeOK
    <3>2. ASSUME NEW tier \in Tiers, used[tier] >= request[r].policy.limit
          PROVE  used'[tier] >= request'[r].policy.limit
      <4>1. used[tier] \in Nat /\ used'[tier] \in Nat /\ used'[tier] >= used[tier]
        BY <1>5, <3>1
      <4>2. QED
        BY <1>4, <3>1, <3>2, <4>1
    <3>3. QED
      BY <3>2 DEF Full
  <2>2. verdict = "refused" => Full(r)'
    <3>1. Owed(r)
      BY <1>1, RequestFields DEF ServiceInv
    <3>2. QED
      BY <1>2, <2>1, <3>1 DEF Advances, Owed
  <2>3. pc'[r] \in {"setUp", "release"} => verdict # "none"
    BY <1>2 DEF Advances
  <2>4. pc'[r] \notin Settled => verdict = "none"
    BY <1>2 DEF Advances
  <2>5. pc'[r] = "idle" /\ verdict = "none" => r \in asked'
    BY <1>2 DEF Advances, Asks
  <2>6. QED
    BY <1>4, <2>2, <2>3, <2>4, <2>5 DEF Owed
<1>8. \A s \in Callers : s # r /\ request'[s] # NoRequest => Owed(s)'
  BY <1>5, OthersOwe
<1>9. QED
  BY <1>6, <1>7, <1>8 DEF ServiceInv

LEMMA ObserveKeeps ==
    ASSUME ServiceInv, TypeOK', NEW r \in Callers, Observe(r), asked \subseteq asked',
           asked' \subseteq Callers
    PROVE  ServiceInv'
<1>1. request[r] \in Requests /\ request[r].at = "observe"
  BY DEF Observe, At, ServiceInv, ServiceTypeOK, NoRequest
<1>2. request' = [request EXCEPT ![r] = [request[r] EXCEPT !.at = "respond"]]
  BY DEF Observe
<1>3. /\ request'[r] \in Requests /\ request'[r].at = "respond"
      /\ request'[r].verdict = request[r].verdict
      /\ request'[r].policy = request[r].policy
  BY <1>1, <1>2 DEF ServiceInv, ServiceTypeOK, Requests, Labels
<1>4. /\ \A s \in Callers : s # r => request'[s] = request[s]
      /\ pc' = pc /\ used' = used /\ policy' = policy
  BY <1>2 DEF Observe, vars
<1>5. pc[r] = "idle"
  BY <1>1 DEF ServiceInv, ServiceTypeOK, At
<1>6. ServiceTypeOK'
  BY <1>2, <1>3, <1>4, <1>5 DEF ServiceInv, ServiceTypeOK, At
<1>7. Owed(r)'
  <2>1. Owed(r)
    BY <1>1, RequestFields DEF ServiceInv
  <2>2. QED
    BY <1>1, <1>3, <1>4, <1>5, <2>1 DEF Owed, Full, Settled
<1>8. \A s \in Callers : s # r /\ request'[s] # NoRequest => Owed(s)'
  <2>1. used' \in [Tiers -> Nat] /\ \A tier \in Tiers : used'[tier] >= used[tier]
    BY <1>4 DEF ServiceInv, ServiceTypeOK
  <2>2. QED
    BY <1>4, <2>1, OthersOwe
<1>9. QED
  BY <1>6, <1>7, <1>8 DEF ServiceInv

LEMMA RespondKeeps ==
    ASSUME ServiceInv, TypeOK', NEW r \in Callers, Responding(r)
    PROVE  ServiceInv'
<1>1. Finish(r) /\ asked' = asked \ {r}
  BY DEF Responding, Serve, TurnAway
<1>2. /\ request'[r] = NoRequest
      /\ \A s \in Callers : s # r => request'[s] = request[s]
      /\ pc' = pc /\ used' = used /\ policy' = policy
  BY <1>1 DEF Finish, vars, ServiceInv, ServiceTypeOK
<1>3. pc[r] = "idle"
  BY <1>1 DEF Finish, At, ServiceInv, ServiceTypeOK
<1>4. ServiceTypeOK'
  BY <1>1, <1>2, <1>3 DEF Finish, ServiceInv, ServiceTypeOK, At
<1>5. \A s \in Callers : request'[s] # NoRequest => Owed(s)'
  <2>1. used' \in [Tiers -> Nat] /\ \A tier \in Tiers : used'[tier] >= used[tier]
    BY <1>2 DEF ServiceInv, ServiceTypeOK
  <2>2. QED
    BY <1>1, <1>2, <2>1, OthersOwe
<1>6. QED
  BY <1>4, <1>5 DEF ServiceInv

(* Steps that no request takes.                                            *)
LEMMA OutsideKeeps ==
    ASSUME ServiceInv, TypeOK', UNCHANGED <<pc, request, used, asked>>,
           policy' \in {p \in Policies : Valid(p)}
    PROVE  ServiceInv'
<1>1. ServiceTypeOK'
  BY DEF ServiceInv, ServiceTypeOK, At
<1>2. used' \in [Tiers -> Nat] /\ \A tier \in Tiers : used'[tier] >= used[tier]
  BY DEF ServiceInv, ServiceTypeOK
<1>3. QED
  BY <1>1, <1>2, OthersOwe DEF ServiceInv

LEMMA ServiceStep == ServiceInv /\ [HistoryNext]_shvars => ServiceInv'
<1> SUFFICES ASSUME ServiceInv, [HistoryNext]_shvars PROVE ServiceInv'
  OBVIOUS
<1>1. TypeOK'
  BY DriverSteps, TypeStep DEF ServiceInv, ServiceTypeOK
<1>2. ASSUME NEW r \in Callers, Answering(r) PROVE ServiceInv'
  <2>1. asked' = IF Asks(r) THEN asked \cup {r} ELSE asked
    BY <1>2 DEF Answering
  <2>2. ASSUME NEW answer \in Answers, LoadPolicy(r, answer) PROVE ServiceInv'
    <3>1. UNCHANGED asked
      BY <2>1, <2>2 DEF Asks, LoadPolicy, vars
    <3>2. QED
      BY <1>1, <2>2, <3>1, LoadKeeps
  <2>3. CASE CallDriver(r)
    <3>1. pc[r] # "fallback"
      BY <2>3 DEF CallDriver, Arrive, EnterClosed, EnterOpen, Goto
    <3>2. UNCHANGED asked
      BY <2>1, <3>1 DEF Asks
    <3>3. QED
      BY <1>1, <2>3, <3>2, CallKeeps
  <2>4. CASE InDriver(r)
    BY <1>1, <2>1, <2>4, InDriverKeeps
  <2>5. CASE Observe(r)
    <3>1. asked \subseteq asked' /\ asked' \subseteq Callers
      BY <2>1 DEF ServiceInv, ServiceTypeOK
    <3>2. QED
      BY <1>1, <2>5, <3>1, ObserveKeeps
  <2>6. QED
    BY <1>2, <2>2, <2>3, <2>4, <2>5 DEF Answering, AllowKey
<1>3. ASSUME NEW r \in Callers, Responding(r) PROVE ServiceInv'
  BY <1>1, <1>3, RespondKeeps
<1>4. ASSUME NEW p \in Policies, UpdatePolicy(p), UNCHANGED asked PROVE ServiceInv'
  BY <1>1, <1>4, OutsideKeeps DEF UpdatePolicy, vars, ServiceInv, ServiceTypeOK
<1>5. CASE Environment /\ UNCHANGED asked
  BY <1>1, <1>5, OutsideKeeps
     DEF Environment, limiterVars, Tick, Outage, ServiceInv, ServiceTypeOK
<1>6. CASE UNCHANGED shvars
  BY <1>1, <1>6, OutsideKeeps
     DEF shvars, lvars, vars, limiterVars, ServiceInv, ServiceTypeOK
<1>7. QED
  BY <1>2, <1>3, <1>4, <1>5, <1>6 DEF HistoryNext

(* The driver is called with a valid pair of limit and window of one policy*)
(* only, however many updates interleave with the requests                 *)
(* (distlimit.go:148-153, 178, 201-206).                                   *)
THEOREM ServiceTypeCorrect == HistorySpec => []ServiceTypeOK
<1>1. ServiceInv => ServiceTypeOK
  BY DEF ServiceInv
<1>2. QED
  BY <1>1, InitOwes, ServiceStep, PTL DEF HistorySpec

LEMMA Refusals ==
    ASSUME ServiceInv, [HistoryNext]_shvars, NEW r \in Callers
    PROVE  /\ TurnAway(r) => Full(r)
           /\ Serve(r) /\ request[r].verdict = "none" => r \in asked
<1>1. At(r, "respond") => request[r] \in Requests /\ Owed(r)
  BY DEF At, NoRequest, ServiceInv, ServiceTypeOK
<1>2. QED
  BY <1>1 DEF TurnAway, Serve, Finish, ServesRequest, Owed, At

(* Nobody is turned away by an outage: a request is refused only when a    *)
(* tier has admitted as many as its policy allows (nethttp.go:84-110).     *)
THEOREM RefusedWhenFull == HistorySpec => RefusedOnlyWhenFull
<1>1. ServiceInv /\ [HistoryNext]_shvars =>
         [\A r \in Callers :
             TurnAway(r) => \E tier \in Tiers : used[tier] >= request[r].policy.limit]_shvars
  BY Refusals DEF Full
<1>2. QED
  BY <1>1, InitOwes, ServiceStep, PTL DEF HistorySpec, RefusedOnlyWhenFull

(* The middleware fails open only after the driver has asked the fallback  *)
(* (hybrid.go:101-119).                                                    *)
THEOREM FailsOpenAfterFallback == HistorySpec => FailsOpenLast
<1>1. ServiceInv /\ [HistoryNext]_shvars =>
         [\A r \in Callers :
             Serve(r) /\ request[r].verdict = "none" => r \in asked]_shvars
  BY Refusals
<1>2. QED
  BY <1>1, InitOwes, ServiceStep, PTL DEF HistorySpec, FailsOpenLast

-------------------------------------------------------------------------------
(* The accounts of the service balance, for any finite number of callers:  *)
(* what the tiers count, what the clients get and what the observer sees.  *)


LEMMA CallersMove ==
    ASSUME NEW S \in SUBSET Callers, NEW T \in SUBSET Callers, NEW r \in Callers,
           \A s \in Callers : s # r => (s \in S <=> s \in T)
    PROVE  /\ Cardinality(S) \in Nat /\ Cardinality(T) \in Nat
           /\ (r \in S <=> r \in T) => T = S
           /\ r \notin S /\ r \in T => Cardinality(T) = Cardinality(S) + 1
           /\ r \in S /\ r \notin T => Cardinality(T) = Cardinality(S) - 1
BY FiniteCallers, OneMoves

Ledgers == [passed : Nat, refused : Nat, failedOpen : Nat, lost : Nat]
Events == [allowed : Nat, blocked : Nat]

-------------------------------------------------------------------------------
(* What is spent.                                                          *)

LedgerInv ==
    /\ ServiceInv
    /\ ledger \in Ledgers
    /\ EveryPassIsPaid

LEMMA LedgerInit == ServiceInit => LedgerInv
<1> SUFFICES ASSUME ServiceInit PROVE LedgerInv
  OBVIOUS
<1>1. ServiceInv
  BY InitOwes
<1>2. \A r \in Callers : At(r, "none")
  BY DEF ServiceInit, LimiterInit, At, NoRequest
<1>3. Holding("allowed") = {}
  BY <1>2 DEF Holding
<1>4. Cardinality(Holding("allowed")) = 0
  BY <1>3, FS_EmptySet
<1>5. used["primary"] = 0 /\ used["fallback"] = 0
  BY DEF ServiceInit, LimiterInit, Tiers
<1>6. QED
  BY <1>1, <1>4, <1>5 DEF ServiceInit, LedgerInv, Ledgers, EveryPassIsPaid

(* A step changes what one request holds.                                  *)
LEMMA OneHolds ==
    ASSUME NEW r \in Callers, \A s \in Callers : s # r => request'[s] = request[s],
           NEW before, before <=> request[r].at # "none" /\ request[r].verdict = "allowed",
           NEW after, after <=> request'[r].at # "none" /\ request'[r].verdict = "allowed"
    PROVE  /\ Cardinality(Holding("allowed")) \in Nat
           /\ (before <=> after) => Holding("allowed")' = Holding("allowed")
           /\ ~before /\ after =>
                 Cardinality(Holding("allowed"))' = Cardinality(Holding("allowed")) + 1
           /\ before /\ ~after =>
                 Cardinality(Holding("allowed"))' = Cardinality(Holding("allowed")) - 1
<1> DEFINE S == Holding("allowed")
           T == Holding("allowed")'
<1>1. S \in SUBSET Callers /\ T \in SUBSET Callers
  BY DEF Holding
<1>2. (r \in S <=> before) /\ (r \in T <=> after)
  BY DEF Holding, At
<1>3. \A s \in Callers : s # r => (s \in S <=> s \in T)
  BY DEF Holding, At
<1> HIDE DEF S, T
<1>4. /\ Cardinality(S) \in Nat
      /\ (r \in S <=> r \in T) => T = S
      /\ r \notin S /\ r \in T => Cardinality(T) = Cardinality(S) + 1
      /\ r \in S /\ r \notin T => Cardinality(T) = Cardinality(S) - 1
  BY <1>1, <1>3, CallersMove
<1>5. QED
  BY <1>2, <1>4 DEF S, T

(* Steps that spend nothing and let nobody pass.                           *)
LEMMA LedgerKept ==
    ASSUME LedgerInv, ServiceInv', UNCHANGED <<used, ledger>>, NEW r \in Callers,
           \A s \in Callers : s # r => request'[s] = request[s],
           request[r].at # "none" /\ request[r].verdict = "allowed"
              <=> request'[r].at # "none" /\ request'[r].verdict = "allowed"
    PROVE  LedgerInv'
<1>1. Holding("allowed")' = Holding("allowed")
  BY OneHolds
<1>2. QED
  BY <1>1 DEF LedgerInv, EveryPassIsPaid

LEMMA LedgerDriver ==
    ASSUME LedgerInv, ServiceInv', NEW r \in Callers, InDriver(r), Answering(r)
    PROVE  LedgerInv'
<1>1. request[r] \in Requests /\ request[r].at = "driver"
  BY DEF InDriver, At, LedgerInv, ServiceInv, ServiceTypeOK, NoRequest
<1>2. PICK verdict \in Verdicts : Advances(r, verdict)
  BY DriverAdvances DEF LedgerInv
<1>3. /\ request'[r].at \in {"observe", "driver"} /\ request'[r].verdict = verdict
      /\ \A s \in Callers : s # r => request'[s] = request[s]
  BY <1>1, <1>2
     DEF Advances, Continues, LedgerInv, ServiceInv, ServiceTypeOK, Requests
<1>4. used["primary"] \in Nat /\ used["fallback"] \in Nat
      /\ used'["primary"] \in Nat /\ used'["fallback"] \in Nat
  BY DEF LedgerInv, ServiceInv, ServiceTypeOK, Tiers
<1>5. CASE UNCHANGED used /\ verdict # "allowed" /\ request[r].verdict # "allowed"
  <2>1. UNCHANGED ledger
    BY <1>5 DEF Answering
  <2>2. QED
    BY <1>3, <1>5, <2>1, LedgerKept
<1>6. CASE UNCHANGED used /\ verdict = request[r].verdict
  <2>1. UNCHANGED ledger
    BY <1>6 DEF Answering
  <2>2. QED
    BY <1>1, <1>3, <1>6, <2>1, LedgerKept
<1>7. CASE Spent' = Spent + 1 /\ request[r].verdict = "none" /\ verdict = "allowed"
  <2>1. UNCHANGED ledger
    BY <1>3, <1>7 DEF Answering
  <2>2. /\ Cardinality(Holding("allowed")) \in Nat
        /\ Cardinality(Holding("allowed"))' = Cardinality(Holding("allowed")) + 1
    BY <1>3, <1>7, OneHolds
  <2>3. QED
    BY <1>4, <1>7, <2>1, <2>2 DEF LedgerInv, Ledgers, EveryPassIsPaid, Spent
<1>8. CASE /\ Spent' = Spent + 1 /\ request[r].verdict = "none" /\ verdict = "none"
           /\ pc[r] \in {"primary", "probe"}
  <2>1. used' # used
    BY <1>4, <1>8 DEF Spent
  <2>2. ledger' = [ledger EXCEPT !.lost = @ + 1]
    BY <1>3, <1>8, <2>1 DEF Answering, Entered
  <2>3. Holding("allowed")' = Holding("allowed") /\ Cardinality(Holding("allowed")) \in Nat
    BY <1>3, <1>8, OneHolds
  <2>4. QED
    BY <1>4, <1>8, <2>2, <2>3 DEF LedgerInv, Ledgers, EveryPassIsPaid, Spent
<1>9. QED
  BY <1>2, <1>5, <1>6, <1>7, <1>8 DEF Advances, Pays

LEMMA LedgerRespond ==
    ASSUME LedgerInv, ServiceInv', NEW r \in Callers, Responding(r)
    PROVE  LedgerInv'
<1>1. request[r] \in Requests /\ request[r].at = "respond"
  BY DEF Responding, Serve, TurnAway, Finish, At, LedgerInv, ServiceInv, ServiceTypeOK, NoRequest
<1>2. /\ request'[r].at = "none" /\ UNCHANGED used
      /\ \A s \in Callers : s # r => request'[s] = request[s]
  BY DEF Responding, Serve, TurnAway, Finish, NoRequest, LedgerInv, ServiceInv, ServiceTypeOK
<1>3. used["primary"] \in Nat /\ used["fallback"] \in Nat
  BY DEF LedgerInv, ServiceInv, ServiceTypeOK, Tiers
<1>4. CASE Serve(r) /\ request[r].verdict # "none" /\ Entered(r, "passed")
  <2>1. request[r].verdict = "allowed"
    BY <1>1, <1>4 DEF Serve, ServesRequest, Requests, Verdicts
  <2>2. ledger' = [ledger EXCEPT !.passed = @ + 1]
    BY <1>4 DEF Entered
  <2>3. /\ Cardinality(Holding("allowed")) \in Nat
        /\ Cardinality(Holding("allowed"))' = Cardinality(Holding("allowed")) - 1
    BY <1>1, <1>2, <2>1, OneHolds
  <2>4. QED
    BY <1>2, <1>3, <2>2, <2>3 DEF LedgerInv, Ledgers, EveryPassIsPaid
<1>5. CASE /\ request[r].verdict # "allowed"
           /\ Entered(r, "failedOpen") \/ Entered(r, "refused")
  <2>1. Holding("allowed")' = Holding("allowed")
    BY <1>2, <1>5, OneHolds
  <2>2. ledger' \in Ledgers /\ ledger'.passed = ledger.passed /\ ledger'.lost = ledger.lost
    BY <1>5 DEF Entered, LedgerInv, Ledgers
  <2>3. QED
    BY <1>2, <2>1, <2>2 DEF LedgerInv, EveryPassIsPaid
<1>6. QED
  BY <1>4, <1>5 DEF Responding, TurnAway, ServesRequest

(* Where LoadPolicy, CallDriver and Observe leave a request.               *)
LEMMA QuietRequest ==
    ASSUME ServiceInv, NEW r \in Callers,
           \/ \E answer \in Answers : LoadPolicy(r, answer)
           \/ CallDriver(r) \/ Observe(r)
    PROVE  /\ \A s \in Callers : s # r => request'[s] = request[s]
           /\ UNCHANGED used
           /\ \/ request[r].at = "none" /\ request'[r].verdict = "none"
              \/ request[r].at # "none" /\ request'[r].verdict = request[r].verdict
           /\ request'[r].at \in {"call", "driver", "respond"}
<1>1. request \in [Callers -> {NoRequest} \cup Requests]
  BY DEF ServiceInv, ServiceTypeOK
<1>2. ASSUME NEW answer \in Answers, LoadPolicy(r, answer)
      PROVE  /\ request'[r].verdict = "none" /\ request[r].at = "none"
             /\ request'[r].at = "call"
             /\ \A s \in Callers : s # r => request'[s] = request[s]
             /\ UNCHANGED used
  BY <1>1, <1>2 DEF LoadPolicy, At
<1>3. ASSUME CallDriver(r) \/ Observe(r)
      PROVE  /\ request'[r].verdict = request[r].verdict /\ request[r].at # "none"
             /\ request'[r].at \in {"driver", "respond"}
             /\ \A s \in Callers : s # r => request'[s] = request[s]
             /\ UNCHANGED used
  <2>1. request[r] \in Requests /\ request[r].at # "none"
    BY <1>1, <1>3 DEF CallDriver, Observe, At, NoRequest
  <2>2. request' \in {[request EXCEPT ![r] = [request[r] EXCEPT !.at = "driver"]],
                      [request EXCEPT ![r] = [request[r] EXCEPT !.at = "respond"]]}
    BY <1>3 DEF CallDriver, Observe
  <2>3. QED
    BY <1>1, <1>3, <2>1, <2>2 DEF CallDriver, Observe, Requests
<1>4. QED
  BY <1>2, <1>3

LEMMA LedgerStep == LedgerInv /\ [HistoryNext]_shvars => LedgerInv'
<1> SUFFICES ASSUME LedgerInv, [HistoryNext]_shvars PROVE LedgerInv'
  OBVIOUS
<1>1. ServiceInv /\ ServiceInv'
  BY ServiceStep DEF LedgerInv
<1>2. ASSUME NEW r \in Callers, Answering(r) PROVE LedgerInv'
  <2>1. CASE InDriver(r)
    BY <1>1, <1>2, <2>1, LedgerDriver
  <2>2. CASE (\E answer \in Answers : LoadPolicy(r, answer)) \/ CallDriver(r) \/ Observe(r)
    <3>1. UNCHANGED <<used, ledger>>
      BY <1>1, <1>2, <2>2, QuietRequest DEF Answering
    <3>2. QED
      BY <1>1, <2>2, <3>1, QuietRequest, LedgerKept
  <2>3. QED
    BY <1>2, <2>1, <2>2 DEF Answering, AllowKey
<1>3. ASSUME NEW r \in Callers, Responding(r) PROVE LedgerInv'
  BY <1>1, <1>3, LedgerRespond
<1>4. CASE UNCHANGED <<used, ledger, request>>
  <2>1. Holding("allowed")' = Holding("allowed")
    BY <1>4 DEF Holding, At
  <2>2. QED
    BY <1>1, <1>4, <2>1 DEF LedgerInv, EveryPassIsPaid
<1>5. UNCHANGED <<used, ledger, request>> \/ \E r \in Callers : Answering(r) \/ Responding(r)
  BY DEF HistoryNext, UpdatePolicy, Environment, limiterVars, shvars, lvars
<1>6. QED
  BY <1>2, <1>3, <1>4, <1>5

(* Every request that the limiter lets pass has taken one unit of one tier,*)
(* and a tier's count grows for nothing else but an answer of the primary  *)
(* that was lost (hybrid.go:84-121, distlimit.go:213-229).                 *)
THEOREM PassesArePaid == HistorySpec => []EveryPassIsPaid
<1>1. LedgerInv => EveryPassIsPaid
  BY DEF LedgerInv
<1>2. QED
  BY <1>1, LedgerInit, LedgerStep, PTL DEF HistorySpec

-------------------------------------------------------------------------------
(* What is observed.                                                       *)

Waiting == {r \in Callers : At(r, "respond")}

EventsInv ==
    /\ ServiceInv
    /\ ledger \in Ledgers
    /\ events \in Events
    /\ ObservedOnce

LEMMA EventsInit == ServiceInit => EventsInv
<1> SUFFICES ASSUME ServiceInit PROVE EventsInv
  OBVIOUS
<1>1. ServiceInv
  BY InitOwes
<1>2. Waiting = {}
  BY DEF ServiceInit, LimiterInit, At, NoRequest, Waiting
<1>3. Waiting \cap Holding("allowed") = {} /\ Waiting \ Holding("allowed") = {}
  BY <1>2
<1>4. QED
  BY <1>1, <1>3, FS_EmptySet
     DEF ServiceInit, LimiterInit, EventsInv, Ledgers, Events, ObservedOnce, Waiting

(* Requests that were allowed and wait for their response, over a step.    *)
LEMMA AllowedWait ==
    ASSUME NEW r \in Callers, \A s \in Callers : s # r => request'[s] = request[s],
           NEW before, before <=> request[r].at = "respond" /\ request[r].verdict = "allowed",
           NEW after, after <=> request'[r].at = "respond" /\ request'[r].verdict = "allowed"
    PROVE  /\ Cardinality(Waiting \cap Holding("allowed")) \in Nat
           /\ (before <=> after) => Cardinality(Waiting \cap Holding("allowed"))'
                                       = Cardinality(Waiting \cap Holding("allowed"))
           /\ ~before /\ after => Cardinality(Waiting \cap Holding("allowed"))'
                                     = Cardinality(Waiting \cap Holding("allowed")) + 1
           /\ before /\ ~after => Cardinality(Waiting \cap Holding("allowed"))'
                                     = Cardinality(Waiting \cap Holding("allowed")) - 1
<1> DEFINE S == Waiting \cap Holding("allowed")
           T == Waiting' \cap Holding("allowed")'
<1>1. S \in SUBSET Callers /\ T \in SUBSET Callers
  BY DEF Waiting
<1>2. (r \in S <=> before) /\ (r \in T <=> after)
  BY DEF Waiting, Holding, At
<1>3. \A s \in Callers : s # r => (s \in S <=> s \in T)
  BY DEF Waiting, Holding, At
<1> HIDE DEF S, T
<1>4. /\ Cardinality(S) \in Nat
      /\ (r \in S <=> r \in T) => T = S
      /\ r \notin S /\ r \in T => Cardinality(T) = Cardinality(S) + 1
      /\ r \in S /\ r \notin T => Cardinality(T) = Cardinality(S) - 1
  BY <1>1, <1>3, CallersMove
<1>5. QED
  BY <1>2, <1>4 DEF S, T

(* The same for the others that wait.                                      *)
LEMMA BlockedWait ==
    ASSUME NEW r \in Callers, \A s \in Callers : s # r => request'[s] = request[s],
           NEW before, before <=> request[r].at = "respond" /\ request[r].verdict # "allowed",
           NEW after, after <=> request'[r].at = "respond" /\ request'[r].verdict # "allowed"
    PROVE  /\ Cardinality(Waiting \ Holding("allowed")) \in Nat
           /\ (before <=> after) => Cardinality(Waiting \ Holding("allowed"))'
                                       = Cardinality(Waiting \ Holding("allowed"))
           /\ ~before /\ after => Cardinality(Waiting \ Holding("allowed"))'
                                     = Cardinality(Waiting \ Holding("allowed")) + 1
           /\ before /\ ~after => Cardinality(Waiting \ Holding("allowed"))'
                                     = Cardinality(Waiting \ Holding("allowed")) - 1
<1> DEFINE S == Waiting \ Holding("allowed")
           T == Waiting' \ Holding("allowed")'
<1>1. S \in SUBSET Callers /\ T \in SUBSET Callers
  BY DEF Waiting
<1>2. (r \in S <=> before) /\ (r \in T <=> after)
  BY DEF Waiting, Holding, At
<1>3. \A s \in Callers : s # r => (s \in S <=> s \in T)
  BY DEF Waiting, Holding, At
<1> HIDE DEF S, T
<1>4. /\ Cardinality(S) \in Nat
      /\ (r \in S <=> r \in T) => T = S
      /\ r \notin S /\ r \in T => Cardinality(T) = Cardinality(S) + 1
      /\ r \in S /\ r \notin T => Cardinality(T) = Cardinality(S) - 1
  BY <1>1, <1>3, CallersMove
<1>5. QED
  BY <1>2, <1>4 DEF S, T

(* A step of a request before it is observed.                              *)
LEMMA BeforeObserve ==
    ASSUME ServiceInv, NEW r \in Callers, AllowKey(r), ~Observe(r)
    PROVE  /\ request[r].at # "respond" /\ request'[r].at # "respond"
           /\ \A s \in Callers : s # r => request'[s] = request[s]
           /\ UNCHANGED events
<1>1. request \in [Callers -> {NoRequest} \cup Requests]
  BY DEF ServiceInv, ServiceTypeOK
<1>2. CASE InDriver(r)
  <2>1. PICK verdict \in Verdicts : Advances(r, verdict)
    BY <1>2, DriverAdvances
  <2>2. request[r] \in Requests /\ request[r].at = "driver"
    BY <1>1, <1>2 DEF InDriver, At, NoRequest
  <2>3. QED
    BY <1>1, <1>2, <2>1, <2>2 DEF Advances, Continues, Requests, InDriver
<1>3. ASSUME NEW answer \in Answers, LoadPolicy(r, answer)
      PROVE  /\ request[r].at # "respond" /\ request'[r].at # "respond"
             /\ \A s \in Callers : s # r => request'[s] = request[s]
             /\ UNCHANGED events
  BY <1>1, <1>3 DEF LoadPolicy, At
<1>4. CASE CallDriver(r)
  <2>1. request[r] \in Requests /\ request[r].at = "call"
    BY <1>1, <1>4 DEF CallDriver, At, NoRequest
  <2>2. QED
    BY <1>1, <1>4, <2>1 DEF CallDriver, Requests
<1>5. QED
  BY <1>2, <1>3, <1>4 DEF AllowKey

LEMMA EventsKept ==
    ASSUME EventsInv, ServiceInv', NEW r \in Callers, Answering(r), ~Observe(r)
    PROVE  EventsInv'
<1>1. /\ request[r].at # "respond" /\ request'[r].at # "respond"
      /\ \A s \in Callers : s # r => request'[s] = request[s]
      /\ UNCHANGED events
  BY BeforeObserve DEF Answering, EventsInv
<1>2. /\ ledger' \in Ledgers /\ ledger'.passed = ledger.passed
      /\ ledger'.refused = ledger.refused /\ ledger'.failedOpen = ledger.failedOpen
  BY DEF Answering, Entered, EventsInv, Ledgers
<1>3. /\ Waiting' \cap Holding("allowed")' = Waiting \cap Holding("allowed")
      /\ Waiting' \ Holding("allowed")' = Waiting \ Holding("allowed")
  BY <1>1 DEF Waiting, Holding, At
<1>4. QED
  BY <1>1, <1>2, <1>3 DEF EventsInv, ObservedOnce, Waiting

LEMMA EventsCounted ==
    ASSUME EventsInv, ServiceInv', NEW r \in Callers, Answering(r), Observe(r)
    PROVE  EventsInv'
<1> DEFINE status == IF request[r].verdict = "allowed" THEN "allowed" ELSE "blocked"
           A == Cardinality(Waiting \cap Holding("allowed"))
           B == Cardinality(Waiting \ Holding("allowed"))
<1>1. request[r] \in Requests /\ request[r].at = "observe"
  BY DEF Observe, At, NoRequest, EventsInv, ServiceInv, ServiceTypeOK
<1>2. /\ request'[r].at = "respond" /\ request'[r].verdict = request[r].verdict
      /\ \A s \in Callers : s # r => request'[s] = request[s]
  BY <1>1 DEF Observe, Requests, EventsInv, ServiceInv, ServiceTypeOK
<1>3. events' = [events EXCEPT ![status] = @ + 1] /\ UNCHANGED ledger
  BY DEF Observe, Answering
<1>4. /\ A \in Nat /\ B \in Nat
      /\ request[r].verdict = "allowed" => A' = A + 1 /\ B' = B
      /\ request[r].verdict # "allowed" => A' = A /\ B' = B + 1
  BY <1>1, <1>2, AllowedWait, BlockedWait
<1>5. QED
  BY <1>3, <1>4 DEF EventsInv, ObservedOnce, Waiting, Ledgers, Events

LEMMA EventsAnswered ==
    ASSUME EventsInv, ServiceInv', NEW r \in Callers, Responding(r)
    PROVE  EventsInv'
<1> DEFINE A == Cardinality(Waiting \cap Holding("allowed"))
           B == Cardinality(Waiting \ Holding("allowed"))
<1>1. request[r] \in Requests /\ request[r].at = "respond"
  BY DEF Responding, Serve, TurnAway, Finish, At, NoRequest, EventsInv, ServiceInv, ServiceTypeOK
<1>2. /\ request'[r].at = "none" /\ UNCHANGED events
      /\ \A s \in Callers : s # r => request'[s] = request[s]
  BY DEF Responding, Serve, TurnAway, Finish, NoRequest, EventsInv, ServiceInv, ServiceTypeOK
<1>3. /\ A \in Nat /\ B \in Nat
      /\ request[r].verdict = "allowed" => A' = A - 1 /\ B' = B
      /\ request[r].verdict # "allowed" => A' = A /\ B' = B - 1
  BY <1>1, <1>2, AllowedWait, BlockedWait
<1>4. CASE request[r].verdict = "allowed"
  <2>1. ledger' = [ledger EXCEPT !.passed = @ + 1]
    BY <1>4 DEF Responding, TurnAway, ServesRequest, Entered
  <2>2. QED
    BY <1>2, <1>3, <1>4, <2>1 DEF EventsInv, ObservedOnce, Waiting, Ledgers, Events
<1>5. CASE request[r].verdict # "allowed"
  <2>1. \/ ledger' = [ledger EXCEPT !.refused = @ + 1]
        \/ ledger' = [ledger EXCEPT !.failedOpen = @ + 1]
    BY <1>1, <1>5 DEF Responding, Serve, ServesRequest, Entered, Requests, Verdicts
  <2>2. QED
    BY <1>2, <1>3, <1>5, <2>1 DEF EventsInv, ObservedOnce, Waiting, Ledgers, Events
<1>6. QED
  BY <1>4, <1>5

LEMMA EventsStep == EventsInv /\ [HistoryNext]_shvars => EventsInv'
<1> SUFFICES ASSUME EventsInv, [HistoryNext]_shvars PROVE EventsInv'
  OBVIOUS
<1>1. ServiceInv'
  BY ServiceStep DEF EventsInv
<1>2. CASE UNCHANGED <<events, ledger, request>>
  <2>1. /\ Waiting' \cap Holding("allowed")' = Waiting \cap Holding("allowed")
        /\ Waiting' \ Holding("allowed")' = Waiting \ Holding("allowed")
    BY <1>2 DEF Waiting, Holding, At
  <2>2. QED
    BY <1>1, <1>2, <2>1 DEF EventsInv, ObservedOnce, Waiting
<1>3. UNCHANGED <<events, ledger, request>> \/ \E r \in Callers : Answering(r) \/ Responding(r)
  BY DEF HistoryNext, UpdatePolicy, Environment, limiterVars, shvars, lvars
<1>4. QED
  BY <1>1, <1>2, <1>3, EventsKept, EventsCounted, EventsAnswered

(* The observer sees every request once: what it counts as allowed has     *)
(* passed, and what it counts as blocked was turned away or let through    *)
(* because the limiter failed (distlimit.go:215-227).                      *)
THEOREM ObservedExactlyOnce == HistorySpec => []ObservedOnce
<1>1. EventsInv => ObservedOnce
  BY DEF EventsInv
<1>2. QED
  BY <1>1, EventsInit, EventsStep, PTL DEF HistorySpec
===============================================================================
