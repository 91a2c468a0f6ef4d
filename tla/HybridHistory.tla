---------------------------- MODULE HybridHistory -----------------------------
(***************************************************************************)
(* The hybrid driver with history variables: what its documentation        *)
(* promises is about events (openings, failed probes, errors, resets) that *)
(* the driver's own state does not record.                                 *)
(***************************************************************************)
EXTENDS HybridDriver, Integers, FiniteSets

ASSUME FiniteCallers == IsFiniteSet(Callers)

VARIABLES
    sinceOpening,   \* age of the last opening of the breaker
    sinceProbeFail, \* age of the last error that the primary gave a probe
    newest,         \* age of the newest instant that lastFailUnix has held
    informed,       \* callers whose reading of lastFailUnix nothing makes doubtful
    trippers,       \* callers that are to report the opening they caused
    outages,        \* openings less the reports made by trippers
    delegated       \* calls of the fallback that were made, modulo CountMod

history == <<sinceOpening, sinceProbeFail, newest, informed, trippers, outages,
             delegated>>
hvars == <<vars, history>>

HistoryInit ==
    /\ Init
    /\ sinceOpening = Expired
    /\ sinceProbeFail = Expired
    /\ newest = Expired
    /\ informed = {}
    /\ trippers = {}
    /\ outages = 0
    /\ delegated = 0

Moves(g, from, to) == pc[g] = from /\ pc'[g] = to
Reaching(label) == {r \in Callers : pc[r] # label /\ pc'[r] = label}
Leaving(label) == {r \in Callers : pc[r] = label /\ pc'[r] # label}
Opens == ~isDown /\ isDown'
ProbeFails == \E r \in Callers : Moves(r, "probe", "probeNow")

(* An outage or a failed probe is over, its instant is not stored yet.     *)
StampDue ==
    \E r \in Callers : pc[r] \in {"tripNow", "tripStore", "probeNow", "probeStore"}

(* A request from its reading of lastFailUnix to its attempt to probe.     *)
Deciding == {"checkCoolOff", "casProbing"}

Since(age, event) ==
    IF event THEN 0 ELSE IF Tick THEN Older(age) ELSE age

(* Each history variable is a function of the driver's step.               *)
Record ==
    /\ sinceOpening' = Since(sinceOpening, Opens)
    /\ sinceProbeFail' = Since(sinceProbeFail, ProbeFails)
    /\ newest' = LET aged == Since(newest, FALSE)
                 IN  IF lastFail' < aged THEN lastFail' ELSE aged
    /\ informed' =
          LET reading == IF StampDue \/ lastFail # newest THEN {}
                         ELSE Leaving("loadLastFail")
          IN  IF Opens \/ ProbeFails THEN {}
              ELSE {r \in informed \cup reading : pc'[r] \in Deciding}
    /\ trippers' = (trippers \cup Reaching("tripNow")) \ Leaving("onError")
    /\ outages' = outages + (IF Opens THEN 1 ELSE 0)
                     - Cardinality(trippers \cap Leaving("onError"))
    /\ delegated' = (delegated + Cardinality(Leaving("fallback"))) % CountMod

HistoryNext == Next /\ Record

HistorySpec == HistoryInit /\ [][HistoryNext]_hvars

-------------------------------------------------------------------------------
BeginsProbe(r) == Moves(r, "casProbing", "probe")

(* Where CoolOffRespected fails, one of three things happened to the prober:*)
(* it read lastFailUnix while the instant of an opening or of a failed     *)
(* probe was still to be stored (hybrid.go:93, 111), it read an instant    *)
(* that a slow store had put over a newer one, or the breaker opened or a  *)
(* probe failed after it had read.  All other callers, however they        *)
(* interleave, wait for the cool-off from the last opening and from the    *)
(* last failed probe (hybrid.go:78-94, 110-111).                           *)
InformedProbesWait ==
    [][\A r \in informed : BeginsProbe(r) =>
          sinceOpening = Expired /\ sinceProbeFail = Expired]_hvars

(* Each opening of the breaker is reported by onError once and by one      *)
(* caller, however many calls fail together and however openings and       *)
(* closings overlap (hybrid.go:110-115).                                   *)
OneReportPerOutage == outages = Cardinality(trippers)

(* FallbackCount is the number of calls delegated to the fallback, those   *)
(* under way included, also when the counter wraps (hybrid.go:102-118,     *)
(* 129-132).                                                               *)
FallbackAccounting ==
    LET underWay == {r \in Callers : pc[r] = "fallback"}
    IN  fallbackCount = (delegated + Cardinality(underWay)) % CountMod

(* hybrid.go:71-73 and 92: a probe begins only after the cool-off duration,*)
(* counted from the opening of the breaker and again from each failed      *)
(* probe.                                                                  *)
CoolOffRespected ==
    [][\A r \in Callers : BeginsProbe(r) =>
          sinceOpening = Expired /\ sinceProbeFail = Expired]_hvars
===============================================================================
