----------------------------- MODULE RedisHistory ----------------------------
(***************************************************************************)
(* The Redis driver with the history of what its scripts admitted, against *)
(* the quota that the strategy documents.                                  *)
(***************************************************************************)
EXTENDS RedisDriver, Quota

VARIABLES
    admitted,       \* readings of the requests admitted on a key since a reset
    horizon,        \* the latest reading that a key has seen
    orderly,        \* its requests ran in the order of their readings and on time
    lastGrant,      \* Redis' clock at the last admission on a key
    rewound         \* by how much the readings of a bucket's requests went back

history == <<admitted, horizon, orderly, lastGrant, rewound>>
hvars == <<vars, history>>

HistoryInit ==
    /\ Init
    /\ admitted = [key \in Keys |-> <<>>]
    /\ horizon = [key \in Keys |-> NoTime]
    /\ orderly = [key \in Keys |-> TRUE]
    /\ lastGrant = [key \in Keys |-> NoTime]
    /\ rewound = [key \in Keys |-> 0]

(* A request is on time when it runs within a millisecond of its reading.  *)
OnTime(key, now) == now >= horizon[key] /\ clock - now \in 0 .. 1

(* The script of a call under way runs.                                    *)
Ran(r) ==
    LET key == call[r].key
        now == call[r].now
        allowed == Outcome(r).reply.allowed
    IN  /\ admitted' = IF allowed THEN [admitted EXCEPT ![key] = Append(@, now)]
                       ELSE admitted
        /\ horizon' = [horizon EXCEPT ![key] = IF now > @ THEN now ELSE @]
        /\ orderly' = [orderly EXCEPT ![key] = @ /\ OnTime(key, now)]
        /\ lastGrant' = IF allowed THEN [lastGrant EXCEPT ![key] = clock] ELSE lastGrant
        /\ rewound' = IF strategy \in Buckets /\ Plain(key) \in DOMAIN db
                      THEN [rewound EXCEPT ![key] =
                               @ + NonNegative(db[Plain(key)].value.lastUpdated - now)]
                      ELSE rewound

(* The counters of the fixed window survive a reset.                       *)
Cleared(key) ==
    /\ admitted' = [admitted EXCEPT ![key] = <<>>]
    /\ orderly' = [orderly EXCEPT ![key] = @ /\ strategy # "fixed_window"]
    /\ rewound' = [rewound EXCEPT ![key] = 0]
    /\ UNCHANGED <<horizon, lastGrant>>

HistoryNext ==
    \/ \E r \in Callers, key \in Keys, policy \in Policies, error \in ClockErrors :
          Send(r, key, policy, error) /\ UNCHANGED history
    \/ \E r \in Callers : (Execute(r) \/ Repeat(r)) /\ Ran(r)
    \/ \E r \in Callers : Lose(r) /\ UNCHANGED history
    \/ \E key \in Keys : Reset(key) /\ Cleared(key)
    \/ Tick /\ UNCHANGED history

HistorySpec == HistoryInit /\ [][HistoryNext]_hvars

-------------------------------------------------------------------------------
(* As long as the requests of a key run in the order of their readings and *)
(* on time, the next one is admitted exactly when the documented quota has *)
(* room for it: whatever Redis has expired, however often an answer was    *)
(* lost and its request repeated, and although Redis never sees a window   *)
(* end (the five RedisScript functions).                                   *)
VerdictIsQuota ==
    \A key \in Keys, policy \in Policies, now \in {clock - 1, clock} :
        orderly[key] /\ OnTime(key, now) =>
            (Script(db, clock, key, policy, now).reply.allowed
                <=> QuotaAdmits(strategy, admitted[key], now, policy.limit,
                                WindowMs(policy.window)))

(* The sliding counter still counts the whole previous window at ResetIn.  *)
Grace == IF strategy = "sliding_counter" THEN 1 ELSE 0

(* ResetIn tells the truth: a caller that was refused, waits for ResetIn   *)
(* and finds no other request in between, nor one that a faster clock has  *)
(* put there before, is admitted (interface.go:14).                        *)
RetryIsAdmitted ==
    \A key \in Keys, policy \in Policies, error \in ClockErrors :
        LET reply == Verdict(key, policy, error).reply
        IN  clock + error >= horizon[key] /\ ~reply.allowed
                => FollowUp(key, policy, error, reply.resetMs + Grace).allowed

(* The sorted set of the sliding log loses no admission, however far apart *)
(* the clocks of the callers are and in whatever order their requests run  *)
(* (slidinglog.go:86-87: "unique member elements under high concurrency"). *)
LogIsComplete ==
    strategy = "sliding_log" =>
        \A key \in Keys, policy \in Policies :
            LET latest == IF horizon[key] > clock THEN horizon[key] ELSE clock
                cutoff == latest - WindowMs(policy.window)
                log == Get(db, Plain(key), {})
            IN  Cardinality(SL!Newer(log, cutoff))
                    = AdmittedIn(admitted[key], cutoff + 1, latest)

(* How long the admissions that can cause a refusal may lie back: those of *)
(* the window, for the sliding counter of the previous one too, and what   *)
(* clocks and delays add.                                                  *)
Reach(window) ==
    LET windows == IF strategy = "sliding_counter" THEN 2 ELSE 1
        skew == {a - b : a \in ClockErrors, b \in ClockErrors}
    IN  windows * window + MaxDelay + (CHOOSE d \in skew : \A e \in skew : e <= d)

(* Nobody is locked out: a request is refused only because others were     *)
(* admitted on its key not long before (slidingcounter.go:3-4: "weighted   *)
(* moving average of the current and previous window counters").           *)
Refused(r) == (Execute(r) \/ Repeat(r)) /\ ~Outcome(r).reply.allowed

RefusalHasCause ==
    [][\A r \in Callers :
          Refused(r) =>
              LET key == call[r].key
              IN  /\ lastGrant[key] # NoTime
                  /\ clock - lastGrant[key] <= Reach(WindowMs(call[r].policy.window))]_hvars

(* However the requests overlap and whatever clocks their callers have, a  *)
(* bucket never admits more than its capacity and what the rate adds in the*)
(* time that passes by the readings, a stretch that they go back over and  *)
(* cover again counted each time (tokenbucket.go:97-99, leakybucket.go:    *)
(* 99-101).                                                                *)
BucketBound ==
    strategy \in Buckets =>
        \A key \in Keys, policy \in Policies :
            WithinRate(admitted[key], horizon[key] + rewound[key], policy.limit,
                       WindowMs(policy.window), 0)

(* A reset gives the key its whole quota back (distlimit.go:46: "Reset     *)
(* clears the rate limit state entry for the specified key").              *)
ResetClears ==
    [][\A key \in Keys, policy \in Policies :
          Reset(key) => Script(db', clock', key, policy, clock).reply.allowed]_hvars
===============================================================================
