--------------------------------- MODULE Quota --------------------------------
(***************************************************************************)
(* The quota that each strategy documents, as a function of nothing but a  *)
(* log: the instants of the requests admitted so far, in the order of their*)
(* admission.  The README and the package comments state them.             *)
(***************************************************************************)
EXTENDS Algorithm, FiniteSets

AdmittedIn(log, from, to) ==
    Cardinality({i \in DOMAIN log : log[i] \in from .. to})

(* At most limit requests in each aligned window.                          *)
FixedWindowAdmits(log, now, limit, window) ==
    AdmittedIn(log, Truncate(now, window), now) < limit

(* The requests of the previous window count by the share of it that the   *)
(* sliding window still covers.                                            *)
SlidingCounterAdmits(log, now, limit, window) ==
    LET boundary == Truncate(now, window)
        share == window - (now - boundary)
        previous == AdmittedIn(log, boundary - window, boundary - 1)
    IN  (previous * share) \div window + AdmittedIn(log, boundary, now) < limit

(* At most limit requests in the window that ends now, in whole ms.        *)
SlidingLogAdmits(log, now, limit, window) ==
    LET firstMs == now \div Milli - window \div Milli + 1
    IN  AdmittedIn(log, firstMs * Milli, now) < limit

(* The latest instant among the first i admissions.                        *)
LatestBy(log, i) ==
    CHOOSE t \in {log[j] : j \in 1 .. i} : \A j \in 1 .. i : log[j] <= t

(* Both buckets: the admissions from the i-th on fit into a full bucket and*)
(* what the rate has added since; extra more would fit too.                *)
WithinRate(log, now, limit, window, extra) ==
    \A i \in DOMAIN log :
        (Len(log) - i + 1 + extra) * window <= limit * (window + now - LatestBy(log, i))

Buckets == {"token_bucket", "leaky_bucket"}

QuotaAdmits(strategy, log, now, limit, window) ==
    CASE strategy = "fixed_window" -> FixedWindowAdmits(log, now, limit, window)
      [] strategy = "sliding_counter" -> SlidingCounterAdmits(log, now, limit, window)
      [] strategy = "sliding_log" -> SlidingLogAdmits(log, now, limit, window)
      [] strategy \in Buckets -> WithinRate(log, now, limit, window, 1)
===============================================================================
