------------------------------- MODULE Retry -------------------------------
(***************************************************************************)
(* internal/pkg/retry: DoWithRetry calls a function again while its error  *)
(* counts as temporary and attempts are left.  The pauses between attempts *)
(* only take time; what a caller holds (a mutex, a worker) it keeps.       *)
(*                                                                         *)
(* An error is described by what the three predicates can see of it: the   *)
(* types errors.As finds in its chain, net.Error's Timeout, and the part   *)
(* of its text or code they look for.                                      *)
(***************************************************************************)
EXTENDS Naturals

CONSTANT Backoffs      \* len(backoffIntervals): 3 in the source

ASSUME BackoffsAssumption == Backoffs \in Nat

Errors == [is      : SUBSET {"net.Error", "pgconn.PgError", "os.PathError"},
           timeout : BOOLEAN,
           says    : {"connection refused", "connection reset",
                      "network is unreachable", "busy", "temporarily",
                      "08", "other"}]

IsRetriableNetError(e) ==
  /\ "net.Error" \in e.is
  /\ \/ e.timeout
     \/ e.says \in {"connection refused", "connection reset",
                    "network is unreachable"}

IsRetriablePGError(e) == "pgconn.PgError" \in e.is /\ e.says = "08"

IsRetriableFileError(e) ==
  "os.PathError" \in e.is /\ e.says \in {"busy", "temporarily"}

Retriable(e) == \/ IsRetriableNetError(e)
                \/ IsRetriablePGError(e)
                \/ IsRetriableFileError(e)

\* Faulty variant: one attempt too many.
ShouldRetryOnceMore(e, i) == Retriable(e) /\ i <= Backoffs

\* DoWithRetry, after attempt number i (from 0) returned the error e: is
\* there another attempt?  Otherwise e is what DoWithRetry returns.
ShouldRetry(e, i) == Retriable(e) /\ i < Backoffs
=============================================================================
