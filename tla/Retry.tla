-------------------------------- MODULE Retry --------------------------------
(***************************************************************************)
(* Retries of an export, exporter/retry/retry.go, with the retryable       *)
(* errors of exporter/otlp/options.go. RequestFunc makes one backoff and   *)
(* resets it then and there; every call of the function it returns shares  *)
(* it. The backoff counts its elapsed time from that reset.                *)
(*                                                                         *)
(* Time is a counter of ticks since RequestFunc was called, MaxTime bounds *)
(* it. The delay of the library is random between half of and one and a    *)
(* half times its interval, which grows up to MaxInterval.                 *)
(***************************************************************************)
EXTENDS Naturals

CONSTANTS Exports,             \* the exports
          RetryEnabled,
          InitialInterval, MaxInterval, MaxElapsedTime,
          Throttles,         \* RetryInfo delays of the collector, 0 for none
          MaxTime

ASSUME RetryAssumption ==
    /\ InitialInterval \in Nat /\ MaxInterval \in Nat /\ InitialInterval <= MaxInterval
    /\ MaxElapsedTime \in Nat /\ MaxTime \in Nat /\ Throttles \subseteq Nat

VARIABLES now,               \* ticks since RequestFunc
          interval,          \* currentInterval of the shared backoff
          call,              \* call[c]: "idle", "try", "wait", "ok", "failed"
          wake,              \* when the wait of c ends
          tried              \* tried[c]: when its last attempt but the first began, 0 for none

retryVars == <<now, interval, call, wake, tried>>

RequestFunc ==
    /\ now = 0 /\ interval = InitialInterval
    /\ call = [c \in Exports |-> "idle"]
    /\ wake = [c \in Exports |-> 0] /\ tried = [c \in Exports |-> 0]

\* The gRPC codes that may be retried; a RetryInfo detail carries the throttle delay.
RetryableCodes == {"Canceled", "DeadlineExceeded", "ResourceExhausted", "Aborted",
                   "OutOfRange", "Unavailable", "DataLoss"}
OtherCodes == {"Internal"}
retryable(code) == code \in RetryableCodes

Begin(c) ==
    /\ call[c] = "idle"
    /\ call' = [call EXCEPT ![c] = "try"]
    /\ UNCHANGED <<now, interval, wake, tried>>

Tick == now < MaxTime /\ now' = now + 1 /\ UNCHANGED <<interval, call, wake, tried>>

Succeed(c) ==
    /\ call[c] = "try"
    /\ call' = [call EXCEPT ![c] = "ok"]
    /\ UNCHANGED <<now, interval, wake, tried>>

\* NextBackOff: the delay, or stop when the time since the reset does not allow it.
Longest(a, b) == IF a > b THEN a ELSE b
Shortest(a, b) == IF a < b THEN a ELSE b
Delays == (interval \div 2)..(interval + interval \div 2)
grown == Shortest(MaxInterval, interval + (interval \div 2))

Over(delay) == MaxElapsedTime # 0 /\ now + delay > MaxElapsedTime
\* Mutant: the throttle delay is not checked against the time left.
OverWithoutThrottle(delay, throttle) == Over(delay)
Elapsed(delay, throttle) == Over(delay) \/ (throttle >= delay /\ Over(throttle))

\* An attempt fails: without retries, with another error, or with no time left the
\* error is returned; otherwise the longer of both delays begins.
Fail(c) ==
    /\ call[c] = "try"
    /\ \E code \in RetryableCodes \cup OtherCodes, throttle \in Throttles, delay \in Delays :
          IF ~RetryEnabled \/ ~retryable(code)
          THEN call' = [call EXCEPT ![c] = "failed"] /\ UNCHANGED <<interval, wake>>
          ELSE /\ interval' = grown
               /\ IF Elapsed(delay, throttle)
                  THEN call' = [call EXCEPT ![c] = "failed"] /\ UNCHANGED wake
                  ELSE /\ call' = [call EXCEPT ![c] = "wait"]
                       /\ wake' = [wake EXCEPT ![c] = now + Longest(delay, throttle)]
    /\ UNCHANGED <<now, tried>>

\* wait: the timer has expired, even if the context ended too.
Again(c) ==
    /\ call[c] = "wait" /\ now >= wake[c]
    /\ call' = [call EXCEPT ![c] = "try"]
    /\ tried' = [tried EXCEPT ![c] = now]
    /\ UNCHANGED <<now, interval, wake>>

\* wait: the context of the export ends first.
Cancelled(c) ==
    /\ call[c] = "wait" /\ now < wake[c]
    /\ call' = [call EXCEPT ![c] = "failed"]
    /\ UNCHANGED <<now, interval, wake, tried>>

\* The clock does not pass a wait that has ended: goroutines run at once.
RetryNext ==
    \/ (\A c \in Exports : call[c] = "wait" => now < wake[c]) /\ Tick
    \/ \E c \in Exports : Begin(c) \/ Succeed(c) \/ Fail(c) \/ Again(c) \/ Cancelled(c)

-----------------------------------------------------------------------------
RetryTypeOK ==
    /\ now \in 0..MaxTime /\ interval \in InitialInterval..MaxInterval
    /\ call \in [Exports -> {"idle", "try", "wait", "ok", "failed"}]
    /\ wake \in [Exports -> Nat] /\ tried \in [Exports -> 0..MaxTime]

\* The backoff is shared and never reset, so nothing is tried again once the time
\* budget, counted from the making of the exporter, is spent, whatever delay the
\* collector asks for (retry.go:87, 101-115).
RetriesWithinBudget ==
    MaxElapsedTime # 0 => \A c \in Exports : tried[c] <= MaxElapsedTime
=============================================================================
