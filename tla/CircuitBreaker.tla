---------------------------- MODULE CircuitBreaker ----------------------------
\* The circuit breaker and the retry loop of internal/errors. Callers share one
\* breaker in front of one service; the calls of fn run outside its lock, so any
\* number of them are under way while its state changes. A retrying caller runs
\* fn itself, up to MaxRetries times after the first attempt. How long a wait
\* lasts is abstracted: only whether the reset timeout has passed is kept.
EXTENDS Naturals, Sequences

CONSTANTS Caller,        \* callers of Execute and ExecuteWithResult
          Retrier,       \* callers of Retry
          MaxFailures,   \* cb.maxFailures
          MaxRetries     \* cfg.MaxRetries

ASSUME CircuitAssumption == MaxFailures \in Nat /\ MaxRetries \in Nat

VARIABLES circuit,    \* cb.state, "closed", "open" or "halfOpen"
          failures,   \* cb.failures
          expired,    \* the last failure is longer ago than cb.resetTimeout
          call,       \* what each caller is doing, and its last answer
          healthy,    \* whether the service answers
          attempt,    \* what each retrying caller is doing
          tried       \* the outcomes of its attempts, oldest first

circuitVars == <<circuit, failures, expired, call, healthy, attempt, tried>>

CircuitInit ==
    /\ circuit = "closed" /\ failures = 0 /\ expired = FALSE
    /\ call = [c \in Caller |-> "idle"]
    /\ healthy \in BOOLEAN
    /\ attempt = [r \in Retrier |-> "idle"]
    /\ tried = [r \in Retrier |-> <<>>]

\* currentState: an open circuit is half open once its timeout has passed.
CurrentState == IF circuit = "open" /\ expired THEN "halfOpen" ELSE circuit

Calls == {"idle", "closed", "halfOpen", "answered", "refused", "failed"}

\* Execute and ExecuteWithResult up to fn: the state is read, and a half-open one
\* stored, under the lock. An open circuit answers at once, by an error or by the
\* fallback. (Before a new call the caller takes the last answer.)
Execute(c) ==
    /\ call[c] \notin {"closed", "halfOpen"}
    /\ IF CurrentState = "open"
       THEN call' = [call EXCEPT ![c] = "refused"] /\ UNCHANGED circuit
       ELSE call' = [call EXCEPT ![c] = CurrentState] /\ circuit' = CurrentState
    /\ UNCHANGED <<failures, expired, healthy, attempt, tried>>

\* A slip: the count is reset, the state is not.
RecordSuccessCount == failures' = 0 /\ UNCHANGED <<circuit, expired>>

RecordSuccess == failures' = 0 /\ circuit' = "closed" /\ UNCHANGED expired

\* The count is not reset when the circuit opens.
RecordFailure ==
    /\ failures' = failures + 1 /\ expired' = FALSE
    /\ circuit' = IF failures + 1 >= MaxFailures THEN "open" ELSE circuit

\* The failure of a call begun on a half-open circuit: opened again, not counted.
RecordProbeFailure == circuit' = "open" /\ expired' = FALSE /\ UNCHANGED failures

\* fn answers: what is recorded depends on the state the call began in, whatever
\* the other calls have recorded since.
Succeed(c) ==
    /\ call[c] \in {"closed", "halfOpen"} /\ healthy
    /\ RecordSuccess
    /\ call' = [call EXCEPT ![c] = "answered"]
    /\ UNCHANGED <<healthy, attempt, tried>>

Fail(c) ==
    /\ call[c] \in {"closed", "halfOpen"} /\ ~healthy
    /\ IF call[c] = "halfOpen" THEN RecordProbeFailure ELSE RecordFailure
    /\ call' = [call EXCEPT ![c] = "failed"]
    /\ UNCHANGED <<healthy, attempt, tried>>

\* The reset timeout passes.
Expire == circuit = "open" /\ ~expired /\ expired' = TRUE
          /\ UNCHANGED <<circuit, failures, call, healthy, attempt, tried>>

\* The service behind fn goes down or comes back.
Change == healthy' = ~healthy /\ UNCHANGED <<circuit, failures, expired, call, attempt, tried>>

\* Retry, and RetryWithResult for a function that returns a value: another attempt
\* is due while attempt <= cfg.MaxRetries.
StartRetry(r) ==
    /\ attempt[r] = "idle"
    /\ attempt' = [attempt EXCEPT ![r] = "check"]
    /\ UNCHANGED <<circuit, failures, expired, call, healthy, tried>>

\* The context is looked at before every attempt and while waiting.
CancelRetry(r) ==
    /\ attempt[r] \in {"check", "wait"}
    /\ attempt' = [attempt EXCEPT ![r] = "cancelled"]
    /\ UNCHANGED <<circuit, failures, expired, call, healthy, tried>>

\* A slip: one attempt too many.
AttemptOnceMore(r) ==
    /\ attempt[r] = "check"
    /\ tried' = [tried EXCEPT ![r] = Append(@, healthy)]
    /\ attempt' = [attempt EXCEPT ![r] =
           IF healthy THEN "done" ELSE IF Len(tried[r]) > MaxRetries THEN "gaveUp" ELSE "wait"]
    /\ UNCHANGED <<circuit, failures, expired, call, healthy>>

\* One attempt: success ends the loop, the last failure ends it without waiting.
Attempt(r) ==
    /\ attempt[r] = "check"
    /\ tried' = [tried EXCEPT ![r] = Append(@, healthy)]
    /\ attempt' = [attempt EXCEPT ![r] =
           IF healthy THEN "done" ELSE IF Len(tried[r]) >= MaxRetries THEN "gaveUp" ELSE "wait"]
    /\ UNCHANGED <<circuit, failures, expired, call, healthy>>

\* The delay has passed (it grows by Multiplier up to MaxDelay).
Waited(r) ==
    /\ attempt[r] = "wait"
    /\ attempt' = [attempt EXCEPT ![r] = "check"]
    /\ UNCHANGED <<circuit, failures, expired, call, healthy, tried>>

CircuitNext ==
    \/ \E c \in Caller : Execute(c) \/ Succeed(c) \/ Fail(c)
    \/ \E r \in Retrier : StartRetry(r) \/ CancelRetry(r) \/ Attempt(r) \/ Waited(r)
    \/ Expire \/ Change

CircuitSpec == CircuitInit /\ [][CircuitNext]_circuitVars

\* Callers keep calling and calls end; time passes.
CircuitFairness ==
    /\ \A c \in Caller : WF_circuitVars(Execute(c)) /\ WF_circuitVars(Succeed(c) \/ Fail(c))
    /\ WF_circuitVars(Expire)

-----------------------------------------------------------------------------

\* A service that stays up is served again for good, whatever probes were raced
\* and whichever late failures arrived (circuit.go:139-177): from some point on
\* the circuit is closed.
Recovers == <>[]healthy => <>[](circuit = "closed")

\* Retry is exact (retry.go:44-93): it reports success only when its last attempt
\* succeeded and no earlier one did, and gives up only after the first attempt and
\* all MaxRetries further ones have failed.
RetryIsExact ==
    \A r \in Retrier :
        /\ \A i \in 1..Len(tried[r]) : tried[r][i] => i = Len(tried[r]) /\ attempt[r] = "done"
        /\ attempt[r] = "done" => tried[r][Len(tried[r])]
        /\ attempt[r] = "gaveUp" => Len(tried[r]) = MaxRetries + 1
        /\ attempt[r] = "check" => Len(tried[r]) <= MaxRetries
=============================================================================
