-------------------------- MODULE CapabilityCalls --------------------------
(***************************************************************************)
(* ProviderAdapter of dnc.capabilities.adapters: calls made by several     *)
(* threads share one circuit breaker and one rate limiter, neither of      *)
(* which takes a lock.  An attempt runs in a worker of its own; a caller   *)
(* that gives up at its deadline leaves the worker behind, and the answer  *)
(* it may still give goes to a queue nobody reads.                         *)
(*                                                                         *)
(* A thread may be switched out at every call it makes.  The provider is   *)
(* external: it answers an attempt with a sound result, a result that      *)
(* fails the schema, a failure or an exception, or never.                  *)
(***************************************************************************)
EXTENDS Integers, FiniteSets, Sequences

CONSTANTS
  Calls,        \* calls of execute, one thread each
  Bounded,      \* calls with a timeout_ms
  Featured,     \* calls whose features the card offers
  Supported,    \* calls whose action the provider supports
  MaxRetries,   \* request.max_retries
  Threshold,    \* failure_threshold
  Recovery,     \* recovery_timeout_ms, in ticks
  PerMinute,    \* requests_per_minute
  Minute,       \* sixty seconds, in ticks
  Never,        \* None
  MaxCallTime   \* bound: of the clock

ASSUME CallConstants ==
  /\ Bounded \cup Featured \cup Supported \subseteq Calls
  /\ MaxRetries \in Nat /\ {Threshold, Recovery, PerMinute, Minute} \subseteq Nat \ {0}
  /\ Never \notin Nat

VARIABLES
  call,        \* call[c]: where it is, its attempts and the error code it returned
  cancelled,   \* calls whose token is cancelled
  failures,    \* breaker.consecutive_failures
  opened,      \* breaker.opened_at_ns
  limiter,     \* rate_limiter: the window's start and its requests
  orphans,     \* attempts whose caller has stopped waiting
  callClock    \* time.monotonic_ns()

callVars == <<call, cancelled, failures, opened, limiter, orphans, callClock>>
breaker == <<failures, opened>>

Codes == {"SUCCESS", "CANCELLED", "CIRCUIT_OPEN", "RATE_LIMITED", "UNSUPPORTED_FEATURE",
          "UNSUPPORTED_ACTION", "TIMEOUT", "INVALID_STRUCTURED_OUTPUT", "PROVIDER_ERROR"}
AdapterAnswers == {"sound", "unsound", "failure", "exception"}
Retry == "attempt"

CallsInit ==
  /\ call = [c \in Calls |-> [at |-> "entry", next |-> Retry, attempts |-> 0,
                              code |-> Never, late |-> FALSE]]
  /\ cancelled = {}
  /\ failures = 0
  /\ opened = Never
  /\ limiter = [since |-> 0, requests |-> 0]
  /\ orphans = {}
  /\ callClock = 0

----------------------------------------------------------------------------
GoTo(c, at) == call' = [call EXCEPT ![c].at = at]

Respond(c, code) == call' = [call EXCEPT ![c].at = "returned", ![c].code = code]

\* To the top of the retry loop, or out with a response.
ResumeCall(c, next) == IF next = Retry THEN GoTo(c, Retry) ELSE Respond(c, next)

RecordSuccess == failures' = 0 /\ opened' = Never

\* record_failure reads the clock, a call, between counting and opening.
RecordFailure(c, next) ==
  /\ failures' = failures + 1
  /\ IF failures + 1 >= Threshold
     THEN call' = [call EXCEPT ![c].at = "opening", ![c].next = next]
     ELSE ResumeCall(c, next)
  /\ UNCHANGED opened

OpenCircuit(c) ==
  /\ call[c].at = "opening"
  /\ opened' = callClock
  /\ ResumeCall(c, call[c].next)
  /\ UNCHANGED <<cancelled, failures, limiter, orphans, callClock>>

\* The checks that come before the breaker.
EnterCall(c) ==
  /\ call[c].at = "entry"
  /\ IF c \notin Featured THEN Respond(c, "UNSUPPORTED_FEATURE")
     ELSE IF c \in cancelled THEN Respond(c, "CANCELLED")
     ELSE GoTo(c, "breaker")
  /\ UNCHANGED <<cancelled, breaker, limiter, orphans, callClock>>

AllowAnyTime(c) ==
  /\ call[c].at = "breaker"
  /\ failures' = 0 /\ opened' = Never /\ GoTo(c, "limiter")
  /\ UNCHANGED <<cancelled, limiter, orphans, callClock>>

Allow(c) ==
  /\ call[c].at = "breaker"
  /\ \/ opened = Never /\ GoTo(c, "limiter") /\ UNCHANGED breaker
     \/ /\ opened # Never /\ callClock - opened >= Recovery
        /\ failures' = 0 /\ opened' = Never /\ GoTo(c, "limiter")
     \/ /\ opened # Never /\ callClock - opened < Recovery
        /\ Respond(c, "CIRCUIT_OPEN") /\ UNCHANGED breaker
  /\ UNCHANGED <<cancelled, limiter, orphans, callClock>>

CurrentWindow == IF callClock - limiter.since >= Minute
                 THEN [since |-> callClock, requests |-> 0] ELSE limiter

\* A call for an action the provider lacks has spent its token.
Acquire(c) ==
  /\ call[c].at = "limiter"
  /\ IF CurrentWindow.requests >= PerMinute
     THEN limiter' = CurrentWindow /\ Respond(c, "RATE_LIMITED")
     ELSE /\ limiter' = [CurrentWindow EXCEPT !.requests = @ + 1]
          /\ IF c \in Supported THEN GoTo(c, Retry) ELSE Respond(c, "UNSUPPORTED_ACTION")
  /\ UNCHANGED <<cancelled, breaker, orphans, callClock>>

Started(c, at, code) == [call[c] EXCEPT !.at = at, !.code = code, !.attempts = @ + 1]

\* The top of the retry loop: the worker is started, or the retries are spent.
Attempt(c) ==
  /\ call[c].at = Retry
  /\ IF call[c].attempts > MaxRetries THEN Respond(c, "PROVIDER_ERROR")
     ELSE call' = [call EXCEPT ![c] = IF c \in cancelled THEN Started(c, "returned", "CANCELLED")
                                      ELSE Started(c, "waiting", Never)]
  /\ UNCHANGED <<cancelled, breaker, limiter, orphans, callClock>>

\* The worker's answer reaches the caller that waits for it.
Answered(c, answer) ==
  /\ call[c].at = "waiting"
  /\ IF answer = "exception" THEN RecordFailure(c, Retry)
     ELSE IF c \in cancelled THEN Respond(c, "CANCELLED") /\ UNCHANGED breaker
     ELSE IF answer = "sound" THEN RecordSuccess /\ Respond(c, "SUCCESS")
     ELSE IF answer = "unsound" THEN RecordFailure(c, "INVALID_STRUCTURED_OUTPUT")
     ELSE RecordFailure(c, Retry)
  /\ UNCHANGED <<cancelled, limiter, orphans, callClock>>

DeadlineOnRetries(c) ==
  /\ call[c].at = "waiting"
  /\ c \in Bounded /\ call[c].attempts > 1
  /\ RecordFailure(c, "TIMEOUT")
  /\ orphans' = orphans \cup {c}
  /\ UNCHANGED <<cancelled, limiter, callClock>>

\* The deadline passes: the call ends without another attempt, the worker
\* goes on.
Deadline(c) ==
  /\ call[c].at = "waiting"
  /\ c \in Bounded
  /\ RecordFailure(c, "TIMEOUT")
  /\ orphans' = orphans \cup {c}
  /\ UNCHANGED <<cancelled, limiter, callClock>>

\* An abandoned worker answers: its queue is garbage.
LateAnswer(c) ==
  /\ c \in orphans
  /\ orphans' = orphans \ {c}
  /\ call' = [call EXCEPT ![c].late = TRUE]
  /\ UNCHANGED <<cancelled, breaker, limiter, callClock>>

\* CancellationToken.cancel, by another thread.
CancelCall(c) ==
  /\ c \notin cancelled
  /\ cancelled' = cancelled \cup {c}
  /\ UNCHANGED <<call, breaker, limiter, orphans, callClock>>

CallTick ==
  /\ callClock < MaxCallTime
  /\ callClock' = callClock + 1
  /\ UNCHANGED <<call, cancelled, breaker, limiter, orphans>>

\* The steps of a thread; the provider need not answer.
ThreadStep(c) ==
  EnterCall(c) \/ Allow(c) \/ Acquire(c) \/ Attempt(c) \/ Deadline(c) \/ OpenCircuit(c)

CallsNext ==
  \/ \E c \in Calls : \/ ThreadStep(c) \/ LateAnswer(c) \/ CancelCall(c)
                      \/ \E answer \in AdapterAnswers : Answered(c, answer)
  \/ CallTick

CallsFairness == \A c \in Calls : WF_callVars(ThreadStep(c))

CallsSpec == CallsInit /\ [][CallsNext]_callVars /\ CallsFairness

----------------------------------------------------------------------------
(* Properties *)

CallRecord ==
  [at : {"entry", "breaker", "limiter", Retry, "waiting", "opening", "returned"},
   next : Codes \cup {Retry}, attempts : 0 .. MaxRetries + 1, code : Codes \cup {Never},
   late : BOOLEAN]

CallsTypeOK ==
  /\ call \in [Calls -> CallRecord]
  /\ failures \in Nat /\ opened \in Nat \cup {Never}
  /\ orphans \cup cancelled \subseteq Calls

\* An open circuit closes only for a reason: the recovery time has passed, or
\* a call that was let in before it opened has succeeded.
OpenUntilRecovered ==
  [][opened # Never /\ opened' = Never =>
       \/ callClock - opened >= Recovery
       \/ \E c \in Calls : call[c].at = "waiting" /\ call'[c].code = "SUCCESS"]_callVars

\* A response is final, and "never promotes partial output": an answer that
\* comes after the deadline or after a cancellation was noticed changes no
\* response, whatever the worker left behind does.
ResponsesFinal ==
  [][\A c \in Calls : call[c].at = "returned" =>
       call'[c].code = call[c].code /\ call'[c].at = "returned"]_callVars

\* A call with a deadline that is under way returns, whatever the provider, the
\* breaker and the other calls do.
BoundedCallsReturn ==
  \A c \in Calls : (c \in Bounded /\ call[c].at # "entry") ~> call[c].at = "returned"

\* Between threads that share one adapter: an open circuit closes only after
\* the recovery time or for a success that was already under way, and what a
\* call has returned stands, whatever its abandoned attempts answer later.
CallsSafety == []CallsTypeOK /\ OpenUntilRecovered /\ ResponsesFinal
============================================================================
