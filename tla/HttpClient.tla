---- MODULE HttpClient ----
(***************************************************************************)
(* ResilientHttpClient (services/http.py): tasks of one event loop share a *)
(* client, its pacing lock and its circuit breaker, which main.py builds   *)
(* once for every provider.  A provider's answers are external.            *)
(*                                                                         *)
(* Times are remaining quarter seconds, counted down by Tick; a sleeping   *)
(* task may be woken late.  The breaker's own lock is never held across an *)
(* await, so its operations are atomic.                                    *)
(***************************************************************************)
EXTENDS Integers, Sequences

CONSTANTS Tasks,
          Threshold, Reset,  \* failure_threshold, reset_seconds
          MaxRetries, Interval,
          RetryAfters,       \* delays a Retry-After header may ask for
          None

ASSUME HttpAssumption ==
    /\ Threshold \in Nat \ {0} /\ Reset \in Nat \ {0}
    /\ MaxRetries \in Nat /\ Interval \in Nat
    /\ RetryAfters \subseteq Int
    /\ None \notin Int \cup Tasks

VARIABLES failures,  \* _failures
          opened,    \* time since _opened_at, up to Reset
          nextIn,    \* time left until _next_request_at
          holder,    \* the task that holds _rate_lock
          queue,     \* the tasks waiting for it
          pc,        \* where each task is in request_json
          attempt,
          header,    \* Retry-After of the last response
          wake       \* time left of its sleep

circuit == <<failures, opened>>
pacing == <<nextIn, holder, queue>>
local == <<pc, attempt, header, wake>>
vars == <<circuit, pacing, local>>

Goto(p, label) == pc' = [pc EXCEPT ![p] = label]

(* request_json returns or raises.                                         *)
EndRequest(p) ==
    /\ Goto(p, "idle")
    /\ attempt' = [attempt EXCEPT ![p] = 0]
    /\ header' = [header EXCEPT ![p] = None]
    /\ wake' = [wake EXCEPT ![p] = 0]

Init ==
    /\ failures = 0 /\ opened = None
    /\ nextIn = 0 /\ holder = None /\ queue = << >>
    /\ pc = [p \in Tasks |-> "idle"]
    /\ attempt = [p \in Tasks |-> 0]
    /\ header = [p \in Tasks |-> None]
    /\ wake = [p \in Tasks |-> 0]

-----------------------------------------------------------------------------
(* The circuit breaker                                                     *)

(* Faulty: only the opening time is cleared.                               *)
Closed == opened' = None /\ UNCHANGED failures

ResetCircuit == failures' = 0 /\ opened' = None

(* record_failure.                                                         *)
RecordFailure ==
    /\ failures' = failures + 1
    /\ opened' = IF failures + 1 >= Threshold THEN 0 ELSE opened

(* Faulty: a refusal opens the circuit again.                              *)
RefuseAndReopen == opened' = 0 /\ UNCHANGED failures

Refuse == UNCHANGED circuit

(* before_request refuses, or lets the request through.                    *)
Start(p) ==
    /\ pc[p] = "idle"
    /\ \/ /\ opened \notin {None, Reset}
          /\ Refuse
          /\ Goto(p, "refused") /\ UNCHANGED queue
       \/ /\ opened \in {None, Reset}
          /\ IF opened = Reset THEN ResetCircuit ELSE UNCHANGED circuit
          /\ Goto(p, "pace") /\ queue' = Append(queue, p)
    /\ UNCHANGED <<nextIn, holder, attempt, header, wake>>

(* The refused caller sees ProviderUnavailable.                            *)
Raise(p) ==
    /\ pc[p] = "refused"
    /\ EndRequest(p)
    /\ UNCHANGED <<circuit, pacing>>

-----------------------------------------------------------------------------
(* _pace                                                                   *)

(* Faulty: the lock is released while its holder sleeps.                   *)
AlwaysFree == TRUE

LockFree == holder = None

(* The longest waiting task takes the lock and sleeps until the next       *)
(* request may go.                                                         *)
TakeLock(p) ==
    /\ pc[p] = "pace" /\ LockFree
    /\ queue # << >> /\ Head(queue) = p
    /\ holder' = p /\ queue' = Tail(queue)
    /\ wake' = [wake EXCEPT ![p] = nextIn]
    /\ Goto(p, "pacing")
    /\ UNCHANGED <<circuit, nextIn, attempt, header>>

(* The lock is released and the request goes out.                          *)
Send(p) ==
    /\ pc[p] = "pacing" /\ wake[p] = 0
    /\ nextIn' = Interval
    /\ holder' = None
    /\ Goto(p, "sent")
    /\ UNCHANGED <<circuit, queue, attempt, header, wake>>

-----------------------------------------------------------------------------
(* The answer                                                              *)

(* From a quarter of a second, doubled up to eight seconds.                *)
Backoff(n) == IF n < 5 THEN <<1, 2, 4, 8, 16>>[n + 1] ELSE 32

(* Faulty: the header's delay is slept as it is.                           *)
AsAsked(n, after) == IF after = None THEN Backoff(n) ELSE after

RetryDelay(n, after) ==
    IF after = None THEN Backoff(n) ELSE IF after < 0 THEN 0 ELSE after

(* Another attempt, or the failure is recorded and raised.                 *)
TryAgain(p, after) ==
    /\ UNCHANGED pacing
    /\ \/ /\ attempt[p] < MaxRetries
          /\ wake' = [wake EXCEPT ![p] = RetryDelay(attempt[p], after)]
          /\ header' = [header EXCEPT ![p] = after]
          /\ Goto(p, "backoff")
          /\ UNCHANGED <<circuit, attempt>>
       \/ attempt[p] >= MaxRetries /\ RecordFailure /\ EndRequest(p)

Succeed(p) ==
    /\ pc[p] = "sent"
    /\ ResetCircuit /\ EndRequest(p) /\ UNCHANGED pacing

(* 429 or 5xx, with or without a Retry-After header.                       *)
Unavailable(p) ==
    /\ pc[p] = "sent"
    /\ \E after \in RetryAfters \cup {None} : TryAgain(p, after)

(* A timeout or network error: the response is the one of the attempt      *)
(* before, if there was one.                                               *)
Lost(p) == pc[p] = "sent" /\ TryAgain(p, header[p])

(* Another status, or a body that is not JSON.                             *)
Invalid(p) ==
    /\ pc[p] = "sent"
    /\ RecordFailure /\ EndRequest(p) /\ UNCHANGED pacing

(* Faulty: the attempt after a header is not counted.                      *)
NotCounted(p) == IF header[p] = None THEN attempt[p] + 1 ELSE attempt[p]

NextAttempt(p) == attempt[p] + 1

Retry(p) ==
    /\ pc[p] = "backoff" /\ wake[p] = 0
    /\ attempt' = [attempt EXCEPT ![p] = NextAttempt(p)]
    /\ queue' = Append(queue, p)
    /\ Goto(p, "pace")
    /\ UNCHANGED <<circuit, nextIn, holder, header, wake>>

(* The task is cancelled, or the client raises what request_json does not  *)
(* catch: nothing is recorded.                                             *)
Cancel(p) ==
    /\ pc[p] # "idle"
    /\ holder' = IF holder = p THEN None ELSE holder
    /\ \/ pc[p] # "pace" /\ UNCHANGED queue
       \/ \E n \in 1..Len(queue) :
              /\ pc[p] = "pace" /\ queue[n] = p
              /\ queue' = SubSeq(queue, 1, n - 1) \o SubSeq(queue, n + 1, Len(queue))
    /\ EndRequest(p)
    /\ UNCHANGED <<circuit, nextIn>>

Less(n) == IF n > 0 THEN n - 1 ELSE 0

Tick ==
    /\ opened' = IF opened \in {None, Reset} THEN opened ELSE opened + 1
    /\ nextIn' = Less(nextIn)
    /\ wake' = [p \in Tasks |-> Less(wake[p])]
    /\ UNCHANGED <<failures, holder, queue, pc, attempt, header>>

(* The steps a task takes by itself, or with the answer it waits for.      *)
Advance(p) ==
    \/ Raise(p) \/ TakeLock(p) \/ Send(p) \/ Retry(p)
    \/ Succeed(p) \/ Unavailable(p) \/ Lost(p) \/ Invalid(p)

Next == Tick \/ \E p \in Tasks : Start(p) \/ Advance(p) \/ Cancel(p)

Spec == Init /\ [][Next]_vars

(* The event loop keeps running its tasks, time passes, the client's       *)
(* timeout ends every attempt, and idle tasks make requests.               *)
FairSpec ==
    /\ Spec
    /\ WF_vars(Tick)
    /\ \A p \in Tasks : WF_vars(Advance(p)) /\ WF_vars(Start(p))

-----------------------------------------------------------------------------
(* Properties                                                              *)

(* Every variable holds values of its type.                                *)
TypeOK ==
    /\ failures \in Nat
    /\ opened \in 0..Reset \cup {None}
    /\ nextIn \in 0..Interval
    /\ holder \in Tasks \cup {None}
    /\ queue \in Seq(Tasks)
    /\ pc \in [Tasks -> {"idle", "refused", "pace", "pacing", "sent", "backoff"}]
    /\ attempt \in [Tasks -> 0..MaxRetries]
    /\ header \in [Tasks -> RetryAfters \cup {None}]
    /\ wake \in [Tasks -> Nat]

(* The circuit is open exactly when the counted failures have reached the  *)
(* threshold, however requests let through earlier end in between.         *)
BreakerConsistent == (opened # None) <=> (failures >= Threshold)

(* A request goes out no sooner than Interval after the one before it,     *)
(* whichever tasks sent them.                                              *)
Spacing ==
    [][\A p \in Tasks : pc[p] # "sent" /\ pc'[p] = "sent" => nextIn = 0]_vars

(* Every request returns or raises.                                        *)
RequestsEnd == \A p \in Tasks : pc[p] # "idle" ~> pc[p] = "idle"

(* An open circuit is tried again, however many requests it refuses.       *)
OpenEnds == opened # None ~> opened = None
====
