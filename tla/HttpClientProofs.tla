---- MODULE HttpClientProofs ----
(***************************************************************************)
(* Safety of HttpClient for any tasks and delays.                          *)
(***************************************************************************)
EXTENDS HttpClient, TLAPS, SequenceTheorems

(* A task that sleeps for its turn holds the lock and wakes when the next  *)
(* request may go; one that backs off has an attempt left.                 *)
TaskOK(p) ==
    /\ pc[p] = "pacing" => holder = p /\ wake[p] = nextIn
    /\ pc[p] = "backoff" => attempt[p] < MaxRetries

IInv ==
    /\ TypeOK
    /\ BreakerConsistent
    /\ \A p \in Tasks : TaskOK(p)

LEMMA BackoffType == \A n \in Nat : Backoff(n) \in Nat
  BY DEF Backoff

LEMMA DelayType ==
    ASSUME NEW n \in Nat, NEW after \in RetryAfters \cup {None}
    PROVE  RetryDelay(n, after) \in Nat
  BY BackoffType, HttpAssumption DEF RetryDelay

LEMMA InitInv == Init => IInv
  BY HttpAssumption DEF Init, IInv, TypeOK, BreakerConsistent, TaskOK

(* The breaker's operations keep it consistent.                            *)
LEMMA CircuitKept ==
    ASSUME IInv, ResetCircuit \/ RecordFailure \/ UNCHANGED circuit
    PROVE  /\ failures' \in Nat /\ opened' \in 0..Reset \cup {None}
           /\ BreakerConsistent'
  BY HttpAssumption
     DEF ResetCircuit, RecordFailure, circuit, IInv, TypeOK, BreakerConsistent

(* What is said of a task survives a step of another that neither takes    *)
(* the lock from it nor moves its turn.                                    *)
LEMMA OthersKeep ==
    ASSUME IInv, NEW q \in Tasks,
           pc'[q] = pc[q], attempt'[q] = attempt[q],
           wake'[q] = wake[q],
           holder = q => holder' = q /\ nextIn' = nextIn
    PROVE  TaskOK(q)'
  BY DEF IInv, TaskOK

LEMMA Ended ==
    ASSUME IInv, NEW p \in Tasks, EndRequest(p),
           failures' \in Nat, opened' \in 0..Reset \cup {None},
           holder' \in {holder, IF holder = p THEN None ELSE holder},
           queue' \in Seq(Tasks), nextIn' = nextIn
    PROVE  TypeOK' /\ \A q \in Tasks : TaskOK(q)'
<1>1. TypeOK'
  BY HttpAssumption DEF EndRequest, Goto, IInv, TypeOK
<1>2. TaskOK(p)'
  BY DEF EndRequest, Goto, IInv, TypeOK, TaskOK
<1>3. ASSUME NEW q \in Tasks, q # p PROVE TaskOK(q)'
  <2>1. pc'[q] = pc[q] /\ attempt'[q] = attempt[q] /\ wake'[q] = wake[q]
    BY <1>3 DEF EndRequest, Goto, IInv, TypeOK
  <2> QED
    BY <1>3, <2>1, OthersKeep
<1> QED
  BY <1>1, <1>2, <1>3

LEMMA StartStep ==
    ASSUME IInv, NEW p \in Tasks, Start(p)
    PROVE  IInv'
<1>1. /\ failures' \in Nat /\ opened' \in 0..Reset \cup {None}
      /\ BreakerConsistent'
  BY CircuitKept DEF Start, Refuse
<1>2. \E label \in {"refused", "pace"} : pc' = [pc EXCEPT ![p] = label]
  BY DEF Start, Goto
<1>3. queue' \in Seq(Tasks)
  <2>1. queue \in Seq(Tasks) /\ Append(queue, p) \in Seq(Tasks)
    BY DEF IInv, TypeOK
  <2>2. queue' = queue \/ queue' = Append(queue, p)
    BY DEF Start
  <2> QED
    BY <2>1, <2>2
<1>4. TypeOK'
  BY <1>1, <1>2, <1>3 DEF Start, IInv, TypeOK
<1>5. ASSUME NEW r \in Tasks PROVE TaskOK(r)'
  BY <1>2 DEF Start, IInv, TypeOK, TaskOK
<1> QED
  BY <1>1, <1>4, <1>5 DEF IInv

LEMMA PaceStep ==
    ASSUME IInv, NEW p \in Tasks, TakeLock(p) \/ Send(p) \/ Retry(p)
    PROVE  IInv'
<1>1. BreakerConsistent'
  BY DEF TakeLock, Send, Retry, circuit, IInv, BreakerConsistent
<1>2. CASE TakeLock(p)
  <2>1. Tail(queue) \in Seq(Tasks)
    BY <1>2 DEF TakeLock, IInv, TypeOK
  <2>2. TypeOK'
    BY <1>2, <2>1, HttpAssumption DEF TakeLock, Goto, circuit, IInv, TypeOK
  <2>3. ASSUME NEW q \in Tasks PROVE TaskOK(q)'
    BY <1>2, HttpAssumption DEF TakeLock, LockFree, Goto, IInv, TypeOK, TaskOK
  <2> QED
    BY <1>1, <2>2, <2>3 DEF IInv
<1>3. CASE Send(p)
  <2>1. TypeOK'
    BY <1>3, HttpAssumption DEF Send, Goto, circuit, IInv, TypeOK
  <2>2. ASSUME NEW q \in Tasks PROVE TaskOK(q)'
    BY <1>3 DEF Send, Goto, IInv, TypeOK, TaskOK
  <2> QED
    BY <1>1, <2>1, <2>2 DEF IInv
<1>4. CASE Retry(p)
  <2>1. Append(queue, p) \in Seq(Tasks)
    BY DEF IInv, TypeOK
  <2>2. attempt[p] + 1 \in 0..MaxRetries
    BY <1>4, HttpAssumption DEF Retry, IInv, TypeOK, TaskOK
  <2>3. TypeOK'
    BY <1>4, <2>1, <2>2 DEF Retry, NextAttempt, Goto, circuit, IInv, TypeOK
  <2>4. ASSUME NEW q \in Tasks PROVE TaskOK(q)'
    BY <1>4 DEF Retry, Goto, IInv, TypeOK, TaskOK
  <2> QED
    BY <1>1, <2>3, <2>4 DEF IInv
<1> QED
  BY <1>2, <1>3, <1>4

LEMMA TryAgainStep ==
    ASSUME IInv, NEW p \in Tasks, pc[p] = "sent",
           NEW after \in RetryAfters \cup {None}, TryAgain(p, after)
    PROVE  IInv'
<1>1. CASE attempt[p] >= MaxRetries /\ RecordFailure /\ EndRequest(p)
  <2>1. queue' \in Seq(Tasks) /\ holder' = holder /\ nextIn' = nextIn
    BY DEF TryAgain, pacing, IInv, TypeOK, TaskOK
  <2> QED
    BY <1>1, <2>1, CircuitKept, Ended DEF IInv
<1>2. CASE /\ attempt[p] < MaxRetries
           /\ wake' = [wake EXCEPT ![p] = RetryDelay(attempt[p], after)]
           /\ header' = [header EXCEPT ![p] = after]
           /\ Goto(p, "backoff")
           /\ UNCHANGED <<circuit, attempt>>
  <2>1. RetryDelay(attempt[p], after) \in Nat
    BY DelayType, HttpAssumption DEF IInv, TypeOK
  <2>2. TypeOK'
    BY <1>2, <2>1 DEF TryAgain, Goto, pacing, circuit, IInv, TypeOK
  <2>3. BreakerConsistent'
    BY <1>2 DEF circuit, IInv, BreakerConsistent
  <2>4. ASSUME NEW q \in Tasks PROVE TaskOK(q)'
    BY <1>2 DEF TryAgain, Goto, pacing, IInv, TypeOK, TaskOK
  <2> QED
    BY <2>2, <2>3, <2>4 DEF IInv
<1> QED
  BY <1>1, <1>2 DEF TryAgain

LEMMA AnswerStep ==
    ASSUME IInv, NEW p \in Tasks,
           Succeed(p) \/ Unavailable(p) \/ Lost(p) \/ Invalid(p) \/ Raise(p)
    PROVE  IInv'
<1>1. CASE Succeed(p) \/ Invalid(p) \/ Raise(p)
  <2>1. queue' \in Seq(Tasks) /\ holder' = holder /\ nextIn' = nextIn /\ EndRequest(p)
    BY <1>1 DEF Succeed, Invalid, Raise, pacing, IInv, TypeOK, TaskOK
  <2>2. /\ failures' \in Nat /\ opened' \in 0..Reset \cup {None}
        /\ BreakerConsistent'
    BY <1>1, <2>1, CircuitKept DEF Succeed, Invalid, Raise
  <2> QED
    BY <2>1, <2>2, Ended DEF IInv
<1>2. CASE Unavailable(p)
  BY <1>2, TryAgainStep DEF Unavailable
<1>3. CASE Lost(p)
  BY <1>3, TryAgainStep DEF Lost, IInv, TypeOK
<1> QED
  BY <1>1, <1>2, <1>3

LEMMA CancelStep ==
    ASSUME IInv, NEW p \in Tasks, Cancel(p)
    PROVE  IInv'
<1>1. queue' \in Seq(Tasks)
  <2>1. ASSUME NEW n \in 1..Len(queue)
        PROVE  SubSeq(queue, 1, n - 1) \o SubSeq(queue, n + 1, Len(queue)) \in Seq(Tasks)
    <3>1. queue \in Seq(Tasks)
      BY DEF IInv, TypeOK
    <3>2. SubSeq(queue, 1, n - 1) \in Seq(Tasks)
      BY <3>1
    <3>3. SubSeq(queue, n + 1, Len(queue)) \in Seq(Tasks)
      BY <3>1
    <3> QED
      BY <3>2, <3>3
  <2> QED
    BY <2>1 DEF Cancel, IInv, TypeOK
<1>2. /\ failures' \in Nat /\ opened' \in 0..Reset \cup {None}
      /\ BreakerConsistent'
  BY CircuitKept DEF Cancel
<1> QED
  BY <1>1, <1>2, Ended DEF Cancel, IInv

LEMMA TickStep ==
    ASSUME IInv, Tick
    PROVE  IInv'
<1>1. opened' \in 0..Reset \cup {None} /\ BreakerConsistent'
  BY HttpAssumption DEF Tick, IInv, TypeOK, BreakerConsistent
<1>2. nextIn' \in 0..Interval /\ wake' \in [Tasks -> Nat]
  BY HttpAssumption DEF Tick, Less, IInv, TypeOK
<1>3. TypeOK'
  BY <1>1, <1>2 DEF Tick, IInv, TypeOK
<1>4. ASSUME NEW q \in Tasks PROVE TaskOK(q)'
  BY DEF Tick, IInv, TypeOK, TaskOK
<1> QED
  BY <1>1, <1>3, <1>4 DEF IInv

LEMMA NextInv ==
    ASSUME IInv, [Next]_vars
    PROVE  IInv'
<1>1. CASE UNCHANGED vars
  BY <1>1 DEF vars, circuit, pacing, local, IInv, TypeOK, BreakerConsistent, TaskOK
<1> QED
  BY <1>1, StartStep, PaceStep, AnswerStep, CancelStep, TickStep DEF Next, Advance

LEMMA Invariant == Spec => []IInv
  BY InitInv, NextInv, PTL DEF Spec

-----------------------------------------------------------------------------
(* Every variable keeps its type; no attempt follows the last one.         *)
THEOREM TypeCorrect == Spec => []TypeOK
<1>1. IInv => TypeOK
  BY DEF IInv
<1> QED
  BY <1>1, Invariant, PTL

(* The circuit is open exactly when its counted failures reach the         *)
(* threshold, for any number of concurrent requests.                       *)
THEOREM BreakerStaysConsistent == Spec => []BreakerConsistent
<1>1. IInv => BreakerConsistent
  BY DEF IInv
<1> QED
  BY <1>1, Invariant, PTL

(* No two requests go out closer than the interval.                        *)
THEOREM RequestsSpaced == Spec => Spacing
<1> DEFINE Spaced == \A p \in Tasks : pc[p] # "sent" /\ pc'[p] = "sent" => nextIn = 0
<1>1. ASSUME IInv, [Next]_vars PROVE [Spaced]_vars
  <2>1. ASSUME NEW p \in Tasks, Send(p) PROVE Spaced
    BY <1>1, <2>1 DEF Send, Goto, IInv, TypeOK, TaskOK
  <2>2. ASSUME NEW p \in Tasks, NEW label, label # "sent", Goto(p, label) PROVE Spaced
    BY <1>1, <2>2 DEF Goto, IInv, TypeOK
  <2>3. CASE pc' = pc
    BY <2>3
  <2> QED
    BY <1>1, <2>1, <2>2, <2>3
       DEF Next, Advance, Start, TakeLock, Retry, Succeed, Unavailable, Lost, Invalid, Raise,
           Cancel, TryAgain, EndRequest, Tick, vars, local
<1> QED
  BY <1>1, Invariant, PTL DEF Spec, Spacing

-----------------------------------------------------------------------------
(* The queue of the pacing lock                                            *)

(* The tasks that wait for the lock are those in its queue, each once, and *)
(* whoever holds it is asleep in _pace.                                    *)
QueueInv ==
    /\ \A n \in 1..Len(queue) : pc[queue[n]] = "pace"
    /\ \A m, n \in 1..Len(queue) : queue[m] = queue[n] => m = n
    /\ \A p \in Tasks : pc[p] = "pace" => \E n \in 1..Len(queue) : queue[n] = p
    /\ holder # None => pc[holder] = "pacing"

(* A task that waits goes on next, or behind one that has the lock for no  *)
(* longer than the interval; the lock is never left to a task that ended.  *)
LockServed ==
    \A p \in Tasks : pc[p] = "pace" =>
        IF LockFree THEN queue # << >> /\ Head(queue) \in Tasks /\ pc[Head(queue)] = "pace"
                    ELSE pc[holder] = "pacing" /\ wake[holder] <= Interval

(* Tasks that wait only move forward.                                      *)
InOrder ==
    \A n \in 1..Len(queue) : pc'[queue[n]] = "pace" =>
        \E m \in 1..Len(queue') : m <= n /\ queue'[m] = queue[n]

(* The n-th task is no longer in the queue.                                *)
Shortened(n) ==
    /\ n \in 1..Len(queue) /\ queue' \in Seq(Tasks) /\ Len(queue') = Len(queue) - 1
    /\ \A i \in 1..Len(queue') : queue'[i] = IF i < n THEN queue[i] ELSE queue[i + 1]

LEMMA Removed ==
    ASSUME queue \in Seq(Tasks), NEW n \in 1..Len(queue),
           queue' = SubSeq(queue, 1, n - 1) \o SubSeq(queue, n + 1, Len(queue))
    PROVE  Shortened(n)
<1> DEFINE a == SubSeq(queue, 1, n - 1)
           b == SubSeq(queue, n + 1, Len(queue))
<1>1. Len(queue) \in Nat /\ n \in Nat /\ n >= 1 /\ n <= Len(queue)
  OBVIOUS
<1>2. a \in Seq(Tasks) /\ Len(a) = n - 1 /\ \A i \in 1..n - 1 : a[i] = queue[i]
  BY <1>1
<1>3. b \in Seq(Tasks) /\ Len(b) = Len(queue) - n /\ \A i \in 1..Len(queue) - n : b[i] = queue[n + i]
  BY <1>1
<1>4. queue' = a \o b
  OBVIOUS
<1> HIDE DEF a, b
<1>5. /\ a \o b \in Seq(Tasks) /\ Len(a \o b) = Len(a) + Len(b)
      /\ \A i \in 1..Len(a) + Len(b) : (a \o b)[i] = IF i <= Len(a) THEN a[i] ELSE b[i - Len(a)]
  BY <1>2, <1>3, ConcatProperties
<1>6. Len(a) + Len(b) = Len(queue) - 1 /\ Len(queue') = Len(a) + Len(b)
  <2>1. Len(queue') = Len(a) + Len(b)
    BY ONLY <1>4, <1>5
  <2>2. Len(a) + Len(b) = Len(queue) - 1
    BY ONLY <1>1, <1>2, <1>3
  <2> QED
    BY <2>1, <2>2
<1>7. ASSUME NEW i \in 1..Len(queue')
      PROVE  queue'[i] = IF i < n THEN queue[i] ELSE queue[i + 1]
  <2>1. i \in Int /\ i \in 1..Len(a) + Len(b) /\ queue'[i] = (a \o b)[i]
    BY ONLY <1>4, <1>6, i \in 1..Len(queue')
  <2>2. CASE i < n
    <3>1. i <= Len(a) /\ i \in 1..n - 1
      BY <1>1, <1>2, <2>1, <2>2
    <3> QED
      BY <1>2, <1>5, <2>1, <2>2, <3>1
  <2>3. CASE ~(i < n)
    <3>1. ~(i <= Len(a)) /\ i - Len(a) \in 1..Len(queue) - n /\ n + (i - Len(a)) = i + 1
      BY <1>1, <1>2, <1>3, <2>1, <2>3
    <3> QED
      BY <1>3, <1>5, <2>1, <2>3, <3>1
  <2> QED
    BY <2>2, <2>3
<1> QED
  BY <1>4, <1>5, <1>6, <1>7 DEF Shortened

LEMMA TakenFirst ==
    ASSUME queue \in Seq(Tasks), queue # << >>, queue' = Tail(queue)
    PROVE  Shortened(1) /\ Head(queue) = queue[1]
  BY DEF Shortened

(* A task leaves the queue and is no longer waiting.                       *)
LEMMA LeavesQueue ==
    ASSUME IInv, QueueInv, NEW p \in Tasks, NEW n, Shortened(n), queue[n] = p,
           NEW label, label # "pace", Goto(p, label),
           holder' = holder \/ (holder' = p /\ label = "pacing"),
           holder # p
    PROVE  QueueInv' /\ InOrder
<1>1. /\ n \in 1..Len(queue) /\ Len(queue) \in Nat /\ queue' \in Seq(Tasks)
      /\ Len(queue') = Len(queue) - 1 /\ Len(queue') \in Nat
      /\ \A i \in 1..Len(queue') : queue'[i] = IF i < n THEN queue[i] ELSE queue[i + 1]
  BY DEF Shortened, IInv, TypeOK
<1>2. pc'[p] = label /\ \A q \in Tasks \ {p} : pc'[q] = pc[q]
  BY DEF Goto, IInv, TypeOK
<1>3. \A i \in 1..Len(queue) : queue[i] \in Tasks
  BY DEF IInv, TypeOK
<1>4. ASSUME NEW i \in 1..Len(queue')
      PROVE  \E k \in 1..Len(queue) : k # n /\ queue'[i] = queue[k] /\ queue'[i] # p
  <2>1. CASE i < n
    BY <1>1, <2>1 DEF QueueInv
  <2>2. CASE ~(i < n)
    <3>1. i + 1 \in 1..Len(queue) /\ i + 1 # n /\ queue'[i] = queue[i + 1]
      BY <1>1, <2>2
    <3>2. queue[i + 1] # p
      BY <1>1, <3>1 DEF QueueInv
    <3> QED
      BY <3>1, <3>2
  <2> QED
    BY <2>1, <2>2
<1>5. ASSUME NEW i \in 1..Len(queue') PROVE pc'[queue'[i]] = "pace"
  <2>1. PICK k \in 1..Len(queue) : queue'[i] = queue[k] /\ queue'[i] # p
    BY <1>4
  <2> QED
    BY <1>2, <1>3, <2>1 DEF QueueInv
<1>6. ASSUME NEW i \in 1..Len(queue'), NEW k \in 1..Len(queue'), queue'[i] = queue'[k]
      PROVE  i = k
  <2>1. \A x, y \in 1..Len(queue) : queue[x] = queue[y] => x = y
    BY DEF QueueInv
  <2>2. /\ IF i < n THEN i \in 1..Len(queue) ELSE i + 1 \in 1..Len(queue)
        /\ IF k < n THEN k \in 1..Len(queue) ELSE k + 1 \in 1..Len(queue)
    BY <1>1
  <2>3. (IF i < n THEN i ELSE i + 1) = (IF k < n THEN k ELSE k + 1)
    BY <1>1, <1>6, <2>1, <2>2
  <2> QED
    BY <1>1, <2>3
<1>7. ASSUME NEW j \in 1..Len(queue), queue[j] # p
      PROVE  \E m \in 1..Len(queue') : m <= j /\ queue'[m] = queue[j]
  <2>1. j # n /\ j \in Int /\ n \in Int /\ j <= j
    BY <1>1, <1>7
  <2>2. CASE j < n
    <3>1. j \in 1..Len(queue') /\ queue'[j] = queue[j]
      BY <1>1, <2>1, <2>2
    <3> QED
      BY <2>1, <3>1
  <2>3. CASE j > n
    <3>1. j - 1 \in 1..Len(queue') /\ queue'[j - 1] = queue[j] /\ j - 1 <= j
      BY <1>1, <2>1, <2>3
    <3> QED
      BY <3>1
  <2> QED
    BY <2>1, <2>2, <2>3
<1>8. ASSUME NEW q \in Tasks, pc'[q] = "pace" PROVE \E m \in 1..Len(queue') : queue'[m] = q
  <2>1. q # p /\ pc[q] = "pace"
    BY <1>2, <1>8
  <2>2. PICK j \in 1..Len(queue) : queue[j] = q
    BY <2>1 DEF QueueInv
  <2> QED
    BY <1>7, <2>1, <2>2
<1>9. holder' # None => pc'[holder'] = "pacing"
  BY <1>2 DEF QueueInv, IInv, TypeOK
<1>10. InOrder
  BY <1>2, <1>7 DEF InOrder
<1> QED
  BY <1>5, <1>6, <1>8, <1>9, <1>10 DEF QueueInv

(* A task goes to the end of the queue.                                    *)
LEMMA JoinsQueue ==
    ASSUME IInv, QueueInv, NEW p \in Tasks, pc[p] \notin {"pace", "pacing"},
           queue' = Append(queue, p), Goto(p, "pace"), holder' = holder
    PROVE  QueueInv' /\ InOrder
<1>1. /\ Len(queue) \in Nat /\ queue' \in Seq(Tasks) /\ Len(queue') = Len(queue) + 1
      /\ queue'[Len(queue) + 1] = p /\ \A i \in 1..Len(queue) : queue'[i] = queue[i]
  BY DEF IInv, TypeOK
<1>2. pc'[p] = "pace" /\ \A q \in Tasks \ {p} : pc'[q] = pc[q]
  BY DEF Goto, IInv, TypeOK
<1>3. \A i \in 1..Len(queue) : queue[i] \in Tasks /\ queue[i] # p /\ pc[queue[i]] = "pace"
  BY DEF IInv, TypeOK, QueueInv
<1>4. \A i \in 1..Len(queue') : i \in 1..Len(queue) \/ i = Len(queue) + 1
  BY <1>1
<1>5. ASSUME NEW i \in 1..Len(queue') PROVE pc'[queue'[i]] = "pace"
  BY <1>1, <1>2, <1>3, <1>4
<1>6. ASSUME NEW i \in 1..Len(queue'), NEW k \in 1..Len(queue'), queue'[i] = queue'[k]
      PROVE  i = k
  BY <1>1, <1>3, <1>4, <1>6 DEF QueueInv
<1>7. ASSUME NEW q \in Tasks, pc'[q] = "pace" PROVE \E m \in 1..Len(queue') : queue'[m] = q
  <2>1. CASE q = p
    BY <1>1, <2>1
  <2>2. CASE q # p
    <3>1. PICK j \in 1..Len(queue) : queue[j] = q
      BY <1>2, <1>7, <2>2 DEF QueueInv
    <3> QED
      BY <1>1, <3>1
  <2> QED
    BY <2>1, <2>2
<1>8. holder' # None => pc'[holder'] = "pacing"
  BY <1>2 DEF QueueInv, IInv, TypeOK
<1>9. InOrder
  BY <1>1 DEF InOrder
<1> QED
  BY <1>5, <1>6, <1>7, <1>8, <1>9 DEF QueueInv

(* A task that neither waits nor begins to.                                *)
LEMMA QueueAsItWas ==
    ASSUME IInv, QueueInv, NEW p \in Tasks, pc[p] # "pace", queue' = queue,
           NEW label, label # "pace", Goto(p, label),
           holder' = (IF holder = p THEN None ELSE holder)
    PROVE  QueueInv' /\ InOrder
<1>1. pc'[p] = label /\ \A q \in Tasks \ {p} : pc'[q] = pc[q]
  BY DEF Goto, IInv, TypeOK
<1>2. \A i \in 1..Len(queue) : queue[i] \in Tasks /\ queue[i] # p
  BY DEF IInv, TypeOK, QueueInv
<1>3. Len(queue) \in Nat
  BY DEF IInv, TypeOK
<1>4. holder' # None => pc'[holder'] = "pacing"
  BY <1>1 DEF QueueInv, IInv, TypeOK
<1>5. InOrder
  BY <1>3 DEF InOrder
<1>6. \A i \in 1..Len(queue) : pc'[queue[i]] = "pace"
  BY <1>1, <1>2 DEF QueueInv
<1>7. \A q \in Tasks : pc'[q] = "pace" => pc[q] = "pace"
  BY <1>1
<1> QED
  BY <1>4, <1>5, <1>6, <1>7 DEF QueueInv

LEMMA QueueKept ==
    ASSUME IInv, QueueInv, Next
    PROVE  QueueInv' /\ InOrder
<1> USE DEF EndRequest
<1>1. queue \in Seq(Tasks) /\ \A p \in Tasks : TaskOK(p)
  BY DEF IInv, TypeOK
<1>2. CASE Tick
  <2>1. pc' = pc /\ queue' = queue /\ holder' = holder /\ Len(queue) \in Nat
    BY <1>1, <1>2 DEF Tick
  <2>2. InOrder
    BY <2>1 DEF InOrder
  <2> QED
    BY <2>1, <2>2 DEF QueueInv
<1>3. ASSUME NEW p \in Tasks, Start(p) PROVE QueueInv' /\ InOrder
  <2>1. pc[p] = "idle" /\ holder' = holder /\ holder # p
    BY <1>3, HttpAssumption DEF Start, QueueInv
  <2> QED
    BY <1>3, <2>1, JoinsQueue, QueueAsItWas DEF Start
<1>4. ASSUME NEW p \in Tasks, TakeLock(p) PROVE QueueInv' /\ InOrder
  <2>1. Shortened(1) /\ queue[1] = p
    BY <1>1, <1>4, TakenFirst DEF TakeLock
  <2>2. holder # p /\ holder' = p /\ Goto(p, "pacing")
    BY <1>4, HttpAssumption DEF TakeLock, LockFree
  <2> QED
    BY <2>1, <2>2, LeavesQueue
<1>5. ASSUME NEW p \in Tasks, Send(p) PROVE QueueInv' /\ InOrder
  <2>1. pc[p] # "pace" /\ holder = p /\ holder' = None /\ queue' = queue /\ Goto(p, "sent")
    BY <1>1, <1>5 DEF Send, TaskOK
  <2> QED
    BY <2>1, QueueAsItWas
<1>6. ASSUME NEW p \in Tasks, Retry(p) PROVE QueueInv' /\ InOrder
  BY <1>6, JoinsQueue DEF Retry
<1>7. ASSUME NEW p \in Tasks, Raise(p) \/ Succeed(p) \/ Unavailable(p) \/ Lost(p) \/ Invalid(p)
      PROVE  QueueInv' /\ InOrder
  <2>1. /\ pc[p] \in {"refused", "sent"} /\ UNCHANGED pacing
        /\ Goto(p, "idle") \/ Goto(p, "backoff")
    BY <1>7 DEF Raise, Succeed, Unavailable, Lost, Invalid, TryAgain
  <2>2. holder # p
    BY <2>1, HttpAssumption DEF QueueInv
  <2>3. queue' = queue /\ holder' = IF holder = p THEN None ELSE holder
    BY <2>1, <2>2 DEF pacing
  <2> QED
    BY <2>1, <2>3, QueueAsItWas
<1>8. ASSUME NEW p \in Tasks, Cancel(p) PROVE QueueInv' /\ InOrder
  <2>1. Goto(p, "idle") /\ holder' = IF holder = p THEN None ELSE holder
    BY <1>8 DEF Cancel
  <2>2. CASE pc[p] # "pace"
    <3>1. queue' = queue
      BY <1>8, <2>2 DEF Cancel
    <3> QED
      BY <2>1, <2>2, <3>1, QueueAsItWas
  <2>3. CASE pc[p] = "pace"
    <3>1. PICK n \in 1..Len(queue) :
             /\ queue[n] = p
             /\ queue' = SubSeq(queue, 1, n - 1) \o SubSeq(queue, n + 1, Len(queue))
      BY <1>8, <2>3 DEF Cancel
    <3>2. Shortened(n)
      BY <1>1, <3>1, Removed
    <3>3. holder # p
      BY <2>3, HttpAssumption DEF QueueInv
    <3> QED
      BY <2>1, <3>1, <3>2, <3>3, LeavesQueue
  <2> QED
    BY <2>2, <2>3
<1> QED
  BY <1>2, <1>3, <1>4, <1>5, <1>6, <1>7, <1>8 DEF Next, Advance

LEMMA QueueInvariant == Spec => []QueueInv
<1>1. Init => QueueInv
  BY DEF Init, QueueInv
<1>2. ASSUME IInv, QueueInv, UNCHANGED vars PROVE QueueInv'
  BY <1>2 DEF QueueInv, vars, pacing, local
<1> QED
  BY <1>1, <1>2, QueueKept, Invariant, PTL DEF Spec

(* The lock is never lost: whichever tasks are cancelled while they wait   *)
(* for it or sleep with it, as long as a task waits, one that can go on    *)
(* holds it, for no longer than the interval, or the first in the queue    *)
(* may take it (http.py, _pace under _rate_lock).                          *)
THEOREM LockIsServed == Spec => []LockServed
<1>1. ASSUME IInv, QueueInv PROVE LockServed
  <2> SUFFICES ASSUME NEW p \in Tasks, pc[p] = "pace"
               PROVE  IF LockFree
                      THEN queue # << >> /\ Head(queue) \in Tasks /\ pc[Head(queue)] = "pace"
                      ELSE pc[holder] = "pacing" /\ wake[holder] <= Interval
    BY DEF LockServed
  <2>1. CASE LockFree
    <3>1. PICK n \in 1..Len(queue) : queue[n] = p
      BY <1>1 DEF QueueInv
    <3>2. queue \in Seq(Tasks) /\ Len(queue) \in Nat /\ 1 \in 1..Len(queue)
      BY <1>1, <3>1 DEF IInv, TypeOK
    <3>3. queue # << >> /\ Head(queue) = queue[1] /\ queue[1] \in Tasks
      BY <3>2
    <3> QED
      BY <1>1, <2>1, <3>2, <3>3 DEF QueueInv
  <2>2. CASE ~LockFree
    <3>1. holder \in Tasks /\ pc[holder] = "pacing"
      BY <1>1, <2>2 DEF QueueInv, LockFree, IInv, TypeOK
    <3>2. wake[holder] = nextIn /\ nextIn <= Interval
      BY <1>1, <3>1, HttpAssumption DEF IInv, TypeOK, TaskOK
    <3> QED
      BY <2>2, <3>1, <3>2
  <2> QED
    BY <2>1, <2>2
<1> QED
  BY <1>1, QueueInvariant, Invariant, PTL

(* Tasks are paced in the order they came: none is overtaken, and with a   *)
(* holder that sleeps no longer than the interval, none waits longer than  *)
(* its place in the queue.                                                 *)
THEOREM PacedInOrder == Spec => [][InOrder]_vars
<1>1. IInv /\ QueueInv /\ [Next]_vars => [InOrder]_vars
  BY QueueKept
<1> QED
  BY <1>1, QueueInvariant, Invariant, PTL DEF Spec
====
