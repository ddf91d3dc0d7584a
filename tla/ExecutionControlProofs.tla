---- MODULE ExecutionControlProofs ----
(***************************************************************************)
(* Proofs about ExecutionControl, for every set of callers, request ids    *)
(* and expected revisions.                                                 *)
(*                                                                         *)
(* The safety invariants are not inductive: that the swap excludes a       *)
(* second application of an id depends on when the row was read.  The      *)
(* strengthening says, for each place in set_paused, what the revision     *)
(* read there still tells about the committed row and the request table.   *)
(***************************************************************************)
EXTENDS ExecutionControl, TLAPS

(* What p's session knows.  The row it read is never newer than the        *)
(* committed one, and is that row if the revision is still the same; from  *)
(* the second lookup on, an application of its id can only be younger than *)
(* what it read; and at its commit nothing has changed since.              *)
SessionInv(p) ==
    /\ pc[p] # "idle" => call[p] \in Calls
    /\ lock = p => pc[p] \in {"lookup2", "swap", "commit"}
    /\ pc[p] \in {"lookup2", "swap", "commit"} =>
           /\ seen[p] \in Rows
           /\ seen[p].revision <= Revision
           /\ seen[p].revision = Revision => seen[p].paused = Paused
    /\ pc[p] \in {"swap", "commit"} =>
           /\ ExpectedRevision(p)
           /\ requests[call[p].id] # None
                  => requests[call[p].id].revision > seen[p].revision
    /\ pc[p] = "commit" =>
           /\ lock = p
           /\ seen[p].revision = Revision

(* No request was applied at a revision still to come.                     *)
RequestsInv ==
    \A r \in RequestIds :
        requests[r] # None => requests[r].revision \in 1..Revision

IInv ==
    /\ TypeOK
    /\ \A p \in Callers : SessionInv(p)
    /\ RequestsInv
    /\ OneRequestPerRevision
    /\ ExpectedHonoured

LEMMA RowType ==
    ASSUME TypeOK
    PROVE  Revision \in Nat /\ Paused \in BOOLEAN
  BY DEF TypeOK, Paused, Revision, Rows, StartupRow

LEMMA InitInv == Init => IInv
  BY ControlAssumption DEF Init, IInv, TypeOK, SessionInv, RequestsInv,
     OneRequestPerRevision, ExpectedHonoured, Paused, Revision, StartupRow, Rows

(* A step of p that leaves the committed rows alone and closes or moves on *)
(* p's session keeps what the other sessions know.                         *)
LEMMA OtherSessions ==
    ASSUME IInv, NEW p \in Callers, NEW q \in Callers \ {p},
           pc'[q] = pc[q], call'[q] = call[q], seen'[q] = seen[q],
           lock' = q <=> lock = q,
           Revision' = Revision, Paused' = Paused, requests' = requests
    PROVE  SessionInv(q)'
  BY DEF IInv, SessionInv, ExpectedRevision, TypeOK

(* The invariant after a step of p that commits nothing: what remains to   *)
(* show is the types and what p's own session knows.                       *)
LEMMA NothingCommitted ==
    ASSUME IInv, NEW p \in Callers,
           \A q \in Callers \ {p} : /\ pc'[q] = pc[q] /\ call'[q] = call[q]
                                    /\ seen'[q] = seen[q] /\ (lock' = q <=> lock = q),
           control' = control, requests' = requests,
           TypeOK', SessionInv(p)'
    PROVE  IInv'
<1>1. Revision' = Revision /\ Paused' = Paused
  BY DEF Revision, Paused
<1>2. \A q \in Callers : SessionInv(q)'
  BY <1>1, OtherSessions
<1>3. RequestsInv' /\ OneRequestPerRevision' /\ ExpectedHonoured'
  BY <1>1 DEF IInv, RequestsInv, OneRequestPerRevision, ExpectedHonoured
<1> QED  BY <1>2, <1>3 DEF IInv

LEMMA StartKeepsInv ==
    ASSUME IInv, NEW p \in Callers, Start(p)
    PROVE  IInv'
<1>1. PICK c \in Calls : call' = [call EXCEPT ![p] = c]
  BY DEF Start
<1>2. TypeOK'
  BY <1>1 DEF Start, Goto, IInv, TypeOK
<1>3. SessionInv(p)'
  BY <1>1 DEF Start, Goto, IInv, TypeOK, SessionInv
<1> QED
  BY <1>1, <1>2, <1>3, NothingCommitted DEF Start, Goto, IInv, TypeOK

(* Closing a session without a commit, with or without an answer.          *)
LEMMA EndSessionKeepsInv ==
    ASSUME IInv, NEW p \in Callers, EndSession(p),
           control' = control, requests' = requests, events' = events,
           answers' \subseteq [call: Calls, revision: Nat]
    PROVE  IInv'
<1>1. TypeOK'
  BY DEF EndSession, Goto, IInv, TypeOK
<1>2. SessionInv(p)'
  BY ControlAssumption DEF EndSession, Goto, IInv, TypeOK, SessionInv
<1>3. \A q \in Callers \ {p} : lock' = q <=> lock = q
  BY ControlAssumption DEF EndSession
<1> QED
  BY <1>1, <1>2, <1>3, NothingCommitted DEF EndSession, Goto, IInv, TypeOK

LEMMA AnswerType ==
    ASSUME IInv, NEW p \in Callers, pc[p] # "idle",
           requests[call[p].id] # None, AnswerStored(call[p])
    PROVE  answers' \subseteq [call: Calls, revision: Nat]
<1>1. call[p] \in Calls /\ call[p].id \in RequestIds
  BY DEF IInv, SessionInv, Calls
<1>2. requests[call[p].id].revision \in Nat
  BY <1>1 DEF IInv, TypeOK, Requests
<1>3. [call |-> call[p], revision |-> requests[call[p].id].revision]
          \in [call: Calls, revision: Nat]
  BY <1>1, <1>2
<1>4. answers \subseteq [call: Calls, revision: Nat]
  BY DEF IInv, TypeOK
<1>5. CASE Matches(call[p])
  BY <1>3, <1>4, <1>5, Zenon DEF AnswerStored
<1>6. CASE ~Matches(call[p])
  BY <1>4, <1>6, Zenon DEF AnswerStored
<1> QED  BY <1>5, <1>6

LEMMA FirstLookupKeepsInv ==
    ASSUME IInv, NEW p \in Callers, FirstLookup(p)
    PROVE  IInv'
<1>1. CASE requests[call[p].id] # None /\ AnswerStored(call[p]) /\ EndSession(p)
  BY <1>1, AnswerType, EndSessionKeepsInv DEF FirstLookup
<1>2. CASE Goto(p, "read") /\ UNCHANGED <<call, seen, lock, answers>>
  <2>1. TypeOK'
    BY <1>2 DEF FirstLookup, Goto, IInv, TypeOK
  <2>2. SessionInv(p)'
    BY <1>2 DEF FirstLookup, Goto, IInv, TypeOK, SessionInv
  <2> QED
    BY <1>2, <2>1, <2>2, NothingCommitted DEF FirstLookup, Goto, IInv, TypeOK
<1> QED  BY <1>1, <1>2 DEF FirstLookup

LEMMA ReadRowKeepsInv ==
    ASSUME IInv, NEW p \in Callers, ReadRow(p)
    PROVE  IInv'
<1>1. /\ Row \in Rows /\ Row = [paused |-> Paused, revision |-> Revision]
      /\ Revision \in Nat /\ Revision' = Revision /\ Paused' = Paused
  BY RowType DEF IInv, ReadRow, Row, Rows, Paused, Revision
<1>2. TypeOK'
  BY <1>1 DEF ReadRow, Goto, IInv, TypeOK
<1>3. SessionInv(p)'
  <2>1. seen'[p] = Row /\ pc'[p] = "lookup2"
    BY DEF ReadRow, Goto, IInv, TypeOK
  <2>2. call'[p] = call[p] /\ call[p] \in Calls
    BY DEF ReadRow, IInv, SessionInv
  <2>3. Revision \in Nat
    BY <1>1 DEF Rows
  <2> QED
    BY <1>1, <2>1, <2>2, <2>3 DEF SessionInv, Rows, Calls
<1>4. \A q \in Callers \ {p} : lock' = q <=> lock = q
  BY ControlAssumption DEF ReadRow
<1> QED
  BY <1>2, <1>3, <1>4, NothingCommitted DEF ReadRow, Goto, IInv, TypeOK

(* Why a swap after the second lookup is safe: the id was unbound then.    *)
LEMMA SecondLookupKeepsInv ==
    ASSUME IInv, NEW p \in Callers, SecondLookup(p)
    PROVE  IInv'
<1>1. CASE requests[call[p].id] # None /\ AnswerStored(call[p]) /\ EndSession(p)
  BY <1>1, AnswerType, EndSessionKeepsInv DEF SecondLookup
<1>2. CASE EndSession(p) /\ UNCHANGED answers
  BY <1>2, EndSessionKeepsInv DEF SecondLookup, IInv, TypeOK
<1>3. CASE /\ requests[call[p].id] = None /\ ExpectedRevision(p)
           /\ Goto(p, "swap") /\ UNCHANGED <<call, seen, lock, answers>>
  <2>1. TypeOK'
    BY <1>3 DEF SecondLookup, Goto, IInv, TypeOK
  <2>2. Revision' = Revision /\ Paused' = Paused
    BY DEF SecondLookup, Revision, Paused
  <2>3. SessionInv(p)'
    BY <1>3, <2>2 DEF SecondLookup, Goto, IInv, TypeOK, SessionInv, ExpectedRevision
  <2> QED
    BY <1>3, <2>1, <2>3, NothingCommitted DEF SecondLookup, Goto, IInv, TypeOK
<1> QED  BY <1>1, <1>2, <1>3 DEF SecondLookup

LEMMA CompareAndSwapKeepsInv ==
    ASSUME IInv, NEW p \in Callers, CompareAndSwap(p)
    PROVE  IInv'
<1>1. Revision' = Revision /\ Paused' = Paused
  BY DEF CompareAndSwap, Revision, Paused
<1>2. TypeOK'
  BY DEF CompareAndSwap, Goto, IInv, TypeOK
<1>3. SessionInv(p)'
  BY <1>1, ControlAssumption
     DEF CompareAndSwap, Swaps, Goto, IInv, TypeOK, SessionInv, ExpectedRevision
<1>4. \A q \in Callers \ {p} : lock' = q <=> lock = q
  BY ControlAssumption DEF CompareAndSwap
<1> QED
  BY <1>2, <1>3, <1>4, NothingCommitted DEF CompareAndSwap, Goto, IInv, TypeOK

(* At the commit the id is unbound: an application of it would have a      *)
(* revision beyond the one read, and there is none beyond it.              *)
LEMMA CommitIsFirst ==
    ASSUME IInv, NEW p \in Callers, pc[p] = "commit"
    PROVE  requests[call[p].id] = None
<1>1. call[p].id \in RequestIds
  BY DEF IInv, SessionInv, Calls
<1>2. seen[p].revision = Revision /\ Revision \in Nat
  BY RowType DEF IInv, SessionInv
<1>3. requests[call[p].id] # None => requests[call[p].id].revision > seen[p].revision
  BY DEF IInv, SessionInv
<1>4. requests[call[p].id] # None => requests[call[p].id].revision \in 1..Revision
  BY <1>1 DEF IInv, RequestsInv
<1> QED
  BY <1>2, <1>3, <1>4

LEMMA CommitKeepsInv ==
    ASSUME IInv, NEW p \in Callers, CommitTransition(p)
    PROVE  IInv'
<1> DEFINE c == call[p]
           next == seen[p].revision + 1
<1>1. /\ c \in Calls /\ c.id \in RequestIds /\ c.target \in BOOLEAN
      /\ c.expected \in Expected
  BY DEF CommitTransition, IInv, SessionInv, Calls
<1>2. /\ seen[p].revision = Revision /\ seen[p].paused \in BOOLEAN
      /\ Revision \in Nat /\ lock = p
  BY RowType DEF CommitTransition, IInv, SessionInv, Rows
<1>3. /\ control' = [paused |-> c.target, revision |-> next]
      /\ control' \in Rows /\ control' # None
      /\ Revision' = Revision + 1 /\ Paused' = c.target
  <2>1. control' = [paused |-> c.target, revision |-> next]
    BY DEF CommitTransition
  <2>2. control'.revision = Revision + 1
    BY <2>1, <1>2
  <2>3. control' # None
    BY <2>1, <1>1, <1>2, ControlAssumption DEF Rows
  <2> QED  BY <1>1, <1>2, <2>1, <2>2, <2>3 DEF Rows, Revision, Paused
<1>4. requests[c.id] = None
  BY CommitIsFirst DEF CommitTransition
<1>5. requests' = [requests EXCEPT ![c.id] =
          [target |-> c.target, expected |-> c.expected, revision |-> next]]
  BY DEF CommitTransition
<1>6. EndSession(p)
  BY DEF CommitTransition
<1>7. TypeOK'
  <2>1. events' \in Seq(Events)
    <3>1. AuditEvent(p) \in Events
      BY <1>1, <1>2 DEF AuditEvent, Events
    <3>2. events' = Append(events, AuditEvent(p)) /\ events \in Seq(Events)
      BY DEF CommitTransition, IInv, TypeOK
    <3> QED  BY <3>1, <3>2
  <2>2. requests' \in [RequestIds -> Requests \cup {None}]
    <3>1. [target |-> c.target, expected |-> c.expected, revision |-> next] \in Requests
      BY <1>1, <1>2 DEF Requests
    <3>2. requests \in [RequestIds -> Requests \cup {None}]
      BY DEF IInv, TypeOK
    <3> QED  BY <1>1, <1>5, <3>1, <3>2
  <2>3. answers' \subseteq [call: Calls, revision: Nat]
    <3>1. [call |-> c, revision |-> next] \in [call: Calls, revision: Nat]
      BY <1>1, <1>2
    <3>2. /\ answers' = answers \cup {[call |-> c, revision |-> next]}
          /\ answers \subseteq [call: Calls, revision: Nat]
      BY DEF CommitTransition, IInv, TypeOK
    <3> QED  BY <3>1, <3>2
  <2> QED
    BY <1>3, <1>6, <2>1, <2>2, <2>3 DEF EndSession, Goto, IInv, TypeOK
<1>8. \A r \in RequestIds : requests'[r] # None =>
          \/ r = c.id /\ requests'[r].revision = Revision + 1
                      /\ requests'[r].expected = c.expected
          \/ r # c.id /\ requests'[r] = requests[r]
  BY <1>1, <1>2, <1>5 DEF IInv, TypeOK
<1>9. RequestsInv' /\ OneRequestPerRevision'
  BY <1>2, <1>3, <1>8 DEF IInv, RequestsInv, OneRequestPerRevision
<1>10. ExpectedHonoured'
  <2>1. c.expected \in {None, Revision}
    BY <1>2 DEF CommitTransition, IInv, SessionInv, ExpectedRevision
  <2> QED
    BY <1>8, <2>1 DEF IInv, ExpectedHonoured
<1>11. SessionInv(p)'
  BY <1>6, ControlAssumption DEF EndSession, Goto, IInv, TypeOK, SessionInv
<1>12. ASSUME NEW q \in Callers, q # p  PROVE SessionInv(q)'
  <2>1. /\ pc'[q] = pc[q] /\ call'[q] = call[q] /\ seen'[q] = seen[q]
        /\ lock' # q /\ lock # q
    <3>1. pc'[q] = pc[q] /\ call'[q] = call[q] /\ seen'[q] = seen[q]
      BY <1>6, <1>12 DEF EndSession, Goto, IInv, TypeOK
    <3>2. lock' = None /\ lock = p
      BY <1>2, <1>6 DEF EndSession
    <3> QED  BY <1>12, <3>1, <3>2, ControlAssumption
  <2>2. pc[q] # "commit"
    BY <2>1 DEF IInv, SessionInv
  <2>3. pc[q] \in {"lookup2", "swap"} =>
            seen[q] \in Rows /\ seen[q].revision < Revision'
    <3>1. pc[q] \in {"lookup2", "swap"} =>
              seen[q] \in Rows /\ seen[q].revision <= Revision
      BY DEF IInv, SessionInv
    <3>2. Revision \in Nat /\ Revision' = Revision + 1
      BY <1>2, <1>3
    <3> QED  BY <3>1, <3>2 DEF Rows
  <2>4. ASSUME pc[q] = "swap", requests'[call[q].id] # None
        PROVE  requests'[call[q].id].revision > seen[q].revision
    <3>1. call[q].id \in RequestIds
      BY <2>4 DEF IInv, SessionInv, Calls
    <3>2. CASE call[q].id = c.id
      BY <1>3, <1>8, <2>3, <2>4, <3>1, <3>2
    <3>3. CASE call[q].id # c.id
      BY <1>8, <2>4, <3>1, <3>3 DEF IInv, SessionInv
    <3> QED  BY <3>2, <3>3
  <2>5. pc[q] = "swap" => ExpectedRevision(q)'
    BY <2>1 DEF IInv, SessionInv, ExpectedRevision
  <2> QED
    <3>1. Revision' \in Nat
      BY <1>2, <1>3
    <3>2. pc[q] # "idle" => call[q] \in Calls
      BY DEF IInv, SessionInv
    <3> QED
      BY <2>1, <2>2, <2>3, <2>4, <2>5, <3>1, <3>2 DEF SessionInv, Rows, Calls
<1> QED
  BY <1>7, <1>9, <1>10, <1>11, <1>12 DEF IInv

LEMMA LastLookupKeepsInv ==
    ASSUME IInv, NEW p \in Callers, LastLookup(p)
    PROVE  IInv'
<1>1. CASE requests[call[p].id] # None
  BY <1>1, AnswerType, EndSessionKeepsInv DEF LastLookup
<1>2. CASE requests[call[p].id] = None
  BY <1>2, EndSessionKeepsInv DEF LastLookup, IInv, TypeOK
<1> QED  BY <1>1, <1>2

LEMMA SnapshotKeepsInv ==
    ASSUME IInv, SnapshotInserts
    PROVE  IInv'
<1>1. Revision' = Revision /\ Paused' = Paused
  BY DEF SnapshotInserts, Revision, Paused
<1>2. TypeOK'
  BY DEF SnapshotInserts, StartupRow, Rows, IInv, TypeOK
<1>3. \A q \in Callers : SessionInv(q)'
  BY <1>1 DEF SnapshotInserts, IInv, TypeOK, SessionInv, ExpectedRevision
<1>4. RequestsInv' /\ OneRequestPerRevision' /\ ExpectedHonoured'
  BY <1>1 DEF SnapshotInserts, IInv, RequestsInv, OneRequestPerRevision, ExpectedHonoured
<1> QED  BY <1>2, <1>3, <1>4 DEF IInv

LEMMA NextInv ==
    ASSUME IInv, [Next]_vars
    PROVE  IInv'
<1>1. CASE UNCHANGED vars
  BY <1>1 DEF vars, IInv, TypeOK, SessionInv, RequestsInv, OneRequestPerRevision,
     ExpectedHonoured, ExpectedRevision, Revision, Paused, Rows, Calls
<1>2. ASSUME NEW p \in Callers, Start(p) \/ Advance(p) \/ Abandon(p)
      PROVE  IInv'
  <2>1. CASE Abandon(p)
    BY <2>1, EndSessionKeepsInv DEF Abandon, IInv, TypeOK
  <2>2. CASE Start(p)
    BY <2>2, StartKeepsInv
  <2>3. CASE Advance(p)
    BY <2>3, FirstLookupKeepsInv, ReadRowKeepsInv, SecondLookupKeepsInv,
       CompareAndSwapKeepsInv, CommitKeepsInv, LastLookupKeepsInv DEF Advance
  <2> QED  BY <1>2, <2>1, <2>2, <2>3
<1> QED  BY <1>1, <1>2, SnapshotKeepsInv DEF Next

LEMMA Invariance == Spec => []IInv
<1>1. Init => IInv
  BY InitInv
<1>2. IInv /\ [Next]_vars => IInv'
  BY NextInv
<1> QED  BY <1>1, <1>2, PTL DEF Spec

(* Type correctness of set_paused's sessions and tables.                   *)
THEOREM TypeCorrect == Spec => []TypeOK
  BY Invariance, PTL DEF IInv

(* The insert of a request row never meets its own primary key, for any    *)
(* number of callers and any interleaving of their statements.             *)
THEOREM RequestInsertedOnce == Spec => []NoPrimaryKeyClash
<1>1. IInv => NoPrimaryKeyClash
  BY CommitIsFirst DEF NoPrimaryKeyClash
<1> QED  BY <1>1, Invariance, PTL

(* No two applied requests share a revision, and one that named a revision *)
(* was applied to it.                                                      *)
THEOREM RevisionsOrdered == Spec => [](OneRequestPerRevision /\ ExpectedHonoured)
  BY Invariance, PTL DEF IInv

-----------------------------------------------------------------------------
(* What a commit does to the rows in force, and that nothing else does.    *)
LEMMA CommitEffect ==
    ASSUME IInv, NEW p \in Callers, CommitTransition(p)
    PROVE  /\ call[p] \in Calls /\ requests[call[p].id] = None
           /\ ExpectedRevision(p)
           /\ seen[p].revision = Revision /\ seen[p].paused = Paused
           /\ Revision \in Nat /\ Revision' = Revision + 1
           /\ Paused' = call[p].target
<1>1. call[p] \in Calls /\ ExpectedRevision(p) /\ seen[p] \in Rows
      /\ seen[p].revision = Revision /\ seen[p].paused = Paused
  BY DEF CommitTransition, IInv, SessionInv
<1>2. Revision \in Nat /\ call[p].target \in BOOLEAN
  BY <1>1, RowType DEF IInv, Calls
<1>3. control' = [paused |-> call[p].target, revision |-> seen[p].revision + 1]
  BY DEF CommitTransition
<1>4. control' \in Rows
  BY <1>1, <1>2, <1>3 DEF Rows
<1>5. control' # None
  BY <1>4, ControlAssumption
<1>6. Revision' = seen[p].revision + 1 /\ Paused' = call[p].target
  BY <1>3, <1>5 DEF Revision, Paused
<1> QED
  BY <1>1, <1>2, <1>6, CommitIsFirst DEF CommitTransition

LEMMA OnlyCommitsWrite ==
    ASSUME [Next]_vars
    PROVE  \/ \E p \in Callers : CommitTransition(p)
           \/ /\ Revision' = Revision /\ Paused' = Paused
              /\ UNCHANGED <<events, requests>>
<1>1. CASE UNCHANGED vars
  BY <1>1 DEF vars, Revision, Paused
<1>2. CASE SnapshotInserts
  BY <1>2 DEF SnapshotInserts, Revision, Paused
<1>3. ASSUME NEW p \in Callers,
             \/ Start(p) \/ Abandon(p) \/ FirstLookup(p) \/ ReadRow(p)
             \/ SecondLookup(p) \/ CompareAndSwap(p) \/ LastLookup(p)
      PROVE  UNCHANGED <<control, events, requests>>
  BY <1>3 DEF Start, Abandon, FirstLookup, ReadRow, SecondLookup, CompareAndSwap,
              LastLookup
<1>4. UNCHANGED control => Revision' = Revision /\ Paused' = Paused
  BY DEF Revision, Paused
<1> QED
  BY <1>1, <1>2, <1>3, <1>4 DEF Next, Advance

(* The audit trail, with where it starts.                                  *)
AuditInv == AuditTrail /\ (events = << >> => Paused = StartupRow.paused)

LEMMA CommitExtendsTrail ==
    ASSUME IInv, AuditInv, NEW p \in Callers, CommitTransition(p)
    PROVE  AuditInv'
<1> DEFINE n == Len(events)
<1>1. /\ events \in Seq(Events) /\ n = Revision
      /\ \A i \in 1..n : /\ events[i].revision = i
                         /\ events[i].previous = IF i = 1 THEN StartupRow.paused
                                                 ELSE events[i - 1].active
      /\ events # << >> => events[n].active = Paused
      /\ events = << >> => Paused = StartupRow.paused
  BY DEF IInv, TypeOK, AuditInv, AuditTrail
<1>2. AuditEvent(p) \in Events /\ events' = Append(events, AuditEvent(p))
  <2>1. /\ call[p].target \in BOOLEAN /\ call[p].id \in RequestIds
        /\ Paused \in BOOLEAN /\ Revision + 1 \in Nat
    BY CommitEffect, RowType DEF Calls, IInv
  <2>2. AuditEvent(p) = [active |-> call[p].target, previous |-> Paused,
                         id |-> call[p].id, revision |-> Revision + 1]
    BY CommitEffect DEF AuditEvent
  <2>3. [active |-> call[p].target, previous |-> Paused,
         id |-> call[p].id, revision |-> Revision + 1] \in Events
    BY <2>1 DEF Events
  <2> QED
    BY <2>2, <2>3 DEF CommitTransition
<1>3. /\ AuditEvent(p).active = call[p].target /\ AuditEvent(p).previous = Paused
      /\ AuditEvent(p).revision = n + 1
  BY <1>1, CommitEffect DEF AuditEvent
<1>4. /\ Len(events') = n + 1 /\ n \in Nat /\ events'[n + 1] = AuditEvent(p)
      /\ \A i \in 1..n : events'[i] = events[i]
  BY <1>1, <1>2
<1>5. Revision' = n + 1 /\ Paused' = call[p].target
  BY <1>1, CommitEffect
<1>6. events' # << >>
  BY <1>4
<1>7. ASSUME NEW i \in 1..(n + 1)
      PROVE  /\ events'[i].revision = i
             /\ events'[i].previous = IF i = 1 THEN StartupRow.paused
                                      ELSE events'[i - 1].active
  <2>1. CASE i = n + 1
    <3>1. CASE n = 0
      <4>1. events = << >>
        BY <1>1, <3>1
      <4> QED
        BY <1>1, <1>3, <1>4, <2>1, <3>1, <4>1
    <3>2. CASE n # 0
      <4>1. events # << >> /\ i # 1 /\ events'[i - 1] = events[n]
        BY <1>1, <1>4, <2>1, <3>2
      <4> QED
        BY <1>1, <1>3, <1>4, <2>1, <4>1
    <3> QED
      BY <3>1, <3>2
  <2>2. CASE i # n + 1
    <3>1. i \in 1..n /\ (i # 1 => i - 1 \in 1..n)
      BY <1>4, <2>2
    <3> QED
      BY <1>1, <1>4, <3>1
  <2> QED
    BY <2>1, <2>2
<1> QED
  BY <1>3, <1>4, <1>5, <1>6, <1>7 DEF AuditInv, AuditTrail

(* The audit trail is complete and continuous, and ends in the state in    *)
(* force, whatever callers interleave, time out or retry.                  *)
THEOREM AuditTrailComplete == Spec => []AuditTrail
<1>1. Init => AuditInv
  BY DEF Init, AuditInv, AuditTrail, Revision, Paused, StartupRow
<1>2. IInv /\ AuditInv /\ [Next]_vars => AuditInv'
  <2> SUFFICES ASSUME IInv, AuditInv, [Next]_vars PROVE AuditInv'
    OBVIOUS
  <2>1. CASE /\ Revision' = Revision /\ Paused' = Paused
             /\ UNCHANGED <<events, requests>>
    BY <2>1 DEF AuditInv, AuditTrail
  <2> QED
    BY <2>1, OnlyCommitsWrite, CommitExtendsTrail
<1>3. AuditInv => AuditTrail
  BY DEF AuditInv
<1> QED
  BY <1>1, <1>2, <1>3, Invariance, PTL DEF Spec

(* set_paused, interleaved statement by statement, is an atomic register   *)
(* to which each request id is applied at most once.                       *)
THEOREM ImplementsRegister == Spec => RegisterSpec
<1>1. Init => Register!Init
  BY DEF Init, Register!Init, Paused, Revision, StartupRow
<1>2. ASSUME IInv, NEW p \in Callers, CommitTransition(p)
      PROVE  Register!Next
  <2> DEFINE c == call[p]
  <2>1. /\ c.id \in RequestIds /\ c.target \in BOOLEAN /\ c.expected \in Expected
        /\ requests[c.id] = None
    BY <1>2, CommitEffect DEF Calls
  <2>2. c.expected \in {None, Revision}
    BY <1>2, CommitEffect DEF ExpectedRevision
  <2>3. requests' = [requests EXCEPT ![c.id] =
            [target |-> c.target, expected |-> c.expected, revision |-> Revision + 1]]
    BY <1>2, CommitEffect DEF CommitTransition
  <2>4. Register!Apply(c.id, c.target, c.expected)
    BY <1>2, <2>1, <2>2, <2>3, CommitEffect DEF Register!Apply
  <2> QED
    BY <2>1, <2>4 DEF Register!Next
<1>3. IInv /\ [Next]_vars => [Register!Next]_(Register!registerVars)
  BY <1>2, OnlyCommitsWrite DEF Register!registerVars
<1> QED
  BY <1>1, <1>3, Invariance, PTL DEF Spec, RegisterSpec, Register!Spec

-----------------------------------------------------------------------------
(* The request row that stands behind an answer.                           *)
Stored(a) ==
    /\ a.call \in Calls
    /\ requests[a.call.id] # None
    /\ requests[a.call.id].target = a.call.target
    /\ requests[a.call.id].expected = a.call.expected
    /\ requests[a.call.id].revision = a.revision

(* Every applied request is in the audit trail at its revision, and every  *)
(* answer repeats an applied request: neither is ever taken back.          *)
RequestsAudited ==
    \A r \in RequestIds :
        requests[r] # None =>
            /\ requests[r].revision \in 1..Len(events)
            /\ events[requests[r].revision].id = r
            /\ events[requests[r].revision].active = requests[r].target

AnswersStored == \A a \in answers : Stored(a)

LEMMA AnswerIsStored ==
    ASSUME IInv, AnswersStored, NEW p \in Callers, pc[p] # "idle",
           requests[call[p].id] # None, AnswerStored(call[p])
    PROVE  \A a \in answers' : Stored(a)
<1> DEFINE new == [call |-> call[p], revision |-> requests[call[p].id].revision]
<1>1. call[p] \in Calls
  BY DEF IInv, SessionInv
<1>2. CASE Matches(call[p])
  <2>1. answers' = answers \cup {new}
    BY <1>2, Zenon DEF AnswerStored
  <2>2. Stored(new)
    BY <1>1, <1>2 DEF Stored, Matches
  <2> QED  BY <2>1, <2>2, Zenon DEF AnswersStored
<1>3. CASE ~Matches(call[p])
  <2>1. answers' = answers
    BY <1>3, Zenon DEF AnswerStored
  <2> QED  BY <2>1 DEF AnswersStored
<1> QED  BY <1>2, <1>3

(* Only a lookup that finds the id, and a commit, answer.                  *)
LEMMA OnlyStoredAnswered ==
    ASSUME IInv, AnswersStored, [Next]_vars
    PROVE  \/ \E p \in Callers : CommitTransition(p)
           \/ /\ UNCHANGED <<events, requests>>
              /\ \A a \in answers' : Stored(a)
<1>1. CASE UNCHANGED vars \/ SnapshotInserts
  BY <1>1 DEF vars, SnapshotInserts, AnswersStored
<1>2. ASSUME NEW p \in Callers,
             Start(p) \/ Abandon(p) \/ ReadRow(p) \/ CompareAndSwap(p)
      PROVE  /\ UNCHANGED <<events, requests>>
             /\ \A a \in answers' : Stored(a)
  BY <1>2 DEF Start, Abandon, ReadRow, CompareAndSwap, AnswersStored
<1>3. ASSUME NEW p \in Callers,
             FirstLookup(p) \/ SecondLookup(p) \/ LastLookup(p)
      PROVE  /\ UNCHANGED <<events, requests>>
             /\ \A a \in answers' : Stored(a)
  <2>1. UNCHANGED <<events, requests>> /\ pc[p] # "idle"
    BY <1>3 DEF FirstLookup, SecondLookup, LastLookup
  <2>2. \/ requests[call[p].id] # None /\ AnswerStored(call[p])
        \/ answers' = answers
    BY <1>3 DEF FirstLookup, SecondLookup, LastLookup
  <2> QED
    BY <2>1, <2>2, AnswerIsStored DEF AnswersStored
<1> QED
  BY <1>1, <1>2, <1>3 DEF Next, Advance

(* A commit binds an unbound id, so it changes the row behind no answer,   *)
(* and appends the event at the revision it answers.                       *)
LEMMA CommitKeepsAnswers ==
    ASSUME IInv, AuditInv, RequestsAudited, AnswersStored,
           NEW p \in Callers, CommitTransition(p)
    PROVE  RequestsAudited' /\ AnswersStored'
<1> DEFINE c == call[p]
           n == Len(events)
           row == [target |-> c.target, expected |-> c.expected, revision |-> n + 1]
<1>1. /\ c \in Calls /\ c.id \in RequestIds /\ requests[c.id] = None
      /\ n \in Nat /\ events \in Seq(Events) /\ seen[p].revision = n
      /\ c.target \in BOOLEAN /\ c.expected \in Expected
  BY CommitEffect DEF Calls, IInv, TypeOK, AuditInv, AuditTrail
<1>2. requests' = [requests EXCEPT ![c.id] = row]
  BY <1>1 DEF CommitTransition
<1>3. /\ requests'[c.id] = row /\ row # None
      /\ \A r \in RequestIds \ {c.id} : requests'[r] = requests[r]
  <2>1. row \in Requests
    BY <1>1 DEF Requests
  <2> QED
    BY <1>1, <1>2, <2>1, ControlAssumption DEF IInv, TypeOK
<1>4. /\ Len(events') = n + 1
      /\ events'[n + 1].id = c.id /\ events'[n + 1].active = c.target
      /\ \A i \in 1..n : events'[i] = events[i]
  <2>1. events' = Append(events, AuditEvent(p))
    BY DEF CommitTransition
  <2>2. AuditEvent(p).id = c.id /\ AuditEvent(p).active = c.target
    BY DEF AuditEvent
  <2>3. AuditEvent(p) = AuditEvent(p) /\ Len(events') = n + 1
    BY <1>1, <2>1
  <2>4. events'[n + 1] = AuditEvent(p) /\ \A i \in 1..n : events'[i] = events[i]
    BY <1>1, <2>1
  <2> QED
    BY <2>2, <2>3, <2>4
<1>5. RequestsAudited'
  <2> SUFFICES ASSUME NEW r \in RequestIds, requests'[r] # None
               PROVE  /\ requests'[r].revision \in 1..(n + 1)
                      /\ events'[requests'[r].revision].id = r
                      /\ events'[requests'[r].revision].active = requests'[r].target
    BY <1>4 DEF RequestsAudited
  <2>1. CASE r = c.id
    BY <1>1, <1>3, <1>4, <2>1
  <2>2. CASE r # c.id
    <3>1. /\ requests[r] # None /\ requests'[r] = requests[r]
          /\ requests[r].revision \in 1..n
          /\ events[requests[r].revision].id = r
          /\ events[requests[r].revision].active = requests[r].target
      BY <1>3, <2>2 DEF RequestsAudited
    <3> QED
      BY <1>1, <1>4, <3>1
  <2> QED
    BY <2>1, <2>2
<1>6. AnswersStored'
  <2>1. answers' = answers \cup {[call |-> c, revision |-> n + 1]}
    BY <1>1 DEF CommitTransition
  <2>2. ASSUME NEW a, a = [call |-> c, revision |-> n + 1] PROVE Stored(a)'
    BY <1>1, <1>3, <2>2 DEF Stored
  <2>3. ASSUME NEW a \in answers PROVE Stored(a)'
    <3>1. Stored(a)
      BY DEF AnswersStored
    <3>2. a.call.id \in RequestIds \ {c.id}
      BY <1>1, <3>1 DEF Stored, Calls
    <3> QED
      BY <1>3, <3>1, <3>2 DEF Stored
  <2> QED
    BY <2>1, <2>2, <2>3 DEF AnswersStored
<1> QED
  BY <1>5, <1>6

(* A caller is told only of transitions in the audit trail, and all callers *)
(* of one id made the same call and are told the same revision.             *)
THEOREM AnswersTrue == Spec => []AnswersHold
<1> DEFINE AInv == AuditInv /\ RequestsAudited /\ AnswersStored
<1>1. Init => AInv
  BY DEF Init, AuditInv, AuditTrail, RequestsAudited, AnswersStored, Revision, Paused,
         StartupRow
<1>2. IInv /\ AInv /\ [Next]_vars => AInv'
  <2> SUFFICES ASSUME IInv, AInv, [Next]_vars PROVE AInv'
    OBVIOUS
  <2>1. CASE \E p \in Callers : CommitTransition(p)
    BY <2>1, CommitExtendsTrail, CommitKeepsAnswers
  <2>2. CASE ~ \E p \in Callers : CommitTransition(p)
    <3>1. /\ UNCHANGED <<events, requests>>
          /\ Revision' = Revision /\ Paused' = Paused
          /\ \A a \in answers' : Stored(a)
      BY <2>2, OnlyCommitsWrite, OnlyStoredAnswered
    <3>2. AuditInv' /\ RequestsAudited'
      BY <3>1 DEF AuditInv, AuditTrail, RequestsAudited
    <3>3. AnswersStored'
      BY <3>1 DEF AnswersStored, Stored
    <3> QED
      BY <3>2, <3>3
  <2> QED
    BY <2>1, <2>2
<1>3. IInv /\ AInv => AnswersHold
  <2> SUFFICES ASSUME IInv, AInv PROVE AnswersHold
    OBVIOUS
  <2>1. \A a \in answers : /\ Stored(a) /\ a.call.id \in RequestIds
                            /\ a \in [call: Calls, revision: Nat]
    BY DEF AnswersStored, Stored, Calls, IInv, TypeOK
  <2>2. \A a \in answers : /\ a.revision \in 1..Len(events)
                            /\ events[a.revision].id = a.call.id
                            /\ events[a.revision].active = a.call.target
    BY <2>1 DEF Stored, RequestsAudited
  <2>3. ASSUME NEW a \in answers, NEW b \in answers, a.call.id = b.call.id
        PROVE  a = b
    <3>1. a.call.target = b.call.target /\ a.call.expected = b.call.expected
          /\ a.revision = b.revision
      BY <2>1, <2>3 DEF Stored
    <3>2. a.call = b.call
      BY <2>1, <2>3, <3>1 DEF Calls
    <3> QED
      BY <2>1, <3>1, <3>2
  <2> QED
    BY <2>2, <2>3 DEF AnswersHold
<1> HIDE DEF AInv
<1> QED
  BY <1>1, <1>2, <1>3, Invariance, PTL DEF Spec
====
