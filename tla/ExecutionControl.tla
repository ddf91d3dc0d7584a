---- MODULE ExecutionControl ----
(***************************************************************************)
(* ExecutionControl.set_paused (services/execution_control.py), statement  *)
(* by statement, for callers that each use a session of their own: look    *)
(* the request id up, read the control row (inserting the paused startup   *)
(* row if there is none), look the id up again, check the expected         *)
(* revision, compare-and-swap the revision, insert the audit event and the *)
(* request row, commit.  A swap that finds another revision rolls back and *)
(* looks the id up a third time.                                           *)
(*                                                                         *)
(* control, events and requests are what is committed.  The update of the  *)
(* control row, and the insert of the first one, lock it until their       *)
(* transaction ends (SQLite locks the whole database from the same         *)
(* statement on).  Actor, operation and reason belong to a call like its   *)
(* target does and are not told apart from it.                             *)
(***************************************************************************)
EXTENDS Integers, Sequences

CONSTANTS Callers,     \* API, CLI, MCP and executor sessions
          RequestIds,  \* ids the callers choose; a retry uses the same one
          Expected,    \* values of expected_revision, None included
          None

Rows == [paused: BOOLEAN, revision: Nat]
Events == [active: BOOLEAN, previous: BOOLEAN, id: RequestIds, revision: Nat]
Calls == [id: RequestIds, target: BOOLEAN, expected: Expected]
Requests == [target: BOOLEAN, expected: Expected, revision: Nat]

ASSUME ControlAssumption ==
    /\ Expected \subseteq Nat \cup {None}
    /\ None \notin Callers \cup Nat \cup Rows \cup Requests

VARIABLES pc,        \* where each caller is in set_paused
          call,      \* its arguments
          seen,      \* the revision and pause flag it read
          lock,      \* the caller whose transaction locked the control row
          control,   \* execution_control_state: the row, or None
          events,    \* kill_switch_events
          requests,  \* execution_control_requests
          answers    \* what callers have been told, with the call it answers

vars == <<pc, call, seen, lock, control, events, requests, answers>>

(* Faulty: numbered so that the first transition becomes revision zero.    *)
StartupBeforeZero == [paused |-> TRUE, revision |-> -1]

StartupRow == [paused |-> TRUE, revision |-> 0]

Goto(p, label) == pc' = [pc EXCEPT ![p] = label]

(* The row in force, also as a transaction sees it that inserted it.       *)
Paused == IF control = None THEN StartupRow.paused ELSE control.paused
Revision == IF control = None THEN StartupRow.revision ELSE control.revision
Row == [paused |-> Paused, revision |-> Revision]

EndSession(p) ==
    /\ Goto(p, "idle")
    /\ call' = [call EXCEPT ![p] = None]
    /\ seen' = [seen EXCEPT ![p] = None]
    /\ lock' = IF lock = p THEN None ELSE lock

Init ==
    /\ pc = [p \in Callers |-> "idle"]
    /\ call = [p \in Callers |-> None]
    /\ seen = [p \in Callers |-> None]
    /\ lock = None
    /\ control = None
    /\ events = << >>
    /\ requests = [r \in RequestIds |-> None]
    /\ answers = {}

Start(p) ==
    /\ pc[p] = "idle"
    /\ \E c \in Calls : call' = [call EXCEPT ![p] = c]
    /\ Goto(p, "lookup1")
    /\ UNCHANGED <<seen, lock, control, events, requests, answers>>

(* _matches: the stored request was made with the same arguments.          *)
Matches(c) ==
    /\ requests[c.id].target = c.target
    /\ requests[c.id].expected = c.expected

(* Faulty: a known id is answered whatever its arguments are.              *)
AnswerAny(c) ==
    answers' = answers \cup {[call |-> c, revision |-> requests[c.id].revision]}

(* _retry found the id: the stored result, or an idempotency conflict.     *)
AnswerStored(c) ==
    answers' = IF Matches(c)
               THEN answers \cup {[call |-> c, revision |-> requests[c.id].revision]}
               ELSE answers

FirstLookup(p) ==
    /\ pc[p] = "lookup1"
    /\ \/ /\ requests[call[p].id] # None
          /\ AnswerStored(call[p])
          /\ EndSession(p)
       \/ /\ requests[call[p].id] = None
          /\ Goto(p, "read")
          /\ UNCHANGED <<call, seen, lock, answers>>
    /\ UNCHANGED <<control, events, requests>>

(* _row: the committed row, or the startup row inserted by this session.   *)
ReadRow(p) ==
    /\ pc[p] = "read"
    /\ \/ control # None /\ UNCHANGED lock
       \/ control = None /\ lock = None /\ lock' = p
    /\ seen' = [seen EXCEPT ![p] = Row]
    /\ Goto(p, "lookup2")
    /\ UNCHANGED <<call, control, events, requests, answers>>

ExpectedRevision(p) == call[p].expected \in {None, seen[p].revision}

(* Faulty: the id is looked up only once.                                  *)
NoSecondLookup(p) ==
    /\ pc[p] = "lookup2" /\ ExpectedRevision(p)
    /\ Goto(p, "swap")
    /\ UNCHANGED <<call, seen, lock, control, events, requests, answers>>

(* Again _retry, now that the row has been read; then the expected         *)
(* revision, whose mismatch raises RevisionConflict.                       *)
SecondLookup(p) ==
    /\ pc[p] = "lookup2"
    /\ \/ /\ requests[call[p].id] # None
          /\ AnswerStored(call[p])
          /\ EndSession(p)
       \/ /\ requests[call[p].id] = None /\ ~ExpectedRevision(p)
          /\ EndSession(p)
          /\ UNCHANGED answers
       \/ /\ requests[call[p].id] = None /\ ExpectedRevision(p)
          /\ Goto(p, "swap")
          /\ UNCHANGED <<call, seen, lock, answers>>
    /\ UNCHANGED <<control, events, requests>>

(* Faulty: the update does not compare the revision.                       *)
AlwaysSwaps(p) == TRUE

Swaps(p) == Revision = seen[p].revision

(* UPDATE .. WHERE revision = the one read waits for the row's lock.       *)
CompareAndSwap(p) ==
    /\ pc[p] = "swap"
    /\ lock \in {None, p}
    /\ \/ Swaps(p) /\ lock' = p /\ Goto(p, "commit") /\ UNCHANGED <<call, seen>>
       \/ ~Swaps(p) /\ lock' = None /\ Goto(p, "lookup3") /\ UNCHANGED <<call, seen>>
    /\ UNCHANGED <<control, events, requests, answers>>

(* Faulty: the audit event repeats the target as the previous state.       *)
EventOfTarget(p) ==
    [active |-> call[p].target, previous |-> call[p].target,
     id |-> call[p].id, revision |-> seen[p].revision + 1]

AuditEvent(p) ==
    [active |-> call[p].target, previous |-> seen[p].paused,
     id |-> call[p].id, revision |-> seen[p].revision + 1]

(* The event and the request row are inserted and the caller commits.      *)
CommitTransition(p) ==
    LET c == call[p]
        next == seen[p].revision + 1
    IN  /\ pc[p] = "commit"
        /\ control' = [paused |-> c.target, revision |-> next]
        /\ events' = Append(events, AuditEvent(p))
        /\ requests' = [requests EXCEPT ![c.id] =
               [target |-> c.target, expected |-> c.expected, revision |-> next]]
        /\ answers' = answers \cup {[call |-> c, revision |-> next]}
        /\ EndSession(p)

(* After the rollback: the stored result of a twin, or a conflict.         *)
LastLookup(p) ==
    /\ pc[p] = "lookup3"
    /\ IF requests[call[p].id] # None THEN AnswerStored(call[p]) ELSE UNCHANGED answers
    /\ EndSession(p)
    /\ UNCHANGED <<control, events, requests>>

(* snapshot() of another session, such as an entry checking the pause      *)
(* flag, inserted the startup row and committed it.                        *)
SnapshotInserts ==
    /\ control = None /\ lock = None
    /\ control' = StartupRow
    /\ UNCHANGED <<pc, call, seen, lock, events, requests, answers>>

(* The caller is cancelled or dies, or the database refuses to wait on.    *)
Abandon(p) ==
    /\ pc[p] # "idle"
    /\ EndSession(p)
    /\ UNCHANGED <<control, events, requests, answers>>

Advance(p) ==
    \/ FirstLookup(p) \/ ReadRow(p) \/ SecondLookup(p)
    \/ CompareAndSwap(p) \/ CommitTransition(p) \/ LastLookup(p)

Next ==
    \/ \E p \in Callers : Start(p) \/ Advance(p) \/ Abandon(p)
    \/ SnapshotInserts

Spec == Init /\ [][Next]_vars

-----------------------------------------------------------------------------
(* Properties                                                              *)

(* Every variable holds values of its type.                                *)
TypeOK ==
    /\ pc \in [Callers -> {"idle", "lookup1", "read", "lookup2",
                           "swap", "commit", "lookup3"}]
    /\ call \in [Callers -> Calls \cup {None}]
    /\ seen \in [Callers -> Rows \cup {None}]
    /\ lock \in Callers \cup {None}
    /\ control \in Rows \cup {None}
    /\ events \in Seq(Events)
    /\ requests \in [RequestIds -> Requests \cup {None}]
    /\ answers \subseteq [call: Calls, revision: Nat]

(* The audit trail is complete and continuous: one event per revision, in  *)
(* order, each starting from the state the previous one left, the last one *)
(* being the state in force (KillSwitchEvent rows of set_paused).          *)
AuditTrail ==
    /\ Len(events) = Revision
    /\ \A i \in 1..Len(events) :
           /\ events[i].revision = i
           /\ events[i].previous = IF i = 1 THEN StartupRow.paused ELSE events[i - 1].active
    /\ events # << >> => events[Len(events)].active = Paused

(* The insert of the request row never meets its own primary key, however  *)
(* retries of one id interleave: the second lookup and the compare-and-    *)
(* swap between them exclude it.                                           *)
NoPrimaryKeyClash ==
    \A p \in Callers : pc[p] = "commit" => requests[call[p].id] = None

(* Two requests never share a revision: each was applied to the state the  *)
(* one before it produced.                                                 *)
OneRequestPerRevision ==
    \A r, t \in RequestIds :
        requests[r] # None /\ requests[t] # None /\ r # t
            => requests[r].revision # requests[t].revision

(* A transition that names an expected revision is applied to it only.     *)
ExpectedHonoured ==
    \A r \in RequestIds :
        requests[r] # None /\ requests[r].expected # None
            => requests[r].revision = requests[r].expected + 1

(* A caller is told of a transition only if it is in the audit trail under *)
(* its id, and every caller told of one id made the same call and is told  *)
(* the same revision (set_paused returns before its caller commits).       *)
AnswersHold ==
    /\ \A a \in answers :
           /\ a.revision \in 1..Len(events)
           /\ events[a.revision].id = a.call.id
           /\ events[a.revision].active = a.call.target
    /\ \A a, b \in answers : a.call.id = b.call.id => a = b

(* The statements implement an atomic register.                            *)
Register == INSTANCE ControlRegister
    WITH paused <- Paused, revision <- Revision, applied <- requests
RegisterSpec == Register!Spec
====
