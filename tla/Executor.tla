---- MODULE Executor ----
(***************************************************************************)
(* Executor (services/executor.py): executor processes submit order        *)
(* intents and reconcile the orders they placed, each call in a session of *)
(* its own that its caller commits, while operators pause and resume.      *)
(* Processes in LiveProcs run with execution enabled, the others simulate  *)
(* the fill.                                                               *)
(*                                                                         *)
(* Execution control is the atomic register its own module implements,     *)
(* kept here as its audit trail: the n-th transition made revision n.      *)
(* The exchange behind the adapter is external: it places an order for     *)
(* every call that reaches it, and its answer may be lost.                 *)
(***************************************************************************)
EXTENDS Integers, Sequences

CONSTANTS Procs, LiveProcs,
          Intents,         \* client_order_id of an OrderIntent
          Reports,         \* other statuses the exchange reports
          Crashes,         \* whether calls are cut short
          MaxTransitions,  \* bound: transitions of execution control
          MaxOrders,       \* bound: orders at the exchange
          None

Statuses == Reports \cup {"submitted", "filled", "unknown"}

(* provider: the order at the exchange, 0 when it was simulated.           *)
Orders == [mode: {"paper", "live"}, revision: Nat, provider: Nat, status: Statuses]
Events == [intent: Intents, expected: Statuses, actual: Statuses, matched: BOOLEAN]

ASSUME ExecutorAssumption ==
    /\ LiveProcs \subseteq Procs
    /\ Crashes \in BOOLEAN
    /\ MaxTransitions \in Nat /\ MaxOrders \in Nat
    /\ None \notin Intents \cup Statuses \cup Orders

VARIABLES pc,         \* where each process is in its call
          intent,     \* the intent submitted or reconciled
          seen,       \* the control revision the call read
          loaded,     \* the status the order had when the call loaded it
          placed,     \* the order the exchange answered with, or 0
          answer,     \* the status the exchange answered with
          (* ------------------------------------------------------------- *)
          control,    \* transitions of execution control: TRUE pauses
          orders,     \* execution_orders by client_order_id
          events,     \* reconciliation_events
          exchange    \* external: the intent each placed order came with

local == <<pc, intent, seen, loaded, placed, answer>>
vars == <<local, control, orders, events, exchange>>

Revision == Len(control)
Paused == IF control = << >> THEN TRUE ELSE control[Len(control)]

Goto(p, label) == pc' = [pc EXCEPT ![p] = label]

(* The call returns or raises; without a commit it leaves nothing behind.  *)
EndCall(p) ==
    /\ Goto(p, "idle")
    /\ intent' = [intent EXCEPT ![p] = None]
    /\ seen' = [seen EXCEPT ![p] = 0]
    /\ loaded' = [loaded EXCEPT ![p] = None]
    /\ placed' = [placed EXCEPT ![p] = 0]
    /\ answer' = [answer EXCEPT ![p] = None]

Begin(p, label, i) ==
    /\ pc[p] = "idle"
    /\ Goto(p, label)
    /\ intent' = [intent EXCEPT ![p] = i]
    /\ loaded' = [loaded EXCEPT ![p] = IF orders[i] = None THEN None ELSE orders[i].status]
    /\ UNCHANGED <<seen, placed, answer>>

Init ==
    /\ pc = [p \in Procs |-> "idle"]
    /\ intent = [p \in Procs |-> None]
    /\ seen = [p \in Procs |-> 0]
    /\ loaded = [p \in Procs |-> None]
    /\ placed = [p \in Procs |-> 0]
    /\ answer = [p \in Procs |-> None]
    /\ control = << >>
    /\ orders = [i \in Intents |-> None]
    /\ events = {}
    /\ exchange = << >>

-----------------------------------------------------------------------------
(* submit                                                                  *)

(* A recorded order is returned; a new intent with an approved risk        *)
(* decision goes on.                                                       *)
StartSubmit(p) ==
    /\ \E i \in Intents : orders[i] = None /\ Begin(p, "validate", i)
    /\ UNCHANGED <<control, orders, events, exchange>>

(* The control snapshot: a pause refuses the order.                        *)
Validate(p) ==
    /\ pc[p] = "validate"
    /\ \/ Paused /\ EndCall(p)
       \/ /\ ~Paused
          /\ seen' = [seen EXCEPT ![p] = Revision]
          /\ Goto(p, "geoblock")
          /\ UNCHANGED <<intent, loaded, placed, answer>>
    /\ UNCHANGED <<control, orders, events, exchange>>

(* The geoblock request, which may refuse.                                 *)
CheckGeoblock(p) ==
    /\ pc[p] = "geoblock"
    /\ \/ EndCall(p)
       \/ /\ Goto(p, IF p \in LiveProcs THEN "recheck" ELSE "record")
          /\ UNCHANGED <<intent, seen, loaded, placed, answer>>
    /\ UNCHANGED <<control, orders, events, exchange>>

(* Faulty: the second snapshot is taken for its revision only.             *)
AnyControl(p) == TRUE

SameControl(p) == ~Paused /\ Revision = seen[p]

(* The second snapshot; the order records its revision.                    *)
RecheckControl(p) ==
    /\ pc[p] = "recheck"
    /\ \/ ~SameControl(p) /\ EndCall(p)
       \/ /\ SameControl(p)
          /\ seen' = [seen EXCEPT ![p] = Revision]
          /\ Goto(p, "risk")
          /\ UNCHANGED <<intent, loaded, placed, answer>>
    /\ UNCHANGED <<control, orders, events, exchange>>

(* risk_recheck is awaited and may refuse.                                 *)
RecheckRisk(p) ==
    /\ pc[p] = "risk"
    /\ \/ EndCall(p)
       \/ Goto(p, "place") /\ UNCHANGED <<intent, seen, loaded, placed, answer>>
    /\ UNCHANGED <<control, orders, events, exchange>>

(* adapter.submit: the order is placed and its id answered, or the call    *)
(* raises, whether or not the order was placed.                            *)
PlaceOrder(p) ==
    /\ pc[p] = "place" /\ Len(exchange) < MaxOrders
    /\ \/ /\ exchange' = Append(exchange, intent[p])
          /\ placed' = [placed EXCEPT ![p] = Len(exchange) + 1]
          /\ Goto(p, "record")
          /\ UNCHANGED <<intent, seen, loaded, answer>>
       \/ /\ Crashes
          /\ exchange' \in {exchange, Append(exchange, intent[p])}
          /\ EndCall(p)
    /\ UNCHANGED <<control, orders, events>>

(* Faulty: the row takes the status a status request would have answered.  *)
RowOfAnswer(p) ==
    [mode |-> "live", revision |-> seen[p], provider |-> placed[p], status |-> answer[p]]

OrderRow(p) ==
    [mode |-> IF p \in LiveProcs THEN "live" ELSE "paper",
     revision |-> seen[p], provider |-> placed[p],
     status |-> IF p \in LiveProcs THEN "submitted" ELSE "filled"]

(* Faulty: the row is merged, so the last writer wins.                     *)
Merged(p) == [orders EXCEPT ![intent[p]] = OrderRow(p)]

(* Its unique client_order_id refuses the second of two rows.              *)
Inserted(p) ==
    IF orders[intent[p]] = None
    THEN [orders EXCEPT ![intent[p]] = OrderRow(p)]
    ELSE orders

(* The row is inserted and committed.                                      *)
RecordOrder(p) ==
    /\ pc[p] = "record"
    /\ orders' = Inserted(p)
    /\ EndCall(p)
    /\ UNCHANGED <<control, events, exchange>>

-----------------------------------------------------------------------------
(* reconcile                                                               *)

(* An order of a simulated fill is reconciled as it is.                    *)
StartReconcile(p) ==
    /\ p \in LiveProcs
    /\ \E i \in Intents :
           orders[i] # None /\ orders[i].mode = "live" /\ Begin(p, "status", i)
    /\ UNCHANGED <<control, orders, events, exchange>>

(* adapter.status: any status, or unknown; a mismatch goes on to set_paused. *)
AskStatus(p) ==
    /\ pc[p] = "status"
    /\ \E status \in Statuses :
           /\ answer' = [answer EXCEPT ![p] = status]
           /\ Goto(p, IF status \in {loaded[p]} \ {"unknown"} THEN "match" ELSE "pause")
    /\ UNCHANGED <<intent, seen, loaded, placed, control, orders, events, exchange>>

(* The matching status is recorded.                                        *)
CommitMatch(p) ==
    /\ pc[p] = "match"
    /\ events' = events \cup {[intent |-> intent[p], expected |-> answer[p],
                               actual |-> answer[p], matched |-> TRUE]}
    /\ EndCall(p)
    /\ UNCHANGED <<control, orders, exchange>>

(* set_paused reads the control row.                                       *)
ReadControl(p) ==
    /\ pc[p] = "pause"
    /\ seen' = [seen EXCEPT ![p] = Revision]
    /\ Goto(p, "swap")
    /\ UNCHANGED <<intent, loaded, placed, answer, control, orders, events, exchange>>

Mismatch(p) ==
    [intent |-> intent[p], expected |-> loaded[p], actual |-> answer[p], matched |-> FALSE]

(* The status the row gets: an unknown one is not stored.                  *)
Updated(p) ==
    IF answer[p] = "unknown" THEN orders
    ELSE [orders EXCEPT ![intent[p]].status = answer[p]]

(* Faulty: the conflict is swallowed, and the caller's commit goes ahead.  *)
CommittedAnyway(p) ==
    events' = events \cup {Mismatch(p)} /\ orders' = Updated(p)

(* Faulty: the event alone is added in a nested transaction.               *)
EventRolledBack(p) == orders' = Updated(p) /\ UNCHANGED events

(* set_paused rolls the whole session back and raises.                     *)
RolledBack(p) == UNCHANGED <<events, orders>>

(* The compare-and-swap of set_paused and the caller's commit: the event,  *)
(* the status unless it is unknown, and the pause, or none of them.        *)
PauseEntries(p) ==
    /\ pc[p] = "swap"
    /\ \/ Revision # seen[p] /\ RolledBack(p) /\ UNCHANGED control
       \/ /\ Revision = seen[p] /\ Revision < MaxTransitions
          /\ control' = Append(control, TRUE)
          /\ events' = events \cup {Mismatch(p)}
          /\ orders' = Updated(p)
    /\ EndCall(p)
    /\ UNCHANGED exchange

-----------------------------------------------------------------------------
(* ExecutionControl.set_paused of another process.                         *)
Operate ==
    /\ Revision < MaxTransitions
    /\ \E target \in BOOLEAN : control' = Append(control, target)
    /\ UNCHANGED <<local, orders, events, exchange>>

(* A process is cancelled or dies.                                         *)
Abandon(p) ==
    /\ Crashes /\ pc[p] # "idle"
    /\ EndCall(p)
    /\ UNCHANGED <<control, orders, events, exchange>>

Submit(p) ==
    \/ StartSubmit(p) \/ Validate(p) \/ CheckGeoblock(p) \/ RecheckControl(p)
    \/ RecheckRisk(p) \/ PlaceOrder(p) \/ RecordOrder(p)

Reconcile(p) ==
    \/ StartReconcile(p) \/ AskStatus(p) \/ CommitMatch(p)
    \/ ReadControl(p) \/ PauseEntries(p)

Next == Operate \/ \E p \in Procs : Submit(p) \/ Reconcile(p) \/ Abandon(p)

Spec == Init /\ [][Next]_vars

-----------------------------------------------------------------------------
(* Properties                                                              *)

(* Every variable holds values of its type.                                *)
TypeOK ==
    /\ pc \in [Procs -> {"idle", "validate", "geoblock", "recheck", "risk", "place",
                         "record", "status", "match", "pause", "swap"}]
    /\ intent \in [Procs -> Intents \cup {None}]
    /\ seen \in [Procs -> Nat]
    /\ loaded \in [Procs -> Statuses \cup {None}]
    /\ placed \in [Procs -> Nat]
    /\ answer \in [Procs -> Statuses \cup {None}]
    /\ control \in Seq(BOOLEAN)
    /\ orders \in [Intents -> Orders \cup {None}]
    /\ events \subseteq Events
    /\ exchange \in Seq(Intents)

(* The control_revision an order row records names a transition of the     *)
(* audit trail that resumed entries, whatever paused and resumed them      *)
(* while submit awaited the geoblock and risk checks.                      *)
EntriesAudited ==
    \A i \in Intents : orders[i] # None =>
        orders[i].revision \in 1..Len(control) /\ ~control[orders[i].revision]

(* A recorded order is never replaced by a submit that raced with it.      *)
RecordKept ==
    [][\A i \in Intents : orders[i] # None =>
        orders'[i] # None /\ orders'[i].provider = orders[i].provider
                          /\ orders'[i].revision = orders[i].revision]_vars

(* A mismatch enters the reconciliation events only with the pause it      *)
(* calls for, in one commit.                                               *)
MismatchPauses ==
    [][\A e \in events' \ events : ~e.matched => Paused' /\ Revision' = Revision + 1]_vars

(* Each status the exchange gave a live order is in its events.            *)
StatusAudited ==
    \A i \in Intents :
        orders[i] # None /\ orders[i].mode = "live" /\ orders[i].status # "submitted" =>
            \E e \in events : e.intent = i /\ e.actual = orders[i].status
====
