---- MODULE ExecutorProofs ----
(***************************************************************************)
(* Safety of Executor for any processes, intents and statuses.             *)
(***************************************************************************)
EXTENDS Executor, TLAPS

Ordering == {"geoblock", "recheck", "risk", "place", "record"}
Reconciling == {"status", "match", "pause", "swap"}

(* What a call in progress knows: the revision a submit validated against  *)
(* resumed entries; a reconcile works on a recorded live order.            *)
CallOK(p) ==
    /\ pc[p] # "idle" => intent[p] \in Intents
    /\ pc[p] \in Ordering => seen[p] \in 1..Len(control) /\ ~control[seen[p]]
    /\ pc[p] \in Reconciling => orders[intent[p]] # None /\ loaded[p] \in Statuses
    /\ pc[p] \in {"match", "pause", "swap"} => answer[p] \in Statuses

IInv ==
    /\ TypeOK
    /\ \A p \in Procs : CallOK(p)
    /\ EntriesAudited
    /\ StatusAudited

LEMMA InitInv == Init => IInv
  BY ExecutorAssumption
     DEF Init, IInv, TypeOK, CallOK, EntriesAudited, StatusAudited, Ordering, Reconciling

(* A transition of execution control keeps the trail it extends.           *)
LEMMA TrailGrows ==
    ASSUME TypeOK, NEW target \in BOOLEAN, control' = Append(control, target)
    PROVE  /\ control' \in Seq(BOOLEAN)
           /\ Revision' = Revision + 1 /\ Paused' = target
           /\ \A n \in 1..Len(control) : n \in 1..Len(control') /\ control'[n] = control[n]
<1>1. /\ control \in Seq(BOOLEAN) /\ control' \in Seq(BOOLEAN)
      /\ Len(control) \in Nat /\ Len(control') = Len(control) + 1
      /\ control'[Len(control) + 1] = target
  BY DEF TypeOK
<1>2. ASSUME NEW n \in 1..Len(control)
      PROVE  n \in 1..Len(control') /\ control'[n] = control[n]
  BY <1>1
<1>3. control' # << >>
  BY <1>1
<1>4. Paused' = target
  BY <1>1, <1>3 DEF Paused
<1> QED
  BY <1>1, <1>2, <1>4 DEF Revision

(* What the other calls know survives when no row is removed and the trail *)
(* is only extended.                                                       *)
LEMMA OthersKeep ==
    ASSUME IInv, NEW p \in Procs, NEW q \in Procs, q # p,
           pc'[q] = pc[q], intent'[q] = intent[q], seen'[q] = seen[q],
           loaded'[q] = loaded[q], answer'[q] = answer[q],
           \A n \in 1..Len(control) : n \in 1..Len(control') /\ control'[n] = control[n],
           \A i \in Intents : orders[i] # None => orders'[i] # None
    PROVE  CallOK(q)'
  BY DEF IInv, CallOK, Ordering, Reconciling

(* Ending a call.                                                          *)
LEMMA Ended ==
    ASSUME IInv, NEW p \in Procs, EndCall(p),
           control' \in Seq(BOOLEAN), orders' \in [Intents -> Orders \cup {None}],
           events' \subseteq Events, exchange' \in Seq(Intents),
           \A n \in 1..Len(control) : n \in 1..Len(control') /\ control'[n] = control[n],
           \A i \in Intents : orders[i] # None => orders'[i] # None
    PROVE  TypeOK' /\ \A q \in Procs : CallOK(q)'
<1>1. TypeOK'
  BY DEF IInv, TypeOK, EndCall, Goto
<1>2. CallOK(p)'
  BY DEF IInv, TypeOK, EndCall, Goto, CallOK, Ordering, Reconciling
<1>3. ASSUME NEW q \in Procs, q # p PROVE CallOK(q)'
  <2>1. pc'[q] = pc[q] /\ intent'[q] = intent[q] /\ seen'[q] = seen[q]
        /\ loaded'[q] = loaded[q] /\ answer'[q] = answer[q]
    BY <1>3 DEF IInv, TypeOK, EndCall, Goto
  <2> QED
    BY <1>3, <2>1, OthersKeep
<1> QED
  BY <1>1, <1>2, <1>3

(* A step that commits nothing keeps what is said of the tables.           *)
LEMMA TablesKept ==
    ASSUME IInv, UNCHANGED <<control, orders, events>>
    PROVE  EntriesAudited' /\ StatusAudited'
  BY DEF IInv, EntriesAudited, StatusAudited

LEMMA EndedUncommitted ==
    ASSUME IInv, NEW p \in Procs, EndCall(p), UNCHANGED <<control, orders, events>>,
           exchange' \in Seq(Intents)
    PROVE  IInv'
<1>1. control' \in Seq(BOOLEAN) /\ orders' \in [Intents -> Orders \cup {None}]
      /\ events' \subseteq Events
  BY DEF IInv, TypeOK
<1> QED
  BY <1>1, Ended, TablesKept DEF IInv

(* A step of a call that goes on and commits nothing.                      *)
LEMMA WentOn ==
    ASSUME IInv, NEW p \in Procs, UNCHANGED <<control, orders, events>>, TypeOK', CallOK(p)',
           \A q \in Procs \ {p} :
               pc'[q] = pc[q] /\ intent'[q] = intent[q] /\ seen'[q] = seen[q]
               /\ loaded'[q] = loaded[q] /\ answer'[q] = answer[q]
    PROVE  IInv'
<1>1. ASSUME NEW q \in Procs, q # p PROVE CallOK(q)'
  BY <1>1, OthersKeep
<1> QED
  BY <1>1, TablesKept DEF IInv

LEMMA SubmitStep ==
    ASSUME IInv, NEW p \in Procs, Submit(p)
    PROVE  IInv'
<1> USE DEF CallOK, Ordering, Reconciling, Goto
<1>1. CASE StartSubmit(p)
  <2>1. TypeOK' /\ CallOK(p)'
    BY <1>1 DEF StartSubmit, Begin, IInv, TypeOK
  <2>2. \A q \in Procs \ {p} :
            pc'[q] = pc[q] /\ intent'[q] = intent[q] /\ seen'[q] = seen[q]
            /\ loaded'[q] = loaded[q] /\ answer'[q] = answer[q]
    BY <1>1 DEF StartSubmit, Begin, IInv, TypeOK
  <2> QED
    BY <1>1, <2>1, <2>2, WentOn DEF StartSubmit
<1>2. CASE Validate(p)
  <2>1. CASE EndCall(p)
    BY <1>2, <2>1, EndedUncommitted DEF Validate, IInv, TypeOK
  <2>2. CASE ~Paused /\ seen' = [seen EXCEPT ![p] = Revision]
             /\ Goto(p, "geoblock") /\ UNCHANGED <<intent, loaded, placed, answer>>
    <3>1. Revision \in 1..Len(control) /\ ~control[Revision]
      BY <2>2 DEF IInv, TypeOK, Paused, Revision
    <3>2. TypeOK'
      BY <1>2, <2>2, <3>1 DEF Validate, IInv, TypeOK, Revision
    <3>3. CallOK(p)'
      BY <1>2, <2>2, <3>1 DEF Validate, IInv, TypeOK
    <3> QED
      BY <1>2, <2>2, <3>2, <3>3, WentOn DEF Validate, IInv, TypeOK
  <2> QED
    BY <1>2, <2>1, <2>2 DEF Validate
<1>3. CASE CheckGeoblock(p)
  <2>1. CASE EndCall(p)
    BY <1>3, <2>1, EndedUncommitted DEF CheckGeoblock, IInv, TypeOK
  <2>2. CASE Goto(p, IF p \in LiveProcs THEN "recheck" ELSE "record")
             /\ UNCHANGED <<intent, seen, loaded, placed, answer>>
    BY <1>3, <2>2, WentOn DEF CheckGeoblock, IInv, TypeOK
  <2> QED
    BY <1>3, <2>1, <2>2 DEF CheckGeoblock
<1>4. CASE RecheckControl(p)
  <2>1. CASE EndCall(p)
    BY <1>4, <2>1, EndedUncommitted DEF RecheckControl, IInv, TypeOK
  <2>2. CASE SameControl(p) /\ seen' = [seen EXCEPT ![p] = Revision]
             /\ Goto(p, "risk") /\ UNCHANGED <<intent, loaded, placed, answer>>
    <3>1. Revision \in Nat /\ Revision = seen[p]
      BY <2>2 DEF SameControl, Revision, IInv, TypeOK
    <3>2. TypeOK'
      BY <1>4, <2>2, <3>1 DEF RecheckControl, IInv, TypeOK
    <3>3. CallOK(p)'
      BY <1>4, <2>2, <3>1 DEF RecheckControl, IInv, TypeOK
    <3> QED
      BY <1>4, <2>2, <3>2, <3>3, WentOn DEF RecheckControl, IInv, TypeOK
  <2> QED
    BY <1>4, <2>1, <2>2 DEF RecheckControl
<1>5. CASE RecheckRisk(p)
  <2>1. CASE EndCall(p)
    BY <1>5, <2>1, EndedUncommitted DEF RecheckRisk, IInv, TypeOK
  <2>2. CASE Goto(p, "place") /\ UNCHANGED <<intent, seen, loaded, placed, answer>>
    BY <1>5, <2>2, WentOn DEF RecheckRisk, IInv, TypeOK
  <2> QED
    BY <1>5, <2>1, <2>2 DEF RecheckRisk
<1>6. CASE PlaceOrder(p)
  <2>1. Append(exchange, intent[p]) \in Seq(Intents) /\ exchange \in Seq(Intents)
        /\ Len(exchange) + 1 \in Nat
    BY <1>6 DEF PlaceOrder, IInv, TypeOK
  <2>2. CASE EndCall(p) /\ exchange' \in {exchange, Append(exchange, intent[p])}
    BY <1>6, <2>1, <2>2, EndedUncommitted DEF PlaceOrder
  <2>3. CASE exchange' = Append(exchange, intent[p])
             /\ placed' = [placed EXCEPT ![p] = Len(exchange) + 1]
             /\ Goto(p, "record") /\ UNCHANGED <<intent, seen, loaded, answer>>
    <3>1. TypeOK'
      BY <1>6, <2>1, <2>3 DEF PlaceOrder, IInv, TypeOK
    <3>2. CallOK(p)'
      BY <1>6, <2>3 DEF PlaceOrder, IInv, TypeOK
    <3> QED
      BY <1>6, <2>3, <3>1, <3>2, WentOn DEF PlaceOrder, IInv, TypeOK
  <2> QED
    BY <1>6, <2>2, <2>3 DEF PlaceOrder
<1>7. CASE RecordOrder(p)
  <2> DEFINE i == intent[p]
  <2>1. OrderRow(p) \in Orders /\ i \in Intents
    BY <1>7 DEF RecordOrder, OrderRow, Orders, Statuses, IInv, TypeOK
  <2>2. orders' \in [Intents -> Orders \cup {None}]
        /\ \A j \in Intents : orders[j] # None => orders'[j] = orders[j]
    BY <1>7, <2>1 DEF RecordOrder, Inserted, IInv, TypeOK
  <2>3. TypeOK' /\ \A q \in Procs : CallOK(q)'
    BY <1>7, <2>2, Ended DEF RecordOrder, IInv, TypeOK
  <2>4. ASSUME NEW j \in Intents, orders'[j] # None
        PROVE  /\ orders'[j].revision \in 1..Len(control) /\ ~control[orders'[j].revision]
               /\ orders'[j].mode = "live" /\ orders'[j].status # "submitted" =>
                      \E e \in events : e.intent = j /\ e.actual = orders'[j].status
    <3>1. CASE orders[j] # None
      <4>1. orders'[j] = orders[j]
        BY <2>2, <3>1
      <4> QED
        BY <4>1, <3>1 DEF IInv, EntriesAudited, StatusAudited
    <3>2. CASE orders[j] = None
      <4>1. j = i /\ orders'[j] = OrderRow(p)
        BY <1>7, <2>1, <2>4, <3>2 DEF RecordOrder, Inserted, IInv, TypeOK
      <4>2. seen[p] \in 1..Len(control) /\ ~control[seen[p]]
        BY <1>7 DEF RecordOrder, IInv
      <4>3. orders'[j].revision = seen[p]
        BY <4>1 DEF OrderRow
      <4>4. orders'[j].mode = "live" => p \in LiveProcs
        BY <4>1 DEF OrderRow
      <4>5. p \in LiveProcs => orders'[j].status = "submitted"
        BY <4>1 DEF OrderRow
      <4> QED
        BY <4>2, <4>3, <4>4, <4>5
    <3> QED
      BY <3>1, <3>2
  <2>5. EntriesAudited' /\ StatusAudited'
    BY <1>7, <2>4 DEF RecordOrder, EntriesAudited, StatusAudited
  <2> QED
    BY <2>3, <2>5 DEF IInv
<1> QED
  BY <1>1, <1>2, <1>3, <1>4, <1>5, <1>6, <1>7 DEF Submit

LEMMA ReconcileStep ==
    ASSUME IInv, NEW p \in Procs, Reconcile(p)
    PROVE  IInv'
<1> USE DEF CallOK, Ordering, Reconciling, Goto
<1>1. CASE StartReconcile(p)
  <2>1. TypeOK' /\ CallOK(p)'
    BY <1>1 DEF StartReconcile, Begin, IInv, TypeOK, Orders
  <2>2. \A q \in Procs \ {p} :
            pc'[q] = pc[q] /\ intent'[q] = intent[q] /\ seen'[q] = seen[q]
            /\ loaded'[q] = loaded[q] /\ answer'[q] = answer[q]
    BY <1>1 DEF StartReconcile, Begin, IInv, TypeOK
  <2> QED
    BY <1>1, <2>1, <2>2, WentOn DEF StartReconcile
<1>2. CASE AskStatus(p)
  <2>1. TypeOK' /\ CallOK(p)'
    BY <1>2 DEF AskStatus, IInv, TypeOK
  <2>2. \A q \in Procs \ {p} :
            pc'[q] = pc[q] /\ intent'[q] = intent[q] /\ seen'[q] = seen[q]
            /\ loaded'[q] = loaded[q] /\ answer'[q] = answer[q]
    BY <1>2 DEF AskStatus, IInv, TypeOK
  <2> QED
    BY <1>2, <2>1, <2>2, WentOn DEF AskStatus
<1>3. CASE CommitMatch(p)
  <2> DEFINE e == [intent |-> intent[p], expected |-> answer[p],
                   actual |-> answer[p], matched |-> TRUE]
  <2>1. e \in Events
    BY <1>3 DEF CommitMatch, Events, IInv
  <2>2. TypeOK' /\ \A q \in Procs : CallOK(q)'
    BY <1>3, <2>1, Ended DEF CommitMatch, IInv, TypeOK
  <2> QED
    BY <1>3, <2>2 DEF CommitMatch, IInv, EntriesAudited, StatusAudited
<1>4. CASE ReadControl(p)
  <2>1. TypeOK' /\ CallOK(p)'
    BY <1>4 DEF ReadControl, Revision, IInv, TypeOK
  <2>2. \A q \in Procs \ {p} :
            pc'[q] = pc[q] /\ intent'[q] = intent[q] /\ seen'[q] = seen[q]
            /\ loaded'[q] = loaded[q] /\ answer'[q] = answer[q]
    BY <1>4 DEF ReadControl, IInv, TypeOK
  <2> QED
    BY <1>4, <2>1, <2>2, WentOn DEF ReadControl
<1>5. CASE PauseEntries(p)
  <2>1. CASE Revision # seen[p] /\ RolledBack(p) /\ UNCHANGED control
    BY <1>5, <2>1, EndedUncommitted DEF PauseEntries, RolledBack, IInv, TypeOK
  <2>2. CASE /\ control' = Append(control, TRUE)
             /\ events' = events \cup {Mismatch(p)} /\ orders' = Updated(p)
    <3> DEFINE i == intent[p]
    <3>1. /\ control' \in Seq(BOOLEAN)
          /\ \A n \in 1..Len(control) : n \in 1..Len(control') /\ control'[n] = control[n]
      BY <2>2, TrailGrows DEF IInv
    <3>2. i \in Intents /\ loaded[p] \in Statuses /\ answer[p] \in Statuses
          /\ orders[i] \in Orders
      BY <1>5 DEF PauseEntries, IInv, TypeOK
    <3>3. Mismatch(p) \in Events
      BY <3>2 DEF Mismatch, Events
    <3>4. /\ orders' \in [Intents -> Orders \cup {None}]
          /\ \A j \in Intents : /\ j # i => orders'[j] = orders[j]
                                /\ orders[j] # None => orders'[j] # None
          /\ orders'[i].revision = orders[i].revision
          /\ orders'[i].status = answer[p] \/ orders'[i] = orders[i]
      <4>1. CASE answer[p] = "unknown"
        BY <2>2, <4>1 DEF Updated, IInv, TypeOK
      <4>2. CASE answer[p] # "unknown"
        <5>1. orders' = [orders EXCEPT ![i] = [orders[i] EXCEPT !.status = answer[p]]]
          BY <2>2, <3>2, <4>2 DEF Updated, IInv, TypeOK
        <5>2. [orders[i] EXCEPT !.status = answer[p]] \in Orders
          BY <3>2 DEF Orders
        <5>3. /\ [orders[i] EXCEPT !.status = answer[p]].status = answer[p]
              /\ [orders[i] EXCEPT !.status = answer[p]].revision = orders[i].revision
          BY <3>2 DEF Orders
        <5>4. orders'[i] = [orders[i] EXCEPT !.status = answer[p]]
          BY <3>2, <5>1 DEF IInv, TypeOK
        <5>5. /\ orders' \in [Intents -> Orders \cup {None}]
              /\ \A j \in Intents : j # i => orders'[j] = orders[j]
          BY <3>2, <5>1, <5>2 DEF IInv, TypeOK
        <5>6. orders'[i] # None
          BY <5>2, <5>4, ExecutorAssumption
        <5> QED
          BY <5>3, <5>4, <5>5, <5>6
      <4> QED
        BY <4>1, <4>2
    <3>5. TypeOK' /\ \A q \in Procs : CallOK(q)'
      BY <1>5, <2>2, <3>1, <3>3, <3>4, Ended DEF PauseEntries, IInv, TypeOK
    <3>6. EntriesAudited'
      <4>1. ASSUME NEW j \in Intents, orders'[j] # None
            PROVE  orders'[j].revision \in 1..Len(control')
                   /\ ~control'[orders'[j].revision]
        <5>1. orders[j] # None /\ orders'[j].revision = orders[j].revision
          BY <3>2, <3>4, <4>1, ExecutorAssumption
        <5> QED
          BY <3>1, <5>1 DEF IInv, EntriesAudited
      <4> QED
        BY <4>1 DEF EntriesAudited
    <3>7. StatusAudited'
      <4>1. ASSUME NEW j \in Intents, orders'[j] # None,
                   orders'[j].mode = "live", orders'[j].status # "submitted"
            PROVE  \E e \in events' : e.intent = j /\ e.actual = orders'[j].status
        <5>1. CASE orders'[j] = orders[j]
          BY <2>2, <4>1, <5>1 DEF IInv, StatusAudited
        <5>2. CASE orders'[j] # orders[j]
          <6>1. j = i /\ orders'[j].status = answer[p]
            BY <3>4, <5>2
          <6>2. Mismatch(p).intent = j /\ Mismatch(p).actual = orders'[j].status
                /\ Mismatch(p) \in events'
            BY <2>2, <6>1 DEF Mismatch
          <6> QED
            BY <6>2
        <5> QED
          BY <5>1, <5>2
      <4> QED
        BY <4>1 DEF StatusAudited
    <3> QED
      BY <3>5, <3>6, <3>7 DEF IInv
  <2> QED
    BY <1>5, <2>1, <2>2 DEF PauseEntries
<1> QED
  BY <1>1, <1>2, <1>3, <1>4, <1>5 DEF Reconcile

LEMMA OperateStep ==
    ASSUME IInv, Operate
    PROVE  IInv'
<1>1. PICK target \in BOOLEAN : control' = Append(control, target)
  BY DEF Operate
<1>2. /\ control' \in Seq(BOOLEAN)
      /\ \A n \in 1..Len(control) : n \in 1..Len(control') /\ control'[n] = control[n]
  BY <1>1, TrailGrows DEF IInv
<1>3. TypeOK'
  BY <1>2 DEF Operate, local, IInv, TypeOK
<1>4. ASSUME NEW q \in Procs PROVE CallOK(q)'
  BY <1>2 DEF Operate, local, IInv, CallOK, Ordering, Reconciling
<1>5. EntriesAudited' /\ StatusAudited'
  BY <1>2 DEF Operate, IInv, EntriesAudited, StatusAudited
<1> QED
  BY <1>3, <1>4, <1>5 DEF IInv

LEMMA NextInv ==
    ASSUME IInv, [Next]_vars
    PROVE  IInv'
<1>1. CASE Operate
  BY <1>1, OperateStep
<1>2. ASSUME NEW p \in Procs, Submit(p) PROVE IInv'
  BY <1>2, SubmitStep
<1>3. ASSUME NEW p \in Procs, Reconcile(p) PROVE IInv'
  BY <1>3, ReconcileStep
<1>4. ASSUME NEW p \in Procs, Abandon(p) PROVE IInv'
  BY <1>4, EndedUncommitted DEF Abandon, IInv, TypeOK
<1>5. CASE UNCHANGED vars
  BY <1>5 DEF vars, local, IInv, TypeOK, CallOK, EntriesAudited, StatusAudited
<1> QED
  BY <1>1, <1>2, <1>3, <1>4, <1>5 DEF Next

LEMMA Invariant == Spec => []IInv
  BY InitInv, NextInv, PTL DEF Spec

-----------------------------------------------------------------------------
(* Every variable keeps its type.                                          *)
THEOREM TypeCorrect == Spec => []TypeOK
<1>1. IInv => TypeOK
  BY DEF IInv
<1> QED
  BY <1>1, Invariant, PTL

(* Whatever pauses and resumes entries during a submit, the order it       *)
(* records names a revision at which entries ran.                          *)
THEOREM EntriesWereAudited == Spec => []EntriesAudited
<1>1. IInv => EntriesAudited
  BY DEF IInv
<1> QED
  BY <1>1, Invariant, PTL

(* No status reaches a live order without its reconciliation event.        *)
THEOREM StatusesAudited == Spec => []StatusAudited
<1>1. IInv => StatusAudited
  BY DEF IInv
<1> QED
  BY <1>1, Invariant, PTL

(* The order recorded for an intent is never replaced.                     *)
THEOREM RecordsKept == Spec => RecordKept
<1> DEFINE Kept == \A i \in Intents : orders[i] # None =>
                       orders'[i] # None /\ orders'[i].provider = orders[i].provider
                                         /\ orders'[i].revision = orders[i].revision
<1>1. ASSUME IInv, [Next]_vars PROVE [Kept]_vars
  <2>1. ASSUME NEW p \in Procs, RecordOrder(p) PROVE Kept
    BY <1>1, <2>1 DEF RecordOrder, Inserted, IInv, TypeOK, CallOK, Ordering
  <2>2. ASSUME NEW p \in Procs, PauseEntries(p) PROVE Kept
    <3>1. intent[p] \in Intents /\ orders[intent[p]] \in Orders
      BY <1>1, <2>2 DEF PauseEntries, IInv, TypeOK, CallOK, Reconciling
    <3>2. CASE orders' = orders
      BY <3>2
    <3>3. CASE orders' = [orders EXCEPT ![intent[p]].status = answer[p]]
      <4>1. orders'[intent[p]] = [orders[intent[p]] EXCEPT !.status = answer[p]]
        BY <1>1, <3>1, <3>3 DEF IInv, TypeOK
      <4>2. \A j \in Intents : j # intent[p] => orders'[j] = orders[j]
        BY <1>1, <3>1, <3>3 DEF IInv, TypeOK
      <4>3. /\ orders'[intent[p]].provider = orders[intent[p]].provider
            /\ orders'[intent[p]].revision = orders[intent[p]].revision
            /\ orders'[intent[p]].status = answer[p]
        BY <3>1, <4>1 DEF Orders
      <4>4. [orders[intent[p]] EXCEPT !.status = answer[p]] \in Orders
        <5>1. answer[p] \in Statuses
          BY <1>1, <2>2 DEF PauseEntries, IInv, CallOK
        <5> QED
          BY <3>1, <5>1 DEF Orders
      <4>5. orders'[intent[p]] # None
        BY <4>1, <4>4, ExecutorAssumption
      <4> QED
        BY <4>2, <4>3, <4>5
    <3> QED
      BY <2>2, <3>2, <3>3 DEF PauseEntries, RolledBack, Updated
  <2>3. CASE orders' = orders
    BY <2>3
  <2> QED
    BY <1>1, <2>1, <2>2, <2>3
       DEF Next, Operate, Submit, Reconcile, Abandon, StartSubmit, Validate, CheckGeoblock,
           RecheckControl, RecheckRisk, PlaceOrder, StartReconcile, AskStatus,
           CommitMatch, ReadControl, vars
<1> QED
  BY <1>1, Invariant, PTL DEF Spec, RecordKept

(* A mismatch is recorded with a pause of entries, or not at all.          *)
THEOREM MismatchesPause == Spec => MismatchPauses
<1> DEFINE Pauses == \A e \in events' \ events :
                         ~e.matched => Paused' /\ Revision' = Revision + 1
<1>1. ASSUME IInv, [Next]_vars PROVE [Pauses]_vars
  <2>1. ASSUME NEW p \in Procs, CommitMatch(p) PROVE Pauses
    BY <2>1 DEF CommitMatch
  <2>2. ASSUME NEW p \in Procs, PauseEntries(p) PROVE Pauses
    <3>1. CASE events' = events
      BY <3>1
    <3>2. CASE control' = Append(control, TRUE)
      BY <1>1, <3>2, TrailGrows DEF IInv
    <3> QED
      BY <2>2, <3>1, <3>2 DEF PauseEntries, RolledBack
  <2>3. CASE events' = events
    BY <2>3
  <2> QED
    BY <1>1, <2>1, <2>2, <2>3
       DEF Next, Operate, Submit, Reconcile, Abandon, StartSubmit, Validate, CheckGeoblock,
           RecheckControl, RecheckRisk, PlaceOrder, RecordOrder, StartReconcile, AskStatus,
           ReadControl, vars
<1> QED
  BY <1>1, Invariant, PTL DEF Spec, MismatchPauses

-----------------------------------------------------------------------------
(* Rows and the exchange's orders                                          *)

(* The exchange placed its n-th order for the intent.                      *)
PlacedFor(i, n) == n \in 1..Len(exchange) /\ exchange[n] = i

RecordsPlaced ==
    \A i \in Intents : orders[i] # None /\ orders[i].mode = "live" =>
        PlacedFor(i, orders[i].provider)

(* So is the order that a live submit is about to record.                  *)
PlacedInv ==
    /\ RecordsPlaced
    /\ \A p \in LiveProcs : pc[p] = "record" => PlacedFor(intent[p], placed[p])

(* The exchange takes no order back.                                       *)
LEMMA PlacedStays ==
    ASSUME IInv, NEW j \in Intents, exchange' \in {exchange, Append(exchange, j)}
    PROVE  \A i \in Intents, n \in Nat : PlacedFor(i, n) => PlacedFor(i, n)'
<1>1. exchange \in Seq(Intents) /\ Len(exchange) \in Nat
  BY DEF IInv, TypeOK
<1>2. CASE exchange' = exchange
  BY <1>2 DEF PlacedFor
<1>3. CASE exchange' = Append(exchange, j)
  BY <1>1, <1>3 DEF PlacedFor
<1> QED
  BY <1>2, <1>3

(* A call that places no order and writes no row goes on or ends.          *)
LEMMA NothingRecorded ==
    ASSUME IInv, PlacedInv, NEW p \in Procs, orders' = orders, exchange' = exchange,
           \A q \in Procs \ {p} :
               pc'[q] = pc[q] /\ intent'[q] = intent[q] /\ placed'[q] = placed[q],
           pc'[p] = "record" => p \notin LiveProcs
    PROVE  PlacedInv'
  BY ExecutorAssumption DEF PlacedInv, RecordsPlaced, PlacedFor

(* No step records a live order the exchange did not place.                *)
LEMMA PlacedKept ==
    ASSUME IInv, PlacedInv, Next
    PROVE  PlacedInv'
<1> USE DEF Goto, Begin, EndCall
<1>1. TypeOK /\ LiveProcs \subseteq Procs
  BY ExecutorAssumption DEF IInv
<1>2. CASE Operate
  BY <1>2 DEF Operate, local, PlacedInv, RecordsPlaced, PlacedFor
<1>3. ASSUME NEW p \in Procs,
             StartSubmit(p) \/ Validate(p) \/ CheckGeoblock(p) \/ RecheckControl(p)
             \/ RecheckRisk(p) \/ StartReconcile(p) \/ AskStatus(p) \/ CommitMatch(p)
             \/ ReadControl(p) \/ Abandon(p)
      PROVE  PlacedInv'
  <2>1. orders' = orders /\ exchange' = exchange
    BY <1>3 DEF StartSubmit, Validate, CheckGeoblock, RecheckControl, RecheckRisk,
                StartReconcile, AskStatus, CommitMatch, ReadControl, Abandon
  <2>2. \A q \in Procs \ {p} :
            pc'[q] = pc[q] /\ intent'[q] = intent[q] /\ placed'[q] = placed[q]
    BY <1>1, <1>3
       DEF TypeOK, StartSubmit, Validate, CheckGeoblock, RecheckControl, RecheckRisk,
           StartReconcile, AskStatus, CommitMatch, ReadControl, Abandon
  <2>3. pc'[p] = "record" => p \notin LiveProcs
    BY <1>1, <1>3
       DEF TypeOK, StartSubmit, Validate, CheckGeoblock, RecheckControl, RecheckRisk,
           StartReconcile, AskStatus, CommitMatch, ReadControl, Abandon
  <2> QED
    BY <2>1, <2>2, <2>3, NothingRecorded
<1>4. ASSUME NEW p \in Procs, PlaceOrder(p) PROVE PlacedInv'
  <2>1. pc[p] = "place" /\ intent[p] \in Intents /\ orders' = orders
        /\ exchange' \in {exchange, Append(exchange, intent[p])}
    BY <1>4 DEF PlaceOrder, IInv, CallOK
  <2>2. \A i \in Intents, n \in Nat : PlacedFor(i, n) => PlacedFor(i, n)'
    BY <2>1, PlacedStays
  <2>3. RecordsPlaced'
    BY <1>1, <2>1, <2>2 DEF PlacedInv, RecordsPlaced, TypeOK, Orders
  <2>4. ASSUME NEW q \in LiveProcs, pc'[q] = "record"
        PROVE  PlacedFor(intent[q], placed[q])'
    <3>1. CASE q # p
      <4>1. pc[q] = "record" /\ intent'[q] = intent[q] /\ placed'[q] = placed[q]
        BY <1>1, <1>4, <2>4, <3>1 DEF PlaceOrder, TypeOK
      <4>2. intent[q] \in Intents /\ placed[q] \in Nat /\ PlacedFor(intent[q], placed[q])
        BY <1>1, <4>1 DEF IInv, CallOK, TypeOK, PlacedInv
      <4> QED
        BY <2>2, <4>1, <4>2 DEF PlacedFor
    <3>2. CASE q = p
      <4>1. /\ exchange' = Append(exchange, intent[p]) /\ placed'[p] = Len(exchange) + 1
            /\ intent' = intent
        BY <1>1, <1>4, <2>4, <3>2 DEF PlaceOrder, TypeOK
      <4>2. exchange \in Seq(Intents) /\ Len(exchange) \in Nat
        BY <1>1 DEF TypeOK
      <4> QED
        BY <2>1, <3>2, <4>1, <4>2 DEF PlacedFor
    <3> QED
      BY <3>1, <3>2
  <2> QED
    BY <2>3, <2>4 DEF PlacedInv
<1>5. ASSUME NEW p \in Procs, RecordOrder(p) PROVE PlacedInv'
  <2>1. /\ pc[p] = "record" /\ intent[p] \in Intents
        /\ exchange' = exchange /\ orders' = Inserted(p)
    BY <1>5 DEF RecordOrder, IInv, CallOK
  <2>2. pc'[p] = "idle" /\ \A q \in Procs \ {p} :
            pc'[q] = pc[q] /\ intent'[q] = intent[q] /\ placed'[q] = placed[q]
    BY <1>1, <1>5 DEF RecordOrder, TypeOK
  <2>3. ASSUME NEW i \in Intents, orders'[i] # None, orders'[i].mode = "live"
        PROVE  PlacedFor(i, orders'[i].provider)
    <3>1. CASE orders'[i] = orders[i]
      BY <2>3, <3>1 DEF PlacedInv, RecordsPlaced
    <3>2. CASE orders'[i] # orders[i]
      <4>1. i = intent[p] /\ orders'[i] = OrderRow(p)
        BY <1>1, <2>1, <3>2 DEF Inserted, TypeOK
      <4>2. p \in LiveProcs /\ orders'[i].provider = placed[p]
        BY <2>3, <4>1 DEF OrderRow
      <4> QED
        BY <2>1, <4>1, <4>2 DEF PlacedInv
    <3> QED
      BY <3>1, <3>2
  <2> QED
    BY <1>1, <2>1, <2>2, <2>3 DEF PlacedInv, RecordsPlaced, PlacedFor
<1>6. ASSUME NEW p \in Procs, PauseEntries(p) PROVE PlacedInv'
  <2>1. /\ exchange' = exchange /\ orders' \in {orders, Updated(p)}
        /\ intent[p] \in Intents /\ orders[intent[p]] # None
    BY <1>6 DEF PauseEntries, RolledBack, IInv, CallOK, Reconciling
  <2>2. pc'[p] = "idle" /\ \A q \in Procs \ {p} :
            pc'[q] = pc[q] /\ intent'[q] = intent[q] /\ placed'[q] = placed[q]
    BY <1>1, <1>6 DEF PauseEntries, TypeOK
  <2>3. ASSUME NEW i \in Intents, orders'[i] # None
        PROVE  /\ orders[i] # None /\ orders'[i].provider = orders[i].provider
               /\ orders'[i].mode = orders[i].mode
    <3>1. CASE orders'[i] = orders[i]
      BY <2>3, <3>1
    <3>2. CASE orders'[i] # orders[i]
      <4>1. i = intent[p] /\ orders'[i] = [orders[i] EXCEPT !.status = answer[p]]
        BY <1>1, <2>1, <3>2 DEF Updated, TypeOK
      <4>2. orders[i] \in Orders
        BY <1>1, <2>1, <4>1 DEF TypeOK
      <4> QED
        BY <2>1, <4>1, <4>2 DEF Orders
    <3> QED
      BY <3>1, <3>2
  <2> QED
    BY <1>1, <2>1, <2>2, <2>3 DEF PlacedInv, RecordsPlaced, PlacedFor
<1> QED
  BY <1>2, <1>3, <1>4, <1>5, <1>6 DEF Next, Submit, Reconcile

(* A live order on record is one the exchange placed, and placed for that  *)
(* intent, whichever answers were lost and whichever submits raced: the    *)
(* order that reconciliation asks about is the intent's own.               *)
THEOREM LiveRecordsPlaced == Spec => []RecordsPlaced
<1>1. Init => PlacedInv
  BY ExecutorAssumption DEF Init, PlacedInv, RecordsPlaced
<1>2. PlacedInv /\ UNCHANGED vars => PlacedInv'
  BY DEF PlacedInv, RecordsPlaced, PlacedFor, vars, local
<1>3. PlacedInv => RecordsPlaced
  BY DEF PlacedInv
<1> QED
  BY <1>1, <1>2, <1>3, PlacedKept, Invariant, PTL DEF Spec
====
