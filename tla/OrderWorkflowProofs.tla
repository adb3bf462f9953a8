------------------------- MODULE OrderWorkflowProofs -------------------------
(***************************************************************************)
(* Proofs about OrderWorkflow for any number of orders and requests, any   *)
(* weights, tariffs and tolerance, any number of crashes.                  *)
(***************************************************************************)
EXTENDS OrderWorkflow, TLAPS

USE DEF Free, Exists, Idle

-----------------------------------------------------------------------------
(* The operators rows are built with.                                      *)

\* A total is a natural number: it is never below zero.
LEMMA TotalIsNat ==
  ASSUME NEW price \in Nat, NEW quantity \in Nat, NEW discount \in Nat,
         NEW fee \in Nat
  PROVE  totalAmount(price, quantity, discount, fee) \in Nat
<1>1. price * quantity \in Nat
  BY SMT
<1>2. QED
  BY <1>1, SMT DEF totalAmount

\* A tolerance check yields one of three weight statuses.
LEMMA ToleranceType ==
  ASSUME NEW estimated \in Nat, NEW weight \in Nat
  PROVE  calculateTolerance(estimated, weight, TolerancePercent)
           \in {"not_required", "matched", "mismatched"}
BY DEF calculateTolerance

\* createOrder writes a well-formed row.
LEMMA NewRowType ==
  ASSUME NEW pickup \in BOOLEAN, NEW estimated \in Estimates,
         NEW given \in Quantities, NEW t \in Tariffs
  PROVE  newRow(pickup, estimated, given, t) \in Row
<1>1. /\ estimated \in Nat /\ given \in Nat
      /\ t.price \in Nat /\ t.discount \in Nat /\ t.fee \in Nat
  BY EstimatesAssumption, QuantitiesAssumption, TariffsAssumption
<1>2. itemQuantity(given, estimated, 100) \in Nat
  BY <1>1 DEF itemQuantity
<1>3. totalAmount(t.price, itemQuantity(given, estimated, 100), t.discount, t.fee)
        \in Nat
  BY <1>1, <1>2, TotalIsNat
<1>4. /\ initialStatus(pickup) \in OrderStatus
      /\ initialWeightStatus(pickup, estimated) \in WeightStatus
  BY DEF initialStatus, initialWeightStatus, OrderStatus, WeightStatus
<1>5. QED
  BY <1>1, <1>2, <1>3, <1>4 DEF newRow, Row, PaymentStatus

\* A weighing keeps a row well-formed.
LEMMA WeighedRowType ==
  ASSUME NEW row \in Row, NEW weight \in Weights
  PROVE  weighedRow(row, weight) \in Row
<1>1. weight \in Nat
  BY WeightsAssumption
<1>2. calculateTolerance(row.estimated, weight, TolerancePercent)
        \in WeightStatus
  BY <1>1, ToleranceType DEF Row, WeightStatus
<1>3. totalAmount(row.price, weight, row.discount, row.fee) \in Nat
  BY <1>1, TotalIsNat DEF Row
<1>4. QED
  BY <1>1, <1>2, <1>3 DEF weighedRow, Row
-----------------------------------------------------------------------------
(* Type correctness.                                                       *)

\* What a request may hold.
Held == {Idle} \cup UpdateCall \cup NotifyCall

\* The kind of what a request holds says what else it holds.
LEMMA HeldByKind ==
  ASSUME NEW c \in Held
  PROVE  /\ c.kind = "updateStatus" => c \in UpdateCall
         /\ c.kind = "notify" => c \in NotifyCall
         /\ c.kind = "idle" => c = Idle
BY DEF Held, UpdateCall, NotifyCall

\* What the worker does next keeps the queue's variables well-formed.
LEMMA WorkerType ==
  ASSUME queue \in Seq(JobOf(Notice)), active \in ActiveOf(Notice),
         inbox \subseteq Notice, lost \subseteq Notice, WorkerStep
  PROVE  /\ queue' \in Seq(JobOf(Notice))
         /\ active' \in ActiveOf(Notice)
         /\ inbox' \subseteq Notice
         /\ lost' \subseteq Notice
<1>1. CASE TakeJob
  <2>1. /\ Head(queue) \in JobOf(Notice)
        /\ Tail(queue) \in Seq(JobOf(Notice))
    BY <1>1 DEF TakeJob
  <2>2. QED
    BY <1>1, <2>1 DEF TakeJob, ActiveOf
<1>2. CASE SendInteractiveWeightConfirmation
  BY <1>2 DEF SendInteractiveWeightConfirmation, ActiveOf, JobOf, NoJob
<1>3. CASE CompleteJob
  BY <1>3 DEF CompleteJob, ActiveOf
<1>4. QED
  BY <1>1, <1>2, <1>3 DEF WorkerStep

\* The rows, the log, the calls and the queue keep their types.
LEMMA TypeStep == TypeOK /\ [Next]_vars => TypeOK'
<1> SUFFICES ASSUME TypeOK, [Next]_vars PROVE TypeOK'
  OBVIOUS
<1> USE DEF TypeOK
<1>1. ASSUME NEW r \in Requests, NEW o \in Orders, CreateOrder(r, o),
             UNCHANGED <<queueVars, crashes>>
      PROVE  TypeOK'
  <2>1. PICK pickup \in BOOLEAN, estimated \in Estimates,
             given \in Quantities, t \in Tariffs :
          order' = [order EXCEPT ![o] = newRow(pickup, estimated, given, t)]
    BY <1>1 DEF CreateOrder
  <2>2. newRow(pickup, estimated, given, t) \in Row
    BY NewRowType
  <2>3. order' \in [Orders -> Row] /\ order'[o].status \in OrderStatus
    <3>1. newRow(pickup, estimated, given, t).status \in OrderStatus
      BY DEF newRow, initialStatus, OrderStatus
    <3>2. QED
      BY <2>1, <2>2, <3>1
  <2>4. statusLog' \in [Orders -> Seq(LogEntry)]
    <3> DEFINE entry == [status |-> order'[o].status, photo |-> FALSE,
                         photoRequired |-> FALSE]
    <3>1. entry \in LogEntry
      BY <2>3 DEF LogEntry
    <3>2. statusLog' = [statusLog EXCEPT ![o] = <<entry>>]
      BY <1>1 DEF CreateOrder
    <3>3. QED
      BY <3>1, <3>2
  <2>5. QED
    BY <1>1, <2>3, <2>4 DEF CreateOrder, queueVars
<1>2. ASSUME NEW r \in Requests, NEW o \in Orders,
             NEW target \in OrderStatus, NEW photo \in BOOLEAN,
             ReadForUpdate(r, o, target, photo), UNCHANGED <<queueVars, crashes>>
      PROVE  TypeOK'
  BY <1>2 DEF ReadForUpdate, validUpdate, UpdateCall, queueVars
<1>3. ASSUME NEW r \in Requests, CommitUpdate(r), UNCHANGED <<queueVars, crashes>>
      PROVE  TypeOK'
  <2>1. call[r] \in UpdateCall
    BY <1>3, HeldByKind DEF CommitUpdate, Held
  <2> DEFINE o == call[r].order
             s == call[r].target
             entry == [status |-> s, photo |-> call[r].photo,
                       photoRequired |-> isPhotoRequired(s)]
  <2>2. o \in Orders /\ s \in OrderStatus /\ call[r].photo \in BOOLEAN
    BY <2>1 DEF UpdateCall
  <2>3. order' \in [Orders -> Row]
    <3>1. [order[o] EXCEPT !.status = s] \in Row
      <4>1. order[o] \in Row
        BY <2>2
      <4>2. QED
        BY <2>2, <4>1 DEF Row
    <3>2. order' = [order EXCEPT ![o] = [order[o] EXCEPT !.status = s]]
      BY <1>3 DEF CommitUpdate
    <3>3. QED
      BY <2>2, <3>1, <3>2
  <2>4. statusLog' \in [Orders -> Seq(LogEntry)]
    <3>1. isPhotoRequired(s) \in BOOLEAN
      BY DEF isPhotoRequired
    <3>2. entry \in LogEntry
      BY <2>2, <3>1 DEF LogEntry
    <3>3. statusLog' = [statusLog EXCEPT ![o] = Append(statusLog[o], entry)]
      BY <1>3 DEF CommitUpdate
    <3>4. QED
      BY <2>2, <3>2, <3>3
  <2>5. QED
    BY <1>3, <2>3, <2>4 DEF CommitUpdate, queueVars
<1>4. ASSUME NEW r \in Requests, AbortUpdate(r), UNCHANGED <<queueVars, crashes>>
      PROVE  TypeOK'
  BY <1>4 DEF AbortUpdate, queueVars
<1>5. ASSUME NEW r \in Requests, UpdateWeight(r)
      PROVE  TypeOK'
  <2>1. PICK o \in Orders, w \in Weights : VerifyAndApplyWeight(r, o, w)
    BY <1>5 DEF UpdateWeight
  <2>2. weighedRow(order[o], w) \in Row
    BY WeighedRowType
  <2>3. order' \in [Orders -> Row]
    BY <2>1, <2>2 DEF VerifyAndApplyWeight, notifies
  <2>4. call' \in [Requests -> {Idle} \cup UpdateCall \cup NotifyCall]
    <3>1. order'[o].total \in Nat
      BY <2>3 DEF Row
    <3>2. QED
      BY <2>1, <3>1 DEF VerifyAndApplyWeight, notifies, NotifyCall, Notice
  <2>5. QED
    BY <1>5, <2>1, <2>3, <2>4 DEF UpdateWeight, VerifyAndApplyWeight, notifies, queueVars
<1>6. ASSUME NEW r \in Requests, QueueWeightMismatchNotification(r)
      PROVE  TypeOK'
  <2>1. call[r].notice \in Notice
    BY <1>6, HeldByKind
    DEF QueueWeightMismatchNotification, Held, NotifyCall
  <2>2. CASE Enqueue(call[r].notice)
    BY <1>6, <2>1, <2>2 DEF QueueWeightMismatchNotification, Enqueue, JobOf
  <2>3. CASE DirectFallback(call[r].notice)
    BY <1>6, <2>1, <2>3 DEF QueueWeightMismatchNotification, DirectFallback
  <2>4. QED
    BY <1>6, <2>2, <2>3 DEF QueueWeightMismatchNotification
<1>7. ASSUME NEW r \in Requests, NEW o \in Orders, NEW agreed \in BOOLEAN,
             ConfirmWeight(r, o, agreed), UNCHANGED <<queueVars, crashes>>
      PROVE  TypeOK'
  <2>1. order' \in [Orders -> Row]
    <3> DEFINE row == [order[o] EXCEPT !.weightStatus = "confirmed",
                                       !.confirmedAt = TRUE]
    <3>1. row \in Row
      BY DEF Row, WeightStatus
    <3>2. order' \in {order, [order EXCEPT ![o] = row]}
      BY <1>7 DEF ConfirmWeight
    <3>3. QED
      BY <3>1, <3>2
  <2>2. QED
    BY <1>7, <2>1 DEF ConfirmWeight, queueVars
<1>8. ASSUME NEW r \in Requests, PressButton(r)
      PROVE  TypeOK'
  BY <1>7, <1>8 DEF PressButton, Notice
<1>9. ASSUME NEW r \in Requests, ConfirmInApp(r)
      PROVE  TypeOK'
  BY <1>7, <1>9 DEF ConfirmInApp
<1>10. CASE ProcessNextJob
  BY <1>10, WorkerType DEF ProcessNextJob, tableVars
<1>11. CASE Crash
  <2>1. NoticesHeld \subseteq Notice
    BY HeldByKind DEF NoticesHeld, Held, NotifyCall
  <2>2. call' \in [Requests -> {Idle} \cup UpdateCall \cup NotifyCall]
    BY <1>11 DEF Crash
  <2>3. ASSUME active.state # "idle"
        PROVE  active.job \in JobOf(Notice)
    BY <2>3 DEF ActiveOf, NoJob
  <2>4. queue' \in Seq(JobOf(Notice))
    <3>1. CASE active.state # "idle" /\ ~active.job.stalled
      <4>1. [active.job EXCEPT !.stalled = TRUE] \in JobOf(Notice)
        BY <2>3, <3>1 DEF JobOf
      <4>2. queue' = <<[active.job EXCEPT !.stalled = TRUE]>> \o queue
        BY <1>11, <3>1 DEF Crash, WorkerDies
      <4>3. QED
        BY <4>1, <4>2
    <3>2. CASE ~(active.state # "idle" /\ ~active.job.stalled)
      BY <1>11, <3>2 DEF Crash, WorkerDies
    <3>3. QED
      BY <3>1, <3>2
  <2>5. lost' \subseteq Notice /\ inbox' \subseteq Notice
    BY <1>11, <2>1, <2>3 DEF Crash, WorkerDies, JobOf
  <2>6. active' \in ActiveOf(Notice) /\ crashes' \in 0 .. MaxCrashes
    BY <1>11, MaxCrashesAssumption DEF Crash, WorkerDies, ActiveOf
  <2>7. QED
    BY <1>11, <2>2, <2>4, <2>5, <2>6 DEF Crash
<1>12. CASE UNCHANGED vars
  BY <1>12 DEF vars
<1>13. QED
  BY <1>1, <1>2, <1>3, <1>4, <1>5, <1>6, <1>8, <1>9, <1>10, <1>11, <1>12
  DEF Next, UpdateStatus, OrderServiceStep

\* Every reachable state is well-typed, for any constants.
THEOREM TypeCorrect == Spec => []TypeOK
<1>1. Init => TypeOK
  BY MaxCrashesAssumption
  DEF Init, TableInit, QueueInit, TypeOK, NoRow, Row, WeightStatus,
      PaymentStatus, ActiveOf
<1>2. QED
  BY <1>1, TypeStep, PTL DEF Spec
-----------------------------------------------------------------------------
(* The status log.                                                         *)

\* Appending leaves the earlier entries where they were.
LEMMA AppendEntries ==
  ASSUME NEW log \in Seq(LogEntry), NEW e \in LogEntry
  PROVE  /\ Len(Append(log, e)) = Len(log) + 1
         /\ \A i \in 1 .. Len(log) : Append(log, e)[i] = log[i]
         /\ Append(log, e)[Len(log) + 1] = e
BY DEF LogEntry

\* What every step does that neither creates an order nor takes part in an
\* update of a status.
Quiet ==
  /\ statusLog' = statusLog
  /\ \A o \in Orders : /\ order'[o].status = order[o].status
                       /\ order'[o].pickup = order[o].pickup
  /\ \A r \in Requests :
       call'[r].kind = "updateStatus" => call'[r] = call[r]

\* Every step is the creation of an order, the read or the commit of an update,
\* or quiet.
LEMMA StepKinds ==
  ASSUME TypeOK, [Next]_vars
  PROVE  \/ \E r \in Requests, o \in Orders : CreateOrder(r, o)
         \/ \E r \in Requests, o \in Orders, target \in OrderStatus,
               photo \in BOOLEAN : ReadForUpdate(r, o, target, photo)
         \/ \E r \in Requests : CommitUpdate(r)
         \/ Quiet
<1> USE DEF TypeOK
<1>1. ASSUME NEW r \in Requests, AbortUpdate(r) PROVE Quiet
  BY <1>1 DEF AbortUpdate, Quiet
<1>2. ASSUME NEW r \in Requests, NEW o \in Orders, NEW w \in Weights,
             VerifyAndApplyWeight(r, o, w)
      PROVE  Quiet
  <2>1. /\ weighedRow(order[o], w).status = order[o].status
        /\ weighedRow(order[o], w).pickup = order[o].pickup
    BY DEF weighedRow, Row
  <2>2. \A q \in Orders : /\ order'[q].status = order[q].status
                          /\ order'[q].pickup = order[q].pickup
    BY <1>2, <2>1 DEF VerifyAndApplyWeight, notifies
  <2>3. \A q \in Requests : call'[q].kind = "updateStatus" => call'[q] = call[q]
    BY <1>2 DEF VerifyAndApplyWeight, notifies
  <2>4. QED
    BY <1>2, <2>2, <2>3 DEF VerifyAndApplyWeight, notifies, Quiet
<1>3. ASSUME NEW r \in Requests, QueueWeightMismatchNotification(r) PROVE Quiet
  BY <1>3 DEF QueueWeightMismatchNotification, Quiet
<1>4. ASSUME NEW r \in Requests, NEW o \in Orders, NEW agreed \in BOOLEAN,
             ConfirmWeight(r, o, agreed)
      PROVE  Quiet
  BY <1>4 DEF ConfirmWeight, Quiet, Row
<1>5. ASSUME NEW r \in Requests, PressButton(r) PROVE Quiet
  BY <1>4, <1>5 DEF PressButton, Notice
<1>6. CASE ProcessNextJob
  BY <1>6 DEF ProcessNextJob, tableVars, Quiet
<1>7. CASE Crash
  BY <1>7 DEF Crash, Quiet
<1>8. CASE UNCHANGED vars
  BY <1>8 DEF vars, Quiet
<1>9. QED
  BY <1>1, <1>2, <1>3, <1>4, <1>5, <1>6, <1>7, <1>8
  DEF Next, UpdateStatus, OrderServiceStep, UpdateWeight, ConfirmInApp

\* Quiet steps leave everything LogInvariant speaks of alone.
LEMMA QuietKeepsLog ==
  ASSUME TypeOK, LogInvariant, Quiet
  PROVE  LogInvariant'
<1> USE DEF TypeOK, LogInvariant, Quiet
<1>1. LogTracksStatus'
  BY DEF LogTracksStatus
<1>2. StatusTrail'
  BY DEF StatusTrail
<1>3. LogStartsAtOrigin'
  BY DEF LogStartsAtOrigin
<1>4. PhotosAreKept'
  BY DEF PhotosAreKept
<1>5. UpdatesWereValidated'
  <2>1. SUFFICES ASSUME NEW r \in Requests, call[r].kind = "updateStatus"
                 PROVE  order'[call[r].order].status = order[call[r].order].status
    BY DEF UpdatesWereValidated
  <2>2. call[r].order \in Orders
    BY <2>1, HeldByKind DEF Held, UpdateCall
  <2>3. QED
    BY <2>2
<1>6. QED
  BY <1>1, <1>2, <1>3, <1>4, <1>5

\* A new order starts its log with its own first status.
LEMMA CreateKeepsLog ==
  ASSUME TypeOK, LogInvariant, NEW r \in Requests, NEW o \in Orders,
         CreateOrder(r, o)
  PROVE  LogInvariant'
<1> USE DEF TypeOK, LogInvariant
<1>1. PICK pickup \in BOOLEAN, estimated \in Estimates,
           given \in Quantities, t \in Tariffs :
        order' = [order EXCEPT ![o] = newRow(pickup, estimated, given, t)]
  BY DEF CreateOrder
<1>2. /\ order'[o].status = initialStatus(order'[o].pickup)
      /\ order'[o].status # "none"
  BY <1>1 DEF newRow, initialStatus
<1>3. /\ statusLog' = [statusLog EXCEPT ![o] =
           <<[status |-> order'[o].status, photo |-> FALSE,
              photoRequired |-> FALSE]>>]
      /\ call' = call
      /\ order[o].status = "none"
  BY DEF CreateOrder
<1>4. /\ Len(statusLog'[o]) = 1
      /\ statusLog'[o][1].status = order'[o].status
  BY <1>3
<1>5. \A q \in Orders \ {o} : order'[q] = order[q] /\ statusLog'[q] = statusLog[q]
  BY <1>1, <1>3
<1>6. LogTracksStatus'
  <2> SUFFICES ASSUME NEW q \in Orders
               PROVE  IF order'[q].status # "none"
                      THEN /\ Len(statusLog'[q]) > 0
                           /\ statusLog'[q][Len(statusLog'[q])].status
                                = order'[q].status
                      ELSE statusLog'[q] = <<>>
    BY DEF LogTracksStatus
  <2>1. CASE q = o
    BY <1>2, <1>4, <2>1
  <2>2. CASE q # o
    BY <1>5, <2>2 DEF LogTracksStatus
  <2>3. QED
    BY <2>1, <2>2
<1>7. StatusTrail'
  <2>1. ASSUME NEW q \in Orders, NEW i \in 2 .. Len(statusLog'[q])
        PROVE  q # o
    <3>1. SUFFICES ASSUME q = o PROVE FALSE
      OBVIOUS
    <3>2. i \in 2 .. 1
      BY <1>4, <2>1, <3>1
    <3>3. QED
      BY <3>2
  <2>2. QED
    BY <1>5, <2>1 DEF StatusTrail
<1>8. LogStartsAtOrigin'
  BY <1>2, <1>4, <1>5 DEF LogStartsAtOrigin
<1>9. PhotosAreKept'
  <2>1. ASSUME NEW q \in Orders, NEW i \in 2 .. Len(statusLog'[q])
        PROVE  q # o
    <3>1. SUFFICES ASSUME q = o PROVE FALSE
      OBVIOUS
    <3>2. i \in 2 .. 1
      BY <1>4, <2>1, <3>1
    <3>3. QED
      BY <3>2
  <2>2. QED
    BY <1>5, <2>1 DEF PhotosAreKept
<1>10. UpdatesWereValidated'
  <2>1. ASSUME NEW q \in Requests, call[q].kind = "updateStatus"
        PROVE  call[q].order \in Orders \ {o}
    <3>1. call[q].order \in Orders
      BY <2>1, HeldByKind DEF Held, UpdateCall
    <3>2. order[call[q].order].status # "none"
      BY <2>1 DEF UpdatesWereValidated
    <3>3. QED
      BY <1>3, <3>1, <3>2
  <2>2. QED
    BY <1>3, <1>5, <2>1 DEF UpdatesWereValidated
<1>11. QED
  BY <1>6, <1>7, <1>8, <1>9, <1>10

\* A read validates its target against the newest entry of the log.
LEMMA ReadKeepsLog ==
  ASSUME TypeOK, LogInvariant, NEW r \in Requests, NEW o \in Orders,
         NEW target \in OrderStatus, NEW photo \in BOOLEAN,
         ReadForUpdate(r, o, target, photo)
  PROVE  LogInvariant'
<1> USE DEF TypeOK, LogInvariant
<1>1. order' = order /\ statusLog' = statusLog
  BY DEF ReadForUpdate, validUpdate
<1>2. LogTracksStatus' /\ StatusTrail' /\ LogStartsAtOrigin' /\ PhotosAreKept'
  BY <1>1 DEF LogTracksStatus, StatusTrail, LogStartsAtOrigin, PhotosAreKept
<1>3. UpdatesWereValidated'
  <2>1. call' = [call EXCEPT ![r] = [kind |-> "updateStatus", order |-> o,
                                     target |-> target, photo |-> photo]]
    BY DEF ReadForUpdate, validUpdate
  <2>2. \E j \in 1 .. Len(statusLog[o]) :
          canTransition(statusLog[o][j].status, target)
    <3>1. /\ Len(statusLog[o]) \in 1 .. Len(statusLog[o])
          /\ statusLog[o][Len(statusLog[o])].status = order[o].status
      BY DEF ReadForUpdate, validUpdate, LogTracksStatus
    <3>2. canTransition(order[o].status, target)
      BY DEF ReadForUpdate, validUpdate
    <3>3. QED
      BY <3>1, <3>2
  <2>3. Exists(o) /\ photoAccepted(target, photo)
    BY DEF ReadForUpdate, validUpdate
  <2>4. QED
    BY <1>1, <2>1, <2>2, <2>3 DEF UpdatesWereValidated
<1>4. QED
  BY <1>2, <1>3

\* A commit appends a target that was validated against an entry still there.
LEMMA CommitKeepsLog ==
  ASSUME TypeOK, LogInvariant, NEW r \in Requests, CommitUpdate(r)
  PROVE  LogInvariant'
<1> USE DEF TypeOK, LogInvariant
<1> DEFINE o == call[r].order
           s == call[r].target
           n == Len(statusLog[o])
           entry == [status |-> s, photo |-> call[r].photo,
                     photoRequired |-> isPhotoRequired(s)]
<1>1. call[r] \in UpdateCall
  BY HeldByKind DEF CommitUpdate, Held
<1>2. o \in Orders /\ s \in OrderStatus /\ call[r].photo \in BOOLEAN
  BY <1>1 DEF UpdateCall
<1>3. entry \in LogEntry
  <2>1. isPhotoRequired(s) \in BOOLEAN
    BY DEF isPhotoRequired
  <2>2. QED
    BY <1>2, <2>1 DEF LogEntry
<1>4. /\ statusLog' = [statusLog EXCEPT ![o] = Append(statusLog[o], entry)]
      /\ order' = [order EXCEPT ![o].status = s]
      /\ call' = [call EXCEPT ![r] = Idle]
  BY DEF CommitUpdate
<1>5. /\ Len(statusLog'[o]) = n + 1
      /\ \A i \in 1 .. n : statusLog'[o][i] = statusLog[o][i]
      /\ statusLog'[o][n + 1] = entry
  BY <1>2, <1>3, <1>4, AppendEntries
<1>6. \A q \in Orders \ {o} : order'[q] = order[q] /\ statusLog'[q] = statusLog[q]
  BY <1>4
<1>7. order'[o].status = s /\ order'[o].pickup = order[o].pickup /\ s # "none"
  BY <1>2, <1>4 DEF Row, OrderStatus
<1>8. /\ Exists(o)
      /\ photoAccepted(s, call[r].photo)
      /\ \E j \in 1 .. n : canTransition(statusLog[o][j].status, s)
  BY DEF UpdatesWereValidated, CommitUpdate
<1>9. n \in Nat /\ n > 0
  BY <1>2, <1>8 DEF LogTracksStatus
<1>10. LogTracksStatus'
  BY <1>3, <1>5, <1>6, <1>7, <1>9 DEF LogTracksStatus
<1>11. StatusTrail'
  <2> SUFFICES ASSUME NEW q \in Orders, NEW i \in 2 .. Len(statusLog'[q])
               PROVE  \E j \in 1 .. i - 1 :
                        canTransition(statusLog'[q][j].status, statusLog'[q][i].status)
    BY DEF StatusTrail
  <2>1. CASE q # o
    BY <1>6, <2>1 DEF StatusTrail
  <2>2. CASE q = o /\ i \in 2 .. n
    <3>1. PICK j \in 1 .. i - 1 :
            canTransition(statusLog[o][j].status, statusLog[o][i].status)
      BY <1>2, <2>2 DEF StatusTrail
    <3>2. j \in 1 .. n /\ i \in 1 .. n
      BY <1>9, <2>2, <3>1
    <3>3. statusLog'[o][j] = statusLog[o][j] /\ statusLog'[o][i] = statusLog[o][i]
      BY <1>5, <3>2
    <3>4. QED
      BY <2>2, <3>1, <3>3
  <2>3. CASE q = o /\ i = n + 1
    <3>1. PICK j \in 1 .. n : canTransition(statusLog[o][j].status, s)
      BY <1>8
    <3>2. statusLog'[o][j] = statusLog[o][j] /\ statusLog'[o][n + 1].status = s
      BY <1>5, <3>1
    <3>3. i - 1 = n
      BY <1>9, <2>3
    <3>4. QED
      BY <2>3, <3>1, <3>2, <3>3
  <2>4. QED
    BY <1>5, <1>9, <2>1, <2>2, <2>3
<1>12. LogStartsAtOrigin'
  <2> SUFFICES ASSUME NEW q \in Orders, order'[q].status # "none"
               PROVE  statusLog'[q][1].status = initialStatus(order'[q].pickup)
    BY DEF LogStartsAtOrigin, Exists
  <2>1. CASE q # o
    <3>1. order'[q] = order[q] /\ statusLog'[q] = statusLog[q]
      BY <1>6, <2>1
    <3>2. statusLog[q][1].status = initialStatus(order[q].pickup)
      BY <3>1 DEF LogStartsAtOrigin, Exists
    <3>3. QED
      BY <3>1, <3>2
  <2>2. CASE q = o
    <3>1. statusLog[o][1].status = initialStatus(order[o].pickup)
      BY <1>2, <1>8 DEF LogStartsAtOrigin
    <3>2. statusLog'[o][1] = statusLog[o][1]
      BY <1>5, <1>9
    <3>3. QED
      BY <1>7, <2>2, <3>1, <3>2
  <2>3. QED
    BY <2>1, <2>2
<1>13. PhotosAreKept'
  <2> SUFFICES ASSUME NEW q \in Orders, NEW i \in 2 .. Len(statusLog'[q])
               PROVE  photoAccepted(statusLog'[q][i].status, statusLog'[q][i].photo)
    BY DEF PhotosAreKept
  <2>1. CASE q # o
    BY <1>6, <2>1 DEF PhotosAreKept
  <2>2. CASE q = o /\ i \in 2 .. n
    BY <1>5, <1>9, <2>2 DEF PhotosAreKept
  <2>3. CASE q = o /\ i = n + 1
    BY <1>5, <1>8, <2>3
  <2>4. QED
    BY <1>5, <1>9, <2>1, <2>2, <2>3
<1>14. UpdatesWereValidated'
  <2> SUFFICES ASSUME NEW q \in Requests, call'[q].kind = "updateStatus"
               PROVE  LET c == call'[q]
                      IN /\ order'[c.order].status # "none"
                         /\ photoAccepted(c.target, c.photo)
                         /\ \E j \in 1 .. Len(statusLog'[c.order]) :
                              canTransition(statusLog'[c.order][j].status, c.target)
    BY DEF UpdatesWereValidated
  <2>1. call'[q] = call[q]
    BY <1>4
  <2>2. call[q].order \in Orders
    BY <2>1, HeldByKind DEF Held, UpdateCall
  <2>3. /\ order[call[q].order].status # "none"
        /\ photoAccepted(call[q].target, call[q].photo)
        /\ \E j \in 1 .. Len(statusLog[call[q].order]) :
             canTransition(statusLog[call[q].order][j].status, call[q].target)
    BY <2>1 DEF UpdatesWereValidated
  <2>4. CASE call[q].order # o
    BY <1>6, <2>1, <2>2, <2>3, <2>4
  <2>5. CASE call[q].order = o
    <3>1. PICK j \in 1 .. n :
            canTransition(statusLog[o][j].status, call[q].target)
      BY <2>3, <2>5
    <3>2. j \in 1 .. n + 1 /\ statusLog'[o][j] = statusLog[o][j]
      BY <1>5, <1>9, <3>1
    <3>3. \E k \in 1 .. Len(statusLog'[o]) :
            canTransition(statusLog'[o][k].status, call[q].target)
      BY <1>5, <3>1, <3>2
    <3>4. QED
      BY <1>7, <2>1, <2>3, <2>5, <3>3
  <2>6. QED
    BY <2>4, <2>5
<1>15. QED
  BY <1>10, <1>11, <1>12, <1>13, <1>14

\* The strengthened invariant holds in every reachable state.
THEOREM LogInvariantHolds == Spec => []LogInvariant
<1>1. Init => LogInvariant
  BY DEF Init, TableInit, NoRow, LogInvariant, LogTracksStatus, StatusTrail,
         LogStartsAtOrigin, PhotosAreKept, UpdatesWereValidated
<1>2. TypeOK /\ LogInvariant /\ [Next]_vars => LogInvariant'
  BY StepKinds, QuietKeepsLog, CreateKeepsLog, ReadKeepsLog, CommitKeepsLog
<1>3. QED
  BY <1>1, <1>2, TypeCorrect, PTL DEF Spec

\* However requests race, crash and abort, each logged status was a legal
\* successor of an earlier one of the same order.
THEOREM TrailIsLegal == Spec => []StatusTrail
<1>1. LogInvariant => StatusTrail
  BY DEF LogInvariant
<1>2. QED
  BY <1>1, LogInvariantHolds, PTL

\* The row always has the status of its newest log entry.
THEOREM LogAgreesWithRow == Spec => []LogTracksStatus
<1>1. LogInvariant => LogTracksStatus
  BY DEF LogInvariant
<1>2. QED
  BY <1>1, LogInvariantHolds, PTL

\* The matrix read backwards.
LEMMA Predecessors ==
  ASSUME NEW from \in OrderStatus
  PROVE  /\ canTransition(from, "done") => from = "delivery"
         /\ canTransition(from, "delivery") => from = "process"
         /\ canTransition(from, "process") => from = "received"
         /\ canTransition(from, "received") => from = "pickup"
BY DEF canTransition, getAllowedTransitions, ORDER_STATUS_TRANSITIONS, OrderStatus

\* An entry that cannot be the first has a photo if one is required, and an
\* earlier entry it could follow.
LEMMA LaterEntry ==
  ASSUME TypeOK, LogInvariant, NEW o \in Orders,
         NEW i \in 1 .. Len(statusLog[o]),
         statusLog[o][i].status # initialStatus(order[o].pickup)
  PROVE  /\ photoAccepted(statusLog[o][i].status, statusLog[o][i].photo)
         /\ \E j \in 1 .. Len(statusLog[o]) :
              /\ statusLog[o][j].status \in OrderStatus
              /\ canTransition(statusLog[o][j].status, statusLog[o][i].status)
<1> USE DEF TypeOK, LogInvariant
<1>1. Len(statusLog[o]) \in Nat
  OBVIOUS
<1>2. Exists(o)
  <2>1. SUFFICES ASSUME ~Exists(o) PROVE FALSE
    OBVIOUS
  <2>2. Len(statusLog[o]) = 0
    BY <2>1 DEF LogTracksStatus
  <2>3. QED
    BY <2>2
<1>3. i \in 2 .. Len(statusLog[o])
  <2>1. i # 1
    BY <1>2 DEF LogStartsAtOrigin
  <2>2. QED
    BY <1>1, <2>1
<1>4. photoAccepted(statusLog[o][i].status, statusLog[o][i].photo)
  BY <1>3 DEF PhotosAreKept
<1>5. PICK j \in 1 .. i - 1 :
        canTransition(statusLog[o][j].status, statusLog[o][i].status)
  BY <1>3 DEF StatusTrail
<1>6. j \in 1 .. Len(statusLog[o])
  BY <1>1, <1>5
<1>7. statusLog[o][j] \in LogEntry
  BY <1>6
<1>8. QED
  BY <1>4, <1>5, <1>6, <1>7 DEF LogEntry

\* A finished order has the photos of its hand-overs, whatever raced: the chain
\* from 'done' back to the first entry passes each of them after the start.
THEOREM HandoversAreProven == Spec => []HandoverPhotos
<1>1. TypeOK /\ LogInvariant => HandoverPhotos
  <2> SUFFICES ASSUME TypeOK, LogInvariant, NEW o \in Orders, "done" \in Logged(o)
               PROVE  /\ Photographed(o, "delivery")
                      /\ order[o].pickup =>
                           /\ Photographed(o, "pickup")
                           /\ Photographed(o, "received")
    BY DEF HandoverPhotos
  <2> DEFINE log == statusLog[o]
             Dom == 1 .. Len(log)
  <2>1. PICK i \in Dom : log[i].status = "done"
    BY DEF Logged
  <2>2. PICK j \in Dom : log[j].status = "delivery"
    <3>1. log[i].status # initialStatus(order[o].pickup)
      BY <2>1 DEF initialStatus
    <3>2. QED
      BY <2>1, <3>1, LaterEntry, Predecessors
  <2>3. log[j].status # initialStatus(order[o].pickup)
    BY <2>2 DEF initialStatus
  <2>4. Photographed(o, "delivery")
    BY <2>2, <2>3, LaterEntry
    DEF Photographed, photoAccepted, isPhotoRequired, PHOTO_REQUIRED_STATUSES
  <2>5. ASSUME order[o].pickup
        PROVE  Photographed(o, "pickup") /\ Photographed(o, "received")
    <3>1. PICK k \in Dom : log[k].status = "process"
      BY <2>2, <2>3, LaterEntry, Predecessors
    <3>2. PICK l \in Dom : log[l].status = "received"
      <4>1. log[k].status # initialStatus(order[o].pickup)
        BY <3>1 DEF initialStatus
      <4>2. QED
        BY <3>1, <4>1, LaterEntry, Predecessors
    <3>3. log[l].status # initialStatus(order[o].pickup)
      BY <2>5, <3>2 DEF initialStatus
    <3>4. PICK m \in Dom : log[m].status = "pickup"
      BY <3>2, <3>3, LaterEntry, Predecessors
    <3>5. log[m].status # initialStatus(order[o].pickup)
      BY <3>4 DEF initialStatus
    <3>6. log[l].photo /\ log[m].photo
      BY <3>2, <3>3, <3>4, <3>5, LaterEntry
      DEF photoAccepted, isPhotoRequired, PHOTO_REQUIRED_STATUSES
    <3>7. QED
      BY <3>2, <3>4, <3>6 DEF Photographed
  <2>6. QED
    BY <2>4, <2>5
<1>2. QED
  BY <1>1, TypeCorrect, LogInvariantHolds, PTL
-----------------------------------------------------------------------------
(* The abstract lifecycle, as long as the rows of updates in flight stand. *)

\* The photos on file after one more entry of the log.
LEMMA PhotosAppend ==
  ASSUME NEW log \in Seq(LogEntry), NEW e \in LogEntry
  PROVE  photosOnFile(Append(log, e)) =
           IF e.photo /\ e.photoRequired
           THEN photosOnFile(log) \cup {e.status} ELSE photosOnFile(log)
<1> DEFINE longer == Append(log, e)
           n == Len(log)
<1>1. /\ n \in Nat /\ Len(longer) = n + 1
      /\ \A i \in 1 .. n : longer[i] = log[i]
      /\ longer[n + 1] = e
  BY AppendEntries
<1>2. 1 .. n + 1 = (1 .. n) \cup {n + 1}
  BY <1>1
<1> HIDE DEF longer, n
<1>3. {k \in 1 .. Len(longer) : longer[k].photo /\ longer[k].photoRequired}
        = {k \in 1 .. n : log[k].photo /\ log[k].photoRequired}
          \cup (IF e.photo /\ e.photoRequired THEN {n + 1} ELSE {})
  BY <1>1, <1>2
<1>4. photosOnFile(longer) =
        {log[i].status : i \in {k \in 1 .. n : log[k].photo /\ log[k].photoRequired}}
        \cup (IF e.photo /\ e.photoRequired THEN {e.status} ELSE {})
  BY <1>1, <1>3 DEF photosOnFile
<1>5. QED
  BY <1>4 DEF photosOnFile, longer, n

\* An update in flight is still valid for the row it will write.
UpdatesAreValid ==
  \A r \in Requests :
    LET c == call[r]
    IN c.kind = "updateStatus" => validUpdate(order[c.order], c.target, c.photo)

SerialInvariant == TypeOK /\ LogInvariant /\ UpdatesAreValid

\* The rows that updates have read, and read now, stand.
LEMMA UpdatesStayValid ==
  ASSUME SerialInvariant, [Next]_vars, RowsStand
  PROVE  UpdatesAreValid'
<1> USE DEF SerialInvariant
<1>1. ASSUME NEW r \in Requests, call'[r].kind = "updateStatus", call'[r] = call[r]
      PROVE  validUpdate(order'[call[r].order], call[r].target, call[r].photo)
  BY <1>1 DEF UpdatesAreValid, RowsStand, validUpdate
<1>2. ASSUME NEW r \in Requests, call'[r].kind = "updateStatus", call'[r] # call[r]
      PROVE  validUpdate(order'[call'[r].order], call'[r].target, call'[r].photo)
  <2>1. PICK o \in Orders, target \in OrderStatus, photo \in BOOLEAN :
          ReadForUpdate(r, o, target, photo)
    <3>1. ASSUME NEW q \in Requests, CommitUpdate(q) PROVE FALSE
      BY <1>2, <3>1 DEF CommitUpdate, TypeOK
    <3>2. ASSUME NEW q \in Requests, NEW o \in Orders, CreateOrder(q, o) PROVE FALSE
      BY <1>2, <3>2 DEF CreateOrder
    <3>3. ASSUME NEW q \in Requests, NEW o \in Orders, NEW target \in OrderStatus,
                 NEW photo \in BOOLEAN, ReadForUpdate(q, o, target, photo)
          PROVE  q = r
      BY <1>2, <3>3 DEF ReadForUpdate, TypeOK
    <3>4. QED
      BY <1>2, <3>1, <3>2, <3>3, StepKinds DEF Quiet
  <2>2. /\ call'[r] = [kind |-> "updateStatus", order |-> o, target |-> target,
                       photo |-> photo]
        /\ UNCHANGED order
        /\ validUpdate(order[o], target, photo)
    BY <2>1 DEF ReadForUpdate, TypeOK
  <2>3. QED
    BY <2>2
<1>3. QED
  BY <1>1, <1>2 DEF UpdatesAreValid

\* The abstract state of one order, and steps the lifecycle does not notice.
StageOf(o) == order[o].status
ClearedOf(o) == Exists(o) /\ canProceedToProcess(order[o].weightStatus)
ProofOf(o) == photosOnFile(statusLog[o])

SameLife(o) ==
  /\ StageOf(o)' = StageOf(o)
  /\ ClearedOf(o)' = ClearedOf(o)
  /\ ProofOf(o)' = ProofOf(o)

\* A new order is opened.
LEMMA CreateOpens ==
  ASSUME SerialInvariant, NEW r \in Requests, NEW o \in Orders, CreateOrder(r, o)
  PROVE  Lifecycle!Open(o)
<1> USE DEF SerialInvariant, TypeOK
<1>1. PICK pickup \in BOOLEAN, estimated \in Estimates,
           given \in Quantities, t \in Tariffs :
        order' = [order EXCEPT ![o] = newRow(pickup, estimated, given, t)]
  BY DEF CreateOrder
<1>2. order[o].status = "none" /\ order'[o].status \in {"pending", "received"}
  BY <1>1 DEF CreateOrder, newRow, initialStatus
<1>3. \A x \in Orders \ {o} : order'[x] = order[x] /\ statusLog'[x] = statusLog[x]
  BY <1>1 DEF CreateOrder
<1>4. statusLog[o] = <<>>
  BY <1>2 DEF LogInvariant, LogTracksStatus
<1>5. photosOnFile(statusLog[o]) = {} /\ photosOnFile(statusLog'[o]) = {}
  <2>1. PICK e : e = [status |-> order'[o].status, photo |-> FALSE,
                      photoRequired |-> FALSE]
    OBVIOUS
  <2>2. statusLog'[o] = <<e>> /\ e.photo = FALSE
    BY <2>1 DEF CreateOrder
  <2>3. \A i \in 1 .. Len(<<e>>) : <<e>>[i].photo = FALSE
    BY <2>2
  <2>4. photosOnFile(<<e>>) = {}
    BY <2>3 DEF photosOnFile
  <2>5. photosOnFile(<<>>) = {}
    BY DEF photosOnFile
  <2>6. QED
    BY <1>4, <2>2, <2>4, <2>5
<1>6. [x \in Orders |-> photosOnFile(statusLog'[x])]
        = [x \in Orders |-> photosOnFile(statusLog[x])]
  BY <1>3, <1>5
<1>7. ClearedOf(o)' \in BOOLEAN
  BY DEF ClearedOf, canProceedToProcess
<1>8. [x \in Orders |-> order'[x].status]
        = [[x \in Orders |-> order[x].status] EXCEPT ![o] = order'[o].status]
  BY <1>3
<1>9. [x \in Orders |-> ClearedOf(x)']
        = [[x \in Orders |-> ClearedOf(x)] EXCEPT ![o] = ClearedOf(o)']
  BY <1>3 DEF ClearedOf
<1>10. QED
  BY <1>2, <1>6, <1>7, <1>8, <1>9 DEF Lifecycle!Open, ClearedOf

\* The lifecycle has the rules of the service.
LEMMA SameRules ==
  ASSUME NEW s
  PROVE  /\ Lifecycle!getAllowedTransitions(s) = getAllowedTransitions(s)
         /\ Lifecycle!isCancellable(s) = isCancellable(s)
         /\ Lifecycle!isPhotoRequired(s) = isPhotoRequired(s)
BY DEF Lifecycle!getAllowedTransitions, getAllowedTransitions,
       Lifecycle!ORDER_STATUS_TRANSITIONS, ORDER_STATUS_TRANSITIONS,
       Lifecycle!OrderStatus, OrderStatus,
       Lifecycle!isCancellable, isCancellable,
       Lifecycle!CANCELLABLE_STATUSES, CANCELLABLE_STATUSES,
       Lifecycle!isPhotoRequired, isPhotoRequired,
       Lifecycle!PHOTO_REQUIRED_STATUSES, PHOTO_REQUIRED_STATUSES

\* The transaction of an update that is still valid advances or cancels.
LEMMA CommitAdvances ==
  ASSUME SerialInvariant, NEW r \in Requests, CommitUpdate(r)
  PROVE  \E o \in Orders : Lifecycle!Advance(o) \/ Lifecycle!Cancel(o)
<1> USE DEF SerialInvariant, TypeOK
<1>1. PICK o, s, photo : o = call[r].order /\ s = call[r].target /\ photo = call[r].photo
  OBVIOUS
<1>2. o \in Orders /\ s \in OrderStatus /\ photo \in BOOLEAN
  BY <1>1, HeldByKind DEF CommitUpdate, Held, UpdateCall
<1>3. PICK e : e = [status |-> s, photo |-> photo, photoRequired |-> isPhotoRequired(s)]
  OBVIOUS
<1>4. /\ order' = [order EXCEPT ![o].status = s]
      /\ statusLog' = [statusLog EXCEPT ![o] = Append(@, e)]
      /\ validUpdate(order[o], s, photo)
      /\ order[o].status # "none"
  BY <1>1, <1>3 DEF CommitUpdate, UpdatesAreValid, LogInvariant, UpdatesWereValidated
<1>5. /\ \A x \in Orders \ {o} : order'[x] = order[x] /\ statusLog'[x] = statusLog[x]
      /\ order'[o].status = s /\ order'[o].weightStatus = order[o].weightStatus
      /\ statusLog'[o] = Append(statusLog[o], e)
      /\ s # "none"
  BY <1>2, <1>4 DEF Row, OrderStatus
<1>6. photosOnFile(statusLog'[o]) =
        IF isPhotoRequired(s) THEN photosOnFile(statusLog[o]) \cup {s}
        ELSE photosOnFile(statusLog[o])
  <2>1. isPhotoRequired(s) \in BOOLEAN
    BY DEF isPhotoRequired
  <2>2. e \in LogEntry
    BY <1>2, <1>3, <2>1 DEF LogEntry
  <2>3. isPhotoRequired(s) => photo
    BY <1>4 DEF validUpdate, photoAccepted
  <2>4. /\ e.photo /\ e.photoRequired <=> isPhotoRequired(s)
        /\ e.status = s
    BY <1>3, <2>3
  <2>5. statusLog[o] \in Seq(LogEntry)
    BY <1>2
  <2>6. QED
    BY <1>5, <2>2, <2>4, <2>5, PhotosAppend
<1>7. [x \in Orders |-> ClearedOf(x)'] = [x \in Orders |-> ClearedOf(x)]
  BY <1>4, <1>5 DEF ClearedOf
<1>8. /\ [x \in Orders |-> order'[x].status]
           = [[x \in Orders |-> order[x].status] EXCEPT ![o] = s]
      /\ [x \in Orders |-> photosOnFile(statusLog'[x])]
           = [[x \in Orders |-> photosOnFile(statusLog[x])] EXCEPT ![o] =
                IF isPhotoRequired(s) THEN @ \cup {s} ELSE @]
  BY <1>2, <1>5, <1>6
<1>9. /\ s \in getAllowedTransitions(order[o].status)
      /\ s = "process" => ClearedOf(o)
  BY <1>4 DEF validUpdate, canTransition, ClearedOf
<1>10. CASE s # "cancelled"
  <2>1. Lifecycle!Advance(o)
    <3>1. s \in Lifecycle!getAllowedTransitions(order[o].status) \ {"cancelled"}
      BY <1>9, <1>10, SameRules
    <3>2. [x \in Orders |-> photosOnFile(statusLog'[x])]
            = [[x \in Orders |-> photosOnFile(statusLog[x])] EXCEPT ![o] =
                 IF Lifecycle!isPhotoRequired(s) THEN @ \cup {s} ELSE @]
      BY <1>8, SameRules
    <3>3. [x \in Orders |-> order[x].status][o] = order[o].status
      BY <1>2
    <3>4. s = "process" =>
            [x \in Orders |-> order[x].status # "none" /\
               canProceedToProcess(order[x].weightStatus)][o]
      BY <1>2, <1>9 DEF ClearedOf
    <3>5. QED
      BY <1>4, <1>7, <1>8, <3>1, <3>2, <3>3, <3>4 DEF Lifecycle!Advance, ClearedOf
  <2>2. QED
    BY <1>2, <2>1
<1>11. CASE s = "cancelled"
  <2>1. order[o].status \in OrderStatus
    BY <1>2, <1>4 DEF Row
  <2>2. isCancellable(order[o].status)
    BY <1>9, <1>11, <2>1
    DEF getAllowedTransitions, ORDER_STATUS_TRANSITIONS, isCancellable,
        CANCELLABLE_STATUSES, OrderStatus
  <2>3. ~isPhotoRequired(s)
    BY <1>11 DEF isPhotoRequired, PHOTO_REQUIRED_STATUSES
  <2>4. [x \in Orders |-> photosOnFile(statusLog'[x])]
          = [x \in Orders |-> photosOnFile(statusLog[x])]
    BY <1>5, <1>6, <2>3
  <2>5. Lifecycle!Cancel(o)
    BY <1>2, <1>7, <1>8, <1>11, <2>2, <2>4, SameRules DEF Lifecycle!Cancel, ClearedOf
  <2>6. QED
    BY <1>2, <2>5
<1>12. QED
  BY <1>10, <1>11

\* A weighing or an answer of the customer clears an order or holds it back.
LEMMA WeightClears ==
  ASSUME SerialInvariant, NEW o \in Orders, NEW row \in Row,
         order[o].status # "none", row.status = order[o].status,
         order' = [order EXCEPT ![o] = row], UNCHANGED statusLog
  PROVE  Lifecycle!Weigh(o)
<1>1. /\ \A x \in Orders \ {o} : order'[x] = order[x]
      /\ order'[o].status = order[o].status
  BY DEF SerialInvariant, TypeOK
<1>2. [x \in Orders |-> order'[x].status] = [x \in Orders |-> order[x].status]
  BY <1>1
<1>3. [x \in Orders |-> ClearedOf(x)']
        = [[x \in Orders |-> ClearedOf(x)] EXCEPT ![o] = ClearedOf(o)']
  BY <1>1 DEF ClearedOf
<1>4. ClearedOf(o)' \in BOOLEAN
  BY DEF ClearedOf, canProceedToProcess
<1>5. QED
  BY <1>2, <1>3, <1>4 DEF Lifecycle!Weigh, ClearedOf

\* Each step is one of the lifecycle, or one it does not notice.
LEMMA LifecycleStep ==
  ASSUME SerialInvariant, [Next]_vars
  PROVE  [Lifecycle!Next]_(Lifecycle!vars)
<1> USE DEF SerialInvariant, TypeOK
<1>1. CASE UNCHANGED <<order, statusLog>>
  BY <1>1 DEF Lifecycle!vars
<1>2. ASSUME NEW r \in Requests, UpdateStatus(r)
      PROVE  [Lifecycle!Next]_(Lifecycle!vars)
  <2>1. ASSUME NEW o \in Orders, CreateOrder(r, o)
        PROVE  Lifecycle!Next
    BY <2>1, CreateOpens DEF Lifecycle!Next
  <2>2. CASE CommitUpdate(r)
    BY <2>2, CommitAdvances DEF Lifecycle!Next
  <2>3. QED
    BY <1>1, <1>2, <2>1, <2>2 DEF UpdateStatus, OrderServiceStep, ReadForUpdate, AbortUpdate
<1>3. ASSUME NEW r \in Requests, UpdateWeight(r)
      PROVE  Lifecycle!Next
  <2>1. PICK o \in Orders, w \in Weights : VerifyAndApplyWeight(r, o, w)
    BY <1>3 DEF UpdateWeight
  <2>2. PICK row : row = weighedRow(order[o], w)
    OBVIOUS
  <2>3. row \in Row /\ row.status = order[o].status
    BY <2>2, WeighedRowType DEF weighedRow, Row
  <2>4. /\ order' = [order EXCEPT ![o] = row] /\ UNCHANGED statusLog
        /\ order[o].status # "none"
    BY <2>1, <2>2 DEF VerifyAndApplyWeight
  <2>5. Lifecycle!Weigh(o)
    BY <2>3, <2>4, WeightClears
  <2>6. QED
    BY <2>5 DEF Lifecycle!Next
<1>4. ASSUME NEW r \in Requests, NEW o \in Orders, NEW agreed \in BOOLEAN,
             ConfirmWeight(r, o, agreed)
      PROVE  [Lifecycle!Next]_(Lifecycle!vars)
  <2>1. CASE ~agreed
    BY <1>1, <1>4, <2>1 DEF ConfirmWeight
  <2>2. CASE agreed
    <3>1. PICK row : row = [order[o] EXCEPT !.weightStatus = "confirmed",
                                            !.confirmedAt = TRUE]
      OBVIOUS
    <3>2. row \in Row /\ row.status = order[o].status
      BY <3>1 DEF Row, WeightStatus
    <3>3. /\ order' = [order EXCEPT ![o] = row] /\ UNCHANGED statusLog
          /\ order[o].status # "none"
      BY <1>4, <2>2, <3>1 DEF ConfirmWeight
    <3>4. Lifecycle!Weigh(o)
      BY <3>2, <3>3, WeightClears
    <3>5. QED
      BY <3>4 DEF Lifecycle!Next
  <2>3. QED
    BY <2>1, <2>2
<1>5. ASSUME NEW r \in Requests, PressButton(r) \/ ConfirmInApp(r)
      PROVE  [Lifecycle!Next]_(Lifecycle!vars)
  BY <1>4, <1>5 DEF PressButton, ConfirmInApp, Notice
<1>6. CASE \/ \E r \in Requests : QueueWeightMismatchNotification(r)
           \/ ProcessNextJob \/ Crash \/ UNCHANGED vars
  BY <1>1, <1>6 DEF QueueWeightMismatchNotification, ProcessNextJob, Crash, tableVars, vars
<1>7. QED
  BY <1>2, <1>3, <1>5, <1>6 DEF Next

\* A step that changes nothing leaves the rows alone as well.
LEMMA RowsStandOrStutter == [RowsStand]_vars => RowsStand
BY DEF RowsStand, vars

\* As long as no row is written between the read and the transaction of an
\* update of it, the workflow implements the lifecycle, whatever else is handled
\* at the same time and whenever the process dies.
THEOREM LifecycleIsKept == Spec /\ [][RowsStand]_vars => LifecycleSpec
<1>1. Init => SerialInvariant /\ Lifecycle!Init
  <2> SUFFICES ASSUME Init PROVE SerialInvariant /\ Lifecycle!Init
    OBVIOUS
  <2>1. TypeOK
    BY MaxCrashesAssumption
    DEF Init, TableInit, QueueInit, TypeOK, NoRow, Row, WeightStatus,
        PaymentStatus, ActiveOf
  <2>2. LogInvariant
    BY DEF Init, TableInit, NoRow, LogInvariant, LogTracksStatus, StatusTrail,
           LogStartsAtOrigin, PhotosAreKept, UpdatesWereValidated
  <2>3. UpdatesAreValid
    BY DEF Init, TableInit, UpdatesAreValid
  <2>4. /\ \A o \in Orders : order[o].status = "none" /\ statusLog[o] = <<>>
        /\ photosOnFile(<<>>) = {}
    BY DEF Init, TableInit, NoRow, photosOnFile
  <2>5. Lifecycle!Init
    BY <2>4 DEF Lifecycle!Init
  <2>6. QED
    BY <2>1, <2>2, <2>3, <2>5 DEF SerialInvariant
<1>2. SerialInvariant /\ [Next]_vars /\ [RowsStand]_vars => SerialInvariant'
  <2> SUFFICES ASSUME SerialInvariant, [Next]_vars, [RowsStand]_vars
               PROVE  SerialInvariant'
    OBVIOUS
  <2>1. TypeOK' /\ UpdatesAreValid'
    BY TypeStep, UpdatesStayValid, RowsStandOrStutter DEF SerialInvariant
  <2>2. LogInvariant'
    BY StepKinds, QuietKeepsLog, CreateKeepsLog, ReadKeepsLog, CommitKeepsLog
    DEF SerialInvariant
  <2>3. QED
    BY <2>1, <2>2 DEF SerialInvariant
<1>3. QED
  BY <1>1, <1>2, LifecycleStep, PTL DEF Spec, LifecycleSpec, Lifecycle!Spec

\* One request at a time keeps to that.
LEMMA OneRequestStands ==
  ASSUME \A r, q \in Requests : r = q, TypeOK, [Next]_vars
  PROVE  RowsStand
<1> SUFFICES ASSUME NEW r \in Requests, call[r].kind = "updateStatus", call'[r] = call[r]
             PROVE  UNCHANGED order
  BY DEF RowsStand
<1>1. \A q \in Requests : q = r
  OBVIOUS
<1>2. call[r].kind # "idle" /\ call[r].kind # "notify"
  OBVIOUS
<1>3. ~CommitUpdate(r)
  BY <1>2 DEF CommitUpdate, TypeOK
<1>4. ASSUME UpdateStatus(r) PROVE UNCHANGED order
  BY <1>2, <1>3, <1>4
  DEF UpdateStatus, OrderServiceStep, CreateOrder, ReadForUpdate, AbortUpdate
<1>5. ~UpdateWeight(r) /\ ~PressButton(r) /\ ~ConfirmInApp(r)
  <2>1. ~Free(r)
    BY <1>2
  <2>2. /\ \A o, w : ~VerifyAndApplyWeight(r, o, w)
        /\ \A o, agreed : ~ConfirmWeight(r, o, agreed)
    BY <2>1 DEF VerifyAndApplyWeight, ConfirmWeight
  <2>3. QED
    BY <2>2 DEF UpdateWeight, PressButton, ConfirmInApp
<1>6. ~QueueWeightMismatchNotification(r)
  BY <1>2 DEF QueueWeightMismatchNotification
<1>7. CASE ProcessNextJob \/ Crash \/ UNCHANGED vars
  BY <1>7 DEF ProcessNextJob, Crash, tableVars, vars
<1>8. QED
  BY <1>1, <1>4, <1>5, <1>6, <1>7 DEF Next

\* Handled one at a time, requests implement the lifecycle: any tariffs, weights
\* and tolerance, a queue of any length, any number of deaths of the process.
THEOREM OneByOneIsLifecycle ==
  ASSUME \A r, q \in Requests : r = q
  PROVE  Spec => LifecycleSpec
<1>1. TypeOK /\ [Next]_vars => [RowsStand]_vars
  BY OneRequestStands
<1>2. Spec => [][RowsStand]_vars
  BY <1>1, TypeCorrect, PTL DEF Spec
<1>3. QED
  BY <1>2, LifecycleIsKept, PTL
=============================================================================
