---------------------------- MODULE OrderWorkflow ----------------------------
(***************************************************************************)
(* An order from creation to its end: OrderService, WeightVerification and *)
(* NotificationQueue over one order table, the customers who press the     *)
(* buttons of the messages they were shown, and the death and restart of   *)
(* the back end.                                                           *)
(***************************************************************************)
EXTENDS OrderService, WeightVerification, NotificationQueue

CONSTANTS
  InAppConfirmation,  \* customers may also use POST /orders/:id/weight/confirm
  MaxCrashes          \* bound: deaths of the process

ASSUME InAppAssumption      == InAppConfirmation \in BOOLEAN
ASSUME MaxCrashesAssumption == MaxCrashes \in Nat

VARIABLE crashes    \* deaths so far, to bound them

vars == <<order, statusLog, call, queue, active, inbox, lost, crashes>>

Init ==
  /\ TableInit
  /\ QueueInit
  /\ crashes = 0

UpdateStatus(r) ==
  /\ OrderServiceStep(r)
  /\ UNCHANGED <<queueVars, crashes>>

UpdateWeight(r) ==
  /\ \E o \in Orders, w \in Weights : VerifyAndApplyWeight(r, o, w)
  /\ UNCHANGED <<queueVars, crashes>>

\* queueWeightMismatchNotification, awaited by verifyAndApplyWeight.
QueueWeightMismatchNotification(r) ==
  /\ call[r].kind = "notify"
  /\ Enqueue(call[r].notice) \/ DirectFallback(call[r].notice)
  /\ call' = [call EXCEPT ![r] = Idle]
  /\ UNCHANGED <<order, statusLog, crashes>>

\* A customer presses a button of a message in the inbox, the webhook delivers
\* it now or later, and handleWebhook passes it on.  The button says which order
\* it is about and nothing of the weight the message showed.
PressButton(r) ==
  /\ \E n \in inbox, agreed \in BOOLEAN : ConfirmWeight(r, n.order, agreed)
  /\ UNCHANGED <<queueVars, crashes>>

\* POST /orders/:id/weight/confirm of the customer's application.
ConfirmInApp(r) ==
  /\ InAppConfirmation
  /\ \E o \in Orders, agreed \in BOOLEAN : ConfirmWeight(r, o, agreed)
  /\ UNCHANGED <<queueVars, crashes>>

ProcessNextJob ==
  /\ WorkerStep
  /\ UNCHANGED <<tableVars, crashes>>

\* Notices of weighings whose request has not reached the queue yet.
NoticesHeld ==
  {call[r].notice : r \in {q \in Requests : call[q].kind = "notify"}}

\* The process dies and is restarted: requests in flight are gone, whatever
\* they had not committed with them.
Crash ==
  /\ crashes < MaxCrashes
  /\ crashes' = crashes + 1
  /\ WorkerDies(NoticesHeld)
  /\ call' = [r \in Requests |-> Idle]
  /\ UNCHANGED <<order, statusLog>>

Next ==
  \/ \E r \in Requests :
       \/ UpdateStatus(r)
       \/ UpdateWeight(r)
       \/ QueueWeightMismatchNotification(r)
       \/ PressButton(r)
       \/ ConfirmInApp(r)
  \/ ProcessNextJob
  \/ Crash

Spec == Init /\ [][Next]_vars

\* The event loop resumes every awaiting request, and BullMQ's worker polls for
\* as long as the process lives: neither stays enabled for ever without moving.
Fairness ==
  /\ WF_vars(ProcessNextJob)
  /\ \A r \in Requests : WF_vars(QueueWeightMismatchNotification(r))

FairSpec == Spec /\ Fairness
-----------------------------------------------------------------------------
TypeOK ==
  /\ order \in [Orders -> Row]
  /\ statusLog \in [Orders -> Seq(LogEntry)]
  /\ call \in [Requests -> {Idle} \cup UpdateCall \cup NotifyCall]
  /\ queue \in Seq(JobOf(Notice))
  /\ active \in ActiveOf(Notice)
  /\ inbox \subseteq Notice
  /\ lost \subseteq Notice
  /\ crashes \in 0 .. MaxCrashes

Logged(o) == {statusLog[o][i].status : i \in 1 .. Len(statusLog[o])}

\* Whatever requests race, the status log of an order never shows a status out
\* of nowhere: each entry after the first was a legal successor of some status
\* the order had before (validateTransition checks it against the row it read).
StatusTrail ==
  \A o \in Orders : \A i \in 2 .. Len(statusLog[o]) :
    \E j \in 1 .. i - 1 :
      canTransition(statusLog[o][j].status, statusLog[o][i].status)

\* The row and the log never disagree: updateStatus writes both in one
\* transaction, so the newest entry is the status of the row.
LogTracksStatus ==
  \A o \in Orders :
    IF Exists(o)
    THEN /\ Len(statusLog[o]) > 0
         /\ statusLog[o][Len(statusLog[o])].status = order[o].status
    ELSE statusLog[o] = <<>>

\* A hand-over for which a photo is on file in the log.
Photographed(o, s) ==
  \E i \in 1 .. Len(statusLog[o]) :
    statusLog[o][i].status = s /\ statusLog[o][i].photo

\* However updates race, a finished order has the photo asked for when it went
\* out for delivery, and one fetched at home also those of the collection and of
\* the arrival at the outlet (the first status of a pickup order is 'pending').
HandoverPhotos ==
  \A o \in Orders :
    "done" \in Logged(o) =>
      /\ Photographed(o, "delivery")
      /\ order[o].pickup => Photographed(o, "pickup") /\ Photographed(o, "received")

\* An order fetched at home with an estimate is never washed before it was
\* weighed or its customer has agreed to any weight, even by an update that was
\* validated on an older row: 'pending' keeps the gate shut until one of the two
\* has happened.
ProcessRequiresWeighing ==
  \A o \in Orders :
    /\ order[o].pickup /\ order[o].estimated # 0
    /\ "process" \in Logged(o)
    => order[o].actual # 0 \/ order[o].confirmedAt

\* The strengthening from which the properties of the log follow: where an
\* order's log starts, what every later entry carries, and what the updates in
\* flight were validated against.
LogStartsAtOrigin ==
  \A o \in Orders :
    Exists(o) => statusLog[o][1].status = initialStatus(order[o].pickup)

PhotosAreKept ==
  \A o \in Orders : \A i \in 2 .. Len(statusLog[o]) :
    photoAccepted(statusLog[o][i].status, statusLog[o][i].photo)

UpdatesWereValidated ==
  \A r \in Requests :
    LET c == call[r]
    IN c.kind = "updateStatus" =>
         /\ Exists(c.order)
         /\ photoAccepted(c.target, c.photo)
         /\ \E j \in 1 .. Len(statusLog[c.order]) :
              canTransition(statusLog[c.order][j].status, c.target)

LogInvariant ==
  /\ LogTracksStatus
  /\ StatusTrail
  /\ LogStartsAtOrigin
  /\ PhotosAreKept
  /\ UpdatesWereValidated

NoticesQueued == {queue[i].notice : i \in 1 .. Len(queue)}

NoticesActive == IF active.state # "idle" THEN {active.job.notice} ELSE {}

NoticesUnderway == NoticesHeld \cup NoticesQueued \cup NoticesActive

\* The notice of the weight and total the row of o now has.
NoticeOf(o) == [order |-> o, weight |-> order[o].actual, total |-> order[o].total]

\* An order held for a mismatch is never forgotten silently by the queue: the
\* notice of the very weight it is held for is on its way, was shown, or was
\* lost at one of the places that lose notices (the fallback, the death of the
\* process between the commit and the enqueue, a job stalled twice).
MismatchTracked ==
  \A o \in Orders :
    Exists(o) /\ order[o].weightStatus = "mismatched" =>
      NoticeOf(o) \in NoticesUnderway \cup inbox \cup lost

\* A notice tells what a real weighing found: the weight it shows is further
\* from the estimate of the order it names than the tolerance, so not exactly at
\* its limit, and the total is what that weight costs with the order's own tariff.
TellsTruth(n) ==
  LET row == order[n.order]
      limit == row.estimated * TolerancePercent
  IN /\ Exists(n.order)
     /\ row.actual # 0 /\ row.estimated # 0
     /\ 10000 * (n.weight - row.estimated) \notin -limit .. limit
     /\ n.total = totalAmount(row.price, n.weight, row.discount, row.fee)

\* Every notice that reaches a customer, first or again after a crash and
\* however many weighings later, tells the truth about its own order.
ShownNoticesAreTrue == \A n \in inbox : TellsTruth(n)

\* The strengthening from which the properties of the notices follow.
NoticesTraced == NoticesUnderway \cup inbox \cup lost

SentIsShown == active.state = "sent" => active.job.notice \in inbox

NoticeInvariant ==
  /\ \A n \in NoticesTraced : TellsTruth(n)
  /\ SentIsShown
  /\ MismatchTracked

\* An order fetched at home with an estimate is held by 'pending' as long as it
\* was neither weighed nor confirmed.
UnweighedIsPending ==
  \A o \in Orders :
    /\ Exists(o)
    /\ order[o].pickup
    /\ order[o].estimated # 0
    /\ order[o].actual = 0
    /\ ~order[o].confirmedAt
    => /\ order[o].weightStatus = "pending"
       /\ "process" \notin Logged(o)
       /\ \A r \in Requests :
            call[r].kind = "updateStatus" =>
              ~(call[r].order = o /\ call[r].target = "process")

\* Every mismatch is settled: under the fairness of the event loop and of the
\* worker its notice is finally shown or lost, deaths of the process included.
MismatchIsSettled ==
  \A o \in Orders, w \in Weights :
    Exists(o) /\ order[o].weightStatus = "mismatched" /\ order[o].actual = w
      ~> \E n \in inbox \cup lost : n.order = o /\ n.weight = w
-----------------------------------------------------------------------------
(***************************************************************************)
(* When one request is handled at a time the workflow implements the       *)
(* abstract lifecycle.                                                     *)
(***************************************************************************)
photosOnFile(log) ==
  {log[i].status : i \in {k \in 1 .. Len(log) :
                            log[k].photo /\ log[k].photoRequired}}

Lifecycle ==
  INSTANCE OrderLifecycle WITH
    stage   <- [o \in Orders |-> order[o].status],
    cleared <- [o \in Orders |->
                  Exists(o) /\ canProceedToProcess(order[o].weightStatus)],
    proof   <- [o \in Orders |-> photosOnFile(statusLog[o])]

\* Handled one by one, requests take every order through the legal statuses
\* only, wash it only while its weight is cleared, and keep the photos.
LifecycleSpec == Lifecycle!Spec

\* What updateStatus relies on and no code sees to: between the row it validates
\* and its transaction nobody else writes the row's status or weight status.
RowsStand ==
  \A r \in Requests :
    LET o == call[r].order
    IN call[r].kind = "updateStatus" /\ call'[r] = call[r] =>
         /\ order'[o].status = order[o].status
         /\ order'[o].weightStatus = order[o].weightStatus
-----------------------------------------------------------------------------
(***************************************************************************)
(* What comments, tests and the documents in document/Scope say of the     *)
(* workflow and the code does not keep (see the README).                   *)
(***************************************************************************)
\* Whenever the status of an order changes, the state machine permits it from the
\* row as it stands then (section 5 of SDD_CleanTrack): nothing leaves 'done' or
\* 'cancelled', no status is skipped or gone back on, and no order is washed
\* while it is held for a mismatch.
MovesAreLegal ==
  [][\A o \in Orders :
       Exists(o) /\ order'[o].status # order[o].status =>
         /\ canTransition(order[o].status, order'[o].status)
         /\ order'[o].status = "process" =>
              canProceedToProcess(order[o].weightStatus)]_vars

\* 'confirmed': the customer agreed to the difference, so to the weight and total
\* the order now has, which they must have been shown.
ConfirmedWeightWasShown ==
  \A o \in Orders :
    order[o].weightStatus = "confirmed" => NoticeOf(o) \in inbox

\* A notice handed to queueWeightMismatchNotification reaches the customer, by
\* the queue or by the direct fallback.
NoticeIsShown ==
  \A o \in Orders, w \in Weights :
    (\E r \in Requests : /\ call[r].kind = "notify"
                         /\ call[r].notice.order = o
                         /\ call[r].notice.weight = w)
      ~> \E n \in inbox : n.order = o /\ n.weight = w
=============================================================================
