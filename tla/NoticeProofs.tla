---------------------------- MODULE NoticeProofs ----------------------------
(***************************************************************************)
(* Proofs about the weight notices of OrderWorkflow: none is forgotten,    *)
(* none is false, and while WhatsApp is the only channel they are what     *)
(* stands between an unweighed order and the laundry.                      *)
(***************************************************************************)
EXTENDS OrderWorkflowProofs

USE DEF Free, Exists, Idle

-----------------------------------------------------------------------------
(* What a step does to the rows and to the notices.                        *)

\* The part of a row a notice depends on: it never changes once the order
\* exists, and an order once weighed stays weighed.
SameTariff(row, new) ==
  /\ new.status # "none"
  /\ new.pickup = row.pickup
  /\ new.estimated = row.estimated
  /\ new.price = row.price
  /\ new.discount = row.discount
  /\ new.fee = row.fee
  /\ row.actual # 0 => new.actual # 0

TariffsKept == \A o \in Orders : Exists(o) => SameTariff(order[o], order'[o])

\* A step that rewrites one row keeps all tariffs if it keeps that one.
LEMMA RewriteKeepsTariffs ==
  ASSUME order \in [Orders -> Row], NEW o \in Orders, NEW new,
         order' = [order EXCEPT ![o] = new],
         Exists(o) => SameTariff(order[o], new)
  PROVE  TariffsKept
<1> SUFFICES ASSUME NEW q \in Orders, Exists(q)
             PROVE  SameTariff(order[q], order'[q])
  BY DEF TariffsKept
<1>1. CASE q = o
  BY <1>1
<1>2. CASE q # o
  <2>1. order'[q] = order[q]
    BY <1>2
  <2>2. QED
    BY <2>1 DEF SameTariff
<1>3. QED
  BY <1>1, <1>2

\* What a weighing changes.
LEMMA WeighedRowFields ==
  ASSUME NEW row \in Row, NEW w \in Weights
  PROVE  /\ weighedRow(row, w).actual = w
         /\ weighedRow(row, w).weightStatus =
              calculateTolerance(row.estimated, w, TolerancePercent)
         /\ weighedRow(row, w).total =
              totalAmount(row.price, w, row.discount, row.fee)
         /\ weighedRow(row, w).status = row.status
         /\ weighedRow(row, w).pickup = row.pickup
         /\ weighedRow(row, w).estimated = row.estimated
         /\ weighedRow(row, w).price = row.price
         /\ weighedRow(row, w).discount = row.discount
         /\ weighedRow(row, w).fee = row.fee
         /\ weighedRow(row, w).confirmedAt = row.confirmedAt
BY DEF weighedRow, Row

\* No step changes the tariff or the estimate of an existing order.
LEMMA StepKeepsTariffs ==
  ASSUME TypeOK, [Next]_vars
  PROVE  TariffsKept
<1> USE DEF TypeOK
<1>1. ASSUME NEW r \in Requests, NEW o \in Orders, CreateOrder(r, o)
      PROVE  TariffsKept
  <2>1. PICK new : order' = [order EXCEPT ![o] = new]
    BY <1>1 DEF CreateOrder
  <2>2. ~Exists(o)
    BY <1>1 DEF CreateOrder
  <2>3. QED
    BY <2>1, <2>2, RewriteKeepsTariffs
<1>2. ASSUME NEW r \in Requests, NEW o \in Orders, NEW w \in Weights,
             VerifyAndApplyWeight(r, o, w)
      PROVE  TariffsKept
  <2>1. w # 0
    BY WeightsAssumption
  <2>2. order' = [order EXCEPT ![o] = weighedRow(order[o], w)] /\ Exists(o)
    BY <1>2 DEF VerifyAndApplyWeight, notifies
  <2>3. SameTariff(order[o], weighedRow(order[o], w))
    <3>1. order[o] \in Row
      OBVIOUS
    <3>2. QED
      BY <2>1, <2>2, <3>1, WeighedRowFields DEF SameTariff
  <2>4. QED
    BY <2>2, <2>3, RewriteKeepsTariffs
<1>3. ASSUME NEW r \in Requests, CommitUpdate(r)
      PROVE  TariffsKept
  <2> DEFINE o == call[r].order
             new == [order[o] EXCEPT !.status = call[r].target]
  <2>1. call[r] \in UpdateCall
    BY <1>3, HeldByKind DEF CommitUpdate, Held
  <2>2. o \in Orders /\ call[r].target # "none"
    BY <2>1 DEF UpdateCall, OrderStatus
  <2>3. order[o] \in Row
    BY <2>2
  <2>4. SameTariff(order[o], new)
    BY <2>2, <2>3 DEF SameTariff, Row
  <2>5. order' = [order EXCEPT ![o] = new]
    BY <1>3 DEF CommitUpdate
  <2>6. QED
    BY <2>2, <2>4, <2>5, RewriteKeepsTariffs
<1>4. ASSUME order' = order PROVE TariffsKept
  <2>1. ASSUME NEW q \in Orders, Exists(q) PROVE SameTariff(order[q], order[q])
    BY <2>1 DEF SameTariff
  <2>2. QED
    BY <1>4, <2>1 DEF TariffsKept
<1>5. ASSUME NEW r \in Requests, NEW o \in Orders, NEW agreed \in BOOLEAN,
             ConfirmWeight(r, o, agreed)
      PROVE  TariffsKept
  <2> DEFINE new == [order[o] EXCEPT !.weightStatus = "confirmed",
                                     !.confirmedAt = TRUE]
  <2>1. order' = order \/ order' = [order EXCEPT ![o] = new]
    BY <1>5 DEF ConfirmWeight
  <2>2. SameTariff(order[o], new)
    <3>1. order[o] \in Row /\ order[o].status # "none"
      BY <1>5 DEF ConfirmWeight
    <3>2. QED
      BY <3>1 DEF SameTariff, Row
  <2>3. QED
    BY <1>4, <2>1, <2>2, RewriteKeepsTariffs
<1>6. ASSUME NEW r \in Requests, PressButton(r) PROVE TariffsKept
  BY <1>5, <1>6 DEF PressButton, Notice
<1>7. ASSUME NEW r \in Requests, ConfirmInApp(r) PROVE TariffsKept
  BY <1>5, <1>7 DEF ConfirmInApp
<1>8. ASSUME NEW r \in Requests,
             \/ \E o \in Orders, target \in OrderStatus, photo \in BOOLEAN :
                  ReadForUpdate(r, o, target, photo)
             \/ AbortUpdate(r)
             \/ QueueWeightMismatchNotification(r)
      PROVE  order' = order
  BY <1>8 DEF ReadForUpdate, validUpdate, AbortUpdate, QueueWeightMismatchNotification
<1>9. ProcessNextJob \/ Crash \/ UNCHANGED vars => order' = order
  BY DEF ProcessNextJob, tableVars, Crash, vars
<1>10. QED
  BY <1>1, <1>2, <1>3, <1>4, <1>6, <1>7, <1>8, <1>9
  DEF Next, UpdateStatus, OrderServiceStep, UpdateWeight

\* A notice that told the truth tells it after every step.
LEMMA TruthLasts ==
  ASSUME TypeOK, TariffsKept, NEW n \in Notice, TellsTruth(n)
  PROVE  TellsTruth(n)'
<1>1. n.order \in Orders
  BY DEF Notice
<1>2. SameTariff(order[n.order], order'[n.order])
  BY <1>1 DEF TellsTruth, TariffsKept
<1>3. QED
  BY <1>2 DEF TellsTruth, SameTariff
-----------------------------------------------------------------------------
(* The way of the notices.                                                 *)

noticesIn(q) == {q[i].notice : i \in 1 .. Len(q)}

\* The notices in a queue after add, take, and the return of a stalled job.
LEMMA NoticesInAppend ==
  ASSUME NEW q \in Seq(JobOf(Notice)), NEW j \in JobOf(Notice)
  PROVE  noticesIn(Append(q, j)) = noticesIn(q) \cup {j.notice}
<1>1. /\ Len(Append(q, j)) = Len(q) + 1
      /\ Len(q) \in Nat
      /\ Append(q, j)[Len(q) + 1] = j
      /\ \A i \in 1 .. Len(q) : Append(q, j)[i] = q[i]
  OBVIOUS
<1>2. 1 .. Len(q) + 1 = 1 .. Len(q) \cup {Len(q) + 1}
  BY <1>1
<1>3. QED
  BY <1>1, <1>2 DEF noticesIn

\* Taking the first job takes its notice.
LEMMA NoticesInHeadTail ==
  ASSUME NEW q \in Seq(JobOf(Notice)), q # <<>>
  PROVE  noticesIn(q) = {Head(q).notice} \cup noticesIn(Tail(q))
<1>1. /\ Len(q) \in Nat \ {0}
      /\ Len(Tail(q)) = Len(q) - 1
      /\ Head(q) = q[1]
      /\ \A i \in 1 .. Len(q) - 1 : Tail(q)[i] = q[i + 1]
  OBVIOUS
<1>2. ASSUME NEW i \in 1 .. Len(q)
      PROVE  q[i].notice \in {Head(q).notice} \cup noticesIn(Tail(q))
  <2>1. CASE i = 1
    BY <1>1, <2>1
  <2>2. CASE i # 1
    <3>1. i - 1 \in 1 .. Len(Tail(q)) /\ Tail(q)[i - 1] = q[i]
      BY <1>1, <2>2
    <3>2. QED
      BY <3>1 DEF noticesIn
  <2>3. QED
    BY <2>1, <2>2
<1>3. ASSUME NEW i \in 1 .. Len(Tail(q))
      PROVE  Tail(q)[i].notice \in noticesIn(q)
  <2>1. i + 1 \in 1 .. Len(q) /\ Tail(q)[i] = q[i + 1]
    BY <1>1
  <2>2. QED
    BY <2>1 DEF noticesIn
<1>4. Head(q).notice \in noticesIn(q)
  <2>1. 1 \in 1 .. Len(q)
    BY <1>1
  <2>2. QED
    BY <1>1, <2>1 DEF noticesIn
<1>5. QED
  BY <1>2, <1>3, <1>4 DEF noticesIn

\* Putting a job back brings its notice back.
LEMMA NoticesInPrepend ==
  ASSUME NEW q \in Seq(JobOf(Notice)), NEW j \in JobOf(Notice)
  PROVE  noticesIn(<<j>> \o q) = {j.notice} \cup noticesIn(q)
<1>1. /\ <<j>> \o q \in Seq(JobOf(Notice))
      /\ Len(<<j>> \o q) = Len(q) + 1
      /\ Len(q) \in Nat
  OBVIOUS
<1>2. <<j>> \o q # <<>>
  BY <1>1
<1>3. Head(<<j>> \o q) = j /\ Tail(<<j>> \o q) = q
  OBVIOUS
<1>4. QED
  BY <1>1, <1>2, <1>3, NoticesInHeadTail

\* Notices held by requests, before and after request r turns to c.
LEMMA HeldAfter ==
  ASSUME call \in [Requests -> Held], NEW r \in Requests, NEW c,
         call' = [call EXCEPT ![r] = c]
  PROVE  /\ call[r].kind # "notify" /\ c.kind # "notify" =>
              NoticesHeld' = NoticesHeld
         /\ call[r].kind # "notify" /\ c.kind = "notify" =>
              NoticesHeld' = NoticesHeld \cup {c.notice}
         /\ call[r].kind = "notify" /\ c.kind # "notify" =>
              NoticesHeld' \cup {call[r].notice} = NoticesHeld
<1>1. call'[r] = c /\ \A q \in Requests \ {r} : call'[q] = call[q]
  OBVIOUS
<1>2. QED
  BY <1>1 DEF NoticesHeld

\* What a step must do to the notices: none appears, none vanishes.
TraceKept == NoticesTraced' = NoticesTraced /\ SentIsShown'

\* A step that leaves the queue alone and holds the same notices keeps them.
LEMMA SameHeldKeepsTrace ==
  ASSUME SentIsShown, UNCHANGED queueVars, NoticesHeld' = NoticesHeld
  PROVE  TraceKept
BY DEF queueVars, TraceKept, NoticesTraced, NoticesUnderway, NoticesQueued,
       NoticesActive, SentIsShown

\* The worker moves notices from the queue to the inbox.
LEMMA WorkerKeepsTrace ==
  ASSUME TypeOK, SentIsShown, ProcessNextJob
  PROVE  TraceKept
<1> USE DEF TypeOK
<1>1. NoticesHeld' = NoticesHeld
  BY DEF ProcessNextJob, tableVars, NoticesHeld
<1>2. CASE TakeJob
  <2>1. /\ active.state = "idle" /\ queue # <<>> /\ queue' = Tail(queue)
        /\ active' = [state |-> "taken", job |-> Head(queue)]
        /\ inbox' = inbox /\ lost' = lost
    BY <1>2 DEF TakeJob
  <2>2. noticesIn(queue) = {Head(queue).notice} \cup noticesIn(queue')
    BY <2>1, NoticesInHeadTail
  <2>3. NoticesQueued = NoticesActive' \cup NoticesQueued'
    BY <2>1, <2>2 DEF NoticesActive, NoticesQueued, noticesIn
  <2>4. NoticesActive = {} /\ SentIsShown'
    BY <2>1 DEF NoticesActive, SentIsShown
  <2>5. QED
    BY <1>1, <2>1, <2>3, <2>4 DEF TraceKept, NoticesTraced, NoticesUnderway
<1>3. CASE SendInteractiveWeightConfirmation
  <2>1. /\ active.state = "taken" /\ queue' = queue /\ lost' = lost
        /\ inbox' = inbox \cup {active.job.notice}
        /\ active' = [active EXCEPT !.state = "sent"]
    BY <1>3 DEF SendInteractiveWeightConfirmation
  <2>2. active'.job = active.job /\ active'.state = "sent"
    <3>1. active \in [state : {"taken", "sent"}, job : JobOf(Notice)]
      BY <2>1 DEF ActiveOf, NoJob
    <3>2. QED
      BY <2>1, <3>1
  <2>3. /\ NoticesActive' = {active.job.notice}
        /\ NoticesActive = {active.job.notice}
        /\ NoticesQueued' = NoticesQueued
    BY <2>1, <2>2 DEF NoticesActive, NoticesQueued
  <2>4. SentIsShown'
    BY <2>1, <2>2 DEF SentIsShown
  <2>5. QED
    BY <1>1, <2>1, <2>3, <2>4 DEF TraceKept, NoticesTraced, NoticesUnderway
<1>4. CASE CompleteJob
  <2>1. /\ active.state = "sent" /\ active' = NoJob
        /\ queue' = queue /\ inbox' = inbox /\ lost' = lost
    BY <1>4 DEF CompleteJob
  <2>2. /\ NoticesActive' = {} /\ NoticesActive \subseteq inbox
        /\ NoticesQueued' = NoticesQueued /\ SentIsShown'
    BY <2>1 DEF NoticesActive, NoticesQueued, NoJob, SentIsShown
  <2>3. QED
    BY <1>1, <2>1, <2>2 DEF TraceKept, NoticesTraced, NoticesUnderway
<1>5. QED
  BY <1>2, <1>3, <1>4 DEF ProcessNextJob, WorkerStep

\* Handing a notice to the queue, or to the fallback that drops it, accounts for
\* it.
LEMMA QueueingKeepsTrace ==
  ASSUME TypeOK, SentIsShown, NEW r \in Requests,
         QueueWeightMismatchNotification(r)
  PROVE  TraceKept
<1> USE DEF TypeOK
<1> DEFINE n == call[r].notice
<1>1. n \in Notice
  BY HeldByKind DEF QueueWeightMismatchNotification, Held, NotifyCall
<1>2. NoticesHeld' \cup {n} = NoticesHeld
  <2>1. call \in [Requests -> Held] /\ call' = [call EXCEPT ![r] = Idle]
    BY DEF QueueWeightMismatchNotification, Held
  <2>2. call[r].kind = "notify" /\ Idle.kind # "notify"
    BY DEF QueueWeightMismatchNotification
  <2> HIDE DEF Idle
  <2>3. QED
    BY <2>1, <2>2, HeldAfter
<1>3. CASE Enqueue(n)
  <2> DEFINE j == [notice |-> n, stalled |-> FALSE]
  <2>1. /\ queue' = Append(queue, j)
        /\ active' = active /\ inbox' = inbox /\ lost' = lost
    BY <1>3 DEF Enqueue
  <2>2. noticesIn(queue') = noticesIn(queue) \cup {n}
    <3>1. j \in JobOf(Notice)
      BY <1>1 DEF JobOf
    <3>2. QED
      BY <2>1, <3>1, NoticesInAppend
  <2>3. NoticesQueued' = NoticesQueued \cup {n}
    BY <2>2 DEF NoticesQueued, noticesIn
  <2>4. NoticesActive' = NoticesActive /\ SentIsShown'
    BY <2>1 DEF NoticesActive, SentIsShown
  <2>5. QED
    BY <1>2, <2>1, <2>3, <2>4 DEF TraceKept, NoticesTraced, NoticesUnderway
<1>4. CASE DirectFallback(n)
  <2>1. /\ lost' = lost \cup {n}
        /\ queue' = queue /\ active' = active /\ inbox' = inbox
    BY <1>4 DEF DirectFallback
  <2>2. /\ NoticesActive' = NoticesActive /\ NoticesQueued' = NoticesQueued
        /\ SentIsShown'
    BY <2>1 DEF NoticesActive, NoticesQueued, SentIsShown
  <2>3. QED
    BY <1>2, <2>1, <2>2 DEF TraceKept, NoticesTraced, NoticesUnderway
<1>5. QED
  BY <1>3, <1>4 DEF QueueWeightMismatchNotification

\* The death of the process loses held notices and, at the second time, the one
\* the worker had not shown; all are accounted for.
LEMMA CrashKeepsTrace ==
  ASSUME TypeOK, SentIsShown, Crash
  PROVE  TraceKept
<1> USE DEF TypeOK
<1>1. /\ active' = NoJob /\ inbox' = inbox
      /\ call' = [r \in Requests |-> Idle]
  BY DEF Crash, WorkerDies
<1>2. NoticesHeld' = {} /\ NoticesActive' = {} /\ SentIsShown'
  BY <1>1 DEF NoticesHeld, NoticesActive, NoJob, SentIsShown
<1>3. CASE active.state # "idle" /\ ~active.job.stalled
  <2> DEFINE j == [active.job EXCEPT !.stalled = TRUE]
  <2>1. queue' = <<j>> \o queue /\ lost' = lost \cup NoticesHeld
    BY <1>3 DEF Crash, WorkerDies
  <2>2. active.job \in JobOf(Notice)
    BY <1>3 DEF ActiveOf, NoJob
  <2>3. j \in JobOf(Notice) /\ j.notice = active.job.notice
    BY <2>2 DEF JobOf
  <2>4. noticesIn(queue') = {active.job.notice} \cup noticesIn(queue)
    BY <2>1, <2>3, NoticesInPrepend
  <2>5. NoticesQueued' = NoticesActive \cup NoticesQueued
    BY <1>3, <2>4 DEF NoticesQueued, NoticesActive, noticesIn
  <2>6. QED
    BY <1>1, <1>2, <2>1, <2>5 DEF TraceKept, NoticesTraced, NoticesUnderway
<1>4. CASE active.state = "idle"
  <2>1. queue' = queue /\ lost' = lost \cup NoticesHeld
    BY <1>4 DEF Crash, WorkerDies
  <2>2. NoticesQueued' = NoticesQueued /\ NoticesActive = {}
    BY <1>4, <2>1 DEF NoticesQueued, NoticesActive
  <2>3. QED
    BY <1>1, <1>2, <2>1, <2>2 DEF TraceKept, NoticesTraced, NoticesUnderway
<1>5. CASE active.state = "taken" /\ active.job.stalled
  <2>1. queue' = queue /\ lost' = lost \cup NoticesHeld \cup {active.job.notice}
    BY <1>5 DEF Crash, WorkerDies
  <2>2. NoticesQueued' = NoticesQueued /\ NoticesActive = {active.job.notice}
    BY <1>5, <2>1 DEF NoticesQueued, NoticesActive
  <2>3. QED
    BY <1>1, <1>2, <2>1, <2>2 DEF TraceKept, NoticesTraced, NoticesUnderway
<1>6. CASE active.state = "sent" /\ active.job.stalled
  <2>1. queue' = queue /\ lost' = lost \cup NoticesHeld
    BY <1>6 DEF Crash, WorkerDies
  <2>2. /\ NoticesQueued' = NoticesQueued
        /\ NoticesActive = {active.job.notice} /\ active.job.notice \in inbox
    BY <1>6, <2>1 DEF NoticesQueued, NoticesActive, SentIsShown
  <2>3. QED
    BY <1>1, <1>2, <2>1, <2>2 DEF TraceKept, NoticesTraced, NoticesUnderway
<1>7. QED
  BY <1>3, <1>4, <1>5, <1>6 DEF ActiveOf, NoJob
-----------------------------------------------------------------------------
(* The invariant of the notices.                                           *)

\* No order becomes mismatched, or changes what its notice must say.
NoNewMismatch ==
  \A o \in Orders :
    order'[o].status # "none" /\ order'[o].weightStatus = "mismatched" =>
      /\ Exists(o)
      /\ order[o].weightStatus = "mismatched"
      /\ order'[o].actual = order[o].actual
      /\ order'[o].total = order[o].total

\* Everything that may be traced is a well-formed notice.
LEMMA TracedType == TypeOK => NoticesTraced \subseteq Notice
<1> SUFFICES ASSUME TypeOK PROVE NoticesTraced \subseteq Notice
  OBVIOUS
<1> USE DEF TypeOK
<1>1. NoticesHeld \subseteq Notice
  BY HeldByKind DEF NoticesHeld, Held, NotifyCall
<1>2. NoticesQueued \subseteq Notice
  <2>1. ASSUME NEW i \in 1 .. Len(queue) PROVE queue[i] \in JobOf(Notice)
    OBVIOUS
  <2>2. QED
    BY <2>1 DEF NoticesQueued, JobOf
<1>3. NoticesActive \subseteq Notice
  BY DEF NoticesActive, ActiveOf, NoJob, JobOf
<1>4. QED
  BY <1>1, <1>2, <1>3 DEF NoticesTraced, NoticesUnderway

\* What is traced tells the truth after the step as before it.
LEMMA TruthsLast ==
  ASSUME TypeOK, [Next]_vars, \A n \in NoticesTraced : TellsTruth(n)
  PROVE  \A n \in NoticesTraced : TellsTruth(n)'
<1> TAKE n \in NoticesTraced
<1>1. n \in Notice /\ TellsTruth(n) /\ TariffsKept
  BY TracedType, StepKeepsTariffs
<1>2. QED
  BY <1>1, TruthLasts

\* Steps without a weighing keep the invariant.
LEMMA QuietNoticeStep ==
  ASSUME TypeOK, NoticeInvariant, [Next]_vars, TraceKept, NoNewMismatch
  PROVE  NoticeInvariant'
<1>1. ASSUME NEW n \in NoticesTraced' PROVE TellsTruth(n)'
  BY <1>1, TruthsLast DEF TraceKept, NoticeInvariant
<1>2. MismatchTracked'
  <2> SUFFICES ASSUME NEW o \in Orders, order'[o].status # "none",
                      order'[o].weightStatus = "mismatched"
               PROVE  NoticeOf(o)' \in NoticesTraced'
    BY DEF MismatchTracked, NoticesTraced
  <2>1. /\ Exists(o) /\ order[o].weightStatus = "mismatched"
        /\ NoticeOf(o)' = NoticeOf(o)
    BY DEF NoNewMismatch, NoticeOf
  <2>2. NoticeOf(o) \in NoticesTraced
    BY <2>1 DEF NoticeInvariant, MismatchTracked, NoticesTraced
  <2>3. QED
    BY <2>1, <2>2 DEF TraceKept
<1>3. QED
  BY <1>1, <1>2 DEF NoticeInvariant, TraceKept

\* A weight that mismatches is further from the estimate than the tolerance: the
\* epsilon of the comparison only ever forgives.
LEMMA MismatchIsOutside ==
  ASSUME NEW estimated \in Nat, NEW weight \in Weights,
         calculateTolerance(estimated, weight, TolerancePercent) = "mismatched"
  PROVE  /\ estimated # 0
         /\ 10000 * (weight - estimated) \notin
              -(estimated * TolerancePercent) .. estimated * TolerancePercent
<1>1. estimated > 0 /\ ~isWithinTolerance(estimated, weight, TolerancePercent)
  BY DEF calculateTolerance
<1>2. weight \in Nat /\ TolerancePercent \in Nat
  BY WeightsAssumption, ToleranceAssumption
<1> DEFINE limit == estimated * TolerancePercent
<1>3. limit \in Nat
  BY <1>2
<1>4. 10000 * difference(estimated, weight) > limit
  BY <1>1, <1>2, <1>3 DEF isWithinTolerance, difference
<1> HIDE DEF limit
<1>5. 10000 * (weight - estimated) \notin -limit .. limit
  BY <1>2, <1>3, <1>4 DEF difference
<1>6. QED
  BY <1>1, <1>5 DEF limit

\* A weighing out of tolerance brings its own, true, notice with it.
LEMMA WeighingNoticeStep ==
  ASSUME TypeOK, NoticeInvariant, [Next]_vars,
         NEW r \in Requests, NEW o \in Orders, NEW w \in Weights,
         VerifyAndApplyWeight(r, o, w), UNCHANGED queueVars
  PROVE  NoticeInvariant'
<1> USE DEF TypeOK
<1> DEFINE row == weighedRow(order[o], w)
           n == [order |-> o, weight |-> w, total |-> row.total]
<1>1. /\ order' = [order EXCEPT ![o] = row]
      /\ Exists(o)
      /\ call[r].kind # "notify"
      /\ order[o] \in Row
      /\ order'[o] = row
  BY DEF VerifyAndApplyWeight, notifies
<1>2. /\ row.actual = w /\ w # 0 /\ row.status = order[o].status
      /\ row.estimated = order[o].estimated /\ row.price = order[o].price
      /\ row.discount = order[o].discount /\ row.fee = order[o].fee
      /\ row.weightStatus =
           calculateTolerance(order[o].estimated, w, TolerancePercent)
      /\ row.total =
           totalAmount(order[o].price, w, order[o].discount, order[o].fee)
  BY <1>1, WeighedRowFields, WeightsAssumption
<1>3. /\ NoticesQueued' = NoticesQueued /\ NoticesActive' = NoticesActive
      /\ inbox' = inbox /\ lost' = lost /\ SentIsShown'
  BY DEF queueVars, NoticesQueued, NoticesActive, NoticeInvariant, SentIsShown
<1>4. NoticeOf(o)' = n
  BY <1>1, <1>2 DEF NoticeOf
<1>5. NoticesHeld' = IF row.weightStatus = "mismatched"
                     THEN NoticesHeld \cup {n} ELSE NoticesHeld
  <2>1. CASE row.weightStatus = "mismatched"
    <3> DEFINE c == [kind |-> "notify", notice |-> n]
    <3>1. call' = [call EXCEPT ![r] = c]
      BY <1>1, <2>1 DEF VerifyAndApplyWeight, notifies
    <3>2. c.kind = "notify" /\ c.notice = n /\ call \in [Requests -> Held]
      BY DEF Held
    <3> HIDE DEF c
    <3>3. NoticesHeld' = NoticesHeld \cup {c.notice}
      BY <1>1, <3>1, <3>2, HeldAfter
    <3>4. QED
      BY <2>1, <3>2, <3>3
  <2>2. CASE row.weightStatus # "mismatched"
    <3>1. call' = call
      BY <1>1, <2>2 DEF VerifyAndApplyWeight, notifies
    <3>2. QED
      BY <2>2, <3>1 DEF NoticesHeld
  <2>3. QED
    BY <2>1, <2>2
<1>6. NoticesTraced' = IF row.weightStatus = "mismatched"
                       THEN NoticesTraced \cup {n} ELSE NoticesTraced
  BY <1>3, <1>5 DEF NoticesTraced, NoticesUnderway
<1>7. ASSUME NEW m, m = n, row.weightStatus = "mismatched"
      PROVE  TellsTruth(m)'
  <2>1. /\ m.order = o /\ m.weight = w /\ m.total = row.total
        /\ order'[m.order] = row
    BY <1>1, <1>7
  <2> HIDE DEF n, row
  <2>2. row.status # "none" /\ row.actual # 0
    BY <1>1, <1>2
  <2>3. /\ order[o].estimated # 0
        /\ 10000 * (w - order[o].estimated) \notin
             -(order[o].estimated * TolerancePercent)
               .. order[o].estimated * TolerancePercent
    <3>1. order[o].estimated \in Nat
      BY <1>1 DEF Row
    <3>2. calculateTolerance(order[o].estimated, w, TolerancePercent) = "mismatched"
      BY <1>2, <1>7
    <3>3. QED
      BY <3>1, <3>2, MismatchIsOutside
  <2>4. row.estimated = order[o].estimated
    BY <1>2
  <2>5. QED
    BY <1>2, <2>1, <2>2, <2>3, <2>4 DEF TellsTruth
<1>8. ASSUME NEW m \in NoticesTraced' PROVE TellsTruth(m)'
  <2>1. CASE m \in NoticesTraced
    BY <2>1, TruthsLast DEF NoticeInvariant
  <2>2. CASE m = n /\ row.weightStatus = "mismatched"
    BY <1>7, <2>2
  <2>3. QED
    BY <1>6, <1>8, <2>1, <2>2
<1>9. MismatchTracked'
  <2> SUFFICES ASSUME NEW q \in Orders, order'[q].status # "none",
                      order'[q].weightStatus = "mismatched"
               PROVE  NoticeOf(q)' \in NoticesTraced'
    BY DEF MismatchTracked, NoticesTraced
  <2>1. CASE q = o
    BY <1>1, <1>4, <1>6, <2>1
  <2>2. CASE q # o
    <3>1. order'[q] = order[q] /\ NoticeOf(q)' = NoticeOf(q)
      BY <1>1, <2>2 DEF NoticeOf
    <3>2. NoticeOf(q) \in NoticesTraced
      BY <3>1 DEF NoticeInvariant, MismatchTracked, NoticesTraced
    <3>3. QED
      BY <1>6, <3>1, <3>2
  <2>3. QED
    BY <2>1, <2>2
<1>10. QED
  BY <1>3, <1>8, <1>9 DEF NoticeInvariant

\* A step that holds no notice before or after, and leaves the queue alone.
LEMMA NoNoticeStep ==
  ASSUME TypeOK, SentIsShown, UNCHANGED queueVars, NEW r \in Requests, NEW c,
         call' = [call EXCEPT ![r] = c],
         call[r].kind # "notify", c.kind # "notify"
  PROVE  TraceKept
<1>1. call \in [Requests -> Held]
  BY DEF TypeOK, Held
<1>2. NoticesHeld' = NoticesHeld
  BY <1>1, HeldAfter
<1>3. QED
  BY <1>2, SameHeldKeepsTrace

\* Every step that is not a weighing keeps the notices and makes no mismatch.
LEMMA OtherStepsAreQuiet ==
  ASSUME TypeOK, LogInvariant, SentIsShown, [Next]_vars
  PROVE  \/ TraceKept /\ NoNewMismatch
         \/ /\ UNCHANGED queueVars
            /\ \E r \in Requests, o \in Orders, w \in Weights :
                 VerifyAndApplyWeight(r, o, w)
<1> USE DEF TypeOK
<1> DEFINE Keeps == TraceKept /\ NoNewMismatch
<1>1. order' = order => NoNewMismatch
  BY DEF NoNewMismatch
<1>2. UNCHANGED <<queueVars, call>> => TraceKept
  <2>1. call' = call => NoticesHeld' = NoticesHeld
    BY DEF NoticesHeld
  <2>2. QED
    BY <2>1, SameHeldKeepsTrace
<1>3. ASSUME NEW r \in Requests, NEW o \in Orders, CreateOrder(r, o),
             UNCHANGED queueVars
      PROVE  Keeps
  <2>1. PICK pickup \in BOOLEAN, estimated \in Estimates,
             given \in Quantities, t \in Tariffs :
          order' = [order EXCEPT ![o] = newRow(pickup, estimated, given, t)]
    BY <1>3 DEF CreateOrder
  <2>2. newRow(pickup, estimated, given, t).weightStatus # "mismatched"
    BY DEF newRow, initialWeightStatus
  <2>3. NoNewMismatch
    BY <2>1, <2>2 DEF NoNewMismatch
  <2>4. call' = call
    BY <1>3 DEF CreateOrder
  <2>5. QED
    BY <1>2, <1>3, <2>3, <2>4
<1>4. ASSUME NEW r \in Requests, NEW o \in Orders,
             NEW target \in OrderStatus, NEW photo \in BOOLEAN,
             ReadForUpdate(r, o, target, photo), UNCHANGED queueVars
      PROVE  Keeps
  <2> DEFINE c == [kind |-> "updateStatus", order |-> o, target |-> target,
                   photo |-> photo]
  <2>1. /\ call' = [call EXCEPT ![r] = c] /\ order' = order
        /\ call[r].kind # "notify" /\ c.kind # "notify"
    BY <1>4 DEF ReadForUpdate, validUpdate
  <2> HIDE DEF c
  <2>2. QED
    BY <1>1, <1>4, <2>1, NoNoticeStep
<1>5. ASSUME NEW r \in Requests, CommitUpdate(r), UNCHANGED queueVars
      PROVE  Keeps
  <2> DEFINE o == call[r].order
             new == [order[o] EXCEPT !.status = call[r].target]
  <2>1. call[r] \in UpdateCall
    BY <1>5, HeldByKind DEF CommitUpdate, Held
  <2>2. o \in Orders /\ Exists(o)
    BY <1>5, <2>1 DEF UpdateCall, CommitUpdate, LogInvariant, UpdatesWereValidated
  <2>3. order' = [order EXCEPT ![o] = new] /\ order[o] \in Row
    BY <1>5, <2>2 DEF CommitUpdate
  <2>4. /\ new.weightStatus = order[o].weightStatus
        /\ new.actual = order[o].actual /\ new.total = order[o].total
    BY <2>3 DEF Row
  <2>5. NoNewMismatch
    BY <2>2, <2>3, <2>4 DEF NoNewMismatch
  <2>6. /\ call' = [call EXCEPT ![r] = Idle]
        /\ call[r].kind # "notify" /\ Idle.kind # "notify"
    BY <1>5 DEF CommitUpdate
  <2> HIDE DEF Idle
  <2>7. TraceKept
    BY <1>5, <2>6, NoNoticeStep
  <2>8. QED
    BY <2>5, <2>7
<1>6. ASSUME NEW r \in Requests, AbortUpdate(r), UNCHANGED queueVars
      PROVE  Keeps
  <2>1. /\ call' = [call EXCEPT ![r] = Idle] /\ order' = order
        /\ call[r].kind # "notify" /\ Idle.kind # "notify"
    BY <1>6 DEF AbortUpdate
  <2> HIDE DEF Idle
  <2>2. QED
    BY <1>1, <1>6, <2>1, NoNoticeStep
<1>7. ASSUME NEW r \in Requests, NEW o \in Orders, NEW agreed \in BOOLEAN,
             ConfirmWeight(r, o, agreed), UNCHANGED queueVars
      PROVE  Keeps
  <2> DEFINE new == [order[o] EXCEPT !.weightStatus = "confirmed",
                                     !.confirmedAt = TRUE]
  <2>1. order' = order \/ order' = [order EXCEPT ![o] = new]
    BY <1>7 DEF ConfirmWeight
  <2>2. new.weightStatus # "mismatched"
    <3>1. order[o] \in Row
      OBVIOUS
    <3>2. QED
      BY <3>1 DEF Row
  <2>3. NoNewMismatch
    BY <1>1, <2>1, <2>2 DEF NoNewMismatch
  <2>4. QED
    BY <1>2, <1>7, <2>3 DEF ConfirmWeight
<1>8. ASSUME NEW r \in Requests, PressButton(r) PROVE Keeps
  BY <1>7, <1>8 DEF PressButton, Notice
<1>9. ASSUME NEW r \in Requests, ConfirmInApp(r) PROVE Keeps
  BY <1>7, <1>9 DEF ConfirmInApp
<1>10. ASSUME NEW r \in Requests, QueueWeightMismatchNotification(r) PROVE Keeps
  BY <1>1, <1>10, QueueingKeepsTrace DEF QueueWeightMismatchNotification
<1>11. CASE ProcessNextJob
  BY <1>1, <1>11, WorkerKeepsTrace DEF ProcessNextJob, tableVars
<1>12. CASE Crash
  BY <1>1, <1>12, CrashKeepsTrace DEF Crash
<1>13. CASE UNCHANGED vars
  BY <1>1, <1>2, <1>13 DEF vars, queueVars
<1>14. QED
  BY <1>3, <1>4, <1>5, <1>6, <1>8, <1>9, <1>10, <1>11, <1>12, <1>13
  DEF Next, UpdateStatus, OrderServiceStep, UpdateWeight

\* No notice is forgotten and none is false, whatever crashes.
THEOREM NoticesHold == Spec => []NoticeInvariant
<1>1. Init => NoticeInvariant
  BY DEF Init, TableInit, QueueInit, NoRow, NoJob, NoticeInvariant, NoticesTraced,
         NoticesUnderway, NoticesHeld, NoticesQueued, NoticesActive,
         SentIsShown, MismatchTracked
<1>2. TypeOK /\ LogInvariant /\ NoticeInvariant /\ [Next]_vars => NoticeInvariant'
  <2> SUFFICES ASSUME TypeOK, LogInvariant, NoticeInvariant, [Next]_vars
               PROVE  NoticeInvariant'
    OBVIOUS
  <2>1. SentIsShown
    BY DEF NoticeInvariant
  <2>2. QED
    BY <2>1, OtherStepsAreQuiet, QuietNoticeStep, WeighingNoticeStep
<1>3. QED
  BY <1>1, <1>2, TypeCorrect, LogInvariantHolds, PTL DEF Spec

\* An order held for a mismatch always has its notice on the way, shown, or among
\* the lost ones.
THEOREM MismatchIsTracked == Spec => []MismatchTracked
<1>1. NoticeInvariant => MismatchTracked
  BY DEF NoticeInvariant
<1>2. QED
  BY <1>1, NoticesHold, PTL

\* What customers are shown is what was weighed.
THEOREM ShownIsTrue == Spec => []ShownNoticesAreTrue
<1>1. NoticeInvariant => ShownNoticesAreTrue
  BY DEF NoticeInvariant, ShownNoticesAreTrue, NoticesTraced
<1>2. QED
  BY <1>1, NoticesHold, PTL
-----------------------------------------------------------------------------
(* The gate between an order that must be weighed and the laundry.         *)

\* Fetched at home with an estimate, not weighed yet and not confirmed.
Closed(o) ==
  /\ Exists(o) /\ order[o].pickup /\ order[o].estimated # 0
  /\ order[o].actual = 0 /\ ~order[o].confirmedAt

\* What holds such an order back.
HeldBack(o) ==
  /\ order[o].weightStatus = "pending"
  /\ "process" \notin Logged(o)
  /\ \A r \in Requests :
       call[r].kind = "updateStatus" =>
         ~(call[r].order = o /\ call[r].target = "process")

\* UnweighedIsPending in these words.
LEMMA GateInWords ==
  UnweighedIsPending <=> \A o \in Orders : Closed(o) => HeldBack(o)
BY DEF UnweighedIsPending, Closed, HeldBack

\* A step that starts no update, leaves the log alone and changes the orders the
\* gate is closed for only in ways that do not matter keeps them back.
LEMMA QuietKeepsGate ==
  ASSUME UnweighedIsPending, UNCHANGED statusLog,
         \A o \in Orders : Closed(o)' =>
           Closed(o) /\ order'[o].weightStatus = order[o].weightStatus,
         \A r \in Requests : call'[r].kind = "updateStatus" => call'[r] = call[r]
  PROVE  UnweighedIsPending'
<1>1. ASSUME NEW o \in Orders, Closed(o)'
      PROVE  HeldBack(o)'
  <2>1. /\ HeldBack(o)
        /\ order'[o].weightStatus = order[o].weightStatus
    BY <1>1, GateInWords
  <2>2. QED
    BY <2>1 DEF HeldBack, Logged
<1>2. QED
  BY <1>1, GateInWords DEF UnweighedIsPending, Closed, HeldBack

\* A new order starts 'pending' if it will have to be weighed.
LEMMA CreateKeepsGate ==
  ASSUME TypeOK, LogInvariant, UnweighedIsPending,
         NEW r \in Requests, NEW o \in Orders, CreateOrder(r, o)
  PROVE  UnweighedIsPending'
<1> USE DEF TypeOK
<1>1. PICK pickup \in BOOLEAN, estimated \in Estimates,
           given \in Quantities, t \in Tariffs :
        order' = [order EXCEPT ![o] = newRow(pickup, estimated, given, t)]
  BY DEF CreateOrder
<1>2. /\ order'[o].status = initialStatus(pickup)
      /\ order'[o].pickup = pickup
      /\ order'[o].estimated = estimated
      /\ order'[o].weightStatus = initialWeightStatus(pickup, estimated)
  BY <1>1 DEF newRow
<1>3. /\ call' = call
      /\ statusLog' = [statusLog EXCEPT ![o] =
           <<[status |-> order'[o].status, photo |-> FALSE,
              photoRequired |-> FALSE]>>]
  BY DEF CreateOrder
<1>4. ASSUME Closed(o)' PROVE HeldBack(o)'
  <2>1. order'[o].weightStatus = "pending"
    BY <1>2, <1>4 DEF Closed, initialWeightStatus
  <2>2. "process" \notin Logged(o)'
    <3>1. statusLog'[o] = <<[status |-> order'[o].status, photo |-> FALSE,
                             photoRequired |-> FALSE]>>
      BY <1>3
    <3>2. /\ Len(statusLog'[o]) = 1
          /\ statusLog'[o][1].status = order'[o].status
      BY <3>1
    <3>3. order'[o].status # "process"
      BY <1>2 DEF initialStatus
    <3>4. QED
      BY <3>2, <3>3 DEF Logged
  <2>3. ASSUME NEW q \in Requests, call[q].kind = "updateStatus"
        PROVE  call[q].order # o
    BY <2>3 DEF CreateOrder, LogInvariant, UpdatesWereValidated
  <2>4. QED
    BY <1>3, <2>1, <2>2, <2>3 DEF HeldBack
<1>5. ASSUME NEW q \in Orders, q # o, Closed(q)' PROVE HeldBack(q)'
  <2>1. order'[q] = order[q] /\ statusLog'[q] = statusLog[q]
    BY <1>1, <1>3, <1>5
  <2>2. HeldBack(q)
    BY <1>5, <2>1, GateInWords DEF Closed
  <2>3. QED
    BY <1>3, <2>1, <2>2 DEF HeldBack, Logged
<1>6. QED
  BY <1>4, <1>5 DEF UnweighedIsPending, Closed, HeldBack

\* The gate refuses an update of an order the gate is closed for to 'process'.
LEMMA ReadKeepsGate ==
  ASSUME TypeOK, UnweighedIsPending, NEW r \in Requests, NEW o \in Orders,
         NEW target \in OrderStatus, NEW photo \in BOOLEAN,
         ReadForUpdate(r, o, target, photo)
  PROVE  UnweighedIsPending'
<1> USE DEF TypeOK
<1>1. /\ order' = order /\ statusLog' = statusLog
      /\ call' = [call EXCEPT ![r] = [kind |-> "updateStatus", order |-> o,
                                      target |-> target, photo |-> photo]]
  BY DEF ReadForUpdate
<1>2. target = "process" => order[o].weightStatus # "pending"
  BY DEF ReadForUpdate, validUpdate, canProceedToProcess,
         ALLOWED_PROCESS_WEIGHT_STATUSES
<1>3. ASSUME NEW q \in Orders, Closed(q)' PROVE HeldBack(q)'
  <2>1. HeldBack(q)
    BY <1>1, <1>3, GateInWords DEF Closed
  <2>2. ASSUME NEW s \in Requests, call'[s].kind = "updateStatus"
        PROVE  ~(call'[s].order = q /\ call'[s].target = "process")
    <3>1. CASE s = r
      <4>1. call'[s].order = o /\ call'[s].target = target
        BY <1>1, <3>1
      <4>2. QED
        BY <1>2, <2>1, <4>1 DEF HeldBack
    <3>2. CASE s # r
      <4>1. call'[s] = call[s]
        BY <1>1, <3>2
      <4>2. QED
        BY <2>1, <2>2, <4>1 DEF HeldBack
    <3>3. QED
      BY <3>1, <3>2
  <2>3. QED
    BY <1>1, <2>1, <2>2 DEF HeldBack, Logged
<1>4. QED
  BY <1>3 DEF UnweighedIsPending, Closed, HeldBack

\* No update in flight takes an order the gate is closed for to 'process'.
LEMMA CommitKeepsGate ==
  ASSUME TypeOK, LogInvariant, UnweighedIsPending, NEW r \in Requests,
         CommitUpdate(r)
  PROVE  UnweighedIsPending'
<1> USE DEF TypeOK
<1>1. call[r] \in UpdateCall /\ call[r].kind = "updateStatus"
  BY HeldByKind DEF CommitUpdate, Held
<1>2. PICK o \in Orders : o = call[r].order
  BY <1>1 DEF UpdateCall
<1> DEFINE s == call[r].target
           e == [status |-> s, photo |-> call[r].photo,
                 photoRequired |-> isPhotoRequired(s)]
           new == [order[o] EXCEPT !.status = s]
<1>3. /\ o \in Orders /\ Exists(o) /\ s \in OrderStatus
      /\ e \in LogEntry
  BY <1>1, <1>2 DEF UpdateCall, LogInvariant, UpdatesWereValidated, LogEntry,
              isPhotoRequired
<1>4. /\ order' = [order EXCEPT ![o] = new]
      /\ statusLog' = [statusLog EXCEPT ![o] = Append(statusLog[o], e)]
      /\ call' = [call EXCEPT ![r] = Idle]
  BY <1>2, <1>3 DEF CommitUpdate
<1>5. \A q \in Requests : call'[q].kind = "updateStatus" => call'[q] = call[q]
  BY <1>4
<1>6. ASSUME Closed(o)' PROVE HeldBack(o)'
  <2>1. /\ new.pickup = order[o].pickup
        /\ new.estimated = order[o].estimated
        /\ new.actual = order[o].actual
        /\ new.weightStatus = order[o].weightStatus
        /\ new.confirmedAt = order[o].confirmedAt
        /\ order'[o] = new
    BY <1>3, <1>4 DEF Row
  <2>2. HeldBack(o)
    BY <1>3, <1>6, <2>1, GateInWords DEF Closed
  <2>3. s # "process"
    BY <1>1, <1>2, <2>2 DEF HeldBack
  <2>4. "process" \notin Logged(o)'
    <3>1. statusLog[o] \in Seq(LogEntry) /\ statusLog'[o] = Append(statusLog[o], e)
      BY <1>3, <1>4
    <3>2. e.status = s
      OBVIOUS
    <3> HIDE DEF e, s
    <3>3. /\ Len(statusLog'[o]) = Len(statusLog[o]) + 1
          /\ \A i \in 1 .. Len(statusLog[o]) : statusLog'[o][i] = statusLog[o][i]
          /\ statusLog'[o][Len(statusLog[o]) + 1] = e
          /\ Len(statusLog[o]) \in Nat
      BY <1>3, <3>1, AppendEntries
    <3>4. ASSUME NEW i \in 1 .. Len(statusLog'[o])
          PROVE  statusLog'[o][i].status # "process"
      <4>1. CASE i \in 1 .. Len(statusLog[o])
        BY <2>2, <3>3, <4>1 DEF HeldBack, Logged
      <4>2. CASE i = Len(statusLog[o]) + 1
        BY <2>3, <3>2, <3>3, <4>2
      <4>3. QED
        BY <3>3, <4>1, <4>2
    <3>5. QED
      BY <3>4 DEF Logged
  <2>5. QED
    BY <1>5, <2>1, <2>2, <2>4 DEF HeldBack
<1>7. ASSUME NEW q \in Orders, q # o, Closed(q)' PROVE HeldBack(q)'
  <2>1. order'[q] = order[q] /\ statusLog'[q] = statusLog[q]
    BY <1>4, <1>7
  <2>2. HeldBack(q)
    BY <1>7, <2>1, GateInWords DEF Closed
  <2>3. QED
    BY <1>5, <2>1, <2>2 DEF HeldBack, Logged
<1>8. QED
  BY <1>6, <1>7 DEF UnweighedIsPending, Closed, HeldBack

\* A weighing makes an order weighed.
LEMMA WeighKeepsGate ==
  ASSUME TypeOK, UnweighedIsPending, NEW r \in Requests, NEW o \in Orders,
         NEW w \in Weights, VerifyAndApplyWeight(r, o, w)
  PROVE  UnweighedIsPending'
<1> USE DEF TypeOK
<1>1. /\ order' = [order EXCEPT ![o] = weighedRow(order[o], w)]
      /\ statusLog' = statusLog
  BY DEF VerifyAndApplyWeight
<1>2. order'[o].actual # 0
  BY <1>1, WeighedRowFields, WeightsAssumption
<1>3. \A q \in Orders : Closed(q)' => order'[q] = order[q]
  BY <1>1, <1>2 DEF Closed
<1>4. \A q \in Requests : call'[q].kind = "updateStatus" => call'[q] = call[q]
  BY DEF VerifyAndApplyWeight
<1>5. QED
  BY <1>1, <1>3, <1>4, QuietKeepsGate DEF Closed

\* Agreeing, by a button or in the application, is a confirmation.
LEMMA AnswerKeepsGate ==
  ASSUME TypeOK, UnweighedIsPending, NEW r \in Requests, NEW o \in Orders,
         NEW agreed, ConfirmWeight(r, o, agreed)
  PROVE  UnweighedIsPending'
<1> USE DEF TypeOK
<1>1. \A q \in Orders : order'[q] = order[q] \/ order'[q].confirmedAt
  <2>1. CASE order' = order
    BY <2>1
  <2>2. CASE order' = [order EXCEPT ![o].weightStatus = "confirmed",
                                    ![o].confirmedAt = TRUE]
    BY <2>2 DEF Row
  <2>3. QED
    BY <2>1, <2>2 DEF ConfirmWeight
<1>2. \A q \in Orders : Closed(q)' => order'[q] = order[q]
  BY <1>1 DEF Closed
<1>3. UNCHANGED <<statusLog, call>>
  BY DEF ConfirmWeight
<1>4. QED
  BY <1>2, <1>3, QuietKeepsGate DEF Closed

\* Every step keeps back the orders the gate is closed for.
LEMMA GateStep ==
  ASSUME TypeOK, LogInvariant, UnweighedIsPending, [Next]_vars
  PROVE  UnweighedIsPending'
<1>1. ASSUME UNCHANGED <<order, statusLog>>,
             \A r \in Requests : call'[r].kind = "updateStatus" => call'[r] = call[r]
      PROVE  UnweighedIsPending'
  BY <1>1, QuietKeepsGate DEF Closed
<1>2. ASSUME NEW r \in Requests, UpdateStatus(r) PROVE UnweighedIsPending'
  <2>1. CASE AbortUpdate(r)
    BY <1>1, <2>1 DEF AbortUpdate, TypeOK
  <2>2. QED
    BY <1>2, <2>1, CreateKeepsGate, ReadKeepsGate, CommitKeepsGate
    DEF UpdateStatus, OrderServiceStep
<1>3. ASSUME NEW r \in Requests, QueueWeightMismatchNotification(r)
      PROVE  UnweighedIsPending'
  BY <1>1, <1>3 DEF QueueWeightMismatchNotification, TypeOK
<1>4. CASE ProcessNextJob
  BY <1>1, <1>4 DEF ProcessNextJob, tableVars
<1>5. CASE Crash
  BY <1>1, <1>5 DEF Crash
<1>6. CASE UNCHANGED vars
  BY <1>1, <1>6 DEF vars
<1>7. ASSUME NEW r \in Requests, PressButton(r) \/ ConfirmInApp(r)
      PROVE  UnweighedIsPending'
  BY <1>7, AnswerKeepsGate DEF PressButton, ConfirmInApp, TypeOK, Notice
<1>8. QED
  BY <1>2, <1>3, <1>4, <1>5, <1>6, <1>7, WeighKeepsGate DEF Next, UpdateWeight

\* An order that must be weighed is never washed before it was weighed or its
\* customer agreed, however updates, weighings, answers and deaths of the process
\* interleave.
THEOREM WashedIsWeighed == Spec => []ProcessRequiresWeighing
<1>1. Init => UnweighedIsPending
  BY DEF Init, TableInit, NoRow, UnweighedIsPending
<1>2. TypeOK /\ LogInvariant /\ UnweighedIsPending /\ [Next]_vars
        => UnweighedIsPending'
  BY GateStep
<1>3. LogInvariant /\ UnweighedIsPending => ProcessRequiresWeighing
  BY DEF LogInvariant, LogTracksStatus, UnweighedIsPending, Logged,
         ProcessRequiresWeighing
<1>4. QED
  BY <1>1, <1>2, <1>3, TypeCorrect, LogInvariantHolds, PTL DEF Spec
=============================================================================
