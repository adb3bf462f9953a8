-------------------------- MODULE NotificationQueue --------------------------
(***************************************************************************)
(* The way of a weight-mismatch notice from the service to the customer's  *)
(* WhatsApp: notification.service.ts (enqueue, or the fallback taken when  *)
(* Redis is off or refuses the job), the BullMQ queue and its single       *)
(* worker (notification.processor.ts), whatsapp.service.ts.                *)
(***************************************************************************)
EXTENDS Naturals, Sequences

CONSTANTS
  RedisEnabled,  \* REDIS_ENABLED # 'false'
  MaxJobs        \* bound: jobs waiting in Redis

ASSUME RedisAssumption   == RedisEnabled \in BOOLEAN
ASSUME MaxJobsAssumption == MaxJobs \in Nat

VARIABLES
  queue,   \* jobs waiting in Redis, next one first
  active,  \* what the worker is doing
  inbox,   \* notices shown to customers, each with its two buttons
  lost     \* history: notices that will never be shown

queueVars == <<queue, active, inbox, lost>>

\* A job of send_weight_mismatch_wa whose payload is in Notices; stalled: it was
\* taken once before by a worker that died.
JobOf(Notices) == [notice : Notices, stalled : BOOLEAN]

NoJob == [state |-> "idle"]

ActiveOf(Notices) ==
  [state : {"taken", "sent"}, job : JobOf(Notices)] \cup {NoJob}

QueueInit ==
  /\ queue = <<>>
  /\ active = NoJob
  /\ inbox = {}
  /\ lost = {}

\* notificationQueue.add succeeds.
Enqueue(n) ==
  /\ RedisEnabled
  /\ Len(queue) < MaxJobs
  /\ queue' = Append(queue, [notice |-> n, stalled |-> FALSE])
  /\ UNCHANGED <<active, inbox, lost>>

\* Redis is disabled, or add throws: "Direct Fallback Mode", which answers
\* success and sends nothing.
DirectFallback(n) ==
  /\ lost' = lost \cup {n}
  /\ UNCHANGED <<queue, active, inbox>>

TakeJob ==
  /\ active.state = "idle"
  /\ queue # <<>>
  /\ active' = [state |-> "taken", job |-> Head(queue)]
  /\ queue' = Tail(queue)
  /\ UNCHANGED <<inbox, lost>>

\* sendInteractiveWeightConfirmation builds the message and reports success (the
\* HTTP POST to WhatsApp is left to be written); the model takes a message so
\* built as shown to the customer.  It never throws, so the three attempts of
\* the job are never used.
SendInteractiveWeightConfirmation ==
  /\ active.state = "taken"
  /\ inbox' = inbox \cup {active.job.notice}
  /\ active' = [active EXCEPT !.state = "sent"]
  /\ UNCHANGED <<queue, lost>>

\* Mutant: the job is acknowledged before the message is sent.
CompleteEarly ==
  /\ active.state \in {"taken", "sent"}
  /\ active' = NoJob
  /\ UNCHANGED <<queue, inbox, lost>>

\* removeOnComplete.
CompleteJob ==
  /\ active.state = "sent"
  /\ active' = NoJob
  /\ UNCHANGED <<queue, inbox, lost>>

WorkerStep == TakeJob \/ SendInteractiveWeightConfirmation \/ CompleteJob

\* The process dies.  Redis keeps the waiting jobs; BullMQ gives a job whose
\* worker died back to the queue once (maxStalledCount is 1 by default) and
\* fails it the second time.  Notices still held by a request are lost.
WorkerDies(held) ==
  LET retried == active.state # "idle" /\ ~active.job.stalled
      dropped == active.state = "taken" /\ active.job.stalled
  IN /\ active' = NoJob
     /\ queue' = IF retried
                 THEN <<[active.job EXCEPT !.stalled = TRUE]>> \o queue
                 ELSE queue
     /\ lost' = lost \cup held
                \cup (IF dropped THEN {active.job.notice} ELSE {})
     /\ UNCHANGED inbox
=============================================================================
