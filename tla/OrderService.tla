---------------------------- MODULE OrderService ----------------------------
(***************************************************************************)
(* order.service.ts: createOrder, and updateStatus with its gap between    *)
(* the row it validates and the unconditional write it commits.            *)
(***************************************************************************)
EXTENDS OrderTable, OrderPricing

CONSTANT MaxLog    \* bound: no update starts once an order has as many log rows
ASSUME MaxLogAssumption == MaxLog \in Nat

\* updateStatus after its validations, awaiting $transaction.
UpdateCall ==
  [kind : {"updateStatus"}, order : Orders, target : OrderStatus,
   photo : BOOLEAN]

initialStatus(pickup) == IF pickup THEN "pending" ELSE "received"

initialWeightStatus(pickup, estimated) ==
  IF pickup /\ estimated # 0 THEN "pending" ELSE "not_required"

newRow(pickup, estimated, given, t) ==
  LET quantity == itemQuantity(given, estimated, 100)
  IN [status |-> initialStatus(pickup), pickup |-> pickup,
      estimated |-> estimated, actual |-> 0,
      weightStatus |-> initialWeightStatus(pickup, estimated),
      confirmedAt |-> FALSE, price |-> t.price, quantity |-> quantity,
      discount |-> t.discount, fee |-> t.fee,
      total |-> totalAmount(t.price, quantity, t.discount, t.fee),
      paymentStatus |-> "unpaid"]

\* createOrder: the row, its items and its first status log are one
\* transaction; what it reads before (branch, services, discount, courier
\* rules) only determines the tariff.
CreateOrder(r, o) ==
  /\ Free(r)
  /\ ~Exists(o)
  /\ \E pickup \in BOOLEAN, estimated \in Estimates, given \in Quantities,
        t \in Tariffs :
       order' = [order EXCEPT ![o] = newRow(pickup, estimated, given, t)]
  /\ statusLog' = [statusLog EXCEPT ![o] =
       <<[status |-> order'[o].status, photo |-> FALSE,
          photoRequired |-> FALSE]>>]
  /\ UNCHANGED call

\* Mutant: the transition matrix is not consulted, only the end of an order.
validUnlessTerminal(row, target, photo) ==
  /\ ~isTerminal(row.status)
  /\ photoAccepted(target, photo)
  /\ target = "process" => canProceedToProcess(row.weightStatus)

\* Mutant: the photo is not required.
validWithoutPhoto(row, target, photo) ==
  /\ canTransition(row.status, target)
  /\ target = "process" => canProceedToProcess(row.weightStatus)

\* Mutant: the weight does not hold the order back.
validWithoutWeight(row, target, photo) ==
  /\ canTransition(row.status, target)
  /\ photoAccepted(target, photo)

\* The three validations of updateStatus, on the row it read.
validUpdate(row, target, photo) ==
  /\ canTransition(row.status, target)
  /\ photoAccepted(target, photo)
  /\ target = "process" => canProceedToProcess(row.weightStatus)

\* updateStatus up to the await of its transaction.  A request that fails a
\* validation is answered 422 and changes nothing.
ReadForUpdate(r, o, target, photo) ==
  /\ Free(r)
  /\ Exists(o)
  /\ Len(statusLog[o]) < MaxLog
  /\ validUpdate(order[o], target, photo)
  /\ call' = [call EXCEPT ![r] = [kind |-> "updateStatus", order |-> o,
                                  target |-> target, photo |-> photo]]
  /\ UNCHANGED <<order, statusLog>>

\* Mutant: the row is written only if it may still change so, the log always.
CommitLogAnyway(r) ==
  LET c == call[r]
  IN /\ c.kind = "updateStatus"
     /\ order' = IF canTransition(order[c.order].status, c.target)
                 THEN [order EXCEPT ![c.order].status = c.target]
                 ELSE order
     /\ statusLog' = [statusLog EXCEPT ![c.order] =
          Append(@, [status |-> c.target, photo |-> c.photo,
                     photoRequired |-> isPhotoRequired(c.target)])]
     /\ call' = [call EXCEPT ![r] = Idle]

\* The transaction of updateStatus: it writes the status whatever the row
\* says by now, and appends to the log.
CommitUpdate(r) ==
  LET c == call[r]
  IN /\ c.kind = "updateStatus"
     /\ order' = [order EXCEPT ![c.order].status = c.target]
     /\ statusLog' = [statusLog EXCEPT ![c.order] =
          Append(@, [status |-> c.target, photo |-> c.photo,
                     photoRequired |-> isPhotoRequired(c.target)])]
     /\ call' = [call EXCEPT ![r] = Idle]

\* The transaction of updateStatus fails or its connection is lost: answered
\* 500, nothing written.
AbortUpdate(r) ==
  /\ call[r].kind = "updateStatus"
  /\ call' = [call EXCEPT ![r] = Idle]
  /\ UNCHANGED <<order, statusLog>>

OrderServiceStep(r) ==
  \/ \E o \in Orders : CreateOrder(r, o)
  \/ \E o \in Orders, target \in OrderStatus, photo \in BOOLEAN :
       ReadForUpdate(r, o, target, photo)
  \/ CommitUpdate(r)
  \/ AbortUpdate(r)
=============================================================================
