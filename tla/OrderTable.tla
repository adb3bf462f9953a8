----------------------------- MODULE OrderTable -----------------------------
(***************************************************************************)
(* The state that every handler of the back end shares: the "order" table, *)
(* the "order_status_log" table, and what each HTTP request being handled  *)
(* holds across an await (rows it has read and decisions it took on them). *)
(*                                                                         *)
(* A handler runs without interleaving between two awaits (one Node.js     *)
(* process, or several behind a balancer: a Prisma statement or            *)
(* $transaction is atomic in PostgreSQL either way), so an action is what  *)
(* a handler does from one database await to the next.                     *)
(***************************************************************************)
EXTENDS OrderRules, WeightTolerance, Sequences

CONSTANTS
  Orders,            \* order ids the database may hand out
  Requests,          \* requests that may be handled at the same time
  Weights,           \* weights the cashier may enter (hundredths of a kg)
  Estimates,         \* estimates a customer may give; 0 means none was given
  Quantities,        \* item quantities a request may give; 0 means left out
  Tariffs,           \* [price, discount, fee] resolved while creating an order
  TolerancePercent   \* tenant.weight_tolerance_percent (hundredths of percent)

ASSUME WeightsAssumption    == Weights \subseteq Nat \ {0}
ASSUME EstimatesAssumption  == Estimates \subseteq Nat
ASSUME QuantitiesAssumption == Quantities \subseteq Nat
ASSUME TariffsAssumption    ==
  Tariffs \subseteq [price : Nat, discount : Nat, fee : Nat]
ASSUME ToleranceAssumption  == TolerancePercent \in Nat

VARIABLES
  order,      \* order[o]: the row of order o
  statusLog,  \* statusLog[o]: the rows of order_status_log for o, oldest first
  call        \* call[r]: what request r holds while it awaits

tableVars == <<order, statusLog, call>>

PaymentStatus == {"unpaid", "partial", "paid"}

\* A row, or the place of one not created yet (status "none").  The items of
\* an order share one quantity, so they are kept as the sum of their prices and
\* that quantity; confirmedAt says whether weight_confirmed_at is set.
Row ==
  [status : OrderStatus \cup {"none"}, pickup : BOOLEAN,
   estimated : Nat, actual : Nat, weightStatus : WeightStatus,
   confirmedAt : BOOLEAN,
   price : Nat, quantity : Nat, discount : Nat, fee : Nat, total : Nat,
   paymentStatus : PaymentStatus]

NoRow ==
  [status |-> "none", pickup |-> FALSE, estimated |-> 0, actual |-> 0,
   weightStatus |-> "not_required", confirmedAt |-> FALSE, price |-> 0,
   quantity |-> 0, discount |-> 0, fee |-> 0, total |-> 0,
   paymentStatus |-> "unpaid"]

LogEntry == [status : OrderStatus, photo : BOOLEAN, photoRequired : BOOLEAN]

\* findUnique({ where: { id } }) returns a row.
Exists(o) == order[o].status # "none"

\* Mutant: without the Math.max(0, ...).
totalUnclamped(price, quantity, discount, fee) ==
  price * quantity - discount + fee

\* Math.max(0, subtotal - discountAmount + courierFee + shippingFee); shippingFee
\* is 0 on every path that writes the row.
totalAmount(price, quantity, discount, fee) ==
  LET sum == price * quantity - discount + fee IN IF sum > 0 THEN sum ELSE 0

Idle == [kind |-> "idle"]

Free(r) == call[r] = Idle

TableInit ==
  /\ order = [o \in Orders |-> NoRow]
  /\ statusLog = [o \in Orders |-> <<>>]
  /\ call = [r \in Requests |-> Idle]
=============================================================================
