------------------------------ MODULE Reports ------------------------------
(***************************************************************************)
(* report.service.ts over the books that Billing writes.  A report is a    *)
(* function of the rows it reads: S is the set of orders the filter        *)
(* (tenant, branch, period) selects.                                       *)
(***************************************************************************)
EXTENDS Billing

\* Mutant: payments that wait for the gateway are counted as well.
countedUnlessFailed(S) ==
  {p \in Payments : /\ Issued(p)
                    /\ payment[p].order \in S
                    /\ payment[p].status \notin {"failed", "refunded"}}

\* The payments whose amounts both reports add up.
counted(S) ==
  {p \in Payments : payment[p].order \in S /\ payment[p].status = "success"}

inStatus(S, s) == Cardinality({o \in S : order[o].status = s})

\* Math.round of a quotient of natural numbers, 0 for no orders.
average(sum, n) == IF n = 0 THEN 0 ELSE (2 * sum + n) \div (2 * n)

getRevenueReport(S) ==
  LET revenue == amountOf(counted(S))
  IN [revenue   |-> revenue,
      orders    |-> Cardinality(S),
      completed |-> inStatus(S, "done"),
      cancelled |-> inStatus(S, "cancelled"),
      average   |-> average(revenue, Cardinality(S)),
      methods   |-> [m \in Methods |->
                       amountOf({p \in counted(S) : payment[p].method = m})],
      statuses  |-> [s \in OrderStatus |-> inStatus(S, s)]]

\* One branch: S is its orders of all times, the period is not looked at.
getBranchPerformance(S) ==
  [revenue   |-> amountOf(counted(S)),
   orders    |-> Cardinality(S),
   completed |-> inStatus(S, "done")]
-----------------------------------------------------------------------------
Returned(o) == {p \in Received(o) : payment[p].status # "success"}

\* Revenue is what came in less what the gateway took back, split by method of
\* payment without a rest; an unpaid order brings none.
ReportAddsUp ==
  \A o \in {x \in Orders : Exists(x)} :
    LET reported == getRevenueReport({o})
    IN /\ order[o].paymentStatus = "unpaid" => reported.revenue = 0
       /\ reported.revenue + amountOf(Returned(o)) = amountOf(Received(o))
       /\ reported.revenue = SumFunctionOnSet(reported.methods, Methods)
       /\ reported.revenue = getBranchPerformance({o}).revenue

\* A paid order brings its total, less what the gateway took back.
PaidIsReported ==
  \A o \in {x \in Orders : Exists(x)} :
    order[o].paymentStatus = "paid" =>
      getRevenueReport({o}).revenue + amountOf(Returned(o)) >= order[o].total

\* The revenue report and the orders tell the same story although a refund
\* writes the payment and not the order, and reports and orders are read
\* whatever payments and webhooks race.
ReportMatchesBooks == ReportAddsUp /\ PaidIsReported

Books ==
  INSTANCE Ledger WITH
    due      <- [o \in Orders |-> order[o].total],
    received <- [o \in Orders |-> amountOf(Received(o))],
    kept     <- [o \in Orders |-> getRevenueReport({o}).revenue],
    shown    <- [o \in Orders |-> order[o].paymentStatus]

\* While the total stands, payments, webhooks and their races implement the
\* ledger: every step is one payment coming in, a repeated message, a return
\* that leaves the order alone, or nothing the books notice.
LedgerSpec == Books!Spec
=============================================================================
