# SIPELA in TLA+

SIPELA is the back end of a laundry business: a NestJS application over
PostgreSQL (Prisma), with a Redis queue (BullMQ) for WhatsApp messages and a
WebSocket gateway for the positions of couriers. It takes orders, has them
fetched, weighs them, asks the customer when the weight differs from the
estimate, washes, delivers, and takes payments at the counter and through a
payment gateway.

This directory holds TLA+ modules translated from its source, TLC configurations
that check them on small instances, and theorems TLAPS proves for every
instance. Paths below are relative to the repository's root; `src/src/...` in
`PROJECT.json` is the application's `src/...`.

    tlc -workers 2 -config workflow_race.cfg MCOrderWorkflow.tla
    tlapm NoticeProofs.tla

## 1. Inventory

| Component | State it keeps | Operations that change it | Hard because | Correct when |
|---|---|---|---|---|
| Order status machine (`order.constants.ts`, `order-state-machine.service.ts`) | none (a matrix) | none | it is consulted on a row that may be stale | the lifecycle implements the matrix |
| Orders (`order.service.ts`) | `order`, `order_item`, `order_status_log` | `createOrder`, `updateStatus` | `updateStatus` awaits between the row it validates and the row it writes (`where: { id }` only); `createOrder` adds up prices, a discount and a fee read one statement at a time | log and row agree; no status out of nowhere; nothing is washed unweighed; what is charged was on offer |
| Photo verification | none | none | same stale row | a finished order has its photos |
| Weight verification (`weight-verification.service.ts`) | `actual_weight`, `weight_status`, totals | `verifyAndApplyWeight`, `confirmWeight` | commits before it notifies; writes item after item, each locked and each rounded by itself; a confirmation names an order, not a weight | a held order's notice is never forgotten; what is confirmed was shown; an order and its items differ by no more than rounding |
| Notifications (`notification/`) | the BullMQ queue, the job being run | enqueue or fallback, worker, WhatsApp message, button webhook | deaths of the process, stalled jobs, jobs run twice, Redis off | every notice tells the truth and is finally shown or lost for a known reason |
| Payments (`payment.service.ts`) | `payment`, `order.payment_status` | `createPayment`, `handleWebhook` | sums of a snapshot written in a later transaction; webhooks late, repeated, reordered | no money overlooked, nothing "paid" on credit |
| Courier tracking (`courier.service.ts`, `courier.gateway.ts`) | `courier`, `order.courier_id`, `courier_location_log`, WebSocket rooms | `assignCourier`, `recordLocation`, join, leave | profiles made by two requests; a log write and a broadcast | the right courier; live view and log agree |
| Customers (`customer.service.ts`, first half of `createOrder`) | `customer`, `customer_address` | `createCustomer`, the customer and address `createOrder` makes | look-up and insert apart, no unique index, a refusal after the inserts | nobody entered twice, no order booked on someone else |
| Master data (`master.service.ts`) | employees, services, branches, discounts | create, update, delete | an employee and the courier profile are two inserts; the catalogue changes under orders being added up, roles under people logged in | profiles and employees in step |
| Authentication (`auth.service.ts`, `jwt.strategy.ts`, `roles.guard.ts`) | none on the server; tokens at the clients | `login`, `refreshToken` | a token repeats a row that may have changed: during the password check, and for its whole life | a token opens nothing its employee could not do shortly before |
| Reports (`report.service.ts`) | none | none | they read two tables that a refund changes one of | report and orders tell the same story |
| Tenant guard, HTTP shell | none | none (they wrap single requests) | - | not modelled |
| Schema and seed | the tables | migrations | - | the tables are the modules' state |

The components meet in shared rows. `updateStatus`, `verifyAndApplyWeight`,
`confirmWeight`, `createPayment` and `handleWebhook` all write columns of one
`order` row without a version or a lock; `verifyAndApplyWeight` awaits
`queueWeightMismatchNotification` after its commit; the worker sends the message,
and the button in it comes back as a webhook that calls `confirmWeight`.
`createEmployee` and `assignCourier` both insert courier profiles;
`createCustomer` and `createOrder` both insert customers. `createOrder` reads services and
discounts that owners edit; logins and renewals read employees that owners edit;
the reports read orders and payments.

## 2. Modules

| Module | Models | Uses |
|---|---|---|
| `OrderRules` | the status matrix, photo and weight rules (constants and pure functions) | - |
| `WeightTolerance` | `calculateTolerance` | - |
| `OrderTable` | the order row, the status log, what a request holds while it awaits | both above |
| `OrderService` | `createOrder`'s transaction, `updateStatus` | `OrderTable` |
| `WeightVerification` | `verifyAndApplyWeight`, `confirmWeight` | `OrderTable` |
| `NotificationQueue` | queue, fallback, worker, message, death of the worker | - |
| `OrderWorkflow` | the three above with buttons, the in-app confirmation and deaths of the process; fairness; properties | the three above |
| `OrderLifecycle` | abstract specification of an order's life | `OrderRules` |
| `PaymentService` | payments, webhooks, the gateway | `OrderTable` |
| `Billing` | what is owed against what was paid | `OrderWorkflow`, `PaymentService` |
| `Ledger` | abstract specification of what the payments of an order promise | - |
| `Reports` | the revenue report and the performance of branches, over the books of `Billing`; the refinement of `Ledger` | `Billing`, `Ledger` |
| `CourierTracking` | employees, courier profiles, assignment, pings, rooms, broadcasts | - |
| `StaffSessions` | logins, the two tokens, renewals, guards, dismissals and changes of role | `CourierTracking` |
| `Catalogue` | services and discounts | - |
| `OrderPricing` | quantity, discount, membership, courier fee and total (pure functions) | - |
| `CustomerRegistry` | customers, addresses, the customer of an order | - |
| `OrderIntake` | `createOrder` from its customer to its bill, while the catalogue changes | the three above |
| `ItemWeighing` | the transaction of `verifyAndApplyWeight`, item by item | `OrderIntake` |
| `SumTheorems` | lemmas about sums over sets | - |
| `OrderWorkflowProofs`, `NoticeProofs` | theorems | `OrderWorkflow` |
| `BillingProofs` | theorems | `Reports`, `OrderWorkflowProofs`, `SumTheorems` |
| `CourierProofs`, `StaffProofs` | theorems | `CourierTracking`, `StaffSessions` |
| `RegistryProofs`, `IntakeProofs` | theorems | `ItemWeighing`, `SumTheorems` |
| `MCOrderWorkflow`, `MCBilling`, `MCStaffSessions`, `MCOrderIntake` | instances for TLC | |

`OrderService` also takes `itemQuantity` from `OrderPricing`.

### How code becomes actions

*An action is what a handler does from one database await to the next.*
Node.js runs a handler without interleaving between awaits, and a Prisma
statement or `$transaction` is atomic in PostgreSQL, so this also holds for
several processes behind a balancer. `call[r]` is what request `r` holds while it
awaits: the row it validated and the decision it took. Thus `updateStatus` is
`ReadForUpdate` (findUnique and the three validations) and later `CommitUpdate`
(the transaction, which writes whatever the row says by then) or `AbortUpdate`.
Refused requests (404, 422) change nothing and are no steps.

`verifyAndApplyWeight` reads before its transaction only what never changes once
the order exists (estimate, prices, discount, fees, tolerance), so its read and its commit are
one step; the notice is a second one. `confirmWeight` writes without using what it
read. The Prisma statement that reads an order with its payments is taken as one
snapshot. In the workflow and the billing, money and weights are integers (hundredths of a
kilogram, hundredths of a percent), so weights are given there with two decimals and there is
nothing to round; `isWithinTolerance` multiplies the code's comparison out, its
`0.00001` included. The items of an
order share one quantity after a weighing, so in the workflow an order keeps one quantity
and the sum of its prices, and what `createOrder` resolves before its transaction is a
*tariff* chosen from a set. What becomes of the cents is the matter of `OrderIntake` and `ItemWeighing`.

`OrderIntake` is where that tariff comes from: one action per statement that
`createOrder` awaits (each service, the discount or membership, the courier
rules), then the transaction. A quote keeps the histories of the catalogues there were
since it began (`since`), so that `QuotesAreHonest` can say what was on offer. 

The request decides how finely a quantity or weight is given (the DTOs take any
number), and columns round what the code hands them: `quantity` and `actual_weight` are
DECIMAL(8,2), `order_item.subtotal`, `subtotal_amount`, `discount_amount` and `total_amount`
NUMERIC(14,2). The models follow: weights are in `Grain`-ths of 0.01 kg; a price (in the
smallest unit of money) times a quantity is carried in `Part`-ths of that unit, `Part = 100 * Grain`,
and a percentage of it in `Fine`-ths, `Fine = 10000 * Part`, exactly; and `rounded` is applied
where a column is written, to each column by itself (`storedItem`, `billOf`, `weighedItem`,
`CommitWeighing`). The order's subtotal is thus the rounded sum of what the items cost, and not the sum of
their rounded subtotals, as in the code. Left out is what binary floating point adds to that.

`ItemWeighing` takes the commit of `verifyAndApplyWeight` apart, which the
workflow has as one step: each item updated is locked until the end, the items
come in any order, and a transaction that waits for the other's item is ended by
`AbortWeighing`, as is any other that fails; so nothing more is asked of
PostgreSQL than row locks and rollback, and `ItemsMatchOrder` shows that one step was right.
It says how far the columns may be apart: the subtotal half a unit for each item, the total one
unit until the order is weighed (it was rounded from unrounded parts) and nothing after.
`QuotesAreHonest` is stated apart from the operators the model computes prices with: each item costs
what its service was sold for, the discount is the percentage or the price of the discount or membership
that counts (`DiscountIsSet`, `MembershipIsSet`), and the fee is one the rules set (`FeeIsSet`).

A report is a function of the rows it reads, so `Reports` adds no action to `Billing`.
`StaffSessions` adds to the employees of `CourierTracking` their status, one client's
tokens with the time left to them, and a clock; a history `age` says how long ago each
employee was last active in each role. Time is relative, so it needs no bound.

A statement either takes effect or fails with nothing written; that it takes
effect and its answer is lost is not modelled. `lost` in `NotificationQueue` is a
history variable naming the places that lose a notice: the fallback, a death
of the process between commit and enqueue, a job stalled twice. The HTTP request
to WhatsApp is a stub in the code (`whatsapp.service.ts` logs the body); the model takes
a message so built as shown to the customer.

In `CourierTracking` profiles and employees are numbered separately, so one
number may name one of each, which is what `assignCourier` looks up. In
`CustomerRegistry` a number is a subscriber and the way it is written, and
`phone08`, `phone62` say what the code's string operations make of it.

## 3. Runs

Symmetry is used only in runs without temporal properties.

| Run | Shows | Bounds |
|---|---|---|
| `workflow_race` | `TypeOK`, `StatusTrail`, `LogTracksStatus`, `HandoverPhotos`, and `ProcessRequiresWeighing` (an order fetched with an estimate is washed only once it was weighed or its customer agreed to any weight) with two racing requests | one order, with and without pickup and estimate; confirmations by message and in the application; a matching and a mismatching weight; a discount larger than some subtotals; no update starts at six log rows (`MaxLog`), enough for the whole life of an order |
| `workflow_notices` | `MismatchTracked`, `ShownNoticesAreTrue` and, under fairness, `MismatchIsSettled` | three weights (one exactly at the tolerance's limit, which matches, and two mismatches), two tariffs, two requests, two deaths of the process (a job stalls twice), a queue of one (it fills) |
| `workflow_serial` | with one request at a time, one death and the in-app confirmation: `LifecycleSpec`, the refinement of `OrderLifecycle` | one request, all statuses, six log rows |
| `billing_race` | `BillingTypeOK`, `UnpaidIffNothingReceived`, `PaidIsCovered`, `ReportMatchesBooks`, and `LedgerSpec`, the refinement of `Ledger` | two payments, two handlers, cash and digital, every webhook repeated in any order, a total that one payment or only both cover; an order of quantity 2 that may be weighed to 3; `StandingSpec` leaves out only the weighings that change a total after something was paid or while a payment is handled: `Ledger` and `PaidIsCovered` speak of a total that stands, and `claim_paid_after_reweigh` shows what the others do |
| `staff_and_couriers` | `TrackingTypeOK`, `AssignedWasAskedFor`, `ProfilesMatchEmployees`, `ShownIsOnFile`, `LiveViewIsCurrent`; and `AccessIsFresh` | two employees, three profile ids of which one external, two requests, two pings, one client, one death; with sessions: access tokens of two ticks and refresh tokens of four (a renewal near the end of a refresh token outlives it), an endpoint for everyone, for owners, for owners and admins |
| `order_intake` | `RegistryTypeOK`, `OrderIsForItsCustomer`, `OneCustomerPerNumber`; and `QuotesAreHonest`, `ItemsMatchOrder` | one telephone at two tenants, three spellings, three customers, two addresses, two requests, one order placed (any number refused); with orders: two services, one of them off sale at first, two changes of the catalogue, percentage and fixed discounts, a membership, two rows of courier rules with free and missing fees, two weights, two weighings at once; weights in half hundredths of a kilogram (`Grain = 2`; 0.5, 1.505 and 2.005 kg), at which items are rounded up one by one by more than their order is |

Two of these runs begin in either of two kinds of state, told apart by the constant variable
`scope`, and check both sets of questions: `staff_and_couriers` varies the
couriers while nobody logs in, or the sessions while couriers rest (nobody is
hired as a courier, and the owner, who is employee 1, changes others only);
`order_intake` varies the customers while the catalogue stands, or the orders of a
known customer while it changes. What is left out of a scope reads and writes nothing
of what varies in it except what its bounds name. `Undisturbed` lets one request
at a time read its quote: a quote is private to its request and shares only the catalogue
with others.

One order is enough for the workflow: no action of the code reads or writes two
orders, and what could cross between orders (a notice naming the wrong one) is
covered by the theorems, which hold for any number. Two requests are the smallest
race; the theorems hold for any number of requests.

Every property of these runs was also seen to fail on a plausible bug of the
code: the mutants, operators such as `validWithoutPhoto` next to the definition
they stand in for.

### Fairness

`FairSpec` assumes weak fairness of the worker and of each request that holds a
notice. The event loop resumes every handler whose await is answered, and
`notificationQueue.add` is always answered: the queue is connected with
`enableOfflineQueue: false` (`app.module.ts`), so it throws at once when Redis is away.
BullMQ's worker polls for as long as the process lives, and a process that died
is restarted. Nothing is assumed of customers, cashiers or the gateway: no
fairness makes anyone press a button or weigh.

### Disagreements between the code and what is said of it

Six runs check a statement of the repository and find it violated; `PROJECT.json`
("findings") quotes each statement.

| Run | Statement | What happens |
|---|---|---|
| `claim_moves_are_legal` | the state machine lets no order skip a status, leave 'done' or 'cancelled', or be washed while it is held for a mismatch | an update and a weighing, or two updates, read the same row: what the second commits was validated on a row that is gone. The order held for a mismatch is washed; the cancelled one moves on; the finished one goes back to 'delivery' |
| `claim_confirmed_weight_was_shown` | 'confirmed' means the customer agreed to the difference | weighed twice; the button of the first message confirms the second weight |
| `claim_fallback_sends` | the fallback sends directly through WhatsApp | `result = null`; nothing is sent |
| `claim_paid_after_reweigh` | a paid order needs no more payment | weighing it again raises the total; it stays 'paid' and refuses payment |
| `claim_covered_is_paid` | the order becomes 'paid' when its total was received | two handlers that race each miss the other's amount; the last writes 'partial' |
| `claim_success_not_revoked` | a webhook takes a payment from pending to success or failed | a late 'failed' overwrites 'success' |

Differences noticed while modelling that have no run of their own:
`SDD_CleanTrack.txt:132-133` asks for an actual weight on the way to 'received', the code only
for a photo: an order without an estimate is washed without being weighed, and one with an estimate after
`confirmWeight`, which takes a confirmation before any weighing; `ProcessRequiresWeighing` says there is no third way;
a weighing keeps no weight finer than 0.01 kg but charges it, and an order's subtotal is not always the sum of its
items' (items of 1 and 3 units at 0.5 kg are stored as 1 and 2, the order as 2), which
`FRD_CleanTrack.txt:41` has it computed from; `ItemsMatchOrder` bounds the difference;
the schema's comment lists 'refunded' among an order's payment statuses, which no code writes, so
a refunded order stays 'paid'; `createCustomer` checks for a registered number, and two requests at
once both pass; overlapping pings of one order may be shown in another order than they are logged;
`FRD_CleanTrack.txt:59-61` asks for the photo of the hand-over at 'done', the code at 'delivery';
an address id in an order is not compared with the order's customer; a number
registered in a spelling other than 08.. or 62.. is not found again by an order;
one number given to `assignCourier` may name a courier profile and another profile's employee.

Of prices: a service or discount is looked up by its id alone, so it may be another
branch's; `pricing_type` of the courier rules is never read, and since the fee columns default
to 0 and a `Decimal` of 0 is truthy, the flat fee is only reached where a column is
NULL; the id of an inactive discount is stored with the order all the same;
`FRD_CleanTrack.txt:147-154` gives memberships a customer and a period, which the code
looks at neither of, and lets discount and membership go together, which the code does not; the weighing
gives every item the whole weight and keeps a percentage discount at its first amount.

Of money: a 'success' repeated after a refund counts the payment as revenue
again (`Ledger`'s `Restate`); `getBranchPerformance` ignores the period its
filter carries, and the revenue report selects orders by when they were placed, not
payments by when they came in; Prisma reads a report's orders and payments in two statements.

Of staff: `SDD_CleanTrack.txt:178` says access tokens are short-lived, their
default is one day; a branch can be made the main one beside another (`FRD_CleanTrack.txt:20` has one).

## 4. Proofs

Proved for every value of the constants, under the ASSUMEs of the modules only
(weights positive, estimates and amounts natural, tariffs of naturals, and so on).

*The status log* (`OrderWorkflowProofs`). `TypeCorrect`; then `LogInvariant`, the
inductive strengthening: row and log agree, each entry follows from an earlier
one, the log starts where `createOrder` starts it, every later entry carries its
photo, and - the part that makes it inductive - an update in flight was
validated against a status that is in the log. It yields `TrailIsLegal`,
`LogAgreesWithRow` and, with a lemma about the matrix read backwards
(`Predecessors`), `HandoversAreProven`.

*The lifecycle* (`OrderWorkflowProofs`). In full generality `LifecycleSpec` is false:
`claim_moves_are_legal` shows an update racing another or a weighing. What the code relies on
is `RowsStand`: nobody writes the status or the weight status of a row between the read of
`updateStatus` and its transaction. `LifecycleIsKept` proves that this is all it relies on:
`Spec /\ [][RowsStand]_vars => LifecycleSpec`, for any number of requests. Its invariant
adds to the log's that the row still permits the update in flight; each action
then maps to one of `OrderLifecycle` or to a stutter. `OneByOneIsLifecycle` discharges the hypothesis where
requests are handled one at a time, as in `workflow_serial`.

*Notices* (`NoticeProofs`). `NoticeInvariant`: everything traced (held, queued,
being run, shown or lost) tells the truth about its order, a message the worker
sent is in the inbox, and the notice a mismatched order needs is traced. Steps
are split into those that keep the traced notices exactly and weighings, which add
a true one; truth lasts because no step changes an order's tariff and no weighed
order becomes unweighed. It yields `MismatchIsTracked` and `ShownIsTrue`.

*The gate* (end of `NoticeProofs`). `UnweighedIsPending` is the strengthening: an order fetched
at home with an estimate that was neither weighed nor confirmed is 'pending', not yet washed, and no
update in flight takes it to 'process'. It needs the typing and the log only: a weighing and a confirmation, by message or
in the application, both end its premise for good, so nothing is assumed of how customers answer. It yields
`WashedIsWeighed`. That a confirmation alone is enough is what the code does (section 3).

*Couriers* (`CourierProofs`). `TrackingTypeCorrect`; `Staff` (employees and
profiles are never removed, so what a request found stays true while it awaits)
yields `ProfilesMatch` and `AssignmentIsAskedFor`; `Shown` (a ping about to be
broadcast is in the log) yields `ShownPositionsAreOnFile`, overlapping pings
included. `LiveViewHolds` assumes one ping at a time: its invariant `Live` adds that a
ping under way is the only one of its order and the newest on file, and that clients
outside a room see nothing; that an order's rows have a newest one is part of the
invariant, so that appending to the log needs no induction.

*Staff* (`StaffProofs`). `AccessStaysFresh`, for any lives of the tokens: the time
since its employee was last active in an access token's role and the life the token has left
add up to no more than the life it was given, and what a login under way has read was still so when
the clock last ticked. The invariants of
`CourierProofs` are carried over to `StaffSpec` (`CouriersAmongStaff`, `LiveViewAmongStaff`): a step of
the sessions either is one of courier tracking or leaves its variables alone.

*Sums* (`SumTheorems`). The models add up with the folds of the community modules, which are
recursive functions, and the induction theorems are out of reach. What the proofs need (a sum
depends on its addends alone, is natural, grows with the set, splits along disjoint sets) is
proved by a minimal counterexample instead: a set of naturals that is not empty has a
least element, therefore so has a family of subsets of a finite set.

*Money* (`BillingProofs`). `UnpaidIsTrue` needs no sums: an order stops being
'unpaid' in the transaction that makes a payment successful, and what was received never
becomes unreceived. `SumsInvariant` adds that payments are finitely many and typed and that
no handler holds a sum larger than what came in, its own payment included; it yields `BillingIsTyped` and, without any hypothesis,
`ReportsAddUp`. The refinement of `Ledger` and `PaidIsCovered` are false when a
weighing raises the total of an order that was paid (`claim_paid_after_reweigh`), so
`LedgerIsKept` and `PaidIsBacked` assume `[][TotalsStand]_billingVars`: the total of an order stands
once something came in for it, and while a payment of it is handled. `DuesInvariant` is
what makes them inductive: a handler that is to write a status holds the total the row has.
`ReportsMatchBooks` adds what the reports say of a paid order. `StandingBooksAreRight` puts all three
together for `StandingSpec`, which `billing_race` checks: orders are weighed there, before their first payment or
to the same total.

*Customers* (`RegistryProofs`, for `WeighingSpec`, whatever is ordered and weighed
meanwhile). `RegistryInvariant`: rows are numbered from 1 without gaps, every
row points at one there is, and what a request holds would make a right order
if it were placed now; it is kept because tables only grow. It yields
`RegistryIsTyped` and `OrdersAreForTheirCustomers`. `CustomersAreEnteredOnce`
assumes `LocalNumbers` (registered as 08.., ordered under 08.., 62.., 8.. or with hyphens);
`EnteredOnce` adds what makes it inductive: unless two requests overlapped, a
request about to enter a subscriber is the only one, and the subscriber has no row yet.

*Charges* (`IntakeProofs`, for `WeighingSpec`: any catalogue, edits, courier rules and number of
requests). `QuoteInvariant`: what a request has added up so far it found in one of the
catalogues there were since it began, of which the present one is one, and its fee is one
the rules set for its legs. A read adds what is on offer now; an edit adds a catalogue and takes
none away. `DiscountRounds` takes the discount as stored back to the percentage it was taken from. Placing the order hands all this to the bill (`BillInvariant`), and a weighing
changes quantities and totals only. This yields `ChargesWereOnOffer`.

*Items* (`IntakeProofs`). `BillInvariant` and `WeighingInvariant`: no two weighings under way have
written the same item (it is locked), each knows what the items it wrote held before, and what others read
(`Committed`) is that. A write changes no such reading, a rollback restores it, and a
commit has written every item once, whatever their order. The arithmetic is in lemmas of its own: what
`rounded` returns is within half a unit (`QuotientBounds` and those after it), so a sum of rounded
items is within half a unit for each of them of the rounded sum (`SumRounds`), and a total rounded once is at most one unit from
the total of rounded parts (`TotalRounds`). This yields `ItemsAgreeWithTheirOrder`.

Only model-checked: `MismatchIsSettled` and `NoticeIsShown` (liveness under
fairness is out of this prover's reach). `LifecycleSpec`, `LedgerSpec`, `PaidIsCovered` and
`ReportMatchesBooks` are theorems under the hypotheses named
above, without which they are false. Every other property of a passing run is a theorem
of its specification.

## 5. Not modelled, and why

- The tenant guard compares two numbers of one request and reads nothing that another
  request writes; the HTTP shell is wiring and formatting.
- Branches are written by plain create and update, and read for display and by foreign keys
  only. No code writes tenants, memberships or courier rules: they are constants.
- Lists, details and the courier statistics only read.
- Migration and set-up scripts and seed data run before the system does.
- Inside modelled components: texts of messages, names, coordinates, e-mail
  addresses (unique in the schema), what a password hash and a signature do,
  `distance` and `shipping_fee` (no code sets them to anything but nothing and 0).

## 6. Plan

1. Prove that a tariff chosen in `OrderWorkflow` is one that
   `OrderIntake` can add up.
2. Revisit bounds: a second order in the notices' run, a third payment in
   `billing_race`, two subscribers in `order_intake`, overlapping pings.
3. Compose `OrderIntake` with `OrderWorkflow`, so that the tariff an order is created with
   is the bill that was added up.
