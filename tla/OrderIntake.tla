---------------------------- MODULE OrderIntake ----------------------------
(***************************************************************************)
(* createOrder from the customer to the bill.  Once it has its customer    *)
(* and addresses it reads each service, the discount or membership and the *)
(* courier rules one statement at a time, while the catalogue may change,  *)
(* and writes the order with what it has added up.                         *)
(***************************************************************************)
EXTENDS CustomerRegistry, Catalogue, OrderPricing, SequencesExt

CONSTANTS
  Scopes,            \* what may vary: "customers", "orders" (see Init)
  Asks,              \* Asks[scope]: what a request may order
  InitialServices,   \* the services and
  InitialDiscounts,  \* the discounts there are at first
  Memberships,       \* the membership table; no code writes it
  CourierRules,      \* CourierRules[scope]: the branch's rows of
                     \* tenant_courier_rules, which no code writes either
  Grain              \* how finely a weight may be given: in Grain-ths of the
                     \* 0.01 kg a DECIMAL(8,2) column keeps

ASSUME GrainAssumption == Grain \in Nat \ {0}

\* The quantity 1: the products of prices and given quantities are in Part-ths
\* of a unit of money, and percentages of them in Fine-ths.
Part == 100 * Grain
Fine == 10000 * Part

\* lines: [service, given] for each item; discount, membership and estimated
\* are 0 if left out.
Ask == [lines : Seq([service : Nat, given : Nat]), discount : Nat,
        membership : Nat, estimated : Nat]

Fee == Nat \cup {Absent}

ASSUME AsksAssumption ==
  /\ Scopes \subseteq {"customers", "orders"}
  /\ \A s \in Scopes : Asks[s] \subseteq Ask
  /\ \A s \in Scopes : \A ask \in Asks[s] : ask.lines # <<>>
  /\ \A s \in Scopes : CourierRules[s] \subseteq
       [flat : Fee, pickup : Fee, delivery : Fee, both : Fee]

ASSUME TablesAssumption ==
  /\ InitialServices \in Seq(Service)
  /\ InitialDiscounts \in Seq(Discount)
  /\ Memberships \in Seq([isActive : BOOLEAN, percent : Nat])

VARIABLES
  quote,  \* quote[r]: what createOrder has added up for request r
  bill,   \* the bills of the placed orders, under their ids
  scope   \* what varies in this behaviour

intakeVars == <<registryVars, catalogueVars, quote, bill, scope>>

\* Quantities are in Grain-ths, subtotals in Part-ths, the discount in Fine-ths:
\* nothing is rounded before it is stored.  since is a history: the catalogues
\* there were since the request began to read.
NewQuote(ask) ==
  [ask |-> ask, reads |-> "items", items |-> <<>>, discount |-> 0, fee |-> 0,
   since |-> {current}]

NoQuote == [reads |-> "nothing"]

subtotalOf(items) == SumFunction([k \in DOMAIN items |-> items[k].subtotal])

\* The legs of the trip that have an address.
legsOf(c) == {leg \in Legs : c.address[leg] # 0}

\* What a catalogue takes off a subtotal: a discount that is named goes before a
\* membership, and takes its place even when it takes nothing off.
discountFor(ask, catalogue, subtotal) ==
  CASE ask.discount \in 1 .. Len(catalogue.discounts) ->
         discountOf(catalogue.discounts[ask.discount], subtotal, Part)
    [] ask.discount = 0 /\ ask.membership \in 1 .. Len(Memberships) ->
         membershipOf(Memberships[ask.membership], subtotal)
    [] OTHER -> 0

\* The quotes r may go on with.
Quotes(r) ==
  IF quote[r] = NoQuote THEN {NewQuote(ask) : ask \in Asks[scope]}
  ELSE {quote[r]}

\* Mutant: an inactive service is sold.
anyService(row) == TRUE

onSale(row) == row.isActive

\* An item of the quote, before any rounding.
quotedItem(service, price, quantity) ==
  [service |-> service, price |-> price, quantity |-> quantity,
   subtotal |-> price * quantity]

\* The service of the next item; one that is not on sale is refused.
ReadService(r) ==
  /\ call[r].kind = "place"
  /\ \E q \in Quotes(r) :
       LET line == q.ask.lines[Len(q.items) + 1]
           items == Append(q.items,
             quotedItem(line.service, services[line.service].price,
                        itemQuantity(line.given, q.ask.estimated, Part)))
       IN /\ q.reads = "items"
          /\ line.service \in 1 .. Len(services)
          /\ onSale(services[line.service])
          /\ quote' = [quote EXCEPT ![r] = [q EXCEPT !.items = items,
               !.reads = IF Len(items) < Len(q.ask.lines) THEN "items"
                         ELSE IF q.ask.discount + q.ask.membership > 0
                         THEN "discount" ELSE "rules"]]
  /\ UNCHANGED <<registryVars, catalogueVars, bill, scope>>

\* The discount, or else the membership.
ReadDiscount(r) ==
  LET q == quote[r]
  IN /\ q.reads = "discount"
     /\ quote' = [quote EXCEPT ![r].reads = "rules", ![r].discount =
          discountFor(q.ask, current, subtotalOf(q.items))]
     /\ UNCHANGED <<registryVars, catalogueVars, bill, scope>>

\* Any of the branch's rules, whose order is not given, or none.
ReadRules(r) ==
  /\ quote[r].reads = "rules"
  /\ \E fee \in IF CourierRules[scope] = {} THEN {0}
                ELSE {courierFee(rules, legsOf(call[r])) :
                        rules \in CourierRules[scope]} :
       quote' = [quote EXCEPT ![r].reads = "no more", ![r].fee = fee]
  /\ UNCHANGED <<registryVars, catalogueVars, bill, scope>>

\* The row of an item: DECIMAL(8,2) keeps its quantity, NUMERIC(14,2) its
\* subtotal, each rounded by itself.
storedItem(item) ==
  [item EXCEPT !.quantity = rounded(@, Grain), !.subtotal = rounded(@, Part)]

\* The rows of an order: its subtotal is the rounded sum of what the items cost,
\* not the sum of the rounded ones, and its total rounded once more by itself;
\* actual is its weight.
billOf(q, legs) ==
  LET subtotal == subtotalOf(q.items)
  IN [ask |-> q.ask, legs |-> legs,
      items |-> [k \in DOMAIN q.items |-> storedItem(q.items[k])],
      subtotal |-> rounded(subtotal, Part),
      discount |-> rounded(q.discount, Fine), fee |-> q.fee,
      total |-> orderTotal(subtotal, q.discount, q.fee, Part),
      actual |-> Absent, since |-> q.since]

\* The transaction: the order, its items, its log.  A discount or membership
\* that is named must exist by now.
PlaceBilledOrder(r) ==
  LET q == quote[r]
  IN /\ q.reads = "no more"
     /\ q.ask.discount \in 0 .. Len(discounts)
     /\ q.ask.membership \in 0 .. Len(Memberships)
     /\ PlaceOrder(r)
     /\ bill' = Insert(bill, billOf(q, legsOf(call[r])))
     /\ quote' = [quote EXCEPT ![r] = NoQuote]
     /\ UNCHANGED <<catalogueVars, scope>>

RefuseOrder(r) ==
  /\ Refuse(r)
  /\ quote' = [quote EXCEPT ![r] = NoQuote]
  /\ UNCHANGED <<catalogueVars, bill, scope>>

ChangeCatalogue ==
  /\ scope = "orders"
  /\ EditCatalogue
  /\ quote' = [r \in Requests |->
       IF quote[r] = NoQuote THEN NoQuote
       ELSE [quote[r] EXCEPT !.since = @ \cup {current'}]]
  /\ UNCHANGED <<registryVars, bill, scope>>

\* Bound: the requests read their quotes one after the other.  A quote is read
\* by its own request only, and shares nothing but the catalogue with others, so
\* reading them at the same time adds nothing; where customers vary the
\* catalogue does not, and the reads may as well be made just before the insert.
Undisturbed(r) == \A q \in Requests \ {r} : quote[q] = NoQuote

\* The first half of createOrder, and createCustomer.  Where orders vary, a
\* customer who is known orders, one request at a time.
Enter(r) ==
  /\ CASE scope = "customers" -> EnterRegistry(r)
       [] OTHER -> /\ \A q \in Requests : Free(q)
                   /\ NextId(placed) <= MaxOrders
                   /\ \E L \in SUBSET Legs :
                        NameCustomer(r, customers[1].tenant, 1,
                          [leg \in Legs |-> IF leg \in L THEN 1 ELSE 0])
  /\ UNCHANGED <<catalogueVars, quote, bill, scope>>

Resolve(r) == ResolveCustomer(r) /\ UNCHANGED <<catalogueVars, quote, bill, scope>>

KnownCustomer ==
  /\ \E t \in Tenants, s \in Subscribers :
       customers = Insert([i \in {} |-> 0],
                          [tenant |-> t, subscriber |-> s, form |-> "0"])
  /\ addresses = Insert([i \in {} |-> 0], 1)
  /\ placed = [i \in {} |-> 0]
  /\ call = [r \in Requests |-> Idle]
  /\ overlapped = {}

\* Where customers vary nobody is known at first and the catalogue stays as it
\* is; where orders vary there is a customer with an address.
IntakeInit ==
  /\ scope \in Scopes
  /\ IF scope = "customers" THEN Init ELSE KnownCustomer
  /\ services = InitialServices
  /\ discounts = InitialDiscounts
  /\ edits = 0
  /\ quote = [r \in Requests |-> NoQuote]
  /\ bill = [i \in {} |-> 0]

IntakeStep(r) ==
  /\ Undisturbed(r)
  /\ \/ Enter(r)
     \/ Resolve(r)
     \/ ReadService(r)
     \/ ReadDiscount(r)
     \/ ReadRules(r)
     \/ PlaceBilledOrder(r)
     \/ RefuseOrder(r)
-----------------------------------------------------------------------------
\* One row of rules sets this fee for the trip: its own, or where there is none
\* the flat one, or where that is missing too nothing.
FeeIsSet(fee, rules, legs) ==
  LET own == IF legs = Legs THEN rules.both
             ELSE rules[CHOOSE leg \in legs : TRUE]
  IN \/ fee = own
     \/ own = Absent /\ fee = rules.flat
     \/ own = Absent /\ rules.flat = Absent /\ fee = 0

\* What the items of an order cost for the quantities that were asked for.
Asked(b) ==
  SumFunction([k \in DOMAIN b.items |->
    b.items[k].price * itemQuantity(b.ask.lines[k].given, b.ask.estimated, Part)])

\* An amount in whole units of money is this percentage of a subtotal, to within
\* half a unit.
IsPercentage(amount, percent, subtotal) ==
  2 * (Fine * amount - percent * subtotal) \in -Fine .. Fine

\* A discount sets this amount, and a membership that one.
DiscountIsSet(amount, row, subtotal) ==
  \/ ~row.isActive /\ amount = 0
  \/ /\ row.isActive /\ row.type = "percent" /\ row.percent # 0
     /\ IsPercentage(amount, row.percent, subtotal)
  \/ /\ row.isActive /\ (row.type = "nominal" \/ row.percent = 0)
     /\ amount = row.price

MembershipIsSet(amount, row, subtotal) ==
  IF row.isActive THEN IsPercentage(amount, row.percent, subtotal) ELSE amount = 0

\* The discount of order b is one this catalogue gives: that of the discount it
\* names, for which its membership does not count, or that of the membership.
DiscountIsGiven(b, catalogue) ==
  CASE b.ask.discount \in 1 .. Len(catalogue.discounts) ->
         DiscountIsSet(b.discount, catalogue.discounts[b.ask.discount], Asked(b))
    [] b.ask.discount = 0 /\ b.ask.membership # 0 ->
         MembershipIsSet(b.discount, Memberships[b.ask.membership], Asked(b))
    [] OTHER -> b.discount = 0

\* An order is charged what was on offer while it was placed, however prices,
\* discounts and their availability change between the reads of createOrder and
\* however often it is weighed since: each item costs what its service was sold
\* for at some moment of the request, the discount is what the catalogue gave at
\* such a moment on the quantities that were asked for, and the fee is one the
\* rules set for just these legs, free ones included.
QuotesAreHonest ==
  \A i \in Ids(bill) :
    LET b == bill[i]
    IN /\ \A k \in DOMAIN b.items : \E catalogue \in b.since :
            LET row == catalogue.services[b.items[k].service]
            IN b.items[k].service <= Len(catalogue.services)
               /\ row.isActive /\ row.price = b.items[k].price
       /\ \E catalogue \in b.since : DiscountIsGiven(b, catalogue)
       /\ IF b.legs = {} \/ CourierRules[scope] = {} THEN b.fee = 0
          ELSE \E rules \in CourierRules[scope] : FeeIsSet(b.fee, rules, b.legs)
=============================================================================
