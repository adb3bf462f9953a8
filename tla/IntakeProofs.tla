---------------------------- MODULE IntakeProofs ----------------------------
(***************************************************************************)
(* Proofs about what orders are charged and about the weighing of their    *)
(* items, in ItemWeighing as a whole: for any catalogue, any edits of it,  *)
(* any rules of the branches, any number of requests and weights given as  *)
(* finely as anyone likes; columns are rounded.                            *)
(***************************************************************************)
EXTENDS RegistryProofs, SumTheorems, SequenceTheorems

Item == [service : Nat, price : Nat, quantity : Nat, subtotal : Nat]

Catalogues == [services : Seq(Service), discounts : Seq(Discount)]

QuoteType ==
  [ask : Ask, reads : {"items", "discount", "rules", "no more"},
   items : Seq(Item), discount : Nat, fee : Nat, since : SUBSET Catalogues]

BillType ==
  [ask : Ask, legs : SUBSET Legs, items : Seq(Item), subtotal : Nat,
   discount : Nat, fee : Nat, total : Nat, actual : Nat \cup {Absent},
   since : SUBSET Catalogues]

\* Each item costs what its service was sold for in one of these catalogues.
Sold(items, since) ==
  \A k \in DOMAIN items : \E catalogue \in since :
    LET row == catalogue.services[items[k].service]
    IN items[k].service <= Len(catalogue.services)
       /\ row.isActive /\ row.price = items[k].price

\* Each item costs its price times the quantity that was asked for.
Priced(items, ask) ==
  \A k \in DOMAIN items :
    items[k].subtotal =
      items[k].price * itemQuantity(ask.lines[k].given, ask.estimated, Part)

\* The fee is one the rules set for these legs.
FeeOK(fee, legs) ==
  IF legs = {} \/ CourierRules[scope] = {} THEN fee = 0
  ELSE \E rules \in CourierRules[scope] : FeeIsSet(fee, rules, legs)

\* What a request has added up so far for a trip with these legs.
QuoteOK(q, legs) ==
  /\ q \in QuoteType
  /\ current \in q.since
  /\ Sold(q.items, q.since)
  /\ Priced(q.items, q.ask)
  /\ q.reads = "items" => Len(q.items) < Len(q.ask.lines)
  /\ q.reads = "items" => q.discount = 0
  /\ q.reads \in {"rules", "no more"} => \E catalogue \in q.since :
       q.discount = discountFor(q.ask, catalogue, subtotalOf(q.items))
  /\ q.reads = "no more" => FeeOK(q.fee, legs)

\* The charge on a bill.
ChargeOK(b) ==
  /\ Sold(b.items, b.since)
  /\ \E catalogue \in b.since : DiscountIsGiven(b, catalogue)
  /\ FeeOK(b.fee, b.legs)

QuoteHeld(r) ==
  quote[r] # NoQuote =>
    call[r].kind = "place" /\ QuoteOK(quote[r], legsOf(call[r]))

QuoteInvariant ==
  /\ scope \in Scopes
  /\ services \in Seq(Service) /\ discounts \in Seq(Discount)
  /\ quote = [r \in Requests |-> quote[r]]
  /\ \A r \in Requests : QuoteHeld(r)

BillInvariant ==
  /\ Numbered(bill)
  /\ \A i \in Ids(bill) : bill[i] \in BillType /\ ChargeOK(bill[i])
-----------------------------------------------------------------------------
(* The catalogue, and what it takes off.                                   *)

\* An edited row is a row.
LEMMA ServiceEdited ==
  ASSUME NEW edit \in ServiceEdits, NEW row \in Service
  PROVE  Edited(row, edit) \in Service
<1> DEFINE new == Edited(row, edit)
<1>1. /\ DOMAIN edit \subseteq {"price", "isActive"}
      /\ "price" \in DOMAIN edit => edit["price"] \in Nat \ {0}
      /\ "isActive" \in DOMAIN edit => edit["isActive"] \in BOOLEAN
  BY ServiceEditsAssumption
<1>2. /\ DOMAIN row = {"price", "isActive"}
      /\ row["price"] \in Nat \ {0} /\ row["isActive"] \in BOOLEAN
  BY DEF Service
<1>3. new = [c \in {"price", "isActive"} |->
               IF c \in DOMAIN edit THEN edit[c] ELSE row[c]]
  BY <1>2 DEF Edited
<1>4. new["price"] \in Nat \ {0} /\ new["isActive"] \in BOOLEAN
  BY <1>1, <1>2, <1>3
<1>5. new = [price |-> new["price"], isActive |-> new["isActive"]]
  BY <1>3
<1>6. QED
  BY <1>4, <1>5 DEF Service

\* An edited discount is still a row of the table: an edit changes columns to
\* values these columns may hold.
LEMMA DiscountEdited ==
  ASSUME NEW edit \in DiscountEdits, NEW row \in Discount
  PROVE  Edited(row, edit) \in Discount
<1> DEFINE new == Edited(row, edit)
           columns == {"type", "percent", "price", "isActive"}
<1>1. /\ DOMAIN edit \subseteq columns
      /\ "type" \in DOMAIN edit => edit["type"] \in {"percent", "nominal"}
      /\ "percent" \in DOMAIN edit => edit["percent"] \in Nat
      /\ "price" \in DOMAIN edit => edit["price"] \in Nat
      /\ "isActive" \in DOMAIN edit => edit["isActive"] \in BOOLEAN
  BY DiscountEditsAssumption
<1>2. /\ DOMAIN row = columns
      /\ row["type"] \in {"percent", "nominal"}
      /\ row["percent"] \in Nat /\ row["price"] \in Nat
      /\ row["isActive"] \in BOOLEAN
  BY DEF Discount
<1>3. new = [c \in columns |-> IF c \in DOMAIN edit THEN edit[c] ELSE row[c]]
  BY <1>2 DEF Edited
<1>4. /\ new["type"] \in {"percent", "nominal"}
      /\ new["percent"] \in Nat /\ new["price"] \in Nat
      /\ new["isActive"] \in BOOLEAN
  BY <1>1, <1>2, <1>3
<1>5. new = [type |-> new["type"], percent |-> new["percent"],
             price |-> new["price"], isActive |-> new["isActive"]]
  BY <1>3
<1>6. QED
  BY <1>4, <1>5 DEF Discount

\* Whatever is edited, the catalogue keeps its type.
LEMMA CatalogueKept ==
  ASSUME services \in Seq(Service), discounts \in Seq(Discount), EditCatalogue
  PROVE  services' \in Seq(Service) /\ discounts' \in Seq(Discount)
<1>1. ASSUME NEW row \in ServiceRows, CreateService(row)
      PROVE  services' \in Seq(Service) /\ discounts' \in Seq(Discount)
  BY <1>1, RowsAssumption DEF CreateService
<1>2. ASSUME NEW i \in 1 .. Len(services), NEW edit \in ServiceEdits,
             UpdateService(i, edit)
      PROVE  services' \in Seq(Service) /\ discounts' \in Seq(Discount)
  <2>1. services[i] \in Service
    OBVIOUS
  <2>2. Edited(services[i], edit) \in Service
    BY <2>1, ServiceEdited
  <2>3. QED
    BY <1>2, <2>2 DEF UpdateService
<1>3. ASSUME NEW row \in DiscountRows, CreateDiscount(row)
      PROVE  services' \in Seq(Service) /\ discounts' \in Seq(Discount)
  BY <1>3, RowsAssumption DEF CreateDiscount
<1>4. ASSUME NEW i \in 1 .. Len(discounts), NEW edit \in DiscountEdits,
             UpdateDiscount(i, edit)
      PROVE  services' \in Seq(Service) /\ discounts' \in Seq(Discount)
  <2>1. discounts[i] \in Discount
    OBVIOUS
  <2>2. Edited(discounts[i], edit) \in Discount
    BY <2>1, DiscountEdited
  <2>3. QED
    BY <1>4, <2>2 DEF UpdateDiscount
<1>5. QED
  BY <1>1, <1>2, <1>3, <1>4 DEF EditCatalogue

\* There are parts of a unit of money.
LEMMA PartIsPositive == Part \in Nat \ {0} /\ Fine \in Nat \ {0} /\ Fine = 10000 * Part
BY GrainAssumption DEF Part, Fine

\* Nothing is ever added by a discount.
LEMMA DiscountIsNat ==
  ASSUME NEW ask, NEW catalogue \in Catalogues, NEW subtotal \in Nat
  PROVE  discountFor(ask, catalogue, subtotal) \in Nat
<1>1. ASSUME NEW row \in Discount
      PROVE  discountOf(row, subtotal, Part) \in Nat
  BY <1>1, PartIsPositive DEF discountOf, Discount
<1>2. ASSUME NEW row \in [isActive : BOOLEAN, percent : Nat]
      PROVE  membershipOf(row, subtotal) \in Nat
  BY <1>2 DEF membershipOf
<1>3. catalogue.discounts \in Seq(Discount)
  BY DEF Catalogues
<1>4. \A n \in 1 .. Len(catalogue.discounts) : catalogue.discounts[n] \in Discount
  BY <1>3
<1>5. \A n \in 1 .. Len(Memberships) :
        Memberships[n] \in [isActive : BOOLEAN, percent : Nat]
  <2> DEFINE Membership == [isActive : BOOLEAN, percent : Nat]
  <2>1. Memberships \in Seq(Membership)
    BY TablesAssumption
  <2> HIDE DEF Membership
  <2>2. \A n \in 1 .. Len(Memberships) : Memberships[n] \in Membership
    BY <2>1
  <2>3. QED
    BY <2>2 DEF Membership
<1>6. QED
  BY <1>1, <1>2, <1>4, <1>5 DEF discountFor

\* What items cost, taken together.
LEMMA SubtotalIsNat ==
  ASSUME NEW items \in Seq(Item)
  PROVE  subtotalOf(items) \in Nat
<1>1. PICK cost : cost = [k \in DOMAIN items |-> items[k].subtotal]
  OBVIOUS
<1>2. \A k \in DOMAIN items : items[k] \in Item
  OBVIOUS
<1>3. \A k \in DOMAIN items : cost[k] \in Nat
  BY <1>1, <1>2 DEF Item
<1>4. IsFiniteSet(DOMAIN items) /\ DOMAIN cost = DOMAIN items
  BY <1>1, FS_Interval
<1>5. SumFunctionOnSet(cost, DOMAIN cost) \in Nat
  BY <1>3, <1>4, SumType
<1>6. QED
  BY <1>1, <1>5 DEF subtotalOf, SumFunction

\* The fee of a row of rules is set by it.
LEMMA FeeFromRules ==
  ASSUME NEW rules \in [flat : Fee, pickup : Fee, delivery : Fee, both : Fee],
         NEW legs \in SUBSET Legs
  PROVE  /\ courierFee(rules, legs) \in Nat
         /\ legs = {} => courierFee(rules, legs) = 0
         /\ legs # {} => FeeIsSet(courierFee(rules, legs), rules, legs)
<1>1. ASSUME NEW own \in Fee
      PROVE  /\ ownFee(own, rules.flat) \in Nat
             /\ \/ ownFee(own, rules.flat) = own
                \/ own = Absent /\ ownFee(own, rules.flat) = rules.flat
                \/ own = Absent /\ rules.flat = Absent /\ ownFee(own, rules.flat) = 0
  BY <1>1 DEF ownFee, Fee, Absent
<1>2. rules.pickup \in Fee /\ rules.delivery \in Fee /\ rules.both \in Fee
  OBVIOUS
<1>3. legs \in {{}, {"pickup"}, {"delivery"}, {"pickup", "delivery"}}
  BY DEF Legs
<1>4. CASE legs = {}
  BY <1>4 DEF courierFee
<1>5. CASE legs = {"pickup"}
  <2>1. (CHOOSE leg \in legs : TRUE) = "pickup" /\ legs # Legs
    BY <1>5 DEF Legs
  <2>2. courierFee(rules, legs) = ownFee(rules.pickup, rules.flat)
    BY <1>5 DEF courierFee
  <2>3. QED
    BY <1>1, <1>2, <1>5, <2>1, <2>2 DEF FeeIsSet
<1>6. CASE legs = {"delivery"}
  <2>1. (CHOOSE leg \in legs : TRUE) = "delivery" /\ legs # Legs
    BY <1>6 DEF Legs
  <2>2. courierFee(rules, legs) = ownFee(rules.delivery, rules.flat)
    BY <1>6 DEF courierFee
  <2>3. QED
    BY <1>1, <1>2, <1>6, <2>1, <2>2 DEF FeeIsSet
<1>7. CASE legs = {"pickup", "delivery"}
  <2>1. courierFee(rules, legs) = ownFee(rules.both, rules.flat) /\ legs = Legs
    BY <1>7 DEF courierFee, Legs
  <2>2. QED
    BY <1>1, <1>2, <1>7, <2>1 DEF FeeIsSet
<1>8. QED
  BY <1>3, <1>4, <1>5, <1>6, <1>7
-----------------------------------------------------------------------------
(* Adding up an order.                                                     *)

\* A quote that may be read on with is one to which items are added.
LEMMA QuoteToReadOn ==
  ASSUME QuoteInvariant, NEW r \in Requests, NEW q \in Quotes(r),
         q.reads = "items"
  PROVE  QuoteOK(q, legsOf(call[r]))
<1>1. CASE quote[r] = NoQuote
  <2>1. PICK ask \in Asks[scope] : q = NewQuote(ask)
    BY <1>1 DEF Quotes
  <2>2. ask \in Ask /\ ask.lines # <<>>
    BY AsksAssumption DEF QuoteInvariant
  <2>3. current \in Catalogues
    BY DEF QuoteInvariant, current, Catalogues
  <2>4. q \in QuoteType
    BY <2>1, <2>2, <2>3 DEF NewQuote, QuoteType
  <2>5. /\ q.ask = ask /\ q.reads = "items" /\ q.items = <<>>
        /\ q.discount = 0 /\ q.since = {current}
    BY <2>1 DEF NewQuote
  <2>6. Len(ask.lines) > 0
    BY <2>2 DEF Ask
  <2>7. Len(q.items) < Len(q.ask.lines)
    BY <2>5, <2>6
  <2>8. Sold(q.items, q.since) /\ Priced(q.items, q.ask)
    BY <2>5 DEF Sold, Priced
  <2>9. QED
    BY <2>4, <2>5, <2>7, <2>8 DEF QuoteOK
<1>2. CASE quote[r] # NoQuote
  BY <1>2 DEF Quotes, QuoteInvariant, QuoteHeld
<1>3. QED
  BY <1>1, <1>2

\* A quote stays right while its catalogue and its scope do.
LEMMA QuoteStands ==
  ASSUME NEW CONSTANT q, NEW CONSTANT legs, QuoteOK(q, legs),
         UNCHANGED <<current, scope>>
  PROVE  QuoteOK(q, legs)'
BY DEF QuoteOK, FeeOK

\* A request that reads changes its own quote only.
LEMMA QuoteRead ==
  ASSUME QuoteInvariant, NEW r \in Requests, NEW q, call[r].kind = "place",
         QuoteOK(q, legsOf(call[r])), quote' = [quote EXCEPT ![r] = q],
         UNCHANGED <<registryVars, catalogueVars, bill, scope>>
  PROVE  QuoteInvariant'
<1>1. UNCHANGED <<call, services, discounts, scope, current>>
  BY DEF registryVars, catalogueVars, current
<1>2. \A p \in Requests : quote'[p] = IF p = r THEN q ELSE quote[p]
  BY DEF QuoteInvariant
<1>3. quote' = [p \in Requests |-> quote'[p]]
  BY DEF QuoteInvariant
<1>4. ASSUME NEW p \in Requests
      PROVE  QuoteHeld(p)'
  <2>1. PICK new : new = quote'[p]
    OBVIOUS
  <2>2. PICK legs : legs = legsOf(call[p])
    OBVIOUS
  <2>3. new # NoQuote => call[p].kind = "place" /\ QuoteOK(new, legs)
    BY <1>2, <2>1, <2>2 DEF QuoteInvariant, QuoteHeld
  <2>4. QuoteOK(new, legs) => QuoteOK(new, legs)'
    BY <1>1, QuoteStands
  <2>5. legs = legsOf(call'[p]) /\ call'[p] = call[p]
    BY <1>1, <2>2
  <2>6. new # NoQuote => call'[p].kind = "place" /\ QuoteOK(new, legs)'
    BY <2>3, <2>4, <2>5
  <2>7. QED
    BY <2>1, <2>5, <2>6 DEF QuoteHeld, legsOf
<1>5. QED
  BY <1>1, <1>3, <1>4 DEF QuoteInvariant

\* The price read for the next item is the price the service has now, so it was
\* on offer since the quote began.
LEMMA ReadServiceKeeps ==
  ASSUME QuoteInvariant, NEW r \in Requests, ReadService(r)
  PROVE  QuoteInvariant'
<1>1. PICK q \in Quotes(r) :
        LET line == q.ask.lines[Len(q.items) + 1]
            items == Append(q.items,
              quotedItem(line.service, services[line.service].price,
                         itemQuantity(line.given, q.ask.estimated, Part)))
        IN /\ q.reads = "items"
           /\ line.service \in 1 .. Len(services)
           /\ onSale(services[line.service])
           /\ quote' = [quote EXCEPT ![r] = [q EXCEPT !.items = items,
                !.reads = IF Len(items) < Len(q.ask.lines) THEN "items"
                          ELSE IF q.ask.discount + q.ask.membership > 0
                          THEN "discount" ELSE "rules"]]
  BY DEF ReadService
<1> DEFINE line == q.ask.lines[Len(q.items) + 1]
           quantity == itemQuantity(line.given, q.ask.estimated, Part)
           item == quotedItem(line.service, services[line.service].price, quantity)
           items == Append(q.items, item)
           reads == IF Len(items) < Len(q.ask.lines) THEN "items"
                    ELSE IF q.ask.discount + q.ask.membership > 0
                    THEN "discount" ELSE "rules"
           new == [q EXCEPT !.items = items, !.reads = reads]
<1>2. /\ q.reads = "items"
      /\ line.service \in 1 .. Len(services)
      /\ services[line.service].isActive
      /\ quote' = [quote EXCEPT ![r] = new]
  BY <1>1 DEF onSale
<1>3. QuoteOK(q, legsOf(call[r]))
  BY <1>2, QuoteToReadOn
<1>4. /\ q \in QuoteType /\ current \in q.since /\ Sold(q.items, q.since)
      /\ Priced(q.items, q.ask)
      /\ Len(q.items) < Len(q.ask.lines) /\ q.discount = 0
  BY <1>2, <1>3 DEF QuoteOK
<1>5. /\ q.ask \in Ask /\ q.items \in Seq(Item) /\ q.since \subseteq Catalogues
      /\ q.fee \in Nat
  BY <1>4 DEF QuoteType
<1>6. /\ item \in Item
      /\ item.service = line.service /\ item.price = services[line.service].price
      /\ item.subtotal = item.price * quantity
  <2> DEFINE Line == [service : Nat, given : Nat]
  <2>a. q.ask.lines \in Seq(Line) /\ q.ask.estimated \in Nat
    BY <1>5 DEF Ask
  <2>b. Len(q.items) \in Nat
    BY <1>5
  <2>1. line \in Line /\ q.ask.estimated \in Nat
    <3> HIDE DEF Line
    <3>1. Len(q.items) + 1 \in 1 .. Len(q.ask.lines)
      BY <1>4, <2>a, <2>b
    <3>2. QED
      BY <2>a, <3>1
  <2>2. services[line.service] \in Service
    <3> HIDE DEF line
    <3>1. services \in Seq(Service)
      BY DEF QuoteInvariant
    <3>2. QED
      BY <1>2, <3>1
  <2>3. services[line.service].price \in Nat
    BY <2>2 DEF Service
  <2>4. quantity \in Nat
    BY <2>1, PartIsPositive DEF itemQuantity
  <2>5. line.service \in Nat
    BY <2>1
  <2> HIDE DEF line, quantity
  <2>6. PICK price \in Nat, cost \in Nat :
          price = services[line.service].price /\ cost = price * quantity
    BY <2>3, <2>4
  <2>7. item = [service |-> line.service, price |-> price, quantity |-> quantity,
                subtotal |-> cost]
    BY <2>6 DEF quotedItem
  <2>8. QED
    BY <2>4, <2>5, <2>6, <2>7 DEF Item
<1>7. /\ items \in Seq(Item) /\ Len(items) = Len(q.items) + 1
      /\ \A k \in DOMAIN items :
           \/ k \in DOMAIN q.items /\ items[k] = q.items[k]
           \/ k = Len(q.items) + 1 /\ items[k] = item
  <2> HIDE DEF item
  <2>1. QED
    BY <1>5, <1>6
<1>8. Sold(items, q.since)
  <2>1. /\ item.service <= Len(current.services)
        /\ current.services[item.service].isActive
        /\ current.services[item.service].price = item.price
    <3> HIDE DEF line
    <3>1. current.services = services
      BY DEF current
    <3>2. line.service <= Len(services)
      <4>1. services \in Seq(Service)
        BY DEF QuoteInvariant
      <4>2. QED
        BY <1>2, <4>1
    <3>3. item.service = line.service /\ item.price = services[line.service].price
      BY <1>6
    <3> HIDE DEF item
    <3>4. QED
      BY <1>2, <3>1, <3>2, <3>3
  <2>2. ASSUME NEW k \in DOMAIN items
        PROVE  \E catalogue \in q.since :
                 LET row == catalogue.services[items[k].service]
                 IN items[k].service <= Len(catalogue.services)
                    /\ row.isActive /\ row.price = items[k].price
    <3>1. CASE items[k] = item
      <4> HIDE DEF item, items
      <4>1. QED
        BY <1>4, <2>1, <3>1
    <3>2. CASE k \in DOMAIN q.items /\ items[k] = q.items[k]
      <4> HIDE DEF item, items
      <4>1. QED
        BY <1>4, <3>2 DEF Sold
    <3>3. QED
      BY <1>7, <2>2, <3>1, <3>2
  <2>3. QED
    BY <2>2 DEF Sold
<1>16. Priced(items, q.ask)
  <2>1. ASSUME NEW k \in DOMAIN items
        PROVE  items[k].subtotal = items[k].price
                 * itemQuantity(q.ask.lines[k].given, q.ask.estimated, Part)
    <3> HIDE DEF item, items
    <3>1. CASE k = Len(q.items) + 1 /\ items[k] = item
      BY <1>6, <3>1
    <3>2. CASE k \in DOMAIN q.items /\ items[k] = q.items[k]
      BY <1>4, <3>2 DEF Priced
    <3>3. QED
      BY <1>7, <2>1, <3>1, <3>2
  <2>2. QED
    BY <2>1 DEF Priced
<1> HIDE DEF items
<1>9. reads \in {"items", "discount", "rules"}
  OBVIOUS
<1>10. reads = "items" => Len(items) < Len(q.ask.lines)
  OBVIOUS
<1>11. reads = "rules" => discountFor(q.ask, current, subtotalOf(items)) = 0
  <2>1. SUFFICES ASSUME reads = "rules"
        PROVE  discountFor(q.ask, current, subtotalOf(items)) = 0
    OBVIOUS
  <2>2. q.ask.discount \in Nat /\ q.ask.membership \in Nat
    BY <1>5 DEF Ask
  <2>3. q.ask.discount = 0 /\ q.ask.membership = 0
    BY <2>1, <2>2
  <2>4. QED
    BY <2>3 DEF discountFor
<1> HIDE DEF reads
<1>12. /\ new \in QuoteType
       /\ new.ask = q.ask /\ new.reads = reads /\ new.items = items
       /\ new.discount = 0 /\ new.since = q.since
  BY <1>4, <1>7, <1>9 DEF QuoteType
<1> HIDE DEF new
<1>13. QuoteOK(new, legsOf(call[r]))
  BY <1>4, <1>8, <1>9, <1>10, <1>11, <1>12, <1>16 DEF QuoteOK
<1>14. call[r].kind = "place" /\ UNCHANGED <<registryVars, catalogueVars, bill, scope>>
  BY DEF ReadService
<1>15. QED
  BY <1>2, <1>13, <1>14, QuoteRead

\* The discount settled is the one the rows of this moment give.
LEMMA ReadDiscountKeeps ==
  ASSUME QuoteInvariant, NEW r \in Requests, ReadDiscount(r)
  PROVE  QuoteInvariant'
<1> DEFINE q == quote[r]
           off == discountFor(q.ask, current, subtotalOf(q.items))
           new == [q EXCEPT !.reads = "rules", !.discount = off]
<1>1. /\ q.reads = "discount"
      /\ quote' = [quote EXCEPT ![r].reads = "rules", ![r].discount = off]
      /\ UNCHANGED <<registryVars, catalogueVars, bill, scope>>
  BY DEF ReadDiscount
<1>2. q # NoQuote
  BY <1>1 DEF NoQuote
<1>3. call[r].kind = "place" /\ QuoteOK(q, legsOf(call[r]))
  BY <1>2 DEF QuoteInvariant, QuoteHeld
<1>4. quote' = [quote EXCEPT ![r] = new]
  BY <1>1 DEF QuoteInvariant
<1>5. /\ q \in QuoteType /\ current \in q.since /\ Sold(q.items, q.since)
      /\ Priced(q.items, q.ask)
  BY <1>3 DEF QuoteOK
<1>6. off \in Nat
  <2>1. q.items \in Seq(Item) /\ q.since \subseteq Catalogues
    BY <1>5 DEF QuoteType
  <2>2. subtotalOf(q.items) \in Nat /\ current \in Catalogues
    BY <1>5, <2>1, SubtotalIsNat
  <2>3. QED
    BY <2>2, DiscountIsNat
<1> HIDE DEF off
<1>7. /\ new \in QuoteType
      /\ new.ask = q.ask /\ new.reads = "rules" /\ new.items = q.items
      /\ new.discount = off /\ new.since = q.since
  BY <1>5, <1>6 DEF QuoteType
<1> HIDE DEF new, q
<1>8. QuoteOK(new, legsOf(call[r]))
  BY <1>5, <1>7 DEF QuoteOK, off
<1>9. QED
  BY <1>1, <1>3, <1>4, <1>8, QuoteRead

\* The courier fee is read last and completes the quote; the rules never change.
LEMMA ReadRulesKeeps ==
  ASSUME QuoteInvariant, NEW r \in Requests, ReadRules(r)
  PROVE  QuoteInvariant'
<1> DEFINE q == quote[r]
           legs == legsOf(call[r])
<1>1. q.reads = "rules"
  BY DEF ReadRules
<1>2. q # NoQuote
  BY <1>1 DEF NoQuote
<1>3. call[r].kind = "place" /\ QuoteOK(q, legs)
  BY <1>2 DEF QuoteInvariant, QuoteHeld
<1>4. PICK fee \in IF CourierRules[scope] = {} THEN {0}
                   ELSE {courierFee(rules, legs) : rules \in CourierRules[scope]} :
        quote' = [quote EXCEPT ![r].reads = "no more", ![r].fee = fee]
  BY DEF ReadRules
<1> DEFINE new == [q EXCEPT !.reads = "no more", !.fee = fee]
<1>5. quote' = [quote EXCEPT ![r] = new]
  BY <1>4 DEF QuoteInvariant
<1>6. fee \in Nat /\ FeeOK(fee, legs)
  <2>1. legs \in SUBSET Legs
    BY DEF legsOf
  <2>2. CourierRules[scope]
          \subseteq [flat : Fee, pickup : Fee, delivery : Fee, both : Fee]
    BY AsksAssumption DEF QuoteInvariant
  <2> HIDE DEF legs
  <2>3. CASE CourierRules[scope] = {}
    <3>1. fee = 0
      BY <1>4, <2>3
    <3>2. QED
      BY <2>3, <3>1 DEF FeeOK
  <2>4. CASE CourierRules[scope] # {}
    <3>1. PICK rules \in CourierRules[scope] : fee = courierFee(rules, legs)
      BY <1>4, <2>4
    <3>2. /\ fee \in Nat
          /\ legs = {} => fee = 0
          /\ legs # {} => FeeIsSet(fee, rules, legs)
      BY <2>1, <2>2, <3>1, FeeFromRules
    <3>3. QED
      BY <2>4, <3>2 DEF FeeOK
  <2>5. QED
    BY <2>3, <2>4
<1>7. /\ q \in QuoteType /\ current \in q.since /\ Sold(q.items, q.since)
      /\ Priced(q.items, q.ask)
      /\ \E catalogue \in q.since :
           q.discount = discountFor(q.ask, catalogue, subtotalOf(q.items))
  BY <1>1, <1>3 DEF QuoteOK
<1>8. /\ new \in QuoteType
      /\ new.ask = q.ask /\ new.reads = "no more" /\ new.items = q.items
      /\ new.discount = q.discount /\ new.since = q.since /\ new.fee = fee
  BY <1>6, <1>7 DEF QuoteType
<1> HIDE DEF new, q
<1>9. QuoteOK(new, legs)
  BY <1>6, <1>7, <1>8 DEF QuoteOK
<1>10. UNCHANGED <<registryVars, catalogueVars, bill, scope>>
  BY DEF ReadRules
<1>11. QED
  BY <1>3, <1>5, <1>9, <1>10, QuoteRead

\* Requests that enter or go on to their customer hold no quote.
LEMMA ResolvingKeeps ==
  ASSUME QuoteInvariant, call = [p \in Requests |-> call[p]],
         NEW r \in Requests, Enter(r) \/ Resolve(r)
  PROVE  QuoteInvariant'
<1>1. UNCHANGED <<quote, catalogueVars, bill, scope>>
  BY DEF Enter, Resolve
<1>2. UNCHANGED <<quote, services, discounts, scope, current>>
  BY <1>1 DEF catalogueVars, current
<1>3. /\ call[r].kind # "place"
      /\ \A p \in Requests \ {r} : call'[p] = call[p]
  <2>1. Idle.kind # "place"
    BY DEF Idle
  <2>2. ASSUME NEW t, NEW s, NEW form, NEW text, CheckCustomer(r, t, s, form, text)
        PROVE  <1>3!:
    BY <2>1, <2>2 DEF CheckCustomer, Free
  <2>3. ASSUME NEW t, NEW s, NEW form, NEW text, NEW named,
               FindCustomer(r, t, s, form, text, named)
        PROVE  <1>3!:
    BY <2>1, <2>3 DEF FindCustomer, Free
  <2>4. ASSUME NEW t, NEW i, NEW named, NameCustomer(r, t, i, named)
        PROVE  <1>3!:
    BY <2>1, <2>4 DEF NameCustomer, Free
  <2>5. CASE Enter(r)
    BY <2>2, <2>3, <2>4, <2>5 DEF Enter, EnterRegistry
  <2>6. CASE Resolve(r)
    BY <2>6 DEF Resolve, ResolveCustomer, RegisterCustomer, CreateCustomer, AddAddress
  <2>7. QED
    BY <2>5, <2>6
<1>4. ASSUME NEW p \in Requests
      PROVE  QuoteHeld(p)'
  <2>1. PICK q, legs : q = quote[p] /\ legs = legsOf(call[p])
    OBVIOUS
  <2>2. CASE q = NoQuote
    BY <1>2, <2>1, <2>2 DEF QuoteHeld
  <2>3. CASE q # NoQuote
    <3>1. call[p].kind = "place" /\ QuoteOK(q, legs)
      BY <2>1, <2>3 DEF QuoteInvariant, QuoteHeld
    <3>2. call'[p] = call[p]
      BY <1>3, <3>1
    <3>3. QuoteOK(q, legs)'
      BY <1>2, <3>1, QuoteStands
    <3>4. QED
      BY <1>2, <2>1, <3>1, <3>2, <3>3 DEF QuoteHeld, legsOf
  <2>4. QED
    BY <2>2, <2>3
<1>5. QED
  BY <1>2, <1>4 DEF QuoteInvariant

\* A request that ends drops its quote.
LEMMA EndingKeeps ==
  ASSUME QuoteInvariant, call = [p \in Requests |-> call[p]],
         NEW r \in Requests, call' = [call EXCEPT ![r] = Idle],
         quote' = [quote EXCEPT ![r] = NoQuote], UNCHANGED <<catalogueVars, scope>>
  PROVE  QuoteInvariant'
<1>1. UNCHANGED <<services, discounts, scope, current>>
  BY DEF catalogueVars, current
<1>2. quote' = [p \in Requests |-> quote'[p]] /\ quote'[r] = NoQuote
  BY DEF QuoteInvariant
<1>3. ASSUME NEW p \in Requests \ {r}
      PROVE  QuoteHeld(p)'
  <2>1. PICK q, legs : q = quote[p] /\ legs = legsOf(call[p])
    OBVIOUS
  <2>2. quote'[p] = q /\ call'[p] = call[p]
    BY <2>1 DEF QuoteInvariant
  <2>3. q # NoQuote => call[p].kind = "place" /\ QuoteOK(q, legs)
    BY <2>1 DEF QuoteInvariant, QuoteHeld
  <2>4. q # NoQuote => QuoteOK(q, legs)'
    BY <1>1, <2>3, QuoteStands
  <2>5. QED
    BY <2>1, <2>2, <2>3, <2>4 DEF QuoteHeld, legsOf
<1>4. QuoteHeld(r)'
  BY <1>2 DEF QuoteHeld
<1>5. QED
  BY <1>1, <1>2, <1>3, <1>4 DEF QuoteInvariant

\* The catalogues seen so far stay, and the new one is seen too.
LEMMA CatalogueChangeKeeps ==
  ASSUME QuoteInvariant, ChangeCatalogue
  PROVE  QuoteInvariant'
<1>1. /\ services' \in Seq(Service) /\ discounts' \in Seq(Discount)
      /\ UNCHANGED <<call, bill, scope>>
  BY CatalogueKept DEF ChangeCatalogue, QuoteInvariant, registryVars
<1>2. current' \in Catalogues
  BY <1>1 DEF current, Catalogues
<1>3. quote' = [p \in Requests |->
        IF quote[p] = NoQuote THEN NoQuote
        ELSE [quote[p] EXCEPT !.since = @ \cup {current'}]]
  BY DEF ChangeCatalogue
<1>4. ASSUME NEW p \in Requests
      PROVE  QuoteHeld(p)'
  <2>1. PICK q, legs, now : q = quote[p] /\ legs = legsOf(call[p]) /\ now = current'
    OBVIOUS
  <2>2. CASE q = NoQuote
    BY <1>3, <2>1, <2>2 DEF QuoteHeld
  <2>3. CASE q # NoQuote
    <3>1. PICK new : new = [q EXCEPT !.since = @ \cup {now}]
      OBVIOUS
    <3>2. quote'[p] = new
      BY <1>3, <2>1, <2>3, <3>1
    <3>3. call[p].kind = "place" /\ QuoteOK(q, legs)
      BY <2>1, <2>3 DEF QuoteInvariant, QuoteHeld
    <3>4. q \in QuoteType /\ Sold(q.items, q.since)
      BY <3>3 DEF QuoteOK
    <3>5. /\ new \in QuoteType
          /\ new.since = q.since \cup {now}
          /\ new.ask = q.ask /\ new.reads = q.reads /\ new.items = q.items
          /\ new.discount = q.discount /\ new.fee = q.fee
      BY <1>2, <2>1, <3>1, <3>4 DEF QuoteType
    <3>6. Sold(new.items, new.since)
      BY <3>4, <3>5 DEF Sold
    <3>7. QuoteOK(new, legs)'
      BY <1>1, <2>1, <3>3, <3>5, <3>6 DEF QuoteOK, FeeOK
    <3>8. legs = legsOf(call'[p]) /\ call'[p].kind = "place"
      BY <1>1, <2>1, <3>3
    <3>9. QED
      BY <3>2, <3>7, <3>8 DEF QuoteHeld, legsOf
  <2>4. QED
    BY <2>2, <2>3
<1>5. QED
  BY <1>1, <1>3, <1>4 DEF QuoteInvariant

\* Steps that leave catalogue, quotes and calls alone keep every quote honest.
LEMMA QuotesStutter ==
  ASSUME QuoteInvariant, UNCHANGED <<registryVars, catalogueVars, quote, scope>>
  PROVE  QuoteInvariant'
<1>1. UNCHANGED <<call, services, discounts, quote, scope, current>>
  BY DEF registryVars, catalogueVars, current
<1>2. ASSUME NEW p \in Requests
      PROVE  QuoteHeld(p)'
  <2>1. PICK q, legs : q = quote[p] /\ legs = legsOf(call[p])
    OBVIOUS
  <2>2. q # NoQuote => call[p].kind = "place" /\ QuoteOK(q, legs)
    BY <2>1 DEF QuoteInvariant, QuoteHeld
  <2>3. q # NoQuote => QuoteOK(q, legs)'
    BY <1>1, <2>2, QuoteStands
  <2>4. QED
    BY <1>1, <2>1, <2>2, <2>3 DEF QuoteHeld, legsOf
<1>3. QED
  BY <1>1, <1>2 DEF QuoteInvariant

\* Every step of intake and weighing keeps the quotes honest.
LEMMA QuoteStep ==
  ASSUME RegistryInvariant, QuoteInvariant, [WeighingNext]_weighingVars
  PROVE  QuoteInvariant'
<1>0. call = [p \in Requests |-> call[p]]
  BY DEF RegistryInvariant
<1>1. ASSUME NEW r \in Requests, IntakeStep(r)
      PROVE  QuoteInvariant'
  <2>1. CASE Enter(r) \/ Resolve(r)
    BY <1>0, <2>1, ResolvingKeeps
  <2>2. CASE ReadService(r) \/ ReadDiscount(r) \/ ReadRules(r)
    BY <2>2, ReadServiceKeeps, ReadDiscountKeeps, ReadRulesKeeps
  <2>3. CASE PlaceBilledOrder(r) \/ RefuseOrder(r)
    BY <1>0, <2>3, EndingKeeps
    DEF PlaceBilledOrder, PlaceOrder, RefuseOrder, Refuse
  <2>4. QED
    BY <1>1, <2>1, <2>2, <2>3 DEF IntakeStep
<1>2. CASE ChangeCatalogue
  BY <1>2, CatalogueChangeKeeps
<1>3. ASSUME NEW r \in Requests, WeighingStep(r)
      PROVE  UNCHANGED <<registryVars, catalogueVars, quote, scope>>
  BY <1>3 DEF WeighingStep, BeginWeighing, WriteItem, CommitWeighing,
              AbortWeighing, intakeVars
<1>4. CASE UNCHANGED weighingVars
  BY <1>4, QuotesStutter DEF weighingVars, intakeVars
<1>5. QED
  BY <1>1, <1>2, <1>3, <1>4, QuotesStutter DEF WeighingNext

\* At first nobody is being quoted a price, and the tables are well formed.
LEMMA QuotesBegin == WeighingInit => QuoteInvariant
<1> SUFFICES ASSUME WeighingInit PROVE QuoteInvariant
  OBVIOUS
<1>1. /\ scope \in Scopes
      /\ services = InitialServices /\ discounts = InitialDiscounts
      /\ quote = [r \in Requests |-> NoQuote]
  BY DEF WeighingInit, IntakeInit
<1>2. QED
  BY <1>1, TablesAssumption DEF QuoteInvariant, QuoteHeld

\* What every request has added up is right at every moment.
LEMMA QuotesHold == WeighingSpec => []QuoteInvariant
<1>1. RegistryInvariant /\ QuoteInvariant /\ [WeighingNext]_weighingVars
        => QuoteInvariant'
  BY QuoteStep
<1>2. QED
  BY <1>1, QuotesBegin, RegistryHolds, PTL DEF WeighingSpec
-----------------------------------------------------------------------------
(* Rounding.                                                               *)

\* A number lies between two multiples of a divisor that are next to each other.
LEMMA QuotientBounds ==
  ASSUME NEW n \in Nat, NEW d \in Nat \ {0}
  PROVE  /\ n \div d \in Nat
         /\ d * (n \div d) <= n
         /\ n < d * (n \div d) + d
<1>1. n = d * (n \div d) + (n % d)
  OBVIOUS
<1>2. n % d \in 0 .. d - 1
  OBVIOUS
<1>3. n \div d \in Int
  OBVIOUS
<1>4. QED
  BY <1>1, <1>2, <1>3

\* Factors that are positive may be cancelled.
LEMMA Cancelled ==
  ASSUME NEW d \in Nat \ {0}, NEW x \in Int, NEW y \in Int, d * x < d * y
  PROVE  x < y
<1>1. SUFFICES ASSUME y <= x PROVE FALSE
  OBVIOUS
<1>2. d * (x - y) >= 0
  BY <1>1
<1>3. d * (x - y) = d * x - d * y
  OBVIOUS
<1>4. QED
  BY <1>2, <1>3

\* Rounding moves a number by at most half a unit, up if it lies in the middle.
LEMMA RoundedBounds ==
  ASSUME NEW n \in Nat, NEW parts \in Nat \ {0}
  PROVE  /\ rounded(n, parts) \in Nat
         /\ 2 * (parts * rounded(n, parts)) <= 2 * n + parts
         /\ 2 * n + parts < 2 * (parts * rounded(n, parts)) + 2 * parts
<1>1. 2 * n + parts \in Nat /\ 2 * parts \in Nat \ {0}
  OBVIOUS
<1>2. PICK r : r = (2 * n + parts) \div (2 * parts)
  OBVIOUS
<1>3. r \in Nat /\ (2 * parts) * r <= 2 * n + parts
      /\ 2 * n + parts < (2 * parts) * r + 2 * parts
  BY <1>1, <1>2, QuotientBounds
<1>4. (2 * parts) * r = 2 * (parts * r)
  BY <1>3
<1>5. QED
  BY <1>2, <1>3, <1>4 DEF rounded

\* No other number is as near.
LEMMA RoundedIs ==
  ASSUME NEW n \in Nat, NEW parts \in Nat \ {0}, NEW r \in Int,
         2 * (parts * r) <= 2 * n + parts,
         2 * n + parts < 2 * (parts * r) + 2 * parts
  PROVE  rounded(n, parts) = r
<1>1. PICK s \in Nat : s = rounded(n, parts)
                       /\ 2 * (parts * s) <= 2 * n + parts
                       /\ 2 * n + parts < 2 * (parts * s) + 2 * parts
  BY RoundedBounds
<1>2. parts * r < parts * s + parts /\ parts * s < parts * r + parts
      /\ parts * r \in Int /\ parts * s \in Int
  BY <1>1
<1>3. parts * (s + 1) = parts * s + parts /\ parts * (r + 1) = parts * r + parts
  BY <1>1
<1>4. r < s + 1 /\ s < r + 1
  BY <1>1, <1>2, <1>3, Cancelled
<1>5. r = s
  BY <1>4
<1>6. QED
  BY <1>1, <1>5

\* Whole units stay what they are.
LEMMA RoundedWhole ==
  ASSUME NEW k \in Nat, NEW parts \in Nat \ {0}
  PROVE  rounded(parts * k, parts) = k /\ rounded(0, parts) = 0
<1>1. parts * k \in Nat /\ parts * 0 = 0
  OBVIOUS
<1>2. rounded(parts * k, parts) = k
  BY <1>1, RoundedIs
<1>3. rounded(0, parts) = 0
  BY <1>1, RoundedIs
<1>4. QED
  BY <1>2, <1>3

\* Rounding commutes with adding whole units, above 0 and below.
LEMMA RoundedRest ==
  ASSUME NEW n \in Nat, NEW parts \in Nat \ {0}, NEW k \in Int
  PROVE  rounded(positive(n + parts * k), parts) = positive(rounded(n, parts) + k)
<1>1. PICK r \in Nat : r = rounded(n, parts)
                       /\ 2 * (parts * r) <= 2 * n + parts
                       /\ 2 * n + parts < 2 * (parts * r) + 2 * parts
  BY RoundedBounds
<1>2. PICK rest, pr, pk, ps \in Int :
         rest = n + pk /\ pk = parts * k /\ pr = parts * r /\ ps = parts * (r + k)
  BY <1>1
<1>3. ps = pr + pk
  BY <1>1, <1>2
<1>4. 2 * ps <= 2 * rest + parts /\ 2 * rest + parts < 2 * ps + 2 * parts
  BY <1>1, <1>2, <1>3
<1>5. CASE rest > 0
  <2>1. rounded(rest, parts) = r + k
    BY <1>1, <1>2, <1>4, <1>5, RoundedIs
  <2>2. r + k >= 0
    BY <1>2, <1>5, <2>1, RoundedBounds
  <2>3. QED
    BY <1>1, <1>2, <1>5, <2>1, <2>2 DEF positive
<1>6. CASE rest <= 0
  <2>1. ps < parts * 1
    BY <1>2, <1>4, <1>6
  <2>2. r + k < 1
    BY <1>1, <1>2, <2>1, Cancelled
  <2>3. rounded(0, parts) = 0
    BY RoundedWhole
  <2>4. QED
    BY <1>1, <1>2, <1>6, <2>2, <2>3 DEF positive
<1>7. QED
  BY <1>2, <1>5, <1>6

\* The same total by way of the unrounded sums and by way of the rounded ones is
\* at most a unit apart.
LEMMA TotalRounds ==
  ASSUME NEW one \in Nat \ {0}, NEW subtotal \in Nat, NEW off \in Nat, NEW fee \in Nat
  PROVE  LET owed == positive(rounded(subtotal, one) - rounded(off, 10000 * one) + fee)
         IN /\ owed \in Nat
            /\ orderTotal(subtotal, off, fee, one) \in Nat
            /\ orderTotal(subtotal, off, fee, one) \in owed - 1 .. owed + 1
<1>1. PICK s \in Nat : s = rounded(subtotal, one)
                       /\ 2 * (one * s) <= 2 * subtotal + one
                       /\ 2 * subtotal + one < 2 * (one * s) + 2 * one
  BY RoundedBounds
<1>2. PICK fine \in Nat \ {0} : fine = 10000 * one
  OBVIOUS
<1>3. PICK d \in Nat : d = rounded(off, fine)
                       /\ 2 * (fine * d) <= 2 * off + fine
                       /\ 2 * off + fine < 2 * (fine * d) + 2 * fine
  BY RoundedBounds
<1>4. PICK due, fs, fd, ff, u, fu \in Int :
         /\ due = 10000 * subtotal - off + 10000 * one * fee
         /\ fs = fine * s /\ fd = fine * d /\ ff = fine * fee
         /\ u = s - d + fee /\ fu = fine * u
  BY <1>1, <1>2, <1>3
<1>5. /\ fs = 10000 * (one * s) /\ ff = 10000 * one * fee
      /\ fu = fs - fd + ff
  BY <1>1, <1>2, <1>3, <1>4
<1>6. 2 * fs <= 20000 * subtotal + fine /\ 20000 * subtotal + fine < 2 * fs + 2 * fine
  BY <1>1, <1>2, <1>5
<1>7. fu < due + fine /\ due - fine < fu
  BY <1>3, <1>4, <1>5, <1>6
<1>8. fine * 1 = fine /\ fine * (-1) = -fine /\ fine * 0 = 0
  BY <1>2
<1>9. CASE due <= 0
  <2>1. u < 1
    BY <1>2, <1>4, <1>7, <1>8, <1>9, Cancelled
  <2>2. rounded(0, fine) = 0
    BY RoundedWhole
  <2>3. orderTotal(subtotal, off, fee, one) = 0
    BY <1>2, <1>4, <1>9, <2>2 DEF orderTotal, positive
  <2>4. positive(s - d + fee) = 0
    BY <1>4, <2>1 DEF positive
  <2>5. QED
    BY <1>1, <1>2, <1>3, <2>3, <2>4
<1>10. CASE due > 0
  <2>1. u > -1
    BY <1>2, <1>4, <1>7, <1>8, <1>10, Cancelled
  <2>2. PICK t \in Nat : t = rounded(due, fine)
                         /\ 2 * (fine * t) <= 2 * due + fine
                         /\ 2 * due + fine < 2 * (fine * t) + 2 * fine
    <3>1. due \in Nat
      BY <1>10
    <3>2. QED
      BY <3>1, RoundedBounds
  <2>3. fu < fine * (t + 2) /\ fine * t < fine * (u + 2)
    <3>1. fine * (t + 2) = fine * t + 2 * fine /\ fine * (u + 2) = fu + 2 * fine
          /\ fine * t \in Int
      BY <1>2, <1>4, <2>2
    <3>2. QED
      BY <1>2, <1>7, <2>2, <3>1
  <2>4. u < t + 2 /\ t < u + 2
    BY <1>2, <1>4, <2>2, <2>3, Cancelled
  <2>5. orderTotal(subtotal, off, fee, one) = t
    BY <1>2, <1>4, <1>10, <2>2 DEF orderTotal, positive
  <2>6. positive(s - d + fee) = u
    BY <1>4, <2>1 DEF positive
  <2>7. QED
    BY <1>1, <1>2, <1>3, <1>4, <2>1, <2>2, <2>4, <2>5, <2>6
<1>11. QED
  BY <1>4, <1>9, <1>10

\* What rounding each of some numbers moves their sum by.
LEMMA RoundedApart ==
  ASSUME NEW S, IsFiniteSet(S), NEW f, NEW g, NEW parts \in Nat \ {0},
         \A x \in S : f[x] \in Nat /\ g[x] = rounded(f[x], parts)
  PROVE  LET moved == 2 * (parts * SumFunctionOnSet(g, S) - SumFunctionOnSet(f, S))
             n == Cardinality(S)
         IN n - parts * n <= moved /\ moved <= parts * n
<1> DEFINE Moved(s) == 2 * (parts * SumFunctionOnSet(g, s) - SumFunctionOnSet(f, s))
           Within(s) == /\ Cardinality(s) - parts * Cardinality(s) <= Moved(s)
                        /\ Moved(s) <= parts * Cardinality(s)
           Bad == {s \in SUBSET S : ~Within(s)}
<1>1. SUFFICES ASSUME Bad # {} PROVE FALSE
  OBVIOUS
<1>2. PICK s \in Bad : \A t \in Bad : ~(t \subseteq s /\ t # s)
  <2>1. Bad \in SUBSET SUBSET S
    OBVIOUS
  <2> HIDE DEF Bad
  <2>2. QED
    BY <1>1, <2>1, SubsetMin
<1>3. IsFiniteSet(s) /\ s \subseteq S
  BY FS_Subset
<1>4. s # {}
  <2>1. SumFunctionOnSet(f, {}) = 0 /\ SumFunctionOnSet(g, {}) = 0
    BY SumEmpty
  <2>2. Cardinality({}) = 0
    BY FS_EmptySet
  <2>3. Within({})
    BY <2>1, <2>2
  <2>4. QED
    BY <2>3
<1>5. PICK x, t : x = Pick(s) /\ t = s \ {x}
  OBVIOUS
<1>6. /\ x \in s /\ IsFiniteSet(t) /\ t \subseteq S
      /\ Cardinality(s) \in Nat /\ Cardinality(t) = Cardinality(s) - 1
      /\ SumFunctionOnSet(f, s) = f[x] + SumFunctionOnSet(f, t)
      /\ SumFunctionOnSet(g, s) = g[x] + SumFunctionOnSet(g, t)
  BY <1>3, <1>4, <1>5, WithoutPick, SumPick
<1>7. Within(t)
  <2>1. t \notin Bad
    BY <1>2, <1>5, <1>6
  <2>2. QED
    BY <1>6, <2>1
<1>8. PICK fx \in Nat, gx \in Nat :
        /\ fx = f[x] /\ gx = g[x]
        /\ 2 * (parts * gx) <= 2 * fx + parts
        /\ 2 * fx + parts < 2 * (parts * gx) + 2 * parts
  BY <1>3, <1>6, RoundedBounds
<1>9. \A y \in S : g[y] \in Nat
  BY RoundedBounds
<1>10. PICK ft \in Nat, gt \in Nat : ft = SumFunctionOnSet(f, t) /\ gt = SumFunctionOnSet(g, t)
  <2>1. SumFunctionOnSet(f, t) \in Nat
    BY <1>6, SumType
  <2>2. SumFunctionOnSet(g, t) \in Nat
    BY <1>6, <1>9, SumType
  <2>3. QED
    BY <2>1, <2>2
<1>11. PICK n \in Int : n = Cardinality(t) /\ Cardinality(s) = n + 1
  BY <1>6
<1>12. PICK pn, pg, px \in Int : pn = parts * n /\ pg = parts * gt /\ px = parts * gx
  OBVIOUS
<1>13. parts * (n + 1) = pn + parts /\ parts * (gx + gt) = px + pg
  BY <1>12
<1>14. n - pn <= 2 * (pg - ft) /\ 2 * (pg - ft) <= pn
  BY <1>7, <1>10, <1>11, <1>12
<1>15. /\ n + 1 - (pn + parts) <= 2 * ((px + pg) - (fx + ft))
       /\ 2 * ((px + pg) - (fx + ft)) <= pn + parts
  BY <1>8, <1>12, <1>14
<1>16. Within(s)
  BY <1>6, <1>8, <1>10, <1>11, <1>13, <1>15
<1>17. QED
  BY <1>2, <1>16

\* A rounded sum and the sum of what was rounded are at most half a unit for each
\* of the numbers apart.
LEMMA SumRounds ==
  ASSUME NEW S, IsFiniteSet(S), NEW f, NEW g, NEW parts \in Nat \ {0},
         \A x \in S : f[x] \in Nat /\ g[x] = rounded(f[x], parts)
  PROVE  LET n == Cardinality(S)
         IN 2 * (rounded(SumFunctionOnSet(f, S), parts) - SumFunctionOnSet(g, S)) \in -n .. n
<1>1. PICK n \in Nat : n = Cardinality(S)
  BY FS_CardinalityType
<1>2. PICK sum \in Nat : sum = SumFunctionOnSet(f, S)
  BY SumType
<1>3. PICK parted \in Nat : parted = SumFunctionOnSet(g, S)
  <2>1. \A x \in S : g[x] \in Nat
    BY RoundedBounds
  <2>2. QED
    BY <2>1, SumType
<1>4. PICK whole \in Nat : whole = rounded(sum, parts)
                           /\ 2 * (parts * whole) <= 2 * sum + parts
                           /\ 2 * sum + parts < 2 * (parts * whole) + 2 * parts
  BY RoundedBounds
<1>5. n - parts * n <= 2 * (parts * parted - sum) /\ 2 * (parts * parted - sum) <= parts * n
  BY <1>1, <1>2, <1>3, RoundedApart
<1>6. PICK pn, pp, pw, e, pe \in Int :
        /\ pn = parts * n /\ pp = parts * parted /\ pw = parts * whole
        /\ e = 2 * (whole - parted) /\ pe = parts * e
  OBVIOUS
<1>7. pe = 2 * (pw - pp) /\ parts * (n + 1) = pn + parts
      /\ parts * (-n - 1) = -pn - parts
  BY <1>6
<1>8. pe <= pn + parts - n /\ -pn - parts < pe
  BY <1>4, <1>5, <1>6, <1>7
<1>9. -n - 1 < e
  BY <1>6, <1>7, <1>8, Cancelled
<1>10. e <= n
  <2>1. CASE n > 0
    <3>1. e < n + 1
      BY <1>6, <1>7, <1>8, <2>1, Cancelled
    <3>2. QED
      BY <1>6, <3>1
  <2>2. CASE n = 0
    <3>1. pn = 0 /\ parts * 2 = parts + parts
      BY <1>6, <2>2
    <3>2. pe < parts * 2
      BY <1>8, <2>2, <3>1
    <3>3. e < 2
      BY <1>6, <3>2, Cancelled
    <3>4. QED
      BY <1>6, <2>2, <3>3
  <2>3. QED
    BY <2>1, <2>2
<1>11. QED
  BY <1>1, <1>2, <1>3, <1>4, <1>6, <1>9, <1>10
-----------------------------------------------------------------------------
(* Bills.                                                                  *)

\* What columns keep are numbers.
LEMMA ColumnsAreNat ==
  ASSUME NEW n \in Nat
  PROVE  rounded(n, Grain) \in Nat /\ rounded(n, Part) \in Nat /\ rounded(n, Fine) \in Nat
<1>1. Grain \in Nat \ {0} /\ Part \in Nat \ {0} /\ Fine \in Nat \ {0}
  BY GrainAssumption, PartIsPositive
<1>2. \A parts \in Nat \ {0} : rounded(n, parts) \in Nat
  BY RoundedBounds
<1>3. QED
  BY <1>1, <1>2, Zenon

\* A discount that was stored is, but for its rounding, the one that was set.
LEMMA DiscountRounds ==
  ASSUME NEW b, NEW catalogue \in Catalogues, Asked(b) \in Nat,
         b.ask.membership \in 0 .. Len(Memberships), b.ask.discount \in Nat,
         b.discount = rounded(discountFor(b.ask, catalogue, Asked(b)), Fine)
  PROVE  DiscountIsGiven(b, catalogue)
<1>1. PICK asked \in Nat : asked = Asked(b)
  OBVIOUS
<1>2. ASSUME NEW percent \in Nat
      PROVE  IsPercentage(rounded(asked * percent, Fine), percent, asked)
  <2>1. PICK n \in Nat : n = asked * percent /\ percent * asked = n
    OBVIOUS
  <2>2. PICK fine \in Nat \ {0} : fine = Fine
    BY PartIsPositive
  <2>3. PICK r \in Nat : r = rounded(n, fine)
                         /\ 2 * (fine * r) <= 2 * n + fine
                         /\ 2 * n + fine < 2 * (fine * r) + 2 * fine
    BY RoundedBounds
  <2>4. 2 * (fine * r - n) \in -fine .. fine
    <3>1. PICK m \in Nat : m = fine * r
      BY <2>2, <2>3
    <3>2. 2 * m <= 2 * n + fine /\ 2 * n + fine < 2 * m + 2 * fine
      BY <2>3, <3>1
    <3>3. 2 * (m - n) \in -fine .. fine
      BY <3>2
    <3>4. QED
      BY <3>1, <3>3
  <2>5. r = rounded(asked * percent, Fine)
    BY <2>1, <2>2, <2>3
  <2>6. 2 * (Fine * r - percent * asked) \in -Fine .. Fine
    BY <2>1, <2>2, <2>4
  <2>7. QED
    BY <2>5, <2>6 DEF IsPercentage
<1>3. ASSUME NEW price \in Nat
      PROVE  rounded(10000 * Part * price, Fine) = price /\ rounded(0, Fine) = 0
  <2>1. 10000 * Part * price = Fine * price
    BY PartIsPositive
  <2>2. QED
    BY <2>1, PartIsPositive, RoundedWhole
<1>4. ASSUME NEW row \in Discount
      PROVE  DiscountIsSet(rounded(discountOf(row, asked, Part), Fine), row, asked)
  <2>1. row.percent \in Nat /\ row.price \in Nat /\ row.isActive \in BOOLEAN
        /\ row.type \in {"percent", "nominal"}
    BY DEF Discount
  <2>2. CASE ~row.isActive
    BY <1>3, <2>1, <2>2 DEF DiscountIsSet, discountOf
  <2>3. CASE row.isActive /\ row.type = "percent" /\ row.percent # 0
    <3>1. discountOf(row, asked, Part) = asked * row.percent
      BY <2>3 DEF discountOf
    <3>2. QED
      BY <1>2, <2>1, <2>3, <3>1 DEF DiscountIsSet
  <2>4. CASE row.isActive /\ (row.type = "nominal" \/ row.percent = 0)
    <3>1. discountOf(row, asked, Part) = 10000 * Part * row.price
      BY <2>4 DEF discountOf
    <3>2. QED
      BY <1>3, <2>1, <2>4, <3>1 DEF DiscountIsSet
  <2>5. QED
    BY <2>1, <2>2, <2>3, <2>4
<1>5. ASSUME NEW row \in [isActive : BOOLEAN, percent : Nat]
      PROVE  MembershipIsSet(rounded(membershipOf(row, asked), Fine), row, asked)
  BY <1>2, <1>3 DEF MembershipIsSet, membershipOf
<1>6. CASE b.ask.discount \in 1 .. Len(catalogue.discounts)
  <2>1. catalogue.discounts[b.ask.discount] \in Discount
    <3>1. catalogue.discounts \in Seq(Discount)
      BY DEF Catalogues
    <3>2. QED
      BY <1>6, <3>1
  <2>2. QED
    BY <1>1, <1>4, <1>6, <2>1 DEF discountFor, DiscountIsGiven
<1>7. CASE b.ask.discount = 0 /\ b.ask.membership # 0
  <2> DEFINE Membership == [isActive : BOOLEAN, percent : Nat]
  <2>1. Memberships \in Seq(Membership)
    BY TablesAssumption
  <2>2. b.ask.membership \in 1 .. Len(Memberships)
    BY <1>7, <2>1
  <2>3. Memberships[b.ask.membership] \in Membership
    <3> HIDE DEF Membership
    <3>1. QED
      BY <2>1, <2>2
  <2>4. 0 \notin 1 .. Len(catalogue.discounts)
    OBVIOUS
  <2>5. discountFor(b.ask, catalogue, Asked(b))
          = membershipOf(Memberships[b.ask.membership], asked)
    BY <1>1, <1>7, <2>2, <2>4 DEF discountFor
  <2>6. MembershipIsSet(b.discount, Memberships[b.ask.membership], Asked(b))
    BY <1>1, <1>5, <2>3, <2>5
  <2>7. QED
    BY <1>7, <2>4, <2>6 DEF DiscountIsGiven
<1>8. CASE /\ b.ask.discount \notin 1 .. Len(catalogue.discounts)
           /\ ~(b.ask.discount = 0 /\ b.ask.membership # 0)
  <2>1. discountFor(b.ask, catalogue, Asked(b)) = 0
    BY <1>8 DEF discountFor
  <2>2. b.discount = 0
    BY <1>3, <2>1
  <2>3. QED
    BY <1>8, <2>2 DEF DiscountIsGiven
<1>9. QED
  BY <1>6, <1>7, <1>8

\* A bill stays right while nothing of it changes.
LEMMA ChargeStands ==
  ASSUME NEW CONSTANT b, ChargeOK(b), UNCHANGED scope
  PROVE  ChargeOK(b)'
BY DEF ChargeOK, FeeOK

\* The same goods, in whatever quantities and at whatever cost.
SameGoods(items, new) ==
  /\ new \in Seq(Item)
  /\ DOMAIN new = DOMAIN items
  /\ \A k \in DOMAIN items :
       new[k].service = items[k].service /\ new[k].price = items[k].price

\* Other quantities do not change what the goods were sold for.
LEMMA StillSold ==
  ASSUME NEW items, NEW new, SameGoods(items, new), NEW since, Sold(items, since)
  PROVE  Sold(new, since)
BY DEF SameGoods, Sold

\* Nor what was asked for, and so not what their discount is measured by.
LEMMA StillCharged ==
  ASSUME NEW b, NEW c, ChargeOK(b), SameGoods(b.items, c.items),
         c.ask = b.ask, c.since = b.since, c.discount = b.discount, c.fee = b.fee,
         c.legs = b.legs
  PROVE  ChargeOK(c)
<1>1. Sold(c.items, c.since)
  BY StillSold DEF ChargeOK
<1>2. Asked(c) = Asked(b)
  <2>1. [k \in DOMAIN c.items |->
           c.items[k].price * itemQuantity(c.ask.lines[k].given, c.ask.estimated, Part)]
        = [k \in DOMAIN b.items |->
           b.items[k].price * itemQuantity(b.ask.lines[k].given, b.ask.estimated, Part)]
    BY DEF SameGoods
  <2>2. QED
    BY <2>1 DEF Asked
<1>3. \E catalogue \in c.since : DiscountIsGiven(c, catalogue)
  BY <1>2 DEF ChargeOK, DiscountIsGiven
<1>4. QED
  BY <1>1, <1>3 DEF ChargeOK

\* An item of the same goods.
SameGood(item, other) ==
  other \in Item /\ other.service = item.service /\ other.price = item.price

\* An item that is weighed is of the same goods.
LEMMA ItemWeighed ==
  ASSUME NEW item \in Item, NEW weight \in Nat
  PROVE  /\ SameGood(item, weighedItem(item, weight))
         /\ weighedItem(item, weight).quantity = rounded(weight, Grain)
         /\ weighedItem(item, weight).subtotal = rounded(item.price * weight, Part)
<1>1. PICK quantity \in Nat, subtotal \in Nat :
        quantity = rounded(weight, Grain) /\ subtotal = rounded(item.price * weight, Part)
  <2>1. PICK cost \in Nat : cost = item.price * weight
    BY DEF Item
  <2>2. rounded(weight, Grain) \in Nat /\ rounded(cost, Part) \in Nat
    BY ColumnsAreNat
  <2>3. QED
    BY <2>1, <2>2
<1>2. weighedItem(item, weight)
        = [service |-> item.service, price |-> item.price, quantity |-> quantity,
           subtotal |-> subtotal]
  <2>1. weighedItem(item, weight)
          = [item EXCEPT !.quantity = quantity, !.subtotal = subtotal]
    BY <1>1 DEF weighedItem
  <2>2. QED
    BY <2>1 DEF Item
<1>3. QED
  BY <1>1, <1>2 DEF SameGood, Item

\* Some items exchanged for others of the same goods.
LEMMA ItemsExchanged ==
  ASSUME NEW items \in Seq(Item), NEW other, NEW K \in SUBSET DOMAIN items,
         \A k \in K : SameGood(items[k], other[k]), NEW new,
         new = [k \in DOMAIN items |-> IF k \in K THEN other[k] ELSE items[k]]
  PROVE  SameGoods(items, new)
<1>1. \A k \in DOMAIN items : items[k] \in Item
  OBVIOUS
<1>2. \A k \in DOMAIN items :
        /\ new[k] \in Item
        /\ new[k].service = items[k].service /\ new[k].price = items[k].price
  BY <1>1 DEF SameGood
<1>3. DOMAIN items = 1 .. Len(items) /\ Len(items) \in Nat
  OBVIOUS
<1>4. new \in Seq(Item)
  <2>1. new = [k \in 1 .. Len(items) |-> new[k]]
    BY <1>3
  <2>2. QED
    BY <1>2, <1>3, <2>1, IsASeq
<1>5. QED
  BY <1>2, <1>4 DEF SameGoods

\* Lists of the same goods are as long.
LEMMA SameGoodsLen ==
  ASSUME NEW items \in Seq(Item), NEW new, SameGoods(items, new)
  PROVE  Len(new) = Len(items)
BY LenProperties DEF SameGoods
-----------------------------------------------------------------------------
(* The weighings under way.                                                *)

ToWrite(w) == {w.todo[n] : n \in DOMAIN w.todo}

\* A weighing has written the items it no longer has to write, and remembers
\* what they held.
WeighedOK(w) ==
  /\ w = [order |-> w.order, weight |-> w.weight, todo |-> w.todo, undo |-> w.undo]
  /\ w.order \in Ids(bill)
  /\ w.weight \in Weights
  /\ w.todo \in Seq(DOMAIN bill[w.order].items)
  /\ \A m, n \in DOMAIN w.todo : w.todo[m] = w.todo[n] => m = n
  /\ DOMAIN w.undo = DOMAIN bill[w.order].items \ ToWrite(w)
  /\ \A k \in DOMAIN w.undo :
       w.undo[k] \in Item /\ bill[w.order].items[k] = weighedItem(w.undo[k], w.weight)

\* No two of them have written the same item.
Apart(w, v) ==
  w # NoWeighing /\ v # NoWeighing /\ w.order = v.order =>
    DOMAIN w.undo \cap DOMAIN v.undo = {}

WeighingInvariant ==
  /\ weighing = [r \in Requests |-> weighing[r]]
  /\ \A r \in Requests : weighing[r] # NoWeighing => WeighedOK(weighing[r])
  /\ \A r \in Requests : \A q \in Requests \ {r} : Apart(weighing[r], weighing[q])

\* Only weighings under way lock items.
LEMMA LocksAreHeld ==
  ASSUME NEW w, NEW k, k \in DOMAIN w.undo
  PROVE  w # NoWeighing
<1>1. DOMAIN NoWeighing.undo = {}
  BY DEF NoWeighing
<1>2. QED
  BY <1>1

\* A list of all the items, each once.
LEMMA EachItemOnce ==
  ASSUME NEW n \in Nat, NEW todo \in SetToSeqs(1 .. n)
  PROVE  /\ todo \in Seq(1 .. n)
         /\ \A l, m \in DOMAIN todo : todo[l] = todo[m] => l = m
         /\ {todo[m] : m \in DOMAIN todo} = 1 .. n
<1>1. Cardinality(1 .. n) = n /\ IsFiniteSet(1 .. n)
  BY FS_Interval
<1>2. /\ todo \in [1 .. n -> 1 .. n]
      /\ \A l, m \in 1 .. n : l # m => todo[l] # todo[m]
  BY <1>1 DEF SetToSeqs
<1>3. todo \in Injection(1 .. n, 1 .. n)
  BY <1>2 DEF Injection, IsInjective
<1>4. todo \in Surjection(1 .. n, 1 .. n)
  BY <1>1, <1>3, FS_Injection
<1>5. \A k \in 1 .. n : \E m \in 1 .. n : todo[m] = k
  BY <1>4 DEF Surjection
<1>6. QED
  BY <1>2, <1>5, SeqDef

\* A weighing is not disturbed by what leaves its own items alone.
LEMMA WeighedKept ==
  ASSUME NEW CONSTANT w, WeighedOK(w), Ids(bill) \subseteq Ids(bill)',
         DOMAIN bill'[w.order].items = DOMAIN bill[w.order].items,
         \A k \in DOMAIN w.undo :
           bill'[w.order].items[k] = bill[w.order].items[k]
  PROVE  WeighedOK(w)'
BY DEF WeighedOK

\* The other weighings are not disturbed by one of them that changes.
LEMMA OthersKept ==
  ASSUME WeighingInvariant, NEW r \in Requests, NEW v,
         weighing' = [weighing EXCEPT ![r] = v], v # NoWeighing => WeighedOK(v)',
         \A q \in Requests \ {r} : Apart(v, weighing[q]),
         \A q \in Requests \ {r} :
           (weighing[q] # NoWeighing => WeighedOK(weighing[q]))'
  PROVE  WeighingInvariant'
<1>1. weighing' = [q \in Requests |-> IF q = r THEN v ELSE weighing[q]]
  BY DEF WeighingInvariant
<1>2. weighing'[r] = v /\ \A q \in Requests \ {r} : weighing'[q] = weighing[q]
  BY <1>1
<1>3. (weighing[r] # NoWeighing => WeighedOK(weighing[r]))'
  BY <1>2 DEF WeighedOK
<1>4. ASSUME NEW p \in Requests, NEW q \in Requests \ {p}
      PROVE  Apart(weighing[p], weighing[q])'
  BY <1>2, <1>4 DEF WeighingInvariant, Apart
<1>5. weighing' = [q \in Requests |-> weighing'[q]]
  BY <1>1
<1>6. QED
  BY <1>3, <1>4, <1>5 DEF WeighingInvariant

\* A bill whose items are rewritten stays right if they are the same goods.
LEMMA ItemsRewritten ==
  ASSUME BillInvariant, UNCHANGED scope, NEW i \in Ids(bill), NEW new,
         SameGoods(bill[i].items, new), bill' = [bill EXCEPT ![i].items = new]
  PROVE  /\ BillInvariant'
         /\ Ids(bill)' = Ids(bill)
         /\ bill'[i] = [bill[i] EXCEPT !.items = new]
         /\ \A j \in Ids(bill) \ {i} : bill'[j] = bill[j]
<1>1. Ids(bill)' = Ids(bill) /\ Numbered(bill)'
  BY DEF Ids, Numbered, BillInvariant
<1>2. PICK b : b = [bill[i] EXCEPT !.items = new]
  OBVIOUS
<1>3. bill'[i] = b /\ \A j \in Ids(bill) \ {i} : bill'[j] = bill[j]
  BY <1>2 DEF Ids
<1>4. bill[i] \in BillType /\ ChargeOK(bill[i])
  BY DEF BillInvariant
<1>5. new \in Seq(Item)
  BY DEF SameGoods
<1>6. /\ b \in BillType
      /\ b.items = new /\ b.since = bill[i].since
      /\ b.discount = bill[i].discount /\ b.ask = bill[i].ask
      /\ b.subtotal = bill[i].subtotal /\ b.fee = bill[i].fee /\ b.legs = bill[i].legs
  BY <1>2, <1>4, <1>5 DEF BillType
<1>7. ChargeOK(b)
  BY <1>4, <1>6, StillCharged
<1>8. ASSUME NEW j \in Ids(bill)
      PROVE  (bill[j] \in BillType /\ ChargeOK(bill[j]))'
  <2>1. PICK c : c = bill'[j]
    OBVIOUS
  <2>2. c \in BillType /\ ChargeOK(c)
    BY <1>3, <1>6, <1>7, <2>1 DEF BillInvariant
  <2>3. ChargeOK(c)'
    BY <2>2, ChargeStands
  <2>4. QED
    BY <2>1, <2>2, <2>3 DEF ChargeOK
<1>9. BillInvariant'
  BY <1>1, <1>8 DEF BillInvariant
<1>10. QED
  BY <1>1, <1>2, <1>3, <1>9

-----------------------------------------------------------------------------
(* What others read of an order while it is weighed.                       *)

\* An item is read as it was before it was locked, or as it is.
ReadAs(i) ==
  \A k \in DOMAIN bill[i].items :
    /\ ~Locked(i, k) => Committed(i)[k] = bill[i].items[k]
    /\ \A q \in Requests :
         weighing[q].order = i /\ k \in DOMAIN weighing[q].undo =>
           Committed(i)[k] = weighing[q].undo[k]

\* No item is locked twice, so that it is clear how it is read.
LEMMA ReadsAreClear == WeighingInvariant => \A i \in Ids(bill) : ReadAs(i)
<1> SUFFICES ASSUME WeighingInvariant, NEW i \in Ids(bill)
             PROVE  ReadAs(i)
  OBVIOUS
<1>1. ASSUME NEW k \in DOMAIN bill[i].items, ~Locked(i, k)
      PROVE  Committed(i)[k] = bill[i].items[k]
  BY <1>1 DEF Committed
<1>2. ASSUME NEW k \in DOMAIN bill[i].items, NEW q \in Requests,
             weighing[q].order = i, k \in DOMAIN weighing[q].undo
      PROVE  Committed(i)[k] = weighing[q].undo[k]
  <2> DEFINE holder == CHOOSE p \in Requests :
                         weighing[p].order = i /\ k \in DOMAIN weighing[p].undo
  <2>1. holder \in Requests /\ weighing[holder].order = i
        /\ k \in DOMAIN weighing[holder].undo
    BY <1>2
  <2> HIDE DEF holder
  <2>2. holder = q
    <3>1. weighing[q] # NoWeighing /\ weighing[holder] # NoWeighing
      BY <1>2, <2>1, LocksAreHeld
    <3>2. holder # q => Apart(weighing[holder], weighing[q])
      BY <2>1 DEF WeighingInvariant
    <3>3. QED
      BY <1>2, <2>1, <3>1, <3>2 DEF Apart
  <2>3. Locked(i, k)
    BY <1>2 DEF Locked
  <2>4. Committed(i)[k] = Undone(bill[i].items, weighing[holder])[k]
    BY <1>2, <2>3 DEF Committed, holder
  <2>5. QED
    BY <1>2, <2>2, <2>4 DEF Undone
<1>3. QED
  BY <1>1, <1>2 DEF ReadAs

\* So it is after a step.
LEMMA ReadsAreClearNext ==
  (WeighingInvariant => \A i \in Ids(bill) : ReadAs(i))'
BY ReadsAreClear, PTL

\* While the locks of an order stay as they are, so does what is read of it.
LEMMA SameLocksSameReads ==
  ASSUME WeighingInvariant, WeighingInvariant', NEW i \in Ids(bill), i \in Ids(bill)',
         bill'[i].items = bill[i].items,
         \A q \in Requests :
           \/ weighing'[q] = weighing[q]
           \/ \A k \in DOMAIN bill[i].items :
                /\ ~(weighing[q].order = i /\ k \in DOMAIN weighing[q].undo)
                /\ ~(weighing'[q].order = i /\ k \in DOMAIN weighing'[q].undo)
  PROVE  Committed(i)' = Committed(i)
<1>1. ReadAs(i)
  BY ReadsAreClear
<1>2. ReadAs(i)'
  BY ReadsAreClearNext
<1>3. ASSUME NEW k \in DOMAIN bill[i].items
      PROVE  Committed(i)'[k] = Committed(i)[k]
  <2>1. CASE Locked(i, k)
    <3>1. PICK q \in Requests : weighing[q].order = i /\ k \in DOMAIN weighing[q].undo
      BY <2>1 DEF Locked
    <3>2. weighing'[q] = weighing[q]
      BY <1>3, <3>1
    <3>3. Committed(i)[k] = weighing[q].undo[k]
      BY <1>1, <1>3, <3>1 DEF ReadAs
    <3>4. Committed(i)'[k] = weighing'[q].undo[k]
      BY <1>2, <1>3, <3>1, <3>2 DEF ReadAs
    <3>5. QED
      BY <3>2, <3>3, <3>4
  <2>2. CASE ~Locked(i, k)
    <3>1. ~Locked(i, k)'
      BY <1>3, <2>2 DEF Locked
    <3>2. QED
      BY <1>1, <1>2, <1>3, <2>2, <3>1 DEF ReadAs
  <2>3. QED
    BY <2>1, <2>2
<1>4. /\ Committed(i) = [k \in DOMAIN bill[i].items |-> Committed(i)[k]]
      /\ Committed(i)' = [k \in DOMAIN bill[i].items |-> Committed(i)'[k]]
  BY DEF Committed
<1>5. QED
  BY <1>3, <1>4

\* Another state of a bill with the same sums.
SameSums(b, c) ==
  /\ DOMAIN c.items = DOMAIN b.items /\ Len(c.items) = Len(b.items)
  /\ c.subtotal = b.subtotal /\ c.discount = b.discount /\ c.fee = b.fee
  /\ c.actual = b.actual /\ c.total = b.total

\* Nobody outside sees anything change.
NothingToSee ==
  /\ Ids(bill)' = Ids(bill)
  /\ \A i \in Ids(bill) :
       SameSums(bill[i], bill'[i]) /\ Committed(i)' = Committed(i)
-----------------------------------------------------------------------------
(* An order and its items.                                                 *)

\* ItemsMatchOrder of one bill whose items are read as items.
BooksMatch(b, items) ==
  LET n == Len(b.items)
      owed == positive(b.subtotal - b.discount + b.fee)
  IN /\ 2 * (b.subtotal - subtotalOf(items)) \in -n .. n
     /\ b.actual # Absent => \A k \in DOMAIN b.items : items[k].quantity = b.actual
     /\ IF b.actual = Absent THEN b.total \in owed - 1 .. owed + 1
        ELSE b.total = owed

\* ItemsMatchOrder, order by order.
LEMMA MatchInWords ==
  ItemsMatchOrder <=> \A i \in Ids(bill) : BooksMatch(bill[i], Committed(i))
BY DEF ItemsMatchOrder, BooksMatch

\* The same of the next state.
LEMMA MatchInWordsNext ==
  (ItemsMatchOrder <=> \A i \in Ids(bill) : BooksMatch(bill[i], Committed(i)))'
BY MatchInWords, PTL

\* Bills with the same sums match the same items.
LEMMA SameSumsMatch ==
  ASSUME NEW b, NEW c, SameSums(b, c), NEW items, BooksMatch(b, items)
  PROVE  BooksMatch(c, items)
BY DEF SameSums, BooksMatch

\* As long as there is nothing to see, they match.
LEMMA UnseenMatches ==
  ASSUME ItemsMatchOrder, NothingToSee
  PROVE  ItemsMatchOrder'
<1>1. ASSUME NEW i \in Ids(bill)
      PROVE  BooksMatch(bill'[i], Committed(i)')
  <2>1. BooksMatch(bill[i], Committed(i)) /\ SameSums(bill[i], bill'[i])
        /\ Committed(i)' = Committed(i)
    BY MatchInWords DEF NothingToSee
  <2>2. BooksMatch(bill'[i], Committed(i))
    BY <2>1, SameSumsMatch
  <2>3. QED
    BY <2>1, <2>2
<1>2. QED
  BY <1>1, MatchInWordsNext DEF NothingToSee
-----------------------------------------------------------------------------
(* The steps of a weighing.                                                *)

\* What is left of a list without repetitions.
LEMMA TailOfList ==
  ASSUME NEW S, NEW todo \in Seq(S), todo # <<>>,
         \A m, n \in DOMAIN todo : todo[m] = todo[n] => m = n
  PROVE  /\ Head(todo) \in S
         /\ Head(todo) \in {todo[n] : n \in DOMAIN todo}
         /\ Tail(todo) \in Seq(S)
         /\ \A m, n \in DOMAIN Tail(todo) : Tail(todo)[m] = Tail(todo)[n] => m = n
         /\ {Tail(todo)[n] : n \in DOMAIN Tail(todo)}
              = {todo[n] : n \in DOMAIN todo} \ {Head(todo)}
<1>1. /\ Head(todo) \in S /\ Head(todo) = todo[1]
      /\ Tail(todo) \in Seq(S)
      /\ Len(todo) \in Nat \ {0} /\ DOMAIN todo = 1 .. Len(todo)
      /\ DOMAIN Tail(todo) = 1 .. Len(todo) - 1
      /\ \A n \in 1 .. Len(todo) - 1 : Tail(todo)[n] = todo[n + 1]
  BY HeadTailProperties, LenProperties
<1>2. \A n \in DOMAIN todo : n = 1 \/ (n - 1 \in DOMAIN Tail(todo) /\ todo[n] = Tail(todo)[n - 1])
  BY <1>1
<1>3. \A n \in DOMAIN Tail(todo) :
        n + 1 \in DOMAIN todo /\ Tail(todo)[n] = todo[n + 1] /\ n + 1 # 1
  BY <1>1
<1>4. 1 \in DOMAIN todo
  BY <1>1
<1>5. \A m, n \in DOMAIN Tail(todo) : Tail(todo)[m] = Tail(todo)[n] => m = n
  BY <1>1, <1>3
<1>6. {Tail(todo)[n] : n \in DOMAIN Tail(todo)}
        = {todo[n] : n \in DOMAIN todo} \ {Head(todo)}
  <2> DEFINE rest == Tail(todo)
  <2>1. ASSUME NEW n \in DOMAIN rest
        PROVE  rest[n] \in {todo[m] : m \in DOMAIN todo} \ {todo[1]}
    BY <1>3, <1>4, <2>1
  <2>2. ASSUME NEW n \in DOMAIN todo, todo[n] # todo[1]
        PROVE  todo[n] \in {rest[m] : m \in DOMAIN rest}
    BY <1>2, <2>2
  <2> HIDE DEF rest
  <2>3. {rest[n] : n \in DOMAIN rest} = {todo[n] : n \in DOMAIN todo} \ {todo[1]}
    BY <2>1, <2>2
  <2>4. QED
    BY <1>1, <2>3 DEF rest
<1>7. QED
  BY <1>1, <1>4, <1>5, <1>6

\* A weighing begins with nothing written.
LEMMA BeginKeeps ==
  ASSUME BillInvariant, WeighingInvariant, NEW r \in Requests,
         NEW i \in Ids(bill), NEW weight \in Weights, BeginWeighing(r, i, weight)
  PROVE  WeighingInvariant' /\ NothingToSee
<1>1. PICK todo \in SetToSeqs(DOMAIN bill[i].items) :
        weighing' = [weighing EXCEPT ![r] =
          [order |-> i, weight |-> weight, todo |-> todo, undo |-> <<>>]]
  BY DEF BeginWeighing
<1>2. UNCHANGED bill
  BY DEF BeginWeighing, intakeVars
<1> DEFINE v == [order |-> i, weight |-> weight, todo |-> todo, undo |-> <<>>]
<1>3. bill[i].items \in Seq(Item)
  BY DEF BillInvariant, BillType
<1>4. DOMAIN bill[i].items = 1 .. Len(bill[i].items) /\ Len(bill[i].items) \in Nat
  BY <1>3
<1>5. /\ todo \in Seq(DOMAIN bill[i].items)
      /\ \A m, n \in DOMAIN todo : todo[m] = todo[n] => m = n
      /\ {todo[n] : n \in DOMAIN todo} = DOMAIN bill[i].items
  BY <1>4, EachItemOnce
<1>6. DOMAIN v.undo = {}
  OBVIOUS
<1>7. v.order = i /\ v.weight = weight /\ v.todo = todo /\ v = [order |-> v.order, weight |-> v.weight, todo |-> v.todo, undo |-> v.undo]
  OBVIOUS
<1> HIDE DEF v
<1>8. WeighedOK(v)
  BY <1>5, <1>6, <1>7 DEF WeighedOK, ToWrite
<1>9. WeighedOK(v)'
  BY <1>2, <1>8, WeighedKept
<1>10. \A q \in Requests \ {r} : Apart(v, weighing[q])
  BY <1>6 DEF Apart
<1>11. weighing' = [weighing EXCEPT ![r] = v]
  BY <1>1 DEF v
<1>12. ASSUME NEW q \in Requests \ {r}
       PROVE  (weighing[q] # NoWeighing => WeighedOK(weighing[q]))'
  BY <1>2, <1>11 DEF WeighingInvariant, WeighedOK
<1>13. WeighingInvariant'
  BY <1>9, <1>10, <1>11, <1>12, OthersKept
<1>14. ASSUME NEW j \in Ids(bill)
       PROVE  Committed(j)' = Committed(j)
  <2>1. weighing[r] = NoWeighing
    BY DEF BeginWeighing, Weighing
  <2>2. \A k : k \notin DOMAIN weighing[r].undo
    BY <2>1, LocksAreHeld
  <2>3. weighing'[r] = v /\ \A q \in Requests \ {r} : weighing'[q] = weighing[q]
    BY <1>11 DEF WeighingInvariant
  <2>4. \A k : k \notin DOMAIN weighing'[r].undo
    BY <1>6, <2>3
  <2>5. QED
    BY <1>2, <1>13, <2>2, <2>3, <2>4, SameLocksSameReads
<1>15. QED
  BY <1>2, <1>13, <1>14 DEF NothingToSee, SameSums

\* An item that is written was nobody else's, and is this weighing's from now on.
LEMMA WriteKeeps ==
  ASSUME BillInvariant, WeighingInvariant, NEW r \in Requests, WriteItem(r)
  PROVE  BillInvariant' /\ WeighingInvariant' /\ NothingToSee
<1>1. PICK w, i, k, items, new, v :
        /\ w = weighing[r] /\ i = w.order /\ k = Head(w.todo)
        /\ items = bill[i].items
        /\ new = [n \in DOMAIN items |->
                    IF n \in {k} THEN weighedItem(items[k], w.weight) ELSE items[n]]
        /\ v = [order |-> i, weight |-> w.weight, todo |-> Tail(w.todo),
                undo |-> [n \in {k} \cup DOMAIN w.undo |->
                            IF n = k THEN items[k] ELSE w.undo[n]]]
  OBVIOUS
<1>2. /\ w # NoWeighing /\ WeighedOK(w)
      /\ i \in Ids(bill) /\ k \in DOMAIN items /\ items \in Seq(Item)
      /\ ~Locked(i, k)
      /\ SameGoods(items, new)
      /\ bill' = [bill EXCEPT ![i].items = new]
      /\ weighing' = [weighing EXCEPT ![r] = v]
      /\ UNCHANGED scope
  <2>1. /\ w # NoWeighing /\ w.todo # <<>> /\ ~Locked(i, k)
        /\ bill' = [bill EXCEPT ![i].items[k] = weighedItem(@, w.weight)]
        /\ weighing' = [weighing EXCEPT
             ![r].todo = Tail(@),
             ![r].undo = [n \in {k} \cup DOMAIN @ |->
                IF n = k THEN bill[i].items[k] ELSE @[n]]]
        /\ UNCHANGED scope
    BY <1>1 DEF WriteItem, Weighing
  <2>2. WeighedOK(w)
    BY <1>1, <2>1 DEF WeighingInvariant
  <2>3. i \in Ids(bill) /\ w.weight \in Nat /\ k \in DOMAIN items
    BY <1>1, <2>1, <2>2, TailOfList, WeightsAssumption DEF WeighedOK
  <2>4. items \in Seq(Item) /\ bill[i] \in BillType
    BY <1>1, <2>3 DEF BillInvariant, BillType
  <2>5. SameGoods(items, new)
    <3>1. PICK other : other = [n \in {k} |-> weighedItem(items[k], w.weight)]
      OBVIOUS
    <3>2. new = [n \in DOMAIN items |-> IF n \in {k} THEN other[n] ELSE items[n]]
      BY <1>1, <3>1
    <3>3. items[k] \in Item
      BY <2>3, <2>4
    <3>4. \A n \in {k} : SameGood(items[n], other[n])
      BY <2>3, <3>1, <3>3, ItemWeighed
    <3>5. QED
      BY <2>3, <2>4, <3>2, <3>4, ItemsExchanged
  <2>6. bill' = [bill EXCEPT ![i].items = new]
    <3>1. [items EXCEPT ![k] = weighedItem(items[k], w.weight)] = new
      BY <1>1, <2>4
    <3>2. QED
      BY <1>1, <2>1, <3>1
  <2>7. weighing' = [weighing EXCEPT ![r] = v]
    <3>1. w = [order |-> w.order, weight |-> w.weight, todo |-> w.todo, undo |-> w.undo]
      BY <2>2 DEF WeighedOK
    <3>3. PICK undo : undo = [n \in {k} \cup DOMAIN w.undo |->
                                IF n = k THEN items[k] ELSE w.undo[n]]
      OBVIOUS
    <3>4. [w EXCEPT !.todo = Tail(w.todo), !.undo = undo] = v
      <4>1. v = [order |-> w.order, weight |-> w.weight, todo |-> Tail(w.todo),
                 undo |-> undo]
        BY <1>1, <3>3
      <4>2. [w EXCEPT !.todo = Tail(w.todo), !.undo = undo]
              = [order |-> w.order, weight |-> w.weight, todo |-> Tail(w.todo),
                 undo |-> undo]
        <5>1. PICK todo, m : todo = Tail(w.todo) /\ m = [w EXCEPT !.todo = todo]
          OBVIOUS
        <5>2. m = [order |-> w.order, weight |-> w.weight, todo |-> todo,
                   undo |-> w.undo]
          BY <3>1, <5>1
        <5>3. [m EXCEPT !.undo = undo]
                = [order |-> w.order, weight |-> w.weight, todo |-> todo,
                   undo |-> undo]
          BY <5>2
        <5>4. QED
          BY <5>1, <5>3
      <4>3. QED
        BY <4>1, <4>2
    <3>5. weighing' = [weighing EXCEPT ![r] =
             [w EXCEPT !.todo = Tail(w.todo), !.undo = undo]]
      BY <1>1, <2>1, <3>3 DEF WeighingInvariant
    <3>6. QED
      BY <3>4, <3>5
  <2>8. QED
    BY <2>1, <2>2, <2>3, <2>4, <2>5, <2>6, <2>7
<1>3. /\ BillInvariant'
      /\ Ids(bill)' = Ids(bill)
      /\ bill'[i] = [bill[i] EXCEPT !.items = new]
      /\ \A j \in Ids(bill) \ {i} : bill'[j] = bill[j]
  <2>1. SameGoods(bill[i].items, new)
    BY <1>1, <1>2
  <2>2. QED
    BY <1>2, <2>1, ItemsRewritten
<1>4. bill'[i].items = new
  <2>1. bill[i] \in BillType
    BY <1>2 DEF BillInvariant
  <2>2. QED
    BY <1>3, <2>1 DEF BillType
<1>5. /\ DOMAIN new = DOMAIN items
      /\ new[k] = weighedItem(items[k], w.weight)
      /\ \A n \in DOMAIN items \ {k} : new[n] = items[n]
  BY <1>1, <1>2
<1>6. /\ w.weight \in Weights
      /\ w.todo \in Seq(DOMAIN items)
      /\ \A m, n \in DOMAIN w.todo : w.todo[m] = w.todo[n] => m = n
      /\ DOMAIN w.undo = DOMAIN items \ ToWrite(w)
      /\ \A n \in DOMAIN w.undo :
           w.undo[n] \in Item /\ items[n] = weighedItem(w.undo[n], w.weight)
      /\ w.todo # <<>>
  BY <1>1, <1>2 DEF WeighedOK, WriteItem
<1>7. /\ k \in ToWrite(w)
      /\ Tail(w.todo) \in Seq(DOMAIN items)
      /\ \A m, n \in DOMAIN Tail(w.todo) : Tail(w.todo)[m] = Tail(w.todo)[n] => m = n
      /\ {Tail(w.todo)[n] : n \in DOMAIN Tail(w.todo)} = ToWrite(w) \ {k}
  <2>1. w.todo \in Seq(DOMAIN items) /\ w.todo # <<>>
        /\ \A m, n \in DOMAIN w.todo : w.todo[m] = w.todo[n] => m = n
    BY <1>6
  <2>2. k = Head(w.todo)
    BY <1>1
  <2>3. QED
    BY <2>1, <2>2, TailOfList DEF ToWrite
<1>8. /\ v.order = i /\ v.weight = w.weight /\ v.todo = Tail(w.todo)
      /\ DOMAIN v.undo = {k} \cup DOMAIN w.undo
      /\ v.undo[k] = items[k]
      /\ \A n \in DOMAIN w.undo \ {k} : v.undo[n] = w.undo[n]
      /\ v = [order |-> v.order, weight |-> v.weight, todo |-> v.todo, undo |-> v.undo]
  BY <1>1
<1>9. WeighedOK(v)'
  <2>1. ToWrite(v) = ToWrite(w) \ {k}
    <3>1. ToWrite(v) = {v.todo[n] : n \in DOMAIN v.todo}
      BY DEF ToWrite
    <3>2. v.todo = Tail(w.todo)
      BY <1>8
    <3>3. QED
      BY <1>7, <3>1, <3>2
  <2>2. DOMAIN v.undo = DOMAIN new \ ToWrite(v)
    BY <1>2, <1>5, <1>6, <1>7, <1>8, <2>1
  <2>3. \A n \in DOMAIN v.undo :
          v.undo[n] \in Item /\ new[n] = weighedItem(v.undo[n], w.weight)
    <3>1. items[k] \in Item
      BY <1>2
    <3>2. QED
      BY <1>5, <1>6, <1>8, <3>1
  <2>4. i \in Ids(bill)'
    BY <1>2, <1>3
  <2>5. QED
    BY <1>4, <1>5, <1>6, <1>7, <1>8, <2>2, <2>3, <2>4 DEF WeighedOK
<1>10. ASSUME NEW q \in Requests \ {r}
       PROVE  Apart(v, weighing[q]) /\ (weighing[q] # NoWeighing => WeighedOK(weighing[q]))'
  <2>1. PICK u : u = weighing[q]
    OBVIOUS
  <2>2. weighing'[q] = u
    BY <1>2, <2>1 DEF WeighingInvariant
  <2>3. Apart(w, u)
    BY <1>1, <2>1 DEF WeighingInvariant
  <2>4. u # NoWeighing => WeighedOK(u)
    BY <2>1 DEF WeighingInvariant
  <2>5. u.order = i => k \notin DOMAIN u.undo
    BY <1>2, <2>1 DEF Locked
  <2>6. Apart(v, u)
    BY <1>1, <1>2, <1>8, <2>3, <2>5 DEF Apart
  <2>7. ASSUME u # NoWeighing
        PROVE  WeighedOK(u)'
    <3>1. CASE u.order = i
      <4>1. DOMAIN bill'[u.order].items = DOMAIN bill[u.order].items
        BY <1>1, <1>4, <1>5, <3>1
      <4>2. ASSUME NEW n \in DOMAIN u.undo
            PROVE  bill'[u.order].items[n] = bill[u.order].items[n]
        <5>1. n \in DOMAIN items /\ n # k
          BY <1>1, <2>4, <2>5, <2>7, <3>1 DEF WeighedOK
        <5>2. bill'[i].items[n] = bill[i].items[n]
          BY <1>1, <1>4, <1>5, <5>1
        <5>3. QED
          BY <3>1, <5>2
      <4>3. QED
        BY <1>3, <2>4, <2>7, <4>1, <4>2, WeighedKept
    <3>2. CASE u.order # i
      <4>1. bill'[u.order] = bill[u.order]
        BY <1>3, <2>4, <2>7, <3>2 DEF WeighedOK
      <4>2. QED
        BY <1>3, <2>4, <2>7, <4>1, WeighedKept
    <3>3. QED
      BY <3>1, <3>2
  <2>8. QED
    BY <2>1, <2>2, <2>6, <2>7 DEF WeighedOK
<1>11. WeighingInvariant'
  BY <1>2, <1>9, <1>10, OthersKept
<1>12. weighing'[r] = v /\ \A q \in Requests \ {r} : weighing'[q] = weighing[q]
  BY <1>2 DEF WeighingInvariant
<1>13. ASSUME NEW j \in Ids(bill) \ {i}
       PROVE  Committed(j)' = Committed(j)
  <2>1. bill'[j].items = bill[j].items /\ j \in Ids(bill)'
    BY <1>3
  <2>2. weighing[r].order # j /\ weighing'[r].order # j
    BY <1>1, <1>8, <1>12
  <2>3. QED
    BY <1>11, <1>12, <2>1, <2>2, SameLocksSameReads
<1>14. Committed(i)' = Committed(i)
  <2>1. ReadAs(i) /\ ReadAs(i)'
    BY <1>2, <1>3, <1>11, ReadsAreClear, ReadsAreClearNext
  <2>2. /\ \A n \in DOMAIN items : ~Locked(i, n) => Committed(i)[n] = items[n]
        /\ \A n \in DOMAIN items : \A q \in Requests :
             weighing[q].order = i /\ n \in DOMAIN weighing[q].undo =>
               Committed(i)[n] = weighing[q].undo[n]
    BY <1>1, <2>1 DEF ReadAs
  <2>3. /\ \A n \in DOMAIN items : ~Locked(i, n)' => Committed(i)'[n] = new[n]
        /\ \A n \in DOMAIN items : \A q \in Requests :
             weighing'[q].order = i /\ n \in DOMAIN weighing'[q].undo =>
               Committed(i)'[n] = weighing'[q].undo[n]
    BY <1>4, <1>5, <2>1 DEF ReadAs
  <2>4. Committed(i)'[k] = Committed(i)[k]
    <3>1. Committed(i)[k] = items[k]
      BY <1>2, <2>2
    <3>2. /\ weighing'[r].order = i /\ k \in DOMAIN weighing'[r].undo
          /\ weighing'[r].undo[k] = items[k]
      BY <1>8, <1>12
    <3>3. Committed(i)'[k] = weighing'[r].undo[k]
      BY <1>2, <2>3, <3>2
    <3>4. QED
      BY <3>1, <3>2, <3>3
  <2>5. ASSUME NEW n \in DOMAIN items \ {k}
        PROVE  Committed(i)'[n] = Committed(i)[n]
    <3>1. CASE Locked(i, n)
      <4>1. PICK q \in Requests : weighing[q].order = i /\ n \in DOMAIN weighing[q].undo
        BY <3>1 DEF Locked
      <4>2. /\ weighing'[q].order = i /\ n \in DOMAIN weighing'[q].undo
            /\ weighing'[q].undo[n] = weighing[q].undo[n]
        BY <1>1, <1>8, <1>12, <2>5, <4>1
      <4>3. new[n] = items[n]
        BY <1>5, <2>5
      <4>4. Committed(i)[n] = weighing[q].undo[n]
        BY <2>2, <2>5, <4>1
      <4>5. Committed(i)'[n] = weighing'[q].undo[n]
        BY <2>3, <2>5, <4>2
      <4>6. QED
        BY <4>2, <4>3, <4>4, <4>5
    <3>2. CASE ~Locked(i, n)
      <4>1. ~Locked(i, n)'
        BY <1>1, <1>8, <1>12, <2>5, <3>2 DEF Locked
      <4>2. QED
        BY <1>5, <2>2, <2>3, <2>5, <3>2, <4>1
    <3>3. QED
      BY <3>1, <3>2
  <2>6. /\ Committed(i) = [n \in DOMAIN items |-> Committed(i)[n]]
        /\ Committed(i)' = [n \in DOMAIN items |-> Committed(i)'[n]]
    <3>1. /\ Committed(i) = [n \in DOMAIN bill[i].items |-> Committed(i)[n]]
          /\ Committed(i)' = [n \in DOMAIN bill'[i].items |-> Committed(i)'[n]]
      BY DEF Committed
    <3>2. DOMAIN bill[i].items = DOMAIN items /\ DOMAIN bill'[i].items = DOMAIN items
      BY <1>1, <1>4, <1>5
    <3>3. QED
      BY <3>1, <3>2
  <2>7. QED
    BY <2>4, <2>5, <2>6
<1>15. \A j \in Ids(bill) : SameSums(bill[j], bill'[j])
  <2>1. bill[i] \in BillType
    BY <1>2 DEF BillInvariant
  <2>2. Len(new) = Len(items)
    BY <1>2, SameGoodsLen
  <2>3. SameSums(bill[i], bill'[i])
    BY <1>1, <1>3, <1>4, <1>5, <2>1, <2>2 DEF SameSums, BillType
  <2>4. QED
    BY <1>3, <2>3 DEF SameSums
<1>16. QED
  BY <1>3, <1>11, <1>13, <1>14, <1>15 DEF NothingToSee

\* What a weighing that ends leaves behind: nobody else holds its items.
LEMMA EndKeeps ==
  ASSUME BillInvariant, WeighingInvariant, NEW r \in Requests,
         weighing[r] # NoWeighing,
         NEW i, i = weighing[r].order, i \in Ids(bill),
         weighing' = [weighing EXCEPT ![r] = NoWeighing],
         Ids(bill)' = Ids(bill),
         \A j \in Ids(bill) \ {i} : bill'[j] = bill[j],
         DOMAIN bill'[i].items = DOMAIN bill[i].items,
         \A k \in DOMAIN bill[i].items \ DOMAIN weighing[r].undo :
           bill'[i].items[k] = bill[i].items[k]
  PROVE  WeighingInvariant'
<1>1. ASSUME NEW q \in Requests \ {r}
      PROVE  /\ Apart(NoWeighing, weighing[q])
             /\ (weighing[q] # NoWeighing => WeighedOK(weighing[q]))'
  <2>1. PICK u : u = weighing[q]
    OBVIOUS
  <2>2. weighing'[q] = u
    BY <2>1 DEF WeighingInvariant
  <2>3. ASSUME u # NoWeighing
        PROVE  WeighedOK(u)'
    <3>1. WeighedOK(u) /\ Apart(weighing[r], u)
      BY <2>1, <2>3 DEF WeighingInvariant
    <3>2. CASE u.order = i
      <4>1. \A k \in DOMAIN u.undo :
              k \in DOMAIN bill[i].items \ DOMAIN weighing[r].undo
        BY <2>3, <3>1, <3>2 DEF WeighedOK, Apart
      <4>2. QED
        BY <3>1, <3>2, <4>1, WeighedKept
    <3>3. CASE u.order # i
      <4>1. bill'[u.order] = bill[u.order]
        BY <3>1, <3>3 DEF WeighedOK
      <4>2. QED
        BY <3>1, <4>1, WeighedKept
    <3>4. QED
      BY <3>2, <3>3
  <2>4. QED
    BY <2>1, <2>2, <2>3 DEF WeighedOK, Apart
<1>2. QED
  BY <1>1, OthersKept

\* A weighing that is rolled back puts back what its items held.
LEMMA AbortKeeps ==
  ASSUME BillInvariant, WeighingInvariant, NEW r \in Requests, AbortWeighing(r)
  PROVE  BillInvariant' /\ WeighingInvariant' /\ NothingToSee
<1>1. PICK w, i, items, new :
        /\ w = weighing[r] /\ i = w.order /\ items = bill[i].items
        /\ new = Undone(items, w)
  OBVIOUS
<1>2. /\ w # NoWeighing
      /\ bill' = [bill EXCEPT ![i].items = new]
      /\ weighing' = [weighing EXCEPT ![r] = NoWeighing]
      /\ UNCHANGED scope
  BY <1>1 DEF AbortWeighing, Weighing
<1>3. WeighedOK(w)
  BY <1>1, <1>2 DEF WeighingInvariant
<1>4. /\ i \in Ids(bill)
      /\ DOMAIN w.undo \subseteq DOMAIN items
      /\ w.weight \in Nat
      /\ \A k \in DOMAIN w.undo :
           w.undo[k] \in Item /\ items[k] = weighedItem(w.undo[k], w.weight)
  BY <1>1, <1>3, WeightsAssumption DEF WeighedOK
<1>5. items \in Seq(Item) /\ bill[i] \in BillType
  BY <1>1, <1>4 DEF BillInvariant, BillType
<1>6. SameGoods(items, new)
  <2>1. PICK other, K : other = w.undo /\ K = DOMAIN w.undo
    OBVIOUS
  <2>2. new = [k \in DOMAIN items |-> IF k \in K THEN other[k] ELSE items[k]]
    BY <1>1, <2>1 DEF Undone
  <2>3. K \in SUBSET DOMAIN items /\ \A k \in K : SameGood(items[k], other[k])
    <3>1. ASSUME NEW k \in K
          PROVE  SameGood(items[k], other[k])
      <4>1. other[k] \in Item /\ items[k] = weighedItem(other[k], w.weight)
        BY <1>4, <2>1, <3>1
      <4>2. QED
        BY <1>4, <4>1, ItemWeighed DEF SameGood
    <3>2. QED
      BY <1>4, <2>1, <3>1
  <2>4. QED
    BY <1>5, <2>2, <2>3, ItemsExchanged
<1>7. /\ BillInvariant'
      /\ Ids(bill)' = Ids(bill)
      /\ bill'[i] = [bill[i] EXCEPT !.items = new]
      /\ \A j \in Ids(bill) \ {i} : bill'[j] = bill[j]
  <2>1. SameGoods(bill[i].items, new)
    BY <1>1, <1>6
  <2>2. QED
    BY <1>2, <1>4, <2>1, ItemsRewritten
<1>8. bill'[i].items = new
  BY <1>5, <1>7 DEF BillType
<1>9. /\ DOMAIN new = DOMAIN items
      /\ \A k \in DOMAIN items \ DOMAIN w.undo : new[k] = items[k]
  BY <1>1 DEF Undone
<1>10. /\ DOMAIN bill'[i].items = DOMAIN bill[i].items
       /\ \A k \in DOMAIN bill[i].items \ DOMAIN weighing[r].undo :
            bill'[i].items[k] = bill[i].items[k]
  BY <1>1, <1>8, <1>9
<1>11. WeighingInvariant'
  <2>1. weighing[r] # NoWeighing /\ i = weighing[r].order
    BY <1>1, <1>2
  <2>2. i \in Ids(bill)
    BY <1>4
  <2>3. /\ weighing' = [weighing EXCEPT ![r] = NoWeighing]
        /\ Ids(bill)' = Ids(bill)
        /\ \A j \in Ids(bill) \ {i} : bill'[j] = bill[j]
    BY <1>2, <1>7
  <2>4. QED
    BY <1>10, <2>1, <2>2, <2>3, EndKeeps
<1>12. weighing'[r] = NoWeighing /\ \A q \in Requests \ {r} : weighing'[q] = weighing[q]
  BY <1>2 DEF WeighingInvariant
<1>13. ASSUME NEW j \in Ids(bill) \ {i}
       PROVE  Committed(j)' = Committed(j)
  <2>1. bill'[j].items = bill[j].items /\ j \in Ids(bill)'
    BY <1>7
  <2>2. weighing[r].order # j /\ \A k : k \notin DOMAIN weighing'[r].undo
    BY <1>1, <1>12, LocksAreHeld
  <2>3. QED
    BY <1>11, <1>12, <2>1, <2>2, SameLocksSameReads
<1>14. Committed(i)' = Committed(i)
  <2>1. ReadAs(i) /\ ReadAs(i)'
    BY <1>4, <1>7, <1>11, ReadsAreClear, ReadsAreClearNext
  <2>2. /\ \A n \in DOMAIN items : ~Locked(i, n) => Committed(i)[n] = items[n]
        /\ \A n \in DOMAIN items : \A q \in Requests :
             weighing[q].order = i /\ n \in DOMAIN weighing[q].undo =>
               Committed(i)[n] = weighing[q].undo[n]
    BY <1>1, <2>1 DEF ReadAs
  <2>3. /\ \A n \in DOMAIN items : ~Locked(i, n)' => Committed(i)'[n] = new[n]
        /\ \A n \in DOMAIN items : \A q \in Requests :
             weighing'[q].order = i /\ n \in DOMAIN weighing'[q].undo =>
               Committed(i)'[n] = weighing'[q].undo[n]
    BY <1>8, <1>9, <2>1 DEF ReadAs
  <2>4. ASSUME NEW n \in DOMAIN w.undo
        PROVE  Committed(i)'[n] = Committed(i)[n]
    <3>1. ~Locked(i, n)'
      <4>1. n \notin DOMAIN weighing'[r].undo
        BY <1>12, LocksAreHeld
      <4>2. ASSUME NEW q \in Requests \ {r}, weighing[q].order = i
            PROVE  n \notin DOMAIN weighing[q].undo
        <5>1. Apart(w, weighing[q])
          BY <1>1 DEF WeighingInvariant
        <5>2. QED
          BY <1>1, <1>2, <2>4, <4>2, <5>1, LocksAreHeld DEF Apart
      <4>3. QED
        BY <1>12, <4>1, <4>2 DEF Locked
    <3>2. Committed(i)'[n] = new[n]
      BY <1>4, <2>3, <2>4, <3>1
    <3>3. new[n] = w.undo[n]
      BY <1>1, <1>4, <2>4 DEF Undone
    <3>4. QED
      BY <1>1, <1>4, <2>2, <2>4, <3>2, <3>3
  <2>5. ASSUME NEW n \in DOMAIN items \ DOMAIN w.undo
        PROVE  Committed(i)'[n] = Committed(i)[n]
    <3>1. new[n] = items[n]
      BY <1>9, <2>5
    <3>2. CASE Locked(i, n)
      <4>1. PICK q \in Requests : weighing[q].order = i /\ n \in DOMAIN weighing[q].undo
        BY <3>2 DEF Locked
      <4>2. weighing'[q] = weighing[q]
        BY <1>1, <1>12, <2>5, <4>1
      <4>3. Committed(i)[n] = weighing[q].undo[n]
        BY <2>2, <2>5, <4>1
      <4>4. Committed(i)'[n] = weighing'[q].undo[n]
        BY <2>3, <2>5, <4>1, <4>2
      <4>5. QED
        BY <3>1, <4>2, <4>3, <4>4
    <3>3. CASE ~Locked(i, n)
      <4>1. n \notin DOMAIN weighing'[r].undo
        BY <1>12, LocksAreHeld
      <4>2. ~Locked(i, n)'
        BY <1>12, <3>3, <4>1 DEF Locked
      <4>3. QED
        BY <2>2, <2>3, <2>5, <3>1, <3>3, <4>2
    <3>4. QED
      BY <3>2, <3>3
  <2>6. /\ Committed(i) = [n \in DOMAIN items |-> Committed(i)[n]]
        /\ Committed(i)' = [n \in DOMAIN items |-> Committed(i)'[n]]
    <3>1. /\ Committed(i) = [n \in DOMAIN bill[i].items |-> Committed(i)[n]]
          /\ Committed(i)' = [n \in DOMAIN bill'[i].items |-> Committed(i)'[n]]
      BY DEF Committed
    <3>2. DOMAIN bill[i].items = DOMAIN items /\ DOMAIN bill'[i].items = DOMAIN items
      BY <1>1, <1>8, <1>9
    <3>3. QED
      BY <3>1, <3>2
  <2>7. QED
    BY <2>4, <2>5, <2>6
<1>15. \A j \in Ids(bill) : SameSums(bill[j], bill'[j])
  <2>1. Len(new) = Len(items)
    BY <1>5, <1>6, SameGoodsLen
  <2>2. SameSums(bill[i], bill'[i])
    BY <1>1, <1>5, <1>7, <1>8, <1>9, <2>1 DEF SameSums, BillType
  <2>3. QED
    BY <1>7, <2>2 DEF SameSums
<1>16. QED
  BY <1>7, <1>11, <1>13, <1>14, <1>15 DEF NothingToSee

\* A list has as many places as it is long.
LEMMA DomainOfList ==
  ASSUME NEW S, NEW list \in Seq(S)
  PROVE  IsFiniteSet(DOMAIN list) /\ Cardinality(DOMAIN list) = Len(list)
<1>1. PICK n \in Nat : n = Len(list) /\ DOMAIN list = 1 .. n
  OBVIOUS
<1>2. IsFiniteSet(1 .. n) /\ Cardinality(1 .. n) = n
  BY FS_Interval
<1>3. QED
  BY <1>1, <1>2

\* What items come to at a weight, and what is left of it, as stored.
LEMMA WeighedSums ==
  ASSUME NEW items \in Seq(Item), NEW weight \in Nat, NEW m \in Int,
         \A k \in DOMAIN items : items[k].subtotal = rounded(items[k].price * weight, Part)
  PROVE  LET subtotal == rounded(priceOf(items, weight), Part)
             n == Len(items)
         IN /\ subtotal \in Nat
            /\ 2 * (subtotal - subtotalOf(items)) \in -n .. n
            /\ rounded(positive(priceOf(items, weight) + Part * m), Part)
                 = positive(subtotal + m)
<1>1. PICK cost, kept :
        /\ cost = [k \in DOMAIN items |-> items[k].price * weight]
        /\ kept = [k \in DOMAIN items |-> items[k].subtotal]
  OBVIOUS
<1>2. \A k \in DOMAIN items : items[k] \in Item
  OBVIOUS
<1>3. \A k \in DOMAIN items : cost[k] \in Nat /\ kept[k] = rounded(cost[k], Part)
  BY <1>1, <1>2 DEF Item
<1>4. /\ IsFiniteSet(DOMAIN items) /\ Cardinality(DOMAIN items) = Len(items)
      /\ DOMAIN cost = DOMAIN items /\ DOMAIN kept = DOMAIN items
  BY <1>1, DomainOfList
<1>5. priceOf(items, weight) = SumFunctionOnSet(cost, DOMAIN items)
      /\ subtotalOf(items) = SumFunctionOnSet(kept, DOMAIN items)
  BY <1>1, <1>4 DEF priceOf, subtotalOf, SumFunction
<1>6. PICK price \in Nat : price = priceOf(items, weight)
  BY <1>3, <1>4, <1>5, SumType
<1>7. PICK parts \in Nat \ {0} : parts = Part
  BY PartIsPositive
<1>8. 2 * (rounded(price, Part) - subtotalOf(items)) \in -Len(items) .. Len(items)
  BY <1>3, <1>4, <1>5, <1>6, PartIsPositive, SumRounds
<1>9. rounded(price, Part) \in Nat
  BY ColumnsAreNat
<1>10. rounded(positive(price + parts * m), parts) = positive(rounded(price, parts) + m)
  BY RoundedRest
<1>11. QED
  BY <1>6, <1>7, <1>8, <1>9, <1>10

\* A weighing that commits has written all the items, and its sums are theirs.
LEMMA CommitKeeps ==
  ASSUME BillInvariant, WeighingInvariant, ItemsMatchOrder,
         NEW r \in Requests, CommitWeighing(r)
  PROVE  BillInvariant' /\ WeighingInvariant' /\ ItemsMatchOrder'
<1>1. PICK w, i, b, weight, subtotal, total, new :
        /\ w = weighing[r] /\ i = w.order /\ b = bill[i]
        /\ weight = rounded(w.weight, Grain)
        /\ subtotal = rounded(priceOf(b.items, w.weight), Part)
        /\ total = rounded(positive(priceOf(b.items, w.weight)
                                     + Part * (b.fee - b.discount)), Part)
        /\ new = [b EXCEPT !.subtotal = subtotal, !.actual = weight, !.total = total]
  OBVIOUS
<1>2. /\ w # NoWeighing /\ w.todo = <<>>
      /\ bill' = [bill EXCEPT ![i].subtotal = subtotal, ![i].actual = weight,
                              ![i].total = total]
      /\ weighing' = [weighing EXCEPT ![r] = NoWeighing]
      /\ UNCHANGED scope
  BY <1>1 DEF CommitWeighing, Weighing
<1>3. WeighedOK(w)
  BY <1>1, <1>2 DEF WeighingInvariant
<1>4. i \in Ids(bill) /\ w.weight \in Nat
  BY <1>1, <1>3, WeightsAssumption DEF WeighedOK
<1>5. b \in BillType /\ ChargeOK(b)
  BY <1>1, <1>4 DEF BillInvariant
<1>6. bill' = [bill EXCEPT ![i] = new]
  BY <1>1, <1>2
<1>7. b.items \in Seq(Item) /\ b.discount \in Nat /\ b.fee \in Nat
  BY <1>5 DEF BillType
<1>8. /\ DOMAIN w.undo = DOMAIN b.items
      /\ \A k \in DOMAIN b.items :
           /\ b.items[k].quantity = weight
           /\ b.items[k].subtotal = rounded(b.items[k].price * w.weight, Part)
  <2>1. ToWrite(w) = {}
    BY <1>2 DEF ToWrite
  <2>2. /\ DOMAIN w.undo = DOMAIN b.items
        /\ \A k \in DOMAIN b.items :
             w.undo[k] \in Item /\ b.items[k] = weighedItem(w.undo[k], w.weight)
    BY <1>1, <1>3, <2>1 DEF WeighedOK
  <2>3. ASSUME NEW k \in DOMAIN b.items
        PROVE  /\ b.items[k].quantity = weight
               /\ b.items[k].subtotal = rounded(b.items[k].price * w.weight, Part)
    BY <1>1, <1>4, <2>2, ItemWeighed DEF SameGood
  <2>4. QED
    BY <2>2, <2>3
<1>9. /\ weight \in Nat /\ subtotal \in Nat
      /\ 2 * (subtotal - subtotalOf(b.items)) \in -Len(b.items) .. Len(b.items)
      /\ total = positive(subtotal - b.discount + b.fee) /\ total \in Nat
  <2>1. weight \in Nat
    BY <1>1, <1>4, ColumnsAreNat
  <2>2. PICK m \in Int : m = b.fee - b.discount
    BY <1>7
  <2>3. /\ subtotal \in Nat
        /\ 2 * (subtotal - subtotalOf(b.items)) \in -Len(b.items) .. Len(b.items)
        /\ total = positive(subtotal + m)
    <3>1. PICK items, given : items = b.items /\ given = w.weight
      OBVIOUS
    <3>2. /\ items \in Seq(Item) /\ given \in Nat
          /\ \A k \in DOMAIN items : items[k].subtotal = rounded(items[k].price * given, Part)
      BY <1>4, <1>7, <1>8, <3>1
    <3>3. /\ rounded(priceOf(items, given), Part) \in Nat
          /\ 2 * (rounded(priceOf(items, given), Part) - subtotalOf(items))
               \in -Len(items) .. Len(items)
          /\ rounded(positive(priceOf(items, given) + Part * m), Part)
               = positive(rounded(priceOf(items, given), Part) + m)
      BY <3>2, WeighedSums
    <3>4. subtotal = rounded(priceOf(items, given), Part)
          /\ total = rounded(positive(priceOf(items, given) + Part * m), Part)
      BY <1>1, <2>2, <3>1
    <3>5. QED
      BY <3>1, <3>3, <3>4
  <2>4. subtotal + m = subtotal - b.discount + b.fee
    BY <1>7, <2>2, <2>3
  <2>5. positive(subtotal + m) \in Nat
    BY <2>2, <2>3 DEF positive
  <2>6. QED
    BY <2>1, <2>3, <2>4, <2>5
<1>10. /\ new \in BillType
       /\ new.items = b.items /\ new.since = b.since /\ new.discount = b.discount
       /\ new.fee = b.fee /\ new.legs = b.legs /\ new.ask = b.ask
       /\ new.subtotal = subtotal /\ new.actual = weight /\ new.total = total
  BY <1>1, <1>5, <1>9 DEF BillType
<1>11. ChargeOK(new)
  <2>1. SameGoods(b.items, new.items)
    BY <1>7, <1>10 DEF SameGoods
  <2>2. QED
    BY <1>5, <1>10, <2>1, StillCharged
<1>12. /\ Ids(bill)' = Ids(bill) /\ Numbered(bill)'
       /\ bill'[i] = new
       /\ \A j \in Ids(bill) \ {i} : bill'[j] = bill[j]
  BY <1>4, <1>6 DEF Ids, Numbered, BillInvariant
<1>13. BillInvariant'
  <2>1. ASSUME NEW j \in Ids(bill)
        PROVE  (bill[j] \in BillType /\ ChargeOK(bill[j]))'
    <3>1. PICK c : c = bill'[j]
      OBVIOUS
    <3>2. c \in BillType /\ ChargeOK(c)
      BY <1>10, <1>11, <1>12, <3>1 DEF BillInvariant
    <3>3. ChargeOK(c)'
      BY <1>2, <3>2, ChargeStands
    <3>4. QED
      BY <3>1, <3>2, <3>3 DEF ChargeOK
  <2>2. QED
    BY <1>12, <2>1 DEF BillInvariant
<1>14. bill'[i].items = bill[i].items
  BY <1>1, <1>10, <1>12
<1>15. WeighingInvariant'
  <2>1. weighing[r] # NoWeighing /\ i = weighing[r].order
    BY <1>1, <1>2
  <2>2. QED
    BY <1>2, <1>4, <1>12, <1>14, <2>1, EndKeeps
<1>20. weighing[r] = w /\ weighing[r].order = i /\ bill[i] = b /\ bill'[i] = new
  BY <1>1, <1>12
<1>21. weighing'[r] = NoWeighing /\ \A q \in Requests \ {r} : weighing'[q] = weighing[q]
  BY <1>2 DEF WeighingInvariant
<1>22. ASSUME NEW j \in Ids(bill) \ {i}
       PROVE  Committed(j)' = Committed(j)
  <2>1. bill'[j].items = bill[j].items /\ j \in Ids(bill)'
    BY <1>12
  <2>2. weighing[r].order # j /\ \A k : k \notin DOMAIN weighing'[r].undo
    BY <1>20, <1>21, LocksAreHeld
  <2>3. QED
    BY <1>15, <1>21, <2>1, <2>2, SameLocksSameReads
<1>23. Committed(i)' = new.items
  <2>1. ReadAs(i)'
    BY <1>4, <1>12, <1>15, ReadsAreClearNext
  <2>2. ASSUME NEW k \in DOMAIN new.items
        PROVE  Committed(i)'[k] = new.items[k]
    <3>1. k \notin DOMAIN weighing'[r].undo
      BY <1>21, LocksAreHeld
    <3>2. ASSUME NEW q \in Requests \ {r}, weighing[q].order = i
          PROVE  k \notin DOMAIN weighing[q].undo
      <4>1. Apart(w, weighing[q])
        BY <1>20 DEF WeighingInvariant
      <4>2. k \in DOMAIN w.undo
        BY <1>8, <1>10, <2>2
      <4>3. QED
        BY <1>2, <1>20, <3>2, <4>1, <4>2, LocksAreHeld DEF Apart
    <3>3. ~Locked(i, k)'
      BY <1>21, <3>1, <3>2 DEF Locked
    <3>4. QED
      BY <1>20, <2>1, <2>2, <3>3 DEF ReadAs
  <2>3. Committed(i)' = [k \in DOMAIN new.items |-> Committed(i)'[k]]
    BY <1>20 DEF Committed
  <2>4. new.items = [k \in DOMAIN new.items |-> new.items[k]]
    BY <1>7, <1>10
  <2>5. QED
    BY <2>2, <2>3, <2>4
<1>25. BooksMatch(new, new.items)
  <2>1. weight # Absent
    BY <1>9 DEF Absent
  <2>2. 2 * (new.subtotal - subtotalOf(new.items)) \in -Len(new.items) .. Len(new.items)
    BY <1>9, <1>10
  <2>3. \A k \in DOMAIN new.items : new.items[k].quantity = new.actual
    BY <1>8, <1>10
  <2>4. new.total = positive(new.subtotal - new.discount + new.fee)
    BY <1>9, <1>10
  <2>5. QED
    BY <1>10, <2>1, <2>2, <2>3, <2>4 DEF BooksMatch
<1>26. BooksMatch(bill'[i], Committed(i)')
  BY <1>20, <1>23, <1>25
<1>27. \A j \in Ids(bill) \ {i} : BooksMatch(bill'[j], Committed(j)')
  BY <1>12, <1>22, MatchInWords
<1>28. QED
  BY <1>12, <1>13, <1>15, <1>26, <1>27, MatchInWordsNext

-----------------------------------------------------------------------------
(* All the steps.                                                          *)

\* The items of a quote as they are stored, and the subtotal that is.
LEMMA StoredSums ==
  ASSUME NEW items \in Seq(Item), NEW new,
         new = [k \in DOMAIN items |-> storedItem(items[k])]
  PROVE  /\ SameGoods(items, new)
         /\ 2 * (rounded(subtotalOf(items), Part) - subtotalOf(new)) \in -Len(new) .. Len(new)
<1>1. \A k \in DOMAIN items : items[k] \in Item
  OBVIOUS
<1>2. ASSUME NEW item \in Item
      PROVE  /\ SameGood(item, storedItem(item))
             /\ storedItem(item).subtotal = rounded(item.subtotal, Part)
  <2>1. PICK quantity \in Nat, subtotal \in Nat :
          quantity = rounded(item.quantity, Grain) /\ subtotal = rounded(item.subtotal, Part)
    <3>1. PICK n \in Nat, m \in Nat : n = item.quantity /\ m = item.subtotal
      BY DEF Item
    <3>2. rounded(n, Grain) \in Nat /\ rounded(m, Part) \in Nat
      BY ColumnsAreNat
    <3>3. QED
      BY <3>1, <3>2
  <2>2. storedItem(item)
          = [service |-> item.service, price |-> item.price, quantity |-> quantity,
             subtotal |-> subtotal]
    <3>1. storedItem(item)
            = [item EXCEPT !.quantity = quantity, !.subtotal = subtotal]
      BY <2>1 DEF storedItem
    <3>2. QED
      BY <3>1 DEF Item
  <2>3. QED
    BY <2>1, <2>2 DEF SameGood, Item
<1>3. SameGoods(items, new)
  <2>1. PICK K, other : K = DOMAIN items /\ other = new
    OBVIOUS
  <2>2. new = [k \in DOMAIN items |-> IF k \in K THEN other[k] ELSE items[k]]
    BY <2>1
  <2>3. K \in SUBSET DOMAIN items /\ \A k \in K : SameGood(items[k], other[k])
    BY <1>1, <1>2, <2>1
  <2>4. QED
    BY ONLY <2>2, <2>3, items \in Seq(Item), ItemsExchanged
<1>4. Len(new) = Len(items)
  BY <1>3, SameGoodsLen
<1>5. PICK cost, kept :
        /\ cost = [k \in DOMAIN items |-> items[k].subtotal]
        /\ kept = [k \in DOMAIN new |-> new[k].subtotal]
  OBVIOUS
<1>6. /\ IsFiniteSet(DOMAIN items) /\ Cardinality(DOMAIN items) = Len(items)
      /\ DOMAIN cost = DOMAIN items /\ DOMAIN kept = DOMAIN items
  BY <1>3, <1>5, DomainOfList DEF SameGoods
<1>7. \A k \in DOMAIN items : cost[k] \in Nat /\ kept[k] = rounded(cost[k], Part)
  BY <1>1, <1>2, <1>5 DEF Item
<1>8. subtotalOf(items) = SumFunctionOnSet(cost, DOMAIN items)
      /\ subtotalOf(new) = SumFunctionOnSet(kept, DOMAIN items)
  BY <1>5, <1>6 DEF subtotalOf, SumFunction
<1>9. 2 * (rounded(subtotalOf(items), Part) - subtotalOf(new))
        \in -Len(items) .. Len(items)
  BY <1>6, <1>7, <1>8, PartIsPositive, SumRounds
<1>10. QED
  BY <1>3, <1>4, <1>9

\* What was added up is billed.
LEMMA PlaceKeeps ==
  ASSUME QuoteInvariant, BillInvariant, WeighingInvariant, ItemsMatchOrder,
         NEW r \in Requests, PlaceBilledOrder(r), UNCHANGED weighing
  PROVE  BillInvariant' /\ WeighingInvariant' /\ ItemsMatchOrder'
<1>1. PICK q, legs, b, new :
        /\ q = quote[r] /\ legs = legsOf(call[r]) /\ b = billOf(q, legs)
        /\ new = NextId(bill)
  OBVIOUS
<1>2. q.reads = "no more" /\ bill' = Insert(bill, b) /\ UNCHANGED scope
  BY <1>1 DEF PlaceBilledOrder
<1>3. QuoteOK(q, legs)
  <2>1. NoQuote.reads # "no more"
    BY DEF NoQuote
  <2>2. q # NoQuote
    BY <1>2, <2>1
  <2>3. QED
    BY <1>1, <2>2 DEF QuoteInvariant, QuoteHeld
<1>4. /\ q \in QuoteType /\ Sold(q.items, q.since) /\ Priced(q.items, q.ask)
      /\ FeeOK(q.fee, legs)
      /\ \E catalogue \in q.since :
           q.discount = discountFor(q.ask, catalogue, subtotalOf(q.items))
  BY <1>2, <1>3 DEF QuoteOK
<1>5. /\ q.ask \in Ask /\ q.items \in Seq(Item) /\ q.discount \in Nat
      /\ q.fee \in Nat /\ q.since \in SUBSET Catalogues /\ legs \in SUBSET Legs
  BY <1>1, <1>4 DEF QuoteType, legsOf
<1>6. PICK cost, items, subtotal, off, total :
        /\ cost = subtotalOf(q.items)
        /\ items = [k \in DOMAIN q.items |-> storedItem(q.items[k])]
        /\ subtotal = rounded(cost, Part) /\ off = rounded(q.discount, Fine)
        /\ total = orderTotal(cost, q.discount, q.fee, Part)
  OBVIOUS
<1>7. /\ cost \in Nat /\ subtotal \in Nat /\ off \in Nat /\ total \in Nat
      /\ LET owed == positive(subtotal - off + q.fee)
         IN total \in owed - 1 .. owed + 1
  <2>1. cost \in Nat
    BY <1>5, <1>6, SubtotalIsNat
  <2>2. subtotal \in Nat /\ off \in Nat
    BY <1>5, <1>6, <2>1, ColumnsAreNat
  <2>3. PICK one \in Nat \ {0}, c \in Nat, o \in Nat, fee \in Nat :
          one = Part /\ c = cost /\ o = q.discount /\ fee = q.fee
    BY <1>5, <2>1, PartIsPositive
  <2>4. LET owed == positive(rounded(c, one) - rounded(o, 10000 * one) + fee)
        IN /\ orderTotal(c, o, fee, one) \in Nat
           /\ orderTotal(c, o, fee, one) \in owed - 1 .. owed + 1
    BY TotalRounds
  <2>5. Fine = 10000 * one
    BY <2>3, PartIsPositive
  <2>6. /\ rounded(c, one) = subtotal /\ rounded(o, 10000 * one) = off
        /\ orderTotal(c, o, fee, one) = total
    BY <1>6, <2>3, <2>5
  <2>7. QED
    BY <2>1, <2>2, <2>3, <2>4, <2>6
<1>8. b = [ask |-> q.ask, legs |-> legs, items |-> items, subtotal |-> subtotal,
           discount |-> off, fee |-> q.fee, total |-> total, actual |-> Absent,
           since |-> q.since]
  BY <1>1, <1>6 DEF billOf
<1>18. /\ SameGoods(q.items, items)
       /\ 2 * (subtotal - subtotalOf(items)) \in -Len(items) .. Len(items)
  BY <1>5, <1>6, StoredSums
<1>9. b \in BillType
  BY <1>5, <1>7, <1>8, <1>18 DEF BillType, SameGoods
<1>10. /\ b.items = items /\ b.since = q.since /\ b.subtotal = subtotal
       /\ b.ask = q.ask /\ b.discount = off /\ b.fee = q.fee
       /\ b.legs = legs /\ b.actual = Absent /\ b.total = total
  BY <1>8
<1>11. ChargeOK(b)
  <2>1. Sold(b.items, b.since)
    BY <1>4, <1>10, <1>18, StillSold
  <2>2. Asked(b) = cost
    <3>1. [k \in DOMAIN b.items |->
             b.items[k].price * itemQuantity(b.ask.lines[k].given, b.ask.estimated, Part)]
          = [k \in DOMAIN q.items |-> q.items[k].subtotal]
      BY <1>4, <1>10, <1>18 DEF SameGoods, Priced
    <3>2. QED
      BY <1>6, <3>1 DEF Asked, subtotalOf
  <2>3. PICK catalogue \in q.since :
          q.discount = discountFor(q.ask, catalogue, cost)
    BY <1>4, <1>6
  <2>4. b.ask.membership \in 0 .. Len(Memberships) /\ b.ask.discount \in Nat
    <3>1. q.ask.membership \in 0 .. Len(Memberships)
      BY <1>1 DEF PlaceBilledOrder
    <3>2. q.ask.discount \in Nat
      BY <1>5 DEF Ask
    <3>3. QED
      BY <1>10, <3>1, <3>2
  <2>5. b.discount = rounded(discountFor(b.ask, catalogue, Asked(b)), Fine)
    BY <1>6, <1>10, <2>2, <2>3
  <2>6. catalogue \in Catalogues
    BY <1>5
  <2>7. DiscountIsGiven(b, catalogue)
    BY <1>7, <2>2, <2>4, <2>5, <2>6, DiscountRounds
  <2>8. QED
    BY <1>4, <1>10, <2>1, <2>3, <2>7 DEF ChargeOK
<1>12. /\ Numbered(bill)'
       /\ new \in Nat \ {0} /\ new \notin Ids(bill)
       /\ Ids(bill)' = Ids(bill) \cup {new}
       /\ \A j \in Ids(bill) : bill'[j] = bill[j]
       /\ bill'[new] = b
  <2>1. PICK table : table = Insert(bill, b)
    OBVIOUS
  <2>2. Numbered(bill)
    BY DEF BillInvariant
  <2>3. /\ Numbered(table)
        /\ new \in Nat \ {0} /\ new \notin Ids(bill)
        /\ Ids(table) = Ids(bill) \cup {new}
        /\ \A j \in Ids(bill) : table[j] = bill[j]
        /\ table[new] = b
    BY <1>1, <2>1, <2>2, InsertKeeps
  <2>4. bill' = table
    BY <1>2, <2>1
  <2>5. Numbered(bill)' /\ Ids(bill)' = Ids(table)
    BY <2>3, <2>4 DEF Numbered, Ids
  <2>6. QED
    BY <2>3, <2>4, <2>5
<1>13. BillInvariant'
  <2>1. ASSUME NEW j \in Ids(bill)'
        PROVE  (bill[j] \in BillType /\ ChargeOK(bill[j]))'
    <3>1. PICK c : c = bill'[j]
      OBVIOUS
    <3>2. c \in BillType /\ ChargeOK(c)
      BY <1>9, <1>11, <1>12, <2>1, <3>1 DEF BillInvariant
    <3>3. ChargeOK(c)'
      BY <1>2, <3>2, ChargeStands
    <3>4. QED
      BY <3>1, <3>2, <3>3 DEF ChargeOK
  <2>2. QED
    BY <1>12, <2>1 DEF BillInvariant
<1>14. WeighingInvariant'
  <2>1. ASSUME NEW p \in Requests
        PROVE  (weighing[p] # NoWeighing => WeighedOK(weighing[p]))'
    <3>1. PICK u : u = weighing[p]
      OBVIOUS
    <3>2. u # NoWeighing => WeighedOK(u)
      BY <3>1 DEF WeighingInvariant
    <3>3. WeighedOK(u) => u.order \in Ids(bill)
      BY DEF WeighedOK
    <3>4. WeighedOK(u) => WeighedOK(u)'
      BY <1>12, <3>3, WeighedKept
    <3>5. QED
      BY <3>1, <3>2, <3>4 DEF WeighedOK
  <2>2. QED
    BY <2>1 DEF WeighingInvariant, Apart
<1>15. ASSUME NEW j \in Ids(bill)
       PROVE  BooksMatch(bill'[j], Committed(j)')
  <2>1. Committed(j)' = Committed(j)
    BY <1>12, <1>14, SameLocksSameReads
  <2>2. QED
    BY <1>12, <2>1, MatchInWords
<1>16. BooksMatch(bill'[new], Committed(new)')
  <2>1. ASSUME NEW k
        PROVE  ~Locked(new, k)'
    <3>1. ASSUME NEW p \in Requests, k \in DOMAIN weighing[p].undo
          PROVE  weighing[p].order # new
      <4>1. weighing[p] # NoWeighing
        BY <3>1, LocksAreHeld
      <4>2. WeighedOK(weighing[p])
        BY <4>1 DEF WeighingInvariant
      <4>3. QED
        BY <1>12, <4>2 DEF WeighedOK
    <3>2. QED
      BY <3>1 DEF Locked
  <2>2. Committed(new)' = [k \in DOMAIN b.items |-> b.items[k]]
    BY <1>12, <2>1 DEF Committed
  <2>3. Committed(new)' = b.items
    BY <1>10, <1>18, <2>2 DEF SameGoods
  <2>4. 2 * (b.subtotal - subtotalOf(b.items)) \in -Len(b.items) .. Len(b.items)
    BY <1>10, <1>18
  <2>5. LET owed == positive(b.subtotal - b.discount + b.fee)
        IN b.total \in owed - 1 .. owed + 1
    BY <1>7, <1>10
  <2>6. BooksMatch(b, b.items)
    BY <1>10, <2>4, <2>5 DEF BooksMatch
  <2>7. QED
    BY <1>12, <2>3, <2>6
<1>17. QED
  BY <1>12, <1>13, <1>14, <1>15, <1>16, MatchInWordsNext

\* Steps that leave bills and weighings alone.
LEMMA BillsStutter ==
  ASSUME BillInvariant, WeighingInvariant, ItemsMatchOrder,
         UNCHANGED <<bill, weighing, scope>>
  PROVE  BillInvariant' /\ WeighingInvariant' /\ ItemsMatchOrder'
<1>1. BillInvariant'
  BY DEF BillInvariant, Numbered, Ids, ChargeOK, FeeOK
<1>2. WeighingInvariant'
  BY DEF WeighingInvariant, WeighedOK, Apart, Ids
<1>3. NothingToSee
  BY DEF NothingToSee, SameSums, Committed, Locked, Ids
<1>4. QED
  BY <1>1, <1>2, <1>3, UnseenMatches

\* Every step of intake and weighing keeps the bills, the weighings under way
\* and the match of an order with its items.
LEMMA BillStep ==
  ASSUME QuoteInvariant, BillInvariant, WeighingInvariant, ItemsMatchOrder,
         [WeighingNext]_weighingVars
  PROVE  BillInvariant' /\ WeighingInvariant' /\ ItemsMatchOrder'
<1> DEFINE Goal == BillInvariant' /\ WeighingInvariant' /\ ItemsMatchOrder'
<1>1. ASSUME NEW r \in Requests, IntakeStep(r), UNCHANGED weighing
      PROVE  Goal
  <2>1. CASE PlaceBilledOrder(r)
    BY <1>1, <2>1, PlaceKeeps
  <2>2. CASE \/ Enter(r) \/ Resolve(r) \/ RefuseOrder(r)
             \/ ReadService(r) \/ ReadDiscount(r) \/ ReadRules(r)
    <3>1. UNCHANGED <<bill, scope>>
      BY <2>2 DEF Enter, Resolve, ReadService, ReadDiscount, ReadRules, RefuseOrder
    <3>2. QED
      BY <1>1, <3>1, BillsStutter
  <2>3. QED
    BY <1>1, <2>1, <2>2 DEF IntakeStep
<1>2. ASSUME NEW r \in Requests, WeighingStep(r)
      PROVE  Goal
  <2>1. ASSUME NEW i \in Ids(bill), NEW weight \in Weights, BeginWeighing(r, i, weight)
        PROVE  Goal
    <3>1. UNCHANGED <<bill, scope>>
      BY <2>1 DEF BeginWeighing, intakeVars
    <3>2. BillInvariant'
      BY <3>1 DEF BillInvariant, Numbered, Ids, ChargeOK, FeeOK
    <3>3. QED
      BY <2>1, <3>2, BeginKeeps, UnseenMatches
  <2>2. CASE WriteItem(r)
    BY <2>2, WriteKeeps, UnseenMatches
  <2>3. CASE CommitWeighing(r)
    BY <2>3, CommitKeeps
  <2>4. CASE AbortWeighing(r)
    BY <2>4, AbortKeeps, UnseenMatches
  <2>5. QED
    BY <1>2, <2>1, <2>2, <2>3, <2>4 DEF WeighingStep
<1>3. CASE ChangeCatalogue /\ UNCHANGED weighing
  BY <1>3, BillsStutter DEF ChangeCatalogue
<1>4. CASE UNCHANGED weighingVars
  BY <1>4, BillsStutter DEF weighingVars, intakeVars
<1>5. QED
  BY <1>1, <1>2, <1>3, <1>4 DEF WeighingNext

\* At first there is no bill and nothing is being weighed.
LEMMA BillsBegin ==
  WeighingInit => BillInvariant /\ WeighingInvariant /\ ItemsMatchOrder
<1> SUFFICES ASSUME WeighingInit
             PROVE  BillInvariant /\ WeighingInvariant /\ ItemsMatchOrder
  OBVIOUS
<1>1. bill = [i \in {} |-> 0] /\ weighing = [r \in Requests |-> NoWeighing]
  BY DEF WeighingInit, IntakeInit
<1>2. Ids(bill) = {} /\ Numbered(bill)
  BY <1>1, EmptyTable
<1>3. QED
  BY <1>1, <1>2 DEF BillInvariant, WeighingInvariant, ItemsMatchOrder, Apart

\* The strengthening of ItemsMatchOrder holds throughout.
LEMMA BillsHold ==
  WeighingSpec => [](BillInvariant /\ WeighingInvariant /\ ItemsMatchOrder)
<1>1. /\ QuoteInvariant
      /\ BillInvariant /\ WeighingInvariant /\ ItemsMatchOrder
      /\ [WeighingNext]_weighingVars
      => (BillInvariant /\ WeighingInvariant /\ ItemsMatchOrder)'
  BY BillStep
<1>2. QED
  BY <1>1, BillsBegin, QuotesHold, PTL DEF WeighingSpec

\* Every order is charged what was on offer while it was placed: its items what
\* their services were sold for, a discount the catalogue gave on what was asked
\* for, a fee the rules set for its legs, however the catalogue is edited between
\* the reads of createOrder and however often the order is weighed.
THEOREM ChargesWereOnOffer == WeighingSpec => []QuotesAreHonest
<1>1. BillInvariant => QuotesAreHonest
  BY DEF BillInvariant, QuotesAreHonest, ChargeOK, Sold, FeeOK
<1>2. QED
  BY <1>1, BillsHold, PTL

\* Whoever reads an order and its items finds them no further apart than the
\* rounding of each column puts them, however many weighings of it write its
\* items, wait for each other and are rolled back.
THEOREM ItemsAgreeWithTheirOrder == WeighingSpec => []ItemsMatchOrder
BY BillsHold, PTL
=============================================================================
