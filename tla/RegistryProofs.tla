--------------------------- MODULE RegistryProofs ---------------------------
(***************************************************************************)
(* Proofs about customers, addresses and the orders placed for them, in    *)
(* ItemWeighing as a whole: for any number of requests, tenants,           *)
(* subscribers and rows, whatever is ordered and weighed meanwhile.        *)
(***************************************************************************)
EXTENDS ItemWeighing, FiniteSetTheorems, TLAPS

\* The requests that may still enter a customer.
Entering(q) == call[q].kind \in {"register", "create"}

\* What address a may be that an order of customer c has where it named n.
AddressOK(a, n, c) ==
  \/ a = n
  \/ n = 0 /\ a \in Ids(addresses) /\ addresses[a] = c

OrderOK(o) ==
  /\ o.customer \in CustomersOf(o.tenant, o.subscriber)
  /\ \A leg \in Legs : AddressOK(o.address[leg], o.named[leg], o.customer)

HeldOK(c) ==
  /\ c.kind \in {"register", "create"} =>
       /\ c.tenant \in Tenants
       /\ c.subscriber \in Subscribers
       /\ c.form \in Forms
  /\ c.kind = "create" => c.named \in [Legs -> Nat]
  /\ c.kind \in {"address", "place"} =>
       /\ OrderOK(c)
       /\ c.named \in [Legs -> Nat]
       /\ c.address \in [Legs -> Nat]
  /\ c.kind = "address" =>
       c = [kind |-> "address", tenant |-> c.tenant, subscriber |-> c.subscriber,
            customer |-> c.customer, named |-> c.named, address |-> c.address]

\* The rows of a table are numbered from 1.
Numbered(table) == \E n \in Nat : Ids(table) = 1 .. n

RegistryInvariant ==
  /\ Numbered(customers) /\ Numbered(addresses) /\ Numbered(placed)
  /\ \A i \in Ids(customers) : customers[i] \in Row
  /\ \A i \in Ids(addresses) : addresses[i] \in Ids(customers)
  /\ \A i \in Ids(placed) : OrderOK(placed[i])
  /\ call = [r \in Requests |-> call[r]]
  /\ \A r \in Requests : HeldOK(call[r])

-----------------------------------------------------------------------------
\* A row is inserted behind those there are.
LEMMA InsertAppends ==
  ASSUME NEW table, NEW n \in Nat, Ids(table) = 1 .. n, NEW row
  PROVE  /\ NextId(table) = n + 1
         /\ Ids(Insert(table, row)) = 1 .. n + 1
         /\ \A i \in 1 .. n : Insert(table, row)[i] = table[i]
         /\ Insert(table, row)[n + 1] = row
<1>1. Cardinality(1 .. n) = n
  BY FS_Interval
<1>2. 1 .. n + 1 = (1 .. n) \cup {n + 1} /\ n + 1 \notin 1 .. n
  OBVIOUS
<1>3. Insert(table, row) =
        [i \in 1 .. n + 1 |-> IF i \in 1 .. n THEN table[i] ELSE row]
  BY <1>1, <1>2 DEF Insert
<1>4. QED
  BY <1>1, <1>2, <1>3 DEF NextId, Ids

\* The same without the number of rows.
LEMMA InsertKeeps ==
  ASSUME NEW table, Numbered(table), NEW row
  PROVE  /\ Numbered(Insert(table, row))
         /\ NextId(table) \in Nat \ {0}
         /\ NextId(table) \notin Ids(table)
         /\ Ids(Insert(table, row)) = Ids(table) \cup {NextId(table)}
         /\ \A i \in Ids(table) : Insert(table, row)[i] = table[i]
         /\ Insert(table, row)[NextId(table)] = row
<1>1. PICK n \in Nat : Ids(table) = 1 .. n
  BY DEF Numbered
<1>2. /\ NextId(table) = n + 1
      /\ Ids(Insert(table, row)) = 1 .. n + 1
      /\ \A i \in 1 .. n : Insert(table, row)[i] = table[i]
      /\ Insert(table, row)[n + 1] = row
  BY <1>1, InsertAppends
<1>3. n + 1 \in Nat \ {0} /\ n + 1 \notin 1 .. n /\ 1 .. n + 1 = (1 .. n) \cup {n + 1}
  OBVIOUS
<1>4. Numbered(Insert(table, row))
  BY <1>2, <1>3 DEF Numbered
<1>5. QED
  BY <1>1, <1>2, <1>3, <1>4

\* An empty table.
LEMMA EmptyTable ==
  /\ Ids([i \in {} |-> 0]) = {}
  /\ Numbered([i \in {} |-> 0])
  /\ NextId([i \in {} |-> 0]) = 1
<1>1. Ids([i \in {} |-> 0]) = {}
  BY DEF Ids
<1>2. 1 .. 0 = {}
  OBVIOUS
<1>3. QED
  BY <1>1, <1>2, FS_EmptySet DEF Numbered, NextId
-----------------------------------------------------------------------------
(* The steps of the registry, among those of the whole.                    *)

RegistryStep(r) ==
  \/ \E t \in Tenants, s \in Subscribers, form \in RegisterForms,
        text \in BOOLEAN : CheckCustomer(r, t, s, form, text)
  \/ \E t \in Tenants, s \in Subscribers, form \in OrderForms,
        text \in BOOLEAN, named \in [Legs -> Nat] :
       FindCustomer(r, t, s, form, text, named)
  \/ \E t, i : \E named \in [Legs -> Nat] : NameCustomer(r, t, i, named)
  \/ RegisterCustomer(r)
  \/ CreateCustomer(r)
  \/ AddAddress(r)
  \/ PlaceOrder(r)
  \/ Refuse(r)

\* What a request names of its legs are numbers.
LEMMA NamingsType == Namings \subseteq [Legs -> Nat]
BY BoundsAssumption DEF Namings

\* Every step is one of the registry, or leaves it alone.
LEMMA RegistrySteps ==
  ASSUME [WeighingNext]_weighingVars
  PROVE  (\E r \in Requests : RegistryStep(r)) \/ UNCHANGED registryVars
<1>1. ASSUME NEW r \in Requests, Enter(r)
      PROVE  RegistryStep(r)
  <2>1. CASE scope = "customers"
    <3>1. EnterRegistry(r)
      BY <1>1, <2>1 DEF Enter
    <3>2. ASSUME NEW t \in Tenants, NEW s \in Subscribers, NEW text \in BOOLEAN,
                 NEW form \in RegisterForms, CheckCustomer(r, t, s, form, text)
          PROVE  RegistryStep(r)
      BY <3>2 DEF RegistryStep
    <3>3. ASSUME NEW t \in Tenants, NEW s \in Subscribers, NEW text \in BOOLEAN,
                 NEW form \in OrderForms, NEW named \in Namings,
                 FindCustomer(r, t, s, form, text, named)
          PROVE  RegistryStep(r)
      BY <3>3, NamingsType DEF RegistryStep
    <3>4. ASSUME NEW t, NEW i, NEW named \in Namings, NameCustomer(r, t, i, named)
          PROVE  RegistryStep(r)
      BY <3>4, NamingsType DEF RegistryStep
    <3>5. QED
      BY <3>1, <3>2, <3>3, <3>4 DEF EnterRegistry
  <2>2. CASE scope # "customers"
    <3>1. PICK L \in SUBSET Legs :
            NameCustomer(r, customers[1].tenant, 1,
                         [leg \in Legs |-> IF leg \in L THEN 1 ELSE 0])
      BY <1>1, <2>2 DEF Enter
    <3>2. [leg \in Legs |-> IF leg \in L THEN 1 ELSE 0] \in [Legs -> Nat]
      OBVIOUS
    <3>3. ASSUME NEW t, NEW i, NEW named \in [Legs -> Nat],
                 NameCustomer(r, t, i, named)
          PROVE  RegistryStep(r)
      BY <3>3 DEF RegistryStep
    <3>4. QED
      BY <3>1, <3>2, <3>3
  <2>3. QED
    BY <2>1, <2>2
<1>2. ASSUME NEW r \in Requests, Resolve(r) \/ PlaceBilledOrder(r) \/ RefuseOrder(r)
      PROVE  RegistryStep(r)
  BY <1>2 DEF Resolve, ResolveCustomer, PlaceBilledOrder, RefuseOrder, RegistryStep
<1>3. ASSUME NEW r \in Requests, ReadService(r) \/ ReadDiscount(r) \/ ReadRules(r)
      PROVE  UNCHANGED registryVars
  BY <1>3 DEF ReadService, ReadDiscount, ReadRules
<1>4. ASSUME NEW r \in Requests, WeighingStep(r)
      PROVE  UNCHANGED registryVars
  BY <1>4 DEF WeighingStep, BeginWeighing, WriteItem, CommitWeighing,
              AbortWeighing, intakeVars
<1>5. CASE ChangeCatalogue \/ UNCHANGED weighingVars
  BY <1>5 DEF ChangeCatalogue, weighingVars, intakeVars
<1>6. QED
  BY <1>1, <1>2, <1>3, <1>4, <1>5 DEF WeighingNext, IntakeStep
-----------------------------------------------------------------------------
(* The invariant.                                                          *)

\* No row goes away or changes.
Grows ==
  /\ Numbered(customers)' /\ Numbered(addresses)'
  /\ Ids(customers) \subseteq Ids(customers)'
  /\ \A i \in Ids(customers) : customers'[i] = customers[i]
  /\ Ids(addresses) \subseteq Ids(addresses)'
  /\ \A i \in Ids(addresses) : addresses'[i] = addresses[i]

\* As tables grow, the customers of a subscriber stay theirs,
LEMMA CustomersKept ==
  ASSUME Grows, NEW t, NEW s
  PROVE  CustomersOf(t, s) \subseteq CustomersOf(t, s)'
BY DEF Grows, CustomersOf

\* addresses that were acceptable stay so,
LEMMA AddressKept ==
  ASSUME Grows, NEW a, NEW n, NEW c, AddressOK(a, n, c)
  PROVE  AddressOK(a, n, c)'
BY DEF Grows, AddressOK

\* and so do the orders placed
LEMMA OrderKept ==
  ASSUME Grows, UNCHANGED placed, NEW i, OrderOK(placed[i])
  PROVE  OrderOK(placed[i])'
BY CustomersKept, AddressKept DEF OrderOK

\* and the requests.
LEMMA HeldKept ==
  ASSUME Grows, NEW q \in Requests, HeldOK(call[q]), call'[q] = call[q]
  PROVE  HeldOK(call[q])'
BY CustomersKept, AddressKept DEF HeldOK, OrderOK

\* What a step must show: the new rows are right, and so is what r then holds.
LEMMA StepKeeps ==
  ASSUME RegistryInvariant, NEW r \in Requests, Grows,
         Numbered(placed)',
         \A i \in Ids(customers)' \ Ids(customers) : customers'[i] \in Row,
         \A i \in Ids(addresses)' \ Ids(addresses) : addresses'[i] \in Ids(customers)',
         UNCHANGED placed,
         NEW v, call' = [call EXCEPT ![r] = v],
         HeldOK(call[r])'
  PROVE  RegistryInvariant'
<1> USE DEF RegistryInvariant
<1>1. \A q \in Requests : HeldOK(call[q])'
  <2>1. TAKE q \in Requests
  <2>2. CASE q = r
    BY <2>2
  <2>3. CASE q # r
    BY <2>3, HeldKept
  <2>4. QED
    BY <2>2, <2>3
<1>2. \A i \in Ids(placed)' : OrderOK(placed[i])'
  BY OrderKept DEF Ids
<1>3. \A i \in Ids(customers)' : customers'[i] \in Row
  BY DEF Grows
<1>4. \A i \in Ids(addresses)' : addresses'[i] \in Ids(customers)'
  BY DEF Grows
<1>5. call' = [q \in Requests |-> call'[q]]
  OBVIOUS
<1>6. QED
  BY <1>1, <1>2, <1>3, <1>4, <1>5 DEF Grows

\* Where no table changes, none shrinks.
LEMMA StillGrows ==
  ASSUME RegistryInvariant, UNCHANGED <<customers, addresses>>
  PROVE  Grows
BY DEF RegistryInvariant, Grows, Numbered, Ids

\* What a request holds that has found its customer.
LEMMA ResolvedFields ==
  ASSUME NEW c, NEW i, NEW v, v = Resolved(c, i)
  PROVE  /\ v.kind \in {"address", "place"}
         /\ v.tenant = c.tenant /\ v.subscriber = c.subscriber
         /\ v.customer = i /\ v.named = c.named /\ v.address = c.named
         /\ v.kind = "address" =>
              v = [kind |-> "address", tenant |-> v.tenant,
                   subscriber |-> v.subscriber, customer |-> v.customer,
                   named |-> v.named, address |-> v.address]
<1>1. CASE c.text
  BY <1>1 DEF Resolved
<1>2. CASE ~c.text
  BY <1>2 DEF Resolved
<1>3. QED
  BY <1>1, <1>2

\* It may be held, if the customer is the subscriber's.
LEMMA ResolvedHeld ==
  ASSUME NEW c, NEW i, i \in CustomersOf(c.tenant, c.subscriber)',
         c.named \in [Legs -> Nat]
  PROVE  HeldOK(Resolved(c, i))'
<1>1. PICK v : v = Resolved(c, i)
  OBVIOUS
<1>2. /\ v.kind \in {"address", "place"}
      /\ v.tenant = c.tenant /\ v.subscriber = c.subscriber
      /\ v.customer = i /\ v.named = c.named /\ v.address = c.named
      /\ v.kind = "address" =>
           v = [kind |-> "address", tenant |-> v.tenant,
                subscriber |-> v.subscriber, customer |-> v.customer,
                named |-> v.named, address |-> v.address]
  BY <1>1, ResolvedFields
<1>3. \A leg \in Legs : AddressOK(v.address[leg], v.named[leg], v.customer)'
  BY <1>2 DEF AddressOK
<1>4. v.customer \in CustomersOf(v.tenant, v.subscriber)'
  BY <1>2
<1>5. OrderOK(v)'
  BY <1>3, <1>4 DEF OrderOK
<1>6. HeldOK(v)'
  BY <1>2, <1>5 DEF HeldOK
<1>7. QED
  BY <1>1, <1>6

\* The request that has added an address.
LEMMA AddressAdded ==
  ASSUME RegistryInvariant, NEW r \in Requests, AddAddress(r),
         NEW c, c = call[r], NEW n, n = NextId(addresses)
  PROVE  call' = [call EXCEPT ![r] =
           [kind |-> "place", tenant |-> c.tenant, subscriber |-> c.subscriber,
            customer |-> c.customer, named |-> c.named,
            address |-> [leg \in Legs |->
              IF c.address[leg] = 0 THEN n ELSE c.address[leg]]]]
<1> DEFINE address == [leg \in Legs |->
                         IF c.address[leg] = 0 THEN n ELSE c.address[leg]]
<1>1. call' = [call EXCEPT ![r] =
        [[c EXCEPT !.kind = "place"] EXCEPT !.address = address]]
  <2>1. call' = [call EXCEPT ![r].kind = "place", ![r].address = address]
    BY DEF AddAddress
  <2>2. call = [q \in Requests |-> call[q]]
    BY DEF RegistryInvariant
  <2>3. QED
    BY <2>1, <2>2
<1> HIDE DEF address
<1>2. c = [kind |-> "address", tenant |-> c.tenant, subscriber |-> c.subscriber,
           customer |-> c.customer, named |-> c.named, address |-> c.address]
  BY DEF RegistryInvariant, HeldOK, AddAddress
<1>3. [c EXCEPT !.kind = "place"] =
        [kind |-> "place", tenant |-> c.tenant, subscriber |-> c.subscriber,
         customer |-> c.customer, named |-> c.named, address |-> c.address]
  <2>1. PICK t, s, i, named, a :
          c = [kind |-> "address", tenant |-> t, subscriber |-> s,
               customer |-> i, named |-> named, address |-> a]
    BY <1>2
  <2>2. QED
    BY <2>1
<1>4. ASSUME NEW t, NEW s, NEW i, NEW named, NEW a, NEW b
      PROVE  [[kind |-> "place", tenant |-> t, subscriber |-> s, customer |-> i,
               named |-> named, address |-> a] EXCEPT !.address = b] =
             [kind |-> "place", tenant |-> t, subscriber |-> s, customer |-> i,
              named |-> named, address |-> b]
  OBVIOUS
<1>5. [[kind |-> "place", tenant |-> c.tenant, subscriber |-> c.subscriber,
        customer |-> c.customer, named |-> c.named, address |-> c.address]
         EXCEPT !.address = address] =
      [kind |-> "place", tenant |-> c.tenant, subscriber |-> c.subscriber,
       customer |-> c.customer, named |-> c.named, address |-> address]
  BY <1>4
<1> USE DEF address
<1>6. QED
  BY <1>1, <1>3, <1>5

\* Every step of the registry keeps the invariant.
LEMMA RegistryStepKeeps ==
  ASSUME RegistryInvariant, NEW r \in Requests, RegistryStep(r)
  PROVE  RegistryInvariant'
<1> USE DEF RegistryInvariant
<1>0. HeldOK(call[r])
  OBVIOUS
<1>1. ASSUME NEW t \in Tenants, NEW s \in Subscribers, NEW form \in RegisterForms,
             NEW text \in BOOLEAN, CheckCustomer(r, t, s, form, text)
      PROVE  RegistryInvariant'
  <2> DEFINE v == [kind |-> "register", tenant |-> t, subscriber |-> s,
                   form |-> form, text |-> text]
  <2>1. UNCHANGED <<customers, addresses, placed>> /\ call' = [call EXCEPT ![r] = v]
    BY <1>1 DEF CheckCustomer
  <2>2. form \in Forms
    BY FormsAssumption DEF Forms
  <2>3. HeldOK(v)' /\ call'[r] = v
    BY <2>1, <2>2 DEF HeldOK
  <2> HIDE DEF v
  <2>4. QED
    BY <2>1, <2>3, StillGrows, StepKeeps DEF Numbered, Ids
<1>2. ASSUME NEW t \in Tenants, NEW s \in Subscribers, NEW form \in OrderForms,
             NEW text \in BOOLEAN, NEW named \in [Legs -> Nat],
             FindCustomer(r, t, s, form, text, named)
      PROVE  RegistryInvariant'
  <2> DEFINE c == [kind |-> "create", tenant |-> t, subscriber |-> s,
                   form |-> form, text |-> text, named |-> named]
  <2>1. UNCHANGED <<customers, addresses, placed>>
    BY <1>2 DEF FindCustomer
  <2>2. form \in Forms
    BY FormsAssumption DEF Forms
  <2>3. PICK v : call' = [call EXCEPT ![r] = v] /\ HeldOK(v)'
    <3>1. CASE known(t, s, form) # {}
      <4>1. PICK i \in known(t, s, form) : call' = [call EXCEPT ![r] = Resolved(c, i)]
        BY <1>2, <3>1 DEF FindCustomer
      <4>2. i \in CustomersOf(t, s)'
        BY <2>1 DEF known, Found, CustomersOf, Ids
      <4>3. HeldOK(Resolved(c, i))'
        BY <4>2, ResolvedHeld
      <4>4. QED
        BY <4>1, <4>3
    <3>2. CASE known(t, s, form) = {}
      <4>1. call' = [call EXCEPT ![r] = c]
        BY <1>2, <3>2 DEF FindCustomer
      <4>2. HeldOK(c)'
        BY <2>2 DEF HeldOK
      <4>3. QED
        BY <4>1, <4>2
    <3>3. QED
      BY <3>1, <3>2
  <2>4. call'[r] = v
    BY <2>3
  <2>5. QED
    BY <2>1, <2>3, <2>4, StillGrows, StepKeeps DEF Numbered, Ids
<1>3. ASSUME NEW t, NEW i, NEW named \in [Legs -> Nat], NameCustomer(r, t, i, named)
      PROVE  RegistryInvariant'
  <2>0. PICK s : s = customers[i].subscriber
    OBVIOUS
  <2> DEFINE v == [kind |-> "place", tenant |-> t, subscriber |-> s,
                   customer |-> i, named |-> named, address |-> named]
  <2>1. UNCHANGED <<customers, addresses, placed>> /\ call' = [call EXCEPT ![r] = v]
    BY <1>3, <2>0 DEF NameCustomer
  <2>2. i \in CustomersOf(t, s)'
    BY <1>3, <2>0, <2>1 DEF NameCustomer, CustomersOf, Ids
  <2>3. call'[r] = v
    BY <2>1
  <2>4. HeldOK(call[r])'
    <3>1. \A leg \in Legs : AddressOK(v.address[leg], v.named[leg], v.customer)'
      BY DEF AddressOK
    <3>2. OrderOK(v)'
      BY <2>2, <3>1 DEF OrderOK
    <3>3. HeldOK(v)'
      BY <3>2 DEF HeldOK
    <3>4. QED
      BY <2>3, <3>3
  <2> HIDE DEF v
  <2>5. QED
    BY <2>1, <2>4, StillGrows, StepKeeps DEF Numbered, Ids
<1>4. ASSUME RegisterCustomer(r)
      PROVE  RegistryInvariant'
  <2> DEFINE row == [tenant |-> call[r].tenant, subscriber |-> call[r].subscriber,
                     form |-> call[r].form]
  <2>1. row \in Row
    BY <1>0, <1>4 DEF RegisterCustomer, HeldOK, Row
  <2>2. /\ customers' = Insert(customers, row)
        /\ addresses' \in {addresses, Insert(addresses, NextId(customers))}
        /\ UNCHANGED placed /\ call' = [call EXCEPT ![r] = Idle]
    BY <1>4 DEF RegisterCustomer
  <2> HIDE DEF row
  <2>3. /\ Numbered(customers)' /\ Ids(customers)' = Ids(customers) \cup {NextId(customers)}
        /\ NextId(customers) \notin Ids(customers)
        /\ \A i \in Ids(customers) : customers'[i] = customers[i]
        /\ customers'[NextId(customers)] = row
    BY <2>2, InsertKeeps
  <2>4. /\ Numbered(addresses)' /\ Ids(addresses) \subseteq Ids(addresses)'
        /\ \A i \in Ids(addresses) : addresses'[i] = addresses[i]
        /\ \A i \in Ids(addresses)' \ Ids(addresses) : addresses'[i] = NextId(customers)
    <3>1. CASE addresses' = addresses
      BY <3>1 DEF Numbered, Ids
    <3>2. CASE addresses' = Insert(addresses, NextId(customers))
      BY <3>2, InsertKeeps
    <3>3. QED
      BY <2>2, <3>1, <3>2
  <2>5. Grows
    BY <2>3, <2>4 DEF Grows
  <2>6. HeldOK(call[r])'
    BY <2>2 DEF HeldOK, Idle
  <2>7. Numbered(placed)'
    BY <2>2 DEF Numbered, Ids
  <2>8. QED
    BY <2>1, <2>2, <2>3, <2>4, <2>5, <2>6, <2>7, StepKeeps
<1>5. ASSUME CreateCustomer(r)
      PROVE  RegistryInvariant'
  <2>1. PICK c, n : c = call[r] /\ n = NextId(customers)
    OBVIOUS
  <2> DEFINE row == [tenant |-> c.tenant, subscriber |-> c.subscriber,
                     form |-> phone08(c.form)]
             v == Resolved(c, n)
  <2>2. row \in Row
    BY <1>0, <1>5, <2>1 DEF CreateCustomer, HeldOK, Row, phone08, Forms
  <2>3. /\ customers' = Insert(customers, row)
        /\ UNCHANGED <<addresses, placed>> /\ call' = [call EXCEPT ![r] = v]
    BY <1>5, <2>1 DEF CreateCustomer
  <2>4. row.tenant = c.tenant /\ row.subscriber = c.subscriber
    OBVIOUS
  <2> HIDE DEF row
  <2>5. /\ Numbered(customers)' /\ Ids(customers)' = Ids(customers) \cup {n}
        /\ n \notin Ids(customers)
        /\ \A i \in Ids(customers) : customers'[i] = customers[i]
        /\ customers'[n] = row
    BY <2>1, <2>3, InsertKeeps
  <2>6. Grows /\ Numbered(placed)' /\ Ids(addresses)' = Ids(addresses)
    BY <2>3, <2>5 DEF Grows, Numbered, Ids
  <2>7. n \in CustomersOf(c.tenant, c.subscriber)'
    BY <2>4, <2>5 DEF CustomersOf
  <2>8. c.named \in [Legs -> Nat]
    BY <1>0, <1>5, <2>1 DEF CreateCustomer, HeldOK
  <2>9. HeldOK(v)'
    BY <2>7, <2>8, ResolvedHeld
  <2>10. call'[r] = v
    BY <2>3
  <2> HIDE DEF v
  <2>11. QED
    BY <2>2, <2>3, <2>5, <2>6, <2>9, <2>10, StepKeeps
<1>6. ASSUME AddAddress(r)
      PROVE  RegistryInvariant'
  <2>1. PICK c, n : c = call[r] /\ n = NextId(addresses)
    OBVIOUS
  <2> DEFINE address == [leg \in Legs |->
                           IF c.address[leg] = 0 THEN n ELSE c.address[leg]]
             v == [kind |-> "place", tenant |-> c.tenant,
                   subscriber |-> c.subscriber, customer |-> c.customer,
                   named |-> c.named, address |-> address]
  <2>2. c.kind = "address" /\ HeldOK(c)
    BY <1>0, <1>6, <2>1 DEF AddAddress
  <2>3. /\ addresses' = Insert(addresses, c.customer)
        /\ UNCHANGED <<customers, placed>>
    BY <1>6, <2>1 DEF AddAddress
  <2>4. call' = [call EXCEPT ![r] = v]
    BY <1>6, <2>1, AddressAdded
  <2> HIDE DEF v
  <2> HIDE DEF address
  <2>5. /\ Numbered(addresses)' /\ Ids(addresses)' = Ids(addresses) \cup {n}
        /\ n \in Nat \ {0} /\ n \notin Ids(addresses)
        /\ \A i \in Ids(addresses) : addresses'[i] = addresses[i]
        /\ addresses'[n] = c.customer
    BY <2>1, <2>3, InsertKeeps
  <2>6. Grows /\ Numbered(placed)' /\ Ids(customers)' = Ids(customers)
    BY <2>3, <2>5 DEF Grows, Numbered, Ids
  <2>7. /\ c.customer \in CustomersOf(c.tenant, c.subscriber)'
        /\ c.customer \in Ids(customers)'
        /\ c.named \in [Legs -> Nat] /\ c.address \in [Legs -> Nat]
        /\ \A leg \in Legs : AddressOK(c.address[leg], c.named[leg], c.customer)'
    BY <2>2, <2>6, CustomersKept, AddressKept DEF HeldOK, OrderOK, CustomersOf
  <2> USE DEF address
  <2>8. address \in [Legs -> Nat]
    BY <2>5, <2>7
  <2>9. \A leg \in Legs : AddressOK(address[leg], c.named[leg], c.customer)'
    <3>1. TAKE leg \in Legs
    <3>2. CASE c.address[leg] = 0
      <4>1. c.named[leg] = 0
        BY <2>7, <3>2 DEF AddressOK
      <4>2. QED
        BY <2>5, <3>2, <4>1 DEF AddressOK
    <3>3. CASE c.address[leg] # 0
      BY <2>7, <3>3
    <3>4. QED
      BY <3>2, <3>3
  <2> HIDE DEF address
  <2>10. HeldOK(v)'
    BY <2>7, <2>8, <2>9 DEF HeldOK, OrderOK, v
  <2>11. call'[r] = v
    BY <2>4
  <2>12. QED
    BY <2>3, <2>4, <2>5, <2>6, <2>7, <2>10, <2>11, StepKeeps
<1>7. ASSUME PlaceOrder(r)
      PROVE  RegistryInvariant'
  <2>1. PICK c, n : c = call[r] /\ n = NextId(placed)
    OBVIOUS
  <2> DEFINE row == [tenant |-> c.tenant, customer |-> c.customer,
                     address |-> c.address, subscriber |-> c.subscriber,
                     named |-> c.named]
  <2>2. /\ c.kind = "place" /\ UNCHANGED <<customers, addresses>>
        /\ placed' = Insert(placed, row)
        /\ call' = [call EXCEPT ![r] = Idle]
    BY <1>7, <2>1 DEF PlaceOrder
  <2>3. Grows
    BY <2>2, StillGrows
  <2>4. OrderOK(row)'
    BY <1>0, <2>1, <2>2, <2>3, CustomersKept, AddressKept DEF HeldOK, OrderOK
  <2> HIDE DEF row
  <2>5. /\ Numbered(placed)' /\ Ids(placed)' = Ids(placed) \cup {n}
        /\ \A i \in Ids(placed) : placed'[i] = placed[i]
        /\ placed'[n] = row
    BY <2>1, <2>2, InsertKeeps
  <2>6. \A i \in Ids(placed)' : OrderOK(placed[i])'
    <3>1. ASSUME NEW i \in Ids(placed)
          PROVE  OrderOK(placed[i])'
      BY <2>3, <2>5, CustomersKept, AddressKept DEF OrderOK
    <3>2. OrderOK(placed[n])'
      BY <2>4, <2>5
    <3>3. QED
      BY <2>5, <3>1, <3>2
  <2>7. \A q \in Requests : HeldOK(call[q])'
    <3>1. TAKE q \in Requests
    <3>2. CASE q = r
      BY <2>2, <3>2 DEF HeldOK, Idle
    <3>3. CASE q # r
      BY <2>2, <2>3, <3>3, HeldKept
    <3>4. QED
      BY <3>2, <3>3
  <2>8. /\ \A i \in Ids(customers)' : customers'[i] \in Row
        /\ \A i \in Ids(addresses)' : addresses'[i] \in Ids(customers)'
        /\ call' = [q \in Requests |-> call'[q]]
    BY <2>2 DEF Ids
  <2>9. QED
    BY <2>3, <2>5, <2>6, <2>7, <2>8 DEF Grows
<1>8. ASSUME Refuse(r)
      PROVE  RegistryInvariant'
  <2>1. UNCHANGED <<customers, addresses, placed>> /\ call' = [call EXCEPT ![r] = Idle]
    BY <1>8 DEF Refuse
  <2>2. HeldOK(call[r])'
    BY <2>1 DEF HeldOK, Idle
  <2>3. QED
    BY <2>1, <2>2, StillGrows, StepKeeps DEF Numbered, Ids
<1>9. QED
  BY <1>1, <1>2, <1>3, <1>4, <1>5, <1>6, <1>7, <1>8 DEF RegistryStep
-----------------------------------------------------------------------------
(* From the start.                                                         *)

\* An empty registry is in order.
LEMMA RegistryBegins == WeighingInit => RegistryInvariant
<1> SUFFICES ASSUME WeighingInit PROVE RegistryInvariant
  OBVIOUS
<1>1. call = [r \in Requests |-> Idle] /\ placed = [i \in {} |-> 0]
  BY DEF WeighingInit, IntakeInit, Init, KnownCustomer
<1>2. \A r \in Requests : HeldOK(call[r])
  BY <1>1 DEF HeldOK, Idle
<1>3. CASE Init
  <2>1. customers = [i \in {} |-> 0] /\ addresses = [i \in {} |-> 0]
    BY <1>3 DEF Init
  <2>2. QED
    BY <1>1, <1>2, <2>1, EmptyTable DEF RegistryInvariant
<1>4. CASE KnownCustomer
  <2>1. PICK t \in Tenants, s \in Subscribers :
          customers = Insert([i \in {} |-> 0],
                             [tenant |-> t, subscriber |-> s, form |-> "0"])
    BY <1>4 DEF KnownCustomer
  <2>2. addresses = Insert([i \in {} |-> 0], 1)
    BY <1>4 DEF KnownCustomer
  <2>3. /\ Ids(customers) = {1} /\ Numbered(customers)
        /\ customers[1] = [tenant |-> t, subscriber |-> s, form |-> "0"]
    BY <2>1, EmptyTable, InsertKeeps
  <2>4. Ids(addresses) = {1} /\ Numbered(addresses) /\ addresses[1] = 1
    BY <2>2, EmptyTable, InsertKeeps
  <2>5. customers[1] \in Row
    BY <2>3 DEF Row, Forms
  <2>6. QED
    BY <1>1, <1>2, <2>3, <2>4, <2>5, EmptyTable DEF RegistryInvariant
<1>5. QED
  BY <1>3, <1>4 DEF WeighingInit, IntakeInit

\* A step that leaves the registry alone.
LEMMA RegistryStutters ==
  ASSUME RegistryInvariant, UNCHANGED registryVars
  PROVE  RegistryInvariant'
BY DEF RegistryInvariant, registryVars, Numbered, Ids, HeldOK, OrderOK,
       AddressOK, CustomersOf

\* The registry is in order whatever requests race and fail.
LEMMA RegistryHolds == WeighingSpec => []RegistryInvariant
<1>1. RegistryInvariant /\ [WeighingNext]_weighingVars => RegistryInvariant'
  BY RegistrySteps, RegistryStepKeeps, RegistryStutters
<1>2. QED
  BY <1>1, RegistryBegins, PTL DEF WeighingSpec

\* Type correctness of the registry: rows are numbered as they are inserted, and
\* what they point at is there.
THEOREM RegistryIsTyped == WeighingSpec => []RegistryTypeOK
<1>1. RegistryInvariant => RegistryTypeOK
  <2> SUFFICES ASSUME RegistryInvariant PROVE RegistryTypeOK
    OBVIOUS
  <2>1. PICK n \in Nat : Ids(customers) = 1 .. n
    BY DEF RegistryInvariant, Numbered
  <2>2. Ids(customers) = 1 .. Cardinality(Ids(customers))
    BY <2>1, FS_Interval
  <2>3. \A i \in Ids(placed) : placed[i].customer \in Ids(customers)
    BY DEF RegistryInvariant, OrderOK, CustomersOf
  <2>4. QED
    BY <2>2, <2>3 DEF RegistryInvariant, RegistryTypeOK
<1>2. QED
  BY <1>1, RegistryHolds, PTL

\* An order is placed for a customer of its tenant who has the number it was
\* placed under, at the addresses it named or an address of that customer,
\* however many requests race, are refused or are repeated.
THEOREM OrdersAreForTheirCustomers == WeighingSpec => []OrderIsForItsCustomer
<1>1. RegistryInvariant => OrderIsForItsCustomer
  BY DEF RegistryInvariant, OrderIsForItsCustomer, OrderOK, AddressOK
<1>2. QED
  BY <1>1, RegistryHolds, PTL
-----------------------------------------------------------------------------
(* A customer is entered once.                                             *)

Enters(q, t, s) ==
  Entering(q) /\ call[q].tenant = t /\ call[q].subscriber = s

\* Numbers are registered as 08.., and orders give them in a way createOrder
\* makes 08.. of.
LocalNumbers ==
  RegisterForms \subseteq {"0"} /\ OrderForms \subseteq {"0", "62", "8", "0-"}

\* Unless requests overlapped: one customer, or one request about to enter them.
EnteredOnce ==
  /\ \A i \in Ids(customers) : customers[i].form = "0"
  /\ \A q \in Requests : Entering(q) => phone08(call[q].form) = "0"
  /\ \A q \in Requests : call[q].kind = "register" => call[q].form = "0"
  /\ \A t \in Tenants, s \in Subscribers : <<t, s>> \notin overlapped =>
       /\ \A i, j \in CustomersOf(t, s) : i = j
       /\ \A p, q \in Requests : Enters(p, t, s) /\ Enters(q, t, s) => p = q
       /\ \A q \in Requests : Enters(q, t, s) => CustomersOf(t, s) = {}

\* A step that enters nobody.
LEMMA NobodyEnters ==
  ASSUME EnteredOnce, UNCHANGED <<customers, overlapped>>,
         \A q \in Requests : call'[q] = call[q] \/ ~Entering(q)'
  PROVE  EnteredOnce'
<1>1. \A q \in Requests : Entering(q)' => Entering(q) /\ call'[q] = call[q]
  BY DEF Entering
<1>2. \A t, s : CustomersOf(t, s)' = CustomersOf(t, s)
  BY DEF CustomersOf, Ids
<1>3. \A q \in Requests : \A t, s : Enters(q, t, s)' => Enters(q, t, s)
  BY <1>1 DEF Enters
<1>4. /\ \A i \in Ids(customers)' : customers'[i].form = "0"
      /\ \A q \in Requests : Entering(q)' => phone08(call'[q].form) = "0"
  BY <1>1 DEF EnteredOnce, Ids
<1>5. \A q \in Requests : call'[q].kind = "register" => call'[q].form = "0"
  BY <1>1 DEF EnteredOnce, Entering
<1>6. QED
  BY <1>2, <1>3, <1>4, <1>5 DEF EnteredOnce

\* A request that found nobody goes on to enter them.
LEMMA OneEnters ==
  ASSUME EnteredOnce, UNCHANGED customers,
         NEW r \in Requests, NEW t \in Tenants, NEW s \in Subscribers,
         CustomersOf(t, s) = {}, NoteOverlap(r, t, s),
         NEW v, call' = [call EXCEPT ![r] = v], call = [q \in Requests |-> call[q]],
         v.kind \in {"register", "create"}, v.tenant = t, v.subscriber = s,
         phone08(v.form) = "0", v.kind = "register" => v.form = "0"
  PROVE  EnteredOnce'
<1>1. call'[r] = v /\ \A q \in Requests \ {r} : call'[q] = call[q]
  OBVIOUS
<1>2. \A x, y : CustomersOf(x, y)' = CustomersOf(x, y)
  BY DEF CustomersOf, Ids
<1>3. \A q \in Requests \ {r} : \A x, y : Enters(q, x, y)' => Enters(q, x, y)
  BY <1>1 DEF Enters, Entering
<1>4. \A x, y : Enters(r, x, y)' => x = t /\ y = s
  BY <1>1 DEF Enters
<1>5. overlapped \subseteq overlapped'
  BY DEF NoteOverlap
<1>6. ASSUME NEW q \in Requests \ {r}, Enters(q, t, s)
      PROVE  <<t, s>> \in overlapped'
  BY <1>6 DEF NoteOverlap, Enters, Entering
<1>7. /\ \A i \in Ids(customers)' : customers'[i].form = "0"
      /\ \A q \in Requests : Entering(q)' => phone08(call'[q].form) = "0"
      /\ \A q \in Requests : call'[q].kind = "register" => call'[q].form = "0"
  BY <1>1 DEF EnteredOnce, Entering, Ids
<1>8. ASSUME NEW x \in Tenants, NEW y \in Subscribers, <<x, y>> \notin overlapped'
      PROVE  /\ \A i, j \in CustomersOf(x, y)' : i = j
             /\ \A p, q \in Requests : Enters(p, x, y)' /\ Enters(q, x, y)' => p = q
             /\ \A q \in Requests : Enters(q, x, y)' => CustomersOf(x, y)' = {}
  <2>1. /\ \A i, j \in CustomersOf(x, y) : i = j
        /\ \A p, q \in Requests : Enters(p, x, y) /\ Enters(q, x, y) => p = q
        /\ \A q \in Requests : Enters(q, x, y) => CustomersOf(x, y) = {}
    BY <1>5, <1>8 DEF EnteredOnce
  <2>2. ASSUME NEW q \in Requests \ {r}, Enters(q, x, y)'
        PROVE  ~Enters(r, x, y)'
    BY <1>3, <1>4, <1>6, <1>8, <2>2
  <2>3. QED
    BY <1>2, <1>3, <1>4, <2>1, <2>2
<1>9. QED
  BY <1>7, <1>8 DEF EnteredOnce

\* A customer is entered by the request that did not find them.
LEMMA OneEntered ==
  ASSUME EnteredOnce, RegistryInvariant, UNCHANGED overlapped,
         NEW r \in Requests, Entering(r), NEW row,
         customers' = Insert(customers, row), row.form = "0",
         row.tenant = call[r].tenant, row.subscriber = call[r].subscriber,
         \A q \in Requests \ {r} : call'[q] = call[q], ~Entering(r)'
  PROVE  EnteredOnce'
<1>1. PICK n : n = NextId(customers)
  OBVIOUS
<1>2. PICK t, s : t = call[r].tenant /\ s = call[r].subscriber
  OBVIOUS
<1>3. /\ Ids(customers)' = Ids(customers) \cup {n}
      /\ \A i \in Ids(customers) : customers'[i] = customers[i]
      /\ customers'[n] = row
  BY <1>1, InsertKeeps DEF RegistryInvariant
<1>4. \A x, y : CustomersOf(x, y)' =
        IF x = t /\ y = s THEN CustomersOf(x, y) \cup {n} ELSE CustomersOf(x, y)
  BY <1>2, <1>3 DEF CustomersOf
<1>5. Enters(r, t, s) /\ \A x, y : ~Enters(r, x, y)'
  BY <1>2 DEF Enters
<1>6. \A q \in Requests \ {r} : \A x, y : Enters(q, x, y)' => Enters(q, x, y)
  BY DEF Enters, Entering
<1>7. /\ \A i \in Ids(customers)' : customers'[i].form = "0"
      /\ \A q \in Requests : Entering(q)' => phone08(call'[q].form) = "0"
      /\ \A q \in Requests : call'[q].kind = "register" => call'[q].form = "0"
  BY <1>3 DEF EnteredOnce, Entering
<1>8. ASSUME NEW x \in Tenants, NEW y \in Subscribers, <<x, y>> \notin overlapped'
      PROVE  /\ \A i, j \in CustomersOf(x, y)' : i = j
             /\ \A p, q \in Requests : Enters(p, x, y)' /\ Enters(q, x, y)' => p = q
             /\ \A q \in Requests : Enters(q, x, y)' => CustomersOf(x, y)' = {}
  <2>1. /\ \A i, j \in CustomersOf(x, y) : i = j
        /\ \A p, q \in Requests : Enters(p, x, y) /\ Enters(q, x, y) => p = q
        /\ \A q \in Requests : Enters(q, x, y) => CustomersOf(x, y) = {}
    BY <1>8 DEF EnteredOnce
  <2>2. CASE x = t /\ y = s
    <3>1. CustomersOf(x, y)' = {n} /\ \A q \in Requests : ~Enters(q, x, y)'
      BY <1>4, <1>5, <1>6, <2>1, <2>2
    <3>2. QED
      BY <3>1
  <2>3. CASE ~(x = t /\ y = s)
    BY <1>4, <1>5, <1>6, <2>1, <2>3
  <2>4. QED
    BY <2>2, <2>3
<1>9. QED
  BY <1>7, <1>8 DEF EnteredOnce

\* No step of the registry enters a customer a second time.
LEMMA RegistryStepEntersOnce ==
  ASSUME LocalNumbers, RegistryInvariant, EnteredOnce,
         NEW r \in Requests, RegistryStep(r)
  PROVE  EnteredOnce'
<1>0. call = [q \in Requests |-> call[q]]
  BY DEF RegistryInvariant
<1>1. ASSUME NEW t \in Tenants, NEW s \in Subscribers, NEW form \in RegisterForms,
             NEW text \in BOOLEAN, CheckCustomer(r, t, s, form, text)
      PROVE  EnteredOnce'
  <2>1. PICK v : v = [kind |-> "register", tenant |-> t, subscriber |-> s,
                      form |-> form, text |-> text]
    OBVIOUS
  <2>2. form = "0"
    BY DEF LocalNumbers
  <2>3. CustomersOf(t, s) = {}
    BY <1>1, <2>2 DEF CheckCustomer, Found, CustomersOf, EnteredOnce
  <2>4. /\ call' = [call EXCEPT ![r] = v] /\ UNCHANGED customers
        /\ NoteOverlap(r, t, s)
    BY <1>1, <2>1 DEF CheckCustomer
  <2>5. phone08(v.form) = "0" /\ v.form = "0"
    BY <2>1, <2>2 DEF phone08, rawPhone
  <2>6. QED
    BY <1>0, <2>1, <2>3, <2>4, <2>5, OneEnters
<1>2. ASSUME NEW t \in Tenants, NEW s \in Subscribers, NEW form \in OrderForms,
             NEW text \in BOOLEAN, NEW named \in [Legs -> Nat],
             FindCustomer(r, t, s, form, text, named)
      PROVE  EnteredOnce'
  <2>1. PICK v : v = [kind |-> "create", tenant |-> t, subscriber |-> s,
                      form |-> form, text |-> text, named |-> named]
    OBVIOUS
  <2>2. phone08(form) = "0"
    BY DEF LocalNumbers, phone08, rawPhone
  <2>3. CASE known(t, s, form) # {}
    <3>1. PICK i : call' = [call EXCEPT ![r] = Resolved(v, i)]
      BY <1>2, <2>1, <2>3 DEF FindCustomer
    <3>2. Resolved(v, i).kind \in {"address", "place"}
      BY ResolvedFields
    <3>3. \A q \in Requests : call'[q] = call[q] \/ ~Entering(q)'
      BY <1>0, <3>1, <3>2 DEF Entering
    <3>4. UNCHANGED <<customers, overlapped>>
      BY <1>2, <2>3 DEF FindCustomer
    <3>5. QED
      BY <3>3, <3>4, NobodyEnters
  <2>4. CASE known(t, s, form) = {}
    <3>1. CustomersOf(t, s) = {}
      BY <2>2, <2>4 DEF known, Found, lookupForms, CustomersOf, EnteredOnce
    <3>2. /\ call' = [call EXCEPT ![r] = v] /\ UNCHANGED customers
          /\ NoteOverlap(r, t, s)
      BY <1>2, <2>1, <2>4 DEF FindCustomer
    <3>3. phone08(v.form) = "0"
      BY <2>1, <2>2
    <3>4. QED
      BY <1>0, <2>1, <3>1, <3>2, <3>3, OneEnters
  <2>5. QED
    BY <2>3, <2>4
<1>3. ASSUME NEW t, NEW i, NEW named \in [Legs -> Nat], NameCustomer(r, t, i, named)
      PROVE  EnteredOnce'
  <2>1. PICK v : v.kind = "place" /\ call' = [call EXCEPT ![r] = v]
    BY <1>3 DEF NameCustomer
  <2>2. \A q \in Requests : call'[q] = call[q] \/ ~Entering(q)'
    BY <1>0, <2>1 DEF Entering
  <2>3. QED
    BY <1>3, <2>2, NobodyEnters DEF NameCustomer
<1>4. ASSUME RegisterCustomer(r)
      PROVE  EnteredOnce'
  <2>1. PICK row : row = [tenant |-> call[r].tenant,
                          subscriber |-> call[r].subscriber, form |-> call[r].form]
    OBVIOUS
  <2>2. /\ call[r].kind = "register" /\ customers' = Insert(customers, row)
        /\ call' = [call EXCEPT ![r] = Idle] /\ UNCHANGED overlapped
    BY <1>4, <2>1 DEF RegisterCustomer
  <2>3. row.form = "0"
    BY <2>1, <2>2 DEF EnteredOnce
  <2>4. Entering(r) /\ ~Entering(r)'
    BY <1>0, <2>2 DEF Entering, Idle
  <2>5. QED
    BY <1>0, <2>1, <2>2, <2>3, <2>4, OneEntered
<1>5. ASSUME CreateCustomer(r)
      PROVE  EnteredOnce'
  <2>1. PICK row : row = [tenant |-> call[r].tenant,
                          subscriber |-> call[r].subscriber,
                          form |-> phone08(call[r].form)]
    OBVIOUS
  <2>2. PICK c, n : c = call[r] /\ n = NextId(customers)
    OBVIOUS
  <2>3. /\ call[r].kind = "create" /\ customers' = Insert(customers, row)
        /\ call' = [call EXCEPT ![r] = Resolved(c, n)] /\ UNCHANGED overlapped
    BY <1>5, <2>1, <2>2 DEF CreateCustomer
  <2>4. Resolved(c, n).kind \in {"address", "place"}
    BY ResolvedFields
  <2>5. Entering(r) /\ ~Entering(r)'
    BY <1>0, <2>3, <2>4 DEF Entering
  <2>6. row.form = "0"
    BY <2>1, <2>5 DEF EnteredOnce
  <2>7. QED
    BY <1>0, <2>1, <2>3, <2>5, <2>6, OneEntered
<1>6. ASSUME AddAddress(r)
      PROVE  EnteredOnce'
  <2>1. PICK v : v.kind = "place" /\ call' = [call EXCEPT ![r] = v]
    <3>1. PICK c, n : c = call[r] /\ n = NextId(addresses)
      OBVIOUS
    <3>2. QED
      BY <1>6, <3>1, AddressAdded
  <2>2. \A q \in Requests : call'[q] = call[q] \/ ~Entering(q)'
    BY <1>0, <2>1 DEF Entering
  <2>3. QED
    BY <1>6, <2>2, NobodyEnters DEF AddAddress
<1>7. ASSUME PlaceOrder(r) \/ Refuse(r)
      PROVE  EnteredOnce'
  <2>1. call' = [call EXCEPT ![r] = Idle] /\ UNCHANGED <<customers, overlapped>>
    BY <1>7 DEF PlaceOrder, Refuse
  <2>2. \A q \in Requests : call'[q] = call[q] \/ ~Entering(q)'
    BY <1>0, <2>1 DEF Entering, Idle
  <2>3. QED
    BY <2>1, <2>2, NobodyEnters
<1>8. QED
  BY <1>1, <1>2, <1>3, <1>4, <1>5, <1>6, <1>7 DEF RegistryStep

\* Nobody has been entered yet.
LEMMA EntersOnceBegins == WeighingInit => EnteredOnce
<1> SUFFICES ASSUME WeighingInit PROVE EnteredOnce
  OBVIOUS
<1>1. \A q \in Requests : ~Entering(q)
  BY DEF WeighingInit, IntakeInit, Init, KnownCustomer, Entering, Idle
<1>2. \A q \in Requests : call[q].kind # "register"
  BY <1>1 DEF Entering
<1>3. (\A i, j \in Ids(customers) : i = j) /\ \A i \in Ids(customers) : customers[i].form = "0"
  <2>1. CASE Init
    BY <2>1, EmptyTable DEF Init
  <2>2. CASE KnownCustomer
    <3>1. PICK row : row.form = "0" /\ customers = Insert([i \in {} |-> 0], row)
      BY <2>2 DEF KnownCustomer
    <3>2. Ids(customers) = {1} /\ customers[1] = row
      BY <3>1, EmptyTable, InsertKeeps
    <3>3. QED
      BY <3>1, <3>2
  <2>3. QED
    BY <2>1, <2>2 DEF WeighingInit, IntakeInit
<1>4. \A t, s : CustomersOf(t, s) \subseteq Ids(customers)
  BY DEF CustomersOf
<1>5. QED
  BY <1>1, <1>2, <1>3, <1>4 DEF EnteredOnce, Enters

\* Where numbers are registered as 08.. and orders give them in a way createOrder
\* knows, a subscriber whom no two requests missed at the same time has one row
\* at a tenant at most.
THEOREM CustomersAreEnteredOnce ==
  ASSUME LocalNumbers
  PROVE  WeighingSpec => []OneCustomerPerNumber
<1>1. RegistryInvariant /\ EnteredOnce /\ [WeighingNext]_weighingVars => EnteredOnce'
  <2> SUFFICES ASSUME RegistryInvariant, EnteredOnce, [WeighingNext]_weighingVars
               PROVE  EnteredOnce'
    OBVIOUS
  <2>1. CASE UNCHANGED registryVars
    BY <2>1, NobodyEnters DEF registryVars
  <2>2. QED
    BY <2>1, RegistrySteps, RegistryStepEntersOnce
<1>2. EnteredOnce => OneCustomerPerNumber
  <2> SUFFICES ASSUME EnteredOnce, NEW t \in Tenants, NEW s \in Subscribers,
                      <<t, s>> \notin overlapped
               PROVE  Cardinality(CustomersOf(t, s)) <= 1
    BY DEF OneCustomerPerNumber
  <2>1. \A i, j \in CustomersOf(t, s) : i = j
    BY DEF EnteredOnce
  <2>2. CASE CustomersOf(t, s) = {}
    BY <2>2, FS_EmptySet
  <2>3. CASE CustomersOf(t, s) # {}
    <3>1. PICK i : CustomersOf(t, s) = {i}
      BY <2>1, <2>3
    <3>2. Cardinality({i}) = 1
      BY FS_Singleton
    <3>3. QED
      BY <3>1, <3>2
  <2>4. QED
    BY <2>2, <2>3
<1>3. QED
  BY <1>1, <1>2, RegistryHolds, EntersOnceBegins, PTL DEF WeighingSpec
=============================================================================
