-------------------------- MODULE CustomerRegistry --------------------------
(***************************************************************************)
(* Who an order is for: createCustomer of customer.service.ts, and the     *)
(* part of createOrder before its transaction, which finds or makes the    *)
(* customer and an address one statement at a time and may be refused      *)
(* after either.                                                           *)
(*                                                                         *)
(* A telephone number is a subscriber and the way it is written: "0" for   *)
(* 08.., "62" for 628.., "8" for 8.., "0-" for 08.. with spaces or         *)
(* hyphens, "+62" for +628...                                              *)
(***************************************************************************)
EXTENDS Naturals, FiniteSets

CONSTANTS
  Requests,       \* requests that may be handled at the same time
  Tenants,
  Subscribers,    \* people with a telephone
  MaxCustomers,   \* bound: rows of the customer table
  MaxAddresses,   \* bound: rows of the customer_address table
  MaxOrders,      \* bound: orders placed
  RegisterForms,  \* how createCustomer is given numbers
  OrderForms,     \* how createOrder is given numbers
  NamedLegs       \* for which legs of its trip an order may name an address

Forms == {"0", "62", "8", "0-", "+62", "0+62", "62+62"}

ASSUME BoundsAssumption ==
  {MaxCustomers, MaxAddresses, MaxOrders} \subseteq Nat
ASSUME FormsAssumption ==
  RegisterForms \cup OrderForms \subseteq {"0", "62", "8", "0-", "+62"}

\* pickup_address_id and delivery_address_id.
Legs == {"pickup", "delivery"}
ASSUME LegsAssumption == NamedLegs \subseteq SUBSET Legs

VARIABLES
  customers,  \* the customer table: id -> [tenant, subscriber, form]
  addresses,  \* the customer_address table: id -> the customer it is of
  placed,     \* placed orders: id -> [tenant, customer, address, subscriber,
              \* named], with the address of each leg, 0 if none; histories: the
              \* subscriber who ordered, and the addresses the request named
  call,       \* call[r]: what request r holds while it awaits
  overlapped  \* history: the tenants and subscribers two requests did not find
              \* at the same time

registryVars == <<customers, addresses, placed, call, overlapped>>

Idle == [kind |-> "idle"]
Free(r) == call[r] = Idle

\* rawPhone, phone08 and phone62 of createOrder.
rawPhone(form) == IF form = "0-" THEN "0" ELSE form

\* Mutant: the 0 is put before a number that has it.
phoneAlwaysPrefixed(form) == IF rawPhone(form) = "8" THEN "0" ELSE "00"

phone08(form) ==
  CASE rawPhone(form) \in {"0", "62", "8"} -> "0"
    [] OTHER -> "0+62"

phone62(form) ==
  CASE rawPhone(form) \in {"0", "62", "8"} -> "62"
    [] OTHER -> "62+62"

\* The ways a request may name addresses that may exist.
Namings ==
  {[leg \in Legs |-> IF leg \in L THEN a ELSE 0] :
     L \in NamedLegs, a \in 1 .. MaxAddresses}

Ids(table) == DOMAIN table

\* A table with one more row, under the next id.
Insert(table, row) ==
  [i \in Ids(table) \cup {Cardinality(Ids(table)) + 1} |->
     IF i \in Ids(table) THEN table[i] ELSE row]

NextId(table) == Cardinality(Ids(table)) + 1

CustomersOf(t, s) ==
  {i \in Ids(customers) : customers[i].tenant = t /\ customers[i].subscriber = s}

\* findFirst({ tenantId, phone in forms }).
Found(t, s, forms) == {i \in CustomersOf(t, s) : customers[i].form \in forms}

\* Mutant: the number is looked up as it was given.
sameNumber(form) == {rawPhone(form)}

lookupForms(form) == {rawPhone(form), phone08(form), phone62(form)}

\* Mutant: customers of every tenant are looked through.
knownAnywhere(t, s, form) ==
  UNION {Found(u, s, lookupForms(form)) : u \in Tenants}

\* The customers createOrder may take for the number it was given.
known(t, s, form) == Found(t, s, lookupForms(form))

\* No table is a function on numbers: the empty one is the function on {}.
Init ==
  /\ customers = [i \in {} |-> 0]
  /\ addresses = [i \in {} |-> 0]
  /\ placed = [i \in {} |-> 0]
  /\ call = [r \in Requests |-> Idle]
  /\ overlapped = {}
-----------------------------------------------------------------------------
\* Request r is about to enter s while another request is.
NoteOverlap(r, t, s) ==
  overlapped' = overlapped \cup
    {p \in {<<t, s>>} : \E q \in Requests \ {r} :
       /\ call[q].kind \in {"register", "create"}
       /\ <<call[q].tenant, call[q].subscriber>> = p}

\* createCustomer up to its transaction: the number is compared as written.
CheckCustomer(r, t, s, form, text) ==
  /\ Free(r)
  /\ Found(t, s, {form}) = {}
  /\ call' = [call EXCEPT ![r] =
       [kind |-> "register", tenant |-> t, subscriber |-> s, form |-> form,
        text |-> text]]
  /\ NoteOverlap(r, t, s)
  /\ UNCHANGED <<customers, addresses, placed>>

\* The transaction of createCustomer: the customer with their address.
RegisterCustomer(r) ==
  LET c == call[r]
  IN /\ c.kind = "register"
     /\ NextId(customers) <= MaxCustomers
     /\ c.text => NextId(addresses) <= MaxAddresses
     /\ customers' = Insert(customers,
          [tenant |-> c.tenant, subscriber |-> c.subscriber, form |-> c.form])
     /\ addresses' = IF c.text THEN Insert(addresses, NextId(customers))
                     ELSE addresses
     /\ call' = [call EXCEPT ![r] = Idle]
     /\ UNCHANGED <<placed, overlapped>>

\* What createOrder goes on with once it has its customer.
Resolved(c, i) ==
  [kind |-> IF c.text THEN "address" ELSE "place", tenant |-> c.tenant,
   subscriber |-> c.subscriber, customer |-> i, named |-> c.named,
   address |-> c.named]

\* createOrder with a name and a number, up to the search for the customer.
\* The request may name addresses, give the text of a new one, or both; nobody
\* asks whose they are.
FindCustomer(r, t, s, form, text, named) ==
  LET c == [kind |-> "create", tenant |-> t, subscriber |-> s, form |-> form,
            text |-> text, named |-> named]
  IN /\ Free(r)
     /\ IF known(t, s, form) # {}
        THEN /\ \E i \in known(t, s, form) :
                  call' = [call EXCEPT ![r] = Resolved(c, i)]
             /\ UNCHANGED overlapped
        ELSE /\ call' = [call EXCEPT ![r] = c]
             /\ NoteOverlap(r, t, s)
     /\ UNCHANGED <<customers, addresses, placed>>

\* createOrder with customer_id.
NameCustomer(r, t, i, named) ==
  /\ Free(r)
  /\ i \in Ids(customers)
  /\ customers[i].tenant = t
  /\ call' = [call EXCEPT ![r] =
       [kind |-> "place", tenant |-> t, subscriber |-> customers[i].subscriber,
        customer |-> i, named |-> named, address |-> named]]
  /\ UNCHANGED <<customers, addresses, placed, overlapped>>

\* A new customer is inserted at once, outside any transaction.
CreateCustomer(r) ==
  LET c == call[r]
  IN /\ c.kind = "create"
     /\ NextId(customers) <= MaxCustomers
     /\ customers' = Insert(customers,
          [tenant |-> c.tenant, subscriber |-> c.subscriber,
           form |-> phone08(c.form)])
     /\ call' = [call EXCEPT ![r] = Resolved(c, NextId(customers))]
     /\ UNCHANGED <<addresses, placed, overlapped>>

\* So is the address given with the order, each time it is given; it is that of
\* the legs for which the request names none.
AddAddress(r) ==
  LET c == call[r]
  IN /\ c.kind = "address"
     /\ NextId(addresses) <= MaxAddresses
     /\ addresses' = Insert(addresses, c.customer)
     /\ call' = [call EXCEPT ![r].kind = "place",
                             ![r].address = [leg \in Legs |->
                                IF @[leg] = 0 THEN NextId(addresses) ELSE @[leg]]]
     /\ UNCHANGED <<customers, placed, overlapped>>

\* The transaction of createOrder, less the bill; its foreign keys ask for
\* addresses that exist.
PlaceOrder(r) ==
  LET c == call[r]
  IN /\ c.kind = "place"
     /\ NextId(placed) <= MaxOrders
     /\ \A leg \in Legs : c.address[leg] \in Ids(addresses) \cup {0}
     /\ placed' = Insert(placed,
          [tenant |-> c.tenant, customer |-> c.customer, address |-> c.address,
           subscriber |-> c.subscriber, named |-> c.named])
     /\ call' = [call EXCEPT ![r] = Idle]
     /\ UNCHANGED <<customers, addresses, overlapped>>

\* The request ends early: a service is not available (400, after the customer
\* and the address were inserted), a statement fails, an address that was named
\* does not exist, or the process dies.
Refuse(r) ==
  /\ ~Free(r)
  /\ call' = [call EXCEPT ![r] = Idle]
  /\ UNCHANGED <<customers, addresses, placed, overlapped>>
-----------------------------------------------------------------------------
\* What a request about a customer may begin with.
EnterRegistry(r) ==
  \/ \E t \in Tenants, s \in Subscribers, text \in BOOLEAN :
       \/ \E form \in RegisterForms : CheckCustomer(r, t, s, form, text)
       \/ \E form \in OrderForms, named \in Namings :
            FindCustomer(r, t, s, form, text, named)
  \/ \E t \in Tenants, i \in 1 .. MaxCustomers, named \in Namings :
       NameCustomer(r, t, i, named)

\* The inserts it goes on with.
ResolveCustomer(r) ==
  RegisterCustomer(r) \/ CreateCustomer(r) \/ AddAddress(r)
-----------------------------------------------------------------------------
Row == [tenant : Tenants, subscriber : Subscribers, form : Forms]

RegistryTypeOK ==
  /\ Ids(customers) = 1 .. Cardinality(Ids(customers))
  /\ \A i \in Ids(customers) : customers[i] \in Row
  /\ \A i \in Ids(addresses) : addresses[i] \in Ids(customers)
  /\ \A i \in Ids(placed) : placed[i].customer \in Ids(customers)

\* An order is never booked on somebody else: its customer is one of the tenant
\* it was placed with and has the number it was placed under, and each address is
\* the one the request named or else one of that customer, whichever requests
\* race, are refused or are repeated.
OrderIsForItsCustomer ==
  \A i \in Ids(placed) :
    LET o == placed[i]
    IN /\ o.customer \in CustomersOf(o.tenant, o.subscriber)
       /\ \A leg \in Legs :
            \/ o.address[leg] = o.named[leg]
            \/ o.named[leg] = 0 /\ addresses[o.address[leg]] = o.customer

\* When numbers are registered as 08.. and orders give them in a way createOrder
\* knows, nobody is entered twice at one tenant, unless two requests looked for
\* them before either had entered them: a repeated order, or one repeated after
\* a refusal that left its customer behind, finds them again.
OneCustomerPerNumber ==
  \A t \in Tenants, s \in Subscribers :
    <<t, s>> \notin overlapped => Cardinality(CustomersOf(t, s)) <= 1
=============================================================================
