---------------------------- MODULE CourierProofs ----------------------------
(***************************************************************************)
(* Proofs about CourierTracking for any number of orders, requests,        *)
(* clients and pings, any bounds, overlapping pings or not.                *)
(***************************************************************************)
EXTENDS CourierTracking, TLAPS

USE DEF Free, Idle

\* What a request may hold, by its kind.
ProfileCall == [kind : {"profile"}, employee : Ids]
LookupCall == [kind : {"lookup"}, order : Orders, id : Ids]
EnrolCall == [kind : {"enrol"}, order : Orders, id : Ids]
AssignCall == [kind : {"assign"}, order : Orders, id : Ids, courier : Ids]
PingCall == [kind : {"ping"}, order : Orders, courier : Ids, ping : Pings]
Held == {Idle} \cup ProfileCall \cup LookupCall \cup EnrolCall \cup AssignCall
               \cup PingCall

LogRow == [ping : Pings, courier : Ids, order : Orders \cup {"none"}]

\* What a request may rely on while it awaits: nothing it found goes away.
StaffCallOK(c) ==
  /\ c.kind = "profile" => c.employee \in Employees
  /\ c.kind = "enrol" => c.id \in Employees
  /\ c.kind = "assign" =>
       /\ c.courier \in Couriers
       /\ c.courier = c.id \/ courier[c.courier].employee = c.id

\* A ping for o is in the log.
OnFile(o, p) ==
  \E i \in 1 .. Len(locationLog) :
    locationLog[i].ping = p /\ locationLog[i].order = o

\* The kind of what a request holds says what else it holds.
LEMMA HeldByKind ==
  ASSUME NEW c \in Held
  PROVE  /\ c.kind = "idle" => c = Idle
         /\ c.kind = "profile" => c \in ProfileCall
         /\ c.kind = "lookup" => c \in LookupCall
         /\ c.kind = "enrol" => c \in EnrolCall
         /\ c.kind = "assign" => c \in AssignCall
         /\ c.kind = "ping" => c \in PingCall
BY DEF Held, ProfileCall, LookupCall, EnrolCall, AssignCall, PingCall

\* Every entry of the log is a row, which the type invariant says entry by entry.
LEMMA LogTypes ==
  ASSUME NEW s \in Seq(LogRow)
  PROVE  \A i \in 1 .. Len(s) : s[i] \in LogRow
OBVIOUS
-----------------------------------------------------------------------------
(* Type correctness.                                                       *)

\* The typing of the variables, without what follows from the sequence's type.
Typed ==
  /\ employee \in [Ids -> Roles \cup {"none"}]
  /\ courier \in [Ids -> Profile]
  /\ courierId \in [Orders -> Ids \cup {0}]
  /\ asked \in [Orders -> Ids \cup {0}]
  /\ locationLog \in Seq(LogRow)
  /\ room \in [Orders -> SUBSET Clients]
  /\ seen \in [Clients -> [Orders -> Pings \cup {"none"}]]
  /\ call \in [Requests -> Held]

\* The typing implies the type invariant the runs check.
LEMMA TypedSuffices == Typed => TrackingTypeOK
BY LogTypes DEF Typed, TrackingTypeOK, LogRow

\* A profile that is inserted is a profile.
LEMMA InsertType ==
  ASSUME courier \in [Ids -> Profile], NEW c \in Ids, NEW e \in Ids,
         InsertProfile(c, e)
  PROVE  courier' \in [Ids -> Profile]
BY DEF InsertProfile, Profile

\* What is shown is a ping.
LEMMA ShowType ==
  ASSUME seen \in [Clients -> [Orders -> Pings \cup {"none"}]], NEW S,
         NEW o \in Orders, NEW p \in Pings, ShowTo(S, o, p)
  PROVE  seen' \in [Clients -> [Orders -> Pings \cup {"none"}]]
BY DEF ShowTo

\* The tables, the log, the rooms and the requests keep their types.
LEMMA TypedStep == Typed /\ [Next]_trackingVars => Typed'
<1> SUFFICES ASSUME Typed, [Next]_trackingVars PROVE Typed'
  OBVIOUS
<1> USE DEF Typed, staffVars, orderVars, viewVars
<1>1. ASSUME NEW r \in Requests, NEW e \in Ids, NEW role \in Roles,
             CreateEmployee(r, e, role)
      PROVE  Typed'
  BY <1>1 DEF CreateEmployee, Held, ProfileCall
<1>2. ASSUME NEW r \in Requests, NEW e \in Ids,
             NEW role \in Roles \cup {""}, UpdateEmployee(r, e, role)
      PROVE  Typed'
  BY <1>2 DEF UpdateEmployee
<1>3. ASSUME NEW r \in Requests, CreateProfile(r)
      PROVE  Typed'
  <2>1. call[r] \in ProfileCall
    BY <1>3, HeldByKind DEF CreateProfile
  <2>2. courier' \in [Ids -> Profile]
    BY <1>3, <2>1, InsertType DEF CreateProfile, ProfileCall
  <2>3. QED
    BY <1>3, <2>2 DEF CreateProfile, Held
<1>4. ASSUME NEW r \in Requests, NEW o \in Orders, NEW id \in Ids,
             FindCourier(r, o, id)
      PROVE  Typed'
  <2>1. Matching(id) \subseteq Ids
    BY DEF Matching, ProfilesOf, Couriers
  <2>2. CASE Matching(id) # {}
    <3>1. PICK c \in Matching(id) :
            call' = [call EXCEPT ![r] =
              [kind |-> "assign", order |-> o, id |-> id, courier |-> c]]
      BY <1>4, <2>2 DEF FindCourier
    <3>2. [kind |-> "assign", order |-> o, id |-> id, courier |-> c] \in Held
      BY <2>1 DEF Held, AssignCall
    <3>3. QED
      BY <1>4, <3>1, <3>2 DEF FindCourier
  <2>3. CASE Matching(id) = {}
    BY <1>4, <2>3 DEF FindCourier, Held, LookupCall
  <2>4. QED
    BY <2>2, <2>3
<1>5. ASSUME NEW r \in Requests, FindEmployee(r)
      PROVE  Typed'
  <2>1. call[r] \in LookupCall
    BY <1>5, HeldByKind DEF FindEmployee
  <2>2. QED
    BY <1>5, <2>1 DEF FindEmployee, Held, LookupCall, EnrolCall
<1>6. ASSUME NEW r \in Requests, EnrolCourier(r)
      PROVE  Typed'
  <2>1. call[r] \in EnrolCall
    BY <1>6, HeldByKind DEF EnrolCourier
  <2>2. courier' \in [Ids -> Profile]
    BY <1>6, <2>1, InsertType DEF EnrolCourier, EnrolCall
  <2>3. call' \in [Requests -> Held]
    BY <1>6, <2>1 DEF EnrolCourier, EnrolCall, AssignCall, Held
  <2>4. QED
    BY <1>6, <2>2, <2>3 DEF EnrolCourier
<1>7. ASSUME NEW r \in Requests, AssignCourier(r)
      PROVE  Typed'
  <2>1. call[r] \in AssignCall
    BY <1>7, HeldByKind DEF AssignCourier
  <2>2. QED
    BY <1>7, <2>1 DEF AssignCourier, AssignCall, Held
<1>8. ASSUME NEW r \in Requests, Fail(r)
      PROVE  Typed'
  BY <1>8 DEF Fail, Held
<1>9. ASSUME NEW r \in Requests, NEW c \in Ids, NEW o \in Orders \cup {"none"},
             NEW p \in Pings, RecordLocation(r, c, o, p)
      PROVE  Typed'
  <2>1. [ping |-> p, courier |-> c, order |-> o] \in LogRow
    BY DEF LogRow
  <2>2. locationLog' \in Seq(LogRow)
    BY <1>9, <2>1 DEF RecordLocation
  <2>3. call' \in [Requests -> Held]
    BY <1>9 DEF RecordLocation, Held, PingCall
  <2>4. QED
    BY <1>9, <2>2, <2>3 DEF RecordLocation
<1>10. ASSUME NEW r \in Requests, Broadcast(r)
       PROVE  Typed'
  <2>1. call[r] \in PingCall
    BY <1>10, HeldByKind DEF Broadcast
  <2>2. seen' \in [Clients -> [Orders -> Pings \cup {"none"}]]
    BY <1>10, <2>1, ShowType DEF Broadcast, PingCall
  <2>3. QED
    BY <1>10, <2>2 DEF Broadcast, Held
<1>11. ASSUME NEW k \in Clients, NEW o \in Orders,
              JoinOrder(k, o) \/ LeaveOrder(k, o)
       PROVE  Typed'
  BY <1>11 DEF JoinOrder, LeaveOrder
<1>12. CASE Crash
  BY <1>12 DEF Crash, Held
<1>13. CASE UNCHANGED trackingVars
  BY <1>13 DEF trackingVars
<1>14. QED
  BY <1>1, <1>2, <1>3, <1>4, <1>5, <1>6, <1>7, <1>8, <1>9, <1>10, <1>11,
     <1>12, <1>13 DEF Next

\* At first nothing is there but external couriers and perhaps an employee.
LEMMA TypedInit ==
  ASSUME NEW e, NEW role \in Roles \cup {"none"}, InitWith(e, role)
  PROVE  Typed
BY ExternalAssumption DEF InitWith, Typed, Profile, Ids, Held, LogRow

\* The tables, the log, the rooms and the live views are well typed, however
\* many requests, clients and ids there are.
THEOREM TrackingTypeCorrect == TrackingSpec => []TrackingTypeOK
<1>1. Init => Typed
  BY TypedInit DEF Init
<1>2. TrackingSpec => []Typed
  BY <1>1, TypedStep, PTL DEF TrackingSpec
<1>3. QED
  BY <1>2, TypedSuffices, PTL
-----------------------------------------------------------------------------
(* Employees, profiles and assignments.                                    *)

\* No employee and no profile goes away, and no profile changes.
StaffGrows ==
  /\ Employees \subseteq Employees'
  /\ \A c \in Couriers : c \in Couriers' /\ courier'[c] = courier[c]

\* As long as staff only grows, what a request relies on stays true.
LEMMA CallKept ==
  ASSUME StaffGrows, NEW q \in Requests, StaffCallOK(call[q]),
         call'[q] = call[q] \/ call'[q] = Idle
  PROVE  StaffCallOK(call[q])'
BY DEF StaffGrows, StaffCallOK

\* So do the assignments that were made.
LEMMA AssignedKept ==
  ASSUME StaffGrows, AssignedWasAskedFor, UNCHANGED orderVars
  PROVE  AssignedWasAskedFor'
BY DEF StaffGrows, AssignedWasAskedFor, orderVars

\* A profile for an employee who has none fits in with the others.
LEMMA ProfileInserted ==
  ASSUME Typed, ProfilesMatchEmployees, UNCHANGED employee,
         NEW c \in Ids, NEW e \in Employees, ProfilesOf(e) = {},
         InsertProfile(c, e)
  PROVE  /\ StaffGrows
         /\ ProfilesMatchEmployees'
         /\ c \in Couriers'
         /\ courier'[c].employee = e
<1>1. c \notin Couriers
  BY DEF InsertProfile, Fresh, Couriers, Ids
<1>2. courier' = [courier EXCEPT ![c] = [exists |-> TRUE, employee |-> e]]
  BY DEF InsertProfile
<1>3. /\ courier'[c] = [exists |-> TRUE, employee |-> e]
      /\ \A x \in Ids : x # c => courier'[x] = courier[x]
  BY <1>2 DEF Typed
<1>4. Couriers' = Couriers \cup {c}
  BY <1>3 DEF Couriers
<1>5. Employees' = Employees
  BY DEF Employees
<1>6. StaffGrows
  BY <1>1, <1>3, <1>4, <1>5 DEF StaffGrows, Couriers
<1>7. ASSUME NEW x \in Couriers', courier'[x].employee # 0
      PROVE  /\ courier'[x].employee \in Employees'
             /\ (ProfilesOf(courier[x].employee))' = {x}
  <2>1. CASE x = c
    <3>1. \A y \in Couriers : courier[y].employee # e
      BY DEF ProfilesOf
    <3>2. \A y \in Couriers' : courier'[y].employee = e <=> y = c
      BY <1>1, <1>3, <1>4, <3>1 DEF Couriers
    <3>3. QED
      BY <1>3, <1>5, <2>1, <3>2 DEF ProfilesOf
  <2>2. CASE x # c
    <3>1. /\ x \in Couriers
          /\ courier'[x] = courier[x]
      BY <1>3, <1>4, <2>2 DEF Couriers
    <3>2. /\ courier[x].employee \in Employees
          /\ ProfilesOf(courier[x].employee) = {x}
      BY <1>7, <3>1 DEF ProfilesMatchEmployees
    <3>3. courier[x].employee # e
      BY <3>2
    <3>4. \A y \in Couriers' :
            courier'[y].employee = courier[x].employee <=> y = x
      BY <1>1, <1>3, <1>4, <3>1, <3>2, <3>3 DEF ProfilesOf, Couriers
    <3>5. QED
      BY <1>4, <1>5, <3>1, <3>2, <3>4 DEF ProfilesOf
  <2>3. QED
    BY <2>1, <2>2
<1>8. ProfilesMatchEmployees'
  BY <1>7 DEF ProfilesMatchEmployees
<1>9. QED
  BY <1>3, <1>4, <1>6, <1>8

\* Where the profiles stay as they are and no employee goes, they still match.
LEMMA ProfilesKept ==
  ASSUME ProfilesMatchEmployees, UNCHANGED courier,
         Employees \subseteq Employees'
  PROVE  ProfilesMatchEmployees' /\ StaffGrows
BY DEF ProfilesMatchEmployees, ProfilesOf, Couriers, StaffGrows

\* The part of the invariant that is not about types.
Staff ==
  /\ ProfilesMatchEmployees
  /\ AssignedWasAskedFor
  /\ \A r \in Requests : StaffCallOK(call[r])

\* A step that leaves employees, profiles and orders alone and ends requests,
\* or gives r something to hold it may rely on.
LEMMA StaffKept ==
  ASSUME Staff, UNCHANGED <<staffVars, orderVars>>,
         \A q \in Requests : \/ call'[q] = call[q] \/ call'[q] = Idle
                             \/ StaffCallOK(call[q])'
  PROVE  Staff'
<1>1. Employees' = Employees
  BY DEF Employees, staffVars
<1>2. ProfilesMatchEmployees' /\ StaffGrows
  BY <1>1, ProfilesKept DEF Staff, staffVars
<1>3. QED
  BY <1>2, CallKept, AssignedKept DEF Staff

\* The requests of a step in which only r's changes.
LEMMA OthersUntouched ==
  ASSUME Typed, NEW r \in Requests, NEW v, call' = [call EXCEPT ![r] = v]
  PROVE  /\ call'[r] = v
         /\ \A q \in Requests : q # r => call'[q] = call[q]
BY DEF Typed

\* Every step keeps profiles, assignments and what requests rely on.
LEMMA StaffStep == Typed /\ Staff /\ [Next]_trackingVars => Staff'
<1> SUFFICES ASSUME Typed, Staff, [Next]_trackingVars PROVE Staff'
  OBVIOUS
<1>1. ASSUME NEW r \in Requests, NEW e \in Ids, NEW role \in Roles,
             CreateEmployee(r, e, role)
      PROVE  Staff'
  <2>1. /\ Employees \subseteq Employees'
        /\ e \in Employees'
    BY <1>1, RolesAssumption DEF CreateEmployee, Employees, Typed
  <2>2. ProfilesMatchEmployees' /\ StaffGrows
    BY <1>1, <2>1, ProfilesKept DEF CreateEmployee, Staff
  <2>3. AssignedWasAskedFor'
    BY <1>1, <2>2, AssignedKept DEF CreateEmployee, Staff
  <2>4. ASSUME NEW q \in Requests PROVE StaffCallOK(call[q])'
    <3>1. CASE call'[q] = call[q]
      BY <2>2, <3>1, CallKept DEF Staff
    <3>2. CASE call'[q] # call[q]
      <4>1. call'[q] = [kind |-> "profile", employee |-> e]
        BY <1>1, <3>2 DEF CreateEmployee, Typed
      <4>2. QED
        BY <2>1, <4>1 DEF StaffCallOK
    <3>3. QED
      BY <3>1, <3>2
  <2>5. QED
    BY <2>2, <2>3, <2>4 DEF Staff
<1>2. ASSUME NEW r \in Requests, NEW e \in Ids,
             NEW role \in Roles \cup {""}, UpdateEmployee(r, e, role)
      PROVE  Staff'
  <2>1. Employees \subseteq Employees'
    BY <1>2, RolesAssumption DEF UpdateEmployee, Employees, Typed
  <2>2. ProfilesMatchEmployees' /\ StaffGrows
    BY <1>2, <2>1, ProfilesKept DEF UpdateEmployee, Staff
  <2>3. QED
    BY <1>2, <2>2, AssignedKept, CallKept DEF UpdateEmployee, Staff
<1>3. ASSUME NEW r \in Requests, CreateProfile(r)
      PROVE  Staff'
  <2> DEFINE e == call[r].employee
  <2>1. e \in Employees
    BY <1>3 DEF CreateProfile, Staff, StaffCallOK
  <2>2. ProfilesMatchEmployees' /\ StaffGrows
    <3>1. CASE ProfilesOf(e) = {}
      <4>1. PICK c \in Ids : InsertProfile(c, e)
        BY <1>3, <3>1 DEF CreateProfile
      <4>2. QED
        BY <1>3, <2>1, <3>1, <4>1, ProfileInserted DEF CreateProfile, Staff
    <3>2. CASE ProfilesOf(e) # {}
      <4>1. UNCHANGED <<courier, employee>>
        BY <1>3, <3>2 DEF CreateProfile
      <4>2. QED
        BY <4>1, ProfilesKept DEF Staff, Employees
    <3>3. QED
      BY <3>1, <3>2
  <2>3. \A q \in Requests : call'[q] = call[q] \/ call'[q] = Idle
    BY <1>3 DEF CreateProfile, Typed
  <2>4. QED
    BY <1>3, <2>2, <2>3, AssignedKept, CallKept DEF CreateProfile, Staff
<1>4. ASSUME NEW r \in Requests, NEW o \in Orders, NEW id \in Ids,
             FindCourier(r, o, id)
      PROVE  Staff'
  <2>1. ASSUME NEW q \in Requests
        PROVE  call'[q] = call[q] \/ StaffCallOK(call[q])'
    <3>1. CASE Matching(id) # {}
      <4>1. PICK c \in Matching(id) :
              call' = [call EXCEPT ![r] =
                [kind |-> "assign", order |-> o, id |-> id, courier |-> c]]
        BY <1>4, <3>1 DEF FindCourier
      <4>2. /\ c \in Couriers'
            /\ c = id \/ courier'[c].employee = id
        BY <1>4, <4>1 DEF FindCourier, Matching, ProfilesOf, Couriers, staffVars
      <4>3. QED
        BY <4>1, <4>2, OthersUntouched DEF StaffCallOK
    <3>2. CASE Matching(id) = {}
      BY <1>4, <3>2, OthersUntouched DEF FindCourier, StaffCallOK
    <3>3. QED
      BY <3>1, <3>2
  <2>2. QED
    BY <1>4, <2>1, StaffKept DEF FindCourier
<1>5. ASSUME NEW r \in Requests, FindEmployee(r)
      PROVE  Staff'
  <2>1. call[r] \in LookupCall
    BY <1>5, HeldByKind DEF FindEmployee, Typed
  <2>2. CASE employee[call[r].id] = "kurir"
    <3>1. call' = [call EXCEPT ![r] =
            [kind |-> "enrol", order |-> call[r].order, id |-> call[r].id]]
      BY <1>5, <2>2 DEF FindEmployee
    <3>2. call[r].id \in Employees
      BY <2>1, <2>2 DEF Employees, LookupCall
    <3>3. Employees' = Employees
      BY <1>5 DEF FindEmployee, Employees, staffVars
    <3>4. \A q \in Requests : call'[q] = call[q] \/ StaffCallOK(call[q])'
      BY <3>1, <3>2, <3>3, OthersUntouched DEF StaffCallOK
    <3>5. QED
      BY <1>5, <3>4, StaffKept DEF FindEmployee
  <2>3. CASE employee[call[r].id] # "kurir"
    <3>1. \A q \in Requests : call'[q] = call[q] \/ call'[q] = Idle
      BY <1>5, <2>3 DEF FindEmployee, Typed
    <3>2. QED
      BY <1>5, <3>1, StaffKept DEF FindEmployee
  <2>4. QED
    BY <2>2, <2>3
<1>6. ASSUME NEW r \in Requests, EnrolCourier(r)
      PROVE  Staff'
  <2> DEFINE e == call[r].id
  <2>1. e \in Employees
    BY <1>6 DEF EnrolCourier, Staff, StaffCallOK
  <2>2. CASE ProfilesOf(e) = {}
    <3>1. PICK c \in Ids :
            /\ InsertProfile(c, e)
            /\ call' = [call EXCEPT ![r] = [kind |-> "assign",
                 order |-> call[r].order, id |-> e, courier |-> c]]
      BY <1>6, <2>2 DEF EnrolCourier
    <3>2. /\ StaffGrows
          /\ ProfilesMatchEmployees'
          /\ c \in Couriers'
          /\ courier'[c].employee = e
      BY <1>6, <2>1, <2>2, <3>1, ProfileInserted DEF EnrolCourier, Staff
    <3>3. StaffCallOK(call[r])'
      <4>1. call'[r] = [kind |-> "assign", order |-> call[r].order, id |-> e,
                        courier |-> c]
        BY <3>1, OthersUntouched
      <4>2. /\ call'[r].kind = "assign"
            /\ call'[r].id = e
            /\ call'[r].courier = c
        BY <4>1
      <4>3. QED
        BY <3>2, <4>2 DEF StaffCallOK
    <3>4. \A q \in Requests \ {r} : call'[q] = call[q]
      BY <3>1, OthersUntouched
    <3>5. QED
      BY <1>6, <3>2, <3>3, <3>4, AssignedKept, CallKept DEF EnrolCourier, Staff
  <2>3. CASE ProfilesOf(e) # {}
    <3>1. /\ \A q \in Requests : call'[q] = call[q] \/ call'[q] = Idle
          /\ UNCHANGED <<staffVars, orderVars>>
      BY <1>6, <2>3 DEF EnrolCourier, Typed, staffVars
    <3>2. QED
      BY <3>1, StaffKept
  <2>4. QED
    BY <2>2, <2>3
<1>7. ASSUME NEW r \in Requests, AssignCourier(r)
      PROVE  Staff'
  <2>1. call[r] \in AssignCall /\ StaffCallOK(call[r])
    BY <1>7, HeldByKind DEF AssignCourier, Typed, Staff
  <2>2. /\ Employees' = Employees
        /\ UNCHANGED courier
    BY <1>7 DEF AssignCourier, Employees, staffVars
  <2>3. ProfilesMatchEmployees' /\ StaffGrows
    BY <2>2, ProfilesKept DEF Staff
  <2>4. AssignedWasAskedFor'
    BY <1>7, <2>1, <2>2
    DEF AssignCourier, AssignedWasAskedFor, AssignCall, StaffCallOK, Staff,
        Typed, Couriers
  <2>5. \A q \in Requests : call'[q] = call[q] \/ call'[q] = Idle
    BY <1>7 DEF AssignCourier, Typed
  <2>6. QED
    BY <2>3, <2>4, <2>5, CallKept DEF Staff
<1>8. ASSUME NEW r \in Requests, Fail(r) \/ Broadcast(r)
      PROVE  Staff'
  BY <1>8, StaffKept DEF Fail, Broadcast, Typed
<1>9. ASSUME NEW r \in Requests, NEW c \in Ids, NEW o \in Orders \cup {"none"},
             NEW p \in Pings, RecordLocation(r, c, o, p)
      PROVE  Staff'
  <2>1. \A q \in Requests : call'[q] = call[q] \/ StaffCallOK(call[q])'
    BY <1>9, OthersUntouched DEF RecordLocation, StaffCallOK
  <2>2. QED
    BY <1>9, <2>1, StaffKept DEF RecordLocation
<1>10. ASSUME NEW k \in Clients, NEW o \in Orders,
              JoinOrder(k, o) \/ LeaveOrder(k, o)
       PROVE  Staff'
  BY <1>10, StaffKept DEF JoinOrder, LeaveOrder
<1>11. CASE Crash
  BY <1>11, StaffKept DEF Crash
<1>12. CASE UNCHANGED trackingVars
  BY <1>12, StaffKept DEF trackingVars
<1>13. QED
  BY <1>1, <1>2, <1>3, <1>4, <1>5, <1>6, <1>7, <1>8, <1>9, <1>10, <1>11,
     <1>12 DEF Next

\* At first no profile has an employee and no order a courier.
LEMMA StaffBegins ==
  ASSUME NEW e, NEW role, InitWith(e, role)
  PROVE  Staff
BY DEF InitWith, Staff, ProfilesMatchEmployees, AssignedWasAskedFor, StaffCallOK,
       Couriers

\* The inductive invariant holds throughout.
LEMMA StaffHolds == TrackingSpec => [](Typed /\ Staff)
<1>1. Init => Typed /\ Staff
  BY TypedInit, StaffBegins DEF Init
<1>2. Typed /\ Staff /\ [Next]_trackingVars => (Typed /\ Staff)'
  BY TypedStep, StaffStep
<1>3. QED
  BY <1>1, <1>2, PTL DEF TrackingSpec

\* Profiles and employees stay in step for any number of requests.
THEOREM ProfilesMatch == TrackingSpec => []ProfilesMatchEmployees
<1>1. Staff => ProfilesMatchEmployees
  BY DEF Staff
<1>2. QED
  BY <1>1, StaffHolds, PTL

\* The courier of an order is one that was asked for, however assignments race.
THEOREM AssignmentIsAskedFor == TrackingSpec => []AssignedWasAskedFor
<1>1. Staff => AssignedWasAskedFor
  BY DEF Staff
<1>2. QED
  BY <1>1, StaffHolds, PTL
-----------------------------------------------------------------------------
(* What clients are shown.                                                 *)

\* What is shown, or about to be, is in the log.
Shown ==
  /\ ShownIsOnFile
  /\ \A r \in Requests :
       call[r].kind = "ping" => OnFile(call[r].order, call[r].ping)

\* The log only grows at its end.
LEMMA FileKept ==
  ASSUME NEW row \in LogRow, locationLog \in Seq(LogRow),
         locationLog' = Append(locationLog, row)
  PROVE  /\ \A o, p : OnFile(o, p) => OnFile(o, p)'
         /\ OnFile(row.order, row.ping)'
<1>1. /\ Len(locationLog') = Len(locationLog) + 1
      /\ Len(locationLog) \in Nat
      /\ \A i \in 1 .. Len(locationLog) : locationLog'[i] = locationLog[i]
      /\ locationLog'[Len(locationLog) + 1] = row
  OBVIOUS
<1>2. QED
  BY <1>1 DEF OnFile

\* Where the log stays as it is, requests end at most, and clients keep or lose
\* what they see, all that is shown is still in the log.
LEMMA ShownKept ==
  ASSUME Shown, UNCHANGED locationLog,
         \A k \in Clients, o \in Orders :
           seen'[k][o] = seen[k][o] \/ seen'[k][o] = "none",
         \A q \in Requests :
           call'[q] = call[q] \/ call'[q].kind # "ping"
  PROVE  Shown'
BY DEF Shown, ShownIsOnFile, OnFile

\* What requests do about staff and assignments, their failures included.
AboutStaff(r) ==
  \/ \E e \in Ids, role \in Roles : CreateEmployee(r, e, role)
  \/ \E e \in Ids, role \in Roles \cup {""} : UpdateEmployee(r, e, role)
  \/ \E o \in Orders, id \in Ids : FindCourier(r, o, id)
  \/ CreateProfile(r) \/ FindEmployee(r) \/ EnrolCourier(r)
  \/ AssignCourier(r) \/ Fail(r)

\* It touches neither the log, nor the rooms, nor the pings being handled.
LEMMA StaffStepsShowNothing ==
  ASSUME Typed, NEW r \in Requests, AboutStaff(r)
  PROVE  /\ UNCHANGED viewVars
         /\ \A q \in Requests :
              \/ call'[q] = call[q]
              \/ call[q].kind # "ping" /\ call'[q].kind # "ping"
<1>1. UNCHANGED viewVars
  <2>1. ASSUME NEW e \in Ids, NEW role \in Roles \cup {""},
               CreateEmployee(r, e, role) \/ UpdateEmployee(r, e, role)
        PROVE  UNCHANGED viewVars
    BY <2>1 DEF CreateEmployee, UpdateEmployee
  <2>2. ASSUME NEW o \in Orders, NEW id \in Ids, FindCourier(r, o, id)
        PROVE  UNCHANGED viewVars
    BY <2>2 DEF FindCourier
  <2>3. QED
    BY <2>1, <2>2 DEF AboutStaff, CreateProfile, FindEmployee, EnrolCourier,
                      AssignCourier, Fail
<1>2. call[r].kind # "ping"
  <2>1. \/ call[r] = Idle
        \/ call[r].kind \in {"profile", "lookup", "enrol", "assign"}
    <3>1. ASSUME NEW e, NEW role,
                 CreateEmployee(r, e, role) \/ UpdateEmployee(r, e, role)
          PROVE  call[r] = Idle
      BY <3>1 DEF CreateEmployee, UpdateEmployee
    <3>2. ASSUME NEW o, NEW id, FindCourier(r, o, id)
          PROVE  call[r] = Idle
      BY <3>2 DEF FindCourier
    <3>3. QED
      BY <3>1, <3>2 DEF AboutStaff, CreateProfile, FindEmployee, EnrolCourier,
                        AssignCourier, Fail
  <2>2. QED
    BY <2>1
<1>3. call' = call \/ \E v : v.kind # "ping" /\ call' = [call EXCEPT ![r] = v]
  <2> DEFINE Becomes(v) == v.kind # "ping" /\ call' = [call EXCEPT ![r] = v]
  <2> SUFFICES call' = call \/ \E v : Becomes(v)
    OBVIOUS
  <2>1. CASE \E e \in Ids, role \in Roles : CreateEmployee(r, e, role)
    <3>1. PICK e \in Ids, role \in Roles : CreateEmployee(r, e, role)
      BY <2>1
    <3>2. call' = call \/ Becomes([kind |-> "profile", employee |-> e])
      BY <3>1 DEF CreateEmployee
    <3>3. QED
      BY <3>2
  <2>2. CASE \E o \in Orders, id \in Ids : FindCourier(r, o, id)
    <3>1. PICK v : Becomes(v)
      BY <2>2 DEF FindCourier
    <3>2. QED
      BY <3>1
  <2>3. CASE CreateProfile(r) \/ AssignCourier(r) \/ Fail(r)
    <3>1. Becomes(Idle)
      BY <2>3 DEF CreateProfile, AssignCourier, Fail
    <3>2. QED
      BY <3>1
  <2>4. CASE FindEmployee(r)
    <3>1. \/ Becomes([kind |-> "enrol", order |-> call[r].order, id |-> call[r].id])
          \/ Becomes(Idle)
      BY <2>4 DEF FindEmployee
    <3>2. QED
      BY <3>1
  <2>5. CASE EnrolCourier(r)
    <3>1. PICK v : Becomes(v)
      BY <2>5 DEF EnrolCourier
    <3>2. QED
      BY <3>1
  <2>6. CASE \E e \in Ids, role \in Roles \cup {""} : UpdateEmployee(r, e, role)
    BY <2>6 DEF UpdateEmployee
  <2>7. QED
    BY <2>1, <2>2, <2>3, <2>4, <2>5, <2>6 DEF AboutStaff
<1>4. QED
  BY <1>1, <1>2, <1>3, OthersUntouched

\* Every step keeps what is shown, or about to be, in the log.
LEMMA ShownStep == Typed /\ Shown /\ [Next]_trackingVars => Shown'
<1> SUFFICES ASSUME Typed, Shown, [Next]_trackingVars PROVE Shown'
  OBVIOUS
<1>1. ASSUME NEW r \in Requests, AboutStaff(r)
      PROVE  Shown'
  BY <1>1, StaffStepsShowNothing, ShownKept DEF viewVars
<1>2. ASSUME NEW r \in Requests, NEW c \in Ids, NEW o \in Orders \cup {"none"},
             NEW p \in Pings, RecordLocation(r, c, o, p)
      PROVE  Shown'
  <2> DEFINE row == [ping |-> p, courier |-> c, order |-> o]
  <2>1. row \in LogRow /\ locationLog' = Append(locationLog, row)
    BY <1>2 DEF RecordLocation, LogRow
  <2>2. /\ \A a, b : OnFile(a, b) => OnFile(a, b)'
        /\ OnFile(o, p)'
    BY <2>1, FileKept DEF Typed
  <2>3. ShownIsOnFile'
    BY <1>2, <2>2 DEF RecordLocation, ShownIsOnFile, OnFile, Shown
  <2>4. ASSUME NEW q \in Requests, call'[q].kind = "ping"
        PROVE  OnFile(call[q].order, call[q].ping)'
    <3>1. CASE call'[q] = call[q]
      BY <2>2, <2>4, <3>1 DEF Shown, OnFile
    <3>2. CASE call'[q] # call[q]
      <4>1. call'[q] = [kind |-> "ping", order |-> o, courier |-> c, ping |-> p]
        BY <1>2, <3>2 DEF RecordLocation, Typed
      <4>2. QED
        BY <2>2, <4>1 DEF OnFile
    <3>3. QED
      BY <3>1, <3>2
  <2>5. QED
    BY <2>3, <2>4 DEF Shown
<1>3. ASSUME NEW r \in Requests, Broadcast(r)
      PROVE  Shown'
  <2>1. /\ call[r].kind = "ping"
        /\ UNCHANGED locationLog
        /\ call' = [call EXCEPT ![r] = Idle]
        /\ ShowTo(room[call[r].order], call[r].order, call[r].ping)
    BY <1>3 DEF Broadcast
  <2>2. call[r].order \in Orders
    BY <2>1, HeldByKind DEF Typed, PingCall
  <2>3. \A k \in Clients, o \in Orders :
          \/ seen'[k][o] = seen[k][o]
          \/ o = call[r].order /\ seen'[k][o] = call[r].ping
    BY <2>1, <2>2 DEF ShowTo, Typed
  <2>4. OnFile(call[r].order, call[r].ping)
    BY <2>1 DEF Shown
  <2>5. ShownIsOnFile'
    BY <2>1, <2>3, <2>4 DEF Shown, ShownIsOnFile, OnFile
  <2>6. \A q \in Requests : call'[q] = call[q] \/ call'[q].kind # "ping"
    BY <2>1, OthersUntouched
  <2>7. QED
    BY <2>1, <2>5, <2>6 DEF Shown, OnFile
<1>4. ASSUME NEW k \in Clients, NEW o \in Orders,
             JoinOrder(k, o) \/ LeaveOrder(k, o)
      PROVE  Shown'
  <2>1. \A c \in Clients, a \in Orders :
          seen'[c][a] = seen[c][a] \/ seen'[c][a] = "none"
    BY <1>4 DEF JoinOrder, LeaveOrder, Typed
  <2>2. QED
    BY <1>4, <2>1, ShownKept DEF JoinOrder, LeaveOrder
<1>5. CASE Crash
  BY <1>5, ShownKept DEF Crash
<1>6. CASE UNCHANGED trackingVars
  BY <1>6, ShownKept DEF trackingVars, viewVars
<1>7. QED
  BY <1>1, <1>2, <1>3, <1>4, <1>5, <1>6 DEF Next, AboutStaff

\* At first nobody was shown anything.
LEMMA ShownInit ==
  ASSUME NEW e, NEW role, InitWith(e, role)
  PROVE  Shown
BY DEF InitWith, Shown, ShownIsOnFile

\* A position that was shown live is on file, even where pings overlap.
THEOREM ShownPositionsAreOnFile == TrackingSpec => []ShownIsOnFile
<1>1. Init => Typed /\ Shown
  BY TypedInit, ShownInit DEF Init
<1>2. Typed /\ Shown /\ [Next]_trackingVars => (Typed /\ Shown)'
  BY TypedStep, ShownStep
<1>3. Typed /\ Shown => ShownIsOnFile
  BY DEF Shown
<1>4. QED
  BY <1>1, <1>2, <1>3, PTL DEF TrackingSpec
-----------------------------------------------------------------------------
(* The live view, where pings for an order are sent one at a time.         *)

RowsOf(o) == {i \in 1 .. Len(locationLog) : locationLog[i].order = o}

Newest(o, i) == i \in RowsOf(o) /\ \A j \in RowsOf(o) : j <= i

PingOf(q, o) == call[q].kind = "ping" /\ call[q].order = o

\* The strengthening: at most one ping of an order is being handled, and it is
\* the newest on file; who is not in the room sees nothing.  That the rows of an
\* order have a newest one is part of it, where an induction would give it.
Live ==
  /\ \A o \in Orders : RowsOf(o) # {} => \E i \in RowsOf(o) : Newest(o, i)
  /\ \A o \in Orders, q, r \in Requests :
       PingOf(q, o) /\ PingOf(r, o) => q = r
  /\ \A o \in Orders, q \in Requests : PingOf(q, o) => call[q].ping = LatestOf(o)
  /\ \A o \in Orders : \A k \in Clients \ room[o] : seen[k][o] = "none"
  /\ LiveViewIsCurrent

\* The newest row gives the newest ping.
NewestIsLatest ==
  \A o, i : Newest(o, i) => LatestOf(o) = locationLog[i].ping

\* So it does, the log being appended to at its end.
LEMMA LatestIsNewest == NewestIsLatest
<1> SUFFICES ASSUME NEW o, NEW i, Newest(o, i)
             PROVE  LatestOf(o) = locationLog[i].ping
  BY DEF NewestIsLatest
<1>1. \A j \in RowsOf(o) : (\A k \in RowsOf(o) : k <= j) => j = i
  BY DEF Newest, RowsOf
<1>2. (CHOOSE j \in RowsOf(o) : \A k \in RowsOf(o) : k <= j) = i
  BY <1>1 DEF Newest
<1>3. QED
  BY <1>2 DEF LatestOf, RowsOf, Newest

\* And after every step.
LEMMA LatestStaysNewest == NewestIsLatest'
BY LatestIsNewest, PTL

\* A ping that is recorded is the newest of its order, and that of no other.
LEMMA LatestAfter ==
  ASSUME Typed, Live, NEW row \in LogRow, locationLog' = Append(locationLog, row),
         NEW o \in Orders
  PROVE  /\ (RowsOf(o) # {} => \E i \in RowsOf(o) : Newest(o, i))'
         /\ LatestOf(o)' = IF row.order = o THEN row.ping ELSE LatestOf(o)
<1>1. PICK n \in Nat :
        /\ n = Len(locationLog)
        /\ Len(locationLog') = n + 1
        /\ \A i \in 1 .. n : locationLog'[i] = locationLog[i]
        /\ locationLog'[n + 1] = row
  BY DEF Typed
<1>2. RowsOf(o)' = RowsOf(o) \cup (IF row.order = o THEN {n + 1} ELSE {})
  BY <1>1 DEF RowsOf
<1>3. RowsOf(o) \subseteq 1 .. n
  BY <1>1 DEF RowsOf
<1>4. (\A a, i : Newest(a, i) => LatestOf(a) = locationLog[i].ping)'
  BY LatestStaysNewest DEF NewestIsLatest
<1>5. CASE row.order = o
  <2>1. Newest(o, n + 1)'
    BY <1>1, <1>2, <1>3, <1>5 DEF Newest
  <2>2. QED
    BY <1>1, <1>4, <1>5, <2>1 DEF Newest
<1>6. CASE row.order # o /\ RowsOf(o) # {}
  <2>1. PICK i \in RowsOf(o) : Newest(o, i)
    BY <1>6 DEF Live
  <2>2. Newest(o, i)'
    BY <1>2, <1>6, <2>1 DEF Newest
  <2>3. LatestOf(o) = locationLog[i].ping /\ LatestOf(o)' = locationLog'[i].ping
    BY <1>4, <2>1, <2>2, LatestIsNewest DEF NewestIsLatest
  <2>4. QED
    BY <1>1, <1>3, <1>6, <2>1, <2>2, <2>3 DEF Newest
<1>7. CASE row.order # o /\ RowsOf(o) = {}
  <2>1. RowsOf(o)' = {}
    BY <1>2, <1>7
  <2>2. LatestOf(o) = "none" /\ LatestOf(o)' = "none"
    BY <1>7, <2>1 DEF LatestOf, RowsOf
  <2>3. QED
    BY <1>7, <2>1, <2>2
<1>8. QED
  BY <1>5, <1>6, <1>7

\* Where the log and the rooms stay as they are and no request begins or ends a
\* ping, the live view does.
LEMMA LiveKept ==
  ASSUME Live, UNCHANGED viewVars,
         \A q \in Requests :
           \/ call'[q] = call[q]
           \/ call[q].kind # "ping" /\ call'[q].kind # "ping"
  PROVE  Live'
<1>1. UNCHANGED <<locationLog, room, seen>>
  BY DEF viewVars
<1>2. \A o \in Orders : /\ RowsOf(o)' = RowsOf(o) /\ LatestOf(o)' = LatestOf(o)
                        /\ \A i : Newest(o, i)' = Newest(o, i)
  BY <1>1 DEF RowsOf, LatestOf, Newest
<1>3. \A o \in Orders, q \in Requests :
        /\ PingOf(q, o)' = PingOf(q, o)
        /\ PingOf(q, o) => call'[q] = call[q]
  BY DEF PingOf
<1>4. LiveViewIsCurrent'
  BY <1>1, <1>2 DEF Live, LiveViewIsCurrent
<1>5. QED
  BY <1>1, <1>2, <1>3, <1>4 DEF Live

\* Every step keeps the live view, where pings do not overlap.
LEMMA LiveStep ==
  ~OverlappingPings /\ Typed /\ Live /\ [Next]_trackingVars => Live'
<1> SUFFICES ASSUME ~OverlappingPings, Typed, Live, [Next]_trackingVars
             PROVE  Live'
  OBVIOUS
<1>1. ASSUME NEW r \in Requests, AboutStaff(r)
      PROVE  Live'
  BY <1>1, StaffStepsShowNothing, LiveKept
<1>2. ASSUME NEW r \in Requests, NEW c \in Ids, NEW o \in Orders \cup {"none"},
             NEW p \in Pings, RecordLocation(r, c, o, p)
      PROVE  Live'
  <2> DEFINE row == [ping |-> p, courier |-> c, order |-> o]
  <2>1. row \in LogRow /\ locationLog' = Append(locationLog, row)
        /\ row.order = o /\ row.ping = p
    BY <1>2 DEF RecordLocation, LogRow
  <2> HIDE DEF row
  <2>2. \A x \in Orders :
          /\ (RowsOf(x) # {} => \E i \in RowsOf(x) : Newest(x, i))'
          /\ LatestOf(x)' = IF x = o THEN p ELSE LatestOf(x)
    BY <2>1, LatestAfter
  <2>3. UNCHANGED <<room, seen>>
    BY <1>2 DEF RecordLocation
  <2>4. \A x \in Orders : ~PingOf(r, x)
    BY <1>2 DEF RecordLocation, PingOf
  <2>5. \A q \in Requests : ~PingOf(q, o)
    BY <1>2 DEF RecordLocation, MaySend, PingOf
  <2>6. /\ \A q \in Requests \ {r} : call'[q] = call[q]
        /\ o \in Orders => call'[r] = [kind |-> "ping", order |-> o,
                                       courier |-> c, ping |-> p]
        /\ o \notin Orders => call'[r] = call[r]
    BY <1>2 DEF RecordLocation, Typed
  <2>7. /\ \A q \in Requests \ {r}, x \in Orders : PingOf(q, x)' <=> PingOf(q, x)
        /\ \A x \in Orders : PingOf(r, x)' <=> x = o
    BY <2>4, <2>6 DEF PingOf
  <2>8. \A x \in Orders, q \in Requests : PingOf(q, x)' => call'[q].ping = LatestOf(x)'
    <3>1. TAKE x \in Orders, q \in Requests
    <3>2. CASE q = r
      BY <2>2, <2>6, <2>7, <3>2
    <3>3. CASE q # r
      BY <2>2, <2>5, <2>6, <2>7, <3>3 DEF Live
    <3>4. QED
      BY <3>2, <3>3
  <2>9. LiveViewIsCurrent'
    <3> SUFFICES ASSUME NEW k \in Clients, NEW x \in Orders,
                        k \in room'[x], seen'[k][x] # "none",
                        \A q \in Requests : ~PingOf(q, x)'
                 PROVE  seen'[k][x] = LatestOf(x)'
      BY DEF LiveViewIsCurrent, PingOf
    <3>1. x # o /\ \A q \in Requests : ~PingOf(q, x)
      BY <2>4, <2>7
    <3>2. seen[k][x] = LatestOf(x)
      BY <2>3, <3>1 DEF Live, LiveViewIsCurrent, PingOf
    <3>3. QED
      BY <2>2, <2>3, <3>1, <3>2
  <2>10. \A x \in Orders, q, s \in Requests : PingOf(q, x)' /\ PingOf(s, x)' => q = s
    BY <2>5, <2>7 DEF Live
  <2>11. QED
    BY <2>2, <2>3, <2>8, <2>9, <2>10 DEF Live
<1>3. ASSUME NEW r \in Requests, Broadcast(r)
      PROVE  Live'
  <2>1. /\ call[r].kind = "ping" /\ call[r].order \in Orders
        /\ UNCHANGED <<locationLog, room>>
        /\ ShowTo(room[call[r].order], call[r].order, call[r].ping)
        /\ call'[r] = Idle
        /\ \A q \in Requests \ {r} : call'[q] = call[q]
    BY <1>3, HeldByKind DEF Broadcast, Typed, PingCall
  <2>2. PICK o \in Orders : o = call[r].order
    BY <2>1
  <2>3. PingOf(r, o) /\ call[r].ping = LatestOf(o)
    BY <2>1, <2>2 DEF Live, PingOf
  <2>4. \A k \in Clients, x \in Orders :
          seen'[k][x] = IF x = o /\ k \in room[o] THEN call[r].ping ELSE seen[k][x]
    BY <2>1, <2>2 DEF ShowTo, Typed
  <2>5. \A x \in Orders : /\ RowsOf(x)' = RowsOf(x) /\ LatestOf(x)' = LatestOf(x)
                          /\ \A i : Newest(x, i)' = Newest(x, i)
    BY <2>1 DEF RowsOf, LatestOf, Newest
  <2>6. /\ \A q \in Requests \ {r}, x \in Orders : PingOf(q, x)' <=> PingOf(q, x)
        /\ \A x \in Orders : ~PingOf(r, x)'
        /\ \A x \in Orders : PingOf(r, x) => x = o
    BY <2>1, <2>2 DEF PingOf
  <2>7. LiveViewIsCurrent'
    <3> SUFFICES ASSUME NEW k \in Clients, NEW x \in Orders,
                        k \in room'[x], seen'[k][x] # "none",
                        \A q \in Requests : ~PingOf(q, x)'
                 PROVE  seen'[k][x] = LatestOf(x)'
      BY DEF LiveViewIsCurrent, PingOf
    <3>1. CASE x = o
      BY <2>1, <2>3, <2>4, <2>5, <3>1
    <3>2. CASE x # o
      <4>1. \A q \in Requests : ~PingOf(q, x)
        BY <2>6, <3>2
      <4>2. QED
        BY <2>1, <2>4, <2>5, <3>2, <4>1 DEF Live, LiveViewIsCurrent, PingOf
    <3>3. QED
      BY <3>1, <3>2
  <2>8. \A x \in Orders : \A k \in Clients \ room'[x] : seen'[k][x] = "none"
    BY <2>1, <2>4 DEF Live
  <2>9. QED
    BY <2>1, <2>5, <2>6, <2>7, <2>8 DEF Live
<1>4. ASSUME NEW c \in Clients, NEW o \in Orders, JoinOrder(c, o) \/ LeaveOrder(c, o)
      PROVE  Live'
  <2>1. UNCHANGED <<locationLog, call>>
    BY <1>4 DEF JoinOrder, LeaveOrder
  <2>2. \A x \in Orders : /\ RowsOf(x)' = RowsOf(x) /\ LatestOf(x)' = LatestOf(x)
                          /\ \A i : Newest(x, i)' = Newest(x, i)
                          /\ \A q : PingOf(q, x)' = PingOf(q, x)
    BY <2>1 DEF RowsOf, LatestOf, Newest, PingOf
  <2>3. \A k \in Clients, x \in Orders :
          \/ seen'[k][x] = "none"
          \/ seen'[k][x] = seen[k][x] /\ (k \in room'[x] <=> k \in room[x])
    <3>1. CASE JoinOrder(c, o)
      <4>1. /\ UNCHANGED seen
            /\ \A x \in Orders : room'[x] = IF x = o THEN room[x] \cup {c} ELSE room[x]
        BY <3>1 DEF JoinOrder, Typed
      <4>2. QED
        BY <4>1 DEF Live
    <3>2. CASE LeaveOrder(c, o)
      <4>1. \A x \in Orders : room'[x] = IF x = o THEN room[x] \ {c} ELSE room[x]
        BY <3>2 DEF LeaveOrder, Typed
      <4>2. \A k \in Clients, x \in Orders :
              seen'[k][x] = IF k = c /\ x = o THEN "none" ELSE seen[k][x]
        BY <3>2 DEF LeaveOrder, Typed
      <4>3. QED
        BY <4>1, <4>2
    <3>3. QED
      BY <1>4, <3>1, <3>2
  <2>4. LiveViewIsCurrent'
    BY <2>1, <2>2, <2>3 DEF Live, LiveViewIsCurrent
  <2>5. QED
    BY <2>1, <2>2, <2>3, <2>4 DEF Live
<1>5. CASE Crash
  <2>1. /\ UNCHANGED locationLog
        /\ \A q \in Requests : call'[q] = Idle
        /\ \A k \in Clients, x \in Orders : seen'[k][x] = "none"
    BY <1>5 DEF Crash, orderVars
  <2>2. \A x \in Orders : /\ RowsOf(x)' = RowsOf(x)
                          /\ \A i : Newest(x, i)' = Newest(x, i)
                          /\ \A q \in Requests : ~PingOf(q, x)'
    BY <2>1 DEF RowsOf, Newest, PingOf
  <2>3. QED
    BY <2>1, <2>2 DEF Live, LiveViewIsCurrent
<1>6. CASE UNCHANGED trackingVars
  BY <1>6, LiveKept DEF trackingVars
<1>7. QED
  BY <1>1, <1>2, <1>3, <1>4, <1>5, <1>6 DEF Next, AboutStaff

\* At first there is nothing to see.
LEMMA LiveBegins ==
  ASSUME NEW e, NEW role, InitWith(e, role)
  PROVE  Live
BY DEF InitWith, Live, LiveViewIsCurrent, RowsOf, PingOf

\* When pings of an order are sent one at a time, clients that were shown a
\* position see the newest on file as soon as no ping is being handled.
THEOREM LiveViewHolds ==
  ASSUME ~OverlappingPings
  PROVE  TrackingSpec => []LiveViewIsCurrent
<1>1. Init => Typed /\ Live
  BY TypedInit, LiveBegins DEF Init
<1>2. Typed /\ Live /\ [Next]_trackingVars => (Typed /\ Live)'
  BY TypedStep, LiveStep
<1>3. Typed /\ Live => LiveViewIsCurrent
  BY DEF Live
<1>4. QED
  BY <1>1, <1>2, <1>3, PTL DEF TrackingSpec
=============================================================================
