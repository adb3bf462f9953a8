--------------------------- MODULE CourierTracking ---------------------------
(***************************************************************************)
(* courier.service.ts and courier.gateway.ts (assignment of couriers, the  *)
(* pings of their positions and the live view over WebSocket), with the    *)
(* employees of master.service.ts, some of whom have a courier profile.    *)
(* Both tables number their rows from 1, so an id may mean one of each.    *)
(***************************************************************************)
EXTENDS Naturals, Sequences

CONSTANTS
  Orders,            \* the orders there are
  Requests,          \* requests that may be handled at the same time
  Clients,           \* WebSocket clients that follow orders
  Pings,             \* pings that couriers may send, each once
  Roles,             \* roles of employees, "kurir" is the courier's
  MaxId,             \* bound: ids of the two tables
  MaxEmployees,      \* bound: employees
  ExternalCouriers,  \* ids of couriers who are no employees
  OverlappingPings,  \* a ping for an order may be sent before the last is answered
  MaxCrashes         \* bound: deaths of the process

ASSUME RolesAssumption       == {"none", ""} \cap Roles = {}
ASSUME MaxIdAssumption       == MaxId \in Nat
ASSUME MaxEmployeesAssumption == MaxEmployees \in 0 .. MaxId
ASSUME ExternalAssumption    == ExternalCouriers \subseteq 1 .. MaxId
ASSUME OverlappingAssumption == OverlappingPings \in BOOLEAN
ASSUME CrashesAssumption     == MaxCrashes \in Nat

VARIABLES
  employee,     \* employee[e]: role of employee e, "none" before it is created
  courier,      \* courier[c]: profile c and the employee it is of
  courierId,    \* courierId[o]: courier assigned to order o, 0 if none
  asked,        \* history: courier_id of the request that assigned it
  locationLog,  \* the rows of courier_location_log, oldest first
  room,         \* room[o]: clients in the room of order o
  seen,         \* seen[k]: newest ping of each order client k got in its room
  call,         \* call[r]: what request r holds while it awaits
  crashes       \* deaths so far, to bound them

staffVars == <<employee, courier>>
orderVars == <<courierId, asked>>
viewVars == <<locationLog, room, seen>>
trackingVars == <<staffVars, orderVars, viewVars, call, crashes>>

Ids == 1 .. MaxId

\* exists FALSE: not created yet; employee 0: none (an external courier).
Profile == [exists : BOOLEAN, employee : Ids \cup {0}]

Idle == [kind |-> "idle"]
Free(r) == call[r] = Idle

\* Autoincrement ids: above all ids in use.
Fresh(id, used) == id \in Ids /\ \A u \in used : u < id

Employees == {e \in Ids : employee[e] # "none"}
Couriers == {c \in Ids : courier[c].exists}

ProfilesOf(e) == {c \in Couriers : courier[c].employee = e}

\* findFirst({ OR: [{ id }, { employeeId: id }] }), without an order.
Matching(id) == {c \in Couriers : c = id} \cup ProfilesOf(id)

\* Employee e is there already, with a role; "none" stands for no order, no ping
\* and nobody.
InitWith(e, role) ==
  /\ employee = [i \in Ids |-> IF i = e THEN role ELSE "none"]
  /\ courier = [c \in Ids |-> [exists |-> c \in ExternalCouriers, employee |-> 0]]
  /\ courierId = [o \in Orders |-> 0]
  /\ asked = [o \in Orders |-> 0]
  /\ locationLog = <<>>
  /\ room = [o \in Orders |-> {}]
  /\ seen = [k \in Clients |-> [o \in Orders |-> "none"]]
  /\ call = [r \in Requests |-> Idle]
  /\ crashes = 0

Init == InitWith(0, "none")
-----------------------------------------------------------------------------
\* createEmployee up to the insert; a courier's profile is a second insert, in
\* no transaction with the first.
CreateEmployee(r, e, role) ==
  /\ Free(r)
  /\ e <= MaxEmployees
  /\ Fresh(e, Employees)
  /\ employee' = [employee EXCEPT ![e] = role]
  /\ call' = IF role = "kurir"
             THEN [call EXCEPT ![r] = [kind |-> "profile", employee |-> e]]
             ELSE call
  /\ UNCHANGED <<courier, orderVars, viewVars, crashes>>

InsertProfile(c, e) ==
  /\ Fresh(c, Couriers)
  /\ courier' = [courier EXCEPT ![c] = [exists |-> TRUE, employee |-> e]]

\* Mutant: nothing stops a second profile of an employee.
CreateProfileAnyway(r) ==
  /\ call[r].kind = "profile"
  /\ \E c \in Ids : InsertProfile(c, call[r].employee)
  /\ call' = [call EXCEPT ![r] = Idle]
  /\ UNCHANGED <<employee, orderVars, viewVars, crashes>>

\* employee_id is unique: the insert fails (500) if assignCourier was faster,
\* and the employee is kept.
CreateProfile(r) ==
  LET e == call[r].employee
  IN /\ call[r].kind = "profile"
     /\ IF ProfilesOf(e) = {}
        THEN \E c \in Ids : InsertProfile(c, e)
        ELSE UNCHANGED courier
     /\ call' = [call EXCEPT ![r] = Idle]
     /\ UNCHANGED <<employee, orderVars, viewVars, crashes>>

\* Mutant: a role that is left out is written all the same.
OverwriteRole(r, e, role) ==
  /\ Free(r)
  /\ e \in Employees
  /\ employee' = [employee EXCEPT ![e] = role]
  /\ UNCHANGED <<courier, orderVars, viewVars, call, crashes>>

\* updateEmployee, role "" if left out: a new role neither makes nor removes a
\* profile.
UpdateEmployee(r, e, role) ==
  /\ Free(r)
  /\ e \in Employees
  /\ employee' = [employee EXCEPT ![e] = IF role # "" THEN role ELSE @]
  /\ UNCHANGED <<courier, orderVars, viewVars, call, crashes>>
-----------------------------------------------------------------------------
\* assignCourier, first await: the courier.
FindCourier(r, o, id) ==
  /\ Free(r)
  /\ IF Matching(id) # {}
     THEN \E c \in Matching(id) :
            call' = [call EXCEPT ![r] =
              [kind |-> "assign", order |-> o, id |-> id, courier |-> c]]
     ELSE call' = [call EXCEPT ![r] =
            [kind |-> "lookup", order |-> o, id |-> id]]
  /\ UNCHANGED <<staffVars, orderVars, viewVars, crashes>>

\* Second await: an employee with the role of a courier, else 404.
FindEmployee(r) ==
  LET c == call[r]
  IN /\ c.kind = "lookup"
     /\ call' = [call EXCEPT ![r] =
          IF employee[c.id] = "kurir"
          THEN [kind |-> "enrol", order |-> c.order, id |-> c.id]
          ELSE Idle]
     /\ UNCHANGED <<staffVars, orderVars, viewVars, crashes>>

\* Mutant: the id of the employee is taken for the one of the new profile.
EnrolUnderEmployeeId(r) ==
  LET e == call[r].id
  IN /\ call[r].kind = "enrol"
     /\ IF ProfilesOf(e) = {}
        THEN \E c \in Ids :
               /\ InsertProfile(c, e)
               /\ call' = [call EXCEPT ![r] = [kind |-> "assign",
                    order |-> call[r].order, id |-> e, courier |-> e]]
        ELSE call' = [call EXCEPT ![r] = Idle] /\ UNCHANGED courier
     /\ UNCHANGED <<employee, orderVars, viewVars, crashes>>

\* Third await: the profile made on demand, unless it exists by now (500).
EnrolCourier(r) ==
  LET e == call[r].id
  IN /\ call[r].kind = "enrol"
     /\ IF ProfilesOf(e) = {}
        THEN \E c \in Ids :
               /\ InsertProfile(c, e)
               /\ call' = [call EXCEPT ![r] = [kind |-> "assign",
                    order |-> call[r].order, id |-> e, courier |-> c]]
        ELSE call' = [call EXCEPT ![r] = Idle] /\ UNCHANGED courier
     /\ UNCHANGED <<employee, orderVars, viewVars, crashes>>

\* Last await: the order.
AssignCourier(r) ==
  LET c == call[r]
  IN /\ c.kind = "assign"
     /\ courierId' = [courierId EXCEPT ![c.order] = c.courier]
     /\ asked' = [asked EXCEPT ![c.order] = c.id]
     /\ call' = [call EXCEPT ![r] = Idle]
     /\ UNCHANGED <<staffVars, viewVars, crashes>>

\* The statement a request awaits fails: 500, nothing more is written.
Fail(r) ==
  /\ call[r].kind \in {"profile", "lookup", "enrol", "assign"}
  /\ call' = [call EXCEPT ![r] = Idle]
  /\ UNCHANGED <<staffVars, orderVars, viewVars, crashes>>
-----------------------------------------------------------------------------
Logged == {locationLog[i].ping : i \in 1 .. Len(locationLog)}

Unsent(p) == p \notin Logged /\ \A r \in Requests :
                                  call[r].kind = "ping" => call[r].ping # p

\* What the courier's application allows while a ping for o is being handled.
MaySend(o) ==
  OverlappingPings
  \/ \A q \in Requests : call[q].kind = "ping" => call[q].order # o

\* Mutant: the insert is not awaited, and its failure goes unnoticed.
RecordUnawaited(r, c, o, p) ==
  /\ Free(r)
  /\ c \in Couriers
  /\ Unsent(p)
  /\ MaySend(o)
  /\ locationLog' \in {locationLog,
                       Append(locationLog, [ping |-> p, courier |-> c, order |-> o])}
  /\ call' = IF o \in Orders
             THEN [call EXCEPT ![r] =
                    [kind |-> "ping", order |-> o, courier |-> c, ping |-> p]]
             ELSE call
  /\ UNCHANGED <<staffVars, orderVars, room, seen, crashes>>

\* recordLocation up to its insert.  Whether the courier is the one of the
\* order is not asked; a ping without an order is only logged.
RecordLocation(r, c, o, p) ==
  /\ Free(r)
  /\ c \in Couriers
  /\ Unsent(p)
  /\ MaySend(o)
  /\ locationLog' = Append(locationLog, [ping |-> p, courier |-> c, order |-> o])
  /\ call' = IF o \in Orders
             THEN [call EXCEPT ![r] =
                    [kind |-> "ping", order |-> o, courier |-> c, ping |-> p]]
             ELSE call
  /\ UNCHANGED <<staffVars, orderVars, room, seen, crashes>>

ShowTo(S, o, p) ==
  seen' = [k \in Clients |-> IF k \in S THEN [seen[k] EXCEPT ![o] = p] ELSE seen[k]]

\* Mutant: only the assigned courier is shown.
BroadcastIfAssigned(r) ==
  LET c == call[r]
  IN /\ c.kind = "ping"
     /\ IF courierId[c.order] = c.courier
        THEN ShowTo(room[c.order], c.order, c.ping)
        ELSE UNCHANGED seen
     /\ call' = [call EXCEPT ![r] = Idle]
     /\ UNCHANGED <<staffVars, orderVars, locationLog, room, crashes>>

\* broadcastCourierLocation, when the insert has been answered.
Broadcast(r) ==
  LET c == call[r]
  IN /\ c.kind = "ping"
     /\ ShowTo(room[c.order], c.order, c.ping)
     /\ call' = [call EXCEPT ![r] = Idle]
     /\ UNCHANGED <<staffVars, orderVars, locationLog, room, crashes>>

\* handleJoinOrder.
JoinOrder(k, o) ==
  /\ room' = [room EXCEPT ![o] = @ \cup {k}]
  /\ UNCHANGED <<staffVars, orderVars, locationLog, seen, call, crashes>>

\* handleLeaveOrder; a client that lost its connection leaves likewise.
LeaveOrder(k, o) ==
  /\ room' = [room EXCEPT ![o] = @ \ {k}]
  /\ seen' = [seen EXCEPT ![k][o] = "none"]
  /\ UNCHANGED <<staffVars, orderVars, locationLog, call, crashes>>

\* The process dies and is restarted: every connection and request is gone.
Crash ==
  /\ crashes < MaxCrashes
  /\ crashes' = crashes + 1
  /\ room' = [o \in Orders |-> {}]
  /\ seen' = [k \in Clients |-> [o \in Orders |-> "none"]]
  /\ call' = [r \in Requests |-> Idle]
  /\ UNCHANGED <<staffVars, orderVars, locationLog>>

\* getLatestCourierLocation: the newest ping for o, of whichever courier.
LatestOf(o) ==
  LET rows == {i \in 1 .. Len(locationLog) : locationLog[i].order = o}
  IN IF rows = {} THEN "none"
     ELSE locationLog[CHOOSE i \in rows : \A j \in rows : j <= i].ping
-----------------------------------------------------------------------------
Next ==
  \/ \E r \in Requests :
       \/ \E e \in Ids, role \in Roles : CreateEmployee(r, e, role)
       \/ \E e \in Ids, role \in Roles \cup {""} : UpdateEmployee(r, e, role)
       \/ CreateProfile(r)
       \/ \E o \in Orders, id \in Ids : FindCourier(r, o, id)
       \/ FindEmployee(r)
       \/ EnrolCourier(r)
       \/ AssignCourier(r)
       \/ Fail(r)
       \/ \E c \in Ids, o \in Orders \cup {"none"}, p \in Pings :
            RecordLocation(r, c, o, p)
       \/ Broadcast(r)
  \/ \E k \in Clients, o \in Orders : JoinOrder(k, o) \/ LeaveOrder(k, o)
  \/ Crash

TrackingSpec == Init /\ [][Next]_trackingVars
-----------------------------------------------------------------------------
TrackingTypeOK ==
  /\ employee \in [Ids -> Roles \cup {"none"}]
  /\ courier \in [Ids -> Profile]
  /\ courierId \in [Orders -> Ids \cup {0}]
  /\ asked \in [Orders -> Ids \cup {0}]
  /\ \A i \in 1 .. Len(locationLog) :
       locationLog[i] \in [ping : Pings, courier : Ids, order : Orders \cup {"none"}]
  /\ room \in [Orders -> SUBSET Clients]
  /\ seen \in [Clients -> [Orders -> Pings \cup {"none"}]]

\* However assignments, new employees and changes of role race, the courier of
\* an order exists and is one the operator asked for, by either of its ids.
AssignedWasAskedFor ==
  \A o \in Orders :
    LET c == courierId[o]
    IN c # 0 => c \in Couriers /\ (c = asked[o] \/ courier[c].employee = asked[o])

\* The profile and the employee it belongs to never part, although they are
\* inserted by separate statements that may fail or race: every profile with an
\* employee names an employee there is, and no employee has two.
ProfilesMatchEmployees ==
  \A c \in Couriers :
    courier[c].employee # 0 =>
      /\ courier[c].employee \in Employees
      /\ ProfilesOf(courier[c].employee) = {c}

\* A position that was shown live is on file: a client never saw a ping that the
\* log does not have under the same order.
ShownIsOnFile ==
  \A k \in Clients, o \in Orders :
    seen[k][o] # "none" =>
      \E i \in 1 .. Len(locationLog) :
        locationLog[i].ping = seen[k][o] /\ locationLog[i].order = o

\* When pings for an order are sent one at a time, the live view and the polled
\* one agree as soon as no ping is being handled, deaths of the process included:
\* a client in the room that was shown a position was shown the newest.
LiveViewIsCurrent ==
  \A k \in Clients, o \in Orders :
    /\ k \in room[o]
    /\ seen[k][o] # "none"
    /\ \A r \in Requests : call[r].kind = "ping" => call[r].order # o
    => seen[k][o] = LatestOf(o)
=============================================================================
