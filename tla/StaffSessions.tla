--------------------------- MODULE StaffSessions ---------------------------
(***************************************************************************)
(* Who may do what: auth.service.ts, which gives employees an access token *)
(* and a refresh token and renews the former against the employee table,   *)
(* with the guards that believe an access token until it expires, and the  *)
(* owners of master.service.ts who change roles and dismiss people         *)
(* meanwhile.  The employees are those of CourierTracking.                 *)
(***************************************************************************)
EXTENDS CourierTracking

CONSTANTS
  Scopes,       \* what may vary: "couriers", "sessions" (see StaffInit)
  Endpoints,    \* the sets of roles that endpoints ask for with @Roles
  AccessLife,   \* JWT_EXPIRES_IN, and
  RefreshLife   \* JWT_REFRESH_EXPIRES_IN, in ticks

ASSUME SessionAssumption ==
  /\ Scopes \subseteq {"couriers", "sessions"}
  /\ Endpoints \subseteq SUBSET Roles
  /\ "sessions" \in Scopes => "owner" \in Roles
  /\ {AccessLife, RefreshLife} \subseteq Nat \ {0}

VARIABLES
  status,    \* status[e]: whether e is active
  login,     \* the employee a login under way has read
  access,    \* the access token and
  refresh,   \* the refresh token of one client: [employee, role, left], where
             \* left is the time until it expires
  age,       \* history: how long ago e was last active in each role, AccessLife
             \* standing for that long or longer
  scope      \* what varies in this behaviour

sessionVars == <<status, login, access, refresh, age, scope>>
staffSessionVars == <<trackingVars, sessionVars>>

Nothing == [employee |-> 0]

Active(e) == e \in Employees /\ status[e] = "active"

\* RolesGuard: an endpoint without @Roles is open, and an owner may do anything.
canActivate(required, role) ==
  required = {} \/ role = "owner" \/ role \in required

Token(e, role, life) == [employee |-> e, role |-> role, left |-> life]

Valid(token) == token # Nothing

\* A token some time later, when it may have expired.
Later(token) ==
  IF token = Nothing \/ token.left = 1 THEN Nothing
  ELSE [token EXCEPT !.left = @ - 1]

\* The history after a step that takes a time of 0 or 1.
Aged(time) ==
  age' = [e \in Ids |-> [role \in Roles |->
    IF employee'[e] = role /\ status'[e] = "active" THEN 0
    ELSE IF age[e][role] < AccessLife THEN age[e][role] + time
    ELSE AccessLife]]
-----------------------------------------------------------------------------
\* createEmployee with a status.
Hire(r, e, role, s) ==
  /\ CreateEmployee(r, e, role)
  /\ status' = [status EXCEPT ![e] = s]
  /\ UNCHANGED <<login, access, refresh>>

\* updateEmployee, status "" if left out; deleteEmployee gives "inactive".
ChangeEmployee(r, e, role, s) ==
  /\ UpdateEmployee(r, e, role)
  /\ status' = [status EXCEPT ![e] = IF s # "" THEN s ELSE @]
  /\ UNCHANGED <<login, access, refresh>>

\* login up to the comparison of the password, which is awaited.
BeginLogin(e) ==
  /\ login = Nothing
  /\ Active(e)
  /\ login' = [employee |-> e, role |-> employee[e]]
  /\ UNCHANGED <<trackingVars, status, access, refresh>>

\* The tokens say what was read before the await.
FinishLogin ==
  /\ login # Nothing
  /\ access' = Token(login.employee, login.role, AccessLife)
  /\ refresh' = Token(login.employee, login.role, RefreshLife)
  /\ login' = Nothing
  /\ UNCHANGED <<trackingVars, status>>

\* The password is wrong.
FailLogin ==
  /\ login # Nothing
  /\ login' = Nothing
  /\ UNCHANGED <<trackingVars, status, access, refresh>>

\* Mutant: the new token repeats the old one.
RefreshAsDecoded ==
  /\ Valid(refresh)
  /\ Active(refresh.employee)
  /\ access' = Token(refresh.employee, refresh.role, AccessLife)
  /\ UNCHANGED <<trackingVars, status, login, refresh>>

\* refreshToken: the employee is read again, and the token signed at once.
RefreshToken ==
  /\ Valid(refresh)
  /\ Active(refresh.employee)
  /\ access' = Token(refresh.employee, employee[refresh.employee], AccessLife)
  /\ UNCHANGED <<trackingVars, status, login, refresh>>

\* Time passes.  A login takes no time worth counting: a token lives for days.
Tick ==
  /\ login = Nothing
  /\ access' = Later(access)
  /\ refresh' = Later(refresh)
  /\ UNCHANGED <<trackingVars, status, login>>
  /\ Aged(1)

\* Bounds: courier profiles are left to the other scope, so that nobody is hired
\* as a courier, and the owner, who is employee 1, changes others only.
SessionStep ==
  \/ \E r \in Requests, e \in Ids \ {1} :
       \/ \E role \in Roles \ {"kurir"}, s \in {"active", "inactive"} :
            Hire(r, e, role, s)
       \/ \E role \in Roles \cup {""}, s \in {"active", "inactive", ""} :
            ChangeEmployee(r, e, role, s)
  \/ \E e \in Ids : BeginLogin(e)
  \/ FinishLogin
  \/ FailLogin
  \/ RefreshToken

\* Where sessions vary, the owner is the first employee and couriers rest;
\* where couriers vary nobody logs in.
StaffInit ==
  /\ scope \in Scopes
  /\ IF scope = "couriers" THEN Init ELSE InitWith(1, "owner")
  /\ status = [e \in Ids |-> "active"]
  /\ login = Nothing /\ access = Nothing /\ refresh = Nothing
  /\ age = [e \in Ids |-> [role \in Roles |->
       IF employee[e] = role THEN 0 ELSE AccessLife]]

StaffNext ==
  \/ scope = "couriers" /\ Next /\ UNCHANGED sessionVars
  \/ /\ scope = "sessions"
     /\ \/ Tick
        \/ SessionStep /\ Aged(0)
     /\ UNCHANGED scope

StaffSpec == StaffInit /\ [][StaffNext]_staffSessionVars
-----------------------------------------------------------------------------
\* Nobody gets further on a token than they could have a moment ago: whatever
\* endpoint a valid access token opens, its employee was, less than the life of
\* an access token ago, active in a role that opens it, however logins, renewals,
\* dismissals and changes of role interleave and however long refresh tokens
\* live.
AccessIsFresh ==
  Valid(access) =>
    \A required \in Endpoints :
      canActivate(required, access.role) =>
        \E role \in Roles :
          /\ canActivate(required, role)
          /\ age[access.employee][role] < AccessLife
=============================================================================
