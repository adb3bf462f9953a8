---------------------------- MODULE StaffProofs ----------------------------
(***************************************************************************)
(* What StaffSessions promises of access tokens, proved for every number   *)
(* of employees, roles and endpoints and every life of the tokens, and     *)
(* that the theorems of CourierProofs hold of it too.                      *)
(***************************************************************************)
EXTENDS StaffSessions, CourierProofs

AccessToken == [employee : Ids, role : Roles, left : Nat \ {0}]

SessionsTyped ==
  /\ employee \in [Ids -> Roles \cup {"none"}]
  /\ age \in [Ids -> [Roles -> 0 .. AccessLife]]
  /\ login \in {Nothing} \cup [employee : Ids, role : Roles]
  /\ access \in {Nothing} \cup AccessToken
  /\ refresh \in {Nothing} \cup AccessToken

\* The strengthening: a login under way has read what still was so when the
\* clock last ticked, and the age of what an access token says and the life it
\* has left add up to no more than the life it was given.
TokensAreTimely ==
  /\ login # Nothing => age[login.employee][login.role] = 0
  /\ access # Nothing =>
       age[access.employee][access.role] + access.left <= AccessLife

SessionInvariant ==
  /\ scope = "sessions" => SessionsTyped /\ TokensAreTimely
  /\ scope # "sessions" => access = Nothing

\* What was so a time ago was so no longer ago than that after a step.
LEMMA AgesSlowly ==
  ASSUME NEW time \in {0, 1}, Aged(time),
         age \in [Ids -> [Roles -> 0 .. AccessLife]]
  PROVE  /\ age' \in [Ids -> [Roles -> 0 .. AccessLife]]
         /\ \A e \in Ids, role \in Roles :
              /\ age'[e][role] <= age[e][role] + time
              /\ employee'[e] = role /\ status'[e] = "active" =>
                   age'[e][role] = 0
<1>1. AccessLife \in Nat \ {0}
  BY SessionAssumption
<1>2. ASSUME NEW e \in Ids, NEW role \in Roles
      PROVE  /\ age'[e][role] \in 0 .. AccessLife
             /\ age'[e][role] <= age[e][role] + time
             /\ employee'[e] = role /\ status'[e] = "active" =>
                  age'[e][role] = 0
  <2>1. age[e][role] \in 0 .. AccessLife
    OBVIOUS
  <2>2. age'[e][role] =
          IF employee'[e] = role /\ status'[e] = "active" THEN 0
          ELSE IF age[e][role] < AccessLife THEN age[e][role] + time
          ELSE AccessLife
    BY DEF Aged
  <2>3. CASE employee'[e] = role /\ status'[e] = "active"
    BY <1>1, <2>1, <2>2, <2>3
  <2>4. CASE ~(employee'[e] = role /\ status'[e] = "active")
    <3>1. CASE time = 0
      BY <1>1, <2>1, <2>2, <2>4, <3>1
    <3>2. CASE time = 1
      BY <1>1, <2>1, <2>2, <2>4, <3>2
    <3>3. QED
      BY <3>1, <3>2
  <2>5. QED
    BY <2>3, <2>4
<1>3. age' \in [Ids -> [Roles -> 0 .. AccessLife]]
  <2>1. age' = [e \in Ids |-> [role \in Roles |-> age'[e][role]]]
    BY DEF Aged
  <2>2. QED
    BY <1>2, <2>1
<1>4. QED
  BY <1>2, <1>3

\* Tokens and logins that stay as they are stay timely when no time passes.
LEMMA StaysTimely ==
  ASSUME SessionsTyped, TokensAreTimely, Aged(0),
         UNCHANGED <<login, access, refresh>>,
         employee' \in [Ids -> Roles \cup {"none"}]
  PROVE  SessionsTyped' /\ TokensAreTimely'
<1>1. age' \in [Ids -> [Roles -> 0 .. AccessLife]]
  BY AgesSlowly DEF SessionsTyped
<1>2. \A e \in Ids, role \in Roles :
        /\ age'[e][role] \in Nat /\ age[e][role] \in Nat
        /\ age'[e][role] <= age[e][role]
  BY <1>1, AgesSlowly DEF SessionsTyped
<1>3. SessionsTyped'
  BY <1>1 DEF SessionsTyped
<1>4. ASSUME login # Nothing
      PROVE  age'[login.employee][login.role] = 0
  BY <1>2, <1>4 DEF SessionsTyped, TokensAreTimely
<1>5. ASSUME access # Nothing
      PROVE  age'[access.employee][access.role] + access.left <= AccessLife
  BY <1>2, <1>5, SessionAssumption DEF SessionsTyped, TokensAreTimely, AccessToken
<1>6. QED
  BY <1>3, <1>4, <1>5 DEF TokensAreTimely

\* A step of the sessions keeps what they rely on.
LEMMA SessionsStep ==
  ASSUME SessionsTyped, TokensAreTimely, SessionStep, Aged(0)
  PROVE  SessionsTyped' /\ TokensAreTimely'
<1> USE DEF trackingVars, staffVars
<1>1. age' \in [Ids -> [Roles -> 0 .. AccessLife]]
  BY AgesSlowly DEF SessionsTyped
<1>2. \A e \in Ids, role \in Roles :
        /\ age'[e][role] \in Nat /\ age[e][role] \in Nat
        /\ age'[e][role] <= age[e][role]
        /\ employee'[e] = role /\ status'[e] = "active" => age'[e][role] = 0
  BY <1>1, AgesSlowly DEF SessionsTyped
<1>3. ASSUME NEW r \in Requests, NEW e \in Ids, NEW role \in Roles, NEW s,
             Hire(r, e, role, s)
      PROVE  SessionsTyped' /\ TokensAreTimely'
  BY <1>3, StaysTimely DEF Hire, CreateEmployee, SessionsTyped
<1>4. ASSUME NEW r \in Requests, NEW e \in Ids, NEW role \in Roles \cup {""}, NEW s,
             ChangeEmployee(r, e, role, s)
      PROVE  SessionsTyped' /\ TokensAreTimely'
  <2>1. employee' \in [Ids -> Roles \cup {"none"}]
    BY <1>4 DEF ChangeEmployee, UpdateEmployee, SessionsTyped
  <2>2. QED
    BY <1>4, <2>1, StaysTimely DEF ChangeEmployee
<1>5. ASSUME NEW e \in Ids, BeginLogin(e)
      PROVE  SessionsTyped' /\ TokensAreTimely'
  <2>1. employee[e] \in Roles /\ status[e] = "active"
    BY <1>5 DEF BeginLogin, Active, Employees, SessionsTyped
  <2>2. /\ login' = [employee |-> e, role |-> employee[e]]
        /\ UNCHANGED <<employee, status, access, refresh>>
    BY <1>5 DEF BeginLogin
  <2>3. age'[e][employee[e]] = 0
    BY <1>2, <2>1, <2>2
  <2>4. SessionsTyped'
    BY <1>1, <2>1, <2>2 DEF SessionsTyped
  <2>5. access # Nothing =>
          age'[access.employee][access.role] + access.left <= AccessLife
    BY <1>2, SessionAssumption DEF SessionsTyped, TokensAreTimely, AccessToken
  <2>6. QED
    BY <2>2, <2>3, <2>4, <2>5 DEF TokensAreTimely
<1>6. CASE FinishLogin
  <2>1. /\ login \in [employee : Ids, role : Roles]
        /\ access' = [employee |-> login.employee, role |-> login.role,
                      left |-> AccessLife]
        /\ refresh' = [employee |-> login.employee, role |-> login.role,
                       left |-> RefreshLife]
        /\ login' = Nothing /\ UNCHANGED employee
    BY <1>6 DEF FinishLogin, Token, SessionsTyped
  <2>2. SessionsTyped'
    BY <1>1, <2>1, SessionAssumption DEF SessionsTyped, AccessToken
  <2>3. age'[login.employee][login.role] = 0
    BY <1>2, <1>6, <2>1 DEF FinishLogin, TokensAreTimely
  <2>4. QED
    BY <2>1, <2>2, <2>3, SessionAssumption DEF TokensAreTimely
<1>7. CASE FailLogin
  <2>1. login' = Nothing /\ UNCHANGED <<employee, access, refresh>>
    BY <1>7 DEF FailLogin
  <2>2. SessionsTyped'
    BY <1>1, <2>1 DEF SessionsTyped
  <2>3. access # Nothing =>
          age'[access.employee][access.role] + access.left <= AccessLife
    BY <1>2, SessionAssumption DEF SessionsTyped, TokensAreTimely, AccessToken
  <2>4. QED
    BY <2>1, <2>2, <2>3 DEF TokensAreTimely
<1>8. CASE RefreshToken
  <2> DEFINE e == refresh.employee
  <2>1. /\ e \in Ids /\ employee[e] \in Roles /\ status[e] = "active"
        /\ access' = [employee |-> e, role |-> employee[e], left |-> AccessLife]
        /\ UNCHANGED <<employee, status, login, refresh>>
    BY <1>8 DEF RefreshToken, Valid, Active, Employees, Token, SessionsTyped,
                AccessToken
  <2>2. age'[e][employee[e]] = 0
    BY <1>2, <2>1
  <2>3. SessionsTyped'
    BY <1>1, <2>1, SessionAssumption DEF SessionsTyped, AccessToken
  <2>4. login # Nothing => age'[login.employee][login.role] = 0
    BY <1>2 DEF SessionsTyped, TokensAreTimely
  <2>5. QED
    BY <2>1, <2>2, <2>3, <2>4, SessionAssumption DEF TokensAreTimely
<1>9. QED
  BY <1>3, <1>4, <1>5, <1>6, <1>7, <1>8 DEF SessionStep

\* Time takes from what a token has left at least what it adds to the age of
\* what it says; no login is under way.
LEMMA TimeStep ==
  ASSUME SessionsTyped, TokensAreTimely, Tick
  PROVE  SessionsTyped' /\ TokensAreTimely'
<1>1. Aged(1) /\ login = Nothing /\ UNCHANGED <<employee, login>>
  BY DEF Tick, trackingVars, staffVars
<1>2. /\ age' \in [Ids -> [Roles -> 0 .. AccessLife]]
      /\ \A e \in Ids, role \in Roles : age'[e][role] <= age[e][role] + 1
  BY <1>1, AgesSlowly DEF SessionsTyped
<1>3. ASSUME NEW token \in {Nothing} \cup AccessToken
      PROVE  Later(token) \in {Nothing} \cup AccessToken
  BY <1>3 DEF Later, AccessToken
<1>4. SessionsTyped'
  BY <1>1, <1>2, <1>3 DEF SessionsTyped, Tick
<1>5. ASSUME access' # Nothing
      PROVE  age'[access'.employee][access'.role] + access'.left <= AccessLife
  <2>1. /\ access \in AccessToken /\ access # Nothing
        /\ access' = [access EXCEPT !.left = @ - 1]
    BY <1>5 DEF Tick, Later, SessionsTyped
  <2>2. /\ access'.employee = access.employee /\ access.employee \in Ids
        /\ access'.role = access.role /\ access.role \in Roles
        /\ access'.left = access.left - 1 /\ access.left \in Nat
    BY <2>1 DEF AccessToken
  <2>3. age[access.employee][access.role] + access.left <= AccessLife
    BY <2>1 DEF TokensAreTimely
  <2>4. /\ age[access.employee][access.role] \in Nat
        /\ age'[access.employee][access.role] \in Nat
        /\ age'[access.employee][access.role] <= age[access.employee][access.role] + 1
    BY <1>2, <2>2 DEF SessionsTyped
  <2>5. QED
    BY <2>2, <2>3, <2>4, SessionAssumption
<1>6. QED
  BY <1>1, <1>4, <1>5 DEF TokensAreTimely

\* Nobody is logged in at first.
LEMMA SessionsBegin == StaffInit => SessionInvariant
<1> SUFFICES ASSUME StaffInit PROVE SessionInvariant
  OBVIOUS
<1>1. login = Nothing /\ access = Nothing /\ refresh = Nothing
  BY DEF StaffInit
<1>2. ASSUME scope = "sessions" PROVE SessionsTyped
  <2>1. "owner" \in Roles /\ InitWith(1, "owner")
    BY <1>2, SessionAssumption DEF StaffInit
  <2>2. employee \in [Ids -> Roles \cup {"none"}]
    BY <2>1 DEF InitWith
  <2>3. age \in [Ids -> [Roles -> 0 .. AccessLife]]
    BY SessionAssumption DEF StaffInit
  <2>4. QED
    BY <1>1, <2>2, <2>3 DEF SessionsTyped
<1>3. QED
  BY <1>1, <1>2 DEF SessionInvariant, TokensAreTimely

\* Every step, and the clock, keep the tokens timely.
LEMMA SessionsKept ==
  SessionInvariant /\ [StaffNext]_staffSessionVars => SessionInvariant'
<1> SUFFICES ASSUME SessionInvariant, [StaffNext]_staffSessionVars
             PROVE  SessionInvariant'
  OBVIOUS
<1>1. CASE scope = "couriers" /\ Next /\ UNCHANGED sessionVars
  BY <1>1 DEF SessionInvariant, sessionVars
<1>2. CASE scope = "sessions" /\ Tick /\ UNCHANGED scope
  BY <1>2, TimeStep DEF SessionInvariant
<1>3. CASE scope = "sessions" /\ SessionStep /\ Aged(0) /\ UNCHANGED scope
  BY <1>3, SessionsStep DEF SessionInvariant
<1>4. CASE UNCHANGED staffSessionVars
  BY <1>4 DEF SessionInvariant, SessionsTyped, TokensAreTimely, staffSessionVars,
              sessionVars, trackingVars, staffVars
<1>5. QED
  BY <1>1, <1>2, <1>3, <1>4 DEF StaffNext

\* A timely token answers for a role held a moment ago.
LEMMA TimelyIsFresh == SessionInvariant => AccessIsFresh
<1> SUFFICES ASSUME SessionInvariant, Valid(access),
                    NEW required \in Endpoints, canActivate(required, access.role)
             PROVE  \E role \in Roles :
                      /\ canActivate(required, role)
                      /\ age[access.employee][role] < AccessLife
  BY DEF AccessIsFresh
<1>1. access \in AccessToken /\ SessionsTyped /\ TokensAreTimely /\ access # Nothing
  BY DEF SessionInvariant, Valid, SessionsTyped
<1>2. /\ access.employee \in Ids /\ access.role \in Roles
      /\ access.left \in Nat \ {0}
      /\ age[access.employee][access.role] \in Nat
  BY <1>1 DEF AccessToken, SessionsTyped
<1>3. age[access.employee][access.role] < AccessLife
  BY <1>1, <1>2, SessionAssumption DEF TokensAreTimely
<1>4. QED
  BY <1>2, <1>3

\* A valid access token never opens what its employee could not have opened,
\* active, less than the life of an access token ago: refreshToken reads the
\* employee again, and what login read is at most as old as the login.
THEOREM AccessStaysFresh == StaffSpec => []AccessIsFresh
<1>1. StaffSpec => []SessionInvariant
  BY SessionsBegin, SessionsKept, PTL DEF StaffSpec
<1>2. QED
  BY <1>1, TimelyIsFresh, PTL
-----------------------------------------------------------------------------
(* Couriers and their tracking.                                            *)

\* Whoever is there at first, it is a state couriers may start from.
LEMMA StaffBeginsTracking ==
  ASSUME StaffInit
  PROVE  InitWith(0, "none") \/ ("owner" \in Roles /\ InitWith(1, "owner"))
<1>1. CASE scope = "couriers"
  BY <1>1 DEF StaffInit, Init
<1>2. CASE scope # "couriers"
  BY <1>2, SessionAssumption DEF StaffInit
<1>3. QED
  BY <1>1, <1>2

\* What sessions do to employees is what CourierTracking allows.
LEMMA StaffStepsTrack == [StaffNext]_staffSessionVars => [Next]_trackingVars
<1>1. ASSUME NEW r \in Requests, NEW e \in Ids, NEW role \in Roles, NEW s,
             Hire(r, e, role, s)
      PROVE  Next
  BY <1>1 DEF Hire, Next
<1>2. ASSUME NEW r \in Requests, NEW e \in Ids, NEW role \in Roles \cup {""},
             NEW s, ChangeEmployee(r, e, role, s)
      PROVE  Next
  BY <1>2 DEF ChangeEmployee, Next
<1>3. ASSUME \/ FinishLogin \/ FailLogin \/ RefreshToken \/ Tick
             \/ \E e \in Ids : BeginLogin(e)
      PROVE  UNCHANGED trackingVars
  BY <1>3 DEF FinishLogin, FailLogin, RefreshToken, Tick, BeginLogin
<1>4. QED
  BY <1>1, <1>2, <1>3 DEF StaffNext, SessionStep, staffSessionVars

\* Staff who log in, change their role or are dismissed leave the tables and the
\* views of couriers as well typed and as consistent as couriers alone do.
THEOREM CouriersAmongStaff ==
  StaffSpec => [](/\ TrackingTypeOK
                  /\ AssignedWasAskedFor
                  /\ ProfilesMatchEmployees
                  /\ ShownIsOnFile)
<1>1. StaffInit => Typed /\ Staff /\ Shown
  BY StaffBeginsTracking, TypedInit, StaffBegins, ShownInit
<1>2. Typed /\ Staff /\ Shown /\ [StaffNext]_staffSessionVars
        => (Typed /\ Staff /\ Shown)'
  BY StaffStepsTrack, TypedStep, StaffStep, ShownStep
<1>3. Typed /\ Staff /\ Shown =>
        /\ TrackingTypeOK
        /\ AssignedWasAskedFor
        /\ ProfilesMatchEmployees
        /\ ShownIsOnFile
  BY TypedSuffices DEF Staff, Shown
<1>4. QED
  BY <1>1, <1>2, <1>3, PTL DEF StaffSpec

\* And the live view is as current.
THEOREM LiveViewAmongStaff ==
  ASSUME ~OverlappingPings
  PROVE  StaffSpec => []LiveViewIsCurrent
<1>1. StaffInit => Typed /\ Live
  BY StaffBeginsTracking, TypedInit, LiveBegins
<1>2. Typed /\ Live /\ [StaffNext]_staffSessionVars => (Typed /\ Live)'
  BY StaffStepsTrack, TypedStep, LiveStep
<1>3. Typed /\ Live => LiveViewIsCurrent
  BY DEF Live
<1>4. QED
  BY <1>1, <1>2, <1>3, PTL DEF StaffSpec
=============================================================================
