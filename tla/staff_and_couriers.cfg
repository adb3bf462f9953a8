SPECIFICATION StaffSpec
CONSTANTS
  Orders = {o1}
  Requests = {r1, r2}
  Clients = {k1}
  Pings = {p1, p2}
  Roles = {"kurir", "admin", "owner"}
  MaxId = 3
  MaxEmployees = 2
  ExternalCouriers = {1}
  OverlappingPings = FALSE
  MaxCrashes = 1
  Scopes = {"couriers", "sessions"}
  Endpoints = {{}, {"owner"}, {"owner", "admin"}}
  AccessLife = 2
  RefreshLife = 4
SYMMETRY Symmetry
INVARIANTS
  TrackingTypeOK
  AssignedWasAskedFor
  ProfilesMatchEmployees
  ShownIsOnFile
  LiveViewIsCurrent
  AccessIsFresh
CHECK_DEADLOCK FALSE
