--------------------------- MODULE MCStaffSessions ---------------------------
(***************************************************************************)
(* A small instance of StaffSessions, and with it of CourierTracking, for  *)
(* TLC.                                                                    *)
(***************************************************************************)
EXTENDS StaffSessions, TLC

Symmetry == Permutations(Requests) \cup Permutations(Pings)
=============================================================================
