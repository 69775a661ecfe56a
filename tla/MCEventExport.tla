---------------------------- MODULE MCEventExport ----------------------------
(* Small instances of EventExport. *)
EXTENDS EventExport

\* d1 wants every category, d2 only the security events.
AllAndSecurity ==
  [d \in Dests |-> IF d = "d1" THEN Categories ELSE Categories \cap {"security"}]
=============================================================================
