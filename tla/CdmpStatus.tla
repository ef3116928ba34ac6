----------------------------- MODULE CdmpStatus -----------------------------
(***************************************************************************)
(* The status machine every CDMP service shares: the statuses of a device  *)
(* and the transitions it may make                                         *)
(* (subsys/cdmp/utilities/cdmp_status_machine.cpp, enums.h).               *)
(***************************************************************************)
Status == {"OFFLINE", "INIT", "CLAIMING", "ONLINE", "VERSION_MISMATCH", "ERROR"}

IsValidTransition ==
  ({"OFFLINE"} \X {"INIT", "ERROR"})
    \cup ({"INIT"} \X {"CLAIMING", "OFFLINE", "ERROR"})
    \cup ({"CLAIMING"} \X {"INIT", "ONLINE", "VERSION_MISMATCH", "ERROR"})
    \cup ({"ONLINE"} \X {"VERSION_MISMATCH", "OFFLINE", "ERROR"})
    \cup ({"VERSION_MISMATCH"} \X {"OFFLINE"})
    \cup ({"ERROR"} \X {"INIT", "OFFLINE"})
=============================================================================
