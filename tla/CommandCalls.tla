---------------------------- MODULE CommandCalls ----------------------------
(***************************************************************************)
(* What the command service promises the application about a call: it is   *)
(* open once it is made, and it ends at most once, for good.  A call that  *)
(* is lost ends without a result.                                          *)
(***************************************************************************)
CONSTANTS Call, Result
VARIABLE outcome      \* outcome[c]: what became of call c

\* One step may end some calls and make others: a callback that retries.  The
\* call of such a retry can be lost at once, when every ID is in use.
Course ==
  ({"none"} \X {"open", "lost"}) \cup ({"open"} \X (Result \cup {"lost"}))

Init == outcome = [c \in Call |-> "none"]

Next ==
  /\ outcome' \in [Call -> {"none", "open", "lost"} \cup Result]
  /\ \A c \in Call :
       outcome'[c] = outcome[c] \/ <<outcome[c], outcome'[c]>> \in Course

Spec == Init /\ [][Next]_outcome
=============================================================================
