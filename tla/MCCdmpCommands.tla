--------------------------- MODULE MCCdmpCommands ---------------------------
(* Instances of CdmpCommands for TLC: the values of its function constants. *)
EXTENDS CdmpCommands

CONSTANTS n1, n2, n3, c1, c2, c3

AllFromOne == [x \in Call |-> n1]
FromBoth == [x \in Call |-> IF x = c2 THEN n3 ELSE n1]

\* c1 goes to n2, c2 to everybody, c3 to n2.
ToTwoOrAll == [x \in Call |-> IF x = c2 THEN Broadcast ELSE n2]
AllToTwo == [x \in Call |-> n2]

UserCodes == [x \in Call |-> "USER"]
MixedCodes == [x \in Call |-> CASE x = c1 -> "STATUS_REQUEST"
                                [] x = c2 -> "USER" [] OTHER -> "OTHER_SERVICE"]
HandlesUser == [d \in Device |-> IF d = n1 THEN {} ELSE {"USER"}]

NoRetry == [x \in Call |-> NoCall]
RetryOnce == [x \in Call |-> IF x = c1 THEN c3 ELSE NoCall]

AllOnline == [d \in Device |-> "ONLINE"]
OneClaiming == [d \in Device |-> IF d = n1 THEN "CLAIMING" ELSE "ONLINE"]
=============================================================================
