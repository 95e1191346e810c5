--------------------------- MODULE MCNotifications ---------------------------
(* The instances of Notifications that TLC checks.                         *)
EXTENDS Notifications

CONSTANTS n1, n2, e1, w, s1

MCEventOf == [n \in Notification |-> e1]
MCPriority == [n \in Notification |-> IF n = n1 THEN 1 ELSE 2]
==============================================================================
