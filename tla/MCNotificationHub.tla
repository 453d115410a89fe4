------------------------- MODULE MCNotificationHub -------------------------
(* NotificationHub for TLC: one user, who opens every connection.           *)
EXTENDS NotificationHub, TLC

CONSTANT u1

OneConnected == [c \in Client |-> u1]
=============================================================================
