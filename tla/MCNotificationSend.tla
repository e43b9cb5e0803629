------------------------ MODULE MCNotificationSend -------------------------
(* A small notification group for TLC. *)
EXTENDS NotificationSend, TLC

Alike == Permutations(Workers)
=============================================================================
