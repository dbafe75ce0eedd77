---------------------------- MODULE MCNotification ----------------------------
(* Small instances of Notification for TLC. *)
EXTENDS Notification, TLC
=============================================================================
