---------------------------- MODULE MCNotifyAck ----------------------------
(* Small instances of NotifyAck for TLC.                                   *)
EXTENDS NotifyAck

CONSTANTS c1, c2
============================================================================
