------------------------------ MODULE MCAckRto ------------------------------
(* A small instance of AckRto for TLC.                                     *)
EXTENDS AckRto

CONSTANTS c1
=============================================================================
