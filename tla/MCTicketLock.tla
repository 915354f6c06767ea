---------------------------- MODULE MCTicketLock ----------------------------
(* A small instance of TicketLock. *)
EXTENDS TicketLock

CONSTANTS a1, a2, u1, p1, p2
=============================================================================
