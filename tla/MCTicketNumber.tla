--------------------------- MODULE MCTicketNumber ---------------------------
(* Small instances of TicketNumber. *)
EXTENDS TicketNumber

NoTickets == {}
\* Tickets imported with numbers the counter will reach: one try is not enough, or no try is.
ThreeTickets == {<<0, 2>>, <<0, 4>>, <<1, 2>>}
=============================================================================
