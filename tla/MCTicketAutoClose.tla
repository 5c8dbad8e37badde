-------------------------- MODULE MCTicketAutoClose --------------------------
(* Two tickets, one sweep instance, batch limit 1, two user replies.        *)
EXTENDS TicketAutoClose

CONSTANTS t1, t2, s1
=============================================================================
