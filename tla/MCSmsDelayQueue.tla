--------------------------- MODULE MCSmsDelayQueue ---------------------------
(* SmsDelayQueue with three verification codes for one recipient.          *)
EXTENDS SmsDelayQueue

CONSTANTS c1, c2, c3, d1, d2

=============================================================================
