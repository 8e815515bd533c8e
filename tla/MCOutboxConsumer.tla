--------------------------- MODULE MCOutboxConsumer ---------------------------
(***************************************************************************)
(* Instances of OutboxConsumer for TLC.                                    *)
(***************************************************************************)
EXTENDS OutboxConsumer

CONSTANTS e1, e2, c1, c2, c3, accounting, webhook

\* c1 and c2 are two replicas of one service, c3 is another service.
MCSourceOf == [c \in Consumer |-> IF c = c3 THEN webhook ELSE accounting]

===============================================================================
