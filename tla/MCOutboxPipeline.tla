--------------------------- MODULE MCOutboxPipeline ---------------------------
(***************************************************************************)
(* Instances of OutboxPipeline for TLC.                                    *)
(***************************************************************************)
EXTENDS OutboxPipeline

CONSTANTS e1, e2, c1, c2, p1, accounting, webhook

MCCreatedAt == [e \in Event |-> 1]
\* One consumer of each of two services.
MCSourceOf  == [c \in Consumer |-> IF c = c2 THEN webhook ELSE accounting]

===============================================================================
