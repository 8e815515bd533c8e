------------------------------- MODULE MCOutbox -------------------------------
(***************************************************************************)
(* Instances of Outbox for TLC.                                            *)
(***************************************************************************)
EXTENDS Outbox, TLC

CONSTANTS e1, e2, e3

\* Two rows of the same millisecond and a younger one.
MCCreatedAt == [e \in Event |-> IF e = e3 THEN 2 ELSE 1]

\* Replicas run the same code.
Replicas == Permutations(Publisher)

===============================================================================
