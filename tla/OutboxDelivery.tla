---------------------------- MODULE OutboxDelivery ----------------------------
(***************************************************************************)
(* What package outbox promises (doc.go, consumer.go): the effect of an    *)
(* event whose transaction committed is applied once at every consuming    *)
(* service, and no other effect ever is.                                   *)
(***************************************************************************)
EXTENDS Naturals

CONSTANTS
    Event,      \* event ids
    Source      \* consuming services (Consumer.Source)

VARIABLES
    offered,    \* the events that happened
    effects     \* how often the effect of an event was applied at a service

deliveryVars == <<offered, effects>>

Init ==
    /\ offered = {}
    /\ effects = [k \in Event \X Source |-> 0]

Offer(e) ==
    /\ offered' = offered \cup {e}
    /\ UNCHANGED effects

Apply(e, s) ==
    /\ e \in offered
    /\ effects[<<e, s>>] = 0
    /\ effects' = [effects EXCEPT ![<<e, s>>] = 1]
    /\ UNCHANGED offered

Next ==
    \/ \E e \in Event : Offer(e)
    \/ \E e \in Event, s \in Source : Apply(e, s)

Spec == Init /\ [][Next]_deliveryVars

FairSpec == Spec /\ \A e \in Event, s \in Source : WF_deliveryVars(Apply(e, s))

===============================================================================
