---------------------------- MODULE OutboxPipeline ----------------------------
(***************************************************************************)
(* Package outbox end to end: the publishers of Outbox write the log the   *)
(* consumers of OutboxConsumer read.  The two sides share nothing else, so *)
(* a step of the system is a step of one of them.                          *)
(***************************************************************************)
EXTENDS Outbox

CONSTANTS
    Malformed, Source, Consumer, SourceOf, CumulativeAck,   \* see OutboxConsumer
    MaxLog,             \* bound: messages the broker takes
    MaxConsumerFaults   \* bound: faults on the consuming side

ASSUME PipelineAssumption ==
    /\ Malformed \notin Event
    /\ SourceOf \in [Consumer -> Source]
    /\ CumulativeAck \in BOOLEAN
    /\ MaxLog \in Nat
    /\ MaxConsumerFaults \in Nat

VARIABLES acked, pos, cpc, at, processed, effects, cfaults

C == INSTANCE OutboxConsumer WITH
         pc <- cpc, faults <- cfaults, MaxFaults <- MaxConsumerFaults

consumingVars == <<acked, pos, cpc, at, processed, effects, cfaults>>
pipeVars      == <<outboxVars, consumingVars>>

PipeInit == Init /\ C!Init

Producing == Next /\ Len(log') <= MaxLog /\ UNCHANGED consumingVars

Consuming == C!ConsumerNext /\ UNCHANGED <<tx, row, pc, batch, current, faults, replays>>

PipeNext == Producing \/ Consuming

PipeSpec == PipeInit /\ [][PipeNext]_pipeVars

\* Publisher.Loop runs tick on every tick of its ticker and Consumer.Loop never
\* pauses, so an enabled step is taken.  A reader delivers a message that stays
\* unacknowledged again and again: the consumer is not always ready for it,
\* hence strong fairness of Read.
PipeFairness ==
    /\ \A p \in Publisher : WF_pipeVars(PublisherStep(p) /\ Producing)
    /\ \A c \in Consumer :
           /\ WF_pipeVars(C!ConsumerStep(c) /\ Consuming)
           /\ \A i \in 1 .. MaxLog : SF_pipeVars(C!Read(c, i) /\ Consuming)

PipeFairSpec == PipeSpec /\ PipeFairness

-------------------------------------------------------------------------------
Delivery == INSTANCE OutboxDelivery WITH
    offered <- {e \in Event : tx[e] = "committed"}

\* doc.go and consumer.go: transactional staging, publication at least once and
\* consumption with dedup together apply the effect of a committed event once
\* at every service, and no effect of an event that was rolled back; and when
\* nothing is given up (FailedDLQ off, no event refused for good) and messages
\* are acknowledged one by one, they do apply it in the end.
EventuallyExactlyOnce == Delivery!FairSpec

\* The safety part of it: no effect is applied twice, and none of an event that
\* was not committed.
PipelineSafety == Delivery!Spec

\* doc.go, dual-write case 3 seen from the services: an effect at a service is
\* that of a committed business transaction, though publisher, broker and
\* consumer each crashed or repeated themselves on the way.  (AppendDB promises
\* no such thing.)
NoPhantomEffect ==
    \A e \in Event \ LooseEvent : \A s \in Source :
        effects[<<e, s>>] > 0 => tx[e] = "committed"

===============================================================================
