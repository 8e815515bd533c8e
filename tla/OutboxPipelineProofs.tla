------------------------- MODULE OutboxPipelineProofs -------------------------
(***************************************************************************)
(* Theorems about OutboxPipeline, for any number of events, publishers and *)
(* consumers.  The two sides share only the broker's log, so the invariant *)
(* of each is kept by the steps of the other; what joins them is that an   *)
(* effect is that of an event the log has, and the log has only events     *)
(* whose transactions committed.                                           *)
(***************************************************************************)
EXTENDS OutboxPipeline, OutboxProofs

\* The theorems of the consuming side, on the pipeline's variables.
CP == INSTANCE OutboxConsumerProofs WITH
          pc <- cpc, faults <- cfaults, MaxFaults <- MaxConsumerFaults

\* An effect at a service is that of an event the broker has.
EffectInLog ==
    \A e \in Event : \A s \in Source : effects[<<e, s>>] > 0 => InLog(e)

PipeIInv == IInv /\ CP!IInv /\ EffectInLog

-------------------------------------------------------------------------------
(* What each side does to the other.                                       *)

\* The proofs of the consuming side are about the steps the pipeline takes.
LEMMA ConsumerNextShared == C!ConsumerNext => CP!ConsumerNext
    BY DEF C!ConsumerNext, C!ConsumerStep, C!ConsumerFault, C!Read, C!SkipMalformed,
           C!DedupHit, C!DedupMiss, C!Handle, C!Insert, C!InsertDuplicate, C!Commit,
           C!Ack, C!CommitUnknown, C!ProcessErr, C!AckLost, C!Crash, C!Goto, C!Msg,
           C!Key, C!Fault, C!Locked, C!Committed, C!AckedBy, C!AckedUpTo,
           CP!ConsumerNext, CP!ConsumerStep, CP!ConsumerFault, CP!Read,
           CP!SkipMalformed, CP!DedupHit, CP!DedupMiss, CP!Handle, CP!Insert,
           CP!InsertDuplicate, CP!Commit, CP!Ack, CP!CommitUnknown, CP!ProcessErr,
           CP!AckLost, CP!Crash, CP!Goto, CP!Msg, CP!Key, CP!Fault, CP!Locked,
           CP!Committed, CP!AckedBy, CP!AckedUpTo

\* The consumers write nothing of the producing side, and no message.
LEMMA ConsumingFrame ==
    ASSUME Consuming
    PROVE  UNCHANGED outboxVars
<1>1. C!ConsumerNext => log' = log
    BY DEF C!ConsumerNext, C!ConsumerStep, C!ConsumerFault, C!Read, C!SkipMalformed,
           C!DedupHit, C!DedupMiss, C!Handle, C!Insert, C!InsertDuplicate, C!Commit,
           C!Ack, C!CommitUnknown, C!ProcessErr, C!AckLost, C!Crash
<1> QED
    BY <1>1 DEF Consuming, outboxVars

\* A step of the producing side leaves the log or adds one event to it.
LEMMA ProducingAppends ==
    ASSUME IInv, Next
    PROVE  log' = log \/ \E e \in Event : log' = Append(log, e)
<1>1. ASSUME NEW e \in Event, Business(e) PROVE log' = log
    BY <1>1 DEF Business, Begin, AppendInTx, AppendDB, Commit, Rollback
<1>2. ASSUME NEW p \in Publisher, PublishOk(p) \/ PublishErr(p)
      PROVE  log' = log \/ \E e \in Event : log' = Append(log, e)
  <2>1. PICK b \in batch[p] : log' = log \/ log' = Append(log, b.id)
      BY <1>2 DEF PublishOk, PublishErr
  <2>2. b.id \in Event
      BY DEF IInv, TypeOK, Entry
  <2> QED
      BY <2>1, <2>2
<1>3. ASSUME NEW p \in Publisher,
             \/ Fetch(p) \/ PublishRefused(p) \/ MarkPublished(p) \/ MarkFailed(p)
             \/ UpdateLost(p) \/ Crash(p)
      PROVE  log' = log
    BY <1>3 DEF Fetch, PublishRefused, MarkPublished, MarkFailed, UpdateLost, Crash
<1>4. ASSUME Admin PROVE log' = log
    BY <1>4 DEF Admin, ReplayFailedDLQ, CleanupPublished
<1> QED
    BY <1>1, <1>2, <1>3, <1>4 DEF Next, PublisherStep, PublisherFault

\* What the broker has, it keeps.
LEMMA InLogGrows ==
    ASSUME IInv, Next
    PROVE  \A e \in Event : InLog(e) => InLog(e)'
<1>1. log \in Seq(Event)
    BY DEF IInv, TypeOK
<1>2. ASSUME NEW e \in Event, log' = Append(log, e)
      PROVE  \A i \in DOMAIN log : i \in DOMAIN log' /\ log'[i] = log[i]
    BY <1>1, <1>2
<1> QED
    BY <1>2, ProducingAppends DEF InLog

-------------------------------------------------------------------------------
(* The invariant of the whole.                                             *)

\* To the consumers a publication is the arrival of a message.
LEMMA ProducingConsumerIInv ==
    ASSUME PipeIInv, Producing
    PROVE  CP!IInv'
<1> USE DEF PipeIInv, Producing
<1>1. CP!IInv /\ [CP!Next]_CP!vars => CP!IInv'
    BY CP!NextIInv, PipelineAssumption
<1>2. CASE log' = log
  <2>1. UNCHANGED CP!vars
      BY <1>2 DEF consumingVars, CP!vars, CP!consumerVars
  <2> QED
      BY <1>1, <2>1
<1>3. ASSUME NEW e \in Event, log' = Append(log, e)
      PROVE  CP!IInv'
  <2>1. Len(log) < MaxLog
    <3>1. log \in Seq(Event) /\ Len(log') = Len(log) + 1
        BY <1>3 DEF IInv, TypeOK
    <3> QED
        BY <3>1, PipelineAssumption
  <2>2. CP!Arrive(e) /\ e \in CP!Message
      BY <1>3, <2>1 DEF CP!Arrive, CP!Message, consumingVars, CP!consumerVars
  <2> QED
      BY <1>1, <2>2 DEF CP!Next
<1> QED
    BY <1>2, <1>3, ProducingAppends

\* COMMIT alone adds an effect, and its message is in the log.
LEMMA ConsumingEffectInLog ==
    ASSUME PipeIInv, Consuming
    PROVE  EffectInLog'
<1> USE DEF PipeIInv
<1>1. log' = log /\ (\A e \in Event : InLog(e)' <=> InLog(e))
    BY ConsumingFrame DEF outboxVars, InLog
<1>2. CP!ConsumerNext
    BY ConsumerNextShared DEF Consuming
<1>3. ASSUME NEW c \in Consumer, CP!Commit(c) \/ CP!CommitUnknown(c)
      PROVE  EffectInLog'
  <2>1. /\ cpc[c] = "inserted"
        /\ effects' = [effects EXCEPT ![CP!Key(c)] = @ + 1]
      BY <1>3 DEF CP!Commit, CP!CommitUnknown, CP!Committed
  <2>2. CP!Msg(c) \in Event /\ InLog(CP!Msg(c))
      BY <2>1 DEF CP!IInv, CP!AtEvent, CP!AtMessage, CP!Msg, InLog
  <2>3. CP!Key(c) = <<CP!Msg(c), SourceOf[c]>>
      BY DEF CP!Key
  <2>4. ASSUME NEW e \in Event, NEW s \in Source, e # CP!Msg(c)
        PROVE  effects'[<<e, s>>] = effects[<<e, s>>]
      BY <2>1, <2>3, <2>4 DEF CP!IInv, CP!TypeOK
  <2> QED
      BY <1>1, <2>2, <2>4 DEF EffectInLog
<1>4. ASSUME NEW c \in Consumer,
             \/ \E i \in DOMAIN log : CP!Read(c, i)
             \/ CP!SkipMalformed(c) \/ CP!DedupHit(c) \/ CP!DedupMiss(c) \/ CP!Handle(c)
             \/ CP!Insert(c) \/ CP!InsertDuplicate(c)
             \/ CP!ProcessErr(c) \/ CP!Ack(c) \/ CP!AckLost(c) \/ CP!Crash(c)
      PROVE  effects' = effects
    BY <1>4 DEF CP!Read, CP!SkipMalformed, CP!DedupHit, CP!DedupMiss, CP!Handle,
                CP!Insert, CP!InsertDuplicate, CP!ProcessErr, CP!Ack, CP!AckLost, CP!Crash
<1>5. CASE effects' = effects
    BY <1>1, <1>5 DEF EffectInLog
<1> QED
    BY <1>2, <1>3, <1>4, <1>5 DEF CP!ConsumerNext, CP!ConsumerStep, CP!ConsumerFault

LEMMA PipeNextIInv == PipeIInv /\ [PipeNext]_pipeVars => PipeIInv'
<1> SUFFICES ASSUME PipeIInv, [PipeNext]_pipeVars PROVE PipeIInv'
    OBVIOUS
<1> USE DEF PipeIInv
<1>1. CASE Producing
  <2>1. IInv'
      BY <1>1, NextIInv DEF Producing
  <2>2. CP!IInv'
      BY <1>1, ProducingConsumerIInv
  <2>3. EffectInLog'
      BY <1>1, InLogGrows DEF EffectInLog, Producing, consumingVars
  <2> QED
      BY <2>1, <2>2, <2>3
<1>2. CASE Consuming
  <2>1. IInv'
      BY <1>2, ConsumingFrame, NextIInv
  <2>2. CP!IInv'
    <3>1. CP!IInv /\ [CP!Next]_CP!vars => CP!IInv'
        BY CP!NextIInv, PipelineAssumption
    <3> QED
        BY <1>2, <3>1, ConsumerNextShared DEF Consuming, CP!Next
  <2>3. EffectInLog'
      BY <1>2, ConsumingEffectInLog
  <2> QED
      BY <2>1, <2>2, <2>3
<1>3. CASE UNCHANGED pipeVars
  <2>1. IInv'
      BY <1>3, NextIInv DEF pipeVars
  <2>2. CP!IInv'
    <3>1. CP!IInv /\ [CP!Next]_CP!vars => CP!IInv'
        BY CP!NextIInv, PipelineAssumption
    <3>2. UNCHANGED CP!vars
        BY <1>3 DEF pipeVars, outboxVars, consumingVars, CP!vars, CP!consumerVars
    <3> QED
        BY <3>1, <3>2
  <2>3. EffectInLog'
      BY <1>3 DEF EffectInLog, InLog, pipeVars, outboxVars, consumingVars
  <2> QED
      BY <2>1, <2>2, <2>3
<1> QED
    BY <1>1, <1>2, <1>3 DEF PipeNext

LEMMA PipeInitIInv == PipeInit => PipeIInv
<1> SUFFICES ASSUME PipeInit PROVE PipeIInv
    OBVIOUS
<1>1. IInv
    BY InitIInv DEF PipeInit
<1>2. CP!IInv
  <2>1. CP!Init => CP!IInv
      BY CP!InitIInv, PipelineAssumption
  <2>2. CP!Init
      BY DEF PipeInit, C!Init, CP!Init
  <2> QED
      BY <2>1, <2>2
<1>3. EffectInLog
    BY DEF PipeInit, C!Init, EffectInLog
<1> QED
    BY <1>1, <1>2, <1>3 DEF PipeIInv

LEMMA PipeSpecIInv == PipeSpec => []PipeIInv
    BY PipeInitIInv, PipeNextIInv, PTL DEF PipeSpec

\* doc.go, dual-write case 3 from end to end: no service ever sees an effect of
\* a transaction that did not commit, whatever fails on the way.
THEOREM PipelineNoPhantomEffect == PipeSpec => []NoPhantomEffect
<1>1. PipeIInv => NoPhantomEffect
    BY DEF PipeIInv, IInv, EffectInLog, NoPhantom, NoPhantomEffect
<1> QED
    BY PipeSpecIInv, <1>1, PTL

-------------------------------------------------------------------------------
(* The pipeline implements the promise of OutboxDelivery.                  *)

\* A committed transaction stays committed, and only COMMIT commits one.
LEMMA ProducingRefines ==
    ASSUME PipeIInv, Producing
    PROVE  [Delivery!Next]_Delivery!deliveryVars
<1> USE DEF PipeIInv, Producing, consumingVars
<1> DEFINE Happened == {e \in Event : tx[e] = "committed"}
<1>1. effects' = effects
    OBVIOUS
<1>2. ASSUME NEW e \in Event, Commit(e)
      PROVE  [Delivery!Next]_Delivery!deliveryVars
  <2>1. Happened' = Happened \cup {e}
      BY <1>2 DEF Commit, IInv, TypeOK
  <2>2. Delivery!Offer(e)
      BY <1>1, <2>1 DEF Delivery!Offer
  <2> QED
      BY <2>2 DEF Delivery!Next
<1>3. ASSUME NEW e \in Event, Begin(e) \/ AppendInTx(e) \/ AppendDB(e) \/ Rollback(e)
      PROVE  Happened' = Happened
    BY <1>3 DEF Begin, AppendInTx, AppendDB, Rollback, IInv, TypeOK
<1>4. ASSUME NEW p \in Publisher, PublisherStep(p) \/ PublisherFault(p)
      PROVE  Happened' = Happened
    BY <1>4 DEF PublisherStep, PublisherFault, Fetch, PublishOk, PublishRefused,
                MarkPublished, MarkFailed, PublishErr, UpdateLost, Crash
<1>5. ASSUME Admin PROVE Happened' = Happened
    BY <1>5 DEF Admin, ReplayFailedDLQ, CleanupPublished
<1>6. CASE Happened' = Happened
    BY <1>1, <1>6 DEF Delivery!deliveryVars
<1> QED
    BY <1>2, <1>3, <1>4, <1>5, <1>6 DEF Next, Business

\* An effect becomes visible with COMMIT at a consumer, for the first time, and
\* of an event whose transaction committed.
LEMMA ConsumingRefines ==
    ASSUME LooseEvent = {}, PipeIInv, Consuming
    PROVE  [Delivery!Next]_Delivery!deliveryVars
<1> USE DEF PipeIInv
<1>1. tx' = tx
    BY DEF Consuming
<1>2. CP!ConsumerNext
    BY ConsumerNextShared DEF Consuming
<1>3. ASSUME NEW c \in Consumer, CP!Commit(c) \/ CP!CommitUnknown(c)
      PROVE  [Delivery!Next]_Delivery!deliveryVars
  <2>1. /\ cpc[c] = "inserted"
        /\ effects' = [effects EXCEPT ![CP!Key(c)] = @ + 1]
      BY <1>3 DEF CP!Commit, CP!CommitUnknown, CP!Committed
  <2>2. /\ CP!Msg(c) \in Event
        /\ InLog(CP!Msg(c))
        /\ SourceOf[c] \in Source
        /\ CP!Key(c) = <<CP!Msg(c), SourceOf[c]>>
        /\ CP!Key(c) \notin processed
      BY <2>1, PipelineAssumption
         DEF CP!IInv, CP!AtEvent, CP!AtMessage, CP!LockedKeyIsNew, CP!Key, CP!Msg, InLog
  <2>3. effects[<<CP!Msg(c), SourceOf[c]>>] = 0
      BY <2>2 DEF CP!IInv, CP!EffectsMatch
  <2>4. effects' = [effects EXCEPT ![<<CP!Msg(c), SourceOf[c]>>] = 1]
    <3>1. effects[CP!Key(c)] + 1 = 1
        BY <2>2, <2>3
    <3> QED
        BY <2>1, <2>2, <3>1
  <2>5. tx[CP!Msg(c)] = "committed"
      BY <2>2 DEF IInv, NoPhantom
  <2>6. Delivery!Apply(CP!Msg(c), SourceOf[c])
      BY <1>1, <2>2, <2>3, <2>4, <2>5 DEF Delivery!Apply
  <2> QED
      BY <2>2, <2>6 DEF Delivery!Next
<1>4. ASSUME NEW c \in Consumer,
             \/ \E i \in DOMAIN log : CP!Read(c, i)
             \/ CP!SkipMalformed(c) \/ CP!DedupHit(c) \/ CP!DedupMiss(c) \/ CP!Handle(c)
             \/ CP!Insert(c) \/ CP!InsertDuplicate(c)
             \/ CP!ProcessErr(c) \/ CP!Ack(c) \/ CP!AckLost(c) \/ CP!Crash(c)
      PROVE  effects' = effects
    BY <1>4 DEF CP!Read, CP!SkipMalformed, CP!DedupHit, CP!DedupMiss, CP!Handle,
                CP!Insert, CP!InsertDuplicate, CP!ProcessErr, CP!Ack, CP!AckLost, CP!Crash
<1>5. CASE effects' = effects
    BY <1>1, <1>5 DEF Delivery!deliveryVars
<1> QED
    BY <1>2, <1>3, <1>4, <1>5 DEF CP!ConsumerNext, CP!ConsumerStep, CP!ConsumerFault

\* doc.go and consumer.go together: transactional staging, publication at least
\* once and consumption with dedup make one delivery of each committed event.
THEOREM PipelineImplementsDelivery ==
    ASSUME LooseEvent = {}
    PROVE  PipeSpec => PipelineSafety
<1>1. PipeInit => Delivery!Init
    BY DEF PipeInit, Init, C!Init, Delivery!Init
<1>2. PipeIInv /\ [PipeNext]_pipeVars => [Delivery!Next]_Delivery!deliveryVars
  <2>1. CASE UNCHANGED pipeVars
      BY <2>1 DEF pipeVars, outboxVars, consumingVars, Delivery!deliveryVars
  <2> QED
      BY <2>1, ProducingRefines, ConsumingRefines DEF PipeNext
<1> QED
    BY <1>1, <1>2, PipeSpecIInv, PTL DEF PipeSpec, PipelineSafety, Delivery!Spec

===============================================================================
