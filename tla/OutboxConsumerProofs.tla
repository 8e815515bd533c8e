------------------------- MODULE OutboxConsumerProofs -------------------------
(***************************************************************************)
(* Theorems about OutboxConsumer, for any number of events, sources,       *)
(* consumers, messages and faults.  The inductive invariant says why the   *)
(* dedup table works: between INSERT and COMMIT a consumer alone holds a   *)
(* key that no committed row has.                                          *)
(***************************************************************************)
EXTENDS OutboxConsumer, TLAPS

\* The business effects and the dedup table agree.
EffectsMatch ==
    \A k \in Event \X Source : effects[k] = IF k \in processed THEN 1 ELSE 0

\* A consumer at work is at a message of the log.
AtMessage == \A c \in Consumer : pc[c] # "idle" => at[c] \in DOMAIN log

\* Past the dedup check the message is an event.
AtEvent ==
    \A c \in Consumer :
        pc[c] \in {"fresh", "handled", "inserted"} => Msg(c) \in Event

\* The row lock: an inserted key is uncommitted, and one consumer's.
LockedKeyIsNew == \A c \in Consumer : pc[c] = "inserted" => Key(c) \notin processed

LockIsExclusive ==
    \A c, d \in Consumer :
        pc[c] = "inserted" /\ pc[d] = "inserted" /\ Key(c) = Key(d) => c = d

IInv ==
    /\ TypeOK
    /\ EffectsMatch
    /\ AtMessage
    /\ AtEvent
    /\ LockedKeyIsNew
    /\ LockIsExclusive

\* The initial state has no effects, no rows and nobody at work.
LEMMA InitIInv == Init => IInv
<1> SUFFICES ASSUME Init PROVE IInv
    OBVIOUS
<1>1. TypeOK
    BY ConsumerAssumption DEF Init, TypeOK
<1>2. EffectsMatch
    BY DEF Init, EffectsMatch
<1>3. AtMessage /\ AtEvent /\ LockedKeyIsNew /\ LockIsExclusive
    BY DEF Init, AtMessage, AtEvent, LockedKeyIsNew, LockIsExclusive
<1> QED
    BY <1>1, <1>2, <1>3 DEF IInv

\* The budget of faults is never exceeded.
LEMMA FaultCounted ==
    ASSUME TypeOK, Fault
    PROVE  faults' \in 0 .. MaxFaults
    BY ConsumerAssumption DEF TypeOK, Fault

\* A new message leaves the messages consumers are at where they are.
LEMMA ArriveIInv ==
    ASSUME IInv, NEW m \in Message, Arrive(m)
    PROVE  IInv'
<1>1. log' \in Seq(Message) /\ DOMAIN log \subseteq DOMAIN log'
    BY DEF Arrive, IInv, TypeOK
<1>2. ASSUME NEW c \in Consumer, pc[c] # "idle"
      PROVE  at[c] \in DOMAIN log' /\ log'[at[c]] = log[at[c]]
    BY <1>1, <1>2 DEF Arrive, AtMessage, IInv, TypeOK
<1>3. TypeOK'
    BY <1>1 DEF Arrive, consumerVars, IInv, TypeOK
<1>4. EffectsMatch'
    BY DEF Arrive, consumerVars, EffectsMatch, IInv
<1>5. AtMessage'
    BY <1>1, <1>2 DEF Arrive, consumerVars, AtMessage, IInv
<1>6. \A c \in Consumer : pc'[c] # "idle" => Msg(c)' = Msg(c) /\ Key(c)' = Key(c)
    BY <1>2 DEF Arrive, consumerVars, Msg, Key
<1>7. pc' = pc /\ processed' = processed
    BY DEF Arrive, consumerVars
<1>8. AtEvent'
    BY <1>6, <1>7 DEF AtEvent, IInv
<1>9. LockedKeyIsNew'
    BY <1>6, <1>7 DEF LockedKeyIsNew, IInv
<1>10. LockIsExclusive'
    BY <1>6, <1>7 DEF LockIsExclusive, IInv
<1> QED
    BY <1>3, <1>4, <1>5, <1>8, <1>9, <1>10 DEF IInv

\* Steps of a consumer that write neither the log, nor the tables.
LEMMA QuietIInv ==
    ASSUME IInv, NEW c \in Consumer,
           \/ \E i \in DOMAIN log : Read(c, i)
           \/ SkipMalformed(c) \/ DedupHit(c) \/ DedupMiss(c) \/ Handle(c)
           \/ Insert(c) \/ InsertDuplicate(c)
           \/ ProcessErr(c) \/ Ack(c) \/ AckLost(c) \/ Crash(c)
    PROVE  IInv'
<1> USE DEF IInv
<1>1. TypeOK'
  <2>1. ASSUME NEW i \in DOMAIN log, Read(c, i) PROVE TypeOK'
    <3>1. i \in Nat
        BY DEF TypeOK
    <3>2. pos' \in [Consumer -> Nat]
      <4>1. CASE CumulativeAck
        <5>1. pos' = [pos EXCEPT ![c] = i + 1]
            BY <2>1, <4>1, Zenon DEF Read
        <5>2. pos \in [Consumer -> Nat] /\ i + 1 \in Nat
            BY <3>1 DEF TypeOK
        <5> QED
            BY <5>1, <5>2
      <4>2. CASE ~CumulativeAck
          BY <2>1, <4>2 DEF Read, TypeOK
      <4> QED
          BY <4>1, <4>2
    <3>3. pc' = [pc EXCEPT ![c] = "read"] /\ at' \in [Consumer -> Nat]
        BY <2>1, <3>1 DEF Read, Goto, TypeOK
    <3>4. UNCHANGED <<log, acked, processed, effects, faults>>
        BY <2>1 DEF Read
    <3> QED
        BY <3>2, <3>3, <3>4 DEF TypeOK
  <2>2. ASSUME \/ SkipMalformed(c) \/ DedupHit(c) \/ DedupMiss(c) \/ Handle(c)
               \/ Insert(c) \/ InsertDuplicate(c)
        PROVE  TypeOK'
      BY <2>2 DEF SkipMalformed, DedupHit, DedupMiss, Handle, Insert, InsertDuplicate,
                  Goto, TypeOK
  <2>3. ASSUME ProcessErr(c) \/ AckLost(c) PROVE TypeOK'
    <3>1. pc' = [pc EXCEPT ![c] = "idle"] /\ Fault
        BY <2>3 DEF ProcessErr, AckLost, Goto
    <3>2. UNCHANGED <<log, acked, pos, at, processed, effects>>
        BY <2>3 DEF ProcessErr, AckLost
    <3> QED
        BY <3>1, <3>2, FaultCounted DEF TypeOK
  <2>4. ASSUME Ack(c) PROVE TypeOK'
    <3>1. AckedBy(at[c]) \subseteq Nat
        BY DEF AckedBy, TypeOK
    <3> QED
        BY <2>4, <3>1, ConsumerAssumption DEF Ack, Goto, TypeOK
  <2>5. ASSUME Crash(c) PROVE TypeOK'
    <3>1. PICK i \in 1 .. Len(log) + 1 : pos' = [pos EXCEPT ![c] = i]
        BY <2>5 DEF Crash
    <3> QED
        BY <2>5, <3>1, ConsumerAssumption DEF Crash, Goto, Fault, TypeOK
  <2> QED
      BY <2>1, <2>2, <2>3, <2>4, <2>5
<1>2. UNCHANGED <<log, processed, effects>>
    BY DEF Read, SkipMalformed, DedupHit, DedupMiss, Handle, Insert, InsertDuplicate,
           ProcessErr, Ack, AckLost, Crash
<1>3. EffectsMatch'
    BY <1>2 DEF EffectsMatch
<1>4. /\ \A d \in Consumer \ {c} : pc'[d] = pc[d] /\ at'[d] = at[d]
      /\ pc'[c] \notin {"idle", "read"} => at'[c] = at[c] /\ pc[c] # "idle"
      /\ pc'[c] = "read" => at'[c] \in DOMAIN log
      /\ pc'[c] \in {"fresh", "handled", "inserted"} => Msg(c) \in Event
      /\ pc'[c] = "inserted" => Insert(c)
  <2>1. ASSUME NEW i \in DOMAIN log, Read(c, i) PROVE <1>4
      BY <2>1 DEF Read, Goto, TypeOK
  <2>2. ASSUME SkipMalformed(c) \/ DedupHit(c) \/ DedupMiss(c) \/ Handle(c) PROVE <1>4
      BY <2>2 DEF SkipMalformed, DedupHit, DedupMiss, Handle, Goto, TypeOK, AtEvent
  <2>3. ASSUME Insert(c) \/ InsertDuplicate(c) PROVE <1>4
      BY <2>3 DEF Insert, InsertDuplicate, Goto, TypeOK, AtEvent
  <2>4. ASSUME ProcessErr(c) \/ Ack(c) \/ AckLost(c) \/ Crash(c) PROVE <1>4
      BY <2>4 DEF ProcessErr, Ack, AckLost, Crash, Goto, TypeOK
  <2> QED
      BY <2>1, <2>2, <2>3, <2>4
<1>5. AtMessage'
    BY <1>2, <1>4 DEF AtMessage
<1>6. \A d \in Consumer :
          pc'[d] \notin {"idle", "read"} => Msg(d)' = Msg(d) /\ Key(d)' = Key(d)
    BY <1>2, <1>4 DEF Msg, Key
<1>7. AtEvent'
    BY <1>4, <1>6 DEF AtEvent
<1>8. LockedKeyIsNew'
    BY <1>2, <1>4, <1>6 DEF LockedKeyIsNew, Insert
<1>9. LockIsExclusive'
  <2> SUFFICES ASSUME NEW d \in Consumer, NEW e \in Consumer,
                      pc'[d] = "inserted", pc'[e] = "inserted", Key(d)' = Key(e)', d # e
               PROVE  FALSE
      BY DEF LockIsExclusive
  <2>1. Key(d) = Key(e)
      BY <1>6
  <2>2. CASE d # c /\ e # c
      BY <1>4, <2>1, <2>2 DEF LockIsExclusive
  <2>3. CASE d = c
      BY <1>4, <2>1, <2>3 DEF Insert, Locked
  <2>4. CASE e = c
      BY <1>4, <2>1, <2>4 DEF Insert, Locked
  <2> QED
      BY <2>2, <2>3, <2>4
<1> QED
    BY <1>1, <1>3, <1>5, <1>7, <1>8, <1>9

\* COMMIT adds the row and the effect of a key that had neither.
LEMMA CommitIInv ==
    ASSUME IInv, NEW c \in Consumer, Commit(c) \/ CommitUnknown(c)
    PROVE  IInv'
<1> USE DEF IInv
<1>1. /\ pc[c] = "inserted"
      /\ processed' = processed \cup {Key(c)}
      /\ effects' = [effects EXCEPT ![Key(c)] = @ + 1]
      /\ pc' \in {[pc EXCEPT ![c] = "ack"], [pc EXCEPT ![c] = "idle"]}
      /\ UNCHANGED <<log, acked, pos, at>>
    BY DEF Commit, CommitUnknown, Committed, Goto
<1>2. Key(c) \in Event \X Source /\ Key(c) \notin processed
    BY <1>1, ConsumerAssumption DEF AtEvent, Key, LockedKeyIsNew
<1>3. TypeOK'
  <2>1. faults' \in 0 .. MaxFaults
      BY FaultCounted DEF Commit, CommitUnknown, TypeOK
  <2>2. effects' \in [Event \X Source -> Nat] /\ processed' \subseteq Event \X Source
    <3>1. effects[Key(c)] + 1 \in Nat
        BY <1>2 DEF TypeOK
    <3> QED
        BY <1>1, <1>2, <3>1 DEF TypeOK
  <2>3. pc' \in [Consumer -> {"idle", "read", "fresh", "handled", "inserted", "ack"}]
      BY <1>1 DEF TypeOK
  <2> QED
      BY <1>1, <2>1, <2>2, <2>3 DEF TypeOK
<1>4. EffectsMatch'
    BY <1>1, <1>2 DEF EffectsMatch, TypeOK
<1>5. \A d \in Consumer : Msg(d)' = Msg(d) /\ Key(d)' = Key(d)
    BY <1>1 DEF Msg, Key
<1>6. \A d \in Consumer : pc'[d] # "idle" => pc[d] # "idle"
    BY <1>1 DEF TypeOK
<1>7. \A d \in Consumer :
          pc'[d] \in {"fresh", "handled", "inserted"} => d # c /\ pc'[d] = pc[d]
    BY <1>1 DEF TypeOK
<1>8. AtMessage' /\ AtEvent'
    BY <1>1, <1>5, <1>6, <1>7 DEF AtMessage, AtEvent
<1>9. LockedKeyIsNew' /\ LockIsExclusive'
    BY <1>1, <1>5, <1>7 DEF LockedKeyIsNew, LockIsExclusive
<1> QED
    BY <1>3, <1>4, <1>8, <1>9

\* The invariant is inductive.
LEMMA NextIInv == IInv /\ [Next]_vars => IInv'
<1> SUFFICES ASSUME IInv, [Next]_vars PROVE IInv'
    OBVIOUS
<1>1. ASSUME NEW m \in Message, Arrive(m) PROVE IInv'
    BY <1>1, ArriveIInv
<1>2. ASSUME NEW c \in Consumer,
             (\E i \in DOMAIN log : Read(c, i)) \/ ConsumerStep(c) \/ ConsumerFault(c)
      PROVE  IInv'
    BY <1>2, QuietIInv, CommitIInv DEF ConsumerStep, ConsumerFault
<1>3. CASE UNCHANGED vars
    BY <1>3 DEF vars, consumerVars, IInv, TypeOK, EffectsMatch, AtMessage, AtEvent,
                LockedKeyIsNew, LockIsExclusive, Msg, Key
<1> QED
    BY <1>1, <1>2, <1>3 DEF Next, ConsumerNext

LEMMA SpecIInv == Spec => []IInv
    BY InitIInv, NextIInv, PTL DEF Spec

\* The tables, the readers and the consumers keep their types.
THEOREM ConsumerTypes == Spec => []TypeOK
<1>1. IInv => TypeOK
    BY DEF IInv
<1> QED
    BY SpecIInv, <1>1, PTL

\* processOne: whatever is delivered again, to whichever consumers of a source,
\* at any interleaving of their transactions, the effect is applied once.
THEOREM ConsumerExactlyOnce == Spec => []EffectAtMostOnce
<1>1. IInv => EffectAtMostOnce
    BY DEF IInv, EffectsMatch, EffectAtMostOnce
<1> QED
    BY SpecIInv, <1>1, PTL

\* processOne: an effect is visible just when its row of outbox_processed is.
THEOREM ConsumerAtomic == Spec => []EffectIffProcessed
<1>1. IInv => EffectIffProcessed
    BY DEF IInv, EffectsMatch, EffectIffProcessed
<1> QED
    BY SpecIInv, <1>1, PTL

-------------------------------------------------------------------------------
(* The consumers implement OutboxDelivery.                                 *)

InLog(e) == \E i \in DOMAIN log : log[i] = e

\* An arrival offers the event, a malformed message offers nothing.
LEMMA ArriveRefines ==
    ASSUME IInv, NEW m \in Message, Arrive(m)
    PROVE  [Delivery!Next]_Delivery!deliveryVars
<1> USE DEF IInv, TypeOK
<1>1. log \in Seq(Message) /\ log' = Append(log, m)
    BY DEF Arrive
<1>2. effects' = effects
    BY DEF Arrive, consumerVars
<1>3. \A e \in Event : InLog(e)' <=> InLog(e) \/ e = m
  <2>1. /\ DOMAIN log' = DOMAIN log \cup {Len(log) + 1}
        /\ \A i \in DOMAIN log : log'[i] = log[i]
        /\ log'[Len(log) + 1] = m
      BY <1>1
  <2> QED
      BY <2>1 DEF InLog
<1>4. CASE m \in Event
  <2>1. {e \in Event : \E i \in DOMAIN log : log[i] = e}'
            = {e \in Event : \E i \in DOMAIN log : log[i] = e} \cup {m}
      BY <1>3, <1>4 DEF InLog
  <2>2. Delivery!Offer(m)
      BY <1>2, <2>1 DEF Delivery!Offer
  <2> QED
      BY <1>4, <2>2 DEF Delivery!Next
<1>5. CASE m \notin Event
  <2>1. {e \in Event : \E i \in DOMAIN log : log[i] = e}'
            = {e \in Event : \E i \in DOMAIN log : log[i] = e}
      BY <1>3, <1>5 DEF InLog
  <2> QED
      BY <1>2, <2>1 DEF Delivery!deliveryVars
<1> QED
    BY <1>4, <1>5

\* COMMIT is the one step that applies an effect, of an event in the log that
\* has none yet.
LEMMA CommitRefines ==
    ASSUME IInv, NEW c \in Consumer, Commit(c) \/ CommitUnknown(c)
    PROVE  [Delivery!Next]_Delivery!deliveryVars
<1> USE DEF IInv
<1>1. /\ pc[c] = "inserted"
      /\ effects' = [effects EXCEPT ![Key(c)] = @ + 1]
      /\ UNCHANGED log
    BY DEF Commit, CommitUnknown, Committed
<1>2. /\ Msg(c) \in Event
      /\ SourceOf[c] \in Source
      /\ Key(c) = <<Msg(c), SourceOf[c]>>
      /\ Key(c) \notin processed
    BY <1>1, ConsumerAssumption DEF AtEvent, Key, LockedKeyIsNew
<1>3. effects[Key(c)] = 0
    BY <1>2 DEF EffectsMatch
<1>4. effects' = [effects EXCEPT ![<<Msg(c), SourceOf[c]>>] = 1]
  <2>1. effects[Key(c)] + 1 = 1
      BY <1>3
  <2> QED
      BY <1>1, <1>2, <2>1
<1>5. Msg(c) \in {e \in Event : \E i \in DOMAIN log : log[i] = e}
    BY <1>1, <1>2 DEF AtMessage, Msg
<1>6. Delivery!Apply(Msg(c), SourceOf[c])
    BY <1>1, <1>2, <1>3, <1>4, <1>5 DEF Delivery!Apply
<1> QED
    BY <1>2, <1>6 DEF Delivery!Next

\* Every step is a step of the promise, or none.
LEMMA NextRefines ==
    IInv /\ [Next]_vars => [Delivery!Next]_Delivery!deliveryVars
<1> SUFFICES ASSUME IInv, [Next]_vars
             PROVE  [Delivery!Next]_Delivery!deliveryVars
    OBVIOUS
<1>1. ASSUME NEW m \in Message, Arrive(m)
      PROVE  [Delivery!Next]_Delivery!deliveryVars
    BY <1>1, ArriveRefines
<1>2. ASSUME NEW c \in Consumer, Commit(c) \/ CommitUnknown(c)
      PROVE  [Delivery!Next]_Delivery!deliveryVars
    BY <1>2, CommitRefines
<1>3. ASSUME NEW c \in Consumer,
             \/ \E i \in DOMAIN log : Read(c, i)
             \/ SkipMalformed(c) \/ DedupHit(c) \/ DedupMiss(c) \/ Handle(c)
             \/ Insert(c) \/ InsertDuplicate(c)
             \/ ProcessErr(c) \/ Ack(c) \/ AckLost(c) \/ Crash(c)
      PROVE  UNCHANGED <<log, effects>>
    BY <1>3 DEF Read, SkipMalformed, DedupHit, DedupMiss, Handle, Insert,
                InsertDuplicate, ProcessErr, Ack, AckLost, Crash
<1>4. CASE UNCHANGED <<log, effects>>
    BY <1>4 DEF Delivery!deliveryVars
<1>5. CASE UNCHANGED vars
    BY <1>4, <1>5 DEF vars, consumerVars
<1> QED
    BY <1>1, <1>2, <1>3, <1>4, <1>5 DEF Next, ConsumerNext, ConsumerStep, ConsumerFault

\* consumer.go: for every event and service, the consumers do what the promise
\* allows: an effect of an event that was delivered, once.
THEOREM ConsumerImplementsDelivery == Spec => DeliverySpec
<1>1. Init => Delivery!Init
    BY DEF Init, Delivery!Init
<1> QED
    BY <1>1, SpecIInv, NextRefines, PTL DEF Spec, DeliverySpec, Delivery!Spec

-------------------------------------------------------------------------------
(* Acknowledging message by message.                                       *)

\* What is acknowledged, or about to be, was processed or is no event.
AckInv ==
    /\ \A s \in Source : acked[s] \subseteq DOMAIN log
    /\ AckedWasProcessed
    /\ \A c \in Consumer :
           pc[c] = "ack" => Msg(c) = Malformed \/ Key(c) \in processed

LEMMA NextAckInv ==
    ASSUME ~CumulativeAck, IInv, AckInv, [Next]_vars
    PROVE  AckInv'
<1> USE DEF IInv
<1>1. /\ DOMAIN log \subseteq DOMAIN log'
      /\ \A i \in DOMAIN log : log'[i] = log[i]
  <2>1. ASSUME NEW m \in Message, Arrive(m) PROVE <1>1
      BY <2>1 DEF Arrive, TypeOK
  <2>2. ASSUME ~(\E m \in Message : Arrive(m)) PROVE log' = log
      BY <2>2 DEF Next, ConsumerNext, ConsumerStep, ConsumerFault, vars, Read,
          SkipMalformed, DedupHit, DedupMiss, Handle, Insert, InsertDuplicate,
          Commit, CommitUnknown, ProcessErr, Ack, AckLost, Crash
  <2> QED
      BY <2>1, <2>2
<1>2. processed \subseteq processed'
    BY DEF Next, ConsumerNext, ConsumerStep, ConsumerFault, vars, consumerVars, Arrive,
        Read, SkipMalformed, DedupHit, DedupMiss, Handle, Insert, InsertDuplicate,
        Commit, CommitUnknown, Committed, ProcessErr, Ack, AckLost, Crash
<1>3. ASSUME UNCHANGED acked
      PROVE  (\A s \in Source : acked[s] \subseteq DOMAIN log)' /\ AckedWasProcessed'
    BY <1>1, <1>2, <1>3 DEF AckInv, AckedWasProcessed
<1>4. ASSUME NEW c \in Consumer, pc[c] = "ack", at'[c] = at[c]
      PROVE  (Msg(c) = Malformed \/ Key(c) \in processed)'
    BY <1>1, <1>2, <1>4 DEF AckInv, AtMessage, Msg, Key
<1>5. ASSUME NEW m \in Message, Arrive(m) PROVE AckInv'
    BY <1>3, <1>4, <1>5 DEF Arrive, consumerVars, AckInv
<1>6. CASE UNCHANGED vars
    BY <1>3, <1>4, <1>6 DEF vars, consumerVars, AckInv
<1>7. ASSUME NEW c \in Consumer,
             \/ \E i \in DOMAIN log : Read(c, i)
             \/ DedupMiss(c) \/ Handle(c) \/ Insert(c) \/ InsertDuplicate(c)
             \/ CommitUnknown(c) \/ ProcessErr(c) \/ AckLost(c) \/ Crash(c)
      PROVE  AckInv'
  <2>1. UNCHANGED acked
      BY <1>7 DEF Read, DedupMiss, Handle, Insert, InsertDuplicate, CommitUnknown,
          ProcessErr, AckLost, Crash
  <2>2. \A d \in Consumer :
            pc'[d] = "ack" => pc[d] = "ack" /\ at'[d] = at[d]
      BY <1>7 DEF Read, DedupMiss, Handle, Insert, InsertDuplicate, CommitUnknown,
          ProcessErr, AckLost, Crash, Goto, TypeOK
  <2> QED
      BY <1>3, <1>4, <2>1, <2>2 DEF AckInv
<1>8. ASSUME NEW c \in Consumer, SkipMalformed(c) \/ DedupHit(c) \/ Commit(c)
      PROVE  AckInv'
  <2>1. UNCHANGED <<acked, at, log>>
      BY <1>8 DEF SkipMalformed, DedupHit, Commit
  <2>2. \A d \in Consumer : pc'[d] = "ack" => d = c \/ pc[d] = "ack"
      BY <1>8 DEF SkipMalformed, DedupHit, Commit, Goto, TypeOK
  <2>3. (Msg(c) = Malformed \/ Key(c) \in processed)'
      BY <1>8, <2>1 DEF SkipMalformed, DedupHit, Commit, Committed, Msg, Key
  <2> QED
      BY <1>3, <1>4, <2>1, <2>2, <2>3 DEF AckInv
<1>9. ASSUME NEW c \in Consumer, Ack(c) PROVE AckInv'
  <2>1. /\ acked' = [acked EXCEPT ![SourceOf[c]] = @ \cup {at[c]}]
        /\ UNCHANGED <<log, at, processed>>
        /\ pc[c] = "ack"
        /\ pc' = [pc EXCEPT ![c] = "idle"]
      BY <1>9 DEF Ack, AckedBy, Goto
  <2>2. at[c] \in DOMAIN log /\ SourceOf[c] \in Source
      BY <2>1, ConsumerAssumption DEF AtMessage
  <2>3. log[at[c]] = Malformed \/ <<log[at[c]], SourceOf[c]>> \in processed
      BY <2>1 DEF AckInv, Msg, Key
  <2>4. (\A s \in Source : acked[s] \subseteq DOMAIN log)'
      BY <2>1, <2>2 DEF AckInv, TypeOK
  <2>5. AckedWasProcessed'
      BY <2>1, <2>2, <2>3 DEF AckInv, AckedWasProcessed, TypeOK
  <2>6. \A d \in Consumer : pc'[d] = "ack" => pc[d] = "ack"
      BY <2>1 DEF TypeOK
  <2> QED
      BY <1>4, <2>1, <2>4, <2>5, <2>6 DEF AckInv
<1> QED
    BY <1>5, <1>6, <1>7, <1>8, <1>9 DEF Next, ConsumerNext, ConsumerStep, ConsumerFault

\* Loop: with a queue that acknowledges single messages, a message whose
\* processing failed is never acknowledged, so the queue delivers it again.
THEOREM AckedOnlyWhenProcessed ==
    ASSUME ~CumulativeAck
    PROVE  Spec => []AckedWasProcessed
<1>1. Init => AckInv
    BY DEF Init, AckInv, AckedWasProcessed
<1>2. IInv /\ AckInv /\ [Next]_vars => AckInv'
    BY NextAckInv
<1>3. AckInv => AckedWasProcessed
    BY DEF AckInv
<1> QED
    BY <1>1, <1>2, <1>3, SpecIInv, PTL DEF Spec

===============================================================================
