---------------------------- MODULE OutboxConsumer ----------------------------
(***************************************************************************)
(* The consuming side of package outbox (consumer.go): consumers that read *)
(* the broker's log, look the event up in the table outbox_processed, run  *)
(* the business handler and record the event in one database transaction,  *)
(* and acknowledge the message.                                            *)
(*                                                                         *)
(* Several consumers may serve one source (replicas, or an instance that   *)
(* lost its partition and does not know it yet).  Each SQL statement, the  *)
(* handler, and each call of the MessageReader is a step of its own.       *)
(*                                                                         *)
(* The MessageReader is external.  CumulativeAck says which kind it is: a  *)
(* Kafka reader, whose CommitMessages stores an offset and so acknowledges *)
(* all that precedes, or a queue that acknowledges single messages and     *)
(* delivers the others again.                                              *)
(***************************************************************************)
EXTENDS Naturals, Sequences

CONSTANTS
    Event,          \* event ids
    Malformed,      \* a message whose JSON does not parse as an Event
    Source,         \* Consumer.Source values
    Consumer,       \* running consumers
    SourceOf,       \* the Source of each consumer
    CumulativeAck,  \* TRUE: Kafka offsets; FALSE: message by message
    MaxLog,         \* bound: messages that arrive
    MaxFaults       \* bound: failed statements, handler errors, crashes

ASSUME ConsumerAssumption ==
    /\ Malformed \notin Event
    /\ SourceOf \in [Consumer -> Source]
    /\ CumulativeAck \in BOOLEAN
    /\ MaxLog \in Nat
    /\ MaxFaults \in Nat

VARIABLES
    log,        \* the broker's topic
    acked,      \* the positions of the log each source has acknowledged
    pos,        \* Kafka: the next position a consumer reads
    pc,         \* where each consumer is in Loop / processOne
    at,         \* the position of the message it is working on
    processed,  \* the committed rows of outbox_processed
    effects,    \* committed business effects of each event at each source
    faults      \* faults so far

consumerVars == <<acked, pos, pc, at, processed, effects, faults>>
vars         == <<log, consumerVars>>

Message == Event \cup {Malformed}

Init ==
    /\ log = <<>>
    /\ acked = [s \in Source |-> {}]
    /\ pos = [c \in Consumer |-> 1]
    /\ pc = [c \in Consumer |-> "idle"]
    /\ at = [c \in Consumer |-> 0]
    /\ processed = {}
    /\ effects = [k \in Event \X Source |-> 0]
    /\ faults = 0

Msg(c) == log[at[c]]
Key(c) == <<Msg(c), SourceOf[c]>>

Fault ==
    /\ faults < MaxFaults
    /\ faults' = faults + 1

Goto(c, label) == pc' = [pc EXCEPT ![c] = label]

\* The environment: some publisher's message arrives, possibly once more.
Arrive(m) ==
    /\ Len(log) < MaxLog
    /\ log' = Append(log, m)
    /\ UNCHANGED consumerVars

\* Reader.ReadMessage.  Kafka hands out positions in order; a queue hands out
\* any message that is not acknowledged, again after its visibility time-out.
Read(c, i) ==
    /\ pc[c] = "idle"
    /\ i \in DOMAIN log
    /\ IF CumulativeAck
       THEN i = pos[c] /\ pos' = [pos EXCEPT ![c] = i + 1]
       ELSE i \notin acked[SourceOf[c]] /\ UNCHANGED pos
    /\ at' = [at EXCEPT ![c] = i]
    /\ Goto(c, "read")
    /\ UNCHANGED <<log, acked, processed, effects, faults>>

\* processOne: jsonUnmarshal failed, the message is skipped as if processed.
SkipMalformed(c) ==
    /\ pc[c] = "read"
    /\ Msg(c) = Malformed
    /\ Goto(c, "ack")
    /\ UNCHANGED <<log, acked, pos, at, processed, effects, faults>>

\* Mutant: SELECT ... WHERE event_id=? forgets the source.
DedupHitAnySource(c) ==
    /\ pc[c] = "read"
    /\ Msg(c) \in Event
    /\ \E s \in Source : <<Msg(c), s>> \in processed
    /\ Goto(c, "ack")
    /\ UNCHANGED <<log, acked, pos, at, processed, effects, faults>>

\* processOne: the SELECT finds the event and the empty transaction commits.
DedupHit(c) ==
    /\ pc[c] = "read"
    /\ Msg(c) \in Event
    /\ Key(c) \in processed
    /\ Goto(c, "ack")
    /\ UNCHANGED <<log, acked, pos, at, processed, effects, faults>>

\* processOne: sql.ErrNoRows.
DedupMiss(c) ==
    /\ pc[c] = "read"
    /\ Msg(c) \in Event
    /\ Key(c) \notin processed
    /\ Goto(c, "fresh")
    /\ UNCHANGED <<log, acked, pos, at, processed, effects, faults>>

\* Mutant: the handler writes through the pool, not through the transaction.
HandleOnPool(c) ==
    /\ pc[c] = "fresh"
    /\ effects' = [effects EXCEPT ![Key(c)] = @ + 1]
    /\ Goto(c, "handled")
    /\ UNCHANGED <<log, acked, pos, at, processed, faults>>

\* Handler.Handle writes its rows in the transaction; nobody sees them yet.
Handle(c) ==
    /\ pc[c] = "fresh"
    /\ Goto(c, "handled")
    /\ UNCHANGED <<log, acked, pos, at, processed, effects, faults>>

\* The row lock on the primary key (event_id, source).
Locked(c) == \E d \in Consumer : pc[d] = "inserted" /\ Key(d) = Key(c)

\* Mutant: outbox_processed without PRIMARY KEY (event_id, source).
InsertNoKey(c) ==
    /\ pc[c] = "handled"
    /\ Goto(c, "inserted")
    /\ UNCHANGED <<log, acked, pos, at, processed, effects, faults>>

\* Mutant: the key is looked up but nobody waits for the row lock.
InsertNoLock(c) ==
    /\ pc[c] = "handled"
    /\ Key(c) \notin processed
    /\ Goto(c, "inserted")
    /\ UNCHANGED <<log, acked, pos, at, processed, effects, faults>>

\* INSERT INTO outbox_processed waits for the lock and finds the key free.
Insert(c) ==
    /\ pc[c] = "handled"
    /\ ~Locked(c)
    /\ Key(c) \notin processed
    /\ Goto(c, "inserted")
    /\ UNCHANGED <<log, acked, pos, at, processed, effects, faults>>

\* The INSERT finds the key: processOne returns the error, the deferred
\* Rollback undoes the handler's rows, Loop goes on without CommitMessages.
InsertDuplicate(c) ==
    /\ pc[c] = "handled"
    /\ ~Locked(c)
    /\ Key(c) \in processed
    /\ Goto(c, "idle")
    /\ UNCHANGED <<log, acked, pos, at, processed, effects, faults>>

\* COMMIT makes the handler's rows and the dedup row durable together.
Committed(c) ==
    /\ processed' = processed \cup {Key(c)}
    /\ effects' = [effects EXCEPT ![Key(c)] = @ + 1]

Commit(c) ==
    /\ pc[c] = "inserted"
    /\ Committed(c)
    /\ Goto(c, "ack")
    /\ UNCHANGED <<log, acked, pos, at, faults>>

\* tx.Commit returned an error although the database committed.
CommitUnknown(c) ==
    /\ pc[c] = "inserted"
    /\ Fault
    /\ Committed(c)
    /\ Goto(c, "idle")
    /\ UNCHANGED <<log, acked, pos, at>>

\* Mutant: Loop logs the error and acknowledges all the same.
ProcessErrAcked(c) ==
    /\ pc[c] \in {"read", "fresh", "handled", "inserted"}
    /\ Msg(c) \in Event
    /\ Fault
    /\ Goto(c, "ack")
    /\ UNCHANGED <<log, acked, pos, at, processed, effects>>

\* BeginTx, a statement, the handler or COMMIT failed: processOne returns the
\* error with its transaction rolled back, Loop goes on without CommitMessages.
ProcessErr(c) ==
    /\ pc[c] \in {"read", "fresh", "handled", "inserted"}
    /\ Msg(c) \in Event
    /\ Fault
    /\ Goto(c, "idle")
    /\ UNCHANGED <<log, acked, pos, at, processed, effects>>

AckedBy(i) == IF CumulativeAck THEN 1 .. i ELSE {i}

\* Reader.CommitMessages(ctx, msg).
Ack(c) ==
    /\ pc[c] = "ack"
    /\ acked' = [acked EXCEPT ![SourceOf[c]] = @ \cup AckedBy(at[c])]
    /\ Goto(c, "idle")
    /\ UNCHANGED <<log, pos, at, processed, effects, faults>>

\* CommitMessages failed; its error is dropped.
AckLost(c) ==
    /\ pc[c] = "ack"
    /\ Fault
    /\ Goto(c, "idle")
    /\ UNCHANGED <<log, acked, pos, at, processed, effects>>

\* The committed offset of a Kafka consumer group.
AckedUpTo(s, i) == (i = 1 \/ i - 1 \in acked[s]) /\ \A k \in acked[s] : k < i

\* The consumer dies, its transaction rolls back; a Kafka reader starts again
\* behind the committed offset.
Crash(c) ==
    /\ Fault
    /\ Goto(c, "idle")
    /\ \E i \in 1 .. Len(log) + 1 :
           /\ AckedUpTo(SourceOf[c], i)
           /\ pos' = [pos EXCEPT ![c] = i]
    /\ UNCHANGED <<log, acked, at, processed, effects>>

-------------------------------------------------------------------------------
ConsumerStep(c) ==
    \/ SkipMalformed(c) \/ DedupHit(c) \/ DedupMiss(c) \/ Handle(c)
    \/ Insert(c) \/ InsertDuplicate(c) \/ Commit(c) \/ Ack(c)

ConsumerFault(c) == CommitUnknown(c) \/ ProcessErr(c) \/ AckLost(c) \/ Crash(c)

ConsumerNext ==
    \E c \in Consumer :
        \/ \E i \in DOMAIN log : Read(c, i)
        \/ ConsumerStep(c)
        \/ ConsumerFault(c)

Next == (\E m \in Message : Arrive(m)) \/ ConsumerNext

Spec == Init /\ [][Next]_vars

-------------------------------------------------------------------------------
(* Properties.                                                             *)

TypeOK ==
    /\ log \in Seq(Message)
    /\ acked \in [Source -> SUBSET Nat]
    /\ pos \in [Consumer -> Nat]
    /\ pc \in [Consumer -> {"idle", "read", "fresh", "handled", "inserted", "ack"}]
    /\ at \in [Consumer -> Nat]
    /\ processed \subseteq Event \X Source
    /\ effects \in [Event \X Source -> Nat]
    /\ faults \in 0 .. MaxFaults

\* consumer.go: exactly-once processing.  However often a message is delivered,
\* and to however many consumers of a source, its effect is applied once.
EffectAtMostOnce == \A k \in Event \X Source : effects[k] <= 1

\* The business rows and the row of outbox_processed stand or fall together.
EffectIffProcessed == \A k \in Event \X Source : effects[k] = 1 <=> k \in processed

\* Loop: a message that could not be processed is not committed, "retried next
\* time".  What a source has acknowledged, it has processed.
AckedWasProcessed ==
    \A s \in Source : \A i \in acked[s] :
        log[i] = Malformed \/ <<log[i], s>> \in processed

Delivery == INSTANCE OutboxDelivery WITH
    offered <- {e \in Event : \E i \in DOMAIN log : log[i] = e}

\* The consumers implement the promise for the events the broker delivers.
DeliverySpec == Delivery!Spec

===============================================================================
