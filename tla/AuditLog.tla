------------------------------ MODULE AuditLog ------------------------------
(* The audit log client (auditlog/client.go): Emit into a bounded buffer,    *)
(* flushLoop that collects a batch, sends it event by event with retries,    *)
(* and drains the buffer when it is stopped.  Events are numbered in the     *)
(* order of their Emit.                                                      *)
EXTENDS Naturals, Sequences, FiniteSets

CONSTANTS MaxAudits,    \* bound: events emitted
          BufferSize, AuBatch, MaxRetries,
          MaxBadPosts   \* bound: POSTs that fail
ASSUME AuditAssumption ==
    /\ MaxAudits \in Nat /\ BufferSize \in Nat \ {0} /\ AuBatch \in Nat \ {0}
    /\ MaxRetries \in Nat \ {0} /\ MaxBadPosts \in Nat

VARIABLES emitted,    \* the number of calls of Emit
          buffer, batch,
          attempt,    \* POSTs of the first event of a batch being sent
          mode,       \* "collect", "flush", "drain", "drainFlush", "stopped"
          stopAt,     \* events emitted when Stop was called; NotStopped before
          received,   \* what the audit log got, in order
          givenUp,    \* history: events whose last POST failed
          droppedEvents, badPosts
auVars == <<emitted, buffer, batch, attempt, mode, stopAt, received, givenUp, droppedEvents,
            badPosts>>

NotStopped == MaxAudits + 1
Events(s) == {s[i] : i \in DOMAIN s}
AuInit ==
    /\ emitted = 0 /\ buffer = <<>> /\ batch = <<>> /\ attempt = 0 /\ mode = "collect"
    /\ stopAt = NotStopped /\ received = <<>> /\ givenUp = {}
    /\ droppedEvents = {} /\ badPosts = 0
-----------------------------------------------------------------------------
\* Mutant: a full buffer counts nothing.
EmitOver ==
    /\ emitted < MaxAudits /\ emitted' = emitted + 1
    /\ buffer' = IF Len(buffer) < BufferSize THEN Append(buffer, emitted + 1) ELSE buffer
    /\ UNCHANGED <<batch, attempt, mode, stopAt, received, givenUp,
                   droppedEvents, badPosts>>
Emit ==
    /\ emitted < MaxAudits /\ emitted' = emitted + 1
    /\ IF Len(buffer) < BufferSize
       THEN buffer' = Append(buffer, emitted + 1) /\ UNCHANGED droppedEvents
       ELSE droppedEvents' = droppedEvents \cup {emitted + 1} /\ UNCHANGED buffer
    /\ UNCHANGED <<batch, attempt, mode, stopAt, received, givenUp, badPosts>>
Stop ==
    /\ stopAt = NotStopped /\ stopAt' = emitted
    /\ UNCHANGED <<emitted, buffer, batch, attempt, mode, received, givenUp,
                   droppedEvents, badPosts>>
Flushing(m) == IF m = "collect" THEN "flush" ELSE "drainFlush"
\* The select of flushLoop, or of its drain, receives an event.
Collect ==
    /\ mode \in {"collect", "drain"} /\ buffer # <<>>
    /\ buffer' = Tail(buffer) /\ batch' = Append(batch, Head(buffer)) /\ attempt' = 0
    /\ mode' = IF Len(batch) + 1 >= AuBatch THEN Flushing(mode) ELSE mode
    /\ UNCHANGED <<emitted, stopAt, received, givenUp, droppedEvents, badPosts>>
\* The ticker.
FlushTick ==
    /\ mode = "collect" /\ batch # <<>> /\ mode' = "flush" /\ attempt' = 0
    /\ UNCHANGED <<emitted, buffer, batch, stopAt, received, givenUp,
                   droppedEvents, badPosts>>
SeeStop ==
    /\ mode = "collect" /\ stopAt # NotStopped /\ mode' = "drain"
    /\ UNCHANGED <<emitted, buffer, batch, attempt, stopAt, received, givenUp,
                   droppedEvents, badPosts>>
\* The buffer is empty: a last flush; the loop ends with the next look.
Drained ==
    /\ mode = "drain" /\ buffer = <<>> /\ attempt' = 0
    /\ mode' = IF batch = <<>> THEN "stopped" ELSE "lastFlush"
    /\ UNCHANGED <<emitted, buffer, batch, stopAt, received, givenUp,
                   droppedEvents, badPosts>>
AfterFlush == CASE mode = "flush" -> "collect" [] mode = "drainFlush" -> "drain"
                [] OTHER -> "stopped"
InFlush == mode \in {"flush", "drainFlush", "lastFlush"} /\ batch # <<>>
PostOk ==
    /\ InFlush /\ received' = Append(received, Head(batch))
    /\ batch' = Tail(batch) /\ attempt' = 0
    /\ mode' = IF Len(batch) = 1 THEN AfterFlush ELSE mode
    /\ UNCHANGED <<emitted, buffer, stopAt, givenUp, droppedEvents, badPosts>>
LastAttempt == attempt + 1 >= MaxRetries
\* A POST fails or its answer is lost; after the last attempt sendBatch returns
\* and flush empties the batch: nothing records the events behind this one.
PostFails ==
    /\ InFlush /\ badPosts < MaxBadPosts /\ badPosts' = badPosts + 1
    /\ received' \in {received, Append(received, Head(batch))}
    /\ IF LastAttempt
       THEN /\ givenUp' = givenUp \cup {Head(batch)}
            /\ batch' = <<>> /\ attempt' = 0 /\ mode' = AfterFlush
       ELSE attempt' = attempt + 1 /\ UNCHANGED <<batch, mode, givenUp>>
    /\ UNCHANGED <<emitted, buffer, stopAt, droppedEvents>>

AuLoop == Collect \/ FlushTick \/ SeeStop \/ Drained \/ PostOk \/ PostFails
AuNext == Emit \/ Stop \/ AuLoop
AuSpec == AuInit /\ [][AuNext]_auVars
AuFair == WF_auVars(AuLoop)
-----------------------------------------------------------------------------
AuTypeOK ==
    /\ emitted \in 0 .. MaxAudits
    /\ buffer \in Seq(1 .. emitted) /\ Len(buffer) <= BufferSize
    /\ batch \in Seq(1 .. emitted) /\ Len(batch) <= AuBatch
    /\ attempt \in 0 .. MaxRetries - 1 /\ badPosts \in 0 .. MaxBadPosts
    /\ mode \in {"collect", "flush", "drain", "drainFlush", "lastFlush", "stopped"}
    /\ stopAt \in 0 .. NotStopped /\ received \in Seq(1 .. emitted)
    /\ givenUp \cup droppedEvents \subseteq 1 .. emitted

\* The events that are nowhere: Emit accepted them, and they neither wait nor
\* were received nor tried to the last.  No counter and no log line names them.
Lost ==
    (1 .. emitted) \ (droppedEvents \cup Events(buffer) \cup Events(batch)
                        \cup Events(received) \cup givenUp)

\* Emit's promise is not kept for every event (sendBatch returns at the first one
\* it gives up), but the loss has a bound: an event is lost only behind one that
\* was given up, and each of those takes at most the rest of its batch along.
LossBounded ==
    /\ \A e \in Lost : \E g \in givenUp : g < e
    /\ Cardinality(Lost) <= (AuBatch - 1) * Cardinality(givenUp)

\* The audit log gets events in the order of their Emit, possibly repeated,
\* whatever is retried.
ReceivedInOrder ==
    \A i, j \in DOMAIN received : i < j => received[i] <= received[j]

\* An event is given up only after MaxRetries failing POSTs of its own.
GivenUpAfterRetries == badPosts >= MaxRetries * Cardinality(givenUp)

\* Stop drains: when the loop has ended, only what was emitted after the call of
\* Stop is left behind ("刷掉 channel 里剩余事件后返").
StopDrains ==
    mode = "stopped" => \A e \in Events(buffer) \cup Events(batch) : e > stopAt

\* All four together, for Emit, flushLoop, sendBatch and Stop.
EventsAccounted == LossBounded /\ ReceivedInOrder /\ GivenUpAfterRetries /\ StopDrains

\* Stop has to return once the callers emit no more, whatever POSTs fail.  While
\* they do, it need not: the drain ends when it finds the buffer empty.
AuOwed == stopAt # NotStopped /\ mode # "stopped" /\ emitted = MaxAudits
=============================================================================
