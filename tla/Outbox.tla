-------------------------------- MODULE Outbox --------------------------------
(***************************************************************************)
(* The producing side of package outbox: business transactions that stage  *)
(* events in the table tx_outbox (append.go), publisher loops that poll    *)
(* the table and hand the pending rows to a broker (publisher.go), and the *)
(* two operator functions ReplayFailedDLQ and CleanupPublished.            *)
(*                                                                         *)
(* Every SQL statement is one step, and so is every call of PublishFunc.   *)
(* A publisher keeps the rows it selected in memory (batch, current), and  *)
(* works from that copy however old it is.  A step may be followed by a    *)
(* crash, the UPDATE after a publication may fail (its error is ignored),  *)
(* and PublishFunc may report an error although the broker took the event. *)
(***************************************************************************)
EXTENDS Naturals, Sequences, FiniteSets, FiniteSetsExt

CONSTANTS
    Event,          \* event ids
    NoEvent,        \* "no event is being published"
    LooseEvent,     \* events written with AppendDB, outside the transaction
    CreatedAt,      \* Event.CreatedAt, the column the poll orders by
    Publisher,      \* running publisher loops (README: one)
    BatchSize,      \* Publisher.BatchSize
    MaxRetries,     \* Publisher.MaxRetries
    FailedDLQ,      \* Publisher.FailedDLQ
    Poison,         \* events PublishFunc always refuses
    RetryCap,       \* bound: retry_count saturates here, above MaxRetries
    MaxFaults,      \* bound: crashes, failed statements, refused publications
    MaxReplays      \* bound: calls of ReplayFailedDLQ

ASSUME OutboxAssumption ==
    /\ NoEvent \notin Event
    /\ LooseEvent \subseteq Event
    /\ Poison \subseteq Event
    /\ CreatedAt \in [Event -> Nat]
    /\ BatchSize \in Nat \ {0}
    /\ MaxRetries \in Nat \ {0}
    /\ RetryCap \in Nat /\ RetryCap >= MaxRetries
    /\ FailedDLQ \in BOOLEAN
    /\ MaxFaults \in Nat
    /\ MaxReplays \in Nat

VARIABLES
    tx,         \* the business transaction of each event
    row,        \* tx_outbox as committed: status and retry_count of each event
    log,        \* the broker's topic: every message it accepted, in order
    pc,         \* where each publisher is
    batch,      \* the selected rows a publisher has not come to yet
    current,    \* the row it is publishing, as it was when selected
    faults,     \* faults so far
    replays     \* calls of ReplayFailedDLQ so far

producerVars  == <<tx>>
publisherVars == <<pc, batch, current>>
outboxVars    == <<tx, row, log, pc, batch, current, faults, replays>>

TxState   == {"idle", "open", "appended", "committed", "rolledback"}
RowStatus == {"absent", "pending", "published", "failed"}
Row       == [status : RowStatus, retry : 0 .. RetryCap]
Entry     == [id : Event, retry : 0 .. RetryCap]
NoEntry   == [id |-> NoEvent, retry |-> 0]
Absent    == [status |-> "absent", retry |-> 0]

Init ==
    /\ tx = [e \in Event |-> "idle"]
    /\ row = [e \in Event |-> Absent]
    /\ log = <<>>
    /\ pc = [p \in Publisher |-> "idle"]
    /\ batch = [p \in Publisher |-> {}]
    /\ current = [p \in Publisher |-> NoEntry]
    /\ faults = 0
    /\ replays = 0

InLog(e) == \E i \in DOMAIN log : log[i] = e

Fault ==
    /\ faults < MaxFaults
    /\ faults' = faults + 1

-------------------------------------------------------------------------------
(* The business transactions (append.go).                                  *)

\* The caller opens its transaction and writes the business row in it.
Begin(e) ==
    /\ tx[e] = "idle"
    /\ tx' = [tx EXCEPT ![e] = "open"]
    /\ UNCHANGED <<row, log, publisherVars, faults, replays>>

\* Mutant: the INSERT runs on the pool instead of the caller's transaction.
AppendOnPool(e) ==
    /\ e \notin LooseEvent
    /\ tx[e] = "open"
    /\ tx' = [tx EXCEPT ![e] = "appended"]
    /\ row' = [row EXCEPT ![e] = [status |-> "pending", retry |-> 0]]
    /\ UNCHANGED <<log, publisherVars, faults, replays>>

\* Append: the INSERT is part of the caller's transaction, nobody sees it yet.
AppendInTx(e) ==
    /\ e \notin LooseEvent
    /\ tx[e] = "open"
    /\ tx' = [tx EXCEPT ![e] = "appended"]
    /\ UNCHANGED <<row, log, publisherVars, faults, replays>>

\* AppendDB: the INSERT commits in a transaction of its own.
AppendDB(e) ==
    /\ e \in LooseEvent
    /\ tx[e] = "open"
    /\ tx' = [tx EXCEPT ![e] = "appended"]
    /\ row' = [row EXCEPT ![e] = [status |-> "pending", retry |-> 0]]
    /\ UNCHANGED <<log, publisherVars, faults, replays>>

\* COMMIT of the caller's transaction: business row and staged row appear.
Commit(e) ==
    /\ tx[e] = "appended"
    /\ tx' = [tx EXCEPT ![e] = "committed"]
    /\ row' = IF e \in LooseEvent
              THEN row
              ELSE [row EXCEPT ![e] = [status |-> "pending", retry |-> 0]]
    /\ UNCHANGED <<log, publisherVars, faults, replays>>

\* ROLLBACK: by the caller's deferred Rollback, because its own write or Append
\* returned an error, or because the service died with the transaction open.
Rollback(e) ==
    /\ tx[e] \in {"open", "appended"}
    /\ tx' = [tx EXCEPT ![e] = "rolledback"]
    /\ UNCHANGED <<row, log, publisherVars, faults, replays>>

-------------------------------------------------------------------------------
(* The publisher loop (publisher.go).                                      *)

Pending == {e \in Event : row[e].status = "pending"}

\* ORDER BY created_at LIMIT BatchSize; rows of one age come in any order.
OldestOf(S) ==
    {B \in SUBSET S :
        /\ Cardinality(B) = Min({BatchSize, Cardinality(S)})
        /\ \A b \in B, e \in S \ B : CreatedAt[b] <= CreatedAt[e]}

\* tick: the SELECT, and the scan of all its rows into memory.
Fetch(p) ==
    /\ pc[p] = "idle"
    /\ Pending # {}
    /\ \E B \in OldestOf(Pending) :
           batch' = [batch EXCEPT ![p] = {[id |-> e, retry |-> row[e].retry] : e \in B}]
    /\ pc' = [pc EXCEPT ![p] = "batch"]
    /\ UNCHANGED <<tx, row, log, current, faults, replays>>

\* The loop over the batch takes the rows in the order of the SELECT.
NextInBatch(p) ==
    {b \in batch[p] : \A c \in batch[p] : CreatedAt[b.id] <= CreatedAt[c.id]}

Take(p, b, at) ==
    /\ pc[p] = "batch"
    /\ b \in NextInBatch(p)
    /\ batch' = [batch EXCEPT ![p] = @ \ {b}]
    /\ current' = [current EXCEPT ![p] = b]
    /\ pc' = [pc EXCEPT ![p] = at]

\* publishOne, p.Publish returned nil.
PublishOk(p) ==
    \E b \in batch[p] :
        /\ b.id \notin Poison
        /\ Take(p, b, "sent")
        /\ log' = Append(log, b.id)
        /\ UNCHANGED <<tx, row, faults, replays>>

\* publishOne, p.Publish returned an error for an event it never accepts.
PublishRefused(p) ==
    \E b \in batch[p] :
        /\ b.id \in Poison
        /\ Take(p, b, "refused")
        /\ UNCHANGED <<tx, row, log, faults, replays>>

\* Mutant: the error of p.Publish is not looked at.
PublishErrIgnored(p) ==
    \E b \in batch[p] :
        /\ b.id \notin Poison
        /\ Take(p, b, "sent")
        /\ log' \in {log, Append(log, b.id)}
        /\ Fault
        /\ UNCHANGED <<tx, row, replays>>

\* publishOne, p.Publish returned an error (broker down, time-out): the broker
\* may have the message or not.
PublishErr(p) ==
    \E b \in batch[p] :
        /\ b.id \notin Poison
        /\ Take(p, b, "refused")
        /\ log' \in {log, Append(log, b.id)}
        /\ Fault
        /\ UNCHANGED <<tx, row, replays>>

\* UPDATE ... WHERE event_id = e changes nothing once the row was deleted.
UpdateRow(e, new) ==
    row' = IF row[e].status = "absent" THEN row ELSE [row EXCEPT ![e] = new]

\* The statement of publishOne is done: on to the next row, or out of tick.
Done(p) ==
    /\ pc' = [pc EXCEPT ![p] = IF batch[p] = {} THEN "idle" ELSE "batch"]
    /\ current' = [current EXCEPT ![p] = NoEntry]

\* UPDATE tx_outbox SET status='published'.
MarkPublished(p) ==
    /\ pc[p] = "sent"
    /\ LET e == current[p].id IN
           UpdateRow(e, [status |-> "published", retry |-> row[e].retry])
    /\ Done(p)
    /\ UNCHANGED <<tx, log, batch, faults, replays>>

\* e.RetryCount + 1, from the row as it was selected.
NewRetry(p) == IF current[p].retry < RetryCap THEN current[p].retry + 1 ELSE RetryCap

\* Mutant: gives up one attempt early.
MarkFailedEarly(p) ==
    /\ pc[p] = "refused"
    /\ LET e == current[p].id
           exhausted == FailedDLQ /\ NewRetry(p) + 1 >= MaxRetries
       IN UpdateRow(e, [status |-> IF exhausted THEN "failed" ELSE row[e].status,
                        retry  |-> NewRetry(p)])
    /\ Done(p)
    /\ UNCHANGED <<tx, log, batch, faults, replays>>

\* Mutant: only counts, never gives up.
MarkFailedNever(p) ==
    /\ pc[p] = "refused"
    /\ LET e == current[p].id
       IN UpdateRow(e, [status |-> row[e].status, retry |-> NewRetry(p)])
    /\ Done(p)
    /\ UNCHANGED <<tx, log, batch, faults, replays>>

\* UPDATE ... SET status='failed', retry_count=? or SET retry_count=?.
MarkFailed(p) ==
    /\ pc[p] = "refused"
    /\ LET e == current[p].id
           exhausted == FailedDLQ /\ NewRetry(p) >= MaxRetries
       IN UpdateRow(e, [status |-> IF exhausted THEN "failed" ELSE row[e].status,
                        retry  |-> NewRetry(p)])
    /\ Done(p)
    /\ UNCHANGED <<tx, log, batch, faults, replays>>

\* The UPDATE of publishOne failed; its error is dropped.
UpdateLost(p) ==
    /\ pc[p] \in {"sent", "refused"}
    /\ Fault
    /\ Done(p)
    /\ UNCHANGED <<tx, row, log, batch, replays>>

\* The publisher dies and is started again: its batch is gone.
Crash(p) ==
    /\ pc[p] # "idle"
    /\ Fault
    /\ pc' = [pc EXCEPT ![p] = "idle"]
    /\ batch' = [batch EXCEPT ![p] = {}]
    /\ current' = [current EXCEPT ![p] = NoEntry]
    /\ UNCHANGED <<tx, row, log, replays>>

-------------------------------------------------------------------------------
(* Operator functions (publisher.go).                                      *)

\* Mutant: without AND status='failed'.
ReplayAnyStatus(S) ==
    /\ replays < MaxReplays
    /\ replays' = replays + 1
    /\ row' = [e \in Event |->
                  IF e \in S /\ row[e].status # "absent"
                  THEN [status |-> "pending", retry |-> 0]
                  ELSE row[e]]
    /\ UNCHANGED <<tx, log, publisherVars, faults>>

\* UPDATE ... SET status='pending', retry_count=0
\* WHERE event_id IN (...) AND status='failed'.
ReplayFailedDLQ(S) ==
    /\ replays < MaxReplays
    /\ replays' = replays + 1
    /\ row' = [e \in Event |->
                  IF e \in S /\ row[e].status = "failed"
                  THEN [status |-> "pending", retry |-> 0]
                  ELSE row[e]]
    /\ UNCHANGED <<tx, log, publisherVars, faults>>

\* Mutant: without WHERE status='published'.
CleanupAnyStatus(S) ==
    /\ row' = [e \in Event |-> IF e \in S THEN Absent ELSE row[e]]
    /\ UNCHANGED <<tx, log, publisherVars, faults, replays>>

\* DELETE the rows published before some cutoff: any of the published rows.
CleanupPublished(S) ==
    /\ \A e \in S : row[e].status = "published"
    /\ row' = [e \in Event |-> IF e \in S THEN Absent ELSE row[e]]
    /\ UNCHANGED <<tx, log, publisherVars, faults, replays>>

-------------------------------------------------------------------------------
Business(e) == Begin(e) \/ AppendInTx(e) \/ AppendDB(e) \/ Commit(e) \/ Rollback(e)

\* What the loop does by itself, faults apart.
PublisherStep(p) ==
    Fetch(p) \/ PublishOk(p) \/ PublishRefused(p) \/ MarkPublished(p) \/ MarkFailed(p)

PublisherFault(p) == PublishErr(p) \/ UpdateLost(p) \/ Crash(p)

Admin == \E S \in SUBSET Event \ {{}} : ReplayFailedDLQ(S) \/ CleanupPublished(S)

Next ==
    \/ \E e \in Event : Business(e)
    \/ \E p \in Publisher : PublisherStep(p) \/ PublisherFault(p)
    \/ Admin

Spec == Init /\ [][Next]_outboxVars

\* The ticker fires again and again and Loop runs tick on each, so a publisher
\* that can take a step of its own eventually does.  Nothing makes a caller
\* commit, and faults are bounded by MaxFaults.
Fairness == \A p \in Publisher : WF_outboxVars(PublisherStep(p))

FairSpec == Spec /\ Fairness

-------------------------------------------------------------------------------
(* Properties.                                                             *)

TypeOK ==
    /\ tx \in [Event -> TxState]
    /\ row \in [Event -> Row]
    /\ log \in Seq(Event)
    /\ pc \in [Publisher -> {"idle", "batch", "sent", "refused"}]
    /\ batch \in [Publisher -> SUBSET Entry]
    /\ current \in [Publisher -> Entry \cup {NoEntry}]
    /\ faults \in 0 .. MaxFaults
    /\ replays \in 0 .. MaxReplays

\* doc.go, dual-write case 3: an event staged with Append reaches the broker
\* only if its business transaction committed.
NoPhantom == \A e \in Event \ LooseEvent : InLog(e) => tx[e] = "committed"

\* A row says 'published' only if the broker has the event, whatever copy of
\* the row the publisher that wrote it was working from.
PublishedReachedBroker == \A e \in Event : row[e].status = "published" => InLog(e)

\* doc.go, dual-write cases 1 and 2: a committed event the broker does not have
\* is still in the table, where a publisher or an operator finds it.
NothingLost ==
    \A e \in Event \ LooseEvent :
        tx[e] = "committed" /\ ~InLog(e) => row[e].status \in {"pending", "failed"}

\* A row is given up only after MaxRetries refusals, and never by a publisher
\* that was told not to give up.
FailedWasExhausted ==
    \A e \in Event :
        row[e].status = "failed" => FailedDLQ /\ row[e].retry >= MaxRetries

\* publisher.go header: replicas do not compete for a row.  Once a row is
\* 'published' nothing puts it in another state; it can only be deleted.
PublishedIsFinal ==
    [][\A e \in Event :
          row[e].status = "published" => row'[e].status \in {"published", "absent"}]_outboxVars

\* retry_count forgets a refusal only when an operator replays the event:
\* a stale copy never sets it back.
RetryNeverSetBack ==
    [][\A e \in Event :
          row'[e].retry < row[e].retry =>
              \/ row[e].status = "failed" /\ row'[e].status = "pending"
              \/ row'[e].status = "absent"]_outboxVars

\* An event the broker would take is settled, however often other events are
\* refused: those go to 'failed', or are too few to fill every batch.  It reaches
\* the broker, unless the broker was out of order MaxRetries times when its turn
\* came: publishOne counts a time-out as it counts a refusal, and gives it up.
HealthyEventsGetOut ==
    FailedDLQ \/ Cardinality(Poison) < BatchSize =>
        \A e \in Event \ (Poison \cup LooseEvent) :
            tx[e] = "committed" ~>
                \/ InLog(e)
                \/ row[e].status = "failed" /\ faults >= MaxRetries

===============================================================================
