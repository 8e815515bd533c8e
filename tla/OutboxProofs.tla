----------------------------- MODULE OutboxProofs -----------------------------
(***************************************************************************)
(* Theorems about Outbox, for any number of events and publishers, any     *)
(* batch size and any number of faults.  The first part holds for every    *)
(* number of publishers, the second for a publisher that is alone.         *)
(***************************************************************************)
EXTENDS Outbox, TLAPS

\* A row of a transactional event exists only once its transaction committed.
StagedByCommit ==
    \A e \in Event :
        row[e].status # "absent" =>
            IF e \in LooseEvent THEN tx[e] \notin {"idle", "open"} ELSE tx[e] = "committed"

\* The same of the copies a publisher keeps, though their rows may be gone.
Seen(e) == e \in LooseEvent \/ tx[e] = "committed"

BatchSeen == \A p \in Publisher : \A b \in batch[p] : Seen(b.id)

CurrentSeen ==
    \A p \in Publisher :
        pc[p] \in {"sent", "refused"} => current[p] \in Entry /\ Seen(current[p].id)

\* Between p.Publish and its UPDATE the broker has the event already.
SentReachedBroker == \A p \in Publisher : pc[p] = "sent" => InLog(current[p].id)

\* A row that is gone was published.
GoneReachedBroker ==
    \A e \in Event \ LooseEvent :
        tx[e] = "committed" /\ row[e].status = "absent" => InLog(e)

IInv ==
    /\ TypeOK
    /\ StagedByCommit
    /\ BatchSeen
    /\ CurrentSeen
    /\ NoPhantom
    /\ SentReachedBroker
    /\ PublishedReachedBroker
    /\ GoneReachedBroker

LEMMA InitIInv == Init => IInv
<1> SUFFICES ASSUME Init PROVE IInv
    OBVIOUS
<1>1. TypeOK
    BY OutboxAssumption DEF Init, TypeOK, TxState, Row, RowStatus, Absent, Entry, NoEntry
<1>2. log = <<>> /\ \A e \in Event : ~InLog(e)
    BY DEF Init, InLog
<1>3. StagedByCommit /\ GoneReachedBroker /\ PublishedReachedBroker /\ NoPhantom
    BY <1>2 DEF Init, StagedByCommit, GoneReachedBroker, PublishedReachedBroker,
                NoPhantom, Absent
<1>4. BatchSeen /\ CurrentSeen /\ SentReachedBroker
    BY DEF Init, BatchSeen, CurrentSeen, SentReachedBroker
<1> QED
    BY <1>1, <1>3, <1>4 DEF IInv

\* The budget of faults is never exceeded.
LEMMA FaultCounted ==
    ASSUME TypeOK, Fault
    PROVE  faults' \in 0 .. MaxFaults
    BY OutboxAssumption DEF TypeOK, Fault

\* Appending to the log adds one event to it.
LEMMA AppendInLog ==
    ASSUME log \in Seq(Event), NEW f \in Event, log' = Append(log, f)
    PROVE  /\ log' \in Seq(Event)
           /\ \A e \in Event : InLog(e)' <=> InLog(e) \/ e = f
<1>1. /\ DOMAIN log' = DOMAIN log \cup {Len(log) + 1}
      /\ \A i \in DOMAIN log : log'[i] = log[i]
      /\ log'[Len(log) + 1] = f
    OBVIOUS
<1> QED
    BY <1>1 DEF InLog

-------------------------------------------------------------------------------
(* The business transactions.                                              *)

LEMMA BusinessIInv ==
    ASSUME IInv, NEW e \in Event, Business(e)
    PROVE  IInv'
<1> USE DEF IInv
<1>1. /\ UNCHANGED <<log, pc, batch, current, faults, replays>>
      /\ \A f \in Event : f # e => tx'[f] = tx[f] /\ row'[f] = row[f]
    BY DEF Business, Begin, AppendInTx, AppendDB, Commit, Rollback, publisherVars, TypeOK
<1>2. \A f \in Event : InLog(f)' = InLog(f)
    BY <1>1 DEF InLog
<1>3. tx[e] # "committed" /\ (tx'[e] = "committed" => Commit(e))
    BY DEF Business, Begin, AppendInTx, AppendDB, Commit, Rollback, TypeOK
<1>4. /\ tx' \in [Event -> TxState]
      /\ row' \in [Event -> Row]
      /\ row'[e].status \in {row[e].status, "pending"}
      /\ row'[e].status # row[e].status =>
            IF e \in LooseEvent THEN tx'[e] = "appended" ELSE tx'[e] = "committed"
      /\ Commit(e) /\ e \notin LooseEvent => row'[e].status = "pending"
      /\ tx[e] \notin {"idle", "open"} => tx'[e] \notin {"idle", "open"}
  <2>1. CASE UNCHANGED row /\ ~(Commit(e) /\ e \notin LooseEvent)
      BY <2>1 DEF Business, Begin, AppendInTx, AppendDB, Commit, Rollback, TypeOK, TxState
  <2>2. CASE AppendDB(e)
      BY <2>2, OutboxAssumption DEF AppendDB, Commit, TypeOK, TxState, Row, RowStatus
  <2>3. CASE Commit(e)
      BY <2>3, OutboxAssumption DEF Commit, TypeOK, TxState, Row, RowStatus
  <2> QED
      BY <2>1, <2>2, <2>3 DEF Business, Begin, AppendInTx, Rollback
<1>5. TypeOK'
    BY <1>1, <1>4 DEF TypeOK
<1>6. StagedByCommit'
    BY <1>1, <1>3, <1>4 DEF StagedByCommit
<1>7. \A f \in Event : Seen(f) => Seen(f)'
    BY <1>1, <1>3 DEF Seen
<1>8. BatchSeen' /\ CurrentSeen' /\ SentReachedBroker'
    BY <1>1, <1>2, <1>7 DEF BatchSeen, CurrentSeen, SentReachedBroker, TypeOK, Entry
<1>9. NoPhantom' /\ PublishedReachedBroker'
    BY <1>1, <1>2, <1>3, <1>4 DEF NoPhantom, PublishedReachedBroker
<1>10. GoneReachedBroker'
    BY <1>1, <1>2, <1>3, <1>4 DEF GoneReachedBroker
<1> QED
    BY <1>5, <1>6, <1>8, <1>9, <1>10

-------------------------------------------------------------------------------
(* The publishers.                                                         *)

\* The SELECT copies rows that exist.
LEMMA FetchIInv ==
    ASSUME IInv, NEW p \in Publisher, Fetch(p)
    PROVE  IInv'
<1> USE DEF IInv
<1>1. PICK B \in OldestOf(Pending) :
          batch' = [batch EXCEPT ![p] = {[id |-> e, retry |-> row[e].retry] : e \in B}]
    BY DEF Fetch
<1>2. B \subseteq Event /\ \A e \in B : Seen(e)
    BY DEF OldestOf, Pending, StagedByCommit, Seen
<1>3. /\ UNCHANGED <<tx, row, log, current, faults, replays>>
      /\ pc[p] = "idle"
      /\ pc' = [pc EXCEPT ![p] = "batch"]
    BY DEF Fetch
<1>4. \A b \in batch'[p] : b \in Entry /\ Seen(b.id)
    BY <1>1, <1>2 DEF TypeOK, Entry, Row
<1>5. TypeOK'
    BY <1>1, <1>3, <1>4 DEF TypeOK
<1>6. BatchSeen'
    BY <1>1, <1>3, <1>4 DEF BatchSeen, Seen, TypeOK
<1>7. CurrentSeen' /\ SentReachedBroker'
    BY <1>3 DEF CurrentSeen, SentReachedBroker, Seen, InLog, TypeOK
<1>8. StagedByCommit' /\ NoPhantom' /\ PublishedReachedBroker' /\ GoneReachedBroker'
    BY <1>3 DEF StagedByCommit, NoPhantom, PublishedReachedBroker, GoneReachedBroker, InLog
<1> QED
    BY <1>5, <1>6, <1>7, <1>8

\* p.Publish: the log stays, or gets the event that was taken from the batch;
\* the error-free return says that it got it.
LEMMA PublishIInv ==
    ASSUME IInv, NEW p \in Publisher,
           PublishOk(p) \/ PublishRefused(p) \/ PublishErr(p)
    PROVE  IInv'
<1> USE DEF IInv
<1>1. PICK b \in batch[p] :
          /\ \/ Take(p, b, "sent") /\ log' = Append(log, b.id)
             \/ Take(p, b, "refused") /\ log' \in {log, Append(log, b.id)}
          /\ UNCHANGED <<tx, row, replays>>
    BY DEF PublishOk, PublishRefused, PublishErr
<1>2. b \in Entry /\ b.id \in Event /\ Seen(b.id)
    BY DEF TypeOK, BatchSeen, Entry
<1>3. /\ batch' = [batch EXCEPT ![p] = @ \ {b}]
      /\ current' = [current EXCEPT ![p] = b]
      /\ pc' \in {[pc EXCEPT ![p] = "sent"], [pc EXCEPT ![p] = "refused"]}
    BY <1>1 DEF Take
<1>4. faults' \in 0 .. MaxFaults
    BY FaultCounted DEF PublishOk, PublishRefused, PublishErr, TypeOK
<1>5. /\ log' \in Seq(Event)
      /\ \A e \in Event : InLog(e) => InLog(e)'
      /\ \A e \in Event : InLog(e)' => InLog(e) \/ e = b.id
      /\ pc'[p] = "sent" => InLog(b.id)'
  <2>1. CASE log' = log
      BY <1>1, <1>2, <2>1, AppendInLog DEF InLog, TypeOK, Take
  <2>2. CASE log' = Append(log, b.id)
      BY <1>2, <2>2, AppendInLog DEF TypeOK
  <2> QED
      BY <1>1, <2>1, <2>2
<1>6. TypeOK'
  <2>1. batch' \in [Publisher -> SUBSET Entry]
      BY <1>3 DEF TypeOK
  <2>2. current' \in [Publisher -> Entry \cup {NoEntry}]
      BY <1>2, <1>3 DEF TypeOK
  <2>3. pc' \in [Publisher -> {"idle", "batch", "sent", "refused"}]
      BY <1>3 DEF TypeOK
  <2> QED
      BY <1>1, <1>4, <1>5, <2>1, <2>2, <2>3 DEF TypeOK
<1>7. BatchSeen'
    BY <1>1, <1>3 DEF BatchSeen, Seen, TypeOK
<1>8. CurrentSeen'
    BY <1>1, <1>2, <1>3 DEF CurrentSeen, Seen, TypeOK
<1>9. SentReachedBroker'
  <2> SUFFICES ASSUME NEW q \in Publisher, pc'[q] = "sent"
               PROVE  InLog(current[q].id)'
      BY DEF SentReachedBroker
  <2>1. CASE q = p
      BY <1>3, <1>5, <2>1 DEF TypeOK
  <2>2. CASE q # p
    <3>1. pc[q] = "sent" /\ current'[q] = current[q]
        BY <1>3, <2>2 DEF TypeOK
    <3>2. current[q].id \in Event /\ InLog(current[q].id)
        BY <3>1 DEF CurrentSeen, SentReachedBroker, Entry
    <3> QED
        BY <1>5, <3>1, <3>2
  <2> QED
      BY <2>1, <2>2
<1>10. NoPhantom'
    BY <1>1, <1>2, <1>5 DEF NoPhantom, Seen
<1>11. StagedByCommit' /\ PublishedReachedBroker' /\ GoneReachedBroker'
    BY <1>1, <1>5 DEF StagedByCommit, PublishedReachedBroker, GoneReachedBroker
<1> QED
    BY <1>6, <1>7, <1>8, <1>9, <1>10, <1>11

\* The UPDATE after p.Publish changes the status of a row that exists, to
\* 'published' only when the broker has the event.
LEMMA MarkIInv ==
    ASSUME IInv, NEW p \in Publisher,
           MarkPublished(p) \/ MarkFailed(p) \/ UpdateLost(p)
    PROVE  IInv'
<1> USE DEF IInv
<1> DEFINE e == current[p].id
<1>1. /\ pc[p] \in {"sent", "refused"}
      /\ pc' \in {[pc EXCEPT ![p] = "idle"], [pc EXCEPT ![p] = "batch"]}
      /\ current' = [current EXCEPT ![p] = NoEntry]
      /\ UNCHANGED <<tx, log, batch, replays>>
    BY DEF MarkPublished, MarkFailed, UpdateLost, Done
<1>2. current[p] \in Entry /\ e \in Event
    BY <1>1 DEF CurrentSeen, Entry
<1>3. faults' \in 0 .. MaxFaults
    BY FaultCounted DEF MarkPublished, MarkFailed, UpdateLost, TypeOK
<1>4. /\ row' \in [Event -> Row]
      /\ \A f \in Event : row'[f].status = "absent" <=> row[f].status = "absent"
      /\ \A f \in Event :
             row'[f].status = "published" => row[f].status = "published" \/ InLog(f)
  <2>1. CASE row' = row
      BY <2>1 DEF TypeOK
  <2>2. CASE MarkPublished(p) /\ row' # row
    <3>1. row' = [row EXCEPT ![e] = [status |-> "published", retry |-> row[e].retry]]
        BY <2>2 DEF MarkPublished, UpdateRow
    <3>2. row[e].status # "absent" /\ InLog(e)
        BY <2>2 DEF MarkPublished, UpdateRow, SentReachedBroker
    <3> QED
        BY <1>2, <3>1, <3>2 DEF TypeOK, Row, RowStatus
  <2>3. CASE MarkFailed(p) /\ row' # row
    <3>1. row[e].status # "absent"
        BY <2>3 DEF MarkFailed, UpdateRow
    <3>2. PICK s \in {"failed", row[e].status} :
              row' = [row EXCEPT ![e] = [status |-> s, retry |-> NewRetry(p)]]
        BY <2>3, <3>1 DEF MarkFailed, UpdateRow
    <3>3. NewRetry(p) \in 0 .. RetryCap
        BY <1>2, OutboxAssumption DEF NewRetry, Entry
    <3> QED
        BY <1>2, <3>1, <3>2, <3>3 DEF TypeOK, Row, RowStatus
  <2> QED
      BY <2>1, <2>2, <2>3 DEF UpdateLost
<1>5. TypeOK'
    BY <1>1, <1>3, <1>4 DEF TypeOK
<1>6. \A f \in Event : InLog(f)' = InLog(f) /\ Seen(f)' = Seen(f)
    BY <1>1 DEF InLog, Seen
<1>7. \A q \in Publisher :
          pc'[q] \in {"sent", "refused"} => pc'[q] = pc[q] /\ current'[q] = current[q]
    BY <1>1 DEF TypeOK
<1>8. BatchSeen'
    BY <1>1, <1>6 DEF BatchSeen, TypeOK, Entry
<1>9. CurrentSeen' /\ SentReachedBroker'
    BY <1>6, <1>7 DEF CurrentSeen, SentReachedBroker, Entry
<1>10. StagedByCommit' /\ GoneReachedBroker' /\ NoPhantom'
    BY <1>1, <1>4, <1>6 DEF StagedByCommit, GoneReachedBroker, NoPhantom
<1>11. PublishedReachedBroker'
    BY <1>4, <1>6 DEF PublishedReachedBroker
<1> QED
    BY <1>5, <1>8, <1>9, <1>10, <1>11

\* A crash forgets copies, which promises nothing.
LEMMA CrashIInv ==
    ASSUME IInv, NEW p \in Publisher, Crash(p)
    PROVE  IInv'
<1> USE DEF IInv
<1>1. /\ pc' = [pc EXCEPT ![p] = "idle"]
      /\ batch' = [batch EXCEPT ![p] = {}]
      /\ current' = [current EXCEPT ![p] = NoEntry]
      /\ UNCHANGED <<tx, row, log, replays>>
    BY DEF Crash
<1>2. TypeOK'
    BY <1>1, FaultCounted DEF Crash, TypeOK
<1>3. \A q \in Publisher : pc'[q] # "idle" => q # p
    BY <1>1 DEF TypeOK
<1>4. BatchSeen' /\ CurrentSeen' /\ SentReachedBroker'
    BY <1>1, <1>3 DEF BatchSeen, CurrentSeen, SentReachedBroker, Seen, InLog, TypeOK
<1>5. StagedByCommit' /\ NoPhantom' /\ PublishedReachedBroker' /\ GoneReachedBroker'
    BY <1>1 DEF StagedByCommit, NoPhantom, PublishedReachedBroker, GoneReachedBroker, InLog
<1> QED
    BY <1>2, <1>4, <1>5

-------------------------------------------------------------------------------
(* The operator.                                                           *)

\* A replay moves rows from 'failed' to 'pending', a cleanup deletes rows the
\* broker has.
LEMMA AdminIInv ==
    ASSUME IInv, NEW S \in SUBSET Event, ReplayFailedDLQ(S) \/ CleanupPublished(S)
    PROVE  IInv'
<1> USE DEF IInv
<1>1. UNCHANGED <<tx, log, pc, batch, current, faults>> /\ replays' \in 0 .. MaxReplays
    BY OutboxAssumption DEF ReplayFailedDLQ, CleanupPublished, publisherVars, TypeOK
<1>2. \A e \in Event :
          \/ row'[e] = row[e]
          \/ row'[e].status = "pending" /\ row[e].status = "failed"
          \/ row'[e].status = "absent" /\ row[e].status = "published"
    BY DEF ReplayFailedDLQ, CleanupPublished, Absent
<1>3. row' \in [Event -> Row]
    BY OutboxAssumption DEF ReplayFailedDLQ, CleanupPublished, Absent, TypeOK, Row, RowStatus
<1>4. TypeOK'
    BY <1>1, <1>3 DEF TypeOK
<1>5. \A e \in Event : InLog(e)' = InLog(e) /\ Seen(e)' = Seen(e)
    BY <1>1 DEF InLog, Seen
<1>6. BatchSeen' /\ CurrentSeen' /\ SentReachedBroker'
    BY <1>1, <1>5 DEF BatchSeen, CurrentSeen, SentReachedBroker, TypeOK, Entry
<1>7. StagedByCommit' /\ NoPhantom'
    BY <1>1, <1>2, <1>5 DEF StagedByCommit, NoPhantom
<1>8. PublishedReachedBroker' /\ GoneReachedBroker'
    BY <1>1, <1>2, <1>5 DEF PublishedReachedBroker, GoneReachedBroker
<1> QED
    BY <1>4, <1>6, <1>7, <1>8

-------------------------------------------------------------------------------
LEMMA NextIInv == IInv /\ [Next]_outboxVars => IInv'
<1> SUFFICES ASSUME IInv, [Next]_outboxVars PROVE IInv'
    OBVIOUS
<1>1. ASSUME NEW e \in Event, Business(e) PROVE IInv'
    BY <1>1, BusinessIInv
<1>2. ASSUME NEW p \in Publisher, PublisherStep(p) \/ PublisherFault(p) PROVE IInv'
    BY <1>2, FetchIInv, PublishIInv, MarkIInv, CrashIInv DEF PublisherStep, PublisherFault
<1>3. ASSUME Admin PROVE IInv'
    BY <1>3, AdminIInv DEF Admin
<1>4. CASE UNCHANGED outboxVars
    BY <1>4 DEF outboxVars, IInv, TypeOK, StagedByCommit, BatchSeen, CurrentSeen, Seen,
        NoPhantom, SentReachedBroker, PublishedReachedBroker, GoneReachedBroker, InLog
<1> QED
    BY <1>1, <1>2, <1>3, <1>4 DEF Next

LEMMA SpecIInv == Spec => []IInv
    BY InitIInv, NextIInv, PTL DEF Spec

\* The table, the log and the publishers keep their types.
THEOREM OutboxTypes == Spec => []TypeOK
<1>1. IInv => TypeOK
    BY DEF IInv
<1> QED
    BY SpecIInv, <1>1, PTL

\* doc.go case 3: with any number of publishers, crashes and lost statements,
\* only committed events reach the broker.
THEOREM OutboxNoPhantom == Spec => []NoPhantom
<1>1. IInv => NoPhantom
    BY DEF IInv
<1> QED
    BY SpecIInv, <1>1, PTL

\* publishOne: 'published' is written after the broker took the event.
THEOREM OutboxPublishedReachedBroker == Spec => []PublishedReachedBroker
<1>1. IInv => PublishedReachedBroker
    BY DEF IInv
<1> QED
    BY SpecIInv, <1>1, PTL

\* doc.go cases 1 and 2: an event that is committed and not at the broker is
\* still in tx_outbox, waiting or given up, whatever crashed.
THEOREM OutboxNothingLost == Spec => []NothingLost
<1>1. IInv => NothingLost
    BY DEF IInv, TypeOK, Row, RowStatus, GoneReachedBroker, PublishedReachedBroker,
           NothingLost
<1> QED
    BY SpecIInv, <1>1, PTL

-------------------------------------------------------------------------------
(* A publisher that is alone.                                              *)

\* A copy tells the truth: its row is pending with the copy's retry_count.
Fresh(b) == row[b.id].status = "pending" /\ row[b.id].retry = b.retry

AtWork(p) == pc[p] \in {"sent", "refused"}

\* What the only publisher holds is fresh, and it holds each row once.
SoleInv ==
    /\ FailedWasExhausted
    /\ \A e \in Event : row[e].status = "absent" => row[e].retry = 0
    /\ \A p \in Publisher :
           /\ \A b \in batch[p] : Fresh(b)
           /\ AtWork(p) =>
                  /\ Fresh(current[p])
                  /\ \A b \in batch[p] : b.id # current[p].id

\* A step that leaves the pending rows alone leaves the copies fresh.
LEMMA PendingKept ==
    ASSUME IInv, SoleInv, UNCHANGED publisherVars,
           \A e \in Event : row[e].status = "pending" => row'[e] = row[e],
           \A e \in Event :
               row'[e].status = "failed" => row[e].status = "failed" /\ row'[e] = row[e],
           \A e \in Event :
               row'[e].status = "absent" => row'[e].retry = 0
    PROVE  SoleInv'
<1> USE DEF IInv
<1>1. UNCHANGED <<pc, batch, current>>
    BY DEF publisherVars
<1>2. \A p \in Publisher : \A b \in batch[p] : b.id \in Event
    BY DEF TypeOK, Entry
<1>3. \A p \in Publisher : AtWork(p) => current[p].id \in Event
    BY DEF AtWork, CurrentSeen, Entry
<1>4. FailedWasExhausted'
    BY DEF FailedWasExhausted, SoleInv
<1> QED
    BY <1>1, <1>2, <1>3, <1>4 DEF SoleInv, Fresh, AtWork

\* Rows appear where there was none.
LEMMA BusinessRow ==
    ASSUME IInv, NEW e \in Event, Business(e)
    PROVE  \A f \in Event :
               \/ row'[f] = row[f]
               \/ row[f].status = "absent" /\ row'[f] = [status |-> "pending", retry |-> 0]
<1>1. CASE AppendDB(e)
    BY <1>1 DEF AppendDB, IInv, TypeOK, StagedByCommit
<1>2. CASE Commit(e)
    BY <1>2 DEF Commit, IInv, TypeOK, StagedByCommit
<1> QED
    BY <1>1, <1>2 DEF Business, Begin, AppendInTx, Rollback

\* What a step of the only publisher does to a row: nothing, or the UPDATE of
\* the row it was at, which was pending with the retry_count it knew.
LEMMA SoleRow ==
    ASSUME IInv, SoleInv, NEW p \in Publisher, PublisherStep(p) \/ PublisherFault(p)
    PROVE  \A e \in Event :
               \/ row'[e] = row[e]
               \/ /\ AtWork(p)
                  /\ e = current[p].id
                  /\ row[e].status = "pending"
                  /\ row'[e].status \in {"pending", "published", "failed"}
                  /\ row'[e].retry >= row[e].retry
                  /\ row'[e].status = "failed" => FailedDLQ /\ row'[e].retry >= MaxRetries
<1> USE DEF IInv
<1>1. CASE MarkPublished(p)
  <2>1. AtWork(p) /\ current[p] \in Entry /\ Fresh(current[p])
      BY <1>1 DEF MarkPublished, AtWork, CurrentSeen, SoleInv
  <2>2. row' = [row EXCEPT ![current[p].id] =
                   [status |-> "published", retry |-> row[current[p].id].retry]]
      BY <1>1, <2>1 DEF MarkPublished, UpdateRow, Fresh
  <2>3. current[p].id \in Event /\ row[current[p].id].retry \in Nat
      BY <2>1 DEF Entry, TypeOK, Row
  <2> QED
      BY <2>1, <2>2, <2>3 DEF Fresh, TypeOK
<1>2. CASE MarkFailed(p)
  <2>1. AtWork(p) /\ current[p] \in Entry /\ Fresh(current[p])
      BY <1>2 DEF MarkFailed, AtWork, CurrentSeen, SoleInv
  <2> DEFINE s == IF FailedDLQ /\ NewRetry(p) >= MaxRetries THEN "failed" ELSE "pending"
  <2>2. row' = [row EXCEPT ![current[p].id] = [status |-> s, retry |-> NewRetry(p)]]
      BY <1>2, <2>1 DEF MarkFailed, UpdateRow, Fresh
  <2>3. NewRetry(p) >= row[current[p].id].retry
      BY <2>1, OutboxAssumption DEF NewRetry, Fresh, Entry
  <2> QED
      BY <2>1, <2>2, <2>3 DEF Fresh, TypeOK
<1> QED
    BY <1>1, <1>2 DEF PublisherStep, PublisherFault, Fetch, PublishOk, PublishRefused,
                      PublishErr, UpdateLost, Crash

LEMMA SoleStep ==
    ASSUME NEW p, Publisher = {p}, IInv, SoleInv, PublisherStep(p) \/ PublisherFault(p)
    PROVE  SoleInv'
<1> USE DEF IInv
<1>0. p \in Publisher
    OBVIOUS
<1>1. /\ FailedWasExhausted'
      /\ \A e \in Event : row'[e].status = "absent" => row'[e].retry = 0
    BY <1>0, SoleRow DEF SoleInv, FailedWasExhausted, TypeOK, Entry
<1>2. CASE Fetch(p)
  <2>1. PICK B \in OldestOf(Pending) :
            batch'[p] = {[id |-> e, retry |-> row[e].retry] : e \in B}
      BY <1>0, <1>2 DEF Fetch, TypeOK
  <2>2. B \subseteq Pending /\ row' = row /\ pc'[p] = "batch"
      BY <1>0, <1>2 DEF Fetch, OldestOf, TypeOK
  <2>3. (\A b \in batch[p] : Fresh(b))'
      BY <2>1, <2>2 DEF Fresh, Pending
  <2> QED
      BY <1>1, <2>2, <2>3 DEF SoleInv, AtWork
<1>3. CASE PublishOk(p) \/ PublishRefused(p) \/ PublishErr(p)
  <2>1. PICK b \in batch[p] : /\ batch'[p] = batch[p] \ {b}
                              /\ current'[p] = b
                              /\ row' = row
      BY <1>0, <1>3 DEF PublishOk, PublishRefused, PublishErr, Take, TypeOK
  <2>2. (\A c \in batch[p] : Fresh(c))' /\ Fresh(current[p])'
      BY <1>0, <2>1 DEF SoleInv, Fresh
  <2>3. \A c \in batch'[p] : c.id # b.id
    <3> SUFFICES ASSUME NEW c \in batch[p], c # b, c.id = b.id PROVE FALSE
        BY <2>1
    <3>1. c.retry = b.retry
        BY <1>0 DEF SoleInv, Fresh
    <3>2. b \in Entry /\ c \in Entry
        BY <1>0 DEF TypeOK
    <3> QED
        BY <3>1, <3>2 DEF Entry
  <2> QED
      BY <1>1, <2>1, <2>2, <2>3 DEF SoleInv
<1>4. CASE MarkPublished(p) \/ MarkFailed(p) \/ UpdateLost(p)
  <2>1. batch' = batch /\ pc'[p] \in {"idle", "batch"} /\ AtWork(p)
      BY <1>0, <1>4 DEF MarkPublished, MarkFailed, UpdateLost, Done, TypeOK, AtWork
  <2>2. \A b \in batch[p] : b.id \in Event /\ b.id # current[p].id /\ Fresh(b)
      BY <1>0, <2>1 DEF SoleInv, TypeOK, Entry
  <2>3. \A e \in Event : e # current[p].id => row'[e] = row[e]
      BY <1>0, SoleRow DEF TypeOK
  <2>4. (\A b \in batch[p] : Fresh(b))'
      BY <2>1, <2>2, <2>3 DEF Fresh
  <2> QED
      BY <1>1, <2>1, <2>4 DEF SoleInv, AtWork
<1>5. CASE Crash(p)
    BY <1>0, <1>1, <1>5 DEF Crash, SoleInv, AtWork, TypeOK
<1> QED
    BY <1>2, <1>3, <1>4, <1>5 DEF PublisherStep, PublisherFault

LEMMA SoleNext ==
    ASSUME NEW p, Publisher = {p}, IInv, SoleInv, [Next]_outboxVars
    PROVE  SoleInv'
<1>1. ASSUME NEW e \in Event, Business(e) PROVE SoleInv'
  <2>1. UNCHANGED publisherVars
      BY <1>1 DEF Business, Begin, AppendInTx, AppendDB, Commit, Rollback, publisherVars
  <2>2. \A f \in Event : \/ row'[f] = row[f]
                         \/ row[f].status = "absent" /\ row'[f].status = "pending"
      BY <1>1, BusinessRow
  <2>3. \A f \in Event : row'[f].status = "absent" => row'[f].retry = 0
      BY <2>2 DEF SoleInv
  <2> QED
      BY <2>1, <2>2, <2>3, PendingKept
<1>2. ASSUME Admin PROVE SoleInv'
    BY <1>2, PendingKept DEF Admin, ReplayFailedDLQ, CleanupPublished, Absent, SoleInv
<1>3. CASE UNCHANGED outboxVars
    BY <1>3, PendingKept DEF outboxVars, publisherVars, SoleInv
<1> QED
    BY <1>1, <1>2, <1>3, SoleStep DEF Next

LEMMA SoleSpec ==
    ASSUME NEW CONSTANT p, Publisher = {p}
    PROVE  Spec => []SoleInv
<1>1. Init => SoleInv
    BY DEF Init, SoleInv, FailedWasExhausted, Absent, AtWork
<1>2. IInv /\ SoleInv /\ [Next]_outboxVars => SoleInv'
    BY SoleNext
<1> QED
    BY <1>1, <1>2, SpecIInv, PTL DEF Spec

\* publishOne: a publisher that is alone gives an event up only when FailedDLQ
\* says so and retry_count has reached MaxRetries.
THEOREM SoleFailedWasExhausted ==
    ASSUME NEW CONSTANT p, Publisher = {p}
    PROVE  Spec => []FailedWasExhausted
<1>1. SoleInv => FailedWasExhausted
    BY DEF SoleInv
<1> QED
    BY <1>1, SoleSpec, PTL

\* publishOne: while one publisher runs, its blind UPDATE never takes a row out
\* of 'published', whatever crashes and whatever an operator does.
THEOREM SolePublishedIsFinal ==
    ASSUME NEW CONSTANT p, Publisher = {p}
    PROVE  Spec => PublishedIsFinal
<1> DEFINE Final ==
        \A e \in Event :
            row[e].status = "published" => row'[e].status \in {"published", "absent"}
<1>1. ASSUME IInv, SoleInv, [Next]_outboxVars PROVE Final
  <2>1. ASSUME NEW e \in Event, Business(e) PROVE Final
      BY <1>1, <2>1, BusinessRow
  <2>2. ASSUME PublisherStep(p) \/ PublisherFault(p) PROVE Final
      BY <1>1, <2>2, SoleRow DEF IInv, TypeOK
  <2>3. ASSUME Admin PROVE Final
      BY <2>3 DEF Admin, ReplayFailedDLQ, CleanupPublished, Absent
  <2>4. CASE UNCHANGED outboxVars
      BY <2>4 DEF outboxVars
  <2> QED
      BY <1>1, <2>1, <2>2, <2>3, <2>4 DEF Next
<1> QED
    BY <1>1, SpecIInv, SoleSpec, PTL DEF Spec, PublishedIsFinal

\* publishOne: while one publisher runs, the retry_count it writes from its copy
\* never loses a refusal that was counted.
THEOREM SoleRetryNeverSetBack ==
    ASSUME NEW CONSTANT p, Publisher = {p}
    PROVE  Spec => RetryNeverSetBack
<1> DEFINE Kept ==
        \A e \in Event :
            row'[e].retry < row[e].retry =>
                \/ row[e].status = "failed" /\ row'[e].status = "pending"
                \/ row'[e].status = "absent"
<1>1. ASSUME IInv, SoleInv, [Next]_outboxVars PROVE Kept
  <2>0. \A e \in Event : row[e].retry \in Nat /\ (row[e].status = "absent" => row[e].retry = 0)
      BY <1>1 DEF IInv, SoleInv, TypeOK, Row
  <2>1. ASSUME NEW e \in Event, Business(e) PROVE Kept
      BY <1>1, <2>0, <2>1, BusinessRow
  <2>2. ASSUME PublisherStep(p) \/ PublisherFault(p) PROVE Kept
    <3>1. \A e \in Event : row'[e].retry \in Nat
        BY <1>1, NextIInv DEF IInv, TypeOK, Row
    <3>2. \A e \in Event : row'[e] = row[e] \/ row'[e].retry >= row[e].retry
        BY <1>1, <2>2, SoleRow
    <3> QED
        BY <2>0, <3>1, <3>2
  <2>3. ASSUME Admin PROVE Kept
      BY <2>0, <2>3 DEF Admin, ReplayFailedDLQ, CleanupPublished, Absent
  <2>4. CASE UNCHANGED outboxVars
      BY <2>0, <2>4 DEF outboxVars
  <2> QED
      BY <1>1, <2>1, <2>2, <2>3, <2>4 DEF Next
<1> QED
    BY <1>1, SpecIInv, SoleSpec, PTL DEF Spec, RetryNeverSetBack

===============================================================================
