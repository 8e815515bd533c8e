------------------------------- MODULE Replay -------------------------------
(* The traffic replayer (replay/replayer.go): Submit offers Multiplier       *)
(* copies of an event to a bounded channel and gives up at the first that    *)
(* does not fit; workers call the target and count what became of each copy. *)
EXTENDS Naturals, FiniteSets

CONSTANTS ReplayWorker, Submitter,
          Multiplier, JobsCap,
          MaxSubmits        \* bound: events submitted
ASSUME ReplayAssumption == Multiplier \in Nat \ {0} /\ JobsCap \in Nat /\ MaxSubmits \in Nat

VARIABLES todo,       \* copies a Submit has still to offer, 0 when it is over
          jobs,       \* copies in the channel
          busy,       \* workers inside invokeOne
          submitted, okCalls, failedCalls, skippedEvents,   \* the metrics
          queuedCopies, cutShort,     \* history: copies queued, Submits cut short
          jobsClosed, rpPanicked
rpVars == <<todo, jobs, busy, submitted, okCalls, failedCalls, skippedEvents,
            queuedCopies, cutShort, jobsClosed, rpPanicked>>

RpInit ==
    /\ todo = [s \in Submitter |-> 0] /\ jobs = 0 /\ busy = {}
    /\ submitted = 0 /\ okCalls = 0 /\ failedCalls = 0 /\ skippedEvents = 0
    /\ queuedCopies = 0 /\ cutShort = 0 /\ jobsClosed = FALSE /\ rpPanicked = FALSE
-----------------------------------------------------------------------------
Submit(s) ==
    /\ todo[s] = 0 /\ submitted < MaxSubmits /\ submitted' = submitted + 1
    /\ todo' = [todo EXCEPT ![s] = Multiplier]
    /\ UNCHANGED <<jobs, busy, okCalls, failedCalls, skippedEvents, queuedCopies, cutShort,
                   jobsClosed, rpPanicked>>
\* One round of Submit's loop.
Offer(s) ==
    /\ todo[s] > 0
    /\ CASE jobsClosed ->
              rpPanicked' = TRUE /\ UNCHANGED <<todo, jobs, queuedCopies, skippedEvents, cutShort>>
         [] ~jobsClosed /\ jobs < JobsCap ->
              /\ todo' = [todo EXCEPT ![s] = @ - 1]
              /\ jobs' = jobs + 1 /\ queuedCopies' = queuedCopies + 1
              /\ UNCHANGED <<skippedEvents, cutShort, rpPanicked>>
         [] OTHER ->
              /\ todo' = [todo EXCEPT ![s] = 0]
              /\ skippedEvents' = skippedEvents + 1 /\ cutShort' = cutShort + 1
              /\ UNCHANGED <<jobs, queuedCopies, rpPanicked>>
    /\ UNCHANGED <<busy, submitted, okCalls, failedCalls, jobsClosed>>
TakeJob(w) ==
    /\ w \notin busy /\ jobs > 0 /\ jobs' = jobs - 1 /\ busy' = busy \cup {w}
    /\ UNCHANGED <<todo, submitted, okCalls, failedCalls, skippedEvents, queuedCopies, cutShort,
                   jobsClosed, rpPanicked>>
\* Mutant: a method without a marshaler is not counted.
InvokedUncounted(w) ==
    /\ w \in busy /\ busy' = busy \ {w}
    /\ \/ okCalls' = okCalls + 1 /\ UNCHANGED <<failedCalls, skippedEvents>>
       \/ failedCalls' = failedCalls + 1 /\ UNCHANGED <<okCalls, skippedEvents>>
       \/ UNCHANGED <<okCalls, failedCalls, skippedEvents>>
    /\ UNCHANGED <<todo, jobs, submitted, queuedCopies, cutShort, jobsClosed, rpPanicked>>
\* invokeOne: the call succeeds, fails, or its method has no marshaler.
Invoked(w) ==
    /\ w \in busy /\ busy' = busy \ {w}
    /\ \/ okCalls' = okCalls + 1 /\ UNCHANGED <<failedCalls, skippedEvents>>
       \/ failedCalls' = failedCalls + 1 /\ UNCHANGED <<okCalls, skippedEvents>>
       \/ skippedEvents' = skippedEvents + 1 /\ UNCHANGED <<okCalls, failedCalls>>
    /\ UNCHANGED <<todo, jobs, submitted, queuedCopies, cutShort, jobsClosed, rpPanicked>>
\* Close closes the channel and waits for the workers, who empty it first.
CloseReplayer ==
    /\ ~jobsClosed /\ jobsClosed' = TRUE
    /\ UNCHANGED <<todo, jobs, busy, submitted, okCalls, failedCalls, skippedEvents,
                   queuedCopies, cutShort, rpPanicked>>

RpNext ==
    /\ ~rpPanicked
    /\ \/ CloseReplayer
       \/ \E s \in Submitter : Submit(s) \/ Offer(s)
       \/ \E w \in ReplayWorker : TakeJob(w) \/ Invoked(w)
RpSpec == RpInit /\ [][RpNext]_rpVars
RpFair == \A w \in ReplayWorker : WF_rpVars(~rpPanicked /\ (TakeJob(w) \/ Invoked(w)))
-----------------------------------------------------------------------------
RpTypeOK ==
    /\ todo \in [Submitter -> 0 .. Multiplier] /\ jobs \in 0 .. JobsCap
    /\ busy \subseteq ReplayWorker /\ submitted \in 0 .. MaxSubmits
    /\ okCalls \in Nat /\ failedCalls \in Nat /\ skippedEvents \in Nat
    /\ queuedCopies \in Nat /\ cutShort \in Nat
    /\ jobsClosed \in BOOLEAN /\ rpPanicked \in BOOLEAN

\* The counters lose nothing: every copy that was queued waits, is being called
\* or was counted once, and every Submit that was cut short was counted once,
\* whoever submits and calls meanwhile.
MetricsConserve ==
    queuedCopies + cutShort = jobs + Cardinality(busy) + okCalls + failedCalls + skippedEvents

\* An event that was submitted leaves a mark: at least one of its copies, or its
\* being cut short, is in the counters, and never more than Multiplier of them.
SubmittedAccounted ==
    LET marks == queuedCopies + cutShort
        begun == {s \in Submitter : todo[s] = Multiplier}
    IN  /\ marks >= submitted - Cardinality(begun)
        /\ marks <= submitted * Multiplier

\* Both: what Submit, invokeOne and the metrics say of each other.
CountersAddUp == MetricsConserve /\ SubmittedAccounted

\* What was queued has to be called before Close returns, unless a Submit met
\* the close.
RpOwed == jobsClosed /\ ~rpPanicked /\ (jobs > 0 \/ busy # {})
=============================================================================
