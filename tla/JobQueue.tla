------------------------------ MODULE JobQueue ------------------------------
(* The in-memory job queue (jobqueue/queue.go): a bounded channel, one       *)
(* worker loop, a goroutine per task that waits to be tried again.  Enqueue  *)
(* marks the unique key before it sends, and is called by one goroutine: its *)
(* map has no lock.  A send on the closed channel panics.                    *)
EXTENDS Naturals, Sequences, FiniteSets

CONSTANTS Task,
          UniqueKey,   \* [Task -> key], payload hash
          Cap,         \* of the channel (1024)
          MaxRetry,    \* [Task -> Nat]
          Unknown,     \* tasks without a handler
          Parent,      \* [Task -> Task]: whose handler enqueues it; itself if a client's
          MaxSkips     \* bound: ErrSkipRetry returned
ASSUME JobAssumption ==
    /\ Cap \in Nat \ {0} /\ MaxRetry \in [Task -> Nat] /\ DOMAIN UniqueKey = Task
    /\ Unknown \subseteq Task /\ Parent \in [Task -> Task] /\ MaxSkips \in Nat

VARIABLES place,     \* where each task is
          channel,   \* sequence of tasks
          tries,     \* handler calls of a task
          window,    \* unique keys taken
          chClosed, panicked, skips
jqVars == <<place, channel, tries, window, chClosed, panicked, skips>>

Places == {"new", "refused", "sending", "queued", "running", "backoff",
           "done", "dlq", "dropped"}
Settled == {"refused", "done", "dlq", "dropped"}
Move(t, to) == place' = [place EXCEPT ![t] = to]

JqInit ==
    /\ place = [t \in Task |-> "new"] /\ channel = <<>> /\ tries = [t \in Task |-> 0]
    /\ window = {} /\ chClosed = FALSE /\ panicked = FALSE /\ skips = 0
-----------------------------------------------------------------------------
\* A client's goroutine, or the handler of the running task, enqueues.
Enqueue(t) ==
    /\ place[t] = "new"
    /\ IF Parent[t] = t THEN \A u \in Task : place[u] = "sending" => Parent[u] # u
       ELSE place[Parent[t]] = "running"
    /\ IF UniqueKey[t] \in window THEN Move(t, "refused") /\ UNCHANGED window
       ELSE Move(t, "sending") /\ window' = window \cup {UniqueKey[t]}
    /\ UNCHANGED <<channel, tries, chClosed, panicked, skips>>
\* The TTL of a key passes.
WindowEnds ==
    /\ \E k \in window : window' = window \ {k}
    /\ UNCHANGED <<place, channel, tries, chClosed, panicked, skips>>
\* Enqueue, or the goroutine of a task that has waited, sends when there is room.
Send(t) ==
    /\ place[t] \in {"sending", "backoff"}
    /\ IF chClosed THEN panicked' = TRUE /\ UNCHANGED <<place, channel>>
       ELSE /\ Len(channel) < Cap /\ channel' = Append(channel, t) /\ Move(t, "queued")
            /\ UNCHANGED panicked
    /\ UNCHANGED <<tries, window, chClosed, skips>>
Idle == \A t \in Task : place[t] # "running"
\* Run: the next task; a type nobody handles is dropped.
Take ==
    /\ Idle /\ channel # <<>> /\ channel' = Tail(channel)
    /\ LET t == Head(channel)
       IN  IF t \in Unknown THEN Move(t, "dropped") /\ UNCHANGED tries
           ELSE Move(t, "running") /\ tries' = [tries EXCEPT ![t] = @ + 1]
    /\ UNCHANGED <<window, chClosed, panicked, skips>>
\* The handler is not itself inside Enqueue.
Returns(t) == place[t] = "running" /\ \A u \in Task \ {t} : Parent[u] = t => place[u] # "sending"
Succeed(t) ==
    /\ Returns(t) /\ Move(t, "done")
    /\ UNCHANGED <<channel, tries, window, chClosed, panicked, skips>>
\* Mutant: one attempt more.
LastTryLate(t) == tries[t] > MaxRetry[t] + 1
\* attempts, the tries before this one, has reached MaxRetry.
LastTry(t) == tries[t] - 1 >= MaxRetry[t]
Fail(t) ==
    /\ Returns(t)
    /\ Move(t, IF LastTry(t) THEN "dlq" ELSE "backoff")
    /\ UNCHANGED <<channel, tries, window, chClosed, panicked, skips>>
SkipRetry(t) ==
    /\ Returns(t) /\ skips < MaxSkips /\ skips' = skips + 1 /\ Move(t, "dlq")
    /\ UNCHANGED <<channel, tries, window, chClosed, panicked>>
CloseQueue ==
    /\ ~chClosed /\ chClosed' = TRUE
    /\ UNCHANGED <<place, channel, tries, window, panicked, skips>>

Work == Take \/ \E t \in Task : Succeed(t) \/ Fail(t) \/ SkipRetry(t)
JqNext ==
    /\ ~panicked
    /\ \/ WindowEnds \/ CloseQueue \/ Work
       \/ \E t \in Task : Enqueue(t) \/ Send(t)
JqSpec == JqInit /\ [][JqNext]_jqVars
JqFair == /\ WF_jqVars(~panicked /\ Work)
          /\ \A t \in Task : SF_jqVars(~panicked /\ Send(t))
-----------------------------------------------------------------------------
JqTypeOK ==
    /\ place \in [Task -> Places] /\ channel \in Seq(Task) /\ Len(channel) <= Cap
    /\ tries \in [Task -> Nat] /\ window \subseteq {UniqueKey[t] : t \in Task}
    /\ chClosed \in BOOLEAN /\ panicked \in BOOLEAN /\ skips \in 0 .. MaxSkips

\* Each task in the channel is there once, and is nowhere else; the one worker
\* runs one task.
InOnePlace ==
    /\ \A i, j \in DOMAIN channel : channel[i] = channel[j] => i = j
    /\ \A t \in Task : place[t] = "queued" <=> \E i \in DOMAIN channel : channel[i] = t
    /\ \A t, u \in Task : place[t] = "running" /\ place[u] = "running" => t = u

\* A task is tried at most MaxRetry times after the first, and is given up for
\* its failures only when they are used up.
RetryBudget ==
    /\ \A t \in Task : tries[t] <= MaxRetry[t] + 1
    /\ Cardinality({t \in Task : place[t] = "dlq" /\ tries[t] <= MaxRetry[t]}) <= skips

\* No task is lost, doubled or tried too often, whatever the client, the window
\* of unique keys and Close do (Enqueue, Run).
JobsAccounted == JqTypeOK /\ InOnePlace /\ RetryBudget

\* The handler that waits for room in the channel is the loop that would make it.
SelfBlocked == \E t \in Task : place[t] = "running" /\ ~Returns(t) /\ Len(channel) = Cap

\* Every task that was enqueued has to be settled at last, by success, retries
\* or the DLQ, unless Close meets a task that waits to be sent, or a handler
\* enqueues into the full channel.
JqOwed ==
    /\ ~panicked /\ ~SelfBlocked
    /\ \E t \in Task : place[t] \in {"sending", "queued", "running", "backoff"}
=============================================================================
