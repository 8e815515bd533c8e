--------------------------- MODULE InProcessProofs ----------------------------
(***************************************************************************)
(* Theorems about what the goroutines of one process share: the job queue, *)
(* the audit log client, the traffic replayer, shadow traffic, the rate    *)
(* limiter, bound structs, feature flags, amounts of money and identities, *)
(* each for any load and any configuration.                                *)
(***************************************************************************)
EXTENDS JobQueue, AuditLog, Replay, ShadowFlow, RateLimit, Binding, FeatureFlag,
        Money, Identity, FiniteSetTheorems, SequenceTheorems, WellFoundedInduction, TLAPS

-------------------------------------------------------------------------------
(* The job queue: no task is lost, doubled or tried too often.             *)

\* Tasks in the DLQ that had tries left: a handler returned ErrSkipRetry.
GivenUpEarly == {t \in Task : place[t] = "dlq" /\ tries[t] <= MaxRetry[t]}

\* A task that is still to be tried has a try left.
TriesLeft ==
    \A t \in Task : place[t] \in Places \ {"running", "done", "dlq"} => tries[t] <= MaxRetry[t]

JqInv == JobsAccounted /\ TriesLeft /\ IsFiniteSet(GivenUpEarly)

LEMMA JqInitInv == JqInit => JqInv
<1> SUFFICES ASSUME JqInit PROVE JqInv
    OBVIOUS
<1>1. JqTypeOK
  <2>1. place \in [Task -> Places] /\ tries \in [Task -> Nat]
      BY DEF JqInit, Places
  <2>2. channel \in Seq(Task) /\ Len(channel) <= Cap /\ skips \in 0 .. MaxSkips
      BY JobAssumption DEF JqInit
  <2> QED
      BY <2>1, <2>2 DEF JqInit, JqTypeOK
<1>3. InOnePlace
    BY DEF JqInit, InOnePlace
<1>4. TriesLeft /\ \A t \in Task : tries[t] <= MaxRetry[t] + 1
    BY JobAssumption DEF JqInit, TriesLeft
<1>2. GivenUpEarly = {}
    BY DEF JqInit, GivenUpEarly
<1> QED
    BY <1>1, <1>2, <1>3, <1>4, FS_EmptySet
       DEF JqInv, JobsAccounted, RetryBudget, GivenUpEarly, JqInit

\* What the DLQ got beside a handler's ErrSkipRetry had used its tries up.
LEMMA EarlyKept ==
    ASSUME JqInv, skips' = skips,
           \A t \in Task : place'[t] = "dlq" /\ tries'[t] <= MaxRetry[t] =>
                               place[t] = "dlq" /\ tries[t] <= MaxRetry[t]
    PROVE  IsFiniteSet(GivenUpEarly') /\ Cardinality(GivenUpEarly') <= skips'
<1>1. GivenUpEarly' \in SUBSET GivenUpEarly
    BY DEF GivenUpEarly
<1>2. IsFiniteSet(GivenUpEarly) /\ Cardinality(GivenUpEarly) <= skips /\ skips \in Nat
    BY JobAssumption DEF JqInv, JobsAccounted, RetryBudget, GivenUpEarly, JqTypeOK
<1>3. /\ IsFiniteSet(GivenUpEarly') /\ Cardinality(GivenUpEarly') <= Cardinality(GivenUpEarly)
      /\ Cardinality(GivenUpEarly') \in Nat /\ Cardinality(GivenUpEarly) \in Nat
    BY <1>1, <1>2, FS_Subset, FS_CardinalityType
<1> QED
    BY <1>2, <1>3

\* No task moves.
LEMMA RestKeeps ==
    ASSUME JqInv, UNCHANGED <<place, channel, tries, skips>>, window' \subseteq window,
           chClosed' \in BOOLEAN, panicked' \in BOOLEAN
    PROVE  JqInv'
<1>1. JqTypeOK'
    BY DEF JqInv, JobsAccounted, JqTypeOK
<1>2. InOnePlace' /\ TriesLeft'
    BY DEF JqInv, JobsAccounted, InOnePlace, TriesLeft
<1>3. IsFiniteSet(GivenUpEarly') /\ Cardinality(GivenUpEarly') <= skips'
    BY EarlyKept
<1>4. \A t \in Task : tries'[t] <= MaxRetry[t] + 1
    BY DEF JqInv, JobsAccounted, RetryBudget
<1>5. RetryBudget'
    BY <1>3, <1>4 DEF RetryBudget, GivenUpEarly
<1> QED
    BY <1>1, <1>2, <1>3, <1>5 DEF JqInv, JobsAccounted

\* A task changes its place and stays out of the channel.
LEMMA MoveKeeps ==
    ASSUME JqInv, NEW t \in Task, NEW to \in Places \ {"queued"}, Move(t, to),
           place[t] # "queued", UNCHANGED <<channel, tries>>,
           to = "running" => Idle,
           window' \subseteq {UniqueKey[u] : u \in Task},
           chClosed' \in BOOLEAN, panicked' \in BOOLEAN, skips' \in 0 .. MaxSkips,
           to \notin {"running", "done", "dlq"} => tries[t] <= MaxRetry[t],
           IsFiniteSet(GivenUpEarly') /\ Cardinality(GivenUpEarly') <= skips'
    PROVE  JqInv'
<1>1. place \in [Task -> Places] /\ place' = [place EXCEPT ![t] = to]
    BY DEF JqInv, JobsAccounted, JqTypeOK, Move
<1>2. JqTypeOK'
    BY <1>1 DEF JqInv, JobsAccounted, JqTypeOK
<1>3. InOnePlace'
    BY <1>1 DEF JqInv, JobsAccounted, InOnePlace, Idle
<1>4. TriesLeft'
    BY <1>1 DEF JqInv, TriesLeft
<1> QED
    BY <1>2, <1>3, <1>4 DEF JqInv, JobsAccounted, RetryBudget, GivenUpEarly

LEMMA JqNextInv == JqInv /\ [JqNext]_jqVars => JqInv'
<1> SUFFICES ASSUME JqInv, [JqNext]_jqVars PROVE JqInv'
    OBVIOUS
<1> USE JobAssumption
<1>0. /\ place \in [Task -> Places] /\ channel \in Seq(Task) /\ Len(channel) <= Cap
      /\ tries \in [Task -> Nat] /\ MaxRetry \in [Task -> Nat]
      /\ window \subseteq {UniqueKey[t] : t \in Task}
      /\ chClosed \in BOOLEAN /\ panicked \in BOOLEAN /\ skips \in 0 .. MaxSkips
    BY DEF JqInv, JobsAccounted, JqTypeOK
<1>1. ASSUME NEW t \in Task, Enqueue(t) PROVE JqInv'
  <2>1. /\ place[t] = "new" /\ UNCHANGED <<channel, tries, chClosed, panicked, skips>>
        /\ \/ Move(t, "refused") /\ window' = window
           \/ Move(t, "sending") /\ window' = window \cup {UniqueKey[t]}
      BY <1>1 DEF Enqueue
  <2>2. IsFiniteSet(GivenUpEarly') /\ Cardinality(GivenUpEarly') <= skips'
      BY <1>0, <2>1, EarlyKept DEF Move
  <2>3. tries[t] <= MaxRetry[t]
      BY <2>1 DEF JqInv, TriesLeft, Places
  <2> QED
      BY <1>0, <2>1, <2>2, <2>3, MoveKeeps DEF Places
<1>2. CASE WindowEnds \/ CloseQueue \/ UNCHANGED jqVars
    BY <1>0, <1>2, RestKeeps DEF WindowEnds, CloseQueue, jqVars
<1>3. ASSUME NEW t \in Task, Send(t) PROVE JqInv'
  <2>1. CASE chClosed
      BY <1>0, <1>3, <2>1, RestKeeps DEF Send
  <2>2. CASE ~chClosed
    <3>1. /\ place[t] \in {"sending", "backoff"} /\ Len(channel) < Cap
          /\ channel' = Append(channel, t) /\ place' = [place EXCEPT ![t] = "queued"]
          /\ UNCHANGED <<tries, window, chClosed, panicked, skips>>
        BY <1>3, <2>2 DEF Send, Move
    <3>2. JqTypeOK'
        BY <1>0, <3>1 DEF JqTypeOK, Places
    <3>3. /\ DOMAIN channel = 1 .. Len(channel) /\ DOMAIN channel' = 1 .. Len(channel) + 1
          /\ \A i \in DOMAIN channel : channel'[i] = channel[i]
          /\ channel'[Len(channel) + 1] = t /\ Len(channel) \in Nat
        BY <1>0, <3>1
    <3>4. \A i \in DOMAIN channel : channel[i] # t
        BY <3>1 DEF JqInv, JobsAccounted, InOnePlace
    <3>5. InOnePlace'
      <4>1. \A i, j \in DOMAIN channel' : channel'[i] = channel'[j] => i = j
          BY <3>3, <3>4 DEF JqInv, JobsAccounted, InOnePlace
      <4>2. \A u \in Task : place'[u] = "queued" <=> \E i \in DOMAIN channel' : channel'[i] = u
        <5> SUFFICES ASSUME NEW u \in Task
                     PROVE  place'[u] = "queued" <=> \E i \in DOMAIN channel' : channel'[i] = u
            OBVIOUS
        <5>1. place[u] = "queued" <=> \E i \in DOMAIN channel : channel[i] = u
            BY DEF JqInv, JobsAccounted, InOnePlace
        <5>2. CASE u = t
          <6>1. place'[t] = "queued"
              BY <1>0, <3>1
          <6>2. Len(channel) + 1 \in DOMAIN channel'
              BY <3>3
          <6> QED
              BY <3>3, <5>2, <6>1, <6>2
        <5>3. CASE u # t
            BY <1>0, <3>1, <3>3, <5>1, <5>3
        <5> QED
            BY <5>2, <5>3
      <4>3. \A u, v \in Task : place'[u] = "running" /\ place'[v] = "running" => u = v
          BY <1>0, <3>1 DEF JqInv, JobsAccounted, InOnePlace
      <4> QED
          BY <4>1, <4>2, <4>3 DEF InOnePlace
    <3>6. IsFiniteSet(GivenUpEarly') /\ Cardinality(GivenUpEarly') <= skips'
        BY <1>0, <3>1, EarlyKept
    <3>7. TriesLeft'
        BY <1>0, <3>1 DEF JqInv, TriesLeft, Places
    <3> QED
        BY <3>1, <3>2, <3>5, <3>6, <3>7 DEF JqInv, JobsAccounted, RetryBudget, GivenUpEarly
  <2> QED
      BY <2>1, <2>2
<1>4. CASE Take
  <2> DEFINE t == Head(channel)
             to == IF t \in Unknown THEN "dropped" ELSE "running"
  <2>1. /\ Idle /\ channel # <<>> /\ channel' = Tail(channel)
        /\ place' = [place EXCEPT ![t] = to]
        /\ UNCHANGED <<window, chClosed, panicked, skips>>
        /\ tries' = tries \/ (to = "running" /\ tries' = [tries EXCEPT ![t] = @ + 1])
      BY <1>4 DEF Take, Move
  <2>2. /\ t \in Task /\ t = channel[1] /\ Len(channel) >= 1 /\ Len(channel) \in Nat
        /\ DOMAIN channel = 1 .. Len(channel) /\ DOMAIN channel' = 1 .. Len(channel) - 1
        /\ \A i \in DOMAIN channel' : channel'[i] = channel[i + 1]
        /\ channel' \in Seq(Task) /\ Len(channel') <= Cap
      BY <1>0, <2>1
  <2>3. place[t] = "queued"
    <3>1. 1 \in DOMAIN channel
        BY <2>2
    <3> QED
        BY <2>2, <3>1 DEF JqInv, JobsAccounted, InOnePlace
  <2>4. to \in Places \ {"queued", "dlq"} /\ (to = "dropped" \/ to = "running")
      BY DEF Places
  <2> HIDE DEF t, to
  <2>5. /\ tries' \in [Task -> Nat] /\ \A u \in Task : u # t => tries'[u] = tries[u]
        /\ tries'[t] = tries[t] \/ (to = "running" /\ tries'[t] = tries[t] + 1)
    <3>1. CASE tries' = tries
        BY <1>0, <3>1
    <3>2. CASE to = "running" /\ tries' = [tries EXCEPT ![t] = @ + 1]
        BY <1>0, <2>2, <3>2
    <3> QED
        BY <2>1, <3>1, <3>2
  <2>6. JqTypeOK'
      BY <1>0, <2>1, <2>2, <2>4, <2>5 DEF JqTypeOK
  <2>7. InOnePlace'
    <3>1. \A i, j \in DOMAIN channel' : channel'[i] = channel'[j] => i = j
      <4> SUFFICES ASSUME NEW i \in DOMAIN channel', NEW j \in DOMAIN channel',
                          channel'[i] = channel'[j]
                   PROVE  i = j
          OBVIOUS
      <4>1. i + 1 \in DOMAIN channel /\ j + 1 \in DOMAIN channel /\ channel[i + 1] = channel[j + 1]
            /\ i \in Int /\ j \in Int
          BY <2>2
      <4>2. i + 1 = j + 1
          BY <4>1 DEF JqInv, JobsAccounted, InOnePlace
      <4> QED
          BY <4>1, <4>2
    <3>2. \A u \in Task : place'[u] = "queued" <=> \E i \in DOMAIN channel' : channel'[i] = u
      <4> SUFFICES ASSUME NEW u \in Task
                   PROVE  place'[u] = "queued" <=> \E i \in DOMAIN channel' : channel'[i] = u
          OBVIOUS
      <4>1. place[u] = "queued" <=> \E i \in DOMAIN channel : channel[i] = u
          BY DEF JqInv, JobsAccounted, InOnePlace
      <4>2. \A i \in DOMAIN channel : channel[i] = t => i = 1
          BY <2>2 DEF JqInv, JobsAccounted, InOnePlace
      <4>3. CASE u = t
        <5>1. place'[t] # "queued"
            BY <1>0, <2>1, <2>2, <2>4
        <5>2. ASSUME NEW i \in DOMAIN channel', channel'[i] = t PROVE FALSE
          <6>1. i + 1 \in DOMAIN channel /\ i + 1 # 1
              BY <2>2
          <6> QED
              BY <2>2, <4>2, <5>2, <6>1
        <5> QED
            BY <4>3, <5>1, <5>2
      <4>4. CASE u # t
        <5>1. (\E i \in DOMAIN channel : channel[i] = u) <=> \E i \in DOMAIN channel' : channel'[i] = u
          <6>1. ASSUME NEW i \in DOMAIN channel, channel[i] = u
                PROVE  i - 1 \in DOMAIN channel' /\ channel'[i - 1] = u
            <7>1. i # 1 /\ i \in 1 .. Len(channel)
                BY <2>2, <4>4, <6>1
            <7>2. i - 1 \in DOMAIN channel' /\ (i - 1) + 1 = i
                BY <2>2, <7>1
            <7> QED
                BY <2>2, <6>1, <7>2
          <6>2. ASSUME NEW i \in DOMAIN channel', channel'[i] = u
                PROVE  i + 1 \in DOMAIN channel /\ channel[i + 1] = u
              BY <2>2, <6>2
          <6> QED
              BY <6>1, <6>2
        <5> QED
            BY <1>0, <2>1, <4>1, <4>4, <5>1
      <4> QED
          BY <4>3, <4>4
    <3>3. \A u, v \in Task : place'[u] = "running" /\ place'[v] = "running" => u = v
        BY <1>0, <2>1 DEF Idle
    <3> QED
        BY <3>1, <3>2, <3>3 DEF InOnePlace
  <2>8. tries[t] <= MaxRetry[t] /\ tries'[t] <= MaxRetry[t] + 1
        /\ (to # "running" => tries'[t] <= MaxRetry[t])
    <3>1. tries[t] <= MaxRetry[t]
        BY <2>2, <2>3 DEF JqInv, TriesLeft, Places
    <3>2. tries[t] \in Nat /\ MaxRetry[t] \in Nat
        BY <1>0, <2>2
    <3> QED
        BY <2>5, <3>1, <3>2
  <2>9. TriesLeft'
      BY <1>0, <2>1, <2>5, <2>8 DEF JqInv, TriesLeft
  <2>10. IsFiniteSet(GivenUpEarly') /\ Cardinality(GivenUpEarly') <= skips'
      BY <1>0, <2>1, <2>2, <2>4, <2>5, EarlyKept
  <2>11. \A u \in Task : tries'[u] <= MaxRetry[u] + 1
      BY <2>2, <2>5, <2>8 DEF JqInv, JobsAccounted, RetryBudget
  <2> QED
      BY <2>6, <2>7, <2>9, <2>10, <2>11 DEF JqInv, JobsAccounted, RetryBudget, GivenUpEarly
<1>5. ASSUME NEW t \in Task, Succeed(t) PROVE JqInv'
  <2>1. /\ place[t] = "running" /\ Move(t, "done")
        /\ UNCHANGED <<channel, tries, window, chClosed, panicked, skips>>
      BY <1>5 DEF Succeed, Returns
  <2>2. IsFiniteSet(GivenUpEarly') /\ Cardinality(GivenUpEarly') <= skips'
      BY <1>0, <2>1, EarlyKept DEF Move
  <2> QED
      BY <1>0, <2>1, <2>2, MoveKeeps DEF Places
<1>6. ASSUME NEW t \in Task, Fail(t) PROVE JqInv'
  <2> DEFINE to == IF LastTry(t) THEN "dlq" ELSE "backoff"
  <2>1. /\ place[t] = "running" /\ Move(t, to)
        /\ UNCHANGED <<channel, tries, window, chClosed, panicked, skips>>
      BY <1>6 DEF Fail, Returns
  <2>2. tries[t] \in Nat /\ MaxRetry[t] \in Nat
      BY <1>0
  <2>3. (to = "dlq" /\ tries[t] > MaxRetry[t]) \/ (to = "backoff" /\ tries[t] <= MaxRetry[t])
      BY <2>2 DEF LastTry
  <2> HIDE DEF to
  <2>4. IsFiniteSet(GivenUpEarly') /\ Cardinality(GivenUpEarly') <= skips'
      BY <1>0, <2>1, <2>2, <2>3, EarlyKept DEF Move
  <2> QED
      BY <1>0, <2>1, <2>3, <2>4, MoveKeeps DEF Places
<1>7. ASSUME NEW t \in Task, SkipRetry(t) PROVE JqInv'
  <2>1. /\ place[t] = "running" /\ Move(t, "dlq") /\ skips' = skips + 1 /\ skips' \in 0 .. MaxSkips
        /\ UNCHANGED <<channel, tries, window, chClosed, panicked>>
      BY <1>0, <1>7 DEF SkipRetry, Returns
  <2>2. GivenUpEarly' \in SUBSET (GivenUpEarly \cup {t})
      BY <1>0, <2>1 DEF GivenUpEarly, Move
  <2>3. IsFiniteSet(GivenUpEarly) /\ Cardinality(GivenUpEarly) <= skips
      BY DEF JqInv, JobsAccounted, RetryBudget, GivenUpEarly
  <2>4. IsFiniteSet(GivenUpEarly \cup {t})
        /\ Cardinality(GivenUpEarly \cup {t}) <= Cardinality(GivenUpEarly) + 1
        /\ Cardinality(GivenUpEarly) \in Nat
    <3>1. Cardinality(GivenUpEarly) \in Nat
        BY <2>3, FS_CardinalityType
    <3>2. /\ IsFiniteSet(GivenUpEarly \cup {t})
          /\ Cardinality(GivenUpEarly \cup {t}) =
                 IF t \in GivenUpEarly THEN Cardinality(GivenUpEarly)
                 ELSE Cardinality(GivenUpEarly) + 1
        BY <2>3, FS_AddElement
    <3> QED
        BY <3>1, <3>2
  <2>5. IsFiniteSet(GivenUpEarly') /\ Cardinality(GivenUpEarly') <= Cardinality(GivenUpEarly \cup {t})
        /\ Cardinality(GivenUpEarly') \in Nat /\ Cardinality(GivenUpEarly \cup {t}) \in Nat
      BY <2>2, <2>4, FS_Subset, FS_CardinalityType
  <2>6. IsFiniteSet(GivenUpEarly') /\ Cardinality(GivenUpEarly') <= skips'
      BY <1>0, <2>1, <2>3, <2>4, <2>5
  <2> QED
      BY <1>0, <2>1, <2>6, MoveKeeps DEF Places
<1> QED
    BY <1>1, <1>2, <1>3, <1>4, <1>5, <1>6, <1>7 DEF JqNext, Work

\* jobqueue/queue.go, Enqueue and Run: whatever a handler enqueues, and whenever
\* Close comes, a task is in one place, is tried at most MaxRetry times after
\* the first, and reaches the DLQ before that only by ErrSkipRetry.
THEOREM QueueAccountsForJobs == JqSpec => []JobsAccounted
<1>1. JqInv => JobsAccounted
    BY DEF JqInv
<1> QED
    BY <1>1, JqInitInv, JqNextInv, PTL DEF JqSpec

-------------------------------------------------------------------------------
(* The audit log client: what can be lost, and in which order the rest is.  *)

LEMMA MulMonotone ==
    ASSUME NEW m \in Nat, NEW c \in Nat, NEW d \in Nat, d <= c + 1
    PROVE  m * d <= m * c + m /\ m * d \in Nat /\ m * c \in Nat
<1>1. PICK k \in Nat : c + 1 = d + k
    BY c + 1 - d \in Nat
<1>2. m * (c + 1) = m * c + m
    OBVIOUS
<1>3. m * (d + k) = m * d + m * k
    OBVIOUS
<1>4. m * k \in Nat /\ m * d \in Nat /\ m * c \in Nat
    OBVIOUS
<1> DEFINE mk == m * k
           md == m * d
           mc == m * c
<1>5. mc + m = md + mk /\ mk \in Nat /\ md \in Nat /\ mc \in Nat
    BY <1>1, <1>2, <1>3, <1>4
<1>6. md <= mc + m
  <2> HIDE DEF mk, md, mc
  <2> QED
      BY <1>5
<1> QED
    BY <1>4, <1>6

Increasing(s) == \A i, j \in DOMAIN s : i < j => s[i] < s[j]

LEMMA AppendedEvents ==
    ASSUME NEW S, NEW s \in Seq(S), NEW e \in S
    PROVE  /\ Events(Append(s, e)) = Events(s) \cup {e}
           /\ Append(s, e) \in Seq(S) /\ Len(Append(s, e)) = Len(s) + 1 /\ Len(s) \in Nat
<1>1. /\ DOMAIN s = 1 .. Len(s) /\ DOMAIN Append(s, e) = 1 .. Len(s) + 1 /\ Len(s) \in Nat
      /\ \A i \in 1 .. Len(s) : Append(s, e)[i] = s[i]
      /\ Append(s, e)[Len(s) + 1] = e
    OBVIOUS
<1>2. Len(s) + 1 \in DOMAIN Append(s, e)
    BY <1>1
<1>3. Append(s, e) \in Seq(S) /\ Len(Append(s, e)) = Len(s) + 1
    OBVIOUS
<1> QED
    BY <1>1, <1>2, <1>3 DEF Events

LEMMA AppendedIn ==
    ASSUME NEW n, NEW s \in Seq(1 .. n), NEW e \in 1 .. n
    PROVE  /\ Events(Append(s, e)) = Events(s) \cup {e}
           /\ Append(s, e) \in Seq(1 .. n) /\ Len(Append(s, e)) = Len(s) + 1
<1> DEFINE S == 1 .. n
<1>1. s \in Seq(S) /\ e \in S
    OBVIOUS
<1> HIDE DEF S
<1>2. /\ Events(Append(s, e)) = Events(s) \cup {e}
      /\ Append(s, e) \in Seq(S) /\ Len(Append(s, e)) = Len(s) + 1
    BY <1>1, AppendedEvents
<1> QED
    BY <1>2 DEF S

LEMMA EventsInSeq ==
    ASSUME NEW S, NEW s \in Seq(S)
    PROVE  Events(s) \subseteq S
    BY ElementOfSeq DEF Events

LEMMA TakenEvents ==
    ASSUME NEW S, NEW s \in Seq(S), s # <<>>
    PROVE  /\ Events(s) = Events(Tail(s)) \cup {Head(s)}
           /\ Head(s) \in Events(s) /\ Head(s) \in S /\ Tail(s) \in Seq(S)
           /\ Len(Tail(s)) = Len(s) - 1 /\ Len(s) \in Nat \ {0}
<1>1. /\ DOMAIN s = 1 .. Len(s) /\ Len(s) \in Nat /\ Len(s) >= 1
      /\ Tail(s) \in Seq(S) /\ DOMAIN Tail(s) = 1 .. Len(s) - 1 /\ Len(Tail(s)) = Len(s) - 1
      /\ \A i \in 1 .. Len(s) - 1 : Tail(s)[i] = s[i + 1]
      /\ Head(s) = s[1]
    OBVIOUS
<1>2. 1 \in DOMAIN s /\ s[1] \in S
    BY <1>1
<1>3. ASSUME NEW i \in DOMAIN s, i # 1
      PROVE  i - 1 \in DOMAIN Tail(s) /\ Tail(s)[i - 1] = s[i]
    BY <1>1, <1>3
<1>4. ASSUME NEW i \in DOMAIN Tail(s)
      PROVE  i + 1 \in DOMAIN s /\ Tail(s)[i] = s[i + 1]
    BY <1>1
<1>5. Events(s) \subseteq Events(Tail(s)) \cup {s[1]}
    BY <1>3 DEF Events
<1>6. Events(Tail(s)) \subseteq Events(s)
    BY <1>4 DEF Events
<1>7. s[1] \in Events(s)
    BY <1>2 DEF Events
<1> QED
    BY <1>1, <1>2, <1>5, <1>6, <1>7

LEMMA EventsCount ==
    ASSUME NEW S, NEW s \in Seq(S)
    PROVE  IsFiniteSet(Events(s)) /\ Cardinality(Events(s)) <= Len(s)
<1>1. DOMAIN s = 1 .. Len(s) /\ Len(s) \in Nat
    OBVIOUS
<1>2. ExistsSurjection(1 .. Len(s), Events(s))
  <2> DEFINE f == [i \in 1 .. Len(s) |-> s[i]]
  <2>1. f \in Surjection(1 .. Len(s), Events(s))
      BY <1>1 DEF Events, Surjection
  <2> QED
      BY <2>1 DEF ExistsSurjection
<1>3. Cardinality(Events(s)) <= Len(s)
    BY <1>1, <1>2, FS_SurjCardinalityBound
<1>4. IsFiniteSet(Events(s))
    BY <1>1, <1>2, FS_Interval, FS_Surjection DEF ExistsSurjection
<1> QED
    BY <1>3, <1>4

LEMMA AppendIncreases ==
    ASSUME NEW n \in Nat, NEW s \in Seq(1 .. n), NEW e \in Nat, Increasing(s),
           \A x \in Events(s) : x < e
    PROVE  Increasing(Append(s, e))
<1>1. /\ DOMAIN s = 1 .. Len(s) /\ DOMAIN Append(s, e) = 1 .. Len(s) + 1 /\ Len(s) \in Nat
      /\ \A i \in 1 .. Len(s) : Append(s, e)[i] = s[i]
      /\ Append(s, e)[Len(s) + 1] = e
    OBVIOUS
<1>2. \A i \in DOMAIN s : s[i] < e
    BY DEF Events
<1> SUFFICES ASSUME NEW i \in DOMAIN Append(s, e), NEW j \in DOMAIN Append(s, e), i < j
             PROVE  Append(s, e)[i] < Append(s, e)[j]
    BY DEF Increasing
<1>3. CASE j = Len(s) + 1
    BY <1>1, <1>2, <1>3
<1>4. CASE j # Len(s) + 1
    BY <1>1, <1>4 DEF Increasing
<1> QED
    BY <1>3, <1>4

LEMMA TailIncreases ==
    ASSUME NEW n \in Nat, NEW s \in Seq(1 .. n), s # <<>>, Increasing(s)
    PROVE  Increasing(Tail(s)) /\ \A x \in Events(Tail(s)) : Head(s) < x
<1>1. /\ DOMAIN s = 1 .. Len(s) /\ Len(s) \in Nat /\ Len(s) >= 1
      /\ DOMAIN Tail(s) = 1 .. Len(s) - 1
      /\ \A i \in 1 .. Len(s) - 1 : Tail(s)[i] = s[i + 1]
      /\ Head(s) = s[1]
    OBVIOUS
<1>2. ASSUME NEW i \in DOMAIN Tail(s)
      PROVE  i + 1 \in DOMAIN s /\ Tail(s)[i] = s[i + 1] /\ i \in Int /\ 1 < i + 1 /\ 1 \in DOMAIN s
    BY <1>1
<1>3. \A i \in DOMAIN Tail(s) : Head(s) < Tail(s)[i]
    BY <1>1, <1>2 DEF Increasing
<1>4. Increasing(Tail(s))
  <2> SUFFICES ASSUME NEW i \in DOMAIN Tail(s), NEW j \in DOMAIN Tail(s), i < j
               PROVE  Tail(s)[i] < Tail(s)[j]
      BY DEF Increasing
  <2>1. i + 1 < j + 1
      BY <1>2
  <2> QED
      BY <1>2, <2>1 DEF Increasing
<1> QED
    BY <1>3, <1>4 DEF Events

\* What was received stands before the batch, and the batch before the buffer.
InOrder ==
    /\ Increasing(buffer) /\ Increasing(batch) /\ ReceivedInOrder
    /\ \A r \in Events(received), b \in Events(batch) : r <= b
    /\ \A r \in Events(received) \cup Events(batch), b \in Events(buffer) : r < b

\* The POSTs that failed pay for what was given up and for this event's attempts.
PaidFor == badPosts >= MaxRetries * Cardinality(givenUp) + attempt

\* The loop leaves room in the batch while it collects; it drains only when it
\* was stopped, and what is left when it has drained came after Stop.
LoopKeeps ==
    /\ mode \in {"collect", "drain"} => Len(batch) < AuBatch
    /\ stopAt # NotStopped => stopAt <= emitted
    /\ mode \in {"drain", "drainFlush", "lastFlush", "stopped"} => stopAt # NotStopped
    /\ mode \in {"lastFlush", "stopped"} => \A e \in Events(buffer) : e > stopAt
    /\ mode = "stopped" => batch = <<>>

\* What was given up stands before the batch and the buffer.
GivenUpBefore == \A g \in givenUp, b \in Events(batch) \cup Events(buffer) : g < b

AuInv == AuTypeOK /\ LossBounded /\ InOrder /\ PaidFor /\ LoopKeeps /\ GivenUpBefore

LEMMA AuInvImplies == AuInv => EventsAccounted
<1> SUFFICES ASSUME AuInv PROVE EventsAccounted
    OBVIOUS
<1>1. IsFiniteSet(givenUp)
  <2>1. emitted \in Nat /\ givenUp \in SUBSET (1 .. emitted)
      BY AuditAssumption DEF AuInv, AuTypeOK
  <2>2. IsFiniteSet(1 .. emitted)
      BY <2>1, FS_Interval
  <2> QED
      BY <2>1, <2>2, FS_Subset
<1>2. Cardinality(givenUp) \in Nat /\ MaxRetries \in Nat /\ attempt \in Nat /\ badPosts \in Nat
    BY <1>1, FS_CardinalityType, AuditAssumption DEF AuInv, AuTypeOK
<1>3. MaxRetries * Cardinality(givenUp) \in Nat
    BY <1>2
<1>4. GivenUpAfterRetries
    BY <1>2, <1>3 DEF GivenUpAfterRetries, AuInv, PaidFor
<1>5. Events(<<>>) = {}
    BY DEF Events
<1> QED
    BY <1>4, <1>5 DEF EventsAccounted, AuInv, InOrder, LoopKeeps, StopDrains

LEMMA AuInitInv == AuInit => AuInv
<1> SUFFICES ASSUME AuInit PROVE AuInv
    OBVIOUS
<1>1. Events(<<>>) = {} /\ 1 .. 0 = {} /\ Cardinality({}) = 0
    BY FS_EmptySet DEF Events
<1>2. AuTypeOK
    BY AuditAssumption DEF AuInit, AuTypeOK, NotStopped
<1>3. LossBounded
  <2>1. Lost = {} /\ givenUp = {}
      BY <1>1 DEF AuInit, Lost
  <2> QED
      BY <1>1, <2>1, AuditAssumption DEF LossBounded
<1>4. InOrder
    BY <1>1 DEF AuInit, InOrder, Increasing, ReceivedInOrder
<1>5. PaidFor
    BY <1>1, AuditAssumption DEF AuInit, PaidFor
<1>6. LoopKeeps /\ GivenUpBefore
    BY AuditAssumption DEF AuInit, LoopKeeps, GivenUpBefore, NotStopped
<1> QED
    BY <1>2, <1>3, <1>4, <1>5, <1>6 DEF AuInv

\* What the invariant says of the types, spelled out for the actions.
LEMMA AuCounts ==
    ASSUME AuInv
    PROVE  /\ emitted \in Nat /\ emitted <= MaxAudits /\ MaxAudits \in Nat
           /\ attempt \in Nat /\ attempt <= MaxRetries - 1
           /\ badPosts \in Nat /\ badPosts <= MaxBadPosts
           /\ stopAt \in Nat /\ stopAt <= NotStopped /\ NotStopped = MaxAudits + 1
           /\ MaxRetries \in Nat \ {0} /\ AuBatch \in Nat \ {0} /\ BufferSize \in Nat \ {0}
           /\ MaxBadPosts \in Nat
           /\ mode \in {"collect", "flush", "drain", "drainFlush", "lastFlush", "stopped"}
    BY AuditAssumption DEF AuInv, AuTypeOK, NotStopped

LEMMA AuSequences ==
    ASSUME AuInv
    PROVE  /\ buffer \in Seq(1 .. emitted) /\ Len(buffer) <= BufferSize /\ Len(buffer) \in Nat
           /\ batch \in Seq(1 .. emitted) /\ Len(batch) <= AuBatch /\ Len(batch) \in Nat
           /\ received \in Seq(1 .. emitted)
<1>1. buffer \in Seq(1 .. emitted) /\ batch \in Seq(1 .. emitted)
    BY DEF AuInv, AuTypeOK
<1> QED
    BY <1>1 DEF AuInv, AuTypeOK

LEMMA AuEvents ==
    ASSUME AuInv
    PROVE  /\ givenUp \cup droppedEvents \subseteq 1 .. emitted
           /\ Events(buffer) \cup Events(batch) \cup Events(received) \subseteq 1 .. emitted
           /\ IsFiniteSet(givenUp) /\ Cardinality(givenUp) \in Nat
<1>1. IsFiniteSet(1 .. emitted) /\ givenUp \in SUBSET (1 .. emitted)
    BY AuCounts, FS_Interval DEF AuInv, AuTypeOK
<1>2. IsFiniteSet(givenUp) /\ Cardinality(givenUp) \in Nat
    BY <1>1, FS_Subset, FS_CardinalityType
<1>3. Events(buffer) \cup Events(batch) \cup Events(received) \subseteq 1 .. emitted
    BY AuSequences, EventsInSeq
<1> QED
    BY <1>2, <1>3 DEF AuInv, AuTypeOK

\* The loss keeps its bound while nothing more is lost and nothing given up.
LEMMA LossStays ==
    ASSUME AuInv, givenUp' = givenUp, Lost' \subseteq Lost
    PROVE  LossBounded'
<1>1. IsFiniteSet(Lost)
  <2>1. Lost \in SUBSET (1 .. emitted) /\ IsFiniteSet(1 .. emitted)
      BY AuCounts, FS_Interval DEF Lost
  <2> QED
      BY <2>1, FS_Subset
<1>2. Cardinality(Lost') <= Cardinality(Lost) /\ Cardinality(Lost') \in Nat
      /\ Cardinality(Lost) \in Nat
    BY <1>1, FS_Subset, FS_CardinalityType
<1> DEFINE most == (AuBatch - 1) * Cardinality(givenUp)
<1>3. most \in Nat /\ Cardinality(Lost) <= most
  <2>1. AuBatch - 1 \in Nat
      BY AuCounts
  <2> QED
      BY <2>1, AuEvents DEF AuInv, LossBounded
<1>4. \A e \in Lost' : \E g \in givenUp' : g < e
    BY DEF AuInv, LossBounded
<1>5. LossBounded' <=> (\A e \in Lost' : \E g \in givenUp' : g < e) /\ Cardinality(Lost') <= most
    BY DEF LossBounded
<1> HIDE DEF most
<1> QED
    BY <1>2, <1>3, <1>4, <1>5

\* What was paid for stays paid for.
LEMMA PaidStays ==
    ASSUME AuInv, givenUp' = givenUp, badPosts' \in Nat,
           \/ attempt' = 0 /\ badPosts' >= badPosts
           \/ attempt' = attempt /\ badPosts' = badPosts
           \/ attempt' = attempt + 1 /\ badPosts' = badPosts + 1
    PROVE  PaidFor'
<1> DEFINE price == MaxRetries * Cardinality(givenUp)
<1>1. price \in Nat /\ badPosts >= price + attempt /\ badPosts \in Nat /\ attempt \in Nat
    BY AuCounts, AuEvents DEF AuInv, PaidFor
<1>2. PaidFor' <=> badPosts' >= price + attempt'
    BY DEF PaidFor
<1> HIDE DEF price
<1>3. badPosts' >= price + attempt'
  <2>1. CASE attempt' = 0 /\ badPosts' >= badPosts
      BY <1>1, <2>1
  <2>2. CASE attempt' = attempt /\ badPosts' = badPosts
      BY <1>1, <2>2
  <2>3. CASE attempt' = attempt + 1 /\ badPosts' = badPosts + 1
      BY <1>1, <2>3
  <2> QED
      BY <2>1, <2>2, <2>3
<1> QED
    BY <1>2, <1>3

LEMMA EmitInv == AuInv /\ Emit => AuInv'
<1> SUFFICES ASSUME AuInv, Emit PROVE AuInv'
    OBVIOUS
<1> DEFINE e == emitted + 1
<1>1. /\ emitted < MaxAudits /\ emitted' = e
      /\ UNCHANGED <<batch, attempt, mode, stopAt, received, givenUp, badPosts>>
      /\ \/ buffer' = Append(buffer, e) /\ droppedEvents' = droppedEvents /\ Len(buffer) < BufferSize
         \/ buffer' = buffer /\ droppedEvents' = droppedEvents \cup {e}
    BY DEF Emit
<1>2. e \in Nat /\ 1 .. e = (1 .. emitted) \cup {e} /\ e \in 1 .. e
    BY AuCounts
<1>0. e <= MaxAudits /\ \A x \in 1 .. emitted : x < e
    BY <1>1, AuCounts
<1> HIDE DEF e
<1>3. buffer \in Seq(1 .. e) /\ batch \in Seq(1 .. e) /\ received \in Seq(1 .. e)
  <2>1. \A S, T : S \subseteq T => Seq(S) \subseteq Seq(T)
      BY SeqMonotonic
  <2> QED
      BY <1>2, <2>1, AuSequences
<1>4. AuTypeOK'
  <2>1. buffer' \in Seq(1 .. e) /\ Len(buffer') <= BufferSize
    <3>1. CASE buffer' = buffer
        BY <1>3, <3>1, AuSequences
    <3>2. CASE buffer' = Append(buffer, e) /\ Len(buffer) < BufferSize
      <4>1. Append(buffer, e) \in Seq(1 .. e) /\ Len(Append(buffer, e)) = Len(buffer) + 1
          BY <1>2, <1>3
      <4> QED
          BY <3>2, <4>1, AuSequences, AuCounts
    <3> QED
        BY <1>1, <3>1, <3>2
  <2>2. givenUp' \cup droppedEvents' \subseteq 1 .. e
      BY <1>1, <1>2, AuEvents
  <2>3. AuTypeOK
      BY DEF AuInv
  <2> QED
      BY <1>0, <1>1, <1>2, <1>3, <2>1, <2>2, <2>3, AuCounts DEF AuTypeOK
<1>5. \/ Events(buffer') = Events(buffer) \cup {e} /\ droppedEvents' = droppedEvents
      \/ Events(buffer') = Events(buffer) /\ droppedEvents' = droppedEvents \cup {e}
  <2>2. Events(Append(buffer, e)) = Events(buffer) \cup {e}
      BY <1>2, <1>3, AppendedIn
  <2> QED
      BY <1>1, <2>2
<1>6. LossBounded'
  <2>1. Lost' \subseteq Lost
      BY <1>1, <1>2, <1>5 DEF Lost
  <2> QED
      BY <1>1, <2>1, LossStays
<1>8. InOrder'
  <2>1. Increasing(buffer')
    <3>1. Increasing(Append(buffer, e))
        BY <1>0, <1>2, AuSequences, AuEvents, AuCounts, AppendIncreases DEF AuInv, InOrder
    <3> QED
        BY <1>1, <3>1 DEF AuInv, InOrder
  <2>2. \A r \in Events(received) \cup Events(batch), b \in Events(buffer') : r < b
      BY <1>0, <1>5, AuEvents DEF AuInv, InOrder
  <2> QED
      BY <1>1, <2>1, <2>2 DEF AuInv, InOrder, ReceivedInOrder
<1>9. PaidFor' /\ GivenUpBefore'
  <2>1. \A g \in givenUp : g < e
      BY <1>0, AuEvents
  <2> QED
      BY <1>1, <1>5, <2>1 DEF AuInv, PaidFor, GivenUpBefore
<1>10. LoopKeeps'
  <2>1. stopAt # NotStopped => e > stopAt /\ stopAt <= e
      BY AuCounts DEF AuInv, LoopKeeps, e
  <2> QED
      BY <1>1, <1>5, <2>1 DEF AuInv, LoopKeeps
<1> QED
    BY <1>4, <1>6, <1>8, <1>9, <1>10 DEF AuInv

\* The loop moves on: nothing is sent, nothing lost.
LEMMA TurnInv == AuInv /\ (Stop \/ FlushTick \/ SeeStop \/ Drained \/ UNCHANGED auVars) => AuInv'
<1> SUFFICES ASSUME AuInv, Stop \/ FlushTick \/ SeeStop \/ Drained \/ UNCHANGED auVars
             PROVE  AuInv'
    OBVIOUS
<1>1. /\ UNCHANGED <<emitted, buffer, batch, received, givenUp, droppedEvents, badPosts>>
      /\ attempt' \in {0, attempt}
    BY DEF Stop, FlushTick, SeeStop, Drained, auVars
<1>2. LossBounded' /\ InOrder' /\ GivenUpBefore'
    BY <1>1 DEF AuInv, LossBounded, Lost, InOrder, ReceivedInOrder, GivenUpBefore
<1>3. PaidFor'
    BY <1>1, PaidStays, AuCounts
<1>4. stopAt' \in 0 .. NotStopped
      /\ mode' \in {"collect", "flush", "drain", "drainFlush", "lastFlush", "stopped"}
    BY AuCounts, AuSequences, AuEvents DEF Stop, FlushTick, SeeStop, Drained, auVars
<1>5. AuTypeOK'
  <2>1. AuTypeOK /\ attempt' \in 0 .. MaxRetries - 1
      BY <1>1, AuCounts DEF AuInv
  <2> QED
      BY <1>1, <1>4, <2>1 DEF AuTypeOK
<1>6. LoopKeeps'
  <2>1. CASE Stop
      BY <2>1, AuCounts, AuSequences, AuEvents DEF Stop, AuInv, LoopKeeps
  <2>2. CASE FlushTick \/ SeeStop
      BY <2>2, AuCounts, AuSequences, AuEvents DEF FlushTick, SeeStop, AuInv, LoopKeeps
  <2>3. CASE Drained
    <3>1. \A x \in Events(<<>>) : FALSE
        BY DEF Events
    <3> QED
        BY <2>3, <3>1, AuCounts, AuSequences, AuEvents DEF Drained, AuInv, LoopKeeps
  <2>4. CASE UNCHANGED auVars
      BY <2>4 DEF auVars, AuInv, LoopKeeps
  <2> QED
      BY <2>1, <2>2, <2>3, <2>4
<1> QED
    BY <1>2, <1>3, <1>5, <1>6 DEF AuInv

LEMMA CollectInv == AuInv /\ Collect => AuInv'
<1> SUFFICES ASSUME AuInv, Collect PROVE AuInv'
    OBVIOUS
<1> DEFINE e == Head(buffer)
<1>1. /\ mode \in {"collect", "drain"} /\ buffer # <<>> /\ attempt' = 0
      /\ buffer' = Tail(buffer) /\ batch' = Append(batch, e)
      /\ mode' = IF Len(batch) + 1 >= AuBatch
                 THEN IF mode = "collect" THEN "flush" ELSE "drainFlush" ELSE mode
      /\ UNCHANGED <<emitted, stopAt, received, givenUp, droppedEvents, badPosts>>
    BY DEF Collect, Flushing
<1>2. /\ Events(buffer) = Events(buffer') \cup {e} /\ e \in Events(buffer)
      /\ e \in 1 .. emitted /\ buffer' \in Seq(1 .. emitted) /\ Len(buffer') = Len(buffer) - 1
      /\ Len(buffer) \in Nat \ {0}
      /\ Increasing(buffer') /\ \A x \in Events(buffer') : e < x
    BY <1>1, AuCounts, AuSequences, AuEvents, TakenEvents, TailIncreases DEF AuInv, InOrder
<1> HIDE DEF e
<1>3. /\ Events(batch') = Events(batch) \cup {e} /\ batch' \in Seq(1 .. emitted)
      /\ Len(batch') = Len(batch) + 1 /\ Len(batch) \in Nat
  <2>1. /\ Events(Append(batch, e)) = Events(batch) \cup {e}
        /\ Append(batch, e) \in Seq(1 .. emitted) /\ Len(Append(batch, e)) = Len(batch) + 1
      BY <1>2, AuSequences, AppendedIn
  <2> QED
      BY <1>1, <2>1, AuSequences
<1>4. Len(batch) < AuBatch
    BY <1>1 DEF AuInv, LoopKeeps
<1>5. AuTypeOK'
  <2>1. Len(batch') <= AuBatch /\ Len(buffer') <= BufferSize
    <3>1. Len(buffer) <= BufferSize /\ BufferSize \in Nat /\ AuBatch \in Nat
        BY AuSequences, AuCounts
    <3> QED
        BY <1>2, <1>3, <1>4, <3>1
  <2>2. AuTypeOK
      BY DEF AuInv
  <2>3. 0 \in 0 .. MaxRetries - 1
      BY AuCounts
  <2>4. mode' \in {"collect", "flush", "drain", "drainFlush", "lastFlush", "stopped"}
      BY <1>1
  <2> QED
      BY <1>1, <1>2, <1>3, <2>1, <2>2, <2>3, <2>4 DEF AuTypeOK
<1>6. LossBounded' /\ GivenUpBefore'
  <2>1. Lost' \subseteq Lost
      BY <1>1, <1>2, <1>3 DEF Lost
  <2>2. GivenUpBefore'
      BY <1>1, <1>2, <1>3 DEF AuInv, GivenUpBefore
  <2> QED
      BY <1>1, <2>1, <2>2, LossStays
<1>7. InOrder'
  <2>1. Increasing(batch')
    <3>1. \A x \in Events(batch) : x < e
        BY <1>2 DEF AuInv, InOrder
    <3> QED
      <4>1. emitted \in Nat /\ batch \in Seq(1 .. emitted) /\ e \in Nat /\ Increasing(batch)
          BY <1>2, AuSequences, AuCounts DEF AuInv, InOrder
      <4> QED
          BY <1>1, <3>1, <4>1, AppendIncreases
  <2>2. \A r \in Events(received), b \in Events(batch') : r <= b
    <3>1. \A r \in Events(received) : r < e /\ r \in Int /\ e \in Int
        BY <1>2, AuCounts, AuSequences, AuEvents DEF AuInv, InOrder
    <3> QED
        BY <1>3, <3>1 DEF AuInv, InOrder
  <2>3. \A r \in Events(received) \cup Events(batch'), b \in Events(buffer') : r < b
      BY <1>2, <1>3 DEF AuInv, InOrder
  <2> QED
      BY <1>1, <1>2, <2>1, <2>2, <2>3 DEF AuInv, InOrder, ReceivedInOrder
<1>8. PaidFor'
    BY <1>1, PaidStays, AuCounts
<1>9. LoopKeeps'
  <2>1. mode' \in {"collect", "drain"} => Len(batch') < AuBatch
      BY <1>1, <1>3, AuCounts
  <2>2. mode' \in {"drain", "drainFlush"} => mode = "drain"
      BY <1>1
  <2> QED
      BY <1>1, <2>1, <2>2 DEF AuInv, LoopKeeps
<1> QED
    BY <1>5, <1>6, <1>7, <1>8, <1>9 DEF AuInv

\* The first event of the batch leaves it, the batch keeps its order.
LEMMA FirstOfBatch ==
    ASSUME AuInv, InFlush
    PROVE  /\ mode \in {"flush", "drainFlush", "lastFlush"} /\ batch # <<>>
           /\ Events(batch) = Events(Tail(batch)) \cup {Head(batch)}
           /\ Head(batch) \in 1 .. emitted /\ Head(batch) \in Events(batch)
           /\ Tail(batch) \in Seq(1 .. emitted)
           /\ Len(Tail(batch)) = Len(batch) - 1 /\ Len(batch) \in Nat \ {0}
           /\ Increasing(Tail(batch)) /\ \A x \in Events(Tail(batch)) : Head(batch) < x
           /\ mode = "lastFlush" <=> AfterFlush = "stopped"
           /\ AfterFlush \in {"collect", "drain", "stopped"}
           /\ AfterFlush = "drain" => mode = "drainFlush"
    BY AuSequences, AuCounts, TakenEvents, TailIncreases DEF AuInv, InOrder, InFlush, AfterFlush

\* The audit log gets the first event of the batch, once more perhaps.
LEMMA ReceiveFirst ==
    ASSUME AuInv, InFlush, received' \in {received, Append(received, Head(batch))}
    PROVE  /\ received' \in Seq(1 .. emitted)
           /\ ReceivedInOrder'
           /\ Events(received) \subseteq Events(received')
           /\ Events(received') \subseteq Events(received) \cup {Head(batch)}
           /\ received' = Append(received, Head(batch)) => Head(batch) \in Events(received')
<1>1. Head(batch) \in 1 .. emitted /\ Head(batch) \in Events(batch) /\ received \in Seq(1 .. emitted)
    BY FirstOfBatch, AuCounts, AuSequences, AuEvents
<1>2. CASE received' = received
  <2>1. received' = Append(received, Head(batch)) => Len(received) = Len(received) + 1
      BY <1>1, <1>2
  <2>2. Len(received) \in Nat
      BY <1>1
  <2> QED
      BY <1>1, <1>2, <2>1, <2>2 DEF AuInv, InOrder, ReceivedInOrder
<1>3. CASE received' = Append(received, Head(batch))
  <2>1. /\ Events(received') = Events(received) \cup {Head(batch)}
        /\ received' \in Seq(1 .. emitted)
    <3>1. /\ Events(Append(received, Head(batch))) = Events(received) \cup {Head(batch)}
          /\ Append(received, Head(batch)) \in Seq(1 .. emitted)
        BY <1>1, AppendedIn
    <3> QED
        BY <1>3, <3>1
  <2>2. \A i \in DOMAIN received : received[i] <= Head(batch)
      BY <1>1 DEF AuInv, InOrder, Events
  <2>3. /\ DOMAIN received = 1 .. Len(received) /\ DOMAIN received' = 1 .. Len(received) + 1
        /\ Len(received) \in Nat
        /\ \A i \in 1 .. Len(received) : received'[i] = received[i]
        /\ received'[Len(received) + 1] = Head(batch)
      BY <1>1, <1>3
  <2>4. ReceivedInOrder'
    <3> SUFFICES ASSUME NEW i \in DOMAIN received', NEW j \in DOMAIN received', i < j
                 PROVE  received'[i] <= received'[j]
        BY DEF ReceivedInOrder
    <3>1. CASE j = Len(received) + 1
        BY <2>2, <2>3, <3>1
    <3>2. CASE j # Len(received) + 1
        BY <2>3, <3>2 DEF AuInv, InOrder, ReceivedInOrder
    <3> QED
        BY <3>1, <3>2
  <2> QED
      BY <2>1, <2>4
<1> QED
    BY <1>2, <1>3

LEMMA PostOkInv == AuInv /\ PostOk => AuInv'
<1> SUFFICES ASSUME AuInv, PostOk PROVE AuInv'
    OBVIOUS
<1> DEFINE e == Head(batch)
<1>1. /\ InFlush /\ received' = Append(received, e) /\ batch' = Tail(batch) /\ attempt' = 0
      /\ mode' = IF Len(batch) = 1 THEN AfterFlush ELSE mode
      /\ UNCHANGED <<emitted, buffer, stopAt, givenUp, droppedEvents, badPosts>>
    BY DEF PostOk
<1>2. /\ Events(batch) = Events(batch') \cup {e} /\ e \in 1 .. emitted
      /\ batch' \in Seq(1 .. emitted) /\ Len(batch') = Len(batch) - 1 /\ Len(batch) \in Nat \ {0}
      /\ Increasing(batch') /\ \A x \in Events(batch') : e < x
    BY <1>1, FirstOfBatch
<1>3. received' \in Seq(1 .. emitted) /\ ReceivedInOrder'
      /\ Events(received') = Events(received) \cup {e}
    BY <1>1, ReceiveFirst
<1>4. /\ mode \in {"flush", "drainFlush", "lastFlush"}
      /\ mode' = mode \/ (Len(batch) = 1 /\ mode' = AfterFlush)
      /\ mode = "lastFlush" <=> AfterFlush = "stopped"
      /\ AfterFlush \in {"collect", "drain", "stopped"}
      /\ AfterFlush = "drain" => mode = "drainFlush"
    BY <1>1, FirstOfBatch
<1> HIDE DEF e
<1>5. AuTypeOK'
  <2>1. Len(batch') <= AuBatch
      BY <1>2, AuSequences, AuCounts
  <2>2. AuTypeOK
      BY DEF AuInv
  <2>3. 0 \in 0 .. MaxRetries - 1
      BY AuCounts
  <2>4. mode' \in {"collect", "flush", "drain", "drainFlush", "lastFlush", "stopped"}
      BY <1>4
  <2> QED
      BY <1>1, <1>2, <1>3, <2>1, <2>2, <2>3, <2>4 DEF AuTypeOK
<1>6. LossBounded' /\ GivenUpBefore'
  <2>1. Lost' \subseteq Lost
      BY <1>1, <1>2, <1>3 DEF Lost
  <2>2. GivenUpBefore'
      BY <1>1, <1>2 DEF AuInv, GivenUpBefore
  <2> QED
      BY <1>1, <2>1, <2>2, LossStays
<1>7. InOrder'
  <2>1. \A r \in Events(received'), b \in Events(batch') : r <= b
    <3>1. \A b \in Events(batch') : e <= b /\ b \in Events(batch)
      <4>1. \A b \in Events(batch') : b \in Int /\ e < b /\ b \in Events(batch)
          BY <1>2, AuEvents
      <4> QED
          BY <1>2, <4>1
    <3> QED
        BY <1>3, <3>1 DEF AuInv, InOrder
  <2>2. \A r \in Events(received') \cup Events(batch'), b \in Events(buffer) : r < b
      BY <1>2, <1>3 DEF AuInv, InOrder
  <2> QED
      BY <1>1, <1>2, <1>3, <2>1, <2>2 DEF AuInv, InOrder
<1>8. PaidFor'
    BY <1>1, PaidStays, AuCounts
<1>9. LoopKeeps'
  <2>1. Len(batch) = 1 => batch' = <<>>
      BY <1>2
  <2>2. Len(batch') < AuBatch
      BY <1>2, AuSequences, AuCounts
  <2>3. CASE mode' = mode
      BY <1>1, <1>4, <2>2, <2>3 DEF AuInv, LoopKeeps
  <2>4. CASE Len(batch) = 1 /\ mode' = AfterFlush
      BY <1>1, <1>4, <2>1, <2>2, <2>4 DEF AuInv, LoopKeeps
  <2> QED
      BY <1>4, <2>3, <2>4
<1> QED
    BY <1>5, <1>6, <1>7, <1>8, <1>9 DEF AuInv

LEMMA PostFailsInv == AuInv /\ PostFails => AuInv'
<1> SUFFICES ASSUME AuInv, PostFails PROVE AuInv'
    OBVIOUS
<1> DEFINE e == Head(batch)
<1>1. /\ InFlush /\ badPosts < MaxBadPosts /\ badPosts' = badPosts + 1
      /\ received' \in {received, Append(received, e)}
      /\ UNCHANGED <<emitted, buffer, stopAt, droppedEvents>>
    BY DEF PostFails
<1>2. /\ Events(batch) = Events(Tail(batch)) \cup {e} /\ e \in 1 .. emitted
      /\ \A x \in Events(Tail(batch)) : e < x
      /\ mode \in {"flush", "drainFlush", "lastFlush"}
      /\ mode = "lastFlush" <=> AfterFlush = "stopped"
      /\ AfterFlush \in {"collect", "drain", "stopped"}
      /\ AfterFlush = "drain" => mode = "drainFlush"
    BY <1>1, FirstOfBatch
<1>3. /\ received' \in Seq(1 .. emitted) /\ ReceivedInOrder'
      /\ Events(received) \subseteq Events(received')
      /\ Events(received') \subseteq Events(received) \cup {e}
    BY <1>1, ReceiveFirst
<1>4. badPosts' \in 0 .. MaxBadPosts /\ badPosts' \in Nat
    BY <1>1, AuCounts
<1>5. CASE LastAttempt
  <2>1. /\ givenUp' = givenUp \cup {e} /\ batch' = <<>> /\ attempt' = 0 /\ mode' = AfterFlush
      BY <1>5 DEF PostFails
  <2>2. Events(batch') = {}
      BY <2>1 DEF Events
  <2> HIDE DEF e
  <2>3. givenUp' \cup droppedEvents' \subseteq 1 .. emitted
      BY <1>1, <1>2, <2>1, AuEvents
  <2>4. AuTypeOK'
    <3>1. AuTypeOK
        BY DEF AuInv
    <3>2. 0 \in 0 .. MaxRetries - 1 /\ <<>> \in Seq(1 .. emitted) /\ Len(<<>>) <= AuBatch
        BY AuCounts
    <3>3. mode' \in {"collect", "flush", "drain", "drainFlush", "lastFlush", "stopped"}
        BY <1>2, <2>1
    <3> QED
        BY <1>1, <1>3, <1>4, <2>1, <2>3, <3>1, <3>2, <3>3 DEF AuTypeOK
  <2>5. LossBounded'
    <3>1. Lost' \subseteq Lost \cup Events(Tail(batch))
        BY <1>1, <1>2, <1>3, <2>1, <2>2 DEF Lost
    <3>2. \A x \in Lost' : \E g \in givenUp' : g < x
        BY <1>2, <2>1, <3>1 DEF AuInv, LossBounded
    <3>3. /\ IsFiniteSet(Lost) /\ IsFiniteSet(Events(Tail(batch)))
          /\ Cardinality(Events(Tail(batch))) <= AuBatch - 1
      <4>1. IsFiniteSet(Lost)
        <5>1. Lost \in SUBSET (1 .. emitted) /\ IsFiniteSet(1 .. emitted)
            BY AuCounts, FS_Interval DEF Lost
        <5> QED
            BY <5>1, FS_Subset
      <4>2. /\ Tail(batch) \in Seq(1 .. emitted) /\ Len(Tail(batch)) = Len(batch) - 1
            /\ Len(batch) \in Nat /\ Len(batch) <= AuBatch /\ AuBatch \in Nat
          BY <1>1, FirstOfBatch, AuSequences, AuCounts
      <4>3. /\ IsFiniteSet(Events(Tail(batch)))
            /\ Cardinality(Events(Tail(batch))) <= Len(Tail(batch))
          BY <4>2, EventsCount
      <4>4. Cardinality(Events(Tail(batch))) \in Nat
          BY <4>3, FS_CardinalityType
      <4> QED
          BY <4>1, <4>2, <4>3, <4>4
    <3>4. /\ Cardinality(Lost') \in Nat /\ Cardinality(Lost) \in Nat
          /\ Cardinality(Lost') <= Cardinality(Lost) + (AuBatch - 1)
      <4> DEFINE sum == Lost \cup Events(Tail(batch))
      <4>1. /\ IsFiniteSet(sum)
            /\ Cardinality(sum) = Cardinality(Lost) + Cardinality(Events(Tail(batch)))
                                   - Cardinality(Lost \cap Events(Tail(batch)))
          BY <3>3, FS_Union
      <4>2. IsFiniteSet(Lost \cap Events(Tail(batch)))
          BY <3>3, FS_Intersection
      <4>3. /\ Cardinality(Lost) \in Nat /\ Cardinality(Events(Tail(batch))) \in Nat
            /\ Cardinality(Lost \cap Events(Tail(batch))) \in Nat /\ Cardinality(sum) \in Nat
          BY <3>3, <4>1, <4>2, FS_CardinalityType
      <4>4. IsFiniteSet(Lost') /\ Cardinality(Lost') <= Cardinality(sum)
          BY <3>1, <4>1, FS_Subset
      <4>5. Cardinality(Lost') \in Nat
          BY <4>4, FS_CardinalityType
      <4> HIDE DEF sum
      <4> QED
          BY <3>3, <4>1, <4>3, <4>4, <4>5, AuCounts
    <3>5. Cardinality(givenUp') = Cardinality(givenUp) + 1 /\ Cardinality(givenUp) \in Nat
      <4>1. e \notin givenUp
        <5>1. e \in Events(batch) /\ e \in Int
            BY <1>2, AuCounts
        <5>2. e \in givenUp => e < e
            BY <5>1 DEF AuInv, GivenUpBefore
        <5> QED
            BY <5>1, <5>2
      <4> QED
          BY <2>1, <4>1, AuEvents, FS_AddElement
    <3> DEFINE k == AuBatch - 1
               n == Cardinality(givenUp)
               old == k * n
               new == k * (n + 1)
    <3>6. k \in Nat /\ n \in Nat /\ old \in Nat /\ new \in Nat /\ new = old + k
      <4>1. k \in Nat /\ n \in Nat
          BY <3>5, AuCounts
      <4> HIDE DEF k, n
      <4> QED
          BY <4>1
    <3>7. Cardinality(Lost) <= old
        BY DEF AuInv, LossBounded
    <3>8. LossBounded' <=> (\A x \in Lost' : \E g \in givenUp' : g < x)
                           /\ Cardinality(Lost') <= new
        BY <3>5 DEF LossBounded
    <3>9. Cardinality(Lost') <= Cardinality(Lost) + k
        BY <3>4
    <3> HIDE DEF k, n, old, new
    <3> QED
        BY <3>2, <3>4, <3>6, <3>7, <3>8, <3>9
  <2>6. InOrder'
    <3>1. Increasing(batch')
        BY <2>1 DEF Increasing
    <3>2. \A r \in Events(received'), b \in Events(buffer) : r < b
        BY <1>2, <1>3 DEF AuInv, InOrder
    <3> QED
        BY <1>1, <1>3, <2>2, <3>1, <3>2 DEF AuInv, InOrder
  <2>7. PaidFor'
    <3>1. /\ Cardinality(givenUp') \in Nat
          /\ Cardinality(givenUp') <= Cardinality(givenUp) + 1
      <4>1. /\ IsFiniteSet(givenUp')
            /\ Cardinality(givenUp') = IF e \in givenUp THEN Cardinality(givenUp)
                                       ELSE Cardinality(givenUp) + 1
          BY <2>1, AuEvents, FS_AddElement
      <4> QED
          BY <4>1, AuEvents
    <3>2. attempt + 1 >= MaxRetries
        BY <1>5 DEF LastAttempt
    <3>3. /\ MaxRetries * Cardinality(givenUp') <= MaxRetries * Cardinality(givenUp) + MaxRetries
          /\ MaxRetries * Cardinality(givenUp') \in Nat
          /\ MaxRetries * Cardinality(givenUp) \in Nat
      <4>1. ASSUME NEW m \in Nat, NEW c \in Nat, NEW d \in Nat, d <= c + 1
            PROVE  m * d <= m * c + m /\ m * d \in Nat /\ m * c \in Nat
          BY <4>1, MulMonotone
      <4> QED
          BY <3>1, <4>1, AuCounts, AuEvents
    <3> DEFINE old == MaxRetries * Cardinality(givenUp)
               new == MaxRetries * Cardinality(givenUp')
    <3>4. badPosts >= old + attempt /\ (PaidFor' <=> badPosts' >= new + attempt')
        BY DEF AuInv, PaidFor
    <3>5. new <= old + MaxRetries /\ new \in Nat /\ old \in Nat
        BY <3>3
    <3> HIDE DEF old, new
    <3> QED
      <4>1. badPosts' = badPosts + 1 /\ attempt' = 0 /\ attempt + 1 >= MaxRetries
            /\ badPosts \in Nat /\ attempt \in Nat /\ MaxRetries \in Nat
          BY <1>1, <2>1, <3>2, AuCounts
      <4>2. badPosts' >= new + attempt'
          BY <3>4, <3>5, <4>1
      <4> QED
          BY <3>4, <4>2
  <2>8. LoopKeeps'
    <3>1. Len(<<>>) < AuBatch
        BY AuCounts
    <3> QED
        BY <1>1, <1>2, <2>1, <3>1 DEF AuInv, LoopKeeps
  <2>9. GivenUpBefore'
    <3>1. e \in Events(batch)
        BY <1>2
    <3> QED
        BY <1>1, <2>1, <2>2, <3>1 DEF AuInv, GivenUpBefore, InOrder
  <2> QED
      BY <2>4, <2>5, <2>6, <2>7, <2>8, <2>9 DEF AuInv
<1>6. CASE ~LastAttempt
  <2>1. attempt' = attempt + 1 /\ UNCHANGED <<batch, mode, givenUp>>
      BY <1>6 DEF PostFails
  <2>2. attempt + 1 \in 0 .. MaxRetries - 1
      BY <1>6, AuCounts DEF LastAttempt
  <2> HIDE DEF e
  <2>3. AuTypeOK'
    <3>1. AuTypeOK
        BY DEF AuInv
    <3> QED
        BY <1>1, <1>3, <1>4, <2>1, <2>2, <3>1 DEF AuTypeOK
  <2>4. LossBounded'
    <3>1. Lost' \subseteq Lost
        BY <1>1, <1>3, <2>1 DEF Lost
    <3> QED
        BY <2>1, <3>1, LossStays
  <2>5. InOrder'
    <3>1. \A x \in Events(Tail(batch)) : x \in Int
        BY <1>2, AuEvents
    <3>2. /\ e \in Events(batch) /\ e \in Int
          /\ \A b \in Events(batch) : e <= b
        BY <1>2, <3>1
    <3> QED
        BY <1>1, <1>3, <2>1, <3>2 DEF AuInv, InOrder
  <2>6. PaidFor'
      BY <1>1, <1>4, <2>1, PaidStays
  <2>7. LoopKeeps' /\ GivenUpBefore'
      BY <1>1, <2>1 DEF AuInv, LoopKeeps, GivenUpBefore
  <2> QED
      BY <2>3, <2>4, <2>5, <2>6, <2>7 DEF AuInv
<1> QED
    BY <1>5, <1>6

\* auditlog/client.go, Emit, flushLoop, sendBatch and Stop: an event that Emit
\* accepted is lost only behind one that was given up, and each of those takes at
\* most the rest of its batch along; the audit log gets events in order; what is
\* given up was tried MaxRetries times; and Stop leaves nothing behind that came
\* before it.
THEOREM AuditAccountsForEvents == AuSpec => []EventsAccounted
<1>1. AuInv /\ [AuNext]_auVars => AuInv'
    BY EmitInv, TurnInv, CollectInv, PostOkInv, PostFailsInv DEF AuNext, AuLoop
<1> QED
    BY <1>1, AuInitInv, AuInvImplies, PTL DEF AuSpec

-------------------------------------------------------------------------------
(* The traffic replayer: the counters add up.                              *)

\* Submits that have offered no copy yet.
Begun == {s \in Submitter : todo[s] = Multiplier}

\* The copies that Submits have still to offer.
ToOffer == {p \in Submitter \X (1 .. Multiplier) : p[2] <= todo[p[1]]}

\* Nothing is counted twice: copies still to offer are not in the counters.
OffersPaid == queuedCopies + cutShort + Cardinality(ToOffer) <= submitted * Multiplier

RpFinite == IsFiniteSet(busy) /\ IsFiniteSet(Begun) /\ IsFiniteSet(ToOffer)

OffersMade == queuedCopies + cutShort >= submitted - Cardinality(Begun)

RpInv == RpTypeOK /\ RpFinite /\ MetricsConserve /\ OffersMade /\ OffersPaid

LEMMA RpCounts ==
    ASSUME RpInv
    PROVE  /\ jobs \in Nat /\ submitted \in Nat /\ okCalls \in Nat /\ failedCalls \in Nat
           /\ skippedEvents \in Nat /\ queuedCopies \in Nat /\ cutShort \in Nat
           /\ Multiplier \in Nat \ {0} /\ todo \in [Submitter -> 0 .. Multiplier]
           /\ Cardinality(busy) \in Nat /\ Cardinality(Begun) \in Nat /\ Cardinality(ToOffer) \in Nat
    BY ReplayAssumption, FS_CardinalityType DEF RpInv, RpTypeOK, RpFinite

LEMMA RpInvImplies == RpInv => CountersAddUp
<1> SUFFICES ASSUME RpInv PROVE CountersAddUp
    OBVIOUS
<1> DEFINE paid == submitted * Multiplier
<1>1. paid \in Nat
    BY RpCounts
<1>2. queuedCopies + cutShort + Cardinality(ToOffer) <= paid
    BY DEF RpInv, OffersPaid
<1> HIDE DEF paid
<1>3. queuedCopies + cutShort <= paid
    BY <1>1, <1>2, RpCounts
<1>4. SubmittedAccounted
    BY <1>3 DEF SubmittedAccounted, RpInv, OffersMade, Begun, paid
<1> QED
    BY <1>4 DEF CountersAddUp, RpInv

LEMMA RpInitInv == RpInit => RpInv
<1> SUFFICES ASSUME RpInit PROVE RpInv
    OBVIOUS
<1>1. RpTypeOK
  <2>1. 0 \in 0 .. Multiplier /\ 0 \in 0 .. JobsCap /\ 0 \in 0 .. MaxSubmits
      BY ReplayAssumption
  <2> QED
      BY <2>1 DEF RpInit, RpTypeOK
<1>2. busy = {} /\ Begun = {}
    BY ReplayAssumption DEF RpInit, Begun
<1>3. ToOffer = {}
  <2>1. \A p \in Submitter \X (1 .. Multiplier) : ~(p[2] <= todo[p[1]])
      BY ReplayAssumption DEF RpInit
  <2> QED
      BY <2>1 DEF ToOffer
<1>4. IsFiniteSet({}) /\ Cardinality({}) = 0
    BY FS_EmptySet
<1>5. MetricsConserve /\ OffersMade
    BY <1>2, <1>4 DEF RpInit, MetricsConserve, OffersMade
<1>6. OffersPaid
    BY <1>3, <1>4, ReplayAssumption DEF RpInit, OffersPaid
<1> QED
    BY <1>1, <1>2, <1>3, <1>4, <1>5, <1>6 DEF RpInv, RpFinite

\* What a Submit has to offer does not change with the others' loops.
LEMMA ToOfferChange ==
    ASSUME RpInv, NEW s \in Submitter, NEW n \in 0 .. Multiplier, todo' = [todo EXCEPT ![s] = n]
    PROVE  /\ ToOffer' = {p \in ToOffer : p[1] # s} \cup ({s} \X (1 .. n))
           /\ \A i \in 1 .. todo[s] : <<s, i>> \in ToOffer
           /\ \A t \in Submitter : t # s => todo'[t] = todo[t]
           /\ todo'[s] = n /\ todo' \in [Submitter -> 0 .. Multiplier]
<1>1. todo \in [Submitter -> 0 .. Multiplier] /\ Multiplier \in Nat
    BY RpCounts
<1>2. /\ \A t \in Submitter : t # s => todo'[t] = todo[t]
      /\ todo'[s] = n /\ todo' \in [Submitter -> 0 .. Multiplier]
    BY <1>1
<1>3. \A i \in 1 .. todo[s] : <<s, i>> \in ToOffer
    BY <1>1 DEF ToOffer
<1>4. ASSUME NEW p
      PROVE  p \in ToOffer' <=> p \in {q \in ToOffer : q[1] # s} \cup ({s} \X (1 .. n))
  <2>1. CASE p \in Submitter \X (1 .. Multiplier)
    <3>1. PICK t \in Submitter, i \in 1 .. Multiplier : p = <<t, i>>
        BY <2>1
    <3>2. p \in ToOffer' <=> i <= todo'[t]
        BY <3>1 DEF ToOffer
    <3>3. p \in ToOffer <=> i <= todo[t]
        BY <3>1 DEF ToOffer
    <3>4. p \in {s} \X (1 .. n) <=> t = s /\ i <= n
        BY <1>1, <3>1
    <3> QED
        BY <1>2, <3>1, <3>2, <3>3, <3>4
  <2>2. CASE p \notin Submitter \X (1 .. Multiplier)
    <3>1. {s} \X (1 .. n) \subseteq Submitter \X (1 .. Multiplier)
        BY <1>1
    <3> QED
        BY <2>2, <3>1 DEF ToOffer
  <2> QED
      BY <2>1, <2>2
<1> QED
    BY <1>2, <1>3, <1>4

LEMMA SubmitInv ==
    ASSUME RpInv, NEW s \in Submitter, Submit(s)
    PROVE  RpInv'
<1>1. /\ todo[s] = 0 /\ submitted < MaxSubmits /\ submitted' = submitted + 1
      /\ todo' = [todo EXCEPT ![s] = Multiplier]
      /\ UNCHANGED <<jobs, busy, okCalls, failedCalls, skippedEvents, queuedCopies, cutShort,
                     jobsClosed, rpPanicked>>
    BY DEF Submit
<1>2. Multiplier \in 0 .. Multiplier /\ Multiplier # 0 /\ Multiplier \in Nat
    BY RpCounts
<1>3. /\ \A t \in Submitter : t # s => todo'[t] = todo[t]
      /\ todo'[s] = Multiplier /\ todo' \in [Submitter -> 0 .. Multiplier]
    BY <1>1, <1>2, ToOfferChange
<1>4. RpTypeOK'
    BY <1>1, <1>3, ReplayAssumption DEF RpInv, RpTypeOK
<1>5. /\ IsFiniteSet(Begun') /\ Cardinality(Begun') = Cardinality(Begun) + 1
  <2>1. Begun' = Begun \cup {s} /\ s \notin Begun
      BY <1>1, <1>2, <1>3 DEF Begun
  <2> QED
      BY <2>1, FS_AddElement DEF RpInv, RpFinite
<1>6. /\ IsFiniteSet(ToOffer') /\ Cardinality(ToOffer') <= Cardinality(ToOffer) + Multiplier
      /\ Cardinality(ToOffer') \in Nat
  <2> DEFINE rest == {p \in ToOffer : p[1] # s}
             more == {s} \X (1 .. Multiplier)
  <2>1. ToOffer' = rest \cup more
      BY <1>1, <1>2, ToOfferChange
  <2>2. IsFiniteSet(rest) /\ Cardinality(rest) <= Cardinality(ToOffer) /\ Cardinality(rest) \in Nat
    <3>1. rest \in SUBSET ToOffer /\ IsFiniteSet(ToOffer)
        BY DEF RpInv, RpFinite
    <3> QED
        BY <3>1, FS_Subset, FS_CardinalityType
  <2>3. IsFiniteSet(more) /\ Cardinality(more) = Multiplier
    <3>1. IsFiniteSet({s}) /\ Cardinality({s}) = 1
        BY FS_Singleton
    <3>2. IsFiniteSet(1 .. Multiplier) /\ Cardinality(1 .. Multiplier) = Multiplier
        BY <1>2, FS_Interval
    <3>3. IsFiniteSet(more) /\ Cardinality(more) = 1 * Multiplier
      <4> DEFINE one == {s}
                 copies == 1 .. Multiplier
      <4>1. IsFiniteSet(one) /\ IsFiniteSet(copies)
          BY <3>1, <3>2
      <4> HIDE DEF one, copies
      <4>2. /\ IsFiniteSet(one \X copies)
            /\ Cardinality(one \X copies) = Cardinality(one) * Cardinality(copies)
          BY <4>1, FS_Product
      <4> QED
          BY <3>1, <3>2, <4>2 DEF one, copies
    <3> QED
        BY <1>2, <3>3
  <2> HIDE DEF rest, more
  <2>4. /\ IsFiniteSet(rest \cup more)
        /\ Cardinality(rest \cup more) = Cardinality(rest) + Cardinality(more)
                                         - Cardinality(rest \cap more)
        /\ Cardinality(rest \cap more) \in Nat
    <3>1. IsFiniteSet(rest \cap more)
        BY <2>2, FS_Intersection
    <3> QED
        BY <2>2, <2>3, <3>1, FS_Union, FS_CardinalityType
  <2>5. Cardinality(rest \cup more) \in Nat
      BY <2>4, FS_CardinalityType
  <2> QED
      BY <1>2, <2>1, <2>2, <2>3, <2>4, <2>5, RpCounts
<1>7. MetricsConserve' /\ RpFinite'
    BY <1>1, <1>5, <1>6 DEF RpInv, MetricsConserve, RpFinite
<1>8. OffersMade'
    BY <1>1, <1>5, RpCounts DEF RpInv, OffersMade
<1>9. OffersPaid'
  <2> DEFINE paid == submitted * Multiplier
             newly == (submitted + 1) * Multiplier
  <2>1. newly = paid + Multiplier /\ paid \in Nat /\ newly \in Nat
    <3>1. \A m, n \in Nat : (n + 1) * m = n * m + m /\ n * m \in Nat /\ (n + 1) * m \in Nat
        OBVIOUS
    <3> QED
        BY <3>1, RpCounts
  <2>2. queuedCopies + cutShort + Cardinality(ToOffer) <= paid
      BY DEF RpInv, OffersPaid
  <2>3. OffersPaid' <=> queuedCopies + cutShort + Cardinality(ToOffer') <= newly
      BY <1>1 DEF OffersPaid
  <2> HIDE DEF paid, newly
  <2>4. queuedCopies + cutShort + Cardinality(ToOffer') <= newly
      BY <1>6, <2>1, <2>2, RpCounts
  <2> QED
      BY <2>3, <2>4
<1> QED
    BY <1>4, <1>7, <1>8, <1>9 DEF RpInv

LEMMA OfferInv ==
    ASSUME RpInv, NEW s \in Submitter, Offer(s)
    PROVE  RpInv'
<1>1. /\ todo[s] > 0 /\ UNCHANGED <<busy, submitted, okCalls, failedCalls, jobsClosed>>
      /\ todo[s] \in 0 .. Multiplier /\ Multiplier \in Nat
    BY RpCounts DEF Offer
<1>2. CASE jobsClosed
  <2>1. UNCHANGED <<todo, jobs, queuedCopies, skippedEvents, cutShort>> /\ rpPanicked' = TRUE
      BY <1>2 DEF Offer
  <2> QED
      BY <1>1, <2>1 DEF RpInv, RpTypeOK, RpFinite, MetricsConserve, OffersMade, OffersPaid,
                        Begun, ToOffer
<1>3. ASSUME NEW n \in 0 .. Multiplier, n < todo[s], todo' = [todo EXCEPT ![s] = n],
             queuedCopies' + cutShort' = queuedCopies + cutShort + 1,
             queuedCopies' \in Nat, cutShort' \in Nat
      PROVE  /\ todo' \in [Submitter -> 0 .. Multiplier]
             /\ RpFinite' /\ OffersMade' /\ OffersPaid'
  <2>1. /\ \A t \in Submitter : t # s => todo'[t] = todo[t]
        /\ todo'[s] = n /\ todo' \in [Submitter -> 0 .. Multiplier]
        /\ ToOffer' = {p \in ToOffer : p[1] # s} \cup ({s} \X (1 .. n))
        /\ \A i \in 1 .. todo[s] : <<s, i>> \in ToOffer
      BY <1>3, ToOfferChange
  <2>2. /\ IsFiniteSet(Begun') /\ Cardinality(Begun') \in Nat
        /\ Cardinality(Begun') >= Cardinality(Begun) - 1
    <3>1. n # Multiplier
        BY <1>1, <1>3
    <3>2. Begun' = Begun \ {s}
        BY <2>1, <3>1 DEF Begun
    <3>3. /\ IsFiniteSet(Begun')
          /\ Cardinality(Begun') = IF s \in Begun THEN Cardinality(Begun) - 1 ELSE Cardinality(Begun)
        BY <3>2, FS_RemoveElement DEF RpInv, RpFinite
    <3> QED
        BY <3>3, FS_CardinalityType, RpCounts
  <2>3. /\ IsFiniteSet(ToOffer') /\ Cardinality(ToOffer') \in Nat
        /\ Cardinality(ToOffer') <= Cardinality(ToOffer) - 1
    <3> DEFINE copy == <<s, todo[s]>>
    <3>1. copy \in ToOffer
        BY <1>1, <2>1
    <3>2. ToOffer' \in SUBSET (ToOffer \ {copy})
      <4>1. ASSUME NEW i \in 1 .. n PROVE <<s, i>> \in ToOffer \ {copy}
          BY <1>1, <1>3, <2>1
      <4>2. {s} \X (1 .. n) \subseteq ToOffer \ {copy}
          BY <4>1
      <4> QED
          BY <2>1, <4>2
    <3> HIDE DEF copy
    <3>3. /\ IsFiniteSet(ToOffer \ {copy})
          /\ Cardinality(ToOffer \ {copy}) = Cardinality(ToOffer) - 1
        BY <3>1, FS_RemoveElement DEF RpInv, RpFinite
    <3> QED
        BY <3>2, <3>3, FS_Subset, FS_CardinalityType
  <2>4. RpFinite'
      BY <1>1, <2>2, <2>3 DEF RpInv, RpFinite
  <2>5. OffersMade'
      BY <1>1, <1>3, <2>2, RpCounts DEF RpInv, OffersMade
  <2>6. OffersPaid'
    <3> DEFINE paid == submitted * Multiplier
    <3>1. paid \in Nat /\ queuedCopies + cutShort + Cardinality(ToOffer) <= paid
        BY RpCounts DEF RpInv, OffersPaid
    <3>2. OffersPaid' <=> queuedCopies' + cutShort' + Cardinality(ToOffer') <= paid
        BY <1>1 DEF OffersPaid
    <3> HIDE DEF paid
    <3>3. queuedCopies' + cutShort' + Cardinality(ToOffer') <= paid
        BY <1>3, <2>3, <3>1, RpCounts
    <3> QED
        BY <3>2, <3>3
  <2> QED
      BY <2>1, <2>4, <2>5, <2>6
<1>4. CASE ~jobsClosed /\ jobs < JobsCap
  <2>1. /\ todo' = [todo EXCEPT ![s] = todo[s] - 1] /\ jobs' = jobs + 1
        /\ queuedCopies' = queuedCopies + 1 /\ UNCHANGED <<skippedEvents, cutShort, rpPanicked>>
      BY <1>4 DEF Offer
  <2>2. /\ todo' \in [Submitter -> 0 .. Multiplier]
        /\ RpFinite' /\ OffersMade' /\ OffersPaid'
    <3>1. todo[s] - 1 \in 0 .. Multiplier /\ todo[s] - 1 < todo[s]
        BY <1>1
    <3>2. /\ queuedCopies' + cutShort' = queuedCopies + cutShort + 1
          /\ queuedCopies' \in Nat /\ cutShort' \in Nat
        BY <2>1, RpCounts
    <3> QED
        BY <1>3, <2>1, <3>1, <3>2
  <2>3. RpTypeOK'
      BY <1>1, <1>4, <2>1, <2>2, ReplayAssumption DEF RpInv, RpTypeOK
  <2>4. MetricsConserve'
      BY <1>1, <2>1, RpCounts DEF RpInv, MetricsConserve
  <2> QED
      BY <2>2, <2>3, <2>4 DEF RpInv
<1>5. CASE ~jobsClosed /\ ~(jobs < JobsCap)
  <2>1. /\ todo' = [todo EXCEPT ![s] = 0] /\ skippedEvents' = skippedEvents + 1
        /\ cutShort' = cutShort + 1 /\ UNCHANGED <<jobs, queuedCopies, rpPanicked>>
      BY <1>5 DEF Offer
  <2>2. /\ todo' \in [Submitter -> 0 .. Multiplier]
        /\ RpFinite' /\ OffersMade' /\ OffersPaid'
    <3>1. 0 \in 0 .. Multiplier /\ 0 < todo[s]
        BY <1>1
    <3>2. /\ queuedCopies' + cutShort' = queuedCopies + cutShort + 1
          /\ queuedCopies' \in Nat /\ cutShort' \in Nat
        BY <2>1, RpCounts
    <3> QED
        BY <1>3, <2>1, <3>1, <3>2
  <2>3. RpTypeOK'
      BY <1>1, <2>1, <2>2 DEF RpInv, RpTypeOK
  <2>4. MetricsConserve'
      BY <1>1, <2>1, RpCounts DEF RpInv, MetricsConserve
  <2> QED
      BY <2>2, <2>3, <2>4 DEF RpInv
<1> QED
    BY <1>2, <1>4, <1>5

\* Nothing that Submits say changes.
LEMMA SubmitsRest ==
    ASSUME RpInv, UNCHANGED <<todo, submitted, queuedCopies, cutShort>>
    PROVE  /\ Begun' = Begun /\ ToOffer' = ToOffer /\ OffersMade' /\ OffersPaid'
           /\ IsFiniteSet(Begun') /\ IsFiniteSet(ToOffer')
<1>1. Begun' = Begun /\ ToOffer' = ToOffer
    BY DEF Begun, ToOffer
<1> QED
    BY <1>1 DEF RpInv, RpFinite, OffersMade, OffersPaid

LEMMA WorkersInv ==
    ASSUME RpInv, NEW w \in ReplayWorker, TakeJob(w) \/ Invoked(w)
    PROVE  RpInv'
<1>1. UNCHANGED <<todo, submitted, queuedCopies, cutShort, jobsClosed, rpPanicked>>
    BY DEF TakeJob, Invoked
<1>2. CASE TakeJob(w)
  <2>1. /\ w \notin busy /\ jobs > 0 /\ jobs' = jobs - 1 /\ busy' = busy \cup {w}
        /\ UNCHANGED <<okCalls, failedCalls, skippedEvents>>
      BY <1>2 DEF TakeJob
  <2>2. IsFiniteSet(busy') /\ Cardinality(busy') = Cardinality(busy) + 1
      BY <2>1, FS_AddElement DEF RpInv, RpFinite
  <2>3. RpTypeOK'
      BY <1>1, <2>1, ReplayAssumption DEF RpInv, RpTypeOK
  <2>4. MetricsConserve'
      BY <1>1, <2>1, <2>2, RpCounts DEF RpInv, MetricsConserve
  <2> QED
      BY <1>1, <2>2, <2>3, <2>4, SubmitsRest DEF RpInv, RpFinite
<1>3. CASE Invoked(w)
  <2>1. /\ w \in busy /\ busy' = busy \ {w} /\ jobs' = jobs
        /\ \/ okCalls' = okCalls + 1 /\ UNCHANGED <<failedCalls, skippedEvents>>
           \/ failedCalls' = failedCalls + 1 /\ UNCHANGED <<okCalls, skippedEvents>>
           \/ skippedEvents' = skippedEvents + 1 /\ UNCHANGED <<okCalls, failedCalls>>
      BY <1>3 DEF Invoked
  <2>2. IsFiniteSet(busy') /\ Cardinality(busy') = Cardinality(busy) - 1
      BY <2>1, FS_RemoveElement DEF RpInv, RpFinite
  <2>3. RpTypeOK'
      BY <1>1, <2>1 DEF RpInv, RpTypeOK
  <2>4. MetricsConserve'
      BY <1>1, <2>1, <2>2, RpCounts DEF RpInv, MetricsConserve
  <2> QED
      BY <1>1, <2>2, <2>3, <2>4, SubmitsRest DEF RpInv, RpFinite
<1> QED
    BY <1>2, <1>3

LEMMA RpNextInv == RpInv /\ [RpNext]_rpVars => RpInv'
<1> SUFFICES ASSUME RpInv, CloseReplayer \/ UNCHANGED rpVars PROVE RpInv'
    BY SubmitInv, OfferInv, WorkersInv DEF RpNext
<1>1. /\ UNCHANGED <<todo, jobs, busy, submitted, okCalls, failedCalls, skippedEvents,
                     queuedCopies, cutShort, rpPanicked>>
      /\ jobsClosed' \in BOOLEAN
    BY DEF CloseReplayer, rpVars, RpInv, RpTypeOK
<1>2. RpTypeOK' /\ MetricsConserve'
    BY <1>1 DEF RpInv, RpTypeOK, MetricsConserve
<1> QED
    BY <1>1, <1>2, SubmitsRest DEF RpInv, RpFinite

\* replay/replayer.go, Submit and invokeOne: whoever submits, calls and closes
\* meanwhile, the counters lose no copy and count none twice, and a submitted
\* event leaves between one and Multiplier marks.
THEOREM ReplayCountersAddUp == RpSpec => []CountersAddUp
    BY RpInitInv, RpNextInv, RpInvImplies, PTL DEF RpSpec

-------------------------------------------------------------------------------
(* Shadow traffic stays apart.                                             *)

\* A context's side is the one its request was meant for, unless NewBackground
\* lies between, which leads to the main side and nowhere else.
SideKept(shadow, meant, background) ==
    IF shadow THEN meant = "shadow" ELSE meant = "main" \/ background

SfInv ==
    /\ SfTypeOK /\ SidesApart /\ NoAmplification /\ OneTrace
    /\ at # NoContext => SideKept(at.shadow, at.meant, at.background)

LEMMA GivenIsATrace == ASSUME SfTypeOK, NEW t \in Trace, Given(t) <= MaxTraces
                       PROVE  Given(t) \in Trace /\ Given(t) # 0
    BY ShadowAssumption DEF SfTypeOK, Given, Trace

\* Whatever arrives at a server in the trace it was born in and on its side
\* becomes a context of that kind, and no shadow call is captured.
LEMMA ReceiveKeeps ==
    ASSUME SfInv, NEW md \in [shadow : BOOLEAN, trace : Trace], NEW meant \in Side,
           NEW born \in Trace, NEW background \in BOOLEAN, NEW depth \in 0 .. MaxDepth,
           born = md.trace, SideKept(md.shadow, meant, background),
           Receive(md, meant, born, background, depth),
           wrote' = wrote, clean' = clean
    PROVE  SfInv'
<1> DEFINE c == [shadow |-> md.shadow, trace |-> Given(md.trace), meant |-> meant,
                 born |-> IF born = 0 THEN Given(md.trace) ELSE born,
                 background |-> background, depth |-> depth]
           ev == [header |-> md.trace, meant |-> meant, background |-> background,
                  depth |-> depth]
<1>1. /\ Gives(md.trace) /\ at' = c
      /\ raw' = raw \/ (~c.shadow /\ raw' = raw \cup {ev})
    BY DEF Receive, Captures
<1>2. Given(md.trace) \in Trace /\ Given(md.trace) # 0
    BY <1>1, GivenIsATrace DEF SfInv, Gives
<1>3. c.born = Given(md.trace)
    BY DEF Given
<1>4. c \in Context /\ ev \in Event
    BY <1>2, <1>3 DEF Context, Event
<1>5. traces' \in Trace
    BY <1>1, <1>2 DEF Gives, SfInv, SfTypeOK, Given
<1>6. SfTypeOK'
    BY <1>1, <1>4, <1>5 DEF SfInv, SfTypeOK
<1>7. SidesApart'
    BY DEF SfInv, SidesApart
<1>8. NoAmplification'
  <2>1. ~c.shadow => ev.meant = "main" \/ ev.background
      BY DEF SideKept
  <2> HIDE DEF c, ev
  <2> QED
      BY <1>1, <2>1 DEF SfInv, NoAmplification
<1>9. at'.trace # 0 /\ at'.trace = at'.born /\ SideKept(at'.shadow, at'.meant, at'.background)
    BY <1>1, <1>2, <1>3
<1> QED
    BY <1>6, <1>7, <1>8, <1>9 DEF SfInv, OneTrace

LEMMA SfInitInv == SfInit => SfInv
    BY ShadowAssumption
    DEF SfInit, SfInv, SfTypeOK, SidesApart, NoAmplification, OneTrace, Trace

LEMMA SpawnKeeps == ASSUME SfInv, Spawn PROVE SfInv'
<1>1. /\ at # NoContext /\ at \in Context /\ at.trace # 0 /\ at.trace = at.born
      /\ traces \in Trace
    BY DEF Spawn, SfInv, SfTypeOK, OneTrace
<1>2. Given(at.trace) = at.trace
    BY <1>1 DEF Given
<1>3. \/ at' = [at EXCEPT !.shadow = FALSE, !.background = TRUE]
      \/ at.shadow /\ at' = [at EXCEPT !.shadow = TRUE, !.background = TRUE]
    BY <1>1, <1>2 DEF Spawn, Background, BackgroundShadow, Context
<1>4. /\ at' \in Context /\ at'.trace = at.trace /\ at'.born = at.born
      /\ at'.meant = at.meant /\ at'.background
      /\ at'.shadow => at.shadow
    BY <1>1, <1>3 DEF Context
<1>5. traces' \in Trace
    BY <1>1, <1>4 DEF Spawn, Context
<1>6. SideKept(at'.shadow, at'.meant, at'.background)
    BY <1>1, <1>4 DEF SfInv, SideKept
<1>7. UNCHANGED <<wrote, raw, clean>>
    BY DEF Spawn
<1> QED
    BY <1>1, <1>4, <1>5, <1>6, <1>7
    DEF SfInv, SfTypeOK, SidesApart, NoAmplification, OneTrace

LEMMA SfNextInv == SfInv /\ [SfNext]_sfVars => SfInv'
<1> SUFFICES ASSUME SfInv, [SfNext]_sfVars PROVE SfInv'
    OBVIOUS
<1>1. CASE Ingress
  <2>1. PICK side \in Side :
            /\ Receive([shadow |-> side = "shadow", trace |-> 0], side, 0, FALSE, 0)
            /\ UNCHANGED <<wrote, clean>>
      BY <1>1 DEF Ingress
  <2> DEFINE md == [shadow |-> side = "shadow", trace |-> 0]
  <2>2. /\ md \in [shadow : BOOLEAN, trace : Trace] /\ md.trace = 0
        /\ SideKept(md.shadow, side, FALSE) /\ 0 \in Trace /\ 0 \in 0 .. MaxDepth
    <3>1. 0 \in Trace /\ 0 \in 0 .. MaxDepth /\ (side = "shadow") \in BOOLEAN
        BY ShadowAssumption DEF Trace
    <3>2. SideKept(side = "shadow", side, FALSE)
        BY Zenon DEF SideKept, Side
    <3> QED
        BY <3>1, <3>2, Zenon
  <2> HIDE DEF md
  <2>3. Receive(md, side, 0, FALSE, 0)
      BY <2>1 DEF md
  <2> QED
      BY <2>1, <2>2, <2>3, ReceiveKeeps
<1>2. CASE WriteTo
  <2>1. at # NoContext /\ at \in Context /\ wrote' = <<Name(at), at.meant, at.background>>
      BY <1>2 DEF WriteTo, SfInv, SfTypeOK
  <2>2. /\ wrote' \in Side \X Side \X BOOLEAN
        /\ wrote'[1] = Name(at) /\ wrote'[2] = at.meant /\ wrote'[3] = at.background
      BY <2>1 DEF Context, Name, Side
  <2>3. SidesApart'
      BY <2>1, <2>2 DEF SfInv, SidesApart, SideKept, Name
  <2> QED
      BY <1>2, <2>2, <2>3 DEF WriteTo, SfInv, SfTypeOK, NoAmplification, OneTrace
<1>3. CASE CallOut
  <2>1. at # NoContext
      BY <1>3, ShadowAssumption DEF CallOut, NoContext
  <2>2. /\ at \in Context /\ at.trace = at.born /\ SideKept(at.shadow, at.meant, at.background)
        /\ at.depth + 1 \in 0 .. MaxDepth
      BY <1>3, <2>1, ShadowAssumption DEF CallOut, SfInv, SfTypeOK, OneTrace, Context
  <2>3. /\ Outbound(at) \in [shadow : BOOLEAN, trace : Trace]
        /\ Outbound(at).shadow = at.shadow /\ Outbound(at).trace = at.trace
        /\ at.meant \in Side /\ at.born \in Trace /\ at.background \in BOOLEAN
      BY <2>2 DEF Outbound, Context
  <2> QED
      BY <1>3, <2>2, <2>3, ReceiveKeeps DEF CallOut
<1>4. CASE Spawn
    BY <1>4, SpawnKeeps
<1>5. CASE End
    BY <1>5 DEF End, SfInv, SfTypeOK, SidesApart, NoAmplification, OneTrace
<1>6. CASE \E ev \in raw : Sanitizes(ev)
  <2>1. raw' \subseteq raw /\ clean' \subseteq raw \cup clean /\ UNCHANGED <<at, wrote, traces>>
      BY <1>6 DEF Sanitizes
  <2> QED
      BY <2>1 DEF SfInv, SfTypeOK, SidesApart, NoAmplification, OneTrace
<1>7. CASE \E ev \in clean : ReplayEvent(ev)
  <2>1. PICK ev \in clean : ReplayEvent(ev)
      BY <1>7
  <2>2. /\ ev \in Event /\ ev.depth + 1 \in 0 .. MaxDepth
      BY <2>1, ShadowAssumption DEF ReplayEvent, SfInv, SfTypeOK, Event
  <2>3. /\ ReplayContext(ev) \in [shadow : BOOLEAN, trace : Trace]
        /\ ReplayContext(ev).trace = ev.header
        /\ SideKept(ReplayContext(ev).shadow, "shadow", ev.background)
        /\ "shadow" \in Side /\ ev.header \in Trace /\ ev.background \in BOOLEAN
      BY <2>2 DEF ReplayContext, Event, SideKept, Side
  <2> QED
      BY <2>1, <2>2, <2>3, ReceiveKeeps DEF ReplayEvent
<1>8. CASE UNCHANGED sfVars
    BY <1>8 DEF sfVars, SfInv, SfTypeOK, SidesApart, NoAmplification, OneTrace
<1> QED
    BY <1>1, <1>2, <1>3, <1>4, <1>5, <1>6, <1>7, <1>8 DEF SfNext

\* shadow/shadow.go, trace/background.go, replay/capture.go: whatever chain of
\* calls, background tasks, captures and replays lies behind a write, it goes to
\* its request's side or, after NewBackground, to the main one; a replay is not
\* captured again; and a request stays in one trace.
THEOREM ShadowTrafficApart == SfSpec => []ShadowStaysApart
<1>1. SfInv => ShadowStaysApart
    BY DEF SfInv, ShadowStaysApart
<1> QED
    BY <1>1, SfInitInv, SfNextInv, PTL DEF SfSpec

-------------------------------------------------------------------------------
(* The rate limiter: nobody overdraws.                                     *)

\* A finite set of numbers has a largest.
LEMMA LargestIs ==
    ASSUME NEW S \in SUBSET Nat, IsFiniteSet(S), S # {}
    PROVE  Largest(S) \in S /\ \A y \in S : y <= Largest(S)
<1> DEFINE Topped(T) == \E x \in T : \A y \in T : y <= x
           Bad == {Cardinality(T) : T \in {U \in SUBSET S : U # {} /\ ~Topped(U)}}
<1>1. ASSUME NEW T \in SUBSET S PROVE IsFiniteSet(T) /\ Cardinality(T) \in Nat
    BY FS_Subset, FS_CardinalityType
<1>2. CASE Bad = {}
  <2>1. Topped(S)
      BY <1>2
  <2> QED
      BY <2>1 DEF Largest
<1>3. CASE Bad # {}
  <2>1. Bad \in SUBSET Nat
      BY <1>1
  <2>2. PICK n \in Bad : \A k \in Bad : ~(<<k, n>> \in OpToRel(<, Nat))
      BY <1>3, <2>1, NatLessThanWellFounded, WFMin
  <2>3. PICK T \in SUBSET S : T # {} /\ ~Topped(T) /\ n = Cardinality(T)
      BY <2>2
  <2>4. PICK x \in T : TRUE
      BY <2>3
  <2>5. Cardinality(T \ {x}) \in Nat /\ Cardinality(T \ {x}) < n
    <3>1. IsFiniteSet(T) /\ T \ {x} \in SUBSET S
        BY <1>1
    <3>2. Cardinality(T \ {x}) = Cardinality(T) - 1
        BY <2>4, <3>1, FS_RemoveElement
    <3> QED
        BY <1>1, <2>3, <3>1, <3>2
  <2>6. Cardinality(T \ {x}) \notin Bad
    <3> HIDE DEF Bad
    <3> QED
        BY <2>1, <2>2, <2>5 DEF OpToRel
  <2>7. T \ {x} = {} \/ Topped(T \ {x})
      BY <2>3, <2>6
  <2>8. T \subseteq Nat
      BY <2>3
  <2>9. Topped(T)
    <3>1. CASE T \ {x} = {}
        BY <2>4, <2>8, <3>1
    <3>2. CASE Topped(T \ {x})
      <4>1. PICK y \in T \ {x} : \A z \in T \ {x} : z <= y
          BY <3>2
      <4>2. x \in Nat /\ y \in Nat
          BY <2>4, <2>8, <4>1
      <4>3. CASE x <= y
          BY <4>1, <4>2, <4>3
      <4>4. CASE y <= x
          BY <2>4, <2>8, <4>1, <4>2, <4>4
      <4> QED
          BY <4>2, <4>3, <4>4
    <3> QED
        BY <2>7, <3>1, <3>2
  <2> QED
      BY <2>3, <2>9
<1> QED
    BY <1>2, <1>3

TopRps == MaxOf(LAMBDA l : l.rps)
TopBurst == MaxOf(LAMBDA l : l.burst)

LEMMA LimitTypes ==
    ASSUME NEW c \in Config
    PROVE  LimitOf(c).rps \in Nat /\ LimitOf(c).burst \in Nat
<1> DEFINE R == {s.rps : s \in Specs(c)}
           B == {s.burst : s \in Specs(c)}
<1>1. Specs(c) # {}
    BY DEF Specs
<1>5. /\ IsFiniteSet(Specs(c))
      /\ \A s \in Specs(c) : s.rps \in Nat /\ s.burst \in Nat
    BY RateAssumption
<1>2. IsFiniteSet(R) /\ IsFiniteSet(B)
  <2>1. /\ [s \in Specs(c) |-> s.rps] \in Surjection(Specs(c), R)
        /\ [s \in Specs(c) |-> s.burst] \in Surjection(Specs(c), B)
      BY DEF Surjection
  <2> HIDE DEF R, B
  <2> QED
      BY <1>5, <2>1, FS_Surjection
<1>3. R \in SUBSET Nat /\ B \in SUBSET Nat /\ R # {} /\ B # {}
    BY <1>1, <1>5
<1>4. Largest(R) \in Nat /\ Largest(B) \in Nat
  <2> HIDE DEF R, B
  <2> QED
    BY <1>2, <1>3, LargestIs
<1> QED
    BY <1>4 DEF LimitOf

LEMMA TopsBound ==
    ASSUME NEW c \in Config
    PROVE  /\ TopRps \in Nat /\ TopBurst \in Nat
           /\ LimitOf(c).rps <= TopRps /\ LimitOf(c).burst <= TopBurst
<1> DEFINE R == {LimitOf(d).rps : d \in Config}
           B == {LimitOf(d).burst : d \in Config}
<1>1. IsFiniteSet(R) /\ IsFiniteSet(B)
  <2>1. /\ [d \in Config |-> LimitOf(d).rps] \in Surjection(Config, R)
        /\ [d \in Config |-> LimitOf(d).burst] \in Surjection(Config, B)
      BY DEF Surjection
  <2> HIDE DEF R, B
  <2> QED
      BY <2>1, RateAssumption, FS_Surjection
<1>2. R \in SUBSET Nat /\ B \in SUBSET Nat /\ LimitOf(c).rps \in R /\ LimitOf(c).burst \in B
    BY LimitTypes
<1>3. TopRps = Largest(R) /\ TopBurst = Largest(B)
    BY DEF TopRps, TopBurst, MaxOf
<1> HIDE DEF R, B
<1> QED
    BY <1>1, <1>2, <1>3, LargestIs

-------------------------------------------------------------------------------
\* Whose each bucket ever created is, and how many of its tokens it gave.

Buckets == Cardinality(DOMAIN bucket)
Budget == TopBurst + TopRps * clock
Owned(owner, m) == {b \in DOMAIN owner : owner[b] = m}
Taken(owner, given, m) ==
    {p \in Nat \X Nat : p[1] \in Owned(owner, m) /\ p[2] \in 1 .. given[p[1]]}

\* An update that no other crosses is alone, and applies what it stored.
Updates ==
    /\ applying \in [Updater -> SUBSET Config]
    /\ ~updatesCross => \A u \in Updating : applying[u] = {cfg} /\ Updating \subseteq {u}
    /\ Updating = {} /\ ~updatesCross => limit = LimitOf(cfg)

RlTypes ==
    /\ cfg \in Config /\ clock \in Nat
    /\ \E c \in Config : limit = LimitOf(c)
    /\ Updates
    /\ Buckets \in Nat /\ DOMAIN bucket = 1 .. Buckets
    /\ bucket \in [DOMAIN bucket -> [tokens : Nat, rps : 0 .. TopRps, burst : 0 .. TopBurst]]
    /\ limiters \in [Merchant -> {None} \cup DOMAIN bucket]
    /\ call \in [Caller -> [at : {"rest", "create", "take"}, for : Merchant \cup {None},
                            with : {None} \cup DOMAIN bucket]]
    /\ granted \in [Merchant -> Nat] /\ evicted \in [Merchant -> Nat]

\* Callers and live buckets.
RlLinks ==
    /\ \A c \in Caller : call[c].at = "create" => call[c].for \in Merchant
    /\ \A c \in Caller : call[c].at = "take" => call[c].with \in DOMAIN bucket
    /\ \A m \in Live : /\ bucket[limiters[m]].rps = limit.rps
                       /\ bucket[limiters[m]].burst = limit.burst

Solvent(given) == \A b \in DOMAIN bucket : given[b] + bucket[b].tokens <= Budget

Own(owner) ==
    /\ \A m \in Live : owner[limiters[m]] = m
    /\ \A c \in Caller : call[c].at = "take" => owner[call[c].with] = call[c].for

\* A merchant's buckets are those it lost and the live one.
Counted(owner) ==
    \A m \in Merchant :
        /\ IsFiniteSet(Owned(owner, m))
        /\ Cardinality(Owned(owner, m)) = IF m \in Live THEN evicted[m] + 1 ELSE evicted[m]

Booked(owner, given) ==
    \A m \in Merchant : /\ IsFiniteSet(Taken(owner, given, m))
                        /\ Cardinality(Taken(owner, given, m)) = granted[m]

Ledger(owner, given) == Solvent(given) /\ Own(owner) /\ Counted(owner) /\ Booked(owner, given)

RlInv ==
    /\ RlTypes /\ RlLinks
    /\ \E owner \in [DOMAIN bucket -> Merchant], given \in [DOMAIN bucket -> Nat] :
           Ledger(owner, given)

\* What is on the books is within the budgets of the buckets owned.
LEMMA LedgerBounds ==
    ASSUME RlTypes, NEW owner \in [DOMAIN bucket -> Merchant],
           NEW given \in [DOMAIN bucket -> Nat], Ledger(owner, given), NEW m \in Merchant
    PROVE  granted[m] <= (1 + evicted[m]) * Budget
<1> DEFINE O == Owned(owner, m)
           T == Taken(owner, given, m)
           I == 1 .. Budget
<1>1. TopRps \in Nat /\ TopBurst \in Nat /\ clock \in Nat
    BY TopsBound DEF RlTypes
<1>2. Budget \in Nat
  <2>1. TopRps * clock \in Nat
      BY <1>1
  <2> QED
      BY <1>1, <2>1 DEF Budget
<1>3. /\ IsFiniteSet(O) /\ Cardinality(O) \in Nat /\ Cardinality(O) <= 1 + evicted[m]
      /\ evicted[m] \in Nat
  <2>1. evicted[m] \in Nat
      BY DEF RlTypes
  <2> QED
      BY <2>1 DEF Ledger, Counted
<1>4. IsFiniteSet(I) /\ Cardinality(I) = Budget
    BY <1>2, FS_Interval
<1>5. IsFiniteSet(T) /\ Cardinality(T) = granted[m]
    BY DEF Ledger, Booked
<1>6. T \subseteq O \X I
  <2> SUFFICES ASSUME NEW p \in T PROVE p \in O \X I
      OBVIOUS
  <2>1. p \in Nat \X Nat /\ p[1] \in O /\ p[2] \in 1 .. given[p[1]]
      BY DEF Taken
  <2>2. PICK b \in Nat, n \in Nat : p = <<b, n>>
      BY <2>1
  <2>3. b \in O /\ n \in 1 .. given[b] /\ b \in DOMAIN bucket
      BY <2>1, <2>2 DEF Owned
  <2>4. given[b] + bucket[b].tokens <= Budget /\ given[b] \in Nat /\ bucket[b].tokens \in Nat
      BY <2>3 DEF Ledger, Solvent, RlTypes
  <2>5. n \in I
      BY <1>2, <2>2, <2>3, <2>4
  <2> QED
      BY <2>2, <2>3, <2>5
<1> HIDE DEF O, T, I
<1>7. IsFiniteSet(O \X I) /\ Cardinality(O \X I) = Cardinality(O) * Cardinality(I)
    BY <1>3, <1>4, FS_Product
<1>8. Cardinality(T) <= Cardinality(O \X I)
    BY <1>6, <1>7, FS_Subset
<1>9. \A i, j, k \in Nat : i <= j => i * k <= j * k
    OBVIOUS
<1>10. Cardinality(O) * Budget <= (1 + evicted[m]) * Budget
    BY <1>2, <1>3, <1>9
<1> DEFINE x == Cardinality(O) * Budget
           y == (1 + evicted[m]) * Budget
<1>11. x \in Nat /\ y \in Nat
    BY <1>2, <1>3
<1>12. granted[m] <= x /\ x <= y
    BY <1>4, <1>5, <1>7, <1>8, <1>10
<1>13. granted[m] \in Nat
    BY DEF RlTypes
<1> HIDE DEF x, y
<1>14. granted[m] <= y
    BY <1>11, <1>12, <1>13
<1> QED
    BY <1>14 DEF y

LEMMA RlInvNoOverdraft == RlInv => NoOverdraft
<1> SUFFICES ASSUME RlInv PROVE NoOverdraft
    OBVIOUS
<1>1. PICK owner \in [DOMAIN bucket -> Merchant], given \in [DOMAIN bucket -> Nat] :
          Ledger(owner, given)
    BY DEF RlInv
<1>2. \A m \in Merchant : granted[m] <= (1 + evicted[m]) * Budget
    BY <1>1, LedgerBounds DEF RlInv
<1>3. \A m, n \in Live : limiters[m] = limiters[n] => m = n
    BY <1>1 DEF Ledger, Own
<1>4. /\ \A m \in Live : /\ bucket[limiters[m]].rps = limit.rps
                          /\ bucket[limiters[m]].burst = limit.burst
      /\ Updating = {} /\ ~updatesCross => limit = LimitOf(cfg)
    BY DEF RlInv, RlTypes, RlLinks, Updates
<1> QED
    BY <1>2, <1>3, <1>4 DEF NoOverdraft, Budget, TopRps, TopBurst

-------------------------------------------------------------------------------
\* The books are kept.

LEMMA BudgetHolds ==
    ASSUME RlTypes
    PROVE  TopRps \in Nat /\ TopBurst \in Nat /\ Budget \in Nat /\ TopBurst <= Budget
<1>1. TopRps \in Nat /\ TopBurst \in Nat /\ clock \in Nat
    BY TopsBound DEF RlTypes
<1>2. TopRps * clock \in Nat
    BY <1>1
<1> QED
    BY <1>1, <1>2 DEF Budget

LEMMA RlInitInv == RlInit => RlInv
<1> SUFFICES ASSUME RlInit PROVE RlInv
    OBVIOUS
<1>1. bucket = <<>> /\ DOMAIN bucket = {} /\ Buckets = 0 /\ 1 .. 0 = {}
    BY FS_EmptySet DEF RlInit, Buckets
<1>2. RlTypes
  <2>1. bucket \in [DOMAIN bucket -> [tokens : Nat, rps : 0 .. TopRps, burst : 0 .. TopBurst]]
    <3>1. bucket = [b \in DOMAIN bucket |-> bucket[b]]
        BY <1>1
    <3> QED
        BY <1>1, <3>1
  <2>2. DOMAIN bucket = 1 .. Buckets /\ Buckets \in Nat
      BY <1>1
  <2>3. call \in [Caller -> [at : {"rest", "create", "take"}, for : Merchant \cup {None},
                             with : {None} \cup DOMAIN bucket]]
      BY DEF RlInit, Resting
  <2>4. /\ limiters \in [Merchant -> {None} \cup DOMAIN bucket]
        /\ granted \in [Merchant -> Nat] /\ evicted \in [Merchant -> Nat]
        /\ cfg \in Config /\ limit = LimitOf(cfg) /\ clock = 0
        /\ applying \in [Updater -> SUBSET Config] /\ Updating = {}
      BY DEF RlInit, Updating
  <2> QED
      BY <2>1, <2>2, <2>3, <2>4 DEF RlTypes, Updates
<1>3. Live = {}
    BY DEF RlInit, Live
<1>4. RlLinks
    BY <1>3 DEF RlInit, RlLinks, Resting
<1> DEFINE owner == [b \in DOMAIN bucket |-> CHOOSE m \in Merchant : TRUE]
           given == [b \in DOMAIN bucket |-> 0]
<1>5. owner \in [DOMAIN bucket -> Merchant] /\ given \in [DOMAIN bucket -> Nat]
    BY <1>1
<1> HIDE DEF owner, given
<1>6. Solvent(given) /\ Own(owner)
    BY <1>1, <1>3 DEF RlInit, Solvent, Own, Resting
<1>7. \A m \in Merchant : Owned(owner, m) = {} /\ Taken(owner, given, m) = {}
  <2>1. DOMAIN owner = {}
      BY <1>1, <1>5
  <2> QED
      BY <2>1 DEF Owned, Taken
<1>8. Counted(owner) /\ Booked(owner, given)
    BY <1>3, <1>7, FS_EmptySet DEF Counted, Booked, RlInit
<1> QED
    BY <1>2, <1>4, <1>5, <1>6, <1>8 DEF RlInv, Ledger

\* A step that neither creates nor evicts nor takes leaves the books alone.
LEMMA SameBooks ==
    ASSUME RlInv, UNCHANGED <<limiters, granted, evicted>>, DOMAIN bucket' = DOMAIN bucket,
           RlTypes', RlLinks',
           \A given \in [DOMAIN bucket -> Nat] : Solvent(given) => Solvent(given)',
           \A c \in Caller : call'[c].at = "take" =>
               \/ call'[c] = call[c]
               \/ call'[c].for \in Live /\ call'[c].with = limiters[call'[c].for]
    PROVE  RlInv'
<1>1. PICK owner \in [DOMAIN bucket -> Merchant], given \in [DOMAIN bucket -> Nat] :
          Ledger(owner, given)
    BY DEF RlInv
<1>2. Live' = Live
    BY DEF Live
<1>3. Own(owner)'
    BY <1>1, <1>2 DEF Ledger, Own
<1>4. Counted(owner)' /\ Booked(owner, given)'
    BY <1>1, <1>2 DEF Ledger, Counted, Booked
<1>5. Ledger(owner, given)'
    BY <1>1, <1>3, <1>4 DEF Ledger
<1> QED
    BY <1>1, <1>5 DEF RlInv

LEMMA LookKeeps == ASSUME RlInv, NEW c \in Caller, NEW m \in Merchant, Look(c, m) PROVE RlInv'
<1> DEFINE r == [at |-> IF limiters[m] = None THEN "create" ELSE "take",
                 for |-> m, with |-> limiters[m]]
<1>1. /\ UNCHANGED <<cfg, limit, applying, limiters, bucket, granted, evicted, updatesCross, clock>>
      /\ call' = [call EXCEPT ![c] = r]
    BY DEF Look
<1>2. RlTypes /\ RlLinks
    BY DEF RlInv
<1>3. r \in [at : {"rest", "create", "take"}, for : Merchant \cup {None},
             with : {None} \cup DOMAIN bucket]
    BY <1>2 DEF RlTypes
<1>4. /\ r.at = "take" => r.for \in Live /\ r.with = limiters[r.for] /\ r.with \in DOMAIN bucket
      /\ r.for \in Merchant
    BY <1>2 DEF RlTypes, Live
<1> HIDE DEF r
<1>5. call' \in [Caller -> [at : {"rest", "create", "take"}, for : Merchant \cup {None},
                            with : {None} \cup DOMAIN bucket]]
      /\ \A d \in Caller : call'[d] = IF d = c THEN r ELSE call[d]
    BY <1>1, <1>2, <1>3 DEF RlTypes
<1>6. RlTypes'
    BY <1>1, <1>2, <1>5 DEF RlTypes, Buckets, Updates, Updating
<1>7. RlLinks'
    BY <1>1, <1>2, <1>4, <1>5 DEF RlLinks, Live
<1>8. \A given \in [DOMAIN bucket -> Nat] : Solvent(given) => Solvent(given)'
    BY <1>1 DEF Solvent, Budget
<1>9. \A d \in Caller : call'[d].at = "take" =>
               \/ call'[d] = call[d]
               \/ call'[d].for \in Live /\ call'[d].with = limiters[call'[d].for]
    BY <1>4, <1>5
<1> QED
    BY <1>1, <1>6, <1>7, <1>8, <1>9, SameBooks

LEMMA StoreConfigKeeps ==
    ASSUME RlInv, NEW u \in Updater, NEW c \in Config, StoreConfig(u, c)
    PROVE  RlInv'
<1>1. /\ applying[u] = {} /\ cfg' = c /\ applying' = [applying EXCEPT ![u] = {c}]
      /\ updatesCross' = (Updating # {})
      /\ UNCHANGED <<limit, limiters, bucket, call, granted, evicted, clock>>
    BY DEF StoreConfig
<1>2. RlTypes /\ RlLinks /\ applying \in [Updater -> SUBSET Config]
    BY DEF RlInv, RlTypes, Updates
<1>3. /\ applying' \in [Updater -> SUBSET Config] /\ applying'[u] = {cfg'}
      /\ Updating' = Updating \cup {u}
    BY <1>1, <1>2 DEF Updating
<1>4. Updates'
    BY <1>1, <1>3 DEF Updates
<1>5. RlTypes' /\ RlLinks'
    BY <1>1, <1>2, <1>4 DEF RlTypes, RlLinks, Buckets, Live
<1>6. \A given \in [DOMAIN bucket -> Nat] : Solvent(given) => Solvent(given)'
    BY <1>1 DEF Solvent, Budget
<1> QED
    BY <1>1, <1>5, <1>6, SameBooks

LEMMA ApplyConfigKeeps == ASSUME RlInv, NEW u \in Updater, ApplyConfig(u) PROVE RlInv'
<1> DEFINE Live1(b) == \E m \in Live : limiters[m] = b
<1>2. RlTypes /\ RlLinks /\ Updates
    BY DEF RlInv, RlTypes
<1>10. PICK c \in applying[u] : limit' = LimitOf(c)
    BY DEF ApplyConfig
<1>1. /\ applying' = [applying EXCEPT ![u] = {}]
      /\ UNCHANGED <<cfg, limiters, call, granted, evicted, updatesCross, clock>>
      /\ bucket' = [b \in DOMAIN bucket |->
                      IF Live1(b)
                      THEN [bucket[b] EXCEPT !.rps = limit'.rps, !.burst = limit'.burst]
                      ELSE bucket[b]]
    BY DEF ApplyConfig
<1>11. c \in Config
    BY <1>2, <1>10 DEF Updates
<1>12. Updates'
  <2>1. applying \in [Updater -> SUBSET Config] /\ u \in Updating
      BY <1>2, <1>10 DEF Updates, Updating
  <2>2. applying' \in [Updater -> SUBSET Config] /\ Updating' = Updating \ {u}
      BY <1>1, <2>1 DEF Updating
  <2>3. ~updatesCross => c = cfg /\ Updating' = {}
      BY <1>2, <1>10, <2>1, <2>2 DEF Updates
  <2> QED
      BY <1>1, <1>10, <2>2, <2>3 DEF Updates
<1>3. limit'.rps \in 0 .. TopRps /\ limit'.burst \in 0 .. TopBurst
  <2>2. /\ LimitOf(c).rps \in Nat /\ LimitOf(c).burst \in Nat /\ TopRps \in Nat
        /\ TopBurst \in Nat /\ LimitOf(c).rps <= TopRps /\ LimitOf(c).burst <= TopBurst
      BY <1>11, LimitTypes, TopsBound
  <2>3. LimitOf(c).rps \in 0 .. TopRps /\ LimitOf(c).burst \in 0 .. TopBurst
      BY <2>2
  <2> QED
      BY <1>10, <2>3
<1>4. /\ DOMAIN bucket' = DOMAIN bucket
      /\ \A b \in DOMAIN bucket :
            /\ bucket'[b] \in [tokens : Nat, rps : 0 .. TopRps, burst : 0 .. TopBurst]
            /\ bucket'[b].tokens = bucket[b].tokens
            /\ Live1(b) => bucket'[b].rps = limit'.rps /\ bucket'[b].burst = limit'.burst
  <2>1. DOMAIN bucket' = DOMAIN bucket
      BY <1>1
  <2>2. ASSUME NEW b \in DOMAIN bucket
        PROVE  /\ bucket'[b] \in [tokens : Nat, rps : 0 .. TopRps, burst : 0 .. TopBurst]
               /\ bucket'[b].tokens = bucket[b].tokens
               /\ Live1(b) => bucket'[b].rps = limit'.rps /\ bucket'[b].burst = limit'.burst
    <3>1. bucket[b] \in [tokens : Nat, rps : 0 .. TopRps, burst : 0 .. TopBurst]
        BY <1>2 DEF RlTypes
    <3>2. bucket'[b] = IF Live1(b)
                       THEN [bucket[b] EXCEPT !.rps = limit'.rps, !.burst = limit'.burst]
                       ELSE bucket[b]
        BY <1>1
    <3> HIDE DEF Live1
    <3> QED
        BY <1>3, <3>1, <3>2
  <2> QED
      BY <2>1, <2>2
<1>5. bucket' \in [DOMAIN bucket' -> [tokens : Nat, rps : 0 .. TopRps, burst : 0 .. TopBurst]]
  <2>1. bucket' = [b \in DOMAIN bucket' |-> bucket'[b]]
      BY <1>1
  <2> QED
      BY <1>4, <2>1
<1>6. Live' = Live
    BY <1>1 DEF Live
<1>7. RlTypes'
    BY <1>1, <1>2, <1>4, <1>5, <1>10, <1>11, <1>12 DEF RlTypes, Buckets
<1>8. RlLinks'
  <2>1. \A m \in Live : limiters[m] \in DOMAIN bucket /\ Live1(limiters[m])
      BY <1>2 DEF RlTypes, Live
  <2> HIDE DEF Live1
  <2> QED
      BY <1>1, <1>2, <1>4, <1>6, <2>1 DEF RlLinks
<1>9. \A given \in [DOMAIN bucket -> Nat] : Solvent(given) => Solvent(given)'
    BY <1>1, <1>4 DEF Solvent, Budget
<1> QED
    BY <1>1, <1>4, <1>7, <1>8, <1>9, SameBooks

LEMMA ClockTickKeeps == ASSUME RlInv, ClockTick PROVE RlInv'
<1>1. /\ clock' = clock + 1
      /\ UNCHANGED <<cfg, limit, applying, limiters, call, granted, evicted, updatesCross>>
      /\ bucket' = [b \in DOMAIN bucket |->
                      [bucket[b] EXCEPT !.tokens = Smaller(@ + bucket[b].rps, bucket[b].burst)]]
    BY DEF ClockTick
<1>2. RlTypes /\ RlLinks
    BY DEF RlInv
<1>3. /\ DOMAIN bucket' = DOMAIN bucket
      /\ \A b \in DOMAIN bucket :
            /\ bucket'[b] \in [tokens : Nat, rps : 0 .. TopRps, burst : 0 .. TopBurst]
            /\ bucket'[b].rps = bucket[b].rps /\ bucket'[b].burst = bucket[b].burst
            /\ bucket'[b].tokens <= bucket[b].tokens + TopRps
  <2>1. DOMAIN bucket' = DOMAIN bucket
      BY <1>1
  <2>2. ASSUME NEW b \in DOMAIN bucket
        PROVE  /\ bucket'[b] \in [tokens : Nat, rps : 0 .. TopRps, burst : 0 .. TopBurst]
               /\ bucket'[b].rps = bucket[b].rps /\ bucket'[b].burst = bucket[b].burst
               /\ bucket'[b].tokens <= bucket[b].tokens + TopRps
    <3>1. bucket[b] \in [tokens : Nat, rps : 0 .. TopRps, burst : 0 .. TopBurst]
        BY <1>2 DEF RlTypes
    <3>2. bucket'[b] = [bucket[b] EXCEPT
                           !.tokens = Smaller(bucket[b].tokens + bucket[b].rps, bucket[b].burst)]
        BY <1>1
    <3>3. /\ Smaller(bucket[b].tokens + bucket[b].rps, bucket[b].burst) \in Nat
          /\ Smaller(bucket[b].tokens + bucket[b].rps, bucket[b].burst)
                 <= bucket[b].tokens + TopRps
        BY <1>2, <3>1, BudgetHolds DEF Smaller
    <3> QED
        BY <3>1, <3>2, <3>3
  <2> QED
      BY <2>1, <2>2
<1>4. bucket' \in [DOMAIN bucket' -> [tokens : Nat, rps : 0 .. TopRps, burst : 0 .. TopBurst]]
  <2>1. bucket' = [b \in DOMAIN bucket' |-> bucket'[b]]
      BY <1>1
  <2> QED
      BY <1>3, <2>1
<1>5. Live' = Live
    BY <1>1 DEF Live
<1>6. RlTypes'
  <2>1. Updates' /\ Buckets' = Buckets /\ clock' \in Nat
      BY <1>1, <1>2, <1>3 DEF RlTypes, Buckets, Updates, Updating
  <2> QED
      BY <1>1, <1>2, <1>3, <1>4, <2>1 DEF RlTypes
<1>7. RlLinks'
  <2>1. \A m \in Live : limiters[m] \in DOMAIN bucket
      BY <1>2 DEF RlTypes, Live
  <2> QED
      BY <1>1, <1>2, <1>3, <1>5, <2>1 DEF RlLinks
<1>8. Budget' = Budget + TopRps
  <2>1. clock \in Nat /\ TopRps \in Nat /\ TopBurst \in Nat
      BY <1>2, BudgetHolds DEF RlTypes
  <2>2. TopRps * clock' = TopRps * clock + TopRps /\ TopRps * clock \in Nat
      BY <1>1, <2>1
  <2> QED
      BY <2>1, <2>2 DEF Budget
<1>9. \A given \in [DOMAIN bucket -> Nat] : Solvent(given) => Solvent(given)'
  <2> SUFFICES ASSUME NEW given \in [DOMAIN bucket -> Nat], Solvent(given),
                      NEW b \in DOMAIN bucket
               PROVE  given[b] + bucket'[b].tokens <= Budget'
      BY <1>3 DEF Solvent
  <2>1. /\ given[b] \in Nat /\ bucket[b].tokens \in Nat /\ bucket'[b].tokens \in Nat
        /\ given[b] + bucket[b].tokens <= Budget
        /\ bucket'[b].tokens <= bucket[b].tokens + TopRps
      BY <1>2, <1>3 DEF RlTypes, Solvent
  <2> QED
      BY <1>2, <1>8, <2>1, BudgetHolds
<1> QED
    BY <1>1, <1>3, <1>6, <1>7, <1>9, SameBooks

LEMMA CreateKeeps == ASSUME RlInv, NEW c \in Caller, Create(c) PROVE RlInv'
<1>1. RlTypes /\ RlLinks
    BY DEF RlInv
<1>2. PICK m \in Merchant : m = call[c].for
    BY <1>1 DEF Create, RlLinks
<1>3. CASE limiters[m] # None
  <2>1. /\ call' = [call EXCEPT ![c].at = "take", ![c].with = limiters[m]]
        /\ UNCHANGED <<limiters, bucket, evicted, cfg, limit, applying, granted, updatesCross, clock>>
      BY <1>2, <1>3 DEF Create
  <2>2. limiters[m] \in DOMAIN bucket /\ m \in Live
      BY <1>1, <1>3 DEF RlTypes, Live
  <2>3. /\ call'[c].at = "take" /\ call'[c].for = m /\ call'[c].with = limiters[m]
        /\ \A d \in Caller \ {c} : call'[d] = call[d]
        /\ call' \in [Caller -> [at : {"rest", "create", "take"}, for : Merchant \cup {None},
                                 with : {None} \cup DOMAIN bucket]]
    <3> DEFINE M == Merchant \cup {None}
               B == {None} \cup DOMAIN bucket
    <3>1. /\ call \in [Caller -> [at : {"rest", "create", "take"}, for : M, with : B]]
          /\ limiters[m] \in B
        BY <1>1, <2>2 DEF RlTypes
    <3> HIDE DEF M, B
    <3>2. /\ call' \in [Caller -> [at : {"rest", "create", "take"}, for : M, with : B]]
          /\ call'[c].at = "take" /\ call'[c].for = call[c].for /\ call'[c].with = limiters[m]
          /\ \A d \in Caller \ {c} : call'[d] = call[d]
      <4> DEFINE R == [at : {"rest", "create", "take"}, for : M, with : B]
                 s == [call[c] EXCEPT !.at = "take", !.with = limiters[m]]
      <4>1. call \in [Caller -> R] /\ call[c] \in R /\ call' = [call EXCEPT ![c] = s]
          BY <2>1, <3>1
      <4>2. s \in R /\ s.at = "take" /\ s.for = call[c].for /\ s.with = limiters[m]
          BY <3>1, <4>1
      <4> HIDE DEF R, s
      <4>3. call' \in [Caller -> R] /\ call'[c] = s /\ \A d \in Caller \ {c} : call'[d] = call[d]
          BY <4>1, <4>2
      <4> QED
          BY <4>2, <4>3 DEF R
    <3> QED
        BY <1>2, <3>2 DEF M, B
  <2>4. RlTypes'
      BY <1>1, <2>1, <2>3 DEF RlTypes, Buckets, Updates, Updating
  <2>5. RlLinks'
      BY <1>1, <2>1, <2>2, <2>3 DEF RlLinks, Live
  <2>6. \A given \in [DOMAIN bucket -> Nat] : Solvent(given) => Solvent(given)'
      BY <2>1 DEF Solvent, Budget
  <2>7. \A d \in Caller : call'[d].at = "take" =>
               \/ call'[d] = call[d]
               \/ call'[d].for \in Live /\ call'[d].with = limiters[call'[d].for]
      BY <2>2, <2>3
  <2> QED
      BY <2>1, <2>4, <2>5, <2>6, <2>7, SameBooks
<1>4. CASE limiters[m] = None
  <2> DEFINE id == Buckets + 1
             new == NewBucket(m)
  <2>1. /\ bucket' = [b \in 1 .. id |-> IF b = id THEN new ELSE bucket[b]]
        /\ call' = [call EXCEPT ![c].at = "take", ![c].with = id]
        /\ UNCHANGED <<cfg, limit, applying, granted, updatesCross, clock>>
      BY <1>2, <1>4 DEF Create, Buckets
  <2>2. \/ limiters' = [limiters EXCEPT ![m] = id] /\ evicted' = evicted
        \/ \E victim \in Live :
              /\ limiters' = [limiters EXCEPT ![victim] = None, ![m] = id]
              /\ evicted' = [evicted EXCEPT ![victim] = @ + 1]
      BY <1>2, <1>4 DEF Create, Buckets
  <2>3. /\ Buckets \in Nat /\ id \in Nat /\ DOMAIN bucket = 1 .. Buckets
        /\ id \in 1 .. id /\ id # 0 /\ id \notin 1 .. Buckets
        /\ \A b : b \in 1 .. id <=> b \in 1 .. Buckets \/ b = id
      BY <1>1 DEF RlTypes
  <2>4. new \in [tokens : Nat, rps : 0 .. TopRps, burst : 0 .. TopBurst]
        /\ new.rps = limit.rps /\ new.burst = limit.burst /\ new.tokens <= TopBurst
    <3>1. PICK k \in Config : limit = LimitOf(k)
        BY <1>1 DEF RlTypes
    <3>2. /\ limit.rps \in Nat /\ limit.burst \in Nat /\ TopRps \in Nat /\ TopBurst \in Nat
          /\ limit.rps <= TopRps /\ limit.burst <= TopBurst
        BY <3>1, LimitTypes, TopsBound
    <3> QED
        BY <3>2 DEF NewBucket
  <2> HIDE DEF id, new
  <2>5. /\ DOMAIN bucket' = 1 .. id /\ bucket'[id] = new
        /\ \A b \in 1 .. Buckets : bucket'[b] = bucket[b]
      BY <2>1, <2>3
  <2>6. Buckets' = id
      BY <2>3, <2>5, FS_Interval DEF Buckets
  <2>7. bucket' \in [DOMAIN bucket' -> [tokens : Nat, rps : 0 .. TopRps, burst : 0 .. TopBurst]]
    <3>1. \A b \in 1 .. Buckets :
              bucket[b] \in [tokens : Nat, rps : 0 .. TopRps, burst : 0 .. TopBurst]
        BY <1>1, <2>3 DEF RlTypes
    <3>2. \A b \in 1 .. id :
              bucket'[b] \in [tokens : Nat, rps : 0 .. TopRps, burst : 0 .. TopBurst]
        BY <2>3, <2>4, <2>5, <3>1
    <3>3. bucket' = [b \in 1 .. id |-> bucket'[b]]
        BY <2>1
    <3> QED
        BY <2>5, <3>2, <3>3
  <2>8. /\ call'[c].at = "take" /\ call'[c].for = m /\ call'[c].with = id
        /\ \A d \in Caller \ {c} : call'[d] = call[d]
        /\ call' \in [Caller -> [at : {"rest", "create", "take"}, for : Merchant \cup {None},
                                 with : {None} \cup DOMAIN bucket']]
    <3>1. \A d \in Caller :
              call[d] \in [at : {"rest", "create", "take"}, for : Merchant \cup {None},
                           with : {None} \cup (1 .. id)]
        BY <1>1, <2>3 DEF RlTypes
    <3> DEFINE M == Merchant \cup {None}
               B == {None} \cup (1 .. id)
    <3>2. call \in [Caller -> [at : {"rest", "create", "take"}, for : M, with : B]]
      <4>1. call = [d \in Caller |-> call[d]]
          BY <1>1 DEF RlTypes
      <4> QED
          BY <3>1, <4>1
    <3>3. id \in B /\ DOMAIN bucket' = 1 .. id
        BY <2>3, <2>5
    <3> HIDE DEF M, B
    <3>4. /\ call' \in [Caller -> [at : {"rest", "create", "take"}, for : M, with : B]]
          /\ call'[c].at = "take" /\ call'[c].for = call[c].for /\ call'[c].with = id
          /\ \A d \in Caller \ {c} : call'[d] = call[d]
      <4> DEFINE R == [at : {"rest", "create", "take"}, for : M, with : B]
                 s == [call[c] EXCEPT !.at = "take", !.with = id]
      <4>1. call \in [Caller -> R] /\ call[c] \in R /\ call' = [call EXCEPT ![c] = s]
          BY <2>1, <3>2
      <4>2. s \in R /\ s.at = "take" /\ s.for = call[c].for /\ s.with = id
          BY <3>2, <3>3, <4>1
      <4> HIDE DEF R, s
      <4>3. call' \in [Caller -> R] /\ call'[c] = s /\ \A d \in Caller \ {c} : call'[d] = call[d]
          BY <4>1, <4>2
      <4> QED
          BY <4>2, <4>3 DEF R
    <3> QED
        BY <1>2, <3>3, <3>4 DEF M, B
  <2>9. \/ evicted' = evicted /\ limiters' = [limiters EXCEPT ![m] = id]
           /\ Live' = Live \cup {m} /\ \A n \in Live : limiters'[n] = limiters[n]
        \/ \E victim \in Live :
              /\ victim # m /\ Live' = (Live \ {victim}) \cup {m}
              /\ limiters' = [limiters EXCEPT ![victim] = None, ![m] = id]
              /\ \A n \in Live \ {victim} : limiters'[n] = limiters[n]
              /\ evicted' = [evicted EXCEPT ![victim] = @ + 1]
    <3>1. m \notin Live /\ id # None /\ limiters \in [Merchant -> {None} \cup DOMAIN bucket]
        BY <1>1, <1>4, <2>3 DEF Live, RlTypes, None
    <3>2. CASE limiters' = [limiters EXCEPT ![m] = id] /\ evicted' = evicted
        BY <3>1, <3>2 DEF Live
    <3>3. ASSUME NEW victim \in Live,
                 limiters' = [limiters EXCEPT ![victim] = None, ![m] = id],
                 evicted' = [evicted EXCEPT ![victim] = @ + 1]
          PROVE  /\ victim # m /\ Live' = (Live \ {victim}) \cup {m}
                 /\ \A n \in Live \ {victim} : limiters'[n] = limiters[n]
        BY <3>1, <3>3 DEF Live
    <3> QED
        BY <2>2, <3>2, <3>3
  <2>10. limiters' \in [Merchant -> {None} \cup DOMAIN bucket'] /\ limiters'[m] = id
    <3>1. limiters \in [Merchant -> {None} \cup (1 .. id)]
        BY <1>1, <2>3 DEF RlTypes
    <3> QED
        BY <2>2, <2>3, <2>5, <3>1 DEF Live
  <2>11. evicted' \in [Merchant -> Nat]
    <3>1. evicted \in [Merchant -> Nat] /\ Live \subseteq Merchant
        BY <1>1 DEF RlTypes, Live
    <3>2. evicted' = evicted
          \/ \E victim \in Live : evicted' = [evicted EXCEPT ![victim] = @ + 1]
        BY <2>2
    <3> QED
        BY <3>1, <3>2
  <2>12. RlTypes'
    <3>1. DOMAIN bucket' = 1 .. Buckets' /\ Buckets' \in Nat
        BY <2>3, <2>5, <2>6
    <3> QED
        BY <1>1, <2>1, <2>7, <2>8, <2>10, <2>11, <3>1 DEF RlTypes, Updates, Updating
  <2>13. \A n \in Live' : n = m \/ (n \in Live /\ limiters'[n] = limiters[n]
                                     /\ limiters[n] \in 1 .. Buckets)
    <3>1. \A n \in Live : limiters[n] \in 1 .. Buckets
        BY <1>1, <2>3 DEF Live, RlTypes
    <3> QED
        BY <2>9, <3>1
  <2>14. RlLinks'
    <3>1. \A d \in Caller : call'[d].at = "create" => call'[d].for \in Merchant
        BY <1>1, <2>8 DEF RlLinks
    <3>2. \A d \in Caller : call'[d].at = "take" => call'[d].with \in DOMAIN bucket'
        BY <1>1, <2>3, <2>5, <2>8 DEF RlLinks
    <3>3. \A n \in Live' : bucket'[limiters'[n]].rps = limit'.rps
                           /\ bucket'[limiters'[n]].burst = limit'.burst
        BY <1>1, <2>1, <2>4, <2>5, <2>10, <2>13 DEF RlLinks
    <3> QED
        BY <3>1, <3>2, <3>3 DEF RlLinks
  <2>15. PICK owner \in [DOMAIN bucket -> Merchant], given \in [DOMAIN bucket -> Nat] :
             Ledger(owner, given)
      BY DEF RlInv
  <2>23. PICK owner2 : owner2 = [b \in 1 .. id |-> IF b = id THEN m ELSE owner[b]]
      OBVIOUS
  <2>24. PICK given2 : given2 = [b \in 1 .. id |-> IF b = id THEN 0 ELSE given[b]]
      OBVIOUS
  <2>16. /\ owner2 \in [DOMAIN bucket' -> Merchant] /\ given2 \in [DOMAIN bucket' -> Nat]
         /\ owner2[id] = m /\ given2[id] = 0
         /\ \A b \in 1 .. Buckets : owner2[b] = owner[b] /\ given2[b] = given[b]
      BY <2>3, <2>5, <2>23, <2>24
  <2>17. /\ Owned(owner2, m) = Owned(owner, m) \cup {id} /\ id \notin Owned(owner, m)
         /\ \A n \in Merchant \ {m} : Owned(owner2, n) = Owned(owner, n)
         /\ \A n \in Merchant : Taken(owner2, given2, n) = Taken(owner, given, n)
    <3>1. DOMAIN owner = 1 .. Buckets /\ DOMAIN owner2 = 1 .. id
        BY <2>3, <2>23
    <3>2. /\ Owned(owner2, m) = Owned(owner, m) \cup {id} /\ id \notin Owned(owner, m)
          /\ \A n \in Merchant \ {m} : Owned(owner2, n) = Owned(owner, n)
        BY <2>3, <2>16, <3>1 DEF Owned
    <3>3. ASSUME NEW n \in Merchant PROVE Taken(owner2, given2, n) = Taken(owner, given, n)
      <4>1. \A p \in Nat \X Nat : p[1] \in Owned(owner, n) => given2[p[1]] = given[p[1]]
          BY <2>16, <3>1 DEF Owned
      <4>2. \A p \in Nat \X Nat : p[2] \in 1 .. given2[p[1]] => p[1] # id
          BY <2>16
      <4>3. \A p \in Nat \X Nat : p[1] # id =>
                (p[1] \in Owned(owner2, n) <=> p[1] \in Owned(owner, n))
          BY <3>2
      <4>4. id \notin Owned(owner, n)
          BY <2>3, <3>1 DEF Owned
      <4> QED
          BY <4>1, <4>2, <4>3, <4>4 DEF Taken
    <3> QED
        BY <3>2, <3>3
  <2>18. Solvent(given2)'
    <3>1. Budget' = Budget /\ Budget \in Nat /\ TopBurst <= Budget /\ TopBurst \in Nat
        BY <1>1, <2>1, BudgetHolds DEF Budget
    <3>2. given2[id] + bucket'[id].tokens <= Budget
        BY <2>4, <2>5, <2>16, <3>1
    <3>3. \A b \in 1 .. Buckets : given2[b] + bucket'[b].tokens <= Budget
        BY <2>3, <2>5, <2>15, <2>16 DEF Ledger, Solvent
    <3> QED
        BY <2>3, <2>5, <3>1, <3>2, <3>3 DEF Solvent
  <2>19. Own(owner2)'
    <3>1. \A n \in Live' : owner2[limiters'[n]] = n
        BY <2>10, <2>13, <2>15, <2>16 DEF Ledger, Own
    <3>2. \A d \in Caller : call'[d].at = "take" => owner2[call'[d].with] = call'[d].for
        BY <1>1, <2>3, <2>8, <2>15, <2>16 DEF Ledger, Own, RlLinks
    <3> QED
        BY <3>1, <3>2 DEF Own
  <2>20. Counted(owner2)'
    <3> SUFFICES ASSUME NEW n \in Merchant
                 PROVE  /\ IsFiniteSet(Owned(owner2, n))
                        /\ Cardinality(Owned(owner2, n)) =
                               IF n \in Live' THEN evicted'[n] + 1 ELSE evicted'[n]
        BY DEF Counted
    <3>1. /\ IsFiniteSet(Owned(owner, n)) /\ evicted[n] \in Nat
          /\ Cardinality(Owned(owner, n)) = IF n \in Live THEN evicted[n] + 1 ELSE evicted[n]
        BY <1>1, <2>15 DEF Ledger, Counted, RlTypes
    <3>2. CASE n = m
      <4>1. /\ IsFiniteSet(Owned(owner2, m))
            /\ Cardinality(Owned(owner2, m)) = Cardinality(Owned(owner, m)) + 1
          BY <2>17, <3>1, <3>2, FS_AddElement
      <4>2. n \notin Live /\ n \in Live' /\ evicted'[n] = evicted[n]
          BY <1>1, <1>4, <2>9, <3>2 DEF Live, RlTypes
      <4> QED
          BY <3>1, <3>2, <4>1, <4>2
    <3>3. CASE n # m
      <4>1. Owned(owner2, n) = Owned(owner, n)
          BY <2>17, <3>3
      <4>2. (IF n \in Live' THEN evicted'[n] + 1 ELSE evicted'[n])
              = (IF n \in Live THEN evicted[n] + 1 ELSE evicted[n])
        <5>1. evicted \in [Merchant -> Nat]
            BY <1>1 DEF RlTypes
        <5> QED
            BY <2>9, <3>1, <3>3, <5>1
      <4> QED
          BY <3>1, <4>1, <4>2
    <3> QED
        BY <3>2, <3>3
  <2>21. Booked(owner2, given2)'
      BY <2>1, <2>15, <2>17 DEF Ledger, Booked
  <2>22. Ledger(owner2, given2)'
      BY <2>18, <2>19, <2>20, <2>21 DEF Ledger
  <2> QED
      BY <2>12, <2>14, <2>16, <2>22 DEF RlInv
<1> QED
    BY <1>3, <1>4

LEMMA TakeTokenKeeps == ASSUME RlInv, NEW c \in Caller, TakeToken(c) PROVE RlInv'
<1>1. RlTypes /\ RlLinks
    BY DEF RlInv
<1>2. PICK owner \in [DOMAIN bucket -> Merchant], given \in [DOMAIN bucket -> Nat] :
          Ledger(owner, given)
    BY DEF RlInv
<1>3. PICK b \in DOMAIN bucket : b = call[c].with
    BY <1>1 DEF RlLinks, TakeToken
<1>4. PICK m \in Merchant : m = call[c].for /\ m = owner[b]
    BY <1>2, <1>3 DEF Ledger, Own, TakeToken
<1> DEFINE has == Smaller(bucket[b].tokens, bucket[b].burst)
           left == IF has > 0 THEN has - 1 ELSE has
<1>5. /\ call' = [call EXCEPT ![c] = Resting]
      /\ bucket' = [bucket EXCEPT ![b].tokens = left]
      /\ granted' = [granted EXCEPT ![m] = IF has > 0 THEN @ + 1 ELSE @]
      /\ UNCHANGED <<cfg, limit, applying, limiters, evicted, updatesCross, clock>>
    BY <1>3, <1>4 DEF TakeToken
<1>6. /\ bucket \in [DOMAIN bucket -> [tokens : Nat, rps : 0 .. TopRps, burst : 0 .. TopBurst]]
      /\ bucket[b].tokens \in Nat /\ bucket[b].burst \in Nat
      /\ granted \in [Merchant -> Nat]
  <2>1. /\ bucket \in [DOMAIN bucket -> [tokens : Nat, rps : 0 .. TopRps, burst : 0 .. TopBurst]]
        /\ granted \in [Merchant -> Nat]
      BY <1>1 DEF RlTypes
  <2>2. bucket[b] \in [tokens : Nat, rps : 0 .. TopRps, burst : 0 .. TopBurst]
      BY <2>1
  <2>3. TopBurst \in Nat
      BY <1>1, BudgetHolds
  <2> QED
      BY <2>1, <2>2, <2>3
<1>7. /\ has \in Nat /\ left \in Nat /\ left <= bucket[b].tokens
      /\ has > 0 => left + 1 <= bucket[b].tokens
    BY <1>6 DEF Smaller
<1> HIDE DEF has, left
<1>8. /\ DOMAIN bucket' = DOMAIN bucket /\ bucket'[b].tokens = left
      /\ \A d \in DOMAIN bucket : /\ bucket'[d].rps = bucket[d].rps
                                  /\ bucket'[d].burst = bucket[d].burst
                                  /\ d # b => bucket'[d] = bucket[d]
      /\ bucket' \in [DOMAIN bucket -> [tokens : Nat, rps : 0 .. TopRps, burst : 0 .. TopBurst]]
    BY <1>5, <1>6, <1>7
<1>9. /\ call'[c] = Resting /\ \A d \in Caller \ {c} : call'[d] = call[d]
      /\ call' \in [Caller -> [at : {"rest", "create", "take"}, for : Merchant \cup {None},
                               with : {None} \cup DOMAIN bucket]]
    BY <1>1, <1>5 DEF RlTypes, Resting
<1>10. /\ granted' \in [Merchant -> Nat]
       /\ granted'[m] = (IF has > 0 THEN granted[m] + 1 ELSE granted[m])
       /\ \A n \in Merchant \ {m} : granted'[n] = granted[n]
    BY <1>5, <1>6
<1>11. RlTypes'
    BY <1>1, <1>5, <1>8, <1>9, <1>10 DEF RlTypes, Buckets, Updates, Updating
<1>12. Live' = Live /\ \A n \in Live : limiters[n] \in DOMAIN bucket
    BY <1>1, <1>5 DEF Live, RlTypes
<1>13. RlLinks'
    BY <1>1, <1>5, <1>8, <1>9, <1>12 DEF RlLinks, Resting
<1>19. PICK given2 : given2 = IF has > 0 THEN [given EXCEPT ![b] = @ + 1] ELSE given
    OBVIOUS
<1>14. /\ given2 \in [DOMAIN bucket -> Nat]
       /\ given2[b] = (IF has > 0 THEN given[b] + 1 ELSE given[b]) /\ given[b] \in Nat
       /\ \A d \in DOMAIN bucket \ {b} : given2[d] = given[d]
    BY <1>19
<1>15. Solvent(given2)'
  <2>1. Budget' = Budget /\ Budget \in Nat
      BY <1>1, <1>5, BudgetHolds DEF Budget
  <2>2. given[b] + bucket[b].tokens <= Budget
      BY <1>2 DEF Ledger, Solvent
  <2>3. given2[b] + bucket'[b].tokens <= Budget
      BY <1>6, <1>7, <1>8, <1>14, <2>1, <2>2
  <2>4. \A d \in DOMAIN bucket \ {b} : given2[d] + bucket'[d].tokens <= Budget
      BY <1>2, <1>8, <1>14 DEF Ledger, Solvent
  <2> QED
      BY <1>8, <2>1, <2>3, <2>4 DEF Solvent
<1>16. Own(owner)' /\ Counted(owner)'
  <2>1. Own(owner)'
      BY <1>2, <1>5, <1>9, <1>12 DEF Ledger, Own, Resting
  <2>2. Counted(owner)'
      BY <1>2, <1>5, <1>12 DEF Ledger, Counted
  <2> QED
      BY <2>1, <2>2
<1>17. Booked(owner, given2)'
  <2> SUFFICES ASSUME NEW n \in Merchant
               PROVE  /\ IsFiniteSet(Taken(owner, given2, n))
                      /\ Cardinality(Taken(owner, given2, n)) = granted'[n]
      BY DEF Booked
  <2>1. /\ IsFiniteSet(Taken(owner, given, n))
        /\ Cardinality(Taken(owner, given, n)) = granted[n]
      BY <1>2 DEF Ledger, Booked
  <2>2. DOMAIN bucket \subseteq Nat /\ DOMAIN owner = DOMAIN bucket
      BY <1>1 DEF RlTypes
  <2>3. CASE n = m /\ has > 0
    <3> DEFINE e == <<b, given[b] + 1>>
               T == Taken(owner, given, n)
    <3>1. e \notin T
        BY <1>14 DEF Taken
    <3>2. Taken(owner, given2, n) = T \cup {e}
      <4>1. b \in Owned(owner, n) /\ e \in Nat \X Nat
          BY <1>4, <1>14, <2>2, <2>3 DEF Owned
      <4>2. given2[b] = given[b] + 1 /\ given[b] \in Nat
          BY <1>14, <2>3
      <4>3. \A d \in Owned(owner, n) : d # b => given2[d] = given[d]
          BY <1>14, <2>2 DEF Owned
      <4>4. ASSUME NEW p \in Nat \X Nat
            PROVE  p \in Taken(owner, given2, n) <=> p \in T \/ p = e
        <5>1. PICK d \in Nat, k \in Nat : p = <<d, k>>
            OBVIOUS
        <5>2. CASE d = b
            BY <4>1, <4>2, <5>1, <5>2 DEF Taken
        <5>3. CASE d # b
            BY <4>3, <5>1, <5>3 DEF Taken
        <5> QED
            BY <5>2, <5>3
      <4>5. Taken(owner, given2, n) \subseteq Nat \X Nat /\ T \subseteq Nat \X Nat
          BY DEF Taken
      <4> HIDE DEF e, T
      <4> QED
          BY <4>1, <4>4, <4>5
    <3> HIDE DEF e
    <3>3. granted'[n] = granted[n] + 1
        BY <1>10, <2>3
    <3>4. IsFiniteSet(T \cup {e}) /\ Cardinality(T \cup {e}) = Cardinality(T) + 1
        BY <2>1, <3>1, FS_AddElement
    <3> QED
        BY <2>1, <3>2, <3>3, <3>4
  <2>4. CASE ~(n = m /\ has > 0)
    <3>1. \A d \in Owned(owner, n) : given2[d] = given[d]
        BY <1>4, <1>14, <2>2, <2>4 DEF Owned
    <3>2. Taken(owner, given2, n) = Taken(owner, given, n)
        BY <3>1 DEF Taken
    <3> QED
        BY <1>10, <2>1, <2>4, <3>2
  <2> QED
      BY <2>3, <2>4
<1>18. Ledger(owner, given2)'
    BY <1>15, <1>16, <1>17 DEF Ledger
<1> QED
    BY <1>8, <1>11, <1>13, <1>14, <1>18 DEF RlInv

LEMMA RlNextInv == RlInv /\ [RlNext]_rlVars => RlInv'
<1> SUFFICES ASSUME RlInv, [RlNext]_rlVars PROVE RlInv'
    OBVIOUS
<1>1. CASE UNCHANGED rlVars
  <2>1. /\ UNCHANGED <<cfg, limit, applying, limiters, bucket, call, granted, evicted,
                     updatesCross, clock>>
      BY <1>1 DEF rlVars
  <2>2. RlTypes' /\ RlLinks'
      BY <2>1 DEF RlInv, RlTypes, RlLinks, Buckets, Live, Updates, Updating
  <2>3. \A given \in [DOMAIN bucket -> Nat] : Solvent(given) => Solvent(given)'
      BY <2>1 DEF Solvent, Budget
  <2> QED
      BY <2>1, <2>2, <2>3, SameBooks
<1> QED
    BY <1>1, LookKeeps, CreateKeeps, TakeTokenKeeps, StoreConfigKeeps, ApplyConfigKeeps,
       ClockTickKeeps
    DEF RlNext

\* ratelimit.go, merchant.go: however calls race for a bucket, are evicted from
\* it and see the limits change, no merchant takes more than its full bucket and
\* refills, once for its first bucket and once for each it lost.  Every live bucket
\* runs at the same limits, and after updates that did not overlap these are the
\* limits of the configuration in force; for overlapping ones nothing is claimed,
\* since the older may apply last.
THEOREM LimiterHolds == RlSpec => []NoOverdraft
<1> QED
    BY RlInitInv, RlNextInv, RlInvNoOverdraft, PTL DEF RlSpec

-------------------------------------------------------------------------------
(* A bound struct follows its key.                                         *)

Slots == [at : {"idle", "fire", "store"} \cup Change, val : 0 .. last, active : 0 .. last,
          pending : 0 .. last]

\* What a goroutine is about to make active has come into effect once.
Reached(v) == v # 0 => age[v] # "early"
Came ==
    /\ Reached(active) /\ Reached(watch.active)
    /\ watch.at \in {"immediate", "fire"} => Reached(watch.val)
    /\ swap.at = "store" => Reached(swap.val)
    /\ swap.at = "otherKey" => Reached(swap.active)

\* Alone at work, a goroutine stores over the snapshot it loaded.
Alone ==
    /\ watch = Off \/ swap = Off
    /\ watch.at \in Change \ {"immediate"} => watch.active = active /\ watch.pending = pending
    /\ watch.at = "fire" => active = watch.val /\ pending = 0
    /\ swap.at = "store" => pending = swap.val
    /\ swap.at = "otherKey" => swap.active = active /\ swap.pending = pending

\* From Bind's read on: what the struct is while the entry is not being replaced,
\* and while the swapper has announced the value it will store.
Follows ==
    /\ /\ swap.at # "store" /\ watch.at \notin {"immediate", "fire"}
       /\ InForce(active) /\ active \notin Broken
       => bound = active \/ (pending # 0 /\ bound = pending)
    /\ swap.at = "store" /\ InForce(swap.val) /\ swap.val \notin Broken => bound = swap.val

BiInv ==
    /\ BiTypeOK
    /\ watch \in Slots /\ (watch.at = "idle" => watch = Off) /\ watch.at # "store"
    /\ swap \in Slots /\ swap.at \in {"idle", "store", "otherKey"} /\ (swap.at = "idle" => swap = Off)
    /\ Came
    /\ ~crossed => Alone
    /\ ~crossed /\ ~missed /\ binder # "before" => Follows

LEMMA BiInitInv == BiInit => BiInv
<1> SUFFICES ASSUME BiInit PROVE BiInv
    OBVIOUS
<1>1. BiTypeOK /\ Off \in Slots /\ Off.at = "idle" /\ Off.active = 0
    BY BindingAssumption DEF BiInit, BiTypeOK, Slots, Off
<1> QED
    BY <1>1 DEF BiInit, BiInv, Came, Reached, Alone, Change

LEMMA BiScalars ==
    ASSUME BiInv
    PROVE  /\ last \in Nat /\ last <= MaxChanges /\ MaxChanges \in Nat
           /\ age \in [1 .. MaxChanges -> {"early", "now", "over"}]
           /\ active \in 0 .. last /\ pending \in 0 .. last /\ fallback \in 0 .. last
           /\ bound \in 0 .. last
           /\ binder \in {"before", "read", "listening"}
           /\ watch.val \in 0 .. last /\ watch.active \in 0 .. last /\ watch.pending \in 0 .. last
           /\ swap.val \in 0 .. last /\ swap.active \in 0 .. last /\ swap.pending \in 0 .. last
    BY BindingAssumption DEF BiInv, BiTypeOK, Slots

\* Nothing in effect becomes early again, and nothing comes into effect twice.
LEMMA TimePassesKeeps == ASSUME BiInv, TimePasses PROVE BiInv'
<1>1. /\ UNCHANGED <<last, active, pending, fallback, watch, swap, binder, bound, missed, crossed>>
      /\ \E v \in 1 .. last :
            \/ age[v] = "early" /\ age' = [age EXCEPT ![v] = "now"]
            \/ age[v] = "now" /\ age' = [age EXCEPT ![v] = "over"]
    BY DEF TimePasses
<1>2. /\ age' \in [1 .. MaxChanges -> {"early", "now", "over"}]
      /\ \A v \in 1 .. MaxChanges : /\ age[v] # "early" => age'[v] # "early"
                                    /\ age[v] # "early" /\ age'[v] = "now" => age[v] = "now"
    BY <1>1, BiScalars
<1>3. \A v \in 0 .. last : /\ Reached(v) => Reached(v)'
                           /\ Reached(v) /\ InForce(v)' => InForce(v)
    BY <1>2, BiScalars DEF Reached, InForce
<1>4. BiTypeOK'
    BY <1>1, <1>2 DEF BiInv, BiTypeOK
<1>5. Came /\ Came'
    BY <1>1, <1>3, BiScalars DEF BiInv, Came
<1>6. Alone => Alone'
    BY <1>1 DEF Alone
<1>7. Follows => Follows'
    BY <1>1, <1>3, <1>5, BiScalars DEF Follows, Came
<1>8. Slots' = Slots
    BY <1>1 DEF Slots
<1> QED
    BY <1>1, <1>4, <1>5, <1>6, <1>7, <1>8 DEF BiInv

LEMMA EventLoadsKeeps == ASSUME BiInv, NEW kind \in Change, EventLoads(kind) PROVE BiInv'
<1>1. /\ watch = Off
      /\ watch' = [at |-> kind, val |-> last', active |-> active, pending |-> pending]
      /\ crossed' = (swap # Off \/ (crossed /\ kind # "immediate"))
      /\ UNCHANGED <<active, pending, fallback, swap, binder, bound, missed>>
    BY DEF EventLoads
<1>2. /\ last' \in Nat /\ last' <= MaxChanges /\ last <= last' /\ last' \in 0 .. last'
      /\ (0 .. last) \subseteq (0 .. last')
      /\ age' \in [1 .. MaxChanges -> {"early", "now", "over"}]
      /\ \A v \in 1 .. MaxChanges : age[v] # "early" => age'[v] # "early"
      /\ \A v \in 1 .. last : age'[v] = age[v]
      /\ kind = "immediate" => last' # 0 /\ age'[last'] = "now"
  <2>1. CASE kind = "otherKey"
      BY <2>1, BiScalars DEF EventLoads
  <2>2. CASE kind # "otherKey"
    <3>1. /\ last < MaxChanges /\ last' = last + 1
        BY <2>2 DEF EventLoads
    <3>2. /\ last' \in 1 .. MaxChanges /\ last' \notin 1 .. last /\ last' # 0
          /\ last' \in Nat /\ last' <= MaxChanges /\ last <= last' /\ last' \in 0 .. last'
          /\ (0 .. last) \subseteq (0 .. last') /\ (1 .. last) \subseteq (1 .. MaxChanges)
        BY <3>1, BiScalars
    <3>3. PICK w \in {"early", "now", "over"} : /\ age' = [age EXCEPT ![last'] = w]
                                                /\ w = "early" => age[last'] = "early"
                                                /\ kind = "immediate" => w = "now"
      <4>1. age[last'] \in {"early", "now", "over"}
          BY <3>2, BiScalars
      <4>2. /\ kind = "immediate" => age' = [age EXCEPT ![last'] = "now"]
            /\ kind = "delete" => age' = [age EXCEPT ![last'] = "over"]
            /\ kind \notin {"immediate", "delete"} => age' = [age EXCEPT ![last'] = age[last']]
          BY <2>2 DEF EventLoads
      <4> QED
          BY <4>1, <4>2
    <3>4. /\ age' \in [1 .. MaxChanges -> {"early", "now", "over"}]
          /\ age'[last'] = w /\ \A v \in 1 .. MaxChanges : v # last' => age'[v] = age[v]
        BY <3>2, <3>3, BiScalars
    <3> QED
        BY <3>2, <3>3, <3>4
  <2> QED
      BY <2>1, <2>2
<1>3. \A v \in 0 .. last : (Reached(v) => Reached(v)') /\ (InForce(v)' <=> InForce(v))
    BY <1>2, BiScalars DEF Reached, InForce
<1>4. /\ watch'.at = kind /\ watch'.val = last' /\ watch'.active = active
      /\ watch'.pending = pending /\ kind \notin {"idle", "fire", "store"} /\ watch.at = "idle"
    BY <1>1 DEF Change, Off
<1>5. BiTypeOK' /\ watch' \in Slots' /\ swap' \in Slots'
  <2>1. BiTypeOK'
      BY <1>1, <1>2, BiScalars DEF BiTypeOK
  <2>2. watch' \in Slots'
      BY <1>1, <1>2, BiScalars DEF Slots
  <2>3. swap' \in Slots'
      BY <1>1, <1>2 DEF Slots, BiInv
  <2> QED
      BY <2>1, <2>2, <2>3
<1>6. Came'
    BY <1>1, <1>2, <1>3, <1>4, BiScalars DEF BiInv, Came, Reached
<1>7. ~crossed' => Alone'
    BY <1>1, <1>4 DEF Alone, BiInv, Off
<1>8. ~crossed' /\ ~missed' /\ binder' # "before" => Follows'
    BY <1>1, <1>3, <1>4, BiScalars DEF Follows, BiInv, Off
<1> QED
    BY <1>1, <1>4, <1>5, <1>6, <1>7, <1>8 DEF BiInv

LEMMA EventStoresKeeps == ASSUME BiInv, EventStores PROVE BiInv'
<1>1. /\ watch.at \in Change /\ fallback' = watch.active
      /\ missed' = (missed \/ (watch.at = "scheduled" /\ pending # 0 /\ bound = pending))
      /\ UNCHANGED <<last, age, swap, binder, bound, crossed>>
      /\ watch' = IF watch.at = "immediate" THEN [watch EXCEPT !.at = "fire"] ELSE Off
    BY DEF EventStores
<1>2. /\ watch.at = "immediate" => active' = watch.val /\ pending' = 0
      /\ watch.at = "scheduled" => active' = watch.active /\ pending' = watch.val
      /\ watch.at = "delete" => active' = 0 /\ pending' = 0
      /\ watch.at = "otherKey" => active' = watch.active /\ pending' = watch.pending
    BY DEF EventStores
<1>3. watch.at \in {"immediate", "scheduled", "delete", "otherKey"}
    BY <1>1 DEF Change
<1>4. /\ watch \in Slots /\ Slots' = Slots /\ Off \in Slots
      /\ Off.at = "idle" /\ Off.active = 0
    BY <1>1, BiScalars DEF BiInv, Slots, Off
<1>5. /\ watch' \in Slots /\ watch'.at \in {"idle", "fire"}
      /\ watch.at = "immediate" => /\ watch'.at = "fire" /\ watch'.val = watch.val
                                   /\ watch'.active = watch.active
      /\ watch.at # "immediate" => watch' = Off
  <2>1. CASE watch.at = "immediate"
      BY <1>1, <1>4, <2>1 DEF Slots
  <2>2. CASE watch.at # "immediate"
      BY <1>1, <1>4, <2>2
  <2> QED
      BY <2>1, <2>2
<1>6. BiTypeOK'
    BY <1>1, <1>2, <1>3, BiScalars DEF BiInv, BiTypeOK
<1>7. Came'
    BY <1>1, <1>2, <1>3, <1>4, <1>5 DEF BiInv, Came, Reached
<1>8. ~crossed => Alone'
    BY <1>1, <1>2, <1>3, <1>4, <1>5 DEF BiInv, Alone, Change
<1>9. ~crossed' /\ ~missed' /\ binder' # "before" => Follows'
  <2> SUFFICES ASSUME ~crossed, ~missed', binder # "before"
               PROVE  Follows'
      BY <1>1
  <2>7. ~missed
      BY <1>1, Zenon
  <2>8. watch # Off
      BY <1>3, <1>4
  <2>1. Alone /\ Follows /\ swap = Off /\ swap.at = "idle"
      BY <1>4, <2>7, <2>8 DEF BiInv, Alone
  <2>2. InForce(0)' = FALSE
      BY DEF InForce
  <2>3. \A v : InForce(v)' <=> InForce(v)
      BY <1>1 DEF InForce
  <2>4. CASE watch.at = "immediate"
      BY <1>1, <1>5, <2>1, <2>4 DEF Follows
  <2>5. CASE watch.at = "delete"
      BY <1>1, <1>2, <2>1, <2>2, <2>5 DEF Follows
  <2>6. CASE watch.at \in {"scheduled", "otherKey"}
    <3>1. watch.active = active /\ watch.pending = pending
        BY <2>1, <2>6 DEF Alone, Change
    <3> QED
        BY <1>1, <1>2, <2>1, <2>3, <2>6, <3>1 DEF Follows
  <2> QED
      BY <1>3, <2>4, <2>5, <2>6
<1> QED
    BY <1>1, <1>4, <1>5, <1>6, <1>7, <1>8, <1>9 DEF BiInv

LEMMA WatchFiresKeeps == ASSUME BiInv, WatchFires PROVE BiInv'
<1>1. /\ watch.at = "fire" /\ watch' = Off
      /\ bound' = IF binder = "listening" THEN Decoded(watch.val) ELSE bound
      /\ missed' = IF binder = "listening" /\ watch.val \notin Broken THEN FALSE
                   ELSE missed \/ binder = "read"
      /\ UNCHANGED <<last, age, active, pending, fallback, swap, binder, crossed>>
    BY DEF WatchFires, Fire
<1>2. bound' \in 0 .. last /\ (binder = "listening" /\ watch.val \notin Broken /\ watch.val # 0
                                 => bound' = watch.val)
    BY <1>1, BiScalars DEF Decoded
<1>3. BiTypeOK' /\ Slots' = Slots /\ Off \in Slots /\ Off.at = "idle" /\ Off.active = 0
    BY <1>1, <1>2, BiScalars DEF BiInv, BiTypeOK, Slots, Off
<1>4. Came'
    BY <1>1, <1>3 DEF BiInv, Came, Reached
<1>5. ~crossed => Alone' /\ Alone /\ swap.at = "idle" /\ active = watch.val
    BY <1>1, <1>3 DEF BiInv, Alone, Change, Off
<1>6. ~crossed' /\ ~missed' /\ binder' # "before" => Follows'
    BY <1>1, <1>2, <1>3, <1>5, BiScalars DEF Follows, InForce
<1> QED
    BY <1>1, <1>3, <1>4, <1>5, <1>6 DEF BiInv

LEMMA SwapFiresKeeps == ASSUME BiInv, SwapFires PROVE BiInv'
<1>1. /\ swap = Off /\ InForce(pending)
      /\ swap' = [at |-> "store", val |-> pending, active |-> active, pending |-> pending]
      /\ bound' = IF binder = "listening" THEN Decoded(pending) ELSE bound
      /\ missed' = IF binder = "listening" /\ pending \notin Broken THEN FALSE
                   ELSE missed \/ binder = "read"
      /\ crossed' = (watch # Off)
      /\ UNCHANGED <<last, age, active, pending, fallback, watch, binder>>
    BY DEF SwapFires, Fire
<1>2. /\ bound' \in 0 .. last /\ pending # 0 /\ age[pending] = "now"
      /\ binder = "listening" /\ pending \notin Broken => bound' = pending
    BY <1>1, BiScalars DEF Decoded, InForce
<1>3. BiTypeOK' /\ Slots' = Slots /\ Off.at = "idle" /\ swap' \in Slots
      /\ swap'.at = "store" /\ swap'.val = pending
    BY <1>1, <1>2, BiScalars DEF BiInv, BiTypeOK, Slots, Off
<1>4. Came'
    BY <1>1, <1>2, <1>3 DEF BiInv, Came, Reached
<1>5. ~crossed' => Alone'
    BY <1>1, <1>3 DEF BiInv, Alone, Change
<1>6. ~crossed' /\ ~missed' /\ binder' # "before" => Follows'
    BY <1>1, <1>2, <1>3, BiScalars DEF Follows
<1> QED
    BY <1>1, <1>3, <1>4, <1>5, <1>6 DEF BiInv

LEMMA SwapOtherKeeps == ASSUME BiInv, SwapOther PROVE BiInv'
<1>1. /\ swap = Off
      /\ swap' = [at |-> "otherKey", val |-> 0, active |-> active, pending |-> pending]
      /\ crossed' = (crossed \/ watch # Off)
      /\ UNCHANGED <<last, age, active, pending, fallback, watch, binder, bound, missed>>
    BY DEF SwapOther
<1>2. BiTypeOK' /\ Slots' = Slots /\ Off.at = "idle" /\ swap' \in Slots
      /\ swap'.at = "otherKey" /\ swap'.active = active /\ swap'.pending = pending
    BY <1>1, BiScalars DEF BiInv, BiTypeOK, Slots, Off, Change
<1>3. Came'
    BY <1>1, <1>2 DEF BiInv, Came, Reached
<1>4. ~crossed' => ~crossed /\ watch' = Off
    BY <1>1
<1>5. ~crossed' => Alone'
    BY <1>1, <1>2, <1>4 DEF BiInv, Alone, Change
<1>6. ~crossed' /\ ~missed' /\ binder' # "before" => Follows'
  <2>1. swap.at # "store" /\ swap'.at # "store" /\ (Follows => Follows')
      BY <1>1, <1>2 DEF Follows, InForce
  <2> QED
      BY <1>1, <1>4, <2>1 DEF BiInv
<1> QED
    BY <1>1, <1>2, <1>3, <1>5, <1>6 DEF BiInv

LEMMA SwapStoresKeeps == ASSUME BiInv, SwapStores PROVE BiInv'
<1>1. /\ \/ swap.at = "store" /\ active' = swap.val /\ pending' = 0
         \/ swap.at = "otherKey" /\ active' = swap.active /\ pending' = swap.pending
      /\ fallback' = swap.active /\ swap' = Off
      /\ UNCHANGED <<last, age, watch, binder, bound, missed, crossed>>
    BY DEF SwapStores
<1>2. BiTypeOK' /\ Slots' = Slots /\ Off \in Slots /\ Off.at = "idle"
    BY <1>1, BiScalars DEF BiInv, BiTypeOK, Slots, Off
<1>3. Came'
    BY <1>1, <1>2 DEF BiInv, Came, Reached
<1>4. ~crossed => Alone /\ watch = Off /\ watch.at = "idle" /\ Alone'
    BY <1>1, <1>2 DEF BiInv, Alone, Change, Off
<1>5. ~crossed' /\ ~missed' /\ binder' # "before" => Follows'
  <2> SUFFICES ASSUME ~crossed, ~missed, binder # "before" PROVE Follows'
      BY <1>1
  <2>1. Follows /\ Alone /\ watch.at = "idle" /\ \A v : InForce(v)' <=> InForce(v)
      BY <1>1, <1>4 DEF BiInv, InForce
  <2>2. CASE swap.at = "store"
      BY <1>1, <1>2, <2>1, <2>2 DEF Follows
  <2>3. CASE swap.at = "otherKey"
      BY <1>1, <1>2, <2>1, <2>3 DEF Follows, Alone
  <2> QED
      BY <1>1, <2>2, <2>3
<1> QED
    BY <1>1, <1>2, <1>3, <1>4, <1>5 DEF BiInv

LEMMA BindReadsKeeps == ASSUME BiInv, BindReads PROVE BiInv'
<1>1. /\ binder = "before" /\ binder' = "read" /\ bound' = Decoded(Get)
      /\ missed' = (missed \/ Get \in Broken)
      /\ UNCHANGED <<last, age, active, pending, fallback, watch, swap, crossed>>
    BY DEF BindReads
<1>2. /\ Get \in 0 .. last
      /\ InForce(pending) => Get = pending /\ Get # 0
      /\ ~InForce(pending) /\ InForce(active) => Get = active /\ Get # 0
    BY BiScalars DEF Get, InForce
<1>3. bound' \in 0 .. last /\ (Get # 0 /\ ~missed' => bound' = Get)
    BY <1>1, <1>2, BiScalars DEF Decoded
<1>4. BiTypeOK' /\ Slots' = Slots
    BY <1>1, <1>3, BiScalars DEF BiInv, BiTypeOK, Slots
<1>5. Came' /\ (Alone => Alone')
    BY <1>1 DEF BiInv, Came, Reached, Alone
<1>6. ~crossed' /\ ~missed' /\ binder' # "before" => Follows'
  <2> SUFFICES ASSUME ~crossed, ~missed' PROVE Follows'
      BY <1>1
  <2>1. Alone /\ \A v : InForce(v)' <=> InForce(v)
      BY <1>1 DEF BiInv, InForce
  <2>2. InForce(pending) => pending # 0
      BY DEF InForce
  <2> QED
      BY <1>1, <1>2, <1>3, <2>1, <2>2 DEF Follows, Alone
<1> QED
    BY <1>1, <1>4, <1>5, <1>6 DEF BiInv

LEMMA BiNextInv == BiInv /\ [BiNext]_biVars => BiInv'
<1> SUFFICES ASSUME BiInv, [BiNext]_biVars PROVE BiInv'
    OBVIOUS
<1>1. CASE BindListens \/ UNCHANGED biVars
  <2>1. /\ UNCHANGED <<last, age, active, pending, fallback, watch, swap, bound, missed, crossed>>
        /\ binder' \in {"read", "listening", binder} /\ (binder = "before" => binder' = binder)
      BY <1>1 DEF BindListens, biVars
  <2>2. BiTypeOK' /\ Slots' = Slots
      BY <2>1, BiScalars DEF BiTypeOK, Slots
  <2>3. Came' = Came /\ Alone' = Alone /\ Follows' = Follows
      BY <2>1 DEF Came, Reached, Alone, Follows, InForce
  <2> QED
      BY <2>1, <2>2, <2>3 DEF BiInv
<1> QED
    BY <1>1, TimePassesKeeps, EventLoadsKeeps, EventStoresKeeps, WatchFiresKeeps,
       SwapFiresKeeps, SwapOtherKeeps, SwapStoresKeeps, BindReadsKeeps
    DEF BiNext

\* configcenter/client.go, Bind and fireListeners: in every order of the watch
\* loop, the swapper, the clock and Bind, a registered struct is the active value
\* (or the pending one that Bind read from Get) once nobody is at work, but for the
\* cases the history names.
THEOREM BoundStructFollows == BiSpec => []BoundFollows
<1>1. BiInv => BoundFollows
  <2> SUFFICES ASSUME BiInv, binder = "listening", ~Running, ~missed, ~crossed,
                      InForce(active), active \notin Broken
               PROVE  bound = active \/ (pending # 0 /\ bound = pending)
      BY DEF BoundFollows
  <2>1. Follows /\ swap.at = "idle" /\ watch.at = "idle"
      BY DEF BiInv, Running
  <2> QED
      BY <2>1 DEF Follows
<1> QED
    BY <1>1, BiInitInv, BiNextInv, PTL DEF BiSpec

-------------------------------------------------------------------------------
(* Feature flags: a rollout that is raised.                                *)

\* A flag that differs in a percentage that is no lower decides no key the
\* other way, unless the default decided.
LEMMA RaisedKeeps ==
    ASSUME NEW f \in Flag, NEW g \in Flag, NEW k \in Who,
           BoolFor(f, k), ~BoolFor(g, k),
           g.include = f.include, g.exclude = f.exclude, g.default = f.default,
           g.percent >= f.percent
    PROVE  f.default = "on" /\ f.percent = 0
<1> USE FlagAssumption
<1>1. f.percent \in Nat /\ g.percent \in Nat /\ Full \in Nat \ {0} /\ f.percent <= Full /\ g.percent <= Full
    BY DEF Flag
<1>2. k \notin f.include \cup f.exclude
    BY DEF BoolFor
<1>3. CASE f.percent \in 1 .. Full - 1
    <2>1. CASE k = Nobody
        BY <1>1, <1>2, <1>3, <2>1 DEF BoolFor
    <2>2. CASE k # Nobody
        <3>1. KeyBucket[k] \in Nat /\ KeyBucket[k] < f.percent
            BY <1>1, <1>2, <1>3, <2>2 DEF BoolFor
        <3>2. KeyBucket[k] < g.percent /\ g.percent # 0
            BY <1>1, <3>1
        <3> QED
            BY <1>1, <1>2, <2>2, <3>2 DEF BoolFor
    <2> QED
        BY <2>1, <2>2
<1>4. CASE f.percent >= Full
    <2>1. g.percent >= Full /\ g.percent \notin 1 .. Full - 1
        BY <1>1, <1>4
    <2> QED
        BY <1>2, <2>1 DEF BoolFor
<1>5. CASE f.percent = 0
    <2>1. f.default = "on"
        BY <1>1, <1>2, <1>5 DEF BoolFor
    <2> QED
        BY <1>5, <2>1
<1> QED
    BY <1>1, <1>3, <1>4, <1>5

LEMMA FfTypeInvariant == FfSpec => []FfTypeOK
<1>1. FfInit => FfTypeOK
    <2>1. Unset \in Flag
        BY FlagAssumption DEF Flag, Unset
    <2> QED
        BY <2>1, FlagAssumption DEF FfInit, FfTypeOK
<1>2. FfTypeOK /\ [FfNext]_ffVars => FfTypeOK'
    <2> SUFFICES ASSUME FfTypeOK, [FfNext]_ffVars PROVE FfTypeOK'
        OBVIOUS
    <2> USE FlagAssumption DEF FfTypeOK
    <2>1. CASE EditFlag
        BY <2>1 DEF EditFlag
    <2>2. CASE Reload
        BY <2>2 DEF Reload
    <2>3. CASE ReloadFails
        BY <2>3 DEF ReloadFails
    <2>4. CASE StopPolling
        BY <2>4 DEF StopPolling
    <2>5. CASE UNCHANGED ffVars
        BY <2>5 DEF ffVars
    <2> QED
        BY <2>1, <2>2, <2>3, <2>4, <2>5 DEF FfNext
<1> QED
    BY <1>1, <1>2, PTL DEF FfSpec

\* featureflag/flag.go BoolFor and reload: a change of the flag for a key that
\* had it comes from a table in which more than a raised percentage is new, or
\* from a default that the percentage replaces.
THEOREM FlagRolloutOnlyGrows == FfSpec => RolloutOnlyGrows
<1>1. ASSUME FfTypeOK, [FfNext]_ffVars, NEW k \in Who
      PROVE  BoolFor(flag, k) /\ ~BoolFor(flag, k)'
             => /\ flag' = source
                /\ \/ flag'.percent < flag.percent
                   \/ [flag' EXCEPT !.percent = flag.percent] # flag
                   \/ flag.default = "on" /\ flag.percent = 0
    <2>1. CASE flag' = flag
        BY <2>1 DEF BoolFor
    <2>2. CASE Reload
        <3>1. flag' = source /\ flag \in Flag /\ source \in Flag
            BY <1>1, <2>2 DEF Reload, FfTypeOK
        <3> SUFFICES ASSUME BoolFor(flag, k), ~BoolFor(source, k),
                            source.percent >= flag.percent,
                            [source EXCEPT !.percent = flag.percent] = flag
                     PROVE  flag.default = "on" /\ flag.percent = 0
            <4>1. flag.percent \in Nat /\ source.percent \in Nat
                BY <3>1, FlagAssumption DEF Flag
            <4> QED
                BY <3>1, <4>1 DEF BoolFor
        <3>2. source.include = flag.include /\ source.exclude = flag.exclude
              /\ source.default = flag.default
            BY <3>1 DEF Flag
        <3> QED
            BY <3>1, <3>2, RaisedKeeps
    <2> QED
        BY ONLY <1>1, <2>1, <2>2 DEF FfNext, EditFlag, ReloadFails, StopPolling, ffVars
<1>2. FfTypeOK /\ [FfNext]_ffVars =>
      [\A k \in Who :
             BoolFor(flag, k) /\ ~BoolFor(flag, k)'
             => /\ flag' = source
                /\ \/ flag'.percent < flag.percent
                   \/ [flag' EXCEPT !.percent = flag.percent] # flag
                   \/ flag.default = "on" /\ flag.percent = 0]_ffVars
    BY <1>1
<1> QED
    BY <1>2, FfTypeInvariant, PTL DEF FfSpec, RolloutOnlyGrows

-------------------------------------------------------------------------------
(* Money: the conversions are exact.                                       *)

\* Half of the words; the least is its negation.
HalfWord == 2 ^ (Bits - 1)

LEMMA WordParts ==
    /\ HalfWord \in Nat \ {0} /\ Scale \in Nat /\ Scale >= 2 /\ 2 * Scale <= HalfWord
    /\ MinWord = -HalfWord /\ MaxWord = HalfWord - 1 /\ Word = -HalfWord .. HalfWord - 1
    /\ \A x : Wrap(x) = ((x - -HalfWord) % (2 * HalfWord)) + -HalfWord
<1>1. HalfWord \in Nat \ {0} /\ 2 ^ Bits = 2 * HalfWord
    BY PowerAssumption DEF HalfWord
<1>2. Scale \in Nat /\ Scale >= 2
    BY MoneyAssumption
<1>3. 4 * Scale <= 2 ^ Bits
    BY MoneyAssumption
<1>4. 2 * Scale <= HalfWord
    BY <1>1, <1>2, <1>3
<1>5. MinWord = -HalfWord /\ MaxWord = HalfWord - 1
    BY DEF MinWord, MaxWord, HalfWord
<1>6. \A x : Wrap(x) = ((x - -HalfWord) % (2 * HalfWord)) + -HalfWord
    BY <1>1, <1>5 DEF Wrap
<1> QED
    BY <1>1, <1>2, <1>4, <1>5, <1>6 DEF Word

LEMMA DivideNat ==
    ASSUME NEW x \in Nat, NEW d \in Nat \ {0}
    PROVE  /\ x \div d \in Nat /\ x % d \in 0 .. d - 1 /\ x = d * (x \div d) + (x % d)
           /\ d * (x \div d) \in Nat
OBVIOUS

\* Quotient and remainder are what makes the number up.
LEMMA QuotientIs ==
    ASSUME NEW q \in Nat, NEW d \in Nat \ {0}, NEW r \in 0 .. d - 1
    PROVE  (d * q + r) \div d = q
<1> DEFINE x == d * q + r
           p == x \div d
<1>1. x \in Nat /\ d * q \in Nat
    OBVIOUS
<1>2. p \in Nat /\ x % d \in 0 .. d - 1 /\ x = d * p + (x % d)
    BY <1>1, DivideNat
<1>3. CASE p < q
  <2>1. PICK k \in Nat : q = p + 1 + k
      BY <1>2, <1>3, q - p - 1 \in Nat
  <2>2. d * q = d * p + d + d * k /\ d * k \in Nat /\ d * p \in Nat
      BY <1>2, <2>1
  <2> QED
      BY <1>2, <2>2
<1>4. CASE p > q
  <2>1. PICK k \in Nat : p = q + 1 + k
      BY <1>2, <1>4, p - q - 1 \in Nat
  <2>2. d * p = d * q + d + d * k /\ d * k \in Nat /\ d * q \in Nat
      BY <1>2, <2>1
  <2> QED
      BY <1>2, <2>2
<1> QED
    BY <1>2, <1>3, <1>4

LEMMA WrapWord ==
    /\ \A x \in Word : Wrap(x) = x
    /\ Wrap(HalfWord) = -HalfWord
<1>1. ASSUME NEW x \in Word PROVE Wrap(x) = x
  <2>1. x + HalfWord \in 0 .. 2 * HalfWord - 1 /\ HalfWord \in Nat \ {0} /\ x \in Int
      BY WordParts
  <2>2. (x + HalfWord) % (2 * HalfWord) = x + HalfWord
      BY <2>1
  <2> QED
      BY <2>1, <2>2, WordParts
<1>2. Wrap(HalfWord) = -HalfWord
  <2>1. HalfWord \in Nat \ {0} /\ (2 * HalfWord) % (2 * HalfWord) = 0
      BY WordParts
  <2> QED
      BY <2>1, WordParts
<1> QED
    BY <1>1, <1>2

LEMMA QuotRemNat ==
    ASSUME NEW x \in Nat, NEW d \in Nat \ {0}
    PROVE  Quot(x, d) = x \div d /\ Rem(x, d) = x % d
<1>1. Quot(x, d) = x \div d
    BY DEF Quot
<1>2. x \div d \in Nat /\ x % d \in Nat /\ x = d * (x \div d) + (x % d) /\ d * (x \div d) \in Nat
    BY DivideNat
<1>3. Rem(x, d) = x - d * (x \div d)
    BY <1>1 DEF Rem
<1> QED
    BY <1>1, <1>2, <1>3

LEMMA QuotRemNeg ==
    ASSUME NEW x \in Nat \ {0}, NEW y \in Int, y = 0 - x, NEW d \in Nat \ {0}
    PROVE  Quot(y, d) = 0 - (x \div d) /\ Rem(y, d) = 0 - (x % d)
<1>1. x \div d \in Nat /\ x % d \in Nat /\ x = d * (x \div d) + (x % d) /\ d * (x \div d) \in Nat
    BY DivideNat
<1>2. y < 0 /\ -y = x
    OBVIOUS
<1>3. Quot(y, d) = -(x \div d)
    BY <1>2 DEF Quot
<1>4. Quot(y, d) = 0 - (x \div d)
    BY <1>1, <1>3
<1>5. Rem(y, d) = y - d * (0 - (x \div d))
    BY <1>4 DEF Rem
<1>6. d * (0 - (x \div d)) = 0 - (d * (x \div d))
    BY <1>1
<1> QED
    BY <1>1, <1>4, <1>5, <1>6

LEMMA HalfEvenParts ==
    ASSUME NEW num, NEW den, NEW sign, NEW size, NEW q, NEW twice,
           sign = IF num < 0 THEN -1 ELSE 1, size = Wrap(sign * num),
           q = Quot(size, den), twice = Wrap(2 * Rem(size, den))
    PROVE  DivHalfToEven(num, den) =
              Wrap(sign * (IF twice > den \/ (twice = den /\ Rem(q, 2) # 0) THEN Wrap(q + 1)
                           ELSE q))
BY DEF DivHalfToEven

\* What the banker's rounding of an amount is: the multiple next to it.
LEMMA HalfEvenOf ==
    ASSUME NEW a \in Word, a # MinWord,
           NEW n \in Nat, n = IF a < 0 THEN 0 - a ELSE a
    PROVE  \E m \in 0 .. HalfWord - 1 :
              /\ DivHalfToEven(a, Scale) = IF a < 0 THEN 0 - m ELSE m
              /\ 2 * (n - m * Scale) <= Scale /\ 2 * (m * Scale - n) <= Scale
              /\ 2 * (n - m * Scale) = Scale \/ 2 * (m * Scale - n) = Scale => m % 2 = 0
<1> DEFINE q == n \div Scale
           r == n % Scale
           up == 2 * r > Scale \/ (2 * r = Scale /\ q % 2 # 0)
           m == IF up THEN q + 1 ELSE q
<1>1. /\ n \in Nat /\ Scale \in Nat \ {0} /\ Scale >= 2 /\ HalfWord \in Nat \ {0}
      /\ 2 * Scale <= HalfWord /\ n < HalfWord /\ a \in Int
    BY WordParts
<1>2. q \in Nat /\ r \in 0 .. Scale - 1 /\ n = Scale * q + r /\ Scale * q \in Nat
    BY <1>1, DivideNat
<1>3. Quot(n, Scale) = q /\ Rem(n, Scale) = r
    BY <1>1, QuotRemNat
<1>4. Rem(q, 2) = q % 2
    BY <1>2, QuotRemNat
<1> HIDE DEF q, r
\* Twice the quotient is no more than the number.
<1>5. 2 * q <= n
  <2>1. PICK k \in Nat : Scale = 2 + k
      BY <1>1, Scale - 2 \in Nat
  <2>2. Scale * q = 2 * q + k * q /\ k * q \in Nat
      BY <1>2, <2>1
  <2> QED
      BY <1>1, <1>2, <2>2
<1>6. /\ m \in Nat /\ m <= HalfWord - 1 /\ m \in Word /\ 0 - m \in Word
      /\ 2 * r \in Word /\ n \in Word /\ q \in Word /\ (up => q + 1 \in Word)
  <2>1. up => 2 * r >= Scale /\ r >= 1
      BY <1>1, <1>2
  <2>2. q <= HalfWord - 1 /\ (up => q + 1 <= HalfWord - 1)
    <3>1. q <= HalfWord - 1
        BY <1>1, <1>2, <1>5
    <3>2. up => q + 1 <= HalfWord - 1
        BY <1>1, <1>2, <1>5, <2>1
    <3> QED
        BY <3>1, <3>2
  <2>3. m \in Nat /\ m <= HalfWord - 1
      BY <1>2, <2>2
  <2>4. 2 * r \in Nat /\ 2 * r <= HalfWord - 1
      BY <1>1, <1>2
  <2> HIDE DEF m, up
  <2> QED
      BY <1>1, <1>2, <2>2, <2>3, <2>4, WordParts
<1>7. Wrap(2 * r) = 2 * r /\ Wrap(n) = n /\ Wrap(m) = m /\ Wrap(0 - m) = 0 - m
      /\ (up => Wrap(q + 1) = q + 1)
    BY <1>6, WrapWord
<1>8. ASSUME NEW sign \in {1, -1}, sign = IF a < 0 THEN -1 ELSE 1
      PROVE  DivHalfToEven(a, Scale) = IF a < 0 THEN 0 - m ELSE m
  <2>1. sign * a = n /\ sign * m = IF a < 0 THEN 0 - m ELSE m
      BY <1>1, <1>6, <1>8
  <2> DEFINE twice == 2 * r
  <2>2. n = Wrap(sign * a) /\ q = Quot(n, Scale) /\ twice = Wrap(2 * Rem(n, Scale))
      BY <1>3, <1>7, <2>1
  <2>3. (IF twice > Scale \/ (twice = Scale /\ Rem(q, 2) # 0) THEN Wrap(q + 1) ELSE q) = m
      BY <1>4, <1>7
  <2> HIDE DEF m, twice
  <2>4. DivHalfToEven(a, Scale) =
           Wrap(sign * (IF twice > Scale \/ (twice = Scale /\ Rem(q, 2) # 0)
                        THEN Wrap(q + 1) ELSE q))
      BY <1>8, <2>2, HalfEvenParts
  <2>5. Wrap(sign * m) = IF a < 0 THEN 0 - m ELSE m
      BY <1>7, <2>1
  <2> QED
      BY <2>3, <2>4, <2>5
<1>9. DivHalfToEven(a, Scale) = IF a < 0 THEN 0 - m ELSE m
    BY <1>8
<1>10. m * Scale = IF up THEN Scale * q + Scale ELSE Scale * q
    BY <1>1, <1>2
<1>11. /\ 2 * (n - m * Scale) <= Scale /\ 2 * (m * Scale - n) <= Scale
       /\ 2 * (n - m * Scale) = Scale \/ 2 * (m * Scale - n) = Scale => m % 2 = 0
  <2> DEFINE b == Scale * q
             p == m * Scale
  <2>1. /\ b \in Nat /\ n = b + r /\ p = IF up THEN b + Scale ELSE b
        /\ q \in Nat /\ r \in 0 .. Scale - 1 /\ Scale \in Nat
      BY <1>1, <1>2, <1>10
  <2> HIDE DEF b, p
  <2>2. 2 * (n - p) <= Scale /\ 2 * (p - n) <= Scale
      BY <2>1
  <2>3. ASSUME 2 * (n - p) = Scale \/ 2 * (p - n) = Scale PROVE m % 2 = 0
    <3>1. 2 * r = Scale
        BY <1>1, <2>1, <2>3
    <3>2. m = IF q % 2 # 0 THEN q + 1 ELSE q
        BY <1>1, <3>1
    <3> QED
        BY <2>1, <3>2
  <2> QED
      BY <2>2, <2>3 DEF p
<1>12. m \in 0 .. HalfWord - 1
    BY <1>1, <1>6
<1> QED
    BY <1>9, <1>11, <1>12

\* The least word, which has no negation, comes out positive.
LEMMA LeastRounds ==
    /\ DivHalfToEven(MinWord, Scale) = HalfWord \div Scale
    /\ HalfWord \div Scale \in 1 .. HalfWord - 1
    /\ Scale * (HalfWord \div Scale) <= HalfWord
<1> DEFINE q == HalfWord \div Scale
           r == HalfWord % Scale
<1>1. /\ HalfWord \in Nat \ {0} /\ Scale \in Nat \ {0} /\ Scale >= 2 /\ 2 * Scale <= HalfWord
      /\ MinWord \in Int /\ MinWord = 0 - HalfWord /\ MinWord < 0
    BY WordParts
<1>2. q \in Nat /\ r \in 0 .. Scale - 1 /\ HalfWord = Scale * q + r /\ Scale * q \in Nat
    BY <1>1, DivideNat
<1>3. Quot(MinWord, Scale) = 0 - q /\ Rem(MinWord, Scale) = 0 - r
    BY <1>1, QuotRemNeg
<1> HIDE DEF q, r
<1>4. q >= 1
    BY <1>1, <1>2
<1>5. q <= HalfWord - 1
  <2>1. PICK k \in Nat : Scale = 2 + k
      BY <1>1, Scale - 2 \in Nat
  <2>2. Scale * q = 2 * q + k * q /\ k * q \in Nat
      BY <1>2, <2>1
  <2> QED
      BY <1>1, <1>2, <1>4, <2>2
<1>6. Wrap(2 * (0 - r)) = 2 * (0 - r) /\ Wrap(q) = q /\ Wrap(HalfWord) = MinWord
  <2>1. 2 * (0 - r) \in Word /\ q \in Word
      BY <1>1, <1>2, <1>5, WordParts
  <2> QED
      BY <2>1, WordParts, WrapWord
<1> DEFINE sign == -1
           twice == 2 * (0 - r)
<1>7. /\ sign = IF MinWord < 0 THEN -1 ELSE 1
      /\ sign * MinWord = HalfWord /\ sign * (0 - q) = q
    BY <1>1, <1>2
<1>8. ~(twice > Scale) /\ twice # Scale
    BY <1>1, <1>2
<1>9. /\ MinWord = Wrap(sign * MinWord) /\ 0 - q = Quot(MinWord, Scale)
      /\ twice = Wrap(2 * Rem(MinWord, Scale))
    BY <1>3, <1>6, <1>7
<1> HIDE DEF sign, twice
<1>10. DivHalfToEven(MinWord, Scale) =
          Wrap(sign * (IF twice > Scale \/ (twice = Scale /\ Rem(0 - q, 2) # 0)
                       THEN Wrap(0 - q + 1) ELSE 0 - q))
    BY <1>7, <1>9, HalfEvenParts
<1>11. DivHalfToEven(MinWord, Scale) = q
    BY <1>6, <1>7, <1>8, <1>10
<1>12. Scale * q <= HalfWord /\ q \in 1 .. HalfWord - 1
    BY <1>1, <1>2, <1>4, <1>5
<1> QED
    BY <1>11, <1>12 DEF q

\* A multiple is its own rounding, and divides back.
LEMMA MultipleRounds ==
    ASSUME NEW b \in Int, b * Scale \in Word
    PROVE  /\ Quot(b * Scale, Scale) = b /\ Rem(b * Scale, Scale) = 0
           /\ b * Scale # MinWord => DivHalfToEven(b * Scale, Scale) = b
<1>1. /\ HalfWord \in Nat \ {0} /\ Scale \in Nat \ {0} /\ Scale >= 2 /\ b * Scale \in Int
      /\ 0 \in 0 .. Scale - 1
    BY WordParts
<1>2. Quot(b * Scale, Scale) = b /\ Rem(b * Scale, Scale) = 0
  <2>1. CASE b >= 0
    <3>1. Scale * b + 0 = b * Scale /\ b \in Nat /\ b * Scale \in Nat
        BY <1>1, <2>1
    <3>2. (Scale * b + 0) \div Scale = b
        BY <1>1, <3>1, QuotientIs
    <3>3. Quot(b * Scale, Scale) = b
        BY <1>1, <3>1, <3>2, QuotRemNat
    <3>4. b * Scale - Scale * b = 0
        BY <1>1
    <3> QED
        BY <3>3, <3>4 DEF Rem
  <2>2. CASE b < 0
    <3> DEFINE c == 0 - b
    <3>1. /\ Scale * c + 0 = c * Scale /\ c \in Nat \ {0} /\ c * Scale \in Nat \ {0}
          /\ b * Scale = 0 - (c * Scale) /\ 0 - c = b
        BY <1>1, <2>2
    <3> HIDE DEF c
    <3>2. (Scale * c + 0) \div Scale = c
        BY <1>1, <3>1, QuotientIs
    <3>3. Quot(b * Scale, Scale) = b
      <4> DEFINE x == c * Scale
                 y == b * Scale
      <4>1. x \in Nat \ {0} /\ y \in Int /\ y = 0 - x /\ x \div Scale = c
          BY <1>1, <3>1, <3>2
      <4> HIDE DEF x, y
      <4>2. Quot(y, Scale) = 0 - (x \div Scale)
          BY <1>1, <4>1, QuotRemNeg
      <4> QED
          BY <3>1, <4>1, <4>2 DEF y
    <3>4. b * Scale - Scale * b = 0
        BY <1>1
    <3> QED
        BY <3>3, <3>4 DEF Rem
  <2> QED
      BY <1>1, <2>1, <2>2
<1>3. ASSUME b * Scale # MinWord PROVE DivHalfToEven(b * Scale, Scale) = b
  <2> DEFINE a == b * Scale
             n == IF a < 0 THEN 0 - a ELSE a
             c == IF b < 0 THEN 0 - b ELSE b
  <2>1. /\ a \in Word /\ a # MinWord /\ a \in Int /\ n \in Nat
        /\ (a < 0 <=> b < 0) /\ c \in Nat /\ n = c * Scale
      BY <1>1, <1>3
  <2>2. PICK m \in 0 .. HalfWord - 1 :
           /\ DivHalfToEven(a, Scale) = IF a < 0 THEN 0 - m ELSE m
           /\ 2 * (n - m * Scale) <= Scale /\ 2 * (m * Scale - n) <= Scale
      BY <2>1, HalfEvenOf
  <2>5. b = IF b < 0 THEN 0 - c ELSE c
      OBVIOUS
  <2> HIDE DEF a, n, c
  <2>3. m = c
    <3>1. m \in Nat /\ c \in Nat /\ n = c * Scale /\ m * Scale \in Nat /\ c * Scale \in Nat
        BY <1>1, <2>1, WordParts
    <3>2. CASE m < c
      <4>1. PICK k \in Nat : c = m + 1 + k
          BY <3>1, <3>2, c - m - 1 \in Nat
      <4>2. c * Scale = m * Scale + Scale + k * Scale /\ k * Scale \in Nat
          BY <1>1, <3>1, <4>1
      <4> QED
          BY <1>1, <2>2, <3>1, <4>2
    <3>3. CASE m > c
      <4>1. PICK k \in Nat : m = c + 1 + k
          BY <3>1, <3>3, m - c - 1 \in Nat
      <4>2. m * Scale = c * Scale + Scale + k * Scale /\ k * Scale \in Nat
          BY <1>1, <3>1, <4>1
      <4> QED
          BY <1>1, <2>2, <3>1, <4>2
    <3> QED
        BY <3>1, <3>2, <3>3
  <2>4. (IF a < 0 THEN 0 - m ELSE m) = b
      BY <2>1, <2>3, <2>5
  <2> QED
      BY <2>2, <2>4 DEF a
<1> QED
    BY <1>2, <1>3

\* A printed number reads back.
LEMMA PrintsBack ==
    ASSUME NEW a \in Word, a # MinWord, NEW p \in DecimalPlaces
    PROVE  LET text == FormatMinor(a, p)
           IN  /\ Reads(text, p) = a
               /\ text.major >= 0 /\ text.frac \in 0 .. MinorUnitsPerMajor(p) - 1
<1> DEFINE n == IF a < 0 THEN 0 - a ELSE a
           unit == MinorUnitsPerMajor(p)
           size == IF a < 0 THEN Wrap(-a) ELSE a
<1>1. /\ a \in Int /\ n \in Nat /\ n \in Word /\ unit \in Nat \ {0}
      /\ a < 0 => -a = n
    BY WordParts, PowerAssumption DEF MinorUnitsPerMajor
<1>2. size = n
    BY <1>1, WrapWord
<1>3. /\ n \div unit \in Nat /\ n % unit \in 0 .. unit - 1
      /\ n = unit * (n \div unit) + (n % unit)
    BY <1>1, DivideNat
<1>4. Quot(size, unit) = n \div unit /\ Rem(size, unit) = n % unit
    BY <1>1, <1>2, QuotRemNat
<1>5. FormatMinor(a, p) = [minus |-> a < 0, major |-> Quot(size, unit), frac |-> Rem(size, unit)]
    BY DEF FormatMinor
<1> HIDE DEF size, unit
<1>6. (n \div unit) * unit + (n % unit) = n
    BY <1>1, <1>3
<1> DEFINE text == FormatMinor(a, p)
           read == text.major * MinorUnitsPerMajor(p) + text.frac
<1>7. text.minus = (a < 0) /\ read = n
    BY <1>4, <1>5, <1>6 DEF unit
<1>8. a >= 0 => ~text.minus
  <2>1. a >= 0 => ~(a < 0)
      BY <1>1
  <2> HIDE DEF text
  <2> QED
      BY <1>7, <2>1, Zenon
<1>9. Reads(text, p) = a
  <2>1. Reads(text, p) = IF text.minus THEN -read ELSE read
      BY DEF Reads
  <2>2. (a < 0 => n = -a) /\ (a >= 0 => n = a) /\ -(-a) = a
      BY <1>1
  <2> HIDE DEF n, text, read
  <2>3. CASE a < 0
    <3>1. text.minus /\ read = -a
        BY <1>7, <2>2, <2>3
    <3> QED
        BY <2>1, <2>2, <3>1
  <2>4. CASE a >= 0
    <3>1. ~text.minus /\ read = a
        BY <1>1, <1>7, <1>8, <2>2, <2>4
    <3> QED
        BY <2>1, <3>1
  <2> QED
      BY <1>1, <2>3, <2>4
<1>10. FormatMinor(a, p).major >= 0 /\ FormatMinor(a, p).frac \in 0 .. unit - 1
    BY <1>3, <1>4, <1>5
<1> QED
    BY <1>9, <1>10 DEF unit

\* The rounding of an amount, and how far off it is.
LEMMA RoundingOff ==
    ASSUME NEW a \in Word, a # MinWord
    PROVE  /\ StorageToMinorBanker(a) \in Word /\ StorageToMinorBanker(a) # MinWord
           /\ 2 * Abs(a - StorageToMinorBanker(a) * Scale) <= Scale
           /\ Abs(StorageToMinorBanker(a) * Scale - a) * 2 <= Scale
           /\ 2 * Abs(a - StorageToMinorBanker(a) * Scale) = Scale
                => StorageToMinorBanker(a) % 2 = 0
<1> DEFINE n == IF a < 0 THEN 0 - a ELSE a
<1>1. a \in Int /\ n \in Nat /\ HalfWord \in Nat \ {0} /\ Scale \in Nat
    BY WordParts
<1>2. PICK m \in 0 .. HalfWord - 1 :
         /\ DivHalfToEven(a, Scale) = IF a < 0 THEN 0 - m ELSE m
         /\ 2 * (n - m * Scale) <= Scale /\ 2 * (m * Scale - n) <= Scale
         /\ 2 * (n - m * Scale) = Scale \/ 2 * (m * Scale - n) = Scale => m % 2 = 0
    BY <1>1, HalfEvenOf
<1> DEFINE b == IF a < 0 THEN 0 - m ELSE m
           x == m * Scale
<1>3. m \in Nat /\ x \in Nat /\ b * Scale = IF a < 0 THEN 0 - x ELSE x
    BY <1>1
<1>4. StorageToMinorBanker(a) = b
    BY <1>2 DEF StorageToMinorBanker
<1>5. b \in Word /\ b # MinWord /\ b \in Int
    BY <1>1, WordParts
<1>6. m % 2 = 0 => b % 2 = 0
    BY <1>3
<1>7. /\ 2 * (n - x) <= Scale /\ 2 * (x - n) <= Scale
      /\ 2 * (n - x) = Scale \/ 2 * (x - n) = Scale => m % 2 = 0
    BY <1>2
<1> HIDE DEF x, b
<1> DEFINE y == b * Scale
<1>8. y = IF a < 0 THEN 0 - x ELSE x
    BY <1>3
<1> HIDE DEF y
<1>9. /\ 2 * Abs(a - y) <= Scale /\ Abs(y - a) * 2 <= Scale
      /\ 2 * Abs(a - y) = Scale => 2 * (n - x) = Scale \/ 2 * (x - n) = Scale
    BY <1>1, <1>3, <1>7, <1>8 DEF Abs
<1>10. 2 * Abs(a - y) = Scale => b % 2 = 0
    BY <1>6, <1>7, <1>9
<1> QED
    BY <1>4, <1>5, <1>9, <1>10 DEF y

\* Rounding twice is rounding once, unless the product passes the word.
LEMMA RoundsOnce ==
    ASSUME NEW a \in Word, StorageToMinorBanker(a) * Scale \in Word
    PROVE  RoundToStorage(RoundToStorage(a)) = RoundToStorage(a)
<1> DEFINE b == StorageToMinorBanker(a)
<1>1. b \in Int /\ HalfWord \in Nat \ {0} /\ Scale \in Nat /\ MinWord \in Word
  <2>1. CASE a = MinWord
      BY <2>1, LeastRounds, WordParts DEF StorageToMinorBanker
  <2>2. CASE a # MinWord
      BY <2>2, RoundingOff, WordParts
  <2> QED
      BY <2>1, <2>2, WordParts
<1>2. RoundToStorage(a) = b * Scale
    BY WrapWord DEF RoundToStorage
<1> HIDE DEF b
<1>3. CASE b * Scale # MinWord
  <2>1. DivHalfToEven(b * Scale, Scale) = b
      BY <1>1, <1>2, <1>3, MultipleRounds DEF b
  <2>2. Wrap(b * Scale) = b * Scale
      BY WrapWord DEF b
  <2> QED
      BY <1>2, <2>1, <2>2 DEF RoundToStorage, StorageToMinorBanker
<1>4. CASE b * Scale = MinWord
  <2>1. (0 - b) * Scale = HalfWord /\ 0 - b \in Nat
    <3>1. (0 - b) * Scale = 0 - (b * Scale)
        BY <1>1
    <3>2. b * Scale = 0 - HalfWord
        BY <1>1, <1>4, WordParts
    <3>3. (0 - b) * Scale = HalfWord
        BY <1>1, <3>1, <3>2
    <3>4. b < 0
      <4>1. b >= 0 => b * Scale \in Nat
          BY <1>1
      <4> QED
          BY <1>1, <3>2, <4>1
    <3> QED
        BY <1>1, <3>3, <3>4
  <2> DEFINE k == 0 - b
  <2>2. HalfWord \div Scale = k
    <3>1. Scale * k + 0 = HalfWord /\ k \in Nat /\ Scale \in Nat \ {0} /\ 0 \in 0 .. Scale - 1
        BY <1>1, <2>1, WordParts
    <3> QED
        BY <3>1, QuotientIs
  <2>3. DivHalfToEven(MinWord, Scale) = k
      BY <2>2, LeastRounds
  <2>4. Wrap(k * Scale) = MinWord
      BY <1>1, <2>1, WrapWord, WordParts
  <2> QED
      BY <1>2, <1>4, <2>3, <2>4 DEF RoundToStorage, StorageToMinorBanker
<1> QED
    BY <1>3, <1>4

MoInv == amount \in Word /\ places \in DecimalPlaces

LEMMA AmountsExact == MoInv => MoneyExact
<1> SUFFICES ASSUME MoInv PROVE MoneyExact
    OBVIOUS
<1> USE DEF MoInv
<1>1. Scale \in Nat \ {0} /\ amount \in Int
    BY WordParts
<1>2. amount # MinWord =>
         LET off == amount - StorageToMinorBanker(amount) * Scale IN
         /\ 2 * Abs(off) <= Scale
         /\ 2 * Abs(off) = Scale => StorageToMinorBanker(amount) % 2 = 0
    BY RoundingOff
<1>3. StorageToMinorBanker(MinWord) > 0
    BY LeastRounds, WordParts DEF StorageToMinorBanker
<1>4. StorageToMinorBanker(amount) * Scale \in Word =>
         RoundToStorage(RoundToStorage(amount)) = RoundToStorage(amount)
    BY RoundsOnce
<1>5. Divisible(amount) => MinorToStorage(StorageToMinor(amount)) = amount
  <2> SUFFICES ASSUME Divisible(amount) PROVE Wrap(Quot(amount, Scale) * Scale) = amount
      BY DEF MinorToStorage, StorageToMinor
  <2>1. Quot(amount, Scale) \in Int
    <3>1. CASE amount < 0
      <4>1. 0 - amount \in Nat \ {0}
          BY <1>1, <3>1
      <4> DEFINE x == 0 - amount
      <4>2. x \in Nat \ {0} /\ amount = 0 - x
          BY <1>1, <4>1
      <4> HIDE DEF x
      <4>3. Quot(amount, Scale) = 0 - (x \div Scale)
          BY <1>1, <4>2, QuotRemNeg
      <4>4. x \div Scale \in Nat
          BY <1>1, <4>2, DivideNat
      <4> QED
          BY <4>3, <4>4
    <3>2. CASE amount >= 0
        BY <1>1, <3>2, QuotRemNat, DivideNat
    <3> QED
        BY <1>1, <3>1, <3>2
  <2>2. amount - Scale * Quot(amount, Scale) = 0
      BY DEF Divisible, Rem
  <2>3. Quot(amount, Scale) * Scale = amount
      BY <1>1, <2>1, <2>2
  <2> QED
      BY <2>3, WrapWord
<1>6. amount * Scale \in Word =>
         /\ Divisible(MinorToStorage(amount))
         /\ StorageToMinor(MinorToStorage(amount)) = amount
  <2> SUFFICES ASSUME amount * Scale \in Word
               PROVE  Divisible(amount * Scale) /\ StorageToMinor(amount * Scale) = amount
      BY WrapWord DEF MinorToStorage
  <2> QED
      BY <1>1, MultipleRounds DEF Divisible, StorageToMinor
<1>7. amount # MinWord =>
         LET text == FormatMinor(amount, places) IN
         /\ Reads(text, places) = amount
         /\ text.major >= 0 /\ text.frac \in 0 .. MinorUnitsPerMajor(places) - 1
    BY PrintsBack
<1>8. amount # MinWord =>
         Abs(Reads(FormatStorage(amount, places), places) * Scale - amount) * 2 <= Scale
  <2> SUFFICES ASSUME amount # MinWord
               PROVE  Abs(Reads(FormatStorage(amount, places), places) * Scale - amount) * 2 <= Scale
      OBVIOUS
  <2>1. Reads(FormatStorage(amount, places), places) = StorageToMinorBanker(amount)
      BY RoundingOff, PrintsBack DEF FormatStorage
  <2> QED
      BY <2>1, RoundingOff
<1> QED
    BY <1>2, <1>3, <1>4, <1>5, <1>6, <1>7, <1>8 DEF MoneyExact

\* money/money.go divHalfToEven, MinorToStorage, StorageToMinor, RoundToStorage
\* and FormatMinor: for any width of a word, scale and number of decimals, what
\* is converted and printed is the amount, to the nearest and the even side of a
\* tie, with the exceptions at the end of the word that the statement names.
THEOREM MoneyConversionsExact == MoSpec => []MoneyExact
<1>1. MoInit => MoInv
    BY DEF MoInit, MoInv
<1>2. MoInv /\ [MoNext]_moVars => MoInv'
    BY DEF MoInv, MoNext, moVars
<1> QED
    BY <1>1, <1>2, AmountsExact, PTL DEF MoSpec

-------------------------------------------------------------------------------
(* Identities: an id means the same to whoever encoded and whoever reads it. *)

\* A field above another: what is below it does not show in it.
LEMMA FieldReads ==
    ASSUME NEW m \in Nat \ {0}, NEW r \in Nat \ {0}, NEW mr, mr = m * r,
           NEW low \in 0 .. m - 1, NEW d \in 0 .. r - 1, NEW y, y = low + m * d,
           NEW high \in Nat, NEW x, x = y + mr * high
    PROVE  y \in 0 .. mr - 1 /\ x % mr = y /\ (x % mr) \div m = d
<1>1. mr \in Nat \ {0} /\ y \in Nat /\ m * d \in Nat
    OBVIOUS
<1>2. y <= mr - 1
  <2>1. PICK k \in Nat : r = d + 1 + k
      BY r - d - 1 \in Nat
  <2>2. m * r = m * d + m + m * k /\ m * k \in Nat
      BY <2>1
  <2> QED
      BY <1>1, <2>2
<1>3. x = mr * high + y /\ y \in 0 .. mr - 1 /\ x \in Nat
    BY <1>1, <1>2
<1>4. y \div m = d
  <2>1. y = m * d + low
      BY <1>1
  <2>2. (m * d + low) \div m = d
      BY QuotientIs
  <2> QED
      BY <2>1, <2>2
<1>5. (mr * high + y) \div mr = high
    BY <1>1, <1>3, QuotientIs
<1>6. x \div mr = high
    BY <1>3, <1>5
<1>7. x = mr * high + (x % mr) /\ x % mr \in Nat
  <2>1. x = mr * (x \div mr) + (x % mr) /\ x % mr \in 0 .. mr - 1
      BY ONLY <1>1, <1>3, DivideNat
  <2>2. x % mr \in Nat
      BY ONLY <1>1, <2>1
  <2> QED
      BY ONLY <1>6, <2>1, <2>2, Zenon
<1>8. x % mr = y
    BY <1>1, <1>3, <1>7, mr * high \in Nat
<1> QED
    BY <1>3, <1>4, <1>8

\* A number is put together of what is below a field, the field and the rest.
LEMMA FieldSplits ==
    ASSUME NEW x \in Nat, NEW m \in Nat \ {0}, NEW r \in Nat \ {0}, NEW mr, mr = m * r
    PROVE  /\ (x % mr) \div m \in 0 .. r - 1
           /\ x % mr = (x % m) + m * ((x % mr) \div m)
<1> DEFINE y == x % mr
           d == y \div m
           low == y % m
           high == x \div mr
<1>1. mr \in Nat \ {0}
    OBVIOUS
<1>2. y \in 0 .. mr - 1 /\ x = mr * high + y /\ high \in Nat /\ mr * high \in Nat
    BY <1>1, DivideNat
<1> HIDE DEF y, high
<1>3. d \in Nat /\ low \in 0 .. m - 1 /\ y = m * d + low
  <2>1. y \in Nat
      BY <1>1, <1>2
  <2> QED
      BY <2>1, DivideNat
<1> HIDE DEF d, low
<1>4. d <= r - 1
  <2>1. CASE d >= r
    <3>1. PICK k \in Nat : d = r + k
        BY <1>3, <2>1, d - r \in Nat
    <3>2. m * d = m * r + m * k /\ m * k \in Nat
        BY <3>1
    <3> QED
        BY <1>2, <1>3, <3>2
  <2> QED
      BY <1>3, <2>1
<1>5. x % m = low
  <2> DEFINE q == r * high + d
  <2>1. q \in Nat /\ m * q = m * (r * high) + m * d /\ m * (r * high) = mr * high
      BY <1>2, <1>3
  <2>2. x = m * q + low
      BY <1>2, <1>3, <2>1
  <2> HIDE DEF q
  <2>3. (m * q + low) \div m = q
      BY <1>3, <2>1, QuotientIs
  <2>4. x \div m = q
      BY <2>2, <2>3
  <2>5. x = m * q + (x % m) /\ x % m \in Nat
    <3>1. x = m * (x \div m) + (x % m) /\ x % m \in 0 .. m - 1
        BY DivideNat
    <3> QED
        BY <2>4, <3>1
  <2> QED
      BY <1>3, <2>1, <2>2, <2>5, m * q \in Nat
<1> QED
    BY <1>3, <1>4, <1>5 DEF d, y

\* The radix of a field, 1 for one the kind does not have, and the weight of a
\* field: the product of the radices below.
Radix(k, i) == IF i \in DOMAIN Radices(k) THEN Radices(k)[i] ELSE 1
Weight(k, i) ==
    LET below(j) == IF j < i THEN Radix(k, j) ELSE 1
    IN  below(1) * below(2) * below(3) * below(4) * below(5)

LEMMA RadixNumbers ==
    /\ SeqRadix \in Nat \ {0} /\ BusinessRadix \in Nat \ {0} /\ CurrencyRadix \in Nat \ {0}
    /\ TablesPerDB \in Nat \ {0} /\ TablesPerDB >= 2
    /\ Digits2 \in Nat \ {0} /\ Digits2 >= TablesPerDB /\ ShadowMul \in Nat \ {0}
<1>1. /\ SeqRadix \in Nat \ {0} /\ BusinessRadix \in Nat \ {0} /\ CurrencyRadix \in Nat \ {0}
      /\ TablesPerDB \in Nat \ {0} /\ TablesPerDB >= 2
    BY IdentityAssumption
<1>2. Digits2 \in Nat \ {0} /\ Digits2 >= TablesPerDB
  <2>1. PICK j \in Nat : TablesPerDB = 1 + j
      BY <1>1, TablesPerDB - 1 \in Nat
  <2>2. TablesPerDB * TablesPerDB = TablesPerDB + TablesPerDB * j /\ TablesPerDB * j \in Nat
      BY <1>1, <2>1
  <2> QED
      BY <1>1, <2>2 DEF Digits2
<1>3. ShadowMul \in Nat \ {0}
  <2>1. SeqRadix * BusinessRadix \in Nat \ {0}
      BY <1>1
  <2>2. SeqRadix * BusinessRadix * Digits2 \in Nat \ {0}
      BY <1>2, <2>1
  <2>3. SeqRadix * BusinessRadix * Digits2 * Digits2 \in Nat \ {0}
      BY <1>2, <2>2
  <2> QED
      BY <1>1, <2>3 DEF ShadowMul
<1> QED
    BY <1>1, <1>2, <1>3

\* A kind has up to five fields, which fill the numbers below ShadowMul.
LEMMA RadicesAre ==
    ASSUME NEW k \in Kind
    PROVE  /\ DOMAIN Radices(k) = 1 .. Len(Radices(k)) /\ Len(Radices(k)) \in 1 .. 5
           /\ \A i \in 1 .. 5 : Radix(k, i) \in Nat \ {0}
           /\ Radix(k, 1) * Radix(k, 2) * Radix(k, 3) * Radix(k, 4) * Radix(k, 5) = ShadowMul
<1> USE RadixNumbers
<1>1. CASE k = "merchant"
  <2>1. Radices(k) = <<ShadowMul>>
      BY <1>1 DEF Radices
  <2>2. DOMAIN Radices(k) = 1 .. 1 /\ Len(Radices(k)) = 1 /\ Radices(k)[1] = ShadowMul
      BY <2>1
  <2>3. /\ Radix(k, 1) = ShadowMul /\ Radix(k, 2) = 1 /\ Radix(k, 3) = 1
        /\ Radix(k, 4) = 1 /\ Radix(k, 5) = 1
      BY <2>2 DEF Radix
  <2> QED
      BY <2>2, <2>3
<1>2. CASE k = "entity"
  <2> DEFINE r == SeqRadix * BusinessRadix * Digits2 * CurrencyRadix
  <2>1. Radices(k) = <<r, Digits2>>
      BY <1>2 DEF Radices
  <2>2. /\ DOMAIN Radices(k) = 1 .. 2 /\ Len(Radices(k)) = 2
        /\ Radices(k)[1] = r /\ Radices(k)[2] = Digits2
      BY <2>1
  <2>3. /\ Radix(k, 1) = r /\ Radix(k, 2) = Digits2 /\ Radix(k, 3) = 1
        /\ Radix(k, 4) = 1 /\ Radix(k, 5) = 1
      BY <2>2 DEF Radix
  <2>4. r \in Nat \ {0} /\ r * Digits2 = ShadowMul
      BY DEF ShadowMul
  <2> QED
      BY <2>2, <2>3, <2>4
<1>3. CASE k = "account"
  <2>1. Radices(k) = <<SeqRadix, BusinessRadix, Digits2, Digits2, CurrencyRadix>>
      BY <1>3 DEF Radices
  <2>2. /\ DOMAIN Radices(k) = 1 .. 5 /\ Len(Radices(k)) = 5
        /\ Radices(k)[1] = SeqRadix /\ Radices(k)[2] = BusinessRadix
        /\ Radices(k)[3] = Digits2 /\ Radices(k)[4] = Digits2 /\ Radices(k)[5] = CurrencyRadix
      BY <2>1
  <2>3. /\ Radix(k, 1) = SeqRadix /\ Radix(k, 2) = BusinessRadix /\ Radix(k, 3) = Digits2
        /\ Radix(k, 4) = Digits2 /\ Radix(k, 5) = CurrencyRadix
      BY <2>2 DEF Radix
  <2> QED
      BY <2>2, <2>3 DEF ShadowMul
<1>4. CASE k = "accountV2"
  <2> DEFINE r == Digits2 * TablesPerDB
  <2>1. Radices(k) = <<SeqRadix, BusinessRadix, r, TablesPerDB, CurrencyRadix>>
      BY <1>4 DEF Radices
  <2>2. /\ DOMAIN Radices(k) = 1 .. 5 /\ Len(Radices(k)) = 5
        /\ Radices(k)[1] = SeqRadix /\ Radices(k)[2] = BusinessRadix
        /\ Radices(k)[3] = r /\ Radices(k)[4] = TablesPerDB /\ Radices(k)[5] = CurrencyRadix
      BY <2>1
  <2>3. /\ Radix(k, 1) = SeqRadix /\ Radix(k, 2) = BusinessRadix /\ Radix(k, 3) = r
        /\ Radix(k, 4) = TablesPerDB /\ Radix(k, 5) = CurrencyRadix
      BY <2>2 DEF Radix
  <2>4. r \in Nat \ {0}
      OBVIOUS
  <2>5. SeqRadix * BusinessRadix * r * TablesPerDB * CurrencyRadix = ShadowMul
      BY DEF ShadowMul, Digits2
  <2> QED
      BY <2>2, <2>3, <2>4, <2>5
<1>5. CASE k = "id"
  <2> DEFINE r == SeqRadix * BusinessRadix * Digits2
  <2>1. Radices(k) = <<r, Digits2, CurrencyRadix>>
      BY <1>5 DEF Radices
  <2>2. /\ DOMAIN Radices(k) = 1 .. 3 /\ Len(Radices(k)) = 3
        /\ Radices(k)[1] = r /\ Radices(k)[2] = Digits2 /\ Radices(k)[3] = CurrencyRadix
      BY <2>1
  <2>3. /\ Radix(k, 1) = r /\ Radix(k, 2) = Digits2 /\ Radix(k, 3) = CurrencyRadix
        /\ Radix(k, 4) = 1 /\ Radix(k, 5) = 1
      BY <2>2 DEF Radix
  <2>4. r \in Nat \ {0} /\ r * Digits2 * CurrencyRadix = ShadowMul
      BY DEF ShadowMul
  <2> QED
      BY <2>2, <2>3, <2>4
<1> QED
    BY <1>1, <1>2, <1>3, <1>4, <1>5 DEF Kind

LEMMA WeightsAre ==
    ASSUME NEW k \in Kind
    PROVE  /\ \A i \in DOMAIN Radices(k) : Mul(k, i) = Weight(k, i)
           /\ Weight(k, 1) = 1 /\ Weight(k, 2) = Radix(k, 1)
           /\ Weight(k, 3) = Weight(k, 2) * Radix(k, 2)
           /\ Weight(k, 4) = Weight(k, 3) * Radix(k, 3)
           /\ Weight(k, 5) = Weight(k, 4) * Radix(k, 4)
           /\ Weight(k, 6) = Weight(k, 5) * Radix(k, 5) /\ Weight(k, 6) = ShadowMul
           /\ Weight(k, Len(Radices(k)) + 1) = ShadowMul
           /\ \A i \in 1 .. 6 : Weight(k, i) \in Nat \ {0}
<1> DEFINE n == Len(Radices(k))
           r1 == Radix(k, 1)
           r2 == Radix(k, 2)
           r3 == Radix(k, 3)
           r4 == Radix(k, 4)
           r5 == Radix(k, 5)
<1>1. /\ DOMAIN Radices(k) = 1 .. n /\ n \in 1 .. 5
      /\ \A i \in 1 .. 5 : Radix(k, i) \in Nat \ {0}
      /\ r1 * r2 * r3 * r4 * r5 = ShadowMul
    BY RadicesAre
<1>2. \A i \in 1 .. 5 : i > n => Radix(k, i) = 1
    BY <1>1 DEF Radix
<1>3. /\ Weight(k, 1) = 1 * 1 * 1 * 1 * 1 /\ Weight(k, 2) = r1 * 1 * 1 * 1 * 1
      /\ Weight(k, 3) = r1 * r2 * 1 * 1 * 1 /\ Weight(k, 4) = r1 * r2 * r3 * 1 * 1
      /\ Weight(k, 5) = r1 * r2 * r3 * r4 * 1 /\ Weight(k, 6) = r1 * r2 * r3 * r4 * r5
    BY DEF Weight
<1>4. /\ r1 \in Nat \ {0} /\ r2 \in Nat \ {0} /\ r3 \in Nat \ {0} /\ r4 \in Nat \ {0}
      /\ r5 \in Nat \ {0}
    BY <1>1
<1>5. \A i \in 1 .. n : Mul(k, i) = Weight(k, i)
  <2> SUFFICES ASSUME NEW i \in 1 .. n PROVE Mul(k, i) = Weight(k, i)
      OBVIOUS
  <2> DEFINE plain(j) == IF j < i THEN Radices(k)[j] ELSE 1
             below(j) == IF j < i THEN Radix(k, j) ELSE 1
  <2>1. Mul(k, i) = plain(1) * plain(2) * plain(3) * plain(4)
      BY DEF Mul
  <2>2. Weight(k, i) = below(1) * below(2) * below(3) * below(4) * below(5)
      BY DEF Weight
  <2>3. plain(1) = below(1) /\ plain(2) = below(2) /\ plain(3) = below(3) /\ plain(4) = below(4)
      BY <1>1 DEF Radix
  <2>4. below(5) = 1
    <3>1. n \in 1 .. 5 /\ i \in 1 .. n
        BY <1>1
    <3> HIDE DEF n
    <3>2. ~(5 < i)
        BY ONLY <3>1
    <3> QED
        BY ONLY <3>2
  <2>5. /\ below(1) \in Nat /\ below(2) \in Nat /\ below(3) \in Nat /\ below(4) \in Nat
      BY <1>1
  <2> HIDE DEF plain, below
  <2> QED
      BY <2>1, <2>2, <2>3, <2>4, <2>5
<1> HIDE DEF r1, r2, r3, r4, r5
<1>6. /\ Weight(k, 1) = 1 /\ Weight(k, 2) = r1
      /\ Weight(k, 3) = Weight(k, 2) * r2
      /\ Weight(k, 4) = Weight(k, 3) * r3
      /\ Weight(k, 5) = Weight(k, 4) * r4
      /\ Weight(k, 6) = Weight(k, 5) * r5 /\ Weight(k, 6) = ShadowMul
    BY <1>1, <1>3, <1>4
<1>7. Weight(k, n + 1) = ShadowMul
  <2>0. /\ Weight(k, 1 + 1) = Weight(k, 2) /\ Weight(k, 2 + 1) = Weight(k, 3)
        /\ Weight(k, 3 + 1) = Weight(k, 4) /\ Weight(k, 4 + 1) = Weight(k, 5)
        /\ Weight(k, 5 + 1) = Weight(k, 6)
      OBVIOUS
  <2>1. CASE n = 1
    <3>1. r2 = 1 /\ r3 = 1 /\ r4 = 1 /\ r5 = 1
        BY <1>2, <2>1 DEF r2, r3, r4, r5
    <3> QED
        BY <1>3, <1>4, <1>6, <2>0, <2>1, <3>1
  <2>2. CASE n = 2
    <3>1. r3 = 1 /\ r4 = 1 /\ r5 = 1
        BY <1>2, <2>2 DEF r3, r4, r5
    <3> QED
        BY <1>3, <1>4, <1>6, <2>0, <2>2, <3>1
  <2>3. CASE n = 3
    <3>1. r4 = 1 /\ r5 = 1
        BY <1>2, <2>3 DEF r4, r5
    <3> QED
        BY <1>3, <1>4, <1>6, <2>0, <2>3, <3>1
  <2>4. CASE n = 4
    <3>1. r5 = 1
        BY <1>2, <2>4 DEF r5
    <3> QED
        BY <1>3, <1>4, <1>6, <2>0, <2>4, <3>1
  <2>5. CASE n = 5
      BY <1>6, <2>0, <2>5
  <2>6. n \in 1 .. 5
      BY <1>1
  <2> HIDE DEF n
  <2> QED
      BY ONLY <2>1, <2>2, <2>3, <2>4, <2>5, <2>6
<1>8. \A i \in 1 .. 6 : Weight(k, i) \in Nat \ {0}
  <2>1. /\ Weight(k, 1) \in Nat \ {0} /\ Weight(k, 2) \in Nat \ {0}
      BY <1>4, <1>6
  <2>2. Weight(k, 3) \in Nat \ {0}
      BY <1>4, <1>6, <2>1
  <2>3. Weight(k, 4) \in Nat \ {0}
      BY <1>4, <1>6, <2>2
  <2>4. Weight(k, 5) \in Nat \ {0}
      BY <1>4, <1>6, <2>3
  <2>5. Weight(k, 6) \in Nat \ {0}
      BY <1>4, <1>6, <2>4
  <2> QED
      BY <2>1, <2>2, <2>3, <2>4, <2>5
<1> QED
    BY <1>1, <1>5, <1>6, <1>7, <1>8 DEF r1, r2, r3, r4, r5

\* A field, 0 for one the kind does not have, and what the fields make up.
Pad(f, i) == IF i \in DOMAIN f THEN f[i] ELSE 0
Number(k, f) ==
    Pad(f, 1) + Pad(f, 2) * Weight(k, 2) + Pad(f, 3) * Weight(k, 3)
      + Pad(f, 4) * Weight(k, 4) + Pad(f, 5) * Weight(k, 5)
\* Field i of a number.
FieldOf(k, x, i) == (x % Weight(k, i + 1)) \div Weight(k, i)

LEMMA PadInRange ==
    ASSUME NEW k \in Kind, NEW f, InRange(k, f)
    PROVE  \A i \in 1 .. 5 : Pad(f, i) \in 0 .. Radix(k, i) - 1
<1> SUFFICES ASSUME NEW i \in 1 .. 5 PROVE Pad(f, i) \in 0 .. Radix(k, i) - 1
    OBVIOUS
<1>1. Radix(k, i) \in Nat \ {0}
    BY RadicesAre
<1>2. CASE i \in DOMAIN f
    BY <1>2 DEF InRange, Pad, Radix
<1>3. CASE i \notin DOMAIN f
    BY <1>1, <1>3 DEF Pad
<1> QED
    BY <1>2, <1>3

\* Encode adds up the fields and the marks.
LEMMA EncodeAdds ==
    ASSUME NEW k \in Kind, NEW t, NEW f, InRange(k, f)
    PROVE  Encode(k, t, f) = Number(k, f) + (IF t = "shadow" THEN ShadowMul ELSE 0)
                               + (IF k = "accountV2" THEN 2 * ShadowMul ELSE 0)
<1> DEFINE part(i) == IF i \in DOMAIN f THEN f[i] * Mul(k, i) ELSE 0
           mark == IF t = "shadow" THEN ShadowMul ELSE 0
           version == IF k = "accountV2" THEN 2 * ShadowMul ELSE 0
<1>1. Encode(k, t, f) = part(1) + part(2) + part(3) + part(4) + part(5) + mark + version
    BY DEF Encode
<1>2. DOMAIN f = DOMAIN Radices(k)
    BY DEF InRange
<1>3. ASSUME NEW i \in 1 .. 5 PROVE part(i) = Pad(f, i) * Weight(k, i)
  <2>1. CASE i \in DOMAIN f
      BY <1>2, <2>1, WeightsAre DEF Pad
  <2>2. CASE i \notin DOMAIN f
    <3>1. Weight(k, i) \in Nat
        BY WeightsAre
    <3> QED
        BY <2>2, <3>1 DEF Pad
  <2> QED
      BY <2>1, <2>2
<1>4. Pad(f, 1) \in Nat /\ Weight(k, 1) = 1
  <2>1. Pad(f, 1) \in 0 .. Radix(k, 1) - 1 /\ Radix(k, 1) \in Nat
      BY PadInRange, RadicesAre
  <2> QED
      BY <2>1, WeightsAre
<1> HIDE DEF part, mark, version
<1>5. /\ part(1) = Pad(f, 1) /\ part(2) = Pad(f, 2) * Weight(k, 2)
      /\ part(3) = Pad(f, 3) * Weight(k, 3) /\ part(4) = Pad(f, 4) * Weight(k, 4)
      /\ part(5) = Pad(f, 5) * Weight(k, 5)
    BY <1>3, <1>4
<1> QED
    BY <1>1, <1>5 DEF Number, mark, version

\* What the fields make up is below ShadowMul, and each is read off it.
LEMMA NumberReads ==
    ASSUME NEW k \in Kind, NEW f, InRange(k, f)
    PROVE  /\ Number(k, f) \in 1 .. ShadowMul - 1
           /\ \A i \in 1 .. 5 : FieldOf(k, Number(k, f), i) = Pad(f, i)
<1> DEFINE x == Number(k, f)
           f1 == Pad(f, 1)
           f2 == Pad(f, 2)
           f3 == Pad(f, 3)
           f4 == Pad(f, 4)
           f5 == Pad(f, 5)
           r1 == Radix(k, 1)
           r2 == Radix(k, 2)
           r3 == Radix(k, 3)
           r4 == Radix(k, 4)
           r5 == Radix(k, 5)
           m2 == Weight(k, 2)
           m3 == Weight(k, 3)
           m4 == Weight(k, 4)
           m5 == Weight(k, 5)
           m6 == Weight(k, 6)
<1>1. /\ r1 \in Nat \ {0} /\ r2 \in Nat \ {0} /\ r3 \in Nat \ {0} /\ r4 \in Nat \ {0}
      /\ r5 \in Nat \ {0}
    BY RadicesAre
<1>2. /\ f1 \in 0 .. r1 - 1 /\ f2 \in 0 .. r2 - 1 /\ f3 \in 0 .. r3 - 1 /\ f4 \in 0 .. r4 - 1
      /\ f5 \in 0 .. r5 - 1
    BY PadInRange
<1>3. /\ m2 = r1 /\ m3 = m2 * r2 /\ m4 = m3 * r3 /\ m5 = m4 * r4 /\ m6 = m5 * r5
      /\ m6 = ShadowMul /\ Weight(k, 1) = 1 /\ m2 \in Nat \ {0} /\ m3 \in Nat \ {0}
      /\ m4 \in Nat \ {0} /\ m5 \in Nat \ {0}
    BY WeightsAre
<1>4. x = f1 + f2 * m2 + f3 * m3 + f4 * m4 + f5 * m5
    BY DEF Number
<1>5. f1 > 0
  <2>1. DOMAIN f = DOMAIN Radices(k) /\ f[1] > 0 /\ 1 \in DOMAIN Radices(k)
      BY RadicesAre DEF InRange
  <2> QED
      BY <2>1 DEF Pad
<1>6. /\ FieldOf(k, x, 1) = (x % m2) \div 1 /\ FieldOf(k, x, 2) = (x % m3) \div m2
      /\ FieldOf(k, x, 3) = (x % m4) \div m3 /\ FieldOf(k, x, 4) = (x % m5) \div m4
      /\ FieldOf(k, x, 5) = (x % m6) \div m5
    BY <1>3 DEF FieldOf
<1> HIDE DEF x, f1, f2, f3, f4, f5, r1, r2, r3, r4, r5, m2, m3, m4, m5, m6
<1>7. /\ x \in 0 .. m6 - 1
      /\ x % m2 = f1 /\ (x % m3) \div m2 = f2 /\ (x % m4) \div m3 = f3
      /\ (x % m5) \div m4 = f4 /\ (x % m6) \div m5 = f5
  <2>1. /\ m2 \in Nat \ {0} /\ m3 \in Nat \ {0} /\ m4 \in Nat \ {0} /\ m5 \in Nat \ {0}
        /\ m6 \in Nat \ {0} /\ m2 = r1 /\ m3 = m2 * r2 /\ m4 = m3 * r3 /\ m5 = m4 * r4
        /\ m6 = m5 * r5
      BY <1>3, RadixNumbers
  <2>2. f1 \in Nat /\ f2 \in Nat /\ f3 \in Nat /\ f4 \in Nat /\ f5 \in Nat
      BY <1>1, <1>2
  <2> DEFINE h5 == f5
             h4 == f4 + r4 * h5
             h3 == f3 + r3 * h4
             h2 == f2 + r2 * h3
  <2>3. h5 \in Nat /\ m5 * h5 = f5 * m5
      BY <2>1, <2>2
  <2> HIDE DEF h5
  <2>4. h4 \in Nat /\ m4 * h4 = f4 * m4 + m5 * h5
      BY <1>1, <2>1, <2>2, <2>3
  <2> HIDE DEF h4
  <2>5. h3 \in Nat /\ m3 * h3 = f3 * m3 + m4 * h4
      BY <1>1, <2>1, <2>2, <2>4
  <2> HIDE DEF h3
  <2>6. h2 \in Nat /\ m2 * h2 = f2 * m2 + m3 * h3
      BY <1>1, <2>1, <2>2, <2>5
  <2> HIDE DEF h2
  <2> DEFINE p2 == f2 * m2
             p3 == f3 * m3
             p4 == f4 * m4
             p5 == f5 * m5
             low3 == f1 + m2 * f2
             low4 == low3 + m3 * f3
             low5 == low4 + m4 * f4
  <2>7. /\ p2 \in Nat /\ p3 \in Nat /\ p4 \in Nat /\ p5 \in Nat
        /\ m2 * f2 = p2 /\ m3 * f3 = p3 /\ m4 * f4 = p4 /\ m5 * f5 = p5
      BY <2>1, <2>2
  <2>8. x = f1 + p2 + p3 + p4 + p5 /\ low3 = f1 + p2 /\ low4 = f1 + p2 + p3
        /\ low5 = f1 + p2 + p3 + p4
      BY <1>4, <2>2, <2>7
  <2>9. /\ m2 * h2 = p2 + m3 * h3 /\ m3 * h3 = p3 + m4 * h4 /\ m4 * h4 = p4 + m5 * h5
        /\ m5 * h5 = p5
      BY <2>3, <2>4, <2>5, <2>6
  <2> HIDE DEF p2, p3, p4, p5
  <2>10. x % m2 = f1
    <3>1. x = f1 + m2 * h2 /\ m2 = 1 * r1 /\ f1 = 0 + 1 * f1
        BY <1>1, <2>1, <2>2, <2>6, <2>7, <2>8, <2>9
    <3>2. 0 \in 0 .. 1 - 1 /\ 1 \in Nat \ {0}
        OBVIOUS
    <3> QED
        BY <1>1, <1>2, <2>6, <3>1, <3>2, FieldReads
  <2>11. x = low3 + m3 * h3 /\ low3 = f1 + m2 * f2
      BY <2>2, <2>7, <2>8, <2>9
  <2> HIDE DEF low3
  <2>12. low3 \in 0 .. m3 - 1 /\ (x % m3) \div m2 = f2
    <3>1. f1 \in 0 .. m2 - 1
        BY <1>2, <2>1
    <3>2. m2 \in Nat \ {0} /\ r2 \in Nat \ {0} /\ m3 = m2 * r2 /\ f2 \in 0 .. r2 - 1
          /\ h3 \in Nat
        BY <1>1, <1>2, <2>1, <2>5
    <3> QED
        BY ONLY <2>11, <3>1, <3>2, FieldReads
  <2>13. x = low4 + m4 * h4 /\ low4 = low3 + m3 * f3
      BY <2>2, <2>7, <2>8, <2>9
  <2> HIDE DEF low4
  <2>14. low4 \in 0 .. m4 - 1 /\ (x % m4) \div m3 = f3
    <3>1. m3 \in Nat \ {0} /\ r3 \in Nat \ {0} /\ m4 = m3 * r3 /\ f3 \in 0 .. r3 - 1
          /\ h4 \in Nat
        BY <1>1, <1>2, <2>1, <2>4
    <3>2. low3 \in 0 .. m3 - 1
        BY <2>12
    <3> QED
        BY ONLY <2>13, <3>1, <3>2, FieldReads
  <2>15. x = low5 + m5 * h5 /\ low5 = low4 + m4 * f4
      BY <2>2, <2>7, <2>8, <2>9
  <2> HIDE DEF low5
  <2>16. low5 \in 0 .. m5 - 1 /\ (x % m5) \div m4 = f4
    <3>1. m4 \in Nat \ {0} /\ r4 \in Nat \ {0} /\ m5 = m4 * r4 /\ f4 \in 0 .. r4 - 1
          /\ h5 \in Nat
        BY <1>1, <1>2, <2>1, <2>3
    <3>2. low4 \in 0 .. m4 - 1
        BY <2>14
    <3> QED
        BY ONLY <2>15, <3>1, <3>2, FieldReads
  <2>17. x = x + m6 * 0 /\ x = low5 + m5 * f5 /\ 0 \in Nat
      BY <2>1, <2>2, <2>7, <2>8
  <2>18. x \in 0 .. m6 - 1 /\ (x % m6) \div m5 = f5
    <3>1. m5 \in Nat \ {0} /\ r5 \in Nat \ {0} /\ m6 = m5 * r5 /\ f5 \in 0 .. r5 - 1
        BY <1>1, <1>2, <2>1
    <3> QED
        BY ONLY <2>16, <2>17, <3>1, FieldReads
  <2> QED
      BY <2>10, <2>12, <2>14, <2>16, <2>18
<1>8. x >= f1
  <2>1. f2 * m2 \in Nat /\ f3 * m3 \in Nat /\ f4 * m4 \in Nat /\ f5 * m5 \in Nat
      BY ONLY <1>1, <1>2, <1>3
  <2> HIDE DEF x
  <2> QED
      BY ONLY <1>1, <1>2, <1>4, <2>1
<1>9. f1 \div 1 = f1
    BY <1>1, <1>2
<1>10. x \in 1 .. ShadowMul - 1
    BY <1>1, <1>2, <1>3, <1>5, <1>7, <1>8, RadixNumbers
<1>11. /\ FieldOf(k, x, 1) = f1 /\ FieldOf(k, x, 2) = f2 /\ FieldOf(k, x, 3) = f3
       /\ FieldOf(k, x, 4) = f4 /\ FieldOf(k, x, 5) = f5
    BY <1>6, <1>7, <1>9
<1>12. ASSUME NEW i \in 1 .. 5 PROVE FieldOf(k, x, i) = Pad(f, i)
  <2>1. i = 1 \/ i = 2 \/ i = 3 \/ i = 4 \/ i = 5
      OBVIOUS
  <2> QED
      BY <1>11, <2>1 DEF f1, f2, f3, f4, f5
<1> QED
    BY <1>10, <1>12 DEF x

\* A number below ShadowMul is what its fields make up.
LEMMA NumberBack ==
    ASSUME NEW k \in Kind, NEW x \in 0 .. ShadowMul - 1, NEW f,
           DOMAIN f = DOMAIN Radices(k), \A i \in DOMAIN f : f[i] = FieldOf(k, x, i)
    PROVE  /\ Number(k, f) = x
           /\ \A i \in DOMAIN f : f[i] \in 0 .. Radix(k, i) - 1
<1> DEFINE r1 == Radix(k, 1)
           r2 == Radix(k, 2)
           r3 == Radix(k, 3)
           r4 == Radix(k, 4)
           r5 == Radix(k, 5)
           m2 == Weight(k, 2)
           m3 == Weight(k, 3)
           m4 == Weight(k, 4)
           m5 == Weight(k, 5)
           m6 == Weight(k, 6)
<1>1. /\ r1 \in Nat \ {0} /\ r2 \in Nat \ {0} /\ r3 \in Nat \ {0} /\ r4 \in Nat \ {0}
      /\ r5 \in Nat \ {0}
    BY RadicesAre
<1>2. /\ m2 = r1 /\ m3 = m2 * r2 /\ m4 = m3 * r3 /\ m5 = m4 * r4 /\ m6 = m5 * r5
      /\ m6 = ShadowMul /\ Weight(k, 1) = 1 /\ m2 \in Nat \ {0} /\ m3 \in Nat \ {0}
      /\ m4 \in Nat \ {0} /\ m5 \in Nat \ {0} /\ m6 \in Nat \ {0}
    BY WeightsAre
<1>3. /\ FieldOf(k, x, 1) = (x % m2) \div 1 /\ FieldOf(k, x, 2) = (x % m3) \div m2
      /\ FieldOf(k, x, 3) = (x % m4) \div m3 /\ FieldOf(k, x, 4) = (x % m5) \div m4
      /\ FieldOf(k, x, 5) = (x % m6) \div m5
    BY <1>2 DEF FieldOf
<1> HIDE DEF m2, m3, m4, m5, m6
<1>4. x \in 0 .. m6 - 1 /\ x \in Nat
    BY <1>2, RadixNumbers
<1> HIDE DEF r1, r2, r3, r4, r5
<1>5. /\ x = (x % m2) + ((x % m3) \div m2) * m2 + ((x % m4) \div m3) * m3
               + ((x % m5) \div m4) * m4 + ((x % m6) \div m5) * m5
      /\ x % m2 \in 0 .. r1 - 1 /\ (x % m3) \div m2 \in 0 .. r2 - 1
      /\ (x % m4) \div m3 \in 0 .. r3 - 1 /\ (x % m5) \div m4 \in 0 .. r4 - 1
      /\ (x % m6) \div m5 \in 0 .. r5 - 1
  <2>1. x % m6 = x
      BY <1>2, <1>4
  <2> DEFINE d1 == x % m2
             d2 == (x % m3) \div m2
             d3 == (x % m4) \div m3
             d4 == (x % m5) \div m4
             d5 == (x % m6) \div m5
  <2>2. d1 \in 0 .. r1 - 1
      BY <1>1, <1>2, <1>4, DivideNat
  <2>3. d2 \in 0 .. r2 - 1 /\ x % m3 = d1 + m2 * d2
    <3>1. x \in Nat /\ m2 \in Nat \ {0} /\ r2 \in Nat \ {0} /\ m3 = m2 * r2
        BY <1>1, <1>2, <1>4
    <3> QED
        BY ONLY <3>1, FieldSplits
  <2>4. d3 \in 0 .. r3 - 1 /\ x % m4 = (x % m3) + m3 * d3
    <3>1. x \in Nat /\ m3 \in Nat \ {0} /\ r3 \in Nat \ {0} /\ m4 = m3 * r3
        BY <1>1, <1>2, <1>4
    <3> QED
        BY ONLY <3>1, FieldSplits
  <2>5. d4 \in 0 .. r4 - 1 /\ x % m5 = (x % m4) + m4 * d4
    <3>1. x \in Nat /\ m4 \in Nat \ {0} /\ r4 \in Nat \ {0} /\ m5 = m4 * r4
        BY <1>1, <1>2, <1>4
    <3> QED
        BY ONLY <3>1, FieldSplits
  <2>6. d5 \in 0 .. r5 - 1 /\ x % m6 = (x % m5) + m5 * d5
    <3>1. x \in Nat /\ m5 \in Nat \ {0} /\ r5 \in Nat \ {0} /\ m6 = m5 * r5
        BY <1>1, <1>2, <1>4
    <3> QED
        BY ONLY <3>1, FieldSplits
  <2> HIDE DEF d1, d2, d3, d4, d5
  <2>7. /\ m2 * d2 = d2 * m2 /\ m3 * d3 = d3 * m3 /\ m4 * d4 = d4 * m4 /\ m5 * d5 = d5 * m5
      BY <1>1, <1>2, <2>3, <2>4, <2>5, <2>6
  <2>8. x = d1 + d2 * m2 + d3 * m3 + d4 * m4 + d5 * m5
      BY <2>1, <2>3, <2>4, <2>5, <2>6, <2>7
  <2> QED
      BY <2>2, <2>3, <2>4, <2>5, <2>6, <2>8 DEF d1, d2, d3, d4, d5
<1>6. (x % m2) \div 1 = x % m2
    BY <1>1, <1>5
<1>7. /\ FieldOf(k, x, 1) \in 0 .. r1 - 1 /\ FieldOf(k, x, 2) \in 0 .. r2 - 1
      /\ FieldOf(k, x, 3) \in 0 .. r3 - 1 /\ FieldOf(k, x, 4) \in 0 .. r4 - 1
      /\ FieldOf(k, x, 5) \in 0 .. r5 - 1
    BY <1>3, <1>5, <1>6
<1>8. \A i \in 1 .. 5 : FieldOf(k, x, i) \in 0 .. Radix(k, i) - 1
  <2> SUFFICES ASSUME NEW i \in 1 .. 5 PROVE FieldOf(k, x, i) \in 0 .. Radix(k, i) - 1
      OBVIOUS
  <2>1. i = 1 \/ i = 2 \/ i = 3 \/ i = 4 \/ i = 5
      OBVIOUS
  <2> QED
      BY <1>7, <2>1 DEF r1, r2, r3, r4, r5
\* A field that the kind does not have is 0.
<1>9. \A i \in 1 .. 5 : Pad(f, i) = FieldOf(k, x, i)
  <2> SUFFICES ASSUME NEW i \in 1 .. 5 PROVE Pad(f, i) = FieldOf(k, x, i)
      OBVIOUS
  <2>1. CASE i \in DOMAIN f
      BY <2>1 DEF Pad
  <2>2. CASE i \notin DOMAIN f
    <3>1. Radix(k, i) = 1
        BY <2>2 DEF Radix
    <3>2. FieldOf(k, x, i) \in 0 .. 1 - 1
        BY <1>8, <3>1
    <3>3. FieldOf(k, x, i) = 0
        BY <3>2
    <3> QED
        BY <2>2, <3>3 DEF Pad
  <2> QED
      BY <2>1, <2>2
<1>10. Number(k, f) = x
  <2>1. /\ Pad(f, 1) = x % m2 /\ Pad(f, 2) = (x % m3) \div m2 /\ Pad(f, 3) = (x % m4) \div m3
        /\ Pad(f, 4) = (x % m5) \div m4 /\ Pad(f, 5) = (x % m6) \div m5
      BY <1>3, <1>6, <1>9
  <2>2. Number(k, f) = Pad(f, 1) + Pad(f, 2) * m2 + Pad(f, 3) * m3 + Pad(f, 4) * m4 + Pad(f, 5) * m5
      BY DEF Number, m2, m3, m4, m5
  <2>3. Number(k, f) = (x % m2) + ((x % m3) \div m2) * m2 + ((x % m4) \div m3) * m3
               + ((x % m5) \div m4) * m4 + ((x % m6) \div m5) * m5
      BY ONLY <2>1, <2>2
  <2> QED
      BY ONLY <1>5, <2>3
<1>11. \A i \in DOMAIN f : i \in 1 .. 5
  <2> DEFINE n == Len(Radices(k))
  <2>1. DOMAIN f = 1 .. n /\ n \in 1 .. 5
      BY RadicesAre
  <2> HIDE DEF n
  <2> QED
      BY ONLY <2>1
<1> QED
    BY <1>8, <1>10, <1>11

\* Marks and number give the layout, the traffic and the number back.
LEMMA SizeTells ==
    ASSUME NEW k \in Kind, NEW t \in Traffic, NEW x \in 0 .. ShadowMul - 1,
           NEW id, id = x + (IF t = "shadow" THEN ShadowMul ELSE 0)
                          + (IF k = "accountV2" THEN 2 * ShadowMul ELSE 0)
    PROVE  /\ id \in x .. 4 * ShadowMul - 1
           /\ Layout(k, id) = k /\ Payload(k, id) = x /\ TrafficOf(k, id) = t
           /\ k \in {"account", "accountV2"} => (IsShadowAccountIDLayout(id) <=> t = "shadow")
<1>1. ShadowMul \in Nat \ {0} /\ x \in Nat /\ x < ShadowMul /\ id \in Int
    BY RadixNumbers
<1>2. id \in x .. 4 * ShadowMul - 1
    BY <1>1
<1>3. Layout(k, id) = k
  <2>1. CASE k = "accountV2"
      BY <1>1, <2>1 DEF Layout
  <2>2. CASE k # "accountV2"
    <3>1. ~(id >= 2 * ShadowMul)
        BY <1>1, <2>2
    <3> QED
        BY <2>2, <3>1 DEF Layout
  <2> QED
      BY <2>1, <2>2
<1>4. Stripped(k, id) = x + (IF t = "shadow" THEN ShadowMul ELSE 0)
    BY <1>1, <1>3 DEF Stripped
<1>5. Payload(k, id) = x /\ TrafficOf(k, id) = t
  <2>1. CASE t = "shadow"
      BY <1>1, <1>4, <2>1 DEF Payload, TrafficOf
  <2>2. CASE t = "main"
      BY <1>1, <1>4, <2>2 DEF Payload, TrafficOf
  <2> QED
      BY <2>1, <2>2 DEF Traffic
<1>6. IsShadowAccountIDLayout(id) <=> t = "shadow"
  <2> DEFINE b == (IF t = "shadow" THEN 1 ELSE 0) + (IF k = "accountV2" THEN 2 ELSE 0)
  <2>1. b \in Nat /\ id = ShadowMul * b + x /\ x \in 0 .. ShadowMul - 1
      BY <1>1
  <2>2. b % 2 = (IF t = "shadow" THEN 1 ELSE 0)
      OBVIOUS
  <2> HIDE DEF b
  <2>3. (ShadowMul * b + x) \div ShadowMul = b
      BY <1>1, <2>1, QuotientIs
  <2>4. id \div ShadowMul = b
      BY <2>1, <2>3
  <2> QED
      BY <2>2, <2>4 DEF IsShadowAccountIDLayout
<1> QED
    BY <1>2, <1>3, <1>5, <1>6

\* The weight above the topmost field of a kind.
LEMMA TopWeight ==
    ASSUME NEW k \in Kind, NEW n, n = Len(Radices(k))
    PROVE  /\ n \in DOMAIN Radices(k) /\ n \in 1 .. 5
           /\ Weight(k, n) * Radix(k, n) = ShadowMul /\ Weight(k, n + 1) = ShadowMul
<1>1. n \in DOMAIN Radices(k) /\ n \in 1 .. 5
  <2>1. DOMAIN Radices(k) = 1 .. n /\ n \in 1 .. 5
      BY RadicesAre
  <2> QED
      BY ONLY <2>1
<1>2. Weight(k, n + 1) = ShadowMul
    BY WeightsAre
<1>3. Weight(k, n + 1) = Weight(k, n) * Radix(k, n)
  <2>1. /\ Weight(k, 1) * Radix(k, 1) = Weight(k, 2)
        /\ Weight(k, 2) * Radix(k, 2) = Weight(k, 3) /\ Weight(k, 3) * Radix(k, 3) = Weight(k, 4)
        /\ Weight(k, 4) * Radix(k, 4) = Weight(k, 5) /\ Weight(k, 5) * Radix(k, 5) = Weight(k, 6)
    <3>1. Radix(k, 1) \in Nat
        BY RadicesAre
    <3> QED
        BY <3>1, WeightsAre
  <2>2. n = 1 \/ n = 2 \/ n = 3 \/ n = 4 \/ n = 5
      BY ONLY <1>1
  <2> QED
      BY ONLY <2>1, <2>2
<1> QED
    BY <1>1, <1>2, <1>3

\* The fields Decode finds are those of the payload.
LEMMA DecodeFields ==
    ASSUME NEW k \in Kind, NEW id, NEW l \in Kind, l = Layout(k, id),
           NEW x \in 0 .. ShadowMul - 1, x = Payload(k, id)
    PROVE  /\ DOMAIN Decode(k, id) = DOMAIN Radices(l)
           /\ Decode(k, id) = [i \in DOMAIN Radices(l) |-> Decode(k, id)[i]]
           /\ \A i \in DOMAIN Radices(l) : Decode(k, id)[i] = FieldOf(l, x, i)
<1> DEFINE n == Len(Radices(l))
<1>1. Decode(k, id) = [i \in 1 .. n |-> IF i = n THEN x \div Mul(l, i)
                                        ELSE (x % Mul(l, i + 1)) \div Mul(l, i)]
    BY DEF Decode
<1>2. DOMAIN Radices(l) = 1 .. n
    BY RadicesAre
<1>3. n \in 1 .. 5 /\ Weight(l, n + 1) = ShadowMul
    BY TopWeight
<1>4. \A i \in 1 .. n : Mul(l, i) = Weight(l, i)
    BY <1>2, WeightsAre
<1> HIDE DEF n
<1>5. ASSUME NEW i \in 1 .. n PROVE Decode(k, id)[i] = FieldOf(l, x, i)
  <2>1. CASE i = n
    <3>1. Decode(k, id)[i] = x \div Weight(l, i)
        BY <1>1, <1>4, <2>1
    <3>2. x % ShadowMul = x
        BY RadixNumbers
    <3> QED
        BY <1>3, <2>1, <3>1, <3>2 DEF FieldOf
  <2>2. CASE i # n
    <3>1. i + 1 \in 1 .. n
        BY <1>3, <2>2
    <3> QED
        BY <1>1, <1>4, <2>2, <3>1 DEF FieldOf
  <2> QED
      BY <2>1, <2>2
<1> QED
    BY <1>1, <1>2, <1>5

\* What Encode made, with all that the readers tell of it.
LEMMA EncodedTells ==
    ASSUME NEW k \in Kind, NEW t \in Traffic, NEW f \in [DOMAIN Radices(k) -> Nat],
           InRange(k, f), NEW id, id = Encode(k, t, f)
    PROVE  /\ id \in 1 .. 4 * ShadowMul - 1
           /\ Decode(k, id) = f /\ TrafficOf(k, id) = t /\ Layout(k, id) = k
           /\ k \in {"account", "accountV2"} => (IsShadowAccountIDLayout(id) <=> t = "shadow")
<1> DEFINE x == Number(k, f)
<1>1. x \in 1 .. ShadowMul - 1 /\ \A i \in 1 .. 5 : FieldOf(k, x, i) = Pad(f, i)
    BY NumberReads
<1>2. id = x + (IF t = "shadow" THEN ShadowMul ELSE 0)
             + (IF k = "accountV2" THEN 2 * ShadowMul ELSE 0)
    BY EncodeAdds
<1> HIDE DEF x
<1>3. x \in 0 .. ShadowMul - 1
    BY <1>1
<1>4. /\ id \in x .. 4 * ShadowMul - 1
      /\ Layout(k, id) = k /\ Payload(k, id) = x /\ TrafficOf(k, id) = t
      /\ k \in {"account", "accountV2"} => (IsShadowAccountIDLayout(id) <=> t = "shadow")
    BY <1>2, <1>3, SizeTells
<1>5. /\ Decode(k, id) = [i \in DOMAIN Radices(k) |-> Decode(k, id)[i]]
      /\ \A i \in DOMAIN Radices(k) : Decode(k, id)[i] = FieldOf(k, x, i)
    BY <1>3, <1>4, DecodeFields
<1>6. \A i \in DOMAIN Radices(k) : Decode(k, id)[i] = f[i]
  <2> SUFFICES ASSUME NEW i \in DOMAIN Radices(k) PROVE Decode(k, id)[i] = f[i]
      OBVIOUS
  <2>1. i \in 1 .. 5
    <3> DEFINE n == Len(Radices(k))
    <3>1. n \in 1 .. 5 /\ i \in 1 .. n
        BY RadicesAre
    <3> HIDE DEF n
    <3> QED
        BY ONLY <3>1
  <2>2. Pad(f, i) = f[i]
      BY DEF Pad
  <2> QED
      BY <1>1, <1>5, <2>1, <2>2
<1>7. Decode(k, id) = f
    BY <1>5, <1>6
<1>8. id \in 1 .. 4 * ShadowMul - 1
    BY <1>1, <1>4, RadixNumbers
<1> QED
    BY <1>4, <1>7, <1>8

\* What a Validate function takes is an id that its kind could have encoded for
\* this traffic.
LEMMA ValidateTells ==
    ASSUME NEW k \in Kind \ {"id"}, NEW t \in Traffic, NEW id \in Int, Validate(k, t, id)
    PROVE  /\ InRange(Layout(k, id), Decode(k, id))
           /\ Encode(Layout(k, id), t, Decode(k, id)) = id
           /\ TrafficOf(k, id) = t
<1> DEFINE low == IF k = "accountV2" THEN "account" ELSE k
           l == Layout(k, id)
           f == Decode(k, id)
           x == Payload(k, id)
           n == Len(Radices(l))
<1>1. id >= 0 /\ TrafficOf(k, id) = t /\ InRange(low, f)
    BY DEF Validate
<1>2. l \in Kind /\ low \in Kind /\ (l = low \/ (l = "accountV2" /\ low = "account"))
    BY DEF Layout, Kind
<1>3. ShadowMul \in Nat \ {0}
    BY RadixNumbers
<1>4. /\ x \in Nat
      /\ id = x + (IF t = "shadow" THEN ShadowMul ELSE 0) + (IF l = "accountV2" THEN 2 * ShadowMul ELSE 0)
  <2> DEFINE a == Stripped(k, id)
  <2>1. a = IF l = "accountV2" THEN id - 2 * ShadowMul ELSE id
      BY DEF Stripped
  <2>2. l = "accountV2" => id >= 2 * ShadowMul
      BY DEF Layout
  <2>3. a \in Nat /\ id = a + (IF l = "accountV2" THEN 2 * ShadowMul ELSE 0)
      BY <1>1, <1>3, <2>1, <2>2
  <2>4. t = (IF a >= ShadowMul THEN "shadow" ELSE "main")
      BY <1>1 DEF TrafficOf
  <2>5. x = IF a >= ShadowMul THEN a - ShadowMul ELSE a
      BY DEF Payload
  <2> HIDE DEF a, x, l
  <2> QED
      BY <1>3, <2>3, <2>4, <2>5
<1>5. n \in DOMAIN Radices(l) /\ n \in 1 .. 5 /\ Weight(l, n) * Radix(l, n) = ShadowMul
    BY <1>2, TopWeight
\* The topmost field is in range, so the number is below ShadowMul.
<1>6. f[n] = x \div Weight(l, n)
  <2>1. Decode(k, id)[n] = x \div Mul(l, n)
      BY <1>5 DEF Decode
  <2> QED
      BY <1>2, <1>5, <2>1, WeightsAre
<1>7. f[n] \in 0 .. Radix(l, n) - 1
  <2>1. DOMAIN f = DOMAIN Radices(low) /\ \A i \in DOMAIN f : f[i] \in 0 .. Radices(low)[i] - 1
      BY <1>1 DEF InRange
  <2>2. CASE l = low
      BY <1>5, <2>1, <2>2 DEF Radix
  <2>3. CASE l = "accountV2" /\ low = "account"
    <3>1. n = 5 /\ Radices(l)[5] = CurrencyRadix /\ Radices(low)[5] = CurrencyRadix
          /\ 5 \in DOMAIN Radices(low)
        BY <2>3 DEF Radices
    <3> HIDE DEF n, l, low
    <3> QED
        BY <1>5, <2>1, <3>1 DEF Radix
  <2> HIDE DEF f, n, l, low
  <2> QED
      BY <1>2, <2>2, <2>3
<1>8. x \in 0 .. ShadowMul - 1
  <2> DEFINE m == Weight(l, n)
             r == Radix(l, n)
             q == x \div m
  <2>1. m \in Nat \ {0} /\ r \in Nat \ {0}
    <3>1. \A i \in 1 .. 6 : Weight(l, i) \in Nat \ {0}
        BY <1>2, WeightsAre
    <3>2. \A i \in 1 .. 5 : Radix(l, i) \in Nat \ {0}
        BY <1>2, RadicesAre
    <3>3. n \in 1 .. 6 /\ n \in 1 .. 5
        BY <1>5
    <3> QED
        BY <3>1, <3>2, <3>3
  <2>2. q \in 0 .. r - 1 /\ m * r = ShadowMul
      BY <1>5, <1>6, <1>7
  <2> HIDE DEF m, r, x
  <2>3. x = m * q + (x % m) /\ x % m \in 0 .. m - 1 /\ q \in Nat
      BY <1>4, <2>1, DivideNat
  <2> HIDE DEF q
  <2>4. PICK j \in Nat : r = q + 1 + j
      BY <2>1, <2>2, r - q - 1 \in Nat
  <2>5. m * r = m * q + m + m * j /\ m * j \in Nat /\ m * q \in Nat
      BY <2>1, <2>3, <2>4
  <2> QED
      BY <1>4, <2>1, <2>2, <2>3, <2>5
<1> HIDE DEF x, n
<1>9. /\ DOMAIN f = DOMAIN Radices(l)
      /\ \A i \in DOMAIN Radices(l) : f[i] = FieldOf(l, x, i)
    BY <1>2, <1>8, DecodeFields DEF x
<1> HIDE DEF l, f
<1>10. Number(l, f) = x /\ \A i \in DOMAIN f : f[i] \in 0 .. Radix(l, i) - 1
    BY <1>2, <1>8, <1>9, NumberBack
<1>11. InRange(l, f)
    BY <1>1, <1>9, <1>10 DEF InRange, Radix
<1>12. Encode(l, t, f) = id
    BY <1>2, <1>4, <1>10, <1>11, EncodeAdds
<1> QED
    BY <1>1, <1>11, <1>12 DEF l, f

\* What was encoded is taken, but for the tables that only version 2 has.
LEMMA ValidateTakes ==
    ASSUME NEW k \in Kind \ {"id"}, NEW t \in Traffic, NEW f \in [DOMAIN Radices(k) -> Nat],
           InRange(k, f), k = "accountV2" => f[3] < Digits2
    PROVE  Validate(k, t, Encode(k, t, f))
<1> DEFINE id == Encode(k, t, f)
<1>1. id \in 1 .. 4 * ShadowMul - 1 /\ Decode(k, id) = f /\ TrafficOf(k, id) = t
    BY EncodedTells
<1>2. id >= 0
    BY <1>1, RadixNumbers
<1> HIDE DEF id
<1>3. CASE k # "accountV2"
    BY <1>1, <1>2, <1>3 DEF Validate, id
<1>4. CASE k = "accountV2"
  <2>1. /\ DOMAIN Radices(k) = 1 .. 5 /\ DOMAIN Radices("account") = 1 .. 5
        /\ Radices(k) = <<SeqRadix, BusinessRadix, Digits2 * TablesPerDB, TablesPerDB, CurrencyRadix>>
        /\ Radices("account") = <<SeqRadix, BusinessRadix, Digits2, Digits2, CurrencyRadix>>
      BY <1>4 DEF Radices
  <2>2. /\ DOMAIN f = 1 .. 5 /\ f[1] > 0 /\ f[1] \in 0 .. SeqRadix - 1
        /\ f[2] \in 0 .. BusinessRadix - 1 /\ f[4] \in 0 .. TablesPerDB - 1
        /\ f[5] \in 0 .. CurrencyRadix - 1 /\ f[3] \in Nat /\ f[4] \in Nat
      BY <2>1 DEF InRange
  <2>3. f[3] \in 0 .. Digits2 - 1 /\ f[4] \in 0 .. Digits2 - 1
      BY <1>4, <2>2, RadixNumbers
  <2>4. \A i \in 1 .. 5 : f[i] \in 0 .. Radices("account")[i] - 1
    <3> SUFFICES ASSUME NEW i \in 1 .. 5 PROVE f[i] \in 0 .. Radices("account")[i] - 1
        OBVIOUS
    <3>1. i = 1 \/ i = 2 \/ i = 3 \/ i = 4 \/ i = 5
        OBVIOUS
    <3> QED
        BY <2>1, <2>2, <2>3, <3>1
  <2>5. InRange("account", f)
      BY <2>1, <2>2, <2>4 DEF InRange
  <2> QED
      BY <1>1, <1>2, <1>4, <2>5 DEF Validate, id
<1> QED
    BY <1>3, <1>4 DEF id

\* Tables spread evenly over the databases.
LEMMA Spread ==
    ASSUME NEW n \in Nat \ {0}, NEW per \in Nat \ {0}, NEW all, all = n * per,
           NEW table \in 0 .. all - 1
    PROVE  table \div per \in 0 .. n - 1 /\ table - (table \div per) * per \in 0 .. per - 1
<1> DEFINE q == table \div per
<1>1. q \in Nat /\ table % per \in 0 .. per - 1 /\ table = per * q + (table % per) /\ table \in Nat
  <2>1. table \in Nat /\ per \in Nat \ {0}
    <3>1. all \in Nat
        OBVIOUS
    <3> QED
        BY <3>1
  <2> QED
      BY ONLY <2>1, DivideNat
<1> HIDE DEF q
<1>2. CASE q >= n
  <2>1. PICK j \in Nat : q = n + j
      BY <1>1, <1>2, q - n \in Nat
  <2>2. per * q = n * per + per * j /\ per * j \in Nat
      BY <2>1
  <2> QED
      BY <1>1, <2>2
<1>3. q * per = per * q
    BY <1>1
<1>4. table - q * per \in 0 .. per - 1
    BY <1>1, <1>3
<1> QED
    BY <1>1, <1>2, <1>4 DEF q

LEMMA EncodedRoutesHome ==
    ASSUME NEW k \in Kind \ {"merchant"}, NEW t \in Traffic, NEW f \in [DOMAIN Radices(k) -> Nat],
           InRange(k, f), NEW id, id = Encode(k, t, f),
           NEW per, per = IF k = "accountV2" THEN Digits2 ELSE TablesPerDB
    PROVE  /\ TableIndex(k, id) = f[Table(k)]
           /\ DBIndex(k, id) \in 0 .. TablesPerDB - 1
           /\ f[Table(k)] - DBIndex(k, id) * per \in 0 .. per - 1
<1> DEFINE table == f[Table(k)]
           all == IF k = "accountV2" THEN Digits2 * TablesPerDB ELSE Digits2
<1>1. Decode(k, id) = f /\ Layout(k, id) = k
    BY EncodedTells
<1>2. TableIndex(k, id) = table
    BY <1>1 DEF TableIndex
<1>3. DBIndex(k, id) = table \div per
    BY <1>1, <1>2 DEF DBIndex
<1>4. table \in 0 .. all - 1
  <2>1. Table(k) \in DOMAIN Radices(k) /\ Radices(k)[Table(k)] = all
    <3>1. CASE k = "entity" \/ k = "id"
        BY <3>1 DEF Table, Radices
    <3>2. CASE k = "account"
        BY <3>2 DEF Table, Radices
    <3>3. CASE k = "accountV2"
        BY <3>3 DEF Table, Radices
    <3> QED
        BY <3>1, <3>2, <3>3 DEF Kind
  <2> HIDE DEF all
  <2> QED
      BY <2>1 DEF InRange
<1>5. per \in Nat \ {0} /\ TablesPerDB \in Nat \ {0} /\ all = TablesPerDB * per
    BY RadixNumbers DEF Digits2
<1> HIDE DEF table, all
<1>6. table \div per \in 0 .. TablesPerDB - 1 /\ table - (table \div per) * per \in 0 .. per - 1
    BY ONLY <1>4, <1>5, Spread
<1> QED
    BY <1>2, <1>3, <1>6 DEF table

\* The segments as numbers.
LEMMA SegmentParts ==
    /\ \A s \in {"mainFleet", "main", "shadowFleet", "shadow"} :
           Segment[s][1] \in Nat /\ Segment[s][2] \in Nat
    /\ Segment["mainFleet"][2] < Segment["main"][1]
    /\ Segment["main"][2] < Segment["shadowFleet"][1]
    /\ Segment["shadowFleet"][2] + 1 = Segment["shadow"][1]
    /\ Segment["mainFleet"][1] + Channels * Stride - 1 <= Segment["mainFleet"][2]
    /\ Segment["shadowFleet"][1] + Channels * Stride - 1 <= Segment["shadowFleet"][2]
    /\ Segment["main"][1] <= Segment["main"][2]
    /\ Segment["main"][2] - Segment["main"][1] <= Segment["shadow"][2] - Segment["shadow"][1]
    /\ Segment["shadowFleet"][1] + FakeUsers - 1 <= Segment["shadow"][2]
    /\ Channels \in Nat \ {0} /\ Stride \in Nat \ {0} /\ FakeUsers \in Nat \ {0}
    /\ Channels * Stride \in Nat \ {0}
<1>1. \A s \in {"mainFleet", "main", "shadowFleet", "shadow"} : Segment[s] \in Nat \X Nat
    BY SegmentAssumption
<1>2. Channels \in Nat \ {0} /\ Stride \in Nat \ {0} /\ FakeUsers \in Nat \ {0}
    BY IdentityAssumption
<1>3. Channels * Stride \in Nat \ {0}
    BY <1>2
<1> QED
    BY <1>1, <1>2, <1>3, SegmentAssumption

\* Nobody is on two sides.
LEMMA UsersOnOneSide ==
    ASSUME NEW id \in Int
    PROVE  /\ ~(ValidateUserID("main", id) /\ ValidateUserID("shadow", id))
           /\ IsFleetUserID(id) => \A t \in Traffic : ~ValidateUserID(t, id)
<1> DEFINE a == Segment["mainFleet"][1]
           b == Segment["mainFleet"][2]
           c == Segment["main"][1]
           d == Segment["main"][2]
           e == Segment["shadowFleet"][1]
           g == Segment["shadowFleet"][2]
           h == Segment["shadow"][1]
           i == Segment["shadow"][2]
<1>1. /\ a \in Nat /\ b \in Nat /\ c \in Nat /\ d \in Nat /\ e \in Nat /\ g \in Nat
      /\ h \in Nat /\ i \in Nat /\ b < c /\ c <= d /\ d < e /\ g + 1 = h
      /\ Channels * Stride \in Nat \ {0} /\ e + Channels * Stride - 1 <= g
    BY SegmentParts
<1>2. /\ ValidateUserID("main", id) <=> id \in c .. d
      /\ ValidateUserID("shadow", id) <=> id \in h .. i
      /\ IsFleetUserID(id) <=> (id \in a .. b \/ id \in e .. g)
    BY DEF ValidateUserID, IsFleetUserID, In
<1> HIDE DEF a, b, c, d, e, g, h, i
<1>3. e <= g
    BY <1>1
<1>4. /\ ~(id \in c .. d /\ id \in h .. i)
      /\ id \in a .. b \/ id \in e .. g => ~(id \in c .. d) /\ ~(id \in h .. i)
    BY <1>1, <1>3
<1> QED
    BY <1>2, <1>4 DEF Traffic

LEMMA FleetDecodes ==
    ASSUME NEW t \in Traffic, NEW chan \in 0 .. Channels - 1, NEW table \in 0 .. Stride - 1
    PROVE  /\ FleetUserID(t, chan, table) \in Int
           /\ DecodeFleetUserID(FleetUserID(t, chan, table)) = <<chan, table>>
<1> DEFINE id == FleetUserID(t, chan, table)
           s == IF t = "shadow" THEN "shadowFleet" ELSE "mainFleet"
           base == Segment[s][1]
           top == Segment[s][2]
           other == Segment["mainFleet"][2]
           o == chan * Stride + table
<1>1. /\ base \in Nat /\ top \in Nat /\ base + Channels * Stride - 1 <= top /\ Stride \in Nat \ {0}
      /\ Channels * Stride \in Nat \ {0} /\ Channels \in Nat \ {0}
      /\ s = "shadowFleet" => other < base
    BY SegmentParts
<1>2. id = base + chan * Stride + table
    BY SegmentParts DEF FleetUserID, Clamp
<1>3. o \in 0 .. Channels * Stride - 1
  <2>1. PICK j \in Nat : Channels = chan + 1 + j
      BY <1>1, Channels - chan - 1 \in Nat
  <2>2. /\ Channels * Stride = chan * Stride + Stride + j * Stride /\ j * Stride \in Nat
        /\ chan * Stride \in Nat
      BY <1>1, <2>1
  <2> QED
      BY <1>1, <2>2
<1>4. id = base + o
  <2>1. chan * Stride \in Nat /\ table \in Nat
      BY <1>1
  <2> QED
      BY <1>1, <1>2, <2>1
<1>5. o \div Stride = chan /\ o % Stride = table
  <2>1. o = Stride * chan + table /\ chan \in Nat /\ o \in Nat /\ Stride * chan \in Nat
      BY <1>1
  <2>2. (Stride * chan + table) \div Stride = chan
      BY <1>1, <2>1, QuotientIs
  <2> HIDE DEF o
  <2>3. o \div Stride = chan
      BY <2>1, <2>2
  <2>4. o = Stride * (o \div Stride) + (o % Stride) /\ o % Stride \in Nat
    <3>1. o \in Nat /\ Stride \in Nat \ {0}
        BY <1>1, <2>1
    <3> QED
        BY ONLY <3>1, DivideNat
  <2>5. o = Stride * chan + (o % Stride)
      BY ONLY <2>3, <2>4
  <2> QED
      BY <2>1, <2>3, <2>4, <2>5
<1> HIDE DEF o
<1>6. id \in Int /\ id \in base .. top /\ id - base = o
    BY <1>1, <1>3, <1>4
<1>7. IsFleetUserID(id) /\ (IF In("mainFleet", id) THEN "mainFleet" ELSE "shadowFleet") = s
  <2>1. In(s, id)
      BY <1>6 DEF In
  <2>2. s = "shadowFleet" => ~In("mainFleet", id)
      BY <1>1, <1>6, SegmentParts DEF In
  <2> QED
      BY <2>1, <2>2 DEF IsFleetUserID
<1> HIDE DEF id, base, top
<1>8. DecodeFleetUserID(id) = <<o \div Stride, o % Stride>>
    BY <1>6, <1>7 DEF DecodeFleetUserID, base
<1> QED
    BY <1>5, <1>6, <1>8 DEF id

-------------------------------------------------------------------------------
\* What may be in hand, by where it is from.
Nothing(h) == h = Held("nowhere", "user", "main", <<>>, 0)
Encoded(h) ==
    \E k \in Kind, t \in Traffic : \E f \in [DOMAIN Radices(k) -> Nat] :
        InRange(k, f) /\ h = Held("encoded", k, t, f, Encode(k, t, f))
EncodedFleet(h) ==
    \E t \in Traffic, chan \in 0 .. Channels - 1, table \in 0 .. Stride - 1 :
        h = Held("encoded", "fleet", t, <<chan, table>>, FleetUserID(t, chan, table))
FromOutside(h) ==
    \E k \in {"merchant", "entity", "account", "user"}, id \in Int :
        h = Held("outside", k, "main", <<>>, id)
MappedMerchant(h) ==
    \E id \in Int : h = Held("mapped", "merchant", "shadow", <<id>>, ShadowMerchantID(id))
MappedUser(h) ==
    \E id \in Int : h = Held("mapped", "user", "shadow", <<id>>, ShadowUserID(id))
Sanitised(h) ==
    \E hash \in Nat : h = Held("sanitised", "user", "shadow", <<>>, FakeUserID(hash))

IdInv ==
    \/ Nothing(held) \/ Encoded(held) \/ EncodedFleet(held) \/ FromOutside(held)
    \/ MappedMerchant(held) \/ MappedUser(held) \/ Sanitised(held)

LEMMA EncodedMeans == ASSUME Encoded(held) PROVE IdsKeepMeaning
<1>1. PICK k \in Kind, t \in Traffic : \E f \in [DOMAIN Radices(k) -> Nat] :
          InRange(k, f) /\ held = Held("encoded", k, t, f, Encode(k, t, f))
    BY DEF Encoded
<1>2. PICK f \in [DOMAIN Radices(k) -> Nat] :
          InRange(k, f) /\ held = Held("encoded", k, t, f, Encode(k, t, f))
    BY <1>1
<1> DEFINE id == Encode(k, t, f)
<1>3. /\ held.from = "encoded" /\ held.kind = k /\ held.traffic = t /\ held.fields = f
      /\ held.id = id
      /\ held = [from |-> "encoded", kind |-> k, traffic |-> t, fields |-> f, id |-> id]
    BY <1>2 DEF Held
<1>4. /\ id \in 1 .. 4 * ShadowMul - 1
      /\ Decode(k, id) = f /\ TrafficOf(k, id) = t /\ Layout(k, id) = k
      /\ k \in {"account", "accountV2"} => (IsShadowAccountIDLayout(id) <=> t = "shadow")
    BY <1>2, EncodedTells
<1>5. id \in Int
    BY <1>4, RadixNumbers
<1>6. k \notin {"fleet", "user"}
    BY DEF Kind
<1> HIDE DEF id
<1>7. IdTypeOK
  <2>1. f \in Seq(Int)
    <3> DEFINE n == Len(Radices(k))
    <3>1. DOMAIN Radices(k) = 1 .. n /\ n \in 1 .. 5
        BY RadicesAre
    <3> HIDE DEF n
    <3>2. f \in [1 .. n -> Int] /\ n \in Nat
        BY <3>1
    <3> QED
        BY ONLY <3>2
  <2> QED
      BY <1>3, <1>4, <1>5, <1>6, <2>1 DEF IdTypeOK
<1>8. DecodesBack
    BY <1>3, <1>4, <1>6 DEF DecodesBack
<1>9. RoutesHome
  <2> SUFFICES ASSUME k # "merchant", NEW per, per = IF k = "accountV2" THEN Digits2 ELSE TablesPerDB
               PROVE  /\ TableIndex(k, id) = f[Table(k)]
                      /\ DBIndex(k, id) \in 0 .. TablesPerDB - 1
                      /\ f[Table(k)] - DBIndex(k, id) * per \in 0 .. per - 1
      BY <1>3 DEF RoutesHome
  <2> QED
      BY <1>2, EncodedRoutesHome DEF id
<1>10. OnlyOwnTraffic
  <2> SUFFICES ASSUME k # "id", NEW u \in Traffic, Validate(k, u, id)
               PROVE  /\ InRange(Layout(k, id), Decode(k, id))
                      /\ Encode(Layout(k, id), u, Decode(k, id)) = id
                      /\ u = t
      BY <1>3 DEF OnlyOwnTraffic
  <2> QED
      BY <1>4, <1>5, ValidateTells
<1>11. EncodedIsValid
  <2> SUFFICES ASSUME k # "id", ~(k = "accountV2" /\ f[3] >= Digits2)
               PROVE  Validate(k, t, id)
      BY <1>3 DEF EncodedIsValid
  <2>1. k = "accountV2" => f[3] < Digits2
    <3>1. k = "accountV2" => 3 \in DOMAIN Radices(k)
        BY DEF Radices
    <3>2. k = "accountV2" => f[3] \in Nat
        BY <3>1
    <3> QED
        BY <3>2, RadixNumbers
  <2> QED
      BY <1>2, <2>1, ValidateTakes DEF id
<1>12. UsersApart
    BY <1>3, <1>6 DEF UsersApart
<1> QED
    BY <1>7, <1>8, <1>9, <1>10, <1>11, <1>12 DEF IdsKeepMeaning

\* What was not encoded here means what the Validate functions make of it.
LEMMA OthersMean ==
    ASSUME NEW from \in {"nowhere", "outside", "mapped", "sanitised"},
           NEW k \in {"merchant", "entity", "account", "user"}, NEW t \in Traffic,
           NEW f \in Seq(Int), NEW id \in Int, held = Held(from, k, t, f, id),
           from = "mapped" /\ k # "user" =>
               \A u \in Traffic : Validate(k, u, id) => u = t,
           from = "mapped" /\ k = "user" =>
               IF \E u \in Traffic : ValidateUserID(u, f[1])
               THEN ValidateUserID("shadow", id) ELSE id = 0,
           from = "sanitised" =>
               ~ValidateUserID("main", id) /\ (ValidateUserID("shadow", id) \/ In("shadowFleet", id))
    PROVE  IdsKeepMeaning
<1>1. /\ held.from = from /\ held.kind = k /\ held.traffic = t /\ held.fields = f /\ held.id = id
      /\ held = [from |-> from, kind |-> k, traffic |-> t, fields |-> f, id |-> id]
    BY DEF Held
<1>2. from # "encoded" /\ k # "fleet"
    OBVIOUS
<1>3. IdTypeOK
    BY <1>1, <1>2 DEF IdTypeOK, Kind
<1>4. DecodesBack /\ RoutesHome /\ EncodedIsValid
    BY <1>1, <1>2 DEF DecodesBack, RoutesHome, EncodedIsValid
<1>5. OnlyOwnTraffic
  <2> SUFFICES ASSUME k \in Kind \ {"id"}, NEW u \in Traffic, Validate(k, u, id)
               PROVE  /\ InRange(Layout(k, id), Decode(k, id))
                      /\ Encode(Layout(k, id), u, Decode(k, id)) = id
                      /\ from = "mapped" => u = t
      BY <1>1, <1>2 DEF OnlyOwnTraffic
  <2>1. k # "user"
      BY DEF Kind
  <2> QED
      BY <2>1, ValidateTells
<1>6. UsersApart
    BY <1>1, <1>2, UsersOnOneSide DEF UsersApart
<1> QED
    BY <1>3, <1>4, <1>5, <1>6 DEF IdsKeepMeaning

LEMMA FleetMeans == ASSUME EncodedFleet(held) PROVE IdsKeepMeaning
<1>1. PICK t \in Traffic, chan \in 0 .. Channels - 1, table \in 0 .. Stride - 1 :
          held = Held("encoded", "fleet", t, <<chan, table>>, FleetUserID(t, chan, table))
    BY DEF EncodedFleet
<1> DEFINE id == FleetUserID(t, chan, table)
           f == <<chan, table>>
<1>2. id \in Int /\ DecodeFleetUserID(id) = f
    BY FleetDecodes
<1>3. f \in Seq(Int)
  <2>1. chan \in Int /\ table \in Int
      BY SegmentParts
  <2> QED
      BY <2>1
<1>4. "fleet" \notin Kind
    BY DEF Kind
<1>5. /\ held.from = "encoded" /\ held.kind = "fleet" /\ held.traffic = t /\ held.fields = f
      /\ held.id = id
      /\ held = [from |-> "encoded", kind |-> "fleet", traffic |-> t, fields |-> f, id |-> id]
    BY <1>1 DEF Held
<1> HIDE DEF id, f
<1>6. IdTypeOK
    BY <1>2, <1>3, <1>5 DEF IdTypeOK
<1>7. DecodesBack
    BY <1>2, <1>5 DEF DecodesBack
<1>8. RoutesHome /\ OnlyOwnTraffic /\ EncodedIsValid
    BY <1>4, <1>5 DEF RoutesHome, OnlyOwnTraffic, EncodedIsValid
<1>9. UsersApart
    BY <1>2, <1>5, UsersOnOneSide DEF UsersApart
<1> QED
    BY <1>6, <1>7, <1>8, <1>9 DEF IdsKeepMeaning

\* The shadow of a merchant is a shadow merchant, or no merchant.
LEMMA MerchantShadows ==
    ASSUME NEW id \in Int, NEW u \in Traffic, Validate("merchant", u, ShadowMerchantID(id))
    PROVE  u = "shadow"
<1> DEFINE s == ShadowMerchantID(id)
<1>1. ShadowMul \in Nat \ {0}
    BY RadixNumbers
<1>2. Stripped("merchant", s) = s /\ Layout("merchant", s) = "merchant"
    BY DEF Stripped, Layout
<1>3. TrafficOf("merchant", s) = u /\ InRange("merchant", Decode("merchant", s))
    BY DEF Validate
<1>4. CASE id <= 0
  <2>1. s = 0
      BY <1>4 DEF ShadowMerchantID
  <2> HIDE DEF s
  <2>2. Payload("merchant", s) = 0
      BY <1>1, <1>2, <2>1 DEF Payload
  <2>3. Len(Radices("merchant")) = 1
      BY DEF Radices
  <2>4. Decode("merchant", s)[1] = 0 \div Mul("merchant", 1)
      BY <1>2, <2>2, <2>3 DEF Decode
  <2>5. Mul("merchant", 1) = 1
      BY DEF Mul
  <2>6. 0 \div 1 = 0
      OBVIOUS
  <2> QED
      BY <1>3, <2>4, <2>5, <2>6 DEF InRange
<1>5. CASE id > 0
  <2>1. s >= ShadowMul
      BY <1>1, <1>5 DEF ShadowMerchantID
  <2> HIDE DEF s
  <2> QED
      BY <1>2, <1>3, <2>1 DEF TrafficOf
<1> QED
    BY <1>4, <1>5

\* The shadow of a user is a shadow user, of any other number nobody.
LEMMA UserShadows ==
    ASSUME NEW id \in Int
    PROVE  /\ ShadowUserID(id) \in Int
           /\ IF \E u \in Traffic : ValidateUserID(u, id)
              THEN ValidateUserID("shadow", ShadowUserID(id)) ELSE ShadowUserID(id) = 0
<1> DEFINE a == Segment["main"][1]
           b == Segment["main"][2]
           c == Segment["shadow"][1]
           d == Segment["shadow"][2]
           s == ShadowUserID(id)
<1>1. a \in Nat /\ b \in Nat /\ c \in Nat /\ d \in Nat /\ a <= b /\ b - a <= d - c
    BY SegmentParts
<1>2. /\ \A x \in Int : ValidateUserID("main", x) <=> x \in a .. b
      /\ \A x \in Int : ValidateUserID("shadow", x) <=> x \in c .. d
      /\ s = IF id \in c .. d THEN id ELSE IF id \in a .. b THEN c + (id - a) ELSE 0
    BY DEF ValidateUserID, ShadowUserID, In
<1>3. (\E u \in Traffic : ValidateUserID(u, id)) <=> (id \in a .. b \/ id \in c .. d)
    BY <1>2 DEF Traffic
<1> HIDE DEF a, b, c, d, s
<1>4. s \in Int /\ (IF id \in a .. b \/ id \in c .. d THEN s \in c .. d ELSE s = 0)
    BY <1>1, <1>2
<1> QED
    BY <1>2, <1>3, <1>4 DEF s

\* A fake user is no main user, but may be a shadow platform account.
LEMMA FakesApart ==
    ASSUME NEW hash \in Nat
    PROVE  /\ FakeUserID(hash) \in Int /\ ~ValidateUserID("main", FakeUserID(hash))
           /\ ValidateUserID("shadow", FakeUserID(hash)) \/ In("shadowFleet", FakeUserID(hash))
<1> DEFINE b == Segment["main"][2]
           c == Segment["shadowFleet"][1]
           d == Segment["shadowFleet"][2]
           e == Segment["shadow"][1]
           g == Segment["shadow"][2]
           x == hash % FakeUsers
           id == FakeUserID(hash)
<1>1. /\ b \in Nat /\ c \in Nat /\ d \in Nat /\ e \in Nat /\ g \in Nat
      /\ b < c /\ d + 1 = e /\ c + FakeUsers - 1 <= g /\ FakeUsers \in Nat \ {0}
    BY SegmentParts
<1>2. x \in 0 .. FakeUsers - 1
    BY <1>1
<1>3. /\ id = c + x
      /\ ValidateUserID("main", id) => id <= b
      /\ ValidateUserID("shadow", id) <=> id \in e .. g
      /\ In("shadowFleet", id) <=> id \in c .. d
    BY DEF FakeUserID, ValidateUserID, In
<1> HIDE DEF b, c, d, e, g, x, id
<1>4. id \in Int /\ ~(id <= b) /\ (id \in e .. g \/ id \in c .. d)
    BY <1>1, <1>2, <1>3
<1> QED
    BY <1>3, <1>4 DEF id

LEMMA IdInvMeans == ASSUME IdInv PROVE IdsKeepMeaning
<1>e. "main" \in Traffic /\ "shadow" \in Traffic /\ <<>> \in Seq(Int)
    BY DEF Traffic
<1>1. CASE Nothing(held)
  <2>1. PICK id \in Int : held = Held("nowhere", "user", "main", <<>>, id)
      BY <1>1 DEF Nothing
  <2> QED
      BY ONLY <1>e, <2>1, OthersMean
<1>2. CASE FromOutside(held)
  <2>1. PICK k \in {"merchant", "entity", "account", "user"}, id \in Int :
            held = Held("outside", k, "main", <<>>, id)
      BY <1>2 DEF FromOutside
  <2> QED
      BY ONLY <1>e, <2>1, OthersMean
<1>3. CASE MappedMerchant(held)
  <2>1. PICK id \in Int : held = Held("mapped", "merchant", "shadow", <<id>>, ShadowMerchantID(id))
      BY <1>3 DEF MappedMerchant
  <2>2. ShadowMerchantID(id) \in Int
      BY RadixNumbers DEF ShadowMerchantID
  <2>3. \A u \in Traffic : Validate("merchant", u, ShadowMerchantID(id)) => u = "shadow"
      BY MerchantShadows
  <2>4. <<id>> \in Seq(Int)
      OBVIOUS
  <2> QED
      BY ONLY <1>e, <2>1, <2>2, <2>3, <2>4, OthersMean
<1>4. CASE MappedUser(held)
  <2>1. PICK id \in Int : held = Held("mapped", "user", "shadow", <<id>>, ShadowUserID(id))
      BY <1>4 DEF MappedUser
  <2>2. <<id>> \in Seq(Int) /\ <<id>>[1] = id
      OBVIOUS
  <2>3. /\ ShadowUserID(id) \in Int
        /\ IF \E u \in Traffic : ValidateUserID(u, <<id>>[1])
           THEN ValidateUserID("shadow", ShadowUserID(id)) ELSE ShadowUserID(id) = 0
      BY <2>2, UserShadows
  <2>4. <<id>> \in Seq(Int)
      OBVIOUS
  <2> QED
      BY ONLY <1>e, <2>1, <2>3, <2>4, OthersMean
<1>5. CASE Sanitised(held)
  <2>1. PICK hash \in Nat : held = Held("sanitised", "user", "shadow", <<>>, FakeUserID(hash))
      BY <1>5 DEF Sanitised
  <2>2. /\ FakeUserID(hash) \in Int /\ ~ValidateUserID("main", FakeUserID(hash))
        /\ ValidateUserID("shadow", FakeUserID(hash)) \/ In("shadowFleet", FakeUserID(hash))
      BY FakesApart
  <2> QED
      BY ONLY <1>e, <2>1, <2>2, OthersMean
<1> QED
    BY <1>1, <1>2, <1>3, <1>4, <1>5, EncodedMeans, FleetMeans DEF IdInv

LEMMA IdNextInv == ASSUME IdInv, [IdNext]_idVars PROVE IdInv'
<1>1. held.id \in Int
    BY IdInvMeans DEF IdsKeepMeaning, IdTypeOK
<1>2. CASE Issue
  <2>1. PICK k \in Kind, t \in Traffic :
            \E g \in Digit(k, 1) \X Digit(k, 2) \X Digit(k, 3) \X Digit(k, 4) \X Digit(k, 5) :
                LET f == [i \in DOMAIN Radices(k) |-> g[i]]
                IN  InRange(k, f) /\ held' = Held("encoded", k, t, f, Encode(k, t, f))
      BY <1>2 DEF Issue
  <2>2. PICK g \in Digit(k, 1) \X Digit(k, 2) \X Digit(k, 3) \X Digit(k, 4) \X Digit(k, 5) :
            LET f == [i \in DOMAIN Radices(k) |-> g[i]]
            IN  InRange(k, f) /\ held' = Held("encoded", k, t, f, Encode(k, t, f))
      BY <2>1
  <2> DEFINE f == [i \in DOMAIN Radices(k) |-> g[i]]
  <2>3. InRange(k, f) /\ held' = Held("encoded", k, t, f, Encode(k, t, f))
      BY <2>2
  <2>4. f \in [DOMAIN Radices(k) -> Nat]
    <3> SUFFICES ASSUME NEW i \in DOMAIN Radices(k) PROVE g[i] \in Nat
        OBVIOUS
    <3>1. i \in DOMAIN f /\ f[i] = g[i]
        OBVIOUS
    <3>2. f[i] \in 0 .. Radices(k)[i] - 1
        BY <2>3, <3>1 DEF InRange
    <3>3. Radices(k)[i] \in Nat
      <4>1. i \in 1 .. 5 /\ Radix(k, i) = Radices(k)[i]
          BY RadicesAre DEF Radix
      <4> QED
          BY <4>1, RadicesAre
    <3> HIDE DEF f
    <3> QED
        BY <3>1, <3>2, <3>3
  <2> HIDE DEF f
  <2> QED
      BY <2>3, <2>4 DEF IdInv, Encoded
<1>3. CASE IssueFleet
    BY <1>3 DEF IssueFleet, IdInv, EncodedFleet
<1>4. CASE Outside
  <2>1. PICK k \in {"merchant", "entity", "account", "user"}, id \in -1 .. MaxOutside :
            held' = Held("outside", k, "main", <<>>, id)
      BY <1>4 DEF Outside
  <2>2. id \in Int
      BY IdentityAssumption
  <2> QED
      BY <2>1, <2>2 DEF IdInv, FromOutside
<1>5. CASE ToShadow
    BY <1>1, <1>5 DEF ToShadow, IdInv, MappedMerchant, MappedUser
<1>6. CASE Sanitise
  <2>1. PICK hash \in {0, FakeUsers - 1, FakeUsers} :
            held' = Held("sanitised", "user", "shadow", <<>>, FakeUserID(hash))
      BY <1>6 DEF Sanitise
  <2>2. hash \in Nat
      BY SegmentParts
  <2> QED
      BY <2>1, <2>2 DEF IdInv, Sanitised
<1>7. CASE UNCHANGED idVars
    BY <1>7 DEF idVars, IdInv, Nothing, Encoded, EncodedFleet, FromOutside, MappedMerchant,
                MappedUser, Sanitised
<1> QED
    BY <1>2, <1>3, <1>4, <1>5, <1>6, <1>7 DEF IdNext

\* shadow/identity.go, replay/sanitize.go: with any radices and any segments
\* that follow one another, an id of either layout is decoded, routed and
\* validated as what it was encoded as and as nothing else, from wherever it
\* comes, and no user is on two sides.
THEOREM IdentitiesKeepMeaning == IdSpec => []IdsKeepMeaning
<1>1. IdInit => IdInv
    BY DEF IdInit, IdInv, Nothing
<1> QED
    BY <1>1, IdNextInv, IdInvMeans, PTL DEF IdSpec
===============================================================================
