-------------------------- MODULE CoordinationProofs --------------------------
(***************************************************************************)
(* Theorems about what several processes do to one store: the resharding   *)
(* migrator's checkpoints, leader election, the migration runner and the   *)
(* schema registry, each for any number of processes and any data.         *)
(***************************************************************************)
EXTENDS Reshard, Leadership, Migrate, SchemaRegistry, WellFoundedInduction, TLAPS

-------------------------------------------------------------------------------
(* The resharding migrator: checkpoints follow the rows.                   *)

\* The loop over a shard has moved all rows up to where it stands and, inside a
\* batch, the rows of every bucket that is not left; its distance to a checkpoint
\* that loses no commit is the batches since the last one.
LoopSafe(s, l, tg, sk, pk, lost) ==
    /\ l.pc # "none" => {s} \X (1 .. l.tail) \subseteq tg \cup sk
    /\ l.pc = "done" => l.tail = Rows
    /\ l.pc = "write" =>
          /\ l.tail <= l.hi /\ l.hi <= l.tail + BatchSize /\ l.skip \subseteq l.tail + 1 .. l.hi
          /\ \A r \in l.tail + 1 .. l.hi :
                 r \in l.skip \/ Dst[r] \in l.left \/ <<s, r>> \in tg
    /\ l.pc \in {"scan", "write"} /\ lost = 0 => l.tail <= pk + l.batches * BatchSize
LoopsSafe ==
    \A p \in Migrator, s \in Shard :
        LoopSafe(s, shardRun[p][s], target, skipped, lastPK[s], lostCommits)
StoredSafe == \A s \in Shard : Moved(s, lastPK[s])
RsInv == RsTypeOK /\ LoopsSafe /\ StoredSafe /\ ReplayBounded

\* What no step takes back.
Grows ==
    /\ target \subseteq target' /\ skipped \subseteq skipped'
    /\ lostCommits <= lostCommits' /\ \A s \in Shard : lastPK[s] <= lastPK'[s]

-----------------------------------------------------------------------------
\* Counting batches modulo CommitEvery.
LEMMA CountBatch ==
    ASSUME NEW n \in 0 .. CommitEvery - 1
    PROVE  (n + 1) % CommitEvery = IF n + 1 = CommitEvery THEN 0 ELSE n + 1
BY ReshardAssumption DEF ReshardConfig

\* One more batch, and no more batches than a commit allows.
LEMMA BatchProduct ==
    ASSUME NEW n \in 0 .. CommitEvery - 1
    PROVE  /\ n * BatchSize \in Nat /\ CommitEvery * BatchSize \in Nat
           /\ (n + 1) * BatchSize = n * BatchSize + BatchSize
           /\ n * BatchSize + BatchSize <= CommitEvery * BatchSize
<1>1. n \in Nat /\ CommitEvery \in Nat /\ BatchSize \in Nat /\ n + 1 <= CommitEvery
    BY ReshardAssumption DEF ReshardConfig
<1>2. (n + 1) * BatchSize = n * BatchSize + BatchSize
    BY <1>1
<1>3. (n + 1) * BatchSize <= CommitEvery * BatchSize
    BY <1>1
<1> QED
    BY <1>1, <1>2, <1>3

\* A loop that stands still stays safe while data and checkpoint grow.
LEMMA LoopKept ==
    ASSUME NEW s, NEW l, NEW tg, NEW sk, NEW pk \in Nat, NEW lost \in Nat,
           NEW tg2, NEW sk2, NEW pk2 \in Nat, NEW lost2 \in Nat, l \in Loop,
           LoopSafe(s, l, tg, sk, pk, lost),
           tg \subseteq tg2, sk \subseteq sk2, pk <= pk2, lost <= lost2
    PROVE  LoopSafe(s, l, tg2, sk2, pk2, lost2)
<1>1. l.tail \in Nat /\ l.batches \in 0 .. CommitEvery - 1
    BY ReshardAssumption DEF Loop, ReshardConfig
<1>2. l.batches * BatchSize \in Nat
    BY <1>1, BatchProduct
<1> QED
    BY <1>1, <1>2 DEF LoopSafe

\* The batch that a scan takes ends within the shard.
LEMMA BatchEnd ==
    ASSUME NEW tail \in 0 .. Rows
    PROVE  LET hi == IF tail + BatchSize < Rows THEN tail + BatchSize ELSE Rows
           IN  hi \in 0 .. Rows /\ tail <= hi /\ hi <= tail + BatchSize
BY ReshardAssumption DEF ReshardConfig

LEMMA RsInitInv == RsInit => RsInv
<1> SUFFICES ASSUME RsInit PROVE RsInv
    OBVIOUS
<1> USE ReshardAssumption DEF ReshardConfig
<1>1. NoLoop \in Loop
    BY DEF NoLoop, Loop
<1>2. RsTypeOK
    BY <1>1 DEF RsInit, RsTypeOK
<1>3. LoopsSafe
    BY DEF RsInit, LoopsSafe, LoopSafe, NoLoop
<1>4. StoredSafe /\ ReplayBounded
    BY DEF RsInit, StoredSafe, ReplayBounded, Moved
<1> QED
    BY <1>2, <1>3, <1>4 DEF RsInv

-----------------------------------------------------------------------------
\* Every step keeps the types.
LEMMA RsTypeNext == RsTypeOK /\ [RsNext]_rsVars => RsTypeOK'
<1> SUFFICES ASSUME RsTypeOK, [RsNext]_rsVars PROVE RsTypeOK'
    OBVIOUS
<1> USE ReshardAssumption DEF ReshardConfig
<1>0. NoLoop \in Loop
    BY DEF NoLoop, Loop
<1>1. ASSUME NEW p \in Migrator, StartMigrator(p) PROVE RsTypeOK'
    BY <1>0, <1>1 DEF StartMigrator, RsTypeOK
<1>2. ASSUME NEW p \in Migrator, PauseMigrator(p) PROVE RsTypeOK'
    BY <1>2 DEF PauseMigrator, Interrupt, RsTypeOK
<1>3. ASSUME NEW p \in Migrator, StopMigrator(p) PROVE RsTypeOK'
    BY <1>3 DEF StopMigrator, Interrupt, RsTypeOK
<1>4. ASSUME NEW p \in Migrator, KillMigrator(p) PROVE RsTypeOK'
    BY <1>0, <1>4 DEF KillMigrator, Interrupt, RsTypeOK
<1>5. ASSUME NEW p \in Migrator, ResumeMigrator(p) PROVE RsTypeOK'
    BY <1>5 DEF ResumeMigrator, RsTypeOK
<1>6. ASSUME NEW p \in Migrator, NEW s \in Shard, ShardStep(p, s) PROVE RsTypeOK'
    <2> DEFINE l == shardRun[p][s]
    <2>0. l \in Loop
        BY DEF RsTypeOK
    <2>1. ASSUME NEW k \in Loop, SetLoop(p, s, k)
          PROVE  shardRun' \in [Migrator -> [Shard -> Loop]]
        BY <2>1 DEF SetLoop, RsTypeOK
    <2>2. CASE TakeShard(p, s)
        <3>a. lastPK[s] \in 0 .. Rows
            BY DEF RsTypeOK
        <3>1. [NoLoop EXCEPT !.pc = "scan"] \in Loop
              /\ [NoLoop EXCEPT !.pc = "scan", !.tail = lastPK[s]] \in Loop
            BY <1>0, <3>a DEF Loop
        <3>2. shardRun' \in [Migrator -> [Shard -> Loop]]
            BY <2>1, <2>2, <3>1 DEF TakeShard
        <3>3. rsFaults' \in 0 .. MaxFaults
            BY <2>2 DEF TakeShard, Fault, RsTypeOK
        <3> QED
            BY <2>2, <3>2, <3>3 DEF TakeShard, RsTypeOK
    <2>3. CASE QuitShard(p, s)
        BY <1>0, <2>1, <2>3 DEF QuitShard, RsTypeOK
    <2>4. CASE ScanShard(p, s)
        <3> DEFINE hi == IF l.tail + BatchSize < Rows THEN l.tail + BatchSize ELSE Rows
        <3>1. PICK bad \in SUBSET (l.tail + 1 .. hi) :
                 /\ rsFaults' = rsFaults \/ Fault
                 /\ SetLoop(p, s, [l EXCEPT !.pc = "write", !.hi = hi, !.skip = bad,
                                     !.left = {Dst[r] : r \in (l.tail + 1 .. hi) \ bad}])
            BY <2>4 DEF ScanShard
        <3>2. l.tail \in 0 .. Rows /\ hi \in 0 .. Rows
            BY <2>0, BatchEnd DEF Loop
        <3> HIDE DEF hi
        <3>3. bad \subseteq Row /\ l.tail + 1 .. hi \subseteq Row
            <4>1. ASSUME NEW r \in l.tail + 1 .. hi PROVE r \in Row
                BY <3>2, <4>1 DEF Row
            <4> QED
                BY <4>1
        <3>4. {Dst[r] : r \in (l.tail + 1 .. hi) \ bad} \subseteq Bucket
            BY <3>3 DEF Row
        <3>5. [l EXCEPT !.pc = "write", !.hi = hi, !.skip = bad,
                 !.left = {Dst[r] : r \in (l.tail + 1 .. hi) \ bad}] \in Loop
            BY <2>0, <3>2, <3>3, <3>4 DEF Loop
        <3>6. shardRun' \in [Migrator -> [Shard -> Loop]]
            BY <2>1, <3>1, <3>5
        <3>7. rsFaults' \in 0 .. MaxFaults
            BY <3>1 DEF Fault, RsTypeOK
        <3> QED
            BY <2>4, <3>6, <3>7 DEF ScanShard, RsTypeOK
    <2>5. CASE EndBatch(p, s)
        <3> DEFINE k == [pc |-> IF l.hi = Rows THEN "done" ELSE "scan", tail |-> l.hi,
                         hi |-> l.hi, skip |-> {}, left |-> {},
                         batches |-> (l.batches + 1) % CommitEvery]
        <3>a. l.batches \in 0 .. CommitEvery - 1 /\ l.hi \in 0 .. Rows
            BY <2>0 DEF Loop
        <3>1. (l.batches + 1) % CommitEvery \in 0 .. CommitEvery - 1
            BY <3>a, CountBatch
        <3>2. k \in Loop
            BY <3>a, <3>1 DEF Loop
        <3>3. shardRun' \in [Migrator -> [Shard -> Loop]]
            BY <2>1, <2>5, <3>2 DEF EndBatch
        <3>4. lastPK' \in [Shard -> 0 .. Rows] /\ lostCommits' \in 0 .. MaxLostCommits
            <4>1. UNCHANGED <<lastPK, lostCommits>> \/ Commit(s, l.hi)
                BY <2>5 DEF EndBatch
            <4> QED
                BY <3>a, <4>1 DEF Commit, RsTypeOK
        <3>5. skipped' \subseteq Shard \X Row
            BY <2>0, <2>5 DEF EndBatch, RsTypeOK, Loop
        <3> QED
            BY <2>5, <3>3, <3>4, <3>5 DEF EndBatch, RsTypeOK
    <2>6. ASSUME NEW b \in Bucket, WriteBucket(p, s, b) \/ WriteFails(p, s, b)
          PROVE  RsTypeOK'
        <3>1. InBucket(l, b) \subseteq Row
            <4>1. l.tail \in 0 .. Rows /\ l.hi \in 0 .. Rows
                BY <2>0 DEF Loop
            <4> QED
                BY <4>1 DEF InBucket, Row
        <3>2. target' \subseteq Shard \X Row
            BY <2>6, <3>1 DEF WriteBucket, WriteFails, RsTypeOK
        <3>3. [l EXCEPT !.left = @ \ {b}] \in Loop /\ [l EXCEPT !.pc = "scan"] \in Loop
            BY <2>0 DEF Loop
        <3>4. shardRun' \in [Migrator -> [Shard -> Loop]]
            BY <2>1, <2>6, <3>3 DEF WriteBucket, WriteFails
        <3>5. rsFaults' \in 0 .. MaxFaults
            BY <2>6 DEF WriteBucket, WriteFails, Fault, RsTypeOK
        <3>6. UNCHANGED <<ctl, lastPK, skipped, lostCommits, interrupts>>
            BY <2>6 DEF WriteBucket, WriteFails
        <3> QED
            BY <3>2, <3>4, <3>5, <3>6 DEF RsTypeOK
    <2> QED
        BY <1>6, <2>2, <2>3, <2>4, <2>5, <2>6 DEF ShardStep
<1>7. CASE UNCHANGED rsVars
    BY <1>7 DEF rsVars, RsTypeOK
<1> QED
    BY <1>1, <1>2, <1>3, <1>4, <1>5, <1>6, <1>7 DEF RsNext

\* No step unwrites a row or sets a checkpoint back.
LEMMA RsGrows == RsTypeOK /\ [RsNext]_rsVars => Grows
<1> SUFFICES ASSUME RsTypeOK, [RsNext]_rsVars PROVE Grows
    OBVIOUS
<1> USE ReshardAssumption DEF ReshardConfig, Grows, RsTypeOK
<1>1. ASSUME NEW p \in Migrator, NEW s \in Shard, EndBatch(p, s) PROVE Grows
    <2>1. target' = target /\ skipped \subseteq skipped'
        BY <1>1 DEF EndBatch
    <2>2. UNCHANGED <<lastPK, lostCommits>> \/ Commit(s, shardRun[p][s].hi)
        BY <1>1 DEF EndBatch
    <2>3. shardRun[p][s].hi \in Nat
        BY DEF Loop
    <2> QED
        BY <2>1, <2>2, <2>3 DEF Commit
<1>2. ASSUME NEW p \in Migrator, NEW s \in Shard, NEW b \in Bucket,
             WriteBucket(p, s, b) \/ WriteFails(p, s, b)
      PROVE  Grows
    BY <1>2 DEF WriteBucket, WriteFails
<1>3. ASSUME UNCHANGED <<lastPK, target, skipped, lostCommits>> PROVE Grows
    BY <1>3
<1>4. ASSUME NEW p \in Migrator, NEW s \in Shard,
             TakeShard(p, s) \/ QuitShard(p, s) \/ ScanShard(p, s)
      PROVE  Grows
    BY ONLY <1>3, <1>4 DEF TakeShard, QuitShard, ScanShard
<1>5. ASSUME NEW p \in Migrator,
             \/ StartMigrator(p) \/ PauseMigrator(p) \/ ResumeMigrator(p)
             \/ StopMigrator(p) \/ KillMigrator(p)
      PROVE  Grows
    BY ONLY <1>3, <1>5 DEF StartMigrator, PauseMigrator, ResumeMigrator, StopMigrator,
                           KillMigrator, Interrupt
<1>6. CASE UNCHANGED rsVars
    BY ONLY <1>3, <1>6 DEF rsVars
<1> QED
    BY ONLY [RsNext]_rsVars, <1>1, <1>2, <1>4, <1>5, <1>6 DEF RsNext, ShardStep

-----------------------------------------------------------------------------
\* One loop moves, and safely: then all loops are safe.
LEMMA OneLoopMoves ==
    ASSUME RsTypeOK, RsTypeOK', Grows, LoopsSafe, NEW p \in Migrator, NEW s \in Shard,
           NEW k, SetLoop(p, s, k), LoopSafe(s, k, target', skipped', lastPK'[s], lostCommits')
    PROVE  LoopsSafe'
<1> SUFFICES ASSUME NEW q \in Migrator, NEW t \in Shard
             PROVE  LoopSafe(t, shardRun'[q][t], target', skipped', lastPK'[t], lostCommits')
    BY DEF LoopsSafe, LoopSafe
<1>1. CASE q = p /\ t = s
    <2>1. shardRun'[p][s] = k
        BY DEF SetLoop, RsTypeOK
    <2> QED
        BY <1>1, <2>1
<1>2. CASE ~(q = p /\ t = s)
    <2>1. shardRun'[q][t] = shardRun[q][t]
        BY <1>2 DEF SetLoop, RsTypeOK
    <2>2. /\ lastPK[t] \in Nat /\ lastPK'[t] \in Nat /\ lostCommits \in Nat /\ lostCommits' \in Nat
          /\ shardRun[q][t] \in Loop
        BY ReshardAssumption DEF RsTypeOK, ReshardConfig
    <2>3. /\ target \subseteq target' /\ skipped \subseteq skipped'
          /\ lostCommits <= lostCommits' /\ lastPK[t] <= lastPK'[t]
        BY DEF Grows
    <2>4. LoopSafe(t, shardRun[q][t], target, skipped, lastPK[t], lostCommits)
        BY DEF LoopsSafe
    <2>5. LoopSafe(t, shardRun[q][t], target', skipped', lastPK'[t], lostCommits')
        BY <2>2, <2>3, <2>4, LoopKept
    <2> QED
        BY <2>1, <2>5
<1> QED
    BY <1>1, <1>2

\* What is moved stays moved, and what was near the checkpoint stays near.
LEMMA MovedKept ==
    ASSUME Grows, NEW s, NEW n, Moved(s, n)
    PROVE  {s} \X (1 .. n) \subseteq target' \cup skipped'
BY DEF Grows, Moved

LEMMA BoundKept ==
    ASSUME RsTypeOK, RsTypeOK', Grows, ReplayBounded, target' = target
    PROVE  ReplayBounded'
<1> SUFFICES ASSUME lostCommits' = 0, NEW x \in target
             PROVE  x[2] <= lastPK'[x[1]] + CommitEvery * BatchSize
    BY DEF ReplayBounded
<1>1. lostCommits = 0
    BY DEF Grows, RsTypeOK
<1>2. x[1] \in Shard /\ x[2] \in Nat
    BY ReshardAssumption DEF RsTypeOK, Row, ReshardConfig
<1>3. x[2] <= lastPK[x[1]] + CommitEvery * BatchSize
    BY <1>1 DEF ReplayBounded
<1>4. lastPK[x[1]] <= lastPK'[x[1]] /\ lastPK[x[1]] \in Nat /\ lastPK'[x[1]] \in Nat
    BY <1>2, ReshardAssumption DEF Grows, RsTypeOK, ReshardConfig
<1>5. CommitEvery * BatchSize \in Nat
    BY ReshardAssumption DEF ReshardConfig
<1> QED
    BY <1>2, <1>3, <1>4, <1>5

\* A write goes no further than the batch.
LEMMA BoundWrite ==
    ASSUME RsInv, RsTypeOK', Grows, NEW p \in Migrator, NEW s \in Shard, NEW b \in Bucket,
           shardRun[p][s].pc = "write", UNCHANGED <<lastPK, lostCommits>>,
           target' \subseteq target \cup {s} \X InBucket(shardRun[p][s], b)
    PROVE  ReplayBounded'
<1> DEFINE l == shardRun[p][s]
<1> SUFFICES ASSUME lostCommits = 0, NEW x \in target'
             PROVE  x[2] <= lastPK[x[1]] + CommitEvery * BatchSize
    BY DEF ReplayBounded
<1>1. CASE x \in target
    BY <1>1 DEF RsInv, ReplayBounded
<1>2. CASE x \in {s} \X InBucket(l, b)
    <2>1. l \in Loop /\ lastPK[s] \in 0 .. Rows
        BY DEF RsInv, RsTypeOK
    <2>2. l.tail \in Nat /\ l.hi \in Nat /\ l.batches \in 0 .. CommitEvery - 1 /\ lastPK[s] \in Nat
        BY <2>1, ReshardAssumption DEF Loop, ReshardConfig
    <2>3. l.hi <= l.tail + BatchSize /\ l.tail <= lastPK[s] + l.batches * BatchSize
        <3>1. LoopSafe(s, l, target, skipped, lastPK[s], lostCommits)
            BY DEF RsInv, LoopsSafe
        <3> QED
            BY <3>1 DEF LoopSafe
    <2>4. x[1] = s /\ x[2] \in Nat /\ x[2] <= l.hi
        BY <1>2, <2>2 DEF InBucket
    <2>5. /\ l.batches * BatchSize \in Nat /\ CommitEvery * BatchSize \in Nat
          /\ l.batches * BatchSize + BatchSize <= CommitEvery * BatchSize
        BY <2>2, BatchProduct
    <2>6. BatchSize \in Nat
        BY ReshardAssumption DEF ReshardConfig
    <2> QED
        BY <2>2, <2>3, <2>4, <2>5, <2>6
<1> QED
    BY <1>1, <1>2

LEMMA NoLoopSafe ==
    ASSUME NEW s, NEW tg, NEW sk, NEW pk, NEW lost
    PROVE  LoopSafe(s, NoLoop, tg, sk, pk, lost)
BY DEF LoopSafe, NoLoop

\* Taking a shard up at its checkpoint, or at 0.
LEMMA TakeSafe ==
    ASSUME RsInv, RsTypeOK', Grows, NEW p \in Migrator, NEW s \in Shard, TakeShard(p, s)
    PROVE  LoopsSafe'
<1>1. lastPK[s] \in Nat /\ UNCHANGED <<lastPK, target, skipped, lostCommits>>
    BY ReshardAssumption DEF RsInv, RsTypeOK, TakeShard, ReshardConfig
<1>2. Moved(s, lastPK[s]) /\ BatchSize \in Nat
    BY ReshardAssumption DEF RsInv, StoredSafe, ReshardConfig
<1>3. ASSUME NEW k, k.pc = "scan", k.batches = 0, k.tail \in Nat, k.tail <= lastPK[s],
             Moved(s, k.tail), SetLoop(p, s, k)
      PROVE  LoopsSafe'
    <2>1. LoopSafe(s, k, target', skipped', lastPK'[s], lostCommits')
        BY <1>1, <1>2, <1>3 DEF LoopSafe, Moved
    <2> QED
        BY <1>3, <2>1, OneLoopMoves DEF RsInv
<1>4. CASE SetLoop(p, s, [NoLoop EXCEPT !.pc = "scan", !.tail = lastPK[s]])
    <2> DEFINE k == [NoLoop EXCEPT !.pc = "scan", !.tail = lastPK[s]]
    <2>1. k.pc = "scan" /\ k.batches = 0 /\ k.tail = lastPK[s]
        BY DEF NoLoop
    <2>2. SetLoop(p, s, k)
        BY <1>4
    <2> HIDE DEF k
    <2> QED
        BY <1>1, <1>2, <1>3, <2>1, <2>2
<1>5. CASE SetLoop(p, s, [NoLoop EXCEPT !.pc = "scan"])
    <2> DEFINE k == [NoLoop EXCEPT !.pc = "scan"]
    <2>1. k.pc = "scan" /\ k.batches = 0 /\ k.tail = 0
        BY DEF NoLoop
    <2>2. SetLoop(p, s, k)
        BY <1>5
    <2>3. Moved(s, 0)
        BY DEF Moved
    <2> HIDE DEF k
    <2> QED
        BY <1>1, <1>3, <2>1, <2>2, <2>3
<1> QED
    BY <1>4, <1>5 DEF TakeShard

\* A scan leaves every row of its batch to be written, or skips it.
LEMMA ScanSafe ==
    ASSUME RsInv, RsTypeOK', Grows, NEW p \in Migrator, NEW s \in Shard, ScanShard(p, s)
    PROVE  LoopsSafe'
<1> DEFINE l == shardRun[p][s]
           hi == IF l.tail + BatchSize < Rows THEN l.tail + BatchSize ELSE Rows
<1>1. PICK bad \in SUBSET (l.tail + 1 .. hi) :
         SetLoop(p, s, [l EXCEPT !.pc = "write", !.hi = hi, !.skip = bad,
                             !.left = {Dst[r] : r \in (l.tail + 1 .. hi) \ bad}])
    BY DEF ScanShard
<1> DEFINE k == [l EXCEPT !.pc = "write", !.hi = hi, !.skip = bad,
                          !.left = {Dst[r] : r \in (l.tail + 1 .. hi) \ bad}]
<1>2. l \in Loop /\ l.pc = "scan" /\ UNCHANGED <<lastPK, target, skipped, lostCommits>>
    BY DEF RsInv, RsTypeOK, ScanShard
<1>3. LoopSafe(s, l, target, skipped, lastPK[s], lostCommits)
    BY DEF RsInv, LoopsSafe
<1>4. /\ k.pc = "write" /\ k.tail = l.tail /\ k.hi = hi /\ k.skip = bad
      /\ k.left = {Dst[r] : r \in (l.tail + 1 .. hi) \ bad} /\ k.batches = l.batches
    BY <1>2 DEF Loop
<1>5. l.tail \in 0 .. Rows /\ l.tail <= hi /\ hi <= l.tail + BatchSize
    BY <1>2, BatchEnd DEF Loop
<1> HIDE DEF k, hi
<1>6. LoopSafe(s, k, target, skipped, lastPK[s], lostCommits)
    BY <1>2, <1>3, <1>4, <1>5 DEF LoopSafe
<1>7. LoopSafe(s, k, target', skipped', lastPK'[s], lostCommits')
    BY <1>2, <1>6
<1> QED
    BY <1>1, <1>7, OneLoopMoves DEF RsInv, k

\* A bucket that is written is no longer left.
LEMMA WriteSafe ==
    ASSUME RsInv, RsTypeOK', Grows, NEW p \in Migrator, NEW s \in Shard, NEW b \in Bucket,
           WriteBucket(p, s, b)
    PROVE  LoopsSafe'
<1> DEFINE l == shardRun[p][s]
           k == [l EXCEPT !.left = @ \ {b}]
<1>1. /\ l \in Loop /\ l.pc = "write" /\ SetLoop(p, s, k)
      /\ UNCHANGED <<lastPK, skipped, lostCommits>>
      /\ target' = target \cup {s} \X InBucket(l, b)
    BY DEF RsInv, RsTypeOK, WriteBucket
<1>2. LoopSafe(s, l, target, skipped, lastPK[s], lostCommits)
    BY DEF RsInv, LoopsSafe
<1>3. /\ k.pc = "write" /\ k.tail = l.tail /\ k.hi = l.hi /\ k.skip = l.skip
      /\ k.left = l.left \ {b} /\ k.batches = l.batches
    BY <1>1 DEF Loop
<1> HIDE DEF k
<1>4. \A r \in k.tail + 1 .. k.hi :
          r \in k.skip \/ Dst[r] \in k.left \/ <<s, r>> \in target'
    BY <1>1, <1>2, <1>3 DEF LoopSafe, InBucket
<1>5. LoopSafe(s, k, target', skipped', lastPK'[s], lostCommits')
    BY <1>1, <1>2, <1>3, <1>4 DEF LoopSafe
<1> QED
    BY <1>1, <1>5, OneLoopMoves DEF RsInv

\* A batch that fails is scanned again from where it began.
LEMMA FailSafe ==
    ASSUME RsInv, RsTypeOK', Grows, NEW p \in Migrator, NEW s \in Shard, NEW b \in Bucket,
           WriteFails(p, s, b)
    PROVE  LoopsSafe'
<1> DEFINE l == shardRun[p][s]
           k == [l EXCEPT !.pc = "scan"]
<1>1. /\ l \in Loop /\ l.pc = "write" /\ SetLoop(p, s, k)
      /\ UNCHANGED <<lastPK, skipped, lostCommits>> /\ target \subseteq target'
    BY DEF RsInv, RsTypeOK, WriteFails, Grows
<1>2. LoopSafe(s, l, target, skipped, lastPK[s], lostCommits)
    BY DEF RsInv, LoopsSafe
<1>3. k.pc = "scan" /\ k.tail = l.tail /\ k.batches = l.batches
    BY <1>1 DEF Loop
<1> HIDE DEF k
<1>4. LoopSafe(s, k, target', skipped', lastPK'[s], lostCommits')
    BY <1>1, <1>2, <1>3 DEF LoopSafe
<1> QED
    BY <1>1, <1>4, OneLoopMoves DEF RsInv

\* A batch whose buckets are all written moves the loop to its end, and the
\* checkpoint with it when it is due.
LEMMA EndMoves ==
    ASSUME RsInv, NEW p \in Migrator, NEW s \in Shard, EndBatch(p, s)
    PROVE  {s} \X (1 .. shardRun[p][s].hi) \subseteq target' \cup skipped'
<1> DEFINE l == shardRun[p][s]
<1>1. /\ l \in Loop /\ l.pc = "write" /\ l.left = {} /\ target' = target
      /\ skipped' = skipped \cup {s} \X l.skip
    BY DEF RsInv, RsTypeOK, EndBatch
<1>2. LoopSafe(s, l, target, skipped, lastPK[s], lostCommits)
    BY DEF RsInv, LoopsSafe
<1>3. l.tail \in Nat /\ l.hi \in Nat
    BY <1>1, ReshardAssumption DEF Loop, ReshardConfig
<1> SUFFICES ASSUME NEW r \in 1 .. l.hi PROVE <<s, r>> \in target' \cup skipped'
    OBVIOUS
<1>4. CASE r <= l.tail
    <2>1. r \in 1 .. l.tail
        BY <1>3, <1>4
    <2>2. {s} \X (1 .. l.tail) \subseteq target \cup skipped
        BY <1>1, <1>2 DEF LoopSafe
    <2> QED
        BY <1>1, <2>1, <2>2
<1>5. CASE r > l.tail
    <2>1. r \in l.tail + 1 .. l.hi
        BY <1>3, <1>5
    <2>2. r \in l.skip \/ <<s, r>> \in target
        BY <1>1, <1>2, <2>1 DEF LoopSafe
    <2> QED
        BY <1>1, <2>2
<1> QED
    BY <1>3, <1>4, <1>5

LEMMA EndSafe ==
    ASSUME RsInv, RsTypeOK', Grows, NEW p \in Migrator, NEW s \in Shard, EndBatch(p, s)
    PROVE  LoopsSafe'
<1> DEFINE l == shardRun[p][s]
           k == [pc |-> IF l.hi = Rows THEN "done" ELSE "scan", tail |-> l.hi, hi |-> l.hi,
                 skip |-> {}, left |-> {}, batches |-> (l.batches + 1) % CommitEvery]
<1>1. l \in Loop /\ l.pc = "write" /\ SetLoop(p, s, k)
    BY DEF RsInv, RsTypeOK, EndBatch
<1>2. LoopSafe(s, l, target, skipped, lastPK[s], lostCommits)
    BY DEF RsInv, LoopsSafe
<1>3. l.tail \in Nat /\ l.hi \in Nat /\ l.batches \in 0 .. CommitEvery - 1
    BY <1>1, ReshardAssumption DEF Loop, ReshardConfig
<1>4. /\ k.pc = (IF l.hi = Rows THEN "done" ELSE "scan") /\ k.tail = l.hi
      /\ k.batches = IF Commits(l.batches) THEN 0 ELSE l.batches + 1
    BY <1>3, CountBatch DEF Commits
<1>5. lastPK[s] \in Nat /\ lastPK'[s] \in Nat /\ lostCommits \in Nat /\ lostCommits' \in Nat
      /\ lastPK[s] <= lastPK'[s] /\ lostCommits <= lostCommits'
    BY ReshardAssumption DEF RsInv, RsTypeOK, Grows, ReshardConfig
<1>6. lostCommits' = 0 /\ Commits(l.batches) => lastPK'[s] >= l.hi
    <2>1. Commits(l.batches) => Commit(s, l.hi)
        BY DEF EndBatch
    <2>2. lostCommits' = 0 /\ Commit(s, l.hi) => lastPK'[s] >= l.hi
        BY <1>3, <1>5 DEF Commit, RsInv, RsTypeOK
    <2> QED
        BY <2>1, <2>2
<1>7. lostCommits' = 0 => l.hi <= lastPK'[s] + (l.batches * BatchSize + BatchSize)
    <2>1. BatchSize \in Nat /\ l.batches * BatchSize \in Nat
        BY <1>3, BatchProduct, ReshardAssumption DEF ReshardConfig
    <2>2. lostCommits' = 0 => l.tail <= lastPK[s] + l.batches * BatchSize
        BY <1>1, <1>2, <1>5 DEF LoopSafe
    <2>3. l.hi <= l.tail + BatchSize
        BY <1>1, <1>2 DEF LoopSafe
    <2> QED
        BY <1>3, <1>5, <2>1, <2>2, <2>3
<1>8. lostCommits' = 0 => k.tail <= lastPK'[s] + k.batches * BatchSize
    <2>1. CASE Commits(l.batches)
        <3>1. 0 * BatchSize = 0
            BY ReshardAssumption DEF ReshardConfig
        <3> QED
            BY <1>3, <1>4, <1>5, <1>6, <2>1, <3>1
    <2>2. CASE ~Commits(l.batches)
        <3>1. (l.batches + 1) * BatchSize = l.batches * BatchSize + BatchSize
            BY <1>3, BatchProduct
        <3> QED
            BY <1>4, <1>7, <2>2, <3>1
    <2> QED
        BY <2>1, <2>2
<1>9. {s} \X (1 .. k.tail) \subseteq target' \cup skipped'
    BY <1>4, EndMoves
<1> HIDE DEF k
<1>10. LoopSafe(s, k, target', skipped', lastPK'[s], lostCommits')
    BY <1>4, <1>8, <1>9 DEF LoopSafe
<1> QED
    BY <1>1, <1>10, OneLoopMoves DEF RsInv

\* The stored checkpoints.
LEMMA StoredKept == RsInv /\ RsTypeOK' /\ Grows /\ [RsNext]_rsVars => StoredSafe'
<1> SUFFICES ASSUME RsInv, RsTypeOK', Grows, [RsNext]_rsVars, NEW t \in Shard
             PROVE  {t} \X (1 .. lastPK'[t]) \subseteq target' \cup skipped'
    BY DEF StoredSafe, Moved
<1>1. CASE lastPK'[t] = lastPK[t]
    BY <1>1, MovedKept DEF RsInv, StoredSafe
<1>2. ASSUME NEW p \in Migrator, NEW s \in Shard, EndBatch(p, s), lastPK'[t] # lastPK[t]
      PROVE  {t} \X (1 .. lastPK'[t]) \subseteq target' \cup skipped'
    <2>1. Commit(s, shardRun[p][s].hi)
        BY <1>2 DEF EndBatch
    <2>2. t = s /\ lastPK'[t] = shardRun[p][s].hi
        BY <1>2, <2>1 DEF Commit, RsInv, RsTypeOK
    <2> QED
        BY <1>2, <2>2, EndMoves
<1>3. lastPK' = lastPK \/ \E p \in Migrator, s \in Shard : EndBatch(p, s)
    <2>1. ASSUME NEW p \in Migrator, NEW s \in Shard, ShardStep(p, s)
          PROVE  lastPK' = lastPK \/ EndBatch(p, s)
        BY <2>1 DEF ShardStep, TakeShard, QuitShard, ScanShard, WriteBucket, WriteFails
    <2>2. ASSUME NEW p \in Migrator,
                 \/ StartMigrator(p) \/ PauseMigrator(p) \/ ResumeMigrator(p)
                 \/ StopMigrator(p) \/ KillMigrator(p)
          PROVE  lastPK' = lastPK
        BY <2>2 DEF StartMigrator, PauseMigrator, ResumeMigrator, StopMigrator,
                    KillMigrator, Interrupt
    <2> QED
        BY <2>1, <2>2 DEF RsNext, rsVars
<1> QED
    BY <1>1, <1>2, <1>3

\* Every step keeps the loops safe.
LEMMA LoopsKept == RsInv /\ RsTypeOK' /\ Grows /\ [RsNext]_rsVars => LoopsSafe'
<1> SUFFICES ASSUME RsInv, RsTypeOK', Grows, [RsNext]_rsVars PROVE LoopsSafe'
    OBVIOUS
<1>1. ASSUME NEW p \in Migrator, UNCHANGED <<target, skipped, lastPK, lostCommits>>,
             \/ shardRun' = shardRun
             \/ shardRun' = [shardRun EXCEPT ![p] = [s \in Shard |-> NoLoop]]
      PROVE  LoopsSafe'
    <2> SUFFICES ASSUME NEW q \in Migrator, NEW t \in Shard
                 PROVE  LoopSafe(t, shardRun'[q][t], target, skipped, lastPK[t], lostCommits)
        BY <1>1 DEF LoopsSafe, LoopSafe
    <2>1. shardRun'[q][t] = shardRun[q][t] \/ shardRun'[q][t] = NoLoop
        BY <1>1 DEF RsInv, RsTypeOK
    <2>2. LoopSafe(t, shardRun[q][t], target, skipped, lastPK[t], lostCommits)
        BY DEF RsInv, LoopsSafe
    <2> QED
        BY <2>1, <2>2, NoLoopSafe
<1>2. ASSUME NEW p \in Migrator,
             \/ StartMigrator(p) \/ PauseMigrator(p) \/ ResumeMigrator(p)
             \/ StopMigrator(p) \/ KillMigrator(p)
      PROVE  LoopsSafe'
    BY <1>1, <1>2 DEF StartMigrator, PauseMigrator, ResumeMigrator, StopMigrator,
                      KillMigrator, Interrupt
<1>3. ASSUME NEW p \in Migrator, NEW s \in Shard, QuitShard(p, s) PROVE LoopsSafe'
    BY <1>3, NoLoopSafe, OneLoopMoves DEF QuitShard, RsInv
<1>4. ASSUME NEW p \in Migrator, NEW s \in Shard, ShardStep(p, s) PROVE LoopsSafe'
    BY <1>3, <1>4, TakeSafe, ScanSafe, WriteSafe, FailSafe, EndSafe DEF ShardStep
<1>5. CASE UNCHANGED rsVars
    BY <1>5 DEF rsVars, RsInv, LoopsSafe, LoopSafe
<1> QED
    BY <1>2, <1>4, <1>5 DEF RsNext

\* Every step keeps the bound.
LEMMA BoundNext == RsInv /\ RsTypeOK' /\ Grows /\ [RsNext]_rsVars => ReplayBounded'
<1> SUFFICES ASSUME RsInv, RsTypeOK', Grows, [RsNext]_rsVars PROVE ReplayBounded'
    OBVIOUS
<1>1. ASSUME NEW p \in Migrator, NEW s \in Shard, NEW b \in Bucket,
             WriteBucket(p, s, b) \/ WriteFails(p, s, b)
      PROVE  ReplayBounded'
    <2>1. CASE lostCommits' = lostCommits
        BY <1>1, <2>1, BoundWrite DEF WriteBucket, WriteFails
    <2> QED
        BY <1>1, <2>1 DEF WriteBucket, WriteFails
<1>2. CASE target' = target
    BY <1>2, BoundKept DEF RsInv
<1>3. target' = target
      \/ \E p \in Migrator, s \in Shard, b \in Bucket : WriteBucket(p, s, b) \/ WriteFails(p, s, b)
    <2>1. ASSUME NEW p \in Migrator, NEW s \in Shard,
                 TakeShard(p, s) \/ QuitShard(p, s) \/ ScanShard(p, s) \/ EndBatch(p, s)
          PROVE  target' = target
        BY <2>1 DEF TakeShard, QuitShard, ScanShard, EndBatch
    <2>2. ASSUME NEW p \in Migrator,
                 \/ StartMigrator(p) \/ PauseMigrator(p) \/ ResumeMigrator(p)
                 \/ StopMigrator(p) \/ KillMigrator(p)
          PROVE  target' = target
        BY <2>2 DEF StartMigrator, PauseMigrator, ResumeMigrator, StopMigrator,
                    KillMigrator, Interrupt
    <2>3. UNCHANGED rsVars => target' = target
        BY DEF rsVars
    <2> QED
        BY <2>1, <2>2, <2>3 DEF RsNext, ShardStep
<1> QED
    BY <1>1, <1>2, <1>3

LEMMA RsNextInv == RsInv /\ [RsNext]_rsVars => RsInv'
<1> SUFFICES ASSUME RsInv, [RsNext]_rsVars PROVE RsInv'
    OBVIOUS
<1>1. RsTypeOK' /\ Grows
    BY RsTypeNext, RsGrows DEF RsInv
<1> QED
    BY <1>1, LoopsKept, StoredKept, BoundNext DEF RsInv

LEMMA RsAlwaysInv == RsSpec => []RsInv
BY RsInitInv, RsNextInv, PTL DEF RsSpec

-----------------------------------------------------------------------------
\* reshard/migrator.go migrateShard: however many processes work on a shard and
\* whatever fails, a checkpoint never covers a row that was not moved, a shard
\* counts as done only when it is, and without lost commits the rows written
\* past a checkpoint are at most CommitEvery batches.
THEOREM ReshardCheckpointSafe == RsSpec => []CheckpointSafe
<1>1. RsInv => CheckpointSafe
    <2> SUFFICES ASSUME RsInv PROVE CheckpointCovered
        BY DEF RsInv, CheckpointSafe
    <2>1. \A s \in Shard : Moved(s, lastPK[s])
        BY DEF RsInv, StoredSafe
    <2>2. ASSUME NEW p \in Migrator, NEW s \in Shard, shardRun[p][s].pc = "done"
          PROVE  Moved(s, Rows)
        BY <2>2 DEF RsInv, LoopsSafe, LoopSafe, Moved
    <2> QED
        BY <2>1, <2>2 DEF CheckpointCovered
<1> QED
    BY <1>1, RsAlwaysInv, PTL

\* reshard/migrator.go CheckpointStore.Save with GREATEST: no step of any
\* process sets a checkpoint back.
THEOREM ReshardCheckpointKept == RsSpec => CheckpointKept
<1>1. RsInv /\ [RsNext]_rsVars => [\A s \in Shard : lastPK'[s] >= lastPK[s]]_rsVars
    BY RsGrows, ReshardAssumption DEF RsInv, Grows, RsTypeOK, ReshardConfig
<1> QED
    BY <1>1, RsAlwaysInv, PTL DEF RsSpec, CheckpointKept

-------------------------------------------------------------------------------
(* Leader election: one task runs.                                         *)

\* Two nodes never have a session in common, a node that has campaigned has one,
\* and the key of a task that runs is the lowest as long as it lives: keys only
\* join at the top, and only while a node waits.
SessionsDiffer ==
    \A m, n \in Node : session[m] = session[n] /\ session[m] # 0 => m = n

LeadersLowest ==
    \A n \in Node : loop[n] = "leading" /\ Lives(n) => \A k \in keys : session[n] <= k

LeInv == LeTypeOK /\ SessionsDiffer /\ LeadersLowest

\* The inductive invariant implies that live leaders are one.
LEMMA OneFromInv == LeInv => OneLiveLeader
<1> SUFFICES ASSUME LeInv, NEW m \in Node, NEW n \in Node,
                    loop[m] = "leading", loop[n] = "leading", Lives(m), Lives(n)
             PROVE  m = n
    BY DEF OneLiveLeader
<1>1. session[m] <= session[n] /\ session[n] <= session[m]
    BY DEF LeInv, LeadersLowest, Lives
<1>2. session[m] \in Nat /\ session[n] \in Nat /\ session[m] # 0
    BY LeadershipAssumption DEF LeInv, LeTypeOK, Lives
<1>3. session[m] = session[n]
    BY <1>1, <1>2
<1> QED
    BY <1>2, <1>3 DEF LeInv, SessionsDiffer

LEMMA LeInitInv == LeInit => LeInv
BY LeadershipAssumption DEF LeInit, LeInv, LeTypeOK, SessionsDiffer, LeadersLowest, Lives

\* No step of a node or of etcd breaks the invariant.
LEMMA LeNextInv == LeInv /\ [LeNext]_leVars => LeInv'
<1> SUFFICES ASSUME LeInv, [LeNext]_leVars PROVE LeInv'
    OBVIOUS
<1> USE LeadershipAssumption DEF LeInv, GoOn
<1>1. CASE LeaseExpires
    BY <1>1 DEF LeaseExpires, LeTypeOK, SessionsDiffer, LeadersLowest, Lives
<1>2. ASSUME NEW n \in Node, Boot(n) PROVE LeInv'
    BY <1>2 DEF Boot, LeTypeOK, SessionsDiffer, LeadersLowest, Lives
<1>3. ASSUME NEW n \in Node, Campaign(n) PROVE LeInv'
    <2>1. LeTypeOK'
        BY <1>3 DEF Campaign, LeTypeOK
    <2>2. SessionsDiffer'
        BY <1>3 DEF Campaign, LeTypeOK, SessionsDiffer
    <2>3. LeadersLowest'
        BY <1>3 DEF Campaign, LeTypeOK, LeadersLowest, Lives
    <2> QED
        BY <2>1, <2>2, <2>3
<1>4. ASSUME NEW n \in Node, CampaignFails(n) PROVE LeInv'
    BY <1>4 DEF CampaignFails, Mishap, LeTypeOK, SessionsDiffer, LeadersLowest, Lives
<1>5. ASSUME NEW n \in Node, Elected(n) PROVE LeInv'
    <2>1. LeTypeOK' /\ SessionsDiffer'
        BY <1>5 DEF Elected, LeTypeOK, SessionsDiffer
    <2>2. LeadersLowest'
        BY <1>5 DEF Elected, LeTypeOK, LeadersLowest, Lives
    <2> QED
        BY <2>1, <2>2
<1>6. ASSUME NEW n \in Node, Notice(n) PROVE LeInv'
    BY <1>6 DEF Notice, LeTypeOK, SessionsDiffer, LeadersLowest, Lives
<1>7. ASSUME NEW n \in Node, TaskReturns(n) PROVE LeInv'
    <2>1. LeTypeOK'
        <3>1. mishaps' \in 0 .. MaxMishaps
            BY <1>7 DEF TaskReturns, Mishap, LeTypeOK
        <3>2. keys' \subseteq keys /\ UNCHANGED <<revision, session, cancelled>>
            BY <1>7 DEF TaskReturns
        <3>3. loop' = [loop EXCEPT ![n] = "idle"]
            BY <1>7 DEF TaskReturns
        <3> QED
            BY <3>1, <3>2, <3>3 DEF LeTypeOK
    <2>2. SessionsDiffer'
        BY <1>7 DEF TaskReturns, SessionsDiffer
    <2>3. LeadersLowest'
        <3>1. loop' = [loop EXCEPT ![n] = "idle"] /\ keys' \subseteq keys /\ session' = session
            BY <1>7 DEF TaskReturns
        <3> QED
            BY <3>1 DEF LeTypeOK, LeadersLowest, Lives
    <2> QED
        BY <2>1, <2>2, <2>3
<1>8. ASSUME NEW n \in Node, LeaseLost(n) PROVE LeInv'
    <2>1. LeTypeOK'
        <3>1. mishaps' \in 0 .. MaxMishaps
            BY <1>8 DEF LeaseLost, Mishap, LeTypeOK
        <3>2. keys' \subseteq keys /\ UNCHANGED <<revision, loop, session, cancelled>>
            BY <1>8 DEF LeaseLost
        <3> QED
            BY <3>1, <3>2 DEF LeTypeOK
    <2>2. SessionsDiffer'
        BY <1>8 DEF LeaseLost, SessionsDiffer
    <2>3. LeadersLowest'
        <3>1. loop' = loop /\ keys' \subseteq keys /\ session' = session
            BY <1>8 DEF LeaseLost
        <3> QED
            BY <3>1 DEF LeadersLowest, Lives
    <2> QED
        BY <2>1, <2>2, <2>3
<1>9. ASSUME NEW n \in Node, Die(n) PROVE LeInv'
    BY <1>9 DEF Die, Mishap, LeTypeOK, SessionsDiffer, LeadersLowest, Lives
<1>10. CASE UNCHANGED leVars
    BY <1>10 DEF leVars, LeTypeOK, SessionsDiffer, LeadersLowest, Lives
<1> QED
    BY <1>1, <1>2, <1>3, <1>4, <1>5, <1>6, <1>7, <1>8, <1>9, <1>10 DEF LeNext

\* serviceregistry/leaderrun.go: whatever leases are lost, calls fail and
\* processes die, two tasks run at once only when the session of one is gone.
THEOREM LeadershipOneLiveLeader == LeSpec => []OneLiveLeader
<1>1. LeSpec => []LeInv
    BY LeInitInv, LeNextInv, PTL DEF LeSpec
<1> QED
    BY <1>1, OneFromInv, PTL

-------------------------------------------------------------------------------
(* The migration runner: the table tells the schema.                       *)

LEMMA LeastOf ==
    ASSUME NEW T \in SUBSET Nat, T # {}
    PROVE  \E x \in T : \A y \in T : x <= y
<1>1. PICK x \in T : \A y \in T : ~(<<y, x>> \in OpToRel(<, Nat))
    BY NatLessThanWellFounded, WFMin
<1>2. \A y \in T : ~(y < x)
    BY <1>1 DEF OpToRel
<1> QED
    BY <1>2

LEMMA GreatestOf ==
    ASSUME NEW n \in Nat, NEW T \in SUBSET (0 .. n), T # {}
    PROVE  \E x \in T : \A y \in T : y <= x
<1> DEFINE D == {n - y : y \in T}
<1>1. D \in SUBSET Nat /\ D # {}
  <2>1. \A y \in T : n - y \in Nat
      OBVIOUS
  <2> QED
      BY <2>1
<1>2. PICK d \in D : \A e \in D : d <= e
    BY <1>1, LeastOf
<1>3. PICK x \in T : d = n - x
    BY <1>2
<1>4. \A y \in T : n - x <= n - y
    BY <1>2, <1>3
<1>5. \A y \in T : y <= x
    BY <1>4
<1> QED
    BY <1>5

LEMMA NextUpIs ==
    ASSUME NEW c, c.applied \in SUBSET Version, c.v \in Nat
    PROVE  \/ NextUp(c) = 0
           \/ /\ NextUp(c) \in Version \ c.applied /\ NextUp(c) > c.v
              /\ \A u \in Version : u > c.v /\ u < NextUp(c) => u \in c.applied \cup NoUp
<1> DEFINE due == {v \in Version \ (c.applied \cup NoUp) : v > c.v}
<1>1. due \in SUBSET Nat /\ \A v \in due : v \in Version \ c.applied /\ v > c.v
    BY DEF Version
<1>2. CASE c.left = 0 \/ due = {}
    BY <1>2 DEF NextUp
<1>3. CASE ~(c.left = 0 \/ due = {})
  <2> DEFINE n == CHOOSE v \in due : \A u \in due : v <= u
  <2>1. NextUp(c) = n
      BY <1>3 DEF NextUp
  <2>2. n \in due /\ \A u \in due : n <= u
      BY <1>1, <1>3, LeastOf
  <2> HIDE DEF n
  <2>3. \A u \in Version : u > c.v /\ u < n => u \in c.applied \cup NoUp
    <3> SUFFICES ASSUME NEW u \in Version, u > c.v, u < n, u \notin c.applied \cup NoUp
                 PROVE  FALSE
        OBVIOUS
    <3>1. u \in due /\ n <= u /\ n \in Int /\ u \in Int
        BY <1>1, <2>2 DEF Version
    <3> QED
        BY <3>1
  <2> QED
      BY <1>1, <2>1, <2>2, <2>3
<1> QED
    BY <1>2, <1>3

LEMMA NextDownIs ==
    ASSUME NEW c, c.applied \in SUBSET Version, c.v \in Nat
    PROVE  \/ NextDown(c) = 0
           \/ /\ NextDown(c) \in c.applied \ NoDown /\ NextDown(c) < c.v
              /\ \A u \in c.applied \ NoDown : u < c.v => u <= NextDown(c)
<1> DEFINE due == {v \in c.applied \ NoDown : v < c.v}
<1>1. due \in SUBSET (0 .. Versions) /\ Versions \in Nat
    BY MigrateAssumption DEF Version
<1>2. CASE c.left = 0 \/ due = {}
    BY <1>2 DEF NextDown
<1>3. CASE ~(c.left = 0 \/ due = {})
  <2> DEFINE n == CHOOSE v \in due : \A u \in due : u <= v
  <2>1. NextDown(c) = n
      BY <1>3 DEF NextDown
  <2>2. n \in due /\ \A u \in due : u <= n
      BY <1>1, <1>3, GreatestOf
  <2> HIDE DEF n
  <2> QED
      BY <2>1, <2>2
<1> QED
    BY <1>2, <1>3

\* Where GoesOn takes a command: it is over, or at its next version.
Advances(c, d) ==
    \/ d = NoCommand
    \/ /\ d \in Command /\ d.kind = c.kind /\ d.applied = c.applied /\ d.next = 1
       /\ d.v \in Version
       /\ c.kind = "up" => /\ d.v > c.v /\ d.v \notin c.applied
                           /\ \A u \in Version : u > c.v /\ u < d.v => u \in c.applied \cup NoUp
       /\ c.kind = "down" => /\ d.v < c.v /\ d.v \in c.applied \ NoDown
                             /\ \A u \in c.applied \ NoDown : u < c.v => u <= d.v

LEMMA GoesOnAdvances ==
    ASSUME cmd \in [Pod -> Command], NEW p \in Pod,
           NEW c \in [kind : {"up", "down"}, v : 0 .. Versions + 1, next : 1 .. Script + 1,
                      applied : SUBSET Version, left : Int],
           c.left >= -1, c.left <= Versions + 1 \/ Version = {}, GoesOn(p, c)
    PROVE  \E d : cmd' = [cmd EXCEPT ![p] = d] /\ Advances(c, d)
<1> DEFINE v == IF c.kind = "up" THEN NextUp(c) ELSE NextDown(c)
           d == IF v = 0 THEN NoCommand
                ELSE [c EXCEPT !.v = v, !.next = 1, !.left = IF @ > 0 THEN @ - 1 ELSE @]
<1>1. cmd' = [cmd EXCEPT ![p] = d]
    BY DEF GoesOn, Does
<1>2. /\ c.applied \in SUBSET Version /\ c.v \in Nat /\ c.kind \in {"up", "down"}
      /\ Versions \in Nat /\ Script \in Nat \ {0}
    BY MigrateAssumption
<1>3. CASE v = 0
    BY <1>1, <1>3 DEF Advances
<1>4. CASE v # 0
  <2>1. /\ v \in Version
        /\ c.kind = "up" => /\ v > c.v /\ v \notin c.applied
                            /\ \A u \in Version : u > c.v /\ u < v => u \in c.applied \cup NoUp
        /\ c.kind = "down" => /\ v < c.v /\ v \in c.applied \ NoDown
                              /\ \A u \in c.applied \ NoDown : u < c.v => u <= v
    <3>1. CASE c.kind = "up"
        BY <1>2, <1>4, <3>1, NextUpIs
    <3>2. CASE c.kind = "down"
        BY <1>2, <1>4, <3>2, NextDownIs
    <3> QED
        BY <1>2, <3>1, <3>2
  <2> HIDE DEF v
  <2> DEFINE left == IF c.left > 0 THEN c.left - 1 ELSE c.left
  <2>2. left \in -1 .. Versions
      BY <1>2, <2>1
  <2>3. d = [c EXCEPT !.v = v, !.next = 1, !.left = left]
      BY <1>4
  <2> HIDE DEF left, d
  <2>4. /\ d.kind = c.kind /\ d.applied = c.applied /\ d.next = 1 /\ d.v = v
        /\ d = [kind |-> c.kind, v |-> v, next |-> 1, applied |-> c.applied, left |-> left]
      BY <2>3
  <2>5. 1 \in 1 .. Script + 1 /\ v \in 0 .. Versions + 1
      BY <1>2, <2>1 DEF Version
  <2>6. d \in Command
      BY <1>2, <2>2, <2>4, <2>5 DEF Command
  <2>7. Advances(c, d)
      BY <2>1, <2>4, <2>6 DEF Advances
  <2> QED
      BY <1>1, <2>7
<1> QED
    BY <1>3, <1>4

Recorded(v) == rows[v] # "none"
Runs(p) == cmd[p].kind # "none"

\* What an up passes, but for the statements behind a comment, stays in effect,
\* unless a down begins on its version, and nothing else comes into effect; the
\* version a down is at is marked.
Passed(c) == {i \in 1 .. c.next - 1 : <<"up", c.v, i>> \notin Commented}
UpRan ==
    /\ \A v \in Version : inEffect[v] \subseteq RunOf(v)
    /\ \A p \in Pod :
        /\ Runs(p) => cmd[p].v \in Version
        /\ cmd[p].kind = "up" =>
               Passed(cmd[p]) \subseteq inEffect[cmd[p].v] \/ cmd[p].v \in reverted
        /\ cmd[p].kind = "down" => cmd[p].v \in reverted

\* While commands run one at a time, what this one read is what the table says,
\* but for what it has changed itself.
OneAtATime ==
    ~together =>
        /\ \A p, q \in Pod : Runs(p) /\ Runs(q) => p = q
        /\ ~lostRows => \A p \in Pod :
               /\ cmd[p].kind = "up" =>
                      /\ \A u \in cmd[p].applied : Recorded(u)
                      /\ \A u \in Version : u < cmd[p].v => Recorded(u) \/ u \in NoUp
               /\ cmd[p].kind = "down" =>
                      /\ cmd[p].v \notin NoDown
                      /\ \A u \in Version :
                             Recorded(u) <=> /\ u \in cmd[p].applied
                                             /\ u <= cmd[p].v \/ u \in NoDown

MiInv == TableTellsSchema /\ UpRan /\ OneAtATime

LEMMA MiInitInv == MiInit => MiInv
<1> SUFFICES ASSUME MiInit PROVE MiInv
    OBVIOUS
<1>1. MiTypeOK
  <2>1. NoCommand \in Command
      BY MigrateAssumption DEF NoCommand, Command
  <2>2. 0 \in 0 .. MaxCommands /\ 0 \in 0 .. MaxMigrateFaults
      BY MigrateAssumption
  <2> QED
      BY <2>1, <2>2 DEF MiInit, MiTypeOK
<1>2. CleanIsWhole /\ NoGap
    BY DEF MiInit, CleanIsWhole, NoGap
<1>3. \A p \in Pod : cmd[p].kind = "none"
    BY DEF MiInit, NoCommand
<1>4. UpRan /\ OneAtATime
    BY <1>3 DEF MiInit, UpRan, OneAtATime, Runs
<1> QED
    BY <1>1, <1>2, <1>4 DEF MiInv, TableTellsSchema

LEMMA MiTypes ==
    ASSUME MiInv
    PROVE  /\ inEffect \in [Version -> SUBSET Whole]
           /\ rows \in [Version -> {"none", "clean", "dirty"}]
           /\ cmd \in [Pod -> Command] /\ reverted \subseteq Version
           /\ lostRows \in BOOLEAN /\ together \in BOOLEAN
           /\ commands \in 0 .. MaxCommands /\ miFaults \in 0 .. MaxMigrateFaults
           /\ MaxCommands \in Nat /\ MaxMigrateFaults \in Nat
           /\ Versions \in Nat /\ Script \in Nat \ {0}
           /\ \A v \in Version : v \in Int /\ v \in 0 .. Versions + 1
    BY MigrateAssumption DEF MiInv, TableTellsSchema, MiTypeOK, Version

LEMMA CommandFields ==
    ASSUME MiInv, NEW p \in Pod
    PROVE  /\ cmd[p] \in Command /\ cmd[p].kind \in {"none", "up", "down"}
           /\ cmd[p].v \in Nat /\ cmd[p].next \in Nat /\ cmd[p].next <= Script + 1
           /\ cmd[p].next >= 1
           /\ cmd[p].applied \in SUBSET Version /\ cmd[p].left \in -1 .. Versions
           /\ cmd[p].v \in 0 .. Versions + 1
    BY MiTypes DEF Command

\* NoCommand owes nothing.
LEMMA MiNoCommand == NoCommand \in Command /\ NoCommand.kind = "none"
    BY MigrateAssumption DEF NoCommand, Command

LEMMA ForceInv ==
    ASSUME MiInv, NEW v \in 0 .. Versions, ForceVersion(v)
    PROVE  MiInv'
<1>1. /\ commands < MaxCommands /\ commands' = commands + 1
      /\ rows' = [u \in Version |-> IF u > v THEN "none" ELSE rows[u]]
      /\ together' = (together \/ \E q \in Pod : Runs(q))
      /\ UNCHANGED <<inEffect, cmd, reverted, lostRows, miFaults>>
    BY DEF ForceVersion, Runs
<1>2. together' \in BOOLEAN /\ (~together' => ~together /\ \A q \in Pod : ~Runs(q))
    BY <1>1, MiTypes
<1>3. /\ \A u \in Version : u > v => rows'[u] = "none"
      /\ \A u \in Version : ~(u > v) => rows'[u] = rows[u]
    BY <1>1
<1>4. MiTypeOK'
  <2>1. rows' \in [Version -> {"none", "clean", "dirty"}]
      BY <1>1, MiTypes
  <2>2. commands' \in 0 .. MaxCommands
      BY <1>1, MiTypes
  <2> QED
      BY <1>1, <1>2, <2>1, <2>2 DEF MiInv, TableTellsSchema, MiTypeOK
<1>5. CleanIsWhole'
    BY <1>1, <1>3 DEF MiInv, TableTellsSchema, CleanIsWhole
<1>6. NoGap'
  <2> SUFFICES ASSUME ~together', ~lostRows, NEW w \in Version \ NoDown, rows'[w] # "none",
                      NEW u \in 1 .. w, u \notin NoUp
               PROVE  rows'[u] # "none"
      BY <1>1 DEF NoGap
  <2>1. ~(w > v) /\ rows[w] # "none" /\ w \in 1 .. Versions /\ Versions \in Nat
      BY <1>3, MiTypes DEF Version
  <2>2. u \in Version /\ ~(u > v)
      BY <2>1 DEF Version
  <2>3. rows[u] # "none"
      BY <1>2, <2>1 DEF MiInv, TableTellsSchema, NoGap
  <2> QED
      BY <1>3, <2>2, <2>3
<1>7. UpRan'
    BY <1>1 DEF MiInv, UpRan, Runs
<1>8. OneAtATime'
    BY <1>1, <1>2 DEF OneAtATime, Runs
<1> QED
    BY <1>4, <1>5, <1>6, <1>7, <1>8 DEF MiInv, TableTellsSchema

\* A command ends where it is; at most the version of an up gets a dirty row.
LEMMA EndsInv ==
    ASSUME MiInv, NEW p \in Pod, Runs(p), Does(p, NoCommand),
           \/ rows' = rows
           \/ /\ cmd[p].kind = "up" /\ rows[cmd[p].v] = "none"
              /\ rows' = [rows EXCEPT ![cmd[p].v] = "dirty"],
           UNCHANGED <<inEffect, reverted, lostRows, together, commands>>,
           miFaults' \in 0 .. MaxMigrateFaults
    PROVE  MiInv'
<1>1. /\ cmd' \in [Pod -> Command] /\ cmd'[p].kind = "none"
      /\ \A q \in Pod : q # p => cmd'[q] = cmd[q]
    BY MiTypes, MiNoCommand DEF Does
<1>2. cmd[p].v \in Version
    BY DEF MiInv, UpRan
<1>3. /\ \A u \in Version : u # cmd[p].v \/ cmd[p].kind # "up" => rows'[u] = rows[u]
      /\ \A u \in Version : rows'[u] = "clean" => rows[u] = "clean"
      /\ \A u \in Version : Recorded(u) => Recorded(u)'
      /\ rows' \in [Version -> {"none", "clean", "dirty"}]
    BY <1>2, MiTypes DEF Recorded
<1>4. MiTypeOK'
    BY <1>1, <1>3 DEF MiInv, TableTellsSchema, MiTypeOK
<1>5. CleanIsWhole'
    BY <1>3 DEF MiInv, TableTellsSchema, CleanIsWhole
<1>6. UpRan'
    BY <1>1 DEF MiInv, UpRan, Runs
<1>7. OneAtATime'
  <2>1. \A q \in Pod : Runs(q)' => Runs(q) /\ q # p
      BY <1>1 DEF Runs
  <2>2. ~together => \A q \in Pod : ~Runs(q)'
      BY <2>1 DEF MiInv, OneAtATime
  <2> QED
      BY <2>2 DEF OneAtATime, Runs
<1>8. NoGap'
  <2> SUFFICES ASSUME ~together, ~lostRows, NEW w \in Version \ NoDown, rows'[w] # "none",
                      NEW u \in 1 .. w, u \notin NoUp
               PROVE  Recorded(u)'
      BY DEF NoGap, Recorded
  <2>1. u \in Version /\ w \in Int /\ u \in Int
      BY MiTypes DEF Version
  <2>2. CASE rows[w] # "none"
      BY <1>3, <2>1, <2>2 DEF MiInv, TableTellsSchema, NoGap, Recorded
  <2>3. CASE rows[w] = "none"
    <3>1. w = cmd[p].v /\ cmd[p].kind = "up"
        BY <1>3, <2>3
    <3>2. CASE u = w
        BY <3>2 DEF Recorded
    <3>3. CASE u # w
      <4>1. u < cmd[p].v
          BY <2>1, <3>1, <3>3
      <4> QED
          BY <1>3, <2>1, <3>1, <4>1 DEF MiInv, OneAtATime
    <3> QED
        BY <3>2, <3>3
  <2> QED
      BY <2>2, <2>3
<1> QED
    BY <1>4, <1>5, <1>6, <1>7, <1>8 DEF MiInv, TableTellsSchema

\* The statements of up and down, one by one.
LEMMA StatementInv ==
    ASSUME MiInv, NEW p \in Pod, Statement(p)
    PROVE  MiInv'
<1> DEFINE c == cmd[p]
           d == [c EXCEPT !.next = c.next + 1]
<1>1. /\ Runs(p) /\ c.next <= Script /\ cmd' = [cmd EXCEPT ![p] = d]
      /\ \/ Skipped(c) /\ inEffect' = inEffect
         \/ /\ ~Skipped(c) /\ c.kind = "up"
            /\ inEffect' = [inEffect EXCEPT ![c.v] = @ \cup {c.next}]
         \/ /\ c.kind = "down" /\ inEffect' = [inEffect EXCEPT ![c.v] = @ \ {c.next}]
      /\ UNCHANGED <<rows, reverted, lostRows, together, commands, miFaults>>
    BY DEF Statement, Does, Runs
<1>2. /\ c \in Command /\ c.next \in Nat /\ c.next >= 1 /\ c.v \in Version
      /\ (c.kind = "down" => c.v \in reverted)
      /\ (c.kind = "up" => Passed(c) \subseteq inEffect[c.v] \/ c.v \in reverted)
      /\ \A v \in Version : inEffect[v] \subseteq RunOf(v)
    BY <1>1, CommandFields DEF MiInv, UpRan
<1>3. /\ d.kind = c.kind /\ d.v = c.v /\ d.applied = c.applied /\ d.next = c.next + 1
      /\ d \in Command
  <2>1. d = [kind |-> c.kind, v |-> c.v, next |-> c.next + 1, applied |-> c.applied,
             left |-> c.left]
      BY <1>2 DEF Command
  <2>2. c.next + 1 \in 1 .. Script + 1
      BY <1>1, <1>2, MiTypes
  <2> QED
      BY <1>2, <2>1, <2>2 DEF Command
<1>4. /\ cmd' \in [Pod -> Command] /\ cmd'[p] = d /\ \A q \in Pod : q # p => cmd'[q] = cmd[q]
    BY <1>1, <1>3, MiTypes
<1>5. c.next \in Whole
    BY <1>1, <1>2, MiTypes DEF Whole
<1> HIDE DEF c, d
<1>6. /\ inEffect' \in [Version -> SUBSET Whole]
      /\ \A v \in Version : v \in reverted \/ inEffect[v] \subseteq inEffect'[v]
      /\ \A v \in Version : inEffect'[v] \subseteq RunOf(v)
      /\ c.kind = "up" => c.next \in inEffect'[c.v] \/ <<"up", c.v, c.next>> \in Commented
  <2>0. CASE Skipped(c) /\ inEffect' = inEffect
      BY <1>2, <2>0, MiTypes DEF Skipped
  <2>1. CASE /\ ~Skipped(c) /\ c.kind = "up"
             /\ inEffect' = [inEffect EXCEPT ![c.v] = @ \cup {c.next}]
    <3>1. c.next \in RunOf(c.v)
        BY <1>5, <2>1 DEF RunOf, Skipped
    <3> QED
        BY <1>2, <1>5, <2>1, <3>1, MiTypes
  <2>2. CASE c.kind = "down" /\ inEffect' = [inEffect EXCEPT ![c.v] = @ \ {c.next}]
      BY <1>2, <1>5, <2>2, MiTypes
  <2> QED
      BY <1>1, <2>0, <2>1, <2>2
<1>7. MiTypeOK'
    BY <1>1, <1>4, <1>6 DEF MiInv, TableTellsSchema, MiTypeOK
<1>8. CleanIsWhole'
  <2>1. \A u \in Version : rows[u] = "clean" => inEffect[u] = RunOf(u) \/ u \in reverted
      BY DEF MiInv, TableTellsSchema, CleanIsWhole
  <2>2. rows' = rows /\ reverted' = reverted
      BY <1>1
  <2>3. ASSUME NEW u \in Version, inEffect[u] = RunOf(u), u \notin reverted
        PROVE  inEffect'[u] = RunOf(u)
      BY <1>6, <2>3
  <2> QED
      BY <2>1, <2>2, <2>3 DEF CleanIsWhole, RunOf
<1>9. NoGap'
    BY <1>1 DEF MiInv, TableTellsSchema, NoGap
<1>10. UpRan'
  <2>1. ASSUME NEW q \in Pod, q # p
        PROVE  /\ Runs(q)' => cmd'[q].v \in Version
               /\ cmd'[q].kind = "up" =>
                      Passed(cmd'[q]) \subseteq inEffect'[cmd'[q].v] \/ cmd'[q].v \in reverted'
               /\ cmd'[q].kind = "down" => cmd'[q].v \in reverted'
      BY <1>1, <1>4, <1>6, <2>1 DEF MiInv, UpRan, Runs
  <2>2. c.kind = "up" => Passed(d) \subseteq inEffect'[d.v] \/ d.v \in reverted'
    <3>1. 1 .. d.next - 1 = (1 .. c.next - 1) \cup {c.next}
        BY <1>2, <1>3
    <3>2. \A i \in Passed(d) :
              i \in Passed(c) \/ (i = c.next /\ <<"up", c.v, c.next>> \notin Commented)
        BY <1>3, <3>1 DEF Passed
    <3> QED
        BY <1>1, <1>2, <1>3, <1>6, <3>2
  <2> QED
      BY <1>1, <1>2, <1>3, <1>4, <1>6, <2>1, <2>2 DEF UpRan, Runs, RunOf
<1>11. OneAtATime'
  <2>1. \A q \in Pod : /\ cmd'[q].kind = cmd[q].kind /\ cmd'[q].applied = cmd[q].applied
                       /\ cmd'[q].v = cmd[q].v
      BY <1>3, <1>4 DEF c
  <2> QED
      BY <1>1, <2>1 DEF MiInv, OneAtATime, Runs, Recorded
<1> QED
    BY <1>7, <1>8, <1>9, <1>10, <1>11 DEF MiInv, TableTellsSchema

\* A command reads the recorded versions and takes its first.
LEMMA StartInv ==
    ASSUME MiInv, NEW p \in Pod, NEW kind \in {"up", "down"}, NEW n \in {-1, 1, 2},
           StartMigrate(p, kind, n)
    PROVE  MiInv'
<1> DEFINE c == [kind |-> kind, v |-> IF kind = "up" THEN 0 ELSE Versions + 1, next |-> 1,
                 applied |-> Applied, left |-> n]
<1>1. /\ cmd[p].kind = "none" /\ commands < MaxCommands /\ commands' = commands + 1
      /\ GoesOn(p, c)
      /\ reverted' = IF cmd'[p].kind = "down" THEN reverted \cup {cmd'[p].v} ELSE reverted
      /\ together' = (together \/ \E q \in Pod \ {p} : Runs(q))
      /\ UNCHANGED <<inEffect, rows, lostRows, miFaults>>
    BY DEF StartMigrate, Runs
<1>2. /\ c.kind = kind /\ c.applied = Applied /\ c.v = IF kind = "up" THEN 0 ELSE Versions + 1
      /\ c.left = n
      /\ c \in [kind : {"up", "down"}, v : 0 .. Versions + 1, next : 1 .. Script + 1,
                applied : SUBSET Version, left : Int]
    BY MiTypes DEF Applied
<1>3. n <= Versions + 1 \/ Version = {}
    BY MiTypes DEF Version
<1> HIDE DEF c
<1>4. PICK d : cmd' = [cmd EXCEPT ![p] = d] /\ Advances(c, d)
    BY <1>1, <1>2, <1>3, MiTypes, GoesOnAdvances
<1>5. /\ d \in Command /\ (d = NoCommand \/ (d.v \in Version /\ d.kind = kind /\ d.next = 1))
    BY <1>2, <1>4, MiNoCommand DEF Advances
<1>6. /\ cmd' \in [Pod -> Command] /\ cmd'[p] = d /\ \A q \in Pod : q # p => cmd'[q] = cmd[q]
    BY <1>4, <1>5, MiTypes
<1>7. /\ reverted \subseteq reverted' /\ reverted' \subseteq Version
      /\ d.kind = "down" => d.v \in reverted'
    BY <1>1, <1>5, <1>6, MiNoCommand, MiTypes
<1>8. MiTypeOK'
  <2>1. commands' \in 0 .. MaxCommands /\ together' \in BOOLEAN
      BY <1>1, MiTypes
  <2> QED
      BY <1>1, <1>6, <1>7, <2>1 DEF MiInv, TableTellsSchema, MiTypeOK
<1>9. CleanIsWhole'
    BY <1>1, <1>7 DEF MiInv, TableTellsSchema, CleanIsWhole
<1>10. NoGap'
    BY <1>1 DEF MiInv, TableTellsSchema, NoGap
<1>11. UpRan'
  <2>1. ASSUME NEW q \in Pod, q # p
        PROVE  /\ Runs(q)' => cmd'[q].v \in Version
               /\ cmd'[q].kind = "up" =>
                      Passed(cmd'[q]) \subseteq inEffect'[cmd'[q].v] \/ cmd'[q].v \in reverted'
               /\ cmd'[q].kind = "down" => cmd'[q].v \in reverted'
      BY <1>1, <1>6, <1>7, <2>1 DEF MiInv, UpRan, Runs
  <2>2. d.kind # "none" => d.v \in Version /\ Passed(d) = {}
      BY <1>5, MiNoCommand DEF Passed
  <2> QED
      BY <1>1, <1>6, <1>7, <2>1, <2>2 DEF MiInv, UpRan, Runs, RunOf
<1>12. OneAtATime'
  <2> SUFFICES ASSUME ~together'
               PROVE  /\ \A q, r \in Pod : Runs(q)' /\ Runs(r)' => q = r
                      /\ d.kind = "up" => /\ \A u \in d.applied : Recorded(u)
                                          /\ \A u \in Version :
                                                 u < d.v => Recorded(u) \/ u \in NoUp
                      /\ d.kind = "down" =>
                             /\ d.v \notin NoDown
                             /\ \A u \in Version :
                                    Recorded(u) <=> u \in d.applied /\ (u <= d.v \/ u \in NoDown)
    <3>1. \A u : Recorded(u)' <=> Recorded(u)
        BY <1>1 DEF Recorded
    <3>2. ~together' => \A q \in Pod : q # p => cmd'[q].kind = "none"
      <4>1. ~together' => \A q \in Pod : q # p => cmd[q].kind = "none"
          BY <1>1 DEF Runs
      <4> QED
          BY <1>6, <4>1
    <3> QED
        BY <1>6, <3>1, <3>2 DEF OneAtATime
  <2>1. ~together /\ \A q \in Pod : q # p => cmd'[q].kind = "none"
      BY <1>1, <1>6 DEF Runs
  <2>2. \A q, r \in Pod : Runs(q)' /\ Runs(r)' => q = r
      BY <2>1 DEF Runs
  <2>3. \A u \in Version : Recorded(u) <=> u \in Applied
      BY DEF Recorded, Applied
  <2>4. CASE d.kind = "up"
    <3>1. /\ d.applied = Applied
          /\ \A u \in Version : u > 0 /\ u < d.v => u \in Applied \cup NoUp
        BY <1>2, <1>4, <2>4, MiNoCommand DEF Advances
    <3>2. \A u \in Version : u > 0
        BY MiTypes DEF Version
    <3> QED
        BY <2>2, <2>3, <2>4, <3>1, <3>2 DEF Applied
  <2>5. CASE d.kind = "down"
    <3>1. /\ d.applied = Applied /\ d.v \notin NoDown
          /\ \A u \in Applied \ NoDown : u < Versions + 1 => u <= d.v
        BY <1>2, <1>4, <2>5, MiNoCommand DEF Advances
    <3>2. \A u \in Version : u < Versions + 1
        BY MiTypes DEF Version
    <3> QED
        BY <2>2, <2>3, <2>5, <3>1, <3>2
  <2> QED
      BY <2>2, <2>4, <2>5
<1> QED
    BY <1>8, <1>9, <1>10, <1>11, <1>12 DEF MiInv, TableTellsSchema

\* A script is through: its row, and the next version.
LEMMA RecordInv ==
    ASSUME MiInv, NEW p \in Pod, Record(p)
    PROVE  MiInv'
<1>0. PICK c : c = cmd[p]
    OBVIOUS
<1>1. /\ Runs(p) /\ c.next > Script /\ GoesOn(p, c)
      /\ \/ /\ rows' = [rows EXCEPT ![c.v] = IF c.kind = "down" THEN "none"
                                             ELSE IF @ = "none" THEN "clean" ELSE @]
            /\ UNCHANGED <<lostRows, miFaults>>
         \/ UNCHANGED rows /\ lostRows' = TRUE /\ miFaults' \in 0 .. MaxMigrateFaults
      /\ reverted' = reverted \cup (IF cmd'[p].kind = "down" THEN {cmd'[p].v} ELSE {})
      /\ UNCHANGED <<inEffect, together, commands>>
    BY <1>0, MiTypes DEF Record, Runs, MiFault
<1>2. /\ c.kind \in {"up", "down"} /\ c.v \in Version /\ c.next = Script + 1
      /\ c.applied \in SUBSET Version
      /\ (c.kind = "down" => c.v \in reverted)
      /\ (c.kind = "up" => inEffect[c.v] = RunOf(c.v) \/ c.v \in reverted)
      /\ c \in [kind : {"up", "down"}, v : 0 .. Versions + 1, next : 1 .. Script + 1,
                applied : SUBSET Version, left : Int]
      /\ c.left >= -1 /\ c.left <= Versions + 1
  <2>1. /\ c \in Command /\ c.kind \in {"up", "down"} /\ c.v \in Version /\ c.next = Script + 1
        /\ c.applied \in SUBSET Version /\ c.left \in -1 .. Versions
      BY <1>0, <1>1, MiTypes, CommandFields DEF MiInv, UpRan, Runs
  <2>2. /\ c.kind = "down" => c.v \in reverted
        /\ c.kind = "up" => Passed(c) \subseteq inEffect[c.v] \/ c.v \in reverted
      BY <1>0 DEF MiInv, UpRan
  <2>3. Passed(c) = RunOf(c.v) /\ inEffect[c.v] \subseteq RunOf(c.v)
    <3>1. inEffect[c.v] \subseteq RunOf(c.v)
        BY <2>1 DEF MiInv, UpRan
    <3>2. c.next - 1 = Script
        BY <2>1, MiTypes
    <3> QED
        BY <3>1, <3>2 DEF Whole, Passed, RunOf
  <2>4. c \in [kind : {"up", "down"}, v : 0 .. Versions + 1, next : 1 .. Script + 1,
               applied : SUBSET Version, left : Int]
      BY <2>1 DEF Command
  <2>5. c.kind = "up" => inEffect[c.v] = RunOf(c.v) \/ c.v \in reverted
      BY <2>2, <2>3
  <2>6. c.left >= -1 /\ c.left <= Versions + 1
      BY <2>1, MiTypes
  <2> QED
      BY <2>1, <2>2, <2>4, <2>5, <2>6
<1>3. PICK d : cmd' = [cmd EXCEPT ![p] = d] /\ Advances(c, d)
    BY <1>1, <1>2, MiTypes, GoesOnAdvances
<1>4. /\ d \in Command /\ (d = NoCommand \/ (d.v \in Version /\ d.kind = c.kind /\ d.next = 1))
    BY <1>2, <1>3, MiNoCommand DEF Advances
<1>5. /\ cmd' \in [Pod -> Command] /\ cmd'[p] = d /\ \A q \in Pod : q # p => cmd'[q] = cmd[q]
    BY <1>3, <1>4, MiTypes
<1>6. /\ reverted \subseteq reverted' /\ reverted' \subseteq Version
      /\ d.kind = "down" => d.v \in reverted'
    BY <1>1, <1>4, <1>5, MiNoCommand, MiTypes
<1>7. /\ rows' \in [Version -> {"none", "clean", "dirty"}]
      /\ \A u \in Version : u # c.v => rows'[u] = rows[u]
      /\ rows'[c.v] = "clean" => rows[c.v] = "clean" \/ c.kind = "up"
      /\ ~lostRows' => ~lostRows /\ (Recorded(c.v)' <=> c.kind = "up")
    BY <1>1, <1>2, MiTypes DEF Recorded
<1>8. MiTypeOK'
  <2>1. lostRows' \in BOOLEAN /\ miFaults' \in 0 .. MaxMigrateFaults
      BY <1>1, MiTypes
  <2> QED
      BY <1>1, <1>5, <1>6, <1>7, <2>1 DEF MiInv, TableTellsSchema, MiTypeOK
<1>9. CleanIsWhole'
  <2>1. \A u \in Version : rows[u] = "clean" => inEffect[u] = RunOf(u) \/ u \in reverted
      BY DEF MiInv, TableTellsSchema, CleanIsWhole
  <2>2. inEffect' = inEffect /\ \A u \in Version : u \in reverted => u \in reverted'
      BY <1>1, <1>6
  <2>3. \A u \in Version : u # c.v => (rows'[u] = "clean" => rows[u] = "clean")
      BY <1>7
  <2>4. rows'[c.v] = "clean" => inEffect[c.v] = RunOf(c.v) \/ c.v \in reverted
      BY <1>2, <1>7, <2>1
  <2>5. \A u \in Version : rows'[u] = "clean" => inEffect[u] = RunOf(u) \/ u \in reverted
      BY <2>1, <2>3, <2>4
  <2> QED
      BY <2>2, <2>5 DEF CleanIsWhole, RunOf
<1>10. UpRan'
  <2>1. ASSUME NEW q \in Pod, q # p
        PROVE  /\ Runs(q)' => cmd'[q].v \in Version
               /\ cmd'[q].kind = "up" =>
                      Passed(cmd'[q]) \subseteq inEffect'[cmd'[q].v] \/ cmd'[q].v \in reverted'
               /\ cmd'[q].kind = "down" => cmd'[q].v \in reverted'
      BY <1>1, <1>5, <1>6, <2>1 DEF MiInv, UpRan, Runs
  <2>2. d.kind # "none" => d.v \in Version /\ Passed(d) = {}
      BY <1>4, MiNoCommand DEF Passed
  <2> QED
      BY <1>1, <1>5, <1>6, <2>1, <2>2 DEF MiInv, UpRan, Runs, RunOf
<1>11. \A u \in Version : u # c.v => (Recorded(u)' <=> Recorded(u))
    BY <1>7 DEF Recorded
<1>12. ASSUME ~together, ~lostRows'
       PROVE  /\ ~lostRows
              /\ c.kind = "up" => /\ \A u \in c.applied : Recorded(u)'
                                  /\ \A u \in Version : u <= c.v => Recorded(u)' \/ u \in NoUp
              /\ c.kind = "down" =>
                     /\ c.v \notin NoDown
                     /\ \A u \in Version :
                            Recorded(u)' <=> u \in c.applied /\ (u < c.v \/ u \in NoDown)
  <2>1. /\ c.kind = "up" => /\ \A u \in c.applied : Recorded(u)
                            /\ \A u \in Version : u < c.v => Recorded(u) \/ u \in NoUp
        /\ c.kind = "down" =>
               /\ c.v \notin NoDown
               /\ \A u \in Version :
                      Recorded(u) <=> u \in c.applied /\ (u <= c.v \/ u \in NoDown)
        /\ ~lostRows
      BY <1>0, <1>7, <1>12 DEF MiInv, OneAtATime
  <2>2. \A u \in Version : u \in Int
      BY MiTypes
  <2>5. /\ c.v \in Version /\ c.applied \subseteq Version
        /\ Recorded(c.v)' <=> c.kind = "up"
      BY <1>2, <1>7, <1>12
  <2>3. CASE c.kind = "up"
    <3>1. \A u \in Version : Recorded(u) => Recorded(u)'
        BY <1>11, <2>3, <2>5
    <3>2. \A u \in c.applied : Recorded(u)'
        BY <2>1, <2>3, <2>5, <3>1
    <3>3. \A u \in Version : u <= c.v => u < c.v \/ u = c.v
        BY <2>2, <2>5
    <3>4. \A u \in Version : u <= c.v => Recorded(u)' \/ u \in NoUp
        BY <2>1, <2>3, <2>5, <3>1, <3>3
    <3> QED
        BY <2>1, <2>3, <3>2, <3>4
  <2>4. CASE c.kind = "down"
    <3>1. \A u \in Version : u < c.v <=> u <= c.v /\ u # c.v
        BY <2>2, <2>5
    <3>2. ASSUME NEW u \in Version
          PROVE  Recorded(u)' <=> u \in c.applied /\ (u < c.v \/ u \in NoDown)
      <4>1. CASE u = c.v
          BY <2>1, <2>4, <2>5, <3>1, <4>1
      <4>2. CASE u # c.v
          BY <1>11, <2>1, <2>4, <3>1, <4>2
      <4> QED
          BY <4>1, <4>2
    <3> QED
        BY <2>1, <2>4, <3>2
  <2> QED
      BY <1>2, <2>1, <2>3, <2>4
<1>13. NoGap'
  <2> SUFFICES ASSUME ~together, ~lostRows', NEW w \in Version \ NoDown, rows'[w] # "none",
                      NEW u \in 1 .. w, u \notin NoUp
               PROVE  Recorded(u)'
      BY <1>1 DEF NoGap, Recorded
  <2>1. u \in Version /\ w \in Int /\ u \in Int /\ u <= w /\ c.v \in Int
      BY <1>2, MiTypes DEF Version
  <2>2. \A v \in Version \ NoDown :
            rows[v] # "none" => \A x \in 1 .. v : rows[x] # "none" \/ x \in NoUp
      BY <1>12 DEF MiInv, TableTellsSchema, NoGap
  <2>3. CASE c.kind = "up"
    <3>1. CASE u <= c.v
        BY <1>12, <2>1, <2>3, <3>1
    <3>2. CASE ~(u <= c.v)
      <4>1. w # c.v /\ u # c.v
          BY <2>1, <3>2
      <4> QED
          BY <1>11, <2>1, <2>2, <4>1 DEF Recorded
    <3> QED
        BY <3>1, <3>2
  <2>4. CASE c.kind = "down"
    <3>1. w < c.v
        BY <1>12, <2>4 DEF Recorded
    <3>2. w # c.v /\ u # c.v
        BY <2>1, <3>1
    <3> QED
        BY <1>11, <2>1, <2>2, <3>2 DEF Recorded
  <2> QED
      BY <1>2, <2>3, <2>4
<1>14. OneAtATime'
  <2> SUFFICES ASSUME ~together
               PROVE  /\ \A q, r \in Pod : Runs(q)' /\ Runs(r)' => q = r
                      /\ ~lostRows' =>
                         /\ d.kind = "up" => /\ \A u \in d.applied : Recorded(u)'
                                             /\ \A u \in Version :
                                                    u < d.v => Recorded(u)' \/ u \in NoUp
                         /\ d.kind = "down" =>
                                /\ d.v \notin NoDown
                                /\ \A u \in Version :
                                       Recorded(u)' <=> /\ u \in d.applied
                                                        /\ u <= d.v \/ u \in NoDown
    <3>1. ~together => \A q \in Pod : q # p => cmd'[q].kind = "none"
        BY <1>1, <1>5 DEF MiInv, OneAtATime, Runs
    <3> QED
        BY <1>1, <1>5, <3>1 DEF OneAtATime
  <2>1. \A q, r \in Pod : Runs(q)' /\ Runs(r)' => q = r
      BY <1>1, <1>5 DEF MiInv, OneAtATime, Runs
  <2>2. ASSUME d.kind = "up", ~lostRows'
        PROVE  /\ \A u \in d.applied : Recorded(u)'
               /\ \A u \in Version : u < d.v => Recorded(u)' \/ u \in NoUp
    <3>1. c.kind = "up" /\ d.applied = c.applied
          /\ \A u \in Version : u > c.v /\ u < d.v => u \in c.applied \cup NoUp
        BY <1>3, <1>4, <2>2, MiNoCommand DEF Advances
    <3>2. \A u \in Version : u \in Int /\ c.v \in Int /\ (u > c.v \/ u <= c.v)
        BY <1>2, MiTypes
    <3> QED
        BY <1>12, <2>2, <3>1, <3>2
  <2>3. ASSUME d.kind = "down", ~lostRows'
        PROVE  /\ d.v \notin NoDown
               /\ \A u \in Version :
                      Recorded(u)' <=> u \in d.applied /\ (u <= d.v \/ u \in NoDown)
    <3>1. /\ c.kind = "down" /\ d.applied = c.applied /\ d.v < c.v /\ d.v \in Version
          /\ d.v \notin NoDown /\ \A u \in c.applied \ NoDown : u < c.v => u <= d.v
        BY <1>3, <1>4, <2>3, MiNoCommand DEF Advances
    <3>2. \A u \in Version : u \in Int /\ c.v \in Int /\ d.v \in Int
        BY <1>2, <3>1, MiTypes
    <3> QED
        BY <1>12, <2>3, <3>1, <3>2
  <2> QED
      BY <2>1, <2>2, <2>3
<1> QED
    BY <1>8, <1>9, <1>10, <1>13, <1>14 DEF MiInv, TableTellsSchema

LEMMA MiNextInv == MiInv /\ [MiNext]_miVars => MiInv'
<1> SUFFICES ASSUME MiInv, [MiNext]_miVars PROVE MiInv'
    OBVIOUS
<1>1. ASSUME NEW p \in Pod, StatementFails(p) \/ KillPod(p) PROVE MiInv'
    BY <1>1, MiTypes, EndsInv DEF StatementFails, KillPod, MiFault, Runs
<1>2. CASE UNCHANGED miVars
    BY <1>2 DEF miVars, MiInv, TableTellsSchema, MiTypeOK, CleanIsWhole, NoGap, UpRan, OneAtATime,
                Runs, Recorded, RunOf, Passed
<1> QED
    BY <1>1, <1>2, ForceInv, StartInv, StatementInv, RecordInv DEF MiNext

\* scaffold/migrate.go: a version recorded clean has in effect all of its script
\* but the statements behind a comment, unless a down began on it, whatever pods
\* do at once, whatever fails or is lost; and without two commands at once or a
\* lost row the table has no gap but those of missing up and down files.
THEOREM MigrationsTellSchema == MiSpec => []TableTellsSchema
<1>1. MiInv => TableTellsSchema
    BY DEF MiInv
<1> QED
    BY <1>1, MiInitInv, MiNextInv, PTL DEF MiSpec

-------------------------------------------------------------------------------
(* What a schema check promises about messages.                            *)

LEMMA BodyParts ==
    ASSUME NEW body \in Body
    PROVE  body.required \subseteq Field /\ body.type \in [Field -> Declared]
<1>1. CASE body \in [object : {TRUE}, type : [Field -> Declared], required : SUBSET Field]
    BY <1>1
<1>2. CASE body = [object |-> FALSE, type |-> [f \in Field |-> "absent"], required |-> {}]
    BY <1>2 DEF Declared
<1> QED
    BY <1>1, <1>2 DEF Body

\* What passes checkBackward is read, up to the two cases it overlooks.
LEMMA CheckedIsRead ==
    ASSUME NEW writer \in Body, NEW reader \in Body, reader.object,
           CheckBackward(writer, reader)
    PROVE  ReadsAll(reader, writer)
<1> SUFFICES ASSUME NEW msg \in Message, ValidateMessage(writer, msg),
                    ~Overlooked(writer, reader, msg)
             PROVE  ValidateMessage(reader, msg)
    BY DEF ReadsAll
<1>1. reader.required \subseteq Field
    BY BodyParts
<1>2. ASSUME NEW f \in reader.required PROVE msg[f] # "missing"
    BY <1>1, <1>2 DEF Overlooked, ValidateMessage, CheckBackward, NewlyRequired
<1>3. ASSUME NEW f \in Field, msg[f] # "missing" PROVE TypeMatches(msg[f], reader.type[f])
  <2>1. CASE reader.type[f] \in Untyped
      BY <2>1 DEF TypeMatches
  <2>2. CASE reader.type[f] \notin Untyped
    <3>1. writer.type[f] \notin Untyped
        BY <1>3, <2>2 DEF Overlooked
    <3>2. writer.type[f] = reader.type[f]
        BY <2>2, <3>1 DEF CheckBackward, Retyped
    <3> QED
        BY <1>3, <3>2 DEF ValidateMessage
  <2> QED
      BY <2>1, <2>2
<1> QED
    BY <1>2, <1>3 DEF ValidateMessage

\* A value of a declared type, and a message a schema admits: all its fields,
\* but for one it may leave out.
KindOf(type) == IF type \in {"number", "integer"} THEN "number" ELSE "string"
Sample(body, left) ==
    [f \in Field |-> IF f \in left THEN "missing" ELSE KindOf(body.type[f])]

LEMMA SampleIsValid ==
    ASSUME NEW body \in Body, body.object, NEW left, left \cap body.required = {}
    PROVE  Sample(body, left) \in Message /\ ValidateMessage(body, Sample(body, left))
<1>1. body.required \subseteq Field /\ body.type \in [Field -> Declared]
    BY BodyParts
<1>2. Sample(body, left) \in Message
    BY DEF Sample, KindOf, Message
<1>3. ASSUME NEW f \in body.required PROVE Sample(body, left)[f] # "missing"
    BY <1>1 DEF Sample, KindOf
<1>4. ASSUME NEW f \in Field, Sample(body, left)[f] # "missing"
      PROVE  TypeMatches(Sample(body, left)[f], body.type[f])
  <2>1. Sample(body, left)[f] = KindOf(body.type[f]) /\ body.type[f] \in Declared
      BY <1>1, <1>4 DEF Sample
  <2> QED
      BY <2>1 DEF KindOf, TypeMatches, Untyped, Declared
<1> QED
    BY <1>2, <1>3, <1>4 DEF ValidateMessage

\* What checkBackward refuses would break a message, unless two names of the
\* same number type meet.
LEMMA RefusedBreaks ==
    ASSUME NEW writer \in Body, NEW reader \in Body, writer.object, reader.object,
           ~CheckBackward(writer, reader),
           ~\E f \in Field : {writer.type[f], reader.type[f]} = {"number", "integer"}
    PROVE  Breaks(reader, writer)
<1>1. /\ writer.type \in [Field -> Declared] /\ reader.type \in [Field -> Declared]
      /\ reader.required \subseteq Field
    BY BodyParts
<1>2. CASE NewlyRequired(writer, reader) # {}
  <2>1. PICK f \in reader.required : f \notin writer.required
      BY <1>2 DEF NewlyRequired
  <2>2. /\ Sample(writer, {f}) \in Message /\ ValidateMessage(writer, Sample(writer, {f}))
      BY <2>1, SampleIsValid
  <2>3. Sample(writer, {f})[f] = "missing"
      BY <1>1, <2>1 DEF Sample
  <2> QED
      BY <2>1, <2>2, <2>3 DEF Breaks, ValidateMessage
<1>3. CASE Retyped(writer, reader) # {}
  <2>1. PICK f \in Field : /\ writer.type[f] \notin Untyped /\ reader.type[f] \notin Untyped
                           /\ writer.type[f] # reader.type[f]
      BY <1>3 DEF Retyped
  <2>2. Sample(writer, {}) \in Message /\ ValidateMessage(writer, Sample(writer, {}))
      BY SampleIsValid
  <2>3. Sample(writer, {})[f] = KindOf(writer.type[f])
      BY DEF Sample
  <2>4. {writer.type[f], reader.type[f]} # {"number", "integer"}
      OBVIOUS
  <2>5. /\ writer.type[f] \in {"string", "number", "integer"}
        /\ reader.type[f] \in {"string", "number", "integer"}
      BY <1>1, <2>1 DEF Declared, Untyped
  <2>6. ~TypeMatches(KindOf(writer.type[f]), reader.type[f])
    <3>1. writer.type[f] = "string" \/ reader.type[f] = "string"
        BY <2>1, <2>4, <2>5
    <3> QED
        BY <2>1, <2>5, <3>1 DEF TypeMatches, KindOf, Untyped
  <2>7. KindOf(writer.type[f]) # "missing"
      BY DEF KindOf
  <2> QED
      BY <2>2, <2>3, <2>6, <2>7 DEF Breaks, ValidateMessage
<1> QED
    BY <1>2, <1>3 DEF CheckBackward

-------------------------------------------------------------------------------
(* The registry keeps to it.                                               *)

\* What a registration, accepted or refused, says of it and its predecessor.
AcceptedPair(old, new, compat) ==
    /\ compat \in {"BACKWARD", "FULL"} => ReadsAll(new, old)
    /\ compat \in {"FORWARD", "FULL"} => ReadsAll(old, new)
RefusedPair(old, new, compat) ==
    \/ ~old.object \/ ~new.object
    \/ compat \in {"BACKWARD", "FULL"} /\ Breaks(new, old)
    \/ compat \in {"FORWARD", "FULL"} /\ Breaks(old, new)
    \/ \E f \in Field : {old.type[f], new.type[f]} = {"number", "integer"}

LEMMA CompatDecides ==
    ASSUME NEW old \in Body, NEW new \in Body, NEW compat \in Policy
    PROVE  IF CheckCompat(old, new, compat) THEN AcceptedPair(old, new, compat)
                                            ELSE RefusedPair(old, new, compat)
<1>1. CASE CheckCompat(old, new, compat)
  <2>1. compat \in {"BACKWARD", "FULL"} => ReadsAll(new, old)
      BY <1>1, CheckedIsRead DEF CheckCompat
  <2>2. compat \in {"FORWARD", "FULL"} => ReadsAll(old, new)
      BY <1>1, CheckedIsRead DEF CheckCompat
  <2> QED
      BY <1>1, <2>1, <2>2 DEF AcceptedPair
<1>2. CASE ~CheckCompat(old, new, compat)
  <2>1. SUFFICES ASSUME old.object, new.object,
                        ~\E f \in Field : {old.type[f], new.type[f]} = {"number", "integer"}
                 PROVE  \/ compat \in {"BACKWARD", "FULL"} /\ Breaks(new, old)
                        \/ compat \in {"FORWARD", "FULL"} /\ Breaks(old, new)
      BY <1>2, Zenon DEF RefusedPair
  <2>2. ~\E f \in Field : {new.type[f], old.type[f]} = {"number", "integer"}
    <3>1. \A f \in Field : {new.type[f], old.type[f]} = {old.type[f], new.type[f]}
        OBVIOUS
    <3> QED
        BY <2>1, <3>1
  <2>3. CASE compat \in {"BACKWARD", "FULL"} /\ ~CheckBackward(old, new)
      BY <2>1, <2>3, RefusedBreaks
  <2>4. CASE compat \in {"FORWARD", "FULL"} /\ ~CheckBackward(new, old)
      BY <2>1, <2>2, <2>4, RefusedBreaks
  <2> QED
      BY <1>2, <2>1, <2>3, <2>4 DEF CheckCompat
<1> QED
    BY <1>1, <1>2

LEMMA CompatHoldsIs ==
    CompatHolds <=>
      /\ \A i \in 1 .. Len(versions) - 1 :
           AcceptedPair(versions[i].body, versions[i + 1].body, versions[i + 1].compat)
      /\ \A i \in DOMAIN refused :
           RefusedPair(versions[Len(versions)].body, refused[i].body, refused[i].compat)
    BY Zenon DEF CompatHolds, AcceptedPair, RefusedPair

ScInv == ScTypeOK /\ CompatHolds

LEMMA ScInitInv == ScInit => ScInv
<1> SUFFICES ASSUME ScInit PROVE ScInv
    OBVIOUS
<1>1. versions = <<>> /\ refused = <<>> /\ Len(versions) = 0
    BY DEF ScInit
<1>2. 1 .. Len(versions) - 1 = {} /\ DOMAIN refused = {}
    BY <1>1
<1> QED
    BY <1>1, <1>2, CompatHoldsIs DEF ScInv, ScTypeOK

LEMMA ScNextInv == ScInv /\ [ScNext]_scVars => ScInv'
<1> SUFFICES ASSUME ScInv, [ScNext]_scVars PROVE ScInv'
    OBVIOUS
<1>1. /\ versions \in Seq(Registration) /\ refused \in Seq(Registration)
      /\ \A i \in 1 .. Len(versions) : versions[i].body \in Body /\ versions[i].compat \in Policy
      /\ Len(versions) \in Nat
  <2>1. \A r \in Registration : r.body \in Body /\ r.compat \in Policy
      BY DEF Registration
  <2> QED
      BY <2>1 DEF ScInv, ScTypeOK
<1>2. ASSUME NEW reg \in Registration, RegisterSchema(reg) PROVE ScInv'
  <2>1. /\ versions' = Append(versions, reg) /\ refused' = <<>>
        /\ versions # <<>> =>
             CheckCompat(versions[Len(versions)].body, reg.body, reg.compat)
      BY <1>2 DEF RegisterSchema, Accepts
  <2>2. /\ versions' \in Seq(Registration) /\ Len(versions') = Len(versions) + 1
        /\ \A i \in 1 .. Len(versions) : versions'[i] = versions[i]
        /\ versions'[Len(versions) + 1] = reg
      BY <1>1, <2>1
  <2>3. ASSUME NEW i \in 1 .. Len(versions') - 1
        PROVE  AcceptedPair(versions'[i].body, versions'[i + 1].body, versions'[i + 1].compat)
    <3>1. CASE i < Len(versions)
      <4>1. /\ i \in 1 .. Len(versions) - 1 /\ i \in 1 .. Len(versions)
            /\ i + 1 \in 1 .. Len(versions)
          BY <1>1, <2>2, <2>3, <3>1
      <4>2. versions'[i] = versions[i] /\ versions'[i + 1] = versions[i + 1]
          BY <2>2, <4>1
      <4> QED
          BY <4>1, <4>2, CompatHoldsIs DEF ScInv
    <3>2. CASE i = Len(versions)
      <4>1. /\ i \in 1 .. Len(versions) /\ versions # <<>>
            /\ versions'[i] = versions[i] /\ versions'[i + 1] = reg
          BY <1>1, <2>2, <2>3, <3>2
      <4>2. versions[i].body \in Body /\ reg.body \in Body /\ reg.compat \in Policy
          BY <1>1, <4>1 DEF Registration
      <4>3. CheckCompat(versions[i].body, reg.body, reg.compat)
          BY <2>1, <3>2, <4>1
      <4> QED
          BY <4>1, <4>2, <4>3, CompatDecides
    <3> QED
        BY <1>1, <2>2, <3>1, <3>2
  <2>4. DOMAIN refused' = {} /\ refused' \in Seq(Registration)
      BY <2>1
  <2>5. CompatHolds'
      BY <2>3, <2>4, Zenon DEF CompatHolds, AcceptedPair
  <2> QED
      BY <2>2, <2>4, <2>5 DEF ScInv, ScTypeOK
<1>3. ASSUME NEW reg \in Registration, RegisterRefused(reg) PROVE ScInv'
  <2>1. /\ versions' = versions /\ refused' = <<reg>> /\ versions # <<>>
        /\ ~CheckCompat(versions[Len(versions)].body, reg.body, reg.compat)
      BY <1>3 DEF RegisterRefused, Accepts
  <2>2. /\ Len(versions) \in 1 .. Len(versions) /\ reg.body \in Body /\ reg.compat \in Policy
      BY <1>1, <2>1 DEF Registration
  <2>3. RefusedPair(versions[Len(versions)].body, reg.body, reg.compat)
      BY <1>1, <2>1, <2>2, CompatDecides
  <2>4. refused' \in Seq(Registration) /\ \A i \in DOMAIN refused' : refused'[i] = reg
      BY <2>1
  <2>5. \A i \in DOMAIN refused' :
            RefusedPair(versions'[Len(versions')].body, refused'[i].body, refused'[i].compat)
      BY <2>1, <2>3, <2>4
  <2>6. CompatHolds'
      BY <2>1, <2>5, CompatHoldsIs, Zenon DEF ScInv, CompatHolds, RefusedPair, AcceptedPair
  <2> QED
      BY <1>1, <2>1, <2>4, <2>6 DEF ScInv, ScTypeOK
<1>4. CASE UNCHANGED scVars
    BY <1>4 DEF scVars, ScInv, ScTypeOK, CompatHolds
<1> QED
    BY <1>2, <1>3, <1>4 DEF ScNext

\* schema/registry.go, checkCompat and Validate: of every two neighbours the
\* check let pass, the one reads what the other may write, up to what it
\* overlooks, and what it refused would break some message.
THEOREM SchemaChecksMeanReads == ScSpec => []CompatHolds
<1>1. ScInv => CompatHolds
    BY DEF ScInv
<1> QED
    BY <1>1, ScInitInv, ScNextInv, PTL DEF ScSpec

===============================================================================
