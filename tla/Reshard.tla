------------------------------- MODULE Reshard -------------------------------
(* The resharding migrator (reshard/migrator.go) and its checkpoints.        *)
(* Processes copy the rows of V1 shards in batches, bucket by bucket, into   *)
(* V2 and record how far they are; they are paused, stopped, killed and      *)
(* started again, and two may run at once, as the upsert with GREATEST       *)
(* allows.  The rows of a shard are numbered in the order of their keys.     *)
EXTENDS Integers, FiniteSets

CONSTANTS Migrator, Shard, Bucket,
          Rows,           \* rows of a shard
          Dst,            \* [1 .. Rows -> Bucket]: the bucket a row goes to
          BatchSize, CommitEvery, Concurrency,
          MaxFaults,      \* bound: writes, loads and transformations that fail
          MaxLostCommits, \* bound: checkpoint saves that fail
          MaxInterrupts   \* bound: pauses, stops and crashes
ReshardConfig == /\ Rows \in Nat /\ Dst \in [1 .. Rows -> Bucket]
                 /\ BatchSize \in Nat \ {0} /\ CommitEvery \in Nat \ {0}
ASSUME ReshardAssumption ==
    /\ ReshardConfig /\ Concurrency \in Nat
    /\ MaxFaults \in Nat /\ MaxLostCommits \in Nat /\ MaxInterrupts \in Nat

VARIABLES ctl,        \* of a process: running, paused, stopped or down
          shardRun,   \* the loop over a shard, per process
          lastPK,     \* the stored checkpoint per shard
          target,     \* <<shard, row>> in V2
          skipped,    \* rows a completed batch left out, because they failed
          rsFaults, lostCommits, interrupts
rsVars == <<ctl, shardRun, lastPK, target, skipped, rsFaults, lostCommits, interrupts>>

Row == 1 .. Rows
Loop == [pc : {"none", "scan", "write", "done"}, tail : 0 .. Rows, hi : 0 .. Rows,
         skip : SUBSET Row, left : SUBSET Bucket, batches : 0 .. CommitEvery - 1]
NoLoop == [pc |-> "none", tail |-> 0, hi |-> 0, skip |-> {}, left |-> {}, batches |-> 0]
Active(p) == {s \in Shard : shardRun[p][s].pc \in {"scan", "write"}}
SetLoop(p, s, l) == shardRun' = [shardRun EXCEPT ![p] = [@ EXCEPT ![s] = l]]

RsInit ==
    /\ ctl = [p \in Migrator |-> "down"] /\ lastPK = [s \in Shard |-> 0]
    /\ shardRun = [p \in Migrator |-> [s \in Shard |-> NoLoop]]
    /\ target = {} /\ skipped = {} /\ rsFaults = 0 /\ lostCommits = 0 /\ interrupts = 0
Fault == rsFaults < MaxFaults /\ rsFaults' = rsFaults + 1
-----------------------------------------------------------------------------
\* A new process, whose workers share out the shards.
StartMigrator(p) ==
    /\ ctl[p] \in {"down", "stopped"} /\ Active(p) = {}
    /\ ctl' = [ctl EXCEPT ![p] = "running"]
    /\ shardRun' = [shardRun EXCEPT ![p] = [s \in Shard |-> NoLoop]]
    /\ UNCHANGED <<lastPK, target, skipped, rsFaults, lostCommits, interrupts>>
Interrupt(p, from, to) ==
    /\ ctl[p] \in from /\ interrupts < MaxInterrupts /\ interrupts' = interrupts + 1
    /\ ctl' = [ctl EXCEPT ![p] = to]
    /\ UNCHANGED <<lastPK, target, skipped, rsFaults, lostCommits>>
PauseMigrator(p) == Interrupt(p, {"running"}, "paused") /\ UNCHANGED shardRun
StopMigrator(p) == Interrupt(p, {"running", "paused"}, "stopped") /\ UNCHANGED shardRun
KillMigrator(p) ==
    /\ Interrupt(p, {"running", "paused", "stopped"}, "down")
    /\ shardRun' = [shardRun EXCEPT ![p] = [s \in Shard |-> NoLoop]]
ResumeMigrator(p) ==
    /\ ctl[p] = "paused" /\ ctl' = [ctl EXCEPT ![p] = "running"]
    /\ UNCHANGED <<shardRun, lastPK, target, skipped, rsFaults, lostCommits, interrupts>>

\* A free worker takes a shard; a checkpoint that cannot be loaded reads 0.
TakeShard(p, s) ==
    /\ ctl[p] \in {"running", "paused"} /\ shardRun[p][s].pc = "none"
    /\ Cardinality(Active(p)) < Concurrency
    /\ \/ SetLoop(p, s, [NoLoop EXCEPT !.pc = "scan", !.tail = lastPK[s]]) /\ UNCHANGED rsFaults
       \/ SetLoop(p, s, [NoLoop EXCEPT !.pc = "scan"]) /\ Fault
    /\ UNCHANGED <<ctl, lastPK, target, skipped, lostCommits, interrupts>>
QuitShard(p, s) ==
    /\ ctl[p] = "stopped" /\ shardRun[p][s].pc = "scan" /\ SetLoop(p, s, NoLoop)
    /\ UNCHANGED <<ctl, lastPK, target, skipped, rsFaults, lostCommits, interrupts>>

\* ScanV1, and the transformations of the batch.
ScanShard(p, s) ==
    LET l == shardRun[p][s]
        hi == IF l.tail + BatchSize < Rows THEN l.tail + BatchSize ELSE Rows
    IN  /\ ctl[p] = "running" /\ l.pc = "scan"
        /\ \E bad \in SUBSET (l.tail + 1 .. hi) :
              /\ \/ bad = {} /\ UNCHANGED rsFaults
                 \/ Cardinality(bad) = 1 /\ Fault
              /\ SetLoop(p, s, [l EXCEPT !.pc = "write", !.hi = hi, !.skip = bad,
                                  !.left = {Dst[r] : r \in (l.tail + 1 .. hi) \ bad}])
        /\ UNCHANGED <<ctl, lastPK, target, skipped, lostCommits, interrupts>>
InBucket(l, b) == {r \in (l.tail + 1 .. l.hi) \ l.skip : Dst[r] = b}
WriteBucket(p, s, b) ==
    LET l == shardRun[p][s]
    IN  /\ l.pc = "write" /\ b \in l.left
        /\ target' = target \cup {s} \X InBucket(l, b)
        /\ SetLoop(p, s, [l EXCEPT !.left = @ \ {b}])
        /\ UNCHANGED <<ctl, lastPK, skipped, rsFaults, lostCommits, interrupts>>
\* Mutant: gives the shard up.
WriteGivenUp(p, s, b) ==
    LET l == shardRun[p][s]
    IN  /\ l.pc = "write" /\ b \in l.left /\ Fault
        /\ SetLoop(p, s, [l EXCEPT !.pc = "done"])
        /\ UNCHANGED <<ctl, lastPK, target, skipped, lostCommits, interrupts>>
\* A bucket's write fails, done or not: the whole batch is scanned again.
WriteFails(p, s, b) ==
    LET l == shardRun[p][s]
    IN  /\ l.pc = "write" /\ b \in l.left /\ Fault
        /\ target' \in {target, target \cup {s} \X InBucket(l, b)}
        /\ SetLoop(p, s, [l EXCEPT !.pc = "scan"])
        /\ UNCHANGED <<ctl, lastPK, skipped, lostCommits, interrupts>>
\* CheckpointStore.Save; its error is logged.
Commit(s, pk) ==
    \/ lastPK' = [lastPK EXCEPT ![s] = IF pk > @ THEN pk ELSE @] /\ UNCHANGED lostCommits
    \/ /\ lostCommits < MaxLostCommits /\ lostCommits' = lostCommits + 1
       /\ UNCHANGED lastPK
\* The batches since the last commit, this one included, are to be committed.
Commits(n) == n + 1 = CommitEvery
EndBatch(p, s) ==
    LET l == shardRun[p][s]
        done == l.hi = Rows
    IN  /\ l.pc = "write" /\ l.left = {}
        /\ skipped' = skipped \cup {s} \X l.skip
        /\ IF Commits(l.batches) \/ done THEN Commit(s, l.hi)
           ELSE UNCHANGED <<lastPK, lostCommits>>
        /\ SetLoop(p, s, [pc |-> IF done THEN "done" ELSE "scan", tail |-> l.hi,
                            hi |-> l.hi, skip |-> {}, left |-> {},
                            batches |-> (l.batches + 1) % CommitEvery])
        /\ UNCHANGED <<ctl, target, rsFaults, interrupts>>

ShardStep(p, s) ==
    \/ TakeShard(p, s) \/ QuitShard(p, s) \/ ScanShard(p, s) \/ EndBatch(p, s)
    \/ \E b \in Bucket : WriteBucket(p, s, b) \/ WriteFails(p, s, b)
RsNext ==
    \E p \in Migrator :
        \/ StartMigrator(p) \/ PauseMigrator(p) \/ ResumeMigrator(p)
        \/ StopMigrator(p) \/ KillMigrator(p)
        \/ \E s \in Shard : ShardStep(p, s)
RsSpec == RsInit /\ [][RsNext]_rsVars
\* Somebody starts and resumes the processes; their loops run.
RsFair ==
    \A p \in Migrator :
        /\ WF_rsVars(StartMigrator(p)) /\ WF_rsVars(ResumeMigrator(p))
        /\ \A s \in Shard : WF_rsVars(ShardStep(p, s))
-----------------------------------------------------------------------------
RsTypeOK ==
    /\ ctl \in [Migrator -> {"running", "paused", "stopped", "down"}]
    /\ shardRun \in [Migrator -> [Shard -> Loop]]
    /\ lastPK \in [Shard -> 0 .. Rows]
    /\ target \subseteq Shard \X Row /\ skipped \subseteq Shard \X Row
    /\ rsFaults \in 0 .. MaxFaults /\ lostCommits \in 0 .. MaxLostCommits
    /\ interrupts \in 0 .. MaxInterrupts

Moved(s, n) == {s} \X (1 .. n) \subseteq target \cup skipped
\* The checkpoint is never ahead of the data: every row up to it was written,
\* or its own transformation failed in a batch that completed; and a shard that
\* counts as done is done (断点续传: a restart goes on from the last position).
CheckpointCovered ==
    /\ \A s \in Shard : Moved(s, lastPK[s])
    /\ \A p \in Migrator, s \in Shard : shardRun[p][s].pc = "done" => Moved(s, Rows)

\* As long as no commit is lost, what a restart repeats is bounded: nothing is
\* written further than CommitEvery batches past the checkpoint, whoever runs.
ReplayBounded ==
    lostCommits = 0 =>
        \A x \in target : x[2] <= lastPK[x[1]] + CommitEvery * BatchSize

\* A checkpoint is neither ahead of the data nor far behind it.
CheckpointSafe == CheckpointCovered /\ ReplayBounded

\* A slow process does not set back the checkpoint of a faster one.
CheckpointKept == [][\A s \in Shard : lastPK'[s] >= lastPK[s]]_rsVars

\* Failing loads, writes and commits, pauses, stops and crashes do not keep a
\* row from being moved, once they are over.
AllMoved == \A s \in Shard : Moved(s, Rows)
=============================================================================
