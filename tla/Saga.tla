--------------------------------- MODULE Saga ---------------------------------
(***************************************************************************)
(* outbox/saga.go: one saga instance, the store that persists it and the   *)
(* coordinators that work on it.                                           *)
(*                                                                         *)
(* A synchronous saga is run by Start and, after a crash, picked up by     *)
(* ResumeUnfinished.  An asynchronous one is enrolled by its caller and    *)
(* moved by AdvanceStep, once for every step report a service sends; a     *)
(* report may be delivered again.  Its steps have events instead of an     *)
(* Execute, so ResumeUnfinished, which takes it up as well, finds nothing  *)
(* to run and compensates.  All three compensate in reverse order.         *)
(*                                                                         *)
(* A coordinator works on its own copy of the instance (mem) and saves it. *)
(* Most of its Saves ignore the error.  What the steps did to the services *)
(* is world, which no Save can undo.                                       *)
(***************************************************************************)
EXTENDS Integers

CONSTANTS
    N,              \* len(SagaDef.Steps)
    Compensable,    \* the steps whose Compensate is not nil
    Worker,         \* calls of Start, ResumeUnfinished, AdvanceStep at a time
    NoInst,         \* no instance
    MaxCrashes,     \* bound: processes that die in a call
    MaxFailures,    \* bound: errors of Execute and Compensate
    MaxLostSaves    \* bound: errors of Save

Step == 0 .. N - 1

SagaState  == {"started", "forwarding", "completed", "compensating", "failed"}
StepStatus == {"pending", "running", "completed", "compensated", "failed"}
Instance   == [state   : SagaState,
               current : 0 .. N,
               status  : [Step -> StepStatus]]

ASSUME SagaAssumption ==
    /\ N \in Nat \ {0}
    /\ Compensable \subseteq Step
    /\ NoInst \notin Instance
    /\ MaxCrashes \in Nat
    /\ MaxFailures \in Nat
    /\ MaxLostSaves \in Nat

VARIABLES
    saved,      \* the instance in the SagaStore
    async,      \* the saga is driven by step reports
    reports,    \* the step reports sent so far
    late,       \* history: a success was taken for a saga that had ended in failure
    world,      \* the effect of each step at its service
    pc,         \* where each call is
    mode,       \* which call it is
    mem,        \* its copy of the instance
    idx,        \* its loop variable i
    crashes, failures, lostSaves

callVars == <<pc, mode, mem, idx>>
envVars  == <<async, reports, late>>
vars     == <<saved, world, callVars, envVars, crashes, failures, lostSaves>>

\* doubtful: Execute or Compensate returned an error, the effect may be there.
Effect == {"none", "done", "doubtful", "undone"}

NewInst == [state |-> "started", current |-> 0, status |-> [i \in Step |-> "pending"]]

Init ==
    /\ saved = NoInst
    /\ async = FALSE
    /\ reports = {}
    /\ late = FALSE
    /\ world = [i \in Step |-> "none"]
    /\ pc = [w \in Worker |-> "idle"]
    /\ mode = [w \in Worker |-> "none"]
    /\ mem = [w \in Worker |-> NoInst]
    /\ idx = [w \in Worker |-> 0]
    /\ crashes = 0 /\ failures = 0 /\ lostSaves = 0

Stored(s) == saved # NoInst /\ saved.state = s

\* _ = c.store.Save(ctx, inst): the error is dropped.
TrySave(inst) ==
    \/ saved' = inst /\ UNCHANGED lostSaves
    \/ lostSaves < MaxLostSaves /\ lostSaves' = lostSaves + 1 /\ UNCHANGED saved

Fails == failures < MaxFailures /\ failures' = failures + 1

Goto(w, label, i) == pc' = [pc EXCEPT ![w] = label] /\ idx' = [idx EXCEPT ![w] = i]

Keep(w, inst) == mem' = [mem EXCEPT ![w] = inst]

\* The call returns.
Return(w) ==
    /\ Goto(w, "idle", 0)
    /\ Keep(w, NoInst)
    /\ mode' = [mode EXCEPT ![w] = "none"]

Call(w, m, label, inst, i) ==
    /\ pc[w] = "idle"
    /\ Goto(w, label, i)
    /\ Keep(w, inst)
    /\ mode' = [mode EXCEPT ![w] = m]

-------------------------------------------------------------------------------
(* Start, and the loop it shares with ResumeUnfinished.                    *)

\* Start: the first Save, whose error is returned.
Start(w) ==
    /\ saved = NoInst
    /\ \A v \in Worker : pc[v] = "idle"
    /\ Call(w, "start", "begin", NewInst, 0)
    /\ saved' = NewInst
    /\ UNCHANGED <<world, envVars, crashes, failures, lostSaves>>

Begin(w) ==
    /\ pc[w] = "begin"
    /\ LET inst == [mem[w] EXCEPT !.state = "forwarding"] IN
           TrySave(inst) /\ Keep(w, inst)
    /\ Goto(w, "loop", 0)
    /\ UNCHANGED <<world, mode, envVars, crashes, failures>>

\* The head of the loop.  Start records the step it is about to run.
EnterStep(w) ==
    /\ pc[w] = "loop" /\ idx[w] < N
    /\ Goto(w, "execute", idx[w])
    /\ IF mode[w] = "start"
       THEN LET inst == [mem[w] EXCEPT !.current = idx[w], !.status[idx[w]] = "running"] IN
                TrySave(inst) /\ Keep(w, inst)
       ELSE UNCHANGED <<mem, saved, lostSaves>>
    /\ UNCHANGED <<world, mode, envVars, crashes, failures>>

\* Behind the loop.
Complete(w) ==
    /\ pc[w] = "loop" /\ idx[w] = N
    /\ TrySave([mem[w] EXCEPT !.state = "completed"])
    /\ Return(w)
    /\ UNCHANGED <<world, envVars, crashes, failures>>

\* step.Execute returned nil.  Start saves the result, ResumeUnfinished only
\* moves its own CurrentStep.
ExecuteOk(w) ==
    /\ pc[w] = "execute" /\ ~async
    /\ world' = [world EXCEPT ![idx[w]] = "done"]
    /\ LET inst == [mem[w] EXCEPT !.status[idx[w]] = "completed"] IN
           IF mode[w] = "start"
           THEN TrySave(inst) /\ Keep(w, inst)
           ELSE Keep(w, [inst EXCEPT !.current = idx[w] + 1]) /\ UNCHANGED <<saved, lostSaves>>
    /\ Goto(w, "loop", idx[w] + 1)
    /\ UNCHANGED <<mode, envVars, crashes, failures>>

\* Execute is idempotent (ResumeUnfinished): run again, it does not undo.
AfterError(i) == [world EXCEPT ![i] = IF @ = "done" THEN @ ELSE "doubtful"]

\* step.Execute returned an error, a time-out included.
ExecuteErr(w) ==
    /\ pc[w] = "execute" /\ ~async
    /\ Fails
    /\ world' = AfterError(idx[w])
    /\ IF mode[w] = "start"
       THEN Keep(w, [mem[w] EXCEPT !.status[idx[w]] = "failed"])
       ELSE UNCHANGED mem
    /\ Goto(w, "compensate", idx[w] - 1)
    /\ UNCHANGED <<saved, mode, envVars, crashes, lostSaves>>

\* step.Execute is nil: an error that touches no service.
ExecuteNil(w) ==
    /\ pc[w] = "execute" /\ async
    /\ Goto(w, "compensate", idx[w] - 1)
    /\ UNCHANGED <<saved, world, mode, mem, envVars, crashes, failures, lostSaves>>

-------------------------------------------------------------------------------
(* compensate, and what its callers do after it.                           *)

\* Mutant: i > 0.
UndoneAllButFirst(w) == idx[w] <= 0

\* The condition of its loop, which counts down from the step before the failed
\* one, is over.
UndoneAll(w) == idx[w] < 0

\* step.Compensate is nil.
SkipCompensate(w) ==
    /\ pc[w] = "compensate" /\ ~UndoneAll(w) /\ idx[w] \notin Compensable
    /\ Goto(w, "compensate", idx[w] - 1)
    /\ UNCHANGED <<saved, world, mode, mem, envVars, crashes, failures, lostSaves>>

\* A step that can be compensated is to be.
Undoing(w) == pc[w] = "compensate" /\ ~UndoneAll(w) /\ idx[w] \in Compensable

\* step.Compensate returned nil; the result is saved.
CompensateOk(w) ==
    /\ Undoing(w)
    /\ world' = [world EXCEPT ![idx[w]] = "undone"]
    /\ LET inst == [mem[w] EXCEPT !.status[idx[w]] = "compensated"] IN
           TrySave(inst) /\ Keep(w, inst)
    /\ Goto(w, "compensate", idx[w] - 1)
    /\ UNCHANGED <<mode, envVars, crashes, failures>>

\* step.Compensate returned an error: the saga has failed.  The status was set
\* before the call.
CompensateErr(w) ==
    /\ Undoing(w)
    /\ Fails
    /\ world' = [world EXCEPT ![idx[w]] = IF @ = "undone" THEN @ ELSE "doubtful"]
    /\ TrySave([mem[w] EXCEPT !.status[idx[w]] = "compensated", !.state = "failed"])
    /\ Return(w)
    /\ UNCHANGED <<envVars, crashes>>

\* Everything before the failed step is compensated.
Settle(w) ==
    /\ pc[w] = "compensate" /\ UndoneAll(w)
    /\ TrySave([mem[w] EXCEPT !.state = "compensating"])
    /\ Return(w)
    /\ UNCHANGED <<world, envVars, crashes, failures>>

-------------------------------------------------------------------------------
(* ResumeUnfinished.                                                       *)

\* Mutant: takes up the instances that were never moved.
ResumeStarted(w) ==
    /\ Stored("started")
    /\ Call(w, "resume", "loop", saved, saved.current)
    /\ UNCHANGED <<saved, world, envVars, crashes, failures, lostSaves>>

\* Mutant: takes the current step for done.
ResumeAfter(w) ==
    /\ Stored("forwarding")
    /\ Call(w, "resume", "loop", saved, saved.current + 1)
    /\ UNCHANGED <<saved, world, envVars, crashes, failures, lostSaves>>

\* It lists the instance and goes on with it if it is forwarding, whoever drives
\* it.
Resume(w) ==
    /\ Stored("forwarding")
    /\ Call(w, "resume", "loop", saved, saved.current)
    /\ UNCHANGED <<saved, world, envVars, crashes, failures, lostSaves>>

-------------------------------------------------------------------------------
(* AdvanceStep, and the services that report to it.                        *)

\* The caller saves a forwarding instance and asks the first service.
Enroll ==
    /\ saved = NoInst
    /\ \A v \in Worker : pc[v] = "idle"
    /\ saved' = [NewInst EXCEPT !.state = "forwarding"]
    /\ async' = TRUE
    /\ UNCHANGED <<reports, late, world, callVars, crashes, failures, lostSaves>>

Asked(i) == async /\ saved.current = i /\ world[i] = "none"

\* The service of the current step runs it and reports.
ServeOk(i) ==
    /\ Asked(i)
    /\ world' = [world EXCEPT ![i] = "done"]
    /\ reports' = reports \cup {<<i, "ok">>}
    /\ UNCHANGED <<saved, callVars, async, late, crashes, failures, lostSaves>>

ServeErr(i) ==
    /\ Asked(i)
    /\ Fails
    /\ world' = AfterError(i)
    /\ reports' = reports \cup {<<i, "error">>}
    /\ UNCHANGED <<saved, callVars, async, late, crashes, lostSaves>>

\* AdvanceStep, the part after a successful step.
Advanced(inst, i) ==
    [state   |-> IF inst.current + 1 >= N THEN "completed" ELSE inst.state,
     current |-> inst.current + 1,
     status  |-> [inst.status EXCEPT ![i] = "completed"]]

\* AdvanceStep loads the instance.  A report of another step than the current
\* one is refused; the state of the instance is not looked at.
AdvanceOk(w, i) ==
    /\ <<i, "ok">> \in reports
    /\ i = saved.current
    /\ Call(w, "advance", "report", Advanced(saved, i), i)
    /\ late' = (late \/ saved.state \in {"compensating", "failed"})
    /\ UNCHANGED <<saved, world, async, reports, crashes, failures, lostSaves>>

AdvanceErr(w, i) ==
    /\ <<i, "error">> \in reports
    /\ i = saved.current
    /\ Call(w, "advance", "compensate", [saved EXCEPT !.status[i] = "failed"], i - 1)
    /\ UNCHANGED <<saved, world, envVars, crashes, failures, lostSaves>>

\* return c.store.Save(ctx, inst)
SaveAdvanced(w) ==
    /\ pc[w] = "report"
    /\ TrySave(mem[w])
    /\ Return(w)
    /\ UNCHANGED <<world, envVars, crashes, failures>>

-------------------------------------------------------------------------------
\* The process dies; the Execute or Compensate it was in may have taken effect.
Crash(w) ==
    /\ pc[w] # "idle"
    /\ crashes < MaxCrashes
    /\ crashes' = crashes + 1
    /\ \/ UNCHANGED world
       \/ pc[w] = "execute" /\ ~async /\ world' = [world EXCEPT ![idx[w]] = "done"]
       \/ Undoing(w) /\ world' = [world EXCEPT ![idx[w]] = "undone"]
    /\ Return(w)
    /\ UNCHANGED <<saved, envVars, failures, lostSaves>>

CallStep(w) ==
    \/ Begin(w) \/ EnterStep(w) \/ Complete(w) \/ ExecuteOk(w) \/ ExecuteNil(w)
    \/ SkipCompensate(w) \/ CompensateOk(w) \/ Settle(w) \/ SaveAdvanced(w)

Advance(w) == \E i \in Step : AdvanceOk(w, i) \/ AdvanceErr(w, i)

Next ==
    \/ \E w \in Worker :
           \/ Start(w) \/ Resume(w) \/ Advance(w)
           \/ CallStep(w) \/ ExecuteErr(w) \/ CompensateErr(w) \/ Crash(w)
    \/ Enroll
    \/ \E i \in Step : ServeOk(i) \/ ServeErr(i)

Spec == Init /\ [][Next]_vars

\* A call goes on until it returns or dies.  A service asked for a step runs it
\* and its report is delivered until AdvanceStep has taken it; ResumeUnfinished
\* is called again while a saga is forwarding and nobody works on it.
Fairness ==
    /\ \A w \in Worker : WF_vars(CallStep(w)) /\ WF_vars(Resume(w)) /\ WF_vars(Advance(w))
    /\ \A i \in Step : WF_vars(ServeOk(i))

FairSpec == Spec /\ Fairness

-------------------------------------------------------------------------------
(* Properties.                                                             *)

TypeOK ==
    /\ saved \in Instance \cup {NoInst}
    /\ async \in BOOLEAN
    /\ reports \subseteq Step \X {"ok", "error"}
    /\ late \in BOOLEAN
    /\ world \in [Step -> Effect]
    /\ pc \in [Worker -> {"idle", "begin", "loop", "execute", "compensate", "report"}]
    /\ mode \in [Worker -> {"none", "start", "resume", "advance"}]
    /\ mem \in [Worker -> Instance \cup {NoInst}]
    /\ idx \in [Worker -> -1 .. N]
    /\ crashes \in 0 .. MaxCrashes
    /\ failures \in 0 .. MaxFailures
    /\ lostSaves \in 0 .. MaxLostSaves

\* Recovery starts at the stored CurrentStep: whatever was lost or interrupted,
\* no step before it, and no step of a completed saga, was left out.
NothingSkipped ==
    saved # NoInst =>
        \A i \in Step :
            i < saved.current \/ saved.state = "completed" => world[i] # "none"

\* Start: 'compensating' is the state in which the steps before the failed one
\* have been compensated, whichever call compensated them and however often it
\* was interrupted.
SettledIsUndone ==
    Stored("compensating") =>
        \A i \in Compensable : i < saved.current => world[i] = "undone"

\* Operators look at StepResults to see what is left to undo by hand: a step
\* recorded as compensated is not in place.
CompensatedIsUndone ==
    saved # NoInst =>
        \A i \in Step : saved.status[i] = "compensated" => world[i] \in {"undone", "doubtful"}

\* saga.go header: a failure undoes the steps that succeeded.  The failed step
\* itself may be in place, if it was run again after a crash.
FailureUndoesAll ==
    Stored("compensating") =>
        \A i \in Compensable \ {saved.current} : world[i] # "done"

\* What a failed saga says was undone is undone; and, unless the progress of a
\* recovery was lost in a second crash or with a Save, so is all that succeeded.
\* AdvanceStep takes a step's success for a saga that has ended in failure too,
\* one that ResumeUnfinished compensated while the service was at work: behind
\* that only the step results tell the truth.
UndoneAsTold ==
    /\ CompensatedIsUndone
    /\ ~late => SettledIsUndone
    /\ ~late /\ crashes <= 1 /\ lostSaves = 0 => FailureUndoesAll

\* ResumeUnfinished: a saga found forwarding is brought to an end, though its
\* process may die, a Save be lost, or a report come twice.
ForwardingSettles ==
    Stored("forwarding") ~>
        Stored("completed") \/ Stored("compensating") \/ Stored("failed")

\* Start: "completed" means that all steps succeeded.
CompletedMeansAllDone == Stored("completed") => \A i \in Step : world[i] = "done"

===============================================================================
