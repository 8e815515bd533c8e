------------------------------ MODULE SagaProofs ------------------------------
(***************************************************************************)
(* Theorems about Saga, for any number of steps, of concurrent calls, of   *)
(* crashes and of lost Saves.  The inductive invariant follows CurrentStep *)
(* through every copy of the instance: what a copy says was run, was run,  *)
(* and no call makes a step not have been run.                             *)
(***************************************************************************)
EXTENDS Saga, TLAPS

\* The steps that were run, or may have been.
Ran == {i \in Step : world[i] # "none"}

\* The instances that are right about the steps in R having been run.
SoundIn(R) ==
    {inst \in Instance :
        \A i \in Step : i < inst.current \/ inst.state = "completed" => i \in R}

Label == {"idle", "begin", "loop", "execute", "compensate", "report"}

\* Where a call is in its loop.
Fits(label, i, R) ==
    /\ label = "loop" => i \in 0 .. N /\ \A j \in Step : j < i => j \in R
    /\ label = "execute" => i \in Step /\ \A j \in Step : j < i => j \in R
    /\ label = "compensate" => i \in -1 .. N - 1

Working ==
    \A w \in Worker :
        pc[w] # "idle" => mem[w] \in SoundIn(Ran) /\ Fits(pc[w], idx[w], Ran)

SavedSound == saved # NoInst => saved \in SoundIn(Ran)

ReportsSound ==
    /\ async \/ reports # {} => saved # NoInst
    /\ \A i \in Step : <<i, "ok">> \in reports => i \in Ran

IInv == TypeOK /\ Working /\ SavedSound /\ ReportsSound

\* Nothing is stored and nobody works at first.
LEMMA InitIInv == Init => IInv
<1> SUFFICES ASSUME Init PROVE IInv
    OBVIOUS
<1>1. TypeOK
    <2>1. 0 \in -1 .. N
        BY SagaAssumption
    <2>2. crashes \in 0 .. MaxCrashes /\ failures \in 0 .. MaxFailures
          /\ lostSaves \in 0 .. MaxLostSaves
        BY SagaAssumption DEF Init
    <2> QED
        BY <2>1, <2>2 DEF Init, TypeOK, Effect
<1>2. Working /\ SavedSound /\ ReportsSound
    BY DEF Init, Working, SavedSound, ReportsSound
<1> QED
    BY <1>1, <1>2 DEF IInv

\* What is right about R is right about more.
LEMMA SoundGrows ==
    ASSUME NEW R, NEW Q, R \subseteq Q
    PROVE  /\ SoundIn(R) \subseteq SoundIn(Q)
           /\ \A label, i : Fits(label, i, R) => Fits(label, i, Q)
    BY DEF SoundIn, Fits

\* A step of one call: whatever it does to its own copy, it is enough that
\* copy and store are sound afterwards and no step becomes not run.
LEMMA CallKeepsIInv ==
    ASSUME IInv,
           NEW w \in Worker, NEW label \in Label, NEW i \in -1 .. N,
           NEW inst \in Instance \cup {NoInst}, NEW m \in {"none", "start", "resume", "advance"},
           Goto(w, label, i), Keep(w, inst), mode' = [mode EXCEPT ![w] = m],
           label # "idle" => inst \in SoundIn(Ran') /\ Fits(label, i, Ran'),
           world' \in [Step -> Effect], Ran \subseteq Ran',
           saved' = saved \/ saved' \in SoundIn(Ran'),
           UNCHANGED envVars \/ (UNCHANGED <<async, reports>> /\ late' \in BOOLEAN),
           crashes' \in 0 .. MaxCrashes, failures' \in 0 .. MaxFailures,
           lostSaves' \in 0 .. MaxLostSaves
    PROVE  IInv'
<1> USE DEF IInv
<1>1. SoundIn(Ran) \subseteq SoundIn(Ran')
    BY SoundGrows
<1>2. SavedSound'
    BY <1>1 DEF SavedSound
<1>3. saved # NoInst => saved' # NoInst
    BY SagaAssumption DEF SoundIn
<1>4. TypeOK'
    <2>1. saved' \in Instance \cup {NoInst}
        BY DEF TypeOK, SoundIn
    <2>2. pc' \in [Worker -> {"idle", "begin", "loop", "execute", "compensate", "report"}]
        BY DEF TypeOK, Goto, Label
    <2>3. idx' \in [Worker -> -1 .. N]
        BY DEF TypeOK, Goto
    <2>4. mem' \in [Worker -> Instance \cup {NoInst}]
        BY DEF TypeOK, Keep
    <2>5. mode' \in [Worker -> {"none", "start", "resume", "advance"}]
        BY DEF TypeOK
    <2> QED
        BY <2>1, <2>2, <2>3, <2>4, <2>5 DEF TypeOK, envVars
<1>5. Working'
    <2> SUFFICES ASSUME NEW v \in Worker, pc'[v] # "idle"
                 PROVE  mem'[v] \in SoundIn(Ran') /\ Fits(pc'[v], idx'[v], Ran')
        BY DEF Working
    <2>1. CASE v = w
        <3>1. pc'[v] = label /\ idx'[v] = i /\ mem'[v] = inst
            BY <2>1 DEF TypeOK, Goto, Keep
        <3> QED
            BY <3>1
    <2>2. CASE v # w
        <3>1. pc'[v] = pc[v] /\ idx'[v] = idx[v] /\ mem'[v] = mem[v]
            BY <2>2 DEF TypeOK, Goto, Keep
        <3>2. mem[v] \in SoundIn(Ran) /\ Fits(pc[v], idx[v], Ran)
            BY <3>1 DEF Working
        <3>3. Fits(pc[v], idx[v], Ran')
            BY <3>2, SoundGrows
        <3> QED
            BY <1>1, <3>1, <3>2, <3>3
    <2> QED
        BY <2>1, <2>2
<1>6. ReportsSound'
    BY <1>3 DEF ReportsSound, envVars
<1> QED
    BY <1>2, <1>4, <1>5, <1>6

-------------------------------------------------------------------------------
(* The copies a call makes.                                                *)

\* Writing a result or another state than "completed" into a sound copy.
LEMMA Edited ==
    ASSUME NEW R, NEW inst \in SoundIn(R), NEW i \in Step, NEW st \in StepStatus,
           NEW s \in SagaState \ {"completed"}
    PROVE  /\ [inst EXCEPT !.status[i] = st] \in SoundIn(R)
           /\ [inst EXCEPT !.state = s] \in SoundIn(R)
           /\ [inst EXCEPT !.status[i] = st, !.state = s] \in SoundIn(R)
    BY DEF SoundIn, Instance

\* A Save leaves the store sound, lost or not.
LEMMA SaveSound ==
    ASSUME IInv, NEW R, NEW inst \in SoundIn(R), TrySave(inst)
    PROVE  /\ saved' = saved \/ saved' \in SoundIn(R)
           /\ lostSaves' \in 0 .. MaxLostSaves
    BY SagaAssumption DEF TrySave, IInv, TypeOK

\* The budget of errors is never exceeded.
LEMMA FailsCounted ==
    ASSUME IInv, Fails
    PROVE  failures' \in 0 .. MaxFailures
    BY SagaAssumption DEF Fails, IInv, TypeOK

\* A step's effect does not go back to none.
LEMMA WorldGrows ==
    ASSUME IInv, NEW i \in Step, NEW e \in Effect \ {"none"},
           world' = [world EXCEPT ![i] = e]
    PROVE  world' \in [Step -> Effect] /\ Ran' = Ran \cup {i}
    BY DEF IInv, TypeOK, Ran, Effect

\* Nor does an error take it there.
LEMMA ErrorGrows ==
    ASSUME IInv, NEW i \in Step, world' = AfterError(i)
    PROVE  world' \in [Step -> Effect] /\ Ran' = Ran \cup {i}
    BY DEF IInv, TypeOK, Ran, Effect, AfterError

\* A fresh instance claims nothing.
LEMMA FreshSound ==
    ASSUME NEW R
    PROVE  NewInst \in SoundIn(R) /\ [NewInst EXCEPT !.state = "forwarding"] \in SoundIn(R)
<1>1. NewInst \in Instance
    BY SagaAssumption DEF NewInst, Instance, SagaState, StepStatus, Step
<1>2. [NewInst EXCEPT !.state = "forwarding"] \in Instance
    BY <1>1 DEF Instance, SagaState
<1>3. NewInst \in SoundIn(R)
  <2>1. NewInst.current = 0 /\ NewInst.state = "started"
    BY DEF NewInst
  <2>2. \A i \in Step : ~(i < 0)
    BY SagaAssumption DEF Step
  <2> QED
    BY <1>1, <2>1, <2>2 DEF SoundIn
<1>4. [NewInst EXCEPT !.state = "forwarding"] \in SoundIn(R)
  <2>1. /\ [NewInst EXCEPT !.state = "forwarding"].current = 0
        /\ [NewInst EXCEPT !.state = "forwarding"].state = "forwarding"
    BY DEF NewInst
  <2>2. \A i \in Step : ~(i < 0)
    BY SagaAssumption DEF Step
  <2> QED
    BY <1>2, <2>1, <2>2 DEF SoundIn
<1> QED
    BY <1>3, <1>4

-------------------------------------------------------------------------------
(* Start and ResumeUnfinished, step by step.                               *)

LEMMA StartIInv ==
    ASSUME IInv, NEW w \in Worker, Start(w)
    PROVE  IInv'
<1>1. NewInst \in SoundIn(Ran) /\ NewInst \in Instance
    BY FreshSound DEF SoundIn
<1>2. Ran' = Ran
    BY DEF Start, Ran
<1>3. Fits("begin", 0, Ran') /\ 0 \in -1 .. N
    BY SagaAssumption DEF Fits
<1>4. Goto(w, "begin", 0) /\ Keep(w, NewInst) /\ mode' = [mode EXCEPT ![w] = "start"]
    BY DEF Start, Call
<1>5. /\ world' \in [Step -> Effect] /\ crashes' \in 0 .. MaxCrashes
      /\ failures' \in 0 .. MaxFailures /\ lostSaves' \in 0 .. MaxLostSaves
      /\ saved' \in SoundIn(Ran') /\ UNCHANGED envVars
    BY <1>1, <1>2 DEF Start, IInv, TypeOK
<1> QED
    BY <1>1, <1>2, <1>3, <1>4, <1>5, CallKeepsIInv DEF Label

LEMMA BeginIInv ==
    ASSUME IInv, NEW w \in Worker, Begin(w)
    PROVE  IInv'
<1> DEFINE inst == [mem[w] EXCEPT !.state = "forwarding"]
<1>1. Ran' = Ran
    BY DEF Begin, Ran
<1>2. mem[w] \in SoundIn(Ran)
    BY DEF Begin, IInv, Working
<1>3. inst \in SoundIn(Ran) /\ inst \in Instance
    BY <1>2 DEF SoundIn, Instance, SagaState
<1>4. TrySave(inst) /\ Keep(w, inst) /\ Goto(w, "loop", 0)
    BY DEF Begin
<1>5. (saved' = saved \/ saved' \in SoundIn(Ran')) /\ lostSaves' \in 0 .. MaxLostSaves
    BY <1>1, <1>3, <1>4, SaveSound
<1>6. Fits("loop", 0, Ran') /\ 0 \in -1 .. N
    BY SagaAssumption DEF Fits, Step
<1>7. /\ world' \in [Step -> Effect] /\ crashes' \in 0 .. MaxCrashes
      /\ failures' \in 0 .. MaxFailures /\ UNCHANGED envVars
    BY DEF Begin, IInv, TypeOK
<1>8. mode' = [mode EXCEPT ![w] = mode[w]] /\ mode[w] \in {"none", "start", "resume", "advance"}
    BY DEF Begin, IInv, TypeOK
<1> HIDE DEF inst
<1> QED
    BY <1>1, <1>3, <1>4, <1>5, <1>6, <1>7, <1>8, CallKeepsIInv DEF Label

LEMMA EnterStepIInv ==
    ASSUME IInv, NEW w \in Worker, EnterStep(w)
    PROVE  IInv'
<1> DEFINE i == idx[w]
           inst == IF mode[w] = "start"
                   THEN [mem[w] EXCEPT !.current = i, !.status[i] = "running"]
                   ELSE mem[w]
<1>1. Ran' = Ran
    BY DEF EnterStep, Ran
<1>2. mem[w] \in SoundIn(Ran) /\ Fits("loop", i, Ran)
    BY DEF EnterStep, IInv, Working
<1>3. i \in Step /\ i \in -1 .. N
    BY <1>2, SagaAssumption DEF EnterStep, Fits, Step
<1>4. inst \in SoundIn(Ran) /\ inst \in Instance
    BY <1>2, <1>3, SagaAssumption DEF SoundIn, Instance, Fits, StepStatus, Step
<1>5. Keep(w, inst) /\ Goto(w, "execute", i)
    BY DEF EnterStep, Keep, IInv, TypeOK
<1>6. (saved' = saved \/ saved' \in SoundIn(Ran')) /\ lostSaves' \in 0 .. MaxLostSaves
    <2>1. CASE mode[w] = "start"
        BY <1>1, <1>4, <2>1, SaveSound DEF EnterStep
    <2>2. CASE mode[w] # "start"
        BY <2>2 DEF EnterStep, IInv, TypeOK
    <2> QED
        BY <2>1, <2>2
<1>7. Fits("execute", i, Ran')
    BY <1>1, <1>2, <1>3 DEF Fits
<1>8. /\ world' \in [Step -> Effect] /\ crashes' \in 0 .. MaxCrashes
      /\ failures' \in 0 .. MaxFailures /\ UNCHANGED envVars
    BY DEF EnterStep, IInv, TypeOK
<1>9. mode' = [mode EXCEPT ![w] = mode[w]] /\ mode[w] \in {"none", "start", "resume", "advance"}
    BY DEF EnterStep, IInv, TypeOK
<1> HIDE DEF inst
<1> QED
    BY <1>1, <1>3, <1>4, <1>5, <1>6, <1>7, <1>8, <1>9, CallKeepsIInv DEF Label

\* A call that returns leaves only what it did to the store and the world.
LEMMA ReturnKeepsIInv ==
    ASSUME IInv, NEW w \in Worker, Return(w),
           world' \in [Step -> Effect], Ran \subseteq Ran',
           saved' = saved \/ saved' \in SoundIn(Ran'),
           UNCHANGED envVars,
           crashes' \in 0 .. MaxCrashes, failures' \in 0 .. MaxFailures,
           lostSaves' \in 0 .. MaxLostSaves
    PROVE  IInv'
<1>1. 0 \in -1 .. N
    BY SagaAssumption
<1> QED
    BY <1>1, CallKeepsIInv DEF Return, Label

LEMMA CompleteIInv ==
    ASSUME IInv, NEW w \in Worker, Complete(w)
    PROVE  IInv'
<1> DEFINE inst == [mem[w] EXCEPT !.state = "completed"]
<1>1. Ran' = Ran
    BY DEF Complete, Ran
<1>2. mem[w] \in SoundIn(Ran) /\ Fits("loop", N, Ran)
    BY DEF Complete, IInv, Working
<1>3. Step \subseteq Ran
    BY <1>2, SagaAssumption DEF Fits, Step
<1>4. inst \in SoundIn(Ran)
    BY <1>2, <1>3 DEF SoundIn, Instance, SagaState
<1>5. TrySave(inst) /\ Return(w)
    BY DEF Complete
<1> HIDE DEF inst
<1>6. (saved' = saved \/ saved' \in SoundIn(Ran')) /\ lostSaves' \in 0 .. MaxLostSaves
    BY <1>1, <1>4, <1>5, SaveSound
<1>7. /\ world' \in [Step -> Effect] /\ crashes' \in 0 .. MaxCrashes
      /\ failures' \in 0 .. MaxFailures /\ UNCHANGED envVars
    BY DEF Complete, IInv, TypeOK
<1> QED
    BY <1>1, <1>5, <1>6, <1>7, ReturnKeepsIInv

LEMMA ExecuteOkIInv ==
    ASSUME IInv, NEW w \in Worker, ExecuteOk(w)
    PROVE  IInv'
<1> DEFINE i == idx[w]
           result == [mem[w] EXCEPT !.status[i] = "completed"]
           inst == IF mode[w] = "start" THEN result ELSE [result EXCEPT !.current = i + 1]
<1>1. mem[w] \in SoundIn(Ran) /\ Fits("execute", i, Ran)
    BY DEF ExecuteOk, IInv, Working
<1>2. i \in Step /\ i + 1 \in 0 .. N /\ i + 1 \in -1 .. N
    BY <1>1, SagaAssumption DEF Fits, Step
<1>3. world' \in [Step -> Effect] /\ Ran' = Ran \cup {i}
    BY <1>2, WorldGrows DEF ExecuteOk, Effect
<1>4. result \in SoundIn(Ran')
    <2>1. mem[w] \in SoundIn(Ran')
        BY <1>1, <1>3, SoundGrows
    <2> QED
        BY <1>2, <2>1 DEF SoundIn, Instance, StepStatus
<1>5. \A j \in Step : j < i + 1 => j \in Ran'
    BY <1>1, <1>2, <1>3 DEF Fits, Step
<1>6. [result EXCEPT !.current = i + 1] \in SoundIn(Ran')
    BY <1>2, <1>4, <1>5 DEF SoundIn, Instance
<1>7. inst \in SoundIn(Ran') /\ inst \in Instance
    BY <1>4, <1>6 DEF SoundIn
<1>8. Keep(w, inst) /\ Goto(w, "loop", i + 1)
    BY DEF ExecuteOk
<1>9. (saved' = saved \/ saved' \in SoundIn(Ran')) /\ lostSaves' \in 0 .. MaxLostSaves
    <2>1. CASE mode[w] = "start"
        BY <1>4, <2>1, SaveSound DEF ExecuteOk
    <2>2. CASE mode[w] # "start"
        BY <2>2 DEF ExecuteOk, IInv, TypeOK
    <2> QED
        BY <2>1, <2>2
<1>10. Fits("loop", i + 1, Ran')
    BY <1>2, <1>5 DEF Fits
<1>11. /\ crashes' \in 0 .. MaxCrashes /\ failures' \in 0 .. MaxFailures
       /\ UNCHANGED envVars
    BY DEF ExecuteOk, IInv, TypeOK
<1>12. mode' = [mode EXCEPT ![w] = mode[w]] /\ mode[w] \in {"none", "start", "resume", "advance"}
    BY DEF ExecuteOk, IInv, TypeOK
<1> HIDE DEF inst, i
<1> QED
    BY <1>2, <1>3, <1>7, <1>8, <1>9, <1>10, <1>11, <1>12, CallKeepsIInv DEF Label

LEMMA ExecuteErrIInv ==
    ASSUME IInv, NEW w \in Worker, ExecuteErr(w)
    PROVE  IInv'
<1> DEFINE i == idx[w]
           inst == IF mode[w] = "start"
                   THEN [mem[w] EXCEPT !.status[i] = "failed"]
                   ELSE mem[w]
<1>1. mem[w] \in SoundIn(Ran) /\ Fits("execute", i, Ran)
    BY DEF ExecuteErr, IInv, Working
<1>2. i \in Step /\ i - 1 \in -1 .. N - 1 /\ i - 1 \in -1 .. N
    BY <1>1, SagaAssumption DEF Fits, Step
<1>3. world' \in [Step -> Effect] /\ Ran' = Ran \cup {i}
    BY <1>2, ErrorGrows DEF ExecuteErr
<1>4. mem[w] \in SoundIn(Ran')
    BY <1>1, <1>3, SoundGrows
<1>5. inst \in SoundIn(Ran') /\ inst \in Instance
    BY <1>2, <1>4 DEF SoundIn, Instance, StepStatus
<1>6. Keep(w, inst) /\ Goto(w, "compensate", i - 1)
    BY DEF ExecuteErr, Keep, IInv, TypeOK
<1>7. Fits("compensate", i - 1, Ran')
    BY <1>2 DEF Fits
<1>8. /\ crashes' \in 0 .. MaxCrashes /\ lostSaves' \in 0 .. MaxLostSaves
      /\ saved' = saved /\ UNCHANGED envVars
    BY DEF ExecuteErr, IInv, TypeOK
<1>9. mode' = [mode EXCEPT ![w] = mode[w]] /\ mode[w] \in {"none", "start", "resume", "advance"}
    BY DEF ExecuteErr, IInv, TypeOK
<1>10. failures' \in 0 .. MaxFailures
    BY FailsCounted DEF ExecuteErr
<1> HIDE DEF inst, i
<1> QED
    BY <1>2, <1>3, <1>5, <1>6, <1>7, <1>8, <1>9, <1>10, CallKeepsIInv DEF Label

LEMMA ExecuteNilIInv ==
    ASSUME IInv, NEW w \in Worker, ExecuteNil(w)
    PROVE  IInv'
<1> DEFINE i == idx[w]
<1>1. Ran' = Ran
    BY DEF ExecuteNil, Ran
<1>2. mem[w] \in SoundIn(Ran) /\ mem[w] \in Instance /\ Fits("execute", i, Ran)
    BY DEF ExecuteNil, IInv, Working, SoundIn
<1>3. i - 1 \in -1 .. N /\ Fits("compensate", i - 1, Ran')
    BY <1>2, SagaAssumption DEF Fits, Step
<1>4. Goto(w, "compensate", i - 1) /\ Keep(w, mem[w])
    BY DEF ExecuteNil, Keep, IInv, TypeOK
<1>5. /\ world' \in [Step -> Effect] /\ crashes' \in 0 .. MaxCrashes
      /\ failures' \in 0 .. MaxFailures /\ lostSaves' \in 0 .. MaxLostSaves
      /\ saved' = saved /\ UNCHANGED envVars
    BY DEF ExecuteNil, IInv, TypeOK
<1>6. mode' = [mode EXCEPT ![w] = mode[w]] /\ mode[w] \in {"none", "start", "resume", "advance"}
    BY DEF ExecuteNil, IInv, TypeOK
<1> QED
    BY <1>1, <1>2, <1>3, <1>4, <1>5, <1>6, CallKeepsIInv DEF Label

LEMMA ResumeIInv ==
    ASSUME IInv, NEW w \in Worker, Resume(w)
    PROVE  IInv'
<1> DEFINE i == saved.current
<1>1. Ran' = Ran
    BY DEF Resume, Ran
<1>2. saved \in SoundIn(Ran) /\ saved \in Instance
    BY DEF Resume, Stored, IInv, SavedSound, SoundIn
<1>3. i \in 0 .. N /\ i \in -1 .. N
    BY <1>2, SagaAssumption DEF Instance
<1>4. Fits("loop", i, Ran')
    BY <1>1, <1>2, <1>3 DEF Fits, SoundIn
<1>5. Goto(w, "loop", i) /\ Keep(w, saved) /\ mode' = [mode EXCEPT ![w] = "resume"]
    BY DEF Resume, Call
<1>6. /\ world' \in [Step -> Effect] /\ crashes' \in 0 .. MaxCrashes
      /\ failures' \in 0 .. MaxFailures /\ lostSaves' \in 0 .. MaxLostSaves
      /\ saved' = saved /\ UNCHANGED envVars
    BY DEF Resume, IInv, TypeOK
<1> HIDE DEF i
<1> QED
    BY <1>1, <1>2, <1>3, <1>4, <1>5, <1>6, CallKeepsIInv DEF Label

-------------------------------------------------------------------------------
(* compensate, step by step.                                               *)

\* While it compensates a call is at a step, or behind its loop.
LEMMA InCompensate ==
    ASSUME IInv, NEW w \in Worker, pc[w] = "compensate"
    PROVE  /\ mem[w] \in SoundIn(Ran)
           /\ idx[w] \in -1 .. N - 1
           /\ ~UndoneAll(w) => /\ idx[w] \in Step
                               /\ idx[w] - 1 \in -1 .. N - 1
                               /\ idx[w] - 1 \in -1 .. N
<1>1. mem[w] \in SoundIn(Ran) /\ Fits("compensate", idx[w], Ran)
    BY DEF IInv, Working
<1> QED
    BY <1>1, SagaAssumption DEF Fits, UndoneAll, Step

LEMMA SkipCompensateIInv ==
    ASSUME IInv, NEW w \in Worker, SkipCompensate(w)
    PROVE  IInv'
<1> DEFINE i == idx[w]
           inst == mem[w]
<1>1. Ran' = Ran
    BY DEF SkipCompensate, Ran
<1>2. inst \in SoundIn(Ran') /\ inst \in Instance
    BY <1>1, InCompensate DEF SkipCompensate, SoundIn
<1>3. i - 1 \in -1 .. N - 1 /\ i - 1 \in -1 .. N
    BY InCompensate DEF SkipCompensate
<1>4. Fits("compensate", i - 1, Ran')
    BY <1>3 DEF Fits
<1>5. Goto(w, "compensate", i - 1) /\ Keep(w, inst)
    BY DEF SkipCompensate, Keep, IInv, TypeOK
<1>6. /\ world' \in [Step -> Effect] /\ crashes' \in 0 .. MaxCrashes
      /\ failures' \in 0 .. MaxFailures /\ lostSaves' \in 0 .. MaxLostSaves
      /\ saved' = saved /\ UNCHANGED envVars
    BY DEF SkipCompensate, IInv, TypeOK
<1>7. mode' = [mode EXCEPT ![w] = mode[w]] /\ mode[w] \in {"none", "start", "resume", "advance"}
    BY DEF SkipCompensate, IInv, TypeOK
<1> HIDE DEF i, inst
<1> QED
    BY <1>1, <1>2, <1>3, <1>4, <1>5, <1>6, <1>7, CallKeepsIInv DEF Label

LEMMA CompensateOkIInv ==
    ASSUME IInv, NEW w \in Worker, CompensateOk(w)
    PROVE  IInv'
<1> DEFINE i == idx[w]
           inst == [mem[w] EXCEPT !.status[i] = "compensated"]
<1>1. mem[w] \in SoundIn(Ran) /\ i \in Step /\ i - 1 \in -1 .. N - 1 /\ i - 1 \in -1 .. N
    BY InCompensate DEF CompensateOk, Undoing
<1>2. world' \in [Step -> Effect] /\ Ran' = Ran \cup {i}
    BY <1>1, WorldGrows DEF CompensateOk, Effect
<1>3. mem[w] \in SoundIn(Ran')
    BY <1>1, <1>2, SoundGrows
<1>4. inst \in SoundIn(Ran') /\ inst \in Instance
    BY <1>1, <1>3 DEF SoundIn, Instance, StepStatus
<1>5. TrySave(inst) /\ Keep(w, inst) /\ Goto(w, "compensate", i - 1)
    BY DEF CompensateOk
<1>6. Fits("compensate", i - 1, Ran')
    BY <1>1 DEF Fits
<1>7. mode' = [mode EXCEPT ![w] = mode[w]] /\ mode[w] \in {"none", "start", "resume", "advance"}
    BY DEF CompensateOk, IInv, TypeOK
<1>8. /\ crashes' \in 0 .. MaxCrashes /\ failures' \in 0 .. MaxFailures
      /\ UNCHANGED envVars
    BY DEF CompensateOk, IInv, TypeOK
<1> HIDE DEF i, inst
<1>9. (saved' = saved \/ saved' \in SoundIn(Ran')) /\ lostSaves' \in 0 .. MaxLostSaves
    BY <1>4, <1>5, SaveSound
<1> QED
    BY <1>1, <1>2, <1>4, <1>5, <1>6, <1>7, <1>8, <1>9, CallKeepsIInv DEF Label

LEMMA CompensateErrIInv ==
    ASSUME IInv, NEW w \in Worker, CompensateErr(w)
    PROVE  IInv'
<1> DEFINE i == idx[w]
           inst == [mem[w] EXCEPT !.status[i] = "compensated", !.state = "failed"]
<1>1. mem[w] \in SoundIn(Ran) /\ i \in Step
    BY InCompensate DEF CompensateErr, Undoing
<1>2. world' \in [Step -> Effect] /\ Ran' = Ran \cup {i}
    BY <1>1, WorldGrows DEF CompensateErr, Effect, IInv, TypeOK
<1>3. mem[w] \in SoundIn(Ran')
    BY <1>1, <1>2, SoundGrows
<1>4. inst \in SoundIn(Ran')
    BY <1>1, <1>3, Edited DEF StepStatus, SagaState
<1>5. TrySave(inst) /\ Return(w)
    BY DEF CompensateErr
<1>6. crashes' \in 0 .. MaxCrashes /\ UNCHANGED envVars
    BY DEF CompensateErr, IInv, TypeOK
<1>7. failures' \in 0 .. MaxFailures
    BY FailsCounted DEF CompensateErr
<1> HIDE DEF i, inst
<1>8. (saved' = saved \/ saved' \in SoundIn(Ran')) /\ lostSaves' \in 0 .. MaxLostSaves
    BY <1>4, <1>5, SaveSound
<1> QED
    BY <1>2, <1>5, <1>6, <1>7, <1>8, ReturnKeepsIInv

LEMMA SettleIInv ==
    ASSUME IInv, NEW w \in Worker, Settle(w)
    PROVE  IInv'
<1> DEFINE inst == [mem[w] EXCEPT !.state = "compensating"]
<1>1. Ran' = Ran
    BY DEF Settle, Ran
<1>2. mem[w] \in SoundIn(Ran')
    BY <1>1, InCompensate DEF Settle
<1>3. inst \in SoundIn(Ran')
    BY <1>2 DEF SoundIn, Instance, SagaState
<1>4. TrySave(inst) /\ Return(w)
    BY DEF Settle
<1>5. /\ world' \in [Step -> Effect] /\ crashes' \in 0 .. MaxCrashes
      /\ failures' \in 0 .. MaxFailures /\ UNCHANGED envVars
    BY DEF Settle, IInv, TypeOK
<1> HIDE DEF inst
<1>6. (saved' = saved \/ saved' \in SoundIn(Ran')) /\ lostSaves' \in 0 .. MaxLostSaves
    BY <1>3, <1>4, SaveSound
<1> QED
    BY <1>1, <1>4, <1>5, <1>6, ReturnKeepsIInv

-------------------------------------------------------------------------------
(* AdvanceStep and its environment.                                        *)

LEMMA EnrollIInv ==
    ASSUME IInv, Enroll
    PROVE  IInv'
<1> DEFINE inst == [NewInst EXCEPT !.state = "forwarding"]
<1>1. Ran' = Ran
    BY DEF Enroll, Ran
<1>2. inst \in SoundIn(Ran') /\ inst \in Instance
    BY FreshSound DEF SoundIn
<1>3. saved' = inst /\ saved' # NoInst
    BY <1>2, SagaAssumption DEF Enroll
<1>4. TypeOK'
    BY <1>2, <1>3 DEF Enroll, IInv, TypeOK, callVars, envVars
<1>5. Working'
    BY <1>1 DEF Enroll, IInv, Working, callVars
<1>6. SavedSound' /\ ReportsSound'
    BY <1>1, <1>2, <1>3 DEF Enroll, IInv, SavedSound, ReportsSound
<1> QED
    BY <1>4, <1>5, <1>6 DEF IInv

\* A service that ran its step, with whatever outcome it reports.
LEMMA ServeIInv ==
    ASSUME IInv, NEW i \in Step, NEW outcome \in {"ok", "error"}, Asked(i),
           world' \in [Step -> Effect], Ran' = Ran \cup {i},
           reports' = reports \cup {<<i, outcome>>},
           failures' \in 0 .. MaxFailures,
           UNCHANGED <<saved, callVars, async, late, crashes, lostSaves>>
    PROVE  IInv'
<1> USE DEF IInv
<1>1. TypeOK'
    BY DEF TypeOK, callVars
<1>2. Working'
    <2> SUFFICES ASSUME NEW w \in Worker, pc'[w] # "idle"
                 PROVE  mem'[w] \in SoundIn(Ran') /\ Fits(pc'[w], idx'[w], Ran')
        BY DEF Working
    <2>1. pc'[w] = pc[w] /\ mem'[w] = mem[w] /\ idx'[w] = idx[w]
        BY DEF callVars
    <2>2. mem[w] \in SoundIn(Ran) /\ Fits(pc[w], idx[w], Ran)
        BY <2>1 DEF Working
    <2> QED
        BY <2>1, <2>2, SoundGrows
<1>3. SavedSound'
    BY SoundGrows DEF SavedSound
<1>4. ReportsSound'
    BY DEF ReportsSound, Asked
<1> QED
    BY <1>1, <1>2, <1>3, <1>4

LEMMA ServeOkIInv ==
    ASSUME IInv, NEW i \in Step, ServeOk(i)
    PROVE  IInv'
<1>1. world' \in [Step -> Effect] /\ Ran' = Ran \cup {i}
    BY WorldGrows DEF ServeOk, Effect
<1>2. failures' \in 0 .. MaxFailures
    BY DEF ServeOk, IInv, TypeOK
<1> QED
    BY <1>1, <1>2, ServeIInv DEF ServeOk

LEMMA ServeErrIInv ==
    ASSUME IInv, NEW i \in Step, ServeErr(i)
    PROVE  IInv'
<1>1. world' \in [Step -> Effect] /\ Ran' = Ran \cup {i}
    BY ErrorGrows DEF ServeErr
<1>2. failures' \in 0 .. MaxFailures
    BY FailsCounted DEF ServeErr
<1> QED
    BY <1>1, <1>2, ServeIInv DEF ServeErr

LEMMA AdvanceOkIInv ==
    ASSUME IInv, NEW w \in Worker, NEW i \in Step, AdvanceOk(w, i)
    PROVE  IInv'
<1> DEFINE inst == Advanced(saved, i)
<1>1. Ran' = Ran
    BY DEF AdvanceOk, Ran
<1>2. saved \in SoundIn(Ran) /\ i \in Ran /\ i = saved.current
    BY DEF AdvanceOk, IInv, SavedSound, ReportsSound
<1>3. i + 1 \in 0 .. N /\ i \in -1 .. N
    BY SagaAssumption DEF Step
<1>4. \A j \in Step : j < i + 1 => j \in Ran
    BY <1>2, <1>3 DEF SoundIn, Step
<1>5. i + 1 >= N => Step \subseteq Ran
    BY <1>4, SagaAssumption DEF Step
<1>6. inst \in Instance
    BY <1>2, <1>3 DEF Advanced, SoundIn, Instance, SagaState, StepStatus
<1>7. inst \in SoundIn(Ran)
    BY <1>2, <1>4, <1>5, <1>6 DEF Advanced, SoundIn
<1>8. Fits("report", i, Ran')
    BY DEF Fits
<1>9. Goto(w, "report", i) /\ Keep(w, inst) /\ mode' = [mode EXCEPT ![w] = "advance"]
    BY DEF AdvanceOk, Call
<1>10. /\ world' \in [Step -> Effect] /\ crashes' \in 0 .. MaxCrashes
       /\ failures' \in 0 .. MaxFailures /\ lostSaves' \in 0 .. MaxLostSaves
       /\ saved' = saved /\ UNCHANGED <<async, reports>> /\ late' \in BOOLEAN
    BY DEF AdvanceOk, IInv, TypeOK
<1> HIDE DEF inst
<1> QED
    BY <1>1, <1>3, <1>6, <1>7, <1>8, <1>9, <1>10, CallKeepsIInv DEF Label

LEMMA AdvanceErrIInv ==
    ASSUME IInv, NEW w \in Worker, NEW i \in Step, AdvanceErr(w, i)
    PROVE  IInv'
<1> DEFINE inst == [saved EXCEPT !.status[i] = "failed"]
<1>1. Ran' = Ran
    BY DEF AdvanceErr, Ran
<1>2. saved \in SoundIn(Ran)
    BY DEF AdvanceErr, IInv, SavedSound, ReportsSound
<1>3. i - 1 \in -1 .. N - 1 /\ i - 1 \in -1 .. N
    BY SagaAssumption DEF Step
<1>4. inst \in SoundIn(Ran) /\ inst \in Instance
    BY <1>2 DEF SoundIn, Instance, StepStatus
<1>5. Fits("compensate", i - 1, Ran')
    BY <1>3 DEF Fits
<1>6. Goto(w, "compensate", i - 1) /\ Keep(w, inst) /\ mode' = [mode EXCEPT ![w] = "advance"]
    BY DEF AdvanceErr, Call
<1>7. /\ world' \in [Step -> Effect] /\ crashes' \in 0 .. MaxCrashes
      /\ failures' \in 0 .. MaxFailures /\ lostSaves' \in 0 .. MaxLostSaves
      /\ saved' = saved /\ UNCHANGED envVars
    BY DEF AdvanceErr, IInv, TypeOK
<1> HIDE DEF inst
<1> QED
    BY <1>1, <1>3, <1>4, <1>5, <1>6, <1>7, CallKeepsIInv DEF Label

LEMMA SaveAdvancedIInv ==
    ASSUME IInv, NEW w \in Worker, SaveAdvanced(w)
    PROVE  IInv'
<1>1. Ran' = Ran
    BY DEF SaveAdvanced, Ran
<1>2. mem[w] \in SoundIn(Ran)
    BY DEF SaveAdvanced, IInv, Working
<1>3. TrySave(mem[w]) /\ Return(w)
    BY DEF SaveAdvanced
<1>4. (saved' = saved \/ saved' \in SoundIn(Ran')) /\ lostSaves' \in 0 .. MaxLostSaves
    BY <1>1, <1>2, <1>3, SaveSound
<1>5. /\ world' \in [Step -> Effect] /\ crashes' \in 0 .. MaxCrashes
      /\ failures' \in 0 .. MaxFailures /\ UNCHANGED envVars
    BY DEF SaveAdvanced, IInv, TypeOK
<1> QED
    BY <1>1, <1>3, <1>4, <1>5, ReturnKeepsIInv

LEMMA CrashIInv ==
    ASSUME IInv, NEW w \in Worker, Crash(w)
    PROVE  IInv'
<1>1. Return(w)
    BY DEF Crash
<1>2. world' \in [Step -> Effect] /\ Ran \subseteq Ran'
    <2>1. CASE UNCHANGED world
        BY <2>1 DEF IInv, TypeOK, Ran
    <2>2. CASE pc[w] = "execute" /\ ~async /\ world' = [world EXCEPT ![idx[w]] = "done"]
        <3>1. idx[w] \in Step
            BY <2>2 DEF IInv, Working, Fits
        <3> QED
            BY <2>2, <3>1, WorldGrows DEF Effect
    <2>3. CASE Undoing(w) /\ world' = [world EXCEPT ![idx[w]] = "undone"]
        <3>1. idx[w] \in Step
            BY <2>3, InCompensate DEF Undoing
        <3> QED
            BY <2>3, <3>1, WorldGrows DEF Effect
    <2> QED
        BY <2>1, <2>2, <2>3 DEF Crash
<1>3. crashes' \in 0 .. MaxCrashes
    BY SagaAssumption DEF Crash, IInv, TypeOK
<1>4. /\ failures' \in 0 .. MaxFailures /\ lostSaves' \in 0 .. MaxLostSaves
      /\ saved' = saved /\ UNCHANGED envVars
    BY DEF Crash, IInv, TypeOK
<1> QED
    BY <1>1, <1>2, <1>3, <1>4, ReturnKeepsIInv

-------------------------------------------------------------------------------
\* Every step keeps the invariant.
LEMMA NextIInv == IInv /\ [Next]_vars => IInv'
<1> SUFFICES ASSUME IInv, [Next]_vars PROVE IInv'
    OBVIOUS
<1>1. CASE UNCHANGED vars
    BY <1>1 DEF vars, callVars, envVars, IInv, TypeOK, Working, SavedSound, ReportsSound, Ran
<1>2. ASSUME NEW w \in Worker, Start(w) \/ Resume(w) PROVE IInv'
    BY <1>2, StartIInv, ResumeIInv
<1>3. ASSUME NEW w \in Worker, Advance(w) PROVE IInv'
    BY <1>3, AdvanceOkIInv, AdvanceErrIInv DEF Advance
<1>4. ASSUME NEW w \in Worker, CallStep(w) PROVE IInv'
    BY <1>4, BeginIInv, EnterStepIInv, CompleteIInv, ExecuteOkIInv, ExecuteNilIInv,
       SkipCompensateIInv, CompensateOkIInv, SettleIInv, SaveAdvancedIInv DEF CallStep
<1>5. ASSUME NEW w \in Worker, ExecuteErr(w) \/ CompensateErr(w) \/ Crash(w) PROVE IInv'
    BY <1>5, ExecuteErrIInv, CompensateErrIInv, CrashIInv
<1>6. ASSUME NEW i \in Step, ServeOk(i) \/ ServeErr(i) PROVE IInv'
    BY <1>6, ServeOkIInv, ServeErrIInv
<1> QED
    BY <1>1, <1>2, <1>3, <1>4, <1>5, <1>6, EnrollIInv DEF Next

\* Every variable of Saga keeps its type.
THEOREM SagaTypes == Spec => []TypeOK
<1>1. IInv => TypeOK
    BY DEF IInv
<1> QED
    BY <1>1, InitIInv, NextIInv, PTL DEF Spec

\* Whatever calls run at a time, crash, or lose their Saves, recovery starts at
\* a CurrentStep before which every step was run, and a completed saga ran them
\* all: no call works from a copy that is ahead of the services.
THEOREM SagaNothingSkipped == Spec => []NothingSkipped
<1>1. IInv => NothingSkipped
    BY DEF IInv, SavedSound, SoundIn, Ran, NothingSkipped
<1> QED
    BY <1>1, InitIInv, NextIInv, PTL DEF Spec

-------------------------------------------------------------------------------
(* One coordinator at a time: what is undone.                              *)

\* The effects the statuses and the state of an instance speak of.
Told(inst, W) ==
    /\ \A i \in Step :
           inst.status[i] = "compensated" => i < inst.current /\ W[i] \in {"undone", "doubtful"}
    /\ ~late /\ inst.state = "compensating" =>
           \A i \in Compensable : i < inst.current => W[i] = "undone"

\* Before a saga begins.
Fresh ==
    saved = NoInst =>
        (\A i \in Step : world[i] = "none") /\ (\A w \in Worker : pc[w] = "idle")

SavedTold == saved # NoInst => Told(saved, world)

\* Only the services of an asynchronous saga report.
Reported == reports # {} => async

\* A call that runs forward is at or behind the CurrentStep of its copy, and the
\* store is never ahead of the copy; one that compensates has undone what is
\* between its loop variable and CurrentStep.
AtWork(w) ==
    /\ saved.current <= mem[w].current
    /\ Told(mem[w], world)
    /\ mode[w] \in {"start", "resume"} =>
           {saved.state, mem[w].state} \subseteq {"started", "forwarding"}
    /\ async => mode[w] # "start" /\ (mode[w] = "resume" => mem[w].current = saved.current)
    /\ pc[w] \in {"begin", "loop", "execute"} => mode[w] \in {"start", "resume"}
    /\ pc[w] = "begin" => mem[w].current = 0
    /\ pc[w] = "loop" =>
           mem[w].current <= idx[w] /\ (mode[w] = "resume" => mem[w].current = idx[w])
    /\ pc[w] = "execute" => mem[w].current = idx[w]
    /\ pc[w] = "compensate" =>
           /\ idx[w] < mem[w].current
           /\ \A i \in Compensable : idx[w] < i /\ i < mem[w].current => world[i] = "undone"
           /\ mode[w] \notin {"start", "resume"} => mem[w].current = saved.current
    /\ pc[w] = "report" => async

AllAtWork ==
    \A w \in Worker : IF pc[w] = "idle" THEN mode[w] = "none" ELSE AtWork(w)

UndoIInv == Fresh /\ SavedTold /\ Reported /\ AllAtWork

\* A Save that was lost left the store as it was.
LEMMA SaveOutcome ==
    ASSUME NEW inst, TrySave(inst)
    PROVE  saved' \in {saved, inst} /\ (lostSaves' = lostSaves => saved' = inst \/ saved' = saved)
    BY DEF TrySave

\* Another state claims no more undone; nor do other results, or a later
\* CurrentStep in a saga that is not settled.
LEMMA ToldInState ==
    ASSUME NEW inst \in Instance, NEW W, Told(inst, W),
           NEW s \in SagaState \ {"compensating"}
    PROVE  Told([inst EXCEPT !.state = s], W)
    BY DEF Told, Instance

LEMMA ToldResult ==
    ASSUME NEW inst \in Instance, NEW W, Told(inst, W), NEW i \in Step,
           NEW st \in StepStatus \ {"compensated"}
    PROVE  /\ Told([inst EXCEPT !.status[i] = st], W)
           /\ \A c \in 0 .. N : inst.state # "compensating" /\ inst.current <= c =>
                  /\ Told([inst EXCEPT !.current = c, !.status[i] = st], W)
                  /\ Told([inst EXCEPT !.status[i] = st, !.current = c], W)
<1>1. /\ inst.current \in Int /\ \A j \in Step : j \in Int
      /\ [inst EXCEPT !.status[i] = st].current = inst.current
      /\ [inst EXCEPT !.status[i] = st].state = inst.state
      /\ \A j \in Step : [inst EXCEPT !.status[i] = st].status[j]
                             = IF j = i THEN st ELSE inst.status[j]
    BY SagaAssumption DEF Instance, Step
<1>2. Told([inst EXCEPT !.status[i] = st], W)
    BY <1>1 DEF Told
<1>3. ASSUME NEW c \in 0 .. N, inst.state # "compensating", inst.current <= c
      PROVE  /\ Told([inst EXCEPT !.current = c, !.status[i] = st], W)
             /\ Told([inst EXCEPT !.status[i] = st, !.current = c], W)
  <2>1. c \in Int
      BY SagaAssumption
  <2> QED
      BY <1>1, <1>3, <2>1 DEF Told, Instance
<1> QED
    BY <1>2, <1>3

\* Running a step that nobody counts as undone, or compensating, takes nothing
\* from what is undone.
LEMMA ToldWorld ==
    ASSUME NEW inst \in Instance, NEW W \in [Step -> Effect], Told(inst, W), NEW i \in Step,
           NEW e \in Effect,
           i >= inst.current \/ e = "undone" \/ (W[i] # "undone" /\ e = "doubtful")
    PROVE  Told(inst, [W EXCEPT ![i] = e])
<1>1. inst.current \in Int /\ \A j \in Step : j \in Int
    BY SagaAssumption DEF Instance, Step
<1> QED
    BY <1>1, SagaAssumption DEF Told

\* What a step of the only call has to show: store and copy tell the truth, and
\* the call is where it says.
LEMMA CallKeepsUndo ==
    ASSUME NEW w, Worker = {w}, IInv, UndoIInv,
           NEW label \in Label, NEW i, NEW inst, NEW m,
           Goto(w, label, i), Keep(w, inst), mode' = [mode EXCEPT ![w] = m],
           UNCHANGED envVars \/ (UNCHANGED <<async, reports>> /\ (late => late')),
           saved' # NoInst, Told(saved', world'),
           IF label = "idle" THEN m = "none" ELSE AtWork(w)'
    PROVE  UndoIInv'
<1>1. pc'[w] = label /\ mode'[w] = m
    BY DEF IInv, TypeOK, Goto
<1>2. AllAtWork'
    BY <1>1 DEF AllAtWork
<1>3. Reported'
    BY DEF UndoIInv, Reported, envVars
<1>4. Fresh' /\ SavedTold'
    BY DEF Fresh, SavedTold, Told, envVars
<1> QED
    BY <1>2, <1>3, <1>4 DEF UndoIInv

\* What the invariants say of the only call when it works.
LEMMA WorkingCall ==
    ASSUME NEW w, Worker = {w}, IInv, UndoIInv, pc[w] # "idle"
    PROVE  /\ saved # NoInst /\ saved \in Instance /\ mem[w] \in Instance
           /\ Told(saved, world) /\ AtWork(w)
           /\ saved.current \in Int /\ mem[w].current \in Int /\ idx[w] \in Int
           /\ world \in [Step -> Effect]
<1>1. saved # NoInst /\ AtWork(w) /\ Told(saved, world)
    BY DEF UndoIInv, Fresh, SavedTold, AllAtWork
<1>2. saved \in Instance /\ mem[w] \in Instance
    BY <1>1 DEF IInv, Working, SoundIn, TypeOK
<1> QED
    BY <1>1, <1>2, SagaAssumption DEF Instance, IInv, TypeOK

LEMMA StartUndo ==
    ASSUME NEW w, Worker = {w}, IInv, UndoIInv, Start(w)
    PROVE  UndoIInv'
<1>1. /\ saved' = NewInst /\ world' = world /\ UNCHANGED envVars
      /\ Goto(w, "begin", 0) /\ Keep(w, NewInst) /\ mode' = [mode EXCEPT ![w] = "start"]
    BY DEF Start, Call
<1>2. pc'[w] = "begin" /\ idx'[w] = 0 /\ mem'[w] = NewInst /\ mode'[w] = "start"
    BY <1>1 DEF Goto, Keep, IInv, TypeOK
<1>3. /\ NewInst # NoInst /\ NewInst.current = 0 /\ NewInst.state = "started"
      /\ \A i \in Step : NewInst.status[i] = "pending"
    BY FreshSound, SagaAssumption DEF NewInst, SoundIn
<1>4. Told(NewInst, world)
    BY <1>3 DEF Told
<1>5. ~async
    BY DEF IInv, ReportsSound, Start
<1>6. AtWork(w)'
    BY <1>1, <1>2, <1>3, <1>4, <1>5 DEF AtWork, Told, envVars
<1> QED
    BY <1>1, <1>3, <1>4, <1>6, CallKeepsUndo DEF Label

LEMMA BeginUndo ==
    ASSUME NEW w, Worker = {w}, IInv, UndoIInv, Begin(w)
    PROVE  UndoIInv'
<1> DEFINE inst == [mem[w] EXCEPT !.state = "forwarding"]
<1>1. pc[w] = "begin"
    BY DEF Begin
<1>2. /\ saved # NoInst /\ saved \in Instance /\ mem[w] \in Instance
      /\ Told(saved, world) /\ AtWork(w) /\ saved.current \in Int /\ mem[w].current \in Int
    BY <1>1, WorkingCall
<1>3. inst \in Instance /\ inst.current = mem[w].current /\ inst.state = "forwarding"
    BY <1>2 DEF Instance, SagaState
<1>4. Told(inst, world)
    BY <1>2, ToldInState DEF AtWork, SagaState
<1>5. /\ saved' \in {saved, inst} /\ Keep(w, inst) /\ Goto(w, "loop", 0)
      /\ world' = world /\ mode' = mode /\ UNCHANGED envVars
    BY SaveOutcome DEF Begin
<1>6. mode' = [mode EXCEPT ![w] = mode[w]]
    BY <1>5 DEF IInv, TypeOK
<1> HIDE DEF inst
<1>7. pc'[w] = "loop" /\ idx'[w] = 0 /\ mem'[w] = inst /\ mode'[w] = mode[w]
    BY <1>5 DEF Goto, Keep, IInv, TypeOK
<1>8. /\ saved.state \in {"started", "forwarding"} /\ saved.current <= 0
      /\ inst.current = 0
      /\ async => mode[w] # "start" /\ (mode[w] = "resume" => saved.current = 0)
    BY <1>1, <1>2, <1>3 DEF AtWork
<1>9. AtWork(w)'
    BY <1>3, <1>4, <1>5, <1>7, <1>8, <1>1, <1>2 DEF AtWork, Told, envVars
<1> QED
    BY <1>2, <1>3, <1>4, <1>5, <1>6, <1>9, SagaAssumption, CallKeepsUndo DEF Label

LEMMA EnterStepUndo ==
    ASSUME NEW w, Worker = {w}, IInv, UndoIInv, EnterStep(w)
    PROVE  UndoIInv'
<1> DEFINE i == idx[w]
           inst == IF mode[w] = "start"
                   THEN [mem[w] EXCEPT !.current = i, !.status[i] = "running"]
                   ELSE mem[w]
<1>1. pc[w] = "loop"
    BY DEF EnterStep
<1>2. /\ saved # NoInst /\ saved \in Instance /\ mem[w] \in Instance
      /\ Told(saved, world) /\ AtWork(w) /\ saved.current \in Int /\ mem[w].current \in Int
    BY <1>1, WorkingCall
<1>3. i \in Step /\ i \in 0 .. N
    BY SagaAssumption DEF EnterStep, IInv, Working, Fits, Step
<1>4. /\ {saved.state, mem[w].state} \subseteq {"started", "forwarding"}
      /\ mode[w] \in {"start", "resume"} /\ saved.current <= mem[w].current
      /\ mem[w].current <= i /\ (mode[w] = "resume" => mem[w].current = i)
      /\ async => mode[w] = "resume" /\ mem[w].current = saved.current
      /\ Told(mem[w], world)
    BY <1>1, <1>2 DEF AtWork
<1>5. inst.current = i /\ inst.state = mem[w].state
    BY <1>2, <1>4 DEF Instance
<1>6. Told(inst, world)
    BY <1>2, <1>3, <1>4, ToldResult DEF StepStatus
<1>7. /\ saved' \in {saved, inst} /\ Keep(w, inst) /\ Goto(w, "execute", i)
      /\ world' = world /\ mode' = [mode EXCEPT ![w] = mode[w]] /\ UNCHANGED envVars
      /\ mode[w] # "start" => saved' = saved
    BY SaveOutcome DEF EnterStep, Keep, IInv, TypeOK
<1>8. pc'[w] = "execute" /\ idx'[w] = i /\ mem'[w] = inst /\ mode'[w] = mode[w]
    BY <1>7 DEF Goto, Keep, IInv, TypeOK
<1>9. inst # NoInst /\ i \in Int
  <2>1. inst \in Instance
      BY <1>2, <1>3 DEF Instance, StepStatus
  <2> QED
      BY <1>3, <2>1, SagaAssumption
<1> HIDE DEF inst, i
<1>10. AtWork(w)'
    BY <1>2, <1>4, <1>5, <1>6, <1>7, <1>8, <1>9 DEF AtWork, Told, envVars
<1>11. saved' # NoInst /\ Told(saved', world')
    BY <1>2, <1>6, <1>7, <1>9
<1> QED
    BY <1>7, <1>10, <1>11, CallKeepsUndo DEF Label

\* A call that returns leaves a store that tells the truth.
LEMMA ReturnKeepsUndo ==
    ASSUME NEW w, Worker = {w}, IInv, UndoIInv, Return(w), UNCHANGED envVars,
           saved' # NoInst, Told(saved', world')
    PROVE  UndoIInv'
    BY CallKeepsUndo DEF Return, Label

LEMMA CompleteUndo ==
    ASSUME NEW w, Worker = {w}, IInv, UndoIInv, Complete(w)
    PROVE  UndoIInv'
<1> DEFINE inst == [mem[w] EXCEPT !.state = "completed"]
<1>1. pc[w] = "loop"
    BY DEF Complete
<1>2. /\ saved # NoInst /\ saved \in Instance /\ mem[w] \in Instance
      /\ Told(saved, world) /\ AtWork(w)
    BY <1>1, WorkingCall
<1>3. Told(inst, world)
    BY <1>2, ToldInState DEF AtWork, SagaState
<1>4. inst \in Instance
    BY <1>2 DEF Instance, SagaState
<1>5. saved' \in {saved, inst} /\ Return(w) /\ world' = world /\ UNCHANGED envVars
    BY SaveOutcome DEF Complete
<1> HIDE DEF inst
<1> QED
    BY <1>2, <1>3, <1>4, <1>5, SagaAssumption, ReturnKeepsUndo

LEMMA ExecuteOkUndo ==
    ASSUME NEW w, Worker = {w}, IInv, UndoIInv, ExecuteOk(w)
    PROVE  UndoIInv'
<1> DEFINE i == idx[w]
           result == [mem[w] EXCEPT !.status[i] = "completed"]
           inst == IF mode[w] = "start" THEN result ELSE [result EXCEPT !.current = i + 1]
<1>1. pc[w] = "execute" /\ ~async
    BY DEF ExecuteOk
<1>2. /\ saved # NoInst /\ saved \in Instance /\ mem[w] \in Instance
      /\ Told(saved, world) /\ AtWork(w) /\ saved.current \in Int /\ mem[w].current \in Int
      /\ world \in [Step -> Effect]
    BY <1>1, WorkingCall
<1>3. i \in Step /\ i + 1 \in 0 .. N /\ i \in Int
    BY <1>1, SagaAssumption DEF IInv, Working, Fits, Step
<1>4. /\ ~async /\ {saved.state, mem[w].state} \subseteq {"started", "forwarding"}
      /\ mode[w] \in {"start", "resume"} /\ saved.current <= mem[w].current
      /\ mem[w].current = i /\ Told(mem[w], world)
    BY <1>1, <1>2 DEF AtWork
<1>5. /\ world' = [world EXCEPT ![i] = "done"] /\ UNCHANGED envVars
      /\ saved' \in {saved, result} /\ (mode[w] # "start" => saved' = saved)
      /\ Keep(w, inst) /\ Goto(w, "loop", i + 1) /\ mode' = [mode EXCEPT ![w] = mode[w]]
    BY SaveOutcome DEF ExecuteOk, IInv, TypeOK
<1>6. Told(saved, world') /\ Told(mem[w], world')
  <2>1. "done" \in Effect /\ i >= saved.current /\ i >= mem[w].current
      BY <1>2, <1>3, <1>4 DEF Effect
  <2> QED
      BY <1>2, <1>3, <1>4, <1>5, <2>1, ToldWorld
<1>7. Told(result, world') /\ Told([result EXCEPT !.current = i + 1], world')
  <2>1. /\ "completed" \in StepStatus \ {"compensated"}
        /\ mem[w].state # "compensating" /\ mem[w].current <= i + 1
      BY <1>3, <1>4 DEF StepStatus
  <2> QED
      BY <1>2, <1>3, <1>6, <2>1, ToldResult
<1>8. /\ result \in Instance /\ result.current = i /\ result.state = mem[w].state
      /\ inst.current \in {i, i + 1} /\ inst.state = mem[w].state
      /\ (mode[w] # "start" => inst.current = i + 1)
    BY <1>2, <1>3, <1>4 DEF Instance, StepStatus
<1>9. pc'[w] = "loop" /\ idx'[w] = i + 1 /\ mem'[w] = inst /\ mode'[w] = mode[w]
    BY <1>5 DEF Goto, Keep, IInv, TypeOK
<1>10. Told(inst, world')
    BY <1>7
<1> HIDE DEF inst, i, result
<1>11. AtWork(w)'
    BY <1>2, <1>3, <1>4, <1>5, <1>8, <1>9, <1>10 DEF AtWork, Told, envVars
<1>12. saved' # NoInst /\ Told(saved', world')
    BY <1>2, <1>5, <1>6, <1>7, <1>8, SagaAssumption
<1> QED
    BY <1>5, <1>11, <1>12, CallKeepsUndo DEF Label

LEMMA ExecuteErrUndo ==
    ASSUME NEW w, Worker = {w}, IInv, UndoIInv, ExecuteErr(w)
    PROVE  UndoIInv'
<1> DEFINE i == idx[w]
           inst == IF mode[w] = "start"
                   THEN [mem[w] EXCEPT !.status[i] = "failed"]
                   ELSE mem[w]
<1>1. pc[w] = "execute" /\ ~async
    BY DEF ExecuteErr
<1>2. /\ saved # NoInst /\ saved \in Instance /\ mem[w] \in Instance
      /\ Told(saved, world) /\ AtWork(w) /\ saved.current \in Int /\ mem[w].current \in Int
      /\ world \in [Step -> Effect]
    BY <1>1, WorkingCall
<1>3. i \in Step /\ i \in Int /\ \A j \in Compensable : j \in Int
  <2>1. i \in Step
      BY <1>1 DEF IInv, Working, Fits
  <2> QED
      BY <2>1, SagaAssumption DEF Step
<1>4. /\ ~async /\ {saved.state, mem[w].state} \subseteq {"started", "forwarding"}
      /\ mode[w] \in {"start", "resume"} /\ saved.current <= mem[w].current
      /\ mem[w].current = i /\ Told(mem[w], world)
    BY <1>1, <1>2 DEF AtWork
<1>5. /\ world' = AfterError(i) /\ UNCHANGED envVars /\ saved' = saved
      /\ Keep(w, inst) /\ Goto(w, "compensate", i - 1)
      /\ mode' = [mode EXCEPT ![w] = mode[w]]
    BY DEF ExecuteErr, Keep, IInv, TypeOK
<1>6. Told(saved, world') /\ Told(mem[w], world')
  <2>1. PICK e \in Effect : world' = [world EXCEPT ![i] = e]
      BY <1>2, <1>3, <1>5 DEF AfterError, Effect
  <2>2. i >= saved.current /\ i >= mem[w].current
      BY <1>2, <1>3, <1>4
  <2> QED
      BY <1>2, <1>3, <1>4, <2>1, <2>2, ToldWorld
<1>7. Told(inst, world') /\ inst.current = i /\ inst.state = mem[w].state
    BY <1>2, <1>3, <1>4, <1>6, ToldResult DEF StepStatus, Instance
<1>8. pc'[w] = "compensate" /\ idx'[w] = i - 1 /\ mem'[w] = inst /\ mode'[w] = mode[w]
    BY <1>5 DEF Goto, Keep, IInv, TypeOK
<1> HIDE DEF inst, i
<1>9. AtWork(w)'
    BY <1>2, <1>3, <1>4, <1>5, <1>7, <1>8 DEF AtWork, Told, envVars
<1> QED
    BY <1>2, <1>5, <1>6, <1>9, CallKeepsUndo DEF Label

\* A recovery that finds nothing to run is where the store is.
LEMMA ExecuteNilUndo ==
    ASSUME NEW w, Worker = {w}, IInv, UndoIInv, ExecuteNil(w)
    PROVE  UndoIInv'
<1> DEFINE i == idx[w]
<1>1. pc[w] = "execute"
    BY DEF ExecuteNil
<1>2. /\ saved # NoInst /\ Told(saved, world) /\ AtWork(w)
      /\ mem[w].current \in Int /\ idx[w] \in Int
    BY <1>1, WorkingCall
<1>3. /\ world' = world /\ saved' = saved /\ UNCHANGED envVars /\ Keep(w, mem[w])
      /\ Goto(w, "compensate", i - 1) /\ mode' = [mode EXCEPT ![w] = mode[w]]
    BY DEF ExecuteNil, Keep, IInv, TypeOK
<1>4. /\ pc'[w] = "compensate" /\ idx'[w] = i - 1 /\ mem'[w] = mem[w] /\ mode'[w] = mode[w]
    BY <1>3 DEF Goto, Keep, IInv, TypeOK
<1>5. \A j \in Compensable : j \in Int
    BY SagaAssumption DEF Step
<1>6. AtWork(w)'
    BY <1>1, <1>2, <1>3, <1>4, <1>5 DEF AtWork, Told, envVars
<1> QED
    BY <1>2, <1>3, <1>6, CallKeepsUndo DEF Label

LEMMA SkipCompensateUndo ==
    ASSUME NEW w, Worker = {w}, IInv, UndoIInv, SkipCompensate(w)
    PROVE  UndoIInv'
<1>1. pc[w] = "compensate" /\ idx[w] \notin Compensable
    BY DEF SkipCompensate
<1>2. /\ saved # NoInst /\ Told(saved, world) /\ AtWork(w)
      /\ mem[w].current \in Int /\ idx[w] \in Int
    BY <1>1, WorkingCall
<1>3. /\ world' = world /\ saved' = saved /\ UNCHANGED envVars /\ Keep(w, mem[w])
      /\ Goto(w, "compensate", idx[w] - 1) /\ mode' = [mode EXCEPT ![w] = mode[w]]
    BY DEF SkipCompensate, Keep, IInv, TypeOK
<1>4. /\ pc'[w] = "compensate" /\ idx'[w] = idx[w] - 1 /\ mem'[w] = mem[w]
      /\ mode'[w] = mode[w]
    BY <1>3 DEF Goto, Keep, IInv, TypeOK
<1>5. \A i \in Compensable : i \in Int
    BY SagaAssumption DEF Step
<1>6. AtWork(w)'
    BY <1>1, <1>2, <1>3, <1>4, <1>5 DEF AtWork, Told, envVars
<1> QED
    BY <1>2, <1>3, <1>6, CallKeepsUndo DEF Label

LEMMA CompensateOkUndo ==
    ASSUME NEW w, Worker = {w}, IInv, UndoIInv, CompensateOk(w)
    PROVE  UndoIInv'
<1> DEFINE i == idx[w]
           inst == [mem[w] EXCEPT !.status[i] = "compensated"]
<1>1. pc[w] = "compensate"
    BY DEF CompensateOk, Undoing
<1>2. /\ saved # NoInst /\ saved \in Instance /\ mem[w] \in Instance
      /\ Told(saved, world) /\ AtWork(w) /\ saved.current \in Int /\ mem[w].current \in Int
      /\ world \in [Step -> Effect]
    BY <1>1, WorkingCall
<1>3. i \in Step /\ i \in Int /\ (\A j \in Compensable : j \in Int /\ j \in Step)
    BY InCompensate, SagaAssumption DEF CompensateOk, Undoing, Step
<1>4. i < mem[w].current /\ Told(mem[w], world)
    BY <1>1, <1>2 DEF AtWork
<1>5. /\ world' = [world EXCEPT ![i] = "undone"] /\ UNCHANGED envVars
      /\ saved' \in {saved, inst} /\ Keep(w, inst) /\ Goto(w, "compensate", i - 1)
      /\ mode' = [mode EXCEPT ![w] = mode[w]]
    BY SaveOutcome DEF CompensateOk, IInv, TypeOK
<1>6. Told(saved, world') /\ Told(mem[w], world')
  <2>1. "undone" \in Effect
      BY DEF Effect
  <2> QED
      BY <1>2, <1>3, <1>4, <1>5, <2>1, ToldWorld
<1>7. /\ inst \in Instance /\ inst.current = mem[w].current /\ inst.state = mem[w].state
      /\ \A j \in Step : inst.status[j] = IF j = i THEN "compensated" ELSE mem[w].status[j]
    BY <1>2, <1>3 DEF Instance, StepStatus
<1>8. world'[i] = "undone" /\ \A j \in Step : j # i => world'[j] = world[j]
    BY <1>2, <1>3, <1>5
<1> HIDE DEF inst, i
<1>9. Told(inst, world')
    BY <1>4, <1>6, <1>7, <1>8 DEF Told
<1>10. pc'[w] = "compensate" /\ idx'[w] = i - 1 /\ mem'[w] = inst /\ mode'[w] = mode[w]
    BY <1>5 DEF Goto, Keep, IInv, TypeOK
<1>11. saved'.current = saved.current \/ saved'.current = mem[w].current
    BY <1>5, <1>7
<1>12. AtWork(w)'
  <2>1. saved'.current <= inst.current
      BY <1>1, <1>2, <1>7, <1>11 DEF AtWork
  <2>2. /\ mode'[w] \in {"start", "resume"} =>
               {saved'.state, mem'[w].state} \subseteq {"started", "forwarding"}
        /\ async' => mode'[w] # "start"
                     /\ (mode'[w] = "resume" => mem'[w].current = saved'.current)
        /\ mode'[w] \notin {"start", "resume"} => mem'[w].current = saved'.current
      BY <1>1, <1>2, <1>5, <1>7, <1>10, <1>11 DEF AtWork, envVars
  <2>3. /\ idx'[w] < mem'[w].current
        /\ \A j \in Compensable : idx'[w] < j /\ j < mem'[w].current => world'[j] = "undone"
      BY <1>1, <1>2, <1>3, <1>4, <1>7, <1>8, <1>10 DEF AtWork, i
  <2> QED
      BY <1>5, <1>9, <1>10, <2>1, <2>2, <2>3 DEF AtWork, Told, envVars
<1>13. saved' # NoInst /\ Told(saved', world')
    BY <1>2, <1>5, <1>6, <1>7, <1>9, SagaAssumption
<1> QED
    BY <1>5, <1>12, <1>13, CallKeepsUndo DEF Label

LEMMA CompensateErrUndo ==
    ASSUME NEW w, Worker = {w}, IInv, UndoIInv, CompensateErr(w)
    PROVE  UndoIInv'
<1> DEFINE i == idx[w]
           inst == [mem[w] EXCEPT !.status[i] = "compensated", !.state = "failed"]
<1>1. pc[w] = "compensate"
    BY DEF CompensateErr, Undoing
<1>2. /\ saved # NoInst /\ saved \in Instance /\ mem[w] \in Instance
      /\ Told(saved, world) /\ AtWork(w) /\ world \in [Step -> Effect]
    BY <1>1, WorkingCall
<1>3. i \in Step
    BY InCompensate DEF CompensateErr, Undoing
<1>4. i < mem[w].current /\ Told(mem[w], world)
    BY <1>1, <1>2 DEF AtWork
<1>5. /\ world' = [world EXCEPT ![i] = IF world[i] = "undone" THEN "undone" ELSE "doubtful"]
      /\ UNCHANGED envVars /\ saved' \in {saved, inst} /\ Return(w)
    BY <1>2, <1>3, SaveOutcome DEF CompensateErr
<1>6. PICK e \in Effect : /\ world' = [world EXCEPT ![i] = e]
                          /\ e = "undone" \/ (world[i] # "undone" /\ e = "doubtful")
    BY <1>5 DEF Effect
<1>7. Told(saved, world') /\ Told(mem[w], world')
    BY <1>2, <1>3, <1>4, <1>6, ToldWorld
<1>8. /\ inst \in Instance /\ inst.current = mem[w].current /\ inst.state = "failed"
      /\ \A j \in Step : inst.status[j] = IF j = i THEN "compensated" ELSE mem[w].status[j]
    BY <1>2, <1>3 DEF Instance, StepStatus, SagaState
<1>9. world'[i] \in {"undone", "doubtful"}
    BY <1>2, <1>3, <1>5
<1> HIDE DEF inst, i
<1>10. Told(inst, world')
    BY <1>4, <1>7, <1>8, <1>9 DEF Told
<1>11. saved' # NoInst /\ Told(saved', world')
    BY <1>2, <1>5, <1>7, <1>8, <1>10, SagaAssumption
<1> QED
    BY <1>5, <1>11, ReturnKeepsUndo

LEMMA SettleUndo ==
    ASSUME NEW w, Worker = {w}, IInv, UndoIInv, Settle(w)
    PROVE  UndoIInv'
<1> DEFINE inst == [mem[w] EXCEPT !.state = "compensating"]
<1>1. pc[w] = "compensate" /\ idx[w] < 0
    BY DEF Settle, UndoneAll
<1>2. /\ saved # NoInst /\ saved \in Instance /\ mem[w] \in Instance
      /\ Told(saved, world) /\ AtWork(w) /\ idx[w] \in Int
    BY <1>1, WorkingCall
<1>3. /\ inst \in Instance /\ inst.current = mem[w].current /\ inst.status = mem[w].status
    BY <1>2 DEF Instance, SagaState
<1>4. Told(inst, world)
  <2>1. \A i \in Compensable : idx[w] < i
      BY <1>1, <1>2, SagaAssumption DEF Step
  <2> QED
      BY <1>1, <1>2, <1>3, <2>1 DEF AtWork, Told
<1>5. saved' \in {saved, inst} /\ Return(w) /\ world' = world /\ UNCHANGED envVars
    BY SaveOutcome DEF Settle
<1> HIDE DEF inst
<1> QED
    BY <1>2, <1>3, <1>4, <1>5, SagaAssumption, ReturnKeepsUndo

LEMMA ResumeUndo ==
    ASSUME NEW w, Worker = {w}, IInv, UndoIInv, Resume(w)
    PROVE  UndoIInv'
<1>1. /\ pc[w] = "idle" /\ saved # NoInst /\ saved.state = "forwarding"
      /\ saved' = saved /\ world' = world /\ UNCHANGED envVars
      /\ Goto(w, "loop", saved.current) /\ Keep(w, saved)
      /\ mode' = [mode EXCEPT ![w] = "resume"]
    BY DEF Resume, Stored, Call
<1>2. /\ pc'[w] = "loop" /\ idx'[w] = saved.current /\ mem'[w] = saved
      /\ mode'[w] = "resume"
    BY <1>1 DEF Goto, Keep, IInv, TypeOK
<1>3. Told(saved, world) /\ saved.current \in Int
    BY <1>1, SagaAssumption DEF UndoIInv, SavedTold, IInv, TypeOK, Instance
<1>4. AtWork(w)'
    BY <1>1, <1>2, <1>3 DEF AtWork, Told, envVars
<1> QED
    BY <1>1, <1>3, <1>4, CallKeepsUndo DEF Label

\* A report of success moves a saga that has ended in failure, and is late then.
LEMMA AdvanceOkUndo ==
    ASSUME NEW w, Worker = {w}, IInv, UndoIInv, NEW i \in Step, AdvanceOk(w, i)
    PROVE  UndoIInv'
<1> DEFINE inst == Advanced(saved, i)
<1>1. /\ pc[w] = "idle" /\ <<i, "ok">> \in reports /\ i = saved.current
      /\ saved' = saved /\ world' = world /\ UNCHANGED <<async, reports>>
      /\ late' = (late \/ saved.state \in {"compensating", "failed"})
      /\ Goto(w, "report", i) /\ Keep(w, inst) /\ mode' = [mode EXCEPT ![w] = "advance"]
    BY DEF AdvanceOk, Call
<1>2. async /\ saved # NoInst
    BY <1>1 DEF UndoIInv, Reported, IInv, ReportsSound
<1>3. saved \in Instance /\ Told(saved, world)
    BY <1>2 DEF UndoIInv, SavedTold, IInv, TypeOK
<1>4. late => late'
    BY <1>1
<1>5. /\ saved.current \in Int /\ inst.current = saved.current + 1
      /\ inst.state = "compensating" => late'
      /\ \A j \in Step : inst.status[j] = IF j = i THEN "completed" ELSE saved.status[j]
      /\ \A j \in Step : j \in Int
  <2>1. inst.state \in {"completed", saved.state}
      BY DEF Advanced
  <2>2. inst.state = "compensating" => late'
      BY <1>1, <2>1
  <2> QED
      BY <1>3, <2>2, SagaAssumption DEF Advanced, Instance, Step
<1> HIDE DEF inst
<1>6. \A j \in Step : inst.status[j] = "compensated" =>
          j < inst.current /\ world[j] \in {"undone", "doubtful"}
    BY <1>3, <1>5 DEF Told
<1>7. pc'[w] = "report" /\ mem'[w] = inst /\ mode'[w] = "advance"
    BY <1>1 DEF Goto, Keep, IInv, TypeOK
<1>8. Told(mem[w], world)'
    BY <1>1, <1>5, <1>6, <1>7 DEF Told
<1>9. AtWork(w)'
    BY <1>1, <1>2, <1>5, <1>7, <1>8 DEF AtWork
<1> QED
    BY <1>1, <1>2, <1>3, <1>4, <1>9, CallKeepsUndo DEF Label

LEMMA AdvanceErrUndo ==
    ASSUME NEW w, Worker = {w}, IInv, UndoIInv, NEW i \in Step, AdvanceErr(w, i)
    PROVE  UndoIInv'
<1> DEFINE inst == [saved EXCEPT !.status[i] = "failed"]
<1>1. /\ pc[w] = "idle" /\ <<i, "error">> \in reports /\ i = saved.current
      /\ saved' = saved /\ world' = world /\ UNCHANGED envVars
      /\ Goto(w, "compensate", i - 1) /\ Keep(w, inst)
      /\ mode' = [mode EXCEPT ![w] = "advance"]
    BY DEF AdvanceErr, Call
<1>2. async /\ saved # NoInst
    BY <1>1 DEF UndoIInv, Reported, IInv, ReportsSound
<1>3. saved \in Instance /\ Told(saved, world)
    BY <1>2 DEF UndoIInv, SavedTold, IInv, TypeOK
<1>4. inst.current = saved.current /\ Told(inst, world)
    BY <1>3, ToldResult DEF Instance, StepStatus
<1>5. /\ i \in Int /\ \A j \in Compensable : j \in Int
    BY SagaAssumption DEF Step
<1> HIDE DEF inst
<1>6. pc'[w] = "compensate" /\ idx'[w] = i - 1 /\ mem'[w] = inst /\ mode'[w] = "advance"
    BY <1>1 DEF Goto, Keep, IInv, TypeOK
<1>7. AtWork(w)'
    BY <1>1, <1>4, <1>5, <1>6 DEF AtWork, Told, envVars
<1> QED
    BY <1>1, <1>2, <1>3, <1>7, CallKeepsUndo DEF Label

LEMMA SaveAdvancedUndo ==
    ASSUME NEW w, Worker = {w}, IInv, UndoIInv, SaveAdvanced(w)
    PROVE  UndoIInv'
<1>1. pc[w] = "report"
    BY DEF SaveAdvanced
<1>2. /\ saved # NoInst /\ mem[w] \in Instance /\ Told(saved, world) /\ AtWork(w)
    BY <1>1, WorkingCall
<1>3. saved' \in {saved, mem[w]} /\ Return(w) /\ world' = world /\ UNCHANGED envVars
    BY SaveOutcome DEF SaveAdvanced
<1> QED
    BY <1>2, <1>3, SagaAssumption, ReturnKeepsUndo DEF AtWork

\* The step a process died in takes nothing back that the store counts as undone.
LEMMA CrashUndo ==
    ASSUME NEW w, Worker = {w}, IInv, UndoIInv, Crash(w)
    PROVE  UndoIInv'
<1>1. pc[w] # "idle" /\ Return(w) /\ saved' = saved /\ UNCHANGED envVars
    BY DEF Crash
<1>2. /\ saved # NoInst /\ saved \in Instance /\ Told(saved, world) /\ AtWork(w)
      /\ saved.current \in Int /\ mem[w].current \in Int /\ world \in [Step -> Effect]
    BY <1>1, WorkingCall
<1>3. Told(saved, world')
  <2>1. CASE UNCHANGED world
      BY <1>2, <2>1
  <2>2. CASE pc[w] = "execute" /\ world' = [world EXCEPT ![idx[w]] = "done"]
    <3>1. idx[w] \in Step /\ idx[w] >= saved.current /\ "done" \in Effect
        BY <1>2, <2>2 DEF IInv, Working, Fits, AtWork, Effect
    <3> QED
        BY <1>2, <2>2, <3>1, ToldWorld
  <2>3. CASE Undoing(w) /\ world' = [world EXCEPT ![idx[w]] = "undone"]
    <3>1. idx[w] \in Step /\ "undone" \in Effect
        BY <2>3, InCompensate DEF Undoing, Effect
    <3> QED
        BY <1>2, <2>3, <3>1, ToldWorld
  <2> QED
      BY <2>1, <2>2, <2>3 DEF Crash
<1> QED
    BY <1>1, <1>2, <1>3, ReturnKeepsUndo

LEMMA EnrollUndo ==
    ASSUME NEW w, Worker = {w}, IInv, UndoIInv, Enroll
    PROVE  UndoIInv'
<1> DEFINE inst == [NewInst EXCEPT !.state = "forwarding"]
<1>1. /\ saved' = inst /\ UNCHANGED <<reports, late, world, callVars>> /\ saved = NoInst
      /\ async' = TRUE
    BY DEF Enroll
<1>2. inst # NoInst /\ inst.state = "forwarding" /\ \A i \in Step : inst.status[i] = "pending"
    BY FreshSound, SagaAssumption DEF SoundIn, NewInst
<1> HIDE DEF inst
<1>3. Told(inst, world)
    BY <1>2 DEF Told
<1>4. Fresh' /\ SavedTold'
    BY <1>1, <1>2, <1>3 DEF Fresh, SavedTold, Told
<1>5. Reported'
    BY <1>1 DEF Reported
<1>6. AllAtWork'
    BY <1>1 DEF UndoIInv, Fresh, AllAtWork, callVars
<1> QED
    BY <1>4, <1>5, <1>6 DEF UndoIInv

\* A service that runs the current step for the first time undoes nothing.
LEMMA ServeUndo ==
    ASSUME NEW w, Worker = {w}, IInv, UndoIInv,
           NEW i \in Step, Asked(i),
           NEW e \in {"done", "doubtful"}, world' = [world EXCEPT ![i] = e],
           UNCHANGED <<saved, callVars, async, late>>
    PROVE  UndoIInv'
<1>1. async /\ saved # NoInst /\ world[i] = "none" /\ world \in [Step -> Effect]
    BY DEF Asked, IInv, ReportsSound, TypeOK
<1>2. \A inst : Told(inst, world) => Told(inst, world')
    BY <1>1, SagaAssumption DEF Told
<1>3. Fresh' /\ SavedTold'
    BY <1>1, <1>2 DEF Fresh, SavedTold, Told, UndoIInv
<1>4. Reported'
    BY <1>1 DEF Reported
<1>5. AllAtWork'
  <2> SUFFICES ASSUME pc'[w] # "idle" PROVE AtWork(w)'
      BY DEF UndoIInv, AllAtWork, callVars
  <2>1. pc[w] # "idle" /\ AtWork(w)
      BY DEF UndoIInv, AllAtWork, callVars
  <2>2. \A j \in Step : world[j] = "undone" => world'[j] = "undone"
      BY <1>1
  <2>3. Compensable \subseteq Step
      BY SagaAssumption
  <2>4. Told(mem[w], world)'
      BY <1>2, <2>1 DEF AtWork, Told, callVars
  <2> QED
      BY <2>1, <2>2, <2>3, <2>4 DEF AtWork, callVars
<1> QED
    BY <1>3, <1>4, <1>5 DEF UndoIInv

LEMMA NextUndo ==
    ASSUME NEW w, Worker = {w}, IInv, UndoIInv, [Next]_vars
    PROVE  UndoIInv'
<1>1. CASE UNCHANGED vars
    BY <1>1 DEF vars, callVars, envVars, UndoIInv, Fresh, SavedTold, Told, Reported, AllAtWork,
                AtWork
<1>2. CASE \/ Start(w) \/ Resume(w) \/ Advance(w)
           \/ CallStep(w) \/ ExecuteErr(w) \/ CompensateErr(w) \/ Crash(w)
    BY <1>2, StartUndo, ResumeUndo, AdvanceOkUndo, AdvanceErrUndo, BeginUndo, EnterStepUndo,
       CompleteUndo, ExecuteOkUndo, ExecuteNilUndo, SkipCompensateUndo, CompensateOkUndo, SettleUndo,
       SaveAdvancedUndo, ExecuteErrUndo, CompensateErrUndo, CrashUndo DEF Advance, CallStep
<1>3. ASSUME NEW i \in Step, ServeOk(i) PROVE UndoIInv'
    BY <1>3, ServeUndo DEF ServeOk
<1>4. ASSUME NEW i \in Step, ServeErr(i) PROVE UndoIInv'
  <2>1. world' = [world EXCEPT ![i] = "doubtful"]
      BY <1>4 DEF ServeErr, Asked, AfterError
  <2> QED
      BY <1>4, <2>1, ServeUndo DEF ServeErr
<1> QED
    BY <1>1, <1>2, <1>3, <1>4, EnrollUndo DEF Next

\* No progress was lost: nothing was saved in vain, and the one crash there may
\* have been was before any recovery.
Calm == crashes <= 1 /\ lostSaves = 0

NoneAbove(inst, W) == \A i \in Step : i > inst.current => W[i] = "none"

\* Then no step behind CurrentStep was begun, but by the one recovery that runs.
CalmIInv ==
    Calm =>
        /\ \A w \in Worker : pc[w] # "idle" => NoneAbove(mem[w], world)
        /\ saved # NoInst /\ (async \/ \A w \in Worker : mode[w] # "resume") =>
               NoneAbove(saved, world)
        /\ \A w \in Worker : mode[w] = "resume" => crashes = 1 \/ async
        /\ \A w \in Worker : mode[w] = "start" => saved.current = mem[w].current
        /\ crashes = 0 /\ ~async /\ (\A w \in Worker : pc[w] = "idle") => ~Stored("forwarding")

\* What a step of the only call has to show, while it is calm.
LEMMA CallKeepsCalm ==
    ASSUME NEW w, Worker = {w}, IInv,
           NEW label \in Label, NEW i, NEW inst, NEW m,
           Goto(w, label, i), Keep(w, inst), mode' = [mode EXCEPT ![w] = m],
           UNCHANGED envVars \/ async' = async,
           Calm' => /\ IF label = "idle" THEN m = "none" ELSE NoneAbove(inst, world')
                    /\ m # "resume" \/ async => NoneAbove(saved', world')
                    /\ m = "resume" => crashes' = 1 \/ async
                    /\ m = "start" => saved'.current = inst.current
                    /\ crashes' = 0 /\ ~async /\ label = "idle" => saved'.state # "forwarding"
    PROVE  CalmIInv'
<1>1. pc'[w] = label /\ mode'[w] = m /\ mem'[w] = inst
    BY DEF IInv, TypeOK, Goto, Keep
<1> QED
    BY <1>1 DEF CalmIInv, Stored, envVars

\* A Save that is not lost.
LEMMA CalmSave ==
    ASSUME IInv, NEW inst, TrySave(inst), Calm'
    PROVE  saved' = inst /\ lostSaves = 0
    BY SagaAssumption DEF TrySave, Calm, IInv, TypeOK

\* What the only call knows while it is calm.
LEMMA CalmCall ==
    ASSUME NEW w, Worker = {w}, IInv, UndoIInv, CalmIInv, Calm, pc[w] # "idle"
    PROVE  /\ NoneAbove(mem[w], world)
           /\ mode[w] # "resume" \/ async => NoneAbove(saved, world)
           /\ mode[w] = "resume" => crashes = 1 \/ async
           /\ mode[w] = "start" => saved.current = mem[w].current
           /\ \A j \in Step : j \in Int
<1>1. saved # NoInst
    BY WorkingCall
<1> QED
    BY <1>1, SagaAssumption DEF CalmIInv, Step

\* Begin, the head of the loop, and what ends a call without touching a service.
LEMMA ForwardCalm ==
    ASSUME NEW w, Worker = {w}, IInv, UndoIInv, CalmIInv,
           Begin(w) \/ EnterStep(w) \/ Complete(w) \/ Settle(w) \/ SaveAdvanced(w)
    PROVE  CalmIInv'
<1>1. pc[w] # "idle" /\ UNCHANGED <<world, envVars, crashes>>
    BY DEF Begin, EnterStep, Complete, Settle, SaveAdvanced
<1>2. Calm' => Calm
    BY <1>1, CalmSave DEF Begin, EnterStep, Complete, Settle, SaveAdvanced, Calm
<1>3. /\ saved # NoInst /\ mem[w] \in Instance /\ AtWork(w)
      /\ mem[w].current \in Int /\ idx[w] \in Int
    BY <1>1, WorkingCall
<1>4. Calm' => /\ NoneAbove(mem[w], world)
               /\ mode[w] # "resume" \/ async => NoneAbove(saved, world)
               /\ mode[w] = "resume" => crashes = 1 \/ async
               /\ mode[w] = "start" => saved.current = mem[w].current
               /\ \A j \in Step : j \in Int
    BY <1>1, <1>2, CalmCall
<1>5. CASE Begin(w)
  <2> DEFINE inst == [mem[w] EXCEPT !.state = "forwarding"]
  <2>1. inst.current = mem[w].current
      BY <1>3 DEF Instance
  <2>2. /\ Calm' => saved' = inst
        /\ Keep(w, inst) /\ Goto(w, "loop", 0) /\ mode' = [mode EXCEPT ![w] = mode[w]]
      BY <1>5, CalmSave DEF Begin, IInv, TypeOK
  <2> HIDE DEF inst
  <2>3. Calm' => NoneAbove(inst, world')
      BY <1>1, <1>4, <2>1 DEF NoneAbove
  <2> QED
      BY <1>1, <1>4, <2>2, <2>3, CallKeepsCalm DEF Label
<1>6. CASE EnterStep(w)
  <2> DEFINE inst == IF mode[w] = "start"
                     THEN [mem[w] EXCEPT !.current = idx[w], !.status[idx[w]] = "running"]
                     ELSE mem[w]
  <2>1. mode[w] = "start" => inst.current = idx[w]
      BY <1>3 DEF Instance
  <2>2. mem[w].current <= idx[w] /\ mode[w] \in {"start", "resume"}
      BY <1>3, <1>6 DEF AtWork, EnterStep
  <2>3. /\ Calm' => saved' = IF mode[w] = "start" THEN inst ELSE saved
        /\ Keep(w, inst) /\ Goto(w, "execute", idx[w]) /\ mode' = [mode EXCEPT ![w] = mode[w]]
      BY <1>6, CalmSave DEF EnterStep, Keep, IInv, TypeOK
  <2>4. Calm' => NoneAbove(inst, world')
      BY <1>1, <1>3, <1>4, <2>1, <2>2 DEF NoneAbove
  <2> HIDE DEF inst
  <2> QED
      BY <1>1, <1>4, <2>2, <2>3, <2>4, CallKeepsCalm DEF Label
<1>7. CASE Complete(w) \/ Settle(w) \/ SaveAdvanced(w)
  <2>1. Calm' => /\ saved'.current = mem[w].current
                 /\ ~async => saved'.state # "forwarding"
    <3>1. CASE Complete(w)
        BY <1>3, <3>1, CalmSave DEF Complete, Instance
    <3>2. CASE Settle(w)
        BY <1>3, <3>2, CalmSave DEF Settle, Instance
    <3>3. CASE SaveAdvanced(w)
        BY <1>3, <3>3, CalmSave DEF SaveAdvanced, AtWork
    <3> QED
        BY <1>7, <3>1, <3>2, <3>3
  <2>2. /\ Goto(w, "idle", 0) /\ Keep(w, NoInst) /\ mode' = [mode EXCEPT ![w] = "none"]
      BY <1>7 DEF Complete, Settle, SaveAdvanced, Return
  <2>3. Calm' => NoneAbove(saved', world')
      BY <1>1, <1>4, <2>1 DEF NoneAbove
  <2> QED
      BY <1>1, <2>1, <2>2, <2>3, CallKeepsCalm DEF Label
<1> QED
    BY <1>5, <1>6, <1>7

\* Running the current step, or compensating an earlier one, is nothing behind
\* CurrentStep.
LEMMA ServiceCalm ==
    ASSUME NEW w, Worker = {w}, IInv, UndoIInv, CalmIInv,
           \/ ExecuteOk(w) \/ ExecuteErr(w) \/ ExecuteNil(w) \/ SkipCompensate(w)
           \/ CompensateOk(w) \/ CompensateErr(w)
    PROVE  CalmIInv'
<1> DEFINE i == idx[w]
<1>1. pc[w] \in {"execute", "compensate"} /\ UNCHANGED <<envVars, crashes>>
    BY DEF ExecuteOk, ExecuteErr, ExecuteNil, SkipCompensate, CompensateOk, CompensateErr, Undoing
<1>2. Calm' => Calm
    BY <1>1, CalmSave DEF ExecuteOk, ExecuteErr, ExecuteNil, SkipCompensate, CompensateOk,
                          CompensateErr, Calm
<1>3. /\ saved # NoInst /\ mem[w] \in Instance /\ AtWork(w) /\ world \in [Step -> Effect]
      /\ mem[w].current \in Int /\ idx[w] \in Int
    BY <1>1, WorkingCall
<1>4. Calm' => /\ NoneAbove(mem[w], world)
               /\ mode[w] # "resume" \/ async => NoneAbove(saved, world)
               /\ mode[w] = "resume" => crashes = 1 \/ async
               /\ mode[w] = "start" => saved.current = mem[w].current
               /\ \A j \in Step : j \in Int
    BY <1>1, <1>2, CalmCall
<1>5. /\ i <= mem[w].current
      /\ mode[w] \notin {"start", "resume"} => mem[w].current = saved.current
      /\ async /\ mode[w] = "resume" => mem[w].current = saved.current
    BY <1>1, <1>3 DEF AtWork
<1>6. \A j \in Step : j # i => world'[j] = world[j]
    BY <1>3 DEF ExecuteOk, ExecuteErr, ExecuteNil, AfterError, SkipCompensate, CompensateOk,
                CompensateErr
<1>7. Calm' => /\ NoneAbove(mem[w], world')
               /\ mode[w] # "resume" \/ async => saved.current = mem[w].current
    BY <1>3, <1>4, <1>5, <1>6 DEF NoneAbove
<1> HIDE DEF i
<1>8. CASE ExecuteOk(w)
  <2> DEFINE result == [mem[w] EXCEPT !.status[i] = "completed"]
             inst == IF mode[w] = "start" THEN result ELSE [result EXCEPT !.current = i + 1]
  <2>1. /\ Keep(w, inst) /\ Goto(w, "loop", i + 1) /\ mode' = [mode EXCEPT ![w] = mode[w]]
        /\ Calm' => saved' = IF mode[w] = "start" THEN inst ELSE saved
      BY <1>8, CalmSave DEF ExecuteOk, IInv, TypeOK, i
  <2>2. result.current = mem[w].current /\ inst.current \in {mem[w].current, i + 1}
        /\ (mode[w] = "start" => inst.current = mem[w].current)
      BY <1>3 DEF Instance
  <2>3. mem[w].current = i /\ mode[w] \in {"start", "resume"} /\ i \in Int /\ ~async
      BY <1>3, <1>8 DEF ExecuteOk, AtWork, i
  <2> HIDE DEF inst, result
  <2>4. Calm' => NoneAbove(inst, world')
      BY <1>4, <1>7, <2>2, <2>3 DEF NoneAbove
  <2> QED
      BY <1>1, <1>4, <2>1, <2>2, <2>3, <2>4, CallKeepsCalm DEF Label
<1>9. CASE ExecuteErr(w)
  <2> DEFINE inst == IF mode[w] = "start"
                     THEN [mem[w] EXCEPT !.status[i] = "failed"]
                     ELSE mem[w]
  <2>1. /\ Keep(w, inst) /\ Goto(w, "compensate", i - 1) /\ saved' = saved
        /\ mode' = [mode EXCEPT ![w] = mode[w]]
      BY <1>9 DEF ExecuteErr, Keep, IInv, TypeOK, i
  <2>2. inst.current = mem[w].current
      BY <1>3 DEF Instance
  <2> HIDE DEF inst
  <2>3. Calm' => NoneAbove(inst, world')
                 /\ (mode[w] # "resume" \/ async => NoneAbove(saved, world'))
      BY <1>7, <2>2 DEF NoneAbove
  <2> QED
      BY <1>1, <1>4, <2>1, <2>2, <2>3, CallKeepsCalm DEF Label
<1>10. CASE SkipCompensate(w) \/ ExecuteNil(w)
  <2>1. /\ Keep(w, mem[w]) /\ Goto(w, "compensate", i - 1) /\ saved' = saved
        /\ mode' = [mode EXCEPT ![w] = mode[w]]
      BY <1>10 DEF SkipCompensate, ExecuteNil, Keep, IInv, TypeOK, i
  <2>2. Calm' => (mode[w] # "resume" \/ async => NoneAbove(saved, world'))
      BY <1>7 DEF NoneAbove
  <2> QED
      BY <1>1, <1>4, <1>7, <2>1, <2>2, CallKeepsCalm DEF Label
<1>11. CASE CompensateOk(w)
  <2> DEFINE inst == [mem[w] EXCEPT !.status[i] = "compensated"]
  <2>1. /\ Keep(w, inst) /\ Goto(w, "compensate", i - 1) /\ (Calm' => saved' = inst)
        /\ mode' = [mode EXCEPT ![w] = mode[w]]
      BY <1>11, CalmSave DEF CompensateOk, IInv, TypeOK, i
  <2>2. inst.current = mem[w].current
      BY <1>3 DEF Instance
  <2> HIDE DEF inst
  <2>3. Calm' => NoneAbove(inst, world')
      BY <1>7, <2>2 DEF NoneAbove
  <2> QED
      BY <1>1, <1>4, <2>1, <2>3, CallKeepsCalm DEF Label
<1>12. CASE CompensateErr(w)
  <2> DEFINE inst == [mem[w] EXCEPT !.status[i] = "compensated", !.state = "failed"]
  <2>1. /\ Goto(w, "idle", 0) /\ Keep(w, NoInst) /\ mode' = [mode EXCEPT ![w] = "none"]
        /\ Calm' => saved' = inst
      BY <1>12, CalmSave DEF CompensateErr, Return, i
  <2>2. inst.current = mem[w].current /\ inst.state = "failed"
      BY <1>3 DEF Instance
  <2> HIDE DEF inst
  <2>3. Calm' => NoneAbove(inst, world')
      BY <1>7, <2>2 DEF NoneAbove
  <2> QED
      BY <1>1, <2>1, <2>2, <2>3, CallKeepsCalm DEF Label
<1> QED
    BY <1>8, <1>9, <1>10, <1>11, <1>12

\* A call begins where its copy is the store's; a recovery only after a crash.
LEMMA BeginningCalm ==
    ASSUME NEW w, Worker = {w}, IInv, UndoIInv, CalmIInv,
           Start(w) \/ Resume(w) \/ Advance(w)
    PROVE  CalmIInv'
<1>1. /\ pc[w] = "idle" /\ mode[w] = "none" /\ Calm' = Calm
      /\ UNCHANGED <<world, async, crashes>>
    BY DEF Start, Resume, Advance, AdvanceOk, AdvanceErr, Call, UndoIInv, AllAtWork, Calm, envVars
<1>2. \A j \in Step : j \in Int
    BY SagaAssumption DEF Step
<1>3. ASSUME saved # NoInst
      PROVE  saved \in Instance /\ saved.current \in Int /\ (Calm => NoneAbove(saved, world))
    BY <1>1, <1>3, SagaAssumption DEF IInv, TypeOK, Instance, CalmIInv
<1>4. CASE Start(w)
  <2>1. /\ Keep(w, NewInst) /\ Goto(w, "begin", 0) /\ saved' = NewInst
        /\ mode' = [mode EXCEPT ![w] = "start"] /\ saved = NoInst
      BY <1>4 DEF Start, Call
  <2>2. NoneAbove(NewInst, world')
      BY <1>1, <2>1 DEF UndoIInv, Fresh, NoneAbove
  <2> QED
      BY <1>1, <2>1, <2>2, CallKeepsCalm DEF Label
<1>5. CASE Resume(w)
  <2>1. /\ Keep(w, saved) /\ Goto(w, "loop", saved.current) /\ saved' = saved
        /\ mode' = [mode EXCEPT ![w] = "resume"] /\ saved # NoInst
      BY <1>5 DEF Resume, Call, Stored
  <2>2. Calm => crashes = 1 \/ async
      BY <1>1, <1>5 DEF Resume, CalmIInv, Calm, IInv, TypeOK
  <2> QED
      BY <1>1, <1>3, <2>1, <2>2, CallKeepsCalm DEF Label
<1>6. ASSUME NEW i \in Step, AdvanceOk(w, i) PROVE CalmIInv'
  <2> DEFINE inst == Advanced(saved, i)
  <2>1. /\ Keep(w, inst) /\ Goto(w, "report", i) /\ saved' = saved
        /\ mode' = [mode EXCEPT ![w] = "advance"] /\ <<i, "ok">> \in reports
      BY <1>6 DEF AdvanceOk, Call
  <2>2. saved # NoInst
      BY <2>1 DEF IInv, ReportsSound
  <2>3. inst.current = saved.current + 1
      BY DEF Advanced
  <2> HIDE DEF inst
  <2>4. Calm => NoneAbove(inst, world') /\ NoneAbove(saved, world')
      BY <1>1, <1>2, <1>3, <2>2, <2>3 DEF NoneAbove
  <2> QED
      BY <1>1, <2>1, <2>4, CallKeepsCalm DEF Label
<1>7. ASSUME NEW i \in Step, AdvanceErr(w, i) PROVE CalmIInv'
  <2> DEFINE inst == [saved EXCEPT !.status[i] = "failed"]
  <2>1. /\ Keep(w, inst) /\ Goto(w, "compensate", i - 1) /\ saved' = saved
        /\ mode' = [mode EXCEPT ![w] = "advance"] /\ <<i, "error">> \in reports
      BY <1>7 DEF AdvanceErr, Call
  <2>2. saved # NoInst
      BY <2>1 DEF IInv, ReportsSound
  <2>3. inst.current = saved.current
      BY <1>3, <2>2 DEF Instance
  <2> HIDE DEF inst
  <2>4. Calm => NoneAbove(inst, world') /\ NoneAbove(saved, world')
      BY <1>1, <1>3, <2>2, <2>3 DEF NoneAbove
  <2> QED
      BY <1>1, <2>1, <2>4, CallKeepsCalm DEF Label
<1> QED
    BY <1>4, <1>5, <1>6, <1>7 DEF Advance

\* A second crash is the end of the calm; the first was not in a recovery.
LEMMA CrashCalm ==
    ASSUME NEW w, Worker = {w}, IInv, UndoIInv, CalmIInv, Crash(w)
    PROVE  CalmIInv'
<1>1. /\ pc[w] # "idle" /\ crashes' = crashes + 1 /\ UNCHANGED <<saved, envVars, lostSaves>>
      /\ Goto(w, "idle", 0) /\ Keep(w, NoInst) /\ mode' = [mode EXCEPT ![w] = "none"]
    BY DEF Crash, Return
<1>2. Calm' => Calm /\ crashes' = 1 /\ crashes = 0
    BY <1>1 DEF Calm, IInv, TypeOK
<1>3. /\ saved # NoInst /\ mem[w] \in Instance /\ AtWork(w) /\ world \in [Step -> Effect]
      /\ mem[w].current \in Int /\ idx[w] \in Int /\ saved.current \in Int
    BY <1>1, WorkingCall
<1>4. Calm' => /\ NoneAbove(saved, world) /\ (mode[w] = "resume" => async)
               /\ mode[w] = "start" => saved.current = mem[w].current
               /\ \A j \in Step : j \in Int
    BY <1>1, <1>2, CalmCall
<1>5. Calm' => NoneAbove(saved, world')
  <2>1. CASE UNCHANGED world
      BY <1>4, <2>1
  <2>2. CASE pc[w] \in {"execute", "compensate"} /\ \E e : world' = [world EXCEPT ![idx[w]] = e]
    <3>1. Calm' => idx[w] <= saved.current
      <4>1. /\ pc[w] = "execute" => idx[w] = mem[w].current /\ mode[w] \in {"start", "resume"}
            /\ async /\ mode[w] = "resume" => mem[w].current = saved.current
          BY <1>3 DEF AtWork
      <4>2. pc[w] = "compensate" =>
              idx[w] < mem[w].current
              /\ (mode[w] \notin {"start", "resume"} => mem[w].current = saved.current)
          BY <1>3 DEF AtWork
      <4> QED
          BY <1>3, <1>4, <2>2, <4>1, <4>2
    <3>2. \A j \in Step : j # idx[w] => world'[j] = world[j]
        BY <1>3, <2>2
    <3> QED
        BY <1>3, <1>4, <3>1, <3>2 DEF NoneAbove
  <2> QED
      BY <1>1, <2>1, <2>2 DEF Crash, Undoing
<1>6. Calm' => NoneAbove(saved', world') /\ crashes' # 0
    BY <1>1, <1>2, <1>5
<1> QED
    BY <1>1, <1>6, CallKeepsCalm DEF Label

\* Enrolling and the services.
LEMMA OutsideCalm ==
    ASSUME NEW w, Worker = {w}, IInv, UndoIInv, CalmIInv,
           Enroll \/ \E i \in Step : ServeOk(i) \/ ServeErr(i)
    PROVE  CalmIInv'
<1>1. async' = TRUE /\ Calm' = Calm /\ UNCHANGED <<callVars, crashes>>
    BY DEF Enroll, ServeOk, ServeErr, Asked, Calm, IInv, TypeOK
<1>2. CASE Enroll
  <2>1. pc[w] = "idle" /\ mode[w] = "none" /\ world' = world /\ \A i \in Step : world[i] = "none"
      BY <1>2 DEF Enroll, UndoIInv, Fresh, AllAtWork
  <2> QED
      BY <1>1, <2>1 DEF CalmIInv, NoneAbove, callVars
<1>3. ASSUME NEW i \in Step, ServeOk(i) \/ ServeErr(i) PROVE CalmIInv'
  <2>1. /\ saved' = saved /\ i = saved.current /\ saved # NoInst
        /\ \A j \in Step : j # i => world'[j] = world[j]
      BY <1>3 DEF ServeOk, ServeErr, Asked, AfterError, IInv, TypeOK, ReportsSound
  <2>2. ASSUME pc[w] # "idle" PROVE i <= mem[w].current
      BY <2>1, <2>2, WorkingCall DEF AtWork
  <2>3. \A j \in Step : j \in Int
      BY SagaAssumption DEF Step
  <2>4. Calm /\ pc[w] # "idle" => NoneAbove(mem[w], world')
    <3>1. pc[w] # "idle" => mem[w].current \in Int
        BY WorkingCall
    <3> QED
        BY <2>1, <2>2, <2>3, <3>1 DEF CalmIInv, NoneAbove
  <2>5. Calm => NoneAbove(saved, world')
    <3>1. async
        BY <1>3 DEF ServeOk, ServeErr, Asked
    <3> QED
        BY <2>1, <2>3, <3>1 DEF CalmIInv, NoneAbove
  <2> QED
      BY <1>1, <2>1, <2>4, <2>5 DEF CalmIInv, callVars
<1> QED
    BY <1>2, <1>3

LEMMA NextCalm ==
    ASSUME NEW w, Worker = {w}, IInv, UndoIInv, CalmIInv, [Next]_vars
    PROVE  CalmIInv'
<1>1. CASE UNCHANGED vars
    BY <1>1 DEF vars, callVars, envVars, CalmIInv, Calm, NoneAbove, Stored
<1>2. CASE Next
    BY <1>2, ForwardCalm, ServiceCalm, BeginningCalm, CrashCalm, OutsideCalm DEF Next, CallStep
<1> QED
    BY <1>1, <1>2

\* saga.go header: while one coordinator at a time works on a saga, what the
\* store says was undone is undone, whatever crashes, fails, is lost or comes
\* twice; and a failed saga has undone all that succeeded, unless the progress
\* of a recovery was lost or a success was taken after the failure.
THEOREM SagaUndoneAsTold ==
    ASSUME NEW CONSTANT w, Worker = {w}
    PROVE  Spec => []UndoneAsTold
<1>1. Init => UndoIInv /\ CalmIInv
    BY SagaAssumption DEF Init, UndoIInv, Fresh, SavedTold, Reported, AllAtWork, CalmIInv, Stored
<1>2. IInv /\ UndoIInv /\ CalmIInv /\ [Next]_vars => UndoIInv' /\ CalmIInv'
    BY NextUndo, NextCalm
<1>3. IInv /\ UndoIInv /\ CalmIInv => UndoneAsTold
  <2> SUFFICES ASSUME IInv, UndoIInv, CalmIInv PROVE UndoneAsTold
      OBVIOUS
  <2>1. (~late => SettledIsUndone) /\ CompensatedIsUndone
      BY DEF UndoIInv, SavedTold, Told, SettledIsUndone, CompensatedIsUndone, Stored
  <2>2. ASSUME ~late, crashes <= 1, lostSaves = 0, Stored("compensating")
        PROVE  \A i \in Compensable \ {saved.current} : world[i] # "done"
    <3>1. mode[w] # "resume"
        BY <2>2 DEF Stored, UndoIInv, AllAtWork, AtWork
    <3>2. NoneAbove(saved, world) /\ Told(saved, world)
        BY <2>2, <3>1 DEF Stored, UndoIInv, SavedTold, CalmIInv, Calm
    <3>3. Compensable \subseteq Step /\ saved.current \in Int /\ \A i \in Step : i \in Int
        BY <2>2, SagaAssumption DEF Stored, IInv, TypeOK, Instance, Step
    <3> QED
        BY <2>2, <3>2, <3>3 DEF NoneAbove, Told, Stored
  <2> QED
      BY <2>1, <2>2 DEF UndoneAsTold, FailureUndoesAll
<1> QED
    BY <1>1, <1>2, <1>3, InitIInv, NextIInv, PTL DEF Spec

===============================================================================
