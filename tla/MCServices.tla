------------------------------ MODULE MCServices ------------------------------
(***************************************************************************)
(* The components that share no state with one another, in one instance    *)
(* for TLC: part says which of them moves, the others rest in an initial   *)
(* state, so that TLC explores one after the other and never their         *)
(* product.  Each is its own specification; nothing is composed here.      *)
(***************************************************************************)
EXTENDS Reshard, Leadership, Registrar, JobQueue, AuditLog, Replay, ShadowFlow,
        Identity, Migrate, SchemaRegistry, RateLimit, FeatureFlag, Binding,
        Money, TypedReads, TLC

CONSTANTS t1, t2, t3, ann, mia, zed, m1, m2

\* The second of the four rows of the shard goes to the other bucket.
MCDst == [r \in 1 .. 4 |-> IF r = 2 THEN "b2" ELSE "b1"]

\* The handler of t1 enqueues t3.
MCUniqueKey == [t \in {t1, t2, t3} |-> IF t = t3 THEN 2 ELSE 1]
MCMaxRetry == [t \in {t1, t2, t3} |-> 1]
MCParent == [t \in {t1, t2, t3} |-> IF t = t3 THEN t1 ELSE t]

MCSegment == [mainFleet   |-> <<1, 9>>,
              main        |-> <<100, 179>>,
              shadowFleet |-> <<900, 909>>,
              shadow      |-> <<910, 998>>]

\* The second statement of the last version stands behind a comment.
MCCommented == {<<"up", 4, 2>>}

\* All alike, or merchant m2 not limited but with the larger burst.
MCConfig ==
  LET alike == [rps |-> 1, burst |-> 1] IN
  {[default |-> alike, merchants |-> <<>>],
   [default |-> alike, merchants |-> m2 :> [rps |-> 0, burst |-> 2]]}

MCKeyBucket == ann :> 0 @@ mia :> 1

VARIABLE part

Parts == {"reshard", "leadership", "registrar", "jobs", "audit", "replay", "shadow",
          "identity", "migrate", "schema", "rate", "flags", "binding", "money", "typed"}

Init ==
  /\ part \in Parts
  /\ RsInit /\ LeInit /\ ReInit /\ JqInit /\ AuInit /\ RpInit /\ SfInit
  /\ IdInit /\ MiInit /\ ScInit /\ BiInit
  /\ RlInit /\ cfg.merchants = <<>>
  /\ FfInit /\ (part # "flags" => source = Unset)
  /\ IF part = "money" THEN MoInit ELSE amount = 0 /\ places = 0
  /\ IF part = "typed" THEN TyInit ELSE text = [shape |-> "bare", words |-> <<>>]

vars == <<part, rsVars, leVars, reVars, jqVars, auVars, rpVars, sfVars, idVars, miVars,
          scVars, rlVars, ffVars, biVars, moVars, tyVars>>

Others(p) ==
  /\ part = p /\ UNCHANGED part
  /\ p # "reshard" => UNCHANGED rsVars
  /\ p # "leadership" => UNCHANGED leVars
  /\ p # "registrar" => UNCHANGED reVars
  /\ p # "jobs" => UNCHANGED jqVars
  /\ p # "audit" => UNCHANGED auVars
  /\ p # "replay" => UNCHANGED rpVars
  /\ p # "shadow" => UNCHANGED sfVars
  /\ p # "identity" => UNCHANGED idVars
  /\ p # "migrate" => UNCHANGED miVars
  /\ p # "schema" => UNCHANGED scVars
  /\ p # "rate" => UNCHANGED rlVars
  /\ p # "flags" => UNCHANGED ffVars
  /\ p # "binding" => UNCHANGED biVars
  /\ UNCHANGED <<moVars, tyVars>>

Next ==
  \/ Others("reshard") /\ RsNext
  \/ Others("leadership") /\ LeNext
  \/ Others("registrar") /\ ReNext
  \/ Others("jobs") /\ JqNext
  \/ Others("audit") /\ AuNext
  \/ Others("replay") /\ RpNext
  \/ Others("shadow") /\ SfNext
  \/ Others("identity") /\ IdNext
  \/ Others("migrate") /\ MiNext
  \/ Others("schema") /\ ScNext
  \/ Others("rate") /\ RlNext
  \/ Others("flags") /\ FfNext
  \/ Others("binding") /\ BiNext

\* The fairness of each component (RsFair, LeFair, ...), asked of the one that
\* moves.
Fair ==
  /\ \A p \in Migrator :
       /\ WF_rsVars(part = "reshard" /\ StartMigrator(p))
       /\ WF_rsVars(part = "reshard" /\ ResumeMigrator(p))
       /\ \A s \in Shard : WF_rsVars(part = "reshard" /\ ShardStep(p, s))
  /\ WF_leVars(part = "leadership" /\ LeaseExpires)
  /\ \A n \in Node :
       /\ WF_leVars(part = "leadership" /\ Boot(n))
       /\ WF_leVars(part = "leadership" /\ Campaign(n))
       /\ WF_leVars(part = "leadership" /\ Elected(n))
       /\ WF_leVars(part = "leadership" /\ Notice(n))
       /\ WF_leVars(part = "leadership" /\ cancelled[n] /\ TaskReturns(n))
  /\ WF_reVars(part = "registrar" /\ Expire)
  /\ WF_reVars(part = "registrar" /\ Revoke)
  /\ WF_reVars(part = "registrar" /\ CloseReg)
  /\ \A c \in RegCall : WF_reVars(part = "registrar" /\ (Publish_(c) \/ Adopt(c)))
  /\ WF_jqVars(part = "jobs" /\ ~panicked /\ Work)
  /\ \A t \in Task : SF_jqVars(part = "jobs" /\ ~panicked /\ Send(t))
  /\ WF_auVars(part = "audit" /\ AuLoop)
  /\ \A w \in ReplayWorker :
       WF_rpVars(part = "replay" /\ ~rpPanicked /\ (TakeJob(w) \/ Invoked(w)))
  /\ WF_ffVars(part = "flags" /\ Reload)

Spec == Init /\ [][Next]_vars /\ Fair

-----------------------------------------------------------------------------
\* What the component that moves still owes: rows to move, a leader to elect or
\* to stop, an endpoint to withdraw, a task to settle, a Stop or a Close to
\* return from, a flag to serve.
Owed ==
  \/ part = "reshard" /\ ~AllMoved
  \/ part = "leadership" /\ LeOwed
  \/ part = "registrar" /\ ReOwed
  \/ part = "jobs" /\ JqOwed
  \/ part = "audit" /\ AuOwed
  \/ part = "replay" /\ RpOwed
  \/ part = "flags" /\ FfOwed

\* Whatever fails, in bounded number: what is owed is settled, and no checkpoint
\* goes back.  A Stop of the audit client is owed once its callers emit no more.
\* (Migrator, RunLeaderLoop, Registrar, MemoryServer.Run, flushLoop,
\* Replayer.worker and pollLoop.)
Progress == (Owed ~> ~Owed) /\ CheckpointKept
=============================================================================
