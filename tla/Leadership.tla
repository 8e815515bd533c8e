----------------------------- MODULE Leadership -----------------------------
(* RunLeaderLoop (serviceregistry/leaderrun.go) over Election                *)
(* (serviceregistry/election.go) and etcd, of which the campaign keys are    *)
(* modelled: each is held by the lease of one session and named by its       *)
(* revision.  The lowest key is the leader's.  A node learns of the end of   *)
(* its lease later than etcd.                                                *)
EXTENDS Naturals

CONSTANTS Node,
          MaxSessions,    \* bound: sessions opened
          MaxMishaps      \* bound: leases lost, processes killed, calls failing
ASSUME LeadershipAssumption == MaxSessions \in Nat /\ MaxMishaps \in Nat

VARIABLES keys,       \* live campaign keys
          revision,   \* the last one given
          loop,       \* where a node's loop is
          session,    \* the key of its last session
          cancelled,  \* the context of its task is cancelled
          mishaps
leVars == <<keys, revision, loop, session, cancelled, mishaps>>

Lives(n) == session[n] \in keys
Mishap == mishaps < MaxMishaps /\ mishaps' = mishaps + 1
GoOn(n, where) == loop' = [loop EXCEPT ![n] = where]

LeInit ==
    /\ keys = {} /\ revision = 0 /\ mishaps = 0
    /\ loop = [n \in Node |-> "down"] /\ session = [n \in Node |-> 0]
    /\ cancelled = [n \in Node |-> FALSE]
-----------------------------------------------------------------------------
Boot(n) ==
    /\ loop[n] = "down" /\ GoOn(n, "idle")
    /\ UNCHANGED <<keys, revision, session, cancelled, mishaps>>
\* NewElection, a new session, and the put of Campaign.
Campaign(n) ==
    /\ loop[n] = "idle" /\ revision < MaxSessions
    /\ revision' = revision + 1 /\ session' = [session EXCEPT ![n] = revision + 1]
    /\ keys' = keys \cup {revision + 1}
    /\ GoOn(n, "waiting") /\ UNCHANGED <<cancelled, mishaps>>
\* Campaign fails while it waits; el.Close revokes the lease or fails as well.
CampaignFails(n) ==
    /\ loop[n] = "waiting" /\ Mishap /\ GoOn(n, "idle")
    /\ keys' \in {keys, keys \ {session[n]}}
    /\ UNCHANGED <<revision, session, cancelled>>
\* Mutant: the last key but one is enough.
ElectedEarly(n) ==
    /\ loop[n] = "waiting" /\ \A k \in keys : k + 1 >= session[n]
    /\ GoOn(n, "leading") /\ cancelled' = [cancelled EXCEPT ![n] = FALSE]
    /\ UNCHANGED <<keys, revision, session, mishaps>>
\* All keys put before its own are gone (its own may be, too): the task runs.
Elected(n) ==
    /\ loop[n] = "waiting" /\ \A k \in keys : k >= session[n]
    /\ GoOn(n, "leading") /\ cancelled' = [cancelled EXCEPT ![n] = FALSE]
    /\ UNCHANGED <<keys, revision, session, mishaps>>
\* The session's Done channel closes, and the context follows.
Notice(n) ==
    /\ loop[n] = "leading" /\ ~Lives(n) /\ ~cancelled[n]
    /\ cancelled' = [cancelled EXCEPT ![n] = TRUE]
    /\ UNCHANGED <<keys, revision, loop, session, mishaps>>
\* The task returns, of itself or because its context is cancelled; Close.
TaskReturns(n) ==
    /\ loop[n] = "leading" /\ GoOn(n, "idle")
    /\ \/ keys' = keys \ {session[n]} /\ UNCHANGED mishaps
       \/ keys' = keys /\ Mishap
    /\ UNCHANGED <<revision, session, cancelled>>
\* The lease of a node that etcd does not hear of.
LeaseLost(n) ==
    /\ Lives(n) /\ loop[n] \in {"waiting", "leading"} /\ Mishap
    /\ keys' = keys \ {session[n]} /\ UNCHANGED <<revision, loop, session, cancelled>>
\* A lease that nobody renews.
LeaseExpires ==
    /\ \E k \in keys :
          /\ \A n \in Node : k = session[n] => loop[n] \in {"idle", "down"}
          /\ keys' = keys \ {k}
    /\ UNCHANGED <<revision, loop, session, cancelled, mishaps>>
Die(n) ==
    /\ loop[n] # "down" /\ Mishap /\ GoOn(n, "down")
    /\ UNCHANGED <<keys, revision, session, cancelled>>

LeNext ==
    \/ LeaseExpires
    \/ \E n \in Node : \/ Boot(n) \/ Campaign(n) \/ CampaignFails(n) \/ Elected(n)
                       \/ Notice(n) \/ TaskReturns(n) \/ LeaseLost(n) \/ Die(n)
LeSpec == LeInit /\ [][LeNext]_leVars
\* etcd expires leases and wakes waiters; a task whose context is cancelled
\* returns ("Task should exit cleanly when its ctx is done").
LeFair ==
    /\ WF_leVars(LeaseExpires)
    /\ \A n \in Node : /\ WF_leVars(Boot(n)) /\ WF_leVars(Campaign(n))
                       /\ WF_leVars(Elected(n)) /\ WF_leVars(Notice(n))
                       /\ WF_leVars(cancelled[n] /\ TaskReturns(n))
-----------------------------------------------------------------------------
LeTypeOK ==
    /\ revision \in 0 .. MaxSessions /\ keys \subseteq 1 .. revision
    /\ loop \in [Node -> {"down", "idle", "waiting", "leading"}]
    /\ session \in [Node -> 0 .. revision] /\ cancelled \in [Node -> BOOLEAN]
    /\ mishaps \in 0 .. MaxMishaps

\* At most one task runs under a session that etcd still knows: a second one
\* runs only until its node notices that its lease is lost.
OneLiveLeader ==
    \A m, n \in Node :
        loop[m] = "leading" /\ loop[n] = "leading" /\ Lives(m) /\ Lives(n) => m = n

\* What is owed, and must be settled: a live campaign is elected or its lease
\* ends while nobody leads, so that a leader that died or could not revoke its
\* key keeps the others waiting only for the lease's time; and a task whose
\* session is lost is told, and returns.
LeOwed ==
    \E n \in Node :
        \/ /\ loop[n] = "waiting" /\ Lives(n)
           /\ \A m \in Node : loop[m] = "leading" => ~Lives(m)
        \/ loop[n] = "leading" /\ ~Lives(n)
=============================================================================
