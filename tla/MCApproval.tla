------------------------------ MODULE MCApproval ------------------------------
(***************************************************************************)
(* An instance of Approval for TLC, which remembers what each call read,   *)
(* and whether a call ever wrote over an action that had changed since: a  *)
(* good part of what the package promises holds only of actions nobody     *)
(* wrote over.                                                             *)
(***************************************************************************)
EXTENDS Approval, TLC

VARIABLES
    read,       \* the action as the call's Get returned it
    overwrote   \* the actions replaced by a copy older than they were

mcVars == <<vars, read, overwrote>>

MCInit ==
    /\ Init
    /\ read = [c \in Caller |-> NoAction]
    /\ overwrote = {}

Deciding == {"got", "write"}

MCNext ==
    /\ Next
    /\ read' = [c \in Caller |->
                   IF step'[c] \notin Deciding THEN NoAction
                   ELSE IF step[c] \in Deciding THEN read[c]
                   ELSE store[call'[c].id]]
    /\ overwrote' = overwrote \cup
           {call[c].id : c \in {d \in Caller : Update(d) /\ store[call[d].id] # read[d]}}

MCSpec == MCInit /\ [][MCNext]_mcVars

\* Accounts, and calls in flight, differ in name only.
Symmetric == Permutations(Person) \cup Permutations(Caller)

\* types.go, MarkExecuted: "any reject is final", an executed action "cannot be
\* cancelled", Approvals is append-only: as long as no call writes over another's
\* result nothing changes how an action was decided, and no vote is lost.
DecidedIsFinal ==
    [][\A i \in Id \ overwrote' :
          LET old == store[i]
              new == store'[i]
          IN /\ old.state \in {"rejected", "executed", "cancelled", "expired"} => new = old
             /\ Len(old.approvals) <= Len(new.approvals)
             /\ SubSeq(new.approvals, 1, Len(old.approvals)) = old.approvals]_vars

\* doc.go: an approved action can be withdrawn within CancelWindow, then it is
\* frozen.  Of an action no call wrote over, that is: a Cancel that read it before
\* the last votes, or before it was executed, withdraws it at any time.
WithdrawnInWindow ==
    [][\A i \in Id \ overwrote' :
          LET old == store[i]
              new == store'[i]
          IN old.state # "cancelled" /\ new.state = "cancelled" =>
                 \/ old.state \in {"pending", "reviewing"}
                 \/ /\ old.state = "approved"
                    /\ new.cancelledAt <= old.approvals[Len(old.approvals)].at + CancelWindow]_vars

\* A call that has written and not yet emitted.
Owed(i, k) == \E c \in Caller : step[c] = "emit" /\ call[c].id = i /\ call[c].kind = k

\* The audit trail has the event, will have it, or the sink or the process failed.
Recorded(i, k) == k \in audited[i] \/ Owed(i, k) \/ k \in unaudited[i]

\* The audit trail of an action nobody wrote over tells how it was decided: no
\* event of a decision that was not taken, and none missing but those whose Emit
\* was lost (its error is dropped).  'expired' has no event, although AuditEvent
\* lists one.
AuditTellsOutcome ==
    \A i \in Id :
        /\ store[i].state # "none" <=> Recorded(i, "request")
        /\ i \notin overwrote =>
               /\ store[i].state = "executed"  <=> Recorded(i, "execute")
               /\ store[i].state = "rejected"  <=> Recorded(i, "reject")
               /\ store[i].state = "cancelled" <=> Recorded(i, "cancel")
               /\ store[i].state = "approved"  =>  Recorded(i, "approve")

===============================================================================
