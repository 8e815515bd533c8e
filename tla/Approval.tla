------------------------------- MODULE Approval -------------------------------
(***************************************************************************)
(* Package approval: actions that need several people's consent.           *)
(*                                                                         *)
(* Coordinator.Approve, Reject, MarkExecuted and Cancel each read a copy   *)
(* of the action from the store, look at the clock, decide on the copy,    *)
(* write it back and then emit an audit event.  The store locks each Get   *)
(* and each Update (store.go) but nothing holds from the one to the other, *)
(* so the steps of a call interleave with those of other calls.  A call    *)
(* may end after each of them: the store or the sink fails, or the process *)
(* dies.                                                                   *)
(***************************************************************************)
EXTENDS Naturals, Sequences, FiniteSets

CONSTANTS
    Id,                 \* action ids
    Person,             \* accounts that request, review, execute and cancel
    NoOne,              \* not an account
    Caller,             \* calls of the Coordinator that may run at a time
    RequiredChoices,    \* RequiredApprovals as callers of Request give it
    DefaultRequired,    \* Config.DefaultRequiredApprovals
    ExpireAfter,        \* Config.DefaultExpireAfter
    CancelWindow,       \* Config.CancelWindow
    MaxTime,            \* bound: the clock stops here
    MaxUnaudited        \* bound: the audit events of an action that are lost

ASSUME ApprovalAssumption ==
    /\ NoOne \notin Person
    /\ RequiredChoices \subseteq Nat
    /\ DefaultRequired \in Nat \ {0}
    /\ ExpireAfter \in Nat
    /\ CancelWindow \in Nat
    /\ MaxTime \in Nat
    /\ MaxUnaudited \in Nat

VARIABLES
    store,      \* MemStore.actions
    audited,    \* the kinds of AuditEvent emitted for each action
    unaudited,  \* those whose Emit failed, or was never reached
    step,       \* where each call is
    call,       \* its arguments
    copy,       \* its copy of the action
    clock       \* time.Now()

vars == <<store, audited, unaudited, step, call, copy, clock>>

State    == {"none", "pending", "reviewing", "approved", "rejected", "executed",
             "expired", "cancelled"}
Vote     == [reviewer : Person, decision : {"approve", "reject"}, at : Nat]
Action   == [requester   : Person \cup {NoOne},
             required    : Nat,
             state       : State,
             approvals   : Seq(Vote),
             expiresAt   : Nat,
             cancelledAt : Nat]
Kind     == {"approve", "reject", "execute", "cancel"}
AuditEvent == Kind \cup {"request"}
Call     == [kind : AuditEvent, id : Id, who : Person]
NoCall   == [kind |-> "none"]

\* An id nobody requested, and the copy of a call that is over.
NoAction == [requester |-> NoOne, required |-> 0, state |-> "none",
             approvals |-> <<>>, expiresAt |-> 0, cancelledAt |-> 0]

Init ==
    /\ store = [i \in Id |-> NoAction]
    /\ audited = [i \in Id |-> {}]
    /\ unaudited = [i \in Id |-> {}]
    /\ step = [c \in Caller |-> "idle"]
    /\ call = [c \in Caller |-> NoCall]
    /\ copy = [c \in Caller |-> NoAction]
    /\ clock = 0

-------------------------------------------------------------------------------
(* types.go                                                                *)

HasReviewer(a, p) == \E k \in DOMAIN a.approvals : a.approvals[k].reviewer = p

ApproveCount(a) ==
    Cardinality({k \in DOMAIN a.approvals : a.approvals[k].decision = "approve"})

HasReject(a) == \E k \in DOMAIN a.approvals : a.approvals[k].decision = "reject"

-------------------------------------------------------------------------------
(* coordinator.go                                                          *)

\* Request: Create, which refuses an id that exists; the Emit follows.
Request(c, i, p) ==
    /\ step[c] = "idle"
    /\ store[i].state = "none"
    /\ \E n \in RequiredChoices :
           store' = [store EXCEPT ![i] =
               [requester   |-> p,
                required    |-> IF n = 0 THEN DefaultRequired ELSE n,
                state       |-> "pending",
                approvals   |-> <<>>,
                expiresAt   |-> clock + ExpireAfter,
                cancelledAt |-> 0]]
    /\ step' = [step EXCEPT ![c] = "emit"]
    /\ call' = [call EXCEPT ![c] = [kind |-> "request", id |-> i, who |-> p]]
    /\ UNCHANGED <<audited, unaudited, copy, clock>>

\* store.Get: a call starts with a copy of the action.
Get(c, k, i, p) ==
    /\ step[c] = "idle"
    /\ store[i].state # "none"
    /\ step' = [step EXCEPT ![c] = "got"]
    /\ call' = [call EXCEPT ![c] = [kind |-> k, id |-> i, who |-> p]]
    /\ copy' = [copy EXCEPT ![c] = store[i]]
    /\ UNCHANGED <<store, audited, unaudited, clock>>

\* The call returns, with an error or done.
Return(c) ==
    /\ step' = [step EXCEPT ![c] = "idle"]
    /\ call' = [call EXCEPT ![c] = NoCall]
    /\ copy' = [copy EXCEPT ![c] = NoAction]

\* The call has changed its copy to a and goes on to store.Update.
Write(c, a) ==
    /\ step' = [step EXCEPT ![c] = "write"]
    /\ copy' = [copy EXCEPT ![c] = a]
    /\ UNCHANGED call

Reviewing(c) == step[c] = "got" /\ call[c].kind \in {"approve", "reject"}

\* Mutant: does not ask HasReviewer.
MayVoteTwice(a, p) == a.state \in {"pending", "reviewing"} /\ p # a.requester

MayVote(a, p) ==
    /\ a.state \in {"pending", "reviewing"}
    /\ p # a.requester
    /\ ~HasReviewer(a, p)

Overdue(a) == clock > a.expiresAt /\ a.state = "pending"

\* Mutant: the vote replaces the earlier ones.
VotedAlone(a, p, d) ==
    LET b == [a EXCEPT !.approvals = <<[reviewer |-> p, decision |-> d, at |-> clock]>>]
    IN [b EXCEPT !.state = IF d = "reject" THEN "rejected"
                           ELSE IF ApproveCount(b) >= b.required THEN "approved"
                           ELSE "reviewing"]

\* The copy with one more vote, and the state the vote leads to.
Voted(a, p, d) ==
    LET b == [a EXCEPT !.approvals =
                 Append(@, [reviewer |-> p, decision |-> d, at |-> clock])]
    IN [b EXCEPT !.state = IF d = "reject" THEN "rejected"
                           ELSE IF ApproveCount(b) >= b.required THEN "approved"
                           ELSE "reviewing"]

\* review: a pending action past its time expires instead.
ReviewExpires(c) ==
    /\ Reviewing(c)
    /\ Overdue(copy[c])
    /\ Write(c, [copy[c] EXCEPT !.state = "expired"])
    /\ UNCHANGED <<store, audited, unaudited, clock>>

\* review: ErrAlreadyDecided, ErrSelfApproval, ErrDuplicateReviewer.
ReviewRefused(c) ==
    /\ Reviewing(c)
    /\ ~Overdue(copy[c])
    /\ ~MayVote(copy[c], call[c].who)
    /\ Return(c)
    /\ UNCHANGED <<store, audited, unaudited, clock>>

\* review: the vote is added and the state follows.
ReviewVotes(c) ==
    /\ Reviewing(c)
    /\ ~Overdue(copy[c])
    /\ MayVote(copy[c], call[c].who)
    /\ Write(c, Voted(copy[c], call[c].who, call[c].kind))
    /\ UNCHANGED <<store, audited, unaudited, clock>>

MayExecute(a) == a.state = "approved"

\* MarkExecuted.
Executes(c) ==
    /\ step[c] = "got" /\ call[c].kind = "execute"
    /\ IF MayExecute(copy[c])
       THEN Write(c, [copy[c] EXCEPT !.state = "executed"])
       ELSE Return(c)
    /\ UNCHANGED <<store, audited, unaudited, clock>>

\* Mutant: no window for an approved action.
MayCancelAnytime(a, p) ==
    /\ a.requester = p
    /\ a.state \in {"pending", "reviewing", "approved"}

\* Under review: at any time; approved: within CancelWindow of the last vote.
MayCancel(a, p) ==
    /\ a.requester = p
    /\ \/ a.state \in {"pending", "reviewing"}
       \/ /\ a.state = "approved"
          /\ clock <= a.approvals[Len(a.approvals)].at + CancelWindow

\* Cancel.
Cancels(c) ==
    /\ step[c] = "got" /\ call[c].kind = "cancel"
    /\ IF MayCancel(copy[c], call[c].who)
       THEN Write(c, [copy[c] EXCEPT !.state = "cancelled", !.cancelledAt = clock])
       ELSE Return(c)
    /\ UNCHANGED <<store, audited, unaudited, clock>>

\* Mutant: review goes on after it expired the action.
EmitsAlways(c) == TRUE

\* review returns without an Emit when the action expired.
Emits(c) == copy[c].state # "expired"

\* store.Update: the copy replaces whatever the store has by now.
Update(c) ==
    /\ step[c] = "write"
    /\ store' = [store EXCEPT ![call[c].id] = copy[c]]
    /\ IF Emits(c)
       THEN /\ step' = [step EXCEPT ![c] = "emit"]
            /\ copy' = [copy EXCEPT ![c] = NoAction]
            /\ UNCHANGED call
       ELSE Return(c)
    /\ UNCHANGED <<audited, unaudited, clock>>

\* audit.Emit, and the call returns.
Emit(c) ==
    /\ step[c] = "emit"
    /\ audited' = [audited EXCEPT ![call[c].id] = @ \cup {call[c].kind}]
    /\ Return(c)
    /\ UNCHANGED <<store, unaudited, clock>>

\* Emit returned an error, which is dropped, or the process died before it.
EmitLost(c) ==
    /\ step[c] = "emit"
    /\ Cardinality(unaudited[call[c].id]) < MaxUnaudited
    /\ unaudited' = [unaudited EXCEPT ![call[c].id] = @ \cup {call[c].kind}]
    /\ Return(c)
    /\ UNCHANGED <<store, audited, clock>>

\* store.Update failed, or the process died before it.
Abandoned(c) ==
    /\ step[c] \in {"got", "write"}
    /\ Return(c)
    /\ UNCHANGED <<store, audited, unaudited, clock>>

Tick ==
    /\ clock < MaxTime
    /\ clock' = clock + 1
    /\ UNCHANGED <<store, audited, unaudited, step, call, copy>>

CallStep(c) ==
    \/ ReviewExpires(c) \/ ReviewRefused(c) \/ ReviewVotes(c)
    \/ Executes(c) \/ Cancels(c) \/ Update(c)
    \/ Emit(c) \/ EmitLost(c) \/ Abandoned(c)

Next ==
    \/ \E c \in Caller, i \in Id, p \in Person : Request(c, i, p)
    \/ \E c \in Caller, k \in Kind, i \in Id, p \in Person : Get(c, k, i, p)
    \/ \E c \in Caller : CallStep(c)
    \/ Tick

Spec == Init /\ [][Next]_vars

-------------------------------------------------------------------------------
(* Properties.                                                             *)

TypeOK ==
    /\ store \in [Id -> Action]
    /\ audited \in [Id -> SUBSET AuditEvent]
    /\ unaudited \in [Id -> SUBSET AuditEvent]
    /\ step \in [Caller -> {"idle", "got", "write", "emit"}]
    /\ call \in [Caller -> Call \cup {NoCall}]
    /\ copy \in [Caller -> Action]
    /\ clock \in 0 .. MaxTime

Approvers(a) ==
    {a.approvals[k].reviewer :
        k \in {j \in DOMAIN a.approvals : a.approvals[j].decision = "approve"}}

\* doc.go, types.go: what is approved or executed has the consent of as many
\* different people as it requires, none of them its requester, and nobody's
\* rejection; concurrent calls that overwrite each other included.
FourEyes ==
    \A i \in Id : store[i].state \in {"approved", "executed"} =>
        /\ Cardinality(Approvers(store[i])) >= store[i].required
        /\ store[i].requester \notin Approvers(store[i])
        /\ ~HasReject(store[i])



\* types.go: "any reject is final".
RejectIsFinal ==
    [][\A i \in Id : store[i].state = "rejected" => store'[i] = store[i]]_vars

===============================================================================
