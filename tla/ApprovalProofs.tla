---------------------------- MODULE ApprovalProofs ----------------------------
(***************************************************************************)
(* Theorems about Approval, for any number of people and of concurrent     *)
(* calls.  Calls overwrite each other's results, but every action that is  *)
(* ever written, and every copy a call holds, is sound by itself: it was   *)
(* made from a sound one by one complete decision.                         *)
(***************************************************************************)
EXTENDS MCApproval, FiniteSetTheorems, TLAPS

\* Nobody votes twice on one action.
VotesDiffer(a) ==
    \A j, k \in DOMAIN a.approvals :
        a.approvals[j].reviewer = a.approvals[k].reviewer => j = k

NoSelfVote(a) == \A k \in DOMAIN a.approvals : a.approvals[k].reviewer # a.requester

\* The state agrees with the votes.
StateTold(a) ==
    /\ a.state \in {"pending", "reviewing", "approved", "executed"} => ~HasReject(a)
    /\ a.state \in {"pending", "reviewing"} => ApproveCount(a) < a.required
    /\ a.state \in {"approved", "executed"} => ApproveCount(a) >= a.required

Sound(a) == VotesDiffer(a) /\ NoSelfVote(a) /\ StateTold(a)

SoundAction == {a \in Action : Sound(a)}

IInv ==
    /\ TypeOK
    /\ store \in [Id -> SoundAction]
    /\ copy \in [Caller -> SoundAction]
    /\ \A c \in Caller : step[c] # "idle" => call[c] \in Call

-------------------------------------------------------------------------------
(* Counting votes.                                                         *)

ApproveVotes(a) == {k \in DOMAIN a.approvals : a.approvals[k].decision = "approve"}

LEMMA CountType ==
    ASSUME NEW a \in Action
    PROVE  IsFiniteSet(ApproveVotes(a)) /\ ApproveCount(a) \in Nat
<1>1. DOMAIN a.approvals = 1 .. Len(a.approvals) /\ Len(a.approvals) \in Nat
    BY DEF Action
<1>2. IsFiniteSet(1 .. Len(a.approvals))
    BY <1>1, FS_Interval
<1>3. IsFiniteSet(ApproveVotes(a))
    BY <1>1, <1>2, FS_Subset DEF ApproveVotes
<1> QED
    BY <1>3, FS_CardinalityType DEF ApproveVotes, ApproveCount

\* ApproveCount counts entries, Approvers names people: of votes that differ in
\* their reviewers there are as many as people.
LEMMA CountIsPeople ==
    ASSUME NEW a \in Action, VotesDiffer(a)
    PROVE  Cardinality(Approvers(a)) = ApproveCount(a)
<1> DEFINE f == [k \in ApproveVotes(a) |-> a.approvals[k].reviewer]
<1>1. IsFiniteSet(ApproveVotes(a))
    BY CountType
<1>2. f \in Surjection(ApproveVotes(a), Approvers(a))
    BY DEF Surjection, Approvers, ApproveVotes
<1>3. f \in Injection(ApproveVotes(a), Approvers(a))
    BY <1>2 DEF Surjection, Injection, IsInjective, VotesDiffer, ApproveVotes
<1> QED
    BY <1>1, <1>2, <1>3, FS_Surjection DEF ApproveCount, ApproveVotes

\* Without votes nobody approved.
LEMMA CountNone ==
    ASSUME NEW a, a.approvals = <<>>
    PROVE  ApproveCount(a) = 0
<1>1. {k \in DOMAIN a.approvals : a.approvals[k].decision = "approve"} = {}
    OBVIOUS
<1> QED
    BY <1>1, FS_EmptySet DEF ApproveCount

-------------------------------------------------------------------------------
(* Decisions keep actions sound.                                           *)

LEMMA NoActionSound == NoAction \in Action /\ Sound(NoAction)
    BY DEF NoAction, Action, State, Sound, VotesDiffer, NoSelfVote, StateTold

\* Request makes a sound action.
LEMMA RequestSound ==
    ASSUME NEW p \in Person, NEW n \in Nat, n > 0, NEW t \in Nat,
           NEW a, a = [requester |-> p, required |-> n, state |-> "pending",
                       approvals |-> <<>>, expiresAt |-> t, cancelledAt |-> 0]
    PROVE  a \in Action /\ Sound(a)
<1>1. a \in Action
    BY DEF Action, State
<1>2. ApproveCount(a) = 0
    BY CountNone
<1> QED
    BY <1>1, <1>2 DEF Sound, VotesDiffer, NoSelfVote, StateTold, HasReject

\* A vote that review allows keeps it sound.
LEMMA VotedSound ==
    ASSUME TypeOK, NEW a \in Action, Sound(a), NEW p \in Person, MayVote(a, p),
           NEW d \in {"approve", "reject"}
    PROVE  Voted(a, p, d) \in Action /\ Sound(Voted(a, p, d))
<1> DEFINE v == [reviewer |-> p, decision |-> d, at |-> clock]
           b == [a EXCEPT !.approvals = Append(@, v)]
           s == IF d = "reject" THEN "rejected"
                ELSE IF ApproveCount(b) >= b.required THEN "approved" ELSE "reviewing"
           w == [b EXCEPT !.state = s]
<1>1. Voted(a, p, d) = w
    BY DEF Voted
<1>2. v \in Vote
    BY DEF Vote, TypeOK
<1>3. b \in Action /\ w \in Action
  <2>1. Append(a.approvals, v) \in Seq(Vote)
      BY <1>2 DEF Action
  <2>2. b \in Action
      BY <2>1 DEF Action
  <2>3. s \in State
      BY DEF State
  <2> QED
      BY <2>2, <2>3 DEF Action
<1>4. /\ w.approvals = Append(a.approvals, v) /\ b.approvals = w.approvals
      /\ w.requester = a.requester /\ w.required = a.required /\ b.required = a.required
      /\ w.state = s
    BY DEF Action
<1>5. /\ DOMAIN w.approvals = DOMAIN a.approvals \cup {Len(a.approvals) + 1}
      /\ Len(a.approvals) + 1 \notin DOMAIN a.approvals
      /\ \A k \in DOMAIN a.approvals : w.approvals[k] = a.approvals[k]
      /\ w.approvals[Len(a.approvals) + 1] = v
    BY <1>2, <1>4 DEF Action
<1>6. VotesDiffer(w)
    BY <1>5 DEF Sound, VotesDiffer, MayVote, HasReviewer
<1>7. NoSelfVote(w)
    BY <1>4, <1>5 DEF Sound, NoSelfVote, MayVote
<1>8. ApproveCount(w) = ApproveCount(b)
    BY <1>4 DEF ApproveCount
<1>9. StateTold(w)
  <2>1. ApproveCount(b) \in Nat /\ w.required \in Nat
      BY <1>3, CountType DEF Action
  <2>2. CASE d = "reject"
      BY <1>4, <2>2 DEF StateTold
  <2>3. CASE d = "approve"
    <3>1. ~HasReject(w)
        BY <1>5, <2>3 DEF HasReject, Sound, StateTold, MayVote
    <3> QED
      <4>1. CASE ApproveCount(b) >= b.required
          BY <1>4, <1>8, <2>3, <3>1, <4>1 DEF StateTold
      <4>2. CASE ~(ApproveCount(b) >= b.required)
        <5>1. w.state = "reviewing" /\ ApproveCount(w) < w.required
            BY <1>4, <1>8, <2>1, <2>3, <4>2
        <5> QED
            BY <3>1, <5>1 DEF StateTold
      <4> QED
          BY <4>1, <4>2
  <2> QED
      BY <2>2, <2>3
<1> QED
    BY <1>1, <1>3, <1>6, <1>7, <1>9 DEF Sound

\* So do expiry, execution and withdrawal, which leave the votes alone.
LEMMA MovedSound ==
    ASSUME TypeOK, NEW a \in Action, Sound(a), NEW b,
           \/ b = [a EXCEPT !.state = "expired"]
           \/ MayExecute(a) /\ b = [a EXCEPT !.state = "executed"]
           \/ \E p \in Person : /\ MayCancel(a, p)
                                /\ b = [a EXCEPT !.state = "cancelled", !.cancelledAt = clock]
    PROVE  b \in Action /\ Sound(b)
<1>1. b \in Action /\ b.approvals = a.approvals /\ b.required = a.required
                   /\ b.requester = a.requester
  <2>1. clock \in Nat /\ \A x \in {"expired", "executed", "cancelled"} : x \in State
      BY DEF State, TypeOK
  <2> QED
      BY <2>1 DEF Action
<1>2. ApproveCount(b) = ApproveCount(a) /\ (HasReject(b) <=> HasReject(a))
    BY <1>1 DEF ApproveCount, HasReject
<1>3. ApproveCount(a) \in Nat /\ a.required \in Nat
    BY CountType DEF Action
<1>4. VotesDiffer(b) /\ NoSelfVote(b)
    BY <1>1 DEF Sound, VotesDiffer, NoSelfVote
<1>5. CASE b = [a EXCEPT !.state = "expired"]
    BY <1>1, <1>4, <1>5 DEF Sound, StateTold, Action
<1>6. CASE MayExecute(a) /\ b = [a EXCEPT !.state = "executed"]
    BY <1>1, <1>2, <1>4, <1>6 DEF Sound, StateTold, Action, MayExecute
<1>7. ASSUME NEW p \in Person, MayCancel(a, p),
             b = [a EXCEPT !.state = "cancelled", !.cancelledAt = clock]
      PROVE  Sound(b)
  <2>1. b.state = "cancelled" /\ b.cancelledAt = clock
      BY <1>7 DEF Action
  <2> QED
      BY <1>4, <2>1 DEF Sound, StateTold
<1> QED
    BY <1>1, <1>5, <1>6, <1>7

-------------------------------------------------------------------------------
(* The invariant is inductive.                                             *)

LEMMA InitIInv == Init => IInv
<1> SUFFICES ASSUME Init PROVE IInv
    OBVIOUS
<1>1. TypeOK
    BY NoActionSound, ApprovalAssumption DEF Init, TypeOK
<1> QED
    BY <1>1, NoActionSound DEF Init, IInv, SoundAction

\* A call that returns leaves everything but itself.
LEMMA ReturnIInv ==
    ASSUME IInv, NEW c \in Caller, Return(c), UNCHANGED clock,
           store' \in [Id -> SoundAction],
           audited' \in [Id -> SUBSET AuditEvent], unaudited' \in [Id -> SUBSET AuditEvent]
    PROVE  IInv'
<1>1. NoAction \in SoundAction
    BY NoActionSound DEF SoundAction
<1>2. store' \in [Id -> Action]
    BY DEF SoundAction
<1>3. TypeOK'
    BY <1>2, NoActionSound DEF IInv, TypeOK, Return
<1>4. copy' \in [Caller -> SoundAction]
    BY <1>1 DEF IInv, TypeOK, Return
<1>5. \A d \in Caller : step'[d] # "idle" => d # c /\ step[d] # "idle" /\ call'[d] = call[d]
    BY DEF IInv, TypeOK, Return
<1> QED
    BY <1>3, <1>4, <1>5 DEF IInv

\* A call that goes on to write a sound copy keeps the invariant.
LEMMA WriteIInv ==
    ASSUME IInv, NEW c \in Caller, step[c] = "got", NEW a \in Action, Sound(a),
           Write(c, a), UNCHANGED <<store, audited, unaudited, clock>>
    PROVE  IInv'
<1>1. TypeOK'
    BY DEF IInv, TypeOK, Write
<1>2. a \in SoundAction
    BY DEF SoundAction
<1>3. copy' \in [Caller -> SoundAction]
    BY <1>2 DEF IInv, TypeOK, Write
<1>4. store' \in [Id -> SoundAction]
    BY DEF IInv
<1>5. \A d \in Caller : step'[d] # "idle" => step[d] # "idle" /\ call'[d] = call[d]
    BY DEF IInv, TypeOK, Write
<1> QED
    BY <1>1, <1>3, <1>4, <1>5 DEF IInv

LEMMA CallIInv ==
    ASSUME IInv, NEW c \in Caller, CallStep(c)
    PROVE  IInv'
<1>1. copy[c] \in Action /\ Sound(copy[c]) /\ TypeOK
    BY DEF IInv, SoundAction
<1>2. CASE ReviewExpires(c)
  <2>1. step[c] = "got"
      BY <1>2 DEF ReviewExpires, Reviewing
  <2> QED
      BY <1>1, <1>2, <2>1, MovedSound, WriteIInv DEF ReviewExpires
<1>3. CASE ReviewRefused(c)
    BY <1>3, ReturnIInv DEF ReviewRefused, IInv, TypeOK
<1>4. CASE ReviewVotes(c)
  <2>1. step[c] = "got" /\ call[c] \in Call /\ call[c].kind \in {"approve", "reject"}
      BY <1>4 DEF ReviewVotes, Reviewing, IInv
  <2>2. call[c].who \in Person
      BY <2>1 DEF Call
  <2>3. /\ Voted(copy[c], call[c].who, call[c].kind) \in Action
        /\ Sound(Voted(copy[c], call[c].who, call[c].kind))
      BY <1>1, <1>4, <2>1, <2>2, VotedSound DEF ReviewVotes
  <2> QED
      BY <1>4, <2>1, <2>3, WriteIInv DEF ReviewVotes
<1>5. CASE Executes(c)
  <2>1. CASE MayExecute(copy[c])
      BY <1>1, <1>5, <2>1, MovedSound, WriteIInv DEF Executes
  <2>2. CASE ~MayExecute(copy[c])
      BY <1>5, <2>2, ReturnIInv DEF Executes, IInv, TypeOK
  <2> QED
      BY <2>1, <2>2
<1>6. CASE Cancels(c)
  <2>1. step[c] = "got" /\ call[c].who \in Person
      BY <1>6 DEF Cancels, IInv, Call
  <2>2. CASE MayCancel(copy[c], call[c].who)
      BY <1>1, <1>6, <2>1, <2>2, MovedSound, WriteIInv DEF Cancels
  <2>3. CASE ~MayCancel(copy[c], call[c].who)
      BY <1>6, <2>3, ReturnIInv DEF Cancels, IInv, TypeOK
  <2> QED
      BY <2>2, <2>3
<1>7. CASE Update(c)
  <2>1. call[c] \in Call /\ call[c].id \in Id
      BY <1>7 DEF Update, IInv, Call
  <2>2. store' \in [Id -> SoundAction] /\ store' \in [Id -> Action]
      BY <1>1, <1>7, <2>1 DEF Update, IInv, TypeOK, SoundAction
  <2>3. UNCHANGED <<audited, unaudited, clock>>
      BY <1>7 DEF Update
  <2>4. CASE Emits(c)
    <3>1. /\ step' = [step EXCEPT ![c] = "emit"] /\ copy' = [copy EXCEPT ![c] = NoAction]
          /\ UNCHANGED call
        BY <1>7, <2>4 DEF Update
    <3>2. step' \in [Caller -> {"idle", "got", "write", "emit"}]
        BY <3>1 DEF IInv, TypeOK
    <3>3. copy' \in [Caller -> SoundAction] /\ copy' \in [Caller -> Action]
        BY <3>1, NoActionSound DEF IInv, TypeOK, SoundAction
    <3>4. \A d \in Caller : step'[d] # "idle" => call'[d] \in Call
        BY <2>1, <3>1 DEF IInv, TypeOK
    <3> QED
        BY <2>2, <2>3, <3>1, <3>2, <3>3, <3>4 DEF IInv, TypeOK
  <2>5. CASE ~Emits(c)
      BY <1>7, <2>2, <2>3, <2>5, ReturnIInv DEF Update, IInv, TypeOK
  <2> QED
      BY <2>4, <2>5
<1>8. ASSUME Emit(c) \/ EmitLost(c) PROVE IInv'
  <2>1. call[c] \in Call /\ call[c].id \in Id /\ call[c].kind \in AuditEvent
      BY <1>8 DEF Emit, EmitLost, IInv, Call
  <2>2. audited' \in [Id -> SUBSET AuditEvent] /\ unaudited' \in [Id -> SUBSET AuditEvent]
      BY <1>8, <2>1 DEF Emit, EmitLost, IInv, TypeOK
  <2> QED
      BY <1>8, <2>2, ReturnIInv DEF Emit, EmitLost, IInv, TypeOK
<1>9. CASE Abandoned(c)
    BY <1>9, ReturnIInv DEF Abandoned, IInv, TypeOK
<1> QED
    BY <1>2, <1>3, <1>4, <1>5, <1>6, <1>7, <1>8, <1>9 DEF CallStep

LEMMA NextIInv == IInv /\ [Next]_vars => IInv'
<1> SUFFICES ASSUME IInv, [Next]_vars PROVE IInv'
    OBVIOUS
<1>1. ASSUME NEW c \in Caller, NEW i \in Id, NEW p \in Person, Request(c, i, p) PROVE IInv'
  <2>1. PICK n \in RequiredChoices :
            store' = [store EXCEPT ![i] =
               [requester   |-> p,
                required    |-> IF n = 0 THEN DefaultRequired ELSE n,
                state       |-> "pending",
                approvals   |-> <<>>,
                expiresAt   |-> clock + ExpireAfter,
                cancelledAt |-> 0]]
      BY <1>1 DEF Request
  <2> DEFINE m == IF n = 0 THEN DefaultRequired ELSE n
             t == clock + ExpireAfter
             a == [requester |-> p, required |-> m, state |-> "pending",
                   approvals |-> <<>>, expiresAt |-> t, cancelledAt |-> 0]
  <2>2. m \in Nat /\ m > 0 /\ t \in Nat
      BY ApprovalAssumption DEF IInv, TypeOK
  <2>3. a \in Action /\ Sound(a)
    <3> HIDE DEF m, t
    <3> QED
        BY <2>2, RequestSound
  <2>4. store' = [store EXCEPT ![i] = a]
      BY <2>1
  <2> HIDE DEF a
  <2>5. store' \in [Id -> SoundAction] /\ store' \in [Id -> Action]
      BY <2>3, <2>4 DEF IInv, TypeOK, SoundAction
  <2>6. step' \in [Caller -> {"idle", "got", "write", "emit"}]
      BY <1>1 DEF Request, IInv, TypeOK
  <2>7. [kind |-> "request", id |-> i, who |-> p] \in Call
      BY DEF Call, AuditEvent
  <2>8. call' \in [Caller -> Call \cup {NoCall}] /\ call'[c] \in Call
      BY <1>1, <2>7 DEF Request, IInv, TypeOK
  <2>9. \A d \in Caller : step'[d] # "idle" => call'[d] \in Call
      BY <1>1, <2>8 DEF Request, IInv, TypeOK
  <2> QED
      BY <1>1, <2>5, <2>6, <2>8, <2>9 DEF Request, IInv, TypeOK
<1>2. ASSUME NEW c \in Caller, NEW k \in Kind, NEW i \in Id, NEW p \in Person, Get(c, k, i, p)
      PROVE  IInv'
  <2>1. step' \in [Caller -> {"idle", "got", "write", "emit"}]
      BY <1>2 DEF Get, IInv, TypeOK
  <2>2. [kind |-> k, id |-> i, who |-> p] \in Call
      BY DEF Call, AuditEvent
  <2>3. call' \in [Caller -> Call \cup {NoCall}] /\ call'[c] \in Call
      BY <1>2, <2>2 DEF Get, IInv, TypeOK
  <2>4. copy' \in [Caller -> SoundAction] /\ copy' \in [Caller -> Action]
      BY <1>2 DEF Get, IInv, TypeOK, SoundAction
  <2>5. \A d \in Caller : step'[d] # "idle" => call'[d] \in Call
      BY <1>2, <2>3 DEF Get, IInv, TypeOK
  <2> QED
      BY <1>2, <2>1, <2>3, <2>4, <2>5 DEF Get, IInv, TypeOK
<1>3. ASSUME NEW c \in Caller, CallStep(c) PROVE IInv'
    BY <1>3, CallIInv
<1>4. CASE Tick
    BY <1>4, ApprovalAssumption DEF Tick, IInv, TypeOK
<1>5. CASE UNCHANGED vars
    BY <1>5 DEF vars, IInv, TypeOK
<1> QED
    BY <1>1, <1>2, <1>3, <1>4, <1>5 DEF Next

LEMMA SpecIInv == Spec => []IInv
    BY InitIInv, NextIInv, PTL DEF Spec

\* The store and the calls keep their types.
THEOREM ApprovalTypes == Spec => []TypeOK
<1>1. IInv => TypeOK
    BY DEF IInv
<1> QED
    BY SpecIInv, <1>1, PTL

\* coordinator.go: however many calls overwrite each other, what the store calls
\* approved or executed has enough different approvers, and no self-approval.
THEOREM ApprovalFourEyes == Spec => []FourEyes
<1>1. IInv => FourEyes
  <2> SUFFICES ASSUME IInv, NEW i \in Id, store[i].state \in {"approved", "executed"}
               PROVE  /\ Cardinality(Approvers(store[i])) >= store[i].required
                      /\ store[i].requester \notin Approvers(store[i])
                      /\ ~HasReject(store[i])
      BY DEF FourEyes
  <2>1. store[i] \in Action /\ Sound(store[i])
      BY DEF IInv, SoundAction
  <2>2. Cardinality(Approvers(store[i])) = ApproveCount(store[i])
      BY <2>1, CountIsPeople DEF Sound
  <2> QED
      BY <2>1, <2>2 DEF Sound, StateTold, NoSelfVote, Approvers
<1> QED
    BY SpecIInv, <1>1, PTL

-------------------------------------------------------------------------------
(* Actions nobody wrote over.                                              *)

\* What one complete call makes of the action it read.
Decides(old, kind, new) ==
    /\ old.state \in {"pending", "reviewing", "approved"}
    /\ new.approvals = old.approvals \/ \E v \in Vote : new.approvals = Append(old.approvals, v)
    /\ new.state \in CASE kind = "execute" -> {"executed"}
                       [] kind = "cancel"  -> {"cancelled"}
                       [] kind = "reject"  -> {"rejected", "expired"}
                       [] OTHER            -> {"approved", "reviewing", "expired"}
    /\ kind # "request"
    /\ kind = "cancel" /\ old.state = "approved" =>
           new.cancelledAt <= old.approvals[Len(old.approvals)].at + CancelWindow

\* A call's copy is what it read, or the outcome of it.
FromRead(c) ==
    /\ step[c] = "got" => copy[c] = read[c]
    /\ step[c] = "write" => Decides(read[c], call[c].kind, copy[c])
    /\ step[c] \in Deciding => store[call[c].id].state # "none"

AuditTells(i) ==
    /\ store[i].state = "executed"  <=> Recorded(i, "execute")
    /\ store[i].state = "rejected"  <=> Recorded(i, "reject")
    /\ store[i].state = "cancelled" <=> Recorded(i, "cancel")
    /\ store[i].state = "approved"  =>  Recorded(i, "approve")

FollowInv ==
    /\ IInv
    /\ overwrote \subseteq Id
    /\ \A c \in Caller : FromRead(c)
    /\ \A i \in Id : store[i].state = "none" => store[i].approvals = <<>>
    /\ \A i \in Id : store[i].state # "none" <=> Recorded(i, "request")
    /\ \A i \in Id \ overwrote : AuditTells(i)

LEMMA FollowInit == MCInit => FollowInv
<1> SUFFICES ASSUME MCInit PROVE FollowInv
    OBVIOUS
<1>1. /\ \A i \in Id : store[i] = NoAction /\ audited[i] = {} /\ unaudited[i] = {}
      /\ \A c \in Caller : step[c] = "idle"
      /\ overwrote = {}
    BY DEF MCInit, Init
<1>2. NoAction.state = "none" /\ NoAction.approvals = <<>>
    BY DEF NoAction
<1>3. \A i \in Id, k \in AuditEvent : ~Recorded(i, k)
    BY <1>1 DEF Recorded, Owed
<1> QED
    BY <1>1, <1>2, <1>3, InitIInv
    DEF MCInit, FollowInv, FromRead, Deciding, AuditTells, AuditEvent, Kind

\* What a call writes back follows from its copy.
LEMMA WritesDecide ==
    ASSUME IInv, NEW c \in Caller, step[c] = "got",
           CallStep(c), step'[c] = "write"
    PROVE  Decides(copy[c], call[c].kind, copy'[c])
<1>1. /\ copy[c] \in Action /\ call[c] \in Call /\ clock \in Nat
    BY DEF IInv, TypeOK
<1>2. call[c].who \in Person
    BY <1>1 DEF IInv, Call
<1>3. ASSUME Return(c) PROVE FALSE
    BY <1>3 DEF Return, IInv, TypeOK
<1>4. ~Update(c) /\ ~Emit(c) /\ ~EmitLost(c) /\ ~Abandoned(c)
    BY <1>3 DEF Update, Emit, EmitLost, Abandoned
<1>5. CASE ReviewExpires(c)
  <2>1. /\ call[c].kind \in {"approve", "reject"} /\ copy[c].state = "pending"
        /\ copy'[c] = [copy[c] EXCEPT !.state = "expired"]
      BY <1>5 DEF ReviewExpires, Reviewing, Overdue, Write, IInv, TypeOK
  <2>2. copy'[c].state = "expired" /\ copy'[c].approvals = copy[c].approvals
      BY <1>1, <2>1 DEF Action
  <2> QED
      BY <2>1, <2>2 DEF Decides
<1>6. CASE ReviewRefused(c)
    BY <1>3, <1>6 DEF ReviewRefused
<1>7. CASE ReviewVotes(c)
  <2>1. /\ call[c].kind \in {"approve", "reject"} /\ copy[c].state \in {"pending", "reviewing"}
        /\ copy'[c] = Voted(copy[c], call[c].who, call[c].kind)
      BY <1>7 DEF ReviewVotes, Reviewing, MayVote, Write, IInv, TypeOK
  <2> DEFINE v == [reviewer |-> call[c].who, decision |-> call[c].kind, at |-> clock]
             b == [copy[c] EXCEPT !.approvals = Append(@, v)]
             s == IF call[c].kind = "reject" THEN "rejected"
                  ELSE IF ApproveCount(b) >= b.required THEN "approved" ELSE "reviewing"
  <2>2. v \in Vote
      BY <1>1, <1>2, <2>1 DEF Vote
  <2>3. copy'[c] = [b EXCEPT !.state = s]
      BY <2>1, Zenon DEF Voted
  <2>4. s \in IF call[c].kind = "reject" THEN {"rejected"} ELSE {"approved", "reviewing"}
      OBVIOUS
  <2> HIDE DEF v, s
  <2>5. copy'[c].approvals = Append(copy[c].approvals, v) /\ copy'[c].state = s
      BY <1>1, <2>3 DEF Action
  <2> QED
      BY <2>1, <2>2, <2>4, <2>5 DEF Decides
<1>8. CASE Executes(c)
  <2>1. /\ call[c].kind = "execute" /\ copy[c].state = "approved"
        /\ copy'[c] = [copy[c] EXCEPT !.state = "executed"]
      BY <1>3, <1>8 DEF Executes, MayExecute, Write, IInv, TypeOK
  <2>2. copy'[c].state = "executed" /\ copy'[c].approvals = copy[c].approvals
      BY <1>1, <2>1 DEF Action
  <2> QED
      BY <2>1, <2>2 DEF Decides
<1>9. CASE Cancels(c)
  <2>1. /\ call[c].kind = "cancel" /\ copy[c].state \in {"pending", "reviewing", "approved"}
        /\ copy'[c] = [copy[c] EXCEPT !.state = "cancelled", !.cancelledAt = clock]
      BY <1>3, <1>9 DEF Cancels, MayCancel, Write, IInv, TypeOK
  <2>2. /\ copy'[c].state = "cancelled" /\ copy'[c].approvals = copy[c].approvals
        /\ copy'[c].cancelledAt = clock
      BY <1>1, <2>1 DEF Action
  <2>3. copy[c].state = "approved" =>
            clock <= copy[c].approvals[Len(copy[c].approvals)].at + CancelWindow
      BY <1>3, <1>9, <2>1 DEF Cancels, MayCancel
  <2> QED
      BY <2>1, <2>2, <2>3 DEF Decides
<1> QED
    BY <1>4, <1>5, <1>6, <1>7, <1>8, <1>9 DEF CallStep

\* Who is in which step, and what the audit trail has, changes for one call and
\* one action at a time.
LEMMA RecordedKept ==
    ASSUME IInv, NEW c \in Caller, step[c] # "emit", step'[c] # "emit",
           \A d \in Caller \ {c} : step'[d] = step[d] /\ call'[d] = call[d],
           UNCHANGED <<audited, unaudited>>
    PROVE  \A i \in Id, k \in AuditEvent : Recorded(i, k)' <=> Recorded(i, k)
BY DEF Recorded, Owed

\* A call that comes to its Emit owes the event of its kind.
LEMMA RecordedMore ==
    ASSUME IInv, NEW c \in Caller, step[c] # "emit", step'[c] = "emit",
           \A d \in Caller \ {c} : step'[d] = step[d] /\ call'[d] = call[d],
           UNCHANGED <<audited, unaudited>>
    PROVE  \A i \in Id, k \in AuditEvent :
               Recorded(i, k)' <=> Recorded(i, k) \/ (i = call'[c].id /\ k = call'[c].kind)
BY DEF Recorded, Owed

\* Emit, lost or not, settles what was owed.
LEMMA RecordedSettled ==
    ASSUME IInv, NEW c \in Caller, Emit(c) \/ EmitLost(c)
    PROVE  \A i \in Id, k \in AuditEvent : Recorded(i, k)' <=> Recorded(i, k)
<1>1. /\ step[c] = "emit" /\ step'[c] = "idle" /\ call[c] \in Call
      /\ \A d \in Caller \ {c} : step'[d] = step[d] /\ call'[d] = call[d]
    BY DEF Emit, EmitLost, Return, IInv, TypeOK
<1>2. call[c].id \in Id /\ call[c].kind \in AuditEvent
    BY <1>1 DEF Call
<1>3. \A i \in Id, k \in AuditEvent :
          k \in audited'[i] \/ k \in unaudited'[i] <=>
              k \in audited[i] \/ k \in unaudited[i] \/ (i = call[c].id /\ k = call[c].kind)
    BY <1>1, <1>2 DEF Emit, EmitLost, IInv, TypeOK
<1> QED
    BY <1>1, <1>2, <1>3 DEF Recorded, Owed

\* What the steps of a call other than Update and Emit leave alone.
LEMMA QuietStep ==
    ASSUME IInv, NEW c \in Caller, CallStep(c), ~Update(c), ~Emit(c), ~EmitLost(c)
    PROVE  /\ UNCHANGED <<store, audited, unaudited>>
           /\ step[c] \in {"got", "write"} /\ step'[c] \in {"idle", "write"}
           /\ step'[c] = "write" => step[c] = "got" /\ call' = call
           /\ \A d \in Caller \ {c} :
                  step'[d] = step[d] /\ call'[d] = call[d] /\ copy'[d] = copy[d]
<1>1. /\ step[c] \in {"got", "write"} /\ UNCHANGED <<store, audited, unaudited>>
      /\ Return(c) \/ (step[c] = "got" /\ \E a : Write(c, a))
  <2>1. CASE ReviewExpires(c) \/ ReviewVotes(c)
      BY <2>1, Zenon DEF ReviewExpires, ReviewVotes, Reviewing
  <2>2. CASE ReviewRefused(c) \/ Abandoned(c)
      BY <2>2 DEF ReviewRefused, Reviewing, Abandoned
  <2>3. CASE Executes(c) \/ Cancels(c)
      BY <2>3, Zenon DEF Executes, Cancels
  <2> QED
      BY <2>1, <2>2, <2>3 DEF CallStep
<1>2. CASE Return(c)
    BY <1>1, <1>2 DEF Return, IInv, TypeOK
<1>3. CASE step[c] = "got" /\ \E a : Write(c, a)
    BY <1>1, <1>3 DEF Write, IInv, TypeOK
<1> QED
    BY <1>1, <1>2, <1>3

LEMMA FollowNext == FollowInv /\ [MCNext]_mcVars => FollowInv'
<1> SUFFICES ASSUME FollowInv, [MCNext]_mcVars PROVE FollowInv'
    OBVIOUS
<1>1. IInv'
    BY NextIInv DEF FollowInv, MCNext, mcVars
<1>2. CASE UNCHANGED mcVars
    BY <1>1, <1>2 DEF FollowInv, FromRead, AuditTells, Recorded, Owed, mcVars, vars
<1>3. CASE MCNext
  <2>1. /\ IInv /\ Next
        /\ \A c \in Caller : step'[c] \in Deciding =>
               read'[c] = IF step[c] \in Deciding THEN read[c] ELSE store[call'[c].id]
        /\ overwrote' = overwrote \cup
               {call[c].id : c \in {d \in Caller : Update(d) /\ store[call[d].id] # read[d]}}
      BY <1>3 DEF FollowInv, MCNext
  <2>2. overwrote \subseteq overwrote' /\ overwrote' \subseteq Id
    <3>1. \A d \in Caller : Update(d) => call[d].id \in Id
        BY <2>1 DEF Update, IInv, Call
    <3> QED
        BY <2>1, <3>1 DEF FollowInv
  <2> DEFINE Rest == /\ \A c \in Caller : FromRead(c)'
                     /\ \A i \in Id : store'[i].state = "none" => store'[i].approvals = <<>>
                     /\ \A i \in Id : store'[i].state # "none" <=> Recorded(i, "request")'
                     /\ \A i \in Id \ overwrote' : AuditTells(i)'
  <2> SUFFICES Rest
      BY <1>1, <2>2 DEF FollowInv
  <2>3. /\ \A c \in Caller : FromRead(c)
        /\ \A i \in Id : store[i].state = "none" => store[i].approvals = <<>>
        /\ \A i \in Id : store[i].state # "none" <=> Recorded(i, "request")
        /\ \A i \in Id \ overwrote : AuditTells(i)
      BY DEF FollowInv
  <2>4. ASSUME NEW e \in Caller,
               \A d \in Caller \ {e} :
                   step'[d] = step[d] /\ call'[d] = call[d] /\ copy'[d] = copy[d],
               \A i \in Id : store[i].state # "none" => store'[i].state # "none"
        PROVE  \A d \in Caller \ {e} : FromRead(d)'
    <3>1. \A d \in Caller : step[d] # "idle" => call[d].id \in Id
        BY <2>1 DEF IInv, Call
    <3> QED
        BY <2>1, <2>3, <2>4, <3>1 DEF FromRead, Deciding
  <2>5. ASSUME UNCHANGED store, \A i \in Id, k \in AuditEvent : Recorded(i, k)' <=> Recorded(i, k),
               \A c \in Caller : FromRead(c)'
        PROVE  Rest
      BY <2>2, <2>3, <2>5 DEF AuditTells, AuditEvent, Kind
  <2>6. ASSUME NEW c \in Caller, NEW j \in Id, NEW p \in Person, Request(c, j, p) PROVE Rest
    <3>1. /\ step[c] = "idle" /\ step'[c] = "emit" /\ call'[c].id = j /\ call'[c].kind = "request"
          /\ \A d \in Caller \ {c} :
                 step'[d] = step[d] /\ call'[d] = call[d] /\ copy'[d] = copy[d]
          /\ UNCHANGED <<audited, unaudited>>
          /\ store[j].state = "none" /\ store'[j].state = "pending"
          /\ \A i \in Id \ {j} : store'[i] = store[i]
        BY <2>1, <2>6 DEF Request, IInv, TypeOK
    <3>2. \A i \in Id, k \in AuditEvent :
              Recorded(i, k)' <=> Recorded(i, k) \/ (i = j /\ k = "request")
        BY <2>1, <3>1, RecordedMore
    <3>3. \A d \in Caller : FromRead(d)'
        BY <2>4, <3>1 DEF FromRead, Deciding
    <3>4. \A i \in Id \ overwrote' : AuditTells(i)'
        BY <2>2, <2>3, <3>1, <3>2 DEF AuditTells, AuditEvent, Kind
    <3> QED
        BY <2>3, <3>1, <3>2, <3>3, <3>4 DEF AuditEvent
  <2>7. ASSUME NEW c \in Caller, NEW k \in Kind, NEW i \in Id, NEW p \in Person, Get(c, k, i, p)
        PROVE  Rest
    <3>1. /\ step[c] = "idle" /\ step'[c] = "got" /\ copy'[c] = store[i]
          /\ call'[c].id = i /\ call'[c].kind = k
          /\ \A d \in Caller \ {c} :
                 step'[d] = step[d] /\ call'[d] = call[d] /\ copy'[d] = copy[d]
          /\ UNCHANGED <<store, audited, unaudited>> /\ store[i].state # "none"
        BY <2>1, <2>7 DEF Get, IInv, TypeOK
    <3>2. FromRead(c)'
        BY <2>1, <3>1 DEF FromRead, Deciding
    <3>3. \A j \in Id, e \in AuditEvent : Recorded(j, e)' <=> Recorded(j, e)
        BY <2>1, <3>1, RecordedKept
    <3> QED
        BY <2>4, <2>5, <3>1, <3>2, <3>3
  <2>8. ASSUME NEW c \in Caller, CallStep(c), ~Update(c), ~Emit(c), ~EmitLost(c) PROVE Rest
    <3>1. /\ UNCHANGED <<store, audited, unaudited>>
          /\ step[c] \in {"got", "write"} /\ step'[c] \in {"idle", "write"}
          /\ step'[c] = "write" => step[c] = "got" /\ call' = call
          /\ \A d \in Caller \ {c} :
                 step'[d] = step[d] /\ call'[d] = call[d] /\ copy'[d] = copy[d]
        BY <2>1, <2>8, QuietStep
    <3>2. FromRead(c)'
      <4>1. CASE step'[c] = "write"
        <5>1. Decides(copy[c], call[c].kind, copy'[c]) /\ copy[c] = read[c]
            BY <2>1, <2>3, <2>8, <3>1, <4>1, WritesDecide DEF FromRead
        <5>2. read'[c] = read[c] /\ call'[c] = call[c]
            BY <2>1, <3>1, <4>1 DEF Deciding
        <5> QED
            BY <2>3, <3>1, <4>1, <5>1, <5>2 DEF FromRead, Deciding
      <4>2. CASE step'[c] = "idle"
          BY <4>2 DEF FromRead, Deciding
      <4> QED
          BY <3>1, <4>1, <4>2
    <3>3. \A j \in Id, e \in AuditEvent : Recorded(j, e)' <=> Recorded(j, e)
        BY <2>1, <3>1, RecordedKept
    <3> QED
        BY <2>4, <2>5, <3>1, <3>2, <3>3
  <2>9. ASSUME NEW c \in Caller, Emit(c) \/ EmitLost(c) PROVE Rest
    <3>1. /\ UNCHANGED store /\ step'[c] = "idle"
          /\ \A d \in Caller \ {c} :
                 step'[d] = step[d] /\ call'[d] = call[d] /\ copy'[d] = copy[d]
        BY <2>1, <2>9 DEF Emit, EmitLost, Return, IInv, TypeOK
    <3>2. FromRead(c)'
        BY <3>1 DEF FromRead, Deciding
    <3> QED
        BY <2>1, <2>4, <2>5, <2>9, <3>1, <3>2, RecordedSettled
  <2>10. ASSUME NEW c \in Caller, Update(c) PROVE Rest
    <3>0. PICK i \in Id : i = call[c].id
        BY <2>1, <2>10 DEF Update, IInv, Call
    <3>1. /\ step[c] = "write" /\ step'[c] = (IF Emits(c) THEN "emit" ELSE "idle")
          /\ Emits(c) => call' = call
          /\ \A d \in Caller \ {c} :
                 step'[d] = step[d] /\ call'[d] = call[d] /\ copy'[d] = copy[d]
          /\ UNCHANGED <<audited, unaudited>>
          /\ store'[i] = copy[c] /\ \A j \in Id \ {i} : store'[j] = store[j]
        BY <2>1, <2>10, <3>0 DEF Update, Return, IInv, TypeOK
    <3>2. /\ Decides(read[c], call[c].kind, copy[c]) /\ call[c].kind \in AuditEvent
          /\ i \notin overwrote' => read[c] = store[i]
        BY <2>1, <2>3, <2>10, <3>0, <3>1 DEF FromRead, IInv, Call
    <3>5. store[i].state # "none" /\ copy[c].state # "none" /\ call[c].kind # "request"
      <4>1. copy[c].state # "none" /\ call[c].kind # "request"
          BY <3>2 DEF Decides, AuditEvent, Kind
      <4> QED
          BY <2>3, <3>0, <3>1, <4>1 DEF FromRead, Deciding
    <3>3. \A d \in Caller : FromRead(d)'
      <4>1. FromRead(c)'
          BY <3>1 DEF FromRead, Deciding
      <4> QED
          BY <2>4, <3>1, <3>5, <4>1
    <3>4. \A j \in Id, k \in AuditEvent :
              Recorded(j, k)' <=>
                  Recorded(j, k) \/ (j = i /\ k = call[c].kind /\ copy[c].state # "expired")
      <4>1. CASE Emits(c)
          BY <2>1, <3>0, <3>1, <4>1, RecordedMore DEF Emits
      <4>2. CASE ~Emits(c)
          BY <2>1, <3>0, <3>1, <4>2, RecordedKept DEF Emits
      <4> QED
          BY <4>1, <4>2
    <3>6. i \notin overwrote' => AuditTells(i)'
      <4> SUFFICES ASSUME i \notin overwrote' PROVE AuditTells(i)'
          OBVIOUS
      <4>1. Decides(store[i], call[c].kind, store'[i]) /\ AuditTells(i)
          BY <2>2, <2>3, <3>1, <3>2
      <4>2. ~Recorded(i, "execute") /\ ~Recorded(i, "reject") /\ ~Recorded(i, "cancel")
          BY <4>1 DEF Decides, AuditTells
      <4>3. \A k \in Kind : Recorded(i, k)' <=>
                                Recorded(i, k) \/ (k = call[c].kind /\ store'[i].state # "expired")
          BY <3>1, <3>4 DEF AuditEvent
      <4>4. CASE call[c].kind = "execute"
          BY <4>1, <4>2, <4>3, <4>4 DEF Decides, AuditTells, Kind
      <4>5. CASE call[c].kind = "cancel"
          BY <4>1, <4>2, <4>3, <4>5 DEF Decides, AuditTells, Kind
      <4>6. CASE call[c].kind = "reject"
          BY <4>1, <4>2, <4>3, <4>6 DEF Decides, AuditTells, Kind
      <4>7. CASE call[c].kind = "approve"
          BY <4>1, <4>2, <4>3, <4>7 DEF Decides, AuditTells, Kind
      <4> QED
          BY <3>2, <3>5, <4>4, <4>5, <4>6, <4>7 DEF AuditEvent, Kind
    <3>7. \A j \in Id \ overwrote' : AuditTells(j)'
      <4> TAKE j \in Id \ overwrote'
      <4>1. CASE j = i
          BY <3>6, <4>1
      <4>2. CASE j # i
          BY <2>2, <2>3, <3>1, <3>4, <4>2 DEF AuditTells, AuditEvent, Kind
      <4> QED
          BY <4>1, <4>2
    <3> QED
        BY <2>3, <3>1, <3>3, <3>4, <3>5, <3>7 DEF AuditEvent
  <2>11. CASE Tick
    <3>1. UNCHANGED <<store, audited, unaudited, step, call, copy>>
        BY <2>11 DEF Tick
    <3>2. \A c \in Caller : FromRead(c)'
        BY <2>1, <2>3, <3>1 DEF FromRead, Deciding
    <3> QED
        BY <2>5, <3>1, <3>2 DEF Recorded, Owed
  <2> QED
      BY <2>1, <2>6, <2>7, <2>8, <2>9, <2>10, <2>11 DEF Next
<1> QED
    BY <1>2, <1>3

LEMMA MCSpecFollow == MCSpec => []FollowInv
    BY FollowInit, FollowNext, PTL DEF MCSpec

\* coordinator.go: however calls end, the audit trail of an action nobody wrote
\* over tells how it was decided, unless the Emit was lost.
THEOREM ApprovalAuditTells == MCSpec => []AuditTellsOutcome
<1>1. FollowInv => AuditTellsOutcome
    BY DEF FollowInv, AuditTells, AuditTellsOutcome
<1> QED
    BY MCSpecFollow, <1>1, PTL

\* Any step that changes a stored action is Request's, or an Update's that makes
\* one decision of the action in the store, or writes over it.
LEMMA ChangedBy ==
    ASSUME FollowInv, MCNext, NEW i \in Id \ overwrote', store'[i] # store[i]
    PROVE  /\ store[i] \in Action /\ store'[i] \in Action
           /\ \/ /\ store[i].state = "none" /\ store[i].approvals = <<>>
                 /\ store'[i].state = "pending" /\ store'[i].approvals = <<>>
              \/ \E k : Decides(store[i], k, store'[i])
<1>1. IInv /\ Next /\ IInv'
    BY NextIInv DEF FollowInv, MCNext
<1>2. store[i] \in Action /\ store'[i] \in Action
    BY <1>1 DEF IInv, TypeOK
<1>3. ASSUME NEW c \in Caller, NEW j \in Id, NEW p \in Person, Request(c, j, p)
      PROVE  /\ store[i].state = "none" /\ store[i].approvals = <<>>
             /\ store'[i].state = "pending" /\ store'[i].approvals = <<>>
    BY <1>1, <1>3 DEF Request, IInv, TypeOK, FollowInv
<1>4. ASSUME NEW c \in Caller, Update(c) PROVE \E k : Decides(store[i], k, store'[i])
  <2>1. call[c].id = i /\ store'[i] = copy[c] /\ step[c] = "write"
      BY <1>1, <1>4 DEF Update, IInv, TypeOK
  <2>2. read[c] = store[i]
      BY <1>4, <2>1 DEF MCNext
  <2> QED
      BY <2>1, <2>2 DEF FollowInv, FromRead
<1>5. ASSUME NEW c \in Caller, CallStep(c), ~Update(c) PROVE FALSE
    BY <1>1, <1>5, QuietStep DEF Emit, EmitLost
<1> QED
    BY <1>1, <1>2, <1>3, <1>4, <1>5 DEF Next, Get, Tick

\* types.go, MarkExecuted: a decided action nobody writes over stays as it is, and
\* votes are only added.
THEOREM ApprovalDecidedIsFinal == MCSpec => DecidedIsFinal
<1> DEFINE Kept(old, new) ==
        /\ old.state \in {"rejected", "executed", "cancelled", "expired"} => new = old
        /\ Len(old.approvals) <= Len(new.approvals)
        /\ SubSeq(new.approvals, 1, Len(old.approvals)) = old.approvals
<1>1. ASSUME NEW a \in Action, NEW b \in Action, b.approvals = a.approvals
      PROVE  /\ Len(a.approvals) <= Len(b.approvals)
             /\ SubSeq(b.approvals, 1, Len(a.approvals)) = a.approvals
    BY <1>1 DEF Action
<1>2. ASSUME NEW a \in Action, NEW b \in Action, NEW v \in Vote,
             b.approvals = Append(a.approvals, v)
      PROVE  /\ Len(a.approvals) <= Len(b.approvals)
             /\ SubSeq(b.approvals, 1, Len(a.approvals)) = a.approvals
    BY <1>2 DEF Action
<1>3. FollowInv /\ [MCNext]_mcVars => [\A i \in Id \ overwrote' : Kept(store[i], store'[i])]_vars
  <2> SUFFICES ASSUME FollowInv, MCNext, NEW i \in Id \ overwrote'
               PROVE  Kept(store[i], store'[i])
      BY DEF vars, mcVars
  <2>1. CASE store'[i] = store[i]
      BY <1>1, <2>1 DEF FollowInv, IInv, TypeOK
  <2>2. CASE store'[i] # store[i]
    <3>1. /\ store[i] \in Action /\ store'[i] \in Action
          /\ \/ /\ store[i].state = "none" /\ store[i].approvals = <<>>
                /\ store'[i].state = "pending" /\ store'[i].approvals = <<>>
             \/ \E k : Decides(store[i], k, store'[i])
        BY <2>2, ChangedBy
    <3> QED
        BY <1>1, <1>2, <3>1 DEF Decides
  <2> QED
      BY <2>1, <2>2
<1> QED
    BY MCSpecFollow, <1>3, PTL DEF MCSpec, DecidedIsFinal

\* doc.go: an action nobody writes over is withdrawn while it is under review, or
\* within CancelWindow of its last vote.
THEOREM ApprovalWithdrawnInWindow == MCSpec => WithdrawnInWindow
<1> DEFINE Allowed(old, new) ==
        old.state # "cancelled" /\ new.state = "cancelled" =>
            \/ old.state \in {"pending", "reviewing"}
            \/ /\ old.state = "approved"
               /\ new.cancelledAt <= old.approvals[Len(old.approvals)].at + CancelWindow
<1>1. FollowInv /\ [MCNext]_mcVars => [\A i \in Id \ overwrote' : Allowed(store[i], store'[i])]_vars
  <2> SUFFICES ASSUME FollowInv, MCNext, NEW i \in Id \ overwrote',
                      store[i].state # "cancelled", store'[i].state = "cancelled"
               PROVE  \/ store[i].state \in {"pending", "reviewing"}
                      \/ /\ store[i].state = "approved"
                         /\ store'[i].cancelledAt <=
                                store[i].approvals[Len(store[i].approvals)].at + CancelWindow
      BY DEF vars, mcVars
  <2>1. PICK k : Decides(store[i], k, store'[i])
      BY ChangedBy
  <2>2. k = "cancel"
      BY <2>1 DEF Decides
  <2> QED
      BY <2>1, <2>2 DEF Decides
<1> QED
    BY MCSpecFollow, <1>1, PTL DEF MCSpec, WithdrawnInWindow
===============================================================================
