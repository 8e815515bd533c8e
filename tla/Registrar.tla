------------------------------ MODULE Registrar ------------------------------
(* A service's registration (serviceregistry/registrar.go, selfregister.go): *)
(* calls of Register, each with a lease named after it, and of Close, which  *)
(* may overlap.  Register tests leaseID under the lock, lets the lock go and *)
(* sets it at its end.                                                       *)
EXTENDS Naturals

CONSTANTS RegCall,        \* calls of Register
          MaxRegFaults    \* bound: calls of etcd that fail, leases lost
ASSUME RegistrarAssumption == 0 \notin RegCall /\ MaxRegFaults \in Nat

VARIABLES regPc,      \* where a call of Register is
          leases,     \* live at etcd, with their endpoint
          kept,       \* leases a keepalive of this process renews
          leaseID,    \* the Registrar's, 0 if none
          closing,    \* "open", "revoke", "closed"
          revoking,   \* the lease Close revokes
          overlapped, \* a call began before another one's end, or after Close
          regFaults
reVars == <<regPc, leases, kept, leaseID, closing, revoking, overlapped, regFaults>>

Busy == \E c \in RegCall : regPc[c] \in {"tested", "granted"}
RegFault == regFaults < MaxRegFaults /\ regFaults' = regFaults + 1
At(c, where) == regPc' = [regPc EXCEPT ![c] = where]

ReInit ==
    /\ regPc = [c \in RegCall |-> "none"] /\ leases = {} /\ kept = {} /\ leaseID = 0
    /\ closing = "open" /\ revoking = 0 /\ overlapped = FALSE /\ regFaults = 0
-----------------------------------------------------------------------------
Register(c) ==
    /\ regPc[c] = "none" /\ At(c, IF leaseID # 0 THEN "refused" ELSE "tested")
    /\ overlapped' = (overlapped \/ Busy \/ closing # "open")
    /\ UNCHANGED <<leases, kept, leaseID, closing, revoking, regFaults>>
\* Grant and AddEndpoint.
Publish_(c) ==
    /\ regPc[c] = "tested" /\ At(c, "granted") /\ leases' = leases \cup {c}
    /\ UNCHANGED <<kept, leaseID, closing, revoking, overlapped, regFaults>>
\* KeepAlive, and the fields are set.
Adopt(c) ==
    /\ regPc[c] = "granted" /\ At(c, "ok")
    /\ kept' = kept \cup {c} /\ leaseID' = c
    /\ UNCHANGED <<leases, closing, revoking, overlapped, regFaults>>
\* One of the three calls fails; what was granted is revoked, or expires.
RegisterFails(c) ==
    /\ regPc[c] \in {"tested", "granted"} /\ RegFault /\ At(c, "failed")
    /\ leases' \in {leases, leases \ {c}}
    /\ UNCHANGED <<kept, leaseID, closing, revoking, overlapped>>
\* Mutant: does not cancel the keepalive.
CloseRegKeeps ==
    /\ closing = "open" /\ closing' = "revoke" /\ revoking' = leaseID /\ leaseID' = 0
    /\ overlapped' = (overlapped \/ Busy)
    /\ UNCHANGED <<regPc, leases, kept, regFaults>>
\* Close: once only; the keepalive is cancelled, then the lease revoked.
CloseReg ==
    /\ closing = "open" /\ closing' = "revoke" /\ revoking' = leaseID
    /\ kept' = kept \ {leaseID} /\ leaseID' = 0
    /\ overlapped' = (overlapped \/ Busy)
    /\ UNCHANGED <<regPc, leases, regFaults>>
Revoke ==
    /\ closing = "revoke" /\ closing' = "closed"
    /\ \/ leases' = leases \ {revoking} /\ UNCHANGED regFaults
       \/ leases' = leases /\ RegFault
    /\ UNCHANGED <<regPc, kept, leaseID, revoking, overlapped>>
\* A lease without a keepalive.
Expire ==
    /\ \E c \in leases \ kept : regPc[c] # "granted" /\ leases' = leases \ {c}
    /\ UNCHANGED <<regPc, kept, leaseID, closing, revoking, overlapped, regFaults>>
\* etcd was out of reach for longer than the lease: the keepalive ends, and
\* nobody registers again.
KeepAliveEnds ==
    /\ \E c \in kept : kept' = kept \ {c} /\ RegFault
    /\ UNCHANGED <<regPc, leases, leaseID, closing, revoking, overlapped>>

ReNext ==
    \/ CloseReg \/ Revoke \/ Expire \/ KeepAliveEnds
    \/ \E c \in RegCall : Register(c) \/ Publish_(c) \/ Adopt(c) \/ RegisterFails(c)
ReSpec == ReInit /\ [][ReNext]_reVars
ReFair == /\ WF_reVars(Expire) /\ WF_reVars(Revoke) /\ WF_reVars(CloseReg)
          /\ \A c \in RegCall : WF_reVars(Publish_(c) \/ Adopt(c))
-----------------------------------------------------------------------------
ReTypeOK ==
    /\ regPc \in [RegCall -> {"none", "refused", "tested", "granted", "ok", "failed"}]
    /\ leases \subseteq RegCall /\ kept \subseteq RegCall
    /\ leaseID \in RegCall \cup {0} /\ revoking \in RegCall \cup {0}
    /\ closing \in {"open", "revoke", "closed"}
    /\ overlapped \in BOOLEAN /\ regFaults \in 0 .. MaxRegFaults

\* As long as calls do not overlap and none follows Close, a closed service has
\* to leave the registry, whatever failed: every keepalive is the Registrar's
\* own, which Close cancels, and callers do not dial an address that is gone for
\* ever.
ReOwed == closing = "closed" /\ ~overlapped /\ leases # {}
=============================================================================
