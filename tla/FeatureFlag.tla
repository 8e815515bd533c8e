----------------------------- MODULE FeatureFlag -----------------------------
(***************************************************************************)
(* One boolean flag (featureflag/flag.go, source.go): loaded at New and    *)
(* then by a poll that keeps the last table when the source fails, and     *)
(* decided for a key by the lists, the rollout percentage and the default, *)
(* in that order.  The hash of a key is a constant bucket; the full        *)
(* percentage is Full (100 in the code).  A source without the flag, or    *)
(* with a table that does not parse, is one of what the administrators     *)
(* (external) may leave there.                                             *)
(***************************************************************************)
EXTENDS Naturals

CONSTANTS Who,          \* the keys a flag is asked for, "" among them
          Nobody,       \* "": no key
          KeyBucket,       \* bucket(key, name)
          Full,         \* 100
          Listed,       \* keys that may be on the two lists
          MaxEdits, MaxLoadFaults    \* bounds

ASSUME FlagAssumption ==
  /\ Nobody \in Who /\ Listed \subseteq Who
  /\ Full \in Nat \ {0} /\ KeyBucket \in [Who \ {Nobody} -> 0 .. Full - 1]
  /\ MaxEdits \in Nat /\ MaxLoadFaults \in Nat

VARIABLES source,       \* the flag in the config center
          flag,         \* the flag in FeatureFlag.flags
          poller,       \* the background poll
          edits, loadFaults

ffVars == <<source, flag, poller, edits, loadFaults>>

Flag == [percent : 0 .. Full, default : {"none", "on", "off"},
         include : SUBSET Listed, exclude : SUBSET Listed]
\* flagOf, of a name that is not in the table.
Unset == [percent |-> 0, default |-> "none", include |-> {}, exclude |-> {}]

-----------------------------------------------------------------------------

BoolFor(f, k) ==
  IF k \in f.include \cup f.exclude THEN k \in f.include
  ELSE IF k # Nobody /\ f.percent \in 1 .. Full - 1 THEN KeyBucket[k] < f.percent
  ELSE f.percent >= Full \/ f.default = "on"

-----------------------------------------------------------------------------
FfInit ==
  /\ source \in Flag
  /\ flag = Unset
  /\ poller = "new"
  /\ edits = 0
  /\ loadFaults = 0

\* External: an administrator saves the flag.
EditFlag ==
  /\ edits < MaxEdits
  /\ edits' = edits + 1
  /\ source' \in Flag
  /\ UNCHANGED <<flag, poller, loadFaults>>

\* reload, at New and at every tick; at New a failure stores the empty table.
Reload ==
  /\ poller \in {"new", "polling"}
  /\ flag' = source
  /\ poller' = "polling"
  /\ UNCHANGED <<source, edits, loadFaults>>

\* Mutant: a poll that fails forgets the flags.
ReloadForgets ==
  /\ poller \in {"new", "polling"}
  /\ loadFaults < MaxLoadFaults
  /\ loadFaults' = loadFaults + 1
  /\ poller' = "polling"
  /\ flag' = Unset
  /\ UNCHANGED <<source, edits>>

ReloadFails ==
  /\ poller \in {"new", "polling"}
  /\ loadFaults < MaxLoadFaults
  /\ loadFaults' = loadFaults + 1
  /\ poller' = "polling"
  /\ UNCHANGED <<source, flag, edits>>

StopPolling ==
  /\ poller = "polling"
  /\ poller' = "stopped"
  /\ UNCHANGED <<source, flag, edits, loadFaults>>

FfNext == EditFlag \/ Reload \/ ReloadFails \/ StopPolling
FfSpec == FfInit /\ [][FfNext]_ffVars
\* The ticker fires for ever and bounded failures leave it polls that succeed.
FfFair == WF_ffVars(Reload)

-----------------------------------------------------------------------------
FfTypeOK ==
  /\ source \in Flag /\ flag \in Flag
  /\ poller \in {"new", "polling", "stopped"}
  /\ edits \in 0 .. MaxEdits /\ loadFaults \in 0 .. MaxLoadFaults

\* A rollout that is only raised never turns the flag off for a key that had
\* it, whatever polls fail in between: a key keeps its bucket, the lists win
\* over it, and a poll that fails keeps the last table.  The code's one exception is
\* in the statement: a flag whose default is on has every key at percentage 0
\* and only the bucketed ones once the percentage is raised (BoolFor).
RolloutOnlyGrows ==
  [][\A k \in Who :
       BoolFor(flag, k) /\ ~BoolFor(flag, k)'
       => /\ flag' = source
          /\ \/ flag'.percent < flag.percent
             \/ [flag' EXCEPT !.percent = flag.percent] # flag
             \/ flag.default = "on" /\ flag.percent = 0]_ffVars

\* Every flag saved has to be served unless the poll is stopped (pollLoop).
FfOwed == poller # "stopped" /\ flag # source
=============================================================================
