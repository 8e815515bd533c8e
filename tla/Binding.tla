------------------------------- MODULE Binding -------------------------------
(***************************************************************************)
(* A struct bound to a key of the config client (configcenter/client.go,   *)
(* Bind and fireListeners).  Bind decodes what Get serves and only then    *)
(* registers its listener; the watch loop loads a snapshot, stores the     *)
(* next one and then fires the listeners, the swapper loads, fires them    *)
(* and then stores, and the two take no common lock.  A value is its       *)
(* version; 0 is none.  One key, whose changes take effect at once or are  *)
(* scheduled, beside others; a value expires some time.                    *)
(***************************************************************************)
EXTENDS Naturals

CONSTANTS MaxChanges,     \* bound: changes the server sends
          Broken          \* the versions that do not decode

ASSUME BindingAssumption == MaxChanges \in Nat

VARIABLES last,           \* the last version sent by the server
          age,            \* per version: its time is to come, has come, is over
          active, pending,  \* the key's cacheEntry
          fallback,       \* the active value of the snapshot before
          watch, swap,    \* onEvent and maybeSwap: where, with which value
          binder,         \* the caller of Bind
          bound,          \* what dst points to
          missed,         \* history: dst was not told of a change, and of none since
          crossed         \* history: onEvent and maybeSwap were last at work together

biVars == <<last, age, active, pending, fallback, watch, swap, binder, bound, missed, crossed>>

Change == {"immediate", "scheduled", "delete", "otherKey"}
Off == [at |-> "idle", val |-> 0, active |-> 0, pending |-> 0]
Running == watch.at # "idle" \/ swap.at # "idle"
\* IsEffective.
InForce(v) == v # 0 /\ age[v] = "now"

BiInit ==
  /\ last = 0 /\ age = [v \in 1 .. MaxChanges |-> "early"]
  /\ active = 0 /\ pending = 0 /\ fallback = 0
  /\ watch = Off /\ swap = Off
  /\ binder = "before" /\ bound = 0
  /\ missed = FALSE /\ crossed = FALSE

-----------------------------------------------------------------------------
\* fireListeners: a bind that fails leaves dst alone.
Decoded(v) == IF v # 0 /\ v \notin Broken THEN v ELSE bound
Fire(v) ==
  /\ bound' = IF binder = "listening" THEN Decoded(v) ELSE bound
  /\ missed' = IF binder = "listening" /\ v \notin Broken THEN FALSE
               ELSE missed \/ binder = "read"

\* Time: what is scheduled comes into effect, what is in effect expires.
TimePasses ==
  /\ \E v \in 1 .. last :
       \/ age[v] = "early" /\ age' = [age EXCEPT ![v] = "now"]
       \/ age[v] = "now" /\ age' = [age EXCEPT ![v] = "over"]
  /\ UNCHANGED <<last, active, pending, fallback, watch, swap, binder, bound, missed, crossed>>

\* onEvent receives a change of this key, or of another one, and loads the
\* snapshot it starts from.
EventLoads(kind) ==
  /\ watch = Off
  /\ IF kind = "otherKey" THEN UNCHANGED <<last, age>>
     ELSE /\ last < MaxChanges /\ last' = last + 1
          /\ age' = [age EXCEPT ![last'] = CASE kind = "immediate" -> "now"
                                             [] kind = "delete"    -> "over"
                                             [] OTHER              -> @]
  /\ watch' = [at |-> kind, val |-> last', active |-> active, pending |-> pending]
  /\ crossed' = (swap # Off \/ (crossed /\ kind # "immediate"))
  /\ UNCHANGED <<active, pending, fallback, swap, binder, bound, missed>>

\* An immediate value replaces the entry and will be announced, a scheduled one
\* waits in the entry beside the active value, a deletion empties it.
EventStores ==
  /\ watch.at \in Change
  /\ fallback' = watch.active
  /\ CASE watch.at = "immediate" -> active' = watch.val    /\ pending' = 0
       [] watch.at = "scheduled" -> active' = watch.active /\ pending' = watch.val
       [] watch.at = "delete"    -> active' = 0            /\ pending' = 0
       [] OTHER -> active' = watch.active /\ pending' = watch.pending
  /\ missed' = (missed \/ (watch.at = "scheduled" /\ pending # 0 /\ bound = pending))
  /\ watch' = IF watch.at = "immediate" THEN [watch EXCEPT !.at = "fire"] ELSE Off
  /\ UNCHANGED <<last, age, swap, binder, bound, crossed>>

WatchFires ==
  /\ watch.at = "fire"
  /\ Fire(watch.val)
  /\ watch' = Off
  /\ UNCHANGED <<last, age, active, pending, fallback, swap, binder, crossed>>

\* Mutant: the swap is not announced.
SwapSilently ==
  /\ swap = Off /\ InForce(pending)
  /\ swap' = [at |-> "store", val |-> pending, active |-> active, pending |-> pending]
  /\ crossed' = (watch # Off)
  /\ UNCHANGED <<last, age, active, pending, fallback, watch, binder, bound, missed>>

\* maybeSwap: the pending value is due; it fires, then stores.
SwapFires ==
  /\ swap = Off /\ InForce(pending)
  /\ Fire(pending)
  /\ swap' = [at |-> "store", val |-> pending, active |-> active, pending |-> pending]
  /\ crossed' = (watch # Off)
  /\ UNCHANGED <<last, age, active, pending, fallback, watch, binder>>

\* Another key's pending value is due: the whole snapshot will be stored anew.
SwapOther ==
  /\ swap = Off /\ ~InForce(pending)
  /\ swap' = [at |-> "otherKey", val |-> 0, active |-> active, pending |-> pending]
  /\ crossed' = (crossed \/ watch # Off)
  /\ UNCHANGED <<last, age, active, pending, fallback, watch, binder, bound, missed>>

SwapStores ==
  /\ \/ swap.at = "store"    /\ active' = swap.val    /\ pending' = 0
     \/ swap.at = "otherKey" /\ active' = swap.active /\ pending' = swap.pending
  /\ fallback' = swap.active
  /\ swap' = Off
  /\ UNCHANGED <<last, age, watch, binder, bound, missed, crossed>>

\* Get: a pending value that is due, else the active one, else the active one of
\* the snapshot before.
Get == IF InForce(pending) THEN pending
       ELSE IF InForce(active) THEN active
       ELSE IF InForce(fallback) THEN fallback ELSE 0

\* Bind: the value of now, then the listener.
BindReads ==
  /\ binder = "before"
  /\ binder' = "read"
  /\ bound' = Decoded(Get)
  /\ missed' = (missed \/ Get \in Broken)
  /\ UNCHANGED <<last, age, active, pending, fallback, watch, swap, crossed>>

BindListens ==
  /\ binder = "read"
  /\ binder' = "listening"
  /\ UNCHANGED <<last, age, active, pending, fallback, watch, swap, bound, missed, crossed>>

BiNext ==
  \/ TimePasses
  \/ \E kind \in Change : EventLoads(kind)
  \/ EventStores \/ WatchFires
  \/ SwapFires \/ SwapOther \/ SwapStores
  \/ BindReads \/ BindListens
BiSpec == BiInit /\ [][BiNext]_biVars

-----------------------------------------------------------------------------
BiTypeOK ==
  /\ last \in 0 .. MaxChanges
  /\ age \in [1 .. MaxChanges -> {"early", "now", "over"}]
  /\ {active, pending, fallback, bound} \subseteq 0 .. last
  /\ binder \in {"before", "read", "listening"}

\* With the listener registered and nobody at work, the bound struct is the
\* active value while that is in effect and decodes, or the pending value if Bind
\* already read that from Get.  The exceptions of the code are the ones the
\* history names (Bind, fireListeners, onEvent).  missed, until the next change
\* that is announced: a change fell between Bind's read and its registration,
\* Bind read a value that does not decode, or a scheduled change took the slot of
\* the due value that Bind had read, so that Get goes back and the struct does
\* not.  crossed: two goroutines may leave the older value.
BoundFollows ==
  /\ binder = "listening" /\ ~Running /\ ~missed /\ ~crossed
  /\ InForce(active) /\ active \notin Broken
  => bound = active \/ (pending # 0 /\ bound = pending)
=============================================================================
