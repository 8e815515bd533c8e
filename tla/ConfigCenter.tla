---------------------------- MODULE ConfigCenter ----------------------------
(* The client of the config center (configcenter/client.go).  A snapshot of  *)
(* every key is replaced as a whole by two goroutines, the watch loop and    *)
(* the swapper; each loads it, builds the next one and stores that, with no  *)
(* lock, so that these are steps of their own.  A value is its version: 0 is *)
(* none.  Only the actives of the previous snapshot are kept of the chain of *)
(* fallbacks, because Get looks no further.                                  *)
EXTENDS Naturals, Sequences

CONSTANTS Key,          \* keys of the namespace
          Shape,        \* [kind, from, until] a change may have
          MaxVersion,   \* bound: changes published
          MaxTime,      \* bound: the clock
          MaxDrops      \* bound: streams that break, initial loads that fail

ASSUME ConfigAssumption ==
    /\ Key # {}
    /\ Shape \subseteq [kind : {"update", "delete"}, from : Nat, until : Nat]
    /\ MaxVersion \in Nat /\ MaxTime \in Nat /\ MaxDrops \in Nat

VARIABLES published,    \* changes by version, at the server
          clock,
          phase,        \* "init" until initialLoad returns, then "run"
          stream,       \* the open Watch call and the last version it sent
          cache,        \* the stored snapshot
          maxVersion,   \* where the next Watch call resumes
          watch,        \* the watch goroutine inside onEvent
          swap,         \* the swapper inside maybeSwap
          drops
cfgVars == <<published, clock, phase, stream, cache, maxVersion, watch, swap,
             drops>>

Version == 1 .. Len(published)
Snapshot == [active : [Key -> 0 .. MaxVersion], pending : [Key -> 0 .. MaxVersion],
             back : [Key -> 0 .. MaxVersion]]
NoKeys == [k \in Key |-> 0]
Empty == [active |-> NoKeys, pending |-> NoKeys, back |-> NoKeys]
IsEffective(v, t) ==
    v # 0 /\ published[v].from <= t /\ t < published[v].until

\* What Get(key) returns now; 0 is ErrNotFound or ErrNotEffective.
Get(k) ==
    IF IsEffective(cache.pending[k], clock) THEN cache.pending[k]
    ELSE IF IsEffective(cache.active[k], clock) THEN cache.active[k]
    ELSE IF IsEffective(cache.back[k], clock) THEN cache.back[k] ELSE 0

\* Mutant: an immediate value leaves the pending one in its slot.
RouteKeepsPending(old, v, t) ==
    LET k == published[v].key
        next == [old EXCEPT !.back = old.active]
    IN  IF IsEffective(v, t) THEN [next EXCEPT !.active[k] = v]
        ELSE IF published[v].from > t THEN [next EXCEPT !.pending[k] = v]
        ELSE next
\* Mutant: a value in force is not replaced.
RouteFirstWins(old, v, t) ==
    IF old.active[published[v].key] # 0 THEN [old EXCEPT !.back = old.active]
    ELSE RouteKeepsPending(old, v, t)
\* The snapshot after value v was routed to the active or the pending slot.
Route(old, v, t) ==
    LET k == published[v].key
        next == [old EXCEPT !.back = old.active]
    IN  IF IsEffective(v, t) THEN [next EXCEPT !.active[k] = v, !.pending[k] = 0]
        ELSE IF published[v].from > t THEN [next EXCEPT !.pending[k] = v]
        ELSE next
Removed(old, k) ==
    [active |-> [old.active EXCEPT ![k] = 0],
     pending |-> [old.pending EXCEPT ![k] = 0], back |-> old.active]
\* What onEvent stores.
Applied(old, v, t) ==
    IF published[v].kind = "delete" THEN Removed(old, published[v].key)
    ELSE Route(old, v, t)
\* Mutant: due only after its second.
DueLate(old, t) == {k \in Key : IsEffective(old.pending[k], t)
                                /\ published[old.pending[k]].from < t}
\* Mutant: clears the slot and promotes nothing.
SwappedAway(old, t) == [old EXCEPT !.pending = NoKeys, !.back = old.active]
\* What maybeSwap stores: pending values that are due become active.
Due(old, t) == {k \in Key : IsEffective(old.pending[k], t)}
Swapped(old, t) ==
    [active |-> [k \in Key |-> IF k \in Due(old, t) THEN old.pending[k]
                               ELSE old.active[k]],
     pending |-> [k \in Key |-> IF k \in Due(old, t) THEN 0 ELSE old.pending[k]],
     back |-> old.active]

\* A later change of the key is published.
Superseded(v) == \E w \in Version : w > v /\ published[w].key = published[v].key
\* The server leaves out what a later change of the key has superseded and,
\* in the snapshot of a stream opened at 0, deletions.
LeavesOut(v) ==
    \/ Superseded(v)
    \/ v <= stream.snap /\ published[v].kind = "delete"
Sends(v) ==
    /\ stream.up /\ v > stream.sent
    /\ \A u \in stream.sent + 1 .. v - 1 : LeavesOut(u)
    /\ stream' = [stream EXCEPT !.sent = v]
\* The version to resume after; onEvent returns early on a deletion.
Advanced(v) ==
    maxVersion' = IF published[v].kind # "delete" /\ v > maxVersion THEN v ELSE maxVersion

NoWatch == [pc |-> "idle", ev |-> 0, old |-> Empty, at |-> 0]
NoSwap == [pc |-> "idle", old |-> Empty, at |-> 0]
Open(since) ==
    stream' = [up |-> TRUE, sent |-> since, snap |-> IF since = 0 THEN Len(published) ELSE 0]

CfgInit ==
    /\ published = <<>> /\ clock = 0 /\ phase = "init"
    /\ stream = [up |-> FALSE, sent |-> 0, snap |-> 0]
    /\ cache = Empty /\ maxVersion = 0 /\ watch = NoWatch /\ swap = NoSwap
    /\ drops = 0
-----------------------------------------------------------------------------
\* The administrators' side, external.
Publish ==
    /\ Len(published) < MaxVersion
    /\ \E k \in Key, s \in Shape :
          published' = Append(published, [key |-> k, kind |-> s.kind, from |-> s.from,
                                          until |-> s.until])
    /\ UNCHANGED <<clock, phase, stream, cache, maxVersion, watch, swap, drops>>
Tick ==
    /\ clock < MaxTime /\ clock' = clock + 1
    /\ UNCHANGED <<published, phase, stream, cache, maxVersion, watch, swap, drops>>

\* initialLoad: Watch from 0, each event applied by applyEvent, which does not
\* look at its type; nobody else uses the client yet.
InitWatch ==
    /\ phase = "init" /\ ~stream.up /\ Open(0)
    /\ UNCHANGED <<published, clock, phase, cache, maxVersion, watch, swap, drops>>
ApplyEvent ==
    /\ phase = "init"
    /\ \E v \in Version :
          /\ Sends(v)
          /\ cache' = Route(cache, v, clock)
          /\ maxVersion' = IF v > maxVersion THEN v ELSE maxVersion
    /\ UNCHANGED <<published, clock, phase, watch, swap, drops>>
\* The time is up, or the server closed the stream.
InitDone ==
    /\ phase = "init" /\ stream.up
    /\ phase' = "run" /\ stream' = [stream EXCEPT !.up = FALSE]
    /\ UNCHANGED <<published, clock, cache, maxVersion, watch, swap, drops>>
\* The call failed: NewFromViper builds a new client and loads again.
InitFailed ==
    /\ phase = "init" /\ stream.up /\ drops < MaxDrops
    /\ drops' = drops + 1
    /\ stream' = [stream EXCEPT !.up = FALSE] /\ cache' = Empty /\ maxVersion' = 0
    /\ UNCHANGED <<published, clock, phase, watch, swap>>

\* watchLoop: the stream breaks between two events and is opened again.
Disconnect ==
    /\ phase = "run" /\ stream.up /\ watch.pc = "idle" /\ drops < MaxDrops
    /\ drops' = drops + 1 /\ stream' = [stream EXCEPT !.up = FALSE]
    /\ UNCHANGED <<published, clock, phase, cache, maxVersion, watch, swap>>
\* Mutant: only what is published from now on.
ReconnectAtEnd ==
    /\ phase = "run" /\ ~stream.up /\ Open(Len(published))
    /\ UNCHANGED <<published, clock, phase, cache, maxVersion, watch, swap, drops>>
Reconnect ==
    /\ phase = "run" /\ ~stream.up /\ Open(maxVersion)
    /\ UNCHANGED <<published, clock, phase, cache, maxVersion, watch, swap, drops>>
\* onEvent: load, then store.
WatchLoad ==
    /\ phase = "run" /\ watch.pc = "idle"
    /\ \E v \in Version :
          Sends(v) /\ watch' = [pc |-> "loaded", ev |-> v, old |-> cache, at |-> clock]
    /\ UNCHANGED <<published, clock, phase, cache, maxVersion, swap, drops>>
WatchStore ==
    /\ watch.pc = "loaded"
    /\ cache' = Applied(watch.old, watch.ev, watch.at)
    /\ Advanced(watch.ev)
    /\ watch' = NoWatch
    /\ UNCHANGED <<published, clock, phase, stream, swap, drops>>

\* maybeSwap: load, then store.
SwapLoad ==
    /\ phase = "run" /\ swap.pc = "idle" /\ Due(cache, clock) # {}
    /\ swap' = [pc |-> "loaded", old |-> cache, at |-> clock]
    /\ UNCHANGED <<published, clock, phase, stream, cache, maxVersion, watch, drops>>
SwapStore ==
    /\ swap.pc = "loaded"
    /\ cache' = Swapped(swap.old, swap.at) /\ swap' = NoSwap
    /\ UNCHANGED <<published, clock, phase, stream, maxVersion, watch, drops>>

WatchStep == WatchLoad \/ WatchStore
SwapStep == SwapLoad \/ SwapStore
CfgNext ==
    \/ Publish \/ Tick
    \/ InitWatch \/ ApplyEvent \/ InitDone \/ InitFailed
    \/ Disconnect \/ Reconnect \/ WatchStep \/ SwapStep
CfgSpec == CfgInit /\ [][CfgNext]_cfgVars
\* initialLoad is bounded by its time-out, watchLoop tries for ever, and the
\* swapper's ticker fires every second.
CfgFairSpec ==
    /\ CfgSpec
    /\ WF_cfgVars(InitWatch) /\ WF_cfgVars(InitDone) /\ WF_cfgVars(Reconnect)
    /\ WF_cfgVars(WatchStep) /\ WF_cfgVars(SwapStep)
-----------------------------------------------------------------------------
Known(f) == \A k \in Key : f[k] # 0 => f[k] \in Version /\ published[f[k]].key = k
CfgTypeOK ==
    /\ Len(published) <= MaxVersion /\ clock \in 0 .. MaxTime /\ drops \in 0 .. MaxDrops
    /\ phase \in {"init", "run"} /\ maxVersion \in 0 .. Len(published)
    /\ cache \in Snapshot /\ watch.old \in Snapshot /\ swap.old \in Snapshot
    /\ watch.pc \in {"idle", "loaded"} /\ swap.pc \in {"idle", "loaded"}

\* Whatever the two goroutines overwrite of each other, a value that waits for
\* its time is newer than the one it will replace: a swap never puts an older
\* version in force (onEvent drops the pending value that an immediate one
\* overtakes, and entries are replaced as a whole).
PendingIsNewer ==
    \A k \in Key : /\ cache.pending[k] # 0 => cache.pending[k] > cache.active[k]
                   /\ cache.active[k] <= maxVersion /\ cache.pending[k] <= maxVersion

\* Between two stores the newest version known of a key is lost only when the
\* goroutine that stores has loaded its snapshot before the other one's store of
\* that key (which breaks NoEventLost), or that key is deleted: resuming, routing
\* and swapping never lose one, and a store made for one key takes nothing from
\* another that its snapshot knows.  And what Get serves of a key goes back to an
\* older version only then, when time passes, when the value served was a
\* fallback, of which the next store of any key keeps one generation, or, against
\* Get's own words, when a change scheduled for later takes the slot of a value
\* that is due and not yet swapped.
Newest(k) == IF cache.pending[k] # 0 THEN cache.pending[k] ELSE cache.active[k]
Behind(snapshot, k) ==
    <<snapshot.active[k], snapshot.pending[k]>> # <<cache.active[k], cache.pending[k]>>
Overlap(k) ==
    \/ WatchStore /\ Behind(watch.old, k)
    \/ SwapStore /\ Behind(swap.old, k)
Deleted(k) ==
    /\ WatchStore
    /\ published[watch.ev].kind = "delete" /\ published[watch.ev].key = k
GoesBackOnly ==
    [][\A k \in Key :
          \/ Overlap(k) \/ Deleted(k) \/ InitFailed
          \/ /\ Newest(k)' >= Newest(k)
             /\ Get(k)' < Get(k) =>
                    \/ clock' # clock
                    \/ Get(k) \notin {cache.pending[k], cache.active[k]}
                    \/ Get(k) = cache.pending[k] /\ Newest(k)' > Newest(k)]_cfgVars

\* Without scheduled changes the swapper never stores, and then every change
\* received that no later one of its key has superseded is in force at the
\* client, whatever breaks and whenever it resumes: onEvent and applyEvent let
\* none be overtaken, and the resume version passes none.
Untimed == \A v \in Version : published[v].from = 0 /\ published[v].until > MaxTime
NothingStale ==
    Untimed /\ watch.pc = "idle" =>
        \A v \in Version :
            published[v].kind = "update" /\ ~Superseded(v) /\ v <= maxVersion =>
                cache.active[published[v].key] = v

\* A value whose time has come takes over, or is replaced, however the watch
\* loop and the swapper interfere (swapperLoop: local, without the server).
Waits(v) == v \in Version /\ cache.pending[published[v].key] = v
DueTakesOver ==
    \A v \in 1 .. MaxVersion :
        (phase = "run" /\ Waits(v) /\ IsEffective(v, clock))
            ~> (~Waits(v) \/ ~IsEffective(v, clock))

\* Every change that is not superseded reaches the client although streams
\* break: resumption by maxVersion skips none (watchLoop's since_version).
ChangesArrive ==
    \A v \in 1 .. MaxVersion :
        (v \in Version /\ published[v].kind = "update")
            ~> (maxVersion >= v \/ Superseded(v))

\* The documented promise that no event is lost: with the stream read to its
\* end and nobody at work, the newest value published of each key is the one in
\* the client (client.go:11).
Quiet == phase = "run" /\ watch.pc = "idle" /\ swap.pc = "idle" /\ stream.up
NoEventLost ==
    Quiet /\ stream.sent = Len(published) =>
        \A v \in Version :
            LET k == published[v].key
            IN  (\A w \in Version : published[w].key = k => w <= v)
                /\ published[v].kind = "update" /\ published[v].until > MaxTime
                    => Newest(k) = v
=============================================================================
