-------------------------- MODULE ConfigCenterProofs --------------------------
(***************************************************************************)
(* For any keys, shapes of changes and bounds: however the watch loop and  *)
(* the swapper overwrite each other's snapshots, a value that waits for    *)
(* its time is newer than the one it will replace.                         *)
(***************************************************************************)
EXTENDS ConfigCenter, TypedReads, TLAPS

Changes == [key : Key, kind : {"update", "delete"}, from : Nat, until : Nat]
\* The snapshots in the goroutines' hands have the types of the stored one.
CfgTypes ==
    /\ published \in Seq(Changes) /\ Len(published) <= MaxVersion
    /\ clock \in 0 .. MaxTime /\ drops \in 0 .. MaxDrops
    /\ phase \in {"init", "run"} /\ maxVersion \in 0 .. Len(published)
    /\ stream \in [up : BOOLEAN, sent : 0 .. Len(published), snap : Nat]
    /\ cache \in Snapshot
    /\ watch \in [pc : {"idle", "loaded"}, ev : 0 .. Len(published), old : Snapshot, at : Nat]
    /\ swap \in [pc : {"idle", "loaded"}, old : Snapshot, at : Nat]

\* A snapshot in which what waits is newer, and nothing is beyond version n.
Ordered(snapshot, n) ==
    \A k \in Key : /\ snapshot.pending[k] # 0 => snapshot.pending[k] > snapshot.active[k]
                   /\ snapshot.active[k] <= n /\ snapshot.pending[k] <= n
\* The stored snapshot and the loaded ones are ordered; the stream is never
\* behind the version to resume after, and an event at work is beyond it.
CfgOrder ==
    /\ Ordered(cache, maxVersion) /\ Ordered(watch.old, maxVersion)
    /\ Ordered(swap.old, maxVersion)
    /\ stream.up => stream.sent >= maxVersion
    /\ watch.pc = "loaded" => stream.up /\ watch.ev > maxVersion /\ watch.ev <= stream.sent
    /\ phase = "init" => watch = NoWatch /\ swap = NoSwap /\ (~stream.up => maxVersion = 0)
CfgInv == CfgTypes /\ CfgOrder

-----------------------------------------------------------------------------
\* Routing and swapping make snapshots of snapshots.
LEMMA EmptyIsSnapshot == Empty \in Snapshot
<1>1. NoKeys \in [Key -> 0 .. MaxVersion]
    BY ConfigAssumption DEF NoKeys
<1> QED
    BY <1>1 DEF Empty, Snapshot

LEMMA RouteType ==
    ASSUME NEW old \in Snapshot, NEW v \in Version, NEW t, CfgTypes
    PROVE  Route(old, v, t) \in Snapshot
<1>1. v \in 0 .. MaxVersion /\ 0 \in 0 .. MaxVersion
    BY ConfigAssumption DEF Version, CfgTypes
<1> QED
    BY <1>1 DEF Route, Snapshot

LEMMA AppliedType ==
    ASSUME NEW old \in Snapshot, NEW v \in Version, NEW t, CfgTypes
    PROVE  Applied(old, v, t) \in Snapshot
<1>1. 0 \in 0 .. MaxVersion
    BY ConfigAssumption
<1>2. Removed(old, published[v].key) \in Snapshot
    BY <1>1 DEF Removed, Snapshot
<1> QED
    BY <1>2, RouteType DEF Applied

LEMMA SwappedType ==
    ASSUME NEW old \in Snapshot, NEW t
    PROVE  Swapped(old, t) \in Snapshot
<1>1. 0 \in 0 .. MaxVersion
    BY ConfigAssumption
<1> QED
    BY <1>1 DEF Swapped, Snapshot

\* A routed value is beyond everything in the snapshot.
LEMMA RouteOrder ==
    ASSUME NEW old \in Snapshot, NEW v \in Version, NEW t, CfgTypes, NEW n \in Nat,
           Ordered(old, n), v > n
    PROVE  Ordered(Route(old, v, t), v)
<1> SUFFICES ASSUME NEW k \in Key
             PROVE  LET r == Route(old, v, t)
                    IN  /\ r.pending[k] # 0 => r.pending[k] > r.active[k]
                        /\ r.active[k] <= v /\ r.pending[k] <= v
    BY DEF Ordered
<1>1. old.active[k] \in Nat /\ old.pending[k] \in Nat /\ v \in Nat
    BY ConfigAssumption DEF Snapshot, Version, CfgTypes
<1>2. old.active[k] <= n /\ old.pending[k] <= n
      /\ (old.pending[k] # 0 => old.pending[k] > old.active[k])
    BY DEF Ordered
<1> QED
    BY <1>1, <1>2 DEF Route, Snapshot

LEMMA RemovedOrder ==
    ASSUME NEW old \in Snapshot, NEW key, NEW n \in Nat, Ordered(old, n)
    PROVE  Ordered(Removed(old, key), n)
<1> SUFFICES ASSUME NEW k \in Key
             PROVE  LET r == Removed(old, key)
                    IN  /\ r.pending[k] # 0 => r.pending[k] > r.active[k]
                        /\ r.active[k] <= n /\ r.pending[k] <= n
    BY DEF Ordered
<1>1. old.active[k] \in Nat /\ old.pending[k] \in Nat
    BY ConfigAssumption DEF Snapshot
<1>2. old.active[k] <= n /\ old.pending[k] <= n
      /\ (old.pending[k] # 0 => old.pending[k] > old.active[k])
    BY DEF Ordered
<1> QED
    BY <1>1, <1>2 DEF Removed, Snapshot

\* A promoted value empties its slot.
LEMMA SwappedOrder ==
    ASSUME NEW old \in Snapshot, NEW t, NEW n \in Nat, Ordered(old, n)
    PROVE  Ordered(Swapped(old, t), n)
<1> SUFFICES ASSUME NEW k \in Key
             PROVE  LET r == Swapped(old, t)
                    IN  /\ r.pending[k] # 0 => r.pending[k] > r.active[k]
                        /\ r.active[k] <= n /\ r.pending[k] <= n
    BY DEF Ordered
<1>2. old.active[k] <= n /\ old.pending[k] <= n
      /\ (old.pending[k] # 0 => old.pending[k] > old.active[k])
    BY DEF Ordered
<1>3. /\ Swapped(old, t).active[k] = IF k \in Due(old, t) THEN old.pending[k] ELSE old.active[k]
      /\ Swapped(old, t).pending[k] = IF k \in Due(old, t) THEN 0 ELSE old.pending[k]
    BY DEF Swapped
<1> QED
    BY <1>2, <1>3

LEMMA OrderedLater ==
    ASSUME NEW snapshot \in Snapshot, NEW m \in Nat, NEW n \in Nat, m <= n, Ordered(snapshot, m)
    PROVE  Ordered(snapshot, n)
<1> SUFFICES ASSUME NEW k \in Key
             PROVE  /\ snapshot.pending[k] # 0 => snapshot.pending[k] > snapshot.active[k]
                    /\ snapshot.active[k] <= n /\ snapshot.pending[k] <= n
    BY DEF Ordered
<1>1. snapshot.active[k] \in Nat /\ snapshot.pending[k] \in Nat
    BY ConfigAssumption DEF Snapshot
<1>2. snapshot.active[k] <= m /\ snapshot.pending[k] <= m
      /\ (snapshot.pending[k] # 0 => snapshot.pending[k] > snapshot.active[k])
    BY DEF Ordered
<1> QED
    BY <1>1, <1>2

-----------------------------------------------------------------------------
LEMMA EmptyOrder == Ordered(Empty, 0)
<1> SUFFICES ASSUME NEW k \in Key
             PROVE  /\ Empty.pending[k] # 0 => Empty.pending[k] > Empty.active[k]
                    /\ Empty.active[k] <= 0 /\ Empty.pending[k] <= 0
    BY DEF Ordered
<1>1. Empty.active[k] = 0 /\ Empty.pending[k] = 0
    BY DEF Empty, NoKeys
<1> QED
    BY <1>1

\* An event moves the stream to its version.
LEMMA SendsTypes ==
    ASSUME CfgTypes, NEW v \in Version, Sends(v)
    PROVE  /\ stream' \in [up : BOOLEAN, sent : 0 .. Len(published), snap : Nat]
           /\ v \in 0 .. Len(published) /\ stream'.sent = v /\ stream'.up /\ stream.up
           /\ v > stream.sent
<1>1. v \in 0 .. Len(published)
    BY DEF Version, CfgTypes
<1>2. stream \in [up : BOOLEAN, sent : 0 .. Len(published), snap : Nat]
    BY DEF CfgTypes
<1>3. stream' = [stream EXCEPT !.sent = v] /\ stream.up /\ v > stream.sent
    BY DEF Sends
<1> QED
    BY <1>1, <1>2, <1>3

LEMMA CfgInitInv == CfgInit => CfgInv
<1> SUFFICES ASSUME CfgInit PROVE CfgInv
    OBVIOUS
<1> USE ConfigAssumption DEF CfgInit
<1>1. Ordered(Empty, 0)
    BY EmptyOrder
<1>2. CfgTypes
    BY EmptyIsSnapshot DEF CfgTypes, NoWatch, NoSwap
<1>3. CfgOrder
    BY <1>1 DEF CfgOrder, NoWatch, NoSwap
<1> QED
    BY <1>2, <1>3 DEF CfgInv

\* A change that is published makes the history longer.
LEMMA PublishTypes ==
    ASSUME CfgTypes, Publish
    PROVE  /\ published' \in Seq(Changes) /\ Len(published') <= MaxVersion
           /\ 0 .. Len(published) \subseteq 0 .. Len(published')
<1>1. PICK k \in Key, s \in Shape :
         published' = Append(published, [key |-> k, kind |-> s.kind, from |-> s.from,
                                         until |-> s.until])
    BY DEF Publish
<1>2. [key |-> k, kind |-> s.kind, from |-> s.from, until |-> s.until] \in Changes
    BY ConfigAssumption DEF Changes
<1>3. published' \in Seq(Changes) /\ Len(published') = Len(published) + 1
    BY <1>1, <1>2 DEF CfgTypes
<1>4. Len(published) \in Nat /\ Len(published) < MaxVersion
    BY DEF CfgTypes, Publish
<1> QED
    BY <1>3, <1>4, ConfigAssumption

LEMMA CfgTypesNext == CfgInv /\ [CfgNext]_cfgVars => CfgTypes'
<1> SUFFICES ASSUME CfgTypes, CfgOrder, [CfgNext]_cfgVars PROVE CfgTypes'
    BY DEF CfgInv
<1> USE ConfigAssumption
<1>0. Len(published) \in Nat /\ clock \in Nat
    BY DEF CfgTypes
<1>1. CASE Publish
    <2>1. stream' = stream /\ watch' = watch /\ swap' = swap /\ cache' = cache
          /\ UNCHANGED <<clock, phase, maxVersion, drops>>
        BY <1>1 DEF Publish
    <2> QED
        BY <1>1, <2>1, PublishTypes DEF CfgTypes
<1>2. CASE Tick
    BY <1>2 DEF Tick, CfgTypes
<1>3. CASE InitWatch
    BY <1>0, <1>3 DEF InitWatch, Open, CfgTypes
<1>4. CASE ApplyEvent
    <2>1. PICK v \in Version :
             /\ Sends(v) /\ cache' = Route(cache, v, clock)
             /\ maxVersion' = IF v > maxVersion THEN v ELSE maxVersion
        BY <1>4 DEF ApplyEvent
    <2>2. cache' \in Snapshot
        BY <2>1, RouteType DEF CfgTypes
    <2>3. stream' \in [up : BOOLEAN, sent : 0 .. Len(published), snap : Nat]
        BY <2>1, SendsTypes
    <2>4. maxVersion' \in 0 .. Len(published)
        BY <2>1 DEF Version, CfgTypes
    <2> QED
        BY <1>4, <2>2, <2>3, <2>4 DEF ApplyEvent, CfgTypes
<1>5. CASE InitDone
    <2>1. stream' \in [up : BOOLEAN, sent : 0 .. Len(published), snap : Nat]
        BY <1>5 DEF InitDone, CfgTypes
    <2> QED
        BY <1>5, <2>1 DEF InitDone, CfgTypes
<1>6. CASE InitFailed
    <2>0. drops' \in 0 .. MaxDrops /\ maxVersion' \in 0 .. Len(published)
        BY <1>0, <1>6 DEF InitFailed, CfgTypes
    <2>1. stream' \in [up : BOOLEAN, sent : 0 .. Len(published), snap : Nat]
        BY <1>6 DEF InitFailed, CfgTypes
    <2> QED
        BY <1>6, <2>0, <2>1, EmptyIsSnapshot DEF InitFailed, CfgTypes
<1>7. CASE Disconnect
    <2>0. drops' \in 0 .. MaxDrops
        BY <1>7 DEF Disconnect, CfgTypes
    <2>1. stream' \in [up : BOOLEAN, sent : 0 .. Len(published), snap : Nat]
        BY <1>7 DEF Disconnect, CfgTypes
    <2> QED
        BY <1>7, <2>0, <2>1 DEF Disconnect, CfgTypes
<1>8. CASE Reconnect
    BY <1>0, <1>8 DEF Reconnect, Open, CfgTypes
<1>9. CASE WatchLoad
    <2>1. PICK v \in Version :
             Sends(v) /\ watch' = [pc |-> "loaded", ev |-> v, old |-> cache, at |-> clock]
        BY <1>9 DEF WatchLoad
    <2>2. stream' \in [up : BOOLEAN, sent : 0 .. Len(published), snap : Nat]
        BY <2>1, SendsTypes
    <2>3. watch' \in [pc : {"idle", "loaded"}, ev : 0 .. Len(published), old : Snapshot, at : Nat]
        BY <1>0, <2>1 DEF Version, CfgTypes
    <2> QED
        BY <1>9, <2>2, <2>3 DEF WatchLoad, CfgTypes
<1>10. CASE WatchStore
    <2>1. watch.ev \in Version
        BY <1>10 DEF WatchStore, CfgTypes, CfgOrder, Version
    <2>2. cache' \in Snapshot
        BY <1>10, <2>1, AppliedType DEF WatchStore, CfgTypes
    <2>3. maxVersion' \in 0 .. Len(published)
        BY <1>10 DEF WatchStore, Advanced, CfgTypes
    <2>4. watch' \in [pc : {"idle", "loaded"}, ev : 0 .. Len(published), old : Snapshot, at : Nat]
        BY <1>0, <1>10, EmptyIsSnapshot DEF WatchStore, NoWatch
    <2> QED
        BY <1>10, <2>2, <2>3, <2>4 DEF WatchStore, CfgTypes
<1>11. CASE SwapLoad
    BY <1>0, <1>11 DEF SwapLoad, CfgTypes
<1>12. CASE SwapStore
    <2>1. cache' \in Snapshot
        BY <1>12, SwappedType DEF SwapStore, CfgTypes
    <2> QED
        BY <1>12, <2>1, EmptyIsSnapshot DEF SwapStore, NoSwap, CfgTypes
<1>13. CASE UNCHANGED cfgVars
    BY <1>13 DEF cfgVars, CfgTypes
<1> QED
    BY <1>1, <1>2, <1>3, <1>4, <1>5, <1>6, <1>7, <1>8, <1>9, <1>10, <1>11, <1>12, <1>13
       DEF CfgNext, WatchStep, SwapStep

-----------------------------------------------------------------------------
\* The watch loop stores what it made of the snapshot it had loaded.
LEMMA WatchStoreOrder == CfgInv /\ WatchStore => CfgOrder'
<1> SUFFICES ASSUME CfgInv, WatchStore PROVE CfgOrder'
    OBVIOUS
<1> USE DEF CfgInv
<1>0. /\ watch.ev \in Version /\ watch.ev > maxVersion /\ watch.ev <= stream.sent /\ stream.up
      /\ watch.ev \in Nat /\ maxVersion \in Nat /\ stream.sent \in Nat
    BY DEF WatchStore, CfgTypes, CfgOrder, Version
<1>1. /\ cache' = Applied(watch.old, watch.ev, watch.at) /\ watch' = NoWatch /\ swap' = swap
      /\ maxVersion' = IF published[watch.ev].kind # "delete" THEN watch.ev ELSE maxVersion
      /\ stream' = stream /\ phase' = phase
    BY <1>0 DEF WatchStore, Advanced
<1>2. /\ Ordered(watch.old, maxVersion) /\ Ordered(swap.old, maxVersion)
      /\ watch.old \in Snapshot /\ swap.old \in Snapshot
    BY DEF CfgTypes, CfgOrder
<1>3. maxVersion' \in Nat /\ maxVersion <= maxVersion' /\ maxVersion' <= stream.sent
    BY <1>0, <1>1
<1>4. Ordered(cache', maxVersion')
    <2>1. CASE published[watch.ev].kind = "delete"
        BY <1>0, <1>1, <1>2, <2>1, RemovedOrder DEF Applied
    <2>2. CASE published[watch.ev].kind # "delete"
        BY <1>0, <1>1, <1>2, <2>2, RouteOrder DEF Applied
    <2> QED
        BY <2>1, <2>2
<1>5. Ordered(swap.old, maxVersion') /\ Ordered(Empty, maxVersion')
    <2>1. 0 <= maxVersion'
        BY <1>3
    <2> QED
        BY <1>0, <1>2, <1>3, <2>1, OrderedLater, EmptyOrder, EmptyIsSnapshot
<1>6. phase # "init"
    BY DEF CfgOrder, WatchStore, NoWatch
<1>7. Ordered(cache, maxVersion)' /\ Ordered(watch.old, maxVersion)' /\ Ordered(swap.old, maxVersion)'
    BY <1>1, <1>4, <1>5 DEF Ordered, NoWatch
<1>8. /\ stream'.up => stream'.sent >= maxVersion'
      /\ watch'.pc # "loaded" /\ phase' # "init"
    BY <1>0, <1>1, <1>3, <1>6 DEF NoWatch
<1> QED
    BY <1>7, <1>8 DEF CfgOrder

\* The initial load, which nobody disturbs.
LEMMA ApplyEventOrder == CfgInv /\ ApplyEvent => CfgOrder'
<1> SUFFICES ASSUME CfgInv, ApplyEvent PROVE CfgOrder'
    OBVIOUS
<1> USE DEF CfgInv
<1>1. PICK v \in Version :
         /\ Sends(v) /\ cache' = Route(cache, v, clock)
         /\ maxVersion' = IF v > maxVersion THEN v ELSE maxVersion
    BY DEF ApplyEvent
<1>2. /\ v \in Nat /\ stream'.sent = v /\ stream'.up /\ stream.up /\ v > stream.sent
      /\ stream.sent \in Nat /\ maxVersion \in Nat
    BY <1>1, SendsTypes DEF CfgTypes
<1>3. maxVersion <= stream.sent /\ maxVersion' = v /\ maxVersion < v
    BY <1>1, <1>2 DEF CfgOrder
<1>4. /\ watch = NoWatch /\ swap = NoSwap /\ watch' = watch /\ swap' = swap /\ phase' = phase
      /\ Ordered(cache, maxVersion) /\ cache \in Snapshot
    BY DEF ApplyEvent, CfgOrder, CfgTypes
<1>5. Ordered(cache', v)
    BY <1>1, <1>2, <1>3, <1>4, RouteOrder
<1>6. Ordered(Empty, v)
    BY <1>2, EmptyOrder, EmptyIsSnapshot, OrderedLater
<1>7. Ordered(cache, maxVersion)' /\ Ordered(watch.old, maxVersion)' /\ Ordered(swap.old, maxVersion)'
    BY <1>3, <1>4, <1>5, <1>6 DEF Ordered, NoWatch, NoSwap
<1>8. stream'.sent >= maxVersion' /\ watch'.pc = "idle"
    BY <1>2, <1>3, <1>4 DEF NoWatch
<1> QED
    BY <1>2, <1>4, <1>7, <1>8 DEF CfgOrder

\* A snapshot that was ordered, stored or kept, is ordered.
LEMMA SameOrder ==
    ASSUME CfgOrder, maxVersion' = maxVersion,
           Ordered(cache', maxVersion) \/ cache' = cache,
           watch'.old \in {cache, watch.old}, swap'.old \in {cache, swap.old}
    PROVE  Ordered(cache, maxVersion)' /\ Ordered(watch.old, maxVersion)'
           /\ Ordered(swap.old, maxVersion)'
<1>1. /\ Ordered(cache, maxVersion) /\ Ordered(watch.old, maxVersion)
      /\ Ordered(swap.old, maxVersion)
    BY DEF CfgOrder
<1>2. /\ Ordered(cache', maxVersion') /\ Ordered(watch'.old, maxVersion')
      /\ Ordered(swap'.old, maxVersion')
    BY <1>1
<1> QED
    BY <1>2 DEF Ordered

LEMMA CfgOrderNext == CfgInv /\ [CfgNext]_cfgVars => CfgOrder'
<1> SUFFICES ASSUME CfgInv, [CfgNext]_cfgVars PROVE CfgOrder'
    OBVIOUS
<1> USE DEF CfgInv
<1>1. CASE Publish \/ Tick \/ UNCHANGED cfgVars
    <2>1. UNCHANGED <<phase, stream, cache, maxVersion, watch, swap>>
        BY <1>1 DEF Publish, Tick, cfgVars
    <2> QED
        BY <2>1, SameOrder DEF CfgOrder
<1>2. CASE InitWatch
    <2>1. UNCHANGED <<phase, cache, maxVersion, watch, swap>> /\ stream'.sent = 0
          /\ maxVersion = 0 /\ watch = NoWatch
        BY <1>2 DEF InitWatch, Open, CfgOrder
    <2>2. Ordered(cache, maxVersion)' /\ Ordered(watch.old, maxVersion)'
          /\ Ordered(swap.old, maxVersion)'
        BY <2>1, SameOrder
    <2>3. stream'.up
        BY <1>2 DEF InitWatch, Open
    <2> QED
        BY <2>1, <2>2, <2>3 DEF CfgOrder, NoWatch
<1>3. CASE ApplyEvent
    BY <1>3, ApplyEventOrder
<1>4. CASE InitDone
    <2>1. UNCHANGED <<cache, maxVersion, watch, swap>> /\ phase' = "run" /\ watch = NoWatch
        BY <1>4 DEF InitDone, CfgOrder
    <2>2. ~stream'.up
        BY <1>4 DEF InitDone, CfgTypes
    <2>3. Ordered(cache, maxVersion)' /\ Ordered(watch.old, maxVersion)'
          /\ Ordered(swap.old, maxVersion)'
        BY <2>1, SameOrder
    <2> QED
        BY <2>1, <2>2, <2>3 DEF CfgOrder, NoWatch
<1>5. CASE InitFailed
    <2>1. UNCHANGED <<phase, watch, swap>> /\ maxVersion' = 0 /\ cache' = Empty
          /\ watch = NoWatch /\ swap = NoSwap
        BY <1>5 DEF InitFailed, CfgOrder
    <2>2. ~stream'.up
        BY <1>5 DEF InitFailed, CfgTypes
    <2>3. Ordered(cache, maxVersion)' /\ Ordered(watch.old, maxVersion)'
          /\ Ordered(swap.old, maxVersion)'
        BY <2>1, EmptyOrder DEF Ordered, NoWatch, NoSwap
    <2> QED
        BY <2>1, <2>2, <2>3 DEF CfgOrder, NoWatch
<1>6. CASE Disconnect
    <2>1. UNCHANGED <<phase, cache, maxVersion, watch, swap>> /\ watch.pc = "idle" /\ phase = "run"
        BY <1>6 DEF Disconnect
    <2>2. ~stream'.up
        BY <1>6 DEF Disconnect, CfgTypes
    <2> QED
        BY <2>1, <2>2, SameOrder DEF CfgOrder
<1>7. CASE Reconnect
    <2>1. /\ UNCHANGED <<phase, cache, maxVersion, watch, swap>> /\ phase = "run"
          /\ stream'.sent = maxVersion /\ maxVersion \in Nat /\ ~stream.up
        BY <1>7 DEF Reconnect, Open, CfgTypes
    <2>2. watch.pc # "loaded" /\ maxVersion >= maxVersion
        BY <2>1 DEF CfgOrder
    <2> QED
        BY <2>1, <2>2, SameOrder DEF CfgOrder
<1>8. CASE WatchLoad
    <2>1. PICK v \in Version :
             Sends(v) /\ watch' = [pc |-> "loaded", ev |-> v, old |-> cache, at |-> clock]
        BY <1>8 DEF WatchLoad
    <2>2. UNCHANGED <<phase, cache, maxVersion, swap>> /\ phase = "run" /\ watch'.old = cache
          /\ watch'.ev = v
        BY <1>8, <2>1 DEF WatchLoad
    <2>3. /\ v \in Nat /\ stream'.sent = v /\ stream'.up /\ stream.up /\ v > stream.sent
          /\ stream.sent \in Nat /\ maxVersion \in Nat
        BY <2>1, SendsTypes DEF CfgTypes
    <2>4. maxVersion <= stream.sent
        BY <2>3 DEF CfgOrder
    <2>5. v > maxVersion /\ v >= maxVersion /\ v <= v
        BY <2>3, <2>4
    <2>6. Ordered(cache, maxVersion)' /\ Ordered(watch.old, maxVersion)'
          /\ Ordered(swap.old, maxVersion)'
        BY <2>2, SameOrder
    <2> QED
        BY <2>2, <2>3, <2>5, <2>6 DEF CfgOrder
<1>9. CASE WatchStore
    BY <1>9, WatchStoreOrder
<1>10. CASE SwapLoad
    <2>1. UNCHANGED <<phase, cache, maxVersion, watch, stream>> /\ phase = "run" /\ swap'.old = cache
        BY <1>10 DEF SwapLoad
    <2> QED
        BY <2>1, SameOrder DEF CfgOrder
<1>11. CASE SwapStore
    <2>1. /\ UNCHANGED <<phase, maxVersion, watch, stream>> /\ swap' = NoSwap
          /\ cache' = Swapped(swap.old, swap.at) /\ phase # "init"
          /\ maxVersion \in Nat /\ swap.old \in Snapshot /\ Ordered(swap.old, maxVersion)
        BY <1>11 DEF SwapStore, CfgTypes, CfgOrder, NoSwap
    <2>2. Ordered(cache', maxVersion)
        BY <2>1, SwappedOrder
    <2>3. Ordered(Empty, maxVersion)
        BY <2>1, EmptyOrder, EmptyIsSnapshot, OrderedLater
    <2>4. Ordered(cache, maxVersion)' /\ Ordered(watch.old, maxVersion)'
          /\ Ordered(swap.old, maxVersion)'
        BY <2>1, <2>2, <2>3 DEF Ordered, NoSwap, CfgOrder
    <2> QED
        BY <2>1, <2>4 DEF CfgOrder
<1> QED
    BY <1>1, <1>2, <1>3, <1>4, <1>5, <1>6, <1>7, <1>8, <1>9, <1>10, <1>11
       DEF CfgNext, WatchStep, SwapStep

LEMMA CfgAlwaysInv == CfgSpec => []CfgInv
<1>1. CfgInv /\ [CfgNext]_cfgVars => CfgInv'
    BY CfgTypesNext, CfgOrderNext DEF CfgInv
<1> QED
    BY <1>1, CfgInitInv, PTL DEF CfgSpec

-----------------------------------------------------------------------------
\* The client's state has its types.
THEOREM ConfigTypeCorrect == CfgSpec => []CfgTypeOK
<1>1. CfgInv => CfgTypeOK
    BY DEF CfgInv, CfgTypes, CfgTypeOK
<1> QED
    BY <1>1, CfgAlwaysInv, PTL

\* configcenter/client.go onEvent and maybeSwap: two goroutines that overwrite
\* each other's snapshots never leave an older version waiting behind a newer
\* one, so that a swap never puts an older version in force.
THEOREM ConfigPendingIsNewer == CfgSpec => []PendingIsNewer
<1>1. CfgInv => PendingIsNewer
    BY DEF CfgInv, CfgOrder, Ordered, PendingIsNewer
<1> QED
    BY <1>1, CfgAlwaysInv, PTL

-----------------------------------------------------------------------------
\* Without scheduled changes.  A change that is current is one that must show
\* at the client: those that the version to resume after has passed do, and of
\* those the stream has sent beyond it only the event at work is current.
Current(v) == v \in Version /\ published[v].kind = "update" /\ ~Superseded(v)
InForce == \A v : Current(v) /\ v <= maxVersion => cache.active[published[v].key] = v
Received ==
    stream.up => \A v : Current(v) /\ v > maxVersion /\ v <= stream.sent =>
                           watch.pc = "loaded" /\ v = watch.ev
\* Nothing waits, so the swapper rests and the watch loop works alone.
Alone ==
    /\ \A k \in Key : cache.pending[k] = 0
    /\ swap.pc = "idle"
    /\ watch.pc = "loaded" => watch.old = cache /\ watch.at <= MaxTime
PlainInv == Untimed => Alone /\ InForce /\ Received

LEMMA CurrentIsLast ==
    ASSUME NEW v, NEW w \in Version, Current(v), CfgTypes, w >= v,
           published[w].key = published[v].key
    PROVE  w = v
<1>1. v \in Nat /\ w \in Nat
    BY DEF Current, Version, CfgTypes
<1> QED
    BY <1>1 DEF Current, Superseded

\* What the stream passes over is not current.
LEMMA PassedOver ==
    ASSUME CfgTypes, NEW v \in Version, Sends(v), NEW u, Current(u), u > stream.sent, u <= v
    PROVE  u = v
<1>1. v \in Nat /\ u \in Nat /\ stream.sent \in Nat /\ u \in Version
    BY DEF Current, Version, CfgTypes
<1>2. SUFFICES ASSUME u < v PROVE FALSE
    BY <1>1
<1>3. u \in stream.sent + 1 .. v - 1
    BY <1>1, <1>2
<1>4. LeavesOut(u)
    BY <1>3 DEF Sends
<1> QED
    BY <1>4 DEF LeavesOut, Current

\* Routed at any time the client lives through, an untimed value is in force.
LEMMA RoutedInForce ==
    ASSUME CfgTypes, Untimed, NEW old \in Snapshot, NEW v \in Version, NEW t \in Nat,
           t <= MaxTime, \A k \in Key : old.pending[k] = 0
    PROVE  /\ \A k \in Key : Route(old, v, t).pending[k] = 0
           /\ \A k \in Key : Route(old, v, t).active[k] =
                                IF k = published[v].key THEN v ELSE old.active[k]
<1>1. v # 0 /\ published[v] \in Changes /\ v \in Nat
    BY DEF Version, CfgTypes
<1>2. published[v].from <= t /\ t < published[v].until
    BY <1>1, ConfigAssumption DEF Untimed, Changes
<1>3. IsEffective(v, t)
    BY <1>1, <1>2 DEF IsEffective
<1> QED
    BY <1>3 DEF Route, Snapshot

\* A change that is applied: nothing current is lost with it.
LEMMA AppliedInForce ==
    ASSUME CfgInv, Untimed, InForce, NEW v \in Version, NEW t \in Nat, t <= MaxTime,
           \A k \in Key : cache.pending[k] = 0, v > maxVersion,
           \A u : Current(u) /\ u > maxVersion /\ u <= v => u = v,
           NEW next,
           \/ next = Route(cache, v, t)
           \/ published[v].kind = "delete" /\ next = Removed(cache, published[v].key)
    PROVE  /\ \A k \in Key : next.pending[k] = 0
           /\ \A u : Current(u) /\ u <= v => next.active[published[u].key] = u
<1> USE DEF CfgInv
<1>1. cache \in Snapshot /\ v \in Nat /\ maxVersion \in Nat
    BY DEF CfgTypes, Version
<1>2. ASSUME NEW k \in Key PROVE next.pending[k] = 0
    <2>1. CASE next = Route(cache, v, t)
        <3>1. Route(cache, v, t).pending[k] = 0
            BY <1>1, RoutedInForce
        <3> QED
            BY <2>1, <3>1
    <2>2. CASE next = Removed(cache, published[v].key)
        <3>1. cache.pending[k] = 0 /\ cache.pending \in [Key -> 0 .. MaxVersion]
            BY <1>1 DEF Snapshot
        <3>2. next.pending = [cache.pending EXCEPT ![published[v].key] = 0]
            BY <2>2 DEF Removed
        <3> QED
            BY <3>1, <3>2
    <2> QED
        BY <2>1, <2>2
<1>3. ASSUME NEW u, Current(u), u <= v
      PROVE  next.active[published[u].key] = u
    <2>0. u \in Version /\ published \in Seq(Changes) /\ published[u].kind = "update"
        BY <1>3 DEF Current, CfgTypes
    <2>1. u \in Nat /\ u \in Version /\ published[u].key \in Key /\ published[u].kind = "update"
        <3>1. published[u] \in Changes
            BY <2>0 DEF Version
        <3> QED
            BY <2>0, <3>1 DEF Version, Changes
    <2>2. CASE u = v
        <3>1. next = Route(cache, v, t)
            BY <2>1, <2>2
        <3> QED
            BY <1>1, <2>1, <2>2, <3>1, RoutedInForce
    <2>3. CASE u # v
        <3>1. u <= maxVersion
            BY <1>1, <1>3, <2>1, <2>3
        <3>2. cache.active[published[u].key] = u
            BY <1>3, <3>1 DEF InForce
        <3>3. published[v].key # published[u].key
            BY <1>3, <2>3, CurrentIsLast
        <3>4. CASE next = Route(cache, v, t)
            BY <1>1, <2>1, <3>2, <3>3, <3>4, RoutedInForce
        <3>5. CASE next = Removed(cache, published[v].key)
            BY <1>1, <2>1, <3>2, <3>3, <3>5 DEF Removed, Snapshot
        <3> QED
            BY <3>4, <3>5
    <2> QED
        BY <2>2, <2>3
<1> QED
    BY <1>2, <1>3

LEMMA PlainInit == CfgInit => PlainInv
    BY DEF CfgInit, PlainInv, Alone, InForce, Received, NoWatch, NoSwap, Empty, NoKeys,
           Current, Version

\* Steps that publish nothing leave every change as current as it was.
LEMMA SameHistory ==
    ASSUME published' = published
    PROVE  Untimed' = Untimed /\ (\A v : Current(v)' = Current(v))
BY DEF Untimed, Current, Version, Superseded

\* A new change is beyond all that was received, and supersedes.
LEMMA PlainPublish == CfgInv /\ PlainInv /\ Publish => PlainInv'
<1> SUFFICES ASSUME CfgInv, PlainInv, Publish, Untimed'
             PROVE  (Alone /\ InForce /\ Received)'
    BY DEF PlainInv
<1>1. PICK k \in Key, s \in Shape :
         published' = Append(published, [key |-> k, kind |-> s.kind, from |-> s.from,
                                         until |-> s.until])
    BY DEF Publish
<1>2. UNCHANGED <<clock, phase, stream, cache, maxVersion, watch, swap>>
    BY DEF Publish
<1>3. published \in Seq(Changes) /\ Len(published) \in Nat
    BY DEF CfgInv, CfgTypes
<1>4. /\ Len(published') = Len(published) + 1
      /\ \A v \in 1 .. Len(published) : published'[v] = published[v]
    BY <1>1, <1>3
<1>5. Version \subseteq Version'
    BY <1>3, <1>4 DEF Version
<1>6. Untimed
    BY <1>4, <1>5 DEF Untimed, Version
<1>7. ASSUME NEW v, Current(v)', v <= Len(published)
      PROVE  Current(v) /\ published'[v] = published[v]
    <2>1. v \in Version /\ published'[v] = published[v]
        BY <1>3, <1>4, <1>7 DEF Current, Version
    <2>2. ~Superseded(v)
        BY <1>4, <1>5, <1>7, <2>1 DEF Current, Superseded, Version
    <2> QED
        BY <1>7, <2>1, <2>2 DEF Current
<1>8. maxVersion <= Len(published) /\ stream.sent <= Len(published)
      /\ maxVersion \in Nat /\ stream.sent \in Nat
    BY DEF CfgInv, CfgTypes
<1>9. Alone /\ InForce /\ Received
    BY <1>6 DEF PlainInv
<1>10. ASSUME NEW v, Current(v)' PROVE v \in Nat
    BY <1>3, <1>4, <1>10 DEF Current, Version
<1>11. Alone'
    BY <1>2, <1>9 DEF Alone
<1>12. InForce'
    BY <1>2, <1>3, <1>7, <1>8, <1>9, <1>10 DEF InForce
<1>13. Received'
    BY <1>2, <1>3, <1>7, <1>8, <1>9, <1>10 DEF Received
<1> QED
    BY <1>11, <1>12, <1>13

LEMMA PlainNext == CfgInv /\ PlainInv /\ [CfgNext]_cfgVars => PlainInv'
<1> SUFFICES ASSUME CfgInv, PlainInv, [CfgNext]_cfgVars, ~Publish, Untimed'
             PROVE  (Alone /\ InForce /\ Received)'
    BY PlainPublish DEF PlainInv
<1>1. published' = published
    BY DEF CfgNext, cfgVars, Tick, InitWatch, ApplyEvent, InitDone, InitFailed, Disconnect,
           Reconnect, WatchStep, WatchLoad, WatchStore, SwapStep, SwapLoad, SwapStore
<1>2. Untimed /\ (\A v : Current(v)' = Current(v)) /\ Alone /\ InForce /\ Received
    <2>1. Untimed' = Untimed /\ (\A v : Current(v)' = Current(v))
        BY <1>1, SameHistory
    <2>2. Untimed
        BY <2>1
    <2> QED
        BY <2>1, <2>2 DEF PlainInv
<1>3. /\ CfgTypes /\ CfgOrder /\ cache \in Snapshot /\ maxVersion \in Nat
      /\ stream.sent \in Nat /\ clock \in Nat /\ clock <= MaxTime
      /\ \A v : Current(v) => v \in Nat
    BY ConfigAssumption DEF CfgInv, CfgTypes, Current, Version
<1>4. CASE Tick \/ InitDone \/ Disconnect \/ UNCHANGED cfgVars
    <2>1. UNCHANGED <<cache, maxVersion, watch, swap>> /\ (stream' = stream \/ ~stream'.up)
        BY <1>3, <1>4 DEF Tick, InitDone, Disconnect, cfgVars, CfgTypes
    <2> QED
        BY <1>1, <1>2, <2>1 DEF Alone, InForce, Received
<1>5. CASE InitWatch \/ Reconnect
    <2>1. UNCHANGED <<cache, maxVersion, watch, swap>> /\ stream'.sent = maxVersion
        BY <1>3, <1>5 DEF InitWatch, Reconnect, Open, CfgOrder
    <2> QED
        BY <1>1, <1>2, <1>3, <2>1 DEF Alone, InForce, Received
<1>6. CASE InitFailed
    <2>1. /\ cache' = Empty /\ maxVersion' = 0 /\ UNCHANGED <<watch, swap>> /\ ~stream'.up
          /\ watch.pc = "idle" /\ swap.pc = "idle"
        BY <1>3, <1>6 DEF InitFailed, CfgOrder, CfgTypes, NoWatch, NoSwap
    <2>2. \A v : Current(v) => v > 0
        BY DEF Current, Version
    <2> QED
        BY <1>2, <1>3, <2>1, <2>2 DEF Alone, InForce, Received, Empty, NoKeys
<1>7. CASE ApplyEvent
    <2>1. PICK v \in Version :
             /\ Sends(v) /\ cache' = Route(cache, v, clock)
             /\ maxVersion' = IF v > maxVersion THEN v ELSE maxVersion
        BY <1>7 DEF ApplyEvent
    <2>2. /\ watch.pc = "idle" /\ swap.pc = "idle" /\ UNCHANGED <<watch, swap>>
        BY <1>3, <1>7 DEF ApplyEvent, CfgOrder, NoWatch, NoSwap
    <2>3. v \in Nat /\ stream'.sent = v /\ v > stream.sent /\ stream.up
        BY <1>3, <2>1, SendsTypes
    <2>4. v > maxVersion /\ maxVersion' = v
        BY <1>3, <2>1, <2>3 DEF CfgOrder
    <2>5. \A u : Current(u) /\ u > maxVersion /\ u <= v => u = v
        BY <1>2, <1>3, <2>1, <2>2, <2>3, PassedOver DEF Received
    <2>6. /\ \A k \in Key : cache'.pending[k] = 0
          /\ \A u : Current(u) /\ u <= v => cache'.active[published[u].key] = u
        BY <1>2, <1>3, <2>1, <2>4, <2>5, AppliedInForce DEF Alone
    <2> QED
        BY <1>1, <1>2, <1>3, <2>2, <2>3, <2>4, <2>6 DEF Alone, InForce, Received
<1>8. CASE WatchLoad
    <2>1. PICK v \in Version :
             Sends(v) /\ watch' = [pc |-> "loaded", ev |-> v, old |-> cache, at |-> clock]
        BY <1>8 DEF WatchLoad
    <2>2. UNCHANGED <<cache, maxVersion, swap>> /\ watch.pc = "idle"
        BY <1>8 DEF WatchLoad
    <2>3. v \in Nat /\ stream'.sent = v /\ v > stream.sent /\ stream.up
        BY <1>3, <2>1, SendsTypes
    <2>4. \A u : Current(u) /\ u > maxVersion /\ u <= v => u = v
        BY <1>2, <1>3, <2>1, <2>2, <2>3, PassedOver DEF Received
    <2> QED
        BY <1>1, <1>2, <1>3, <2>1, <2>2, <2>3, <2>4 DEF Alone, InForce, Received
<1>9. CASE WatchStore
    <2>1. /\ watch.ev \in Version /\ watch.ev \in Nat /\ watch.ev > maxVersion
          /\ watch.ev <= stream.sent /\ stream.up /\ watch.pc = "loaded"
          /\ watch.at \in Nat /\ watch.at <= MaxTime /\ watch.old = cache
        BY <1>2, <1>3, <1>9 DEF WatchStore, CfgTypes, CfgOrder, Version, Alone
    <2>2. /\ cache' = Applied(cache, watch.ev, watch.at) /\ UNCHANGED <<stream, swap>>
          /\ maxVersion' = IF published[watch.ev].kind # "delete" THEN watch.ev
                           ELSE maxVersion
          /\ watch'.pc = "idle"
        BY <1>9, <2>1 DEF WatchStore, Advanced, NoWatch
    <2>3. \A u : Current(u) /\ u > maxVersion /\ u <= stream.sent => u = watch.ev
        BY <1>2, <2>1 DEF Received
    <2>4. \A u : Current(u) /\ u > maxVersion /\ u <= watch.ev => u = watch.ev
        BY <1>3, <2>1, <2>3
    <2>5. \/ cache' = Route(cache, watch.ev, watch.at)
          \/ /\ published[watch.ev].kind = "delete"
             /\ cache' = Removed(cache, published[watch.ev].key)
        BY <2>2 DEF Applied
    <2>6. /\ \A k \in Key : cache'.pending[k] = 0
          /\ \A u : Current(u) /\ u <= watch.ev => cache'.active[published[u].key] = u
        BY <1>2, <1>3, <2>1, <2>4, <2>5, AppliedInForce DEF Alone
    <2>7. \A u : Current(u) /\ u <= maxVersion' => u <= watch.ev
        BY <1>3, <2>1, <2>2
    <2>8. \A u : Current(u) /\ u > maxVersion' => ~(u <= stream.sent)
        <3> SUFFICES ASSUME NEW u, Current(u), u > maxVersion', u <= stream.sent
                     PROVE  FALSE
            OBVIOUS
        <3>1. u > maxVersion
            BY <1>3, <2>1, <2>2
        <3>2. u = watch.ev
            BY <2>3, <3>1
        <3>3. published[watch.ev].kind # "delete"
            BY <3>2 DEF Current
        <3> QED
            BY <2>1, <2>2, <3>2, <3>3
    <2> QED
        BY <1>1, <1>2, <2>2, <2>6, <2>7, <2>8 DEF Alone, InForce, Received
<1>10. CASE SwapLoad
    \* Nothing waits.
    <2>1. \A k \in Key : k \notin Due(cache, clock)
        BY <1>2 DEF Alone, Due, IsEffective
    <2> QED
        BY <1>10, <2>1 DEF SwapLoad, Due
<1>11. CASE SwapStore
    BY <1>2, <1>11 DEF SwapStore, Alone
<1> QED
    BY <1>4, <1>5, <1>6, <1>7, <1>8, <1>9, <1>10, <1>11 DEF CfgNext, WatchStep, SwapStep

LEMMA PlainAlways == CfgSpec => [](CfgInv /\ PlainInv)
<1>1. CfgInit => CfgInv /\ PlainInv
    BY CfgInitInv, PlainInit
<1>2. CfgInv /\ PlainInv /\ [CfgNext]_cfgVars => (CfgInv /\ PlainInv)'
    BY CfgTypesNext, CfgOrderNext, PlainNext DEF CfgInv
<1> QED
    BY <1>1, <1>2, PTL DEF CfgSpec

\* configcenter/client.go watchLoop, onEvent and applyEvent: without scheduled
\* changes, every change received that no later one of its key has superseded
\* is in force, however often streams break and initial loads fail.
THEOREM ConfigNothingStale == CfgSpec => []NothingStale
<1>1. PlainInv => NothingStale
    BY DEF PlainInv, InForce, Current, NothingStale
<1> QED
    BY <1>1, PlainAlways, PTL

\* configcenter/client.go:11: without scheduled changes the promise that no
\* event is lost holds; it is the swapper alone that breaks it.
THEOREM ConfigNoEventLostUntimed == CfgSpec => [](Untimed => NoEventLost)
<1>1. CfgInv /\ PlainInv => (Untimed => NoEventLost)
    <2> SUFFICES ASSUME CfgInv, PlainInv, Untimed, Quiet, stream.sent = Len(published),
                        NEW v \in Version,
                        \A w \in Version : published[w].key = published[v].key => w <= v,
                        published[v].kind = "update"
                 PROVE  Newest(published[v].key) = v
        BY DEF NoEventLost
    <2>1. v \in Nat /\ v <= stream.sent /\ Len(published) \in Nat /\ maxVersion \in Nat
          /\ published \in Seq(Changes)
        BY DEF Version, CfgInv, CfgTypes
    <2>2. ~Superseded(v)
        BY <2>1 DEF Superseded, Version
    <2>3. v <= maxVersion
        BY <2>1, <2>2 DEF PlainInv, Received, Quiet, Current
    <2>4. published[v] \in Changes
        BY <2>1 DEF Version
    <2>5. published[v].key \in Key
        BY <2>4 DEF Changes
    <2> QED
        BY <2>2, <2>3, <2>5 DEF PlainInv, InForce, Alone, Current, Newest
<1> QED
    BY <1>1, PlainAlways, PTL

-----------------------------------------------------------------------------
\* What a snapshot serves of a key at a time: Get is this of the stored one.
Served(s, t, k) ==
    IF IsEffective(s.pending[k], t) THEN s.pending[k]
    ELSE IF IsEffective(s.active[k], t) THEN s.active[k]
    ELSE IF IsEffective(s.back[k], t) THEN s.back[k] ELSE 0
Highest(s, k) == IF s.pending[k] # 0 THEN s.pending[k] ELSE s.active[k]
\* From snapshot s to r nothing of key k goes back at time t, but for a fallback
\* that is forgotten and a value that is due and loses its slot to a newer one.
ForwardOnly(s, r, t, k) ==
    /\ Highest(r, k) >= Highest(s, k)
    /\ Served(r, t, k) < Served(s, t, k) =>
          \/ Served(s, t, k) \notin {s.pending[k], s.active[k]}
          \/ Served(s, t, k) = s.pending[k] /\ Highest(r, k) > Highest(s, k)

\* A value that only the fallback has is in neither slot, and nothing is
\* below none: the served value matters when it is in a slot.
LEMMA InSlotOnly ==
    ASSUME NEW s \in Snapshot, NEW r \in Snapshot, NEW t, NEW k \in Key,
           Highest(r, k) >= Highest(s, k),
           IsEffective(s.pending[k], t) =>
               Served(r, t, k) = s.pending[k] \/ Highest(r, k) > Highest(s, k),
           ~IsEffective(s.pending[k], t) /\ IsEffective(s.active[k], t) =>
               Served(r, t, k) >= s.active[k]
    PROVE  ForwardOnly(s, r, t, k)
<1>1. /\ s.pending[k] \in Nat /\ s.active[k] \in Nat /\ s.back[k] \in Nat
      /\ r.pending[k] \in Nat /\ r.active[k] \in Nat /\ r.back[k] \in Nat
    BY ConfigAssumption DEF Snapshot
<1>2. Served(r, t, k) \in Nat /\ Served(s, t, k) \in Nat
    BY <1>1 DEF Served
<1>3. CASE IsEffective(s.pending[k], t)
    <2>1. Served(s, t, k) = s.pending[k]
        BY <1>3 DEF Served
    <2>2. Served(r, t, k) < Served(s, t, k) => Highest(r, k) > Highest(s, k)
        BY <1>1, <1>3, <2>1
    <2> QED
        BY <2>1, <2>2 DEF ForwardOnly
<1>4. CASE ~IsEffective(s.pending[k], t) /\ IsEffective(s.active[k], t)
    <2>1. Served(s, t, k) = s.active[k] /\ Served(r, t, k) >= s.active[k]
        BY <1>4 DEF Served
    <2>2. ~(Served(r, t, k) < Served(s, t, k))
        BY <1>1, <1>2, <2>1
    <2> QED
        BY <2>2 DEF ForwardOnly
<1>5. CASE ~IsEffective(s.pending[k], t) /\ ~IsEffective(s.active[k], t)
    <2>1. CASE IsEffective(s.back[k], t)
        <3>1. Served(s, t, k) = s.back[k]
            BY <1>5, <2>1 DEF Served
        <3>2. s.back[k] # s.pending[k] /\ s.back[k] # s.active[k]
            BY <1>5, <2>1
        <3> QED
            BY <3>1, <3>2 DEF ForwardOnly
    <2>2. CASE ~IsEffective(s.back[k], t)
        <3>1. Served(s, t, k) = 0
            BY <1>5, <2>2 DEF Served
        <3>2. ~(Served(r, t, k) < Served(s, t, k))
            BY <1>2, <3>1
        <3> QED
            BY <3>2 DEF ForwardOnly
    <2> QED
        BY <2>1, <2>2
<1> QED
    BY <1>3, <1>4, <1>5

\* Routing a value beyond the snapshot: at once, later or never in force.
LEMMA RouteForward ==
    ASSUME CfgTypes, NEW s \in Snapshot, NEW n \in Nat, Ordered(s, n),
           NEW v \in Version, v > n, NEW t, NEW now, NEW k \in Key
    PROVE  ForwardOnly(s, Route(s, v, t), now, k)
<1> DEFINE r == Route(s, v, t)
           key == published[v].key
<1>1. /\ s.pending[k] \in Nat /\ s.active[k] \in Nat /\ v \in Nat /\ v # 0
      /\ s.pending[k] <= n /\ s.active[k] <= n
    BY ConfigAssumption DEF Snapshot, Ordered, Version, CfgTypes
<1>2. r \in Snapshot /\ s \in Snapshot
    BY RouteType
<1>3. /\ r.back = s.active
      /\ r.active[k] = IF k = key /\ IsEffective(v, t) THEN v ELSE s.active[k]
      /\ r.pending[k] = IF k = key /\ IsEffective(v, t) THEN 0
                        ELSE IF k = key /\ published[v].from > t THEN v ELSE s.pending[k]
    BY DEF Route, Snapshot
<1> HIDE DEF r, key
\* Both slots as before, or emptied by v, or waiting with v.
<1>4. \/ r.active[k] = s.active[k] /\ r.pending[k] = s.pending[k]
      \/ r.active[k] = v /\ r.pending[k] = 0
      \/ r.active[k] = s.active[k] /\ r.pending[k] = v
    BY <1>3
<1>5. \/ Highest(r, k) = Highest(s, k) /\ r.pending[k] = s.pending[k]
      \/ Highest(r, k) = v
    BY <1>1, <1>4 DEF Highest
<1>6. Highest(s, k) <= n /\ Highest(s, k) \in Nat
    BY <1>1 DEF Highest
<1>7. Highest(r, k) >= Highest(s, k)
    BY <1>1, <1>5, <1>6
<1>8. ASSUME IsEffective(s.pending[k], now)
      PROVE  Served(r, now, k) = s.pending[k] \/ Highest(r, k) > Highest(s, k)
    <2>1. CASE r.pending[k] = s.pending[k]
        BY <1>8, <2>1 DEF Served
    <2>2. CASE Highest(r, k) = v
        BY <1>1, <1>6, <2>2
    <2> QED
        BY <1>5, <2>1, <2>2
<1>9. ASSUME ~IsEffective(s.pending[k], now), IsEffective(s.active[k], now)
      PROVE  Served(r, now, k) >= s.active[k]
    <2>1. Served(r, now, k) \in {v, s.active[k]}
        <3>1. ~IsEffective(0, now) /\ r.back[k] = s.active[k]
            BY <1>3 DEF IsEffective
        <3> QED
            BY <1>4, <1>9, <3>1 DEF Served
    <2> QED
        BY <1>1, <2>1
<1>10. ForwardOnly(s, r, now, k)
    BY <1>2, <1>7, <1>8, <1>9, InSlotOnly
<1> QED
    BY <1>10 DEF r

\* A value that is swapped in is served as before.
LEMMA SwappedForward ==
    ASSUME NEW s \in Snapshot, NEW t, NEW now, NEW k \in Key
    PROVE  ForwardOnly(s, Swapped(s, t), now, k)
<1> DEFINE r == Swapped(s, t)
<1>1. s.pending[k] \in Nat /\ s.active[k] \in Nat
    BY ConfigAssumption DEF Snapshot
<1>2. r \in Snapshot /\ s \in Snapshot
    BY SwappedType
<1>3. /\ r.back = s.active
      /\ r.active[k] = IF k \in Due(s, t) THEN s.pending[k] ELSE s.active[k]
      /\ r.pending[k] = IF k \in Due(s, t) THEN 0 ELSE s.pending[k]
    BY DEF Swapped
<1> HIDE DEF r
<1>4. k \in Due(s, t) => s.pending[k] # 0
    BY DEF Due, IsEffective
<1>5. Highest(r, k) = Highest(s, k) /\ Highest(s, k) \in Nat
    BY <1>1, <1>3, <1>4 DEF Highest
<1>6. ~IsEffective(0, now) /\ r.back[k] = s.active[k]
    BY <1>3 DEF IsEffective
<1>7. IsEffective(s.pending[k], now) => Served(r, now, k) = s.pending[k]
    BY <1>3, <1>6 DEF Served
<1>8. ~IsEffective(s.pending[k], now) /\ IsEffective(s.active[k], now)
         => Served(r, now, k) = s.active[k]
    BY <1>3, <1>6 DEF Served
<1>9. ForwardOnly(s, r, now, k)
    BY <1>1, <1>2, <1>5, <1>7, <1>8, InSlotOnly
<1> QED
    BY <1>9 DEF r

\* A change published reaches no client: versions that are known last as long.
LEMMA PublishServes ==
    ASSUME CfgInv, Publish, NEW k \in Key
    PROVE  Newest(k)' >= Newest(k) /\ ~(Get(k)' < Get(k) /\ Get(k) \in {cache.pending[k], cache.active[k]})
<1> USE DEF CfgInv
<1>1. cache' = cache /\ clock' = clock
    BY DEF Publish
<1>2. PICK c : published' = Append(published, c)
    BY DEF Publish
<1>3. published \in Seq(Changes) /\ Len(published) \in Nat /\ cache \in Snapshot
    BY DEF CfgTypes
<1>4. \A v \in 1 .. Len(published) : published'[v] = published[v]
    BY <1>2, <1>3
<1>5. /\ cache.pending[k] \in Nat /\ cache.active[k] \in Nat /\ cache.back[k] \in Nat
      /\ cache.pending[k] <= Len(published) /\ cache.active[k] <= Len(published)
    <2>1. cache.pending[k] \in Nat /\ cache.active[k] \in Nat /\ cache.back[k] \in Nat
        BY <1>3, ConfigAssumption DEF Snapshot
    <2>2. cache.pending[k] <= maxVersion /\ cache.active[k] <= maxVersion
        BY DEF CfgOrder, Ordered
    <2>3. maxVersion \in Nat /\ maxVersion <= Len(published)
        BY <1>3 DEF CfgTypes
    <2> QED
        BY <1>3, <2>1, <2>2, <2>3
<1>6. \A v \in Nat : v <= Len(published) => IsEffective(v, clock)' = IsEffective(v, clock)
    <2> SUFFICES ASSUME NEW v \in Nat, v <= Len(published), v # 0
                 PROVE  IsEffective(v, clock)' = IsEffective(v, clock)
        BY <1>1 DEF IsEffective
    <2>1. published'[v] = published[v]
        BY <1>3, <1>4
    <2> QED
        BY <1>1, <2>1 DEF IsEffective
<1>7. IsEffective(cache.pending[k], clock)' = IsEffective(cache.pending[k], clock)
    BY <1>1, <1>5, <1>6 DEF IsEffective
<1>8. IsEffective(cache.active[k], clock)' = IsEffective(cache.active[k], clock)
    BY <1>1, <1>5, <1>6 DEF IsEffective
<1>9. Newest(k)' = Newest(k) /\ Newest(k) \in Nat
    BY <1>1, <1>5 DEF Newest
<1>10. ASSUME IsEffective(cache.pending[k], clock) \/ IsEffective(cache.active[k], clock)
       PROVE  Get(k)' = Get(k)
    BY <1>1, <1>7, <1>8, <1>10 DEF Get
<1>11. ASSUME ~IsEffective(cache.pending[k], clock), ~IsEffective(cache.active[k], clock)
       PROVE  Get(k) = 0 \/ Get(k) \notin {cache.pending[k], cache.active[k]}
    BY <1>11 DEF Get
<1>12. Get(k) \in Nat /\ Get(k)' \in Nat
    BY <1>1, <1>5 DEF Get
<1> QED
    BY <1>9, <1>10, <1>11, <1>12

LEMMA SlotsServed ==
    ASSUME NEW s \in Snapshot, NEW now, NEW k \in Key
    PROVE  Served(s, now, k) \in Nat
<1>1. s.pending[k] \in Nat /\ s.active[k] \in Nat /\ s.back[k] \in Nat
    BY ConfigAssumption DEF Snapshot
<1> QED
    BY <1>1 DEF Served

\* Only the slots of the key matter of the snapshot that a store was made from.
LEMMA SlotsKeptForward ==
    ASSUME NEW s \in Snapshot, NEW r, NEW now, NEW k \in Key,
           r.active[k] = s.active[k], r.pending[k] = s.pending[k], r.back[k] \in Nat
    PROVE  ForwardOnly(s, r, now, k)
<1>1. s.pending[k] \in Nat /\ s.active[k] \in Nat /\ s.back[k] \in Nat
    BY ConfigAssumption DEF Snapshot
<1>2. Highest(r, k) = Highest(s, k) /\ Highest(s, k) \in Nat
    BY <1>1 DEF Highest
<1>3. CASE IsEffective(s.pending[k], now) \/ IsEffective(s.active[k], now)
    <2>1. Served(r, now, k) = Served(s, now, k) /\ Served(s, now, k) \in Nat
        BY <1>1, <1>3 DEF Served
    <2> QED
        BY <1>2, <2>1 DEF ForwardOnly
<1>4. CASE ~IsEffective(s.pending[k], now) /\ ~IsEffective(s.active[k], now)
    <2>1. Served(r, now, k) \in Nat
        BY <1>1, <1>4 DEF Served
    <2>2. Served(s, now, k) = 0 \/ Served(s, now, k) \notin {s.pending[k], s.active[k]}
        BY <1>4 DEF Served
    <2> QED
        BY <1>2, <2>1, <2>2 DEF ForwardOnly
<1> QED
    BY <1>3, <1>4

LEMMA SameEntryForward ==
    ASSUME NEW s \in Snapshot, NEW q \in Snapshot, NEW r, NEW now, NEW k \in Key,
           q.active[k] = s.active[k], q.pending[k] = s.pending[k],
           ForwardOnly(q, r, now, k), Served(r, now, k) \in Nat
    PROVE  ForwardOnly(s, r, now, k)
<1>1. s.pending[k] \in Nat /\ s.active[k] \in Nat /\ s.back[k] \in Nat
    BY ConfigAssumption DEF Snapshot
<1>2. Highest(q, k) = Highest(s, k)
    BY DEF Highest
<1>3. CASE IsEffective(s.pending[k], now) \/ IsEffective(s.active[k], now)
    <2>1. Served(q, now, k) = Served(s, now, k)
        BY <1>3 DEF Served
    <2> QED
        BY <1>2, <2>1 DEF ForwardOnly
<1>4. CASE ~IsEffective(s.pending[k], now) /\ ~IsEffective(s.active[k], now)
    <2>1. Served(s, now, k) = 0 \/ Served(s, now, k) \notin {s.pending[k], s.active[k]}
        BY <1>4 DEF Served
    <2>2. Highest(r, k) >= Highest(s, k)
        BY <1>2 DEF ForwardOnly
    <2> QED
        BY <2>1, <2>2 DEF ForwardOnly
<1> QED
    BY <1>3, <1>4

LEMMA CfgStepForward ==
    ASSUME CfgInv, [CfgNext]_cfgVars, NEW k \in Key, ~Overlap(k), ~Deleted(k), ~InitFailed
    PROVE  /\ Newest(k)' >= Newest(k)
           /\ Get(k)' < Get(k) =>
                 \/ clock' # clock
                 \/ Get(k) \notin {cache.pending[k], cache.active[k]}
                 \/ Get(k) = cache.pending[k] /\ Newest(k)' > Newest(k)
<1> USE DEF CfgInv
<1>1. cache \in Snapshot /\ maxVersion \in Nat /\ Ordered(cache, maxVersion)
    BY DEF CfgTypes, CfgOrder
<1>2. Newest(k) \in Nat
    BY <1>1, ConfigAssumption DEF Snapshot, Newest
<1>3. ASSUME published' = published, clock' = clock, ForwardOnly(cache, cache', clock, k)
      PROVE  /\ Newest(k)' >= Newest(k)
             /\ Get(k)' < Get(k) =>
                   \/ Get(k) \notin {cache.pending[k], cache.active[k]}
                   \/ Get(k) = cache.pending[k] /\ Newest(k)' > Newest(k)
    <2>1. Get(k) = Served(cache, clock, k) /\ Newest(k) = Highest(cache, k)
        BY DEF Get, Served, Newest, Highest
    <2>2. Get(k)' = Served(cache', clock, k) /\ Newest(k)' = Highest(cache', k)
        BY <1>3 DEF Get, Served, Newest, Highest, IsEffective
    <2> QED
        BY <1>3, <2>1, <2>2 DEF ForwardOnly
<1>4. CASE Publish
    BY <1>4, PublishServes
<1>5. CASE Tick
    BY <1>2, <1>5 DEF Tick, Newest, CfgTypes
<1>6. CASE ApplyEvent
    <2>1. PICK v \in Version : Sends(v) /\ cache' = Route(cache, v, clock)
        BY <1>6 DEF ApplyEvent
    <2>2. v > maxVersion
        <3>1. v > stream.sent /\ stream.up /\ v \in Nat /\ stream.sent \in Nat
            BY <2>1, SendsTypes DEF CfgTypes, Version
        <3>2. stream.sent >= maxVersion
            BY <3>1 DEF CfgOrder
        <3> QED
            BY <1>1, <3>1, <3>2
    <2>3. ForwardOnly(cache, cache', clock, k)
        BY <1>1, <2>1, <2>2, RouteForward
    <2> QED
        BY <1>3, <1>6, <2>3 DEF ApplyEvent
<1>7. CASE WatchStore
    <2>1. /\ watch.old.active[k] = cache.active[k] /\ watch.old.pending[k] = cache.pending[k]
          /\ ~(published[watch.ev].kind = "delete" /\ published[watch.ev].key = k)
        BY <1>7 DEF Overlap, Behind, Deleted
    <2>2. watch.ev \in Version /\ watch.ev > maxVersion
        BY <1>7 DEF WatchStore, CfgTypes, CfgOrder, Version
    <2>3. watch.old \in Snapshot /\ Ordered(watch.old, maxVersion)
        BY DEF CfgTypes, CfgOrder
    <2>4. CASE published[watch.ev].kind # "delete"
        <3>1. cache' = Route(watch.old, watch.ev, watch.at)
            BY <1>7, <2>4 DEF WatchStore, Applied
        <3>2. ForwardOnly(watch.old, cache', clock, k)
            BY <1>1, <2>2, <2>3, <3>1, RouteForward
        <3>3. cache' \in Snapshot
            BY <2>2, <2>3, <3>1, RouteType
        <3>4. Served(cache', clock, k) \in Nat
            BY <3>3, SlotsServed
        <3>5. ForwardOnly(cache, cache', clock, k)
            BY <1>1, <2>1, <2>3, <3>2, <3>4, SameEntryForward
        <3> QED
            BY <1>3, <1>7, <3>5 DEF WatchStore
    <2>5. CASE published[watch.ev].kind = "delete"
        <3>1. cache' = Removed(watch.old, published[watch.ev].key)
            BY <1>7, <2>5 DEF WatchStore, Applied
        <3>2. cache'.active[k] = cache.active[k] /\ cache'.pending[k] = cache.pending[k]
            BY <2>1, <2>3, <2>5, <3>1 DEF Removed, Snapshot
        <3>3. cache'.back[k] \in Nat
            BY <2>3, <3>1, ConfigAssumption DEF Removed, Snapshot
        <3>4. ForwardOnly(cache, cache', clock, k)
            BY <1>1, <3>2, <3>3, SlotsKeptForward
        <3> QED
            BY <1>3, <1>7, <3>4 DEF WatchStore
    <2> QED
        BY <2>4, <2>5
<1>8. CASE SwapStore
    <2>1. /\ swap.old.active[k] = cache.active[k] /\ swap.old.pending[k] = cache.pending[k]
          /\ cache' = Swapped(swap.old, swap.at) /\ swap.old \in Snapshot
        BY <1>8 DEF Overlap, Behind, SwapStore, CfgTypes
    <2>2. ForwardOnly(swap.old, cache', clock, k)
        BY <2>1, SwappedForward
    <2>3. Served(cache', clock, k) \in Nat
        BY <2>1, SwappedType, SlotsServed
    <2>4. ForwardOnly(cache, cache', clock, k)
        BY <1>1, <2>1, <2>2, <2>3, SameEntryForward
    <2> QED
        BY <1>3, <1>8, <2>4 DEF SwapStore
<1>9. CASE \/ InitWatch \/ InitDone \/ Disconnect \/ Reconnect \/ WatchLoad \/ SwapLoad
           \/ UNCHANGED cfgVars
    <2>1. UNCHANGED <<cache, clock, published>>
        BY <1>9 DEF InitWatch, InitDone, Disconnect, Reconnect, WatchLoad, SwapLoad, cfgVars
    <2>2. Get(k)' = Get(k) /\ Newest(k)' = Newest(k)
        BY <2>1 DEF Get, Newest, IsEffective
    <2>3. Get(k) \in Nat
        BY <1>1, ConfigAssumption DEF Get, Snapshot
    <2> QED
        BY <1>2, <2>2, <2>3
<1> QED
    BY <1>4, <1>5, <1>6, <1>7, <1>8, <1>9 DEF CfgNext, WatchStep, SwapStep

\* configcenter/client.go onEvent, applyEvent and maybeSwap: a store loses the
\* newest version of no key but the one it deletes and those whose entry it does
\* not know, and what Get serves goes back only then, when time passes, when the
\* fallback is forgotten, or when a newer change takes the slot of one that is
\* due.
THEOREM ConfigGoesBackOnly == CfgSpec => GoesBackOnly
<1>1. CfgInv /\ [CfgNext]_cfgVars =>
         [\A k \in Key :
             \/ Overlap(k) \/ Deleted(k) \/ InitFailed
             \/ /\ Newest(k)' >= Newest(k)
                /\ Get(k)' < Get(k) =>
                       \/ clock' # clock
                       \/ Get(k) \notin {cache.pending[k], cache.active[k]}
                       \/ Get(k) = cache.pending[k] /\ Newest(k)' > Newest(k)]_cfgVars
    BY CfgStepForward
<1> QED
    BY <1>1, CfgAlwaysInv, PTL DEF CfgSpec, GoesBackOnly

-------------------------------------------------------------------------------
(* Typed reads agree.                                                      *)

LEMMA TextParts ==
    ASSUME NEW t \in Text
    PROVE  /\ t.shape \in Shapes /\ t.words \in Seq(Literal)
           /\ \A shape \in Shapes : As(shape, t).shape = shape /\ As(shape, t).words = t.words
<1>1. t.shape \in Shapes /\ t.words \in BoundedSeq(Literal, MaxWords)
    BY DEF Text
<1>2. PICK n \in 0 .. MaxWords : t.words \in [1 .. n -> Literal]
    BY <1>1 DEF BoundedSeq, SeqOf
<1> QED
    BY <1>1, <1>2, TypedAssumption DEF As, Text

\* One word, bare or quoted.
LEMMA WordReads ==
    ASSUME NEW t \in Text, t.shape = "bare", Len(t.words) = 1, t.words # <<"null">>
    PROVE  /\ GetInt(As("quoted", t)) = GetInt(t)
           /\ GetDuration(As("quoted", t)) = GetDuration(t)
           /\ GetInt64(As("quoted", t)) = Default
           /\ GetFloat64(As("quoted", t)) = Default
           /\ GetBool(As("quoted", t)) = Default
<1> DEFINE q == As("quoted", t)
<1>1. q.shape = "quoted" /\ q.words = t.words /\ t.words \in Seq(Literal)
    BY TextParts DEF Shapes
<1>2. t.words[1] # "null"
    BY <1>1
<1> HIDE DEF q
<1> SUFFICES /\ GetInt(q) = GetInt(t) /\ GetDuration(q) = GetDuration(t)
             /\ GetInt64(q) = Default /\ GetFloat64(q) = Default /\ GetBool(q) = Default
    BY DEF q
<1>3. \A words : ~Bare(q, words) /\ ~Quoted(t, words)
    BY <1>1 DEF Bare, Quoted
<1>4. \A words : (Quoted(q, words) <=> t.words[1] \in words) /\ (Bare(t, words) <=> t.words[1] \in words)
    BY <1>1 DEF Bare, Quoted
<1>5. GetInt(q) = GetInt(t)
    BY <1>1, <1>2, <1>3, <1>4 DEF GetInt, Scalar
<1>6. GetDuration(q) = GetDuration(t)
    BY <1>1, <1>3, <1>4 DEF GetDuration
<1> QED
    BY <1>3, <1>5, <1>6 DEF GetInt64, GetFloat64, GetBool, Scalar

\* The readers of numbers.
LEMMA NumbersAgree ==
    ASSUME NEW t \in Text, GetInt64(t) # Default
    PROVE  GetInt(t) = GetInt64(t) /\ GetFloat64(t) = GetInt64(t)
<1>1. Bare(t, {"1"}) \/ Bare(t, {"null"})
    BY DEF GetInt64, Scalar
<1>2. Bare(t, {"1"}) => Bare(t, {"1", "2.5"})
    BY DEF Bare
<1>3. Bare(t, {"null"}) => ~Bare(t, {"1"}) /\ ~Bare(t, {"1", "2.5"}) /\ ~Quoted(t, {"1"})
    BY DEF Bare, Quoted
<1> QED
    BY <1>1, <1>2, <1>3 DEF GetInt, GetInt64, GetFloat64, Scalar

\* A list as words or as an array.
LEMMA ListReads ==
    ASSUME NEW t \in Text, t.shape = "bare", t.words # <<>>
    PROVE  /\ GetStringList(As("strings", t)) = GetStringList(t)
           /\ "null" \notin Range(t.words) => GetIntList(As("ints", t)) = GetIntList(t)
<1>1. GetStringList(As("strings", t)) = GetStringList(t)
    BY TextParts DEF Shapes, GetStringList
<1>2. ASSUME "null" \notin Range(t.words) PROVE GetIntList(As("ints", t)) = GetIntList(t)
  <2> DEFINE a == As("ints", t)
  <2>1. a.shape = "ints" /\ a.words = t.words /\ t.words \in Seq(Literal)
      BY TextParts DEF Shapes
  <2> HIDE DEF a
  <2>2. t.words[1] \in Range(t.words)
      BY <2>1 DEF Range
  <2>3. Range(t.words) = {"1"} <=> Range(t.words) \subseteq {"1", "null"}
      BY <1>2, <2>2
  <2>4. GetIntList(a) = IF Range(t.words) = {"1"} THEN Value(t.words) ELSE Default
      BY <1>2, <2>1, <2>3 DEF GetIntList
  <2>5. GetIntList(t) = IF Range(t.words) = {"1"} THEN Value(t.words) ELSE Default
      BY DEF GetIntList
  <2> QED
      BY <2>4, <2>5 DEF a
<1> QED
    BY <1>1, <1>2

\* The zero is read from a null only.
LEMMA ZeroFromNull ==
    ASSUME NEW t \in Text,
           Zero \in Answers(t) \cup {GetStringList(t), GetIntList(t), GetMap(t)}
    PROVE  "null" \in Range(t.words)
<1>1. Zero # Default /\ Zero # Fragments /\ \A words : Value(words) # Zero
    BY DEF Zero, Default, Fragments, Value
<1>2. t.words \in Seq(Literal)
    BY TextParts
<1>3. \A reads : Scalar(t, reads) = Zero => Bare(t, {"null"})
    BY <1>1 DEF Scalar
<1>4. Bare(t, {"null"}) => "null" \in Range(t.words)
    BY <1>2 DEF Bare, Range
<1>5. GetDuration(t) # Zero
    BY <1>1 DEF GetDuration
<1>6. Zero \in Answers(t) => Bare(t, {"null"})
    BY <1>3, <1>5 DEF Answers, GetInt, GetInt64, GetFloat64, GetBool
<1>7. GetStringList(t) = Zero => "null" \in Range(t.words)
    BY <1>1 DEF GetStringList
<1>8. GetIntList(t) = Zero => "null" \in Range(t.words)
    BY <1>1 DEF GetIntList
<1>9. GetMap(t) = Zero => Bare(t, {"null"})
    BY <1>1 DEF GetMap
<1> QED
    BY <1>4, <1>6, <1>7, <1>8, <1>9

\* Pieces of a text come from GetStringList only.
LEMMA FragmentsFromStringList ==
    ASSUME NEW t \in Text
    PROVE  /\ Fragments \notin Answers(t) \cup {GetIntList(t), GetMap(t)}
           /\ GetStringList(t) = Fragments => t.shape \notin {"bare", "strings"}
<1>1. Fragments # Default /\ Fragments # Zero /\ \A words : Value(words) # Fragments
    BY DEF Zero, Default, Fragments, Value
<1>2. \A reads : Scalar(t, reads) # Fragments
    BY <1>1 DEF Scalar
<1>3. Fragments \notin Answers(t)
    BY <1>1, <1>2 DEF Answers, GetInt, GetInt64, GetFloat64, GetBool, GetDuration
<1>4. GetIntList(t) # Fragments
    BY <1>1 DEF GetIntList
<1>5. GetMap(t) # Fragments
    BY <1>1 DEF GetMap
<1>6. GetStringList(t) = Fragments => t.shape \notin {"bare", "strings"}
    BY <1>1 DEF GetStringList
<1> QED
    BY <1>3, <1>4, <1>5, <1>6

\* configcenter/typed.go: of every text, however long, the readers agree with
\* one another as the property says, and none makes a value up.
THEOREM TypedReadsAgree == TySpec => []ReadsAlike
<1> DEFINE TyInv == text \in Text
<1>1. TyInit => TyInv
    BY DEF TyInit
<1>2. TyInv /\ [TyNext]_tyVars => TyInv'
    BY DEF TyNext, tyVars
<1>3. TyInv => ReadsAlike
  <2> SUFFICES ASSUME text \in Text PROVE ReadsAlike
      OBVIOUS
  <2>1. text.shape = "bare" /\ Len(text.words) = 1 /\ text.words # <<"null">> =>
           LET quoted == As("quoted", text) IN
           /\ GetInt(quoted) = GetInt(text)
           /\ GetDuration(quoted) = GetDuration(text)
           /\ {GetInt64(quoted), GetFloat64(quoted), GetBool(quoted)} = {Default}
      BY WordReads
  <2> QED
      BY <2>1, NumbersAgree, ListReads, ZeroFromNull, FragmentsFromStringList, Zenon
      DEF ReadsAlike
<1> HIDE DEF TyInv
<1> QED
    BY <1>1, <1>2, <1>3, PTL DEF TySpec

===============================================================================
