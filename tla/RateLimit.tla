------------------------------ MODULE RateLimit ------------------------------
(***************************************************************************)
(* The per-merchant limiter (ratelimit/merchant.go) over the keyed token   *)
(* buckets (ratelimit/ratelimit.go).  A call reads the configuration, looks *)
(* its bucket up under the read lock, creates it under the write lock if it *)
(* was missing, and takes its token after both locks are released, so a    *)
(* call may hold a bucket that has been evicted meanwhile.  An update      *)
(* stores the configuration and then walks the buckets under the lock;     *)
(* nothing keeps two updates apart.                                        *)
(* The bucket (golang.org/x/time/rate) is external: one clock tick adds    *)
(* rps tokens, never past burst.                                           *)
(***************************************************************************)
EXTENDS Naturals, FiniteSets, Functions

CONSTANTS Merchant,
          Caller,         \* the calls in flight
          Updater,        \* the calls of UpdateConfig in flight
          Config,         \* the configurations that may be pushed: records
                          \*   [default |-> spec, merchants |-> function]
          MaxKey,         \* Keyed.maxKey
          MaxBuckets,     \* bound: buckets created
          MaxPushes,      \* bound: configurations pushed
          MaxTicks        \* bound: clock ticks

VARIABLES cfg,            \* MerchantLimiter.cfg
          limit,          \* Keyed.rps and Keyed.burst
          applying,       \* per updater: the configuration it stored and has
                          \* yet to apply, none or one
          limiters,       \* Keyed.limiters: merchant -> bucket, 0 for none
          bucket,         \* the buckets ever created
          call,           \* per caller: what it does, for whom, with which bucket
          granted,        \* history: tokens taken, by merchant
          evicted,        \* history: buckets evicted, by merchant
          updatesCross,   \* history: the last update began while another was under
                          \* way, or another began while it was
          pushes,         \* configurations pushed
          clock

rlVars == <<cfg, limit, applying, limiters, bucket, call, granted, evicted, updatesCross,
            pushes, clock>>

None == 0
Smaller(a, b) == IF a < b THEN a ELSE b
Largest(S) == CHOOSE x \in S : \A y \in S : y <= x

Specs(c) == {c.default} \cup Range(c.merchants)

\* A limit that is not positive, which counts as none, is 0.
ASSUME RateAssumption ==
  /\ MaxKey \in Nat \ {0}
  /\ IsFiniteSet(Config)
  /\ \A c \in Config : /\ IsFiniteSet(Specs(c))
                       /\ \A s \in Specs(c) : s.rps \in Nat /\ s.burst \in Nat

\* applyConfig: the buckets of all merchants get the largest limits of any.
LimitOf(c) ==
  LET rps == Largest({s.rps : s \in Specs(c)})
      burst == Largest({s.burst : s \in Specs(c)})
  IN [rps   |-> IF rps = 0 THEN 100 ELSE rps,
      burst |-> IF burst = 0 THEN 200 ELSE burst]

SpecOf(c, m) == IF m \in DOMAIN c.merchants THEN c.merchants[m] ELSE c.default
\* Allow answers yes without a token.
Unlimited(c, m) ==
  \/ c.default.rps = 0 /\ DOMAIN c.merchants = {}
  \/ SpecOf(c, m).rps = 0

Resting == [at |-> "rest", for |-> None, with |-> None]

-----------------------------------------------------------------------------
RlInit ==
  /\ cfg \in Config
  /\ limit = LimitOf(cfg)
  /\ applying = [u \in Updater |-> {}]
  /\ updatesCross = FALSE
  /\ limiters = [m \in Merchant |-> None]
  /\ bucket = <<>>
  /\ call = [c \in Caller |-> Resting]
  /\ granted = [m \in Merchant |-> 0]
  /\ evicted = [m \in Merchant |-> 0]
  /\ pushes = 0
  /\ clock = 0

\* Allow up to the read unlock, for a merchant that is limited.
Look(c, m) ==
  /\ call[c] = Resting
  /\ ~Unlimited(cfg, m)
  /\ call' = [call EXCEPT ![c] = [at |-> IF limiters[m] = None THEN "create" ELSE "take",
                                  for |-> m, with |-> limiters[m]]]
  /\ UNCHANGED <<cfg, limit, applying, limiters, bucket, granted, evicted, updatesCross,
                 pushes, clock>>

Live == {m \in Merchant : limiters[m] # None}
NewBucket(m) == [tokens |-> limit.burst, rps |-> limit.rps, burst |-> limit.burst]

\* The write-locked half: the second look, the eviction, the new bucket.
Create(c) ==
  LET m == call[c].for IN
  /\ call[c].at = "create"
  /\ IF limiters[m] # None
     THEN /\ call' = [call EXCEPT ![c].at = "take", ![c].with = limiters[m]]
          /\ UNCHANGED <<limiters, bucket, evicted>>
     ELSE LET id == Cardinality(DOMAIN bucket) + 1 IN
          /\ id <= MaxBuckets
          /\ bucket' = [b \in 1 .. id |-> IF b = id THEN NewBucket(m) ELSE bucket[b]]
          /\ call' = [call EXCEPT ![c].at = "take", ![c].with = id]
          /\ IF Cardinality(Live) < MaxKey
             THEN limiters' = [limiters EXCEPT ![m] = id] /\ UNCHANGED evicted
             ELSE \E victim \in Live :
                    /\ limiters' = [limiters EXCEPT ![victim] = None, ![m] = id]
                    /\ evicted' = [evicted EXCEPT ![victim] = @ + 1]
  /\ UNCHANGED <<cfg, limit, applying, granted, updatesCross, pushes, clock>>

\* lim.Allow(), after the locks are released.
TakeToken(c) ==
  LET b == call[c].with
      has == Smaller(bucket[b].tokens, bucket[b].burst)
  IN /\ call[c].at = "take"
     /\ call' = [call EXCEPT ![c] = Resting]
     /\ bucket' = [bucket EXCEPT ![b].tokens = IF has > 0 THEN has - 1 ELSE has]
     /\ granted' = [granted EXCEPT ![call[c].for] = IF has > 0 THEN @ + 1 ELSE @]
     /\ UNCHANGED <<cfg, limit, applying, limiters, evicted, updatesCross, pushes, clock>>

\* UpdateConfig: m.cfg.Store, then applyConfig and SetLimit under the lock.
Updating == {u \in Updater : applying[u] # {}}
StoreConfig(u, c) ==
  /\ applying[u] = {} /\ pushes < MaxPushes
  /\ pushes' = pushes + 1
  /\ cfg' = c
  /\ applying' = [applying EXCEPT ![u] = {c}]
  /\ updatesCross' = (Updating # {})
  /\ UNCHANGED <<limit, limiters, bucket, call, granted, evicted, clock>>

\* Mutant: only buckets created from now on get the new limits.
ApplyConfigLater(u) ==
  /\ \E c \in applying[u] : limit' = LimitOf(c)
  /\ applying' = [applying EXCEPT ![u] = {}]
  /\ UNCHANGED <<cfg, limiters, bucket, call, granted, evicted, updatesCross, pushes, clock>>

ApplyConfig(u) ==
  /\ \E c \in applying[u] : limit' = LimitOf(c)
  /\ applying' = [applying EXCEPT ![u] = {}]
  /\ bucket' = [b \in DOMAIN bucket |->
                  IF \E m \in Live : limiters[m] = b
                  THEN [bucket[b] EXCEPT !.rps = limit'.rps, !.burst = limit'.burst]
                  ELSE bucket[b]]
  /\ UNCHANGED <<cfg, limiters, call, granted, evicted, updatesCross, pushes, clock>>

\* External: time passes and every bucket refills.
ClockTick ==
  /\ clock < MaxTicks
  /\ clock' = clock + 1
  /\ bucket' = [b \in DOMAIN bucket |->
                  [bucket[b] EXCEPT !.tokens = Smaller(@ + bucket[b].rps, bucket[b].burst)]]
  /\ UNCHANGED <<cfg, limit, applying, limiters, call, granted, evicted, updatesCross, pushes>>

RlNext ==
  \/ \E c \in Caller, m \in Merchant : Look(c, m)
  \/ \E c \in Caller : Create(c) \/ TakeToken(c)
  \/ \E u \in Updater : ApplyConfig(u) \/ \E c \in Config : StoreConfig(u, c)
  \/ ClockTick

RlSpec == RlInit /\ [][RlNext]_rlVars

-----------------------------------------------------------------------------
RlTypeOK ==
  /\ cfg \in Config
  /\ applying \in [Updater -> SUBSET Config] /\ updatesCross \in BOOLEAN
  /\ limiters \in [Merchant -> 0 .. MaxBuckets]
  /\ \A c \in Caller : call[c].at \in {"rest", "create", "take"}
  /\ pushes \in 0 .. MaxPushes /\ clock \in 0 .. MaxTicks

MaxOf(field(_)) == Largest({field(LimitOf(c)) : c \in Config})

\* A merchant never gets more than one full bucket and one refill per tick for
\* its first bucket and for each one the eviction threw away, however calls
\* race for the first look-up; no bucket is shared (Allow's second look under the
\* write lock).  Every live bucket runs at the limits that new ones get
\* (SetLimit's walk under the same lock), and with no update under way these are
\* the ones of the configuration in force, unless the last updates overlapped:
\* UpdateConfig takes no lock, and the older one may then apply last.
NoOverdraft ==
  /\ \A m \in Merchant :
       granted[m] <= (1 + evicted[m]) * (MaxOf(LAMBDA l : l.burst)
                                          + MaxOf(LAMBDA l : l.rps) * clock)
  /\ \A m, n \in Live : limiters[m] = limiters[n] => m = n
  /\ \A m \in Live : /\ bucket[limiters[m]].rps = limit.rps
                     /\ bucket[limiters[m]].burst = limit.burst
  /\ Updating = {} /\ ~updatesCross => limit = LimitOf(cfg)
=============================================================================
