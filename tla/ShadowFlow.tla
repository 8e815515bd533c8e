----------------------------- MODULE ShadowFlow -----------------------------
(* Shadow traffic through the services: the interceptors and names of        *)
(* shadow/shadow.go, the trace ids of trace/trace.go, the background         *)
(* contexts of trace/background.go, and the loop by which calls are captured *)
(* (replay/capture.go, event.go), sanitised and replayed as shadow traffic   *)
(* (replayer.go).  Contexts do not act on one another, so one is followed at *)
(* a time: from a request into a call or a background task, or to its end.   *)
(* History in a context: the side its request was meant for, the trace it    *)
(* was born with, and whether a background task lies between.                *)
EXTENDS Naturals, FiniteSets

CONSTANTS MaxTraces,     \* bound: trace ids in use
          MaxEvents,     \* bound: events in the topics
          MaxDepth       \* bound: calls in a chain, replays included
ASSUME ShadowAssumption == MaxTraces \in Nat /\ MaxEvents \in Nat /\ MaxDepth \in Nat

VARIABLES at,         \* the context followed
          wrote,      \* last write: <<side written to, side meant, background>>
          raw,        \* captured events
          clean,      \* sanitised events
          traces      \* trace ids given; 0 is none
sfVars == <<at, wrote, raw, clean, traces>>

Side == {"main", "shadow"}
Trace == 0 .. MaxTraces
Context == [shadow : BOOLEAN, trace : Trace, meant : Side, born : Trace,
            background : BOOLEAN, depth : 0 .. MaxDepth]
NoContext == [depth |-> MaxDepth + 1]
Event == [header : Trace, meant : Side, background : BOOLEAN, depth : 0 .. MaxDepth]
SfInit == at = NoContext /\ wrote = <<>> /\ raw = {} /\ clean = {} /\ traces = 0

\* TableName, RedisKey, KafkaTopic.
Name(c) == IF c.shadow THEN "shadow" ELSE "main"
\* IsCapturable, for a method that is not blacklisted and is sampled.
Captures(c) == ~c.shadow
\* Generate, when there is none yet.
Given(t) == IF t = 0 THEN traces + 1 ELSE t
Gives(t) == Given(t) <= MaxTraces /\ traces' = IF t = 0 THEN traces + 1 ELSE traces

\* A call reaches a server: the trace and shadow interceptors read its metadata,
\* then the capture interceptor may record it, with the incoming header.
Receive(md, meant, born, background, depth) ==
    LET c == [shadow |-> md.shadow, trace |-> Given(md.trace), meant |-> meant,
              born |-> IF born = 0 THEN Given(md.trace) ELSE born,
              background |-> background, depth |-> depth]
        ev == [header |-> md.trace, meant |-> meant, background |-> background,
               depth |-> depth]
    IN  /\ Gives(md.trace) /\ at' = c
        /\ \/ raw' = raw
           \/ /\ Captures(c) /\ Cardinality(raw \cup clean) < MaxEvents
              /\ raw' = raw \cup {ev}
-----------------------------------------------------------------------------
\* The gateway: HTTPHeaderToContext on a request that has no trace id yet.
Ingress ==
    \E side \in Side :
        /\ at = NoContext /\ Receive([shadow |-> side = "shadow", trace |-> 0], side, 0, FALSE, 0)
        /\ UNCHANGED <<wrote, clean>>
\* A handler writes a table, a key or a topic.
WriteTo ==
    /\ at # NoContext /\ wrote' = <<Name(at), at.meant, at.background>>
    /\ UNCHANGED <<at, raw, clean, traces>>
\* Mutant: the client interceptor is missing.
OutboundBare(c) == [shadow |-> FALSE, trace |-> c.trace]
\* The client interceptors of both packages.
Outbound(c) == [shadow |-> c.shadow, trace |-> c.trace]
CallOut ==
    /\ at.depth < MaxDepth
    /\ Receive(Outbound(at), at.meant, at.born, at.background, at.depth + 1)
    /\ UNCHANGED <<wrote, clean>>
\* NewBackground: main traffic, whatever the caller's was, and the caller's trace
\* where it has one (lines 62-66; the head of the file says a new one).
Background(c) == [c EXCEPT !.shadow = FALSE, !.trace = Given(c.trace), !.background = TRUE]
\* NewBackgroundShadow, which a handler uses for shadow work.
BackgroundShadow(c) == [Background(c) EXCEPT !.shadow = TRUE]
Spawn ==
    /\ at # NoContext
    /\ \/ at' = Background(at)
       \/ at.shadow /\ at' = BackgroundShadow(at)
    /\ traces' = IF at'.trace > traces THEN at'.trace ELSE traces
    /\ traces' <= MaxTraces
    /\ UNCHANGED <<wrote, raw, clean>>
\* The handler is done; a call returns to its caller, whose context is as it was.
End == at # NoContext /\ at' = NoContext /\ UNCHANGED <<wrote, raw, clean, traces>>
\* The sanitiser's worker; an event that does not parse is dropped.
Sanitizes(ev) ==
    /\ raw' = raw \ {ev} /\ clean' \in {clean, clean \cup {ev}}
    /\ UNCHANGED <<at, wrote, traces>>
\* makeReplayContext: shadow on, the recorded headers sent along.
ReplayContext(ev) == [shadow |-> TRUE, trace |-> ev.header]
\* A worker calls with it; without a header the server starts a trace.  The
\* events of a topic can be replayed again.
ReplayEvent(ev) ==
    /\ at = NoContext /\ ev.depth < MaxDepth
    /\ Receive(ReplayContext(ev), "shadow", ev.header, ev.background, ev.depth + 1)
    /\ UNCHANGED <<wrote, clean>>

SfNext ==
    \/ Ingress \/ WriteTo \/ CallOut \/ Spawn \/ End
    \/ \E ev \in raw : Sanitizes(ev)
    \/ \E ev \in clean : ReplayEvent(ev)
SfSpec == SfInit /\ [][SfNext]_sfVars
-----------------------------------------------------------------------------
SfTypeOK ==
    /\ at \in Context \cup {NoContext} /\ raw \subseteq Event /\ clean \subseteq Event
    /\ wrote \in (Side \X Side \X BOOLEAN) \cup {<<>>} /\ traces \in Trace

\* However many calls, captures and replays lie between: what a request meant
\* as shadow traffic writes goes to the shadow side and nothing else does.
\* NewBackground alone leads back to the main tables, by design.
SidesApart == wrote # <<>> => wrote[1] = wrote[2] \/ (wrote[3] /\ wrote[1] = "main")

\* Replayed calls are not captured again, so that a replay does not feed itself;
\* only what NewBackground starts on their behalf can be (capture's rule 1).
NoAmplification == \A ev \in raw \cup clean : ev.meant = "main" \/ ev.background

\* A request, its calls, its background tasks and the replays of what was
\* captured with a trace header stay in one trace.  background.go promises both
\* this (line 46) and a new trace for every task (line 4); the code does this.
OneTrace == at # NoContext => at.trace # 0 /\ at.trace = at.born

\* The three together, of every chain of calls, background tasks and replays.
ShadowStaysApart == SfTypeOK /\ SidesApart /\ NoAmplification /\ OneTrace
=============================================================================
