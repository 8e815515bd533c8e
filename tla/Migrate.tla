------------------------------- MODULE Migrate -------------------------------
(* The migration runner (scaffold/migrate.go): pods run `migrate up',        *)
(* `down' and `force' against one database.  A command reads the recorded    *)
(* versions once and runs scripts statement by statement, which MySQL        *)
(* commits one by one; INSERTs and DELETEs of rows whose errors are thrown   *)
(* away may be lost, and a pod may die.  Statements are such that running    *)
(* one again fails, as CREATE and ALTER do.                                  *)
EXTENDS Integers, FiniteSets

CONSTANTS Pod,
          Versions, Script,   \* versions, and the statements of each script
          Commented,          \* statements behind a comment: <<kind, version, number>>
          NoUp, NoDown,       \* versions without an up or a down file
          MaxCommands,        \* bound: commands started
          MaxMigrateFaults    \* bound: statements failing, rows lost, pods killed
ASSUME MigrateAssumption ==
    /\ Versions \in Nat /\ Script \in Nat \ {0}
    /\ Commented \subseteq {"up", "down"} \X (1 .. Versions) \X (1 .. Script)
    /\ NoUp \cup NoDown \subseteq 1 .. Versions
    /\ MaxCommands \in Nat /\ MaxMigrateFaults \in Nat

VARIABLES inEffect,   \* statements of a version that the schema shows
          rows,       \* schema_migrations
          cmd,        \* what a pod is doing
          reverted,  \* history: versions a down ever began on
          lostRows,   \* history: a row's INSERT or DELETE failed
          together,   \* history: two commands ran at once
          commands, miFaults
miVars == <<inEffect, rows, cmd, reverted, lostRows, together, commands, miFaults>>

Version == 1 .. Versions
Whole == 1 .. Script
Command == [kind : {"none", "up", "down"}, v : 0 .. Versions + 1, next : 1 .. Script + 1,
            applied : SUBSET Version, left : -1 .. Versions]
NoCommand == [kind |-> "none", v |-> 0, next |-> 1, applied |-> {}, left |-> 0]
Does(p, c) == cmd' = [cmd EXCEPT ![p] = c]
MiFault == miFaults < MaxMigrateFaults /\ miFaults' = miFaults + 1

MiInit ==
    /\ inEffect = [v \in Version |-> {}] /\ rows = [v \in Version |-> "none"]
    /\ cmd = [p \in Pod |-> NoCommand] /\ reverted = {} /\ lostRows = FALSE
    /\ together = FALSE /\ commands = 0 /\ miFaults = 0
-----------------------------------------------------------------------------
\* loadAppliedVersions: dirty or not.
Applied == {v \in Version : rows[v] # "none"}
\* The next version of a loop that has its file, 0 when the loop is over; left -1
\* stands for no limit.
NextUp(c) ==
    LET due == {v \in Version \ (c.applied \cup NoUp) : v > c.v}
    IN  IF c.left = 0 \/ due = {} THEN 0 ELSE CHOOSE v \in due : \A u \in due : v <= u
NextDown(c) ==
    LET due == {v \in c.applied \ NoDown : v < c.v}
    IN  IF c.left = 0 \/ due = {} THEN 0 ELSE CHOOSE v \in due : \A u \in due : u <= v
\* The loop goes on with its next version or the command is over.
GoesOn(p, c) ==
    LET v == IF c.kind = "up" THEN NextUp(c) ELSE NextDown(c)
    IN  Does(p, IF v = 0 THEN NoCommand
                ELSE [c EXCEPT !.v = v, !.next = 1, !.left = IF @ > 0 THEN @ - 1 ELSE @])
StartMigrate(p, kind, n) ==
    /\ cmd[p].kind = "none" /\ commands < MaxCommands /\ commands' = commands + 1
    /\ GoesOn(p, [kind |-> kind, v |-> IF kind = "up" THEN 0 ELSE Versions + 1, next |-> 1,
                  applied |-> Applied, left |-> n])
    /\ reverted' = IF cmd'[p].kind = "down" THEN reverted \cup {cmd'[p].v} ELSE reverted
    /\ together' = (together \/ \E q \in Pod \ {p} : cmd[q].kind # "none")
    /\ UNCHANGED <<inEffect, rows, lostRows, miFaults>>
\* forceVersion deletes the rows past v.
ForceVersion(v) ==
    /\ commands < MaxCommands /\ commands' = commands + 1
    /\ rows' = [u \in Version |-> IF u > v THEN "none" ELSE rows[u]]
    /\ together' = (together \/ \E q \in Pod : cmd[q].kind # "none")
    /\ UNCHANGED <<inEffect, cmd, reverted, lostRows, miFaults>>
\* execSQLScript passes over a piece that begins with a comment, with the
\* statement behind it.
Skipped(c) == <<c.kind, c.v, c.next>> \in Commented
\* One statement, which changes the schema.
Statement(p) ==
    LET c == cmd[p]
    IN  /\ c.kind # "none" /\ c.next <= Script /\ Does(p, [c EXCEPT !.next = @ + 1])
        /\ \/ Skipped(c) /\ UNCHANGED inEffect
           \/ /\ ~Skipped(c) /\ c.kind = "up" /\ c.next \notin inEffect[c.v]
              /\ inEffect' = [inEffect EXCEPT ![c.v] = @ \cup {c.next}]
           \/ /\ ~Skipped(c) /\ c.kind = "down" /\ c.next \in inEffect[c.v]
              /\ inEffect' = [inEffect EXCEPT ![c.v] = @ \ {c.next}]
        /\ UNCHANGED <<rows, reverted, lostRows, together, commands, miFaults>>
\* Mutant: a version whose script failed is recorded like any other.
StatementFailsClean(p) ==
    LET c == cmd[p]
    IN  /\ c.kind = "up" /\ c.next <= Script /\ Does(p, NoCommand) /\ MiFault
        /\ rows' = IF rows[c.v] = "none" THEN [rows EXCEPT ![c.v] = "clean"] ELSE rows
        /\ UNCHANGED <<inEffect, reverted, lostRows, together, commands>>
\* It fails, because it was run before or otherwise: up records the version
\* dirty, where it has no row yet (without that row, as when the pod dies
\* first), and both exit.
StatementFails(p) ==
    LET c == cmd[p]
    IN  /\ c.kind # "none" /\ c.next <= Script /\ ~Skipped(c) /\ Does(p, NoCommand)
        /\ \/ (c.kind = "up") = (c.next \in inEffect[c.v]) /\ UNCHANGED miFaults
           \/ MiFault
        /\ rows' = IF c.kind = "up" /\ rows[c.v] = "none" THEN [rows EXCEPT ![c.v] = "dirty"]
                   ELSE rows
        /\ UNCHANGED <<inEffect, reverted, lostRows, together, commands>>
\* The script is through: its row is inserted, if there is none, or deleted.
Record(p) ==
    LET c == cmd[p]
    IN  /\ c.kind # "none" /\ c.next > Script /\ GoesOn(p, c)
        /\ \/ /\ rows' = [rows EXCEPT ![c.v] = IF c.kind = "down" THEN "none"
                                               ELSE IF @ = "none" THEN "clean" ELSE @]
              /\ UNCHANGED <<lostRows, miFaults>>
           \/ UNCHANGED rows /\ lostRows' = TRUE /\ MiFault
        /\ reverted' = reverted \cup (IF cmd'[p].kind = "down" THEN {cmd'[p].v} ELSE {})
        /\ UNCHANGED <<inEffect, together, commands>>
KillPod(p) ==
    /\ cmd[p].kind # "none" /\ Does(p, NoCommand) /\ MiFault
    /\ UNCHANGED <<inEffect, rows, reverted, lostRows, together, commands>>

MiNext ==
    \/ \E v \in 0 .. Versions : ForceVersion(v)
    \/ \E p \in Pod : \/ \E n \in {-1, 1} : StartMigrate(p, "up", n)
                      \/ StartMigrate(p, "down", 1) \/ StartMigrate(p, "down", 2)
                      \/ Statement(p) \/ StatementFails(p) \/ Record(p) \/ KillPod(p)
MiSpec == MiInit /\ [][MiNext]_miVars
-----------------------------------------------------------------------------
MiTypeOK ==
    /\ inEffect \in [Version -> SUBSET Whole] /\ rows \in [Version -> {"none", "clean", "dirty"}]
    /\ cmd \in [Pod -> Command] /\ reverted \subseteq Version
    /\ lostRows \in BOOLEAN /\ together \in BOOLEAN
    /\ commands \in 0 .. MaxCommands /\ miFaults \in 0 .. MaxMigrateFaults

\* A version that is recorded as applied and not dirty has in effect all of its
\* script that was run, which is all but the statements behind a comment, unless
\* a down ever began on it: also with several pods at once, crashes, lost rows
\* and versions forced.
RunOf(v) == {i \in Whole : <<"up", v, i>> \notin Commented}
CleanIsWhole == \A v \in Version : rows[v] = "clean" => inEffect[v] = RunOf(v) \/ v \in reverted

\* One command at a time, none of whose rows is lost, leaves no gaps but those of
\* missing files: with a version every earlier one is recorded, so that `down'
\* takes back the latest, save that `up' passes over a version without an up
\* file, and `down' over one without a down file to an earlier one.
NoGap ==
    ~together /\ ~lostRows =>
        \A v \in Version \ NoDown : rows[v] # "none" =>
            \A u \in 1 .. v : rows[u] # "none" \/ u \in NoUp

\* What the table of migrations tells of the schema, both ways.
TableTellsSchema == MiTypeOK /\ CleanIsWhole /\ NoGap
=============================================================================
