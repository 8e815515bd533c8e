--------------------------- MODULE MCConfigCenter ---------------------------
(* Instances of ConfigCenter for TLC.                                        *)
EXTENDS ConfigCenter
ShapeOf(kind, from, until) == [kind |-> kind, from |-> from, until |-> until]
\* Immediate, scheduled for 1 or for later, expiring at 1, deletion; time ends at
\* MaxTime.
MCShape == {ShapeOf("update", 0, 9), ShapeOf("update", 1, 9), ShapeOf("update", 2, 9),
            ShapeOf("update", 0, 1), ShapeOf("delete", 0, 9)}
=============================================================================
