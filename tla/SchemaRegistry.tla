--------------------------- MODULE SchemaRegistry ---------------------------
(***************************************************************************)
(* One subject of the in-memory schema registry (schema/registry.go): a    *)
(* list of versions that only grows, each checked against the one before   *)
(* under the policy the caller names, and the producer's Validate.         *)
(* A schema is what the two checks look at: the type each field is         *)
(* declared with and the set of required fields.  A body may be valid JSON *)
(* that is no object: Register accepts it, every comparison refuses it.    *)
(* Subjects share nothing but the counter of ids.                          *)
(***************************************************************************)
EXTENDS Naturals, Sequences

CONSTANTS Field,        \* the fields a schema or a message may speak of
          MaxVersions   \* bound: versions registered

ASSUME SchemaAssumption == MaxVersions \in Nat \ {0}

VARIABLES versions,     \* MemoryRegistry.subs[subject]
          refused       \* the last registration refused, if none succeeded since

scVars == <<versions, refused>>

Policy == {"NONE", "BACKWARD", "FORWARD", "FULL"}
\* A field that is not declared, declared without a type, or declared with one.
Declared == {"absent", "untyped", "string", "number", "integer"}
Body == {[object |-> FALSE, type |-> [f \in Field |-> "absent"], required |-> {}]}
          \cup [object : {TRUE}, type : [Field -> Declared], required : SUBSET Field]
Registration == [body : Body, compat : Policy]
\* A message, by the kind of value each field has.
Message == [Field -> {"missing", "string", "number", "boolean"}]

-----------------------------------------------------------------------------
(* checkBackward, read as "reader can take what writer describes".          *)

Untyped == {"absent", "untyped"}
NewlyRequired(writer, reader) ==
  {f \in reader.required : f \notin writer.required /\ writer.type[f] = "absent"}
Retyped(writer, reader) ==
  {f \in Field : /\ writer.type[f] \notin Untyped
                 /\ reader.type[f] \notin Untyped
                 /\ writer.type[f] # reader.type[f]}

\* Mutant: a field the reader adds as required passes.
CheckBackwardAdds(writer, reader) == Retyped(writer, reader) = {}

CheckBackward(writer, reader) ==
  NewlyRequired(writer, reader) = {} /\ Retyped(writer, reader) = {}

CheckCompat(old, new, compat) ==
  \/ compat = "NONE"
  \/ /\ old.object /\ new.object
     /\ compat \in {"BACKWARD", "FULL"} => CheckBackward(old, new)
     /\ compat \in {"FORWARD", "FULL"} => CheckBackward(new, old)

TypeMatches(kind, type) ==
  \/ type \in Untyped
  \/ kind = "string" /\ type = "string"
  \/ kind = "number" /\ type \in {"number", "integer"}

\* Validate, of a message that is an object.
ValidateMessage(body, msg) ==
  /\ body.object
  /\ \A f \in body.required : msg[f] # "missing"
  /\ \A f \in Field : msg[f] # "missing" => TypeMatches(msg[f], body.type[f])

-----------------------------------------------------------------------------
ScInit == versions = <<>> /\ refused = <<>>

Accepts(reg) ==
  versions # <<>> => CheckCompat(versions[Len(versions)].body, reg.body, reg.compat)

RegisterSchema(reg) ==
  /\ Len(versions) < MaxVersions
  /\ Accepts(reg)
  /\ versions' = Append(versions, reg)
  /\ refused' = <<>>

RegisterRefused(reg) ==
  /\ Len(versions) < MaxVersions
  /\ ~Accepts(reg)
  /\ refused' = <<reg>>
  /\ UNCHANGED versions

ScNext == \E reg \in Registration : RegisterSchema(reg) \/ RegisterRefused(reg)
ScSpec == ScInit /\ [][ScNext]_scVars

-----------------------------------------------------------------------------
ScTypeOK ==
  /\ versions \in Seq(Registration)
  /\ refused \in Seq(Registration)

\* The two ways a reader may refuse what the writer's schema admits although
\* the check passed: it requires a field the writer had declared optional, or
\* it gives a type to a field the writer had left without one.
Overlooked(writer, reader, msg) ==
  \E f \in Field :
    \/ /\ msg[f] = "missing" /\ f \in reader.required
       /\ f \notin writer.required /\ writer.type[f] # "absent"
    \/ writer.type[f] \in Untyped /\ reader.type[f] \notin Untyped /\ msg[f] # "missing"

ReadsAll(reader, writer) ==
  \A msg \in Message :
    ValidateMessage(writer, msg) => ValidateMessage(reader, msg) \/ Overlooked(writer, reader, msg)

\* Some message the writer may produce that the reader refuses.
Breaks(reader, writer) ==
  \E msg \in Message : ValidateMessage(writer, msg) /\ ~ValidateMessage(reader, msg)

\* What a registered pair of neighbours promises: under BACKWARD or FULL the
\* new version validates every message the old one validated, under FORWARD or
\* FULL the old one every message of the new one, up to the two overlooked
\* cases; and a registration is refused only if some message would break, if
\* two names of the same number type meet, or if one body is no schema
\* (checkCompat and checkBackward against Validate).
CompatHolds ==
  /\ \A i \in 1 .. Len(versions) - 1 :
       LET old == versions[i].body
           new == versions[i + 1].body
           compat == versions[i + 1].compat
       IN /\ compat \in {"BACKWARD", "FULL"} => ReadsAll(new, old)
          /\ compat \in {"FORWARD", "FULL"} => ReadsAll(old, new)
  /\ \A i \in DOMAIN refused :
       LET old == versions[Len(versions)].body
           new == refused[i].body
           compat == refused[i].compat
       IN \/ ~old.object \/ ~new.object
          \/ compat \in {"BACKWARD", "FULL"} /\ Breaks(new, old)
          \/ compat \in {"FORWARD", "FULL"} /\ Breaks(old, new)
          \/ \E f \in Field : {old.type[f], new.type[f]} = {"number", "integer"}
=============================================================================
