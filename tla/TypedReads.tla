------------------------------ MODULE TypedReads ------------------------------
(***************************************************************************)
(* The typed readers of the config client (configcenter/typed.go).  A      *)
(* value is a text; what the readers tell apart of it is its shape and the *)
(* words in it:                                                            *)
(*   bare    one, 2, three          quoted  "one, 2, three"                *)
(*   ints    [one, 2, three]        strings ["one", "2", "three"]          *)
(*   broken  [one, 2, three         object  {"k": "one"}                   *)
(* An answer is the list of words read, the caller's default, the zero of  *)
(* the type, or the fragments of a text cut at its commas.                 *)
(***************************************************************************)
EXTENDS Naturals, SequencesExt

CONSTANT MaxWords     \* bound: words in a text

ASSUME TypedAssumption == MaxWords \in Nat \ {0}

VARIABLES text

tyVars == <<text>>

Literal == {"1", "2.5", "true", "on", "30s", "stripe", "null"}
Shapes == {"bare", "quoted", "ints", "strings", "broken", "object"}
Text == [shape : Shapes, words : BoundedSeq(Literal, MaxWords)]

Default == [kind |-> "default", words |-> <<>>]
Zero == [kind |-> "zero", words |-> <<>>]
Value(words) == [kind |-> "value", words |-> words]
Fragments == [kind |-> "fragments", words |-> <<>>]

\* A text that is one word of the set, bare or (Quoted) as a JSON string.
Bare(t, words) == t.shape = "bare" /\ Len(t.words) = 1 /\ t.words[1] \in words
Quoted(t, words) == t.shape = "quoted" /\ Len(t.words) = 1 /\ t.words[1] \in words
\* json.Unmarshal takes null into any type and leaves the zero value there.
Scalar(t, reads) ==
  IF reads THEN Value(t.words) ELSE IF Bare(t, {"null"}) THEN Zero ELSE Default

-----------------------------------------------------------------------------
\* Mutant: the quoted literal is not tried.
GetIntBare(t) == Scalar(t, Bare(t, {"1"}))

GetInt(t) == Scalar(t, Bare(t, {"1"}) \/ Quoted(t, {"1"}))
GetInt64(t) == Scalar(t, Bare(t, {"1"}))
GetFloat64(t) == Scalar(t, Bare(t, {"1", "2.5"}))
GetBool(t) == Scalar(t, Bare(t, {"1", "true", "on"}))
\* No JSON but for the quotes.
GetDuration(t) ==
  IF Bare(t, {"30s"}) \/ Quoted(t, {"30s"}) THEN Value(t.words) ELSE Default

\* A JSON array of strings; else cut at the commas, else taken whole.
GetStringList(t) ==
  CASE t.shape = "bare" -> IF t.words = <<>> THEN Default ELSE Value(t.words)
    [] t.shape = "strings" -> Value(t.words)
    [] t.shape = "ints" /\ t.words = <<>> -> Value(<<>>)
    [] t.shape = "ints" /\ Range(t.words) = {"null"} -> Zero
    [] OTHER -> Fragments

GetIntList(t) ==
  CASE t.shape = "bare" /\ t.words # <<>> /\ Range(t.words) = {"1"} -> Value(t.words)
    [] t.shape \in {"ints", "strings"} /\ t.words = <<>> -> Value(<<>>)
    [] t.shape = "ints" /\ Range(t.words) \subseteq {"1", "null"} ->
         IF "null" \in Range(t.words) THEN Zero ELSE Value(t.words)
    [] OTHER -> Default

\* A JSON object of strings; null makes it the nil map.
GetMap(t) ==
  CASE t.shape = "object" -> Value(t.words)
    [] Bare(t, {"null"}) -> Zero
    [] OTHER -> Default

-----------------------------------------------------------------------------
TyInit == text \in Text
TyNext == UNCHANGED tyVars
TySpec == TyInit /\ [][TyNext]_tyVars

As(shape, t) == [t EXCEPT !.shape = shape]
Answers(t) == {GetInt(t), GetInt64(t), GetFloat64(t), GetBool(t), GetDuration(t)}

\* The administrator need not think of the format (typed.go:12): a word reads
\* the same quoted or bare, through GetInt and GetDuration; GetInt64, GetFloat64
\* and GetBool fall back to the default for a quoted word; the readers of
\* numbers agree; a list reads the same as an array and as comma separated
\* words.  And no reader makes a value up: the zero comes from a null only, and
\* pieces of a text are returned as strings only by GetStringList, of a text
\* that is no array of strings and has brackets, braces or quotes.
ReadsAlike ==
  /\ text.shape = "bare" /\ Len(text.words) = 1 /\ text.words # <<"null">> =>
       LET quoted == As("quoted", text) IN
       /\ GetInt(quoted) = GetInt(text)
       /\ GetDuration(quoted) = GetDuration(text)
       /\ {GetInt64(quoted), GetFloat64(quoted), GetBool(quoted)} = {Default}
  /\ GetInt64(text) # Default => GetInt(text) = GetInt64(text)
  /\ GetInt64(text) # Default => GetFloat64(text) = GetInt64(text)
  /\ text.shape = "bare" /\ text.words # <<>> =>
       /\ GetStringList(As("strings", text)) = GetStringList(text)
       /\ "null" \notin Range(text.words) =>
            GetIntList(As("ints", text)) = GetIntList(text)
  /\ Zero \in Answers(text) \cup {GetStringList(text), GetIntList(text), GetMap(text)} =>
       "null" \in Range(text.words)
  /\ Fragments \notin Answers(text) \cup {GetIntList(text), GetMap(text)}
  /\ GetStringList(text) = Fragments => text.shape \notin {"bare", "strings"}
=============================================================================
