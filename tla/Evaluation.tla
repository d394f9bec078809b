----------------------------- MODULE Evaluation -----------------------------
(***************************************************************************)
(* The evaluator of an HTTP response: the variables of the configuration   *)
(* are extracted in their order, then the expression is evaluated, whose   *)
(* x_ functions extract by themselves.  A query finds a value of the type  *)
(* asked for, one of another type, or nothing; or it is invalid, as is the *)
(* document.                                                               *)
(***************************************************************************)
EXTENDS Naturals, Sequences

DocTypes == {"html", "xml", "json", "text"}
VarTypes == {"string", "int", "float", "bool", "time", "duration", "length"}
Findings == {"value", "other", "nothing", "invalid"}
Outcomes == {"value", "error", "panic"}

\* ExtractStr: HTML indexes the first of no nodes, the other XPath extractors
\* take nothing for the empty string, and the regular expression of a text
\* must compile.
ExtractStr(doc, found) ==
  CASE found = "invalid" -> IF doc = "text" THEN "panic" ELSE "error"
    [] found = "nothing" -> CASE doc = "html" -> "panic"
                              [] doc = "text" -> "error"
                              [] OTHER        -> "value"
    [] OTHER             -> "value"

\* Extract: the string is converted, or counted as a document of its own.
Convert(doc, type, found) ==
  IF type = "string" \/ found = "value" THEN "value"
  ELSE CASE type = "length" /\ doc = "xml"  -> "panic"
         [] type = "length" /\ doc = "html" -> "value"
         [] OTHER                           -> "error"

ExtractValue(doc, type, found) ==
  LET s == ExtractStr(doc, found) IN
  IF s = "value" THEN Convert(doc, type, found) ELSE s

\* Mutant: a length, too, is asserted to its type before the error is seen.
FunctionAsserts(doc, type, found) ==
  LET r == ExtractValue(doc, type, found) IN
  IF type \in {"duration", "length"} /\ r = "error" THEN "panic" ELSE r

\* The x_ functions return the error, but for x_duration, which first asserts
\* that the value for an error, an int, is a duration.
Function(doc, type, found) ==
  LET r == ExtractValue(doc, type, found) IN
  IF type = "duration" /\ r = "error" THEN "panic" ELSE r

\* The outcome of steps made in order up to the first that is not a value.
InOrder(outcomes) ==
  LET bad == { i \in DOMAIN outcomes : outcomes[i] # "value" } IN
  IF bad = {} THEN "value"
  ELSE outcomes[CHOOSE i \in bad : \A j \in bad : i <= j]

Extract(doc, types, found) ==
  InOrder([i \in DOMAIN types |-> ExtractValue(doc, types[i], found[i])])

\* The functions the evaluation reaches: && and || may leave the rest out.
Call(doc, types, found, reached) ==
  InOrder([i \in 1 .. reached |-> Function(doc, types[i], found[i])])

Evaluate(doc, variables, functions, foundV, foundF, reached) ==
  LET e == Extract(doc, variables, foundV) IN
  IF e = "value" THEN Call(doc, functions, foundF, reached) ELSE e
=============================================================================
