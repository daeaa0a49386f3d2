----------------------------- MODULE Conditions -----------------------------
(***************************************************************************)
(* What the oracle makes of a trace (src/app/agents/testing/oracle.py):    *)
(* conditions of four patterns (src/app/eval/condition_parser.py), paths   *)
(* that are resolved in a context (src/app/eval/resolver.py), and the      *)
(* verdict table.                                                          *)
(*                                                                         *)
(* A value is None, a number or a string; a context is a function from the *)
(* paths that exist in it to values.  A condition is a record that says    *)
(* which pattern its text matches: matching the text is left out.          *)
(***************************************************************************)
EXTENDS Integers, Sequences

None    == <<"none">>
Num(n)  == <<"number", n>>
Str(s)  == <<"string", s>>
Path(p) == <<"path", p>>

Null(path, op)           == [pattern |-> "null", path |-> path, op |-> op]
Member(path, op, items)  == [pattern |-> "member", path |-> path, op |-> op, items |-> items]
Equals(path, op, string) == [pattern |-> "equals", path |-> path, op |-> op, items |-> {string}]
\* rhs is a Path or a Num.
Compare(path, op, rhs)   == [pattern |-> "number", path |-> path, op |-> op, rhs |-> rhs]
Prose                    == [pattern |-> "prose"]

Resolve(path, context) == IF path \in DOMAIN context THEN context[path] ELSE None

\* "unknown" is the code's None.
Truth(b) == IF b THEN "true" ELSE "false"

\* str(val) of the conditions' strings; a number never equals one of them.
IsOneOf(value, items) == \E s \in items : value = Str(s)

\* Mutant: <= is read as <.
HoldsStrict(a, op, b) == CASE op \in {"<=", "<"} -> a < b [] op = ">" -> a > b
                           [] op = ">=" -> a >= b [] op = "==" -> a = b [] op = "!=" -> a # b
Holds(a, op, b) == CASE op = "<=" -> a <= b [] op = ">=" -> a >= b
                     [] op = "<" -> a < b   [] op = ">" -> a > b
                     [] op = "==" -> a = b  [] op = "!=" -> a # b

\* A missing value has a truth in the first three patterns, where it may be
\* equal to 'None', and none in a comparison.
Evaluate(c, context) ==
  LET value == Resolve(c.path, context)
  IN  CASE c.pattern = "null"   -> Truth((value = None) = (c.op = "=="))
        [] c.pattern = "member" -> Truth(IsOneOf(value, c.items) = (c.op = "in"))
        [] c.pattern = "equals" ->
             Truth(IsOneOf(IF value = None THEN Str("None") ELSE value, c.items)
                     = (c.op = "=="))
        [] c.pattern = "number" ->
             LET rhs == IF c.rhs[1] = "path" THEN Resolve(c.rhs[2], context) ELSE c.rhs
             IN  IF value[1] # "number" \/ rhs[1] # "number" THEN "unknown"
                 ELSE Truth(Holds(value[2], c.op, rhs[2]))
        [] c.pattern = "prose"  -> "unknown"

Accepted(code) == 200 <= code /\ code < 300

\* One unknown condition makes the verdict inconclusive; else the API should
\* have accepted the request just when the conditions hold.
Verdict(conditions, context, code) ==
  LET found == {Evaluate(c, context) : c \in conditions}
  IN  IF "unknown" \in found THEN "inconclusive"
      ELSE IF Accepted(code) = ("false" \notin found) THEN "pass" ELSE "fail"
=============================================================================
