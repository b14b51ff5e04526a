------------------------------- MODULE Filter -------------------------------
(***************************************************************************)
(* The filter expressions of the multicast registry (filter/ast.go): a     *)
(* tree of comparisons, string matches and connectives, evaluated on the   *)
(* metadata of an identity.  Comparisons are typed: values of different    *)
(* Go types are neither equal nor ordered, and no comparison holds of a    *)
(* field the metadata lack.                                                *)
(*                                                                         *)
(* A value is a record of its Go type and what it is: a number, or for a   *)
(* string a sequence of characters, which are numbers.                     *)
(***************************************************************************)
EXTENDS Integers, Sequences

CONSTANTS
  Fields,
  Values,  \* records [type, val]
  Strings  \* the prefixes, suffixes and substrings that filters look for

VARIABLE meta  \* the metadata a filter is evaluated on

Metadata == UNION {[F -> Values] : F \in SUBSET Fields}

-----------------------------------------------------------------------------
(* The comparisons of ast.go.  SmallerString is Go's < on strings.         *)
SmallerString(s, t) ==
  \/ \E i \in 1 .. Len(s) : /\ i <= Len(t) /\ s[i] < t[i]
                            /\ \A j \in 1 .. i - 1 : s[j] = t[j]
  \/ Len(s) < Len(t) /\ \A j \in 1 .. Len(s) : s[j] = t[j]

equals(a, b) == a.type = b.type /\ a.val = b.val

lessThan(a, b) ==
  /\ a.type = b.type
  /\ \/ a.type \in {"int", "int64", "float64"} /\ a.val < b.val
     \/ a.type = "string" /\ SmallerString(a.val, b.val)

greaterThan(a, b) ==
  /\ a.type = b.type
  /\ \/ a.type \in {"int", "int64", "float64"} /\ a.val > b.val
     \/ a.type = "string" /\ SmallerString(b.val, a.val)

(* Mutant: the search stops one position early.                            *)
containsEarly(s, t) ==
  \/ t = <<>>
  \/ \E i \in 0 .. Len(s) - Len(t) - 1 : SubSeq(s, i + 1, i + Len(t)) = t

contains(s, t) ==
  /\ Len(s) >= Len(t)
  /\ \/ t = <<>>
     \/ \E i \in 0 .. Len(s) - Len(t) : SubSeq(s, i + 1, i + Len(t)) = t

startsWith(s, t) == Len(s) >= Len(t) /\ SubSeq(s, 1, Len(t)) = t
endsWith(s, t)   == Len(s) >= Len(t) /\ SubSeq(s, Len(s) - Len(t) + 1, Len(s)) = t

(* A comparison node, on the field's value.                                *)
Compare(op, actual, v) ==
  CASE op = "==" -> equals(actual, v)
    [] op = "!=" -> ~equals(actual, v)
    [] op = "<"  -> lessThan(actual, v)
    [] op = "<=" -> lessThan(actual, v) \/ equals(actual, v)
    [] op = ">"  -> greaterThan(actual, v)
    [] op = ">=" -> greaterThan(actual, v) \/ equals(actual, v)

Match(op, actual, t) ==
  /\ actual.type = "string"
  /\ CASE op = "startswith" -> startsWith(actual.val, t)
       [] op = "endswith"   -> endsWith(actual.val, t)
       [] op = "contains"   -> contains(actual.val, t)

Comparisons == {"==", "!=", "<", "<=", ">", ">="}
Matches     == {"startswith", "endswith", "contains"}

RECURSIVE Evaluate(_, _)
Evaluate(node, metadata) ==
  CASE node.op \in Comparisons ->
         node.field \in DOMAIN metadata /\ Compare(node.op, metadata[node.field], node.arg)
    [] node.op \in Matches ->
         node.field \in DOMAIN metadata /\ Match(node.op, metadata[node.field], node.arg)
    [] node.op = "exists" -> node.field \in DOMAIN metadata
    [] node.op = "and" -> \A i \in DOMAIN node.arg : Evaluate(node.arg[i], metadata)
    [] node.op = "or"  -> \E i \in DOMAIN node.arg : Evaluate(node.arg[i], metadata)
    [] node.op = "not" -> ~Evaluate(node.arg, metadata)

-----------------------------------------------------------------------------
Leaf(op, f, a) == [op |-> op, field |-> f, arg |-> a]
Join(op, cs)   == [op |-> op, arg |-> cs]

Leaves ==
  {Leaf(op, f, v) : op \in Comparisons, f \in Fields, v \in Values}
  \cup {Leaf(op, f, t) : op \in Matches, f \in Fields, t \in Strings}

FilterInit == meta \in Metadata

Ordered(a, b) == a.type = b.type /\ a.type \in {"int", "int64", "float64", "string"}

(* What filters mean.  Of two values of one ordered type exactly one of    *)
(* <, == and > holds, and <=, >= and != are the negations of >, < and ==.  *)
(* Of values of different types only != holds.  Nothing but a negation     *)
(* holds of a field that is missing, so that NOT (f == v) and f != v part  *)
(* there.  A substring is found wherever it stands, a prefix and a suffix  *)
(* are substrings, and AND, OR and NOT obey De Morgan's laws, empty lists  *)
(* included.                                                               *)
LawsHold ==
  LET Holds(node) == Evaluate(node, meta)
      Is(op, f, v) == Holds(Leaf(op, f, v))
  IN
  /\ \A f \in DOMAIN meta, v \in Values :
       /\ Is("!=", f, v) # Is("==", f, v)
       /\ IF Ordered(meta[f], v)
            THEN /\ \E op \in {"<", "==", ">"} :
                      \A o \in {"<", "==", ">"} : Is(o, f, v) <=> o = op
                 /\ Is("<=", f, v) # Is(">", f, v)
                 /\ Is(">=", f, v) # Is("<", f, v)
            ELSE \A op \in {"<=", ">="} : Is(op, f, v) = Is("==", f, v)
       /\ meta[f].type # v.type => ~Is("==", f, v)
  /\ \A f \in DOMAIN meta, t \in Strings :
       LET s == meta[f] IN
       s.type = "string" =>
         /\ Is("contains", f, t) <=>
              \E i, j \in 1 .. Len(s.val) + 1 : SubSeq(s.val, i, j - 1) = t
         /\ Is("startswith", f, t) \/ Is("endswith", f, t) => Is("contains", f, t)
  /\ \A leaf \in Leaves : leaf.field \notin DOMAIN meta => ~Holds(leaf)
  /\ \A a, b \in {Leaf("==", f, v) : f \in Fields, v \in Values} :
       Holds(Join("not", Join("and", <<a, b>>)))
         <=> Holds(Join("or", <<Join("not", a), Join("not", b)>>))
  /\ Holds(Join("and", <<>>)) /\ ~Holds(Join("or", <<>>))
=============================================================================
