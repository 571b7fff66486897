---------------------------- MODULE BenchmarkArgs ----------------------------
(***************************************************************************)
(* benchmark_args of tools/experiment.py: the cases an experiment file     *)
(* stands for, one after the other, with the record by which the progress  *)
(* file knows a case and the tag under which its results are stored.       *)
(*                                                                         *)
(* The experiment file is edited between runs.  The cases are generated    *)
(* while the experiment runs (see Experiment for what is done with each).  *)
(***************************************************************************)
EXTENDS Naturals, Sequences, FiniteSets, SequencesExt

CONSTANTS
  Params,        \* param_keys, in order
  Null,          \* the value null
  Values,        \* values that may be listed for each parameter
  Always,        \* the parameters that are always used in the tag
  Rules,         \* the rules that may be listed under "replace"
  MaxEdits,      \* bound: edits of the experiment file
  MaxRules       \* bound: rules in the file

Param == {Params[i] : i \in DOMAIN Params}

ASSUME ParamsAssumption ==
  IsFiniteSet(Param) /\ Cardinality(Param) = Len(Params) /\ Always \subseteq Param
ASSUME BoundsAssumption == MaxEdits \in Nat /\ MaxRules \in Nat

(***************************************************************************)
(* Texts are sequences of words, in which the hyphen is a word of its own. *)
(* A value as it stands in the file is [given, value], where given is its  *)
(* name, or empty for a plain value, which is a text or null.              *)
(***************************************************************************)
VARIABLES
  values, rules, \* the experiment file
  edits,
  pc,            \* "idle", "run", or "raised" after an error in the file
  next,          \* the place of the next combination
  yielded        \* the cases of this run, with their tags

vars == <<values, rules, edits, pc, next, yielded>>

----------------------------------------------------------------------------
\* to_named_value: the name of a plain value is the suffix of the parameter's
\* own name, followed by the value.
str(value) == IF value = Null THEN <<"None">> ELSE value
to_named_value(p, v) ==
  [name |-> IF v.given = <<>> THEN <<p>> \o str(v.value) ELSE v.given, value |-> v.value]

Named(p) == [i \in DOMAIN values[p] |-> to_named_value(p, values[p][i])]

\* A slip: only a parameter with three values or more is used in the tag.
InTagFromThree(p) == Len(values[p]) > 2 \/ p \in Always
\* tag_params
InTag(p) == Len(values[p]) > 1 \/ p \in Always

\* The combinations, one parameter after the other: each of those so far with
\* each value of the parameter.
Extended(xs, p) ==
  FlattenSeq([i \in DOMAIN xs |->
                [j \in DOMAIN values[p] |-> xs[i] @@ (p :> Named(p)[j])]])
combinations == FoldLeft(Extended, <<[p \in {} |-> Null]>>, Params)

\* A condition is a sequence of [param, given, value]; it ends at the first
\* that does not hold.
Holds(c, cond) ==
  IF cond.given # <<>> THEN c[cond.param].name = cond.given
  ELSE c[cond.param].value = cond.value
HoldUpTo(c, clause, n) == \A k \in 1..n : Holds(c, clause[k])

\* An unknown parameter in a condition that is looked at, or in what is set.
Unknown(c, rule) ==
  \E m \in DOMAIN rule.match : \E k \in DOMAIN rule.match[m] :
    /\ rule.match[m][k].param \notin Param
    /\ \A j \in 1..(k - 1) : rule.match[m][j].param \in Param
    /\ HoldUpTo(c, rule.match[m], k - 1)

\* ORs of ANDs; no condition at all matches.
Matches(c, rule) ==
  \/ rule.match = <<>>
  \/ \E m \in DOMAIN rule.match : HoldUpTo(c, rule.match[m], Len(rule.match[m]))

Bad == [bad |-> TRUE]

\* One rule of replace_values; Bad where it raises.
Replace(c, rule) ==
  IF c = Bad THEN Bad
  ELSE IF Unknown(c, rule) THEN Bad
  ELSE IF ~Matches(c, rule) THEN c
  ELSE IF ~(DOMAIN rule.set \subseteq Param) THEN Bad
  ELSE [p \in Param |-> IF p \in DOMAIN rule.set THEN to_named_value(p, rule.set[p])
                        ELSE c[p]]

\* A slip: the rules are applied from the last to the first.
ReplacedBackwards(c) == FoldRight(LAMBDA rule, x : Replace(x, rule), rules, c)
Replaced(c) == FoldLeft(Replace, c, rules)

\* The metadata of a case, as far as it depends on the parameters.
Record(c) == [p \in Param |-> c[p].value]

\* The tag: the names of tag_params in order, joined by hyphens.  Prefix, name
\* of the experiment and timestamp are the same for all cases of a run.
Hyphen == "-"
Tag(c) ==
  LET parts == SelectSeq(Params, InTag) IN
  FlattenSeq([k \in DOMAIN parts |->
                (IF k = 1 THEN <<>> ELSE <<Hyphen>>) \o c[parts[k]].name])

----------------------------------------------------------------------------
Init ==
  /\ values \in {f \in [Param -> UNION {Values[p] : p \in Param}] :
                  \A p \in Param : f[p] \in Values[p] /\ Len(f[p]) = 1}
  /\ rules = <<>> /\ edits = 0
  /\ pc = "idle" /\ next = 1 /\ yielded = {}

Edit ==
  /\ pc # "run" /\ edits < MaxEdits /\ edits' = edits + 1
  /\ \/ /\ \E p \in Param : \E v \in Values[p] : values' = [values EXCEPT ![p] = v]
        /\ UNCHANGED rules
     \/ /\ Len(rules) < MaxRules
        /\ \E rule \in Rules : rules' = Append(rules, rule)
        /\ UNCHANGED values
  /\ UNCHANGED <<pc, next, yielded>>

Start ==
  /\ pc # "run" /\ pc' = "run" /\ next' = 1 /\ yielded' = {}
  /\ UNCHANGED <<values, rules, edits>>

Valid(c) == c # Bad /\ \A p \in Param : c[p].value # Null

\* A case is generated when it is its turn to run.
Case ==
  /\ pc = "run" /\ next <= Len(combinations)
  /\ LET c == Replaced(combinations[next]) IN
       /\ Valid(c)
       /\ yielded' = yielded \cup {[tag |-> Tag(c), args |-> c, record |-> Record(c)]}
  /\ next' = next + 1 /\ UNCHANGED <<values, rules, edits, pc>>

\* An unknown parameter, or a value that is still null, raises in the middle
\* of the run: the cases before it have been run.
Invalid ==
  /\ pc = "run" /\ next <= Len(combinations)
  /\ ~Valid(Replaced(combinations[next]))
  /\ pc' = "raised" /\ UNCHANGED <<values, rules, edits, next, yielded>>

End ==
  /\ pc = "run" /\ next > Len(combinations) /\ pc' = "idle"
  /\ UNCHANGED <<values, rules, edits, next, yielded>>

Next == Edit \/ Start \/ Case \/ Invalid \/ End

Spec == Init /\ [][Next]_vars

----------------------------------------------------------------------------
\* The rules are applied in the order of the file, and a rule applies when one
\* of its conditions is met: a last rule without conditions has the last word
\* on what it sets, and the first rule sees the combination as it was.
RulesInOrder ==
  \A n \in DOMAIN combinations :
    LET x == combinations[n]
        c == Replaced(x)
        sets(k, p) == p \in DOMAIN rules[k].set
        meets(clause) == \A k \in DOMAIN clause : Holds(x, clause[k])
    IN c # Bad /\ rules # <<>> => \A p \in Param :
         /\ rules[Len(rules)].match = <<>> /\ sets(Len(rules), p) =>
              c[p] = to_named_value(p, rules[Len(rules)].set[p])
         /\ (\A k \in 2..Len(rules) : ~sets(k, p)) =>
              c[p] = IF /\ sets(1, p)
                           /\ \/ rules[1].match = <<>>
                              \/ \E m \in DOMAIN rules[1].match : meets(rules[1].match[m])
                       THEN to_named_value(p, rules[1].set[p])
                       ELSE x[p]

\* Results with one tag are results of one case, but for three reasons, each to
\* be seen in the two cases: a rule has set a parameter that is not used in the
\* tag, two values of a parameter have one name, or a hyphen in a name makes the
\* tag read in two ways.
TagTells ==
  \A x, y \in (IF pc = "run" THEN yielded ELSE {}) :
    x.tag = y.tag /\ x.record # y.record =>
      \/ \E p \in Param : /\ ~InTag(p) /\ x.record[p] # y.record[p]
                          /\ \E k \in DOMAIN rules : p \in DOMAIN rules[k].set
      \/ \E p \in Param : /\ InTag(p) /\ x.record[p] # y.record[p]
                          /\ x.args[p].name = y.args[p].name
      \/ \E p \in Param : InTag(p) /\ Contains(x.args[p].name \o y.args[p].name, Hyphen)
=============================================================================
