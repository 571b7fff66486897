--------------------------- MODULE MCBenchmarkArgs ---------------------------
(***************************************************************************)
(* Instances of BenchmarkArgs for TLC: three parameters, of which the last *)
(* is always used in the tag, and rules that match plain values and named  *)
(* ones, set one parameter or two, or are about one that does not exist.   *)
(* Some names, and a negative number, have a hyphen in them.               *)
(***************************************************************************)
EXTENDS BenchmarkArgs

CONSTANTS NoValue

Plain(v) == [given |-> <<>>, value |-> v]
Name(n, v) == [given |-> n, value |-> v]
If(p, v) == [param |-> p, given |-> <<>>, value |-> v]
IfNamed(p, n) == [param |-> p, given |-> n, value |-> NoValue]

MCParams == <<"weights", "hot", "keys">>
MCValues ==
  [weights |-> {<<Name(<<"low">>, <<"1">>)>>,
                <<Name(<<"low">>, <<"1">>), Name(<<"low", "-", "hot", "0">>, <<"9">>)>>},
   hot |-> {<<Plain(<<"0">>)>>, <<Plain(<<"0">>), Plain(<<"100">>)>>,
            <<Plain(<<"0">>), Plain(<<"-", "1">>), Name(<<"hot", "0", "-", "hot", "0">>, <<"100">>)>>},
   keys |-> {<<Plain(<<"4">>)>>, <<Plain(NoValue)>>}]
MCRules ==
  {[match |-> <<>>, set |-> [keys |-> Plain(<<"8">>)]],
   [match |-> <<<<If("hot", <<"100">>)>>>>, set |-> [hot |-> Plain(<<"0">>)]],
   [match |-> <<<<IfNamed("weights", <<"low">>), If("hot", <<"0">>)>>, <<If("keys", NoValue)>>>>,
    set |-> [keys |-> Name(<<"some">>, <<"3">>), hot |-> Plain(<<"-", "1">>)]],
   [match |-> <<<<If("hot", <<"0">>)>>>>, set |-> [weights |-> Name(<<"low">>, <<"2">>)]],
   [match |-> <<<<If("hot", <<"-", "1">>), If("cold", <<"1">>)>>>>, set |-> [hot |-> Plain(<<"0">>)]],
   [match |-> <<<<IfNamed("weights", <<"low", "-", "hot", "0">>)>>>>,
    set |-> [cold |-> Plain(<<"0">>)]]}
=============================================================================
