------------------------------ MODULE MCStart ------------------------------
EXTENDS Start

MCLetters  == {"a"}
MCCmdLines == UNION {[1..n -> {"space", "tab", "quote", "backslash", "a"}] : n \in 0..6}

MCVariables == <<[name |-> <<"a", "b">>, value |-> <<"a">>], [name |-> <<"A">>, value |-> <<"b">>],
                 [name |-> <<"=", "a">>, value |-> <<"b">>]>>
MCQueries == {<<"a">>, <<"A">>, <<"b">>, <<"a", "b">>, <<"a", "b", "a">>}
MCAssignments ==
  {<<"a">>, <<"=">>, <<"=", "a">>, <<"a", "=">>, <<"A", "=", "a">>, <<"b", "=", "b", "=">>, <<"b", "=">>,
   <<"b", "=", "a", "=", "b">>, <<"a", "b", "=", "=", "a">>, <<"a", "b", "a", "=", "a">>}
MCFold == [c \in {"a", "A", "b", "="} |-> IF c = "A" THEN "a" ELSE c]

\* The environment, which shares no state with the walk, is used after the
\* empty command line only.
MCNext ==
  \/ SplitArguments
  \/ GetMainArgs
  \/ cmd = << >> /\ Main
MCSpec == StartInit /\ [][MCNext]_startVars /\ WF_startVars(SplitArguments)
=============================================================================
