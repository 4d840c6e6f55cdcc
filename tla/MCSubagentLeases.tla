------------------------- MODULE MCSubagentLeases -------------------------
(* Leader 1 has a background and a foreground dispatch of one subagent in  *)
(* src, and background dispatches of two subagents with worktrees, two at  *)
(* once; leader 2 has a foreground dispatch in the whole tree.             *)
EXTENDS SubagentLeases

FiveCalls == {"b", "e", "f", "g", "i"}
BackgroundCalls == {"b", "e", "i"}
FourSubagents == [b |-> "worker", e |-> "scribe", f |-> "worker",
                  g |-> "explorer", i |-> "hermit"]
TwoLeaders == [b |-> 1, e |-> 1, f |-> 1, g |-> 2, i |-> 1]
Worktrees == {"hermit", "scribe"}
Prefixes == [worker |-> "src", scribe |-> "root", explorer |-> "root", hermit |-> "root"]
Below == {<<"root", "root">>, <<"root", "src">>, <<"src", "src">>}

\* Three parallel calls of one isolated subagent.
ThreeCalls == {"i", "j", "k"}
OneSubagent == [i |-> "hermit", j |-> "hermit", k |-> "hermit"]
OneLeader == [i |-> 1, j |-> 1, k |-> 1]
NoBackground == {}
=============================================================================
