--------------------------- MODULE MCConversations ---------------------------
EXTENDS Conversations, TLC

Symmetry == Permutations(Threads)

\* Goals that nothing refers to are no part of the state.
Referred ==
  {goals[s] : s \in Sessions} \cup {mine} \cup {thread[t].goal : t \in Threads}

Seen == <<stored, open, current, leaving, active, checks, goals, mine, saved, thread,
          [g \in Goals |-> IF g \in Referred \/ goal[g] = NoGoal THEN goal[g] ELSE NewGoal]>>
=============================================================================
