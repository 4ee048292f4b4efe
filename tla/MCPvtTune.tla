----------------------------- MODULE MCPvtTune -----------------------------
\* Times in their order: feedback_max_age < command_period <= query_wait.
EXTENDS PvtTune

\* Two loops have the one boundary the three of the code repeat; each is as short
\* as a loop that can give up.
MCPhases == <<9, 9>>
MCLogQueries == [print_limits |-> 1, print_before |-> 0, print_after |-> 0]
=============================================================================
