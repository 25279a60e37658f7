--------------------------- MODULE MCContextSwitch ---------------------------
(* Instances of ContextSwitch for TLC.                                      *)
EXTENDS ContextSwitch

MCTasks  == {"t1", "t2", "t3"}
OneSite  == {"f"}
OneTask  == {"t1"}

\* The waits of main.c's tasks: all in the functions themselves.
InMain  == {<<"sleep", 0>>, <<"yield", 0>>}
=============================================================================
