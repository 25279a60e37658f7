----------------------------- MODULE MCProgram -----------------------------
(* The constants of Program as the code has them, for the build that main.c *)
(* describes and some of those that the test scripts make, and a longer one. *)
EXTENDS Program

Build(p, c, n) == [producers |-> p, consumers |-> c, items |-> n]
Builds == {Build(2, 2, 250), Build(1, 1, 100), Build(4, 2, 100), Build(1, 4, 100)}

\* One that runs past the range of the tick counter (and takes TLC longer).
LongBuild == {Build(1, 1, 1100)}

WorkersAndIdle == {"worker", "idle"}
MainCalls      == {"sleep", "return"}
MainPauses     == {10, 50, 100, 200, 500}
=============================================================================
