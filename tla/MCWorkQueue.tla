---------------------------- MODULE MCWorkQueue ----------------------------
(* The instances of WorkQueue for TLC: builds like those that test_timing.sh *)
(* and test_configs.sh make, with fewer items.                              *)
EXTENDS WorkQueue

Build(p, c, n) == [producers |-> p, consumers |-> c, items |-> n]
SmallBuilds == {Build(1, 1, 5), Build(2, 1, 5), Build(2, 3, 6), Build(3, 2, 6)}
=============================================================================
