----------------------------- MODULE MCCpuUsage -----------------------------
(* The instance of CpuUsage for TLC: every function of the interface, with  *)
(* an idle task that main() may register, and anyone mark or remove.        *)
EXTENDS CpuUsage

MCDeltas == 0 .. 2

WorkersAndIdle == {"worker", "idle"}

AllCalls == {"add", "remove", "removeSelf", "removeIdle",
             "yield", "sleep", "return", "setAny"}
=============================================================================
