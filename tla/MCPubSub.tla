------------------------------ MODULE MCPubSub ------------------------------
(* Instances of PubSub for TLC.                                             *)
EXTENDS PubSub, TLC

ShortNames == {"a", "b"}
AsIs       == [n \in ShortNames |-> n]

\* A name of 32 characters or more, and what strncpy leaves of it.
LongNames  == {"long name", "long"}
Cut        == [n \in LongNames |-> "long"]

OneProc    == {"p"}
Symmetry   == Permutations(Procs)

OneCalls   == {"create", "subscribe", "unsubscribe"}
TwoCalls   == {"clear", "subscribe", "unsubscribe", "processTopic"}

Both       == {{"publish", "poll"}}
=============================================================================
