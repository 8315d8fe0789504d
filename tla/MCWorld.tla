------------------------------- MODULE MCWorld -------------------------------
(***************************************************************************)
(* Instances of World.  In the first a peer sends enough for the actor to  *)
(* fail and the connection to go on without it, and a second input keeps   *)
(* the World going when the first has failed, or is the first to end.  The *)
(* second has two connections on one input.                                *)
(***************************************************************************)
EXTENDS World

OneInput == [client |-> "api"]
OneChunks == [client |-> 2]

TwoInput == [client |-> "api", guest |-> "api"]
TwoChunks == [client |-> 1, guest |-> 0]

=============================================================================
