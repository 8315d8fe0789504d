------------------------------- MODULE MCRelay -------------------------------
(***************************************************************************)
(* An actor built with a reference to send and one to ask through (the     *)
(* loop of an ask_asyncer takes the same steps as an asker's).  Its        *)
(* handlers may stop it, abort it or panic.                                *)
(***************************************************************************)
EXTENDS Relay

TestRelays == <<"sender", "asker">>
TestKind == [sender |-> "sender", asker |-> "asker"]

\* The tuple of references is (asker, sender) before it is flattened.
Call(k, o) == [ref |-> k, op |-> o, wait |-> TRUE]
Instant(call) == [call EXCEPT !.wait = FALSE]

TestScript ==
  [note |-> Instant(Call(1, "Normal")), stop |-> Call(1, "Stop"),
   ask |-> Call(2, "Abort"), crash |-> Call(2, "Panic")]

=============================================================================
