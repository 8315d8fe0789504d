----------------------------- MODULE MCAnonymous -----------------------------
(***************************************************************************)
(* Small instances of Anonymous: what the callers may ask of the actor, in *)
(* any order and at any time.                                              *)
(***************************************************************************)
EXTENDS Anonymous

Call(o) == [op |-> o, wait |-> TRUE, fails |-> FALSE, worker |-> Nil]
Failing(call) == [call EXCEPT !.fails = TRUE]
Instant(call) == [call EXCEPT !.wait = FALSE]
CallTask(w) == [Call("AskTask") EXCEPT !.worker = w]

\* The three kinds of tasks, under a handler that stops the actor and one that
\* aborts it.
TaskScript ==
  [lookup |-> CallTask("worker"), fetch |-> Failing(Call("Anon")), chore |-> Call("AnonTask"),
   stop |-> Call("Stop"), abort |-> Call("Abort")]

\* A question of every kind, the worker of one of which may panic, a task that may
\* be halted, and handlers that panic or abort the actor.
AskScript ==
  [ask |-> Instant(Call("Ask")), lookup |-> Failing(CallTask("worker")),
   read |-> Call("AsyncAsk"), scan |-> Call("AsyncAskBlocking"), fetch |-> Call("Anon"),
   crash |-> Call("Panic"), abort |-> Call("Abort")]

\* Callers send any MaxCalls of them, in any order.  Only callers are held back, who
\* need not send: the fair actions are those of FairSpec.
MaxCalls == 3
FewCalls == Cardinality({r \in Requests : status'[r] # "unsent"}) <= MaxCalls

\* Three tasks for one permit, and a question.
LimitScript ==
  [fetch |-> Call("Anon"), again |-> Call("Anon"), third |-> Call("Anon"), ask |-> Call("Ask")]

\* Two tasks, and enough questions to keep the mailbox full.
BusyScript ==
  [fetch |-> Call("Anon"), again |-> Call("Anon"), ask |-> Call("Ask"), more |-> Call("Ask")]

=============================================================================
