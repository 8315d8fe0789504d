----------------------------- MODULE Supervision -----------------------------
(***************************************************************************)
(* The life of a tree of actors: the executor loop of each actor           *)
(* (src/src/executor.rs), the context it runs in and the supervising task  *)
(* around it (src/src/context.rs), and the callers that send to it, await  *)
(* it or wait for its completion (src/src/address.rs).                     *)
(*                                                                         *)
(* Every actor is a tokio task.  An actor spawned by another one holds a   *)
(* receiver of its supervisor's watch channel (`notifier`); the supervisor *)
(* takes "no receiver is left" to mean "all my children are dead".  A      *)
(* second task, started by Ctx::spawn_with, waits for the child's task and *)
(* reports its death to the supervisor's mailbox.                          *)
(*                                                                         *)
(* User handlers are driven by a Script of requests, each sent at most     *)
(* once.  What the handler of a request does with its context is the       *)
(* request's op, as in the TestMessage enum of the repository's own tests: *)
(* nothing, spawn a child, stop, abort or panic; Await and Wait are the    *)
(* library's own IntoFutureShutdown messages.  The lifecycle callbacks     *)
(* (on_start, pre_run, ...) are the default, empty ones.                   *)
(***************************************************************************)
EXTENDS Naturals, Sequences, FiniteSets

CONSTANTS
  Actors,        \* every actor that may ever exist
  Parent,        \* the supervisor of each actor, Nil for one started with Ctx::run
  Script,        \* the requests callers may make: id -> [op, to, child]
  MailboxSize,   \* Actor::mailbox_size()
  TimeoutLimit,  \* the number of idle seconds stopping() tolerates (10)
  Nil            \* no actor, no request, no message

Ops == {"Normal", "Spawn", "Stop", "Abort", "Panic", "Await", "Wait"}

Requests == DOMAIN Script
Op(r) == Script[r].op
To(r) == Script[r].to

\* What a mailbox holds: a request, or the death report of a child, which is
\* represented by the child itself.
Message == Requests \cup Actors

ASSUME ActorsAssumption ==
  /\ Nil \notin Message
  /\ Actors \cap Requests = {}
  /\ Parent \in [Actors -> Actors \cup {Nil}]

ASSUME ScriptAssumption ==
  \A r \in Requests :
    /\ Op(r) \in Ops
    /\ To(r) \in Actors
    /\ Op(r) = "Spawn" => /\ Script[r].child \in Actors
                          /\ Parent[Script[r].child] = To(r)
                          /\ Script[r].child # To(r)

ASSUME BoundsAssumption ==
  /\ MailboxSize \in Nat \ {0}
  /\ TimeoutLimit \in Nat

VARIABLES
  pc,          \* where the actor's task (or the task reporting its death) is
  state,       \* Ctx::state
  mailbox,     \* the messages in Ctx::mailbox, oldest first
  closed,      \* the mailbox refuses new messages: closed, or its context is dropped
  cur,         \* the message process_message works on
  shutdown,    \* Ctx::notifier holds Some(SupervisorMessage::Shutdown)
  rx,          \* the actor's receiver of its supervisor's notifier
  timeouts,    \* timeout_counter of stopping()
  subscriber,  \* Ctx::into_future_sender: the Await or Wait to answer at the end
  status,      \* how far each request is
  crashed,     \* the actors whose task panicked
  aborted,     \* the actors that called Ctx::abort
  fate         \* what became of the news of an actor's death

vars == <<pc, state, mailbox, closed, cur, shutdown, rx, timeouts, subscriber,
          status, crashed, aborted, fate>>

\* The parts most actions leave alone together.
death   == <<crashed, fate>>
control == <<shutdown, rx, timeouts, aborted>>

-----------------------------------------------------------------------------

\* The positions of an actor's task.
\*   unborn         the actor does not exist yet
\*   running        waits in run_actor or handle_supervised_message
\*   handling       in process_message, called from there
\*   shutdown       at the start of shutdown()
\*   notifying      on_stopping() is done; stopping() begins
\*   stopping       waits in the select! of stopping()
\*   stopHandling   in process_message, called from there
\*   checking       at the is_closed test that ends an iteration of stopping()
\*   draining       at the try_recv of stop(), which empties the mailbox
\*   drainHandling  in process_message, called from there
\*   exited         shutdown() has returned, after on_end()
\*   reporting      the supervising task sends Ok(dead_actor) to the supervisor
\*   reported       that message is sent, the receiver _rx is still held
\*   panicked       the task has unwound; the supervising task sends the error
\*   gone           nothing of the actor is left to run
Handling == {"handling", "stopHandling", "drainHandling"}
Executing == Handling \cup {"running", "shutdown", "notifying", "stopping",
                            "checking", "draining"}
Positions == Executing \cup {"unborn", "exited", "reporting", "reported",
                             "panicked", "gone"}

\* The states of a request.
\*   unsent    the caller has not tried yet
\*   reserved  its send owns a slot of the mailbox but has not pushed yet
\*   queued    it is in the mailbox, or in process_message
\*   handled   its handler has returned
\*   rejected  the send failed: SendError, or IntoFutureError::MailboxClosed
\*   subscribed  (Await, Wait) it is the actor's into_future_sender
\*   resolved  (Await, Wait) the caller was given the actor
\*   abandoned (Await, Wait) the caller dropped its future
\*   dropped   the actor's context was dropped with it, or a later subscriber
\*             replaced it: the caller sees IntoFutureError::Paniced
\*   late      it was pushed after stop() had emptied the mailbox
Statuses == {"unsent", "reserved", "queued", "handled", "rejected",
             "subscribed", "resolved", "abandoned", "dropped", "late"}

\* What became of the news that an actor died: nothing yet; in the
\* supervisor's mailbox; handled by the supervisor; not sent, because the
\* caller awaiting the actor got it instead; refused by a closed mailbox (the
\* unreachable! of spawn_with); given up after a panic (`let _ =`).
Fates == {"none", "reported", "handled", "awaited", "unreachable", "lost"}

Waits == {r \in Requests : Op(r) \in {"Await", "Wait"}}

TypeOK ==
  /\ pc \in [Actors -> Positions]
  /\ state \in [Actors -> {"Running", "Stopping", "Stopped"}]
  /\ mailbox \in [Actors -> Seq(Message)]
  /\ closed \in [Actors -> BOOLEAN]
  /\ cur \in [Actors -> Message \cup {Nil}]
  /\ shutdown \in [Actors -> BOOLEAN]
  /\ rx \in [Actors -> {"none", "unseen", "seen"}]
  /\ timeouts \in [Actors -> 0..TimeoutLimit]
  /\ subscriber \in [Actors -> Waits \cup {Nil}]
  /\ status \in [Requests -> Statuses]
  /\ crashed \in SUBSET Actors
  /\ aborted \in SUBSET Actors
  /\ fate \in [Actors -> Fates]

-----------------------------------------------------------------------------

Children(a) == {c \in Actors : Parent[c] = a}

\* watch::Sender::is_closed: no receiver of a's notifier is left.
IsClosed(a) == \A c \in Children(a) : rx[c] = "none"

\* The slots of a's mailbox in use: filled, or reserved by a send under way.
SlotsUsed(a) ==
  Len(mailbox[a]) + Cardinality({r \in Requests : status[r] = "reserved" /\ To(r) = a})

HasRoom(a) == SlotsUsed(a) < MailboxSize

\* The notifier of a is dropped with its context.
NotifierDropped(a) == pc[a] \in {"panicked", "gone"}

\* The task of a panics.  Unwinding drops the executor: its context, with the
\* mailbox and all that is in it, the notifier and the into_future_sender, and
\* its own receiver.  A supervised actor's supervising task then has the error
\* to report.
Unwind(a) ==
  /\ pc' = [pc EXCEPT ![a] = IF Parent[a] = Nil THEN "gone" ELSE "panicked"]
  /\ mailbox' = [mailbox EXCEPT ![a] = <<>>]
  /\ closed' = [closed EXCEPT ![a] = TRUE]
  /\ cur' = [cur EXCEPT ![a] = Nil]
  /\ rx' = [rx EXCEPT ![a] = "none"]
  /\ subscriber' = [subscriber EXCEPT ![a] = Nil]
  /\ status' = [r \in Requests |->
                  IF To(r) = a /\ status[r] \in {"queued", "subscribed"}
                  THEN "dropped" ELSE status[r]]
  /\ crashed' = crashed \cup {a}
  /\ UNCHANGED <<state, shutdown, timeouts, aborted, fate>>

-----------------------------------------------------------------------------
(* Callers: ActorRef.                                                      *)

\* The first half of a send (try_send, send, send_async, the send inside an
\* await): the channel's semaphore grants a slot.
Reserve(r) ==
  /\ status[r] = "unsent"
  /\ pc[To(r)] # "unborn"
  /\ ~closed[To(r)]
  /\ HasRoom(To(r))
  /\ status' = [status EXCEPT ![r] = "reserved"]
  /\ UNCHANGED <<pc, state, mailbox, closed, cur, subscriber, control, death>>

\* The second half: the value is written to the slot.  Closing the mailbox in
\* between does not stop it; a mailbox that nobody will read again keeps it.
Push(r) ==
  LET a == To(r) IN
  /\ status[r] = "reserved"
  /\ IF pc[a] \in Executing
     THEN /\ mailbox' = [mailbox EXCEPT ![a] = Append(@, r)]
          /\ status' = [status EXCEPT ![r] = "queued"]
     ELSE /\ status' = [status EXCEPT ![r] = "late"]
          /\ UNCHANGED mailbox
  /\ UNCHANGED <<pc, state, closed, cur, subscriber, control, death>>

\* A send that fails: the mailbox is closed or, for the sends that do not
\* wait (try_send, send), full.
Reject(r) ==
  /\ status[r] = "unsent"
  /\ pc[To(r)] # "unborn"
  /\ \/ closed[To(r)]
     \/ r \notin Waits /\ ~HasRoom(To(r))
  /\ status' = [status EXCEPT ![r] = "rejected"]
  /\ UNCHANGED <<pc, state, mailbox, closed, cur, subscriber, control, death>>

\* The caller of an await drops the future before it is resolved.
Abandon(r) ==
  /\ r \in Waits
  /\ status[r] \in {"queued", "subscribed"}
  /\ status' = [status EXCEPT ![r] = "abandoned"]
  /\ UNCHANGED <<pc, state, mailbox, closed, cur, subscriber, control, death>>

-----------------------------------------------------------------------------
(* The executor: taking a message, process_message.                        *)

\* Taking the oldest message: recv in the run loop and in stopping(), try_recv
\* in stop().  In the run loop of a supervised actor the select! polls its two
\* branches in random order, so a pending Shutdown does not hold this back.
Receive(a) ==
  /\ pc[a] \in {"running", "stopping", "draining"}
  /\ mailbox[a] # <<>>
  /\ cur' = [cur EXCEPT ![a] = Head(mailbox[a])]
  /\ mailbox' = [mailbox EXCEPT ![a] = Tail(@)]
  /\ pc' = [pc EXCEPT ![a] = CASE @ = "running" -> "handling"
                               [] @ = "stopping" -> "stopHandling"
                               [] @ = "draining" -> "drainHandling"]
  /\ UNCHANGED <<state, closed, subscriber, status, control, death>>

\* Where process_message returns to, with the context in state st: only the
\* run loop looks at the event.
AfterMessage(p, st) ==
  CASE p = "handling" -> IF st = "Running" THEN "running" ELSE "shutdown"
    [] p = "stopHandling" -> "checking"
    [] p = "drainHandling" -> "draining"

Return(a, st) ==
  /\ pc' = [pc EXCEPT ![a] = AfterMessage(@, st)]
  /\ state' = [state EXCEPT ![a] = st]
  /\ cur' = [cur EXCEPT ![a] = Nil]

\* a's handler works on a request with this op.
Serves(a, op) ==
  /\ pc[a] \in Handling
  /\ cur[a] \in Requests
  /\ Op(cur[a]) = op

Handled(a) == status' = [status EXCEPT ![cur[a]] = "handled"]

HandleNormal(a) ==
  /\ Serves(a, "Normal")
  /\ Return(a, state[a])
  /\ Handled(a)
  /\ UNCHANGED <<mailbox, closed, subscriber, control, death>>

\* ActorContext::stop
HandleStop(a) ==
  /\ Serves(a, "Stop")
  /\ Return(a, IF state[a] = "Running" THEN "Stopping" ELSE state[a])
  /\ Handled(a)
  /\ UNCHANGED <<mailbox, closed, subscriber, control, death>>

\* ActorContext::abort
HandleAbort(a) ==
  /\ Serves(a, "Abort")
  /\ IF state[a] \in {"Running", "Stopping"}
     THEN /\ Return(a, "Stopped")
          /\ closed' = [closed EXCEPT ![a] = TRUE]
          /\ aborted' = aborted \cup {a}
     ELSE /\ Return(a, state[a])
          /\ UNCHANGED <<closed, aborted>>
  /\ Handled(a)
  /\ UNCHANGED <<mailbox, subscriber, shutdown, rx, timeouts, death>>

\* Mutant of HandleSpawn: spawn_with does not look at the state.
HandleSpawnAnyState(a) ==
  LET c == Script[cur[a]].child IN
  /\ Serves(a, "Spawn")
  /\ pc[c] = "unborn"
  /\ pc' = [pc EXCEPT ![a] = AfterMessage(@, state[a]), ![c] = "running"]
  /\ rx' = [rx EXCEPT ![c] = IF shutdown[a] THEN "seen" ELSE "unseen"]
  /\ cur' = [cur EXCEPT ![a] = Nil]
  /\ Handled(a)
  /\ UNCHANGED <<state, mailbox, closed, subscriber, shutdown, timeouts,
                 aborted, death>>

\* Ctx::spawn in a running actor: the child subscribes to the notifier (what it
\* already holds counts as seen) and its task starts.
HandleSpawn(a) ==
  LET c == Script[cur[a]].child IN
  /\ Serves(a, "Spawn")
  /\ state[a] = "Running"
  /\ pc[c] = "unborn"
  /\ pc' = [pc EXCEPT ![a] = AfterMessage(@, "Running"), ![c] = "running"]
  /\ rx' = [rx EXCEPT ![c] = IF shutdown[a] THEN "seen" ELSE "unseen"]
  /\ cur' = [cur EXCEPT ![a] = Nil]
  /\ Handled(a)
  /\ UNCHANGED <<state, mailbox, closed, subscriber, shutdown, timeouts,
                 aborted, death>>

\* A handler that panics: by itself, or by calling Ctx::spawn when the actor
\* is no longer running.
HandlePanic(a) ==
  /\ \/ Serves(a, "Panic")
     \/ Serves(a, "Spawn") /\ state[a] # "Running"
  /\ Unwind(a)

\* IntoFutureShutdown: subscribe_and_stop for an Await, subscribe_and_wait for
\* a Wait.  The sender of an earlier subscriber is dropped.
HandleIntoFuture(a) ==
  LET w == cur[a] IN
  /\ pc[a] \in Handling
  /\ w \in Waits
  /\ subscriber' = [subscriber EXCEPT ![a] = w]
  /\ status' = [r \in Requests |->
                  IF r = w /\ status[r] = "queued" THEN "subscribed"
                  ELSE IF r = subscriber[a] /\ status[r] = "subscribed" THEN "dropped"
                  ELSE status[r]]
  /\ Return(a, IF Op(w) = "Await" /\ state[a] = "Running" THEN "Stopping" ELSE state[a])
  /\ UNCHANGED <<mailbox, closed, control, death>>

\* Handler<DeadActorResult<C>>: the supervisor learns of the death of a child.
HandleDeadActor(a) ==
  /\ pc[a] \in Handling
  /\ cur[a] \in Actors
  /\ fate' = [fate EXCEPT ![cur[a]] = "handled"]
  /\ Return(a, state[a])
  /\ UNCHANGED <<mailbox, closed, subscriber, status, control, crashed>>

-----------------------------------------------------------------------------
(* The executor: messages of the supervisor, and shutdown().               *)

\* Mutant of SupervisorShutdown: the loop continues.
SupervisorShutdownIgnored(a) ==
  /\ pc[a] = "running"
  /\ Parent[a] # Nil
  /\ rx[a] = "unseen"
  /\ shutdown[Parent[a]]
  /\ rx' = [rx EXCEPT ![a] = "seen"]
  /\ UNCHANGED <<pc, state, mailbox, closed, cur, subscriber, status, shutdown,
                 timeouts, aborted, death>>

\* handle_supervised_message: the receiver reports the Shutdown.
SupervisorShutdown(a) ==
  /\ pc[a] = "running"
  /\ Parent[a] # Nil
  /\ rx[a] = "unseen"
  /\ shutdown[Parent[a]]
  /\ rx' = [rx EXCEPT ![a] = "seen"]
  /\ pc' = [pc EXCEPT ![a] = "shutdown"]
  /\ UNCHANGED <<state, mailbox, closed, cur, subscriber, status, shutdown,
                 timeouts, aborted, death>>

\* handle_supervised_message: the supervisor's notifier is gone, the child
\* panics ("Supervisor died before child").  A Shutdown not yet seen is
\* reported before the end of the channel.
SupervisorDied(a) ==
  /\ pc[a] = "running"
  /\ Parent[a] # Nil
  /\ NotifierDropped(Parent[a])
  /\ ~(rx[a] = "unseen" /\ shutdown[Parent[a]])
  /\ Unwind(a)

\* shutdown(): state := Stopping, on_stopping().
BeginShutdown(a) ==
  /\ pc[a] = "shutdown"
  /\ state' = [state EXCEPT ![a] = "Stopping"]
  /\ pc' = [pc EXCEPT ![a] = "notifying"]
  /\ UNCHANGED <<mailbox, closed, cur, subscriber, status, control, death>>

\* Mutant of AllChildrenDead: stopping() does not look for receivers.
AssumeChildrenDead(a) ==
  /\ closed' = [closed EXCEPT ![a] = TRUE]
  /\ state' = [state EXCEPT ![a] = "Stopped"]
  /\ pc' = [pc EXCEPT ![a] = "draining"]
  /\ UNCHANGED <<mailbox, cur, subscriber, status, control, death>>

\* stopping() has found no receiver left: it closes the mailbox and returns,
\* shutdown() goes on with state := Stopped and on_stopped(), stop() begins.
AllChildrenDead(a) ==
  /\ IsClosed(a)
  /\ closed' = [closed EXCEPT ![a] = TRUE]
  /\ state' = [state EXCEPT ![a] = "Stopped"]
  /\ pc' = [pc EXCEPT ![a] = "draining"]
  /\ UNCHANGED <<mailbox, cur, subscriber, status, control, death>>

\* Mutant of BeginStopping: the mailbox is closed before the children are dead.
BeginStoppingClosed(a) ==
  /\ pc[a] = "notifying"
  /\ \/ AllChildrenDead(a)
     \/ /\ ~IsClosed(a)
        /\ shutdown' = [shutdown EXCEPT ![a] = TRUE]
        /\ closed' = [closed EXCEPT ![a] = TRUE]
        /\ timeouts' = [timeouts EXCEPT ![a] = 0]
        /\ pc' = [pc EXCEPT ![a] = "stopping"]
        /\ UNCHANGED <<state, mailbox, cur, rx, subscriber, status, aborted, death>>

\* stopping(), first part: done at once without children, else tell them.
BeginStopping(a) ==
  /\ pc[a] = "notifying"
  /\ \/ AllChildrenDead(a)
     \/ /\ ~IsClosed(a)
        /\ shutdown' = [shutdown EXCEPT ![a] = TRUE]
        /\ timeouts' = [timeouts EXCEPT ![a] = 0]
        /\ pc' = [pc EXCEPT ![a] = "stopping"]
        /\ UNCHANGED <<state, mailbox, closed, cur, rx, subscriber, status,
                       aborted, death>>

\* The select! of stopping(): recv yields None, the mailbox being closed (by
\* abort) and empty, with no send under way.
StoppingMailboxClosed(a) ==
  /\ pc[a] = "stopping"
  /\ closed[a]
  /\ SlotsUsed(a) = 0
  /\ pc' = [pc EXCEPT ![a] = "checking"]
  /\ UNCHANGED <<state, mailbox, closed, cur, subscriber, status, control, death>>

\* Mutants of StoppingTimeout: no limit; a supervisor that stops at the limit.
StoppingTimeoutUnlimited(a) ==
  /\ pc[a] = "stopping"
  /\ ~(closed[a] /\ SlotsUsed(a) = 0)
  /\ timeouts' = [timeouts EXCEPT ![a] = @ + 1]
  /\ pc' = [pc EXCEPT ![a] = "checking"]
  /\ UNCHANGED <<state, mailbox, closed, cur, shutdown, rx, subscriber, status,
                 aborted, death>>

StoppingTimeoutGivesUp(a) ==
  /\ pc[a] = "stopping"
  /\ ~(closed[a] /\ SlotsUsed(a) = 0)
  /\ IF timeouts[a] = TimeoutLimit
     THEN AssumeChildrenDead(a)
     ELSE /\ timeouts' = [timeouts EXCEPT ![a] = @ + 1]
          /\ pc' = [pc EXCEPT ![a] = "checking"]
          /\ UNCHANGED <<state, mailbox, closed, cur, shutdown, rx, subscriber,
                         status, aborted, death>>

\* The select! of stopping(): a second passed without a message.  A mailbox
\* closed and empty answers at once, so the timer cannot win against it.
StoppingTimeout(a) ==
  /\ pc[a] = "stopping"
  /\ ~(closed[a] /\ SlotsUsed(a) = 0)
  /\ IF timeouts[a] = TimeoutLimit
     THEN Unwind(a)
     ELSE /\ timeouts' = [timeouts EXCEPT ![a] = @ + 1]
          /\ pc' = [pc EXCEPT ![a] = "checking"]
          /\ UNCHANGED <<state, mailbox, closed, cur, shutdown, rx, subscriber,
                         status, aborted, death>>

\* The end of an iteration of stopping().
CheckChildren(a) ==
  /\ pc[a] = "checking"
  /\ \/ AllChildrenDead(a)
     \/ /\ ~IsClosed(a)
        /\ pc' = [pc EXCEPT ![a] = "stopping"]
        /\ UNCHANGED <<state, mailbox, closed, cur, subscriber, status, control,
                       death>>

\* Mutant of DrainEmpty: stop() leaves what is in the mailbox.
DrainNothing(a) ==
  /\ pc[a] = "draining"
  /\ pc' = [pc EXCEPT ![a] = "exited"]
  /\ UNCHANGED <<state, mailbox, closed, cur, subscriber, status, control, death>>

\* stop(): try_recv finds the mailbox empty.  It does not wait for a send that
\* has reserved a slot.  on_end() follows.
DrainEmpty(a) ==
  /\ pc[a] = "draining"
  /\ mailbox[a] = <<>>
  /\ pc' = [pc EXCEPT ![a] = "exited"]
  /\ UNCHANGED <<state, mailbox, closed, cur, subscriber, status, control, death>>

-----------------------------------------------------------------------------
(* After the executor: run_actor's last lines, the supervising task.       *)

\* The into_future_sender of a reaches its caller.
Answered(a) ==
  /\ subscriber[a] # Nil
  /\ status[subscriber[a]] = "subscribed"

\* Mutant of TakeSubscriber: the caller is not answered.
ForgetSubscriber(a) ==
  /\ subscriber' = [subscriber EXCEPT ![a] = Nil]
  /\ UNCHANGED status

TakeSubscriber(a) ==
  /\ subscriber' = [subscriber EXCEPT ![a] = Nil]
  /\ status' = IF Answered(a)
               THEN [status EXCEPT ![subscriber[a]] = "resolved"]
               ELSE status

\* run_actor: give the actor to the caller awaiting it, if any, and end.
ExitRoot(a) ==
  /\ pc[a] = "exited"
  /\ Parent[a] = Nil
  /\ TakeSubscriber(a)
  /\ pc' = [pc EXCEPT ![a] = "gone"]
  /\ UNCHANGED <<state, mailbox, closed, cur, control, death>>

\* Mutant of ExitChild: the receiver is dropped with the executor, before the
\* report.
ExitChildWithoutReceiver(a) ==
  /\ pc[a] = "exited"
  /\ Parent[a] # Nil
  /\ TakeSubscriber(a)
  /\ rx' = [rx EXCEPT ![a] = "none"]
  /\ IF Answered(a)
     THEN /\ pc' = [pc EXCEPT ![a] = "gone"]
          /\ fate' = [fate EXCEPT ![a] = "awaited"]
     ELSE /\ pc' = [pc EXCEPT ![a] = "reporting"]
          /\ UNCHANGED fate
  /\ UNCHANGED <<state, mailbox, closed, cur, shutdown, timeouts, aborted, crashed>>

\* spawn_with, Ok(executor): if a caller awaiting the actor takes it, all is
\* dropped and the supervisor is told nothing; otherwise it must be told.
ExitChild(a) ==
  /\ pc[a] = "exited"
  /\ Parent[a] # Nil
  /\ TakeSubscriber(a)
  /\ IF Answered(a)
     THEN /\ pc' = [pc EXCEPT ![a] = "gone"]
          /\ rx' = [rx EXCEPT ![a] = "none"]
          /\ fate' = [fate EXCEPT ![a] = "awaited"]
     ELSE /\ pc' = [pc EXCEPT ![a] = "reporting"]
          /\ UNCHANGED <<rx, fate>>
  /\ UNCHANGED <<state, mailbox, closed, cur, shutdown, timeouts, aborted, crashed>>

\* spawn_with: supervisor.send_async(Ok(dead_actor)) succeeds ...
ReportDeath(a) ==
  LET p == Parent[a] IN
  /\ pc[a] = "reporting"
  /\ ~closed[p]
  /\ HasRoom(p)
  /\ mailbox' = [mailbox EXCEPT ![p] = Append(@, a)]
  /\ fate' = [fate EXCEPT ![a] = "reported"]
  /\ pc' = [pc EXCEPT ![a] = "reported"]
  /\ UNCHANGED <<state, closed, cur, subscriber, status, control, crashed>>

\* ... and only then is the receiver dropped;
DropReceiver(a) ==
  /\ pc[a] = "reported"
  /\ rx' = [rx EXCEPT ![a] = "none"]
  /\ pc' = [pc EXCEPT ![a] = "gone"]
  /\ UNCHANGED <<state, mailbox, closed, cur, subscriber, status, shutdown,
                 timeouts, aborted, death>>

\* ... or the supervisor's mailbox is closed, and the supervising task panics
\* at its unreachable!.
ReportUnreachable(a) ==
  /\ pc[a] = "reporting"
  /\ closed[Parent[a]]
  /\ rx' = [rx EXCEPT ![a] = "none"]
  /\ fate' = [fate EXCEPT ![a] = "unreachable"]
  /\ pc' = [pc EXCEPT ![a] = "gone"]
  /\ UNCHANGED <<state, mailbox, closed, cur, subscriber, status, shutdown,
                 timeouts, aborted, crashed>>

\* spawn_with, Err(err): the report of a panic.  The actor's receiver was
\* dropped by the unwinding; a failed send is ignored.
ReportPanic(a) ==
  LET p == Parent[a] IN
  /\ pc[a] = "panicked"
  /\ \/ /\ ~closed[p]
        /\ HasRoom(p)
        /\ mailbox' = [mailbox EXCEPT ![p] = Append(@, a)]
        /\ fate' = [fate EXCEPT ![a] = "reported"]
     \/ /\ closed[p]
        /\ fate' = [fate EXCEPT ![a] = "lost"]
        /\ UNCHANGED mailbox
  /\ pc' = [pc EXCEPT ![a] = "gone"]
  /\ UNCHANGED <<state, closed, cur, subscriber, status, control, crashed>>

-----------------------------------------------------------------------------

\* The actors without a supervisor are started with Ctx::run.
Init ==
  /\ pc = [a \in Actors |-> IF Parent[a] = Nil THEN "running" ELSE "unborn"]
  /\ state = [a \in Actors |-> "Running"]
  /\ mailbox = [a \in Actors |-> <<>>]
  /\ closed = [a \in Actors |-> FALSE]
  /\ cur = [a \in Actors |-> Nil]
  /\ shutdown = [a \in Actors |-> FALSE]
  /\ rx = [a \in Actors |-> "none"]
  /\ timeouts = [a \in Actors |-> 0]
  /\ subscriber = [a \in Actors |-> Nil]
  /\ status = [r \in Requests |-> "unsent"]
  /\ crashed = {}
  /\ aborted = {}
  /\ fate = [a \in Actors |-> "none"]

ProcessMessage(a) ==
  \/ HandleNormal(a) \/ HandleStop(a) \/ HandleAbort(a) \/ HandleSpawn(a)
  \/ HandlePanic(a) \/ HandleIntoFuture(a) \/ HandleDeadActor(a)

Shutdown(a) ==
  \/ BeginShutdown(a) \/ BeginStopping(a) \/ StoppingMailboxClosed(a)
  \/ StoppingTimeout(a) \/ CheckChildren(a) \/ DrainEmpty(a)

Supervise(a) ==
  \/ ExitRoot(a) \/ ExitChild(a) \/ ReportDeath(a) \/ DropReceiver(a)
  \/ ReportUnreachable(a) \/ ReportPanic(a)

\* One step of the tasks of actor a.
ActorStep(a) ==
  \/ Receive(a) \/ ProcessMessage(a)
  \/ SupervisorShutdown(a) \/ SupervisorDied(a)
  \/ Shutdown(a) \/ Supervise(a)

CallerStep(r) == Reserve(r) \/ Push(r) \/ Reject(r) \/ Abandon(r)

Next ==
  \/ \E a \in Actors : ActorStep(a)
  \/ \E r \in Requests : CallerStep(r)

Spec == Init /\ [][Next]_vars

\* The runtime polls every task that is ready, and fires its timers; a send
\* that owns a slot finishes.  Callers need not send anything.
Fairness ==
  /\ \A a \in Actors : WF_vars(ActorStep(a))
  /\ \A r \in Requests : WF_vars(Push(r))

FairSpec == Spec /\ Fairness

-----------------------------------------------------------------------------
(* Properties.                                                             *)

\* The actor's on_end callback has run: it went through the whole shutdown.
StoppedCleanly(a) ==
  pc[a] \in {"exited", "reporting", "reported", "gone"} /\ a \notin crashed

\* "Once the actor and all of the children have cleaned up, this method will
\* return" (IntoFuture for ActorRef); "Call only when all children are dead"
\* (stop): when an actor has stopped, and so before its supervisor or a caller
\* is given it, no task of a child is still executing or holding its report.
ChildrenDieFirst ==
  \A a, c \in Actors :
    Parent[c] = a /\ StoppedCleanly(a) => pc[c] \in {"unborn", "panicked", "gone"}

\* Once a supervisor has broadcast Shutdown, every child that still runs its
\* loop has the message ahead of it: no child starts too late to hear it.
NoDeafChild ==
  \A c \in Actors :
    pc[c] = "running" /\ Parent[c] # Nil /\ shutdown[Parent[c]] => rx[c] = "unseen"

\* The "MUST send" of spawn_with: a child that stopped finds its supervisor's
\* mailbox open, unless the supervisor aborted or panicked.
CleanDeathDelivered ==
  \A c \in Actors : fate[c] = "unreachable" => Parent[c] \in aborted \cup crashed

\* A supervisor that stopped without aborting has handled the death of every
\* child that stopped, except the ones given to a caller awaiting them.
CleanDeathHandled ==
  \A a, c \in Actors :
    /\ Parent[c] = a
    /\ StoppedCleanly(a) /\ a \notin aborted
    /\ StoppedCleanly(c)
    => fate[c] \in {"handled", "awaited"}

\* stop() "completely empt[ies] the remaining items in the mailbox": what was
\* in the mailbox, children's reports included, has been handled when the
\* actor ends.
DrainedBeforeExit ==
  \A a \in Actors : StoppedCleanly(a) =>
    /\ mailbox[a] = <<>>
    /\ \A r \in Requests : To(r) = a => status[r] # "queued"

\* A caller waiting for an actor is the actor's one subscriber until the actor
\* is handed over, and is told "Paniced" only when the actor did panic or
\* another subscriber took its place.
CallersNotForgotten ==
  \A w \in Waits :
    /\ status[w] = "subscribed" =>
         subscriber[To(w)] = w /\ pc[To(w)] \in Executing \cup {"exited"}
    /\ status[w] = "dropped" =>
         \/ To(w) \in crashed
         \/ \E v \in Waits \ {w} :
              To(v) = To(w) /\ status[v] \in {"subscribed", "resolved", "abandoned", "dropped"}

\* a is past the point where stopping() found all its children dead.
Over(a) ==
  \/ pc[a] \in {"draining", "drainHandling", "exited", "reporting", "reported"}
  \/ pc[a] = "gone" /\ a \notin crashed

\* What a may find in its mailbox.
Addressed(a) == {r \in Requests : To(r) = a} \cup Children(a)

AddressInv ==
  \A a \in Actors :
    /\ mailbox[a] \in Seq(Addressed(a))
    /\ cur[a] \in Addressed(a) \cup {Nil}
    /\ subscriber[a] \in {w \in Waits : To(w) = a} \cup {Nil}

\* The receiver of a supervised actor lives exactly as long as its task and the
\* report of a clean stop, and what it has not seen it sees before it ends.
ReceiverInv ==
  \A c \in Actors :
    /\ rx[c] # "none" <=> /\ Parent[c] # Nil
                          /\ pc[c] \in Executing \cup {"exited", "reporting", "reported"}
    /\ pc[c] \in {"running", "handling"} => rx[c] # "seen"
    /\ pc[c] \in {"reporting", "reported", "panicked"} => Parent[c] # Nil

\* is_closed stays true once stopping() has acted on it: the assert! at the
\* start of stop() holds, and after it.
NoChildInv == \A a \in Actors : Over(a) => IsClosed(a)

\* Nothing is spawned once the broadcast may have been sent.
StateInv ==
  \A a \in Actors :
    /\ pc[a] \notin {"unborn", "running", "handling", "shutdown", "panicked", "gone"}
         => state[a] # "Running"
    /\ shutdown[a] => state[a] # "Running"

\* A mailbox is closed by abort, by a panic, or when no child is left.
ClosedInv ==
  \A a \in Actors :
    /\ closed[a] => a \in aborted \cup crashed \/ Over(a)
    /\ pc[a] = "unborn" => a \notin crashed
    /\ a \in crashed => pc[a] \in {"panicked", "gone"}
    /\ pc[a] = "panicked" => a \in crashed

\* Why the end of a supervisor and the reports of its children do not race:
\* the strengthening of ChildrenDieFirst, NoDeafChild and CleanDeathDelivered
\* that every step keeps.
SupervisionInv ==
  /\ AddressInv
  /\ ReceiverInv
  /\ NoChildInv
  /\ StateInv
  /\ ClosedInv
  /\ CleanDeathDelivered

\* The states of an actor's life that ActorTree tells apart.
Life(a) ==
  IF pc[a] = "unborn" THEN "unborn"
  ELSE IF a \in crashed THEN "crashed"
  ELSE IF pc[a] \in Executing THEN "alive"
  ELSE "stopped"

Heir(a) ==
  IF fate[a] = "handled" THEN "supervisor"
  ELSE IF \E w \in Waits : To(w) = a /\ status[w] = "resolved" THEN "caller"
  ELSE "none"

Tree == INSTANCE ActorTree WITH life <- [a \in Actors |-> Life(a)],
                                heir <- [a \in Actors |-> Heir(a)]

\* The executor implements ActorTree: whatever the callers and the handlers
\* do, starts, ends and hand-overs happen only as the tree allows.
TreeSpec == Tree!Spec

\* Awaiting an actor comes to an end: the caller that got its request into the
\* mailbox is given the actor or told that it will not be.  (A request written
\* to the mailbox after stop() emptied it is the exception: "late".)
AwaitEnds ==
  \A w \in Waits : Op(w) = "Await" =>
    (status[w] \in {"queued", "subscribed"}
       ~> status[w] \in {"resolved", "dropped", "abandoned"})

\* Stopping comes to an end, for the actor and for every child it has: each is
\* gone, by its own on_end, by a panic or by the timeout of stopping().
ShutdownEnds ==
  \A a \in Actors :
    pc[a] = "shutdown" ~> pc[a] = "gone" /\ \A c \in Children(a) : pc[c] \in {"unborn", "gone"}

-----------------------------------------------------------------------------
(* What the code says of itself and does not keep.                         *)

\* DeadActorResult: "A dead actor must be handled by a supervisor. The death of
\* an actor could be because it completed executing or it paniced/cancelled
\* during execution": a supervisor does not end with a death not handled.
DeadActorHandled ==
  \A a, c \in Actors :
    Parent[c] = a /\ pc[a] = "gone" /\ a \notin crashed /\ pc[c] = "gone"
      => fate[c] \in {"handled", "awaited"}

=============================================================================
