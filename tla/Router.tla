-------------------------------- MODULE Router --------------------------------
(***************************************************************************)
(* A pool of workers behind one actor: src/src/utils/router.rs.  The       *)
(* Router spawns its workers when it starts, hands the questions it is     *)
(* asked to them in turn, one question at a time, and passes the answers   *)
(* on.                                                                     *)
(*                                                                         *)
(* The executors of the router and of the workers are those of Supervision,*)
(* reduced: the router is a root actor whose only children are workers,    *)
(* and a worker has no children and hears from nobody but the router.      *)
(* Sending is one step here where no property depends on the slot being    *)
(* reserved first (callers, reports); the router's question keeps both.    *)
(***************************************************************************)
EXTENDS Naturals, Sequences, FiniteSets

CONSTANTS
  MaxActors,     \* a bound on RouterBuilder::max_actors
  MaxRetry,      \* RouterBuilder::max_retry
  Script,        \* the calls made to the router: id -> op
  OwnOps,        \* what a worker may do in a handler of its own messages
  MailboxSize,   \* Actor::mailbox_size() of the router
  TimeoutLimit,  \* the number of idle seconds stopping() tolerates (10)
  Nil            \* no message, no worker

\* "Await" is router.await.  The other ops are what a worker does with the
\* question: answer it, answer it and stop, panic.
Ops == {"Await", "Answer", "Stop", "Panic"}
Calls == DOMAIN Script
Workers == 0..(MaxActors - 1)

\* The router's mailbox holds calls and the reports of spawn_with's tasks.
Messages == ({"call"} \X Calls) \cup ({"clean", "panic"} \X Workers)

ASSUME ScriptAssumption ==
  /\ \A c \in Calls : Script[c] \in Ops
  /\ OwnOps \subseteq {"Stop", "Panic"}

ASSUME BoundsAssumption ==
  /\ MaxActors \in Nat \ {0}
  /\ MaxRetry \in Nat
  /\ MailboxSize \in Nat \ {0}
  /\ TimeoutLimit \in Nat
  /\ Nil \notin Messages \cup Workers

VARIABLES
  max_actors,  \* Router::max_actors
  index,       \* RouterStrategy::RoundRobin::index
  pc,          \* where the router's task is
  mailbox,     \* the router's mailbox, oldest first
  cur,         \* the message process_message works on
  target,      \* the worker the router asks
  ask,         \* how far its question is
  shutdown,    \* the router's notifier holds Some(SupervisorMessage::Shutdown)
  timeouts,    \* timeout_counter of stopping()
  cause,       \* history: what made the router panic
  worker,      \* where each worker's tasks are
  failed,      \* history: the workers that have stopped or panicked by themselves
  status,      \* how far each call is
  load         \* history: how many questions each worker was handed

strategy == <<max_actors, index, load>>
loop == <<pc, mailbox, shutdown, timeouts>>
question == <<target, ask>>
pool == <<worker, failed>>
vars == <<strategy, loop, cur, question, cause, pool, status>>

\* The positions of the router, as in Supervision; cur is what it handles there.
Positions == {"starting", "running", "shutdown", "stopping", "checking", "draining", "over",
              "crashed"}

\* The positions of a worker.
\*   running    in its loop
\*   closing    out of it, its mailbox still open
\*   draining   in stop(), its mailbox closed
\*   reporting  done; its supervising task sends the report
\*   reported   the report is sent, the receiver still held
\*   panicked   it has panicked; the report is not sent yet
\*   gone       nothing is left of it
\* All but the last two hold a receiver of the router's notifier.
Alive == {"running", "closing", "draining", "reporting", "reported"}
WorkerStates == Alive \cup {"none", "panicked", "gone"}

\* The question of the router.
\*   reserving, pushing  async_ask waits for a slot of the worker's mailbox; owns it
\*   queued, handling    the worker has it in its mailbox; in its handler
\*   answered, lost      the worker has answered; has dropped the question
\*   late                written to a mailbox that is read no more
AskStates == {"none", "reserving", "pushing", "queued", "handling", "answered", "lost", "late"}

\* A call: refused by a closed mailbox; dropped without an answer; waiting, an
\* await the router has seen.
Statuses == {"unsent", "queued", "waiting", "answered", "dropped", "refused"}

Causes == {"none", "empty", "closed", "dropped", "dead", "timeout"}

TypeOK ==
  /\ max_actors \in 0..MaxActors
  /\ index \in Workers
  /\ pc \in Positions
  /\ mailbox \in Seq(Messages) /\ Len(mailbox) <= MailboxSize
  /\ cur \in Messages \cup {Nil}
  /\ target \in Workers \cup {Nil}
  /\ ask \in AskStates
  /\ shutdown \in BOOLEAN
  /\ timeouts \in 0..TimeoutLimit
  /\ cause \in Causes
  /\ worker \in [Workers -> WorkerStates]
  /\ failed \in SUBSET Workers
  /\ status \in [Calls -> Statuses]
  /\ load \in [Workers -> Nat]

-----------------------------------------------------------------------------

\* A slot of the router's mailbox is free.
Room == Len(mailbox) < MailboxSize

\* The router's mailbox refuses new messages; its context is dropped.
Closed == pc \in {"draining", "over", "crashed"}
NotifierDropped == pc \in {"over", "crashed"}

\* Mutant of IsClosed: a worker that is done no longer counts.
IsClosedWhenDone == \A w \in Workers : worker[w] \notin {"running", "closing", "draining"}

\* watch::Sender::is_closed
IsClosed == \A w \in Workers : worker[w] \notin Alive

-----------------------------------------------------------------------------
(* Callers.                                                                *)

\* async_ask, await on the router's address.
Send(c) ==
  /\ status[c] = "unsent"
  /\ \/ /\ ~Closed /\ Room
        /\ mailbox' = Append(mailbox, <<"call", c>>)
        /\ status' = [status EXCEPT ![c] = "queued"]
     \/ /\ Closed
        /\ status' = [status EXCEPT ![c] = "refused"]
        /\ UNCHANGED mailbox
  /\ UNCHANGED <<strategy, pc, shutdown, timeouts, cur, question, cause, pool>>

-----------------------------------------------------------------------------
(* The router.                                                             *)

\* on_start
Start ==
  /\ pc = "starting"
  /\ pc' = "running"
  /\ worker' = [w \in Workers |-> IF w < max_actors THEN "running" ELSE "none"]
  /\ UNCHANGED <<strategy, mailbox, shutdown, timeouts, cur, question, cause, failed, status>>

Receive ==
  /\ pc \in {"running", "stopping", "draining"}
  /\ cur = Nil
  /\ mailbox # <<>>
  /\ cur' = Head(mailbox)
  /\ mailbox' = Tail(mailbox)
  /\ UNCHANGED <<strategy, pc, shutdown, timeouts, question, cause, pool, status>>

\* process_message returns.
Return(stopped) ==
  /\ cur' = Nil
  /\ \/ pc = "running" /\ pc' = IF stopped THEN "shutdown" ELSE "running"
     \/ pc = "stopping" /\ pc' = "checking"
     \/ pc = "draining" /\ pc' = "draining"
  /\ UNCHANGED <<mailbox, shutdown, timeouts>>

\* The router's task panics: its context is dropped, with the calls it has.
Crash(why) ==
  /\ pc' = "crashed"
  /\ cause' = why
  /\ mailbox' = <<>>
  /\ cur' = Nil
  /\ target' = Nil /\ ask' = "none"
  /\ status' = [c \in Calls |-> IF status[c] \in {"queued", "waiting"} THEN "dropped"
                                ELSE status[c]]
  /\ UNCHANGED <<strategy, shutdown, timeouts, pool>>

\* subscribe_and_stop: the caller waits for the end of the router, in the place of
\* one that did before, whose channel is dropped.
HandleAwait ==
  /\ cur # Nil /\ cur[1] = "call"
  /\ Script[cur[2]] = "Await"
  /\ status' = [c \in Calls |-> IF c = cur[2] THEN "waiting"
                                ELSE IF status[c] = "waiting" THEN "dropped" ELSE status[c]]
  /\ Return(TRUE)
  /\ UNCHANGED <<strategy, question, cause, pool>>

\* handle(DeadActorResult): the worker stays in `actors`; a panic is todo!().
HandleDeadActor ==
  /\ cur # Nil /\ cur[1] \in {"clean", "panic"}
  /\ \/ /\ cur[1] = "clean"
        /\ Return(FALSE)
        /\ UNCHANGED <<strategy, question, cause, pool, status>>
     \/ /\ cur[1] = "panic"
        /\ Crash("dead")

\* Mutant of Route: the index is not moved on.
RouteSticky ==
  /\ cur # Nil /\ cur[1] = "call"
  /\ Script[cur[2]] # "Await" /\ ask = "none"
  /\ \/ max_actors = 0 /\ Crash("empty")
     \/ /\ max_actors > 0
        /\ target' = index
        /\ ask' = "reserving"
        /\ load' = [load EXCEPT ![index] = @ + 1]
        /\ UNCHANGED <<max_actors, index, loop, cur, cause, pool, status>>

\* handle(M): self.actors[index], which does not exist in a pool of none; the
\* index moves on before the answer is known.
Route ==
  /\ cur # Nil /\ cur[1] = "call"
  /\ Script[cur[2]] # "Await" /\ ask = "none"
  /\ \/ max_actors = 0 /\ Crash("empty")
     \/ /\ max_actors > 0
        /\ target' = index
        /\ ask' = "reserving"
        /\ index' = (index + 1) % max_actors
        /\ load' = [load EXCEPT ![index] = @ + 1]
        /\ UNCHANGED <<max_actors, loop, cur, cause, pool, status>>

\* Nothing but ask changes.
Ask(a) ==
  /\ ask' = a
  /\ UNCHANGED <<strategy, loop, cur, target, cause, pool, status>>

\* async_ask: a slot of the worker's mailbox, which has room for one question.
AskReserve == ask = "reserving" /\ worker[target] \in {"running", "closing"} /\ Ask("pushing")

\* The worker's mailbox is closed.  async_ask does not return Closed: it panics
\* when it looks for an Envelope where it had sent an AsyncResponse.  So the arm
\* that tries max_retry times is not reached, whatever MaxRetry is.
AskClosed ==
  /\ ask = "reserving"
  /\ worker[target] \notin {"running", "closing"}
  /\ Crash("closed")

\* The question is written to its slot.  A worker past its drain never sees it,
\* and its mailbox lives on in the report that waits for the router.
AskPush ==
  /\ ask = "pushing"
  /\ Ask(IF worker[target] \in {"running", "closing", "draining"} THEN "queued" ELSE "late")

\* Ok(result): the caller has its answer.
AskAnswered ==
  /\ ask = "answered"
  /\ ask' = "none" /\ target' = Nil
  /\ status' = [status EXCEPT ![cur[2]] = "answered"]
  /\ Return(FALSE)
  /\ UNCHANGED <<strategy, cause, pool>>

\* Mutant of AskDropped: the router waits on.
AskDroppedIgnored == ask = "lost" /\ UNCHANGED vars

\* Err(AskError::Dropped): todo!("Implement unexpected exit").
AskDropped == ask = "lost" /\ Crash("dropped")

\* stopping() finds no worker left and closes the mailbox; stop() follows.
NoWorkers ==
  /\ IsClosed
  /\ pc' = "draining"
  /\ UNCHANGED <<strategy, mailbox, shutdown, timeouts, cur, question, cause, pool, status>>

\* shutdown() and the beginning of stopping().
BeginShutdown ==
  /\ pc = "shutdown"
  /\ \/ NoWorkers
     \/ /\ ~IsClosed
        /\ shutdown' = TRUE
        /\ timeouts' = 0
        /\ pc' = "stopping"
        /\ UNCHANGED <<strategy, mailbox, cur, question, cause, pool, status>>

\* Mutant of StoppingTimeout: no limit.
StoppingTimeoutUnlimited ==
  /\ pc = "stopping" /\ cur = Nil
  /\ timeouts' = timeouts + 1
  /\ pc' = "checking"
  /\ UNCHANGED <<strategy, mailbox, shutdown, cur, question, cause, pool, status>>

\* A second without a message.
StoppingTimeout ==
  /\ pc = "stopping" /\ cur = Nil
  /\ \/ timeouts = TimeoutLimit /\ Crash("timeout")
     \/ /\ timeouts < TimeoutLimit
        /\ timeouts' = timeouts + 1
        /\ pc' = "checking"
        /\ UNCHANGED <<strategy, mailbox, shutdown, cur, question, cause, pool, status>>

\* The end of an iteration of stopping().
CheckWorkers ==
  /\ pc = "checking"
  /\ \/ NoWorkers
     \/ /\ ~IsClosed
        /\ pc' = "stopping"
        /\ UNCHANGED <<strategy, mailbox, shutdown, timeouts, cur, question, cause, pool,
                       status>>

\* stop(): the mailbox is empty, and run_actor answers the await.
End ==
  /\ pc = "draining"
  /\ cur = Nil /\ mailbox = <<>>
  /\ pc' = "over"
  /\ status' = [c \in Calls |-> IF status[c] = "waiting" THEN "answered" ELSE status[c]]
  /\ UNCHANGED <<strategy, mailbox, shutdown, timeouts, cur, question, cause, pool>>

-----------------------------------------------------------------------------
(* The workers.                                                            *)

\* The worker's question is at the state a.
HasQuestion(w, a) == target = w /\ ask = a

\* Only the worker's position changes.
Become(w, s) ==
  /\ worker' = [worker EXCEPT ![w] = s]
  /\ UNCHANGED <<strategy, loop, cur, question, cause, failed, status>>

\* The run loop, or stop(), takes the question out of the mailbox.
WorkerReceive(w) ==
  /\ worker[w] \in {"running", "draining"}
  /\ HasQuestion(w, "queued")
  /\ Ask("handling")

\* A handler of the worker stops it, or panics, with its question at the state a.
Fail(w, op, a) ==
  /\ worker' = [worker EXCEPT ![w] = IF op = "Panic" THEN "panicked"
                                    ELSE IF @ = "running" THEN "closing" ELSE @]
  /\ failed' = failed \cup {w}
  /\ ask' = a
  /\ UNCHANGED <<strategy, loop, cur, target, cause, status>>

\* The handler of the question, user code.
WorkerHandle(w) ==
  /\ HasQuestion(w, "handling")
  /\ \/ Script[cur[2]] = "Answer" /\ Ask("answered")
     \/ Script[cur[2]] = "Stop" /\ Fail(w, "Stop", "answered")
     \/ Script[cur[2]] = "Panic" /\ Fail(w, "Panic", "lost")

\* The worker waits in its select!.
Waits(w) == worker[w] = "running" /\ ~HasQuestion(w, "handling")

\* A message of the worker's own (to itself, from its tasks or children): a panic
\* drops the mailbox and the question in it.
WorkerOwnMessage(w) ==
  /\ Waits(w)
  /\ \/ "Stop" \in OwnOps /\ Fail(w, "Stop", ask)
     \/ "Panic" \in OwnOps /\ Fail(w, "Panic", IF HasQuestion(w, "queued") THEN "lost" ELSE ask)

\* Mutant of WorkerShutdown: the loop is left whatever the notifier holds.
WorkerLeaves(w) == Waits(w) /\ Become(w, "closing")

\* The select!: the router's Shutdown, or the end of the router.
WorkerShutdown(w) == Waits(w) /\ shutdown /\ Become(w, "closing")

\* Mutant of WorkerOrphaned: the loop goes on.
WorkerOrphanedContinues(w) == Waits(w) /\ NotifierDropped /\ ~shutdown /\ UNCHANGED vars

WorkerOrphaned(w) == Waits(w) /\ NotifierDropped /\ ~shutdown /\ Become(w, "panicked")

\* A worker has no children: its mailbox is closed at once ...
WorkerClose(w) == worker[w] = "closing" /\ Become(w, "draining")

\* ... and emptied.
WorkerDrained(w) ==
  /\ worker[w] = "draining"
  /\ ~HasQuestion(w, "queued") /\ ~HasQuestion(w, "handling")
  /\ Become(w, "reporting")

\* spawn_with: the report waits for room in the router's mailbox; one that has been
\* dropped refuses it (unreachable! after a clean end, ignored after a panic).
WorkerReport(w) ==
  /\ worker[w] \in {"reporting", "panicked"}
  /\ \/ /\ ~Closed /\ Room
        /\ mailbox' = Append(mailbox, <<IF worker[w] = "panicked" THEN "panic" ELSE "clean", w>>)
        /\ worker' = [worker EXCEPT ![w] = IF @ = "panicked" THEN "gone" ELSE "reported"]
        /\ UNCHANGED <<strategy, pc, shutdown, timeouts, cur, question, cause, failed, status>>
     \/ Closed /\ Become(w, "gone")

\* The receiver is dropped after the report.
WorkerGone(w) == worker[w] = "reported" /\ Become(w, "gone")

-----------------------------------------------------------------------------

Init ==
  /\ max_actors \in 0..MaxActors
  /\ index = 0
  /\ pc = "starting"
  /\ mailbox = <<>>
  /\ cur = Nil
  /\ target = Nil
  /\ ask = "none"
  /\ shutdown = FALSE
  /\ timeouts = 0
  /\ cause = "none"
  /\ worker = [w \in Workers |-> "none"]
  /\ failed = {}
  /\ status = [c \in Calls |-> "unsent"]
  /\ load = [w \in Workers |-> 0]

RouterStep ==
  \/ Start \/ Receive \/ HandleAwait \/ HandleDeadActor \/ Route
  \/ AskReserve \/ AskClosed \/ AskPush \/ AskAnswered \/ AskDropped
  \/ BeginShutdown \/ StoppingTimeout \/ CheckWorkers \/ End

WorkerStep(w) ==
  \/ WorkerReceive(w) \/ WorkerHandle(w) \/ WorkerShutdown(w) \/ WorkerOrphaned(w)
  \/ WorkerClose(w) \/ WorkerDrained(w) \/ WorkerReport(w) \/ WorkerGone(w)

Next ==
  \/ RouterStep
  \/ \E w \in Workers : WorkerStep(w) \/ WorkerOwnMessage(w)
  \/ \E c \in Calls : Send(c)

Spec == Init /\ [][Next]_vars

\* The runtime polls every task that is ready and fires its timers, and handlers
\* return.  Nobody has to call.
Fairness == WF_vars(RouterStep) /\ \A w \in Workers : WF_vars(WorkerStep(w))

FairSpec == Spec /\ Fairness

-----------------------------------------------------------------------------
(* Properties.                                                             *)

\* The router panics only for a reason its code gives: it has no workers, a worker
\* has stopped or panicked by itself, or, once the workers are told to stop, a
\* question is still to be asked or they take too long.  A question that is in a
\* worker's mailbox when the Shutdown comes does get its answer.
CrashExplained ==
  cause # "none" =>
    max_actors = 0 \/ failed # {} \/ (shutdown /\ cause \in {"closed", "timeout"})

\* round_robin_router: no worker is handed two questions more than another, dead
\* workers, which keep their turn, included.
FairShare ==
  \A v, w \in Workers : v < max_actors /\ w < max_actors => load[v] <= load[w] + 1

\* Who awaits the router gets it back only when its workers have ended, and their
\* reports and the calls it had accepted have been read.
PoolEmptyAtEnd ==
  pc = "over" => /\ \A w \in Workers : worker[w] \notin Alive
                 /\ cause = "none" /\ mailbox = <<>>
                 /\ \A c \in Calls : status[c] \notin {"queued", "waiting"}

\* The router has written its question to a worker past its drain.
Stuck == ask = "late"

\* Whoever got a question, or an await, into the mailbox gets an answer or learns
\* that there is none, however the workers and the router end.
CallEnds ==
  \A c \in Calls :
    status[c] \in {"queued", "waiting"} ~> (status[c] \in {"answered", "dropped"} \/ Stuck)

\* The pool ends with its router, stopped or crashed.
PoolEnds ==
  pc \in {"shutdown", "crashed"} ~>
    (Stuck \/ (pc \in {"over", "crashed"} /\ \A w \in Workers : worker[w] \in {"none", "gone"}))

\* "Resend the message and replace the failed actor with a new one": with retries
\* the router survives a worker whose pipe was closed.
ClosedWorkerReplaced == MaxRetry > 0 => cause # "closed"

=============================================================================
