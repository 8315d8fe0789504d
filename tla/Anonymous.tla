------------------------------ MODULE Anonymous ------------------------------
(***************************************************************************)
(* One actor, the callers that ask it questions, and the anonymous tasks   *)
(* its handlers spawn.  The actor runs in run_actor (Ctx::run) or, with a  *)
(* supervisor that may tell it to stop or panic, in run_supervised_actor.  *)
(*                                                                         *)
(* The three delivery services of src/src/envelope.rs (Envelope, Response, *)
(* AsyncResponse) are the ops of a request: what its handler does.  Tasks  *)
(* are Ctx::anonymous, Ctx::anonymous_task and the pair a question answered*)
(* with AskResult::Task needs: the worker of Ctx::anonymous_handle, and a  *)
(* relay (an anonymous_task) that passes its result to the asker.          *)
(*                                                                         *)
(* A task holds a receiver of the actor's notifier, as a child does, and a *)
(* permit of the semaphore max_anonymous_actors, if there was one when it  *)
(* was spawned.  The actor has no child actors here (see Supervision).     *)
(***************************************************************************)
EXTENDS Naturals, Sequences, FiniteSets

CONSTANTS
  Script,        \* the requests callers may make: id -> [op, wait, fails, worker]
  MailboxSize,   \* Actor::mailbox_size()
  MaxAnonymous,  \* Actor::max_anonymous_actors()
  TimeoutLimit,  \* the number of idle seconds stopping() tolerates (10)
  Supervised,    \* the loop is run_supervised_actor's
  Nil            \* no message

\* What the handler of a request does.
\*   Ask        answers with AskResult::Reply
\*   AskTask    answers with AskResult::Task
\*   AsyncAsk   its future is awaited inside the executor's loop
\*   AsyncAskBlocking  the same with Scheduler::Blocking
\*   Anon       (Handler) calls Ctx::anonymous
\*   AnonTask   (Handler) calls Ctx::anonymous_task
\*   Stop       (Handler) calls ActorContext::stop
\*   Abort      (Handler) calls ActorContext::abort
\*   Panic      (Ask) panics
\* `wait` tells send_async, ask and async_ask, which wait for room, from send,
\* try_ask and try_async_ask.  `fails` says that the future given to a task (of
\* an AskTask: to its worker) may panic.
AskOps == {"Ask", "AskTask", "AsyncAsk", "AsyncAskBlocking", "Panic"}
Ops == AskOps \cup {"Anon", "AnonTask", "Stop", "Abort"}

Requests == DOMAIN Script
Op(r) == Script[r].op
Asks == {r \in Requests : Op(r) \in AskOps}
Relays == {r \in Requests : Op(r) = "AskTask"}
Worker(r) == Script[r].worker
Workers == {Worker(r) : r \in Relays}

\* The request on whose behalf the task t runs.
Client(t) == CHOOSE r \in Requests : r = t \/ (r \in Relays /\ Worker(r) = t)

\* A task is named by the request whose handler spawns it; a worker has a name
\* of its own.
Tasks == {r \in Requests : Op(r) \in {"Anon", "AnonTask", "AskTask"}} \cup Workers

\* A mailbox holds requests, results of Ctx::anonymous and the notices
\* AnonymousTaskCancelled::{Success, Cancel, Panic}, which the actor ignores.
Message == [kind : {"request"}, id : Requests]
             \cup [kind : {"result", "notice"}, id : Tasks]
Request(r) == [kind |-> "request", id |-> r]
Result(t) == [kind |-> "result", id |-> t]
Notice(t) == [kind |-> "notice", id |-> t]

ASSUME ScriptAssumption ==
  /\ \A r \in Requests :
       Op(r) \in Ops /\ Script[r].wait \in BOOLEAN /\ Script[r].fails \in BOOLEAN
  /\ Workers \cap Requests = {}
  /\ \A r, s \in Relays : Worker(r) = Worker(s) => r = s
  /\ Nil \notin Message

ASSUME BoundsAssumption ==
  /\ MailboxSize \in Nat \ {0}
  /\ MaxAnonymous \in Nat
  /\ TimeoutLimit \in Nat
  /\ Supervised \in BOOLEAN

VARIABLES
  loop,      \* "run": the run loop; "stop": stopping(); "drain": stop()
  pc,        \* where in that loop the actor's task is
  state,     \* Ctx::state
  mailbox,   \* Ctx::mailbox, oldest first
  closed,    \* the mailbox refuses new messages
  aborted,   \* a handler has closed it with Ctx::abort
  cur,       \* the message process_message works on
  shutdown,  \* Ctx::notifier holds Some(SupervisorMessage::Shutdown)
  timeouts,  \* timeout_counter of stopping()
  overflow,  \* Ctx::overflow_anonymous_actors
  need,      \* the permits check_anonymous_actors waits for
  task,      \* how far each task is
  tracked,   \* the tasks spawned with a permit
  born,      \* the loop the actor was in when it spawned the task
  status     \* how far each request is

actor == <<loop, pc, state, closed, aborted, cur, shutdown, timeouts, overflow, need>>
tasks == <<task, tracked, born>>
vars == <<actor, mailbox, tasks, status>>

\* The positions of the actor's task.
\*   recv      at the recv or try_recv of its loop
\*   permits   at check_anonymous_actors, which comes after the recv of run_actor
\*             and before the select! of run_supervised_actor
\*   acquire   waits there for permits
\*   handle    in process_message
\*   await     in process_message, awaits the future of an AsyncAsk
\*   shutdown  at the start of shutdown()
\*   check     at the is_closed test of stopping()
\*   over      run_actor has returned
\*   crashed   the task has panicked
Positions == {"recv", "permits", "acquire", "handle", "await", "shutdown", "check",
              "over", "crashed"}

\* The states of a task.
\*   none       not spawned
\*   spawned    its future has not been polled yet
\*   working    in the select! of AnonymousActor::handle
\*   finished   the future is done, with a result
\*   cancelled  the notifier spoke first, or was gone
\*   panicked   the future panicked; the receiver is gone with it
\*   reporting  (anonymous_task) the receiver is dropped, the notice is not sent
\*   told       (anonymous) the report is sent, the receiver is still held
\*   detached   nobody waits for the future any more, it runs on
\*   over       nothing is left of it
TaskStates == {"none", "spawned", "working", "finished", "cancelled", "panicked",
               "reporting", "told", "detached", "over"}

\* The states of a request, as its caller sees them.
\*   unsent, reserved, queued   the caller has not tried yet; its send owns a slot of
\*             the mailbox; the message is there, or in process_message
\*   handled   its handler returned; for an AskTask, the relay has the sender
\*   replied   the asker has its answer
\*   dropped   the message, or the asker's channel, was dropped: an asker gets
\*             AskError::Dropped, or None
\*   refused   the send failed: SendError::Closed or Full, or None
\*   panicked  the caller panicked in the error path of ask or async_ask
\*   late      it was written to the mailbox after stop() had emptied it
Statuses == {"unsent", "reserved", "queued", "handled", "replied", "dropped",
             "refused", "panicked", "late"}

TypeOK ==
  /\ loop \in {"run", "stop", "drain"}
  /\ pc \in Positions
  /\ state \in {"Running", "Stopping", "Stopped"}
  /\ mailbox \in Seq(Message)
  /\ closed \in BOOLEAN
  /\ aborted \in BOOLEAN
  /\ cur \in Message \cup {Nil}
  /\ shutdown \in BOOLEAN
  /\ timeouts \in 0..TimeoutLimit
  /\ overflow \in Nat
  /\ need \in 0..MaxAnonymous
  /\ task \in [Tasks -> TaskStates]
  /\ tracked \in SUBSET Tasks
  /\ born \in [Tasks -> {"none", "run", "stop", "drain"}]
  /\ status \in [Requests -> Statuses]

-----------------------------------------------------------------------------

\* Mutant of Receivers: the receiver is dropped as soon as the future is done.
RunningReceivers == {t \in Tasks : task[t] \in {"spawned", "working", "detached"}}

\* The tasks whose receiver of the notifier is still there.
Receivers == {t \in Tasks : task[t] \in {"spawned", "working", "finished",
                                         "cancelled", "told", "detached"}}

\* watch::Sender::is_closed
IsClosed == Receivers = {}

\* Mutant of HoldsPermit: the permit is not given back.
KeepsPermit(t) == t \in tracked

\* The wrapping task keeps the permit to its end; the worker of an
\* anonymous_handle has no wrapper and keeps it while its future runs.
HoldsPermit(t) ==
  /\ t \in tracked
  /\ task[t] \in IF t \in Workers
                 THEN {"spawned", "working", "detached"}
                 ELSE {"spawned", "working", "finished", "cancelled", "panicked",
                       "reporting", "told"}

\* Semaphore::available_permits
Available == MaxAnonymous - Cardinality({t \in Tasks : HoldsPermit(t)})

\* The slots of the mailbox that are taken, by a message or by a send.
SlotsUsed == Len(mailbox) + Cardinality({r \in Requests : status[r] = "reserved"})

HasRoom == SlotsUsed < MailboxSize

\* The context, and with it the notifier, is dropped.
NotifierDropped == pc \in {"over", "crashed"}

-----------------------------------------------------------------------------
(* Callers.                                                                *)

Reserve(r) ==
  /\ status[r] = "unsent"
  /\ ~closed
  /\ HasRoom
  /\ status' = [status EXCEPT ![r] = "reserved"]
  /\ UNCHANGED <<actor, mailbox, tasks>>

Push(r) ==
  /\ status[r] = "reserved"
  /\ IF NotifierDropped
     THEN status' = [status EXCEPT ![r] = "late"] /\ UNCHANGED mailbox
     ELSE /\ status' = [status EXCEPT ![r] = "queued"]
          /\ mailbox' = Append(mailbox, Request(r))
  /\ UNCHANGED <<actor, tasks>>

\* The send fails.  send, send_async, try_send, try_ask and try_async_ask give
\* the message back or drop it; ask and async_ask look for an Envelope in what
\* the channel gives back, which is a Response, and unwrap None.
Fail(r) ==
  /\ status[r] = "unsent"
  /\ \/ closed
     \/ ~Script[r].wait /\ ~HasRoom
  /\ status' = [status EXCEPT ![r] =
                  IF r \in Asks /\ Script[r].wait THEN "panicked" ELSE "refused"]
  /\ UNCHANGED <<actor, mailbox, tasks>>

-----------------------------------------------------------------------------
(* The executor.                                                           *)

Receive ==
  /\ pc = "recv"
  /\ mailbox # <<>>
  /\ cur' = Head(mailbox)
  /\ mailbox' = Tail(mailbox)
  /\ pc' = IF loop = "run" /\ ~Supervised THEN "permits" ELSE "handle"
  /\ UNCHANGED <<loop, state, closed, aborted, shutdown, timeouts, overflow, need, tasks,
                 status>>

\* What follows check_anonymous_actors.
Checked == IF Supervised THEN "recv" ELSE "handle"

\* check_anonymous_actors: with tasks that got no permit, wait for as many of
\* the ones that did, or for all of those.  (The branch for no permit left and
\* the branch for some left compute the same numbers.)
CheckAnonymousActors ==
  LET running == MaxAnonymous - Available IN
  /\ pc = "permits"
  /\ IF overflow = 0
     THEN pc' = Checked /\ UNCHANGED need
     ELSE pc' = "acquire" /\ need' = IF overflow < running THEN overflow ELSE running
  /\ UNCHANGED <<loop, state, closed, aborted, cur, shutdown, timeouts, overflow, mailbox,
                 tasks, status>>

\* Mutant of Acquire: what is subtracted is the limit, not what was waited for.
AcquireLimit ==
  /\ pc = "acquire"
  /\ Available >= need
  /\ overflow' = overflow - MaxAnonymous
  /\ need' = 0
  /\ pc' = Checked
  /\ UNCHANGED <<loop, state, closed, aborted, cur, shutdown, timeouts, mailbox, tasks,
                 status>>

\* acquire_many has its permits, which are given back at once.
Acquire ==
  /\ pc = "acquire"
  /\ Available >= need
  /\ overflow' = overflow - need
  /\ need' = 0
  /\ pc' = Checked
  /\ UNCHANGED <<loop, state, closed, aborted, cur, shutdown, timeouts, mailbox, tasks,
                 status>>

\* process_message returns with the context in state st.
Return(st) ==
  /\ pc' = CASE loop = "run" /\ st # "Running" -> "shutdown"
             [] loop = "run" /\ st = "Running" -> IF Supervised THEN "permits" ELSE "recv"
             [] loop = "stop" -> "check"
             [] loop = "drain" -> "recv"
  /\ state' = st
  /\ cur' = Nil
  /\ UNCHANGED <<loop, shutdown, timeouts, need, mailbox>>

Serves(op) ==
  /\ pc = "handle"
  /\ cur.kind = "request"
  /\ Op(cur.id) = op

Becomes(s) == status' = [status EXCEPT ![cur.id] = s]

\* The tasks in the sequence ts are spawned in that order: each takes a permit
\* (acquire_anonymous_permit) while there is one, and counts as overflow after.
SpawnTasks(ts) ==
  LET n == IF Available < Len(ts) THEN Available ELSE Len(ts) IN
  /\ task' = [t \in Tasks |-> IF \E i \in DOMAIN ts : ts[i] = t THEN "spawned" ELSE task[t]]
  /\ born' = [t \in Tasks |-> IF \E i \in DOMAIN ts : ts[i] = t THEN loop ELSE born[t]]
  /\ tracked' = tracked \cup {ts[i] : i \in 1..n}
  /\ overflow' = overflow + Len(ts) - n

HandleAsk ==
  /\ Serves("Ask")
  /\ Becomes("replied")
  /\ Return(state)
  /\ UNCHANGED <<closed, aborted, overflow, tasks>>

HandleAskTask ==
  /\ Serves("AskTask")
  /\ SpawnTasks(<<Worker(cur.id), cur.id>>)
  /\ Becomes("handled")
  /\ Return(state)
  /\ UNCHANGED <<closed, aborted>>

HandleAnonymous ==
  /\ Serves("Anon") \/ Serves("AnonTask")
  /\ SpawnTasks(<<cur.id>>)
  /\ Becomes("handled")
  /\ Return(state)
  /\ UNCHANGED <<closed, aborted>>

\* Mutant of HandleAsyncAsk: the future is dropped unpolled on this scheduler too.
HandleAsyncAskUnpolled ==
  /\ Serves("AsyncAsk")
  /\ Becomes("dropped")
  /\ Return(state)
  /\ UNCHANGED <<closed, aborted, overflow, tasks>>

\* The future is awaited here, in the loop.  Its other branch, a change of the
\* notifier, cannot happen: only this task sends on it.
HandleAsyncAsk ==
  /\ Serves("AsyncAsk")
  /\ pc' = "await"
  /\ UNCHANGED <<loop, state, closed, aborted, cur, shutdown, timeouts, overflow, need,
                 mailbox, tasks, status>>

FinishAsyncAsk ==
  /\ pc = "await"
  /\ Becomes("replied")
  /\ Return(state)
  /\ UNCHANGED <<closed, aborted, overflow, tasks>>

\* spawn_blocking calls send and drops the future it returns: the asker's
\* channel goes with it.
HandleAsyncAskBlocking ==
  /\ Serves("AsyncAskBlocking")
  /\ Becomes("dropped")
  /\ Return(state)
  /\ UNCHANGED <<closed, aborted, overflow, tasks>>

HandleStop ==
  /\ Serves("Stop")
  /\ Becomes("handled")
  /\ Return(IF state = "Running" THEN "Stopping" ELSE state)
  /\ UNCHANGED <<closed, aborted, overflow, tasks>>

\* The mailbox is closed, the tasks are not waited for here: that is left to
\* shutdown(), which sets the state back to Stopping.
HandleAbort ==
  /\ Serves("Abort")
  /\ Becomes("handled")
  /\ IF state \in {"Running", "Stopping"}
     THEN closed' = TRUE /\ aborted' = TRUE /\ Return("Stopped")
     ELSE Return(state) /\ UNCHANGED <<closed, aborted>>
  /\ UNCHANGED <<overflow, tasks>>

\* The result of an anonymous task, for the actor's Handler, or a notice, which it
\* ignores.
HandleReport ==
  /\ pc = "handle"
  /\ cur.kind # "request"
  /\ Return(state)
  /\ UNCHANGED <<closed, aborted, overflow, tasks, status>>

\* The task panics; the mailbox, the questions in it and the notifier go.
Crash ==
  /\ pc' = "crashed"
  /\ closed' = TRUE
  /\ mailbox' = <<>>
  /\ cur' = Nil
  /\ status' = [r \in Requests |-> IF status[r] = "queued" THEN "dropped" ELSE status[r]]
  /\ UNCHANGED <<loop, state, aborted, shutdown, timeouts, overflow, need, tasks>>

HandlePanic == Serves("Panic") /\ Crash

\* handle_supervised_message: the supervisor's Shutdown ends the loop, its death is
\* a panic.  Neither is heard at check_anonymous_actors or in process_message.
SupervisorSpeaks ==
  /\ Supervised
  /\ pc = "recv" /\ loop = "run"
  /\ \/ /\ pc' = "shutdown"
        /\ UNCHANGED <<loop, state, closed, aborted, cur, shutdown, timeouts, overflow,
                       need, mailbox, tasks, status>>
     \/ Crash

\* Mutant of NoReceivers: the receivers are not looked for.
AssumeNoReceivers ==
  /\ closed' = TRUE
  /\ state' = "Stopped"
  /\ loop' = "drain"
  /\ pc' = "recv"
  /\ UNCHANGED <<aborted, cur, shutdown, timeouts, overflow, need, mailbox, tasks,
                 status>>

\* All receivers are gone: close the mailbox, go on to stop().
NoReceivers ==
  /\ IsClosed
  /\ closed' = TRUE
  /\ state' = "Stopped"
  /\ loop' = "drain"
  /\ pc' = "recv"
  /\ UNCHANGED <<aborted, cur, shutdown, timeouts, overflow, need, mailbox, tasks,
                 status>>

\* shutdown() and the beginning of stopping().
BeginShutdown ==
  /\ pc = "shutdown"
  /\ \/ NoReceivers
     \/ /\ ~IsClosed
        /\ state' = "Stopping"
        /\ shutdown' = TRUE
        /\ timeouts' = 0
        /\ loop' = "stop"
        /\ pc' = "recv"
        /\ UNCHANGED <<closed, aborted, cur, overflow, need, mailbox, tasks, status>>

\* recv has None: the mailbox is closed (by abort) and empty.
StoppingMailboxClosed ==
  /\ pc = "recv" /\ loop = "stop"
  /\ closed /\ SlotsUsed = 0
  /\ pc' = "check"
  /\ UNCHANGED <<loop, state, closed, aborted, cur, shutdown, timeouts, overflow, need,
                 mailbox, tasks, status>>

\* A second without a message; a recv that has None is there first.
StoppingTimeout ==
  /\ pc = "recv" /\ loop = "stop"
  /\ ~(closed /\ SlotsUsed = 0)
  /\ IF timeouts = TimeoutLimit
     THEN Crash
     ELSE /\ timeouts' = timeouts + 1
          /\ pc' = "check"
          /\ UNCHANGED <<loop, state, closed, aborted, cur, shutdown, overflow, need,
                         mailbox, tasks, status>>

CheckReceivers ==
  /\ pc = "check"
  /\ \/ NoReceivers
     \/ /\ ~IsClosed
        /\ pc' = "recv"
        /\ UNCHANGED <<loop, state, closed, aborted, cur, shutdown, timeouts, overflow,
                       need, mailbox, tasks, status>>

End ==
  /\ pc = "recv" /\ loop = "drain"
  /\ mailbox = <<>>
  /\ pc' = "over"
  /\ UNCHANGED <<loop, state, closed, aborted, cur, shutdown, timeouts, overflow, need,
                 mailbox, tasks, status>>

-----------------------------------------------------------------------------
(* Tasks: AnonymousActor::handle and what is wrapped around it.            *)

\* A relay that ends without its worker drops the JoinHandle.
Abandoned(t) ==
  IF task[t] \in {"spawned", "working"} THEN "detached" ELSE "over"

\* The future of t is dropped before it is done; a relay's holds the worker's
\* handle and the asker's channel.
Cancel(t) ==
  IF t \in Relays
  THEN /\ task' = [task EXCEPT ![t] = "cancelled",
                               ![Worker(t)] = Abandoned(Worker(t))]
       /\ status' = [status EXCEPT ![t] = "dropped"]
  ELSE task' = [task EXCEPT ![t] = "cancelled"] /\ UNCHANGED status

\* Mutant of StartTask: the test of borrow_and_update is inverted.
StartTaskInverted(t) ==
  /\ task[t] = "spawned"
  /\ IF ~shutdown
     THEN Cancel(t)
     ELSE task' = [task EXCEPT ![t] = "working"] /\ UNCHANGED status
  /\ UNCHANGED <<actor, mailbox, tracked, born>>

\* The first poll: a Shutdown already sent cancels the task at once.
StartTask(t) ==
  /\ task[t] = "spawned"
  /\ IF shutdown
     THEN Cancel(t)
     ELSE task' = [task EXCEPT ![t] = "working"] /\ UNCHANGED status
  /\ UNCHANGED <<actor, mailbox, tracked, born>>

\* The select!: the notifier speaks, or is dropped, before the future is done.
CancelTask(t) ==
  /\ task[t] = "working"
  /\ shutdown \/ NotifierDropped
  /\ Cancel(t)
  /\ UNCHANGED <<actor, mailbox, tracked, born>>

\* The select!: the future is done; a relay's has actions of its own.
FinishTask(t) ==
  /\ t \notin Relays
  /\ task[t] = "working"
  /\ \E s \in {"finished"} \cup (IF Script[Client(t)].fails THEN {"panicked"} ELSE {}) :
       task' = [task EXCEPT ![t] = s]
  /\ UNCHANGED <<actor, mailbox, tracked, born, status>>

\* The relay's future: the worker's result goes to the asker ...
RelayReply(t) ==
  /\ t \in Relays
  /\ task[t] = "working"
  /\ task[Worker(t)] = "finished"
  /\ task' = [task EXCEPT ![t] = "finished", ![Worker(t)] = "over"]
  /\ status' = [status EXCEPT ![t] = "replied"]
  /\ UNCHANGED <<actor, mailbox, tracked, born>>

\* A message for the actor from a task: once there is room, or in vain.
SendFrom(m) ==
  \/ ~closed /\ HasRoom /\ mailbox' = Append(mailbox, m)
  \/ closed /\ UNCHANGED mailbox

\* ... or the actor is told that there is none.
RelayCancel(t) ==
  /\ t \in Relays
  /\ task[t] = "working"
  /\ task[Worker(t)] \in {"cancelled", "panicked"}
  /\ SendFrom(Notice(t))
  /\ task' = [task EXCEPT ![t] = "finished", ![Worker(t)] = "over"]
  /\ status' = [status EXCEPT ![t] = "dropped"]
  /\ UNCHANGED <<actor, tracked, born>>

\* Ctx::anonymous: send what came of the future.  The receiver, part of what
\* the inner task returned, is dropped after that; a panic has dropped it.
ReportAnonymous(t) ==
  /\ t \in Requests /\ Op(t) = "Anon"
  /\ task[t] \in {"finished", "cancelled", "panicked"}
  /\ SendFrom(IF task[t] = "finished" THEN Result(t) ELSE Notice(t))
  /\ task' = [task EXCEPT ![t] = IF @ = "panicked" THEN "over" ELSE "told"]
  /\ UNCHANGED <<actor, tracked, born, status>>

DropReceiver(t) ==
  /\ task[t] = "told"
  /\ task' = [task EXCEPT ![t] = "over"]
  /\ UNCHANGED <<actor, mailbox, tracked, born, status>>

\* Ctx::anonymous_task: what came of the future is dropped, receiver included,
ForgetResult(t) ==
  /\ t \in Requests /\ Op(t) \in {"AnonTask", "AskTask"}
  /\ task[t] \in {"finished", "cancelled", "panicked"}
  /\ task' = [task EXCEPT ![t] = "reporting"]
  /\ UNCHANGED <<actor, mailbox, tracked, born, status>>

\* and then Success is sent.
ReportTask(t) ==
  /\ task[t] = "reporting"
  /\ SendFrom(Notice(t))
  /\ task' = [task EXCEPT ![t] = "over"]
  /\ UNCHANGED <<actor, tracked, born, status>>

\* AnonymousRef::halt aborts the wrapping task, which gives its permit back.  The
\* inner task, unless it is not yet spawned, is not aborted but detached.
Halt(t) ==
  /\ t \in Requests /\ Op(t) \in {"Anon", "AnonTask"}
  /\ task[t] \notin {"none", "detached", "over"}
  /\ \E s \in {Abandoned(t)} \cup (IF task[t] = "spawned" THEN {"over"} ELSE {}) :
       task' = [task EXCEPT ![t] = s]
  /\ UNCHANGED <<actor, mailbox, tracked, born, status>>

\* A detached future ends, or is cancelled.
EndDetached(t) ==
  /\ task[t] = "detached"
  /\ task' = [task EXCEPT ![t] = "over"]
  /\ UNCHANGED <<actor, mailbox, tracked, born, status>>

-----------------------------------------------------------------------------

Init ==
  /\ loop = "run"
  /\ pc = IF Supervised THEN "permits" ELSE "recv"
  /\ state = "Running"
  /\ mailbox = <<>>
  /\ closed = FALSE
  /\ aborted = FALSE
  /\ cur = Nil
  /\ shutdown = FALSE
  /\ timeouts = 0
  /\ overflow = 0
  /\ need = 0
  /\ task = [t \in Tasks |-> "none"]
  /\ tracked = {}
  /\ born = [t \in Tasks |-> "none"]
  /\ status = [r \in Requests |-> "unsent"]

ProcessMessage ==
  \/ HandleAsk \/ HandleAskTask \/ HandleAnonymous \/ HandleAsyncAsk \/ FinishAsyncAsk
  \/ HandleAsyncAskBlocking \/ HandleStop \/ HandleAbort \/ HandleReport \/ HandlePanic

ActorStep ==
  \/ Receive \/ CheckAnonymousActors \/ Acquire \/ ProcessMessage
  \/ BeginShutdown \/ StoppingMailboxClosed \/ StoppingTimeout \/ CheckReceivers \/ End

TaskStep(t) ==
  \/ StartTask(t) \/ FinishTask(t) \/ CancelTask(t)
  \/ RelayReply(t) \/ RelayCancel(t) \/ ReportAnonymous(t) \/ DropReceiver(t)
  \/ ForgetResult(t) \/ ReportTask(t) \/ EndDetached(t)

CallerStep(r) == Reserve(r) \/ Push(r) \/ Fail(r)

Next ==
  \/ ActorStep \/ SupervisorSpeaks
  \/ \E t \in Tasks : TaskStep(t) \/ Halt(t)
  \/ \E r \in Requests : CallerStep(r)

Spec == Init /\ [][Next]_vars

\* The runtime polls every task that is ready; futures given to tasks, and those
\* of AsyncAsk, come to an end; a send that owns a slot finishes.  Callers need
\* not send anything, and nobody need halt a task.
Fairness ==
  /\ WF_vars(ActorStep)
  /\ \A t \in Tasks : WF_vars(TaskStep(t))
  /\ \A r \in Requests : WF_vars(Push(r))

FairSpec == Spec /\ Fairness

-----------------------------------------------------------------------------
(* Properties.                                                             *)

\* Ctx::anonymous, "when the task completes, it returns the result back to the
\* actor": a task spawned before stop() began finds the mailbox open when its
\* future is done, however late, unless the actor panicked or a handler called
\* abort, which "results in children not being about to message their parent";
\* and what the task put there is read before the actor ends.
ResultsReachActor ==
  \A t \in Tasks :
    /\ task[t] = "finished" /\ Client(t) = t /\ Op(t) = "Anon" /\ born[t] # "drain"
         => ~closed \/ aborted \/ pc = "crashed"
    /\ pc = "over" => Result(t) \notin {mailbox[i] : i \in DOMAIN mailbox}

\* stopping() waits "until we have no more children left": when the actor has
\* ended, no future of a task spawned before stop() began still runs, the halted
\* ones and the workers a relay left behind included.
TasksEndFirst ==
  pc = "over" =>
    \A t \in Tasks : born[t] \in {"run", "stop"} => task[t] \in {"panicked", "reporting", "over"}

\* A question accepted by an actor that neither stops nor panics is answered,
\* unless its own future panicked (or, AsyncAsk on the Blocking scheduler, was
\* never run).
AnsweredUnlessStopping ==
  \A r \in Asks :
    status[r] = "dropped" =>
      \/ loop # "run" \/ pc = "crashed"
      \/ Op(r) = "AsyncAskBlocking"
      \/ r \in Relays /\ Script[r].fails

\* The task t has a report to make before its permit is given back.
OwesReport(t) ==
  /\ HoldsPermit(t)
  /\ \/ task[t] \in {"finished", "cancelled", "panicked", "reporting"}
     \/ t \in Relays /\ task[t] = "working" /\ task[Worker(t)] \in {"cancelled", "panicked"}

\* The actor waits in check_anonymous_actors for permits, one of which is held by a
\* task that waits for room in the mailbox.
Clogged == pc = "acquire" /\ ~HasRoom /\ \E t \in Tasks : OwesReport(t)

\* A question comes to an end: once it is in the mailbox its asker gets an answer
\* or learns that there is none, whatever is stopped, aborted, halted or panics,
\* unless the actor and a task come to wait for each other for ever, as
\* ActorContinues shows they may.
AskEnds ==
  \/ \A r \in Asks :
       status[r] \in {"queued", "handled"} ~> status[r] \in {"replied", "dropped"}
  \/ <>[]Clogged

-----------------------------------------------------------------------------
(* What the code says of itself and does not keep.                         *)

\* Actor::max_anonymous_actors: "If the maximum amount of anonymous actors are
\* executing, then pause the actor until there is space to spawn another."  With
\* more tasks than the maximum running, the actor takes no request in hand.
PausedAtLimit ==
  pc = "handle" /\ loop = "run" /\ cur.kind = "request" =>
    Cardinality({t \in Tasks : task[t] \in {"spawned", "working"}}) <= MaxAnonymous

\* check_anonymous_actors: "wait for some anonymous tasks to complete before
\* continuing to execute the parent actor".
ActorContinues == pc = "acquire" ~> pc # "acquire"

=============================================================================
