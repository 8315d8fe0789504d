# A TLA+ model of tokactor

tokactor is an actor library on top of tokio. An actor is a task with a mailbox;
it may supervise child actors and spawn anonymous tasks; a `World` connects TCP
sockets to actors. This directory models the parts of the library that run
concurrently, checks them with TLC on small instances and proves the main safety
properties with TLAPS for every instance. Paths are relative to the directory
that holds both the repository (`src/`) and this one (`tla/`).

## 1. Inventory

| Component | Source | State | Operations |
|---|---|---|---|
| Executor | `src/src/executor.rs` | the position in its loop, `timeout_counter` | `run_actor`, `run_supervised_actor`, `handle_supervised_message`, `process_message`, `shutdown`, `stopping`, `stop`, `check_anonymous_actors` |
| Context | `src/src/context.rs` | `mailbox`, `notifier`, `state`, `max_anonymous_actors`, `overflow_anonymous_actors`, `into_future_sender` | `run`, `spawn`, `spawn_with`, `stop`, `abort`, `subscribe_and_stop`, `subscribe_and_wait`, `anonymous`, `anonymous_task`, `anonymous_handle` |
| Address | `src/src/address.rs` | none | `try_send`, `send`, `send_async`, `try_ask`, `ask`, `try_async_ask`, `async_ask`, `await`, `wait_for_completion`, `AnonymousRef::halt` |
| Envelopes | `src/src/envelope.rs`, `generic.rs`, `actor.rs` | the message, the asker's channel | `send` of Envelope, ConfidentialEnvelope, Response, AsyncResponse |
| World | `src/src/world/mod.rs` | the inputs, the broadcast channel | `on_input`, `block_until_completion` |
| TCP | `src/src/io/mod.rs`, `io/tcp.rs`, `io/read/exact.rs` | two request channels per connection | `accept`, `shutdown`, `Reader::read`, `Writer::write`, `create_reader_actor`, `create_writer_actor` |
| Relays | `src/src/single/`, the `child_with_custom_*_rx` loops of `executor.rs` | one typed channel each, the nested tuple of references | `CtxBuilder::sender`, `asker`, `ask_asyncer`, `spawn`, `run`; `send`, `try_send`, `send_timeout` and `ask` of the references; `Tuple::flatten` |
| Router | `src/src/utils/router.rs` | the workers, the round-robin index | `on_start`, DeadActor handler, AsyncAsk handler |
| Workflow, function actors, WorldBuilder, fs | `src/src/utils/workflow/`, `anonymous.rs`, `world/builder.rs`, `io/fs.rs` | none that tasks share | composition and configuration |

**How they interact.** Callers put boxed messages into an actor's bounded mpsc
channel. A supervisor and its children share a watch channel, the *notifier*: the
supervisor writes `Shutdown` to it once, and reads from it only whether any
receiver is left (`is_closed`), which it takes to mean "I have no children". Child
actors, anonymous tasks, relays and the socket tasks of a World all hold such a
receiver, and each drops it at a different point of its own end. A second task per
child, started by `spawn_with`, waits for the child's task and sends its death to
the supervisor's mailbox. A relay is a child without such a task: it carries messages
from a channel of its own to the actor's mailbox. A router is an actor whose children
are the workers it asks. Everything else is oneshot channels for answers, and a
semaphore that counts anonymous tasks.

**What is hard.** The end of an actor: the supervisor closes its mailbox when no
receiver is left, the children drop their receivers around the moment they send to
that mailbox, callers await the supervisor or its children meanwhile, and any of
them may panic. Then permits: the actor waits for tasks that wait for the actor's
mailbox. Then a connection: three request/answer hand-overs between four tasks, two
of which listen to the notifier and may leave with a request in their hands. Then a
relay that waits for room in the mailbox of an actor that waits for the relay, and a
router that asks a worker it has told to stop. The hazards are listed at their lines in `PROJECT.json`.

**What makes each part correct.** Supervision: children end before their
supervisor, every clean death is handled, what was accepted is processed, whoever
awaits an actor hears of its end, and stopping terminates. Anonymous tasks: results
reach the actor, none outlives it, questions are answered or dropped visibly. World:
Ctrl+C ends it, sockets are released first, an answer can be written, a
disconnected peer or a failed input leaves nothing behind. Relays: behind a reference
calls are handled once and in order, and only an ending actor loses them. Router: the
load is shared, callers hear of the end, and the router has a reason when it panics.

## 2. Modules

| Module | Models | Composes |
|---|---|---|
| `ActorTree` | what supervision promises: who may start, stop, crash and be handed on, and when | |
| `Supervision` | executor, context, supervising task, callers, for a tree of actors | refines `ActorTree` |
| `SupervisionProofs` | theorems about `Supervision`: types, receivers, the order in which actors end | |
| `DeliveryProofs` | theorems about its messages, reports and callers | extends `SupervisionProofs` |
| `TreeProofs` | `Supervision` implements `ActorTree` | extends `DeliveryProofs` |
| `Anonymous` | one root actor, the three delivery services, its anonymous tasks and their permits | |
| `AnonymousProofs` | theorems about `Anonymous` | |
| `World` | TCP inputs, their connections and the four tasks of each, Ctrl+C | |
| `WorldProofs` | theorems about `World` | |
| `TypedReference` | what a typed reference promises its users | |
| `Relay` | `CtxBuilder`, the references, the relays and their actor | refines `TypedReference` |
| `RelayProofs` | theorems about `Relay` | |
| `ReferenceProofs` | `Relay` implements `TypedReference` | extends `RelayProofs` |
| `Router` | the router, its workers and its callers | |
| `RouterProofs` | theorems about `Router` | |
| `MCSupervision`, `MCAnonymous`, `MCWorld`, `MCRelay`, `MCRouter` | the small instances | |

### Supervision

`pc[a]` is the position of actor *a*'s task, from the run loop through `shutdown()`,
`stopping()` and `stop()` to the supervising task of `spawn_with`; the other
variables are the fields of its `Ctx` (`state`, `mailbox`, `closed`, `shutdown` for
the notifier's value, `subscriber` for `into_future_sender`), its own receiver
(`rx`: absent, or present with the notifier's value seen or not) and the status of
every request. The tree and the requests are constants: `Parent` gives each actor's
supervisor, `Script` what callers may ask for. A request's op is what its handler
does with the context, as in the `TestMessage` enum of the repository's tests.

- An await point of the code is a position; code between two of them is one action.
  The two exceptions are made on purpose: `BeginShutdown` and `BeginStopping` are
  apart so that other tasks' steps fall between `on_stopping` and `is_closed`.
- A send is two steps, because tokio's is: a slot is reserved, then written to.
  `close()` stops new reservations, not the writes under way.
- The reports of `spawn_with` are sent in one step: until the report is written, the
  sender's receiver keeps the supervisor from closing its mailbox, and after a panic
  or an abort a late report and a refused one are both lost.
- A panic is `Unwind`: everything the task owns is dropped. A child whose supervisor
  unwound finds the notifier gone and panics too (`SupervisorDied`).
- Left out: the lifecycle callbacks (the default ones are empty), a `JoinError` that
  is a cancellation (only the runtime's own end produces one), tracing.

### Anonymous

The same executor for one actor without children, as a root (`run_actor`) or, with
`Supervised`, under a supervisor (`run_supervised_actor`), with what `Supervision` leaves
out: the answer channels, `AskResult::Task` (a worker and a relay task), `AsyncAsk` on both
schedulers, the permits and `check_anonymous_actors`. A task's state tells where its
receiver and its permit are. `check_anonymous_actors` comes before the select! of a
supervised actor, which is deaf to its supervisor while it waits for permits. A handler may
stop the actor or abort it (`aborted`): then its mailbox is closed with tasks still running,
their reports are refused, and `stopping()` goes round without its timeout
(`StoppingMailboxClosed`). `born` remembers in which loop of the actor a task was spawned: the property about the end of an actor differs for tasks spawned while
`stop()` drains the mailbox, for `anonymous` does not look at the actor's state.

The select! of `AsyncResponse` also has a branch for a change of the notifier; it
cannot fire, for only the awaiting task itself sends on it.

### World

`Inputs` are the components given to `on_input`, each with a listener of its own and the
connections `Of` assigns to it. A listener's executor is never run: it lends its context to
the reader and writer tasks and its `shutdown()` to the input. An accept error is unwrapped
and ends the input's task with connections open (`AcceptError`), while the others go on;
`block_until_completion` returns (`Exit`) when every input has ended. Who waits for what is
kept in the position of the one who asked: `conn[c]` for reads and questions, `actor[c]`
for writes. The connection's actor is reduced to what the connection sees of it: it serves
one request at a time, may write to the socket, stop, abort, panic or never return, and, for
the connections in `Failing`, end by itself. `stopped` is that it has been told to stop or
abort, `closed` that its mailbox is closed, which comes before its end: in between
`connection.await` already returns `MailboxClosed`. That await is three steps
(`AwaitReserve`, `AwaitPush`, `AwaitActor`), since the mailbox may close, or the actor end,
between any two of them. The data is a number of pieces; the user's frame type decides
whether a piece completes a payload, or panics in the reader's task, as the `unwrap` of
`try_read` may (`ReadPanic`).

### Relay

`senders` is the nested tuple of `CtxBuilder`, whose `flatten` decides which relay the
k-th reference of a user leads to. `relay[r]` is the position of a relay's task in its loop,
`channel[r]` what is between the reference and the relay, `held[r]` what the relay has
taken and not finished with. The actor's executor is that of `Supervision` with relays
for children; its own supervisor is a Shutdown, or a death that makes it panic, which may
come at any time (`SupervisorSpeaks`). Sends on
both hops are two steps. A builder may be dropped without being run, and users may drop
their references. The three loops of `executor.rs` differ only in what they wait for and
in what a closed mailbox does to them: the sending relay leaves, the asking ones panic in
the error path of `ask`.

`TypedReference` is the users' view: the calls accepted through each reference, in order,
and what each has come to; a call is finished only when those before it are finished or
lost. The mapping takes the order from `order`, a history variable, and forgets the relay,
the channel and the mailbox. `ending` is that the actor is past its run loop, or will never
have one.

### Router

`target` and `ask` are the one question the router has out; while it waits it reads
nothing, as in the code, where the `AsyncAsk` future is awaited inside the loop. A worker
is the executor and the supervising task of `Supervision` reduced to eight positions.
Its own messages (from its tasks, say) may stop it or make it panic. A second await takes
the place of the first, whose caller is told at once. `cause` and `failed`
are history variables. Sending is one step where no property depends on the reserved
slot. `max_retry` has no effect in the model because it has none in the code: the arm
that counts retries is not reached (see the findings). Its `todo!()`s are panics.

## 3. Runs

| Run | Result | Instance | Distinct states |
|---|---|---|---|
| `SupervisionChain` | pass | root, kid, leaf; kid may panic or abort; root is awaited; mailbox 2 | 58,360 |
| `SupervisionFamily` | pass | root with two children, three awaits, one stop, one message; mailbox 1 | 927,589 |
| `AnonymousTasks` | pass | one task of each kind, a stop, an abort; mailbox 2, 2 permits | 1,643,234 |
| `AnonymousAsks` | pass | any three of a question of each kind, a task that may be halted, a panic, an abort; supervised, mailbox 1, 1 permit | 148,301 |
| `WorldShutdown` | pass | two inputs, a client that sends two pieces and whose actor may fail, a reader that may panic, accept errors, Ctrl+C | 52,370 |
| `RelayShutdown` | pass | a sending and an asking reference, four calls (one `try_send`) that stop, abort or panic; mailbox and channels 2 | 228,985 |
| `RouterPool` | pass | a pool of 0, 1 or 2 workers, questions that are answered, stop or crash the worker, one or two awaits; mailbox 2 | 218,504 |
| `SupervisionPanic`, `AnonymousBusy`, `AnonymousLimit`, `WorldCtrlC`, `RouterRetry` | violation | see the findings | |

What the passing runs check:

- `ChildrenDieFirst`: an actor that has stopped has no child executing or reporting.
- `NoDeafChild`: a child that runs after its supervisor's Shutdown has it ahead of it.
- `CleanDeathDelivered`: the `unreachable!` of `spawn_with` needs a supervisor that
  aborted or panicked.
- `CleanDeathHandled`: a supervisor that stopped has handled the death of every child
  that stopped, unless a caller took the child.
- `DrainedBeforeExit`: what was in the mailbox has been handled when the actor ends.
- `CallersNotForgotten`: whoever waits for an actor is its subscriber until it is
  handed over; it is told "Paniced" only after a panic or a replacement.
- `SupervisionInv`: the inductive invariant of the proofs.
- `TreeSpec`: `Supervision` implements `ActorTree`.
- `AwaitEnds`, `ShutdownEnds`: awaiting and stopping come to an end.
- `ResultsReachActor`: a task that is done finds the mailbox open, unless the actor
  panicked or aborted, and no result is left in it at the end.
- `TasksEndFirst`, `AnsweredUnlessStopping`, `AskEnds`: no future outlives the actor, only
  an ending actor loses an answer, and who asked hears of it.
- `SocketsClosedFirst`, `WriterOutlivesRequest`, `WorldExits`: an input is off when its
  sockets are closed, a handler can write its answer, Ctrl+C ends the World.
- `ConnectionInv`: who serves whom, and what the end of one task says of the others.
- `ConnectionCleanup`: after a disconnect, a panic of the reader, a Shutdown taken for the
  end of a read or the end of its input, nothing of a connection is left.
- `ExitAfterInputs`: the World ends with the sockets of every input closed, except those
  of an input that panicked.
- `RelayInv`: the mailbox is open as long as a relay may pass something on, unless the
  actor aborted or panicked.
- `RelaysEndQuietly`: a relay panics only under such an actor, or one never run.
- `TakenIsHandled`: what a relay has taken reaches a handler, however late the Shutdown.
- `ReferenceSpec`: `Relay` implements `TypedReference`.
- `AskEnds`, `RelaysEnd` (of `Relay`): the askers, the relays and the actor come to an end.
- `CrashExplained`: the router panics for a reason its code gives; a question a worker has
  when the Shutdown comes is answered.
- `FairShare`: no worker is handed two questions more than another.
- `PoolEmptyAtEnd`: who awaits the router gets it back after its workers and their reports.
- `CallEnds`, `PoolEnds`: callers and workers come to an end, however the router does.

Some properties name what is left out of them, because the code does not do better: a
message written to a slot after `stop()` found the mailbox empty is never read (status
`late`), a task spawned by a handler that `stop()` runs may outlive the actor, a task whose
actor aborts finds the mailbox closed, and who waits for the answer to a `late` question may
wait for ever (`Stuck`). `AskEnds` of `Anonymous` leaves out one more: an actor in
`check_anonymous_actors` and a task may wait for each other for ever (`Clogged`, the deadlock
of `AnonymousBusy`), and the questions in the mailbox wait with them. `AnonymousAsks` reaches
that state: without the exception TLC finds `AskEnds` violated there.

Every property has a mutant in `PROJECT.json`: a plausible bug in one operation, under
which TLC finds the property violated.

**Deadlock** is not checked: callers and peers need not act, and a system in which
every actor waits for a message has come to rest. What must happen is stated as
liveness instead.

**Bounds.** `TimeoutLimit` stands for the ten idle seconds of `stopping()`. It is 1,
which gives both cases, a second that passes and the panic, at every point; a larger
number only repeats the first. Mailboxes have one or two slots instead of six: full
mailboxes, which the default size makes rare, are where the code waits. Each request
is sent once; the scripts hold every op, and TLC sends them in every order. Two
children, or three generations, are what "the last child" and "the supervisor of a
supervisor" need. `MaxChunks` gives one connection two pieces, so that the actor can
stop at the first and be asked again. `WorldShutdown` has one connection on two inputs:
connections of an input meet in its notifier only, and two of them are beyond TLC with
liveness; the safety properties are proved for any number (`WorldCtrlC` has two).
`RelayShutdown` has one relay of each behaviour, the third loop taking the steps of the
second. `RouterPool` chooses the size of the pool in `Init`, so that index, wrap-around
and the empty pool are all met; three questions make the index wrap. A second await
comes after the first and without the question that stops a worker, which keeps the run
small. `AnonymousAsks` lets callers send any three requests of a longer script: one that
holds the permit, one beyond the limit and one that fills the mailbox, whose single slot
makes tasks wait for room. Both restrictions (`FewCalls`) only hold back callers, who need
not call, so fairness is not affected. No symmetry is used:
the actors and requests of a script differ.

**Fairness** is weak fairness of each task's steps: tokio polls a task that is ready
and fires its timers. Handlers of `Supervision` return. In `Anonymous` the futures given
to tasks end. In `World` they need not, peers need not do anything, and a write need
only finish once its peer is gone. In `Relay` and `Router` the handlers return, and a
send that owns a slot of a relay's channel writes to it; nobody need build, run or drop a
reference, and a worker need not end by itself. Callers need not send, and nobody need halt a task.
A select! with two ready branches is one weakly fair step: no property relies on both
branches being taken.

## 4. What the code says and does not do

Each violation run checks one statement of a doc, an assertion or a test.

1. `SupervisionPanic`: "A dead actor must be handled by a supervisor"
   (`src/src/message.rs:33`). A panicking child loses its receiver before its death is
   reported; a stopping supervisor can end in between.
2. `AnonymousBusy`: "wait for some anonymous tasks to complete before continuing"
   (`src/src/executor.rs:166`). The tasks wait for room in the mailbox of the waiting
   actor.
3. `AnonymousLimit`: "If the maximum amount of anonymous actors are executing, then pause
   the actor until there is space to spawn another" (`src/src/actor.rs:18`). A task beyond
   the limit is spawned and counted; the wait takes the end of any task with a permit for
   its end.
4. `WorldCtrlC`: Ctrl+C is to "start cleaning up and completing tasks"
   (`src/src/world/mod.rs:127`). The connections' actors are not waited for.
5. `RouterRetry`: "Resend the message and replace the failed actor with a new one"
   (`src/src/utils/router.rs:102`). `async_ask` panics instead of returning
   `AskError::Closed`, because the box holds an AsyncResponse and not an Envelope
   (`src/src/address.rs:311`); the arm that retries would ask the same address again.

## 5. Proofs

The theorems hold for every tree of actors, script, mailbox size and timeout limit
(`Supervision`), every set of inputs and connections (`World`), every sequence of relays
(`Relay`), every pool size (`Router`) and every number of permits (`Anonymous`; the script
need not be finite). They assume only what the modules' named ASSUMEs say:
`ActorsAssumption`, `InputsAssumption`, `RelaysAssumption`, `ScriptAssumption` and
`BoundsAssumption`, which TLC evaluates on every run.

| Theorem | Statement |
|---|---|
| `SupervisionProofs.TypeCorrect` | `Spec => []TypeOK` |
| `SupervisionProofs.InvariantHolds` | `Spec => []SupervisionInv` |
| `SupervisionProofs.ChildrenDieFirstHolds` | `Spec => []ChildrenDieFirst` |
| `SupervisionProofs.NoDeafChildHolds` | `Spec => []NoDeafChild` |
| `SupervisionProofs.CleanDeathDeliveredHolds` | `Spec => []CleanDeathDelivered` |
| `DeliveryProofs.DeliveryHolds` | `Spec => []DeliveryInv` |
| `DeliveryProofs.DrainedBeforeExitHolds` | `Spec => []DrainedBeforeExit` |
| `DeliveryProofs.CleanDeathHandledHolds` | `Spec => []CleanDeathHandled` |
| `DeliveryProofs.CallersNotForgottenHolds` | `Spec => []CallersNotForgotten` |
| `TreeProofs.TreeRefinement` | `Spec => TreeSpec` |
| `AnonymousProofs.TypeCorrect` | `Spec => []TypeOK` |
| `AnonymousProofs.TasksEndFirstHolds` | `Spec => []TasksEndFirst` |
| `AnonymousProofs.ResultsReachActorHolds` | `Spec => []ResultsReachActor` |
| `AnonymousProofs.AnsweredUnlessStoppingHolds` | `Spec => []AnsweredUnlessStopping` |
| `WorldProofs.TypeCorrect` | `Spec => []TypeOK` |
| `WorldProofs.InvariantHolds` | `Spec => []ConnectionInv` |
| `WorldProofs.SocketsClosedFirstHolds` | `Spec => []SocketsClosedFirst` |
| `WorldProofs.WriterOutlivesRequestHolds` | `Spec => []WriterOutlivesRequest` |
| `WorldProofs.ExitAfterInputsHolds` | `Spec => []ExitAfterInputs` |
| `RelayProofs.TypeCorrect` | `Spec => []TypeOK` |
| `RelayProofs.InvariantHolds` | `Spec => []RelayInv` |
| `RelayProofs.RelaysEndQuietlyHolds` | `Spec => []RelaysEndQuietly` |
| `RelayProofs.TakenIsHandledHolds` | `Spec => []TakenIsHandled` |
| `ReferenceProofs.ReferenceInvHolds` | `Spec => []ReferenceInv` |
| `ReferenceProofs.ReferenceRefinement` | `Spec => ReferenceSpec` |
| `RouterProofs.TypeCorrect` | `Spec => []TypeOK` |
| `RouterProofs.CrashExplainedHolds` | `Spec => []CrashExplained` |
| `RouterProofs.FairShareHolds` | `Spec => []FairShare` |
| `RouterProofs.PoolEmptyAtEndHolds` | `Spec => []PoolEmptyAtEnd` |

Each inductive invariant was an invariant of the corresponding run before it was proved.

**The argument for Supervision.** None of the three safety properties is inductive: that
a child is not executing when its supervisor ends depends on `is_closed`, which speaks
of receivers. `SupervisionInv` says exactly how receivers and positions correspond
(`ReceiverInv`); that once a supervisor is past `stopping()` no receiver appears again
(`NoChildInv`), which needs that nothing is spawned unless the state is Running and that
the state is not Running from `shutdown()` on (`StateInv`); and that a mailbox is closed
only by abort, by a panic or past that point (`ClosedInv`). `AddressInv` says that a
message is in the mailbox of the actor it was sent to, so a `Spawn` handled by *a*
makes a child of *a*. `TypeOK` is proved first and used as a hypothesis.

**Delivery.** That a mailbox was emptied says nothing about a message unless each message
is in one place and its status says which. `DeliveryInv` has this for requests
(`RequestInv`) and for reports (`ReportInv`), over `Pending(a)`, what actor *a* has in its
mailbox or in its hands; `PendingInv` adds that a mailbox is closed before `stop()` empties
it, so that what is empty stays empty. `FateInv` says that the news of a death leaves the
supervising task once, and `ResolvedInv` that an actor given to a caller is not also
reported. With `ChildrenDieFirst`, a supervisor that stopped has no report under way, and
so has handled those of all children that stopped.

**Refinement of ActorTree.** The step of `HandleSpawn` is `Start`, `DrainEmpty` is `Stop`,
which needs `NoChildInv` (no child is alive any more), `Unwind` is `Crash`,
`HandleDeadActor` is `Inherit`, an `ExitRoot` or `ExitChild` with a subscriber is `Return`,
and every other step leaves the tree alone. `FateInv` and `ResolvedInv` give that an actor
is handed on once.

**Anonymous.** `LoopInv` and `CurInv` say which loop the actor is in, whether it has a
message, and that its mailbox closes by `stop()`, a panic or an abort only; `RequestInv` that a request is in one place, so that it is handled, and its task
spawned, once (`TaskInv`, which also has that `stop()` begins when the tasks spawned before
have ended: `is_closed` counts their receivers). `PermitInv` counts: no more tasks hold a
permit than there are, `tracked` is finite although the script need not be, and what
`check_anonymous_actors` subtracts from the overflow is there. `WorkerInv` says why the
worker of a question has no result, for `AnsweredUnlessStopping`.

**The argument for World.** `ConnectionInv` states for each hand-over that the server's
position and the asker's agree, and that the connection's task and its actor end only once
the actor's mailbox is closed. While the input runs, a reader ends, by a panic included, only
when the connection's task is out of its loop (`Leaving`), and a writer only then or after the
actor; a panic comes in a read, with no request being served, which gives
`WriterOutlivesRequest`. For `ExitAfterInputs` it adds that the World ends only after its inputs.

**The argument for Relay.** `TakenIsHandled` speaks of statuses at the end of the actor,
which says nothing about where a call is before that. `IInv` adds: no call is under way
before the actor runs (`UnbuiltInv`); a call that was taken is in the hands of a relay
(`TakenInv`), which holds a receiver, so that by `RelayInv` the actor cannot have closed
its mailbox; a call that was forwarded is in the mailbox or in the handler
(`ForwardedInv`), and the actor ends with both empty; and calls are lost, and relays panic,
after an abort or a panic only (`LostInv`, `CrashInv`).

**Refinement of TypedReference.** `ReferenceInv` locates every call exactly: in the channel
of its reference, in the hands of its relay, in the mailbox or with the handler
(`ChannelInv`, `HeldInv`, `MailboxInv`). `OrderInv` compares any two unfinished calls of one
reference: the older one is ahead, being further along the way or before the other in the
same queue. So the call whose handler returns is the oldest (`Finish`). That calls are only
lost or refused by an ending actor needs `EndingInv`: a relay that leaves an actor still
running has an empty channel and no reference, and a send that owns a slot holds its
reference. `SendersInv` is that the nested tuple is the sequence of relays reversed, so that
`flatten` leads every reference to its own relay.

**Router.** `LoopInv` ties the router's question to the message in its hands and keeps the
index below the size of the pool; `WorkerInv` gives the reason for each worker that does
not run, and with it for each way to panic; `QueueInv` says where an accepted call is, for
`PoolEmptyAtEnd`. `FairShare` is not inductive: `RoundInv` says that the workers before the
index have had exactly one question more than those from it on.

**Only model-checked.** Liveness, which is out of the prover's reach: `AwaitEnds` and
`ShutdownEnds` of `Supervision`, `AskEnds` of `Anonymous`, `ConnectionCleanup` and
`WorldExits` of `World`, `AskEnds` and `RelaysEnd` of `Relay`, `CallEnds` and `PoolEnds` of
`Router`. Every other property of a passing run is a theorem. The statements of section 4
are false and stay with TLC's counterexamples.

## 6. Not modelled

- `Workflow`: a chain of futures that one caller awaits one after the other, each a
  function or an `ask` as in `Anonymous`. It shares no state, and its one error path is a
  `todo!()`.
- Function actors (`anonymous.rs`): a private module nothing uses, whose handlers `take()`
  their closure and so panic at a second message.
- `WorldBuilder` and the world's messages: options for tokio's runtime builder, and a type
  that carries a socket address. The fs module is empty.
- The router's `ProxyFail` handler (the message is private and never sent) and
  `into_tuple_list` (never called).
- The second Ctrl+C that `block_until_completion`'s doc names: the code does not
  implement it.
- The lifecycle callbacks with user code in them, `schedule()`, which only sleeps, and the
  cancellation of tasks by the end of the runtime, other than the end of a World.
- The bytes of frames and payloads.

## 7. Plan

All parts with a protocol are modelled, and every safety property and refinement the runs
check is proved. What would add most is a proof that the actors of the composed system are
those of the parts: `Router`'s workers and `Relay`'s actor repeat the executor of
`Supervision` in a reduced form, and a mapping of their positions to its would show that
the reduction leaves nothing out.
