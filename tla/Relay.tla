-------------------------------- MODULE Relay --------------------------------
(***************************************************************************)
(* An actor behind typed references: what CtxBuilder (src/src/single/)     *)
(* makes.  Users get no ActorRef.  Each reference is the sending end of a  *)
(* channel of its own; at the other end a relay, a task that runs one of   *)
(* the child_with_custom_*_rx loops of src/src/executor.rs, passes every   *)
(* message on to the actor's mailbox and, if it is a question, the answer  *)
(* back.                                                                   *)
(*                                                                         *)
(* A relay is a child of the actor only in that it holds a receiver of the *)
(* actor's notifier: nobody watches its task or reports its death.  The    *)
(* actor's own executor is the one of Supervision, for one actor whose     *)
(* only children are relays; a supervisor (CtxBuilder::spawn) is reduced   *)
(* to a Shutdown that may come at any time.                                *)
(***************************************************************************)
EXTENDS Naturals, Sequences, FiniteSets

CONSTANTS
  Relays,        \* the relays in the order the builder makes them, a sequence
  Kind,          \* which method of CtxBuilder makes each
  Script,        \* the calls users may make: id -> [ref, op, wait]
  MailboxSize,   \* Actor::mailbox_size(), of the mailbox and of every channel
  TimeoutLimit,  \* the number of idle seconds stopping() tolerates (10)
  Supervised,    \* CtxBuilder::spawn and not CtxBuilder::run
  Nil            \* no call

\* A call goes through the ref-th element of the tuple of references.  Its op is
\* what the actor's handler does with its context.  `wait` tells send and the
\* two asks from try_send and send_timeout.
Ops == {"Normal", "Stop", "Abort", "Panic"}
Calls == DOMAIN Script
Op(c) == Script[c].op
RelaySet == {Relays[i] : i \in DOMAIN Relays}

ASSUME RelaysAssumption ==
  /\ Relays \in Seq(RelaySet)
  /\ \A i, j \in DOMAIN Relays : Relays[i] = Relays[j] => i = j
  /\ Kind \in [RelaySet -> {"sender", "asker", "ask_asyncer"}]

ASSUME ScriptAssumption ==
  /\ Nil \notin Calls
  /\ \A c \in Calls :
       Script[c].ref \in DOMAIN Relays /\ Op(c) \in Ops /\ Script[c].wait \in BOOLEAN

ASSUME BoundsAssumption ==
  /\ MailboxSize \in Nat \ {0}
  /\ TimeoutLimit \in Nat
  /\ Supervised \in BOOLEAN

VARIABLES
  pc,        \* where the builder or the actor's task is
  senders,   \* CtxBuilder::senders, the nested tuple, outermost first
  refs,      \* the relays whose reference is still held by somebody
  mailbox,   \* Ctx::mailbox, oldest first
  closed,    \* the mailbox refuses new messages
  cur,       \* the call process_message works on
  shutdown,  \* Ctx::notifier holds Some(SupervisorMessage::Shutdown)
  aborted,   \* a handler called Ctx::abort
  timeouts,  \* timeout_counter of stopping()
  relay,     \* where each relay's task is
  channel,   \* the channel between a reference and its relay, oldest first
  held,      \* the call a relay has taken and not finished with
  status,    \* how far each call is
  order      \* history: the calls accepted through each reference

actor == <<pc, mailbox, closed, cur, shutdown, aborted, timeouts>>
built == <<senders, refs>>
relays == <<relay, channel, held>>
vars == <<actor, built, relays, status, order>>

\* The positions of the actor, as in Supervision, and before that of the builder.
\*   building   CtxBuilder is being given its references
\*   discarded  it was dropped without being run
Handling == {"handling", "stopHandling", "drainHandling"}
Positions == Handling \cup {"building", "discarded", "running", "shutdown", "stopping",
                            "checking", "draining", "over", "crashed"}

\* The positions of a relay.
\*   idle      in the select! of its loop
\*   holding   has a message; its send_async, ask or async_ask waits for a slot
\*   reserved  it owns a slot of the actor's mailbox, not yet written to
\*   waiting   (asker, ask_asyncer) awaits the actor's answer
\*   leaving   out of the loop, its receiver is dropped, the channel is not
\*   gone      it has returned; crashed: it has panicked
\* The first four hold a receiver of the actor's notifier.
Active == {"idle", "holding", "reserved", "waiting"}
RelayStates == Active \cup {"none", "leaving", "gone", "crashed"}

\* The states of a call.
\*   unsent, reserved  not tried yet; its send owns a slot of the channel
\*   accepted   in the channel (a send has returned Ok)
\*   taken      the relay has it; forwarded: in the mailbox, or in process_message
\*   handled    its handler has returned, of a sender
\*   answered   its handler has answered the relay; replied: and so has the user
\*   discarded  dropped with the channel
\*   dropped    dropped by the relay or with the mailbox; unanswered: the relay
\*              of a question does not know yet
\*   full, closed  the error of a send: the user has the message back
\*   late       written to a channel or a mailbox that nobody reads any more
Pending == {"accepted", "taken", "forwarded"}
Lost == {"discarded", "dropped", "unanswered", "late"}
Statuses == Pending \cup Lost \cup {"unsent", "reserved", "handled", "answered", "replied",
                                    "full", "closed"}

TypeOK ==
  /\ pc \in Positions
  /\ senders \in Seq(RelaySet)
  /\ refs \in SUBSET RelaySet
  /\ mailbox \in Seq(Calls)
  /\ closed \in BOOLEAN
  /\ cur \in Calls \cup {Nil}
  /\ shutdown \in BOOLEAN
  /\ aborted \in BOOLEAN
  /\ timeouts \in 0..TimeoutLimit
  /\ relay \in [RelaySet -> RelayStates]
  /\ channel \in [RelaySet -> Seq(Calls)]
  /\ held \in [RelaySet -> Calls \cup {Nil}]
  /\ status \in [Calls -> Statuses]
  /\ order \in [RelaySet -> Seq(Calls)]

-----------------------------------------------------------------------------

\* Mutant of Flatten: the innermost element last.
FlattenInOrder(s) == s

\* Tuple::flatten: the innermost element of the nested tuple comes first.
Flatten(s) == [i \in DOMAIN s |-> s[Len(s) + 1 - i]]

\* The relay behind the reference that the call c uses.
Via(c) == Flatten(senders)[Script[c].ref]

\* The users have their tuple of references.
Built == pc \notin {"building", "discarded"}

\* Mutant of IsClosed: a relay that waits for the mailbox is not counted.
IsClosedWhenIdle == \A r \in RelaySet : relay[r] # "idle"

\* watch::Sender::is_closed
IsClosed == \A r \in RelaySet : relay[r] \notin Active

\* The slots of the mailbox, and of r's channel, in use: filled or reserved.
SlotsUsed == Len(mailbox) + Cardinality({r \in RelaySet : relay[r] = "reserved"})
ChannelUsed(r) ==
  Len(channel[r]) + Cardinality({c \in Calls : status[c] = "reserved" /\ Via(c) = r})

\* The receiving end of r's channel is dropped.
ChannelClosed(r) == relay[r] \in {"gone", "crashed"}

\* The actor's context is dropped, and its notifier with it.
NotifierDropped == pc \in {"discarded", "over", "crashed"}

-----------------------------------------------------------------------------
(* CtxBuilder.                                                             *)

\* sender, asker, ask_asyncer: a channel, its relay's task, and one more level
\* around the tuple.
AddReference ==
  LET r == Relays[Len(senders) + 1] IN
  /\ pc = "building"
  /\ Len(senders) < Len(Relays)
  /\ senders' = <<r>> \o senders
  /\ refs' = refs \cup {r}
  /\ relay' = [relay EXCEPT ![r] = "idle"]
  /\ UNCHANGED <<actor, channel, held, status, order>>

\* run, spawn
RunBuilder ==
  /\ pc = "building"
  /\ Len(senders) = Len(Relays)
  /\ pc' = "running"
  /\ UNCHANGED <<mailbox, closed, cur, shutdown, aborted, timeouts, built, relays, status,
                 order>>

\* The builder is dropped, and with it the context and the references.
DropBuilder ==
  /\ pc = "building"
  /\ pc' = "discarded"
  /\ closed' = TRUE
  /\ refs' = {}
  /\ UNCHANGED <<mailbox, cur, shutdown, aborted, timeouts, senders, relays, status, order>>

-----------------------------------------------------------------------------
(* Users: ActorSendRef, ActorAskRef, ActorAsyncAskRef.                     *)

\* The channel grants a slot.
Reserve(c) ==
  /\ Built
  /\ status[c] = "unsent"
  /\ Via(c) \in refs
  /\ ~ChannelClosed(Via(c))
  /\ ChannelUsed(Via(c)) < MailboxSize
  /\ status' = [status EXCEPT ![c] = "reserved"]
  /\ UNCHANGED <<actor, built, relays, order>>

\* The message is written to its slot, whether or not the relay is still there.
Push(c) ==
  LET r == Via(c) IN
  /\ status[c] = "reserved"
  /\ IF ChannelClosed(r)
     THEN status' = [status EXCEPT ![c] = "late"] /\ UNCHANGED <<channel, order>>
     ELSE /\ status' = [status EXCEPT ![c] = "accepted"]
          /\ channel' = [channel EXCEPT ![r] = Append(@, c)]
          /\ order' = [order EXCEPT ![r] = Append(@, c)]
  /\ UNCHANGED <<actor, built, relay, held>>

\* The relay is gone; or try_send finds no room, send_timeout has waited for it
\* long enough.
Refuse(c) ==
  LET r == Via(c) IN
  /\ Built
  /\ status[c] = "unsent"
  /\ r \in refs
  /\ \/ /\ ChannelClosed(r)
        /\ status' = [status EXCEPT ![c] = "closed"]
     \/ /\ ~ChannelClosed(r)
        /\ ~Script[c].wait /\ ChannelUsed(r) = MailboxSize
        /\ status' = [status EXCEPT ![c] = "full"]
  /\ UNCHANGED <<actor, built, relays, order>>

\* The last copy of a reference is dropped.  An ask borrows it to the end.
DropReference(r) ==
  /\ Built
  /\ r \in refs
  /\ \A c \in Calls : Via(c) = r =>
       status[c] \notin {"reserved"} \cup IF Kind[r] = "sender" THEN {} ELSE Pending
  /\ refs' = refs \ {r}
  /\ UNCHANGED <<actor, senders, relays, status, order>>

-----------------------------------------------------------------------------
(* The relays: child_with_custom_handle_rx, _ask_rx and _async_ask_rx.     *)

\* The select!: rx.recv() has a message.  Until it is passed on nothing else is
\* polled.  A pending Shutdown does not hold this back.
Take(r) ==
  /\ relay[r] = "idle"
  /\ channel[r] # <<>>
  /\ relay' = [relay EXCEPT ![r] = "holding"]
  /\ held' = [held EXCEPT ![r] = Head(channel[r])]
  /\ status' = [status EXCEPT ![Head(channel[r])] = "taken"]
  /\ channel' = [channel EXCEPT ![r] = Tail(@)]
  /\ UNCHANGED <<actor, built, order>>

\* parent.send_async, ask, async_ask: a slot of the actor's mailbox ...
Forward(r) ==
  /\ relay[r] = "holding"
  /\ ~closed
  /\ SlotsUsed < MailboxSize
  /\ relay' = [relay EXCEPT ![r] = "reserved"]
  /\ UNCHANGED <<actor, built, channel, held, status, order>>

\* ... is written to; a question has an answer to wait for.  A message for a
\* mailbox that was dropped in between is never read, nor is it dropped while
\* the relay, which owns a sender, waits for the answer.
ForwardPush(r) ==
  /\ relay[r] = "reserved"
  /\ IF NotifierDropped
     THEN /\ status' = [status EXCEPT ![held[r]] = "late"]
          /\ UNCHANGED mailbox
     ELSE /\ status' = [status EXCEPT ![held[r]] = "forwarded"]
          /\ mailbox' = Append(mailbox, held[r])
  /\ IF Kind[r] = "sender"
     THEN /\ relay' = [relay EXCEPT ![r] = "idle"]
          /\ held' = [held EXCEPT ![r] = Nil]
     ELSE /\ relay' = [relay EXCEPT ![r] = "waiting"]
          /\ UNCHANGED held
  /\ UNCHANGED <<pc, closed, cur, shutdown, aborted, timeouts, built, channel, order>>

\* The mailbox is closed.  send_async gives SendError::Closed and the loop ends;
\* ask and async_ask panic (they unwrap a downcast to the wrong envelope), and
\* the relay's channel goes with the task.
ForwardClosed(r) ==
  /\ relay[r] = "holding"
  /\ closed
  /\ held' = [held EXCEPT ![r] = Nil]
  /\ IF Kind[r] = "sender"
     THEN /\ relay' = [relay EXCEPT ![r] = "leaving"]
          /\ status' = [status EXCEPT ![held[r]] = "dropped"]
          /\ UNCHANGED channel
     ELSE /\ relay' = [relay EXCEPT ![r] = "crashed"]
          /\ status' = [c \in Calls |->
                          IF c = held[r] THEN "dropped"
                          ELSE IF status[c] = "accepted" /\ Via(c) = r THEN "discarded"
                          ELSE status[c]]
          /\ channel' = [channel EXCEPT ![r] = <<>>]
  /\ UNCHANGED <<actor, built, order>>

\* Mutant of RelayAnswer: a question that was dropped is waited for.
RelayAnswerOnly(r) ==
  /\ relay[r] = "waiting"
  /\ status[held[r]] = "answered"
  /\ status' = [status EXCEPT ![held[r]] = "replied"]
  /\ relay' = [relay EXCEPT ![r] = "idle"]
  /\ held' = [held EXCEPT ![r] = Nil]
  /\ UNCHANGED <<actor, built, channel, order>>

\* The actor has answered, or has dropped the question: the user is told.
RelayAnswer(r) ==
  /\ relay[r] = "waiting"
  /\ status[held[r]] \in {"answered", "unanswered"}
  /\ status' = [status EXCEPT ![held[r]] = IF @ = "answered" THEN "replied" ELSE "dropped"]
  /\ relay' = [relay EXCEPT ![r] = "idle"]
  /\ held' = [held EXCEPT ![r] = Nil]
  /\ UNCHANGED <<actor, built, channel, order>>

\* Out of the loop, with an empty shutdown(): a relay has no children.
Leave(r) ==
  /\ relay' = [relay EXCEPT ![r] = "leaving"]
  /\ UNCHANGED <<actor, built, channel, held, status, order>>

\* The select!: the actor's Shutdown.  What is in the channel stays there.
RelayShutdown(r) == relay[r] = "idle" /\ shutdown /\ Leave(r)

\* The select!: rx.recv() has None, the reference is dropped.
RelayUnused(r) == relay[r] = "idle" /\ channel[r] = <<>> /\ r \notin refs /\ Leave(r)

\* The channel is dropped, with what is in it.
CloseChannel(r) ==
  /\ channel' = [channel EXCEPT ![r] = <<>>]
  /\ status' = [c \in Calls |->
                  IF status[c] = "accepted" /\ Via(c) = r THEN "discarded" ELSE status[c]]
  /\ UNCHANGED <<actor, built, held, order>>

RelayReturn(r) ==
  /\ relay[r] = "leaving"
  /\ relay' = [relay EXCEPT ![r] = "gone"]
  /\ CloseChannel(r)

\* Mutant of RelayOrphaned: the loop goes on.
RelayOrphanedContinues(r) ==
  /\ relay[r] = "idle"
  /\ NotifierDropped /\ ~shutdown
  /\ UNCHANGED vars

\* The select!: the notifier is dropped, "Supervisor died before child".
RelayOrphaned(r) ==
  /\ relay[r] = "idle"
  /\ NotifierDropped /\ ~shutdown
  /\ relay' = [relay EXCEPT ![r] = "crashed"]
  /\ CloseChannel(r)

-----------------------------------------------------------------------------
(* The actor: its executor, as in Supervision.                             *)

Receive ==
  /\ mailbox # <<>>
  /\ cur' = Head(mailbox)
  /\ mailbox' = Tail(mailbox)
  /\ \/ pc = "running" /\ pc' = "handling"
     \/ pc = "stopping" /\ pc' = "stopHandling"
     \/ pc = "draining" /\ pc' = "drainHandling"
  /\ UNCHANGED <<closed, shutdown, aborted, timeouts, built, relays, status, order>>

\* process_message returns; in the run loop, `stopped` says that the context is no
\* longer Running.
Return(stopped) ==
  /\ \/ pc = "handling" /\ pc' = IF stopped THEN "shutdown" ELSE "running"
     \/ pc = "stopHandling" /\ pc' = "checking"
     \/ pc = "drainHandling" /\ pc' = "draining"
  /\ cur' = Nil
  /\ status' = [status EXCEPT ![cur] = IF Kind[Via(cur)] = "sender" THEN "handled"
                                       ELSE "answered"]
  /\ UNCHANGED <<mailbox, shutdown, timeouts, built, relays, order>>

Serves(op) == pc \in Handling /\ Op(cur) = op

HandleNormal == Serves("Normal") /\ Return(FALSE) /\ UNCHANGED <<closed, aborted>>

HandleStop == Serves("Stop") /\ Return(TRUE) /\ UNCHANGED <<closed, aborted>>

\* In stop() the context is already Stopped.
HandleAbort ==
  /\ Serves("Abort")
  /\ Return(TRUE)
  /\ closed' = TRUE
  /\ aborted' = (aborted \/ pc # "drainHandling")

\* The actor's task panics: the context goes, with the mailbox and the notifier.
Crash ==
  /\ pc' = "crashed"
  /\ closed' = TRUE
  /\ mailbox' = <<>>
  /\ cur' = Nil
  /\ status' = [c \in Calls |->
                  IF status[c] # "forwarded" THEN status[c]
                  ELSE IF Kind[Via(c)] = "sender" THEN "dropped" ELSE "unanswered"]
  /\ UNCHANGED <<shutdown, aborted, timeouts, built, relays, order>>

HandlePanic == Serves("Panic") /\ Crash

\* handle_supervised_message: the Shutdown of the actor's own supervisor, or its
\* death, which is a panic.
SupervisorSpeaks ==
  /\ Supervised
  /\ pc = "running"
  /\ \/ /\ pc' = "shutdown"
        /\ UNCHANGED <<mailbox, closed, cur, shutdown, aborted, timeouts, built, relays,
                       status, order>>
     \/ Crash

\* No relay is left: stopping() closes the mailbox, stop() follows.
NoRelays ==
  /\ IsClosed
  /\ closed' = TRUE
  /\ pc' = "draining"
  /\ UNCHANGED <<mailbox, cur, shutdown, aborted, timeouts, built, relays, status, order>>

\* shutdown() and the beginning of stopping().
BeginShutdown ==
  /\ pc = "shutdown"
  /\ \/ NoRelays
     \/ /\ ~IsClosed
        /\ shutdown' = TRUE
        /\ timeouts' = 0
        /\ pc' = "stopping"
        /\ UNCHANGED <<mailbox, closed, cur, aborted, built, relays, status, order>>

\* recv has None: the mailbox is closed (by abort) and empty.
StoppingMailboxClosed ==
  /\ pc = "stopping"
  /\ closed /\ SlotsUsed = 0
  /\ pc' = "checking"
  /\ UNCHANGED <<mailbox, closed, cur, shutdown, aborted, timeouts, built, relays, status,
                 order>>

\* Mutant of StoppingTimeout: no limit.
StoppingTimeoutUnlimited ==
  /\ pc = "stopping"
  /\ ~(closed /\ SlotsUsed = 0)
  /\ timeouts' = timeouts + 1
  /\ pc' = "checking"
  /\ UNCHANGED <<mailbox, closed, cur, shutdown, aborted, built, relays, status, order>>

\* A second without a message.
StoppingTimeout ==
  /\ pc = "stopping"
  /\ ~(closed /\ SlotsUsed = 0)
  /\ IF timeouts = TimeoutLimit
     THEN Crash
     ELSE /\ timeouts' = timeouts + 1
          /\ pc' = "checking"
          /\ UNCHANGED <<mailbox, closed, cur, shutdown, aborted, built, relays, status, order>>

CheckRelays ==
  /\ pc = "checking"
  /\ \/ NoRelays
     \/ /\ ~IsClosed
        /\ pc' = "stopping"
        /\ UNCHANGED <<mailbox, closed, cur, shutdown, aborted, timeouts, built, relays,
                       status, order>>

\* stop(): the mailbox is empty.
End ==
  /\ pc = "draining"
  /\ mailbox = <<>>
  /\ pc' = "over"
  /\ UNCHANGED <<mailbox, closed, cur, shutdown, aborted, timeouts, built, relays, status,
                 order>>

-----------------------------------------------------------------------------

Init ==
  /\ pc = "building"
  /\ senders = <<>>
  /\ refs = {}
  /\ mailbox = <<>>
  /\ closed = FALSE
  /\ cur = Nil
  /\ shutdown = FALSE
  /\ aborted = FALSE
  /\ timeouts = 0
  /\ relay = [r \in RelaySet |-> "none"]
  /\ channel = [r \in RelaySet |-> <<>>]
  /\ held = [r \in RelaySet |-> Nil]
  /\ status = [c \in Calls |-> "unsent"]
  /\ order = [r \in RelaySet |-> <<>>]

BuilderStep == AddReference \/ RunBuilder \/ DropBuilder

CallerStep(c) == Reserve(c) \/ Push(c) \/ Refuse(c)

RelayStep(r) ==
  \/ Take(r) \/ Forward(r) \/ ForwardPush(r) \/ ForwardClosed(r) \/ RelayAnswer(r)
  \/ RelayShutdown(r) \/ RelayUnused(r) \/ RelayOrphaned(r) \/ RelayReturn(r)

ActorStep ==
  \/ Receive \/ HandleNormal \/ HandleStop \/ HandleAbort \/ HandlePanic
  \/ BeginShutdown \/ StoppingMailboxClosed \/ StoppingTimeout \/ CheckRelays \/ End

Next ==
  \/ BuilderStep \/ ActorStep \/ SupervisorSpeaks
  \/ \E c \in Calls : CallerStep(c)
  \/ \E r \in RelaySet : RelayStep(r) \/ DropReference(r)

Spec == Init /\ [][Next]_vars

\* The runtime polls every task that is ready and fires its timers, handlers
\* return, a send that owns a slot finishes.  Users need not build, call or drop
\* anything, a supervisor need not speak.
Fairness ==
  /\ WF_vars(ActorStep)
  /\ \A r \in RelaySet : WF_vars(RelayStep(r))
  /\ \A c \in Calls : WF_vars(Push(c))

FairSpec == Spec /\ Fairness

-----------------------------------------------------------------------------
(* Properties.                                                             *)

\* stopping() closes the mailbox "if all of our children have died": as long as a
\* relay may still pass something on, the mailbox is open, unless the actor
\* aborted or panicked or its builder was dropped.  A relay that has a message
\* in its hands keeps it to that, and one that has none waits in its select!.
RelayInv ==
  /\ closed => \/ aborted \/ pc \in {"crashed", "discarded"}
               \/ /\ pc \in {"draining", "drainHandling", "over"}
                  /\ \A r \in RelaySet : relay[r] \notin Active
  /\ pc \in {"draining", "drainHandling", "over"} => \A r \in RelaySet : relay[r] \notin Active
  /\ \A r \in RelaySet : held[r] = Nil <=> relay[r] \notin {"holding", "reserved", "waiting"}

\* "This shouldn't happen": a relay panics, by the end of its supervisor or in the
\* error path of ask, only when the actor aborted or panicked, or was never run.
RelaysEndQuietly ==
  \A r \in RelaySet : relay[r] = "crashed" => aborted \/ pc \in {"crashed", "discarded"}

\* A message the relay has taken out of its channel reaches the actor's handler,
\* however late the actor was told to stop, unless the actor aborts or panics.
TakenIsHandled ==
  \A c \in Calls :
    \/ aborted \/ pc = "crashed"
    \/ /\ status[c] \notin {"dropped", "unanswered"}
       /\ pc = "over" => status[c] \notin {"taken", "forwarded"}

\* A relay that waits for an answer that cannot come: it wrote the question to a
\* mailbox already dropped, and keeps it there with the sender it owns.
Stuck(r) == relay[r] = "waiting" /\ status[held[r]] = "late"

\* A question put into the channel comes to an end: the user has an answer or
\* learns that there is none, whatever happens to the relay or the actor.  Only
\* behind a relay that is stuck do the user and those queued after wait for ever.
AskEnds ==
  \A i \in DOMAIN Relays : Kind[Relays[i]] # "sender" =>
    \A c \in Calls :
      (status[c] \in Pending /\ Via(c) = Relays[i]) ~>
        (status[c] \in {"replied", "dropped", "discarded"} \/ Stuck(Relays[i]))

\* Stopping comes to an end although nothing wakes the actor when a relay leaves,
\* and the relays end with it.
RelaysEnd ==
  pc \in {"shutdown", "crashed", "discarded"} ~>
    /\ pc \in {"over", "crashed", "discarded"}
    /\ \A r \in RelaySet : relay[r] \in {"none", "gone", "crashed"} \/ Stuck(r)

\* What the user of a reference has seen of each call.
Outcome(c) ==
  IF status[c] \in {"unsent", "reserved"} THEN "none"
  ELSE IF status[c] \in Pending THEN "accepted"
  ELSE IF status[c] \in {"handled", "answered", "replied"} THEN "done"
  ELSE IF status[c] \in Lost THEN "lost"
  ELSE status[c]

Reference == INSTANCE TypedReference WITH
  Refs <- DOMAIN Relays,
  Ref <- [c \in Calls |-> Script[c].ref],
  accepted <- [i \in DOMAIN Relays |-> order[Relays[i]]],
  outcome <- [c \in Calls |-> Outcome(c)],
  ending <- pc \notin {"building", "running", "handling"}

\* Behind its reference an actor keeps what TypedReference promises: each call is
\* handled at most once and in order, and an actor that is not ending loses
\* none and never looks closed.
ReferenceSpec == Reference!Spec

=============================================================================
