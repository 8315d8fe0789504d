-------------------------------- MODULE World --------------------------------
(***************************************************************************)
(* A World with its TCP inputs (src/src/world/mod.rs, src/src/io): for     *)
(* each input a loop that accepts connections, and for each connection a   *)
(* reader and a writer task on the two halves of its socket, the           *)
(* connection's actor, and the task that carries what is read to it.       *)
(*                                                                         *)
(* A listener's executor is never run: it lends its context to the readers *)
(* and writers, which hold receivers of its notifier, and its shutdown()   *)
(* is the input's. The connection's actor is a root actor as in            *)
(* Supervision, reduced to what a connection sees of it: it serves one     *)
(* request at a time, its handler may write to the socket, stop or abort   *)
(* the actor, panic, or never return; it may also end by itself.           *)
(*                                                                         *)
(* Who waits for what on the two request channels is kept in the position  *)
(* of the one who asked (`conn` for reads, `actor` for writes): its        *)
(* request is queued, taken by the task at the other end, or answered.     *)
(***************************************************************************)
EXTENDS Naturals

CONSTANTS
  Inputs,        \* the components given to World::on_input
  Conns,         \* the connections peers may make
  Of,            \* the input whose listener each of them reaches
  Failing,       \* the connections whose actor may end by itself
  MaxChunks,     \* bound: the pieces of data each peer may send
  TimeoutLimit   \* the number of idle seconds stopping() tolerates (10)

ASSUME InputsAssumption == Of \in [Conns -> Inputs]

ASSUME BoundsAssumption == MaxChunks \in [Conns -> Nat] /\ TimeoutLimit \in Nat

VARIABLES
  input,     \* each input's task
  exited,    \* block_until_completion has returned, the runtime is dropped
  ctrlC,     \* the broadcast channel was dropped, after Ctrl+C
  shutdown,  \* the inputs whose listener's notifier holds Some(Shutdown)
  timeouts,  \* timeout_counter of each stopping()
  peer,      \* the other end of the socket
  inbound,   \* the pieces of data sent and not yet read
  sent,      \* the pieces of data sent
  conn,      \* the task that carries requests from the reader to the actor
  actor,     \* the connection's actor
  stopped,   \* the connections whose actor was told to stop, by itself or by await
  closed,    \* the connections whose actor's mailbox refuses new messages
  reader,    \* create_reader_actor
  writer,    \* create_writer_actor
  heard      \* the readers that have consumed the Shutdown (writers end at once)

world == <<input, exited, ctrlC, shutdown, timeouts>>
peers == <<peer, inbound, sent>>
actors == <<actor, stopped, closed>>
tasks == <<conn, actors, reader, writer, heard>>
vars  == <<world, peers, tasks>>

\* The positions of an input's task.
\*   accepting  in its select!
\*   stopping   in component.shutdown()
\*   done       it has ended; panicked: it has panicked
InputStates == {"accepting", "stopping", "done", "panicked"}

\* The positions of a connection's task.
\*   read       about to send a read request; reserved: it owns a slot for it
\*   late       it wrote its request to a channel nobody reads any more, of the
\*              reader or of the actor, and waits for ever
\*   queued, taken  the request is in the channel, the reader works on it
\*   ask        it has a payload; askReserved: its async_ask owns a slot of the
\*              actor's mailbox; asking: it awaits the answer
\*   closing    read gave Ok(None): it is at connection.await
\*   awaitReserved, awaiting  that owns a slot of the actor's mailbox; it waits for
\*              the end of the actor
\*   gone       it has ended, or panicked; the Reader is dropped
ConnStates == {"none", "read", "reserved", "late", "queued", "taken", "ask",
               "askReserved", "asking", "closing", "awaitReserved", "awaiting", "gone"}

\* The positions of a connection's actor.
\*   idle       waits for a message
\*   busy       in the future of its AsyncAsk
\*   reserved, late, queued, taken  the same, awaiting Writer::write
\*   gone       it has stopped or panicked; the Writer is dropped
ActorStates == {"none", "idle", "busy", "reserved", "late", "queued", "taken", "gone"}

\* A reader or a writer waits for a request (idle), or works on one.
PipeStates == {"none", "idle", "working", "exited"}

TypeOK ==
  /\ input \in [Inputs -> InputStates]
  /\ exited \in BOOLEAN
  /\ ctrlC \in BOOLEAN
  /\ shutdown \in SUBSET Inputs
  /\ timeouts \in [Inputs -> 0..TimeoutLimit]
  /\ peer \in [Conns -> {"none", "open", "closed"}]
  /\ inbound \in [Conns -> Nat]
  /\ sent \in [Conns -> Nat]
  /\ conn \in [Conns -> ConnStates]
  /\ actor \in [Conns -> ActorStates]
  /\ stopped \in SUBSET Conns
  /\ closed \in SUBSET Conns
  /\ reader \in [Conns -> PipeStates]
  /\ writer \in [Conns -> PipeStates]
  /\ heard \in SUBSET Conns

\* watch::Sender::is_closed, of the notifier of the input i's listener.
IsClosed(i) ==
  \A c \in Conns : Of[c] = i => {reader[c], writer[c]} \subseteq {"none", "exited"}

\* The Shutdown of c's listener is sent.
Shutdown(c) == Of[c] \in shutdown

\* The listener's executor is dropped, and its notifier with it.
NotifierDropped(c) == input[Of[c]] \in {"done", "panicked"}

\* Dropping the runtime stops every task where it is.
Alive == ~exited

-----------------------------------------------------------------------------
(* The peers.                                                              *)

SendChunk(c) ==
  /\ peer[c] = "open"
  /\ sent[c] < MaxChunks[c]
  /\ inbound' = [inbound EXCEPT ![c] = @ + 1]
  /\ sent' = [sent EXCEPT ![c] = @ + 1]
  /\ UNCHANGED <<world, peer, tasks>>

\* The peer closes the connection, or it breaks.
Disconnect(c) ==
  /\ peer[c] = "open"
  /\ peer' = [peer EXCEPT ![c] = "closed"]
  /\ UNCHANGED <<world, inbound, sent, tasks>>

-----------------------------------------------------------------------------
(* The inputs' tasks and block_until_completion.                           *)

\* A peer connects and accept returns: the two socket tasks are spawned, the
\* listener's actor makes the connection's actor, which is started, and the
\* connection's task is spawned.
Accept(c) ==
  /\ input[Of[c]] = "accepting"
  /\ peer[c] = "none"
  /\ peer' = [peer EXCEPT ![c] = "open"]
  /\ reader' = [reader EXCEPT ![c] = "idle"]
  /\ writer' = [writer EXCEPT ![c] = "idle"]
  /\ actor' = [actor EXCEPT ![c] = "idle"]
  /\ conn' = [conn EXCEPT ![c] = "read"]
  /\ UNCHANGED <<world, inbound, sent, stopped, closed, heard>>

\* accept reports an error, which is unwrapped.
AcceptError(i) ==
  /\ input[i] = "accepting"
  /\ input' = [input EXCEPT ![i] = "panicked"]
  /\ UNCHANGED <<exited, ctrlC, shutdown, timeouts, peers, tasks>>

CtrlC ==
  /\ Alive /\ ~ctrlC
  /\ ctrlC' = TRUE
  /\ UNCHANGED <<input, exited, shutdown, timeouts, peers, tasks>>

\* Mutant of BeginShutdown: the branch of the select! wants an Ok, which is never
\* sent, and the loop goes round.
BeginShutdownOnMessage(i) ==
  /\ input[i] = "accepting"
  /\ ctrlC
  /\ UNCHANGED vars

\* The select! sees the end of the broadcast; component.shutdown() begins.
BeginShutdown(i) ==
  /\ input[i] = "accepting"
  /\ ctrlC
  /\ IF IsClosed(i)
     THEN input' = [input EXCEPT ![i] = "done"] /\ UNCHANGED <<shutdown, timeouts>>
     ELSE /\ input' = [input EXCEPT ![i] = "stopping"]
          /\ shutdown' = shutdown \cup {i}
          /\ timeouts' = [timeouts EXCEPT ![i] = 0]
  /\ UNCHANGED <<exited, ctrlC, peers, tasks>>

\* Mutants of StoppingTick: it does not look at the receivers; it never gives up.
StoppingTickBlind(i) ==
  /\ input[i] = "stopping"
  /\ input' = [input EXCEPT ![i] = "done"]
  /\ UNCHANGED <<exited, ctrlC, shutdown, timeouts, peers, tasks>>

StoppingTickUnlimited(i) ==
  /\ input[i] = "stopping"
  /\ timeouts' = [timeouts EXCEPT ![i] = @ + 1]
  /\ input' = [input EXCEPT ![i] = IF IsClosed(i) THEN "done" ELSE "stopping"]
  /\ UNCHANGED <<exited, ctrlC, shutdown, peers, tasks>>

\* A second passes in stopping(): nothing but its timer wakes the listener's
\* executor, whose mailbox nobody writes to.
StoppingTick(i) ==
  /\ input[i] = "stopping"
  /\ IF timeouts[i] = TimeoutLimit
     THEN input' = [input EXCEPT ![i] = "panicked"] /\ UNCHANGED timeouts
     ELSE /\ timeouts' = [timeouts EXCEPT ![i] = @ + 1]
          /\ input' = [input EXCEPT ![i] = IF IsClosed(i) THEN "done" ELSE "stopping"]
  /\ UNCHANGED <<exited, ctrlC, shutdown, peers, tasks>>

\* Mutant of Exit: the end of one input is enough.
ExitFirst ==
  /\ Alive
  /\ \E i \in Inputs : input[i] \in {"done", "panicked"}
  /\ exited' = TRUE
  /\ UNCHANGED <<input, ctrlC, shutdown, timeouts, peers, tasks>>

\* The inputs' tasks, awaited one after the other, have all ended, one way or the
\* other: block_on returns and the runtime is dropped.
Exit ==
  /\ Alive
  /\ \A i \in Inputs : input[i] \in {"done", "panicked"}
  /\ exited' = TRUE
  /\ UNCHANGED <<input, ctrlC, shutdown, timeouts, peers, tasks>>

-----------------------------------------------------------------------------
(* The connection's task.                                                  *)

\* Reader::read: the send gets its slot, writes to it, or finds the reader gone.
ReadReserve(c) ==
  /\ conn[c] = "read"
  /\ reader[c] # "exited"
  /\ conn' = [conn EXCEPT ![c] = "reserved"]
  /\ UNCHANGED <<world, peers, actors, reader, writer, heard>>

ReadPush(c) ==
  /\ conn[c] = "reserved"
  /\ conn' = [conn EXCEPT ![c] = IF reader[c] = "exited" THEN "late" ELSE "queued"]
  /\ UNCHANGED <<world, peers, actors, reader, writer, heard>>

ReadRefused(c) ==
  /\ conn[c] = "read"
  /\ reader[c] = "exited"
  /\ conn' = [conn EXCEPT ![c] = "closing"]
  /\ UNCHANGED <<world, peers, actors, reader, writer, heard>>

\* connection.async_ask(payload).  On a mailbox that is closed it panics.
AskReserve(c) ==
  /\ conn[c] = "ask"
  /\ conn' = [conn EXCEPT ![c] = IF c \in closed THEN "gone" ELSE "askReserved"]
  /\ UNCHANGED <<world, peers, actors, reader, writer, heard>>

AskPush(c) ==
  /\ conn[c] = "askReserved"
  /\ IF actor[c] = "gone"
     THEN conn' = [conn EXCEPT ![c] = "late"] /\ UNCHANGED actor
     ELSE /\ conn' = [conn EXCEPT ![c] = "asking"]
          /\ actor' = [actor EXCEPT ![c] = "busy"]
  /\ UNCHANGED <<world, peers, stopped, closed, reader, writer, heard>>

\* Mutant of AwaitReserve: connection.await is missing.
ForgetActor(c) ==
  /\ conn[c] = "closing"
  /\ conn' = [conn EXCEPT ![c] = "gone"]
  /\ UNCHANGED <<world, peers, actors, reader, writer, heard>>

\* connection.await: MailboxClosed at once, though the actor may still be draining
\* what it has, or a slot of the mailbox for the message that stops the actor.
AwaitReserve(c) ==
  /\ conn[c] = "closing"
  /\ conn' = [conn EXCEPT ![c] = IF c \in closed THEN "gone" ELSE "awaitReserved"]
  /\ UNCHANGED <<world, peers, actors, reader, writer, heard>>

\* The actor, which has no other request, handles the message: subscribe_and_stop.
AwaitPush(c) ==
  /\ conn[c] = "awaitReserved"
  /\ IF actor[c] = "gone"
     THEN conn' = [conn EXCEPT ![c] = "late"] /\ UNCHANGED stopped
     ELSE /\ conn' = [conn EXCEPT ![c] = "awaiting"]
          /\ stopped' = stopped \cup {c}
  /\ UNCHANGED <<world, peers, actor, closed, reader, writer, heard>>

\* The actor is handed over, or has panicked.
AwaitActor(c) ==
  /\ conn[c] = "awaiting"
  /\ actor[c] = "gone"
  /\ conn' = [conn EXCEPT ![c] = "gone"]
  /\ UNCHANGED <<world, peers, actors, reader, writer, heard>>

-----------------------------------------------------------------------------
(* The connection's actor: what its handler may do.                        *)

\* A handler returns: the actor goes on, has been stopped, or aborted; or it panics.
Settle(c) ==
  \/ /\ actor' = [actor EXCEPT ![c] = "idle"]
     /\ \/ UNCHANGED <<stopped, closed>>
        \/ stopped' = stopped \cup {c} /\ UNCHANGED closed
        \/ stopped' = stopped \cup {c} /\ closed' = closed \cup {c}
  \/ /\ actor' = [actor EXCEPT ![c] = "gone"]
     /\ closed' = closed \cup {c}
     /\ UNCHANGED stopped

\* The connection's task goes on in every case.
Answer(c) ==
  /\ actor[c] = "busy"
  /\ Settle(c)
  /\ conn' = [conn EXCEPT ![c] = "read"]
  /\ UNCHANGED <<world, peers, reader, writer, heard>>

\* A message of its own (to itself, from its tasks) stops the actor or panics, with
\* its connection none the wiser.
ActorFails(c) ==
  /\ c \in Failing
  /\ actor[c] = "idle"
  /\ Settle(c)
  /\ UNCHANGED <<world, peers, conn, reader, writer, heard>>

\* stopping() finds no task of the actor's own left.
CloseMailbox(c) ==
  /\ actor[c] = "idle"
  /\ c \in stopped \ closed
  /\ closed' = closed \cup {c}
  /\ UNCHANGED <<world, peers, conn, actor, stopped, reader, writer, heard>>

\* stop() has drained the mailbox; what is written to it later is late.
EndActor(c) ==
  /\ actor[c] = "idle"
  /\ c \in closed
  /\ actor' = [actor EXCEPT ![c] = "gone"]
  /\ UNCHANGED <<world, peers, conn, stopped, closed, reader, writer, heard>>

\* Writer::write.  (Without a writer it is an error at once.)
WriteReserve(c) ==
  /\ actor[c] = "busy"
  /\ writer[c] # "exited"
  /\ actor' = [actor EXCEPT ![c] = "reserved"]
  /\ UNCHANGED <<world, peers, conn, stopped, closed, reader, writer, heard>>

WritePush(c) ==
  /\ actor[c] = "reserved"
  /\ actor' = [actor EXCEPT ![c] = IF writer[c] = "exited" THEN "late" ELSE "queued"]
  /\ UNCHANGED <<world, peers, conn, stopped, closed, reader, writer, heard>>

-----------------------------------------------------------------------------
(* create_reader_actor.                                                    *)

TakeRead(c) ==
  /\ reader[c] = "idle"
  /\ conn[c] = "queued"
  /\ reader' = [reader EXCEPT ![c] = "working"]
  /\ conn' = [conn EXCEPT ![c] = "taken"]
  /\ UNCHANGED <<world, peers, actors, writer, heard>>

\* Mutant of ReadFrame: the payload ends the outer loop, not the inner one.
ReadFrameOnce(c) ==
  /\ reader[c] = "working"
  /\ inbound[c] > 0
  /\ inbound' = [inbound EXCEPT ![c] = @ - 1]
  /\ reader' = [reader EXCEPT ![c] = "exited"]
  /\ conn' = [conn EXCEPT ![c] = "ask"]
  /\ UNCHANGED <<world, peer, sent, actors, writer, heard>>

\* A frame is read; the payload is complete, or needs more.
ReadFrame(c) ==
  /\ reader[c] = "working"
  /\ inbound[c] > 0
  /\ inbound' = [inbound EXCEPT ![c] = @ - 1]
  /\ \/ /\ reader' = [reader EXCEPT ![c] = "idle"]
        /\ conn' = [conn EXCEPT ![c] = "ask"]
     \/ UNCHANGED <<reader, conn>>
  /\ UNCHANGED <<world, peer, sent, actors, writer, heard>>

\* The inner loop is left without a payload: the sender is dropped.
GiveUpRead(c) ==
  /\ reader' = [reader EXCEPT ![c] = "idle"]
  /\ conn' = [conn EXCEPT ![c] = "closing"]

\* The reader panics with a frame before it: try_read fails on what poll_peek saw, or
\* the user's recv panics.  The request's sender goes with the task.
ReadPanic(c) ==
  /\ reader[c] = "working"
  /\ inbound[c] > 0
  /\ inbound' = [inbound EXCEPT ![c] = @ - 1]
  /\ reader' = [reader EXCEPT ![c] = "exited"]
  /\ conn' = [conn EXCEPT ![c] = "closing"]
  /\ UNCHANGED <<world, peer, sent, actors, writer, heard>>

\* The end of the stream, or an error of poll_peek.
ReadEnd(c) ==
  /\ reader[c] = "working"
  /\ inbound[c] = 0
  /\ peer[c] = "closed"
  /\ GiveUpRead(c)
  /\ UNCHANGED <<world, peers, actors, writer, heard>>

\* While reading: a Shutdown is consumed here, a dead supervisor is not.
ReadInterrupted(c) ==
  /\ reader[c] = "working"
  /\ \/ /\ Shutdown(c) /\ c \notin heard
        /\ heard' = heard \cup {c}
     \/ /\ NotifierDropped(c)
        /\ ~Shutdown(c) \/ c \in heard
        /\ UNCHANGED heard
  /\ GiveUpRead(c)
  /\ UNCHANGED <<world, peers, actors, writer>>

\* Mutant of ReaderExit: the reader does not see that nobody will ask again.
ReaderExitOnShutdown(c) ==
  /\ reader[c] = "idle"
  /\ \/ Shutdown(c) /\ c \notin heard
     \/ NotifierDropped(c)
  /\ reader' = [reader EXCEPT ![c] = "exited"]
  /\ conn' = [conn EXCEPT ![c] = IF @ = "queued" THEN "closing" ELSE @]
  /\ UNCHANGED <<world, peers, actors, writer, heard>>

\* Between two requests: the Shutdown, a dead supervisor, or a Reader that is
\* dropped end the task.  A request in the channel goes with it.
ReaderExit(c) ==
  /\ reader[c] = "idle"
  /\ \/ Shutdown(c) /\ c \notin heard
     \/ NotifierDropped(c)
     \/ conn[c] = "gone"
  /\ reader' = [reader EXCEPT ![c] = "exited"]
  /\ conn' = [conn EXCEPT ![c] = IF @ = "queued" THEN "closing" ELSE @]
  /\ UNCHANGED <<world, peers, actors, writer, heard>>

-----------------------------------------------------------------------------
(* create_writer_actor.                                                    *)

TakeWrite(c) ==
  /\ writer[c] = "idle"
  /\ actor[c] = "queued"
  /\ writer' = [writer EXCEPT ![c] = "working"]
  /\ actor' = [actor EXCEPT ![c] = "taken"]
  /\ UNCHANGED <<world, peers, conn, stopped, closed, reader, heard>>

\* write_all has a result.
WriteDone(c) ==
  /\ writer[c] = "working"
  /\ writer' = [writer EXCEPT ![c] = "idle"]
  /\ actor' = [actor EXCEPT ![c] = "busy"]
  /\ UNCHANGED <<world, peers, conn, stopped, closed, reader, heard>>

\* The Shutdown, a dead supervisor, the end of the reader or, between two
\* requests, a Writer that is dropped.  Who waits for a write gets an error.
WriterExit(c) ==
  /\ writer[c] \in {"idle", "working"}
  /\ \/ Shutdown(c) \/ NotifierDropped(c) \/ reader[c] = "exited"
     \/ writer[c] = "idle" /\ actor[c] = "gone"
  /\ writer' = [writer EXCEPT ![c] = "exited"]
  /\ actor' = [actor EXCEPT ![c] = IF @ \in {"queued", "taken"} THEN "busy" ELSE @]
  /\ UNCHANGED <<world, peers, conn, stopped, closed, reader, heard>>

-----------------------------------------------------------------------------

Init ==
  /\ input = [i \in Inputs |-> "accepting"]
  /\ exited = FALSE
  /\ ctrlC = FALSE
  /\ shutdown = {}
  /\ timeouts = [i \in Inputs |-> 0]
  /\ peer = [c \in Conns |-> "none"]
  /\ inbound = [c \in Conns |-> 0]
  /\ sent = [c \in Conns |-> 0]
  /\ conn = [c \in Conns |-> "none"]
  /\ actor = [c \in Conns |-> "none"]
  /\ stopped = {}
  /\ closed = {}
  /\ reader = [c \in Conns |-> "none"]
  /\ writer = [c \in Conns |-> "none"]
  /\ heard = {}

PeerStep(c) == Alive /\ (Accept(c) \/ SendChunk(c) \/ Disconnect(c))

InputStep(i) == BeginShutdown(i) \/ StoppingTick(i)

ConnStep(c) ==
  /\ Alive
  /\ \/ ReadReserve(c) \/ ReadPush(c) \/ ReadRefused(c)
     \/ AskReserve(c) \/ AskPush(c)
     \/ AwaitReserve(c) \/ AwaitPush(c) \/ AwaitActor(c)

ActorStep(c) == Alive /\ (CloseMailbox(c) \/ EndActor(c) \/ WritePush(c))

HandlerStep(c) == Alive /\ (Answer(c) \/ ActorFails(c) \/ WriteReserve(c))

ReaderStep(c) ==
  /\ Alive
  /\ \/ TakeRead(c) \/ ReadFrame(c) \/ ReadPanic(c) \/ ReadEnd(c)
     \/ ReadInterrupted(c) \/ ReaderExit(c)

WriterStep(c) == Alive /\ (TakeWrite(c) \/ WriterExit(c))

Next ==
  \/ \E i \in Inputs : InputStep(i) \/ AcceptError(i)
  \/ CtrlC \/ Exit
  \/ \E c \in Conns :
       \/ PeerStep(c)
       \/ ConnStep(c) \/ ActorStep(c) \/ HandlerStep(c) \/ ReaderStep(c) \/ WriterStep(c)
       \/ Alive /\ WriteDone(c)

Spec == Init /\ [][Next]_vars

\* The runtime polls every task that is ready and fires its timers.  Peers need
\* not do anything (a peer that does not read holds up a write until it is
\* gone), and the handler of a connection's actor may never return.
Fairness ==
  /\ WF_vars(Exit)
  /\ \A i \in Inputs : WF_vars(InputStep(i))
  /\ \A c \in Conns :
       /\ WF_vars(ConnStep(c))
       /\ WF_vars(ActorStep(c))
       /\ WF_vars(ReaderStep(c))
       /\ WF_vars(WriterStep(c))
       /\ WF_vars(Alive /\ peer[c] = "closed" /\ WriteDone(c))

FairSpec == Spec /\ Fairness

-----------------------------------------------------------------------------
(* Properties.                                                             *)

\* component.shutdown() returns only when no reader or writer is left: no socket
\* is still served by the listener's tasks when the input is turned off.
SocketsClosedFirst ==
  \A c \in Conns :
    input[Of[c]] = "done" => {reader[c], writer[c]} \subseteq {"none", "exited"}

\* A handler can write its answer: as long as its input runs, whatever becomes of
\* the others, the writer of a connection does not end, by the end of the reader
\* or otherwise, before the request being served.
WriterOutlivesRequest ==
  \A c \in Conns :
    input[Of[c]] = "accepting" /\ actor[c] \notin {"none", "idle", "gone"}
      => writer[c] # "exited"

\* The connection's task is out of its loop, and asks its actor nothing more.
Leaving == {"closing", "awaitReserved", "awaiting", "late", "gone"}

\* The strengthening of the invariants here that every step keeps.  Who serves whom:
\* a request being served has its asker waiting for it, at each of the three
\* hand-overs.  A connection's task ends only when its actor takes no more messages;
\* while its input runs, a reader ends, by a panic included, only when that task asks
\* for nothing any more, and a writer only then or after the actor.
ConnectionInv ==
  /\ \A i \in Inputs : input[i] = "accepting" => i \notin shutdown
  /\ exited => \A i \in Inputs : input[i] \in {"done", "panicked"}
  /\ SocketsClosedFirst
  /\ \A c \in Conns :
       /\ reader[c] = "working" => conn[c] = "taken"
       /\ writer[c] = "working" => actor[c] = "taken"
       /\ actor[c] \in {"busy", "reserved", "late", "queued", "taken"} => conn[c] = "asking"
       /\ actor[c] = "gone" \/ conn[c] = "gone" => c \in closed
       /\ input[Of[c]] = "accepting" /\ reader[c] = "exited" => conn[c] \in Leaving
       /\ input[Of[c]] = "accepting" /\ writer[c] = "exited"
            => actor[c] = "gone" \/ conn[c] \in Leaving

\* After a disconnect, a panic of the reader or a Shutdown the reader took for the end
\* of a read, or when its input has ended and another keeps the World going, nothing of
\* a connection is left, whatever its actor did, unless the handler never returns or
\* the task was late for a reader or an actor.
ConnectionCleanup ==
  \A c \in Conns :
    \/ <>[](conn[c] = "asking")
    \/ (\/ peer[c] = "closed" \/ reader[c] = "exited" \/ c \in heard
        \/ conn[c] # "none" /\ NotifierDropped(c)) ~>
         \/ exited \/ conn[c] = "late"
         \/ /\ conn[c] = "gone" /\ actor[c] = "gone"
            /\ reader[c] = "exited" /\ writer[c] = "exited"

\* Ctrl+C ends the World: block_until_completion returns, even if a peer stops
\* reading or a handler never returns.
WorldExits == ctrlC ~> exited

\* The World goes on while an input does: its end, by Ctrl+C or by the failure of
\* the last input, leaves no socket open that an input was still waiting for.
ExitAfterInputs ==
  exited => \A c \in Conns :
    input[Of[c]] = "panicked" \/ {reader[c], writer[c]} \subseteq {"none", "exited"}

-----------------------------------------------------------------------------
(* What the code says of itself and does not keep.                         *)

\* block_until_completion: "Ctrl+C is selected, which we will communicate with
\* the actor system to start cleaning up and completing tasks".  An input that
\* was turned off without a timeout has no request half served.
RequestsCompleted ==
  \A c \in Conns :
    input[Of[c]] = "done" => actor[c] \in {"none", "idle", "gone"}

=============================================================================
