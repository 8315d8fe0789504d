----------------------------- MODULE WorldProofs -----------------------------
(***************************************************************************)
(* Proofs for World, for any sets of inputs and connections and any bounds.*)
(***************************************************************************)
EXTENDS World, TLAPS

\* The initial state has the right type.
LEMMA InitType == Init => TypeOK
<1> SUFFICES ASSUME Init PROVE TypeOK
  OBVIOUS
<1>1. ctrlC \in BOOLEAN /\ exited \in BOOLEAN
  BY Zenon DEF Init
<1>2. timeouts \in [Inputs -> 0..TimeoutLimit]
  BY BoundsAssumption DEF Init
<1>3. QED
  BY <1>1, <1>2 DEF Init, TypeOK, InputStates, ConnStates, ActorStates, PipeStates

\* Every step keeps the type.
LEMMA NextType == TypeOK /\ [Next]_vars => TypeOK'
<1> SUFFICES ASSUME TypeOK, [Next]_vars PROVE TypeOK'
  OBVIOUS
<1> USE BoundsAssumption, InputsAssumption
    DEF TypeOK, InputStates, ConnStates, ActorStates, PipeStates
<1>1. CASE UNCHANGED vars
  BY <1>1 DEF vars, world, peers, tasks, actors
<1>2. ASSUME NEW i \in Inputs, InputStep(i) \/ AcceptError(i) PROVE TypeOK'
  <2>1. CASE AcceptError(i)
    BY <2>1 DEF AcceptError, peers, tasks, actors
  <2>2. CASE StoppingTick(i)
    <3>1. timeouts' \in [Inputs -> 0..TimeoutLimit]
      BY <2>2 DEF StoppingTick
    <3>2. QED
      BY <2>2, <3>1 DEF StoppingTick, peers, tasks, actors
  <2>3. CASE BeginShutdown(i)
    <3>1. timeouts' \in [Inputs -> 0..TimeoutLimit]
      BY <2>3 DEF BeginShutdown
    <3>2. QED
      BY <2>3, <3>1 DEF BeginShutdown, peers, tasks, actors
  <2>4. QED
    BY <1>2, <2>1, <2>2, <2>3 DEF InputStep
<1>2a. CASE CtrlC
  <2>1. ctrlC' \in BOOLEAN
    BY <1>2a, Zenon DEF CtrlC
  <2>2. QED
    BY <1>2a, <2>1 DEF CtrlC, peers, tasks, actors
<1>2b. CASE Exit
  <2>1. exited' \in BOOLEAN
    BY <1>2b, Zenon DEF Exit
  <2>2. QED
    BY <1>2b, <2>1 DEF Exit, peers, tasks, actors
<1>3. ASSUME NEW c \in Conns, PeerStep(c) PROVE TypeOK'
  BY <1>3, SMTT(20) DEF PeerStep, Accept, SendChunk, Disconnect, world, tasks, actors
<1>4. ASSUME NEW c \in Conns, ConnStep(c) PROVE TypeOK'
  BY <1>4 DEF ConnStep, ReadReserve, ReadPush, ReadRefused, AskReserve, AskPush,
              AwaitReserve, AwaitPush, AwaitActor, world, peers, actors
<1>5. ASSUME NEW c \in Conns, ActorStep(c) \/ HandlerStep(c) PROVE TypeOK'
  BY <1>5 DEF ActorStep, HandlerStep, CloseMailbox, EndActor, WritePush, Answer,
              ActorFails, Settle, WriteReserve, world, peers
<1>6. ASSUME NEW c \in Conns, ReaderStep(c) PROVE TypeOK'
  <2>1. CASE TakeRead(c) \/ ReadFrame(c) \/ ReadPanic(c)
    BY <2>1 DEF TakeRead, ReadFrame, ReadPanic, world, peers, actors
  <2>2. CASE ReadEnd(c) \/ ReadInterrupted(c) \/ ReaderExit(c)
    BY <2>2 DEF ReadEnd, ReadInterrupted, GiveUpRead, ReaderExit, world, peers, actors
  <2>3. QED
    BY <1>6, <2>1, <2>2 DEF ReaderStep
<1>7. ASSUME NEW c \in Conns, WriterStep(c) \/ WriteDone(c) PROVE TypeOK'
  BY <1>7 DEF WriterStep, TakeWrite, WriteDone, WriterExit, world, peers
<1>8. QED
  BY <1>1, <1>2, <1>2a, <1>2b, <1>3, <1>4, <1>5, <1>6, <1>7 DEF Next

\* Every reachable state has the right type: the timeout counter of stopping()
\* stays within its limit and every task in one of its positions.
THEOREM TypeCorrect == Spec => []TypeOK
<1>1. TypeOK /\ [Next]_vars => TypeOK'
  BY NextType
<1>2. QED
  BY InitType, <1>1, PTL DEF Spec

\* The initial state satisfies the inductive invariant.
LEMMA InitInv == Init => ConnectionInv
BY InputsAssumption DEF Init, ConnectionInv, SocketsClosedFirst

\* Every step keeps it.
LEMMA NextInv == TypeOK /\ ConnectionInv /\ [Next]_vars => ConnectionInv'
<1> SUFFICES ASSUME TypeOK, ConnectionInv, [Next]_vars PROVE ConnectionInv'
  OBVIOUS
<1> USE InputsAssumption DEF TypeOK, ConnectionInv, SocketsClosedFirst, Leaving
<1>1. CASE UNCHANGED vars
  BY <1>1 DEF vars, world, peers, tasks, actors
<1>2. ASSUME NEW i \in Inputs, InputStep(i) \/ AcceptError(i) PROVE ConnectionInv'
  BY <1>2 DEF InputStep, AcceptError, BeginShutdown, StoppingTick, IsClosed, peers, tasks, actors
<1>2a. CASE CtrlC
  BY <1>2a DEF CtrlC, peers, tasks, actors
<1>2b. CASE Exit
  BY <1>2b DEF Exit, peers, tasks, actors
<1>3. ASSUME NEW c \in Conns, PeerStep(c) PROVE ConnectionInv'
  BY <1>3 DEF PeerStep, Accept, SendChunk, Disconnect, world, tasks, actors
<1>4. ASSUME NEW c \in Conns, ConnStep(c) PROVE ConnectionInv'
  BY <1>4 DEF ConnStep, ReadReserve, ReadPush, ReadRefused, AskReserve, AskPush,
              AwaitReserve, AwaitPush, AwaitActor, world, peers, actors
<1>5. ASSUME NEW c \in Conns, ActorStep(c) \/ HandlerStep(c) PROVE ConnectionInv'
  BY <1>5 DEF ActorStep, HandlerStep, CloseMailbox, EndActor, WritePush, Answer,
              ActorFails, Settle, WriteReserve, world, peers
<1>6. ASSUME NEW c \in Conns, ReaderStep(c) PROVE ConnectionInv'
  <2>1. CASE TakeRead(c) \/ ReadFrame(c) \/ ReadPanic(c)
    BY <2>1 DEF TakeRead, ReadFrame, ReadPanic, world, peers, actors
  <2>2. CASE ReadEnd(c) \/ ReadInterrupted(c) \/ ReaderExit(c)
    BY <2>2 DEF ReadEnd, ReadInterrupted, GiveUpRead, ReaderExit, NotifierDropped, Shutdown,
                world, peers, actors
  <2>3. QED
    BY <1>6, <2>1, <2>2 DEF ReaderStep
<1>7. ASSUME NEW c \in Conns, WriterStep(c) \/ WriteDone(c) PROVE ConnectionInv'
  BY <1>7 DEF WriterStep, TakeWrite, WriteDone, WriterExit, NotifierDropped, Shutdown, world, peers
<1>8. QED
  BY <1>1, <1>2, <1>2a, <1>2b, <1>3, <1>4, <1>5, <1>6, <1>7 DEF Next

\* The inductive invariant holds of every reachable state.
THEOREM InvariantHolds == Spec => []ConnectionInv
<1>1. TypeOK /\ ConnectionInv /\ [Next]_vars => ConnectionInv'
  BY NextInv
<1>2. QED
  BY InitInv, TypeCorrect, <1>1, PTL DEF Spec

\* With any number of connections, component.shutdown() leaves no reader or
\* writer behind.
THEOREM SocketsClosedFirstHolds == Spec => []SocketsClosedFirst
<1>1. ConnectionInv => SocketsClosedFirst
  BY DEF ConnectionInv
<1>2. QED
  BY InvariantHolds, <1>1, PTL

\* With any number of connections, a handler of an actor whose World is not
\* shutting down has a live writer.
THEOREM WriterOutlivesRequestHolds == Spec => []WriterOutlivesRequest
<1>1. TypeOK /\ ConnectionInv => WriterOutlivesRequest
  BY DEF TypeOK, ActorStates, ConnectionInv, WriterOutlivesRequest, Leaving
<1>2. QED
  BY TypeCorrect, InvariantHolds, <1>1, PTL

\* With any number of inputs, the World does not exit while one of them still has
\* sockets to wait for.
THEOREM ExitAfterInputsHolds == Spec => []ExitAfterInputs
<1>1. ConnectionInv => ExitAfterInputs
  BY InputsAssumption DEF ConnectionInv, SocketsClosedFirst, ExitAfterInputs
<1>2. QED
  BY InvariantHolds, <1>1, PTL

=============================================================================
