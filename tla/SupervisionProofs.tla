-------------------------- MODULE SupervisionProofs --------------------------
(***************************************************************************)
(* Proofs about Supervision, for every tree of actors, every script, every *)
(* mailbox size and every timeout limit.                                   *)
(***************************************************************************)
EXTENDS Supervision, TLAPS

\* Sequences over a set: what Append, Head and Tail of the mailbox give.
LEMMA AppendType ==
  ASSUME NEW S, NEW q \in Seq(S), NEW e \in S PROVE Append(q, e) \in Seq(S)
OBVIOUS

\* Taking the oldest message of a non-empty mailbox keeps its type.
LEMMA HeadTailType ==
  ASSUME NEW S, NEW q \in Seq(S), q # <<>>
  PROVE  Head(q) \in S /\ Tail(q) \in Seq(S)
OBVIOUS

\* The positions are what the proofs split on; a leaf that needs to know that
\* two of them differ expands them.
LEMMA InitType == Init => TypeOK
<1> SUFFICES ASSUME Init PROVE TypeOK
  OBVIOUS
<1> USE ActorsAssumption, BoundsAssumption DEF Init
<1>1. pc \in [Actors -> Positions]
  BY DEF Positions, Executing, Handling
<1>2. mailbox \in [Actors -> Seq(Message)]
  OBVIOUS
<1>3. status \in [Requests -> Statuses] /\ fate \in [Actors -> Fates]
  BY DEF Statuses, Fates
<1> QED
  BY <1>1, <1>2, <1>3 DEF TypeOK

\* A message put into any mailbox.
LEMMA SendType ==
  ASSUME TypeOK, NEW p, NEW m \in Message
  PROVE  [mailbox EXCEPT ![p] = Append(mailbox[p], m)] \in [Actors -> Seq(Message)]
<1>1. CASE p \in Actors
  <2>1. Append(mailbox[p], m) \in Seq(Message)
    BY <1>1, AppendType DEF TypeOK
  <2> QED
    BY <1>1, <2>1 DEF TypeOK
<1>2. CASE p \notin Actors
  BY <1>2 DEF TypeOK
<1> QED
  BY <1>1, <1>2

\* Every caller keeps the types.
LEMMA CallerType == ASSUME TypeOK, NEW r \in Requests, CallerStep(r) PROVE TypeOK'
<1> USE ScriptAssumption DEF control, death
<1>1. To(r) \in Actors /\ r \in Message
  BY DEF Message
<1>2. CASE Reserve(r)
  BY <1>2 DEF Reserve, TypeOK, Statuses
<1>3. CASE Push(r)
  <2>1. mailbox' \in [Actors -> Seq(Message)]
    <3>1. mailbox \in [Actors -> Seq(Message)]
      BY DEF TypeOK
    <3>2. [mailbox EXCEPT ![To(r)] = Append(mailbox[To(r)], r)] \in [Actors -> Seq(Message)]
      BY <1>1, SendType
    <3> QED
      BY <1>3, <3>1, <3>2 DEF Push
  <2> QED
    BY <1>3, <2>1 DEF Push, TypeOK, Statuses
<1>4. CASE Reject(r)
  BY <1>4 DEF Reject, TypeOK, Statuses
<1>5. CASE Abandon(r)
  BY <1>5 DEF Abandon, TypeOK, Statuses
<1> QED
  BY <1>2, <1>3, <1>4, <1>5 DEF CallerStep

\* A panic (Unwind) keeps the types.
LEMMA UnwindType == ASSUME TypeOK, NEW a \in Actors, Unwind(a) PROVE TypeOK'
<1>1. pc' \in [Actors -> Positions]
  BY DEF Unwind, TypeOK, Positions
<1>2. mailbox' \in [Actors -> Seq(Message)]
  BY DEF Unwind, TypeOK
<1>3. status' \in [Requests -> Statuses]
  BY DEF Unwind, TypeOK, Statuses
<1> QED
  BY <1>1, <1>2, <1>3 DEF Unwind, TypeOK

\* Returning from process_message keeps pc, state and cur well typed.
LEMMA ReturnType ==
  ASSUME TypeOK, NEW a \in Actors, pc[a] \in Handling,
         NEW st \in {"Running", "Stopping", "Stopped"}, Return(a, st)
  PROVE  /\ pc' \in [Actors -> Positions]
         /\ state' \in [Actors -> {"Running", "Stopping", "Stopped"}]
         /\ cur' \in [Actors -> Message \cup {Nil}]
<1>1. AfterMessage(pc[a], st) \in Positions
  BY DEF AfterMessage, Handling, Positions, Executing
<1> QED
  BY <1>1 DEF Return, TypeOK

\* Every outcome of process_message keeps the types.
LEMMA ProcessMessageType ==
  ASSUME TypeOK, NEW a \in Actors, ProcessMessage(a) PROVE TypeOK'
<1> USE DEF control, death, Serves, Handled
<1>1. state[a] \in {"Running", "Stopping", "Stopped"}
  BY DEF TypeOK
<1>2. CASE HandleNormal(a)
  BY <1>1, <1>2, ReturnType DEF HandleNormal, TypeOK, Statuses
<1>3. CASE HandleStop(a)
  BY <1>1, <1>3, ReturnType DEF HandleStop, TypeOK, Statuses
<1>4. CASE HandleAbort(a)
  <2>1. closed' \in [Actors -> BOOLEAN] /\ aborted' \in SUBSET Actors
    <3>1. \/ closed' = closed /\ aborted' = aborted
          \/ closed' = [closed EXCEPT ![a] = TRUE] /\ aborted' = aborted \cup {a}
      BY <1>4 DEF HandleAbort
    <3> QED
      BY <3>1 DEF TypeOK
  <2>2. /\ pc' \in [Actors -> Positions]
        /\ state' \in [Actors -> {"Running", "Stopping", "Stopped"}]
        /\ cur' \in [Actors -> Message \cup {Nil}]
    BY <1>1, <1>4, ReturnType DEF HandleAbort
  <2> QED
    BY <1>4, <2>1, <2>2 DEF HandleAbort, TypeOK, Statuses
<1>5. CASE HandleSpawn(a)
  <2>1. AfterMessage(pc[a], "Running") \in Positions
    BY <1>5 DEF HandleSpawn, AfterMessage, Handling, Positions, Executing
  <2>2. pc' \in [Actors -> Positions]
    BY <1>5, <2>1 DEF HandleSpawn, TypeOK, Positions, Executing
  <2> QED
    BY <1>5, <2>2 DEF HandleSpawn, TypeOK, Statuses
<1>6. CASE HandlePanic(a)
  BY <1>6, UnwindType DEF HandlePanic
<1>7. CASE HandleIntoFuture(a)
  <2>1. status' \in [Requests -> Statuses]
    BY <1>7 DEF HandleIntoFuture, TypeOK, Statuses
  <2>2. subscriber' \in [Actors -> Waits \cup {Nil}]
    BY <1>7 DEF HandleIntoFuture, TypeOK
  <2>3. /\ pc' \in [Actors -> Positions]
        /\ state' \in [Actors -> {"Running", "Stopping", "Stopped"}]
        /\ cur' \in [Actors -> Message \cup {Nil}]
    BY <1>1, <1>7, ReturnType DEF HandleIntoFuture
  <2> QED
    BY <1>7, <2>1, <2>2, <2>3 DEF HandleIntoFuture, TypeOK
<1>8. CASE HandleDeadActor(a)
  BY <1>1, <1>8, ReturnType DEF HandleDeadActor, TypeOK, Fates
<1> QED
  BY <1>2, <1>3, <1>4, <1>5, <1>6, <1>7, <1>8 DEF ProcessMessage

\* Every step of shutdown(), stopping() and stop() keeps the types.
LEMMA ShutdownType ==
  ASSUME TypeOK, NEW a \in Actors, Shutdown(a) PROVE TypeOK'
<1> USE DEF control, death, Positions, Executing, Handling
<1>1. CASE BeginShutdown(a)
  BY <1>1 DEF BeginShutdown, TypeOK
<1>2. CASE BeginStopping(a)
  <2>1. CASE AllChildrenDead(a)
    BY <2>1 DEF AllChildrenDead, TypeOK
  <2>2. CASE ~AllChildrenDead(a)
    <3>1. /\ shutdown' = [shutdown EXCEPT ![a] = TRUE]
          /\ timeouts' = [timeouts EXCEPT ![a] = 0]
          /\ pc' = [pc EXCEPT ![a] = "stopping"]
          /\ UNCHANGED <<state, mailbox, closed, cur, rx, subscriber, status, aborted, death>>
      BY <1>2, <2>2 DEF BeginStopping
    <3>2. 0 \in 0..TimeoutLimit
      BY BoundsAssumption
    <3> QED
      BY <3>1, <3>2 DEF TypeOK
  <2> QED
    BY <2>1, <2>2
<1>3. CASE StoppingMailboxClosed(a)
  BY <1>3 DEF StoppingMailboxClosed, TypeOK
<1>4. CASE StoppingTimeout(a)
  <2>1. CASE timeouts[a] = TimeoutLimit
    BY <1>4, <2>1, UnwindType DEF StoppingTimeout
  <2>2. CASE timeouts[a] # TimeoutLimit
    <3>1. timeouts[a] + 1 \in 0..TimeoutLimit
      BY <2>2, BoundsAssumption DEF TypeOK
    <3> QED
      BY <1>4, <2>2, <3>1, ZenonT(30) DEF StoppingTimeout, TypeOK
  <2> QED
    BY <2>1, <2>2
<1>5. CASE CheckChildren(a)
  BY <1>5 DEF CheckChildren, AllChildrenDead, TypeOK
<1>6. CASE DrainEmpty(a)
  BY <1>6 DEF DrainEmpty, TypeOK
<1> QED
  BY <1>1, <1>2, <1>3, <1>4, <1>5, <1>6 DEF Shutdown

\* Every step after the executor has returned keeps the types.
LEMMA SuperviseType ==
  ASSUME TypeOK, NEW a \in Actors, Supervise(a) PROVE TypeOK'
<1> USE ActorsAssumption DEF control, death, Positions
<1>1. CASE ExitRoot(a)
  BY <1>1 DEF ExitRoot, TakeSubscriber, Answered, TypeOK, Statuses, Waits
<1>2. CASE ExitChild(a)
  <2>1. status' \in [Requests -> Statuses] /\ subscriber' \in [Actors -> Waits \cup {Nil}]
    BY <1>2 DEF ExitChild, TakeSubscriber, Answered, TypeOK, Statuses, Waits
  <2> QED
    BY <1>2, <2>1, ZenonT(30) DEF ExitChild, TypeOK, Fates
<1>3. CASE ReportDeath(a) \/ ReportPanic(a)
  <2>1. a \in Message
    BY DEF Message
  <2>2. \/ mailbox' = mailbox
        \/ mailbox' = [mailbox EXCEPT ![Parent[a]] = Append(mailbox[Parent[a]], a)]
    BY <1>3 DEF ReportDeath, ReportPanic
  <2>3. mailbox' \in [Actors -> Seq(Message)]
    <3>1. mailbox \in [Actors -> Seq(Message)]
      BY DEF TypeOK
    <3>2. [mailbox EXCEPT ![Parent[a]] = Append(mailbox[Parent[a]], a)]
            \in [Actors -> Seq(Message)]
      BY <2>1, SendType
    <3> QED
      BY <2>2, <3>1, <3>2
  <2> QED
    BY <1>3, <2>3 DEF ReportDeath, ReportPanic, TypeOK, Fates
<1>4. CASE DropReceiver(a)
  BY <1>4 DEF DropReceiver, TypeOK
<1>5. CASE ReportUnreachable(a)
  BY <1>5 DEF ReportUnreachable, TypeOK, Fates
<1> QED
  BY <1>1, <1>2, <1>3, <1>4, <1>5 DEF Supervise

\* Every step of an actor's tasks keeps the types.
LEMMA ActorType == ASSUME TypeOK, NEW a \in Actors, ActorStep(a) PROVE TypeOK'
<1>1. CASE Receive(a)
  <2>1. Head(mailbox[a]) \in Message /\ Tail(mailbox[a]) \in Seq(Message)
    BY <1>1, HeadTailType DEF Receive, TypeOK
  <2> QED
    BY <1>1, <2>1 DEF Receive, TypeOK, control, death, Positions, Executing, Handling
<1>2. CASE SupervisorShutdown(a)
  BY <1>2 DEF SupervisorShutdown, TypeOK, death, Positions, Executing
<1>3. CASE SupervisorDied(a)
  BY <1>3, UnwindType DEF SupervisorDied
<1> QED
  BY <1>1, <1>2, <1>3, ProcessMessageType, ShutdownType, SuperviseType DEF ActorStep

\* A stuttering step keeps the types.
LEMMA StutterType == ASSUME TypeOK, UNCHANGED vars PROVE TypeOK'
BY DEF TypeOK, vars

\* TypeOK is inductive.
LEMMA NextType == TypeOK /\ [Next]_vars => TypeOK'
BY CallerType, ActorType, StutterType DEF Next

\* Every reachable state is well typed: in particular the timeout counter of
\* stopping() stays within its limit, and process_message always returns to a
\* position of the loop that called it.
THEOREM TypeCorrect == Spec => []TypeOK
BY InitType, NextType, PTL DEF Spec

-----------------------------------------------------------------------------
(* The inductive invariant.                                                *)

\* What SupervisionInv says of the tree, without the addresses of messages.
TreeInv == ReceiverInv /\ NoChildInv /\ StateInv /\ ClosedInv /\ CleanDeathDelivered

\* SupervisionInv holds when only the root actors exist.
LEMMA InitInv == Init => SupervisionInv
<1> SUFFICES ASSUME Init PROVE SupervisionInv
  OBVIOUS
<1>1. AddressInv
  BY DEF Init, AddressInv
<1>2. TreeInv
  BY ActorsAssumption DEF Init, TreeInv, ReceiverInv, NoChildInv, StateInv, ClosedInv, CleanDeathDelivered, Over, IsClosed, Children, Executing, Handling
<1> QED
  BY <1>1, <1>2 DEF SupervisionInv, TreeInv

\* Callers touch nothing the tree depends on.
LEMMA CallerTree ==
  ASSUME SupervisionInv, NEW r \in Requests, CallerStep(r) PROVE TreeInv'
BY DEF CallerStep, Reserve, Push, Reject, Abandon, control, death, SupervisionInv,
       TreeInv, ReceiverInv, NoChildInv, StateInv, ClosedInv, CleanDeathDelivered, Over, IsClosed, Children

\* A panic of a running task drops its receiver and nobody else's.
LEMMA UnwindTree ==
  ASSUME TypeOK, SupervisionInv, NEW a \in Actors, pc[a] \in Executing, Unwind(a)
  PROVE  TreeInv'
<1> USE ActorsAssumption DEF SupervisionInv, Positions, Executing, Handling
<1>1. ReceiverInv'
  BY DEF Unwind, TypeOK, ReceiverInv
<1>2. NoChildInv'
  BY DEF Unwind, TypeOK, NoChildInv, Over, IsClosed, Children
<1>3. StateInv'
  BY DEF Unwind, TypeOK, StateInv
<1>4. ClosedInv' /\ CleanDeathDelivered'
  BY DEF Unwind, TypeOK, ClosedInv, CleanDeathDelivered, Over
<1> QED
  BY <1>1, <1>2, <1>3, <1>4 DEF TreeInv

\* The step that finds all children dead is the one that makes Over true.
LEMMA AllChildrenDeadTree ==
  ASSUME TypeOK, SupervisionInv, NEW a \in Actors,
         pc[a] \in {"notifying", "checking"}, AllChildrenDead(a)
  PROVE  TreeInv'
<1> USE DEF SupervisionInv, AllChildrenDead, control, death, Executing, Handling
<1>1. ReceiverInv'
  BY DEF TypeOK, ReceiverInv
<1>2. NoChildInv'
  BY DEF TypeOK, NoChildInv, Over, IsClosed, Children
<1>3. StateInv'
  BY DEF TypeOK, StateInv
<1>4. ClosedInv' /\ CleanDeathDelivered'
  BY DEF TypeOK, ClosedInv, CleanDeathDelivered, Over
<1> QED
  BY <1>1, <1>2, <1>3, <1>4 DEF TreeInv

\* process_message returns: the actor's position stays on the same side of
\* Over, and it has left the run loop's states only with a state that is not
\* Running.
LEMMA ReturnTree ==
  ASSUME TypeOK, SupervisionInv, NEW a \in Actors, pc[a] \in Handling,
         NEW st \in {"Running", "Stopping", "Stopped"}, Return(a, st),
         st = "Running" => state[a] = "Running",
         UNCHANGED <<shutdown, rx, crashed>>,
         \A b \in Actors : closed'[b] => closed[b] \/ b \in aborted',
         aborted \subseteq aborted',
         \A b \in Actors : fate'[b] = "unreachable" => fate[b] = "unreachable"
  PROVE  TreeInv'
<1> USE DEF SupervisionInv, Return, AfterMessage, Executing, Handling
<1>1. ReceiverInv'
  BY DEF TypeOK, ReceiverInv
<1>2. NoChildInv'
  BY DEF TypeOK, NoChildInv, Over, IsClosed, Children
<1>3. StateInv'
  BY DEF TypeOK, StateInv
<1>4. ClosedInv' /\ CleanDeathDelivered'
  BY DEF TypeOK, ClosedInv, CleanDeathDelivered, Over
<1> QED
  BY <1>1, <1>2, <1>3, <1>4 DEF TreeInv

\* process_message keeps what SupervisionInv says of receivers, states and
\* closed mailboxes.
LEMMA ProcessMessageTree ==
  ASSUME TypeOK, SupervisionInv, NEW a \in Actors, ProcessMessage(a)
  PROVE  TreeInv'
<1> USE DEF control, death
<1>1. state[a] \in {"Running", "Stopping", "Stopped"}
  BY DEF TypeOK
<1>2. CASE HandleNormal(a)
  BY <1>1, <1>2, ReturnTree DEF HandleNormal, Serves
<1>3. CASE HandleStop(a)
  BY <1>1, <1>3, ReturnTree DEF HandleStop, Serves
<1>4. CASE HandleAbort(a)
  <2>1. \A b \in Actors : closed'[b] => closed[b] \/ b \in aborted'
    BY <1>4 DEF HandleAbort, TypeOK
  <2>2. aborted \subseteq aborted'
    BY <1>4 DEF HandleAbort
  <2>3. \/ Return(a, "Stopped")
        \/ Return(a, state[a])
    BY <1>4 DEF HandleAbort
  <2>4. pc[a] \in Handling /\ UNCHANGED <<shutdown, rx, crashed, fate>>
    BY <1>4 DEF HandleAbort, Serves
  <2> QED
    BY <1>1, <2>1, <2>2, <2>3, <2>4, ReturnTree
<1>5. CASE HandleSpawn(a)
  <2> DEFINE c == Script[cur[a]].child
  <2>1. c \in Actors /\ Parent[c] = a /\ c # a /\ a # Nil
    BY <1>5, ActorsAssumption, ScriptAssumption
       DEF HandleSpawn, Serves, SupervisionInv, AddressInv, Addressed, Children, Message
  <2>2. pc[a] = "handling" /\ ~shutdown[a]
    BY <1>5 DEF HandleSpawn, Serves, SupervisionInv, StateInv, Handling
  <2>3. /\ pc' = [pc EXCEPT ![a] = "running", ![c] = "running"]
        /\ rx' = [rx EXCEPT ![c] = "unseen"]
        /\ pc[c] = "unborn"
        /\ UNCHANGED <<state, closed, shutdown, aborted, crashed, fate>>
    BY <1>5, <2>2 DEF HandleSpawn, AfterMessage
  <2> HIDE DEF c
  <2> USE <2>1, <2>2, <2>3 DEF SupervisionInv, Executing, Handling
  <2>4. ReceiverInv'
    BY DEF TypeOK, ReceiverInv
  <2>5. NoChildInv'
    BY ZenonT(30) DEF TypeOK, NoChildInv, ClosedInv, Over, IsClosed, Children
  <2>6. StateInv'
    BY DEF TypeOK, StateInv
  <2>7. ClosedInv' /\ CleanDeathDelivered'
    BY DEF TypeOK, ClosedInv, CleanDeathDelivered, Over
  <2> QED
    BY <2>4, <2>5, <2>6, <2>7 DEF TreeInv
<1>6. CASE HandlePanic(a)
  BY <1>6, UnwindTree DEF HandlePanic, Serves, Executing
<1>7. CASE HandleIntoFuture(a)
  BY <1>1, <1>7, ReturnTree DEF HandleIntoFuture
<1>8. CASE HandleDeadActor(a)
  <2>1. \A b \in Actors : fate'[b] = "unreachable" => fate[b] = "unreachable"
    BY <1>8 DEF HandleDeadActor, TypeOK
  <2> QED
    BY <1>1, <1>8, <2>1, ReturnTree DEF HandleDeadActor
<1> QED
  BY <1>2, <1>3, <1>4, <1>5, <1>6, <1>7, <1>8 DEF ProcessMessage

\* So do shutdown(), stopping() and stop(): is_closed is acted on only while it
\* stays true.
LEMMA ShutdownTree ==
  ASSUME TypeOK, SupervisionInv, NEW a \in Actors, Shutdown(a)
  PROVE  TreeInv'
<1>1. CASE AllChildrenDead(a) /\ (BeginStopping(a) \/ CheckChildren(a))
  BY <1>1, AllChildrenDeadTree DEF BeginStopping, CheckChildren
<1>2. CASE StoppingTimeout(a) /\ timeouts[a] = TimeoutLimit
  BY <1>2, UnwindTree DEF StoppingTimeout, Executing
<1>3. CASE \/ BeginShutdown(a) \/ StoppingMailboxClosed(a) \/ DrainEmpty(a)
           \/ StoppingTimeout(a) /\ timeouts[a] # TimeoutLimit
           \/ (BeginStopping(a) \/ CheckChildren(a)) /\ ~AllChildrenDead(a)
  <2>1. /\ UNCHANGED <<closed, rx, crashed, aborted, fate>>
        /\ \/ /\ pc[a] = "shutdown" /\ pc' = [pc EXCEPT ![a] = "notifying"]
              /\ state' = [state EXCEPT ![a] = "Stopping"]
              /\ UNCHANGED shutdown
           \/ /\ pc[a] = "notifying" /\ pc' = [pc EXCEPT ![a] = "stopping"]
              /\ shutdown' = [shutdown EXCEPT ![a] = TRUE]
              /\ UNCHANGED state
           \/ /\ pc[a] = "stopping" /\ pc' = [pc EXCEPT ![a] = "checking"]
              /\ UNCHANGED <<state, shutdown>>
           \/ /\ pc[a] = "checking" /\ pc' = [pc EXCEPT ![a] = "stopping"]
              /\ UNCHANGED <<state, shutdown>>
           \/ /\ pc[a] = "draining" /\ pc' = [pc EXCEPT ![a] = "exited"]
              /\ UNCHANGED <<state, shutdown>>
    BY <1>3 DEF BeginShutdown, StoppingMailboxClosed, DrainEmpty, StoppingTimeout,
                BeginStopping, CheckChildren, control, death
  <2> USE <2>1 DEF SupervisionInv, Executing, Handling
  <2>2. ReceiverInv'
    BY DEF TypeOK, ReceiverInv
  <2>3. NoChildInv'
    BY DEF TypeOK, NoChildInv, Over, IsClosed, Children
  <2>4. StateInv'
    BY ZenonT(30) DEF TypeOK, StateInv
  <2>5. ClosedInv' /\ CleanDeathDelivered'
    BY DEF TypeOK, ClosedInv, CleanDeathDelivered, Over
  <2> QED
    BY <2>2, <2>3, <2>4, <2>5 DEF TreeInv
<1> QED
  BY <1>1, <1>2, <1>3 DEF Shutdown

\* So does the supervising task: the receiver outlives the report.
LEMMA SuperviseTree ==
  ASSUME TypeOK, SupervisionInv, NEW a \in Actors, Supervise(a)
  PROVE  TreeInv'
<1> USE ActorsAssumption DEF SupervisionInv, control, death, Executing, Handling
<1>1. CASE ExitRoot(a)
  <2>1. ReceiverInv' /\ StateInv'
    BY <1>1 DEF ExitRoot, TypeOK, ReceiverInv, StateInv
  <2>2. NoChildInv'
    BY <1>1 DEF ExitRoot, TypeOK, NoChildInv, Over, IsClosed, Children
  <2>3. ClosedInv' /\ CleanDeathDelivered'
    BY <1>1 DEF ExitRoot, TypeOK, ClosedInv, CleanDeathDelivered, Over
  <2> QED
    BY <2>1, <2>2, <2>3 DEF TreeInv
<1>2. CASE ExitChild(a)
  <2>1. CASE Answered(a)
    <3>1. /\ pc[a] = "exited"
          /\ pc' = [pc EXCEPT ![a] = "gone"]
          /\ rx' = [rx EXCEPT ![a] = "none"]
          /\ fate' = [fate EXCEPT ![a] = "awaited"]
          /\ UNCHANGED <<state, closed, shutdown, aborted, crashed>>
      BY <1>2, <2>1 DEF ExitChild
    <3>2. ReceiverInv' /\ StateInv'
      BY <3>1 DEF TypeOK, ReceiverInv, StateInv
    <3>3. NoChildInv'
      BY <3>1 DEF TypeOK, NoChildInv, Over, IsClosed, Children
    <3>4. ClosedInv' /\ CleanDeathDelivered'
      BY <3>1 DEF TypeOK, ClosedInv, CleanDeathDelivered, Over
    <3> QED
      BY <3>2, <3>3, <3>4 DEF TreeInv
  <2>2. CASE ~Answered(a)
    <3>1. /\ pc[a] = "exited" /\ Parent[a] # Nil
          /\ pc' = [pc EXCEPT ![a] = "reporting"]
          /\ UNCHANGED <<state, closed, shutdown, rx, aborted, crashed, fate>>
      BY <1>2, <2>2 DEF ExitChild
    <3>2. ReceiverInv' /\ StateInv'
      BY <3>1 DEF TypeOK, ReceiverInv, StateInv
    <3>3. NoChildInv'
      BY <3>1 DEF TypeOK, NoChildInv, Over, IsClosed, Children
    <3>4. ClosedInv' /\ CleanDeathDelivered'
      BY <3>1 DEF TypeOK, ClosedInv, CleanDeathDelivered, Over
    <3> QED
      BY <3>2, <3>3, <3>4 DEF TreeInv
  <2> QED
    BY <2>1, <2>2
<1>3. CASE ReportDeath(a)
  <2>1. ReceiverInv' /\ StateInv'
    BY <1>3 DEF ReportDeath, TypeOK, ReceiverInv, StateInv
  <2>2. NoChildInv'
    BY <1>3 DEF ReportDeath, TypeOK, NoChildInv, Over, IsClosed, Children
  <2>3. ClosedInv' /\ CleanDeathDelivered'
    BY <1>3 DEF ReportDeath, TypeOK, ClosedInv, CleanDeathDelivered, Over
  <2> QED
    BY <2>1, <2>2, <2>3 DEF TreeInv
<1>4. CASE DropReceiver(a)
  <2>1. ReceiverInv' /\ StateInv'
    BY <1>4 DEF DropReceiver, TypeOK, ReceiverInv, StateInv
  <2>2. NoChildInv'
    BY <1>4 DEF DropReceiver, TypeOK, NoChildInv, Over, IsClosed, Children
  <2>3. ClosedInv' /\ CleanDeathDelivered'
    BY <1>4 DEF DropReceiver, TypeOK, ClosedInv, CleanDeathDelivered, Over
  <2> QED
    BY <2>1, <2>2, <2>3 DEF TreeInv
\* The supervisor's mailbox is closed while a still holds its receiver, so the
\* supervisor is not Over: it has aborted or panicked.
<1>5. CASE ReportUnreachable(a)
  <2>1. ReceiverInv' /\ StateInv'
    BY <1>5 DEF ReportUnreachable, TypeOK, ReceiverInv, StateInv
  <2>2. NoChildInv'
    BY <1>5 DEF ReportUnreachable, TypeOK, NoChildInv, Over, IsClosed, Children
  <2>3. ClosedInv'
    BY <1>5 DEF ReportUnreachable, TypeOK, ClosedInv, Over
  <2>4. rx[a] # "none" /\ Parent[a] \in Actors
    BY <1>5 DEF ReportUnreachable, ReceiverInv
  <2>5. Parent[a] \in aborted \cup crashed
    BY <1>5, <2>4 DEF ReportUnreachable, NoChildInv, ClosedInv, IsClosed, Children
  <2>6. CleanDeathDelivered'
    BY <1>5, <2>5 DEF ReportUnreachable, TypeOK, CleanDeathDelivered
  <2> QED
    BY <2>1, <2>2, <2>3, <2>6 DEF TreeInv
<1>6. CASE ReportPanic(a)
  <2>1. ReceiverInv' /\ StateInv'
    BY <1>6 DEF ReportPanic, TypeOK, ReceiverInv, StateInv
  <2>2. NoChildInv'
    BY <1>6 DEF ReportPanic, TypeOK, NoChildInv, ClosedInv, Over, IsClosed, Children
  <2>3. ClosedInv'
    BY <1>6 DEF ReportPanic, TypeOK, ClosedInv, Over
  <2>4. CleanDeathDelivered'
    BY <1>6 DEF ReportPanic, TypeOK, CleanDeathDelivered
  <2> QED
    BY <2>1, <2>2, <2>3, <2>4 DEF TreeInv
<1> QED
  BY <1>1, <1>2, <1>3, <1>4, <1>5, <1>6 DEF Supervise

\* So does every step of an actor's tasks.
LEMMA ActorStepTree ==
  ASSUME TypeOK, SupervisionInv, NEW a \in Actors, ActorStep(a)
  PROVE  TreeInv'
<1> USE DEF control, death, Executing, Handling
<1>1. CASE Receive(a)
  <2> USE <1>1 DEF SupervisionInv, Receive
  <2>1. ReceiverInv' /\ StateInv'
    BY DEF TypeOK, ReceiverInv, StateInv
  <2>2. NoChildInv'
    BY DEF TypeOK, NoChildInv, Over, IsClosed, Children
  <2>3. ClosedInv' /\ CleanDeathDelivered'
    BY DEF TypeOK, ClosedInv, CleanDeathDelivered, Over
  <2> QED
    BY <2>1, <2>2, <2>3 DEF TreeInv
<1>2. CASE SupervisorShutdown(a)
  <2> USE <1>2 DEF SupervisionInv, SupervisorShutdown
  <2>1. ReceiverInv' /\ StateInv'
    BY DEF TypeOK, ReceiverInv, StateInv
  <2>2. NoChildInv'
    BY DEF TypeOK, NoChildInv, Over, IsClosed, Children
  <2>3. ClosedInv' /\ CleanDeathDelivered'
    BY DEF TypeOK, ClosedInv, CleanDeathDelivered, Over
  <2> QED
    BY <2>1, <2>2, <2>3 DEF TreeInv
<1>3. CASE SupervisorDied(a)
  BY <1>3, UnwindTree DEF SupervisorDied
<1> QED
  BY <1>1, <1>2, <1>3, ProcessMessageTree, ShutdownTree, SuperviseTree DEF ActorStep

-----------------------------------------------------------------------------
(* Messages reach the actor they are for.                                  *)

\* A message for p put into p's mailbox.
LEMMA SendAddress ==
  ASSUME TypeOK, AddressInv, NEW p \in Actors, NEW m \in Addressed(p),
         mailbox' = [mailbox EXCEPT ![p] = Append(mailbox[p], m)]
  PROVE  \A b \in Actors : mailbox'[b] \in Seq(Addressed(b))
<1> SUFFICES ASSUME NEW b \in Actors PROVE mailbox'[b] \in Seq(Addressed(b))
  OBVIOUS
<1>1. mailbox[b] \in Seq(Addressed(b)) /\ mailbox[p] \in Seq(Addressed(p))
  BY DEF AddressInv
<1>2. Append(mailbox[p], m) \in Seq(Addressed(p))
  BY <1>1, AppendType
<1> QED
  BY <1>1, <1>2 DEF TypeOK

\* Messages stay in the mailbox of the actor they were sent to.
LEMMA NextAddress ==
  ASSUME TypeOK, SupervisionInv, Next PROVE AddressInv'
<1> USE DEF control, death
<1>1. AddressInv
  BY DEF SupervisionInv
<1>2. ASSUME NEW r \in Requests, CallerStep(r) PROVE AddressInv'
  <2>1. UNCHANGED <<cur, subscriber>>
    BY <1>2 DEF CallerStep, Reserve, Push, Reject, Abandon
  <2>2. CASE mailbox' = mailbox
    BY <1>1, <2>1, <2>2 DEF AddressInv
  <2>3. CASE mailbox' # mailbox
    <3>1. mailbox' = [mailbox EXCEPT ![To(r)] = Append(mailbox[To(r)], r)]
      BY <1>2, <2>3 DEF CallerStep, Reserve, Push, Reject, Abandon
    <3>2. To(r) \in Actors /\ r \in Addressed(To(r))
      BY ScriptAssumption DEF Addressed
    <3>3. \A b \in Actors : mailbox'[b] \in Seq(Addressed(b))
      BY <1>1, <3>1, <3>2, SendAddress
    <3> QED
      BY <1>1, <2>1, <3>3 DEF AddressInv
  <2> QED
    BY <2>2, <2>3
<1>3. ASSUME NEW a \in Actors, ActorStep(a) PROVE AddressInv'
  <2>1. CASE Receive(a)
    <3>1. mailbox[a] \in Seq(Addressed(a))
      BY <1>1 DEF AddressInv
    <3>2. Head(mailbox[a]) \in Addressed(a) /\ Tail(mailbox[a]) \in Seq(Addressed(a))
      BY <2>1, <3>1, HeadTailType DEF Receive
    <3> QED
      BY <1>1, <2>1, <3>2 DEF Receive, AddressInv, TypeOK
  <2>2. CASE HandleIntoFuture(a)
    BY <1>1, <2>2, ActorsAssumption
       DEF HandleIntoFuture, Return, AddressInv, TypeOK, Addressed, Children, Waits
  <2>3. CASE HandleNormal(a) \/ HandleStop(a) \/ HandleAbort(a) \/ HandleSpawn(a)
               \/ HandleDeadActor(a)
    <3>1. UNCHANGED <<mailbox, subscriber>> /\ cur' = [cur EXCEPT ![a] = Nil]
      BY <2>3 DEF HandleNormal, HandleStop, HandleAbort, HandleSpawn, HandleDeadActor, Return
    <3> QED
      BY <1>1, <3>1 DEF AddressInv, TypeOK
  <2>4. CASE Unwind(a)
    <3>1. /\ mailbox' = [mailbox EXCEPT ![a] = <<>>]
          /\ cur' = [cur EXCEPT ![a] = Nil]
          /\ subscriber' = [subscriber EXCEPT ![a] = Nil]
      BY <2>4 DEF Unwind
    <3> QED
      BY <1>1, <3>1 DEF AddressInv, TypeOK
  <2>5. CASE Shutdown(a) \/ SupervisorShutdown(a)
    <3>1. Unwind(a) \/ UNCHANGED <<mailbox, cur, subscriber>>
      BY <2>5 DEF Shutdown, BeginShutdown, BeginStopping, AllChildrenDead,
                  StoppingMailboxClosed, StoppingTimeout, CheckChildren, DrainEmpty,
                  SupervisorShutdown
    <3> QED
      BY <1>1, <2>4, <3>1 DEF AddressInv
  <2>6. CASE ExitRoot(a) \/ ExitChild(a)
    <3>1. UNCHANGED <<mailbox, cur>> /\ subscriber' = [subscriber EXCEPT ![a] = Nil]
      BY <2>6 DEF ExitRoot, ExitChild, TakeSubscriber
    <3> QED
      BY <1>1, <3>1 DEF AddressInv, TypeOK
  <2>7. CASE ReportDeath(a) \/ ReportPanic(a) \/ DropReceiver(a) \/ ReportUnreachable(a)
    <3>1. UNCHANGED <<cur, subscriber>>
      BY <2>7 DEF ReportDeath, ReportPanic, DropReceiver, ReportUnreachable
    <3>2. CASE mailbox' = mailbox
      BY <1>1, <3>1, <3>2 DEF AddressInv
    <3>3. CASE mailbox' # mailbox
      <4>1. mailbox' = [mailbox EXCEPT ![Parent[a]] = Append(mailbox[Parent[a]], a)]
        BY <2>7, <3>3 DEF ReportDeath, ReportPanic, DropReceiver, ReportUnreachable
      <4>2. Parent[a] \in Actors
        BY <2>7, <3>3, ActorsAssumption
           DEF ReportDeath, ReportPanic, DropReceiver, ReportUnreachable,
               SupervisionInv, ReceiverInv
      <4>3. a \in Addressed(Parent[a])
        BY DEF Addressed, Children
      <4>4. \A b \in Actors : mailbox'[b] \in Seq(Addressed(b))
        BY <1>1, <4>1, <4>2, <4>3, SendAddress
      <4> QED
        BY <1>1, <3>1, <4>4 DEF AddressInv
    <3> QED
      BY <3>2, <3>3
  <2> QED
    BY <1>3, <2>1, <2>2, <2>3, <2>4, <2>5, <2>6, <2>7
       DEF ActorStep, ProcessMessage, HandlePanic, SupervisorDied, Supervise
<1> QED
  BY <1>2, <1>3 DEF Next

-----------------------------------------------------------------------------
(* The theorems.                                                           *)

\* SupervisionInv is inductive relative to TypeOK.
LEMMA NextInv == TypeOK /\ SupervisionInv /\ [Next]_vars => SupervisionInv'
<1> SUFFICES ASSUME TypeOK, SupervisionInv, [Next]_vars PROVE SupervisionInv'
  OBVIOUS
<1>1. CASE UNCHANGED vars
  BY <1>1 DEF vars, SupervisionInv, AddressInv, ReceiverInv, NoChildInv, StateInv,
              ClosedInv, CleanDeathDelivered, Over, IsClosed
<1>2. CASE Next
  <2>1. TreeInv'
    BY <1>2, CallerTree, ActorStepTree DEF Next
  <2> QED
    BY <1>2, <2>1, NextAddress DEF SupervisionInv, TreeInv
<1> QED
  BY <1>1, <1>2

\* The inductive invariant holds in every tree.
THEOREM InvariantHolds == Spec => []SupervisionInv
<1>1. Init => SupervisionInv
  BY InitInv
<1> QED
  BY <1>1, NextInv, TypeCorrect, PTL DEF Spec

\* When an actor has stopped, none of its children's tasks is still executing
\* or reporting (stopping(), stop(), the _rx of spawn_with).
THEOREM ChildrenDieFirstHolds == Spec => []ChildrenDieFirst
<1>1. TypeOK /\ SupervisionInv => ChildrenDieFirst
  <2> SUFFICES ASSUME TypeOK, SupervisionInv, NEW a \in Actors, NEW c \in Actors,
                      Parent[c] = a, StoppedCleanly(a)
               PROVE  pc[c] \in {"unborn", "panicked", "gone"}
    BY DEF ChildrenDieFirst
  <2>1. IsClosed(a)
    BY DEF SupervisionInv, NoChildInv, Over, StoppedCleanly
  <2>2. rx[c] = "none" /\ Parent[c] # Nil
    BY <2>1, ActorsAssumption DEF IsClosed, Children, Message
  <2>3. pc[c] \notin Executing \cup {"exited", "reporting", "reported"}
    BY <2>2 DEF SupervisionInv, ReceiverInv
  <2> QED
    BY <2>3 DEF TypeOK, Positions
<1> QED
  BY <1>1, TypeCorrect, InvariantHolds, PTL

\* No child is spawned too late to hear the Shutdown of its supervisor
\* (spawn_with's state guard, shutdown()).
THEOREM NoDeafChildHolds == Spec => []NoDeafChild
<1>1. TypeOK /\ SupervisionInv => NoDeafChild
  BY DEF SupervisionInv, ReceiverInv, NoDeafChild, TypeOK, Executing
<1> QED
  BY <1>1, TypeCorrect, InvariantHolds, PTL

\* The unreachable! of spawn_with is reached only under a supervisor that
\* aborted or panicked.
THEOREM CleanDeathDeliveredHolds == Spec => []CleanDeathDelivered
<1>1. SupervisionInv => CleanDeathDelivered
  BY DEF SupervisionInv
<1> QED
  BY <1>1, InvariantHolds, PTL

=============================================================================
