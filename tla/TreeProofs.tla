------------------------------ MODULE TreeProofs ------------------------------
(***************************************************************************)
(* Supervision implements ActorTree, for every tree of actors, every       *)
(* script, every mailbox size and every timeout limit: the initial states  *)
(* map to the initial state of the tree, and every step of an actor or of  *)
(* a caller maps to a step of the tree or leaves it alone.                 *)
(***************************************************************************)
EXTENDS DeliveryProofs

\* A step of the tree, from what it does to each actor.
LEMMA TreeStutter ==
  ASSUME \A b \in Actors : Life(b)' = Life(b) /\ Heir(b)' = Heir(b)
  PROVE  UNCHANGED Tree!vars
BY DEF Tree!vars

\* The life of one actor changes, no heir does.
LEMMA LifeStep ==
  ASSUME NEW a \in Actors, NEW x,
         \A b \in Actors : Life(b)' = IF b = a THEN x ELSE Life(b),
         \A b \in Actors : Heir(b)' = Heir(b)
  PROVE  /\ [b \in Actors |-> Life(b)]' = [[b \in Actors |-> Life(b)] EXCEPT ![a] = x]
         /\ [b \in Actors |-> Heir(b)]' = [b \in Actors |-> Heir(b)]
OBVIOUS

\* The heir of one actor changes, no life does.
LEMMA HeirStep ==
  ASSUME NEW a \in Actors, NEW x,
         \A b \in Actors : Heir(b)' = IF b = a THEN x ELSE Heir(b),
         \A b \in Actors : Life(b)' = Life(b)
  PROVE  /\ [b \in Actors |-> Heir(b)]' = [[b \in Actors |-> Heir(b)] EXCEPT ![a] = x]
         /\ [b \in Actors |-> Life(b)]' = [b \in Actors |-> Life(b)]
OBVIOUS

\* An actor is started by its living supervisor.
LEMMA TreeStart ==
  ASSUME NEW c \in Actors, Life(c) = "unborn", Parent[c] \in Actors, Life(Parent[c]) = "alive",
         \A b \in Actors : Life(b)' = IF b = c THEN "alive" ELSE Life(b),
         \A b \in Actors : Heir(b)' = Heir(b)
  PROVE  Tree!Next
<1>1. Tree!Start(c)
  BY LifeStep DEF Tree!Start
<1> QED
  BY <1>1 DEF Tree!Next

\* An actor stops after its children have ended.
LEMMA TreeStop ==
  ASSUME NEW a \in Actors, Life(a) = "alive",
         \A c \in Actors : Parent[c] = a => Life(c) # "alive",
         \A b \in Actors : Life(b)' = IF b = a THEN "stopped" ELSE Life(b),
         \A b \in Actors : Heir(b)' = Heir(b)
  PROVE  Tree!Next
<1>1. Tree!Stop(a)
  BY LifeStep DEF Tree!Stop
<1> QED
  BY <1>1 DEF Tree!Next

\* An actor crashes.
LEMMA TreeCrash ==
  ASSUME NEW a \in Actors, Life(a) = "alive",
         \A b \in Actors : Life(b)' = IF b = a THEN "crashed" ELSE Life(b),
         \A b \in Actors : Heir(b)' = Heir(b)
  PROVE  Tree!Next
<1>1. Tree!Crash(a)
  BY LifeStep DEF Tree!Crash
<1> QED
  BY <1>1 DEF Tree!Next

\* A living supervisor is given a child that has ended.
LEMMA TreeInherit ==
  ASSUME NEW c \in Actors, Life(c) \in {"stopped", "crashed"}, Heir(c) = "none",
         Parent[c] \in Actors, Life(Parent[c]) = "alive",
         \A b \in Actors : Heir(b)' = IF b = c THEN "supervisor" ELSE Heir(b),
         \A b \in Actors : Life(b)' = Life(b)
  PROVE  Tree!Next
<1>1. Tree!Inherit(c)
  BY HeirStep DEF Tree!Inherit, Tree!Ended
<1> QED
  BY <1>1 DEF Tree!Next

\* A caller is given an actor that has stopped.
LEMMA TreeReturn ==
  ASSUME NEW a \in Actors, Life(a) = "stopped", Heir(a) = "none",
         \A b \in Actors : Heir(b)' = IF b = a THEN "caller" ELSE Heir(b),
         \A b \in Actors : Life(b)' = Life(b)
  PROVE  Tree!Next
<1>1. Tree!Return(a)
  BY HeirStep DEF Tree!Return
<1> QED
  BY <1>1 DEF Tree!Next

-----------------------------------------------------------------------------
(* What leaves a life or an heir as it is.                                 *)

\* The life of an actor depends on which part of its code it is in.
LEMMA SameLife ==
  ASSUME NEW b, b \in crashed' <=> b \in crashed,
         pc'[b] = "unborn" <=> pc[b] = "unborn",
         pc'[b] \in Executing <=> pc[b] \in Executing
  PROVE  Life(b)' = Life(b)
BY DEF Life

\* The heirs depend on the deaths handled and the waits resolved.
LEMMA SameHeir ==
  ASSUME NEW b, fate'[b] = "handled" <=> fate[b] = "handled",
         \A w \in Waits : status'[w] = "resolved" <=> status[w] = "resolved"
  PROVE  Heir(b)' = Heir(b)
BY DEF Heir

\* Callers leave the tree alone.
LEMMA CallerTreeStep ==
  ASSUME TypeOK, NEW r \in Requests, CallerStep(r)
  PROVE  UNCHANGED Tree!vars
<1>1. UNCHANGED <<pc, crashed, fate>>
  BY DEF CallerStep, Reserve, Push, Reject, Abandon, death
<1>2. \A w \in Waits : status'[w] = "resolved" <=> status[w] = "resolved"
  BY DEF CallerStep, Reserve, Push, Reject, Abandon, TypeOK, Waits
<1>3. \A b \in Actors : Life(b)' = Life(b) /\ Heir(b)' = Heir(b)
  BY <1>1, <1>2, SameLife, SameHeir
<1> QED
  BY <1>3, TreeStutter

\* Unwind is a crash of the tree.
LEMMA UnwindTreeStep ==
  ASSUME TypeOK, SupervisionInv, NEW a \in Actors, pc[a] \in Executing, Unwind(a)
  PROVE  Tree!Next
<1>1. /\ crashed' = crashed \cup {a}
      /\ UNCHANGED fate
      /\ \A b \in Actors \ {a} : pc'[b] = pc[b]
      /\ pc'[a] \in {"gone", "panicked"}
  BY DEF Unwind, TypeOK
<1>2. \A w \in Waits : status'[w] = "resolved" <=> status[w] = "resolved"
  BY DEF Unwind, Waits
<1>3. \A b \in Actors : Heir(b)' = Heir(b)
  BY <1>1, <1>2, SameHeir
<1>4. Life(a)' = "crashed"
  BY <1>1 DEF Life
<1>5. a \notin crashed /\ pc[a] # "unborn"
  BY DEF SupervisionInv, ClosedInv, Executing, Handling
<1>6. Life(a) = "alive"
  BY <1>5 DEF Life
<1>7. \A b \in Actors \ {a} : Life(b)' = Life(b)
  BY <1>1, SameLife
<1> QED
  BY <1>3, <1>4, <1>6, <1>7, TreeCrash

\* A step of process_message that starts nobody and is given nobody leaves the
\* tree alone.
LEMMA ReturnTreeStep ==
  ASSUME TypeOK, NEW a \in Actors, NEW st, pc[a] \in Handling, Return(a, st),
         UNCHANGED <<crashed, fate>>,
         \A w \in Waits : status'[w] = "resolved" <=> status[w] = "resolved"
  PROVE  UNCHANGED Tree!vars
<1>1. pc'[a] = AfterMessage(pc[a], st) /\ \A b \in Actors \ {a} : pc'[b] = pc[b]
  BY DEF Return, TypeOK
<1>2. pc'[a] \in Executing /\ pc[a] \in Executing
  BY <1>1 DEF AfterMessage, Executing, Handling
<1>3. pc'[a] # "unborn" /\ pc[a] # "unborn"
  BY <1>2 DEF Executing, Handling
<1>4. \A b \in Actors : Life(b)' = Life(b)
  BY <1>1, <1>2, <1>3, SameLife
<1>5. \A b \in Actors : Heir(b)' = Heir(b)
  BY SameHeir
<1> QED
  BY <1>4, <1>5, TreeStutter

\* process_message starts a child, crashes, hands a dead child to its
\* supervisor, or leaves the tree alone.
LEMMA ProcessMessageTreeStep ==
  ASSUME TypeOK, SupervisionInv, DeliveryInv, NEW a \in Actors, ProcessMessage(a)
  PROVE  Tree!Next \/ UNCHANGED Tree!vars
<1>1. CASE HandleNormal(a) \/ HandleStop(a) \/ HandleAbort(a) \/ HandleIntoFuture(a)
  <2>1. pc[a] \in Handling /\ (\E st : Return(a, st)) /\ UNCHANGED <<crashed, fate>>
    BY <1>1 DEF HandleNormal, HandleStop, HandleAbort, HandleIntoFuture, Serves, death
  <2>2. \A w \in Waits : status'[w] = "resolved" <=> status[w] = "resolved"
    <3>1. CASE HandleNormal(a) \/ HandleStop(a) \/ HandleAbort(a)
      <4>1. /\ cur[a] \in Requests /\ cur[a] \notin Waits
            /\ status' = [status EXCEPT ![cur[a]] = "handled"]
        BY <3>1 DEF HandleNormal, HandleStop, HandleAbort, Serves, Handled, Waits
      <4> QED
        BY <4>1 DEF TypeOK, Waits
    <3>2. CASE HandleIntoFuture(a)
      BY <3>2 DEF HandleIntoFuture, Waits
    <3> QED
      BY <1>1, <3>1, <3>2
  <2> QED
    BY <2>1, <2>2, ReturnTreeStep
<1>2. CASE HandleSpawn(a)
  <2>1. PICK c \in Actors : c = Script[cur[a]].child /\ Parent[c] = a /\ c # a
    BY <1>2, ActorsAssumption, ScriptAssumption
       DEF HandleSpawn, Serves, SupervisionInv, AddressInv, Addressed, Children, Message
  <2>2. pc[a] = "handling"
    BY <1>2 DEF HandleSpawn, Serves, SupervisionInv, StateInv, Handling
  <2>3. /\ pc' = [pc EXCEPT ![a] = "running", ![c] = "running"]
        /\ pc[c] = "unborn"
        /\ UNCHANGED <<crashed, fate>>
    BY <1>2, <2>1, <2>2 DEF HandleSpawn, AfterMessage, death
  <2>4. \A w \in Waits : status'[w] = "resolved" <=> status[w] = "resolved"
    <3>1. /\ cur[a] \in Requests /\ cur[a] \notin Waits
          /\ status' = [status EXCEPT ![cur[a]] = "handled"]
      BY <1>2 DEF HandleSpawn, Serves, Handled, Waits
    <3> QED
      BY <3>1 DEF TypeOK, Waits
  <2>5. \A b \in Actors : Heir(b)' = Heir(b)
    BY <2>3, <2>4, SameHeir
  <2>6. /\ \A b \in Actors \ {a, c} : pc'[b] = pc[b]
        /\ pc'[a] = "running" /\ pc'[c] = "running"
    BY <2>1, <2>3 DEF TypeOK
  <2>7. a \notin crashed /\ c \notin crashed
    BY <2>1, <2>2, <2>3 DEF SupervisionInv, ClosedInv
  <2>8. Life(c) = "unborn" /\ Life(a) = "alive"
    BY <2>2, <2>3, <2>7 DEF Life, Executing, Handling
  <2>9. Life(c)' = "alive" /\ Life(a)' = "alive"
    BY <2>3, <2>6, <2>7 DEF Life, Executing, Handling
  <2>10. \A b \in Actors \ {a, c} : Life(b)' = Life(b)
    BY <2>3, <2>6, SameLife
  <2> QED
    BY <2>1, <2>5, <2>8, <2>9, <2>10, TreeStart
<1>3. CASE HandlePanic(a)
  BY <1>3, UnwindTreeStep DEF HandlePanic, Serves, Executing
<1>4. CASE HandleDeadActor(a)
  <2>1. PICK c \in Actors : c = cur[a] /\ Parent[c] = a
    BY <1>4, ActorsAssumption
       DEF HandleDeadActor, SupervisionInv, AddressInv, Addressed, Children, Message
  <2>2. pc[a] \in Handling /\ Return(a, state[a])
    BY <1>4 DEF HandleDeadActor
  <2>3. UNCHANGED <<status, crashed>> /\ fate' = [fate EXCEPT ![c] = "handled"]
    BY <1>4, <2>1 DEF HandleDeadActor
  <2>4. c \in Pending(a)
    BY <2>1 DEF Pending, Message
  <2>5. fate[c] = "reported"
    BY <2>1, <2>4 DEF DeliveryInv, ReportInv
  <2>6. pc[c] \in {"reported", "gone"} /\ Parent[c] # Nil
    BY <2>1, <2>5 DEF DeliveryInv, FateInv
  <2>7. Life(c) \in {"stopped", "crashed"}
    BY <2>6 DEF Life, Executing, Handling
  <2>8. ~\E w \in Waits : To(w) = c /\ status[w] = "resolved"
    BY <2>5, <2>6 DEF DeliveryInv, ResolvedInv
  <2>9. Heir(c) = "none"
    BY <2>5, <2>8 DEF Heir
  <2>10. fate'[c] = "handled" /\ \A b \in Actors \ {c} : fate'[b] = fate[b]
    BY <2>1, <2>3 DEF TypeOK
  <2>11. Heir(c)' = "supervisor"
    BY <2>10 DEF Heir
  <2>12. \A b \in Actors \ {c} : Heir(b)' = Heir(b)
    BY <2>3, <2>10, SameHeir
  <2>13. pc'[a] = AfterMessage(pc[a], state[a]) /\ \A b \in Actors \ {a} : pc'[b] = pc[b]
    BY <2>2 DEF Return, TypeOK
  <2>14. pc'[a] \in Executing /\ pc[a] \in Executing
    BY <2>2, <2>13 DEF AfterMessage, Executing, Handling
  <2>15. pc'[a] # "unborn" /\ pc[a] # "unborn"
    BY <2>14 DEF Executing, Handling
  <2>16. \A b \in Actors : Life(b)' = Life(b)
    BY <2>3, <2>13, <2>14, <2>15, SameLife
  <2>17. a \notin crashed
    BY <2>14 DEF SupervisionInv, ClosedInv, Executing, Handling
  <2>18. Life(Parent[c]) = "alive"
    BY <2>1, <2>14, <2>15, <2>17 DEF Life
  <2> QED
    BY <2>1, <2>7, <2>9, <2>11, <2>12, <2>16, <2>18, TreeInherit
<1> QED
  BY <1>1, <1>2, <1>3, <1>4 DEF ProcessMessage

\* The last step of stop() stops the actor, and all its children have ended;
\* every other step of a shutdown leaves the tree alone, or is a panic.
LEMMA ShutdownTreeStep ==
  ASSUME TypeOK, SupervisionInv, NEW a \in Actors, Shutdown(a) \/ SupervisorShutdown(a)
  PROVE  Tree!Next \/ UNCHANGED Tree!vars
<1>1. CASE Unwind(a)
  <2>1. pc[a] \in Executing
    BY DEF Shutdown, BeginShutdown, BeginStopping, StoppingMailboxClosed, StoppingTimeout,
           CheckChildren, DrainEmpty, SupervisorShutdown, Executing
  <2> QED
    BY <1>1, <2>1, UnwindTreeStep
<1>2. CASE ~Unwind(a) /\ ~DrainEmpty(a)
  <2>1. /\ UNCHANGED <<status, crashed, fate>>
        /\ pc[a] \in {"running", "shutdown", "notifying", "stopping", "checking"}
        /\ \/ pc' = [pc EXCEPT ![a] = "shutdown"]
           \/ pc' = [pc EXCEPT ![a] = "notifying"]
           \/ pc' = [pc EXCEPT ![a] = "stopping"]
           \/ pc' = [pc EXCEPT ![a] = "checking"]
           \/ pc' = [pc EXCEPT ![a] = "draining"]
    BY <1>2 DEF Shutdown, BeginShutdown, BeginStopping, AllChildrenDead,
                StoppingMailboxClosed, StoppingTimeout, CheckChildren,
                SupervisorShutdown, death
  <2>2. /\ \A b \in Actors \ {a} : pc'[b] = pc[b]
        /\ pc[a] \in Executing /\ pc'[a] \in Executing
        /\ pc[a] # "unborn" /\ pc'[a] # "unborn"
    BY <2>1 DEF TypeOK, Executing
  <2>3. \A b \in Actors : Life(b)' = Life(b) /\ Heir(b)' = Heir(b)
    BY <2>1, <2>2, SameLife, SameHeir
  <2> QED
    BY <2>3, TreeStutter
<1>3. CASE DrainEmpty(a)
  <2>1. /\ UNCHANGED <<status, crashed, fate>>
        /\ pc[a] = "draining"
        /\ pc'[a] = "exited"
        /\ \A b \in Actors \ {a} : pc'[b] = pc[b]
    BY <1>3 DEF DrainEmpty, death, TypeOK
  <2>2. a \notin crashed
    BY <2>1 DEF SupervisionInv, ClosedInv
  <2>3. Life(a) = "alive" /\ Life(a)' = "stopped"
    BY <2>1, <2>2 DEF Life, Executing, Handling
  <2>4. \A b \in Actors \ {a} : Life(b)' = Life(b)
    BY <2>1, SameLife
  <2>5. \A b \in Actors : Heir(b)' = Heir(b)
    BY <2>1, SameHeir
  <2>6. \A c \in Actors : Parent[c] = a => rx[c] = "none"
    BY <2>1 DEF SupervisionInv, NoChildInv, Over, IsClosed, Children
  <2>7. a # Nil
    BY ActorsAssumption DEF Message
  <2>8. \A c \in Actors : Parent[c] = a => pc[c] \notin Executing
    BY <2>6, <2>7 DEF SupervisionInv, ReceiverInv
  <2>9. \A c \in Actors : Parent[c] = a => Life(c) # "alive"
    BY <2>8 DEF Life
  <2> QED
    BY <2>3, <2>4, <2>5, <2>9, TreeStop
<1> QED
  BY <1>1, <1>2, <1>3

\* After the executor: a caller is given the actor, or the tree is left alone.
LEMMA SuperviseTreeStep ==
  ASSUME TypeOK, SupervisionInv, DeliveryInv, NEW a \in Actors, Supervise(a)
  PROVE  Tree!Next \/ UNCHANGED Tree!vars
<1>1. /\ pc[a] \in {"exited", "reporting", "reported", "panicked"}
      /\ pc'[a] \in {"reporting", "reported", "gone"}
      /\ \A b \in Actors \ {a} : pc'[b] = pc[b]
      /\ UNCHANGED crashed
  BY DEF Supervise, ExitRoot, ExitChild, ReportDeath, DropReceiver, ReportUnreachable,
         ReportPanic, death, TypeOK
<1>2. /\ pc[a] \notin Executing /\ pc'[a] \notin Executing
      /\ pc[a] # "unborn" /\ pc'[a] # "unborn"
  BY <1>1 DEF Executing, Handling
<1>3. \A b \in Actors : Life(b)' = Life(b)
  BY <1>1, <1>2, SameLife
<1>4. CASE pc[a] = "exited" /\ Answered(a)
  <2>1. TakeSubscriber(a)
    BY <1>4 DEF Supervise, ExitRoot, ExitChild, ReportDeath, DropReceiver,
            ReportUnreachable,
                ReportPanic
  <2> DEFINE w == subscriber[a]
  <2>2. w \in Waits /\ To(w) = a /\ status' = [status EXCEPT ![w] = "resolved"]
    BY <1>4, <2>1 DEF TakeSubscriber, Answered, SupervisionInv, AddressInv
  <2>3. \A b \in Actors : fate'[b] = "handled" <=> fate[b] = "handled"
    <3>1. fate' = fate \/ fate' = [fate EXCEPT ![a] = "awaited"]
      BY <1>4 DEF Supervise, ExitRoot, ExitChild, ReportDeath, DropReceiver,
              ReportUnreachable,
                  ReportPanic, death
    <3>2. fate[a] = "none"
      BY <1>4 DEF DeliveryInv, FateInv
    <3> QED
      BY <3>1, <3>2 DEF TypeOK
  <2> HIDE DEF w
  <2>4. \A v \in Waits : status'[v] = "resolved" <=> status[v] = "resolved" \/ v = w
    BY <2>2 DEF TypeOK, Waits
  <2>5. fate[a] # "handled" /\ \A v \in Waits : To(v) = a => status[v] # "resolved"
    BY <1>4 DEF DeliveryInv, FateInv, ResolvedInv
  <2>6. Heir(a) = "none"
    BY <2>5 DEF Heir
  <2>7. Heir(a)' = "caller"
    BY <2>2, <2>3, <2>4, <2>5 DEF Heir
  <2>8. \A b \in Actors \ {a} : Heir(b)' = Heir(b)
    BY <2>2, <2>3, <2>4 DEF Heir
  <2>9. a \notin crashed
    BY <1>4 DEF SupervisionInv, ClosedInv
  <2>10. Life(a) = "stopped"
    BY <1>2, <2>9 DEF Life
  <2> QED
    BY <1>3, <2>6, <2>7, <2>8, <2>10, TreeReturn
<1>5. CASE ~(pc[a] = "exited" /\ Answered(a))
  <2>1. UNCHANGED status
    BY <1>5 DEF Supervise, ExitRoot, ExitChild, TakeSubscriber, ReportDeath, DropReceiver,
                ReportUnreachable, ReportPanic
  <2>2. \/ UNCHANGED fate
        \/ /\ pc[a] \in {"reporting", "panicked"}
           /\ \/ fate' = [fate EXCEPT ![a] = "reported"]
              \/ fate' = [fate EXCEPT ![a] = "unreachable"]
              \/ fate' = [fate EXCEPT ![a] = "lost"]
    BY <1>5 DEF Supervise, ExitRoot, ExitChild, ReportDeath, DropReceiver,
                ReportUnreachable, ReportPanic, death
  <2>3. pc[a] \in {"reporting", "panicked"} => fate[a] = "none"
    BY DEF DeliveryInv, FateInv
  <2>4. \A b \in Actors : fate'[b] = "handled" <=> fate[b] = "handled"
    BY <2>2, <2>3 DEF TypeOK
  <2>5. \A b \in Actors : Heir(b)' = Heir(b)
    BY <2>1, <2>4, SameHeir
  <2> QED
    BY <1>3, <2>5, TreeStutter
<1> QED
  BY <1>4, <1>5

\* The initial states of Supervision map to the initial state of the tree.
LEMMA InitTree == Init => Tree!Init
<1> SUFFICES ASSUME Init PROVE Tree!Init
  OBVIOUS
<1>1. \A a \in Actors : Life(a) = IF Parent[a] = Nil THEN "alive" ELSE "unborn"
  BY DEF Init, Life, Executing, Handling
<1>2. \A a \in Actors : Heir(a) = "none"
  BY DEF Init, Heir, Waits
<1> QED
  BY <1>1, <1>2 DEF Tree!Init

\* Every step of Supervision maps to a step of the tree or to none.
LEMMA NextTree ==
  TypeOK /\ SupervisionInv /\ DeliveryInv /\ [Next]_vars => [Tree!Next]_(Tree!vars)
<1> SUFFICES ASSUME TypeOK, SupervisionInv, DeliveryInv, [Next]_vars
             PROVE  Tree!Next \/ UNCHANGED Tree!vars
  OBVIOUS
<1>1. CASE UNCHANGED vars
  <2>1. \A b \in Actors : Life(b)' = Life(b) /\ Heir(b)' = Heir(b)
    BY <1>1, SameLife, SameHeir DEF vars
  <2> QED
    BY <2>1, TreeStutter
<1>2. ASSUME NEW a \in Actors, ActorStep(a) PROVE Tree!Next \/ UNCHANGED Tree!vars
  <2>1. CASE SupervisorDied(a)
    BY <2>1, UnwindTreeStep DEF SupervisorDied, Executing
  <2>2. CASE Receive(a)
    <3>1. /\ UNCHANGED <<status, crashed, fate>>
          /\ pc[a] \in {"running", "stopping", "draining"}
          /\ pc'[a] \in Handling
          /\ \A b \in Actors \ {a} : pc'[b] = pc[b]
      BY <2>2 DEF Receive, death, TypeOK, Handling
    <3>2. /\ pc[a] \in Executing /\ pc'[a] \in Executing
          /\ pc[a] # "unborn" /\ pc'[a] # "unborn"
      BY <3>1 DEF Executing, Handling
    <3>3. \A b \in Actors : Life(b)' = Life(b) /\ Heir(b)' = Heir(b)
      BY <3>1, <3>2, SameLife, SameHeir
    <3> QED
      BY <3>3, TreeStutter
  <2> QED
    BY <1>2, <2>1, <2>2, ProcessMessageTreeStep, ShutdownTreeStep, SuperviseTreeStep
       DEF ActorStep
<1> QED
  BY <1>1, <1>2, CallerTreeStep DEF Next

\* The executor, the contexts and the callers implement ActorTree: actors are
\* started by living supervisors, stop after their children, and are handed on
\* once, to the supervisor or to a caller.
THEOREM TreeRefinement == Spec => TreeSpec
<1>1. Init => Tree!Init
  BY InitTree
<1> QED
  BY <1>1, NextTree, TypeCorrect, InvariantHolds, DeliveryHolds, PTL
      DEF Spec, TreeSpec, Tree!Spec

=============================================================================
