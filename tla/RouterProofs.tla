---------------------------- MODULE RouterProofs ----------------------------
(***************************************************************************)
(* Proofs for Router, for any pool, script and bounds.                     *)
(***************************************************************************)
EXTENDS Router, TLAPS

\* The inductive invariant, in parts.  Where the router is: what it handles and
\* whom it asks.
LoopInv ==
  /\ index < max_actors \/ index = 0
  /\ pc # "starting" => \A w \in Workers : w < max_actors => worker[w] # "none"
  /\ cur # Nil => pc \in {"running", "stopping", "draining"}
  /\ ask # "none" => /\ cur # Nil /\ cur[1] = "call" /\ Script[cur[2]] # "Await"
                     /\ target \in Workers /\ target < max_actors
  /\ pc \in {"stopping", "checking"} => shutdown
  /\ cause # "none" <=> pc = "crashed"

\* Why a worker is not running, and what the router hears of a panic.
WorkerInv ==
  /\ \A w \in Workers : \/ worker[w] \in {"none", "running"}
                        \/ failed # {} \/ shutdown \/ pc = "crashed"
  /\ \A w \in Workers : worker[w] = "panicked" => failed # {} \/ pc = "crashed"
  /\ cur # Nil /\ cur[1] = "panic" => failed # {}
  /\ \A i \in 1..Len(mailbox) : mailbox[i][1] = "panic" => failed # {}
  /\ ask = "lost" => failed # {}
  /\ pc \in {"draining", "over"} => \A w \in Workers : worker[w] \notin Alive

\* Where a call is that the router has accepted.
QueueInv ==
  /\ \A c \in Calls : status[c] = "queued" =>
       cur = <<"call", c>> \/ \E i \in 1..Len(mailbox) : mailbox[i] = <<"call", c>>
  /\ pc = "over" => mailbox = <<>> /\ \A c \in Calls : status[c] # "waiting"

\* In a round the workers before the index have been handed one question more.
RoundInv ==
  \A v, w \in Workers : v < max_actors /\ w < max_actors =>
    /\ v < index /\ w >= index => load[v] = load[w] + 1
    /\ (v < index <=> w < index) => load[v] = load[w]

IInv == TypeOK /\ LoopInv /\ WorkerInv /\ QueueInv /\ RoundInv /\ CrashExplained

\* The two parts of a message.
LEMMA MessageFacts ==
  ASSUME NEW m \in Messages
  PROVE  /\ m # Nil
         /\ m = <<m[1], m[2]>>
         /\ m[1] = "call" => m[2] \in Calls
         /\ m[1] # "call" => m[1] \in {"clean", "panic"} /\ m[2] \in Workers
BY BoundsAssumption DEF Messages

\* What Append does.
LEMMA AppendFacts ==
  ASSUME NEW S, NEW s \in Seq(S), NEW e \in S
  PROVE  /\ Append(s, e) \in Seq(S)
         /\ Len(Append(s, e)) = Len(s) + 1
         /\ Append(s, e)[Len(s) + 1] = e
         /\ \A i \in 1..Len(s) : Append(s, e)[i] = s[i]
OBVIOUS

\* What taking the first element of a sequence leaves.
LEMMA TailFacts ==
  ASSUME NEW S, NEW s \in Seq(S), s # <<>>
  PROVE  /\ Head(s) \in S /\ Head(s) = s[1]
         /\ Tail(s) \in Seq(S)
         /\ Len(s) > 0 /\ Len(Tail(s)) = Len(s) - 1
         /\ \A i \in 1..Len(Tail(s)) : Tail(s)[i] = s[i + 1]
OBVIOUS

\* A panic of the router keeps the parts of the invariant, whatever the reason.
LEMMA CrashKeeps ==
  ASSUME IInv, NEW why \in Causes \ {"none"}, pc # "starting", Crash(why)
  PROVE  TypeOK' /\ LoopInv' /\ WorkerInv' /\ QueueInv' /\ RoundInv'
<1> USE DEF IInv, Crash, strategy, pool
<1>1. TypeOK'
  <2>1. status' \in [Calls -> Statuses]
    BY DEF TypeOK, Statuses
  <2>2. UNCHANGED <<max_actors, index, load, shutdown, timeouts, worker, failed>>
    OBVIOUS
  <2>3. mailbox' = <<>> /\ cur' = Nil /\ target' = Nil /\ ask' = "none" /\ cause' = why
    OBVIOUS
  <2>4. pc' = "crashed"
    OBVIOUS
  <2>5. mailbox' \in Seq(Messages) /\ Len(mailbox') <= MailboxSize
    BY <2>3, BoundsAssumption
  <2>6. shutdown' \in BOOLEAN
    BY <2>2, Zenon DEF TypeOK
  <2>7. QED
    BY <2>1, <2>2, <2>3, <2>4, <2>5, <2>6 DEF TypeOK, Positions, AskStates
<1>2. LoopInv'
  <2>1. UNCHANGED <<max_actors, index, worker>> /\ cur' = Nil /\ ask' = "none" /\ pc' = "crashed" /\ cause' # "none"
    OBVIOUS
  <2>2. \A w \in Workers : w < max_actors => worker[w] # "none"
    BY DEF LoopInv
  <2>3. QED
    BY <2>1, <2>2 DEF LoopInv
<1>3. WorkerInv'
  BY DEF TypeOK, WorkerInv
<1>4. QueueInv'
  BY DEF TypeOK, QueueInv, Statuses
<1>5. RoundInv'
  BY DEF RoundInv
<1>6. QED
  BY <1>1, <1>2, <1>3, <1>4, <1>5

\* Every step keeps the type.
LEMMA NextType == IInv /\ [Next]_vars => TypeOK'
<1> SUFFICES ASSUME IInv, [Next]_vars PROVE TypeOK'
  OBVIOUS
<1>0. ASSUME NEW why \in Causes \ {"none"}, pc # "starting", Crash(why) PROVE TypeOK'
  BY <1>0, CrashKeeps
<1> USE BoundsAssumption, MessageFacts
    DEF IInv, TypeOK, Positions, WorkerStates, Alive, AskStates, Statuses, Causes,
        LoopInv, Workers, strategy, loop, question, pool
<1>1. CASE UNCHANGED vars
  BY <1>1 DEF vars
<1>2. CASE Start
  BY <1>2 DEF Start
<1>3. CASE Receive
  <2>1. cur' \in Messages /\ mailbox' \in Seq(Messages) /\ Len(mailbox') <= MailboxSize
    BY <1>3, TailFacts DEF Receive
  <2>2. QED
    BY <1>3, <2>1 DEF Receive
<1>4. CASE HandleAwait
  BY <1>4 DEF HandleAwait, Return
<1>5. CASE HandleDeadActor
  <2>1. CASE cur[1] = "panic"
    <3>1. Crash("dead") /\ pc # "starting"
      BY <1>5, <2>1 DEF HandleDeadActor
    <3>2. QED
      BY <1>0, <3>1
  <2>2. CASE cur[1] # "panic"
    BY <1>5, <2>2 DEF HandleDeadActor, Return
  <2>3. QED
    BY <2>1, <2>2
<1>6. CASE Route
  <2>1. CASE max_actors = 0
    <3>1. Crash("empty") /\ pc # "starting"
      BY <1>6, <2>1 DEF Route
    <3>2. QED
      BY <1>0, <3>1
  <2>2. CASE max_actors # 0
    <3>1. index' = (index + 1) % max_actors /\ UNCHANGED max_actors
      BY <1>6, <2>2 DEF Route
    <3>2. index' \in Workers
      BY <2>2, <3>1
    <3>3. load' \in [Workers -> Nat] /\ target' \in Workers /\ ask' \in AskStates
      BY <1>6, <2>2, SMTT(20) DEF Route
    <3>4. UNCHANGED <<max_actors, loop, cur, cause, pool, status>>
      BY <1>6, <2>2 DEF Route
    <3>5. QED
      BY <3>2, <3>3, <3>4
  <2>3. QED
    BY <2>1, <2>2
<1>7. CASE AskReserve
  BY <1>7 DEF AskReserve, Ask
<1>8. CASE AskClosed
  BY <1>8, <1>0 DEF AskClosed
<1>9. CASE AskPush
  BY <1>9 DEF AskPush, Ask
<1>10. CASE AskAnswered
  BY <1>10 DEF AskAnswered, Return
<1>11. CASE AskDropped
  BY <1>11, <1>0 DEF AskDropped
<1>12. CASE BeginShutdown
  <2>1. shutdown' \in BOOLEAN
    BY <1>12, Zenon DEF BeginShutdown, NoWorkers
  <2>2. timeouts' \in 0..TimeoutLimit /\ pc' \in Positions
    BY <1>12 DEF BeginShutdown, NoWorkers
  <2>3. UNCHANGED <<strategy, mailbox, cur, question, cause, pool, status>>
    BY <1>12 DEF BeginShutdown, NoWorkers
  <2>4. QED
    BY <2>1, <2>2, <2>3
<1>13. CASE StoppingTimeout
  <2>1. CASE timeouts = TimeoutLimit
    <3>0. ~(timeouts < TimeoutLimit)
      BY <2>1, BoundsAssumption
    <3>1. Crash("timeout") /\ pc = "stopping"
      BY <1>13, <3>0, Zenon DEF StoppingTimeout
    <3>2. QED
      BY <1>0, <3>1
  <2>2. CASE timeouts # TimeoutLimit
    <3>1. timeouts' = timeouts + 1 /\ timeouts < TimeoutLimit
      BY <1>13, <2>2 DEF StoppingTimeout
    <3>2. timeouts' \in 0..TimeoutLimit
      BY <3>1
    <3>3. UNCHANGED <<strategy, mailbox, shutdown, cur, question, cause, pool, status>> /\ pc' \in Positions
      BY <1>13, <2>2 DEF StoppingTimeout
    <3>4. QED
      BY <3>2, <3>3
  <2>3. QED
    BY <2>1, <2>2
<1>14. CASE CheckWorkers
  BY <1>14 DEF CheckWorkers, NoWorkers, IsClosed
<1>15. CASE End
  BY <1>15 DEF End
<1>16. ASSUME NEW w \in Workers, WorkerReceive(w) PROVE TypeOK'
  BY <1>16 DEF WorkerReceive, HasQuestion, Ask
<1>17. ASSUME NEW w \in Workers, WorkerHandle(w) PROVE TypeOK'
  <2>1. UNCHANGED <<strategy, loop, cur, target, cause, status>>
    BY <1>17 DEF WorkerHandle, Fail, Ask
  <2>2. ask' \in AskStates
    BY <1>17 DEF WorkerHandle, Fail, Ask
  <2>3. worker' \in [Workers -> WorkerStates]
    <3>1. CASE Ask("answered")
      BY <3>1 DEF Ask
    <3>2. CASE Fail(w, "Stop", "answered")
      BY <3>2 DEF Fail
    <3>3. CASE Fail(w, "Panic", "lost")
      BY <3>3 DEF Fail
    <3>4. QED
      BY <1>17, <3>1, <3>2, <3>3 DEF WorkerHandle
  <2>4. failed' \in SUBSET Workers
    BY <1>17, SMTT(20) DEF WorkerHandle, Fail, Ask
  <2>5. QED
    BY <2>1, <2>2, <2>3, <2>4
<1>18. ASSUME NEW w \in Workers, WorkerOwnMessage(w) PROVE TypeOK'
  BY <1>18, ZenonT(30) DEF WorkerOwnMessage, Waits, HasQuestion, Fail
<1>19. ASSUME NEW w \in Workers, WorkerShutdown(w) PROVE TypeOK'
  BY <1>19 DEF WorkerShutdown, Waits, HasQuestion, Become
<1>20. ASSUME NEW w \in Workers, WorkerOrphaned(w) PROVE TypeOK'
  BY <1>20 DEF WorkerOrphaned, Waits, HasQuestion, NotifierDropped, Become
<1>21. ASSUME NEW w \in Workers, WorkerClose(w) PROVE TypeOK'
  BY <1>21 DEF WorkerClose, Become
<1>22. ASSUME NEW w \in Workers, WorkerDrained(w) PROVE TypeOK'
  BY <1>22 DEF WorkerDrained, HasQuestion, Become
<1>23. ASSUME NEW w \in Workers, WorkerReport(w) PROVE TypeOK'
  <2>1. CASE Closed /\ Become(w, "gone")
    BY <2>1 DEF Become
  <2>2. CASE ~Closed
    <3> DEFINE m == <<IF worker[w] = "panicked" THEN "panic" ELSE "clean", w>>
    <3>1. m \in Messages
      BY DEF Messages
    <3>2. mailbox' = Append(mailbox, m) /\ Len(mailbox) < MailboxSize
      BY <1>23, <2>2 DEF WorkerReport, Room
    <3> HIDE DEF m
    <3>3. mailbox' \in Seq(Messages) /\ Len(mailbox') <= MailboxSize
      BY <3>1, <3>2, AppendFacts
    <3>4. worker' \in [Workers -> WorkerStates]
      BY <1>23, <2>2 DEF WorkerReport
    <3>5. QED
      BY <1>23, <2>2, <3>3, <3>4 DEF WorkerReport
  <2>3. QED
    BY <1>23, <2>1, <2>2 DEF WorkerReport
<1>24. ASSUME NEW w \in Workers, WorkerGone(w) PROVE TypeOK'
  BY <1>24 DEF WorkerGone, Become
<1>25. ASSUME NEW c \in Calls, Send(c) PROVE TypeOK'
  <2>1. CASE Closed
    BY <1>25, <2>1 DEF Send
  <2>2. CASE ~Closed
    <3> DEFINE m == <<"call", c>>
    <3>1. m \in Messages
      BY DEF Messages
    <3>2. mailbox' = Append(mailbox, m) /\ Len(mailbox) < MailboxSize
      BY <1>25, <2>2 DEF Send, Room
    <3> HIDE DEF m
    <3>3. mailbox' \in Seq(Messages) /\ Len(mailbox') <= MailboxSize
      BY <3>1, <3>2, AppendFacts
    <3>4. QED
      BY <1>25, <2>2, <3>3 DEF Send
  <2>3. QED
    BY <2>1, <2>2
<1>26. QED
  BY <1>1, <1>2, <1>3, <1>4, <1>5, <1>6, <1>7, <1>8, <1>9, <1>10, <1>11, <1>12, <1>13,
     <1>14, <1>15, <1>16, <1>17, <1>18, <1>19, <1>20, <1>21, <1>22, <1>23, <1>24, <1>25
      DEF Next, RouterStep, WorkerStep

\* Every step keeps LoopInv.
LEMMA NextLoop == IInv /\ [Next]_vars => LoopInv'
<1> SUFFICES ASSUME IInv, [Next]_vars PROVE LoopInv'
  OBVIOUS
<1>0. ASSUME NEW why \in Causes \ {"none"}, pc # "starting", Crash(why) PROVE LoopInv'
  BY <1>0, CrashKeeps
<1> USE BoundsAssumption, MessageFacts
    DEF IInv, TypeOK, Positions, WorkerStates, Alive, AskStates, Statuses, Causes,
        LoopInv, Workers, strategy, loop, question, pool
<1>1. CASE UNCHANGED vars
  BY <1>1 DEF vars
<1>2. CASE Start
  BY <1>2 DEF Start
<1>3. CASE Receive
  BY <1>3 DEF Receive
<1>4. CASE HandleAwait
  <2>1. pc' \in {"shutdown", "checking", "draining"} /\ cur' = Nil /\ ask = "none"
    BY <1>4 DEF HandleAwait, Return
  <2>2. UNCHANGED <<max_actors, index, worker, ask, target, shutdown, cause>>
    BY <1>4 DEF HandleAwait, Return
  <2>3. pc \in {"running", "stopping", "draining"} /\ (pc' = "checking" => pc = "stopping")
    BY <1>4 DEF HandleAwait, Return
  <2>4. QED
    BY <2>1, <2>2, <2>3
<1>5. CASE HandleDeadActor
  <2>1. CASE cur[1] = "panic"
    <3>1. Crash("dead") /\ pc # "starting"
      BY <1>5, <2>1 DEF HandleDeadActor
    <3>2. QED
      BY <1>0, <3>1
  <2>2. CASE cur[1] # "panic"
    <3>1. pc' \in {"running", "checking", "draining"} /\ cur' = Nil
      BY <1>5, <2>2 DEF HandleDeadActor, Return
    <3>2. UNCHANGED <<max_actors, index, worker, ask, target, shutdown, cause>>
      BY <1>5, <2>2 DEF HandleDeadActor, Return
    <3>3. pc \in {"running", "stopping", "draining"} /\ (pc' = "checking" => pc = "stopping")
      BY <1>5, <2>2 DEF HandleDeadActor, Return
    <3>4. ask = "none"
      BY <1>5 DEF HandleDeadActor
    <3>5. QED
      BY <3>1, <3>2, <3>3, <3>4
  <2>3. QED
    BY <2>1, <2>2
<1>6. CASE Route
  <2>1. CASE max_actors = 0
    <3>1. Crash("empty") /\ pc # "starting"
      BY <1>6, <2>1 DEF Route
    <3>2. QED
      BY <1>0, <3>1
  <2>2. CASE max_actors # 0
    BY <1>6, <2>2, SMTT(20) DEF Route
  <2>3. QED
    BY <2>1, <2>2
<1>7. CASE AskReserve
  BY <1>7 DEF AskReserve, Ask
<1>8. CASE AskClosed
  BY <1>8, <1>0 DEF AskClosed
<1>9. CASE AskPush
  BY <1>9 DEF AskPush, Ask
<1>10. CASE AskAnswered
  BY <1>10 DEF AskAnswered, Return
<1>11. CASE AskDropped
  BY <1>11, <1>0 DEF AskDropped
<1>12. CASE BeginShutdown
  BY <1>12 DEF BeginShutdown, NoWorkers, IsClosed
<1>13. CASE StoppingTimeout
  <2>1. CASE timeouts = TimeoutLimit
    <3>0. ~(timeouts < TimeoutLimit)
      BY <2>1, BoundsAssumption
    <3>1. Crash("timeout") /\ pc = "stopping"
      BY <1>13, <3>0, Zenon DEF StoppingTimeout
    <3>2. QED
      BY <1>0, <3>1
  <2>2. CASE timeouts # TimeoutLimit
    BY <1>13, <2>2 DEF StoppingTimeout
  <2>3. QED
    BY <2>1, <2>2
<1>14. CASE CheckWorkers
  BY <1>14 DEF CheckWorkers, NoWorkers, IsClosed
<1>15. CASE End
  BY <1>15 DEF End
<1>16. ASSUME NEW w \in Workers, WorkerReceive(w) PROVE LoopInv'
  BY <1>16 DEF WorkerReceive, HasQuestion, Ask
<1>17. ASSUME NEW w \in Workers, WorkerHandle(w) PROVE LoopInv'
  <2>1. UNCHANGED <<strategy, loop, cur, target, cause, status>>
    BY <1>17 DEF WorkerHandle, Fail, Ask
  <2>2. ask # "none"
    BY <1>17 DEF WorkerHandle, HasQuestion
  <2>3. \A v \in Workers : worker[v] # "none" => worker'[v] # "none"
    BY <1>17, SMTT(20) DEF WorkerHandle, Fail, Ask
  <2>4. QED
    BY <2>1, <2>2, <2>3
<1>18. ASSUME NEW w \in Workers, WorkerOwnMessage(w) PROVE LoopInv'
  <2>1. UNCHANGED <<strategy, loop, cur, target, cause, status>>
    BY <1>18 DEF WorkerOwnMessage, Fail
  <2>2. ask' # "none" => ask # "none"
    BY <1>18 DEF WorkerOwnMessage, Fail, HasQuestion
  <2>3. \A v \in Workers : worker[v] # "none" => worker'[v] # "none"
    BY <1>18, SMTT(20) DEF WorkerOwnMessage, Fail
  <2>4. QED
    BY <2>1, <2>2, <2>3
<1>19. ASSUME NEW w \in Workers, WorkerShutdown(w) PROVE LoopInv'
  BY <1>19 DEF WorkerShutdown, Waits, HasQuestion, Become
<1>20. ASSUME NEW w \in Workers, WorkerOrphaned(w) PROVE LoopInv'
  BY <1>20 DEF WorkerOrphaned, Waits, HasQuestion, NotifierDropped, Become
<1>21. ASSUME NEW w \in Workers, WorkerClose(w) PROVE LoopInv'
  BY <1>21 DEF WorkerClose, Become
<1>22. ASSUME NEW w \in Workers, WorkerDrained(w) PROVE LoopInv'
  BY <1>22 DEF WorkerDrained, HasQuestion, Become
<1>23. ASSUME NEW w \in Workers, WorkerReport(w) PROVE LoopInv'
  <2>1. UNCHANGED <<strategy, pc, shutdown, timeouts, cur, question, cause, failed, status>>
    BY <1>23 DEF WorkerReport, Become
  <2>2. \A v \in Workers : worker[v] # "none" => worker'[v] # "none"
    BY <1>23 DEF WorkerReport, Become
  <2>3. QED
    BY <2>1, <2>2
<1>24. ASSUME NEW w \in Workers, WorkerGone(w) PROVE LoopInv'
  BY <1>24 DEF WorkerGone, Become
<1>25. ASSUME NEW c \in Calls, Send(c) PROVE LoopInv'
  BY <1>25 DEF Send, Closed, Room
<1>26. QED
  BY <1>1, <1>2, <1>3, <1>4, <1>5, <1>6, <1>7, <1>8, <1>9, <1>10, <1>11, <1>12, <1>13,
     <1>14, <1>15, <1>16, <1>17, <1>18, <1>19, <1>20, <1>21, <1>22, <1>23, <1>24, <1>25
      DEF Next, RouterStep, WorkerStep

\* Every step keeps WorkerInv.
LEMMA NextWorker == IInv /\ [Next]_vars => WorkerInv'
<1> SUFFICES ASSUME IInv, [Next]_vars PROVE WorkerInv'
  OBVIOUS
<1>0. ASSUME NEW why \in Causes \ {"none"}, pc # "starting", Crash(why) PROVE WorkerInv'
  BY <1>0, CrashKeeps
<1> USE MessageFacts
    DEF IInv, TypeOK, Positions, WorkerStates, Alive, AskStates, Statuses, Causes,
        LoopInv, WorkerInv, strategy, loop, question, pool
<1>1. CASE UNCHANGED vars
  BY <1>1 DEF vars
<1>2. CASE Start
  BY <1>2 DEF Start
<1>3. CASE Receive
  <2>1. cur' = Head(mailbox) /\ mailbox' = Tail(mailbox) /\ mailbox # <<>>
    BY <1>3 DEF Receive
  <2>2. UNCHANGED <<pc, shutdown, worker, failed, ask>>
    BY <1>3 DEF Receive
  <2>3. /\ Head(mailbox) = mailbox[1] /\ Len(mailbox) > 0 /\ Len(Tail(mailbox)) = Len(mailbox) - 1
        /\ \A i \in 1..Len(Tail(mailbox)) : Tail(mailbox)[i] = mailbox[i + 1]
    BY <2>1, TailFacts
  <2>4. cur'[1] = "panic" => failed # {}
    BY <2>1, <2>3
  <2>5. ASSUME NEW i \in 1..Len(mailbox'), mailbox'[i][1] = "panic" PROVE failed # {}
    <3>1. i + 1 \in 1..Len(mailbox) /\ mailbox'[i] = mailbox[i + 1]
      BY <2>1, <2>3
    <3>2. QED
      BY <2>5, <3>1
  <2>6. QED
    BY <2>2, <2>4, <2>5
<1>4. CASE HandleAwait
  BY <1>4 DEF HandleAwait, Return
<1>5. CASE HandleDeadActor
  <2>1. CASE cur[1] = "panic"
    <3>1. Crash("dead") /\ pc # "starting"
      BY <1>5, <2>1 DEF HandleDeadActor
    <3>2. QED
      BY <1>0, <3>1
  <2>2. CASE cur[1] # "panic"
    BY <1>5, <2>2 DEF HandleDeadActor, Return
  <2>3. QED
    BY <2>1, <2>2
<1>6. CASE Route
  <2>1. CASE max_actors = 0
    <3>1. Crash("empty") /\ pc # "starting"
      BY <1>6, <2>1 DEF Route
    <3>2. QED
      BY <1>0, <3>1
  <2>2. CASE max_actors # 0
    BY <1>6, <2>2 DEF Route
  <2>3. QED
    BY <2>1, <2>2
<1>7. CASE AskReserve
  BY <1>7 DEF AskReserve, Ask
<1>8. CASE AskClosed
  BY <1>8, <1>0 DEF AskClosed
<1>9. CASE AskPush
  BY <1>9 DEF AskPush, Ask
<1>10. CASE AskAnswered
  BY <1>10 DEF AskAnswered, Return
<1>11. CASE AskDropped
  BY <1>11, <1>0 DEF AskDropped
<1>12. CASE BeginShutdown
  BY <1>12 DEF BeginShutdown, NoWorkers, IsClosed
<1>13. CASE StoppingTimeout
  <2>1. CASE timeouts = TimeoutLimit
    <3>0. ~(timeouts < TimeoutLimit)
      BY <2>1, BoundsAssumption
    <3>1. Crash("timeout") /\ pc = "stopping"
      BY <1>13, <3>0, Zenon DEF StoppingTimeout
    <3>2. QED
      BY <1>0, <3>1
  <2>2. CASE timeouts # TimeoutLimit
    BY <1>13, <2>2 DEF StoppingTimeout
  <2>3. QED
    BY <2>1, <2>2
<1>14. CASE CheckWorkers
  BY <1>14 DEF CheckWorkers, NoWorkers, IsClosed
<1>15. CASE End
  BY <1>15 DEF End
<1>16. ASSUME NEW w \in Workers, WorkerReceive(w) PROVE WorkerInv'
  BY <1>16 DEF WorkerReceive, HasQuestion, Ask
<1>17. ASSUME NEW w \in Workers, WorkerHandle(w) PROVE WorkerInv'
  BY <1>17 DEF WorkerHandle, HasQuestion, Fail, Ask
<1>18. ASSUME NEW w \in Workers, WorkerOwnMessage(w) PROVE WorkerInv'
  BY <1>18 DEF WorkerOwnMessage, Waits, HasQuestion, Fail
<1>19. ASSUME NEW w \in Workers, WorkerShutdown(w) PROVE WorkerInv'
  BY <1>19 DEF WorkerShutdown, Waits, HasQuestion, Become
<1>20. ASSUME NEW w \in Workers, WorkerOrphaned(w) PROVE WorkerInv'
  BY <1>20 DEF WorkerOrphaned, Waits, HasQuestion, NotifierDropped, Become
<1>21. ASSUME NEW w \in Workers, WorkerClose(w) PROVE WorkerInv'
  BY <1>21 DEF WorkerClose, Become
<1>22. ASSUME NEW w \in Workers, WorkerDrained(w) PROVE WorkerInv'
  BY <1>22 DEF WorkerDrained, HasQuestion, Become
<1>23. ASSUME NEW w \in Workers, WorkerReport(w) PROVE WorkerInv'
  <2>1. UNCHANGED <<pc, shutdown, cur, ask, failed>>
    BY <1>23 DEF WorkerReport, Become
  <2>2. /\ worker[w] \in {"reporting", "panicked"} /\ worker'[w] \in {"reported", "gone"}
        /\ worker[w] = "panicked" => worker'[w] = "gone"
        /\ \A v \in Workers : v # w => worker'[v] = worker[v]
    BY <1>23 DEF WorkerReport, Become
  <2>3. ASSUME NEW i \in 1..Len(mailbox'), mailbox'[i][1] = "panic" PROVE failed # {}
    <3>1. CASE Closed
      BY <1>23, <2>3, <3>1 DEF WorkerReport, Become
    <3>2. CASE ~Closed
      <4> DEFINE m == <<IF worker[w] = "panicked" THEN "panic" ELSE "clean", w>>
      <4>1. m \in Messages /\ (m[1] = "panic" => worker[w] = "panicked")
        BY DEF Messages
      <4>2. mailbox' = Append(mailbox, m)
        BY <1>23, <3>2 DEF WorkerReport
      <4> HIDE DEF m
      <4>3. /\ Len(mailbox') = Len(mailbox) + 1
            /\ mailbox'[Len(mailbox) + 1] = m
            /\ \A j \in 1..Len(mailbox) : mailbox'[j] = mailbox[j]
        BY <4>1, <4>2, AppendFacts
      <4>4. i \in 1..Len(mailbox) \/ i = Len(mailbox) + 1
        BY <4>3
      <4>5. worker[w] = "panicked" => failed # {}
        BY <3>2 DEF Closed
      <4>6. QED
        BY <2>3, <4>1, <4>3, <4>4, <4>5
    <3>3. QED
      BY <3>1, <3>2
  <2>4. QED
    BY <2>1, <2>2, <2>3
<1>24. ASSUME NEW w \in Workers, WorkerGone(w) PROVE WorkerInv'
  BY <1>24 DEF WorkerGone, Become
<1>25. ASSUME NEW c \in Calls, Send(c) PROVE WorkerInv'
  <2>1. UNCHANGED <<pc, shutdown, cur, ask, worker, failed>>
    BY <1>25 DEF Send
  <2>2. ASSUME NEW i \in 1..Len(mailbox'), mailbox'[i][1] = "panic" PROVE failed # {}
    <3>1. CASE Closed
      BY <1>25, <2>2, <3>1 DEF Send
    <3>2. CASE ~Closed
      <4> DEFINE m == <<"call", c>>
      <4>1. m \in Messages /\ m[1] = "call"
        BY DEF Messages
      <4>2. mailbox' = Append(mailbox, m)
        BY <1>25, <3>2 DEF Send
      <4> HIDE DEF m
      <4>3. /\ Len(mailbox') = Len(mailbox) + 1
            /\ mailbox'[Len(mailbox) + 1] = m
            /\ \A j \in 1..Len(mailbox) : mailbox'[j] = mailbox[j]
        BY <4>1, <4>2, AppendFacts
      <4>4. i \in 1..Len(mailbox) \/ i = Len(mailbox) + 1
        BY <4>3
      <4>5. QED
        BY <2>2, <4>1, <4>3, <4>4
    <3>3. QED
      BY <3>1, <3>2
  <2>3. QED
    BY <2>1, <2>2
<1>26. QED
  BY <1>1, <1>2, <1>3, <1>4, <1>5, <1>6, <1>7, <1>8, <1>9, <1>10, <1>11, <1>12, <1>13,
     <1>14, <1>15, <1>16, <1>17, <1>18, <1>19, <1>20, <1>21, <1>22, <1>23, <1>24, <1>25
      DEF Next, RouterStep, WorkerStep

\* Every step keeps QueueInv.
LEMMA NextQueue == IInv /\ [Next]_vars => QueueInv'
<1> SUFFICES ASSUME IInv, [Next]_vars PROVE QueueInv'
  OBVIOUS
<1>0. ASSUME NEW why \in Causes \ {"none"}, pc # "starting", Crash(why) PROVE QueueInv'
  BY <1>0, CrashKeeps
<1>00. ASSUME UNCHANGED <<mailbox, cur, status>>, pc' # "over" PROVE QueueInv'
  BY <1>00 DEF IInv, QueueInv
<1>01. ASSUME UNCHANGED <<mailbox, cur, status, pc>> PROVE QueueInv'
  BY <1>01 DEF IInv, QueueInv
<1> USE MessageFacts
    DEF IInv, TypeOK, Positions, WorkerStates, Alive, AskStates, Statuses, Causes,
        LoopInv, QueueInv, strategy, loop, question, pool
<1>1. CASE UNCHANGED vars
  BY <1>1 DEF vars
<1>2. CASE Start
  BY <1>2 DEF Start
<1>3. CASE Receive
  <2>1. cur = Nil /\ cur' = Head(mailbox) /\ mailbox' = Tail(mailbox) /\ mailbox # <<>>
    BY <1>3 DEF Receive
  <2>2. UNCHANGED <<pc, status>> /\ pc # "over"
    BY <1>3 DEF Receive
  <2>3. /\ Head(mailbox) = mailbox[1] /\ Len(mailbox) > 0 /\ Len(Tail(mailbox)) = Len(mailbox) - 1
        /\ \A i \in 1..Len(Tail(mailbox)) : Tail(mailbox)[i] = mailbox[i + 1]
    BY <2>1, TailFacts
  <2>4. ASSUME NEW c \in Calls, status'[c] = "queued"
        PROVE  cur' = <<"call", c>> \/ \E i \in 1..Len(mailbox') : mailbox'[i] = <<"call", c>>
    <3>1. <<"call", c>> # Nil
      BY BoundsAssumption DEF Messages
    <3>2. PICK i \in 1..Len(mailbox) : mailbox[i] = <<"call", c>>
      BY <2>1, <2>2, <2>4, <3>1
    <3>3. CASE i = 1
      BY <2>1, <2>3, <3>2, <3>3
    <3>4. CASE i # 1
      <4>1. i - 1 \in 1..Len(mailbox') /\ mailbox'[i - 1] = mailbox[(i - 1) + 1]
        BY <2>1, <2>3, <3>4
      <4>2. QED
        BY <3>2, <4>1, SMTT(20)
    <3>5. QED
      BY <3>3, <3>4
  <2>5. QED
    BY <2>2, <2>4
<1>4. CASE HandleAwait
  <2>1. cur # Nil /\ pc' # "over" /\ UNCHANGED mailbox
    BY <1>4 DEF HandleAwait, Return
  <2>2. \A c \in Calls : status'[c] = "queued" => status[c] = "queued" /\ c # cur[2]
    BY <1>4 DEF HandleAwait
  <2>3. \A c \in Calls : cur = <<"call", c>> => c = cur[2]
    OBVIOUS
  <2>4. QED
    BY <2>1, <2>2, <2>3
<1>5. CASE HandleDeadActor
  <2>1. CASE cur[1] = "panic"
    <3>1. Crash("dead") /\ pc # "starting"
      BY <1>5, <2>1 DEF HandleDeadActor
    <3>2. QED
      BY <1>0, <3>1
  <2>2. CASE cur[1] # "panic"
    <3>1. cur[1] = "clean" /\ pc' # "over" /\ cur' = Nil /\ UNCHANGED <<mailbox, status>>
      BY <1>5, <2>2 DEF HandleDeadActor, Return
    <3>2. \A c \in Calls : cur # <<"call", c>>
      BY <3>1
    <3>3. QED
      BY <3>1, <3>2
  <2>3. QED
    BY <2>1, <2>2
<1>6. CASE Route
  <2>1. CASE max_actors = 0
    <3>1. Crash("empty") /\ pc # "starting"
      BY <1>6, <2>1 DEF Route
    <3>2. QED
      BY <1>0, <3>1
  <2>2. CASE max_actors # 0
    BY <1>6, <2>2, <1>01 DEF Route
  <2>3. QED
    BY <2>1, <2>2
<1>7. CASE AskReserve
  BY <1>7 DEF AskReserve, Ask
<1>8. CASE AskClosed
  BY <1>8, <1>0 DEF AskClosed
<1>9. CASE AskPush
  BY <1>9 DEF AskPush, Ask
<1>10. CASE AskAnswered
  <2>1. /\ cur' = Nil /\ pc' # "over" /\ UNCHANGED mailbox
        /\ status' = [status EXCEPT ![cur[2]] = "answered"]
    BY <1>10 DEF AskAnswered, Return
  <2>2. ASSUME NEW c \in Calls, status'[c] = "queued"
        PROVE  status[c] = "queued" /\ cur # <<"call", c>>
    BY <2>1, <2>2
  <2>3. QED
    BY <2>1, <2>2
<1>11. CASE AskDropped
  BY <1>11, <1>0 DEF AskDropped
<1>12. CASE BeginShutdown
  BY <1>12, <1>00 DEF BeginShutdown, NoWorkers
<1>13. CASE StoppingTimeout
  <2>1. CASE timeouts = TimeoutLimit
    <3>0. ~(timeouts < TimeoutLimit)
      BY <2>1, BoundsAssumption
    <3>1. Crash("timeout") /\ pc = "stopping"
      BY <1>13, <3>0, Zenon DEF StoppingTimeout
    <3>2. QED
      BY <1>0, <3>1
  <2>2. CASE timeouts # TimeoutLimit
    BY <1>13, <2>2, <1>00 DEF StoppingTimeout
  <2>3. QED
    BY <2>1, <2>2
<1>14. CASE CheckWorkers
  BY <1>14, <1>00 DEF CheckWorkers, NoWorkers
<1>15. CASE End
  BY <1>15 DEF End
<1>16. ASSUME NEW w \in Workers, WorkerReceive(w) PROVE QueueInv'
  BY <1>16 DEF WorkerReceive, HasQuestion, Ask
<1>17. ASSUME NEW w \in Workers, WorkerHandle(w) PROVE QueueInv'
  BY <1>17 DEF WorkerHandle, HasQuestion, Fail, Ask
<1>18. ASSUME NEW w \in Workers, WorkerOwnMessage(w) PROVE QueueInv'
  BY <1>18, <1>01 DEF WorkerOwnMessage, Fail
<1>19. ASSUME NEW w \in Workers, WorkerShutdown(w) PROVE QueueInv'
  BY <1>19 DEF WorkerShutdown, Waits, HasQuestion, Become
<1>20. ASSUME NEW w \in Workers, WorkerOrphaned(w) PROVE QueueInv'
  BY <1>20 DEF WorkerOrphaned, Waits, HasQuestion, NotifierDropped, Become
<1>21. ASSUME NEW w \in Workers, WorkerClose(w) PROVE QueueInv'
  BY <1>21 DEF WorkerClose, Become
<1>22. ASSUME NEW w \in Workers, WorkerDrained(w) PROVE QueueInv'
  BY <1>22 DEF WorkerDrained, HasQuestion, Become
<1>23. ASSUME NEW w \in Workers, WorkerReport(w) PROVE QueueInv'
  <2>1. CASE Closed
    BY <1>23, <2>1, <1>01 DEF WorkerReport, Become
  <2>2. CASE ~Closed
    <3> DEFINE m == <<IF worker[w] = "panicked" THEN "panic" ELSE "clean", w>>
    <3>1. m \in Messages
      BY DEF Messages
    <3>2. mailbox' = Append(mailbox, m) /\ UNCHANGED <<pc, cur, status>> /\ pc # "over"
      BY <1>23, <2>2 DEF WorkerReport, Closed
    <3> HIDE DEF m
    <3>3. /\ Len(mailbox') = Len(mailbox) + 1
          /\ \A i \in 1..Len(mailbox) : mailbox'[i] = mailbox[i]
      BY <3>1, <3>2, AppendFacts
    <3>4. 1..Len(mailbox) \subseteq 1..Len(mailbox')
      BY <3>3
    <3>5. ASSUME NEW c \in Calls, status'[c] = "queued"
          PROVE  cur' = <<"call", c>> \/ \E i \in 1..Len(mailbox') : mailbox'[i] = <<"call", c>>
      BY <3>2, <3>3, <3>4, <3>5
    <3>6. QED
      BY <3>2, <3>5
  <2>3. QED
    BY <2>1, <2>2
<1>24. ASSUME NEW w \in Workers, WorkerGone(w) PROVE QueueInv'
  BY <1>24 DEF WorkerGone, Become
<1>25. ASSUME NEW c \in Calls, Send(c) PROVE QueueInv'
  <2>1. CASE Closed
    BY <1>25, <2>1, SMTT(20) DEF Send
  <2>2. CASE ~Closed
    <3> DEFINE m == <<"call", c>>
    <3>1. m \in Messages
      BY DEF Messages
    <3>2. /\ mailbox' = Append(mailbox, m) /\ UNCHANGED <<pc, cur>> /\ pc # "over"
          /\ status' = [status EXCEPT ![c] = "queued"]
      BY <1>25, <2>2 DEF Send, Closed
    <3>3. /\ Len(mailbox') = Len(mailbox) + 1
          /\ mailbox'[Len(mailbox) + 1] = m
          /\ \A i \in 1..Len(mailbox) : mailbox'[i] = mailbox[i]
      BY <3>1, <3>2, AppendFacts
    <3>4. 1..Len(mailbox) \subseteq 1..Len(mailbox') /\ Len(mailbox) + 1 \in 1..Len(mailbox')
      BY <3>3
    <3>5. ASSUME NEW d \in Calls, status'[d] = "queued"
          PROVE  cur' = <<"call", d>> \/ \E i \in 1..Len(mailbox') : mailbox'[i] = <<"call", d>>
      <4>1. CASE d = c
        BY <3>3, <3>4, <4>1
      <4>2. CASE d # c
        <5>1. status[d] = "queued"
          BY <3>2, <3>5, <4>2
        <5>2. QED
          BY <3>2, <3>3, <3>4, <5>1, ZenonT(30)
      <4>3. QED
        BY <4>1, <4>2
    <3>6. QED
      BY <3>2, <3>5
  <2>3. QED
    BY <2>1, <2>2
<1>26. QED
  BY <1>1, <1>2, <1>3, <1>4, <1>5, <1>6, <1>7, <1>8, <1>9, <1>10, <1>11, <1>12, <1>13,
     <1>14, <1>15, <1>16, <1>17, <1>18, <1>19, <1>20, <1>21, <1>22, <1>23, <1>24, <1>25
      DEF Next, RouterStep, WorkerStep

\* Only routing a question moves the index.
LEMMA StrategyFrame == [Next]_vars => UNCHANGED strategy \/ (Route /\ max_actors # 0)
<1> SUFFICES ASSUME [Next]_vars PROVE UNCHANGED strategy \/ (Route /\ max_actors # 0)
  OBVIOUS
<1>1. CASE UNCHANGED vars
  BY <1>1 DEF vars
<1>2. CASE RouterStep
  <2>1. CASE Route
    BY <2>1 DEF Route, Crash
  <2>2. CASE ~Route
    BY <1>2, <2>2, Zenon
        DEF RouterStep, Start, Receive, HandleAwait, HandleDeadActor, Crash, AskReserve,
            Ask, AskClosed,
       AskPush, AskAnswered, AskDropped, BeginShutdown, NoWorkers, StoppingTimeout,
       CheckWorkers, End
  <2>3. QED
    BY <2>1, <2>2
<1>3. ASSUME NEW w \in Workers, WorkerStep(w) \/ WorkerOwnMessage(w) PROVE UNCHANGED strategy
  BY <1>3, Zenon DEF WorkerStep, WorkerReceive, WorkerHandle, WorkerOwnMessage,
          WorkerShutdown,
     WorkerOrphaned, WorkerClose, WorkerDrained, WorkerReport, WorkerGone, Ask, Fail, Become
<1>4. ASSUME NEW c \in Calls, Send(c) PROVE UNCHANGED strategy
  BY <1>4 DEF Send
<1>5. QED
  BY <1>1, <1>2, <1>3, <1>4 DEF Next

\* Every step keeps RoundInv.
LEMMA NextRound == IInv /\ [Next]_vars => RoundInv'
<1> SUFFICES ASSUME IInv, [Next]_vars PROVE RoundInv'
  OBVIOUS
<1>1. CASE UNCHANGED strategy
  BY <1>1 DEF IInv, RoundInv, strategy
<1>2. CASE Route /\ max_actors # 0
  <2> DEFINE n == max_actors
  <2>1. n \in Nat /\ index \in Nat /\ load \in [Workers -> Nat] /\ index \in Workers
    BY BoundsAssumption DEF IInv, TypeOK, Workers
  <2>2. /\ n' = n
        /\ load' = [load EXCEPT ![index] = load[index] + 1]
        /\ index' = (index + 1) % n
    BY <1>2 DEF Route
  <2>3. index < n
    BY <1>2, <2>1 DEF IInv, LoopInv
  <2>4. CASE index + 1 < n
    <3>1. index' = index + 1
      BY <2>1, <2>2, <2>4
    <3> SUFFICES ASSUME NEW v \in Workers, NEW w \in Workers, v < n, w < n
                 PROVE  /\ v < index' /\ w >= index' => load'[v] = load'[w] + 1
                        /\ (v < index' <=> w < index') => load'[v] = load'[w]
      BY <2>2 DEF RoundInv
    <3>2. /\ v < index /\ w >= index => load[v] = load[w] + 1
          /\ w < index /\ v >= index => load[w] = load[v] + 1
          /\ (v < index <=> w < index) => load[v] = load[w]
      BY DEF IInv, RoundInv
    <3>3. v \in Nat /\ w \in Nat
      BY BoundsAssumption DEF Workers
    <3>4. QED
      BY <2>1, <2>2, <3>1, <3>2, <3>3
  <2>5. CASE index + 1 = n
    <3>1. index' = 0
      BY <2>1, <2>2, <2>5
    <3> SUFFICES ASSUME NEW v \in Workers, NEW w \in Workers, v < n, w < n
                 PROVE  load'[v] = load'[w]
      BY <2>2, <3>1, BoundsAssumption DEF RoundInv, Workers
    <3>2. /\ v < index /\ w >= index => load[v] = load[w] + 1
          /\ w < index /\ v >= index => load[w] = load[v] + 1
          /\ (v < index <=> w < index) => load[v] = load[w]
      BY DEF IInv, RoundInv
    <3>3. v \in Nat /\ w \in Nat
      BY BoundsAssumption DEF Workers
    <3>4. QED
      BY <2>1, <2>2, <2>5, <3>2, <3>3
  <2>6. QED
    BY <2>1, <2>3, <2>4, <2>5
<1>3. QED
  BY <1>1, <1>2, StrategyFrame

\* Each panic of the router has one of the reasons CrashExplained names.
LEMMA NextCrash == IInv /\ [Next]_vars => CrashExplained'
<1> SUFFICES ASSUME IInv, [Next]_vars PROVE CrashExplained'
  OBVIOUS
<1> USE MessageFacts
    DEF IInv, TypeOK, Positions, WorkerStates, Alive, AskStates, Statuses, Causes,
        LoopInv, WorkerInv, CrashExplained, strategy, loop, question, pool
<1>1. CASE UNCHANGED vars
  BY <1>1 DEF vars
<1>2. CASE Start
  BY <1>2 DEF Start
<1>3. CASE Receive
  BY <1>3 DEF Receive
<1>4. CASE HandleAwait
  BY <1>4 DEF HandleAwait, Return
<1>5. CASE HandleDeadActor
  BY <1>5 DEF HandleDeadActor, Return, Crash
<1>6. CASE Route
  BY <1>6 DEF Route, Crash
<1>7. CASE AskReserve
  BY <1>7 DEF AskReserve, Ask
<1>8. CASE AskClosed
  BY <1>8 DEF AskClosed, Crash
<1>9. CASE AskPush
  BY <1>9 DEF AskPush, Ask
<1>10. CASE AskAnswered
  BY <1>10 DEF AskAnswered, Return
<1>11. CASE AskDropped
  BY <1>11 DEF AskDropped, Crash
<1>12. CASE BeginShutdown
  BY <1>12 DEF BeginShutdown, NoWorkers, IsClosed
<1>13. CASE StoppingTimeout
  BY <1>13 DEF StoppingTimeout, Crash
<1>14. CASE CheckWorkers
  BY <1>14 DEF CheckWorkers, NoWorkers, IsClosed
<1>15. CASE End
  BY <1>15 DEF End
<1>16. ASSUME NEW w \in Workers, WorkerReceive(w) PROVE CrashExplained'
  BY <1>16 DEF WorkerReceive, HasQuestion, Ask
<1>17. ASSUME NEW w \in Workers, WorkerHandle(w) PROVE CrashExplained'
  BY <1>17 DEF WorkerHandle, HasQuestion, Fail, Ask
<1>18. ASSUME NEW w \in Workers, WorkerOwnMessage(w) PROVE CrashExplained'
  BY <1>18 DEF WorkerOwnMessage, Waits, HasQuestion, Fail
<1>19. ASSUME NEW w \in Workers, WorkerShutdown(w) PROVE CrashExplained'
  BY <1>19 DEF WorkerShutdown, Waits, HasQuestion, Become
<1>20. ASSUME NEW w \in Workers, WorkerOrphaned(w) PROVE CrashExplained'
  BY <1>20 DEF WorkerOrphaned, Waits, HasQuestion, NotifierDropped, Become
<1>21. ASSUME NEW w \in Workers, WorkerClose(w) PROVE CrashExplained'
  BY <1>21 DEF WorkerClose, Become
<1>22. ASSUME NEW w \in Workers, WorkerDrained(w) PROVE CrashExplained'
  BY <1>22 DEF WorkerDrained, HasQuestion, Become
<1>23. ASSUME NEW w \in Workers, WorkerReport(w) PROVE CrashExplained'
  BY <1>23 DEF WorkerReport, Become, Closed, Room
<1>24. ASSUME NEW w \in Workers, WorkerGone(w) PROVE CrashExplained'
  BY <1>24 DEF WorkerGone, Become
<1>25. ASSUME NEW c \in Calls, Send(c) PROVE CrashExplained'
  BY <1>25 DEF Send, Closed, Room
<1>26. QED
  BY <1>1, <1>2, <1>3, <1>4, <1>5, <1>6, <1>7, <1>8, <1>9, <1>10, <1>11, <1>12, <1>13,
     <1>14, <1>15, <1>16, <1>17, <1>18, <1>19, <1>20, <1>21, <1>22, <1>23, <1>24, <1>25
      DEF Next, RouterStep, WorkerStep

\* The initial states satisfy the invariant.
LEMMA InitInv == Init => IInv
<1> SUFFICES ASSUME Init PROVE IInv
  OBVIOUS
<1> USE BoundsAssumption DEF Init
<1>1. TypeOK
  BY DEF TypeOK, Workers, Positions, AskStates, Causes, WorkerStates, Alive, Statuses
<1>2. LoopInv
  BY DEF LoopInv
<1>3. WorkerInv
  BY DEF WorkerInv, Alive
<1>4. QueueInv
  BY DEF QueueInv
<1>5. RoundInv
  BY DEF RoundInv, Workers
<1>6. CrashExplained
  BY DEF CrashExplained
<1>7. QED
  BY <1>1, <1>2, <1>3, <1>4, <1>5, <1>6 DEF IInv

\* The invariant is inductive.
LEMMA InductiveInvariant == Spec => []IInv
<1>1. IInv /\ [Next]_vars => IInv'
  BY NextType, NextLoop, NextWorker, NextQueue, NextRound, NextCrash DEF IInv
<1>2. QED
  BY InitInv, <1>1, PTL DEF Spec

\* Every reachable state is well typed: the index of round_robin_router stays
\* within the pool, the mailbox within its size and stopping() within its limit.
THEOREM TypeCorrect == Spec => []TypeOK
<1>1. IInv => TypeOK
  BY DEF IInv
<1>2. QED
  BY InductiveInvariant, <1>1, PTL

\* The router panics only for a reason its code gives (the error arms of the
\* AsyncAsk handler, the DeadActor handler, stopping()).
THEOREM CrashExplainedHolds == Spec => []CrashExplained
<1>1. IInv => CrashExplained
  BY DEF IInv
<1>2. QED
  BY InductiveInvariant, <1>1, PTL

\* round_robin_router never hands a worker two questions more than another.
THEOREM FairShareHolds == Spec => []FairShare
<1>1. IInv => FairShare
  <2> SUFFICES ASSUME IInv, NEW v \in Workers, NEW w \in Workers, v < max_actors, w < max_actors
               PROVE  load[v] <= load[w] + 1
    BY DEF FairShare
  <2>1. /\ v < index /\ w >= index => load[v] = load[w] + 1
        /\ w < index /\ v >= index => load[w] = load[v] + 1
        /\ (v < index <=> w < index) => load[v] = load[w]
    BY DEF IInv, RoundInv
  <2>2. load[v] \in Nat /\ load[w] \in Nat /\ index \in Nat /\ v \in Nat /\ w \in Nat
    BY BoundsAssumption DEF IInv, TypeOK, Workers
  <2>3. QED
    BY <2>1, <2>2
<1>2. QED
  BY InductiveInvariant, <1>1, PTL

\* Who awaits the router gets it back (run_actor, after stop()) only when its
\* workers have ended and the mailbox is read.
THEOREM PoolEmptyAtEndHolds == Spec => []PoolEmptyAtEnd
<1>1. IInv => PoolEmptyAtEnd
  <2> SUFFICES ASSUME IInv, pc = "over"
               PROVE  /\ \A w \in Workers : worker[w] \notin Alive
                      /\ cause = "none" /\ mailbox = <<>>
                      /\ \A c \in Calls : status[c] \notin {"queued", "waiting"}
    BY DEF PoolEmptyAtEnd
  <2>1. cause = "none" /\ cur = Nil
    BY DEF IInv, LoopInv
  <2>2. mailbox = <<>> /\ \A c \in Calls : status[c] # "waiting"
    BY DEF IInv, QueueInv
  <2>3. ASSUME NEW c \in Calls PROVE status[c] # "queued"
    <3>1. <<"call", c>> # Nil
      BY BoundsAssumption DEF Messages
    <3>2. 1..Len(mailbox) = {}
      BY <2>2
    <3>3. QED
      BY <2>1, <3>1, <3>2 DEF IInv, QueueInv
  <2>4. QED
    BY <2>1, <2>2, <2>3 DEF IInv, WorkerInv
<1>2. QED
  BY InductiveInvariant, <1>1, PTL

=============================================================================
