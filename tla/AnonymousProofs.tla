---------------------------- MODULE AnonymousProofs ----------------------------
(***************************************************************************)
(* Proofs about Anonymous, for every script of requests, every mailbox     *)
(* size, every limit of anonymous tasks, every timeout limit and both run  *)
(* loops.                                                                  *)
(***************************************************************************)
EXTENDS Anonymous, FiniteSetTheorems, TLAPS

Holders == {t \in Tasks : HoldsPermit(t)}

\* The tasks whose future has ended and whose receiver is gone.
Done == {"panicked", "reporting", "over"}

\* The mailbox closes when stop() begins, the actor panics or a handler aborts it,
\* a broadcast comes with the end of the run loop, and nothing is left in the mailbox at the end.
LoopInv ==
  /\ shutdown => loop # "run"
  /\ pc = "shutdown" => loop = "run"
  /\ closed <=> loop = "drain" \/ pc = "crashed" \/ aborted
  /\ pc = "over" => loop = "drain" /\ mailbox = <<>>

\* The actor has a message in hand in process_message and, in run_actor, in
\* check_anonymous_actors before it.
CurInv ==
  /\ cur # Nil <=> \/ pc \in {"handle", "await"}
                   \/ ~Supervised /\ pc \in {"permits", "acquire"}
  /\ pc = "await" => cur.kind = "request"

\* The request r is in the mailbox or in hand.
Pending(r) == cur = Request(r) \/ \E i \in 1..Len(mailbox) : mailbox[i] = Request(r)

\* A request is in one place.
Once ==
  /\ \A i, j \in 1..Len(mailbox) :
       mailbox[i] = mailbox[j] /\ mailbox[i].kind = "request" => i = j
  /\ \A i \in 1..Len(mailbox) : mailbox[i].kind = "request" => mailbox[i] # cur

RequestInv ==
  /\ Once
  /\ \A r \in Requests : Pending(r) => status[r] = "queued"

\* A task is spawned once, by the handler of its request, and those spawned
\* before stop() have ended when it begins.
TaskInv ==
  /\ \A t \in Tasks : task[t] = "none" <=> born[t] = "none"
  /\ \A t \in tracked : task[t] # "none"
  /\ \A r \in Relays : task[r] = "none" <=> task[Worker(r)] = "none"
  /\ \A r \in Requests :
       status[r] \in {"unsent", "reserved", "queued"} /\ r \in Tasks => task[r] = "none"
  /\ loop = "drain" => \A t \in Tasks : born[t] \in {"run", "stop"} => task[t] \in Done

\* No more permits are out than there are, and what Acquire subtracts is there.
PermitInv ==
  /\ IsFiniteSet(tracked)
  /\ Cardinality(Holders) <= MaxAnonymous
  /\ pc = "acquire" => need <= overflow

\* Why the worker of a question has no result.
WorkerInv ==
  \A r \in Relays :
    /\ task[Worker(r)] = "cancelled" => loop # "run" \/ pc = "crashed"
    /\ task[Worker(r)] = "panicked" => Script[r].fails

IInv ==
  /\ TypeOK
  /\ LoopInv
  /\ CurInv
  /\ RequestInv
  /\ TaskInv
  /\ PermitInv
  /\ WorkerInv
  /\ AnsweredUnlessStopping

-----------------------------------------------------------------------------
(* The parts the steps are made of.                                        *)

\* The messages a mailbox holds.
LEMMA MessageFacts ==
  /\ Nil \notin Message
  /\ \A r \in Requests : Request(r) \in Message /\ Request(r).kind = "request" /\ Request(r).id = r
  /\ \A t \in Tasks : /\ Notice(t) \in Message /\ Notice(t).kind # "request"
                      /\ Result(t) \in Message /\ Result(t).kind # "request"
  /\ \A m \in Message : m.kind = "request" => m.id \in Requests /\ m = Request(m.id)
<1>1. Nil \notin Message
  BY ScriptAssumption
<1> QED
  BY <1>1 DEF Message, Request, Notice, Result

\* Tasks are the requests that spawn one, and the workers, which have a name of
\* their own each.
LEMMA TaskNames ==
  /\ Relays \subseteq Requests
  /\ \A r \in Relays : r \in Tasks /\ Worker(r) \in Tasks /\ Worker(r) \in Workers
  /\ \A r \in Requests : r \notin Workers
  /\ \A r, s \in Relays : Worker(r) = Worker(s) => r = s
  /\ \A t \in Tasks : t \in Requests \/ \E r \in Relays : t = Worker(r)
BY ScriptAssumption DEF Relays, Tasks, Workers

\* The client of a worker is the request it works for.
LEMMA ClientOfWorker ==
  ASSUME NEW r \in Relays PROVE Client(Worker(r)) = r
<1>1. \A s \in Requests : (s = Worker(r) \/ (s \in Relays /\ Worker(s) = Worker(r))) <=> s = r
  BY ScriptAssumption DEF Relays, Workers
<1>2. r \in Requests
  BY DEF Relays
<1> QED
  BY <1>1, <1>2 DEF Client

\* Append adds one element, at the end.
LEMMA AppendFacts ==
  ASSUME NEW S, NEW q \in Seq(S), NEW e \in S
  PROVE  /\ Append(q, e) \in Seq(S)
         /\ Len(Append(q, e)) = Len(q) + 1
         /\ Append(q, e)[Len(q) + 1] = e
         /\ \A i \in 1..Len(q) : Append(q, e)[i] = q[i]
         /\ Len(q) \in Nat
OBVIOUS

\* Tail shifts what is left of a non-empty sequence by one.
LEMMA TailFacts ==
  ASSUME NEW S, NEW q \in Seq(S), q # <<>>
  PROVE  /\ Len(q) \in Nat \ {0}
         /\ Tail(q) \in Seq(S)
         /\ Len(Tail(q)) = Len(q) - 1
         /\ \A i \in 1..Len(q) - 1 : Tail(q)[i] = q[i + 1]
         /\ Head(q) = q[1] /\ Head(q) \in S
OBVIOUS

\* Where process_message returns to.
LEMMA ReturnFacts ==
  ASSUME TypeOK, NEW st \in {"Running", "Stopping", "Stopped"}, Return(st)
  PROVE  /\ pc' \in {"shutdown", "permits", "recv", "check"}
         /\ pc' = "shutdown" => loop = "run"
         /\ pc' = "permits" => Supervised
         /\ state' = st /\ cur' = Nil
         /\ UNCHANGED <<loop, shutdown, timeouts, need, mailbox>>
<1>1. loop \in {"run", "stop", "drain"}
  BY DEF TypeOK
<1>2. CASE loop = "run" /\ st # "Running"
  BY <1>2 DEF Return
<1>3. CASE loop = "run" /\ st = "Running"
  BY <1>3 DEF Return
<1>4. CASE loop = "stop"
  BY <1>4 DEF Return
<1>5. CASE loop = "drain"
  BY <1>5 DEF Return
<1> QED
  BY <1>1, <1>2, <1>3, <1>4, <1>5

\* The permits that are out can be counted, and there are as many as there may be.
LEMMA PermitFacts ==
  ASSUME TypeOK, PermitInv
  PROVE  /\ IsFiniteSet(Holders)
         /\ Cardinality(Holders) \in Nat
         /\ Available = MaxAnonymous - Cardinality(Holders)
         /\ Available \in 0..MaxAnonymous
<1>1. Holders \subseteq tracked
  BY DEF Holders, HoldsPermit
<1>2. IsFiniteSet(Holders) /\ Cardinality(Holders) \in Nat
  BY <1>1, FS_Subset, FS_CardinalityType DEF PermitInv
<1>3. Available = MaxAnonymous - Cardinality(Holders)
  BY DEF Available, Holders
<1> QED
  BY <1>2, <1>3, BoundsAssumption DEF PermitInv

\* One task is spawned.
LEMMA SpawnOne ==
  ASSUME IInv, NEW x \in Tasks, task[x] = "none", SpawnTasks(<<x>>)
  PROVE  /\ task' \in [Tasks -> TaskStates]
         /\ \A t \in Tasks : task'[t] = IF t = x THEN "spawned" ELSE task[t]
         /\ born' \in [Tasks -> {"none", "run", "stop", "drain"}]
         /\ \A t \in Tasks : born'[t] = IF t = x THEN loop ELSE born[t]
         /\ tracked \subseteq tracked' /\ tracked' \subseteq tracked \cup {x}
         /\ overflow' \in Nat
         /\ IsFiniteSet(tracked') /\ Cardinality(Holders') <= MaxAnonymous
<1> USE DEF IInv
<1>1. /\ IsFiniteSet(Holders) /\ Cardinality(Holders) \in Nat
      /\ Available = MaxAnonymous - Cardinality(Holders)
      /\ Available \in 0..MaxAnonymous
  BY PermitFacts
<1>2. \A t : (\E i \in DOMAIN <<x>> : <<x>>[i] = t) <=> t = x
  OBVIOUS
<1>3. /\ task' \in [Tasks -> TaskStates]
      /\ \A t \in Tasks : task'[t] = IF t = x THEN "spawned" ELSE task[t]
  BY <1>2 DEF SpawnTasks, TypeOK, TaskStates
<1>4. /\ born' \in [Tasks -> {"none", "run", "stop", "drain"}]
      /\ \A t \in Tasks : born'[t] = IF t = x THEN loop ELSE born[t]
  BY <1>2 DEF SpawnTasks, TypeOK
<1>5. \/ Available = 0 /\ tracked' = tracked /\ overflow' = overflow + 1
      \/ Available >= 1 /\ tracked' = tracked \cup {x} /\ overflow' = overflow
  <2>1. Len(<<x>>) = 1 /\ <<x>>[1] = x
    OBVIOUS
  <2>2. CASE Available = 0
    <3>1. {<<x>>[i] : i \in 1..0} = {}
      OBVIOUS
    <3>2. tracked' = tracked \cup {<<x>>[i] : i \in 1..0} /\ overflow' = overflow + 1 - 0
      BY <2>1, <2>2 DEF SpawnTasks
    <3> QED
      BY <2>2, <3>1, <3>2 DEF TypeOK
  <2>3. CASE Available # 0
    <3>1. {<<x>>[i] : i \in 1..1} = {x}
      BY <2>1
    <3>2. Available >= 1
      BY <1>1, <2>3, BoundsAssumption
    <3>3. ~(Available < 1)
      BY <1>1, <3>2, BoundsAssumption
    <3>4. tracked' = tracked \cup {<<x>>[i] : i \in 1..1} /\ overflow' = overflow + 1 - 1
      BY <2>1, <3>3 DEF SpawnTasks
    <3> QED
      BY <3>1, <3>2, <3>4 DEF TypeOK
  <2> QED
    BY <2>2, <2>3
<1>6. overflow' \in Nat /\ tracked \subseteq tracked' /\ tracked' \subseteq tracked \cup {x}
  BY <1>5 DEF TypeOK
<1>7. IsFiniteSet(tracked')
  BY <1>5, FS_AddElement DEF PermitInv
<1>8. x \notin tracked /\ x \notin Holders
  BY DEF TaskInv, Holders, HoldsPermit
<1>9. \A t \in Tasks \ {x} : HoldsPermit(t)' <=> HoldsPermit(t)
  BY <1>3, <1>6 DEF HoldsPermit
<1>10. HoldsPermit(x)' <=> x \in tracked'
  BY <1>3 DEF HoldsPermit
<1>11. Holders' = IF x \in tracked' THEN Holders \cup {x} ELSE Holders
  BY <1>8, <1>9, <1>10 DEF Holders
<1>12. Cardinality(Holders') <= MaxAnonymous
  <2>1. CASE Available = 0 /\ tracked' = tracked
    BY <1>8, <1>11, <2>1 DEF PermitInv
  <2>2. CASE Available >= 1 /\ tracked' = tracked \cup {x}
    <3>1. Cardinality(Holders') = Cardinality(Holders) + 1
      BY <1>1, <1>8, <1>11, <2>2, FS_AddElement
    <3> QED
      BY <1>1, <2>2, <3>1, BoundsAssumption
  <2> QED
    BY <1>5, <2>1, <2>2
<1> QED
  BY <1>3, <1>4, <1>6, <1>7, <1>12

\* Two tasks are spawned: a worker and its relay.
LEMMA SpawnTwo ==
  ASSUME IInv, NEW x \in Tasks, NEW y \in Tasks, x # y, task[x] = "none", task[y] = "none",
         SpawnTasks(<<x, y>>)
  PROVE  /\ task' \in [Tasks -> TaskStates]
         /\ \A t \in Tasks : task'[t] = IF t \in {x, y} THEN "spawned" ELSE task[t]
         /\ born' \in [Tasks -> {"none", "run", "stop", "drain"}]
         /\ \A t \in Tasks : born'[t] = IF t \in {x, y} THEN loop ELSE born[t]
         /\ tracked \subseteq tracked' /\ tracked' \subseteq tracked \cup {x, y}
         /\ overflow' \in Nat
         /\ IsFiniteSet(tracked') /\ Cardinality(Holders') <= MaxAnonymous
<1> USE DEF IInv
<1>1. /\ IsFiniteSet(Holders) /\ Cardinality(Holders) \in Nat
      /\ Available = MaxAnonymous - Cardinality(Holders)
      /\ Available \in 0..MaxAnonymous
  BY PermitFacts
<1>2. \A t : (\E i \in DOMAIN <<x, y>> : <<x, y>>[i] = t) <=> t \in {x, y}
  OBVIOUS
<1>3. /\ task' \in [Tasks -> TaskStates]
      /\ \A t \in Tasks : task'[t] = IF t \in {x, y} THEN "spawned" ELSE task[t]
  BY <1>2 DEF SpawnTasks, TypeOK, TaskStates
<1>4. /\ born' \in [Tasks -> {"none", "run", "stop", "drain"}]
      /\ \A t \in Tasks : born'[t] = IF t \in {x, y} THEN loop ELSE born[t]
  BY <1>2 DEF SpawnTasks, TypeOK
<1>5. \/ Available = 0 /\ tracked' = tracked /\ overflow' = overflow + 2
      \/ Available = 1 /\ tracked' = tracked \cup {x} /\ overflow' = overflow + 1
      \/ Available >= 2 /\ tracked' = (tracked \cup {x}) \cup {y} /\ overflow' = overflow
  <2>1. Len(<<x, y>>) = 2 /\ <<x, y>>[1] = x /\ <<x, y>>[2] = y
    OBVIOUS
  <2>2. CASE Available = 0
    <3>1. {<<x, y>>[i] : i \in 1..0} = {}
      OBVIOUS
    <3>2. tracked' = tracked \cup {<<x, y>>[i] : i \in 1..0} /\ overflow' = overflow + 2 - 0
      BY <2>1, <2>2 DEF SpawnTasks
    <3> QED
      BY <2>2, <3>1, <3>2 DEF TypeOK
  <2>3. CASE Available = 1
    <3>1. {<<x, y>>[i] : i \in 1..1} = {x}
      BY <2>1
    <3>2. tracked' = tracked \cup {<<x, y>>[i] : i \in 1..1} /\ overflow' = overflow + 2 - 1
      BY <2>1, <2>3 DEF SpawnTasks
    <3> QED
      BY <2>3, <3>1, <3>2 DEF TypeOK
  <2>4. CASE Available # 0 /\ Available # 1
    <3>1. {<<x, y>>[i] : i \in 1..2} = {x, y}
      BY <2>1
    <3>2. Available >= 2 /\ ~(Available < 2)
      BY <1>1, <2>4, BoundsAssumption
    <3>3. tracked' = tracked \cup {<<x, y>>[i] : i \in 1..2} /\ overflow' = overflow + 2 - 2
      BY <2>1, <3>2 DEF SpawnTasks
    <3> QED
      BY <3>1, <3>2, <3>3 DEF TypeOK
  <2> QED
    BY <2>2, <2>3, <2>4
<1>6. overflow' \in Nat /\ tracked \subseteq tracked' /\ tracked' \subseteq tracked \cup {x, y}
  BY <1>5 DEF TypeOK
<1>7. IsFiniteSet(tracked')
  <2>1. IsFiniteSet(tracked) /\ IsFiniteSet(tracked \cup {x})
    BY FS_AddElement DEF PermitInv
  <2>2. IsFiniteSet((tracked \cup {x}) \cup {y})
    BY <2>1, FS_AddElement
  <2> QED
    BY <1>5, <2>1, <2>2
<1>8. x \notin tracked /\ x \notin Holders /\ y \notin tracked /\ y \notin Holders
  BY DEF TaskInv, Holders, HoldsPermit
<1>9. \A t \in Tasks \ {x, y} : HoldsPermit(t)' <=> HoldsPermit(t)
  BY <1>3, <1>6 DEF HoldsPermit
<1>10. (HoldsPermit(x)' <=> x \in tracked') /\ (HoldsPermit(y)' <=> y \in tracked')
  BY <1>3 DEF HoldsPermit
<1>11. Holders' = Holders \cup ({x, y} \cap tracked')
  BY <1>8, <1>9, <1>10 DEF Holders
<1>12. Cardinality(Holders') <= MaxAnonymous
  <2>1. CASE Available = 0 /\ tracked' = tracked
    <3>1. Holders' = Holders
      BY <1>8, <1>11, <2>1
    <3> QED
      BY <3>1 DEF PermitInv
  <2>2. /\ IsFiniteSet(Holders \cup {x})
        /\ Cardinality(Holders \cup {x}) = Cardinality(Holders) + 1
    BY <1>1, <1>8, FS_AddElement
  <2>3. CASE Available = 1 /\ tracked' = tracked \cup {x}
    <3>1. Holders' = Holders \cup {x}
      BY <1>8, <1>11, <2>3
    <3> QED
      BY <1>1, <2>2, <2>3, <3>1, BoundsAssumption
  <2>4. CASE Available >= 2 /\ tracked' = (tracked \cup {x}) \cup {y}
    <3>1. Holders' = (Holders \cup {x}) \cup {y}
      BY <1>11, <2>4
    <3>2. Cardinality(Holders') = Cardinality(Holders) + 1 + 1
      BY <1>8, <2>2, <3>1, FS_AddElement
    <3> QED
      BY <1>1, <2>4, <3>2, BoundsAssumption
  <2> QED
    BY <1>5, <2>1, <2>3, <2>4
<1> QED
  BY <1>3, <1>4, <1>6, <1>7, <1>12

\* A step that leaves the mailbox and the message in hand alone.
LEMMA SameMessages ==
  ASSUME UNCHANGED <<cur, mailbox>>
  PROVE  (Once => Once') /\ \A r \in Requests : Pending(r)' <=> Pending(r)
BY DEF Once, Pending, Request

\* Once in the next state, from what the mailbox and cur are there.
LEMMA OnceNext ==
  ASSUME NEW q, NEW m, mailbox' = q, cur' = m,
         \A i, j \in 1..Len(q) : q[i] = q[j] /\ q[i].kind = "request" => i = j,
         \A i \in 1..Len(q) : q[i].kind = "request" => q[i] # m
  PROVE  Once'
BY DEF Once

\* Taking a message moves it from the mailbox to the actor's hand.
LEMMA TakeMessage ==
  ASSUME TypeOK, Once, mailbox # <<>>, cur = Nil, cur' = Head(mailbox), mailbox' = Tail(mailbox)
  PROVE  Once' /\ \A r \in Requests : Pending(r)' <=> Pending(r)
<1> DEFINE q == mailbox
           t == Tail(q)
<1>1. /\ q \in Seq(Message) /\ Len(q) \in Nat \ {0} /\ Len(t) = Len(q) - 1
      /\ \A i \in 1..Len(q) - 1 : t[i] = q[i + 1]
      /\ mailbox' = t /\ cur' = q[1]
  BY TailFacts DEF TypeOK
<1>2. /\ \A i, j \in 1..Len(q) : q[i] = q[j] /\ q[i].kind = "request" => i = j
      /\ \A r : (\E i \in 1..Len(mailbox) : mailbox[i] = Request(r))
                  <=> (\E i \in 1..Len(q) : q[i] = Request(r))
  BY DEF Once
<1> HIDE DEF q, t
<1>3. \A i \in 1..Len(q) : i = 1 \/ (i - 1 \in 1..Len(t) /\ t[i - 1] = q[i])
  BY <1>1
<1>4. 1 \in 1..Len(q) /\ \A i \in 1..Len(t) : i + 1 \in 1..Len(q) /\ t[i] = q[i + 1]
  BY <1>1
<1>5. \A m : (\E i \in 1..Len(q) : q[i] = m) <=> (q[1] = m \/ \E i \in 1..Len(t) : t[i] = m)
  BY <1>3, <1>4
<1>6. \A r \in Requests : Pending(r)' <=> Pending(r)
  <2> SUFFICES ASSUME NEW r \in Requests PROVE Pending(r)' <=> Pending(r)
    OBVIOUS
  <2>1. Request(r) # Nil
    BY MessageFacts
  <2>2. Pending(r) <=> \E i \in 1..Len(q) : q[i] = Request(r)
    BY <1>2, <2>1 DEF Pending
  <2>3. Pending(r)' <=> (q[1] = Request(r) \/ \E i \in 1..Len(t) : t[i] = Request(r))
    BY <1>1 DEF Pending, Request
  <2> QED
    BY <1>5, <2>2, <2>3
<1>7. \A i, j \in 1..Len(t) : t[i] = t[j] /\ t[i].kind = "request" => i = j
  <2> SUFFICES ASSUME NEW i \in 1..Len(t), NEW j \in 1..Len(t),
                      t[i] = t[j], t[i].kind = "request"
               PROVE  i = j
    OBVIOUS
  <2>1. /\ i + 1 \in 1..Len(q) /\ j + 1 \in 1..Len(q)
        /\ q[i + 1] = q[j + 1] /\ q[i + 1].kind = "request"
    BY <1>4
  <2>2. i + 1 = j + 1
    BY <1>2, <2>1
  <2> QED
    BY <1>1, <2>2
<1>8. \A i \in 1..Len(t) : t[i].kind = "request" => t[i] # q[1]
  <2> SUFFICES ASSUME NEW i \in 1..Len(t), t[i].kind = "request", t[i] = q[1] PROVE FALSE
    OBVIOUS
  <2>1. 1 \in 1..Len(q) /\ i + 1 \in 1..Len(q) /\ q[i + 1] = q[1] /\ q[i + 1].kind = "request"
    BY <1>4
  <2>2. i + 1 = 1
    BY <1>2, <2>1
  <2> QED
    BY <1>1, <2>2
<1>9. Once'
  BY <1>1, <1>7, <1>8, OnceNext
<1> QED
  BY <1>6, <1>9

\* A message put into the mailbox: no request, or one that is not there yet.
LEMMA PutMessage ==
  ASSUME TypeOK, Once, NEW m \in Message, mailbox' = Append(mailbox, m), UNCHANGED cur,
         m.kind = "request" => ~Pending(m.id)
  PROVE  Once' /\ \A r \in Requests : Pending(r)' <=> Pending(r) \/ m = Request(r)
<1> DEFINE q == mailbox
           t == Append(q, m)
<1>1. /\ Len(q) \in Nat /\ Len(t) = Len(q) + 1 /\ t[Len(q) + 1] = m
      /\ \A i \in 1..Len(q) : t[i] = q[i]
      /\ mailbox' = t /\ cur' = cur
  BY AppendFacts DEF TypeOK
<1>2. /\ \A i, j \in 1..Len(q) : q[i] = q[j] /\ q[i].kind = "request" => i = j
      /\ \A i \in 1..Len(q) : q[i].kind = "request" => q[i] # cur
  BY DEF Once
<1>3. m.kind = "request" => cur # m /\ \A i \in 1..Len(q) : q[i] # m
  BY MessageFacts DEF Pending
<1>4. \A r : Pending(r) <=> (cur = Request(r) \/ \E i \in 1..Len(q) : q[i] = Request(r))
  BY DEF Pending
<1> HIDE DEF q, t
<1>5. \A i \in 1..Len(t) : (i \in 1..Len(q) /\ t[i] = q[i]) \/ (i = Len(q) + 1 /\ t[i] = m)
  BY <1>1
<1>6. Len(q) + 1 \in 1..Len(t) /\ \A i \in 1..Len(q) : i \in 1..Len(t) /\ t[i] = q[i]
  BY <1>1
<1>7. \A x : (\E i \in 1..Len(t) : t[i] = x) <=> (x = m \/ \E i \in 1..Len(q) : q[i] = x)
  BY <1>1, <1>5, <1>6
<1>8. \A r \in Requests : Pending(r)' <=> Pending(r) \/ m = Request(r)
  <2> SUFFICES ASSUME NEW r \in Requests PROVE Pending(r)' <=> Pending(r) \/ m = Request(r)
    OBVIOUS
  <2>1. Pending(r)' <=> (cur = Request(r) \/ \E i \in 1..Len(t) : t[i] = Request(r))
    BY <1>1 DEF Pending, Request
  <2> QED
    BY <1>4, <1>7, <2>1
<1>9. \A i, j \in 1..Len(t) : t[i] = t[j] /\ t[i].kind = "request" => i = j
  BY <1>2, <1>3, <1>5
<1>10. \A i \in 1..Len(t) : t[i].kind = "request" => t[i] # cur
  BY <1>2, <1>3, <1>5
<1>11. Once'
  BY <1>1, <1>9, <1>10, OnceNext
<1> QED
  BY <1>8, <1>11

\* The message in hand is dealt with.
LEMMA DoneMessage ==
  ASSUME TypeOK, Once, cur' = Nil, UNCHANGED mailbox
  PROVE  Once' /\ \A r \in Requests : Pending(r)' <=> Pending(r) /\ cur # Request(r)
<1>1. \A i \in 1..Len(mailbox) : mailbox[i] # Nil
  BY MessageFacts DEF TypeOK
<1>2. Once'
  BY <1>1 DEF Once
<1> SUFFICES ASSUME NEW r \in Requests
             PROVE  Pending(r)' <=> Pending(r) /\ cur # Request(r)
  BY <1>2
<1>3. Request(r) # Nil /\ Request(r).kind = "request"
  BY MessageFacts
<1>4. Pending(r)' <=> \E i \in 1..Len(mailbox) : mailbox[i] = Request(r)
  BY <1>3 DEF Pending, Request
<1>5. \A i \in 1..Len(mailbox) : mailbox[i] = Request(r) => cur # Request(r)
  BY <1>3 DEF Once
<1> QED
  BY <1>4, <1>5 DEF Pending

-----------------------------------------------------------------------------
(* What a step leaves as it was.                                           *)

\* The loop goes forward, and a panic is final.
Forward ==
  /\ loop # "run" => loop' # "run"
  /\ pc = "crashed" => pc' = "crashed"

\* No task moves, and none is left running when stop() begins.
LEMMA TasksFrame ==
  ASSUME IInv, UNCHANGED tasks, Forward,
         loop' = "drain" => loop = "drain" \/ IsClosed,
         \A r \in Requests : status'[r] \in {"unsent", "reserved", "queued"} =>
                               status[r] \in {"unsent", "reserved", "queued"}
  PROVE  TaskInv' /\ WorkerInv' /\ IsFiniteSet(tracked') /\ Cardinality(Holders') <= MaxAnonymous
<1> USE DEF IInv, tasks
<1>1. IsFiniteSet(tracked') /\ Cardinality(Holders') <= MaxAnonymous
  BY DEF PermitInv, Holders, HoldsPermit
<1>2. WorkerInv'
  BY DEF WorkerInv, Forward
<1>3. ASSUME IsClosed, NEW t \in Tasks, born[t] # "none" PROVE task[t] \in Done
  <2>1. task[t] \in TaskStates /\ task[t] # "none"
    BY <1>3 DEF TaskInv, TypeOK
  <2>2. task[t] \notin {"spawned", "working", "finished", "cancelled", "told", "detached"}
    BY <1>3 DEF IsClosed, Receivers
  <2> QED
    BY <2>1, <2>2 DEF TaskStates, Done
<1>4. loop' = "drain" => \A t \in Tasks : born[t] \in {"run", "stop"} => task[t] \in Done
  BY <1>3 DEF TaskInv
<1>5. TaskInv'
  BY <1>4 DEF TaskInv
<1> QED
  BY <1>1, <1>2, <1>5

\* No question is dropped that the actor, going on, would have to answer.
LEMMA AnsweredFrame ==
  ASSUME IInv, Forward,
         \A r \in Asks : status'[r] = "dropped" =>
           \/ status[r] = "dropped"
           \/ loop' # "run" \/ pc' = "crashed"
           \/ Op(r) = "AsyncAskBlocking"
           \/ r \in Relays /\ Script[r].fails
  PROVE  AnsweredUnlessStopping'
BY DEF IInv, AnsweredUnlessStopping, Forward

-----------------------------------------------------------------------------
(* Callers.                                                                *)

\* A caller reserves a slot, fills it or fails.
LEMMA CallerInv ==
  ASSUME IInv, NEW r \in Requests, CallerStep(r) PROVE IInv'
<1> USE DEF IInv
<1>1. UNCHANGED <<actor, tasks>>
  BY DEF CallerStep, Reserve, Push, Fail
<1>2. /\ UNCHANGED <<loop, pc, state, closed, aborted, cur, shutdown, timeouts, overflow, need>>
      /\ UNCHANGED <<task, tracked, born>>
  BY <1>1 DEF actor, tasks
<1>3. \/ /\ UNCHANGED mailbox
         /\ status[r] \in {"unsent", "reserved"}
         /\ \E s \in {"reserved", "late", "panicked", "refused"} :
              status' = [status EXCEPT ![r] = s]
      \/ /\ status[r] = "reserved" /\ ~NotifierDropped
         /\ mailbox' = Append(mailbox, Request(r))
         /\ status' = [status EXCEPT ![r] = "queued"]
  BY DEF CallerStep, Reserve, Push, Fail
<1>4. /\ \A s \in Requests \ {r} : status'[s] = status[s]
      /\ status[r] \in {"unsent", "reserved"}
      /\ status'[r] \in {"reserved", "late", "panicked", "refused", "queued"}
  BY <1>3 DEF TypeOK
<1>5. Request(r) \in Message /\ Request(r).kind = "request" /\ Request(r).id = r
  BY MessageFacts
<1>6. ~Pending(r)
  BY <1>4 DEF RequestInv
<1>7. TypeOK'
  <2>1. mailbox' \in Seq(Message)
    <3>1. mailbox \in Seq(Message)
      BY DEF TypeOK
    <3>2. Append(mailbox, Request(r)) \in Seq(Message)
      BY <1>5, <3>1, AppendFacts
    <3> QED
      BY <1>3, <3>1, <3>2
  <2>2. status' \in [Requests -> Statuses]
    BY <1>3 DEF TypeOK, Statuses
  <2> QED
    BY <1>2, <2>1, <2>2 DEF TypeOK
<1>8. LoopInv'
  BY <1>2, <1>3 DEF LoopInv, NotifierDropped
<1>9. CurInv'
  BY <1>2 DEF CurInv
<1>10. RequestInv'
  <2>1. CASE mailbox' = mailbox
    <3>1. Once' /\ \A s \in Requests : Pending(s)' <=> Pending(s)
      BY <1>2, <2>1, SameMessages DEF RequestInv
    <3> QED
      BY <1>4, <1>6, <3>1 DEF RequestInv
  <2>2. CASE /\ mailbox' = Append(mailbox, Request(r))
             /\ status' = [status EXCEPT ![r] = "queued"]
    <3>1. Once' /\ \A s \in Requests : Pending(s)' <=> Pending(s) \/ Request(r) = Request(s)
      BY <1>2, <1>5, <1>6, <2>2, PutMessage DEF RequestInv
    <3>2. \A s \in Requests : Request(r) = Request(s) => r = s
      BY MessageFacts
    <3>3. status'[r] = "queued"
      BY <2>2 DEF TypeOK
    <3> QED
      BY <1>4, <3>1, <3>2, <3>3 DEF RequestInv
  <2> QED
    BY <1>3, <2>1, <2>2
<1>11. Forward /\ \A s \in Requests : status'[s] \in {"unsent", "reserved", "queued"} =>
                                        status[s] \in {"unsent", "reserved", "queued"}
  BY <1>2, <1>4 DEF Forward
<1>12. TaskInv' /\ WorkerInv' /\ IsFiniteSet(tracked') /\ Cardinality(Holders') <= MaxAnonymous
  BY <1>1, <1>2, <1>11, TasksFrame
<1>13. PermitInv'
  BY <1>2, <1>12 DEF PermitInv
<1>14. AnsweredUnlessStopping'
  BY <1>4, <1>11, AnsweredFrame DEF Asks
<1> QED
  BY <1>7, <1>8, <1>9, <1>10, <1>12, <1>13, <1>14

-----------------------------------------------------------------------------
(* The executor.                                                           *)

\* A panic of the actor.
LEMMA CrashInv ==
  ASSUME IInv, Crash, pc # "over" PROVE IInv'
<1> USE DEF IInv
<1>1. /\ pc' = "crashed" /\ closed' = TRUE /\ mailbox' = <<>> /\ cur' = Nil
      /\ UNCHANGED <<loop, state, aborted, shutdown, timeouts, overflow, need, tasks>>
  BY DEF Crash
<1>2. \A r \in Requests : status'[r] = IF status[r] = "queued" THEN "dropped" ELSE status[r]
  BY DEF Crash
<1>3. TypeOK'
  <2>1. status' \in [Requests -> Statuses]
    BY DEF Crash, TypeOK, Statuses
  <2>2. mailbox' \in Seq(Message)
    BY <1>1
  <2> QED
    BY <1>1, <2>1, <2>2 DEF TypeOK, Positions, tasks
<1>4. LoopInv' /\ CurInv'
  BY <1>1 DEF LoopInv, CurInv
<1>5. RequestInv'
  <2>1. Once'
    BY <1>1 DEF Once
  <2>2. \A r \in Requests : ~Pending(r)'
    <3> SUFFICES ASSUME NEW r \in Requests PROVE ~Pending(r)'
      OBVIOUS
    <3>1. Request(r) # Nil
      BY MessageFacts
    <3> QED
      BY <1>1, <3>1 DEF Pending, Request
  <2> QED
    BY <2>1, <2>2 DEF RequestInv
<1>6. Forward /\ (loop' = "drain" => loop = "drain")
  BY <1>1 DEF Forward
<1>7. \A r \in Requests : status'[r] \in {"unsent", "reserved", "queued"} =>
                            status[r] \in {"unsent", "reserved", "queued"}
  BY <1>2
<1>8. TaskInv' /\ WorkerInv' /\ IsFiniteSet(tracked') /\ Cardinality(Holders') <= MaxAnonymous
  BY <1>1, <1>6, <1>7, TasksFrame
<1>9. PermitInv'
  BY <1>1, <1>8 DEF PermitInv
<1>10. AnsweredUnlessStopping'
  BY <1>1, <1>6, AnsweredFrame
<1> QED
  BY <1>3, <1>4, <1>5, <1>8, <1>9, <1>10

\* Taking the oldest message.
LEMMA ReceiveInv ==
  ASSUME IInv, Receive PROVE IInv'
<1> USE DEF IInv
<1>1. /\ pc = "recv" /\ mailbox # <<>> /\ cur' = Head(mailbox) /\ mailbox' = Tail(mailbox)
      /\ pc' = IF loop = "run" /\ ~Supervised THEN "permits" ELSE "handle"
      /\ UNCHANGED <<loop, state, closed, aborted, shutdown, timeouts, overflow, need, tasks, status>>
  BY DEF Receive
<1>2. Tail(mailbox) \in Seq(Message) /\ Head(mailbox) \in Message /\ Head(mailbox) # Nil
  BY <1>1, TailFacts, MessageFacts DEF TypeOK
<1>3. TypeOK'
  BY <1>1, <1>2 DEF TypeOK, Positions, tasks
<1>4. LoopInv' /\ CurInv'
  BY <1>1, <1>2 DEF LoopInv, CurInv
<1>5. Once' /\ \A r \in Requests : Pending(r)' <=> Pending(r)
  <2>1. cur = Nil
    BY <1>1 DEF CurInv
  <2> QED
    BY <1>1, <2>1, TakeMessage DEF RequestInv
<1>6. RequestInv'
  BY <1>1, <1>5 DEF RequestInv
<1>7. Forward
  BY <1>1 DEF Forward
<1>8. TaskInv' /\ WorkerInv' /\ IsFiniteSet(tracked') /\ Cardinality(Holders') <= MaxAnonymous
  BY <1>1, <1>7, TasksFrame
<1>9. PermitInv'
  BY <1>1, <1>8 DEF PermitInv
<1>10. AnsweredUnlessStopping'
  BY <1>1, <1>7, AnsweredFrame
<1> QED
  BY <1>3, <1>4, <1>6, <1>8, <1>9, <1>10

\* A step that moves the actor on and leaves messages, requests and tasks alone.
LEMMA ControlInv ==
  ASSUME IInv, UNCHANGED <<cur, mailbox, tasks, status>>, TypeOK', LoopInv', CurInv', Forward,
         loop' = "drain" => loop = "drain" \/ IsClosed, pc' = "acquire" => need' <= overflow'
  PROVE  IInv'
<1> USE DEF IInv
<1>1. RequestInv'
  BY SameMessages DEF RequestInv
<1>2. TaskInv' /\ WorkerInv' /\ IsFiniteSet(tracked') /\ Cardinality(Holders') <= MaxAnonymous
  BY TasksFrame
<1>3. PermitInv'
  BY <1>2 DEF PermitInv
<1>4. AnsweredUnlessStopping'
  BY AnsweredFrame
<1> QED
  BY <1>1, <1>2, <1>3, <1>4

\* check_anonymous_actors: what is waited for is at most what is owed.
LEMMA CheckAnonymousInv ==
  ASSUME IInv, CheckAnonymousActors \/ Acquire PROVE IInv'
<1> USE DEF IInv
<1>1. CASE CheckAnonymousActors
  <2> DEFINE n == Cardinality(Holders)
  <2>1. n \in 0..MaxAnonymous /\ MaxAnonymous - Available = n
    <3>1. /\ Cardinality(Holders) \in Nat /\ Available = MaxAnonymous - Cardinality(Holders)
          /\ Available \in 0..MaxAnonymous
      BY PermitFacts
    <3> QED
      BY <3>1, BoundsAssumption
  <2> HIDE DEF n
  <2>2. /\ pc = "permits"
        /\ \/ pc' = Checked /\ need' = need
           \/ pc' = "acquire" /\ need' = IF overflow < n THEN overflow ELSE n
        /\ UNCHANGED <<loop, state, closed, aborted, cur, shutdown, timeouts, overflow, mailbox, tasks, status>>
    BY <1>1, <2>1 DEF CheckAnonymousActors
  <2>3. /\ pc' = "acquire" => need' <= overflow
        /\ need' \in 0..MaxAnonymous
    BY <2>1, <2>2, BoundsAssumption DEF TypeOK, Checked
  <2>4. pc' \in {"acquire", Checked} /\ Checked \in {"recv", "handle"}
    BY <2>2 DEF Checked
  <2>5. TypeOK'
    BY <2>2, <2>3, <2>4 DEF TypeOK, Positions, tasks
  <2>6. LoopInv'
    BY <2>2, <2>4 DEF LoopInv
  <2>7. CurInv'
    BY <2>2, <2>4, BoundsAssumption DEF CurInv, Checked
  <2>8. Forward /\ (loop' = "drain" => loop = "drain")
    BY <2>2 DEF Forward
  <2>9. UNCHANGED <<cur, mailbox, tasks, status>> /\ (pc' = "acquire" => need' <= overflow')
    BY <2>2, <2>3
  <2> QED
    BY <2>5, <2>6, <2>7, <2>8, <2>9, ControlInv
<1>2. CASE Acquire
  <2>1. /\ pc = "acquire" /\ overflow' = overflow - need /\ need' = 0 /\ pc' = Checked
        /\ UNCHANGED <<loop, state, closed, aborted, cur, shutdown, timeouts, mailbox, tasks, status>>
    BY <1>2 DEF Acquire
  <2>2. overflow' \in Nat /\ need' \in 0..MaxAnonymous
    BY <2>1, BoundsAssumption DEF TypeOK, PermitInv
  <2>3. Checked \in {"recv", "handle"}
    BY DEF Checked
  <2>4. TypeOK'
    BY <2>1, <2>2, <2>3 DEF TypeOK, Positions, tasks
  <2>5. LoopInv'
    BY <2>1, <2>3 DEF LoopInv
  <2>6. CurInv'
    BY <2>1, <2>3, BoundsAssumption DEF CurInv, Checked
  <2>7. Forward /\ (loop' = "drain" => loop = "drain") /\ (pc' = "acquire" => need' <= overflow')
    BY <2>1, <2>3 DEF Forward
  <2> QED
    BY <2>1, <2>4, <2>5, <2>6, <2>7, ControlInv
<1> QED
  BY <1>1, <1>2

\* The steps of shutdown(), stopping() and stop(), and the supervisor's word.
LEMMA StoppingInv ==
  ASSUME IInv, BeginShutdown \/ StoppingMailboxClosed \/ StoppingTimeout \/ CheckReceivers
               \/ End \/ SupervisorSpeaks \/ HandleAsyncAsk
  PROVE  IInv'
<1> USE DEF IInv
<1>1. CASE Crash
  <2>1. pc # "over"
    BY DEF BeginShutdown, StoppingMailboxClosed, StoppingTimeout, CheckReceivers, End,
           SupervisorSpeaks, HandleAsyncAsk, Serves
  <2> QED
    BY <1>1, <2>1, CrashInv
<1>2. CASE ~Crash
  <2>1. /\ UNCHANGED <<cur, mailbox, tasks, status, overflow, need>>
        /\ \/ /\ pc \in {"shutdown", "check"} /\ IsClosed
              /\ closed' = TRUE /\ state' = "Stopped" /\ loop' = "drain" /\ pc' = "recv"
              /\ UNCHANGED <<aborted, shutdown, timeouts>>
           \/ /\ pc = "shutdown"
              /\ state' = "Stopping" /\ shutdown' = TRUE /\ timeouts' = 0
              /\ loop' = "stop" /\ pc' = "recv" /\ UNCHANGED <<closed, aborted>>
           \/ /\ pc = "recv" /\ loop = "stop" /\ timeouts # TimeoutLimit
              /\ timeouts' = timeouts + 1 /\ pc' = "check"
              /\ UNCHANGED <<loop, state, closed, aborted, shutdown>>
           \/ /\ UNCHANGED <<loop, state, closed, aborted, shutdown, timeouts>>
              /\ \/ pc = "check" /\ pc' = "recv"
                 \/ pc = "recv" /\ loop = "stop" /\ pc' = "check"
                 \/ pc = "recv" /\ loop = "drain" /\ mailbox = <<>> /\ pc' = "over"
                 \/ pc = "recv" /\ loop = "run" /\ pc' = "shutdown"
                 \/ pc = "handle" /\ cur.kind = "request" /\ pc' = "await"
    BY <1>2 DEF BeginShutdown, NoReceivers, StoppingMailboxClosed, StoppingTimeout,
                CheckReceivers, End, SupervisorSpeaks, HandleAsyncAsk, Serves
  <2>2. timeouts' \in 0..TimeoutLimit
    BY <2>1, BoundsAssumption DEF TypeOK
  <2>3. TypeOK'
    BY <2>1, <2>2 DEF TypeOK, Positions, tasks
  <2>4. LoopInv'
    BY <2>1 DEF LoopInv, TypeOK
  <2>5. CurInv'
    BY <2>1 DEF CurInv
  <2>6. Forward
    BY <2>1 DEF Forward
  <2>7. (loop' = "drain" => loop = "drain" \/ IsClosed) /\ (pc' = "acquire" => need' <= overflow')
    BY <2>1
  <2> QED
    BY <2>1, <2>3, <2>4, <2>5, <2>6, <2>7, ControlInv
<1> QED
  BY <1>1, <1>2

\* The mailbox is left as it is, or a handler aborts the actor.
LeftOrAborted ==
  \/ UNCHANGED <<closed, aborted>>
  \/ closed' = TRUE /\ aborted' = TRUE

\* What every return from process_message keeps, whatever became of the request
\* and of the tasks.
LEMMA ReturnInv ==
  ASSUME IInv, NEW st \in {"Running", "Stopping", "Stopped"}, Return(st),
         pc \in {"handle", "await"}, LeftOrAborted,
         \A r \in Requests : status'[r] # status[r] => cur = Request(r)
  PROVE  /\ LoopInv' /\ CurInv' /\ RequestInv' /\ Forward
         /\ pc' \in Positions /\ state' \in {"Running", "Stopping", "Stopped"}
         /\ cur' \in Message \cup {Nil} /\ pc' # "acquire"
         /\ closed' \in BOOLEAN /\ aborted' \in BOOLEAN
         /\ UNCHANGED <<loop, shutdown, timeouts, need, mailbox>>
<1> USE DEF IInv
<1>1. /\ pc' \in {"shutdown", "permits", "recv", "check"}
      /\ pc' = "shutdown" => loop = "run"
      /\ pc' = "permits" => Supervised
      /\ state' = st /\ cur' = Nil
      /\ UNCHANGED <<loop, shutdown, timeouts, need, mailbox>>
  BY ReturnFacts
<1>2. LoopInv'
  BY <1>1 DEF LoopInv, LeftOrAborted, TypeOK
<1>3. CurInv' /\ Forward
  BY <1>1 DEF CurInv, Forward
<1>4. Once' /\ \A r \in Requests : Pending(r)' <=> Pending(r) /\ cur # Request(r)
  BY <1>1, DoneMessage DEF RequestInv
<1>5. RequestInv'
  BY <1>4 DEF RequestInv
<1> QED
  BY <1>1, <1>2, <1>3, <1>5 DEF Positions, LeftOrAborted, TypeOK

\* The request in hand.
LEMMA InHand ==
  ASSUME IInv, pc \in {"handle", "await"}, cur.kind = "request"
  PROVE  /\ cur.id \in Requests /\ cur = Request(cur.id)
         /\ status[cur.id] = "queued"
         /\ \A r \in Requests : cur = Request(r) <=> r = cur.id
<1>1. cur \in Message
  BY DEF IInv, CurInv, TypeOK
<1>2. cur.id \in Requests /\ cur = Request(cur.id)
  BY <1>1, MessageFacts
<1>3. \A r \in Requests : cur = Request(r) <=> r = cur.id
  BY <1>2, MessageFacts
<1>4. Pending(cur.id)
  BY <1>2 DEF Pending
<1> QED
  BY <1>2, <1>3, <1>4 DEF IInv, RequestInv

\* A handler that spawns nothing.
LEMMA HandlerInv ==
  ASSUME IInv, HandleAsk \/ FinishAsyncAsk \/ HandleAsyncAskBlocking \/ HandleStop \/ HandleAbort
               \/ HandleReport
  PROVE  IInv'
<1> USE DEF IInv
<1>1. /\ pc \in {"handle", "await"}
      /\ UNCHANGED <<overflow, task, tracked, born>>
      /\ LeftOrAborted
      /\ \E st \in {"Running", "Stopping", "Stopped"} : Return(st)
  BY DEF HandleAsk, FinishAsyncAsk, HandleAsyncAskBlocking, HandleStop, HandleAbort,
         HandleReport, Serves, TypeOK, LeftOrAborted, tasks
<1>2. \/ UNCHANGED status
      \/ /\ cur.kind = "request"
         /\ \E s \in {"replied", "dropped", "handled"} :
              /\ status' = [status EXCEPT ![cur.id] = s]
              /\ s = "dropped" => Op(cur.id) = "AsyncAskBlocking"
  BY DEF HandleAsk, FinishAsyncAsk, HandleAsyncAskBlocking, HandleStop, HandleAbort,
         HandleReport, Serves, Becomes, CurInv
<1>3. \A r \in Requests : status'[r] # status[r] =>
        /\ cur = Request(r)
        /\ status'[r] \in {"replied", "dropped", "handled"}
        /\ status'[r] = "dropped" => Op(r) = "AsyncAskBlocking"
  <2>1. CASE UNCHANGED status
    BY <2>1
  <2>2. CASE /\ cur.kind = "request"
             /\ \E s \in {"replied", "dropped", "handled"} :
                  /\ status' = [status EXCEPT ![cur.id] = s]
                  /\ s = "dropped" => Op(cur.id) = "AsyncAskBlocking"
    BY <1>1, <2>2, InHand DEF TypeOK
  <2> QED
    BY <1>2, <2>1, <2>2
<1>4. /\ LoopInv' /\ CurInv' /\ RequestInv' /\ Forward
      /\ pc' \in Positions /\ state' \in {"Running", "Stopping", "Stopped"}
      /\ cur' \in Message \cup {Nil} /\ pc' # "acquire"
      /\ closed' \in BOOLEAN /\ aborted' \in BOOLEAN
      /\ UNCHANGED <<loop, shutdown, timeouts, need, mailbox>>
  BY <1>1, <1>3, ReturnInv
<1>5. status' \in [Requests -> Statuses]
  BY <1>2 DEF TypeOK, Statuses
<1>6. TypeOK'
  BY <1>1, <1>4, <1>5 DEF TypeOK
<1>7. TaskInv' /\ WorkerInv' /\ IsFiniteSet(tracked') /\ Cardinality(Holders') <= MaxAnonymous
  <2>1. UNCHANGED tasks
    BY <1>1 DEF tasks
  <2>2. \A r \in Requests : status'[r] \in {"unsent", "reserved", "queued"} =>
                              status[r] \in {"unsent", "reserved", "queued"}
    BY <1>3
  <2> QED
    BY <1>4, <2>1, <2>2, TasksFrame
<1>8. PermitInv'
  BY <1>4, <1>7 DEF PermitInv
<1>9. AnsweredUnlessStopping'
  BY <1>3, <1>4, AnsweredFrame DEF Asks
<1> QED
  BY <1>4, <1>6, <1>7, <1>8, <1>9

\* A handler that spawns a task, or a worker and a relay.
LEMMA SpawnInv ==
  ASSUME IInv, HandleAskTask \/ HandleAnonymous PROVE IInv'
<1> USE DEF IInv
<1>1. /\ pc = "handle" /\ cur.kind = "request"
      /\ status' = [status EXCEPT ![cur.id] = "handled"]
      /\ Return(state) /\ LeftOrAborted
  BY DEF HandleAskTask, HandleAnonymous, Serves, Becomes, LeftOrAborted
<1>2. PICK r \in Requests : r = cur.id /\ status[r] = "queued" /\ \A s \in Requests : cur = Request(s) <=> s = r
  BY <1>1, InHand
<1>3. \A s \in Requests : status'[s] = IF s = r THEN "handled" ELSE status[s]
  BY <1>1, <1>2 DEF TypeOK
<1>4. /\ LoopInv' /\ CurInv' /\ RequestInv' /\ Forward
      /\ pc' \in Positions /\ state' \in {"Running", "Stopping", "Stopped"}
      /\ cur' \in Message \cup {Nil} /\ pc' # "acquire"
      /\ closed' \in BOOLEAN /\ aborted' \in BOOLEAN
      /\ UNCHANGED <<loop, shutdown, timeouts, need, mailbox>>
  <2>1. state \in {"Running", "Stopping", "Stopped"}
    BY DEF TypeOK
  <2>2. \A s \in Requests : status'[s] # status[s] => cur = Request(s)
    BY <1>2, <1>3
  <2> QED
    BY <1>1, <2>1, <2>2, ReturnInv
\* The tasks the handler spawns.
<1> DEFINE New(t) == t = r \/ (r \in Relays /\ t = Worker(r))
<1>5. /\ r \in Tasks
      /\ \A t \in Tasks : New(t) => task[t] = "none"
      /\ task' \in [Tasks -> TaskStates]
      /\ \A t \in Tasks : task'[t] = IF New(t) THEN "spawned" ELSE task[t]
      /\ born' \in [Tasks -> {"none", "run", "stop", "drain"}]
      /\ \A t \in Tasks : born'[t] = IF New(t) THEN loop ELSE born[t]
      /\ tracked \subseteq tracked' /\ \A t \in tracked' : t \in tracked \/ (t \in Tasks /\ New(t))
      /\ overflow' \in Nat
      /\ IsFiniteSet(tracked') /\ Cardinality(Holders') <= MaxAnonymous
  <2>1. r \in Tasks => task[r] = "none"
    BY <1>2 DEF TaskInv
  <2>2. CASE HandleAskTask
    <3>1. r \in Relays /\ SpawnTasks(<<Worker(r), r>>)
      BY <1>2, <2>2 DEF HandleAskTask, Serves, Relays
    <3>2. PICK w \in Tasks : w = Worker(r) /\ w # r
      BY <3>1, TaskNames
    <3>3. r \in Tasks /\ task[w] = "none" /\ task[r] = "none"
      BY <2>1, <3>1, <3>2, TaskNames DEF TaskInv
    <3>4. \A t \in Tasks : New(t) <=> t \in {w, r}
      BY <3>1, <3>2
    <3>5. SpawnTasks(<<w, r>>)
      BY <3>1, <3>2
    <3> HIDE DEF New
    <3>6. /\ task' \in [Tasks -> TaskStates]
          /\ \A t \in Tasks : task'[t] = IF t \in {w, r} THEN "spawned" ELSE task[t]
          /\ born' \in [Tasks -> {"none", "run", "stop", "drain"}]
          /\ \A t \in Tasks : born'[t] = IF t \in {w, r} THEN loop ELSE born[t]
          /\ tracked \subseteq tracked' /\ tracked' \subseteq tracked \cup {w, r}
          /\ overflow' \in Nat
          /\ IsFiniteSet(tracked') /\ Cardinality(Holders') <= MaxAnonymous
      BY <3>2, <3>3, <3>5, SpawnTwo
    <3> QED
      BY <3>3, <3>4, <3>6
  <2>3. CASE HandleAnonymous
    <3>1. r \in Tasks /\ r \notin Relays /\ SpawnTasks(<<r>>)
      BY <1>2, <2>3 DEF HandleAnonymous, Serves, Relays, Tasks
    <3>2. \A t \in Tasks : New(t) <=> t = r
      BY <3>1
    <3> HIDE DEF New
    <3>3. /\ task' \in [Tasks -> TaskStates]
          /\ \A t \in Tasks : task'[t] = IF t = r THEN "spawned" ELSE task[t]
          /\ born' \in [Tasks -> {"none", "run", "stop", "drain"}]
          /\ \A t \in Tasks : born'[t] = IF t = r THEN loop ELSE born[t]
          /\ tracked \subseteq tracked' /\ tracked' \subseteq tracked \cup {r}
          /\ overflow' \in Nat
          /\ IsFiniteSet(tracked') /\ Cardinality(Holders') <= MaxAnonymous
      BY <2>1, <3>1, SpawnOne
    <3> QED
      BY <2>1, <3>1, <3>2, <3>3
  <2> QED
    BY <2>2, <2>3
<1>6. \A s \in Relays : New(Worker(s)) <=> New(s)
  BY TaskNames
<1>7. \A s \in Requests \ {r} : ~New(s)
  BY TaskNames
<1> HIDE DEF New
<1>8. TypeOK'
  <2>1. status' \in [Requests -> Statuses] /\ tracked' \in SUBSET Tasks
    BY <1>1, <1>5 DEF TypeOK, Statuses
  <2> QED
    BY <1>4, <1>5, <2>1 DEF TypeOK
<1>9. TaskInv'
  <2>1. loop \in {"run", "stop", "drain"}
    BY DEF TypeOK
  <2>2. \A t \in Tasks : task'[t] = "none" <=> born'[t] = "none"
    BY <1>5, <2>1 DEF TaskInv
  <2>3. \A t \in tracked' : task'[t] # "none"
    BY <1>5 DEF TaskInv, TypeOK
  <2>4. \A s \in Relays : task'[s] = "none" <=> task'[Worker(s)] = "none"
    BY <1>5, <1>6, TaskNames DEF TaskInv
  <2>5. \A s \in Requests : status'[s] \in {"unsent", "reserved", "queued"} /\ s \in Tasks
                              => task'[s] = "none"
    BY <1>3, <1>5, <1>7 DEF TaskInv
  <2>6. loop' = "drain" => \A t \in Tasks : born'[t] \in {"run", "stop"} => task'[t] \in Done
    BY <1>4, <1>5 DEF TaskInv
  <2> QED
    BY <2>2, <2>3, <2>4, <2>5, <2>6 DEF TaskInv
<1>10. PermitInv'
  BY <1>4, <1>5 DEF PermitInv
<1>11. WorkerInv'
  BY <1>1, <1>4, <1>5, TaskNames DEF WorkerInv
<1>12. AnsweredUnlessStopping'
  BY <1>3, <1>4, AnsweredFrame DEF Asks
<1> QED
  BY <1>4, <1>8, <1>9, <1>10, <1>11, <1>12

-----------------------------------------------------------------------------
(* Tasks.                                                                  *)

\* What a step of a task may do to the others, to the requests and to the
\* mailbox, so that IInv is kept.
LEMMA TaskFrame ==
  ASSUME IInv, UNCHANGED <<actor, tracked, born>>,
         task' \in [Tasks -> TaskStates],
         status' \in [Requests -> Statuses],
         \A t \in Tasks : task'[t] = "none" <=> task[t] = "none",
         \A t \in Tasks : HoldsPermit(t)' => HoldsPermit(t),
         \A t \in Tasks : task[t] \in Done => task'[t] \in Done,
         \A r \in Relays :
           /\ task'[Worker(r)] = "cancelled" =>
                task[Worker(r)] = "cancelled" \/ shutdown \/ NotifierDropped
           /\ task'[Worker(r)] = "panicked" => task[Worker(r)] = "panicked" \/ Script[r].fails,
         \A r \in Requests : status'[r] # status[r] =>
           /\ r \in Relays /\ task[r] # "none"
           /\ status'[r] \in {"replied", "dropped"}
           /\ status'[r] = "dropped" =>
                \/ shutdown \/ NotifierDropped
                \/ task[Worker(r)] \in {"cancelled", "panicked"},
         \/ UNCHANGED mailbox
         \/ ~closed /\ \E m \in Message : m.kind # "request" /\ mailbox' = Append(mailbox, m)
  PROVE  IInv'
<1> USE DEF IInv
<1>1. UNCHANGED <<loop, pc, state, closed, aborted, cur, shutdown, timeouts, overflow, need, tracked, born>>
  BY DEF actor
<1>2. shutdown \/ NotifierDropped => loop # "run" \/ pc = "crashed"
  BY DEF LoopInv, NotifierDropped
<1>3. TypeOK'
  <2>1. mailbox' \in Seq(Message)
    <3>1. mailbox \in Seq(Message)
      BY DEF TypeOK
    <3>2. \A m \in Message : Append(mailbox, m) \in Seq(Message)
      BY <3>1, AppendFacts
    <3> QED
      BY <3>1, <3>2
  <2> QED
    BY <1>1, <2>1 DEF TypeOK
<1>4. LoopInv'
  BY <1>1 DEF LoopInv
<1>5. CurInv'
  BY <1>1 DEF CurInv
<1>6. Once' /\ \A r \in Requests : Pending(r)' <=> Pending(r)
  <2>1. CASE UNCHANGED mailbox
    BY <1>1, <2>1, SameMessages DEF RequestInv
  <2>2. ASSUME NEW m \in Message, m.kind # "request", mailbox' = Append(mailbox, m)
        PROVE  Once' /\ \A r \in Requests : Pending(r)' <=> Pending(r)
    <3>1. Once' /\ \A r \in Requests : Pending(r)' <=> Pending(r) \/ m = Request(r)
      BY <1>1, <2>2, PutMessage DEF RequestInv
    <3>2. \A r \in Requests : m # Request(r)
      BY <2>2, MessageFacts
    <3> QED
      BY <3>1, <3>2
  <2> QED
    BY <2>1, <2>2
<1>7. \A r \in Requests : status'[r] # status[r] => status[r] \notin {"unsent", "reserved", "queued"}
  BY TaskNames DEF TaskInv
<1>8. RequestInv'
  BY <1>6, <1>7 DEF RequestInv
<1>9. TaskInv'
  <2>1. \A t \in Tasks : task'[t] = "none" <=> born'[t] = "none"
    BY <1>1 DEF TaskInv
  <2>2. \A t \in tracked' : task'[t] # "none"
    BY <1>1 DEF TaskInv, TypeOK
  <2>3. \A r \in Relays : task'[r] = "none" <=> task'[Worker(r)] = "none"
    BY TaskNames DEF TaskInv
  <2>4. \A r \in Requests : status'[r] \in {"unsent", "reserved", "queued"} /\ r \in Tasks
                              => task'[r] = "none"
    BY <1>7 DEF TaskInv
  <2>5. loop' = "drain" => \A t \in Tasks : born'[t] \in {"run", "stop"} => task'[t] \in Done
    BY <1>1 DEF TaskInv
  <2> QED
    BY <2>1, <2>2, <2>3, <2>4, <2>5 DEF TaskInv
<1>10. PermitInv'
  <2>1. Holders' \subseteq Holders
    BY DEF Holders
  <2>2. IsFiniteSet(Holders) /\ Cardinality(Holders) \in Nat
    BY PermitFacts
  <2>3. Cardinality(Holders') \in Nat /\ Cardinality(Holders') <= Cardinality(Holders)
    BY <2>1, <2>2, FS_Subset, FS_CardinalityType
  <2>4. Cardinality(Holders') <= MaxAnonymous
    BY <2>2, <2>3, BoundsAssumption DEF PermitInv
  <2> QED
    BY <1>1, <2>4 DEF PermitInv
<1>11. WorkerInv'
  BY <1>1, <1>2 DEF WorkerInv
<1>12. AnsweredUnlessStopping'
  <2>1. Forward
    BY <1>1 DEF Forward
  <2>2. \A r \in Asks : status'[r] = "dropped" =>
          \/ status[r] = "dropped"
          \/ loop' # "run" \/ pc' = "crashed"
          \/ r \in Relays /\ Script[r].fails
    BY <1>1, <1>2 DEF WorkerInv, Asks
  <2> QED
    BY <2>1, <2>2, AnsweredFrame
<1> QED
  BY <1>3, <1>4, <1>5, <1>8, <1>9, <1>10, <1>11, <1>12

\* The notifier has spoken, or is gone, and the future of t is dropped.
LEMMA CancelInv ==
  ASSUME IInv, NEW t \in Tasks, task[t] \in {"spawned", "working"}, Cancel(t),
         shutdown \/ NotifierDropped, UNCHANGED <<actor, mailbox, tracked, born>>
  PROVE  IInv'
<1>1. TypeOK /\ TaskInv
  BY DEF IInv
<1>2. task \in [Tasks -> TaskStates] /\ status \in [Requests -> Statuses]
  BY <1>1 DEF TypeOK
<1>3. CASE t \in Relays
  <2>1. PICK w \in Tasks : w = Worker(t) /\ w # t /\ w \in Workers /\ t \notin Workers
    BY <1>3, TaskNames
  <2>2. /\ task' = [task EXCEPT ![t] = "cancelled", ![w] = Abandoned(w)]
        /\ status' = [status EXCEPT ![t] = "dropped"]
    BY <1>3, <2>1 DEF Cancel
  <2>3. task[w] # "none"
    BY <1>1, <1>3, <2>1 DEF TaskInv
  <2>4. /\ Abandoned(w) \in {"detached", "over"}
        /\ Abandoned(w) = "detached" => task[w] \in {"spawned", "working"}
    BY DEF Abandoned
  <2>5. /\ task'[t] = "cancelled" /\ task'[w] = Abandoned(w)
        /\ \A u \in Tasks \ {t, w} : task'[u] = task[u]
    BY <1>2, <2>1, <2>2
  <2>6. task' \in [Tasks -> TaskStates]
    BY <1>2, <2>2, <2>4 DEF TaskStates
  <2>7. status' \in [Requests -> Statuses]
    BY <1>2, <2>2 DEF Statuses
  <2>8. \A u \in Tasks : task'[u] = "none" <=> task[u] = "none"
    BY <2>3, <2>4, <2>5
  <2>9. \A u \in Tasks : HoldsPermit(u)' => HoldsPermit(u)
    BY <2>1, <2>4, <2>5 DEF HoldsPermit
  <2>10. \A u \in Tasks : task[u] \in Done => task'[u] \in Done
    BY <2>4, <2>5 DEF Done
  <2>11. \A r \in Relays : task'[Worker(r)] \in {"cancelled", "panicked"} =>
                             task'[Worker(r)] = task[Worker(r)]
    BY <2>1, <2>4, <2>5, TaskNames
  <2>12. \A r \in Requests : status'[r] # status[r] => r = t /\ status'[r] = "dropped"
    BY <1>2, <2>2
  <2> QED
    BY <1>3, <2>6, <2>7, <2>8, <2>9, <2>10, <2>11, <2>12, TaskFrame
<1>4. CASE t \notin Relays
  <2>1. task' = [task EXCEPT ![t] = "cancelled"] /\ UNCHANGED status
    BY <1>4 DEF Cancel
  <2>2. task'[t] = "cancelled" /\ \A u \in Tasks \ {t} : task'[u] = task[u]
    BY <1>2, <2>1
  <2>3. task' \in [Tasks -> TaskStates]
    BY <1>2, <2>1 DEF TaskStates
  <2>4. \A u \in Tasks : task'[u] = "none" <=> task[u] = "none"
    BY <2>2
  <2>5. \A u \in Tasks : HoldsPermit(u)' => HoldsPermit(u)
    BY <2>2 DEF HoldsPermit
  <2>6. \A u \in Tasks : task[u] \in Done => task'[u] \in Done
    BY <2>2 DEF Done
  <2>7. \A r \in Relays : task'[Worker(r)] = "panicked" => task[Worker(r)] = "panicked"
    BY <2>2, TaskNames
  <2> QED
    BY <1>2, <2>1, <2>3, <2>4, <2>5, <2>6, <2>7, TaskFrame
<1> QED
  BY <1>3, <1>4

\* A relay is done with its worker.
LEMMA RelayInv ==
  ASSUME IInv, NEW t \in Tasks, RelayReply(t) \/ RelayCancel(t) PROVE IInv'
<1>1. TypeOK /\ TaskInv
  BY DEF IInv
<1>2. task \in [Tasks -> TaskStates] /\ status \in [Requests -> Statuses]
  BY <1>1 DEF TypeOK
<1>3. t \in Relays /\ task[t] = "working"
  BY DEF RelayReply, RelayCancel
<1>4. PICK w \in Tasks : w = Worker(t) /\ w # t /\ w \in Workers /\ t \notin Workers
  BY <1>3, TaskNames
<1>5. /\ task' = [task EXCEPT ![t] = "finished", ![w] = "over"]
      /\ UNCHANGED <<actor, tracked, born>>
      /\ \/ status' = [status EXCEPT ![t] = "replied"]
         \/ status' = [status EXCEPT ![t] = "dropped"] /\ task[w] \in {"cancelled", "panicked"}
  BY <1>4 DEF RelayReply, RelayCancel
<1>6. task[w] # "none"
  BY <1>1, <1>3, <1>4 DEF TaskInv
<1>7. /\ task'[t] = "finished" /\ task'[w] = "over"
      /\ \A u \in Tasks \ {t, w} : task'[u] = task[u]
  BY <1>2, <1>4, <1>5
<1>8. task' \in [Tasks -> TaskStates]
  BY <1>2, <1>5 DEF TaskStates
<1>9. status' \in [Requests -> Statuses]
  BY <1>2, <1>5 DEF Statuses
<1>10. \A u \in Tasks : task'[u] = "none" <=> task[u] = "none"
  BY <1>3, <1>6, <1>7
<1>11. \A u \in Tasks : HoldsPermit(u)' => HoldsPermit(u)
  BY <1>3, <1>4, <1>5, <1>7 DEF HoldsPermit
<1>12. \A u \in Tasks : task[u] \in Done => task'[u] \in Done
  BY <1>3, <1>7 DEF Done
<1>13. \A r \in Relays : task'[Worker(r)] \in {"cancelled", "panicked"} =>
                           task'[Worker(r)] = task[Worker(r)]
  BY <1>4, <1>7, TaskNames
<1>14. \A r \in Requests : status'[r] # status[r] =>
         /\ r = t
         /\ status'[r] \in {"replied", "dropped"}
         /\ status'[r] = "dropped" => task[w] \in {"cancelled", "panicked"}
  BY <1>2, <1>5
<1>15. \/ UNCHANGED mailbox
       \/ ~closed /\ \E m \in Message : m.kind # "request" /\ mailbox' = Append(mailbox, m)
  BY MessageFacts DEF RelayReply, RelayCancel, SendFrom
<1>16. \A r \in Requests : status'[r] # status[r] =>
         /\ r \in Relays /\ task[r] # "none"
         /\ status'[r] \in {"replied", "dropped"}
         /\ status'[r] = "dropped" => task[Worker(r)] \in {"cancelled", "panicked"}
  BY <1>3, <1>4, <1>14
<1> QED
  BY <1>5, <1>8, <1>9, <1>10, <1>11, <1>12, <1>13, <1>15, <1>16, TaskFrame

\* One task moves on by itself: from the state it is in to x.
LEMMA MoveInv ==
  ASSUME IInv, NEW t \in Tasks, NEW x \in TaskStates \ {"none", "cancelled"},
         task[t] # "none", task' = [task EXCEPT ![t] = x],
         UNCHANGED <<actor, tracked, born, status>>,
         HoldsPermit(t)' => HoldsPermit(t),
         task[t] \in Done => x \in Done,
         x = "panicked" => \A r \in Relays : t = Worker(r) => Script[r].fails,
         \/ UNCHANGED mailbox
         \/ ~closed /\ \E m \in Message : m.kind # "request" /\ mailbox' = Append(mailbox, m)
  PROVE  IInv'
<1>1. task \in [Tasks -> TaskStates] /\ status \in [Requests -> Statuses]
  BY DEF IInv, TypeOK
<1>2. task'[t] = x /\ \A u \in Tasks \ {t} : task'[u] = task[u]
  BY <1>1
<1>3. task' \in [Tasks -> TaskStates] /\ status' \in [Requests -> Statuses]
  BY <1>1
<1>4. \A u \in Tasks : task'[u] = "none" <=> task[u] = "none"
  BY <1>2
<1>5. \A u \in Tasks : HoldsPermit(u)' => HoldsPermit(u)
  <2>1. \A u \in Tasks \ {t} : HoldsPermit(u)' => HoldsPermit(u)
    BY <1>2 DEF HoldsPermit
  <2> QED
    BY <2>1
<1>6. \A u \in Tasks : task[u] \in Done => task'[u] \in Done
  BY <1>2
<1>7. \A r \in Relays :
        /\ task'[Worker(r)] = "cancelled" => task[Worker(r)] = "cancelled"
        /\ task'[Worker(r)] = "panicked" => task[Worker(r)] = "panicked" \/ Script[r].fails
  BY <1>2, TaskNames
<1>8. \A r \in Requests : status'[r] = status[r]
  OBVIOUS
<1> QED
  BY <1>3, <1>4, <1>5, <1>6, <1>7, <1>8, TaskFrame

\* Every step of a task keeps the invariant.
LEMMA TaskStepInv ==
  ASSUME IInv, NEW t \in Tasks, TaskStep(t) \/ Halt(t) PROVE IInv'
<1>1. task[t] \in TaskStates /\ task \in [Tasks -> TaskStates]
  BY DEF IInv, TypeOK
<1>2. CASE StartTask(t)
  <2>1. CASE shutdown
    BY <1>2, <2>1, CancelInv DEF StartTask
  <2>2. CASE ~shutdown
    <3>1. /\ task[t] = "spawned" /\ task' = [task EXCEPT ![t] = "working"]
          /\ UNCHANGED <<actor, mailbox, tracked, born, status>>
      BY <1>2, <2>2 DEF StartTask
    <3>2. HoldsPermit(t)' => HoldsPermit(t)
      BY <1>1, <3>1 DEF HoldsPermit
    <3> QED
      BY <3>1, <3>2, MoveInv DEF TaskStates, Done
  <2> QED
    BY <2>1, <2>2
<1>3. CASE CancelTask(t)
  BY <1>3, CancelInv DEF CancelTask
<1>4. CASE FinishTask(t)
  <2>1. PICK x \in {"finished", "panicked"} :
          /\ task' = [task EXCEPT ![t] = x]
          /\ x = "panicked" => Script[Client(t)].fails
    BY <1>4 DEF FinishTask
  <2>2. task[t] = "working" /\ UNCHANGED <<actor, mailbox, tracked, born, status>>
    BY <1>4 DEF FinishTask
  <2>3. HoldsPermit(t)' => HoldsPermit(t)
    BY <1>1, <2>1, <2>2 DEF HoldsPermit
  <2>4. x = "panicked" => \A r \in Relays : t = Worker(r) => Script[r].fails
    BY <2>1, ClientOfWorker
  <2> QED
    BY <2>1, <2>2, <2>3, <2>4, MoveInv DEF TaskStates, Done
<1>5. CASE RelayReply(t) \/ RelayCancel(t)
  BY <1>5, RelayInv
<1>6. CASE ReportAnonymous(t)
  <2>1. PICK x \in {"over", "told"} :
          /\ task' = [task EXCEPT ![t] = x]
          /\ x = "over" <=> task[t] = "panicked"
    BY <1>6 DEF ReportAnonymous
  <2>2. /\ task[t] \in {"finished", "cancelled", "panicked"} /\ t \in Requests
        /\ UNCHANGED <<actor, tracked, born, status>>
    BY <1>6 DEF ReportAnonymous
  <2>3. t \notin Workers
    BY <2>2, TaskNames
  <2>4. HoldsPermit(t)' => HoldsPermit(t)
    BY <1>1, <2>1, <2>2, <2>3 DEF HoldsPermit
  <2>5. \/ UNCHANGED mailbox
        \/ ~closed /\ \E m \in Message : m.kind # "request" /\ mailbox' = Append(mailbox, m)
    BY <1>6, MessageFacts DEF ReportAnonymous, SendFrom
  <2> QED
    BY <2>1, <2>2, <2>4, <2>5, MoveInv DEF TaskStates, Done
<1>7. CASE DropReceiver(t) \/ EndDetached(t) \/ ReportTask(t)
  <2>1. /\ task[t] # "none" /\ task' = [task EXCEPT ![t] = "over"]
        /\ UNCHANGED <<actor, tracked, born, status>>
    BY <1>7 DEF DropReceiver, EndDetached, ReportTask
  <2>2. HoldsPermit(t)' => HoldsPermit(t)
    BY <1>1, <2>1 DEF HoldsPermit
  <2>3. \/ UNCHANGED mailbox
        \/ ~closed /\ \E m \in Message : m.kind # "request" /\ mailbox' = Append(mailbox, m)
    BY <1>7, MessageFacts DEF DropReceiver, EndDetached, ReportTask, SendFrom
  <2> QED
    BY <2>1, <2>2, <2>3, MoveInv DEF TaskStates, Done
<1>8. CASE ForgetResult(t)
  <2>1. /\ task[t] \in {"finished", "cancelled", "panicked"} /\ t \in Requests
        /\ task' = [task EXCEPT ![t] = "reporting"]
        /\ UNCHANGED <<actor, mailbox, tracked, born, status>>
    BY <1>8 DEF ForgetResult
  <2>2. t \notin Workers
    BY <2>1, TaskNames
  <2>3. HoldsPermit(t)' => HoldsPermit(t)
    BY <1>1, <2>1, <2>2 DEF HoldsPermit
  <2> QED
    BY <2>1, <2>3, MoveInv DEF TaskStates, Done
<1>9. CASE Halt(t)
  <2>1. /\ task[t] \notin {"none", "detached", "over"} /\ t \in Requests
        /\ UNCHANGED <<actor, mailbox, tracked, born, status>>
    BY <1>9 DEF Halt
  <2>2. PICK x \in {"detached", "over"} :
          /\ task' = [task EXCEPT ![t] = x]
          /\ x = "detached" => task[t] \in {"spawned", "working"}
    BY <1>9 DEF Halt, Abandoned
  <2>3. t \notin Workers
    BY <2>1, TaskNames
  <2>4. HoldsPermit(t)' => HoldsPermit(t)
    BY <1>1, <2>1, <2>2, <2>3 DEF HoldsPermit
  <2> QED
    BY <2>1, <2>2, <2>4, MoveInv DEF TaskStates, Done
<1> QED
  BY <1>2, <1>3, <1>4, <1>5, <1>6, <1>7, <1>8, <1>9 DEF TaskStep

-----------------------------------------------------------------------------
(* The theorems.                                                           *)

\* IInv holds before anything is sent.
LEMMA InitInv == Init => IInv
<1> SUFFICES ASSUME Init PROVE IInv
  OBVIOUS
<1> USE DEF Init
<1>1. TypeOK
  <2>1. pc \in Positions
    BY DEF Positions
  <2>2. status \in [Requests -> Statuses] /\ task \in [Tasks -> TaskStates]
    BY DEF Statuses, TaskStates
  <2>3. mailbox \in Seq(Message)
    OBVIOUS
  <2>4. timeouts \in 0..TimeoutLimit /\ need \in 0..MaxAnonymous /\ overflow \in Nat
    BY BoundsAssumption
  <2>5. born \in [Tasks -> {"none", "run", "stop", "drain"}] /\ tracked \in SUBSET Tasks
    OBVIOUS
  <2> QED
    BY <2>1, <2>2, <2>3, <2>4, <2>5 DEF TypeOK
<1>2. LoopInv /\ CurInv
  BY BoundsAssumption DEF LoopInv, CurInv
<1>3. RequestInv
  <2>1. \A r \in Requests : ~Pending(r)
    BY MessageFacts DEF Pending
  <2> QED
    BY <2>1 DEF RequestInv, Once
<1>4. TaskInv /\ WorkerInv
  BY TaskNames DEF TaskInv, WorkerInv
<1>5. PermitInv
  <2>1. Holders = {}
    BY DEF Holders, HoldsPermit
  <2>2. IsFiniteSet({}) /\ Cardinality({}) = 0
    BY FS_EmptySet
  <2> QED
    BY <2>1, <2>2, BoundsAssumption DEF PermitInv
<1>6. AnsweredUnlessStopping
  BY DEF AnsweredUnlessStopping, Asks
<1> QED
  BY <1>1, <1>2, <1>3, <1>4, <1>5, <1>6 DEF IInv

\* IInv is inductive.
LEMMA NextInv == IInv /\ [Next]_vars => IInv'
<1> SUFFICES ASSUME IInv, [Next]_vars PROVE IInv'
  OBVIOUS
<1>1. CASE UNCHANGED vars
  <2>1. UNCHANGED <<loop, pc, state, closed, aborted, cur, shutdown, timeouts, overflow, need, mailbox, task,
                    tracked, born, status>>
    BY <1>1 DEF vars, actor, tasks
  <2>2. TypeOK' /\ LoopInv' /\ CurInv' /\ Forward
    BY <2>1 DEF IInv, TypeOK, LoopInv, CurInv, Forward
  <2>3. pc' = "acquire" => need' <= overflow'
    BY <2>1 DEF IInv, PermitInv
  <2> QED
    BY <2>1, <2>2, <2>3, ControlInv DEF tasks
<1>2. CASE ActorStep
  <2>1. CASE HandlePanic
    BY <2>1, CrashInv DEF HandlePanic, Serves
  <2> QED
    BY <1>2, <2>1, ReceiveInv, CheckAnonymousInv, StoppingInv, HandlerInv, SpawnInv
       DEF ActorStep, ProcessMessage
<1> QED
  BY <1>1, <1>2, StoppingInv, TaskStepInv, CallerInv DEF Next

\* The inductive invariant holds.
THEOREM InvariantHolds == Spec => []IInv
BY InitInv, NextInv, PTL DEF Spec

\* Every reachable state is well typed: the subtraction of
\* check_anonymous_actors never underflows, the permits acquire_many waits for
\* are never more than there are, and the timeout counter keeps its limit.
THEOREM TypeCorrect == Spec => []TypeOK
<1>1. IInv => TypeOK
  BY DEF IInv
<1> QED
  BY <1>1, InvariantHolds, PTL

\* When the actor has ended, no future of a task spawned before stop() began
\* still runs, the halted ones and the workers a relay left behind included.
THEOREM TasksEndFirstHolds == Spec => []TasksEndFirst
<1>1. IInv => TasksEndFirst
  BY DEF IInv, LoopInv, TaskInv, TasksEndFirst, Done
<1> QED
  BY <1>1, InvariantHolds, PTL

\* A task spawned before stop() began finds the mailbox open when its future is
\* done, unless the actor panicked or was aborted, and what it put there is read
\* before the actor ends.
THEOREM ResultsReachActorHolds == Spec => []ResultsReachActor
<1>1. IInv => ResultsReachActor
  <2> SUFFICES ASSUME IInv, NEW t \in Tasks
               PROVE  /\ task[t] = "finished" /\ born[t] # "drain"
                           => ~closed \/ aborted \/ pc = "crashed"
                      /\ pc = "over" => Result(t) \notin {mailbox[i] : i \in DOMAIN mailbox}
    BY DEF ResultsReachActor
  <2>1. ASSUME task[t] = "finished", born[t] # "drain", closed, ~aborted, pc # "crashed"
        PROVE  FALSE
    <3>1. loop = "drain"
      BY <2>1 DEF IInv, LoopInv
    <3>2. born[t] \in {"run", "stop"}
      BY <2>1 DEF IInv, TypeOK, TaskInv
    <3> QED
      BY <2>1, <3>1, <3>2 DEF IInv, TaskInv, Done
  <2>2. ASSUME pc = "over" PROVE Result(t) \notin {mailbox[i] : i \in DOMAIN mailbox}
    <3>1. mailbox = <<>>
      BY <2>2 DEF IInv, LoopInv
    <3> QED
      BY <3>1
  <2>3. task[t] = "finished" /\ born[t] # "drain" => ~closed \/ aborted \/ pc = "crashed"
    BY <2>1
  <2> QED
    BY <2>2, <2>3
<1> QED
  BY <1>1, InvariantHolds, PTL

\* A question accepted by an actor that neither stops nor panics is answered,
\* unless its own future panicked or was put on the Blocking scheduler.
THEOREM AnsweredUnlessStoppingHolds == Spec => []AnsweredUnlessStopping
<1>1. IInv => AnsweredUnlessStopping
  BY DEF IInv
<1> QED
  BY <1>1, InvariantHolds, PTL
=============================================================================
