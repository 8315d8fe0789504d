------------------------- MODULE DeliveryProofs -------------------------
(***************************************************************************)
(* Proofs about what Supervision does with its messages, for every tree of *)
(* actors, every script, every mailbox size and every timeout limit: what  *)
(* is in a mailbox is handled before the actor ends, no death is lost on   *)
(* the way to a supervisor that stops in order, and no caller waiting for  *)
(* an actor is forgotten.                                                  *)
(***************************************************************************)
EXTENDS SupervisionProofs

\* What a has yet to deal with: its mailbox and the message it works on.
Pending(a) ==
  {m \in Message : cur[a] = m \/ \E i \in 1..Len(mailbox[a]) : mailbox[a][i] = m}

\* The positions after stop() has emptied the mailbox, or a panic dropped it.
Past == {"exited", "reporting", "reported", "panicked", "gone"}

\* No message is twice with a.
Once(a) ==
  /\ \A i, j \in 1..Len(mailbox[a]) : mailbox[a][i] = mailbox[a][j] => i = j
  /\ \A i \in 1..Len(mailbox[a]) : mailbox[a][i] # cur[a]

\* A message is in one place only, and none is left behind: a mailbox is
\* closed before stop() empties it, so it stays empty.
PendingInv ==
  \A a \in Actors :
    /\ cur[a] # Nil <=> pc[a] \in Handling
    /\ Once(a)
    /\ pc[a] \in Past \cup {"draining", "drainHandling"} => closed[a]
    /\ pc[a] \in Past => mailbox[a] = <<>>

\* A request counts as queued exactly as long as its actor has yet to deal with
\* it, unless its caller gave up.
RequestInv ==
  \A r \in Requests :
    /\ status[r] = "queued" => r \in Pending(To(r))
    /\ r \in Pending(To(r)) => status[r] \in {"queued", "abandoned"}

\* So does the report of a death, unless the supervisor panicked with it.
ReportInv ==
  \A c \in Actors : Parent[c] \in Actors =>
    /\ fate[c] = "reported" => c \in Pending(Parent[c]) \/ Parent[c] \in crashed
    /\ c \in Pending(Parent[c]) => fate[c] = "reported"

\* The news of a death leaves the supervising task once, as it ends.
FateInv ==
  \A c \in Actors :
    /\ fate[c] # "none" => pc[c] \in {"reported", "gone"} /\ Parent[c] # Nil
    /\ pc[c] = "reported" => fate[c] \in {"reported", "handled"}
    /\ pc[c] = "gone" /\ Parent[c] # Nil => fate[c] # "none"
    /\ fate[c] = "lost" => c \in crashed

\* An actor given to a caller stopped, and was not reported.
ResolvedInv ==
  \A w \in Waits : status[w] = "resolved" =>
    /\ pc[To(w)] = "gone"
    /\ To(w) \notin crashed
    /\ Parent[To(w)] = Nil \/ fate[To(w)] = "awaited"

DeliveryInv ==
  /\ PendingInv
  /\ RequestInv
  /\ ReportInv
  /\ FateInv
  /\ ResolvedInv
  /\ CallersNotForgotten


-----------------------------------------------------------------------------
(* What each kind of step does to the messages an actor has to deal with.  *)

\* Append adds one element, at the end.
LEMMA AppendFacts ==
  ASSUME NEW S, NEW q \in Seq(S), NEW e \in S
  PROVE  /\ Len(Append(q, e)) = Len(q) + 1
         /\ Append(q, e)[Len(q) + 1] = e
         /\ \A i \in 1..Len(q) : Append(q, e)[i] = q[i]
         /\ Len(q) \in Nat
OBVIOUS

\* Tail shifts what is left of a non-empty sequence by one.
LEMMA TailFacts ==
  ASSUME NEW S, NEW q \in Seq(S), q # <<>>
  PROVE  /\ Len(q) \in Nat \ {0}
         /\ Len(Tail(q)) = Len(q) - 1
         /\ \A i \in 1..Len(q) - 1 : Tail(q)[i] = q[i + 1]
         /\ Head(q) = q[1]
OBVIOUS

\* A step that touches no mailbox leaves every actor the same messages.
LEMMA SameMessages ==
  ASSUME UNCHANGED <<cur, mailbox>>, NEW b
  PROVE  Pending(b)' = Pending(b) /\ (Once(b) => Once(b)')
BY DEF Pending, Once

\* Once in the next state, from what the mailbox and cur are there.
LEMMA OnceNext ==
  ASSUME NEW a, NEW q, NEW m, mailbox'[a] = q, cur'[a] = m,
         \A i, j \in 1..Len(q) : q[i] = q[j] => i = j,
         \A i \in 1..Len(q) : q[i] # m
  PROVE  Once(a)'
BY DEF Once

\* Taking a message moves it from the mailbox to process_message.
LEMMA TakeMessage ==
  ASSUME TypeOK, NEW a \in Actors, mailbox[a] # <<>>, cur[a] = Nil,
         cur' = [cur EXCEPT ![a] = Head(mailbox[a])],
         mailbox' = [mailbox EXCEPT ![a] = Tail(mailbox[a])],
         NEW b \in Actors
  PROVE  Pending(b)' = Pending(b) /\ (Once(b) => Once(b)')
<1>1. CASE b # a
  BY <1>1 DEF TypeOK, Pending, Once
<1>2. CASE b = a
  <2> DEFINE q == mailbox[a]
             t == Tail(q)
  <2>1. mailbox'[a] = t /\ cur'[a] = q[1]
    BY TailFacts DEF TypeOK
  <2>2. /\ q \in Seq(Message) /\ Len(q) \in Nat \ {0} /\ Len(t) = Len(q) - 1
        /\ \A i \in 1..Len(q) - 1 : t[i] = q[i + 1]
    BY TailFacts DEF TypeOK
  <2> HIDE DEF q, t
  <2>3. \A i \in 1..Len(q) : i = 1 \/ (i - 1 \in 1..Len(t) /\ t[i - 1] = q[i])
    BY <2>2
  <2>4. 1 \in 1..Len(q) /\ \A i \in 1..Len(t) : i + 1 \in 1..Len(q) /\ t[i] = q[i + 1]
    BY <2>2
  <2>5. \A m : (\E i \in 1..Len(q) : q[i] = m)
                 <=> (q[1] = m \/ \E i \in 1..Len(t) : t[i] = m)
    BY <2>3, <2>4
  <2>6. \A m \in Message : m # Nil
    BY ActorsAssumption
  <2>7. Pending(a)' = Pending(a)
    <3>1. Pending(a) = {m \in Message : \E i \in 1..Len(q) : q[i] = m}
      BY <2>6 DEF Pending, q
    <3>2. Pending(a)' = {m \in Message : q[1] = m \/ \E i \in 1..Len(t) : t[i] = m}
      BY <2>1 DEF Pending
    <3> QED
      BY <2>5, <3>1, <3>2
  <2>8. Once(a) => Once(a)'
    <3> SUFFICES ASSUME \A i, j \in 1..Len(q) : q[i] = q[j] => i = j PROVE Once(a)'
      BY DEF Once, q
    <3>1. \A i, j \in 1..Len(t) : t[i] = t[j] => i = j
      BY <2>2, <2>4
    <3>2. \A i \in 1..Len(t) : t[i] # q[1]
      BY <2>2, <2>4
    <3> QED
      BY <2>1, <3>1, <3>2, OnceNext
  <2> QED
    BY <1>2, <2>7, <2>8
<1> QED
  BY <1>1, <1>2

\* A message put into p's mailbox is new there, and the only new one.
LEMMA PutMessage ==
  ASSUME TypeOK, NEW p \in Actors, NEW m \in Message, m \notin Pending(p),
         mailbox' = [mailbox EXCEPT ![p] = Append(mailbox[p], m)], UNCHANGED cur,
         NEW b \in Actors
  PROVE  /\ Pending(b)' = IF b = p THEN Pending(b) \cup {m} ELSE Pending(b)
         /\ Once(b) => Once(b)'
<1>1. CASE b # p
  BY <1>1 DEF TypeOK, Pending, Once
<1>2. CASE b = p
  <2> DEFINE q == mailbox[p]
             t == Append(q, m)
  <2>1. mailbox'[p] = t /\ cur'[p] = cur[p]
    BY DEF TypeOK
  <2>2. /\ Len(q) \in Nat /\ Len(t) = Len(q) + 1 /\ t[Len(q) + 1] = m
        /\ \A i \in 1..Len(q) : t[i] = q[i]
    BY AppendFacts DEF TypeOK
  <2>3. cur[p] # m /\ \A i \in 1..Len(q) : q[i] # m
    BY DEF Pending
  <2> HIDE DEF q, t
  <2>4. \A i \in 1..Len(t) : (i \in 1..Len(q) /\ t[i] = q[i]) \/ (i = Len(q) + 1 /\ t[i] = m)
    BY <2>2
  <2>5. Len(q) + 1 \in 1..Len(t) /\ \A i \in 1..Len(q) : i \in 1..Len(t) /\ t[i] = q[i]
    BY <2>2
  <2>6. \A x : (\E i \in 1..Len(t) : t[i] = x)
                 <=> (x = m \/ \E i \in 1..Len(q) : q[i] = x)
    BY <2>2, <2>4, <2>5
  <2>7. Pending(p)' = Pending(p) \cup {m}
    <3>1. Pending(p) = {x \in Message : cur[p] = x \/ \E i \in 1..Len(q) : q[i] = x}
      BY DEF Pending, q
    <3>2. Pending(p)' = {x \in Message : cur[p] = x \/ \E i \in 1..Len(t) : t[i] = x}
      BY <2>1 DEF Pending
    <3> QED
      BY <2>6, <3>1, <3>2
  <2>8. Once(p) => Once(p)'
    <3> SUFFICES ASSUME \A i, j \in 1..Len(q) : q[i] = q[j] => i = j,
                        \A i \in 1..Len(q) : q[i] # cur[p]
                 PROVE  Once(p)'
      BY DEF Once, q
    <3>1. \A i, j \in 1..Len(t) : t[i] = t[j] => i = j
      BY <2>3, <2>4
    <3>2. \A i \in 1..Len(t) : t[i] # cur[p]
      BY <2>3, <2>4
    <3> QED
      BY <2>1, <3>1, <3>2 DEF Once
  <2> QED
    BY <1>2, <2>7, <2>8
<1> QED
  BY <1>1, <1>2

\* A message process_message is done with is gone for good.
LEMMA DoneMessage ==
  ASSUME TypeOK, NEW a \in Actors, Once(a),
         cur' = [cur EXCEPT ![a] = Nil], UNCHANGED mailbox,
         NEW b \in Actors
  PROVE  /\ Pending(b)' = IF b = a THEN Pending(b) \ {cur[a]} ELSE Pending(b)
         /\ Once(b) => Once(b)'
<1>1. CASE b # a
  BY <1>1 DEF TypeOK, Pending, Once
<1>2. CASE b = a
  <2>1. cur'[a] = Nil /\ mailbox'[a] = mailbox[a]
    BY DEF TypeOK
  <2>2. \A m \in Message : m # Nil
    BY ActorsAssumption
  <2>3. \A i \in 1..Len(mailbox[a]) : mailbox[a][i] # cur[a]
    BY DEF Once
  <2>4. Pending(a)' = {m \in Message : \E i \in 1..Len(mailbox[a]) : mailbox[a][i] = m}
    BY <2>1, <2>2 DEF Pending
  <2>5. Pending(a)' = Pending(a) \ {cur[a]}
    BY <2>3, <2>4 DEF Pending
  <2>6. \A i \in 1..Len(mailbox[a]) : mailbox[a][i] # Nil
    BY <2>2 DEF TypeOK
  <2>7. Once(a)'
    BY <2>1, <2>6 DEF Once
  <2> QED
    BY <1>2, <2>5, <2>7
<1> QED
  BY <1>1, <1>2

\* A panic takes all messages of the actor with it.
LEMMA DropMessages ==
  ASSUME TypeOK, NEW a \in Actors,
         cur' = [cur EXCEPT ![a] = Nil], mailbox' = [mailbox EXCEPT ![a] = <<>>],
         NEW b \in Actors
  PROVE  /\ Pending(b)' = IF b = a THEN {} ELSE Pending(b)
         /\ Once(b) => Once(b)'
<1>1. CASE b # a
  BY <1>1 DEF TypeOK, Pending, Once
<1>2. CASE b = a
  <2>1. cur'[a] = Nil /\ mailbox'[a] = <<>>
    BY DEF TypeOK
  <2>2. \A m \in Message : m # Nil
    BY ActorsAssumption
  <2> QED
    BY <1>2, <2>1, <2>2 DEF Pending, Once
<1> QED
  BY <1>1, <1>2

-----------------------------------------------------------------------------
(* DeliveryInv is kept.                                                    *)

\* DeliveryInv holds when only the root actors exist and nothing is sent.
LEMMA InitDelivery == Init => DeliveryInv
<1> SUFFICES ASSUME Init PROVE DeliveryInv
  OBVIOUS
<1> USE DEF Init
<1>1. \A a \in Actors : Pending(a) = {}
  BY ActorsAssumption DEF Pending
<1>2. \A a \in Actors : Once(a)
  BY DEF Once
<1>3. PendingInv
  BY <1>2 DEF PendingInv, Past, Handling
<1>4. RequestInv /\ ReportInv
  BY <1>1, ScriptAssumption DEF RequestInv, ReportInv
<1>5. FateInv /\ ResolvedInv /\ CallersNotForgotten
  BY DEF FateInv, ResolvedInv, CallersNotForgotten, Waits
<1> QED
  BY <1>3, <1>4, <1>5 DEF DeliveryInv

\* The states of a wait that was subscribed at some time, or given up.
Seen == {"subscribed", "resolved", "abandoned", "dropped"}

\* CallersNotForgotten from one step: a wait stays in the states that excuse
\* the drop of another.
LEMMA CallersStep ==
  ASSUME CallersNotForgotten, crashed \subseteq crashed',
         \A w \in Waits : status[w] \in Seen => status'[w] \in Seen,
         \A w \in Waits : status'[w] = "subscribed" =>
           subscriber'[To(w)] = w /\ pc'[To(w)] \in Executing \cup {"exited"},
         \A w \in Waits : status'[w] = "dropped" =>
           \/ status[w] = "dropped"
           \/ To(w) \in crashed'
           \/ \E v \in Waits \ {w} : To(v) = To(w) /\ status'[v] \in Seen
  PROVE  CallersNotForgotten'
<1> SUFFICES ASSUME NEW w \in Waits, status'[w] = "dropped"
             PROVE  \/ To(w) \in crashed'
                    \/ \E v \in Waits \ {w} : To(v) = To(w) /\ status'[v] \in Seen
  BY DEF CallersNotForgotten, Seen
<1>1. CASE status[w] = "dropped"
  <2>1. \/ To(w) \in crashed
        \/ \E v \in Waits \ {w} : To(v) = To(w) /\ status[v] \in Seen
    BY <1>1 DEF CallersNotForgotten, Seen
  <2> QED
    BY <2>1
<1> QED
  BY <1>1

\* What callers do: only a push puts a message anywhere.
LEMMA CallerDelivery ==
  ASSUME TypeOK, SupervisionInv, DeliveryInv, NEW r \in Requests, CallerStep(r)
  PROVE  DeliveryInv'
<1>1. To(r) \in Actors /\ r \in Message /\ \A s \in Requests : To(s) \in Actors
  BY ScriptAssumption DEF Message
<1>2. UNCHANGED <<pc, closed, cur, subscriber, crashed, fate>>
  BY DEF CallerStep, Reserve, Push, Reject, Abandon, death
<1>3. \E s \in Statuses : status' = [status EXCEPT ![r] = s]
  BY DEF CallerStep, Reserve, Push, Reject, Abandon, Statuses
<1>4. FateInv'
  BY <1>2 DEF DeliveryInv, FateInv
<1>5. CASE ~(Push(r) /\ pc[To(r)] \in Executing)
  <2>1. UNCHANGED mailbox
    BY <1>5 DEF CallerStep, Reserve, Push, Reject, Abandon
  <2>2. \A b \in Actors : Pending(b)' = Pending(b) /\ (Once(b) => Once(b)')
    BY <1>2, <2>1, SameMessages
  <2>3. \/ status[r] \in {"unsent", "reserved"} /\ status'[r] \in {"reserved", "rejected", "late"}
        \/ r \in Waits /\ status[r] \in {"queued", "subscribed"} /\ status'[r] = "abandoned"
    BY <1>5 DEF CallerStep, Reserve, Push, Reject, Abandon, TypeOK
  <2>4. PendingInv'
    BY <1>2, <2>1, <2>2 DEF DeliveryInv, PendingInv
  <2>5. RequestInv'
    BY <1>1, <1>3, <2>2, <2>3 DEF DeliveryInv, RequestInv, TypeOK
  <2>6. ReportInv'
    BY <1>2, <2>2 DEF DeliveryInv, ReportInv
  <2>7. ResolvedInv'
    BY <1>2, <1>3, <2>3 DEF DeliveryInv, ResolvedInv, TypeOK, Waits
  <2>8. CallersNotForgotten'
    <3>1. CallersNotForgotten
      BY DEF DeliveryInv
    <3>2. /\ \A w \in Waits : w # r => status'[w] = status[w]
          /\ \A w \in Waits : status'[w] = "subscribed" => status[w] = "subscribed"
      BY <1>3, <2>3 DEF TypeOK, Waits
    <3>3. \A w \in Waits : status[w] \in Seen => status'[w] \in Seen
      BY <2>3, <3>2 DEF Seen
    <3>4. \A w \in Waits : status'[w] = "dropped" => status[w] = "dropped"
      BY <2>3, <3>2
    <3>5. \A w \in Waits : status'[w] = "subscribed" =>
            subscriber'[To(w)] = w /\ pc'[To(w)] \in Executing \cup {"exited"}
      BY <1>2, <3>1, <3>2 DEF CallersNotForgotten
    <3> QED
      BY <1>2, <3>1, <3>3, <3>4, <3>5, CallersStep
  <2> QED
    BY <1>4, <2>4, <2>5, <2>6, <2>7, <2>8 DEF DeliveryInv
<1>6. CASE Push(r) /\ pc[To(r)] \in Executing
  <2>1. /\ mailbox' = [mailbox EXCEPT ![To(r)] = Append(mailbox[To(r)], r)]
        /\ status' = [status EXCEPT ![r] = "queued"]
        /\ status[r] = "reserved"
    BY <1>6 DEF Push
  <2>2. r \notin Pending(To(r))
    BY <2>1 DEF DeliveryInv, RequestInv
  <2>3. \A b \in Actors :
          /\ Pending(b)' = IF b = To(r) THEN Pending(b) \cup {r} ELSE Pending(b)
          /\ Once(b) => Once(b)'
    BY <1>1, <1>2, <2>1, <2>2, PutMessage
  <2>4. PendingInv'
    BY <1>2, <1>6, <2>1, <2>3
        DEF DeliveryInv, PendingInv, TypeOK, Past, Executing, Handling
  <2>5. RequestInv'
    BY <1>1, <2>1, <2>3 DEF DeliveryInv, RequestInv, TypeOK
  <2>6. ReportInv'
    BY <1>2, <2>3, ActorsAssumption DEF DeliveryInv, ReportInv
  <2>7. ResolvedInv'
    BY <1>2, <2>1 DEF DeliveryInv, ResolvedInv, TypeOK, Waits
  <2>8. CallersNotForgotten'
    <3>1. CallersNotForgotten
      BY DEF DeliveryInv
    <3>2. \A w \in Waits : IF w = r THEN status[w] = "reserved" /\ status'[w] = "queued"
                                    ELSE status'[w] = status[w]
      BY <2>1 DEF TypeOK, Waits
    <3>3. \A w \in Waits : status[w] \in Seen => status'[w] \in Seen
      BY <3>2 DEF Seen
    <3>4. \A w \in Waits : status'[w] = "dropped" => status[w] = "dropped"
      BY <3>2
    <3>5. \A w \in Waits : status'[w] = "subscribed" =>
            subscriber'[To(w)] = w /\ pc'[To(w)] \in Executing \cup {"exited"}
      BY <1>2, <3>1, <3>2 DEF CallersNotForgotten
    <3> QED
      BY <1>2, <3>1, <3>3, <3>4, <3>5, CallersStep
  <2> QED
    BY <1>4, <2>4, <2>5, <2>6, <2>7, <2>8 DEF DeliveryInv
<1> QED
  BY <1>5, <1>6

\* Taking a message changes nothing but where it is.
LEMMA ReceiveDelivery ==
  ASSUME TypeOK, SupervisionInv, DeliveryInv, NEW a \in Actors, Receive(a)
  PROVE  DeliveryInv'
<1>1. cur[a] = Nil /\ \A s \in Requests : To(s) \in Actors
  BY ScriptAssumption DEF Receive, DeliveryInv, PendingInv, Handling
<1>2. /\ mailbox[a] # <<>>
      /\ cur' = [cur EXCEPT ![a] = Head(mailbox[a])]
      /\ mailbox' = [mailbox EXCEPT ![a] = Tail(mailbox[a])]
      /\ UNCHANGED <<closed, subscriber, status, crashed, fate>>
  BY DEF Receive, death
<1>3. \A b \in Actors : Pending(b)' = Pending(b) /\ (Once(b) => Once(b)')
  BY <1>1, <1>2, TakeMessage
<1>4. \/ pc[a] = "running" /\ pc' = [pc EXCEPT ![a] = "handling"]
      \/ pc[a] = "stopping" /\ pc' = [pc EXCEPT ![a] = "stopHandling"]
      \/ pc[a] = "draining" /\ pc' = [pc EXCEPT ![a] = "drainHandling"]
  BY DEF Receive
<1>5. Head(mailbox[a]) # Nil
  BY <1>2, HeadTailType, ActorsAssumption DEF TypeOK
<1>6. PendingInv'
  BY <1>2, <1>3, <1>4, <1>5 DEF DeliveryInv, PendingInv, TypeOK, Past, Handling
<1>7. RequestInv' /\ ReportInv'
  BY <1>1, <1>2, <1>3 DEF DeliveryInv, RequestInv, ReportInv
<1>8. FateInv' /\ ResolvedInv'
  BY <1>1, <1>2, <1>4 DEF DeliveryInv, FateInv, ResolvedInv, TypeOK, Waits
<1>9. CallersNotForgotten'
  <2>1. CallersNotForgotten
    BY DEF DeliveryInv
  <2>2. \A b \in Actors : pc[b] \in Executing \cup {"exited"} => pc'[b] \in Executing \cup {"exited"}
    BY <1>4 DEF TypeOK, Executing, Handling
  <2>3. \A w \in Waits : status'[w] = "subscribed" =>
          subscriber'[To(w)] = w /\ pc'[To(w)] \in Executing \cup {"exited"}
    BY <1>1, <1>2, <2>1, <2>2 DEF CallersNotForgotten, Waits
  <2> QED
    BY <1>2, <2>1, <2>3, CallersStep
<1> QED
  BY <1>6, <1>7, <1>8, <1>9 DEF DeliveryInv

\* A panic takes the actor's messages and its subscriber with it.
LEMMA UnwindDelivery ==
  ASSUME TypeOK, SupervisionInv, DeliveryInv, NEW a \in Actors, pc[a] \in Executing, Unwind(a)
  PROVE  DeliveryInv'
<1>1. \A s \in Requests : To(s) \in Actors
  BY ScriptAssumption
<1>2. /\ cur' = [cur EXCEPT ![a] = Nil]
      /\ mailbox' = [mailbox EXCEPT ![a] = <<>>]
      /\ closed' = [closed EXCEPT ![a] = TRUE]
      /\ crashed' = crashed \cup {a}
      /\ subscriber' = [subscriber EXCEPT ![a] = Nil]
      /\ UNCHANGED fate
  BY DEF Unwind
<1>3. /\ pc' = [pc EXCEPT ![a] = pc'[a]]
      /\ pc'[a] = IF Parent[a] = Nil THEN "gone" ELSE "panicked"
  BY DEF Unwind, TypeOK
<1>4. \A s \in Requests :
        status'[s] = IF To(s) = a /\ status[s] \in {"queued", "subscribed"}
                     THEN "dropped" ELSE status[s]
  BY DEF Unwind
<1>5. \A b \in Actors :
        /\ Pending(b)' = IF b = a THEN {} ELSE Pending(b)
        /\ Once(b) => Once(b)'
  BY <1>2, DropMessages
<1>6. PendingInv'
  BY <1>2, <1>3, <1>5 DEF DeliveryInv, PendingInv, TypeOK, Past, Handling
<1>7. RequestInv'
  BY <1>1, <1>4, <1>5 DEF DeliveryInv, RequestInv
<1>8. ReportInv'
  BY <1>2, <1>5 DEF DeliveryInv, ReportInv
<1>9. FateInv'
  BY <1>2, <1>3 DEF DeliveryInv, FateInv, TypeOK, Executing, Handling
<1>10. ResolvedInv'
  BY <1>1, <1>2, <1>3, <1>4
      DEF DeliveryInv, ResolvedInv, TypeOK, Waits, Executing, Handling
<1>11. CallersNotForgotten'
  <2>1. CallersNotForgotten
    BY DEF DeliveryInv
  <2>2. \A w \in Waits : status[w] \in Seen => status'[w] \in Seen
    BY <1>4 DEF Seen, Waits
  <2>3. \A w \in Waits : status'[w] = "dropped" => status[w] = "dropped" \/ To(w) \in crashed'
    BY <1>2, <1>4 DEF Waits
  <2>4. \A w \in Waits : status'[w] = "subscribed" => status[w] = "subscribed" /\ To(w) # a
    BY <1>4 DEF Waits
  <2>5. \A w \in Waits : status'[w] = "subscribed" =>
          subscriber'[To(w)] = w /\ pc'[To(w)] \in Executing \cup {"exited"}
    <3>1. \A b \in Actors \ {a} : subscriber'[b] = subscriber[b] /\ pc'[b] = pc[b]
      BY <1>2, <1>3 DEF TypeOK
    <3> QED
      BY <1>1, <2>1, <2>4, <3>1 DEF CallersNotForgotten, Waits
  <2> QED
    BY <1>2, <2>1, <2>2, <2>3, <2>5, CallersStep
<1> QED
  BY <1>6, <1>7, <1>8, <1>9, <1>10, <1>11 DEF DeliveryInv

\* process_message returns to the loop it was called from; with a spawn, one
\* actor that did not exist starts to run.
Returns(a) ==
  /\ pc[a] \in Handling
  /\ pc'[a] \in Executing \ Handling
  /\ pc'[a] = "draining" => pc[a] = "drainHandling"
  /\ \A b \in Actors \ {a} : pc'[b] = pc[b] \/ (pc[b] = "unborn" /\ pc'[b] = "running")
  /\ cur' = [cur EXCEPT ![a] = Nil]
  /\ UNCHANGED <<mailbox, crashed>>
  /\ \A b \in Actors : closed[b] => closed'[b]

\* Return is the case without a spawn.
LEMMA ReturnReturns ==
  ASSUME TypeOK, NEW a \in Actors, NEW st, pc[a] \in Handling, Return(a, st),
         UNCHANGED <<mailbox, crashed>>, \A b \in Actors : closed[b] => closed'[b]
  PROVE  Returns(a)
<1>1. pc'[a] = AfterMessage(pc[a], st) /\ \A b \in Actors \ {a} : pc'[b] = pc[b]
  BY DEF Return, TypeOK
<1>2. /\ AfterMessage(pc[a], st) \in {"running", "shutdown", "checking", "draining"}
      /\ AfterMessage(pc[a], st) = "draining" => pc[a] = "drainHandling"
  BY DEF AfterMessage, Handling
<1> QED
  BY <1>1, <1>2 DEF Returns, Return, Executing, Handling

\* What every return from process_message does to the messages.
LEMMA ReturnsDelivery ==
  ASSUME TypeOK, SupervisionInv, DeliveryInv, NEW a \in Actors, Returns(a)
  PROVE  /\ cur[a] \in Pending(a)
         /\ \A b \in Actors : Pending(b)' = IF b = a THEN Pending(b) \ {cur[a]} ELSE Pending(b)
         /\ PendingInv'
         /\ \A b \in Actors : pc[b] \in Executing => pc'[b] \in Executing
         /\ \A b \in Actors : pc[b] \in Past => pc'[b] = pc[b]
         /\ \A b \in Actors : pc'[b] \in Past => pc'[b] = pc[b]
<1>1. Once(a) /\ \A b \in Actors : Once(b)
  BY DEF DeliveryInv, PendingInv
<1>2. \A b \in Actors :
        /\ Pending(b)' = IF b = a THEN Pending(b) \ {cur[a]} ELSE Pending(b)
        /\ Once(b)'
  BY <1>1, DoneMessage DEF Returns
<1>3. cur[a] \in Pending(a)
  BY DEF Returns, Pending, DeliveryInv, PendingInv, TypeOK
<1>4. \A b \in Actors : cur'[b] = (IF b = a THEN Nil ELSE cur[b]) /\ mailbox'[b] = mailbox[b]
  BY DEF Returns, TypeOK
<1>5. PendingInv'
  <2> SUFFICES ASSUME NEW b \in Actors
               PROVE  /\ cur'[b] # Nil <=> pc'[b] \in Handling
                      /\ pc'[b] \in Past \cup {"draining", "drainHandling"} => closed'[b]
                      /\ pc'[b] \in Past => mailbox'[b] = <<>>
    BY <1>2 DEF PendingInv
  <2>1. CASE b = a
    BY <1>4, <2>1 DEF Returns, DeliveryInv, PendingInv, Executing, Handling, Past
  <2>2. CASE b # a
    BY <1>4, <2>2 DEF Returns, DeliveryInv, PendingInv, Handling, Past
  <2> QED
    BY <2>1, <2>2
<1>6. /\ \A b \in Actors : pc[b] \in Executing => pc'[b] \in Executing
      /\ \A b \in Actors : pc[b] \in Past => pc'[b] = pc[b]
      /\ \A b \in Actors : pc'[b] \in Past => pc'[b] = pc[b]
  BY DEF Returns, Executing, Handling, Past
<1> QED
  BY <1>2, <1>3, <1>5, <1>6

\* What is still to show of a return, once its messages are accounted for.
LEMMA ReturnsRest ==
  ASSUME TypeOK, SupervisionInv, DeliveryInv, NEW a \in Actors, Returns(a)
  PROVE  /\ UNCHANGED fate => FateInv'
         /\ (UNCHANGED fate /\ cur[a] \in Requests) => ReportInv'
         /\ (\A w \in Waits : status'[w] = "resolved" => status[w] = "resolved")
               /\ UNCHANGED fate => ResolvedInv'
<1> USE ReturnsDelivery
<1>1. UNCHANGED crashed /\ \A s \in Requests : To(s) \in Actors
  BY ScriptAssumption DEF Returns
<1>2. ASSUME UNCHANGED fate PROVE FateInv'
  BY <1>1, <1>2 DEF DeliveryInv, FateInv, Past
<1>3. ASSUME UNCHANGED fate, cur[a] \in Requests PROVE ReportInv'
  BY <1>1, <1>3, ActorsAssumption DEF DeliveryInv, ReportInv
<1>4. ASSUME \A w \in Waits : status'[w] = "resolved" => status[w] = "resolved", UNCHANGED fate
      PROVE  ResolvedInv'
  BY <1>1, <1>4 DEF DeliveryInv, ResolvedInv, Past, Waits
<1> QED
  BY <1>2, <1>3, <1>4

\* A handler returns: its request is handled, nothing else changes hands.
LEMMA HandledDelivery ==
  ASSUME TypeOK, SupervisionInv, DeliveryInv, NEW a \in Actors, Returns(a),
         cur[a] \in Requests, cur[a] \notin Waits, Handled(a), UNCHANGED <<subscriber, fate>>
  PROVE  DeliveryInv'
<1>1. To(cur[a]) = a /\ \A s \in Requests : To(s) \in Actors
  BY ScriptAssumption, ActorsAssumption
      DEF SupervisionInv, AddressInv, Addressed, Children, Message
<1>2. \A s \in Requests : status'[s] = IF s = cur[a] THEN "handled" ELSE status[s]
  BY DEF Handled, TypeOK
<1>3. \A w \in Waits : status'[w] = status[w]
  BY <1>2 DEF Waits
<1>4. RequestInv'
  BY <1>1, <1>2, ReturnsDelivery DEF DeliveryInv, RequestInv
<1>5. FateInv' /\ ReportInv' /\ ResolvedInv'
  BY <1>3, ReturnsRest
<1>6. CallersNotForgotten'
  <2>1. CallersNotForgotten
    BY DEF DeliveryInv
  <2>2. \A b \in Actors : pc[b] \in Executing \cup {"exited"} => pc'[b] \in Executing \cup {"exited"}
    BY ReturnsDelivery DEF Past
  <2>3. \A w \in Waits : status'[w] = "subscribed" =>
          subscriber'[To(w)] = w /\ pc'[To(w)] \in Executing \cup {"exited"}
    BY <1>1, <1>3, <2>1, <2>2 DEF CallersNotForgotten, Waits
  <2> QED
    BY <1>3, <2>1, <2>3, CallersStep DEF Returns
<1> QED
  BY <1>4, <1>5, <1>6, ReturnsDelivery DEF DeliveryInv

\* IntoFutureShutdown: the wait leaves the mailbox and becomes the subscriber.
LEMMA IntoFutureDelivery ==
  ASSUME TypeOK, SupervisionInv, DeliveryInv, NEW a \in Actors, HandleIntoFuture(a)
  PROVE  DeliveryInv'
<1> DEFINE w == cur[a]
<1>1. w \in Waits /\ w \in Requests /\ To(w) = a /\ \A s \in Requests : To(s) \in Actors
  BY ScriptAssumption, ActorsAssumption
     DEF HandleIntoFuture, Waits, SupervisionInv, AddressInv, Addressed, Children, Message
<1>2. Returns(a)
  <2>1. \E st : Return(a, st)
    BY DEF HandleIntoFuture
  <2>2. pc[a] \in Handling /\ UNCHANGED <<mailbox, crashed, closed>>
    BY DEF HandleIntoFuture, death
  <2> QED
    BY <2>1, <2>2, ReturnReturns
<1>3. /\ subscriber' = [subscriber EXCEPT ![a] = w]
      /\ UNCHANGED fate
      /\ \A s \in Requests :
           status'[s] = IF s = w /\ status[s] = "queued" THEN "subscribed"
                        ELSE IF s = subscriber[a] /\ status[s] = "subscribed" THEN "dropped"
                        ELSE status[s]
  BY DEF HandleIntoFuture, death
<1>4. status[w] \in {"queued", "abandoned"}
  BY <1>1, <1>2, ReturnsDelivery DEF DeliveryInv, RequestInv
<1> HIDE DEF w
<1>5. w = cur[a]
  BY DEF w
<1>6. RequestInv'
  BY <1>1, <1>2, <1>3, <1>5, ReturnsDelivery DEF DeliveryInv, RequestInv
<1>7. FateInv' /\ ReportInv' /\ ResolvedInv'
  <2>1. \A v \in Waits : status'[v] = "resolved" => status[v] = "resolved"
    BY <1>3 DEF Waits
  <2> QED
    BY <1>1, <1>2, <1>3, <1>5, <2>1, ReturnsRest
<1>8. CallersNotForgotten'
  <2>1. CallersNotForgotten
    BY DEF DeliveryInv
  <2>2. \A b \in Actors : pc[b] \in Executing \cup {"exited"} => pc'[b] \in Executing \cup {"exited"}
    BY <1>2, ReturnsDelivery DEF Past
  <2>3. status'[w] \in {"subscribed", "abandoned"} /\ pc'[a] \in Executing
    BY <1>1, <1>2, <1>3, <1>4 DEF Returns, Waits
  <2>4. \A v \in Waits : status[v] \in Seen => status'[v] \in Seen
    BY <1>3 DEF Seen, Waits
  <2>5. \A v \in Waits : status'[v] = "subscribed" =>
          subscriber'[To(v)] = v /\ pc'[To(v)] \in Executing \cup {"exited"}
    <3> SUFFICES ASSUME NEW v \in Waits, status'[v] = "subscribed"
                 PROVE  subscriber'[To(v)] = v /\ pc'[To(v)] \in Executing \cup {"exited"}
      OBVIOUS
    <3>1. CASE v = w
      BY <1>1, <1>3, <2>3, <3>1 DEF TypeOK
    <3>2. CASE v # w
      <4>1. status[v] = "subscribed" /\ v # subscriber[a] /\ v \in Requests
        BY <1>3, <3>2 DEF Waits
      <4>2. subscriber[To(v)] = v /\ pc[To(v)] \in Executing \cup {"exited"} /\ To(v) \in Actors
        BY <1>1, <2>1, <4>1 DEF CallersNotForgotten
      <4>3. To(v) # a
        BY <4>1, <4>2
      <4> QED
        BY <1>3, <2>2, <4>2, <4>3 DEF TypeOK
    <3> QED
      BY <3>1, <3>2
  <2>6. \A v \in Waits : status'[v] = "dropped" =>
          \/ status[v] = "dropped"
          \/ \E u \in Waits \ {v} : To(u) = To(v) /\ status'[u] \in Seen
    <3> SUFFICES ASSUME NEW v \in Waits, status'[v] = "dropped", status[v] # "dropped"
                 PROVE  \E u \in Waits \ {v} : To(u) = To(v) /\ status'[u] \in Seen
      OBVIOUS
    <3>1. v = subscriber[a] /\ v \in Requests
      BY <1>3 DEF Waits
    <3>2. To(v) = a
      BY <3>1, ActorsAssumption DEF SupervisionInv, AddressInv, Waits, Message
    <3>3. v # w
      BY <2>3
    <3> QED
      BY <1>1, <2>3, <3>2, <3>3 DEF Seen
  <2> QED
    BY <1>2, <2>1, <2>4, <2>5, <2>6, CallersStep DEF Returns
<1> QED
  BY <1>2, <1>6, <1>7, <1>8, ReturnsDelivery DEF DeliveryInv

\* The supervisor handles a death: the report leaves its mailbox as handled.
LEMMA DeadActorDelivery ==
  ASSUME TypeOK, SupervisionInv, DeliveryInv, NEW a \in Actors, HandleDeadActor(a)
  PROVE  DeliveryInv'
<1> DEFINE c == cur[a]
<1>1. c \in Actors /\ Parent[c] = a /\ \A s \in Requests : To(s) \in Actors
  BY ScriptAssumption, ActorsAssumption
     DEF HandleDeadActor, SupervisionInv, AddressInv, Addressed, Children, Message
<1>2. Returns(a)
  <2>1. pc[a] \in Handling /\ Return(a, state[a]) /\ UNCHANGED <<mailbox, crashed, closed>>
    BY DEF HandleDeadActor
  <2> QED
    BY <2>1, ReturnReturns
<1>3. UNCHANGED <<subscriber, status, crashed>> /\ fate' = [fate EXCEPT ![c] = "handled"]
  BY DEF HandleDeadActor
<1>4. fate[c] = "reported"
  BY <1>1, <1>2, ReturnsDelivery DEF DeliveryInv, ReportInv
<1> HIDE DEF c
<1>5. c = cur[a] /\ c \notin Requests
  BY <1>1, ActorsAssumption DEF c
<1>6. \A b \in Actors : fate'[b] = IF b = c THEN "handled" ELSE fate[b]
  BY <1>3 DEF TypeOK
<1>7. RequestInv'
  BY <1>1, <1>2, <1>3, <1>5, ReturnsDelivery DEF DeliveryInv, RequestInv
<1>8. ReportInv'
  BY <1>1, <1>2, <1>3, <1>5, <1>6, ReturnsDelivery DEF DeliveryInv, ReportInv
<1>9. FateInv'
  BY <1>2, <1>3, <1>4, <1>6, ReturnsDelivery DEF DeliveryInv, FateInv, Past
<1>10. ResolvedInv'
  BY <1>1, <1>2, <1>3, <1>4, <1>6, ReturnsDelivery, ActorsAssumption
     DEF DeliveryInv, ResolvedInv, FateInv, Past, Waits
<1>11. CallersNotForgotten'
  <2>1. CallersNotForgotten
    BY DEF DeliveryInv
  <2>2. \A b \in Actors : pc[b] \in Executing \cup {"exited"} => pc'[b] \in Executing \cup {"exited"}
    BY <1>2, ReturnsDelivery DEF Past
  <2>3. \A w \in Waits : status'[w] = "subscribed" =>
          subscriber'[To(w)] = w /\ pc'[To(w)] \in Executing \cup {"exited"}
    BY <1>1, <1>3, <2>1, <2>2 DEF CallersNotForgotten, Waits
  <2> QED
    BY <1>3, <2>1, <2>3, CallersStep
<1> QED
  BY <1>2, <1>7, <1>8, <1>9, <1>10, <1>11, ReturnsDelivery DEF DeliveryInv

\* Every outcome of process_message keeps DeliveryInv.
LEMMA ProcessMessageDelivery ==
  ASSUME TypeOK, SupervisionInv, DeliveryInv, NEW a \in Actors, ProcessMessage(a)
  PROVE  DeliveryInv'
<1>1. CASE HandleNormal(a) \/ HandleStop(a) \/ HandleAbort(a)
  <2>1. pc[a] \in Handling /\ cur[a] \in Requests /\ cur[a] \notin Waits
    BY <1>1 DEF HandleNormal, HandleStop, HandleAbort, Serves, Waits
  <2>2. \E st : Return(a, st)
    BY <1>1 DEF HandleNormal, HandleStop, HandleAbort
  <2>3. Handled(a) /\ UNCHANGED <<mailbox, crashed, subscriber, fate>>
    BY <1>1 DEF HandleNormal, HandleStop, HandleAbort, death
  <2>4. \A b \in Actors : closed[b] => closed'[b]
    BY <1>1 DEF HandleNormal, HandleStop, HandleAbort, TypeOK
  <2>5. Returns(a)
    BY <2>1, <2>2, <2>3, <2>4, ReturnReturns
  <2> QED
    BY <2>1, <2>3, <2>5, HandledDelivery
<1>2. CASE HandleSpawn(a)
  <2> DEFINE c == Script[cur[a]].child
  <2>1. pc[a] \in Handling /\ cur[a] \in Requests /\ cur[a] \notin Waits
    BY <1>2 DEF HandleSpawn, Serves, Waits
  <2>2. c \in Actors /\ c # a
    BY <1>2, ActorsAssumption, ScriptAssumption
       DEF HandleSpawn, Serves, SupervisionInv, AddressInv, Addressed, Children, Message
  <2>3. pc[a] = "handling"
    BY <1>2 DEF HandleSpawn, Serves, SupervisionInv, StateInv, Handling
  <2>4. /\ pc' = [pc EXCEPT ![a] = "running", ![c] = "running"]
        /\ pc[c] = "unborn"
        /\ cur' = [cur EXCEPT ![a] = Nil]
        /\ UNCHANGED <<mailbox, closed, subscriber, crashed, fate>>
    BY <1>2, <2>3 DEF HandleSpawn, AfterMessage, death
  <2> HIDE DEF c
  <2>5. Returns(a)
    BY <2>2, <2>3, <2>4 DEF Returns, TypeOK, Executing, Handling
  <2>6. Handled(a)
    BY <1>2 DEF HandleSpawn
  <2> QED
    BY <2>1, <2>4, <2>5, <2>6, HandledDelivery
<1>3. CASE HandlePanic(a)
  BY <1>3, UnwindDelivery DEF HandlePanic, Serves, Executing
<1> QED
  BY <1>1, <1>2, <1>3, IntoFutureDelivery, DeadActorDelivery DEF ProcessMessage

\* The steps of shutdown(), stopping() and stop() move the actor alone, and
\* only from an empty mailbox to its end.
LEMMA ShutdownDelivery ==
  ASSUME TypeOK, SupervisionInv, DeliveryInv, NEW a \in Actors,
         Shutdown(a) \/ SupervisorShutdown(a)
  PROVE  DeliveryInv'
<1>1. CASE Unwind(a)
  <2>1. pc[a] \in Executing
    BY DEF Shutdown, BeginShutdown, BeginStopping, StoppingMailboxClosed, StoppingTimeout,
           CheckChildren, DrainEmpty, SupervisorShutdown, Executing
  <2> QED
    BY <1>1, <2>1, UnwindDelivery
<1>2. CASE ~Unwind(a)
  <2>1. /\ UNCHANGED <<mailbox, cur, subscriber, status, crashed, fate>>
        /\ \/ /\ UNCHANGED closed
              /\ \/ pc[a] = "running" /\ pc' = [pc EXCEPT ![a] = "shutdown"]
                 \/ pc[a] = "shutdown" /\ pc' = [pc EXCEPT ![a] = "notifying"]
                 \/ pc[a] \in {"notifying", "checking"} /\ pc' = [pc EXCEPT ![a] = "stopping"]
                 \/ pc[a] = "stopping" /\ pc' = [pc EXCEPT ![a] = "checking"]
                 \/ pc[a] = "draining" /\ mailbox[a] = <<>> /\ pc' = [pc EXCEPT ![a] = "exited"]
           \/ /\ closed' = [closed EXCEPT ![a] = TRUE]
              /\ pc[a] \in {"notifying", "checking"} /\ pc' = [pc EXCEPT ![a] = "draining"]
    BY <1>2 DEF Shutdown, BeginShutdown, BeginStopping, AllChildrenDead,
                StoppingMailboxClosed, StoppingTimeout, CheckChildren, DrainEmpty,
                SupervisorShutdown, control, death
  <2>2. /\ UNCHANGED <<mailbox, cur, subscriber, status, crashed, fate>>
        /\ \A s \in Requests : To(s) \in Actors
    BY <2>1, ScriptAssumption
  <2>3. \A b \in Actors : Pending(b)' = Pending(b) /\ (Once(b) => Once(b)')
    BY <2>2, SameMessages
  <2>4. /\ \A b \in Actors \ {a} : pc'[b] = pc[b] /\ closed'[b] = closed[b]
        /\ pc[a] \in Executing \ Handling
        /\ pc'[a] \in (Executing \ Handling) \cup {"exited"}
    BY <2>1 DEF TypeOK, Executing, Handling
  <2>5. PendingInv'
    <3> SUFFICES ASSUME NEW b \in Actors
                 PROVE  /\ cur'[b] # Nil <=> pc'[b] \in Handling
                        /\ pc'[b] \in Past \cup {"draining", "drainHandling"} => closed'[b]
                        /\ pc'[b] \in Past => mailbox'[b] = <<>>
      BY <2>3 DEF PendingInv, DeliveryInv
    <3>1. CASE b # a
      BY <2>2, <2>4, <3>1 DEF DeliveryInv, PendingInv
    <3>2. CASE b = a
      <4>1. cur[a] = Nil /\ cur' = cur
        BY <2>1, <2>4 DEF DeliveryInv, PendingInv
      <4>2. cur'[a] # Nil <=> pc'[a] \in Handling
        BY <2>4, <4>1 DEF Handling
      <4>3. pc[a] = "draining" => closed[a]
        BY DEF DeliveryInv, PendingInv
      <4>4. pc'[a] \in Past \cup {"draining", "drainHandling"} => closed'[a]
        BY <2>1, <4>3 DEF TypeOK, Past
      <4>5. pc'[a] \in Past => mailbox'[a] = <<>>
        BY <2>1 DEF TypeOK, Past
      <4> QED
        BY <3>2, <4>2, <4>4, <4>5
    <3> QED
      BY <3>1, <3>2
  <2>6. RequestInv' /\ ReportInv'
    BY <2>2, <2>3 DEF DeliveryInv, RequestInv, ReportInv
  <2>7. FateInv'
    BY <2>2, <2>4 DEF DeliveryInv, FateInv, Executing, Handling
  <2>8. ResolvedInv'
    BY <2>2, <2>4 DEF DeliveryInv, ResolvedInv, Waits, Executing, Handling
  <2>9. CallersNotForgotten'
    <3>1. CallersNotForgotten
      BY DEF DeliveryInv
    <3>2. \A b \in Actors : pc[b] \in Executing \cup {"exited"} => pc'[b] \in Executing \cup {"exited"}
      BY <2>4
    <3>3. \A w \in Waits : status'[w] = "subscribed" =>
            subscriber'[To(w)] = w /\ pc'[To(w)] \in Executing \cup {"exited"}
      BY <2>2, <3>1, <3>2 DEF CallersNotForgotten, Waits
    <3> QED
      BY <2>2, <3>1, <3>3, CallersStep
  <2> QED
    BY <2>5, <2>6, <2>7, <2>8, <2>9 DEF DeliveryInv
<1> QED
  BY <1>1, <1>2

\* An actor whose task is over moves on: nothing of what it had is left.
LEMMA PastPending ==
  ASSUME TypeOK, DeliveryInv, NEW a \in Actors, pc[a] \in Past,
         UNCHANGED <<mailbox, cur, closed>>, pc' = [pc EXCEPT ![a] = pc'[a]], pc'[a] \in Past
  PROVE  PendingInv' /\ \A b \in Actors : Pending(b)' = Pending(b)
<1>1. \A b \in Actors : Pending(b)' = Pending(b) /\ (Once(b) => Once(b)')
  BY SameMessages
<1>2. \A b \in Actors : pc'[b] = pc[b] \/ (b = a /\ pc[b] \in Past /\ pc'[b] \in Past)
  BY DEF TypeOK
<1>3. PendingInv'
  BY <1>1, <1>2 DEF DeliveryInv, PendingInv, Past, Handling
<1> QED
  BY <1>1, <1>3

\* The end of an actor: its subscriber is answered, or nobody was left.
LEMMA ExitDelivery ==
  ASSUME TypeOK, SupervisionInv, DeliveryInv, NEW a \in Actors, ExitRoot(a) \/ ExitChild(a)
  PROVE  DeliveryInv'
<1>1. /\ pc[a] = "exited"
      /\ UNCHANGED <<mailbox, closed, cur, crashed>>
      /\ subscriber' = [subscriber EXCEPT ![a] = Nil]
      /\ \A s \in Requests : To(s) \in Actors
  BY ScriptAssumption DEF ExitRoot, ExitChild, TakeSubscriber, death
<1>2. \/ /\ Parent[a] = Nil \/ Answered(a)
         /\ pc' = [pc EXCEPT ![a] = "gone"]
         /\ fate' = IF Parent[a] = Nil THEN fate ELSE [fate EXCEPT ![a] = "awaited"]
      \/ /\ ~Answered(a) /\ Parent[a] # Nil
         /\ pc' = [pc EXCEPT ![a] = "reporting"]
         /\ UNCHANGED fate
  BY DEF ExitRoot, ExitChild, death
<1>3. \A s \in Requests :
        status'[s] = IF Answered(a) /\ s = subscriber[a] THEN "resolved" ELSE status[s]
  BY DEF ExitRoot, ExitChild, TakeSubscriber, TypeOK
<1>4. Answered(a) => /\ subscriber[a] \in Waits /\ To(subscriber[a]) = a
                     /\ status[subscriber[a]] = "subscribed"
  BY DEF Answered, SupervisionInv, AddressInv
<1>5. pc' = [pc EXCEPT ![a] = pc'[a]] /\ pc'[a] \in {"gone", "reporting"}
  BY <1>2 DEF TypeOK
<1>6. PendingInv' /\ \A b \in Actors : Pending(b)' = Pending(b)
  BY <1>1, <1>5, PastPending DEF Past
<1>7. RequestInv'
  BY <1>1, <1>3, <1>4, <1>6 DEF DeliveryInv, RequestInv
<1>8. fate[a] = "none" /\ \A b \in Actors \ {a} : fate'[b] = fate[b] /\ pc'[b] = pc[b]
  BY <1>1, <1>2 DEF DeliveryInv, FateInv, TypeOK
<1>9. fate'[a] = IF Parent[a] # Nil /\ Answered(a) THEN "awaited" ELSE "none"
  BY <1>2, <1>8 DEF TypeOK
<1>10. ReportInv'
  <2> SUFFICES ASSUME NEW c \in Actors, Parent[c] \in Actors
               PROVE  /\ fate'[c] = "reported" => c \in Pending(Parent[c]) \/ Parent[c] \in crashed
                      /\ c \in Pending(Parent[c]) => fate'[c] = "reported"
    BY <1>1, <1>6 DEF ReportInv
  <2>1. CASE c # a
    BY <1>8, <2>1 DEF DeliveryInv, ReportInv
  <2>2. CASE c = a
    BY <1>8, <1>9, <2>2 DEF DeliveryInv, ReportInv
  <2> QED
    BY <2>1, <2>2
<1>11. FateInv'
  <2> SUFFICES ASSUME NEW c \in Actors
               PROVE  /\ fate'[c] # "none" => pc'[c] \in {"reported", "gone"} /\ Parent[c] # Nil
                      /\ pc'[c] = "reported" => fate'[c] \in {"reported", "handled"}
                      /\ pc'[c] = "gone" /\ Parent[c] # Nil => fate'[c] # "none"
                      /\ fate'[c] = "lost" => c \in crashed
    BY <1>1 DEF FateInv
  <2>1. CASE c # a
    BY <1>8, <2>1 DEF DeliveryInv, FateInv
  <2>2. CASE c = a
    BY <1>2, <1>9, <2>2 DEF TypeOK
  <2> QED
    BY <2>1, <2>2
<1>12. a \notin crashed
  BY <1>1 DEF SupervisionInv, ClosedInv
<1>13. ResolvedInv'
  <2> SUFFICES ASSUME NEW w \in Waits, status'[w] = "resolved"
               PROVE  /\ pc'[To(w)] = "gone"
                      /\ To(w) \notin crashed
                      /\ Parent[To(w)] = Nil \/ fate'[To(w)] = "awaited"
    BY <1>1 DEF ResolvedInv
  <2>1. CASE status[w] = "resolved"
    <3>1. /\ pc[To(w)] = "gone" /\ To(w) \notin crashed /\ To(w) \in Actors
          /\ Parent[To(w)] = Nil \/ fate[To(w)] = "awaited"
      BY <1>1, <2>1 DEF DeliveryInv, ResolvedInv, Waits
    <3> QED
      BY <1>1, <1>8, <3>1
  <2>2. CASE status[w] # "resolved"
    <3>1. Answered(a) /\ To(w) = a
      BY <1>3, <1>4, <2>2 DEF Waits
    <3> QED
      BY <1>2, <1>9, <1>12, <3>1 DEF TypeOK
  <2> QED
    BY <2>1, <2>2
<1>14. CallersNotForgotten'
  <2>1. CallersNotForgotten
    BY DEF DeliveryInv
  <2>2. \A w \in Waits : status[w] \in Seen => status'[w] \in Seen
    BY <1>3 DEF Seen, Waits
  <2>3. \A w \in Waits : status'[w] = "dropped" => status[w] = "dropped"
    BY <1>3 DEF Waits
  <2>4. \A w \in Waits : status'[w] = "subscribed" =>
          subscriber'[To(w)] = w /\ pc'[To(w)] \in Executing \cup {"exited"}
    <3> SUFFICES ASSUME NEW w \in Waits, status'[w] = "subscribed"
                 PROVE  subscriber'[To(w)] = w /\ pc'[To(w)] \in Executing \cup {"exited"}
      OBVIOUS
    <3>1. status[w] = "subscribed" /\ ~(Answered(a) /\ w = subscriber[a]) /\ To(w) \in Actors
      BY <1>1, <1>3 DEF Waits
    <3>2. subscriber[To(w)] = w /\ pc[To(w)] \in Executing \cup {"exited"} /\ w # Nil
      BY <2>1, <3>1, ActorsAssumption DEF CallersNotForgotten, Waits, Message
    <3>3. To(w) # a
      BY <3>1, <3>2 DEF Answered
    <3> QED
      BY <1>1, <1>8, <3>1, <3>2, <3>3 DEF TypeOK
  <2> QED
    BY <1>1, <2>1, <2>2, <2>3, <2>4, CallersStep
<1> QED
  BY <1>6, <1>7, <1>10, <1>11, <1>13, <1>14 DEF DeliveryInv

\* The report of a death: it is put into an open mailbox, or it ends here.
LEMMA ReportDelivery ==
  ASSUME TypeOK, SupervisionInv, DeliveryInv, NEW a \in Actors,
         ReportDeath(a) \/ DropReceiver(a) \/ ReportUnreachable(a) \/ ReportPanic(a)
  PROVE  DeliveryInv'
<1> DEFINE p == Parent[a]
<1>1. /\ pc[a] \in {"reporting", "reported", "panicked"}
      /\ pc' = [pc EXCEPT ![a] = pc'[a]]
      /\ pc'[a] \in {"reported", "gone"}
      /\ UNCHANGED <<closed, cur, subscriber, status, crashed>>
      /\ \A s \in Requests : To(s) \in Actors
  BY ScriptAssumption
      DEF ReportDeath, DropReceiver, ReportUnreachable, ReportPanic, death, TypeOK
<1>2. p \in Actors /\ p # Nil
  BY <1>1, ActorsAssumption DEF SupervisionInv, ReceiverInv, Message
<1>3. \/ /\ pc[a] \in {"reporting", "panicked"} /\ ~closed[p]
         /\ mailbox' = [mailbox EXCEPT ![p] = Append(mailbox[p], a)]
         /\ fate' = [fate EXCEPT ![a] = "reported"]
      \/ /\ UNCHANGED mailbox
         /\ pc'[a] = "gone"
         /\ \/ pc[a] = "reported" /\ UNCHANGED fate
            \/ pc[a] = "reporting" /\ fate' = [fate EXCEPT ![a] = "unreachable"]
            \/ pc[a] = "panicked" /\ fate' = [fate EXCEPT ![a] = "lost"]
  BY DEF ReportDeath, DropReceiver, ReportUnreachable, ReportPanic, death, TypeOK
<1> HIDE DEF p
<1>4. p = Parent[a]
  BY DEF p
<1>5. \A b \in Actors \ {a} : pc'[b] = pc[b] /\ fate'[b] = fate[b]
  BY <1>1, <1>3 DEF TypeOK
<1>6. pc[a] \in {"reporting", "panicked"} => fate[a] = "none"
  BY DEF DeliveryInv, FateInv
<1>7. pc[a] = "reported" => fate[a] \in {"reported", "handled"}
  BY DEF DeliveryInv, FateInv
<1>8. pc[a] = "panicked" => a \in crashed
  BY DEF SupervisionInv, ClosedInv
<1>9. FateInv'
  <2> SUFFICES ASSUME NEW c \in Actors
               PROVE  /\ fate'[c] # "none" => pc'[c] \in {"reported", "gone"} /\ Parent[c] # Nil
                      /\ pc'[c] = "reported" => fate'[c] \in {"reported", "handled"}
                      /\ pc'[c] = "gone" /\ Parent[c] # Nil => fate'[c] # "none"
                      /\ fate'[c] = "lost" => c \in crashed
    BY <1>1 DEF FateInv
  <2>1. CASE c # a
    BY <1>5, <2>1 DEF DeliveryInv, FateInv
  <2>2. CASE c = a
    <3>1. /\ fate'[a] # "none"
          /\ pc'[a] = "reported" => fate'[a] = "reported"
          /\ fate'[a] = "lost" => a \in crashed
      BY <1>3, <1>7, <1>8 DEF TypeOK
    <3> QED
      BY <1>1, <1>2, <1>4, <2>2, <3>1
  <2> QED
    BY <2>1, <2>2
<1>10. ResolvedInv'
  <2> SUFFICES ASSUME NEW w \in Waits, status[w] = "resolved"
               PROVE  /\ pc'[To(w)] = "gone"
                      /\ To(w) \notin crashed
                      /\ Parent[To(w)] = Nil \/ fate'[To(w)] = "awaited"
    BY <1>1 DEF ResolvedInv
  <2>1. /\ pc[To(w)] = "gone" /\ To(w) \notin crashed /\ To(w) \in Actors
        /\ Parent[To(w)] = Nil \/ fate[To(w)] = "awaited"
    BY <1>1 DEF DeliveryInv, ResolvedInv, Waits
  <2> QED
    BY <1>1, <1>5, <2>1
<1>11. CallersNotForgotten'
  <2>1. CallersNotForgotten
    BY DEF DeliveryInv
  <2>2. \A b \in Actors : pc[b] \in Executing \cup {"exited"} => pc'[b] \in Executing \cup {"exited"}
    BY <1>1, <1>5 DEF Executing, Handling
  <2>3. \A w \in Waits : status'[w] = "subscribed" =>
          subscriber'[To(w)] = w /\ pc'[To(w)] \in Executing \cup {"exited"}
    BY <1>1, <2>1, <2>2 DEF CallersNotForgotten, Waits
  <2> QED
    BY <1>1, <2>1, <2>3, CallersStep
<1>12. CASE mailbox' = mailbox
  <2>1. PendingInv' /\ \A b \in Actors : Pending(b)' = Pending(b)
    BY <1>1, <1>12, PastPending DEF Past
  <2>2. mailbox' # [mailbox EXCEPT ![p] = Append(mailbox[p], a)]
    <3>1. Len(Append(mailbox[p], a)) # Len(mailbox[p])
      BY <1>2, AppendFacts DEF TypeOK, Message
    <3> QED
      BY <1>2, <1>12, <3>1 DEF TypeOK
  <2>3. RequestInv'
    BY <1>1, <2>1 DEF DeliveryInv, RequestInv
  <2>4. ReportInv'
    <3> SUFFICES ASSUME NEW c \in Actors, Parent[c] \in Actors
                 PROVE  /\ fate'[c] = "reported" => c \in Pending(Parent[c]) \/ Parent[c] \in crashed
                        /\ c \in Pending(Parent[c]) => fate'[c] = "reported"
      BY <1>1, <2>1 DEF ReportInv
    <3>1. CASE fate'[c] = fate[c]
      BY <3>1 DEF DeliveryInv, ReportInv
    <3>2. CASE fate'[c] # fate[c]
      <4>1. c = a /\ fate[a] = "none" /\ fate'[a] \in {"unreachable", "lost"}
        BY <1>3, <1>5, <1>6, <2>2, <3>2 DEF TypeOK
      <4> QED
        BY <4>1 DEF DeliveryInv, ReportInv
    <3> QED
      BY <3>1, <3>2
  <2> QED
    BY <1>9, <1>10, <1>11, <2>1, <2>3, <2>4 DEF DeliveryInv
<1>13. CASE mailbox' # mailbox
  <2>1. /\ mailbox' = [mailbox EXCEPT ![p] = Append(mailbox[p], a)]
        /\ ~closed[p]
        /\ fate'[a] = "reported"
        /\ fate[a] = "none"
    BY <1>3, <1>6, <1>13 DEF TypeOK
  <2>2. a \in Message /\ a \notin Requests
    BY ActorsAssumption DEF Message
  <2>3. a \notin Pending(p)
    BY <1>2, <1>4, <2>1 DEF DeliveryInv, ReportInv
  <2>4. \A b \in Actors :
          /\ Pending(b)' = IF b = p THEN Pending(b) \cup {a} ELSE Pending(b)
          /\ Once(b) => Once(b)'
    BY <1>1, <1>2, <2>1, <2>2, <2>3, PutMessage
  <2>5. \A b \in Actors : pc'[b] = pc[b] \/ (b = a /\ pc[b] \in Past /\ pc'[b] \in Past)
    BY <1>1, <1>5 DEF Past
  <2>6. \A b \in Actors : mailbox'[b] = mailbox[b] \/ (b = p /\ ~closed[b])
    BY <1>2, <2>1 DEF TypeOK
  <2>7. PendingInv'
    <3> SUFFICES ASSUME NEW b \in Actors
                 PROVE  /\ cur'[b] # Nil <=> pc'[b] \in Handling
                        /\ pc'[b] \in Past \cup {"draining", "drainHandling"} => closed'[b]
                        /\ pc'[b] \in Past => mailbox'[b] = <<>>
      BY <2>4 DEF PendingInv, DeliveryInv
    <3>1. pc[b] \in Past => closed[b] /\ mailbox[b] = <<>>
      BY DEF DeliveryInv, PendingInv
    <3>2. cur'[b] # Nil <=> pc'[b] \in Handling
      BY <1>1, <2>5 DEF DeliveryInv, PendingInv, Past, Handling
    <3>3. pc'[b] \in Past \cup {"draining", "drainHandling"} => closed'[b]
      BY <1>1, <2>5, <3>1 DEF DeliveryInv, PendingInv
    <3>4. pc'[b] \in Past => mailbox'[b] = <<>>
      BY <2>5, <2>6, <3>1
    <3> QED
      BY <3>2, <3>3, <3>4
  <2>8. RequestInv'
    BY <1>1, <2>2, <2>4 DEF DeliveryInv, RequestInv
  <2>9. ReportInv'
    <3> SUFFICES ASSUME NEW c \in Actors, Parent[c] \in Actors
                 PROVE  /\ fate'[c] = "reported" => c \in Pending(Parent[c])' \/ Parent[c] \in crashed
                        /\ c \in Pending(Parent[c])' => fate'[c] = "reported"
      BY <1>1 DEF ReportInv
    <3>1. CASE c = a
      BY <1>4, <2>1, <2>4, <3>1
    <3>2. CASE c # a
      BY <1>5, <2>4, <3>2 DEF DeliveryInv, ReportInv
    <3> QED
      BY <3>1, <3>2
  <2> QED
    BY <1>9, <1>10, <1>11, <2>7, <2>8, <2>9 DEF DeliveryInv
<1> QED
  BY <1>12, <1>13

\* DeliveryInv is inductive relative to TypeOK and SupervisionInv.
LEMMA NextDelivery ==
  TypeOK /\ SupervisionInv /\ DeliveryInv /\ [Next]_vars => DeliveryInv'
<1> SUFFICES ASSUME TypeOK, SupervisionInv, DeliveryInv, [Next]_vars PROVE DeliveryInv'
  OBVIOUS
<1>1. CASE UNCHANGED vars
  <2>1. \A b \in Actors : Pending(b)' = Pending(b) /\ (Once(b) => Once(b)')
    BY <1>1, SameMessages DEF vars
  <2>2. PendingInv'
    BY <1>1, <2>1 DEF DeliveryInv, PendingInv, vars
  <2>3. RequestInv' /\ ReportInv'
    BY <1>1, <2>1, ScriptAssumption DEF DeliveryInv, RequestInv, ReportInv, vars
  <2>4. FateInv' /\ ResolvedInv' /\ CallersNotForgotten'
    BY <1>1 DEF DeliveryInv, FateInv, ResolvedInv, CallersNotForgotten, vars
  <2> QED
    BY <2>2, <2>3, <2>4 DEF DeliveryInv
<1>2. ASSUME NEW a \in Actors, ActorStep(a) PROVE DeliveryInv'
  <2>1. CASE SupervisorDied(a)
    BY <2>1, UnwindDelivery DEF SupervisorDied, Executing
  <2> QED
    BY <1>2, <2>1, ReceiveDelivery, ProcessMessageDelivery, ShutdownDelivery,
       ExitDelivery,
       ReportDelivery DEF ActorStep, Supervise
<1> QED
  BY <1>1, <1>2, CallerDelivery DEF Next

\* Every message is in one place and every request, report and wait is
\* accounted for, in every reachable state.
THEOREM DeliveryHolds == Spec => []DeliveryInv
BY InitDelivery, NextDelivery, TypeCorrect, InvariantHolds, PTL DEF Spec

\* What was in the mailbox when stop() emptied it, and what was sent before,
\* has been handled when the actor ends.
THEOREM DrainedBeforeExitHolds == Spec => []DrainedBeforeExit
<1>1. TypeOK /\ DeliveryInv => DrainedBeforeExit
  <2> SUFFICES ASSUME TypeOK, DeliveryInv, NEW a \in Actors, StoppedCleanly(a)
               PROVE  /\ mailbox[a] = <<>>
                      /\ \A r \in Requests : To(r) = a => status[r] # "queued"
    BY DEF DrainedBeforeExit
  <2>1. mailbox[a] = <<>> /\ cur[a] = Nil
    BY DEF StoppedCleanly, DeliveryInv, PendingInv, Past, Handling
  <2>2. Pending(a) = {}
    BY <2>1, ActorsAssumption DEF Pending
  <2> QED
    BY <2>1, <2>2 DEF DeliveryInv, RequestInv
<1> QED
  BY <1>1, TypeCorrect, DeliveryHolds, PTL

\* A supervisor that stopped without aborting has handled the death of every
\* child that stopped, or the child was given to a caller awaiting it.
THEOREM CleanDeathHandledHolds == Spec => []CleanDeathHandled
<1>1. TypeOK /\ SupervisionInv /\ ChildrenDieFirst /\ DeliveryInv => CleanDeathHandled
  <2> SUFFICES ASSUME TypeOK, SupervisionInv, ChildrenDieFirst, DeliveryInv,
                      NEW a \in Actors, NEW c \in Actors, Parent[c] = a,
                      StoppedCleanly(a), a \notin aborted, StoppedCleanly(c)
               PROVE  fate[c] \in {"handled", "awaited"}
    BY DEF CleanDeathHandled
  <2>1. pc[c] = "gone" /\ c \notin crashed /\ a \notin crashed
    BY DEF ChildrenDieFirst, StoppedCleanly
  <2>2. a # Nil
    BY ActorsAssumption DEF Message
  <2>3. fate[c] \notin {"none", "lost"}
    BY <2>1, <2>2 DEF DeliveryInv, FateInv
  <2>4. fate[c] # "unreachable"
    BY <2>1 DEF SupervisionInv, CleanDeathDelivered
  <2>5. mailbox[a] = <<>> /\ cur[a] = Nil
    BY DEF StoppedCleanly, DeliveryInv, PendingInv, Past, Handling
  <2>6. Pending(a) = {}
    BY <2>5, ActorsAssumption DEF Pending
  <2>7. fate[c] # "reported"
    BY <2>1, <2>6 DEF DeliveryInv, ReportInv
  <2> QED
    BY <2>3, <2>4, <2>7 DEF TypeOK, Fates
<1> QED
  BY <1>1, TypeCorrect, InvariantHolds, ChildrenDieFirstHolds, DeliveryHolds, PTL

\* A caller waiting for an actor is its subscriber until it is answered; it is
\* told of a panic only after one, or when another subscriber replaced it.
THEOREM CallersNotForgottenHolds == Spec => []CallersNotForgotten
<1>1. DeliveryInv => CallersNotForgotten
  BY DEF DeliveryInv
<1> QED
  BY <1>1, DeliveryHolds, PTL
=============================================================================
