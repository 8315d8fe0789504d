-------------------------- MODULE ReferenceProofs --------------------------
(***************************************************************************)
(* Relay implements TypedReference, for any relays, script and bounds.     *)
(* The invariant of RelayProofs says that calls are not lost; here each    *)
(* call is located, and the calls of one reference are shown to keep their *)
(* order through the channel, the relay and the mailbox.                   *)
(***************************************************************************)
EXTENDS RelayProofs

\* The relay behind the reference of c, once the tuple is flattened.
Home(c) == Relays[Script[c].ref]

\* The actor is past its run loop, or will never have one.
Ending == pc \notin {"building", "running", "handling"}

\* The nested tuple holds the relays made so far, the last one outermost.
SendersInv ==
  /\ Len(senders) <= Len(Relays)
  /\ \A i \in 1..Len(senders) : senders[i] = Relays[Len(senders) + 1 - i]
  /\ Built => Len(senders) = Len(Relays)

\* A relay leaves an actor that is not ending only when nobody can call it any
\* more and its channel is empty.
EndingInv ==
  /\ closed \/ shutdown \/ aborted => Ending
  /\ \A r \in RelaySet : relay[r] \in {"leaving", "gone", "crashed"} =>
       Ending \/ (r \notin refs /\ channel[r] = <<>>)
  /\ \A c \in Calls : status[c] = "reserved" => Home(c) \in refs

\* c is in the sequence q; nothing is twice in it; c is in it before d.
In(q, c) == \E i \in 1..Len(q) : q[i] = c
Distinct(q) == \A i, j \in 1..Len(q) : q[i] = q[j] => i = j
Before(q, c, d) == \E i, j \in 1..Len(q) : i < j /\ q[i] = c /\ q[j] = d

\* A call is where its status says, and only there: in the channel of its
\* reference, in the hands of its relay, or with the actor.
ChannelInv ==
  \A r \in RelaySet :
    /\ Distinct(channel[r])
    /\ \A c \in Calls : In(channel[r], c) <=> status[c] = "accepted" /\ Home(c) = r

HeldInv ==
  \A r \in RelaySet : relay[r] \in {"holding", "reserved"} =>
    held[r] \in Calls /\ status[held[r]] = "taken" /\ Home(held[r]) = r

MailboxInv ==
  /\ Distinct(mailbox)
  /\ \A c \in Calls : /\ In(mailbox, c) \/ cur = c <=> status[c] = "forwarded"
                      /\ ~(In(mailbox, c) /\ cur = c)

\* c is ahead of d on the way from the reference of r to the handler.
Ahead(r, c, d) ==
  \/ status[c] = "forwarded" /\ status[d] \in {"taken", "accepted"}
  \/ status[c] = "taken" /\ status[d] = "accepted"
  \/ /\ status[c] = "forwarded" /\ status[d] = "forwarded"
     /\ d # cur /\ (c = cur \/ Before(mailbox, c, d))
  \/ status[c] = "accepted" /\ status[d] = "accepted" /\ Before(channel[r], c, d)

\* Calls accepted through one reference and not finished keep their order.
OrderInv ==
  \A r \in RelaySet :
    /\ \A i \in 1..Len(order[r]) :
         status[order[r][i]] \notin {"unsent", "reserved"} /\ Home(order[r][i]) = r
    /\ \A i, j \in 1..Len(order[r]) :
         i < j /\ status[order[r][i]] \in Pending /\ status[order[r][j]] \in Pending
           => Ahead(r, order[r][i], order[r][j])

PlaceInv == ChannelInv /\ HeldInv /\ MailboxInv /\ OrderInv

ReferenceInv == SendersInv /\ EndingInv /\ PlaceInv

-----------------------------------------------------------------------------
(* The references and their relays.                                        *)

\* The reference a call uses, and the relay behind it, exist.
LEMMA HomeFacts ==
  ASSUME NEW c \in Calls
  PROVE  /\ Script[c].ref \in 1..Len(Relays) /\ Len(Relays) \in Nat
         /\ DOMAIN Relays = 1..Len(Relays)
         /\ Home(c) \in RelaySet
BY RelaysAssumption, ScriptAssumption DEF Home, RelaySet

\* Different references have different relays.
LEMMA OneRelayEach ==
  ASSUME NEW c \in Calls, NEW i \in DOMAIN Relays, Relays[i] = Home(c)
  PROVE  i = Script[c].ref
BY RelaysAssumption, ScriptAssumption DEF Home

\* Tuple::flatten gives the users the references in the order they were made.
LEMMA ViaIsHome ==
  ASSUME TypeOK, SendersInv, Built, NEW c \in Calls
  PROVE  Via(c) = Home(c)
<1> DEFINE s == senders
           n == Len(s)
           k == Script[c].ref
<1>1. s \in Seq(RelaySet) /\ n \in Nat /\ DOMAIN s = 1..n
  BY DEF TypeOK
<1>2. k \in 1..n /\ n = Len(Relays)
  BY HomeFacts DEF SendersInv
<1>3. n + 1 - k \in 1..n /\ n + 1 - (n + 1 - k) = k
  BY <1>1, <1>2
<1>4. s[n + 1 - k] = Relays[n + 1 - (n + 1 - k)]
  BY <1>3 DEF SendersInv
<1>5. Flatten(s)[k] = s[n + 1 - k]
  BY <1>1, <1>2 DEF Flatten
<1> QED
  BY <1>3, <1>4, <1>5 DEF Via, Home

\* CtxBuilder adds its references from the innermost to the outermost, all of
\* them before it runs.
LEMMA NextSenders == IInv /\ SendersInv /\ [Next]_vars => SendersInv'
<1> SUFFICES ASSUME IInv, SendersInv, [Next]_vars PROVE SendersInv'
  OBVIOUS
<1> USE DEF SendersInv, Built, Handling, actor, built, relays
<1>1. CASE UNCHANGED vars
  BY <1>1 DEF vars
<1>2. CASE AddReference
  <2> DEFINE s == senders
             n == Len(s)
             r == Relays[n + 1]
  <2>1. s \in Seq(RelaySet) /\ n \in Nat /\ Len(Relays) \in Nat /\ n + 1 <= Len(Relays)
    BY <1>2, RelaysAssumption DEF AddReference, IInv, TypeOK
  <2>2. r \in RelaySet /\ senders' = <<r>> \o s /\ pc' = "building"
    BY <1>2, <2>1, RelaysAssumption DEF AddReference, RelaySet
  <2>3. /\ Len(<<r>> \o s) = n + 1 /\ (<<r>> \o s)[1] = r
        /\ \A i \in 2..n + 1 : (<<r>> \o s)[i] = s[i - 1]
    BY <2>1, <2>2
  <2>4. \A i \in 1..n : s[i] = Relays[n + 1 - i]
    OBVIOUS
  <2> HIDE DEF s, n
  <2>5. \A i \in 1..n + 1 : senders'[i] = Relays[n + 1 + 1 - i]
    <3> SUFFICES ASSUME NEW i \in 1..n + 1 PROVE senders'[i] = Relays[n + 1 + 1 - i]
      OBVIOUS
    <3>1. CASE i = 1
      BY <2>1, <2>2, <2>3, <3>1
    <3>2. CASE i # 1
      <4>1. i \in 2..n + 1 /\ i - 1 \in 1..n /\ n + 1 - (i - 1) = n + 1 + 1 - i
        BY <2>1, <3>2
      <4> QED
        BY <2>2, <2>3, <2>4, <4>1
    <3> QED
      BY <3>1, <3>2
  <2> QED
    BY <2>1, <2>2, <2>3, <2>5
<1>3. CASE RunBuilder
  BY <1>3 DEF RunBuilder
<1>4. CASE DropBuilder
  BY <1>4 DEF DropBuilder
<1>5. CASE SupervisorSpeaks
  BY <1>5 DEF SupervisorSpeaks, Crash
<1>6. CASE Receive
  BY <1>6 DEF Receive
<1>7. CASE HandleNormal
  BY <1>7 DEF HandleNormal, Serves, Return
<1>8. CASE HandleStop
  BY <1>8 DEF HandleStop, Serves, Return
<1>9. CASE HandleAbort
  BY <1>9 DEF HandleAbort, Serves, Return
<1>10. CASE HandlePanic
  BY <1>10 DEF HandlePanic, Serves, Crash
<1>11. CASE BeginShutdown
  BY <1>11 DEF BeginShutdown, NoRelays
<1>12. CASE StoppingMailboxClosed
  BY <1>12 DEF StoppingMailboxClosed
<1>13. CASE StoppingTimeout
  BY <1>13 DEF StoppingTimeout, Crash
<1>14. CASE CheckRelays
  BY <1>14 DEF CheckRelays, NoRelays
<1>15. CASE End
  BY <1>15 DEF End
<1>16. ASSUME NEW c \in Calls, Reserve(c) PROVE SendersInv'
  BY <1>16 DEF Reserve
<1>17. ASSUME NEW c \in Calls, Push(c) PROVE SendersInv'
  BY <1>17 DEF Push
<1>18. ASSUME NEW c \in Calls, Refuse(c) PROVE SendersInv'
  BY <1>18 DEF Refuse
<1>19. ASSUME NEW r \in RelaySet, Take(r) PROVE SendersInv'
  BY <1>19 DEF Take
<1>20. ASSUME NEW r \in RelaySet, Forward(r) PROVE SendersInv'
  BY <1>20 DEF Forward
<1>21. ASSUME NEW r \in RelaySet, ForwardPush(r) PROVE SendersInv'
  BY <1>21 DEF ForwardPush
<1>22. ASSUME NEW r \in RelaySet, ForwardClosed(r) PROVE SendersInv'
  BY <1>22 DEF ForwardClosed
<1>23. ASSUME NEW r \in RelaySet, RelayAnswer(r) PROVE SendersInv'
  BY <1>23 DEF RelayAnswer
<1>24. ASSUME NEW r \in RelaySet, RelayShutdown(r) PROVE SendersInv'
  BY <1>24 DEF RelayShutdown, Leave
<1>25. ASSUME NEW r \in RelaySet, RelayUnused(r) PROVE SendersInv'
  BY <1>25 DEF RelayUnused, Leave
<1>26. ASSUME NEW r \in RelaySet, RelayOrphaned(r) PROVE SendersInv'
  BY <1>26 DEF RelayOrphaned, CloseChannel
<1>27. ASSUME NEW r \in RelaySet, RelayReturn(r) PROVE SendersInv'
  BY <1>27 DEF RelayReturn, CloseChannel
<1>28. ASSUME NEW r \in RelaySet, DropReference(r) PROVE SendersInv'
  BY <1>28 DEF DropReference
<1> QED
  BY <1>1, <1>2, <1>3, <1>4, <1>5, <1>6, <1>7, <1>8, <1>9, <1>10, <1>11, <1>12, <1>13,
     <1>14, <1>15, <1>16, <1>17, <1>18, <1>19, <1>20, <1>21, <1>22, <1>23, <1>24,
     <1>25, <1>26, <1>27, <1>28
      DEF Next, BuilderStep, ActorStep, CallerStep, RelayStep

\* A relay leaves because its actor is ending, or because nobody is left to call
\* it.
LEMMA NextEnding == IInv /\ SendersInv /\ EndingInv /\ [Next]_vars => EndingInv'
<1> SUFFICES ASSUME IInv, SendersInv, EndingInv, [Next]_vars PROVE EndingInv'
  OBVIOUS
<1>a. Built => \A c \in Calls : Via(c) = Home(c)
  BY ViaIsHome DEF IInv
<1>b. \A c \in Calls : status[c] # "unsent" => Built
  BY DEF IInv, UnbuiltInv
<1>c. TypeOK /\ RelayInv
  BY DEF IInv
<1> USE <1>a, <1>b, <1>c, HomeFacts
    DEF EndingInv, Ending, TypeOK, RelayInv, Statuses, Pending, Lost, Handling,
        actor, built, relays
<1>1. CASE UNCHANGED vars
  BY <1>1 DEF vars
<1>2. CASE AddReference
  BY <1>2, RelaysAssumption DEF AddReference
<1>3. CASE RunBuilder
  BY <1>3 DEF RunBuilder
<1>4. CASE DropBuilder
  BY <1>4 DEF DropBuilder, Built
<1>5. CASE SupervisorSpeaks
  BY <1>5 DEF SupervisorSpeaks, Crash
<1>6. CASE Receive
  BY <1>6 DEF Receive
<1>7. CASE HandleNormal
  BY <1>7 DEF HandleNormal, Serves, Return
<1>8. CASE HandleStop
  BY <1>8 DEF HandleStop, Serves, Return
<1>9. CASE HandleAbort
  BY <1>9 DEF HandleAbort, Serves, Return
<1>10. CASE HandlePanic
  BY <1>10 DEF HandlePanic, Serves, Crash
<1>11. CASE BeginShutdown
  BY <1>11 DEF BeginShutdown, NoRelays
<1>12. CASE StoppingMailboxClosed
  BY <1>12 DEF StoppingMailboxClosed
<1>13. CASE StoppingTimeout
  BY <1>13 DEF StoppingTimeout, Crash
<1>14. CASE CheckRelays
  BY <1>14 DEF CheckRelays, NoRelays
<1>15. CASE End
  BY <1>15 DEF End
<1>16. ASSUME NEW c \in Calls, Reserve(c) PROVE EndingInv'
  BY <1>16 DEF Reserve
<1>17. ASSUME NEW c \in Calls, Push(c) PROVE EndingInv'
  BY <1>17 DEF Push
<1>18. ASSUME NEW c \in Calls, Refuse(c) PROVE EndingInv'
  BY <1>18 DEF Refuse
<1>19. ASSUME NEW r \in RelaySet, Take(r) PROVE EndingInv'
  BY <1>19 DEF Take
<1>20. ASSUME NEW r \in RelaySet, Forward(r) PROVE EndingInv'
  BY <1>20 DEF Forward
<1>21. ASSUME NEW r \in RelaySet, ForwardPush(r) PROVE EndingInv'
  BY <1>21, SMTT(20) DEF ForwardPush
<1>22. ASSUME NEW r \in RelaySet, ForwardClosed(r) PROVE EndingInv'
  <2>1. Ending /\ Ending' /\ UNCHANGED <<closed, shutdown, aborted, refs>>
    BY <1>22 DEF ForwardClosed
  <2>2. \A c \in Calls : status'[c] = "reserved" => status[c] = "reserved"
    <3>1. CASE Kind[r] = "sender"
      BY <1>22, <3>1 DEF ForwardClosed
    <3>2. CASE Kind[r] # "sender"
      <4>1. status' = [d \in Calls |->
                         IF d = held[r] THEN "dropped"
                         ELSE IF status[d] = "accepted" /\ Via(d) = r THEN "discarded"
                         ELSE status[d]]
        BY <1>22, <3>2 DEF ForwardClosed
      <4> QED
        BY <4>1
    <3> QED
      BY <3>1, <3>2
  <2> QED
    BY <2>1, <2>2
<1>23. ASSUME NEW r \in RelaySet, RelayAnswer(r) PROVE EndingInv'
  BY <1>23 DEF RelayAnswer
<1>24. ASSUME NEW r \in RelaySet, RelayShutdown(r) PROVE EndingInv'
  BY <1>24 DEF RelayShutdown, Leave
<1>25. ASSUME NEW r \in RelaySet, RelayUnused(r) PROVE EndingInv'
  BY <1>25 DEF RelayUnused, Leave
<1>26. ASSUME NEW r \in RelaySet, RelayOrphaned(r) PROVE EndingInv'
  BY <1>26 DEF RelayOrphaned, CloseChannel, NotifierDropped
<1>27. ASSUME NEW r \in RelaySet, RelayReturn(r) PROVE EndingInv'
  BY <1>27 DEF RelayReturn, CloseChannel
<1>28. ASSUME NEW r \in RelaySet, DropReference(r) PROVE EndingInv'
  BY <1>28 DEF DropReference
<1> QED
  BY <1>1, <1>2, <1>3, <1>4, <1>5, <1>6, <1>7, <1>8, <1>9, <1>10, <1>11, <1>12, <1>13,
     <1>14, <1>15, <1>16, <1>17, <1>18, <1>19, <1>20, <1>21, <1>22, <1>23, <1>24,
     <1>25, <1>26, <1>27, <1>28
      DEF Next, BuilderStep, ActorStep, CallerStep, RelayStep

-----------------------------------------------------------------------------
(* Where a call is.                                                        *)

\* A step that moves no call.
Quiet ==
  /\ UNCHANGED <<mailbox, cur, channel, held, status, order>>
  /\ \A r \in RelaySet : relay'[r] \in {"holding", "reserved"}
                           => relay[r] \in {"holding", "reserved"}

\* A relay ends and its channel is dropped.
Drops(r) ==
  /\ relay[r] = "leaving" \/ (relay[r] = "idle" /\ NotifierDropped)
  /\ \/ relay' = [relay EXCEPT ![r] = "gone"]
     \/ relay' = [relay EXCEPT ![r] = "crashed"]
  /\ CloseChannel(r)

\* The steps, by what they do with calls.
LEMMA Steps ==
  ASSUME IInv, [Next]_vars
  PROVE  \/ Quiet
         \/ \E c \in Calls : Reserve(c) \/ Push(c) \/ Refuse(c)
         \/ \E r \in RelaySet : \/ Take(r) \/ ForwardPush(r) \/ ForwardClosed(r)
                                \/ RelayAnswer(r) \/ Drops(r)
         \/ Receive
         \/ \E b \in BOOLEAN : pc \in Handling /\ Return(b)
         \/ Crash
<1> USE DEF IInv, TypeOK, actor, built, relays
<1>1. CASE UNCHANGED vars
  BY <1>1 DEF Quiet, vars
<1>2. CASE AddReference
  BY <1>2 DEF Quiet, AddReference
<1>3. CASE RunBuilder
  BY <1>3 DEF Quiet, RunBuilder
<1>4. CASE DropBuilder
  BY <1>4 DEF Quiet, DropBuilder
<1>5. CASE SupervisorSpeaks
  BY <1>5 DEF Quiet, SupervisorSpeaks
<1>6. CASE Receive
  BY <1>6
<1>7. CASE HandleNormal
  BY <1>7 DEF HandleNormal, Serves
<1>8. CASE HandleStop
  BY <1>8 DEF HandleStop, Serves
<1>9. CASE HandleAbort
  BY <1>9 DEF HandleAbort, Serves
<1>10. CASE HandlePanic
  BY <1>10 DEF HandlePanic
<1>11. CASE BeginShutdown
  BY <1>11 DEF Quiet, BeginShutdown, NoRelays
<1>12. CASE StoppingMailboxClosed
  BY <1>12 DEF Quiet, StoppingMailboxClosed
<1>13. CASE StoppingTimeout
  BY <1>13 DEF StoppingTimeout, Quiet
<1>14. CASE CheckRelays
  BY <1>14 DEF Quiet, CheckRelays, NoRelays
<1>15. CASE End
  BY <1>15 DEF Quiet, End
<1>16. CASE \E c \in Calls : Reserve(c)
  BY <1>16
<1>17. CASE \E c \in Calls : Push(c)
  BY <1>17
<1>18. CASE \E c \in Calls : Refuse(c)
  BY <1>18
<1>19. CASE \E r \in RelaySet : Take(r)
  BY <1>19
<1>20. CASE \E r \in RelaySet : Forward(r)
  BY <1>20 DEF Quiet, Forward
<1>21. CASE \E r \in RelaySet : ForwardPush(r)
  BY <1>21
<1>22. CASE \E r \in RelaySet : ForwardClosed(r)
  BY <1>22
<1>23. CASE \E r \in RelaySet : RelayAnswer(r)
  BY <1>23
<1>24. CASE \E r \in RelaySet : RelayShutdown(r)
  BY <1>24 DEF Quiet, RelayShutdown, Leave
<1>25. CASE \E r \in RelaySet : RelayUnused(r)
  BY <1>25 DEF Quiet, RelayUnused, Leave
<1>26. CASE \E r \in RelaySet : RelayOrphaned(r)
  BY <1>26 DEF RelayOrphaned, Drops
<1>27. CASE \E r \in RelaySet : RelayReturn(r)
  BY <1>27 DEF RelayReturn, Drops
<1>28. CASE \E r \in RelaySet : DropReference(r)
  BY <1>28 DEF Quiet, DropReference
<1> QED
  BY <1>1, <1>2, <1>3, <1>4, <1>5, <1>6, <1>7, <1>8, <1>9, <1>10, <1>11, <1>12, <1>13,
     <1>14, <1>15, <1>16, <1>17, <1>18, <1>19, <1>20, <1>21, <1>22, <1>23, <1>24,
     <1>25, <1>26, <1>27, <1>28
      DEF Next, BuilderStep, ActorStep, CallerStep, RelayStep

\* Nothing is in the empty sequence.
LEMMA EmptySequence == Distinct(<<>>) /\ \A c : ~In(<<>>, c)
BY DEF Distinct, In

\* Taking the first element of a sequence without repetition.
LEMMA TakeFirst ==
  ASSUME NEW S, NEW q \in Seq(S), q # <<>>, Distinct(q)
  PROVE  /\ Distinct(Tail(q))
         /\ In(q, Head(q))
         /\ \A c : In(Tail(q), c) <=> In(q, c) /\ c # Head(q)
         /\ \A c, d : Before(q, c, d) =>
              d # Head(q) /\ (c = Head(q) \/ Before(Tail(q), c, d))
<1> DEFINE h == Head(q)
           t == Tail(q)
<1>1. /\ Len(q) \in Nat \ {0} /\ Len(t) = Len(q) - 1 /\ h = q[1]
      /\ \A i \in 1..Len(q) - 1 : t[i] = q[i + 1]
  OBVIOUS
<1> HIDE DEF h, t
<1>2. \A i \in 1..Len(t) : i + 1 \in 1..Len(q) /\ t[i] = q[i + 1] /\ i \in Nat
  BY <1>1
<1>3. \A i \in 1..Len(q) : i \in Nat /\ (i # 1 => i - 1 \in 1..Len(t) /\ t[i - 1] = q[i])
  BY <1>1
<1>4. 1 \in 1..Len(q)
  BY <1>1
<1>5. Distinct(t)
  <2> SUFFICES ASSUME NEW i \in 1..Len(t), NEW j \in 1..Len(t), t[i] = t[j] PROVE i = j
    BY DEF Distinct
  <2>1. i + 1 = j + 1
    BY <1>2 DEF Distinct
  <2> QED
    BY <1>2, <2>1
<1>6. In(q, h)
  BY <1>1, <1>4 DEF In
<1>7. ASSUME NEW c, In(t, c) PROVE In(q, c) /\ c # h
  <2>1. PICK i \in 1..Len(t) : t[i] = c
    BY <1>7 DEF In
  <2>2. i + 1 \in 1..Len(q) /\ q[i + 1] = c /\ i + 1 # 1
    BY <1>2, <2>1
  <2> QED
    BY <1>1, <1>4, <2>2 DEF In, Distinct
<1>8. ASSUME NEW c, In(q, c), c # h PROVE In(t, c)
  <2>1. PICK i \in 1..Len(q) : q[i] = c
    BY <1>8 DEF In
  <2>2. i # 1
    BY <1>1, <1>8, <2>1
  <2> QED
    BY <1>3, <2>1, <2>2 DEF In
<1>9. ASSUME NEW c, NEW d, Before(q, c, d) PROVE d # h /\ (c = h \/ Before(t, c, d))
  <2>1. PICK i \in 1..Len(q), j \in 1..Len(q) : i < j /\ q[i] = c /\ q[j] = d
    BY <1>9 DEF Before
  <2>2. j # 1
    BY <1>1, <2>1
  <2>3. d # h
    BY <1>1, <1>4, <2>1, <2>2 DEF Distinct
  <2>4. ASSUME i # 1 PROVE Before(t, c, d)
    <3>1. i - 1 < j - 1 /\ i - 1 \in 1..Len(t) /\ j - 1 \in 1..Len(t)
      BY <1>3, <2>1, <2>2, <2>4
    <3>2. t[i - 1] = c /\ t[j - 1] = d
      BY <1>3, <2>1, <2>2, <2>4
    <3> QED
      BY <3>1, <3>2 DEF Before
  <2> QED
    BY <1>1, <2>1, <2>3, <2>4
<1> QED
  BY <1>5, <1>6, <1>7, <1>8, <1>9 DEF h, t

\* Adding an element that is not there yet.
LEMMA AddLast ==
  ASSUME NEW S, NEW q \in Seq(S), NEW e \in S, ~In(q, e)
  PROVE  /\ Distinct(q) => Distinct(Append(q, e))
         /\ \A c : In(Append(q, e), c) <=> In(q, c) \/ c = e
         /\ \A c, d : Before(q, c, d) => Before(Append(q, e), c, d)
         /\ \A c : In(q, c) => Before(Append(q, e), c, e)
<1> DEFINE t == Append(q, e)
           n == Len(q) + 1
<1>1. /\ Len(q) \in Nat /\ Len(t) = n /\ t[n] = e
      /\ \A i \in 1..Len(q) : t[i] = q[i] /\ i < n /\ i \in 1..n
      /\ n \in 1..n /\ \A i \in 1..n : i = n \/ i \in 1..Len(q)
  BY AppendFacts
<1> HIDE DEF t, n
<1>2. ASSUME Distinct(q) PROVE Distinct(t)
  BY <1>1, <1>2 DEF Distinct, In
<1>3. \A c : In(t, c) <=> In(q, c) \/ c = e
  BY <1>1 DEF In
<1>4. \A c, d : Before(q, c, d) => Before(t, c, d)
  BY <1>1 DEF Before
<1>5. \A c : In(q, c) => Before(t, c, e)
  BY <1>1 DEF In, Before
<1> QED
  BY <1>2, <1>3, <1>4, <1>5 DEF t

-----------------------------------------------------------------------------
(* Every step leaves the calls where their statuses say, and in order.     *)

\* No step but Push adds to the order; what is left to show of the others is
\* that calls do not overtake each other.
LEMMA OrderKeeps ==
  ASSUME TypeOK, OrderInv, UNCHANGED order,
         \A c \in Calls : status'[c] \in Pending => status[c] \in Pending,
         \A c \in Calls : status[c] \notin {"unsent", "reserved"}
                            => status'[c] \notin {"unsent", "reserved"},
         \A r \in RelaySet : \A c, d \in Calls :
           /\ status'[c] \in Pending /\ status'[d] \in Pending
           /\ Home(c) = r /\ Home(d) = r /\ Ahead(r, c, d)
           => Ahead(r, c, d)'
  PROVE  OrderInv'
<1> SUFFICES ASSUME NEW r \in RelaySet
             PROVE  /\ \A i \in 1..Len(order[r]) :
                         /\ status'[order[r][i]] \notin {"unsent", "reserved"}
                         /\ Home(order[r][i]) = r
                    /\ \A i, j \in 1..Len(order[r]) :
                         /\ i < j
                         /\ status'[order[r][i]] \in Pending
                         /\ status'[order[r][j]] \in Pending
                         => Ahead(r, order[r][i], order[r][j])'
  BY DEF OrderInv, Pending, Home
<1>1. \A i \in 1..Len(order[r]) : order[r][i] \in Calls
  BY DEF TypeOK
<1>2. \A i \in 1..Len(order[r]) : /\ status'[order[r][i]] \notin {"unsent", "reserved"}
                                   /\ Home(order[r][i]) = r
  BY <1>1 DEF OrderInv
<1>3. ASSUME NEW i \in 1..Len(order[r]), NEW j \in 1..Len(order[r]), i < j,
             status'[order[r][i]] \in Pending, status'[order[r][j]] \in Pending
      PROVE  Ahead(r, order[r][i], order[r][j])'
  <2>1. Ahead(r, order[r][i], order[r][j])
    BY <1>1, <1>3 DEF OrderInv
  <2>2. PICK c \in Calls, d \in Calls : c = order[r][i] /\ d = order[r][j]
    BY <1>1
  <2>3. Ahead(r, c, d)'
    BY <1>2, <1>3, <2>1, <2>2
  <2> QED
    BY <2>2, <2>3 DEF Ahead
<1> QED
  BY <1>2, <1>3

\* A step that moves no call and makes none pending.
LEMMA StatusFrame ==
  ASSUME TypeOK, PlaceInv, UNCHANGED <<mailbox, cur, channel, order>>,
         \A c \in Calls : status'[c] = status[c]
                            \/ (status[c] \notin Pending /\ status'[c] \notin Pending),
         \A c \in Calls : status[c] \notin {"unsent", "reserved"}
                            => status'[c] \notin {"unsent", "reserved"},
         \A r \in RelaySet : relay'[r] \in {"holding", "reserved"}
                               => relay[r] \in {"holding", "reserved"} /\ held'[r] = held[r]
  PROVE  PlaceInv'
<1> USE DEF PlaceInv, Pending
<1>1. ChannelInv'
  BY DEF ChannelInv, Home
<1>2. HeldInv'
  BY DEF HeldInv, Home
<1>3. MailboxInv'
  BY DEF MailboxInv
<1>4. ASSUME NEW r \in RelaySet, NEW c \in Calls, NEW d \in Calls,
             status'[c] \in Pending, status'[d] \in Pending, Ahead(r, c, d)
      PROVE  Ahead(r, c, d)'
  BY <1>4 DEF Ahead
<1>5. OrderInv'
  BY <1>4, OrderKeeps
<1> QED
  BY <1>1, <1>2, <1>3, <1>5

\* Reserve, Refuse and RelayAnswer move no call; nor do most other steps.
LEMMA FramePlaces ==
  ASSUME IInv, PlaceInv,
         \/ Quiet
         \/ \E c \in Calls : Reserve(c) \/ Refuse(c)
         \/ \E r \in RelaySet : RelayAnswer(r)
  PROVE  PlaceInv'
<1>0. TypeOK /\ RelayInv
  BY DEF IInv
<1>1. CASE Quiet
  <2>1. /\ UNCHANGED <<mailbox, cur, channel, order, status>>
        /\ \A q \in RelaySet : relay'[q] \in {"holding", "reserved"}
                               => relay[q] \in {"holding", "reserved"} /\ held'[q] = held[q]
    BY <1>1 DEF Quiet
  <2> QED
    BY <1>0, <2>1, StatusFrame
<1>2. ASSUME NEW c \in Calls, Reserve(c) \/ Refuse(c) PROVE PlaceInv'
  <2>1. UNCHANGED <<mailbox, cur, channel, order, relay, held>>
    BY <1>2 DEF Reserve, Refuse, actor, relays
  <2>2. \A d \in Calls : status'[d] = status[d]
          \/ (status[d] = "unsent" /\ status'[d] \in {"reserved", "full", "closed"})
    BY <1>0, <1>2 DEF Reserve, Refuse, TypeOK
  <2> QED
    BY <1>0, <2>1, <2>2, StatusFrame DEF Pending
<1>3. ASSUME NEW r \in RelaySet, RelayAnswer(r) PROVE PlaceInv'
  <2>1. held[r] \in Calls /\ UNCHANGED <<mailbox, cur, channel, order>>
    BY <1>0, <1>3 DEF RelayAnswer, RelayInv, TypeOK, actor
  <2>2. \A c \in Calls : status'[c] = status[c]
          \/ (status[c] \in {"answered", "unanswered"} /\ status'[c] \in {"replied", "dropped"})
    <3>1. status' = [status EXCEPT ![held[r]] = IF status[held[r]] = "answered" THEN "replied"
                                                ELSE "dropped"]
      BY <1>3 DEF RelayAnswer
    <3>2. status[held[r]] \in {"answered", "unanswered"}
      BY <1>3 DEF RelayAnswer
    <3>3. DOMAIN status = Calls
      BY <1>0 DEF TypeOK
    <3> QED
      BY <3>1, <3>2, <3>3
  <2>3. \A q \in RelaySet : relay'[q] \in {"holding", "reserved"}
                               => relay[q] \in {"holding", "reserved"} /\ held'[q] = held[q]
    BY <1>0, <1>3 DEF RelayAnswer, TypeOK
  <2> QED
    BY <1>0, <2>1, <2>2, <2>3, StatusFrame DEF Pending
<1> QED
  BY <1>1, <1>2, <1>3

\* A reference accepts a call: it is the last of its channel.
LEMMA PushPlaces ==
  ASSUME IInv, ReferenceInv, NEW c \in Calls, Push(c)
  PROVE  PlaceInv'
<1> DEFINE h == Home(c)
<1>1. TypeOK /\ PlaceInv /\ Via(c) = h /\ h \in RelaySet /\ status[c] = "reserved"
  BY ViaIsHome, HomeFacts DEF IInv, UnbuiltInv, ReferenceInv, Push
<1>2. CASE ChannelClosed(h)
  <2>1. UNCHANGED <<mailbox, cur, channel, order, relay, held>>
    BY <1>1, <1>2 DEF Push, actor, relays
  <2>2. \A d \in Calls : status'[d] = status[d]
          \/ (status[d] = "reserved" /\ status'[d] = "late")
    BY <1>1, <1>2 DEF Push, TypeOK
  <2> QED
    BY <1>1, <2>1, <2>2, StatusFrame DEF Pending
<1>3. CASE ~ChannelClosed(h)
  <2>1. /\ UNCHANGED <<mailbox, cur, relay, held>>
        /\ status' = [status EXCEPT ![c] = "accepted"]
        /\ channel' = [channel EXCEPT ![h] = Append(channel[h], c)]
        /\ order' = [order EXCEPT ![h] = Append(order[h], c)]
    BY <1>1, <1>3 DEF Push, actor
  <2>2. /\ status'[c] = "accepted" /\ status[c] = "reserved"
        /\ \A d \in Calls : d # c => status'[d] = status[d]
        /\ channel'[h] = Append(channel[h], c)
        /\ order'[h] = Append(order[h], c)
        /\ \A r \in RelaySet : r # h => channel'[r] = channel[r] /\ order'[r] = order[r]
    BY <1>1, <2>1 DEF TypeOK
  <2>3. channel[h] \in Seq(Calls) /\ ~In(channel[h], c)
    BY <1>1 DEF TypeOK, PlaceInv, ChannelInv
  <2> DEFINE t == Append(channel[h], c)
  <2>4. /\ Distinct(t)
        /\ \A d : In(t, d) <=> In(channel[h], d) \/ d = c
        /\ \A d, e : Before(channel[h], d, e) => Before(t, d, e)
        /\ \A d : In(channel[h], d) => Before(t, d, c)
    BY <1>1, <2>3, AddLast DEF PlaceInv, ChannelInv
  <2> HIDE DEF t
  <2>5. ChannelInv'
    <3> SUFFICES ASSUME NEW r \in RelaySet
                 PROVE  /\ Distinct(channel'[r])
                        /\ \A d \in Calls : In(channel'[r], d)
                             <=> status'[d] = "accepted" /\ Home(d) = r
      BY DEF ChannelInv, Home
    <3>1. CASE r = h
      BY <1>1, <2>2, <2>4, <3>1 DEF PlaceInv, ChannelInv, t
    <3>2. CASE r # h
      BY <1>1, <2>2, <3>2 DEF PlaceInv, ChannelInv
    <3> QED
      BY <3>1, <3>2
  <2>6. HeldInv'
    <3> SUFFICES ASSUME NEW q \in RelaySet, relay'[q] \in {"holding", "reserved"}
                 PROVE  /\ held'[q] \in Calls /\ status'[held'[q]] = "taken"
                        /\ Home(held'[q]) = q
      BY DEF HeldInv, Home
    <3>1. held[q] \in Calls /\ status[held[q]] = "taken" /\ Home(held[q]) = q
      BY <1>1, <2>1 DEF PlaceInv, HeldInv
    <3>2. held[q] # c /\ held'[q] = held[q]
      BY <2>1, <2>2, <3>1
    <3> QED
      BY <2>2, <3>1, <3>2
  <2>7. MailboxInv'
    BY <1>1, <2>1, <2>2 DEF PlaceInv, MailboxInv
  <2>8. ASSUME NEW r \in RelaySet, NEW d \in Calls, NEW e \in Calls, e # c, d # c,
               Ahead(r, d, e)
        PROVE  Ahead(r, d, e)'
    <3>1. Before(channel[r], d, e) => Before(channel'[r], d, e)
      BY <2>2, <2>4 DEF t
    <3> QED
      BY <2>1, <2>2, <2>8, <3>1 DEF Ahead
  <2>9. ASSUME NEW d \in Calls, status[d] \in Pending, Home(d) = h PROVE Ahead(h, d, c)'
    <3>1. status[d] = "accepted" => In(channel[h], d)
      BY <1>1, <2>9 DEF PlaceInv, ChannelInv
    <3>2. d # c
      BY <1>1, <2>9 DEF Pending
    <3> QED
      BY <2>2, <2>4, <2>9, <3>1, <3>2 DEF Ahead, Pending, t
  <2>10. OrderInv'
    <3> SUFFICES ASSUME NEW r \in RelaySet
                 PROVE  /\ \A i \in 1..Len(order'[r]) :
                             /\ status'[order'[r][i]] \notin {"unsent", "reserved"}
                             /\ Home(order'[r][i]) = r
                        /\ \A i, j \in 1..Len(order'[r]) :
                             /\ i < j
                             /\ status'[order'[r][i]] \in Pending
                             /\ status'[order'[r][j]] \in Pending
                             => Ahead(r, order[r][i], order[r][j])'
      BY DEF OrderInv, Pending, Home
    <3> DEFINE q == order[r]
    <3>1. /\ q \in Seq(Calls) /\ Len(q) \in Nat
          /\ \A i \in 1..Len(q) : q[i] \in Calls
      BY <1>1 DEF TypeOK
    <3>2. \A i \in 1..Len(q) : /\ status[q[i]] \notin {"unsent", "reserved"} /\ q[i] # c
                              /\ Home(q[i]) = r
      BY <1>1 DEF PlaceInv, OrderInv
    <3>3. ASSUME NEW i \in 1..Len(q), NEW j \in 1..Len(q), i < j,
                 status'[q[i]] \in Pending, status'[q[j]] \in Pending
          PROVE  \E d, e \in Calls : d = q[i] /\ e = q[j] /\ Ahead(r, d, e)'
      <4>1. q[i] \in Calls /\ q[j] \in Calls /\ q[i] # c /\ q[j] # c
        BY <3>1, <3>2
      <4>2. Ahead(r, q[i], q[j])
        BY <1>1, <2>2, <3>3, <4>1 DEF PlaceInv, OrderInv
      <4>3. PICK d \in Calls, e \in Calls : d = q[i] /\ e = q[j]
        BY <4>1
      <4> HIDE DEF q
      <4>4. Ahead(r, d, e)'
        BY <2>8, <4>1, <4>2, <4>3
      <4> QED
        BY <4>3, <4>4
    <3>4. CASE r # h
      <4>1. order'[r] = q
        BY <2>2, <3>4
      <4> QED
        BY <2>2, <3>1, <3>2, <3>3, <4>1 DEF Ahead
    <3>5. CASE r = h
      <4>1. /\ order'[r] = Append(q, c) /\ Len(order'[r]) = Len(q) + 1
            /\ order'[r][Len(q) + 1] = c
            /\ \A i \in 1..Len(q) : order'[r][i] = q[i]
        BY <2>2, <3>1, <3>5, AppendFacts
      <4>2. \A i \in 1..Len(order'[r]) : i = Len(q) + 1 \/ i \in 1..Len(q)
        BY <3>1, <4>1
      <4>3. \A i \in 1..Len(order'[r]) :
              /\ status'[order'[r][i]] \notin {"unsent", "reserved"}
              /\ Home(order'[r][i]) = r
        <5> SUFFICES ASSUME NEW i \in 1..Len(order'[r])
                     PROVE  /\ status'[order'[r][i]] \notin {"unsent", "reserved"}
                            /\ Home(order'[r][i]) = r
          OBVIOUS
        <5>1. CASE i \in 1..Len(q)
          BY <2>2, <3>1, <3>2, <4>1, <5>1
        <5>2. CASE i = Len(q) + 1
          BY <2>2, <3>5, <4>1, <5>2
        <5> QED
          BY <4>2, <5>1, <5>2
      <4>4. ASSUME NEW i \in 1..Len(order'[r]), NEW j \in 1..Len(order'[r]), i < j,
                   status'[order'[r][i]] \in Pending, status'[order'[r][j]] \in Pending
            PROVE  \E d, e \in Calls : d = order'[r][i] /\ e = order'[r][j] /\ Ahead(r, d, e)'
        <5>1. i \in 1..Len(q)
          BY <3>1, <4>1, <4>4
        <5>2. CASE j \in 1..Len(q)
          BY <3>3, <4>1, <4>4, <5>1, <5>2
        <5>3. CASE j = Len(q) + 1
          <6>1. q[i] \in Calls /\ status[q[i]] \in Pending /\ Home(q[i]) = h
            BY <2>2, <3>1, <3>2, <3>5, <4>1, <4>4, <5>1
          <6>2. PICK d \in Calls : d = q[i]
            BY <6>1
          <6>3. Ahead(r, d, c)'
            BY <2>9, <3>5, <6>1, <6>2
          <6> QED
            BY <4>1, <5>1, <5>3, <6>2, <6>3
        <5> QED
          BY <4>2, <5>2, <5>3
      <4> QED
        BY <4>3, <4>4 DEF Ahead
    <3> QED
      BY <3>4, <3>5
  <2> QED
    BY <2>5, <2>6, <2>7, <2>10 DEF PlaceInv
<1> QED
  BY <1>2, <1>3

\* A relay takes the oldest call of its channel.
LEMMA TakePlaces ==
  ASSUME IInv, ReferenceInv, NEW r \in RelaySet, Take(r)
  PROVE  PlaceInv'
<1> DEFINE c == Head(channel[r])
           t == Tail(channel[r])
<1>1. TypeOK /\ PlaceInv /\ TakenInv
  BY DEF IInv, ReferenceInv
<1>2. /\ relay[r] = "idle" /\ UNCHANGED <<mailbox, cur, order>>
      /\ relay' = [relay EXCEPT ![r] = "holding"]
      /\ held' = [held EXCEPT ![r] = c]
      /\ status' = [status EXCEPT ![c] = "taken"]
      /\ channel' = [channel EXCEPT ![r] = t]
  BY DEF Take, actor
<1>3. c \in Calls /\ channel[r] \in Seq(Calls) /\ channel[r] # <<>> /\ Distinct(channel[r])
  BY <1>1 DEF Take, TypeOK, PlaceInv, ChannelInv
<1>4. /\ Distinct(t)
      /\ In(channel[r], c)
      /\ \A d : In(t, d) <=> In(channel[r], d) /\ d # c
      /\ \A d, e : Before(channel[r], d, e) => e # c /\ (d = c \/ Before(t, d, e))
  BY <1>3, TakeFirst
<1> HIDE DEF c, t
<1>5. status[c] = "accepted" /\ Home(c) = r
  BY <1>1, <1>3, <1>4 DEF PlaceInv, ChannelInv
<1>6. /\ status'[c] = "taken" /\ relay'[r] = "holding" /\ held'[r] = c /\ channel'[r] = t
      /\ \A d \in Calls : d # c => status'[d] = status[d]
      /\ \A q \in RelaySet : q # r => /\ channel'[q] = channel[q] /\ relay'[q] = relay[q]
                                      /\ held'[q] = held[q]
  BY <1>1, <1>2, <1>3 DEF TypeOK
<1>7. ChannelInv'
  <2> SUFFICES ASSUME NEW q \in RelaySet
               PROVE  /\ Distinct(channel'[q])
                      /\ \A d \in Calls : In(channel'[q], d)
                           <=> status'[d] = "accepted" /\ Home(d) = q
    BY DEF ChannelInv, Home
  <2>1. CASE q = r
    BY <1>1, <1>3, <1>4, <1>6, <2>1 DEF PlaceInv, ChannelInv
  <2>2. CASE q # r
    BY <1>1, <1>3, <1>5, <1>6, <2>2 DEF PlaceInv, ChannelInv
  <2> QED
    BY <2>1, <2>2
<1>8. HeldInv'
  <2> SUFFICES ASSUME NEW q \in RelaySet, relay'[q] \in {"holding", "reserved"}
               PROVE  held'[q] \in Calls /\ status'[held'[q]] = "taken" /\ Home(held'[q]) = q
    BY DEF HeldInv, Home
  <2>1. CASE q = r
    BY <1>3, <1>5, <1>6, <2>1
  <2>2. CASE q # r
    BY <1>1, <1>5, <1>6, <2>2 DEF PlaceInv, HeldInv
  <2> QED
    BY <2>1, <2>2
<1>9. MailboxInv'
  BY <1>1, <1>2, <1>3, <1>5, <1>6 DEF PlaceInv, MailboxInv
<1>10. \A d \in Calls : status[d] = "taken" => Home(d) # r
  BY <1>1, <1>2 DEF TakenInv, PlaceInv, HeldInv
<1>11. ASSUME NEW q \in RelaySet, NEW d \in Calls, NEW e \in Calls, Ahead(q, d, e),
              Home(d) = q, Home(e) = q
       PROVE  Ahead(q, d, e)'
  <2>1. CASE d # c /\ e # c
    <3>1. Before(channel[q], d, e) => Before(channel'[q], d, e)
      BY <1>4, <1>6, <2>1
    <3> QED
      BY <1>2, <1>6, <1>11, <2>1, <3>1 DEF Ahead
  <2>2. CASE d = c
    <3>1. q = r /\ status[e] = "accepted" /\ Before(channel[r], c, e)
      BY <1>5, <1>11, <2>2 DEF Ahead
    <3>2. e # c
      BY <1>4, <3>1
    <3> QED
      BY <1>6, <2>2, <3>1, <3>2 DEF Ahead
  <2>3. CASE e = c
    <3>1. q = r
      BY <1>5, <1>11, <2>3
    <3>2. status[d] = "forwarded"
      BY <1>4, <1>5, <1>10, <1>11, <2>3, <3>1 DEF Ahead
    <3>3. d # c
      BY <1>5, <3>2
    <3> QED
      BY <1>6, <2>3, <3>2, <3>3 DEF Ahead
  <2> QED
    BY <2>1, <2>2, <2>3
<1>12. OrderInv'
  <2>1. \A d \in Calls : status'[d] \in Pending => status[d] \in Pending
    BY <1>5, <1>6 DEF Pending
  <2>2. \A d \in Calls : status[d] \notin {"unsent", "reserved"}
                           => status'[d] \notin {"unsent", "reserved"}
    BY <1>6
  <2> QED
    BY <1>1, <1>2, <1>11, <2>1, <2>2, OrderKeeps DEF PlaceInv
<1> QED
  BY <1>7, <1>8, <1>9, <1>12 DEF PlaceInv

\* A relay writes its call to the mailbox: it is the last there.
LEMMA ForwardPlaces ==
  ASSUME IInv, ReferenceInv, NEW r \in RelaySet, ForwardPush(r)
  PROVE  PlaceInv'
<1> DEFINE c == held[r]
           t == Append(mailbox, c)
<1>1. TypeOK /\ PlaceInv /\ relay[r] = "reserved"
  BY DEF IInv, ReferenceInv, ForwardPush
<1>2. c \in Calls /\ status[c] = "taken" /\ Home(c) = r
  BY <1>1 DEF PlaceInv, HeldInv
<1>3. /\ UNCHANGED <<cur, channel, order>>
      /\ relay'[r] \in {"idle", "waiting"}
      /\ \A q \in RelaySet : q # r => relay'[q] = relay[q] /\ held'[q] = held[q]
  BY <1>1 DEF ForwardPush, TypeOK
<1>4. \A q \in RelaySet : relay[q] \in {"holding", "reserved"} /\ q # r => held[q] # c
  BY <1>1, <1>2 DEF PlaceInv, HeldInv
<1>5. \/ mailbox' = mailbox /\ status' = [status EXCEPT ![c] = "late"]
      \/ mailbox' = t /\ status' = [status EXCEPT ![c] = "forwarded"]
  BY DEF ForwardPush
<1> HIDE DEF c
<1>6. /\ status'[c] \in {"late", "forwarded"} /\ c # cur
      /\ \A d \in Calls : d # c => status'[d] = status[d]
  BY <1>1, <1>2, <1>5 DEF TypeOK, PlaceInv, MailboxInv
<1>7. ChannelInv'
  BY <1>1, <1>2, <1>3, <1>6 DEF PlaceInv, ChannelInv, Home
<1>8. HeldInv'
  <2> SUFFICES ASSUME NEW q \in RelaySet, relay'[q] \in {"holding", "reserved"}
               PROVE  held'[q] \in Calls /\ status'[held'[q]] = "taken" /\ Home(held'[q]) = q
    BY DEF HeldInv, Home
  <2>1. q # r
    BY <1>3
  <2> QED
    BY <1>1, <1>3, <1>4, <1>6, <2>1 DEF PlaceInv, HeldInv
<1>9. mailbox \in Seq(Calls) /\ ~In(mailbox, c)
  BY <1>1, <1>2 DEF TypeOK, PlaceInv, MailboxInv
<1>10. /\ Distinct(t)
       /\ \A d : In(t, d) <=> In(mailbox, d) \/ d = c
       /\ \A d, e : Before(mailbox, d, e) => Before(t, d, e)
       /\ \A d : In(mailbox, d) => Before(t, d, c)
  BY <1>1, <1>2, <1>9, AddLast DEF PlaceInv, MailboxInv
<1> HIDE DEF t
<1>11. MailboxInv'
  <2>1. CASE mailbox' = mailbox /\ status' = [status EXCEPT ![c] = "late"]
    <3>1. status'[c] = "late"
      BY <1>1, <1>2, <2>1 DEF TypeOK
    <3> QED
      BY <1>1, <1>2, <1>3, <1>6, <2>1, <3>1 DEF PlaceInv, MailboxInv
  <2>2. CASE mailbox' = t /\ status' = [status EXCEPT ![c] = "forwarded"]
    <3>1. status'[c] = "forwarded"
      BY <1>1, <1>2, <2>2 DEF TypeOK
    <3> QED
      BY <1>1, <1>3, <1>6, <1>9, <1>10, <2>2, <3>1 DEF PlaceInv, MailboxInv
  <2> QED
    BY <1>5, <2>1, <2>2
<1>12. ASSUME NEW q \in RelaySet, NEW d \in Calls, NEW e \in Calls, Ahead(q, d, e),
              status'[d] \in Pending, status'[e] \in Pending
       PROVE  Ahead(q, d, e)'
  <2>1. \A x, y : Before(mailbox, x, y) => Before(mailbox', x, y)
    BY <1>5, <1>10
  <2>2. CASE d # c /\ e # c
    BY <1>3, <1>6, <1>12, <2>1, <2>2 DEF Ahead
  <2>3. CASE d = c
    <3>1. status'[c] = "forwarded" /\ status[e] = "accepted"
      BY <1>2, <1>6, <1>12, <2>3 DEF Ahead, Pending
    <3> QED
      BY <1>2, <1>6, <2>3, <3>1 DEF Ahead
  <2>4. CASE e = c
    <3>1. status'[c] = "forwarded" /\ status[d] = "forwarded" /\ d # c
      BY <1>2, <1>6, <1>12, <2>4 DEF Ahead, Pending
    <3>2. mailbox' = t
      BY <1>1, <1>2, <1>5, <3>1 DEF TypeOK
    <3>3. d = cur \/ In(mailbox, d)
      BY <1>1, <3>1 DEF PlaceInv, MailboxInv
    <3> QED
      BY <1>3, <1>6, <1>10, <2>4, <3>1, <3>2, <3>3 DEF Ahead
  <2> QED
    BY <2>2, <2>3, <2>4
<1>13. OrderInv'
  <2>1. \A d \in Calls : status'[d] \in Pending => status[d] \in Pending
    BY <1>2, <1>6 DEF Pending
  <2>2. \A d \in Calls : status[d] \notin {"unsent", "reserved"}
                           => status'[d] \notin {"unsent", "reserved"}
    BY <1>6
  <2> QED
    BY <1>1, <1>3, <1>12, <2>1, <2>2, OrderKeeps DEF PlaceInv
<1> QED
  BY <1>7, <1>8, <1>11, <1>13 DEF PlaceInv

\* What is lost is nowhere any more; what is not lost stays where it is.  r is the
\* relay that drops its call, its channel or both.
LEMMA LosePlaces ==
  ASSUME TypeOK, PlaceInv, NEW r \in RelaySet,
         UNCHANGED <<mailbox, cur, order>>,
         relay'[r] \notin {"holding", "reserved"},
         \A q \in RelaySet : q # r => /\ channel'[q] = channel[q] /\ relay'[q] = relay[q]
                                      /\ held'[q] = held[q],
         \A d \in Calls : \/ status'[d] = status[d]
                          \/ /\ Home(d) = r /\ status[d] \in {"accepted", "taken"}
                             /\ status'[d] \in {"discarded", "dropped"},
         \/ /\ channel'[r] = channel[r]
            /\ \A d \in Calls : status[d] = "accepted" => status'[d] = "accepted"
         \/ /\ channel'[r] = <<>>
            /\ \A d \in Calls : Home(d) = r => status'[d] # "accepted"
  PROVE  PlaceInv'
<1>1. ChannelInv'
  <2> SUFFICES ASSUME NEW q \in RelaySet
               PROVE  /\ Distinct(channel'[q])
                      /\ \A d \in Calls : In(channel'[q], d)
                           <=> status'[d] = "accepted" /\ Home(d) = q
    BY DEF ChannelInv, Home
  <2>1. CASE q = r
    BY <2>1, EmptySequence DEF PlaceInv, ChannelInv
  <2>2. CASE q # r
    BY <2>2 DEF PlaceInv, ChannelInv
  <2> QED
    BY <2>1, <2>2
<1>2. HeldInv'
  <2> SUFFICES ASSUME NEW q \in RelaySet, relay'[q] \in {"holding", "reserved"}
               PROVE  held'[q] \in Calls /\ status'[held'[q]] = "taken" /\ Home(held'[q]) = q
    BY DEF HeldInv, Home
  <2>1. q # r /\ relay[q] \in {"holding", "reserved"} /\ held'[q] = held[q]
    OBVIOUS
  <2>2. held[q] \in Calls /\ status[held[q]] = "taken" /\ Home(held[q]) = q
    BY <2>1 DEF PlaceInv, HeldInv
  <2> QED
    BY <2>1, <2>2
<1>3. MailboxInv'
  BY DEF PlaceInv, MailboxInv
<1>4. ASSUME NEW q \in RelaySet, NEW d \in Calls, NEW e \in Calls, Ahead(q, d, e),
             status'[d] \in Pending, status'[e] \in Pending, Home(d) = q
      PROVE  Ahead(q, d, e)'
  <2>1. status'[d] = status[d] /\ status'[e] = status[e]
    BY <1>4 DEF Pending
  <2>2. status[d] = "accepted" => channel'[q] = channel[q]
    BY <1>4, <2>1
  <2> QED
    BY <1>4, <2>1, <2>2 DEF Ahead
<1>5. OrderInv'
  <2>1. \A d \in Calls : status'[d] \in Pending => status[d] \in Pending
    BY DEF Pending
  <2> QED
    BY <1>4, <2>1, OrderKeeps DEF PlaceInv
<1> QED
  BY <1>1, <1>2, <1>3, <1>5 DEF PlaceInv

\* A relay ends, or finds the mailbox closed.
LEMMA DropPlaces ==
  ASSUME IInv, ReferenceInv, NEW r \in RelaySet, Drops(r) \/ ForwardClosed(r)
  PROVE  PlaceInv'
<1>1. TypeOK /\ PlaceInv
  BY DEF IInv, ReferenceInv
<1>2. \A c \in Calls : status[c] # "unsent" => Via(c) = Home(c)
  BY ViaIsHome DEF IInv, UnbuiltInv, ReferenceInv
<1>3. /\ UNCHANGED <<mailbox, cur, order>>
      /\ relay'[r] \notin {"holding", "reserved"}
      /\ \A q \in RelaySet : q # r => relay'[q] = relay[q] /\ held'[q] = held[q]
  BY <1>1 DEF Drops, ForwardClosed, CloseChannel, TypeOK, actor
<1>4. CASE Drops(r)
  <2>1. /\ channel' = [channel EXCEPT ![r] = <<>>]
        /\ status' = [c \in Calls |-> IF status[c] = "accepted" /\ Via(c) = r
                                     THEN "discarded" ELSE status[c]]
    BY <1>4 DEF Drops, CloseChannel
  <2>2. /\ channel'[r] = <<>>
        /\ \A q \in RelaySet : q # r => channel'[q] = channel[q]
    BY <1>1, <2>1 DEF TypeOK
  <2>3. \A d \in Calls : \/ status'[d] = status[d] /\ ~(status[d] = "accepted" /\ Home(d) = r)
                         \/ /\ Home(d) = r /\ status[d] = "accepted"
                            /\ status'[d] = "discarded"
    BY <1>2, <2>1
  <2> QED
    BY <1>1, <1>3, <2>2, <2>3, LosePlaces
<1>5. CASE ForwardClosed(r)
  <2>1. held[r] \in Calls /\ status[held[r]] = "taken" /\ Home(held[r]) = r
    BY <1>1, <1>5 DEF ForwardClosed, PlaceInv, HeldInv
  <2>2. CASE Kind[r] = "sender"
    <3>1. channel' = channel /\ status' = [status EXCEPT ![held[r]] = "dropped"]
      BY <1>5, <2>2 DEF ForwardClosed
    <3>2. /\ status'[held[r]] = "dropped"
          /\ \A d \in Calls : d # held[r] => status'[d] = status[d]
      BY <1>1, <2>1, <3>1 DEF TypeOK
    <3>3. \A d \in Calls : \/ status'[d] = status[d]
                           \/ /\ Home(d) = r /\ status[d] = "taken"
                              /\ status'[d] = "dropped"
      BY <2>1, <3>2
    <3> QED
      BY <1>1, <1>3, <3>1, <3>3, LosePlaces
  <2>3. CASE Kind[r] # "sender"
    <3>1. /\ channel' = [channel EXCEPT ![r] = <<>>]
          /\ status' = [d \in Calls |->
                          IF d = held[r] THEN "dropped"
                          ELSE IF status[d] = "accepted" /\ Via(d) = r THEN "discarded"
                          ELSE status[d]]
      BY <1>5, <2>3 DEF ForwardClosed
    <3>2. /\ channel'[r] = <<>>
          /\ \A q \in RelaySet : q # r => channel'[q] = channel[q]
      BY <1>1, <3>1 DEF TypeOK
    <3>3. \A d \in Calls :
            \/ status'[d] = status[d] /\ ~(status[d] = "accepted" /\ Home(d) = r)
            \/ /\ Home(d) = r /\ status[d] \in {"accepted", "taken"}
               /\ status'[d] \in {"discarded", "dropped"}
      BY <1>2, <2>1, <3>1
    <3> QED
      BY <1>1, <1>3, <3>2, <3>3, LosePlaces
  <2> QED
    BY <2>2, <2>3
<1> QED
  BY <1>4, <1>5

\* The actor takes the oldest call of its mailbox.
LEMMA ReceivePlaces ==
  ASSUME IInv, ReferenceInv, Receive
  PROVE  PlaceInv'
<1> DEFINE c == Head(mailbox)
           t == Tail(mailbox)
<1>1. TypeOK /\ PlaceInv
  BY DEF IInv, ReferenceInv
<1>2. /\ UNCHANGED <<relay, channel, held, status, order>>
      /\ cur' = c /\ mailbox' = t
  BY DEF Receive, relays
<1>3. cur = Nil
  BY DEF Receive, IInv, ForwardedInv, Handling
<1>4. c \in Calls /\ mailbox \in Seq(Calls) /\ mailbox # <<>> /\ Distinct(mailbox)
  BY <1>1 DEF Receive, TypeOK, PlaceInv, MailboxInv
<1>5. /\ Distinct(t)
      /\ In(mailbox, c)
      /\ \A d : In(t, d) <=> In(mailbox, d) /\ d # c
      /\ \A d, e : Before(mailbox, d, e) => e # c /\ (d = c \/ Before(t, d, e))
  BY <1>4, TakeFirst
<1> HIDE DEF c, t
<1>6. \A d \in Calls : d # cur
  BY <1>3, ScriptAssumption
<1>7. ChannelInv' /\ HeldInv'
  BY <1>1, <1>2 DEF PlaceInv, ChannelInv, HeldInv, Home
<1>8. MailboxInv'
  BY <1>1, <1>2, <1>4, <1>5, <1>6 DEF PlaceInv, MailboxInv
<1>9. ASSUME NEW q \in RelaySet, NEW d \in Calls, NEW e \in Calls, Ahead(q, d, e)
      PROVE  Ahead(q, d, e)'
  BY <1>2, <1>5, <1>6, <1>9 DEF Ahead
<1>10. OrderInv'
  BY <1>1, <1>2, <1>9, OrderKeeps DEF PlaceInv
<1> QED
  BY <1>7, <1>8, <1>10 DEF PlaceInv

\* What a step of process_message returning does to the statuses.
LEMMA ReturnFacts ==
  ASSUME IInv, ReferenceInv, NEW b \in BOOLEAN, pc \in Handling, Return(b)
  PROVE  /\ cur \in Calls /\ status[cur] = "forwarded" /\ cur' = Nil
         /\ status'[cur] \in {"handled", "answered"}
         /\ \A d \in Calls : d # cur => status'[d] = status[d]
         /\ UNCHANGED <<mailbox, channel, relay, held, order>>
<1>1. TypeOK /\ MailboxInv /\ cur # Nil
  BY DEF IInv, ReferenceInv, PlaceInv, ForwardedInv
<1>2. cur \in Calls /\ status[cur] = "forwarded"
  BY <1>1 DEF TypeOK, MailboxInv
<1>3. \/ status' = [status EXCEPT ![cur] = "handled"]
      \/ status' = [status EXCEPT ![cur] = "answered"]
  BY DEF Return
<1> QED
  BY <1>1, <1>2, <1>3 DEF TypeOK, Return, relays

\* The actor's handler returns.
LEMMA ReturnPlaces ==
  ASSUME IInv, ReferenceInv, NEW b \in BOOLEAN, pc \in Handling, Return(b)
  PROVE  PlaceInv'
<1>1. TypeOK /\ PlaceInv /\ \A d \in Calls : d # Nil
  BY ScriptAssumption DEF IInv, ReferenceInv
<1>2. /\ cur \in Calls /\ status[cur] = "forwarded" /\ cur' = Nil
      /\ status'[cur] \in {"handled", "answered"}
      /\ \A d \in Calls : d # cur => status'[d] = status[d]
      /\ UNCHANGED <<mailbox, channel, relay, held, order>>
  BY ReturnFacts
<1>3. ChannelInv' /\ HeldInv'
  BY <1>1, <1>2 DEF PlaceInv, ChannelInv, HeldInv, Home
<1>4. MailboxInv'
  BY <1>1, <1>2 DEF PlaceInv, MailboxInv
<1>5. ASSUME NEW q \in RelaySet, NEW d \in Calls, NEW e \in Calls, Ahead(q, d, e),
             status'[d] \in Pending, status'[e] \in Pending
      PROVE  Ahead(q, d, e)'
  <2>1. d # cur /\ e # cur
    BY <1>2, <1>5 DEF Pending
  <2> QED
    BY <1>1, <1>2, <1>5, <2>1 DEF Ahead
<1>6. OrderInv'
  <2>1. \A d \in Calls : status'[d] \in Pending => status[d] \in Pending
    BY <1>2 DEF Pending
  <2>2. \A d \in Calls : status[d] \notin {"unsent", "reserved"}
                           => status'[d] \notin {"unsent", "reserved"}
    BY <1>2
  <2> QED
    BY <1>1, <1>2, <1>5, <2>1, <2>2, OrderKeeps DEF PlaceInv
<1> QED
  BY <1>3, <1>4, <1>6 DEF PlaceInv

\* The actor panics, with every call that was passed on to it.
LEMMA CrashPlaces ==
  ASSUME IInv, ReferenceInv, Crash
  PROVE  PlaceInv'
<1>1. TypeOK /\ PlaceInv /\ \A d \in Calls : d # Nil
  BY ScriptAssumption DEF IInv, ReferenceInv
<1>2. /\ UNCHANGED <<channel, relay, held, order>> /\ mailbox' = <<>> /\ cur' = Nil
      /\ \A d \in Calls : \/ status[d] # "forwarded" /\ status'[d] = status[d]
                          \/ /\ status[d] = "forwarded"
                             /\ status'[d] \in {"dropped", "unanswered"}
  BY DEF Crash, relays
<1>3. ChannelInv' /\ HeldInv'
  BY <1>1, <1>2 DEF PlaceInv, ChannelInv, HeldInv, Home
<1>4. MailboxInv'
  BY <1>1, <1>2, EmptySequence DEF MailboxInv
<1>5. ASSUME NEW q \in RelaySet, NEW d \in Calls, NEW e \in Calls, Ahead(q, d, e),
             status'[d] \in Pending, status'[e] \in Pending
      PROVE  Ahead(q, d, e)'
  BY <1>2, <1>5 DEF Ahead, Pending
<1>6. OrderInv'
  <2>1. \A d \in Calls : status'[d] \in Pending => status[d] \in Pending
    BY <1>2 DEF Pending
  <2>2. \A d \in Calls : status[d] \notin {"unsent", "reserved"}
                           => status'[d] \notin {"unsent", "reserved"}
    BY <1>2
  <2> QED
    BY <1>1, <1>2, <1>5, <2>1, <2>2, OrderKeeps DEF PlaceInv
<1> QED
  BY <1>3, <1>4, <1>6 DEF PlaceInv

\* Init satisfies the invariant: nothing was built or called.
LEMMA InitReference == Init => ReferenceInv
<1> SUFFICES ASSUME Init PROVE ReferenceInv
  OBVIOUS
<1>1. SendersInv
  BY RelaysAssumption DEF Init, SendersInv, Built
<1>2. EndingInv
  BY DEF Init, EndingInv
<1>3. ChannelInv /\ HeldInv
  BY EmptySequence DEF Init, ChannelInv, HeldInv
<1>4. MailboxInv
  BY EmptySequence, ScriptAssumption DEF Init, MailboxInv
<1>5. OrderInv
  BY DEF Init, OrderInv
<1> QED
  BY <1>1, <1>2, <1>3, <1>4, <1>5 DEF ReferenceInv, PlaceInv

\* Every step keeps the invariant.
LEMMA NextReference == IInv /\ ReferenceInv /\ [Next]_vars => ReferenceInv'
<1> SUFFICES ASSUME IInv, ReferenceInv, [Next]_vars PROVE ReferenceInv'
  OBVIOUS
<1>1. SendersInv' /\ EndingInv'
  BY NextSenders, NextEnding DEF ReferenceInv
<1>2. PlaceInv'
  <2>1. PlaceInv
    BY DEF ReferenceInv
  <2> QED
    BY <2>1, Steps, FramePlaces, PushPlaces, TakePlaces, ForwardPlaces, DropPlaces,
       ReceivePlaces, ReturnPlaces, CrashPlaces
<1> QED
  BY <1>1, <1>2 DEF ReferenceInv

\* In every reachable state each call is in one place, and calls made through one
\* reference are in the order they were accepted in.
THEOREM ReferenceInvHolds == Spec => []ReferenceInv
BY InitReference, NextReference, InductiveInvariant, PTL DEF Spec

-----------------------------------------------------------------------------
(* Relay implements TypedReference.                                        *)

\* An actor that is ending does not come back.
LEMMA EndingStays == IInv /\ [Next]_vars => (Ending => Ending')
<1> SUFFICES ASSUME IInv, [Next]_vars, Ending PROVE Ending'
  OBVIOUS
<1> USE DEF Ending, Handling, actor, built, relays
<1>1. CASE UNCHANGED vars
  BY <1>1 DEF vars
<1>2. CASE AddReference
  BY <1>2 DEF AddReference
<1>3. CASE RunBuilder
  BY <1>3 DEF RunBuilder
<1>4. CASE DropBuilder
  BY <1>4 DEF DropBuilder
<1>5. CASE SupervisorSpeaks
  BY <1>5 DEF SupervisorSpeaks, Crash
<1>6. CASE Receive
  BY <1>6 DEF Receive
<1>7. CASE HandleNormal
  BY <1>7 DEF HandleNormal, Serves, Return
<1>8. CASE HandleStop
  BY <1>8 DEF HandleStop, Serves, Return
<1>9. CASE HandleAbort
  BY <1>9 DEF HandleAbort, Serves, Return
<1>10. CASE HandlePanic
  BY <1>10 DEF HandlePanic, Serves, Crash
<1>11. CASE BeginShutdown
  BY <1>11 DEF BeginShutdown, NoRelays
<1>12. CASE StoppingMailboxClosed
  BY <1>12 DEF StoppingMailboxClosed
<1>13. CASE StoppingTimeout
  BY <1>13 DEF StoppingTimeout, Crash
<1>14. CASE CheckRelays
  BY <1>14 DEF CheckRelays, NoRelays
<1>15. CASE End
  BY <1>15 DEF End
<1>16. ASSUME NEW c \in Calls, Reserve(c) PROVE Ending'
  BY <1>16 DEF Reserve
<1>17. ASSUME NEW c \in Calls, Push(c) PROVE Ending'
  BY <1>17 DEF Push
<1>18. ASSUME NEW c \in Calls, Refuse(c) PROVE Ending'
  BY <1>18 DEF Refuse
<1>19. ASSUME NEW r \in RelaySet, Take(r) PROVE Ending'
  BY <1>19 DEF Take
<1>20. ASSUME NEW r \in RelaySet, Forward(r) PROVE Ending'
  BY <1>20 DEF Forward
<1>21. ASSUME NEW r \in RelaySet, ForwardPush(r) PROVE Ending'
  BY <1>21 DEF ForwardPush
<1>22. ASSUME NEW r \in RelaySet, ForwardClosed(r) PROVE Ending'
  BY <1>22 DEF ForwardClosed
<1>23. ASSUME NEW r \in RelaySet, RelayAnswer(r) PROVE Ending'
  BY <1>23 DEF RelayAnswer
<1>24. ASSUME NEW r \in RelaySet, RelayShutdown(r) PROVE Ending'
  BY <1>24 DEF RelayShutdown, Leave
<1>25. ASSUME NEW r \in RelaySet, RelayUnused(r) PROVE Ending'
  BY <1>25 DEF RelayUnused, Leave
<1>26. ASSUME NEW r \in RelaySet, RelayOrphaned(r) PROVE Ending'
  BY <1>26 DEF RelayOrphaned, CloseChannel
<1>27. ASSUME NEW r \in RelaySet, RelayReturn(r) PROVE Ending'
  BY <1>27 DEF RelayReturn, CloseChannel
<1>28. ASSUME NEW r \in RelaySet, DropReference(r) PROVE Ending'
  BY <1>28 DEF DropReference
<1> QED
  BY <1>1, <1>2, <1>3, <1>4, <1>5, <1>6, <1>7, <1>8, <1>9, <1>10, <1>11, <1>12, <1>13,
     <1>14, <1>15, <1>16, <1>17, <1>18, <1>19, <1>20, <1>21, <1>22, <1>23, <1>24,
     <1>25, <1>26, <1>27, <1>28
      DEF Next, BuilderStep, ActorStep, CallerStep, RelayStep

\* An actor that is ending loses calls.
LEMMA SeeLoss ==
  ASSUME Ending', UNCHANGED order,
         \A c \in Calls : \/ Outcome(c)' = Outcome(c)
                          \/ Outcome(c) \in {"none", "accepted"} /\ Outcome(c)' = "lost"
  PROVE  Reference!Next
<1> DEFINE lost == {c \in Calls : Outcome(c)' # Outcome(c)}
           out == [c \in Calls |-> Outcome(c)]
<1>1. lost \in SUBSET {c \in Calls : out[c] \in {"none", "accepted"}}
  OBVIOUS
<1>2. out' = [c \in Calls |-> IF c \in lost THEN "lost" ELSE out[c]]
  OBVIOUS
<1>3. Reference!Lose
  BY <1>1, <1>2 DEF Reference!Lose, Ending
<1> QED
  BY <1>3 DEF Reference!Next, Ending

\* What users see of a step: nothing, unless it is that the actor is ending.
LEMMA SeeNothing ==
  ASSUME Ending => Ending', UNCHANGED order, \A c \in Calls : Outcome(c)' = Outcome(c)
  PROVE  Reference!Next \/ UNCHANGED Reference!vars
<1>1. /\ [c \in Calls |-> Outcome(c)]' = [c \in Calls |-> Outcome(c)]
      /\ [i \in DOMAIN Relays |-> order[Relays[i]]]' = [i \in DOMAIN Relays |-> order[Relays[i]]]
  OBVIOUS
<1>2. CASE Ending' = Ending
  BY <1>1, <1>2 DEF Ending, Reference!vars
<1>3. CASE Ending' # Ending
  <2>1. Ending'
    BY <1>3 DEF Ending
  <2> QED
    BY <2>1, SeeLoss
<1> QED
  BY <1>2, <1>3

\* The outcome of one call changes.
LEMMA OneOutcome ==
  ASSUME NEW c \in Calls, NEW x, Outcome(c)' = x,
         \A d \in Calls : d # c => Outcome(d)' = Outcome(d)
  PROVE  [d \in Calls |-> Outcome(d)]' = [[d \in Calls |-> Outcome(d)] EXCEPT ![c] = x]
OBVIOUS

\* A call is accepted.
LEMMA SeeAccept ==
  ASSUME TypeOK, Ending => Ending', NEW c \in Calls,
         Outcome(c) = "none", Outcome(c)' = "accepted",
         \A d \in Calls : d # c => Outcome(d)' = Outcome(d),
         order' = [order EXCEPT ![Home(c)] = Append(order[Home(c)], c)]
  PROVE  Reference!Next
<1> DEFINE acc == [i \in DOMAIN Relays |-> order[Relays[i]]]
           k == Script[c].ref
<1>1. [d \in Calls |-> Outcome(d)]' = [[d \in Calls |-> Outcome(d)] EXCEPT ![c] = "accepted"]
  BY OneOutcome
<1>2. k \in DOMAIN Relays /\ Relays[k] = Home(c) /\ Home(c) \in RelaySet
  BY HomeFacts DEF Home
<1>3. \A i \in DOMAIN Relays : Relays[i] \in RelaySet /\ (i # k => Relays[i] # Home(c))
  BY OneRelayEach DEF RelaySet
<1>4. acc' = [acc EXCEPT ![k] = Append(acc[k], c)]
  <2>1. \A i \in DOMAIN Relays :
          order'[Relays[i]] = IF i = k THEN Append(order[Relays[k]], c) ELSE order[Relays[i]]
    BY <1>2, <1>3 DEF TypeOK
  <2> QED
    BY <1>2, <2>1
<1>5. Reference!Accept(c)
  BY <1>1, <1>2, <1>4 DEF Reference!Accept
<1> QED
  BY <1>5 DEF Reference!Next, Ending

\* A call is refused.
LEMMA SeeRefuse ==
  ASSUME Ending => Ending', NEW c \in Calls, UNCHANGED order,
         Outcome(c) = "none",
         Outcome(c)' = "full" \/ (Ending /\ Outcome(c)' = "closed"),
         \A d \in Calls : d # c => Outcome(d)' = Outcome(d)
  PROVE  Reference!Next
<1>1. [d \in Calls |-> Outcome(d)]' = [[d \in Calls |-> Outcome(d)] EXCEPT ![c] = Outcome(c)']
  BY OneOutcome
<1>2. Reference!Refuse(c)
  BY <1>1 DEF Reference!Refuse, Ending
<1> QED
  BY <1>2 DEF Reference!Next, Ending

\* The oldest call of a reference is finished.
LEMMA SeeFinish ==
  ASSUME TypeOK, Ending => Ending', NEW c \in Calls, UNCHANGED order,
         Outcome(c) = "accepted", Outcome(c)' = "done",
         \A d \in Calls : d # c => Outcome(d)' = Outcome(d),
         \A i, j \in 1..Len(order[Home(c)]) :
           i < j /\ order[Home(c)][j] = c => Outcome(order[Home(c)][i]) # "accepted"
  PROVE  Reference!Next
<1> DEFINE out == [d \in Calls |-> Outcome(d)]
           q == order[Home(c)]
<1>1. out' = [out EXCEPT ![c] = "done"]
  BY OneOutcome
<1>2. /\ Script[c].ref \in DOMAIN Relays /\ Relays[Script[c].ref] = Home(c)
      /\ q \in Seq(Calls) /\ \A i \in 1..Len(q) : q[i] \in Calls
  BY HomeFacts DEF Home, TypeOK
<1>3. \A i, j \in 1..Len(q) : i < j /\ q[j] = c => out[q[i]] # "accepted"
  BY <1>2
<1>4. Reference!IsNext(c)
  BY <1>2, <1>3 DEF Reference!IsNext
<1>5. Reference!Finish(c)
  BY <1>1, <1>4 DEF Reference!Finish
<1> QED
  BY <1>5 DEF Reference!Next, Ending

\* What users see of a status.
LEMMA OutcomeFacts ==
  ASSUME NEW c \in Calls, NEW d \in Calls
  PROVE  /\ status'[d] = status[c] => Outcome(d)' = Outcome(c)
         /\ status[c] \in {"unsent", "reserved"} => Outcome(c) = "none"
         /\ status[c] \in Pending => Outcome(c) = "accepted"
         /\ status[c] \notin Pending => Outcome(c) # "accepted" \/ status[c] \notin Statuses
         /\ status'[c] \in {"unsent", "reserved"} => Outcome(c)' = "none"
         /\ status'[c] \in Pending => Outcome(c)' = "accepted"
         /\ status[c] \in {"handled", "answered", "replied"} => Outcome(c) = "done"
         /\ status'[c] \in {"handled", "answered", "replied"} => Outcome(c)' = "done"
         /\ status[c] \in Lost => Outcome(c) = "lost"
         /\ status'[c] \in Lost => Outcome(c)' = "lost"
         /\ status'[c] \in {"full", "closed"} => Outcome(c)' = status'[c]
BY DEF Outcome, Pending, Lost, Statuses

\* Every step of Relay maps to a step of TypedReference or to none.
LEMMA NextTyped ==
  IInv /\ ReferenceInv /\ [Next]_vars => [Reference!Next]_(Reference!vars)
<1> SUFFICES ASSUME IInv, ReferenceInv, [Next]_vars
             PROVE  Reference!Next \/ UNCHANGED Reference!vars
  OBVIOUS
<1>1. TypeOK /\ (Ending => Ending')
  BY EndingStays DEF IInv
<1>2. \A c \in Calls : status[c] # "unsent" => Built
  BY DEF IInv, UnbuiltInv
<1>3. Built => \A c \in Calls : Via(c) = Home(c) /\ Home(c) \in RelaySet
  BY <1>1, ViaIsHome, HomeFacts DEF ReferenceInv
<1>4. closed \/ shutdown \/ aborted \/ NotifierDropped => Ending
  BY DEF ReferenceInv, EndingInv, Ending, NotifierDropped
<1>5. CASE Quiet
  BY <1>1, <1>5, SeeNothing, OutcomeFacts DEF Quiet
<1>6. ASSUME NEW c \in Calls, Reserve(c)
      PROVE  Reference!Next \/ UNCHANGED Reference!vars
  <2>1. /\ UNCHANGED order /\ status[c] = "unsent" /\ status'[c] = "reserved"
        /\ \A d \in Calls : d # c => status'[d] = status[d]
    BY <1>1, <1>6 DEF Reserve, TypeOK
  <2>2. \A d \in Calls : Outcome(d)' = Outcome(d)
    BY <2>1, OutcomeFacts
  <2> QED
    BY <1>1, <2>1, <2>2, SeeNothing
<1>7. ASSUME NEW c \in Calls, Refuse(c) PROVE Reference!Next
  <2>1. /\ UNCHANGED order /\ status[c] = "unsent"
        /\ status'[c] \in {"full", "closed"}
        /\ \A d \in Calls : d # c => status'[d] = status[d]
    BY <1>1, <1>7 DEF Refuse, TypeOK
  <2>2. status'[c] = "closed" => Ending
    <3>1. Built /\ Via(c) \in refs
      BY <1>7 DEF Refuse
    <3>2. status'[c] = "closed" => relay[Home(c)] \in {"gone", "crashed"}
      BY <1>1, <1>3, <1>7, <3>1 DEF Refuse, ChannelClosed, TypeOK
    <3> QED
      BY <1>3, <3>1, <3>2 DEF ReferenceInv, EndingInv
  <2>3. Outcome(c) = "none" /\ Outcome(c)' = status'[c]
    BY <2>1, OutcomeFacts
  <2>4. \A d \in Calls : d # c => Outcome(d)' = Outcome(d)
    BY <2>1, OutcomeFacts
  <2> QED
    BY <1>1, <2>1, <2>2, <2>3, <2>4, SeeRefuse
<1>8. ASSUME NEW c \in Calls, Push(c) PROVE Reference!Next
  <2>1. status[c] = "reserved" /\ Via(c) = Home(c) /\ Home(c) \in RelaySet
    BY <1>2, <1>3, <1>8 DEF Push
  <2>2. CASE ChannelClosed(Home(c))
    <3>1. /\ UNCHANGED order /\ status'[c] = "late"
          /\ \A d \in Calls : d # c => status'[d] = status[d]
      BY <1>1, <1>8, <2>1, <2>2 DEF Push, TypeOK
    <3>2. Ending
      BY <2>1, <2>2 DEF ReferenceInv, EndingInv, ChannelClosed
    <3>3. Outcome(c) = "none" /\ Outcome(c)' = "lost"
      BY <2>1, <3>1, OutcomeFacts DEF Lost
    <3>4. \A d \in Calls : d # c => Outcome(d)' = Outcome(d)
      BY <3>1, OutcomeFacts
    <3> QED
      BY <1>1, <3>1, <3>2, <3>3, <3>4, SeeLoss
  <2>3. CASE ~ChannelClosed(Home(c))
    <3>1. /\ status'[c] = "accepted"
          /\ order' = [order EXCEPT ![Home(c)] = Append(order[Home(c)], c)]
          /\ \A d \in Calls : d # c => status'[d] = status[d]
      BY <1>1, <1>8, <2>1, <2>3 DEF Push, TypeOK
    <3>2. Outcome(c) = "none" /\ Outcome(c)' = "accepted"
      BY <2>1, <3>1, OutcomeFacts DEF Pending
    <3>3. \A d \in Calls : d # c => Outcome(d)' = Outcome(d)
      BY <3>1, OutcomeFacts
    <3> QED
      BY <1>1, <3>1, <3>2, <3>3, SeeAccept
  <2> QED
    BY <2>2, <2>3
<1>9. ASSUME NEW r \in RelaySet, Take(r)
      PROVE  Reference!Next \/ UNCHANGED Reference!vars
  <2> DEFINE c == Head(channel[r])
  <2>1. c \in Calls /\ In(channel[r], c)
    BY <1>1, <1>9, TakeFirst DEF Take, TypeOK, ReferenceInv, PlaceInv, ChannelInv
  <2>2. UNCHANGED order /\ status' = [status EXCEPT ![c] = "taken"]
    BY <1>9 DEF Take
  <2> HIDE DEF c
  <2>3. status[c] = "accepted"
    BY <2>1 DEF ReferenceInv, PlaceInv, ChannelInv
  <2>4. status'[c] = "taken" /\ \A d \in Calls : d # c => status'[d] = status[d]
    BY <1>1, <2>1, <2>2 DEF TypeOK
  <2>5. \A d \in Calls : Outcome(d)' = Outcome(d)
    BY <2>1, <2>3, <2>4, OutcomeFacts DEF Pending
  <2> QED
    BY <1>1, <2>2, <2>5, SeeNothing
<1>10. ASSUME NEW r \in RelaySet, ForwardPush(r)
       PROVE  Reference!Next \/ UNCHANGED Reference!vars
  <2>0. PICK c \in Calls : c = held[r]
    BY <1>10 DEF ForwardPush, ReferenceInv, PlaceInv, HeldInv
  <2>1. status[c] = "taken" /\ UNCHANGED order
    BY <1>10, <2>0 DEF ForwardPush, ReferenceInv, PlaceInv, HeldInv
  <2>2. \/ NotifierDropped /\ status' = [status EXCEPT ![c] = "late"]
        \/ status' = [status EXCEPT ![c] = "forwarded"]
    BY <1>10, <2>0 DEF ForwardPush
  <2>3. /\ \A d \in Calls : d # c => status'[d] = status[d]
        /\ status'[c] = "forwarded" \/ (NotifierDropped /\ status'[c] = "late")
    BY <1>1, <2>1, <2>2 DEF TypeOK
  <2>4. \A d \in Calls : d # c => Outcome(d)' = Outcome(d)
    BY <2>3, OutcomeFacts
  <2>5. Outcome(c) = "accepted"
    BY <2>1, OutcomeFacts DEF Pending
  <2>6. CASE status'[c] = "forwarded"
    <3>1. Outcome(c)' = "accepted"
      BY <2>1, <2>6, OutcomeFacts DEF Pending
    <3> QED
      BY <1>1, <2>1, <2>4, <2>5, <3>1, SeeNothing
  <2>7. CASE NotifierDropped /\ status'[c] = "late"
    <3>1. Outcome(c)' = "lost"
      BY <2>1, <2>7, OutcomeFacts DEF Lost
    <3> QED
      BY <1>1, <1>4, <2>1, <2>4, <2>5, <2>7, <3>1, SeeLoss
  <2> QED
    BY <2>3, <2>6, <2>7
<1>11. ASSUME NEW r \in RelaySet, ForwardClosed(r) PROVE Reference!Next
  <2>1. held[r] \in Calls /\ status[held[r]] = "taken" /\ UNCHANGED order /\ Ending
    BY <1>4, <1>11 DEF ForwardClosed, ReferenceInv, PlaceInv, HeldInv
  <2>2. \/ status' = [status EXCEPT ![held[r]] = "dropped"]
        \/ status' = [d \in Calls |->
                        IF d = held[r] THEN "dropped"
                        ELSE IF status[d] = "accepted" /\ Via(d) = r THEN "discarded"
                        ELSE status[d]]
    BY <1>11 DEF ForwardClosed
  <2>3. \A d \in Calls :
          \/ status'[d] = status[d]
          \/ status[d] \in {"taken", "accepted"} /\ status'[d] \in {"dropped", "discarded"}
    BY <1>1, <2>1, <2>2 DEF TypeOK
  <2>4. \A d \in Calls : \/ Outcome(d)' = Outcome(d)
                         \/ Outcome(d) = "accepted" /\ Outcome(d)' = "lost"
    BY <2>3, OutcomeFacts DEF Pending, Lost
  <2> QED
    BY <1>1, <2>1, <2>4, SeeLoss
<1>12. ASSUME NEW r \in RelaySet, RelayAnswer(r)
       PROVE  Reference!Next \/ UNCHANGED Reference!vars
  <2>1. held[r] \in Calls /\ UNCHANGED order /\ status[held[r]] \in {"answered", "unanswered"}
    BY <1>1, <1>12 DEF RelayAnswer, IInv, RelayInv, TypeOK
  <2>2. status' = [status EXCEPT ![held[r]] = IF status[held[r]] = "answered" THEN "replied"
                                              ELSE "dropped"]
    BY <1>12 DEF RelayAnswer
  <2>3. /\ status'[held[r]] = IF status[held[r]] = "answered" THEN "replied" ELSE "dropped"
        /\ \A d \in Calls : d # held[r] => status'[d] = status[d]
    BY <1>1, <2>1, <2>2 DEF TypeOK
  <2>4. \A d \in Calls : Outcome(d)' = Outcome(d)
    BY <2>1, <2>3, OutcomeFacts DEF Lost
  <2> QED
    BY <1>1, <2>1, <2>4, SeeNothing
<1>13. ASSUME NEW r \in RelaySet, Drops(r)
       PROVE  Reference!Next \/ UNCHANGED Reference!vars
  <2>1. /\ UNCHANGED order
        /\ status' = [c \in Calls |-> IF status[c] = "accepted" /\ Via(c) = r
                                     THEN "discarded" ELSE status[c]]
    BY <1>13 DEF Drops, CloseChannel
  <2>2. CASE Ending'
    <3>1. \A d \in Calls : \/ Outcome(d)' = Outcome(d)
                           \/ Outcome(d) = "accepted" /\ Outcome(d)' = "lost"
      BY <2>1, OutcomeFacts DEF Pending, Lost
    <3> QED
      BY <2>1, <2>2, <3>1, SeeLoss
  <2>3. CASE ~Ending'
    <3>1. relay'[r] \in {"gone", "crashed"} /\ channel'[r] = <<>> /\ UNCHANGED pc
      BY <1>1, <1>13 DEF Drops, CloseChannel, TypeOK, actor
    <3>2. ~Ending
      BY <1>1, <2>3
    <3>3. channel[r] = <<>>
      BY <1>4, <1>13, <3>2 DEF Drops, ReferenceInv, EndingInv
    <3>4. \A c \in Calls : ~(status[c] = "accepted" /\ Via(c) = r)
      BY <1>2, <1>3, <3>3, EmptySequence DEF ReferenceInv, PlaceInv, ChannelInv
    <3>5. \A d \in Calls : Outcome(d)' = Outcome(d)
      BY <2>1, <3>4, OutcomeFacts
    <3> QED
      BY <1>1, <2>1, <3>5, SeeNothing
  <2> QED
    BY <2>2, <2>3
<1>14. CASE Receive
  <2>1. UNCHANGED <<status, order>>
    BY <1>14 DEF Receive
  <2> QED
    BY <1>1, <2>1, SeeNothing, OutcomeFacts
<1>15. ASSUME NEW b \in BOOLEAN, pc \in Handling, Return(b) PROVE Reference!Next
  <2>1. /\ cur \in Calls /\ status[cur] = "forwarded"
        /\ status'[cur] \in {"handled", "answered"}
        /\ \A d \in Calls : d # cur => status'[d] = status[d]
        /\ UNCHANGED order
    BY <1>15, ReturnFacts
  <2>2. PICK c \in Calls : c = cur
    BY <2>1
  <2>3. Outcome(c) = "accepted" /\ Outcome(c)' = "done"
    BY <2>1, <2>2, OutcomeFacts DEF Pending
  <2>4. \A d \in Calls : d # c => Outcome(d)' = Outcome(d)
    BY <2>1, <2>2, OutcomeFacts
  <2>5. ASSUME NEW i \in 1..Len(order[Home(c)]), NEW j \in 1..Len(order[Home(c)]),
               i < j, order[Home(c)][j] = c
        PROVE  Outcome(order[Home(c)][i]) # "accepted"
    <3>0. order[Home(c)] \in Seq(Calls)
      BY <1>1, HomeFacts DEF TypeOK
    <3>1. PICK d \in Calls : d = order[Home(c)][i]
      BY <2>5, <3>0
    <3>2. ~Ahead(Home(c), d, c)
      BY <2>1, <2>2 DEF Ahead
    <3>3. status[d] \notin Pending
      BY <2>1, <2>2, <2>5, <3>1, <3>2, HomeFacts
          DEF ReferenceInv, PlaceInv, OrderInv, Pending
    <3>4. status[d] \in Statuses
      BY <1>1 DEF TypeOK
    <3> QED
      BY <3>1, <3>3, <3>4, OutcomeFacts
  <2> QED
    BY <1>1, <2>1, <2>3, <2>4, <2>5, SeeFinish
<1>16. CASE Crash
  <2>1. /\ UNCHANGED order /\ Ending'
        /\ \A d \in Calls : \/ status'[d] = status[d]
                            \/ /\ status[d] = "forwarded"
                               /\ status'[d] \in {"dropped", "unanswered"}
    BY <1>16 DEF Crash, Ending
  <2>2. \A d \in Calls : \/ Outcome(d)' = Outcome(d)
                         \/ Outcome(d) = "accepted" /\ Outcome(d)' = "lost"
    BY <2>1, OutcomeFacts DEF Pending, Lost
  <2> QED
    BY <2>1, <2>2, SeeLoss
<1> QED
  BY Steps, <1>5, <1>6, <1>7, <1>8, <1>9, <1>10, <1>11, <1>12, <1>13, <1>14, <1>15, <1>16

\* Nobody has called anything yet.
LEMMA InitTyped == Init => Reference!Init
<1> SUFFICES ASSUME Init PROVE Reference!Init
  OBVIOUS
<1>1. \A c \in Calls : Outcome(c) = "none"
  BY DEF Init, Outcome
<1>2. \A i \in DOMAIN Relays : order[Relays[i]] = <<>>
  BY DEF Init, RelaySet
<1> QED
  BY <1>1, <1>2 DEF Init, Reference!Init

\* Behind every reference of a CtxBuilder, whatever the relays, the calls and the
\* sizes: a call is handled at most once and in order, and only an actor that is
\* ending or was never run loses calls or looks closed.
THEOREM ReferenceRefinement == Spec => ReferenceSpec
BY InitTyped, NextTyped, InductiveInvariant, ReferenceInvHolds, PTL
   DEF Spec, ReferenceSpec, Reference!Spec

=============================================================================
