----------------------------- MODULE RelayProofs -----------------------------
(***************************************************************************)
(* Proofs for Relay, for any relays, script and bounds.                    *)
(***************************************************************************)
EXTENDS Relay, TLAPS

\* The inductive invariant.  Before the actor runs no call is on its way; a call
\* that was taken is in the hands of a relay, one that was forwarded is in the
\* mailbox or being handled; what was lost was lost by an abort or a panic.
UnbuiltInv ==
  ~Built => /\ \A c \in Calls : status[c] = "unsent"
            /\ \A r \in RelaySet :
                 channel[r] = <<>> /\ relay[r] \notin {"holding", "reserved", "waiting"}

TakenInv ==
  \A c \in Calls : status[c] = "taken" =>
    \E r \in RelaySet : relay[r] \in {"holding", "reserved"} /\ held[r] = c

ForwardedInv ==
  /\ cur # Nil <=> pc \in Handling
  /\ pc = "over" => mailbox = <<>>
  /\ \A c \in Calls : status[c] = "forwarded" =>
       cur = c \/ \E i \in 1..Len(mailbox) : mailbox[i] = c

LostInv ==
  \A c \in Calls : status[c] \in {"dropped", "unanswered"} => aborted \/ pc = "crashed"

CrashInv ==
  \A r \in RelaySet : relay[r] = "crashed" => aborted \/ pc \in {"crashed", "discarded"}

IInv ==
  TypeOK /\ RelayInv /\ UnbuiltInv /\ TakenInv /\ ForwardedInv /\ LostInv /\ CrashInv

\* What Append does.
LEMMA AppendFacts ==
  ASSUME NEW S, NEW s \in Seq(S), NEW e \in S
  PROVE  /\ Append(s, e) \in Seq(S)
         /\ Len(Append(s, e)) = Len(s) + 1
         /\ Append(s, e)[Len(s) + 1] = e
         /\ \A i \in 1..Len(s) : Append(s, e)[i] = s[i]
OBVIOUS

\* Every step keeps the type.  That a relay forwards a call, and not Nil, is in
\* RelayInv.
LEMMA NextType == IInv /\ [Next]_vars => TypeOK'
<1> SUFFICES ASSUME IInv, [Next]_vars PROVE TypeOK'
  OBVIOUS
<1> USE RelaysAssumption, ScriptAssumption, BoundsAssumption
    DEF IInv, TypeOK, RelayInv, Positions, Handling, RelayStates, Active, Statuses,
        Pending, Lost, actor, built, relays
<1>1. CASE UNCHANGED vars
  BY <1>1 DEF vars
<1>2. CASE AddReference
  <2>0. Relays[Len(senders) + 1] \in RelaySet
    BY <1>2 DEF AddReference, RelaySet
  <2>1. PICK r \in RelaySet : /\ senders' = <<r>> \o senders
                             /\ refs' = refs \cup {r}
                             /\ relay' = [relay EXCEPT ![r] = "idle"]
    BY <1>2, <2>0, Zenon DEF AddReference
  <2>2. senders' \in Seq(RelaySet) /\ refs' \in SUBSET RelaySet
    BY <2>1
  <2>3. relay' \in [RelaySet -> RelayStates]
    BY <2>1
  <2>4. QED
    BY <1>2, <2>2, <2>3 DEF AddReference
<1>3. CASE RunBuilder
  BY <1>3 DEF RunBuilder
<1>4. CASE DropBuilder
  BY <1>4 DEF DropBuilder
<1>5. CASE SupervisorSpeaks
  <2>1. CASE Crash
    BY <1>5, <2>1 DEF SupervisorSpeaks, Crash
  <2>2. CASE ~Crash
    BY <1>5, <2>2 DEF SupervisorSpeaks
  <2> QED
    BY <2>1, <2>2
<1>6. CASE Receive
  <2>1. mailbox' \in Seq(Calls) /\ cur' \in Calls
    BY <1>6 DEF Receive
  <2>2. pc' \in Positions
    BY <1>6 DEF Receive
  <2>3. QED
    BY <1>6, <2>1, <2>2 DEF Receive
<1>7. CASE HandleNormal
  BY <1>7 DEF HandleNormal, Serves, Return
<1>8. CASE HandleStop
  BY <1>8 DEF HandleStop, Serves, Return
<1>9. CASE HandleAbort
  BY <1>9 DEF HandleAbort, Serves, Return
<1>10. CASE HandlePanic
  BY <1>10 DEF HandlePanic, Serves, Crash
<1>11. CASE BeginShutdown
  <2>1. closed' \in BOOLEAN /\ shutdown' \in BOOLEAN /\ aborted' \in BOOLEAN
    BY <1>11, Zenon DEF BeginShutdown, NoRelays
  <2>2. timeouts' \in 0..TimeoutLimit /\ pc' \in Positions
    BY <1>11 DEF BeginShutdown, NoRelays
  <2>3. QED
    BY <1>11, <2>1, <2>2 DEF BeginShutdown, NoRelays
<1>12. CASE StoppingMailboxClosed
  BY <1>12 DEF StoppingMailboxClosed
<1>13. CASE StoppingTimeout
  <2>1. closed' \in BOOLEAN /\ shutdown' \in BOOLEAN /\ aborted' \in BOOLEAN
    BY <1>13, Zenon DEF StoppingTimeout, Crash
  <2>2. CASE Crash
    BY <2>1, <2>2 DEF Crash
  <2>3. CASE ~Crash
    <3>1. timeouts \in Nat /\ timeouts # TimeoutLimit /\ timeouts' = timeouts + 1
      BY <1>13, <2>3 DEF StoppingTimeout
    <3>2. timeouts' \in 0..TimeoutLimit
      BY <3>1
    <3>3. QED
      BY <1>13, <2>3, <3>2 DEF StoppingTimeout
  <2>4. QED
    BY <2>2, <2>3
<1>14. CASE CheckRelays
  BY <1>14 DEF CheckRelays, NoRelays, IsClosed
<1>15. CASE End
  BY <1>15 DEF End
<1>16. ASSUME NEW c \in Calls, Reserve(c) PROVE TypeOK'
  BY <1>16 DEF Reserve
<1>17. ASSUME NEW c \in Calls, Push(c) PROVE TypeOK'
  <2>1. CASE ChannelClosed(Via(c))
    BY <1>17, <2>1 DEF Push
  <2>2. CASE ~ChannelClosed(Via(c))
    <3> DEFINE r == Via(c)
    <3>1. r \in RelaySet => /\ Append(channel[r], c) \in Seq(Calls)
                            /\ Append(order[r], c) \in Seq(Calls)
      BY AppendFacts
    <3>2. channel' = [channel EXCEPT ![r] = Append(channel[r], c)]
      BY <1>17, <2>2 DEF Push
    <3>3. order' = [order EXCEPT ![r] = Append(order[r], c)]
      BY <1>17, <2>2 DEF Push
    <3>4. channel' \in [RelaySet -> Seq(Calls)] /\ order' \in [RelaySet -> Seq(Calls)]
      <4> HIDE DEF r
      <4>1. QED
        BY <3>1, <3>2, <3>3
    <3>5. QED
      BY <1>17, <2>2, <3>4 DEF Push
  <2>3. QED
    BY <2>1, <2>2
<1>18. ASSUME NEW c \in Calls, Refuse(c) PROVE TypeOK'
  BY <1>18 DEF Refuse
<1>19. ASSUME NEW r \in RelaySet, Take(r) PROVE TypeOK'
  <2>1. Head(channel[r]) \in Calls /\ Tail(channel[r]) \in Seq(Calls)
    BY <1>19 DEF Take
  <2>2. QED
    BY <1>19, <2>1 DEF Take
<1>20. ASSUME NEW r \in RelaySet, Forward(r) PROVE TypeOK'
  BY <1>20 DEF Forward
<1>21. ASSUME NEW r \in RelaySet, ForwardPush(r) PROVE TypeOK'
  <2>1. Append(mailbox, held[r]) \in Seq(Calls)
    BY <1>21, AppendFacts DEF ForwardPush
  <2>2. mailbox' \in Seq(Calls)
    BY <1>21, <2>1 DEF ForwardPush
  <2>3. QED
    BY <1>21, <2>2, ZenonT(30) DEF ForwardPush
<1>22. ASSUME NEW r \in RelaySet, ForwardClosed(r) PROVE TypeOK'
  <2>1. CASE Kind[r] = "sender"
    BY <1>22, <2>1 DEF ForwardClosed
  <2>2. CASE Kind[r] # "sender"
    <3>1. status' \in [Calls -> Statuses]
      BY <1>22, <2>2 DEF ForwardClosed
    <3>2. <<>> \in Seq(Calls)
      OBVIOUS
    <3>3. QED
      BY <1>22, <2>2, <3>1, <3>2, ZenonT(30) DEF ForwardClosed
  <2>3. QED
    BY <2>1, <2>2
<1>23. ASSUME NEW r \in RelaySet, RelayAnswer(r) PROVE TypeOK'
  BY <1>23 DEF RelayAnswer
<1>24. ASSUME NEW r \in RelaySet, RelayShutdown(r) PROVE TypeOK'
  BY <1>24 DEF RelayShutdown, Leave
<1>25. ASSUME NEW r \in RelaySet, RelayUnused(r) PROVE TypeOK'
  BY <1>25 DEF RelayUnused, Leave
<1>26. ASSUME NEW r \in RelaySet, RelayOrphaned(r) PROVE TypeOK'
  BY <1>26, SMTT(20) DEF RelayOrphaned, CloseChannel
<1>27. ASSUME NEW r \in RelaySet, RelayReturn(r) PROVE TypeOK'
  BY <1>27 DEF RelayReturn, CloseChannel
<1>28. ASSUME NEW r \in RelaySet, DropReference(r) PROVE TypeOK'
  BY <1>28 DEF DropReference
<1>29. QED
  BY <1>1, <1>2, <1>3, <1>4, <1>5, <1>6, <1>7, <1>8, <1>9, <1>10, <1>11, <1>12, <1>13,
     <1>14, <1>15, <1>16, <1>17, <1>18, <1>19, <1>20, <1>21, <1>22, <1>23, <1>24, <1>25,
     <1>26, <1>27, <1>28
      DEF Next, BuilderStep, ActorStep, CallerStep, RelayStep

\* Every step keeps RelayInv: the mailbox is closed when no relay is left, and relays
\* are added only before the actor runs.
LEMMA NextRelayInv == IInv /\ [Next]_vars => RelayInv'
<1> SUFFICES ASSUME IInv, [Next]_vars PROVE RelayInv'
  OBVIOUS
<1> USE ScriptAssumption
    DEF IInv, TypeOK, RelayInv, Positions, Handling, RelayStates, Active, Statuses,
        Pending, Lost, NotifierDropped, actor, built, relays
<1>1. CASE UNCHANGED vars
  BY <1>1 DEF vars
<1>2. CASE AddReference
  BY <1>2 DEF AddReference, UnbuiltInv, Built
<1>3. CASE RunBuilder
  BY <1>3 DEF RunBuilder
<1>4. CASE DropBuilder
  BY <1>4 DEF DropBuilder
<1>5. CASE SupervisorSpeaks
  BY <1>5 DEF SupervisorSpeaks, Crash
<1>6. CASE Receive
  BY <1>6 DEF Receive
<1>7. CASE HandleNormal
  BY <1>7 DEF HandleNormal, Serves, Return
<1>8. CASE HandleStop
  BY <1>8 DEF HandleStop, Serves, Return
<1>9. CASE HandleAbort
  BY <1>9 DEF HandleAbort, Serves, Return
<1>10. CASE HandlePanic
  BY <1>10 DEF HandlePanic, Serves, Crash
<1>11. CASE BeginShutdown
  BY <1>11 DEF BeginShutdown, NoRelays, IsClosed
<1>12. CASE StoppingMailboxClosed
  BY <1>12 DEF StoppingMailboxClosed
<1>13. CASE StoppingTimeout
  BY <1>13 DEF StoppingTimeout, Crash
<1>14. CASE CheckRelays
  BY <1>14 DEF CheckRelays, NoRelays, IsClosed
<1>15. CASE End
  BY <1>15 DEF End
<1>16. ASSUME NEW c \in Calls, Reserve(c) PROVE RelayInv'
  BY <1>16 DEF Reserve
<1>17. ASSUME NEW c \in Calls, Push(c) PROVE RelayInv'
  BY <1>17 DEF Push
<1>18. ASSUME NEW c \in Calls, Refuse(c) PROVE RelayInv'
  BY <1>18 DEF Refuse
<1>19. ASSUME NEW r \in RelaySet, Take(r) PROVE RelayInv'
  BY <1>19 DEF Take
<1>20. ASSUME NEW r \in RelaySet, Forward(r) PROVE RelayInv'
  BY <1>20 DEF Forward
<1>21. ASSUME NEW r \in RelaySet, ForwardPush(r) PROVE RelayInv'
  BY <1>21, ZenonT(30) DEF ForwardPush
<1>22. ASSUME NEW r \in RelaySet, ForwardClosed(r) PROVE RelayInv'
  BY <1>22 DEF ForwardClosed
<1>23. ASSUME NEW r \in RelaySet, RelayAnswer(r) PROVE RelayInv'
  BY <1>23 DEF RelayAnswer
<1>24. ASSUME NEW r \in RelaySet, RelayShutdown(r) PROVE RelayInv'
  BY <1>24 DEF RelayShutdown, Leave
<1>25. ASSUME NEW r \in RelaySet, RelayUnused(r) PROVE RelayInv'
  BY <1>25 DEF RelayUnused, Leave
<1>26. ASSUME NEW r \in RelaySet, RelayOrphaned(r) PROVE RelayInv'
  BY <1>26 DEF RelayOrphaned, CloseChannel
<1>27. ASSUME NEW r \in RelaySet, RelayReturn(r) PROVE RelayInv'
  BY <1>27 DEF RelayReturn, CloseChannel
<1>28. ASSUME NEW r \in RelaySet, DropReference(r) PROVE RelayInv'
  BY <1>28 DEF DropReference
<1>29. QED
  BY <1>1, <1>2, <1>3, <1>4, <1>5, <1>6, <1>7, <1>8, <1>9, <1>10, <1>11, <1>12, <1>13,
     <1>14, <1>15, <1>16, <1>17, <1>18, <1>19, <1>20, <1>21, <1>22, <1>23, <1>24, <1>25,
     <1>26, <1>27, <1>28
      DEF Next, BuilderStep, ActorStep, CallerStep, RelayStep

\* Every step keeps UnbuiltInv: users have no reference before the builder has run.
LEMMA NextUnbuilt == IInv /\ [Next]_vars => UnbuiltInv'
<1> SUFFICES ASSUME IInv, [Next]_vars PROVE UnbuiltInv'
  OBVIOUS
<1> USE ScriptAssumption
    DEF IInv, TypeOK, RelayInv, Positions, Handling, RelayStates, Active, Statuses,
        Pending, Lost, UnbuiltInv, Built, actor, built, relays
<1>1. CASE UNCHANGED vars
  BY <1>1 DEF vars
<1>2. CASE AddReference
  BY <1>2 DEF AddReference
<1>3. CASE RunBuilder
  BY <1>3 DEF RunBuilder
<1>4. CASE DropBuilder
  BY <1>4 DEF DropBuilder
<1>5. CASE SupervisorSpeaks
  BY <1>5 DEF SupervisorSpeaks, Crash
<1>6. CASE Receive
  BY <1>6 DEF Receive
<1>7. CASE HandleNormal
  BY <1>7 DEF HandleNormal, Serves, Return
<1>8. CASE HandleStop
  BY <1>8 DEF HandleStop, Serves, Return
<1>9. CASE HandleAbort
  BY <1>9 DEF HandleAbort, Serves, Return
<1>10. CASE HandlePanic
  BY <1>10 DEF HandlePanic, Serves, Crash
<1>11. CASE BeginShutdown
  BY <1>11 DEF BeginShutdown, NoRelays, IsClosed
<1>12. CASE StoppingMailboxClosed
  BY <1>12 DEF StoppingMailboxClosed
<1>13. CASE StoppingTimeout
  BY <1>13 DEF StoppingTimeout, Crash
<1>14. CASE CheckRelays
  BY <1>14 DEF CheckRelays, NoRelays, IsClosed
<1>15. CASE End
  BY <1>15 DEF End
<1>16. ASSUME NEW c \in Calls, Reserve(c) PROVE UnbuiltInv'
  BY <1>16 DEF Reserve
<1>17. ASSUME NEW c \in Calls, Push(c) PROVE UnbuiltInv'
  BY <1>17 DEF Push
<1>18. ASSUME NEW c \in Calls, Refuse(c) PROVE UnbuiltInv'
  BY <1>18 DEF Refuse
<1>19. ASSUME NEW r \in RelaySet, Take(r) PROVE UnbuiltInv'
  BY <1>19 DEF Take
<1>20. ASSUME NEW r \in RelaySet, Forward(r) PROVE UnbuiltInv'
  BY <1>20 DEF Forward
<1>21. ASSUME NEW r \in RelaySet, ForwardPush(r) PROVE UnbuiltInv'
  BY <1>21 DEF ForwardPush
<1>22. ASSUME NEW r \in RelaySet, ForwardClosed(r) PROVE UnbuiltInv'
  BY <1>22 DEF ForwardClosed
<1>23. ASSUME NEW r \in RelaySet, RelayAnswer(r) PROVE UnbuiltInv'
  BY <1>23 DEF RelayAnswer
<1>24. ASSUME NEW r \in RelaySet, RelayShutdown(r) PROVE UnbuiltInv'
  BY <1>24 DEF RelayShutdown, Leave
<1>25. ASSUME NEW r \in RelaySet, RelayUnused(r) PROVE UnbuiltInv'
  BY <1>25 DEF RelayUnused, Leave
<1>26. ASSUME NEW r \in RelaySet, RelayOrphaned(r) PROVE UnbuiltInv'
  BY <1>26 DEF RelayOrphaned, CloseChannel
<1>27. ASSUME NEW r \in RelaySet, RelayReturn(r) PROVE UnbuiltInv'
  BY <1>27 DEF RelayReturn, CloseChannel
<1>28. ASSUME NEW r \in RelaySet, DropReference(r) PROVE UnbuiltInv'
  BY <1>28 DEF DropReference
<1>29. QED
  BY <1>1, <1>2, <1>3, <1>4, <1>5, <1>6, <1>7, <1>8, <1>9, <1>10, <1>11, <1>12, <1>13,
     <1>14, <1>15, <1>16, <1>17, <1>18, <1>19, <1>20, <1>21, <1>22, <1>23, <1>24, <1>25,
     <1>26, <1>27, <1>28
      DEF Next, BuilderStep, ActorStep, CallerStep, RelayStep

\* Every step keeps TakenInv: a relay lets go of a call only as it forwards or drops
\* it.
LEMMA NextTaken == IInv /\ [Next]_vars => TakenInv'
<1> SUFFICES ASSUME IInv, [Next]_vars PROVE TakenInv'
  OBVIOUS
<1> USE ScriptAssumption
    DEF IInv, TypeOK, RelayInv, Positions, Handling, RelayStates, Active, Statuses,
        Pending, Lost, TakenInv, UnbuiltInv, Built, actor, built, relays
<1>1. CASE UNCHANGED vars
  BY <1>1 DEF vars
<1>2. CASE AddReference
  BY <1>2 DEF AddReference
<1>3. CASE RunBuilder
  BY <1>3 DEF RunBuilder
<1>4. CASE DropBuilder
  BY <1>4 DEF DropBuilder
<1>5. CASE SupervisorSpeaks
  <2>1. CASE Crash
    BY <1>5, <2>1 DEF SupervisorSpeaks, Crash
  <2>2. CASE ~Crash
    BY <1>5, <2>2 DEF SupervisorSpeaks
  <2> QED
    BY <2>1, <2>2
<1>6. CASE Receive
  BY <1>6 DEF Receive
<1>7. CASE HandleNormal
  BY <1>7 DEF HandleNormal, Serves, Return
<1>8. CASE HandleStop
  BY <1>8 DEF HandleStop, Serves, Return
<1>9. CASE HandleAbort
  BY <1>9 DEF HandleAbort, Serves, Return
<1>10. CASE HandlePanic
  BY <1>10 DEF HandlePanic, Serves, Crash
<1>11. CASE BeginShutdown
  BY <1>11 DEF BeginShutdown, NoRelays, IsClosed
<1>12. CASE StoppingMailboxClosed
  BY <1>12 DEF StoppingMailboxClosed
<1>13. CASE StoppingTimeout
  <2>1. \A c \in Calls : status'[c] = "taken" => status[c] = "taken"
    BY <1>13 DEF StoppingTimeout, Crash
  <2>2. UNCHANGED <<relay, held>>
    BY <1>13 DEF StoppingTimeout, Crash
  <2>3. QED
    BY <2>1, <2>2
<1>14. CASE CheckRelays
  BY <1>14 DEF CheckRelays, NoRelays, IsClosed
<1>15. CASE End
  BY <1>15 DEF End
<1>16. ASSUME NEW c \in Calls, Reserve(c) PROVE TakenInv'
  BY <1>16 DEF Reserve
<1>17. ASSUME NEW c \in Calls, Push(c) PROVE TakenInv'
  BY <1>17, ZenonT(30) DEF Push
<1>18. ASSUME NEW c \in Calls, Refuse(c) PROVE TakenInv'
  BY <1>18 DEF Refuse
<1>19. ASSUME NEW r \in RelaySet, Take(r) PROVE TakenInv'
  BY <1>19, ZenonT(30) DEF Take
<1>20. ASSUME NEW r \in RelaySet, Forward(r) PROVE TakenInv'
  BY <1>20 DEF Forward
<1>21. ASSUME NEW r \in RelaySet, ForwardPush(r) PROVE TakenInv'
  <2> SUFFICES ASSUME NEW c \in Calls, status'[c] = "taken"
               PROVE  \E q \in RelaySet : relay'[q] \in {"holding", "reserved"} /\ held'[q] = c
    OBVIOUS
  <2>1. status[c] = "taken" /\ c # held[r]
    BY <1>21 DEF ForwardPush
  <2>2. PICK q \in RelaySet : relay[q] \in {"holding", "reserved"} /\ held[q] = c
    BY <2>1
  <2>3. q # r
    BY <2>1, <2>2
  <2>4. QED
    BY <1>21, <2>2, <2>3 DEF ForwardPush
<1>22. ASSUME NEW r \in RelaySet, ForwardClosed(r) PROVE TakenInv'
  <2> SUFFICES ASSUME NEW c \in Calls, status'[c] = "taken"
               PROVE  \E q \in RelaySet : relay'[q] \in {"holding", "reserved"} /\ held'[q] = c
    OBVIOUS
  <2>1. status[c] = "taken" /\ c # held[r]
    BY <1>22 DEF ForwardClosed
  <2>2. PICK q \in RelaySet : relay[q] \in {"holding", "reserved"} /\ held[q] = c
    BY <2>1
  <2>3. q # r
    BY <2>1, <2>2
  <2>4. QED
    BY <1>22, <2>2, <2>3 DEF ForwardClosed
<1>23. ASSUME NEW r \in RelaySet, RelayAnswer(r) PROVE TakenInv'
  BY <1>23 DEF RelayAnswer
<1>24. ASSUME NEW r \in RelaySet, RelayShutdown(r) PROVE TakenInv'
  BY <1>24 DEF RelayShutdown, Leave
<1>25. ASSUME NEW r \in RelaySet, RelayUnused(r) PROVE TakenInv'
  BY <1>25 DEF RelayUnused, Leave
<1>26. ASSUME NEW r \in RelaySet, RelayOrphaned(r) PROVE TakenInv'
  BY <1>26, ZenonT(30) DEF RelayOrphaned, CloseChannel
<1>27. ASSUME NEW r \in RelaySet, RelayReturn(r) PROVE TakenInv'
  BY <1>27 DEF RelayReturn, CloseChannel
<1>28. ASSUME NEW r \in RelaySet, DropReference(r) PROVE TakenInv'
  BY <1>28 DEF DropReference
<1>29. QED
  BY <1>1, <1>2, <1>3, <1>4, <1>5, <1>6, <1>7, <1>8, <1>9, <1>10, <1>11, <1>12, <1>13,
     <1>14, <1>15, <1>16, <1>17, <1>18, <1>19, <1>20, <1>21, <1>22, <1>23, <1>24, <1>25,
     <1>26, <1>27, <1>28
      DEF Next, BuilderStep, ActorStep, CallerStep, RelayStep

\* Every step keeps ForwardedInv: mailbox and process_message hand calls on.
LEMMA NextForwarded == IInv /\ [Next]_vars => ForwardedInv'
<1> SUFFICES ASSUME IInv, [Next]_vars PROVE ForwardedInv'
  OBVIOUS
<1> USE ScriptAssumption
    DEF IInv, TypeOK, RelayInv, Positions, Handling, RelayStates, Active, Statuses,
        Pending, Lost, ForwardedInv, actor, built, relays
<1>1. CASE UNCHANGED vars
  BY <1>1 DEF vars
<1>2. CASE AddReference
  BY <1>2 DEF AddReference
<1>3. CASE RunBuilder
  BY <1>3 DEF RunBuilder
<1>4. CASE DropBuilder
  BY <1>4 DEF DropBuilder
<1>5. CASE SupervisorSpeaks
  <2>1. CASE Crash
    BY <1>5, <2>1 DEF SupervisorSpeaks, Crash
  <2>2. CASE ~Crash
    BY <1>5, <2>2 DEF SupervisorSpeaks
  <2> QED
    BY <2>1, <2>2
<1>6. CASE Receive
  <2>1. cur = Nil /\ Len(mailbox) > 0
    BY <1>6 DEF Receive
  <2>2. cur' = mailbox[1] /\ cur' # Nil
    BY <1>6, <2>1 DEF Receive
  <2>3. ASSUME NEW c \in Calls, status[c] = "forwarded", cur' # c
        PROVE  \E i \in 1..Len(mailbox') : mailbox'[i] = c
    <3>1. PICK i \in 1..Len(mailbox) : mailbox[i] = c
      BY <2>1, <2>3
    <3>2. i # 1
      BY <2>2, <2>3, <3>1
    <3>3. i - 1 \in 1..Len(mailbox') /\ mailbox'[i - 1] = c
      BY <1>6, <3>1, <3>2 DEF Receive
    <3>4. QED
      BY <3>3
  <2>4. QED
    BY <1>6, <2>2, <2>3 DEF Receive
<1>7. CASE HandleNormal
  BY <1>7 DEF HandleNormal, Serves, Return
<1>8. CASE HandleStop
  BY <1>8 DEF HandleStop, Serves, Return
<1>9. CASE HandleAbort
  BY <1>9 DEF HandleAbort, Serves, Return
<1>10. CASE HandlePanic
  BY <1>10 DEF HandlePanic, Serves, Crash
<1>11. CASE BeginShutdown
  <2>1. /\ UNCHANGED <<cur, mailbox, status>>
        /\ pc \notin Handling
        /\ pc' \notin Handling \cup {"over"}
    BY <1>11 DEF BeginShutdown, NoRelays
  <2>2. QED
    BY <2>1
<1>12. CASE StoppingMailboxClosed
  BY <1>12 DEF StoppingMailboxClosed
<1>13. CASE StoppingTimeout
  <2>1. CASE Crash
    BY <2>1 DEF Crash
  <2>2. CASE ~Crash
    <3>1. /\ UNCHANGED <<cur, mailbox, status>>
          /\ pc \notin Handling
          /\ pc' \notin Handling \cup {"over"}
      BY <1>13, <2>2 DEF StoppingTimeout
    <3>2. QED
      BY <3>1
  <2>3. QED
    BY <2>1, <2>2
<1>14. CASE CheckRelays
  BY <1>14 DEF CheckRelays, NoRelays, IsClosed
<1>15. CASE End
  BY <1>15 DEF End
<1>16. ASSUME NEW c \in Calls, Reserve(c) PROVE ForwardedInv'
  BY <1>16 DEF Reserve
<1>17. ASSUME NEW c \in Calls, Push(c) PROVE ForwardedInv'
  BY <1>17 DEF Push
<1>18. ASSUME NEW c \in Calls, Refuse(c) PROVE ForwardedInv'
  BY <1>18 DEF Refuse
<1>19. ASSUME NEW r \in RelaySet, Take(r) PROVE ForwardedInv'
  BY <1>19 DEF Take
<1>20. ASSUME NEW r \in RelaySet, Forward(r) PROVE ForwardedInv'
  BY <1>20 DEF Forward
<1>21. ASSUME NEW r \in RelaySet, ForwardPush(r) PROVE ForwardedInv'
  <2>1. held[r] \in Calls /\ UNCHANGED <<cur, pc>>
    BY <1>21 DEF ForwardPush
  <2>2. ASSUME NEW c \in Calls, status'[c] = "forwarded", cur # c
        PROVE  \E i \in 1..Len(mailbox') : mailbox'[i] = c
    <3>1. CASE NotifierDropped
      <4>1. mailbox' = mailbox /\ status[c] = "forwarded"
        BY <1>21, <2>2, <3>1 DEF ForwardPush
      <4>2. QED
        BY <2>2, <4>1
    <3>2. CASE ~NotifierDropped
      <4>1. mailbox' = Append(mailbox, held[r])
        BY <1>21, <3>2 DEF ForwardPush
      <4>2. CASE c = held[r]
        <5>1. Len(mailbox) + 1 \in 1..Len(mailbox') /\ mailbox'[Len(mailbox) + 1] = c
          BY <2>1, <4>1, <4>2, AppendFacts
        <5>2. QED
          BY <5>1
      <4>3. CASE c # held[r]
        <5>1. status[c] = "forwarded"
          BY <1>21, <2>2, <4>3 DEF ForwardPush
        <5>2. PICK i \in 1..Len(mailbox) : mailbox[i] = c
          BY <2>2, <5>1
        <5>3. i \in 1..Len(mailbox') /\ mailbox'[i] = c
          BY <2>1, <4>1, <5>2, AppendFacts
        <5>4. QED
          BY <5>3
      <4>4. QED
        BY <4>2, <4>3
    <3>3. QED
      BY <3>1, <3>2
  <2>3. QED
    BY <2>1, <2>2
<1>22. ASSUME NEW r \in RelaySet, ForwardClosed(r) PROVE ForwardedInv'
  <2>1. ASSUME NEW c \in Calls, status'[c] = "forwarded" PROVE status[c] = "forwarded"
    <3>1. CASE Kind[r] = "sender"
      BY <1>22, <2>1, <3>1 DEF ForwardClosed
    <3>2. CASE Kind[r] # "sender"
      <4>1. status' = [d \in Calls |->
                         IF d = held[r] THEN "dropped"
                         ELSE IF status[d] = "accepted" /\ Via(d) = r THEN "discarded"
                         ELSE status[d]]
        BY <1>22, <3>2 DEF ForwardClosed
      <4>2. QED
        BY <2>1, <4>1
    <3>3. QED
      BY <3>1, <3>2
  <2>2. UNCHANGED <<cur, mailbox, pc>>
    BY <1>22 DEF ForwardClosed
  <2>3. QED
    BY <2>1, <2>2
<1>23. ASSUME NEW r \in RelaySet, RelayAnswer(r) PROVE ForwardedInv'
  BY <1>23 DEF RelayAnswer
<1>24. ASSUME NEW r \in RelaySet, RelayShutdown(r) PROVE ForwardedInv'
  BY <1>24 DEF RelayShutdown, Leave
<1>25. ASSUME NEW r \in RelaySet, RelayUnused(r) PROVE ForwardedInv'
  BY <1>25 DEF RelayUnused, Leave
<1>26. ASSUME NEW r \in RelaySet, RelayOrphaned(r) PROVE ForwardedInv'
  BY <1>26 DEF RelayOrphaned, CloseChannel
<1>27. ASSUME NEW r \in RelaySet, RelayReturn(r) PROVE ForwardedInv'
  BY <1>27 DEF RelayReturn, CloseChannel
<1>28. ASSUME NEW r \in RelaySet, DropReference(r) PROVE ForwardedInv'
  BY <1>28 DEF DropReference
<1>29. QED
  BY <1>1, <1>2, <1>3, <1>4, <1>5, <1>6, <1>7, <1>8, <1>9, <1>10, <1>11, <1>12, <1>13,
     <1>14, <1>15, <1>16, <1>17, <1>18, <1>19, <1>20, <1>21, <1>22, <1>23, <1>24, <1>25,
     <1>26, <1>27, <1>28
      DEF Next, BuilderStep, ActorStep, CallerStep, RelayStep

\* Every step keeps LostInv: a relay finds the mailbox closed, or a question dropped,
\* only after an abort or a panic.
LEMMA NextLost == IInv /\ [Next]_vars => LostInv'
<1> SUFFICES ASSUME IInv, [Next]_vars PROVE LostInv'
  OBVIOUS
<1> USE ScriptAssumption
    DEF IInv, TypeOK, RelayInv, Positions, Handling, RelayStates, Active, Statuses,
        Pending, Lost, LostInv, UnbuiltInv, Built, actor, built, relays
<1>1. CASE UNCHANGED vars
  BY <1>1 DEF vars
<1>2. CASE AddReference
  BY <1>2 DEF AddReference
<1>3. CASE RunBuilder
  BY <1>3 DEF RunBuilder
<1>4. CASE DropBuilder
  BY <1>4 DEF DropBuilder
<1>5. CASE SupervisorSpeaks
  BY <1>5 DEF SupervisorSpeaks, Crash
<1>6. CASE Receive
  BY <1>6 DEF Receive
<1>7. CASE HandleNormal
  BY <1>7 DEF HandleNormal, Serves, Return
<1>8. CASE HandleStop
  BY <1>8 DEF HandleStop, Serves, Return
<1>9. CASE HandleAbort
  BY <1>9 DEF HandleAbort, Serves, Return
<1>10. CASE HandlePanic
  BY <1>10 DEF HandlePanic, Serves, Crash
<1>11. CASE BeginShutdown
  BY <1>11 DEF BeginShutdown, NoRelays, IsClosed
<1>12. CASE StoppingMailboxClosed
  BY <1>12 DEF StoppingMailboxClosed
<1>13. CASE StoppingTimeout
  BY <1>13 DEF StoppingTimeout, Crash
<1>14. CASE CheckRelays
  BY <1>14 DEF CheckRelays, NoRelays, IsClosed
<1>15. CASE End
  BY <1>15 DEF End
<1>16. ASSUME NEW c \in Calls, Reserve(c) PROVE LostInv'
  BY <1>16 DEF Reserve
<1>17. ASSUME NEW c \in Calls, Push(c) PROVE LostInv'
  BY <1>17 DEF Push
<1>18. ASSUME NEW c \in Calls, Refuse(c) PROVE LostInv'
  BY <1>18 DEF Refuse
<1>19. ASSUME NEW r \in RelaySet, Take(r) PROVE LostInv'
  BY <1>19 DEF Take
<1>20. ASSUME NEW r \in RelaySet, Forward(r) PROVE LostInv'
  BY <1>20 DEF Forward
<1>21. ASSUME NEW r \in RelaySet, ForwardPush(r) PROVE LostInv'
  BY <1>21 DEF ForwardPush
<1>22. ASSUME NEW r \in RelaySet, ForwardClosed(r) PROVE LostInv'
  BY <1>22 DEF ForwardClosed
<1>23. ASSUME NEW r \in RelaySet, RelayAnswer(r) PROVE LostInv'
  BY <1>23 DEF RelayAnswer
<1>24. ASSUME NEW r \in RelaySet, RelayShutdown(r) PROVE LostInv'
  BY <1>24 DEF RelayShutdown, Leave
<1>25. ASSUME NEW r \in RelaySet, RelayUnused(r) PROVE LostInv'
  BY <1>25 DEF RelayUnused, Leave
<1>26. ASSUME NEW r \in RelaySet, RelayOrphaned(r) PROVE LostInv'
  BY <1>26 DEF RelayOrphaned, CloseChannel
<1>27. ASSUME NEW r \in RelaySet, RelayReturn(r) PROVE LostInv'
  BY <1>27 DEF RelayReturn, CloseChannel
<1>28. ASSUME NEW r \in RelaySet, DropReference(r) PROVE LostInv'
  BY <1>28 DEF DropReference
<1>29. QED
  BY <1>1, <1>2, <1>3, <1>4, <1>5, <1>6, <1>7, <1>8, <1>9, <1>10, <1>11, <1>12, <1>13,
     <1>14, <1>15, <1>16, <1>17, <1>18, <1>19, <1>20, <1>21, <1>22, <1>23, <1>24, <1>25,
     <1>26, <1>27, <1>28
      DEF Next, BuilderStep, ActorStep, CallerStep, RelayStep

\* Every step keeps CrashInv: a stopped actor has no relay left to panic.
LEMMA NextCrash == IInv /\ [Next]_vars => CrashInv'
<1> SUFFICES ASSUME IInv, [Next]_vars PROVE CrashInv'
  OBVIOUS
<1> USE ScriptAssumption
    DEF IInv, TypeOK, RelayInv, Positions, Handling, RelayStates, Active, Statuses,
        Pending, Lost, CrashInv, NotifierDropped, actor, built, relays
<1>1. CASE UNCHANGED vars
  BY <1>1 DEF vars
<1>2. CASE AddReference
  BY <1>2 DEF AddReference
<1>3. CASE RunBuilder
  BY <1>3 DEF RunBuilder
<1>4. CASE DropBuilder
  BY <1>4 DEF DropBuilder
<1>5. CASE SupervisorSpeaks
  BY <1>5 DEF SupervisorSpeaks, Crash
<1>6. CASE Receive
  BY <1>6 DEF Receive
<1>7. CASE HandleNormal
  BY <1>7 DEF HandleNormal, Serves, Return
<1>8. CASE HandleStop
  BY <1>8 DEF HandleStop, Serves, Return
<1>9. CASE HandleAbort
  BY <1>9 DEF HandleAbort, Serves, Return
<1>10. CASE HandlePanic
  BY <1>10 DEF HandlePanic, Serves, Crash
<1>11. CASE BeginShutdown
  BY <1>11 DEF BeginShutdown, NoRelays, IsClosed
<1>12. CASE StoppingMailboxClosed
  BY <1>12 DEF StoppingMailboxClosed
<1>13. CASE StoppingTimeout
  BY <1>13 DEF StoppingTimeout, Crash
<1>14. CASE CheckRelays
  BY <1>14 DEF CheckRelays, NoRelays, IsClosed
<1>15. CASE End
  BY <1>15 DEF End
<1>16. ASSUME NEW c \in Calls, Reserve(c) PROVE CrashInv'
  BY <1>16 DEF Reserve
<1>17. ASSUME NEW c \in Calls, Push(c) PROVE CrashInv'
  BY <1>17 DEF Push
<1>18. ASSUME NEW c \in Calls, Refuse(c) PROVE CrashInv'
  BY <1>18 DEF Refuse
<1>19. ASSUME NEW r \in RelaySet, Take(r) PROVE CrashInv'
  BY <1>19 DEF Take
<1>20. ASSUME NEW r \in RelaySet, Forward(r) PROVE CrashInv'
  BY <1>20 DEF Forward
<1>21. ASSUME NEW r \in RelaySet, ForwardPush(r) PROVE CrashInv'
  BY <1>21 DEF ForwardPush
<1>22. ASSUME NEW r \in RelaySet, ForwardClosed(r) PROVE CrashInv'
  BY <1>22 DEF ForwardClosed
<1>23. ASSUME NEW r \in RelaySet, RelayAnswer(r) PROVE CrashInv'
  BY <1>23 DEF RelayAnswer
<1>24. ASSUME NEW r \in RelaySet, RelayShutdown(r) PROVE CrashInv'
  BY <1>24 DEF RelayShutdown, Leave
<1>25. ASSUME NEW r \in RelaySet, RelayUnused(r) PROVE CrashInv'
  BY <1>25 DEF RelayUnused, Leave
<1>26. ASSUME NEW r \in RelaySet, RelayOrphaned(r) PROVE CrashInv'
  BY <1>26 DEF RelayOrphaned, CloseChannel
<1>27. ASSUME NEW r \in RelaySet, RelayReturn(r) PROVE CrashInv'
  BY <1>27 DEF RelayReturn, CloseChannel
<1>28. ASSUME NEW r \in RelaySet, DropReference(r) PROVE CrashInv'
  BY <1>28 DEF DropReference
<1>29. QED
  BY <1>1, <1>2, <1>3, <1>4, <1>5, <1>6, <1>7, <1>8, <1>9, <1>10, <1>11, <1>12, <1>13,
     <1>14, <1>15, <1>16, <1>17, <1>18, <1>19, <1>20, <1>21, <1>22, <1>23, <1>24, <1>25,
     <1>26, <1>27, <1>28
      DEF Next, BuilderStep, ActorStep, CallerStep, RelayStep

\* The initial state satisfies the inductive invariant.
LEMMA InitInv == Init => IInv
<1> SUFFICES ASSUME Init PROVE IInv
  OBVIOUS
<1>1. closed \in BOOLEAN /\ shutdown \in BOOLEAN /\ aborted \in BOOLEAN
  BY Zenon DEF Init
<1>2. TypeOK
  BY <1>1, BoundsAssumption DEF Init, TypeOK, Positions, RelayStates, Statuses
<1>3. RelayInv /\ UnbuiltInv /\ TakenInv /\ ForwardedInv /\ LostInv /\ CrashInv
  BY DEF Init, RelayInv, UnbuiltInv, TakenInv, ForwardedInv, LostInv, CrashInv, Handling
<1>4. QED
  BY <1>2, <1>3 DEF IInv

\* The inductive invariant holds of every reachable state.
LEMMA InductiveInvariant == Spec => []IInv
<1>1. IInv /\ [Next]_vars => IInv'
  BY NextType, NextRelayInv, NextUnbuilt, NextTaken, NextForwarded, NextLost, NextCrash
      DEF IInv
<1>2. QED
  BY InitInv, <1>1, PTL DEF Spec

\* Every reachable state has the right type: the timeout counter stays within its
\* limit, and mailbox and channels hold calls only.
THEOREM TypeCorrect == Spec => []TypeOK
<1>1. IInv => TypeOK
  BY DEF IInv
<1>2. QED
  BY InductiveInvariant, <1>1, PTL

\* With any number of relays, the mailbox stays open as long as one of them may
\* pass something on, unless the actor aborted or panicked.
THEOREM InvariantHolds == Spec => []RelayInv
<1>1. IInv => RelayInv
  BY DEF IInv
<1>2. QED
  BY InductiveInvariant, <1>1, PTL

\* "This shouldn't happen": only an actor that aborts, panics or is never run makes
\* a relay panic.
THEOREM RelaysEndQuietlyHolds == Spec => []RelaysEndQuietly
<1>1. IInv => RelaysEndQuietly
  BY DEF IInv, CrashInv, RelaysEndQuietly
<1>2. QED
  BY InductiveInvariant, <1>1, PTL

\* What a relay has taken out of its channel is handled before the actor ends: when
\* stop() finds the mailbox empty, no relay holds a message and none is on its
\* way.
THEOREM TakenIsHandledHolds == Spec => []TakenIsHandled
<1>1. IInv => TakenIsHandled
  <2> SUFFICES ASSUME IInv, NEW c \in Calls, ~aborted, pc # "crashed"
               PROVE  /\ status[c] \notin {"dropped", "unanswered"}
                      /\ pc = "over" => status[c] \notin {"taken", "forwarded"}
    BY DEF TakenIsHandled
  <2>1. status[c] \notin {"dropped", "unanswered"}
    BY DEF IInv, LostInv
  <2>2. ASSUME pc = "over" PROVE status[c] # "taken"
    BY <2>2 DEF IInv, TakenInv, RelayInv, Active
  <2>3. ASSUME pc = "over" PROVE status[c] # "forwarded"
    BY <2>3, ScriptAssumption DEF IInv, ForwardedInv, Handling
  <2>4. QED
    BY <2>1, <2>2, <2>3
<1>2. QED
  BY InductiveInvariant, <1>1, PTL

=============================================================================
