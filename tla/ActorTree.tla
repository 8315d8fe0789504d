------------------------------ MODULE ActorTree ------------------------------
(***************************************************************************)
(* What supervision promises, without mailboxes, watch channels or tasks:  *)
(* an actor is started by a living supervisor, it ends by stopping or by   *)
(* crashing, it stops only after all its children have ended, and the      *)
(* actor that ended is handed on at most once: to its supervisor, which    *)
(* must be alive to take it, or to a caller that awaited it, which gets    *)
(* stopped actors only.                                                    *)
(***************************************************************************)
CONSTANTS Actors, Parent, Nil

VARIABLES
  life,  \* "unborn", "alive", "stopped" (on_end has run) or "crashed"
  heir   \* who was given the ended actor: "none", "supervisor" or "caller"

vars == <<life, heir>>

Ended == {"stopped", "crashed"}

Init ==
  /\ life = [a \in Actors |-> IF Parent[a] = Nil THEN "alive" ELSE "unborn"]
  /\ heir = [a \in Actors |-> "none"]

Start(a) ==
  /\ life[a] = "unborn"
  /\ Parent[a] \in Actors
  /\ life[Parent[a]] = "alive"
  /\ life' = [life EXCEPT ![a] = "alive"]
  /\ UNCHANGED heir

Stop(a) ==
  /\ life[a] = "alive"
  /\ \A c \in Actors : Parent[c] = a => life[c] # "alive"
  /\ life' = [life EXCEPT ![a] = "stopped"]
  /\ UNCHANGED heir

Crash(a) ==
  /\ life[a] = "alive"
  /\ life' = [life EXCEPT ![a] = "crashed"]
  /\ UNCHANGED heir

\* The supervisor handles the death of a.
Inherit(a) ==
  /\ life[a] \in Ended
  /\ heir[a] = "none"
  /\ Parent[a] \in Actors
  /\ life[Parent[a]] = "alive"
  /\ heir' = [heir EXCEPT ![a] = "supervisor"]
  /\ UNCHANGED life

\* A caller that awaits a is given a.
Return(a) ==
  /\ life[a] = "stopped"
  /\ heir[a] = "none"
  /\ heir' = [heir EXCEPT ![a] = "caller"]
  /\ UNCHANGED life

Next == \E a \in Actors : Start(a) \/ Stop(a) \/ Crash(a) \/ Inherit(a) \/ Return(a)

Spec == Init /\ [][Next]_vars

=============================================================================
