---------------------------- MODULE TypedReference ----------------------------
(***************************************************************************)
(* What the typed references of a CtxBuilder (src/src/single/) promise     *)
(* their users, who see neither the actor nor the relay in between: a call *)
(* that is accepted is handled once, and after the calls accepted before it*)
(* through the same reference.  Only an actor that is ending, or was never *)
(* run, loses accepted calls and reports a closed channel.                 *)
(***************************************************************************)
EXTENDS Naturals, Sequences

CONSTANTS
  Refs,   \* the typed references
  Calls,  \* the calls users may make
  Ref     \* the reference each of them uses

VARIABLES
  accepted,  \* the calls each reference has accepted, oldest first
  outcome,   \* what each call has come to
  ending     \* the actor has been told to stop, or is gone

vars == <<accepted, outcome, ending>>

Outcomes == {"none", "accepted", "done", "lost", "full", "closed"}

Init ==
  /\ accepted = [r \in Refs |-> <<>>]
  /\ outcome = [c \in Calls |-> "none"]
  /\ ending = FALSE

Accept(c) ==
  /\ outcome[c] = "none"
  /\ outcome' = [outcome EXCEPT ![c] = "accepted"]
  /\ accepted' = [accepted EXCEPT ![Ref[c]] = Append(@, c)]

\* The caller gets its message back.
Refuse(c) ==
  /\ outcome[c] = "none"
  /\ \/ outcome' = [outcome EXCEPT ![c] = "full"]
     \/ ending /\ outcome' = [outcome EXCEPT ![c] = "closed"]
  /\ UNCHANGED accepted

\* The calls accepted before c through its reference have come to an end.
IsNext(c) ==
  LET q == accepted[Ref[c]] IN
  \A i, j \in 1..Len(q) : i < j /\ q[j] = c => outcome[q[i]] # "accepted"

\* The actor's handler has returned.
Finish(c) ==
  /\ outcome[c] = "accepted"
  /\ IsNext(c)
  /\ outcome' = [outcome EXCEPT ![c] = "done"]
  /\ UNCHANGED accepted

\* Calls that were accepted, or are being accepted, are dropped.
Lose ==
  /\ ending'
  /\ \E lost \in SUBSET {c \in Calls : outcome[c] \in {"none", "accepted"}} :
       outcome' = [c \in Calls |-> IF c \in lost THEN "lost" ELSE outcome[c]]
  /\ UNCHANGED accepted

Next ==
  /\ ending => ending'
  /\ \/ \E c \in Calls : Accept(c) \/ Refuse(c) \/ Finish(c)
     \/ Lose

Spec == Init /\ [][Next]_vars

=============================================================================
