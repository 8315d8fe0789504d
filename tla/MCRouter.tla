------------------------------- MODULE MCRouter -------------------------------
(***************************************************************************)
(* A pool of up to two workers, which may also end by themselves.  One     *)
(* question stops the worker it reaches, one makes it panic, and the       *)
(* router may be awaited with others queued.                               *)
(***************************************************************************)
EXTENDS Router

PoolScript ==
  [ask |-> "Answer", quit |-> "Stop", crash |-> "Panic", await |-> "Await", again |-> "Await"]

\* The router is awaited a second time after the first, or the worker is asked to
\* stop, but not both: the one or the other keeps the run small.  Only callers are
\* held back, who need not call: the fair actions are those of FairSpec.
FewCalls ==
  /\ status'["quit"] = "unsent" \/ status'["again"] = "unsent"
  /\ status'["again"] # "unsent" => status'["await"] # "unsent"

\* Two questions to a single worker, the first of which stops it.
RetryScript == [quit |-> "Stop", ask |-> "Answer"]

=============================================================================
