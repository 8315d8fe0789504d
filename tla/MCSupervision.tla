---------------------------- MODULE MCSupervision ----------------------------
(***************************************************************************)
(* Small instances of Supervision.  An actor and a request are named by a  *)
(* string; a script says what callers may ask for, in any order and at any *)
(* time.                                                                   *)
(***************************************************************************)
EXTENDS Supervision

Ask(o, a) == [op |-> o, to |-> a, child |-> Nil]
SpawnBy(a, c) == [op |-> "Spawn", to |-> a, child |-> c]

\* Three generations: the middle one may panic or abort at any time while the
\* top one is awaited.
Chain == {"root", "kid", "leaf"}
ChainParent == [root |-> "nil", kid |-> "root", leaf |-> "kid"]
ChainScript ==
  [spawnKid |-> SpawnBy("root", "kid"), spawnLeaf |-> SpawnBy("kid", "leaf"),
   panicKid |-> Ask("Panic", "kid"), abortKid |-> Ask("Abort", "kid"),
   awaitRoot |-> Ask("Await", "root")]

\* A supervisor with two children: it is awaited, one child is stopped, the
\* other has two callers of its own waiting for its end.
Family == {"root", "ann", "bob"}
FamilyParent == [root |-> "nil", ann |-> "root", bob |-> "root"]
FamilyScript ==
  [spawnAnn |-> SpawnBy("root", "ann"), spawnBob |-> SpawnBy("root", "bob"),
   awaitRoot |-> Ask("Await", "root"), awaitAnn |-> Ask("Await", "ann"),
   waitAnn |-> Ask("Wait", "ann"), stopBob |-> Ask("Stop", "bob"),
   work |-> Ask("Normal", "bob")]

\* A supervisor with one child.
Pair == {"root", "kid"}
PairParent == [root |-> "nil", kid |-> "root"]

\* The child panics under a supervisor being awaited, as in the repository's
\* test child_actor_panics.
PanicScript ==
  [spawn |-> SpawnBy("root", "kid"), panicKid |-> Ask("Panic", "kid"),
   awaitRoot |-> Ask("Await", "root")]

=============================================================================
