--------------------------- MODULE CyclicBarrier ----------------------------
(***************************************************************************)
(* What a reusable barrier promises, without locks or condition variables: *)
(* a thread that arrives is held until every thread has arrived; the last  *)
(* arrival releases them all at once; a released thread returns, and only  *)
(* then may it arrive for the next round. The threads of a round that are  *)
(* slow to return may still be there when fast ones arrive for the next.   *)
(***************************************************************************)
CONSTANT Threads

VARIABLES
  arrived,   \* held in the current round
  released   \* let go, but not back from the call yet

vars == <<arrived, released>>

Init == arrived = {} /\ released = {}

Arrive(t) ==
  /\ t \notin arrived \union released
  /\ IF arrived \union {t} = Threads
     THEN arrived' = {} /\ released' = Threads
     ELSE arrived' = arrived \union {t} /\ UNCHANGED released

Return(t) == t \in released /\ released' = released \ {t} /\ UNCHANGED arrived

Next == \E t \in Threads : Arrive(t) \/ Return(t)

Spec == Init /\ [][Next]_vars

\* Every thread comes back for the next round, and returns when released.
FairSpec == Spec /\ \A t \in Threads : WF_vars(Arrive(t)) /\ WF_vars(Return(t))
-----------------------------------------------------------------------------
(* Properties *)

\* A round in progress is never complete, and nobody is in two rounds at once.
TypeOK ==
  /\ arrived \subseteq Threads /\ arrived # Threads
  /\ released \subseteq Threads
  /\ arrived \intersect released = {}

\* Two threads are never more than one round apart: while a thread is held,
\* no other can be released, return, and be released again. Stated on steps:
\* whenever somebody is newly released, nobody stays held and nobody is still
\* on its way out of the round before.
LetGoOnlyBetweenRounds == released' \ released # {} => arrived' = {} /\ released = {}
RoundsDoNotOverlap == [][LetGoOnlyBetweenRounds]_vars
=============================================================================
