--------------------------- MODULE BarrierClaims ----------------------------
(***************************************************************************)
(* Barrier.h calls the class "a multiple use barrier". With the wake-ups   *)
(* that POSIX allows pthread_cond_wait to have, it is not one: the wait is *)
(* guarded by an if and not by a loop over a condition.                    *)
(***************************************************************************)
EXTENDS Barrier

NextWithSpuriousWakeups == Next \/ \E t \in Threads : SpuriousWakeup(t)

SpecWithSpuriousWakeups == Init /\ [][NextWithSpuriousWakeups]_vars

\* Barrier.h:5, "a multiple use barrier": nobody gets out of a round before
\* every thread has entered it.
IsMultipleUseBarrier == CB!Spec
=============================================================================
