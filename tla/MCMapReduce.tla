---------------------------- MODULE MCMapReduce -----------------------------
(* MapReduce for TLC: the jobs of two inputs. *)
EXTENDS MapReduce

job(first, second) == [i \in Inputs |-> IF i = 0 THEN first ELSE second]

\* A key that two inputs share, beside one in an order that the sort has to
\* change; the same key twice from one input; a job that emits nothing.
MCJobs == {job(<<2, 1>>, <<1>>), job(<<1, 1>>, <<>>), job(<<>>, <<>>)}
=============================================================================
