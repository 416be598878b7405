----------------------------- MODULE TestPrograms -----------------------------
(***************************************************************************)
(* The test programs of Project-Ex2 (submission/other_tests) as client     *)
(* programs: to each entry point its library calls, what it compares their *)
(* answers with, and its waits. Computations, prints and the answers of    *)
(* rand are left out or nondeterministic: work is a loop of any length,    *)
(* and so is a counted loop of calls. Thread limits, sleeps and counts of  *)
(* quanta are scaled down where a comment says so.                         *)
(***************************************************************************)
EXTENDS Instructions

work == <<maybe(0)>>
halt == <<code("halt")>>
done == <<code("done")>>
raise == <<with("raise", {0})>>
quantums(tid) == call("quantums", {tid}, Int)
block(tid) == call("block", {tid}, Int)
resume(tid) == call("resume", {tid}, Int)
terminate(tid) == call("terminate", {tid}, Int)

-----------------------------------------------------------------------------
\* Test 1: every thread gets the lowest free id.
jona1 == [
  main |-> <<spawn("thread1", {1}), spawn("thread2", {2}), spawn("thread2", {3}),
             spawn("thread1", {4}), spawn("thread2", {5}), spawn("thread1", {6}),
             terminate(5), spawn("thread1", {5})>>
           \o wait_next_quantum \o wait_next_quantum \o
           <<terminate(5), spawn("thread1", {5}), terminate(2), spawn("thread2", {2}),
             terminate(3), terminate(4), spawn("thread2", {3}), spawn("thread1", {4}),
             exit>>,
  thread1 |-> <<block(Self)>>,
  thread2 |-> halt]

\* Test 5: each thread blocks itself and is resumed by its neighbour, the first
\* one by main. The 50 calls of a thread are at least one.
jona2 == [
  main |-> <<spawn("thread", Int), spawn("thread", Int), spawn("thread", Int),
             code("reset")>> \o untilDone({1, 2, 3}, resume(1)) \o <<exit>>,
  thread |-> <<block(Self), resume(NextTid), maybe(1)>> \o done \o halt]

\* Test 42: main sees every thread end. The stack values are left out.
jona3 == [
  main |-> <<spawn("run_test", Int), spawn("run_test", Int), spawn("run_test", Int),
             spawn("run_test", Int), spawn("run_test", Int), spawn("run_test", Int),
             code("reset"), until(1 .. 6, 0), exit>>,
  run_test |-> wait_next_quantum \o done \o <<terminateSelf>>]

\* Test 429: threads block and resume each other at random, main resumes all.
\* Two threads instead of five, and two calls at least.
random_uthreads_call == <<maybe(-2), call("block", 1 .. 2, Int), call("resume", 0 .. 2, Int)>>
calculator == random_uthreads_call \o random_uthreads_call \o <<maybe(6)>> \o done \o halt

jona4 == [
  main |-> <<spawn("thread1", Int), spawn("thread2", Int), code("reset")>>
           \o untilDone(1 .. 2, call("resume", 0 .. 2, Int)) \o <<exit>>,
  thread1 |-> calculator, thread2 |-> calculator]

\* Test 1430: a tree of threads sorts and merges an array, each merge after
\* the two threads below it. Of a sort and a merge their waits are kept.
sort == wait_next_quantum \o wait_next_quantum
merge == wait_next_quantum \o wait_next_quantum
merging_thread(left, right) ==
  <<keep(left, Nat), keep(right, Nat), until({Kept(1), Kept(2)}, 0)>> \o merge

\* Mistake: the sorts do not last, so a thread ends before its cousins start.
sorting_threadAtOnce == done \o <<terminateSelf>>

sorting_thread == sort \o done \o <<terminateSelf>>

jona5 == [
  main |-> merging_thread("thread1", "thread2") \o <<exit>>,
  thread1 |-> merging_thread("thread3", "thread4") \o done \o <<terminateSelf>>,
  thread2 |-> merging_thread("thread5", "thread6") \o done \o <<terminateSelf>>,
  thread3 |-> sorting_thread, thread4 |-> sorting_thread,
  thread5 |-> sorting_thread, thread6 |-> sorting_thread]

\* Test 132: a thread's mask is what it made it, however it is switched: one
\* self-block and one wait for the timer (instead of 5 and 11).
set1 == {"SIGBUS", "SIGTERM"}
set2 == {"SIGUSR1"}
set3 == {"SIGTSTP", "SIGBUS"}

check_sig_mask(set) ==
  <<with("mask", set), block(Self), with("mask", set)>>
    \o wait_next_quantum \o <<with("mask", set)>> \o done \o halt

jona6 == [
  main |-> <<code("reset"),
             spawn("thread1", Nat), spawn("thread2", Nat), spawn("thread3", Nat)>>
           \o untilDone(1 .. 3, call("resume", 0 .. 3, Int)) \o <<exit>>,
  thread1 |-> <<with("sigprocmask", set1)>> \o check_sig_mask(set1),
  thread2 |-> <<with("sigprocmask", set2)>> \o check_sig_mask(set2),
  thread3 |-> <<with("sigprocmask", set3)>> \o check_sig_mask(set3)]

-----------------------------------------------------------------------------
\* test1.in: three threads in step, each acting when it has run so many quanta.
test1 == [
  main |-> <<at(3), spawn("f", {1}), spawn("g", {2}),
             at(6), block(2), block(2),
             at(9), resume(1), resume(1),
             at(13), spawn("f", Int), block(1),
             at(17), spawn("g", Int), terminate(1), spawn("f", {1}), block(1),
             at(20), exit>>,
  f |-> <<at(3), block(Self), at(6), resume(2), at(8), terminateSelf>>,
  g |-> <<at(11), terminateSelf>>]

\* test2.in: the limit on threads (seven instead of a hundred).
test2 == [
  main |-> <<spawn("f", {1}), spawn("f", {2}), spawn("f", {3}), spawn("f", {4}),
             spawn("f", {5}), spawn("f", {6}), spawn("f", {-1}), spawn("f", {-1}),
             terminate(5), spawn("f", {5}), spawn("f", {-1}),
             terminate(2), terminate(3), terminate(6),
             spawn("f", {2}), spawn("f", {3}), spawn("f", {6}), spawn("f", {-1}), exit>>,
  f |-> halt]

\* test3.in: errors. A quantum that is not positive is refused by
\* uthread_init before it does anything, and left out.
refused(tid) ==
  <<call("terminate", {tid}, {-1}), call("block", {tid}, {-1}),
    call("resume", {tid}, {-1}), call("quantums", {tid}, {-1})>>

test3 == [
  main |-> refused(-1) \o refused(1) \o
           <<call("block", {0}, {-1}), spawn("f", {1}), call("terminate", {1}, {0})>>
           \o refused(1) \o <<exit>>,
  f |-> <<>>]

\* test4.in: threads that block themselves for ever, resumed by main for three
\* periods, in the second of which one stays blocked (4, 7 and 10 quanta
\* instead of 10, 20 and 30).
counts == <<quantums(0), quantums(1), quantums(2), quantums(3)>>

test4 == [
  main |-> <<spawn("f", Int), spawn("g", Int), spawn("h", Int),
             totalBelow(4, 5), resume(1), resume(2), resume(3), goto(4)>> \o counts
           \o <<block(2), totalBelow(7, 4), resume(1), resume(3), goto(3)>> \o counts
           \o <<resume(2), totalBelow(10, 5), resume(1), resume(2), resume(3), goto(4)>>
           \o counts \o <<exit>>,
  f |-> <<block(1), goto(1)>>, g |-> <<block(2), goto(1)>>, h |-> <<block(3), goto(1)>>]

-----------------------------------------------------------------------------
\* test7_no_out_different: threads that end, or never do, and one that blocks
\* the first and itself; main's wrong calls fail and its others change them.
finite == work \o <<terminateSelf>>
neverEnding == halt
blocker == work \o <<block(1)>> \o work \o <<resume(1)>> \o work \o <<block(Self), terminateSelf>>

test7 == [
  main |-> <<keep("f", Nat), keep("g", Nat), keep("h", Nat),
             keep("i", Nat), keep("j", Nat), keep("blocker", Nat)>> \o work
           \o <<call("block", {99}, {-1}), call("block", {101}, {-1}),
                call("block", {Self}, {-1})>> \o work
           \o <<terminate(Kept(3)), terminate(Kept(4))>> \o work
           \o <<resume(Kept(6))>> \o work \o <<block(Kept(6))>> \o work
           \o <<terminate(Kept(6))>> \o work \o <<exit>>,
  f |-> finite, g |-> finite, blocker |-> blocker,
  h |-> neverEnding, i |-> neverEnding, j |-> neverEnding]

-----------------------------------------------------------------------------
(* main_other_test: main and a thread that raises flag (sleeps of 3, not 15) *)

raiseAndEnd == work \o raise \o <<quantums(1), terminateSelf>>
theEnd == <<until({0}, 0), quantums(0), exit>>

func_regular_block_resume == raiseAndEnd
func_sleep == <<sleep(3), code("slept")>> \o raiseAndEnd
func_block_and_sleep == <<sleep(1), code("slept")>> \o raiseAndEnd
func_sleep_and_block == <<sleep(3), code("slept")>> \o raiseAndEnd
func_block_itself == work \o <<block(1)>> \o raiseAndEnd
func_terminate_itself == work \o <<terminate(1)>> \o raise
func(tid) == work \o <<terminate(tid)>>
func_switch_thread == raiseAndEnd

test_thread_block_itself == [
  main |-> <<spawn("func", Int)>> \o work \o <<quantums(0), exit>>,
  func |-> func_block_itself]

test_thread_terminate_itself == [
  main |-> <<spawn("func", Int)>> \o work \o <<quantums(0), exit>>,
  func |-> func_terminate_itself]

test_sleep_and_block == [
  main |-> <<spawn("func", Int)>> \o work \o <<block(1)>> \o work \o <<resume(1)>>
           \o work \o theEnd,
  func |-> func_sleep_and_block]

test_block_and_sleep == [
  main |-> <<spawn("func", Int)>> \o work \o <<block(1)>> \o work \o <<resume(1)>> \o theEnd,
  func |-> func_block_and_sleep]

test_sleep == [
  main |-> <<spawn("func", Int)>> \o work \o theEnd,
  func |-> func_sleep]

test_regular_block_resume == [
  main |-> <<spawn("func", Int), block(1)>> \o work \o <<resume(1)>> \o work \o theEnd,
  func |-> func_regular_block_resume]

\* The last of the four raises flag; each ends itself by the id it expects.
test_switch_4_threads == [
  main |-> <<spawn("func1", Int), spawn("func2", Int), spawn("func3", Int),
             spawn("func4", Int)>> \o theEnd,
  func1 |-> func(1), func2 |-> func(2), func3 |-> func(3), func4 |-> work \o raise \o func(4)]

test_switch_thread == [
  main |-> <<spawn("func", Int)>> \o work \o theEnd,
  func |-> func_switch_thread]
=============================================================================
