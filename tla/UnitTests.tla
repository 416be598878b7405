------------------------------- MODULE UnitTests -------------------------------
(***************************************************************************)
(* The unit tests of Project-Ex2 (tests/tests_to_be_ran_separately.cpp) as *)
(* client programs, with the quantum each check expects to run in. Test5,  *)
(* random calls, is the client of any calls. A variable that a thread sets *)
(* at its end is its tid in status, one set before is flag 0 or reached.   *)
(***************************************************************************)
EXTENDS TestPrograms

total(quanta) == Instruction("total", "", {0}, -1, quanta)
quantumsAre(tid, n) == call("quantums", {tid}, {n})
MoreThan(n) == n + 1 .. 99
reached(tid) == 10 + tid
expectTrue(S) == <<with("all", S)>>
expectAny(S) == <<with("some", S)>>
expectFalse(S) == <<with("none", S)>>

threadQuantumSleep(n) == <<call("mark", {Self}, Int), call("passed", {n}, Int)>>
doneAndEnd == done \o <<call("terminate", {Self}, {0})>>
spawnFirst(f) == <<spawn(f, {1}), total({1})>>
spawnTwo == <<spawn("f", {1}), spawn("g", {2}), total({1})>>

BasicFunctionality == [
  main |-> <<call("block", {0}, {-1}), quantumsAre(0, 1), spawn("t1", {1}),
             total({1}), quantumsAre(0, 1)>> \o threadQuantumSleep(1) \o expectTrue({1})
           \o <<quantumsAre(0, 2), total({3})>> \o refused(1) \o <<exit>>,
  t1 |-> <<quantumsAre(1, 1), quantumsAre(0, 1), total({2})>> \o doneAndEnd]

ThreadSchedulingWithTermination == [
  main |-> <<spawn("f", {1}), spawn("g", {2}), call("block", {1}, {0})>>
           \o threadQuantumSleep(1) \o raise \o threadQuantumSleep(1) \o expectTrue({1})
           \o <<total({5}), exit>>,
  f |-> expectTrue({0}) \o doneAndEnd,
  g |-> <<call("resume", {1}, {0}), call("terminate", {Self}, {0})>>]

\* The quanta in which main and the two threads pass for the i-th time.
turn(i, quantum) == <<quantumsAre(Self, i), total({quantum}), call("block", {Self}, {0})>>
mainTurn(i) ==
  <<call("resume", {2}, {0}), call("resume", {1}, {0}), quantumsAre(0, i), total({3 * i - 2})>>
    \o threadQuantumSleep(1)

ThreadExecutionOrder == [
  main |-> <<spawn("t1", {1}), spawn("t2", {2})>>
           \o mainTurn(1) \o mainTurn(2) \o mainTurn(3) \o mainTurn(4) \o <<total({13}), exit>>,
  t1 |-> turn(1, 2) \o turn(2, 6) \o turn(3, 9) \o turn(4, 12) \o <<terminateSelf>>,
  t2 |-> turn(1, 3) \o turn(2, 5) \o turn(3, 8) \o turn(4, 11) \o <<terminateSelf>>]

\* Two of the six threads are terminated (the shuffle: a low id and a high one).
StressTestAndThreadCreationOrder == [
  main |-> <<spawn("f", {1}), spawn("f", {2}), spawn("f", {3}), spawn("f", {4}),
             spawn("f", {5}), spawn("f", {6}), until(1 .. 6, 0), spawn("f", {-1}),
             call("terminate", {4, 6}, {0}), call("terminate", {1, 3}, {0}),
             spawn("f", {1, 3}), spawn("f", {4, 6}), exit>>,
  f |-> done \o halt]

BasicSleep == [
  main |-> spawnFirst("f") \o threadQuantumSleep(6) \o expectTrue({1}) \o <<exit>>,
  f |-> <<total({2}), sleep(5), total({8})>> \o doneAndEnd]

SleepingCantBeResumed == [
  main |-> spawnFirst("f") \o threadQuantumSleep(4) \o <<total({6}), resume(1)>>
           \o expectTrue({0}) \o expectFalse({1}) \o <<exit>>,
  f |-> raise \o <<total({2}), sleep(5), total({6})>> \o doneAndEnd]

sleeper(starts, ends) == raise \o <<total({starts}), sleep(5), total({ends})>> \o doneAndEnd

\* The second thread takes the id of the first, which ended in quantum 8.
SleepingBlocked == [
  main |-> spawnFirst("f") \o threadQuantumSleep(4) \o <<block(1), resume(1)>>
           \o threadQuantumSleep(1) \o <<total({7})>> \o expectTrue({0}) \o expectFalse({1})
           \o threadQuantumSleep(1) \o expectTrue({1})
           \o <<spawn("f2", {1}), code("reset")>> \o threadQuantumSleep(4) \o expectTrue({0})
           \o <<block(1)>> \o threadQuantumSleep(10) \o expectFalse({1}) \o <<exit>>,
  f |-> sleeper(2, 8),
  f2 |-> sleeper(10, 16)]

SleepingBlockedResumed == [
  main |-> spawnFirst("f") \o threadQuantumSleep(2) \o expectTrue({0}) \o <<block(1)>>
           \o threadQuantumSleep(4) \o <<total({8})>> \o threadQuantumSleep(5) \o expectFalse({1})
           \o <<resume(1)>> \o threadQuantumSleep(1) \o expectTrue({1}) \o <<exit>>,
  f |-> sleeper(2, 14)]

-----------------------------------------------------------------------------
(* Test10 .. Test15: f sleeps 5 quanta, g 5 or 10 *)

sleepThenEnd(n) == <<sleep(n), total(MoreThan(n))>> \o doneAndEnd

twoSleepers(main, gSleeps) ==
  [main |-> spawnTwo \o main \o <<exit>>, f |-> sleepThenEnd(5), g |-> sleepThenEnd(gSleeps)]

BasicTwoSleep == twoSleepers(
  threadQuantumSleep(6) \o expectAny({1, 2}) \o threadQuantumSleep(6) \o expectTrue({1, 2}), 5)

firstOnly == threadQuantumSleep(6) \o expectTrue({1}) \o expectFalse({2})

BasicTwoSleep2 == twoSleepers(firstOnly \o threadQuantumSleep(11) \o expectTrue({1, 2}), 10)

TwoSleepOneBlocked == twoSleepers(
  <<block(2)>> \o firstOnly \o threadQuantumSleep(11) \o expectTrue({1}) \o expectFalse({2}), 10)

TwoSleepTwoBlocked == twoSleepers(
  <<block(1), block(2)>> \o threadQuantumSleep(6) \o expectFalse({1, 2})
    \o threadQuantumSleep(11) \o expectFalse({1, 2}), 10)

TwoSleepOneBlockedResumed == twoSleepers(
  <<block(2)>> \o firstOnly \o <<resume(2)>> \o threadQuantumSleep(11) \o expectTrue({1, 2}), 10)

TwoSleepTwoBlockedResumed == [
  main |-> spawnTwo \o <<block(1), block(2)>>
           \o threadQuantumSleep(1) \o expectFalse({reached(1), reached(2)})
           \o <<resume(1)>> \o threadQuantumSleep(1) \o expectTrue({reached(1)}) \o expectFalse({reached(2)})
           \o <<resume(2)>> \o threadQuantumSleep(22) \o expectTrue({1, 2}) \o <<exit>>,
  f |-> <<with("raise", {reached(1)})>> \o sleepThenEnd(5),
  g |-> <<with("raise", {reached(2)})>> \o sleepThenEnd(10)]

BasicSleepTerminated == [
  main |-> spawnFirst("f") \o threadQuantumSleep(1) \o expectTrue({0})
           \o <<call("terminate", {1}, {0})>> \o threadQuantumSleep(10) \o expectFalse({1}) \o <<exit>>,
  f |-> <<total({2})>> \o raise \o <<sleep(5), total({5})>> \o done]
=============================================================================
