----------------------------- MODULE Container ------------------------------
(***************************************************************************)
(* container.cpp of Project-Ex5: a parent that creates a container (its    *)
(* child process), restricts it with a cgroup and cleans up after it. The  *)
(* two meet at a process-shared barrier, so that the child executes its    *)
(* program only after it is restricted.                                    *)
(*                                                                         *)
(* Several launches may run at a time: they are separate processes, but    *)
(* CGROUP_DIR is one directory. Any system call may fail. One that panics  *)
(* ends its own process only; the streams of the cgroup files are never    *)
(* checked, so what fails there fails in silence.                          *)
(*                                                                         *)
(* External, modelled as the kernel does it: a new cgroup has no limit,    *)
(* rmdir fails on a cgroup with processes in it, a process leaves its      *)
(* cgroup when it ends, and pthread_barrier_destroy waits for those who    *)
(* are still on their way out of the barrier. The child's mount of proc is *)
(* seen by the parent, whose umount2 relies on it.                         *)
(***************************************************************************)
EXTENDS FiniteSets, Naturals

CONSTANTS Launches, NoLimit

ASSUME LaunchesAssumption == NoLimit \notin Launches

VARIABLES
  parent,    \* launch -> what its parent does next
  child,     \* launch -> what its child does next
  arrived,   \* launch -> who has come to its barrier
  files,     \* launch -> the cgroup files it holds open
  cgroup,    \* the cgroup: whether it exists, its processes and pids.max
  mounted,   \* the launches whose proc is mounted
  lost       \* history: launches with a write to a cgroup file that had no effect

vars == <<parent, child, arrived, files, cgroup, mounted, lost>>

n_procs_in_barrierOne == 1   \* Mistake: nobody to wait for.
n_procs_in_barrierThree == 3 \* Mistake: one process too many.
n_procs_in_barrier == 2

CgroupFiles == {"cgroup.procs", "pids.max"}
NoCgroup == [exists |-> FALSE, procs |-> {}, max |-> NoLimit]

Init ==
  /\ parent = [l \in Launches |-> "clone"]
  /\ child = [l \in Launches |-> "none"]
  /\ arrived = [l \in Launches |-> {}]
  /\ files = [l \in Launches |-> {}]
  /\ cgroup = NoCgroup
  /\ mounted = {}
  /\ lost = {}

parentAt(l, from, to) == parent[l] = from /\ parent' = [parent EXCEPT ![l] = to]
childAt(l, from, to) == child[l] = from /\ child' = [child EXCEPT ![l] = to]

\* exit() in the child: the kernel takes it out of its cgroup.
endChild(l, from) ==
  /\ childAt(l, from, "gone")
  /\ cgroup' = [cgroup EXCEPT !.procs = @ \ {l}]

\* A call of the parent that panics: nothing is undone.
panic(l, from) ==
  /\ parentAt(l, from, "failed")
  /\ UNCHANGED <<child, arrived, files, cgroup, mounted, lost>>
-----------------------------------------------------------------------------
(* The child *)

\* Host name, root directory, working directory, mount of proc.
setContainerNS(l) ==
  /\ \/ childAt(l, "setup", "barrier") /\ mounted' = mounted \union {l} /\ UNCHANGED cgroup
     \/ endChild(l, "setup") /\ UNCHANGED mounted
  /\ UNCHANGED <<parent, arrived, files, lost>>

arrive(l, who) == arrived' = [arrived EXCEPT ![l] = @ \union {who}]
released(l) == Cardinality(arrived[l]) >= n_procs_in_barrier

childArrives(l) ==
  /\ childAt(l, "barrier", "waiting") /\ arrive(l, "child")
  /\ UNCHANGED <<parent, files, cgroup, mounted, lost>>

childLeaves(l) ==
  /\ released(l) /\ childAt(l, "waiting", "execve")
  /\ UNCHANGED <<parent, arrived, files, cgroup, mounted, lost>>

\* munmap and execve: one that fails ends the process.
execve(l) ==
  /\ \/ childAt(l, "execve", "program") /\ UNCHANGED cgroup
     \/ endChild(l, "execve")
  /\ UNCHANGED <<parent, arrived, files, mounted, lost>>

programEnds(l) ==
  /\ endChild(l, "program")
  /\ UNCHANGED <<parent, arrived, files, mounted, lost>>

childStep(l) ==
  setContainerNS(l) \/ childArrives(l) \/ childLeaves(l) \/ execve(l) \/ programEnds(l)
-----------------------------------------------------------------------------
(* The parent *)

\* barrierInit and clone: before there is a child, a failure leaves nothing.
clone(l) ==
  \/ panic(l, "clone")
  \/ /\ parentAt(l, "clone", "mkdir") /\ childAt(l, "none", "setup")
     /\ UNCHANGED <<arrived, files, cgroup, mounted, lost>>

\* configureCgroups: a directory that is there already is taken as it is.
mkdir(l) ==
  \/ panic(l, "mkdir")
  \/ /\ parentAt(l, "mkdir", "open")
     /\ cgroup' = [cgroup EXCEPT !.exists = TRUE]
     /\ UNCHANGED <<child, arrived, files, mounted, lost>>

openFiles(l) ==
  /\ parentAt(l, "open", "procs")
  /\ \E opened \in SUBSET CgroupFiles :
       /\ ~cgroup.exists => opened = {}
       /\ files' = [files EXCEPT ![l] = opened]
  /\ UNCHANGED <<child, arrived, cgroup, mounted, lost>>

\* A write to a file that is not open, or that the kernel refuses, is lost.
write(l, file, effect) ==
  \/ file \in files[l] /\ cgroup' = effect /\ UNCHANGED lost
  \/ UNCHANGED cgroup /\ lost' = lost \union {l}

writeProcs(l) ==
  /\ parentAt(l, "procs", "max")
  /\ write(l, "cgroup.procs",
           [cgroup EXCEPT !.procs = @ \union {m \in {l} : child[m] # "gone"}])
  /\ UNCHANGED <<child, arrived, files, mounted>>

\* The streams close when configureCgroups returns. (notify_on_release is left out.)
writeMax(l) ==
  /\ parentAt(l, "max", "barrier")
  /\ write(l, "pids.max", [cgroup EXCEPT !.max = l])
  /\ files' = [files EXCEPT ![l] = {}]
  /\ UNCHANGED <<child, arrived, mounted>>

parentArrives(l) ==
  /\ parentAt(l, "barrier", "waiting") /\ arrive(l, "parent")
  /\ UNCHANGED <<child, files, cgroup, mounted, lost>>

parentLeaves(l) ==
  /\ released(l) /\ parentAt(l, "waiting", "destroy")
  /\ UNCHANGED <<child, arrived, files, cgroup, mounted, lost>>

barrierDestroy(l) ==
  \/ panic(l, "destroy")
  \/ /\ child[l] # "waiting" /\ parentAt(l, "destroy", "wait")
     /\ UNCHANGED <<child, arrived, files, cgroup, mounted, lost>>

\* Mistake: the parent does not wait for the child to terminate.
waitNot(l) ==
  /\ parentAt(l, "wait", "umount")
  /\ child' = [child EXCEPT ![l] = IF @ = "gone" THEN "reaped" ELSE @]
  /\ UNCHANGED <<arrived, files, cgroup, mounted, lost>>

wait(l) ==
  /\ parentAt(l, "wait", "umount") /\ childAt(l, "gone", "reaped")
  /\ UNCHANGED <<arrived, files, cgroup, mounted, lost>>

umount(l) ==
  \/ panic(l, "umount")
  \/ /\ l \in mounted /\ parentAt(l, "umount", "rmdir")
     /\ mounted' = mounted \ {l}
     /\ UNCHANGED <<child, arrived, files, cgroup, lost>>

\* rmdir: files that others have opened in it are of no use from then on.
cleanupCgroups(l) ==
  \/ panic(l, "rmdir")
  \/ /\ cgroup.exists /\ cgroup.procs = {} /\ parentAt(l, "rmdir", "exited")
     /\ cgroup' = NoCgroup
     /\ files' = [m \in Launches |-> {}]
     /\ UNCHANGED <<child, arrived, mounted, lost>>

configureCgroups(l) == mkdir(l) \/ openFiles(l) \/ writeProcs(l) \/ writeMax(l)

parentStep(l) ==
  \/ clone(l) \/ configureCgroups(l) \/ parentArrives(l) \/ parentLeaves(l)
  \/ barrierDestroy(l) \/ wait(l) \/ umount(l) \/ cleanupCgroups(l)

Next == \E l \in Launches : parentStep(l) \/ childStep(l)

Spec == Init /\ [][Next]_vars

\* The kernel runs both processes, and the container's program ends.
FairSpec == Spec /\ \A l \in Launches : WF_vars(parentStep(l)) /\ WF_vars(childStep(l))
-----------------------------------------------------------------------------
(* Properties *)

\* "the container doesn't execve before the parent (container builder) has
\* configured Cgroups" (container.cpp:29): whatever other launches do to the
\* directory meanwhile, a program whose parent lost no write runs in the cgroup
\* and under a limit. (It may be the limit of another launch.)
RunsRestricted ==
  \A l \in Launches :
    child[l] = "program" =>
      /\ parent[l] \notin {"mkdir", "open", "procs", "max", "barrier"}
      /\ l \notin lost => l \in cgroup.procs /\ cgroup.max # NoLimit

\* main returns 0 only after the child was reaped, out of its cgroup, and its
\* proc was unmounted.
CleanExit ==
  \A l \in Launches :
    parent[l] = "exited" => child[l] = "reaped" /\ l \notin cgroup.procs \union mounted

\* A launch ends. The parent waits for ever only for a child that ended before
\* the barrier, and the child only for a parent that failed.
EveryLaunchEnds ==
  \A l \in Launches :
    /\ <>(parent[l] \in {"exited", "failed"} \/ (child[l] = "gone" /\ "child" \notin arrived[l]))
    /\ <>(child[l] \in {"gone", "reaped"} \/ parent[l] = "failed")
=============================================================================
