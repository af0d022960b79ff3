-------------------------- MODULE SessionWriteLock --------------------------
(***************************************************************************)
(* The write lock of one session file                                      *)
(* (openclaw-main/src/agents/session-write-lock.ts): a lock file created   *)
(* exclusively, the map HELD_LOCKS of each process, reclaiming of lock     *)
(* files found stale, and what releases a lock without its holder: the     *)
(* watchdog, a termination signal and the clean-up of a gateway that       *)
(* starts.                                                                 *)
(*                                                                         *)
(* A task acquires once.  The lock object (HeldLock) it creates has the    *)
(* task's name, and so has the lock file.  Every awaited file operation is *)
(* a step; files are removed by name, whoever created the one that is      *)
(* there.  Process ids are not reused, and of the I/O errors only a failed *)
(* write is modelled.                                                      *)
(***************************************************************************)
EXTENDS Integers, FiniteSets

CONSTANTS
  Processes,
  Tasks,
  Process,      \* task -> the process it runs in
  NoTask, NoFile,
  Reentrant,    \* allowReentrant
  StartTimes,   \* getProcessStartTime works: the platform is Linux
  MaxCleans     \* bound: calls of cleanStaleLockFiles

ASSUME SessionLockAssumption ==
  /\ IsFiniteSet(Tasks)
  /\ NoTask \notin Tasks
  /\ NoFile \notin [by : Tasks, written : BOOLEAN, old : BOOLEAN]
  /\ Process \in [Tasks -> Processes]
  /\ Reentrant \in BOOLEAN /\ StartTimes \in BOOLEAN
  /\ MaxCleans \in Nat

VARIABLES
  file,       \* the lock file: its creator, whether it has its payload, whether it is older than staleMs
  alive,
  held,       \* process -> its HELD_LOCKS entry
  count,      \* lock object -> its count
  at,         \* task -> the step it is at
  via,        \* task -> the lock object it holds
  closing,    \* lock objects with a releasePromise
  cleaner,    \* process -> the step its clean-up is at
  cleans,
  forced,     \* history: lock objects released by the watchdog or a signal
  robbed,     \* history: a file in use was removed as stale
  aged        \* history: a file in use became older than staleMs

locks == <<held, count, closing>>
history == <<forced, robbed, aged>>
vars == <<file, alive, locks, at, via, cleaner, cleans, history>>

Init ==
  /\ file = NoFile
  /\ alive = [p \in Processes |-> TRUE]
  /\ held = [p \in Processes |-> NoTask]
  /\ count = [o \in Tasks |-> 0]
  /\ at = [t \in Tasks |-> "idle"]
  /\ via = [t \in Tasks |-> NoTask]
  /\ closing = {}
  /\ cleaner = [p \in Processes |-> "idle"]
  /\ cleans = 0
  /\ forced = {}
  /\ robbed = FALSE
  /\ aged = FALSE

GoTo(t, step) == at' = [at EXCEPT ![t] = step]

\* The process of lock object o knows of it, or is about to.
Known(o) ==
  \/ held[Process[o]] = o
  \/ o \in closing
  \/ at[o] \in {"write", "abandon"}

InUse(f) == f # NoFile /\ Known(f.by)

-----------------------------------------------------------------------------
(* acquireSessionWriteLock.  A definition whose name starts with Fault is a    *)
(* plausible bug in the one below it; no action uses it.                       *)

\* The process holds the lock already, or t goes for the file.
Acquire(t) ==
  LET o == held[Process[t]] IN
  /\ alive[Process[t]]
  /\ at[t] = "idle"
  /\ IF Reentrant /\ o # NoTask
     THEN /\ count' = [count EXCEPT ![o] = @ + 1]
          /\ via' = [via EXCEPT ![t] = o]
          /\ GoTo(t, "holds")
     ELSE GoTo(t, "open") /\ UNCHANGED <<count, via>>
  /\ UNCHANGED <<file, alive, held, closing, cleaner, cleans, history>>

Open(t) ==
  /\ at[t] = "open"
  /\ IF file = NoFile
     THEN /\ file' = [by |-> t, written |-> FALSE, old |-> FALSE]
          /\ GoTo(t, "write")
     ELSE GoTo(t, "read") /\ UNCHANGED file
  /\ UNCHANGED <<alive, locks, via, cleaner, cleans, history>>

\* The payload goes to the file t has opened, and the lock object into the map.
Write(t) ==
  /\ at[t] = "write"
  /\ file' = IF file # NoFile /\ file.by = t THEN [file EXCEPT !.written = TRUE] ELSE file
  /\ held' = [held EXCEPT ![Process[t]] = t]
  /\ count' = [count EXCEPT ![t] = 1]
  /\ via' = [via EXCEPT ![t] = t]
  /\ GoTo(t, "holds")
  /\ UNCHANGED <<alive, closing, cleaner, cleans, history>>

WriteFails(t) ==
  /\ at[t] = "write"
  /\ GoTo(t, "abandon")
  /\ UNCHANGED <<file, alive, locks, via, cleaner, cleans, history>>

Abandon(t) ==
  /\ at[t] = "abandon"
  /\ file' = NoFile
  /\ GoTo(t, "failed")
  /\ UNCHANGED <<alive, locks, via, cleaner, cleans, history>>

\* shouldTreatAsOrphanSelfLock
OrphanSelf(t) ==
  /\ Process[file.by] = Process[t]
  /\ ~StartTimes
  /\ held[Process[t]] = NoTask

\* inspectLockPayload of a payload that is there
FaultLiving(o) == FALSE
Dead(o) == ~alive[Process[o]]
Stale(f) == Dead(f.by) \/ f.old

\* Without a payload only the age of the file counts.
FaultAtOnce == "remove"
WithoutPayload == "stat"

Read(t) ==
  /\ at[t] = "read"
  /\ GoTo(t, IF file = NoFile THEN "stat"
             ELSE IF ~file.written THEN WithoutPayload
             ELSE IF Stale(file) \/ OrphanSelf(t) THEN "remove"
             ELSE "open")
  /\ UNCHANGED <<file, alive, locks, via, cleaner, cleans, history>>

Stat(t) ==
  /\ at[t] = "stat"
  /\ GoTo(t, IF file # NoFile /\ file.old THEN "remove" ELSE "open")
  /\ UNCHANGED <<file, alive, locks, via, cleaner, cleans, history>>

Remove(t) ==
  /\ at[t] = "remove"
  /\ robbed' = (robbed \/ InUse(file))
  /\ file' = NoFile
  /\ GoTo(t, "open")
  /\ UNCHANGED <<alive, locks, via, cleaner, cleans, forced, aged>>

TimesOut(t) ==
  /\ at[t] = "open"
  /\ GoTo(t, "failed")
  /\ UNCHANGED <<file, alive, locks, via, cleaner, cleans, history>>

-----------------------------------------------------------------------------
(* releaseHeldLock *)

\* Of a lock object that is not in the map any more nothing is released.
FaultFirst(o) == TRUE
Last(o) == count[o] = 1

Release(t) ==
  LET o == via[t] p == Process[t] IN
  /\ at[t] = "holds"
  /\ GoTo(t, "done")
  /\ IF held[p] # o THEN UNCHANGED locks
     ELSE /\ count' = [count EXCEPT ![o] = @ - 1]
          /\ IF Last(o)
             THEN /\ held' = [held EXCEPT ![p] = NoTask]
                  /\ closing' = closing \cup {o}
             ELSE UNCHANGED <<held, closing>>
  /\ UNCHANGED <<file, alive, via, cleaner, cleans, history>>

\* The releasePromise: the handle is closed, then the file removed.
FaultLeft == file
Removed == NoFile

Closed(o) ==
  /\ o \in closing
  /\ closing' = closing \ {o}
  /\ file' = Removed
  /\ UNCHANGED <<alive, held, count, at, via, cleaner, cleans, history>>

\* runLockWatchdogCheck, when the lock was held longer than maxHoldMs.
Watchdog(p) ==
  LET o == held[p] IN
  /\ o # NoTask
  /\ held' = [held EXCEPT ![p] = NoTask]
  /\ count' = [count EXCEPT ![o] = 0]
  /\ closing' = closing \cup {o}
  /\ forced' = forced \cup {o}
  /\ UNCHANGED <<file, alive, at, via, cleaner, cleans, robbed, aged>>

\* releaseAllLocksSync on a termination signal, which other listeners may survive,
\* or at the exit of the process.
Terminate(p) ==
  LET o == held[p] IN
  /\ o # NoTask
  /\ file' = NoFile
  /\ held' = [held EXCEPT ![p] = NoTask]
  /\ forced' = forced \cup {o}
  /\ UNCHANGED <<alive, count, at, via, closing, cleaner, cleans, robbed, aged>>

\* The process ends without further ado.
Crash(p) ==
  /\ alive[p]
  /\ alive' = [alive EXCEPT ![p] = FALSE]
  /\ held' = [held EXCEPT ![p] = NoTask]
  /\ at' = [t \in Tasks |-> IF Process[t] = p THEN "done" ELSE at[t]]
  /\ closing' = {o \in closing : Process[o] # p}
  /\ cleaner' = [cleaner EXCEPT ![p] = "idle"]
  /\ UNCHANGED <<file, count, via, cleans, history>>

-----------------------------------------------------------------------------
(* cleanStaleLockFiles, called when a gateway starts *)

CleanGoTo(p, step) == cleaner' = [cleaner EXCEPT ![p] = step]

CleanLists(p) ==
  /\ alive[p]
  /\ cleaner[p] = "idle"
  /\ cleans < MaxCleans
  /\ cleans' = cleans + 1
  /\ CleanGoTo(p, IF file = NoFile THEN "idle" ELSE "read")
  /\ UNCHANGED <<file, alive, locks, at, via, history>>

\* A payload that is missing is stale whatever the file's age.
CleanReads(p) ==
  /\ cleaner[p] = "read"
  /\ CleanGoTo(p, IF file = NoFile \/ ~file.written \/ Stale(file) THEN "remove" ELSE "idle")
  /\ UNCHANGED <<file, alive, locks, at, via, cleans, history>>

CleanRemoves(p) ==
  /\ cleaner[p] = "remove"
  /\ robbed' = (robbed \/ InUse(file))
  /\ file' = NoFile
  /\ CleanGoTo(p, "idle")
  /\ UNCHANGED <<alive, locks, at, via, cleans, forced, aged>>

\* staleMs passes.
Ages ==
  /\ file # NoFile /\ ~file.old
  /\ file' = [file EXCEPT !.old = TRUE]
  /\ aged' = (aged \/ InUse(file))
  /\ UNCHANGED <<alive, locks, at, via, cleaner, cleans, forced, robbed>>

-----------------------------------------------------------------------------
Contend(t) == Open(t) \/ Write(t) \/ Abandon(t) \/ Read(t) \/ Stat(t) \/ Remove(t)

Next ==
  \/ \E t \in Tasks :
       Acquire(t) \/ Contend(t) \/ WriteFails(t) \/ TimesOut(t) \/ Release(t) \/ Closed(t)
  \/ \E p \in Processes :
       \/ Watchdog(p) \/ Terminate(p) \/ Crash(p)
       \/ CleanLists(p) \/ CleanReads(p) \/ CleanRemoves(p)
  \/ Ages

Spec == Init /\ [][Next]_vars

\* File operations end, and the delay between two attempts passes.
FairSpec == Spec /\ \A t \in Tasks : WF_vars(Contend(t))

-----------------------------------------------------------------------------
(* Properties *)

TypeOK ==
  /\ file \in [by : Tasks, written : BOOLEAN, old : BOOLEAN] \cup {NoFile}
  /\ alive \in [Processes -> BOOLEAN]
  /\ held \in [Processes -> Tasks \cup {NoTask}]
  /\ count \in [Tasks -> Int]
  /\ at \in [Tasks -> {"idle", "open", "write", "abandon", "read", "stat", "remove",
                       "holds", "done", "failed"}]
  /\ via \in [Tasks -> Tasks \cup {NoTask}]
  /\ closing \subseteq Tasks
  /\ cleaner \in [Processes -> {"idle", "read", "remove"}]
  /\ cleans \in 0..MaxCleans
  /\ forced \subseteq Tasks
  /\ robbed \in BOOLEAN /\ aged \in BOOLEAN

\* "enforce single-writer session locks" (CHANGELOG.md:3692): who holds the lock has
\* the lock file, until the last of its reentrant holders releases it, so that no
\* two lock objects are held at once; and "Old release handle must not affect the
\* new lock" (session-write-lock.test.ts:201).  Excepted are locks taken away by the
\* watchdog or a signal, and everything after a file in use was removed as stale.
SingleWriter ==
  ~robbed =>
    \A t \in Tasks : at[t] = "holds" /\ via[t] \notin forced =>
      file # NoFile /\ file.by = via[t] /\ file.written

\* On a platform with start times no contender removes a lock file in use, fresh
\* ones that have no payload yet included ("does not reclaim fresh malformed lock
\* files during contention", session-write-lock.test.ts:154), unless a process has
\* died (two contenders may then find the same file stale), the lock has outlived
\* staleMs, or a gateway cleans up.
RobbedOnlyAfterTrouble ==
  robbed => \/ ~StartTimes
            \/ \E p \in Processes : ~alive[p]
            \/ aged
            \/ cleans > 0

\* A process that lives leaves no lock file behind that it has forgotten: it would
\* be no contender's to remove before staleMs.
NoForgottenFile == ~robbed /\ file # NoFile /\ alive[Process[file.by]] => Known(file.by)

\* A lock file that a dead process left is removed as long as somebody contends.
Contends(t) == at[t] \in {"open", "read", "stat", "remove"}
LeftByTheDead == file # NoFile /\ (file.written \/ file.old) /\ ~alive[Process[file.by]]

DeadLocksAreReclaimed ==
  \A t \in Tasks : LeftByTheDead /\ Contends(t) ~> ~LeftByTheDead \/ ~Contends(t)
=============================================================================
