----------------------- MODULE SessionWriteLockProofs -----------------------
(* The promises of the session write lock, for any processes and tasks, with *)
(* and without reentrancy, on every platform.                                 *)
EXTENDS SessionWriteLock, FiniteSetTheorems, TLAPS

\* A lock object is in the map or being closed only after its task created it, and
\* never both; a task holds an object of its own process.
Lifecycle ==
  /\ \A o \in Tasks : held[Process[o]] = o \/ o \in closing => at[o] \in {"holds", "done"}
  /\ \A o \in Tasks : held[Process[o]] = o => o \notin closing
  /\ \A p \in Processes : held[p] # NoTask => Process[held[p]] = p
  /\ \A t \in Tasks : at[t] = "holds" =>
       /\ via[t] \in Tasks
       /\ Process[via[t]] = Process[t]
       /\ at[via[t]] \in {"holds", "done"}

\* The count of an object in the map is the number of tasks that hold it.
Holders(o) == {t \in Tasks : at[t] = "holds" /\ via[t] = o}
CountsHolders == \A o \in Tasks : held[Process[o]] = o => count[o] = Cardinality(Holders(o))

\* Until a file in use is taken away, the object a process knows of has the file,
\* with its payload once it is in the map, and is in the map while it is held.
KnownHasFile ==
  ~robbed => \A o \in Tasks : Known(o) =>
    /\ file # NoFile
    /\ file.by = o
    /\ held[Process[o]] = o => file.written

HeldInMap ==
  ~robbed => \A t \in Tasks : at[t] = "holds" /\ via[t] \notin forced => held[Process[t]] = via[t]

\* Without trouble nobody ever finds a file to remove.
Trouble ==
  \/ ~StartTimes
  \/ \E p \in Processes : ~alive[p]
  \/ aged
  \/ cleans > 0

Calm ==
  Trouble \/ /\ ~robbed
             /\ file # NoFile => ~file.old
             /\ \A t \in Tasks : at[t] # "remove"
             /\ \A p \in Processes : cleaner[p] = "idle"

IInv ==
  /\ TypeOK
  /\ Lifecycle /\ CountsHolders
  /\ KnownHasFile /\ HeldInMap /\ NoForgottenFile /\ Calm

-----------------------------------------------------------------------------

LEMMA InitIInv == Init => IInv
<1> SUFFICES ASSUME Init PROVE IInv
  OBVIOUS
<1> USE SessionLockAssumption DEF Init
<1>1. TypeOK
  <2>1. alive \in [Processes -> BOOLEAN] /\ robbed \in BOOLEAN /\ aged \in BOOLEAN
    BY Zenon
  <2>2. /\ file \in [by : Tasks, written : BOOLEAN, old : BOOLEAN] \cup {NoFile}
        /\ closing \subseteq Tasks /\ forced \subseteq Tasks
    BY Zenon
  <2>3. cleans \in 0..MaxCleans
    OBVIOUS
  <2> QED
    BY <2>1, <2>2, <2>3 DEF TypeOK
<1>2. Lifecycle /\ CountsHolders
  BY DEF Lifecycle, CountsHolders
<1>3. KnownHasFile /\ HeldInMap /\ NoForgottenFile
  BY DEF KnownHasFile, HeldInMap, NoForgottenFile, Known
<1>4. Calm
  BY DEF Calm
<1> QED
  BY <1>1, <1>2, <1>3, <1>4 DEF IInv

LEMMA TypeOKStep == ASSUME TypeOK, Lifecycle, [Next]_vars PROVE TypeOK'
<1> USE SessionLockAssumption DEF TypeOK, locks, history, GoTo, CleanGoTo
<1>1. ASSUME NEW t \in Tasks, Acquire(t) PROVE TypeOK'
  BY <1>1 DEF Acquire, Lifecycle
<1>2. ASSUME NEW t \in Tasks, Open(t) PROVE TypeOK'
  <2>1. [by |-> t, written |-> FALSE, old |-> FALSE] \in [by : Tasks, written : BOOLEAN, old : BOOLEAN]
    OBVIOUS
  <2> QED
    BY <1>2, <2>1 DEF Open
<1>3. ASSUME NEW t \in Tasks, Write(t) PROVE TypeOK'
  <2>1. file' \in [by : Tasks, written : BOOLEAN, old : BOOLEAN] \cup {NoFile}
    BY <1>3 DEF Write
  <2> QED
    BY <1>3, <2>1 DEF Write
<1>4. ASSUME NEW t \in Tasks, WriteFails(t) \/ Abandon(t) \/ Stat(t) \/ Remove(t) \/ TimesOut(t)
      PROVE  TypeOK'
  BY <1>4 DEF WriteFails, Abandon, Stat, Remove, TimesOut
<1>5. ASSUME NEW t \in Tasks, Read(t) PROVE TypeOK'
  BY <1>5 DEF Read, WithoutPayload
<1>6. ASSUME NEW t \in Tasks, Release(t) \/ Closed(t) PROVE TypeOK'
  BY <1>6 DEF Release, Closed, Removed, Lifecycle
<1>7. ASSUME NEW p \in Processes, Watchdog(p) \/ Terminate(p) PROVE TypeOK'
  BY <1>7 DEF Watchdog, Terminate
<1>8. ASSUME NEW p \in Processes, Crash(p) PROVE TypeOK'
  BY <1>8 DEF Crash
<1>9. ASSUME NEW p \in Processes, CleanLists(p) PROVE TypeOK'
  BY <1>9 DEF CleanLists
<1>10. ASSUME NEW p \in Processes, CleanReads(p) \/ CleanRemoves(p) PROVE TypeOK'
  BY <1>10 DEF CleanReads, CleanRemoves
<1>11. CASE Ages
  BY <1>11 DEF Ages
<1>12. CASE UNCHANGED vars
  BY <1>12 DEF vars
<1> QED
  BY <1>1, <1>2, <1>3, <1>4, <1>5, <1>6, <1>7, <1>8, <1>9, <1>10, <1>11, <1>12 DEF Next, Contend

LEMMA LifecycleStep == ASSUME TypeOK, Lifecycle, [Next]_vars PROVE Lifecycle'
<1> USE SessionLockAssumption DEF TypeOK, Lifecycle, locks, history, GoTo, CleanGoTo
<1>1. ASSUME NEW t \in Tasks, Acquire(t) PROVE Lifecycle'
  BY <1>1 DEF Acquire
<1>2. ASSUME NEW t \in Tasks, Open(t) \/ WriteFails(t) \/ Abandon(t) PROVE Lifecycle'
  BY <1>2 DEF Open, WriteFails, Abandon
<1>3. ASSUME NEW t \in Tasks, Write(t) PROVE Lifecycle'
  BY <1>3 DEF Write
<1>4. ASSUME NEW t \in Tasks, Stat(t) \/ Remove(t) \/ TimesOut(t) PROVE Lifecycle'
  BY <1>4 DEF Stat, Remove, TimesOut
<1>5. ASSUME NEW t \in Tasks, Read(t) PROVE Lifecycle'
  BY <1>5 DEF Read, WithoutPayload
<1>6. ASSUME NEW t \in Tasks, Release(t) PROVE Lifecycle'
  BY <1>6 DEF Release
<1>7. ASSUME NEW t \in Tasks, Closed(t) PROVE Lifecycle'
  BY <1>7 DEF Closed
<1>8. ASSUME NEW p \in Processes, Watchdog(p) \/ Terminate(p) PROVE Lifecycle'
  BY <1>8 DEF Watchdog, Terminate
<1>9. ASSUME NEW p \in Processes, Crash(p) PROVE Lifecycle'
  BY <1>9 DEF Crash
<1>10. ASSUME NEW p \in Processes, CleanLists(p) \/ CleanReads(p) \/ CleanRemoves(p)
       PROVE  Lifecycle'
  BY <1>10 DEF CleanLists, CleanReads, CleanRemoves
<1>11. CASE Ages \/ UNCHANGED vars
  BY <1>11 DEF Ages, vars
<1> QED
  BY <1>1, <1>2, <1>3, <1>4, <1>5, <1>6, <1>7, <1>8, <1>9, <1>10, <1>11 DEF Next, Contend

-----------------------------------------------------------------------------
(* The file and who knows of it *)

LockFiles == [by : Tasks, written : BOOLEAN, old : BOOLEAN]
Fresh(t) == [by |-> t, written |-> FALSE, old |-> FALSE]
WithPayload(f) == [f EXCEPT !.written = TRUE]
Older(f) == [f EXCEPT !.old = TRUE]

\* A lock file that is created, written or aged is a file, of its creator.
LEMMA LockFileFacts ==
  /\ \A t \in Tasks : Fresh(t) \in LockFiles /\ Fresh(t).by = t
  /\ \A f \in LockFiles :
       /\ WithPayload(f) \in LockFiles /\ WithPayload(f).by = f.by /\ WithPayload(f).written
       /\ Older(f) \in LockFiles /\ Older(f).by = f.by /\ Older(f).written = f.written
  /\ NoFile \notin LockFiles
<1>1. \A t \in Tasks : Fresh(t) \in LockFiles /\ Fresh(t).by = t
  BY DEF Fresh, LockFiles
<1>2. ASSUME NEW f \in LockFiles
      PROVE  WithPayload(f) \in LockFiles /\ WithPayload(f).by = f.by /\ WithPayload(f).written
  BY DEF WithPayload, LockFiles
<1>3. ASSUME NEW f \in LockFiles
      PROVE  Older(f) \in LockFiles /\ Older(f).by = f.by /\ Older(f).written = f.written
  BY DEF Older, LockFiles
<1> QED
  BY <1>1, <1>2, <1>3, SessionLockAssumption DEF LockFiles

LEMMA KnownHasFileStep ==
  ASSUME TypeOK, Lifecycle, KnownHasFile, [Next]_vars
  PROVE  KnownHasFile'
<1> USE SessionLockAssumption DEF TypeOK, Lifecycle, KnownHasFile, Known, locks, history, GoTo, CleanGoTo
<1>1. ASSUME NEW t \in Tasks, Acquire(t) PROVE KnownHasFile'
  BY <1>1 DEF Acquire
<1>2. ASSUME NEW t \in Tasks, Open(t) PROVE KnownHasFile'
  <2>1. CASE file # NoFile
    BY <1>2, <2>1 DEF Open
  <2>2. CASE file = NoFile
    <3>1. file' = Fresh(t)
      BY <1>2, <2>2 DEF Open, Fresh
    <3>2. file' # NoFile /\ file'.by = t
      BY <3>1, LockFileFacts
    <3>3. ~robbed => \A o \in Tasks : ~Known(o)
      BY <2>2
    <3>4. \A o \in Tasks : held'[Process[o]] = held[Process[o]] /\ closing' = closing
      BY <1>2 DEF Open
    <3>5. \A o \in Tasks : at'[o] = IF o = t THEN "write" ELSE at[o]
      BY <1>2, <2>2 DEF Open
    <3> QED
      BY <1>2, <3>1, <3>2, <3>3, <3>4, <3>5 DEF Open
  <2> QED
    BY <2>1, <2>2
<1>3. ASSUME NEW t \in Tasks, Write(t) PROVE KnownHasFile'
  <2> SUFFICES ASSUME ~robbed PROVE KnownHasFile'
    BY <1>3 DEF Write
  <2>1. file # NoFile /\ file.by = t
    BY <1>3 DEF Write
  <2>2. file \in LockFiles /\ file' = WithPayload(file)
    BY <1>3, <2>1 DEF Write, LockFiles, WithPayload
  <2>3. file' # NoFile /\ file'.by = t /\ file'.written
    BY <2>1, <2>2, LockFileFacts
  <2>4. \A o \in Tasks \ {t} : ~Known(o)
    BY <2>1
  <2>5. \A o \in Tasks \ {t} : held'[Process[o]] # o /\ at'[o] = at[o] /\ closing' = closing
    BY <1>3, <2>4 DEF Write
  <2> QED
    BY <2>3, <2>4, <2>5
<1>4. ASSUME NEW t \in Tasks, WriteFails(t) \/ Abandon(t) PROVE KnownHasFile'
  BY <1>4 DEF WriteFails, Abandon
<1>5. ASSUME NEW t \in Tasks, Read(t) PROVE KnownHasFile'
  BY <1>5 DEF Read, WithoutPayload
<1>6. ASSUME NEW t \in Tasks, Stat(t) \/ TimesOut(t) PROVE KnownHasFile'
  BY <1>6 DEF Stat, TimesOut
<1>7. ASSUME NEW t \in Tasks, Remove(t) PROVE KnownHasFile'
  <2>1. ~robbed' => ~robbed /\ ~InUse(file)
    BY <1>7 DEF Remove
  <2>2. ~robbed' => \A o \in Tasks : ~Known(o)
    BY <2>1 DEF InUse
  <2>3. \A o \in Tasks : Known(o)' => Known(o)
    BY <1>7 DEF Remove
  <2> QED
    BY <2>2, <2>3
<1>8. ASSUME NEW t \in Tasks, Release(t) PROVE KnownHasFile'
  BY <1>8 DEF Release
<1>9. ASSUME NEW t \in Tasks, Closed(t) PROVE KnownHasFile'
  BY <1>9 DEF Closed
<1>10. ASSUME NEW p \in Processes, Watchdog(p) PROVE KnownHasFile'
  BY <1>10 DEF Watchdog
<1>11. ASSUME NEW p \in Processes, Terminate(p) PROVE KnownHasFile'
  BY <1>11 DEF Terminate
<1>12. ASSUME NEW p \in Processes, Crash(p) PROVE KnownHasFile'
  BY <1>12 DEF Crash
<1>13. ASSUME NEW p \in Processes, CleanLists(p) \/ CleanReads(p) PROVE KnownHasFile'
  BY <1>13 DEF CleanLists, CleanReads
<1>14. ASSUME NEW p \in Processes, CleanRemoves(p) PROVE KnownHasFile'
  BY <1>14 DEF CleanRemoves, InUse
<1>15. CASE Ages
  <2>1. /\ file \in LockFiles /\ file' = Older(file)
        /\ UNCHANGED <<held, at, closing, robbed>>
    BY <1>15 DEF Ages, LockFiles, Older
  <2>2. file' # NoFile /\ file'.by = file.by /\ file'.written = file.written
    BY <2>1, LockFileFacts
  <2> QED
    BY <2>1, <2>2
<1>16. CASE UNCHANGED vars
  BY <1>16 DEF vars
<1> QED
  BY <1>1, <1>2, <1>3, <1>4, <1>5, <1>6, <1>7, <1>8, <1>9, <1>10, <1>11, <1>12, <1>13, <1>14,
     <1>15, <1>16 DEF Next, Contend

LEMMA NoForgottenFileStep ==
  ASSUME TypeOK, Lifecycle, KnownHasFile, NoForgottenFile, [Next]_vars
  PROVE  NoForgottenFile'
<1> USE SessionLockAssumption
    DEF TypeOK, Lifecycle, KnownHasFile, NoForgottenFile, Known, locks, history, GoTo, CleanGoTo
<1>1. ASSUME NEW t \in Tasks, Acquire(t) PROVE NoForgottenFile'
  BY <1>1 DEF Acquire
<1>2. ASSUME NEW t \in Tasks, Open(t) PROVE NoForgottenFile'
  BY <1>2 DEF Open
<1>3. ASSUME NEW t \in Tasks, Write(t) PROVE NoForgottenFile'
  BY <1>3 DEF Write
<1>4. ASSUME NEW t \in Tasks, WriteFails(t) \/ Abandon(t) PROVE NoForgottenFile'
  BY <1>4 DEF WriteFails, Abandon
<1>5. ASSUME NEW t \in Tasks, Read(t) PROVE NoForgottenFile'
  BY <1>5 DEF Read, WithoutPayload
<1>6. ASSUME NEW t \in Tasks, Stat(t) \/ TimesOut(t) \/ Remove(t) PROVE NoForgottenFile'
  BY <1>6 DEF Stat, TimesOut, Remove
<1>7. ASSUME NEW t \in Tasks, Release(t) PROVE NoForgottenFile'
  BY <1>7 DEF Release
<1>8. ASSUME NEW t \in Tasks, Closed(t) PROVE NoForgottenFile'
  BY <1>8 DEF Closed, Removed
<1>9. ASSUME NEW p \in Processes, Watchdog(p) \/ Terminate(p) PROVE NoForgottenFile'
  BY <1>9 DEF Watchdog, Terminate
<1>10. ASSUME NEW p \in Processes, Crash(p) PROVE NoForgottenFile'
  BY <1>10 DEF Crash
<1>11. ASSUME NEW p \in Processes, CleanLists(p) \/ CleanReads(p) \/ CleanRemoves(p)
       PROVE  NoForgottenFile'
  BY <1>11 DEF CleanLists, CleanReads, CleanRemoves
<1>12. CASE Ages \/ UNCHANGED vars
  BY <1>12 DEF Ages, vars
<1> QED
  BY <1>1, <1>2, <1>3, <1>4, <1>5, <1>6, <1>7, <1>8, <1>9, <1>10, <1>11, <1>12 DEF Next, Contend

LEMMA CalmStep ==
  ASSUME TypeOK, NoForgottenFile, Calm, [Next]_vars
  PROVE  Calm'
<1> USE SessionLockAssumption
    DEF TypeOK, NoForgottenFile, Calm, Trouble, locks, history, GoTo, CleanGoTo
<1>1. ASSUME NEW t \in Tasks, Acquire(t) \/ Open(t) \/ Write(t) PROVE Calm'
  BY <1>1 DEF Acquire, Open, Write
<1>2. ASSUME NEW t \in Tasks, WriteFails(t) \/ Abandon(t) PROVE Calm'
  BY <1>2 DEF WriteFails, Abandon
<1>3. ASSUME NEW t \in Tasks, Read(t) PROVE Calm'
  BY <1>3 DEF Read, WithoutPayload, Stale, Dead, OrphanSelf
<1>4. ASSUME NEW t \in Tasks, Stat(t) \/ TimesOut(t) \/ Remove(t) PROVE Calm'
  BY <1>4 DEF Stat, TimesOut, Remove
<1>5. ASSUME NEW t \in Tasks, Release(t) \/ Closed(t) PROVE Calm'
  BY <1>5 DEF Release, Closed, Removed
<1>6. ASSUME NEW p \in Processes, Watchdog(p) \/ Terminate(p) PROVE Calm'
  BY <1>6 DEF Watchdog, Terminate
<1>7. ASSUME NEW p \in Processes, Crash(p) PROVE Calm'
  BY <1>7 DEF Crash
<1>8. ASSUME NEW p \in Processes, CleanLists(p) \/ CleanReads(p) \/ CleanRemoves(p) PROVE Calm'
  BY <1>8 DEF CleanLists, CleanReads, CleanRemoves
<1>9. CASE Ages
  BY <1>9 DEF Ages, InUse
<1>10. CASE UNCHANGED vars
  BY <1>10 DEF vars
<1> QED
  BY <1>1, <1>2, <1>3, <1>4, <1>5, <1>6, <1>7, <1>8, <1>9, <1>10 DEF Next, Contend
-----------------------------------------------------------------------------
(* Who holds the lock *)

LEMMA HoldersFinite ==
  \A o \in Tasks : IsFiniteSet(Holders(o)) /\ Cardinality(Holders(o)) \in Nat
BY SessionLockAssumption, FS_Subset, FS_CardinalityType DEF Holders

\* A task that is not a holder adds one to their number, a holder takes one off.
LEMMA OneMore ==
  ASSUME NEW S, NEW x, x \notin S, IsFiniteSet(S), NEW T, T = S \cup {x}
  PROVE  Cardinality(T) = Cardinality(S) + 1
BY FS_AddElement

LEMMA OneLess ==
  ASSUME NEW S, NEW x \in S, IsFiniteSet(S), NEW T, T = S \ {x}
  PROVE  Cardinality(T) = Cardinality(S) - 1
BY FS_RemoveElement

LEMMA CountsHoldersStep ==
  ASSUME TypeOK, Lifecycle, CountsHolders, [Next]_vars
  PROVE  CountsHolders'
<1> USE SessionLockAssumption
    DEF TypeOK, Lifecycle, CountsHolders, locks, history, GoTo, CleanGoTo
\* Where no task comes to hold a lock, or ceases to, nothing changes.
<1>1. ASSUME \A o \in Tasks : held'[Process[o]] = o => held[Process[o]] = o /\ count'[o] = count[o],
             \A o \in Tasks : held'[Process[o]] = o => Holders(o)' = Holders(o)
      PROVE  CountsHolders'
  BY <1>1
<1>2. ASSUME NEW t \in Tasks, Acquire(t) PROVE CountsHolders'
  <2>1. CASE Reentrant /\ held[Process[t]] # NoTask
    <3> PICK o \in Tasks : o = held[Process[t]]
      BY <2>1
    <3>1. t \notin Holders(o) /\ Holders(o)' = Holders(o) \cup {t}
      BY <1>2, <2>1 DEF Acquire, Holders
    <3>2. Cardinality(Holders(o)') = Cardinality(Holders(o)) + 1
      BY <3>1, HoldersFinite, OneMore
    <3>3. \A x \in Tasks \ {o} : Holders(x)' = Holders(x) /\ count'[x] = count[x]
      BY <1>2, <2>1 DEF Acquire, Holders
    <3>4. held' = held /\ count'[o] = count[o] + 1 /\ Process[o] = Process[t]
      BY <1>2, <2>1, <3>1 DEF Acquire
    <3> QED
      BY <3>1, <3>2, <3>3, <3>4
  <2>2. CASE ~(Reentrant /\ held[Process[t]] # NoTask)
    BY <1>1, <1>2, <2>2 DEF Acquire, Holders
  <2> QED
    BY <2>1, <2>2
<1>3. ASSUME NEW t \in Tasks, Open(t) \/ WriteFails(t) \/ Abandon(t) PROVE CountsHolders'
  BY <1>1, <1>3 DEF Open, WriteFails, Abandon, Holders
<1>4. ASSUME NEW t \in Tasks, Write(t) PROVE CountsHolders'
  <2>1. Holders(t)' = {t}
    BY <1>4 DEF Write, Holders
  <2>2. Cardinality({t}) = 1
    BY FS_Singleton
  <2>3. \A o \in Tasks \ {t} : Holders(o)' = Holders(o) /\ count'[o] = count[o]
    BY <1>4 DEF Write, Holders
  <2>4. /\ count'[t] = 1
        /\ \A o \in Tasks \ {t} : held'[Process[o]] = o => held[Process[o]] = o
    BY <1>4 DEF Write
  <2> QED
    BY <2>1, <2>2, <2>3, <2>4
<1>5. ASSUME NEW t \in Tasks, Stat(t) \/ Remove(t) \/ TimesOut(t) PROVE CountsHolders'
  BY <1>1, <1>5 DEF Stat, Remove, TimesOut, Holders
<1>6. ASSUME NEW t \in Tasks, Read(t) PROVE CountsHolders'
  BY <1>1, <1>6 DEF Read, WithoutPayload, Holders
<1>7. ASSUME NEW t \in Tasks, Release(t) PROVE CountsHolders'
  <2> PICK o \in Tasks : o = via[t]
    BY <1>7 DEF Release
  <2>1. Process[o] = Process[t] /\ t \in Holders(o) /\ Holders(o)' = Holders(o) \ {t}
    BY <1>7 DEF Release, Holders
  <2>2. Cardinality(Holders(o)') = Cardinality(Holders(o)) - 1
    BY <2>1, HoldersFinite, OneLess
  <2>3. \A x \in Tasks \ {o} :
          /\ Holders(x)' = Holders(x)
          /\ count'[x] = count[x]
          /\ held'[Process[x]] = x => held[Process[x]] = x
    BY <1>7, <2>1 DEF Release, Holders
  <2>4. held'[Process[o]] = o => held[Process[o]] = o /\ count'[o] = count[o] - 1
    BY <1>7, <2>1 DEF Release
  <2>5. held'[Process[o]] = o => count'[o] = Cardinality(Holders(o)')
    BY <2>2, <2>4
  <2>6. \A x \in Tasks \ {o} : held'[Process[x]] = x => count'[x] = Cardinality(Holders(x)')
    BY <2>3
  <2> QED
    BY <2>5, <2>6
<1>8. ASSUME NEW t \in Tasks, Closed(t) PROVE CountsHolders'
  BY <1>1, <1>8 DEF Closed, Holders
<1>9. ASSUME NEW p \in Processes, Watchdog(p) \/ Terminate(p) PROVE CountsHolders'
  BY <1>1, <1>9 DEF Watchdog, Terminate, Holders
<1>10. ASSUME NEW p \in Processes, Crash(p) PROVE CountsHolders'
  <2>1. \A o \in Tasks : held'[Process[o]] = o =>
          Process[o] # p /\ held[Process[o]] = o /\ count'[o] = count[o]
    BY <1>10 DEF Crash
  <2>2. \A o \in Tasks : Process[o] # p => Holders(o)' = Holders(o)
    BY <1>10 DEF Crash, Holders
  <2> QED
    BY <1>1, <2>1, <2>2
<1>11. ASSUME NEW p \in Processes, CleanLists(p) \/ CleanReads(p) \/ CleanRemoves(p)
       PROVE  CountsHolders'
  BY <1>1, <1>11 DEF CleanLists, CleanReads, CleanRemoves, Holders
<1>12. CASE Ages \/ UNCHANGED vars
  BY <1>1, <1>12 DEF Ages, vars, Holders
<1> QED
  BY <1>2, <1>3, <1>4, <1>5, <1>6, <1>7, <1>8, <1>9, <1>10, <1>11, <1>12 DEF Next, Contend

\* A count of one is the last holder's.
LEMMA LastHolder ==
  ASSUME Lifecycle, CountsHolders, NEW t \in Tasks, at[t] = "holds",
         held[Process[t]] = via[t], count[via[t]] = 1,
         NEW u \in Tasks, at[u] = "holds", via[u] = via[t]
  PROVE  u = t
<1>1. via[t] \in Tasks /\ Process[via[t]] = Process[t]
  BY DEF Lifecycle
<1>2. t \in Holders(via[t]) /\ u \in Holders(via[t])
  BY DEF Holders
<1>3. Cardinality(Holders(via[t])) = 1
  BY <1>1 DEF CountsHolders
<1>4. PICK x : Holders(via[t]) = {x}
  BY <1>1, <1>3, HoldersFinite, FS_Singleton
<1> QED
  BY <1>2, <1>4

LEMMA HeldInMapStep ==
  ASSUME TypeOK, Lifecycle, CountsHolders, KnownHasFile, HeldInMap, [Next]_vars
  PROVE  HeldInMap'
<1> USE SessionLockAssumption DEF TypeOK, HeldInMap, locks, history, GoTo, CleanGoTo
<1>1. ASSUME NEW t \in Tasks, Acquire(t) PROVE HeldInMap'
  BY <1>1 DEF Acquire
<1>2. ASSUME NEW t \in Tasks, Open(t) \/ WriteFails(t) \/ Abandon(t) PROVE HeldInMap'
  BY <1>2 DEF Open, WriteFails, Abandon
<1>3. ASSUME NEW t \in Tasks, Write(t) PROVE HeldInMap'
  <2> SUFFICES ASSUME ~robbed PROVE HeldInMap'
    BY <1>3 DEF Write
  <2>1. at[t] = "write" /\ file.by = t
    BY <1>3 DEF Write, KnownHasFile, Known
  <2>2. ASSUME NEW u \in Tasks \ {t}, at[u] = "holds", via[u] \notin forced, Process[u] = Process[t]
        PROVE  FALSE
    <3>1. via[u] \in Tasks /\ held[Process[via[u]]] = via[u] /\ at[via[u]] # "write"
      BY <2>2 DEF Lifecycle
    <3>2. file.by = via[u]
      BY <3>1 DEF KnownHasFile, Known
    <3> QED
      BY <2>1, <3>1, <3>2
  <2> QED
    BY <1>3, <2>2 DEF Write
<1>4. ASSUME NEW t \in Tasks, Stat(t) \/ Remove(t) \/ TimesOut(t) PROVE HeldInMap'
  BY <1>4 DEF Stat, Remove, TimesOut
<1>5. ASSUME NEW t \in Tasks, Read(t) PROVE HeldInMap'
  BY <1>5 DEF Read, WithoutPayload
<1>6. ASSUME NEW t \in Tasks, Release(t) PROVE HeldInMap'
  <2>1. CASE held[Process[t]] = via[t] /\ count[via[t]] = 1
    <3>1. \A u \in Tasks : at[u] = "holds" /\ via[u] = via[t] => u = t
      BY <1>6, <2>1, LastHolder DEF Release
    <3>2. /\ held' = [held EXCEPT ![Process[t]] = NoTask]
          /\ at' = [at EXCEPT ![t] = "done"]
          /\ UNCHANGED <<via, forced, robbed>>
      BY <1>6, <2>1 DEF Release, Last
    <3> QED
      BY <2>1, <3>1, <3>2
  <2>2. CASE ~(held[Process[t]] = via[t] /\ count[via[t]] = 1)
    BY <1>6, <2>2 DEF Release, Last
  <2> QED
    BY <2>1, <2>2
<1>7. ASSUME NEW t \in Tasks, Closed(t) PROVE HeldInMap'
  BY <1>7 DEF Closed
<1>8. ASSUME NEW p \in Processes, Watchdog(p) \/ Terminate(p) PROVE HeldInMap'
  BY <1>8 DEF Watchdog, Terminate
<1>9. ASSUME NEW p \in Processes, Crash(p) PROVE HeldInMap'
  BY <1>9 DEF Crash
<1>10. ASSUME NEW p \in Processes, CleanLists(p) \/ CleanReads(p) \/ CleanRemoves(p)
       PROVE  HeldInMap'
  BY <1>10 DEF CleanLists, CleanReads, CleanRemoves
<1>11. CASE Ages \/ UNCHANGED vars
  BY <1>11 DEF Ages, vars
<1> QED
  BY <1>1, <1>2, <1>3, <1>4, <1>5, <1>6, <1>7, <1>8, <1>9, <1>10, <1>11 DEF Next, Contend

-----------------------------------------------------------------------------

LEMMA Inductive == IInv /\ [Next]_vars => IInv'
BY TypeOKStep, LifecycleStep, CountsHoldersStep, KnownHasFileStep, HeldInMapStep,
   NoForgottenFileStep, CalmStep DEF IInv

\* The inductive invariant holds of every behaviour.
THEOREM Invariance == Spec => []IInv
BY InitIInv, Inductive, PTL DEF Spec

\* Every variable keeps its type, whatever is removed under whose feet.
THEOREM TypeCorrect == Spec => []TypeOK
<1>1. IInv => TypeOK
  BY DEF IInv
<1> QED
  BY <1>1, Invariance, PTL

\* Until a file in use is removed as stale, a task that holds the lock has the lock
\* file until the last of the reentrant holders has released it.
THEOREM SingleWriterHolds == Spec => []SingleWriter
<1>1. ASSUME IInv PROVE SingleWriter
  <2> SUFFICES ASSUME ~robbed, NEW t \in Tasks, at[t] = "holds", via[t] \notin forced
               PROVE  file # NoFile /\ file.by = via[t] /\ file.written
    BY DEF SingleWriter
  <2>1. via[t] \in Tasks /\ Process[via[t]] = Process[t] /\ held[Process[t]] = via[t]
    BY <1>1 DEF IInv, Lifecycle, HeldInMap
  <2> QED
    BY <1>1, <2>1 DEF IInv, KnownHasFile, Known
<1> QED
  BY <1>1, Invariance, PTL

\* No contender removes a lock file in use on a platform with start times, unless a
\* process died, the lock outlived staleMs, or a gateway cleaned up.
THEOREM LiveLocksAreSafe == Spec => []RobbedOnlyAfterTrouble
<1>1. IInv => RobbedOnlyAfterTrouble
  BY DEF IInv, Calm, Trouble, RobbedOnlyAfterTrouble
<1> QED
  BY <1>1, Invariance, PTL

\* A live process leaves no lock file behind that it has forgotten.
THEOREM NoFileForgotten == Spec => []NoForgottenFile
<1>1. IInv => NoForgottenFile
  BY DEF IInv
<1> QED
  BY <1>1, Invariance, PTL
=============================================================================
