------------------------- MODULE CronServiceProofs -------------------------
(* The promises of the cron scheduler, for any jobs, any number of services, *)
(* slots and calls.                                                          *)
EXTENDS CronService, TLAPS

\* An entry of the store; an enabled job has a next run.
SoundEntries == {e \in Entries : e.present /\ e.enabled => e.next # Never}
Stores == [Jobs -> SoundEntries]

StoresSound == disk \in Stores /\ mem \in [Services -> Stores \cup {NotLoaded}]

Outcomes == {NoResult} \cup [status : Statuses, started : 0..MaxTime, ended : 0..MaxTime]

\* The shape of everything but the stores.
Bookkeeping ==
  /\ timer \subseteq Services /\ own \subseteq Services
  /\ at \in [Coroutines -> {"idle", "load", "missed", "collect", "execute", "finally", "arm", "up"}]
  /\ todo \in [Coroutines -> SUBSET Jobs]
  /\ doing \in [Coroutines -> Jobs \cup {NoJob}]
  /\ since \in [Coroutines -> 0..MaxTime]
  /\ results \in [Coroutines -> [Jobs -> Outcomes]]
  /\ interrupted \in [Services -> SUBSET Jobs]
  /\ cur \in Services /\ now \in 0..MaxTime /\ ops \in 0..MaxOps
  /\ first \in 1..cur /\ unmarked \subseteq Jobs

\* Only a coroutine that executes has jobs in hand, and it has loaded a store.
Working ==
  \A c \in Coroutines : IF at[c] = "execute" THEN mem[c[1]] \in Stores ELSE Idle(c)

\* A manual run has its job or its outcome.
ManualHasJob ==
  \A s \in Services :
    at[Manual(s)] = "execute" /\ Idle(Manual(s)) =>
      \E j \in Jobs : results[Manual(s)][j] # NoResult

\* A service of an earlier process, or of a later start, does nothing, and one that
\* is about to load has no other coroutine yet.
Quiet(s) ==
  mem[s] = NotLoaded /\ s \notin timer /\ at[Tick(s)] = "idle" /\ at[Manual(s)] = "idle"
Unstarted ==
  \A s \in Services :
    /\ s \notin first..cur => Quiet(s) /\ at[Boot(s)] = "idle"
    /\ at[Boot(s)] = "load" => Quiet(s)

\* A job in hand has its marker, in the store and in the copy of who has it in hand;
\* unless it is run by hand it is enabled there, so that upkeep leaves the marker.
Guarded(st, j, c) == HasMarker(st, j) /\ (c = Manual(c[1]) \/ Enabled(st, j))
Markers ==
  \A j \in Jobs \ unmarked : \A c \in Takers(j) : Guarded(disk, j, c) /\ Guarded(mem[c[1]], j, c)

\* The only service of a process and the store agree on when enabled jobs are due.
Agree ==
  cur = first /\ mem[cur] # NotLoaded =>
    \A j \in Jobs : Enabled(disk, j) => Enabled(mem[cur], j) /\ mem[cur][j].next = disk[j].next

Shape == StoresSound /\ Bookkeeping
Places == Working /\ ManualHasJob /\ Unstarted
IInv == Shape /\ Places /\ SchedulerKeepsTicking /\ Markers /\ NoOverlap /\ Agree

-----------------------------------------------------------------------------
(* Coroutines and entries *)

LEMMA StoresAreLoaded == \A st \in Stores : st # NotLoaded
  BY NotLoadedAssumption DEF Stores, SoundEntries

LEMMA Names ==
  /\ \A s \in Services : /\ Boot(s) \in Coroutines /\ Tick(s) \in Coroutines /\ Manual(s) \in Coroutines
                         /\ Boot(s)[1] = s /\ Tick(s)[1] = s /\ Manual(s)[1] = s
  /\ \A s, t \in Services : /\ Boot(s) # Tick(t) /\ Boot(s) # Manual(t) /\ Tick(s) # Manual(t)
                            /\ Boot(s) = Boot(t) => s = t
                            /\ Tick(s) = Tick(t) => s = t
                            /\ Manual(s) = Manual(t) => s = t
  /\ \A c \in Coroutines : /\ c[1] \in Services
                           /\ c = Boot(c[1]) \/ c = Tick(c[1]) \/ c = Manual(c[1])
<1>1. \A s \in Services : /\ Boot(s) \in Coroutines /\ Tick(s) \in Coroutines /\ Manual(s) \in Coroutines
                          /\ Boot(s)[1] = s /\ Tick(s)[1] = s /\ Manual(s)[1] = s
  BY DEF Coroutines, Boot, Tick, Manual
<1>2. \A s, t \in Services : /\ Boot(s) # Tick(t) /\ Boot(s) # Manual(t) /\ Tick(s) # Manual(t)
                             /\ Boot(s) = Boot(t) => s = t
                             /\ Tick(s) = Tick(t) => s = t
                             /\ Manual(s) = Manual(t) => s = t
  BY DEF Boot, Tick, Manual
<1>3. ASSUME NEW c \in Coroutines
      PROVE  c[1] \in Services /\ (c = Boot(c[1]) \/ c = Tick(c[1]) \/ c = Manual(c[1]))
  <2>1. c \in Services \X {"boot", "tick", "run"}
    BY DEF Coroutines
  <2>2. c = <<c[1], c[2]>> /\ c[1] \in Services /\ c[2] \in {"boot", "tick", "run"}
    BY <2>1
  <2> QED
    BY <2>2 DEF Boot, Tick, Manual
<1> QED
  BY <1>1, <1>2, <1>3

LEMMA AboutTime ==
  ASSUME Bookkeeping
  PROVE  /\ now \in Nat /\ now + 1 \in Times /\ now + 1 # Never /\ OneShotAt # Never /\ Never \in Times
         /\ now \in Times /\ now # Never
  BY CronAssumption DEF Bookkeeping, Times, Never

LEMMA ShapeIsTyped == Shape => TypeOK
  BY DEF Shape, StoresSound, Bookkeeping, TypeOK, Stores, SoundEntries

Present ==
  [present : {TRUE}, enabled : BOOLEAN, next : Times \cup {OneShotAt}, running : BOOLEAN,
   last : Times, failed : BOOLEAN, errors : 0..(MaxAttempts + 1)]

LEMMA EntryCases ==
  /\ Absent \in SoundEntries /\ ~Absent.present
  /\ \A e \in SoundEntries : /\ e = Absent \/ (e \in Present /\ e.present)
                             /\ e.present \in BOOLEAN
                             /\ e.present /\ e.enabled => e.next # Never
  /\ \A e \in Present : (e.enabled => e.next # Never) => e \in SoundEntries
<1>1. Absent.present = FALSE /\ Entries = {Absent} \cup Present
  BY DEF Absent, Entries, Present
<1>2. \A e \in Present : e.present = TRUE
  BY DEF Present
<1> QED
  BY <1>1, <1>2 DEF SoundEntries

LEMMA NewEntry ==
  ASSUME Bookkeeping, NEW j \in Jobs
  PROVE  NewJob(j) \in SoundEntries /\ NewJob(j).present
<1>1. (IF j \in OneShots THEN OneShotAt ELSE now + 1) \in (Times \cup {OneShotAt}) \ {Never}
  BY AboutTime
<1>2. 0 \in 0..(MaxAttempts + 1) /\ Never \in Times
  BY CronAssumption, AboutTime
<1>3. NewJob(j) \in Present /\ NewJob(j).next # Never /\ NewJob(j).present
  BY <1>1, <1>2 DEF NewJob, Present
<1> QED
  BY <1>3, EntryCases

\* Whatever changes the marker keeps an entry sound.
LEMMA MarkedEntry ==
  ASSUME NEW e \in SoundEntries, e.present, NEW b \in BOOLEAN
  PROVE  /\ [e EXCEPT !.running = b] \in SoundEntries
         /\ [e EXCEPT !.running = b].present /\ [e EXCEPT !.running = b].running = b
         /\ [e EXCEPT !.running = b].enabled = e.enabled /\ [e EXCEPT !.running = b].next = e.next
<1>1. e \in Present /\ (e.enabled => e.next # Never)
  BY EntryCases
<1>2. [e EXCEPT !.running = b] \in Present
  BY <1>1 DEF Present
<1>3. /\ [e EXCEPT !.running = b].present /\ [e EXCEPT !.running = b].running = b
      /\ [e EXCEPT !.running = b].enabled = e.enabled /\ [e EXCEPT !.running = b].next = e.next
  BY <1>1 DEF Present
<1> QED
  BY <1>1, <1>2, <1>3, EntryCases

LEMMA RescheduledEntry ==
  ASSUME NEW e \in SoundEntries, e.present, NEW t \in (Times \cup {OneShotAt}) \ {Never}
  PROVE  /\ [e EXCEPT !.next = t] \in SoundEntries
         /\ [e EXCEPT !.enabled = TRUE, !.next = t] \in SoundEntries
<1>1. e \in Present
  BY EntryCases
<1>2. [e EXCEPT !.next = t] \in Present /\ [e EXCEPT !.enabled = TRUE, !.next = t] \in Present
      /\ [e EXCEPT !.next = t].next = t /\ [e EXCEPT !.enabled = TRUE, !.next = t].next = t
  BY <1>1 DEF Present
<1> QED
  BY <1>2, EntryCases

LEMMA DisabledEntry ==
  ASSUME NEW e \in SoundEntries, e.present
  PROVE  /\ [e EXCEPT !.enabled = FALSE, !.next = Never, !.running = FALSE] \in SoundEntries
         /\ ~[e EXCEPT !.enabled = FALSE, !.next = Never, !.running = FALSE].enabled
<1>1. e \in Present /\ Never \in Times
  BY EntryCases DEF Times
<1>2. [e EXCEPT !.enabled = FALSE, !.next = Never, !.running = FALSE] \in Present
      /\ ~[e EXCEPT !.enabled = FALSE, !.next = Never, !.running = FALSE].enabled
  BY <1>1 DEF Present
<1> QED
  BY <1>2, EntryCases

LEMMA NormalizedEntry ==
  ASSUME NEW e \in SoundEntries
  PROVE  /\ Normalized(e) \in SoundEntries
         /\ Normalized(e).present = e.present
         /\ e.present /\ e.enabled => Normalized(e) = e
         /\ e.present => Normalized(e).enabled = e.enabled
<1>1. CASE e.present /\ ~e.enabled
  <2>1. e \in Present /\ Never \in Times
    BY <1>1, EntryCases DEF Times
  <2>2. [e EXCEPT !.next = Never, !.running = FALSE] \in Present
        /\ [e EXCEPT !.next = Never, !.running = FALSE].present
        /\ ~[e EXCEPT !.next = Never, !.running = FALSE].enabled
    BY <1>1, <2>1 DEF Present
  <2>3. e.enabled = FALSE /\ [e EXCEPT !.next = Never, !.running = FALSE].enabled = FALSE
        /\ e.present = TRUE /\ [e EXCEPT !.next = Never, !.running = FALSE].present = TRUE
    BY <1>1, <2>1, <2>2 DEF Present
  <2> QED
    BY <1>1, <2>2, <2>3, EntryCases DEF Normalized
<1>2. CASE ~(e.present /\ ~e.enabled)
  BY <1>2 DEF Normalized
<1> QED
  BY <1>1, <1>2


-----------------------------------------------------------------------------
(* Stores *)

LEMMA MarkedStore ==
  ASSUME NEW st \in Stores, NEW js \in SUBSET Jobs, \A j \in js : st[j].present
  PROVE  /\ Marked(st, js) \in Stores
         /\ \A j \in js : HasMarker(Marked(st, js), j)
         /\ \A j \in Jobs : HasMarker(st, j) => HasMarker(Marked(st, js), j)
         /\ \A j \in Jobs : /\ Enabled(Marked(st, js), j) <=> Enabled(st, j)
                            /\ Marked(st, js)[j].next = st[j].next
<1> SUFFICES ASSUME NEW j \in Jobs
             PROVE  /\ Marked(st, js)[j] \in SoundEntries
                    /\ j \in js => HasMarker(Marked(st, js), j)
                    /\ HasMarker(st, j) => HasMarker(Marked(st, js), j)
                    /\ Enabled(Marked(st, js), j) <=> Enabled(st, j)
                    /\ Marked(st, js)[j].next = st[j].next
  BY DEF Marked, Stores
<1>1. st[j] \in SoundEntries
  BY DEF Stores
<1>2. CASE j \in js
  <2>1. Marked(st, js)[j] = [st[j] EXCEPT !.running = TRUE] /\ st[j].present
    BY <1>2 DEF Marked
  <2>2. /\ [st[j] EXCEPT !.running = TRUE] \in SoundEntries
        /\ [st[j] EXCEPT !.running = TRUE].present
        /\ [st[j] EXCEPT !.running = TRUE].running
        /\ [st[j] EXCEPT !.running = TRUE].enabled = st[j].enabled
        /\ [st[j] EXCEPT !.running = TRUE].next = st[j].next
    BY <1>1, <2>1, MarkedEntry
  <2> QED
    BY <2>1, <2>2 DEF HasMarker, Enabled
<1>3. CASE j \notin js
  BY <1>1, <1>3 DEF Marked, HasMarker, Enabled
<1> QED
  BY <1>2, <1>3

LEMMA NextRunIsDue ==
  ASSUME Bookkeeping, NEW j \in Jobs PROVE NextRun(j, now) \in (Times \cup {OneShotAt}) \ {Never}
  BY AboutTime DEF NextRun

LEMMA RecomputedStore ==
  ASSUME Bookkeeping, NEW st \in Stores PROVE Recomputed(st) \in Stores
<1> SUFFICES ASSUME NEW j \in Jobs PROVE Recomputed(st)[j] \in SoundEntries
  BY DEF Recomputed, Stores
<1>1. st[j] \in SoundEntries
  BY DEF Stores
<1>2. CASE Enabled(st, j) /\ st[j].next <= now
  <2>1. [st[j] EXCEPT !.next = NextRun(j, now)] \in SoundEntries
    BY <1>1, <1>2, NextRunIsDue, RescheduledEntry DEF Enabled
  <2> QED
    BY <1>2, <2>1 DEF Recomputed
<1>3. CASE ~(Enabled(st, j) /\ st[j].next <= now)
  BY <1>1, <1>3, NormalizedEntry DEF Recomputed
<1> QED
  BY <1>2, <1>3

\* Upkeep only clears up disabled jobs: no enabled one has lost its next run.
LEMMA MaintainedStore ==
  ASSUME NEW st \in Stores
  PROVE  /\ Maintained(st) \in Stores
         /\ \A j \in Jobs : Enabled(Maintained(st), j) <=> Enabled(st, j)
         /\ \A j \in Jobs : Enabled(st, j) => Maintained(st)[j] = st[j]
         /\ \A j \in Jobs : Maintained(st)[j].present = st[j].present
<1> SUFFICES ASSUME NEW j \in Jobs
             PROVE  /\ Maintained(st)[j] \in SoundEntries
                    /\ Enabled(Maintained(st), j) <=> Enabled(st, j)
                    /\ Enabled(st, j) => Maintained(st)[j] = st[j]
                    /\ Maintained(st)[j].present = st[j].present
  BY DEF Maintained, Stores
<1>1. st[j] \in SoundEntries
  BY DEF Stores
<1>2. ~(Enabled(st, j) /\ st[j].next = Never)
  BY <1>1, EntryCases DEF Enabled
<1>3. Maintained(st)[j] = Normalized(st[j])
  BY <1>2 DEF Maintained
<1> QED
  BY <1>1, <1>3, NormalizedEntry DEF Enabled

LEMMA AppliedEntry ==
  ASSUME NEW j \in Jobs, NEW e \in SoundEntries, NEW r \in Outcomes
  PROVE  Applied(j, e, r) \in SoundEntries /\ (r = NoResult => Applied(j, e, r) = e)
<1>1. CASE ~e.present \/ r = NoResult
  BY <1>1 DEF Applied
<1>2. CASE e.present /\ r # NoResult
  <2>1. r \in [status : Statuses, started : 0..MaxTime, ended : 0..MaxTime]
    BY <1>2 DEF Outcomes
  <2>2. /\ r.started \in Times /\ r.ended + 1 \in Times /\ r.ended + 1 # Never
    BY <2>1, CronAssumption DEF Times, Never
  <2>3. e \in Present /\ Never \in Times
    BY <1>2, EntryCases DEF Times
  <2> DEFINE f == Ran(e, r)
  <2>4. f \in Present /\ f.enabled = e.enabled /\ f.errors = e.errors
    BY <2>2, <2>3 DEF Ran, Present
  <2> HIDE DEF f
  <2>5. CASE j \in Recurring
    <3>1. [f EXCEPT !.next = r.ended + 1] \in SoundEntries
      <4>1. [f EXCEPT !.next = r.ended + 1] \in Present /\ [f EXCEPT !.next = r.ended + 1].next # Never
        BY <2>2, <2>4 DEF Present
      <4> QED
        BY <4>1, EntryCases
    <3>2. CASE ~e.enabled
      <4>1. [f EXCEPT !.next = Never] \in Present /\ ~[f EXCEPT !.next = Never].enabled
        BY <2>3, <2>4, <3>2 DEF Present
      <4> QED
        BY <1>2, <2>5, <3>2, <4>1, EntryCases DEF Applied, f
    <3>3. CASE e.enabled
      BY <1>2, <2>5, <3>1, <3>3 DEF Applied, f
    <3> QED
      BY <1>2, <3>2, <3>3
  <2>6. CASE j \notin Recurring /\ r.status = "ok"
    BY <1>2, <2>6, EntryCases DEF Applied
  <2>7. CASE j \notin Recurring /\ r.status # "ok"
    <3> DEFINE errors == IF f.errors > MaxAttempts THEN f.errors ELSE f.errors + 1
    <3>1. errors \in 0..(MaxAttempts + 1)
      BY <2>4, CronAssumption DEF Present
    <3>2. Applied(j, e, r) = IF r.status = "transient" /\ errors <= MaxAttempts
                             THEN [f EXCEPT !.errors = errors, !.next = r.ended + 1]
                             ELSE [f EXCEPT !.enabled = FALSE, !.next = Never, !.errors = errors]
      BY <1>2, <2>7 DEF Applied, AfterOneShot, f
    <3> HIDE DEF errors
    <3>3. /\ [f EXCEPT !.errors = errors, !.next = r.ended + 1] \in Present
          /\ [f EXCEPT !.errors = errors, !.next = r.ended + 1].next # Never
      BY <2>2, <2>4, <3>1 DEF Present
    <3>4. /\ [f EXCEPT !.enabled = FALSE, !.next = Never, !.errors = errors] \in Present
          /\ ~[f EXCEPT !.enabled = FALSE, !.next = Never, !.errors = errors].enabled
      BY <2>3, <2>4, <3>1 DEF Present
    <3> QED
      BY <1>2, <3>2, <3>3, <3>4, EntryCases
  <2> QED
    BY <2>5, <2>6, <2>7
<1> QED
  BY <1>1, <1>2


\* Enabled jobs are due at the same times.
SameSchedule(st, base) ==
  \A j \in Jobs : /\ Enabled(st, j) <=> Enabled(base, j)
                  /\ Enabled(base, j) => st[j].next = base[j].next

LEMMA UpkeepKeepsSchedule ==
  ASSUME NEW st \in Stores, NEW js \in SUBSET Jobs, \A j \in js : st[j].present
  PROVE  SameSchedule(Marked(st, js), st) /\ SameSchedule(Maintained(st), st)
  BY MarkedStore, MaintainedStore DEF SameSchedule

LEMMA LoadedStore == ASSUME StoresSound, NEW s \in Services PROVE Loaded(s) \in Stores
  BY DEF StoresSound, Loaded

LEMMA PersistSound ==
  ASSUME StoresSound, NEW s \in Services, NEW st \in Stores, Persist(s, st)
  PROVE  /\ StoresSound' /\ mem'[s] = st /\ disk' = st
         /\ \A t \in Services \ {s} : mem'[t] = mem[t]
  BY DEF StoresSound, Persist, Stores, SoundEntries, Entries, Times

-----------------------------------------------------------------------------
(* What the conjuncts of the invariant need of a step.  Most steps move one     *)
(* coroutine c, on to place, and touch the copy of its service only.            *)

Started(s) == s \in first..cur

LEMMA WhoHasBegun ==
  ASSUME Shape, Places, NEW s \in Services,
         \/ at[Boot(s)] # "idle" \/ at[Tick(s)] # "idle" \/ at[Manual(s)] # "idle"
         \/ s \in timer \/ mem[s] # NotLoaded
  PROVE  /\ Started(s)
         /\ cur = first => s = cur
         /\ at[Tick(s)] # "idle" \/ at[Manual(s)] # "idle" \/ s \in timer \/ mem[s] # NotLoaded
              => at[Boot(s)] # "load"
<1>1. Started(s)
  BY DEF Places, Unstarted, Quiet, Started
<1>2. cur = first => s = cur
  BY <1>1 DEF Started, Shape, Bookkeeping, Services
<1> QED
  BY <1>1, <1>2 DEF Places, Unstarted, Quiet

LEMMA MovesOn ==
  ASSUME Shape, Places, NEW c \in Coroutines, NEW place, GoTo(c, place), place # "load",
         Started(c[1]), c # Boot(c[1]) => at[Boot(c[1])] # "load",
         UNCHANGED <<cur, first>>,
         \A t \in Services \ {c[1]} : mem'[t] = mem[t],
         place = "execute" => mem'[c[1]] \in Stores,
         mem'[c[1]] \in Stores \/ mem'[c[1]] = mem[c[1]],
         \A d \in Coroutines \ {c} : todo'[d] = todo[d] /\ doing'[d] = doing[d] /\ results'[d] = results[d],
         place # "execute" => todo'[c] = {} /\ doing'[c] = NoJob,
         place = "execute" /\ c = Manual(c[1]) => todo'[c] # {},
         timer' \subseteq timer \cup {c[1]}
  PROVE  Places'
<1> DEFINE s == c[1]
<1>1. s \in Services /\ (c = Boot(s) \/ c = Tick(s) \/ c = Manual(s))
  BY Names
<1>2. at'[c] = place /\ \A d \in Coroutines \ {c} : at'[d] = at[d]
  BY DEF GoTo, Shape, Bookkeeping
<1>3. Working'
  <2> SUFFICES ASSUME NEW d \in Coroutines
               PROVE  IF at'[d] = "execute" THEN mem'[d[1]] \in Stores
                      ELSE todo'[d] = {} /\ doing'[d] = NoJob
    BY DEF Working, Idle, Stores, SoundEntries, Entries, Times
  <2>1. CASE d = c
    BY <1>2, <2>1
  <2>2. CASE d # c
    <3>1. IF at[d] = "execute" THEN mem[d[1]] \in Stores ELSE todo[d] = {} /\ doing[d] = NoJob
      BY DEF Places, Working, Idle
    <3>2. d[1] \in Services /\ (mem[d[1]] \in Stores => mem'[d[1]] \in Stores)
      BY <1>1, Names
    <3> QED
      BY <1>2, <2>2, <3>1, <3>2
  <2> QED
    BY <2>1, <2>2
<1>4. ManualHasJob'
  <2> SUFFICES ASSUME NEW t \in Services, at'[Manual(t)] = "execute", Idle(Manual(t))'
               PROVE  \E j \in Jobs : results'[Manual(t)][j] # NoResult
    BY DEF ManualHasJob, Manual
  <2>1. Manual(t) \in Coroutines /\ Manual(t)[1] = t
    BY Names
  <2>2. Manual(t) # c
    BY <1>1, <1>2, <2>1 DEF Idle, Manual
  <2>3. at[Manual(t)] = "execute" /\ Idle(Manual(t)) /\ results'[Manual(t)] = results[Manual(t)]
    BY <1>2, <2>1, <2>2 DEF Idle, Manual
  <2> QED
    BY <2>3 DEF Places, ManualHasJob
<1>5. Unstarted'
  <2> SUFFICES ASSUME NEW t \in Services
               PROVE  /\ t \notin first..cur => Quiet(t)' /\ at'[Boot(t)] = "idle"
                      /\ at'[Boot(t)] = "load" => Quiet(t)'
    BY DEF Unstarted, Boot
  <2>1. Boot(t) \in Coroutines /\ Tick(t) \in Coroutines /\ Manual(t) \in Coroutines
    BY Names
  <2>2. CASE t = s
    <3>1. at'[Boot(t)] # "load"
      BY <1>1, <1>2, <2>1, <2>2
    <3> QED
      BY <2>2, <3>1 DEF Started
  <2>3. CASE t # s
    <3>1. Boot(t) # c /\ Tick(t) # c /\ Manual(t) # c
      BY <2>3, Names
    <3>2. at'[Boot(t)] = at[Boot(t)] /\ at'[Tick(t)] = at[Tick(t)] /\ at'[Manual(t)] = at[Manual(t)]
          /\ mem'[t] = mem[t] /\ (t \in timer' => t \in timer)
      BY <1>2, <2>1, <2>3, <3>1
    <3> QED
      BY <3>2 DEF Places, Unstarted, Quiet, Tick, Manual
  <2> QED
    BY <2>2, <2>3
<1> QED
  BY <1>3, <1>4, <1>5 DEF Places

LEMMA StaysWhereItIs ==
  ASSUME Shape, Places, NEW s \in Services, Started(s), at[Boot(s)] # "load",
         UNCHANGED <<at, cur, first>>,
         \A t \in Services \ {s} : mem'[t] = mem[t],
         mem'[s] \in Stores \/ mem'[s] = mem[s],
         \A c \in Coroutines : at[c] # "execute" => todo'[c] = todo[c] /\ doing'[c] = doing[c],
         \A t \in Services : at[Manual(t)] = "execute" /\ Idle(Manual(t))' =>
                               \E j \in Jobs : results'[Manual(t)][j] # NoResult,
         timer' \subseteq timer \cup {s}
  PROVE  Places'
<1>1. Working'
  <2> SUFFICES ASSUME NEW d \in Coroutines
               PROVE  IF at[d] = "execute" THEN mem'[d[1]] \in Stores
                      ELSE todo'[d] = {} /\ doing'[d] = NoJob
    BY DEF Working, Idle, Stores, SoundEntries, Entries, Times
  <2>1. IF at[d] = "execute" THEN mem[d[1]] \in Stores ELSE todo[d] = {} /\ doing[d] = NoJob
    BY DEF Places, Working, Idle
  <2>2. d[1] \in Services /\ (mem[d[1]] \in Stores => mem'[d[1]] \in Stores)
    BY Names
  <2> QED
    BY <2>1, <2>2
<1>2. ManualHasJob'
  BY DEF ManualHasJob, Manual
<1>3. Unstarted'
  <2> SUFFICES ASSUME NEW t \in Services
               PROVE  /\ t \notin first..cur => Quiet(t)' /\ at[Boot(t)] = "idle"
                      /\ at[Boot(t)] = "load" => Quiet(t)'
    BY DEF Unstarted, Boot
  <2>1. CASE t = s
    BY <2>1 DEF Started
  <2>2. CASE t # s
    <3>1. mem'[t] = mem[t] /\ (t \in timer' => t \in timer)
      BY <2>2
    <3> QED
      BY <3>1 DEF Places, Unstarted, Quiet, Tick, Manual
  <2> QED
    BY <2>1, <2>2
<1> QED
  BY <1>1, <1>2, <1>3 DEF Places


\* What armTimer leaves behind.
LEMMA ArmedTicks ==
  ASSUME Shape, UNCHANGED cur, timer' = Armed(cur, mem'[cur]) PROVE SchedulerKeepsTicking'
  BY DEF Shape, Bookkeeping, Armed, Enabled, SchedulerKeepsTicking

LEMMA BusyTicks ==
  ASSUME UNCHANGED cur, at'[Boot(cur)] # "up" \/ at'[Tick(cur)] # "idle"
  PROVE  SchedulerKeepsTicking'
  BY DEF SchedulerKeepsTicking, Boot, Tick

LEMMA StillTicks ==
  ASSUME SchedulerKeepsTicking, UNCHANGED cur,
         mem'[cur] = mem[cur] \/ SameSchedule(mem'[cur], mem[cur]),
         at'[Boot(cur)] = "up" => at[Boot(cur)] = "up",
         at[Tick(cur)] # "idle" => at'[Tick(cur)] # "idle",
         cur \in timer => cur \in timer'
  PROVE  SchedulerKeepsTicking'
  BY DEF SchedulerKeepsTicking, SameSchedule, Enabled, Boot, Tick

\* A service that is not the gateway's has no part in it.
LEMMA OthersTick ==
  ASSUME Shape, SchedulerKeepsTicking, NEW c \in Coroutines, c[1] # cur, NEW place,
         GoTo(c, place) \/ UNCHANGED at,
         UNCHANGED cur,
         \A t \in Services \ {c[1]} : mem'[t] = mem[t],
         timer \subseteq timer' \cup {c[1]}
  PROVE  SchedulerKeepsTicking'
<1>1. cur \in Services
  BY DEF Shape, Bookkeeping
<1>2. Boot(cur) \in Coroutines \ {c} /\ Tick(cur) \in Coroutines \ {c}
  BY <1>1, Names
<1>3. at'[Boot(cur)] = at[Boot(cur)] /\ at'[Tick(cur)] = at[Tick(cur)]
  BY <1>2 DEF GoTo, Shape, Bookkeeping
<1> QED
  BY <1>1, <1>3, StillTicks

\* The steps of a service s, of which at most one, by c, takes jobs js in hand.
LEMMA MarkersKept ==
  ASSUME Markers, NoOverlap, Recorded, NEW s \in Services, NEW c \in Coroutines, c[1] = s,
         NEW js \in SUBSET Jobs,
         \A j \in Jobs : \A d \in Takers(j)' : d \in Takers(j) \/ (d = c /\ j \in js),
         \A j \in js : /\ Guarded(disk', j, c) /\ Guarded(mem'[s], j, c)
                       /\ j \notin unmarked => \A d \in Takers(j) : d[1] # s \/ d = c,
         \A t \in Services \ {s} : mem'[t] = mem[t],
         \/ mem'[s] = mem[s] \/ mem'[s] = disk'
         \/ \A j \in Jobs : \A d \in Takers(j)' :
              d[1] = s /\ d \in Takers(j) /\ Guarded(mem[s], j, d) => Guarded(mem'[s], j, d)
  PROVE  Markers' /\ NoOverlap'
<1> SUFFICES ASSUME NEW j \in Jobs, j \notin unmarked'
             PROVE  /\ \A d \in Takers(j)' : Guarded(disk', j, d) /\ Guarded(mem'[d[1]], j, d)
                    /\ \A d, e \in Takers(j)' : d[1] = e[1] => d = e
  BY DEF Markers, NoOverlap, Takers, Guarded, HasMarker, Enabled, Manual
<1>1. CASE Takers(j)' = {}
  BY <1>1
<1>2. CASE Takers(j)' # {}
  <2>1. /\ j \notin unmarked
        /\ HasMarker(disk, j) => HasMarker(disk', j)
        /\ Enabled(disk, j) => Enabled(disk', j)
    BY <1>2 DEF Recorded
  <2>2. ASSUME NEW d \in Takers(j)' PROVE Guarded(disk', j, d) /\ Guarded(mem'[d[1]], j, d)
    <3>1. CASE d = c /\ j \in js
      BY <3>1
    <3>2. CASE d \in Takers(j)
      <4>1. Guarded(disk, j, d) /\ Guarded(mem[d[1]], j, d)
        BY <2>1, <3>2 DEF Markers
      <4>2. Guarded(disk', j, d)
        BY <2>1, <4>1 DEF Guarded
      <4>3. d[1] \in Services
        BY <3>2, Names DEF Takers
      <4> QED
        BY <2>2, <3>2, <4>1, <4>2, <4>3
    <3> QED
      BY <2>2, <3>1, <3>2
  <2>3. ASSUME NEW d \in Takers(j)', NEW e \in Takers(j)', d[1] = e[1] PROVE d = e
    <3>1. CASE d \in Takers(j) /\ e \in Takers(j)
      BY <2>1, <2>3, <3>1 DEF NoOverlap
    <3>2. CASE d \notin Takers(j)
      <4>1. d = c /\ j \in js
        BY <2>3, <3>2
      <4> QED
        BY <2>1, <2>3, <4>1
    <3>3. CASE e \notin Takers(j)
      <4>1. e = c /\ j \in js
        BY <2>3, <3>3
      <4> QED
        BY <2>1, <2>3, <4>1
    <3> QED
      BY <3>1, <3>2, <3>3
  <2> QED
    BY <2>2, <2>3
<1> QED
  BY <1>1, <1>2

\* Nobody takes a job in hand.
LEMMA MarkersStay ==
  ASSUME Markers, NoOverlap, Recorded, NEW s \in Services,
         \A j \in Jobs : Takers(j)' \subseteq Takers(j),
         \A t \in Services \ {s} : mem'[t] = mem[t],
         \/ mem'[s] = mem[s] \/ mem'[s] = disk'
         \/ \A j \in Jobs : \A d \in Takers(j) :
              d[1] = s /\ Guarded(mem[s], j, d) => Guarded(mem'[s], j, d)
  PROVE  Markers' /\ NoOverlap'
<1>1. Boot(s) \in Coroutines /\ Boot(s)[1] = s
  BY Names
<1> DEFINE none == {}
<1>2. \A j \in Jobs : \A d \in Takers(j)' : d \in Takers(j) \/ (d = Boot(s) /\ j \in none)
  OBVIOUS
<1>3. \A j \in Jobs : \A d \in Takers(j)' : d \in Takers(j)
  OBVIOUS
<1>4. none \in SUBSET Jobs /\ \A j \in none : FALSE
  OBVIOUS
<1> HIDE DEF none
<1>5. CASE mem'[s] = mem[s] \/ mem'[s] = disk'
  BY <1>1, <1>2, <1>4, <1>5, MarkersKept
<1>6. CASE \A j \in Jobs : \A d \in Takers(j) :
             d[1] = s /\ Guarded(mem[s], j, d) => Guarded(mem'[s], j, d)
  BY <1>1, <1>2, <1>3, <1>4, <1>6, MarkersKept
<1> QED
  BY <1>5, <1>6

LEMMA AgreePersisted ==
  ASSUME Shape, Places, NEW s \in Services, Started(s), UNCHANGED <<cur, first>>,
         NEW st \in Stores, mem'[s] = st, disk' = st
  PROVE  Agree'
<1>1. cur = first => s = cur
  BY DEF Started, Shape, Bookkeeping, Services
<1> QED
  BY <1>1 DEF Agree, Enabled

LEMMA AgreeInMemory ==
  ASSUME Shape, Places, Agree, NEW s \in Services, Started(s), UNCHANGED <<cur, first, disk>>,
         \A t \in Services \ {s} : mem'[t] = mem[t],
         \/ mem'[s] \in {mem[s], disk}
         \/ mem[s] # NotLoaded /\ SameSchedule(mem'[s], mem[s])
  PROVE  Agree'
<1>1. cur \in Services /\ (cur = first => s = cur)
  BY DEF Started, Shape, Bookkeeping, Services
<1> QED
  BY <1>1 DEF Agree, Enabled, SameSchedule

\* The action that NoSlotSkipped is about.
SlotKept == cur' = first => \A j \in Jobs : Kept(j) \/ MayAdvance(j)

LEMMA KeptBySchedule ==
  ASSUME Shape, Places, Agree, NEW base,
         base = disk \/ (cur = first /\ mem[cur] # NotLoaded /\ base = mem[cur]),
         NEW j \in Jobs, Enabled(base, j) => disk'[j].next = base[j].next
  PROVE  Kept(j)
<1>1. disk[j] \in SoundEntries
  BY DEF Shape, StoresSound, Stores
<1>2. Enabled(disk, j) => disk[j].next \in Int /\ disk[j].next # Never
  <2>1. ASSUME disk[j] \in Present PROVE disk[j].next \in Int
    <3>1. disk[j].next \in Times \cup {OneShotAt}
      BY <2>1 DEF Present
    <3> QED
      BY <3>1, CronAssumption DEF Times, Never
  <2> QED
    BY <1>1, <2>1, EntryCases DEF Enabled
<1>3. Enabled(disk, j) => disk'[j].next = disk[j].next
  BY DEF Agree
<1> QED
  BY <1>2, <1>3 DEF Kept, Due, Enabled


-----------------------------------------------------------------------------
(* One lemma for each action. *)

Still == UNCHANGED <<cur, first, now, ops>>

LEMMA BookkeepingAfter ==
  ASSUME Recorded, timer' \subseteq Services, own' \subseteq Services,
         at' \in [Coroutines -> {"idle", "load", "missed", "collect", "execute", "finally", "arm", "up"}],
         todo' \in [Coroutines -> SUBSET Jobs], doing' \in [Coroutines -> Jobs \cup {NoJob}],
         since' \in [Coroutines -> 0..MaxTime], results' \in [Coroutines -> [Jobs -> Outcomes]],
         interrupted' \in [Services -> SUBSET Jobs],
         cur' \in Services, now' \in 0..MaxTime, ops' \in 0..MaxOps, first' \in 1..cur'
  PROVE  Bookkeeping'
<1>1. unmarked' \subseteq Jobs
  BY DEF Recorded
<1> QED
  BY <1>1 DEF Bookkeeping, Coroutines, Services, Outcomes, NoResult, Statuses, Jobs

LEMMA TakersOf ==
  ASSUME Bookkeeping, NEW j \in Jobs, NEW c
  PROVE  c \in Takers(j) <=> c \in Coroutines /\ (j \in todo[c] \/ doing[c] = j)
  BY DEF Takers

LEMMA TakersAfter ==
  ASSUME Bookkeeping', NEW j \in Jobs, NEW c
  PROVE  c \in Takers(j)' <=> c \in Coroutines /\ (j \in todo'[c] \/ doing'[c] = j)
  BY DEF Takers, Coroutines, Services

LEMMA BootLoadStep ==
  ASSUME IInv, Recorded, Still, NEW s \in Services, BootLoad(s) PROVE IInv' /\ SlotKept
<1>1. Shape /\ Places /\ Bookkeeping /\ StoresSound
  BY DEF IInv, Shape
<1>2. /\ at[Boot(s)] = "load" /\ GoTo(Boot(s), "missed")
      /\ UNCHANGED <<timer, todo, doing, since, results, own, cur, first, now, ops>>
  BY DEF BootLoad, Still
<1>3. Boot(s) \in Coroutines /\ Boot(s)[1] = s /\ Tick(s) \in Coroutines
  BY Names
<1>4. mem[s] = NotLoaded /\ Loaded(s) = disk /\ Started(s) /\ (cur = first => s = cur)
  BY <1>1, <1>2, WhoHasBegun DEF Places, Unstarted, Quiet, Loaded
<1>5. PICK st \in Stores : Persist(s, st) /\ SameSchedule(st, disk)
  <2> DEFINE marked == {j \in Jobs : disk[j].present /\ disk[j].running}
             st == [j \in Jobs |-> IF j \in marked THEN [disk[j] EXCEPT !.running = FALSE] ELSE disk[j]]
  <2>1. ASSUME NEW j \in Jobs
        PROVE  /\ st[j] \in SoundEntries /\ (Enabled(st, j) <=> Enabled(disk, j))
               /\ st[j].next = disk[j].next
    <3>1. disk[j] \in SoundEntries
      BY <1>1 DEF StoresSound, Stores
    <3>2. CASE j \in marked
      <4>1. /\ [disk[j] EXCEPT !.running = FALSE] \in SoundEntries
            /\ [disk[j] EXCEPT !.running = FALSE].present
            /\ [disk[j] EXCEPT !.running = FALSE].enabled = disk[j].enabled
            /\ [disk[j] EXCEPT !.running = FALSE].next = disk[j].next
        BY <3>1, <3>2, MarkedEntry
      <4> QED
        BY <3>2, <4>1 DEF Enabled
    <3>3. CASE j \notin marked
      BY <3>1, <3>3 DEF Enabled
    <3> QED
      BY <3>2, <3>3
  <2>2. st \in Stores /\ SameSchedule(st, disk)
    BY <2>1 DEF Stores, SameSchedule
  <2>3. Persist(s, st)
    BY <1>4 DEF BootLoad
  <2> HIDE DEF st
  <2> QED
    BY <2>2, <2>3
<1>6. /\ StoresSound' /\ mem'[s] = st /\ disk' = st
      /\ \A t \in Services \ {s} : mem'[t] = mem[t]
  BY <1>1, <1>5, PersistSound
<1>7. at' = [at EXCEPT ![Boot(s)] = "missed"]
  BY <1>2 DEF GoTo
<1>8. Shape'
  <2>1. interrupted' \in [Services -> SUBSET Jobs]
    BY <1>1 DEF BootLoad, Bookkeeping
  <2> QED
    BY <1>1, <1>2, <1>6, <1>7, <2>1, BookkeepingAfter DEF Shape, Bookkeeping
<1>9. Places'
  <2>1. todo[Boot(s)] = {} /\ doing[Boot(s)] = NoJob
    BY <1>1, <1>2, <1>3 DEF Places, Working, Idle
  <2> QED
    BY <1>1, <1>2, <1>3, <1>4, <1>6, <2>1, MovesOn
<1>10. SchedulerKeepsTicking'
  <2>1. CASE s = cur
    <3>1. at'[Boot(cur)] = "missed"
      BY <1>1, <1>3, <1>7, <2>1 DEF Bookkeeping
    <3> QED
      BY <1>2, <3>1, BusyTicks
  <2>2. CASE s # cur
    BY <1>1, <1>2, <1>3, <1>6, <2>2, OthersTick DEF IInv
  <2> QED
    BY <2>1, <2>2
<1>11. Markers' /\ NoOverlap'
  <2>1. \A j \in Jobs : Takers(j)' \subseteq Takers(j)
    BY <1>1, <1>2, <1>8, TakersOf, TakersAfter DEF Shape
  <2> QED
    BY <1>6, <2>1, MarkersStay DEF IInv
<1>12. Agree'
  BY <1>1, <1>2, <1>4, <1>6, AgreePersisted
<1>13. SlotKept
  BY <1>1, <1>5, <1>6, KeptBySchedule DEF SlotKept, SameSchedule, IInv
<1> QED
  BY <1>8, <1>9, <1>10, <1>11, <1>12, <1>13 DEF IInv


\* A coroutine c that has begun writes its store and goes on.
LEMMA WritesAndMoves ==
  ASSUME Shape, Places, Bookkeeping', UNCHANGED <<cur, first>>,
         NEW s \in Services, NEW c \in Coroutines, c[1] = s,
         NEW place, GoTo(c, place), place # "load",
         at[c] # "idle" \/ mem[s] # NotLoaded, c # Boot(s) => at[Boot(s)] # "load",
         NEW st \in Stores, Persist(s, st),
         \A d \in Coroutines \ {c} : todo'[d] = todo[d] /\ doing'[d] = doing[d] /\ results'[d] = results[d],
         place # "execute" => todo'[c] = {} /\ doing'[c] = NoJob,
         place = "execute" /\ c = Manual(s) => todo'[c] # {},
         timer' \subseteq timer \cup {s}
  PROVE  /\ Shape' /\ Places' /\ Agree'
         /\ mem'[s] = st /\ disk' = st /\ \A t \in Services \ {s} : mem'[t] = mem[t]
<1>1. StoresSound
  BY DEF Shape
<1>2. /\ StoresSound' /\ mem'[s] = st /\ disk' = st
      /\ \A t \in Services \ {s} : mem'[t] = mem[t]
  BY <1>1, PersistSound
<1>3. c = Boot(s) \/ c = Tick(s) \/ c = Manual(s)
  BY Names
<1>4. Started(s)
  BY <1>3, WhoHasBegun
<1>5. Places'
  BY <1>2, <1>4, MovesOn
<1>6. Agree'
  BY <1>2, <1>4, AgreePersisted
<1> QED
  BY <1>2, <1>5, <1>6 DEF Shape

LEMMA MissedAreDue ==
  ASSUME NEW s \in Services, NEW st, NEW j \in Missed(s, st)
  PROVE  j \in Jobs /\ Enabled(st, j) /\ ~st[j].running /\ st[j].present
  BY DEF Missed, Enabled

LEMMA BootMissedStep ==
  ASSUME IInv, Recorded, Still, NEW s \in Services, BootMissed(s) PROVE IInv' /\ SlotKept
<1> DEFINE base == Loaded(s)
           js == Missed(s, base)
           c == Boot(s)
           place == IF js = {} THEN "arm" ELSE "execute"
<1>1. Shape /\ Places /\ Bookkeeping /\ StoresSound
  BY DEF IInv, Shape
<1>2. /\ at[c] = "missed" /\ GoTo(c, place)
      /\ todo' = [todo EXCEPT ![c] = js]
      /\ UNCHANGED <<timer, doing, since, results, own, interrupted>>
      /\ UNCHANGED <<cur, first, now, ops>>
  BY DEF BootMissed, Still
<1>3. c \in Coroutines /\ c[1] = s /\ \A d \in Coroutines : d[1] = s => d \in {c, Tick(s), Manual(s)}
  BY Names
<1>4. base \in Stores /\ js \in SUBSET Jobs
      /\ \A j \in js : Enabled(base, j) /\ ~base[j].running /\ base[j].present
  BY <1>1, LoadedStore, MissedAreDue
<1>5. todo[c] = {} /\ doing[c] = NoJob
  BY <1>1, <1>2, <1>3 DEF Places, Working, Idle
<1>6. at' = [at EXCEPT ![c] = place] /\ place \in {"arm", "execute"}
  BY <1>2 DEF GoTo
<1>7. Bookkeeping'
  BY <1>1, <1>2, <1>4, <1>6, BookkeepingAfter DEF Bookkeeping
<1>8. SchedulerKeepsTicking'
  <2>1. CASE js = {}
    <3>1. mem' = [mem EXCEPT ![s] = base]
      BY <2>1 DEF BootMissed
    <3>2. \A t \in Services \ {s} : mem'[t] = mem[t]
      BY <1>1, <3>1 DEF StoresSound
    <3>3. CASE s = cur
      <4>1. at'[Boot(cur)] = "arm"
        BY <1>1, <1>3, <1>6, <2>1, <3>3 DEF Bookkeeping
      <4> QED
        BY <1>2, <4>1, BusyTicks
    <3>4. CASE s # cur
      BY <1>1, <1>2, <1>3, <3>2, <3>4, OthersTick DEF IInv
    <3> QED
      BY <3>3, <3>4
  <2>2. CASE js # {}
    <3>1. \A t \in Services \ {s} : mem'[t] = mem[t]
      BY <1>1, <2>2 DEF BootMissed, Persist, StoresSound
    <3>3. CASE s = cur
      <4>1. at'[Boot(cur)] = "execute"
        BY <1>1, <1>3, <1>6, <2>2, <3>3 DEF Bookkeeping
      <4> QED
        BY <1>2, <4>1, BusyTicks
    <3>4. CASE s # cur
      BY <1>1, <1>2, <1>3, <3>1, <3>4, OthersTick DEF IInv
    <3> QED
      BY <3>3, <3>4
  <2> QED
    BY <2>1, <2>2
<1> HIDE DEF base, js
<1>9. CASE js = {}
  <2>1. mem' = [mem EXCEPT ![s] = base] /\ disk' = disk
    BY <1>9 DEF BootMissed, js, base
  <2>2. StoresSound' /\ mem'[s] = base /\ \A t \in Services \ {s} : mem'[t] = mem[t]
    BY <1>1, <1>4, <2>1 DEF StoresSound, Stores, SoundEntries, Entries, Times
  <2>3. Started(s)
    BY <1>1, <1>2, WhoHasBegun
  <2>4. Places'
    <3>1. at[Boot(s)] # "load" /\ todo'[c] = {} /\ doing'[c] = NoJob
      BY <1>1, <1>2, <1>3, <1>5, <1>9 DEF Bookkeeping
    <3>2. \A d \in Coroutines \ {c} : todo'[d] = todo[d] /\ doing'[d] = doing[d] /\ results'[d] = results[d]
      BY <1>1, <1>2 DEF Bookkeeping
    <3> QED
      BY <1>1, <1>2, <1>3, <1>4, <1>9, <2>2, <2>3, <3>1, <3>2, MovesOn
  <2>5. Markers' /\ NoOverlap'
    <3>1. \A j \in Jobs : Takers(j)' \subseteq Takers(j)
      BY <1>1, <1>2, <1>5, <1>7, <1>9, TakersOf, TakersAfter DEF Bookkeeping
    <3>2. mem'[s] = mem[s] \/ mem'[s] = disk'
      BY <2>1, <2>2 DEF base, Loaded
    <3> QED
      BY <2>2, <3>1, <3>2, MarkersStay DEF IInv
  <2>6. Agree'
    <3>1. mem'[s] \in {mem[s], disk}
      BY <2>2 DEF base, Loaded
    <3> QED
      BY <1>1, <1>2, <2>1, <2>2, <2>3, <3>1, AgreeInMemory DEF IInv
  <2>7. SlotKept
    BY <1>1, <2>1, KeptBySchedule DEF SlotKept, IInv
  <2> QED
    BY <1>7, <1>8, <2>2, <2>4, <2>5, <2>6, <2>7 DEF IInv, Shape
<1>10. CASE js # {}
  <2> DEFINE st == Marked(base, js)
  <2>1. Persist(s, st)
    BY <1>10 DEF BootMissed, js, base
  <2>2. /\ st \in Stores /\ SameSchedule(st, base)
        /\ \A j \in js : HasMarker(st, j) /\ Enabled(st, j)
    BY <1>4, MarkedStore, UpkeepKeepsSchedule
  <2> HIDE DEF st
  <2>3. \A d \in Coroutines \ {c} : todo'[d] = todo[d] /\ doing'[d] = doing[d] /\ results'[d] = results[d]
    BY <1>1, <1>2 DEF Bookkeeping
  <2>4. /\ Shape' /\ Places' /\ Agree'
        /\ mem'[s] = st /\ disk' = st /\ \A t \in Services \ {s} : mem'[t] = mem[t]
    BY <1>1, <1>2, <1>3, <1>7, <1>10, <2>1, <2>2, <2>3, Names, WritesAndMoves
  <2>5. Markers' /\ NoOverlap'
    <3>1. \A j \in Jobs : \A d \in Takers(j)' : d \in Takers(j) \/ (d = c /\ j \in js)
      BY <1>1, <1>2, <1>7, TakersOf, TakersAfter DEF Bookkeeping
    <3>2. ASSUME NEW j \in js, j \notin unmarked, NEW d \in Takers(j), d[1] = s PROVE FALSE
      <4>1. Guarded(disk, j, d) /\ Guarded(mem[s], j, d)
        BY <1>4, <3>2 DEF IInv, Markers
      <4>2. HasMarker(base, j)
        BY <4>1 DEF base, Loaded, Guarded
      <4> QED
        BY <1>4, <3>2, <4>2 DEF HasMarker
    <3>3. \A j \in js : Guarded(disk', j, c) /\ Guarded(mem'[s], j, c)
      BY <2>2, <2>4 DEF Guarded
    <3> QED
      BY <1>3, <1>4, <2>4, <3>1, <3>2, <3>3, MarkersKept DEF IInv
  <2>6. SlotKept
    <3> SUFFICES ASSUME cur = first, NEW j \in Jobs PROVE Kept(j)
      BY <1>2 DEF SlotKept
    <3>1. s = cur
      BY <1>1, <1>2, WhoHasBegun
    <3>2. Enabled(base, j) => disk'[j].next = base[j].next
      BY <2>2, <2>4 DEF SameSchedule
    <3>3. base = disk \/ (cur = first /\ mem[cur] # NotLoaded /\ base = mem[cur])
      BY <3>1 DEF base, Loaded
    <3> QED
      BY <1>1, <3>2, <3>3, KeptBySchedule DEF IInv
  <2> QED
    BY <1>8, <2>4, <2>5, <2>6 DEF IInv
<1> QED
  BY <1>9, <1>10


LEMMA BootArmStep ==
  ASSUME IInv, Recorded, Still, NEW s \in Services, BootArm(s) PROVE IInv' /\ SlotKept
<1> DEFINE c == Boot(s)
           st == Recomputed(disk)
<1>1. Shape /\ Places /\ Bookkeeping /\ StoresSound
  BY DEF IInv, Shape
<1>2. /\ at[c] = "arm" /\ GoTo(c, "up") /\ Persist(s, st) /\ timer' = Armed(s, st) /\ own' = own \ {s}
      /\ UNCHANGED <<todo, doing, since, results, interrupted>>
      /\ UNCHANGED <<cur, first, now, ops>>
  BY DEF BootArm, Still
<1>3. c \in Coroutines /\ c[1] = s
  BY Names
<1>4. st \in Stores
  BY <1>1, RecomputedStore DEF StoresSound
<1> HIDE DEF st
<1>5. timer' \subseteq timer \cup {s} /\ timer \subseteq timer' \cup {s}
  BY <1>2 DEF Armed
<1>6. Bookkeeping'
  <2>1. at' \in [Coroutines -> {"idle", "load", "missed", "collect", "execute", "finally", "arm", "up"}]
    BY <1>1, <1>2 DEF GoTo, Bookkeeping
  <2> QED
    BY <1>1, <1>2, <1>5, <2>1, BookkeepingAfter DEF Bookkeeping
<1>7. /\ Shape' /\ Places' /\ Agree'
      /\ mem'[s] = st /\ disk' = st /\ \A t \in Services \ {s} : mem'[t] = mem[t]
  <2>1. todo[c] = {} /\ doing[c] = NoJob
    BY <1>1, <1>2, <1>3 DEF Places, Working, Idle
  <2> QED
    BY <1>1, <1>2, <1>3, <1>4, <1>5, <1>6, <2>1, WritesAndMoves
<1>8. SchedulerKeepsTicking'
  <2>1. CASE s = cur
    BY <1>1, <1>2, <1>7, <2>1, ArmedTicks
  <2>2. CASE s # cur
    BY <1>1, <1>2, <1>3, <1>5, <1>7, <2>2, OthersTick DEF IInv
  <2> QED
    BY <2>1, <2>2
<1>9. Markers' /\ NoOverlap'
  <2>1. \A j \in Jobs : Takers(j)' \subseteq Takers(j)
    BY <1>1, <1>2, <1>6, TakersOf, TakersAfter
  <2> QED
    BY <1>7, <2>1, MarkersStay DEF IInv
<1>10. SlotKept
  BY DEF SlotKept, MayAdvance
<1> QED
  BY <1>7, <1>8, <1>9, <1>10 DEF IInv

LEMMA TimerFiresStep ==
  ASSUME IInv, Recorded, Still, NEW s \in Services, TimerFires(s) PROVE IInv' /\ SlotKept
<1> DEFINE c == Tick(s)
<1>1. Shape /\ Places /\ Bookkeeping /\ StoresSound
  BY DEF IInv, Shape
<1>2. /\ s \in timer /\ at[c] = "idle" /\ GoTo(c, "collect")
      /\ UNCHANGED <<disk, mem, timer, todo, doing, since, results, own, interrupted>>
      /\ UNCHANGED <<cur, first, now, ops>>
  BY DEF TimerFires, Still, store
<1>3. c \in Coroutines /\ c[1] = s
  BY Names
<1>4. Started(s) /\ at[Boot(s)] # "load"
  BY <1>1, <1>2, WhoHasBegun
<1>5. Bookkeeping' /\ StoresSound'
  <2>1. at' \in [Coroutines -> {"idle", "load", "missed", "collect", "execute", "finally", "arm", "up"}]
    BY <1>1, <1>2 DEF GoTo, Bookkeeping
  <2> QED
    BY <1>1, <1>2, <2>1, BookkeepingAfter
       DEF Bookkeeping, StoresSound, Stores, SoundEntries, Entries, Times
<1>6. Places'
  <2>1. todo[c] = {} /\ doing[c] = NoJob
    BY <1>1, <1>2, <1>3 DEF Places, Working, Idle
  <2> QED
    BY <1>1, <1>2, <1>3, <1>4, <2>1, MovesOn
<1>7. SchedulerKeepsTicking'
  <2>1. at'[Tick(s)] = "collect" /\ at'[Boot(s)] = at[Boot(s)]
    BY <1>1, <1>2, <1>3, Names DEF GoTo, Bookkeeping
  <2>2. CASE s = cur
    BY <1>2, <2>1, <2>2, BusyTicks
  <2>3. CASE s # cur
    BY <1>1, <1>2, <1>3, <2>3, OthersTick DEF IInv
  <2> QED
    BY <2>2, <2>3
<1>8. Markers' /\ NoOverlap'
  <2>1. \A j \in Jobs : Takers(j)' \subseteq Takers(j)
    BY <1>1, <1>2, <1>5, TakersOf, TakersAfter
  <2> QED
    BY <1>2, <2>1, MarkersStay DEF IInv
<1>9. Agree'
  BY <1>1, <1>2, <1>4, AgreeInMemory DEF IInv
<1>10. SlotKept
  BY <1>1, <1>2, KeptBySchedule DEF SlotKept, IInv
<1> QED
  BY <1>5, <1>6, <1>7, <1>8, <1>9, <1>10 DEF IInv, Shape

LEMMA CollectStep ==
  ASSUME IInv, Recorded, Still, NEW s \in Services, Collect(s) PROVE IInv' /\ SlotKept
<1> DEFINE c == Tick(s)
           js == {j \in Jobs : Due(disk, j) /\ ~disk[j].running}
           st == IF js = {} THEN Maintained(disk) ELSE Reserved(disk, js)
           place == IF js = {} THEN "finally" ELSE "execute"
<1>1. Shape /\ Places /\ Bookkeeping /\ StoresSound
  BY DEF IInv, Shape
<1>2. /\ at[c] = "collect" /\ GoTo(c, place) /\ Persist(s, st) /\ own' = own \cup {s}
      /\ todo' = [todo EXCEPT ![c] = js]
      /\ UNCHANGED <<timer, doing, since, results, interrupted>>
      /\ UNCHANGED <<cur, first, now, ops>>
  BY DEF Collect, Still
<1>3. c \in Coroutines /\ c[1] = s /\ c # Boot(s) /\ c # Manual(s)
  BY Names
<1>4. /\ js \in SUBSET Jobs
      /\ \A j \in js : Enabled(disk, j) /\ disk[j].present /\ ~disk[j].running
  BY DEF Due, Enabled
<1>5. /\ st \in Stores /\ SameSchedule(st, disk)
      /\ \A j \in js : HasMarker(st, j) /\ Enabled(st, j)
  <2>1. disk \in Stores
    BY <1>1 DEF StoresSound
  <2>2. CASE js = {}
    <3> DEFINE none == {}
    <3>1. none \in SUBSET Jobs /\ \A j \in none : disk[j].present
      OBVIOUS
    <3> HIDE DEF none
    <3>2. SameSchedule(Maintained(disk), disk) /\ Maintained(disk) \in Stores
      BY <2>1, <3>1, UpkeepKeepsSchedule, MaintainedStore
    <3> QED
      BY <2>2, <3>2
  <2>3. CASE js # {}
    <3>1. st = Marked(disk, js)
      BY <2>3 DEF Reserved
    <3> HIDE DEF js, st
    <3>2. /\ Marked(disk, js) \in Stores
          /\ \A j \in js : HasMarker(Marked(disk, js), j)
          /\ SameSchedule(Marked(disk, js), disk)
      BY <1>4, <2>1, MarkedStore, UpkeepKeepsSchedule
    <3> QED
      BY <1>4, <3>1, <3>2 DEF SameSchedule
  <2> QED
    BY <2>2, <2>3
<1> HIDE DEF js, st
<1>6. Bookkeeping'
  <2>1. at' \in [Coroutines -> {"idle", "load", "missed", "collect", "execute", "finally", "arm", "up"}]
    BY <1>1, <1>2 DEF GoTo, Bookkeeping
  <2> QED
    BY <1>1, <1>2, <1>4, <2>1, BookkeepingAfter DEF Bookkeeping
<1>7. todo[c] = {} /\ doing[c] = NoJob
  BY <1>1, <1>2, <1>3 DEF Places, Working, Idle
<1>8. /\ Shape' /\ Places' /\ Agree'
      /\ mem'[s] = st /\ disk' = st /\ \A t \in Services \ {s} : mem'[t] = mem[t]
  <2>1. \A d \in Coroutines \ {c} : todo'[d] = todo[d] /\ doing'[d] = doing[d] /\ results'[d] = results[d]
    BY <1>1, <1>2 DEF Bookkeeping
  <2>2. place # "execute" => todo'[c] = {} /\ doing'[c] = NoJob
    BY <1>1, <1>2, <1>3, <1>7 DEF Bookkeeping
  <2>3. at[Boot(s)] # "load"
    BY <1>1, <1>2, WhoHasBegun
  <2> QED
    BY <1>1, <1>2, <1>3, <1>5, <1>6, <2>1, <2>2, <2>3, WritesAndMoves DEF Still
<1>9. SchedulerKeepsTicking'
  <2>1. at'[Tick(s)] # "idle"
    BY <1>1, <1>2, <1>3 DEF GoTo, Bookkeeping
  <2>2. CASE s = cur
    BY <1>2, <2>1, <2>2, BusyTicks
  <2>3. CASE s # cur
    BY <1>1, <1>2, <1>3, <1>8, <2>3, OthersTick DEF IInv
  <2> QED
    BY <2>2, <2>3
<1>10. Markers' /\ NoOverlap'
  <2>1. \A j \in Jobs : \A d \in Takers(j)' : d \in Takers(j) \/ (d = c /\ j \in js)
    BY <1>1, <1>2, <1>6, TakersOf, TakersAfter DEF Bookkeeping
  <2>2. ASSUME NEW j \in js, j \notin unmarked, NEW d \in Takers(j) PROVE FALSE
    <3>1. Guarded(disk, j, d)
      BY <1>4, <2>2 DEF IInv, Markers
    <3> QED
      BY <1>4, <2>2, <3>1 DEF Guarded, HasMarker
  <2>3. \A j \in js : Guarded(disk', j, c) /\ Guarded(mem'[s], j, c)
    BY <1>5, <1>8 DEF Guarded
  <2> QED
    BY <1>3, <1>4, <1>8, <2>1, <2>2, <2>3, MarkersKept DEF IInv
<1>11. SlotKept
  BY <1>1, <1>5, <1>8, KeptBySchedule DEF SlotKept, SameSchedule, IInv
<1> QED
  BY <1>8, <1>9, <1>10, <1>11 DEF IInv

LEMMA TickFinallyStep ==
  ASSUME IInv, Recorded, Still, NEW s \in Services, TickFinally(s) PROVE IInv' /\ SlotKept
<1> DEFINE c == Tick(s)
<1>1. Shape /\ Places /\ Bookkeeping /\ StoresSound
  BY DEF IInv, Shape
<1>2. /\ at[c] = "finally" /\ GoTo(c, "idle") /\ timer' = Armed(s, mem[s])
      /\ UNCHANGED <<disk, mem, todo, doing, since, results, own, interrupted>>
      /\ UNCHANGED <<cur, first, now, ops>>
  BY DEF TickFinally, Still, store
<1>3. c \in Coroutines /\ c[1] = s /\ c # Boot(s) /\ c # Manual(s)
  BY Names
<1>4. Started(s) /\ at[Boot(s)] # "load"
  BY <1>1, <1>2, WhoHasBegun
<1>5. timer' \subseteq timer \cup {s} /\ timer \subseteq timer' \cup {s}
  BY <1>2 DEF Armed
<1>6. Bookkeeping' /\ StoresSound'
  <2>1. at' \in [Coroutines -> {"idle", "load", "missed", "collect", "execute", "finally", "arm", "up"}]
    BY <1>1, <1>2 DEF GoTo, Bookkeeping
  <2>2. timer' \subseteq Services
    BY <1>1, <1>5 DEF Bookkeeping
  <2>3. StoresSound'
    BY <1>1, <1>2 DEF StoresSound, Stores, SoundEntries, Entries, Times
  <2> QED
    BY <1>1, <1>2, <2>1, <2>2, <2>3, BookkeepingAfter DEF Bookkeeping
<1>7. Places'
  <2>1. todo[c] = {} /\ doing[c] = NoJob
    BY <1>1, <1>2, <1>3 DEF Places, Working, Idle
  <2> QED
    BY <1>1, <1>2, <1>3, <1>4, <1>5, <2>1, MovesOn
<1>8. SchedulerKeepsTicking'
  <2>1. CASE s = cur
    BY <1>1, <1>2, <2>1, ArmedTicks
  <2>2. CASE s # cur
    BY <1>1, <1>2, <1>3, <1>5, <2>2, OthersTick DEF IInv
  <2> QED
    BY <2>1, <2>2
<1>9. Markers' /\ NoOverlap'
  <2>1. \A j \in Jobs : Takers(j)' \subseteq Takers(j)
    BY <1>1, <1>2, <1>6, TakersOf, TakersAfter
  <2> QED
    BY <1>2, <2>1, MarkersStay DEF IInv
<1>10. Agree'
  BY <1>1, <1>2, <1>4, AgreeInMemory DEF IInv
<1>11. SlotKept
  BY <1>1, <1>2, KeptBySchedule DEF SlotKept, IInv
<1> QED
  BY <1>6, <1>7, <1>8, <1>9, <1>10, <1>11 DEF IInv, Shape


\* A coroutine that executes has begun and has loaded a store.
LEMMA WhoExecutes ==
  ASSUME Shape, Places, NEW c \in Coroutines, at[c] = "execute"
  PROVE  /\ c[1] \in Services /\ Started(c[1]) /\ at[Boot(c[1])] # "load" /\ mem[c[1]] \in Stores
         /\ c \in {Boot(c[1]), Tick(c[1]), Manual(c[1])}
<1>1. c[1] \in Services /\ (c = Boot(c[1]) \/ c = Tick(c[1]) \/ c = Manual(c[1]))
  BY Names
<1>2. Started(c[1])
  BY <1>1, WhoHasBegun
<1>3. at[Boot(c[1])] # "load"
  BY <1>1, WhoHasBegun
<1>4. mem[c[1]] \in Stores
  BY DEF Places, Working
<1> QED
  BY <1>1, <1>2, <1>3, <1>4

\* The steps that leave every coroutine where it is and change at most the copy of s in
\* memory, there no schedule and no marker that guards an execution.
Upkeep(s, st) ==
  /\ mem' = [mem EXCEPT ![s] = st]
  /\ SameSchedule(st, mem[s])
  /\ \A j \in Jobs : \A d \in Takers(j) :
       d[1] = s /\ Guarded(mem[s], j, d) => Guarded(st, j, d)

LEMMA OnlyMarks ==
  ASSUME IInv, Recorded, NEW s \in Services, Started(s), at[Boot(s)] # "load",
         UNCHANGED <<at, cur, first, disk, timer>>, Bookkeeping', Places',
         mem' = mem \/ (mem[s] # NotLoaded /\ \E st \in Stores : Upkeep(s, st)),
         \A j \in Jobs : Takers(j)' \subseteq Takers(j)
  PROVE  IInv' /\ SlotKept
<1>1. Shape /\ Places /\ Bookkeeping /\ StoresSound
  BY DEF IInv, Shape
<1>2. CASE mem' = mem
  <2>1. StoresSound'
    BY <1>1, <1>2 DEF StoresSound, Stores, SoundEntries, Entries, Times
  <2>2. SchedulerKeepsTicking'
    BY <1>2, StillTicks DEF IInv
  <2>3. Markers' /\ NoOverlap'
    BY <1>2, MarkersStay DEF IInv
  <2>4. Agree'
    BY <1>1, <1>2, AgreeInMemory DEF IInv
  <2>5. SlotKept
    BY <1>1, KeptBySchedule DEF SlotKept, IInv
  <2> QED
    BY <2>1, <2>2, <2>3, <2>4, <2>5 DEF IInv, Shape
<1>3. CASE mem[s] # NotLoaded /\ \E st \in Stores : Upkeep(s, st)
  <2>1. PICK st \in Stores : mem' = [mem EXCEPT ![s] = st] /\ SameSchedule(st, mem[s])
                           /\ \A j \in Jobs : \A d \in Takers(j) :
                                d[1] = s /\ Guarded(mem[s], j, d) => Guarded(st, j, d)
    BY <1>3 DEF Upkeep
  <2>2. StoresSound' /\ mem'[s] = st /\ \A t \in Services \ {s} : mem'[t] = mem[t]
    BY <1>1, <2>1 DEF StoresSound, Stores, SoundEntries, Entries, Times
  <2>3. SchedulerKeepsTicking'
    <3>1. mem'[cur] = mem[cur] \/ SameSchedule(mem'[cur], mem[cur])
      <4>1. cur \in Services
        BY <1>1 DEF Bookkeeping
      <4>2. CASE s = cur
        <5>1. mem'[cur] = st /\ SameSchedule(st, mem[cur])
          BY <2>1, <2>2, <4>2
        <5> QED
          BY <5>1 DEF SameSchedule
      <4>3. CASE s # cur
        BY <2>2, <4>1, <4>3
      <4> QED
        BY <4>2, <4>3
    <3> QED
      BY <3>1, StillTicks DEF IInv
  <2>4. Markers' /\ NoOverlap'
    <3>1. \A j \in Jobs : \A d \in Takers(j) :
            d[1] = s /\ Guarded(mem[s], j, d) => Guarded(mem'[s], j, d)
      BY <2>1, <2>2
    <3> QED
      BY <2>2, <3>1, MarkersStay DEF IInv
  <2>5. Agree'
    <3>1. SameSchedule(mem'[s], mem[s])
      BY <2>1, <2>2
    <3> QED
      BY <1>1, <1>3, <2>2, <3>1, AgreeInMemory DEF IInv
  <2>6. SlotKept
    BY <1>1, KeptBySchedule DEF SlotKept, IInv
  <2> QED
    BY <2>2, <2>3, <2>4, <2>5, <2>6 DEF IInv, Shape
<1> QED
  BY <1>2, <1>3


LEMMA BeginStep ==
  ASSUME IInv, Recorded, Still, NEW c \in Coroutines, NEW j \in Jobs, Begin(c, j)
  PROVE  IInv' /\ SlotKept
<1> DEFINE s == c[1]
<1>1. Shape /\ Places /\ Bookkeeping /\ StoresSound
  BY DEF IInv, Shape
<1>2. /\ at[c] = "execute" /\ doing[c] = NoJob /\ j \in todo[c]
      /\ todo' = [todo EXCEPT ![c] = @ \ {j}]
      /\ doing' = [doing EXCEPT ![c] = j]
      /\ since' = [since EXCEPT ![c] = now]
      /\ UNCHANGED <<disk, timer, at, results, own, interrupted>>
      /\ UNCHANGED <<cur, first, now, ops>>
  BY DEF Begin, Still
<1>3. s \in Services /\ Started(s) /\ at[Boot(s)] # "load" /\ mem[s] \in Stores
  BY <1>1, <1>2, WhoExecutes
<1>4. mem' = mem \/ (mem[s] # NotLoaded /\ \E st \in Stores : Upkeep(s, st))
  <2>1. CASE mem' = mem
    BY <2>1
  <2>2. CASE mem[s][j].present /\ mem' = [mem EXCEPT ![s] = Marked(mem[s], {j})]
    <3> DEFINE js == {j}
    <3>1. js \in SUBSET Jobs /\ \A k \in js : mem[s][k].present
      BY <2>2
    <3> HIDE DEF js
    <3>2. /\ Marked(mem[s], js) \in Stores /\ SameSchedule(Marked(mem[s], js), mem[s])
          /\ \A k \in Jobs : HasMarker(mem[s], k) => HasMarker(Marked(mem[s], js), k)
      BY <1>3, <3>1, MarkedStore, UpkeepKeepsSchedule
    <3>3. Upkeep(s, Marked(mem[s], js))
      BY <2>2, <3>2 DEF Upkeep, Guarded, SameSchedule, js
    <3> QED
      BY <1>3, <3>2, <3>3, StoresAreLoaded
  <2> QED
    BY <2>1, <2>2 DEF Begin
<1>5. Bookkeeping'
  BY <1>1, <1>2, BookkeepingAfter DEF Bookkeeping
<1>6. Places'
  <2>1. \A t \in Services \ {s} : mem'[t] = mem[t]
    BY <1>1, <1>4 DEF StoresSound, Upkeep
  <2>2. mem'[s] \in Stores \/ mem'[s] = mem[s]
    BY <1>1, <1>3, <1>4 DEF StoresSound, Upkeep
  <2>3. \A d \in Coroutines : at[d] # "execute" => todo'[d] = todo[d] /\ doing'[d] = doing[d]
    BY <1>1, <1>2 DEF Bookkeeping
  <2>4. ASSUME NEW t \in Services, at[Manual(t)] = "execute", Idle(Manual(t))'
        PROVE  \E k \in Jobs : results'[Manual(t)][k] # NoResult
    <3>1. Manual(t) \in Coroutines
      BY Names
    <3>2. CASE Manual(t) = c
      <4>1. doing'[c] = j /\ doing'[c] = NoJob
        BY <1>1, <1>2, <2>4, <3>2 DEF Bookkeeping, Idle, Manual
      <4> QED
        BY <4>1, CronAssumption
    <3>3. CASE Manual(t) # c
      <4>1. Idle(Manual(t))
        BY <1>1, <1>2, <2>4, <3>1, <3>3 DEF Bookkeeping, Idle, Manual
      <4> QED
        BY <1>1, <1>2, <2>4, <4>1 DEF Places, ManualHasJob
    <3> QED
      BY <3>2, <3>3
  <2> QED
    BY <1>1, <1>2, <1>3, <2>1, <2>2, <2>3, <2>4, StaysWhereItIs
<1>7. \A k \in Jobs : Takers(k)' \subseteq Takers(k)
  BY <1>1, <1>2, <1>5, TakersOf, TakersAfter DEF Bookkeeping
<1> QED
  BY <1>2, <1>3, <1>4, <1>5, <1>6, <1>7, OnlyMarks

LEMMA EndStep ==
  ASSUME IInv, Recorded, Still, NEW c \in Coroutines, NEW status \in Statuses, End(c, status)
  PROVE  IInv' /\ SlotKept
<1> DEFINE s == c[1]
           j == doing[c]
           r == [status |-> status, started |-> since[c], ended |-> now]
<1>1. Shape /\ Places /\ Bookkeeping /\ StoresSound
  BY DEF IInv, Shape
<1>2. /\ j # NoJob
      /\ results' = [results EXCEPT ![c][j] = r]
      /\ doing' = [doing EXCEPT ![c] = NoJob]
      /\ since' = [since EXCEPT ![c] = 0]
      /\ UNCHANGED <<disk, mem, timer, at, todo, own, interrupted>>
      /\ UNCHANGED <<cur, first, now, ops>>
  BY DEF End, Still, store
<1>3. at[c] = "execute" /\ j \in Jobs
  BY <1>1, <1>2 DEF Places, Working, Idle, Bookkeeping
<1>4. s \in Services /\ Started(s) /\ at[Boot(s)] # "load"
  BY <1>1, <1>3, WhoExecutes
<1>5. r \in Outcomes /\ r # NoResult
  <2>1. r \in [status : Statuses, started : 0..MaxTime, ended : 0..MaxTime]
    BY <1>1 DEF Bookkeeping
  <2>2. r.status # NoResult.status
    BY DEF NoResult, Statuses
  <2> QED
    BY <2>1, <2>2 DEF Outcomes
<1> HIDE DEF r, j
<1>6. results' \in [Coroutines -> [Jobs -> Outcomes]] /\ results'[c][j] = r
      /\ \A d \in Coroutines \ {c} : results'[d] = results[d]
  BY <1>1, <1>2, <1>3, <1>5 DEF Bookkeeping
<1>7. Bookkeeping'
  <2>1. 0 \in 0..MaxTime
    BY CronAssumption
  <2> QED
    BY <1>1, <1>2, <1>6, <2>1, BookkeepingAfter DEF Bookkeeping
<1>8. Places'
  <2>1. \A d \in Coroutines : at[d] # "execute" => todo'[d] = todo[d] /\ doing'[d] = doing[d]
    BY <1>1, <1>2, <1>3 DEF Bookkeeping
  <2>2. ASSUME NEW t \in Services, at[Manual(t)] = "execute", Idle(Manual(t))'
        PROVE  \E k \in Jobs : results'[Manual(t)][k] # NoResult
    <3>1. Manual(t) \in Coroutines
      BY Names
    <3>2. CASE Manual(t) = c
      BY <1>3, <1>5, <1>6, <3>2
    <3>3. CASE Manual(t) # c
      <4>1. Idle(Manual(t))
        BY <1>1, <1>2, <2>2, <3>1, <3>3 DEF Bookkeeping, Idle, Manual
      <4> QED
        BY <1>1, <1>6, <2>2, <3>1, <3>3, <4>1 DEF Places, ManualHasJob
    <3> QED
      BY <3>2, <3>3
  <2> QED
    BY <1>1, <1>2, <1>4, <2>1, <2>2, StaysWhereItIs
<1>9. \A k \in Jobs : Takers(k)' \subseteq Takers(k)
  <2> SUFFICES ASSUME NEW k \in Jobs, NEW d \in Takers(k)' PROVE d \in Takers(k)
    OBVIOUS
  <2>1. d \in Coroutines /\ (k \in todo'[d] \/ doing'[d] = k)
    BY <1>7, TakersAfter
  <2>2. doing'[d] = k => doing[d] = k
    BY <1>1, <1>2, <2>1, CronAssumption DEF Bookkeeping
  <2> QED
    BY <1>1, <1>2, <2>1, <2>2, TakersOf
<1> QED
  BY <1>2, <1>4, <1>7, <1>8, <1>9, OnlyMarks

LEMMA AppliedStore ==
  ASSUME Shape, NEW c \in Coroutines
  PROVE  /\ [j \in Jobs |-> Applied(j, disk[j], results[c][j])] \in Stores
         /\ \A j \in Jobs : results[c][j] = NoResult => Applied(j, disk[j], results[c][j]) = disk[j]
<1> SUFFICES ASSUME NEW j \in Jobs
             PROVE  /\ Applied(j, disk[j], results[c][j]) \in SoundEntries
                    /\ results[c][j] = NoResult => Applied(j, disk[j], results[c][j]) = disk[j]
  BY DEF Stores
<1>1. disk[j] \in SoundEntries /\ results[c][j] \in Outcomes
  BY DEF Shape, StoresSound, Stores, Bookkeeping
<1> QED
  BY <1>1, AppliedEntry

LEMMA ApplyStep ==
  ASSUME IInv, Recorded, Still, NEW c \in Coroutines, Apply(c) PROVE IInv' /\ SlotKept
<1> DEFINE s == c[1]
           after == [j \in Jobs |-> Applied(j, disk[j], results[c][j])]
           st == Maintained(after)
           place == IF c = Boot(s) THEN "arm" ELSE "finally"
<1>1. Shape /\ Places /\ Bookkeeping /\ StoresSound
  BY DEF IInv, Shape
<1>2. /\ c # Manual(s) /\ at[c] = "execute" /\ todo[c] = {} /\ doing[c] = NoJob
      /\ Persist(s, st) /\ GoTo(c, place) /\ own' = own \ {s}
      /\ results' = [results EXCEPT ![c] = [j \in Jobs |-> NoResult]]
      /\ UNCHANGED <<timer, todo, doing, since, interrupted>>
      /\ UNCHANGED <<cur, first, now, ops>>
  BY DEF Apply, Still, Idle
<1>3. s \in Services /\ Started(s) /\ at[Boot(s)] # "load" /\ c \in {Boot(s), Tick(s), Manual(s)}
  BY <1>1, <1>2, WhoExecutes
<1>4. /\ after \in Stores /\ st \in Stores
      /\ \A j \in Jobs : results[c][j] = NoResult => after[j] = disk[j]
      /\ \A j \in Jobs : Enabled(st, j) <=> Enabled(after, j)
      /\ \A j \in Jobs : Enabled(after, j) => st[j] = after[j]
  <2>1. after \in Stores /\ \A j \in Jobs : results[c][j] = NoResult => after[j] = disk[j]
    BY <1>1, AppliedStore
  <2> HIDE DEF after
  <2> QED
    BY <2>1, MaintainedStore
<1> HIDE DEF st, after
<1>5. results' \in [Coroutines -> [Jobs -> Outcomes]] /\ results'[c] = [j \in Jobs |-> NoResult]
      /\ \A d \in Coroutines \ {c} : results'[d] = results[d]
  BY <1>1, <1>2 DEF Bookkeeping, Outcomes
<1>6. Bookkeeping'
  <2>1. at' \in [Coroutines -> {"idle", "load", "missed", "collect", "execute", "finally", "arm", "up"}]
    BY <1>1, <1>2 DEF GoTo, Bookkeeping
  <2> QED
    BY <1>1, <1>2, <1>5, <2>1, BookkeepingAfter DEF Bookkeeping
<1>7. /\ Shape' /\ Places' /\ Agree'
      /\ mem'[s] = st /\ disk' = st /\ \A t \in Services \ {s} : mem'[t] = mem[t]
  <2>1. \A d \in Coroutines \ {c} : todo'[d] = todo[d] /\ doing'[d] = doing[d] /\ results'[d] = results[d]
    BY <1>2, <1>5
  <2> QED
    BY <1>1, <1>2, <1>3, <1>4, <1>6, <2>1, WritesAndMoves
<1>8. SchedulerKeepsTicking'
  <2>1. CASE s = cur
    <3>1. at'[c] = place
      BY <1>1, <1>2 DEF GoTo, Bookkeeping
    <3>2. at'[Boot(cur)] = "arm" \/ at'[Tick(cur)] = "finally"
      BY <1>2, <1>3, <2>1, <3>1
    <3> QED
      BY <1>2, <3>2, BusyTicks
  <2>2. CASE s # cur
    BY <1>1, <1>2, <1>3, <1>7, <2>2, OthersTick DEF IInv
  <2> QED
    BY <2>1, <2>2
<1>9. Markers' /\ NoOverlap'
  <2>1. \A j \in Jobs : Takers(j)' \subseteq Takers(j)
    BY <1>1, <1>2, <1>6, TakersOf, TakersAfter
  <2> QED
    BY <1>3, <1>7, <2>1, MarkersStay DEF IInv
<1>10. SlotKept
  <2> SUFFICES ASSUME NEW j \in Jobs PROVE Kept(j) \/ MayAdvance(j)
    BY DEF SlotKept
  <2>1. CASE results[c][j] # NoResult
    BY <1>5, <2>1 DEF MayAdvance
  <2>2. CASE results[c][j] = NoResult
    <3>1. Enabled(disk, j) => disk'[j].next = disk[j].next
      BY <1>4, <1>7, <2>2 DEF Enabled
    <3> QED
      BY <1>1, <3>1, KeptBySchedule DEF IInv
  <2> QED
    BY <2>1, <2>2
<1> QED
  BY <1>7, <1>8, <1>9, <1>10 DEF IInv

\* The calls, all on the loaded copy of the gateway's service.
Called == mem[cur] # NotLoaded /\ UNCHANGED <<cur, first, now>> /\ ops' \in 0..MaxOps

LEMMA WhoIsCalled ==
  ASSUME Shape, Places, mem[cur] # NotLoaded
  PROVE  cur \in Services /\ Started(cur) /\ at[Boot(cur)] # "load" /\ mem[cur] \in Stores
<1>1. cur \in Services
  BY DEF Shape, Bookkeeping
<1>2. Started(cur) /\ at[Boot(cur)] # "load"
  BY <1>1, WhoHasBegun
<1>3. mem[cur] \in Stores
  BY <1>1 DEF Shape, StoresSound
<1> QED
  BY <1>1, <1>2, <1>3

\* Upkeep of a copy leaves the markers that guard ticks and catch-ups.
LEMMA MaintainedIsUpkeep ==
  ASSUME Shape, NEW s \in Services, mem[s] \in Stores, mem' = [mem EXCEPT ![s] = Maintained(mem[s])],
         \A j \in Jobs : Manual(s) \notin Takers(j)
  PROVE  Upkeep(s, Maintained(mem[s]))
<1>1. \A j \in Jobs : Enabled(mem[s], j) => Maintained(mem[s])[j] = mem[s][j]
  BY MaintainedStore
<1>2. SameSchedule(Maintained(mem[s]), mem[s])
  BY MaintainedStore DEF SameSchedule
<1>3. \A j \in Jobs : \A d \in Takers(j) :
        d[1] = s /\ Guarded(mem[s], j, d) => Guarded(Maintained(mem[s]), j, d)
  BY <1>1 DEF Guarded, HasMarker, Enabled
<1> QED
  BY <1>2, <1>3 DEF Upkeep

LEMMA RunStep ==
  ASSUME IInv, Recorded, Called, NEW j \in Jobs, NEW forced, Run(j, forced) PROVE IInv' /\ SlotKept
<1> DEFINE s == cur
           c == Manual(cur)
           base == mem[cur]
           st == Maintained(base)
           runs == ~st[j].running /\ (forced \/ Due(st, j))
<1>1. Shape /\ Places /\ Bookkeeping /\ StoresSound
  BY DEF IInv, Shape
<1>2. /\ at[c] = "idle" /\ st[j].present
      /\ UNCHANGED <<timer, doing, since, results, own, interrupted>>
      /\ UNCHANGED <<cur, first, now>> /\ ops' \in 0..MaxOps
  BY DEF Run, Called
<1>3. s \in Services /\ Started(s) /\ at[Boot(s)] # "load" /\ base \in Stores
  BY <1>1, WhoIsCalled DEF Called
<1>4. c \in Coroutines /\ c[1] = s /\ c # Boot(s) /\ c # Tick(s)
  BY <1>3, Names
<1>5. todo[c] = {} /\ doing[c] = NoJob /\ \A k \in Jobs : c \notin Takers(k)
  <2>1. todo[c] = {} /\ doing[c] = NoJob
    BY <1>1, <1>2, <1>4 DEF Places, Working, Idle
  <2> QED
    BY <1>1, <2>1, TakersOf, CronAssumption
<1>6. /\ st \in Stores /\ SameSchedule(st, base)
      /\ \A k \in Jobs : Enabled(base, k) => st[k] = base[k]
  BY <1>3, MaintainedStore DEF SameSchedule
<1>7. CASE ~runs
  <2>1. mem' = [mem EXCEPT ![cur] = Maintained(mem[cur])] /\ UNCHANGED <<disk, todo, at>>
    BY <1>7 DEF Run
  <2>2. Upkeep(s, Maintained(mem[s]))
    BY <1>1, <1>3, <1>5, <2>1, MaintainedIsUpkeep
  <2>3. Bookkeeping'
    BY <1>1, <1>2, <2>1, BookkeepingAfter DEF Bookkeeping
  <2>4. mem'[s] = st /\ \A t \in Services \ {s} : mem'[t] = mem[t]
    BY <1>1, <1>3, <2>1 DEF StoresSound
  <2> HIDE DEF st
  <2>5. Places'
    <3>1. ASSUME NEW t \in Services, at[Manual(t)] = "execute", Idle(Manual(t))'
          PROVE  \E k \in Jobs : results'[Manual(t)][k] # NoResult
      <4>1. Idle(Manual(t))
        BY <1>2, <2>1, <3>1 DEF Idle, Manual
      <4> QED
        BY <1>1, <1>2, <3>1, <4>1 DEF Places, ManualHasJob
    <3> QED
      BY <1>1, <1>2, <1>3, <1>6, <2>1, <2>4, <3>1, StaysWhereItIs
  <2>6. \A k \in Jobs : Takers(k)' \subseteq Takers(k)
    BY <1>1, <1>2, <2>1, <2>3, TakersOf, TakersAfter
  <2>7. mem[s] # NotLoaded /\ \E x \in Stores : Upkeep(s, x)
    BY <1>3, <1>6, <2>2, StoresAreLoaded DEF st
  <2> QED
    BY <1>2, <1>3, <2>1, <2>3, <2>5, <2>6, <2>7, OnlyMarks
<1>8. CASE runs
  <2> DEFINE js == {j}
             new == Marked(st, js)
  <2>1. Persist(s, new) /\ todo' = [todo EXCEPT ![c] = js] /\ GoTo(c, "execute")
    BY <1>8 DEF Run
  <2>2. ~st[j].running
    BY <1>8
  <2> HIDE DEF st, runs
  <2>3. /\ new \in Stores /\ HasMarker(new, j)
        /\ \A k \in Jobs : Enabled(base, k) => new[k].next = base[k].next
        /\ SameSchedule(new, base)
    <3>1. js \in SUBSET Jobs /\ \A k \in js : st[k].present
      BY <1>2
    <3>2. j \in js
      OBVIOUS
    <3> HIDE DEF js
    <3>3. /\ Marked(st, js) \in Stores /\ \A k \in js : HasMarker(Marked(st, js), k)
          /\ SameSchedule(Marked(st, js), st)
      BY <1>6, <3>1, MarkedStore, UpkeepKeepsSchedule
    <3> QED
      BY <1>6, <3>2, <3>3 DEF SameSchedule
  <2> HIDE DEF new
  <2>4. at' = [at EXCEPT ![c] = "execute"]
    BY <2>1 DEF GoTo
  <2>5. Bookkeeping'
    BY <1>1, <1>2, <2>1, <2>4, BookkeepingAfter DEF Bookkeeping
  <2>6. /\ Shape' /\ Places' /\ Agree'
        /\ mem'[s] = new /\ disk' = new /\ \A t \in Services \ {s} : mem'[t] = mem[t]
    <3>1. \A d \in Coroutines \ {c} : todo'[d] = todo[d] /\ doing'[d] = doing[d] /\ results'[d] = results[d]
      BY <1>1, <1>2, <2>1 DEF Bookkeeping
    <3>2. todo'[c] # {}
      BY <1>1, <1>4, <2>1 DEF Bookkeeping
    <3>3. mem[s] # NotLoaded
      BY DEF Called
    <3> QED
      BY <1>1, <1>2, <1>3, <1>4, <2>1, <2>3, <2>5, <3>1, <3>2, <3>3, WritesAndMoves
  <2>7. SchedulerKeepsTicking'
    <3>1. Boot(cur) # c /\ Tick(cur) # c /\ Boot(cur) \in Coroutines /\ Tick(cur) \in Coroutines
      BY <1>3, <1>4, Names
    <3>2. at'[Boot(cur)] = at[Boot(cur)] /\ at'[Tick(cur)] = at[Tick(cur)]
      BY <1>1, <2>4, <3>1 DEF Bookkeeping
    <3> QED
      BY <1>2, <2>3, <2>6, <3>2, StillTicks DEF IInv
  <2>8. Markers' /\ NoOverlap'
    <3>1. \A k \in Jobs : \A d \in Takers(k)' : d \in Takers(k) \/ (d = c /\ k \in js)
      BY <1>1, <1>2, <1>5, <2>1, <2>5, TakersOf, TakersAfter DEF Bookkeeping
    <3>2. ASSUME j \notin unmarked, NEW d \in Takers(j), d[1] = s PROVE FALSE
      <4>1. Guarded(base, j, d) /\ d # c
        BY <1>5, <3>2 DEF IInv, Markers
      <4>2. HasMarker(base, j) /\ Enabled(base, j)
        BY <3>2, <4>1 DEF Guarded
      <4> QED
        BY <1>6, <2>2, <4>2 DEF HasMarker
    <3>3. Guarded(disk', j, c) /\ Guarded(mem'[s], j, c)
      BY <1>4, <2>3, <2>6 DEF Guarded
    <3>4. js \in SUBSET Jobs /\ \A k \in js : k = j
      OBVIOUS
    <3> HIDE DEF js
    <3> QED
      BY <1>3, <1>4, <2>6, <3>1, <3>2, <3>3, <3>4, MarkersKept DEF IInv
  <2>9. SlotKept
    <3> SUFFICES ASSUME cur = first, NEW k \in Jobs PROVE Kept(k)
      BY <1>2 DEF SlotKept
    <3>1. mem[cur] # NotLoaded
      BY DEF Called
    <3> QED
      BY <1>1, <2>3, <2>6, <3>1, KeptBySchedule DEF IInv
  <2> QED
    BY <2>6, <2>7, <2>8, <2>9 DEF IInv
<1> QED
  BY <1>7, <1>8

LEMMA RunApplyStep ==
  ASSUME IInv, Recorded, Still, NEW s \in Services, RunApply(s) PROVE IInv' /\ SlotKept
<1> DEFINE c == Manual(s)
           j == CHOOSE k \in Jobs : results[c][k] # NoResult
           e == Applied(j, mem[s][j], results[c][j])
           merged == [disk EXCEPT ![j] = IF e.present /\ ~@.present THEN @ ELSE e]
           st == Maintained(merged)
<1>1. Shape /\ Places /\ Bookkeeping /\ StoresSound
  BY DEF IInv, Shape
<1>2. /\ at[c] = "execute" /\ todo[c] = {} /\ doing[c] = NoJob /\ GoTo(c, "idle")
      /\ results' = [results EXCEPT ![c] = [k \in Jobs |-> NoResult]]
      /\ UNCHANGED <<todo, doing, since, interrupted>>
      /\ UNCHANGED <<cur, first, now, ops>>
      /\ IF mem[s][j].present THEN Persist(s, st) /\ timer' = Armed(s, st) /\ own' = own \ {s}
                              ELSE UNCHANGED <<disk, mem, timer, own>>
  BY DEF RunApply, Still, Idle, store
<1>3. c \in Coroutines /\ c[1] = s /\ c # Boot(s) /\ c # Tick(s)
  BY Names
<1>4. Started(s) /\ at[Boot(s)] # "load" /\ mem[s] \in Stores
  BY <1>1, <1>2, <1>3, WhoExecutes
<1>5. j \in Jobs /\ results[c][j] # NoResult
  <2>1. \E k \in Jobs : results[c][k] # NoResult
    BY <1>1, <1>2 DEF Places, ManualHasJob, Idle
  <2> QED
    BY <2>1
<1>6. merged \in Stores /\ \A k \in Jobs \ {j} : merged[k] = disk[k]
  <2>1. mem[s][j] \in SoundEntries /\ results[c][j] \in Outcomes
    BY <1>1, <1>3, <1>4, <1>5 DEF Stores, Bookkeeping
  <2> HIDE DEF j
  <2>2. e \in SoundEntries
    BY <1>5, <2>1, AppliedEntry
  <2> HIDE DEF e
  <2> QED
    BY <1>1, <1>5, <2>2 DEF StoresSound, Stores
<1> HIDE DEF j, merged
<1>7. /\ st \in Stores
      /\ \A k \in Jobs : Enabled(st, k) <=> Enabled(merged, k)
      /\ \A k \in Jobs : Enabled(merged, k) => st[k] = merged[k]
  BY <1>6, MaintainedStore
<1> HIDE DEF st
<1>8. results' \in [Coroutines -> [Jobs -> Outcomes]] /\ results'[c] = [k \in Jobs |-> NoResult]
      /\ \A d \in Coroutines \ {c} : results'[d] = results[d]
  BY <1>1, <1>2, <1>3 DEF Bookkeeping, Outcomes
<1>9. timer' \subseteq timer \cup {s} /\ timer \subseteq timer' \cup {s}
  BY <1>2 DEF Armed
<1>10. Bookkeeping'
  <2>1. at' \in [Coroutines -> {"idle", "load", "missed", "collect", "execute", "finally", "arm", "up"}]
    BY <1>1, <1>2 DEF GoTo, Bookkeeping
  <2>2. timer' \subseteq Services /\ own' \subseteq Services
    BY <1>1, <1>2, <1>9 DEF Bookkeeping
  <2> QED
    BY <1>1, <1>2, <1>8, <2>1, <2>2, BookkeepingAfter DEF Bookkeeping
<1>11. \A d \in Coroutines \ {c} : todo'[d] = todo[d] /\ doing'[d] = doing[d] /\ results'[d] = results[d]
  BY <1>2, <1>8
<1>12. \A k \in Jobs : Takers(k)' \subseteq Takers(k)
  BY <1>1, <1>2, <1>10, TakersOf, TakersAfter
<1>13. CASE mem[s][j].present
  <2>1. /\ Shape' /\ Places' /\ Agree'
        /\ mem'[s] = st /\ disk' = st /\ \A t \in Services \ {s} : mem'[t] = mem[t]
    BY <1>1, <1>2, <1>3, <1>4, <1>7, <1>9, <1>10, <1>11, <1>13, WritesAndMoves
  <2>2. SchedulerKeepsTicking'
    <3>1. CASE s = cur
      BY <1>1, <1>2, <1>13, <2>1, <3>1, ArmedTicks
    <3>2. CASE s # cur
      BY <1>1, <1>2, <1>3, <1>9, <2>1, <3>2, OthersTick DEF IInv
    <3> QED
      BY <3>1, <3>2
  <2>3. Markers' /\ NoOverlap'
    BY <1>12, <2>1, MarkersStay DEF IInv
  <2>4. SlotKept
    <3> SUFFICES ASSUME NEW k \in Jobs PROVE Kept(k) \/ MayAdvance(k)
      BY DEF SlotKept
    <3>1. CASE k = j
      BY <1>3, <1>5, <1>8, <3>1 DEF MayAdvance
    <3>2. CASE k # j
      <4>1. Enabled(disk, k) => disk'[k].next = disk[k].next
        BY <1>6, <1>7, <2>1, <3>2 DEF Enabled
      <4> QED
        BY <1>1, <4>1, KeptBySchedule DEF IInv
    <3> QED
      BY <3>1, <3>2
  <2> QED
    BY <2>1, <2>2, <2>3, <2>4 DEF IInv
<1>14. CASE ~mem[s][j].present
  <2>1. UNCHANGED <<disk, mem, timer, own>>
    BY <1>2, <1>14
  <2>2. StoresSound'
    BY <1>1, <2>1 DEF StoresSound, Stores, SoundEntries, Entries, Times
  <2>3. Places'
    BY <1>1, <1>2, <1>3, <1>4, <1>9, <1>11, <2>1, MovesOn
  <2>4. SchedulerKeepsTicking'
    <3>1. cur \in Services /\ Boot(cur) # c /\ Tick(cur) # c
          /\ Boot(cur) \in Coroutines /\ Tick(cur) \in Coroutines
      BY <1>1, Names DEF Bookkeeping
    <3>2. at'[Boot(cur)] = at[Boot(cur)] /\ at'[Tick(cur)] = at[Tick(cur)]
      BY <1>1, <1>2, <3>1 DEF Bookkeeping, GoTo
    <3> QED
      BY <1>2, <2>1, <3>2, StillTicks DEF IInv
  <2>5. Markers' /\ NoOverlap'
    BY <1>12, <2>1, MarkersStay DEF IInv
  <2>6. Agree'
    BY <1>1, <1>2, <1>4, <2>1, AgreeInMemory DEF IInv
  <2>7. SlotKept
    BY <1>1, <2>1, KeptBySchedule DEF SlotKept, IInv
  <2> QED
    BY <1>10, <2>2, <2>3, <2>4, <2>5, <2>6, <2>7 DEF IInv, Shape
<1> QED
  BY <1>13, <1>14

\* A call that changes nothing but the store.
LEMMA Writes ==
  ASSUME IInv, Recorded, Called, UNCHANGED <<at, todo, doing, since, results, own, interrupted>>,
         timer' \subseteq timer \cup {cur}, NEW st \in Stores, Persist(cur, st)
  PROVE  /\ Shape' /\ Places' /\ Markers' /\ NoOverlap' /\ Agree'
         /\ mem'[cur] = st /\ disk' = st
<1>1. Shape /\ Places /\ Bookkeeping /\ StoresSound
  BY DEF IInv, Shape
<1>2. cur \in Services /\ Started(cur) /\ at[Boot(cur)] # "load"
  BY <1>1, WhoIsCalled DEF Called
<1>3. UNCHANGED <<cur, first, now>> /\ ops' \in 0..MaxOps
  BY DEF Called
<1>4. /\ StoresSound' /\ mem'[cur] = st /\ disk' = st
      /\ \A t \in Services \ {cur} : mem'[t] = mem[t]
  BY <1>1, <1>2, PersistSound
<1>5. Bookkeeping'
  <2>1. timer' \subseteq Services
    BY <1>1, <1>2 DEF Bookkeeping
  <2> QED
    BY <1>1, <1>3, <2>1, BookkeepingAfter DEF Bookkeeping
<1>6. Places'
  <2>1. ASSUME NEW t \in Services, at[Manual(t)] = "execute", Idle(Manual(t))'
        PROVE  \E k \in Jobs : results'[Manual(t)][k] # NoResult
    <3>1. Idle(Manual(t))
      BY <2>1 DEF Idle, Manual
    <3> QED
      BY <1>1, <2>1, <3>1 DEF Places, ManualHasJob
  <2> QED
    BY <1>1, <1>2, <1>3, <1>4, <2>1, StaysWhereItIs
<1>7. Markers' /\ NoOverlap'
  <2>1. \A j \in Jobs : Takers(j)' \subseteq Takers(j)
    BY <1>1, <1>5, TakersOf, TakersAfter
  <2> QED
    BY <1>2, <1>4, <2>1, MarkersStay DEF IInv
<1>8. Agree'
  BY <1>1, <1>2, <1>3, <1>4, AgreePersisted
<1> QED
  BY <1>4, <1>5, <1>6, <1>7, <1>8 DEF Shape

LEMMA ChangeStep ==
  ASSUME IInv, Recorded, Called, NEW st \in Stores, Change(st)
  PROVE  IInv' /\ mem'[cur] = st /\ disk' = st
<1>1. timer' = Armed(cur, st) /\ Persist(cur, st)
      /\ UNCHANGED <<at, todo, doing, since, results, own, interrupted>>
  BY DEF Change, work
<1>2. timer' \subseteq timer \cup {cur}
  BY <1>1 DEF Armed
<1>3. /\ Shape' /\ Places' /\ Markers' /\ NoOverlap' /\ Agree'
      /\ mem'[cur] = st /\ disk' = st
  BY <1>1, <1>2, Writes
<1>4. SchedulerKeepsTicking'
  BY <1>1, <1>3, ArmedTicks DEF IInv, Called
<1> QED
  BY <1>3, <1>4 DEF IInv

LEMMA AddStep ==
  ASSUME IInv, Recorded, Called, NEW j \in Jobs, Add(j) PROVE IInv' /\ SlotKept
<1> DEFINE added == [mem[cur] EXCEPT ![j] = NewJob(j)]
<1>1. Shape /\ Places /\ Bookkeeping
  BY DEF IInv, Shape
<1>2. mem[cur] \in Stores
  BY <1>1, WhoIsCalled DEF Called
<1>3. added \in Stores
  BY <1>1, <1>2, NewEntry DEF Stores
<1> HIDE DEF added
<1>4. Recomputed(added) \in Stores
  BY <1>1, <1>3, RecomputedStore
<1>5. Change(Recomputed(added))
  BY DEF Add, added
<1>6. IInv'
  BY <1>4, <1>5, ChangeStep
<1>7. SlotKept
  BY DEF SlotKept, MayAdvance
<1> QED
  BY <1>6, <1>7

LEMMA UpdateStep ==
  ASSUME IInv, Recorded, Called, NEW j \in Jobs, NEW on \in BOOLEAN, Update(j, on)
  PROVE  IInv' /\ SlotKept
<1> DEFINE e == mem[cur][j]
           f == IF on THEN [e EXCEPT !.enabled = TRUE, !.next = NextRun(j, now)]
                ELSE [e EXCEPT !.enabled = FALSE, !.next = Never, !.running = FALSE]
           st == [mem[cur] EXCEPT ![j] = f]
<1>1. Shape /\ Places /\ Bookkeeping /\ mem[cur] # NotLoaded /\ UNCHANGED <<cur, first>>
  BY DEF IInv, Shape, Called
<1>2. mem[cur] \in Stores
  BY <1>1, WhoIsCalled
<1>3. e \in SoundEntries /\ e.present
  BY <1>2 DEF Stores, Update
<1>4. f \in SoundEntries /\ (~on => ~f.enabled)
  <2>1. CASE on
    <3>1. NextRun(j, now) \in (Times \cup {OneShotAt}) \ {Never}
      BY <1>1, NextRunIsDue
    <3> QED
      BY <1>3, <2>1, <3>1, RescheduledEntry
  <2>2. CASE ~on
    BY <1>3, <2>2, DisabledEntry
  <2> QED
    BY <2>1, <2>2
<1>5. Change(st)
  BY DEF Update
<1> HIDE DEF f
<1>6. st \in Stores /\ st[j] = f /\ \A k \in Jobs \ {j} : st[k] = mem[cur][k]
  BY <1>2, <1>4 DEF Stores
<1> HIDE DEF st
<1>7. IInv' /\ disk' = st
  BY <1>5, <1>6, ChangeStep
<1>8. SlotKept
  <2> SUFFICES ASSUME cur = first, NEW k \in Jobs PROVE Kept(k) \/ MayAdvance(k)
    BY <1>1 DEF SlotKept
  <2>1. CASE k # j
    <3>1. Enabled(mem[cur], k) => disk'[k].next = mem[cur][k].next
      BY <1>6, <1>7, <2>1
    <3> QED
      BY <1>1, <3>1, KeptBySchedule DEF IInv
  <2>2. CASE k = j /\ on = TRUE
    BY <2>2 DEF MayAdvance
  <2>3. CASE k = j /\ on = FALSE
    BY <1>4, <1>6, <1>7, <2>3 DEF Kept, Enabled
  <2> QED
    BY <2>1, <2>2, <2>3
<1> QED
  BY <1>7, <1>8

LEMMA RemoveStep ==
  ASSUME IInv, Recorded, Called, NEW j \in Jobs, Remove(j) PROVE IInv' /\ SlotKept
<1> DEFINE st == [mem[cur] EXCEPT ![j] = Absent]
<1>1. Shape /\ Places /\ Bookkeeping /\ mem[cur] # NotLoaded /\ UNCHANGED <<cur, first>>
  BY DEF IInv, Shape, Called
<1>2. mem[cur] \in Stores
  BY <1>1, WhoIsCalled
<1>3. Change(st)
  BY DEF Remove
<1>4. st \in Stores /\ ~st[j].present /\ \A k \in Jobs \ {j} : st[k] = mem[cur][k]
  BY <1>2, EntryCases DEF Stores
<1> HIDE DEF st
<1>5. IInv' /\ disk' = st
  BY <1>3, <1>4, ChangeStep
<1>6. SlotKept
  <2> SUFFICES ASSUME cur = first, NEW k \in Jobs PROVE Kept(k)
    BY <1>1 DEF SlotKept
  <2>1. CASE k # j
    <3>1. Enabled(mem[cur], k) => disk'[k].next = mem[cur][k].next
      BY <1>4, <1>5, <2>1
    <3> QED
      BY <1>1, <3>1, KeptBySchedule DEF IInv
  <2>2. CASE k = j
    BY <1>4, <1>5, <2>2 DEF Kept, Enabled
  <2> QED
    BY <2>1, <2>2
<1> QED
  BY <1>5, <1>6

LEMMA ListStep ==
  ASSUME IInv, Recorded, Still, List PROVE IInv' /\ SlotKept
<1> DEFINE st == Maintained(mem[cur])
<1>1. Shape /\ Places /\ Bookkeeping /\ StoresSound
  BY DEF IInv, Shape
<1>2. /\ mem[cur] # NotLoaded /\ mem' = [mem EXCEPT ![cur] = st]
      /\ disk' = IF st = mem[cur] THEN disk ELSE st
      /\ UNCHANGED <<timer, at, todo, doing, since, results, own, interrupted>>
      /\ UNCHANGED <<cur, first, now, ops>>
  BY DEF List, Still, work
<1>3. cur \in Services /\ Started(cur) /\ at[Boot(cur)] # "load" /\ mem[cur] \in Stores
  BY <1>1, <1>2, WhoIsCalled
<1>4. st \in Stores /\ SameSchedule(st, mem[cur])
  BY <1>3, MaintainedStore DEF SameSchedule
<1> HIDE DEF st
<1>5. CASE st = mem[cur]
  <2>1. mem' = mem /\ disk' = disk
    BY <1>1, <1>2, <1>5 DEF StoresSound
  <2>2. Bookkeeping'
    BY <1>1, <1>2, BookkeepingAfter DEF Bookkeeping
  <2>3. Places'
    <3>1. ASSUME NEW t \in Services, at[Manual(t)] = "execute", Idle(Manual(t))'
          PROVE  \E k \in Jobs : results'[Manual(t)][k] # NoResult
      <4>1. Idle(Manual(t))
        BY <1>2, <3>1 DEF Idle, Manual
      <4> QED
        BY <1>1, <1>2, <3>1, <4>1 DEF Places, ManualHasJob
    <3> QED
      BY <1>1, <1>2, <1>3, <2>1, <3>1, StaysWhereItIs
  <2>4. \A k \in Jobs : Takers(k)' \subseteq Takers(k)
    BY <1>1, <1>2, <2>2, TakersOf, TakersAfter
  <2> QED
    BY <1>2, <1>3, <2>1, <2>2, <2>3, <2>4, OnlyMarks
<1>6. CASE st # mem[cur]
  <2>1. Persist(cur, st)
    BY <1>2, <1>6 DEF Persist
  <2>2. Called
    BY <1>1, <1>2 DEF Called, Bookkeeping
  <2>3. /\ Shape' /\ Places' /\ Markers' /\ NoOverlap' /\ Agree'
        /\ mem'[cur] = st /\ disk' = st
    BY <1>2, <1>4, <2>1, <2>2, Writes
  <2>4. SchedulerKeepsTicking'
    BY <1>2, <1>4, <2>3, StillTicks DEF IInv
  <2>5. SlotKept
    <3> SUFFICES ASSUME cur = first, NEW k \in Jobs PROVE Kept(k)
      BY <1>2 DEF SlotKept
    <3>1. Enabled(mem[cur], k) => disk'[k].next = mem[cur][k].next
      BY <1>4, <2>3 DEF SameSchedule
    <3> QED
      BY <1>1, <1>2, <3>1, KeptBySchedule DEF IInv
  <2> QED
    BY <2>3, <2>4, <2>5 DEF IInv
<1> QED
  BY <1>5, <1>6

LEMMA RestartStep ==
  ASSUME IInv, Recorded, Restart, UNCHANGED <<now, ops>> PROVE IInv' /\ SlotKept
<1> DEFINE s == cur + 1
<1>1. Shape /\ Places /\ Bookkeeping /\ StoresSound
  BY DEF IInv, Shape
<1>2. /\ cur < MaxStarts /\ cur' = s /\ timer' = timer \ {cur} /\ GoTo(Boot(s), "load")
      /\ UNCHANGED <<first, disk, mem, todo, doing, since, results, own, interrupted>>
  BY DEF Restart, store
<1>3. /\ s \in Services /\ cur \in Services /\ first \in 1..cur /\ s \notin first..cur /\ cur' # first
      /\ first \in 1..s
      /\ \A t \in Services : t \notin first..s => t \notin first..cur
  BY <1>1, <1>2, CronAssumption DEF Bookkeeping, Services
<1>4. Boot(s) \in Coroutines /\ Tick(s) \in Coroutines /\ Manual(s) \in Coroutines
  BY <1>3, Names
<1>5. at'[Boot(s)] = "load" /\ \A d \in Coroutines \ {Boot(s)} : at'[d] = at[d]
  BY <1>1, <1>2, <1>4 DEF Bookkeeping, GoTo
<1>6. Quiet(s) /\ at[Boot(s)] = "idle"
  BY <1>1, <1>3 DEF Places, Unstarted
<1>7. Bookkeeping'
  <2>1. at' \in [Coroutines -> {"idle", "load", "missed", "collect", "execute", "finally", "arm", "up"}]
    BY <1>1, <1>2 DEF GoTo, Bookkeeping
  <2>2. timer' \subseteq Services
    BY <1>1, <1>2 DEF Bookkeeping
  <2> QED
    BY <1>1, <1>2, <1>3, <2>1, <2>2, BookkeepingAfter DEF Bookkeeping
<1>8. StoresSound'
  BY <1>1, <1>2 DEF StoresSound, Stores, SoundEntries, Entries, Times
<1>9. Working'
  <2> SUFFICES ASSUME NEW d \in Coroutines
               PROVE  IF at'[d] = "execute" THEN mem[d[1]] \in Stores
                      ELSE todo[d] = {} /\ doing[d] = NoJob
    BY <1>2 DEF Working, Idle, Stores, SoundEntries, Entries, Times
  <2>1. IF at[d] = "execute" THEN mem[d[1]] \in Stores ELSE todo[d] = {} /\ doing[d] = NoJob
    BY <1>1 DEF Places, Working, Idle
  <2> QED
    BY <1>5, <1>6, <2>1
<1>10. ManualHasJob'
  <2> SUFFICES ASSUME NEW t \in Services, at'[Manual(t)] = "execute", Idle(Manual(t))'
               PROVE  \E j \in Jobs : results'[Manual(t)][j] # NoResult
    BY DEF ManualHasJob, Manual
  <2>1. at[Manual(t)] = "execute"
    BY <1>5, Names
  <2>2. Idle(Manual(t))
    BY <1>2 DEF Idle, Manual
  <2> QED
    BY <1>1, <1>2, <2>1, <2>2 DEF Places, ManualHasJob
<1>11. Unstarted'
  <2> SUFFICES ASSUME NEW t \in Services
               PROVE  /\ t \notin first..s => Quiet(t)' /\ at'[Boot(t)] = "idle"
                      /\ at'[Boot(t)] = "load" => Quiet(t)'
    BY <1>2 DEF Unstarted, Boot
  <2>1. /\ Boot(t) \in Coroutines /\ Tick(t) \in Coroutines \ {Boot(s)} /\ Manual(t) \in Coroutines \ {Boot(s)}
        /\ t # s => Boot(t) # Boot(s)
    BY <1>3, Names
  <2>2. Quiet(t) => Quiet(t)'
    <3>1. at'[Tick(t)] = at[Tick(t)] /\ at'[Manual(t)] = at[Manual(t)]
      BY <1>5, <2>1
    <3> QED
      BY <1>2, <3>1 DEF Quiet, Tick, Manual
  <2>3. CASE t = s
    <3>1. s \in first..s
      BY <1>3 DEF Services
    <3> QED
      BY <1>6, <2>2, <2>3, <3>1
  <2>4. CASE t # s
    BY <1>1, <1>3, <1>5, <2>1, <2>2, <2>4 DEF Places, Unstarted
  <2> QED
    BY <2>3, <2>4
<1>12. SchedulerKeepsTicking'
  <2>1. at'[Boot(cur')] = "load"
    BY <1>2, <1>5
  <2> QED
    BY <2>1 DEF SchedulerKeepsTicking, Boot
<1>13. Markers' /\ NoOverlap'
  <2>1. \A j \in Jobs : Takers(j)' \subseteq Takers(j)
    BY <1>1, <1>2, <1>7, TakersOf, TakersAfter
  <2> QED
    BY <1>2, <1>3, <2>1, MarkersStay DEF IInv
<1>14. Agree' /\ SlotKept
  BY <1>2, <1>3 DEF Agree, SlotKept
<1> QED
  BY <1>7, <1>8, <1>9, <1>10, <1>11, <1>12, <1>13, <1>14 DEF IInv, Shape, Places

LEMMA CrashStep ==
  ASSUME IInv, Recorded, Crash, UNCHANGED <<now, ops>> PROVE IInv' /\ SlotKept
<1> DEFINE s == cur + 1
<1>1. Shape /\ Places /\ Bookkeeping /\ StoresSound
  BY DEF IInv, Shape
<1>2. /\ cur < MaxStarts /\ cur' = s /\ first' = s /\ timer' = {} /\ own' = {}
      /\ mem' = [t \in Services |-> NotLoaded]
      /\ at' = [c \in Coroutines |-> IF c = Boot(s) THEN "load" ELSE "idle"]
      /\ todo' = [c \in Coroutines |-> {}]
      /\ doing' = [c \in Coroutines |-> NoJob]
      /\ since' = [c \in Coroutines |-> 0]
      /\ results' = [c \in Coroutines |-> [j \in Jobs |-> NoResult]]
      /\ UNCHANGED <<disk, interrupted>>
  BY DEF Crash
<1>3. s \in Services /\ cur' # first /\ s \in 1..s
  BY <1>1, <1>2, CronAssumption DEF Bookkeeping, Services
<1>4. Bookkeeping'
  <2>1. 0 \in 0..MaxTime
    BY CronAssumption
  <2>2. results' \in [Coroutines -> [Jobs -> Outcomes]]
    BY <1>2 DEF Outcomes
  <2> QED
    BY <1>1, <1>2, <1>3, <2>1, <2>2, BookkeepingAfter DEF Bookkeeping
<1>5. StoresSound'
  BY <1>1, <1>2 DEF StoresSound, Stores, SoundEntries, Entries, Times
<1>6. \A c \in Coroutines : at'[c] # "execute" /\ todo'[c] = {} /\ doing'[c] = NoJob
  BY <1>2
<1>7. Working' /\ ManualHasJob'
  <2>1. Working'
    BY <1>6 DEF Working, Idle, Coroutines, Services
  <2>2. \A t \in Services : at'[Manual(t)] # "execute"
    BY <1>6, Names
  <2> QED
    BY <2>1, <2>2 DEF ManualHasJob, Manual, Services
<1>8. Unstarted'
  <2> SUFFICES ASSUME NEW t \in Services
               PROVE  /\ t # s => Quiet(t)' /\ at'[Boot(t)] = "idle"
                      /\ at'[Boot(t)] = "load" => Quiet(t)'
    <3>1. first'..cur' = {s}
      BY <1>2, <1>3 DEF Services
    <3> QED
      BY <3>1 DEF Unstarted, Boot, Services
  <2>1. /\ Boot(t) \in Coroutines /\ Tick(t) \in Coroutines \ {Boot(s)} /\ Manual(t) \in Coroutines \ {Boot(s)}
        /\ t # s => Boot(t) # Boot(s)
    BY <1>3, Names
  <2>2. at'[Tick(t)] = "idle" /\ at'[Manual(t)] = "idle" /\ (t # s => at'[Boot(t)] = "idle")
    BY <1>2, <2>1
  <2>3. Quiet(t)'
    BY <1>2, <2>2 DEF Quiet, Tick, Manual
  <2> QED
    BY <2>2, <2>3
<1>9. SchedulerKeepsTicking'
  <2>1. Boot(s) \in Coroutines
    BY <1>3, Names
  <2>2. at'[Boot(cur')] = "load"
    BY <1>2, <2>1
  <2> QED
    BY <2>2 DEF SchedulerKeepsTicking, Boot
<1>10. Markers' /\ NoOverlap'
  <2>1. \A j \in Jobs : \A c \in Takers(j)' : FALSE
    BY <1>4, <1>6, TakersAfter, CronAssumption
  <2> QED
    BY <2>1 DEF Markers, NoOverlap, Jobs
<1>11. Agree' /\ SlotKept
  BY <1>2, <1>3 DEF Agree, SlotKept
<1> QED
  BY <1>4, <1>5, <1>7, <1>8, <1>9, <1>10, <1>11 DEF IInv, Shape, Places

LEMMA SlotPassesStep ==
  ASSUME IInv, Recorded, SlotPasses, UNCHANGED <<cur, first, ops>> PROVE IInv' /\ SlotKept
<1>1. Shape /\ Places /\ Bookkeeping /\ StoresSound /\ cur \in Services
  BY DEF IInv, Shape, Bookkeeping
<1>2. /\ now' \in 0..MaxTime
      /\ UNCHANGED <<disk, mem, timer, at, todo, doing, since, results, own, interrupted>>
  BY <1>1, CronAssumption DEF SlotPasses, store, work, Bookkeeping
<1>3. Bookkeeping'
  BY <1>1, <1>2, BookkeepingAfter DEF Bookkeeping
<1>4. StoresSound'
  BY <1>1, <1>2 DEF StoresSound, Stores, SoundEntries, Entries, Times
<1>5. Places'
  BY <1>1, <1>2 DEF Places, Working, ManualHasJob, Unstarted, Quiet, Idle, Boot, Tick, Manual,
                    Stores, SoundEntries, Entries, Times
<1>6. SchedulerKeepsTicking'
  BY <1>2, StillTicks DEF IInv
<1>7. Markers' /\ NoOverlap'
  <2>1. \A j \in Jobs : Takers(j)' \subseteq Takers(j)
    BY <1>1, <1>2, <1>3, TakersOf, TakersAfter
  <2> QED
    BY <1>1, <1>2, <2>1, MarkersStay DEF IInv
<1>8. Agree'
  BY <1>2 DEF Agree, IInv, Enabled
<1>9. SlotKept
  BY <1>1, <1>2, KeptBySchedule DEF SlotKept, IInv
<1> QED
  BY <1>3, <1>4, <1>5, <1>6, <1>7, <1>8, <1>9 DEF IInv, Shape

LEMMA StutteringStep ==
  ASSUME IInv, UNCHANGED vars PROVE IInv'
<1>1. UNCHANGED <<disk, mem, timer, at, todo, doing, since, results, own, interrupted>>
      /\ UNCHANGED <<cur, now, ops, first, unmarked>>
  BY DEF vars, store, work
<1>2. StoresSound'
  BY <1>1 DEF IInv, Shape, StoresSound, Stores, SoundEntries, Entries, Times
<1>3. Bookkeeping'
  BY <1>1 DEF IInv, Shape, Bookkeeping, Coroutines, Services, Outcomes, NoResult, Statuses, Jobs
<1>4. Places'
  BY <1>1 DEF IInv, Places, Working, ManualHasJob, Unstarted, Quiet, Idle, Boot, Tick, Manual,
              Stores, SoundEntries, Entries, Times
<1>5. SchedulerKeepsTicking'
  BY <1>1, StillTicks DEF IInv
<1>6. \A j \in Jobs : Takers(j)' = Takers(j)
  BY <1>1 DEF Takers, Coroutines, Services
<1>7. Markers'
  BY <1>1, <1>6 DEF IInv, Markers, Guarded, HasMarker, Enabled, Manual, Jobs
<1>8. NoOverlap'
  BY <1>1, <1>6 DEF IInv, NoOverlap, Jobs
<1>9. Agree'
  BY <1>1 DEF Agree, IInv, Enabled
<1> QED
  BY <1>2, <1>3, <1>4, <1>5, <1>7, <1>8, <1>9 DEF IInv, Shape

\* Every step keeps the invariant, and with it no slot is skipped.
LEMMA NextStep ==
  ASSUME IInv, Next PROVE IInv' /\ SlotKept
<1>1. Recorded
  BY DEF Next
<1>2. CASE CoroutineStep /\ UNCHANGED <<cur, first, now, ops>>
  <2>1. Still
    BY <1>2 DEF Still
  <2>2. ASSUME NEW s \in Services, BootLoad(s) PROVE IInv' /\ SlotKept
    BY <1>1, <2>1, <2>2, BootLoadStep
  <2>3. ASSUME NEW s \in Services, BootMissed(s) PROVE IInv' /\ SlotKept
    BY <1>1, <2>1, <2>3, BootMissedStep
  <2>4. ASSUME NEW s \in Services, BootArm(s) PROVE IInv' /\ SlotKept
    BY <1>1, <2>1, <2>4, BootArmStep
  <2>5. ASSUME NEW s \in Services, TimerFires(s) PROVE IInv' /\ SlotKept
    BY <1>1, <2>1, <2>5, TimerFiresStep
  <2>6. ASSUME NEW s \in Services, Collect(s) PROVE IInv' /\ SlotKept
    BY <1>1, <2>1, <2>6, CollectStep
  <2>7. ASSUME NEW s \in Services, TickFinally(s) PROVE IInv' /\ SlotKept
    BY <1>1, <2>1, <2>7, TickFinallyStep
  <2>8. ASSUME NEW s \in Services, RunApply(s) PROVE IInv' /\ SlotKept
    BY <1>1, <2>1, <2>8, RunApplyStep
  <2>9. ASSUME NEW c \in Coroutines, NEW j \in Jobs, Begin(c, j) PROVE IInv' /\ SlotKept
    BY <1>1, <2>1, <2>9, BeginStep
  <2>10. ASSUME NEW c \in Coroutines, NEW status \in Statuses, End(c, status) PROVE IInv' /\ SlotKept
    BY <1>1, <2>1, <2>10, EndStep
  <2>11. ASSUME NEW c \in Coroutines, Apply(c) PROVE IInv' /\ SlotKept
    BY <1>1, <2>1, <2>11, ApplyStep
  <2> QED
    BY <1>2, <2>2, <2>3, <2>4, <2>5, <2>6, <2>7, <2>8, <2>9, <2>10, <2>11 DEF CoroutineStep
<1>3. CASE Call /\ Calls /\ UNCHANGED <<cur, first, now>>
  <2>1. Called
    BY <1>3, CronAssumption DEF IInv, Shape, Bookkeeping, Call, Called
  <2>2. ASSUME NEW j \in Jobs, NEW forced \in BOOLEAN, Run(j, forced) PROVE IInv' /\ SlotKept
    BY <1>1, <2>1, <2>2, RunStep
  <2>3. ASSUME NEW j \in Jobs, Add(j) PROVE IInv' /\ SlotKept
    BY <1>1, <2>1, <2>3, AddStep
  <2>4. ASSUME NEW j \in Jobs, Remove(j) PROVE IInv' /\ SlotKept
    BY <1>1, <2>1, <2>4, RemoveStep
  <2>5. ASSUME NEW j \in Jobs, NEW on \in BOOLEAN, Update(j, on) PROVE IInv' /\ SlotKept
    BY <1>1, <2>1, <2>5, UpdateStep
  <2> QED
    BY <1>3, <2>2, <2>3, <2>4, <2>5 DEF Calls
<1>4. CASE List /\ UNCHANGED <<cur, first, now, ops>>
  BY <1>1, <1>4, ListStep DEF Still
<1>5. CASE Restart /\ UNCHANGED <<now, ops>>
  BY <1>1, <1>5, RestartStep
<1>6. CASE Crash /\ UNCHANGED <<now, ops>>
  BY <1>1, <1>6, CrashStep
<1>7. CASE SlotPasses /\ UNCHANGED <<cur, first, ops>>
  BY <1>1, <1>7, SlotPassesStep
<1> QED
  BY <1>2, <1>3, <1>4, <1>5, <1>6, <1>7 DEF Next

LEMMA InitIInv == Init => IInv
<1> SUFFICES ASSUME Init PROVE IInv
  OBVIOUS
<1>1. /\ now = 0 /\ timer = {} /\ own = {} /\ cur = 1 /\ first = 1 /\ ops = 0 /\ unmarked = {}
      /\ mem = [s \in Services |-> NotLoaded]
      /\ at = [c \in Coroutines |-> IF c = Boot(1) THEN "load" ELSE "idle"]
      /\ todo = [c \in Coroutines |-> {}]
      /\ doing = [c \in Coroutines |-> NoJob]
      /\ since = [c \in Coroutines |-> 0]
      /\ results = [c \in Coroutines |-> [j \in Jobs |-> NoResult]]
      /\ interrupted = [s \in Services |-> {}]
  BY DEF Init
<1>2. 0 \in 0..MaxTime /\ 0 \in 0..MaxOps /\ 1 \in Services /\ 1 \in 1..1
  BY CronAssumption DEF Services
<1>3. Bookkeeping
  BY <1>1, <1>2 DEF Bookkeeping, Outcomes
<1>4. StoresSound
  <2>1. PICK js \in InitialJobs : disk = [j \in Jobs |-> IF j \in js THEN NewJob(j) ELSE Absent]
    BY DEF Init
  <2>2. \A j \in Jobs : NewJob(j) \in SoundEntries /\ Absent \in SoundEntries
    BY <1>3, NewEntry, EntryCases
  <2> QED
    BY <1>1, <2>1, <2>2 DEF StoresSound, Stores
<1>5. \A c \in Coroutines : at[c] # "execute" /\ Idle(c)
  BY <1>1 DEF Idle
<1>6. Boot(1) \in Coroutines
  BY <1>2, Names
<1>7. Working /\ ManualHasJob
  BY <1>5, Names DEF Working, ManualHasJob
<1>8. Unstarted
  <2> SUFFICES ASSUME NEW s \in Services
               PROVE  /\ s # 1 => at[Boot(s)] = "idle"
                      /\ Quiet(s)
    <3>1. first..cur = {1}
      BY <1>1
    <3> QED
      BY <3>1 DEF Unstarted
  <2>1. /\ Boot(s) \in Coroutines /\ Tick(s) \in Coroutines \ {Boot(1)} /\ Manual(s) \in Coroutines \ {Boot(1)}
        /\ s # 1 => Boot(s) # Boot(1)
    BY <1>2, Names
  <2> QED
    BY <1>1, <2>1 DEF Quiet
<1>9. SchedulerKeepsTicking /\ Agree
  BY <1>1, <1>2, <1>6 DEF SchedulerKeepsTicking, Agree
<1>10. Markers /\ NoOverlap
  <2>1. \A j \in Jobs : \A c \in Takers(j) : FALSE
    BY <1>1, <1>3, TakersOf, CronAssumption
  <2> QED
    BY <2>1 DEF Markers, NoOverlap
<1> QED
  BY <1>3, <1>4, <1>7, <1>8, <1>9, <1>10 DEF IInv, Shape, Places

-----------------------------------------------------------------------------
(* Theorems *)

\* What every reachable state has: stores whose enabled jobs have a next run, services
\* that have not begun at rest, markers on the jobs that are executed.
THEOREM Invariance == Spec => []IInv
<1>1. IInv /\ [Next]_vars => IInv'
  BY NextStep, StutteringStep
<1> QED
  BY <1>1, InitIInv, PTL DEF Spec

\* Next runs, store, and the coroutines' records have their types (types.ts, jobs.ts).
THEOREM TypeCorrect == Spec => []TypeOK
<1>1. IInv => TypeOK
  BY ShapeIsTyped DEF IInv
<1> QED
  BY <1>1, Invariance, PTL

\* The scheduler of the gateway's service is never silently dead (armTimer, onTimer).
THEOREM SchedulerGoesOn == Spec => []SchedulerKeepsTicking
<1>1. IInv => SchedulerKeepsTicking
  BY DEF IInv
<1> QED
  BY <1>1, Invariance, PTL

\* The running marker that the locked blocks set and test keeps two coroutines of a
\* service from executing one job (runMissedJobs, onTimer, run).
THEOREM NeverTwiceAtOnce == Spec => []NoOverlap
<1>1. IInv => NoOverlap
  BY DEF IInv
<1> QED
  BY <1>1, Invariance, PTL

\* A due slot goes only with a result, a start, an add or its own update
\* (recomputeNextRunsForMaintenance).
THEOREM SlotsAreKept == Spec => NoSlotSkipped
<1>1. IInv /\ Next => (cur' = first => \A j \in Jobs : Kept(j) \/ MayAdvance(j))
  BY NextStep DEF SlotKept
<1>2. IInv /\ [Next]_vars => [cur' = first => \A j \in Jobs : Kept(j) \/ MayAdvance(j)]_vars
  BY <1>1
<1> QED
  BY <1>2, Invariance, PTL DEF Spec, NoSlotSkipped
=============================================================================
