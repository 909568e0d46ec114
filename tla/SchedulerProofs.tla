-------------------------- MODULE SchedulerProofs --------------------------
(***************************************************************************)
(* Proofs about Scheduler for any number of threads, any amount of work    *)
(* and any number of rounds: with Inv, as long as SIGALRM is delivered     *)
(* only at the places in Harmless; with RowInv, wherever it is delivered,  *)
(* for programs whose main() creates all the threads.                      *)
(***************************************************************************)
EXTENDS Scheduler, TLAPS

\* In a thread outside scheduler_create(), before line 109 tests prev, and
\* between that test and the loads of line 111.
Harmless == {"run", "unlink", "l111"}

\* prev is the job before curr in the list.
CurrFollowsPrev == IF prev = Null THEN curr = head
                   ELSE prev \in Linked /\ next[prev] = curr

\* Jobs come into being in the order of their numbers; once freed, they are done.
MemoryInv ==
    /\ \A j \in Jobs : mem[j] = "none" <=> j > created
    /\ \A j \in Jobs : mem[j] = "freed" => left[j] = 0
    /\ sch # "live" => \A j \in Jobs : mem[j] # "live"

\* Where curr and prev point at each place of the loop.
ControlInv ==
    /\ pc \in {"main", "returned"} => curr = Null
    /\ pc = "returned" => sch = "freed"
    /\ pc \notin {"main", "returned"} => sch = "live"
    /\ pc = "pick" => curr \in Linked \cup {Null}
    /\ pc = "l145" => curr \in Linked
    /\ pc = "dispatch" => CurrFollowsPrev /\ (curr = Null => prev = Null)
    /\ pc \in {"run"} \cup Unlinking => curr \in Linked /\ CurrFollowsPrev
    /\ pc \in {"l116", "l117", "l118"} => prev \in Linked \cup {Null}
    /\ pc \in {"l116", "l117"} => curr \in Jobs /\ mem[curr] = "live"
    /\ pc \in Unlinking \cup {"l116", "l117"} => left[curr] = 0

\* scheduler_create() adds the last job that was allocated, walking along the
\* list of a scheduler whose curr and prev it leaves alone.
AddInv ==
    pc \in Creating =>
        /\ curr = Null \/ (curr \in Linked /\ CurrFollowsPrev)
        /\ created \in Jobs /\ fresh[curr] = created /\ next[created] = Null
        /\ mem[created] = "live" /\ status[created] = 0 /\ overtaken[created] = {}
        /\ pc = "l58" <=> head = Null
        /\ pc \in {"l64", "l65", "l68"} => last[curr] \in Linked
        /\ pc = "l65" => next[last[curr]] # Null
        /\ pc = "l68" => next[last[curr]] = Null

\* What lines 109-113 have read is still so.
LoadInv ==
    /\ pc \in {"l111", "l111s"} => prev = Null
    /\ pc \in {"l113", "l113s"} => prev # Null
    /\ pc \in {"l111s", "l113s"} => value[curr] = next[curr]
    /\ pc = "l113s" => target[curr] = prev

\* A thread that has been started and is not running has a context to go back
\* to; one that will only be unlinked has nothing left to do, and one that has
\* found itself to be the first job still is.
ContextInv ==
    \A j \in Linked :
        (status[j] # 0 /\ ~(pc \in {"run"} \cup Creating \cup Unlinking /\ j = curr)) =>
            /\ env[j] \in Harmless
            /\ env[j] # "run" => left[j] = 0
            /\ env[j] = "l111" => j = head

\* The place in the list up to which this round has been served.
Served == IF pc \in {"dispatch", "l116", "l117", "l118"} THEN prev ELSE curr

\* Who can have had the processor since j had it: the jobs after j up to the
\* place reached, round the end of the list if j has not been served yet.
TurnInv ==
    /\ \A j \in Linked : \A k \in overtaken[j] :
         k <= created /\ ~(pc \in Creating /\ k = created)
    /\ \A j, k \in Linked :
         k \in overtaken[j] =>
             IF j <= Served THEN j < k /\ k <= Served
             ELSE k > j \/ k <= Served

Inv ==
    /\ TypeOK
    /\ NoUndefined
    /\ ListIsExact
    /\ MemoryInv
    /\ ControlInv
    /\ AddInv
    /\ LoadInv
    /\ ContextInv
    /\ TurnInv
-----------------------------------------------------------------------------
\* The initial state: no job exists.
LEMMA InitInv == Init => Inv
<1>. SUFFICES ASSUME Init PROVE Inv
  OBVIOUS
<1>. USE SchedulerAssumption DEF Init, Jobs, Null, Creating, Unlinking
<1>1. TypeOK
  <2>1. overtaken \in [Jobs -> SUBSET Jobs]
    OBVIOUS
  <2>2. next \in [Jobs -> Jobs \cup {Null}] /\ status \in [Jobs -> {0, 1}]
    OBVIOUS
  <2>3. mem \in [Jobs -> {"none", "live", "freed"}] /\ left \in [Jobs -> Nat]
    OBVIOUS
  <2>4. env \in [Jobs -> OwnStack \cup {"none", "l145", "stale", "used"}]
    OBVIOUS
  <2>5. created \in 0 .. MaxJobs /\ rounds \in Nat /\ {head, curr, prev} \subseteq {Null}
    OBVIOUS
  <2>6. /\ fresh \in [Jobs \cup {Null} -> Jobs \cup {Null}]
        /\ last \in [Jobs \cup {Null} -> Jobs \cup {Null}]
        /\ target \in [Jobs -> Jobs \cup {Null}] /\ value \in [Jobs -> Jobs \cup {Null}]
    OBVIOUS
  <2>. QED  BY <2>1, <2>2, <2>3, <2>4, <2>5, <2>6 DEF TypeOK
<1>2. Linked = {}
  BY DEF Linked
<1>3. MemoryInv /\ ControlInv /\ NoUndefined /\ AddInv /\ LoadInv
  BY DEF MemoryInv, ControlInv, NoUndefined, AddInv, LoadInv
<1>4. ListIsExact /\ ContextInv /\ TurnInv
  BY <1>2 DEF ListIsExact, IsNextAfter, ContextInv, TurnInv
<1>. QED  BY <1>1, <1>3, <1>4 DEF Inv

\* What the scheduler dereferences is alive: no step of it goes wrong.
LEMMA AlwaysSound == ASSUME Inv PROVE Sound
BY DEF Inv, TypeOK, Sound, Touched, Usable, ControlInv, CurrFollowsPrev, Linked, AddInv,
       LoadInv, ListIsExact, NoUndefined, IsNextAfter, Jobs, Null, Creating, Unlinking

\* scheduler_init(): the list of an empty scheduler is empty.
LEMMA SchedulerInitInv ==
    ASSUME Inv, scheduler_init
    PROVE  Inv'
<1>. USE SchedulerAssumption DEF Jobs, Null, list, threads, locals, ghosts, Creating,
     Unlinking, Inv
<1>1. TypeOK'
  BY DEF TypeOK, ControlInv, AddInv, OwnStack, Linked, scheduler_init
<1>2. ListIsExact'
  BY DEF TypeOK, ListIsExact, IsNextAfter, Linked, MemoryInv, ControlInv, scheduler_init
<1>3. MemoryInv'
  BY DEF TypeOK, MemoryInv, ListIsExact, IsNextAfter, NoUndefined, ControlInv,
       CurrFollowsPrev, Linked, scheduler_init
<1>4. ControlInv'
  BY DEF TypeOK, ControlInv, CurrFollowsPrev, Linked, MemoryInv, ListIsExact, IsNextAfter,
       NoUndefined, AddInv, scheduler_init
<1>5. AddInv' /\ LoadInv'
  BY DEF AddInv, LoadInv, scheduler_init
<1>6. ContextInv'
  BY DEF ContextInv, MemoryInv, ControlInv, Linked, scheduler_init
<1>7. TurnInv'
  BY DEF TypeOK, TurnInv, Served, ControlInv, CurrFollowsPrev, Linked, scheduler_init
<1>8. NoUndefined'
  BY DEF NoUndefined, scheduler_init
<1>. QED  BY <1>1, <1>2, <1>3, <1>4, <1>5, <1>6, <1>7, <1>8 DEF Inv

\* scheduler_execute() is entered.
LEMMA ExecuteInv ==
    ASSUME Inv, Execute
    PROVE  Inv'
<1>. USE SchedulerAssumption DEF Jobs, Null, list, threads, locals, ghosts, Creating,
     Unlinking, Inv
<1>1. TypeOK'
  BY DEF TypeOK, ControlInv, AddInv, OwnStack, Linked, Execute
<1>2. ListIsExact'
  BY DEF TypeOK, ListIsExact, IsNextAfter, Linked, NoUndefined, ControlInv, AddInv, Execute
<1>3. MemoryInv'
  BY DEF TypeOK, MemoryInv, ListIsExact, IsNextAfter, NoUndefined, ControlInv,
       CurrFollowsPrev, Linked, Execute
<1>4. ControlInv'
  BY DEF TypeOK, ControlInv, CurrFollowsPrev, Linked, MemoryInv, ListIsExact, IsNextAfter,
       NoUndefined, AddInv, Execute
<1>5. AddInv' /\ LoadInv'
  BY DEF TypeOK, AddInv, LoadInv, ControlInv, CurrFollowsPrev, Linked, Execute
<1>6. ContextInv'
  BY DEF TypeOK, ContextInv, ControlInv, Linked, Harmless, Execute
<1>7. TurnInv'
  BY DEF TypeOK, TurnInv, Served, ControlInv, CurrFollowsPrev, Linked, Execute
<1>8. NoUndefined'
  BY DEF NoUndefined, Execute
<1>. QED  BY <1>1, <1>2, <1>3, <1>4, <1>5, <1>6, <1>7, <1>8 DEF Inv

\* The next job is the one after curr, or the first.
LEMMA PickInv ==
    ASSUME Inv, Pick
    PROVE  Inv'
<1>. USE SchedulerAssumption DEF Jobs, Null, list, threads, locals, ghosts, Creating,
     Unlinking, Inv
<1>1. TypeOK'
  BY DEF TypeOK, ControlInv, AddInv, OwnStack, Linked, Pick, NextJob, PrevJob, IsLast
<1>2. ListIsExact'
  BY DEF TypeOK, ListIsExact, IsNextAfter, Linked, NoUndefined, ControlInv, AddInv, Pick,
       NextJob, PrevJob, IsLast
<1>3. MemoryInv'
  BY DEF TypeOK, MemoryInv, ListIsExact, IsNextAfter, NoUndefined, ControlInv,
       CurrFollowsPrev, Linked, Pick, NextJob, PrevJob, IsLast
<1>4. ControlInv'
  BY DEF TypeOK, ControlInv, CurrFollowsPrev, Linked, MemoryInv, ListIsExact, IsNextAfter,
       NoUndefined, AddInv, Pick, NextJob, PrevJob, IsLast
<1>5. AddInv' /\ LoadInv'
  BY DEF TypeOK, AddInv, LoadInv, ControlInv, CurrFollowsPrev, Linked, Pick, NextJob,
       PrevJob, IsLast
<1>6. ContextInv'
  BY DEF TypeOK, ContextInv, ControlInv, Linked, Harmless, Pick, NextJob, PrevJob, IsLast
<1>7. TurnInv'
  <2>1. /\ Served = curr /\ Served' = PrevJob /\ Linked' = Linked
        /\ overtaken' = overtaken /\ created' = created
    BY DEF Pick, Served, Linked
  <2>2. CASE ~IsLast
    BY <2>1, <2>2 DEF TurnInv, PrevJob, Pick
  <2>3. CASE IsLast
    <3>1. curr = Null \/ \A k \in Linked : k <= curr
      BY <2>3 DEF IsLast, Pick, ControlInv, ListIsExact, IsNextAfter, NoUndefined
    <3>2. \A k \in Linked : k \in Int /\ k > 0
      BY DEF Linked
    <3>. QED  BY <2>1, <2>3, <3>1, <3>2 DEF TurnInv, PrevJob, Pick
  <2>. QED  BY <2>2, <2>3
<1>8. NoUndefined'
  BY DEF NoUndefined, Pick, NextJob, PrevJob, IsLast
<1>. QED  BY <1>1, <1>2, <1>3, <1>4, <1>5, <1>6, <1>7, <1>8 DEF Inv

\* Without a next job the list is empty.
LEMMA ReturnInv ==
    ASSUME Inv, Return
    PROVE  Inv'
<1>. USE SchedulerAssumption DEF Jobs, Null, list, threads, locals, ghosts, Creating,
     Unlinking, Inv
<1>1. TypeOK'
  BY DEF TypeOK, ControlInv, AddInv, OwnStack, Linked, Return
<1>2. ListIsExact'
  BY DEF TypeOK, ListIsExact, IsNextAfter, Linked, NoUndefined, ControlInv, AddInv, Return
<1>3. MemoryInv'
  BY DEF TypeOK, MemoryInv, ListIsExact, IsNextAfter, NoUndefined, ControlInv,
       CurrFollowsPrev, Linked, Return
<1>4. ControlInv'
  BY DEF TypeOK, ControlInv, CurrFollowsPrev, Linked, MemoryInv, ListIsExact, IsNextAfter,
       NoUndefined, AddInv, Return
<1>5. AddInv' /\ LoadInv'
  BY DEF TypeOK, AddInv, LoadInv, ControlInv, CurrFollowsPrev, Linked, Return
<1>6. ContextInv'
  BY DEF TypeOK, ContextInv, ControlInv, Linked, Harmless, Return
<1>7. TurnInv'
  BY DEF TypeOK, TurnInv, Served, ControlInv, CurrFollowsPrev, Linked, Return
<1>8. NoUndefined'
  BY DEF NoUndefined, Return
<1>. QED  BY <1>1, <1>2, <1>3, <1>4, <1>5, <1>6, <1>7, <1>8 DEF Inv

\* Handing the processor to curr keeps the order of turns.
LEMMA SwitchTurns ==
    ASSUME Inv, pc = "dispatch", curr # Null, Switch, pc' \in Harmless,
           UNCHANGED <<list, mem, created>>
    PROVE  TurnInv'
<1>. USE DEF Jobs, Null, list, Creating, Harmless, Inv
<1>1. /\ curr \in Linked /\ prev < curr /\ curr <= created
      /\ \A k \in Linked : k > prev => k >= curr
  BY DEF ControlInv, CurrFollowsPrev, ListIsExact, IsNextAfter, NoUndefined,
         MemoryInv, TypeOK, Linked
<1>2. Linked' = Linked /\ Served = prev /\ Served' = curr
  BY DEF Linked, Served
<1>3. \A j \in Linked : overtaken'[j] = IF j = curr THEN {} ELSE overtaken[j] \cup {curr}
  BY DEF Switch, Linked
<1>4. ASSUME NEW j \in Linked', NEW k \in overtaken'[j] PROVE k <= created'
  <2>1. k = curr \/ k \in overtaken[j]
    BY <1>2, <1>3
  <2>2. \A i \in overtaken[j] : i <= created
    BY <1>2 DEF TurnInv
  <2>. QED  BY <1>1, <2>1, <2>2
<1>5. ASSUME NEW j \in Linked', NEW k \in Linked', k \in overtaken'[j]
      PROVE  IF j <= Served' THEN j < k /\ k <= Served' ELSE k > j \/ k <= Served'
  <2>1. j # curr /\ (k = curr \/ k \in overtaken[j])
    BY <1>2, <1>3, <1>5
  <2>2. j \in Int /\ k \in Int /\ curr \in Int /\ prev \in Int
    BY <1>2 DEF Linked, TypeOK
  <2>3. k \in overtaken[j] => IF j <= prev THEN j < k /\ k <= prev ELSE k > j \/ k <= prev
    BY <1>2 DEF TurnInv
  <2>. QED  BY <1>1, <1>2, <2>1, <2>2, <2>3
<1>. QED  BY <1>4, <1>5 DEF TurnInv

\* A job is started.
LEMMA StartInv ==
    ASSUME Inv, Start
    PROVE  Inv'
<1>. USE SchedulerAssumption DEF Jobs, Null, list, threads, locals, ghosts, Creating,
     Unlinking, Inv
<1>1. TypeOK'
  <2>1. overtaken' \in [Jobs -> SUBSET Jobs]
    BY DEF TypeOK, Switch, Start
  <2>. QED  BY <2>1 DEF TypeOK, OwnStack, Start, Switch
<1>2. ListIsExact'
  BY DEF TypeOK, ListIsExact, IsNextAfter, Linked, NoUndefined, ControlInv, AddInv, Start,
       Switch
<1>3. MemoryInv'
  BY DEF TypeOK, MemoryInv, ListIsExact, IsNextAfter, NoUndefined, ControlInv,
       CurrFollowsPrev, Linked, Start, Switch
<1>4. ControlInv'
  <2>1. curr \in Linked /\ CurrFollowsPrev /\ Linked' = Linked
    BY DEF TypeOK, ControlInv, CurrFollowsPrev, Linked, ListIsExact, IsNextAfter,
         NoUndefined, Start
  <2>. QED  BY <2>1 DEF ControlInv, CurrFollowsPrev, Start
<1>5. AddInv' /\ LoadInv'
  BY DEF TypeOK, AddInv, LoadInv, ControlInv, CurrFollowsPrev, Linked, Start, Switch
<1>6. ContextInv'
  BY DEF TypeOK, ContextInv, ControlInv, Linked, Harmless, Start, Switch
<1>7. TurnInv'
  BY SwitchTurns DEF Start, Harmless
<1>8. NoUndefined'
  BY DEF NoUndefined, Start, Switch
<1>. QED  BY <1>1, <1>2, <1>3, <1>4, <1>5, <1>6, <1>7, <1>8 DEF Inv

\* A job is resumed, in its function or just after it.
LEMMA ResumeInv ==
    ASSUME Inv, Resume
    PROVE  Inv'
<1>. USE SchedulerAssumption DEF Jobs, Null, list, threads, locals, ghosts, Creating,
     Unlinking, Inv
<1>a. /\ curr \in Linked /\ CurrFollowsPrev /\ left[curr] \in Nat
      /\ pc' = env[curr] /\ pc' \in Harmless
      /\ pc' # "run" => left[curr] = 0
      /\ pc' = "l111" => curr = head /\ prev = Null
  <2>1. curr \in Linked /\ CurrFollowsPrev
    BY DEF Resume, ControlInv, CurrFollowsPrev, TypeOK, ListIsExact, IsNextAfter, NoUndefined,
           Linked
  <2>2. /\ env[curr] \in Harmless /\ (env[curr] # "run" => left[curr] = 0)
        /\ env[curr] = "l111" => curr = head
    BY <2>1 DEF Resume, ContextInv
  <2>3. pc' = env[curr]
    BY <2>2 DEF Resume, Harmless
  <2>4. curr = head => prev = Null
    <3>1. prev \in Jobs /\ curr = head /\ next[prev] = curr /\ prev \in Linked => FALSE
      BY <2>1 DEF ListIsExact, IsNextAfter, NoUndefined, Resume, Linked
    <3>. QED  BY <2>1, <3>1 DEF CurrFollowsPrev, TypeOK
  <2>. QED  BY <2>1, <2>2, <2>3, <2>4 DEF TypeOK, Linked
<1>1. TypeOK'
  <2>1. overtaken' \in [Jobs -> SUBSET Jobs]
    BY DEF TypeOK, Switch, Resume
  <2>. QED  BY <1>a, <2>1 DEF TypeOK, OwnStack, Harmless, Resume, Switch
<1>2. ListIsExact'
  BY <1>a DEF TypeOK, ListIsExact, IsNextAfter, Linked, NoUndefined, ControlInv, AddInv,
       Resume, Switch, Harmless, ContextInv
<1>3. MemoryInv'
  BY <1>a DEF TypeOK, MemoryInv, ListIsExact, IsNextAfter, NoUndefined, ControlInv,
       CurrFollowsPrev, Linked, Resume, Switch, Harmless, ContextInv
<1>4. ControlInv'
  BY <1>a DEF TypeOK, ControlInv, CurrFollowsPrev, Linked, MemoryInv, ListIsExact,
       IsNextAfter, NoUndefined, AddInv, Resume, Switch, Harmless, ContextInv
<1>5. AddInv' /\ LoadInv'
  BY <1>a DEF AddInv, LoadInv, Harmless, Resume
<1>6. ContextInv'
  BY <1>a DEF TypeOK, ContextInv, ControlInv, Linked, Harmless, Resume, Switch
<1>7. TurnInv'
  BY <1>a, SwitchTurns DEF Resume
<1>8. NoUndefined'
  BY <1>a DEF NoUndefined, Resume, Switch, Harmless, ContextInv
<1>. QED  BY <1>1, <1>2, <1>3, <1>4, <1>5, <1>6, <1>7, <1>8 DEF Inv

\* The running thread makes a step.
LEMMA WorkInv ==
    ASSUME Inv, Work
    PROVE  Inv'
<1>. USE SchedulerAssumption DEF Jobs, Null, list, threads, locals, ghosts, Creating,
     Unlinking, Inv
<1>1. TypeOK'
  BY DEF TypeOK, ControlInv, AddInv, OwnStack, Linked, Work
<1>2. ListIsExact'
  BY DEF TypeOK, ListIsExact, IsNextAfter, Linked, NoUndefined, ControlInv, AddInv, Work
<1>3. MemoryInv'
  BY DEF TypeOK, MemoryInv, ListIsExact, IsNextAfter, NoUndefined, ControlInv,
       CurrFollowsPrev, Linked, Work
<1>4. ControlInv'
  BY DEF TypeOK, ControlInv, CurrFollowsPrev, Linked, MemoryInv, ListIsExact, IsNextAfter,
       NoUndefined, AddInv, Work
<1>5. AddInv' /\ LoadInv'
  BY DEF TypeOK, AddInv, LoadInv, ControlInv, CurrFollowsPrev, Linked, Work
<1>6. ContextInv'
  BY DEF TypeOK, ContextInv, ControlInv, Linked, Harmless, Work
<1>7. TurnInv'
  BY DEF TypeOK, TurnInv, Served, ControlInv, CurrFollowsPrev, Linked, Work
<1>8. NoUndefined'
  BY DEF NoUndefined, Work
<1>. QED  BY <1>1, <1>2, <1>3, <1>4, <1>5, <1>6, <1>7, <1>8 DEF Inv

\* The running thread yields.
LEMMA YieldInv ==
    ASSUME Inv, scheduler_yield
    PROVE  Inv'
<1>. USE SchedulerAssumption DEF Jobs, Null, list, threads, locals, ghosts, Creating,
     Unlinking, Inv
<1>1. TypeOK'
  BY DEF TypeOK, ControlInv, AddInv, OwnStack, Linked, scheduler_yield
<1>2. ListIsExact'
  BY DEF TypeOK, ListIsExact, IsNextAfter, Linked, NoUndefined, ControlInv, AddInv,
       scheduler_yield
<1>3. MemoryInv'
  BY DEF TypeOK, MemoryInv, ListIsExact, IsNextAfter, NoUndefined, ControlInv,
       CurrFollowsPrev, Linked, scheduler_yield
<1>4. ControlInv'
  BY DEF TypeOK, ControlInv, CurrFollowsPrev, Linked, MemoryInv, ListIsExact, IsNextAfter,
       NoUndefined, AddInv, scheduler_yield
<1>5. AddInv' /\ LoadInv'
  BY DEF TypeOK, AddInv, LoadInv, ControlInv, CurrFollowsPrev, Linked, scheduler_yield
<1>6. ContextInv'
  BY DEF TypeOK, ContextInv, ControlInv, Linked, Harmless, scheduler_yield
<1>7. TurnInv'
  BY DEF TypeOK, TurnInv, Served, ControlInv, CurrFollowsPrev, Linked, scheduler_yield
<1>8. NoUndefined'
  BY DEF NoUndefined, scheduler_yield
<1>. QED  BY <1>1, <1>2, <1>3, <1>4, <1>5, <1>6, <1>7, <1>8 DEF Inv

\* ... and leaves the processor to the scheduler.
LEMMA ToSchedulerInv ==
    ASSUME Inv, ToScheduler
    PROVE  Inv'
<1>. USE SchedulerAssumption DEF Jobs, Null, list, threads, locals, ghosts, Creating,
     Unlinking, Inv
<1>1. TypeOK'
  BY DEF TypeOK, ControlInv, AddInv, OwnStack, Linked, ToScheduler
<1>2. ListIsExact'
  BY DEF TypeOK, ListIsExact, IsNextAfter, Linked, NoUndefined, ControlInv, AddInv, ToScheduler
<1>3. MemoryInv'
  BY DEF TypeOK, MemoryInv, ListIsExact, IsNextAfter, NoUndefined, ControlInv,
       CurrFollowsPrev, Linked, ToScheduler
<1>4. ControlInv'
  BY DEF TypeOK, ControlInv, CurrFollowsPrev, Linked, MemoryInv, ListIsExact, IsNextAfter,
       NoUndefined, AddInv, ToScheduler
<1>5. AddInv' /\ LoadInv'
  BY DEF TypeOK, AddInv, LoadInv, ControlInv, CurrFollowsPrev, Linked, ToScheduler
<1>6. ContextInv'
  BY DEF TypeOK, ContextInv, ControlInv, Linked, Harmless, ToScheduler
<1>7. TurnInv'
  BY DEF TypeOK, TurnInv, Served, ControlInv, CurrFollowsPrev, Linked, ToScheduler
<1>8. NoUndefined'
  BY DEF NoUndefined, ToScheduler
<1>. QED  BY <1>1, <1>2, <1>3, <1>4, <1>5, <1>6, <1>7, <1>8 DEF Inv

\* The running thread is done.
LEMMA ThreadReturnsInv ==
    ASSUME Inv, ThreadReturns
    PROVE  Inv'
<1>. USE SchedulerAssumption DEF Jobs, Null, list, threads, locals, ghosts, Creating,
     Unlinking, Inv
<1>1. TypeOK'
  BY DEF TypeOK, ControlInv, AddInv, OwnStack, Linked, ThreadReturns
<1>2. ListIsExact'
  BY DEF TypeOK, ListIsExact, IsNextAfter, Linked, NoUndefined, ControlInv, AddInv,
       ThreadReturns
<1>3. MemoryInv'
  BY DEF TypeOK, MemoryInv, ListIsExact, IsNextAfter, NoUndefined, ControlInv,
       CurrFollowsPrev, Linked, ThreadReturns
<1>4. ControlInv'
  BY DEF TypeOK, ControlInv, CurrFollowsPrev, Linked, MemoryInv, ListIsExact, IsNextAfter,
       NoUndefined, AddInv, ThreadReturns
<1>5. AddInv' /\ LoadInv'
  BY DEF TypeOK, AddInv, LoadInv, ControlInv, CurrFollowsPrev, Linked, ThreadReturns
<1>6. ContextInv'
  BY DEF TypeOK, ContextInv, ControlInv, Linked, Harmless, ThreadReturns
<1>7. TurnInv'
  BY DEF TypeOK, TurnInv, Served, ControlInv, CurrFollowsPrev, Linked, ThreadReturns
<1>8. NoUndefined'
  BY DEF NoUndefined, ThreadReturns
<1>. QED  BY <1>1, <1>2, <1>3, <1>4, <1>5, <1>6, <1>7, <1>8 DEF Inv

\* The first job is told from the others.
LEMMA TestPrevInv ==
    ASSUME Inv, TestPrev
    PROVE  Inv'
<1>. USE SchedulerAssumption DEF Jobs, Null, list, threads, locals, ghosts, Creating,
     Unlinking, Inv
<1>1. TypeOK'
  BY DEF TypeOK, ControlInv, AddInv, OwnStack, Linked, TestPrev
<1>2. ListIsExact'
  BY DEF TypeOK, ListIsExact, IsNextAfter, Linked, NoUndefined, ControlInv, AddInv, TestPrev
<1>3. MemoryInv'
  BY DEF TypeOK, MemoryInv, ListIsExact, IsNextAfter, NoUndefined, ControlInv,
       CurrFollowsPrev, Linked, TestPrev
<1>4. ControlInv'
  BY DEF TypeOK, ControlInv, CurrFollowsPrev, Linked, MemoryInv, ListIsExact, IsNextAfter,
       NoUndefined, AddInv, TestPrev
<1>5. AddInv' /\ LoadInv'
  BY DEF TypeOK, AddInv, LoadInv, ControlInv, CurrFollowsPrev, Linked, TestPrev
<1>6. ContextInv'
  BY DEF TypeOK, ContextInv, ControlInv, Linked, Harmless, TestPrev
<1>7. TurnInv'
  BY DEF TypeOK, TurnInv, Served, ControlInv, CurrFollowsPrev, Linked, TestPrev
<1>8. NoUndefined'
  BY DEF NoUndefined, TestPrev
<1>. QED  BY <1>1, <1>2, <1>3, <1>4, <1>5, <1>6, <1>7, <1>8 DEF Inv

\* The job after the first is read.
LEMMA LoadForHeadInv ==
    ASSUME Inv, LoadForHead
    PROVE  Inv'
<1>. USE SchedulerAssumption DEF Jobs, Null, list, threads, locals, ghosts, Creating,
     Unlinking, Inv
<1>1. TypeOK'
  BY DEF TypeOK, ControlInv, AddInv, OwnStack, Linked, LoadForHead, Sound, Touched, Usable
<1>2. ListIsExact'
  BY DEF TypeOK, ListIsExact, IsNextAfter, Linked, NoUndefined, ControlInv, AddInv,
       LoadForHead, Sound, Touched, Usable
<1>3. MemoryInv'
  BY DEF TypeOK, MemoryInv, ListIsExact, IsNextAfter, NoUndefined, ControlInv,
       CurrFollowsPrev, Linked, LoadForHead, Sound, Touched, Usable
<1>4. ControlInv'
  BY DEF TypeOK, ControlInv, CurrFollowsPrev, Linked, MemoryInv, ListIsExact, IsNextAfter,
       NoUndefined, AddInv, LoadForHead, Sound, Touched, Usable
<1>5. AddInv' /\ LoadInv'
  BY DEF TypeOK, AddInv, LoadInv, ControlInv, CurrFollowsPrev, Linked, LoadForHead, Sound,
       Touched, Usable
<1>6. ContextInv'
  BY DEF TypeOK, ContextInv, ControlInv, Linked, Harmless, LoadForHead, Sound, Touched, Usable
<1>7. TurnInv'
  BY DEF TypeOK, TurnInv, Served, ControlInv, CurrFollowsPrev, Linked, LoadForHead, Sound,
       Touched, Usable
<1>8. NoUndefined'
  BY DEF NoUndefined, LoadForHead, Sound, Touched, Usable
<1>. QED  BY <1>1, <1>2, <1>3, <1>4, <1>5, <1>6, <1>7, <1>8 DEF Inv

\* The job before curr and the one after it are read.
LEMMA LoadForPrevInv ==
    ASSUME Inv, LoadForPrev
    PROVE  Inv'
<1>. USE SchedulerAssumption DEF Jobs, Null, list, threads, locals, ghosts, Creating,
     Unlinking, Inv
<1>1. TypeOK'
  BY DEF TypeOK, ControlInv, AddInv, OwnStack, Linked, LoadForPrev
<1>2. ListIsExact'
  BY DEF TypeOK, ListIsExact, IsNextAfter, Linked, NoUndefined, ControlInv, AddInv, LoadForPrev
<1>3. MemoryInv'
  BY DEF TypeOK, MemoryInv, ListIsExact, IsNextAfter, NoUndefined, ControlInv,
       CurrFollowsPrev, Linked, LoadForPrev
<1>4. ControlInv'
  BY DEF TypeOK, ControlInv, CurrFollowsPrev, Linked, MemoryInv, ListIsExact, IsNextAfter,
       NoUndefined, AddInv, LoadForPrev
<1>5. AddInv' /\ LoadInv'
  BY DEF TypeOK, AddInv, LoadInv, ControlInv, CurrFollowsPrev, Linked, LoadForPrev
<1>6. ContextInv'
  BY DEF TypeOK, ContextInv, ControlInv, Linked, Harmless, LoadForPrev
<1>7. TurnInv'
  BY DEF TypeOK, TurnInv, Served, ControlInv, CurrFollowsPrev, Linked, LoadForPrev
<1>8. NoUndefined'
  BY DEF NoUndefined, LoadForPrev
<1>. QED  BY <1>1, <1>2, <1>3, <1>4, <1>5, <1>6, <1>7, <1>8 DEF Inv

\* The stack of the thread that left the list is released.
LEMMA FreeStackInv ==
    ASSUME Inv, FreeStack, ~Trims
    PROVE  Inv'
<1>. USE SchedulerAssumption DEF Jobs, Null, list, threads, locals, ghosts, Creating,
     Unlinking, Inv
<1>1. TypeOK'
  BY DEF TypeOK, ControlInv, AddInv, OwnStack, Linked, FreeStack
<1>2. ListIsExact'
  BY DEF TypeOK, ListIsExact, IsNextAfter, Linked, NoUndefined, ControlInv, AddInv, FreeStack
<1>3. MemoryInv'
  BY DEF TypeOK, MemoryInv, ListIsExact, IsNextAfter, NoUndefined, ControlInv,
       CurrFollowsPrev, Linked, FreeStack
<1>4. ControlInv'
  BY DEF TypeOK, ControlInv, CurrFollowsPrev, Linked, MemoryInv, ListIsExact, IsNextAfter,
       NoUndefined, AddInv, FreeStack
<1>5. AddInv' /\ LoadInv'
  BY DEF TypeOK, AddInv, LoadInv, ControlInv, CurrFollowsPrev, Linked, FreeStack
<1>6. ContextInv'
  BY DEF TypeOK, ContextInv, ControlInv, Linked, Harmless, FreeStack
<1>7. TurnInv'
  BY DEF TypeOK, TurnInv, Served, ControlInv, CurrFollowsPrev, Linked, FreeStack
<1>8. NoUndefined'
  BY DEF NoUndefined, FreeStack
<1>. QED  BY <1>1, <1>2, <1>3, <1>4, <1>5, <1>6, <1>7, <1>8 DEF Inv

\* Its job is released.
LEMMA FreeJobInv ==
    ASSUME Inv, FreeJob
    PROVE  Inv'
<1>. USE SchedulerAssumption DEF Jobs, Null, list, threads, locals, ghosts, Creating,
     Unlinking, Inv
<1>1. TypeOK'
  BY DEF TypeOK, ControlInv, AddInv, OwnStack, Linked, FreeJob
<1>2. ListIsExact'
  BY DEF TypeOK, ListIsExact, IsNextAfter, Linked, NoUndefined, ControlInv, AddInv, FreeJob
<1>3. MemoryInv'
  BY DEF TypeOK, MemoryInv, ListIsExact, IsNextAfter, NoUndefined, ControlInv,
       CurrFollowsPrev, Linked, FreeJob
<1>4. ControlInv'
  BY DEF TypeOK, ControlInv, CurrFollowsPrev, Linked, MemoryInv, ListIsExact, IsNextAfter,
       NoUndefined, AddInv, FreeJob
<1>5. AddInv' /\ LoadInv'
  BY DEF TypeOK, AddInv, LoadInv, ControlInv, CurrFollowsPrev, Linked, FreeJob
<1>6. ContextInv'
  BY DEF TypeOK, ContextInv, ControlInv, Linked, Harmless, FreeJob
<1>7. TurnInv'
  BY DEF TypeOK, TurnInv, Served, ControlInv, CurrFollowsPrev, Linked, FreeJob
<1>8. NoUndefined'
  BY DEF NoUndefined, FreeJob
<1>. QED  BY <1>1, <1>2, <1>3, <1>4, <1>5, <1>6, <1>7, <1>8 DEF Inv

\* The loop goes on from the job before it.
LEMMA StepBackInv ==
    ASSUME Inv, StepBack
    PROVE  Inv'
<1>. USE SchedulerAssumption DEF Jobs, Null, list, threads, locals, ghosts, Creating,
     Unlinking, Inv
<1>1. TypeOK'
  BY DEF TypeOK, ControlInv, AddInv, OwnStack, Linked, StepBack
<1>2. ListIsExact'
  BY DEF TypeOK, ListIsExact, IsNextAfter, Linked, NoUndefined, ControlInv, AddInv, StepBack
<1>3. MemoryInv'
  BY DEF TypeOK, MemoryInv, ListIsExact, IsNextAfter, NoUndefined, ControlInv,
       CurrFollowsPrev, Linked, StepBack
<1>4. ControlInv'
  BY DEF TypeOK, ControlInv, CurrFollowsPrev, Linked, MemoryInv, ListIsExact, IsNextAfter,
       NoUndefined, AddInv, StepBack
<1>5. AddInv' /\ LoadInv'
  BY DEF TypeOK, AddInv, LoadInv, ControlInv, CurrFollowsPrev, Linked, StepBack
<1>6. ContextInv'
  BY DEF TypeOK, ContextInv, ControlInv, Linked, Harmless, StepBack
<1>7. TurnInv'
  BY DEF TypeOK, TurnInv, Served, ControlInv, CurrFollowsPrev, Linked, StepBack
<1>8. NoUndefined'
  BY DEF NoUndefined, StepBack
<1>. QED  BY <1>1, <1>2, <1>3, <1>4, <1>5, <1>6, <1>7, <1>8 DEF Inv

\* SIGALRM, on the stack of a job that is in the list.
LEMMA InterruptInv ==
    ASSUME Inv, interrupt_handler, Alarms \subseteq Harmless
    PROVE  Inv'
<1>. USE SchedulerAssumption DEF Jobs, Null, list, threads, locals, ghosts, Creating,
     Unlinking, Inv
<1>a. /\ pc \in Harmless
      /\ curr \in Linked
      /\ env' = [env EXCEPT ![curr] = pc]
      /\ pc' = "l145"
  BY DEF interrupt_handler, Saved, OwnStack, Usable, ControlInv, Linked, Harmless
<1>1. TypeOK'
  BY <1>a DEF TypeOK, ControlInv, AddInv, OwnStack, Linked, interrupt_handler, Harmless,
       LoadInv, CurrFollowsPrev
<1>2. ListIsExact'
  BY <1>a DEF TypeOK, ListIsExact, IsNextAfter, Linked, NoUndefined, ControlInv, AddInv,
       interrupt_handler, Harmless, LoadInv, CurrFollowsPrev
<1>3. MemoryInv'
  BY <1>a DEF TypeOK, MemoryInv, ListIsExact, IsNextAfter, NoUndefined, ControlInv,
       CurrFollowsPrev, Linked, interrupt_handler, Harmless, LoadInv
<1>4. ControlInv'
  BY <1>a DEF TypeOK, ControlInv, CurrFollowsPrev, Linked, MemoryInv, ListIsExact,
       IsNextAfter, NoUndefined, AddInv, interrupt_handler, Harmless, LoadInv
<1>5. AddInv' /\ LoadInv'
  BY <1>a DEF TypeOK, AddInv, LoadInv, ControlInv, CurrFollowsPrev, Linked,
       interrupt_handler, Harmless
<1>6. ContextInv'
  BY <1>a DEF TypeOK, ContextInv, ControlInv, Linked, Harmless, interrupt_handler, LoadInv,
       CurrFollowsPrev
<1>7. TurnInv'
  BY <1>a DEF TypeOK, TurnInv, Served, ControlInv, CurrFollowsPrev, Linked,
       interrupt_handler, Harmless, LoadInv
<1>8. NoUndefined'
  BY <1>a DEF NoUndefined, interrupt_handler, Harmless, LoadInv, CurrFollowsPrev
<1>. QED  BY <1>1, <1>2, <1>3, <1>4, <1>5, <1>6, <1>7, <1>8 DEF Inv

\* scheduler_create(): the walk starts at the head of the list ...
LEMMA WalkFromHeadInv ==
    ASSUME Inv, WalkFromHead
    PROVE  Inv'
<1>. USE SchedulerAssumption DEF Jobs, Null, list, threads, locals, ghosts, Creating,
     Unlinking, Inv
<1>1. TypeOK'
  BY DEF TypeOK, ControlInv, AddInv, OwnStack, Linked, WalkFromHead
<1>2. ListIsExact'
  BY DEF TypeOK, ListIsExact, IsNextAfter, Linked, NoUndefined, ControlInv, AddInv, WalkFromHead
<1>3. MemoryInv'
  BY DEF TypeOK, MemoryInv, ListIsExact, IsNextAfter, NoUndefined, ControlInv,
       CurrFollowsPrev, Linked, WalkFromHead
<1>4. ControlInv'
  BY DEF TypeOK, ControlInv, CurrFollowsPrev, Linked, MemoryInv, ListIsExact, IsNextAfter,
       NoUndefined, AddInv, WalkFromHead
<1>5. AddInv' /\ LoadInv'
  <2>1. /\ \A i \in Linked : next[i] # Null => next[i] \in Linked
        /\ head # Null => head \in Linked
        /\ Linked' = Linked /\ curr \in Jobs \cup {Null} /\ Linked \subseteq Jobs
    BY DEF ListIsExact, IsNextAfter, NoUndefined, Linked, TypeOK, WalkFromHead
  <2>. QED  BY <2>1 DEF TypeOK, AddInv, LoadInv, CurrFollowsPrev, WalkFromHead
<1>6. ContextInv'
  BY DEF TypeOK, ContextInv, ControlInv, Linked, Harmless, WalkFromHead
<1>7. TurnInv'
  BY DEF TypeOK, TurnInv, Served, ControlInv, CurrFollowsPrev, Linked, WalkFromHead
<1>8. NoUndefined'
  BY DEF NoUndefined, WalkFromHead
<1>. QED  BY <1>1, <1>2, <1>3, <1>4, <1>5, <1>6, <1>7, <1>8 DEF Inv

\* ... stops at the last job ...
LEMMA WalkTestInv ==
    ASSUME Inv, WalkTest
    PROVE  Inv'
<1>. USE SchedulerAssumption DEF Jobs, Null, list, threads, locals, ghosts, Creating,
     Unlinking, Inv
<1>1. TypeOK'
  BY DEF TypeOK, ControlInv, AddInv, OwnStack, Linked, WalkTest
<1>2. ListIsExact'
  BY DEF TypeOK, ListIsExact, IsNextAfter, Linked, NoUndefined, ControlInv, AddInv, WalkTest
<1>3. MemoryInv'
  BY DEF TypeOK, MemoryInv, ListIsExact, IsNextAfter, NoUndefined, ControlInv,
       CurrFollowsPrev, Linked, WalkTest
<1>4. ControlInv'
  BY DEF TypeOK, ControlInv, CurrFollowsPrev, Linked, MemoryInv, ListIsExact, IsNextAfter,
       NoUndefined, AddInv, WalkTest
<1>5. AddInv' /\ LoadInv'
  BY DEF TypeOK, AddInv, LoadInv, ControlInv, CurrFollowsPrev, Linked, WalkTest
<1>6. ContextInv'
  BY DEF TypeOK, ContextInv, ControlInv, Linked, Harmless, WalkTest
<1>7. TurnInv'
  BY DEF TypeOK, TurnInv, Served, ControlInv, CurrFollowsPrev, Linked, WalkTest
<1>8. NoUndefined'
  BY DEF NoUndefined, WalkTest
<1>. QED  BY <1>1, <1>2, <1>3, <1>4, <1>5, <1>6, <1>7, <1>8 DEF Inv

\* ... and goes on from any other.
LEMMA WalkOnInv ==
    ASSUME Inv, WalkOn
    PROVE  Inv'
<1>. USE SchedulerAssumption DEF Jobs, Null, list, threads, locals, ghosts, Creating,
     Unlinking, Inv
<1>1. TypeOK'
  BY DEF TypeOK, ControlInv, AddInv, OwnStack, Linked, WalkOn
<1>2. ListIsExact'
  BY DEF TypeOK, ListIsExact, IsNextAfter, Linked, NoUndefined, ControlInv, AddInv, WalkOn
<1>3. MemoryInv'
  BY DEF TypeOK, MemoryInv, ListIsExact, IsNextAfter, NoUndefined, ControlInv,
       CurrFollowsPrev, Linked, WalkOn
<1>4. ControlInv'
  BY DEF TypeOK, ControlInv, CurrFollowsPrev, Linked, MemoryInv, ListIsExact, IsNextAfter,
       NoUndefined, AddInv, WalkOn
<1>5. AddInv' /\ LoadInv'
  <2>1. /\ \A i \in Linked : next[i] # Null => next[i] \in Linked
        /\ head # Null => head \in Linked
        /\ Linked' = Linked /\ curr \in Jobs \cup {Null} /\ Linked \subseteq Jobs
    BY DEF ListIsExact, IsNextAfter, NoUndefined, Linked, TypeOK, WalkOn
  <2>. QED  BY <2>1 DEF TypeOK, AddInv, LoadInv, CurrFollowsPrev, WalkOn
<1>6. ContextInv'
  BY DEF TypeOK, ContextInv, ControlInv, Linked, Harmless, WalkOn
<1>7. TurnInv'
  BY DEF TypeOK, TurnInv, Served, ControlInv, CurrFollowsPrev, Linked, WalkOn
<1>8. NoUndefined'
  BY DEF NoUndefined, WalkOn
<1>. QED  BY <1>1, <1>2, <1>3, <1>4, <1>5, <1>6, <1>7, <1>8 DEF Inv

\* scheduler_create(): a job is allocated that is not in the list yet.
LEMMA CreateInv ==
    ASSUME Inv, NEW w \in 0 .. MaxWork, scheduler_create(w)
    PROVE  Inv'
<1>. USE SchedulerAssumption DEF Jobs, Null, list, threads, locals, ghosts, Creating,
         Unlinking, Inv
<1>a. PICK j0 \in Nat : j0 = created + 1
  BY DEF TypeOK
<1>1. /\ j0 \in Jobs /\ mem[j0] = "none" /\ created' = j0 /\ j0 # Null
      /\ mem' = [mem EXCEPT ![j0] = "live"]
      /\ next' = [next EXCEPT ![j0] = Null]
      /\ status' = [status EXCEPT ![j0] = 0]
      /\ left' = [left EXCEPT ![j0] = w]
      /\ fresh' = [fresh EXCEPT ![curr] = j0]
      /\ overtaken' = [overtaken EXCEPT ![j0] = {}]
      /\ pc \in {"main", "run"} /\ sch = "live"
      /\ pc' = IF head = Null THEN "l58" ELSE "l62"
      /\ \A k \in Linked : k \in Jobs /\ k < j0
      /\ UNCHANGED <<sch, head, curr, prev, env, last, target, value>>
  BY <1>a DEF scheduler_create, TypeOK, MemoryInv, Linked
<1>2. Linked' = Linked /\ fresh'[curr] = j0
  BY <1>1 DEF Linked, TypeOK
<1>3. TypeOK'
  <2>1. overtaken' \in [Jobs -> SUBSET Jobs]
    BY <1>1 DEF TypeOK
  <2>. QED  BY <1>1, <2>1 DEF TypeOK, OwnStack, scheduler_create
<1>4. ListIsExact'
  BY <1>1, <1>2 DEF ListIsExact, IsNextAfter, NoUndefined, TypeOK
<1>5. MemoryInv'
  BY <1>a, <1>1 DEF MemoryInv, TypeOK
<1>6. ControlInv'
  BY <1>1 DEF ControlInv
<1>7. AddInv' /\ LoadInv'
  <2>1. curr = Null \/ (curr \in Linked' /\ CurrFollowsPrev')
    BY <1>1, <1>2 DEF ControlInv, CurrFollowsPrev, TypeOK
  <2>. QED  BY <1>1, <1>2, <2>1 DEF AddInv, LoadInv, TypeOK
<1>8. ContextInv'
  BY <1>1, <1>2 DEF ContextInv, TypeOK
<1>9. TurnInv'
  <2>1. Served' = Served
    BY <1>1 DEF Served
  <2>2. \A j \in Linked : overtaken'[j] = overtaken[j]
    BY <1>1 DEF TypeOK
  <2>. QED  BY <1>a, <1>1, <1>2, <2>1, <2>2 DEF TurnInv, TypeOK
<1>10. NoUndefined'
  BY <1>1 DEF NoUndefined
<1>. QED  BY <1>3, <1>4, <1>5, <1>6, <1>7, <1>8, <1>9, <1>10

\* What the job that scheduler_create() adds may change, besides the list.
LEMMA AddedInv ==
    ASSUME Inv, pc \in Creating, AddFirst \/ AddLast, ListIsExact',
           next' \in [Jobs -> Jobs \cup {Null}],
           Linked' = Linked \cup {created},
           head # Null => head' = head,
           curr # Null => head # Null,
           \A i \in Linked : next[i] # Null => next'[i] = next[i]
    PROVE  Inv'
<1>. USE SchedulerAssumption DEF Jobs, Null, list, threads, locals, ghosts, Creating,
         Unlinking, Inv
<1>1. /\ pc' = IF curr = Null THEN "main" ELSE "run"
      /\ fresh' = [fresh EXCEPT ![curr] = Null] /\ last' = [last EXCEPT ![curr] = Null]
      /\ UNCHANGED <<sch, curr, prev, threads, target, value, ghosts>>
      /\ ran' = TRUE
      /\ head' = head \/ head' = fresh[curr]
  BY DEF AddFirst, AddLast, CreateReturns, Caller
<1>2. /\ created \in Jobs /\ fresh[curr] = created /\ mem[created] = "live"
      /\ curr = Null \/ (curr \in Linked /\ CurrFollowsPrev)
  BY DEF AddInv
<1>3. TypeOK'
  BY <1>1, <1>2 DEF TypeOK, OwnStack
<1>4. MemoryInv'
  BY <1>1 DEF MemoryInv
<1>5. ControlInv'
  BY <1>1, <1>2 DEF ControlInv, CurrFollowsPrev
<1>6. AddInv' /\ LoadInv'
  BY <1>1 DEF AddInv, LoadInv
<1>7. ContextInv'
  <2>1. status[created] = 0
    BY DEF AddInv
  <2>2. \A j \in Linked : j # Null /\ (j = head => j = head')
    BY DEF Linked
  <2>. QED  BY <1>1, <1>2, <2>1, <2>2 DEF ContextInv
<1>8. TurnInv'
  <2>1. Served' = curr /\ Served = curr
    BY <1>1 DEF Served
  <2>2. overtaken[created] = {} /\ \A j \in Linked : created \notin overtaken[j]
    BY DEF AddInv, TurnInv
  <2>. QED  BY <1>1, <2>1, <2>2 DEF TurnInv, TypeOK
<1>9. NoUndefined'
  BY <1>1 DEF NoUndefined
<1>. QED  BY <1>3, <1>4, <1>5, <1>6, <1>7, <1>8, <1>9

\* The first job of an empty list.
LEMMA AddFirstInv ==
    ASSUME Inv, AddFirst
    PROVE  Inv'
<1>. USE SchedulerAssumption DEF Jobs, Null, list, threads, locals, ghosts, Creating, Inv
<1>1. /\ pc = "l58" /\ head = Null /\ created \in Jobs /\ mem[created] = "live"
      /\ head' = created /\ next[created] = Null /\ fresh[curr] = created
      /\ UNCHANGED <<curr, prev, next, mem>> /\ pc' \in {"main", "run"}
  BY DEF AddInv, AddFirst, CreateReturns, Caller
<1>2. Linked = {}
  BY <1>1 DEF ListIsExact, IsNextAfter, NoUndefined, Linked
<1>3. Linked' = {created}
  BY <1>1, <1>2 DEF Linked
<1>4. ListIsExact'
  BY <1>1, <1>3 DEF ListIsExact, IsNextAfter
<1>5. curr = Null
  BY <1>1, <1>2 DEF AddInv
<1>6. next' \in [Jobs -> Jobs \cup {Null}]
  BY <1>1 DEF TypeOK
<1>. QED  BY <1>1, <1>2, <1>3, <1>4, <1>5, <1>6, AddedInv

\* The job behind the last one.
LEMMA AddLastInv ==
    ASSUME Inv, AddLast
    PROVE  Inv'
<1>. USE SchedulerAssumption DEF Jobs, Null, list, threads, locals, ghosts, Creating, Inv
<1>a. PICK j0 \in Jobs, l0 \in Linked : j0 = created /\ l0 = last[curr]
  BY DEF AddInv, AddLast
<1>1. /\ pc = "l68" /\ head # Null /\ mem[j0] = "live"
      /\ fresh[curr] = j0 /\ next[j0] = Null /\ next[l0] = Null
      /\ next' = [next EXCEPT ![l0] = j0]
      /\ UNCHANGED <<head, curr, prev, mem, created>> /\ pc' \in {"main", "run"}
  BY <1>a DEF AddInv, AddLast, CreateReturns, Caller
<1>2. Linked' = Linked \cup {j0} /\ j0 \notin Linked
  BY <1>1 DEF Linked
<1>3. \A k \in Linked : k \in Jobs /\ k < j0
  BY <1>a, <1>2 DEF Linked, MemoryInv, TypeOK
<1>4. /\ IsNextAfter(Null, head)
      /\ \A i \in Linked : IsNextAfter(i, next[i])
  BY DEF ListIsExact, NoUndefined
<1>5. \A k \in Linked : k <= l0
  BY <1>1, <1>4 DEF IsNextAfter
<1>6. IsNextAfter(Null, head)'
  BY <1>1, <1>2, <1>3, <1>4 DEF IsNextAfter
<1>7. ASSUME NEW i \in Linked' PROVE IsNextAfter(i, next[i])'
  <2>1. CASE i = j0
    BY <1>1, <1>2, <1>3, <2>1 DEF IsNextAfter, TypeOK
  <2>2. CASE i = l0
    BY <1>1, <1>2, <1>3, <1>5, <2>2 DEF IsNextAfter, TypeOK
  <2>3. CASE i \in Linked \ {l0}
    <3>1. next'[i] = next[i] /\ next[i] # Null
      BY <1>1, <1>2, <1>3, <1>4, <1>5, <2>3 DEF IsNextAfter, TypeOK
    <3>. QED  BY <1>2, <1>3, <1>4, <2>3, <3>1 DEF IsNextAfter
  <2>. QED  BY <1>2, <2>1, <2>2, <2>3
<1>8. ListIsExact'
  BY <1>6, <1>7 DEF ListIsExact
<1>9. /\ next' \in [Jobs -> Jobs \cup {Null}]
      /\ \A i \in Linked : next[i] # Null => next'[i] = next[i]
  BY <1>1, <1>3 DEF TypeOK
<1>10. Linked' = Linked \cup {created}
  BY <1>a, <1>2
<1>. QED  BY <1>1, <1>8, <1>9, <1>10, AddedInv

\* The thread that is done leaves the list: what line 111 or 113 has loaded is
\* what is still there.
LEMMA UnlinkInv ==
    ASSUME Inv, StoreHead \/ StoreNext
    PROVE  Inv'
<1>. USE SchedulerAssumption DEF Jobs, Null, list, threads, locals, ghosts, Creating,
         Unlinking, Inv
<1>1. /\ pc \in {"l111s", "l113s"} /\ pc' = "l116" /\ curr' = curr /\ prev' = prev
      /\ curr \in Linked /\ CurrFollowsPrev /\ prev \in Linked \cup {Null}
      /\ Linked' = Linked \ {curr}
      /\ curr \in Jobs /\ left[curr] = 0 /\ mem[curr] = "live" /\ sch = "live"
      /\ UNCHANGED <<sch, threads, ghosts, fresh, last>>
  BY DEF StoreHead, StoreNext, ControlInv, CurrFollowsPrev, Linked
<1>b. \/ prev = Null /\ head' = next[curr] /\ next' = next
      \/ prev # Null /\ head' = head /\ next' = [next EXCEPT ![prev] = next[curr]]
  BY DEF StoreHead, StoreNext, NextAfterUnlink, LoadInv
<1>2. \A k \in Linked : k \in Int /\ k > 0
  BY DEF Linked
<1>3. /\ IsNextAfter(Null, head)
      /\ \A i \in Linked : IsNextAfter(i, next[i])
  BY DEF ListIsExact, NoUndefined
<1>4. /\ prev < curr
      /\ \A k \in Linked : k > prev => k >= curr
      /\ \A k \in Linked : k <= prev \/ k = curr \/ k > curr
  BY <1>1, <1>2, <1>3 DEF CurrFollowsPrev, IsNextAfter
<1>5. next[curr] \in Jobs \cup {Null}
  BY <1>1 DEF TypeOK
<1>6. TypeOK'
  <2>1. /\ target' = target \/ target' = [target EXCEPT ![curr] = Null]
        /\ value' = [value EXCEPT ![curr] = Null]
    BY DEF StoreHead, StoreNext
  <2>2. target' \in [Jobs -> Jobs \cup {Null}] /\ value' \in [Jobs -> Jobs \cup {Null}]
    <3>1. target \in [Jobs -> Jobs \cup {Null}] /\ value \in [Jobs -> Jobs \cup {Null}]
      BY DEF TypeOK
    <3>. QED  BY <2>1, <3>1
  <2>3. ran' = TRUE
    BY DEF StoreHead, StoreNext
  <2>4. ran' \in BOOLEAN
    BY <2>3
  <2>5. head' \in Jobs \cup {Null} /\ next' \in [Jobs -> Jobs \cup {Null}]
    <3>1. head \in Jobs \cup {Null} /\ next \in [Jobs -> Jobs \cup {Null}]
      BY DEF TypeOK
    <3>. QED  BY <1>b, <1>5, <3>1
  <2>. QED  BY <1>1, <2>2, <2>4, <2>5 DEF TypeOK, OwnStack
<1>7. ListIsExact'
  <2>1. ASSUME NEW i \in Linked \cup {Null}, NEW n, IsNextAfter(i, n), n # curr, i # curr
        PROVE  IsNextAfter(i, n)'
    BY <1>1, <1>2, <2>1 DEF IsNextAfter
  <2>2. ASSUME NEW n, n = next[curr] PROVE IsNextAfter(prev, n)'
    <3>1. IsNextAfter(curr, n)
      BY <1>1, <1>3, <2>2
    <3>2. \A k \in Linked' : k \in Linked /\ k # curr /\ (k > prev <=> k > curr)
      BY <1>1, <1>2, <1>4
    <3>3. \A k \in Linked' : k <= curr => k <= prev
      BY <1>1, <1>2, <1>4
    <3>4. n # Null => n \in Linked' /\ n > prev
      <4>1. n # Null => n \in Linked /\ n > curr
        BY <3>1 DEF IsNextAfter
      <4>2. prev \in Int /\ curr \in Int
        BY <1>1, <1>2
      <4>3. n # Null => n \in Int
        BY <1>2, <4>1
      <4>4. n # Null => n > prev /\ n # curr
        BY <1>4, <4>1, <4>2, <4>3
      <4>5. Linked' = Linked \ {curr}
        BY <1>1
      <4>. QED  BY <4>1, <4>4, <4>5
    <3>. QED  BY <1>1, <3>1, <3>2, <3>3, <3>4 DEF IsNextAfter
  <2>3. \A i \in Linked \ {prev, curr} : next[i] # curr
    BY <1>1, <1>2, <1>3, <1>4 DEF IsNextAfter
  <2>4. CASE prev = Null
    <3>1. head' = next[curr] /\ next' = next
      BY <1>b, <2>4
    <3>. QED  BY <1>1, <1>2, <1>3, <2>1, <2>2, <2>3, <2>4, <3>1 DEF ListIsExact
  <2>5. CASE prev # Null
    <3>1. head' = head /\ next' = [next EXCEPT ![prev] = next[curr]]
      BY <1>b, <2>5
    <3>2. head # curr
      BY <1>1, <1>2, <1>3, <1>4, <2>5 DEF IsNextAfter
    <3>3. IsNextAfter(Null, head)'
      BY <1>1, <1>2, <1>3, <2>1, <3>1, <3>2
    <3>4. ASSUME NEW i \in Linked' PROVE IsNextAfter(i, next[i])'
      <4>1. CASE i = prev
        BY <1>1, <2>2, <3>1, <4>1 DEF TypeOK, Linked
      <4>2. CASE i # prev
        <5>1. i \in Linked /\ i # curr /\ next'[i] = next[i]
          BY <1>1, <3>1, <4>2 DEF TypeOK, Linked
        <5>. QED  BY <1>3, <2>1, <2>3, <4>2, <5>1
      <4>. QED  BY <4>1, <4>2
    <3>. QED  BY <3>3, <3>4 DEF ListIsExact
  <2>. QED  BY <2>4, <2>5
<1>8. MemoryInv'
  BY <1>1 DEF MemoryInv
<1>9. ControlInv' /\ AddInv' /\ LoadInv'
  BY <1>1, <1>2, <1>4, <1>5 DEF ControlInv, AddInv, LoadInv, Linked
<1>10. ContextInv'
  <2>1. ASSUME NEW j \in Linked', j = head PROVE j = head'
    <3>1. head = curr => prev = Null
      BY <1>1, <1>2, <1>3, <1>4 DEF IsNextAfter
    <3>2. prev = Null => head = curr
      BY <1>1 DEF CurrFollowsPrev
    <3>. QED  BY <1>1, <1>b, <2>1, <3>1, <3>2
  <2>. QED  BY <1>1, <2>1 DEF ContextInv
<1>11. TurnInv'
  <2>1. Served = curr /\ Served' = prev
    BY <1>1 DEF Served
  <2>2. ASSUME NEW j \in Linked', NEW k \in Linked', k \in overtaken[j]
        PROVE  IF j <= prev THEN j < k /\ k <= prev ELSE k > j \/ k <= prev
    <3>1. IF j <= curr THEN j < k /\ k <= curr ELSE k > j \/ k <= curr
      BY <1>1, <2>1, <2>2 DEF TurnInv
    <3>. QED  BY <1>1, <1>2, <1>4, <3>1
  <2>. QED  BY <1>1, <2>1, <2>2 DEF TurnInv
<1>12. NoUndefined'
  BY <1>1 DEF NoUndefined
<1>. QED  BY <1>6, <1>7, <1>8, <1>9, <1>10, <1>11, <1>12
-----------------------------------------------------------------------------
\* The inductive invariant of scheduler_create() and scheduler_execute(): it
\* holds in every reachable state when SIGALRM strikes where it does no harm and
\* the stack that a thread is on when it is freed stays in the process.
THEOREM InvHolds ==
    ASSUME Alarms \subseteq Harmless, ~Trims
    PROVE  Spec => []Inv
<1>1. Init => Inv
  BY InitInv
<1>2. Inv /\ [Next]_vars => Inv'
  <2>. SUFFICES ASSUME Inv, [Next]_vars PROVE Inv'
    OBVIOUS
  <2>1. CASE scheduler_init
    BY <2>1, SchedulerInitInv
  <2>2. ASSUME NEW w \in 0 .. MaxWork, scheduler_create(w) PROVE Inv'
    BY <2>2, CreateInv
  <2>3. CASE AddFirst \/ WalkFromHead \/ WalkTest \/ WalkOn \/ AddLast
    BY <2>3, AddFirstInv, WalkFromHeadInv, WalkTestInv, WalkOnInv, AddLastInv
  <2>4. CASE Execute
    BY <2>4, ExecuteInv
  <2>5. CASE Pick \/ Return \/ Start \/ Resume
    BY <2>5, PickInv, ReturnInv, StartInv, ResumeInv
  <2>6. CASE Work \/ scheduler_yield \/ ToScheduler \/ ThreadReturns
    BY <2>6, WorkInv, YieldInv, ToSchedulerInv, ThreadReturnsInv
  <2>7. CASE TestPrev \/ LoadForHead \/ StoreHead \/ LoadForPrev \/ StoreNext
    BY <2>7, TestPrevInv, LoadForHeadInv, LoadForPrevInv, UnlinkInv
  <2>11. CASE FreeStack \/ FreeJob \/ StepBack
    BY <2>11, FreeStackInv, FreeJobInv, StepBackInv
  <2>8. CASE Derail
    BY <2>8, AlwaysSound DEF Derail
  <2>9. CASE interrupt_handler
    BY <2>9, InterruptInv
  <2>10. CASE UNCHANGED vars
    BY <2>10 DEF vars, list, threads, locals, ghosts, Inv, TypeOK, NoUndefined, ListIsExact,
                 IsNextAfter, Linked, MemoryInv, ControlInv, CurrFollowsPrev,
                 AddInv, LoadInv, ContextInv, TurnInv, Served
  <2>. QED  BY <2>1, <2>2, <2>3, <2>4, <2>5, <2>6, <2>7, <2>8, <2>9, <2>10, <2>11
            DEF Next, Step
<1>. QED  BY <1>1, <1>2, PTL DEF Spec

\* The list holds exactly the unfinished threads, in creation order, however the
\* threads yield, finish, create others and are interrupted where it does no harm.
THEOREM ListCorrect ==
    ASSUME Alarms \subseteq Harmless, ~Trims
    PROVE  Spec => []ListIsExact
BY InvHolds, PTL DEF Inv

\* Neither NULL nor freed memory is used, other than the stack of lines 116-119,
\* and no dead stack frame is entered, under the same alarms.
THEOREM NeverUndefined ==
    ASSUME Alarms \subseteq Harmless, ~Trims
    PROVE  Spec => []NoUndefined
BY InvHolds, PTL DEF Inv

\* What scheduler_execute() keeps in prev is the job to unlink from, when line 109
\* tests it, when line 113 reads it again and when the store is made.
THEOREM PrevCorrect ==
    ASSUME Alarms \subseteq Harmless, ~Trims
    PROVE  Spec => []PrevIsPredecessor
<1>1. Inv => PrevIsPredecessor
  BY DEF Inv, ControlInv, CurrFollowsPrev, LoadInv, PrevIsPredecessor, Unlinking
<1>. QED  BY <1>1, InvHolds, PTL

\* scheduler_execute() returns only when every thread has terminated, and has
\* then released the memory of all of them, threads created by threads included.
THEOREM ReturnCorrect ==
    ASSUME Alarms \subseteq Harmless, ~Trims
    PROVE  Spec => [](ReturnsAfterAll /\ NothingLeaked)
<1>1. Inv => ReturnsAfterAll /\ NothingLeaked
  <2>. SUFFICES ASSUME Inv, pc = "returned", NEW j \in 1 .. created
                PROVE  mem[j] = "freed" /\ left[j] = 0
    BY DEF ReturnsAfterAll, NothingLeaked
  <2>. QED  BY SchedulerAssumption DEF Inv, TypeOK, ControlInv, MemoryInv, Jobs
<1>. QED  BY <1>1, InvHolds, PTL

\* Round robin: a thread that is dispatched has not had the processor since any
\* other unfinished thread last had it.
THEOREM TurnsAreFair ==
    ASSUME Alarms \subseteq Harmless, ~Trims
    PROVE  Spec => NoOvertaking
<1>1. Inv => \A k \in Jobs : (pc = "dispatch" /\ curr = k) =>
                 \A j \in Linked \ {k} : k \notin overtaken[j]
  <2>. SUFFICES ASSUME Inv, pc = "dispatch", curr \in Jobs,
                       NEW j \in Linked \ {curr}
                PROVE  curr \notin overtaken[j]
    OBVIOUS
  <2>1. /\ curr \in Linked /\ prev < curr /\ Served = prev
        /\ \A i \in Linked : i > prev => i >= curr
    BY DEF Inv, ControlInv, CurrFollowsPrev, ListIsExact, IsNextAfter,
         NoUndefined,
           TypeOK, Linked, Served, Jobs, Null
  <2>2. j \in Int /\ curr \in Int /\ prev \in Int
    BY DEF Inv, TypeOK, Linked, Jobs, Null
  <2>. QED  BY <2>1, <2>2 DEF Inv, TurnInv
<1>2. Inv /\ [Next]_vars =>
        [ \A k \in Jobs : (pc = "dispatch" /\ pc' # "dispatch" /\ curr = k) =>
              \A j \in Linked \ {k} : k \notin overtaken[j] ]_vars
  BY <1>1
<1>. QED  BY <1>2, InvHolds, PTL DEF Spec, NoOvertaking

-----------------------------------------------------------------------------
(***************************************************************************)
(* SIGALRM anywhere.  The list may now keep a job that has been freed, and *)
(* the scheduler may stand at a job that is not in the list any more.      *)
(***************************************************************************)

\* curr has the processor, and a started job that has not has a context.
StackInv ==
    /\ pc \in OwnStack \ Creating => curr # Null
    /\ \A j \in Jobs :
         status[j] # 0 /\ mem[j] = "live" /\ ~(pc \in OwnStack /\ j = curr)
             => env[j] # "none" \/ pc = "undefined"

TypeInv == TypeOK /\ StackInv

(***************************************************************************)
(* If moreover main() creates all the threads, no thread is ever passed    *)
(* over: b is the number of jobs of earlier rounds, those of this one have *)
(* the numbers above.                                                      *)
(***************************************************************************)
Unfinished == {j \in Jobs : left[j] > 0}
Round(b)   == (b + 1) .. created

\* No thread of U lies between job i and job j, which a link leads to, and none
\* lies behind i if it leads nowhere.
Skips(U, i, j) ==
    /\ j # Null => j > i
    /\ \A k \in U : k > i => j # Null /\ j <= k

\* While main() creates the threads, the jobs of this round are in the list, one
\* after the other, up to the one that is being added.
Added == IF pc \in Creating THEN created - 1 ELSE created

Building(b) ==
    pc \in {"main"} \cup Creating =>
        /\ curr = Null /\ prev = Null /\ b <= Added
        /\ \A j \in Round(b) : status[j] = 0
        /\ head = IF Added = b THEN Null ELSE b + 1
        /\ \A i \in (b + 1) .. Added : next[i] = IF i = Added THEN Null ELSE i + 1
        /\ pc \in Creating => fresh[Null] = created /\ next[created] = Null
        /\ pc = "l58" => Added = b
        /\ pc \in {"l62", "l64", "l65", "l68"} => Added > b
        /\ pc \in {"l64", "l65", "l68"} => last[Null] \in (b + 1) .. Added
        /\ pc = "l65" => last[Null] < Added
        /\ pc = "l68" => last[Null] = Added

\* Once scheduler_execute() runs, no link passes over an unfinished thread.
Linking(b) ==
    pc \notin {"main", "undefined"} \cup Creating =>
        /\ {head, curr, prev} \subseteq Round(b) \cup {Null}
        /\ Skips(Unfinished, Null, head)
        /\ \A i \in Round(b) : next[i] \in Round(b) \cup {Null} /\ Skips(Unfinished, i, next[i])
        /\ pc = "returned" => curr = Null
        /\ pc \in {"dispatch", "returned"} /\ curr = Null => prev = Null
        /\ pc \in {"dispatch", "run"} \cup Unlinking => Skips(Unfinished, prev, curr)

At(j, places) == env[j] \in places \/ (pc \in places /\ j = curr)

\* What a thread knows that was interrupted while it left the list.
Leaving(b) ==
    \A j \in Round(b) :
        /\ At(j, Unlinking \cup {"l116", "l117"}) => left[j] = 0
        /\ At(j, {"l111", "l111s"}) => j = head
        /\ At(j, {"l111s", "l113s"}) =>
             value[j] \in Round(b) \cup {Null} /\ Skips(Unfinished, j, value[j])
        /\ At(j, {"l113s"}) => target[j] \in Round(b) \cup {Null} /\ Skips(Unfinished, target[j], j)

\* A context is used once, and a job of an earlier round has no work left.
ContextUse(b) ==
    /\ \A j \in Jobs : env[j] \notin Creating
    /\ \A j \in Jobs : status[j] = 0 => env[j] \in {"none", "stale"}
    /\ \A j \in Jobs : j > created => status[j] = 0 /\ env[j] = "none" /\ left[j] = 0
    /\ pc \in OwnStack \ Creating => status[curr] = 1 /\ env[curr] \in {"none", "used", "stale"}
    /\ pc = "l145" => curr # Null /\ (status[curr] = 0 => env[curr] = "stale")
    /\ pc \in {"dispatch", "run", "unlink"} /\ prev = Null => curr = head
    /\ Unfinished \subseteq Round(b)
    /\ pc = "returned" \/ sch # "live" => Unfinished = {}

RowInv ==
    /\ TypeInv
    /\ pc # "undefined" =>
         \E b \in 0 .. created :
             Building(b) /\ Linking(b) /\ Leaving(b) /\ ContextUse(b)
-----------------------------------------------------------------------------

\* No job exists.
LEMMA TypeInit == Init => TypeInv
<1>1. Init => TypeOK
  BY InitInv DEF Inv
<1>2. Init => StackInv
  <2>. SUFFICES ASSUME Init PROVE StackInv
    OBVIOUS
  <2>1. pc = "main" /\ \A j \in Jobs : status[j] = 0
    BY DEF Init
  <2>. QED  BY <2>1 DEF StackInv, OwnStack, Creating, Unlinking
<1>. QED  BY <1>1, <1>2 DEF TypeInv

\* Calls of main(), and of scheduler_create() by whomever.
LEMMA TypeCreating ==
    ASSUME TypeInv,
           scheduler_init \/ (\E w \in 0 .. MaxWork : scheduler_create(w)) \/ Execute
             \/ AddFirst \/ WalkFromHead \/ WalkTest \/ WalkOn \/ AddLast
    PROVE  TypeInv'
<1>. USE SchedulerAssumption DEF Jobs, Null, list, threads, locals, ghosts, Creating,
         Unlinking, OwnStack, TypeInv
<1>1. ASSUME NEW w \in 0 .. MaxWork, scheduler_create(w) PROVE TypeInv'
  <2>0. PICK j0 \in Jobs : j0 = created + 1
    BY <1>1 DEF scheduler_create, TypeOK
  <2>1. overtaken' \in [Jobs -> SUBSET Jobs]
    BY <1>1, <2>0 DEF TypeOK, scheduler_create
  <2>2. /\ mem' \in [Jobs -> {"none", "live", "freed"}] /\ status' \in [Jobs -> {0, 1}]
        /\ next' \in [Jobs -> Jobs \cup {Null}] /\ left' \in [Jobs -> Nat]
        /\ fresh' \in [Jobs \cup {Null} -> Jobs \cup {Null}] /\ created' \in 0 .. MaxJobs
    BY <1>1, <2>0 DEF TypeOK, scheduler_create
  <2>3. ran' = TRUE
    BY <1>1 DEF scheduler_create
  <2>4. TypeOK'
    BY <1>1, <2>1, <2>2, <2>3 DEF TypeOK, scheduler_create
  <2>5. StackInv'
    BY <1>1, <2>0 DEF TypeOK, StackInv, scheduler_create
  <2>. QED  BY <2>4, <2>5
<1>2. CASE scheduler_init
  BY <1>2 DEF TypeOK, StackInv, scheduler_init
<1>3. CASE Execute
  BY <1>3 DEF TypeOK, StackInv, Execute
<1>4. CASE AddFirst
  BY <1>4 DEF TypeOK, StackInv, AddFirst, CreateReturns, Caller
<1>5. CASE WalkFromHead
  BY <1>5 DEF TypeOK, StackInv, WalkFromHead
<1>6. CASE WalkTest
  BY <1>6 DEF TypeOK, StackInv, WalkTest
<1>7. CASE WalkOn
  <2>1. curr \in Jobs \cup {Null} /\ last[curr] \in Jobs
    BY <1>7 DEF TypeOK, WalkOn, Sound, Touched, Usable
  <2>2. last' \in [Jobs \cup {Null} -> Jobs \cup {Null}]
    BY <1>7, <2>1 DEF TypeOK, WalkOn
  <2>3. TypeOK'
    BY <1>7, <2>2 DEF TypeOK, WalkOn
  <2>4. StackInv'
    BY <1>7 DEF StackInv, WalkOn
  <2>. QED  BY <2>3, <2>4
<1>8. CASE AddLast
  <2>1. next' \in [Jobs -> Jobs \cup {Null}] /\ ran' = TRUE
    BY <1>8 DEF TypeOK, AddLast, CreateReturns
  <2>2. TypeOK'
    BY <1>8, <2>1 DEF TypeOK, AddLast, CreateReturns, Caller
  <2>3. StackInv'
    BY <1>8 DEF TypeOK, StackInv, AddLast, CreateReturns, Caller
  <2>. QED  BY <2>2, <2>3
<1>. QED  BY <1>1, <1>2, <1>3, <1>4, <1>5, <1>6, <1>7, <1>8

\* Calls of the scheduler, of threads, and of the handler.
LEMMA TypeExecuting ==
    ASSUME TypeInv,
           Pick \/ Return \/ Start \/ Resume \/ Work \/ scheduler_yield \/ ToScheduler
             \/ ThreadReturns \/ TestPrev \/ LoadForHead \/ StoreHead \/ LoadForPrev
             \/ StoreNext \/ FreeStack \/ FreeJob \/ StepBack \/ Derail
             \/ interrupt_handler
    PROVE  TypeInv'
<1>. USE SchedulerAssumption DEF Jobs, Null, list, threads, locals, ghosts, Creating,
         Unlinking, OwnStack, TypeInv
<1>1. CASE Pick
  BY <1>1 DEF TypeOK, StackInv, Pick, NextJob, PrevJob, IsLast
<1>2. CASE Return
  BY <1>2 DEF TypeOK, StackInv, Return
<1>3. CASE Start
  <2>1. overtaken' \in [Jobs -> SUBSET Jobs]
    BY <1>3 DEF TypeOK, Start, Switch
  <2>. QED  BY <1>3, <2>1 DEF TypeOK, StackInv, Start, Switch
<1>4. CASE Resume
  <2>1. overtaken' \in [Jobs -> SUBSET Jobs]
    BY <1>4 DEF TypeOK, Resume, Switch
  <2>2. /\ curr \in Jobs /\ env' = [env EXCEPT ![curr] = "used"] /\ env[curr] # "none"
        /\ pc' = "undefined" \/ (pc' = env[curr] /\ env[curr] \notin {"stale", "used"})
    BY <1>4 DEF TypeOK, StackInv, Resume, Sound, Touched, Usable
  <2>3. TypeOK'
    BY <1>4, <2>1, <2>2 DEF TypeOK, Resume, Switch
  <2>4. StackInv'
    BY <1>4, <2>2 DEF TypeOK, StackInv, Resume
  <2>. QED  BY <2>3, <2>4
<1>5. CASE Work
  <2>1. curr \in Jobs /\ left[curr] \in Nat /\ left[curr] > 0
    BY <1>5 DEF TypeOK, StackInv, Work
  <2>2. left' \in [Jobs -> Nat]
    BY <1>5, <2>1 DEF TypeOK, Work
  <2>. QED  BY <1>5, <2>1, <2>2 DEF TypeOK, StackInv, Work
<1>6. CASE scheduler_yield
  <2>1. curr \in Jobs /\ left[curr] \in Nat /\ left[curr] > 0
    BY <1>6 DEF TypeOK, StackInv, scheduler_yield
  <2>2. left' \in [Jobs -> Nat]
    BY <1>6, <2>1 DEF TypeOK, scheduler_yield
  <2>. QED  BY <1>6, <2>1, <2>2 DEF TypeOK, StackInv, scheduler_yield
<1>7. CASE ToScheduler
  BY <1>7 DEF TypeOK, StackInv, ToScheduler
<1>8. CASE ThreadReturns
  BY <1>8 DEF TypeOK, StackInv, ThreadReturns
<1>9. CASE TestPrev
  BY <1>9 DEF TypeOK, StackInv, TestPrev
<1>10. CASE LoadForHead
  <2>1. head \in Jobs
    BY <1>10 DEF TypeOK, LoadForHead, Sound, Touched, Usable
  <2>2. value' \in [Jobs -> Jobs \cup {Null}]
    BY <1>10, <2>1 DEF TypeOK, LoadForHead
  <2>. QED  BY <1>10, <2>2 DEF TypeOK, StackInv, LoadForHead
<1>11. CASE StoreHead
  BY <1>11 DEF TypeOK, StackInv, StoreHead
<1>12. CASE LoadForPrev
  BY <1>12 DEF TypeOK, StackInv, LoadForPrev
<1>13. CASE StoreNext
  BY <1>13 DEF TypeOK, StackInv, StoreNext, NextAfterUnlink
<1>14. CASE FreeStack
  BY <1>14 DEF TypeOK, StackInv, FreeStack
<1>15. CASE FreeJob
  BY <1>15 DEF TypeOK, StackInv, FreeJob
<1>16. CASE StepBack
  BY <1>16 DEF TypeOK, StackInv, StepBack
<1>17. CASE Derail
  BY <1>17 DEF TypeOK, StackInv, Derail
<1>18. CASE interrupt_handler
  <2>1. Saved(pc) \in OwnStack \cup {"l145", "stale"}
    BY DEF Saved
  <2>2. /\ UNCHANGED <<sch, head, curr, prev, next, mem, status, left, locals, ghosts, ran>>
        /\ \/ env' = [env EXCEPT ![curr] = Saved(pc)] /\ pc' = "l145" /\ curr # Null
           \/ env' = env /\ pc' = "undefined"
        /\ pc # "undefined"
    BY <1>18 DEF interrupt_handler, Usable
  <2>3. env' \in [Jobs -> OwnStack \cup {"none", "l145", "stale", "used"}]
    BY <2>1, <2>2 DEF TypeOK
  <2>4. TypeOK'
    BY <2>2, <2>3 DEF TypeOK
  <2>5. StackInv'
    BY <2>1, <2>2 DEF TypeOK, StackInv
  <2>. QED  BY <2>4, <2>5
<1>. QED  BY <1>1, <1>2, <1>3, <1>4, <1>5, <1>6, <1>7, <1>8, <1>9, <1>10, <1>11, <1>12,
             <1>13, <1>14, <1>15, <1>16, <1>17, <1>18

\* Every step keeps the types.
LEMMA TypeStep == TypeInv /\ [Next]_vars => TypeInv'
<1>1. TypeInv /\ UNCHANGED vars => TypeInv'
  BY DEF vars, list, threads, locals, ghosts, TypeInv, TypeOK, StackInv
<1>. QED  BY <1>1, TypeCreating, TypeExecuting DEF Next, Step

\* Every field of the scheduler and of the jobs, every local and every context keeps
\* its type, wherever SIGALRM strikes and whoever creates threads.
THEOREM TypeCorrect == Spec => []TypeOK
<1>1. TypeInv => TypeOK
  BY DEF TypeInv
<1>. QED  BY <1>1, TypeInit, TypeStep, PTL DEF Spec
-----------------------------------------------------------------------------

\* With fewer unfinished threads a link passes over fewer.
LEMMA SkipsFewer ==
    \A U, V, i, j : V \subseteq U /\ Skips(U, i, j) => Skips(V, i, j)
BY DEF Skips

\* What holds of a round whose jobs have the numbers above b.
RoundInv(b) == Building(b) /\ Linking(b) /\ Leaving(b) /\ ContextUse(b)

\* Two links in a row skip a job that is finished.
LEMMA SkipsChain ==
    ASSUME NEW U \in SUBSET Nat, NEW i \in Nat, NEW j \in Nat, NEW k \in Nat,
           Skips(U, i, j), Skips(U, j, k), j # Null, j \notin U
    PROVE  Skips(U, i, k)
BY DEF Skips, Null

\* No job exists.
LEMMA RowInit == Init => RowInv
<1>. SUFFICES ASSUME Init PROVE RowInv
  OBVIOUS
<1>1. TypeInv
  BY TypeInit
<1>2. Unfinished = {} /\ Round(0) = {}
  BY DEF Init, Unfinished, Round
<1>3. Building(0) /\ Linking(0) /\ Leaving(0)
  BY <1>2 DEF Init, Building, Linking, Leaving, Added, Creating, Null
<1>4. ContextUse(0)
  BY <1>2 DEF Init, ContextUse, OwnStack, Creating, Unlinking, Null
<1>5. 0 \in 0 .. created
  BY DEF Init
<1>. QED  BY <1>1, <1>3, <1>4, <1>5 DEF RowInv

\* scheduler_init(): a new round begins.
LEMMA RowSchedulerInit ==
    ASSUME TypeInv, NEW b \in 0 .. created, RoundInv(b), scheduler_init
    PROVE  RoundInv(created)'
<1>. USE SchedulerAssumption DEF Jobs, Null, list, threads, locals, ghosts, Creating,
         Unlinking, RoundInv
<1>1. /\ pc \in {"main", "returned"} /\ pc' = "main" /\ Unfinished = {}
      /\ curr = Null /\ prev = Null /\ head' = Null /\ sch' = "live"
      /\ UNCHANGED <<curr, prev, next, threads, locals, created>>
  BY DEF scheduler_init, ContextUse, Building, Linking
<1>2. Unfinished' = {} /\ Round(created)' = {} /\ Added' = created /\ created \in Nat
  BY <1>1 DEF Unfinished, Round, Added, TypeInv, TypeOK
<1>3. Building(created)' /\ Linking(created)'
  BY <1>1, <1>2 DEF Building, Linking
<1>4. Leaving(created)'
  BY <1>2 DEF Leaving
<1>5. ContextUse(created)'
  BY <1>1, <1>2 DEF ContextUse, OwnStack
<1>. QED  BY <1>3, <1>4, <1>5

\* scheduler_create() allocates a job.
LEMMA RowCreate ==
    ASSUME TypeInv, NEW b \in 0 .. created, RoundInv(b), Creators \subseteq {"main"},
           NEW w \in 0 .. MaxWork, scheduler_create(w)
    PROVE  b \in 0 .. created' /\ Building(b)' /\ ContextUse(b)'
<1>. USE SchedulerAssumption DEF Jobs, Null, list, threads, locals, ghosts, Creating,
         Unlinking, RoundInv
<1>0. PICK j0 \in Jobs : j0 = created + 1
  BY DEF scheduler_create, TypeInv, TypeOK
<1>1. /\ pc = "main" /\ sch = "live" /\ curr = Null /\ prev = Null /\ created' = j0
      /\ pc' = IF head = Null THEN "l58" ELSE "l62"
      /\ next' = [next EXCEPT ![j0] = Null] /\ fresh' = [fresh EXCEPT ![Null] = j0]
      /\ status' = [status EXCEPT ![j0] = 0] /\ left' = [left EXCEPT ![j0] = w]
      /\ UNCHANGED <<sch, head, curr, prev, env>>
  BY <1>0 DEF scheduler_create, Building
<1>2. b \in Nat /\ created \in Nat /\ b <= created
  BY DEF TypeInv, TypeOK
<1>3. Added = created /\ Added' = created
  BY <1>0, <1>1, <1>2 DEF Added
<1>4. Building(b)'
  <2>1. \A j \in Round(b)' : status'[j] = 0
    BY <1>0, <1>1, <1>2 DEF Building, Round, TypeInv, TypeOK
  <2>2. \A i \in (b + 1) .. created : next'[i] = next[i] /\ i \in Jobs
    BY <1>0, <1>1, <1>2 DEF TypeInv, TypeOK
  <2>3. fresh'[Null] = j0 /\ next'[j0] = Null
    BY <1>0, <1>1 DEF TypeInv, TypeOK
  <2>4. head = Null <=> created = b
    BY <1>1, <1>2, <1>3 DEF Building
  <2>5. \A i \in (b + 1) .. created : next'[i] = IF i = created THEN Null ELSE i + 1
    BY <1>1, <1>3, <2>2 DEF Building
  <2>6. head' = IF created = b THEN Null ELSE b + 1
    BY <1>1, <1>3 DEF Building
  <2>. QED  BY <1>1, <1>2, <1>3, <2>1, <2>3, <2>4, <2>5, <2>6 DEF Building
<1>5. Unfinished' \subseteq Round(b)'
  <2>1. Unfinished \subseteq Round(b)
    BY DEF ContextUse
  <2>2. Unfinished' \subseteq Unfinished \cup {j0}
    BY <1>0, <1>1 DEF Unfinished, TypeInv, TypeOK
  <2>3. Round(b)' = Round(b) \cup {j0}
    BY <1>0, <1>1, <1>2 DEF Round
  <2>. QED  BY <2>1, <2>2, <2>3
<1>6. ContextUse(b)'
  <2>1. env[j0] = "none"
    BY <1>0, <1>2 DEF ContextUse
  <2>2. \A j \in Jobs : j # j0 => status'[j] = status[j] /\ left'[j] = left[j]
    BY <1>1 DEF TypeInv, TypeOK
  <2>3. status'[j0] = 0
    BY <1>1 DEF TypeInv, TypeOK
  <2>4. \A j \in Jobs : j > created' => j > created /\ j # j0
    BY <1>0, <1>1, <1>2
  <2>5. pc' \in Creating /\ sch' = "live"
    BY <1>1
  <2>. QED  BY <1>1, <1>5, <2>1, <2>2, <2>3, <2>4, <2>5 DEF ContextUse, OwnStack
<1>. QED  BY <1>0, <1>1, <1>2, <1>4, <1>6

\* The walk of scheduler_create(), and the link at its end.
LEMMA RowWalk ==
    ASSUME TypeInv, NEW b \in 0 .. created, RoundInv(b), Creators \subseteq {"main"},
           AddFirst \/ WalkFromHead \/ WalkTest \/ WalkOn \/ AddLast
    PROVE  Building(b)' /\ ContextUse(b)' /\ created' = created
<1>. USE SchedulerAssumption DEF Jobs, Null, list, threads, locals, ghosts, Creating,
         Unlinking, RoundInv
<1>1. /\ pc \in Creating /\ pc' \in {"main"} \cup Creating
      /\ UNCHANGED <<sch, curr, prev, threads, created>> /\ curr = Null /\ prev = Null
  BY DEF AddFirst, WalkFromHead, WalkTest, WalkOn, AddLast, CreateReturns, Caller, Building
<1>2. b \in Nat /\ created \in Nat /\ created <= MaxJobs /\ Added = created - 1 /\ b <= Added
  BY <1>1 DEF TypeInv, TypeOK, Building, Added
<1>3. Round(b)' = Round(b) /\ Unfinished' = Unfinished
  BY <1>1 DEF Round, Unfinished
<1>4. ContextUse(b)'
  BY <1>1, <1>3 DEF ContextUse, OwnStack
<1>5. Building(b)'
  <2>1. \A j \in Round(b)' : status'[j] = 0
    BY <1>1, <1>3 DEF Building
  <2>2. CASE AddFirst
    <3>1. /\ pc' = "main" /\ head' = created /\ next' = next /\ Added = b /\ next[created] = Null
      BY <1>1, <2>2 DEF AddFirst, CreateReturns, Caller, Building
    <3>2. Added' = created /\ created = b + 1
      BY <1>1, <1>2, <3>1 DEF Added
    <3>. QED  BY <1>1, <1>2, <2>1, <3>1, <3>2 DEF Building
  <2>3. CASE WalkFromHead \/ WalkTest \/ WalkOn
    <3>1. /\ pc \in Creating /\ pc' \in {"l64", "l65", "l68"} /\ UNCHANGED <<head, next, fresh>>
          /\ Added > b
      BY <1>1, <2>3 DEF WalkFromHead, WalkTest, WalkOn, Building
    <3>2. Added' = Added
      BY <1>1, <3>1 DEF Added
    <3>3. \A i \in (b + 1) .. Added : next[i] = IF i = Added THEN Null ELSE i + 1
      BY <1>1 DEF Building
    <3>4. /\ last'[Null] \in (b + 1) .. Added
          /\ pc' = "l65" => last'[Null] < Added
          /\ pc' = "l68" => last'[Null] = Added
      <4>1. CASE WalkFromHead
        <5>1. last'[Null] = head /\ head = b + 1 /\ pc' = "l64"
          BY <1>1, <1>2, <3>1, <4>1 DEF WalkFromHead, Building, TypeInv, TypeOK
        <5>. QED  BY <1>2, <3>1, <5>1
      <4>2. CASE WalkTest
        <5>1. last[Null] \in (b + 1) .. Added /\ last' = last
          BY <1>1, <4>2 DEF WalkTest, Building
        <5>2. pc' = IF next[last[Null]] = Null THEN "l68" ELSE "l65"
          BY <1>1, <4>2 DEF WalkTest
        <5>. QED  BY <1>2, <3>3, <5>1, <5>2
      <4>3. CASE WalkOn
        <5>1. last[Null] \in (b + 1) .. Added /\ last[Null] < Added
          BY <1>1, <4>3 DEF WalkOn, Building
        <5>2. last'[Null] = next[last[Null]] /\ pc' = "l64"
          BY <1>1, <4>3 DEF WalkOn, TypeInv, TypeOK
        <5>. QED  BY <1>2, <3>3, <5>1, <5>2
      <4>. QED  BY <2>3, <4>1, <4>2, <4>3
    <3>5. head' = IF Added = b THEN Null ELSE b + 1
      BY <1>1, <3>1 DEF Building
    <3>6. fresh'[Null] = created /\ next'[created] = Null
      BY <1>1, <3>1 DEF Building
    <3>. QED  BY <1>1, <1>2, <2>1, <3>1, <3>2, <3>3, <3>4, <3>5, <3>6 DEF Building
  <2>4. CASE AddLast
    <3>1. pc = "l68" /\ pc' = "main" /\ head' = head
          /\ next' = [next EXCEPT ![last[Null]] = fresh[Null]]
      BY <1>1, <2>4 DEF AddLast, CreateReturns, Caller
    <3>2. last[Null] = Added /\ fresh[Null] = created /\ next[created] = Null /\ Added > b
      BY <1>1, <3>1 DEF Building
    <3>3. head = b + 1 /\ Added' = created
      BY <1>1, <1>2, <3>1, <3>2 DEF Added, Building
    <3>4. Added \in Jobs /\ next \in [Jobs -> Jobs \cup {Null}]
      BY <1>2, <3>2 DEF TypeInv, TypeOK
    <3>5. \A i \in (b + 1) .. created : next'[i] = IF i = created THEN Null ELSE i + 1
      <4>1. \A i \in (b + 1) .. Added : next[i] = IF i = Added THEN Null ELSE i + 1
        BY <1>1 DEF Building
      <4>2. ASSUME NEW i \in (b + 1) .. created
            PROVE  next'[i] = IF i = created THEN Null ELSE i + 1
        <5>1. i \in Jobs /\ (i = Added \/ i = created \/ (i < Added /\ i \in (b + 1) .. Added))
          BY <1>2
        <5>2. i # Added => next'[i] = next[i]
          BY <3>1, <3>2, <3>4, <5>1
        <5>3. next'[Added] = created
          BY <3>1, <3>2, <3>4
        <5>. QED  BY <1>2, <3>2, <4>1, <5>1, <5>2, <5>3
      <4>. QED  BY <4>2
    <3>. QED  BY <1>1, <1>2, <2>1, <3>1, <3>2, <3>3, <3>5 DEF Building
  <2>. QED  BY <2>2, <2>3, <2>4
<1>. QED  BY <1>1, <1>4, <1>5

\* During these steps the rest of what holds of a round holds too.
LEMMA RowBuilding ==
    ASSUME TypeInv', NEW b \in 0 .. created', Building(b)', ContextUse(b)',
           pc' \in {"main"} \cup Creating
    PROVE  RoundInv(b)'
<1>. USE DEF Jobs, Null, Creating, Unlinking
<1>1. Linking(b)'
  BY DEF Linking
<1>2. \A j \in Round(b)' : j \in Jobs
  BY SchedulerAssumption DEF Round, TypeInv, TypeOK
<1>3. Leaving(b)'
  <2>1. \A j \in Round(b)' : env'[j] \in {"none", "stale"}
    BY <1>2 DEF Building, ContextUse
  <2>. QED  BY <2>1 DEF Leaving, At
<1>. QED  BY <1>1, <1>3 DEF RoundInv

\* scheduler_execute() finds the jobs of the round one after the other.
LEMMA RowExecute ==
    ASSUME TypeInv, NEW b \in 0 .. created, RoundInv(b), Execute
    PROVE  RoundInv(b)' /\ created' = created
<1>. USE SchedulerAssumption DEF Jobs, Null, list, threads, locals, ghosts, Creating,
         Unlinking, RoundInv
<1>1. /\ pc = "main" /\ pc' = "pick" /\ curr = Null /\ prev = Null /\ Added = created
      /\ UNCHANGED <<sch, list, threads, locals, created>>
  BY DEF Execute, Building, Added
<1>2. b \in Nat /\ created \in Nat
  BY DEF TypeInv, TypeOK
<1>3. Round(b)' = Round(b) /\ Unfinished' = Unfinished /\ Unfinished \subseteq Round(b)
  BY <1>1 DEF Round, Unfinished, ContextUse
<1>4. /\ head = IF created = b THEN Null ELSE b + 1
      /\ \A i \in Round(b) : next[i] = IF i = created THEN Null ELSE i + 1
  BY <1>1 DEF Building, Round
<1>5. \A k \in Unfinished : k \in Nat /\ b < k /\ k <= created
  BY <1>2, <1>3 DEF Round
<1>6. Linking(b)'
  <2>1. Skips(Unfinished, Null, head)
    BY <1>2, <1>4, <1>5 DEF Skips
  <2>2. \A i \in Round(b) : next[i] \in Round(b) \cup {Null} /\ Skips(Unfinished, i, next[i])
    BY <1>2, <1>4, <1>5 DEF Skips, Round
  <2>3. head \in Round(b) \cup {Null}
    BY <1>2, <1>4 DEF Round, Building
  <2>. QED  BY <1>1, <1>3, <2>1, <2>2, <2>3 DEF Linking
<1>7. Leaving(b)'
  <2>1. \A j \in Round(b) : env[j] \in {"none", "stale"}
    <3>1. \A j \in Round(b) : j \in Jobs
      BY DEF Round, TypeInv, TypeOK
    <3>. QED  BY <1>1, <3>1 DEF Building, ContextUse
  <2>. QED  BY <1>1, <1>3, <2>1 DEF Leaving, At
<1>8. Building(b)' /\ ContextUse(b)'
  BY <1>1, <1>3 DEF Building, ContextUse, OwnStack
<1>. QED  BY <1>1, <1>6, <1>7, <1>8

\* The next job in the list is the next one in creation order that can be one.
LEMMA RowPick ==
    ASSUME TypeInv, TypeInv', NEW b \in 0 .. created, RoundInv(b), Pick, pc' # "undefined"
    PROVE  RoundInv(b)' /\ created' = created
<1>. USE SchedulerAssumption DEF Jobs, Null, list, threads, locals, ghosts, Creating,
         Unlinking, OwnStack, RoundInv
<1>1. created' = created /\ Round(b)' = Round(b) /\ Unfinished' = Unfinished
  BY DEF Pick, NextJob, PrevJob, IsLast, Round, Unfinished
<1>2. /\ pc = "pick" /\ pc' = "dispatch" /\ curr' = NextJob /\ prev' = PrevJob
      /\ UNCHANGED <<sch, head, next, threads, locals>>
  BY DEF Pick
<1>3. Building(b)'
  BY <1>1, <1>2 DEF Pick, NextJob, PrevJob, IsLast, Building, ContextUse, TypeInv, TypeOK
<1>4. Linking(b)'
  <2>1. CASE IsLast
    <3>1. curr' = head /\ prev' = Null
      BY <1>2, <2>1 DEF NextJob, PrevJob
    <3>. QED  BY <1>1, <1>2, <3>1 DEF Linking
  <2>2. CASE ~IsLast
    <3>1. curr' = next[curr] /\ prev' = curr /\ curr \in Round(b) /\ next[curr] # Null
      BY <1>2, <2>2 DEF NextJob, PrevJob, IsLast, Linking
    <3>. QED  BY <1>1, <1>2, <3>1 DEF Linking
  <2>. QED  BY <2>1, <2>2
<1>5. Leaving(b)'
  BY <1>1, <1>2 DEF Pick, NextJob, PrevJob, IsLast, Leaving, At, Linking, ContextUse, TypeInv, TypeOK, Round
<1>6. ContextUse(b)'
  BY <1>1, <1>2 DEF Pick, NextJob, PrevJob, IsLast, ContextUse, Linking, TypeInv, TypeOK
<1>. QED  BY <1>1, <1>3, <1>4, <1>5, <1>6

\* scheduler_execute() returns when the list is empty.
LEMMA RowReturn ==
    ASSUME TypeInv, TypeInv', NEW b \in 0 .. created, RoundInv(b), Return, pc' # "undefined"
    PROVE  RoundInv(b)' /\ created' = created
<1>. USE SchedulerAssumption DEF Jobs, Null, list, threads, locals, ghosts, Creating,
         Unlinking, OwnStack, RoundInv
<1>1. created' = created /\ Round(b)' = Round(b) /\ Unfinished' = Unfinished
  BY DEF Return, Round, Unfinished
<1>3. Building(b)'
  BY <1>1 DEF Return, Building, ContextUse, TypeInv, TypeOK
<1>4. Linking(b)'
  BY <1>1 DEF Return, Linking, ContextUse, TypeInv, TypeOK
<1>5. Leaving(b)'
  BY <1>1 DEF Return, Leaving, At, Linking, ContextUse, TypeInv, TypeOK, Round
<1>6. ContextUse(b)'
  <2>1. /\ pc = "dispatch" /\ pc' = "returned" /\ curr = Null /\ prev = Null
        /\ UNCHANGED <<head, curr, prev, next, threads, locals, created>>
    BY DEF Return, Linking
  <2>2. Unfinished = {}
    <3>1. \A k \in Unfinished : k \in Nat /\ k > 0
      BY DEF Unfinished
    <3>. QED  BY <2>1, <3>1 DEF Linking, Skips
  <2>. QED  BY <1>1, <2>1, <2>2 DEF ContextUse
<1>. QED  BY <1>1, <1>3, <1>4, <1>5, <1>6

\* A thread starts.
LEMMA RowStart ==
    ASSUME TypeInv, TypeInv', NEW b \in 0 .. created, RoundInv(b), Start, pc' # "undefined"
    PROVE  RoundInv(b)' /\ created' = created
<1>. USE SchedulerAssumption DEF Jobs, Null, list, threads, locals, ghosts, Creating,
         Unlinking, OwnStack, RoundInv
<1>1. created' = created /\ Round(b)' = Round(b) /\ Unfinished' = Unfinished
  BY DEF Start, Switch, Round, Unfinished
<1>3. Building(b)'
  BY <1>1 DEF Start, Switch, Building, ContextUse, TypeInv, TypeOK
<1>4. Linking(b)'
  BY <1>1 DEF Start, Switch, Linking, ContextUse, TypeInv, TypeOK
<1>5. Leaving(b)'
  BY <1>1 DEF Start, Switch, Leaving, At, Linking, ContextUse, TypeInv, TypeOK, Round
<1>6. ContextUse(b)'
  <2>1. /\ pc = "dispatch" /\ pc' = "run" /\ curr \in Jobs /\ status[curr] = 0
        /\ status' = [status EXCEPT ![curr] = 1]
        /\ UNCHANGED <<sch, list, env, left, created>>
    BY DEF Start, TypeInv, TypeOK
  <2>2. status'[curr] = 1 /\ \A j \in Jobs : status'[j] = 0 => status[j] = 0
    BY <2>1 DEF TypeInv, TypeOK
  <2>3. curr <= created /\ env[curr] \in {"none", "stale"}
    <3>1. curr \in Round(b) /\ created \in Nat /\ b \in Nat
      BY <2>1 DEF Linking, TypeInv, TypeOK
    <3>. QED  BY <2>1, <3>1 DEF Round, ContextUse
  <2>4. \A j \in Jobs : j > created' => status'[j] = 0 /\ env'[j] = "none" /\ left'[j] = 0
    <3>1. \A j \in Jobs : j > created => j # curr
      BY <2>1, <2>3 DEF TypeInv, TypeOK
    <3>. QED  BY <2>1, <3>1 DEF ContextUse, TypeInv, TypeOK
  <2>. QED  BY <1>1, <2>1, <2>2, <2>3, <2>4 DEF ContextUse
<1>. QED  BY <1>1, <1>3, <1>4, <1>5, <1>6

\* A thread goes on where it was.
LEMMA RowResume ==
    ASSUME TypeInv, TypeInv', NEW b \in 0 .. created, RoundInv(b), Resume, pc' # "undefined"
    PROVE  RoundInv(b)' /\ created' = created
<1>. USE SchedulerAssumption DEF Jobs, Null, list, threads, locals, ghosts, Creating,
         Unlinking, OwnStack, RoundInv
<1>1. created' = created /\ Round(b)' = Round(b) /\ Unfinished' = Unfinished
  BY DEF Resume, Round, Unfinished
<1>2. /\ pc = "dispatch" /\ pc' = env[curr] /\ curr \in Jobs /\ status[curr] = 1
      /\ pc' \in {"l145"} \cup (OwnStack \ Creating)
      /\ env' = [env EXCEPT ![curr] = "used"] /\ env'[curr] = "used"
      /\ UNCHANGED <<sch, list, mem, status, left, locals>>
  <2>1. pc = "dispatch" /\ curr \in Jobs /\ status[curr] # 0 /\ pc' = env[curr]
    BY DEF Resume, TypeInv, TypeOK
  <2>2. env[curr] \notin {"stale", "used", "none"} \cup Creating
    BY <2>1 DEF Resume, ContextUse, StackInv, TypeInv, Sound, Touched, Usable
  <2>. QED  BY <2>1, <2>2 DEF Resume, TypeInv, TypeOK
<1>3. Building(b)'
  BY <1>1 DEF Resume, Switch, Building, ContextUse, TypeInv, TypeOK
<1>4. Linking(b)'
  BY <1>1, <1>2 DEF Linking
<1>5. Leaving(b)'
  BY <1>1 DEF Resume, Switch, Leaving, At, Linking, ContextUse, TypeInv, TypeOK, Round
<1>6. ContextUse(b)'
  <2>1. \A j \in Jobs : env'[j] = IF j = curr THEN "used" ELSE env[j]
    BY <1>2 DEF TypeInv, TypeOK
  <2>2. curr <= created
    <3>1. curr \in Round(b) /\ created \in Nat /\ b \in Nat
      BY <1>2 DEF Linking, TypeInv, TypeOK
    <3>. QED  BY <3>1 DEF Round
  <2>3. \A j \in Jobs : j > created' => status'[j] = 0 /\ env'[j] = "none" /\ left'[j] = 0
    <3>1. \A j \in Jobs : j > created => j # curr
      BY <1>2, <2>2 DEF TypeInv, TypeOK
    <3>. QED  BY <1>1, <1>2, <2>1, <3>1 DEF ContextUse
  <2>4. \A j \in Jobs : env'[j] \notin Creating /\ (status'[j] = 0 => env'[j] \in {"none", "stale"})
    BY <1>2, <2>1 DEF ContextUse
  <2>5. prev' = Null => curr' = head'
    BY <1>2 DEF ContextUse
  <2>6. sch' # "live" \/ pc' = "returned" => Unfinished' = {}
    BY <1>1, <1>2 DEF ContextUse
  <2>. QED  BY <1>1, <1>2, <2>1, <2>3, <2>4, <2>5, <2>6 DEF ContextUse
<1>. QED  BY <1>1, <1>3, <1>4, <1>5, <1>6

\* A thread makes a step.
LEMMA RowWork ==
    ASSUME TypeInv, TypeInv', NEW b \in 0 .. created, RoundInv(b), Work, pc' # "undefined"
    PROVE  RoundInv(b)' /\ created' = created
<1>. USE SchedulerAssumption DEF Jobs, Null, list, threads, locals, ghosts, Creating,
         Unlinking, OwnStack, RoundInv
<1>0. left[curr] \in Nat /\ curr \in Jobs /\ left[curr] > 0 /\ left' = [left EXCEPT ![curr] = @ - 1]
  BY DEF Work, TypeInv, TypeOK, StackInv
<1>1. created' = created /\ Round(b)' = Round(b) /\ Unfinished' \subseteq Unfinished
  BY <1>0 DEF Work, Round, Unfinished, TypeInv, TypeOK
<1>3. Building(b)'
  BY <1>1 DEF Work, Building, ContextUse, TypeInv, TypeOK
<1>4. Linking(b)'
  BY <1>1, <1>0, SkipsFewer DEF Work, Linking, ContextUse, TypeInv, TypeOK
<1>5. Leaving(b)'
  <2>1. /\ pc = "run" /\ pc' \in {"run", "l145"} /\ curr' = curr /\ head' = head
        /\ value' = value /\ target' = target
        /\ \A j \in Jobs : env'[j] = env[j] \/ env'[j] = "run"
    BY DEF Work, TypeInv, TypeOK
  <2>2. \A j \in Round(b) : left[j] = 0 => left'[j] = 0
    BY <1>0 DEF TypeInv, TypeOK, Round
  <2>3. \A j \in Round(b), P \in SUBSET (Unlinking \cup {"l116", "l117"}) :
           At(j, P)' => At(j, P)
    <3>1. \A P \in SUBSET (Unlinking \cup {"l116", "l117"}) : "run" \notin P /\ "l145" \notin P
      OBVIOUS
    <3>2. \A j \in Round(b) : j \in Jobs
      BY DEF Round, TypeInv, TypeOK
    <3>. QED  BY <2>1, <3>1, <3>2 DEF At
  <2>. QED  BY <1>1, <2>1, <2>2, <2>3, SkipsFewer DEF Leaving
<1>6. ContextUse(b)'
  BY <1>1, <1>0 DEF Work, ContextUse, Linking, TypeInv, TypeOK
<1>. QED  BY <1>1, <1>3, <1>4, <1>5, <1>6

\* A thread saves its context.
LEMMA RowYield ==
    ASSUME TypeInv, TypeInv', NEW b \in 0 .. created, RoundInv(b), scheduler_yield, pc' # "undefined"
    PROVE  RoundInv(b)' /\ created' = created
<1>. USE SchedulerAssumption DEF Jobs, Null, list, threads, locals, ghosts, Creating,
         Unlinking, OwnStack, RoundInv
<1>0. left[curr] \in Nat /\ curr \in Jobs /\ left[curr] > 0 /\ left' = [left EXCEPT ![curr] = @ - 1]
  BY DEF scheduler_yield, TypeInv, TypeOK, StackInv
<1>1. created' = created /\ Round(b)' = Round(b) /\ Unfinished' \subseteq Unfinished
  BY <1>0 DEF scheduler_yield, Round, Unfinished, TypeInv, TypeOK
<1>3. Building(b)'
  BY <1>1 DEF scheduler_yield, Building, ContextUse, TypeInv, TypeOK
<1>4. Linking(b)'
  BY <1>1, <1>0, SkipsFewer DEF scheduler_yield, Linking, ContextUse, TypeInv, TypeOK
<1>5. Leaving(b)'
  <2>1. /\ pc = "run" /\ pc' \in {"run", "l145"} /\ curr' = curr /\ head' = head
        /\ value' = value /\ target' = target
        /\ \A j \in Jobs : env'[j] = env[j] \/ env'[j] = "run"
    BY DEF scheduler_yield, TypeInv, TypeOK
  <2>2. \A j \in Round(b) : left[j] = 0 => left'[j] = 0
    BY <1>0 DEF TypeInv, TypeOK, Round
  <2>3. \A j \in Round(b), P \in SUBSET (Unlinking \cup {"l116", "l117"}) :
           At(j, P)' => At(j, P)
    <3>1. \A P \in SUBSET (Unlinking \cup {"l116", "l117"}) : "run" \notin P /\ "l145" \notin P
      OBVIOUS
    <3>2. \A j \in Round(b) : j \in Jobs
      BY DEF Round, TypeInv, TypeOK
    <3>. QED  BY <2>1, <3>1, <3>2 DEF At
  <2>. QED  BY <1>1, <2>1, <2>2, <2>3, SkipsFewer DEF Leaving
<1>6. ContextUse(b)'
  BY <1>1, <1>0 DEF scheduler_yield, ContextUse, Linking, TypeInv, TypeOK
<1>. QED  BY <1>1, <1>3, <1>4, <1>5, <1>6

\* The scheduler goes on.
LEMMA RowToScheduler ==
    ASSUME TypeInv, TypeInv', NEW b \in 0 .. created, RoundInv(b), ToScheduler, pc' # "undefined"
    PROVE  RoundInv(b)' /\ created' = created
<1>. USE SchedulerAssumption DEF Jobs, Null, list, threads, locals, ghosts, Creating,
         Unlinking, OwnStack, RoundInv
<1>1. created' = created /\ Round(b)' = Round(b) /\ Unfinished' = Unfinished
  BY DEF ToScheduler, Round, Unfinished
<1>3. Building(b)'
  BY <1>1 DEF ToScheduler, Building, ContextUse, TypeInv, TypeOK
<1>4. Linking(b)'
  BY <1>1 DEF ToScheduler, Linking, ContextUse, TypeInv, TypeOK
<1>5. Leaving(b)'
  BY <1>1 DEF ToScheduler, Leaving, At, Linking, ContextUse, TypeInv, TypeOK, Round
<1>6. ContextUse(b)'
  BY <1>1 DEF ToScheduler, ContextUse, Linking, TypeInv, TypeOK
<1>. QED  BY <1>1, <1>3, <1>4, <1>5, <1>6

\* A thread has no work left.
LEMMA RowThreadReturns ==
    ASSUME TypeInv, TypeInv', NEW b \in 0 .. created, RoundInv(b), ThreadReturns, pc' # "undefined"
    PROVE  RoundInv(b)' /\ created' = created
<1>. USE SchedulerAssumption DEF Jobs, Null, list, threads, locals, ghosts, Creating,
         Unlinking, OwnStack, RoundInv
<1>1. created' = created /\ Round(b)' = Round(b) /\ Unfinished' = Unfinished
  BY DEF ThreadReturns, Round, Unfinished
<1>3. Building(b)'
  BY <1>1 DEF ThreadReturns, Building, ContextUse, TypeInv, TypeOK
<1>4. Linking(b)'
  BY <1>1 DEF ThreadReturns, Linking, ContextUse, TypeInv, TypeOK
<1>5. Leaving(b)'
  BY <1>1 DEF ThreadReturns, Leaving, At, Linking, ContextUse, TypeInv, TypeOK, Round
<1>6. ContextUse(b)'
  BY <1>1 DEF ThreadReturns, ContextUse, Linking, TypeInv, TypeOK
<1>. QED  BY <1>1, <1>3, <1>4, <1>5, <1>6

\* prev is tested.
LEMMA RowTestPrev ==
    ASSUME TypeInv, TypeInv', NEW b \in 0 .. created, RoundInv(b), TestPrev, pc' # "undefined"
    PROVE  RoundInv(b)' /\ created' = created
<1>. USE SchedulerAssumption DEF Jobs, Null, list, threads, locals, ghosts, Creating,
         Unlinking, OwnStack, RoundInv
<1>1. created' = created /\ Round(b)' = Round(b) /\ Unfinished' = Unfinished
  BY DEF TestPrev, Round, Unfinished
<1>3. Building(b)'
  BY <1>1 DEF TestPrev, Building, ContextUse, TypeInv, TypeOK
<1>4. Linking(b)'
  BY <1>1 DEF TestPrev, Linking, ContextUse, TypeInv, TypeOK
<1>5. Leaving(b)'
  BY <1>1 DEF TestPrev, Leaving, At, Linking, ContextUse, TypeInv, TypeOK, Round
<1>6. ContextUse(b)'
  BY <1>1 DEF TestPrev, ContextUse, Linking, TypeInv, TypeOK
<1>. QED  BY <1>1, <1>3, <1>4, <1>5, <1>6

\* head and head->next are loaded.
LEMMA RowLoadForHead ==
    ASSUME TypeInv, TypeInv', NEW b \in 0 .. created, RoundInv(b), LoadForHead, pc' # "undefined"
    PROVE  RoundInv(b)' /\ created' = created
<1>. USE SchedulerAssumption DEF Jobs, Null, list, threads, locals, ghosts, Creating,
         Unlinking, OwnStack, RoundInv
<1>1. created' = created /\ Round(b)' = Round(b) /\ Unfinished' = Unfinished
  BY DEF LoadForHead, Round, Unfinished
<1>3. Building(b)'
  BY <1>1 DEF LoadForHead, Building, ContextUse, TypeInv, TypeOK
<1>4. Linking(b)'
  BY <1>1 DEF LoadForHead, Linking, ContextUse, TypeInv, TypeOK
<1>5. Leaving(b)'
  BY <1>1 DEF LoadForHead, Leaving, At, Linking, ContextUse, TypeInv, TypeOK, Round
<1>6. ContextUse(b)'
  BY <1>1 DEF LoadForHead, ContextUse, Linking, TypeInv, TypeOK
<1>. QED  BY <1>1, <1>3, <1>4, <1>5, <1>6

\* prev and curr->next are loaded.
LEMMA RowLoadForPrev ==
    ASSUME TypeInv, TypeInv', NEW b \in 0 .. created, RoundInv(b), LoadForPrev, pc' # "undefined"
    PROVE  RoundInv(b)' /\ created' = created
<1>. USE SchedulerAssumption DEF Jobs, Null, list, threads, locals, ghosts, Creating,
         Unlinking, OwnStack, RoundInv
<1>1. created' = created /\ Round(b)' = Round(b) /\ Unfinished' = Unfinished
  BY DEF LoadForPrev, Round, Unfinished
<1>3. Building(b)'
  BY <1>1 DEF LoadForPrev, Building, ContextUse, TypeInv, TypeOK
<1>4. Linking(b)'
  BY <1>1 DEF LoadForPrev, Linking, ContextUse, TypeInv, TypeOK
<1>5. Leaving(b)'
  BY <1>1 DEF LoadForPrev, Leaving, At, Linking, ContextUse, TypeInv, TypeOK, Round
<1>6. ContextUse(b)'
  BY <1>1 DEF LoadForPrev, ContextUse, Linking, TypeInv, TypeOK
<1>. QED  BY <1>1, <1>3, <1>4, <1>5, <1>6

\* The first job leaves the list.
LEMMA RowStoreHead ==
    ASSUME TypeInv, TypeInv', NEW b \in 0 .. created, RoundInv(b), StoreHead, pc' # "undefined"
    PROVE  RoundInv(b)' /\ created' = created
<1>. USE SchedulerAssumption DEF Jobs, Null, list, threads, locals, ghosts, Creating,
         Unlinking, OwnStack, RoundInv
<1>1. created' = created /\ Round(b)' = Round(b) /\ Unfinished' = Unfinished
  BY DEF StoreHead, Round, Unfinished
<1>2. /\ pc = "l111s" /\ pc' = "l116" /\ curr \in Round(b) /\ curr = head /\ head' = value[curr]
      /\ left[curr] = 0 /\ value[curr] \in Round(b) \cup {Null}
      /\ Skips(Unfinished, curr, value[curr])
      /\ UNCHANGED <<sch, curr, prev, next, threads>>
  <2>1. pc = "l111s" /\ curr \in Round(b)
    BY DEF StoreHead, StackInv, TypeInv, Linking
  <2>. QED  BY <2>1 DEF StoreHead, Leaving, At
<1>3. Building(b)'
  BY <1>1 DEF StoreHead, Building, ContextUse, TypeInv, TypeOK
<1>4. Linking(b)'
  <2>1. Skips(Unfinished, Null, value[curr])
    <3>1. curr \notin Unfinished /\ Unfinished \subseteq Nat /\ curr \in Nat /\ curr # Null
          /\ value[curr] \in Nat
      BY <1>2 DEF Unfinished, Round, TypeInv, TypeOK
    <3>2. Skips(Unfinished, Null, curr)
      BY <1>2 DEF Linking
    <3>. QED  BY <1>2, <3>1, <3>2, SkipsChain
  <2>. QED  BY <1>1, <1>2, <2>1 DEF Linking
<1>5. Leaving(b)'
  BY <1>1 DEF StoreHead, Leaving, At, Linking, ContextUse, TypeInv, TypeOK, Round
<1>6. ContextUse(b)'
  BY <1>1 DEF StoreHead, ContextUse, Linking, TypeInv, TypeOK
<1>. QED  BY <1>1, <1>3, <1>4, <1>5, <1>6

\* Another job leaves the list.
LEMMA RowStoreNext ==
    ASSUME TypeInv, TypeInv', NEW b \in 0 .. created, RoundInv(b), StoreNext, pc' # "undefined"
    PROVE  RoundInv(b)' /\ created' = created
<1>. USE SchedulerAssumption DEF Jobs, Null, list, threads, locals, ghosts, Creating,
         Unlinking, OwnStack, RoundInv
<1>1. created' = created /\ Round(b)' = Round(b) /\ Unfinished' = Unfinished
  BY DEF StoreNext, Round, Unfinished
<1>2. /\ pc = "l113s" /\ pc' = "l116" /\ curr \in Round(b) /\ target[curr] \in Round(b)
      /\ next' = [next EXCEPT ![target[curr]] = value[curr]]
      /\ left[curr] = 0 /\ value[curr] \in Round(b) \cup {Null}
      /\ Skips(Unfinished, curr, value[curr]) /\ Skips(Unfinished, target[curr], curr)
      /\ target' = [target EXCEPT ![curr] = Null] /\ value' = [value EXCEPT ![curr] = Null]
      /\ UNCHANGED <<sch, head, curr, prev, threads>>
  <2>1. pc = "l113s" /\ curr \in Round(b)
    BY DEF StoreNext, StackInv, TypeInv, Linking
  <2>2. target[curr] # Null
    BY <2>1 DEF StoreNext, Sound, Touched, Usable
  <2>. QED  BY <2>1, <2>2 DEF StoreNext, NextAfterUnlink, Leaving, At
<1>3. Building(b)'
  BY <1>1 DEF StoreNext, NextAfterUnlink, Building, ContextUse, TypeInv, TypeOK
<1>4. Linking(b)'
  <2>1. Skips(Unfinished, target[curr], value[curr])
    <3>1. curr \notin Unfinished /\ Unfinished \subseteq Nat /\ curr \in Nat /\ curr # Null
          /\ value[curr] \in Nat /\ target[curr] \in Nat
      BY <1>2 DEF Unfinished, Round, TypeInv, TypeOK
    <3>. QED  BY <1>2, <3>1, SkipsChain
  <2>2. \A i \in Round(b) : next'[i] = IF i = target[curr] THEN value[curr] ELSE next[i]
    BY <1>2 DEF Round, TypeInv, TypeOK
  <2>3. \A i \in Round(b) : next'[i] \in Round(b) \cup {Null} /\ Skips(Unfinished, i, next'[i])
    BY <1>2, <2>1, <2>2 DEF Linking
  <2>. QED  BY <1>1, <1>2, <2>3 DEF Linking
<1>5. Leaving(b)'
  <2>1. \A j \in Round(b), P \in SUBSET (Unlinking \cup {"l117"}) : At(j, P)' => At(j, P) /\ j # curr
    <3>1. env[curr] \in {"none", "used", "stale"}
      BY <1>2 DEF ContextUse
    <3>. QED  BY <1>2, <3>1 DEF At
  <2>2. \A j \in Round(b) : At(j, {"l116"})' => At(j, {"l116"}) \/ j = curr
    BY <1>2 DEF At
  <2>3. \A j \in Round(b) : j # curr => value'[j] = value[j] /\ target'[j] = target[j]
    BY <1>2 DEF Round, TypeInv, TypeOK
  <2>4. \A j \in Round(b) : At(j, Unlinking \cup {"l116", "l117"})' => left'[j] = 0
    <3>1. \A j \in Round(b) : At(j, Unlinking \cup {"l116", "l117"})' =>
             At(j, Unlinking \cup {"l116", "l117"}) \/ j = curr
      BY <1>2 DEF At
    <3>. QED  BY <1>2, <3>1 DEF Leaving
  <2>. QED  BY <1>1, <1>2, <2>1, <2>3, <2>4 DEF Leaving
<1>6. ContextUse(b)'
  BY <1>1 DEF StoreNext, NextAfterUnlink, ContextUse, Linking, TypeInv, TypeOK
<1>. QED  BY <1>1, <1>3, <1>4, <1>5, <1>6

\* A stack is freed.
LEMMA RowFreeStack ==
    ASSUME TypeInv, TypeInv', NEW b \in 0 .. created, RoundInv(b), FreeStack, pc' # "undefined"
    PROVE  RoundInv(b)' /\ created' = created
<1>. USE SchedulerAssumption DEF Jobs, Null, list, threads, locals, ghosts, Creating,
         Unlinking, OwnStack, RoundInv
<1>1. created' = created /\ Round(b)' = Round(b) /\ Unfinished' = Unfinished
  BY DEF FreeStack, Round, Unfinished
<1>3. Building(b)'
  BY <1>1 DEF FreeStack, Building, ContextUse, TypeInv, TypeOK
<1>4. Linking(b)'
  BY <1>1 DEF FreeStack, Linking, ContextUse, TypeInv, TypeOK
<1>5. Leaving(b)'
  BY <1>1 DEF FreeStack, Leaving, At, Linking, ContextUse, TypeInv, TypeOK, Round
<1>6. ContextUse(b)'
  BY <1>1 DEF FreeStack, ContextUse, Linking, TypeInv, TypeOK
<1>. QED  BY <1>1, <1>3, <1>4, <1>5, <1>6

\* A job is freed.
LEMMA RowFreeJob ==
    ASSUME TypeInv, TypeInv', NEW b \in 0 .. created, RoundInv(b), FreeJob, pc' # "undefined"
    PROVE  RoundInv(b)' /\ created' = created
<1>. USE SchedulerAssumption DEF Jobs, Null, list, threads, locals, ghosts, Creating,
         Unlinking, OwnStack, RoundInv
<1>1. created' = created /\ Round(b)' = Round(b) /\ Unfinished' = Unfinished
  BY DEF FreeJob, Round, Unfinished
<1>3. Building(b)'
  BY <1>1 DEF FreeJob, Building, ContextUse, TypeInv, TypeOK
<1>4. Linking(b)'
  BY <1>1 DEF FreeJob, Linking, ContextUse, TypeInv, TypeOK
<1>5. Leaving(b)'
  BY <1>1 DEF FreeJob, Leaving, At, Linking, ContextUse, TypeInv, TypeOK, Round
<1>6. ContextUse(b)'
  BY <1>1 DEF FreeJob, ContextUse, Linking, TypeInv, TypeOK
<1>. QED  BY <1>1, <1>3, <1>4, <1>5, <1>6

\* The scheduler steps back to the job before.
LEMMA RowStepBack ==
    ASSUME TypeInv, TypeInv', NEW b \in 0 .. created, RoundInv(b), StepBack, pc' # "undefined"
    PROVE  RoundInv(b)' /\ created' = created
<1>. USE SchedulerAssumption DEF Jobs, Null, list, threads, locals, ghosts, Creating,
         Unlinking, OwnStack, RoundInv
<1>1. created' = created /\ Round(b)' = Round(b) /\ Unfinished' = Unfinished
  BY DEF StepBack, Round, Unfinished
<1>3. Building(b)'
  BY <1>1 DEF StepBack, Building, ContextUse, TypeInv, TypeOK
<1>4. Linking(b)'
  BY <1>1 DEF StepBack, Linking, ContextUse, TypeInv, TypeOK
<1>5. Leaving(b)'
  BY <1>1 DEF StepBack, Leaving, At, Linking, ContextUse, TypeInv, TypeOK, Round
<1>6. ContextUse(b)'
  BY <1>1 DEF StepBack, ContextUse, Linking, TypeInv, TypeOK
<1>. QED  BY <1>1, <1>3, <1>4, <1>5, <1>6

\* SIGALRM saves the context of curr, wherever it is.
LEMMA RowInterrupt ==
    ASSUME TypeInv, TypeInv', NEW b \in 0 .. created, RoundInv(b), interrupt_handler, pc' # "undefined"
    PROVE  RoundInv(b)' /\ created' = created
<1>. USE SchedulerAssumption DEF Jobs, Null, list, threads, locals, ghosts, Creating,
         Unlinking, OwnStack, RoundInv
<1>1. created' = created /\ Round(b)' = Round(b) /\ Unfinished' = Unfinished
  BY DEF interrupt_handler, Round, Unfinished
<1>2. /\ curr \in Jobs /\ mem[curr] = "live" /\ sch = "live" /\ pc' = "l145"
      /\ env' = [env EXCEPT ![curr] = Saved(pc)] /\ env'[curr] = Saved(pc)
      /\ UNCHANGED <<sch, list, mem, status, left, locals>>
      /\ pc \notin {"main", "undefined", "returned"} \cup Creating
  <2>1. /\ curr \in Jobs /\ mem[curr] = "live" /\ sch = "live" /\ pc' = "l145"
        /\ env' = [env EXCEPT ![curr] = Saved(pc)]
        /\ UNCHANGED <<sch, list, mem, status, left, locals>>
        /\ pc \notin {"main", "undefined"}
    BY DEF interrupt_handler, Usable, TypeInv, TypeOK
  <2>2. pc \notin {"returned"} \cup Creating
    BY <2>1 DEF Building, Linking
  <2>. QED  BY <2>1, <2>2 DEF TypeInv, TypeOK
<1>a. Saved(pc) \in {pc, "stale"} /\ Saved(pc) \in {"l145", "stale"} \cup (OwnStack \ Creating)
  BY <1>2 DEF Saved
<1>3. Building(b)'
  BY <1>1 DEF interrupt_handler, Saved, Usable, Building, ContextUse, TypeInv, TypeOK
<1>4. Linking(b)'
  BY <1>1, <1>2 DEF Linking
<1>5. Leaving(b)'
  <2>1. \A j \in Round(b), P \in SUBSET (Unlinking \cup {"l116", "l117"}) : At(j, P)' => At(j, P)
    BY <1>2, <1>a DEF At, Round, TypeInv, TypeOK
  <2>. QED  BY <1>1, <1>2, <2>1 DEF Leaving
<1>6. ContextUse(b)'
  <2>1. \A j \in Jobs : env'[j] = IF j = curr THEN Saved(pc) ELSE env[j]
    BY <1>2 DEF TypeInv, TypeOK
  <2>2. curr <= created
    <3>1. curr \in Round(b) /\ created \in Nat /\ b \in Nat
      BY <1>2 DEF Linking, TypeInv, TypeOK
    <3>. QED  BY <3>1 DEF Round
  <2>3. \A j \in Jobs : j > created' => status'[j] = 0 /\ env'[j] = "none" /\ left'[j] = 0
    <3>1. \A j \in Jobs : j > created => j # curr
      BY <1>2, <2>2 DEF TypeInv, TypeOK
    <3>. QED  BY <1>1, <1>2, <2>1, <3>1 DEF ContextUse
  <2>4. status[curr] = 0 => Saved(pc) = "stale"
    BY <1>2 DEF ContextUse, Saved
  <2>5. \A j \in Jobs : env'[j] \notin Creating /\ (status'[j] = 0 => env'[j] \in {"none", "stale"})
    BY <1>2, <1>a, <2>1, <2>4 DEF ContextUse
  <2>6. sch' = "live" /\ pc' # "returned"
    BY <1>2
  <2>. QED  BY <1>1, <1>2, <2>1, <2>3, <2>4, <2>5, <2>6 DEF ContextUse
<1>. QED  BY <1>1, <1>3, <1>4, <1>5, <1>6

\* Every step keeps what holds of the round.
LEMMA RowStep ==
    ASSUME Creators \subseteq {"main"}, RowInv, [Next]_vars
    PROVE  RowInv'
<1>1. TypeInv /\ TypeInv'
  BY TypeStep DEF RowInv
<1>2. CASE pc' = "undefined"
  BY <1>1, <1>2 DEF RowInv
<1>3. CASE UNCHANGED vars
  <2>. USE <1>3 DEF vars, list, threads, locals, ghosts
  <2>1. ASSUME NEW b \in 0 .. created
        PROVE  /\ Building(b) => Building(b)'
               /\ Linking(b) => Linking(b)'
               /\ Leaving(b) => Leaving(b)'
               /\ ContextUse(b) => ContextUse(b)'
    <3>1. Round(b)' = Round(b) /\ Added' = Added /\ Unfinished' = Unfinished
      BY DEF Round, Added, Unfinished
    <3>2. Building(b) => Building(b)'
      BY <3>1 DEF Building
    <3>3. Linking(b) => Linking(b)'
      BY <3>1 DEF Linking
    <3>4. Leaving(b) => Leaving(b)'
      BY <3>1 DEF Leaving, At
    <3>5. ContextUse(b) => ContextUse(b)'
      BY <3>1 DEF ContextUse
    <3>. QED  BY <3>2, <3>3, <3>4, <3>5
  <2>. QED  BY <1>1, <2>1 DEF RowInv
<1>4. CASE Next /\ pc' # "undefined"
  <2>1. pc # "undefined"
    BY <1>4, SchedulerAssumption DEF Next, Step, scheduler_init, scheduler_create, Execute, Pick,
         Return, Start, Resume, AddFirst, WalkFromHead, WalkTest, WalkOn, AddLast, Work,
         scheduler_yield, ToScheduler, ThreadReturns, TestPrev, LoadForHead, StoreHead,
         LoadForPrev, StoreNext, FreeStack, FreeJob, StepBack, Derail, interrupt_handler,
         Creating, Unlinking
  <2>2. PICK b \in 0 .. created : RoundInv(b)
    BY <2>1 DEF RowInv, RoundInv
  <2>3. created \in Nat
    BY <1>1 DEF TypeInv, TypeOK
  <2>4. ASSUME NEW c \in 0 .. created', RoundInv(c)' PROVE RowInv'
    BY <1>1, <2>4 DEF RowInv, RoundInv
  <2>5. CASE scheduler_init
    <3>1. created' = created
      BY <2>5 DEF scheduler_init, ghosts
    <3>2. RoundInv(created)'
      BY <1>1, <2>2, <2>5, RowSchedulerInit
    <3>. QED  BY <2>3, <2>4, <3>1, <3>2
  <2>6. CASE \E w \in 0 .. MaxWork : scheduler_create(w)
    <3>1. PICK w \in 0 .. MaxWork : scheduler_create(w)
      BY <2>6
    <3>2. b \in 0 .. created' /\ Building(b)' /\ ContextUse(b)' /\ pc' \in Creating
      BY <1>1, <2>2, <3>1, RowCreate DEF scheduler_create, Creating
    <3>. QED  BY <1>1, <2>4, <3>2, RowBuilding
  <2>7. CASE AddFirst \/ WalkFromHead \/ WalkTest \/ WalkOn \/ AddLast
    <3>1. Building(b)' /\ ContextUse(b)' /\ created' = created
      BY <1>1, <2>2, <2>7, RowWalk
    <3>2. pc' \in {"main"} \cup Creating
      <4>1. curr = Null
        BY <2>2, <2>7 DEF RoundInv, Building, Creating, AddFirst, WalkFromHead, WalkTest, WalkOn,
             AddLast
      <4>. QED  BY <2>7, <4>1 DEF AddFirst, WalkFromHead, WalkTest, WalkOn, AddLast, CreateReturns,
                  Caller, Creating
    <3>. QED  BY <1>1, <2>4, <3>1, <3>2, RowBuilding
  <2>8. CASE Execute
    <3>1. RoundInv(b)' /\ created' = created
      BY <1>1, <2>2, <2>8, RowExecute
    <3>. QED  BY <2>4, <3>1
  <2>9. CASE \/ Pick \/ Return \/ Start \/ Resume \/ Work \/ scheduler_yield \/ ToScheduler
             \/ ThreadReturns \/ TestPrev \/ LoadForHead \/ StoreHead \/ LoadForPrev
             \/ StoreNext \/ FreeStack \/ FreeJob \/ StepBack \/ interrupt_handler
    <3>1. RoundInv(b)' /\ created' = created
      BY <1>1, <1>4, <2>2, <2>9, RowPick, RowReturn, RowStart, RowResume, RowWork, RowYield,
         RowToScheduler, RowThreadReturns, RowTestPrev, RowLoadForHead, RowStoreHead,
         RowLoadForPrev, RowStoreNext, RowFreeStack, RowFreeJob, RowStepBack, RowInterrupt
    <3>. QED  BY <2>4, <3>1
  <2>10. ~Derail
    BY <1>4 DEF Derail
  <2>. QED  BY <1>4, <2>5, <2>6, <2>7, <2>8, <2>9, <2>10 DEF Next, Step
<1>. QED  BY <1>2, <1>3, <1>4

\* When the list is empty although a thread has steps to do, a link has passed
\* over it.
LEMMA RowMeansDone == RowInv => ReturnsAfterAll
<1>. SUFFICES ASSUME RowInv, pc = "returned", NEW j \in 1 .. created, left[j] # 0
              PROVE  FALSE
  BY DEF ReturnsAfterAll
<1>1. PICK b \in 0 .. created : ContextUse(b)
  BY DEF RowInv
<1>2. j \in Jobs /\ left[j] > 0
  BY SchedulerAssumption DEF RowInv, TypeInv, TypeOK, Jobs
<1>. QED  BY <1>1, <1>2 DEF ContextUse, Unfinished

\* scheduler_execute() returns only when every thread has done all its steps, as
\* long as main() creates them all: wherever SIGALRM is delivered, also where it
\* crashes the program or keeps it from ever returning.
THEOREM NeverReturnsEarly ==
    ASSUME Creators \subseteq {"main"}
    PROVE  Spec => []ReturnsAfterAll
<1>1. RowInv /\ [Next]_vars => RowInv'
  BY RowStep
<1>. QED  BY <1>1, RowInit, RowMeansDone, PTL DEF Spec
=============================================================================
