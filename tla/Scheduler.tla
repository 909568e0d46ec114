----------------------------- MODULE Scheduler -----------------------------
(***************************************************************************)
(* The user-thread scheduler of project-2/scheduler.c, driven as           *)
(* project-2/main.c drives it: scheduler_init(), scheduler_create() for    *)
(* every thread, then scheduler_execute(), which switches between the      *)
(* threads with setjmp()/longjmp() when one yields, returns, or is         *)
(* interrupted by SIGALRM.                                                 *)
(*                                                                         *)
(* One kernel thread executes all of it.  SIGALRM may be delivered between *)
(* any two instructions, so every load and every store of the list that    *)
(* other threads could come between is a step of its own, and `pc' names   *)
(* the line that comes next:                                               *)
(*   "main"      main(), outside scheduler_execute()                       *)
(*   "pick"      at the fake return of setjmp(sch_obj->env), lines 85-92   *)
(*   "dispatch"  the next job is in curr, lines 94-107 and 121             *)
(*   "run"       inside curr's function, on curr's stack                   *)
(*   "l58" ... "l68"    in scheduler_create(), called by main() or curr    *)
(*   "unlink"    curr's function has returned, at the test of line 109     *)
(*   "l111", "l113"     before the loads of these lines                    *)
(*   "l111s", "l113s"   between their loads and their stores               *)
(*   "l116"      curr is out of the list                                   *)
(*   "l117"      its stack is freed, and is the one the processor is on    *)
(*   "l118"      curr is freed                                             *)
(*   "l145"      in scheduler_yield(), curr's context is saved             *)
(*   "returned"  scheduler_execute() has returned                          *)
(*   "undefined" NULL or freed memory was used (other than the stack freed *)
(*               at line 116), or a jump made into a stack frame that no   *)
(*               longer exists                                             *)
(*                                                                         *)
(* Jobs are numbered in the order in which scheduler_create() reaches line *)
(* 57; memory of a freed job is not given to another one.  malloc(),       *)
(* free() and what a thread calls are not interrupted halfway.  What a     *)
(* thread computes is abstracted to the number of steps it has left.       *)
(***************************************************************************)
EXTENDS Integers

CONSTANTS
    MaxJobs,   \* bound: threads created in one run of the program
    MaxWork,   \* bound: steps of one thread
    MaxRounds, \* bound: calls of scheduler_init()
    Creators,  \* the values of pc at which scheduler_create() is called
    Alarms,    \* the values of pc at which SIGALRM may be delivered
    Trims      \* may free() give the pages of a stack back to the system?

Creating  == {"l58", "l62", "l64", "l65", "l68"}
Unlinking == {"unlink", "l111", "l111s", "l113", "l113s"}

ASSUME SchedulerAssumption ==
    /\ MaxJobs \in Nat
    /\ MaxWork \in Nat
    /\ MaxRounds \in Nat
    /\ Creators \subseteq {"main", "run"}
    /\ Alarms \subseteq {"pick", "dispatch", "run", "l116", "l117", "l118", "l145",
                         "returned"} \cup Creating \cup Unlinking
    /\ Trims \in BOOLEAN

Jobs == 1 .. MaxJobs
Null == 0

VARIABLES
    sch,       \* the memory of *sch_obj: "none", "live" or "freed"
    head, curr, prev,   \* the fields of *sch_obj
    mem,       \* mem[j]: the memory of job j and its stack, as for sch
    next, status, env,  \* the fields of job j
    fresh, last,   \* the locals j and last of scheduler_create(), by caller
    target, value, \* registers at the store of line 113 or 111, by thread
    left,      \* steps that thread j has left
    created,   \* jobs created so far
    rounds,    \* calls of scheduler_init() so far
    ran,       \* has curr made a step since it was dispatched?
    overtaken, \* history: overtaken[j], the jobs dispatched since j last was
    pc

list    == <<head, curr, prev, next>>
threads == <<mem, status, env, left>>
locals  == <<fresh, last, target, value>>
ghosts  == <<created, rounds, overtaken>>
vars    == <<sch, list, threads, locals, ghosts, ran, pc>>
-----------------------------------------------------------------------------
Init ==
    /\ sch = "none"
    /\ head = Null /\ curr = Null /\ prev = Null
    /\ mem = [j \in Jobs |-> "none"]
    /\ next = [j \in Jobs |-> Null]
    /\ status = [j \in Jobs |-> 0]
    /\ env = [j \in Jobs |-> "none"]
    /\ fresh = [c \in Jobs \cup {Null} |-> Null]
    /\ last = [c \in Jobs \cup {Null} |-> Null]
    /\ target = [j \in Jobs |-> Null]
    /\ value = [j \in Jobs |-> Null]
    /\ left = [j \in Jobs |-> 0]
    /\ created = 0
    /\ rounds = 0
    /\ ran = FALSE
    /\ overtaken = [j \in Jobs |-> {}]
    /\ pc = "main"

\* Only head is assigned.  curr is read uninitialised by scheduler_execute();
\* the first malloc() of the process returns zeroed pages, and the one after a
\* scheduler_execute() returns the block just freed, whose curr is NULL.
scheduler_init ==
    /\ \/ pc = "main" /\ sch = "none"
       \/ pc = "returned"
    /\ rounds < MaxRounds
    /\ sch' = "live"
    /\ head' = Null
    /\ rounds' = rounds + 1
    /\ pc' = "main"
    /\ UNCHANGED <<curr, prev, next, threads, locals, created, overtaken, ran>>

Usable(j) == j # Null /\ mem[j] = "live"

\* What the code at pc goes on to dereference, and whether it may.
Touched ==
    CASE pc \in {"pick", "dispatch"}    -> {curr} \ {Null}
      [] pc \in {"l64", "l65", "l68"}   -> {last[curr]}
      [] pc = "l111"                    -> {head}
      [] pc = "l113s"                   -> {target[curr]}
      [] pc \in {"l113", "l116", "l117"} -> {curr}
      [] OTHER                          -> {}

Sound == \A j \in Touched : Usable(j)

Derail ==
    /\ ~Sound
    /\ pc' = "undefined"
    /\ UNCHANGED <<sch, list, threads, locals, ghosts, ran>>
-----------------------------------------------------------------------------
\* main() has no job of its own: its locals are those of Null.
Caller == IF curr = Null THEN "main" ELSE "run"

\* Lines 43-57: a new job and the test of head; w is what the thread will do.
\* Before scheduler_init() the call returns -1 and changes nothing.
scheduler_create(w) ==
    /\ pc \in Creators
    /\ sch = "live"
    /\ created < MaxJobs
    /\ LET j == created + 1
       IN  /\ mem' = [mem EXCEPT ![j] = "live"]
           /\ status' = [status EXCEPT ![j] = 0]
           /\ next' = [next EXCEPT ![j] = Null]
           /\ left' = [left EXCEPT ![j] = w]
           /\ fresh' = [fresh EXCEPT ![curr] = j]
           /\ created' = j
           /\ overtaken' = [overtaken EXCEPT ![j] = {}]
    /\ pc' = IF head = Null THEN "l58" ELSE "l62"
    /\ ran' = TRUE
    /\ UNCHANGED <<sch, head, curr, prev, env, last, target, value, rounds>>

\* The locals of a call that returns are gone.
CreateReturns ==
    /\ fresh' = [fresh EXCEPT ![curr] = Null]
    /\ last' = [last EXCEPT ![curr] = Null]
    /\ pc' = Caller
    /\ ran' = TRUE

\* Line 58.
AddFirst ==
    /\ pc = "l58"
    /\ head' = fresh[curr]
    /\ CreateReturns
    /\ UNCHANGED <<sch, curr, prev, next, threads, target, value, ghosts>>

\* Line 62.
WalkFromHead ==
    /\ pc = "l62"
    /\ last' = [last EXCEPT ![curr] = head]
    /\ pc' = "l64"
    /\ ran' = TRUE
    /\ UNCHANGED <<sch, list, threads, fresh, target, value, ghosts>>

\* Line 64.
WalkTest ==
    /\ pc = "l64"
    /\ Sound
    /\ pc' = IF next[last[curr]] = Null THEN "l68" ELSE "l65"
    /\ ran' = TRUE
    /\ UNCHANGED <<sch, list, threads, locals, ghosts>>

\* Line 65: `next' is read again.
WalkOn ==
    /\ pc = "l65"
    /\ Sound
    /\ last' = [last EXCEPT ![curr] = next[last[curr]]]
    /\ pc' = "l64"
    /\ ran' = TRUE
    /\ UNCHANGED <<sch, list, threads, fresh, target, value, ghosts>>

\* Line 68.
AddLast ==
    /\ pc = "l68"
    /\ Sound
    /\ next' = [next EXCEPT ![last[curr]] = fresh[curr]]
    /\ CreateReturns
    /\ UNCHANGED <<sch, head, curr, prev, threads, target, value, ghosts>>
-----------------------------------------------------------------------------
\* scheduler_execute() is called: setjmp(sch_obj->env).
Execute ==
    /\ pc = "main"
    /\ sch = "live"
    /\ pc' = "pick"
    /\ UNCHANGED <<sch, list, threads, locals, ghosts, ran>>

\* Lines 85-92: the job after curr with curr as its predecessor, or else the
\* first one.  SIGALRM inside these lines leaves what it leaves before the
\* first or, once curr is assigned, after the last of them: prev is assigned
\* again before anybody reads it.
IsLast   == curr = Null \/ next[curr] = Null
NextJob_NoWrap   == IF curr = Null THEN head ELSE next[curr]
NextJob_Restarts == head
NextJob  == IF IsLast THEN head ELSE next[curr]
PrevJob_Stale == curr
PrevJob  == IF IsLast THEN Null ELSE curr

Pick ==
    /\ pc = "pick"
    /\ Sound
    /\ curr' = NextJob
    /\ prev' = PrevJob
    /\ pc' = "dispatch"
    /\ UNCHANGED <<sch, head, next, threads, locals, ghosts, ran>>

\* Lines 94-97: nobody is left.
Return ==
    /\ pc = "dispatch"
    /\ curr = Null
    /\ sch' = "freed"
    /\ pc' = "returned"
    /\ UNCHANGED <<list, threads, locals, ghosts, ran>>

\* curr gets the processor: every other job sees it go first.
Switch ==
    /\ ran' = FALSE
    /\ overtaken' = [j \in Jobs |-> IF j = curr THEN {} ELSE overtaken[j] \cup {curr}]

\* Lines 103-107: start curr on its own stack.
Start ==
    /\ pc = "dispatch"
    /\ curr # Null
    /\ Sound
    /\ status[curr] = 0
    /\ status' = [status EXCEPT ![curr] = 1]
    /\ pc' = "run"
    /\ Switch
    /\ UNCHANGED <<sch, list, mem, env, left, locals, created, rounds>>

\* Line 121: jump to where curr was.  A context saved on the scheduler's own
\* stack ("stale") has been overwritten since, and one that was resumed before
\* ("used") lies in a call of scheduler_yield() that has returned.  A stack that
\* was freed may have been given to somebody else.
Resume ==
    /\ pc = "dispatch"
    /\ curr # Null
    /\ Sound
    /\ status[curr] # 0
    /\ \/ env[curr] \notin {"stale", "used"} /\ pc' = env[curr]
       \/ env[curr] \in {"stale", "used", "l117"} /\ pc' = "undefined"
    /\ env' = [env EXCEPT ![curr] = "used"]
    /\ Switch
    /\ UNCHANGED <<sch, list, mem, status, left, locals, created, rounds>>
-----------------------------------------------------------------------------
Work_OneTooMany ==
    /\ pc = "run"
    /\ left[curr] >= 0
    /\ left' = [left EXCEPT ![curr] = @ - 1]
    /\ ran' = TRUE
    /\ UNCHANGED <<sch, list, mem, status, env, locals, ghosts, pc>>

\* The thread makes a step, an iteration of the loop of _thread_().
Work ==
    /\ pc = "run"
    /\ left[curr] > 0
    /\ left' = [left EXCEPT ![curr] = @ - 1]
    /\ ran' = TRUE
    /\ UNCHANGED <<sch, list, mem, status, env, locals, ghosts, pc>>

\* The thread calls scheduler_yield(), one of its steps: setjmp() of line 144.
scheduler_yield ==
    /\ pc = "run"
    /\ left[curr] > 0
    /\ left' = [left EXCEPT ![curr] = @ - 1]
    /\ env' = [env EXCEPT ![curr] = "run"]
    /\ pc' = "l145"
    /\ UNCHANGED <<sch, list, mem, status, locals, ghosts, ran>>

\* Line 145: longjmp(sch_obj->env).
ToScheduler ==
    /\ pc = "l145"
    /\ pc' = "pick"
    /\ UNCHANGED <<sch, list, threads, locals, ghosts, ran>>

\* fnc() returns into scheduler_execute().
ThreadReturns ==
    /\ pc = "run"
    /\ left[curr] = 0
    /\ pc' = "unlink"
    /\ ran' = TRUE
    /\ UNCHANGED <<sch, list, threads, locals, ghosts>>

\* Line 109: the link to curr is in head or in the job before it.
TestPrev ==
    /\ pc = "unlink"
    /\ pc' = IF prev = Null THEN "l111" ELSE "l113"
    /\ ran' = TRUE
    /\ UNCHANGED <<sch, list, threads, locals, ghosts>>

\* Line 111, its loads: head, then head->next.  SIGALRM between the two leaves
\* what it leaves before the first: the first job stays the first.
LoadForHead ==
    /\ pc = "l111"
    /\ Sound
    /\ value' = [value EXCEPT ![curr] = next[head]]
    /\ pc' = "l111s"
    /\ ran' = TRUE
    /\ UNCHANGED <<sch, list, threads, fresh, last, target, ghosts>>

\* Line 111, its store.
StoreHead ==
    /\ pc = "l111s"
    /\ head' = value[curr]
    /\ value' = [value EXCEPT ![curr] = Null]
    /\ pc' = "l116"
    /\ ran' = TRUE
    /\ UNCHANGED <<sch, curr, prev, next, threads, fresh, last, target, ghosts>>

\* Line 113, its loads: prev, which is not tested again, and curr->next.
LoadForPrev ==
    /\ pc = "l113"
    /\ Sound
    /\ target' = [target EXCEPT ![curr] = prev]
    /\ value' = [value EXCEPT ![curr] = next[curr]]
    /\ pc' = "l113s"
    /\ ran' = TRUE
    /\ UNCHANGED <<sch, list, threads, fresh, last, ghosts>>

\* Line 113, its store.
NextAfterUnlink_None == next
NextAfterUnlink == [next EXCEPT ![target[curr]] = value[curr]]

StoreNext ==
    /\ pc = "l113s"
    /\ Sound
    /\ next' = NextAfterUnlink
    /\ target' = [target EXCEPT ![curr] = Null]
    /\ value' = [value EXCEPT ![curr] = Null]
    /\ pc' = "l116"
    /\ ran' = TRUE
    /\ UNCHANGED <<sch, head, curr, prev, threads, fresh, last, ghosts>>

\* Line 116: the stack the processor is on is freed.  Lines 117-119 go on using
\* it, which is harmless as long as its pages stay with the process.
FreeStack ==
    /\ pc = "l116"
    /\ Sound
    /\ \/ pc' = "l117"
       \/ Trims /\ pc' = "undefined"
    /\ ran' = TRUE
    /\ UNCHANGED <<sch, list, threads, locals, ghosts>>

\* Line 117.
FreeJob ==
    /\ pc = "l117"
    /\ Sound
    /\ mem' = [mem EXCEPT ![curr] = "freed"]
    /\ pc' = "l118"
    /\ ran' = TRUE
    /\ UNCHANGED <<sch, list, status, env, left, locals, ghosts>>

\* Lines 118-119.
StepBack_Forgotten ==
    /\ pc = "l118"
    /\ pc' = "pick"
    /\ UNCHANGED <<sch, list, threads, locals, ghosts, ran>>

StepBack ==
    /\ pc = "l118"
    /\ curr' = prev
    /\ pc' = "pick"
    /\ UNCHANGED <<sch, head, prev, next, threads, locals, ghosts, ran>>
-----------------------------------------------------------------------------
\* The places where the processor is on curr's stack, which nobody else uses.
OwnStack == {"run", "l116", "l117"} \cup Creating \cup Unlinking

\* The context that setjmp(sch_obj->curr->env) saves when SIGALRM arrives at p.
\* In the loop, the processor is on a frame below that of scheduler_execute(),
\* which the next jump to sch_obj->env gives up; at line 145 it is on the stack
\* on which the context before was saved.
Saved(p) == IF p \in OwnStack \/ (p = "l145" /\ env[curr] # "stale") THEN p
            ELSE "stale"

\* SIGALRM: alarm(1), then scheduler_yield() on behalf of curr.  The program is
\* compiled with -ansi, so signal() is that of System V: the handler is installed
\* for one delivery, by scheduler_yield() too, and the signal is not blocked while
\* it runs; leaving it by longjmp() leaves nothing behind.  The alarm rings every
\* second, so a thread has made a step when it is interrupted.
interrupt_handler ==
    /\ pc \in Alarms
    /\ pc \in OwnStack => ran
    /\ \/ /\ sch = "live" /\ Usable(curr)
          /\ env' = [env EXCEPT ![curr] = Saved(pc)]
          /\ pc' = "l145"
       \/ /\ ~(sch = "live" /\ Usable(curr))
          /\ pc' = "undefined"
          /\ UNCHANGED env
    /\ UNCHANGED <<sch, list, mem, status, left, locals, ghosts, ran>>
-----------------------------------------------------------------------------
\* The code of the scheduler and of the threads running to their end.
Step ==
    \/ Pick \/ Return \/ Start \/ Resume
    \/ AddFirst \/ WalkFromHead \/ WalkTest \/ WalkOn \/ AddLast
    \/ Work \/ scheduler_yield \/ ToScheduler \/ ThreadReturns
    \/ TestPrev \/ LoadForHead \/ StoreHead \/ LoadForPrev \/ StoreNext
    \/ FreeStack \/ FreeJob \/ StepBack \/ Derail

Next ==
    \/ scheduler_init
    \/ \E w \in 0 .. MaxWork : scheduler_create(w)
    \/ Execute
    \/ Step
    \/ interrupt_handler

Spec == Init /\ [][Next]_vars

\* The process is scheduled by the operating system: it goes on when it can.
FairSpec == Spec /\ WF_vars(Step)
-----------------------------------------------------------------------------
\* The type invariant of struct scheduler, of its jobs, of the locals and of the
\* contexts.
TypeOK ==
    /\ sch \in {"none", "live", "freed"}
    /\ head \in Jobs \cup {Null}
    /\ curr \in Jobs \cup {Null}
    /\ prev \in Jobs \cup {Null}
    /\ mem \in [Jobs -> {"none", "live", "freed"}]
    /\ next \in [Jobs -> Jobs \cup {Null}]
    /\ status \in [Jobs -> {0, 1}]
    /\ env \in [Jobs -> OwnStack \cup {"none", "l145", "stale", "used"}]
    /\ fresh \in [Jobs \cup {Null} -> Jobs \cup {Null}]
    /\ last \in [Jobs \cup {Null} -> Jobs \cup {Null}]
    /\ target \in [Jobs -> Jobs \cup {Null}]
    /\ value \in [Jobs -> Jobs \cup {Null}]
    /\ left \in [Jobs -> Nat]
    /\ created \in 0 .. MaxJobs
    /\ rounds \in Nat
    /\ ran \in BOOLEAN
    /\ overtaken \in [Jobs -> SUBSET Jobs]
    /\ pc \in OwnStack \cup {"main", "pick", "dispatch", "l118", "l145", "returned",
                             "undefined"}

\* The jobs that belong in the list: all that live, except the one that
\* scheduler_create() has still to add and the one that has been unlinked and is
\* about to be freed.
Linked == {j \in Jobs : /\ mem[j] = "live"
                        /\ ~(pc \in Creating /\ j = fresh[curr])
                        /\ ~(pc \in {"l116", "l117"} /\ j = curr)}

\* j is what a link that must skip everything up to i has to point to.
IsNextAfter(i, j) ==
    IF j = Null THEN \A k \in Linked : k <= i
    ELSE j \in Linked /\ j > i /\ \A k \in Linked : k > i => j <= k

\* The list holds exactly the unfinished threads, in creation order: removing
\* the thread that returned, from the place scheduler_execute() remembers in
\* prev, never drops or keeps another one, and neither does adding one.
ListIsExact ==
    pc # "undefined" =>
        /\ IsNextAfter(Null, head)
        /\ \A i \in Linked : IsNextAfter(i, next[i])

\* While a thread has the processor (or has just returned), prev is the job
\* before it in the list, however often it was interrupted and whoever finished
\* in the meantime; what lines 109 and 113 read of it before the store is so too.
PrevIsPredecessor ==
    /\ pc \in {"run"} \cup Unlinking =>
         IF prev = Null THEN curr = head
         ELSE prev \in Linked /\ next[prev] = curr
    /\ pc \in {"l111", "l111s"} => prev = Null
    /\ pc = "l113" => prev # Null
    /\ pc = "l113s" => target[curr] = prev /\ prev # Null

\* Neither NULL nor freed memory is used, other than the stack that line 116
\* frees, and no dead stack frame is entered.
NoUndefined == pc # "undefined"

\* "This function returns after all user threads (previously created) have
\* terminated": every one has done all its steps.
ReturnsAfterAll == pc = "returned" => \A j \in 1 .. created : left[j] = 0

\* By then the memory of every thread has been given back.
NothingLeaked == pc = "returned" => \A j \in 1 .. created : mem[j] = "freed"

\* Round robin: no thread gets the processor twice while another one that could
\* have had it waits.
NoOvertaking ==
    [][ \A k \in Jobs :
          (pc = "dispatch" /\ pc' # "dispatch" /\ curr = k) =>
              \A j \in Linked \ {k} : k \notin overtaken[j] ]_vars

\* scheduler_execute() returns once nobody creates threads any more: every
\* thread gets the processor again and again until it is done.
ExecuteReturns == (pc = "pick") ~> (pc = "returned")
=============================================================================
