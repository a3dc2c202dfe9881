----------------------------- MODULE Scheduler ------------------------------
(***************************************************************************)
(* The cooperative scheduler Taskman of src/src/kernel/task/scheduler.cc:  *)
(* the circular doubly linked process list, and the walks over it.         *)
(*                                                                         *)
(* One CPU, no preemption: a call of the interface runs to its end before  *)
(* the calling task continues.  Each loop over the list takes one step per *)
(* iteration; "phase" says which loop is running, and no other action is   *)
(* enabled until it ends.  A switch is a nested C call of the task's entry *)
(* function (yield calls task_func), so the tasks that have been entered   *)
(* and have not returned form a call stack.                                *)
(***************************************************************************)
EXTENDS Integers, Sequences, FiniteSets

CONSTANTS
  Addr,      \* the addresses kmalloc can return for a Task
  NULL,      \* nullptr, and the content of a freed Task
  MaxPid,    \* bound: the last pid handed out (u32 in the code)
  MaxDepth   \* bound: nested task_func() calls

ASSUME SchedulerAssumption ==
  /\ NULL \notin Addr
  /\ MaxPid \in Nat
  /\ MaxDepth \in Nat

ACTIVE == "ACTIVE"
WAITING == "WAITING"
TERMINATED == "TERMINATED"
READY == "READY"

State == {ACTIVE, WAITING, TERMINATED, READY}

\* A freed Task is in none of the states.
ASSUME StateAssumption == NULL \notin State

VARIABLES
  next, prev, state, pid,  \* the fields of the Task at each address
  allocated,               \* addresses that hold a Task (kmalloc, kfree)
  head, tail, current, count, next_pid,  \* process_list
  scheduler_running,
  stack,    \* entered tasks, outermost first; empty in _start
  phase,    \* where control is
  it, checked, wanted,     \* locals of the loop that is running
  ring      \* history: the list as the sequence of its tasks

list == <<next, prev, head, tail, current, count, ring>>
tasks == <<state, pid, allocated, next_pid>>
locals == <<it, checked, wanted>>
control == <<scheduler_running, stack, phase>>
vars == <<list, tasks, locals, control>>

Runnable(t) == state[t] \in {ACTIVE, READY}

\* A loop ends and its function returns to the code that called it: _start
\* before start_scheduler, else the innermost task.
Return ==
  /\ phase' = IF stack = <<>> THEN "boot" ELSE "run"
  /\ it' = NULL /\ checked' = 0 /\ wanted' = 0

Init ==
  /\ next = [t \in Addr |-> NULL] /\ prev = [t \in Addr |-> NULL]
  /\ state = [t \in Addr |-> NULL] /\ pid = [t \in Addr |-> NULL]
  /\ allocated = {}
  /\ head = NULL /\ tail = NULL /\ current = NULL
  /\ count = 0 /\ next_pid = 1
  /\ scheduler_running = FALSE
  /\ stack = <<>> /\ phase = "boot"
  /\ it = NULL /\ checked = 0 /\ wanted = 0
  /\ ring = <<>>

-----------------------------------------------------------------------------
\* Mutant: the head's prev pointer is not moved to the new tail.
LinkForgetsPrev(t) ==
  /\ IF head = NULL
       THEN /\ head' = t
            /\ next' = [next EXCEPT ![t] = t]
            /\ prev' = [prev EXCEPT ![t] = t]
       ELSE /\ head' = head
            /\ next' = [next EXCEPT ![t] = head, ![tail] = t]
            /\ prev' = [prev EXCEPT ![t] = tail]
  /\ tail' = t
  /\ count' = count + 1
  /\ ring' = Append(ring, t)

link_process(t) ==
  /\ IF head = NULL
       THEN /\ head' = t
            /\ next' = [next EXCEPT ![t] = t]
            /\ prev' = [prev EXCEPT ![t] = t]
       ELSE /\ head' = head
            /\ next' = [next EXCEPT ![t] = head, ![tail] = t]
            /\ prev' = [prev EXCEPT ![t] = tail, ![head] = t]
  /\ tail' = t
  /\ count' = count + 1
  /\ ring' = Append(ring, t)

\* The sequence s without its i-th element.
Without(s, i) == [j \in 1 .. Len(s) - 1 |-> IF j < i THEN s[j] ELSE s[j + 1]]

\* unlink_process(t), with t's own links left to the kfree that follows.
unlink_process(t) ==
  /\ IF count = 1
       THEN /\ head' = NULL /\ tail' = NULL /\ current' = NULL
            /\ next' = [next EXCEPT ![t] = NULL]
            /\ prev' = [prev EXCEPT ![t] = NULL]
       ELSE /\ next' = [next EXCEPT ![prev[t]] = next[t], ![t] = NULL]
            /\ prev' = [prev EXCEPT ![next[t]] = prev[t], ![t] = NULL]
            /\ head' = IF head = t THEN next[t] ELSE head
            /\ tail' = IF tail = t THEN prev[t] ELSE tail
            /\ current' = IF current = t THEN next[t] ELSE current
  /\ count' = count - 1
  /\ \E i \in 1 .. Len(ring) : ring[i] = t /\ ring' = Without(ring, i)

\* kfree(t) returns the Task to the heap.
release(t) ==
  /\ allocated' = allocated \ {t}
  /\ state' = [state EXCEPT ![t] = NULL]
  /\ pid' = [pid EXCEPT ![t] = NULL]
  /\ UNCHANGED next_pid

CallAllowed == phase \in {"boot", "run"}

\* spawn_process and add_task.  kmalloc gives any free address or, out of
\* memory, never returns (see Heap), so the nullptr paths change nothing.
spawn_process(t) ==
  /\ CallAllowed
  /\ t \notin allocated
  /\ next_pid <= MaxPid
  /\ allocated' = allocated \cup {t}
  /\ pid' = [pid EXCEPT ![t] = next_pid]
  /\ next_pid' = next_pid + 1
  /\ state' = [state EXCEPT ![t] = READY]
  /\ link_process(t)
  /\ UNCHANGED <<current, locals, control>>

-----------------------------------------------------------------------------
\* kill_process: the loop of get_by_pid, then the assignment.
kill_process(p) ==
  /\ CallAllowed
  /\ head # NULL
  /\ phase' = "lookup" /\ it' = head /\ wanted' = p
  /\ UNCHANGED <<list, tasks, checked, scheduler_running, stack>>

LookupHit ==
  /\ phase = "lookup"
  /\ pid[it] = wanted
  /\ state' = [state EXCEPT ![it] = TERMINATED]
  /\ Return
  /\ UNCHANGED <<list, pid, allocated, next_pid, scheduler_running, stack>>

\* Mutant: get_by_pid's loop ends before the tail.
LookupMissesTail ==
  /\ phase = "lookup"
  /\ pid[it] # wanted
  /\ IF next[it] # tail
       THEN it' = next[it] /\ UNCHANGED <<phase, checked, wanted>>
       ELSE Return
  /\ UNCHANGED <<list, tasks, scheduler_running, stack>>

LookupMiss ==
  /\ phase = "lookup"
  /\ pid[it] # wanted
  /\ IF next[it] # head
       THEN it' = next[it] /\ UNCHANGED <<phase, checked, wanted>>
       ELSE Return
  /\ UNCHANGED <<list, tasks, scheduler_running, stack>>

-----------------------------------------------------------------------------
\* The entry of yield: cleanup_terminated starts at the head.
EnterYield ==
  /\ CallAllowed
  /\ Len(stack) < MaxDepth
  /\ head # NULL
  /\ phase' = "cleanup" /\ it' = head
  /\ UNCHANGED <<list, checked, wanted, scheduler_running, stack>>

yield == EnterYield /\ UNCHANGED tasks

\* kill_current and sleep mark process_list.current, then call yield.
MarkCurrentAndYield(s) ==
  /\ current # NULL
  /\ EnterYield
  /\ state' = [state EXCEPT ![current] = s]
  /\ UNCHANGED <<pid, allocated, next_pid>>

kill_current == MarkCurrentAndYield(TERMINATED)

\* There is no wakeup: ticks is ignored.
sleep == MarkCurrentAndYield(WAITING)

\* Mutant: yield's search starts at current instead of behind it.
CleanupThenCurrent(n) ==
  IF n # head' /\ count' > 0
    THEN it' = n /\ UNCHANGED <<phase, checked, wanted>>
    ELSE IF current' = NULL \/ count' = 0
           THEN Return
           ELSE phase' = "scan" /\ it' = current' /\ UNCHANGED <<checked, wanted>>

\* Mutant: cleanup_terminated's loop ends before the tail.
CleanupMissesTail(n) ==
  IF n # tail' /\ count' > 0
    THEN it' = n /\ UNCHANGED <<phase, checked, wanted>>
    ELSE IF current' = NULL \/ count' = 0
           THEN Return
           ELSE /\ phase' = "scan" /\ it' = next'[current']
                /\ UNCHANGED <<checked, wanted>>

\* The bottom of cleanup_terminated's loop; after it, yield returns or starts
\* to look for a task behind process_list.current.
CleanupContinues(n) ==
  IF n # head' /\ count' > 0
    THEN it' = n /\ UNCHANGED <<phase, checked, wanted>>
    ELSE IF current' = NULL \/ count' = 0
           THEN Return
           ELSE /\ phase' = "scan" /\ it' = next'[current']
                /\ UNCHANGED <<checked, wanted>>

\* Mutant: the next pointer is read after the task was freed.
CleanupReadsFreed ==
  /\ phase = "cleanup"
  /\ state[it] = TERMINATED
  /\ unlink_process(it)
  /\ release(it)
  /\ CleanupContinues(next'[it])
  /\ UNCHANGED <<scheduler_running, stack>>

CleanupReap ==
  /\ phase = "cleanup"
  /\ state[it] = TERMINATED
  /\ unlink_process(it)
  /\ release(it)
  /\ CleanupContinues(next[it])
  /\ UNCHANGED <<scheduler_running, stack>>

CleanupKeep ==
  /\ phase = "cleanup"
  /\ state[it] # TERMINATED
  /\ UNCHANGED <<list, tasks, scheduler_running, stack>>
  /\ CleanupContinues(next[it])

\* Mutant: the search goes backwards.
ScanSkipBackwards ==
  /\ phase = "scan"
  /\ checked < count /\ ~Runnable(it)
  /\ it' = prev[it] /\ checked' = checked + 1
  /\ UNCHANGED <<list, tasks, control, wanted>>

\* Mutant: the tasks looked at are not counted.
ScanSkipUncounted ==
  /\ phase = "scan"
  /\ checked < count /\ ~Runnable(it)
  /\ it' = next[it] /\ checked' = checked
  /\ UNCHANGED <<list, tasks, control, wanted>>

ScanSkip ==
  /\ phase = "scan"
  /\ checked < count /\ ~Runnable(it)
  /\ it' = next[it] /\ checked' = checked + 1
  /\ UNCHANGED <<list, tasks, control, wanted>>

ScanReturns ==
  /\ phase = "scan"
  /\ checked >= count \/ (Runnable(it) /\ it = current)
  /\ Return
  /\ UNCHANGED <<list, tasks, scheduler_running, stack>>

\* Make t current and call its entry function.
Enter(t) ==
  /\ current' = t
  /\ state' = [state EXCEPT ![t] = ACTIVE]
  /\ stack' = Append(stack, t)
  /\ phase' = "run"
  /\ it' = NULL /\ checked' = 0 /\ wanted' = 0
  /\ UNCHANGED <<next, prev, head, tail, count, ring, pid, allocated, next_pid>>

ScanSwitches ==
  /\ phase = "scan"
  /\ checked < count /\ Runnable(it) /\ it # current
  /\ Enter(it)
  /\ UNCHANGED scheduler_running

-----------------------------------------------------------------------------
\* start_scheduler, called once, by _start.
start_scheduler ==
  /\ phase = "boot"
  /\ MaxDepth > 0
  /\ IF count = 0
       THEN phase' = "halt" /\ UNCHANGED <<it, scheduler_running>>
       ELSE phase' = "start" /\ it' = head /\ scheduler_running' = TRUE
  /\ UNCHANGED <<list, tasks, checked, wanted, stack>>

StartSkip ==
  /\ phase = "start"
  /\ ~Runnable(it) /\ next[it] # head
  /\ it' = next[it]
  /\ UNCHANGED <<list, tasks, control, checked, wanted>>

\* Mutant: the head is entered without a look at its state.
StartEntersHead ==
  /\ phase = "start"
  /\ Enter(head)
  /\ UNCHANGED scheduler_running

\* When no task is runnable the loop ends at the head, and runs it.
StartEnters ==
  /\ phase = "start"
  /\ \/ Runnable(it) /\ Enter(it)
     \/ ~Runnable(it) /\ next[it] = head /\ Enter(head)
  /\ UNCHANGED scheduler_running

stop_scheduler ==
  /\ CallAllowed
  /\ scheduler_running' = FALSE
  /\ UNCHANGED <<list, tasks, locals, stack, phase>>

\* The innermost entry function returns into the yield (or start_scheduler)
\* that called it, which returns too; process_list.current stays.
task_returns ==
  /\ phase = "run"
  /\ stack' = SubSeq(stack, 1, Len(stack) - 1)
  /\ phase' = IF Len(stack) = 1 THEN "halt" ELSE "run"
  /\ UNCHANGED <<list, tasks, locals, scheduler_running>>

\* _start ends in a hlt loop.
halted == phase = "halt" /\ UNCHANGED vars

LoopStep ==
  \/ LookupHit \/ LookupMiss
  \/ CleanupReap \/ CleanupKeep
  \/ ScanSkip \/ ScanReturns \/ ScanSwitches
  \/ StartSkip \/ StartEnters

Next ==
  \/ \E t \in Addr : spawn_process(t)
  \/ \E p \in 1 .. MaxPid : kill_process(p)
  \/ yield \/ kill_current \/ sleep
  \/ start_scheduler \/ stop_scheduler \/ task_returns
  \/ LoopStep
  \/ halted

\* A CPU in a loop of the kernel goes on executing it.
Spec == Init /\ [][Next]_vars /\ WF_vars(LoopStep)
-----------------------------------------------------------------------------
Position == 1 .. Len(ring)

\* The position after i, and before i, around the ring.
After(i) == IF i = Len(ring) THEN 1 ELSE i + 1
Before(i) == IF i = 1 THEN Len(ring) ELSE i - 1

Linked == {ring[i] : i \in Position}

\* The state is well formed; the unsigned count never goes below zero.
TypeOK ==
  /\ next \in [Addr -> Addr \cup {NULL}]
  /\ prev \in [Addr -> Addr \cup {NULL}]
  /\ state \in [Addr -> State \cup {NULL}]
  /\ pid \in [Addr -> Nat \cup {NULL}]
  /\ allocated \subseteq Addr
  /\ {head, tail, current, it} \subseteq Addr \cup {NULL}
  /\ count \in Nat /\ next_pid \in Nat /\ checked \in Nat /\ wanted \in Nat
  /\ scheduler_running \in BOOLEAN
  /\ stack \in Seq(Addr)
  /\ phase \in {"boot", "run", "lookup", "cleanup", "scan", "start", "halt"}
  /\ ring \in Seq(Addr)

\* The pointers form one circle: next and prev go around the same sequence of
\* distinct tasks in opposite directions, head and tail are its ends and count
\* is its length, whatever tasks link_process and unlink_process have added
\* and removed, from whichever end or middle.
RingOK ==
  /\ count = Len(ring)
  /\ \A i, j \in Position : ring[i] = ring[j] => i = j
  /\ \A i \in Position : /\ next[ring[i]] = ring[After(i)]
                         /\ prev[ring[i]] = ring[Before(i)]
  /\ IF ring = <<>> THEN head = NULL /\ tail = NULL
                    ELSE head = ring[1] /\ tail = ring[Len(ring)]

\* No pointer outlives its Task: the list holds exactly the allocated tasks,
\* process_list.current is one of them or null, and a loop that is running
\* (one that unlinks and frees tasks as it goes included) stands on one.
NoDanglingTask ==
  /\ Linked = allocated
  /\ current \in allocated \cup {NULL}
  /\ phase \in {"lookup", "cleanup", "scan", "start"} => it \in allocated
  /\ phase = "scan" => current # NULL

\* get_by_pid can name every task: no two tasks in the list share a pid.
PidsUnique ==
  \A t, u \in allocated : pid[t] = pid[u] => t = u

\* kill_process(p) misses no task: when its loop ends without a hit, no task
\* in the list has pid p.
KillReachesTarget ==
  [][phase = "lookup" /\ phase' # "lookup" /\ state' = state
       => \A t \in allocated : pid[t] = wanted => state[t] = TERMINATED]_vars

\* A yield that returns without a switch leaves no other task that can run,
\* with one exception: process_list.current is null, before the first switch or
\* after the last task freed itself, and then yield gives up whatever has been
\* spawned since.  "Other" is measured from process_list.current, which need not
\* be the caller: unlink_process moves it to a task that was never entered.
YieldOverlooksNobody ==
  [][(/\ phase \in {"cleanup", "scan"} /\ phase' \in {"boot", "run"}
      /\ stack' = stack /\ current' # NULL)
       => \A t \in allocated' \ {current'} : ~Runnable(t)']_vars

\* cleanup_terminated frees every terminated task in one pass, except in a
\* pass that begins by freeing the head: that one stops there.
CleanupFreesAll ==
  [][phase = "cleanup" /\ phase' # "cleanup" /\ head' = head
       => \A t \in allocated' : state'[t] # TERMINATED]_vars

\* A task that sleeps or has been killed is never entered again, except by a
\* start_scheduler that finds no task to run and takes the head.
NoRevival ==
  [][\A t \in allocated :
       state[t] \in {WAITING, TERMINATED} /\ state'[t] = ACTIVE
         => phase = "start" /\ t = head /\ \A u \in allocated : ~Runnable(u)]_vars

Abstract == INSTANCE TaskRing

\* The pointer list implements the ring: every link_process, unlink_process,
\* kill_process, sleep, yield and start_scheduler is a step of TaskRing or
\* leaves the ring alone.
ImplementsTaskRing == Abstract!Spec

\* Every walk over the list ends, however many tasks are freed under it.
LoopsTerminate ==
  phase \in {"lookup", "cleanup", "scan", "start"}
    ~> phase \in {"boot", "run"}
=============================================================================
