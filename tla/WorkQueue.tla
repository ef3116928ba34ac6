------------------------------ MODULE WorkQueue ------------------------------
(***************************************************************************)
(* A work queue: one thread that runs its items one after another, the     *)
(* kernel's delayable work items and what subsys/threading adds to them:   *)
(* tasks that schedule themselves again, a cancel that waits, and jobs     *)
(* whose object has to outlive the kernel's last use of it.                *)
(*                                                                         *)
(* The module has no variables.  A queue is a record that a module with a  *)
(* queue keeps in a variable of its own:                                   *)
(*   fifo        the items that wait, in order                             *)
(*   running     the item the thread is in, or NoItem                      *)
(*   delayed     the items with a timer that has not expired               *)
(*   cancelling  the items whose cancellation waits for their handler      *)
(*   tasks       runner_tasks_: the jobs of Run that have not completed    *)
(*   completed   runner_completed_tasks_: the completed jobs still kept    *)
(***************************************************************************)
EXTENDS Integers, Sequences

NoItem == <<>>

EmptyQueue ==
  [fifo |-> <<>>, running |-> NoItem, delayed |-> {}, cancelling |-> {},
   tasks |-> {}, completed |-> {}]

(***************************************************************************)
(* The kernel.                                                             *)
(***************************************************************************)
ItemsOf(s) == {s[i] : i \in DOMAIN s}

\* k_work_delayable_busy_get: the item is waiting, delayed or in its handler
Busy(q, w) ==
  w \in ItemsOf(q.fifo) \cup q.delayed \cup q.cancelling \cup {q.running}

\* An item is in the queue at most once, and never while it is cancelled
Submit(q, w) ==
  IF w \in q.cancelling \cup ItemsOf(q.fifo) THEN q
  ELSE [q EXCEPT !.fifo = Append(@, w)]

\* A timer that is set is not affected by a cancellation under way
After(q, w, delay) ==
  IF delay THEN [q EXCEPT !.delayed = @ \cup {w}] ELSE Submit(q, w)

Unscheduled(q, w) == [q EXCEPT !.delayed = @ \ {w}]

Expire(q, w) == Submit(Unscheduled(q, w), w)

Take(q) == [q EXCEPT !.fifo = Tail(@), !.running = Head(q.fifo)]

\* The handler has returned: whoever waits for the cancellation goes on
Retire(q) ==
  [q EXCEPT !.running = NoItem, !.cancelling = @ \ {q.running}]

(***************************************************************************)
(* WorkQueueTaskBase                                                       *)
(***************************************************************************)
Schedule(q, w, delay) ==
  IF w \in ItemsOf(q.fifo) \cup q.delayed \cup q.cancelling THEN q
  ELSE After(q, w, delay)

Reschedule(q, w, delay) == After(Unscheduled(q, w), w, delay)

\* the list without w, which is in it once at most
Unlinked(s, w) ==
  IF w \notin ItemsOf(s) THEN s
  ELSE LET at == CHOOSE i \in DOMAIN s : s[i] = w
       IN [i \in 1..(Len(s) - 1) |-> s[IF i < at THEN i ELSE i + 1]]

\* The first half of Cancel.  Its caller waits while the item is cancelling;
\* the result is whether the item was busy.
Cancel(q, w) ==
  [q EXCEPT !.delayed = @ \ {w},
            !.fifo = Unlinked(@, w),
            !.cancelling = IF q.running = w THEN @ \cup {w} ELSE @]

CancelWaits(q, w) == w \in q.cancelling

(***************************************************************************)
(* WorkQueueThread                                                         *)
(***************************************************************************)
\* TaskHandler, after Execute
TaskDone(q, w, reschedule) == IF reschedule THEN Reschedule(q, w, TRUE) ELSE q

Run(q, job) == Submit([q EXCEPT !.tasks = @ \cup {job}], job)

\* Mutant: the completed jobs are dropped after the one that is completing
\* has joined them, without a look at the kernel's use of them.
RunnerDoneDropsAll(q) ==
  [q EXCEPT !.tasks = @ \ {q.running}, !.completed = {}]

\* Mutant: the completed jobs are not dropped.
RunnerDoneDropsNone(q) ==
  [q EXCEPT !.tasks = @ \ {q.running}, !.completed = @ \cup {q.running}]

\* RunnerTaskHandler, after Execute: the object of the job must outlive the
\* handler, so it is kept until a later job finds it idle
RunnerDone(q) ==
  [q EXCEPT !.tasks = @ \ {q.running},
            !.completed = {j \in @ : Busy(q, j)} \cup {q.running}]

\* No job that the kernel still refers to has been freed
Allocated(q, Jobs) == \A j \in Jobs : Busy(q, j) => j \in q.tasks \cup q.completed
=============================================================================
