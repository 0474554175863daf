----------------------------- MODULE TaskManager -----------------------------
(***************************************************************************)
(* TaskManager: a pool of worker threads that sleep on a condition         *)
(* variable, the list of live tasks, and the callbacks the main thread     *)
(* runs at the end of a frame that finds this list empty.                  *)
(*                                                                         *)
(* s_queueMutex is held across a step only by a worker that has found no   *)
(* work and is about to sleep; every other critical section is one step.   *)
(* Deferred calls (doLater) are not modelled here.                         *)
(***************************************************************************)
EXTENDS Integers, Sequences, FiniteSets

CONSTANTS
    Tasks,      \* tasks that may be created; their number bounds the runs
    Workers,    \* s_workers
    Callbacks,  \* functions given to runWhenTasksFinished: each creates one task
                \* (ImHexApi::Provider::remove), which bears its name here
    NoTask,     \* a worker's job while it has none
    NoWorker    \* owner of the free mutex

ASSUME TaskAssumption ==
    /\ NoTask \notin Tasks \union Callbacks
    /\ Tasks \intersect Callbacks = {}
    /\ NoWorker \notin Workers
    /\ IsFiniteSet(Workers) /\ Workers # {}

VARIABLES
    tasks,        \* s_tasks
    queue,        \* s_taskQueue
    mutex,        \* owner of s_queueMutex between steps
    worker,       \* where each worker is in its loop
    job,          \* the task it holds
    interrupt,    \* tasks with m_shouldInterrupt
    exception,    \* tasks with m_hadException
    finished,     \* tasks with m_finished
    callbacks,    \* s_tasksFinishedCallbacks
    stopping,     \* the workers that were requested to stop
    main,         \* what the main thread does
    created,      \* history: tasks created so far
    waitsFor      \* history: tasks alive when a callback was registered

flags == <<interrupt, exception, finished>>
pool  == <<mutex, worker, job>>
vars  == <<tasks, queue, pool, flags, callbacks, stopping, main, created, waitsFor>>

AllTasks == Tasks \union Callbacks
Places == {"awake", "blocking", "asleep", "running", "ending", "stopped"}
MainPlaces == {"frame", "collected", "calling", "stop", "notify", "join", "exited"}

TypeOK ==
    /\ tasks \in SUBSET AllTasks
    /\ queue \in Seq(AllTasks)
    /\ mutex \in Workers \union {NoWorker}
    /\ worker \in [Workers -> Places]
    /\ job \in [Workers -> AllTasks \union {NoTask}]
    /\ interrupt \in SUBSET AllTasks
    /\ exception \in SUBSET AllTasks
    /\ finished \in SUBSET AllTasks
    /\ callbacks \in Seq(Callbacks)
    /\ stopping \in SUBSET Workers
    /\ main \in [at : MainPlaces, next : Nat]
    /\ created \in SUBSET AllTasks
    /\ waitsFor \in [Callbacks -> SUBSET AllTasks]

At(place) == {w \in Workers : worker[w] = place}
Queued == {queue[i] : i \in DOMAIN queue}
Held == {job[w] : w \in At("running") \union At("ending")}

MainGoes(place) == main' = [at |-> place, next |-> 1]
Move(w, place) == worker' = [worker EXCEPT ![w] = place]

-----------------------------------------------------------------------------
(* Creating tasks, from any thread                                         *)

\* Mutant: the task is queued without waking anybody.
MutNotifyOne == UNCHANGED worker
\* notify_one: one of the sleeping workers, if there is any, wakes up.
NotifyOne ==
    IF At("asleep") = {} THEN UNCHANGED worker
    ELSE \E w \in At("asleep") : Move(w, "awake")

\* createTask, createBackgroundTask, createBlockingTask
CreateTask(t) ==
    /\ mutex = NoWorker /\ t \notin created
    /\ created' = created \union {t}
    /\ tasks' = tasks \union {t}
    /\ queue' = Append(queue, t)
    /\ NotifyOne

-----------------------------------------------------------------------------
(* The workers                                                             *)

\* Mutant: the task stays at the front of the queue.
MutGrab(w) ==
    /\ Move(w, "running")
    /\ job' = [job EXCEPT ![w] = Head(queue)]
    /\ UNCHANGED <<queue, mutex>>
Grab(w) ==
    /\ Move(w, "running")
    /\ job' = [job EXCEPT ![w] = Head(queue)]
    /\ queue' = Tail(queue)
    /\ UNCHANGED mutex

\* The predicate of the condition variable, and what the loop makes of it.
Look(w) ==
    /\ worker[w] = "awake" /\ mutex = NoWorker
    /\ \/ w \in stopping /\ Move(w, "stopped") /\ UNCHANGED <<queue, mutex, job>>
       \/ w \notin stopping /\ queue # <<>> /\ Grab(w)
       \/ /\ w \notin stopping /\ queue = <<>>
          /\ mutex' = w
          /\ Move(w, "blocking")
          /\ UNCHANGED <<queue, job>>
    /\ UNCHANGED <<tasks, flags, callbacks, stopping, main, created, waitsFor>>

\* Sleeping releases the mutex; it is taken again on waking up, with Look.
Sleep(w) ==
    /\ worker[w] = "blocking"
    /\ Move(w, "asleep")
    /\ mutex' = NoWorker
    /\ UNCHANGED <<tasks, queue, job, flags, callbacks, stopping, main, created,
                   waitsFor>>

SpuriousWakeup(w) ==
    /\ worker[w] = "asleep"
    /\ Move(w, "awake")
    /\ UNCHANGED <<tasks, queue, mutex, job, flags, callbacks, stopping, main,
                   created, waitsFor>>

\* The task's function returns, throws, or finds in update() that it is to stop.
TaskReturns(w) ==
    /\ worker[w] = "running"
    /\ Move(w, "ending")
    /\ UNCHANGED <<tasks, queue, mutex, job, flags, callbacks, stopping, main,
                   created, waitsFor>>

TaskInterrupted(w) == job[w] \in interrupt /\ TaskReturns(w)

TaskThrows(w) ==
    /\ worker[w] = "running"
    /\ Move(w, "ending")
    /\ exception' = exception \union {job[w]}
    /\ UNCHANGED <<tasks, queue, mutex, job, interrupt, finished, callbacks, stopping,
                   main, created, waitsFor>>

TaskCreates(w, t) ==
    /\ worker[w] = "running"
    /\ CreateTask(t)
    /\ UNCHANGED <<mutex, job, flags, callbacks, stopping, main, waitsFor>>

\* Mutant: the worker lets go of the task before it marks it finished.
MutLetGo(w) ==
    /\ job' = [job EXCEPT ![w] = NoTask]
    /\ finished' = finished \union {job'[w]}
LetGo(w) ==
    /\ job' = [job EXCEPT ![w] = NoTask]
    /\ finished' = finished \union {job[w]}

FinishTask(w) ==
    /\ worker[w] = "ending"
    /\ Move(w, "awake")
    /\ LetGo(w)
    /\ UNCHANGED <<tasks, queue, mutex, interrupt, exception, callbacks, stopping,
                   main, created, waitsFor>>

-----------------------------------------------------------------------------
(* The main thread during a frame                                          *)

UserCreates(t) ==
    /\ main.at = "frame"
    /\ CreateTask(t)
    /\ UNCHANGED <<mutex, job, flags, callbacks, stopping, main, waitsFor>>

UserInterrupts(t) ==
    /\ main.at = "frame"
    /\ t \in tasks \ interrupt
    /\ interrupt' = interrupt \union {t}
    /\ UNCHANGED <<tasks, queue, pool, exception, finished, callbacks, stopping, main,
                   created, waitsFor>>

\* drawGlobalPopups shows the exception of one task.
ClearException(t) ==
    /\ main.at = "frame"
    /\ t \in tasks \intersect exception
    /\ exception' = exception \ {t}
    /\ UNCHANGED <<tasks, queue, pool, interrupt, finished, callbacks, stopping, main,
                   created, waitsFor>>

RunWhenTasksFinished(f) ==
    /\ main.at = "frame"
    /\ f \notin created /\ f \notin {callbacks[i] : i \in DOMAIN callbacks}
    /\ interrupt' = interrupt \union tasks
    /\ callbacks' = Append(callbacks, f)
    /\ waitsFor' = [waitsFor EXCEPT ![f] = tasks]
    /\ UNCHANGED <<tasks, queue, pool, exception, finished, stopping, main, created>>

\* Mutant: failed tasks are collected as well.
MutCollectable(t) == t \in finished
Collectable(t) == t \in finished /\ t \notin exception

\* collectGarbage, at the end of the frame: under the mutex ...
CollectGarbage ==
    /\ main.at = "frame" /\ mutex = NoWorker
    /\ tasks' = {t \in tasks : ~Collectable(t)}
    /\ MainGoes("collected")
    /\ UNCHANGED <<queue, pool, flags, callbacks, stopping, created, waitsFor>>

\* Mutant: no task is waiting for a worker.
MutAllDone == queue = <<>>
AllDone == tasks = {}

\* ... and without it.
CheckTasksFinished ==
    /\ main.at = "collected"
    /\ MainGoes(IF AllDone /\ callbacks # <<>> THEN "calling" ELSE "frame")
    /\ UNCHANGED <<tasks, queue, pool, flags, callbacks, stopping, created, waitsFor>>

\* Mutant: the list of callbacks is not cleared.
MutForget == UNCHANGED callbacks
Forget == callbacks' = <<>>

\* One callback after the other; each creates the task that closes a provider.
CallCallback ==
    /\ main.at = "calling"
    /\ CreateTask(callbacks[main.next])
    /\ IF main.next < Len(callbacks)
       THEN main' = [main EXCEPT !.next = @ + 1] /\ UNCHANGED callbacks
       ELSE MainGoes("frame") /\ Forget
    /\ UNCHANGED <<mutex, job, flags, stopping, waitsFor>>

-----------------------------------------------------------------------------
(* exit()                                                                  *)

ExitInterrupt ==
    /\ main.at = "frame"
    /\ interrupt' = interrupt \union tasks
    /\ MainGoes("stop")
    /\ UNCHANGED <<tasks, queue, pool, exception, finished, callbacks, stopping, created,
                   waitsFor>>

\* One worker after the other, without the mutex.
ExitRequestStop(w) ==
    /\ main.at = "stop" /\ w \notin stopping
    /\ stopping' = stopping \union {w}
    /\ IF stopping' = Workers THEN MainGoes("notify") ELSE UNCHANGED main
    /\ UNCHANGED <<tasks, queue, pool, flags, callbacks, created, waitsFor>>

WakeAll == worker' = [w \in Workers |-> IF worker[w] = "asleep" THEN "awake" ELSE worker[w]]

\* Mutant: the workers are notified without holding the mutex.
MutExitNotify ==
    /\ main.at = "notify"
    /\ WakeAll
    /\ MainGoes("join")
    /\ UNCHANGED <<tasks, queue, mutex, job, flags, callbacks, stopping, created,
                   waitsFor>>
ExitNotify ==
    /\ main.at = "notify" /\ mutex = NoWorker
    /\ WakeAll
    /\ MainGoes("join")
    /\ UNCHANGED <<tasks, queue, mutex, job, flags, callbacks, stopping, created,
                   waitsFor>>

ExitJoin ==
    /\ main.at = "join" /\ At("stopped") = Workers
    /\ tasks' = {} /\ queue' = <<>> /\ callbacks' = <<>>
    /\ MainGoes("exited")
    /\ UNCHANGED <<pool, flags, stopping, created, waitsFor>>

-----------------------------------------------------------------------------
Init ==
    /\ tasks = {} /\ queue = <<>> /\ mutex = NoWorker
    /\ worker = [w \in Workers |-> "awake"]
    /\ job = [w \in Workers |-> NoTask]
    /\ interrupt = {} /\ exception = {} /\ finished = {}
    /\ callbacks = <<>> /\ stopping = {}
    /\ main = [at |-> "frame", next |-> 1]
    /\ created = {} /\ waitsFor = [f \in Callbacks |-> {}]

UserStep ==
    \/ \E t \in Tasks : UserCreates(t)
    \/ \E t \in AllTasks : UserInterrupts(t)
    \/ \E f \in Callbacks : RunWhenTasksFinished(f)
    \/ ExitInterrupt

FrameStep ==
    \/ CollectGarbage
    \/ CheckTasksFinished
    \/ CallCallback

ExitStep == (\E w \in Workers : ExitRequestStop(w)) \/ ExitNotify \/ ExitJoin

LoopStep(w) == Look(w) \/ Sleep(w) \/ FinishTask(w)

JobStep(w) ==
    \/ TaskReturns(w) \/ TaskThrows(w)
    \/ \E t \in Tasks : TaskCreates(w, t)

Next ==
    \/ UserStep \/ FrameStep \/ ExitStep
    \/ \E t \in AllTasks : ClearException(t)
    \/ \E w \in Workers : LoopStep(w) \/ JobStep(w) \/ SpuriousWakeup(w)

Spec == Init /\ [][Next]_vars

\* A thread that waits for the mutex gets it eventually (hence SF), the main
\* thread ends its frames, shows exceptions and proceeds in exit(), and a task
\* told to stop does.  Tasks owe nothing else: they may run forever.
Fairness ==
    /\ SF_vars(CollectGarbage) /\ WF_vars(CheckTasksFinished)
    /\ SF_vars(CallCallback)
    /\ SF_vars(\E t \in AllTasks : ClearException(t))
    /\ WF_vars(\E w \in Workers : ExitRequestStop(w)) /\ SF_vars(ExitNotify) /\ WF_vars(ExitJoin)
    /\ \A w \in Workers :
          /\ SF_vars(Look(w)) /\ WF_vars(Sleep(w)) /\ WF_vars(FinishTask(w))
          /\ WF_vars(TaskInterrupted(w))

FairSpec == Spec /\ Fairness

-----------------------------------------------------------------------------
(* Properties                                                              *)

\* No lost wakeup: while a worker sleeps, every queued task has a worker of its
\* own on the way to the queue.
NoLostWakeup ==
    stopping = {} /\ At("asleep") # {} => Len(queue) =< Cardinality(At("awake"))

\* A task is in one worker's hands or in the queue once, never both: it runs at
\* most once.
OneOwner ==
    /\ \A v, w \in At("running") \union At("ending") : job[v] = job[w] => v = w
    /\ Queued \intersect (Held \union finished) = {}
    /\ Held \intersect finished = {}
    /\ Cardinality(Queued) = Len(queue)

\* The list that exit() interrupts, and that callbacks wait to be empty, misses
\* no task that is queued, runs, or failed without the user having seen it yet.
NoTaskUnlisted ==
    main.at # "exited" => Queued \union Held \union exception \subseteq tasks

\* When a callback runs, every task that was alive when it was registered has
\* finished, and the user has seen the failures among them: whatever the callback
\* deletes, none of them still uses it.
CallbackAfterTasks ==
    main.at = "calling" =>
        waitsFor[callbacks[main.next]] \subseteq finished \ exception

\* exit() returns once the running tasks were told to stop: no worker sleeps
\* through the request.
ExitTerminates ==
    (main.at = "join" /\ \A w \in At("running") : job[w] \in interrupt)
        ~> main.at = "exited"

\* A registered callback is called, unless the program exits first, if no
\* worker runs its task forever.
CallbacksAreCalled ==
    (\A w \in Workers : []<>(worker[w] # "running")) =>
        (callbacks # <<>> ~> callbacks = <<>>)

\* Callbacks that were registered and not called yet.
Registered == {callbacks[i] : i \in main.next .. Len(callbacks)}

Life == INSTANCE TaskLife WITH
    waiting <- Queued, running <- Held, ended <- finished, unseen <- exception,
    registered <- Registered, waits <- waitsFor, open <- main.at # "exited"

\* The pool of workers implements the life of tasks and callbacks: each task is
\* started and ends once, each callback is called once, after the tasks it waits
\* for, and nothing is dropped before exit() has joined the workers.
ImplementsLife == Life!Spec
=============================================================================
