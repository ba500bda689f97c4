------------------------------- MODULE Platform -------------------------------
(***************************************************************************)
(* The platform on libuv (src/platform/uv) and the heartbeat on top of it  *)
(* (src/delivery/heartbeat.c): executors that other threads submit to,     *)
(* tasks for the worker threads, timers, UDP sockets, and the shutdown     *)
(* that closes all of them and calls back.                                 *)
(*                                                                         *)
(* The loop goes round in phases: due timers and idle handles ("timers"),  *)
(* what the poll found ("poll"), the callbacks of closed handles           *)
(* ("closing").  One callback is one step, but that of an executor, which  *)
(* runs tasks while other threads submit.  The loop's application calls    *)
(* the platform from its callbacks, in any phase.                          *)
(***************************************************************************)
EXTENDS Integers, Sequences, FiniteSets

CONSTANTS
    Executors, Threads,     \* the executors of the pool; the threads that submit
    Works,                  \* the tasks of the workers' pool
    Timers, Endpoints,      \* the timers of the pool; the endpoints of one heartbeat
    Sockets,                \* the UDP sockets of the pool
    None,
    UsedTogether,           \* bound: the sets of parts that an application uses
    LateStarts,             \* whether it starts timers and sockets when it has asked
                            \* for the shutdown
    MayFail,                \* whether opening a socket or sending on it may fail
    MaxTasks, MaxAcquires, MaxWorks, MaxStartsOfTimers, MaxOpens, MaxSends   \* bounds

ASSUME PlatformAssumption ==
    /\ None \notin Executors \union Timers
    /\ {LateStarts, MayFail} \subseteq BOOLEAN
    /\ {MaxTasks, MaxAcquires, MaxWorks, MaxStartsOfTimers, MaxOpens, MaxSends} \subseteq Nat

Parts == {"executors", "workers", "timers", "sockets"}
Handles == {"heartbeat", "other"}

VARIABLES
    uses,           \* the parts the application uses
    phase,          \* of the loop
    platform,       \* running, the idle handle, the components that are shut down
    on,             \* the controllers that run
    executor,       \* of each: listed, running, flags, front, back, signal, closing
    executing,      \* the executor whose callback is running
    thread,         \* of each: where its submit is, and the executor
    task_counter,
    work,           \* of each: state, canceled
    timer, handle,  \* of each timer: state, repeat, handle; of each handle: its timer
    scheduled,      \* the endpoints of the heartbeat
    socket,         \* of each: state, listed, its sends
    sends,          \* the sends taken from their pool
    sending_requests,
    counted,        \* for the bounds
    tasksRun, pushed,\* history: the tasks each executor ran; how many were pushed
    calledBack,     \* history: the calls of the shutdown callback
    broken          \* history: the assertions that failed

execVars == <<executor, executing, thread, task_counter, tasksRun, pushed>>
timerVars == <<timer, handle, scheduled>>
socketVars == <<socket, sends, sending_requests>>
loopVars == <<phase, platform, on, calledBack, broken>>
platformVars == <<uses, loopVars, execVars, work, timerVars, socketVars, counted>>

Closed == [listed |-> FALSE, running |-> FALSE, flags |-> {}, front |-> <<>>, back |-> <<>>,
           signal |-> FALSE, closing |-> FALSE]
NoTimer == [state |-> "free", repeat |-> FALSE, handle |-> None]
NoSocket == [state |-> "free", listed |-> FALSE, sends |-> 0]

PlatformInit ==
    /\ uses \in UsedTogether
    /\ phase = "timers"
    /\ platform = [running |-> TRUE, idle |-> FALSE, components |-> {}]
    /\ on = Parts
    /\ executor = [e \in Executors |-> Closed] /\ executing = None
    /\ thread = [t \in Threads |-> [at |-> "out", executor |-> None]]
    /\ task_counter = 0
    /\ work = [w \in Works |-> [state |-> "free", canceled |-> FALSE]]
    /\ timer = [t \in Timers |-> NoTimer] /\ handle = [h \in Handles |-> None]
    /\ scheduled = {}
    /\ socket = [s \in Sockets |-> NoSocket] /\ sends = 0 /\ sending_requests = 0
    /\ counted = [k \in {"acquires", "works", "timers", "opens", "sends"} |-> 0]
    /\ tasksRun = [e \in Executors |-> <<>>] /\ pushed = 0
    /\ calledBack = 0 /\ broken = {}

-----------------------------------------------------------------------------
(* the shutdown *)

\* Variant: the callback does not wait for all the components.
ReportAny(part, n) ==
    IF n = 0 THEN UNCHANGED <<platform, calledBack, broken>>
    ELSE /\ platform' = [platform EXCEPT !.components = @ \union {part}]
         /\ calledBack' = calledBack + n
         /\ broken' = IF platform.running THEN broken \union {"report"} ELSE broken
\* pomelo_platform_..._controller_on_shutdown, n times, and pomelo_platform_check_shutdown
Report(part, n) ==
    IF n = 0 THEN UNCHANGED <<platform, calledBack, broken>>
    ELSE /\ platform' = [platform EXCEPT !.components = @ \union {part}]
         /\ calledBack' = IF platform.components \union {part} = Parts THEN calledBack + n ELSE calledBack
         /\ broken' = IF platform.running THEN broken \union {"report"} ELSE broken

Once(condition) == IF condition THEN 1 ELSE 0

\* pomelo_platform_uv_shutdown
Shutdown ==
    /\ platform.running
    /\ platform' = [running |-> FALSE, idle |-> TRUE, components |-> {}]
    /\ UNCHANGED <<uses, phase, on, calledBack, broken, execVars, work, timerVars, socketVars, counted>>

\* pomelo_threadsafe_executor_shutdown of an executor that is not busy
ClosedExecutor(record) ==
    [record EXCEPT !.running = FALSE, !.closing = TRUE, !.signal = FALSE, !.front = <<>>, !.back = <<>>]
Listed == {e \in Executors : executor[e].listed}
LeftTasks(E) == LET count[rest \in SUBSET E] ==
                        IF rest = {} THEN 0
                        ELSE LET e == CHOOSE x \in rest : TRUE
                             IN  Len(executor[e].front) + Len(executor[e].back) + count[rest \ {e}]
                IN  count[E]

\* pomelo_platform_uv_timer_stop_ex, for the timers and for their handles
StoppedTimers(T) == [t \in Timers |-> IF t \in T /\ timer[t].state = "running"
                                      THEN [timer[t] EXCEPT !.state = "closing", !.handle = None]
                                      ELSE timer[t]]
ClearedHandles(T) == [h \in Handles |->
    IF \E t \in T : timer[t].state = "running" /\ timer[t].handle = h THEN None ELSE handle[h]]

\* pomelo_platform_cancel_worker_task_ex: a task that no worker took ends canceled.
CanceledWork(record) ==
    [canceled |-> TRUE, state |-> IF record.state = "queued" /\ ~ record.canceled THEN "done" ELSE record.state]

OpenSockets == {s \in Sockets : socket[s].state # "free" /\ socket[s].listed}

NothingOf(part) ==
    CASE part = "sockets" -> OpenSockets = {} /\ sending_requests = 0
      [] part = "timers" -> \A t \in Timers : timer[t].state = "free"
      [] part = "executors" -> Listed = {}
      [] OTHER -> \A w \in Works : work[w].state = "free"

\* Variant: the sockets are looked at when one is closed only.
NothingToCloseButSockets == {part \in Parts \ {"sockets"} : NothingOf(part)}
\* The parts that have nothing to close: they are reported at once.
NothingToClose == {part \in Parts : NothingOf(part)}

\* shutdown_idle_cb: the controllers in their order.
IdleCallback ==
    LET idle == NothingToClose
    IN  /\ on' = {}
        /\ socket' = [s \in Sockets |-> IF s \in OpenSockets THEN [socket[s] EXCEPT !.state = "closing"]
                                        ELSE socket[s]]
        /\ timer' = StoppedTimers(Timers) /\ handle' = ClearedHandles(Timers)
        /\ executor' = [e \in Executors |-> IF e \in Listed THEN ClosedExecutor(executor[e]) ELSE executor[e]]
        /\ task_counter' = task_counter - LeftTasks(Listed)
        /\ broken' = IF \E e \in Listed : ~ executor[e].running THEN broken \union {"executor"} ELSE broken
        /\ work' = [w \in Works |-> IF work[w].state = "free" THEN work[w] ELSE CanceledWork(work[w])]
        /\ platform' = [platform EXCEPT !.idle = FALSE, !.components = idle]
        /\ calledBack' = IF idle = Parts THEN calledBack + 1 ELSE calledBack

\* The timers that were due have fired.
TimersEnd ==
    /\ phase = "timers" /\ phase' = "poll"
    /\ IF platform.idle THEN IdleCallback
       ELSE UNCHANGED <<on, socket, timer, handle, executor, task_counter, broken, work, platform, calledBack>>
    /\ UNCHANGED <<uses, executing, thread, tasksRun, pushed, scheduled, sends, sending_requests, counted>>

\* All that was ready has been called.
PollEnd ==
    /\ phase = "poll" /\ executing = None
    /\ \A e \in Executors : ~ executor[e].signal
    /\ \A w \in Works : work[w].state # "done"
    /\ phase' = "closing"
    /\ UNCHANGED <<uses, platform, on, calledBack, broken, execVars, work, timerVars, socketVars, counted>>

ClosingEnd ==
    /\ phase = "closing"
    /\ \A e \in Executors : ~ executor[e].closing
    /\ \A t \in Timers : timer[t].state # "closing"
    /\ \A s \in Sockets : socket[s].state # "closing"
    /\ phase' = "timers"
    /\ UNCHANGED <<uses, platform, on, calledBack, broken, execVars, work, timerVars, socketVars, counted>>

Counts(what, most) == counted[what] < most /\ counted' = [counted EXCEPT ![what] = @ + 1]

-----------------------------------------------------------------------------
(* executors *)

\* pomelo_platform_uv_acquire_threadsafe_executor: the flags and the lists of a
\* released executor stay what they were.
Acquire(e) ==
    /\ "executors" \in uses /\ "executors" \in on
    /\ ~ executor[e].listed /\ Counts("acquires", MaxAcquires)
    /\ executor' = [executor EXCEPT ![e].listed = TRUE, ![e].running = TRUE, ![e].signal = FALSE]
    /\ UNCHANGED <<uses, loopVars, executing, thread, task_counter, tasksRun, pushed, work, timerVars, socketVars>>

Task(n, what) == [n |-> n, what |-> what]

\* pomelo_platform_uv_release_threadsafe_executor: a task like the others.
Release(e) ==
    /\ "executors" \in on /\ executor[e].running /\ pushed < MaxTasks
    /\ executor' = [executor EXCEPT ![e].front = Append(@, Task(pushed + 1, "release")), ![e].signal = TRUE]
    /\ pushed' = pushed + 1 /\ task_counter' = task_counter + 1
    /\ UNCHANGED <<uses, loopVars, executing, thread, tasksRun, work, timerVars, socketVars, counted>>

\* pomelo_threadsafe_executor_uv_submit, on another thread: the checks, the push
\* under the mutex, the signal, the count.
Check(t, e) ==
    /\ "executors" \in on /\ executor[e].running
    /\ thread[t].at = "out" /\ pushed < MaxTasks
    /\ thread' = [thread EXCEPT ![t] = [at |-> "checked", executor |-> e]]
    /\ UNCHANGED <<uses, loopVars, executor, executing, task_counter, tasksRun, pushed, work, timerVars, socketVars, counted>>

Push(t) ==
    /\ thread[t].at = "checked"
    /\ thread' = [thread EXCEPT ![t].at = "pushed"]
    /\ executor' = [executor EXCEPT ![thread[t].executor].front = Append(@, Task(pushed + 1, "submit"))]
    /\ pushed' = pushed + 1
    /\ UNCHANGED <<uses, loopVars, executing, task_counter, tasksRun, work, timerVars, socketVars, counted>>

Signal(t) ==
    /\ thread[t].at = "pushed"
    /\ thread' = [thread EXCEPT ![t].at = "signalled"]
    /\ executor' = [executor EXCEPT ![thread[t].executor].signal =
                        @ \/ executor[thread[t].executor].running]
    /\ UNCHANGED <<uses, loopVars, executing, task_counter, tasksRun, pushed, work, timerVars, socketVars, counted>>

Count(t) ==
    /\ thread[t].at = "signalled"
    /\ thread' = [thread EXCEPT ![t] = [at |-> "out", executor |-> None]]
    /\ task_counter' = task_counter + 1
    /\ UNCHANGED <<uses, loopVars, executor, executing, tasksRun, pushed, work, timerVars, socketVars, counted>>

\* Variant: one task is taken for each signal.
SwapOne(record) ==
    [record EXCEPT !.signal = FALSE, !.flags = @ \union {"BUSY"}, !.front = <<>>,
                   !.back = IF record.front = <<>> THEN <<>> ELSE <<Head(record.front)>>]
\* Variant: the list that is run stays the one that others push to.
SwapNot(record) ==
    [record EXCEPT !.signal = FALSE, !.flags = @ \union {"BUSY"}, !.back = record.front]
\* pomelo_platform_task_threadsafe_async_callback: the lists are swapped.
Swap(record) ==
    [record EXCEPT !.signal = FALSE, !.flags = @ \union {"BUSY"}, !.front = record.back, !.back = record.front]

AsyncBegin(e) ==
    /\ phase = "poll" /\ executing = None /\ executor[e].signal
    /\ executing' = e
    /\ executor' = [executor EXCEPT ![e] = Swap(@)]
    /\ task_counter' = task_counter - Len(executor[e].front)
    /\ UNCHANGED <<uses, loopVars, thread, tasksRun, pushed, work, timerVars, socketVars, counted>>

\* The next task; that of a release finds the executor busy and leaves a flag.
RunTask ==
    /\ executing # None
    /\ LET e == executing
       IN  /\ "SHUTDOWN" \notin executor[e].flags /\ executor[e].back # <<>>
           /\ LET task == Head(executor[e].back)
                  ends == task.what = "release" /\ "executors" \in on
              IN  /\ executor' = [executor EXCEPT ![e].back = Tail(@),
                         ![e].flags = IF ends THEN @ \union {"SHUTDOWN"} ELSE @]
                  /\ tasksRun' = [tasksRun EXCEPT ![e] = Append(@, task.n)]
    /\ UNCHANGED <<uses, loopVars, executing, thread, task_counter, pushed, work, timerVars, socketVars, counted>>

AsyncEnd ==
    /\ executing # None
    /\ LET e == executing
           record == [executor[e] EXCEPT !.flags = @ \ {"BUSY"}]
       IN  /\ "SHUTDOWN" \in executor[e].flags \/ executor[e].back = <<>>
           /\ IF "SHUTDOWN" \in executor[e].flags
              THEN /\ executor' = [executor EXCEPT ![e] = ClosedExecutor(record)]
                   /\ task_counter' = task_counter - LeftTasks({e})
                   /\ broken' = IF record.running THEN broken ELSE broken \union {"executor"}
              ELSE /\ executor' = [executor EXCEPT ![e] = record]
                   /\ UNCHANGED <<task_counter, broken>>
    /\ executing' = None
    /\ UNCHANGED <<uses, phase, platform, on, calledBack, thread, tasksRun, pushed, work, timerVars, socketVars, counted>>

\* executor_shutdown_complete
ExecutorClosed(e) ==
    /\ phase = "closing" /\ executor[e].closing
    /\ executor' = [executor EXCEPT ![e].listed = FALSE, ![e].closing = FALSE]
    /\ Report("executors", Once("executors" \notin on /\ Listed = {e}))
    /\ UNCHANGED <<uses, phase, on, executing, thread, task_counter, tasksRun, pushed, work, timerVars, socketVars, counted>>

-----------------------------------------------------------------------------
(* tasks of the workers *)

\* pomelo_platform_uv_submit_worker_task
SubmitWork(w) ==
    /\ "workers" \in uses /\ "workers" \in on
    /\ work[w].state = "free" /\ Counts("works", MaxWorks)
    /\ work' = [work EXCEPT ![w] = [state |-> "queued", canceled |-> FALSE]]
    /\ UNCHANGED <<uses, loopVars, execVars, timerVars, socketVars>>

\* pomelo_platform_uv_cancel_worker_task, by the one who waits for it
CancelWork(w) ==
    /\ work[w].state # "free" /\ ~ work[w].canceled
    /\ work' = [work EXCEPT ![w] = CanceledWork(@)]
    /\ UNCHANGED <<uses, loopVars, execVars, timerVars, socketVars, counted>>

\* pomelo_platform_worker_entry, on a worker
WorkerEntry(w) ==
    /\ work[w].state \in {"queued", "running"}
    /\ work' = [work EXCEPT ![w].state = IF @ = "queued" THEN "running" ELSE "done"]
    /\ UNCHANGED <<uses, loopVars, execVars, timerVars, socketVars, counted>>

\* pomelo_platform_worker_done: released, completed, and then the last one reports.
WorkerDone(w) ==
    /\ phase = "poll" /\ executing = None /\ work[w].state = "done"
    /\ work' = [work EXCEPT ![w] = [state |-> "free", canceled |-> FALSE]]
    /\ Report("workers", Once("workers" \notin on /\ \A v \in Works \ {w} : work[v].state = "free"))
    /\ UNCHANGED <<uses, phase, on, execVars, timerVars, socketVars, counted>>

-----------------------------------------------------------------------------
(* timers and the heartbeat *)

MayStart == platform.running \/ LateStarts

\* pomelo_platform_uv_timer_start does not ask whether the controller runs.
StartTimer(t, h, repeat) ==
    /\ "timers" \in uses /\ MayStart /\ timer[t].state = "free"
    /\ Counts("timers", MaxStartsOfTimers)
    /\ timer' = [timer EXCEPT ![t] = [state |-> "running", repeat |-> repeat, handle |-> h]]
    /\ handle' = [handle EXCEPT ![h] = t]

\* pomelo_platform_uv_timer_stop
StopTimer(h) ==
    IF handle[h] = None THEN UNCHANGED <<timer, handle>>
    ELSE /\ timer' = StoppedTimers({handle[h]})
         /\ handle' = [ClearedHandles({handle[h]}) EXCEPT ![h] = None]

\* pomelo_delivery_heartbeat_schedule: the first endpoint starts the timer.
Schedule(d) ==
    /\ d \notin scheduled /\ scheduled' = scheduled \union {d}
    /\ IF scheduled = {} THEN \E t \in Timers : StartTimer(t, "heartbeat", TRUE)
       ELSE UNCHANGED <<timer, handle, counted>>
    /\ UNCHANGED <<uses, loopVars, execVars, work, socketVars>>

\* ... and stops it again when the endpoint finds no place in the list.
ScheduleFails ==
    /\ scheduled = {} /\ "timers" \in uses /\ MayStart
    /\ Counts("timers", MaxStartsOfTimers)
    /\ \E t \in Timers :
          /\ timer[t].state = "free"
          /\ timer' = [timer EXCEPT ![t] = [state |-> "closing", repeat |-> TRUE, handle |-> None]]
    /\ UNCHANGED <<uses, loopVars, execVars, work, handle, scheduled, socketVars>>

\* Variant: the timer is stopped by the first endpoint that goes.
UnscheduleAny(d) ==
    /\ d \in scheduled /\ scheduled' = scheduled \ {d}
    /\ StopTimer("heartbeat")
    /\ UNCHANGED <<uses, loopVars, execVars, work, socketVars, counted>>
\* pomelo_delivery_heartbeat_unschedule: the last one stops it.
Unschedule(d) ==
    /\ d \in scheduled /\ scheduled' = scheduled \ {d}
    /\ IF scheduled = {d} THEN StopTimer("heartbeat") ELSE UNCHANGED <<timer, handle>>
    /\ UNCHANGED <<uses, loopVars, execVars, work, socketVars, counted>>

\* pomelo_delivery_heartbeat_cleanup
CleanupHeartbeat ==
    /\ scheduled # {} /\ scheduled' = {}
    /\ StopTimer("heartbeat")
    /\ UNCHANGED <<uses, loopVars, execVars, work, socketVars, counted>>

\* Another timer, of a resend or an emitter, whose user stops it before a start.
StartOther(t, repeat) ==
    /\ handle["other"] = None
    /\ StartTimer(t, "other", repeat)
    /\ UNCHANGED <<uses, loopVars, execVars, work, scheduled, socketVars>>

StopOther ==
    /\ handle["other"] # None /\ StopTimer("other")
    /\ UNCHANGED <<uses, loopVars, execVars, work, scheduled, socketVars, counted>>

\* pomelo_platform_uv_timer_callback: a timer that does not repeat stops itself.
TimerFires(t) ==
    /\ phase = "timers" /\ timer[t].state = "running" /\ ~ timer[t].repeat
    /\ timer' = StoppedTimers({t}) /\ handle' = ClearedHandles({t})
    /\ UNCHANGED <<uses, loopVars, execVars, work, scheduled, socketVars, counted>>

\* uv_timer_stop_complete
TimerClosed(t) ==
    /\ phase = "closing" /\ timer[t].state = "closing"
    /\ timer' = [timer EXCEPT ![t] = NoTimer]
    /\ Report("timers", Once("timers" \notin on /\ \A u \in Timers \ {t} : timer[u].state = "free"))
    /\ UNCHANGED <<uses, phase, on, execVars, work, handle, scheduled, socketVars, counted>>

-----------------------------------------------------------------------------
(* UDP *)

\* pomelo_platform_uv_udp_bind and _connect: listed at last; a failure before closes
\* a socket that is in no list.
Open(s) ==
    /\ "sockets" \in uses /\ MayStart /\ socket[s].state = "free" /\ Counts("opens", MaxOpens)
    /\ \E opened \in {TRUE} \union {~ MayFail} :
          socket' = [socket EXCEPT ![s] = [state |-> IF opened THEN "open" ELSE "closing",
                                           listed |-> opened, sends |-> 0]]
    /\ UNCHANGED <<uses, loopVars, execVars, work, timerVars, sends, sending_requests>>

\* pomelo_platform_uv_udp_stop
StopSocket(s) ==
    /\ socket[s].state = "open"
    /\ socket' = [socket EXCEPT ![s].state = "closing"]
    /\ UNCHANGED <<uses, loopVars, execVars, work, timerVars, sends, sending_requests, counted>>

\* pomelo_platform_uv_udp_send: what libuv refuses is not given back.
Send(s) ==
    /\ "sockets" \in on /\ socket[s].state = "open" /\ Counts("sends", MaxSends)
    /\ sends' = sends + 1
    /\ \/ /\ socket' = [socket EXCEPT ![s].sends = @ + 1]
          /\ sending_requests' = sending_requests + 1
       \/ MayFail /\ UNCHANGED <<socket, sending_requests>>
    /\ UNCHANGED <<uses, loopVars, execVars, work, timerVars>>

ReportSockets(after, requests) ==
    Report("sockets", Once(/\ "sockets" \notin on /\ requests = 0
                           /\ \A s \in Sockets : after[s].state # "free" => ~ after[s].listed))

\* pomelo_platform_send_done: sent, or canceled when its socket closes.
SendDone(s) ==
    /\ executing = None /\ socket[s].sends > 0
    /\ \/ phase = "poll" /\ socket[s].state = "open"
       \/ phase = "closing" /\ socket[s].state = "closing"
    /\ LET after == [socket EXCEPT ![s].sends = @ - 1]
       IN  socket' = after /\ ReportSockets(after, sending_requests - 1)
    /\ sends' = sends - 1 /\ sending_requests' = sending_requests - 1
    /\ UNCHANGED <<uses, phase, on, execVars, work, timerVars, counted>>

\* pomelo_platform_udp_on_closed: the entry of a socket that was never listed is NULL.
SocketClosed(s) ==
    /\ phase = "closing" /\ socket[s].state = "closing" /\ socket[s].sends = 0
    /\ LET after == [socket EXCEPT ![s] = NoSocket]
       IN  /\ socket' = after
           /\ IF socket[s].listed THEN ReportSockets(after, sending_requests)
              ELSE broken' = broken \union {"entry"} /\ UNCHANGED <<platform, calledBack>>
    /\ UNCHANGED <<uses, phase, on, execVars, work, timerVars, sends, sending_requests, counted>>

-----------------------------------------------------------------------------
Loop ==
    \/ TimersEnd \/ PollEnd \/ ClosingEnd
    \/ RunTask \/ AsyncEnd
    \/ \E e \in Executors : AsyncBegin(e) \/ ExecutorClosed(e)
    \/ \E w \in Works : WorkerDone(w)
    \/ \E t \in Timers : TimerClosed(t)
    \/ \E s \in Sockets : SocketClosed(s) \/ (phase = "closing" /\ SendDone(s))

Others ==
    \/ \E w \in Works : WorkerEntry(w)
    \/ \E t \in Threads : Push(t) \/ Signal(t) \/ Count(t)

Application ==
    \/ Shutdown
    \/ \E e \in Executors : Acquire(e) \/ Release(e) \/ \E t \in Threads : Check(t, e)
    \/ \E w \in Works : SubmitWork(w) \/ CancelWork(w)
    \/ \E d \in Endpoints : Schedule(d) \/ Unschedule(d)
    \/ ScheduleFails \/ CleanupHeartbeat \/ StopOther
    \/ \E t \in Timers : TimerFires(t) \/ \E repeat \in BOOLEAN : StartOther(t, repeat)
    \/ \E s \in Sockets : Open(s) \/ StopSocket(s) \/ Send(s) \/ (phase = "poll" /\ SendDone(s))

PlatformNext == uses # {} /\ (Loop \/ Others \/ Application)

\* The loop goes round and calls what is ready before it polls again; the threads
\* go on.
PlatformFairness ==
    /\ WF_platformVars(uses # {} /\ Loop)
    /\ \A w \in Works : WF_platformVars(WorkerEntry(w))
    /\ \A t \in Threads : WF_platformVars(Push(t) \/ Signal(t) \/ Count(t))

PlatformSpec == PlatformInit /\ [][PlatformNext]_platformVars /\ PlatformFairness

-----------------------------------------------------------------------------
(* what correctness means *)

\* The shutdown callback is called once, and when it is called nothing is open
\* and nothing is under way: whoever is called back destroys the platform
\* (platform-uv.c:254-264).
CalledBackWhenQuiet ==
    /\ calledBack <= 1 /\ broken = {}
    /\ calledBack = 1 =>
          /\ Listed = {} /\ executing = None
          /\ \A w \in Works : work[w].state = "free"
          /\ \A t \in Timers : timer[t].state = "free"
          /\ \A s \in Sockets : socket[s].state = "free"
          /\ sends = 0 /\ sending_requests = 0

\* A shutdown is called back, whatever is open and whatever a worker runs.
ShutdownEnds == ~ platform.running ~> calledBack = 1

\* The tasks of an executor run in the order they were pushed in, none twice,
\* through the swaps of its lists (executor.c:281-330).
RunsInOrder ==
    \A e \in Executors : \A i, j \in DOMAIN tasksRun[e] : i < j => tasksRun[e][i] < tasksRun[e][j]

\* A task that was signalled runs, or its executor is shut down: nothing that is
\* pushed while the lists are swapped or run is left behind (executor.c:236-246).
TasksRun ==
    \A e \in Executors : \A n \in 1 .. MaxTasks :
        (executor[e].signal /\ \E i \in DOMAIN executor[e].front : executor[e].front[i].n = n)
            ~> (~ executor[e].running \/ \E i \in DOMAIN tasksRun[e] : tasksRun[e][i] = n)

\* A handle and its timer know each other or neither; and until the shutdown the
\* heartbeat has a timer if and only if an endpoint waits for it
\* (timer.c:187-237, heartbeat.c:82-150).
HandlesMatchTimers ==
    /\ \A h \in Handles : handle[h] # None =>
          timer[handle[h]].state = "running" /\ timer[handle[h]].handle = h
    /\ \A t \in Timers : timer[t].state = "running" => handle[timer[t].handle] = t
    /\ "timers" \in on => (scheduled # {} <=> handle["heartbeat"] # None)
===============================================================================
