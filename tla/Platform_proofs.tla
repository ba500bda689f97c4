---------------------------- MODULE Platform_proofs ----------------------------
(***************************************************************************)
(* The platform, for any number of executors, threads, tasks, timers,      *)
(* endpoints and sockets and any parts used together: tasks run in the     *)
(* order they were pushed in, a timer and its handle know each other, and  *)
(* the shutdown calls back once, when nothing is left.  Then the pipelines *)
(* that run on its sequencer, at the end of the module.                    *)
(***************************************************************************)
EXTENDS Platform, Pipeline, SequenceTheorems, TLAPS

Tasks == [n : Nat, what : {"submit", "release"}]

ExecutorRecord == [listed : BOOLEAN, running : BOOLEAN, flags : SUBSET {"BUSY", "SHUTDOWN"},
                   front : Seq(Tasks), back : Seq(Tasks), signal : BOOLEAN, closing : BOOLEAN]

ExecutorTypeOK ==
    /\ phase \in {"timers", "poll", "closing"}
    /\ on \in {Parts, {}}
    /\ executor \in [Executors -> ExecutorRecord]
    /\ executing \in Executors \cup {None}
    /\ thread \in [Threads -> [at : {"out", "checked", "pushed", "signalled"},
                               executor : Executors \cup {None}]]
    /\ \A t \in Threads : thread[t].at # "out" => thread[t].executor \in Executors
    /\ tasksRun \in [Executors -> Seq(Nat)]
    /\ pushed \in Nat

\* An executor in the list runs until it is closed; only the callback that runs
\* has tasks in the list it took.
ExecutorsRun ==
    /\ \A e \in Executors :
          /\ executor[e].listed <=> executor[e].running \/ executor[e].closing
          /\ ~ (executor[e].running /\ executor[e].closing)
          /\ executor[e].signal => executor[e].running
          /\ executor[e].running => on = Parts
          /\ executor[e].closing => phase # "timers"
          /\ e # executing => executor[e].back = <<>>
    /\ executing # None => phase = "poll" /\ executor[executing].running

\* What has run comes before what was taken, and that before what waits.
Numbers(s) == [i \in DOMAIN s |-> s[i].n]
Rising(s) == \A i, j \in DOMAIN s : i < j => s[i] < s[j]
Before(s, t) == \A i \in DOMAIN s, j \in DOMAIN t : s[i] < t[j]
UpTo(s, n) == \A i \in DOMAIN s : s[i] <= n

InTheirOrder(e) ==
    LET run == tasksRun[e]  back == Numbers(executor[e].back)  front == Numbers(executor[e].front)
    IN  /\ Rising(run) /\ Rising(back) /\ Rising(front)
        /\ Before(run, back) /\ Before(run, front) /\ Before(back, front)
        /\ UpTo(run, pushed) /\ UpTo(back, pushed) /\ UpTo(front, pushed)

ExecutorInv == ExecutorTypeOK /\ ExecutorsRun /\ \A e \in Executors : InTheirOrder(e)

-----------------------------------------------------------------------------
TimerRecord == [state : {"free", "running", "closing"}, repeat : BOOLEAN, handle : Handles \cup {None}]

TimerTypeOK ==
    /\ on \in {Parts, {}}
    /\ timer \in [Timers -> TimerRecord]
    /\ handle \in [Handles -> Timers \cup {None}]
    /\ scheduled \subseteq Endpoints

\* A running timer has a handle, the heartbeat's repeats, and there is none where
\* no endpoint is left.
TimersHaveHandles ==
    /\ \A t \in Timers : timer[t].state = "running" =>
          /\ timer[t].handle \in Handles
          /\ timer[t].handle = "heartbeat" => timer[t].repeat
    /\ scheduled = {} => handle["heartbeat"] = None

TimerInv == TimerTypeOK /\ TimersHaveHandles /\ HandlesMatchTimers

-----------------------------------------------------------------------------
SocketRecord == [state : {"free", "open", "closing"}, listed : BOOLEAN, sends : Int]

ShutdownTypeOK ==
    /\ on \in {Parts, {}}
    /\ platform \in [running : BOOLEAN, idle : BOOLEAN, components : SUBSET Parts]
    /\ work \in [Works -> [state : {"free", "queued", "running", "done"}, canceled : BOOLEAN]]
    /\ timer \in [Timers -> TimerRecord]
    /\ socket \in [Sockets -> SocketRecord]
    /\ sends \in Int /\ sending_requests \in Int

\* A part that has reported has nothing left.
ReportedEnded ==
    /\ "sockets" \in platform.components =>
          sending_requests = 0 /\ \A s \in Sockets : socket[s].state = "free" \/ ~ socket[s].listed
    /\ "timers" \in platform.components => \A t \in Timers : timer[t].state = "free"
    /\ "executors" \in platform.components => \A e \in Executors : ~ executor[e].listed
    /\ "workers" \in platform.components => \A w \in Works : work[w].state = "free"

\* The parts report when the controllers have been shut down, and the call comes with
\* the last report.
ReportsOnce ==
    /\ platform.running => on = Parts /\ ~ platform.idle
    /\ platform.idle => on = Parts
    /\ on = Parts => platform.components = {}
    /\ calledBack = IF platform.components = Parts THEN 1 ELSE 0
    /\ broken = {}

SocketsAreListed ==
    /\ \A s \in Sockets : IF socket[s].state = "free" THEN socket[s].sends = 0 ELSE socket[s].listed
    /\ sends = sending_requests

ShutdownInv == ShutdownTypeOK /\ ReportedEnded /\ ReportsOnce /\ SocketsAreListed
-----------------------------------------------------------------------------
(***************************************************************************)
(* Executors.                                                              *)
(***************************************************************************)

LEMMA NumbersType ==
    ASSUME NEW s \in Seq(Tasks)
    PROVE  Numbers(s) \in Seq(Nat) /\ Len(Numbers(s)) = Len(s)
<1>1. \A i \in 1 .. Len(s) : s[i].n \in Nat
  <2> SUFFICES ASSUME NEW i \in 1 .. Len(s) PROVE s[i].n \in Nat
    OBVIOUS
  <2>1. s[i] \in Tasks
    OBVIOUS
  <2> QED BY <2>1 DEF Tasks
<1>2. DOMAIN s = 1 .. Len(s) /\ Len(s) \in Nat
  OBVIOUS
<1>3. Numbers(s) = [i \in 1 .. Len(s) |-> s[i].n]
  BY <1>2 DEF Numbers
<1> HIDE DEF Numbers
<1> QED BY <1>1, <1>2, <1>3

LEMMA NumbersOfAppend ==
    ASSUME NEW s \in Seq(Tasks), NEW task \in Tasks
    PROVE  Numbers(Append(s, task)) = Append(Numbers(s), task.n)
<1>1. Append(s, task) \in Seq(Tasks) /\ Len(Append(s, task)) = Len(s) + 1 /\ Len(s) \in Nat
  OBVIOUS
<1>2. DOMAIN Append(s, task) = 1 .. Len(s) + 1
  BY <1>1
<1>3. Numbers(Append(s, task)) = [i \in 1 .. Len(s) + 1 |-> Append(s, task)[i].n]
  BY <1>2 DEF Numbers
<1>4. \A i \in 1 .. Len(s) : Numbers(s)[i] = s[i].n
  BY <1>1 DEF Numbers
<1>5. task.n \in Nat /\ Numbers(s) \in Seq(Nat) /\ Len(Numbers(s)) = Len(s)
  BY NumbersType DEF Tasks
<1>6. Append(Numbers(s), task.n) = [i \in 1 .. Len(s) + 1 |-> Append(s, task)[i].n]
  BY <1>1, <1>4, <1>5
<1> QED BY <1>3, <1>6

LEMMA NumbersOfTail ==
    ASSUME NEW s \in Seq(Tasks), s # <<>>
    PROVE  /\ Numbers(s) # <<>> /\ Head(s).n = Head(Numbers(s))
           /\ Numbers(Tail(s)) = Tail(Numbers(s))
<1>1. Tail(s) \in Seq(Tasks) /\ Len(Tail(s)) = Len(s) - 1 /\ Len(s) \in Nat \ {0}
  OBVIOUS
<1>2. Numbers(s) \in Seq(Nat) /\ Len(Numbers(s)) = Len(s)
  BY NumbersType
<1>3. \A i \in 1 .. Len(s) : Numbers(s)[i] = s[i].n
  BY <1>1 DEF Numbers
<1>4. Numbers(s) # <<>> /\ Head(s).n = Head(Numbers(s))
  BY <1>1, <1>2, <1>3
<1>5. Numbers(Tail(s)) \in Seq(Nat) /\ Len(Numbers(Tail(s))) = Len(s) - 1
  BY <1>1, NumbersType
<1>6. Tail(Numbers(s)) \in Seq(Nat) /\ Len(Tail(Numbers(s))) = Len(s) - 1
  BY <1>2, <1>4, HeadTailProperties
<1>7. ASSUME NEW i \in 1 .. Len(s) - 1 PROVE Numbers(Tail(s))[i] = Tail(Numbers(s))[i]
  <2>1. i + 1 \in 1 .. Len(s) /\ Tail(s)[i] = s[i + 1]
    BY <1>1
  <2>2. Tail(Numbers(s))[i] = Numbers(s)[i + 1]
    BY <1>2, <1>4, HeadTailProperties
  <2>3. Numbers(Tail(s))[i] = Tail(s)[i].n
    BY <1>1 DEF Numbers
  <2> QED BY <1>3, <2>1, <2>2, <2>3
<1> HIDE DEF Numbers
<1>8. Numbers(Tail(s)) = Tail(Numbers(s))
  BY <1>5, <1>6, <1>7, SeqEqual
<1> QED BY <1>4, <1>8

\* A task that is pushed has the highest number of all.
LEMMA PushedLast ==
    ASSUME NEW s \in Seq(Nat), NEW n \in Nat, Rising(s), UpTo(s, n)
    PROVE  /\ Rising(Append(s, n + 1)) /\ UpTo(Append(s, n + 1), n + 1)
           /\ \A r \in Seq(Nat) : Before(r, s) /\ UpTo(r, n) => Before(r, Append(s, n + 1))
<1> DEFINE t == Append(s, n + 1)
<1>1. t \in Seq(Nat) /\ DOMAIN t = 1 .. Len(s) + 1 /\ DOMAIN s = 1 .. Len(s) /\ Len(s) \in Nat
  OBVIOUS
<1>2. \A i \in 1 .. Len(s) + 1 : t[i] = IF i = Len(s) + 1 THEN n + 1 ELSE s[i]
  OBVIOUS
<1>3. \A i \in 1 .. Len(s) : s[i] \in Nat
  OBVIOUS
<1> HIDE DEF t
<1>4. Rising(t)
  <2> SUFFICES ASSUME NEW i \in DOMAIN t, NEW j \in DOMAIN t, i < j PROVE t[i] < t[j]
    BY DEF Rising
  <2>1. i \in DOMAIN s /\ t[i] = s[i] /\ s[i] <= n /\ s[i] \in Nat
    BY <1>1, <1>2, <1>3 DEF UpTo
  <2>2. CASE j \in DOMAIN s
    BY <1>1, <1>2, <2>1, <2>2 DEF Rising
  <2>3. CASE j = Len(s) + 1
    BY <1>2, <2>1, <2>3
  <2> QED BY <1>1, <2>2, <2>3
<1>6. UpTo(t, n + 1)
  <2> SUFFICES ASSUME NEW i \in DOMAIN t PROVE t[i] <= n + 1
    BY DEF UpTo
  <2>1. i # Len(s) + 1 => i \in DOMAIN s /\ t[i] = s[i] /\ s[i] <= n /\ s[i] \in Nat
    BY <1>1, <1>2, <1>3 DEF UpTo
  <2> QED BY <1>1, <1>2, <2>1
<1>5. ASSUME NEW r \in Seq(Nat), Before(r, s), UpTo(r, n), NEW i \in DOMAIN r, NEW j \in DOMAIN t
      PROVE  r[i] < t[j]
  <2>1. r[i] \in Nat /\ r[i] <= n
    BY <1>5 DEF UpTo
  <2>2. j # Len(s) + 1 => r[i] < s[j]
    BY <1>1, <1>5 DEF Before
  <2> QED BY <1>1, <1>2, <2>1, <2>2
<1> QED BY <1>4, <1>5, <1>6 DEF t, Before

\* The task that runs comes after all that ran and before all that is left.
LEMMA HeadIsNext ==
    ASSUME NEW s \in Seq(Nat), s # <<>>, NEW r \in Seq(Nat),
           Rising(r), Rising(s), Before(r, s)
    PROVE  LET got == Append(r, Head(s))  left == Tail(s)
           IN  /\ Rising(got) /\ Rising(left) /\ Before(got, left)
               /\ \A q : Before(r, q) /\ Before(s, q) => Before(got, q) /\ Before(left, q)
               /\ \A n : UpTo(r, n) /\ UpTo(s, n) => UpTo(got, n) /\ UpTo(left, n)
<1> DEFINE got == Append(r, Head(s))  left == Tail(s)
<1>1. /\ DOMAIN s = 1 .. Len(s) /\ Len(s) \in Nat \ {0} /\ DOMAIN left = 1 .. Len(s) - 1
      /\ \A i \in 1 .. Len(s) - 1 : left[i] = s[i + 1]
  OBVIOUS
<1>2. /\ DOMAIN r = 1 .. Len(r) /\ DOMAIN got = 1 .. Len(r) + 1 /\ Len(r) \in Nat
      /\ \A i \in 1 .. Len(r) + 1 : got[i] = IF i = Len(r) + 1 THEN s[1] ELSE r[i]
  OBVIOUS
<1>3. (\A i \in 1 .. Len(s) : s[i] \in Nat) /\ (\A i \in 1 .. Len(r) : r[i] \in Nat)
  OBVIOUS
<1> HIDE DEF got, left
<1>4. Rising(left)
  <2> SUFFICES ASSUME NEW i \in DOMAIN left, NEW j \in DOMAIN left, i < j PROVE left[i] < left[j]
    BY DEF Rising
  <2>1. i + 1 \in DOMAIN s /\ j + 1 \in DOMAIN s /\ i + 1 < j + 1
    BY <1>1
  <2>2. s[i + 1] < s[j + 1]
    BY <2>1 DEF Rising
  <2> QED BY <1>1, <2>2
<1>5. Rising(got)
  <2> SUFFICES ASSUME NEW i \in DOMAIN got, NEW j \in DOMAIN got, i < j PROVE got[i] < got[j]
    BY DEF Rising
  <2>1. i \in DOMAIN r /\ got[i] = r[i]
    BY <1>2
  <2>2. CASE j \in DOMAIN r
    BY <1>2, <2>1, <2>2 DEF Rising
  <2>3. CASE j = Len(r) + 1
    <3>1. 1 \in DOMAIN s
      BY <1>1
    <3>2. got[j] = s[1]
      BY <1>2, <2>3
    <3> QED BY <2>1, <3>1, <3>2 DEF Before
  <2> QED BY <1>2, <2>2, <2>3
<1>6. \A j \in DOMAIN left : j + 1 \in DOMAIN s /\ left[j] = s[j + 1] /\ s[1] < s[j + 1]
  <2> SUFFICES ASSUME NEW j \in DOMAIN left PROVE j + 1 \in DOMAIN s /\ left[j] = s[j + 1] /\ s[1] < s[j + 1]
    OBVIOUS
  <2>1. j + 1 \in DOMAIN s /\ left[j] = s[j + 1] /\ 1 \in DOMAIN s /\ 1 < j + 1
    BY <1>1
  <2> QED BY <2>1 DEF Rising
<1>7. \A i \in DOMAIN got : (i \in DOMAIN r /\ got[i] = r[i]) \/ got[i] = s[1]
  BY <1>2
<1>8. 1 \in DOMAIN s
  BY <1>1
<1>9. Before(got, left)
  BY <1>6, <1>7 DEF Before
<1>10. ASSUME NEW q, Before(r, q), Before(s, q) PROVE Before(got, q) /\ Before(left, q)
  BY <1>6, <1>7, <1>8, <1>10 DEF Before
<1>11. ASSUME NEW n, UpTo(r, n), UpTo(s, n) PROVE UpTo(got, n) /\ UpTo(left, n)
  BY <1>6, <1>7, <1>8, <1>11 DEF UpTo
<1> QED BY <1>4, <1>5, <1>9, <1>10, <1>11 DEF got, left

LEMMA NothingIsInOrder ==
    /\ <<>> \in Seq(Tasks) /\ Rising(Numbers(<<>>)) /\ Rising(<<>>)
    /\ \A q : Before(q, Numbers(<<>>)) /\ Before(Numbers(<<>>), q) /\ Before(<<>>, q)
    /\ \A n : UpTo(Numbers(<<>>), n) /\ UpTo(<<>>, n)
BY DEF Numbers, Rising, Before, UpTo

LEMMA ExecutorStart == PlatformInit => ExecutorInv
<1> SUFFICES ASSUME PlatformInit PROVE ExecutorInv
  OBVIOUS
<1>1. ExecutorTypeOK
  BY DEF PlatformInit, ExecutorTypeOK, ExecutorRecord, Closed
<1>2. ExecutorsRun
  BY DEF PlatformInit, ExecutorsRun, Closed
<1>3. ASSUME NEW e \in Executors PROVE InTheirOrder(e)
  <2>1. tasksRun[e] = <<>> /\ executor[e].back = <<>> /\ executor[e].front = <<>>
    BY DEF PlatformInit, Closed
  <2> QED BY <2>1, NothingIsInOrder DEF InTheirOrder
<1> QED BY <1>1, <1>2, <1>3 DEF ExecutorInv

LEMMA RoomAbove ==
    ASSUME NEW s \in Seq(Nat), NEW n \in Nat, UpTo(s, n)
    PROVE  UpTo(s, n + 1)
<1> SUFFICES ASSUME NEW i \in DOMAIN s PROVE s[i] <= n + 1
  BY DEF UpTo
<1>1. s[i] \in Nat /\ s[i] <= n
  BY DEF UpTo
<1> QED BY <1>1

\* More that is pushed to one executor does not disturb another.
LEMMA OrderStays ==
    ASSUME ExecutorInv, NEW e \in Executors,
           tasksRun'[e] = tasksRun[e], executor'[e].back = executor[e].back,
           executor'[e].front = executor[e].front,
           pushed' = pushed \/ pushed' = pushed + 1
    PROVE  InTheirOrder(e)'
<1>1. /\ tasksRun[e] \in Seq(Nat) /\ Numbers(executor[e].back) \in Seq(Nat)
      /\ Numbers(executor[e].front) \in Seq(Nat) /\ pushed \in Nat
  <2>1. executor[e].back \in Seq(Tasks) /\ executor[e].front \in Seq(Tasks)
    BY DEF ExecutorInv, ExecutorTypeOK, ExecutorRecord
  <2> QED BY <2>1, NumbersType DEF ExecutorInv, ExecutorTypeOK
<1>2. ASSUME NEW s \in Seq(Nat), UpTo(s, pushed) PROVE UpTo(s, pushed')
  BY <1>1, <1>2, RoomAbove
<1>3. InTheirOrder(e)
  BY DEF ExecutorInv
<1> QED BY <1>1, <1>2, <1>3 DEF InTheirOrder

LEMMA ExecutorSame == ExecutorInv /\ UNCHANGED <<phase, on, execVars>> => ExecutorInv'
<1> SUFFICES ASSUME ExecutorInv, UNCHANGED <<phase, on, execVars>> PROVE ExecutorInv'
  OBVIOUS
<1>1. ExecutorTypeOK' /\ ExecutorsRun'
  BY DEF ExecutorInv, ExecutorTypeOK, ExecutorsRun, execVars
<1>2. \A e \in Executors : InTheirOrder(e)'
  BY OrderStays DEF execVars
<1> QED BY <1>1, <1>2 DEF ExecutorInv

LEMMA PhasesKeepOrder == ExecutorInv /\ (PollEnd \/ ClosingEnd) => ExecutorInv'
<1> SUFFICES ASSUME ExecutorInv, PollEnd \/ ClosingEnd PROVE ExecutorInv'
  OBVIOUS
<1>1. ExecutorTypeOK' /\ ExecutorsRun'
  BY DEF ExecutorInv, ExecutorTypeOK, ExecutorsRun, execVars, PollEnd, ClosingEnd
<1>2. \A e \in Executors : InTheirOrder(e)'
  BY OrderStays DEF execVars, PollEnd, ClosingEnd
<1> QED BY <1>1, <1>2 DEF ExecutorInv

\* pomelo_threadsafe_executor_shutdown
LEMMA ClosedFields ==
    ASSUME NEW r \in ExecutorRecord
    PROVE  LET c == ClosedExecutor(r)
           IN  /\ c \in ExecutorRecord /\ c.front = <<>> /\ c.back = <<>>
               /\ (c.listed <=> r.listed) /\ ~ c.running /\ ~ c.signal /\ c.closing
<1>1. ClosedExecutor(r) \in ExecutorRecord
  <2> DEFINE S == Seq(Tasks)
  <2>1. <<>> \in S
    OBVIOUS
  <2> HIDE DEF S
  <2> QED BY <2>1 DEF ClosedExecutor, ExecutorRecord, S
<1>2. LET c == ClosedExecutor(r)
      IN  /\ c.front = <<>> /\ c.back = <<>> /\ (c.listed <=> r.listed)
          /\ ~ c.running /\ ~ c.signal /\ c.closing
  BY DEF ClosedExecutor, ExecutorRecord
<1> QED BY <1>1, <1>2

\* shutdown_idle_cb: the loop is between two polls, so that no executor runs or closes.
LEMMA TimersEndKeepsOrder == ExecutorInv /\ TimersEnd => ExecutorInv'
<1> SUFFICES ASSUME ExecutorInv, TimersEnd PROVE ExecutorInv'
  OBVIOUS
<1>1. CASE ~ platform.idle
  <2>1. ExecutorTypeOK' /\ ExecutorsRun'
    BY <1>1 DEF ExecutorInv, ExecutorTypeOK, ExecutorsRun, TimersEnd
  <2>2. \A e \in Executors : InTheirOrder(e)'
    BY <1>1, OrderStays DEF TimersEnd
  <2> QED BY <2>1, <2>2 DEF ExecutorInv
<1>2. CASE platform.idle
  <2> USE <1>2
  <2>1. /\ phase = "timers" /\ phase' = "poll" /\ on' = {}
        /\ UNCHANGED <<executing, thread, tasksRun, pushed>>
        /\ executor' = [e \in Executors |-> IF e \in Listed THEN ClosedExecutor(executor[e]) ELSE executor[e]]
    BY DEF TimersEnd, IdleCallback
  <2> DEFINE closed(e) == ClosedExecutor(executor[e])
  <2>5. \A e \in Executors :
           /\ closed(e) \in ExecutorRecord /\ closed(e).front = <<>> /\ closed(e).back = <<>>
           /\ (closed(e).listed <=> executor[e].listed)
           /\ ~ closed(e).running /\ ~ closed(e).signal /\ closed(e).closing
    BY ClosedFields DEF ExecutorInv, ExecutorTypeOK
  <2>2. ExecutorTypeOK'
    BY <2>1, <2>5 DEF ExecutorInv, ExecutorTypeOK
  <2>3. ExecutorsRun'
    BY <2>1, <2>5 DEF ExecutorInv, ExecutorTypeOK, ExecutorsRun, Listed
  <2>4. ASSUME NEW e \in Executors PROVE InTheirOrder(e)'
    <3>1. CASE e \in Listed
      <4>1. executor'[e].back = <<>> /\ executor'[e].front = <<>>
        BY <2>1, <2>5, <3>1
      <4> QED BY <2>1, <4>1, NothingIsInOrder DEF ExecutorInv, InTheirOrder
    <3>2. CASE e \notin Listed
      BY <2>1, <3>2, OrderStays
    <3> QED BY <3>1, <3>2
  <2> QED BY <2>2, <2>3, <2>4 DEF ExecutorInv
<1> QED BY <1>1, <1>2

\* Calls that leave the lists and what has run alone.
LEMMA ListsAlone ==
    ASSUME ExecutorInv,
           \/ \E e \in Executors : Acquire(e) \/ ExecutorClosed(e) \/ \E t \in Threads : Check(t, e)
           \/ \E t \in Threads : Signal(t) \/ Count(t)
    PROVE  ExecutorInv'
<1>1. ASSUME NEW e \in Executors, Acquire(e) PROVE ExecutorInv'
  <2> DEFINE r == [executor[e] EXCEPT !.listed = TRUE, !.running = TRUE, !.signal = FALSE]
  <2>1. executor' = [executor EXCEPT ![e] = r]
    <3>1. executor' = [executor EXCEPT ![e].listed = TRUE, ![e].running = TRUE, ![e].signal = FALSE]
      BY <1>1 DEF Acquire
    <3> QED BY <3>1 DEF ExecutorInv, ExecutorTypeOK
  <2>2. executor[e] \in ExecutorRecord
    BY DEF ExecutorInv, ExecutorTypeOK
  <2>3. /\ r \in ExecutorRecord /\ r.front = executor[e].front /\ r.back = executor[e].back
        /\ r.listed /\ r.running /\ ~ r.signal /\ (r.closing <=> executor[e].closing)
    BY <2>2 DEF ExecutorRecord
  <2> HIDE DEF r
  <2>4. "executors" \in on /\ ~ executor[e].listed /\ UNCHANGED <<phase, on, executing, thread, tasksRun, pushed>>
    BY <1>1 DEF Acquire, loopVars
  <2>5. ExecutorTypeOK'
    BY <2>1, <2>3, <2>4 DEF ExecutorInv, ExecutorTypeOK
  <2>6. ExecutorsRun'
    BY <2>1, <2>3, <2>4 DEF ExecutorInv, ExecutorTypeOK, ExecutorsRun
  <2>7. \A f \in Executors : InTheirOrder(f)'
    BY <2>1, <2>3, <2>4, OrderStays DEF ExecutorInv, ExecutorTypeOK
  <2> QED BY <2>5, <2>6, <2>7 DEF ExecutorInv
<1>2. ASSUME NEW e \in Executors, ExecutorClosed(e) PROVE ExecutorInv'
  <2> DEFINE r == [executor[e] EXCEPT !.listed = FALSE, !.closing = FALSE]
  <2>1. executor' = [executor EXCEPT ![e] = r]
    <3>1. executor' = [executor EXCEPT ![e].listed = FALSE, ![e].closing = FALSE]
      BY <1>2 DEF ExecutorClosed
    <3> QED BY <3>1 DEF ExecutorInv, ExecutorTypeOK
  <2>2. executor[e] \in ExecutorRecord
    BY DEF ExecutorInv, ExecutorTypeOK
  <2>3. /\ r \in ExecutorRecord /\ r.front = executor[e].front /\ r.back = executor[e].back
        /\ ~ r.listed /\ ~ r.closing /\ (r.running <=> executor[e].running) /\ (r.signal <=> executor[e].signal)
    BY <2>2 DEF ExecutorRecord
  <2> HIDE DEF r
  <2>4. executor[e].closing /\ UNCHANGED <<phase, on, executing, thread, tasksRun, pushed>>
    BY <1>2 DEF ExecutorClosed, loopVars
  <2>5. ExecutorTypeOK'
    BY <2>1, <2>3, <2>4 DEF ExecutorInv, ExecutorTypeOK
  <2>6. ExecutorsRun'
    BY <2>1, <2>3, <2>4 DEF ExecutorInv, ExecutorTypeOK, ExecutorsRun
  <2>7. \A f \in Executors : InTheirOrder(f)'
    BY <2>1, <2>3, <2>4, OrderStays DEF ExecutorInv, ExecutorTypeOK
  <2> QED BY <2>5, <2>6, <2>7 DEF ExecutorInv
<1>3. ASSUME NEW e \in Executors, NEW t \in Threads, Check(t, e) PROVE ExecutorInv'
  <2>1. ExecutorTypeOK' /\ ExecutorsRun'
    BY <1>3 DEF Check, ExecutorInv, ExecutorTypeOK, ExecutorsRun, loopVars
  <2>2. \A f \in Executors : InTheirOrder(f)'
    BY <1>3, OrderStays DEF Check
  <2> QED BY <2>1, <2>2 DEF ExecutorInv
<1>4. ASSUME NEW t \in Threads, Signal(t) PROVE ExecutorInv'
  <2> DEFINE e == thread[t].executor
             r == [executor[e] EXCEPT !.signal = @ \/ executor[e].running]
  <2>1. e \in Executors
    BY <1>4 DEF Signal, ExecutorInv, ExecutorTypeOK
  <2>2. executor' = [executor EXCEPT ![e] = r]
    <3>1. executor' = [executor EXCEPT ![e].signal = @ \/ executor[e].running]
      BY <1>4 DEF Signal
    <3> HIDE DEF e
    <3> QED BY <2>1, <3>1 DEF ExecutorInv, ExecutorTypeOK
  <2> HIDE DEF e
  <2>3. executor[e] \in ExecutorRecord
    BY <2>1 DEF ExecutorInv, ExecutorTypeOK
  <2>4. /\ r \in ExecutorRecord /\ r.front = executor[e].front /\ r.back = executor[e].back
        /\ (r.listed <=> executor[e].listed) /\ (r.running <=> executor[e].running) /\ (r.closing <=> executor[e].closing)
        /\ (r.signal <=> executor[e].signal \/ executor[e].running)
    BY <2>3 DEF ExecutorRecord
  <2> HIDE DEF r
  <2>5. /\ thread' = [thread EXCEPT ![t].at = "signalled"] /\ thread[t].at # "out"
        /\ UNCHANGED <<phase, on, executing, tasksRun, pushed>>
    BY <1>4 DEF Signal, loopVars
  <2>6. ExecutorTypeOK'
    BY <2>1, <2>2, <2>4, <2>5 DEF ExecutorInv, ExecutorTypeOK
  <2>7. ExecutorsRun'
    BY <2>1, <2>2, <2>4, <2>5 DEF ExecutorInv, ExecutorTypeOK, ExecutorsRun
  <2>8. \A f \in Executors : InTheirOrder(f)'
    BY <2>1, <2>2, <2>4, <2>5, OrderStays DEF ExecutorInv, ExecutorTypeOK
  <2> QED BY <2>6, <2>7, <2>8 DEF ExecutorInv
<1>5. ASSUME NEW t \in Threads, Count(t) PROVE ExecutorInv'
  <2>1. ExecutorTypeOK' /\ ExecutorsRun'
    BY <1>5 DEF Count, ExecutorInv, ExecutorTypeOK, ExecutorsRun, loopVars
  <2>2. \A f \in Executors : InTheirOrder(f)'
    BY <1>5, OrderStays DEF Count
  <2> QED BY <2>1, <2>2 DEF ExecutorInv
<1> QED BY <1>1, <1>2, <1>3, <1>4, <1>5

\* A task is pushed: its number is the highest.
LEMMA PushKeepsOrder ==
    ASSUME ExecutorInv, NEW e \in Executors, NEW what \in {"submit", "release"},
           executor'[e].front = Append(executor[e].front, Task(pushed + 1, what)),
           executor'[e].back = executor[e].back, tasksRun'[e] = tasksRun[e], pushed' = pushed + 1
    PROVE  InTheirOrder(e)'
<1> DEFINE run == tasksRun[e]  back == Numbers(executor[e].back)  front == Numbers(executor[e].front)
<1>1. executor[e].front \in Seq(Tasks) /\ executor[e].back \in Seq(Tasks) /\ run \in Seq(Nat) /\ pushed \in Nat
  BY DEF ExecutorInv, ExecutorTypeOK, ExecutorRecord
<1>2. back \in Seq(Nat) /\ front \in Seq(Nat)
  BY <1>1, NumbersType
<1>3. Task(pushed + 1, what) \in Tasks /\ Task(pushed + 1, what).n = pushed + 1
  BY <1>1 DEF Task, Tasks
<1>4. Numbers(executor'[e].front) = Append(front, pushed + 1)
  BY <1>1, <1>3, NumbersOfAppend
<1>5. InTheirOrder(e)
  BY DEF ExecutorInv
<1>6. /\ Rising(run) /\ Rising(back) /\ Rising(front)
      /\ Before(run, back) /\ Before(run, front) /\ Before(back, front)
      /\ UpTo(run, pushed) /\ UpTo(back, pushed) /\ UpTo(front, pushed)
  BY <1>5 DEF InTheirOrder
<1> HIDE DEF run, back, front
<1>7. /\ Rising(Append(front, pushed + 1)) /\ UpTo(Append(front, pushed + 1), pushed + 1)
      /\ Before(run, Append(front, pushed + 1)) /\ Before(back, Append(front, pushed + 1))
  BY <1>1, <1>2, <1>6, PushedLast
<1>8. UpTo(run, pushed + 1) /\ UpTo(back, pushed + 1)
  BY <1>1, <1>2, <1>6, RoomAbove
<1> QED BY <1>4, <1>6, <1>7, <1>8 DEF InTheirOrder, run, back

LEMMA ReleaseKeepsOrder == ASSUME ExecutorInv, NEW e \in Executors, Release(e) PROVE ExecutorInv'
<1> DEFINE front == Append(executor[e].front, Task(pushed + 1, "release"))
           r == [executor[e] EXCEPT !.front = front, !.signal = TRUE]
<1>1. executor[e] \in ExecutorRecord /\ executor[e].front \in Seq(Tasks) /\ pushed \in Nat
  BY DEF ExecutorInv, ExecutorTypeOK, ExecutorRecord
<1>2. front \in Seq(Tasks)
  BY <1>1 DEF Task, Tasks
<1>3. executor' = [executor EXCEPT ![e] = r]
  <2>1. executor' = [executor EXCEPT ![e].front = Append(@, Task(pushed + 1, "release")), ![e].signal = TRUE]
    BY DEF Release
  <2> QED BY <2>1 DEF ExecutorInv, ExecutorTypeOK
<1>4. r.front = front
  BY <1>1 DEF ExecutorRecord
<1> HIDE DEF front
<1>5. /\ r \in ExecutorRecord /\ r.back = executor[e].back /\ r.signal
      /\ (r.running <=> executor[e].running) /\ (r.listed <=> executor[e].listed)
      /\ (r.closing <=> executor[e].closing)
  BY <1>1, <1>2 DEF ExecutorRecord
<1> HIDE DEF r
<1>6. executor[e].running /\ pushed' = pushed + 1 /\ UNCHANGED <<phase, on, executing, thread, tasksRun>>
  BY DEF Release, loopVars
<1>7. ExecutorTypeOK'
  BY <1>1, <1>3, <1>5, <1>6 DEF ExecutorInv, ExecutorTypeOK
<1>8. ExecutorsRun'
  BY <1>3, <1>5, <1>6 DEF ExecutorInv, ExecutorTypeOK, ExecutorsRun
<1>9. ASSUME NEW f \in Executors PROVE InTheirOrder(f)'
  <2>1. CASE f = e
    BY <1>3, <1>4, <1>5, <1>6, <2>1, PushKeepsOrder DEF ExecutorInv, ExecutorTypeOK, front
  <2>2. CASE f # e
    BY <1>3, <1>6, <2>2, OrderStays DEF ExecutorInv, ExecutorTypeOK
  <2> QED BY <2>1, <2>2
<1> QED BY <1>7, <1>8, <1>9 DEF ExecutorInv

LEMMA PushTaskKeepsOrder == ASSUME ExecutorInv, NEW t \in Threads, Push(t) PROVE ExecutorInv'
<1> DEFINE e == thread[t].executor
           front == Append(executor[e].front, Task(pushed + 1, "submit"))
           r == [executor[e] EXCEPT !.front = front]
<1>0. e \in Executors
  BY DEF Push, ExecutorInv, ExecutorTypeOK
<1>3. executor' = [executor EXCEPT ![e] = r]
  <2>1. executor' = [executor EXCEPT ![e].front = Append(@, Task(pushed + 1, "submit"))]
    BY DEF Push
  <2> HIDE DEF e
  <2> QED BY <1>0, <2>1 DEF ExecutorInv, ExecutorTypeOK
<1>6. /\ thread' = [thread EXCEPT ![t].at = "pushed"] /\ thread[t].at # "out"
      /\ pushed' = pushed + 1 /\ UNCHANGED <<phase, on, executing, tasksRun>>
  BY DEF Push, loopVars
<1> HIDE DEF e
<1>1. executor[e] \in ExecutorRecord /\ executor[e].front \in Seq(Tasks) /\ pushed \in Nat
  BY <1>0 DEF ExecutorInv, ExecutorTypeOK, ExecutorRecord
<1>2. front \in Seq(Tasks)
  BY <1>1 DEF Task, Tasks
<1>4. r.front = front
  BY <1>1 DEF ExecutorRecord
<1> HIDE DEF front
<1>5. /\ r \in ExecutorRecord /\ r.back = executor[e].back
      /\ (r.running <=> executor[e].running) /\ (r.listed <=> executor[e].listed)
      /\ (r.closing <=> executor[e].closing) /\ (r.signal <=> executor[e].signal)
  BY <1>1, <1>2 DEF ExecutorRecord
<1> HIDE DEF r
<1>7. ExecutorTypeOK'
  <2>1. executor' \in [Executors -> ExecutorRecord] /\ pushed' \in Nat
    BY <1>0, <1>1, <1>3, <1>5, <1>6 DEF ExecutorInv, ExecutorTypeOK
  <2>2. /\ thread' \in [Threads -> [at : {"out", "checked", "pushed", "signalled"},
                                   executor : Executors \cup {None}]]
        /\ \A u \in Threads : thread'[u].at # "out" => thread'[u].executor \in Executors
    BY <1>6 DEF ExecutorInv, ExecutorTypeOK
  <2> QED BY <1>6, <2>1, <2>2 DEF ExecutorInv, ExecutorTypeOK
<1>8. ExecutorsRun'
  BY <1>0, <1>3, <1>5, <1>6 DEF ExecutorInv, ExecutorTypeOK, ExecutorsRun
<1>9. ASSUME NEW f \in Executors PROVE InTheirOrder(f)'
  <2>1. CASE f = e
    BY <1>3, <1>4, <1>5, <1>6, <2>1, PushKeepsOrder DEF ExecutorInv, ExecutorTypeOK, front
  <2>2. CASE f # e
    BY <1>3, <1>6, <2>2, OrderStays DEF ExecutorInv, ExecutorTypeOK
  <2> QED BY <2>1, <2>2
<1> QED BY <1>7, <1>8, <1>9 DEF ExecutorInv

\* The list that was taken before is empty, so that what is pushed meanwhile comes
\* after all that was taken.
LEMMA SwapKeepsOrder == ASSUME ExecutorInv, NEW e \in Executors, AsyncBegin(e) PROVE ExecutorInv'
<1> DEFINE r == Swap(executor[e])
<1>1. executor[e] \in ExecutorRecord /\ executor[e].back = <<>>
  BY PlatformAssumption DEF AsyncBegin, ExecutorInv, ExecutorTypeOK, ExecutorsRun
<1>2. executor' = [executor EXCEPT ![e] = r]
  BY DEF AsyncBegin, ExecutorInv, ExecutorTypeOK
<1>3. r.front = <<>> /\ r.back = executor[e].front
  BY <1>1 DEF ExecutorRecord, Swap
<1>4. /\ r \in ExecutorRecord /\ ~ r.signal
      /\ (r.running <=> executor[e].running) /\ (r.listed <=> executor[e].listed)
      /\ (r.closing <=> executor[e].closing)
  BY <1>1 DEF ExecutorRecord, Swap
<1> HIDE DEF r
<1>5. /\ phase = "poll" /\ executing = None /\ executor[e].signal /\ executing' = e
      /\ UNCHANGED <<phase, on, thread, tasksRun, pushed>>
  BY DEF AsyncBegin, loopVars
<1>6. ExecutorTypeOK'
  BY <1>2, <1>4, <1>5 DEF ExecutorInv, ExecutorTypeOK
<1>7. ExecutorsRun'
  BY <1>1, <1>2, <1>4, <1>5, PlatformAssumption DEF ExecutorInv, ExecutorTypeOK, ExecutorsRun
<1>8. ASSUME NEW f \in Executors PROVE InTheirOrder(f)'
  <2>1. CASE f = e
    <3>1. executor'[f].front = <<>> /\ executor'[f].back = executor[f].front
      BY <1>2, <1>3, <2>1 DEF ExecutorInv, ExecutorTypeOK
    <3>2. InTheirOrder(f)
      BY DEF ExecutorInv
    <3> QED BY <1>5, <3>1, <3>2, NothingIsInOrder DEF InTheirOrder
  <2>2. CASE f # e
    BY <1>2, <1>5, <2>2, OrderStays DEF ExecutorInv, ExecutorTypeOK
  <2> QED BY <2>1, <2>2
<1> QED BY <1>6, <1>7, <1>8 DEF ExecutorInv

LEMMA RunTaskKeepsOrder == ASSUME ExecutorInv, RunTask PROVE ExecutorInv'
<1> DEFINE e == executing
           back == executor[e].back
           ends == Head(back).what = "release" /\ "executors" \in on
           marks == IF ends THEN executor[e].flags \cup {"SHUTDOWN"} ELSE executor[e].flags
           r == [executor[e] EXCEPT !.back = Tail(back), !.flags = marks]
<1>1. e \in Executors /\ executor[e] \in ExecutorRecord /\ back \in Seq(Tasks) /\ back # <<>>
      /\ tasksRun[e] \in Seq(Nat) /\ pushed \in Nat
  BY DEF RunTask, ExecutorInv, ExecutorTypeOK, ExecutorRecord
<1>2. executor' = [executor EXCEPT ![e] = r]
  <2>1. executor' = [executor EXCEPT ![e].back = Tail(@), ![e].flags = IF ends THEN @ \union {"SHUTDOWN"} ELSE @]
    BY DEF RunTask
  <2> HIDE DEF ends, e
  <2> QED BY <1>1, <2>1 DEF ExecutorInv, ExecutorTypeOK
<1>3. /\ tasksRun' = [tasksRun EXCEPT ![e] = Append(@, Head(back).n)]
      /\ UNCHANGED <<phase, on, executing, thread, pushed>>
  BY DEF RunTask, loopVars
<1>4. marks \in SUBSET {"BUSY", "SHUTDOWN"}
  BY <1>1 DEF ExecutorRecord
<1>5. Tail(back) \in Seq(Tasks) /\ Head(back).n \in Nat
  <2>1. Tail(back) \in Seq(Tasks) /\ Head(back) \in Tasks
    BY <1>1, HeadTailProperties
  <2> QED BY <2>1 DEF Tasks
<1> HIDE DEF e, back, ends, marks
<1>6. r.back = Tail(back) /\ r.front = executor[e].front
  BY <1>1 DEF ExecutorRecord
<1>7. /\ r \in ExecutorRecord
      /\ (r.running <=> executor[e].running) /\ (r.listed <=> executor[e].listed)
      /\ (r.closing <=> executor[e].closing) /\ (r.signal <=> executor[e].signal)
  BY <1>1, <1>4, <1>5 DEF ExecutorRecord
<1> HIDE DEF r
<1>8. ExecutorTypeOK'
  BY <1>1, <1>2, <1>3, <1>5, <1>7 DEF ExecutorInv, ExecutorTypeOK
<1>9. ExecutorsRun'
  BY <1>1, <1>2, <1>3, <1>7 DEF ExecutorInv, ExecutorTypeOK, ExecutorsRun, e
<1>10. ASSUME NEW f \in Executors PROVE InTheirOrder(f)'
  <2>1. CASE f = e
    <3> DEFINE run == tasksRun[e]  taken == Numbers(back)  front == Numbers(executor[e].front)
    <3>1. taken \in Seq(Nat) /\ taken # <<>> /\ Head(back).n = Head(taken) /\ Numbers(Tail(back)) = Tail(taken)
      BY <1>1, NumbersType, NumbersOfTail
    <3>2. /\ executor'[f].front = executor[e].front /\ executor'[f].back = Tail(back)
          /\ tasksRun'[f] = Append(run, Head(back).n)
      BY <1>1, <1>2, <1>3, <1>6, <2>1 DEF ExecutorInv, ExecutorTypeOK
    <3>3. InTheirOrder(e)
      BY <1>1 DEF ExecutorInv
    <3>4. /\ Rising(run) /\ Rising(taken) /\ Rising(front)
          /\ Before(run, taken) /\ Before(run, front) /\ Before(taken, front)
          /\ UpTo(run, pushed) /\ UpTo(taken, pushed) /\ UpTo(front, pushed)
      BY <3>3 DEF InTheirOrder, back
    <3> HIDE DEF run, taken, front
    <3>5. run \in Seq(Nat)
      BY <1>1 DEF run
    <3>6. LET got == Append(run, Head(taken))  left == Tail(taken)
          IN  /\ Rising(got) /\ Rising(left) /\ Before(got, left)
              /\ Before(got, front) /\ Before(left, front)
              /\ UpTo(got, pushed) /\ UpTo(left, pushed)
      BY <3>1, <3>4, <3>5, HeadIsNext
    <3> QED BY <1>3, <3>1, <3>2, <3>4, <3>6 DEF InTheirOrder, front
  <2>2. CASE f # e
    BY <1>1, <1>2, <1>3, <2>2, OrderStays DEF ExecutorInv, ExecutorTypeOK
  <2> QED BY <2>1, <2>2
<1> QED BY <1>8, <1>9, <1>10 DEF ExecutorInv

LEMMA AsyncEndKeepsOrder == ASSUME ExecutorInv, AsyncEnd PROVE ExecutorInv'
<1> DEFINE e == executing
           record == [executor[e] EXCEPT !.flags = @ \ {"BUSY"}]
           r == IF "SHUTDOWN" \in executor[e].flags THEN ClosedExecutor(record) ELSE record
<1>1. e \in Executors /\ executor[e] \in ExecutorRecord /\ executor[e].running
  BY DEF AsyncEnd, ExecutorInv, ExecutorTypeOK, ExecutorsRun
<1>2. executor' = [executor EXCEPT ![e] = r]
  BY DEF AsyncEnd
<1>3. ("SHUTDOWN" \in executor[e].flags \/ executor[e].back = <<>>) /\ phase = "poll"
  BY DEF AsyncEnd, ExecutorInv, ExecutorsRun
<1>4. executing' = None /\ UNCHANGED <<phase, on, thread, tasksRun, pushed>>
  BY DEF AsyncEnd
<1>5. /\ record \in ExecutorRecord /\ record.back = executor[e].back /\ record.front = executor[e].front
      /\ (record.running <=> executor[e].running) /\ (record.listed <=> executor[e].listed)
      /\ (record.closing <=> executor[e].closing) /\ (record.signal <=> executor[e].signal)
  BY <1>1 DEF ExecutorRecord
<1> HIDE DEF record
<1>6. r \in ExecutorRecord /\ r.back = <<>> /\ r.front \in {<<>>, executor[e].front}
      /\ (r.listed <=> executor[e].listed)
      /\ \/ r.closing /\ ~ r.running /\ ~ r.signal
         \/ /\ (r.running <=> executor[e].running) /\ (r.closing <=> executor[e].closing)
            /\ (r.signal <=> executor[e].signal)
  BY <1>1, <1>3, <1>5, ClosedFields
<1> HIDE DEF r
<1>7. ExecutorTypeOK'
  BY <1>1, <1>2, <1>4, <1>6 DEF ExecutorInv, ExecutorTypeOK
<1>8. ExecutorsRun'
  BY <1>1, <1>2, <1>3, <1>4, <1>6 DEF ExecutorInv, ExecutorTypeOK, ExecutorsRun, e
<1>9. ASSUME NEW f \in Executors PROVE InTheirOrder(f)'
  <2>1. CASE f = e
    <3>1. executor'[f].back = <<>> /\ (executor'[f].front = <<>> \/ executor'[f].front = executor[f].front)
      BY <1>1, <1>2, <1>6, <2>1 DEF ExecutorInv, ExecutorTypeOK
    <3>2. InTheirOrder(f)
      BY DEF ExecutorInv
    <3> QED BY <1>4, <3>1, <3>2, NothingIsInOrder DEF InTheirOrder
  <2>2. CASE f # e
    BY <1>1, <1>2, <1>4, <2>2, OrderStays DEF ExecutorInv, ExecutorTypeOK
  <2> QED BY <2>1, <2>2
<1> QED BY <1>7, <1>8, <1>9 DEF ExecutorInv

LEMMA ExecutorStep == ExecutorInv /\ [PlatformNext]_platformVars => ExecutorInv'
<1> SUFFICES ASSUME ExecutorInv, [PlatformNext]_platformVars PROVE ExecutorInv'
  OBVIOUS
<1>1. CASE TimersEnd \/ PollEnd \/ ClosingEnd
  BY <1>1, TimersEndKeepsOrder, PhasesKeepOrder
<1>2. CASE RunTask \/ AsyncEnd \/ \E e \in Executors : AsyncBegin(e) \/ Release(e)
  BY <1>2, RunTaskKeepsOrder, AsyncEndKeepsOrder, SwapKeepsOrder, ReleaseKeepsOrder
<1>3. CASE \E t \in Threads : Push(t)
  BY <1>3, PushTaskKeepsOrder
<1>4. CASE \/ \E e \in Executors : Acquire(e) \/ ExecutorClosed(e) \/ \E t \in Threads : Check(t, e)
           \/ \E t \in Threads : Signal(t) \/ Count(t)
  BY <1>4, ListsAlone
<1>5. CASE \E w \in Works : SubmitWork(w) \/ CancelWork(w) \/ WorkerEntry(w) \/ WorkerDone(w)
  BY <1>5, ExecutorSame DEF SubmitWork, CancelWork, WorkerEntry, WorkerDone, loopVars
<1>6. CASE \/ ScheduleFails \/ CleanupHeartbeat \/ StopOther
           \/ \E d \in Endpoints : Schedule(d) \/ Unschedule(d)
  BY <1>6, ExecutorSame DEF ScheduleFails, CleanupHeartbeat, StopOther, Schedule, Unschedule, loopVars
<1>7. CASE \E t \in Timers : TimerFires(t) \/ TimerClosed(t) \/ \E repeat \in BOOLEAN : StartOther(t, repeat)
  BY <1>7, ExecutorSame DEF TimerFires, TimerClosed, StartOther, loopVars
<1>8. CASE \E s \in Sockets : Open(s) \/ StopSocket(s) \/ Send(s) \/ SendDone(s) \/ SocketClosed(s)
  BY <1>8, ExecutorSame DEF Open, StopSocket, Send, SendDone, SocketClosed, loopVars
<1>9. CASE Shutdown \/ UNCHANGED platformVars
  BY <1>9, ExecutorSame DEF Shutdown, platformVars, loopVars
<1> QED BY <1>1, <1>2, <1>3, <1>4, <1>5, <1>6, <1>7, <1>8, <1>9 DEF PlatformNext, Loop, Others, Application

(***************************************************************************)
(* An executor's lists, the list that is taken and what has run: the       *)
(* invariant that makes the order of tasks survive the swaps.              *)
(***************************************************************************)
THEOREM ExecutorsInvariant == PlatformSpec => []ExecutorInv
BY ExecutorStart, ExecutorStep, PTL DEF PlatformSpec

(***************************************************************************)
(* The tasks of an executor run in the order they were pushed in, none     *)
(* twice, whichever threads push while its lists are swapped or run        *)
(* (pomelo_platform_task_threadsafe_async_callback).                       *)
(***************************************************************************)
THEOREM TasksInOrder == PlatformSpec => []RunsInOrder
<1>1. ExecutorInv => RunsInOrder
  BY DEF ExecutorInv, InTheirOrder, Rising, RunsInOrder
<1> QED BY <1>1, ExecutorsInvariant, PTL

-----------------------------------------------------------------------------
(***************************************************************************)
(* Timers and their handles.                                               *)
(***************************************************************************)

LEMMA TimerStart == PlatformInit => TimerInv
BY PlatformAssumption DEF PlatformInit, TimerInv, TimerTypeOK, TimerRecord,
                           TimersHaveHandles, HandlesMatchTimers, NoTimer, Handles

\* What pomelo_platform_uv_timer_stop_ex leaves, of every timer and of every handle.
LEMMA Stopped ==
    ASSUME TimerInv, NEW T \in SUBSET Timers
    PROVE  /\ StoppedTimers(T) \in [Timers -> TimerRecord]
           /\ ClearedHandles(T) \in [Handles -> Timers \cup {None}]
           /\ \A t \in Timers : StoppedTimers(T)[t].state = "running" <=> timer[t].state = "running" /\ t \notin T
           /\ \A t \in Timers \ T : StoppedTimers(T)[t] = timer[t]
           /\ \A h \in Handles : ClearedHandles(T)[h] = IF handle[h] \in T THEN None ELSE handle[h]
<1>1. timer \in [Timers -> TimerRecord] /\ handle \in [Handles -> Timers \cup {None}]
  BY DEF TimerInv, TimerTypeOK
<1>2. ASSUME NEW t \in Timers
      PROVE  /\ StoppedTimers(T)[t] \in TimerRecord
             /\ StoppedTimers(T)[t].state = "running" <=> timer[t].state = "running" /\ t \notin T
             /\ t \notin T => StoppedTimers(T)[t] = timer[t]
  <2> timer[t] \in TimerRecord
    BY <1>1
  <2> QED BY DEF StoppedTimers, TimerRecord
<1>3. ASSUME NEW h \in Handles
      PROVE  ClearedHandles(T)[h] = IF handle[h] \in T THEN None ELSE handle[h]
  <2>1. (\E t \in T : timer[t].state = "running" /\ timer[t].handle = h) <=> handle[h] \in T
    BY <1>1, PlatformAssumption DEF TimerInv, HandlesMatchTimers
  <2> QED BY <2>1 DEF ClearedHandles
<1>4. StoppedTimers(T) \in [Timers -> TimerRecord]
  BY <1>2 DEF StoppedTimers
<1>5. ClearedHandles(T) \in [Handles -> Timers \cup {None}]
  BY <1>1 DEF ClearedHandles
<1> QED BY <1>2, <1>3, <1>4, <1>5

\* What TimerInv says of the timers and the handles alone.
Matched ==
    /\ timer \in [Timers -> TimerRecord] /\ handle \in [Handles -> Timers \cup {None}]
    /\ \A h \in Handles : handle[h] # None =>
          timer[handle[h]].state = "running" /\ timer[handle[h]].handle = h
    /\ \A t \in Timers : timer[t].state = "running" =>
          /\ timer[t].handle \in Handles /\ handle[timer[t].handle] = t
          /\ timer[t].handle = "heartbeat" => timer[t].repeat

LEMMA Parted ==
    TimerInv <=> /\ Matched /\ on \in {Parts, {}} /\ scheduled \subseteq Endpoints
                 /\ scheduled = {} => handle["heartbeat"] = None
                 /\ "timers" \in on => (scheduled # {} <=> handle["heartbeat"] # None)
BY DEF TimerInv, TimerTypeOK, TimersHaveHandles, HandlesMatchTimers, Matched

LEMMA Joined ==
    ASSUME Matched', on' \in {Parts, {}}, scheduled' \subseteq Endpoints,
           scheduled' = {} => handle'["heartbeat"] = None,
           "timers" \in on' => (scheduled' # {} <=> handle'["heartbeat"] # None)
    PROVE  TimerInv'
BY DEF TimerInv, TimerTypeOK, TimersHaveHandles, HandlesMatchTimers, Matched

LEMMA StoppedMatch ==
    ASSUME TimerInv, NEW T \in SUBSET Timers, timer' = StoppedTimers(T), handle' = ClearedHandles(T)
    PROVE  Matched'
BY Stopped, Parted, PlatformAssumption DEF Matched

LEMMA StartedMatch ==
    ASSUME TimerInv, NEW t \in Timers, NEW h \in Handles, NEW repeat \in BOOLEAN,
           StartTimer(t, h, repeat), handle[h] = None, h = "heartbeat" => repeat
    PROVE  Matched' /\ handle' = [handle EXCEPT ![h] = t]
<1>1. /\ timer' = [timer EXCEPT ![t] = [state |-> "running", repeat |-> repeat, handle |-> h]]
      /\ handle' = [handle EXCEPT ![h] = t] /\ timer[t].state = "free"
  BY DEF StartTimer
<1>2. [state |-> "running", repeat |-> repeat, handle |-> h] \in TimerRecord
  BY DEF TimerRecord
<1> QED BY <1>1, <1>2, Parted, PlatformAssumption DEF Matched

\* pomelo_platform_uv_timer_stop, of a handle that may have no timer
LEMMA StopMatch ==
    ASSUME TimerInv, NEW h \in Handles, StopTimer(h)
    PROVE  Matched' /\ handle' = [handle EXCEPT ![h] = None]
<1>1. CASE handle[h] = None
  BY <1>1, Parted DEF StopTimer, Matched
<1>2. CASE handle[h] # None
  <2>1. handle[h] \in Timers /\ {handle[h]} \in SUBSET Timers
    BY <1>2, Parted DEF Matched
  <2>2. timer' = StoppedTimers({handle[h]}) /\ handle' = [ClearedHandles({handle[h]}) EXCEPT ![h] = None]
    BY <1>2 DEF StopTimer
  <2> DEFINE cleared == ClearedHandles({handle[h]})
  <2>6. cleared \in [Handles -> Timers \cup {None}] /\ handle \in [Handles -> Timers \cup {None}]
        /\ \A g \in Handles : cleared[g] = IF handle[g] = handle[h] THEN None ELSE handle[g]
    BY <2>1, Stopped, Parted DEF Matched
  <2>3. \A g \in Handles : cleared[g] = IF g = h THEN None ELSE handle[g]
    <3>1. \A g \in Handles : handle[g] = handle[h] => g = h
      BY <1>2, Parted DEF Matched
    <3> QED BY <2>6, <3>1
  <2> HIDE DEF cleared
  <2>7. [cleared EXCEPT ![h] = None] = cleared
    BY <2>3, <2>6
  <2>4. handle' = ClearedHandles({handle[h]})
    BY <2>2, <2>7 DEF cleared
  <2>8. cleared = [handle EXCEPT ![h] = None]
    BY <2>3, <2>6
  <2>5. handle' = [handle EXCEPT ![h] = None]
    BY <2>4, <2>8 DEF cleared
  <2> QED BY <2>1, <2>2, <2>4, <2>5, StoppedMatch
<1> QED BY <1>1, <1>2

LEMMA TimerStep == TimerInv /\ [PlatformNext]_platformVars => TimerInv'
<1> SUFFICES ASSUME TimerInv, [PlatformNext]_platformVars PROVE TimerInv'
  OBVIOUS
<1> USE Parted, Joined
<1>1. Handles = {"heartbeat", "other"} /\ Parts # {} /\ "timers" \in Parts
  BY DEF Handles, Parts
<1>2. ASSUME UNCHANGED <<on, timerVars>> PROVE TimerInv'
  BY <1>2 DEF timerVars, Matched
<1>3. CASE TimersEnd
  <2>1. CASE platform.idle
    <3>1. /\ on' = {} /\ UNCHANGED scheduled
          /\ timer' = StoppedTimers(Timers) /\ handle' = ClearedHandles(Timers)
      BY <1>3, <2>1 DEF TimersEnd, IdleCallback
    <3>2. Matched'
      BY <3>1, StoppedMatch
    <3>3. handle'["heartbeat"] = None
      BY <1>1, <3>1, Stopped DEF Matched
    <3> QED BY <3>1, <3>2, <3>3
  <2>2. CASE ~ platform.idle
    BY <1>2, <1>3, <2>2 DEF TimersEnd, timerVars
  <2> QED BY <2>1, <2>2
<1>4. ASSUME NEW d \in Endpoints, Schedule(d) PROVE TimerInv'
  <2>1. scheduled' = scheduled \cup {d} /\ on' = on
    BY <1>4 DEF Schedule, loopVars
  <2>2. CASE scheduled = {}
    <3>1. PICK t \in Timers : StartTimer(t, "heartbeat", TRUE)
      BY <1>4, <2>2 DEF Schedule
    <3>2. Matched' /\ handle' = [handle EXCEPT !["heartbeat"] = t]
      BY <1>1, <2>2, <3>1, StartedMatch
    <3>3. handle'["heartbeat"] = t
      BY <1>1, <3>2 DEF Matched
    <3>4. t # None
      BY PlatformAssumption
    <3> QED BY <2>1, <3>2, <3>3, <3>4
  <2>3. CASE scheduled # {}
    BY <1>4, <2>1, <2>3 DEF Schedule, Matched
  <2> QED BY <2>2, <2>3
<1>5. CASE ScheduleFails
  <2>1. /\ UNCHANGED <<on, handle, scheduled>>
        /\ \E t \in Timers :
             /\ timer[t].state = "free"
             /\ timer' = [timer EXCEPT ![t] = [state |-> "closing", repeat |-> TRUE, handle |-> None]]
    BY <1>5 DEF ScheduleFails, loopVars
  <2>2. [state |-> "closing", repeat |-> TRUE, handle |-> None] \in TimerRecord
    BY DEF TimerRecord
  <2> QED BY <2>1, <2>2 DEF Matched
<1>6. ASSUME NEW d \in Endpoints, Unschedule(d) PROVE TimerInv'
  <2>1. scheduled' = scheduled \ {d} /\ on' = on /\ d \in scheduled
    BY <1>6 DEF Unschedule, loopVars
  <2>2. CASE scheduled = {d}
    <3>1. Matched' /\ handle' = [handle EXCEPT !["heartbeat"] = None]
      BY <1>1, <1>6, <2>2, StopMatch DEF Unschedule
    <3>2. handle'["heartbeat"] = None
      BY <1>1, <3>1 DEF Matched
    <3> QED BY <2>1, <2>2, <3>1, <3>2
  <2>3. CASE scheduled # {d}
    BY <1>6, <2>1, <2>3 DEF Unschedule, Matched
  <2> QED BY <2>2, <2>3
<1>7. CASE CleanupHeartbeat
  <2>1. scheduled' = {} /\ on' = on /\ Matched' /\ handle' = [handle EXCEPT !["heartbeat"] = None]
    BY <1>1, <1>7, StopMatch DEF CleanupHeartbeat, loopVars
  <2>2. handle'["heartbeat"] = None
    BY <1>1, <2>1 DEF Matched
  <2> QED BY <2>1, <2>2
<1>8. ASSUME NEW t \in Timers, NEW repeat \in BOOLEAN, StartOther(t, repeat) PROVE TimerInv'
  <2>1. /\ UNCHANGED <<on, scheduled>> /\ Matched' /\ handle' = [handle EXCEPT !["other"] = t]
    BY <1>1, <1>8, StartedMatch DEF StartOther, loopVars
  <2>2. handle'["heartbeat"] = handle["heartbeat"]
    BY <1>1, <2>1 DEF Matched
  <2> QED BY <2>1, <2>2
<1>9. CASE StopOther
  <2>1. /\ UNCHANGED <<on, scheduled>> /\ Matched' /\ handle' = [handle EXCEPT !["other"] = None]
    BY <1>1, <1>9, StopMatch DEF StopOther, loopVars
  <2>2. handle'["heartbeat"] = handle["heartbeat"]
    BY <1>1, <2>1 DEF Matched
  <2> QED BY <2>1, <2>2
<1>10. ASSUME NEW t \in Timers, TimerFires(t) PROVE TimerInv'
  <2>1. /\ UNCHANGED <<on, scheduled>> /\ timer' = StoppedTimers({t}) /\ handle' = ClearedHandles({t})
        /\ timer[t].state = "running" /\ ~ timer[t].repeat
    BY <1>10 DEF TimerFires, loopVars
  <2>2. Matched'
    BY <2>1, StoppedMatch
  <2>3. handle["heartbeat"] # t
    BY <1>1, <2>1, PlatformAssumption DEF Matched
  <2>4. handle'["heartbeat"] = handle["heartbeat"]
    BY <1>1, <2>1, <2>3, Stopped
  <2> QED BY <2>1, <2>2, <2>4
<1>11. ASSUME NEW t \in Timers, TimerClosed(t) PROVE TimerInv'
  <2>1. /\ UNCHANGED <<on, handle, scheduled>> /\ timer[t].state = "closing"
        /\ timer' = [timer EXCEPT ![t] = NoTimer]
    BY <1>11 DEF TimerClosed
  <2>2. NoTimer \in TimerRecord /\ NoTimer.state = "free"
    BY DEF TimerRecord, NoTimer
  <2> QED BY <2>1, <2>2 DEF Matched
<1>12. CASE PollEnd \/ ClosingEnd \/ Shutdown \/ UNCHANGED platformVars
  BY <1>2, <1>12 DEF PollEnd, ClosingEnd, Shutdown, platformVars, loopVars
<1>13. CASE \/ RunTask \/ AsyncEnd
            \/ \E e \in Executors : \/ AsyncBegin(e) \/ ExecutorClosed(e) \/ Acquire(e) \/ Release(e)
                                    \/ \E t \in Threads : Check(t, e)
            \/ \E t \in Threads : Push(t) \/ Signal(t) \/ Count(t)
  BY <1>2, <1>13 DEF RunTask, AsyncEnd, AsyncBegin, ExecutorClosed, Acquire, Release, Check, Push, Signal, Count,
                     loopVars
<1>14. CASE \E w \in Works : SubmitWork(w) \/ CancelWork(w) \/ WorkerEntry(w) \/ WorkerDone(w)
  BY <1>2, <1>14 DEF SubmitWork, CancelWork, WorkerEntry, WorkerDone, loopVars
<1>15. CASE \E s \in Sockets : Open(s) \/ StopSocket(s) \/ Send(s) \/ SendDone(s) \/ SocketClosed(s)
  BY <1>2, <1>15 DEF Open, StopSocket, Send, SendDone, SocketClosed, loopVars
<1> QED BY <1>3, <1>4, <1>5, <1>6, <1>7, <1>8, <1>9, <1>10, <1>11, <1>12, <1>13, <1>14, <1>15
        DEF PlatformNext, Loop, Others, Application

(***************************************************************************)
(* A timer and its handle know each other or neither, and the heartbeat    *)
(* has a timer just when an endpoint waits for it, however starts, stops,  *)
(* failures and the shutdown follow each other (timer.c, heartbeat.c).     *)
(***************************************************************************)
THEOREM TimersMatch == PlatformSpec => []HandlesMatchTimers
<1>1. TimerInv => HandlesMatchTimers
  BY DEF TimerInv
<1> QED BY <1>1, TimerStart, TimerStep, PTL DEF PlatformSpec

-----------------------------------------------------------------------------
(***************************************************************************)
(* The shutdown.                                                           *)
(***************************************************************************)

LEMMA PartsDiffer == Parts # {} /\ {"executors", "workers", "timers", "sockets"} \subseteq Parts
BY DEF Parts

LEMMA ShutdownStart == PlatformInit => ShutdownInv
<1> SUFFICES ASSUME PlatformInit PROVE ShutdownInv
  OBVIOUS
<1>1. ShutdownTypeOK
  BY DEF PlatformInit, ShutdownTypeOK, TimerRecord, SocketRecord, NoTimer, NoSocket
<1>2. ReportedEnded /\ ReportsOnce /\ SocketsAreListed
  BY PartsDiffer DEF PlatformInit, ReportedEnded, ReportsOnce, SocketsAreListed, NoSocket
<1> QED BY <1>1, <1>2 DEF ShutdownInv

\* pomelo_platform_check_shutdown: a part reports when the controllers are shut down,
\* and for the first time.
LEMMA ReportCounts ==
    ASSUME ShutdownInv, NEW part \in Parts, NEW n \in {0, 1}, Report(part, n), on' = on,
           n = 1 => on = {} /\ part \notin platform.components
    PROVE  /\ ReportsOnce'
           /\ platform' \in [running : BOOLEAN, idle : BOOLEAN, components : SUBSET Parts]
           /\ platform'.components = IF n = 1 THEN platform.components \cup {part} ELSE platform.components
<1>1. platform \in [running : BOOLEAN, idle : BOOLEAN, components : SUBSET Parts]
  BY DEF ShutdownInv, ShutdownTypeOK
<1>2. CASE n = 0
  BY <1>1, <1>2 DEF Report, ShutdownInv, ReportsOnce
<1>3. CASE n = 1
  <2>1. on = {} /\ ~ platform.running /\ ~ platform.idle /\ part \notin platform.components /\ calledBack = 0
    BY <1>3, PartsDiffer DEF ShutdownInv, ReportsOnce
  <2>2. /\ platform' = [platform EXCEPT !.components = @ \cup {part}]
        /\ calledBack' = IF platform.components \cup {part} = Parts THEN 1 ELSE 0
        /\ broken' = {}
    BY <1>3, <2>1 DEF Report, ShutdownInv, ReportsOnce
  <2>3. /\ platform'.components = platform.components \cup {part}
        /\ ~ platform'.running /\ ~ platform'.idle
        /\ platform' \in [running : BOOLEAN, idle : BOOLEAN, components : SUBSET Parts]
    BY <1>1, <2>1, <2>2
  <2> QED BY <1>3, <2>1, <2>2, <2>3, PartsDiffer DEF ReportsOnce
<1> QED BY <1>2, <1>3

\* Nothing that the shutdown is about changes.
LEMMA ShutdownSame ==
    ASSUME ShutdownInv, UNCHANGED <<platform, on, calledBack, broken, work, timer, socketVars>>,
           \A e \in Executors : executor'[e].listed => executor[e].listed
    PROVE  ShutdownInv'
<1>1. ShutdownTypeOK' /\ ReportsOnce' /\ SocketsAreListed'
  BY DEF ShutdownInv, ShutdownTypeOK, ReportsOnce, SocketsAreListed, socketVars
<1>2. ReportedEnded'
  BY DEF ShutdownInv, ReportedEnded, socketVars
<1> QED BY <1>1, <1>2 DEF ShutdownInv

\* shutdown_idle_cb
LEMMA IdleEnds == ASSUME ShutdownInv, ExecutorInv, TimersEnd, platform.idle PROVE ShutdownInv'
<1>1. /\ on' = {} /\ UNCHANGED <<sends, sending_requests>>
      /\ socket' = [s \in Sockets |-> IF s \in OpenSockets THEN [socket[s] EXCEPT !.state = "closing"]
                                      ELSE socket[s]]
      /\ timer' = StoppedTimers(Timers)
      /\ executor' = [e \in Executors |-> IF e \in Listed THEN ClosedExecutor(executor[e]) ELSE executor[e]]
      /\ broken' = IF \E e \in Listed : ~ executor[e].running THEN broken \cup {"executor"} ELSE broken
      /\ work' = [w \in Works |-> IF work[w].state = "free" THEN work[w] ELSE CanceledWork(work[w])]
      /\ platform' = [platform EXCEPT !.idle = FALSE, !.components = NothingToClose]
      /\ calledBack' = IF NothingToClose = Parts THEN calledBack + 1 ELSE calledBack
  BY DEF TimersEnd, IdleCallback
<1>2. ~ platform.running /\ on = Parts /\ calledBack = 0 /\ broken = {} /\ phase = "timers"
  BY PartsDiffer DEF ShutdownInv, ReportsOnce, TimersEnd
<1>3. broken' = {}
  BY <1>1, <1>2 DEF ExecutorInv, ExecutorsRun, Listed
<1>4. NothingToClose \in SUBSET Parts
  BY DEF NothingToClose
<1>5. /\ platform' \in [running : BOOLEAN, idle : BOOLEAN, components : SUBSET Parts]
      /\ ~ platform'.running /\ ~ platform'.idle /\ platform'.components = NothingToClose
  BY <1>1, <1>2, <1>4 DEF ShutdownInv, ShutdownTypeOK
<1>6. ReportsOnce'
  <2>1. calledBack' = IF NothingToClose = Parts THEN 1 ELSE 0
    BY <1>1, <1>2
  <2> QED BY <1>1, <1>3, <1>5, <2>1, PartsDiffer DEF ReportsOnce
<1>7. ASSUME NEW s \in Sockets
      PROVE  /\ socket'[s] \in SocketRecord
             /\ socket'[s].listed <=> socket[s].listed /\ socket'[s].sends = socket[s].sends
             /\ socket'[s].state = "free" <=> socket[s].state = "free"
  BY <1>1 DEF ShutdownInv, ShutdownTypeOK, SocketRecord, OpenSockets
<1>8. SocketsAreListed'
  BY <1>1, <1>7 DEF ShutdownInv, SocketsAreListed
<1>9. ASSUME NEW w \in Works
      PROVE  /\ work'[w] \in [state : {"free", "queued", "running", "done"}, canceled : BOOLEAN]
             /\ work[w].state = "free" => work'[w].state = "free"
  BY <1>1 DEF ShutdownInv, ShutdownTypeOK, CanceledWork
<1>10. ASSUME NEW t \in Timers
       PROVE  timer'[t] \in TimerRecord /\ (timer[t].state = "free" => timer'[t].state = "free")
  <2>1. timer[t] \in TimerRecord
    BY DEF ShutdownInv, ShutdownTypeOK
  <2> QED BY <1>1, <2>1 DEF StoppedTimers, TimerRecord
<1>11. ShutdownTypeOK'
  BY <1>1, <1>5, <1>7, <1>9, <1>10 DEF ShutdownInv, ShutdownTypeOK, StoppedTimers
<1>12. ASSUME NEW e \in Executors, ~ executor[e].listed PROVE ~ executor'[e].listed
  BY <1>1, <1>12 DEF Listed
<1>13. ReportedEnded'
  <2>1. "sockets" \in NothingToClose => OpenSockets = {} /\ sending_requests = 0
    BY DEF NothingToClose, NothingOf
  <2>2. "timers" \in NothingToClose => \A t \in Timers : timer[t].state = "free"
    BY DEF NothingToClose, NothingOf
  <2>3. "executors" \in NothingToClose => Listed = {}
    BY DEF NothingToClose, NothingOf
  <2>4. "workers" \in NothingToClose => \A w \in Works : work[w].state = "free"
    BY DEF NothingToClose, NothingOf
  <2>5. OpenSockets = {} => \A s \in Sockets : socket'[s].state = "free" \/ ~ socket'[s].listed
    BY <1>7 DEF OpenSockets
  <2>6. Listed = {} => \A e \in Executors : ~ executor'[e].listed
    BY <1>12 DEF Listed
  <2> QED BY <1>1, <1>5, <1>9, <1>10, <2>1, <2>2, <2>3, <2>4, <2>5, <2>6 DEF ReportedEnded
<1> QED BY <1>6, <1>8, <1>11, <1>13 DEF ShutdownInv

\* Only a call that acquires an executor puts one into the list.
LEMMA ListedStays ==
    ASSUME ExecutorInv,
           \/ RunTask \/ AsyncEnd
           \/ \E e \in Executors : AsyncBegin(e) \/ Release(e) \/ \E t \in Threads : Check(t, e)
           \/ \E t \in Threads : Push(t) \/ Signal(t) \/ Count(t),
           NEW f \in Executors
    PROVE  executor'[f].listed => executor[f].listed
<1>1. executor \in [Executors -> ExecutorRecord] /\ executor[f] \in ExecutorRecord
  BY DEF ExecutorInv, ExecutorTypeOK
<1>2. CASE RunTask
  <2>1. \E new, marks : executor' = [executor EXCEPT ![executing].back = new, ![executing].flags = marks]
    BY <1>2 DEF RunTask
  <2> QED BY <1>1, <2>1 DEF ExecutorRecord
<1>3. CASE AsyncEnd
  <2> DEFINE record == [executor[executing] EXCEPT !.flags = @ \ {"BUSY"}]
  <2>1. \/ executor' = [executor EXCEPT ![executing] = ClosedExecutor(record)]
        \/ executor' = [executor EXCEPT ![executing] = record]
    BY <1>3 DEF AsyncEnd
  <2>2. executing = f => ClosedExecutor(record).listed = executor[f].listed /\ record.listed = executor[f].listed
    BY <1>1 DEF ExecutorRecord, ClosedExecutor
  <2> HIDE DEF record
  <2> QED BY <1>1, <2>1, <2>2
<1>4. ASSUME NEW e \in Executors, AsyncBegin(e) PROVE executor'[f].listed => executor[f].listed
  <2>1. executor' = [executor EXCEPT ![e] = Swap(executor[e])]
    BY <1>1, <1>4 DEF AsyncBegin
  <2>2. e = f => Swap(executor[e]).listed = executor[f].listed
    BY <1>1 DEF ExecutorRecord, Swap
  <2> QED BY <1>1, <2>1, <2>2
<1>5. ASSUME NEW e \in Executors, Release(e) PROVE executor'[f].listed => executor[f].listed
  <2>1. \E new : executor' = [executor EXCEPT ![e].front = new, ![e].signal = TRUE]
    BY <1>5 DEF Release
  <2> QED BY <1>1, <2>1 DEF ExecutorRecord
<1>6. ASSUME NEW t \in Threads, Push(t) PROVE executor'[f].listed => executor[f].listed
  <2>1. \E new : executor' = [executor EXCEPT ![thread[t].executor].front = new]
    BY <1>6 DEF Push
  <2> QED BY <1>1, <2>1 DEF ExecutorRecord
<1>7. ASSUME NEW t \in Threads, Signal(t) PROVE executor'[f].listed => executor[f].listed
  <2>1. \E new : executor' = [executor EXCEPT ![thread[t].executor].signal = new]
    BY <1>7 DEF Signal
  <2> QED BY <1>1, <2>1 DEF ExecutorRecord
<1>8. ASSUME NEW t \in Threads, Count(t) \/ \E e \in Executors : Check(t, e)
      PROVE executor'[f].listed => executor[f].listed
  BY <1>8 DEF Check, Count
<1> QED BY <1>2, <1>3, <1>4, <1>5, <1>6, <1>7, <1>8

LEMMA ExecutorsEnd ==
    ASSUME ShutdownInv, ExecutorInv, NEW e \in Executors, Acquire(e) \/ ExecutorClosed(e)
    PROVE  ShutdownInv'
<1>1. CASE Acquire(e)
  <2>1. on = Parts /\ UNCHANGED <<platform, on, calledBack, broken, work, timer, socketVars>>
    BY <1>1 DEF Acquire, loopVars, timerVars, ShutdownInv, ShutdownTypeOK
  <2>2. ShutdownTypeOK' /\ ReportsOnce' /\ SocketsAreListed'
    BY <2>1 DEF ShutdownInv, ShutdownTypeOK, ReportsOnce, SocketsAreListed, socketVars
  <2>3. ReportedEnded'
    BY <2>1 DEF ReportedEnded, ShutdownInv, ReportsOnce
  <2> QED BY <2>2, <2>3 DEF ShutdownInv
<1>2. CASE ExecutorClosed(e)
  <2> DEFINE n == Once("executors" \notin on /\ Listed = {e})
  <2>1. /\ Report("executors", n) /\ executor[e].closing
        /\ executor' = [executor EXCEPT ![e].listed = FALSE, ![e].closing = FALSE]
        /\ UNCHANGED <<on, work, timer, socketVars>>
    BY <1>2 DEF ExecutorClosed, timerVars
  <2>2. executor \in [Executors -> ExecutorRecord]
    BY DEF ExecutorInv, ExecutorTypeOK
  <2>3. /\ ~ executor'[e].listed
        /\ \A f \in Executors : f # e => executor'[f] = executor[f]
    BY <2>1, <2>2 DEF ExecutorRecord
  <2>4. executor[e].listed
    BY <2>1 DEF ExecutorInv, ExecutorsRun
  <2>5. "executors" \notin platform.components
    BY <2>4 DEF ShutdownInv, ReportedEnded
  <2>6. n \in {0, 1} /\ (n = 1 => on = {} /\ Listed = {e})
    BY PartsDiffer DEF Once, ShutdownInv, ShutdownTypeOK
  <2> HIDE DEF n
  <2>7. /\ ReportsOnce' /\ platform' \in [running : BOOLEAN, idle : BOOLEAN, components : SUBSET Parts]
        /\ platform'.components = IF n = 1 THEN platform.components \cup {"executors"} ELSE platform.components
    BY <2>1, <2>5, <2>6, PartsDiffer, ReportCounts
  <2>8. n = 1 => \A f \in Executors : ~ executor'[f].listed
    BY <2>3, <2>6 DEF Listed
  <2>9. ReportedEnded'
    <3>1. "executors" \in platform'.components => \A f \in Executors : ~ executor'[f].listed
      BY <2>5, <2>7, <2>8
    <3>2. \A part \in {"sockets", "timers", "workers"} : part \in platform'.components => part \in platform.components
      BY <2>7
    <3> QED BY <2>1, <3>1, <3>2 DEF ReportedEnded, ShutdownInv, socketVars
  <2>10. ShutdownTypeOK' /\ SocketsAreListed'
    BY <2>1, <2>7 DEF ShutdownInv, ShutdownTypeOK, SocketsAreListed, socketVars
  <2> QED BY <2>7, <2>9, <2>10 DEF ShutdownInv
<1> QED BY <1>1, <1>2

LEMMA WorkEnds ==
    ASSUME ShutdownInv, NEW w \in Works, SubmitWork(w) \/ CancelWork(w) \/ WorkerEntry(w) \/ WorkerDone(w)
    PROVE  ShutdownInv'
<1> DEFINE States == [state : {"free", "queued", "running", "done"}, canceled : BOOLEAN]
<1>1. CASE SubmitWork(w) \/ CancelWork(w) \/ WorkerEntry(w)
  <2>1. UNCHANGED <<platform, on, calledBack, broken, executor, timer, socketVars>>
    BY <1>1 DEF SubmitWork, CancelWork, WorkerEntry, loopVars, execVars, timerVars
  <2>2. work' \in [Works -> States]
    <3>1. work \in [Works -> States] /\ work[w].state \in {"free", "queued", "running", "done"}
      BY DEF ShutdownInv, ShutdownTypeOK
    <3>2. \E r \in States : work' = [work EXCEPT ![w] = r]
      <4>1. CASE SubmitWork(w)
        BY <4>1 DEF SubmitWork
      <4>2. CASE CancelWork(w)
        <5>1. CanceledWork(work[w]) \in States
          BY <3>1 DEF CanceledWork
        <5> QED BY <4>2, <5>1 DEF CancelWork
      <4>3. CASE WorkerEntry(w)
        <5> DEFINE r == [work[w] EXCEPT !.state = IF @ = "queued" THEN "running" ELSE "done"]
        <5>1. r \in States
          BY <3>1
        <5>2. work' = [work EXCEPT ![w] = r]
          BY <3>1, <4>3 DEF WorkerEntry
        <5> QED BY <5>1, <5>2
      <4> QED BY <1>1, <4>1, <4>2, <4>3
    <3> QED BY <3>1, <3>2
  <2>3. ShutdownTypeOK' /\ ReportsOnce' /\ SocketsAreListed'
    BY <2>1, <2>2 DEF ShutdownInv, ShutdownTypeOK, ReportsOnce, SocketsAreListed, socketVars
  <2>4. "workers" \notin platform.components
    <3>1. CASE SubmitWork(w)
      BY <3>1 DEF SubmitWork, ShutdownInv, ShutdownTypeOK, ReportsOnce
    <3>2. CASE CancelWork(w) \/ WorkerEntry(w)
      BY <3>2 DEF CancelWork, WorkerEntry, ShutdownInv, ReportedEnded
    <3> QED BY <1>1, <3>1, <3>2
  <2>5. ReportedEnded'
    BY <2>1, <2>4 DEF ReportedEnded, ShutdownInv, socketVars
  <2> QED BY <2>3, <2>5 DEF ShutdownInv
<1>2. CASE WorkerDone(w)
  <2> DEFINE n == Once("workers" \notin on /\ \A v \in Works \ {w} : work[v].state = "free")
  <2>1. /\ Report("workers", n) /\ work[w].state = "done"
        /\ work' = [work EXCEPT ![w] = [state |-> "free", canceled |-> FALSE]]
        /\ UNCHANGED <<on, executor, timer, socketVars>>
    BY <1>2 DEF WorkerDone, execVars, timerVars
  <2>2. work' \in [Works -> States] /\ work'[w].state = "free"
        /\ \A v \in Works \ {w} : work'[v] = work[v]
    BY <2>1 DEF ShutdownInv, ShutdownTypeOK
  <2>3. "workers" \notin platform.components
    BY <2>1 DEF ShutdownInv, ReportedEnded
  <2>4. n \in {0, 1} /\ (n = 1 => on = {} /\ \A v \in Works \ {w} : work[v].state = "free")
    BY PartsDiffer DEF Once, ShutdownInv, ShutdownTypeOK
  <2> HIDE DEF n
  <2>5. /\ ReportsOnce' /\ platform' \in [running : BOOLEAN, idle : BOOLEAN, components : SUBSET Parts]
        /\ platform'.components = IF n = 1 THEN platform.components \cup {"workers"} ELSE platform.components
    BY <2>1, <2>3, <2>4, PartsDiffer, ReportCounts
  <2>6. ReportedEnded'
    BY <2>1, <2>2, <2>3, <2>4, <2>5 DEF ReportedEnded, ShutdownInv, socketVars
  <2>7. ShutdownTypeOK' /\ SocketsAreListed'
    BY <2>1, <2>2, <2>5 DEF ShutdownInv, ShutdownTypeOK, SocketsAreListed, socketVars
  <2> QED BY <2>5, <2>6, <2>7 DEF ShutdownInv
<1> QED BY <1>1, <1>2

\* Timers start before the shutdown is asked for; afterwards they only stop.
LEMMA TimersEndOnce ==
    ASSUME ~ LateStarts, ShutdownInv, TimerInv,
           \/ ScheduleFails \/ CleanupHeartbeat \/ StopOther
           \/ \E d \in Endpoints : Schedule(d) \/ Unschedule(d)
           \/ \E t \in Timers : TimerFires(t) \/ \E repeat \in BOOLEAN : StartOther(t, repeat)
    PROVE  ShutdownInv'
<1>1. UNCHANGED <<platform, on, calledBack, broken, executor, work, socketVars>>
  BY DEF ScheduleFails, CleanupHeartbeat, StopOther, Schedule, Unschedule, TimerFires, StartOther, loopVars, execVars
<1>2. TimerInv => timer \in [Timers -> TimerRecord]
  BY DEF TimerInv, TimerTypeOK
<1>3. "timers" \in platform.components => \A t \in Timers : timer[t].state = "free"
  BY DEF ShutdownInv, ReportedEnded
<1>4. \A T \in SUBSET Timers : /\ StoppedTimers(T) \in [Timers -> TimerRecord]
        /\ \A t \in Timers : timer[t].state = "free" => StoppedTimers(T)[t].state = "free"
  <2> SUFFICES ASSUME NEW T \in SUBSET Timers, NEW t \in Timers, timer[t].state = "free"
               PROVE  StoppedTimers(T)[t].state = "free"
    BY Stopped
  <2> QED BY DEF StoppedTimers
<1>5. ASSUME NEW h \in Handles, StopTimer(h)
      PROVE  timer' \in [Timers -> TimerRecord] /\ ("timers" \in platform.components => UNCHANGED timer)
  <2>1. handle[h] = None \/ (handle[h] \in Timers /\ timer[handle[h]].state = "running")
    BY Parted DEF Matched
  <2> QED BY <1>2, <1>3, <1>4, <1>5, <2>1 DEF StopTimer
<1>6. ASSUME NEW t \in Timers, NEW h \in Handles, NEW repeat \in BOOLEAN, StartTimer(t, h, repeat)
      PROVE  timer' \in [Timers -> TimerRecord] /\ "timers" \notin platform.components
  <2>1. platform.components = {}
    BY <1>6 DEF StartTimer, MayStart, ShutdownInv, ReportsOnce
  <2>2. [state |-> "running", repeat |-> repeat, handle |-> h] \in TimerRecord
    BY DEF TimerRecord
  <2>3. timer' = [timer EXCEPT ![t] = [state |-> "running", repeat |-> repeat, handle |-> h]]
    BY <1>6 DEF StartTimer
  <2> QED BY <1>2, <2>1, <2>2, <2>3
<1>7. Handles = {"heartbeat", "other"}
  BY DEF Handles
<1>8. timer' \in [Timers -> TimerRecord] /\ ("timers" \in platform.components => UNCHANGED timer)
  <2>1. CASE ScheduleFails
    <3>1. platform.components = {}
      BY <2>1 DEF ScheduleFails, MayStart, ShutdownInv, ReportsOnce
    <3>2. [state |-> "closing", repeat |-> TRUE, handle |-> None] \in TimerRecord
      BY DEF TimerRecord
    <3>3. \E t \in Timers : timer' = [timer EXCEPT ![t] = [state |-> "closing", repeat |-> TRUE, handle |-> None]]
      BY <2>1 DEF ScheduleFails
    <3> QED BY <1>2, <3>1, <3>2, <3>3
  <2>2. CASE CleanupHeartbeat \/ StopOther
    BY <1>5, <1>7, <2>2 DEF CleanupHeartbeat, StopOther
  <2>3. ASSUME NEW d \in Endpoints, Schedule(d)
        PROVE  timer' \in [Timers -> TimerRecord] /\ ("timers" \in platform.components => UNCHANGED timer)
    BY <1>2, <1>6, <1>7, <2>3 DEF Schedule
  <2>4. ASSUME NEW d \in Endpoints, Unschedule(d)
        PROVE  timer' \in [Timers -> TimerRecord] /\ ("timers" \in platform.components => UNCHANGED timer)
    BY <1>2, <1>5, <1>7, <2>4 DEF Unschedule
  <2>5. ASSUME NEW t \in Timers, TimerFires(t)
        PROVE  timer' \in [Timers -> TimerRecord] /\ ("timers" \in platform.components => UNCHANGED timer)
    BY <1>3, <1>4, <2>5 DEF TimerFires
  <2>6. ASSUME NEW t \in Timers, NEW repeat \in BOOLEAN, StartOther(t, repeat)
        PROVE  timer' \in [Timers -> TimerRecord] /\ ("timers" \in platform.components => UNCHANGED timer)
    BY <1>6, <1>7, <2>6 DEF StartOther
  <2> QED BY <2>1, <2>2, <2>3, <2>4, <2>5, <2>6
<1>9. ShutdownTypeOK' /\ ReportsOnce' /\ SocketsAreListed'
  BY <1>1, <1>8 DEF ShutdownInv, ShutdownTypeOK, ReportsOnce, SocketsAreListed, socketVars
<1>10. ReportedEnded'
  BY <1>1, <1>8 DEF ReportedEnded, ShutdownInv, socketVars
<1> QED BY <1>9, <1>10 DEF ShutdownInv

LEMMA TimersReport ==
    ASSUME ShutdownInv, NEW t \in Timers, TimerClosed(t)
    PROVE  ShutdownInv'
<1> DEFINE n == Once("timers" \notin on /\ \A u \in Timers \ {t} : timer[u].state = "free")
<1>1. /\ Report("timers", n) /\ timer[t].state = "closing" /\ timer' = [timer EXCEPT ![t] = NoTimer]
      /\ UNCHANGED <<on, executor, work, socketVars>>
  BY DEF TimerClosed, execVars
<1>2. timer' \in [Timers -> TimerRecord] /\ timer'[t].state = "free"
      /\ \A u \in Timers \ {t} : timer'[u] = timer[u]
  <2>1. NoTimer \in TimerRecord /\ NoTimer.state = "free"
    BY DEF NoTimer, TimerRecord
  <2> QED BY <1>1, <2>1 DEF ShutdownInv, ShutdownTypeOK
<1>3. "timers" \notin platform.components
  BY <1>1 DEF ShutdownInv, ReportedEnded
<1>4. n \in {0, 1} /\ (n = 1 => on = {} /\ \A u \in Timers \ {t} : timer[u].state = "free")
  BY PartsDiffer DEF Once, ShutdownInv, ShutdownTypeOK
<1> HIDE DEF n
<1>5. /\ ReportsOnce' /\ platform' \in [running : BOOLEAN, idle : BOOLEAN, components : SUBSET Parts]
      /\ platform'.components = IF n = 1 THEN platform.components \cup {"timers"} ELSE platform.components
  BY <1>1, <1>3, <1>4, PartsDiffer, ReportCounts
<1>6. ReportedEnded'
  <2>1. "timers" \in platform'.components => \A u \in Timers : timer'[u].state = "free"
    BY <1>2, <1>3, <1>4, <1>5
  <2>2. \A part \in {"sockets", "executors", "workers"} : part \in platform'.components => part \in platform.components
    BY <1>5
  <2> QED BY <1>1, <2>1, <2>2 DEF ReportedEnded, ShutdownInv, socketVars
<1>7. ShutdownTypeOK' /\ SocketsAreListed'
  BY <1>1, <1>2, <1>5 DEF ShutdownInv, ShutdownTypeOK, SocketsAreListed, socketVars
<1> QED BY <1>5, <1>6, <1>7 DEF ShutdownInv

\* A socket or a send that ends may be the last.
LEMMA SocketsReport ==
    ASSUME ShutdownInv, NEW after, NEW requests \in Int, ReportSockets(after, requests),
           socket' = after, after \in [Sockets -> SocketRecord], sending_requests' = requests,
           UNCHANGED <<on, executor, work, timer>>, "sockets" \notin platform.components,
           SocketsAreListed'
    PROVE  ShutdownInv'
<1> DEFINE n == Once(/\ "sockets" \notin on /\ requests = 0
                     /\ \A s \in Sockets : after[s].state # "free" => ~ after[s].listed)
<1>1. Report("sockets", n)
  BY DEF ReportSockets
<1>2. n \in {0, 1} /\ (n = 1 => /\ on = {} /\ requests = 0
                               /\ \A s \in Sockets : after[s].state = "free" \/ ~ after[s].listed)
  BY PartsDiffer DEF Once, ShutdownInv, ShutdownTypeOK
<1> HIDE DEF n
<1>3. /\ ReportsOnce' /\ platform' \in [running : BOOLEAN, idle : BOOLEAN, components : SUBSET Parts]
      /\ platform'.components = IF n = 1 THEN platform.components \cup {"sockets"} ELSE platform.components
  BY <1>1, <1>2, PartsDiffer, ReportCounts
<1>4. ReportedEnded'
  <2>1. "sockets" \in platform'.components =>
          sending_requests' = 0 /\ \A s \in Sockets : socket'[s].state = "free" \/ ~ socket'[s].listed
    BY <1>2, <1>3
  <2>2. \A part \in {"timers", "executors", "workers"} : part \in platform'.components => part \in platform.components
    BY <1>3
  <2> QED BY <2>1, <2>2 DEF ReportedEnded, ShutdownInv
<1>5. ShutdownTypeOK'
  BY <1>3 DEF ShutdownInv, ShutdownTypeOK, SocketRecord, SocketsAreListed
<1> QED BY <1>3, <1>4, <1>5 DEF ShutdownInv

LEMMA SocketsEnd ==
    ASSUME ~ LateStarts, ~ MayFail, ShutdownInv, NEW s \in Sockets,
           Open(s) \/ StopSocket(s) \/ Send(s) \/ SendDone(s) \/ SocketClosed(s)
    PROVE  ShutdownInv'
<1>1. /\ socket \in [Sockets -> SocketRecord] /\ socket[s] \in SocketRecord
      /\ sends \in Int /\ sending_requests \in Int /\ sends = sending_requests
      /\ \A r \in Sockets : IF socket[r].state = "free" THEN socket[r].sends = 0 ELSE socket[r].listed
  BY DEF ShutdownInv, ShutdownTypeOK, SocketRecord, SocketsAreListed
<1>2. socket[s].state # "free" => "sockets" \notin platform.components
  BY <1>1 DEF ShutdownInv, ReportedEnded
<1>3. MayStart => platform.components = {}
  BY DEF MayStart, ShutdownInv, ReportsOnce
<1>4. ASSUME "sockets" \notin platform.components,
             UNCHANGED <<platform, on, calledBack, broken, executor, work, timer>>,
             socket' \in [Sockets -> SocketRecord], sends' \in Int, sending_requests' \in Int, SocketsAreListed'
      PROVE  ShutdownInv'
  <2>1. ShutdownTypeOK' /\ ReportsOnce'
    BY <1>4 DEF ShutdownInv, ShutdownTypeOK, ReportsOnce, SocketRecord
  <2>2. ReportedEnded'
    BY <1>4 DEF ReportedEnded, ShutdownInv
  <2> QED BY <1>4, <2>1, <2>2 DEF ShutdownInv
<1>5. CASE Open(s)
  <2> DEFINE r == [state |-> "open", listed |-> TRUE, sends |-> 0]
  <2>1. /\ MayStart /\ socket' = [socket EXCEPT ![s] = r]
        /\ UNCHANGED <<platform, on, calledBack, broken, executor, work, timer, sends, sending_requests>>
    BY <1>5 DEF Open, loopVars, execVars, timerVars
  <2>2. r \in SocketRecord
    BY DEF SocketRecord
  <2>3. SocketsAreListed'
    BY <1>1, <2>1 DEF SocketsAreListed
  <2> QED BY <1>1, <1>3, <1>4, <2>1, <2>2, <2>3
<1>6. CASE StopSocket(s)
  <2> DEFINE r == [socket[s] EXCEPT !.state = "closing"]
  <2>1. /\ socket[s].state = "open" /\ socket' = [socket EXCEPT ![s] = r]
        /\ UNCHANGED <<platform, on, calledBack, broken, executor, work, timer, sends, sending_requests>>
    BY <1>1, <1>6 DEF StopSocket, loopVars, execVars, timerVars
  <2>2. r \in SocketRecord /\ r.state = "closing" /\ (r.listed <=> socket[s].listed)
    BY <1>1 DEF SocketRecord
  <2> HIDE DEF r
  <2>3. SocketsAreListed'
    BY <1>1, <2>1, <2>2 DEF SocketsAreListed
  <2> QED BY <1>1, <1>2, <1>4, <2>1, <2>2, <2>3
<1>7. CASE Send(s)
  <2> DEFINE r == [socket[s] EXCEPT !.sends = @ + 1]
  <2>1. /\ socket[s].state = "open" /\ socket' = [socket EXCEPT ![s] = r]
        /\ sends' = sends + 1 /\ sending_requests' = sending_requests + 1
        /\ UNCHANGED <<platform, on, calledBack, broken, executor, work, timer>>
    BY <1>1, <1>7 DEF Send, loopVars, execVars, timerVars
  <2>2. r \in SocketRecord /\ r.state = socket[s].state /\ (r.listed <=> socket[s].listed)
    BY <1>1 DEF SocketRecord
  <2> HIDE DEF r
  <2>3. SocketsAreListed'
    BY <1>1, <2>1, <2>2 DEF SocketsAreListed
  <2> QED BY <1>1, <1>2, <1>4, <2>1, <2>2, <2>3
<1>8. CASE SendDone(s)
  <2> DEFINE r == [socket[s] EXCEPT !.sends = @ - 1]
  <2> DEFINE after == [socket EXCEPT ![s] = r]
  <2> DEFINE requests == sending_requests - 1
  <2>1. /\ socket[s].state # "free" /\ socket' = after
        /\ ReportSockets(after, requests)
        /\ sends' = sends - 1 /\ sending_requests' = requests
        /\ UNCHANGED <<on, executor, work, timer>>
    BY <1>1, <1>8 DEF SendDone, execVars, timerVars
  <2>2. r \in SocketRecord /\ r.state = socket[s].state /\ (r.listed <=> socket[s].listed)
    BY <1>1 DEF SocketRecord
  <2> HIDE DEF r
  <2>3. SocketsAreListed'
    BY <1>1, <2>1, <2>2 DEF SocketsAreListed
  <2>4. after \in [Sockets -> SocketRecord] /\ requests \in Int
    BY <1>1, <2>2
  <2>5. "sockets" \notin platform.components
    BY <1>2, <2>1
  <2> HIDE DEF after, requests
  <2> QED BY <2>1, <2>3, <2>4, <2>5, SocketsReport
<1>9. CASE SocketClosed(s)
  <2>1. /\ socket[s].state = "closing" /\ socket' = [socket EXCEPT ![s] = NoSocket]
        /\ UNCHANGED <<on, executor, work, timer, sends, sending_requests>>
    BY <1>9 DEF SocketClosed, execVars, timerVars
  <2>2. ReportSockets(socket', sending_requests)
    BY <1>1, <1>9, <2>1 DEF SocketClosed
  <2>3. NoSocket \in SocketRecord /\ NoSocket.state = "free" /\ NoSocket.sends = 0
    BY DEF SocketRecord, NoSocket
  <2>4. SocketsAreListed'
    BY <1>1, <2>1, <2>3 DEF SocketsAreListed
  <2> QED BY <1>1, <1>2, <2>1, <2>2, <2>3, <2>4, SocketsReport
<1> QED BY <1>5, <1>6, <1>7, <1>8, <1>9

LEMMA ShutdownStep ==
    ASSUME ~ LateStarts, ~ MayFail
    PROVE  ShutdownInv /\ ExecutorInv /\ TimerInv /\ [PlatformNext]_platformVars => ShutdownInv'
<1> SUFFICES ASSUME ShutdownInv, ExecutorInv, TimerInv, [PlatformNext]_platformVars
             PROVE  ShutdownInv'
  OBVIOUS
<1>1. CASE TimersEnd
  <2>1. CASE platform.idle
    BY <1>1, <2>1, IdleEnds
  <2>2. CASE ~ platform.idle
    BY <1>1, <2>2, ShutdownSame DEF TimersEnd, socketVars
  <2> QED BY <2>1, <2>2
<1>2. CASE PollEnd \/ ClosingEnd \/ UNCHANGED platformVars
  BY <1>2, ShutdownSame DEF PollEnd, ClosingEnd, platformVars, loopVars, execVars, timerVars
<1>3. CASE Shutdown
  <2>1. /\ platform.running /\ platform' = [running |-> FALSE, idle |-> TRUE, components |-> {}]
        /\ UNCHANGED <<on, calledBack, broken, executor, work, timer, socketVars>>
    BY <1>3 DEF Shutdown, execVars, timerVars
  <2>2. ShutdownTypeOK' /\ SocketsAreListed'
    BY <2>1 DEF ShutdownInv, ShutdownTypeOK, SocketsAreListed, socketVars
  <2>3. ReportsOnce' /\ ReportedEnded'
    BY <2>1, PartsDiffer DEF ShutdownInv, ReportsOnce, ReportedEnded
  <2> QED BY <2>2, <2>3 DEF ShutdownInv
<1>4. CASE \/ RunTask \/ AsyncEnd
           \/ \E e \in Executors : AsyncBegin(e) \/ Release(e) \/ \E t \in Threads : Check(t, e)
           \/ \E t \in Threads : Push(t) \/ Signal(t) \/ Count(t)
  <2>1. \A f \in Executors : executor'[f].listed => executor[f].listed
    BY <1>4, ListedStays
  <2>2. UNCHANGED <<platform, on, calledBack, work, timer, socketVars>>
    BY <1>4 DEF RunTask, AsyncEnd, AsyncBegin, Release, Check, Push, Signal, Count, loopVars, timerVars
  <2>3. broken' = broken
    <3>1. CASE AsyncEnd
      <4>1. executing # None /\ executing \in Executors /\ executor[executing].running
            /\ executor[executing] \in ExecutorRecord
        BY <3>1 DEF AsyncEnd, ExecutorInv, ExecutorTypeOK, ExecutorsRun
      <4>2. [executor[executing] EXCEPT !.flags = @ \ {"BUSY"}].running
        BY <4>1 DEF ExecutorRecord
      <4> QED BY <3>1, <4>2 DEF AsyncEnd
    <3>2. CASE ~ AsyncEnd
      BY <1>4, <3>2 DEF RunTask, AsyncBegin, Release, Check, Push, Signal, Count, loopVars
    <3> QED BY <3>1, <3>2
  <2> QED BY <2>1, <2>2, <2>3, ShutdownSame
<1>5. CASE \E e \in Executors : Acquire(e) \/ ExecutorClosed(e)
  BY <1>5, ExecutorsEnd
<1>6. CASE \E w \in Works : SubmitWork(w) \/ CancelWork(w) \/ WorkerEntry(w) \/ WorkerDone(w)
  BY <1>6, WorkEnds
<1>7. CASE \/ ScheduleFails \/ CleanupHeartbeat \/ StopOther
           \/ \E d \in Endpoints : Schedule(d) \/ Unschedule(d)
           \/ \E t \in Timers : TimerFires(t) \/ \E repeat \in BOOLEAN : StartOther(t, repeat)
  BY <1>7, TimersEndOnce
<1>8. CASE \E t \in Timers : TimerClosed(t)
  BY <1>8, TimersReport
<1>9. CASE \E s \in Sockets : Open(s) \/ StopSocket(s) \/ Send(s) \/ SendDone(s) \/ SocketClosed(s)
  BY <1>9, SocketsEnd
<1> QED BY <1>1, <1>2, <1>3, <1>4, <1>5, <1>6, <1>7, <1>8, <1>9 DEF PlatformNext, Loop, Others, Application

(***************************************************************************)
(* The shutdown callback comes once, and when it comes nothing is open,    *)
(* runs or is under way (pomelo_platform_check_shutdown).  It is the       *)
(* application that ~LateStarts speaks of; a socket that fails to open or  *)
(* a send that libuv refuses (MayFail) is left in the counts by the code.  *)
(***************************************************************************)
THEOREM ShutdownIsQuiet ==
    ASSUME ~ LateStarts, ~ MayFail
    PROVE  PlatformSpec => []CalledBackWhenQuiet
<1>1. ShutdownInv /\ ExecutorInv => CalledBackWhenQuiet
  <2> SUFFICES ASSUME ShutdownInv, ExecutorInv PROVE CalledBackWhenQuiet
    OBVIOUS
  <2>1. calledBack <= 1 /\ broken = {}
    BY DEF ShutdownInv, ReportsOnce
  <2> SUFFICES ASSUME calledBack = 1
               PROVE  /\ Listed = {} /\ executing = None
                      /\ \A w \in Works : work[w].state = "free"
                      /\ \A t \in Timers : timer[t].state = "free"
                      /\ \A s \in Sockets : socket[s].state = "free"
                      /\ sends = 0 /\ sending_requests = 0
    BY <2>1 DEF CalledBackWhenQuiet
  <2>2. platform.components = Parts
    BY DEF ShutdownInv, ReportsOnce
  <2>3. /\ \A e \in Executors : ~ executor[e].listed
        /\ sending_requests = 0 /\ \A s \in Sockets : socket[s].state = "free" \/ ~ socket[s].listed
    BY <2>2, PartsDiffer DEF ShutdownInv, ReportedEnded
  <2>4. executing = None
    BY <2>3 DEF ExecutorInv, ExecutorTypeOK, ExecutorsRun
  <2>5. /\ \A s \in Sockets : socket[s].state = "free"
        /\ sends = 0
    BY <2>3 DEF ShutdownInv, SocketsAreListed
  <2>6. Listed = {} /\ sending_requests = 0
    BY <2>3 DEF Listed
  <2>7. \A t \in Timers : timer[t].state = "free"
    BY <2>2, PartsDiffer DEF ShutdownInv, ReportedEnded
  <2>8. \A w \in Works : work[w].state = "free"
    BY <2>2, PartsDiffer DEF ShutdownInv, ReportedEnded
  <2> QED BY <2>4, <2>5, <2>6, <2>7, <2>8
<1>2. (ShutdownInv /\ ExecutorInv /\ TimerInv) /\ [PlatformNext]_platformVars
        => (ShutdownInv /\ ExecutorInv /\ TimerInv)'
  BY ShutdownStep, ExecutorStep, TimerStep
<1>3. PlatformInit => ShutdownInv /\ ExecutorInv /\ TimerInv
  BY ShutdownStart, ExecutorStart, TimerStart
<1> QED BY <1>1, <1>2, <1>3, PTL DEF PlatformSpec

-------------------------------------------------------------------------------
(***************************************************************************)
(* Pipelines on one sequencer, for any number of pipelines, of stages and  *)
(* of starts: no task is pending twice, each start completes at most once, *)
(* an idle loop leaves nothing behind, and the stages run in order.        *)
(***************************************************************************)
USE LastAssumption, MaxStartsAssumption, NoPipelineAssumption

NoRepeats(s) == \A i, j \in DOMAIN s : s[i] = s[j] => i = j

\* A call on the stack is that of a pipeline that was started; when there is none
\* the sequencer is idle, and only the call on the stack has flags.
Stack == /\ busy <=> outer # NoPipeline
         /\ ~busy => queue = <<>> /\ current = NoPipeline
         /\ outer # NoPipeline => starts[outer] > 0
         /\ \A p \in Pipelines : p # outer => flags[p] = {}

\* What waits in the queue has a stage to run.
Queue == /\ NoRepeats(queue)
         /\ \A p \in Queued : Running(p)
         /\ \A p \in Pipelines :
               /\ completed[p] <= 1
               /\ completed[p] = 1 => task_index[p] = Last
               /\ starts[p] > 0 /\ ran[p] = Last => completed[p] = 1

\* How far a pipeline is: the stage that is pending is the next one, or the
\* second when the first is passed over, or the last one after a cancel.
Progress(p) ==
    IF p \in Queued
    THEN /\ ran[p] < Last
         /\ awaited[p] => task_index[p] = Last \/ (ran[p] = -1 /\ task_index[p] = 0)
         /\ \/ task_index[p] = ran[p] + 1
            \/ ran[p] = -1 /\ task_index[p] = 1 /\ ~awaited[p]
            \/ cancelled[p] /\ task_index[p] = Last
    ELSE task_index[p] = ran[p]

\* A flag is a wish that was not granted yet: the call on the stack sees it before
\* another stage of the pipeline runs.
Wishes(p) ==
    /\ flags[p] # {} => "BUSY" \in flags[p]
    /\ "NEXT" \in flags[p] => ~awaited[p] /\ (p \in Queued => task_index[p] = Last)
    /\ "FINISH" \in flags[p] => cancelled[p]
    /\ "BUSY" \in flags[p] /\ p \in Queued => queue = <<p>> /\ current = NoPipeline

Order == \A p \in Pipelines : /\ Running(p) => Progress(p)
                              /\ Wishes(p)

IInv == TypeOK /\ Stack /\ Queue /\ Order

-------------------------------------------------------------------------------
(***************************************************************************)
(* A submitted task is pending once, at the tail.                          *)
(***************************************************************************)
LEMMA SubmitQueue ==
    ASSUME queue \in Seq(Pipelines), NoRepeats(queue), NEW p \in Pipelines, Submit(p)
    PROVE  /\ queue' \in Seq(Pipelines)
           /\ NoRepeats(queue')
           /\ Queued' = Queued \union {p}
           /\ queue = <<>> => queue' = <<p>>
<1>1. CASE p \notin Queued /\ queue' = Append(queue, p)
  <2>1. /\ queue' \in Seq(Pipelines)
        /\ Len(queue') = Len(queue) + 1
        /\ \A i \in 1 .. Len(queue) : queue'[i] = queue[i]
        /\ queue'[Len(queue) + 1] = p
        /\ DOMAIN queue' = 1 .. Len(queue) + 1
    BY <1>1, AppendProperties
  <2>2. DOMAIN queue = 1 .. Len(queue) /\ Len(queue) \in Nat
    OBVIOUS
  <2>3. Queued' = Queued \union {p}
    BY <2>1, <2>2 DEF Queued
  <2>4. NoRepeats(queue')
    BY <1>1, <2>1, <2>2 DEF NoRepeats, Queued
  <2>5. queue = <<>> => queue' = <<p>>
    BY <1>1
  <2> QED BY <2>1, <2>3, <2>4, <2>5
<1>2. CASE \E i \in DOMAIN queue :
             /\ queue[i] = p
             /\ queue' = Append(SubSeq(queue, 1, i - 1) \o SubSeq(queue, i + 1, Len(queue)), p)
  <2>1. PICK k \in DOMAIN queue :
             /\ queue[k] = p
             /\ queue' = Append(SubSeq(queue, 1, k - 1) \o SubSeq(queue, k + 1, Len(queue)), p)
    BY <1>2
  <2> DEFINE n == Len(queue)
             s == SubSeq(queue, 1, k - 1)
             t == SubSeq(queue, k + 1, n)
  <2>2. /\ n \in Nat /\ DOMAIN queue = 1 .. n /\ k \in 1 .. n
        /\ \A i \in 1 .. n : queue[i] \in Pipelines
    OBVIOUS
  <2> HIDE DEF n
  <2>3. s \in Seq(Pipelines) /\ Len(s) = k - 1 /\ \A i \in 1 .. k - 1 : s[i] = queue[i]
    BY <2>2, SubSeqProperties
  <2>4. /\ t \in Seq(Pipelines) /\ Len(t) = n - k
        /\ \A i \in 1 .. n - k : t[i] = queue[i + k]
    <3> DEFINE m == k + 1
    <3>1. m \in Int /\ n \in Int /\ \A i \in m .. n : queue[i] \in Pipelines
      BY <2>2
    <3> HIDE DEF m
    <3>2. /\ SubSeq(queue, m, n) \in Seq(Pipelines)
          /\ Len(SubSeq(queue, m, n)) = IF m <= n THEN n - m + 1 ELSE 0
          /\ \A i \in 1 .. n - m + 1 : SubSeq(queue, m, n)[i] = queue[m + i - 1]
      BY <3>1, SubSeqProperties
    <3>3. t = SubSeq(queue, m, n)
      BY DEF m
    <3> HIDE DEF t
    <3>4. /\ (IF m <= n THEN n - m + 1 ELSE 0) = n - k
          /\ \A i \in 1 .. n - k : i \in 1 .. n - m + 1 /\ m + i - 1 = i + k
      BY <2>2 DEF m
    <3> QED BY <3>2, <3>3, <3>4
  <2> HIDE DEF s, t
  <2>5. /\ s \o t \in Seq(Pipelines) /\ Len(s \o t) = n - 1
        /\ \A i \in 1 .. n - 1 : (s \o t)[i] = IF i < k THEN queue[i] ELSE queue[i + 1]
    <3>1. /\ s \o t \in Seq(Pipelines) /\ Len(s \o t) = Len(s) + Len(t)
          /\ \A i \in 1 .. Len(s) + Len(t) :
                (s \o t)[i] = IF i <= Len(s) THEN s[i] ELSE t[i - Len(s)]
      BY <2>3, <2>4, ConcatProperties
    <3> DEFINE u == s \o t
    <3> HIDE DEF u
    <3>2. Len(s) + Len(t) = n - 1
      BY <2>2, <2>3, <2>4
    <3>3. ASSUME NEW i \in 1 .. n - 1, i < k PROVE u[i] = queue[i]
      BY <2>2, <2>3, <3>1, <3>2, <3>3 DEF u
    <3>4. ASSUME NEW i \in 1 .. n - 1, ~(i < k) PROVE u[i] = queue[i + 1]
      <4>1. i - (k - 1) \in 1 .. n - k /\ (i - (k - 1)) + k = i + 1 /\ ~(i <= k - 1)
        BY <2>2, <3>4
      <4>2. u[i] = t[i - (k - 1)]
        BY <2>3, <3>1, <3>2, <4>1 DEF u
      <4> QED BY <2>4, <4>1, <4>2
    <3> QED BY <3>1, <3>2, <3>3, <3>4 DEF u
  <2>6. /\ queue' \in Seq(Pipelines) /\ Len(queue') = n
        /\ \A i \in 1 .. n - 1 : queue'[i] = IF i < k THEN queue[i] ELSE queue[i + 1]
        /\ queue'[n] = p
    <3>1. queue' = Append(s \o t, p)
      BY <2>1 DEF s, t, n
    <3> DEFINE u == s \o t
    <3> HIDE DEF u
    <3>2. /\ u \in Seq(Pipelines) /\ Len(u) = n - 1 /\ queue' = Append(u, p)
          /\ \A i \in 1 .. n - 1 : u[i] = IF i < k THEN queue[i] ELSE queue[i + 1]
      BY <2>5, <3>1 DEF u
    <3> QED BY <2>2, <3>2, AppendProperties
  <2>k. queue[k] = p
    BY <2>1
  <2>d. DOMAIN queue' = 1 .. n
    BY <2>6, LenProperties
  <2>7. Queued' = Queued
    <3>1. ASSUME NEW i \in 1 .. n PROVE \E j \in 1 .. n : queue'[i] = queue[j]
      <4>1. CASE i = n
        BY <4>1, <2>k, <2>2, <2>6
      <4>2. CASE i # n
        <5>1. i \in 1 .. n - 1 /\ i \in 1 .. n /\ i + 1 \in 1 .. n
          BY <4>2, <2>2
        <5> QED BY <5>1, <2>6
      <4> QED BY <4>1, <4>2
    <3>2. ASSUME NEW j \in 1 .. n PROVE \E i \in 1 .. n : queue'[i] = queue[j]
      <4>1. CASE j < k
        <5>1. j \in 1 .. n - 1
          BY <4>1, <2>2
        <5> QED BY <4>1, <5>1, <2>6
      <4>2. CASE j = k
        <5>1. n \in 1 .. n
          BY <2>2
        <5> QED BY <4>2, <5>1, <2>k, <2>6
      <4>3. CASE j > k
        <5>1. /\ j - 1 \in 1 .. n - 1 /\ j - 1 \in 1 .. n
              /\ ~(j - 1 < k) /\ (j - 1) + 1 = j
          BY <4>3, <2>2
        <5> QED BY <5>1, <2>6
      <4> QED BY <4>1, <4>2, <4>3, <2>2
    <3>3. Queued' = {queue'[i] : i \in 1 .. n}
      BY <2>d DEF Queued
    <3>4. Queued = {queue[i] : i \in 1 .. n}
      BY <2>2 DEF Queued
    <3>5. ASSUME NEW x PROVE x \in Queued' => x \in Queued
      BY <3>1, <3>3, <3>4
    <3>6. ASSUME NEW x PROVE x \in Queued => x \in Queued'
      BY <3>2, <3>3, <3>4
    <3> QED BY <3>5, <3>6
  <2>8. NoRepeats(queue')
    <3> SUFFICES ASSUME NEW i \in 1 .. n, NEW j \in 1 .. n, i # j, queue'[i] = queue'[j]
                 PROVE  FALSE
      BY <2>2, <2>d DEF NoRepeats
    <3> DEFINE at(m) == IF m = n THEN k ELSE IF m < k THEN m ELSE m + 1
    <3>1. at(i) \in 1 .. n /\ at(j) \in 1 .. n /\ at(i) # at(j)
      BY <2>2
    <3>2. ASSUME NEW m \in 1 .. n PROVE queue'[m] = queue[at(m)]
      <4>1. CASE m = n
        BY <4>1, <2>k, <2>6
      <4>2. CASE m # n
        <5>1. m \in 1 .. n - 1
          BY <4>2, <2>2
        <5> QED BY <4>2, <5>1, <2>6
      <4> QED BY <4>1, <4>2
    <3>3. queue[at(i)] = queue[at(j)]
      BY <3>2
    <3> HIDE DEF at
    <3> QED BY <3>1, <3>3, <2>2 DEF NoRepeats
  <2>9. p \in Queued /\ queue # <<>>
    BY <2>k, <2>2 DEF Queued
  <2> QED BY <2>6, <2>7, <2>8, <2>9
<1> QED BY <1>1, <1>2 DEF Submit

(***************************************************************************)
(* The task that is popped is not pending any more.                        *)
(***************************************************************************)
LEMMA PopQueue ==
    ASSUME queue \in Seq(Pipelines), NoRepeats(queue), queue # <<>>, queue' = Tail(queue)
    PROVE  /\ queue' \in Seq(Pipelines)
           /\ NoRepeats(queue')
           /\ Head(queue) \in Queued
           /\ Queued' = Queued \ {Head(queue)}
<1> DEFINE n == Len(queue)
<1>1. n \in Nat /\ n > 0 /\ DOMAIN queue = 1 .. n /\ Head(queue) = queue[1]
  OBVIOUS
<1>2. /\ queue' \in Seq(Pipelines) /\ Len(queue') = n - 1 /\ DOMAIN queue' = 1 .. n - 1
      /\ \A i \in 1 .. n - 1 : queue'[i] = queue[i + 1]
  BY <1>1, HeadTailProperties
<1> HIDE DEF n
<1>3. NoRepeats(queue')
  <2> SUFFICES ASSUME NEW i \in 1 .. n - 1, NEW j \in 1 .. n - 1, queue'[i] = queue'[j]
               PROVE  i = j
    BY <1>2 DEF NoRepeats
  <2>1. i + 1 \in 1 .. n /\ j + 1 \in 1 .. n
    BY <1>1
  <2>2. queue[i + 1] = queue[j + 1]
    BY <1>2
  <2>3. i + 1 = j + 1
    BY <1>1, <2>1, <2>2 DEF NoRepeats
  <2> QED BY <1>1, <2>3
<1>4. Queued' = Queued \ {Head(queue)}
  <2>1. ASSUME NEW i \in 1 .. n - 1
        PROVE  queue'[i] \in Queued /\ queue'[i] # Head(queue)
    <3>1. i + 1 \in 1 .. n /\ 1 \in 1 .. n /\ i + 1 # 1
      BY <1>1
    <3> QED BY <1>1, <1>2, <3>1 DEF NoRepeats, Queued
  <2>2. ASSUME NEW j \in 1 .. n, queue[j] # Head(queue)
        PROVE  \E i \in 1 .. n - 1 : queue'[i] = queue[j]
    <3>1. j - 1 \in 1 .. n - 1 /\ (j - 1) + 1 = j
      BY <1>1, <2>2
    <3> QED BY <3>1, <1>2
  <2>3. Queued' = {queue'[i] : i \in 1 .. n - 1}
    BY <1>2 DEF Queued
  <2>4. Queued = {queue[i] : i \in 1 .. n}
    BY <1>1 DEF Queued
  <2>5. ASSUME NEW x PROVE x \in Queued' => x \in Queued \ {Head(queue)}
    BY <2>1, <2>3
  <2>6. ASSUME NEW x PROVE x \in Queued \ {Head(queue)} => x \in Queued'
    BY <2>2, <2>3, <2>4
  <2> QED BY <2>5, <2>6
<1>5. Head(queue) \in Queued
  BY <1>1 DEF Queued
<1> QED BY <1>2, <1>3, <1>4, <1>5

-------------------------------------------------------------------------------
(***************************************************************************)
(* The invariant: one lemma per action.                                    *)
(***************************************************************************)
LEMMA InvInit == Init => IInv
<1> SUFFICES ASSUME Init PROVE IInv
  OBVIOUS
<1> USE DEF Init
<1>1. TypeOK
  <2>1. awaited \in [Pipelines -> BOOLEAN] /\ cancelled \in [Pipelines -> BOOLEAN]
    OBVIOUS
  <2>2. flags \in [Pipelines -> SUBSET Flags]
    OBVIOUS
  <2>3. queue \in Seq(Pipelines)
    OBVIOUS
  <2>4. /\ task_index \in [Pipelines -> 0 .. Last]
        /\ starts \in [Pipelines -> Nat]
        /\ ran \in [Pipelines -> -1 .. Last]
        /\ completed \in [Pipelines -> Nat]
    OBVIOUS
  <2> QED BY <2>1, <2>2, <2>3, <2>4 DEF TypeOK
<1>2. Stack
  BY DEF Stack
<1>3. Queued = {} /\ NoRepeats(queue)
  BY DEF Queued, NoRepeats
<1>4. Queue
  BY <1>3 DEF Queue
<1>5. Order
  <2> SUFFICES ASSUME NEW p \in Pipelines PROVE ~Running(p) /\ Wishes(p)
    BY DEF Order
  <2>1. starts[p] = 0 /\ flags[p] = {}
    OBVIOUS
  <2> QED BY <2>1 DEF Wishes, Running
<1> QED BY <1>1, <1>2, <1>4, <1>5 DEF IInv

\* Submitting the pipeline of a call, on a busy sequencer or on an idle one.
LEMMA ExecuteStep ==
    ASSUME IInv, MayCall, NEW p \in Pipelines, NEW f \in SUBSET Flags, Execute(p, f)
    PROVE  /\ queue' \in Seq(Pipelines) /\ NoRepeats(queue')
           /\ Queued' = Queued \union {p}
           /\ busy' = TRUE
           /\ outer' \in Pipelines /\ outer' = (IF busy THEN outer ELSE p)
           /\ flags' \in [Pipelines -> SUBSET Flags]
           /\ flags' = [flags EXCEPT ![p] = IF busy THEN f ELSE f \union {"BUSY"}]
           /\ ~busy => queue' = <<p>> /\ current = NoPipeline
           /\ busy => current # NoPipeline
<1>1. queue \in Seq(Pipelines) /\ NoRepeats(queue) /\ Submit(p)
  BY DEF IInv, TypeOK, Queue, Execute
<1>2. /\ queue' \in Seq(Pipelines) /\ NoRepeats(queue')
      /\ Queued' = Queued \union {p}
      /\ queue = <<>> => queue' = <<p>>
  BY <1>1, SubmitQueue
<1>3. ~busy => queue = <<>> /\ current = NoPipeline
  BY DEF IInv, Stack
<1>4. busy' = TRUE
  BY DEF Execute, Submit
<1> QED BY <1>2, <1>3, <1>4 DEF IInv, TypeOK, Stack, Execute, MayCall, Flags

\* Such a call changes nothing for the other pipelines.
LEMMA OtherPipelines ==
    ASSUME IInv, MayCall, NEW p \in Pipelines, NEW f \in SUBSET Flags, Execute(p, f),
           NEW q \in Pipelines, q # p,
           task_index'[q] = task_index[q], awaited'[q] = awaited[q],
           cancelled'[q] = cancelled[q], starts'[q] = starts[q], ran'[q] = ran[q],
           completed'[q] = completed[q]
    PROVE  (Running(q) => Progress(q))' /\ Wishes(q)'
<1>1. /\ Queued' = Queued \union {p}
      /\ flags' = [flags EXCEPT ![p] = IF busy THEN f ELSE f \union {"BUSY"}]
      /\ busy => current # NoPipeline
  BY ExecuteStep
<1>2. flags'[q] = flags[q] /\ (q \in Queued' <=> q \in Queued)
  BY <1>1 DEF IInv, TypeOK
<1>3. (Running(q) => Progress(q)) /\ Wishes(q)
  BY DEF IInv, Order
<1>4. ~busy => flags[q] = {}
  BY DEF IInv, Stack
<1>5. ~("BUSY" \in flags[q] /\ q \in Queued)
  BY <1>1, <1>3, <1>4 DEF Wishes
<1>6. (Running(q) => Progress(q))'
  BY <1>2, <1>3 DEF Progress, Running
<1>7. Wishes(q)'
  BY <1>2, <1>3, <1>5 DEF Wishes
<1> QED BY <1>6, <1>7

LEMMA StartStep ==
    ASSUME IInv, NEW p \in Pipelines, Start(p)
    PROVE  IInv'
<1>1. /\ queue' \in Seq(Pipelines) /\ NoRepeats(queue')
      /\ Queued' = Queued \union {p}
      /\ busy' = TRUE
      /\ outer' \in Pipelines /\ outer' = (IF busy THEN outer ELSE p)
      /\ flags' \in [Pipelines -> SUBSET Flags]
      /\ flags' = [flags EXCEPT ![p] = IF busy THEN {} ELSE {} \union {"BUSY"}]
      /\ ~busy => queue' = <<p>> /\ current = NoPipeline
      /\ busy => current # NoPipeline
  BY ExecuteStep DEF Start, Flags
<1> USE DEF Start
<1>2. ASSUME NEW q \in Pipelines
      PROVE  /\ task_index'[q] = (IF q = p THEN 0 ELSE task_index[q])
             /\ awaited'[q] = (IF q = p THEN Last > 0 ELSE awaited[q])
             /\ cancelled'[q] = (IF q = p THEN FALSE ELSE cancelled[q])
             /\ starts'[q] = (IF q = p THEN starts[q] + 1 ELSE starts[q])
             /\ ran'[q] = (IF q = p THEN -1 ELSE ran[q])
             /\ completed'[q] = (IF q = p THEN 0 ELSE completed[q])
             /\ flags'[q] = (IF q = p THEN IF busy THEN {} ELSE {"BUSY"} ELSE flags[q])
  BY <1>1 DEF IInv, TypeOK
<1>3. TypeOK'
  <2>1. awaited' \in [Pipelines -> BOOLEAN]
    BY DEF IInv, TypeOK
  <2>2. cancelled' \in [Pipelines -> BOOLEAN]
    BY DEF IInv, TypeOK
  <2>3. /\ task_index' \in [Pipelines -> 0 .. Last]
        /\ starts' \in [Pipelines -> Nat]
        /\ ran' \in [Pipelines -> -1 .. Last]
        /\ completed' \in [Pipelines -> Nat]
    BY DEF IInv, TypeOK
  <2>4. busy' \in BOOLEAN /\ current' \in Pipelines \union {NoPipeline}
    BY <1>1 DEF IInv, TypeOK
  <2> QED BY <1>1, <2>1, <2>2, <2>3, <2>4 DEF TypeOK
<1>4. Stack'
  <2>1. starts'[outer'] > 0
    BY <1>1, <1>2 DEF IInv, TypeOK, Stack
  <2>2. ASSUME NEW q \in Pipelines, q # outer' PROVE flags'[q] = {}
    BY <1>1, <1>2, <2>2 DEF IInv, Stack
  <2> QED BY <1>1, <2>1, <2>2 DEF Stack
<1>5. Queue'
  <2>1. \A q \in Queued' : Running(q)'
    BY <1>1, <1>2 DEF IInv, TypeOK, Queue, Running
  <2>2. ASSUME NEW q \in Pipelines
        PROVE  /\ completed'[q] <= 1
               /\ completed'[q] = 1 => task_index'[q] = Last
               /\ starts'[q] > 0 /\ ran'[q] = Last => completed'[q] = 1
    BY <1>2 DEF IInv, TypeOK, Queue
  <2> QED BY <1>1, <2>1, <2>2 DEF Queue
<1>6. Order'
  <2> SUFFICES ASSUME NEW q \in Pipelines
               PROVE  (Running(q) => Progress(q))' /\ Wishes(q)'
    BY DEF Order
  <2>1. CASE q = p
    <3>1. Progress(q)'
      BY <1>1, <1>2, <2>1 DEF IInv, TypeOK, Progress
    <3>2. Wishes(q)'
      BY <1>1, <1>2, <2>1 DEF IInv, TypeOK, Wishes
    <3> QED BY <3>1, <3>2
  <2>2. CASE q # p
    BY <1>2, <2>2, OtherPipelines DEF Start, Flags
  <2> QED BY <2>1, <2>2
<1> QED BY <1>3, <1>4, <1>5, <1>6 DEF IInv

LEMMA CallNextStep ==
    ASSUME IInv, NEW p \in Pipelines, CallNext(p)
    PROVE  IInv'
<1>1. ASSUME NEW q \in Pipelines
      PROVE  /\ awaited'[q] = (IF q = p THEN FALSE ELSE awaited[q])
             /\ cancelled'[q] = cancelled[q]
             /\ starts'[q] = starts[q] /\ ran'[q] = ran[q] /\ completed'[q] = completed[q]
             /\ Running(q)' <=> Running(q)
  BY DEF IInv, TypeOK, CallNext, history, Running
<1>2. /\ awaited' \in [Pipelines -> BOOLEAN] /\ cancelled' \in [Pipelines -> BOOLEAN]
      /\ starts' = starts /\ ran' = ran /\ completed' = completed /\ current' = current
  BY DEF IInv, TypeOK, CallNext, history
<1>3. MayCall /\ Running(p) /\ GoTo(p, task_index[p] + 1, "NEXT") /\ awaited[p]
  BY DEF CallNext
<1>q. Queued \subseteq Pipelines
  BY DEF IInv, TypeOK, Queued
\* Nothing is to do, or the call on the stack is told.
<1>4. CASE /\ queue' = queue /\ busy' = busy /\ outer' = outer /\ task_index' = task_index
           /\ task_index[p] = Last => flags' = flags
           /\ task_index[p] # Last => /\ "BUSY" \in flags[p]
                                      /\ flags' = [flags EXCEPT ![p] = @ \union {"NEXT"}]
  <2>1. Queued' = Queued
    BY <1>4 DEF Queued
  <2>2. flags' \in [Pipelines -> SUBSET Flags]
    <3>1. CASE task_index[p] = Last
      BY <1>4, <3>1 DEF IInv, TypeOK
    <3>2. CASE task_index[p] # Last
      <4>1. flags[p] \union {"NEXT"} \in SUBSET Flags
        BY DEF IInv, TypeOK, Flags
      <4>2. flags \in [Pipelines -> SUBSET Flags]
        BY DEF IInv, TypeOK
      <4> QED BY <1>4, <3>2, <4>1, <4>2
    <3> QED BY <3>1, <3>2
  <2>3. TypeOK'
    BY <1>2, <1>4, <2>2 DEF IInv, TypeOK
  <2>4. \A q \in Pipelines : q # p => flags'[q] = flags[q]
    BY <1>4 DEF IInv, TypeOK
  <2>5. p # outer => flags'[p] = {}
    BY <1>4 DEF IInv, Stack
  <2>6. Stack'
    BY <1>2, <1>4, <2>4, <2>5 DEF IInv, Stack
  <2>7. Queue'
    <3>1. \A q \in Queued' : Running(q)'
      BY <1>1, <1>q, <2>1 DEF IInv, Queue
    <3>2. NoRepeats(queue')
      BY <1>4 DEF IInv, Queue
    <3> QED BY <1>2, <1>4, <3>1, <3>2 DEF IInv, Queue
  <2>8. ASSUME NEW q \in Pipelines
        PROVE  (Running(q) => Progress(q))' /\ Wishes(q)'
    <3>1. (Running(q) => Progress(q)) /\ Wishes(q)
      BY DEF IInv, Order
    <3>2. CASE q # p
      BY <1>1, <1>2, <1>4, <2>1, <2>4, <3>1, <3>2 DEF Progress, Wishes
    <3>3. CASE q = p
      <4>1. (Running(p) => Progress(p))'
        BY <1>1, <1>4, <2>1, <3>1, <3>3 DEF Progress
      <4>2. CASE task_index[p] = Last
        BY <1>1, <1>2, <1>4, <2>1, <3>1, <3>3, <4>1, <4>2 DEF Wishes
      <4>3. CASE task_index[p] # Last
        <5>1. flags'[p] = flags[p] \union {"NEXT"} /\ "BUSY" \in flags[p]
          BY <1>4, <4>3 DEF IInv, TypeOK
        <5>2. current # NoPipeline
          BY <1>3, <5>1 DEF MayCall, IInv, Stack
        <5>3. p \notin Queued
          BY <3>1, <3>3, <5>1, <5>2 DEF Wishes
        <5>4. Wishes(p)'
          BY <1>1, <1>4, <2>1, <3>1, <3>3, <5>1, <5>3 DEF Wishes
        <5> QED BY <3>3, <4>1, <5>4
      <4> QED BY <4>2, <4>3
    <3> QED BY <3>2, <3>3
  <2> QED BY <2>3, <2>6, <2>7, <2>8 DEF IInv, Order
\* The stage is submitted.
<1>5. CASE /\ "BUSY" \notin flags[p] /\ task_index[p] # Last
           /\ task_index' = [task_index EXCEPT ![p] = task_index[p] + 1]
           /\ Execute(p, flags[p])
  <2>0. flags[p] = {} /\ flags[p] \in SUBSET Flags
    BY <1>5 DEF IInv, Order, Wishes, Flags
  <2>1. /\ queue' \in Seq(Pipelines) /\ NoRepeats(queue')
        /\ Queued' = Queued \union {p}
        /\ busy' = TRUE
        /\ outer' \in Pipelines /\ outer' = (IF busy THEN outer ELSE p)
        /\ flags' \in [Pipelines -> SUBSET Flags]
        /\ flags' = [flags EXCEPT ![p] = IF busy THEN {} ELSE {} \union {"BUSY"}]
        /\ ~busy => queue' = <<p>> /\ current = NoPipeline
        /\ busy => current # NoPipeline
    BY <1>3, <1>5, <2>0, ExecuteStep
  <2>2. task_index' \in [Pipelines -> 0 .. Last]
    <3>1. task_index \in [Pipelines -> 0 .. Last] /\ task_index[p] # Last
      BY <1>5 DEF IInv, TypeOK
    <3>2. task_index[p] \in 0 .. Last
      BY <3>1
    <3>3. task_index[p] + 1 \in 0 .. Last
      BY <3>1, <3>2
    <3> QED BY <1>5, <3>1, <3>3
  <2>3. TypeOK'
    BY <1>2, <2>1, <2>2 DEF IInv, TypeOK
  <2>4. Stack'
    <3>1. starts[outer'] > 0
      BY <1>3, <2>1 DEF IInv, Stack, Running
    <3>2. ASSUME NEW q \in Pipelines, q # outer' PROVE flags'[q] = {}
      BY <2>1, <3>2, <2>0 DEF IInv, TypeOK, Stack
    <3> QED BY <1>2, <2>1, <3>1, <3>2 DEF Stack
  <2>5. Queue'
    <3>1. \A q \in Queued' : Running(q)'
      BY <1>1, <1>3, <1>q, <2>1 DEF IInv, Queue
    <3>2. completed[p] = 0
      BY <1>3 DEF Running
    <3>3. ASSUME NEW q \in Pipelines
          PROVE  /\ completed'[q] <= 1
                 /\ completed'[q] = 1 => task_index'[q] = Last
                 /\ starts'[q] > 0 /\ ran'[q] = Last => completed'[q] = 1
      BY <1>1, <1>5, <3>2 DEF IInv, TypeOK, Queue
    <3> QED BY <2>1, <3>1, <3>3 DEF Queue
  <2>6. ASSUME NEW q \in Pipelines
        PROVE  (Running(q) => Progress(q))' /\ Wishes(q)'
    <3>1. CASE q # p
      <4>1. /\ task_index'[q] = task_index[q]
            /\ awaited'[q] = awaited[q] /\ cancelled'[q] = cancelled[q]
        BY <1>1, <1>5, <3>1 DEF IInv, TypeOK
      <4> QED BY <1>1, <1>3, <1>5, <2>0, <3>1, <4>1, OtherPipelines
    <3>2. CASE q = p
      <4>1. p \in Queued' /\ flags'[p] = (IF busy THEN {} ELSE {"BUSY"})
        BY <2>1 DEF IInv, TypeOK
      <4>2. Wishes(p)'
        BY <1>2, <2>1, <4>1 DEF Wishes
      <4>3. Progress(p)
        BY <1>3 DEF IInv, Order
      <4>4. ran[p] < Last /\ ran[p] \in Int /\ task_index[p] \in 0 .. Last
        BY <1>3 DEF IInv, TypeOK, Queue, Running
      <4>5. task_index'[p] = task_index[p] + 1
        BY <1>5 DEF IInv, TypeOK
      <4>6. Progress(p)'
        <5>1. /\ awaited'[p] = (FALSE) /\ cancelled'[p] = (cancelled[p])
              /\ ran'[p] = ran[p]
          BY <1>1
        <5> QED BY <1>3, <1>5, <4>1, <4>3, <4>4, <4>5, <5>1 DEF Progress
      <4> QED BY <3>2, <4>2, <4>6
    <3> QED BY <3>1, <3>2
  <2> QED BY <2>3, <2>4, <2>5, <2>6 DEF IInv, Order
<1> QED BY <1>3, <1>4, <1>5 DEF GoTo

LEMMA CallFinishStep ==
    ASSUME IInv, NEW p \in Pipelines, CallFinish(p)
    PROVE  IInv'
<1>1. ASSUME NEW q \in Pipelines
      PROVE  /\ awaited'[q] = awaited[q]
             /\ cancelled'[q] = (IF q = p THEN TRUE ELSE cancelled[q])
             /\ starts'[q] = starts[q] /\ ran'[q] = ran[q] /\ completed'[q] = completed[q]
             /\ Running(q)' <=> Running(q)
  BY DEF IInv, TypeOK, CallFinish, history, Running
<1>2. /\ awaited' \in [Pipelines -> BOOLEAN] /\ cancelled' \in [Pipelines -> BOOLEAN]
      /\ starts' = starts /\ ran' = ran /\ completed' = completed /\ current' = current
  BY DEF IInv, TypeOK, CallFinish, history
<1>3. MayCall /\ Running(p) /\ GoTo(p, Last, "FINISH")
  BY DEF CallFinish
<1>q. Queued \subseteq Pipelines
  BY DEF IInv, TypeOK, Queued
\* Nothing is to do, or the call on the stack is told.
<1>4. CASE /\ queue' = queue /\ busy' = busy /\ outer' = outer /\ task_index' = task_index
           /\ task_index[p] = Last => flags' = flags
           /\ task_index[p] # Last => /\ "BUSY" \in flags[p]
                                      /\ flags' = [flags EXCEPT ![p] = @ \union {"FINISH"}]
  <2>1. Queued' = Queued
    BY <1>4 DEF Queued
  <2>2. flags' \in [Pipelines -> SUBSET Flags]
    <3>1. CASE task_index[p] = Last
      BY <1>4, <3>1 DEF IInv, TypeOK
    <3>2. CASE task_index[p] # Last
      <4>1. flags[p] \union {"FINISH"} \in SUBSET Flags
        BY DEF IInv, TypeOK, Flags
      <4>2. flags \in [Pipelines -> SUBSET Flags]
        BY DEF IInv, TypeOK
      <4> QED BY <1>4, <3>2, <4>1, <4>2
    <3> QED BY <3>1, <3>2
  <2>3. TypeOK'
    BY <1>2, <1>4, <2>2 DEF IInv, TypeOK
  <2>4. \A q \in Pipelines : q # p => flags'[q] = flags[q]
    BY <1>4 DEF IInv, TypeOK
  <2>5. p # outer => flags'[p] = {}
    BY <1>4 DEF IInv, Stack
  <2>6. Stack'
    BY <1>2, <1>4, <2>4, <2>5 DEF IInv, Stack
  <2>7. Queue'
    <3>1. \A q \in Queued' : Running(q)'
      BY <1>1, <1>q, <2>1 DEF IInv, Queue
    <3>2. NoRepeats(queue')
      BY <1>4 DEF IInv, Queue
    <3> QED BY <1>2, <1>4, <3>1, <3>2 DEF IInv, Queue
  <2>8. ASSUME NEW q \in Pipelines
        PROVE  (Running(q) => Progress(q))' /\ Wishes(q)'
    <3>1. (Running(q) => Progress(q)) /\ Wishes(q)
      BY DEF IInv, Order
    <3>2. CASE q # p
      BY <1>1, <1>2, <1>4, <2>1, <2>4, <3>1, <3>2 DEF Progress, Wishes
    <3>3. CASE q = p
      <4>1. (Running(p) => Progress(p))'
        BY <1>1, <1>4, <2>1, <3>1, <3>3 DEF Progress
      <4>2. CASE task_index[p] = Last
        BY <1>1, <1>2, <1>4, <2>1, <3>1, <3>3, <4>1, <4>2 DEF Wishes
      <4>3. CASE task_index[p] # Last
        <5>1. flags'[p] = flags[p] \union {"FINISH"} /\ "BUSY" \in flags[p]
          BY <1>4, <4>3 DEF IInv, TypeOK
        <5>2. current # NoPipeline
          BY <1>3, <5>1 DEF MayCall, IInv, Stack
        <5>3. p \notin Queued
          BY <3>1, <3>3, <5>1, <5>2 DEF Wishes
        <5>4. Wishes(p)'
          BY <1>1, <1>4, <2>1, <3>1, <3>3, <5>1, <5>3 DEF Wishes
        <5> QED BY <3>3, <4>1, <5>4
      <4> QED BY <4>2, <4>3
    <3> QED BY <3>2, <3>3
  <2> QED BY <2>3, <2>6, <2>7, <2>8 DEF IInv, Order
\* The stage is submitted.
<1>5. CASE /\ "BUSY" \notin flags[p] /\ task_index[p] # Last
           /\ task_index' = [task_index EXCEPT ![p] = Last]
           /\ Execute(p, flags[p])
  <2>0. flags[p] = {} /\ flags[p] \in SUBSET Flags
    BY <1>5 DEF IInv, Order, Wishes, Flags
  <2>1. /\ queue' \in Seq(Pipelines) /\ NoRepeats(queue')
        /\ Queued' = Queued \union {p}
        /\ busy' = TRUE
        /\ outer' \in Pipelines /\ outer' = (IF busy THEN outer ELSE p)
        /\ flags' \in [Pipelines -> SUBSET Flags]
        /\ flags' = [flags EXCEPT ![p] = IF busy THEN {} ELSE {} \union {"BUSY"}]
        /\ ~busy => queue' = <<p>> /\ current = NoPipeline
        /\ busy => current # NoPipeline
    BY <1>3, <1>5, <2>0, ExecuteStep
  <2>2. task_index' \in [Pipelines -> 0 .. Last]
    <3>1. task_index \in [Pipelines -> 0 .. Last] /\ task_index[p] # Last
      BY <1>5 DEF IInv, TypeOK
    <3>2. task_index[p] \in 0 .. Last
      BY <3>1
    <3>3. Last \in 0 .. Last
      BY <3>1, <3>2
    <3> QED BY <1>5, <3>1, <3>3
  <2>3. TypeOK'
    BY <1>2, <2>1, <2>2 DEF IInv, TypeOK
  <2>4. Stack'
    <3>1. starts[outer'] > 0
      BY <1>3, <2>1 DEF IInv, Stack, Running
    <3>2. ASSUME NEW q \in Pipelines, q # outer' PROVE flags'[q] = {}
      BY <2>1, <3>2, <2>0 DEF IInv, TypeOK, Stack
    <3> QED BY <1>2, <2>1, <3>1, <3>2 DEF Stack
  <2>5. Queue'
    <3>1. \A q \in Queued' : Running(q)'
      BY <1>1, <1>3, <1>q, <2>1 DEF IInv, Queue
    <3>2. completed[p] = 0
      BY <1>3 DEF Running
    <3>3. ASSUME NEW q \in Pipelines
          PROVE  /\ completed'[q] <= 1
                 /\ completed'[q] = 1 => task_index'[q] = Last
                 /\ starts'[q] > 0 /\ ran'[q] = Last => completed'[q] = 1
      BY <1>1, <1>5, <3>2 DEF IInv, TypeOK, Queue
    <3> QED BY <2>1, <3>1, <3>3 DEF Queue
  <2>6. ASSUME NEW q \in Pipelines
        PROVE  (Running(q) => Progress(q))' /\ Wishes(q)'
    <3>1. CASE q # p
      <4>1. /\ task_index'[q] = task_index[q]
            /\ awaited'[q] = awaited[q] /\ cancelled'[q] = cancelled[q]
        BY <1>1, <1>5, <3>1 DEF IInv, TypeOK
      <4> QED BY <1>1, <1>3, <1>5, <2>0, <3>1, <4>1, OtherPipelines
    <3>2. CASE q = p
      <4>1. p \in Queued' /\ flags'[p] = (IF busy THEN {} ELSE {"BUSY"})
        BY <2>1 DEF IInv, TypeOK
      <4>2. Wishes(p)'
        BY <1>2, <2>1, <4>1 DEF Wishes
      <4>3. Progress(p)
        BY <1>3 DEF IInv, Order
      <4>4. ran[p] < Last /\ ran[p] \in Int /\ task_index[p] \in 0 .. Last
        BY <1>3 DEF IInv, TypeOK, Queue, Running
      <4>5. task_index'[p] = Last
        BY <1>5 DEF IInv, TypeOK
      <4>6. Progress(p)'
        <5>1. /\ awaited'[p] = (awaited[p]) /\ cancelled'[p] = (TRUE)
              /\ ran'[p] = ran[p]
          BY <1>1
        <5> QED BY <1>3, <1>5, <4>1, <4>3, <4>4, <4>5, <5>1 DEF Progress
      <4> QED BY <3>2, <4>2, <4>6
    <3> QED BY <3>1, <3>2
  <2> QED BY <2>3, <2>4, <2>5, <2>6 DEF IInv, Order
<1> QED BY <1>3, <1>4, <1>5 DEF GoTo

LEMMA RunStageStep ==
    ASSUME IInv, RunStage
    PROVE  /\ IInv'
           /\ \A p \in Pipelines : ran'[p] # ran[p] =>
                 \/ ran'[p] = ran[p] + 1
                 \/ ran[p] = -1 /\ ran'[p] = 1 /\ ~awaited[p]
                 \/ cancelled[p] /\ ran'[p] = Last /\ ran[p] < Last
<1>0. /\ queue' \in Seq(Pipelines) /\ NoRepeats(queue')
      /\ Head(queue) \in Queued /\ Queued' = Queued \ {Head(queue)}
  BY PopQueue DEF RunStage, IInv, TypeOK, Queue
<1>q. Queued \subseteq Pipelines
  BY DEF IInv, TypeOK, Queued
<1>p. PICK p \in Pipelines : p = Head(queue)
  BY <1>0, <1>q
<1>1. /\ queue' \in Seq(Pipelines) /\ NoRepeats(queue')
      /\ p \in Queued /\ Queued' = Queued \ {p}
  BY <1>0, <1>p
<1>2. p \in Pipelines /\ Queued \subseteq Pipelines
  BY <1>q
<1> DEFINE stage == task_index[p]
<1>3. Running(p) /\ Progress(p) /\ Wishes(p)
  BY <1>1, <1>2 DEF IInv, Queue, Order
<1>4. /\ busy /\ current = NoPipeline /\ current' = p
      /\ ran' = [ran EXCEPT ![p] = stage]
      /\ awaited' = [awaited EXCEPT ![p] = stage < Last]
      /\ completed' = [completed EXCEPT ![p] = IF stage = Last THEN completed[p] + 1
                                                               ELSE completed[p]]
      /\ UNCHANGED <<busy, outer, task_index, flags, cancelled, starts>>
  BY <1>p DEF RunStage
<1>5. stage \in 0 .. Last
  BY <1>2 DEF IInv, TypeOK
<1>6. ASSUME NEW q \in Pipelines
      PROVE  /\ ran'[q] = (IF q = p THEN stage ELSE ran[q])
             /\ awaited'[q] = (IF q = p THEN stage < Last ELSE awaited[q])
             /\ completed'[q] = (IF q = p /\ stage = Last THEN completed[q] + 1
                                                          ELSE completed[q])
  BY <1>4 DEF IInv, TypeOK
<1>7. TypeOK'
  <2>1. awaited' \in [Pipelines -> BOOLEAN]
    BY <1>2, <1>4 DEF IInv, TypeOK
  <2>2. ran' \in [Pipelines -> -1 .. Last]
    BY <1>2, <1>4, <1>5 DEF IInv, TypeOK
  <2>3. completed' \in [Pipelines -> Nat]
    BY <1>2, <1>4 DEF IInv, TypeOK
  <2> QED BY <1>1, <1>2, <1>4, <2>1, <2>2, <2>3 DEF IInv, TypeOK
<1>8. Stack'
  BY <1>4 DEF IInv, Stack
<1>9. completed[p] = 0
  BY <1>3 DEF Running
<1>10. Queue'
  <2>1. \A q \in Queued' : Running(q)'
    BY <1>1, <1>2, <1>4, <1>6 DEF IInv, Queue, Running
  <2>2. ASSUME NEW q \in Pipelines
        PROVE  /\ completed'[q] <= 1
               /\ completed'[q] = 1 => task_index'[q] = Last
               /\ starts'[q] > 0 /\ ran'[q] = Last => completed'[q] = 1
    BY <1>4, <1>6, <1>9 DEF IInv, Queue
  <2> QED BY <1>1, <2>1, <2>2 DEF Queue
<1>11. ASSUME NEW q \in Pipelines
       PROVE  (Running(q) => Progress(q))' /\ Wishes(q)'
  <2>1. (Running(q) => Progress(q)) /\ Wishes(q)
    BY DEF IInv, Order
  <2>2. CASE q # p
    <3>1. /\ ran'[q] = ran[q] /\ awaited'[q] = awaited[q] /\ completed'[q] = completed[q]
          /\ q \in Queued' <=> q \in Queued
      BY <1>1, <1>6, <2>2
    <3>2. ~("BUSY" \in flags[q] /\ q \in Queued)
      <4>1. queue = <<q>> => Queued = {q}
        BY DEF Queued
      <4> QED BY <1>1, <2>1, <2>2, <4>1 DEF Wishes
    <3>3. (Running(q) => Progress(q))'
      BY <1>4, <2>1, <3>1 DEF Progress, Running
    <3>4. Wishes(q)'
      BY <1>4, <2>1, <3>1, <3>2 DEF Wishes
    <3> QED BY <3>3, <3>4
  <2>3. CASE q = p
    <3>1. ran'[p] = task_index'[p] /\ p \notin Queued'
      BY <1>1, <1>2, <1>4, <1>6
    <3>2. Progress(p)'
      BY <3>1 DEF Progress
    <3>3. "NEXT" \in flags'[p] => ~awaited'[p]
      <4>1. awaited'[p] = (stage < Last)
        BY <1>2, <1>6
      <4>2. "NEXT" \in flags'[p] => stage = Last
        BY <1>1, <1>3, <1>4 DEF Wishes
      <4>3. stage = Last => ~(stage < Last)
        OBVIOUS
      <4> HIDE DEF stage
      <4> QED BY <4>1, <4>2, <4>3
    <3>4. Wishes(p)'
      BY <1>3, <1>4, <3>1, <3>3 DEF Wishes
    <3> QED BY <2>3, <3>2, <3>4
  <2> QED BY <2>2, <2>3
<1>12. ASSUME NEW q \in Pipelines, ran'[q] # ran[q]
       PROVE  \/ ran'[q] = ran[q] + 1
              \/ ran[q] = -1 /\ ran'[q] = 1 /\ ~awaited[q]
              \/ cancelled[q] /\ ran'[q] = Last /\ ran[q] < Last
  <2>1. q = p /\ ran'[q] = task_index[q]
    BY <1>6, <1>12
  <2> QED BY <1>1, <1>3, <1>12, <2>1 DEF Progress
<1> QED BY <1>7, <1>8, <1>10, <1>11, <1>12 DEF IInv, Order

LEMMA StageReturnsStep ==
    ASSUME IInv, StageReturns
    PROVE  IInv'
<1>1. /\ current' = NoPipeline
      /\ UNCHANGED <<queue, busy, outer, task_index, flags, awaited, cancelled, starts, ran,
                     completed>>
  BY DEF StageReturns, history
<1>2. Queued' = Queued
  BY <1>1 DEF Queued
<1>3. TypeOK' /\ Stack' /\ Queue'
  BY <1>1, <1>2 DEF IInv, TypeOK, Stack, Queue, Running
<1>4. ASSUME NEW q \in Pipelines
      PROVE  (Running(q) => Progress(q))' /\ Wishes(q)'
  <2>1. (Running(q) => Progress(q)) /\ Wishes(q)
    BY DEF IInv, Order
  <2>2. (Running(q) => Progress(q))'
    BY <1>1, <1>2, <2>1 DEF Progress, Running
  <2>3. Wishes(q)'
    BY <1>1, <1>2, <2>1 DEF Wishes
  <2> QED BY <2>2, <2>3
<1> QED BY <1>3, <1>4 DEF IInv, Order

LEMMA AfterDrainStep ==
    ASSUME IInv, AfterDrain
    PROVE  IInv'
<1>p. PICK p \in Pipelines : p = outer
  BY DEF AfterDrain, IInv, TypeOK, Stack
<1> DEFINE again == task_index[p] # Last /\ flags[p] \intersect {"NEXT", "FINISH"} # {}
           finish == "FINISH" \in flags[p]
<1>1. /\ busy /\ current = NoPipeline /\ queue = <<>>
      /\ UNCHANGED <<current, awaited, cancelled, starts, ran, completed>>
  BY DEF AfterDrain, history
<1>2. p \in Pipelines /\ starts[p] > 0 /\ Queued = {}
  BY <1>1, <1>p DEF IInv, TypeOK, Stack, Queued
<1>3. \A q \in Pipelines : (Running(q)' <=> Running(q)) /\ (q # p => flags[q] = {})
  BY <1>1, <1>p DEF Running, IInv, Stack
<1>4. (Running(p) => Progress(p)) /\ Wishes(p)
  BY <1>2 DEF IInv, Order
<1>5. CASE again
  <2>1. /\ task_index' = [task_index EXCEPT ![p] = IF finish THEN Last ELSE task_index[p] + 1]
        /\ flags' = [flags EXCEPT ![p] = flags[p] \ {IF finish THEN "FINISH" ELSE "NEXT"}]
        /\ queue' = <<p>> /\ busy' = busy /\ outer' = outer
    BY <1>5, <1>p DEF AfterDrain
  <2>2. Queued' = {p} /\ NoRepeats(queue') /\ queue' \in Seq(Pipelines)
    BY <1>2, <2>1 DEF Queued, NoRepeats
  <2>3. task_index[p] \in 0 .. Last /\ task_index[p] # Last
    BY <1>2, <1>5 DEF IInv, TypeOK
  <2>4. /\ task_index'[p] = (IF finish THEN Last ELSE task_index[p] + 1)
        /\ flags'[p] = flags[p] \ {IF finish THEN "FINISH" ELSE "NEXT"}
        /\ \A q \in Pipelines : q # p => task_index'[q] = task_index[q] /\ flags'[q] = flags[q]
    BY <1>2, <2>1 DEF IInv, TypeOK
  <2> HIDE DEF finish
  <2>5. TypeOK'
    <3>1. (IF finish THEN Last ELSE task_index[p] + 1) \in 0 .. Last
      BY <2>3
    <3>2. task_index' \in [Pipelines -> 0 .. Last]
      BY <2>1, <3>1 DEF IInv, TypeOK
    <3>3. flags' \in [Pipelines -> SUBSET Flags]
      BY <2>1 DEF IInv, TypeOK
    <3> QED BY <1>1, <2>1, <2>2, <3>2, <3>3 DEF IInv, TypeOK
  <2>6. Stack'
    BY <1>1, <1>2, <1>3, <1>p, <2>1, <2>4 DEF IInv, Stack
  <2>7. completed[p] = 0 /\ Running(p)
    <3>1. completed[p] \in Nat
      BY DEF IInv, TypeOK
    <3>2. completed[p] <= 1 /\ completed[p] # 1
      BY <2>3 DEF IInv, Queue
    <3>3. completed[p] = 0
      BY <3>1, <3>2
    <3> QED BY <1>2, <3>3 DEF Running
  <2>8. Queue'
    <3>1. \A q \in Queued' : Running(q)'
      BY <1>2, <1>3, <2>2, <2>7
    <3>2. ASSUME NEW q \in Pipelines
          PROVE  /\ completed'[q] <= 1
                 /\ completed'[q] = 1 => task_index'[q] = Last
                 /\ starts'[q] > 0 /\ ran'[q] = Last => completed'[q] = 1
      BY <1>1, <2>4, <2>7 DEF IInv, Queue
    <3> QED BY <2>2, <3>1, <3>2 DEF Queue
  <2>9. ASSUME NEW q \in Pipelines
        PROVE  (Running(q) => Progress(q))' /\ Wishes(q)'
    <3>1. CASE q # p
      <4>1. q \notin Queued' /\ q \notin Queued /\ flags'[q] = {}
        BY <1>2, <1>3, <2>2, <2>4, <3>1
      <4>2. Running(q) => Progress(q)
        BY DEF IInv, Order
      <4>3. (Running(q) => Progress(q))'
        BY <1>1, <1>3, <2>4, <3>1, <4>1, <4>2 DEF Progress
      <4>4. Wishes(q)'
        BY <4>1 DEF Wishes
      <4> QED BY <4>3, <4>4
    <3>2. CASE q = p
      <4>1. task_index[p] = ran[p] /\ ran[p] < Last
        BY <1>2, <1>4, <2>3, <2>7 DEF Progress
      <4>2. finish => cancelled[p]
        BY <1>4 DEF Wishes, finish
      <4>3. ~finish => "NEXT" \in flags[p] /\ ~awaited[p]
        BY <1>4, <1>5 DEF Wishes, finish
      <4>4. Progress(p)'
        BY <1>1, <2>2, <2>4, <4>1, <4>2, <4>3 DEF Progress
      <4>5. Wishes(p)'
        <5>1. "BUSY" \in flags'[p] /\ "BUSY" \in flags[p]
          BY <1>4, <1>5, <2>4 DEF Wishes, finish
        <5>2. "NEXT" \in flags'[p] => finish /\ "NEXT" \in flags[p]
          BY <2>4
        <5>3. "FINISH" \in flags'[p] => "FINISH" \in flags[p]
          BY <2>4
        <5>4. "NEXT" \in flags'[p] => ~awaited'[p] /\ task_index'[p] = Last
          BY <1>1, <1>4, <2>4, <5>2 DEF Wishes
        <5>5. queue' = <<p>> /\ current' = NoPipeline
          BY <1>1, <2>1
        <5> QED BY <1>1, <1>4, <5>1, <5>3, <5>4, <5>5 DEF Wishes
      <4> QED BY <3>2, <4>4, <4>5
    <3> QED BY <3>1, <3>2
  <2> QED BY <2>5, <2>6, <2>8, <2>9 DEF IInv, Order
<1>6. CASE ~again
  <2>1. /\ flags' = [flags EXCEPT ![p] = {}]
        /\ outer' = NoPipeline /\ busy' = FALSE
        /\ queue' = queue /\ task_index' = task_index
    BY <1>6, <1>p DEF AfterDrain
  <2>2. \A q \in Pipelines : flags'[q] = {}
    BY <1>2, <1>3, <2>1 DEF IInv, TypeOK
  <2>3. Queued' = Queued
    BY <2>1 DEF Queued
  <2>4. TypeOK'
    <3>1. flags' \in [Pipelines -> SUBSET Flags]
      BY <2>1 DEF IInv, TypeOK
    <3> QED BY <1>1, <2>1, <3>1 DEF IInv, TypeOK
  <2>5. Stack'
    BY <1>1, <2>1, <2>2 DEF Stack
  <2>6. Queue'
    BY <1>1, <1>2, <2>1, <2>3 DEF IInv, Queue, Running
  <2>7. ASSUME NEW q \in Pipelines
        PROVE  (Running(q) => Progress(q))' /\ Wishes(q)'
    <3>1. Running(q) => Progress(q)
      BY DEF IInv, Order
    <3>2. (Running(q) => Progress(q))'
      BY <1>1, <1>3, <2>1, <2>3, <3>1 DEF Progress
    <3>3. Wishes(q)'
      BY <2>2 DEF Wishes
    <3> QED BY <3>2, <3>3
  <2> QED BY <2>4, <2>5, <2>6, <2>7 DEF IInv, Order
<1> QED BY <1>5, <1>6

LEMMA StutterStep ==
    ASSUME IInv, UNCHANGED vars
    PROVE  IInv'
<1>1. UNCHANGED <<queue, busy, outer, current, task_index, flags, awaited, cancelled, starts, ran,
                  completed>>
  BY DEF vars, history
<1>2. Queued' = Queued
  BY <1>1 DEF Queued
<1>3. TypeOK' /\ Stack' /\ Queue'
  BY <1>1, <1>2 DEF IInv, TypeOK, Stack, Queue, Running
<1>4. ASSUME NEW q \in Pipelines
      PROVE  (Running(q) => Progress(q))' /\ Wishes(q)'
  <2>1. (Running(q) => Progress(q)) /\ Wishes(q)
    BY DEF IInv, Order
  <2>2. (Running(q) => Progress(q))'
    BY <1>1, <1>2, <2>1 DEF Progress, Running
  <2>3. Wishes(q)'
    BY <1>1, <1>2, <2>1 DEF Wishes
  <2> QED BY <2>2, <2>3
<1> QED BY <1>3, <1>4 DEF IInv, Order

-------------------------------------------------------------------------------
(***************************************************************************)
(* The invariant holds of every behaviour of pipelines and sequencer.      *)
(***************************************************************************)
THEOREM Invariant == Spec => []IInv
<1>1. Init => IInv
  BY InvInit
<1>2. IInv /\ [Next]_vars => IInv'
  <2> SUFFICES ASSUME IInv, [Next]_vars PROVE IInv'
    OBVIOUS
  <2>1. CASE \E p \in Pipelines : Start(p)
    BY <2>1, StartStep
  <2>2. CASE \E p \in Pipelines : CallNext(p)
    BY <2>2, CallNextStep
  <2>3. CASE \E p \in Pipelines : CallFinish(p)
    BY <2>3, CallFinishStep
  <2>4. CASE RunStage
    BY <2>4, RunStageStep
  <2>5. CASE StageReturns
    BY <2>5, StageReturnsStep
  <2>6. CASE AfterDrain
    BY <2>6, AfterDrainStep
  <2>7. CASE UNCHANGED vars
    BY <2>7, StutterStep
  <2> QED BY <2>1, <2>2, <2>3, <2>4, <2>5, <2>6, <2>7 DEF Next
<1> QED BY <1>1, <1>2, PTL DEF Spec

(***************************************************************************)
(* Type correctness: in particular an execute call that drains the         *)
(* sequencer always belongs to a pipeline (pomelo_pipeline_execute).       *)
(***************************************************************************)
THEOREM TypeCorrect == Spec => []TypeOK
<1>1. IInv => TypeOK
  BY DEF IInv
<1> QED BY <1>1, Invariant, PTL

(***************************************************************************)
(* pomelo_pipeline_start to the last stage: once per start, and a pipeline *)
(* whose last stage ran is not pending, so that its owner may go back to   *)
(* the pool in that stage.                                                 *)
(***************************************************************************)
THEOREM EachStartCompletesOnce == Spec => []CompletesOnce
<1>1. IInv => CompletesOnce
  <2> SUFFICES ASSUME IInv, NEW p \in Pipelines
               PROVE  completed[p] <= 1 /\ (completed[p] = 1 => p \notin Queued)
    BY DEF CompletesOnce
  <2>1. p \in Queued => completed[p] = 0
    BY DEF IInv, Queue, Running
  <2> QED BY <2>1 DEF IInv, Queue
<1> QED BY <1>1, Invariant, PTL

(***************************************************************************)
(* pomelo_sequencer_submit and pomelo_pipeline_execute return with nothing *)
(* pending and no flag set.                                                *)
(***************************************************************************)
THEOREM NothingLeftBehind == Spec => []IdleIsClean
<1>1. IInv => IdleIsClean
  BY DEF IInv, Stack, IdleIsClean
<1> QED BY <1>1, Invariant, PTL

(***************************************************************************)
(* The stages of a pipeline run in order, whatever is cancelled and        *)
(* whatever other pipelines do in between (pomelo_pipeline_execute).       *)
(***************************************************************************)
THEOREM StagesInOrder == Spec => InOrder
<1> DEFINE Ordered ==
        \A p \in Pipelines :
            ran'[p] # ran[p] /\ starts'[p] = starts[p]
                => \/ ran'[p] = ran[p] + 1
                   \/ ran[p] = -1 /\ ran'[p] = 1 /\ ~awaited[p]
                   \/ cancelled[p] /\ ran'[p] = Last /\ ran[p] < Last
<1>1. IInv /\ [Next]_vars => [Ordered]_vars
  <2> SUFFICES ASSUME IInv, Next PROVE Ordered
    OBVIOUS
  <2>1. ASSUME NEW p \in Pipelines, Start(p) PROVE Ordered
    <3>1. ASSUME NEW q \in Pipelines, q # p PROVE ran'[q] = ran[q]
      BY <2>1, <3>1 DEF Start, IInv, TypeOK
    <3>2. starts'[p] # starts[p]
      BY <2>1 DEF Start, IInv, TypeOK
    <3> QED BY <3>1, <3>2
  <2>2. CASE \E p \in Pipelines : CallNext(p) \/ CallFinish(p)
    BY <2>2 DEF CallNext, CallFinish, history
  <2>3. CASE RunStage
    BY <2>3, RunStageStep
  <2>4. CASE StageReturns \/ AfterDrain
    BY <2>4 DEF StageReturns, AfterDrain, history
  <2> QED BY <2>1, <2>2, <2>3, <2>4 DEF Next
<1>2. InOrder <=> [][Ordered]_vars
  BY PTL DEF InOrder
<1> QED BY <1>1, <1>2, Invariant, PTL DEF Spec
===============================================================================
