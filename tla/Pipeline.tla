-------------------------------- MODULE Pipeline --------------------------------
(***************************************************************************)
(* The pipelines of a socket and the sequencer they share                  *)
(* (src/base/pipeline.c, src/base/sequencer.c).                            *)
(*                                                                         *)
(* A pipeline runs the stages 0 .. Last of one packet or parcel.  Each     *)
(* stage runs as the pipeline's one sequencer task.  The first submit to   *)
(* an idle sequencer drains it; the submits made while it drains, by the   *)
(* stages themselves, only queue.  So at most one call of                  *)
(* pomelo_pipeline_execute, that of the pipeline 'outer', has the drain    *)
(* inside it, and only its BUSY flag outlives a step.                      *)
(*                                                                         *)
(* A stage calls next when its work is done, at once or later (a worker's  *)
(* answer).  For the first stage the call may come before it has run: a    *)
(* delivery receiver's waits for fragments, and they may be there first.   *)
(* Anybody may call finish, to cancel.  A pipeline whose last stage ran    *)
(* goes back to its pool and may be started again.                         *)
(***************************************************************************)
EXTENDS Integers, Sequences

CONSTANTS Pipelines, NoPipeline,
          Last,           \* index of the last stage
          MaxStarts       \* bound: how often a pipeline object is started

ASSUME LastAssumption == Last \in Nat
ASSUME MaxStartsAssumption == MaxStarts \in [Pipelines -> Nat]
ASSUME NoPipelineAssumption == NoPipeline \notin Pipelines

VARIABLES queue,        \* the sequencer's list of pending tasks
          busy,         \* sequencer->busy
          outer,        \* the pipeline whose execute call drains the sequencer
          current,      \* the pipeline whose stage is running
          task_index, flags,
          awaited,      \* next has not been called since the start or the last stage
          cancelled,    \* history: finish was called since the start
          starts,       \* history: how often the pipeline was started
          ran,          \* history: the last stage that ran since the start, or -1
          completed     \* history: runs of the last stage since the start

history == <<cancelled, starts, ran, completed>>
vars == <<queue, busy, outer, current, task_index, flags, awaited, history>>

Flags == {"BUSY", "NEXT", "FINISH"}

Init == /\ queue = <<>>
        /\ busy = FALSE
        /\ outer = NoPipeline
        /\ current = NoPipeline
        /\ task_index = [p \in Pipelines |-> 0]
        /\ flags = [p \in Pipelines |-> {}]
        /\ awaited = [p \in Pipelines |-> FALSE]
        /\ cancelled = [p \in Pipelines |-> FALSE]
        /\ starts = [p \in Pipelines |-> 0]
        /\ ran = [p \in Pipelines |-> -1]
        /\ completed = [p \in Pipelines |-> 0]

Running(p) == starts[p] > 0 /\ completed[p] = 0

\* The pipelines whose task is pending.
Queued == {queue[i] : i \in DOMAIN queue}

\* Calls come from the loop (a timer, a worker's answer, a datagram) or from
\* the stage that is running, never from between two tasks of a drain.
MayCall == busy => current # NoPipeline

\* Variant: a task that is pending already is linked a second time.
SubmitTwice(p) ==
    /\ queue' = Append(queue, p)
    /\ busy' = TRUE

\* pomelo_sequencer_submit: a pending task moves to the tail
Submit(p) ==
    /\ \/ p \notin Queued /\ queue' = Append(queue, p)
       \/ \E i \in DOMAIN queue :
             /\ queue[i] = p
             /\ queue' = Append(SubSeq(queue, 1, i - 1) \o SubSeq(queue, i + 1, Len(queue)), p)
    /\ busy' = TRUE

\* pomelo_pipeline_execute up to its submit: on a busy sequencer the loop body
\* ends at once; on an idle one the drain begins.
Execute(p, f) ==
    /\ Submit(p)
    /\ outer' = IF busy THEN outer ELSE p
    /\ flags' = [flags EXCEPT ![p] = IF busy THEN f ELSE f \union {"BUSY"}]

\* Variant: a recycled pipeline starts at the stage it ended with.
StartKeepsIndex(p) ==
    /\ MayCall
    /\ ~Running(p)
    /\ starts[p] < MaxStarts[p]
    /\ UNCHANGED task_index
    /\ Execute(p, {})
    /\ awaited' = [awaited EXCEPT ![p] = Last > 0]
    /\ cancelled' = [cancelled EXCEPT ![p] = FALSE]
    /\ starts' = [starts EXCEPT ![p] = @ + 1]
    /\ ran' = [ran EXCEPT ![p] = -1]
    /\ completed' = [completed EXCEPT ![p] = 0]
    /\ UNCHANGED current

\* pomelo_pipeline_start
Start(p) ==
    /\ MayCall
    /\ ~Running(p)
    /\ starts[p] < MaxStarts[p]
    /\ task_index' = [task_index EXCEPT ![p] = 0]
    /\ Execute(p, {})
    /\ awaited' = [awaited EXCEPT ![p] = Last > 0]
    /\ cancelled' = [cancelled EXCEPT ![p] = FALSE]
    /\ starts' = [starts EXCEPT ![p] = @ + 1]
    /\ ran' = [ran EXCEPT ![p] = -1]
    /\ completed' = [completed EXCEPT ![p] = 0]
    /\ UNCHANGED current

\* The common shape of next and finish: nothing on the last stage, a flag for
\* the execute call that is on the stack, else the stage at once.
GoTo(p, index, flag) ==
    IF task_index[p] = Last
    THEN UNCHANGED <<queue, busy, outer, flags, task_index>>
    ELSE IF "BUSY" \in flags[p]
         THEN /\ flags' = [flags EXCEPT ![p] = @ \union {flag}]
              /\ UNCHANGED <<queue, busy, outer, task_index>>
         ELSE /\ task_index' = [task_index EXCEPT ![p] = index]
              /\ Execute(p, flags[p])

\* pomelo_pipeline_next, called once for each stage before the last
CallNext(p) ==
    /\ MayCall
    /\ Running(p)
    /\ awaited[p]
    /\ awaited' = [awaited EXCEPT ![p] = FALSE]
    /\ GoTo(p, task_index[p] + 1, "NEXT")
    /\ UNCHANGED <<current, history>>

\* pomelo_pipeline_finish, a failure of the stage or a cancel
CallFinish(p) ==
    /\ MayCall
    /\ Running(p)
    /\ GoTo(p, Last, "FINISH")
    /\ cancelled' = [cancelled EXCEPT ![p] = TRUE]
    /\ UNCHANGED <<current, awaited, starts, ran, completed>>

\* The drain pops a task and pomelo_pipeline_execute_current_task runs the stage.
RunStage ==
    /\ busy
    /\ current = NoPipeline
    /\ queue # <<>>
    /\ LET p == Head(queue)
           stage == task_index[p]
       IN  /\ queue' = Tail(queue)
           /\ current' = p
           /\ ran' = [ran EXCEPT ![p] = stage]
           /\ awaited' = [awaited EXCEPT ![p] = stage < Last]
           /\ completed' = [completed EXCEPT ![p] = IF stage = Last THEN @ + 1 ELSE @]
    /\ UNCHANGED <<busy, outer, task_index, flags, cancelled, starts>>

StageReturns ==
    /\ current # NoPipeline
    /\ current' = NoPipeline
    /\ UNCHANGED <<queue, busy, outer, task_index, flags, awaited, history>>

\* Variant: the flags are not looked at after the drain.
AfterDrainForgets ==
    /\ busy
    /\ current = NoPipeline
    /\ queue = <<>>
    /\ flags' = [flags EXCEPT ![outer] = {}]
    /\ outer' = NoPipeline
    /\ busy' = FALSE
    /\ UNCHANGED <<queue, current, task_index, awaited, history>>

\* Variant: the execute call returns with its flags still set.
AfterDrainKeepsFlags ==
    /\ busy
    /\ current = NoPipeline
    /\ queue = <<>>
    /\ flags' = [flags EXCEPT ![outer] = @ \ {"BUSY"}]
    /\ outer' = NoPipeline
    /\ busy' = FALSE
    /\ UNCHANGED <<queue, current, task_index, awaited, history>>

\* The queue is empty: the sequencer is idle again and the execute call that
\* drained it looks at the flags, FINISH first, and loops or returns.
AfterDrain ==
    /\ busy
    /\ current = NoPipeline
    /\ queue = <<>>
    /\ LET p == outer
           again == task_index[p] # Last /\ flags[p] \intersect {"NEXT", "FINISH"} # {}
           finish == "FINISH" \in flags[p]
       IN  IF again
           THEN /\ task_index' = [task_index EXCEPT ![p] = IF finish THEN Last ELSE @ + 1]
                /\ flags' = [flags EXCEPT ![p] = @ \ {IF finish THEN "FINISH" ELSE "NEXT"}]
                /\ queue' = <<p>>
                /\ UNCHANGED <<busy, outer>>
           ELSE /\ flags' = [flags EXCEPT ![p] = {}]
                /\ outer' = NoPipeline
                /\ busy' = FALSE
                /\ UNCHANGED <<queue, task_index>>
    /\ UNCHANGED <<current, awaited, history>>

Next == \/ \E p \in Pipelines : Start(p) \/ CallNext(p) \/ CallFinish(p)
        \/ RunStage \/ StageReturns \/ AfterDrain

Spec == Init /\ [][Next]_vars

\* The loop goes on, a stage returns, and what it started is answered.
FairSpec == /\ Spec
            /\ WF_vars(RunStage) /\ WF_vars(StageReturns) /\ WF_vars(AfterDrain)
            /\ \A p \in Pipelines : WF_vars(~busy /\ CallNext(p))

-------------------------------------------------------------------------------
TypeOK ==
    /\ queue \in Seq(Pipelines)
    /\ busy \in BOOLEAN
    /\ outer \in Pipelines \union {NoPipeline}
    /\ current \in Pipelines \union {NoPipeline}
    /\ task_index \in [Pipelines -> 0 .. Last]
    /\ flags \in [Pipelines -> SUBSET Flags]
    /\ awaited \in [Pipelines -> BOOLEAN]
    /\ cancelled \in [Pipelines -> BOOLEAN]
    /\ starts \in [Pipelines -> Nat]
    /\ ran \in [Pipelines -> -1 .. Last]
    /\ completed \in [Pipelines -> Nat]

\* A pipeline whose last stage ran is not in the queue any more and never runs
\* again before it is restarted: its owner may go back to the pool in the last
\* stage, although the execute call may still be on the stack.
CompletesOnce ==
    \A p \in Pipelines :
        /\ completed[p] <= 1
        /\ completed[p] = 1 => p \notin Queued

\* When the loop is idle no task and no wish to go on is left behind.
IdleIsClean == ~busy => /\ queue = <<>>
                        /\ \A p \in Pipelines : flags[p] = {}

\* Stages run in order.  Only a cancel leaves stages out, for the last one, and
\* only the first stage may be passed over, when its work is done before it runs.
InOrder ==
    [][\A p \in Pipelines :
        ran'[p] # ran[p] /\ starts'[p] = starts[p]
            => \/ ran'[p] = ran[p] + 1
               \/ ran[p] = -1 /\ ran'[p] = 1 /\ ~awaited[p]
               \/ cancelled[p] /\ ran'[p] = Last /\ ran[p] < Last]_vars

\* Every pipeline that was started runs its last stage, whatever is cancelled
\* and in whatever order the others' stages run.
Completes == \A p \in Pipelines : Running(p) ~> completed[p] > 0
===============================================================================
