--------------------------- MODULE StrategyPipeline ---------------------------
(***************************************************************************)
(* The one-call pipeline: RunStrategyPipelineUseCase run by                *)
(* StrategyPipelineJobRunner under StrategyPipelineJobManager.             *)
(*                                                                         *)
(* A pipeline is a coroutine.  It has the event loop to itself from one    *)
(* sleep to the next: it validates, starts one indicator job per           *)
(* timeframe, polls their status, and then reads their artifacts, runs the *)
(* backtest and saves the result without yielding.  The indicator jobs     *)
(* write from their own threads, clients cancel pipelines and delete       *)
(* artifacts from request threads.  An indicator job is kept to what the   *)
(* pipeline can see of it; its own behaviour is IndicatorJobs.             *)
(***************************************************************************)
EXTENDS ResultStore

CONSTANTS
    Children,           \* Children[p]: how many timeframes pipeline p declares
    MaxPolls,           \* _POLL_TIMEOUT / _POLL_INTERVAL
    MaxPipelines,       \* max_jobs
    Cancellable,        \* bound: pipelines a user may cancel
    Deletable           \* bound: indicator jobs a client may delete

Pipelines == DOMAIN Children
Jobs == {j \in Pipelines \X (1..Len(Children)) : j[2] <= Children[j[1]]}
ChildrenOf(p) == {j \in Jobs : j[1] = p}

ASSUME PipelineAssumption ==
    /\ Children \in Seq(Nat \ {0}) /\ Pipelines \subseteq Results
    /\ \A p \in Pipelines : Children[p] <= Len(Children)
    /\ MaxPolls \in Nat /\ MaxPipelines \in Nat \ {0}
    /\ Cancellable \subseteq Pipelines /\ Deletable \subseteq Jobs

VARIABLES
    status,     \* StrategyPipelineJob.status
    result,     \* result_id of the stored pipeline result, NoResult if empty
    answered,   \* pipelines whose result is attached to the job
    known,      \* keys of _jobs of the pipeline manager
    pc,         \* where the coroutine of the pipeline is
    cancelReq,  \* tasks on which cancel() has been called
    canceller,  \* pipeline a request thread is half way through cancelling
    asked,      \* history: pipelines on which cancel() got past its guard
    loop,       \* the coroutine that has the event loop, or NoPipeline
    cursor,     \* the indicator job the running coroutine looks at next
    allDone,    \* local to _await_jobs
    anyFailed,  \* local to _await_jobs
    polls,      \* elapsed / _POLL_INTERVAL
    jstatus,    \* IndicatorJob.status, or "none" before start and after delete
    thread,     \* how far the pool thread of the indicator job is
    jcancel,    \* is its task asked to stop?  has it noticed?
    bars        \* indicator jobs whose bars can be read

pipelineJobs == <<status, result, answered, known>>
tasks == <<pc, cancelReq, loop>>
polling == <<cursor, allDone, anyFailed, polls>>
indicatorJobs == <<jstatus, thread, jcancel, bars>>
vars == <<store, pipelineJobs, tasks, polling, indicatorJobs, canceller, asked>>

Statuses == {"queued", "running", "completed", "failed", "cancelled"}
Terminal == {"completed", "failed", "cancelled"}
NoPipeline == 0
NoJob == <<0, 0>>
Started == {p \in Pipelines : pc[p] # "none"}

PipelineStates ==
    {"none", "scheduled", "validate", "price_cache", "poll", "asleep", "artifact_job",
     "artifact_bars", "engine", "record", "put", "persist", "complete",
     "sweep_read", "sweep_write", "done"}

(* "restored": the thread has stored a job that was deleted meanwhile.     *)
ThreadStates == {"none", "queued", "working", "storing", "gone", "restored"}

TypeOK ==
    /\ StoreTypeOK
    /\ status \in [Pipelines -> Statuses] /\ result \in [Pipelines -> Results \cup {NoResult}]
    /\ answered \subseteq Pipelines /\ known \subseteq Pipelines
    /\ pc \in [Pipelines -> PipelineStates]
    /\ cancelReq \subseteq Pipelines /\ asked \subseteq Pipelines
    /\ canceller \in Pipelines \cup {NoPipeline} /\ loop \in Pipelines \cup {NoPipeline}
    /\ cursor \in Nat /\ allDone \in BOOLEAN /\ anyFailed \in BOOLEAN
    /\ polls \in [Pipelines -> 0..MaxPolls]
    /\ jstatus \in [Jobs -> Statuses \cup {"none"}]
    /\ thread \in [Jobs -> ThreadStates]
    /\ jcancel \in [Jobs -> {"no", "asked", "seen"}] /\ bars \subseteq Jobs

Init ==
    /\ StoreInit
    /\ status = [p \in Pipelines |-> "queued"]
    /\ result = [p \in Pipelines |-> NoResult]
    /\ answered = {} /\ known = {} /\ cancelReq = {} /\ asked = {}
    /\ pc = [p \in Pipelines |-> "none"]
    /\ canceller = NoPipeline /\ loop = NoPipeline
    /\ cursor = 1 /\ allDone = TRUE /\ anyFailed = FALSE
    /\ polls = [p \in Pipelines |-> 0]
    /\ jstatus = [j \in Jobs |-> "none"] /\ thread = [j \in Jobs |-> "none"]
    /\ jcancel = [j \in Jobs |-> "no"] /\ bars = {}

-----------------------------------------------------------------------------
(* The pipeline manager. *)

Ended(ps) == {p \in ps : status[p] \in Terminal}

OverLimit(ps) ==
    {p \in Ended(ps) :
        Cardinality(ps) - Cardinality({q \in Ended(ps) : q < p}) > MaxPipelines}

(* start: room is made and the coroutine becomes a task. *)
Start(p) ==
    /\ Started = 1..(p - 1)
    /\ \E cutoff \in Pipelines \cup {Len(Children) + 1} :
       LET live == {q \in known : status[q] \notin Terminal \/ q >= cutoff}
       IN  known' = (live \cup {p}) \ OverLimit(live \cup {p})
    /\ pc' = [pc EXCEPT ![p] = "scheduled"]
    /\ UNCHANGED <<store, status, result, answered, cancelReq, loop, polling,
                   indicatorJobs, canceller, asked>>

(* start_strategy_pipeline is an async tool, so it runs on the loop. *)
StartStrategyPipeline(p) == loop = NoPipeline /\ Start(p)

(* Mutant: a job that has ended can be cancelled. *)
CancelRequestEnded(p) ==
    /\ p \in Cancellable /\ canceller = NoPipeline
    /\ p \in known
    /\ canceller' = p
    /\ asked' = asked \cup {p}
    /\ cancelReq' = IF pc[p] # "done" THEN cancelReq \cup {p} ELSE cancelReq
    /\ UNCHANGED <<store, pipelineJobs, pc, loop, polling, indicatorJobs>>

(* cancel, in a request thread: the status is read without the lock and    *)
(* the task asked to stop...                                               *)
CancelRequest(p) ==
    /\ p \in Cancellable /\ canceller = NoPipeline
    /\ p \in known /\ status[p] \notin Terminal
    /\ canceller' = p
    /\ asked' = asked \cup {p}
    /\ cancelReq' = IF pc[p] # "done" THEN cancelReq \cup {p} ELSE cancelReq
    /\ UNCHANGED <<store, pipelineJobs, pc, loop, polling, indicatorJobs>>

(* ...then the status is written, whatever it has become. *)
CancelWrite ==
    /\ canceller # NoPipeline
    /\ status' = [status EXCEPT ![canceller] = "cancelled"]
    /\ canceller' = NoPipeline
    /\ UNCHANGED <<store, result, answered, known, tasks, polling, indicatorJobs, asked>>

-----------------------------------------------------------------------------
(* The coroutine.  Each step moves the coroutine that has the loop.        *)

Goto(p, place) == pc' = [pc EXCEPT ![p] = place] /\ UNCHANGED <<cancelReq, loop>>

BeginPoll == cursor' = 1 /\ allDone' = TRUE /\ anyFailed' = FALSE

(* manager.update with the last status; the coroutine returns and its     *)
(* locals are gone.                                                        *)
Finish(p, final) ==
    /\ status' = [status EXCEPT ![p] = final]
    /\ pc' = [pc EXCEPT ![p] = "done"]
    /\ loop' = NoPipeline
    /\ BeginPoll /\ polls' = [polls EXCEPT ![p] = 0]
    /\ UNCHANGED <<cancelReq, known>>

Fail(p) == Finish(p, "failed") /\ UNCHANGED <<result, answered>>

(* The loop takes up a coroutine.  A task that was asked to stop before    *)
(* its first step never enters run(); one that sleeps gets CancelledError. *)
Resume(p) ==
    /\ loop = NoPipeline /\ pc[p] \in {"scheduled", "asleep"}
    /\ IF p \in cancelReq
       THEN /\ IF pc[p] = "scheduled"
               THEN pc' = [pc EXCEPT ![p] = "done"] /\ UNCHANGED loop
               ELSE pc' = [pc EXCEPT ![p] = "sweep_read"] /\ loop' = p
            /\ UNCHANGED <<status, cursor, allDone, anyFailed, polls>>
       ELSE /\ loop' = p
            /\ BeginPoll
            /\ IF pc[p] = "scheduled"
               THEN /\ pc' = [pc EXCEPT ![p] = "validate"]
                    /\ status' = [status EXCEPT ![p] = "running"]
                    /\ UNCHANGED polls
               ELSE /\ pc' = [pc EXCEPT ![p] = "poll"]
                    /\ polls' = [polls EXCEPT ![p] = @ + 1]
                    /\ UNCHANGED status
    /\ UNCHANGED <<store, result, answered, known, cancelReq, indicatorJobs,
                   canceller, asked>>

(* ComputeStrategyIndicatorsUseCase.execute starts the jobs one after the  *)
(* other; none of them runs before the coroutine yields.                   *)
ComputeStrategyIndicators(p) ==
    /\ jstatus' = [j \in Jobs |-> IF j[1] = p THEN "queued" ELSE jstatus[j]]
    /\ thread' = [j \in Jobs |-> IF j[1] = p THEN "queued" ELSE thread[j]]

(* execute: a definition that does not parse ends the pipeline... *)
Validate(p) ==
    /\ pc[p] = "validate"
    /\ \/ Fail(p)
       \/ Goto(p, "price_cache") /\ UNCHANGED <<pipelineJobs, polling>>
    /\ UNCHANGED <<store, indicatorJobs, canceller, asked>>

(* ...and so does a timeframe without cached prices (_check_price_cache);  *)
(* otherwise one job per timeframe is started.                             *)
CheckPriceCache(p) ==
    /\ pc[p] = "price_cache"
    /\ \/ Fail(p) /\ UNCHANGED <<jstatus, thread>>
       \/ /\ ComputeStrategyIndicators(p)
          /\ Goto(p, "poll") /\ UNCHANGED <<pipelineJobs, polling>>
    /\ UNCHANGED <<store, jcancel, bars, canceller, asked>>

(* _await_jobs, one job of the inner loop. *)
PollJob(p) ==
    /\ pc[p] = "poll" /\ cursor <= Children[p]
    /\ LET s == jstatus[<<p, cursor>>]
       IN  /\ allDone' = (allDone /\ s \in {"completed", "cancelled", "failed"})
           /\ anyFailed' = (anyFailed \/ s \in {"none", "failed"})
    /\ cursor' = cursor + 1
    /\ UNCHANGED <<store, pipelineJobs, tasks, polls, indicatorJobs, canceller, asked>>

(* Mutant: the loop never gives up. *)
AfterPollPatient(p) ==
    /\ pc[p] = "poll" /\ cursor > Children[p]
    /\ IF anyFailed THEN Fail(p)
       ELSE /\ BeginPoll
            /\ IF allDone THEN Goto(p, "artifact_job")
               ELSE /\ pc' = [pc EXCEPT ![p] = IF polls[p] >= MaxPolls THEN @ ELSE "asleep"]
                    /\ loop' = IF polls[p] >= MaxPolls THEN loop ELSE NoPipeline
                    /\ UNCHANGED cancelReq
            /\ UNCHANGED <<pipelineJobs, polls>>
    /\ UNCHANGED <<store, indicatorJobs, canceller, asked>>

(* _await_jobs, after the inner loop; a failure is reported before the     *)
(* backtest is tried.                                                      *)
AfterPoll(p) ==
    /\ pc[p] = "poll" /\ cursor > Children[p]
    /\ IF anyFailed \/ (~allDone /\ polls[p] >= MaxPolls)
       THEN Fail(p)
       ELSE /\ BeginPoll
            /\ IF allDone THEN Goto(p, "artifact_job")
               ELSE /\ pc' = [pc EXCEPT ![p] = "asleep"] /\ loop' = NoPipeline
                    /\ UNCHANGED cancelReq
            /\ UNCHANGED <<pipelineJobs, polls>>
    /\ UNCHANGED <<store, indicatorJobs, canceller, asked>>

(* _artifact_bars: the job must be there and completed by now... *)
ReadArtifactJob(p) ==
    /\ pc[p] = "artifact_job"
    /\ IF jstatus[<<p, cursor>>] = "completed"
       THEN Goto(p, "artifact_bars") /\ UNCHANGED <<pipelineJobs, polling>>
       ELSE Fail(p)
    /\ UNCHANGED <<store, indicatorJobs, canceller, asked>>

(* Mutant: an artifact without bars counts as an empty one. *)
ReadArtifactBarsOrEmpty(p) ==
    /\ pc[p] = "artifact_bars"
    /\ IF cursor < Children[p]
       THEN Goto(p, "artifact_job") /\ cursor' = cursor + 1
       ELSE Goto(p, "engine") /\ cursor' = 1
    /\ UNCHANGED <<store, pipelineJobs, allDone, anyFailed, polls, indicatorJobs, canceller, asked>>

(* ...and its bars stored, which its thread does after the status. *)
ReadArtifactBars(p) ==
    /\ pc[p] = "artifact_bars"
    /\ IF <<p, cursor>> \notin bars THEN Fail(p)
       ELSE /\ IF cursor < Children[p]
               THEN Goto(p, "artifact_job") /\ cursor' = cursor + 1
               ELSE Goto(p, "engine") /\ cursor' = 1
            /\ UNCHANGED <<pipelineJobs, allDone, anyFailed, polls>>
    /\ UNCHANGED <<store, indicatorJobs, canceller, asked>>

(* BacktestStrategyDefinitionUseCase.execute: missing columns, warmup and  *)
(* the like make it invalid; an engine that raises still gives a valid     *)
(* result, with an error in it.                                            *)
RunEngine(p) ==
    /\ pc[p] = "engine"
    /\ \/ Fail(p)
       \/ Goto(p, "record") /\ UNCHANGED <<pipelineJobs, polling>>
    /\ UNCHANGED <<store, indicatorJobs, canceller, asked>>

(* StoreBacktestResultUseCase.execute: the three steps of save. *)
RecordResult(p) ==
    /\ pc[p] = "record" /\ Record(p) /\ Goto(p, "put")
    /\ UNCHANGED <<pipelineJobs, polling, indicatorJobs, canceller, asked>>

PutResult(p) ==
    /\ pc[p] = "put" /\ Put(p) /\ Goto(p, "persist")
    /\ UNCHANGED <<pipelineJobs, polling, indicatorJobs, canceller, asked>>

PersistResult(p) ==
    /\ pc[p] = "persist" /\ (Persist(p) \/ PersistRaises(p)) /\ Goto(p, "complete")
    /\ UNCHANGED <<pipelineJobs, polling, indicatorJobs, canceller, asked>>

(* The pipeline is complete, with an empty result_id if the save failed. *)
Complete(p) ==
    /\ pc[p] = "complete"
    /\ result' = [result EXCEPT ![p] = IF saver[p] = "saved" THEN p ELSE NoResult]
    /\ answered' = answered \cup {p}
    /\ Finish(p, "completed")
    /\ UNCHANGED <<store, indicatorJobs, canceller, asked>>

(* CancelledError: cancel_all_non_terminal goes through every indicator    *)
(* job of the process; the status of each is read...                       *)
SweepOrder == SetToSortSeq(Jobs, LAMBDA a, b : a[1] < b[1] \/ (a[1] = b[1] /\ a[2] < b[2]))

SweepRead(p) ==
    /\ pc[p] = "sweep_read"
    /\ IF cursor > Len(SweepOrder)
       THEN Finish(p, "cancelled") /\ UNCHANGED <<result, answered, jcancel>>
       ELSE LET j == SweepOrder[cursor]
            IN  /\ IF jstatus[j] \in {"queued", "running"}
                   THEN /\ jcancel' = [jcancel EXCEPT ![j] =
                               IF @ = "no" /\ thread[j] # "gone" THEN "asked" ELSE @]
                        /\ Goto(p, "sweep_write") /\ UNCHANGED cursor
                   ELSE /\ cursor' = cursor + 1
                        /\ UNCHANGED <<jcancel, tasks>>
                /\ UNCHANGED <<pipelineJobs, allDone, anyFailed, polls>>
    /\ UNCHANGED <<store, jstatus, thread, bars, canceller, asked>>

(* ...and then overwritten, in memory: a job that has been deleted since   *)
(* is out of reach, with or without a row of its own.                      *)
SweepWrite(p) ==
    /\ pc[p] = "sweep_write"
    /\ LET j == SweepOrder[cursor]
       IN  jstatus' = [jstatus EXCEPT ![j] =
                          IF @ = "none" \/ thread[j] = "restored" THEN @ ELSE "cancelled"]
    /\ cursor' = cursor + 1
    /\ Goto(p, "sweep_read")
    /\ UNCHANGED <<store, pipelineJobs, allDone, anyFailed, polls, thread, jcancel,
                   bars, canceller, asked>>

Run(p) ==
    Validate(p) \/ CheckPriceCache(p) \/ PollJob(p) \/ AfterPoll(p)
    \/ ReadArtifactJob(p) \/ ReadArtifactBars(p)
    \/ RunEngine(p) \/ RecordResult(p) \/ PutResult(p) \/ PersistResult(p) \/ Complete(p)
    \/ SweepRead(p) \/ SweepWrite(p)

-----------------------------------------------------------------------------
(* An indicator job, as far as a pipeline sees it. *)

JobUnchanged == UNCHANGED <<store, pipelineJobs, tasks, polling, canceller, asked>>

(* The loop hands the job to a thread, unless its task was cancelled. *)
JobHandOver(j) ==
    /\ loop = NoPipeline /\ thread[j] = "queued"
    /\ thread' = [thread EXCEPT ![j] = IF jcancel[j] = "no" THEN "working" ELSE "gone"]
    /\ UNCHANGED <<jstatus, jcancel, bars>> /\ JobUnchanged

(* The coroutine that waits for the thread is told of the cancellation;    *)
(* the thread is not.                                                      *)
JobCancelled(j) ==
    /\ loop = NoPipeline /\ jcancel[j] = "asked" /\ thread[j] \in {"working", "storing"}
    /\ jcancel' = [jcancel EXCEPT ![j] = "seen"]
    /\ jstatus' = [jstatus EXCEPT ![j] = IF @ = "none" THEN @ ELSE "cancelled"]
    /\ UNCHANGED <<thread, bars>> /\ JobUnchanged

(* Any update of a thread, late or not: progress, failure, completion.     *)
(* Nobody sees it of a job that has been deleted.                          *)
JobWrites(j) ==
    /\ thread[j] = "working"
    /\ \E s \in {"running", "failed", "completed"} :
          /\ jstatus' = [jstatus EXCEPT ![j] = IF @ = "none" THEN @ ELSE s]
          /\ thread' = [thread EXCEPT ![j] =
                 IF s = "running" THEN @ ELSE IF s = "failed" THEN "gone" ELSE "storing"]
    /\ UNCHANGED <<jcancel, bars>> /\ JobUnchanged

(* store_result.  A job that was deleted meanwhile comes back as the row,  *)
(* with the status the job has then: "completed", or "cancelled" if it was *)
(* asked to stop after that.                                               *)
JobStores(j) ==
    /\ thread[j] = "storing"
    /\ bars' = bars \cup {j}
    /\ IF jstatus[j] # "none"
       THEN thread' = [thread EXCEPT ![j] = "gone"] /\ UNCHANGED jstatus
       ELSE /\ thread' = [thread EXCEPT ![j] = "restored"]
            /\ \E s \in {"completed"} \cup (IF jcancel[j] = "no" THEN {} ELSE {"cancelled"}) :
                  jstatus' = [jstatus EXCEPT ![j] = s]
    /\ UNCHANGED jcancel /\ JobUnchanged

(* A client deletes an artifact, whatever its job is doing. *)
JobDeleted(j) ==
    /\ j \in Deletable /\ jstatus[j] # "none"
    /\ jstatus' = [jstatus EXCEPT ![j] = "none"]
    /\ bars' = bars \ {j}
    /\ UNCHANGED <<thread, jcancel>> /\ JobUnchanged

IndicatorJob(j) ==
    JobHandOver(j) \/ JobCancelled(j) \/ JobWrites(j) \/ JobStores(j) \/ JobDeleted(j)

-----------------------------------------------------------------------------
Next ==
    \/ \E p \in Pipelines : StartStrategyPipeline(p) \/ CancelRequest(p) \/ Resume(p) \/ Run(p)
    \/ CancelWrite
    \/ \E j \in Jobs : IndicatorJob(j)

(* The event loop serves its coroutines and a request thread finishes.     *)
(* Indicator jobs get no fairness: they may hang.                          *)
Fairness ==
    /\ \A p \in Pipelines : WF_vars(Resume(p)) /\ WF_vars(Run(p))
    /\ WF_vars(CancelWrite)

Spec == Init /\ [][Next]_vars /\ Fairness

-----------------------------------------------------------------------------
(* get_strategy_pipeline_results: the answer a client gets, NoAnswer while *)
(* the status is anything but completed.                                   *)
NoAnswer == NResults + 1
GetStrategyPipelineResults(p) ==
    IF p \in known /\ status[p] = "completed" THEN result[p] ELSE NoAnswer

AtRest(p) == pc[p] = "done" /\ canceller # p

(* The engine only ever runs when every timeframe of the pipeline has bars *)
(* of its own job, whatever was cancelled, deleted or half stored while    *)
(* the pipeline polled (_await_jobs, _artifact_bars); bars can only        *)
(* disappear again by a delete.                                            *)
BacktestsHaveBars ==
    \A p \in Pipelines : pc[p] \in {"engine", "record", "put", "persist"} =>
        \A j \in ChildrenOf(p) : j \in bars \/ jstatus[j] = "none"

(* The result id a client is given for a completed pipeline can be read    *)
(* although the cache may have dropped it; a save that failed shows no id  *)
(* (_run_backtest).                                                        *)
ResultIdReadable ==
    \A p \in Pipelines :
        LET r == GetStrategyPipelineResults(p)
        IN  r \in Results \ deleted => Get(r)

(* Together, over well-typed pipelines: a backtest stands on bars of its   *)
(* own jobs, and the id reported for it leads to its result.               *)
ResultsBacked == TypeOK /\ BacktestsHaveBars /\ ResultIdReadable

(* A started pipeline comes to rest although its indicator jobs may hang,  *)
(* fail, be deleted or be cancelled by somebody else (_await_jobs).        *)
PipelinesSettle == \A p \in Pipelines : pc[p] # "none" ~> AtRest(p)

Lifecycle == INSTANCE JobLifecycle WITH
    Jobs <- Pipelines,
    phase <- [p \in Pipelines |->
                 IF pc[p] = "none" THEN "new" ELSE IF AtRest(p) THEN status[p] ELSE "active"]

(* A pipeline keeps the promises of a background job: its outcome never    *)
(* changes once nothing can write it, it is "cancelled" only if somebody   *)
(* asked, and "completed" only with its result attached.                   *)
KeepsLifecycle == Lifecycle!Spec

=============================================================================
