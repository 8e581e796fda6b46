-------------------------- MODULE OptimizationJobs --------------------------
(***************************************************************************)
(* Background optimizations: InMemoryOptimizationJobManager and the two    *)
(* runners it is given, GridSearchOptimizer and WalkForwardOptimizer.      *)
(*                                                                         *)
(* start() runs on the event loop and schedules the runner's coroutine;    *)
(* the coroutine hands _sync_run to a pool thread and waits; request       *)
(* threads cancel.  Every manager.update is one step under the lock.  What *)
(* the engine answers for a combination is chosen by the environment.      *)
(***************************************************************************)
EXTENDS ParameterSearch

CONSTANTS
    NJobs,              \* bound: jobs started in one behaviour
    Requests,           \* the requests each job may be started with
    RawMetrics,         \* what the engine may report for the metric
    MaxCombinations,    \* _MAX_COMBINATIONS
    MaxJobs,            \* max_jobs
    Cancellable         \* bound: the jobs a user may cancel

Jobs == 1..NJobs
NoJob == 0

(* The metadata of a job.  "shape" is how much of each range the client    *)
(* sent: min, max and step, no step, or less.                              *)
RangeList == Seq([min : Int, max : Int, step : Int])

StartOptimizationJobRequest ==
    [kind : {"grid"}, ranges : RangeList, method : {"grid", "random"},
     count : Int, artifact : {"there", "missing"}, loop : BOOLEAN,
     metric : {"supported", "other"}, shape : {"full", "no_step", "less"}]

StartWalkForwardJobRequest ==
    [kind : {"walk_forward"}, ranges : RangeList, method : {"grid", "random"},
     count : Int, artifact : {"there", "missing"}, loop : BOOLEAN,
     metric : {"supported", "other"}, shape : {"full", "no_step", "less"},
     bars : Nat, folds : Int, ratio : 0..10, anchor : {"rolling", "anchored"},
     minTrain : Int, minTest : Int]

ASSUME OptimizationAssumption ==
    /\ NJobs \in Nat /\ MaxCombinations \in Nat \ {0} /\ MaxJobs \in Nat \ {0}
    /\ Cancellable \subseteq Jobs
    /\ \A raw \in RawMetrics :
           raw = None \/ (raw \in Int /\ None < raw /\ raw < Infinity)
    /\ \A j \in Jobs : Requests[j] \subseteq
           StartOptimizationJobRequest \cup StartWalkForwardJobRequest

VARIABLES
    request,    \* metadata of each job, or NoRequest
    status,     \* OptimizationJob.status
    total,      \* total_combinations
    done,       \* combinations_done
    pct,        \* progress_pct
    results,    \* results, or the walk-forward folds in the metadata
    known,      \* keys of _jobs
    tasks,      \* keys of _tasks
    coro,       \* where the coroutine of the job is
    cancelReq,  \* tasks on which cancel() has been called
    worker,     \* where the pool thread of the job is
    work,       \* combinations or folds, local to the thread
    found,      \* results so far, local to the thread
    canceller,  \* job a request thread is half way through cancelling
    asked       \* history: jobs on which cancel() got past its guard

progress == <<total, done, pct, results>>
registry == <<known, tasks>>
eventLoop == <<coro, cancelReq>>
local == <<work, found>>
vars == <<request, status, progress, registry, eventLoop, worker, local,
          canceller, asked>>

Statuses == {"queued", "running", "completed", "failed", "cancelled"}
Terminal == {"completed", "failed", "cancelled"}
NoRequest == [kind |-> "none"]
Started == {j \in Jobs : request[j] # NoRequest}

Init ==
    /\ request = [j \in Jobs |-> NoRequest]
    /\ status = [j \in Jobs |-> "queued"]
    /\ total = [j \in Jobs |-> 0] /\ done = [j \in Jobs |-> 0]
    /\ pct = [j \in Jobs |-> 0] /\ results = [j \in Jobs |-> <<>>]
    /\ known = {} /\ tasks = {} /\ cancelReq = {} /\ asked = {}
    /\ coro = [j \in Jobs |-> "none"]
    /\ worker = [j \in Jobs |-> "none"]
    /\ work = [j \in Jobs |-> <<>>] /\ found = [j \in Jobs |-> <<>>]
    /\ canceller = NoJob

-----------------------------------------------------------------------------
(* The manager. *)

Ended(js) == {j \in js : status[j] \in Terminal}

(* _enforce_max_jobs_locked: the oldest terminal jobs, until the rest fit. *)
OverLimit(js) ==
    {j \in Ended(js) :
        Cardinality(js) - Cardinality({k \in Ended(js) : k < j}) > MaxJobs}

(* start: expired terminal jobs are dropped, then the coroutine is         *)
(* scheduled, the job registered and room made.  Outside a running loop    *)
(* the coroutine gets a thread and a loop of its own, and no task.         *)
Start(new, r) ==
    /\ new = Cardinality(Started) + 1
    /\ \E cutoff \in 1..(NJobs + 1) :
       LET live    == {j \in known : status[j] \notin Terminal \/ j >= cutoff}
           evicted == OverLimit(live \cup {new})
       IN  /\ request' = [request EXCEPT ![new] = r]
           /\ known' = (live \cup {new}) \ evicted
           /\ tasks' = ((tasks \cap live) \cup (IF r.loop THEN {new} ELSE {}))
                           \ evicted
           /\ coro' = [coro EXCEPT ![new] = "scheduled"]
    /\ UNCHANGED <<status, progress, cancelReq, worker, local, canceller, asked>>

(* cancel reads the status without the lock and asks the task to stop... *)
CancelRequest(j) ==
    /\ j \in Cancellable /\ canceller = NoJob
    /\ j \in known /\ status[j] \notin Terminal
    /\ canceller' = j
    /\ asked' = asked \cup {j}
    /\ cancelReq' = IF j \in tasks /\ coro[j] # "done" THEN cancelReq \cup {j}
                    ELSE cancelReq
    /\ UNCHANGED <<request, status, progress, registry, coro, worker, local>>

(* ...and then writes, whatever the status has become. *)
CancelWrite ==
    /\ canceller # NoJob
    /\ status' = [status EXCEPT ![canceller] = "cancelled"]
    /\ canceller' = NoJob
    /\ UNCHANGED <<request, progress, registry, eventLoop, worker, local, asked>>

-----------------------------------------------------------------------------
(* The entry points.  The tools ask for a full range, the route is content *)
(* without a step, which is then 1.                                        *)
ParseOptimizationInputs(r) == r.metric = "supported" /\ r.shape = "full"

StartOptimizationJob(j, r) ==
    r.kind = "grid" /\ ParseOptimizationInputs(r) /\ Start(j, r)

StartWalkForwardJob(j, r) ==
    r.kind = "walk_forward" /\ ParseOptimizationInputs(r) /\ Start(j, r)

WithDefaultStep(r) ==
    IF r.shape = "full" THEN r
    ELSE [r EXCEPT !.ranges = [k \in DOMAIN @ |-> [@[k] EXCEPT !.step = 1]]]

PostOptimizationJob(j, r) ==
    /\ r.kind = "grid" /\ r.metric = "supported" /\ r.shape # "less"
    /\ Start(j, WithDefaultStep(r))

(* GetOptimizationJobResultsUseCase: the rows of a completed job. *)
GetResults(j) ==
    IF j \notin known THEN [found |-> FALSE, rows |-> <<>>]
    ELSE IF status[j] # "completed" THEN [found |-> TRUE, rows |-> <<>>]
    ELSE [found |-> TRUE, rows |-> results[j]]

(* GetOptimizationJobProgressUseCase. *)
GetProgress(j) ==
    [status |-> status[j], total |-> total[j], done |-> done[j], pct |-> pct[j]]

-----------------------------------------------------------------------------
(* The coroutine run(job). *)

Dispatch(j) ==
    /\ coro[j] = "scheduled" /\ j \notin cancelReq
    /\ coro' = [coro EXCEPT ![j] = "awaiting"]
    /\ worker' = [worker EXCEPT ![j] = "begin"]
    /\ UNCHANGED <<request, status, progress, registry, cancelReq, local,
                   canceller, asked>>

(* A task cancelled before its first step never enters the try block. *)
CancelledScheduled(j) ==
    /\ coro[j] = "scheduled" /\ j \in cancelReq
    /\ coro' = [coro EXCEPT ![j] = "done"]
    /\ UNCHANGED <<request, status, progress, registry, cancelReq, worker,
                   local, canceller, asked>>

(* CancelledError at the await: the thread goes on by itself. *)
CancelledAwaiting(j) ==
    /\ coro[j] = "awaiting" /\ j \in cancelReq
    /\ status' = [status EXCEPT ![j] = "cancelled"]
    /\ coro' = [coro EXCEPT ![j] = "done"]
    /\ UNCHANGED <<request, progress, registry, cancelReq, worker, local,
                   canceller, asked>>

(* Mutant: an exception of the thread is dropped. *)
ResumeSwallow(j) ==
    /\ coro[j] = "awaiting" /\ j \notin cancelReq
    /\ worker[j] \in {"returned", "raised"}
    /\ coro' = [coro EXCEPT ![j] = "done"]
    /\ UNCHANGED <<request, status, progress, registry, cancelReq, worker,
                   local, canceller, asked>>

Resume(j) ==
    /\ coro[j] = "awaiting" /\ j \notin cancelReq
    /\ worker[j] \in {"returned", "raised"}
    /\ status' = IF worker[j] = "raised" THEN [status EXCEPT ![j] = "failed"]
                 ELSE status
    /\ coro' = [coro EXCEPT ![j] = "done"]
    /\ UNCHANGED <<request, progress, registry, cancelReq, worker, local,
                   canceller, asked>>

-----------------------------------------------------------------------------
(* _sync_run, in the pool thread. *)

Leave(j, how) ==
    /\ worker' = [worker EXCEPT ![j] = how]
    /\ UNCHANGED <<request, progress, registry, eventLoop, local, canceller, asked>>

Fail(j) == status' = [status EXCEPT ![j] = "failed"] /\ Leave(j, "returned")
Raise(j) == status' = status /\ Leave(j, "raised")

(* The lists of combinations a request may ask for: the grid, or what a    *)
(* random draw from it can be.                                             *)
Searches(r) ==
    IF r.method = "random"
    THEN {combos \in SeqOf(ToSet(GenerateCombinations(r.ranges)),
                           RandomTarget(r.ranges, r.count, MaxCombinations)) :
             RandomDraw(combos, r.ranges, r.count, MaxCombinations)}
    ELSE {GenerateCombinations(r.ranges)}

Running(j, items, n) ==
    /\ status' = [status EXCEPT ![j] = "running"]
    /\ total' = [total EXCEPT ![j] = n]
    /\ work' = [work EXCEPT ![j] = items]

GridBegin(j) ==
    /\ worker[j] = "begin" /\ request[j].kind = "grid"
    /\ IF ~ValidRanges(request[j].ranges) THEN Raise(j)
       ELSE \E combos \in Searches(request[j]) :
              IF combos = <<>> \/ Len(combos) > MaxCombinations THEN Fail(j)
              ELSE /\ Running(j, combos, Len(combos))
                   /\ worker' = [worker EXCEPT ![j] = "load"]
                   /\ UNCHANGED <<request, done, pct, results, registry,
                                  eventLoop, found, canceller, asked>>

(* _resolve_artifact and _prepare_base_frame: the primary artifact and the *)
(* informative ones are read once, and any of them missing raises.         *)
GridLoad(j) ==
    /\ worker[j] = "load"
    /\ IF request[j].artifact = "missing" THEN Raise(j)
       ELSE status' = status /\ Leave(j, "loop")

(* update(combinations_done, progress_pct) and one backtest. *)
Outcome == [stopped : {"invalid", "missing", "warmup", "raised"}, raw : {0}]
               \cup [stopped : {"no"}, raw : RawMetrics]

(* The four early ends are told apart by their wording only. *)
SomeOutcomes == {o \in Outcome : o.stopped \in {"warmup", "no"}}

GridStep(j) ==
    LET n == Len(found[j])
    IN  /\ worker[j] = "loop" /\ request[j].kind = "grid" /\ n < Len(work[j])
        /\ done' = [done EXCEPT ![j] = n]
        /\ pct' = [pct EXCEPT ![j] = (n * 100) \div Len(work[j])]
        /\ \E o \in SomeOutcomes :
              found' = [found EXCEPT ![j] =
                            Append(@, BacktestOne(work[j][n + 1], o))]
        /\ UNCHANGED <<request, status, total, results, registry, eventLoop,
                       worker, work, canceller, asked>>

(* Mutant: the last update forgets how much was done. *)
CompleteNoCount(j, n, answer) ==
    /\ status' = [status EXCEPT ![j] = "completed"]
    /\ pct' = [pct EXCEPT ![j] = 100]
    /\ done' = [done EXCEPT ![j] = 0]
    /\ results' = [results EXCEPT ![j] = answer]
    /\ worker' = [worker EXCEPT ![j] = "returned"]
    /\ UNCHANGED <<request, total, registry, eventLoop, local, canceller, asked>>

Complete(j, n, answer) ==
    /\ status' = [status EXCEPT ![j] = "completed"]
    /\ pct' = [pct EXCEPT ![j] = 100]
    /\ done' = [done EXCEPT ![j] = n]
    /\ results' = [results EXCEPT ![j] = answer]
    /\ worker' = [worker EXCEPT ![j] = "returned"]
    /\ UNCHANGED <<request, total, registry, eventLoop, local, canceller, asked>>

GridFinish(j) ==
    /\ worker[j] = "loop" /\ request[j].kind = "grid"
    /\ Len(found[j]) = Len(work[j])
    /\ Complete(j, Len(work[j]), Ranked(found[j]))

(* executable: how many folds are announced. *)
Executable(folds, r) ==
    Cardinality({k \in DOMAIN folds : Announced(folds[k], r.minTrain, r.minTest)})

(* Walk-forward: the artifact comes first, then the windows. *)
FoldBegin(j) ==
    LET r     == request[j]
        folds == ComputeFoldIndices(r.bars, r.folds, r.ratio, r.anchor)
    IN  /\ worker[j] = "begin" /\ r.kind = "walk_forward"
        /\ IF r.artifact = "missing" THEN Raise(j)
           ELSE IF \A k \in DOMAIN folds : TestCount(folds[k]) = 0 THEN Fail(j)
           ELSE /\ Running(j, folds, MaxOf(Executable(folds, r), 1))
                /\ worker' = [worker EXCEPT ![j] = "loop"]
                /\ UNCHANGED <<request, done, pct, results, registry, eventLoop,
                               found, canceller, asked>>

(* _backtest_with_bars on the training window and _run_oos on the test     *)
(* window stop early in the same four ways as a grid search does; an       *)
(* exception out of sample is caught by the fold.                          *)
BacktestWithBars(combo, outcome) == BacktestOne(combo, outcome)
RunOos(best, outcome) == BacktestOne(best, outcome)

(* _run_grid_search: the best result of the training window. *)
RunGridSearch(combos, outcomes) ==
    Sorted([c \in DOMAIN combos |-> BacktestWithBars(combos[c], outcomes[c])])[1]

(* _run_fold: the grid is searched on the training window and the first of *)
(* the sorted results is tried out of sample.  A ranking headed by a       *)
(* combination that could not be tested ends the fold with its error.      *)
FoldResult(train, oos) ==
    [skipped |-> FALSE, best |-> IF train.error THEN <<>> ELSE train.params,
     error |-> train.error \/ oos.error]

SkippedFold == [skipped |-> TRUE, best |-> <<>>, error |-> FALSE]
FailedFold == FoldResult(Rejected(<<>>), Rejected(<<>>))

SearchedFolds(combos) ==
    IF combos = <<>> \/ Len(combos) > MaxCombinations THEN {FailedFold}
    ELSE {FoldResult(best, oos) :
            best \in {RunGridSearch(combos, o) :
                          o \in [DOMAIN combos -> SomeOutcomes]},
            oos \in {RunOos(<<>>, o) : o \in SomeOutcomes}}

RunFold(r, fold) ==
    IF TrainCount(fold) = 0 THEN {SkippedFold}
    ELSE IF ~ValidRanges(r.ranges) THEN {FailedFold}
    ELSE UNION {SearchedFolds(combos) : combos \in Searches(r)}

(* runs_done after n folds: one without training bars is skipped, and      *)
(* counted.                                                                *)
RunsDone(folds, n, r) ==
    Cardinality({k \in 1..n : Runnable(folds[k], r.minTrain)})

FoldStep(j) ==
    LET n    == Len(found[j])
        runs == RunsDone(work[j], n, request[j])
        announced == Executable(work[j], request[j])
    IN  /\ worker[j] = "loop" /\ request[j].kind = "walk_forward"
        /\ n < Len(work[j])
        /\ IF Runnable(work[j][n + 1], request[j].minTrain)
           THEN /\ done' = [done EXCEPT ![j] = runs]
                /\ pct' = [pct EXCEPT ![j] =
                              IF announced = 0 THEN 0 ELSE (runs * 100) \div announced]
                /\ \E f \in RunFold(request[j], work[j][n + 1]) :
                      found' = [found EXCEPT ![j] = Append(@, f)]
           ELSE /\ found' = [found EXCEPT ![j] = Append(@, SkippedFold)]
                /\ UNCHANGED <<done, pct>>
        /\ UNCHANGED <<request, status, total, results, registry, eventLoop,
                       worker, work, canceller, asked>>

FoldFinish(j) ==
    /\ worker[j] = "loop" /\ request[j].kind = "walk_forward"
    /\ Len(found[j]) = Len(work[j])
    /\ Complete(j, RunsDone(work[j], Len(work[j]), request[j]), found[j])

-----------------------------------------------------------------------------
LoopStep(j) == Dispatch(j) \/ CancelledScheduled(j) \/ CancelledAwaiting(j) \/ Resume(j)

ThreadStep(j) ==
    GridBegin(j) \/ GridLoad(j) \/ GridStep(j) \/ GridFinish(j)
        \/ FoldBegin(j) \/ FoldStep(j) \/ FoldFinish(j)

Next ==
    \/ \E j \in Jobs : \E r \in Requests[j] :
           StartOptimizationJob(j, r) \/ StartWalkForwardJob(j, r)
               \/ PostOptimizationJob(j, r)
    \/ \E j \in Jobs : CancelRequest(j)
    \/ CancelWrite
    \/ \E j \in Jobs : LoopStep(j) \/ ThreadStep(j)

(* The loop and the pool run what is ready; a request in flight returns. *)
Fairness ==
    /\ WF_vars(CancelWrite)
    /\ \A j \in Jobs : WF_vars(LoopStep(j)) /\ WF_vars(ThreadStep(j))

Spec == Init /\ [][Next]_vars /\ Fairness

-----------------------------------------------------------------------------
(* Type correctness. *)
TypeOK ==
    /\ \A j \in Jobs : request[j] = NoRequest \/ request[j] \in
           StartOptimizationJobRequest \cup StartWalkForwardJobRequest
    /\ status \in [Jobs -> Statuses]
    /\ \A j \in Jobs : total[j] \in Nat /\ done[j] \in Nat /\ pct[j] \in Nat
    /\ known \subseteq Jobs /\ tasks \subseteq known /\ asked \subseteq Jobs
    /\ coro \in [Jobs -> {"none", "scheduled", "awaiting", "done"}]
    /\ worker \in [Jobs -> {"none", "begin", "load", "loop", "returned", "raised"}]
    /\ canceller \in Jobs \cup {NoJob}

(* What the search of a request finds: every combination once, ranks       *)
(* counted from one, best metric first, and a run without a losing trade   *)
(* before every finite score.  Only a random draw from a grid above the    *)
(* limit may come out short.                                               *)
SearchSize(r) ==
    IF r.method = "random" THEN RandomTarget(r.ranges, r.count, MaxCombinations)
    ELSE MaxUnique(r.ranges)

MayBeShort(r) == r.method = "random" /\ MaxUnique(r.ranges) > MaxCombinations

Precedes(score, other) ==
    \/ Reported(score) = None
    \/ Reported(other) # None /\ score >= other

CompleteRanking(rows, r) ==
    LET tried == {rows[p].params : p \in DOMAIN rows}
    IN  /\ Len(rows) <= SearchSize(r)
        /\ Len(rows) = SearchSize(r) \/ MayBeShort(r)
        /\ Cardinality(tried) = Len(rows)
        /\ \A c \in tried : \A k \in DOMAIN r.ranges :
               /\ c[k] \in r.ranges[k].min..r.ranges[k].max
               /\ (c[k] - r.ranges[k].min) % r.ranges[k].step = 0
        /\ \A p \in DOMAIN rows : rows[p].rank = p
        /\ \A p, q \in DOMAIN rows : p < q => Precedes(rows[p].score, rows[q].score)

(* get_optimization_job_results of a completed grid search: a complete     *)
(* ranking of the search that was asked for.                               *)
RankingComplete ==
    \A j \in Jobs :
        GetResults(j).rows # <<>> /\ request[j].kind = "grid" =>
            CompleteRanking(GetResults(j).rows, request[j])

(* compute_fold_indices over small inputs, checked before the first job:   *)
(* no fold that runs is tested on a bar it was trained on or on one that   *)
(* is not there, and anchored folds test every bar between the first       *)
(* window and the end of the last exactly once.                            *)
FoldsOutOfSample ==
    (\A j \in Jobs : request[j] = NoRequest) =>
        \A bars \in 3..17, folds \in 2..5, ratio \in 1..9,
           anchor \in {"anchored", "rolling"} :
            LET computed == ToSet(ComputeFoldIndices(bars, folds, ratio, anchor))
                run      == {f \in computed : Runnable(f, 1)}
            IN  /\ \A f \in run : /\ 0 <= f.trainStart /\ f.trainEnd <= f.testStart
                                  /\ f.testEnd <= bars
                /\ anchor = "anchored" /\ run # {} =>
                      \A b \in (bars \div folds)..(Max({f.testEnd : f \in run}) - 1) :
                          Cardinality({f \in run : f.testStart <= b /\ b < f.testEnd}) = 1

(* Together, over well-typed jobs: what a search reports was found on      *)
(* every combination, and what a walk-forward reports on unseen bars.      *)
SearchSound == TypeOK /\ RankingComplete /\ FoldsOutOfSample

(* A client that polls never sees the count of a job go back, nor its      *)
(* percentage, and a grid search never reports more combinations than it   *)
(* announced or more than 100 %.  A walk-forward does where its loop runs  *)
(* folds that are shorter than min_test_bars and were not announced: the   *)
(* percentage passes 100 only with more folds done than announced, and     *)
(* only then does the last update take it back to 100.                     *)
ProgressForward ==
    [][\A j \in Jobs :
          LET before   == GetProgress(j)
              after    == GetProgress(j)'
              overrun  == after.done > after.total
          IN  /\ after.done >= before.done
              /\ after.pct >= before.pct \/ overrun
              /\ after.pct > 100 => overrun
              /\ request[j] # NoRequest /\ request[j].kind = "grid" => ~overrun]_vars

(* The jobs keep the promise of JobLifecycle. *)
AtRest(j) ==
    /\ coro[j] = "done" /\ worker[j] \in {"none", "returned", "raised"}
    /\ canceller # j /\ status[j] \in Terminal

Lifecycle == INSTANCE JobLifecycle WITH
    phase <- [j \in Jobs |-> IF request[j] = NoRequest THEN "new"
                             ELSE IF AtRest(j) THEN status[j] ELSE "active"],
    answered <- {j \in Jobs : results[j] # <<>>}

KeepsLifecycle == Lifecycle!Spec

=============================================================================
