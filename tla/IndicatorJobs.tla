---------------------------- MODULE IndicatorJobs ----------------------------
(***************************************************************************)
(* Background indicator jobs: InMemoryIndicatorJobManager (job dictionary, *)
(* hot cache, semaphore), CachedPriceIndicatorJobRunner (a coroutine that  *)
(* hands the work to a thread) and SqlIndicatorArtifactRepository.         *)
(*                                                                         *)
(* Four kinds of actor interleave: the event loop that runs the coroutines,*)
(* one pool thread per job, request threads that start, cancel and delete, *)
(* and a restart of the process.  A section under the manager's lock, or   *)
(* one SQL transaction, is one step.  Jobs are numbered in the order they  *)
(* are created and all of them are started from the event loop.  Bars are  *)
(* represented by the request they were computed for and the version of    *)
(* the derivatives data merged into them.                                  *)
(***************************************************************************)
EXTENDS Naturals, FiniteSets

CONSTANTS
    NJobs,              \* bound: jobs started in one behaviour
    Contents,           \* symbol, interval, dates, indicators, definition ...
    RequestChoices,     \* bound: the requests the jobs may be started with
    MaxConcurrent,      \* _MAX_CONCURRENT_JOBS
    MaxJobs,            \* max_jobs
    Cancellable,        \* bound: jobs a user may cancel
    MaxRestarts,        \* bound: process restarts
    MaxFetches          \* bound: times derivatives data is persisted

Jobs == 1..NJobs
Modes == {"batch_full_frame", "live_parity_streaming"}
Requests == [content : Contents, mode : Modes]
Bars == [request : Requests, derivatives : 0..MaxFetches]

ASSUME JobsAssumption ==
    /\ NJobs \in Nat /\ MaxConcurrent \in Nat \ {0} /\ MaxJobs \in Nat \ {0}
    /\ RequestChoices \subseteq [Jobs -> Requests]
    /\ Cancellable \subseteq Jobs /\ MaxRestarts \in Nat /\ MaxFetches \in Nat

VARIABLES
    started,    \* how many jobs have been created
    request,    \* the parameters with which each job is or will be started
    starting,   \* is the event loop inside start()?
    status,     \* IndicatorJob.status of every job object
    known,      \* keys of _jobs
    tasks,      \* keys of _tasks
    coro,       \* where the gated coroutine of the job is
    cancelReq,  \* tasks on which cancel() has been called
    worker,     \* where the pool thread of the job is
    source,     \* artifact found by hash, local to the thread
    held,       \* bars the thread is going to store, local to the thread
    results,    \* _results (and _meta_cache): bars by job, or NoBars
    frames,     \* keys of _frames
    sql,        \* rows of the artifact table
    permits,    \* value of the semaphore
    canceller,  \* job a request thread is half way through cancelling
    deleter,    \* job a request thread is half way through deleting
    derivatives,\* version of the persisted derivatives data
    restarts

client == <<started, request, starting, canceller, deleter>>
memory == <<known, tasks, results, frames>>
eventLoop == <<coro, cancelReq, permits>>
pool == <<worker, source, held>>
database == <<sql, derivatives>>
vars == <<client, memory, eventLoop, pool, database, status, restarts>>

Statuses == {"queued", "running", "completed", "failed", "cancelled"}
Terminal == {"completed", "failed", "cancelled"}

NoRequest == [content |-> "none", mode |-> "none"]
NoBars == [request |-> NoRequest, derivatives |-> 0]
NoRow == [status |-> "none", hash |-> NoRequest, bars |-> NoBars]
NoJob == 0

(* The hash covers every parameter of the request, the mode included; the  *)
(* data it is computed from is not part of it.                             *)
ContentHashNoMode(r) == [r EXCEPT !.mode = "batch_full_frame"]

ContentHash(r) == r

WorkerStates ==
    {"none", "submitted", "begin", "prepare", "find", "fetch", "reuse",
     "compute", "computing", "features", "finish", "store_frame", "store_result", "persist",
     "returned", "raised"}

Init ==
    /\ started = 0 /\ starting = FALSE /\ request \in RequestChoices
    /\ status = [j \in Jobs |-> "queued"]
    /\ known = {} /\ tasks = {} /\ cancelReq = {} /\ frames = {}
    /\ coro = [j \in Jobs |-> "none"]
    /\ worker = [j \in Jobs |-> "none"]
    /\ source = [j \in Jobs |-> NoJob]
    /\ held = [j \in Jobs |-> NoBars]
    /\ results = [j \in Jobs |-> NoBars]
    /\ sql = [j \in Jobs |-> NoRow]
    /\ permits = MaxConcurrent
    /\ canceller = NoJob /\ deleter = NoJob
    /\ derivatives = 0 /\ restarts = 0

-----------------------------------------------------------------------------
(* Request threads: start, cancel, delete. *)

Ended(js) == {j \in js : status[j] \in Terminal}

(* cleanup_expired: the terminal jobs created before the cutoff. *)
Expired(cutoff) == {j \in Ended(known) : j < cutoff}

(* Mutant: the limit drops the oldest jobs whatever they are doing. *)
OverLimitAny(js) ==
    {j \in js : Cardinality({k \in js : k >= j}) > MaxJobs}

(* _enforce_max_jobs_locked: the oldest terminal jobs, until the dictionary*)
(* fits.                                                                   *)
OverLimit(js) ==
    {j \in Ended(js) :
        Cardinality(js) - Cardinality({k \in Ended(js) : k < j}) > MaxJobs}

(* Drop the jobs in js from the dictionary, the tasks and the results. *)
Forget(js) ==
    /\ tasks' = tasks \ js
    /\ results' = [j \in Jobs |-> IF j \in js THEN NoBars ELSE results[j]]

(* start() first drops the expired jobs... *)
Start ==
    /\ started < NJobs /\ ~starting
    /\ starting' = TRUE
    /\ \E cutoff \in 1..(started + 1) :
          LET expired == Expired(cutoff)
          IN  /\ known' = known \ expired
              /\ frames' = frames \ expired
              /\ Forget(expired)
    /\ UNCHANGED <<eventLoop, pool, database, started, request, status,
                   canceller, deleter, restarts>>

(* ...then creates the task, registers the job and makes room.  Eviction   *)
(* keeps the frame.  The task runs when the loop is free again.            *)
Register ==
    /\ starting
    /\ starting' = FALSE
    /\ LET new     == started + 1
           evicted == OverLimit(known \cup {new})
       IN  /\ started' = new
           /\ known' = (known \cup {new}) \ evicted
           /\ tasks' = (tasks \cup {new}) \ evicted
           /\ results' = [j \in Jobs |->
                             IF j \in evicted THEN NoBars ELSE results[j]]
           /\ coro' = [coro EXCEPT ![new] = "waiting"]
    /\ UNCHANGED <<pool, database, request, status, cancelReq, frames,
                   permits, canceller, deleter, restarts>>

(* cancel() reads the status without the lock and asks the task to stop... *)
CancelRequest(j) ==
    /\ j \in Cancellable /\ canceller = NoJob
    /\ j \in known /\ status[j] \notin Terminal
    /\ cancelReq' = IF j \in tasks THEN cancelReq \cup {j} ELSE cancelReq
    /\ canceller' = j
    /\ UNCHANGED <<memory, pool, database, started, request, starting, status,
                   coro, permits, deleter, restarts>>

(* ...and then writes the status, whatever it has become meanwhile.  *)
CancelWrite ==
    /\ canceller # NoJob
    /\ status' = [status EXCEPT ![canceller] = "cancelled"]
    /\ canceller' = NoJob
    /\ UNCHANGED <<memory, eventLoop, pool, database, started, request,
                   starting, deleter, restarts>>

(* delete_artifact clears the memory under the lock, then the database. *)
DeleteArtifact(j) ==
    /\ deleter = NoJob /\ j <= started
    /\ j \in known \/ results[j] # NoBars \/ sql[j] # NoRow
    /\ deleter' = j
    /\ known' = known \ {j}
    /\ Forget({j})
    /\ frames' = frames \ {j}
    /\ UNCHANGED <<eventLoop, pool, database, started, request, starting,
                   status, canceller, restarts>>

DeleteRow ==
    /\ deleter # NoJob
    /\ sql' = [sql EXCEPT ![deleter] = NoRow]
    /\ deleter' = NoJob
    /\ UNCHANGED <<memory, eventLoop, pool, started, request, starting, status,
                   canceller, derivatives, restarts>>

(* New derivatives data is persisted (fetch_derivatives). *)
FetchDerivatives ==
    /\ derivatives < MaxFetches
    /\ derivatives' = derivatives + 1
    /\ UNCHANGED <<client, memory, eventLoop, pool, status, sql, restarts>>

-----------------------------------------------------------------------------
(* The event loop: async with semaphore, await to_thread, the handlers. *)

(* The semaphore admits the coroutine, which submits _sync_run. *)
Acquire(j) ==
    /\ ~starting /\ coro[j] = "waiting" /\ j \notin cancelReq /\ permits > 0
    /\ permits' = permits - 1
    /\ coro' = [coro EXCEPT ![j] = "awaiting"]
    /\ worker' = [worker EXCEPT ![j] = "submitted"]
    /\ UNCHANGED <<client, memory, database, status, cancelReq, source, held,
                   restarts>>

(* Mutant: leaving the gate releases a permit that was never acquired. *)
CancelledWaitingRelease(j) ==
    /\ ~starting /\ coro[j] = "waiting" /\ j \in cancelReq
    /\ coro' = [coro EXCEPT ![j] = "ended"]
    /\ permits' = permits + 1
    /\ UNCHANGED <<client, memory, pool, database, status, cancelReq, restarts>>

(* Cancelled before it got a permit: run() is never entered. *)
CancelledWaiting(j) ==
    /\ ~starting /\ coro[j] = "waiting" /\ j \in cancelReq
    /\ coro' = [coro EXCEPT ![j] = "ended"]
    /\ UNCHANGED <<client, memory, pool, database, status, cancelReq,
                   permits, restarts>>

(* Mutant: the permit is not given back when the await is cancelled. *)
CancelledAwaitingKeepPermit(j) ==
    /\ ~starting /\ coro[j] = "awaiting" /\ j \in cancelReq
    /\ status' = [status EXCEPT ![j] = "cancelled"]
    /\ coro' = [coro EXCEPT ![j] = "ended"]
    /\ worker' = [worker EXCEPT ![j] = IF @ = "submitted" THEN "none" ELSE @]
    /\ UNCHANGED <<client, memory, database, cancelReq, source, held,
                   permits, restarts>>

(* CancelledError at the await: the status is written, the permit returned;*)
(* a thread that has begun goes on, one still queued in the pool never     *)
(* starts.                                                                 *)
CancelledAwaiting(j) ==
    /\ ~starting /\ coro[j] = "awaiting" /\ j \in cancelReq
    /\ status' = [status EXCEPT ![j] = "cancelled"]
    /\ coro' = [coro EXCEPT ![j] = "ended"]
    /\ worker' = [worker EXCEPT ![j] = IF @ = "submitted" THEN "none" ELSE @]
    /\ permits' = permits + 1
    /\ UNCHANGED <<client, memory, database, cancelReq, source, held,
                   restarts>>

(* Mutants: an exception of the thread is swallowed; the permit is lost    *)
(* with it.                                                                *)
ResumeSwallow(j) ==
    /\ ~starting /\ coro[j] = "awaiting" /\ j \notin cancelReq
    /\ worker[j] \in {"returned", "raised"}
    /\ coro' = [coro EXCEPT ![j] = "ended"]
    /\ permits' = permits + 1
    /\ UNCHANGED <<client, memory, pool, database, status, cancelReq, restarts>>

(* The thread's outcome reaches run(): an exception marks the job failed. *)
Resume(j) ==
    /\ ~starting /\ coro[j] = "awaiting" /\ j \notin cancelReq
    /\ worker[j] \in {"returned", "raised"}
    /\ status' = IF worker[j] = "raised" THEN [status EXCEPT ![j] = "failed"]
                                         ELSE status
    /\ coro' = [coro EXCEPT ![j] = "ended"]
    /\ permits' = permits + 1
    /\ UNCHANGED <<client, memory, pool, database, cancelReq, restarts>>

-----------------------------------------------------------------------------
(* The pool thread: _sync_run. *)

(* One step of the thread that only writes the job's status. *)
WorkerStep(j, from, to, st) ==
    /\ worker[j] = from
    /\ worker' = [worker EXCEPT ![j] = to]
    /\ status' = [status EXCEPT ![j] = st]
    /\ UNCHANGED <<client, memory, eventLoop, database, source, held,
                   restarts>>

(* A pool thread picks the call up. *)
Begin(j) == WorkerStep(j, "submitted", "begin", status[j])

(* _mark: status="running". *)
MarkLoading(j) == WorkerStep(j, "begin", "prepare", "running")

(* No cached bars, a bad definition or mode fail the job; the parser or    *)
(* the database may raise.                                                 *)
Prepare(j) ==
    \/ WorkerStep(j, "prepare", "find", status[j])
    \/ WorkerStep(j, "prepare", "returned", "failed")
    \/ WorkerStep(j, "prepare", "raised", status[j])

(* find_by_hash: only rows stored as completed are offered; the query may  *)
(* raise.                                                                  *)
Matches(j) ==
    {k \in Jobs : /\ sql[k].status = "completed"
                  /\ sql[k].hash = ContentHash(request[j])}

FindByHash(j) ==
    /\ worker[j] = "find"
    /\ \/ \E k \in Matches(j) :
             /\ source' = [source EXCEPT ![j] = k]
             /\ worker' = [worker EXCEPT ![j] = "fetch"]
       \/ /\ Matches(j) = {}
          /\ worker' = [worker EXCEPT ![j] = "compute"]
          /\ UNCHANGED source
       \/ /\ worker' = [worker EXCEPT ![j] = "raised"]
          /\ UNCHANGED source
    /\ UNCHANGED <<client, memory, eventLoop, database, status, held,
                   restarts>>

(* get_artifact_bars: the hot cache, then SQL. *)
ArtifactBars(j) == IF results[j] # NoBars THEN results[j] ELSE sql[j].bars

(* The artifact may have been deleted since it was found; a read that      *)
(* misses the hot cache may raise.                                         *)
FetchBars(j) ==
    /\ worker[j] = "fetch"
    /\ \/ LET bars == ArtifactBars(source[j])
          IN  /\ held' = [held EXCEPT ![j] = bars]
              /\ worker' = [worker EXCEPT
                    ![j] = IF bars = NoBars THEN "compute" ELSE "reuse"]
       \/ /\ results[source[j]] = NoBars
          /\ worker' = [worker EXCEPT ![j] = "raised"]
          /\ UNCHANGED held
    /\ UNCHANGED <<client, memory, eventLoop, database, status, source,
                   restarts>>

(* Reuse: completed first, then the copied bars are stored (no frame). *)
MarkReused(j) == WorkerStep(j, "reuse", "store_result", "completed")

(* The bars calculated for the job's own request.  *)
Computed(j, merged) ==
    held' = [held EXCEPT ![j] = [request |-> request[j],
                                 derivatives |-> merged]]

(* Batch calculation merges the derivatives data there is.  With no        *)
(* indicators to calculate there is no _mark.                              *)
ApplyIndicators(j) ==
    /\ worker[j] = "compute" /\ request[j].mode = "batch_full_frame"
    /\ status' \in {[status EXCEPT ![j] = "running"], status}
    /\ Computed(j, derivatives)
    /\ worker' = [worker EXCEPT ![j] = "computing"]
    /\ UNCHANGED <<client, memory, eventLoop, database, source, restarts>>

(* The causal enricher merges none. *)
ApplyCausalEnrichment(j) ==
    /\ worker[j] = "compute" /\ request[j].mode = "live_parity_streaming"
    /\ status' = [status EXCEPT ![j] = "running"]
    /\ Computed(j, 0)
    /\ worker' = [worker EXCEPT ![j] = "computing"]
    /\ UNCHANGED <<client, memory, eventLoop, database, source, restarts>>

(* The calculation fails, raises or ends; only the causal one marks its end.*)
EndCalculation(j) ==
    \/ WorkerStep(j, "computing", "returned", "failed")
    \/ WorkerStep(j, "computing", "raised", status[j])
    \/ WorkerStep(j, "computing", "features",
                  IF request[j].mode = "live_parity_streaming"
                  THEN "running" ELSE status[j])

(* A strategy with features is marked running once more. *)
ApplyFeatures(j) ==
    \/ WorkerStep(j, "features", "finish", "running")
    \/ WorkerStep(j, "features", "finish", status[j])

(* The features fail, or the job is marked completed before anything has   *)
(* been stored.                                                            *)
Finish(j) ==
    \/ WorkerStep(j, "finish", "returned", "failed")
    \/ WorkerStep(j, "finish", "store_frame", "completed")

StoreFrame(j) ==
    /\ worker[j] = "store_frame"
    /\ \/ /\ frames' = frames \cup {j}
          /\ worker' = [worker EXCEPT ![j] = "store_result"]
       \/ /\ worker' = [worker EXCEPT ![j] = "raised"]
          /\ UNCHANGED frames
    /\ UNCHANGED <<client, eventLoop, database, status, known, tasks, source,
                   held, results, restarts>>

StoreResult(j) ==
    /\ worker[j] = "store_result"
    /\ results' = [results EXCEPT ![j] = held[j]]
    /\ worker' = [worker EXCEPT ![j] = "persist"]
    /\ UNCHANGED <<client, eventLoop, database, status, known, tasks, source,
                   held, frames, restarts>>

(* The row takes the status the job has now; the transaction may fail. *)
Persist(j) ==
    /\ worker[j] = "persist"
    /\ \/ /\ sql' = [sql EXCEPT ![j] =
                        [status |-> status[j], bars |-> held[j],
                         hash |-> ContentHash(request[j])]]
          /\ worker' = [worker EXCEPT ![j] = "returned"]
       \/ /\ worker' = [worker EXCEPT ![j] = "raised"]
          /\ UNCHANGED sql
    /\ UNCHANGED <<client, memory, eventLoop, status, source, held,
                   derivatives, restarts>>

-----------------------------------------------------------------------------

(* The process dies and comes back: only the database survives. *)
Restart ==
    /\ restarts < MaxRestarts
    /\ restarts' = restarts + 1
    /\ known' = {} /\ tasks' = {} /\ frames' = {} /\ cancelReq' = {}
    /\ results' = [j \in Jobs |-> NoBars]
    /\ coro' = [j \in Jobs |-> IF coro[j] = "none" THEN "none" ELSE "ended"]
    /\ worker' = [j \in Jobs |-> "none"]
    /\ permits' = MaxConcurrent
    /\ canceller' = NoJob /\ deleter' = NoJob /\ starting' = FALSE
    /\ UNCHANGED <<database, started, request, status, source, held>>

Loop(j) == Acquire(j) \/ CancelledWaiting(j) \/ CancelledAwaiting(j) \/ Resume(j)

Work(j) ==
    \/ Begin(j) \/ MarkLoading(j) \/ Prepare(j) \/ FindByHash(j)
    \/ FetchBars(j) \/ MarkReused(j) \/ ApplyIndicators(j)
    \/ ApplyCausalEnrichment(j) \/ EndCalculation(j) \/ ApplyFeatures(j)
    \/ Finish(j) \/ StoreFrame(j) \/ StoreResult(j) \/ Persist(j)

Next ==
    \/ Start \/ Register \/ CancelWrite \/ DeleteRow \/ FetchDerivatives
    \/ Restart
    \/ \E j \in Jobs :
          CancelRequest(j) \/ DeleteArtifact(j) \/ Loop(j) \/ Work(j)

Spec == Init /\ [][Next]_vars

(* The event loop and the threads keep running; users need do nothing. *)
FairSpec ==
    /\ Spec
    /\ WF_vars(Register) /\ WF_vars(CancelWrite) /\ WF_vars(DeleteRow)
    /\ \A j \in Jobs : SF_vars(Acquire(j)) /\ WF_vars(Loop(j)) /\ WF_vars(Work(j))

-----------------------------------------------------------------------------
(* What a client sees: manager.get falls back to the persisted row, which  *)
(* carries no metadata and therefore no enrichment mode.                   *)

Found(j) == j \in known \/ sql[j] # NoRow
ViewStatus(j) == IF j \in known THEN status[j] ELSE sql[j].status
ViewMode(j) == IF j \in known THEN request[j].mode ELSE "none"

(* _artifact_bars of the backtest use case accepts the artifact. *)
BacktestAccepts(j, mode) ==
    /\ Found(j)
    /\ ViewStatus(j) = "completed"
    /\ mode = "live_parity_streaming" => ViewMode(j) = mode
    /\ ArtifactBars(j) # NoBars

-----------------------------------------------------------------------------
Rows == [status : Statuses \cup {"none"}, hash : Requests \cup {NoRequest},
         bars : Bars \cup {NoBars}]

(* The variables keep their types. *)
TypeOK ==
    /\ started \in 0..NJobs /\ starting \in BOOLEAN
    /\ starting => started < NJobs
    /\ request \in [Jobs -> Requests]
    /\ status \in [Jobs -> Statuses]
    /\ known \subseteq 1..started /\ tasks \subseteq 1..started
    /\ coro \in [Jobs -> {"none", "waiting", "awaiting", "ended"}]
    /\ cancelReq \subseteq 1..started
    /\ worker \in [Jobs -> WorkerStates]
    /\ source \in [Jobs -> Jobs \cup {NoJob}]
    /\ held \in [Jobs -> Bars \cup {NoBars}]
    /\ results \in [Jobs -> Bars \cup {NoBars}]
    /\ frames \subseteq Jobs
    /\ sql \in [Jobs -> Rows]
    /\ permits \in 0..MaxConcurrent
    /\ canceller \in Jobs \cup {NoJob}
    /\ deleter \in Jobs \cup {NoJob}
    /\ derivatives \in 0..MaxFetches /\ restarts \in 0..MaxRestarts

(* Every permit that is out is held by exactly one coroutine that awaits   *)
(* its thread: cancellation at any moment neither leaks nor forges one.    *)
PermitsAccounted ==
    permits + Cardinality({j \in Jobs : coro[j] = "awaiting"}) = MaxConcurrent

(* Whatever chain of reuse, deletion, cancellation and restart led to it,  *)
(* the bars stored for a job are bars of exactly its request; so a causal  *)
(* (live parity) backtest is never handed bars enriched in batch mode.     *)
ArtifactsMatchRequest ==
    /\ \A j \in Jobs : results[j] # NoBars => results[j].request = request[j]
    /\ \A j \in Jobs : sql[j] # NoRow => sql[j].bars.request = request[j]
    /\ \A j \in Jobs : BacktestAccepts(j, "live_parity_streaming") =>
          ArtifactBars(j).request.mode = "live_parity_streaming"

(* Persisted artifacts are durable until deleted: no other step, expiry,   *)
(* eviction, a second job with the same hash or a restart, removes or      *)
(* rewrites a row.                                                         *)
DurableUntilDeleted ==
    [][ \A j \in Jobs : sql[j] # NoRow /\ sql'[j] # sql[j] =>
          deleter = j /\ sql'[j] = NoRow ]_vars

(* Making room never forgets a job that is still queued or running.        *)
LiveJobsKept ==
    [][ \A j \in known \ known' :
          status[j] \in Terminal \/ deleter' = j \/ restarts' > restarts ]_vars

(* Both: no step loses a persisted artifact or a job that is still live.   *)
NothingLost == DurableUntilDeleted /\ LiveJobsKept

(* A job that nobody cancels settles, whatever is cancelled, deleted or    *)
(* evicted beside it, unless it is deleted or the process restarts.        *)
JobsSettle ==
    \A j \in Jobs \ Cancellable : coro[j] = "waiting" ~>
        (status[j] \in Terminal \/ j \notin known)

(* If it reports completed it becomes readable, or its storage error is    *)
(* reported as a failure.                                                  *)
CompletedBecomesReadable ==
    \A j \in Jobs \ Cancellable : (j \in known /\ status[j] = "completed") ~>
        (j \notin known \/ status[j] = "failed" \/ ArtifactBars(j) # NoBars)

(* Both: a started job settles, and what settles as completed can be read. *)
JobsLive == JobsSettle /\ CompletedBecomesReadable

=============================================================================
