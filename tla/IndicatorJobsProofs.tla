------------------------- MODULE IndicatorJobsProofs -------------------------
(***************************************************************************)
(* Proofs about IndicatorJobs, for every number of jobs, every request and *)
(* every limit.  None of the safety properties is inductive by itself:     *)
(*                                                                         *)
(*   - that a permit is neither leaked nor forged needs that a job gets    *)
(*     its coroutine only once (Ordered);                                  *)
(*   - that stored bars are bars of the job's own request needs to know    *)
(*     what a thread carries between its steps: the artifact it found by   *)
(*     hash (Carried) may have been deleted or overwritten meanwhile;      *)
(*   - that a row is never rewritten needs that a thread which has not     *)
(*     stored yet has no row (Ordered).                                    *)
(***************************************************************************)
EXTENDS IndicatorJobs, FiniteSetTheorems, TLAPS

-----------------------------------------------------------------------------
(* The inductive invariant. *)

(* The thread still has its row to write. *)
Busy == WorkerStates \ {"none", "returned", "raised"}

(* The thread holds the bars it is going to store. *)
Holding == {"reuse", "computing", "features", "finish", "store_frame",
            "store_result", "persist"}

(* A coroutine is created once and its thread is submitted once: before    *)
(* that nothing of the job exists, and until the thread has stored there   *)
(* is no row.                                                              *)
Ordered ==
    \A j \in Jobs :
        /\ j > started => coro[j] = "none"
        /\ coro[j] \in {"none", "waiting"} => worker[j] = "none" /\ sql[j] = NoRow
        /\ worker[j] \in Busy => sql[j] = NoRow

(* What a thread carries is of its own request, whatever happens to the    *)
(* artifact it was taken from.                                             *)
Carried ==
    \A j \in Jobs :
        /\ worker[j] = "fetch" =>
              source[j] \in Jobs /\ request[source[j]] = request[j]
        /\ worker[j] \in Holding =>
              held[j] \in Bars /\ held[j].request = request[j]

(* So is what has been stored. *)
Stored ==
    \A j \in Jobs :
        /\ results[j] # NoBars => results[j].request = request[j]
        /\ sql[j] # NoRow => /\ sql[j].hash = request[j]
                             /\ sql[j].bars \in Bars
                             /\ sql[j].bars.request = request[j]

IInv == TypeOK /\ PermitsAccounted /\ Ordered /\ Carried /\ Stored

Awaiting == {j \in Jobs : coro[j] = "awaiting"}

-----------------------------------------------------------------------------
(* The jobs, and those that hold a permit, are finitely many. *)
LEMMA AwaitingFinite == IsFiniteSet(Jobs) /\ IsFiniteSet(Awaiting)
  <1>1. IsFiniteSet(Jobs)
    BY JobsAssumption, FS_Interval DEF Jobs
  <1>2. Awaiting \in SUBSET Jobs
    BY DEF Awaiting
  <1> QED
    BY <1>1, <1>2, FS_Subset

(* NoBars and NoRequest stand for something that is not there. *)
LEMMA NothingIsNoBars ==
    /\ NoRequest \notin Requests
    /\ NoBars \notin Bars
    /\ NoBars \in Bars \cup {NoBars}
    /\ NoRow \in Rows
    /\ NoRow.status = "none" /\ NoRow.bars = NoBars
  BY DEF NoRequest, NoBars, NoRow, Requests, Bars, Modes, Rows

(* An empty manager, with all its permits, satisfies the invariant. *)
LEMMA InitIInv == Init => IInv
  <1> SUFFICES ASSUME Init PROVE IInv
    OBVIOUS
  <1> USE JobsAssumption DEF Init
  <1>1. TypeOK
    <2>1. /\ started \in 0..NJobs /\ permits \in 0..MaxConcurrent
          /\ derivatives \in 0..MaxFetches /\ restarts \in 0..MaxRestarts
      OBVIOUS
    <2>2. /\ starting \in BOOLEAN /\ (starting => started < NJobs)
          /\ known \subseteq 1..started /\ tasks \subseteq 1..started
          /\ cancelReq \subseteq 1..started /\ frames \subseteq Jobs
          /\ canceller \in Jobs \cup {NoJob} /\ deleter \in Jobs \cup {NoJob}
      OBVIOUS
    <2>3. /\ status \in [Jobs -> Statuses]
          /\ coro \in [Jobs -> {"none", "waiting", "awaiting", "ended"}]
          /\ worker \in [Jobs -> WorkerStates]
          /\ source \in [Jobs -> Jobs \cup {NoJob}]
      BY DEF Statuses, WorkerStates
    <2>4. /\ held \in [Jobs -> Bars \cup {NoBars}]
          /\ results \in [Jobs -> Bars \cup {NoBars}]
          /\ sql \in [Jobs -> Rows]
      BY NothingIsNoBars
    <2> QED
      BY <2>1, <2>2, <2>3, <2>4 DEF TypeOK
  <1>2. Awaiting = {}
    BY DEF Awaiting
  <1>3. PermitsAccounted
    BY <1>2, FS_EmptySet DEF PermitsAccounted, Awaiting
  <1>4. Ordered /\ Carried /\ Stored
    BY DEF Ordered, Carried, Stored, Busy, Holding
  <1> QED
    BY <1>1, <1>3, <1>4 DEF IInv

-----------------------------------------------------------------------------
(* Permits.  A step that leaves the coroutines alone leaves the permits    *)
(* alone; one that admits a job takes one, one that ends an admitted job   *)
(* gives it back.                                                          *)
LEMMA PermitsKept ==
    ASSUME IInv, UNCHANGED <<coro, permits>>
    PROVE  PermitsAccounted'
  BY DEF IInv, PermitsAccounted

(* The semaphore hands a permit to a coroutine that did not hold one. *)
LEMMA PermitTaken ==
    ASSUME IInv, NEW j \in Jobs, coro[j] # "awaiting", permits > 0,
           permits' = permits - 1, coro' = [coro EXCEPT ![j] = "awaiting"]
    PROVE  PermitsAccounted' /\ permits' \in 0..MaxConcurrent
  <1>1. coro \in [Jobs -> {"none", "waiting", "awaiting", "ended"}]
    BY DEF IInv, TypeOK
  <1>2. Awaiting' = Awaiting \cup {j} /\ j \notin Awaiting
    BY <1>1 DEF Awaiting
  <1>3. Cardinality(Awaiting') = Cardinality(Awaiting) + 1
        /\ Cardinality(Awaiting) \in Nat
    BY <1>2, AwaitingFinite, FS_AddElement, FS_CardinalityType
  <1>4. permits \in 0..MaxConcurrent /\ MaxConcurrent \in Nat
        /\ permits + Cardinality(Awaiting) = MaxConcurrent
    BY JobsAssumption DEF IInv, TypeOK, PermitsAccounted, Awaiting
  <1>5. permits' + Cardinality(Awaiting') = MaxConcurrent
        /\ permits' \in 0..MaxConcurrent
    BY <1>3, <1>4
  <1> QED
    BY <1>5 DEF PermitsAccounted, Awaiting

(* The end of a gated coroutine gives back the permit it held. *)
LEMMA PermitReturned ==
    ASSUME IInv, NEW j \in Jobs, coro[j] = "awaiting",
           permits' = permits + 1, coro' = [coro EXCEPT ![j] = "ended"]
    PROVE  PermitsAccounted' /\ permits' \in 0..MaxConcurrent
  <1>1. coro \in [Jobs -> {"none", "waiting", "awaiting", "ended"}]
    BY DEF IInv, TypeOK
  <1>2. Awaiting' = Awaiting \ {j} /\ j \in Awaiting
    BY <1>1 DEF Awaiting
  <1>3. Cardinality(Awaiting') = Cardinality(Awaiting) - 1
        /\ Cardinality(Awaiting') \in Nat /\ Cardinality(Awaiting) \in Nat
    <2>1. IsFiniteSet(Awaiting')
      BY <1>2, AwaitingFinite, FS_RemoveElement
    <2> QED
      BY <2>1, <1>2, AwaitingFinite, FS_RemoveElement, FS_CardinalityType
  <1>4. permits \in 0..MaxConcurrent /\ MaxConcurrent \in Nat
        /\ permits + Cardinality(Awaiting) = MaxConcurrent
    BY JobsAssumption DEF IInv, TypeOK, PermitsAccounted, Awaiting
  <1>5. permits' + Cardinality(Awaiting') = MaxConcurrent
        /\ permits' \in 0..MaxConcurrent
    BY <1>3, <1>4
  <1> QED
    BY <1>5 DEF PermitsAccounted, Awaiting

(* A change from one state to another, neither of them awaiting. *)
LEMMA PermitsUntouched ==
    ASSUME IInv, NEW j \in Jobs, NEW c \in {"waiting", "ended"},
           coro[j] # "awaiting", UNCHANGED permits,
           coro' = [coro EXCEPT ![j] = c]
    PROVE  PermitsAccounted'
  <1>1. coro \in [Jobs -> {"none", "waiting", "awaiting", "ended"}]
    BY DEF IInv, TypeOK
  <1>2. Awaiting' = Awaiting
    BY <1>1 DEF Awaiting
  <1> QED
    BY <1>2 DEF IInv, PermitsAccounted, Awaiting

-----------------------------------------------------------------------------
(* Steps of the request threads. *)

(* Bars that are dropped are NoBars, the others stay: what is in memory is *)
(* still of the job's own request.                                         *)
LEMMA Dropped ==
    ASSUME IInv, NEW js,
           results' = [j \in Jobs |-> IF j \in js THEN NoBars ELSE results[j]]
    PROVE  /\ results' \in [Jobs -> Bars \cup {NoBars}]
           /\ \A j \in Jobs : results'[j] # NoBars =>
                 results'[j].request = request[j]
  BY DEF IInv, TypeOK, Stored

(* start() expires old jobs and creates a task: no permit moves, no artifact changes. *)
LEMMA StartIInv == IInv /\ Start => IInv'
  <1> SUFFICES ASSUME IInv, Start PROVE IInv'
    OBVIOUS
  <1>1. PICK cutoff \in 1..(started + 1) :
           /\ known' = known \ Expired(cutoff)
           /\ frames' = frames \ Expired(cutoff)
           /\ Forget(Expired(cutoff))
    BY DEF Start
  <1>2. /\ UNCHANGED <<coro, cancelReq, permits, worker, source, held, sql,
                        derivatives, started, request, status, canceller, deleter,
                        restarts>>
        /\ starting' = TRUE /\ started < NJobs
    BY DEF Start, eventLoop, pool, database
  <1>3. /\ tasks' = tasks \ Expired(cutoff)
        /\ results' \in [Jobs -> Bars \cup {NoBars}]
        /\ \A j \in Jobs : results'[j] # NoBars =>
              results'[j].request = request[j]
    BY <1>1, Dropped DEF Forget
  <1>4. TypeOK'
    BY <1>1, <1>2, <1>3 DEF IInv, TypeOK
  <1>5. PermitsAccounted'
    BY <1>2, PermitsKept
  <1>6. Ordered' /\ Carried' /\ Stored'
    BY <1>2, <1>3 DEF IInv, Ordered, Carried, Stored
  <1> QED
    BY <1>4, <1>5, <1>6 DEF IInv

(* Registration may evict a job, and with it the bars and the result in memory. *)
LEMMA RegisterIInv == IInv /\ Register => IInv'
  <1> SUFFICES ASSUME IInv, Register PROVE IInv'
    OBVIOUS
  <1> DEFINE new == started + 1
             evicted == OverLimit(known \cup {new})
  <1>1. /\ UNCHANGED <<request, worker, source, held, sql, derivatives, status,
                        cancelReq, frames, permits, canceller, deleter,
                        restarts>>
        /\ starting /\ starting' = FALSE /\ started' = new
        /\ known' = (known \cup {new}) \ evicted
        /\ tasks' = (tasks \cup {new}) \ evicted
        /\ results' = [j \in Jobs |->
                          IF j \in evicted THEN NoBars ELSE results[j]]
        /\ coro' = [coro EXCEPT ![new] = "waiting"]
    BY DEF Register, pool, database
  <1> HIDE DEF evicted
  <1>2. started \in 0..NJobs /\ started < NJobs /\ NJobs \in Nat
    BY <1>1, JobsAssumption DEF IInv, TypeOK
  <1>3. /\ new \in Jobs /\ new > started /\ new \in 0..NJobs
        /\ 1..new = (1..started) \cup {new}
    BY <1>2 DEF Jobs
  <1>4. coro[new] = "none" /\ worker[new] = "none" /\ sql[new] = NoRow
    BY <1>3 DEF IInv, Ordered
  <1>5. /\ results' \in [Jobs -> Bars \cup {NoBars}]
        /\ \A j \in Jobs : results'[j] # NoBars =>
              results'[j].request = request[j]
    BY <1>1, Dropped
  <1>6. TypeOK'
    <2>1. /\ known' \subseteq 1..started' /\ tasks' \subseteq 1..started'
          /\ cancelReq' \subseteq 1..started' /\ started' \in 0..NJobs
      BY <1>1, <1>3 DEF IInv, TypeOK
    <2>2. coro' \in [Jobs -> {"none", "waiting", "awaiting", "ended"}]
      BY <1>1, <1>3 DEF IInv, TypeOK
    <2> QED
      BY <1>1, <1>5, <2>1, <2>2 DEF IInv, TypeOK
  <1>7. PermitsAccounted'
    BY <1>1, <1>3, <1>4, PermitsUntouched
  <1>8. Ordered'
    <2> SUFFICES ASSUME NEW j \in Jobs
                 PROVE  /\ j > started' => coro'[j] = "none"
                        /\ coro'[j] \in {"none", "waiting"} =>
                              worker[j] = "none" /\ sql[j] = NoRow
                        /\ worker[j] \in Busy => sql[j] = NoRow
      BY <1>1 DEF Ordered
    <2>1. coro'[j] = IF j = new THEN "waiting" ELSE coro[j]
      BY <1>1 DEF IInv, TypeOK
    <2>2. j > started' => j # new /\ j > started
      BY <1>1, <1>2 DEF Jobs
    <2> QED
      BY <1>4, <2>1, <2>2 DEF IInv, Ordered
  <1>9. Carried' /\ Stored'
    BY <1>1, <1>5 DEF IInv, Carried, Stored
  <1> QED
    BY <1>6, <1>7, <1>8, <1>9 DEF IInv

(* Neither half of cancel() moves a permit or touches what is stored. *)
LEMMA CancelIInv ==
    ASSUME IInv, CancelWrite \/ \E j \in Jobs : CancelRequest(j)
    PROVE  IInv'
  <1>1. /\ UNCHANGED <<known, tasks, results, frames, coro, permits, worker,
                        source, held, sql, derivatives, started, request, starting,
                        deleter, restarts>>
    BY DEF CancelWrite, CancelRequest, memory, eventLoop, pool, database
  <1>2. /\ cancelReq' \subseteq 1..started /\ canceller' \in Jobs \cup {NoJob}
        /\ status' \in [Jobs -> Statuses]
    <2>1. CASE CancelWrite
      BY <2>1 DEF IInv, TypeOK, CancelWrite, Statuses, eventLoop
    <2>2. CASE \E j \in Jobs : CancelRequest(j)
      BY <2>2 DEF IInv, TypeOK, CancelRequest
    <2> QED
      BY <2>1, <2>2
  <1>3. TypeOK'
    BY <1>1, <1>2 DEF IInv, TypeOK
  <1>4. PermitsAccounted'
    BY <1>1, PermitsKept
  <1>5. Ordered' /\ Carried' /\ Stored'
    BY <1>1 DEF IInv, Ordered, Carried, Stored
  <1> QED
    BY <1>3, <1>4, <1>5 DEF IInv

(* The deletion from memory leaves the row to be deleted next. *)
LEMMA DeleteArtifactIInv ==
    ASSUME IInv, NEW j \in Jobs, DeleteArtifact(j)
    PROVE  IInv'
  <1>1. /\ UNCHANGED <<coro, cancelReq, permits, worker, source, held, sql,
                        derivatives, started, request, starting, status, canceller,
                        restarts>>
        /\ deleter' = j /\ known' = known \ {j} /\ frames' = frames \ {j}
        /\ tasks' = tasks \ {j}
    BY DEF DeleteArtifact, Forget, eventLoop, pool, database
  <1>2. /\ results' \in [Jobs -> Bars \cup {NoBars}]
        /\ \A k \in Jobs : results'[k] # NoBars =>
              results'[k].request = request[k]
    <2>1. results' = [k \in Jobs |-> IF k \in {j} THEN NoBars ELSE results[k]]
      BY DEF DeleteArtifact, Forget
    <2> QED
      BY <2>1, Dropped
  <1>3. TypeOK'
    BY <1>1, <1>2 DEF IInv, TypeOK
  <1>4. PermitsAccounted'
    BY <1>1, PermitsKept
  <1>5. Ordered' /\ Carried' /\ Stored'
    BY <1>1, <1>2 DEF IInv, Ordered, Carried, Stored
  <1> QED
    BY <1>3, <1>4, <1>5 DEF IInv

(* The row that goes is the row of the job being deleted; a thread that    *)
(* has found the artifact and not read it yet keeps only its number.       *)
LEMMA DeleteRowIInv == IInv /\ DeleteRow => IInv'
  <1> SUFFICES ASSUME IInv, DeleteRow PROVE IInv'
    OBVIOUS
  <1>1. /\ UNCHANGED <<known, tasks, results, frames, coro, cancelReq, permits,
                        worker, source, held, started, request, starting, status,
                        canceller, derivatives, restarts>>
        /\ deleter \in Jobs /\ deleter' = NoJob
        /\ sql' = [sql EXCEPT ![deleter] = NoRow]
    BY DEF DeleteRow, memory, eventLoop, pool, IInv, TypeOK
  <1>2. /\ sql' \in [Jobs -> Rows]
        /\ \A j \in Jobs : sql'[j] = NoRow \/ sql'[j] = sql[j]
    BY <1>1, NothingIsNoBars DEF IInv, TypeOK
  <1>3. TypeOK'
    BY <1>1, <1>2 DEF IInv, TypeOK
  <1>4. PermitsAccounted'
    BY <1>1, PermitsKept
  <1>5. Ordered' /\ Carried' /\ Stored'
    BY <1>1, <1>2 DEF IInv, Ordered, Carried, Stored
  <1> QED
    BY <1>3, <1>4, <1>5 DEF IInv

(* New derivatives data is a new version; what older jobs computed stays what it was. *)
LEMMA FetchDerivativesIInv == IInv /\ FetchDerivatives => IInv'
  <1> SUFFICES ASSUME IInv, FetchDerivatives PROVE IInv'
    OBVIOUS
  <1>1. /\ UNCHANGED <<started, request, starting, canceller, deleter, known, tasks,
                        results, frames, coro, cancelReq, permits, worker,
                        source, held, status, sql, restarts>>
        /\ derivatives' \in 0..MaxFetches
    BY JobsAssumption DEF FetchDerivatives, client, memory, eventLoop, pool,
                          IInv, TypeOK
  <1>2. TypeOK'
    BY <1>1 DEF IInv, TypeOK
  <1>3. PermitsAccounted' /\ Ordered' /\ Carried' /\ Stored'
    BY <1>1, PermitsKept DEF IInv, Ordered, Carried, Stored
  <1> QED
    BY <1>2, <1>3 DEF IInv

(* A restart forgets every permit together with the coroutines that held   *)
(* them, and every thread together with what it carried.                   *)
LEMMA RestartIInv == IInv /\ Restart => IInv'
  <1> SUFFICES ASSUME IInv, Restart PROVE IInv'
    OBVIOUS
  <1> USE DEF Restart, database
  <1>1. TypeOK'
    <2>1. /\ restarts' \in 0..MaxRestarts /\ permits' \in 0..MaxConcurrent
      BY JobsAssumption DEF IInv, TypeOK
    <2>2. /\ coro' \in [Jobs -> {"none", "waiting", "awaiting", "ended"}]
          /\ worker' \in [Jobs -> WorkerStates]
      BY DEF WorkerStates
    <2>3. results' \in [Jobs -> Bars \cup {NoBars}]
      OBVIOUS
    <2> QED
      BY <2>1, <2>2, <2>3 DEF IInv, TypeOK
  <1>2. PermitsAccounted'
    <2>1. Awaiting' = {}
      BY DEF Awaiting
    <2> QED
      BY <2>1, JobsAssumption, FS_EmptySet DEF PermitsAccounted, Awaiting
  <1>3. Ordered' /\ Carried' /\ Stored'
    BY DEF IInv, Ordered, Carried, Stored, Busy, Holding
  <1> QED
    BY <1>1, <1>2, <1>3 DEF IInv
-----------------------------------------------------------------------------
(* Steps of the event loop. *)

(* A coroutine is admitted once, so its thread has no row to overwrite.    *)
LEMMA AcquireIInv ==
    ASSUME IInv, NEW j \in Jobs, Acquire(j)
    PROVE  IInv'
  <1>1. /\ UNCHANGED <<started, request, starting, canceller, deleter, known, tasks,
                        results, frames, sql, derivatives, status, cancelReq,
                        source, held, restarts>>
        /\ coro[j] = "waiting" /\ permits > 0 /\ permits' = permits - 1
        /\ coro' = [coro EXCEPT ![j] = "awaiting"]
        /\ worker' = [worker EXCEPT ![j] = "submitted"]
    BY DEF Acquire, client, memory, database
  <1>2. PermitsAccounted' /\ permits' \in 0..MaxConcurrent
    BY <1>1, PermitTaken
  <1>3. /\ coro' \in [Jobs -> {"none", "waiting", "awaiting", "ended"}]
        /\ worker' \in [Jobs -> WorkerStates]
    BY <1>1 DEF IInv, TypeOK, WorkerStates
  <1>4. TypeOK'
    BY <1>1, <1>2, <1>3 DEF IInv, TypeOK
  <1>5. j <= started /\ sql[j] = NoRow
    BY <1>1 DEF IInv, TypeOK, Ordered, Jobs
  <1>6. Ordered'
    BY <1>1, <1>5 DEF IInv, TypeOK, Ordered
  <1>7. Carried' /\ Stored'
    BY <1>1 DEF IInv, TypeOK, Carried, Stored, Holding
  <1> QED
    BY <1>2, <1>4, <1>6, <1>7 DEF IInv

(* A coroutine cancelled while it waits never had a permit to return. *)
LEMMA CancelledWaitingIInv ==
    ASSUME IInv, NEW j \in Jobs, CancelledWaiting(j)
    PROVE  IInv'
  <1>1. /\ UNCHANGED <<started, request, starting, canceller, deleter, known, tasks,
                        results, frames, sql, derivatives, status, cancelReq,
                        worker, source, held, permits, restarts>>
        /\ coro[j] = "waiting" /\ coro' = [coro EXCEPT ![j] = "ended"]
    BY DEF CancelledWaiting, client, memory, database, pool
  <1>2. PermitsAccounted'
    BY <1>1, PermitsUntouched
  <1>3. TypeOK'
    BY <1>1 DEF IInv, TypeOK
  <1>4. Ordered'
    <2>1. ~(j > started)
      BY <1>1 DEF IInv, Ordered
    <2> QED
      BY <1>1, <2>1 DEF IInv, TypeOK, Ordered
  <1>5. Carried' /\ Stored'
    BY <1>1 DEF IInv, Carried, Stored
  <1> QED
    BY <1>2, <1>3, <1>4, <1>5 DEF IInv

(* The permit goes back exactly once, however the await ends; the thread   *)
(* of a cancelled job may go on, still without a row.                      *)
LEMMA AwaitEndsIInv ==
    ASSUME IInv, NEW j \in Jobs, CancelledAwaiting(j) \/ Resume(j)
    PROVE  IInv'
  <1>1. /\ UNCHANGED <<started, request, starting, canceller, deleter, known, tasks,
                        results, frames, sql, derivatives, cancelReq,
                        source, held, restarts>>
        /\ coro[j] = "awaiting" /\ coro' = [coro EXCEPT ![j] = "ended"]
        /\ permits' = permits + 1
    BY DEF CancelledAwaiting, Resume, client, memory, database, pool
  <1>2. /\ status' \in [Jobs -> Statuses]
        /\ worker' \in [Jobs -> WorkerStates]
        /\ \A k \in Jobs : worker'[k] \in {worker[k], "none"}
    <2>1. CASE CancelledAwaiting(j)
      BY <2>1 DEF CancelledAwaiting, IInv, TypeOK, Statuses, WorkerStates
    <2>2. CASE Resume(j)
      BY <2>2 DEF Resume, pool, IInv, TypeOK, Statuses
    <2> QED
      BY <2>1, <2>2
  <1>3. PermitsAccounted' /\ permits' \in 0..MaxConcurrent
    BY <1>1, PermitReturned
  <1>4. TypeOK'
    BY <1>1, <1>2, <1>3 DEF IInv, TypeOK
  <1>5. Ordered'
    <2>1. ~(j > started)
      BY <1>1 DEF IInv, Ordered
    <2>2. \A k \in Jobs : coro'[k] = IF k = j THEN "ended" ELSE coro[k]
      BY <1>1 DEF IInv, TypeOK
    <2>3. \A k \in Jobs : worker'[k] \in Busy => worker[k] \in Busy
      BY <1>2 DEF Busy
    <2>4. \A k \in Jobs : worker[k] = "none" => worker'[k] = "none"
      BY <1>2
    <2> QED
      BY <1>1, <2>1, <2>2, <2>3, <2>4 DEF IInv, Ordered
  <1>6. Carried' /\ Stored'
    <2>1. \A k \in Jobs : /\ worker'[k] \in Holding => worker[k] \in Holding
                          /\ worker'[k] = "fetch" => worker[k] = "fetch"
      BY <1>2 DEF Holding
    <2> QED
      BY <1>1, <2>1 DEF IInv, Carried, Stored
  <1> QED
    BY <1>3, <1>4, <1>5, <1>6 DEF IInv

-----------------------------------------------------------------------------
(* Steps of the pool thread.  Each moves the thread of one job on; what it *)
(* writes is of that job's request.                                        *)

(* A thread that moves between states with a row still to write stays      *)
(* Ordered.                                                                *)
LEMMA WorkerOrdered ==
    ASSUME IInv, NEW j \in Jobs, NEW to \in WorkerStates,
           worker[j] \in Busy, worker' = [worker EXCEPT ![j] = to],
           UNCHANGED <<started, coro, sql>>
    PROVE  Ordered' /\ worker' \in [Jobs -> WorkerStates]
  <1>1. /\ sql[j] = NoRow /\ coro[j] \notin {"none", "waiting"}
        /\ worker' \in [Jobs -> WorkerStates]
    BY DEF IInv, TypeOK, Ordered, Busy
  <1>2. \A k \in Jobs : worker'[k] = IF k = j THEN to ELSE worker[k]
    BY DEF IInv, TypeOK
  <1> QED
    BY <1>1, <1>2 DEF IInv, Ordered

(* Steps that only write the status: what the thread carries is as it was. *)
LEMMA WorkerStepIInv ==
    ASSUME IInv, NEW j \in Jobs, NEW from \in Busy, NEW to \in WorkerStates,
           NEW st \in Statuses, WorkerStep(j, from, to, st),
           to # "fetch", to \in Holding => from \in Holding
    PROVE  IInv'
  <1>1. /\ UNCHANGED <<started, request, starting, canceller, deleter, known, tasks,
                        results, frames, coro, cancelReq, permits, sql,
                        derivatives, source, held, restarts>>
        /\ worker[j] = from /\ worker' = [worker EXCEPT ![j] = to]
        /\ status' = [status EXCEPT ![j] = st]
    BY DEF WorkerStep, client, memory, eventLoop, database
  <1>2. Ordered' /\ worker' \in [Jobs -> WorkerStates]
    BY <1>1, WorkerOrdered
  <1>3. TypeOK'
    BY <1>1, <1>2 DEF IInv, TypeOK
  <1>4. \A k \in Jobs : worker'[k] = IF k = j THEN to ELSE worker[k]
    BY <1>1 DEF IInv, TypeOK
  <1>5. Carried' /\ Stored' /\ PermitsAccounted'
    BY <1>1, <1>4, PermitsKept DEF IInv, Carried, Stored
  <1> QED
    BY <1>2, <1>3, <1>5 DEF IInv

(* The steps of the thread that only mark the job or move on to the next stage. *)
LEMMA MarksIInv ==
    ASSUME IInv, NEW j \in Jobs,
           \/ Begin(j) \/ MarkLoading(j) \/ Prepare(j) \/ MarkReused(j)
           \/ EndCalculation(j) \/ ApplyFeatures(j) \/ Finish(j)
    PROVE  IInv'
  <1>1. status[j] \in Statuses /\ {"running", "completed", "failed"} \subseteq Statuses
    BY DEF IInv, TypeOK, Statuses
  <1>2. PICK from \in Busy, to \in WorkerStates, st \in Statuses :
           /\ WorkerStep(j, from, to, st)
           /\ to # "fetch" /\ (to \in Holding => from \in Holding)
    <2> USE <1>1 DEF Busy, WorkerStates, Holding
    <2>1. CASE Begin(j)
      BY <2>1 DEF Begin
    <2>2. CASE MarkLoading(j)
      BY <2>2 DEF MarkLoading
    <2>3. CASE Prepare(j)
      BY <2>3 DEF Prepare
    <2>4. CASE MarkReused(j)
      BY <2>4 DEF MarkReused
    <2>5. CASE EndCalculation(j)
      BY <2>5 DEF EndCalculation
    <2>6. CASE ApplyFeatures(j)
      BY <2>6 DEF ApplyFeatures
    <2>7. CASE Finish(j)
      BY <2>7 DEF Finish
    <2> QED
      BY <2>1, <2>2, <2>3, <2>4, <2>5, <2>6, <2>7
  <1> QED
    BY <1>2, WorkerStepIInv

(* A row found by hash is a row of a job with the same request. *)
LEMMA FindByHashIInv ==
    ASSUME IInv, NEW j \in Jobs, FindByHash(j)
    PROVE  IInv'
  <1>1. /\ UNCHANGED <<started, request, starting, canceller, deleter, known, tasks,
                        results, frames, coro, cancelReq, permits, sql,
                        derivatives, status, held, restarts>>
        /\ worker[j] = "find"
    BY DEF FindByHash, client, memory, eventLoop, database
  <1>2. \A k \in Matches(j) : k \in Jobs /\ request[k] = request[j]
    <2> SUFFICES ASSUME NEW k \in Matches(j)
                 PROVE  k \in Jobs /\ request[k] = request[j]
      OBVIOUS
    <2>1. /\ k \in Jobs /\ sql[k].status = "completed"
          /\ sql[k].hash = request[j]
      BY DEF Matches, ContentHash
    <2>2. sql[k] # NoRow
      BY <2>1, NothingIsNoBars
    <2> QED
      BY <2>1, <2>2 DEF IInv, Stored
  <1>3. PICK to \in {"fetch", "compute", "raised"} :
           /\ worker' = [worker EXCEPT ![j] = to]
           /\ \/ to = "fetch" /\ \E k \in Matches(j) :
                                     source' = [source EXCEPT ![j] = k]
              \/ to # "fetch" /\ UNCHANGED source
    BY DEF FindByHash
  <1>4. Ordered' /\ worker' \in [Jobs -> WorkerStates]
    <2>1. worker[j] \in Busy /\ to \in WorkerStates
      BY <1>1 DEF Busy, WorkerStates
    <2> QED
      BY <1>1, <1>3, <2>1, WorkerOrdered
  <1>5. /\ source' \in [Jobs -> Jobs \cup {NoJob}]
        /\ \A k \in Jobs \ {j} : source'[k] = source[k]
        /\ to = "fetch" => source'[j] \in Jobs /\ request[source'[j]] = request[j]
    BY <1>2, <1>3 DEF IInv, TypeOK
  <1>6. TypeOK'
    BY <1>1, <1>4, <1>5 DEF IInv, TypeOK
  <1>7. \A k \in Jobs : worker'[k] = IF k = j THEN to ELSE worker[k]
    BY <1>3 DEF IInv, TypeOK
  <1>8. Carried'
    <2>1. to \notin Holding
      BY DEF Holding
    <2> QED
      BY <1>1, <1>5, <1>7, <2>1 DEF IInv, Carried
  <1>9. Stored' /\ PermitsAccounted'
    BY <1>1, PermitsKept DEF IInv, Stored
  <1> QED
    BY <1>4, <1>6, <1>8, <1>9 DEF IInv

(* What the artifact holds now, if anything, is of its job's request, and  *)
(* that is the request of the job that found it.                           *)
LEMMA ArtifactBarsMatch ==
    ASSUME IInv, NEW j \in Jobs
    PROVE  /\ ArtifactBars(j) \in Bars \cup {NoBars}
           /\ ArtifactBars(j) # NoBars => /\ ArtifactBars(j) \in Bars
                                          /\ ArtifactBars(j).request = request[j]
  <1>1. CASE results[j] # NoBars
    BY <1>1 DEF ArtifactBars, IInv, TypeOK, Stored
  <1>2. CASE results[j] = NoBars /\ sql[j] # NoRow
    BY <1>2 DEF ArtifactBars, IInv, TypeOK, Stored
  <1>3. CASE results[j] = NoBars /\ sql[j] = NoRow
    BY <1>3, NothingIsNoBars DEF ArtifactBars
  <1> QED
    BY <1>1, <1>2, <1>3

(* Steps that change what the thread holds: it holds bars of its request.  *)
LEMMA HeldIInv ==
    ASSUME IInv, NEW j \in Jobs, NEW to \in WorkerStates \ {"fetch"},
           NEW bars \in Bars \cup {NoBars},
           worker[j] \in Busy, worker' = [worker EXCEPT ![j] = to],
           held' = [held EXCEPT ![j] = bars],
           to \in Holding => bars \in Bars /\ bars.request = request[j],
           status' \in [Jobs -> Statuses],
           UNCHANGED <<client, memory, eventLoop, database, source, restarts>>
    PROVE  IInv'
  <1>1. UNCHANGED <<started, request, starting, canceller, deleter, known, tasks,
                    results, frames, coro, cancelReq, permits, sql,
                    derivatives, source, restarts>>
    BY DEF client, memory, eventLoop, database
  <1>2. Ordered' /\ worker' \in [Jobs -> WorkerStates]
    BY <1>1, WorkerOrdered
  <1>3. /\ held' \in [Jobs -> Bars \cup {NoBars}]
        /\ \A k \in Jobs : held'[k] = IF k = j THEN bars ELSE held[k]
        /\ \A k \in Jobs : worker'[k] = IF k = j THEN to ELSE worker[k]
    BY DEF IInv, TypeOK
  <1>4. TypeOK'
    BY <1>1, <1>2, <1>3 DEF IInv, TypeOK
  <1>5. Carried'
    BY <1>1, <1>3 DEF IInv, Carried
  <1>6. Stored' /\ PermitsAccounted'
    BY <1>1, PermitsKept DEF IInv, Stored
  <1> QED
    BY <1>2, <1>4, <1>5, <1>6 DEF IInv

(* The bars a thread loads are those of its request. *)
LEMMA FetchBarsIInv ==
    ASSUME IInv, NEW j \in Jobs, FetchBars(j)
    PROVE  IInv'
  <1> DEFINE bars == ArtifactBars(source[j])
  <1>1. /\ worker[j] = "fetch" /\ source[j] \in Jobs
        /\ request[source[j]] = request[j]
        /\ held[j] \in Bars \cup {NoBars}
    BY DEF FetchBars, IInv, TypeOK, Carried
  <1>2. /\ bars \in Bars \cup {NoBars}
        /\ bars # NoBars => bars \in Bars /\ bars.request = request[j]
    BY <1>1, ArtifactBarsMatch
  <1>3. /\ UNCHANGED <<client, memory, eventLoop, database, source, restarts>>
        /\ status' \in [Jobs -> Statuses] /\ worker[j] \in Busy
    BY <1>1 DEF FetchBars, IInv, TypeOK, Busy, WorkerStates
  <1>4. \/ /\ held' = [held EXCEPT ![j] = bars]
           /\ worker' = [worker EXCEPT
                 ![j] = IF bars = NoBars THEN "compute" ELSE "reuse"]
        \/ /\ worker' = [worker EXCEPT ![j] = "raised"]
           /\ UNCHANGED held
    BY DEF FetchBars
  <1> HIDE DEF bars
  <1>5. {"compute", "reuse", "raised"} \subseteq WorkerStates \ {"fetch"}
        /\ "compute" \notin Holding /\ "raised" \notin Holding
    BY DEF WorkerStates, Holding
  <1>6. CASE /\ held' = [held EXCEPT ![j] = bars] /\ bars = NoBars
             /\ worker' = [worker EXCEPT ![j] = "compute"]
    BY <1>1, <1>2, <1>3, <1>5, <1>6, HeldIInv
  <1>7. CASE /\ held' = [held EXCEPT ![j] = bars] /\ bars # NoBars
             /\ worker' = [worker EXCEPT ![j] = "reuse"]
    BY <1>1, <1>2, <1>3, <1>5, <1>7, HeldIInv
  <1>8. CASE worker' = [worker EXCEPT ![j] = "raised"] /\ UNCHANGED held
    <2>1. held' = [held EXCEPT ![j] = held[j]]
      BY <1>8 DEF IInv, TypeOK
    <2> QED
      BY <1>1, <1>3, <1>5, <1>8, <2>1, HeldIInv
  <1> QED
    BY <1>4, <1>6, <1>7, <1>8

(* The columns a thread computes are those of the mode its request asks for. *)
LEMMA CalculateIInv ==
    ASSUME IInv, NEW j \in Jobs, ApplyIndicators(j) \/ ApplyCausalEnrichment(j)
    PROVE  IInv'
  <1>1. PICK merged \in {derivatives, 0} : Computed(j, merged)
    BY DEF ApplyIndicators, ApplyCausalEnrichment
  <1>2. /\ merged \in 0..MaxFetches /\ request[j] \in Requests
    BY JobsAssumption DEF IInv, TypeOK
  <1> DEFINE bars == [request |-> request[j], derivatives |-> merged]
  <1>3. bars \in Bars /\ bars.request = request[j]
    BY <1>2 DEF Bars
  <1>4. held' = [held EXCEPT ![j] = bars]
    BY <1>1 DEF Computed
  <1>5. /\ UNCHANGED <<client, memory, eventLoop, database, source, restarts>>
        /\ worker[j] = "compute"
        /\ worker' = [worker EXCEPT ![j] = "computing"]
        /\ status' \in [Jobs -> Statuses]
    BY DEF ApplyIndicators, ApplyCausalEnrichment, IInv, TypeOK, Statuses
  <1>6. "computing" \in WorkerStates \ {"fetch"} /\ "compute" \in Busy
    BY DEF WorkerStates, Busy
  <1> QED
    BY <1>3, <1>4, <1>5, <1>6, HeldIInv

(* Storing: the bars the thread holds, under its own job. *)
LEMMA StoreIInv ==
    ASSUME IInv, NEW j \in Jobs, StoreFrame(j) \/ StoreResult(j)
    PROVE  IInv'
  <1>1. /\ UNCHANGED <<started, request, starting, canceller, deleter, known, tasks,
                        coro, cancelReq, permits, sql, derivatives, status,
                        source, held, restarts>>
        /\ worker[j] \in {"store_frame", "store_result"}
    BY DEF StoreFrame, StoreResult, client, eventLoop, database
  <1>2. held[j] \in Bars /\ held[j].request = request[j] /\ worker[j] \in Busy
    BY <1>1 DEF IInv, Carried, Holding, Busy, WorkerStates
  <1>3. PICK to \in {"store_result", "persist", "raised"} :
           worker' = [worker EXCEPT ![j] = to]
    BY DEF StoreFrame, StoreResult
  <1>4. Ordered' /\ worker' \in [Jobs -> WorkerStates]
    <2>1. to \in WorkerStates
      BY DEF WorkerStates
    <2> QED
      BY <1>1, <1>2, <1>3, <2>1, WorkerOrdered
  <1>5. /\ results' \in [Jobs -> Bars \cup {NoBars}] /\ frames' \subseteq Jobs
        /\ \A k \in Jobs : results'[k] # NoBars =>
              results'[k].request = request[k]
    <2>1. CASE StoreFrame(j)
      BY <2>1 DEF StoreFrame, IInv, TypeOK, Stored
    <2>2. CASE StoreResult(j)
      BY <1>2, <2>2 DEF StoreResult, IInv, TypeOK, Stored
    <2> QED
      BY <2>1, <2>2
  <1>6. TypeOK'
    BY <1>1, <1>4, <1>5 DEF IInv, TypeOK
  <1>7. \A k \in Jobs : worker'[k] = IF k = j THEN to ELSE worker[k]
    BY <1>3 DEF IInv, TypeOK
  <1>8. Carried'
    BY <1>1, <1>2, <1>7 DEF IInv, Carried
  <1>9. Stored' /\ PermitsAccounted'
    BY <1>1, <1>5, PermitsKept DEF IInv, Stored
  <1> QED
    BY <1>4, <1>6, <1>8, <1>9 DEF IInv

(* The row that is written carries the bars the thread has just stored. *)
LEMMA PersistIInv ==
    ASSUME IInv, NEW j \in Jobs, Persist(j)
    PROVE  IInv'
  <1>1. /\ UNCHANGED <<started, request, starting, canceller, deleter, known, tasks,
                        results, frames, coro, cancelReq, permits, status,
                        source, held, derivatives, restarts>>
        /\ worker[j] = "persist"
    BY DEF Persist, client, memory, eventLoop
  <1>2. /\ held[j] \in Bars /\ held[j].request = request[j]
        /\ sql[j] = NoRow /\ coro[j] \notin {"none", "waiting"}
    BY <1>1 DEF IInv, Carried, Holding, Ordered, Busy, WorkerStates
  <1> DEFINE row == [status |-> status[j], bars |-> held[j],
                     hash |-> ContentHash(request[j])]
  <1>3. /\ row \in Rows
        /\ row.hash = request[j] /\ row.bars = held[j]
    <2>1. status[j] \in Statuses /\ request[j] \in Requests
      BY JobsAssumption DEF IInv, TypeOK
    <2> QED
      BY <1>2, <2>1 DEF Rows, ContentHash
  <1>4. \/ /\ sql' = [sql EXCEPT ![j] = row]
           /\ worker' = [worker EXCEPT ![j] = "returned"]
        \/ UNCHANGED sql /\ worker' = [worker EXCEPT ![j] = "raised"]
    BY DEF Persist
  <1> HIDE DEF row
  <1>5. /\ sql' \in [Jobs -> Rows] /\ worker' \in [Jobs -> WorkerStates]
        /\ worker'[j] \in {"returned", "raised"}
        /\ sql'[j] \in {row, NoRow}
        /\ \A k \in Jobs \ {j} : sql'[k] = sql[k] /\ worker'[k] = worker[k]
    BY <1>2, <1>3, <1>4 DEF IInv, TypeOK, WorkerStates
  <1>6. TypeOK'
    BY <1>1, <1>5 DEF IInv, TypeOK
  <1>7. Ordered'
    <2>1. worker'[j] \notin Busy
      BY <1>5 DEF Busy
    <2> QED
      BY <1>1, <1>2, <1>5, <2>1 DEF IInv, Ordered
  <1>8. Carried'
    <2>1. worker'[j] \notin Holding /\ worker'[j] # "fetch"
      BY <1>5 DEF Holding
    <2> QED
      BY <1>1, <1>5, <2>1 DEF IInv, Carried
  <1>9. Stored' /\ PermitsAccounted'
    BY <1>1, <1>2, <1>3, <1>5, PermitsKept DEF IInv, Stored
  <1> QED
    BY <1>6, <1>7, <1>8, <1>9 DEF IInv

-----------------------------------------------------------------------------
(* The steps together. *)

LEMMA NextIInv == IInv /\ [Next]_vars => IInv'
  <1> SUFFICES ASSUME IInv, [Next]_vars PROVE IInv'
    OBVIOUS
  <1>1. CASE \/ Start \/ Register \/ CancelWrite \/ DeleteRow
             \/ FetchDerivatives \/ Restart
    BY <1>1, StartIInv, RegisterIInv, CancelIInv, DeleteRowIInv,
       FetchDerivativesIInv, RestartIInv
  <1>2. ASSUME NEW j \in Jobs, CancelRequest(j) \/ DeleteArtifact(j)
        PROVE  IInv'
    BY <1>2, CancelIInv, DeleteArtifactIInv
  <1>3. ASSUME NEW j \in Jobs, Loop(j) PROVE IInv'
    BY <1>3, AcquireIInv, CancelledWaitingIInv, AwaitEndsIInv DEF Loop
  <1>4. ASSUME NEW j \in Jobs, Work(j) PROVE IInv'
    BY <1>4, MarksIInv, FindByHashIInv, FetchBarsIInv, CalculateIInv,
       StoreIInv, PersistIInv DEF Work
  <1>5. CASE UNCHANGED vars
    <2>1. UNCHANGED <<started, request, starting, canceller, deleter, known, tasks,
                      results, frames, coro, cancelReq, permits, worker,
                      source, held, sql, derivatives, status, restarts>>
      BY <1>5 DEF vars, client, memory, eventLoop, pool, database
    <2> QED
      BY <2>1 DEF IInv, TypeOK, PermitsAccounted, Ordered, Carried, Stored
  <1> QED
    BY <1>1, <1>2, <1>3, <1>4, <1>5 DEF Next

(* The invariant holds in every reachable state. *)
THEOREM InvariantHolds == Spec => []IInv
  BY InitIInv, NextIInv, PTL DEF Spec

(* The variables of the job manager keep their types. *)
THEOREM TypeCorrect == Spec => []TypeOK
  BY InvariantHolds, PTL DEF IInv

(* For every number of jobs and every size of the semaphore: whatever is   *)
(* cancelled, raised or restarted, and whenever, the permits that are out  *)
(* are those of the coroutines that await their threads.                   *)
THEOREM PermitsNeverLeak == Spec => []PermitsAccounted
  BY InvariantHolds, PTL DEF IInv

(* For every set of requests and every chain of reuse, deletion,           *)
(* cancellation and restart: the bars stored for a job are bars of exactly *)
(* its request, and a live parity backtest only gets live parity bars.     *)
THEOREM ReuseIsSound == Spec => []ArtifactsMatchRequest
  <1>1. IInv => ArtifactsMatchRequest
    <2> SUFFICES ASSUME IInv PROVE ArtifactsMatchRequest
      OBVIOUS
    <2>1. ASSUME NEW j \in Jobs,
                 BacktestAccepts(j, "live_parity_streaming")
          PROVE  ArtifactBars(j).request.mode = "live_parity_streaming"
      <3>1. ViewMode(j) = "live_parity_streaming" /\ ArtifactBars(j) # NoBars
        BY <2>1 DEF BacktestAccepts
      <3>2. request[j].mode = "live_parity_streaming"
        BY <3>1 DEF ViewMode
      <3> QED
        BY <3>1, <3>2, ArtifactBarsMatch
    <2> QED
      BY <2>1 DEF ArtifactsMatchRequest, IInv, Stored
  <1> QED
    BY <1>1, InvariantHolds, PTL
-----------------------------------------------------------------------------
(* Nothing is lost. *)

(* Only two steps touch the artifact table: the deletion, and the thread   *)
(* that stores its job's row, which is not there yet (Ordered).            *)
LEMMA RowsDurable ==
    ASSUME IInv, Next, NEW j \in Jobs, sql[j] # NoRow, sql'[j] # sql[j]
    PROVE  deleter = j /\ sql'[j] = NoRow
  <1> USE DEF client, memory, eventLoop, pool, database
  <1>1. CASE DeleteRow
    BY <1>1 DEF DeleteRow, IInv, TypeOK
  <1>2. ASSUME NEW k \in Jobs, Persist(k) PROVE FALSE
    <2>1. sql[k] = NoRow
      BY <1>2 DEF Persist, IInv, Ordered, Busy, WorkerStates
    <2>2. j # k
      BY <2>1
    <2> QED
      BY <1>2, <2>2 DEF Persist, IInv, TypeOK
  <1>3. CASE Start \/ Register \/ CancelWrite \/ FetchDerivatives \/ Restart
    BY <1>3 DEF Start, Register, CancelWrite, FetchDerivatives, Restart
  <1>4. ASSUME NEW k \in Jobs, CancelRequest(k) \/ DeleteArtifact(k) \/ Loop(k)
        PROVE  FALSE
    BY <1>4 DEF CancelRequest, DeleteArtifact, Loop, Acquire,
                CancelledWaiting, CancelledAwaiting, Resume
  <1>5. ASSUME NEW k \in Jobs, Work(k), ~Persist(k) PROVE FALSE
    <2>1. UNCHANGED sql
      BY <1>5 DEF Work, Begin, MarkLoading, Prepare, FindByHash, FetchBars,
                  MarkReused, ApplyIndicators, ApplyCausalEnrichment,
                  EndCalculation, ApplyFeatures, Finish, StoreFrame,
                  StoreResult, WorkerStep
    <2> QED
      BY <2>1
  <1> QED
    BY <1>1, <1>2, <1>3, <1>4, <1>5 DEF Next

(* Only ended jobs expire or are evicted. *)
LEMMA LiveKept ==
    ASSUME IInv, Next, NEW j \in known \ known'
    PROVE  status[j] \in Terminal \/ deleter' = j \/ restarts' > restarts
  <1> USE DEF client, memory, eventLoop, pool, database
  <1>1. CASE Start
    BY <1>1 DEF Start, Expired, Ended
  <1>2. CASE Register
    BY <1>2 DEF Register, OverLimit, Ended
  <1>3. CASE Restart
    BY <1>3 DEF Restart, IInv, TypeOK
  <1>4. ASSUME NEW k \in Jobs, DeleteArtifact(k) PROVE deleter' = j
    BY <1>4 DEF DeleteArtifact
  <1>5. CASE CancelWrite \/ DeleteRow \/ FetchDerivatives
    BY <1>5 DEF CancelWrite, DeleteRow, FetchDerivatives
  <1>6. ASSUME NEW k \in Jobs, CancelRequest(k) \/ Loop(k) PROVE FALSE
    BY <1>6 DEF CancelRequest, Loop, Acquire, CancelledWaiting,
                CancelledAwaiting, Resume
  <1>7. ASSUME NEW k \in Jobs, Work(k) PROVE FALSE
    <2>1. UNCHANGED known
      BY <1>7 DEF Work, Begin, MarkLoading, Prepare, FindByHash, FetchBars,
                  MarkReused, ApplyIndicators, ApplyCausalEnrichment,
                  EndCalculation, ApplyFeatures, Finish, StoreFrame,
                  StoreResult, Persist, WorkerStep
    <2> QED
      BY <2>1
  <1> QED
    BY <1>1, <1>2, <1>3, <1>4, <1>5, <1>6, <1>7 DEF Next

(* No step of any behaviour, expiry, eviction, a second job with the same  *)
(* hash or a restart, removes or rewrites a persisted artifact that is not *)
(* being deleted, or forgets a job that is still queued or running.        *)
THEOREM NothingIsLost == Spec => NothingLost
  <1>1. IInv /\ [Next]_vars =>
            [\A j \in Jobs : sql[j] # NoRow /\ sql'[j] # sql[j] =>
                deleter = j /\ sql'[j] = NoRow]_vars
    BY RowsDurable
  <1>2. IInv /\ [Next]_vars =>
            [\A j \in known \ known' :
                status[j] \in Terminal \/ deleter' = j \/ restarts' > restarts]_vars
    BY LiveKept
  <1> QED
    BY <1>1, <1>2, InvariantHolds, PTL
       DEF Spec, NothingLost, DurableUntilDeleted, LiveJobsKept
=============================================================================
