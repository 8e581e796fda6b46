------------------------------ MODULE PriceFetch ------------------------------
(***************************************************************************)
(* Background price fetches from Hyperliquid: the fetch job and its thread *)
(* (prices.py, fetch_job_manager.py), the fetch use case, the pagination   *)
(* of the fetcher (hyperliquid_fetcher.py) and the price cache.            *)
(*                                                                         *)
(* One symbol and interval.  Time is counted in bars: chunk_ms is          *)
(* ChunkBars, the clock stands at Horizon.  A bar is its timestamp; bars   *)
(* that validate_bar rejects do not count as bars of the market.  Waiting  *)
(* for the rate limiter changes no data and is left to                     *)
(* HyperliquidRateLimiter.                                                 *)
(***************************************************************************)
EXTENDS Integers, Sequences, FiniteSets, SequencesExt

CONSTANTS
    Jobs,           \* fetch jobs
    Requests,       \* the date ranges they may ask for
    None,           \* a date that is not given
    Horizon,        \* now
    ChunkBars,      \* MAX_BARS of the interval
    Lookback,       \* API_LIMIT_DAYS of the interval
    MaxChunks,      \* max_chunks, the safety limit of the full history
    SafetyLimit     \* the limit of 50000 bars of a date range

ASSUME FetchAssumption ==
    /\ Horizon \in Nat /\ ChunkBars \in Nat \ {0} /\ Lookback \in Nat
    /\ MaxChunks \in Nat \ {0} /\ SafetyLimit \in Nat
    /\ Requests \subseteq [start : Int \cup {None}, end : Int \cup {None}]

VARIABLES
    market,     \* external: the bars the exchange holds
    request,    \* start_date and end_date of each job
    status,     \* FetchJob.status
    cancel,     \* progress of FetchJobManager.cancel and of its CancelledError
    phase,      \* where the job's thread is
    cursor,     \* current_start, or chunk_end_ms of the full history
    chunks,     \* chunks of the full history fetched so far
    bars,       \* all_bars or temp, and in the end the fetched bars
    cache       \* the price cache

job == <<request, status, cancel>>
paging == <<cursor, chunks, bars>>
vars == <<market, request, status, cancel, phase, cursor, chunks, bars, cache>>

Times == 1..Horizon
Ended == {"completed", "failed", "cancelled"}

Init ==
    /\ market \in SUBSET Times
    /\ request \in [Jobs -> Requests]
    /\ status = [j \in Jobs |-> "queued"]
    /\ cancel = [j \in Jobs |-> "no"]
    /\ phase = [j \in Jobs |-> "queued"]
    /\ cursor = [j \in Jobs |-> 0]
    /\ chunks = [j \in Jobs |-> 0]
    /\ bars = [j \in Jobs |-> <<>>]
    /\ cache = {}

-----------------------------------------------------------------------------
(* The fetcher *)

IsHistory(j) == request[j].start = None /\ request[j].end = None

\* _resolve_date_range
EndOf(j) == IF request[j].end = None THEN Horizon ELSE request[j].end
StartOf(j) ==
    IF request[j].start = None THEN EndOf(j) - Lookback ELSE request[j].start

\* The elements of s at the positions in K, in their order.
PickedUpTo(s, K) ==
    LET upTo[n \in 0..Len(s)] ==
            IF n = 0 THEN <<>>
            ELSE IF n \in K THEN Append(upTo[n - 1], s[n]) ELSE upTo[n - 1]
    IN  upTo
Picked(s, K) == PickedUpTo(s, K)[Len(s)]

\* The bars of the market from one date to another.
Between(from, to) == {x \in market : from <= x /\ x <= to}

\* The answer to candleSnapshot: oldest first, both ends included.
Candles(from, to) == Picked([x \in Times |-> x], Between(from, to))

\* _deduplicate_bars: the first bar of every timestamp.
Deduplicate(s) ==
    Picked(s, {n \in DOMAIN s : \A m \in 1..(n - 1) : s[m] # s[n]})

\* The thread starts: _sync_run_fetch_job marks the job running, and fetch
\* dispatches.  A range that starts after its end raises, and fetch answers
\* with no bars.
Run(j) ==
    /\ phase[j] = "queued"
    /\ status' = [status EXCEPT ![j] = "running"]
    /\ cursor' = [cursor EXCEPT ![j] = IF IsHistory(j) THEN Horizon ELSE StartOf(j)]
    /\ phase' = [phase EXCEPT ![j] =
           IF IsHistory(j) THEN "history"
           ELSE IF StartOf(j) < EndOf(j) THEN "range" ELSE "fetched"]
    /\ UNCHANGED <<market, request, cancel, chunks, bars, cache>>

ChunkEnd(j) ==
    IF cursor[j] + ChunkBars < EndOf(j) THEN cursor[j] + ChunkBars ELSE EndOf(j)

\* Mutant: every chunk is saved as it arrives.
MutRangeChunk(j) ==
    LET got == bars[j] \o Candles(cursor[j], ChunkEnd(j))
        last == ChunkEnd(j) >= EndOf(j) \/ Len(got) > SafetyLimit
    IN  /\ phase[j] = "range"
        /\ cursor' = [cursor EXCEPT ![j] = ChunkEnd(j)]
        /\ phase' = [phase EXCEPT ![j] = IF last THEN "fetched" ELSE "range"]
        /\ bars' = [bars EXCEPT ![j] = IF last THEN Deduplicate(got) ELSE got]
        /\ cache' = cache \cup ToSet(got)
        /\ UNCHANGED <<market, job, chunks>>

\* One pass of the loop of _fetch_date_range.
RangeChunk(j) ==
    LET got == bars[j] \o Candles(cursor[j], ChunkEnd(j))
        last == ChunkEnd(j) >= EndOf(j) \/ Len(got) > SafetyLimit
    IN  /\ phase[j] = "range"
        /\ cursor' = [cursor EXCEPT ![j] = ChunkEnd(j)]
        /\ phase' = [phase EXCEPT ![j] = IF last THEN "fetched" ELSE "range"]
        /\ bars' = [bars EXCEPT ![j] = IF last THEN Deduplicate(got) ELSE got]
        /\ UNCHANGED <<market, job, chunks, cache>>

HistoryStart(j) == cursor[j] - ChunkBars

\* Mutant: the boundary bars of consecutive chunks are kept twice.
MutHistoryChunk(j) ==
    LET new == Candles(HistoryStart(j), cursor[j])
        got == bars[j] \o new
        last == new = <<>> \/ chunks[j] + 1 = MaxChunks
    IN  /\ phase[j] = "history"
        /\ cursor' = [cursor EXCEPT ![j] = IF new = <<>> THEN @ ELSE HistoryStart(j)]
        /\ chunks' = [chunks EXCEPT ![j] = @ + 1]
        /\ phase' = [phase EXCEPT ![j] = IF last THEN "fetched" ELSE "history"]
        /\ bars' = [bars EXCEPT ![j] = IF last THEN Reverse(got) ELSE got]
        /\ UNCHANGED <<market, job, cache>>

\* One pass of the loop of _fetch_max_history: backwards, until a chunk is
\* empty or max_chunks have been read; then the list is reversed.
HistoryChunk(j) ==
    LET new == Candles(HistoryStart(j), cursor[j])
        got == bars[j] \o new
        last == new = <<>> \/ chunks[j] + 1 = MaxChunks
    IN  /\ phase[j] = "history"
        /\ cursor' = [cursor EXCEPT ![j] = IF new = <<>> THEN @ ELSE HistoryStart(j)]
        /\ chunks' = [chunks EXCEPT ![j] = @ + 1]
        /\ phase' = [phase EXCEPT ![j] = IF last THEN "fetched" ELSE "history"]
        /\ bars' = [bars EXCEPT ![j] =
               IF last THEN Deduplicate(Reverse(got)) ELSE got]
        /\ UNCHANGED <<market, job, cache>>

\* _fetch_chunk answers None after a 429 or any other error: the loops
\* raise, and fetch catches and answers with no bars.
ChunkFails(j) ==
    /\ phase[j] \in {"range", "history"}
    /\ phase' = [phase EXCEPT ![j] = "fetched"]
    /\ bars' = [bars EXCEPT ![j] = <<>>]
    /\ UNCHANGED <<market, job, cursor, chunks, cache>>

-----------------------------------------------------------------------------
(* The use case, the cache and the job *)

\* Mutant: the job is not told that there are no bars.
MutNoData(j) ==
    /\ phase[j] = "fetched"
    /\ bars[j] = <<>>
    /\ phase' = [phase EXCEPT ![j] = "done"]
    /\ UNCHANGED <<market, job, paging, cache>>

\* No bars: the use case answers with an error and the job fails.
NoData(j) ==
    /\ phase[j] = "fetched"
    /\ bars[j] = <<>>
    /\ status' = [status EXCEPT ![j] = "failed"]
    /\ phase' = [phase EXCEPT ![j] = "done"]
    /\ UNCHANGED <<market, request, cancel, paging, cache>>

\* save_bars: all bars in one transaction; it may fail and roll back, and
\* the use case does not look at the number of bars saved.
SaveBars(j) ==
    /\ phase[j] = "fetched"
    /\ bars[j] # <<>>
    /\ cache' \in {cache, cache \cup ToSet(bars[j])}
    /\ phase' = [phase EXCEPT ![j] = "saved"]
    /\ UNCHANGED <<market, job, paging>>

\* Any exception on the way from the bars to the result: the job fails.
Raises(j) ==
    /\ phase[j] \in {"fetched", "saved"}
    /\ status' = [status EXCEPT ![j] = "failed"]
    /\ phase' = [phase EXCEPT ![j] = "done"]
    /\ UNCHANGED <<market, request, cancel, paging, cache>>

\* The result is on the job.
Complete(j) ==
    /\ phase[j] = "saved"
    /\ status' = [status EXCEPT ![j] = "completed"]
    /\ phase' = [phase EXCEPT ![j] = "done"]
    /\ UNCHANGED <<market, request, cancel, paging, cache>>

\* FetchJobManager.cancel reads the status without the lock ...
Cancel(j) ==
    /\ cancel[j] = "no"
    /\ status[j] \notin Ended
    /\ cancel' = [cancel EXCEPT ![j] = "deciding"]
    /\ UNCHANGED <<market, request, status, phase, paging, cache>>

\* ... and then cancels the task and overwrites the status.
CancelTask(j) ==
    /\ cancel[j] = "deciding"
    /\ cancel' = [cancel EXCEPT ![j] = "requested"]
    /\ status' = [status EXCEPT ![j] = "cancelled"]
    /\ UNCHANGED <<market, request, phase, paging, cache>>

\* The event loop delivers the CancelledError to _run_fetch_job.  A thread
\* that has started goes on; one that has not is never started.
CancelledError(j) ==
    /\ cancel[j] = "requested"
    /\ cancel' = [cancel EXCEPT ![j] = "delivered"]
    /\ status' = [status EXCEPT ![j] =
           IF @ \in {"completed", "failed"} THEN @ ELSE "cancelled"]
    /\ phase' = [phase EXCEPT ![j] = IF @ = "queued" THEN "done" ELSE @]
    /\ UNCHANGED <<market, request, paging, cache>>

\* delete_bars before a date.
DeleteBars(before) ==
    /\ cache' = {x \in cache : x >= before}
    /\ UNCHANGED <<market, job, phase, paging>>

Thread(j) ==
    \/ Run(j)
    \/ RangeChunk(j)
    \/ HistoryChunk(j)
    \/ ChunkFails(j)
    \/ NoData(j)
    \/ SaveBars(j)
    \/ Raises(j)
    \/ Complete(j)

Next ==
    \/ \E j \in Jobs : Thread(j) \/ Cancel(j) \/ CancelTask(j) \/ CancelledError(j)
    \/ \E before \in Times : DeleteBars(before)

Spec == Init /\ [][Next]_vars

\* The thread pool runs every thread, and a cancel call and the event loop
\* finish what they began.
FairSpec ==
    /\ Spec
    /\ \A j \in Jobs : /\ WF_vars(Thread(j))
                       /\ WF_vars(CancelTask(j) \/ CancelledError(j))

-----------------------------------------------------------------------------
(***************************************************************************)
(* Properties                                                              *)
(***************************************************************************)

IsStrictlyIncreasing(s) == \A k, n \in DOMAIN s : k < n => s[k] < s[n]

Fetched(j) == phase[j] \in {"fetched", "saved"} /\ bars[j] # <<>>

\* The loop read its range to the end, or was stopped by its safety limit
\* (which counts the bars at the chunks' boundaries twice).
ReadToEnd(j) ==
    IF IsHistory(j)
      THEN Between(HistoryStart(j), cursor[j]) = {} \/ chunks[j] = MaxChunks
      ELSE \/ cursor[j] = EndOf(j)
           \/ Len(bars[j]) + (cursor[j] - StartOf(j)) \div ChunkBars > SafetyLimit

\* A date-range fetch that answers has every bar of the range, each once and
\* oldest first, however the range falls on the chunks; only the safety
\* limit cuts it off, at a chunk's end.
RangeExact ==
    \A j \in Jobs : Fetched(j) /\ ~IsHistory(j) =>
        /\ ToSet(bars[j]) = Between(StartOf(j), cursor[j])
        /\ IsStrictlyIncreasing(bars[j])
        /\ ReadToEnd(j)

\* A full-history fetch that answers has no hole: with a bar it has every
\* later bar of the market, and none of them twice.
HistoryHasNoHole ==
    \A j \in Jobs : Fetched(j) /\ IsHistory(j) =>
        /\ IsInjective(bars[j])
        /\ \A x \in ToSet(bars[j]) : Between(x, Horizon) \subseteq ToSet(bars[j])

\* Both: whichever way a fetch reads its chunks, its answer has each bar once
\* and no hole.
FetchExact == RangeExact /\ HistoryHasNoHole

\* Nothing of a fetch that failed half-way reaches the cache: whatever a
\* step adds to it is the answer of a job that read its chunks to the end.
CacheFedWhole ==
    [][\A x \in cache' \ cache :
           \E j \in Jobs : /\ phase[j] = "fetched" /\ phase'[j] = "saved"
                          /\ x \in ToSet(bars[j])
                          /\ ReadToEnd(j)]_vars

\* Every fetch job ends, also one that is cancelled at any moment: its
\* status becomes final and stays so.
FetchesSettle ==
    \A j \in Jobs : \E s \in Ended : <>[](status[j] = s)
=============================================================================
