-------------------------- MODULE CausalEnrichment --------------------------
(***************************************************************************)
(* CausalMultiTimeframeStreamingEnricher: a primary and an informative     *)
(* streaming engine, and the as-of cursor that shows an informative row to *)
(* a primary bar only once the informative bar has closed.                 *)
(*                                                                         *)
(* Time counts primary bars: the k-th primary bar opens at k - 1.  The     *)
(* j-th informative bar covers InfoSpan of them and opens at               *)
(* (j - 1) * InfoSpan; it can be delivered from its opening on (the        *)
(* sequential form of causal_enrich_bars delivers it then), late, again,   *)
(* or behind a later one.                                                  *)
(***************************************************************************)
EXTENDS StreamingEngine

CONSTANTS
    PrimaryChoices,   \* the bars the k-th primary bar may be, k in 1..MaxBars
    InfoBars,         \* the informative bars, in order
    InfoIndicators,   \* the names computed on them
    InfoBarsPerSession, \* of their engine's window resolver; 0 without one
    InfoSpan,         \* primary bars per informative bar
    MaxFeeds,         \* bound on deliveries of informative bars
    MaxResets         \* bound on resets

(* The bars of a feed: prices on the price grid, no negative volume.       *)
FeedBars == [open : Int, high : Int, low : Int, close : Int,
             volume : Nat, day : Nat]

ASSUME EnrichmentConstants ==
    /\ PrimaryChoices \in Seq(SUBSET FeedBars)
    /\ \A k \in DOMAIN PrimaryChoices : PrimaryChoices[k] /= {}
    /\ DOMAIN InfoBars = 1..Len(InfoBars) /\ Len(InfoBars) \in Nat
    /\ InfoBarsPerSession \in Nat
    /\ InfoSpan \in Nat \ {0} /\ MaxFeeds \in Nat /\ MaxResets \in Nat

Info == INSTANCE StreamingEngine WITH Indicators <- InfoIndicators,
                                      BarsPerSession <- InfoBarsPerSession

VARIABLES
    primary,    \* the primary engine
    info,       \* the informative engine
    cursor,     \* availability times, rows and position
    latest,     \* the last CausalEnrichedBar, <<>> before one
    clock,      \* primary bars seen in all
    history,    \* primary bars since the last reset
    fed,        \* deliveries since the last reset: <<bar number, accepted>>
    feeds,      \* deliveries in all
    resets

vars == <<primary, info, cursor, latest, clock, history, fed, feeds, resets>>

-----------------------------------------------------------------------------
(* AsOfInformativeCursor.  The position is the number of rows passed.      *)

EmptyCursor == [availability |-> <<>>, rows |-> <<>>, position |-> 0]

Accepts(c, open) ==
    c.availability = <<>> \/ open + InfoSpan >= Last(c.availability)

CursorAppendAtOpen(c, open, row) ==
    [c EXCEPT !.availability = Append(@, open), !.rows = Append(@, row)]
CursorAppend(c, open, row) ==
    [c EXCEPT !.availability = Append(@, open + InfoSpan),
              !.rows = Append(@, row)]

AdvanceStrict(c, primaryOpen) ==
    [c EXCEPT !.position =
        LET later == {i \in (c.position + 1)..Len(c.rows) :
                        c.availability[i] >= primaryOpen}
        IN  IF later = {} THEN Len(c.rows) ELSE Min(later) - 1]
Advance(c, primaryOpen) ==
    [c EXCEPT !.position =
        LET later == {i \in (c.position + 1)..Len(c.rows) :
                        c.availability[i] > primaryOpen}
        IN  IF later = {} THEN Len(c.rows) ELSE Min(later) - 1]

VisibleRow(c) == IF c.position = 0 THEN <<>> ELSE <<c.rows[c.position]>>

-----------------------------------------------------------------------------
(* Every requested column is in a row, NaN where the engine has no value.  *)
WithRequestedColumns(values, names) ==
    [n \in names |-> IF n \in DOMAIN values THEN values[n] ELSE NaN]

InfoOpen(j) == (j - 1) * InfoSpan
InfoRow(engine) ==
    WithRequestedColumns(engine.latest.values, Info!Requested)

EnrichedBar(engine, c, open) ==
    [values |-> WithRequestedColumns(engine.latest.values, Requested),
     info |-> VisibleRow(c),
     timestamp |-> open,
     is_ready |-> engine.latest.is_ready]

Init ==
    /\ primary = EngineInit
    /\ info = Info!EngineInit
    /\ cursor = EmptyCursor
    /\ latest = <<>>
    /\ clock = 0
    /\ history = <<>>
    /\ fed = <<>>
    /\ feeds = 0
    /\ resets = 0

UpdatePrimary(bar) ==
    /\ clock < Len(PrimaryChoices)
    /\ primary' = EngineUpdate(primary, bar)
    /\ cursor' = Advance(cursor, clock)
    /\ latest' = <<EnrichedBar(primary', cursor', clock)>>
    /\ clock' = clock + 1
    /\ history' = Append(history, bar)
    /\ UNCHANGED <<info, fed, feeds, resets>>

(* The engine has taken the bar before the cursor refuses it.              *)
UpdateInformative(j) ==
    /\ feeds < MaxFeeds /\ InfoOpen(j) <= clock
    /\ info' = Info!EngineUpdate(info, InfoBars[j])
    /\ cursor' = IF Accepts(cursor, InfoOpen(j))
                 THEN CursorAppend(cursor, InfoOpen(j), InfoRow(info'))
                 ELSE cursor
    /\ fed' = Append(fed, <<j, Accepts(cursor, InfoOpen(j))>>)
    /\ feeds' = feeds + 1
    /\ UNCHANGED <<primary, latest, clock, history, resets>>

Reset ==
    /\ resets < MaxResets /\ history /= <<>>
    /\ primary' = EngineReset(primary)
    /\ info' = Info!EngineReset(info)
    /\ cursor' = EmptyCursor
    /\ latest' = <<>>
    /\ history' = <<>>
    /\ fed' = <<>>
    /\ resets' = resets + 1
    /\ UNCHANGED <<clock, feeds>>

Next ==
    \/ clock < Len(PrimaryChoices)
         /\ \E bar \in PrimaryChoices[clock + 1] : UpdatePrimary(bar)
    \/ \E j \in DOMAIN InfoBars : UpdateInformative(j)
    \/ Reset

Spec == Init /\ [][Next]_vars

-----------------------------------------------------------------------------
(* causal_enrich_bars on whole series, in its two forms, and the batch     *)
(* merge of MultiTimeframeBarEnricher.  js are the informative bars, n is  *)
(* the number of primary bars; each form gives the informative row that    *)
(* every primary bar is shown.  rows[i] is the row after the i-th of them. *)

EngineFrom(new, js) ==
    LET after[n \in 0..Len(js)] ==
          IF n = 0 THEN new
          ELSE Info!EngineUpdate(after[n - 1], InfoBars[js[n]])
    IN  after[Len(js)]
InfoEngineAfter(js) == EngineFrom(Info!EngineInit, js)
RowsFrom(new, js) ==
    [i \in DOMAIN js |-> InfoRow(EngineFrom(new, SubSeq(js, 1, i)))]

(* The enricher's engine sizes its windows by the bars of a session; the   *)
(* engine of a parallel thread is built without a resolver.                *)
InfoRows(js) == RowsFrom(Info!EngineInit, js)
ThreadRows(js) == RowsFrom(Info!EngineWith(0), js)

(* The cursor with the rows after those it has, up to the m-th, appended.  *)
FeedTo(c, js, rows, m) ==
    LET has == Len(c.rows)
    IN  [availability |-> c.availability
                            \o [i \in 1..(m - has) |->
                                  InfoOpen(js[has + i]) + InfoSpan],
         rows |-> c.rows \o [i \in 1..(m - has) |-> rows[has + i]],
         position |-> c.position]

(* All rows are appended before the first primary bar.                     *)
ParallelRows(js, rows, n) ==
    LET at[k \in 0..n] ==
          IF k = 0 THEN FeedTo(EmptyCursor, js, rows, Len(js))
          ELSE Advance(at[k - 1], k - 1)
    IN  [k \in 1..n |-> VisibleRow(at[k])]

(* How many of them opened by t, up to the first that did not.             *)
OpenedBy(js, t) ==
    LET shut == {i \in DOMAIN js : InfoOpen(js[i]) > t}
    IN  IF shut = {} THEN Len(js) ELSE Min(shut) - 1

(* Before a primary bar, the informative bars that opened by then.         *)
SequentialRows(js, rows, n) ==
    LET at[k \in 0..n] ==
          IF k = 0 THEN EmptyCursor
          ELSE Advance(FeedTo(at[k - 1], js, rows, OpenedBy(js, k - 1)), k - 1)
    IN  [k \in 1..n |-> VisibleRow(at[k])]

(* Rows by availability, the last of equal ones, all-missing rows dropped, *)
(* carried forward.                                                        *)
Missing(row) == \A c \in Info!Requested : IsNaN(row[c])
MergeTimeframes(js, rows, n) ==
    LET unique == {i \in DOMAIN js : \A k \in DOMAIN js : js[k] = js[i] => k <= i}
        Known(k) == {i \in unique : /\ ~Missing(rows[i])
                                    /\ InfoOpen(js[i]) + InfoSpan <= k - 1}
    IN  [k \in 1..n |->
            IF Known(k) = {} THEN <<>> ELSE <<rows[Max(Known(k))]>>]

-----------------------------------------------------------------------------
(* Type invariant.                                                         *)
TypeOK ==
    /\ primary.bars_seen = Len(history)
    /\ info.bars_seen = Len(fed)
    /\ DOMAIN primary.families = Families
    /\ cursor.position \in 0..Len(cursor.rows)
    /\ Len(cursor.rows) = Len(cursor.availability)
    /\ \A i \in 1..(Len(cursor.rows) - 1) :
         cursor.availability[i] <= cursor.availability[i + 1]
    /\ primary.batched.frame = <<>>
         \/ primary.batched.frame = primary.batched.buffer
    /\ latest = <<>> <=> history = <<>>

(* An enriched bar shows no informative bar that closes after the primary  *)
(* bar opens: its informative values are those of a fresh engine fed with  *)
(* the deliveries up to one that had closed, refused ones included, and    *)
(* every row the cursor has passed had closed too.                         *)
Delivered(i) == InfoEngineAfter([k \in 1..i |-> fed[k][1]])
RowsAccepted == {i \in DOMAIN fed : fed[i][2]}
NoLookahead ==
    latest /= <<>> =>
        LET t == latest[1].timestamp
            Passed(i) == Cardinality({k \in RowsAccepted : k <= i})
        IN  /\ latest[1].info = <<>> <=> cursor.position = 0
            /\ cursor.position > 0 =>
                 \E i \in RowsAccepted :
                    /\ Passed(i) = cursor.position
                    /\ latest[1].info = <<InfoRow(Delivered(i))>>
            /\ \A i \in RowsAccepted :
                 Passed(i) <= cursor.position =>
                    InfoOpen(fed[i][1]) + InfoSpan <= t

(* The deliveries accepted, in order. *)
AcceptedBars ==
    [i \in 1..Cardinality(RowsAccepted) |->
        fed[CHOOSE k \in RowsAccepted :
              Cardinality({m \in RowsAccepted : m <= k}) = i][1]]

(* No informative metric's window depends on the resolver. *)
ResolverIndependent ==
    \A name \in Info!Requested :
        Info!ResolveWindow(name, 0)
            = Info!ResolveWindow(name, InfoBarsPerSession)

(* Enriching in parallel and in sequence show the row of the same          *)
(* informative bar to every primary bar, whatever the rows are, and where  *)
(* no window depends on the resolver the same values.  The batch merge of  *)
(* the rows agrees, a row without any value counting as none, unless such  *)
(* a row follows one with a value: there the merge still carries the       *)
(* earlier row, which the cursor has left.                                 *)
FormsAgree(js, rows, threadRows, n) ==
    LET Shown(seq) ==
          [k \in DOMAIN seq |->
             IF seq[k] /= <<>> /\ Missing(seq[k][1]) THEN <<>> ELSE seq[k]]
        order == [i \in DOMAIN js |-> i]
    IN  /\ ParallelRows(js, order, n) = SequentialRows(js, order, n)
        /\ ResolverIndependent =>
             ParallelRows(js, threadRows, n) = SequentialRows(js, rows, n)
        /\ (\A i, k \in DOMAIN js :
               i < k /\ Missing(rows[k]) => Missing(rows[i])) =>
             Shown(SequentialRows(js, rows, n)) = MergeTimeframes(js, rows, n)
EnrichmentAgrees ==
    LET js == AcceptedBars
    IN  FormsAgree(js, InfoRows(js), ThreadRows(js), clock)

(* "The cursor-backed (parallel) path equals the sequential path", says    *)
(* the test of causal_enrich_bars: every primary bar is shown the same     *)
(* informative values in both forms, whatever the metrics.                 *)
ParallelEqualsSequential ==
    ParallelRows(AcceptedBars, ThreadRows(AcceptedBars), clock)
        = SequentialRows(AcceptedBars, InfoRows(AcceptedBars), clock)
=============================================================================
