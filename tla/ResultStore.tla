----------------------------- MODULE ResultStore -----------------------------
(***************************************************************************)
(* InMemoryBacktestResultStore over SqlBacktestResultRepository: a bounded *)
(* cache in memory under a lock, and a row per result.  save() stamps the  *)
(* record, puts it in the cache and writes the row in three steps, so a    *)
(* delete, a second save or a restart can come between them.  A result is  *)
(* its number; what is kept of it is its symbol.                           *)
(***************************************************************************)
EXTENDS ResultProjection, FiniteSets

CONSTANTS
    NResults,       \* bound: results saved in one behaviour
    MaxResults,     \* max_results
    Symbol,         \* the symbol each result was saved under
    Upper,          \* str.upper on the symbols
    Trades,         \* the trades of each result, by the sorted field
    Equity,         \* the equity curve of each result
    PageSizes       \* the page sizes clients ask for

Results == 1..NResults

ASSUME StoreAssumption ==
    /\ NResults \in Nat /\ MaxResults \in Nat \ {0}
    /\ DOMAIN Symbol = Results /\ DOMAIN Trades = Results /\ DOMAIN Equity = Results
    /\ PageSizes \subseteq Int
    /\ \A r \in Results :
          /\ Upper[Upper[Symbol[r]]] = Upper[Symbol[r]]
          /\ Trades[r] \in Seq(Int)
          /\ Equity[r] \in Seq([day : Int, drawdown : Int])

VARIABLES
    created,    \* results in the order of their created_at stamps
    memory,     \* keys of _records
    rows,       \* rows of the table, in the order of their ids
    saver,      \* how far the save of each result has come
    deleter,    \* result a request thread is half way through deleting
    listing,    \* _records as a listing has copied them, or NoListing
    deleted     \* history: results deleted after they had been saved

store == <<created, memory, rows, saver, deleter, listing, deleted>>

NoResult == 0
NoListing == {NoResult}
SaverStates == {"none", "record", "put", "saved", "raised"}
Rows == ToSet(rows)

StoreTypeOK ==
    /\ created \in Seq(Results) /\ rows \in Seq(Results)
    /\ memory \subseteq Results /\ Cardinality(memory) <= MaxResults
    /\ saver \in [Results -> SaverStates]
    /\ deleter \in Results \cup {NoResult} /\ deleted \subseteq Results
    /\ listing \in (SUBSET Results) \cup {NoListing}

StoreInit ==
    /\ created = <<>> /\ rows = <<>> /\ memory = {}
    /\ saver = [r \in Results |-> "none"]
    /\ deleter = NoResult /\ listing = NoListing /\ deleted = {}

-----------------------------------------------------------------------------
(* save: _record_from_result stamps the record outside the lock. *)
Record(r) ==
    /\ saver[r] = "none"
    /\ created' = Append(created, r)
    /\ saver' = [saver EXCEPT ![r] = "record"]
    /\ UNCHANGED <<memory, rows, deleter, listing, deleted>>

Age(r) == CHOOSE i \in 1..Len(created) : created[i] = r

(* _enforce_max_results_locked: the oldest stamps go until the rest fit. *)
Fitting(rs) ==
    {r \in rs : Cardinality({q \in rs : Age(q) >= Age(r)}) <= MaxResults}

Put(r) ==
    /\ saver[r] = "record"
    /\ memory' = Fitting(memory \cup {r})
    /\ saver' = [saver EXCEPT ![r] = "put"]
    /\ UNCHANGED <<created, rows, deleter, listing, deleted>>

(* Mutant: a result that was already evicted is not written. *)
PersistCached(r) ==
    /\ saver[r] = "put"
    /\ rows' = IF r \in memory THEN Append(rows, r) ELSE rows
    /\ saver' = [saver EXCEPT ![r] = "saved"]
    /\ UNCHANGED <<created, memory, deleter, listing, deleted>>

(* _persist: one transaction, and only then is the id returned. *)
Persist(r) ==
    /\ saver[r] = "put"
    /\ rows' = Append(rows, r)
    /\ saver' = [saver EXCEPT ![r] = "saved"]
    /\ UNCHANGED <<created, memory, deleter, listing, deleted>>

(* The transaction, or the serialisation before it, raises: the record     *)
(* stays in memory, and StoreBacktestResultUseCase answers with an error   *)
(* and no id.                                                              *)
PersistRaises(r) ==
    /\ saver[r] = "put"
    /\ saver' = [saver EXCEPT ![r] = "raised"]
    /\ UNCHANGED <<created, memory, rows, deleter, listing, deleted>>

(* delete: the record under the lock, then the row. *)
DeleteRecord(r) ==
    /\ deleter = NoResult /\ r \in memory \cup Rows
    /\ memory' = memory \ {r}
    /\ deleter' = r
    /\ UNCHANGED <<created, rows, saver, listing, deleted>>

(* Mutant: the row of a result that was still cached is left. *)
DeleteRowSkipped ==
    /\ deleter # NoResult
    /\ rows' = rows
    /\ deleted' = IF saver[deleter] = "saved" THEN deleted \cup {deleter} ELSE deleted
    /\ deleter' = NoResult
    /\ UNCHANGED <<created, memory, saver, listing>>

(* result_id is a unique column, so at most one row goes. *)
DeleteRow ==
    /\ deleter # NoResult
    /\ rows' = RemoveFirst(rows, deleter)
    /\ deleted' = IF saver[deleter] = "saved" THEN deleted \cup {deleter} ELSE deleted
    /\ deleter' = NoResult
    /\ UNCHANGED <<created, memory, saver, listing>>

(* list_results copies the records under the lock...                       *)
ListRecords ==
    /\ listing = NoListing
    /\ listing' = memory
    /\ UNCHANGED <<created, memory, rows, saver, deleter, deleted>>

(* ...and reads the rows without it; what it returns is ListResults.       *)
ListRows ==
    /\ listing # NoListing
    /\ listing' = NoListing
    /\ UNCHANGED <<created, memory, rows, saver, deleter, deleted>>

(* The process is gone with its memory and with the saves, the delete and  *)
(* the listing under way.                                                  *)
StoreRestart ==
    /\ memory' = {} /\ listing' = NoListing
    /\ saver' = [r \in Results |-> IF saver[r] \in {"record", "put"} THEN "raised"
                                   ELSE saver[r]]
    /\ deleter' = NoResult
    /\ UNCHANGED <<created, rows, deleted>>

(* The store on its own: request threads save, delete and list, the        *)
(* process may be restarted at any moment.                                 *)
StoreNext ==
    \/ \E r \in Results :
          Record(r) \/ Put(r) \/ Persist(r) \/ PersistRaises(r) \/ DeleteRecord(r)
    \/ DeleteRow
    \/ ListRecords
    \/ ListRows
    \/ StoreRestart

StoreSpec == StoreInit /\ [][StoreNext]_store

-----------------------------------------------------------------------------
(* Readers.  get looks in memory and then for the row. *)
Get(r) == r \in memory \cup Rows

AnySymbol == "any"

(* _matches: upper case on both sides. *)
Matches(r, symbol) == symbol = AnySymbol \/ Upper[Symbol[r]] = Upper[symbol]

(* list_metadata: newest rows first, and the filter is only upper-cased on *)
(* one side.                                                               *)
ListMetadata(symbol, limit) ==
    LET hits   == {k \in DOMAIN rows :
                     symbol = AnySymbol \/ Symbol[rows[k]] = Upper[symbol]}
        newest == ByRank([k \in hits |-> Cardinality({j \in hits : j >= k})])
        found  == [p \in DOMAIN newest |-> rows[newest[p]]]
    IN  SubSeq(found, 1, IF limit < Len(found) THEN limit ELSE Len(found))

(* Results of the cache, youngest first. *)
YoungestFirst(rs) == ByRank([r \in rs |-> Cardinality({q \in rs : Age(q) >= Age(r)})])

ClampLimit(limit) ==
    LET top == IF limit < MaxResults THEN limit ELSE MaxResults
    IN  IF top < 1 THEN 1 ELSE top

(* Mutant: rows are only looked at when the cache is empty. *)
ListResultsCacheFirst(records, symbol, limit) ==
    LET n      == ClampLimit(limit)
        cached == YoungestFirst({r \in records : Matches(r, symbol)})
        all    == IF cached = <<>> THEN ListMetadata(symbol, n) ELSE cached
    IN  SubSeq(all, 1, IF n < Len(all) THEN n ELSE Len(all))

(* list_results, from the records copied before: the rows keep their       *)
(* place, copied records that have no row among them come after.           *)
ListResults(records, symbol, limit) ==
    LET n      == ClampLimit(limit)
        listed == ListMetadata(symbol, n)
        cached == YoungestFirst({r \in records : Matches(r, symbol)} \ ToSet(listed))
        all    == listed \o cached
    IN  SubSeq(all, 1, IF n < Len(all) THEN n ELSE Len(all))

(* GetBacktestTradesUseCase, GetBacktestEquityUseCase: NotFound for an id  *)
(* nobody has, otherwise one page.                                         *)
NotFound == <<Missing>>

GetBacktestTrades(r, page, size, dir) ==
    IF ~Get(r) THEN NotFound ELSE PageItems(SortedTrades(Trades[r], dir), page, size)

GetBacktestEquity(r, mode, page, size) ==
    IF ~Get(r) THEN NotFound ELSE PageItems(EquityPoints(Equity[r], mode), page, size)

-----------------------------------------------------------------------------
(* A result whose save returned an id is readable until somebody deletes   *)
(* it, although it may have been evicted before its row was written and    *)
(* the process may have been restarted (save, get).                        *)
SavedIsReadable ==
    \A r \in Results :
        saver[r] = "saved" /\ r \notin deleted => Get(r)

(* A result deleted after its save had returned stays gone, from the cache *)
(* and from the table (delete, get).                                       *)
DeletedStaysGone == \A r \in deleted : ~Get(r)

(* A listing reads the cache and then the table, and whatever is saved,    *)
(* evicted or deleted in between, an unfiltered one is full: it has as     *)
(* many results as the clamped limit allows or as could be read all the    *)
(* while, each once and each readable at one of the two moments.  A result *)
(* that only reached the cache in between may be missing until its row is  *)
(* written.  The same holds of a filter, for the results saved under an    *)
(* upper-case symbol (list_results, list_metadata).                        *)
ListingFull ==
    listing # NoListing =>
    \A limit \in 0..(MaxResults + 1) : \A symbol \in {AnySymbol} \cup ToSet(Symbol) :
        LET ls      == ListResults(listing, symbol, limit)
            n       == ClampLimit(limit)
            certain == {r \in Rows \cup (listing \cap memory) :
                           symbol = AnySymbol \/ Symbol[r] = Upper[symbol]}
        IN  /\ \A r \in ToSet(ls) : (r \in listing \/ Get(r)) /\ Matches(r, symbol)
            /\ Cardinality(ToSet(ls)) = Len(ls)
            /\ Len(ls) <= n
            /\ Len(ls) >= (IF Cardinality(certain) < n THEN Cardinality(certain) ELSE n)

(* A list shown in pages: its page numbers, the places on them, the order  *)
(* in which a reader turning the pages comes by them, and what is there.   *)
PageNumbers(total, size) == 0..(TotalPages(total, PageSize(size)) - 1)
Places(shown) == UNION {{<<p, i>> : i \in DOMAIN shown[p]} : p \in DOMAIN shown}
Earlier(a, b) == a[1] < b[1] \/ (a[1] = b[1] /\ a[2] < b[2])
At(shown, a) == shown[a[1]][a[2]]

(* Ascending or descending by value, the trades without one last or first; *)
(* equal values stay in the order of the trades.                           *)
InOrder(trades, dir, i, k) ==
    LET Rises(x, y) == x # Missing /\ (y = Missing \/ x < y)
    IN  \/ trades[i] = trades[k] /\ i < k
        \/ IF dir = "desc" THEN Rises(trades[k], trades[i]) ELSE Rises(trades[i], trades[k])

(* Turning the pages of a readable result shows every trade, whatever page *)
(* size was asked for, and each trade before all that the order puts after *)
(* it, so that none is shown twice; a page number beyond the end shows the *)
(* last page and a negative one the first (sorted_trades, page_items).     *)
PagesCover ==
    \A r \in {q \in Results : Get(q)}, dir \in {"asc", "desc"} : \A size \in PageSizes :
        LET trades  == Trades[r]
            numbers == PageNumbers(Len(trades), size)
            shown   == [p \in numbers |-> GetBacktestTrades(r, p, size, dir)]
        IN  /\ {At(shown, a) : a \in Places(shown)} = DOMAIN trades
            /\ \A a, b \in Places(shown) :
                  Earlier(a, b) => InOrder(trades, dir, At(shown, a), At(shown, b))
            /\ \A p \in -2..(Len(trades) + 1) :
                  \/ p \in numbers
                  \/ numbers = {} /\ GetBacktestTrades(r, p, size, dir) = <<>>
                  \/ \E q \in numbers :
                        /\ IF p < 0 THEN q = 0 ELSE q + 1 \notin numbers
                        /\ GetBacktestTrades(r, p, size, dir) = shown[q]

(* The pages of the daily and of the weekly equity curve show each day     *)
(* once, at the equity the full curve ends it at.  The pages of the full   *)
(* curve, and of the daily one if the dates are no ISO dates, show every   *)
(* point.  The pages of the drawdown events show just the days that were   *)
(* under water, each once and in order, at their lowest point              *)
(* (equity_points, page_items).                                            *)
EquityViewsAgree ==
    \A r \in {q \in Results : Get(q)}, size \in PageSizes :
        LET curve       == Equity[r]
            points      == ToSet(curve)
            under       == {pt \in points : pt.drawdown < 0}
            Shown(mode) == [p \in PageNumbers(Len(EquityPoints(curve, mode)), size) |->
                              GetBacktestEquity(r, mode, p, size)]
            worst       == Shown("drawdown_events")
            byDay       == IF HasIsoDates(curve) THEN {"daily", "weekly"} ELSE {"weekly"}
        IN  /\ \A mode \in byDay :
                  LET daily == Shown(mode)
                  IN  /\ {At(daily, a).day : a \in Places(daily)} = {pt.day : pt \in points}
                      /\ \A a, b \in Places(daily) :
                            Earlier(a, b) => At(daily, a).day # At(daily, b).day
                      /\ \A a \in Places(daily) : \E k \in DOMAIN curve :
                            /\ curve[k] = At(daily, a)
                            /\ \A j \in (k + 1)..Len(curve) : curve[j].day # curve[k].day
            /\ \A mode \in {"full", "daily"} \ byDay :
                  {At(Shown(mode), a) : a \in Places(Shown(mode))} = points
            /\ {At(worst, a).day : a \in Places(worst)} = {pt.day : pt \in under}
            /\ \A a, b \in Places(worst) : Earlier(a, b) => At(worst, a).day < At(worst, b).day
            /\ \A a \in Places(worst) :
                  /\ At(worst, a) \in under
                  /\ \A pt \in under : pt.day = At(worst, a).day =>
                                          At(worst, a).drawdown <= pt.drawdown

(* Together, with the cache within its limit: listings, pages and curves   *)
(* show the stored results completely and consistently.                    *)
ViewsAgree == StoreTypeOK /\ ListingFull /\ PagesCover /\ EquityViewsAgree

=============================================================================
