------------------------------ MODULE BarCache ------------------------------
(***************************************************************************)
(* The bar cache: one symbol's parquet file (data/cache.py), shared by     *)
(* every process that reads bars through data/alpaca_provider.py without   *)
(* any lock.  get_bars reads the file, decides what to ask the vendor for, *)
(* merges the answer into the file and serves what the file then holds.    *)
(*                                                                         *)
(* A bar is known by its day; what matters of it is whether it was final   *)
(* when it was fetched and how many corporate actions its prices are       *)
(* adjusted for.  The vendor's history is whatever it would answer now: a  *)
(* split or dividend rescales every bar before its ex-date.  Each file     *)
(* operation and each request is an action, and a process may die between  *)
(* any two.                                                                *)
(*                                                                         *)
(* Bounds: MaxDay days, every one a trading day; corporate actions on the  *)
(* days MaybeEx; MaxCalls calls altogether.  A request is answered in full *)
(* or not at all.                                                          *)
(***************************************************************************)
EXTENDS Integers, FiniteSets

CONSTANTS Readers,     \* processes that call get_bars
          Backfillers, \* those that may call backfill_range: the CLI
          MaxDay,      \* bound: the last day
          MaxCalls,    \* bound: calls of all processes together
          MaybeEx,     \* bound: the days a corporate action may go ex
          GapWindow    \* days back from today that are scanned for gaps

ASSUME BarCacheAssumption ==
    /\ MaxDay \in Nat /\ MaxCalls \in Nat /\ GapWindow \in Nat
    /\ Backfillers \subseteq Readers

VARIABLES parquet,  \* the bars in the file, by day
          call,     \* each process's call
          today, market,
          exDates,  \* the ex-dates the vendor adjusts for
          calls,    \* calls made so far
          raced,    \* history: a write replaced rows its call had not taken in
          extended  \* history: a call fetched days before the cache's first

cacheVars == <<parquet, call, today, market, exDates, calls, raced, extended>>
world == <<today, market, exDates>>
history == <<raced, extended>>

Days == 0..MaxDay
None == [d \in {} |-> 0]

\* The vendor's bar of day d, were it asked now.
Scale(d) == Cardinality({x \in exDates : x > d})
Exists(d) == d < today \/ (d = today /\ market # "before")
VendorBar(d) == [scale |-> Scale(d), final |-> d < today \/ market = "after"]
Vendor(from, to) == [d \in {e \in from..to : Exists(e)} |-> VendorBar(d)]

First(bars) == CHOOSE d \in DOMAIN bars : \A e \in DOMAIN bars : d <= e
Final(bars) == CHOOSE d \in DOMAIN bars : \A e \in DOMAIN bars : d >= e
Lower(a, b) == IF a < b THEN a ELSE b
Higher(a, b) == IF a > b THEN a ELSE b

Slice(bars, from, to) == [d \in DOMAIN bars \cap (from..to) |-> bars[d]]

\* Rows of one day: those of the newer frame win.
Merged(newer, older) ==
    [d \in DOMAIN newer \cup DOMAIN older |-> IF d \in DOMAIN newer THEN newer[d] ELSE older[d]]

\* Bar a shows no less than bar b.
AsNew(a, b) == a.scale >= b.scale /\ (b.final => a.final)

Idle == [at |-> "idle", start |-> 0, end |-> 0, todo |-> {},
         got |-> None, base |-> None, fill |-> FALSE, hit |-> FALSE,
         probe |-> "none", known |-> {}, overlapped |-> FALSE, lost |-> FALSE]

Init == /\ parquet = None
        /\ call = [p \in Readers |-> Idle]
        /\ today = 0 /\ market = "before"
        /\ exDates = {} /\ calls = 0
        /\ raced = FALSE /\ extended = FALSE

Become(p, c) == call' = [call EXCEPT ![p] = c]

-----------------------------------------------------------------------------
(* get_bars: what to ask for                                               *)

\* Phase 1's test for serving the file as it is.
FullHit(bars, start, end) ==
    /\ bars # None
    /\ First(bars) <= start /\ Final(bars) >= end /\ end < today

FrontRanges(bars, start, end) ==
    IF start < First(bars) THEN {<<start, Lower(end, First(bars))>>} ELSE {}

TailAfterCache(bars, start, end) ==
    LET from == IF end >= today THEN Higher(start, Lower(Final(bars) + 1, today))
                ELSE Higher(start, Final(bars) + 1)
    IN  IF (end >= today \/ end > Final(bars)) /\ from <= end THEN {<<from, end>>} ELSE {}

\* The runs of missing days in the recent window, each with the cached day
\* that ends it.
Runs(bars, start, end) ==
    LET from == Higher(Higher(start, First(bars)), today - GapWindow)
        to == Lower(end, Final(bars))
        missing == (from..to) \ DOMAIN bars
    IN  {r \in missing \X (from..to) :
            /\ r[1] - 1 \notin missing
            /\ r[1]..(r[2] - 1) \subseteq missing
            /\ r[1] <= r[2] /\ (r[2] = to \/ r[2] \notin missing)}

Gaps(bars, start, end) ==
    IF start >= First(bars) /\ end <= Final(bars) THEN Runs(bars, start, end) ELSE {}

\* The requests of several symbols are sent range by range, so those of one
\* symbol come in any order.
Missing(bars, start, end) ==
    IF bars = None THEN {<<start, end>>}
    ELSE FrontRanges(bars, start, end) \cup TailAfterCache(bars, start, end)
             \cup Gaps(bars, start, end)

\* The call starts: it reads the file and the clock.
GetBars(p, start, end) ==
    LET hit == FullHit(parquet, start, end)
        todo == Missing(parquet, start, end)
    IN  /\ call[p].at = "idle" /\ calls < MaxCalls
        /\ start <= end /\ end <= today
        /\ Become(p, [Idle EXCEPT !.at = IF hit THEN "probe"
                                         ELSE IF todo = {} THEN "reread" ELSE "fetch",
                                  !.start = start, !.end = end,
                                  !.todo = IF hit THEN {} ELSE todo,
                                  !.base = IF hit THEN parquet ELSE None, !.hit = hit])
        /\ calls' = calls + 1
        /\ extended' = (extended \/ (parquet # None /\ start < First(parquet)))
        /\ UNCHANGED <<parquet, world, raced>>

-----------------------------------------------------------------------------
(* A full hit: is the adjustment epoch still current?                      *)

\* Fault: the newest cached bar is compared.
ProbeLatest(p) ==
    LET c == call[p]
        d == Final(c.base)
        same == c.base[d].scale = Scale(d)
    IN  /\ c.at = "probe"
        /\ \E answered \in BOOLEAN :
              Become(p, [c EXCEPT !.at = IF answered /\ ~same THEN "heal" ELSE "served",
                                  !.probe = IF answered THEN "answered" ELSE "unknown",
                                  !.known = exDates])
        /\ UNCHANGED <<parquet, world, calls, history>>

\* _adjustment_epoch_current: the earliest cached bar against the vendor's;
\* no answer serves the cache.
Probe(p) ==
    LET c == call[p]
        d == First(c.base)
        same == c.base[d].scale = Scale(d)
    IN  /\ c.at = "probe"
        /\ \E answered \in BOOLEAN :
              Become(p, [c EXCEPT !.at = IF answered /\ ~same THEN "heal" ELSE "served",
                                  !.probe = IF answered THEN "answered" ELSE "unknown",
                                  !.known = exDates])
        /\ UNCHANGED <<parquet, world, calls, history>>

\* _heal_stale_adjustment: the whole cached range is fetched again ...
HealFetch(p) ==
    LET c == call[p]
    IN  /\ c.at = "heal"
        /\ \/ Become(p, [c EXCEPT !.at = "replace", !.known = exDates,
                                  !.got = Vendor(First(c.base), Final(c.base))])
           \/ Become(p, [c EXCEPT !.at = "served", !.probe = "unknown"])
        /\ UNCHANGED <<parquet, world, calls, history>>

\* A call that is going to write what it makes of the file it has read.
Reading(c) == c.at \in {"probe", "heal", "replace", "fetch", "merge", "write"}

\* The file is replaced.  The other calls that have read it have read an older
\* one; and if this one had, the rows they have just written are gone.
Overtaken(p, c) ==
    [c EXCEPT !.overlapped = @ \/ Reading(c),
              !.lost = @ \/ (c.at = "reread" /\ call[p].overlapped)]

Written(p, c, bars) ==
    /\ parquet' = bars
    /\ call' = [q \in Readers |-> IF q = p THEN c ELSE Overtaken(p, call[q])]
    /\ raced' = (raced \/ call[p].overlapped)

\* ... and replaces the file; a write error serves the stale cache.
HealReplace(p) ==
    LET c == call[p]
    IN  /\ c.at = "replace"
        /\ \/ Written(p, [c EXCEPT !.at = "served", !.base = c.got, !.got = None], c.got)
           \/ /\ Become(p, [c EXCEPT !.at = "served", !.got = None, !.probe = "unknown"])
              /\ UNCHANGED <<parquet, raced>>
        /\ UNCHANGED <<world, calls, extended>>

-----------------------------------------------------------------------------
(* A miss: fetch, merge, read back                                         *)

\* One request of Phase 2; after bounded retries an error leaves the call.
Fetch(p) ==
    /\ call[p].at = "fetch"
    /\ \/ \E r \in call[p].todo :
             LET c == call[p]
                 rest == c.todo \ {r}
                 got == Merged(Vendor(r[1], r[2]), c.got)
             IN  Become(p, [c EXCEPT !.todo = rest, !.got = got,
                                     !.at = IF rest # {} THEN "fetch"
                                            ELSE IF got # None THEN "merge"
                                            ELSE IF c.fill THEN "idle" ELSE "reread"])
       \/ Become(p, Idle)
    /\ UNCHANGED <<parquet, world, calls, history>>

\* Frame f has no older a row than g of any day they share.
AsNewAs(f, g) == \A d \in DOMAIN f \cap DOMAIN g : AsNew(f[d], g[d])

\* If the oldest bar of f is adjusted as the vendor adjusts it now, so is every bar.
Oldest(f, e) == e \in DOMAIN f /\ \A d \in DOMAIN f : e <= d
Epoch(f) == \A e, d \in DOMAIN f :
    Oldest(f, e) /\ f[e].scale = Scale(e) => f[d].scale = Scale(d)

\* merged_view reads the file a second time, so that what was written meanwhile
\* is taken in.  But the fetched rows win: they must not be older than those.
TakenIn(c) == AsNewAs(c.got, parquet) /\ Epoch(Merged(c.got, parquet))

MergeRead(p) ==
    LET c == call[p]
    IN  /\ c.at = "merge"
        /\ Become(p, [c EXCEPT !.at = "write", !.base = Merged(c.got, parquet),
                               !.overlapped = @ /\ ~TakenIn(c)])
        /\ UNCHANGED <<parquet, world, calls, history>>

\* The call has written, or could not.
Done(c, at) == IF c.fill THEN Idle ELSE [c EXCEPT !.at = at, !.base = None, !.overlapped = FALSE]

\* Fault: the file is replaced by what was fetched.
WriteFetched(p) ==
    LET c == call[p]
    IN  /\ c.at = "write"
        /\ \/ Written(p, Done(c, "reread"), c.got)
           \/ /\ Become(p, Done(c, "view"))
              /\ UNCHANGED <<parquet, raced>>
        /\ UNCHANGED <<world, calls, extended>>

\* os.replace: atomic, or blocked by a reader until the budget is spent, and
\* then the call is served from memory.  A backfill is not.
MergeWrite(p) ==
    LET c == call[p]
    IN  /\ c.at = "write"
        /\ \/ Written(p, Done(c, "reread"), c.base)
           \/ /\ Become(p, Done(c, "view"))
              /\ UNCHANGED <<parquet, raced>>
        /\ UNCHANGED <<world, calls, extended>>

\* Fault: the contended call serves the file without what it fetched.
ViewOfFile(p) ==
    LET c == call[p]
    IN  /\ c.at = "view"
        /\ Become(p, [c EXCEPT !.at = "served", !.base = parquet])
        /\ UNCHANGED <<parquet, world, calls, history>>

MergedView(p) ==
    LET c == call[p]
    IN  /\ c.at = "view"
        /\ Become(p, [c EXCEPT !.at = "served", !.base = Merged(c.got, parquet)])
        /\ UNCHANGED <<parquet, world, calls, history>>

\* After a persist, or when nothing was fetched, the file is what is served.
ReadBack(p) ==
    LET c == call[p]
    IN  /\ c.at = "reread"
        /\ Become(p, [c EXCEPT !.at = "served", !.base = parquet])
        /\ UNCHANGED <<parquet, world, calls, history>>

\* The answer is used: a runner evaluates it, a backtest replays it.
Use(p) == /\ call[p].at = "served"
          /\ Become(p, Idle)
          /\ UNCHANGED <<parquet, world, calls, history>>

\* backfill_range: no look at the cache, one request, one merge.
Backfill(p, start, end) ==
    /\ p \in Backfillers
    /\ call[p].at = "idle" /\ calls < MaxCalls
    /\ start <= end /\ end <= today
    /\ Become(p, [Idle EXCEPT !.at = "fetch", !.todo = {<<start, end>>}, !.fill = TRUE])
    /\ calls' = calls + 1
    /\ extended' = (extended \/ (parquet # None /\ start <= First(parquet)))
    /\ UNCHANGED <<parquet, world, raced>>

-----------------------------------------------------------------------------
(* Death, the clock and the vendor                                         *)

\* The temp file of a write is the only trace, and nobody reads it.
Kill(p) == /\ call[p].at # "idle"
           /\ Become(p, Idle)
           /\ UNCHANGED <<parquet, world, calls, history>>

Clock ==
    /\ \/ market = "before" /\ market' = "open" /\ UNCHANGED today
       \/ market = "open" /\ market' = "after" /\ UNCHANGED today
       \/ market = "after" /\ today < MaxDay /\ market' = "before" /\ today' = today + 1
    /\ UNCHANGED <<parquet, call, exDates, calls, history>>

\* A split or a dividend goes ex today.
CorporateAction ==
    /\ today \in MaybeEx \ exDates
    /\ exDates' = exDates \cup {today}
    /\ UNCHANGED <<parquet, call, today, market, calls, history>>

Missed(p) == Fetch(p) \/ MergeRead(p) \/ MergeWrite(p) \/ MergedView(p) \/ ReadBack(p)
Checked(p) == Probe(p) \/ HealFetch(p) \/ HealReplace(p)

Next == \/ \E p \in Readers :
              \/ \E start, end \in Days : GetBars(p, start, end) \/ Backfill(p, start, end)
              \/ Checked(p) \/ Missed(p) \/ Use(p) \/ Kill(p)
        \/ Clock \/ CorporateAction

Spec == Init /\ [][Next]_cacheVars

-----------------------------------------------------------------------------

Bar == [scale : Nat, final : BOOLEAN]

\* Types: the file and every frame in memory hold bars of known days.
TypeOK ==
    /\ DOMAIN parquet \subseteq 0..today
    /\ \A d \in DOMAIN parquet : parquet[d] \in Bar
    /\ \A p \in Readers : \A d \in DOMAIN call[p].base : call[p].base[d] \in Bar

Served(p) == call[p].at = "served"

Covers(bars, older) ==
    \A d \in DOMAIN older : d \in DOMAIN bars /\ AsNew(bars[d], older[d])

\* A range served from the cache is of one adjustment epoch, the one the probe
\* or the heal saw, although only its earliest bar was compared.  It may not be
\* once a write has replaced rows its call had not taken in, or once a call has
\* put fresh days in front of older ones.
HitIsOneEpoch ==
    \A p \in Readers :
        Served(p) /\ call[p].probe = "answered" =>
            \/ raced \/ extended
            \/ \A d \in DOMAIN Slice(call[p].base, call[p].start, call[p].end) :
                  call[p].base[d].scale = Cardinality({x \in call[p].known : x > d})

\* A call that returns serves every bar it fetched, also when the file could
\* not be replaced and whoever else wrote before, after or in between; unless,
\* before it reads the file back, a write that had not taken in the file of this
\* call replaces it.
ServesItsFetch ==
    \A p \in Readers : Served(p) /\ ~call[p].hit =>
        call[p].lost \/ Covers(call[p].base, call[p].got)

\* Nothing is taken back: no write drops a day or puts an older bar in its
\* place, whoever is killed wherever and whatever was lost before, unless its
\* own call has not taken in what others wrote: since merged_view's second read
\* (the heal's first), or older rows than those it fetched before.
Overtakes(p) == call[p].overlapped /\ call[p].at \in {"replace", "write"} /\ call'[p] # call[p]
NothingTakenBack == [][(\E p \in Readers : Overtakes(p)) \/ Covers(parquet', parquet)]_parquet

\* "the current session's daily bar is provisional until the session is
\* complete" (docs/SRS.md:97): a bar of a past day is served only when final.
HistoryIsFinal ==
    \A p \in Readers : Served(p) =>
        \A d \in DOMAIN Slice(call[p].base, call[p].start, call[p].end) :
            d < call[p].end => call[p].base[d].final

\* "The cache is append-only in practice, which dodges concurrency and
\* write-contention concerns" (docs/adr/0002-parquet-as-cache.md:20).
AppendOnly == [][DOMAIN parquet \subseteq DOMAIN parquet']_parquet
=============================================================================
