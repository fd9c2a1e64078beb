------------------------- MODULE SessionLoopProofs -------------------------
(***************************************************************************)
(* Safety of the intraday poll loop for any length of day, session and     *)
(* bar, any lag of the vendor and any outcomes of the flatten orders: a    *)
(* lot is sold at most once, whatever is carried overnight is told unless  *)
(* the store refused it, and nothing is left to evaluate once drained.     *)
(***************************************************************************)
EXTENDS SessionLoop, FiniteSetTheorems, TLAPS

-----------------------------------------------------------------------------
(* The calendar                                                            *)

LEMMA Constants ==
    /\ DayLen \in Nat \ {0} /\ Open \in Nat /\ Close \in Nat /\ Bars \in Nat \ {0}
    /\ Bar \in Nat \ {0} /\ Lead \in Nat /\ MaxLag \in Nat /\ Allowance \in Nat
    /\ Budget \in Nat
    /\ MaxNow \in [{"same", "multi"} -> Nat] /\ MaxHeld \in [{"same", "multi"} -> Nat]
    /\ Open + Bars * Bar = Close
    /\ MaxLag + Bar < Allowance /\ Close + MaxLag < DayLen
    /\ Close + Bar <= DayLen + Open
    /\ \A c \in EarlyCloses \cup {Close} : c \in Nat /\ Open + Bar + MaxLag < c /\ c <= Close
    /\ \A t \in Tables : t # NoTable => t \in Open..Close
BY SessionLoopAssumption

\* Where an instant falls: its day and its tick.
LEMMA Calendar ==
    ASSUME NEW t \in Nat
    PROVE  /\ t \div DayLen \in Nat /\ TickOf(t) \in 0..(DayLen - 1)
           /\ t = (t \div DayLen) * DayLen + TickOf(t)
BY Constants DEF TickOf

LEMMA Division ==
    ASSUME NEW L \in Nat \ {0}, NEW t \in Nat, NEW d \in Nat, d * L <= t, t < d * L + L
    PROVE  t \div L = d /\ t % L = t - d * L
<1>1. PICK e \in Nat : e = t \div L
  OBVIOUS
<1>2. PICK k \in 0..(L - 1) : k = t % L
  OBVIOUS
<1>3. t = e * L + k
  BY <1>1, <1>2
<1>4. ASSUME NEW i \in Nat, NEW j \in Nat, i < j
      PROVE  j * L >= i * L + L
  <2>1. PICK x \in Nat : j = i + 1 + x
    <3>1. j - i - 1 \in Nat /\ j = i + 1 + (j - i - 1)
      BY <1>4
    <3> QED BY <3>1
  <2>2. j * L = i * L + L + x * L /\ x * L >= 0
    BY <2>1
  <2>3. i * L \in Nat /\ j * L \in Nat /\ x * L \in Nat
    OBVIOUS
  <2> QED BY <2>2, <2>3
<1>5. e * L \in Nat /\ d * L \in Nat
  OBVIOUS
<1>6. ~(e < d)
  BY <1>3, <1>4, <1>5
<1>7. ~(d < e)
  BY <1>3, <1>4, <1>5
<1>8. e = d
  BY <1>6, <1>7
<1>9. k = t - d * L
  BY <1>3, <1>5, <1>8
<1> QED BY <1>1, <1>2, <1>8, <1>9

LEMMA SameDay ==
    ASSUME NEW t \in Nat, NEW d \in Nat, d * DayLen <= t, t < d * DayLen + DayLen
    PROVE  t \div DayLen = d /\ TickOf(t) = t - d * DayLen
BY Constants, Division DEF TickOf

\* The next tick is one of the same day, or the first of the next.
LEMMA NextTick ==
    ASSUME NEW t \in Nat, NEW u \in Nat, u = t + 1
    PROVE  \/ /\ TickOf(u) = 0 /\ u \div DayLen = (t \div DayLen) + 1
              /\ TickOf(t) = DayLen - 1
           \/ /\ TickOf(u) = TickOf(t) + 1 /\ u \div DayLen = t \div DayLen
<1>1. PICK d \in Nat : d = t \div DayLen
  BY Calendar
<1>2. PICK k \in 0..(DayLen - 1) : k = TickOf(t)
  BY Calendar
<1>3. t = d * DayLen + k
  BY <1>1, <1>2, Calendar
<1>4. PICK e \in Nat : e = d + 1
  OBVIOUS
<1>5. /\ d * DayLen \in Nat /\ DayLen \in Nat \ {0}
      /\ e * DayLen = d * DayLen + DayLen
  BY <1>4, Constants
<1>6. CASE k = DayLen - 1
  <2>1. e * DayLen <= u /\ u < e * DayLen + DayLen
    BY <1>3, <1>5, <1>6
  <2>2. u \div DayLen = e /\ TickOf(u) = u - e * DayLen
    BY <2>1, SameDay
  <2>3. u - e * DayLen = 0
    BY <1>3, <1>5, <1>6
  <2> QED BY <1>1, <1>2, <1>4, <1>6, <2>2, <2>3
<1>7. CASE k < DayLen - 1
  <2>1. d * DayLen <= u /\ u < d * DayLen + DayLen
    BY <1>3, <1>5, <1>7
  <2>2. u \div DayLen = d /\ TickOf(u) = u - d * DayLen
    BY <2>1, SameDay
  <2>3. u - d * DayLen = k + 1
    BY <1>3, <1>5
  <2> QED BY <1>1, <1>2, <2>2, <2>3
<1> QED BY <1>2, <1>5, <1>6, <1>7

LEMMA LesserOfTwo ==
    ASSUME NEW a \in Int, NEW b \in Int
    PROVE  /\ Min({a, b}) \in {a, b} /\ Min({a, b}) <= a /\ Min({a, b}) <= b
<1>1. \E x \in {a, b} : \A y \in {a, b} : x <= y
  <2>1. CASE a <= b
    BY <2>1
  <2>2. CASE b <= a
    BY <2>2
  <2> QED BY <2>1, <2>2
<1>2. Min({a, b}) = CHOOSE x \in {a, b} : \A y \in {a, b} : x <= y
  BY DEF Min
<1> QED BY <1>1, <1>2

LEMMA StartedMeans ==
    ASSUME NEW k \in Nat, now \in Nat, close \in Nat
    PROVE  Started(k) <=> k <= Bars /\ BarStart(k) < close /\ BarStart(k) <= TickOf(now)
<1>1. PICK b \in Int : b = BarStart(k)
  BY Constants DEF BarStart
<1>2. PICK a \in Int : a = TickOf(now) + 1
  <2>1. TickOf(now) \in 0..(DayLen - 1)
    BY Calendar
  <2> QED BY <2>1
<1>3. Min({close, a}) \in {close, a} /\ Min({close, a}) <= close /\ Min({close, a}) <= a
  BY LesserOfTwo
<1>4. TickOf(now) = a - 1
  <2>1. TickOf(now) \in 0..(DayLen - 1)
    BY Calendar
  <2> QED BY <1>2, <2>1, Constants
<1> QED BY <1>1, <1>2, <1>3, <1>4 DEF Started

\* Bars follow one another.
LEMMA BarByBar ==
    ASSUME NEW k \in Nat
    PROVE  /\ BarStart(k) \in Int /\ BarEnd(k) = BarStart(k) + Bar
           /\ BarStart(k + 1) = BarStart(k) + Bar
           /\ BarStart(1) = Open
           /\ k >= 1 => BarStart(k) >= Open
           /\ k >= 2 => BarStart(k) >= Open + Bar
<1>1. (k + 1 - 1) * Bar = (k - 1) * Bar + Bar
  BY Constants
<1>2. k >= 1 => (k - 1) * Bar >= 0
  BY Constants
<1>3. k >= 2 => (k - 1) * Bar >= Bar
  <2>1. (k - 1) * Bar = (k - 2) * Bar + Bar
    BY Constants
  <2>2. k >= 2 => (k - 2) * Bar >= 0
    BY Constants
  <2> QED BY <2>1, <2>2, Constants
<1> QED BY <1>1, <1>2, <1>3, Constants DEF BarStart, BarEnd

LEMMA BarsAscend ==
    ASSUME NEW j \in Nat, NEW k \in Nat, j <= k
    PROVE  BarStart(j) <= BarStart(k) /\ BarEnd(j) <= BarEnd(k)
<1>1. PICK x \in Nat : k = j + x
  <2>1. k - j \in Nat /\ k = j + (k - j)
    OBVIOUS
  <2> QED BY <2>1
<1>2. (k - 1) * Bar = (j - 1) * Bar + x * Bar /\ x * Bar >= 0
  BY <1>1, Constants
<1> QED BY <1>2, Constants DEF BarStart, BarEnd

-----------------------------------------------------------------------------
(* Types                                                                   *)

Sides == {"none", "buy", "sell"}
Bases == {"none", "overdue", "calendar_fail_closed", "deadline"}
Answers == {"none", "not_sent", "submitted", "rejected", "error"}
Instants == {Never} \cup Nat

Running == [pc : PCs \ {"off"}, at : Nat, open : BOOLEAN, n : 0..Bars, fetched : Nat,
            side : Sides, basis : Bases, answer : Answers, proceed : BOOLEAN,
            past : BOOLEAN, refused : Instants, watermark : Int, quiet : 0..2, drained : Instants,
            retry : Nat, outage : Instants]
Stopped == [pc : {"off"}, why : {"none", "outage"}]

Attempts == {NoAttempt} \cup [status : Unresolved, sold : BOOLEAN]

Typed ==
    /\ mode \in {"same", "multi"} /\ now \in Nat
    /\ close \in EarlyCloses \cup {Close} /\ table \in Tables /\ shown \in 0..Bars
    /\ lot \in [day : Instants] /\ attempt \in Attempts /\ placed \in Int
    /\ alerts \subseteq Nat /\ carried \in Instants
    /\ run \in Running \cup Stopped

LEMMA Whole ==
    ASSUME Typed
    PROVE  /\ Day \in Nat /\ TickOf(now) \in 0..(DayLen - 1) /\ close \in Nat
           /\ now = Day * DayLen + TickOf(now) /\ Day * DayLen \in Nat
           /\ Open + Bar + MaxLag < close /\ close <= Close
           /\ Live <=> run \in Running
<1>1. now \in Nat /\ close \in EarlyCloses \cup {Close}
  BY DEF Typed
<1>2. Day \in Nat /\ TickOf(now) \in 0..(DayLen - 1) /\ now = Day * DayLen + TickOf(now)
  BY <1>1, Calendar DEF Day
<1>3. close \in Nat /\ Open + Bar + MaxLag < close /\ close <= Close
  BY <1>1, Constants
<1>4. Day * DayLen \in Nat
  BY <1>2, Constants
<1>5. Live <=> run \in Running
  BY DEF Typed, Live, Running, Stopped, PCs
<1> QED BY <1>2, <1>3, <1>4, <1>5

\* A refusal counts for the rest of its day.
Kept(day) == IF day = Day THEN day ELSE Never

LEMMA RestedFields ==
    ASSUME NEW r \in Running
    PROVE  /\ Rested(r) \in Running
           /\ Rested(r).pc = "poll" /\ Rested(r).at = 0 /\ Rested(r).basis = "none"
           /\ Rested(r).side = "none" /\ Rested(r).answer = "none"
           /\ Rested(r).past = FALSE /\ Rested(r).proceed = FALSE /\ Rested(r).open = FALSE
           /\ Rested(r).watermark = r.watermark /\ Rested(r).quiet = r.quiet
           /\ Rested(r).drained = r.drained /\ Rested(r).retry = r.retry
           /\ Rested(r).outage = r.outage
           /\ Rested(r).refused = Kept(r.refused)
<1>1. "poll" \in PCs \ {"off"} /\ 0 \in Nat /\ 0 \in 0..Bars /\ "none" \in Sides
      /\ "none" \in Bases /\ "none" \in Answers /\ FALSE \in BOOLEAN
  BY Constants DEF PCs, Sides, Bases, Answers
<1>2. PICK a \in Running : a = [r EXCEPT !.pc = "poll", !.at = 0, !.open = FALSE, !.n = 0]
  BY <1>1 DEF Running
<1>3. /\ a.pc = "poll" /\ a.at = 0 /\ a.open = FALSE /\ a.watermark = r.watermark
      /\ a.refused = r.refused /\ a.quiet = r.quiet /\ a.drained = r.drained /\ a.retry = r.retry /\ a.outage = r.outage
  BY <1>2 DEF Running
<1>4. PICK b \in Running : b = [a EXCEPT !.fetched = 0, !.side = "none", !.basis = "none"]
  BY <1>1 DEF Running
<1>5. /\ b.pc = a.pc /\ b.at = a.at /\ b.open = a.open /\ b.watermark = a.watermark
      /\ b.quiet = a.quiet /\ b.drained = a.drained /\ b.retry = a.retry
      /\ b.outage = a.outage /\ b.side = "none" /\ b.basis = "none" /\ b.refused = a.refused
  BY <1>4 DEF Running
<1>6. PICK c \in Running : c = [b EXCEPT !.answer = "none", !.proceed = FALSE, !.past = FALSE]
  BY <1>1 DEF Running
<1>7. /\ c.pc = b.pc /\ c.at = b.at /\ c.open = b.open /\ c.watermark = b.watermark
      /\ c.quiet = b.quiet /\ c.drained = b.drained /\ c.retry = b.retry
      /\ c.outage = b.outage /\ c.side = b.side /\ c.basis = b.basis
      /\ c.answer = "none" /\ c.proceed = FALSE /\ c.past = FALSE /\ c.refused = b.refused
  BY <1>6 DEF Running
<1>8. PICK f \in Instants : f = Kept(c.refused) /\ f = IF c.refused = Day THEN c.refused ELSE Never
  BY DEF Running, Instants, Kept
<1>9. PICK d \in Running : d = [c EXCEPT !.refused = f]
  BY DEF Running
<1>10. /\ d.pc = c.pc /\ d.at = c.at /\ d.open = c.open /\ d.watermark = c.watermark
       /\ d.quiet = c.quiet /\ d.drained = c.drained /\ d.retry = c.retry
       /\ d.outage = c.outage /\ d.side = c.side /\ d.basis = c.basis
       /\ d.answer = c.answer /\ d.proceed = c.proceed /\ d.past = c.past /\ d.refused = f
  BY <1>9 DEF Running
<1>11. Rested(r) = d
  BY <1>2, <1>4, <1>6, <1>8, <1>9 DEF Rested, Running
<1> QED BY <1>3, <1>5, <1>7, <1>8, <1>10, <1>11

\* What the end of a cycle leaves of the process.
LEMMA FinishFields ==
    ASSUME NEW r \in Running, Finish(r)
    PROVE  /\ run' \in Running
           /\ run'.pc = "poll" /\ run'.at = 0 /\ run'.basis = "none" /\ run'.side = "none"
           /\ run'.answer = "none" /\ run'.past = FALSE /\ run'.proceed = FALSE
           /\ run'.watermark = r.watermark /\ run'.quiet = r.quiet
           /\ run'.drained = r.drained /\ run'.retry = r.retry /\ run'.outage = Never
           /\ run'.refused = Kept(r.refused)
           /\ carried' = IF r.past /\ r.refused # Day /\ lot' # NoLot THEN Day ELSE carried
<1>1. PICK x \in Running : x = Rested(r)
  BY RestedFields
<1>2. run' = [x EXCEPT !.outage = Never] /\ Never \in Instants
  BY <1>1 DEF Finish, Become, Instants
<1>3. run' \in Running
  BY <1>2 DEF Running
<1>4. /\ run'.pc = x.pc /\ run'.at = x.at /\ run'.basis = x.basis /\ run'.side = x.side
      /\ run'.answer = x.answer /\ run'.past = x.past /\ run'.proceed = x.proceed
      /\ run'.watermark = x.watermark /\ run'.quiet = x.quiet /\ run'.refused = x.refused
      /\ run'.drained = x.drained /\ run'.retry = x.retry /\ run'.outage = Never
  BY <1>2 DEF Running
<1>5. run'.refused = Kept(r.refused)
  BY <1>1, <1>4, RestedFields
<1>6. carried' = IF r.past /\ r.refused # Day /\ lot' # NoLot THEN Day ELSE carried
  BY DEF Finish
<1>7. /\ x.pc = "poll" /\ x.at = 0 /\ x.basis = "none" /\ x.side = "none"
      /\ x.answer = "none" /\ x.past = FALSE /\ x.proceed = FALSE
      /\ x.watermark = r.watermark /\ x.quiet = r.quiet
      /\ x.drained = r.drained /\ x.retry = r.retry
  BY <1>1, RestedFields
<1> QED BY <1>3, <1>4, <1>5, <1>6, <1>7

\* What a failed call leaves of it: the next cycle, or nothing.
LEMMA DisconnectFields ==
    ASSUME run \in Running, now \in Nat, Disconnect
    PROVE  /\ UNCHANGED <<world, books, carried>>
           /\ \/ run' \in Stopped
              \/ /\ run' \in Running
                 /\ run'.pc = "poll" /\ run'.at = 0 /\ run'.basis = "none"
                 /\ run'.side = "none" /\ run'.answer = "none" /\ run'.past = FALSE
                 /\ run'.proceed = FALSE /\ run'.watermark = run.watermark
                 /\ run'.quiet = run.quiet /\ run'.drained = run.drained
                 /\ run'.retry = run.retry /\ run'.outage \in {run.outage, now}
                 /\ run'.refused = Kept(run.refused)
<1>1. PICK x \in Running : x = Rested(run)
  BY RestedFields
<1>2. CASE run.outage = Never
  <2>1. run' = [x EXCEPT !.outage = now] /\ now \in Instants
    BY <1>1, <1>2 DEF Disconnect, Become, Instants
  <2>2. run' \in Running
    BY <2>1 DEF Running
  <2>3. /\ run'.pc = x.pc /\ run'.at = x.at /\ run'.basis = x.basis /\ run'.side = x.side
        /\ run'.answer = x.answer /\ run'.past = x.past /\ run'.proceed = x.proceed
        /\ run'.watermark = x.watermark /\ run'.quiet = x.quiet
        /\ run'.drained = x.drained /\ run'.retry = x.retry /\ run'.outage = now
    BY <2>1 DEF Running
  <2>4. run'.refused = x.refused
    BY <2>1 DEF Running
  <2>5. run'.refused = Kept(run.refused)
    BY <1>1, <2>4, RestedFields
  <2>6. /\ x.pc = "poll" /\ x.at = 0 /\ x.basis = "none" /\ x.side = "none"
        /\ x.answer = "none" /\ x.past = FALSE /\ x.proceed = FALSE
        /\ x.watermark = run.watermark /\ x.quiet = run.quiet
        /\ x.drained = run.drained /\ x.retry = run.retry
    BY <1>1, RestedFields
  <2> QED BY <2>2, <2>3, <2>5, <2>6 DEF Disconnect
<1>3. CASE run.outage # Never /\ now - run.outage > Budget
  <2>1. run' = [Off EXCEPT !.why = "outage"]
    BY <1>3 DEF Disconnect, Become
  <2> QED BY <2>1 DEF Disconnect, Off, Stopped
<1>4. CASE run.outage # Never /\ ~(now - run.outage > Budget)
  <2>1. run' = x
    BY <1>1, <1>4 DEF Disconnect, Become
  <2> QED BY <1>1, <2>1, RestedFields DEF Disconnect
<1> QED BY <1>2, <1>3, <1>4

\* The world, and the process, as long as it is not running a cycle.
WorldTyped ==
    /\ mode \in {"same", "multi"} /\ now \in Nat
    /\ close \in EarlyCloses \cup {Close} /\ table \in Tables /\ shown \in 0..Bars
BooksTyped ==
    /\ lot \in [day : Instants] /\ attempt \in Attempts /\ placed \in Int /\ alerts \subseteq Nat

LEMMA Split == Typed <=> /\ WorldTyped /\ BooksTyped /\ carried \in Instants
                         /\ run \in Running \cup Stopped
BY DEF Typed, WorldTyped, BooksTyped

LEMMA SplitNext == Typed' <=> /\ WorldTyped' /\ BooksTyped' /\ carried' \in Instants
                              /\ run' \in Running \cup Stopped
BY DEF Typed, WorldTyped, BooksTyped

LEMMA WorldKept == WorldTyped /\ UNCHANGED world => WorldTyped'
BY DEF WorldTyped, world

LEMMA BooksKept == BooksTyped /\ UNCHANGED books => BooksTyped'
BY DEF BooksTyped, books

\* A finished cycle is typed.
LEMMA FinishTyped ==
    ASSUME Typed, NEW r \in Running, Finish(r)
    PROVE  run' \in Running /\ carried' \in Instants
<1>1. Day \in Instants
  BY Whole DEF Instants
<1> QED BY <1>1, FinishFields DEF Typed

LEMMA RunningNow ==
    ASSUME Typed, run.pc # "off"
    PROVE  run \in Running
BY Whole DEF Live

LEMMA PutOffFields ==
    ASSUME NEW r \in Running
    PROVE  /\ PutOff(r) \in Running
           /\ PutOff(r).retry \in {r.retry, r.at + Bar}
           /\ PutOff(r).past = r.past /\ PutOff(r).drained = r.drained
           /\ PutOff(r).at = r.at /\ PutOff(r).open = r.open
<1>1. r.at + Bar \in Nat
  BY Constants DEF Running
<1> QED BY <1>1 DEF Running, PutOff

\* A refusal is remembered unless it was made good.
LEMMA ToldFields ==
    ASSUME Typed, NEW r \in Running, NEW told \in BOOLEAN
    PROVE  /\ Told(r, told) \in Running
           /\ Told(r, told).retry = r.retry /\ Told(r, told).past = r.past
           /\ Told(r, told).drained = r.drained /\ Told(r, told).at = r.at
           /\ Told(r, told).open = r.open
           /\ told \/ Day \in alerts \/ Told(r, told).refused = Day
<1>1. PICK f \in Instants : /\ f = IF told \/ Day \in alerts THEN Never ELSE Day
                            /\ told \/ Day \in alerts \/ f = Day
  BY Whole DEF Instants
<1>2. Told(r, told) = [r EXCEPT !.refused = f]
  BY <1>1 DEF Told
<1> QED BY <1>1, <1>2 DEF Running

LEMMA TellMeans ==
    ASSUME Typed, NEW told \in BOOLEAN, Tell(told)
    PROVE  /\ UNCHANGED <<lot, attempt, placed>> /\ alerts \subseteq alerts'
           /\ BooksTyped' /\ (told => Day \in alerts')
BY Whole DEF Typed, BooksTyped, Tell

\* A cycle that ends with an alert, or with the refusal of one.
LEMMA TellsAndEnds ==
    ASSUME Typed, NEW told \in BOOLEAN,
           GateUnchecked(told) \/ GateFrozen(told) \/ FlattenUnknown(told)
    PROVE  /\ run \in Running /\ Live /\ UNCHANGED world /\ Tell(told)
           /\ \E r \in Running : /\ Finish(r) /\ r.drained = run.drained /\ r.retry = run.retry
                                 /\ Day \in alerts' \/ r.refused = Day
<1>1. run \in Running /\ Live /\ UNCHANGED world /\ Tell(told)
  BY RunningNow DEF GateUnchecked, GateFrozen, FlattenUnknown, Live
<1>2. alerts \subseteq alerts' /\ (told => Day \in alerts')
  BY <1>1 DEF Tell
<1>3. CASE GateUnchecked(told)
  <2>1. Finish(Told(run, FALSE)) /\ FALSE \in BOOLEAN
    BY <1>3 DEF GateUnchecked
  <2> QED BY <1>1, <1>2, <2>1, ToldFields
<1>4. CASE FlattenUnknown(told)
  <2>1. Finish(Told(run, told))
    BY <1>4 DEF FlattenUnknown
  <2> QED BY <1>1, <1>2, <2>1, ToldFields
<1>5. CASE GateFrozen(told)
  <2>1. PICK nc \in NextClose : Finish([Told(run, told) EXCEPT !.past = PastDeadline(nc)])
    BY <1>5 DEF GateFrozen
  <2>2. PICK b \in BOOLEAN : b = PastDeadline(nc)
    <3>1. PastDeadline(nc) \in BOOLEAN
      BY DEF PastDeadline
    <3> QED BY <3>1
  <2>3. PICK x \in Running : /\ x = Told(run, told)
                             /\ x.drained = run.drained /\ x.retry = run.retry
                             /\ Day \in alerts' \/ x.refused = Day
    BY <1>1, <1>2, ToldFields
  <2>4. /\ [x EXCEPT !.past = b] \in Running
        /\ [x EXCEPT !.past = b].drained = x.drained
        /\ [x EXCEPT !.past = b].retry = x.retry
        /\ [x EXCEPT !.past = b].refused = x.refused
    BY DEF Running
  <2> QED BY <1>1, <2>1, <2>2, <2>3, <2>4
<1> QED BY <1>1, <1>3, <1>4, <1>5

\* A flatten that was not sent: put off, with an alert or the refusal of one.
LEMMA PutsOff ==
    ASSUME Typed, NEW told \in BOOLEAN, FlattenBlocked(told)
    PROVE  /\ run \in Running /\ Live /\ UNCHANGED world /\ Tell(told)
           /\ run.pc = "result" /\ run.basis # "none" /\ ~Frozen
           /\ \E r \in Running : /\ Proceed(r) /\ r.past = run.past /\ r.drained = run.drained
                                 /\ r.at = run.at /\ r.open = run.open
                                 /\ r.retry \in {run.retry, run.at + Bar}
                                 /\ Day \in alerts' \/ r.refused = Day
<1>1. run \in Running /\ Live /\ UNCHANGED world /\ Tell(told)
      /\ run.pc = "result" /\ run.basis # "none" /\ ~Frozen
      /\ Proceed(Told(PutOff(run), told))
  BY RunningNow DEF FlattenBlocked, Live
<1>2. alerts \subseteq alerts' /\ (told => Day \in alerts')
  BY <1>1 DEF Tell
<1>3. PICK x \in Running : /\ x = PutOff(run) /\ x.past = run.past /\ x.drained = run.drained
                           /\ x.at = run.at /\ x.open = run.open
                           /\ x.retry \in {run.retry, run.at + Bar}
  BY <1>1, PutOffFields
<1>4. PICK r \in Running : /\ r = Told(x, told) /\ r.past = x.past /\ r.drained = x.drained
                           /\ r.at = x.at /\ r.open = x.open /\ r.retry = x.retry
                           /\ told \/ Day \in alerts \/ r.refused = Day
  BY ToldFields
<1> QED BY <1>1, <1>2, <1>3, <1>4

LEMMA ProceedTyped ==
    ASSUME Typed, NEW r \in Running, Proceed(r)
    PROVE  run' \in Running /\ carried' \in Instants
<1>1. CASE run.proceed
  <2>1. run' = [r EXCEPT !.pc = "fetch", !.basis = "none"] /\ carried' = carried
    BY <1>1 DEF Proceed, Become
  <2>2. "fetch" \in PCs \ {"off"} /\ "none" \in Bases
    BY DEF PCs, Bases
  <2>3. run' \in Running
    BY <2>1, <2>2 DEF Running
  <2> QED BY <2>1, <2>3 DEF Typed
<1>2. CASE ~run.proceed
  BY <1>2, FinishTyped DEF Proceed
<1> QED BY <1>1, <1>2

\* After a flatten the cycle goes on to the fetch, or it is over.
LEMMA ProceedFields ==
    ASSUME NEW r \in Running, Proceed(r)
    PROVE  /\ run' \in Running /\ run'.basis = "none"
           /\ run'.watermark = r.watermark /\ run'.drained = r.drained /\ run'.retry = r.retry
           /\ \/ /\ run.proceed
                 /\ run'.pc = "fetch" /\ run'.at = r.at /\ run'.open = r.open
                 /\ run'.past = r.past /\ run'.proceed = r.proceed /\ run'.outage = r.outage
                 /\ run'.refused = r.refused /\ carried' = carried
              \/ ~run.proceed /\ run'.pc = "poll" /\ Finish(r)
<1>1. CASE run.proceed
  <2>1. run' = [r EXCEPT !.pc = "fetch", !.basis = "none"] /\ carried' = carried
    BY <1>1 DEF Proceed, Become
  <2>2. "fetch" \in PCs \ {"off"} /\ "none" \in Bases
    BY DEF PCs, Bases
  <2>3. run' \in Running
    BY <2>1, <2>2 DEF Running
  <2>4. /\ run'.pc = "fetch" /\ run'.at = r.at /\ run'.open = r.open /\ run'.past = r.past
        /\ run'.proceed = r.proceed /\ run'.outage = r.outage /\ run'.basis = "none"
        /\ run'.watermark = r.watermark /\ run'.drained = r.drained /\ run'.retry = r.retry
        /\ run'.refused = r.refused
    BY <2>1 DEF Running
  <2> QED BY <1>1, <2>1, <2>3, <2>4
<1>2. CASE ~run.proceed
  BY <1>2, FinishFields DEF Proceed
<1> QED BY <1>1, <1>2

LEMMA LatestIsWhole ==
    ASSUME Typed, run \in Running
    PROVE  /\ Visible \subseteq 1..run.n /\ IsFiniteSet(Visible) /\ Cardinality(Visible) \in 0..Bars
           /\ Latest \in Int /\ Latest <= (Day + 1) * Bars
<1>1. PICK n \in 0..Bars : n = run.n
  BY Constants DEF Running
<1>2. Visible \subseteq 1..n
  BY <1>1 DEF Visible
<1>3. IsFiniteSet(1..n) /\ Cardinality(1..n) = n
  <2>1. n \in Nat
    BY Constants
  <2> QED BY <2>1, FS_Interval
<1>4. IsFiniteSet(Visible) /\ Cardinality(Visible) <= n
  BY <1>2, <1>3, FS_Subset
<1>5. Cardinality(Visible) \in Nat
  BY <1>4, FS_CardinalityType
<1>6. Day \in Nat
  BY Whole
<1>7. Cardinality(Visible) \in 0..Bars
  BY <1>1, <1>4, <1>5, Constants
<1>8. Day * Bars \in Int /\ (Day + 1) * Bars = Day * Bars + Bars
  BY <1>6, Constants
<1> QED BY <1>1, <1>2, <1>4, <1>7, <1>8, Constants DEF Latest

LEMMA QuietenedTyped ==
    ASSUME Typed, run \in Running
    PROVE  /\ Quietened \in Running
           /\ Quietened.watermark = run.watermark /\ Quietened.past = run.past
           /\ Quietened.retry = run.retry /\ Quietened.refused = run.refused
           /\ mode = "same" => Quietened = run
<1>1. PICK q \in 0..2 : q = Min({run.quiet + 1, 2})
  <2>1. PICK a \in 1..3 : a = run.quiet + 1
    BY DEF Running
  <2>2. Min({a, 2}) \in {a, 2} /\ Min({a, 2}) <= 2
    BY LesserOfTwo
  <2>3. Min({run.quiet + 1, 2}) \in 0..2
    BY <2>1, <2>2
  <2> QED BY <2>3
<1>2. PICK d \in Instants :
          d = IF q = 2 /\ now - StartOf(Latest) >= Margin THEN now ELSE run.drained
  BY DEF Instants, Running, Typed
<1>3. [run EXCEPT !.quiet = q, !.drained = d] \in Running
  BY DEF Running
<1>4. /\ [run EXCEPT !.quiet = q, !.drained = d].watermark = run.watermark
      /\ [run EXCEPT !.quiet = q, !.drained = d].past = run.past
      /\ [run EXCEPT !.quiet = q, !.drained = d].retry = run.retry
      /\ [run EXCEPT !.quiet = q, !.drained = d].refused = run.refused
  BY DEF Running
<1>5. Quietened = IF mode = "same" \/ run.open THEN run
                  ELSE [run EXCEPT !.quiet = q, !.drained = d]
  BY <1>1, <1>2 DEF Quietened, Running
<1> QED BY <1>3, <1>4, <1>5

\* A sale under way has its attempt row, and an answer once the broker gave one.
Attempted ==
    /\ run.pc \in {"send", "finalize", "record"} /\ run.side = "sell" => attempt # NoAttempt
    /\ run.pc = "finalize" => run.answer \in {"submitted", "rejected", "error"}

\* Every step keeps the types.
LEMMA TypedStep ==
    ASSUME Typed, Attempted, [Next]_vars
    PROVE  Typed'
<1> USE Split, SplitNext
<1> DEFINE Same == WorldTyped' /\ BooksTyped'
<1>1. CASE UNCHANGED vars
  BY <1>1 DEF vars, Typed
<1>2. CASE Poll
  <2>1. run \in Running /\ now \in Nat
    BY <1>2, RunningNow DEF Poll, Typed
  <2>2. Same
    BY <1>2, WorldKept, BooksKept DEF Poll
  <2>3. [run EXCEPT !.at = now, !.open = IsOpen] \in Running
    <3>1. PICK o \in BOOLEAN : o = IsOpen
      <4>1. IsOpen \in BOOLEAN
        BY DEF IsOpen
      <4> QED BY <4>1
    <3>2. [run EXCEPT !.at = now, !.open = o] \in Running
      BY <2>1 DEF Running
    <3> QED BY <3>1, <3>2
  <2>4. CASE Finish(run)
    BY <2>1, <2>2, <2>4, FinishTyped
  <2>5. CASE mode = "same" /\ IsOpen
    <3>1. run' = [run EXCEPT !.at = now, !.open = IsOpen, !.pc = "gate"] /\ carried' = carried
      BY <1>2, <2>5 DEF Poll, Become
    <3>2. "gate" \in PCs \ {"off"}
      BY DEF PCs
    <3>3. run' \in Running
      BY <2>3, <3>1, <3>2 DEF Running
    <3> QED BY <2>2, <3>1, <3>3
  <2>6. CASE mode = "multi" /\ IsOpen
    <3>1. run' = [run EXCEPT !.at = now, !.open = IsOpen, !.pc = "fetch", !.drained = Never,
                             !.quiet = 0] /\ carried' = carried
      BY <1>2, <2>6 DEF Poll, Become
    <3>2. "fetch" \in PCs \ {"off"} /\ Never \in Instants /\ 0 \in 0..2
      BY DEF PCs, Instants
    <3>3. run' \in Running
      BY <2>3, <3>1, <3>2 DEF Running
    <3> QED BY <2>2, <3>1, <3>3
  <2>7. CASE mode = "multi" /\ ~IsOpen /\ run.drained = Never
    <3>1. run' = [run EXCEPT !.at = now, !.open = IsOpen, !.pc = "fetch"] /\ carried' = carried
      BY <1>2, <2>7 DEF Poll, Become
    <3>2. "fetch" \in PCs \ {"off"}
      BY DEF PCs
    <3>3. run' \in Running
      BY <2>3, <3>1, <3>2 DEF Running
    <3> QED BY <2>2, <3>1, <3>3
  <2> QED BY <1>2, <2>4, <2>5, <2>6, <2>7 DEF Poll
<1>3. CASE PollFails \/ FetchFails \/ DecideFails
  <2>1. run \in Running /\ now \in Nat /\ Disconnect
    BY <1>3, RunningNow DEF PollFails, FetchFails, DecideFails, Typed
  <2> QED BY <2>1, DisconnectFields, WorldKept, BooksKept
<1>4. ASSUME NEW told \in BOOLEAN,
             GateUnchecked(told) \/ GateFrozen(told) \/ FlattenUnknown(told)
      PROVE  Typed'
  <2>1. UNCHANGED world /\ Tell(told) /\ \E r \in Running : Finish(r)
    BY <1>4, TellsAndEnds
  <2>2. BooksTyped'
    BY <2>1, TellMeans
  <2> QED BY <2>1, <2>2, WorldKept, FinishTyped
<1>5. CASE GateFlatten
  <2>1. run \in Running /\ UNCHANGED <<world, books, carried>>
    BY <1>5, RunningNow DEF GateFlatten
  <2>2. PICK nc \in NextClose :
            run' = [run EXCEPT !.pc = "submit", !.side = "sell", !.basis = Basis(nc),
                               !.proceed = EvaluationOpen(nc), !.past = PastDeadline(nc)]
    BY <1>5 DEF GateFlatten, Become
  <2>3. /\ "submit" \in PCs \ {"off"} /\ "sell" \in Sides /\ Basis(nc) \in Bases
        /\ EvaluationOpen(nc) \in BOOLEAN /\ PastDeadline(nc) \in BOOLEAN
    BY DEF PCs, Sides, Bases, Basis, EvaluationOpen, PastDeadline
  <2>4. run' \in Running
    BY <2>1, <2>2, <2>3 DEF Running
  <2> QED BY <2>1, <2>4, WorldKept, BooksKept
<1>6. CASE GateEvaluate
  <2>1. run \in Running /\ UNCHANGED <<world, attempt, placed, alerts>> /\ lot' = lot
    BY <1>6, RunningNow DEF GateEvaluate
  <2>2. Same
    BY <2>1, WorldKept DEF BooksTyped
  <2>3. CASE run' = Goto("fetch") /\ carried' = carried
    <3>1. "fetch" \in PCs \ {"off"}
      BY DEF PCs
    <3>2. run' \in Running
      BY <2>1, <2>3, <3>1 DEF Running, Goto
    <3> QED BY <2>2, <2>3, <3>2
  <2>4. ASSUME NEW nc \in NextClose, Finish([run EXCEPT !.past = PastDeadline(nc)])
        PROVE  Typed'
    <3>1. [run EXCEPT !.past = PastDeadline(nc)] \in Running
      BY <2>1 DEF Running, PastDeadline
    <3> QED BY <2>2, <2>4, <3>1, FinishTyped
  <2> QED BY <1>6, <2>3, <2>4 DEF GateEvaluate, Become
<1>7. CASE Fetch
  <2>1. run \in Running /\ UNCHANGED <<world, books, carried>>
    BY <1>7, RunningNow DEF Fetch
  <2>2. "decide" \in PCs \ {"off"} /\ shown \in 0..Bars /\ now \in Nat
    BY DEF PCs, Typed
  <2>3. run' \in Running
    BY <1>7, <2>1, <2>2 DEF Fetch, Become, Running
  <2> QED BY <2>1, <2>3, WorldKept, BooksKept
<1>8. CASE NothingNew
  <2>1. run \in Running /\ UNCHANGED <<world, books>>
    BY <1>8, RunningNow DEF NothingNew
  <2>2. PICK r \in Running : Finish(r)
    BY <1>8, <2>1, QuietenedTyped DEF NothingNew
  <2> QED BY <2>1, <2>2, FinishTyped, WorldKept, BooksKept
<1>9. CASE Evaluate
  <2>1. run \in Running /\ UNCHANGED <<world, books>>
    BY <1>9, RunningNow DEF Evaluate
  <2>2. PICK r \in Running : r = [run EXCEPT !.watermark = Latest, !.quiet = 0]
    <3>1. PICK w \in Int : w = Latest
      BY <2>1, LatestIsWhole
    <3>2. [run EXCEPT !.watermark = w, !.quiet = 0] \in Running
      <4>1. 0 \in 0..2
        OBVIOUS
      <4> QED BY <2>1, <4>1 DEF Running
    <3> QED BY <3>1, <3>2
  <2>3. CASE Finish(r)
    BY <2>1, <2>3, FinishTyped, WorldKept, BooksKept
  <2>4. ASSUME NEW side \in Wishes, run' = [r EXCEPT !.pc = "submit", !.side = side],
               carried' = carried
        PROVE  Typed'
    <3>1. "submit" \in PCs \ {"off"} /\ side \in Sides
      BY DEF PCs, Sides, Wishes
    <3>2. run' \in Running
      BY <2>4, <3>1 DEF Running
    <3> QED BY <2>1, <2>4, <3>2, WorldKept, BooksKept
  <2> QED BY <1>9, <2>2, <2>3, <2>4 DEF Evaluate, Become
<1>10. CASE Veto \/ RecordFails
  <2>1. run \in Running /\ UNCHANGED <<world, books, carried>>
    BY <1>10, RunningNow DEF Veto, RecordFails
  <2>2. "result" \in PCs \ {"off"} /\ "not_sent" \in Answers /\ "error" \in Answers
    BY DEF PCs, Answers
  <2>3. PICK a \in Answers : run' = [run EXCEPT !.pc = "result", !.answer = a]
    BY <1>10, <2>2 DEF Veto, RecordFails, Become
  <2>4. run' \in Running
    BY <2>1, <2>2, <2>3 DEF Running
  <2> QED BY <2>1, <2>4, WorldKept, BooksKept
<1>11. CASE AppendAttempt
  <2>1. run \in Running /\ UNCHANGED <<world, lot, placed, alerts, carried>>
    BY <1>11, RunningNow DEF AppendAttempt
  <2>2. "send" \in PCs \ {"off"}
    BY DEF PCs
  <2>3. run' \in Running
    BY <1>11, <2>1, <2>2 DEF AppendAttempt, Become, Goto, Running
  <2>4. attempt' \in Attempts
    BY <1>11 DEF AppendAttempt, Attempts, Unresolved, Typed
  <2>5. BooksTyped'
    BY <2>1, <2>4 DEF BooksTyped
  <2> QED BY <2>1, <2>3, <2>5, WorldKept
<1>12. ASSUME NEW taken \in BOOLEAN, NEW answer \in {"submitted", "rejected", "error"},
              Send(taken, answer)
       PROVE  Typed'
  <2>1. run \in Running /\ UNCHANGED <<world, lot, alerts, carried>>
    BY <1>12, RunningNow DEF Send
  <2>2. "finalize" \in PCs \ {"off"} /\ answer \in Answers
    BY DEF PCs, Answers
  <2>3. run' \in Running
    BY <1>12, <2>1, <2>2 DEF Send, Become, Running
  <2>4. attempt' \in Attempts
    BY <1>12 DEF Send, Attempts, Typed, Attempted
  <2>5. placed' \in Int
    BY <1>12 DEF Send, Typed
  <2>6. BooksTyped'
    BY <2>1, <2>4, <2>5 DEF BooksTyped
  <2> QED BY <2>1, <2>3, <2>6, WorldKept
<1>13. CASE Finalize
  <2>1. run \in Running /\ UNCHANGED <<world, lot, placed, alerts, carried>>
    BY <1>13, RunningNow DEF Finalize
  <2>2. "record" \in PCs \ {"off"} /\ "result" \in PCs \ {"off"}
    BY DEF PCs
  <2>3. run' \in Running
    BY <1>13, <2>1, <2>2 DEF Finalize, Become, Goto, Running
  <2>4. CASE run.side = "sell"
    <3>1. attempt \in [status : Unresolved, sold : BOOLEAN]
      BY <1>13, <2>4 DEF Finalize, Attempted, Attempts, Typed
    <3>2. run.answer \in Answers
      BY <2>1 DEF Running
    <3>3. attempt' = [attempt EXCEPT !.status = run.answer]
      BY <1>13, <2>4 DEF Finalize
    <3>4. run.answer \in {"submitted", "rejected", "error"} => attempt' \in Attempts
      BY <3>1, <3>3 DEF Attempts, Unresolved
    <3> QED BY <1>13, <2>1, <2>3, <3>4, WorldKept DEF BooksTyped, Finalize, Attempted
  <2>5. CASE run.side # "sell"
    BY <1>13, <2>1, <2>3, <2>5, WorldKept DEF BooksTyped, Finalize
  <2> QED BY <2>4, <2>5
<1>14. CASE Record
  <2>1. run \in Running /\ UNCHANGED <<world, placed, alerts, carried>>
    BY <1>14, RunningNow DEF Record
  <2>2. "result" \in PCs \ {"off"}
    BY DEF PCs
  <2>3. run' \in Running
    BY <1>14, <2>1, <2>2 DEF Record, Become, Goto, Running
  <2>4. lot' \in [day : Instants] /\ attempt' \in Attempts
    BY <1>14, Whole DEF Record, NoLot, Instants, Attempts, Typed
  <2> QED BY <2>1, <2>3, <2>4, WorldKept DEF BooksTyped
<1>15. CASE Submitted \/ FlattenSent \/ FlattenUnchecked
  <2>1. run \in Running /\ UNCHANGED <<world, books>>
    BY <1>15, RunningNow DEF Submitted, FlattenSent, FlattenUnchecked
  <2>2. Told(run, FALSE) \in Running
    BY <2>1, ToldFields
  <2> QED BY <1>15, <2>1, <2>2, FinishTyped, ProceedTyped, WorldKept, BooksKept
          DEF Submitted, FlattenSent, FlattenUnchecked
<1>16. ASSUME NEW told \in BOOLEAN, FlattenBlocked(told)
       PROVE  Typed'
  <2>1. UNCHANGED world /\ Tell(told) /\ \E r \in Running : Proceed(r)
    BY <1>16, PutsOff
  <2>2. BooksTyped'
    BY <2>1, TellMeans
  <2> QED BY <2>1, <2>2, ProceedTyped, WorldKept
<1>17. CASE Die \/ Start
  <2>1. UNCHANGED <<world, books, carried>>
    BY <1>17 DEF Die, Start
  <2>2. Off \in Stopped
    BY DEF Off, Stopped
  <2>3. Fresh \in Running
    <3>1. /\ "poll" \in PCs \ {"off"} /\ "none" \in Sides /\ "none" \in Bases
          /\ "none" \in Answers /\ Never \in Instants /\ Never \in Int /\ 0 \in 0..Bars
      BY Constants DEF PCs, Sides, Bases, Answers, Instants, Never
    <3> QED BY <3>1 DEF Fresh, Running
  <2> QED BY <1>17, <2>1, <2>2, <2>3, WorldKept, BooksKept DEF Die, Start, Become
<1>18. CASE Resolve
  BY <1>18, WorldKept DEF Resolve, BooksTyped, NoLot, Instants, Attempts
<1>19. CASE Publish
  <2>1. shown' \in 0..Bars
    <3>1. shown + 1 <= Bars /\ shown \in 0..Bars
      BY <1>19 DEF Publish, Started, Typed
    <3> QED BY <1>19, <3>1, Constants DEF Publish
  <2> QED BY <1>19, <2>1, BooksKept DEF Publish, WorldTyped
<1>20. CASE Tick
  <2>1. now' \in Nat /\ mode' = mode /\ UNCHANGED <<books, run, carried>>
    BY <1>20 DEF Tick, Typed
  <2>2. close' \in EarlyCloses \cup {Close} /\ table' \in Tables /\ shown' \in 0..Bars
    BY <1>20, Constants DEF Tick, Typed
  <2> QED BY <2>1, <2>2, BooksKept DEF WorldTyped
<1>21. CASE CloseEarly
  BY <1>21, BooksKept DEF CloseEarly, WorldTyped
<1> QED BY <1>1, <1>2, <1>3, <1>4, <1>5, <1>6, <1>7, <1>8, <1>9, <1>10, <1>11, <1>12, <1>13,
           <1>14, <1>15, <1>16, <1>17, <1>18, <1>19, <1>20, <1>21
        DEF Next, Cycle, Gate, Outcome

-----------------------------------------------------------------------------
(* The inductive invariant                                                 *)

Submitting == {"submit", "send", "finalize", "record"}
InCycle == run.pc \notin {"off", "poll"}

\* Where a sale is: what was bought and is not sold is still in the account, a
\* lot whose sale may have gone out has an attempt that says so, and a cycle
\* that got past the gate has none.
Books ==
    mode = "same" =>
        /\ placed >= 0
        /\ attempt # NoAttempt => lot # NoLot
        /\ lot # NoLot /\ (attempt = NoAttempt \/ ~attempt.sold) => placed >= 1
        /\ run.pc \in {"fetch", "decide", "submit"} => attempt = NoAttempt
        /\ run.pc \in Submitting =>
               \/ run.side = "buy" /\ lot = NoLot /\ attempt = NoAttempt
               \/ run.side = "sell" /\ lot # NoLot
        /\ run.pc = "send" /\ run.side = "sell" => ~attempt.sold
        /\ run.pc \in {"finalize", "record"} /\ run.answer = "submitted" =>
               IF run.side = "buy" THEN placed >= 1 ELSE attempt.sold
        /\ run.pc = "record" => run.answer = "submitted"
        /\ run.pc = "result" /\ run.basis # "none" /\ run.answer = "submitted" => lot = NoLot

\* A cycle is one of the day it began on, and no longer than a bar.
OneDay ==
    InCycle =>
        /\ Day * DayLen <= run.at /\ run.at <= now /\ now <= run.at + Bar
        /\ mode = "same" => run.open
        /\ run.open => Open <= TickOf(run.at) /\ TickOf(run.at) < Close
        /\ ~run.open => TickOf(run.at) < Open \/ TickOf(run.at) >= close
        /\ run.pc = "decide" => run.at <= run.fetched /\ run.fetched <= now

\* The vendor is not later than it may be, and was not when it was asked.
NotLate(n, tick) ==
    n < Bars /\ BarStart(n + 1) < close /\ BarStart(n + 1) <= tick => tick <= BarEnd(n + 1) + MaxLag
OnTime ==
    /\ NotLate(shown, TickOf(now))
    /\ run.pc = "decide" => run.n <= shown /\ NotLate(run.n, TickOf(run.fetched))

\* A runner that rests after the close rests when no bar can come any more.
Rests ==
    /\ mode = "same" /\ Live => run.drained = Never
    /\ Live => run.drained <= now
    /\ Live /\ run.drained >= Day * DayLen + close => ~(shown < Bars /\ BarStart(shown + 1) < close)

\* A cycle that ends past its deadline with the lot open has told of it today,
\* or does so now, unless the store refused it today; and so has one that puts
\* a flatten off.
Carries ==
    /\ carried # Never => carried \in alerts
    /\ Live => /\ run.retry <= Day * DayLen + Close + Bar
               /\ run.retry <= Day * DayLen + Open \/ Day \in alerts \/ run.refused = Day
    /\ run.pc \in {"poll", "gate", "fetch", "decide"} => run.basis = "none" /\ ~run.past
    /\ Live /\ run.basis = "none" => ~run.past
    /\ Live /\ run.proceed => ~run.past
    /\ Live /\ run.basis # "none" => mode = "same" /\ run.side # "buy"
    /\ run.pc = "gate" => mode = "same"

IInv == Typed /\ Attempted /\ Books /\ OneDay /\ OnTime /\ Rests /\ Carries

-----------------------------------------------------------------------------
(* Each part of it is kept                                                 *)

LEMMA ModeKept == [Next]_vars => mode' = mode
BY DEF Next, Cycle, Gate, Outcome, Poll, PollFails, GateUnchecked, GateFrozen, GateFlatten,
       GateEvaluate, Fetch, FetchFails, NothingNew, DecideFails, Evaluate, Veto, AppendAttempt,
       Send, Finalize, Record, RecordFails, Submitted, FlattenSent, FlattenUnknown,
       FlattenUnchecked, FlattenBlocked, Die, Start, Resolve, Publish, Tick, CloseEarly,
       Disconnect, Tell, world, vars

\* Whatever is not frozen has no attempt.
LEMMA UnfrozenIsFree ==
    ASSUME Typed, Books, mode = "same", ~Frozen
    PROVE  attempt = NoAttempt
BY DEF Typed, Books, Frozen, Attempts, Unresolved

LEMMA RowIsAttempt ==
    ASSUME NEW a \in [status : Unresolved, sold : BOOLEAN]
    PROVE  a # NoAttempt
<1>1. a.status \in Unresolved /\ NoAttempt.status = "none"
  BY DEF NoAttempt
<1> QED BY <1>1 DEF Unresolved

LEMMA BooksStep ==
    ASSUME Typed, Attempted, Books, Carries, [Next]_vars
    PROVE  Books'
<1> SUFFICES ASSUME mode = "same", mode' = "same" PROVE Books'
  BY ModeKept DEF Books
<1>0. USE DEF Submitting
<1>1. CASE UNCHANGED vars
  BY <1>1 DEF vars, Books
\* A cycle that ends leaves the books alone.
<1>2. ASSUME NEW r \in Running, Finish(r), UNCHANGED <<lot, attempt, placed>>
      PROVE  Books'
  <2>1. run'.pc = "poll"
    BY <1>2, FinishFields
  <2> QED BY <1>2, <2>1 DEF Books
<1>3. ASSUME run \in Running, Disconnect
      PROVE  Books'
  <2>1. run'.pc \in {"off", "poll"} /\ UNCHANGED <<lot, attempt, placed>>
    BY <1>3, DisconnectFields DEF Typed, Stopped, books
  <2> QED BY <1>3, <2>1 DEF Books
<1>4. CASE Poll
  <2>1. run \in Running /\ UNCHANGED books
    BY <1>4, RunningNow DEF Poll
  <2>2. CASE Finish(run)
    BY <1>2, <2>1, <2>2 DEF books
  <2>3. CASE run' = [run EXCEPT !.at = now, !.open = IsOpen, !.pc = "gate"]
    <3>1. run'.pc = "gate"
      BY <2>1, <2>3 DEF Running
    <3> QED BY <2>1, <3>1 DEF Books, books
  <2> QED BY <1>4, <2>2, <2>3 DEF Poll, Become
<1>5. CASE PollFails \/ FetchFails \/ DecideFails
  BY <1>3, <1>5, RunningNow DEF PollFails, FetchFails, DecideFails
<1>6. ASSUME NEW told \in BOOLEAN,
             GateUnchecked(told) \/ GateFrozen(told) \/ FlattenUnknown(told)
      PROVE  Books'
  <2>1. Tell(told) /\ \E r \in Running : Finish(r)
    BY <1>6, TellsAndEnds
  <2> QED BY <1>2, <2>1, TellMeans
<1>7. CASE GateFlatten
  <2>1. run \in Running /\ UNCHANGED <<lot, attempt, placed>> /\ lot # NoLot
    BY <1>7, RunningNow DEF GateFlatten, Due, books
  <2>2. run'.pc = "submit" /\ run'.side = "sell"
    BY <1>7, <2>1 DEF GateFlatten, Become, Running
  <2>3. attempt = NoAttempt
    BY <1>7, UnfrozenIsFree DEF GateFlatten
  <2> QED BY <2>1, <2>2, <2>3 DEF Books
<1>8. CASE GateEvaluate
  <2>1. run \in Running /\ UNCHANGED <<attempt, placed>> /\ lot' = lot
    BY <1>8, RunningNow DEF GateEvaluate
  <2>2. CASE run' = Goto("fetch")
    <3>1. run'.pc = "fetch"
      BY <2>1, <2>2 DEF Goto, Running
    <3>2. attempt = NoAttempt
      BY <1>8, UnfrozenIsFree DEF GateEvaluate
    <3> QED BY <2>1, <3>1, <3>2 DEF Books
  <2>3. ASSUME NEW nc \in NextClose, Finish([run EXCEPT !.past = PastDeadline(nc)])
        PROVE  Books'
    <3>1. [run EXCEPT !.past = PastDeadline(nc)] \in Running
      BY <2>1 DEF Running, PastDeadline
    <3> QED BY <1>2, <2>1, <2>3, <3>1
  <2> QED BY <1>8, <2>2, <2>3 DEF GateEvaluate, Become
<1>9. CASE Fetch
  <2>1. run \in Running /\ UNCHANGED <<lot, attempt, placed>> /\ run.pc = "fetch"
    BY <1>9, RunningNow DEF Fetch, books
  <2>2. run'.pc = "decide"
    BY <1>9, <2>1 DEF Fetch, Become, Running
  <2> QED BY <2>1, <2>2 DEF Books
<1>10. CASE NothingNew
  <2>1. run \in Running /\ UNCHANGED <<lot, attempt, placed>>
    BY <1>10, RunningNow DEF NothingNew, books
  <2>2. PICK r \in Running : Finish(r)
    BY <1>10, <2>1, QuietenedTyped DEF NothingNew
  <2> QED BY <1>2, <2>1, <2>2
<1>11. CASE Evaluate
  <2>1. run \in Running /\ UNCHANGED <<lot, attempt, placed>> /\ run.pc = "decide"
    BY <1>11, RunningNow DEF Evaluate, books
  <2>2. PICK r \in Running : r = [run EXCEPT !.watermark = Latest, !.quiet = 0]
    <3>1. PICK w \in Int : w = Latest
      BY <2>1, LatestIsWhole
    <3>2. 0 \in 0..2
      OBVIOUS
    <3>3. [run EXCEPT !.watermark = w, !.quiet = 0] \in Running
      BY <2>1, <3>2 DEF Running
    <3> QED BY <3>1, <3>3
  <2>3. CASE Finish(r)
    BY <1>2, <2>1, <2>3
  <2>4. ASSUME NEW side \in Wishes, side # "none", run' = [r EXCEPT !.pc = "submit", !.side = side]
        PROVE  Books'
    <3>1. run'.pc = "submit" /\ run'.side = side
      BY <2>4 DEF Running
    <3>2. IF lot = NoLot THEN side = "buy" ELSE side = "sell"
      BY <2>4 DEF Wishes
    <3> QED BY <2>1, <3>1, <3>2 DEF Books
  <2> QED BY <1>11, <2>2, <2>3, <2>4 DEF Evaluate, Become
<1>12. CASE Veto
  <2>1. run \in Running /\ UNCHANGED <<lot, attempt, placed>>
    BY <1>12, RunningNow DEF Veto, books
  <2>2. run'.pc = "result" /\ run'.answer = "not_sent"
    BY <1>12, <2>1 DEF Veto, Become, Running
  <2> QED BY <2>1, <2>2 DEF Books
<1>13. CASE RecordFails
  <2>1. run \in Running /\ UNCHANGED <<lot, attempt, placed>>
    BY <1>13, RunningNow DEF RecordFails, books
  <2>2. run'.pc = "result" /\ run'.answer = "error"
    BY <1>13, <2>1 DEF RecordFails, Become, Running
  <2> QED BY <2>1, <2>2 DEF Books
<1>14. CASE AppendAttempt
  <2>1. run \in Running /\ UNCHANGED <<lot, placed>> /\ run.pc = "submit"
    BY <1>14, RunningNow DEF AppendAttempt
  <2>2. run'.pc = "send" /\ run'.side = run.side
    BY <1>14, <2>1 DEF AppendAttempt, Become, Goto, Running
  <2>3. attempt' = IF run.side = "sell" THEN [status |-> "pending", sold |-> FALSE] ELSE attempt
    BY <1>14 DEF AppendAttempt
  <2>4. [status |-> "pending", sold |-> FALSE].sold = FALSE
    OBVIOUS
  <2> QED BY <2>1, <2>2, <2>3, <2>4 DEF Books
<1>15. ASSUME NEW taken \in BOOLEAN, NEW answer \in {"submitted", "rejected", "error"},
              Send(taken, answer)
       PROVE  Books'
  <2>1. run \in Running /\ UNCHANGED lot /\ run.pc = "send"
    BY <1>15, RunningNow DEF Send
  <2>2. run'.pc = "finalize" /\ run'.side = run.side /\ run'.answer = answer
    BY <1>15, <2>1 DEF Send, Become, Running
  <2>3. CASE run.side = "buy"
    <3>1. attempt' = attempt /\ placed' = IF taken THEN placed + 1 ELSE placed
      BY <1>15, <2>3 DEF Send
    <3>2. answer = "submitted" => taken
      BY <1>15 DEF Send
    <3>3. lot = NoLot /\ attempt = NoAttempt /\ placed \in Int /\ placed >= 0
      BY <2>1, <2>3 DEF Books, Typed
    <3> QED BY <2>1, <2>2, <2>3, <3>1, <3>2, <3>3 DEF Books
  <2>4. CASE run.side = "sell"
    <3>1. attempt \in [status : Unresolved, sold : BOOLEAN] /\ ~attempt.sold
      BY <2>1, <2>4 DEF Attempted, Attempts, Typed, Books
    <3>2. attempt' = [attempt EXCEPT !.sold = taken] /\ placed' = IF taken THEN placed - 1 ELSE placed
      BY <1>15, <2>4 DEF Send
    <3>3. attempt'.sold = taken /\ attempt' \in [status : Unresolved, sold : BOOLEAN]
      BY <3>1, <3>2
    <3>4. lot # NoLot /\ placed >= 1 /\ placed \in Int
      BY <2>1, <2>4, <3>1 DEF Books, Typed
    <3>5. answer = "submitted" => taken
      BY <1>15 DEF Send
    <3>6. attempt' # NoAttempt
      BY <3>3, RowIsAttempt
    <3>7. CASE taken
      BY <2>1, <2>2, <2>4, <3>2, <3>3, <3>4, <3>6, <3>7 DEF Books
    <3>8. CASE ~taken
      BY <2>1, <2>2, <2>4, <3>2, <3>3, <3>4, <3>5, <3>6, <3>8 DEF Books
    <3> QED BY <3>7, <3>8
  <2> QED BY <2>1, <2>3, <2>4 DEF Books
<1>16. CASE Finalize
  <2>1. run \in Running /\ UNCHANGED <<lot, placed>> /\ run.pc = "finalize"
    BY <1>16, RunningNow DEF Finalize
  <2>2. /\ run'.pc = IF run.answer = "submitted" THEN "record" ELSE "result"
        /\ run'.side = run.side /\ run'.answer = run.answer /\ run'.basis = run.basis
    BY <1>16, <2>1 DEF Finalize, Become, Goto, Running
  <2>3. CASE run.side = "buy"
    BY <1>16, <2>1, <2>2, <2>3 DEF Books, Finalize
  <2>4. CASE run.side = "sell"
    <3>1. attempt \in [status : Unresolved, sold : BOOLEAN]
      BY <2>1, <2>4 DEF Attempted, Attempts, Typed
    <3>2. attempt' = [attempt EXCEPT !.status = run.answer]
      BY <1>16, <2>4 DEF Finalize
    <3>3. attempt'.sold <=> attempt.sold
      BY <3>1, <3>2
    <3>4. attempt # NoAttempt
      BY <3>1, RowIsAttempt
    <3>5. lot # NoLot /\ (~attempt.sold => placed >= 1) /\ placed >= 0
          /\ (run.answer = "submitted" => attempt.sold)
      BY <2>1, <2>4, <3>4 DEF Books
    <3>8. attempt' # NoAttempt
      <4>1. attempt' \in [status : Unresolved, sold : BOOLEAN]
        <5>1. run.answer \in Unresolved
          BY <2>1 DEF Attempted, Unresolved
        <5> QED BY <3>1, <3>2, <5>1
      <4> QED BY <4>1, RowIsAttempt
    <3>6. CASE attempt.sold
      <4>1. attempt'.sold
        BY <3>3, <3>6
      <4> QED BY <2>1, <2>2, <2>4, <3>5, <3>8, <4>1 DEF Books
    <3>7. CASE ~attempt.sold
      <4>1. run.answer # "submitted" /\ placed >= 1
        BY <3>5, <3>7
      <4> QED BY <2>1, <2>2, <2>4, <3>5, <3>8, <4>1 DEF Books
    <3> QED BY <3>6, <3>7
  <2> QED BY <2>1, <2>3, <2>4 DEF Books
<1>17. CASE Record
  <2>1. run \in Running /\ UNCHANGED placed /\ run.pc = "record"
    BY <1>17, RunningNow DEF Record
  <2>2. run'.pc = "result" /\ run'.answer = run.answer /\ run'.basis = run.basis
    BY <1>17, <2>1 DEF Record, Become, Goto, Running
  <2>3. lot' = (IF run.side = "buy" THEN [day |-> Day] ELSE NoLot)
        /\ attempt' = (IF run.side = "sell" THEN NoAttempt ELSE attempt)
    BY <1>17 DEF Record
  <2>4. [day |-> Day] # NoLot
    <3>1. [day |-> Day].day = Day /\ NoLot.day = Never /\ Day # Never
      BY Whole DEF NoLot, Never
    <3> QED BY <3>1
  <2>5. CASE run.side = "buy"
    <3>1. run.basis = "none"
      BY <2>1, <2>5 DEF Carries, Live
    <3> QED BY <2>1, <2>2, <2>3, <2>4, <2>5, <3>1 DEF Books
  <2>6. CASE run.side = "sell"
    BY <2>1, <2>2, <2>3, <2>6 DEF Books
  <2> QED BY <2>1, <2>5, <2>6 DEF Books
<1>18. CASE Submitted \/ FlattenUnchecked
  <2>1. run \in Running /\ UNCHANGED <<lot, attempt, placed>>
    BY <1>18, RunningNow DEF Submitted, FlattenUnchecked, books
  <2>2. Told(run, FALSE) \in Running
    BY <2>1, ToldFields
  <2> QED BY <1>2, <1>18, <2>1, <2>2 DEF Submitted, FlattenUnchecked
<1>19. CASE FlattenSent
  <2>1. run \in Running /\ UNCHANGED <<lot, attempt, placed>> /\ lot = NoLot
    BY <1>19, RunningNow DEF FlattenSent, books, Books
  <2>2. run'.pc \in {"fetch", "poll"}
    BY <1>19, <2>1, ProceedFields DEF FlattenSent
  <2> QED BY <2>1, <2>2 DEF Books
<1>20. ASSUME NEW told \in BOOLEAN, FlattenBlocked(told)
       PROVE  Books'
  <2>1. UNCHANGED <<lot, attempt, placed>> /\ attempt = NoAttempt
    BY <1>20, PutsOff, TellMeans, UnfrozenIsFree
  <2>2. run'.pc \in {"fetch", "poll"}
    BY <1>20, PutsOff, ProceedFields
  <2> QED BY <2>1, <2>2 DEF Books
<1>21. CASE Die
  <2>1. run'.pc = "off" /\ UNCHANGED <<lot, attempt, placed>>
    BY <1>21 DEF Die, Become, Off, books
  <2> QED BY <2>1 DEF Books
<1>22. CASE Start
  <2>1. run'.pc = "poll" /\ UNCHANGED <<lot, attempt, placed>>
    BY <1>22 DEF Start, Become, Fresh, books
  <2> QED BY <2>1 DEF Books
<1>23. CASE Resolve
  <2>1. run' = run /\ placed' = placed /\ run.pc \in {"off", "poll"} /\ attempt # NoAttempt
    BY <1>23 DEF Resolve
  <2>2. lot' = (IF attempt.sold THEN NoLot ELSE lot) /\ attempt' = NoAttempt
    BY <1>23 DEF Resolve
  <2> QED BY <2>1, <2>2 DEF Books
<1>24. CASE Publish \/ Tick \/ CloseEarly
  <2>1. UNCHANGED <<run, lot, attempt, placed>>
    BY <1>24 DEF Publish, Tick, CloseEarly, books
  <2> QED BY <2>1 DEF Books
<1> QED BY <1>1, <1>4, <1>5, <1>6, <1>7, <1>8, <1>9, <1>10, <1>11, <1>12, <1>13, <1>14, <1>15,
           <1>16, <1>17, <1>18, <1>19, <1>20, <1>21, <1>22, <1>23, <1>24
        DEF Next, Cycle, Gate, Outcome

\* What a step does to the process: nothing, it ends a cycle or the process,
\* begins a cycle, or takes one further.
Untouched == run' = run /\ (Resolve \/ Publish \/ Tick \/ CloseEarly \/ UNCHANGED vars)
Ends == /\ UNCHANGED world /\ run'.pc \in {"off", "poll"}
        /\ Live' => \/ run'.drained = Never
                    \/ Live /\ run'.drained = run.drained
                    \/ NothingNew
Begins == /\ UNCHANGED world /\ run.pc = "poll" /\ run' \in Running
          /\ run'.pc \in {"gate", "fetch"} /\ run'.at = now /\ (run'.open <=> IsOpen)
          /\ mode = "same" => IsOpen
          /\ run'.drained \in {run.drained, Never}
Continues == /\ UNCHANGED world /\ InCycle /\ run' \in Running
             /\ run'.pc \in PCs \ {"off", "poll"} /\ run'.at = run.at /\ (run'.open <=> run.open)
             /\ run'.pc = "decide" => run'.n = shown /\ run'.fetched = now
             /\ run'.drained = run.drained
             /\ run'.pc \in {"send", "finalize", "record"} =>
                   \/ AppendAttempt \/ Finalize
                   \/ \E taken \in BOOLEAN, answer \in {"submitted", "rejected", "error"} :
                         Send(taken, answer)

LEMMA Moves ==
    ASSUME Typed, Attempted, [Next]_vars
    PROVE  Untouched \/ Ends \/ Begins \/ Continues
<1>1. ASSUME NEW r \in Running, Finish(r), r.drained = run.drained, Live, UNCHANGED world
      PROVE  Ends
  BY <1>1, FinishFields DEF Ends
<1>2. ASSUME run \in Running, Disconnect
      PROVE  Ends
  <2>1. now \in Nat /\ Live
    BY <1>2 DEF Typed, Running, PCs, Live
  <2>2. UNCHANGED world /\ run'.pc \in {"off", "poll"}
    BY <1>2, <2>1, DisconnectFields DEF Stopped
  <2>3. Live' => run'.drained = run.drained
    BY <1>2, <2>1, DisconnectFields DEF Stopped, Live
  <2> QED BY <2>1, <2>2, <2>3 DEF Ends
<1>3. CASE Poll
  <2>1. run \in Running /\ run.pc = "poll" /\ UNCHANGED world /\ Live
    BY <1>3, RunningNow DEF Poll, Live
  <2>2. CASE Finish(run)
    BY <1>1, <2>1, <2>2
  <2>3. PICK r \in Running : /\ r = [run EXCEPT !.at = now, !.open = IsOpen]
                             /\ r.at = now /\ (r.open <=> IsOpen) /\ r.drained = run.drained
    <3>1. PICK o \in BOOLEAN : o = IsOpen
      <4>1. IsOpen \in BOOLEAN
        BY DEF IsOpen
      <4> QED BY <4>1
    <3>2. PICK t \in Nat : t = now
      BY DEF Typed
    <3>3. [run EXCEPT !.at = t, !.open = o] \in Running
      BY <2>1 DEF Running
    <3>4. /\ [run EXCEPT !.at = t, !.open = o].at = t
          /\ [run EXCEPT !.at = t, !.open = o].open = o
          /\ [run EXCEPT !.at = t, !.open = o].drained = run.drained
      BY <2>1 DEF Running
    <3> QED BY <3>1, <3>2, <3>3, <3>4
  <2>4. CASE mode = "same" /\ IsOpen
    <3>1. run' = [r EXCEPT !.pc = "gate"]
      BY <1>3, <2>3, <2>4 DEF Poll, Become
    <3>2. "gate" \in PCs \ {"off"}
      BY DEF PCs
    <3>3. run' \in Running /\ run'.pc = "gate" /\ run'.at = r.at /\ run'.open = r.open
          /\ run'.drained = r.drained
      BY <3>1, <3>2 DEF Running
    <3> QED BY <2>1, <2>3, <2>4, <3>3 DEF Begins
  <2>5. CASE mode = "multi" /\ IsOpen
    <3>1. run' = [r EXCEPT !.pc = "fetch", !.drained = Never, !.quiet = 0]
      BY <1>3, <2>3, <2>5 DEF Poll, Become
    <3>2. "fetch" \in PCs \ {"off"} /\ Never \in Instants /\ 0 \in 0..2
      BY DEF PCs, Instants
    <3>3. run' \in Running /\ run'.pc = "fetch" /\ run'.at = r.at /\ run'.open = r.open
          /\ run'.drained = Never
      BY <3>1, <3>2 DEF Running
    <3> QED BY <2>1, <2>3, <2>5, <3>3 DEF Begins
  <2>6. CASE mode = "multi" /\ ~IsOpen /\ run.drained = Never
    <3>1. run' = [r EXCEPT !.pc = "fetch"]
      BY <1>3, <2>3, <2>6 DEF Poll, Become
    <3>2. "fetch" \in PCs \ {"off"}
      BY DEF PCs
    <3>3. run' \in Running /\ run'.pc = "fetch" /\ run'.at = r.at /\ run'.open = r.open
          /\ run'.drained = r.drained
      BY <3>1, <3>2 DEF Running
    <3> QED BY <2>1, <2>3, <2>6, <3>3 DEF Begins
  <2> QED BY <1>3, <2>2, <2>4, <2>5, <2>6 DEF Poll
<1>4. CASE PollFails \/ FetchFails \/ DecideFails
  BY <1>2, <1>4, RunningNow DEF PollFails, FetchFails, DecideFails
<1>5. ASSUME NEW told \in BOOLEAN,
             GateUnchecked(told) \/ GateFrozen(told) \/ FlattenUnknown(told) \/ Submitted
      PROVE  Ends
  BY <1>1, <1>5, RunningNow, TellsAndEnds DEF Submitted, Live
<1>6. CASE GateFlatten
  <2>1. run \in Running /\ UNCHANGED world /\ run.pc = "gate"
    BY <1>6, RunningNow DEF GateFlatten
  <2>2. PICK nc \in NextClose :
            run' = [run EXCEPT !.pc = "submit", !.side = "sell", !.basis = Basis(nc),
                               !.proceed = EvaluationOpen(nc), !.past = PastDeadline(nc)]
    BY <1>6 DEF GateFlatten, Become
  <2>3. /\ run'.pc = "submit" /\ run'.at = run.at /\ run'.open = run.open
        /\ run'.drained = run.drained
    BY <2>1, <2>2 DEF Running
  <2>4. run' \in Running
    <3>1. run'.pc # "off"
      BY <2>3
    <3> QED BY <3>1, TypedStep DEF Typed, Stopped
  <2> QED BY <2>1, <2>3, <2>4 DEF Continues, InCycle, PCs
<1>7. CASE GateEvaluate
  <2>1. run \in Running /\ UNCHANGED world /\ run.pc = "gate" /\ Live
    BY <1>7, RunningNow DEF GateEvaluate, Live
  <2>2. CASE run' = Goto("fetch")
    <3>1. "fetch" \in PCs \ {"off"}
      BY DEF PCs
    <3>2. run' \in Running /\ run'.pc = "fetch" /\ run'.at = run.at /\ run'.open = run.open
          /\ run'.drained = run.drained
      BY <2>1, <2>2, <3>1 DEF Goto, Running
    <3> QED BY <2>1, <3>2 DEF Continues, InCycle, PCs
  <2>3. ASSUME NEW nc \in NextClose, Finish([run EXCEPT !.past = PastDeadline(nc)])
        PROVE  Ends
    <3>1. /\ [run EXCEPT !.past = PastDeadline(nc)] \in Running
          /\ [run EXCEPT !.past = PastDeadline(nc)].drained = run.drained
      BY <2>1 DEF Running, PastDeadline
    <3> QED BY <1>1, <2>1, <2>3, <3>1
  <2> QED BY <1>7, <2>2, <2>3 DEF GateEvaluate, Become
<1>8. CASE Fetch
  <2>1. run \in Running /\ UNCHANGED world /\ run.pc = "fetch"
    BY <1>8, RunningNow DEF Fetch
  <2>2. "decide" \in PCs \ {"off"} /\ shown \in 0..Bars /\ now \in Nat
    BY DEF PCs, Typed
  <2>3. /\ run' \in Running /\ run'.pc = "decide" /\ run'.n = shown /\ run'.fetched = now
        /\ run'.at = run.at /\ run'.open = run.open /\ run'.drained = run.drained
    BY <1>8, <2>1, <2>2 DEF Fetch, Become, Running
  <2> QED BY <2>1, <2>3 DEF Continues, InCycle, PCs
<1>9. CASE NothingNew
  <2>1. run \in Running /\ UNCHANGED world
    BY <1>9, RunningNow DEF NothingNew
  <2>2. PICK r \in Running : Finish(r)
    BY <1>9, <2>1, QuietenedTyped DEF NothingNew
  <2> QED BY <1>9, <2>1, <2>2, FinishFields DEF Ends
<1>10. CASE Evaluate
  <2>1. run \in Running /\ UNCHANGED world /\ run.pc = "decide" /\ Live
    BY <1>10, RunningNow DEF Evaluate, Live
  <2>2. PICK r \in Running : /\ r = [run EXCEPT !.watermark = Latest, !.quiet = 0]
                             /\ r.at = run.at /\ r.open = run.open /\ r.drained = run.drained
    <3>1. PICK w \in Int : w = Latest
      BY <2>1, LatestIsWhole
    <3>2. 0 \in 0..2
      OBVIOUS
    <3>3. [run EXCEPT !.watermark = w, !.quiet = 0] \in Running
      BY <2>1, <3>2 DEF Running
    <3>4. /\ [run EXCEPT !.watermark = w, !.quiet = 0].at = run.at
          /\ [run EXCEPT !.watermark = w, !.quiet = 0].open = run.open
          /\ [run EXCEPT !.watermark = w, !.quiet = 0].drained = run.drained
      BY <2>1 DEF Running
    <3> QED BY <3>1, <3>3, <3>4
  <2>3. CASE Finish(r)
    BY <1>1, <2>1, <2>2, <2>3
  <2>4. ASSUME NEW side \in Wishes, run' = [r EXCEPT !.pc = "submit", !.side = side]
        PROVE  Continues
    <3>1. "submit" \in PCs \ {"off"} /\ side \in Sides
      BY DEF PCs, Sides, Wishes
    <3>2. run' \in Running /\ run'.pc = "submit" /\ run'.at = r.at /\ run'.open = r.open
          /\ run'.drained = r.drained
      BY <2>4, <3>1 DEF Running
    <3> QED BY <2>1, <2>2, <3>2 DEF Continues, InCycle, PCs
  <2> QED BY <1>10, <2>2, <2>3, <2>4 DEF Evaluate, Become
\* The steps between the wish and its outcome.
<1>11. ASSUME run \in Running, run.pc \in Submitting, UNCHANGED world,
              NEW pc \in {"send", "finalize", "record", "result"}, NEW a \in Answers,
              run' = [run EXCEPT !.pc = pc, !.answer = a],
              \/ pc = "result" \/ AppendAttempt \/ Finalize
              \/ \E taken \in BOOLEAN, answer \in {"submitted", "rejected", "error"} :
                    Send(taken, answer)
       PROVE  Continues
  <2>1. pc \in PCs \ {"off"}
    BY DEF PCs
  <2>2. run' \in Running /\ run'.pc = pc /\ run'.at = run.at /\ run'.open = run.open
        /\ run'.drained = run.drained
    BY <1>11, <2>1 DEF Running
  <2> QED BY <1>11, <2>1, <2>2 DEF Continues, InCycle, PCs, Submitting
<1>12. CASE Veto \/ RecordFails
  <2>1. run \in Running /\ run.pc \in Submitting /\ UNCHANGED world
    BY <1>12, RunningNow DEF Veto, RecordFails, Submitting
  <2>2. PICK a \in Answers : run' = [run EXCEPT !.pc = "result", !.answer = a]
    BY <1>12 DEF Veto, RecordFails, Become, Answers
  <2> QED BY <1>11, <2>1, <2>2
<1>13. CASE AppendAttempt \/ Finalize \/ Record
  <2>1. run \in Running /\ run.pc \in Submitting /\ UNCHANGED world
    BY <1>13, RunningNow DEF AppendAttempt, Finalize, Record, Submitting
  <2>2. PICK pc \in {"send", "finalize", "record", "result"} : run' = Goto(pc)
    BY <1>13 DEF AppendAttempt, Finalize, Record, Become
  <2>3. PICK a \in Answers : a = run.answer
    BY <2>1 DEF Running
  <2>4. run' = [run EXCEPT !.pc = pc, !.answer = a]
    BY <2>1, <2>2, <2>3 DEF Goto, Running
  <2>5. Record => pc = "result"
    BY <2>1, <2>2 DEF Record, Become, Goto, Running
  <2> QED BY <1>11, <1>13, <2>1, <2>4, <2>5
<1>14. ASSUME NEW taken \in BOOLEAN, NEW answer \in {"submitted", "rejected", "error"},
              Send(taken, answer)
       PROVE  Continues
  <2>1. run \in Running /\ run.pc \in Submitting /\ UNCHANGED world
    BY <1>14, RunningNow DEF Send, Submitting
  <2>2. run' = [run EXCEPT !.pc = "finalize", !.answer = answer] /\ answer \in Answers
    BY <1>14 DEF Send, Become, Answers
  <2> QED BY <1>11, <1>14, <2>1, <2>2
<1>15. ASSUME run.pc = "result", NEW r \in Running, Proceed(r), r.drained = run.drained,
              r.at = run.at, r.open = run.open, UNCHANGED world
       PROVE  Ends \/ Continues
  <2>1. Live
    BY <1>15 DEF Live
  <2>2. CASE run'.pc = "poll"
    BY <1>15, <2>1, <2>2, ProceedFields DEF Ends
  <2>3. CASE run'.pc = "fetch"
    <3>1. run'.at = r.at /\ run'.open = r.open
      BY <1>15, <2>3, ProceedFields
    <3> QED BY <1>15, <2>3, <3>1, ProceedFields DEF Continues, InCycle, PCs
  <2> QED BY <1>15, <2>2, <2>3, ProceedFields
<1>16. CASE FlattenSent
  BY <1>15, <1>16, RunningNow DEF FlattenSent
<1>17. ASSUME NEW told \in BOOLEAN, FlattenBlocked(told)
       PROVE  Ends \/ Continues
  BY <1>15, <1>17, PutsOff
<1>18. CASE FlattenUnchecked
  <2>1. run \in Running /\ Live
    BY <1>18, RunningNow DEF FlattenUnchecked, Live
  <2>2. Told(run, FALSE) \in Running /\ Told(run, FALSE).drained = run.drained
    BY <2>1, ToldFields
  <2> QED BY <1>1, <1>18, <2>1, <2>2 DEF FlattenUnchecked
<1>19. CASE Die
  BY <1>19 DEF Die, Become, Off, Ends, Live
<1>20. CASE Start
  BY <1>20 DEF Start, Become, Fresh, Ends
<1>21. CASE Resolve \/ Publish \/ Tick \/ CloseEarly \/ UNCHANGED vars
  BY <1>21 DEF Resolve, Publish, Tick, CloseEarly, vars, Untouched
<1> QED BY <1>3, <1>4, <1>5, <1>6, <1>7, <1>8, <1>9, <1>10, <1>12, <1>13, <1>14, <1>16, <1>17,
           <1>18, <1>19, <1>20, <1>21 DEF Next, Cycle, Gate, Outcome

LEMMA AttemptedStep ==
    ASSUME Typed, Attempted, [Next]_vars
    PROVE  Attempted'
<1>1. CASE Untouched
  BY <1>1 DEF Untouched, Resolve, Publish, Tick, CloseEarly, Attempted, vars, books
<1>2. CASE run'.pc \notin {"send", "finalize", "record"}
  BY <1>2 DEF Attempted
<1>3. CASE AppendAttempt
  <2>1. run \in Running
    BY <1>3, RunningNow DEF AppendAttempt
  <2>2. run'.pc = "send" /\ run'.side = run.side
    BY <1>3, <2>1 DEF AppendAttempt, Become, Goto, Running
  <2>3. run.side = "sell" => attempt' \in [status : Unresolved, sold : BOOLEAN]
    BY <1>3 DEF AppendAttempt, Unresolved
  <2> QED BY <2>2, <2>3, RowIsAttempt DEF Attempted
<1>4. CASE Finalize
  <2>1. run \in Running /\ run.pc = "finalize"
    BY <1>4, RunningNow DEF Finalize
  <2>2. run'.pc \in {"record", "result"} /\ run'.side = run.side
    BY <1>4, <2>1 DEF Finalize, Become, Goto, Running
  <2>3. ASSUME run.side = "sell"
        PROVE  attempt' \in [status : Unresolved, sold : BOOLEAN]
    <3>1. attempt \in [status : Unresolved, sold : BOOLEAN]
      BY <2>1, <2>3 DEF Attempted, Attempts, Typed
    <3>2. run.answer \in Unresolved
      BY <2>1 DEF Attempted, Unresolved
    <3>3. attempt' = [attempt EXCEPT !.status = run.answer]
      BY <1>4, <2>3 DEF Finalize
    <3> QED BY <3>1, <3>2, <3>3
  <2> QED BY <2>2, <2>3, RowIsAttempt DEF Attempted
<1>5. ASSUME NEW taken \in BOOLEAN, NEW answer \in {"submitted", "rejected", "error"},
             Send(taken, answer)
      PROVE  Attempted'
  <2>1. run \in Running /\ run.pc = "send"
    BY <1>5, RunningNow DEF Send
  <2>2. run'.pc = "finalize" /\ run'.side = run.side /\ run'.answer = answer
    BY <1>5, <2>1 DEF Send, Become, Running
  <2>3. ASSUME run.side = "sell"
        PROVE  attempt' \in [status : Unresolved, sold : BOOLEAN]
    <3>1. attempt \in [status : Unresolved, sold : BOOLEAN]
      BY <2>1, <2>3 DEF Attempted, Attempts, Typed
    <3>2. attempt' = [attempt EXCEPT !.sold = taken]
      BY <1>5, <2>3 DEF Send
    <3> QED BY <3>1, <3>2
  <2> QED BY <2>2, <2>3, RowIsAttempt DEF Attempted
<1> QED BY <1>1, <1>2, <1>3, <1>4, <1>5, Moves DEF Ends, Begins, Continues

LEMMA OneDayStep ==
    ASSUME Typed, Attempted, OneDay, [Next]_vars
    PROVE  OneDay'
<1>1. CASE Ends
  BY <1>1 DEF Ends, OneDay, InCycle
<1>2. CASE Begins
  <2>1. /\ Day' = Day /\ now' = now /\ close' = close /\ mode' = mode
        /\ run'.pc \in {"gate", "fetch"} /\ run'.at = now /\ (run'.open <=> IsOpen)
        /\ mode = "same" => IsOpen
    BY <1>2 DEF Begins, world, Day
  <2>2. PICK t \in Nat : t = now
    BY DEF Typed
  <2>3. PICK d \in Nat : d = Day
    BY Whole
  <2>4. PICK k \in 0..(DayLen - 1) : k = TickOf(now)
    BY Whole
  <2>5. PICK c \in Nat : c = close
    BY Whole
  <2>6. d * DayLen <= t /\ t <= t + Bar /\ c <= Close
    <3>1. d * DayLen \in Nat /\ t = d * DayLen + k
      BY <2>2, <2>3, <2>4, Whole
    <3> QED BY <2>5, <3>1, Whole, Constants
  <2>7. IsOpen <=> Open <= k /\ k < c
    BY <2>4, <2>5, Constants DEF IsOpen
  <2>8. TickOf(run'.at) = k
    BY <2>1, <2>4
  <2>9. (IsOpen => Open <= k /\ k < Close) /\ (~IsOpen => k < Open \/ k >= c)
    BY <2>6, <2>7, Constants
  <2> QED BY <2>1, <2>2, <2>3, <2>5, <2>6, <2>8, <2>9 DEF OneDay
<1>3. CASE Continues
  <2>1. /\ Day' = Day /\ now' = now /\ close' = close /\ mode' = mode
        /\ run'.at = run.at /\ (run'.open <=> run.open) /\ InCycle
        /\ run'.pc = "decide" => run'.fetched = now
    BY <1>3 DEF Continues, world, Day
  <2>2. now \in Nat
    BY DEF Typed
  <2> QED BY <2>1, <2>2 DEF OneDay
<1>4. CASE Untouched /\ InCycle
  <2>1. run' = run /\ mode' = mode
    BY <1>4, ModeKept DEF Untouched
  <2>2. run \in Running
    BY <1>4, RunningNow DEF InCycle
  <2>3. CASE UNCHANGED <<now, close>>
    BY <1>4, <2>1, <2>3 DEF OneDay, Day, InCycle
  <2>4. CASE Tick
    <3>1. now' = now + 1 /\ now < run.at + Bar /\ TickOf(now') # 0 /\ close' = close
      BY <1>4, <2>4 DEF Tick, InCycle
    <3>2. PICK t \in Nat : t = now
      BY DEF Typed
    <3>3. PICK u \in Nat : u = t + 1
      OBVIOUS
    <3>4. now' = u
      BY <3>1, <3>2, <3>3
    <3>5. u \div DayLen = t \div DayLen
      BY <3>1, <3>3, <3>4, NextTick
    <3>6. Day' = Day
      BY <3>2, <3>4, <3>5 DEF Day
    <3>7. PICK a \in Nat : a = run.at
      BY <2>2 DEF Running
    <3>8. a <= u /\ u <= a + Bar
      BY <1>4, <3>1, <3>2, <3>3, <3>7, Constants DEF OneDay
    <3>9. run.pc = "decide" => run.fetched <= u
      <4>1. run.pc = "decide" => run.fetched \in Nat /\ run.fetched <= t
        BY <1>4, <2>2, <3>2 DEF OneDay, Running
      <4> QED BY <3>3, <4>1
    <3> QED BY <1>4, <2>1, <3>1, <3>4, <3>6, <3>7, <3>8, <3>9 DEF OneDay
  <2>5. CASE CloseEarly
    <3>1. PICK b \in EarlyCloses : b < close /\ close' = b
      BY <2>5 DEF CloseEarly
    <3>2. PICK x \in Nat : x = b
      BY Constants
    <3>3. PICK c \in Nat : c = close
      BY Whole
    <3>4. PICK k \in Nat : k = TickOf(run.at)
      <4>1. run.at \in Nat
        BY <2>2 DEF Running
      <4>2. TickOf(run.at) \in 0..(DayLen - 1)
        BY <4>1, Calendar
      <4> QED BY <4>2
    <3>5. k >= c => k >= x
      BY <3>1, <3>2, <3>3
    <3>6. now' = now /\ Day' = Day /\ close' = x
      BY <2>5, <3>1, <3>2 DEF CloseEarly, Day
    <3> QED BY <1>4, <2>1, <3>3, <3>4, <3>5, <3>6 DEF OneDay
  <2> QED BY <1>4, <2>3, <2>4, <2>5 DEF Untouched, Resolve, Publish, world, vars
<1>5. CASE Untouched /\ ~InCycle
  BY <1>5 DEF Untouched, OneDay, InCycle
<1> QED BY <1>1, <1>2, <1>3, <1>4, <1>5, Moves

LEMMA BarsBelow ==
    ASSUME NEW n \in Nat
    PROVE  BarStart(n + 1) \in Int /\ BarEnd(n + 1) \in Int /\ BarEnd(n + 1) = BarStart(n + 1) + Bar
BY BarByBar, Constants

\* The vendor is on time after a step of the world, given what it had before.
LEMMA OnTimeStep ==
    ASSUME Typed, Attempted, OneDay, OnTime, [Next]_vars
    PROVE  OnTime'
<1>1. PICK k \in 0..(DayLen - 1) : k = TickOf(now)
  BY Whole
<1>2. PICK c \in Nat : c = close
  BY Whole
<1>3. PICK s \in 0..Bars : s = shown
  BY Constants DEF Typed
<1>0. s \in Nat /\ s + 1 \in Nat /\ DayLen \in Nat
  BY Constants
<1>4. CASE UNCHANGED world
  <2>1. UNCHANGED <<now, close, shown>> /\ OnTime
    BY <1>4 DEF world
  <2>2. NotLate(shown, TickOf(now))'
    BY <2>1 DEF OnTime, NotLate
  <2>3. CASE run' = run \/ run'.pc # "decide"
    BY <2>1, <2>2, <2>3 DEF OnTime, NotLate
  <2>4. CASE run'.pc = "decide" /\ run'.n = shown /\ run'.fetched = now
    BY <2>1, <2>2, <2>4, <1>0, <1>3 DEF OnTime, NotLate
  <2> QED BY <1>4, <2>3, <2>4, Moves DEF Untouched, Ends, Begins, Continues
<1>5. CASE Publish
  <2>1. s < Bars /\ BarStart(s + 1) < c /\ BarStart(s + 1) <= k /\ shown' = s + 1
        /\ UNCHANGED <<now, close, run>>
    <3>1. Started(s + 1) /\ shown' = s + 1 /\ UNCHANGED <<now, close, run>>
      BY <1>3, <1>5 DEF Publish
    <3>2. now \in Nat /\ close \in Nat
      BY Whole DEF Typed
    <3> QED BY <1>0, <1>1, <1>2, <3>1, <3>2, StartedMeans, Constants
  <2>2. PICK z \in Nat : z = s + 1
    BY <1>0
  <2>3. BarStart(z + 1) = BarStart(s + 1) + Bar /\ BarEnd(z + 1) = BarEnd(s + 1) + Bar
    <3>1. BarStart(z + 1) = BarStart(z) + Bar /\ BarEnd(z) = BarStart(z) + Bar
          /\ BarEnd(z + 1) = BarStart(z + 1) + Bar /\ BarStart(z) \in Int
      BY BarByBar, <2>2
    <3> QED BY <2>2, <3>1, Constants
  <2>4. s < Bars /\ BarStart(s + 1) < close /\ BarStart(s + 1) <= TickOf(now)
            => TickOf(now) <= BarEnd(s + 1) + MaxLag
    BY <1>3 DEF OnTime, NotLate
  <2>5. k <= BarEnd(s + 1) + MaxLag
    BY <1>1, <1>2, <2>1, <2>4
  <2>6. PICK e \in Int : e = BarEnd(s + 1)
    BY BarsBelow, <1>0
  <2>7. k <= BarEnd(z + 1) + MaxLag
    BY <2>3, <2>5, <2>6, Constants
  <2>8. NotLate(shown, TickOf(now))'
    BY <1>1, <2>1, <2>2, <2>7 DEF NotLate
  <2>9. run'.pc = "decide" => run'.n <= shown' /\ NotLate(run.n, TickOf(run.fetched))'
    <3>1. run.pc = "decide" => run.n \in 0..Bars
      BY DEF Typed, Running, Stopped
    <3> QED BY <1>3, <2>1, <3>1, Constants DEF OnTime, NotLate
  <2> QED BY <2>8, <2>9 DEF OnTime
<1>6. CASE Tick
  <2>1. now' = now + 1 /\ run' = run
    BY <1>6 DEF Tick
  <2>2. PICK t \in Nat : t = now
    BY DEF Typed
  <2>3. PICK u \in Nat : u = t + 1
    OBVIOUS
  <2>4. CASE TickOf(u) = 0
    <3>1. shown' = 0 /\ run.pc # "decide" /\ now' = u
      BY <1>6, <2>1, <2>2, <2>3, <2>4 DEF Tick
    <3>2. BarEnd(0 + 1) = Open + Bar
      BY BarByBar
    <3>3. NotLate(shown, TickOf(now))'
      BY <2>4, <3>1, <3>2, Constants DEF NotLate
    <3> QED BY <2>1, <3>1, <3>3 DEF OnTime
  <2>5. CASE TickOf(u) # 0
    <3>1. shown' = shown /\ close' = close /\ now' = u
          /\ (Started(s + 1) => k < BarEnd(s + 1) + MaxLag)
      BY <1>1, <1>3, <1>6, <2>1, <2>2, <2>3, <2>5 DEF Tick
    <3>2. TickOf(u) = k + 1
      BY <1>1, <2>2, <2>3, <2>5, NextTick
    <3>3. PICK b \in Int : b = BarStart(s + 1) /\ BarEnd(s + 1) = b + Bar
      BY BarsBelow, <1>0
    <3>4. s < Bars /\ b < c /\ b <= k + 1 => k + 1 <= b + Bar + MaxLag
      <4>1. CASE b <= k
        <5>1. s < Bars /\ b < c => Started(s + 1)
          <6>1. now \in Nat /\ close \in Nat
            BY Whole DEF Typed
          <6> QED BY <1>0, <1>1, <1>2, <3>3, <4>1, <6>1, StartedMeans, Constants
        <5> QED BY <3>1, <3>3, <5>1, Constants
      <4>2. CASE b > k
        BY <4>2, Constants
      <4> QED BY <4>1, <4>2
    <3>5. NotLate(shown, TickOf(now))'
      BY <1>2, <1>3, <3>1, <3>2, <3>3, <3>4 DEF NotLate
    <3>6. run'.pc = "decide" => run'.n <= shown' /\ NotLate(run.n, TickOf(run.fetched))'
      BY <2>1, <3>1 DEF OnTime, NotLate
    <3> QED BY <3>5, <3>6 DEF OnTime
  <2> QED BY <2>4, <2>5
\* A close that comes earlier asks less of the vendor.
<1>7. CASE CloseEarly
  <2>1. PICK b \in EarlyCloses : b < close /\ close' = b
    BY <1>7 DEF CloseEarly
  <2>2. UNCHANGED <<now, shown, run>>
    BY <1>7 DEF CloseEarly
  <2>3. PICK x \in Nat : x = b
    BY Constants
  <2>4. ASSUME NEW n \in Nat, NEW i \in Nat, NotLate(n, i)
        PROVE  NotLate(n, i)'
    <3>1. PICK a \in Int : a = BarStart(n + 1)
      BY BarsBelow
    <3>2. a < x => a < c
      BY <1>2, <2>1, <2>3
    <3> QED BY <1>2, <2>1, <2>3, <2>4, <3>1, <3>2 DEF NotLate
  <2>5. NotLate(s, k)'
    BY <1>0, <1>1, <1>3, <2>4 DEF OnTime
  <2>6. NotLate(shown, TickOf(now))'
    BY <1>1, <1>3, <2>2, <2>5 DEF NotLate
  <2>7. ASSUME run.pc = "decide"
        PROVE  NotLate(run.n, TickOf(run.fetched))'
    <3>1. run \in Running
      BY <2>7, RunningNow
    <3>2. PICK n \in Nat : n = run.n
      BY <3>1, Constants DEF Running
    <3>3. PICK i \in Nat : i = TickOf(run.fetched)
      <4>1. run.fetched \in Nat
        BY <3>1 DEF Running
      <4>2. TickOf(run.fetched) \in 0..(DayLen - 1)
        BY <4>1, Calendar
      <4> QED BY <1>0, <4>2
    <3>4. NotLate(n, i)'
      BY <2>4, <2>7, <3>2, <3>3 DEF OnTime
    <3> QED BY <2>2, <3>2, <3>3, <3>4 DEF NotLate
  <2> QED BY <2>2, <2>6, <2>7 DEF OnTime
<1> QED BY <1>4, <1>5, <1>6, <1>7, Moves
        DEF Untouched, Ends, Begins, Continues, Resolve, world, vars

\* The bars that may be used are the first so many of the frame.
LEMMA FirstBars ==
    ASSUME Typed, run \in Running, Cardinality(Visible) < run.n
    PROVE  BarEnd(Cardinality(Visible) + 1) > TickOf(Cutoff)
<1>1. PICK m \in Nat : m = Cardinality(Visible)
  BY LatestIsWhole, Constants
<1>2. PICK n \in Nat : n = run.n
  BY Constants DEF Running
<1>3. PICK t \in Nat : t = TickOf(Cutoff)
  <2>1. Cutoff \in Nat
    BY DEF Cutoff, Typed, Running
  <2>2. TickOf(Cutoff) \in 0..(DayLen - 1)
    BY <2>1, Calendar
  <2> QED BY <2>2, Constants
<1>4. PICK e \in Int : e = BarEnd(m + 1)
  BY BarsBelow
<1>5. SUFFICES ASSUME e <= t PROVE FALSE
  BY <1>1, <1>3, <1>4
<1>6. 1..(m + 1) \subseteq Visible
  <2>1. ASSUME NEW k \in 1..(m + 1)
        PROVE  k \in Visible
    <3>1. k \in Nat /\ m + 1 \in Nat /\ k <= m + 1
      OBVIOUS
    <3>2. BarEnd(k) <= BarEnd(m + 1) /\ BarEnd(k) \in Int
      <4>1. BarEnd(k) = BarStart(k) + Bar /\ BarStart(k) \in Int
        BY <3>1, BarByBar
      <4> QED BY <3>1, <4>1, BarsAscend, Constants
    <3>3. k \in 1..n
      BY <1>1, <1>2, <3>1
    <3> QED BY <1>2, <1>3, <1>4, <1>5, <3>2, <3>3 DEF Visible
  <2> QED BY <2>1
<1>7. Cardinality(1..(m + 1)) = m + 1
  <2>1. m + 1 \in Nat
    OBVIOUS
  <2> QED BY <2>1, FS_Interval
<1>8. Cardinality(1..(m + 1)) <= Cardinality(Visible)
  BY <1>6, LatestIsWhole, FS_Subset
<1> QED BY <1>1, <1>7, <1>8

\* Where the newest of today's usable bars began.
LEMMA NewestStart ==
    ASSUME NEW d \in Nat, NEW m \in 1..Bars
    PROVE  StartOf(d * Bars + m) = d * DayLen + BarStart(m)
<1>1. PICK b \in Nat : b = d * Bars + (m - 1)
  <2>1. d * Bars \in Nat /\ m - 1 \in Nat
    BY Constants
  <2> QED BY <2>1
<1>2. d * Bars <= b /\ b < d * Bars + Bars /\ b - d * Bars = m - 1
  BY <1>1, Constants
<1>3. b \div Bars = d /\ b % Bars = b - d * Bars
  BY <1>2, Constants, Division
<1>4. d * Bars + m - 1 = b
  BY <1>1, Constants
<1>5. (b % Bars) + 1 = m
  BY <1>2, <1>3, Constants
<1>6. StartOf(d * Bars + m) = (b \div Bars) * DayLen + BarStart((b % Bars) + 1)
  <2>1. (d * Bars + m) - 1 = b
    BY <1>4, Constants
  <2> QED BY <2>1, Zenon DEF StartOf
<1> QED BY <1>3, <1>5, <1>6

\* Two quiet cycles long enough after the last bar: no straggler is left.
LEMMA QuietMeansDone ==
    ASSUME Typed, OneDay, OnTime, run.pc = "decide", mode # "same", ~run.open,
           now >= Day * DayLen + close, now - StartOf(Latest) >= Margin
    PROVE  ~(shown < Bars /\ BarStart(shown + 1) < close)
<1> SUFFICES ASSUME shown < Bars, BarStart(shown + 1) < close PROVE FALSE
  OBVIOUS
<1>1. run \in Running
  BY RunningNow
<1>2. PICK d \in Nat : d = Day
  BY Whole
<1>3. PICK D \in Nat : D = d * DayLen /\ D = Day * DayLen
  BY <1>2, Whole
<1>4. PICK t \in Nat : t = now
  BY DEF Typed
<1>5. PICK k \in 0..(DayLen - 1) : k = TickOf(now) /\ t = D + k
  BY <1>3, <1>4, Whole
<1>6. PICK c \in Nat : c = close /\ Open + Bar + MaxLag < c
  BY Whole
<1>7. PICK s \in Nat : s = shown
  BY Constants DEF Typed
<1>8. PICK n \in 0..Bars : n = run.n /\ n <= s
  BY <1>1, <1>7, Constants DEF Running, OnTime
<1>9. PICK a \in Nat : a = run.at
  BY <1>1 DEF Running
<1>10. PICK f \in Nat : f = run.fetched
  BY <1>1 DEF Running
<1>11. D <= a /\ a <= f /\ f <= t /\ t <= a + Bar
  BY <1>3, <1>4, <1>9, <1>10 DEF OneDay, InCycle
<1>12. TickOf(a) = a - D /\ TickOf(f) = f - D
  <2>1. a < D + DayLen /\ f < D + DayLen
    BY <1>5, <1>11, Constants
  <2>2. d * DayLen <= a /\ a < d * DayLen + DayLen /\ d * DayLen <= f /\ f < d * DayLen + DayLen
    BY <1>3, <1>11, <2>1, Constants
  <2>3. TickOf(a) = a - d * DayLen
    BY <2>2, SameDay
  <2>4. TickOf(f) = f - d * DayLen
    BY <2>2, SameDay
  <2> QED BY <1>3, <2>3, <2>4
<1>13. k >= c
  BY <1>3, <1>4, <1>5, <1>6
<1>14. PICK m \in 0..Bars : m = Cardinality(Visible) /\ m <= n
  <2>1. n \in Nat
    BY Constants
  <2>2. IsFiniteSet(1..n) /\ Cardinality(1..n) = n
    BY <2>1, FS_Interval
  <2>4. Visible \subseteq 1..n
    BY <1>1, <1>8, LatestIsWhole
  <2>3. Cardinality(Visible) <= n
    BY <2>2, <2>4, FS_Subset
  <2> QED BY <1>1, <2>3, LatestIsWhole
<1>15. n \in Nat /\ m \in Nat /\ n < Bars
  BY <1>7, <1>8, Constants
<1>16. PICK p \in Int : p = BarStart(n + 1) /\ BarEnd(n + 1) = p + Bar /\ p < c
  <2>1. n + 1 \in Nat /\ s + 1 \in Nat /\ n + 1 <= s + 1
    BY <1>8, <1>15
  <2>2. BarStart(n + 1) <= BarStart(s + 1) /\ BarStart(s + 1) \in Int
    BY <1>7, <2>1, BarsAscend, BarByBar
  <2> QED BY <1>6, <1>7, <1>15, <2>2, BarsBelow
\* What the vendor held back when it was asked.
<1>17. f - D <= p + Bar + MaxLag
  BY <1>6, <1>8, <1>10, <1>11, <1>12, <1>15, <1>16, Constants DEF OnTime, NotLate
\* When the newest usable bar began.
<1>18. ASSUME m >= 1
       PROVE  k - BarStart(m) >= 2 * Bar + Allowance /\ BarStart(m) \in Int
              /\ BarStart(m + 1) = BarStart(m) + Bar
  <2>1. m \in 1..Bars
    BY <1>18
  <2>2. Latest = d * Bars + m
    BY <1>2, <1>14 DEF Latest
  <2>3. StartOf(Latest) = D + BarStart(m)
    BY <1>3, <2>1, <2>2, NewestStart
  <2>4. PICK b \in Int : b = BarStart(m)
    BY <1>15, BarByBar
  <2>5. t - (D + b) >= 2 * Bar + Allowance
    BY <1>4, <2>3, <2>4 DEF Margin
  <2> QED BY <1>5, <1>15, <2>4, <2>5, BarByBar, Constants
<1>19. CASE m < n
  <2>1. Cutoff = now
    BY DEF Cutoff
  <2>2. BarEnd(m + 1) > k
    BY <1>1, <1>5, <1>8, <1>14, <1>19, <2>1, FirstBars
  <2>3. PICK b \in Int : b = BarStart(m + 1) /\ BarEnd(m + 1) = b + Bar
    BY <1>15, BarsBelow
  <2>4. CASE m = 0
    <3>1. b = Open
      BY <2>3, <2>4, BarByBar
    <3> QED BY <1>6, <1>13, <2>2, <2>3, <3>1, Constants
  <2>5. CASE m >= 1
    BY <1>18, <2>2, <2>3, <2>5, Constants
  <2> QED BY <1>15, <2>4, <2>5
<1>20. CASE m = n
  <2>1. CASE m = 0
    <3>1. p = Open
      BY <1>16, <1>20, <2>1, BarByBar
    <3>2. a - D < Open \/ a - D >= c
      BY <1>6, <1>9, <1>12 DEF OneDay, InCycle
    <3> QED BY <1>5, <1>6, <1>11, <1>13, <1>17, <3>1, <3>2, Constants
  <2>2. CASE m >= 1
    <3>1. PICK b \in Int : b = BarStart(m) /\ p = b + Bar /\ k - b >= 2 * Bar + Allowance
      BY <1>16, <1>18, <1>20, <2>2
    <3>2. k <= f - D + Bar
      BY <1>5, <1>11, Constants
    <3> QED BY <1>17, <3>1, <3>2, Constants
  <2> QED BY <1>15, <2>1, <2>2
<1> QED BY <1>14, <1>19, <1>20, <1>15

LEMMA DrainedWhen ==
    ASSUME Typed, run \in Running
    PROVE  \/ Quietened.drained = run.drained
           \/ /\ mode # "same" /\ ~run.open /\ Quietened.drained = now
              /\ now - StartOf(Latest) >= Margin
<1>1. PICK q \in 0..2 : q = Min({run.quiet + 1, 2})
  <2>1. PICK a \in 1..3 : a = run.quiet + 1
    BY DEF Running
  <2>2. Min({a, 2}) \in {a, 2} /\ Min({a, 2}) <= 2
    BY LesserOfTwo
  <2>3. Min({run.quiet + 1, 2}) \in 0..2
    BY <2>1, <2>2
  <2> QED BY <2>3
<1>2. PICK d \in Instants :
          d = IF q = 2 /\ now - StartOf(Latest) >= Margin THEN now ELSE run.drained
  BY DEF Instants, Running, Typed
<1>3. [run EXCEPT !.quiet = q, !.drained = d].drained = d
  BY DEF Running
<1>4. Quietened = IF mode = "same" \/ run.open THEN run
                  ELSE [run EXCEPT !.quiet = q, !.drained = d]
  BY <1>1, <1>2 DEF Quietened, Running
<1> QED BY <1>2, <1>3, <1>4

LEMMA RestsStep ==
    ASSUME Typed, Attempted, OneDay, OnTime, Rests, [Next]_vars
    PROVE  Rests'
<1>1. CASE ~Live'
  BY <1>1 DEF Rests
<1>2. ASSUME run'.drained = Never
      PROVE  Rests'
  <2>1. PICK D \in Nat : D = Day' * DayLen
    <3>1. Typed'
      BY TypedStep
    <3>2. now' \in Nat
      BY <3>1 DEF Typed
    <3>3. now' \div DayLen \in Nat
      BY <3>2, Calendar
    <3> QED BY <3>3, Constants DEF Day
  <2>2. PICK c \in Nat : c = close'
    <3>1. close' \in EarlyCloses \cup {Close}
      BY TypedStep DEF Typed
    <3> QED BY <3>1, Constants
  <2>3. now' \in Nat
    BY TypedStep DEF Typed
  <2> QED BY <1>2, <2>1, <2>2, <2>3 DEF Rests, Never
<1>3. ASSUME Live, run'.drained = run.drained, UNCHANGED <<mode, now, close, shown>>
      PROVE  Rests'
  <2>1. Day' = Day
    BY <1>3 DEF Day
  <2> QED BY <1>3, <2>1 DEF Rests
<1>4. CASE Ends /\ NothingNew
  <2>1. run \in Running /\ run.pc = "decide" /\ Live /\ UNCHANGED world
    BY <1>4, RunningNow DEF NothingNew, Live
  <2>2. UNCHANGED <<mode, now, close, shown>> /\ Day' = Day
    BY <2>1 DEF world, Day
  <2>3. CASE Finish(run)
    BY <1>3, <2>1, <2>2, <2>3, FinishFields
  <2>4. CASE Finish(Quietened)
    <3>1. run'.drained = Quietened.drained
      BY <2>1, <2>4, QuietenedTyped, FinishFields
    <3>2. CASE Quietened.drained = run.drained
      BY <1>3, <2>1, <2>2, <3>1, <3>2
    <3>3. CASE /\ mode # "same" /\ ~run.open /\ Quietened.drained = now
               /\ now - StartOf(Latest) >= Margin
      <4>1. now >= Day * DayLen + close => ~(shown < Bars /\ BarStart(shown + 1) < close)
        BY <2>1, <3>3, QuietMeansDone
      <4>2. now \in Nat
        BY DEF Typed
      <4> QED BY <2>2, <3>1, <3>3, <4>1, <4>2 DEF Rests
    <3> QED BY <2>1, <3>2, <3>3, DrainedWhen
  <2> QED BY <1>4, <2>3, <2>4 DEF NothingNew
<1>5. CASE Ends /\ ~NothingNew
  BY <1>1, <1>2, <1>3, <1>5 DEF Ends, world
<1>6. CASE Begins
  BY <1>2, <1>3, <1>6 DEF Begins, world, Live
<1>7. CASE Continues
  BY <1>3, <1>7 DEF Continues, world, Live, InCycle
<1>8. CASE Untouched /\ Live
  <2>1. run' = run /\ mode' = mode /\ Live'
    BY <1>8, ModeKept DEF Untouched, Live
  <2>2. PICK r \in Instants : r = run.drained
    BY <1>8, Whole DEF Running
  <2>3. PICK t \in Nat : t = now
    BY DEF Typed
  <2>4. r \in Int /\ r <= t
    BY <1>8, <2>2, <2>3 DEF Rests, Instants, Never
  <2>5. PICK D \in Nat : D = Day * DayLen
    BY Whole
  <2>6. PICK k \in 0..(DayLen - 1) : k = TickOf(now) /\ t = D + k
    BY <2>3, <2>5, Whole
  <2>7. CASE UNCHANGED <<now, close, shown>>
    BY <1>3, <1>8, <2>1, <2>7
  <2>8. CASE Publish
    <3>1. shown < Bars /\ BarStart(shown + 1) < close /\ UNCHANGED <<now, close>>
      <4>1. PICK s \in Nat : s = shown + 1 /\ s - 1 = shown
        BY Constants DEF Typed
      <4>2. now \in Nat /\ close \in Nat
        BY Whole DEF Typed
      <4>3. s <= Bars /\ BarStart(s) < close
        BY <2>8, <4>1, <4>2, StartedMeans DEF Publish
      <4> QED BY <2>8, <4>1, <4>3, Constants DEF Publish
    <3>2. ~(run.drained >= Day * DayLen + close)
      BY <1>8, <3>1 DEF Rests
    <3>3. Day' = Day
      BY <3>1 DEF Day
    <3> QED BY <1>8, <2>1, <3>1, <3>2, <3>3 DEF Rests
  <2>9. CASE Tick
    <3>1. PICK u \in Nat : u = t + 1
      OBVIOUS
    <3>2. now' = u
      BY <2>3, <2>9, <3>1 DEF Tick
    <3>3. CASE TickOf(u) # 0
      <4>1. u \div DayLen = t \div DayLen /\ UNCHANGED <<close, shown>>
        BY <2>9, <3>1, <3>2, <3>3, NextTick DEF Tick
      <4>2. Day' = Day
        BY <2>3, <3>2, <4>1 DEF Day
      <4> QED BY <1>8, <2>1, <2>2, <2>3, <2>4, <3>1, <3>2, <4>1, <4>2 DEF Rests
    <3>4. CASE TickOf(u) = 0
      <4>1. close' = Close
        BY <2>9, <3>2, <3>4 DEF Tick
      <4>2. PICK E \in Nat : E = Day' * DayLen /\ u = E
        <5>1. PICK e \in Nat : e = u \div DayLen /\ u = e * DayLen + TickOf(u)
          BY Calendar
        <5>2. e * DayLen \in Nat
          BY Constants
        <5> QED BY <3>2, <3>4, <5>1, <5>2 DEF Day
      <4>3. ~(r >= E + Close)
        BY <2>4, <3>1, <4>2, Constants
      <4> QED BY <1>8, <2>1, <2>2, <2>3, <2>4, <3>1, <3>2, <4>1, <4>2, <4>3 DEF Rests
    <3> QED BY <3>3, <3>4
  <2>10. CASE CloseEarly
    <3>1. PICK b \in EarlyCloses : TickOf(now) < b /\ close' = b
      BY <2>10 DEF CloseEarly
    <3>2. PICK x \in Nat : x = b
      BY Constants
    <3>3. now' = now /\ shown' = shown /\ Day' = Day
      BY <2>10 DEF CloseEarly, Day
    <3>4. ~(r >= D + x)
      BY <2>4, <2>6, <3>1, <3>2
    <3> QED BY <1>8, <2>1, <2>2, <2>5, <3>1, <3>2, <3>3, <3>4 DEF Rests
  <2> QED BY <1>8, <2>7, <2>8, <2>9, <2>10 DEF Untouched, Resolve, world, vars
<1> QED BY <1>1, <1>4, <1>5, <1>6, <1>7, <1>8, Moves DEF Untouched, Live

\* Alerts are never taken back.
LEMMA AlertsGrow ==
    ASSUME [Next]_vars
    PROVE  alerts \subseteq alerts'
BY DEF Next, Cycle, Gate, Outcome, Poll, PollFails, GateUnchecked, GateFrozen, GateFlatten,
       GateEvaluate, Fetch, FetchFails, NothingNew, DecideFails, Evaluate, Veto, AppendAttempt,
       Send, Finalize, Record, RecordFails, Submitted, FlattenSent, FlattenUnknown,
       FlattenUnchecked, FlattenBlocked, Die, Start, Resolve, Publish, Tick, CloseEarly,
       Disconnect, Tell, books, vars

\* An evaluation before the deadline is not past it.
LEMMA OpenIsNotPast ==
    ASSUME Typed, run \in Running, NEW nc \in NextClose, EvaluationOpen(nc)
    PROVE  ~PastDeadline(nc)
<1>1. PICK a \in Int : a = table
  BY Constants DEF EvaluationOpen, Typed
<1>2. PICK b \in Int : b = nc
  BY Whole, Constants DEF NextClose, Unread, Later
<1>3. Min({a, b}) \in Int
  BY LesserOfTwo
<1>4. PICK d \in Int : d = FlattenDeadline(nc)
  BY <1>1, <1>2, <1>3, Constants DEF FlattenDeadline
<1>5. PICK k \in Int : k = TickOf(run.at)
  <2>1. run.at \in Nat
    BY DEF Running
  <2>2. TickOf(run.at) \in 0..(DayLen - 1)
    BY <2>1, Calendar
  <2> QED BY <2>2
<1> QED BY <1>4, <1>5, Constants DEF EvaluationOpen, PastDeadline

LEMMA CarriesStep ==
    ASSUME Typed, Attempted, Books, OneDay, Carries, [Next]_vars
    PROVE  Carries'
<1>0. alerts \subseteq alerts'
  BY AlertsGrow
<1>1. PICK D \in Nat : D = Day * DayLen
  BY Whole
\* A cycle ends.
<1>2. ASSUME run \in Running, NEW r \in Running, Finish(r), UNCHANGED world,
             r.retry = run.retry,
             r.refused = run.refused \/ r.refused = Day \/ Day \in alerts',
             r.past /\ r.refused # Day /\ lot' # NoLot => Day \in alerts'
      PROVE  Carries'
  <2>1. /\ run'.pc = "poll" /\ run'.basis = "none" /\ run'.past = FALSE
        /\ run'.proceed = FALSE /\ run'.retry = run.retry
        /\ run'.refused = Kept(r.refused)
        /\ carried' = IF r.past /\ r.refused # Day /\ lot' # NoLot THEN Day ELSE carried
    BY <1>2, FinishFields
  <2>2. Day' = Day /\ mode' = mode
    BY <1>2 DEF world, Day
  <2>3. carried' # Never => carried' \in alerts'
    BY <1>0, <1>2, <2>1 DEF Carries
  <2>4. /\ run.retry <= Day * DayLen + Close + Bar
        /\ run.retry <= Day * DayLen + Open \/ Day \in alerts' \/ run.refused = Day
    BY <1>0, <1>2, Whole DEF Carries
  <2>5. run.refused = Day => Day \in alerts' \/ run'.refused = Day
    BY <1>2, <2>1 DEF Kept
  <2> QED BY <2>1, <2>2, <2>3, <2>4, <2>5 DEF Carries
<1>3. ASSUME run \in Running, Disconnect
      PROVE  Carries'
  <2>1. UNCHANGED <<world, books, carried>>
    BY <1>3 DEF Disconnect
  <2>2. Day' = Day /\ mode' = mode /\ alerts' = alerts /\ carried' = carried
    BY <2>1 DEF world, Day, books
  <2>3. CASE run' \in Stopped
    BY <2>2, <2>3 DEF Carries, Stopped, Live
  <2>4. CASE run' \notin Stopped
    <3>1. now \in Nat
      BY DEF Typed
    <3>2. /\ run'.pc = "poll" /\ run'.basis = "none" /\ run'.past = FALSE
          /\ run'.proceed = FALSE /\ run'.retry = run.retry
          /\ run'.refused = Kept(run.refused)
      BY <1>3, <2>4, <3>1, DisconnectFields
    <3>3. /\ run.retry <= Day * DayLen + Close + Bar
          /\ run.retry <= Day * DayLen + Open \/ Day \in alerts \/ run.refused = Day
      BY <1>3, Whole DEF Carries
    <3>4. run.refused = Day => run'.refused = Day
      BY <3>2 DEF Kept
    <3> QED BY <2>2, <3>2, <3>3, <3>4 DEF Carries
  <2> QED BY <2>3, <2>4
\* A step of the submission.
<1>4. ASSUME run \in Running, run.pc \in Submitting, UNCHANGED <<world, alerts, carried>>,
             NEW pc \in {"send", "finalize", "record", "result"}, NEW a \in Answers,
             run' = [run EXCEPT !.pc = pc, !.answer = a]
      PROVE  Carries'
  <2>1. /\ run'.pc = pc /\ run'.basis = run.basis /\ run'.side = run.side
        /\ run'.past = run.past /\ run'.proceed = run.proceed /\ run'.retry = run.retry
        /\ run'.refused = run.refused
    BY <1>4 DEF Running
  <2>2. Day' = Day /\ mode' = mode /\ alerts' = alerts /\ carried' = carried
    BY <1>4 DEF world, Day
  <2>3. Live
    BY <1>4, Whole
  <2> QED BY <2>1, <2>2, <2>3 DEF Carries
\* The cycle goes on, before the flatten or without one.
<1>5. ASSUME Live, run' \in Running, run'.pc \in PCs, UNCHANGED <<world, alerts, carried>>,
             run'.basis = "none", run'.past = FALSE, run'.retry = run.retry,
             run'.refused = run.refused, run'.pc = "gate" => mode = "same"
      PROVE  Carries'
  <2>1. Day' = Day /\ mode' = mode /\ alerts' = alerts /\ carried' = carried
    BY <1>5 DEF world, Day
  <2> QED BY <1>5, <2>1 DEF Carries
<1>6. CASE Poll
  <2>1. run \in Running /\ run.pc = "poll" /\ UNCHANGED <<world, books>> /\ Live
    BY <1>6, RunningNow DEF Poll, Live
  <2>2. ~run.past /\ run.basis = "none" /\ run.past \in BOOLEAN
    BY <2>1 DEF Carries, Running
  <2>3. CASE Finish(run)
    BY <1>2, <2>1, <2>2, <2>3
  <2>4. CASE ~Finish(run)
    <3>1. PICK r \in Running : /\ r = [run EXCEPT !.at = now, !.open = IsOpen]
                               /\ r.basis = run.basis /\ r.past = run.past
                               /\ r.retry = run.retry /\ r.refused = run.refused
      <4>1. PICK o \in BOOLEAN : o = IsOpen
        <5>1. IsOpen \in BOOLEAN
          BY DEF IsOpen
        <5> QED BY <5>1
      <4>2. PICK t \in Nat : t = now
        BY DEF Typed
      <4>3. [run EXCEPT !.at = t, !.open = o] \in Running
        BY <2>1 DEF Running
      <4>4. /\ [run EXCEPT !.at = t, !.open = o].basis = run.basis
            /\ [run EXCEPT !.at = t, !.open = o].past = run.past
            /\ [run EXCEPT !.at = t, !.open = o].retry = run.retry
            /\ [run EXCEPT !.at = t, !.open = o].refused = run.refused
        BY <2>1 DEF Running
      <4> QED BY <4>1, <4>2, <4>3, <4>4
    <3>2. carried' = carried /\
          \/ mode = "same" /\ run' = [r EXCEPT !.pc = "gate"]
          \/ run' = [r EXCEPT !.pc = "fetch", !.drained = Never, !.quiet = 0]
          \/ run' = [r EXCEPT !.pc = "fetch"]
      BY <1>6, <2>4, <3>1 DEF Poll, Become
    <3>3. run'.pc \in {"gate", "fetch"} /\ (run'.pc = "gate" => mode = "same")
          /\ run'.basis = r.basis /\ run'.past = r.past /\ run'.retry = r.retry
          /\ run'.refused = r.refused
      BY <3>2 DEF Running
    <3>4. run' \in Running
      <4>1. run' \in Running \cup Stopped
        BY TypedStep DEF Typed
      <4> QED BY <3>3, <4>1 DEF Stopped
    <3>5. run'.past = FALSE
      BY <2>2, <3>1, <3>3
    <3> QED BY <1>5, <2>1, <2>2, <3>1, <3>2, <3>3, <3>4, <3>5 DEF books, PCs
  <2> QED BY <2>3, <2>4
<1>7. CASE PollFails \/ FetchFails \/ DecideFails
  BY <1>3, <1>7, RunningNow DEF PollFails, FetchFails, DecideFails
<1>8. ASSUME NEW told \in BOOLEAN,
             GateUnchecked(told) \/ GateFrozen(told) \/ FlattenUnknown(told)
      PROVE  Carries'
  BY <1>2, <1>8, TellsAndEnds
\* The cycle is in the market's hours: an order put off is one told of, or one
\* whose alert the store refused.
<1>9. ASSUME run \in Running, InCycle, mode = "same"
      PROVE  /\ run.at >= D + Open /\ run.at <= D + Close
             /\ run.retry > run.at => Day \in alerts \/ run.refused = Day
  <2>1. PICK a \in Nat : a = run.at
    BY <1>9 DEF Running
  <2>2. PICK t \in Nat : t = now
    BY DEF Typed
  <2>3. PICK k \in 0..(DayLen - 1) : k = TickOf(now) /\ t = D + k
    BY <1>1, <2>2, Whole
  <2>4. D <= a /\ a <= t
    BY <1>1, <1>9, <2>1, <2>2 DEF OneDay
  <2>5. PICK d \in Nat : d = Day
    BY Whole
  <2>6. TickOf(a) = a - D
    <3>1. d * DayLen <= a /\ a < d * DayLen + DayLen
      BY <1>1, <2>3, <2>4, <2>5, Constants
    <3>2. TickOf(a) = a - d * DayLen
      BY <3>1, SameDay
    <3> QED BY <1>1, <2>5, <3>2
  <2>7. Open <= TickOf(a) /\ TickOf(a) < Close
    BY <1>9, <2>1 DEF OneDay
  <2>8. a >= D + Open /\ a <= D + Close
    BY <2>6, <2>7, Constants
  <2>9. PICK y \in Nat : y = run.retry
    BY <1>9 DEF Running
  <2>10. y <= D + Open \/ Day \in alerts \/ run.refused = Day
    BY <1>1, <1>9, <2>9, Whole DEF Carries
  <2> QED BY <2>1, <2>8, <2>9, <2>10, Constants
<1>10. CASE GateFlatten
  <2>1. run \in Running /\ UNCHANGED <<world, alerts, carried>> /\ run.pc = "gate" /\ Live
    BY <1>10, RunningNow DEF GateFlatten, books, Live
  <2>2. PICK nc \in NextClose :
            /\ Due(nc)
            /\ run' = [run EXCEPT !.pc = "submit", !.side = "sell", !.basis = Basis(nc),
                                  !.proceed = EvaluationOpen(nc), !.past = PastDeadline(nc)]
    BY <1>10 DEF GateFlatten, Become
  <2>3. /\ run'.pc = "submit" /\ run'.side = "sell" /\ run'.basis = Basis(nc)
        /\ run'.retry = run.retry /\ run'.refused = run.refused
    BY <2>1, <2>2 DEF Running
  <2>4. run'.proceed = EvaluationOpen(nc)
    BY <2>1, <2>2 DEF Running
  <2>5. run'.past = PastDeadline(nc)
    BY <2>1, <2>2 DEF Running
  <2>6. EvaluationOpen(nc) => ~PastDeadline(nc)
    BY <2>1, OpenIsNotPast
  <2>7. run'.proceed => ~run'.past
    BY <2>4, <2>5, <2>6
  <2>8. run'.basis # "none"
    BY <2>2, <2>3 DEF Due
  <2>9. Day' = Day /\ mode' = mode /\ alerts' = alerts /\ carried' = carried
    BY <2>1 DEF world, Day
  <2>10. mode = "same"
    BY <2>1 DEF Carries
  <2> QED BY <2>1, <2>3, <2>7, <2>8, <2>9, <2>10 DEF Carries
<1>11. CASE GateEvaluate
  <2>1. run \in Running /\ UNCHANGED <<world, attempt, placed, alerts>> /\ run.pc = "gate" /\ Live
    BY <1>11, RunningNow DEF GateEvaluate, Live
  <2>2. mode = "same" /\ ~run.past /\ run.basis = "none" /\ run.past \in BOOLEAN
    BY <2>1 DEF Carries, Running
  <2>3. CASE run' = Goto("fetch") /\ carried' = carried
    <3>1. "fetch" \in PCs \ {"off"}
      BY DEF PCs
    <3>2. run' \in Running /\ run'.pc = "fetch" /\ run'.basis = run.basis
          /\ run'.past = run.past /\ run'.retry = run.retry /\ run'.refused = run.refused
      BY <2>1, <2>3, <3>1 DEF Goto, Running
    <3> QED BY <1>5, <2>1, <2>2, <2>3, <3>2 DEF PCs
  <2>4. ASSUME NEW nc \in NextClose, ~Due(nc), lot' = lot,
               Finish([run EXCEPT !.past = PastDeadline(nc)])
        PROVE  Carries'
    <3>1. PICK b \in BOOLEAN : b = PastDeadline(nc)
      <4>1. PastDeadline(nc) \in BOOLEAN
        BY DEF PastDeadline
      <4> QED BY <4>1
    <3>2. PICK r \in Running : /\ r = [run EXCEPT !.past = b]
                               /\ r.past = b /\ r.retry = run.retry
                               /\ r.refused = run.refused
      <4>1. [run EXCEPT !.past = b] \in Running
        BY <2>1 DEF Running
      <4>2. /\ [run EXCEPT !.past = b].past = b /\ [run EXCEPT !.past = b].retry = run.retry
            /\ [run EXCEPT !.past = b].refused = run.refused
        BY <2>1 DEF Running
      <4> QED BY <4>1, <4>2
    <3>3. ASSUME b, lot # NoLot
          PROVE  Day \in alerts \/ run.refused = Day
      <4>1. Basis(nc) # "none"
        BY <3>1, <3>3 DEF Basis
      <4>2. ~(run.retry <= run.at)
        BY <2>4, <3>3, <4>1 DEF Due
      <4>3. run.retry \in Nat /\ run.at \in Nat
        BY <2>1 DEF Running
      <4> QED BY <1>9, <2>1, <2>2, <4>2, <4>3 DEF InCycle
    <3>4. r.past /\ r.refused # Day /\ lot' # NoLot => Day \in alerts'
      BY <2>1, <2>4, <3>2, <3>3
    <3> QED BY <1>2, <2>1, <2>4, <3>1, <3>2, <3>4
  <2> QED BY <1>11, <2>3, <2>4 DEF GateEvaluate, Become
<1>12. CASE Fetch
  <2>1. run \in Running /\ UNCHANGED <<world, books, carried>> /\ run.pc = "fetch" /\ Live
    BY <1>12, RunningNow DEF Fetch, Live
  <2>2. ~run.past /\ run.basis = "none" /\ run.past \in BOOLEAN
    BY <2>1 DEF Carries, Running
  <2>3. "decide" \in PCs \ {"off"} /\ shown \in 0..Bars /\ now \in Nat
    BY DEF PCs, Typed
  <2>4. run' \in Running /\ run'.pc = "decide" /\ run'.basis = run.basis
        /\ run'.past = run.past /\ run'.retry = run.retry /\ run'.refused = run.refused
    BY <1>12, <2>1, <2>3 DEF Fetch, Become, Running
  <2> QED BY <1>5, <2>1, <2>2, <2>4 DEF PCs, books
<1>13. CASE NothingNew
  <2>1. run \in Running /\ UNCHANGED world /\ run.pc = "decide"
    BY <1>13, RunningNow DEF NothingNew
  <2>2. ~run.past
    BY <2>1 DEF Carries
  <2>3. CASE Finish(run)
    BY <1>2, <2>1, <2>2, <2>3
  <2>4. CASE Finish(Quietened)
    <3>1. ~Quietened.past
      BY <2>1, <2>2, QuietenedTyped
    <3> QED BY <1>2, <2>1, <2>4, <3>1, QuietenedTyped
  <2> QED BY <1>13, <2>3, <2>4 DEF NothingNew
<1>14. CASE Evaluate
  <2>1. run \in Running /\ UNCHANGED <<world, books>> /\ run.pc = "decide" /\ Live
    BY <1>14, RunningNow DEF Evaluate, Live
  <2>2. ~run.past /\ run.basis = "none" /\ run.past \in BOOLEAN
    BY <2>1 DEF Carries, Running
  <2>3. PICK r \in Running : /\ r = [run EXCEPT !.watermark = Latest, !.quiet = 0]
                             /\ r.past = run.past /\ r.basis = run.basis /\ r.retry = run.retry
                             /\ r.refused = run.refused
    <3>1. PICK w \in Int : w = Latest
      BY <2>1, LatestIsWhole
    <3>2. 0 \in 0..2
      OBVIOUS
    <3>3. [run EXCEPT !.watermark = w, !.quiet = 0] \in Running
      BY <2>1, <3>2 DEF Running
    <3>4. /\ [run EXCEPT !.watermark = w, !.quiet = 0].past = run.past
          /\ [run EXCEPT !.watermark = w, !.quiet = 0].basis = run.basis
          /\ [run EXCEPT !.watermark = w, !.quiet = 0].retry = run.retry
          /\ [run EXCEPT !.watermark = w, !.quiet = 0].refused = run.refused
      BY <2>1 DEF Running
    <3> QED BY <3>1, <3>3, <3>4
  <2>4. CASE Finish(r)
    <3>1. ~r.past
      BY <2>2, <2>3
    <3> QED BY <1>2, <2>1, <2>3, <2>4, <3>1
  <2>5. ASSUME NEW side \in Wishes, run' = [r EXCEPT !.pc = "submit", !.side = side],
               carried' = carried
        PROVE  Carries'
    <3>1. "submit" \in PCs \ {"off"} /\ side \in Sides
      BY DEF PCs, Sides, Wishes
    <3>2. run' \in Running /\ run'.pc = "submit" /\ run'.basis = r.basis
          /\ run'.past = r.past /\ run'.retry = r.retry /\ run'.refused = r.refused
      BY <2>5, <3>1 DEF Running
    <3>3. run'.past = FALSE
      BY <2>2, <2>3, <3>2
    <3> QED BY <1>5, <2>1, <2>2, <2>3, <2>5, <3>2, <3>3 DEF PCs, books
  <2> QED BY <1>14, <2>3, <2>4, <2>5 DEF Evaluate, Become
<1>15. CASE Veto \/ RecordFails
  <2>1. run \in Running /\ run.pc \in Submitting /\ UNCHANGED <<world, alerts, carried>>
    BY <1>15, RunningNow DEF Veto, RecordFails, Submitting, books
  <2>2. PICK a \in Answers : run' = [run EXCEPT !.pc = "result", !.answer = a]
    BY <1>15 DEF Veto, RecordFails, Become, Answers
  <2> QED BY <1>4, <2>1, <2>2
<1>16. CASE AppendAttempt \/ Finalize \/ Record
  <2>1. run \in Running /\ run.pc \in Submitting /\ UNCHANGED <<world, alerts, carried>>
    BY <1>16, RunningNow DEF AppendAttempt, Finalize, Record, Submitting
  <2>2. PICK pc \in {"send", "finalize", "record", "result"} : run' = Goto(pc)
    BY <1>16 DEF AppendAttempt, Finalize, Record, Become
  <2>3. PICK a \in Answers : a = run.answer
    BY <2>1 DEF Running
  <2>4. run' = [run EXCEPT !.pc = pc, !.answer = a]
    BY <2>1, <2>2, <2>3 DEF Goto, Running
  <2> QED BY <1>4, <2>1, <2>4
<1>17. ASSUME NEW taken \in BOOLEAN, NEW answer \in {"submitted", "rejected", "error"},
              Send(taken, answer)
       PROVE  Carries'
  <2>1. run \in Running /\ run.pc \in Submitting /\ UNCHANGED <<world, alerts, carried>>
    BY <1>17, RunningNow DEF Send, Submitting
  <2>2. run' = [run EXCEPT !.pc = "finalize", !.answer = answer] /\ answer \in Answers
    BY <1>17 DEF Send, Become, Answers
  <2> QED BY <1>4, <2>1, <2>2
<1>18. CASE Submitted
  <2>1. run \in Running /\ UNCHANGED world /\ Live /\ Finish(run) /\ run.basis = "none"
    BY <1>18, RunningNow DEF Submitted, Live
  <2>2. ~run.past
    BY <2>1 DEF Carries
  <2> QED BY <1>2, <2>1, <2>2
<1>19. CASE FlattenUnchecked
  <2>1. run \in Running /\ UNCHANGED world
    BY <1>19, RunningNow DEF FlattenUnchecked
  <2>2. PICK r \in Running : /\ r = Told(run, FALSE) /\ r.retry = run.retry
                             /\ Day \in alerts \/ r.refused = Day
    BY <2>1, ToldFields
  <2> QED BY <1>0, <1>2, <1>19, <2>1, <2>2 DEF FlattenUnchecked
<1>20. CASE FlattenSent
  <2>1. run \in Running /\ UNCHANGED <<world, books>> /\ Live /\ Proceed(run)
        /\ run.pc = "result" /\ run.basis # "none" /\ run.answer = "submitted"
    BY <1>20, RunningNow DEF FlattenSent, Live
  <2>2. mode = "same"
    BY <2>1 DEF Carries
  <2>3. lot' = NoLot
    BY <2>1, <2>2 DEF Books, books
  <2>4. CASE Finish(run)
    BY <1>2, <2>1, <2>3, <2>4
  <2>5. CASE run.proceed /\ run'.pc = "fetch"
    <3>1. ~run.past /\ run.past \in BOOLEAN
      BY <2>1, <2>5 DEF Carries, Running
    <3>2. run' \in Running /\ run'.basis = "none" /\ run'.past = run.past
          /\ run'.retry = run.retry /\ run'.refused = run.refused /\ carried' = carried
      BY <2>1, <2>5, ProceedFields
    <3> QED BY <1>5, <2>1, <2>5, <3>1, <3>2 DEF PCs, books
  <2> QED BY <2>1, <2>4, <2>5, ProceedFields
<1>21. ASSUME NEW told \in BOOLEAN, FlattenBlocked(told)
       PROVE  Carries'
  <2>1. /\ run \in Running /\ UNCHANGED world /\ Live /\ run.pc = "result"
        /\ run.basis # "none"
    BY <1>21, PutsOff
  <2>2. mode = "same" /\ InCycle
    BY <2>1 DEF Carries, InCycle
  <2>3. PICK a \in Nat : a = run.at
    BY <2>1 DEF Running
  <2>4. PICK r \in Running : /\ Proceed(r) /\ r.past = run.past
                             /\ r.retry = run.retry \/ r.retry = a + Bar
                             /\ Day \in alerts' \/ r.refused = Day
    BY <1>21, <2>1, <2>3, PutsOff
  <2>5. r.retry <= Day * DayLen + Close + Bar
    <3>1. a + Bar <= D + Close + Bar
      BY <1>9, <2>1, <2>2, <2>3, Constants
    <3>2. run.retry <= Day * DayLen + Close + Bar
      BY <2>1 DEF Carries
    <3> QED BY <1>1, <2>4, <3>1, <3>2
  <2>6. Day' = Day /\ mode' = mode /\ (Day \in alerts' \/ run'.refused = Day)
    <3>1. Day' = Day /\ mode' = mode
      BY <2>1 DEF world, Day
    <3>2. run'.refused = r.refused \/ run'.refused = Kept(r.refused)
      BY <2>4, ProceedFields, FinishFields
    <3> QED BY <2>4, <3>1, <3>2 DEF Kept
  <2>7. carried' = carried \/ (carried' = Day /\ Day \in alerts')
    BY <2>4, ProceedFields, FinishFields
  <2>8. carried' # Never => carried' \in alerts'
    BY <1>0, <2>6, <2>7 DEF Carries
  <2>9. run' \in Running /\ run'.basis = "none" /\ run'.retry = r.retry
    BY <2>4, ProceedFields
  <2>10. ~run'.past /\ run'.pc \in {"poll", "fetch"}
    <3>1. CASE run'.pc = "poll"
      BY <2>4, <3>1, ProceedFields, FinishFields
    <3>2. CASE run.proceed /\ run'.pc = "fetch"
      <4>1. run'.past = r.past
        BY <2>4, <3>2, ProceedFields
      <4>2. ~run.past
        BY <2>1, <3>2 DEF Carries
      <4> QED BY <2>4, <3>2, <4>1, <4>2
    <3> QED BY <2>4, <3>1, <3>2, ProceedFields
  <2> QED BY <2>5, <2>6, <2>8, <2>9, <2>10 DEF Carries
<1>22. CASE Die
  <2>1. run'.pc = "off" /\ UNCHANGED <<carried, alerts>>
    BY <1>22 DEF Die, Become, Off, books
  <2> QED BY <2>1 DEF Carries, Live
<1>23. CASE Start
  <2>1. UNCHANGED <<now, carried, alerts>> /\ run' = Fresh
    BY <1>23 DEF Start, Become, books, world
  <2>2. /\ run'.retry = 0 /\ run'.basis = "none" /\ run'.past = FALSE /\ run'.pc = "poll"
    BY <2>1 DEF Fresh
  <2>3. Day' = Day /\ 0 <= D + Open /\ 0 <= D + Close + Bar
    BY <2>1, Constants DEF Day
  <2> QED BY <1>1, <2>1, <2>2, <2>3 DEF Carries
<1>24. CASE Tick
  <2>1. /\ now' = now + 1 /\ UNCHANGED <<mode, run, carried, alerts>>
    BY <1>24 DEF Tick, books
  <2>2. PICK t \in Nat : t = now
    BY DEF Typed
  <2>3. PICK u \in Nat : u = t + 1
    OBVIOUS
  <2>4. now' = u
    BY <2>1, <2>2, <2>3
  <2>5. CASE u \div DayLen = t \div DayLen
    <3>1. Day' = Day
      BY <2>2, <2>4, <2>5 DEF Day
    <3> QED BY <2>1, <3>1 DEF Carries, Live
  <2>6. CASE u \div DayLen = (t \div DayLen) + 1
    <3>1. PICK d \in Nat : d = t \div DayLen
      BY Calendar
    <3>2. PICK e \in Nat : e = d + 1 /\ e = u \div DayLen
      BY <2>6, <3>1
    <3>3. PICK E \in Nat : E = e * DayLen /\ E = D + DayLen
      <4>1. e * DayLen = d * DayLen + DayLen /\ e * DayLen \in Nat
        BY <3>2, Constants
      <4> QED BY <1>1, <2>2, <3>1, <4>1 DEF Day
    <3>4. Day' * DayLen = E
      BY <2>4, <3>2, <3>3 DEF Day
    <3>5. Live => run.retry <= E + Open /\ run.retry <= E + Close + Bar
      <4>1. SUFFICES ASSUME Live PROVE run.retry <= E + Open /\ run.retry <= E + Close + Bar
        OBVIOUS
      <4>2. PICK y \in Nat : y = run.retry
        BY <4>1, Whole DEF Running
      <4>3. y <= D + Close + Bar
        BY <1>1, <4>1, <4>2 DEF Carries
      <4> QED BY <3>3, <4>2, <4>3, Constants
    <3> QED BY <2>1, <3>4, <3>5 DEF Carries, Live
  <2> QED BY <2>3, <2>5, <2>6, NextTick
<1>25. CASE Resolve \/ Publish \/ CloseEarly \/ UNCHANGED vars
  <2>1. UNCHANGED <<mode, now, run, carried, alerts>>
    BY <1>25 DEF Resolve, Publish, CloseEarly, vars, books, world
  <2>2. Day' = Day
    BY <2>1 DEF Day
  <2> QED BY <2>1, <2>2 DEF Carries, Live
<1> QED BY <1>6, <1>7, <1>8, <1>10, <1>11, <1>12, <1>13, <1>14, <1>15, <1>16, <1>17, <1>18,
           <1>19, <1>20, <1>21, <1>22, <1>23, <1>24, <1>25
        DEF Next, Cycle, Gate, Outcome

-----------------------------------------------------------------------------
(* What follows from it                                                    *)

LEMMA Start0 == Init => IInv
<1> SUFFICES ASSUME Init PROVE IInv
  OBVIOUS
<1>1. /\ Fresh.pc = "poll" /\ Fresh.basis = "none" /\ Fresh.past = FALSE
      /\ Fresh.proceed = FALSE /\ Fresh.retry = 0 /\ Fresh.drained = Never
      /\ Fresh.refused = Never
  BY DEF Fresh
<1>2. Fresh \in Running
  <2>1. /\ "poll" \in PCs \ {"off"} /\ 0 \in Nat /\ 0 \in 0..Bars /\ 0 \in 0..2
        /\ "none" \in Sides /\ "none" \in Bases /\ "none" \in Answers
        /\ FALSE \in BOOLEAN /\ Never \in Instants /\ Never \in Int
    BY Constants DEF PCs, Sides, Bases, Answers, Instants, Never
  <2> QED BY <2>1 DEF Fresh, Running
<1>3. Typed
  BY <1>2, Constants DEF Init, Typed, NoLot, NoAttempt, Instants, Attempts
<1>4. Attempted
  BY <1>1 DEF Init, Attempted
<1>5. Books
  BY <1>1 DEF Init, Books, Submitting
<1>6. OneDay
  BY <1>1 DEF Init, OneDay, InCycle
<1>7. OnTime
  <2>1. TickOf(0) \in 0..(DayLen - 1) /\ 0 \div DayLen \in Nat
        /\ 0 = (0 \div DayLen) * DayLen + TickOf(0)
    BY Calendar
  <2>2. TickOf(0) = 0
    <3>1. (0 \div DayLen) * DayLen \in Nat
      BY <2>1, Constants
    <3> QED BY <2>1, <3>1, Constants
  <2>3. BarEnd(0 + 1) = Open + Bar
    BY BarByBar
  <2> QED BY <1>1, <2>2, <2>3, Constants DEF Init, OnTime, NotLate
<1>8. PICK D \in Nat : D = Day * DayLen
  BY <1>3, Whole
<1>9. Rests
  <2>1. close \in Nat /\ now = 0
    BY <1>3, Whole DEF Init
  <2> QED BY <1>1, <1>8, <2>1 DEF Init, Rests, Never
<1>10. Carries
  BY <1>1, <1>8, Constants DEF Init, Carries
<1> QED BY <1>3, <1>4, <1>5, <1>6, <1>7, <1>9, <1>10 DEF IInv

LEMMA IInvStep == IInv /\ [Next]_vars => IInv'
BY TypedStep, AttemptedStep, BooksStep, OneDayStep, OnTimeStep, RestsStep, CarriesStep DEF IInv

\* The inductive invariant of the poll loop.
THEOREM LoopInvariant == Spec => []IInv
BY Start0, IInvStep, PTL DEF Spec

\* The broker never accepts more SELL orders of a same_session strategy than BUY
\* orders, for every calendar, every answer of the broker and every death of the
\* process: the delivery freeze of the runner is enough.
THEOREM NothingSoldTwice == Spec => []NeverOversold
<1>1. IInv => NeverOversold
  BY DEF IInv, Books, NeverOversold
<1> QED BY <1>1, LoopInvariant, PTL

\* A lot that outlives its session, of which a cycle past its deadline knew, has
\* an alert of its day, whatever the retries of the flatten and although every
\* alert may fail, unless the store refused the process one that day and no later
\* one made it good.
THEOREM CarryIsTold == Spec => []NoSilentCarry
<1>1. IInv => NoSilentCarry
  <2> SUFFICES ASSUME IInv, lot # NoLot, lot.day \notin alerts, carried = lot.day PROVE FALSE
    BY DEF NoSilentCarry
  <2>1. lot.day # Never
    BY DEF IInv, Typed, NoLot
  <2> QED BY <2>1 DEF IInv, Carries
<1> QED BY <1>1, LoopInvariant, PTL

\* A multi_session runner that rests after the close misses no bar: the vendor
\* has published them all, however late it was allowed to be.
THEOREM NoBarMissed == Spec => NothingAfterDrained
<1>1. IInv /\ [Next]_vars =>
          (shown' > shown /\ Live /\ ~IsOpen => run.drained < Day * DayLen + close)
  <2> SUFFICES ASSUME IInv, [Next]_vars, shown' > shown, Live
               PROVE  run.drained < Day * DayLen + close
    OBVIOUS
  <2> USE DEF IInv
  <2>1. PICK s \in Nat : s = shown /\ s + 1 \in Nat
    BY Constants DEF Typed
  <2>2. Publish
    <3>1. ~(shown' = shown) /\ shown' # 0
      BY <2>1
    <3> QED BY <3>1, Moves DEF Untouched, Ends, Begins, Continues, Resolve, Tick, CloseEarly,
            world, vars
  <2>3. now \in Nat /\ close \in Nat
    BY Whole DEF Typed
  <2>4. shown < Bars /\ BarStart(shown + 1) < close
    <3>1. s + 1 <= Bars /\ BarStart(s + 1) < close
      BY <2>1, <2>2, <2>3, StartedMeans DEF Publish
    <3> QED BY <2>1, <3>1, Constants
  <2>5. ~(run.drained >= Day * DayLen + close)
    BY <2>4 DEF Rests
  <2>6. PICK r \in Instants : r = run.drained
    BY Whole DEF Running
  <2> QED BY <2>3, <2>5, <2>6, Whole DEF Instants, Never
<1> QED BY <1>1, LoopInvariant, PTL DEF Spec, NothingAfterDrained
=============================================================================
