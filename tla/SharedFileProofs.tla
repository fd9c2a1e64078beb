-------------------------- MODULE SharedFileProofs ---------------------------
(***************************************************************************)
(* Two files that processes share.                                         *)
(*                                                                         *)
(* The bar cache: what every read of bars relies on, for any number of     *)
(* processes, days and calls.  The cache file is only ever replaced by     *)
(* what is as new, a missed call serves what it fetched, and a range       *)
(* served from the cache is of one adjustment epoch although one bar of it *)
(* was compared.  Then what the intraday scan's coverage means: its grid   *)
(* has a slot for every multiple of the timeframe in the session and no    *)
(* other, and a session never observes more bars than it expects.          *)
(*                                                                         *)
(* The invariant of the cache is CacheInv.  FileInv says of the file, and  *)
(* FramesInv and EpochInv of what a call holds in memory, that every bar   *)
(* was once the vendor's, and that when the oldest bar's adjustment is     *)
(* current the others' are: corporate actions rescale every day before the *)
(* ex-date, so the oldest bar goes stale first.  A request must then never *)
(* put fresh days in front of it (AsksBehind).                             *)
(*                                                                         *)
(* The lock file, for any number of processes that end at any step: it     *)
(* excludes, and implements LockSpec, as long as every takeover of a stale *)
(* file removes an orphan, which it does when no two calls of acquire are  *)
(* between their read and their create at once.  Otherwise the takeover    *)
(* may remove a living holder's file, and does in the run lock_race.       *)
(***************************************************************************)
EXTENDS BarCache, AdvisoryLock, FiniteSetTheorems, WellFoundedInduction, TLAPS

Quality == INSTANCE BarQuality

-----------------------------------------------------------------------------
(* The invariant of the cache                                              *)

Frames == UNION {[D -> Bar] : D \in SUBSET Nat}
Hits == {"probe", "heal", "replace"}
Flight == {"fetch", "merge", "write"}
Calls == [at : {"idle", "view", "reread", "served"} \cup Hits \cup Flight,
          start : Nat, end : Nat, todo : SUBSET (Nat \X Nat),
          got : Frames, base : Frames, fill : BOOLEAN, hit : BOOLEAN,
          probe : {"none", "answered", "unknown"}, known : SUBSET Nat,
          overlapped : BOOLEAN, lost : BOOLEAN]

WorldTypes ==
    /\ today \in Nat /\ market \in {"before", "open", "after"}
    /\ exDates \subseteq Nat /\ IsFiniteSet(exDates) /\ calls \in Nat
    /\ raced \in BOOLEAN /\ extended \in BOOLEAN

\* Every bar of frame f was once the vendor's, who only moves on.
Past(f) == \A d \in DOMAIN f : Exists(d) /\ AsNew(VendorBar(d), f[d])

\* Frame f is adjusted for the corporate actions "known".
AdjustedFor(f, known) == \A d \in DOMAIN f : f[d].scale = Cardinality({x \in known : x > d})

\* What call c has yet to ask for lies after the oldest bar of the file, unless
\* it is all there is.
AsksBehind(c) ==
    IF parquet = None THEN c.got = None /\ \E r \in c.todo : c.todo = {r}
    ELSE \A e \in DOMAIN parquet : Oldest(parquet, e) =>
            /\ \A d \in DOMAIN c.got : d > e
            /\ \A r \in c.todo :
                  /\ r[1] >= e
                  /\ r[1] = e => /\ r[2] >= e /\ c.todo = {r} /\ c.got = None
                                 /\ DOMAIN parquet = {e}

\* A call that no write has overtaken knows the file; every call knows what it
\* fetched.
FramesInv(c) ==
    /\ Past(c.base) /\ Past(c.got)
    /\ c.at \in Hits => c.hit /\ c.base # None /\ (~c.overlapped => c.base = parquet)
    /\ c.at \in Flight \cup {"view", "reread"} => ~c.hit /\ c.probe = "none"
    /\ c.at = "replace" => Covers(c.got, c.base)
    /\ c.at \in Flight /\ ~c.overlapped => AsNewAs(c.got, parquet)
    /\ c.at = "write" => Covers(c.base, c.got)
    /\ c.at = "write" /\ ~c.overlapped => c.base = Merged(c.got, parquet)
    /\ c.at = "reread" => c.lost \/ Covers(parquet, c.got)
    /\ c.at = "served" /\ ~c.hit => c.lost \/ Covers(c.base, c.got)

EpochInv(c) ==
    /\ c.at = "probe" => raced \/ extended \/ Epoch(c.base)
    /\ c.at = "replace" => Epoch(c.got) /\ AdjustedFor(c.got, c.known)
    /\ c.at = "served" /\ c.probe = "answered" =>
          raced \/ extended \/ AdjustedFor(c.base, c.known)
    /\ c.at \in Flight /\ ~c.overlapped =>
          raced \/ extended \/ Epoch(Merged(c.got, parquet))
    /\ c.at = "fetch" /\ ~c.overlapped => extended \/ AsksBehind(c)

FileInv == parquet \in Frames /\ Past(parquet) /\ (raced \/ extended \/ Epoch(parquet))

CacheInv ==
    /\ WorldTypes /\ FileInv
    /\ call \in [Readers -> Calls]
    /\ \A p \in Readers : FramesInv(call[p]) /\ EpochInv(call[p])

-----------------------------------------------------------------------------
\* Sets of days, frames and scales.

LEMMA HasMin ==
    ASSUME NEW S \in SUBSET Nat, S # {}
    PROVE  \E d \in S : \A e \in S : d <= e
  <1>1. PICK d \in S : \A e \in S : ~(<<e, d>> \in OpToRel(<, Nat))
    BY NatLessThanWellFounded, WFMin
  <1>2. ASSUME NEW e \in S, e < d PROVE FALSE
    BY <1>1, <1>2 DEF OpToRel
  <1>3. QED BY <1>2

LEMMA HasMax ==
    ASSUME NEW S \in SUBSET Nat, S # {}, NEW n \in Nat, \A e \in S : e <= n
    PROVE  \E d \in S : \A e \in S : d >= e
  <1> DEFINE T == {n - e : e \in S}
  <1>1. T \in SUBSET Nat /\ T # {}
    <2>1. \A e \in S : n - e \in Nat
      OBVIOUS
    <2>2. QED BY <2>1
  <1>2. PICK t \in T : \A u \in T : t <= u
    BY <1>1, HasMin
  <1>3. PICK d \in S : t = n - d
    BY <1>2
  <1>4. ASSUME NEW e \in S PROVE d >= e
    <2>1. n - e \in T
      OBVIOUS
    <2>2. t <= n - e
      BY <1>2, <2>1
    <2>3. QED BY <1>3, <2>2
  <1>5. QED BY <1>4

LEMMA FrameType ==
    ASSUME NEW f \in Frames
    PROVE  /\ DOMAIN f \in SUBSET Nat /\ f = [d \in DOMAIN f |-> f[d]]
           /\ \A d \in DOMAIN f : f[d] \in Bar
  BY DEF Frames

LEMMA IsFrame ==
    ASSUME NEW D \in SUBSET Nat, NEW f, f \in [D -> Bar]
    PROVE  f \in Frames
  BY DEF Frames

LEMMA EmptyFrame ==
    /\ None \in Frames /\ DOMAIN None = {}
    /\ \A f \in Frames : DOMAIN f = {} => f = None
  <1>1. None \in [{} -> Bar] /\ DOMAIN None = {}
    BY DEF None
  <1>2. ASSUME NEW f \in Frames, DOMAIN f = {} PROVE f = None
    <2>1. f = [d \in {} |-> f[d]]
      BY <1>2, FrameType
    <2>2. QED BY <2>1 DEF None
  <1>3. QED BY <1>1, <1>2, IsFrame

LEMMA OldestOf ==
    ASSUME NEW f \in Frames, f # None
    PROVE  /\ First(f) \in DOMAIN f /\ Oldest(f, First(f))
           /\ \A e : Oldest(f, e) => e = First(f)
  <1>1. DOMAIN f \in SUBSET Nat /\ DOMAIN f # {}
    BY FrameType, EmptyFrame
  <1>2. \E d \in DOMAIN f : \A e \in DOMAIN f : d <= e
    BY <1>1, HasMin
  <1>3. First(f) \in DOMAIN f /\ \A e \in DOMAIN f : First(f) <= e
    BY <1>2 DEF First
  <1>4. QED BY <1>1, <1>3 DEF Oldest

LEMMA NewestOf ==
    ASSUME WorldTypes, NEW f \in Frames, f # None, Past(f)
    PROVE  Final(f) \in DOMAIN f /\ Final(f) <= today /\ \A e \in DOMAIN f : Final(f) >= e
  <1>1. DOMAIN f \in SUBSET Nat /\ DOMAIN f # {}
    BY FrameType, EmptyFrame
  <1>2. \A d \in DOMAIN f : d <= today
    BY <1>1 DEF Past, Exists, WorldTypes
  <1>3. \E d \in DOMAIN f : \A e \in DOMAIN f : d >= e
    BY <1>1, <1>2, HasMax DEF WorldTypes
  <1>4. Final(f) \in DOMAIN f /\ \A e \in DOMAIN f : Final(f) >= e
    BY <1>3 DEF Final
  <1>5. QED BY <1>2, <1>4

LEMMA ScaleType ==
    ASSUME WorldTypes, NEW d
    PROVE  Scale(d) \in Nat /\ VendorBar(d) \in Bar /\ VendorBar(d).scale = Scale(d)
  <1>1. {x \in exDates : x > d} \in SUBSET exDates
    OBVIOUS
  <1>2. Scale(d) \in Nat
    BY <1>1, FS_Subset, FS_CardinalityType DEF WorldTypes, Scale
  <1>3. QED BY <1>2 DEF VendorBar, Bar

LEMMA ScaleTypeNext ==
    ASSUME WorldTypes', NEW d
    PROVE  VendorBar(d)' \in Bar
  <1>1. {x \in exDates' : x > d} \in SUBSET exDates'
    OBVIOUS
  <1>2. Scale(d)' \in Nat
    BY <1>1, FS_Subset, FS_CardinalityType DEF WorldTypes, Scale
  <1>3. QED BY <1>2 DEF VendorBar, Bar

\* What the vendor answers.
LEMMA VendorFrame ==
    ASSUME WorldTypes, NEW from \in Nat, NEW to \in Int
    PROVE  /\ Vendor(from, to) \in Frames /\ Past(Vendor(from, to))
           /\ Epoch(Vendor(from, to)) /\ AdjustedFor(Vendor(from, to), exDates)
           /\ DOMAIN Vendor(from, to) = {d \in from..to : Exists(d)}
           /\ \A d \in DOMAIN Vendor(from, to) : Vendor(from, to)[d] = VendorBar(d)
  <1> DEFINE D == {d \in from..to : Exists(d)}
             f == Vendor(from, to)
  <1>1. D \in SUBSET Nat
    OBVIOUS
  <1>2. \A d \in D : VendorBar(d) \in Bar /\ VendorBar(d).scale = Scale(d) /\ Scale(d) \in Nat
    BY ScaleType
  <1>3. f = [d \in D |-> VendorBar(d)]
    BY DEF Vendor
  <1> HIDE DEF f
  <1>4. f \in [D -> Bar] /\ DOMAIN f = D /\ \A d \in D : f[d] = VendorBar(d)
    BY <1>2, <1>3
  <1>5. f \in Frames
    BY <1>1, <1>4, IsFrame
  <1>6. Past(f)
    BY <1>2, <1>4 DEF Past, AsNew, Bar
  <1>7. \A d \in D : f[d].scale = Scale(d)
    BY <1>2, <1>4
  <1>8. Epoch(f) /\ AdjustedFor(f, exDates)
    BY <1>4, <1>7 DEF Epoch, AdjustedFor, Scale
  <1>9. QED BY <1>4, <1>5, <1>6, <1>8 DEF f

LEMMA MergedFrame ==
    ASSUME NEW f \in Frames, NEW g \in Frames
    PROVE  /\ Merged(f, g) \in Frames
           /\ DOMAIN Merged(f, g) = DOMAIN f \cup DOMAIN g
           /\ \A d \in DOMAIN f : Merged(f, g)[d] = f[d]
           /\ \A d \in DOMAIN g : d \notin DOMAIN f => Merged(f, g)[d] = g[d]
           /\ Past(f) /\ Past(g) => Past(Merged(f, g))
           /\ Covers(Merged(f, g), f)
           /\ AsNewAs(f, g) => Covers(Merged(f, g), g)
  <1> DEFINE m == Merged(f, g)
             D == DOMAIN f \cup DOMAIN g
  <1>1. /\ DOMAIN f \in SUBSET Nat /\ DOMAIN g \in SUBSET Nat
        /\ \A d \in DOMAIN f : f[d] \in Bar
        /\ \A d \in DOMAIN g : g[d] \in Bar
    BY FrameType
  <1>2. m = [d \in D |-> IF d \in DOMAIN f THEN f[d] ELSE g[d]]
    BY DEF Merged
  <1> HIDE DEF m
  <1>3. /\ m \in [D -> Bar] /\ DOMAIN m = D
        /\ \A d \in DOMAIN f : m[d] = f[d]
        /\ \A d \in DOMAIN g : d \notin DOMAIN f => m[d] = g[d]
    BY <1>1, <1>2
  <1>4. m \in Frames
    BY <1>1, <1>3, IsFrame
  <1>5. Past(f) /\ Past(g) => Past(m)
    BY <1>3 DEF Past
  <1>6. Covers(m, f)
    BY <1>1, <1>3 DEF Covers, AsNew, Bar
  <1>7. AsNewAs(f, g) => Covers(m, g)
    BY <1>1, <1>3 DEF Covers, AsNewAs, AsNew, Bar
  <1>8. QED BY <1>3, <1>4, <1>5, <1>6, <1>7 DEF m

LEMMA MergedNone ==
    ASSUME NEW f \in Frames
    PROVE  Merged(f, None) = f /\ Merged(None, f) = f
  <1>1. f = [d \in DOMAIN f |-> f[d]] /\ DOMAIN None = {}
    BY FrameType, EmptyFrame
  <1>2. QED BY <1>1 DEF Merged

LEMMA CoversAll ==
    ASSUME NEW f \in Frames, NEW g \in Frames, NEW h \in Frames
    PROVE  /\ Covers(f, None) /\ Covers(f, f)
           /\ Covers(f, g) /\ Covers(g, h) => Covers(f, h)
  <1>1. /\ \A d \in DOMAIN f : f[d] \in Bar
        /\ \A d \in DOMAIN g : g[d] \in Bar
        /\ \A d \in DOMAIN h : h[d] \in Bar
        /\ DOMAIN None = {}
    BY FrameType, EmptyFrame
  <1>2. QED BY <1>1 DEF Covers, AsNew, Bar

-----------------------------------------------------------------------------
\* What the calls of other processes know stays true.

\* The vendor's history only moves on.
LEMMA VendorMovesOn ==
    ASSUME WorldTypes, Clock \/ CorporateAction
    PROVE  /\ WorldTypes' /\ UNCHANGED <<parquet, call, raced, extended>>
           /\ \A d \in Nat : Exists(d) =>
                 /\ Exists(d)' /\ AsNew(VendorBar(d)', VendorBar(d))
                 /\ Scale(d)' # Scale(d) => Scale(d)' > Scale(d) /\ d < today /\ today' = today
                 /\ Scale(d)' = Scale(d) => \A e \in Nat : e >= d => Scale(e)' = Scale(e)
  <1>1. CASE Clock
    <2>1. WorldTypes' /\ UNCHANGED <<parquet, call, raced, extended, exDates>>
      BY <1>1 DEF Clock, WorldTypes, history
    <2>2. \A d : Scale(d)' = Scale(d)
      BY <2>1 DEF Scale
    <2>3. ASSUME NEW d \in Nat, Exists(d)
          PROVE  Exists(d)' /\ AsNew(VendorBar(d)', VendorBar(d))
      <3>1. Scale(d) \in Nat
        BY ScaleType
      <3>2. Exists(d)' /\ (VendorBar(d).final => VendorBar(d).final')
        BY <1>1, <2>3 DEF Clock, Exists, WorldTypes, VendorBar
      <3>3. VendorBar(d)'.scale = VendorBar(d).scale /\ VendorBar(d).scale \in Nat
        BY <2>2, <3>1 DEF VendorBar
      <3>4. QED BY <3>2, <3>3 DEF AsNew
    <2>4. QED BY <2>1, <2>2, <2>3
  <1>2. CASE CorporateAction
    <2>1. /\ today \notin exDates /\ exDates' = exDates \cup {today}
          /\ UNCHANGED <<parquet, call, today, market, calls, raced, extended>>
      BY <1>2 DEF CorporateAction, history
    <2>2. WorldTypes'
      BY <2>1, FS_AddElement DEF WorldTypes
    <2>3. ASSUME NEW d \in Nat
          PROVE  Scale(d) \in Nat /\ Scale(d)' = IF d < today THEN Scale(d) + 1 ELSE Scale(d)
      <3> DEFINE S == {x \in exDates : x > d}
      <3>1. IsFiniteSet(S) /\ Cardinality(S) \in Nat
        BY FS_Subset, FS_CardinalityType DEF WorldTypes
      <3>2. CASE d < today
        <4>1. {x \in exDates' : x > d} = S \cup {today}
          BY <2>1, <3>2
        <4>2. today \notin S
          BY <2>1
        <4>3. Cardinality(S \cup {today}) = Cardinality(S) + 1
          BY <3>1, <4>2, FS_AddElement
        <4>4. QED BY <3>1, <3>2, <4>1, <4>3 DEF Scale
      <3>3. CASE ~(d < today)
        <4>1. {x \in exDates' : x > d} = S
          BY <2>1, <3>3 DEF WorldTypes
        <4>2. QED BY <3>1, <3>3, <4>1 DEF Scale
      <3>4. QED BY <3>2, <3>3
    <2>4. ASSUME NEW d \in Nat, Exists(d)
          PROVE  Exists(d)' /\ AsNew(VendorBar(d)', VendorBar(d))
      <3>1. Exists(d)' /\ VendorBar(d)'.final = VendorBar(d).final
        BY <2>1, <2>4 DEF Exists, VendorBar
      <3>2. VendorBar(d)'.scale >= VendorBar(d).scale
        BY <2>3 DEF VendorBar
      <3>3. QED BY <3>1, <3>2 DEF AsNew
    <2>5. ASSUME NEW d \in Nat
          PROVE  /\ Scale(d)' # Scale(d) => Scale(d)' > Scale(d) /\ d < today /\ today' = today
                 /\ Scale(d)' = Scale(d) => \A e \in Nat : e >= d => Scale(e)' = Scale(e)
      <3>1. Scale(d)' # Scale(d) => Scale(d)' > Scale(d) /\ d < today /\ today' = today
        BY <2>1, <2>3
      <3>2. ASSUME Scale(d)' = Scale(d), NEW e \in Nat, e >= d PROVE Scale(e)' = Scale(e)
        <4>1. ~(d < today)
          BY <2>3, <3>2
        <4>2. ~(e < today)
          BY <3>2, <4>1 DEF WorldTypes
        <4>3. QED BY <2>3, <4>2
      <3>3. QED BY <3>1, <3>2
    <2>6. QED BY <2>1, <2>2, <2>4, <2>5
  <1>3. QED BY <1>1, <1>2

\* So a frame that was the vendor's stays so, and one whose oldest bar is current
\* only if all its bars are.
LEMMA FrameStays ==
    ASSUME WorldTypes, Clock \/ CorporateAction, NEW f \in Frames, Past(f)
    PROVE  Past(f)' /\ (Epoch(f) => Epoch(f)')
  <1>1. /\ DOMAIN f \in SUBSET Nat
        /\ \A d \in DOMAIN f : f[d] \in Bar
    BY FrameType
  <1>2. ASSUME NEW d \in DOMAIN f
        PROVE  /\ Exists(d)' /\ AsNew(VendorBar(d)', f[d])
               /\ f[d].scale <= Scale(d) /\ Scale(d) \in Nat /\ f[d].scale \in Nat
    <2>1. /\ Exists(d) /\ AsNew(VendorBar(d), f[d])
          /\ Exists(d)' /\ AsNew(VendorBar(d)', VendorBar(d))
      BY <1>1, VendorMovesOn DEF Past
    <2>2. WorldTypes'
      BY VendorMovesOn
    <2>3. VendorBar(d) \in Bar /\ VendorBar(d).scale = Scale(d) /\ Scale(d) \in Nat
      BY ScaleType
    <2>4. VendorBar(d)' \in Bar
      BY <2>2, ScaleTypeNext
    <2>5. QED BY <1>1, <2>1, <2>3, <2>4 DEF AsNew, Bar
  <1>3. Past(f)'
    BY <1>2 DEF Past
  <1>4. ASSUME Epoch(f), NEW e \in DOMAIN f, NEW d \in DOMAIN f, Oldest(f, e),
               f[e].scale = Scale(e)'
        PROVE  f[d].scale = Scale(d)'
    <2>1. Exists(e) /\ e \in Nat /\ d \in Nat /\ d >= e
      BY <1>1, <1>4 DEF Past, Oldest
    <2>2. Scale(e)' = Scale(e)
      <3>1. Scale(e)' # Scale(e) => Scale(e)' > Scale(e)
        BY <2>1, VendorMovesOn
      <3>2. f[e].scale <= Scale(e) /\ Scale(e) \in Nat /\ f[e].scale \in Nat
        BY <1>2
      <3>3. QED BY <1>4, <3>1, <3>2
    <2>3. Scale(d)' = Scale(d)
      BY <2>1, <2>2, VendorMovesOn
    <2>4. QED BY <1>4, <2>2, <2>3 DEF Epoch
  <1>5. Epoch(f) => Epoch(f)'
    BY <1>4 DEF Epoch, Oldest
  <1>6. QED BY <1>3, <1>5

\* A call keeps what it knows while the file and the vendor stay as they are ...
LEMMA CallWaits ==
    ASSUME UNCHANGED <<parquet, world, raced>>, extended => extended', extended' \in BOOLEAN,
           NEW c \in Calls, FramesInv(c), EpochInv(c)
    PROVE  FramesInv(c)' /\ EpochInv(c)'
  <1>1. /\ \A f : Past(f)' = Past(f) /\ Epoch(f)' = Epoch(f)
        /\ AsksBehind(c)' = AsksBehind(c)
    BY DEF Past, Epoch, Exists, VendorBar, Scale, AsksBehind, world
  <1>2. FramesInv(c)'
    BY <1>1 DEF FramesInv
  <1>3. EpochInv(c)'
    BY <1>1 DEF EpochInv
  <1>4. QED BY <1>2, <1>3

\* ... while the vendor moves on ...
LEMMA CallKeeps ==
    ASSUME WorldTypes, FileInv, Clock \/ CorporateAction,
           NEW c \in Calls, FramesInv(c), EpochInv(c)
    PROVE  FramesInv(c)' /\ EpochInv(c)'
  <1>1. UNCHANGED <<parquet, call, raced, extended>>
    BY VendorMovesOn
  <1>2. c.base \in Frames /\ c.got \in Frames /\ parquet \in Frames
    BY DEF Calls, FileInv
  <1>3. Past(c.base) /\ Past(c.got) /\ Past(parquet)
    BY DEF FramesInv, FileInv
  <1>4. Merged(c.got, parquet) \in Frames /\ Past(Merged(c.got, parquet))
    BY <1>2, <1>3, MergedFrame
  <1>5. Past(c.base)' /\ Past(c.got)'
    BY <1>2, <1>3, FrameStays
  <1>6. FramesInv(c)'
    BY <1>1, <1>5 DEF FramesInv
  <1>7. /\ Epoch(c.base) => Epoch(c.base)'
        /\ Epoch(c.got) => Epoch(c.got)'
    BY <1>2, <1>3, FrameStays
  <1>8. Epoch(Merged(c.got, parquet)) => Epoch(Merged(c.got, parquet))'
    <2>1. PICK f \in Frames : f = Merged(c.got, parquet)
      BY <1>4
    <2>2. Past(f) /\ Epoch(f) => Epoch(f)'
      BY FrameStays
    <2>3. f = Merged(c.got, parquet)'
      BY <1>1, <2>1 DEF Merged
    <2>4. ASSUME Epoch(Merged(c.got, parquet)) PROVE Epoch(Merged(c.got, parquet))'
      <3>1. Epoch(f)'
        BY <1>4, <2>1, <2>2, <2>4
      <3>2. QED BY <2>3, <3>1
    <2>5. QED BY <2>4
  <1>9. AsksBehind(c)' = AsksBehind(c)
    BY <1>1 DEF AsksBehind
  <1>10. EpochInv(c)'
    BY <1>1, <1>7, <1>8, <1>9 DEF EpochInv
  <1>11. QED BY <1>6, <1>10

\* ... and when another process's write overtakes it.
LEMMA CallOvertaken ==
    ASSUME FileInv, parquet' \in Frames, UNCHANGED <<world, extended>>,
           raced => raced', NEW p \in Readers, call[p] \in Calls,
           call[p].overlapped \/ Covers(parquet', parquet),
           NEW c \in Calls, FramesInv(c), EpochInv(c),
           NEW d, d = Overtaken(p, c)
    PROVE  d \in Calls /\ FramesInv(d)' /\ EpochInv(d)'
  <1>1. /\ d \in Calls /\ d.at = c.at /\ d.base = c.base /\ d.got = c.got /\ d.hit = c.hit
        /\ d.probe = c.probe /\ d.known = c.known
        /\ d.overlapped = (c.overlapped \/ Reading(c))
        /\ d.lost = (c.lost \/ (c.at = "reread" /\ call[p].overlapped))
    <2>1. PICK o \in BOOLEAN, l \in BOOLEAN :
             /\ o = (c.overlapped \/ Reading(c))
             /\ l = (c.lost \/ (c.at = "reread" /\ call[p].overlapped))
      OBVIOUS
    <2>2. d = [c EXCEPT !.overlapped = o, !.lost = l]
      BY <2>1 DEF Overtaken, Calls
    <2>3. /\ d \in Calls /\ d.at = c.at /\ d.base = c.base /\ d.got = c.got /\ d.hit = c.hit
          /\ d.probe = c.probe /\ d.known = c.known /\ d.overlapped = o /\ d.lost = l
      BY <2>2 DEF Calls
    <2>4. QED BY <2>1, <2>3
  <1>2. \A f : Past(f)' = Past(f) /\ Epoch(f)' = Epoch(f)
    BY DEF Past, Epoch, Exists, VendorBar, Scale, world
  <1>3. c.got \in Frames /\ parquet \in Frames
    BY DEF Calls, FileInv
  <1>4. /\ c.at = "reread" => d.lost \/ Covers(parquet', c.got)
        /\ c.at \in Hits \cup Flight => d.overlapped
        /\ c.lost => d.lost
    <2>1. c.at = "reread" => c.lost \/ Covers(parquet, c.got)
      BY DEF FramesInv
    <2>2. Covers(parquet', parquet) /\ Covers(parquet, c.got) => Covers(parquet', c.got)
      BY <1>3, CoversAll
    <2>3. QED BY <1>1, <2>1, <2>2 DEF Reading, Hits, Flight
  <1>5. FramesInv(d)'
    BY <1>1, <1>2, <1>4 DEF FramesInv, Hits, Flight
  <1>6. EpochInv(d)'
    BY <1>1, <1>2, <1>4 DEF EpochInv, Hits, Flight
  <1>7. QED BY <1>1, <1>5, <1>6

LEMMA NotAsking ==
    ASSUME WorldTypes
    PROVE  Idle \in Calls /\ FramesInv(Idle) /\ EpochInv(Idle)
  <1>1. Idle \in Calls
    BY EmptyFrame DEF Idle, Calls, Hits, Flight
  <1>2. Idle.at = "idle" /\ Idle.base = None /\ Idle.got = None
    BY DEF Idle
  <1>3. FramesInv(Idle) /\ EpochInv(Idle)
    BY <1>2, EmptyFrame DEF FramesInv, EpochInv, Past, Hits, Flight
  <1>4. QED BY <1>1, <1>3

\* A step of process p that does not write.
LEMMA Unwritten ==
    ASSUME CacheInv, NEW p \in Readers, NEW c \in Calls, Become(p, c),
           UNCHANGED <<parquet, world, raced>>, WorldTypes', extended => extended',
           FramesInv(c)', EpochInv(c)'
    PROVE  CacheInv'
  <1>1. /\ call' \in [Readers -> Calls] /\ call'[p] = c
        /\ \A q \in Readers : q # p => call'[q] = call[q]
    BY DEF CacheInv, Become
  <1>2. ASSUME NEW q \in Readers PROVE FramesInv(call[q])' /\ EpochInv(call[q])'
    <2>1. CASE q = p
      BY <1>1, <2>1
    <2>2. CASE q # p
      <3>1. PICK d \in Calls : d = call[q]
        BY DEF CacheInv
      <3>2. FramesInv(d) /\ EpochInv(d)
        BY <3>1 DEF CacheInv
      <3>3. FramesInv(d)' /\ EpochInv(d)'
        BY <3>2, CallWaits DEF WorldTypes
      <3>4. d = call'[q]
        BY <1>1, <2>2, <3>1
      <3>5. QED BY <3>3, <3>4
    <2>3. QED BY <2>1, <2>2
  <1>3. FileInv'
    <2>1. \A f : Past(f)' = Past(f) /\ Epoch(f)' = Epoch(f)
      BY DEF Past, Epoch, Exists, VendorBar, Scale, world
    <2>2. QED BY <2>1 DEF CacheInv, FileInv
  <1>4. QED BY <1>1, <1>2, <1>3 DEF CacheInv

\* A step of process p that replaces the file.
LEMMA Replaced ==
    ASSUME CacheInv, NEW p \in Readers, NEW c \in Calls, NEW f \in Frames, Written(p, c, f),
           UNCHANGED <<world, calls, extended>>, Past(f),
           call[p].overlapped \/ Covers(f, parquet), raced' \/ extended \/ Epoch(f),
           FramesInv(c)', EpochInv(c)'
    PROVE  CacheInv'
  <1>1. /\ parquet' = f /\ call'[p] = c
        /\ \A q \in Readers : q # p => call'[q] = Overtaken(p, call[q])
        /\ raced' = (raced \/ call[p].overlapped)
        /\ call' = [q \in Readers |-> IF q = p THEN c ELSE Overtaken(p, call[q])]
    BY DEF Written
  <1>2. raced' \in BOOLEAN /\ (raced => raced')
    BY <1>1 DEF CacheInv, WorldTypes, Calls
  <1>3. WorldTypes'
    BY <1>2 DEF CacheInv, WorldTypes, world
  <1>4. ASSUME NEW q \in Readers
        PROVE  call'[q] \in Calls /\ FramesInv(call[q])' /\ EpochInv(call[q])'
    <2>1. CASE q = p
      BY <1>1, <2>1
    <2>2. CASE q # p
      <3>1. PICK d \in Calls : d = call[q]
        BY DEF CacheInv
      <3>2. FramesInv(d) /\ EpochInv(d)
        BY <3>1 DEF CacheInv
      <3>3. PICK e : e = Overtaken(p, d)
        OBVIOUS
      <3>4. e \in Calls /\ FramesInv(e)' /\ EpochInv(e)'
        <4>1. /\ FileInv /\ parquet' \in Frames /\ call[p] \in Calls
              /\ call[p].overlapped \/ Covers(parquet', parquet)
          BY <1>1 DEF CacheInv
        <4>2. QED BY <1>2, <3>2, <3>3, <4>1, CallOvertaken
      <3>5. e = call'[q]
        BY <1>1, <2>2, <3>1, <3>3
      <3>6. QED BY <3>4, <3>5
    <2>3. QED BY <2>1, <2>2
  <1>5. FileInv'
    <2>1. Past(f)' = Past(f) /\ Epoch(f)' = Epoch(f)
      BY DEF Past, Epoch, Exists, VendorBar, Scale, world
    <2>2. parquet' \in Frames /\ Past(f)' /\ (raced' \/ extended' \/ Epoch(f)')
      BY <1>1, <2>1
    <2>3. QED BY <1>1, <2>2 DEF FileInv
  <1>6. call' \in [Readers -> Calls]
    BY <1>1, <1>4
  <1>7. QED BY <1>3, <1>4, <1>5, <1>6 DEF CacheInv

-----------------------------------------------------------------------------
\* get_bars: one lemma for each step.

\* A process and its call.
LEMMA TypedCall ==
    ASSUME CacheInv, NEW p \in Readers
    PROVE  /\ call[p] \in Calls /\ FramesInv(call[p]) /\ EpochInv(call[p])
           /\ call[p].base \in Frames /\ call[p].got \in Frames /\ parquet \in Frames
           /\ Past(call[p].base) /\ Past(call[p].got) /\ Past(parquet)
           /\ WorldTypes /\ FileInv
  BY DEF CacheInv, Calls, FramesInv, FileInv

\* A call that ends or dies.
LEMMA EndsKeeps ==
    ASSUME CacheInv, NEW p \in Readers, Become(p, Idle),
           UNCHANGED <<parquet, world, calls, history>>
    PROVE  CacheInv'
  <1>1. WorldTypes'
    BY DEF CacheInv, WorldTypes, world, history
  <1>2. Idle \in Calls /\ FramesInv(Idle)' /\ EpochInv(Idle)'
    <2>1. Idle \in Calls /\ FramesInv(Idle) /\ EpochInv(Idle)
      BY NotAsking DEF CacheInv
    <2>2. QED BY <1>1, <2>1, CallWaits DEF history, WorldTypes
  <1>3. QED BY <1>1, <1>2, Unwritten DEF history

\* What is asked for lies behind the oldest bar of the file.
LEMMA AsksForMissing ==
    ASSUME WorldTypes, FileInv, NEW start \in Days, NEW end \in Days, start <= end, end <= today
    PROVE  /\ Missing(parquet, start, end) \in SUBSET (Nat \X Nat)
           /\ \A c \in Calls :
                 /\ c.todo = Missing(parquet, start, end) /\ c.got = None
                 /\ parquet # None => start >= First(parquet)
                 => AsksBehind(c)
  <1>0. start \in Nat /\ end \in Nat /\ today \in Nat
    BY DEF Days, WorldTypes
  <1>1. CASE parquet = None
    <2>1. Missing(parquet, start, end) = {<<start, end>>}
      BY <1>1 DEF Missing
    <2>2. QED BY <1>0, <1>1, <2>1 DEF AsksBehind
  <1>2. CASE parquet # None
    <2> DEFINE e == First(parquet)
               l == Final(parquet)
    <2>1. /\ DOMAIN parquet \in SUBSET Nat
          /\ e \in DOMAIN parquet /\ Oldest(parquet, e)
          /\ l \in DOMAIN parquet /\ l <= today /\ \A d \in DOMAIN parquet : l >= d
          /\ \A d : Oldest(parquet, d) => d = e
      BY <1>2, FrameType, OldestOf, NewestOf DEF FileInv
    <2>2. e \in Nat /\ l \in Nat /\ e <= l /\ \A d \in DOMAIN parquet : d >= e
      BY <2>1 DEF Oldest
    <2> DEFINE tail == IF end >= today THEN Higher(start, Lower(l + 1, today))
                       ELSE Higher(start, l + 1)
    <2>3. tail \in Nat
      BY <1>0, <2>2 DEF Higher, Lower
    <2>4. FrontRanges(parquet, start, end) \in SUBSET (Nat \X Nat)
      BY <1>0, <2>2 DEF FrontRanges, Lower
    <2>5. TailAfterCache(parquet, start, end) \in SUBSET (Nat \X Nat)
      BY <1>0, <2>3 DEF TailAfterCache
    <2>6. ASSUME NEW r \in Gaps(parquet, start, end)
          PROVE  /\ r \in Nat \X Nat /\ r[1] \notin DOMAIN parquet /\ r[1] >= e
                 /\ r[1] <= end /\ r[1] <= l /\ start <= r[1] /\ r[1] <= r[2]
      <3> DEFINE from == Higher(Higher(start, e), today - GapWindow)
                 to == Lower(end, l)
                 missing == (from..to) \ DOMAIN parquet
      <3>1. start >= e
        BY <2>6 DEF Gaps
      <3>2. r \in missing \X (from..to) /\ r[1] <= r[2]
        BY <2>6, <3>1 DEF Gaps, Runs
      <3>3. from \in Int /\ to \in Nat /\ from >= start /\ to <= end /\ to <= l
        BY <1>0, <2>2, BarCacheAssumption DEF Higher, Lower
      <3> HIDE DEF from, to
      <3>4. r[1] \in from..to /\ r[2] \in from..to /\ r[1] \notin DOMAIN parquet
        BY <3>2
      <3>5. r[1] \in Nat /\ r[2] \in Nat
        BY <1>0, <3>3, <3>4
      <3>6. r = <<r[1], r[2]>>
        BY <3>2
      <3>7. QED BY <1>0, <2>2, <3>1, <3>2, <3>3, <3>4, <3>5, <3>6
    <2>7. Missing(parquet, start, end) \in SUBSET (Nat \X Nat)
      BY <1>2, <2>4, <2>5, <2>6 DEF Missing
    <2>8. ASSUME start >= e, NEW c \in Calls, c.todo = Missing(parquet, start, end),
                 c.got = None
          PROVE  AsksBehind(c)
      <3>1. FrontRanges(parquet, start, end) = {}
        BY <1>0, <2>2, <2>8 DEF FrontRanges
      <3>2. ASSUME NEW r \in TailAfterCache(parquet, start, end)
            PROVE  /\ r = <<tail, end>> /\ r[1] >= e /\ r[2] >= e /\ r[1] <= r[2]
                   /\ r[1] = e => l = e /\ today = e /\ end = e
        <4>1. r = <<tail, end>> /\ tail <= end
          BY <3>2 DEF TailAfterCache
        <4>2. tail >= e /\ (tail = e => l = e /\ today = e /\ end = e)
          BY <1>0, <2>1, <2>2, <2>8, <4>1 DEF Higher, Lower
        <4>3. r[1] = tail /\ r[2] = end
          BY <4>1
        <4>4. QED BY <1>0, <2>2, <2>3, <4>1, <4>2, <4>3
      <3>3. ASSUME NEW r \in c.todo
            PROVE  /\ r[1] >= e
                   /\ r[1] = e => /\ r[2] >= e /\ c.todo = {r} /\ c.got = None
                                  /\ DOMAIN parquet = {e}
        <4>1. r \in TailAfterCache(parquet, start, end) \/ r \in Gaps(parquet, start, end)
          BY <1>2, <2>8, <3>1, <3>3 DEF Missing
        <4>2. CASE r \in Gaps(parquet, start, end)
          BY <2>1, <2>6, <4>2
        <4>3. CASE r \in TailAfterCache(parquet, start, end) /\ r[1] = e
          <5>1. l = e /\ today = e /\ end = e /\ r = <<tail, end>> /\ r[2] >= e
            BY <3>2, <4>3
          <5>2. DOMAIN parquet = {e}
            BY <2>1, <2>2, <5>1
          <5>3. Gaps(parquet, start, end) = {}
            <6>1. ASSUME NEW g \in Gaps(parquet, start, end) PROVE FALSE
              <7>1. g \in Nat \X Nat /\ g[1] \notin DOMAIN parquet /\ g[1] >= e /\ g[1] <= l
                BY <2>6
              <7>2. g[1] \in Nat
                BY <7>1
              <7>3. g[1] = e
                BY <2>2, <5>1, <7>1, <7>2
              <7>4. QED BY <2>1, <7>1, <7>3
            <6>2. QED BY <6>1
          <5>4. \A q \in c.todo : q = r
            BY <1>2, <2>8, <3>1, <3>2, <5>1, <5>3 DEF Missing
          <5>5. c.todo = {r}
            BY <3>3, <5>4
          <5>6. QED BY <2>2, <2>8, <4>3, <5>1, <5>2, <5>5
        <4>4. CASE r \in TailAfterCache(parquet, start, end) /\ r[1] # e
          BY <3>2, <4>4
        <4>5. QED BY <4>1, <4>2, <4>3, <4>4
      <3>4. QED BY <1>2, <2>1, <2>8, <3>3, EmptyFrame DEF AsksBehind
    <2>9. QED BY <1>2, <2>7, <2>8
  <1>3. QED BY <1>1, <1>2

LEMMA GetBarsKeeps ==
    ASSUME CacheInv, NEW p \in Readers, NEW start \in Days, NEW end \in Days,
           GetBars(p, start, end)
    PROVE  CacheInv'
  <1> DEFINE hit == FullHit(parquet, start, end)
             todo == Missing(parquet, start, end)
             asking == [Idle EXCEPT !.at = IF hit THEN "probe"
                                           ELSE IF todo = {} THEN "reread" ELSE "fetch",
                                    !.start = start, !.end = end,
                                    !.todo = IF hit THEN {} ELSE todo,
                                    !.base = IF hit THEN parquet ELSE None, !.hit = hit]
  <1>0. PICK at, ask, base, c :
           /\ at = IF hit THEN "probe" ELSE IF todo = {} THEN "reread" ELSE "fetch"
           /\ ask = IF hit THEN {} ELSE todo
           /\ base = IF hit THEN parquet ELSE None
           /\ c = [Idle EXCEPT !.at = at, !.start = start, !.end = end,
                               !.todo = ask, !.base = base, !.hit = hit]
    OBVIOUS
  <1>1. /\ start <= end /\ end <= today /\ Become(p, c)
        /\ calls' = calls + 1
        /\ extended' = (extended \/ (parquet # None /\ start < First(parquet)))
        /\ UNCHANGED <<parquet, world, raced>>
    BY <1>0 DEF GetBars
  <1>2. /\ WorldTypes /\ FileInv /\ parquet \in Frames /\ Past(parquet)
        /\ raced \/ extended \/ Epoch(parquet)
    BY TypedCall DEF FileInv
  <1>3. start \in Nat /\ end \in Nat /\ today \in Nat
    BY <1>2 DEF Days, WorldTypes
  <1>4. WorldTypes'
    BY <1>1, <1>2 DEF WorldTypes, world
  <1>5. hit \in BOOLEAN /\ (hit => parquet # None)
    BY DEF FullHit
  <1>6. todo \in SUBSET (Nat \X Nat)
    BY <1>1, <1>2, AsksForMissing
  <1> HIDE DEF hit, todo
  <1>7. /\ c \in Calls /\ c.got = None /\ c.hit = hit /\ c.probe = "none" /\ ~c.overlapped
        /\ c.todo = IF hit THEN {} ELSE todo
        /\ c.base = IF hit THEN parquet ELSE None
        /\ c.at = IF hit THEN "probe" ELSE IF todo = {} THEN "reread" ELSE "fetch"
    <2>1. at \in Hits \cup Flight \cup {"reread"}
      BY <1>0 DEF Hits, Flight
    <2>2. ask \in SUBSET (Nat \X Nat) /\ base \in Frames /\ hit \in BOOLEAN
      BY <1>0, <1>2, <1>5, <1>6, EmptyFrame
    <2>3. c = [Idle EXCEPT !.at = at, !.start = start, !.end = end,
                           !.todo = ask, !.base = base, !.hit = hit]
      BY <1>0
    <2>4. Idle \in Calls
      BY <1>2, NotAsking
    <2>5. c \in Calls
      BY <1>3, <2>1, <2>2, <2>3, <2>4 DEF Calls
    <2>6. /\ c.at = at /\ c.todo = ask /\ c.base = base /\ c.hit = hit
          /\ c.got = None /\ c.probe = "none" /\ ~c.overlapped
      BY <2>3 DEF Idle
    <2>7. QED BY <1>0, <2>5, <2>6
  <1> HIDE DEF asking
  <1>8. Past(c.base)' /\ Past(c.got)' /\ (hit /\ Epoch(parquet) => Epoch(c.base)')
    <2>1. \A f : Past(f)' = Past(f) /\ Epoch(f)' = Epoch(f)
      BY <1>1 DEF Past, Epoch, Exists, VendorBar, Scale, world
    <2>2. Past(None)
      BY EmptyFrame DEF Past
    <2>3. QED BY <1>2, <1>7, <2>1, <2>2
  <1>9. FramesInv(c)'
    <2>1. CASE hit
      BY <1>1, <1>5, <1>7, <1>8, <2>1 DEF FramesInv, Hits, Flight
    <2>2. CASE ~hit
      <3>1. c.at \in {"reread", "fetch"}
        BY <1>7, <2>2
      <3>2. AsNewAs(None, parquet') /\ Covers(parquet', None)
        BY EmptyFrame DEF AsNewAs, Covers
      <3>3. QED BY <1>7, <1>8, <2>2, <3>1, <3>2 DEF FramesInv, Hits, Flight
    <2>3. QED BY <1>5, <2>1, <2>2
  <1>10. ~hit /\ ~extended' => AsksBehind(c)
    <2>1. ASSUME ~hit, ~extended' PROVE AsksBehind(c)
      <3>1. parquet # None => First(parquet) \in Nat
        BY <1>2, OldestOf, FrameType
      <3>2. parquet # None => start >= First(parquet)
        <4>1. parquet # None => ~(start < First(parquet))
          BY <1>1, <2>1, Zenon
        <4>2. QED BY <1>3, <3>1, <4>1
      <3>3. c.todo = Missing(parquet, start, end)
        BY <1>7, <2>1 DEF todo
      <3>4. QED BY <1>1, <1>2, <1>7, <3>2, <3>3, AsksForMissing
    <2>2. QED BY <2>1
  <1>11. EpochInv(c)'
    <2>1. raced' = raced /\ parquet' = parquet /\ (extended => extended')
      BY <1>1
    <2>2. CASE hit
      <3>1. raced' \/ extended' \/ Epoch(c.base)'
        BY <1>2, <1>8, <2>1, <2>2
      <3>2. QED BY <1>7, <2>2, <3>1 DEF EpochInv, Flight
    <2>3. CASE ~hit
      <3>1. raced' \/ extended' \/ Epoch(Merged(c.got, parquet))'
        <4>1. Merged(c.got, parquet)' = parquet
          <5>1. Merged(None, parquet) = parquet
            BY <1>2, MergedNone
          <5>2. QED BY <1>7, <2>1, <5>1 DEF Merged
        <4>2. Epoch(parquet) => Epoch(Merged(c.got, parquet))'
          BY <1>1, <4>1 DEF Epoch, Scale, world
        <4>3. QED BY <1>2, <2>1, <4>2
      <3>2. extended' \/ AsksBehind(c)'
        BY <1>10, <2>1, <2>3 DEF AsksBehind
      <3>3. c.at \in {"reread", "fetch"}
        BY <1>7, <2>3
      <3>4. QED BY <3>1, <3>2, <3>3 DEF EpochInv, Flight
    <2>4. QED BY <1>5, <2>2, <2>3
  <1>12. QED BY <1>1, <1>4, <1>7, <1>9, <1>11, Unwritten

LEMMA BackfillKeeps ==
    ASSUME CacheInv, NEW p \in Readers, NEW start \in Days, NEW end \in Days,
           Backfill(p, start, end)
    PROVE  CacheInv'
  <1>1. PICK c : c = [Idle EXCEPT !.at = "fetch", !.todo = {<<start, end>>}, !.fill = TRUE]
    OBVIOUS
  <1>2. /\ start <= end /\ Become(p, c) /\ calls' = calls + 1
        /\ extended' = (extended \/ (parquet # None /\ start <= First(parquet)))
        /\ UNCHANGED <<parquet, world, raced>>
    BY <1>1 DEF Backfill
  <1>3. /\ WorldTypes /\ FileInv /\ parquet \in Frames /\ Past(parquet)
        /\ raced \/ extended \/ Epoch(parquet)
    BY TypedCall DEF FileInv
  <1>4. start \in Nat /\ end \in Nat
    BY DEF Days
  <1>5. WorldTypes'
    BY <1>2, <1>3 DEF WorldTypes, world
  <1>6. /\ c \in Calls /\ c.at = "fetch" /\ c.todo = {<<start, end>>} /\ ~c.hit
        /\ c.got = None /\ c.base = None /\ c.probe = "none" /\ ~c.overlapped
    <2>1. {<<start, end>>} \in SUBSET (Nat \X Nat)
      BY <1>4
    <2>2. Idle \in Calls /\ today \in Nat
      BY <1>3, NotAsking DEF WorldTypes
    <2>3. c \in Calls
      BY <1>1, <2>1, <2>2 DEF Calls, Flight
    <2>4. QED BY <1>1, <2>3 DEF Idle
  <1>7. FramesInv(c)'
    BY <1>6, EmptyFrame DEF FramesInv, Past, AsNewAs, Covers, Hits, Flight
  <1>8. ASSUME ~extended' PROVE AsksBehind(c)
    <2>1. CASE parquet = None
      BY <1>6, <2>1 DEF AsksBehind
    <2>2. CASE parquet # None
      <3>1. ~(start <= First(parquet))
        BY <1>2, <1>8, <2>2, Zenon
      <3>2. First(parquet) \in Nat /\ \A e : Oldest(parquet, e) => e = First(parquet)
        BY <1>3, <2>2, OldestOf, FrameType
      <3>3. \A r \in c.todo : r[1] = start
        BY <1>6
      <3>4. start > First(parquet)
        BY <1>4, <3>1, <3>2
      <3>5. QED BY <1>4, <1>6, <2>2, <3>2, <3>3, <3>4, EmptyFrame DEF AsksBehind
    <2>3. QED BY <2>1, <2>2
  <1>9. EpochInv(c)'
    <2>1. raced' = raced /\ parquet' = parquet /\ (extended => extended')
      BY <1>2
    <2>2. Merged(c.got, parquet)' = parquet
      <3>1. Merged(None, parquet) = parquet
        BY <1>3, MergedNone
      <3>2. QED BY <1>6, <2>1, <3>1 DEF Merged
    <2>3. Epoch(parquet) => Epoch(Merged(c.got, parquet))'
      BY <1>2, <2>2 DEF Epoch, Scale, world
    <2>4. extended' \/ AsksBehind(c)'
      BY <1>8, <2>1 DEF AsksBehind
    <2>5. QED BY <1>3, <1>6, <2>1, <2>3, <2>4 DEF EpochInv, Flight
  <1>10. QED BY <1>2, <1>5, <1>6, <1>7, <1>9, Unwritten

LEMMA SameWorld ==
    ASSUME UNCHANGED world
    PROVE  \A f : Past(f)' = Past(f) /\ Epoch(f)' = Epoch(f)
  BY DEF Past, Epoch, Exists, VendorBar, Scale, world

LEMMA ProbeKeeps ==
    ASSUME CacheInv, NEW p \in Readers, Probe(p)
    PROVE  CacheInv'
  <1>1. PICK c : c = call[p]
    OBVIOUS
  <1>2. /\ c \in Calls /\ FramesInv(c) /\ EpochInv(c) /\ c.base \in Frames /\ Past(c.base)
        /\ WorldTypes
    BY <1>1, TypedCall
  <1>3. /\ c.at = "probe" /\ UNCHANGED <<parquet, world, calls, history>>
    BY <1>1 DEF Probe
  <1> DEFINE same == c.base[First(c.base)].scale = Scale(First(c.base))
  <1>4. PICK at \in {"heal", "served"}, answer \in {"answered", "unknown"} :
           /\ at = "served" /\ answer = "answered" => same
           /\ Become(p, [c EXCEPT !.at = at, !.probe = answer, !.known = exDates])
    <2>1. PICK answered \in BOOLEAN :
             Become(p, [c EXCEPT !.at = IF answered /\ ~same THEN "heal" ELSE "served",
                                 !.probe = IF answered THEN "answered" ELSE "unknown",
                                 !.known = exDates])
      BY <1>1 DEF Probe
    <2> HIDE DEF same
    <2>2. PICK at, answer :
             /\ at = IF answered /\ ~same THEN "heal" ELSE "served"
             /\ answer = IF answered THEN "answered" ELSE "unknown"
      OBVIOUS
    <2>3. Become(p, [c EXCEPT !.at = at, !.probe = answer, !.known = exDates])
      BY <2>1, <2>2
    <2>4. /\ at \in {"heal", "served"} /\ answer \in {"answered", "unknown"}
          /\ at = "served" /\ answer = "answered" => same
      BY <2>2
    <2>5. QED BY <2>3, <2>4
  <1>5. PICK d : d = [c EXCEPT !.at = at, !.probe = answer, !.known = exDates]
    OBVIOUS
  <1>6. WorldTypes'
    BY <1>2, <1>3 DEF WorldTypes, world, history
  <1>7. /\ d \in Calls /\ d.base = c.base /\ d.got = c.got /\ d.hit = c.hit
        /\ d.overlapped = c.overlapped /\ d.known = exDates /\ d.at \in {"heal", "served"}
        /\ d.at = "served" /\ d.probe = "answered" =>
              c.base[First(c.base)].scale = Scale(First(c.base))
    <2>1. exDates \in SUBSET Nat
      BY <1>2 DEF WorldTypes
    <2>2. d \in Calls
      BY <1>2, <1>5, <2>1 DEF Calls, Hits
    <2>3. /\ d.base = c.base /\ d.got = c.got /\ d.hit = c.hit
          /\ d.overlapped = c.overlapped /\ d.known = exDates /\ d.at = at /\ d.probe = answer
      BY <1>2, <1>5 DEF Calls
    <2>4. QED BY <1>4, <2>2, <2>3
  <1>8. FramesInv(d)'
    <2>1. Past(d.base)' /\ Past(d.got)'
      BY <1>2, <1>3, <1>7, SameWorld DEF FramesInv
    <2>2. c.hit /\ c.base # None /\ (~c.overlapped => c.base = parquet)
      BY <1>2, <1>3 DEF FramesInv, Hits
    <2>3. QED BY <1>3, <1>7, <2>1, <2>2 DEF FramesInv, Hits, Flight
  <1>9. EpochInv(d)'
    <2>1. ASSUME d.at = "served", d.probe = "answered", ~raced, ~extended
          PROVE  AdjustedFor(d.base, d.known)
      <3>1. Epoch(c.base) /\ c.base # None
        BY <1>2, <1>3, <2>1 DEF EpochInv, FramesInv, Hits
      <3>2. First(c.base) \in DOMAIN c.base /\ Oldest(c.base, First(c.base))
        BY <1>2, <3>1, OldestOf
      <3>3. \A e \in DOMAIN c.base : c.base[e].scale = Scale(e)
        BY <1>7, <2>1, <3>1, <3>2 DEF Epoch
      <3>4. QED BY <1>7, <3>3 DEF AdjustedFor, Scale
    <2>2. AdjustedFor(d.base, d.known)' = AdjustedFor(d.base, d.known)
      BY DEF AdjustedFor
    <2>3. QED BY <1>3, <1>7, <2>1, <2>2 DEF EpochInv, Flight, history
  <1>10. Become(p, d)
    BY <1>4, <1>5
  <1>11. QED BY <1>3, <1>6, <1>7, <1>8, <1>9, <1>10, Unwritten DEF history

LEMMA HealFetchKeeps ==
    ASSUME CacheInv, NEW p \in Readers, HealFetch(p)
    PROVE  CacheInv'
  <1>1. PICK c : c = call[p]
    OBVIOUS
  <1>2. /\ c \in Calls /\ FramesInv(c) /\ EpochInv(c) /\ c.base \in Frames /\ c.got \in Frames
        /\ Past(c.base) /\ Past(c.got) /\ WorldTypes
    BY <1>1, TypedCall
  <1>3. c.at = "heal" /\ UNCHANGED <<parquet, world, calls, history>>
    BY <1>1 DEF HealFetch
  <1>4. WorldTypes'
    BY <1>2, <1>3 DEF WorldTypes, world, history
  <1>5. c.hit /\ c.base # None /\ (~c.overlapped => c.base = parquet)
    BY <1>2, <1>3 DEF FramesInv, Hits
  <1>6. PICK v : v = Vendor(First(c.base), Final(c.base))
    OBVIOUS
  <1>7. /\ v \in Frames /\ Past(v) /\ Epoch(v) /\ AdjustedFor(v, exDates) /\ Covers(v, c.base)
    <2>1. /\ DOMAIN c.base \in SUBSET Nat /\ First(c.base) \in DOMAIN c.base
          /\ Final(c.base) \in DOMAIN c.base
          /\ \A d \in DOMAIN c.base : First(c.base) <= d /\ d <= Final(c.base)
      BY <1>2, <1>5, FrameType, OldestOf, NewestOf DEF Oldest
    <2>2. /\ v \in Frames /\ Past(v) /\ Epoch(v) /\ AdjustedFor(v, exDates)
          /\ DOMAIN v = {d \in First(c.base)..Final(c.base) : Exists(d)}
          /\ \A d \in DOMAIN v : v[d] = VendorBar(d)
      <3>1. First(c.base) \in Nat /\ Final(c.base) \in Int
        BY <2>1
      <3>2. QED BY <1>2, <1>6, <3>1, VendorFrame
    <2>3. Covers(v, c.base)
      BY <1>2, <2>1, <2>2 DEF Covers, Past
    <2>4. QED BY <2>2, <2>3
  <1>8. CASE Become(p, [c EXCEPT !.at = "replace", !.known = exDates, !.got = v])
    <2>1. PICK d : d = [c EXCEPT !.at = "replace", !.known = exDates, !.got = v]
      OBVIOUS
    <2>2. /\ d \in Calls /\ d.base = c.base /\ d.got = v /\ d.hit = c.hit /\ d.at = "replace"
          /\ d.overlapped = c.overlapped /\ d.known = exDates
      BY <1>2, <1>7, <2>1 DEF Calls, WorldTypes, Hits, Flight
    <2>3. FramesInv(d)'
      <3>1. Past(d.base)' /\ Past(d.got)'
        BY <1>2, <1>3, <1>7, <2>2, SameWorld
      <3>2. QED BY <1>3, <1>5, <1>7, <2>2, <3>1 DEF FramesInv, Hits, Flight
    <2>4. EpochInv(d)'
      <3>1. Epoch(d.got)' /\ AdjustedFor(d.got, d.known)
        BY <1>3, <1>7, <2>2, SameWorld
      <3>2. QED BY <2>2, <3>1 DEF EpochInv, Flight
    <2>5. QED BY <1>3, <1>4, <1>8, <2>1, <2>2, <2>3, <2>4, Unwritten DEF history
  <1>9. CASE Become(p, [c EXCEPT !.at = "served", !.probe = "unknown"])
    <2>1. PICK d : d = [c EXCEPT !.at = "served", !.probe = "unknown"]
      OBVIOUS
    <2>2. /\ d \in Calls /\ d.base = c.base /\ d.got = c.got /\ d.hit = c.hit /\ d.at = "served"
          /\ d.probe = "unknown"
      BY <1>2, <2>1 DEF Calls
    <2>3. FramesInv(d)'
      <3>1. Past(d.base)' /\ Past(d.got)'
        BY <1>2, <1>3, <2>2, SameWorld
      <3>2. QED BY <1>5, <2>2, <3>1 DEF FramesInv, Hits, Flight
    <2>4. EpochInv(d)'
      BY <2>2 DEF EpochInv, Flight
    <2>5. QED BY <1>3, <1>4, <1>9, <2>1, <2>2, <2>3, <2>4, Unwritten DEF history
  <1>10. QED BY <1>1, <1>6, <1>8, <1>9 DEF HealFetch

LEMMA HealReplaceKeeps ==
    ASSUME CacheInv, NEW p \in Readers, HealReplace(p)
    PROVE  CacheInv'
  <1>1. PICK c : c = call[p]
    OBVIOUS
  <1>2. /\ c \in Calls /\ FramesInv(c) /\ EpochInv(c) /\ c.base \in Frames /\ c.got \in Frames
        /\ Past(c.base) /\ Past(c.got) /\ WorldTypes
    BY <1>1, TypedCall
  <1>3. c.at = "replace" /\ UNCHANGED <<world, calls, extended>>
    BY <1>1 DEF HealReplace
  <1>4. /\ c.hit /\ (~c.overlapped => c.base = parquet) /\ Covers(c.got, c.base)
        /\ Epoch(c.got) /\ AdjustedFor(c.got, c.known)
    BY <1>2, <1>3 DEF FramesInv, EpochInv, Hits
  <1>5. CASE Written(p, [c EXCEPT !.at = "served", !.base = c.got, !.got = None], c.got)
    <2>1. PICK d : d = [c EXCEPT !.at = "served", !.base = c.got, !.got = None]
      OBVIOUS
    <2>2. /\ d \in Calls /\ d.base = c.got /\ d.got = None /\ d.hit = c.hit /\ d.at = "served"
          /\ d.known = c.known
      BY <1>2, <2>1, EmptyFrame DEF Calls
    <2>3. c.overlapped \/ Covers(c.got, parquet)
      BY <1>4
    <2>4. FramesInv(d)'
      <3>1. Past(d.base)' /\ Past(d.got)'
        BY <1>2, <1>3, <2>2, SameWorld, EmptyFrame DEF Past
      <3>2. QED BY <1>4, <2>2, <3>1 DEF FramesInv, Hits, Flight
    <2>5. EpochInv(d)'
      BY <1>4, <2>2 DEF EpochInv, Flight
    <2>6. QED BY <1>1, <1>2, <1>3, <1>4, <1>5, <2>1, <2>2, <2>3, <2>4, <2>5, Replaced
  <1>6. CASE /\ Become(p, [c EXCEPT !.at = "served", !.got = None, !.probe = "unknown"])
             /\ UNCHANGED <<parquet, raced>>
    <2>1. PICK d : d = [c EXCEPT !.at = "served", !.got = None, !.probe = "unknown"]
      OBVIOUS
    <2>2. /\ d \in Calls /\ d.base = c.base /\ d.got = None /\ d.hit = c.hit /\ d.at = "served"
          /\ d.probe = "unknown"
      BY <1>2, <2>1, EmptyFrame DEF Calls
    <2>3. WorldTypes'
      BY <1>2, <1>3, <1>6 DEF WorldTypes, world
    <2>4. FramesInv(d)'
      <3>1. Past(d.base)' /\ Past(d.got)'
        BY <1>2, <1>3, <2>2, SameWorld, EmptyFrame DEF Past
      <3>2. QED BY <1>4, <2>2, <3>1 DEF FramesInv, Hits, Flight
    <2>5. EpochInv(d)'
      BY <2>2 DEF EpochInv, Flight
    <2>6. QED BY <1>3, <1>6, <2>1, <2>2, <2>3, <2>4, <2>5, Unwritten
  <1>7. QED BY <1>1, <1>5, <1>6 DEF HealReplace

\* A request answered by the vendor leaves the fetched rows as new as the file's.
LEMMA FetchedIsNew ==
    ASSUME WorldTypes, NEW r \in Nat \X Nat, NEW g \in Frames, Past(g),
           NEW f \in Frames, Past(f)
    PROVE  /\ Merged(Vendor(r[1], r[2]), g) \in Frames
           /\ Past(Merged(Vendor(r[1], r[2]), g))
           /\ AsNewAs(g, f) => AsNewAs(Merged(Vendor(r[1], r[2]), g), f)
  <1> DEFINE v == Vendor(r[1], r[2])
             m == Merged(v, g)
  <1>1. /\ v \in Frames /\ Past(v) /\ \A d \in DOMAIN v : v[d] = VendorBar(d)
    <2>1. r[1] \in Nat /\ r[2] \in Int
      OBVIOUS
    <2>2. QED BY <2>1, VendorFrame
  <1> HIDE DEF v
  <1>2. /\ m \in Frames /\ DOMAIN m = DOMAIN v \cup DOMAIN g /\ Past(m)
        /\ \A d \in DOMAIN v : m[d] = v[d]
        /\ \A d \in DOMAIN g : d \notin DOMAIN v => m[d] = g[d]
    BY <1>1, MergedFrame
  <1> HIDE DEF m
  <1>3. ASSUME AsNewAs(g, f) PROVE AsNewAs(m, f)
    BY <1>1, <1>2, <1>3 DEF AsNewAs, Past
  <1>4. QED BY <1>2, <1>3 DEF m, v

LEMMA MergedRows ==
    ASSUME NEW f \in Frames, NEW g \in Frames
    PROVE  \E m \in Frames :
              /\ m = Merged(f, g) /\ DOMAIN m = DOMAIN f \cup DOMAIN g
              /\ \A d \in DOMAIN f : m[d] = f[d]
              /\ \A d \in DOMAIN g : d \notin DOMAIN f => m[d] = g[d]
  <1>1. /\ Merged(f, g) \in Frames /\ DOMAIN Merged(f, g) = DOMAIN f \cup DOMAIN g
        /\ \A d \in DOMAIN f : Merged(f, g)[d] = f[d]
        /\ \A d \in DOMAIN g : d \notin DOMAIN f => Merged(f, g)[d] = g[d]
    BY MergedFrame
  <1>2. QED BY <1>1, Zenon

\* A request behind the oldest bar of the file, or the only one, leaves what the
\* file would become of one epoch.
LEMMA FetchedEpoch ==
    ASSUME WorldTypes, FileInv, NEW c \in Calls, AsksBehind(c), NEW r \in c.todo,
           NEW g, g = Merged(Vendor(r[1], r[2]), c.got)
    PROVE  /\ Epoch(Merged(c.got, parquet)) => Epoch(Merged(g, parquet))
           /\ c.todo \ {r} # {} =>
                 /\ parquet # None
                 /\ \A e \in DOMAIN parquet : Oldest(parquet, e) =>
                       /\ \A d \in DOMAIN g : d > e
                       /\ \A q \in c.todo \ {r} : q[1] > e
  <1>0. PICK h \in Frames : h = c.got
    BY DEF Calls
  <1>1. /\ r \in Nat \X Nat /\ r[1] \in Nat /\ r[2] \in Nat
        /\ \A q \in c.todo : q[1] \in Nat
        /\ parquet \in Frames /\ Past(parquet) /\ DOMAIN parquet \in SUBSET Nat
        /\ DOMAIN h \in SUBSET Nat
    BY <1>0, FrameType DEF Calls, FileInv
  <1>2. PICK v \in Frames :
           /\ v = Vendor(r[1], r[2])
           /\ DOMAIN v = {d \in r[1]..r[2] : Exists(d)} /\ Epoch(v)
           /\ AdjustedFor(v, exDates)
    <2>1. r[1] \in Nat /\ r[2] \in Int
      BY <1>1
    <2>2. QED BY <2>1, VendorFrame
  <1>3. /\ DOMAIN v = {d \in r[1]..r[2] : Exists(d)} /\ Epoch(v)
        /\ \A d \in DOMAIN v : v[d].scale = Scale(d)
    BY <1>2 DEF AdjustedFor, Scale
  <1>4. /\ g = Merged(v, h) /\ g \in Frames /\ DOMAIN g = DOMAIN v \cup DOMAIN h
        /\ \A d \in DOMAIN v : g[d] = v[d]
        /\ \A d \in DOMAIN h : d \notin DOMAIN v => g[d] = h[d]
    <2>1. g = Merged(v, h)
      BY <1>0, <1>2
    <2>2. PICK m \in Frames :
             /\ m = Merged(v, h) /\ DOMAIN m = DOMAIN v \cup DOMAIN h
             /\ \A d \in DOMAIN v : m[d] = v[d]
             /\ \A d \in DOMAIN h : d \notin DOMAIN v => m[d] = h[d]
      BY MergedRows
    <2>3. QED BY <2>1, <2>2
  <1>5. CASE parquet = None
    <2>1. h = None /\ c.todo = {r}
      BY <1>0, <1>5 DEF AsksBehind
    <2>2. Merged(g, parquet) = v
      BY <1>2, <1>4, <1>5, <2>1, MergedNone
    <2>3. QED BY <1>3, <2>1, <2>2
  <1>6. CASE parquet # None
    <2>1. PICK e \in DOMAIN parquet :
             /\ Oldest(parquet, e) /\ \A x : Oldest(parquet, x) => x = e
      BY <1>1, <1>6, OldestOf
    <2>2. /\ \A d \in DOMAIN h : d > e
          /\ \A q \in c.todo : /\ q[1] >= e
                               /\ q[1] = e => /\ q[2] >= e /\ c.todo = {q} /\ h = None
                                              /\ DOMAIN parquet = {e}
      BY <1>0, <1>6, <2>1 DEF AsksBehind
    <2>3. e \in Nat /\ Exists(e) /\ \A d \in DOMAIN parquet : d >= e
      BY <1>1, <2>1 DEF Oldest, Past
    <2>4. PICK m \in Frames :
             /\ m = Merged(g, parquet) /\ DOMAIN m = DOMAIN g \cup DOMAIN parquet
             /\ \A d \in DOMAIN g : m[d] = g[d]
             /\ \A d \in DOMAIN parquet : d \notin DOMAIN g => m[d] = parquet[d]
      <3>1. PICK f \in Frames : f = g
        BY <1>4
      <3>2. parquet \in Frames
        BY <1>1
      <3>3. PICK m \in Frames :
               /\ m = Merged(f, parquet) /\ DOMAIN m = DOMAIN f \cup DOMAIN parquet
               /\ \A d \in DOMAIN f : m[d] = f[d]
               /\ \A d \in DOMAIN parquet : d \notin DOMAIN f => m[d] = parquet[d]
        BY <3>2, MergedRows
      <3>4. QED BY <3>1, <3>3
    <2>5. PICK o \in Frames :
             /\ o = Merged(h, parquet) /\ DOMAIN o = DOMAIN h \cup DOMAIN parquet
             /\ \A d \in DOMAIN h : o[d] = h[d]
             /\ \A d \in DOMAIN parquet : d \notin DOMAIN h => o[d] = parquet[d]
      <3>1. parquet \in Frames
        BY <1>1
      <3>2. QED BY <3>1, MergedRows, Zenon
    <2>6. CASE r[1] = e
      <3>1. c.todo = {r} /\ h = None /\ DOMAIN parquet = {e} /\ e \in DOMAIN v
        BY <1>1, <1>3, <2>2, <2>3, <2>6
      <3>2. DOMAIN m = DOMAIN v /\ \A d \in DOMAIN v : m[d] = v[d]
        BY <1>4, <2>4, <3>1, EmptyFrame
      <3>3. Epoch(m)
        BY <1>3, <3>2 DEF Epoch
      <3>4. QED BY <1>0, <2>4, <3>1, <3>3
    <2>7. CASE r[1] # e
      <3>1. \A d \in DOMAIN v : d > e /\ d \in Nat
        BY <1>1, <1>3, <2>2, <2>3, <2>7
      <3>2. \A d \in DOMAIN g : d > e
        BY <1>4, <2>2, <3>1
      <3>3. e \notin DOMAIN g /\ e \notin DOMAIN h
        BY <1>4, <2>2, <2>3, <3>2
      <3>4. m[e] = parquet[e] /\ o[e] = parquet[e] /\ e \in DOMAIN o /\ e \in DOMAIN m
        BY <2>4, <2>5, <3>3
      <3>5. Oldest(o, e) /\ \A x : Oldest(m, x) => x = e
        <4>1. \A d \in DOMAIN h \cup DOMAIN g : d \in Nat /\ d > e
          BY <1>1, <1>4, <2>2, <3>1
        <4>2. \A d \in DOMAIN o : d \in Nat /\ e <= d
          BY <1>1, <2>3, <2>5, <4>1
        <4>3. \A d \in DOMAIN m : d \in Nat /\ e <= d
          BY <1>1, <2>3, <2>4, <4>1
        <4>4. \A x : Oldest(m, x) => x = e
          BY <2>3, <3>4, <4>3 DEF Oldest
        <4>5. QED BY <3>4, <4>2, <4>4 DEF Oldest
      <3>6. ASSUME Epoch(o), m[e].scale = Scale(e), NEW d \in DOMAIN m
            PROVE  m[d].scale = Scale(d)
        <4>1. CASE d \in DOMAIN v
          BY <1>3, <1>4, <2>4, <4>1
        <4>2. CASE d \notin DOMAIN v
          <5>1. d \in DOMAIN o /\ m[d] = o[d]
            BY <1>4, <2>4, <2>5, <4>2
          <5>2. QED BY <2>5, <3>4, <3>5, <3>6, <5>1 DEF Epoch
        <4>3. QED BY <4>1, <4>2
      <3>7. Epoch(o) => Epoch(m)
        BY <3>5, <3>6 DEF Epoch
      <3>8. \A q \in c.todo \ {r} : q[1] > e
        BY <1>1, <2>2, <2>3
      <3>9. QED BY <1>0, <1>6, <2>1, <2>4, <2>5, <3>2, <3>7, <3>8
    <2>8. QED BY <2>6, <2>7
  <1>7. QED BY <1>0, <1>5, <1>6

LEMMA FetchKeeps ==
    ASSUME CacheInv, NEW p \in Readers, Fetch(p)
    PROVE  CacheInv'
  <1>1. PICK c : c = call[p]
    OBVIOUS
  <1>2. /\ c \in Calls /\ FramesInv(c) /\ EpochInv(c) /\ c.base \in Frames /\ c.got \in Frames
        /\ Past(c.base) /\ Past(c.got) /\ WorldTypes /\ FileInv /\ parquet \in Frames
        /\ Past(parquet)
    BY <1>1, TypedCall
  <1>3. c.at = "fetch" /\ UNCHANGED <<parquet, world, calls, history>>
    BY <1>1 DEF Fetch
  <1>4. WorldTypes'
    BY <1>2, <1>3 DEF WorldTypes, world, history
  <1>5. CASE Become(p, Idle)
    BY <1>3, <1>5, EndsKeeps
  <1>6. ASSUME NEW r \in c.todo,
               LET g == Merged(Vendor(r[1], r[2]), c.got)
               IN  Become(p, [c EXCEPT !.todo = c.todo \ {r}, !.got = g,
                                       !.at = IF c.todo \ {r} # {} THEN "fetch"
                                              ELSE IF g # None THEN "merge"
                                              ELSE IF c.fill THEN "idle" ELSE "reread"])
        PROVE  CacheInv'
    <2>1. PICK g, at, d :
             /\ g = Merged(Vendor(r[1], r[2]), c.got)
             /\ at = IF c.todo \ {r} # {} THEN "fetch"
                     ELSE IF g # None THEN "merge"
                     ELSE IF c.fill THEN "idle" ELSE "reread"
             /\ d = [c EXCEPT !.todo = c.todo \ {r}, !.got = g, !.at = at]
      OBVIOUS
    <2>2. Become(p, d)
      BY <1>6, <2>1
    <2>3. r \in Nat \X Nat
      BY <1>2, <1>6 DEF Calls
    <2>4. /\ ~c.hit /\ c.probe = "none"
          /\ ~c.overlapped => AsNewAs(c.got, parquet)
      BY <1>2, <1>3 DEF FramesInv, Flight
    <2>5. g \in Frames /\ Past(g) /\ (~c.overlapped => AsNewAs(g, parquet))
      BY <1>2, <2>1, <2>3, <2>4, FetchedIsNew
    <2>6. /\ d \in Calls /\ d.base = c.base /\ d.got = g /\ d.hit = c.hit /\ d.probe = c.probe
          /\ d.overlapped = c.overlapped /\ d.todo = c.todo \ {r}
          /\ d.at \in {"fetch", "merge", "idle", "reread"}
          /\ d.at = "fetch" => c.todo \ {r} # {}
          /\ d.at = "reread" => g = None
      <3>1. at \in {"fetch", "merge", "idle", "reread"}
        BY <2>1
      <3>2. c.todo \ {r} \in SUBSET (Nat \X Nat)
        BY <1>2 DEF Calls
      <3>3. d = [c EXCEPT !.todo = c.todo \ {r}, !.got = g, !.at = at]
        BY <2>1
      <3>4. d \in Calls
        BY <1>2, <2>5, <3>1, <3>2, <3>3 DEF Calls, Flight
      <3>5. /\ d.base = c.base /\ d.got = g /\ d.hit = c.hit /\ d.probe = c.probe
            /\ d.overlapped = c.overlapped /\ d.todo = c.todo \ {r} /\ d.at = at
        BY <1>2, <3>3 DEF Calls
      <3>6. /\ at = "fetch" => c.todo \ {r} # {}
            /\ at = "reread" => g = None
        BY <2>1
      <3>7. QED BY <3>1, <3>4, <3>5, <3>6
    <2>7. FramesInv(d)'
      <3>1. Past(d.base)' /\ Past(d.got)'
        BY <1>2, <1>3, <2>5, <2>6, SameWorld
      <3>2. d.at = "reread" => Covers(parquet, d.got)
        BY <2>6, EmptyFrame DEF Covers
      <3>3. QED BY <1>3, <2>4, <2>5, <2>6, <3>1, <3>2 DEF FramesInv, Hits, Flight
    <2>8. EpochInv(d)'
      <3>1. CASE c.overlapped
        BY <2>4, <2>6, <3>1 DEF EpochInv, Flight
      <3>2. CASE extended
        BY <1>3, <2>4, <2>6, <3>2 DEF EpochInv, Flight, history
      <3>3. CASE ~c.overlapped /\ ~extended
        <4>1. AsksBehind(c) /\ (raced \/ Epoch(Merged(c.got, parquet)))
          BY <1>2, <1>3, <3>3 DEF EpochInv, Flight
        <4>2. /\ raced \/ Epoch(Merged(g, parquet))
              /\ d.at = "fetch" =>
                    /\ parquet # None
                    /\ \A e \in DOMAIN parquet : Oldest(parquet, e) =>
                          /\ \A x \in DOMAIN g : x > e
                          /\ \A q \in d.todo : q[1] > e
          BY <1>2, <2>1, <2>6, <4>1, FetchedEpoch
        <4>3. d.at = "fetch" => AsksBehind(d)
          <5>1. \A q \in d.todo : q[1] \in Nat
            BY <2>6 DEF Calls
          <5>2. DOMAIN parquet \in SUBSET Nat
            BY <1>2, FrameType
          <5>3. QED BY <2>6, <4>2, <5>1, <5>2 DEF AsksBehind
        <4>4. AsksBehind(d)' = AsksBehind(d)
          BY <1>3 DEF AsksBehind
        <4>5. Merged(d.got, parquet)' = Merged(g, parquet)
          BY <1>3, <2>6 DEF Merged
        <4>6. raced' \/ Epoch(Merged(d.got, parquet))'
          <5>1. Epoch(Merged(d.got, parquet))' = Epoch(Merged(g, parquet))
            BY <1>3, <4>5 DEF Epoch, Scale, world
          <5>2. QED BY <1>3, <4>2, <5>1 DEF history
        <4>7. QED BY <2>4, <2>6, <4>3, <4>4, <4>6 DEF EpochInv, Flight
      <3>4. QED BY <3>1, <3>2, <3>3
    <2>9. QED BY <1>3, <1>4, <2>2, <2>6, <2>7, <2>8, Unwritten DEF history
  <1>7. QED BY <1>1, <1>5, <1>6 DEF Fetch

LEMMA MergeReadKeeps ==
    ASSUME CacheInv, NEW p \in Readers, MergeRead(p)
    PROVE  CacheInv'
  <1>1. PICK c : c = call[p]
    OBVIOUS
  <1>2. /\ c \in Calls /\ FramesInv(c) /\ EpochInv(c) /\ c.base \in Frames /\ c.got \in Frames
        /\ Past(c.base) /\ Past(c.got) /\ WorldTypes /\ parquet \in Frames /\ Past(parquet)
    BY <1>1, TypedCall
  <1>3. PICK m \in Frames : m = Merged(c.got, parquet) /\ Past(m)
    BY <1>2, MergedFrame
  <1>4. /\ c.at = "merge" /\ UNCHANGED <<parquet, world, calls, history>>
        /\ Become(p, [c EXCEPT !.at = "write", !.base = m,
                               !.overlapped = @ /\ ~TakenIn(c)])
    BY <1>1, <1>3 DEF MergeRead
  <1>5. WorldTypes'
    BY <1>2, <1>4 DEF WorldTypes, world, history
  <1>6. PICK o \in BOOLEAN : o = (c.overlapped /\ ~TakenIn(c))
    OBVIOUS
  <1>7. PICK d : d = [c EXCEPT !.at = "write", !.base = m, !.overlapped = o]
    OBVIOUS
  <1>13. Become(p, d)
    <2>1. d = [c EXCEPT !.at = "write", !.base = m, !.overlapped = @ /\ ~TakenIn(c)]
      BY <1>2, <1>6, <1>7 DEF Calls
    <2>2. QED BY <1>4, <2>1
  <1>8. /\ d \in Calls /\ d.base = m /\ d.got = c.got /\ d.hit = c.hit /\ d.probe = c.probe
        /\ d.overlapped = o /\ d.at = "write"
    BY <1>2, <1>3, <1>7 DEF Calls, Flight
  <1>14. /\ ~c.hit /\ c.probe = "none" /\ Covers(m, c.got)
         /\ ~o => AsNewAs(c.got, parquet)
         /\ ~o => raced \/ extended \/ Epoch(m)
    <2>1. ~c.hit /\ c.probe = "none"
      BY <1>2, <1>4 DEF FramesInv, Flight
    <2>2. ~c.overlapped => AsNewAs(c.got, parquet) /\ (raced \/ extended \/ Epoch(m))
      BY <1>2, <1>3, <1>4 DEF FramesInv, EpochInv, Flight
    <2>3. TakenIn(c) => AsNewAs(c.got, parquet) /\ Epoch(m)
      BY <1>3 DEF TakenIn
    <2>4. Covers(m, c.got)
      BY <1>2, <1>3, MergedFrame
    <2>5. QED BY <1>6, <2>1, <2>2, <2>3, <2>4
  <1>9. Merged(d.got, parquet)' = m
    BY <1>3, <1>4, <1>8 DEF Merged
  <1>10. FramesInv(d)'
    <2>1. Past(d.base)' /\ Past(d.got)'
      BY <1>2, <1>3, <1>4, <1>8, SameWorld
    <2>2. QED BY <1>4, <1>14, <1>8, <1>9, <2>1 DEF FramesInv, Hits, Flight
  <1>11. EpochInv(d)'
    <2>1. Epoch(m) => Epoch(Merged(d.got, parquet))'
      BY <1>4, <1>9 DEF Epoch, Scale, world
    <2>2. QED BY <1>4, <1>14, <1>8, <2>1 DEF EpochInv, Flight, history
  <1>12. QED BY <1>4, <1>5, <1>8, <1>10, <1>11, <1>13, Unwritten DEF history

LEMMA MergeWriteKeeps ==
    ASSUME CacheInv, NEW p \in Readers, MergeWrite(p)
    PROVE  CacheInv'
  <1>1. PICK c : c = call[p]
    OBVIOUS
  <1>2. /\ c \in Calls /\ FramesInv(c) /\ EpochInv(c) /\ c.base \in Frames /\ c.got \in Frames
        /\ Past(c.base) /\ Past(c.got) /\ WorldTypes /\ parquet \in Frames
    BY <1>1, TypedCall
  <1>3. c.at = "write" /\ UNCHANGED <<world, calls, extended>>
    BY <1>1 DEF MergeWrite
  <1>4. /\ ~c.hit /\ c.probe = "none"
        /\ ~c.overlapped =>
              c.base = Merged(c.got, parquet) /\ (raced \/ extended \/ Epoch(c.base))
        /\ Covers(c.base, c.got)
        /\ ~c.overlapped => Covers(c.base, parquet)
    <2>1. /\ ~c.hit /\ c.probe = "none" /\ Covers(c.base, c.got)
          /\ ~c.overlapped => /\ c.base = Merged(c.got, parquet) /\ AsNewAs(c.got, parquet)
                              /\ raced \/ extended \/ Epoch(c.base)
      BY <1>2, <1>3 DEF FramesInv, EpochInv, Flight
    <2>2. ~c.overlapped => Covers(c.base, parquet)
      BY <1>2, <2>1, MergedFrame
    <2>3. QED BY <2>1, <2>2
  <1>5. WorldTypes /\ FramesInv(Idle)' /\ EpochInv(Idle)' /\ Idle \in Calls
    <2>1. Idle.at = "idle" /\ Idle.base = None /\ Idle.got = None /\ Idle \in Calls
      BY <1>2, NotAsking DEF Idle
    <2>2. QED BY <1>2, <2>1, EmptyFrame DEF FramesInv, EpochInv, Past, Hits, Flight
  <1>6. PICK n \in {"reread", "view"} :
           \/ /\ n = "reread"
              /\ Written(p, Done(c, n), c.base)
           \/ /\ n = "view" /\ UNCHANGED <<parquet, raced>>
              /\ Become(p, Done(c, n))
    BY <1>1 DEF MergeWrite
  <1>7. PICK d : /\ d = Done(c, n)
                 /\ d = IF c.fill THEN Idle
                        ELSE [c EXCEPT !.at = n, !.base = None, !.overlapped = FALSE]
    BY DEF Done
  <1>8. /\ d \in Calls
        /\ ~c.fill => /\ d.base = None /\ d.got = c.got /\ d.hit = c.hit /\ d.probe = c.probe
                      /\ d.at = n /\ d.lost = c.lost
    <2>1. CASE c.fill
      BY <1>5, <1>7, <2>1
    <2>2. CASE ~c.fill
      <3>1. d = [c EXCEPT !.at = n, !.base = None, !.overlapped = FALSE]
        BY <1>7, <2>2
      <3>2. None \in Frames
        BY EmptyFrame
      <3>3. d \in Calls
        BY <1>2, <3>1, <3>2 DEF Calls
      <3>4. /\ d.base = None /\ d.got = c.got /\ d.hit = c.hit /\ d.probe = c.probe
            /\ d.at = n /\ d.lost = c.lost
        BY <1>2, <3>1 DEF Calls
      <3>5. QED BY <3>3, <3>4
    <2>3. QED BY <2>1, <2>2
  <1>9. ASSUME n = "reread" => Covers(parquet', c.got)
        PROVE  FramesInv(d)' /\ EpochInv(d)'
    <2>1. CASE c.fill
      BY <1>5, <1>7, <2>1
    <2>2. CASE ~c.fill
      <3>1. Past(d.base)' /\ Past(d.got)'
        BY <1>2, <1>3, <1>8, <2>2, SameWorld, EmptyFrame DEF Past
      <3>2. FramesInv(d)'
        BY <1>4, <1>8, <1>9, <2>2, <3>1 DEF FramesInv, Hits, Flight
      <3>3. EpochInv(d)'
        BY <1>4, <1>8, <2>2 DEF EpochInv, Flight
      <3>4. QED BY <3>2, <3>3
    <2>3. QED BY <2>1, <2>2
  <1>10. CASE Written(p, d, c.base)
    <2>1. parquet' = c.base /\ raced' = (raced \/ c.overlapped)
      BY <1>1, <1>10 DEF Written
    <2>2. call[p].overlapped \/ Covers(c.base, parquet)
      BY <1>1, <1>4
    <2>3. raced' \/ extended \/ Epoch(c.base)
      BY <1>4, <2>1
    <2>4. FramesInv(d)' /\ EpochInv(d)'
      BY <1>4, <1>9, <2>1
    <2>5. QED BY <1>2, <1>3, <1>8, <1>10, <2>2, <2>3, <2>4, Replaced
  <1>11. CASE n = "view" /\ UNCHANGED <<parquet, raced>> /\ Become(p, d)
    <2>1. WorldTypes'
      BY <1>3, <1>5, <1>11 DEF WorldTypes, world
    <2>2. FramesInv(d)' /\ EpochInv(d)'
      BY <1>9, <1>11
    <2>3. QED BY <1>3, <1>8, <1>11, <2>1, <2>2, Unwritten
  <1>12. QED BY <1>6, <1>7, <1>10, <1>11

\* A missed call that serves frame f.
LEMMA MissServed ==
    ASSUME CacheInv, NEW p \in Readers, NEW f \in Frames, Past(f),
           call[p].at \in {"view", "reread"}, call[p].lost \/ Covers(f, call[p].got),
           Become(p, [call[p] EXCEPT !.at = "served", !.base = f]),
           UNCHANGED <<parquet, world, calls, history>>
    PROVE  CacheInv'
  <1>1. PICK c : c = call[p]
    OBVIOUS
  <1>2. c \in Calls /\ FramesInv(c) /\ Past(c.got) /\ WorldTypes
    BY <1>1, TypedCall
  <1>3. ~c.hit /\ c.probe = "none"
    BY <1>1, <1>2 DEF FramesInv
  <1>4. PICK d : d = [c EXCEPT !.at = "served", !.base = f]
    OBVIOUS
  <1>5. /\ d \in Calls /\ d.base = f /\ d.got = c.got /\ d.hit = c.hit /\ d.probe = c.probe
        /\ d.at = "served" /\ d.lost = c.lost
    BY <1>2, <1>4 DEF Calls
  <1>6. WorldTypes'
    BY <1>2 DEF WorldTypes, world, history
  <1>7. FramesInv(d)'
    <2>1. Past(d.base)' /\ Past(d.got)'
      BY <1>2, <1>5, SameWorld
    <2>2. QED BY <1>1, <1>5, <2>1 DEF FramesInv, Hits, Flight, history
  <1>8. EpochInv(d)'
    BY <1>3, <1>5 DEF EpochInv, Flight
  <1>9. QED BY <1>1, <1>4, <1>5, <1>6, <1>7, <1>8, Unwritten DEF history

LEMMA MergedViewKeeps ==
    ASSUME CacheInv, NEW p \in Readers, MergedView(p)
    PROVE  CacheInv'
  <1>1. /\ call[p].got \in Frames /\ Past(call[p].got) /\ parquet \in Frames /\ Past(parquet)
    BY TypedCall
  <1>2. PICK m \in Frames : m = Merged(call[p].got, parquet) /\ Past(m) /\ Covers(m, call[p].got)
    BY <1>1, MergedFrame
  <1>3. QED BY <1>2, MissServed DEF MergedView

LEMMA ReadBackKeeps ==
    ASSUME CacheInv, NEW p \in Readers, ReadBack(p)
    PROVE  CacheInv'
  <1>1. parquet \in Frames /\ Past(parquet) /\ FramesInv(call[p])
    BY TypedCall
  <1>2. call[p].at = "reread" /\ (call[p].lost \/ Covers(parquet, call[p].got))
    BY <1>1 DEF ReadBack, FramesInv
  <1>3. QED BY <1>1, <1>2, MissServed DEF ReadBack

-----------------------------------------------------------------------------
(* The invariant                                                           *)

LEMMA CacheInvInit == ASSUME Init PROVE CacheInv
  <1>1. WorldTypes
    BY FS_EmptySet DEF Init, WorldTypes
  <1>2. FileInv
    BY EmptyFrame DEF Init, FileInv, Past, Epoch
  <1>3. Idle \in Calls /\ FramesInv(Idle) /\ EpochInv(Idle)
    BY <1>1, NotAsking
  <1>4. call \in [Readers -> Calls] /\ \A p \in Readers : call[p] = Idle
    BY <1>3 DEF Init
  <1>5. QED BY <1>1, <1>2, <1>3, <1>4 DEF CacheInv

LEMMA VendorKeeps ==
    ASSUME CacheInv, Clock \/ CorporateAction
    PROVE  CacheInv'
  <1>1. WorldTypes /\ FileInv /\ parquet \in Frames /\ Past(parquet)
    BY DEF CacheInv, FileInv
  <1>2. WorldTypes' /\ UNCHANGED <<parquet, call, raced, extended>>
    BY <1>1, VendorMovesOn
  <1>3. FileInv'
    <2>1. PICK f \in Frames : f = parquet
      BY <1>1
    <2>2. Past(f)' /\ (Epoch(f) => Epoch(f)')
      BY <1>1, <2>1, FrameStays
    <2>3. f = parquet'
      BY <1>2, <2>1
    <2>4. QED BY <1>1, <1>2, <2>1, <2>2, <2>3 DEF FileInv
  <1>4. ASSUME NEW p \in Readers PROVE FramesInv(call[p])' /\ EpochInv(call[p])'
    <2>1. PICK c \in Calls : c = call[p]
      BY DEF CacheInv
    <2>2. FramesInv(c) /\ EpochInv(c)
      BY <2>1 DEF CacheInv
    <2>3. FramesInv(c)' /\ EpochInv(c)'
      BY <1>1, <2>2, CallKeeps
    <2>4. c = call'[p]
      BY <1>2, <2>1
    <2>5. QED BY <2>3, <2>4
  <1>5. QED BY <1>2, <1>3, <1>4 DEF CacheInv

LEMMA CacheInvNext == ASSUME CacheInv, [Next]_cacheVars PROVE CacheInv'
  <1>1. CASE UNCHANGED cacheVars
    <2>1. UNCHANGED <<parquet, world, raced, extended, call, calls>>
      BY <1>1 DEF cacheVars, world
    <2>2. WorldTypes' /\ FileInv'
      BY <2>1 DEF CacheInv, WorldTypes, FileInv, world, Past, Epoch, Exists, VendorBar, Scale
    <2>3. ASSUME NEW p \in Readers PROVE FramesInv(call[p])' /\ EpochInv(call[p])'
      <3>1. PICK c \in Calls : c = call[p] /\ FramesInv(c) /\ EpochInv(c)
        BY DEF CacheInv
      <3>2. FramesInv(c)' /\ EpochInv(c)'
        BY <2>1, <2>2, <3>1, CallWaits DEF WorldTypes
      <3>3. c = call'[p]
        BY <2>1, <3>1
      <3>4. QED BY <3>2, <3>3
    <2>4. QED BY <2>1, <2>2, <2>3 DEF CacheInv
  <1>2. ASSUME NEW p \in Readers, NEW start \in Days, NEW end \in Days,
               GetBars(p, start, end) \/ Backfill(p, start, end)
        PROVE  CacheInv'
    BY <1>2, GetBarsKeeps, BackfillKeeps
  <1>3. ASSUME NEW p \in Readers, Checked(p) PROVE CacheInv'
    BY <1>3, ProbeKeeps, HealFetchKeeps, HealReplaceKeeps DEF Checked
  <1>4. ASSUME NEW p \in Readers, Missed(p) PROVE CacheInv'
    BY <1>4, FetchKeeps, MergeReadKeeps, MergeWriteKeeps, MergedViewKeeps, ReadBackKeeps
       DEF Missed
  <1>5. ASSUME NEW p \in Readers, Use(p) \/ Kill(p) PROVE CacheInv'
    BY <1>5, EndsKeeps DEF Use, Kill
  <1>6. CASE Clock \/ CorporateAction
    BY <1>6, VendorKeeps
  <1>7. QED BY <1>1, <1>2, <1>3, <1>4, <1>5, <1>6 DEF Next

LEMMA CacheInvHolds == Spec => []CacheInv
  <1>1. Init => CacheInv
    BY CacheInvInit
  <1>2. CacheInv /\ [Next]_cacheVars => CacheInv'
    BY CacheInvNext
  <1>3. QED BY <1>1, <1>2, PTL DEF Spec

LEMMA OnlyTwoWrite ==
    ASSUME Next, parquet' # parquet
    PROVE  \E p \in Readers : HealReplace(p) \/ MergeWrite(p)
  <1>1. ~(Clock \/ CorporateAction)
    BY DEF Clock, CorporateAction
  <1>2. ASSUME NEW p \in Readers, NEW start, NEW end
        PROVE  ~GetBars(p, start, end) /\ ~Backfill(p, start, end)
    BY DEF GetBars, Backfill
  <1>3. ASSUME NEW p \in Readers, Checked(p) PROVE HealReplace(p)
    BY <1>3 DEF Checked, Probe, HealFetch
  <1>4. ASSUME NEW p \in Readers, Missed(p) PROVE MergeWrite(p)
    BY <1>4 DEF Missed, Fetch, MergeRead, MergedView, ReadBack
  <1>5. ASSUME NEW p \in Readers PROVE ~Use(p) /\ ~Kill(p)
    BY DEF Use, Kill
  <1>6. QED BY <1>1, <1>2, <1>3, <1>4, <1>5 DEF Next

-----------------------------------------------------------------------------

\* The file and every frame in memory hold bars of days the vendor has had: the
\* types the merges in ParquetCache rely on.
THEOREM BarCacheTypes == Spec => []TypeOK
  <1>1. CacheInv => TypeOK
    <2>1. ASSUME CacheInv PROVE TypeOK
      <3>1. /\ parquet \in Frames /\ Past(parquet) /\ today \in Nat
            /\ \A p \in Readers : call[p].base \in Frames
        BY <2>1, TypedCall DEF CacheInv, FileInv, WorldTypes
      <3>2. /\ DOMAIN parquet \in SUBSET Nat /\ \A d \in DOMAIN parquet : parquet[d] \in Bar
        BY <3>1, FrameType
      <3>3. \A d \in DOMAIN parquet : d \in 0..today
        BY <3>1, <3>2 DEF Past, Exists
      <3>4. \A p \in Readers : \A d \in DOMAIN call[p].base : call[p].base[d] \in Bar
        <4>1. ASSUME NEW p \in Readers, NEW d \in DOMAIN call[p].base
              PROVE  call[p].base[d] \in Bar
          <5>1. PICK f \in Frames : f = call[p].base
            BY <3>1
          <5>2. \A x \in DOMAIN f : f[x] \in Bar
            BY FrameType
          <5>3. QED BY <4>1, <5>1, <5>2
        <4>2. QED BY <4>1
      <3>5. QED BY <3>2, <3>3, <3>4 DEF TypeOK
    <2>2. QED BY <2>1
  <1>2. QED BY <1>1, CacheInvHolds, PTL

\* A cached range that the probe or the heal of get_bars answered for is adjusted
\* for the corporate actions it was compared with, on every day although one bar
\* was compared, unless some write replaced rows its call had not taken in or a
\* call put fresh days in front of older ones.
THEOREM HitIsCurrent == Spec => []HitIsOneEpoch
  <1>1. CacheInv => HitIsOneEpoch
    <2>1. ASSUME CacheInv, NEW p \in Readers, Served(p), call[p].probe = "answered",
                 ~raced, ~extended,
                 NEW d \in DOMAIN Slice(call[p].base, call[p].start, call[p].end)
          PROVE  call[p].base[d].scale = Cardinality({x \in call[p].known : x > d})
      <3>1. AdjustedFor(call[p].base, call[p].known)
        BY <2>1 DEF CacheInv, EpochInv, Served
      <3>2. d \in DOMAIN call[p].base
        BY <2>1 DEF Slice
      <3>3. QED BY <3>1, <3>2 DEF AdjustedFor
    <2>2. QED BY <2>1 DEF HitIsOneEpoch
  <1>2. QED BY <1>1, CacheInvHolds, PTL

\* Every answer of a call that missed holds each bar the call fetched, also when
\* the file could not be replaced, unless a write that had not taken in the rows
\* of this call replaced the file before it was read back.
THEOREM AnswerHoldsTheFetch == Spec => []ServesItsFetch
  <1>1. CacheInv => ServesItsFetch
    BY DEF CacheInv, FramesInv, ServesItsFetch, Served
  <1>2. QED BY <1>1, CacheInvHolds, PTL

\* No write of the cache drops a day or puts an older bar in its place, whoever
\* is killed wherever and whatever was lost before, unless the writer itself has
\* not taken in what another process wrote while it ran.
THEOREM WritesKeepTheFile == Spec => NothingTakenBack
  <1>1. CacheInv /\ [Next]_cacheVars =>
            [(\E p \in Readers : Overtakes(p)) \/ Covers(parquet', parquet)]_parquet
    <2>1. ASSUME CacheInv, Next, parquet' # parquet
          PROVE  (\E p \in Readers : Overtakes(p)) \/ Covers(parquet', parquet)
      <3>1. PICK p \in Readers : HealReplace(p) \/ MergeWrite(p)
        BY <2>1, OnlyTwoWrite
      <3>2. PICK c : c = call[p]
        OBVIOUS
      <3>3. /\ c \in Calls /\ FramesInv(c) /\ c.base \in Frames /\ c.got \in Frames
            /\ parquet \in Frames
        BY <2>1, <3>2, TypedCall
      <3>4. CASE HealReplace(p)
        <4>1. /\ parquet' = c.got /\ c.at = "replace"
              /\ call'[p] = [c EXCEPT !.at = "served", !.base = c.got, !.got = None]
          BY <2>1, <3>2, <3>4 DEF HealReplace, Written
        <4>2. Covers(c.got, c.base) /\ (~c.overlapped => c.base = parquet)
          BY <3>3, <4>1 DEF FramesInv, Hits
        <4>3. call'[p] # c
          BY <3>3, <4>1 DEF Calls
        <4>4. QED BY <3>2, <4>1, <4>2, <4>3 DEF Overtakes
      <3>5. CASE MergeWrite(p)
        <4>1. parquet' = c.base /\ c.at = "write" /\ call'[p] = Done(c, "reread")
          BY <2>1, <3>2, <3>5 DEF MergeWrite, Written
        <4>2. ~c.overlapped => c.base = Merged(c.got, parquet) /\ AsNewAs(c.got, parquet)
          BY <3>3, <4>1 DEF FramesInv, Flight
        <4>3. ~c.overlapped => Covers(c.base, parquet)
          BY <3>3, <4>2, MergedFrame
        <4>4. Done(c, "reread").at \in {"idle", "reread"}
          BY <3>3 DEF Done, Idle, Calls
        <4>5. call'[p] # c
          BY <4>1, <4>4
        <4>6. QED BY <3>2, <4>1, <4>3, <4>5 DEF Overtakes
      <3>6. QED BY <3>1, <3>4, <3>5
    <2>2. QED BY <2>1 DEF cacheVars
  <1>2. QED BY <1>1, CacheInvHolds, PTL DEF Spec, NothingTakenBack

-----------------------------------------------------------------------------
(* The coverage of an intraday session                                     *)

\* Rounding up: the last multiple of tf below close is one less than the count.
LEMMA RoundedUp ==
    ASSUME NEW close \in Nat \ {0}, NEW tf \in Nat \ {0}
    PROVE  /\ Quality!ExpectedBars(close, tf) \in Nat \ {0}
           /\ (Quality!ExpectedBars(close, tf) - 1) * tf < close
           /\ close <= (Quality!ExpectedBars(close, tf) - 1) * tf + tf
  <1> DEFINE n == Quality!ExpectedBars(close, tf)
  <1>1. close + tf - 1 \in Nat
    OBVIOUS
  <1>2. n \in Nat /\ n * tf <= close + tf - 1 /\ close + tf - 1 < n * tf + tf
    BY <1>1, SMT DEF Quality!ExpectedBars
  <1> HIDE DEF n
  <1>3. n # 0
    <2>1. n = 0 => n * tf = 0
      BY <1>2
    <2> QED BY <2>1, <1>2
  <1>4. (n - 1) * tf = n * tf - tf
    BY <1>2, SMT
  <1> QED BY <1>2, <1>3, <1>4 DEF n

\* A multiple of tf is tf times its quotient.
LEMMA Multiple ==
    ASSUME NEW o \in Nat, NEW tf \in Nat \ {0}, o % tf = 0
    PROVE  o \div tf \in Nat /\ o = (o \div tf) * tf
  BY SMT

\* Products of naturals respect the order, both ways.
LEMMA TimesMonotone ==
    ASSUME NEW a \in Nat, NEW b \in Nat, NEW tf \in Nat \ {0}
    PROVE  a <= b <=> a * tf <= b * tf
  <1>1. ASSUME NEW x \in Nat, NEW d \in Nat
        PROVE  (x + d) * tf = x * tf + d * tf /\ d * tf \in Nat /\ x * tf \in Nat
    BY SMT
  <1>2. CASE a <= b
    <2>1. PICK d \in Nat : b = a + d
      BY <1>2, SMT
    <2> QED BY <2>1, <1>1, <1>2
  <1>3. CASE a > b
    <2>1. PICK d \in Nat : d > 0 /\ a = b + d
      BY <1>3, SMT
    <2>2. d * tf > 0
      BY <2>1, SMT
    <2> QED BY <2>1, <2>2, <1>1, <1>3
  <1> QED BY <1>2, <1>3

\* A bar on the grid lies before the close exactly when it lies at or before the
\* last slot.
LEMMA LastSlot ==
    ASSUME NEW close \in Nat \ {0}, NEW tf \in Nat \ {0}, NEW o \in Nat, o % tf = 0
    PROVE  /\ o <= Quality!LastGridOffset(close, tf) <=> o < close
           /\ o < close => o \div tf \in 0..(Quality!ExpectedBars(close, tf) - 1)
  <1> DEFINE n == Quality!ExpectedBars(close, tf)
             q == o \div tf
             last == (n - 1) * tf
  <1>1. n \in Nat \ {0} /\ last < close /\ close <= last + tf
    BY RoundedUp
  <1>2. q \in Nat /\ o = q * tf
    BY Multiple
  <1> HIDE DEF n, q
  <1>3. n * tf = last + tf /\ last \in Nat /\ n - 1 \in Nat
    BY <1>1, SMT
  <1>4. o < close => q <= n - 1
    <2> SUFFICES ASSUME o < close, n <= q
                 PROVE  FALSE
      BY <1>1, <1>2
    <2>1. n * tf <= q * tf
      BY <1>1, <1>2, TimesMonotone
    <2> QED BY <2>1, <1>1, <1>2, <1>3
  <1>5. q <= n - 1 <=> o <= last
    BY <1>2, <1>3, TimesMonotone
  <1>6. o <= last <=> o < close
    <2> HIDE DEF last
    <2> QED BY <1>1, <1>2, <1>3, <1>4, <1>5
  <1> QED BY <1>2, <1>3, <1>4, <1>6 DEF Quality!LastGridOffset, n, q

\* The bound of the grid refuses no bar of the session that is on the grid: the
\* filter of intraday_readiness.py:194-200 and the session mask of
\* _session_intraday.py:196-215 agree, also where tf does not divide the session.
THEOREM GridIsTheSession ==
    ASSUME NEW close \in Nat \ {0}, NEW tf \in Nat \ {0}, NEW offsets \in SUBSET Nat
    PROVE  Quality!OnGrid(offsets, close, tf) = {o \in offsets : o % tf = 0 /\ o < close}
  <1>1. ASSUME NEW o \in offsets, o % tf = 0
        PROVE  /\ o <= Quality!LastGridOffset(close, tf) <=> o < close
               /\ 0 <= o
    BY <1>1, LastSlot
  <1> QED BY <1>1 DEF Quality!OnGrid

\* Observed bars never exceed expected ones: duplicates collapse and bars off the
\* grid do not count, so a session's coverage is at most 100 percent
\* (intraday_readiness.py:194-201).
THEOREM ObservedWithinExpected ==
    ASSUME NEW close \in Nat \ {0}, NEW tf \in Nat \ {0}, NEW offsets \in SUBSET Nat
    PROVE  /\ IsFiniteSet(Quality!OnGrid(offsets, close, tf))
           /\ Cardinality(Quality!OnGrid(offsets, close, tf)) <= Quality!ExpectedBars(close, tf)
  <1> DEFINE n == Quality!ExpectedBars(close, tf)
             grid == Quality!OnGrid(offsets, close, tf)
             slots == 0..(n - 1)
             f == [o \in grid |-> o \div tf]
  <1>1. n \in Nat \ {0}
    BY RoundedUp
  <1> HIDE DEF grid
  <1>0. grid = {o \in offsets : o % tf = 0 /\ o < close}
    BY GridIsTheSession DEF grid
  <1>2. ASSUME NEW o \in grid
        PROVE  o \div tf \in slots /\ o = (o \div tf) * tf
    <2>1. o \in Nat /\ o % tf = 0 /\ o < close
      BY <1>0
    <2> QED BY <2>1, LastSlot, Multiple
  <1> HIDE DEF n
  <1>3. IsFiniteSet(slots) /\ Cardinality(slots) = n
    <2>1. n - 1 \in Int /\ 0 \in Int
      BY <1>1
    <2>2. /\ IsFiniteSet(0..(n - 1))
          /\ Cardinality(0..(n - 1)) = IF 0 > n - 1 THEN 0 ELSE (n - 1) - 0 + 1
      BY <2>1, FS_Interval
    <2> QED BY <2>2, <1>1
  <1>4. f \in Injection(grid, slots)
    <2>1. f \in [grid -> slots]
      BY <1>2
    <2>2. ASSUME NEW a \in grid, NEW b \in grid, f[a] = f[b]
          PROVE  a = b
      <3>1. a \div tf = b \div tf
        BY <2>2
      <3> QED BY <3>1, <1>2
    <2> HIDE DEF f, slots
    <2>3. \A a, b \in grid : f[a] = f[b] => a = b
      BY <2>2
    <2> QED BY <2>1, <2>3 DEF Injection, IsInjective
  <1> HIDE DEF f, slots
  <1>5. IsFiniteSet(grid) /\ Cardinality(grid) <= Cardinality(slots)
    BY <1>3, <1>4, FS_Injection
  <1> QED BY <1>3, <1>5 DEF grid, n

-----------------------------------------------------------------------------
(* The lock file                                                           *)

\* The path names no file, or that of a process that has ended.
OrphanOrNothing == file.by = Nobody \/ ~Running(file.by)

\* The takeover removes what the path names by then.  It goes wrong in one way:
\* that is not what was judged any more, but a living process's file.
TakesOrphansOnly ==
    [][(\E p \in Procs : UnlinkStale(p)) => OrphanOrNothing]_lockVars

\* Why it then excludes: whoever is between create and release owns the inode
\* at the path.
OwnersOwnFile ==
    \A p \in Procs :
        /\ pc[p] = "write" => file.by = p /\ file.pid = Nobody
        /\ pc[p] \in {"held", "unlinkOwn"} => file.by = p /\ file.pid = p

IInv == LockTypeOK /\ OwnersOwnFile

LEMMA NewFiles ==
    /\ NoFile \in File
    /\ \A p \in Procs : [by |-> p, pid |-> Nobody, aged |-> FALSE] \in File
  BY DEF File, NoFile

\* The type invariant holds whatever the processes do.
THEOREM LockTypeCorrect == LockFileSpec => []LockTypeOK
<1>1. LockFileInit => LockTypeOK
  BY NewFiles DEF LockFileInit, LockTypeOK, PCs
<1>2. LockTypeOK /\ [LockFileNext]_lockVars => LockTypeOK'
  <2> SUFFICES ASSUME LockTypeOK, [LockFileNext]_lockVars PROVE LockTypeOK'
    OBVIOUS
  <2> USE DEF LockTypeOK, PCs, To
  <2>1. ASSUME NEW p \in Procs, Call(p) \/ Retry(p) \/ GiveUp(p)
        PROVE  LockTypeOK'
    BY <2>1 DEF Call, Retry, GiveUp
  <2>2. ASSUME NEW p \in Procs, ReadHolder(p)
        PROVE  LockTypeOK'
    BY <2>2 DEF ReadHolder, File
  <2>3. ASSUME NEW p \in Procs, Judge(p)
        PROVE  LockTypeOK'
    BY <2>3 DEF Judge
  <2>4. ASSUME NEW p \in Procs, UnlinkStale(p) \/ ReleaseUnlink(p) \/ WriteFails(p)
        PROVE  LockTypeOK'
    BY <2>4, NewFiles DEF UnlinkStale, ReleaseUnlink, WriteFails
  <2>5. ASSUME NEW p \in Procs, Create(p)
        PROVE  LockTypeOK'
    BY <2>5, NewFiles DEF Create
  <2>6. ASSUME NEW p \in Procs, WriteHolder(p)
        PROVE  LockTypeOK'
    BY <2>6, AdvisoryLockAssumption DEF WriteHolder, File
  <2>7. ASSUME NEW p \in Procs, Refresh(p)
        PROVE  LockTypeOK'
    BY <2>7 DEF Refresh, File
  <2>8. ASSUME NEW p \in Procs, ReleaseCheck(p)
        PROVE  LockTypeOK'
    BY <2>8 DEF ReleaseCheck
  <2>9. ASSUME NEW p \in Procs, End(p) \/ RecyclePid(p)
        PROVE  LockTypeOK'
    BY <2>9 DEF End, RecyclePid
  <2>10. CASE Age
    BY <2>10 DEF Age, File
  <2>11. CASE UNCHANGED lockVars
    BY <2>11 DEF lockVars
  <2> QED
    BY <2>1, <2>2, <2>3, <2>4, <2>5, <2>6, <2>7, <2>8, <2>9, <2>10, <2>11
       DEF LockFileNext, Acquire, Release
<1> QED
  BY <1>1, <1>2, PTL DEF LockFileSpec

LEMMA IInvInit == LockFileInit => IInv
  BY AdvisoryLockAssumption
     DEF LockFileInit, IInv, LockTypeOK, OwnersOwnFile, File, NoFile, PCs

LEMMA IInvStep ==
    IInv /\ LockTypeOK' /\ [LockFileNext]_lockVars
         /\ [(\E p \in Procs : UnlinkStale(p)) => OrphanOrNothing]_lockVars
    => IInv'
<1> SUFFICES ASSUME IInv, LockTypeOK', [LockFileNext]_lockVars,
                    [(\E p \in Procs : UnlinkStale(p)) => OrphanOrNothing]_lockVars
             PROVE  OwnersOwnFile'
  BY DEF IInv
<1> USE AdvisoryLockAssumption
    DEF IInv, LockTypeOK, PCs, File, NoFile, OwnersOwnFile, To
<1>1. ASSUME NEW p \in Procs, Call(p) \/ Retry(p) \/ GiveUp(p)
      PROVE  OwnersOwnFile'
  BY <1>1 DEF Call, Retry, GiveUp
<1>2. ASSUME NEW p \in Procs, ReadHolder(p)
      PROVE  OwnersOwnFile'
  BY <1>2 DEF ReadHolder
<1>3. ASSUME NEW p \in Procs, Judge(p)
      PROVE  OwnersOwnFile'
  BY <1>3 DEF Judge
<1>4. ASSUME NEW p \in Procs, UnlinkStale(p)
      PROVE  OwnersOwnFile'
  <2>1. OrphanOrNothing
    BY <1>4 DEF UnlinkStale, lockVars
  <2>2. \A q \in Procs : pc[q] \notin {"write", "held", "unlinkOwn"}
    BY <2>1 DEF OrphanOrNothing, Running
  <2> QED BY <1>4, <2>2 DEF UnlinkStale
<1>5. ASSUME NEW p \in Procs, Create(p)
      PROVE  OwnersOwnFile'
  BY <1>5 DEF Create
<1>6. ASSUME NEW p \in Procs, WriteHolder(p)
      PROVE  OwnersOwnFile'
  BY <1>6 DEF WriteHolder
<1>7. ASSUME NEW p \in Procs, WriteFails(p) \/ ReleaseUnlink(p)
      PROVE  OwnersOwnFile'
  BY <1>7 DEF WriteFails, ReleaseUnlink
<1>8. ASSUME NEW p \in Procs, Refresh(p)
      PROVE  OwnersOwnFile'
  BY <1>8 DEF Refresh
<1>9. ASSUME NEW p \in Procs, ReleaseCheck(p)
      PROVE  OwnersOwnFile'
  BY <1>9 DEF ReleaseCheck
<1>10. ASSUME NEW p \in Procs, End(p) \/ RecyclePid(p)
       PROVE  OwnersOwnFile'
  BY <1>10 DEF End, RecyclePid
<1>11. CASE Age
  BY <1>11 DEF Age
<1>12. CASE UNCHANGED lockVars
  BY <1>12 DEF lockVars
<1> QED
  BY <1>1, <1>2, <1>3, <1>4, <1>5, <1>6, <1>7, <1>8, <1>9, <1>10, <1>11, <1>12
     DEF LockFileNext, Acquire, Release

LEMMA IInvAlways == LockFileSpec /\ TakesOrphansOnly => []IInv
  BY IInvInit, IInvStep, LockTypeCorrect, PTL DEF LockFileSpec, TakesOrphansOnly

LEMMA IInvExcludes == IInv => MutualExclusion /\ HolderOwnsFile
  BY AdvisoryLockAssumption
     DEF IInv, OwnersOwnFile, MutualExclusion, HolderOwnsFile, Holders

\* Two processes never run the section a lock file protects at once, however
\* many contend for it and wherever they end, unless a takeover removes a
\* living process's file: nothing else in the protocol can break it.
THEOREM Excludes == LockFileSpec /\ TakesOrphansOnly => []MutualExclusion
  BY IInvAlways, IInvExcludes, PTL

\* The lock file then always names the process in the section, deaths, failed
\* writes and the two system calls of a release notwithstanding.
THEOREM NamesHolder == LockFileSpec /\ TakesOrphansOnly => []HolderOwnsFile
  BY IInvAlways, IInvExcludes, PTL

-----------------------------------------------------------------------------
(* When a takeover takes an orphan                                         *)

\* No two calls of acquire are between their read and their create at once.
OneAcquires ==
    \A p, q \in Procs : {pc[p], pc[q]} \subseteq {"judge", "unlink", "create"} => p = q

\* What was read is what the path still names, or it names nothing.
ReadIsCurrent ==
    /\ file.pid # Nobody => file.pid = file.by
    /\ file.aged => file.by # Nobody /\ ~Running(file.by)
    /\ \A p \in Procs : /\ pc[p] = "judge" => seen[p] \in Procs /\ file.by \in {seen[p], Nobody}
                        /\ pc[p] = "unlink" => OrphanOrNothing

LEMMA ReadIsCurrentStep ==
    LockTypeOK /\ LockTypeOK' /\ OneAcquires /\ ReadIsCurrent /\ [LockFileNext]_lockVars
    => ReadIsCurrent'
<1> SUFFICES ASSUME LockTypeOK, LockTypeOK', OneAcquires, ReadIsCurrent,
                    [LockFileNext]_lockVars
             PROVE  ReadIsCurrent'
  OBVIOUS
<1> USE AdvisoryLockAssumption
    DEF LockTypeOK, PCs, File, NoFile, ReadIsCurrent, OrphanOrNothing, Running, To
<1>1. ASSUME NEW p \in Procs, Call(p) \/ Retry(p) \/ GiveUp(p)
      PROVE  ReadIsCurrent'
  BY <1>1 DEF Call, Retry, GiveUp
<1>2. ASSUME NEW p \in Procs, ReadHolder(p)
      PROVE  ReadIsCurrent'
  BY <1>2 DEF ReadHolder
<1>3. ASSUME NEW p \in Procs, Judge(p)
      PROVE  ReadIsCurrent'
  BY <1>3 DEF Judge, ProcessExists
<1>4. ASSUME NEW p \in Procs, UnlinkStale(p)
      PROVE  ReadIsCurrent'
  BY <1>4 DEF UnlinkStale
<1>5. ASSUME NEW p \in Procs, Create(p)
      PROVE  ReadIsCurrent'
  <2>1. \A q \in Procs : pc[q] \in {"judge", "unlink"} => q = p
    BY <1>5 DEF Create, OneAcquires
  <2> QED BY <1>5, <2>1 DEF Create
<1>6. ASSUME NEW p \in Procs, WriteHolder(p)
      PROVE  ReadIsCurrent'
  BY <1>6 DEF WriteHolder
<1>7. ASSUME NEW p \in Procs, WriteFails(p) \/ ReleaseUnlink(p)
      PROVE  ReadIsCurrent'
  BY <1>7 DEF WriteFails, ReleaseUnlink
<1>8. ASSUME NEW p \in Procs, Refresh(p)
      PROVE  ReadIsCurrent'
  BY <1>8 DEF Refresh
<1>9. ASSUME NEW p \in Procs, ReleaseCheck(p)
      PROVE  ReadIsCurrent'
  BY <1>9 DEF ReleaseCheck
<1>10. ASSUME NEW p \in Procs, End(p) \/ RecyclePid(p)
       PROVE  ReadIsCurrent'
  BY <1>10 DEF End, RecyclePid
<1>11. CASE Age
  BY <1>11 DEF Age
<1>12. CASE UNCHANGED lockVars
  BY <1>12 DEF lockVars
<1> QED
  BY <1>1, <1>2, <1>3, <1>4, <1>5, <1>6, <1>7, <1>8, <1>9, <1>10, <1>11, <1>12
     DEF LockFileNext, Acquire, Release

\* Calls of acquire that do not overlap take over orphans only, so that the
\* lock then excludes whoever ends where: a matter of scheduling alone.
THEOREM OneByOneIsSafe == LockFileSpec /\ []OneAcquires => TakesOrphansOnly
<1>1. LockFileInit => ReadIsCurrent
  BY AdvisoryLockAssumption DEF LockFileInit, ReadIsCurrent, NoFile
<1>2. ReadIsCurrent => [(\E p \in Procs : UnlinkStale(p)) => OrphanOrNothing]_lockVars
  BY DEF ReadIsCurrent, UnlinkStale
<1> QED
  BY <1>1, <1>2, ReadIsCurrentStep, LockTypeCorrect, PTL DEF LockFileSpec, TakesOrphansOnly

-----------------------------------------------------------------------------
(* The refinement                                                          *)

LEMMA OwnerIsHolder ==
    ASSUME MutualExclusion, NEW p \in Holders
    PROVE  AbstractOwner = p
  BY DEF AbstractOwner, MutualExclusion, Holders

\* Every step of the file protocol enters or leaves the abstract lock, or
\* leaves it alone; a holder that ends leaves it.
LEMMA StepImplements ==
    ASSUME IInv, IInv', [LockFileNext]_lockVars
    PROVE  [Abstract!LockNext]_AbstractOwner
<1>1. MutualExclusion /\ MutualExclusion'
  BY IInvExcludes, AdvisoryLockAssumption
     DEF IInv, OwnersOwnFile, MutualExclusion, Holders
<1>2. CASE Holders' = Holders
  BY <1>2 DEF AbstractOwner
<1>3. ASSUME NEW p \in Procs, WriteHolder(p)
      PROVE  Abstract!Enter(p)
  <2>1. Holders = {}
    BY <1>3, AdvisoryLockAssumption DEF IInv, OwnersOwnFile, WriteHolder, Holders
  <2>2. p \in Holders'
    BY <1>3 DEF WriteHolder, To, Holders, IInv, LockTypeOK
  <2>3. AbstractOwner = Nobody
    BY <2>1 DEF AbstractOwner
  <2>4. AbstractOwner' = p
    BY <1>1, <2>2 DEF AbstractOwner, MutualExclusion, Holders
  <2> QED
    BY <2>3, <2>4 DEF Abstract!Enter
<1>4. ASSUME NEW p \in Holders, ReleaseCheck(p) \/ End(p)
      PROVE  Abstract!Leave(p)
  <2>1. Holders' = {}
    BY <1>1, <1>4
       DEF ReleaseCheck, End, To, Holders, IInv, LockTypeOK, MutualExclusion
  <2>2. AbstractOwner = p
    BY <1>1, OwnerIsHolder
  <2>3. AbstractOwner' = Nobody
    BY <2>1 DEF AbstractOwner
  <2> QED
    BY <2>2, <2>3 DEF Abstract!Leave
<1>5. ASSUME NEW p \in Procs,
             \/ Call(p) \/ Retry(p) \/ GiveUp(p) \/ ReadHolder(p) \/ Judge(p)
             \/ UnlinkStale(p) \/ Create(p) \/ WriteFails(p) \/ Refresh(p)
             \/ ReleaseUnlink(p) \/ RecyclePid(p) \/ (End(p) /\ p \notin Holders)
      PROVE  Holders' = Holders
  BY <1>5 DEF Call, Retry, GiveUp, ReadHolder, Judge, UnlinkStale, Create, WriteFails,
              Refresh, ReleaseUnlink, RecyclePid, End, To, Holders, IInv, LockTypeOK
<1>6. ASSUME NEW p \in Procs, ReleaseCheck(p)
      PROVE  p \in Holders
  BY <1>6 DEF ReleaseCheck, Holders
<1>7. CASE Age \/ UNCHANGED lockVars
  BY <1>2, <1>7 DEF Age, lockVars, Holders
<1>8. Holders \subseteq Procs
  BY DEF Holders
<1> QED
  BY <1>2, <1>3, <1>4, <1>5, <1>6, <1>7, <1>8
     DEF LockFileNext, Acquire, Release, Abstract!LockNext

\* The protocol implements the lock that its callers assume, the death of its
\* owner included, under the same condition.
THEOREM Implements == LockFileSpec /\ TakesOrphansOnly => ImplementsLock
<1>1. LockFileInit => Abstract!LockInit
  BY DEF LockFileInit, Abstract!LockInit, AbstractOwner, Holders
<1>2. IInv /\ IInv' /\ [LockFileNext]_lockVars => [Abstract!LockNext]_AbstractOwner
  BY StepImplements
<1> QED
  BY <1>1, <1>2, IInvAlways, PTL
     DEF LockFileSpec, ImplementsLock, Abstract!LockSafety

=============================================================================
