----------------------- MODULE CandleAggregatorProofs -----------------------
(***************************************************************************)
(* What the candle aggregator keeps of the ticks it is given, for any      *)
(* symbols, widths, timezone, policies, prices, volumes and ticks.         *)
(***************************************************************************)
EXTENDS Analytics, SequenceTheorems, FiniteSetTheorems, WellFoundedInduction, TLAPS

-----------------------------------------------------------------------------
(***************************************************************************)
(* What SumFunctionOnSet(f, S) of the community modules computes over a    *)
(* finite set S. It is a recursive function over the subsets of S that     *)
(* takes out an element of its choice. That there is one such function,    *)
(* and that the choice does not matter, is shown on a smallest set for     *)
(* which it would not be so.                                               *)
(***************************************************************************)
Chosen(s) == CHOOSE x \in s : TRUE

(* g is the function that adds up f over the subsets of S.                 *)
AddsUp(g, f, S) ==
  g = [s \in SUBSET S |-> IF s = {} THEN 0
                          ELSE f[Chosen(s)] + g[s \ {Chosen(s)}]]

LEMMA ChosenIn == ASSUME NEW s, s # {} PROVE Chosen(s) \in s
BY DEF Chosen

(* A family of subsets of a finite set has a smallest member.              *)
LEMMA Smallest ==
  ASSUME NEW S, IsFiniteSet(S), NEW T, T \subseteq SUBSET S, T # {}
  PROVE  \E t \in T : \A u \in T : ~ (u \subseteq t /\ u # t)
<1>1. IsWellFoundedOn(StrictSubsetOrdering(S), FiniteSubsetsOf(S))
  BY FS_StrictSubsetOrderingWellFounded
<1>2. T \subseteq FiniteSubsetsOf(S)
  BY FS_Subset DEF FiniteSubsetsOf
<1>3. PICK t \in T : \A u \in T : <<u, t>> \notin StrictSubsetOrdering(S)
  BY <1>1, <1>2, WFMin
<1> QED
  BY <1>3 DEF StrictSubsetOrdering

(* The functions that add up f over the subsets of S are the same.         *)
LEMMA OneSum ==
  ASSUME NEW f, NEW S, IsFiniteSet(S), NEW g, NEW h, AddsUp(g, f, S), AddsUp(h, f, S)
  PROVE  g = h
<1> DEFINE T == {t \in SUBSET S : g[t] # h[t]}
<1>1. SUFFICES ASSUME T # {} PROVE FALSE
  BY DEF AddsUp
<1>2. PICK t \in T : \A u \in T : ~ (u \subseteq t /\ u # t)
  <2>1. T \subseteq SUBSET S
    OBVIOUS
  <2> HIDE DEF T
  <2> QED
    BY <1>1, <2>1, Smallest
<1>3. t # {}
  BY DEF AddsUp
<1>4. /\ t \ {Chosen(t)} \subseteq t /\ t \ {Chosen(t)} # t
      /\ t \ {Chosen(t)} \in SUBSET S
  BY <1>3, ChosenIn
<1>5. g[t \ {Chosen(t)}] = h[t \ {Chosen(t)}]
  BY <1>2, <1>4
<1>6. g[t] = f[Chosen(t)] + g[t \ {Chosen(t)}]
  BY <1>3 DEF AddsUp
<1>7. h[t] = f[Chosen(t)] + h[t \ {Chosen(t)}]
  BY <1>3 DEF AddsUp
<1> QED
  BY <1>5, <1>6, <1>7

(* SumFunctionOnSet is such a function's value at S.                       *)
LEMMA SumIsValue ==
  ASSUME NEW f, NEW S
  PROVE  SumFunctionOnSet(f, S) = (CHOOSE g : AddsUp(g, f, S))[S]
BY DEF SumFunctionOnSet, FoldFunctionOnSet, MapThenFoldSet, AddsUp, Chosen

(* The sums over the subsets of a finite set are such a function.          *)
LEMMA SumsAddUp ==
  ASSUME NEW f, NEW S, IsFiniteSet(S)
  PROVE  AddsUp([s \in SUBSET S |-> SumFunctionOnSet(f, s)], f, S)
<1> DEFINE Sums(s) == [t \in SUBSET s |-> SumFunctionOnSet(f, t)]
           T == {s \in SUBSET S : ~ AddsUp(Sums(s), f, s)}
<1>1. SUFFICES ASSUME T # {} PROVE FALSE
  OBVIOUS
<1>2. PICK s \in T : \A u \in T : ~ (u \subseteq s /\ u # s)
  <2>1. T \subseteq SUBSET S
    OBVIOUS
  <2> HIDE DEF T
  <2> QED
    BY <1>1, <2>1, Smallest
<1>3. s \in SUBSET S /\ IsFiniteSet(s) /\ ~ AddsUp(Sums(s), f, s)
  BY FS_Subset
<1>4. ASSUME NEW t \in SUBSET s, t # s
      PROVE  SumFunctionOnSet(f, t) =
               IF t = {} THEN 0
               ELSE f[Chosen(t)] + SumFunctionOnSet(f, t \ {Chosen(t)})
  <2>1. t \in SUBSET S /\ t \notin T
    BY <1>2, <1>3, <1>4
  <2>2. AddsUp(Sums(t), f, t)
    BY <2>1
  <2>3. t \in SUBSET t /\ t \ {Chosen(t)} \in SUBSET t
    OBVIOUS
  <2>4. Sums(t)[t] = IF t = {} THEN 0
                     ELSE f[Chosen(t)] + Sums(t)[t \ {Chosen(t)}]
    BY <2>2, <2>3 DEF AddsUp
  <2> QED
    BY <2>3, <2>4
<1> DEFINE g == [t \in SUBSET s |->
                   IF t = {} THEN 0
                   ELSE f[Chosen(t)] + SumFunctionOnSet(f, t \ {Chosen(t)})]
<1>5. ASSUME NEW t \in SUBSET s, t # {}
      PROVE  g[t \ {Chosen(t)}] = SumFunctionOnSet(f, t \ {Chosen(t)})
  <2>1. t \ {Chosen(t)} \in SUBSET s /\ t \ {Chosen(t)} # s
    BY <1>5, ChosenIn
  <2> QED
    BY <1>4, <2>1
<1>6. AddsUp(g, f, s)
  BY <1>5 DEF AddsUp
<1>7. (CHOOSE h : AddsUp(h, f, s)) = g
  BY <1>3, <1>6, OneSum
<1>8. SumFunctionOnSet(f, s) = g[s]
  BY <1>7, SumIsValue
<1>9. \A t \in SUBSET s : SumFunctionOnSet(f, t) = g[t]
  BY <1>4, <1>8
<1>10. Sums(s) = g
  BY <1>9
<1> QED
  BY <1>3, <1>6, <1>10

LEMMA SumEmpty == \A f : SumFunctionOnSet(f, {}) = 0
<1> TAKE f
<1>1. AddsUp([s \in SUBSET {} |-> SumFunctionOnSet(f, s)], f, {})
  BY SumsAddUp, FS_EmptySet
<1> QED
  BY <1>1 DEF AddsUp

(* The recursion: an element, and the sum over the others.                 *)
LEMMA SumChosen ==
  ASSUME NEW f, NEW S, IsFiniteSet(S), S # {}
  PROVE  /\ Chosen(S) \in S
         /\ SumFunctionOnSet(f, S) =
              f[Chosen(S)] + SumFunctionOnSet(f, S \ {Chosen(S)})
<1> DEFINE g == [s \in SUBSET S |-> SumFunctionOnSet(f, s)]
<1>1. AddsUp(g, f, S)
  BY SumsAddUp
<1>2. S \in SUBSET S /\ S \ {Chosen(S)} \in SUBSET S
  OBVIOUS
<1>3. g[S] = f[Chosen(S)] + g[S \ {Chosen(S)}]
  BY <1>1, <1>2 DEF AddsUp
<1> QED
  BY <1>2, <1>3, ChosenIn

(* Sums of integers are integers.                                          *)
LEMMA SumInt ==
  ASSUME NEW f, NEW S, IsFiniteSet(S), \A x \in S : f[x] \in Int
  PROVE  SumFunctionOnSet(f, S) \in Int
<1> DEFINE T == {s \in SUBSET S : SumFunctionOnSet(f, s) \notin Int}
<1>1. SUFFICES ASSUME T # {} PROVE FALSE
  OBVIOUS
<1>2. PICK s \in T : \A u \in T : ~ (u \subseteq s /\ u # s)
  <2>1. T \subseteq SUBSET S
    OBVIOUS
  <2> HIDE DEF T
  <2> QED
    BY <1>1, <2>1, Smallest
<1>3. s \in SUBSET S /\ IsFiniteSet(s) /\ s # {}
  <2>1. SumFunctionOnSet(f, {}) = 0
    BY SumEmpty
  <2>2. s # {}
    BY <2>1
  <2> QED
    BY <2>2, FS_Subset
<1>4. /\ Chosen(s) \in s
      /\ SumFunctionOnSet(f, s) = f[Chosen(s)] + SumFunctionOnSet(f, s \ {Chosen(s)})
  BY <1>3, SumChosen
<1>5. SumFunctionOnSet(f, s \ {Chosen(s)}) \in Int
  <2>1. /\ s \ {Chosen(s)} \subseteq s /\ s \ {Chosen(s)} # s
        /\ s \ {Chosen(s)} \in SUBSET S
    BY <1>3, <1>4
  <2> QED
    BY <1>2, <2>1
<1> QED
  BY <1>2, <1>3, <1>4, <1>5

(* The sum with any element taken out first, whichever one is chosen.      *)
LEMMA SumRemove ==
  ASSUME NEW f, NEW S, IsFiniteSet(S), \A x \in S : f[x] \in Int, NEW e \in S
  PROVE  SumFunctionOnSet(f, S) = f[e] + SumFunctionOnSet(f, S \ {e})
<1> DEFINE Off(s, x) == SumFunctionOnSet(f, s) # f[x] + SumFunctionOnSet(f, s \ {x})
           T == {s \in SUBSET S : \E x \in s : Off(s, x)}
<1>1. SUFFICES ASSUME T # {} PROVE FALSE
  OBVIOUS
<1>2. PICK s \in T : \A u \in T : ~ (u \subseteq s /\ u # s)
  <2>1. T \subseteq SUBSET S
    OBVIOUS
  <2> HIDE DEF T
  <2> QED
    BY <1>1, <2>1, Smallest
<1>3. s \in SUBSET S /\ IsFiniteSet(s)
  BY FS_Subset
<1>4. PICK x \in s : Off(s, x)
  OBVIOUS
<1> DEFINE c == Chosen(s)
           both == s \ {c, x}
<1>5. c \in s /\ SumFunctionOnSet(f, s) = f[c] + SumFunctionOnSet(f, s \ {c})
  BY <1>3, <1>4, SumChosen
<1>6. c # x
  BY <1>4, <1>5
<1>7. SumFunctionOnSet(f, s \ {c}) = f[x] + SumFunctionOnSet(f, both)
  <2>1. /\ s \ {c} \subseteq s /\ s \ {c} # s /\ s \ {c} \in SUBSET S
        /\ x \in s \ {c} /\ (s \ {c}) \ {x} = both
    BY <1>3, <1>5, <1>6
  <2>2. ~ Off(s \ {c}, x)
    BY <1>2, <2>1
  <2> QED
    BY <2>1, <2>2
<1>8. SumFunctionOnSet(f, s \ {x}) = f[c] + SumFunctionOnSet(f, both)
  <2>1. /\ s \ {x} \subseteq s /\ s \ {x} # s /\ s \ {x} \in SUBSET S
        /\ c \in s \ {x} /\ (s \ {x}) \ {c} = both
    BY <1>3, <1>5, <1>6
  <2>2. ~ Off(s \ {x}, c)
    BY <1>2, <2>1
  <2> QED
    BY <2>1, <2>2
<1>9. f[c] \in Int /\ f[x] \in Int /\ SumFunctionOnSet(f, both) \in Int
  <2>1. both \subseteq S /\ IsFiniteSet(both)
    BY <1>3, FS_Subset
  <2> HIDE DEF both
  <2> QED
    BY <1>3, <1>5, <2>1, SumInt
<1> QED
  BY <1>4, <1>5, <1>7, <1>8, <1>9

(* Only the values on the set count.                                       *)
LEMMA SumSame ==
  ASSUME NEW f, NEW g, NEW S, IsFiniteSet(S), \A x \in S : f[x] = g[x]
  PROVE  SumFunctionOnSet(f, S) = SumFunctionOnSet(g, S)
<1> DEFINE T == {s \in SUBSET S : SumFunctionOnSet(f, s) # SumFunctionOnSet(g, s)}
<1>1. SUFFICES ASSUME T # {} PROVE FALSE
  OBVIOUS
<1>2. PICK s \in T : \A u \in T : ~ (u \subseteq s /\ u # s)
  <2>1. T \subseteq SUBSET S
    OBVIOUS
  <2> HIDE DEF T
  <2> QED
    BY <1>1, <2>1, Smallest
<1>3. s \in SUBSET S /\ IsFiniteSet(s) /\ s # {}
  BY FS_Subset, SumEmpty
<1>4. /\ Chosen(s) \in s
      /\ SumFunctionOnSet(f, s) = f[Chosen(s)] + SumFunctionOnSet(f, s \ {Chosen(s)})
      /\ SumFunctionOnSet(g, s) = g[Chosen(s)] + SumFunctionOnSet(g, s \ {Chosen(s)})
  BY <1>3, SumChosen
<1>5. SumFunctionOnSet(f, s \ {Chosen(s)}) = SumFunctionOnSet(g, s \ {Chosen(s)})
  <2>1. /\ s \ {Chosen(s)} \subseteq s /\ s \ {Chosen(s)} # s
        /\ s \ {Chosen(s)} \in SUBSET S
    BY <1>3, <1>4
  <2> QED
    BY <1>2, <2>1
<1>6. f[Chosen(s)] = g[Chosen(s)]
  BY <1>3, <1>4
<1> QED
  BY <1>2, <1>4, <1>5, <1>6

(* ... and with an element added.                                          *)
LEMMA SumAdd ==
  ASSUME NEW f, NEW S, IsFiniteSet(S), NEW e, e \notin S,
         \A x \in S \union {e} : f[x] \in Int
  PROVE  SumFunctionOnSet(f, S \union {e}) = f[e] + SumFunctionOnSet(f, S)
<1>1. IsFiniteSet(S \union {e}) /\ e \in S \union {e} /\ (S \union {e}) \ {e} = S
  BY FS_AddElement
<1> QED
  BY <1>1, SumRemove

-----------------------------------------------------------------------------
(* What one step does to a series, all of Update for a tick k of its       *)
(* symbol, or Flush.                                                       *)
Ends(s) == bar[s] # NoBar /\ emitted'[s] = Append(emitted[s], bar[s])
Kept(s) == /\ bar'[s] = bar[s]
           /\ emitted'[s] = emitted[s] /\ accepted'[s] = accepted[s]
Leaves(s) == Ends(s) /\ bar'[s] = NoBar /\ accepted'[s] = accepted[s]
Grows(s, k) == /\ bar[s] # NoBar /\ bar'[s] = AddTick(bar[s], k)
               /\ emitted'[s] = emitted[s] /\ accepted'[s] = accepted[s] + 1
Opens(s, k) == /\ bar[s] = NoBar /\ bar'[s] = AddTick(NewBar(k.at, Width(s)), k)
               /\ emitted'[s] = emitted[s] /\ accepted'[s] = accepted[s] + 1
Replaces(s, k) == /\ Ends(s) /\ bar'[s] = AddTick(NewBar(k.at, Width(s)), k)
                  /\ accepted'[s] = accepted[s] + 1

LEMMA SeriesHas ==
  ASSUME NEW s \in Series
  PROVE  s[1] \in Symbols /\ Width(s) \in Timeframes /\ Width(s) \in Nat \ {0}
BY WidthsPositive DEF Series, Width

(* Step, by what becomes of the bar.                                       *)
LEMMA StepDoes ==
  ASSUME NEW b, NEW last, NEW w, NEW k,
         NEW r, r = Step(b, last, w, k)
  PROVE  /\ \/ /\ r.bar = b /\ r.closed = <<>> /\ r.applied = 0
               /\ b # NoBar \/ OrderPolicy = "reject_stale"
            \/ /\ b # NoBar /\ r.bar = NoBar /\ r.closed = <<b>> /\ r.applied = 0
               /\ OrderPolicy = "reject_stale"
            \/ /\ b # NoBar /\ r.bar = AddTick(b, k) /\ r.closed = <<>> /\ r.applied = 1
               /\ OrderPolicy = "reject_older" => ~ BucketStart(k.at, w) < b.open
                                                  /\ ~ BucketStart(k.at, w) > b.open
            \/ /\ b = NoBar /\ r.bar = AddTick(NewBar(k.at, w), k) /\ r.closed = <<>>
               /\ r.applied = 1
            \/ /\ b # NoBar /\ r.bar = AddTick(NewBar(k.at, w), k) /\ r.closed = <<b>>
               /\ r.applied = 1
               /\ BucketStart(k.at, w) > b.open \/ Idle(b, k.at)
         /\ r.last = last \/ (b # NoBar /\ r.last = b.open)
<1> DEFINE open == BucketStart(k.at, w)
<1>1. CASE Idle(b, k.at)
  <2>1. /\ b # NoBar /\ AfterEvict(b, k.at) = NoBar
        /\ LastAfterEvict(b, k.at, last) = b.open /\ ClosedByEvict(b, k.at) = <<b>>
    BY <1>1 DEF Idle, AfterEvict, LastAfterEvict, ClosedByEvict
  <2>2. ~ Rolls(NoBar, open)
    BY DEF Rolls
  <2>3. Rejects(NoBar, open, b.open) => OrderPolicy = "reject_stale"
    BY DEF Rejects
  <2>4. r = [bar |-> IF Rejects(NoBar, open, b.open) THEN NoBar
                     ELSE AddTick(NewBar(k.at, w), k),
             last |-> b.open, closed |-> <<b>> \o <<>>,
             applied |-> IF Rejects(NoBar, open, b.open) THEN 0 ELSE 1]
    BY <2>1, <2>2 DEF Step
  <2>5. <<b>> \o <<>> = <<b>>
    OBVIOUS
  <2> QED
    BY <1>1, <2>1, <2>3, <2>4, <2>5
<1>2. CASE ~ Idle(b, k.at)
  <2>1. /\ AfterEvict(b, k.at) = b
        /\ LastAfterEvict(b, k.at, last) = last /\ ClosedByEvict(b, k.at) = <<>>
    BY <1>2 DEF AfterEvict, LastAfterEvict, ClosedByEvict
  <2> DEFINE no == Rejects(b, open, last)
             rolls == ~ no /\ Rolls(b, open)
  <2>2. r = [bar |-> IF no THEN b
                     ELSE AddTick(IF b = NoBar \/ rolls THEN NewBar(k.at, w) ELSE b, k),
             last |-> IF rolls THEN b.open ELSE last,
             closed |-> <<>> \o (IF rolls THEN <<b>> ELSE <<>>),
             applied |-> IF no THEN 0 ELSE 1]
    BY <2>1 DEF Step
  <2>3. <<>> \o <<b>> = <<b>> /\ <<>> \o <<>> = <<>>
    OBVIOUS
  <2>4. no => b # NoBar \/ OrderPolicy = "reject_stale"
    BY DEF Rejects
  <2>5. rolls => ~ no /\ b # NoBar /\ open > b.open
    BY DEF Rolls
  <2>6. ~ no /\ ~ rolls /\ b # NoBar /\ OrderPolicy = "reject_older"
          => ~ open < b.open /\ ~ open > b.open
    BY DEF Rolls, Rejects
  <2> HIDE DEF no, rolls
  <2>7. CASE no
    BY <2>2, <2>3, <2>4, <2>5, <2>7
  <2>8. CASE rolls
    BY <2>2, <2>3, <2>5, <2>8
  <2>9. CASE ~ no /\ ~ rolls /\ b = NoBar
    BY <2>2, <2>3, <2>9
  <2>10. CASE ~ no /\ ~ rolls /\ b # NoBar
    BY <2>2, <2>3, <2>6, <2>10
  <2> QED
    BY <2>7, <2>8, <2>9, <2>10
<1> QED
  BY <1>1, <1>2

-----------------------------------------------------------------------------
(* A bar whose open, close and mean are between its low and its high.      *)
FramedBar ==
  {b \in Bar : /\ b.low <= b.first /\ b.first <= b.high
               /\ b.low <= b.close /\ b.close <= b.high
               /\ b.low * b.volume <= b.numer /\ b.numer <= b.high * b.volume}

Framed ==
  /\ bar \in [Series -> FramedBar \union {NoBar}]
  /\ emitted \in [Series -> Seq(FramedBar)]
  /\ accepted \in [Series -> Nat]
  /\ lastClosed \in [Series -> Int]
  /\ flushed \in BOOLEAN /\ ticks \in 0 .. MaxTicks

LEMMA Divides ==
  ASSUME NEW x \in Int, NEW w \in Nat \ {0}
  PROVE  /\ (x \div w) * w \in Int
         /\ (x \div w) * w <= x /\ x < (x \div w) * w + w
OBVIOUS

(* A time is in its bucket.                                                *)
LEMMA InBucket ==
  ASSUME NEW t \in Nat, NEW w \in Nat \ {0}
  PROVE  /\ BucketStart(t, w) \in Int
         /\ BucketStart(t, w) <= t /\ t < BucketStart(t, w) + w
<1>1. CASE w = Day
  <2>1. t + ZoneOffset \in Int /\ ZoneOffset \in Int
    BY ZoneNat
  <2> DEFINE start == ((t + ZoneOffset) \div w) * w
  <2>2. start \in Int /\ start <= t + ZoneOffset /\ t + ZoneOffset < start + w
    BY <2>1, Divides
  <2>3. BucketStart(t, w) = start - ZoneOffset
    BY <1>1 DEF BucketStart
  <2> HIDE DEF start
  <2> QED
    BY <2>1, <2>2, <2>3
<1>2. CASE w # Day
  BY <1>2, Divides DEF BucketStart
<1> QED
  BY <1>1, <1>2

LEMMA Times ==
  ASSUME NEW a \in Nat, NEW b \in Nat, NEW c \in Nat, a <= b
  PROVE  a * c <= b * c
OBVIOUS

(* A tick moves the frame and the mean together.                           *)
LEMMA MeanFramed ==
  ASSUME NEW low \in Nat, NEW high \in Nat, NEW numer \in Nat, NEW volume \in Nat,
         NEW price \in Nat, NEW weight \in Nat, NEW l \in Nat, NEW h \in Nat,
         low * volume <= numer, numer <= high * volume,
         l <= low, l <= price, high <= h, price <= h
  PROVE  /\ l * (volume + weight) <= numer + price * weight
         /\ numer + price * weight <= h * (volume + weight)
<1>1. l * volume <= low * volume /\ l * weight <= price * weight
  BY Times
<1>2. high * volume <= h * volume /\ price * weight <= h * weight
  BY Times
<1>3. /\ l * (volume + weight) = l * volume + l * weight
      /\ h * (volume + weight) = h * volume + h * weight
  OBVIOUS
<1>4. /\ l * volume \in Nat /\ l * weight \in Nat /\ price * weight \in Nat
      /\ h * volume \in Nat /\ h * weight \in Nat
      /\ low * volume \in Nat /\ high * volume \in Nat
  OBVIOUS
<1> QED
  BY <1>1, <1>2, <1>3, <1>4

LEMMA TickHas ==
  ASSUME NEW k \in Tick
  PROVE  /\ k.symbol \in Symbols /\ k.at \in Nat /\ k.volume \in Nat
         /\ k.price \in Prices /\ k.price \in Nat \ {0}
<1>1. /\ k.symbol \in Symbols /\ k.at \in 0 .. Horizon
      /\ k.price \in Prices /\ k.volume \in Volumes
  BY DEF Tick
<1>2. k.at \in Nat
  BY <1>1, TickBounds
<1>3. k.price \in Nat \ {0} /\ k.volume \in Nat
  BY <1>1, TickValues
<1> QED
  BY <1>1, <1>2, <1>3

LEMMA Weighed ==
  ASSUME NEW v \in Nat, NEW last \in Nat
  PROVE  Weight(v, last) \in Nat /\ LastVolume(v, last) \in Nat
BY Zenon, SMT DEF Weight, LastVolume

(* The bar a tick opens, and a bar a tick is added to.                     *)
LEMMA TickOpens ==
  ASSUME NEW k \in Tick, NEW w \in Timeframes, NEW b, b = AddTick(NewBar(k.at, w), k)
  PROVE  /\ b \in FramedBar
         /\ b.open = BucketStart(k.at, w) /\ b.at = k.at /\ b.count = 1
         /\ b.volume = Weight(k.volume, 0) /\ b.lastVolume = LastVolume(k.volume, 0)
<1>1. BucketStart(k.at, w) \in Int
  BY InBucket, TickHas, WidthsPositive
<1>2. /\ Weight(k.volume, 0) \in Nat /\ LastVolume(k.volume, 0) \in Nat
  BY TickHas, Weighed
<1>3. k.price * Weight(k.volume, 0) \in Nat
  BY <1>2, TickHas
<1> DEFINE n == NewBar(k.at, w)
<1>4. b = [open |-> BucketStart(k.at, w), at |-> k.at, count |-> 1, first |-> k.price,
           high |-> k.price, low |-> k.price, close |-> k.price,
           volume |-> Weight(k.volume, 0), lastVolume |-> LastVolume(k.volume, 0),
           numer |-> k.price * Weight(k.volume, 0)]
  <2>1. /\ n \in [open : Int, at : Nat, count : Nat, first : Nat, high : Nat, low : Nat,
                 close : Nat, volume : Nat, lastVolume : Nat, numer : Nat]
        /\ n.open = BucketStart(k.at, w) /\ n.count = 0 /\ n.volume = 0
        /\ n.lastVolume = 0 /\ n.numer = 0
    BY <1>1, TickHas DEF NewBar
  <2> HIDE DEF n
  <2>2. b = AddTick(n, k)
    BY DEF n
  <2>3. b = [open |-> n.open, at |-> k.at, count |-> n.count + 1, first |-> k.price,
             high |-> k.price, low |-> k.price, close |-> k.price,
             volume |-> n.volume + Weight(k.volume, n.lastVolume),
             lastVolume |-> LastVolume(k.volume, n.lastVolume),
             numer |-> n.numer + k.price * Weight(k.volume, n.lastVolume)]
    BY <2>1, <2>2 DEF AddTick
  <2>4. /\ n.volume + Weight(k.volume, n.lastVolume) = Weight(k.volume, 0)
        /\ n.numer + k.price * Weight(k.volume, n.lastVolume) = k.price * Weight(k.volume, 0)
        /\ n.count + 1 = 1
    BY <1>2, <1>3, <2>1
  <2> QED
    BY <2>1, <2>3, <2>4
<1> QED
  BY <1>1, <1>2, <1>3, <1>4, TickHas DEF FramedBar, Bar

LEMMA TickAdds ==
  ASSUME NEW k \in Tick, NEW b \in FramedBar, NEW c, c = AddTick(b, k)
  PROVE  /\ c \in FramedBar
         /\ c.open = b.open /\ c.at = k.at /\ c.count = b.count + 1
         /\ c.volume = b.volume + Weight(k.volume, b.lastVolume)
         /\ c.lastVolume = LastVolume(k.volume, b.lastVolume)
<1> DEFINE weight == Weight(k.volume, b.lastVolume)
           high == IF k.price > b.high THEN k.price ELSE b.high
           low == IF k.price < b.low THEN k.price ELSE b.low
<1>1. /\ b \in Bar /\ b.count # 0 /\ b.high \in Nat /\ b.low \in Nat /\ b.count \in Nat
      /\ b.first \in Nat /\ b.close \in Nat
      /\ b.numer \in Nat /\ b.volume \in Nat /\ b.lastVolume \in Nat
      /\ b.low <= b.first /\ b.first <= b.high
      /\ b.low * b.volume <= b.numer /\ b.numer <= b.high * b.volume
  BY TickValues DEF FramedBar, Bar
<1>2. weight \in Nat /\ LastVolume(k.volume, b.lastVolume) \in Nat
  BY <1>1, TickHas, Weighed
<1>3. c = [open |-> b.open, at |-> k.at, count |-> b.count + 1, first |-> b.first,
           high |-> high, low |-> low, close |-> k.price,
           volume |-> b.volume + weight,
           lastVolume |-> LastVolume(k.volume, b.lastVolume),
           numer |-> b.numer + k.price * weight]
  BY <1>1 DEF AddTick, FramedBar, Bar
<1>4. /\ high \in Prices /\ low \in Prices /\ high \in Nat /\ low \in Nat
      /\ low <= b.low /\ low <= k.price /\ b.high <= high /\ k.price <= high
  BY <1>1, TickHas DEF FramedBar, Bar
<1> HIDE DEF weight, high, low
<1>5. /\ low * (b.volume + weight) <= b.numer + k.price * weight
      /\ b.numer + k.price * weight <= high * (b.volume + weight)
  BY <1>1, <1>2, <1>4, TickHas, MeanFramed
<1>6. k.price * weight \in Nat
  BY <1>2, TickHas
<1>7. /\ b.open \in Int /\ b.first \in Prices /\ k.at \in Nat /\ k.price \in Prices
      /\ low <= b.first /\ b.first <= high
  BY <1>1, <1>4, TickHas DEF FramedBar, Bar
<1>8. c \in Bar
  BY <1>1, <1>2, <1>3, <1>4, <1>6, <1>7 DEF Bar
<1> QED
  BY <1>2, <1>3, <1>4, <1>5, <1>7, <1>8 DEF FramedBar, weight

LEMMA NoBarIsNone == NoBar \notin Bar /\ NoBar \notin FramedBar
<1>1. NoBar.count = 0
  BY DEF NoBar
<1> QED
  BY <1>1 DEF FramedBar, Bar

LEMMA BarHas ==
  ASSUME NEW b \in FramedBar
  PROVE  b.open \in Int /\ b.at \in Nat /\ b.count \in Int
BY DEF FramedBar, Bar

LEMMA ConcatOne ==
  ASSUME NEW S, NEW q \in Seq(S), NEW b \in S
  PROVE  /\ q \o <<>> = q
         /\ q \o <<b>> = Append(q, b) /\ Append(q, b) \in Seq(S)
OBVIOUS

(* A step as one series sees it: a tick of its symbol, nothing, or Flush.  *)
LEMMA SeriesSteps ==
  ASSUME Framed, [Next]_vars, NEW s \in Series
  PROVE  /\ \/ \E k \in Tick :
                 /\ Update(k) /\ k.symbol = s[1]
                 /\ \/ Kept(s) /\ (bar[s] # NoBar \/ OrderPolicy = "reject_stale")
                    \/ Leaves(s) /\ OrderPolicy = "reject_stale"
                    \/ Grows(s, k) /\ (OrderPolicy = "reject_older" =>
                                         /\ ~ BucketStart(k.at, Width(s)) < bar[s].open
                                         /\ ~ BucketStart(k.at, Width(s)) > bar[s].open)
                    \/ Opens(s, k)
                    \/ Replaces(s, k) /\ \/ BucketStart(k.at, Width(s)) > bar[s].open
                                         \/ Idle(bar[s], k.at)
            \/ Kept(s) /\ latest'[s[1]] = latest[s[1]] /\ (bar[s] = NoBar \/ ~ Flush)
            \/ Leaves(s) /\ Flush
         /\ lastClosed'[s] \in Int
<1>0. /\ bar[s] \in FramedBar \union {NoBar} /\ emitted[s] \in Seq(FramedBar)
      /\ accepted[s] \in Nat /\ lastClosed[s] \in Int /\ Never \in Int
      /\ bar[s] # NoBar => bar[s] \in FramedBar /\ bar[s].open \in Int
  BY WidthsPositive DEF Framed, FramedBar, Bar, Never
<1>1. ASSUME NEW k \in Tick, Update(k), k.symbol = s[1]
      PROVE  /\ \/ Kept(s) /\ (bar[s] # NoBar \/ OrderPolicy = "reject_stale")
                \/ Leaves(s) /\ OrderPolicy = "reject_stale"
                \/ Grows(s, k) /\ (OrderPolicy = "reject_older" =>
                                     /\ ~ BucketStart(k.at, Width(s)) < bar[s].open
                                     /\ ~ BucketStart(k.at, Width(s)) > bar[s].open)
                \/ Opens(s, k)
                \/ Replaces(s, k) /\ \/ BucketStart(k.at, Width(s)) > bar[s].open
                                     \/ Idle(bar[s], k.at)
             /\ lastClosed'[s] \in Int
  <2> DEFINE r == Step(bar[s], lastClosed[s], Width(s), k)
  <2>1. /\ bar'[s] = r.bar /\ lastClosed'[s] = r.last
        /\ emitted'[s] = emitted[s] \o r.closed
        /\ accepted'[s] = accepted[s] + r.applied
    BY <1>1 DEF Update
  <2>2. PICK q : q = r
    OBVIOUS
  <2> HIDE DEF r
  <2>3. /\ bar'[s] = q.bar /\ lastClosed'[s] = q.last
        /\ emitted'[s] = emitted[s] \o q.closed
        /\ accepted'[s] = accepted[s] + q.applied
    BY <2>1, <2>2
  <2>4. q = Step(bar[s], lastClosed[s], Width(s), k)
    BY <2>2 DEF r
  <2> DEFINE b == bar[s]
             open == BucketStart(k.at, Width(s))
  <2>5. /\ \/ /\ q.bar = b /\ q.closed = <<>> /\ q.applied = 0
              /\ b # NoBar \/ OrderPolicy = "reject_stale"
           \/ /\ b # NoBar /\ q.bar = NoBar /\ q.closed = <<b>> /\ q.applied = 0
              /\ OrderPolicy = "reject_stale"
           \/ /\ b # NoBar /\ q.bar = AddTick(b, k) /\ q.closed = <<>> /\ q.applied = 1
              /\ OrderPolicy = "reject_older" => ~ open < b.open /\ ~ open > b.open
           \/ /\ b = NoBar /\ q.bar = AddTick(NewBar(k.at, Width(s)), k)
              /\ q.closed = <<>> /\ q.applied = 1
           \/ /\ b # NoBar /\ q.bar = AddTick(NewBar(k.at, Width(s)), k)
              /\ q.closed = <<b>> /\ q.applied = 1
              /\ open > b.open \/ Idle(b, k.at)
        /\ q.last = lastClosed[s] \/ (b # NoBar /\ q.last = b.open)
    BY <2>4, StepDoes
  <2>6. /\ emitted[s] \o <<>> = emitted[s]
        /\ b # NoBar => emitted[s] \o <<b>> = Append(emitted[s], b)
        /\ accepted[s] + 0 = accepted[s]
    BY <1>0, ConcatOne
  <2>7. lastClosed'[s] \in Int
    BY <1>0, <2>3, <2>5
  <2> QED
    BY <2>3, <2>5, <2>6, <2>7 DEF Kept, Leaves, Grows, Opens, Replaces, Ends
<1>2. ASSUME NEW k \in Tick, Update(k), k.symbol # s[1]
      PROVE  /\ Kept(s) /\ latest'[s[1]] = latest[s[1]] /\ lastClosed'[s] = lastClosed[s]
             /\ ~ Flush
  <2>1. latest' = [latest EXCEPT ![k.symbol] =
                     [at |-> k.at, volume |-> k.volume,
                      inOrder |-> /\ latest[k.symbol].inOrder
                                  /\ latest[k.symbol].at <= k.at
                                  /\ latest[k.symbol].volume <= k.volume]]
    BY <1>2 DEF Update
  <2>2. latest'[s[1]] = latest[s[1]]
    BY <1>2, <2>1
  <2>3. flushed' = flushed /\ ~ flushed
    BY <1>2 DEF Update
  <2> QED
    BY <1>2, <2>2, <2>3 DEF Update, Kept, Flush
<1>3. CASE Flush
  <2>1. /\ bar'[s] = NoBar /\ lastClosed'[s] = Never /\ latest' = latest
        /\ accepted' = accepted
        /\ emitted'[s] = IF bar[s] = NoBar THEN emitted[s] ELSE Append(emitted[s], bar[s])
    BY <1>3 DEF Flush
  <2> QED
    BY <1>0, <1>3, <2>1 DEF Kept, Leaves, Ends
<1>4. CASE UNCHANGED vars
  <2>1. /\ bar' = bar /\ emitted' = emitted /\ accepted' = accepted /\ latest' = latest
        /\ lastClosed' = lastClosed /\ flushed' = flushed
    BY <1>4 DEF vars
  <2>2. CASE bar[s] = NoBar
    BY <1>0, <2>1, <2>2 DEF Kept
  <2>3. ~ Flush
    BY <2>1 DEF Flush
  <2> QED
    BY <1>0, <2>1, <2>3 DEF Kept
<1> QED
  BY <1>0, <1>1, <1>2, <1>3, <1>4 DEF Next

LEMMA FramedInductive ==
  ASSUME Framed, [Next]_vars PROVE Framed'
<1>1. ASSUME NEW s \in Series
      PROVE  /\ bar'[s] \in FramedBar \union {NoBar}
             /\ emitted'[s] \in Seq(FramedBar)
             /\ accepted'[s] \in Nat
             /\ lastClosed'[s] \in Int
  <2>1. /\ bar[s] \in FramedBar \union {NoBar} /\ emitted[s] \in Seq(FramedBar)
        /\ accepted[s] \in Nat
    BY DEF Framed
  <2>2. Ends(s) => emitted'[s] \in Seq(FramedBar)
    BY <2>1, ConcatOne DEF Ends
  <2>3. ASSUME NEW k \in Tick
        PROVE  /\ AddTick(NewBar(k.at, Width(s)), k) \in FramedBar
               /\ bar[s] # NoBar => AddTick(bar[s], k) \in FramedBar
    BY <2>1, SeriesHas, TickOpens, TickAdds
  <2>4. accepted[s] + 1 \in Nat
    BY <2>1
  <2>5. Kept(s) \/ Leaves(s) \/ \E k \in Tick : Grows(s, k) \/ Opens(s, k) \/ Replaces(s, k)
    BY SeriesSteps
  <2>6. lastClosed'[s] \in Int
    BY SeriesSteps
  <2> QED
    BY <2>1, <2>2, <2>3, <2>4, <2>5, <2>6 DEF Kept, Leaves, Grows, Opens, Replaces
<1> DEFINE Shaped == /\ bar' = [s \in Series |-> bar'[s]]
                     /\ emitted' = [s \in Series |-> emitted'[s]]
                     /\ accepted' = [s \in Series |-> accepted'[s]]
                     /\ lastClosed' = [s \in Series |-> lastClosed'[s]]
                     /\ flushed' \in BOOLEAN /\ ticks' \in 0 .. MaxTicks
<1>2. Shaped
  <2>1. ASSUME NEW k \in Tick, Update(k) PROVE Shaped
    BY <2>1, TickBounds DEF Update, Framed
  <2>2. CASE Flush
    BY <2>2 DEF Flush, Framed
  <2>3. CASE UNCHANGED vars
    BY <2>3 DEF vars, Framed
  <2> QED
    BY <2>1, <2>2, <2>3 DEF Next
<1> QED
  BY <1>1, <1>2 DEF Framed

LEMMA FramedInit == Init => Framed
<1> SUFFICES ASSUME Init PROVE Framed
  OBVIOUS
<1>1. Never \in Int
  BY WidthsPositive DEF Never
<1>2. <<>> \in Seq(FramedBar)
  OBVIOUS
<1>3. 0 \in 0 .. MaxTicks
  BY TickBounds
<1>4. /\ bar = [s \in Series |-> NoBar] /\ lastClosed = [s \in Series |-> Never]
      /\ emitted = [s \in Series |-> <<>>] /\ accepted = [s \in Series |-> 0]
      /\ flushed = FALSE /\ ticks = 0
  BY DEF Init
<1> QED
  BY <1>1, <1>2, <1>3, <1>4 DEF Framed

LEMMA FramedAlways == Spec => []Framed
BY FramedInit, FramedInductive, PTL DEF Spec

LEMMA BarsFramed ==
  ASSUME Framed, NEW s \in Series
  PROVE  /\ Bars(s) \in Seq(FramedBar)
         /\ bar[s] = NoBar => Bars(s) = emitted[s]
         /\ bar[s] # NoBar => /\ Len(Bars(s)) = Len(emitted[s]) + 1
                              /\ Bars(s)[Len(Bars(s))] = bar[s]
                              /\ \A i \in 1 .. Len(emitted[s]) : Bars(s)[i] = emitted[s][i]
<1>1. emitted[s] \in Seq(FramedBar) /\ bar[s] \in FramedBar \union {NoBar}
  BY DEF Framed
<1>2. CASE bar[s] = NoBar
  BY <1>1, <1>2 DEF Bars
<1>3. CASE bar[s] # NoBar
  <2>1. Bars(s) = Append(emitted[s], bar[s]) /\ bar[s] \in FramedBar
    BY <1>1, <1>3 DEF Bars
  <2> QED
    BY <1>1, <1>3, <2>1
<1> QED
  BY <1>2, <1>3

(* The state of the aggregator is what its type says.                      *)
LEMMA FramedIsTyped == Framed => TypeOK
<1> SUFFICES ASSUME Framed PROVE TypeOK
  OBVIOUS
<1>1. \A b \in FramedBar : b \in Bar
  BY DEF FramedBar
<1>2. ASSUME NEW s \in Series
      PROVE  bar[s] \in Bar \union {NoBar} /\ emitted[s] \in Seq(Bar)
  <2>1. emitted[s] \in Seq(FramedBar) /\ bar[s] \in FramedBar \union {NoBar}
    BY DEF Framed
  <2>2. \A i \in 1 .. Len(emitted[s]) : emitted[s][i] \in Bar
    BY <1>1, <2>1
  <2> QED
    BY <1>1, <2>1, <2>2
<1> QED
  BY <1>2 DEF Framed, TypeOK

-----------------------------------------------------------------------------
(* While the ticks of a symbol come in order with a growing volume, the    *)
(* volume of its bar is the running total at the bar's last tick, which    *)
(* the latest tick is not behind.                                          *)
Telescoping ==
  /\ latest \in [Symbols -> [at : Nat, volume : Nat, inOrder : BOOLEAN]]
  /\ VolumeMode = "cumulative" =>
       \A s \in Series :
         latest[s[1]].inOrder /\ bar[s] # NoBar =>
           /\ bar[s].volume = bar[s].lastVolume
           /\ bar[s].lastVolume <= latest[s[1]].volume

LEMMA Telescopes ==
  ASSUME VolumeMode = "cumulative", NEW v \in Nat, NEW last \in Nat, last <= v
  PROVE  /\ last + Weight(v, last) = LastVolume(v, last)
         /\ LastVolume(v, last) <= v
<1>1. CASE v = last
  BY <1>1 DEF Weight, LastVolume
<1>2. CASE v > last
  <2>1. Weight(v, last) = v - last
    BY <1>2 DEF Weight
  <2>2. LastVolume(v, last) = v
    BY <1>2 DEF LastVolume
  <2> QED
    BY <2>1, <2>2
<1> QED
  BY <1>1, <1>2

LEMMA TelescopingInductive ==
  ASSUME Framed, Telescoping, [Next]_vars PROVE Telescoping'
<1>1. latest' \in [Symbols -> [at : Nat, volume : Nat, inOrder : BOOLEAN]]
  <2>1. ASSUME NEW k \in Tick, Update(k)
        PROVE  latest' \in [Symbols -> [at : Nat, volume : Nat, inOrder : BOOLEAN]]
    <3>1. latest' = [latest EXCEPT ![k.symbol] =
                       [at |-> k.at, volume |-> k.volume,
                        inOrder |-> /\ latest[k.symbol].inOrder
                                    /\ latest[k.symbol].at <= k.at
                                    /\ latest[k.symbol].volume <= k.volume]]
      BY <2>1 DEF Update
    <3> QED
      BY <3>1, TickHas DEF Telescoping
  <2>2. CASE UNCHANGED latest
    BY <2>2 DEF Telescoping
  <2> QED
    BY <2>1, <2>2 DEF Next, Flush, vars
<1>2. ASSUME VolumeMode = "cumulative", NEW s \in Series,
             latest'[s[1]].inOrder, bar'[s] # NoBar
      PROVE  /\ bar'[s].volume = bar'[s].lastVolume
             /\ bar'[s].lastVolume <= latest'[s[1]].volume
  <2> DEFINE Goal == /\ bar'[s].volume = bar'[s].lastVolume
                     /\ bar'[s].lastVolume <= latest'[s[1]].volume
  <2>1. /\ bar[s] # NoBar => /\ bar[s] \in FramedBar
                             /\ bar[s].volume \in Nat /\ bar[s].lastVolume \in Nat
        /\ s[1] \in Symbols /\ Width(s) \in Timeframes
        /\ latest[s[1]].volume \in Nat
    BY SeriesHas DEF Framed, FramedBar, Bar, Telescoping
  <2>2. ASSUME NEW k \in Tick, Update(k), k.symbol = s[1]
        PROVE  /\ latest[s[1]].inOrder /\ latest[s[1]].volume <= k.volume
               /\ latest'[s[1]].volume = k.volume
    <3>1. latest' = [latest EXCEPT ![k.symbol] =
                       [at |-> k.at, volume |-> k.volume,
                        inOrder |-> /\ latest[k.symbol].inOrder
                                    /\ latest[k.symbol].at <= k.at
                                    /\ latest[k.symbol].volume <= k.volume]]
      BY <2>2 DEF Update
    <3>2. latest'[s[1]] = [at |-> k.at, volume |-> k.volume,
                           inOrder |-> /\ latest[k.symbol].inOrder
                                       /\ latest[k.symbol].at <= k.at
                                       /\ latest[k.symbol].volume <= k.volume]
      BY <2>1, <2>2, <3>1 DEF Telescoping
    <3> QED
      BY <1>2, <2>2, <3>2
  <2>3. ASSUME NEW k \in Tick, Update(k), k.symbol = s[1], Kept(s)
        PROVE  Goal
    <3>1. /\ bar[s].volume = bar[s].lastVolume
          /\ bar[s].lastVolume <= latest[s[1]].volume
      BY <1>2, <2>2, <2>3 DEF Kept, Telescoping
    <3> QED
      BY <1>2, <2>1, <2>2, <2>3, <3>1, TickHas DEF Kept
  <2>4. ASSUME NEW k \in Tick, Update(k), k.symbol = s[1], Grows(s, k)
        PROVE  Goal
    <3>1. /\ bar[s] # NoBar /\ bar'[s] = AddTick(bar[s], k)
          /\ bar[s].volume = bar[s].lastVolume
          /\ bar[s].lastVolume <= latest[s[1]].volume
      BY <1>2, <2>2, <2>4 DEF Grows, Telescoping
    <3>2. /\ bar'[s].volume = bar[s].volume + Weight(k.volume, bar[s].lastVolume)
          /\ bar'[s].lastVolume = LastVolume(k.volume, bar[s].lastVolume)
      BY <2>1, <3>1, TickAdds
    <3>3. bar[s].lastVolume <= k.volume /\ k.volume \in Nat
      BY <2>1, <2>2, <2>4, <3>1, TickHas
    <3> QED
      BY <1>2, <2>1, <2>2, <2>4, <3>1, <3>2, <3>3, Telescopes
  <2>5. ASSUME NEW k \in Tick, Update(k), k.symbol = s[1],
               bar'[s] = AddTick(NewBar(k.at, Width(s)), k)
        PROVE  Goal
    <3>1. /\ bar'[s].volume = Weight(k.volume, 0)
          /\ bar'[s].lastVolume = LastVolume(k.volume, 0)
      BY <2>1, <2>5, TickOpens
    <3>2. 0 <= k.volume /\ k.volume \in Nat
      BY TickHas
    <3>3. 0 + Weight(k.volume, 0) = LastVolume(k.volume, 0) /\ LastVolume(k.volume, 0) <= k.volume
      BY <1>2, <3>2, Telescopes
    <3>4. Weight(k.volume, 0) \in Nat
      BY <3>2, Weighed
    <3> QED
      BY <2>2, <2>5, <3>1, <3>2, <3>3, <3>4
  <2>6. ASSUME Kept(s), latest'[s[1]] = latest[s[1]] PROVE Goal
    BY <1>2, <2>6 DEF Kept, Telescoping
  <2> HIDE DEF Goal
  <2>7. ~ Leaves(s)
    BY <1>2 DEF Leaves
  <2> QED
    <3>1. Goal
      BY <2>3, <2>4, <2>5, <2>6, <2>7, SeriesSteps DEF Opens, Replaces
    <3> QED
      BY <3>1 DEF Goal
<1> QED
  BY <1>1, <1>2 DEF Telescoping

(* What a bar says of its ticks fits together, whatever mix of zero,       *)
(* repeated, growing and shrinking volumes they carried. (barBuilder       *)
(* addTick, tickWeight.)                                                   *)
THEOREM BarsFit == Spec => []BarsConsistent
<1>1. Init => Telescoping
  <2> SUFFICES ASSUME Init PROVE Telescoping
    OBVIOUS
  <2>1. bar = [s \in Series |-> NoBar]
        /\ latest = [y \in Symbols |-> [at |-> 0, volume |-> 0, inOrder |-> TRUE]]
    BY DEF Init
  <2> QED
    BY <2>1 DEF Telescoping
<1>2. Framed => BarConsistent
  <2> SUFFICES ASSUME Framed, NEW s \in Series, NEW i \in 1 .. Len(Bars(s))
               PROVE  Bars(s)[i] \in FramedBar
    BY DEF BarConsistent, FramedBar
  <2> QED
    BY BarsFramed
<1>3. Telescoping => BarVolumeTelescopes
  BY DEF Telescoping, BarVolumeTelescopes
<1> QED
  BY <1>1, <1>2, <1>3, FramedAlways, TelescopingInductive, PTL DEF Spec, BarsConsistent

-----------------------------------------------------------------------------
(* Ticks counted in the bars of a series.                                  *)
Counts(q) == [i \in DOMAIN q |-> q[i].count]
TicksIn(q) == SumFunctionOnSet(Counts(q), DOMAIN q)

LEMMA TicksInAppend ==
  ASSUME NEW q \in Seq(FramedBar), NEW b \in FramedBar
  PROVE  TicksIn(Append(q, b)) = TicksIn(q) + b.count /\ TicksIn(q) \in Int
<1> DEFINE r == Append(q, b)
           n == Len(q)
<1>1. /\ n \in Nat /\ DOMAIN q = 1 .. n /\ DOMAIN r = 1 .. n + 1
      /\ \A i \in 1 .. n : r[i] = q[i] /\ q[i] \in FramedBar
      /\ r[n + 1] = b
  OBVIOUS
<1> HIDE DEF r, n
<1>2. /\ \A i \in 1 .. n : Counts(r)[i] = Counts(q)[i] /\ Counts(q)[i] \in Int
      /\ Counts(r)[n + 1] = b.count /\ b.count \in Int
  BY <1>1, BarHas DEF Counts
<1>3. /\ 1 .. n + 1 = (1 .. n) \union {n + 1} /\ n + 1 \notin 1 .. n
      /\ IsFiniteSet(1 .. n)
  <2>1. 1 .. n + 1 = (1 .. n) \union {n + 1} /\ n + 1 \notin 1 .. n
    BY <1>1
  <2>2. IsFiniteSet(1 .. n)
    BY <1>1, FS_Interval
  <2> QED
    BY <2>1, <2>2
<1>4. \A i \in (1 .. n) \union {n + 1} : Counts(r)[i] \in Int
  BY <1>2
<1>5. SumFunctionOnSet(Counts(r), (1 .. n) \union {n + 1})
        = Counts(r)[n + 1] + SumFunctionOnSet(Counts(r), 1 .. n)
  BY <1>3, <1>4, SumAdd
<1>6. SumFunctionOnSet(Counts(r), 1 .. n) = SumFunctionOnSet(Counts(q), 1 .. n)
  <2>1. \A i \in 1 .. n : Counts(r)[i] = Counts(q)[i]
    BY <1>2
  <2> QED
    BY <1>3, <2>1, SumSame
<1>7. SumFunctionOnSet(Counts(q), 1 .. n) \in Int
  BY <1>2, <1>3, SumInt
<1>8. /\ TicksIn(r) = SumFunctionOnSet(Counts(r), (1 .. n) \union {n + 1})
      /\ TicksIn(q) = SumFunctionOnSet(Counts(q), 1 .. n)
  BY <1>1, <1>3 DEF TicksIn
<1>9. b.count \in Int
  BY BarHas
<1> QED
  BY <1>2, <1>5, <1>6, <1>7, <1>8, <1>9 DEF r

LEMMA TicksInInt == ASSUME NEW q \in Seq(FramedBar) PROVE TicksIn(q) \in Int
<1>1. IsFiniteSet(DOMAIN q)
  <2>1. DOMAIN q = 1 .. Len(q) /\ Len(q) \in Nat
    OBVIOUS
  <2> QED
    BY <2>1, FS_Interval
<1>2. \A i \in DOMAIN q : q[i] \in FramedBar
  OBVIOUS
<1>3. \A i \in DOMAIN q : Counts(q)[i] \in Int
  BY <1>2 DEF Counts, FramedBar, Bar
<1> QED
  BY <1>1, <1>3, SumInt DEF TicksIn

(* Every tick applied is in a bar that was closed, or in the one in        *)
(* progress.                                                               *)
Current(s) == IF bar[s] = NoBar THEN 0 ELSE bar[s].count
Counted == \A s \in Series : accepted[s] = TicksIn(emitted[s]) + Current(s)

LEMMA CountedInductive ==
  ASSUME Framed, Counted, [Next]_vars PROVE Counted'
<1> SUFFICES ASSUME NEW s \in Series
             PROVE  accepted'[s] = TicksIn(emitted'[s]) + Current(s)'
  BY DEF Counted
<1>1. /\ bar[s] \in FramedBar \union {NoBar} /\ emitted[s] \in Seq(FramedBar)
      /\ accepted[s] = TicksIn(emitted[s]) + Current(s)
  BY DEF Framed, Counted
<1>2. /\ Current(s) \in Int
      /\ bar[s] # NoBar => /\ bar[s] \in FramedBar /\ Current(s) = bar[s].count
                           /\ TicksIn(Append(emitted[s], bar[s]))
                                = TicksIn(emitted[s]) + bar[s].count
  BY <1>1, TicksInAppend, BarHas DEF Current
<1>3. TicksIn(emitted[s]) \in Int
  BY <1>1, TicksInInt
<1>4. Ends(s) => TicksIn(emitted'[s]) = TicksIn(emitted[s]) + Current(s)
  BY <1>2 DEF Ends
<1>5. CASE Kept(s)
  BY <1>1, <1>5 DEF Kept, Current
<1>6. CASE Leaves(s)
  BY <1>1, <1>2, <1>3, <1>4, <1>6 DEF Leaves, Current
<1>7. ASSUME NEW k \in Tick, Grows(s, k)
      PROVE  accepted'[s] = TicksIn(emitted'[s]) + Current(s)'
  <2>1. bar'[s] \in FramedBar /\ bar'[s].count = bar[s].count + 1
    BY <1>2, <1>7, TickAdds DEF Grows
  <2>2. Current(s)' = Current(s) + 1
    BY <1>2, <1>7, <2>1, NoBarIsNone DEF Current, Grows
  <2> QED
    BY <1>1, <1>2, <1>3, <1>7, <2>2 DEF Grows
<1>8. ASSUME NEW k \in Tick, bar'[s] = AddTick(NewBar(k.at, Width(s)), k)
      PROVE  Current(s)' = 1
  <2>1. bar'[s] \in FramedBar /\ bar'[s].count = 1
    BY <1>8, SeriesHas, TickOpens
  <2> QED
    BY <2>1, NoBarIsNone DEF Current
<1>9. ASSUME NEW k \in Tick, Opens(s, k)
      PROVE  accepted'[s] = TicksIn(emitted'[s]) + Current(s)'
  BY <1>1, <1>3, <1>8, <1>9 DEF Opens, Current
<1>10. ASSUME NEW k \in Tick, Replaces(s, k)
       PROVE  accepted'[s] = TicksIn(emitted'[s]) + Current(s)'
  BY <1>1, <1>2, <1>3, <1>4, <1>8, <1>10 DEF Replaces
<1> QED
  BY <1>5, <1>6, <1>7, <1>9, <1>10, SeriesSteps

-----------------------------------------------------------------------------
(* What keeps the buckets apart: the shipped order policy, which rolls     *)
(* bars over, and no eviction of a bar whose bucket may not be over.       *)
(* (configs/config.yaml: reject_older, and no eviction.)                   *)
KeepsBars ==
  /\ OrderPolicy = "reject_older"
  /\ IdleEvict = 0 \/ \A w \in Timeframes : w <= IdleEvict + 1

Within(b, w) == b.open <= b.at /\ b.at < b.open + w

(* The bars closed are in the order of their buckets and before the one in *)
(* progress; there always is one in progress, before the engine flushes,   *)
(* once one has been closed.                                               *)
Ordered(s) ==
  /\ bar[s] # NoBar => Within(bar[s], Width(s))
  /\ \A i \in 1 .. Len(emitted[s]) :
       /\ Within(emitted[s][i], Width(s))
       /\ bar[s] # NoBar => emitted[s][i].open < bar[s].open
  /\ \A i, j \in 1 .. Len(emitted[s]) : i < j => emitted[s][i].open < emitted[s][j].open
  /\ bar[s] = NoBar /\ ~ flushed => emitted[s] = <<>>

AllOrdered == \A s \in Series : Ordered(s)

(* A bar closed to make room for that of a later bucket.                   *)
LEMMA LaterBucket ==
  ASSUME KeepsBars, NEW s \in Series, NEW b \in FramedBar, Within(b, Width(s)),
         NEW k \in Tick, BucketStart(k.at, Width(s)) > b.open \/ Idle(b, k.at)
  PROVE  b.open < BucketStart(k.at, Width(s))
<1> DEFINE w == Width(s)
           t == k.at
           open == BucketStart(k.at, w)
<1>1. /\ w \in Timeframes /\ w \in Nat \ {0} /\ t \in Nat /\ IdleEvict \in Nat
      /\ b.open \in Int /\ b.at \in Nat
  BY SeriesHas, TickHas, EvictNat DEF FramedBar, Bar
<1>2. open \in Int /\ open <= t /\ t < open + w
  BY <1>1, InBucket
<1>3. CASE open > b.open
  BY <1>1, <1>2, <1>3
<1>4. CASE Idle(b, k.at)
  <2>1. t - b.at > IdleEvict /\ w <= IdleEvict + 1
    BY <1>1, <1>4 DEF Idle, KeepsBars
  <2>2. b.open <= b.at
    BY DEF Within
  <2> HIDE DEF w, t, open
  <2>3. b.open < open
    BY <1>1, <1>2, <2>1, <2>2
  <2> QED
    BY <2>3 DEF open, w
<1> QED
  BY <1>3, <1>4

LEMMA OrderedAppend ==
  ASSUME Framed, NEW s \in Series, Ordered(s), Ends(s)
  PROVE  /\ \A i \in 1 .. Len(emitted'[s]) :
              /\ Within(emitted'[s][i], Width(s))
              /\ emitted'[s][i].open <= bar[s].open
         /\ \A i, j \in 1 .. Len(emitted'[s]) :
              i < j => emitted'[s][i].open < emitted'[s][j].open
<1> DEFINE n == Len(emitted[s])
           e == emitted[s]
           f == emitted'[s]
           b == bar[s]
<1>1. /\ e \in Seq(FramedBar) /\ b \in FramedBar /\ f = Append(e, b)
      /\ b.open \in Int
  BY DEF Framed, Ends, FramedBar, Bar
<1>2. /\ n \in Nat /\ Len(f) = n + 1 /\ f[n + 1] = b
      /\ \A i \in 1 .. n : f[i] = e[i] /\ e[i] \in FramedBar
  BY <1>1
<1>3. /\ \A i \in 1 .. n : /\ Within(f[i], Width(s)) /\ f[i].open < b.open
                           /\ f[i].open \in Int
      /\ Within(b, Width(s))
      /\ \A i, j \in 1 .. n : i < j => f[i].open < f[j].open
  BY <1>2 DEF Ordered, Ends, FramedBar, Bar
<1>4. \A i \in 1 .. n + 1 : i \in 1 .. n \/ i = n + 1
  BY <1>2
<1> HIDE DEF n, e, f, b
<1>5. \A i \in 1 .. n + 1 : Within(f[i], Width(s)) /\ f[i].open <= b.open
  BY <1>1, <1>2, <1>3, <1>4
<1>6. ASSUME NEW i \in 1 .. n + 1, NEW j \in 1 .. n + 1, i < j
      PROVE  f[i].open < f[j].open
  <2>1. i \in 1 .. n
    BY <1>2, <1>6
  <2> QED
    BY <1>2, <1>3, <1>4, <1>6, <2>1
<1> QED
  BY <1>2, <1>5, <1>6 DEF f, b

LEMMA OrderedInductive ==
  ASSUME KeepsBars, Framed, AllOrdered, [Next]_vars PROVE AllOrdered'
<1> SUFFICES ASSUME NEW s \in Series PROVE Ordered(s)'
  BY DEF AllOrdered
<1>1. /\ bar[s] \in FramedBar \union {NoBar} /\ emitted[s] \in Seq(FramedBar)
      /\ Ordered(s) /\ OrderPolicy = "reject_older"
      /\ Width(s) \in Timeframes /\ Width(s) \in Nat \ {0}
      /\ emitted'[s] \in Seq(FramedBar)
  BY FramedInductive, SeriesHas DEF Framed, AllOrdered, KeepsBars
<1>2. ~ flushed' => ~ flushed
  BY DEF Next, Update, Flush, vars
<1>3. CASE Kept(s)
  BY <1>1, <1>2, <1>3 DEF Kept, Ordered
<1>4. CASE Leaves(s) /\ Flush
  <2>1. flushed' = TRUE /\ bar'[s] = NoBar /\ Ends(s)
    BY <1>4 DEF Flush, Leaves
  <2> QED
    BY <1>1, <2>1, OrderedAppend DEF Ordered
<1>5. ASSUME NEW k \in Tick, bar'[s] = AddTick(NewBar(k.at, Width(s)), k)
      PROVE  /\ bar'[s] \in FramedBar /\ bar'[s] # NoBar
             /\ bar'[s].open = BucketStart(k.at, Width(s))
             /\ Within(bar'[s], Width(s))
  <2>1. /\ bar'[s] \in FramedBar /\ bar'[s].open = BucketStart(k.at, Width(s))
        /\ bar'[s].at = k.at
    BY <1>1, <1>5, TickOpens
  <2> QED
    BY <1>1, <2>1, InBucket, TickHas, NoBarIsNone DEF Within
<1>6. ASSUME NEW k \in Tick, Opens(s, k), Update(k) PROVE Ordered(s)'
  <2>1. emitted'[s] = <<>>
    BY <1>1, <1>6 DEF Opens, Ordered, Update
  <2> QED
    BY <1>5, <1>6, <2>1 DEF Opens, Ordered
<1>7. ASSUME NEW k \in Tick, Replaces(s, k),
             BucketStart(k.at, Width(s)) > bar[s].open \/ Idle(bar[s], k.at)
      PROVE  Ordered(s)'
  <2>1. Ends(s) /\ bar[s] \in FramedBar /\ Within(bar[s], Width(s))
    BY <1>1, <1>7 DEF Replaces, Ends, Ordered
  <2>2. bar[s].open < BucketStart(k.at, Width(s))
    BY <1>7, <2>1, LaterBucket
  <2>3. /\ bar'[s] \in FramedBar /\ bar'[s] # NoBar /\ Within(bar'[s], Width(s))
        /\ bar[s].open < bar'[s].open
    BY <1>5, <1>7, <2>2 DEF Replaces
  <2>4. \A i \in 1 .. Len(emitted'[s]) : emitted'[s][i].open < bar'[s].open
    <3>1. \A i \in 1 .. Len(emitted'[s]) : /\ emitted'[s][i].open <= bar[s].open
                                           /\ emitted'[s][i] \in FramedBar
      BY <1>1, <2>1, OrderedAppend
    <3> QED
      BY <2>1, <2>3, <3>1, BarHas
  <2> QED
    BY <1>1, <2>1, <2>3, <2>4, OrderedAppend DEF Ordered
<1>8. ASSUME NEW k \in Tick, Grows(s, k),
             ~ BucketStart(k.at, Width(s)) < bar[s].open,
             ~ BucketStart(k.at, Width(s)) > bar[s].open
      PROVE  Ordered(s)'
  <2>1. /\ bar[s] \in FramedBar /\ bar'[s] \in FramedBar
        /\ bar'[s].open = bar[s].open /\ bar'[s].at = k.at
    BY <1>1, <1>8, TickAdds DEF Grows
  <2>2. bar[s].open \in Int /\ BucketStart(k.at, Width(s)) \in Int
    BY <1>1, <2>1, InBucket, TickHas DEF FramedBar, Bar
  <2>3. BucketStart(k.at, Width(s)) = bar[s].open
    BY <1>8, <2>2
  <2>4. Within(bar'[s], Width(s))
    BY <1>1, <2>1, <2>3, InBucket, TickHas DEF Within
  <2>5. bar'[s] # NoBar /\ bar[s] # NoBar /\ emitted'[s] = emitted[s]
    BY <1>8, <2>1, NoBarIsNone DEF Grows
  <2> QED
    BY <1>1, <2>1, <2>4, <2>5 DEF Ordered
<1> QED
  BY <1>1, <1>3, <1>4, <1>6, <1>7, <1>8, SeriesSteps

(* However ticks are ordered, dropped behind, evicted or flushed, each     *)
(* accepted one is in exactly one bar, that of its bucket, and downstream  *)
(* hears of each bucket once, in order. (Aggregator.Update, Flush.)        *)
THEOREM EachTickKept == KeepsBars => (Spec => []EachTickInItsBar)
<1> SUFFICES ASSUME KeepsBars PROVE Spec => []EachTickInItsBar
  OBVIOUS
<1>1. Init => Counted /\ AllOrdered
  <2> SUFFICES ASSUME Init, NEW s \in Series
               PROVE  accepted[s] = TicksIn(emitted[s]) + Current(s) /\ Ordered(s)
    BY DEF Counted, AllOrdered
  <2>1. bar[s] = NoBar /\ emitted[s] = <<>> /\ accepted[s] = 0
    BY DEF Init
  <2>2. TicksIn(<<>>) = 0
    BY SumEmpty DEF TicksIn
  <2> QED
    BY <2>1, <2>2 DEF Current, Ordered
<1>2. KeepsBars /\ Framed /\ AllOrdered /\ [Next]_vars => AllOrdered'
  BY OrderedInductive
<1>3. Framed /\ Counted => TicksInBars
  <2> SUFFICES ASSUME Framed, Counted, NEW s \in Series
               PROVE  accepted[s] = TicksIn(Bars(s))
    BY DEF TicksInBars, TicksIn, Counts
  <2>1. bar[s] \in FramedBar \union {NoBar} /\ emitted[s] \in Seq(FramedBar)
    BY DEF Framed
  <2> QED
    BY <2>1, TicksInAppend, TicksInInt DEF Counted, Current, Bars
<1>4. Framed /\ AllOrdered => TicksInTheirBucket /\ OncePerBucket
  <2> SUFFICES ASSUME Framed, AllOrdered, NEW s \in Series
               PROVE  /\ \A i \in 1 .. Len(Bars(s)) : Within(Bars(s)[i], Width(s))
                      /\ \A i, j \in 1 .. Len(Bars(s)) :
                           i < j => Bars(s)[i].open < Bars(s)[j].open
    BY DEF TicksInTheirBucket, OncePerBucket, Within
  <2>1. Ordered(s) /\ emitted[s] \in Seq(FramedBar)
    BY DEF AllOrdered, Framed
  <2>2. CASE bar[s] = NoBar
    BY <2>1, <2>2, BarsFramed DEF Ordered
  <2>3. CASE bar[s] # NoBar
    <3> DEFINE n == Len(emitted[s])
    <3>1. /\ n \in Nat /\ Len(Bars(s)) = n + 1 /\ Bars(s)[n + 1] = bar[s]
          /\ \A i \in 1 .. n : Bars(s)[i] = emitted[s][i]
      BY <2>1, <2>3, BarsFramed
    <3>2. /\ Within(bar[s], Width(s))
          /\ \A i \in 1 .. n : /\ Within(Bars(s)[i], Width(s))
                               /\ Bars(s)[i].open < bar[s].open
          /\ \A i, j \in 1 .. n : i < j => Bars(s)[i].open < Bars(s)[j].open
      BY <2>1, <2>3, <3>1 DEF Ordered
    <3>3. \A i \in 1 .. n + 1 : i \in 1 .. n \/ i = n + 1
      BY <3>1
    <3> HIDE DEF n
    <3>4. ASSUME NEW i \in 1 .. n + 1, NEW j \in 1 .. n + 1, i < j
          PROVE  Bars(s)[i].open < Bars(s)[j].open
      <4>1. i \in 1 .. n
        BY <3>1, <3>4
      <4> QED
        BY <3>1, <3>2, <3>3, <3>4, <4>1
    <3> QED
      BY <3>1, <3>2, <3>3, <3>4
  <2> QED
    BY <2>2, <2>3
<1>5. Framed => TypeOK
  BY FramedIsTyped
<1> QED
  BY <1>1, <1>2, <1>3, <1>4, <1>5, FramedAlways, CountedInductive, PTL
     DEF Spec, EachTickInItsBar

-----------------------------------------------------------------------------
(* Behind the aggregator its bars are published and read; to it, that is   *)
(* nothing. So what the run of the chain checks of the bars holds in it.   *)
LEMMA ChainAggregates == AnalyticsSpec => Spec
<1>1. AnalyticsInit => Init
  BY DEF AnalyticsInit
<1>2. [AnalyticsNext]_allVars => [Next]_vars
  <2> SUFFICES ASSUME [AnalyticsNext]_allVars PROVE [Next]_vars
    OBVIOUS
  <2>1. TicksOf(market) \subseteq Tick
    BY DEF TicksOf
  <2>2. CASE Ingest
    BY <2>1, <2>2 DEF Ingest, Next
  <2>3. CASE CloseEngine
    BY <2>3 DEF CloseEngine, Next
  <2>4. CASE UNCHANGED candleVars
    BY <2>4 DEF candleVars, vars
  <2> QED
    BY <2>2, <2>3, <2>4
       DEF AnalyticsNext, PublishCandle, TakeCandle, PublishValue, TakeValue, allVars
<1> QED
  BY <1>1, <1>2, PTL DEF AnalyticsSpec, Spec

(* In the analytics chain bars fit together, and under the shipped         *)
(* policies every tick accepted is in the one bar of its bucket, whatever  *)
(* the engines behind the aggregator do.                                   *)
THEOREM ChainBarsFit == AnalyticsSpec => []BarsConsistent
BY ChainAggregates, BarsFit, PTL

THEOREM ChainKeepsTicks == KeepsBars => (AnalyticsSpec => []EachTickInItsBar)
BY ChainAggregates, EachTickKept, PTL
=============================================================================
