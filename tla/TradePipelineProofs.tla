------------------------- MODULE TradePipelineProofs -------------------------
(***************************************************************************)
(* The engines of the trade path agree, for any series, signals, enabled   *)
(* strategies, limits, prices and buffer sizes.                            *)
(***************************************************************************)
EXTENDS TradePipeline, Functions, FiniteSetTheorems, FunctionTheorems, SequenceTheorems, WellFoundedInduction,
        TLAPS

-----------------------------------------------------------------------------
(***************************************************************************)
(* What SumFunctionOnSet(f, S) of the community modules computes over a    *)
(* finite set S. It is a recursive function over the subsets of S that     *)
(* takes out an element of its choice. That there is one such function,    *)
(* and that the choice does not matter, is shown on a smallest set for     *)
(* which it would not be so.                                               *)
(***************************************************************************)
Chosen(s) == CHOOSE x \in s : TRUE

(* g is the function that adds up f over the subsets of S.                 *)
AddsUp(g, f, S) ==
  g = [s \in SUBSET S |-> IF s = {} THEN 0
                          ELSE f[Chosen(s)] + g[s \ {Chosen(s)}]]

LEMMA ChosenIn == ASSUME NEW s, s # {} PROVE Chosen(s) \in s
BY DEF Chosen

(* A family of subsets of a finite set has a smallest member.              *)
LEMMA Smallest ==
  ASSUME NEW S, IsFiniteSet(S), NEW T, T \subseteq SUBSET S, T # {}
  PROVE  \E t \in T : \A u \in T : ~ (u \subseteq t /\ u # t)
<1>1. IsWellFoundedOn(StrictSubsetOrdering(S), FiniteSubsetsOf(S))
  BY FS_StrictSubsetOrderingWellFounded
<1>2. T \subseteq FiniteSubsetsOf(S)
  BY FS_Subset DEF FiniteSubsetsOf
<1>3. PICK t \in T : \A u \in T : <<u, t>> \notin StrictSubsetOrdering(S)
  BY <1>1, <1>2, WFMin
<1> QED
  BY <1>3 DEF StrictSubsetOrdering

(* The functions that add up f over the subsets of S are the same.         *)
LEMMA OneSum ==
  ASSUME NEW f, NEW S, IsFiniteSet(S), NEW g, NEW h, AddsUp(g, f, S), AddsUp(h, f, S)
  PROVE  g = h
<1> DEFINE T == {t \in SUBSET S : g[t] # h[t]}
<1>1. SUFFICES ASSUME T # {} PROVE FALSE
  BY DEF AddsUp
<1>2. PICK t \in T : \A u \in T : ~ (u \subseteq t /\ u # t)
  <2>1. T \subseteq SUBSET S
    OBVIOUS
  <2> HIDE DEF T
  <2> QED
    BY <1>1, <2>1, Smallest
<1>3. t # {}
  BY DEF AddsUp
<1>4. /\ t \ {Chosen(t)} \subseteq t /\ t \ {Chosen(t)} # t
      /\ t \ {Chosen(t)} \in SUBSET S
  BY <1>3, ChosenIn
<1>5. g[t \ {Chosen(t)}] = h[t \ {Chosen(t)}]
  BY <1>2, <1>4
<1>6. g[t] = f[Chosen(t)] + g[t \ {Chosen(t)}]
  BY <1>3 DEF AddsUp
<1>7. h[t] = f[Chosen(t)] + h[t \ {Chosen(t)}]
  BY <1>3 DEF AddsUp
<1> QED
  BY <1>5, <1>6, <1>7

(* SumFunctionOnSet is such a function's value at S.                       *)
LEMMA SumIsValue ==
  ASSUME NEW f, NEW S
  PROVE  SumFunctionOnSet(f, S) = (CHOOSE g : AddsUp(g, f, S))[S]
BY DEF SumFunctionOnSet, FoldFunctionOnSet, MapThenFoldSet, AddsUp, Chosen

(* The sums over the subsets of a finite set are such a function.          *)
LEMMA SumsAddUp ==
  ASSUME NEW f, NEW S, IsFiniteSet(S)
  PROVE  AddsUp([s \in SUBSET S |-> SumFunctionOnSet(f, s)], f, S)
<1> DEFINE Sums(s) == [t \in SUBSET s |-> SumFunctionOnSet(f, t)]
           T == {s \in SUBSET S : ~ AddsUp(Sums(s), f, s)}
<1>1. SUFFICES ASSUME T # {} PROVE FALSE
  OBVIOUS
<1>2. PICK s \in T : \A u \in T : ~ (u \subseteq s /\ u # s)
  <2>1. T \subseteq SUBSET S
    OBVIOUS
  <2> HIDE DEF T
  <2> QED
    BY <1>1, <2>1, Smallest
<1>3. s \in SUBSET S /\ IsFiniteSet(s) /\ ~ AddsUp(Sums(s), f, s)
  BY FS_Subset
<1>4. ASSUME NEW t \in SUBSET s, t # s
      PROVE  SumFunctionOnSet(f, t) =
               IF t = {} THEN 0
               ELSE f[Chosen(t)] + SumFunctionOnSet(f, t \ {Chosen(t)})
  <2>1. t \in SUBSET S /\ t \notin T
    BY <1>2, <1>3, <1>4
  <2>2. AddsUp(Sums(t), f, t)
    BY <2>1
  <2>3. t \in SUBSET t /\ t \ {Chosen(t)} \in SUBSET t
    OBVIOUS
  <2>4. Sums(t)[t] = IF t = {} THEN 0
                     ELSE f[Chosen(t)] + Sums(t)[t \ {Chosen(t)}]
    BY <2>2, <2>3 DEF AddsUp
  <2> QED
    BY <2>3, <2>4
<1> DEFINE g == [t \in SUBSET s |->
                   IF t = {} THEN 0
                   ELSE f[Chosen(t)] + SumFunctionOnSet(f, t \ {Chosen(t)})]
<1>5. ASSUME NEW t \in SUBSET s, t # {}
      PROVE  g[t \ {Chosen(t)}] = SumFunctionOnSet(f, t \ {Chosen(t)})
  <2>1. t \ {Chosen(t)} \in SUBSET s /\ t \ {Chosen(t)} # s
    BY <1>5, ChosenIn
  <2> QED
    BY <1>4, <2>1
<1>6. AddsUp(g, f, s)
  BY <1>5 DEF AddsUp
<1>7. (CHOOSE h : AddsUp(h, f, s)) = g
  BY <1>3, <1>6, OneSum
<1>8. SumFunctionOnSet(f, s) = g[s]
  BY <1>7, SumIsValue
<1>9. \A t \in SUBSET s : SumFunctionOnSet(f, t) = g[t]
  BY <1>4, <1>8
<1>10. Sums(s) = g
  BY <1>9
<1> QED
  BY <1>3, <1>6, <1>10

LEMMA SumEmpty == \A f : SumFunctionOnSet(f, {}) = 0
<1> TAKE f
<1>1. AddsUp([s \in SUBSET {} |-> SumFunctionOnSet(f, s)], f, {})
  BY SumsAddUp, FS_EmptySet
<1> QED
  BY <1>1 DEF AddsUp

(* The recursion: an element, and the sum over the others.                 *)
LEMMA SumChosen ==
  ASSUME NEW f, NEW S, IsFiniteSet(S), S # {}
  PROVE  /\ Chosen(S) \in S
         /\ SumFunctionOnSet(f, S) =
              f[Chosen(S)] + SumFunctionOnSet(f, S \ {Chosen(S)})
<1> DEFINE g == [s \in SUBSET S |-> SumFunctionOnSet(f, s)]
<1>1. AddsUp(g, f, S)
  BY SumsAddUp
<1>2. S \in SUBSET S /\ S \ {Chosen(S)} \in SUBSET S
  OBVIOUS
<1>3. g[S] = f[Chosen(S)] + g[S \ {Chosen(S)}]
  BY <1>1, <1>2 DEF AddsUp
<1> QED
  BY <1>2, <1>3, ChosenIn

(* Sums of integers are integers.                                          *)
LEMMA SumInt ==
  ASSUME NEW f, NEW S, IsFiniteSet(S), \A x \in S : f[x] \in Int
  PROVE  SumFunctionOnSet(f, S) \in Int
<1> DEFINE T == {s \in SUBSET S : SumFunctionOnSet(f, s) \notin Int}
<1>1. SUFFICES ASSUME T # {} PROVE FALSE
  OBVIOUS
<1>2. PICK s \in T : \A u \in T : ~ (u \subseteq s /\ u # s)
  <2>1. T \subseteq SUBSET S
    OBVIOUS
  <2> HIDE DEF T
  <2> QED
    BY <1>1, <2>1, Smallest
<1>3. s \in SUBSET S /\ IsFiniteSet(s) /\ s # {}
  <2>1. SumFunctionOnSet(f, {}) = 0
    BY SumEmpty
  <2>2. s # {}
    BY <2>1
  <2> QED
    BY <2>2, FS_Subset
<1>4. /\ Chosen(s) \in s
      /\ SumFunctionOnSet(f, s) = f[Chosen(s)] + SumFunctionOnSet(f, s \ {Chosen(s)})
  BY <1>3, SumChosen
<1>5. SumFunctionOnSet(f, s \ {Chosen(s)}) \in Int
  <2>1. /\ s \ {Chosen(s)} \subseteq s /\ s \ {Chosen(s)} # s
        /\ s \ {Chosen(s)} \in SUBSET S
    BY <1>3, <1>4
  <2> QED
    BY <1>2, <2>1
<1> QED
  BY <1>2, <1>3, <1>4, <1>5

(* The sum with any element taken out first, whichever one is chosen.      *)
THEOREM SumRemove ==
  ASSUME NEW f, NEW S, IsFiniteSet(S), \A x \in S : f[x] \in Int, NEW e \in S
  PROVE  SumFunctionOnSet(f, S) = f[e] + SumFunctionOnSet(f, S \ {e})
<1> DEFINE Off(s, x) == SumFunctionOnSet(f, s) # f[x] + SumFunctionOnSet(f, s \ {x})
           T == {s \in SUBSET S : \E x \in s : Off(s, x)}
<1>1. SUFFICES ASSUME T # {} PROVE FALSE
  OBVIOUS
<1>2. PICK s \in T : \A u \in T : ~ (u \subseteq s /\ u # s)
  <2>1. T \subseteq SUBSET S
    OBVIOUS
  <2> HIDE DEF T
  <2> QED
    BY <1>1, <2>1, Smallest
<1>3. s \in SUBSET S /\ IsFiniteSet(s)
  BY FS_Subset
<1>4. PICK x \in s : Off(s, x)
  OBVIOUS
<1> DEFINE c == Chosen(s)
           both == s \ {c, x}
<1>5. c \in s /\ SumFunctionOnSet(f, s) = f[c] + SumFunctionOnSet(f, s \ {c})
  BY <1>3, <1>4, SumChosen
<1>6. c # x
  BY <1>4, <1>5
<1>7. SumFunctionOnSet(f, s \ {c}) = f[x] + SumFunctionOnSet(f, both)
  <2>1. /\ s \ {c} \subseteq s /\ s \ {c} # s /\ s \ {c} \in SUBSET S
        /\ x \in s \ {c} /\ (s \ {c}) \ {x} = both
    BY <1>3, <1>5, <1>6
  <2>2. ~ Off(s \ {c}, x)
    BY <1>2, <2>1
  <2> QED
    BY <2>1, <2>2
<1>8. SumFunctionOnSet(f, s \ {x}) = f[c] + SumFunctionOnSet(f, both)
  <2>1. /\ s \ {x} \subseteq s /\ s \ {x} # s /\ s \ {x} \in SUBSET S
        /\ c \in s \ {x} /\ (s \ {x}) \ {c} = both
    BY <1>3, <1>5, <1>6
  <2>2. ~ Off(s \ {x}, c)
    BY <1>2, <2>1
  <2> QED
    BY <2>1, <2>2
<1>9. f[c] \in Int /\ f[x] \in Int /\ SumFunctionOnSet(f, both) \in Int
  <2>1. both \subseteq S /\ IsFiniteSet(both)
    BY <1>3, FS_Subset
  <2> HIDE DEF both
  <2> QED
    BY <1>3, <1>5, <2>1, SumInt
<1> QED
  BY <1>4, <1>5, <1>7, <1>8, <1>9

(* Only the values on the set count.                                       *)
LEMMA SumSame ==
  ASSUME NEW f, NEW g, NEW S, IsFiniteSet(S), \A x \in S : f[x] = g[x]
  PROVE  SumFunctionOnSet(f, S) = SumFunctionOnSet(g, S)
<1> DEFINE T == {s \in SUBSET S : SumFunctionOnSet(f, s) # SumFunctionOnSet(g, s)}
<1>1. SUFFICES ASSUME T # {} PROVE FALSE
  OBVIOUS
<1>2. PICK s \in T : \A u \in T : ~ (u \subseteq s /\ u # s)
  <2>1. T \subseteq SUBSET S
    OBVIOUS
  <2> HIDE DEF T
  <2> QED
    BY <1>1, <2>1, Smallest
<1>3. s \in SUBSET S /\ IsFiniteSet(s) /\ s # {}
  BY FS_Subset, SumEmpty
<1>4. /\ Chosen(s) \in s
      /\ SumFunctionOnSet(f, s) = f[Chosen(s)] + SumFunctionOnSet(f, s \ {Chosen(s)})
      /\ SumFunctionOnSet(g, s) = g[Chosen(s)] + SumFunctionOnSet(g, s \ {Chosen(s)})
  BY <1>3, SumChosen
<1>5. SumFunctionOnSet(f, s \ {Chosen(s)}) = SumFunctionOnSet(g, s \ {Chosen(s)})
  <2>1. /\ s \ {Chosen(s)} \subseteq s /\ s \ {Chosen(s)} # s
        /\ s \ {Chosen(s)} \in SUBSET S
    BY <1>3, <1>4
  <2> QED
    BY <1>2, <2>1
<1>6. f[Chosen(s)] = g[Chosen(s)]
  BY <1>3, <1>4
<1> QED
  BY <1>2, <1>4, <1>5, <1>6

(* Sums add up value by value.                                             *)
THEOREM SumPlus ==
  ASSUME NEW f, NEW g, NEW h, NEW S, IsFiniteSet(S),
         \A x \in S : f[x] \in Int /\ g[x] \in Int /\ h[x] = f[x] + g[x]
  PROVE  SumFunctionOnSet(h, S) = SumFunctionOnSet(f, S) + SumFunctionOnSet(g, S)
<1> DEFINE Sum(k, s) == SumFunctionOnSet(k, s)
           T == {s \in SUBSET S : Sum(h, s) # Sum(f, s) + Sum(g, s)}
<1>1. SUFFICES ASSUME T # {} PROVE FALSE
  OBVIOUS
<1>2. PICK s \in T : \A u \in T : ~ (u \subseteq s /\ u # s)
  <2>1. T \subseteq SUBSET S
    OBVIOUS
  <2> HIDE DEF T
  <2> QED
    BY <1>1, <2>1, Smallest
<1>3. s \in SUBSET S /\ IsFiniteSet(s) /\ s # {}
  <2>1. SumFunctionOnSet(f, {}) = 0 /\ SumFunctionOnSet(g, {}) = 0 /\ SumFunctionOnSet(h, {}) = 0
    BY SumEmpty
  <2>2. Sum(h, s) # Sum(f, s) + Sum(g, s)
    OBVIOUS
  <2>3. ASSUME s = {} PROVE FALSE
    <3>1. Sum(h, s) = 0 /\ Sum(f, s) = 0 /\ Sum(g, s) = 0
      BY <2>1, <2>3, Zenon
    <3> QED
      BY <2>2, <3>1
  <2> QED
    BY <2>3, FS_Subset
<1> DEFINE c == Chosen(s)
           rest == s \ {c}
<1>4. /\ c \in s
      /\ Sum(f, s) = f[c] + Sum(f, rest)
      /\ Sum(g, s) = g[c] + Sum(g, rest)
      /\ Sum(h, s) = h[c] + Sum(h, rest)
  BY <1>3, SumChosen
<1>5. rest \subseteq s /\ rest # s /\ rest \in SUBSET S /\ IsFiniteSet(rest)
  BY <1>3, <1>4, FS_Subset
<1>6. Sum(h, rest) = Sum(f, rest) + Sum(g, rest)
  BY <1>2, <1>5
<1>7. Sum(f, rest) \in Int /\ Sum(g, rest) \in Int
  BY <1>5, SumInt
<1>8. f[c] \in Int /\ g[c] \in Int /\ h[c] = f[c] + g[c]
  BY <1>3, <1>4
<1> QED
  BY <1>2, <1>4, <1>6, <1>7, <1>8

-----------------------------------------------------------------------------
Sides == {"flat", "long", "short"}
Moves == Strategy!Entries \union Strategy!Exits
Decision == [series : Series, action : Strategy!Decisions]
Intent == {i \in [series : Series, action : Strategy!Decisions,
                  status : {"APPROVED", "REJECTED"}] :
             i.status = "APPROVED" => i.action \in Moves}
Prices == {DefaultPrice - Slippage, DefaultPrice + Slippage}
Report == {r \in [series : Series, action : Moves, status : {"FILLED", "REJECTED"},
                  price : Prices \union {0}] :
             r.status = "FILLED" <=> DefaultPrice > 0 /\ r.price \in Prices}

Typed ==
  /\ TypeOK
  /\ outbox \in Seq(Decision) /\ decisions \in Seq(Decision)
  /\ intents \in Seq(Intent) /\ reports \in Seq(Report)
  /\ droppedDecisions \in Nat /\ droppedIntents \in Nat /\ droppedReports \in Nat
  /\ approved \in Nat /\ refused \in Nat /\ cancelled \in Nat /\ arrived \in Nat

-----------------------------------------------------------------------------
(* d is what a strategy says that reads the given pair of rules.           *)
Says(d, sigs, pos, primary, confirm) ==
  /\ d = Strategy!Align(sigs[primary], sigs[confirm], pos)
  /\ Strategy!AllowsEntry(d, pos)

LEMMA AtMostOne ==
  ASSUME NEW S, NEW d \in S, NEW e, e = <<>> \/ e = <<d>>
  PROVE  e \in Seq(S) /\ Len(e) <= 1 /\ \A i \in DOMAIN e : e[i] = d
<1>1. CASE e = <<>>
  BY <1>1
<1>2. CASE e = <<d>>
  BY <1>2
<1>3. QED BY <1>1, <1>2

LEMMA PairDecides ==
  ASSUME NEW sigs, NEW pos, NEW primary, NEW confirm
  PROVE  LET ds == Strategy!EvaluatePair(sigs, pos, primary, confirm)
         IN /\ ds \in Seq(Strategy!Decisions) /\ Len(ds) <= 1
            /\ \A i \in DOMAIN ds : Says(ds[i], sigs, pos, primary, confirm)
<1> DEFINE d == Strategy!Align(sigs[primary], sigs[confirm], pos)
<1>1. d \in Strategy!Decisions
  BY DEF Strategy!Align, Strategy!Decisions, Strategy!Entries, Strategy!Exits
<1>2. \/ Strategy!EvaluatePair(sigs, pos, primary, confirm) = <<>>
      \/ /\ Strategy!EvaluatePair(sigs, pos, primary, confirm) = <<d>>
         /\ Says(d, sigs, pos, primary, confirm)
  BY DEF Strategy!EvaluatePair, Says
<1> HIDE DEF d
<1>3. QED BY <1>1, <1>2, AtMostOne

LEMMA ConcatOfThree ==
  ASSUME NEW S, NEW a \in Seq(S), NEW b \in Seq(S), NEW c \in Seq(S)
  PROVE  /\ a \o b \o c \in Seq(S)
         /\ Len(a \o b \o c) = Len(a) + Len(b) + Len(c)
         /\ \A i \in 1 .. Len(a) + Len(b) + Len(c) :
              (a \o b \o c)[i] = IF i <= Len(a) THEN a[i]
                                 ELSE IF i <= Len(a) + Len(b) THEN b[i - Len(a)]
                                 ELSE c[i - Len(a) - Len(b)]
<1>1. /\ a \o b \in Seq(S) /\ Len(a \o b) = Len(a) + Len(b)
      /\ \A i \in 1 .. Len(a) + Len(b) :
           (a \o b)[i] = IF i <= Len(a) THEN a[i] ELSE b[i - Len(a)]
  BY ConcatProperties
<1>2. /\ (a \o b) \o c \in Seq(S) /\ Len((a \o b) \o c) = Len(a \o b) + Len(c)
      /\ \A i \in 1 .. Len(a \o b) + Len(c) :
           ((a \o b) \o c)[i] = IF i <= Len(a \o b) THEN (a \o b)[i] ELSE c[i - Len(a \o b)]
  BY <1>1, ConcatProperties
<1>3. Len(a) \in Nat /\ Len(b) \in Nat /\ Len(c) \in Nat
  BY LenProperties
<1>4. QED BY <1>1, <1>2, <1>3

(* Of three with at most one element each, the first is the first one's.   *)
LEMMA ThreeAtMost ==
  ASSUME NEW S, NEW a \in Seq(S), NEW b \in Seq(S), NEW c \in Seq(S),
         Len(a) <= 1, Len(b) <= 1, Len(c) <= 1, NEW d, d = a \o b \o c
  PROVE  /\ d \in Seq(S) /\ Len(d) <= 3
         /\ \A i \in 1 .. Len(d) : \/ i = 1 /\ 1 \in DOMAIN a /\ d[i] = a[1]
                                   \/ \E j \in DOMAIN b : d[i] = b[j]
                                   \/ \E j \in DOMAIN c : d[i] = c[j]
<1>1. /\ Len(a) \in Nat /\ Len(b) \in Nat /\ Len(c) \in Nat
      /\ DOMAIN a = 1 .. Len(a) /\ DOMAIN b = 1 .. Len(b) /\ DOMAIN c = 1 .. Len(c)
  BY LenProperties
<1>2. /\ d \in Seq(S) /\ Len(d) = Len(a) + Len(b) + Len(c)
      /\ \A i \in 1 .. Len(a) + Len(b) + Len(c) :
           d[i] = IF i <= Len(a) THEN a[i]
                  ELSE IF i <= Len(a) + Len(b) THEN b[i - Len(a)] ELSE c[i - Len(a) - Len(b)]
  BY ConcatOfThree
<1>3. ASSUME NEW i \in 1 .. Len(d)
      PROVE  \/ i = 1 /\ 1 \in DOMAIN a /\ d[i] = a[1]
             \/ \E j \in DOMAIN b : d[i] = b[j]
             \/ \E j \in DOMAIN c : d[i] = c[j]
  <2>1. i \in 1 .. Len(a) + Len(b) + Len(c)
    BY <1>1, <1>2
  <2>2. CASE i <= Len(a)
    <3>1. i = 1 /\ 1 \in DOMAIN a
      BY <1>1, <2>1, <2>2
    <3>2. QED BY <1>2, <2>1, <2>2, <3>1
  <2>3. CASE i > Len(a) /\ i <= Len(a) + Len(b)
    <3>1. d[i] = b[i - Len(a)] /\ i - Len(a) \in DOMAIN b
      BY <1>1, <1>2, <2>1, <2>3
    <3>2. QED BY <3>1
  <2>4. CASE i > Len(a) + Len(b)
    <3>1. ~(i <= Len(a)) /\ ~(i <= Len(a) + Len(b)) /\ i - Len(a) - Len(b) \in DOMAIN c
      BY <1>1, <2>1, <2>4
    <3>2. d[i] = c[i - Len(a) - Len(b)]
      BY <1>2, <2>1, <3>1
    <3>3. QED BY <3>1, <3>2
  <2>5. QED BY <1>1, <2>1, <2>2, <2>3, <2>4
<1>4. QED BY <1>1, <1>2, <1>3

(* A Process decides at most once for every enabled strategy, the trend    *)
(* following one first.                                                    *)
LEMMA Evaluated ==
  ASSUME NEW s \in Series, NEW sigs
  PROVE  LET ds == Strategy!Evaluate(s, sigs)
         IN /\ ds \in Seq(Strategy!Decisions) /\ Len(ds) <= 3
            /\ \A i \in 1 .. Len(ds) :
                 \/ ds[i] = "HOLD"
                 \/ /\ i = 1 /\ "trend_following" \in Enabled
                    /\ Says(ds[i], sigs, believed[s], "ema_cross", "macd_cross")
                 \/ /\ "mean_reversion" \in Enabled
                    /\ Says(ds[i], sigs, believed[s], "rsi", "bollinger")
<1> DEFINE
      S == Strategy!Decisions
      trend == Strategy!If("trend_following",
                 Strategy!EvaluatePair(sigs, believed[s], "ema_cross", "macd_cross"))
      reversion == Strategy!If("mean_reversion",
                     Strategy!EvaluatePair(sigs, believed[s], "rsi", "bollinger"))
      breakout == Strategy!If("breakout", IF decided[s] THEN <<"HOLD">> ELSE <<>>)
<1>1. /\ trend \in Seq(S) /\ Len(trend) <= 1
      /\ \A i \in DOMAIN trend :
           /\ "trend_following" \in Enabled
           /\ Says(trend[i], sigs, believed[s], "ema_cross", "macd_cross")
  BY PairDecides DEF Strategy!If
<1>2. /\ reversion \in Seq(S) /\ Len(reversion) <= 1
      /\ \A i \in DOMAIN reversion :
           /\ "mean_reversion" \in Enabled
           /\ Says(reversion[i], sigs, believed[s], "rsi", "bollinger")
  BY PairDecides DEF Strategy!If
<1>3. /\ breakout \in Seq(S) /\ Len(breakout) <= 1
      /\ \A i \in DOMAIN breakout : breakout[i] = "HOLD"
  <2>1. breakout = <<>> \/ breakout = <<"HOLD">>
    BY DEF Strategy!If
  <2>2. "HOLD" \in S
    BY DEF Strategy!Decisions
  <2>3. QED BY <2>1, <2>2, AtMostOne
<1>4. Strategy!Evaluate(s, sigs) = trend \o reversion \o breakout
  BY DEF Strategy!Evaluate
<1> HIDE DEF S, trend, reversion, breakout
<1>5. /\ Len(trend) \in Nat /\ Len(reversion) \in Nat /\ Len(breakout) \in Nat
      /\ DOMAIN trend = 1 .. Len(trend) /\ DOMAIN reversion = 1 .. Len(reversion)
      /\ DOMAIN breakout = 1 .. Len(breakout)
  BY <1>1, <1>2, <1>3, LenProperties
<1>6. PICK ds : ds = trend \o reversion \o breakout
  OBVIOUS
<1>7. /\ ds \in Seq(S) /\ Len(ds) <= 3
      /\ \A i \in 1 .. Len(ds) : \/ i = 1 /\ 1 \in DOMAIN trend /\ ds[i] = trend[1]
                                 \/ \E j \in DOMAIN reversion : ds[i] = reversion[j]
                                 \/ \E j \in DOMAIN breakout : ds[i] = breakout[j]
  BY <1>1, <1>2, <1>3, <1>6, ThreeAtMost
<1>8. \A i \in 1 .. Len(ds) :
        \/ ds[i] = "HOLD"
        \/ /\ i = 1 /\ "trend_following" \in Enabled
           /\ Says(ds[i], sigs, believed[s], "ema_cross", "macd_cross")
        \/ /\ "mean_reversion" \in Enabled
           /\ Says(ds[i], sigs, believed[s], "rsi", "bollinger")
  BY <1>1, <1>2, <1>3, <1>7
<1>9. QED BY <1>4, <1>6, <1>7, <1>8 DEF S

(* Record keeps the last decision that is not a HOLD.                      *)
LEMMA Recorded ==
  ASSUME NEW pos, NEW ds \in Seq(Strategy!Decisions), Len(ds) <= 3
  PROVE  \/ /\ \A i \in 1 .. Len(ds) : ds[i] = "HOLD"
            /\ Strategy!Record(pos, ds) = pos
         \/ \E i \in 1 .. Len(ds) :
              /\ ds[i] # "HOLD"
              /\ \A j \in 1 .. Len(ds) : ds[j] # "HOLD" => j <= i
              /\ Strategy!Record(pos, ds) = Strategy!PositionAfter(ds[i])
<1> DEFINE acts == {i \in DOMAIN ds : ds[i] # "HOLD"}
<1>1. DOMAIN ds = 1 .. Len(ds) /\ Len(ds) \in Nat
  BY LenProperties
<1>2. CASE acts = {}
  BY <1>1, <1>2 DEF Strategy!Record
<1>3. CASE acts # {}
  <2>1. \E i \in acts : \A j \in acts : i >= j
    <3>1. acts \subseteq {1, 2, 3}
      BY <1>1
    <3>2. QED BY <1>3, <3>1
  <2>2. Strategy!Max(acts) \in acts /\ \A j \in acts : Strategy!Max(acts) >= j
    BY <2>1 DEF Strategy!Max
  <2>3. Strategy!Record(pos, ds) = Strategy!PositionAfter(ds[Strategy!Max(acts)])
    BY <1>3 DEF Strategy!Record
  <2>4. QED BY <1>1, <2>2, <2>3
<1>4. QED BY <1>2, <1>3

-----------------------------------------------------------------------------
(* Where queued moves lead: with none, with those of another queue behind  *)
(* them, and with the first one taken off.                                 *)
LEMMA NoMoves ==
  ASSUME NEW side, NEW s, NEW q, NEW goal
  PROVE  AfterMoves(side, s, q, 0, goal) <=> goal = side
  BY DEF AfterMoves

LEMMA MovesBefore ==
  ASSUME NEW T, NEW q \in Seq(T), NEW b \in Seq(T), NEW n \in 0 .. Len(q),
         NEW side, NEW s, NEW goal
  PROVE  AfterMoves(side, s, q \o b, n, goal) <=> AfterMoves(side, s, q, n, goal)
<1>1. \A i \in 1 .. n : (q \o b)[i] = q[i]
  BY ConcatProperties, LenProperties
<1>2. QED BY <1>1 DEF AfterMoves

LEMMA MovesBehind ==
  ASSUME NEW T, NEW q \in Seq(T), NEW b \in Seq(T), NEW m \in 0 .. Len(b),
         NEW side, NEW s, NEW mid, NEW goal,
         AfterMoves(side, s, q, Len(q), mid)
  PROVE  AfterMoves(side, s, q \o b, Len(q) + m, goal) <=> AfterMoves(mid, s, b, m, goal)
<1> DEFINE N == Len(q)
           c == q \o b
           Of(e) == e.series = s /\ e.action # "HOLD"
<1>1. N \in Nat /\ Len(b) \in Nat
  BY LenProperties
<1>2. /\ \A i \in 1 .. N : c[i] = q[i]
      /\ \A i \in 1 .. m : c[N + i] = b[i]
  BY <1>1, ConcatProperties
<1>3. \A k \in 1 .. N + m : \/ k \in 1 .. N /\ c[k] = q[k]
                            \/ k - N \in 1 .. m /\ k > N /\ c[k] = b[k - N]
  <2>1. TAKE k \in 1 .. N + m
  <2>2. CASE k <= N
    BY <1>1, <1>2, <2>2
  <2>3. CASE k > N
    <3>1. k - N \in 1 .. m /\ N + (k - N) = k
      BY <1>1, <2>3
    <3>2. QED BY <1>2, <2>3, <3>1
  <2>4. QED BY <1>1, <2>2, <2>3
<1>4. \A j \in 1 .. m : N + j \in 1 .. N + m /\ N + j > N /\ c[N + j] = b[j]
  BY <1>1, <1>2
<1>5. N + m \in Nat /\ m \in Nat
  BY <1>1
<1> HIDE DEF N, c, Of
<1>6. CASE \A i \in 1 .. m : ~Of(b[i])
  <2>1. AfterMoves(mid, s, b, m, goal) <=> goal = mid
    BY <1>6 DEF AfterMoves, Of
  <2>2. {i \in 1 .. N + m : Of(c[i])} = {i \in 1 .. N : Of(q[i])}
    BY <1>1, <1>2, <1>3, <1>6, <1>5
  <2>3. AfterMoves(side, s, c, N + m, goal) <=> AfterMoves(side, s, q, N, goal)
    BY <1>2, <2>2 DEF AfterMoves, Of
  <2>4. AfterMoves(side, s, q, N, goal) <=> goal = mid
    BY <1>1 DEF AfterMoves, N
  <2>5. QED BY <2>1, <2>3, <2>4 DEF N, c
<1>7. CASE \E i \in 1 .. m : Of(b[i])
  <2>1. ASSUME NEW j \in 1 .. m, Of(b[j]), \A k \in 1 .. m : Of(b[k]) => k <= j
        PROVE  /\ N + j \in 1 .. N + m /\ Of(c[N + j]) /\ c[N + j] = b[j]
               /\ \A k \in 1 .. N + m : Of(c[k]) => k <= N + j
    <3>1. N + j \in 1 .. N + m /\ Of(c[N + j]) /\ c[N + j] = b[j]
      BY <1>4, <2>1
    <3>2. ASSUME NEW k \in 1 .. N + m, Of(c[k]) PROVE k <= N + j
      <4>1. CASE k \in 1 .. N
        BY <1>1, <1>5, <4>1
      <4>2. CASE ~(k \in 1 .. N)
        <5>1. k - N \in 1 .. m /\ Of(b[k - N])
          BY <1>3, <3>2, <4>2
        <5>2. k - N <= j
          BY <2>1, <5>1
        <5>3. QED BY <1>1, <1>5, <5>2
      <4>3. QED BY <4>1, <4>2
    <3>3. QED BY <3>1, <3>2
  <2>2. ASSUME NEW i \in 1 .. N + m, Of(c[i]), \A k \in 1 .. N + m : Of(c[k]) => k <= i
        PROVE  \E j \in 1 .. m : /\ i = N + j /\ Of(b[j]) /\ c[i] = b[j]
                                 /\ \A k \in 1 .. m : Of(b[k]) => k <= j
    <3>1. PICK l \in 1 .. m : Of(b[l])
      BY <1>7
    <3>2. N + l \in 1 .. N + m /\ N + l > N /\ Of(c[N + l])
      BY <1>4, <3>1
    <3>3. N + l <= i
      BY <2>2, <3>2
    <3>4. ~(i \in 1 .. N)
      BY <1>1, <1>5, <3>2, <3>3
    <3>5. PICK j \in 1 .. m : j = i - N /\ c[i] = b[j]
      BY <1>3, <2>2, <3>4
    <3>6. i = N + j /\ Of(b[j])
      BY <1>1, <1>5, <2>2, <3>5
    <3>7. ASSUME NEW k \in 1 .. m, Of(b[k]) PROVE k <= j
      <4>1. N + k \in 1 .. N + m /\ Of(c[N + k])
        BY <1>4, <3>7
      <4>2. N + k <= N + j
        BY <2>2, <3>6, <4>1
      <4>3. QED BY <1>1, <1>5, <4>2
    <3>8. QED BY <3>5, <3>6, <3>7
  <2>3. AfterMoves(side, s, c, N + m, goal) <=>
          \E i \in 1 .. N + m : /\ Of(c[i]) /\ \A k \in 1 .. N + m : Of(c[k]) => k <= i
                                /\ goal = Risk!PositionAfter(c[i].action)
    <3>1. \E i \in 1 .. N + m : Of(c[i])
      BY <1>7, <1>4
    <3>2. QED BY <3>1 DEF AfterMoves, Of
  <2>4. AfterMoves(mid, s, b, m, goal) <=>
          \E j \in 1 .. m : /\ Of(b[j]) /\ \A k \in 1 .. m : Of(b[k]) => k <= j
                            /\ goal = Risk!PositionAfter(b[j].action)
    BY <1>7 DEF AfterMoves, Of
  <2>5. QED BY <2>1, <2>2, <2>3, <2>4 DEF N, c
<1>8. QED BY <1>6, <1>7

(* What the first queued move leaves of a side.                            *)
Moved(side, s, e) ==
  IF e.series = s /\ e.action # "HOLD" THEN Risk!PositionAfter(e.action) ELSE side

LEMMA OneMove ==
  ASSUME NEW side, NEW s, NEW e, NEW q, q = <<e>>, NEW goal
  PROVE  AfterMoves(side, s, q, 1, goal) <=> goal = Moved(side, s, e)
<1>1. q[1] = e /\ 1 .. 1 = {1}
  OBVIOUS
<1>2. QED BY <1>1 DEF AfterMoves, Moved

LEMMA Queued ==
  ASSUME NEW T, NEW q \in Seq(T), NEW e \in T, NEW side, NEW s, NEW mid, NEW goal,
         Leads(side, s, q, mid)
  PROVE  Leads(side, s, Append(q, e), goal) <=> goal = Moved(mid, s, e)
<1> DEFINE b == <<e>>
<1>1. b \in Seq(T) /\ 1 \in 0 .. Len(b) /\ Append(q, e) = q \o b
  BY AppendIsConcat
<1>2. Len(Append(q, e)) = Len(q) + 1
  BY AppendProperties
<1>3. AfterMoves(mid, s, b, 1, goal) <=> goal = Moved(mid, s, e)
  BY OneMove
<1> HIDE DEF b
<1>4. AfterMoves(side, s, q \o b, Len(q) + 1, goal) <=> AfterMoves(mid, s, b, 1, goal)
  BY <1>1, MovesBehind DEF Leads
<1>5. QED BY <1>1, <1>2, <1>3, <1>4 DEF Leads

LEMMA Taken ==
  ASSUME NEW T, NEW q \in Seq(T), q # <<>>, NEW n \in 0 .. Len(q) - 1,
         NEW side, NEW s, NEW goal
  PROVE  /\ AfterMoves(side, s, q, n + 1, goal)
              <=> AfterMoves(Moved(side, s, Head(q)), s, Tail(q), n, goal)
         /\ Len(Tail(q)) = Len(q) - 1
<1> DEFINE h == <<Head(q)>>
<1>1. /\ h \in Seq(T) /\ Len(h) = 1 /\ Tail(q) \in Seq(T) /\ Len(Tail(q)) = Len(q) - 1
      /\ Len(q) \in Nat
  BY HeadTailProperties, LenProperties
<1>2. q = h \o Tail(q)
  <2>1. \A i \in 1 .. Len(q) : q[i] = (h \o Tail(q))[i]
    BY <1>1, HeadTailProperties, ConcatProperties
  <2>2. Len(h \o Tail(q)) = Len(q) /\ h \o Tail(q) \in Seq(T)
    BY <1>1, ConcatProperties
  <2>3. QED BY <2>1, <2>2, SeqEqual
<1>3. AfterMoves(side, s, h, Len(h), Moved(side, s, Head(q)))
  BY <1>1, OneMove
<1> HIDE DEF h
<1>4. AfterMoves(side, s, h \o Tail(q), Len(h) + n, goal)
        <=> AfterMoves(Moved(side, s, Head(q)), s, Tail(q), n, goal)
  BY <1>1, <1>3, MovesBehind
<1>5. Len(h) + n = n + 1
  BY <1>1
<1>6. QED BY <1>1, <1>2, <1>4, <1>5

(* What a queue asks for changes with the queue.                           *)
LEMMA AskedSeq ==
  ASSUME NEW T, \A e \in T : e.series \in Series /\ e.action \in Strategy!Decisions,
         NEW q \in Seq(T), NEW status
  PROVE  Asks(q, status) \in Seq(Decision) /\ Len(Asks(q, status)) = Len(q)
<1>1. \A i \in 1 .. Len(q) : Ask(q[i], q[i].status = status) \in Decision
  BY ElementOfSeq DEF Ask, Decision, Strategy!Decisions
<1>2. DOMAIN q = 1 .. Len(q) /\ Len(q) \in Nat
  BY LenProperties
<1>3. QED BY <1>1, <1>2 DEF Asks

LEMMA AskedAppend ==
  ASSUME NEW T, \A e \in T : e.series \in Series /\ e.action \in Strategy!Decisions,
         NEW q \in Seq(T), NEW e \in T, NEW status
  PROVE  Asks(Append(q, e), status)
           = Append(Asks(q, status), Ask(e, e.status = status))
<1> DEFINE a == Asks(Append(q, e), status)
           b == Append(Asks(q, status), Ask(e, e.status = status))
<1>1. Append(q, e) \in Seq(T) /\ Len(Append(q, e)) = Len(q) + 1 /\ Len(q) \in Nat
  BY AppendProperties, LenProperties
<1>2. Asks(q, status) \in Seq(Decision) /\ Len(Asks(q, status)) = Len(q)
  BY AskedSeq
<1>3. Ask(e, e.status = status) \in Decision
  BY DEF Ask, Decision, Strategy!Decisions
<1>4. a \in Seq(Decision) /\ Len(a) = Len(q) + 1
  BY <1>1, AskedSeq
<1>5. b \in Seq(Decision) /\ Len(b) = Len(q) + 1
  BY <1>2, <1>3, AppendProperties
<1>6. ASSUME NEW i \in 1 .. Len(q) + 1 PROVE a[i] = b[i]
  <2>1. DOMAIN Append(q, e) = 1 .. Len(q) + 1 /\ DOMAIN q = 1 .. Len(q)
    BY <1>1, LenProperties
  <2>2. a[i] = Ask(Append(q, e)[i], Append(q, e)[i].status = status)
    BY <2>1 DEF Asks
  <2>3. CASE i \in 1 .. Len(q)
    <3>1. b[i] = Asks(q, status)[i]
      BY <1>2, <1>3, <2>3, AppendProperties
    <3>2. Append(q, e)[i] = q[i]
      BY <2>3, AppendProperties
    <3>3. QED BY <2>1, <2>2, <2>3, <3>1, <3>2 DEF Asks
  <2>4. CASE i = Len(q) + 1
    BY <1>2, <1>3, <2>2, <2>4, AppendProperties
  <2> HIDE DEF a, b
  <2>5. QED BY <1>1, <2>3, <2>4
<1> HIDE DEF a, b
<1>7. a = b
  BY <1>4, <1>5, <1>6, SeqEqual
<1>8. QED BY <1>7 DEF a, b

LEMMA AskedTail ==
  ASSUME NEW T, \A e \in T : e.series \in Series /\ e.action \in Strategy!Decisions,
         NEW q \in Seq(T), q # <<>>, NEW status
  PROVE  /\ Asks(q, status) # <<>>
         /\ Head(Asks(q, status)) = Ask(Head(q), Head(q).status = status)
         /\ Asks(Tail(q), status) = Tail(Asks(q, status))
<1> DEFINE a == Asks(Tail(q), status)
           b == Tail(Asks(q, status))
<1>1. Tail(q) \in Seq(T) /\ Len(Tail(q)) = Len(q) - 1 /\ Len(q) \in Nat \ {0}
  BY HeadTailProperties, EmptySeq
<1>2. Asks(q, status) \in Seq(Decision) /\ Len(Asks(q, status)) = Len(q)
  BY AskedSeq
<1>3. Asks(q, status) # <<>>
  BY <1>1, <1>2, EmptySeq
<1>4. a \in Seq(Decision) /\ Len(a) = Len(q) - 1
  BY <1>1, AskedSeq
<1>5. b \in Seq(Decision) /\ Len(b) = Len(q) - 1
      /\ \A i \in 1 .. Len(b) : b[i] = Asks(q, status)[i + 1]
  BY <1>2, <1>3, HeadTailProperties
<1>6. DOMAIN q = 1 .. Len(q) /\ DOMAIN Tail(q) = 1 .. Len(q) - 1
  BY <1>1, LenProperties
<1>7. ASSUME NEW i \in 1 .. Len(q) - 1 PROVE a[i] = b[i]
  <2>1. Tail(q)[i] = q[i + 1] /\ i + 1 \in 1 .. Len(q)
    BY <1>1, HeadTailProperties
  <2>2. QED BY <1>5, <1>6, <2>1 DEF Asks
<1> HIDE DEF a, b
<1>8. a = b
  BY <1>4, <1>5, <1>7, SeqEqual
<1>9. Head(Asks(q, status)) = Asks(q, status)[1] /\ Head(q) = q[1]
  BY <1>2, <1>3
<1>10. QED BY <1>1, <1>3, <1>6, <1>8, <1>9 DEF a, b, Asks

-----------------------------------------------------------------------------
(* One step of each engine, from well-typed states.                        *)
LEMMA SeriesIsFinite == IsFiniteSet(Series)
  BY SeriesFinite, FS_Product DEF Series

LEMMA StrategyTyped ==
  ASSUME Strategy!TypeOK, NEW s \in Series, NEW rule \in Strategy!Rules,
         NEW sig \in Strategy!Signal, Strategy!Process(s, rule, sig)
  PROVE  Strategy!TypeOK'
<1> DEFINE ds == Strategy!Decided(s, rule, sig)
<1>1. /\ signals' = [signals EXCEPT ![s][rule] = sig]
      /\ believed' = [believed EXCEPT ![s] = Strategy!Record(@, ds)]
      /\ decided' = [decided EXCEPT ![s] = @ \/ ds # <<>>]
  BY DEF Strategy!Process
<1>2. Strategy!Record(believed[s], ds) \in {"flat", "long", "short"}
  BY DEF Strategy!Record, Strategy!PositionAfter, Strategy!TypeOK
<1> HIDE DEF ds
<1>3. signals' \in [Series -> [Strategy!Rules -> Strategy!Signal \union {Strategy!NoSignal}]]
  BY <1>1 DEF Strategy!TypeOK
<1>4. believed' \in [Series -> {"flat", "long", "short"}]
  BY <1>1, <1>2 DEF Strategy!TypeOK
<1>5. decided' \in [Series -> BOOLEAN]
  BY <1>1 DEF Strategy!TypeOK
<1>6. QED BY <1>3, <1>4, <1>5 DEF Strategy!TypeOK

LEMMA RiskTyped ==
  ASSUME Risk!TypeOK, NEW in \in Risk!Input, Risk!Process(in)
  PROVE  Risk!TypeOK' /\ (Risk!Approves(in) => in.decision \in Moves)
<1> USE DEF Risk!TypeOK
<1>1. in.series \in Series /\ in.day \in Risk!Days
  BY DEF Risk!Input
<1>2. Risk!TradesOn(in.day) \in Nat
  BY DEF Risk!TradesOn
<1>3. resetDay' \in 0 .. 1
  BY <1>1 DEF Risk!Process, Risk!Days
<1>4. Risk!PositionAfter(in.decision) \in {"flat", "long", "short"}
  BY DEF Risk!PositionAfter
<1>5. Risk!Approves(in) => in.decision \in Risk!Entries \union Risk!Exits
  BY DEF Risk!Approves, Risk!Allowed, Risk!Entries, Risk!Exits
<1>6. Risk!Approves(in) => Risk!TypeOK'
  <2> HAVE Risk!Approves(in)
  <2>1. /\ tradesToday' = Risk!TradesOn(in.day) + 1
        /\ riskPosition' = [riskPosition EXCEPT ![in.series] = Risk!PositionAfter(in.decision)]
        /\ approvedOn' = [approvedOn EXCEPT ![in.day] = @ + 1]
        /\ approvals' = [approvals EXCEPT ![in.series] = @ + 1]
        /\ lastApproved' = [lastApproved EXCEPT ![in.series] = in.decision]
    BY DEF Risk!Process
  <2>2. approvedOn' \in [Risk!Days -> Nat] /\ approvals' \in [Series -> Nat]
    BY <1>1, <2>1
  <2>3. Risk!TypeOK'
    BY <1>1, <1>2, <1>3, <1>4, <1>5, <2>1, <2>2
  <2>4. QED BY <2>3
<1>7. ~Risk!Approves(in) => Risk!TypeOK'
  BY <1>2, <1>3 DEF Risk!Process
<1>8. QED BY <1>5, <1>6, <1>7
             DEF Moves, Strategy!Entries, Strategy!Exits, Risk!Entries, Risk!Exits

LEMMA PaperTyped ==
  ASSUME Paper!TypeOK, NEW s \in Series, NEW action \in Moves,
         Paper!Execute(s, action, IntentPrice), DefaultPrice \in Nat
  PROVE  /\ Paper!TypeOK'
         /\ Paper!ReportOf(s, action, IntentPrice) \in Report
<1>1. Paper!BasePrice(IntentPrice) = DefaultPrice
  BY DEF Paper!BasePrice, IntentPrice
<1>2. Paper!SideAfter(action, positions[s]) \in {"flat", "long", "short"}
  BY DEF Paper!SideAfter
<1>3. Paper!TypeOK'
  BY <1>1, <1>2 DEF Paper!TypeOK, Paper!Execute
<1>4. Paper!Slipped(DefaultPrice, action) \in Prices
  BY DEF Paper!Slipped, Prices
<1>5. QED BY <1>1, <1>3, <1>4 DEF Paper!ReportOf, Report

LEMMA AccountTyped ==
  ASSUME holding \in [Series -> Account!Holding], NEW r \in Report, Account!Apply(r)
  PROVE  /\ holding' \in [Series -> Account!Holding]
         /\ \A s \in Series : holding'[s].side = IF s = r.series
              THEN Risk!PositionAfter(r.action) ELSE holding[s].side
<1>1. r.series \in Series /\ r.action \in Moves /\ r.price \in Prices
  BY DEF Report, Account!Apply
<1> DEFINE h == Account!HoldingAfter(r.series, r.action, r.price)
<1>2. holding' = [holding EXCEPT ![r.series] = h]
  BY DEF Account!Apply
<1>3. h \in Account!Holding
  BY <1>1 DEF Account!HoldingAfter, Account!Holding, Account!Sides, Account!NoHolding,
             Account!SideOf, Prices
<1>4. h.side = Risk!PositionAfter(r.action)
  BY <1>1 DEF Account!HoldingAfter, Account!NoHolding, Account!SideOf, Account!Entries,
             Moves, Strategy!Entries, Strategy!Exits, Risk!PositionAfter
<1> HIDE DEF h
<1>5. QED BY <1>1, <1>2, <1>3, <1>4

LEMMA Published ==
  ASSUME NEW T, NEW e \in T, NEW queue \in Seq(T), NEW queueNext,
         NEW dropped \in Nat, NEW droppedNext, Len(queue) <= Buffer,
         Publish(e, queue, queueNext, dropped, droppedNext)
  PROVE  /\ queueNext \in Seq(T) /\ droppedNext \in Nat /\ Len(queueNext) <= Buffer
         /\ dropped <= droppedNext /\ droppedNext <= dropped + 1
         /\ droppedNext = dropped => queueNext = Append(queue, e)
         /\ droppedNext # dropped => queueNext = queue
  BY AppendProperties, LenProperties, BufferNat DEF Publish

LEMMA TypedInductive == ASSUME Typed, [Next]_vars PROVE Typed'
<1> USE DEF Typed, TypeOK
<1> USE DEF strategyVars, riskVars, paperVars, portfolioVars
<1>1. ASSUME NEW s \in Series, NEW a \in Arrivals, StrategyHandle(s, a[1], a[2])
      PROVE  Typed'
  <2> DEFINE ds == Strategy!Decided(s, a[1], a[2])
  <2>1. a[1] \in Strategy!Rules /\ a[2] \in Strategy!Signal
    BY ArrivalsAreSignals
  <2>2. Strategy!TypeOK'
    BY <1>1, <2>1, StrategyTyped DEF StrategyHandle
  <2>3. ds \in Seq(Strategy!Decisions)
    BY Evaluated DEF Strategy!Decided
  <2> HIDE DEF ds
  <2>4. outbox' = [i \in 1 .. Len(ds) |-> [series |-> s, action |-> ds[i]]]
    BY <1>1 DEF StrategyHandle, ds
  <2>5. outbox' \in Seq(Decision)
    BY <2>3, <2>4, ElementOfSeq, LenProperties DEF Decision
  <2>6. QED BY <1>1, <2>2, <2>5 DEF StrategyHandle, Risk!TypeOK, Paper!TypeOK
<1>2. CASE StrategyPublish
  <2>1. Tail(outbox) \in Seq(Decision) /\ Head(outbox) \in Decision
    BY <1>2, HeadTailProperties DEF StrategyPublish
  <2>2. /\ decisions' \in Seq(Decision) /\ droppedDecisions' \in Nat
        /\ Len(decisions') <= Buffer
    BY <1>2, <2>1, Published DEF StrategyPublish
  <2>3. QED BY <1>2, <2>1, <2>2
               DEF StrategyPublish, Strategy!TypeOK, Risk!TypeOK, Paper!TypeOK
<1>3. CASE RiskHandle
  <2>1. PICK strong \in Strong :
          LET d == Head(decisions)
              ok == Risk!Approves(RiskInput(d, strong))
              intent == [series |-> d.series, action |-> d.action,
                         status |-> IF ok THEN "APPROVED" ELSE "REJECTED"]
          IN /\ Risk!Process(RiskInput(d, strong))
             /\ approved' = IF ok THEN approved + 1 ELSE approved
             /\ refused' = IF Risk!RefusedByLimit(RiskInput(d, strong))
                             THEN refused + 1 ELSE refused
             /\ Publish(intent, intents, intents', droppedIntents, droppedIntents')
    BY <1>3 DEF RiskHandle
  <2> DEFINE in == RiskInput(Head(decisions), strong)
             intent == [series |-> Head(decisions).series, action |-> Head(decisions).action,
                        status |-> IF Risk!Approves(in) THEN "APPROVED" ELSE "REJECTED"]
  <2>2. Head(decisions) \in Decision /\ Tail(decisions) \in Seq(Decision)
        /\ Len(Tail(decisions)) <= Buffer
    BY <1>3, HeadTailProperties, LenProperties, BufferNat DEF RiskHandle
  <2>3. in \in Risk!Input
    BY <2>2, StrongBoolean DEF RiskInput, Risk!Input, Decision, Risk!Decisions, Risk!Days,
       Strategy!Decisions, Risk!Entries, Risk!Exits, Strategy!Entries, Strategy!Exits
  <2>4. Risk!TypeOK' /\ (Risk!Approves(in) => in.decision \in Moves)
    BY <2>1, <2>3, RiskTyped
  <2>5. in.decision = Head(decisions).action
    BY DEF RiskInput
  <2>6. intent \in Intent
    BY <2>2, <2>4, <2>5 DEF Intent, Decision
  <2>7. /\ intents' \in Seq(Intent) /\ droppedIntents' \in Nat /\ Len(intents') <= Buffer
    BY <2>1, <2>6, Published
  <2>8. approved' \in Nat /\ refused' \in Nat
    BY <2>1
  <2>9. QED BY <1>3, <2>2, <2>4, <2>7, <2>8
               DEF RiskHandle, Strategy!TypeOK, Paper!TypeOK
<1>4. CASE PaperSkip
  <2>1. Tail(intents) \in Seq(Intent) /\ Len(Tail(intents)) <= Buffer
    BY <1>4, HeadTailProperties, LenProperties, BufferNat DEF PaperSkip
  <2>2. QED BY <1>4, <2>1
               DEF PaperSkip, Strategy!TypeOK, Risk!TypeOK, Paper!TypeOK
<1>5. CASE PaperExecute
  <2>1. /\ Tail(intents) \in Seq(Intent) /\ Len(Tail(intents)) <= Buffer
        /\ Head(intents) \in Intent /\ Head(intents).status = "APPROVED"
    BY <1>5, HeadTailProperties, LenProperties, BufferNat DEF PaperExecute
  <2>2. Head(intents).series \in Series /\ Head(intents).action \in Moves
    BY <2>1 DEF Intent
  <2>3. /\ Paper!TypeOK'
        /\ Paper!ReportOf(Head(intents).series, Head(intents).action, IntentPrice) \in Report
    BY <1>5, <2>2, PaperTyped, PaperPrices DEF PaperExecute
  <2>4. /\ reports' \in Seq(Report) /\ droppedReports' \in Nat /\ Len(reports') <= Buffer
    BY <1>5, <2>3, Published DEF PaperExecute
  <2>5. QED BY <1>5, <2>1, <2>3, <2>4
               DEF PaperExecute, Strategy!TypeOK, Risk!TypeOK
<1>6. CASE PaperDrain
  <2>1. Tail(intents) \in Seq(Intent) /\ Len(Tail(intents)) <= Buffer
    BY <1>6, HeadTailProperties, LenProperties, BufferNat DEF PaperDrain
  <2>2. QED BY <1>6, <2>1 DEF PaperDrain, Paper!DropCancelled, Paper!vars,
                              Strategy!TypeOK, Risk!TypeOK, Paper!TypeOK
<1>7. CASE PaperClose
  BY <1>7 DEF PaperClose, Paper!Cancel, Strategy!TypeOK, Risk!TypeOK, Paper!TypeOK
<1>8. CASE PortfolioHandle
  <2>1. /\ Tail(reports) \in Seq(Report) /\ Len(Tail(reports)) <= Buffer
        /\ Head(reports) \in Report
    BY <1>8, HeadTailProperties, LenProperties, BufferNat DEF PortfolioHandle
  <2>2. holding' \in [Series -> Account!Holding]
    BY <1>8, <2>1, AccountTyped
       DEF PortfolioHandle, Account!Handle, Account!Ignore, Account!vars
  <2>3. QED BY <1>8, <2>1, <2>2
               DEF PortfolioHandle, Strategy!TypeOK, Risk!TypeOK, Paper!TypeOK
<1>9. CASE UNCHANGED vars
  BY <1>9 DEF vars, Strategy!TypeOK, Risk!TypeOK, Paper!TypeOK
<1>10. QED
  BY <1>1, <1>2, <1>3, <1>4, <1>5, <1>6, <1>7, <1>8, <1>9 DEF Next, Engines, PaperStep

(* Well-typed states: the base of the other arguments.                     *)
THEOREM Typing == Spec => []Typed
<1>1. Init => Typed
  <2> SUFFICES ASSUME Init PROVE Typed
    OBVIOUS
  <2>1. Strategy!TypeOK
    BY DEF Init, Strategy!Init, Strategy!TypeOK
  <2>2. Risk!TypeOK
    BY DEF Init, Risk!Init, Risk!TypeOK
  <2>3. Paper!TypeOK
    BY DEF Init, Paper!Init, Paper!TypeOK
  <2>4. holding \in [Series -> Account!Holding]
    BY DEF Init, Account!Init, Account!NoHolding, Account!Holding, Account!Sides,
           Series, Account!Series
  <2>5. QED BY <2>1, <2>2, <2>3, <2>4, BufferNat DEF Init, Typed, TypeOK
<1>2. QED BY <1>1, TypedInductive, PTL DEF Spec

-----------------------------------------------------------------------------
(* What two rules must say for a strategy to act.                          *)
Word(side) == [side |-> side, confident |-> TRUE]

LEMMA WhatWasSaid ==
  ASSUME NEW sigs \in [Strategy!Rules -> Strategy!Signal \union {Strategy!NoSignal}],
         NEW primary \in Strategy!Rules, NEW confirm \in Strategy!Rules,
         NEW pos, NEW d, Says(d, sigs, pos, primary, confirm)
  PROVE  /\ d = "LONG_ENTRY" => sigs[primary] = Word("BUY") /\ sigs[confirm] = Word("BUY")
         /\ d = "SHORT_ENTRY" => sigs[primary] = Word("SELL") /\ sigs[confirm] = Word("SELL")
         /\ d = "LONG_EXIT" => pos = "long" /\ sigs[primary] = Word("EXIT_LONG")
         /\ d = "SHORT_EXIT" => pos = "short" /\ sigs[primary] = Word("EXIT_SHORT")
<1> DEFINE p == sigs[primary]
           c == sigs[confirm]
<1>1. ASSUME NEW x \in Strategy!Signal \union {Strategy!NoSignal}, NEW side,
             x.side = side, x.confident
      PROVE  x = Word(side)
  BY <1>1 DEF Strategy!Signal, Strategy!NoSignal, Word
<1>2. p \in Strategy!Signal \union {Strategy!NoSignal}
      /\ c \in Strategy!Signal \union {Strategy!NoSignal}
  OBVIOUS
<1>3. d = Strategy!Align(p, c, pos)
  BY DEF Says
<1> HIDE DEF p, c
<1>4. /\ d = "LONG_ENTRY" => p.confident /\ c.confident /\ p.side = "BUY" /\ c.side = "BUY"
      /\ d = "SHORT_ENTRY" => p.confident /\ c.confident /\ p.side = "SELL" /\ c.side = "SELL"
      /\ d = "LONG_EXIT" => p.confident /\ p.side = "EXIT_LONG" /\ pos = "long"
      /\ d = "SHORT_EXIT" => p.confident /\ p.side = "EXIT_SHORT" /\ pos = "short"
  BY <1>3 DEF Strategy!Align
<1>5. QED BY <1>1, <1>2, <1>4 DEF p, c

(* However the signals interleave and whatever strategies are enabled, the *)
(* believed position moves only with both rules of a strategy, or out of   *)
(* the side held on a confident exit (Evaluator.Process).                  *)
THEOREM FollowsRules == Spec => PositionFollowsRules
<1>1. ASSUME Typed, [Next]_vars PROVE Strategy!MovesWithBothRules
  <2> SUFFICES ASSUME NEW s \in Series, believed'[s] # believed[s]
               PROVE  CASE believed'[s] = "long" -> Strategy!Unanimous(signals'[s], "BUY")
                        [] believed'[s] = "short" -> Strategy!Unanimous(signals'[s], "SELL")
                        [] OTHER -> \E r \in Strategy!Rules : signals'[s][r] =
                             [side |-> Strategy!ExitSide(believed[s]), confident |-> TRUE]
    BY DEF Strategy!MovesWithBothRules
  <2>1. PICK t \in Series, a \in Arrivals : StrategyHandle(t, a[1], a[2])
    BY <1>1 DEF Next, Engines, PaperStep, StrategyPublish, RiskHandle, PaperSkip,
       PaperExecute, PaperDrain, PaperClose, PortfolioHandle, strategyVars, vars
  <2> DEFINE sigs == [signals[s] EXCEPT ![a[1]] = a[2]]
             ds == Strategy!Evaluate(s, sigs)
  <2>2. a[1] \in Strategy!Rules /\ a[2] \in Strategy!Signal
    BY ArrivalsAreSignals
  <2>3. /\ signals \in [Series -> [Strategy!Rules -> Strategy!Signal \union {Strategy!NoSignal}]]
        /\ believed \in [Series -> {"flat", "long", "short"}]
    BY <1>1 DEF Typed, TypeOK, Strategy!TypeOK
  <2>4. s = t
    BY <2>1, <2>3 DEF StrategyHandle, Strategy!Process
  <2>5. /\ signals'[s] = sigs
        /\ believed'[s] = Strategy!Record(believed[s], ds)
    BY <2>1, <2>3, <2>4 DEF StrategyHandle, Strategy!Process, Strategy!Decided
  <2>6. sigs \in [Strategy!Rules -> Strategy!Signal \union {Strategy!NoSignal}]
    BY <2>2, <2>3
  <2>7. /\ ds \in Seq(Strategy!Decisions) /\ Len(ds) <= 3
        /\ \A i \in 1 .. Len(ds) :
             \/ ds[i] = "HOLD"
             \/ /\ i = 1 /\ "trend_following" \in Enabled
                /\ Says(ds[i], sigs, believed[s], "ema_cross", "macd_cross")
             \/ /\ "mean_reversion" \in Enabled
                /\ Says(ds[i], sigs, believed[s], "rsi", "bollinger")
    BY Evaluated
  <2> HIDE DEF sigs, ds
  <2>8. PICK i \in 1 .. Len(ds) :
          ds[i] # "HOLD" /\ believed'[s] = Strategy!PositionAfter(ds[i])
    BY <2>5, <2>7, Recorded
  <2>9. PICK primary \in Strategy!Rules, confirm \in Strategy!Rules :
          /\ Says(ds[i], sigs, believed[s], primary, confirm)
          /\ \E p \in Strategy!Pairs : p[2] = {primary, confirm}
    <3>1. {"ema_cross", "macd_cross", "rsi", "bollinger"} = Strategy!Rules
      BY DEF Strategy!Rules
    <3>2. CASE /\ "trend_following" \in Enabled
               /\ Says(ds[i], sigs, believed[s], "ema_cross", "macd_cross")
      <4>1. <<"trend_following", {"ema_cross", "macd_cross"}>> \in Strategy!Pairs
        BY <3>2 DEF Strategy!Pairs
      <4>2. QED BY <3>1, <3>2, <4>1
    <3>3. CASE /\ "mean_reversion" \in Enabled
               /\ Says(ds[i], sigs, believed[s], "rsi", "bollinger")
      <4>1. <<"mean_reversion", {"rsi", "bollinger"}>> \in Strategy!Pairs
        BY <3>3 DEF Strategy!Pairs
      <4>2. QED BY <3>1, <3>3, <4>1
    <3>4. QED BY <2>7, <2>8, <3>2, <3>3
  <2>10. ds[i] \in Moves
    BY <2>7, <2>8 DEF Moves, Strategy!Decisions
  <2>11. /\ ds[i] = "LONG_ENTRY" => sigs[primary] = Word("BUY") /\ sigs[confirm] = Word("BUY")
         /\ ds[i] = "SHORT_ENTRY" => sigs[primary] = Word("SELL") /\ sigs[confirm] = Word("SELL")
         /\ ds[i] = "LONG_EXIT" => believed[s] = "long" /\ sigs[primary] = Word("EXIT_LONG")
         /\ ds[i] = "SHORT_EXIT" => believed[s] = "short" /\ sigs[primary] = Word("EXIT_SHORT")
    BY <2>6, <2>9, WhatWasSaid
  <2>12. CASE ds[i] = "LONG_ENTRY"
    <3>1. Strategy!Unanimous(signals'[s], "BUY")
      BY <2>5, <2>9, <2>11, <2>12 DEF Strategy!Unanimous, Word
    <3>2. believed'[s] = "long"
      BY <2>8, <2>12 DEF Strategy!PositionAfter
    <3>3. QED BY <3>1, <3>2
  <2>13. CASE ds[i] = "SHORT_ENTRY"
    <3>1. Strategy!Unanimous(signals'[s], "SELL")
      BY <2>5, <2>9, <2>11, <2>13 DEF Strategy!Unanimous, Word
    <3>2. believed'[s] = "short"
      BY <2>8, <2>13 DEF Strategy!PositionAfter
    <3>3. QED BY <3>1, <3>2
  <2>14. CASE ds[i] = "LONG_EXIT" \/ ds[i] = "SHORT_EXIT"
    <3>1. believed'[s] = "flat"
      BY <2>8, <2>14 DEF Strategy!PositionAfter
    <3>2. sigs[primary] = [side |-> Strategy!ExitSide(believed[s]), confident |-> TRUE]
      BY <2>11, <2>14 DEF Strategy!ExitSide, Word
    <3>3. QED BY <2>5, <2>9, <3>1, <3>2
  <2>15. QED
    BY <2>10, <2>12, <2>13, <2>14 DEF Moves, Strategy!Entries, Strategy!Exits
<1>2. QED BY <1>1, Typing, PTL DEF Spec, PositionFollowsRules

-----------------------------------------------------------------------------
(* What one step of risk and of paper does to their positions and to the   *)
(* queues around them.                                                     *)
IntentOf(d, ok) == [series |-> d.series, action |-> d.action,
                    status |-> IF ok THEN "APPROVED" ELSE "REJECTED"]

RiskStep(d, in, ok) ==
  /\ d \in Decision /\ d = Head(decisions) /\ in \in Risk!Input
  /\ in.series = d.series /\ in.decision = d.action
  /\ ok = Risk!Approves(in)
  /\ IntentOf(d, ok) \in Intent
  /\ ok => d.action \in Moves
  /\ \A s \in Series :
       riskPosition'[s] = IF ok THEN Moved(riskPosition[s], s, d) ELSE riskPosition[s]
  /\ approved' = IF ok THEN approved + 1 ELSE approved
  /\ refused' = IF Risk!RefusedByLimit(in) THEN refused + 1 ELSE refused
  /\ \/ droppedIntents' = droppedIntents /\ intents' = Append(intents, IntentOf(d, ok))
     \/ droppedIntents' = droppedIntents + 1 /\ intents' = intents

LEMMA RiskStepped ==
  ASSUME Typed, RiskHandle
  PROVE  \E d \in Decision, in \in Risk!Input, ok \in BOOLEAN : RiskStep(d, in, ok)
<1>1. PICK strong \in Strong :
        LET d == Head(decisions)
            ok == Risk!Approves(RiskInput(d, strong))
            intent == [series |-> d.series, action |-> d.action,
                       status |-> IF ok THEN "APPROVED" ELSE "REJECTED"]
        IN /\ Risk!Process(RiskInput(d, strong))
           /\ approved' = IF ok THEN approved + 1 ELSE approved
           /\ refused' = IF Risk!RefusedByLimit(RiskInput(d, strong))
                           THEN refused + 1 ELSE refused
           /\ Publish(intent, intents, intents', droppedIntents, droppedIntents')
  BY DEF RiskHandle
<1> DEFINE d == Head(decisions)
           in == RiskInput(d, strong)
           ok == Risk!Approves(in)
<1>2. d \in Decision
  BY HeadTailProperties DEF RiskHandle, Typed
<1>3. in \in Risk!Input
  BY <1>2, StrongBoolean DEF RiskInput, Risk!Input, Decision, Risk!Decisions, Risk!Days,
     Strategy!Decisions, Risk!Entries, Risk!Exits, Strategy!Entries, Strategy!Exits
<1>4. ok \in BOOLEAN
  BY DEF Risk!Approves
<1>5. in.series = d.series /\ in.decision = d.action
  BY DEF RiskInput
<1>6. ok => d.action \in Moves
  BY <1>1, <1>3, <1>5, RiskTyped DEF Typed, TypeOK
<1>7. IntentOf(d, ok) \in Intent
  BY <1>2, <1>6 DEF Intent, Decision, IntentOf
<1> HIDE DEF d, in
<1>8. ASSUME NEW s \in Series
      PROVE  riskPosition'[s] = IF ok THEN Moved(riskPosition[s], s, d) ELSE riskPosition[s]
  <2>1. CASE ok
    <3>1. riskPosition' = [riskPosition EXCEPT ![d.series] = Risk!PositionAfter(d.action)]
      BY <1>1, <1>5, <2>1 DEF Risk!Process, d, in
    <3>2. d.action # "HOLD" /\ d.series \in Series
      BY <1>2, <1>6, <2>1 DEF Moves, Strategy!Entries, Strategy!Exits, Decision
    <3>3. QED BY <2>1, <3>1, <3>2 DEF Moved, Typed, TypeOK, Risk!TypeOK
  <2>2. CASE ~ok
    BY <1>1, <2>2 DEF Risk!Process, d, in
  <2>3. QED BY <2>1, <2>2
<1>9. \/ droppedIntents' = droppedIntents /\ intents' = Append(intents, IntentOf(d, ok))
      \/ droppedIntents' = droppedIntents + 1 /\ intents' = intents
  BY <1>1 DEF Publish, IntentOf, d, in
<1>10. /\ approved' = IF ok THEN approved + 1 ELSE approved
       /\ refused' = IF Risk!RefusedByLimit(in) THEN refused + 1 ELSE refused
  BY <1>1 DEF d, in
<1>11. d = Head(decisions)
  BY DEF d
<1> HIDE DEF ok
<1>12. ok = Risk!Approves(in)
  BY DEF ok
<1>13. RiskStep(d, in, ok)
  BY <1>2, <1>3, <1>5, <1>6, <1>7, <1>8, <1>9, <1>10, <1>11, <1>12 DEF RiskStep
<1>14. QED BY <1>2, <1>3, <1>4, <1>13

(* Paper moves the position of an approved intent when it has a price, and *)
(* then reports a fill.                                                    *)
PaperFills(i, r) ==
  /\ i \in Intent /\ i = Head(intents) /\ r \in Report
  /\ i.status = "APPROVED" /\ i.action \in Moves
  /\ r.series = i.series /\ r.action = i.action
  /\ r.status = IF DefaultPrice > 0 THEN "FILLED" ELSE "REJECTED"
  /\ \A s \in Series :
       positions'[s] = IF DefaultPrice > 0 THEN Moved(positions[s], s, i) ELSE positions[s]
  /\ intents' = Tail(intents)
  /\ \/ droppedReports' = droppedReports /\ reports' = Append(reports, r)
     \/ droppedReports' = droppedReports + 1 /\ reports' = reports

LEMMA PaperStepped ==
  ASSUME Typed, PaperExecute
  PROVE  \E i \in Intent, r \in Report : PaperFills(i, r)
<1> DEFINE i == Head(intents)
           r == Paper!ReportOf(i.series, i.action, IntentPrice)
<1>1. i \in Intent /\ i.status = "APPROVED"
  BY HeadTailProperties DEF PaperExecute, Typed
<1>2. i.series \in Series /\ i.action \in Moves
  BY <1>1 DEF Intent
<1>3. r \in Report
  BY <1>2, PaperTyped, PaperPrices DEF PaperExecute, Typed, TypeOK
<1>4. Paper!BasePrice(IntentPrice) = DefaultPrice /\ DefaultPrice \in Nat
  BY PaperPrices DEF Paper!BasePrice, IntentPrice
<1>5. /\ r.series = i.series /\ r.action = i.action
      /\ r.status = IF DefaultPrice > 0 THEN "FILLED" ELSE "REJECTED"
  BY <1>4 DEF Paper!ReportOf
<1>6. intents' = Tail(intents)
  BY DEF PaperExecute
<1>7. \/ droppedReports' = droppedReports /\ reports' = Append(reports, r)
      \/ droppedReports' = droppedReports + 1 /\ reports' = reports
  BY DEF PaperExecute, Publish
<1> HIDE DEF r
<1>8. positions' = IF DefaultPrice > 0
                     THEN [positions EXCEPT ![i.series] = Risk!PositionAfter(i.action)]
                     ELSE positions
  BY <1>4 DEF PaperExecute, Paper!Execute, Paper!SideAfter, Risk!PositionAfter
<1> HIDE DEF i
<1>9. ASSUME NEW s \in Series
      PROVE  positions'[s] = IF DefaultPrice > 0 THEN Moved(positions[s], s, i)
                                                 ELSE positions[s]
  <2>1. i.action # "HOLD"
    BY <1>2 DEF Moves, Strategy!Entries, Strategy!Exits
  <2>2. QED BY <1>2, <1>8, <2>1 DEF Moved, Typed, TypeOK, Paper!TypeOK
<1>10. i = Head(intents)
  BY DEF i
<1>11. PaperFills(i, r)
  BY <1>1, <1>2, <1>3, <1>5, <1>6, <1>7, <1>9, <1>10 DEF PaperFills
<1>12. QED BY <1>1, <1>3, <1>11

LEMMA LeadsTail ==
  ASSUME NEW T, NEW q \in Seq(T), q # <<>>, NEW side, NEW s, NEW goal
  PROVE  Leads(side, s, q, goal) <=> Leads(Moved(side, s, Head(q)), s, Tail(q), goal)
<1>1. Len(q) - 1 \in 0 .. Len(q) - 1 /\ (Len(q) - 1) + 1 = Len(q)
  BY LenProperties, EmptySeq
<1>2. QED BY <1>1, Taken DEF Leads

LEMMA Events ==
  /\ \A e \in Intent : e.series \in Series /\ e.action \in Strategy!Decisions
  /\ \A e \in Report : e.series \in Series /\ e.action \in Strategy!Decisions
  /\ \A e \in Decision : e.series \in Series /\ e.action \in Strategy!Decisions
BY DEF Intent, Report, Decision, Moves, Strategy!Decisions

(* What appending to a queue and taking its first event off do to where    *)
(* its approved (or filled) events lead.                                   *)
LEMMA AskedQueued ==
  ASSUME NEW T, \A e \in T : e.series \in Series /\ e.action \in Strategy!Decisions,
         NEW q \in Seq(T), NEW e \in T, NEW status, NEW side, NEW s, NEW mid, NEW goal,
         Leads(side, s, Asks(q, status), mid)
  PROVE  Leads(side, s, Asks(Append(q, e), status), goal)
           <=> goal = IF e.status = status THEN Moved(mid, s, e) ELSE mid
<1>1. Asks(q, status) \in Seq(Decision)
  BY AskedSeq
<1>2. Ask(e, e.status = status) \in Decision
  BY DEF Ask, Decision, Strategy!Decisions
<1>3. Moved(mid, s, Ask(e, e.status = status)) = IF e.status = status THEN Moved(mid, s, e) ELSE mid
  BY DEF Moved, Ask
<1>4. Asks(Append(q, e), status) = Append(Asks(q, status), Ask(e, e.status = status))
  BY AskedAppend
<1>5. QED BY <1>1, <1>2, <1>3, <1>4, Queued

LEMMA AskedTaken ==
  ASSUME NEW T, \A e \in T : e.series \in Series /\ e.action \in Strategy!Decisions,
         NEW q \in Seq(T), q # <<>>, NEW status, NEW side, NEW s, NEW goal
  PROVE  Leads(side, s, Asks(q, status), goal)
           <=> Leads(IF Head(q).status = status THEN Moved(side, s, Head(q)) ELSE side,
                     s, Asks(Tail(q), status), goal)
<1>1. /\ Asks(q, status) # <<>> /\ Asks(Tail(q), status) = Tail(Asks(q, status))
      /\ Head(Asks(q, status)) = Ask(Head(q), Head(q).status = status)
  BY AskedTail
<1>2. Asks(q, status) \in Seq(Decision)
  BY AskedSeq
<1>3. Moved(side, s, Ask(Head(q), Head(q).status = status))
        = IF Head(q).status = status THEN Moved(side, s, Head(q)) ELSE side
  BY DEF Moved, Ask
<1>4. Leads(side, s, Asks(q, status), goal)
        <=> Leads(Moved(side, s, Head(Asks(q, status))), s, Tail(Asks(q, status)), goal)
  BY <1>1, <1>2, LeadsTail
<1>5. QED BY <1>1, <1>3, <1>4

LEMMA RiskPaperInductive ==
  ASSUME Typed, RiskAgreesWithPaper, [Next]_vars
  PROVE  RiskAgreesWithPaper'
<1> SUFFICES ASSUME droppedIntents' = 0, cancelled' = 0, DefaultPrice > 0, NEW s \in Series
             PROVE  Leads(positions'[s], s, Approvals', riskPosition'[s])
  BY DEF RiskAgreesWithPaper, Leads
<1> USE DEF strategyVars, riskVars, paperVars, portfolioVars
<1>1. ASSUME droppedIntents = 0, cancelled = 0
      PROVE  Leads(positions[s], s, Asks(intents, "APPROVED"), riskPosition[s])
  BY <1>1 DEF RiskAgreesWithPaper, Approvals
<1>2. Approvals' = Asks(intents', "APPROVED")
  BY DEF Approvals
<1>3. intents \in Seq(Intent) /\ droppedIntents \in Nat /\ cancelled \in Nat
  BY DEF Typed
<1>4. CASE UNCHANGED <<riskPosition, positions, intents, droppedIntents, cancelled>>
  BY <1>1, <1>2, <1>4
<1>5. CASE RiskHandle
  <2>1. PICK d \in Decision, in \in Risk!Input, ok \in BOOLEAN : RiskStep(d, in, ok)
    BY <1>5, RiskStepped
  <2>2. UNCHANGED <<positions, cancelled>>
    BY <1>5 DEF RiskHandle
  <2>3. /\ droppedIntents = 0 /\ intents' = Append(intents, IntentOf(d, ok))
        /\ IntentOf(d, ok) \in Intent
        /\ riskPosition'[s] = IF ok THEN Moved(riskPosition[s], s, d) ELSE riskPosition[s]
    BY <1>3, <2>1 DEF RiskStep
  <2>4. riskPosition'[s] = IF IntentOf(d, ok).status = "APPROVED"
                             THEN Moved(riskPosition[s], s, IntentOf(d, ok))
                             ELSE riskPosition[s]
    BY <2>3 DEF IntentOf, Moved
  <2>5. QED BY <1>1, <1>2, <1>3, <2>2, <2>3, <2>4, AskedQueued, Events
<1>6. CASE PaperSkip
  <2>1. /\ intents # <<>> /\ Head(intents).status # "APPROVED" /\ intents' = Tail(intents)
        /\ UNCHANGED <<riskPosition, positions, droppedIntents, cancelled>>
    BY <1>6 DEF PaperSkip
  <2>2. QED BY <1>1, <1>2, <1>3, <2>1, AskedTaken, Events
<1>7. CASE PaperExecute
  <2>1. PICK i \in Intent, r \in Report : PaperFills(i, r)
    BY <1>7, PaperStepped
  <2>2. intents # <<>> /\ UNCHANGED <<riskPosition, droppedIntents, cancelled>>
    BY <1>7 DEF PaperExecute
  <2>3. /\ Head(intents).status = "APPROVED" /\ intents' = Tail(intents)
        /\ positions'[s] = Moved(positions[s], s, Head(intents))
    BY <2>1 DEF PaperFills
  <2>4. QED BY <1>1, <1>2, <1>3, <2>2, <2>3, AskedTaken, Events
<1>8. CASE PaperDrain
  <2>1. cancelled' = cancelled + 1
    BY <1>8 DEF PaperDrain
  <2>2. QED BY <1>3, <2>1
<1>9. QED
  BY <1>4, <1>5, <1>6, <1>7, <1>8
     DEF Next, Engines, PaperStep, StrategyHandle, StrategyPublish, PaperClose,
         PortfolioHandle, Paper!Cancel, vars

(* Risk and paper hold one idea of every position, up to the approved      *)
(* intents on their way, while nothing was dropped or discarded between    *)
(* them: Evaluator.Process against Cache.apply.                            *)
THEOREM RiskAgrees == Spec => []RiskAgreesWithPaper
<1>1. Init => RiskAgreesWithPaper
  <2> SUFFICES ASSUME Init, NEW s \in Series
               PROVE  Leads(positions[s], s, Approvals, riskPosition[s])
    BY DEF RiskAgreesWithPaper
  <2>1. intents = <<>> /\ positions[s] = riskPosition[s]
    BY DEF Init, Risk!Init, Paper!Init
  <2>2. Len(Approvals) = 0
    BY <2>1 DEF Approvals, Asks
  <2>3. QED BY <2>1, <2>2, NoMoves DEF Leads
<1>2. QED BY <1>1, Typing, RiskPaperInductive, PTL DEF Spec

(* The portfolio moves the side of a filled report and of no other.        *)
LEMMA PortfolioStepped ==
  ASSUME Typed, PortfolioHandle, NEW s \in Series
  PROVE  holding'[s].side = IF Head(reports).status = "FILLED"
                              THEN Moved(holding[s].side, s, Head(reports))
                              ELSE holding[s].side
<1>1. Head(reports) \in Report /\ Account!Handle(Head(reports))
  BY HeadTailProperties DEF PortfolioHandle, Typed
<1>2. holding \in [Series -> Account!Holding]
  BY DEF Typed, TypeOK
<1>3. CASE Account!Apply(Head(reports))
  <2>1. Head(reports).action # "HOLD" /\ Head(reports).status = "FILLED"
    BY <1>1, <1>3 DEF Report, Moves, Strategy!Entries, Strategy!Exits, Account!Apply
  <2>2. QED BY <1>1, <1>2, <1>3, <2>1, AccountTyped DEF Moved
<1>4. CASE Account!Ignore(Head(reports))
  BY <1>4 DEF Account!Ignore, Account!vars
<1>5. QED BY <1>1, <1>3, <1>4 DEF Account!Handle

LEMMA PaperPortfolioInductive ==
  ASSUME Typed, PaperAgreesWithPortfolio, [Next]_vars
  PROVE  PaperAgreesWithPortfolio'
<1> SUFFICES ASSUME droppedReports' = 0, NEW s \in Series
             PROVE  Leads(holding'[s].side, s, Fills', positions'[s])
  BY DEF PaperAgreesWithPortfolio, Leads
<1> USE DEF strategyVars, riskVars, paperVars, portfolioVars
<1>1. ASSUME droppedReports = 0
      PROVE  Leads(holding[s].side, s, Asks(reports, "FILLED"), positions[s])
  BY <1>1 DEF PaperAgreesWithPortfolio, Fills
<1>2. Fills' = Asks(reports', "FILLED")
  BY DEF Fills
<1>3. reports \in Seq(Report) /\ droppedReports \in Nat
      /\ holding \in [Series -> Account!Holding]
  BY DEF Typed, TypeOK
<1>4. CASE UNCHANGED <<positions, reports, droppedReports, holding>>
  BY <1>1, <1>2, <1>4
<1>5. CASE PaperExecute
  <2>1. PICK i \in Intent, r \in Report : PaperFills(i, r)
    BY <1>5, PaperStepped
  <2>2. UNCHANGED holding
    BY <1>5 DEF PaperExecute
  <2>3. droppedReports = 0 /\ reports' = Append(reports, r)
    BY <1>3, <2>1 DEF PaperFills
  <2>4. positions'[s] = IF r.status = "FILLED" THEN Moved(positions[s], s, r)
                                               ELSE positions[s]
    BY <2>1 DEF PaperFills, Moved
  <2>5. QED BY <1>1, <1>2, <1>3, <2>2, <2>3, <2>4, AskedQueued, Events
<1>6. CASE PortfolioHandle
  <2>1. /\ reports # <<>> /\ reports' = Tail(reports) /\ Account!Handle(Head(reports))
        /\ UNCHANGED <<positions, droppedReports>>
    BY <1>6 DEF PortfolioHandle
  <2>3. holding'[s].side = IF Head(reports).status = "FILLED"
                             THEN Moved(holding[s].side, s, Head(reports))
                             ELSE holding[s].side
    BY <1>6, PortfolioStepped
  <2>4. QED BY <1>1, <1>2, <1>3, <2>1, <2>3, AskedTaken, Events
<1>7. QED
  BY <1>4, <1>5, <1>6
     DEF Next, Engines, PaperStep, StrategyHandle, StrategyPublish, RiskHandle, PaperSkip,
         PaperDrain, Paper!DropCancelled, Paper!vars, PaperClose, Paper!Cancel, vars

(* Paper and the portfolio hold one idea of every position, up to the      *)
(* reports on their way, while no report was dropped.                      *)
THEOREM PaperAgrees == Spec => []PaperAgreesWithPortfolio
<1>1. Init => PaperAgreesWithPortfolio
  <2> SUFFICES ASSUME Init, NEW s \in Series
               PROVE  Leads(holding[s].side, s, Fills, positions[s])
    BY DEF PaperAgreesWithPortfolio
  <2>1. reports = <<>> /\ positions[s] = "flat" /\ holding[s].side = "flat"
    BY DEF Init, Paper!Init, Account!Init, Account!NoHolding, Account!Series, Series
  <2>2. Len(Fills) = 0
    BY <2>1 DEF Fills, Asks
  <2>3. QED BY <2>1, <2>2, NoMoves DEF Leads
<1>2. QED BY <1>1, Typing, PaperPortfolioInductive, PTL DEF Spec

-----------------------------------------------------------------------------
(* The limit of the risk engine binds paper and the portfolio too: it      *)
(* holds after every prefix of the moves on their way.                     *)
Held(sides) == Cardinality({s \in Series : sides[s] # "flat"})

LedTo(sides, q, n, h) ==
  h \in [Series -> Sides] /\ \A s \in Series : AfterMoves(sides[s], s, q, n, h[s])

PrefixesLimited(sides, q) ==
  \A n \in 0 .. Len(q) :
    \E h \in [Series -> Sides] : LedTo(sides, q, n, h) /\ Held(h) <= MaxPositions

RiskWithinLimit == Held(riskPosition) <= MaxPositions

LEMMA HeldIsNat ==
  ASSUME NEW sides
  PROVE  IsFiniteSet({s \in Series : sides[s] # "flat"}) /\ Held(sides) \in Nat
<1>1. {s \in Series : sides[s] # "flat"} \in SUBSET Series
  OBVIOUS
<1>2. QED BY <1>1, SeriesIsFinite, FS_Subset, FS_CardinalityType DEF Held

LEMMA SameCardinality == ASSUME NEW S PROVE Risk!Cardinality(S) = Cardinality(S)
BY DEF Risk!Cardinality, Cardinality

LEMMA RiskLimitInductive ==
  ASSUME Typed, RiskWithinLimit, [Next]_vars
  PROVE  RiskWithinLimit'
<1> USE DEF strategyVars, riskVars, paperVars, portfolioVars
<1>1. CASE UNCHANGED riskPosition
  BY <1>1 DEF RiskWithinLimit, Held
<1>2. CASE RiskHandle
  <2>1. PICK d \in Decision, in \in Risk!Input, ok \in BOOLEAN : RiskStep(d, in, ok)
    BY <1>2, RiskStepped
  <2> DEFINE A == {s \in Series : riskPosition[s] # "flat"}
             B == {s \in Series : riskPosition'[s] # "flat"}
  <2>2. /\ IsFiniteSet(A) /\ Cardinality(A) \in Nat /\ Cardinality(A) <= MaxPositions
        /\ MaxPositions \in Nat
    BY HeldIsNat, LimitsNat DEF RiskWithinLimit, Held
  <2>4. d.series \in Series
        /\ \A s \in Series :
             riskPosition'[s] = IF ok THEN Moved(riskPosition[s], s, d) ELSE riskPosition[s]
    BY <2>1 DEF RiskStep, Decision
  <2>5. CASE B \subseteq A
    <3>1. Cardinality(B) \in Nat /\ Cardinality(B) <= Cardinality(A)
      BY <2>2, <2>5, FS_Subset, FS_CardinalityType
    <3>2. QED BY <2>2, <3>1 DEF RiskWithinLimit, Held
  <2>6. CASE ~(B \subseteq A)
    <3>1. /\ ok /\ d.series \notin A /\ B \subseteq A \union {d.series}
          /\ Risk!PositionAfter(d.action) # "flat"
      BY <2>4, <2>6 DEF Moved
    <3>2. d.action \in Strategy!Entries
      <4>1. d.action \in Moves
        BY <2>1, <3>1 DEF RiskStep
      <4>2. d.action \notin Strategy!Exits
        BY <3>1 DEF Risk!PositionAfter, Strategy!Exits
      <4>3. QED BY <4>1, <4>2 DEF Moves
    <3>3. Risk!HasRoom(d.series)
      BY <2>1, <3>1, <3>2 DEF RiskStep, Risk!Approves, Risk!Allowed, Strategy!Entries
    <3>4. Cardinality(A) < MaxPositions
      <4>1. riskPosition[d.series] = "flat"
        BY <2>4, <3>1
      <4>2. Risk!Cardinality(Risk!Active) < MaxPositions
        BY <3>3, <4>1 DEF Risk!HasRoom
      <4>3. QED BY <4>2, SameCardinality DEF Risk!Active
    <3>5. IsFiniteSet(A \union {d.series})
          /\ Cardinality(A \union {d.series}) = Cardinality(A) + 1
      BY <2>2, <3>1, FS_AddElement
    <3>6. Cardinality(B) \in Nat /\ Cardinality(B) <= Cardinality(A) + 1
      BY <3>1, <3>5, FS_Subset, FS_CardinalityType
    <3>7. QED BY <2>2, <3>4, <3>6 DEF RiskWithinLimit, Held
  <2>7. QED BY <2>5, <2>6
<1>3. QED
  BY <1>1, <1>2
     DEF Next, Engines, PaperStep, StrategyHandle, StrategyPublish, PaperSkip,
         PaperExecute, PaperDrain, PaperClose, PortfolioHandle, vars

LEMMA PrefixesQueued ==
  ASSUME NEW T, NEW q \in Seq(T), NEW e \in T, NEW sides, PrefixesLimited(sides, q),
         NEW h \in [Series -> Sides], Held(h) <= MaxPositions,
         \A s \in Series : Leads(sides[s], s, Append(q, e), h[s])
  PROVE  PrefixesLimited(sides, Append(q, e))
<1>1. /\ Append(q, e) = q \o <<e>> /\ <<e>> \in Seq(T)
      /\ Len(Append(q, e)) = Len(q) + 1 /\ Len(q) \in Nat
  BY AppendIsConcat, AppendProperties, LenProperties
<1> SUFFICES ASSUME NEW n \in 0 .. Len(q) + 1
             PROVE  \E g \in [Series -> Sides] :
                      LedTo(sides, Append(q, e), n, g) /\ Held(g) <= MaxPositions
  BY <1>1 DEF PrefixesLimited
<1>2. CASE n = Len(q) + 1
  BY <1>1, <1>2 DEF LedTo, Leads
<1>3. CASE n \in 0 .. Len(q)
  <2>1. PICK g \in [Series -> Sides] : LedTo(sides, q, n, g) /\ Held(g) <= MaxPositions
    BY <1>3 DEF PrefixesLimited
  <2>2. ASSUME NEW s \in Series PROVE AfterMoves(sides[s], s, Append(q, e), n, g[s])
    <3>1. AfterMoves(sides[s], s, q \o <<e>>, n, g[s]) <=> AfterMoves(sides[s], s, q, n, g[s])
      BY <1>1, <1>3, MovesBefore
    <3>2. QED BY <1>1, <2>1, <3>1 DEF LedTo
  <2>3. QED BY <2>1, <2>2 DEF LedTo
<1>4. QED BY <1>1, <1>2, <1>3

LEMMA PrefixesTaken ==
  ASSUME NEW T, NEW q \in Seq(T), q # <<>>, NEW sides, PrefixesLimited(sides, q), NEW next,
         \A s \in Series : next[s] = Moved(sides[s], s, Head(q))
  PROVE  PrefixesLimited(next, Tail(q))
<1>1. /\ Len(q) \in Nat \ {0} /\ Tail(q) \in Seq(T) /\ Len(Tail(q)) = Len(q) - 1
  BY EmptySeq, LenProperties, HeadTailProperties
<1> SUFFICES ASSUME NEW n \in 0 .. Len(q) - 1
             PROVE  \E g \in [Series -> Sides] :
                      LedTo(next, Tail(q), n, g) /\ Held(g) <= MaxPositions
  BY <1>1 DEF PrefixesLimited
<1>2. n + 1 \in 0 .. Len(q)
  BY <1>1
<1>3. PICK g \in [Series -> Sides] : LedTo(sides, q, n + 1, g) /\ Held(g) <= MaxPositions
  BY <1>2 DEF PrefixesLimited
<1>4. ASSUME NEW s \in Series PROVE AfterMoves(next[s], s, Tail(q), n, g[s])
  BY <1>3, Taken DEF LedTo
<1>5. QED BY <1>3, <1>4 DEF LedTo

(* What is held after every prefix, of the intents and of the reports; and *)
(* without a price nothing is ever held.                                   *)
PaperWithinLimit ==
  droppedIntents = 0 /\ cancelled = 0 /\ DefaultPrice > 0 =>
    PrefixesLimited(positions, Approvals)

Sided == [s \in Series |-> holding[s].side]

AccountWithinLimit ==
  droppedIntents = 0 /\ cancelled = 0 /\ droppedReports = 0 /\ DefaultPrice > 0 =>
    PrefixesLimited(Sided, Fills)

NoPriceNoHolding ==
  ~(DefaultPrice > 0) => \A s \in Series : positions[s] = "flat" /\ holding[s].side = "flat"

LimitInv ==
  /\ RiskAgreesWithPaper /\ PaperAgreesWithPortfolio
  /\ RiskWithinLimit /\ PaperWithinLimit /\ AccountWithinLimit /\ NoPriceNoHolding

LEMMA PrefixesChanged ==
  ASSUME NEW sides, NEW q, PrefixesLimited(sides, q), NEW next,
         \A s \in Series : next[s] = sides[s]
  PROVE  PrefixesLimited(next, q)
BY DEF PrefixesLimited, LedTo

LEMMA PaperLimitInductive ==
  ASSUME Typed, LimitInv, [Next]_vars
  PROVE  PaperWithinLimit'
<1> SUFFICES ASSUME droppedIntents' = 0, cancelled' = 0, DefaultPrice > 0
             PROVE  PrefixesLimited(positions', Asks(intents', "APPROVED"))
  BY DEF PaperWithinLimit, PrefixesLimited, LedTo, Approvals
<1> USE DEF strategyVars, riskVars, paperVars, portfolioVars
<1>1. ASSUME droppedIntents = 0, cancelled = 0
      PROVE  PrefixesLimited(positions, Asks(intents, "APPROVED"))
  BY <1>1 DEF LimitInv, PaperWithinLimit, Approvals
<1>2. intents \in Seq(Intent) /\ droppedIntents \in Nat /\ cancelled \in Nat
  BY DEF Typed
<1>3. CASE UNCHANGED <<positions, intents, droppedIntents, cancelled>>
  BY <1>1, <1>3
<1>4. CASE RiskHandle
  <2>1. PICK d \in Decision, in \in Risk!Input, ok \in BOOLEAN : RiskStep(d, in, ok)
    BY <1>4, RiskStepped
  <2>2. UNCHANGED <<positions, cancelled>>
    BY <1>4 DEF RiskHandle
  <2>3. /\ droppedIntents = 0 /\ intents' = Append(intents, IntentOf(d, ok))
        /\ IntentOf(d, ok) \in Intent
    BY <1>2, <2>1 DEF RiskStep
  <2> DEFINE a == Ask(IntentOf(d, ok), IntentOf(d, ok).status = "APPROVED")
  <2>4. /\ Asks(intents', "APPROVED") = Append(Asks(intents, "APPROVED"), a)
        /\ Asks(intents, "APPROVED") \in Seq(Decision)
    BY <1>2, <2>3, AskedAppend, AskedSeq, Events
  <2>5. a \in Decision
    BY <2>3, Events DEF Ask, Decision, Strategy!Decisions
  <2> HIDE DEF a
  <2>6. riskPosition' \in [Series -> Sides] /\ Held(riskPosition') <= MaxPositions
    <3>1. Typed' /\ RiskWithinLimit'
      BY TypedInductive, RiskLimitInductive DEF LimitInv
    <3>2. QED BY <3>1 DEF Typed, TypeOK, Risk!TypeOK, RiskWithinLimit, Held, Sides
  <2>7. \A s \in Series : Leads(positions[s], s, Asks(intents', "APPROVED"), riskPosition'[s])
    <3>1. RiskAgreesWithPaper'
      BY RiskPaperInductive DEF LimitInv
    <3>2. QED BY <2>2, <3>1 DEF RiskAgreesWithPaper, Leads, Approvals
  <2>8. PrefixesLimited(positions, Append(Asks(intents, "APPROVED"), a))
    BY <1>1, <2>2, <2>3, <2>4, <2>5, <2>6, <2>7, PrefixesQueued
  <2>9. QED BY <2>2, <2>4, <2>8
<1>5. CASE PaperSkip \/ PaperExecute
  <2>1. /\ intents # <<>> /\ intents' = Tail(intents)
        /\ UNCHANGED <<droppedIntents, cancelled>>
    BY <1>5 DEF PaperSkip, PaperExecute
  <2> DEFINE q == Asks(intents, "APPROVED")
  <2>2. /\ q # <<>> /\ q \in Seq(Decision) /\ Asks(intents', "APPROVED") = Tail(q)
        /\ Head(q) = Ask(Head(intents), Head(intents).status = "APPROVED")
    BY <1>2, <2>1, AskedTail, AskedSeq, Events
  <2>3. ASSUME NEW s \in Series
        PROVE  positions'[s] = Moved(positions[s], s, Head(q))
    <3>1. CASE PaperSkip
      BY <2>2, <3>1 DEF PaperSkip, Ask, Moved
    <3>2. CASE PaperExecute
      <4>1. PICK i \in Intent, r \in Report : PaperFills(i, r)
        BY <3>2, PaperStepped
      <4>2. /\ positions'[s] = Moved(positions[s], s, Head(intents))
            /\ Head(intents).status = "APPROVED"
        BY <4>1 DEF PaperFills
      <4>3. QED BY <2>2, <4>2 DEF Moved, Ask
    <3>3. QED BY <1>5, <3>1, <3>2
  <2> HIDE DEF q
  <2>4. PrefixesLimited(positions, q)
    BY <1>1, <2>1 DEF q
  <2>5. QED BY <2>2, <2>3, <2>4, PrefixesTaken
<1>6. CASE PaperDrain
  BY <1>2, <1>6 DEF PaperDrain
<1>7. QED
  BY <1>3, <1>4, <1>5, <1>6
     DEF Next, Engines, PaperStep, StrategyHandle, StrategyPublish, PaperClose,
         PortfolioHandle, Paper!Cancel, vars

LEMMA AccountLimitInductive ==
  ASSUME Typed, LimitInv, [Next]_vars
  PROVE  AccountWithinLimit'
<1> SUFFICES ASSUME droppedIntents' = 0, cancelled' = 0, droppedReports' = 0,
                    DefaultPrice > 0
             PROVE  PrefixesLimited(Sided', Asks(reports', "FILLED"))
  BY DEF AccountWithinLimit, PrefixesLimited, LedTo, Fills, Sided
<1> USE DEF strategyVars, riskVars, paperVars, portfolioVars
<1>1. ASSUME droppedIntents = 0, cancelled = 0, droppedReports = 0
      PROVE  PrefixesLimited(Sided, Asks(reports, "FILLED"))
  BY <1>1 DEF LimitInv, AccountWithinLimit, Fills
<1>2. /\ reports \in Seq(Report) /\ droppedReports \in Nat /\ droppedIntents \in Nat
      /\ cancelled \in Nat
  BY DEF Typed
<1>3. ASSUME UNCHANGED <<holding, reports, droppedReports>>,
             droppedIntents = 0, cancelled = 0
      PROVE  PrefixesLimited(Sided', Asks(reports', "FILLED"))
  <2>1. Sided' = Sided
    BY <1>3 DEF Sided
  <2>2. QED BY <1>1, <1>3, <2>1
<1>4. CASE RiskHandle
  <2>1. PICK d \in Decision, in \in Risk!Input, ok \in BOOLEAN : RiskStep(d, in, ok)
    BY <1>4, RiskStepped
  <2>2. droppedIntents = 0
    BY <1>2, <2>1 DEF RiskStep
  <2>3. QED BY <1>3, <1>4, <2>2 DEF RiskHandle
<1>5. CASE PaperExecute
  <2>1. PICK i \in Intent, r \in Report : PaperFills(i, r)
    BY <1>5, PaperStepped
  <2>2. UNCHANGED <<holding, droppedIntents, cancelled>>
    BY <1>5 DEF PaperExecute
  <2>3. droppedReports = 0 /\ reports' = Append(reports, r) /\ r \in Report
    BY <1>2, <2>1 DEF PaperFills
  <2> DEFINE a == Ask(r, r.status = "FILLED")
  <2>4. /\ Asks(reports', "FILLED") = Append(Asks(reports, "FILLED"), a)
        /\ Asks(reports, "FILLED") \in Seq(Decision)
    BY <1>2, <2>3, AskedAppend, AskedSeq, Events
  <2>5. a \in Decision
    BY <2>3, Events DEF Ask, Decision, Strategy!Decisions
  <2> HIDE DEF a
  <2>6. positions' \in [Series -> Sides] /\ Held(positions') <= MaxPositions
    <3>1. Typed' /\ PaperWithinLimit'
      BY TypedInductive, PaperLimitInductive
    <3>2. PrefixesLimited(positions', Approvals')
      BY <3>1 DEF PaperWithinLimit, PrefixesLimited, LedTo
    <3>3. 0 \in 0 .. Len(Approvals')
      <4>1. Approvals' = Asks(intents', "APPROVED") /\ intents' \in Seq(Intent)
        BY <3>1 DEF Typed, Approvals
      <4>2. Len(Approvals') \in Nat
        BY <4>1, AskedSeq, Events, LenProperties
      <4>3. QED BY <4>2
    <3>4. PICK h \in [Series -> Sides] : LedTo(positions', Approvals', 0, h)
                                         /\ Held(h) <= MaxPositions
      BY <3>2, <3>3 DEF PrefixesLimited
    <3>5. \A s \in Series : h[s] = positions'[s]
      BY <3>4, NoMoves DEF LedTo
    <3>6. positions' \in [Series -> Sides]
      BY <3>1 DEF Typed, TypeOK, Paper!TypeOK, Sides
    <3>7. h = positions'
      BY <3>5, <3>6
    <3>8. QED BY <3>4, <3>6, <3>7
  <2>7. \A s \in Series : Leads(Sided[s], s, Asks(reports', "FILLED"), positions'[s])
    <3>1. PaperAgreesWithPortfolio'
      BY PaperPortfolioInductive DEF LimitInv
    <3>2. QED BY <2>2, <3>1 DEF PaperAgreesWithPortfolio, Leads, Fills, Sided
  <2>8. PrefixesLimited(Sided, Append(Asks(reports, "FILLED"), a))
    BY <1>1, <2>2, <2>3, <2>4, <2>5, <2>6, <2>7, PrefixesQueued
  <2>9. Sided' = Sided
    BY <2>2 DEF Sided
  <2>10. QED BY <2>4, <2>8, <2>9
<1>6. CASE PortfolioHandle
  <2>1. /\ reports # <<>> /\ reports' = Tail(reports)
        /\ UNCHANGED <<droppedReports, droppedIntents, cancelled>>
    BY <1>6 DEF PortfolioHandle
  <2> DEFINE q == Asks(reports, "FILLED")
  <2>2. /\ q # <<>> /\ q \in Seq(Decision) /\ Asks(reports', "FILLED") = Tail(q)
        /\ Head(q) = Ask(Head(reports), Head(reports).status = "FILLED")
    BY <1>2, <2>1, AskedTail, AskedSeq, Events
  <2>3. ASSUME NEW s \in Series
        PROVE  Sided'[s] = Moved(Sided[s], s, Head(q))
    BY <1>6, <2>2, PortfolioStepped DEF Sided, Ask, Moved
  <2> HIDE DEF q
  <2>4. PrefixesLimited(Sided, q)
    BY <1>1, <2>1 DEF q
  <2>5. QED BY <2>2, <2>3, <2>4, PrefixesTaken
<1>7. CASE PaperDrain
  BY <1>2, <1>7 DEF PaperDrain
<1>8. QED
  BY <1>3, <1>4, <1>5, <1>6, <1>7
     DEF Next, Engines, PaperStep, StrategyHandle, StrategyPublish, PaperSkip, PaperClose,
         Paper!Cancel, vars

LEMMA NoPriceInductive ==
  ASSUME Typed, NoPriceNoHolding, [Next]_vars
  PROVE  NoPriceNoHolding'
<1> SUFFICES ASSUME ~(DefaultPrice > 0), NEW s \in Series
             PROVE  positions'[s] = "flat" /\ holding'[s].side = "flat"
  BY DEF NoPriceNoHolding
<1> USE DEF strategyVars, riskVars, paperVars, portfolioVars
<1>1. positions[s] = "flat" /\ holding[s].side = "flat"
  BY DEF NoPriceNoHolding
<1>2. CASE UNCHANGED <<positions, holding>>
  BY <1>1, <1>2
<1>3. CASE PaperExecute
  <2>1. PICK i \in Intent, r \in Report : PaperFills(i, r)
    BY <1>3, PaperStepped
  <2>2. positions'[s] = positions[s] /\ holding' = holding
    BY <1>3, <2>1 DEF PaperFills, PaperExecute
  <2>3. QED BY <1>1, <2>2
<1>4. CASE PortfolioHandle
  <2>1. Head(reports) \in Report /\ positions' = positions
    BY <1>4, HeadTailProperties DEF PortfolioHandle, Typed
  <2>2. Head(reports).status # "FILLED"
    BY <2>1 DEF Report
  <2>3. QED BY <1>1, <1>4, <2>1, <2>2, PortfolioStepped
<1>5. QED
  BY <1>2, <1>3, <1>4
     DEF Next, Engines, PaperStep, StrategyHandle, StrategyPublish, RiskHandle, PaperSkip,
         PaperDrain, Paper!DropCancelled, Paper!vars, PaperClose, Paper!Cancel, vars

(* The portfolio never holds more positions than the limit risk enforces   *)
(* on its own book, while nothing was lost on the way to it.               *)
THEOREM AccountLimited == Spec => []PortfolioWithinLimit
<1>1. Init => LimitInv
  <2> SUFFICES ASSUME Init PROVE LimitInv
    OBVIOUS
  <2>1. ASSUME NEW s \in Series
        PROVE  riskPosition[s] = "flat" /\ positions[s] = "flat" /\ holding[s].side = "flat"
    BY DEF Init, Risk!Init, Paper!Init, Account!Init, Account!NoHolding, Account!Series, Series
  <2>2. intents = <<>> /\ reports = <<>>
    BY DEF Init
  <2>3. Len(Approvals) = 0 /\ Len(Fills) = 0
    BY <2>2 DEF Approvals, Fills, Asks
  <2>4. ASSUME NEW sides, \A s \in Series : sides[s] = "flat" PROVE Held(sides) <= MaxPositions
    <3>1. {s \in Series : sides[s] # "flat"} = {}
      BY <2>4
    <3>2. QED BY <3>1, FS_EmptySet, LimitsNat DEF Held
  <2>5. ASSUME NEW sides, \A s \in Series : sides[s] = "flat", NEW q, Len(q) = 0
        PROVE  PrefixesLimited(sides, q)
    <3> DEFINE h == [s \in Series |-> "flat"]
    <3>1. h \in [Series -> Sides] /\ Held(h) <= MaxPositions
      BY <2>4 DEF Sides
    <3>2. \A s \in Series : AfterMoves(sides[s], s, q, 0, h[s])
      BY <2>5, NoMoves
    <3>3. 0 .. Len(q) = {0}
      BY <2>5
    <3> HIDE DEF h
    <3>4. QED BY <3>1, <3>2, <3>3 DEF PrefixesLimited, LedTo
  <2>6. \A s \in Series : Sided[s] = "flat"
    BY <2>1 DEF Sided
  <2>7. RiskAgreesWithPaper /\ PaperAgreesWithPortfolio
    BY <2>1, <2>3, NoMoves DEF RiskAgreesWithPaper, PaperAgreesWithPortfolio, Leads
  <2>8. RiskWithinLimit
    BY <2>1, <2>4 DEF RiskWithinLimit
  <2>9. PaperWithinLimit /\ AccountWithinLimit
    BY <2>1, <2>3, <2>5, <2>6 DEF PaperWithinLimit, AccountWithinLimit
  <2>10. NoPriceNoHolding
    BY <2>1 DEF NoPriceNoHolding
  <2>11. QED BY <2>7, <2>8, <2>9, <2>10 DEF LimitInv
<1>2. Typed /\ LimitInv /\ [Next]_vars => LimitInv'
  BY RiskPaperInductive, PaperPortfolioInductive, RiskLimitInductive, PaperLimitInductive,
     AccountLimitInductive, NoPriceInductive DEF LimitInv
<1>3. Typed /\ LimitInv => PortfolioWithinLimit
  <2> SUFFICES ASSUME Typed, LimitInv, droppedIntents = 0, droppedReports = 0, cancelled = 0
               PROVE  Cardinality({s \in Series : holding[s].side # "flat"}) <= MaxPositions
    BY DEF PortfolioWithinLimit
  <2>1. {s \in Series : holding[s].side # "flat"} = {s \in Series : Sided[s] # "flat"}
    BY DEF Sided
  <2> SUFFICES Held(Sided) <= MaxPositions
    BY <2>1 DEF Held
  <2>2. CASE DefaultPrice > 0
    <3>1. PrefixesLimited(Sided, Fills)
      BY <2>2 DEF LimitInv, AccountWithinLimit
    <3>2. Len(Fills) \in Nat
      BY AskedSeq, Events, LenProperties DEF Fills, Typed
    <3>3. 0 \in 0 .. Len(Fills)
      BY <3>2
    <3>4. PICK h \in [Series -> Sides] : LedTo(Sided, Fills, 0, h) /\ Held(h) <= MaxPositions
      BY <3>1, <3>3 DEF PrefixesLimited
    <3>5. \A s \in Series : h[s] = Sided[s]
      BY <3>4, NoMoves DEF LedTo
    <3>6. h = Sided
      BY <3>5 DEF Sided
    <3>7. QED BY <3>4, <3>6
  <2>3. CASE ~(DefaultPrice > 0)
    <3>1. {s \in Series : Sided[s] # "flat"} = {}
      BY <2>3 DEF LimitInv, NoPriceNoHolding, Sided
    <3>2. QED BY <3>1, FS_EmptySet, LimitsNat DEF Held
  <2>4. QED BY <2>2, <2>3
<1>4. QED BY <1>1, <1>2, <1>3, Typing, PTL DEF Spec

-----------------------------------------------------------------------------
(* Strategy and risk agree because the rules of mean reversion emit no     *)
(* exit signal (ReversionNeverExits). With one, and the position long, a   *)
(* Process may decide a SHORT_ENTRY for one strategy and a LONG_EXIT for   *)
(* the other: the strategies end up flat and risk, which refuses the exit, *)
(* short.                                                                  *)
RsiNeverExits ==
  \A s \in Series : signals[s]["rsi"].side \notin {"EXIT_LONG", "EXIT_SHORT"}

(* An exit in the queue finds the side it exits, or no position.           *)
Exited(action) == IF action = "LONG_EXIT" THEN "long" ELSE "short"
ExitsFit ==
  droppedDecisions = 0 /\ refused = 0 =>
    \A i \in 1 .. Len(Asked) :
      Asked[i].action \in Strategy!Exits =>
        \E g \in {Exited(Asked[i].action), "flat"} :
          AfterMoves(riskPosition[Asked[i].series], Asked[i].series, Asked, i - 1, g)

BeliefInv == RsiNeverExits /\ ExitsFit /\ StrategyAgreesWithRisk

LEMMA RsiInductive ==
  ASSUME Typed, RsiNeverExits, [Next]_vars
  PROVE  RsiNeverExits'
<1> USE DEF strategyVars, riskVars, paperVars, portfolioVars
<1>1. ASSUME NEW s \in Series, NEW a \in Arrivals, StrategyHandle(s, a[1], a[2])
      PROVE  RsiNeverExits'
  <2>1. a[1] \in Strategy!Rules /\ a[2] \in Strategy!Signal
    BY ArrivalsAreSignals
  <2>2. signals' = [signals EXCEPT ![s][a[1]] = a[2]]
    BY <1>1 DEF StrategyHandle, Strategy!Process
  <2>3. signals \in [Series -> [Strategy!Rules -> Strategy!Signal \union {Strategy!NoSignal}]]
    BY DEF Typed, TypeOK, Strategy!TypeOK
  <2>4. "rsi" \in Strategy!Rules
    BY DEF Strategy!Rules
  <2>5. ASSUME NEW t \in Series
        PROVE  signals'[t]["rsi"] = IF t = s /\ a[1] = "rsi" THEN a[2] ELSE signals[t]["rsi"]
    BY <2>1, <2>2, <2>3, <2>4
  <2>6. QED BY <2>5, ReversionNeverExits DEF RsiNeverExits
<1>2. CASE UNCHANGED signals
  BY <1>2 DEF RsiNeverExits
<1>3. QED
  BY <1>1, <1>2
     DEF Next, Engines, PaperStep, StrategyPublish, RiskHandle, PaperSkip, PaperExecute,
         PaperDrain, PaperClose, PortfolioHandle, vars

(* The outbox a Process fills leads from the position the engine believed  *)
(* to the one it believes then, and exits that position or nothing.        *)
LEMMA HandledOutbox ==
  ASSUME Typed, RsiNeverExits, NEW s \in Series, NEW a \in Arrivals,
         StrategyHandle(s, a[1], a[2]), RsiNeverExits'
  PROVE  /\ outbox' \in Seq(Decision)
         /\ \A t \in Series : Leads(believed[t], t, outbox', believed'[t])
         /\ \A i \in 1 .. Len(outbox') :
              /\ outbox'[i].series = s
              /\ outbox'[i].action \in Strategy!Exits
                   => i = 1 /\ believed[s] = Exited(outbox'[i].action)
<1> DEFINE sigs == [signals[s] EXCEPT ![a[1]] = a[2]]
           ds == Strategy!Evaluate(s, sigs)
           L == Len(ds)
<1>1. a[1] \in Strategy!Rules /\ a[2] \in Strategy!Signal
  BY ArrivalsAreSignals
<1>2. /\ signals \in [Series -> [Strategy!Rules -> Strategy!Signal \union {Strategy!NoSignal}]]
      /\ believed \in [Series -> {"flat", "long", "short"}]
  BY DEF Typed, TypeOK, Strategy!TypeOK
<1>3. /\ signals'[s] = sigs
      /\ believed' = [believed EXCEPT ![s] = Strategy!Record(@, ds)]
      /\ outbox' = [i \in 1 .. L |-> [series |-> s, action |-> ds[i]]]
  BY <1>2 DEF StrategyHandle, Strategy!Process, Strategy!Decided
<1>4. sigs \in [Strategy!Rules -> Strategy!Signal \union {Strategy!NoSignal}]
  BY <1>1, <1>2
<1>5. sigs["rsi"].side \notin {"EXIT_LONG", "EXIT_SHORT"}
  BY <1>3 DEF RsiNeverExits
<1>6. /\ ds \in Seq(Strategy!Decisions) /\ Len(ds) <= 3
      /\ \A i \in 1 .. Len(ds) :
           \/ ds[i] = "HOLD"
           \/ /\ i = 1 /\ "trend_following" \in Enabled
              /\ Says(ds[i], sigs, believed[s], "ema_cross", "macd_cross")
           \/ /\ "mean_reversion" \in Enabled
              /\ Says(ds[i], sigs, believed[s], "rsi", "bollinger")
  BY Evaluated
<1>7. L \in Nat /\ \A i \in 1 .. L : ds[i] \in Strategy!Decisions
  BY <1>6, LenProperties
<1> HIDE DEF sigs, ds
<1>8. ASSUME NEW i \in 1 .. L, ds[i] \in Strategy!Exits
      PROVE  i = 1 /\ believed[s] = Exited(ds[i])
  <2>1. /\ "ema_cross" \in Strategy!Rules /\ "macd_cross" \in Strategy!Rules
        /\ "rsi" \in Strategy!Rules /\ "bollinger" \in Strategy!Rules
    BY DEF Strategy!Rules
  <2>2. ds[i] = "LONG_EXIT" \/ ds[i] = "SHORT_EXIT"
    BY <1>8 DEF Strategy!Exits
  <2>3. ~Says(ds[i], sigs, believed[s], "rsi", "bollinger")
    <3> SUFFICES ASSUME Says(ds[i], sigs, believed[s], "rsi", "bollinger") PROVE FALSE
      OBVIOUS
    <3>1. sigs["rsi"] = Word("EXIT_LONG") \/ sigs["rsi"] = Word("EXIT_SHORT")
      BY <1>4, <2>1, <2>2, WhatWasSaid
    <3>2. QED BY <1>5, <3>1 DEF Word
  <2>4. i = 1 /\ Says(ds[i], sigs, believed[s], "ema_cross", "macd_cross")
    BY <1>6, <2>2, <2>3
  <2>5. /\ ds[i] = "LONG_EXIT" => believed[s] = "long"
        /\ ds[i] = "SHORT_EXIT" => believed[s] = "short"
    <3> DEFINE d == ds[i]
               pos == believed[s]
    <3>1. Says(d, sigs, pos, "ema_cross", "macd_cross")
      BY <2>4
    <3> HIDE DEF d, pos
    <3>2. (d = "LONG_EXIT" => pos = "long") /\ (d = "SHORT_EXIT" => pos = "short")
      BY <1>4, <2>1, <3>1, WhatWasSaid
    <3>3. QED BY <3>2 DEF d, pos
  <2>6. QED BY <2>2, <2>4, <2>5 DEF Exited
<1>9. outbox' \in Seq(Decision) /\ Len(outbox') = L /\ DOMAIN outbox' = 1 .. L
  BY <1>3, <1>7 DEF Decision
<1>10. ASSUME NEW t \in Series
       PROVE  Leads(believed[t], t, outbox', believed'[t])
  <2>1. CASE t # s
    <3>1. believed'[t] = believed[t]
      BY <1>2, <1>3, <2>1
    <3>2. {i \in 1 .. L : outbox'[i].series = t /\ outbox'[i].action # "HOLD"} = {}
      BY <1>3, <2>1
    <3>3. QED BY <1>9, <3>1, <3>2 DEF Leads, AfterMoves
  <2>2. CASE t = s
    <3>1. \A i \in 1 .. L : outbox'[i].series = s /\ outbox'[i].action = ds[i]
      BY <1>3
    <3>2. believed'[s] = Strategy!Record(believed[s], ds)
      BY <1>2, <1>3
    <3>3. CASE /\ \A i \in 1 .. L : ds[i] = "HOLD"
               /\ believed'[s] = believed[s]
      BY <1>9, <2>2, <3>1, <3>3 DEF Leads, AfterMoves
    <3>4. CASE \E i \in 1 .. L : /\ ds[i] # "HOLD"
                                 /\ \A j \in 1 .. L : ds[j] # "HOLD" => j <= i
                                 /\ believed'[s] = Strategy!PositionAfter(ds[i])
      <4>1. PICK i \in 1 .. L : /\ ds[i] # "HOLD"
                                /\ \A j \in 1 .. L : ds[j] # "HOLD" => j <= i
                                /\ believed'[s] = Strategy!PositionAfter(ds[i])
        BY <3>4
      <4>2. believed'[s] = Risk!PositionAfter(outbox'[i].action)
        BY <3>1, <4>1 DEF Strategy!PositionAfter, Risk!PositionAfter
      <4>3. QED BY <1>9, <2>2, <3>1, <4>1, <4>2 DEF Leads, AfterMoves
    <3>5. QED BY <1>6, <3>2, <3>3, <3>4, Recorded
  <2>3. QED BY <2>1, <2>2
<1>11. ASSUME NEW i \in 1 .. Len(outbox')
       PROVE  /\ outbox'[i].series = s
              /\ outbox'[i].action \in Strategy!Exits
                   => i = 1 /\ believed[s] = Exited(outbox'[i].action)
  BY <1>3, <1>8, <1>9
<1>12. QED BY <1>9, <1>10, <1>11

(* Risk books every decision it takes off its queue, unless a limit or the *)
(* threshold refuses it: the exits it refuses for another reason find no   *)
(* position.                                                               *)
LEMMA BookedUnlessRefused ==
  ASSUME Typed, ExitsFit, RiskHandle, droppedDecisions = 0, refused' = 0, NEW s \in Series
  PROVE  refused = 0 /\ riskPosition'[s] = Moved(riskPosition[s], s, Head(decisions))
<1>1. PICK d \in Decision, in \in Risk!Input, ok \in BOOLEAN : RiskStep(d, in, ok)
  BY RiskStepped
<1>2. refused = 0 /\ ~Risk!RefusedByLimit(in)
  BY <1>1 DEF RiskStep, Typed
<1>3. /\ d = Head(decisions) /\ in.series = d.series /\ in.decision = d.action
      /\ ok = Risk!Approves(in)
      /\ riskPosition'[s] = IF ok THEN Moved(riskPosition[s], s, d) ELSE riskPosition[s]
  BY <1>1 DEF RiskStep
<1>4. CASE ok \/ d.action = "HOLD" \/ d.series # s
  BY <1>2, <1>3, <1>4 DEF Moved
<1>5. CASE ~ok /\ d.action # "HOLD" /\ d.series = s
  <2>1. /\ in.confident /\ Risk!HasRoom(s) /\ Risk!TradesOn(in.day) < MaxTradesPerDay
    <3>1. in.confident /\ Risk!HasRoom(s) /\ ~(Risk!TradesOn(in.day) >= MaxTradesPerDay)
      BY <1>2, <1>3, <1>5 DEF Risk!RefusedByLimit
    <3>2. Risk!TradesOn(in.day) \in Int /\ MaxTradesPerDay \in Int
      BY LimitsNat DEF Risk!TradesOn, Typed, TypeOK, Risk!TypeOK
    <3>3. QED BY <3>1, <3>2
  <2>2. ~Risk!Allowed(s, d.action)
    BY <1>3, <1>5, <2>1 DEF Risk!Approves
  <2>3. d.action \in Moves
    BY <1>5 DEF Decision, Strategy!Decisions, Moves
  <2>4. CASE d.action \in Strategy!Entries
    <3>1. riskPosition[s] = IF d.action = "LONG_ENTRY" THEN "long" ELSE "short"
      BY <2>1, <2>2, <2>4 DEF Risk!Allowed, Strategy!Entries
    <3>2. Risk!PositionAfter(d.action) = IF d.action = "LONG_ENTRY" THEN "long" ELSE "short"
      BY <2>4, Zenon DEF Risk!PositionAfter, Strategy!Entries
    <3>3. QED BY <1>2, <1>3, <1>5, <3>1, <3>2 DEF Moved
  <2>5. CASE d.action \in Strategy!Exits
    <3>1. riskPosition[s] \in {Exited(d.action), "flat"}
      <4>1. /\ decisions \in Seq(Decision) /\ decisions # <<>> /\ outbox \in Seq(Decision)
        BY DEF Typed, RiskHandle
      <4>2. Len(decisions) \in Nat \ {0} /\ Len(outbox) \in Nat
        BY <4>1, EmptySeq, LenProperties
      <4>3. Asked[1] = decisions[1] /\ Len(Asked) = Len(decisions) + Len(outbox)
        BY <4>1, <4>2, ConcatProperties DEF Asked
      <4>4. d = decisions[1]
        BY <1>3, <4>1
      <4>5. 1 \in 1 .. Len(Asked) /\ Asked[1] = d
        BY <4>2, <4>3, <4>4
      <4>6. PICK g \in {Exited(d.action), "flat"} : AfterMoves(riskPosition[s], s, Asked, 0, g)
        BY <1>2, <1>5, <2>5, <4>5 DEF ExitsFit
      <4>7. QED BY <4>6, NoMoves
    <3>2. riskPosition[s] # Exited(d.action)
      BY <2>2, <2>5 DEF Risk!Allowed, Exited, Strategy!Exits
    <3>3. Moved(riskPosition[s], s, d) = "flat"
      BY <1>5, <2>5 DEF Moved, Risk!PositionAfter, Strategy!Exits
    <3>4. QED BY <1>2, <1>3, <1>5, <3>1, <3>2, <3>3
  <2>6. QED BY <2>3, <2>4, <2>5 DEF Moves
<1>6. QED BY <1>4, <1>5

LEMMA BeliefInductive ==
  ASSUME Typed, BeliefInv, [Next]_vars
  PROVE  BeliefInv'
<1> USE DEF strategyVars, riskVars, paperVars, portfolioVars
<1>0. RsiNeverExits'
  BY RsiInductive DEF BeliefInv
<1> SUFFICES ASSUME droppedDecisions' = 0, refused' = 0
             PROVE  ExitsFit' /\ StrategyAgreesWithRisk'
  BY <1>0 DEF BeliefInv, ExitsFit, StrategyAgreesWithRisk
<1>1. /\ decisions \in Seq(Decision) /\ outbox \in Seq(Decision)
      /\ droppedDecisions \in Nat /\ refused \in Nat
  BY DEF Typed
<1>2. Asked \in Seq(Decision) /\ Len(Asked) \in Nat
  BY <1>1, ConcatProperties, LenProperties DEF Asked
<1>3. ASSUME droppedDecisions = 0, refused = 0
      PROVE  /\ \A s \in Series : Leads(riskPosition[s], s, Asked, believed[s])
             /\ \A i \in 1 .. Len(Asked) :
                  Asked[i].action \in Strategy!Exits =>
                    \E g \in {Exited(Asked[i].action), "flat"} :
                      AfterMoves(riskPosition[Asked[i].series], Asked[i].series, Asked, i - 1, g)
  BY <1>3 DEF BeliefInv, ExitsFit, StrategyAgreesWithRisk
<1>4. ASSUME NEW s \in Series, NEW a \in Arrivals, StrategyHandle(s, a[1], a[2])
      PROVE  ExitsFit' /\ StrategyAgreesWithRisk'
  <2> DEFINE o == outbox'
  <2>1. /\ outbox = <<>> /\ Asked' = decisions \o o
        /\ UNCHANGED <<riskPosition, droppedDecisions, refused, decisions>>
    BY <1>4 DEF StrategyHandle, Asked
  <2>2. Asked = decisions
    BY <1>1, <2>1, ConcatEmptySeq DEF Asked
  <2>3. /\ o \in Seq(Decision)
        /\ \A t \in Series : Leads(believed[t], t, o, believed'[t])
        /\ \A i \in 1 .. Len(o) :
             /\ o[i].series = s
             /\ o[i].action \in Strategy!Exits => i = 1 /\ believed[s] = Exited(o[i].action)
    BY <1>0, <1>4, HandledOutbox DEF BeliefInv
  <2> HIDE DEF o
  <2>4. Len(o) \in Nat /\ Len(o) \in 0 .. Len(o) /\ Len(decisions) \in Nat
    BY <1>1, <2>3, LenProperties
  <2>5. Len(decisions \o o) = Len(decisions) + Len(o)
        /\ \A i \in 1 .. Len(decisions) + Len(o) :
             (decisions \o o)[i] = IF i <= Len(decisions) THEN decisions[i]
                                                          ELSE o[i - Len(decisions)]
    BY <1>1, <2>3, ConcatProperties
  <2>6. ASSUME NEW t \in Series
        PROVE  AfterMoves(riskPosition[t], t, decisions, Len(decisions), believed[t])
    BY <1>3, <2>1, <2>2 DEF Leads
  <2>7. ASSUME NEW t \in Series
        PROVE  Leads(riskPosition[t], t, decisions \o o, believed'[t])
    <3>1. AfterMoves(riskPosition[t], t, decisions \o o, Len(decisions) + Len(o), believed'[t])
            <=> AfterMoves(believed[t], t, o, Len(o), believed'[t])
      BY <1>1, <2>3, <2>4, <2>6, MovesBehind
    <3>2. QED BY <2>3, <2>5, <3>1 DEF Leads
  <2>8. ASSUME NEW i \in 1 .. Len(decisions) + Len(o),
               (decisions \o o)[i].action \in Strategy!Exits
        PROVE  \E g \in {Exited((decisions \o o)[i].action), "flat"} :
                 AfterMoves(riskPosition[(decisions \o o)[i].series],
                            (decisions \o o)[i].series, decisions \o o, i - 1, g)
    <3>1. CASE i <= Len(decisions)
      <4>1. (decisions \o o)[i] = decisions[i] /\ i \in 1 .. Len(decisions)
            /\ i - 1 \in 0 .. Len(decisions)
        BY <2>4, <2>5, <3>1
      <4>2. PICK g \in {Exited(decisions[i].action), "flat"} :
              AfterMoves(riskPosition[decisions[i].series], decisions[i].series,
                         decisions, i - 1, g)
        BY <1>3, <2>1, <2>2, <2>8, <4>1
      <4>3. AfterMoves(riskPosition[decisions[i].series], decisions[i].series,
                       decisions \o o, i - 1, g)
        BY <1>1, <2>3, <4>1, <4>2, MovesBefore
      <4>4. QED BY <4>1, <4>3
    <3>2. CASE i > Len(decisions)
      <4>1. i - Len(decisions) \in 1 .. Len(o)
            /\ (decisions \o o)[i] = o[i - Len(decisions)]
        BY <2>4, <2>5, <3>2
      <4>2. /\ i - Len(decisions) = 1 /\ (decisions \o o)[i].series = s
            /\ believed[s] = Exited((decisions \o o)[i].action)
        BY <2>3, <2>8, <4>1
      <4>3. i - 1 = Len(decisions) /\ Len(decisions) \in 0 .. Len(decisions)
        BY <2>4, <4>2
      <4>4. AfterMoves(riskPosition[s], s, decisions \o o, i - 1, believed[s])
        BY <1>1, <2>3, <2>6, <4>3, MovesBefore
      <4>5. QED BY <4>2, <4>4
    <3>3. QED BY <2>4, <3>1, <3>2
  <2>9. StrategyAgreesWithRisk'
    BY <2>1, <2>7 DEF StrategyAgreesWithRisk, Leads
  <2>10. ExitsFit'
    BY <2>1, <2>5, <2>8 DEF ExitsFit
  <2>11. QED BY <2>9, <2>10
<1>5. CASE StrategyPublish
  <2>1. /\ outbox # <<>> /\ outbox' = Tail(outbox)
        /\ UNCHANGED <<riskPosition, believed, refused>>
        /\ Publish(Head(outbox), decisions, decisions', droppedDecisions, droppedDecisions')
    BY <1>5 DEF StrategyPublish
  <2>2. droppedDecisions = 0 /\ decisions' = Append(decisions, Head(outbox))
    BY <1>1, <2>1 DEF Publish
  <2>3. Asked' = Asked
    <3>1. Head(outbox) \in Decision /\ Tail(outbox) \in Seq(Decision)
          /\ outbox = <<Head(outbox)>> \o Tail(outbox)
      <4> DEFINE h == <<Head(outbox)>>
      <4>1. /\ h \in Seq(Decision) /\ Len(h) = 1 /\ h[1] = Head(outbox)
            /\ Tail(outbox) \in Seq(Decision) /\ Len(Tail(outbox)) = Len(outbox) - 1
            /\ Len(outbox) \in Nat
        BY <1>1, <2>1, HeadTailProperties, LenProperties
      <4>2. \A i \in 1 .. Len(outbox) : outbox[i] = (h \o Tail(outbox))[i]
        BY <1>1, <2>1, <4>1, HeadTailProperties, ConcatProperties
      <4>3. Len(h \o Tail(outbox)) = Len(outbox) /\ h \o Tail(outbox) \in Seq(Decision)
        BY <4>1, ConcatProperties
      <4>4. outbox = h \o Tail(outbox)
        BY <1>1, <4>2, <4>3, SeqEqual
      <4>5. QED BY <1>1, <2>1, <4>1, <4>4, HeadTailProperties
    <3>2. <<Head(outbox)>> \in Seq(Decision)
      BY <3>1
    <3>3. decisions' = decisions \o <<Head(outbox)>>
      BY <1>1, <2>2, <3>1, AppendIsConcat
    <3>4. (decisions \o <<Head(outbox)>>) \o Tail(outbox)
            = decisions \o (<<Head(outbox)>> \o Tail(outbox))
      BY <1>1, <3>1, <3>2, ConcatAssociative
    <3>5. QED BY <2>1, <3>1, <3>3, <3>4 DEF Asked
  <2>4. refused = 0 /\ droppedDecisions = droppedDecisions'
    BY <2>1, <2>2
  <2>5. QED BY <1>3, <2>1, <2>2, <2>3, <2>4 DEF ExitsFit, StrategyAgreesWithRisk, Leads
<1>6. CASE RiskHandle
  <2>1. /\ decisions # <<>> /\ decisions' = Tail(decisions)
        /\ UNCHANGED <<outbox, believed, droppedDecisions>>
    BY <1>6 DEF RiskHandle
  <2>2. /\ refused = 0
        /\ \A s \in Series : riskPosition'[s] = Moved(riskPosition[s], s, Head(decisions))
    <3>1. Series # {}
      BY <1>1, <2>1, HeadTailProperties DEF Decision
    <3>2. QED BY <1>6, <2>1, <3>1, BookedUnlessRefused DEF BeliefInv
  <2>3. Asked # <<>> /\ Head(Asked) = Head(decisions) /\ Asked' = Tail(Asked)
    <3>1. /\ Len(decisions) \in Nat \ {0} /\ Len(outbox) \in Nat
          /\ Tail(decisions) \in Seq(Decision) /\ Len(Tail(decisions)) = Len(decisions) - 1
      BY <1>1, <2>1, EmptySeq, LenProperties, HeadTailProperties
    <3>2. Len(Asked) = Len(decisions) + Len(outbox) /\ Asked[1] = decisions[1]
      BY <1>1, <3>1, ConcatProperties DEF Asked
    <3>3. Asked # <<>>
      BY <1>2, <3>1, <3>2, EmptySeq
    <3>4. Head(Asked) = Asked[1] /\ Head(decisions) = decisions[1]
      BY <1>1, <1>2, <2>1, <3>3
    <3>5. /\ Tail(Asked) \in Seq(Decision) /\ Len(Tail(Asked)) = Len(Asked) - 1
          /\ \A i \in 1 .. Len(Tail(Asked)) : Tail(Asked)[i] = Asked[i + 1]
      BY <1>2, <3>3, HeadTailProperties
    <3>6. /\ Tail(decisions) \o outbox \in Seq(Decision)
          /\ Len(Tail(decisions) \o outbox) = Len(Asked) - 1
      BY <1>1, <3>1, <3>2, ConcatProperties
    <3>7. ASSUME NEW i \in 1 .. Len(Asked) - 1
          PROVE  (Tail(decisions) \o outbox)[i] = Tail(Asked)[i]
      <4>1. (Tail(decisions) \o outbox)[i]
              = IF i <= Len(Tail(decisions)) THEN Tail(decisions)[i]
                                             ELSE outbox[i - Len(Tail(decisions))]
        BY <1>1, <3>1, <3>2, ConcatProperties
      <4>2. Asked[i + 1] = IF i + 1 <= Len(decisions) THEN decisions[i + 1]
                                                     ELSE outbox[i + 1 - Len(decisions)]
        BY <1>1, <3>1, <3>2, ConcatProperties DEF Asked
      <4>3. i <= Len(Tail(decisions)) => Tail(decisions)[i] = decisions[i + 1]
        BY <1>1, <2>1, <3>1, HeadTailProperties
      <4>4. i - Len(Tail(decisions)) = i + 1 - Len(decisions)
            /\ (i <= Len(Tail(decisions)) <=> i + 1 <= Len(decisions))
        BY <3>1
      <4>5. QED BY <3>5, <4>1, <4>2, <4>3, <4>4
    <3>8. Tail(decisions) \o outbox = Tail(Asked)
      BY <3>5, <3>6, <3>7, SeqEqual
    <3>9. QED BY <2>1, <3>3, <3>4, <3>8 DEF Asked
  <2>4. ASSUME NEW s \in Series
        PROVE  Leads(riskPosition'[s], s, Tail(Asked), believed[s])
    BY <1>2, <1>3, <2>1, <2>2, <2>3, LeadsTail
  <2>5. Len(Tail(Asked)) = Len(Asked) - 1
        /\ \A i \in 1 .. Len(Tail(Asked)) : Tail(Asked)[i] = Asked[i + 1]
    BY <1>2, <2>3, HeadTailProperties
  <2>6. ASSUME NEW i \in 1 .. Len(Tail(Asked)), Tail(Asked)[i].action \in Strategy!Exits
        PROVE  \E g \in {Exited(Tail(Asked)[i].action), "flat"} :
                 AfterMoves(riskPosition'[Tail(Asked)[i].series], Tail(Asked)[i].series,
                            Tail(Asked), i - 1, g)
    <3> DEFINE e == Tail(Asked)[i]
    <3>1. e = Asked[i + 1] /\ i + 1 \in 1 .. Len(Asked) /\ (i + 1) - 1 = i
          /\ i - 1 \in 0 .. Len(Asked) - 1 /\ (i - 1) + 1 = i
      BY <1>2, <2>5
    <3>2. e \in Decision
      BY <1>2, <3>1, ElementOfSeq
    <3> HIDE DEF e
    <3>3. PICK g \in {Exited(e.action), "flat"} :
            AfterMoves(riskPosition[e.series], e.series, Asked, i, g)
      BY <1>3, <2>1, <2>2, <2>6, <3>1 DEF e
    <3>4. AfterMoves(Moved(riskPosition[e.series], e.series, Head(Asked)), e.series,
                     Tail(Asked), i - 1, g)
      <4>1. AfterMoves(riskPosition[e.series], e.series, Asked, (i - 1) + 1, g)
        BY <3>1, <3>3
      <4>2. QED BY <1>2, <2>3, <3>1, <4>1, Taken
    <3>5. riskPosition'[e.series] = Moved(riskPosition[e.series], e.series, Head(Asked))
      BY <2>2, <2>3, <3>2 DEF Decision
    <3>6. QED BY <3>3, <3>4, <3>5 DEF e
  <2>7. QED BY <2>1, <2>3, <2>4, <2>6 DEF ExitsFit, StrategyAgreesWithRisk, Leads
<1>7. CASE UNCHANGED <<decisions, outbox, believed, riskPosition, refused, droppedDecisions>>
  BY <1>3, <1>7 DEF ExitsFit, StrategyAgreesWithRisk, Asked, Leads
<1>8. QED
  BY <1>4, <1>5, <1>6, <1>7
     DEF Next, Engines, PaperStep, PaperSkip, PaperExecute, PaperDrain, PaperClose,
         PortfolioHandle, vars

(* What the strategies believe is what risk has booked, up to the          *)
(* decisions on their way, while none was dropped and no limit refused one *)
(* (recordDecision runs before anybody approved anything).                 *)
THEOREM StrategyAgrees == Spec => []StrategyAgreesWithRisk
<1>1. Init => BeliefInv
  <2> SUFFICES ASSUME Init PROVE BeliefInv
    OBVIOUS
  <2>1. RsiNeverExits
    BY DEF Init, Strategy!Init, Strategy!NoSignal, Strategy!Rules, RsiNeverExits
  <2>2. Len(Asked) = 0
    BY DEF Init, Asked
  <2>3. \A s \in Series : riskPosition[s] = believed[s]
    BY DEF Init, Strategy!Init, Risk!Init
  <2>4. QED BY <2>1, <2>2, <2>3, NoMoves
               DEF BeliefInv, ExitsFit, StrategyAgreesWithRisk, Leads
<1>2. Typed /\ BeliefInv /\ [Next]_vars => BeliefInv'
  BY BeliefInductive
<1>3. BeliefInv => StrategyAgreesWithRisk
  BY DEF BeliefInv
<1>4. QED BY <1>1, <1>2, <1>3, Typing, PTL DEF Spec

-----------------------------------------------------------------------------
(* Appending to the queue of paper and taking its first intent off count   *)
(* the approved one that arrived or left.                                  *)
ApprovedIn(q) == {i \in DOMAIN q : q[i].status = "APPROVED"}

LEMMA CountIsNat ==
  ASSUME NEW T, NEW q \in Seq(T)
  PROVE  IsFiniteSet(ApprovedIn(q)) /\ Cardinality(ApprovedIn(q)) \in Nat
<1>1. DOMAIN q = 1 .. Len(q) /\ Len(q) \in Int
  BY LenProperties
<1>2. IsFiniteSet(1 .. Len(q)) /\ ApprovedIn(q) \in SUBSET (1 .. Len(q))
  BY <1>1, FS_Interval DEF ApprovedIn
<1>3. QED BY <1>2, FS_Subset, FS_CardinalityType

LEMMA CountQueued ==
  ASSUME NEW T, NEW q \in Seq(T), NEW e \in T
  PROVE  Cardinality(ApprovedIn(Append(q, e)))
           = Cardinality(ApprovedIn(q)) + (IF e.status = "APPROVED" THEN 1 ELSE 0)
<1> DEFINE N == Len(q)
<1>1. /\ N \in Nat /\ DOMAIN q = 1 .. N /\ DOMAIN Append(q, e) = 1 .. N + 1
      /\ Append(q, e)[N + 1] = e /\ \A i \in 1 .. N : Append(q, e)[i] = q[i]
  BY AppendProperties, LenProperties
<1> HIDE DEF N
<1>2. ApprovedIn(Append(q, e))
        = IF e.status = "APPROVED" THEN ApprovedIn(q) \union {N + 1} ELSE ApprovedIn(q)
  <2>1. \A i : i \in 1 .. N + 1 <=> i \in 1 .. N \/ i = N + 1
    BY <1>1
  <2>2. QED BY <1>1, <2>1 DEF ApprovedIn
<1>3. N + 1 \notin ApprovedIn(q)
  BY <1>1 DEF ApprovedIn
<1>4. IsFiniteSet(ApprovedIn(q)) /\ Cardinality(ApprovedIn(q)) \in Nat
  BY CountIsNat
<1>5. CASE e.status = "APPROVED"
  BY <1>2, <1>3, <1>4, <1>5, FS_AddElement
<1>6. CASE e.status # "APPROVED"
  BY <1>2, <1>4, <1>6
<1>7. QED BY <1>5, <1>6

LEMMA CountTaken ==
  ASSUME NEW T, NEW q \in Seq(T), q # <<>>
  PROVE  Cardinality(ApprovedIn(q))
           = Cardinality(ApprovedIn(Tail(q))) + (IF Head(q).status = "APPROVED" THEN 1 ELSE 0)
<1> DEFINE A == ApprovedIn(Tail(q))
           B == ApprovedIn(q) \ {1}
           shift == [i \in A |-> i + 1]
<1>1. /\ Len(q) \in Nat \ {0} /\ Tail(q) \in Seq(T) /\ Len(Tail(q)) = Len(q) - 1
      /\ DOMAIN q = 1 .. Len(q) /\ DOMAIN Tail(q) = 1 .. Len(q) - 1 /\ q[1] = Head(q)
      /\ \A i \in 1 .. Len(q) - 1 : Tail(q)[i] = q[i + 1]
  BY EmptySeq, LenProperties, HeadTailProperties
<1>2. \A i \in A : i \in Nat /\ i + 1 \in B
  BY <1>1 DEF ApprovedIn
<1>3. \A k \in B : k - 1 \in A /\ (k - 1) + 1 = k
  <2>1. TAKE k \in B
  <2>2. k \in 1 .. Len(q) /\ k # 1 /\ q[k].status = "APPROVED"
    BY <1>1 DEF ApprovedIn
  <2>3. k - 1 \in 1 .. Len(q) - 1 /\ (k - 1) + 1 = k
    BY <1>1, <2>2
  <2>4. QED BY <1>1, <2>2, <2>3 DEF ApprovedIn
<1>4. /\ shift \in [A -> B] /\ \A i, j \in A : shift[i] = shift[j] => i = j
      /\ \A k \in B : \E i \in A : shift[i] = k
  BY <1>2, <1>3
<1> HIDE DEF shift, A, B
<1>5. ExistsBijection(A, B)
  BY <1>4, Fun_IsBij DEF ExistsBijection
<1>6. IsFiniteSet(A) /\ Cardinality(A) \in Nat
  BY <1>1, CountIsNat DEF A
<1>7. Cardinality(B) = Cardinality(A)
  BY <1>5, <1>6, FS_Bijection
<1>8. IsFiniteSet(ApprovedIn(q)) /\ Cardinality(ApprovedIn(q)) \in Nat
  BY CountIsNat
<1>9. 1 \in ApprovedIn(q) <=> Head(q).status = "APPROVED"
  BY <1>1 DEF ApprovedIn
<1>10. Cardinality(B) = IF 1 \in ApprovedIn(q) THEN Cardinality(ApprovedIn(q)) - 1
                                               ELSE Cardinality(ApprovedIn(q))
  BY <1>8, FS_RemoveElement DEF B
<1>11. QED BY <1>6, <1>7, <1>8, <1>9, <1>10 DEF A

LEMMA AccountedInductive ==
  ASSUME Typed, IntentsAccounted, [Next]_vars
  PROVE  IntentsAccounted'
<1> USE DEF strategyVars, riskVars, paperVars, portfolioVars
<1> DEFINE c == Cardinality(ApprovedIn(intents))
           d == Cardinality(ApprovedIn(intents'))
<1>1. /\ intents \in Seq(Intent) /\ droppedIntents \in Nat /\ cancelled \in Nat
      /\ approved \in Nat /\ orderCounter \in Nat
  BY DEF Typed, TypeOK, Paper!TypeOK
<1>2. c \in Nat
  BY <1>1, CountIsNat
<1>3. /\ orderCounter + c + cancelled <= approved
      /\ approved <= orderCounter + c + cancelled + droppedIntents
  BY DEF IntentsAccounted, ApprovedIntents, ApprovedIn
<1> SUFFICES /\ orderCounter' + d + cancelled' <= approved'
             /\ approved' <= orderCounter' + d + cancelled' + droppedIntents'
  BY DEF IntentsAccounted, ApprovedIntents, ApprovedIn
<1> HIDE DEF c, d
<1>4. CASE UNCHANGED <<orderCounter, intents, cancelled, approved, droppedIntents>>
  BY <1>3, <1>4 DEF c, d
<1>5. CASE RiskHandle
  <2>1. PICK e \in Decision, in \in Risk!Input, ok \in BOOLEAN : RiskStep(e, in, ok)
    BY <1>5, RiskStepped
  <2>2. UNCHANGED <<orderCounter, cancelled>>
    BY <1>5 DEF RiskHandle
  <2>3. approved' = IF ok THEN approved + 1 ELSE approved
    BY <2>1 DEF RiskStep
  <2>4. CASE droppedIntents' = droppedIntents /\ intents' = Append(intents, IntentOf(e, ok))
    <3>1. IntentOf(e, ok) \in Intent /\ (IntentOf(e, ok).status = "APPROVED" <=> ok)
      BY <2>1 DEF RiskStep, IntentOf
    <3>2. d = c + (IF ok THEN 1 ELSE 0)
      BY <1>1, <1>2, <2>4, <3>1, CountQueued DEF c, d
    <3>3. QED BY <1>1, <1>2, <1>3, <2>2, <2>3, <2>4, <3>2
  <2>5. CASE droppedIntents' = droppedIntents + 1 /\ intents' = intents
    <3>1. d = c
      BY <1>2, <2>5 DEF c, d
    <3>2. QED BY <1>1, <1>2, <1>3, <2>2, <2>3, <2>5, <3>1
  <2>6. QED BY <2>1, <2>4, <2>5 DEF RiskStep
<1>6. CASE PaperStep
  <2>1. /\ intents # <<>> /\ intents' = Tail(intents)
        /\ UNCHANGED <<approved, droppedIntents>>
    BY <1>6 DEF PaperStep, PaperSkip, PaperExecute, PaperDrain
  <2>2. c = d + (IF Head(intents).status = "APPROVED" THEN 1 ELSE 0)
    BY <1>1, <1>2, <2>1, CountTaken DEF c, d
  <2>3. d \in Nat
    BY <1>1, <2>1, CountIsNat, HeadTailProperties DEF d
  <2>4. \/ Head(intents).status # "APPROVED" /\ UNCHANGED <<orderCounter, cancelled>>
        \/ /\ Head(intents).status = "APPROVED"
           /\ orderCounter' = orderCounter + 1 /\ cancelled' = cancelled
        \/ /\ Head(intents).status = "APPROVED"
           /\ cancelled' = cancelled + 1 /\ orderCounter' = orderCounter
    BY <1>6 DEF PaperStep, PaperSkip, PaperExecute, PaperDrain, Paper!Execute,
                Paper!DropCancelled, Paper!vars
  <2>5. CASE Head(intents).status = "APPROVED"
    <3>1. c = d + 1
      BY <2>2, <2>5
    <3>2. CASE orderCounter' = orderCounter + 1 /\ cancelled' = cancelled
      BY <1>1, <1>3, <2>1, <2>3, <3>1, <3>2
    <3>3. CASE cancelled' = cancelled + 1 /\ orderCounter' = orderCounter
      BY <1>1, <1>3, <2>1, <2>3, <3>1, <3>3
    <3>4. QED BY <2>4, <2>5, <3>2, <3>3
  <2>6. CASE Head(intents).status # "APPROVED"
    <3>1. c = d /\ UNCHANGED <<orderCounter, cancelled>>
      BY <2>2, <2>3, <2>4, <2>6
    <3>2. QED BY <1>1, <1>3, <2>1, <3>1
  <2>7. QED BY <2>5, <2>6
<1>7. QED
  BY <1>4, <1>5, <1>6
     DEF Next, Engines, StrategyHandle, StrategyPublish, PaperClose, Paper!Cancel,
         PortfolioHandle, vars

(* No approved intent is executed twice or disappears: it is executed, on  *)
(* its way, discarded after Close, or dropped by the bus.                  *)
THEOREM NoIntentLost == Spec => []IntentsAccounted
<1>1. Init => IntentsAccounted
  <2> SUFFICES ASSUME Init PROVE IntentsAccounted
    OBVIOUS
  <2>1. ApprovedIntents = {}
    BY DEF Init, ApprovedIntents
  <2>2. QED BY <2>1, FS_EmptySet DEF Init, Paper!Init, IntentsAccounted
<1>2. QED BY <1>1, Typing, AccountedInductive, PTL DEF Spec

-----------------------------------------------------------------------------
(* Everything the run of the trade path checks of the four ideas of a      *)
(* position and of the intents between them, for every set of series,      *)
(* enabled strategies, limits, prices, buffer sizes and signals.           *)
THEOREM EnginesAlwaysAgree == Spec => []EnginesAgree
<1>1. Typed => TypeOK
  BY DEF Typed
<1>2. QED
  BY <1>1, Typing, StrategyAgrees, RiskAgrees, PaperAgrees, AccountLimited, NoIntentLost, PTL
     DEF EnginesAgree

-----------------------------------------------------------------------------
(* The account. What the open positions cost is what was paid for them,    *)
(* whatever they are worth now.                                            *)
Holdings == [Series -> Account!Holding]
Paid(h, s) == Account!SignedQuantity(h[s].side) * h[s].price
Payments(h) == [s \in Series |-> Paid(h, s)]
Cost(h) == SumFunctionOnSet(Payments(h), Account!OpenIn(h))

AccountInv ==
  /\ referencePrice \in [Symbols -> Int]
  /\ realizedTotal \in Int /\ cash \in Int /\ replaced \in Int
  /\ unrealizedTotal = Account!UnrealizedOf(holding, referencePrice)
  /\ realizedTotal + replaced = cash + Cost(holding)

LEMMA SameSum ==
  ASSUME NEW f, NEW S PROVE Account!SumFunctionOnSet(f, S) = SumFunctionOnSet(f, S)
BY DEF Account!SumFunctionOnSet, Account!FoldFunctionOnSet, Account!MapThenFoldSet,
       SumFunctionOnSet, FoldFunctionOnSet, MapThenFoldSet

LEMMA OpenFinite ==
  ASSUME NEW h
  PROVE  IsFiniteSet(Account!OpenIn(h)) /\ Account!OpenIn(h) \subseteq Series
<1>1. Account!OpenIn(h) \subseteq Series
  BY DEF Account!OpenIn, Account!Series, Series
<1>2. QED BY <1>1, SeriesIsFinite, FS_Subset

LEMMA QuantitySigned == \A side : Account!SignedQuantity(side) \in Int
<1>1. Quantity \in Int
  BY QuantityPositive
<1> QED
  BY <1>1 DEF Account!SignedQuantity

LEMMA PaidInt ==
  ASSUME NEW h \in Holdings, NEW s \in Series
  PROVE  /\ h[s].price \in Int
         /\ Paid(h, s) \in Int
         /\ Payments(h)[s] = Paid(h, s)
<1>1. Prices \union {0} \subseteq Int
  BY PaperPrices DEF Prices
<1>2. h[s].price \in Int
  BY <1>1 DEF Holdings, Account!Holding, Prices
<1> QED
  BY <1>2, QuantitySigned DEF Paid, Payments

(* What the open positions are worth is what they cost and what they have  *)
(* gained since.                                                           *)
LEMMA WorthIsCostAndGain ==
  ASSUME holding \in Holdings, referencePrice \in [Symbols -> Int]
  PROVE  /\ Account!Worth = Cost(holding) + Account!UnrealizedOf(holding, referencePrice)
         /\ Cost(holding) \in Int
         /\ Account!UnrealizedOf(holding, referencePrice) \in Int
<1> DEFINE O == Account!OpenIn(holding)
           gain == [s \in Series |-> Account!PnL(holding[s].side, holding[s].price,
                                                 referencePrice[s[1]])]
           worth == [s \in Series |->
                       Account!SignedQuantity(holding[s].side) * referencePrice[s[1]]]
<1>1. IsFiniteSet(O) /\ O \subseteq Series
  BY OpenFinite
<1>2. Account!Worth = SumFunctionOnSet(worth, O)
  BY SameSum DEF Account!Worth, Account!Open, Account!Series, Series, Account!Symbol
<1>3. Account!UnrealizedOf(holding, referencePrice) = SumFunctionOnSet(gain, O)
  BY SameSum DEF Account!UnrealizedOf, Account!Series, Series, Account!Symbol, Account!Mark
<1>4. ASSUME NEW s \in O
      PROVE  /\ Payments(holding)[s] \in Int /\ gain[s] \in Int
             /\ worth[s] = Payments(holding)[s] + gain[s]
  <2>1. s \in Series /\ s[1] \in Symbols
    BY <1>1 DEF Series
  <2>2. referencePrice[s[1]] \in Int
    BY <2>1
  <2> DEFINE q == Account!SignedQuantity(holding[s].side)
             p == holding[s].price
             r == referencePrice[s[1]]
  <2>3. q \in Int /\ p \in Int /\ Payments(holding)[s] = q * p
    BY <2>1, PaidInt, QuantitySigned DEF Paid
  <2>4. gain[s] = (r - p) * q /\ worth[s] = q * r
    BY <2>1 DEF Account!PnL
  <2> HIDE DEF q, p, r
  <2>5. (r - p) * q \in Int /\ q * p \in Int /\ q * r = q * p + (r - p) * q
    <3>1. r \in Int
      BY <2>2 DEF r
    <3> QED
      BY <2>3, <3>1
  <2> QED
    BY <2>3, <2>4, <2>5
<1> HIDE DEF O, gain, worth
<1>5. SumFunctionOnSet(worth, O)
        = SumFunctionOnSet(Payments(holding), O) + SumFunctionOnSet(gain, O)
  BY <1>1, <1>4, SumPlus
<1>6. SumFunctionOnSet(Payments(holding), O) \in Int /\ SumFunctionOnSet(gain, O) \in Int
  BY <1>1, <1>4, SumInt
<1> QED
  BY <1>2, <1>3, <1>5, <1>6 DEF Cost, O

(* The cost with one series taken out; a series that is flat costs nothing.*)
LEMMA CostWithout ==
  ASSUME NEW h \in Holdings, NEW s \in Series
  PROVE  /\ Cost(h) = Paid(h, s) + SumFunctionOnSet(Payments(h), Account!OpenIn(h) \ {s})
         /\ SumFunctionOnSet(Payments(h), Account!OpenIn(h) \ {s}) \in Int
<1> DEFINE O == Account!OpenIn(h)
<1>1. /\ IsFiniteSet(O) /\ IsFiniteSet(O \ {s})
      /\ \A x \in O : Payments(h)[x] \in Int
  BY OpenFinite, PaidInt, FS_RemoveElement
<1>2. SumFunctionOnSet(Payments(h), O \ {s}) \in Int
  BY <1>1, SumInt
<1>3. CASE s \in O
  BY <1>1, <1>2, <1>3, SumRemove, PaidInt DEF Cost
<1>4. CASE s \notin O
  <2>1. Account!SignedQuantity(h[s].side) = 0
    BY <1>4 DEF Account!OpenIn, Account!Series, Series, Account!SignedQuantity
  <2>2. Paid(h, s) = 0
    BY <2>1, PaidInt DEF Paid
  <2>3. O \ {s} = O
    BY <1>4
  <2> QED
    BY <1>2, <2>2, <2>3 DEF Cost
<1> QED
  BY <1>2, <1>3, <1>4

(* A fill changes the cost by what the series it is about costs.           *)
LEMMA CostChanges ==
  ASSUME NEW h \in Holdings, NEW k \in Holdings, NEW s \in Series,
         \A x \in Series \ {s} : k[x] = h[x]
  PROVE  Cost(k) = Cost(h) - Paid(h, s) + Paid(k, s)
<1> DEFINE O == Account!OpenIn(h) \ {s}
<1>1. Account!OpenIn(k) \ {s} = O
  BY DEF Account!OpenIn, Account!Series, Series
<1>2. IsFiniteSet(O) /\ O \subseteq Series \ {s}
  BY OpenFinite, FS_RemoveElement
<1>3. \A x \in O : Payments(k)[x] = Payments(h)[x]
  BY <1>2 DEF Payments, Paid
<1>4. SumFunctionOnSet(Payments(k), O) = SumFunctionOnSet(Payments(h), O)
  BY <1>2, <1>3, SumSame
<1> HIDE DEF O
<1>5. /\ Cost(h) = Paid(h, s) + SumFunctionOnSet(Payments(h), O)
      /\ Cost(k) = Paid(k, s) + SumFunctionOnSet(Payments(k), O)
      /\ SumFunctionOnSet(Payments(h), O) \in Int
  BY <1>1, CostWithout DEF O
<1> QED
  BY <1>4, <1>5, PaidInt

(* Whatever a fill does to a position - open, close, reverse, or exit what *)
(* is not there - money moved and profit booked differ by what it cost.    *)
LEMMA FillBalances ==
  ASSUME holding \in Holdings, AccountInv, NEW r \in Report, Account!Apply(r)
  PROVE  /\ holding' \in Holdings
         /\ realizedTotal' \in Int /\ cash' \in Int /\ replaced' \in Int
         /\ realizedTotal' + replaced' = cash' + Cost(holding')
<1> DEFINE s == r.series
           p == r.price
           q == Account!SignedQuantity(holding[s].side)
           hp == holding[s].price
           k == holding'
           new == Account!HoldingAfter(s, r.action, p)
           Q == Quantity
<1>1. s \in Series /\ r.action \in Moves /\ r.status = "FILLED" /\ p \in Int
  <2>1. r.status = "FILLED"
    BY DEF Account!Apply
  <2>2. p \in Prices /\ Prices \subseteq Int
    BY <2>1, PaperPrices DEF Report, Prices
  <2> QED
    BY <2>1, <2>2 DEF Report
<1>2. k \in Holdings
  BY AccountTyped DEF Holdings
<1>3. /\ k[s] = new
      /\ \A x \in Series \ {s} : k[x] = holding[x]
  BY <1>1 DEF Holdings, Account!Apply
<1>4. /\ q \in Int /\ hp \in Int /\ Q \in Int
      /\ Paid(holding, s) = q * hp /\ Paid(k, s) \in Int
  BY <1>1, <1>2, PaidInt, QuantitySigned, QuantityPositive DEF Paid
<1>5. Paid(k, s) = CASE r.action = "LONG_ENTRY"  -> Q * p
                     [] r.action = "SHORT_ENTRY" -> (-Q) * p
                     [] OTHER -> 0
  <2>1. CASE r.action = "LONG_ENTRY"
    BY <1>1, <1>3, <2>1
       DEF Paid, Account!HoldingAfter, Account!SideOf, Account!Entries, Account!SignedQuantity
  <2>2. CASE r.action = "SHORT_ENTRY"
    BY <1>1, <1>3, <2>2
       DEF Paid, Account!HoldingAfter, Account!SideOf, Account!Entries, Account!SignedQuantity
  <2>3. CASE r.action \notin {"LONG_ENTRY", "SHORT_ENTRY"}
    <3>1. k[s] = Account!NoHolding
      BY <1>3, <2>3 DEF Account!HoldingAfter, Account!Entries
    <3>2. Paid(k, s) = 0
      BY <3>1 DEF Paid, Account!NoHolding, Account!SignedQuantity
    <3> QED
      BY <2>3, <3>2
  <2> QED
    BY <2>1, <2>2, <2>3
<1>6. Cost(k) = Cost(holding) - q * hp + Paid(k, s)
  BY <1>1, <1>2, <1>3, <1>4, CostChanges
<1>7. Cost(holding) \in Int /\ realizedTotal + replaced = cash + Cost(holding)
  BY WorthIsCostAndGain DEF AccountInv
<1>8. /\ realizedTotal' = realizedTotal + Account!Realizes(s, r.action, p)
      /\ cash' = cash + Account!CashFlow(s, r.action, p) + Account!ReversalFlow(s, r.action, p)
      /\ replaced' = IF r.action \in Account!Entries THEN replaced + (p - hp) * q ELSE replaced
  BY DEF Account!Apply, Account!PnL
<1>9. realizedTotal \in Int /\ cash \in Int /\ replaced \in Int
  BY DEF AccountInv
<1>10. /\ p * q \in Int /\ q * hp \in Int /\ p * Q \in Int /\ Q * p = p * Q
       /\ (-Q) * p = -(p * Q)
       /\ (p - hp) * q = p * q - q * hp
  <2> HIDE DEF p, q, hp, Q
  <2> QED
    BY <1>1, <1>4
<1>11. CASE r.action = "LONG_ENTRY"
  <2>1. /\ realizedTotal' = realizedTotal
        /\ cash' = cash + (-(p * Q)) + p * q
        /\ replaced' = replaced + (p - hp) * q
    BY <1>8, <1>9, <1>11
       DEF Account!Realizes, Account!Exits, Account!Entries, Account!CashFlow,
           Account!ReversalFlow
  <2>2. Paid(k, s) = Q * p
    BY <1>5, <1>11
  <2> HIDE DEF p, q, hp, Q, k, s
  <2>3. /\ realizedTotal' \in Int /\ cash' \in Int /\ replaced' \in Int
        /\ realizedTotal' + replaced' = cash' + Cost(k)
    BY <1>6, <1>7, <1>9, <1>10, <2>1, <2>2
  <2> QED
    BY <1>2, <2>3 DEF k
<1>12. CASE r.action = "SHORT_ENTRY"
  <2>1. /\ realizedTotal' = realizedTotal
        /\ cash' = cash + p * Q + p * q
        /\ replaced' = replaced + (p - hp) * q
    BY <1>8, <1>9, <1>12
       DEF Account!Realizes, Account!Exits, Account!Entries, Account!CashFlow,
           Account!ReversalFlow
  <2>2. Paid(k, s) = -(p * Q)
    BY <1>5, <1>10, <1>12
  <2> HIDE DEF p, q, hp, Q, k, s
  <2>3. /\ realizedTotal' \in Int /\ cash' \in Int /\ replaced' \in Int
        /\ realizedTotal' + replaced' = cash' + Cost(k)
    <3> DEFINE a == p * Q
               b == p * q
               c == q * hp
    <3>1. a \in Int /\ b \in Int /\ c \in Int
      BY <1>10
    <3>2. /\ replaced' = replaced + (b - c) /\ cash' = cash + a + b
          /\ Paid(k, s) = -a /\ Cost(k) = Cost(holding) - c + Paid(k, s)
      BY <1>6, <1>10, <2>1, <2>2
    <3> HIDE DEF a, b, c
    <3> QED
      BY <1>7, <1>9, <2>1, <3>1, <3>2
  <2> QED
    BY <1>2, <2>3 DEF k
<1>13. CASE r.action \in Account!Exits
  <2>1. /\ realizedTotal' = realizedTotal + (p - hp) * q
        /\ cash' = cash + p * q
        /\ replaced' = replaced
    <3>1. Account!ReversalFlow(s, r.action, p) = 0
      BY <1>13 DEF Account!ReversalFlow, Account!Exits, Account!Entries
    <3>2. Account!CashFlow(s, r.action, p) = p * q
      BY <1>13, Zenon DEF Account!CashFlow, Account!Exits
    <3>3. Account!Realizes(s, r.action, p) = (p - hp) * q
      BY <1>13 DEF Account!Realizes, Account!PnL
    <3>4. r.action \notin Account!Entries
      BY <1>13 DEF Account!Exits, Account!Entries
    <3> HIDE DEF p, q, hp, s
    <3> QED
      BY <1>8, <1>9, <1>10, <3>1, <3>2, <3>3, <3>4
  <2>2. Paid(k, s) = 0
    BY <1>5, <1>13, Zenon DEF Account!Exits
  <2> HIDE DEF p, q, hp, Q, k, s
  <2>3. /\ realizedTotal' \in Int /\ cash' \in Int /\ replaced' \in Int
        /\ realizedTotal' + replaced' = cash' + Cost(k)
    BY <1>6, <1>7, <1>9, <1>10, <2>1, <2>2
  <2> QED
    BY <1>2, <2>3 DEF k
<1> QED
  BY <1>1, <1>11, <1>12, <1>13
     DEF Moves, Strategy!Entries, Strategy!Exits, Account!Exits

LEMMA AccountInductive ==
  ASSUME Typed, AccountInv, [Next]_vars PROVE AccountInv'
<1>1. holding \in Holdings
  BY DEF Typed, TypeOK, Holdings
<1>2. CASE UNCHANGED portfolioVars
  <2>1. UNCHANGED <<holding, referencePrice, realizedTotal, unrealizedTotal, cash, replaced>>
    BY <1>2 DEF portfolioVars
  <2> QED
    BY <2>1 DEF AccountInv
<1>3. ASSUME PortfolioHandle, Account!Apply(Head(reports)) PROVE AccountInv'
  <2> DEFINE r == Head(reports)
  <2>1. r \in Report
    BY <1>3 DEF Typed, PortfolioHandle
  <2>2. /\ holding' \in Holdings
        /\ realizedTotal' \in Int /\ cash' \in Int /\ replaced' \in Int
        /\ realizedTotal' + replaced' = cash' + Cost(holding')
    BY <1>1, <1>3, <2>1, FillBalances
  <2>3. unrealizedTotal' = Account!UnrealizedOf(holding', referencePrice')
    BY <1>3 DEF Account!Apply
  <2>4. referencePrice' \in [Symbols -> Int]
    <3>1. r.status = "FILLED" /\ referencePrice' = [referencePrice EXCEPT ![r.series[1]] = r.price]
      BY <1>3 DEF Account!Apply, Account!Symbol
    <3>2. r.price \in Int
      BY <2>1, <3>1, PaperPrices DEF Report, Prices
    <3> QED
      BY <3>1, <3>2 DEF AccountInv
  <2> QED
    BY <2>2, <2>3, <2>4 DEF AccountInv
<1>4. CASE PortfolioHandle
  <2>1. CASE Account!Ignore(Head(reports))
    <3>1. UNCHANGED portfolioVars
      BY <2>1 DEF Account!Ignore, Account!vars, portfolioVars
    <3> QED
      BY <1>2, <3>1
  <2> QED
    BY <1>3, <1>4, <2>1 DEF PortfolioHandle, Account!Handle
<1> QED
  BY <1>2, <1>4
     DEF Next, Engines, StrategyHandle, StrategyPublish, RiskHandle, PaperStep, PaperSkip,
         PaperExecute, PaperDrain, PaperClose, vars

(* The account adds up after every fill, whatever the prices, reversals    *)
(* and exits, for positions of any number of series that share the         *)
(* reference price of their symbol. (Cache.Apply, recomputeAggregates.)    *)
THEOREM Balanced == Spec => []AccountAddsUp
<1>1. Init => AccountInv
  <2> SUFFICES ASSUME Init PROVE AccountInv
    OBVIOUS
  <2>1. Account!OpenIn(holding) = {}
    BY DEF Init, Account!Init, Account!OpenIn, Account!NoHolding
  <2>2. Cost(holding) = 0 /\ Account!UnrealizedOf(holding, referencePrice) = 0
    BY <2>1, SumEmpty, SameSum DEF Cost, Account!UnrealizedOf
  <2> QED
    BY <2>2 DEF Init, Account!Init, AccountInv
<1>2. Typed /\ AccountInv => AccountAddsUp
  <2> SUFFICES ASSUME Typed, AccountInv PROVE AccountAddsUp
    OBVIOUS
  <2>1. holding \in Holdings /\ referencePrice \in [Symbols -> Int]
    BY DEF Typed, TypeOK, Holdings, AccountInv
  <2>2. /\ Account!Worth = Cost(holding) + unrealizedTotal
        /\ Cost(holding) \in Int /\ unrealizedTotal \in Int
    BY <2>1, WorthIsCostAndGain DEF AccountInv
  <2> QED
    BY <2>2 DEF AccountInv, AccountAddsUp, Account!AccountAddsUp
<1>3. QED BY <1>1, <1>2, Typing, AccountInductive, PTL DEF Spec
=============================================================================
