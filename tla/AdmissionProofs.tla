--------------------------- MODULE AdmissionProofs ---------------------------
(***************************************************************************)
(* The two parts of the platform that admit only so much at a time; they   *)
(* share no state.  The limits of the risk engine hold for any set of      *)
(* series, any limits and any sequence of decisions; the limit per calendar*)
(* day holds when the days of the decisions never go back.  Then what      *)
(* historical research promises, whoever executes and defines studies at a *)
(* time: its sessions never exceed their limit, and what is filed, reported*)
(* and packed is about the study it names.                                 *)
(***************************************************************************)
EXTENDS RiskEngine, StudyFlow, SequenceTheorems, FiniteSetTheorems, WellFoundedInduction, TLAPS

LEMMA ActiveCard == IsFiniteSet(Active) /\ Cardinality(Active) \in Nat
<1>1. Active \subseteq Series
  BY DEF Active
<1>2. QED BY <1>1, SeriesFinite, FS_Subset, FS_CardinalityType

LEMMA TypeInductive == ASSUME TypeOK, [Next]_vars PROVE TypeOK'
<1> USE DEF TypeOK
<1>1. ASSUME NEW in \in Input, Process(in)
      PROVE  TypeOK'
  <2>1. in.series \in Series /\ in.day \in Days /\ in.decision \in Decisions
    BY DEF Input
  <2>2. TradesOn(in.day) \in Nat
    BY DEF TradesOn
  <2>3. resetDay' \in 0 .. LastDay
    BY <1>1, <2>1, LastDayNat DEF Process, Days
  <2>4. PositionAfter(in.decision) \in {"flat", "long", "short"}
    BY DEF PositionAfter
  <2>5. Approves(in) => in.decision \in Entries \union Exits
    BY DEF Approves, Allowed, Entries, Exits
  <2>6. CASE Approves(in)
    BY <1>1, <2>1, <2>2, <2>3, <2>4, <2>5, <2>6 DEF Process
  <2>7. CASE ~Approves(in)
    BY <1>1, <2>2, <2>3, <2>7 DEF Process
  <2>8. QED BY <2>6, <2>7
<1>2. CASE UNCHANGED vars
  BY <1>2 DEF vars
<1>3. QED BY <1>1, <1>2 DEF Next

(* Well-typed states: the base of the other arguments.                     *)
THEOREM Typing == Spec => []TypeOK
<1>1. Init => TypeOK
  BY LastDayNat DEF Init, TypeOK
<1>2. QED BY <1>1, TypeInductive, PTL DEF Spec

-----------------------------------------------------------------------------
(* A booked action changes the set of active series by at most its series. *)
LEMMA ActiveAfter ==
  ASSUME TypeOK, NEW in \in Input, Process(in), Approves(in)
  PROVE  \/ in.decision \in Entries /\ Active' = Active \union {in.series}
         \/ in.decision \in Exits /\ Active' = Active \ {in.series}
<1>1. in.series \in Series
  BY DEF Input
<1>2. \A t \in Series : position'[t] = IF t = in.series
                          THEN PositionAfter(in.decision) ELSE position[t]
  BY <1>1 DEF Process, TypeOK
<1>3. CASE in.decision \in Entries
  <2>1. PositionAfter(in.decision) # "flat"
    BY <1>3 DEF Entries, PositionAfter
  <2>2. QED BY <1>1, <1>2, <1>3, <2>1 DEF Active
<1>4. CASE in.decision \in Exits
  <2>1. PositionAfter(in.decision) = "flat"
    BY <1>4 DEF Exits, PositionAfter
  <2>2. QED BY <1>1, <1>2, <1>4, <2>1 DEF Active
<1>5. QED BY <1>3, <1>4 DEF Approves, Allowed, Entries, Exits

LEMMA PositionLimitInductive ==
  ASSUME TypeOK, PositionLimit, [Next]_vars PROVE PositionLimit'
<1>1. ASSUME NEW in \in Input, Process(in)
      PROVE  PositionLimit'
  <2>1. CASE ~Approves(in)
    BY <1>1, <2>1 DEF Process, PositionLimit, Active
  <2>2. CASE Approves(in) /\ Active' = Active \union {in.series}
                          /\ in.decision \in Entries
    <3>1. CASE in.series \in Active
      <4>1. Active' = Active
        BY <2>2, <3>1
      <4>2. QED BY <4>1 DEF PositionLimit
    <3>2. CASE in.series \notin Active
      <4>1. Cardinality(Active) < MaxPositions
        BY <2>2, <3>2 DEF Approves, Allowed, HasRoom, Active, Entries, Input
      <4>2. Cardinality(Active') = Cardinality(Active) + 1
        BY <2>2, <3>2, ActiveCard, FS_AddElement
      <4>3. QED BY <4>1, <4>2, ActiveCard, LimitsNat DEF PositionLimit
    <3>3. QED BY <3>1, <3>2
  <2>3. CASE Approves(in) /\ Active' = Active \ {in.series}
    <3>1. Cardinality(Active') <= Cardinality(Active)
      BY <2>3, ActiveCard, FS_Subset
    <3>2. Cardinality(Active') \in Nat
      BY <2>3, ActiveCard, FS_Subset, FS_CardinalityType
    <3>3. QED BY <3>1, <3>2, ActiveCard, LimitsNat DEF PositionLimit
  <2>4. QED BY <1>1, <2>1, <2>2, <2>3, ActiveAfter
<1>2. CASE UNCHANGED vars
  BY <1>2 DEF vars, PositionLimit, Active
<1>3. QED BY <1>1, <1>2 DEF Next

(* No more than MaxPositions series are ever long or short, for any number *)
(* of series and any sequence of entries, reversals and exits.             *)
THEOREM PositionsLimited == Spec => []PositionLimit
<1>1. Init => PositionLimit
  <2>1. Init => Active = {}
    BY DEF Init, Active
  <2>2. QED BY <2>1, FS_EmptySet, LimitsNat DEF PositionLimit
<1>2. QED BY <1>1, Typing, PositionLimitInductive, PTL DEF Spec

(* The daily counter never passes the daily limit.                         *)
THEOREM CounterLimited == Spec => []DailyCounterLimit
<1>1. Init => DailyCounterLimit
  BY LimitsNat DEF Init, DailyCounterLimit
<1>2. TypeOK /\ DailyCounterLimit /\ [Next]_vars => DailyCounterLimit'
  <2> SUFFICES ASSUME TypeOK, DailyCounterLimit, [Next]_vars
               PROVE  DailyCounterLimit'
    OBVIOUS
  <2>1. ASSUME NEW in \in Input, Process(in)
        PROVE  DailyCounterLimit'
    BY <2>1, LimitsNat DEF Process, Approves, TradesOn, DailyCounterLimit, TypeOK
  <2>2. CASE UNCHANGED vars
    BY <2>2 DEF vars, DailyCounterLimit
  <2>3. QED BY <2>1, <2>2 DEF Next
<1>3. QED BY <1>1, <1>2, Typing, PTL DEF Spec

-----------------------------------------------------------------------------
(* The counter covers the approvals of the latest day seen (it may also    *)
(* count approvals of late decisions), and later days have none yet.       *)
CounterCoversLatest ==
  /\ resetDay \in Days => approvedOn[resetDay] <= tradesToday
  /\ \A d \in Days : d > resetDay => approvedOn[d] = 0

LEMMA CounterCoversInductive ==
  ASSUME TypeOK, CounterCoversLatest, [Next]_vars PROVE CounterCoversLatest'
<1>1. ASSUME NEW in \in Input, Process(in)
      PROVE  CounterCoversLatest'
  <2>0. /\ in.day \in Days /\ resetDay \in Nat /\ tradesToday \in Nat
        /\ approvedOn \in [Days -> Nat] /\ \A d \in Days : d \in Nat \ {0}
    BY LastDayNat DEF Input, TypeOK, Days
  <2>1. approvedOn' = [approvedOn EXCEPT ![in.day] = @ + (IF Approves(in) THEN 1 ELSE 0)]
    BY <1>1, <2>0 DEF Process
  <2>2. tradesToday' = TradesOn(in.day) + (IF Approves(in) THEN 1 ELSE 0)
    BY <1>1, <2>0 DEF Process, TradesOn
  <2>3. CASE NewDay(in.day)
    <3>1. resetDay' = in.day /\ TradesOn(in.day) = 0 /\ in.day > resetDay
      BY <1>1, <2>0, <2>3 DEF Process, TradesOn, NewDay
    <3>2. approvedOn[in.day] = 0
      BY <2>0, <3>1 DEF CounterCoversLatest
    <3>3. QED BY <2>0, <2>1, <2>2, <3>1, <3>2 DEF CounterCoversLatest
  <2>4. CASE ~NewDay(in.day)
    <3>1. /\ resetDay' = resetDay /\ TradesOn(in.day) = tradesToday
          /\ resetDay # 0 /\ in.day <= resetDay
      BY <1>1, <2>0, <2>4 DEF Process, TradesOn, NewDay
    <3>2. QED BY <2>0, <2>1, <2>2, <3>1 DEF CounterCoversLatest
  <2>5. QED BY <2>3, <2>4
<1>2. CASE UNCHANGED vars
  BY <1>2 DEF vars, CounterCoversLatest
<1>3. QED BY <1>1, <1>2 DEF Next

(* The latest day seen keeps the limit, in whatever order days arrive.     *)
THEOREM LatestDayLimited == Spec => []LatestDayLimit
<1>1. Init => CounterCoversLatest
  BY LastDayNat DEF Init, CounterCoversLatest, Days
<1>2. TypeOK /\ CounterCoversLatest /\ DailyCounterLimit => LatestDayLimit
  <2> SUFFICES ASSUME TypeOK, CounterCoversLatest, DailyCounterLimit, resetDay \in Days
               PROVE  approvedOn[resetDay] <= MaxTradesPerDay
    BY DEF LatestDayLimit
  <2>1. approvedOn[resetDay] \in Nat /\ tradesToday \in Nat
    BY DEF TypeOK
  <2>2. QED BY <2>1, LimitsNat DEF CounterCoversLatest, DailyCounterLimit
<1>3. QED BY <1>1, <1>2, Typing, CounterCoversInductive, CounterLimited, PTL DEF Spec

-----------------------------------------------------------------------------
(* When days never go back, the counter is the number of trades approved   *)
(* on the latest day seen, later days have none, and earlier days are over *)
(* with at most the limit.                                                 *)
CounterIsToday ==
  /\ tradesToday <= MaxTradesPerDay
  /\ resetDay \in Days => approvedOn[resetDay] = tradesToday
  /\ resetDay = 0 => tradesToday = 0
  /\ \A d \in Days : d > resetDay => approvedOn[d] = 0
  /\ DailyLimit

(* With decisions in the order of their days, no calendar day has more     *)
(* approved trades than MaxTradesPerDay.                                   *)
THEOREM DaysLimited == InOrderSpec => []DailyLimit
<1>1. Init => TypeOK /\ CounterIsToday
  BY LastDayNat, LimitsNat DEF Init, TypeOK, CounterIsToday, DailyLimit, Days
<1>2. NextInOrder => Next
  BY DEF NextInOrder, Next
<1>3. TypeOK /\ CounterIsToday /\ [NextInOrder]_vars => CounterIsToday'
  <2> SUFFICES ASSUME TypeOK, CounterIsToday, [NextInOrder]_vars
               PROVE  CounterIsToday'
    OBVIOUS
  <2>1. ASSUME NEW in \in Input, in.day >= resetDay, Process(in)
        PROVE  CounterIsToday'
    <3>0. /\ in.day \in Days /\ resetDay \in Nat /\ tradesToday \in Nat
          /\ approvedOn \in [Days -> Nat] /\ \A d \in Days : d \in Nat \ {0}
      BY LastDayNat DEF Input, TypeOK, Days
    <3>1. resetDay' = in.day
      BY <2>1, <3>0 DEF Process, NewDay
    <3>2. TradesOn(in.day) = approvedOn[in.day]
      BY <2>1, <3>0 DEF TradesOn, NewDay, CounterIsToday
    <3>3. CASE Approves(in)
      <4>1. /\ approvedOn' = [approvedOn EXCEPT ![in.day] = @ + 1]
            /\ tradesToday' = approvedOn[in.day] + 1
            /\ approvedOn[in.day] < MaxTradesPerDay
        BY <2>1, <3>2, <3>3 DEF Process, Approves
      <4>2. DailyLimit'
        BY <4>1, <3>0, LimitsNat DEF DailyLimit, CounterIsToday
      <4>3. \A d \in Days : d > in.day => approvedOn'[d] = 0
        BY <4>1, <3>0, <2>1 DEF CounterIsToday
      <4>4. QED BY <4>1, <4>2, <4>3, <3>0, <3>1, LimitsNat DEF CounterIsToday
    <3>4. CASE ~Approves(in)
      <4>1. approvedOn' = approvedOn /\ tradesToday' = approvedOn[in.day]
        BY <2>1, <3>2, <3>4 DEF Process
      <4>2. QED BY <4>1, <3>0, <3>1, <2>1, LimitsNat DEF CounterIsToday, DailyLimit
    <3>5. QED BY <3>3, <3>4
  <2>2. CASE UNCHANGED vars
    BY <2>2 DEF vars, CounterIsToday, DailyLimit
  <2>3. QED BY <2>1, <2>2 DEF NextInOrder
<1>4. QED BY <1>1, <1>2, <1>3, TypeInductive, PTL DEF InOrderSpec, CounterIsToday

-----------------------------------------------------------------------------
(* A series is long or short exactly when the last action approved for it  *)
(* was the entry of that side.                                             *)
PositionIsLastApproved ==
  \A s \in Series :
    /\ position[s] = "long" <=> lastApproved[s] = "LONG_ENTRY"
    /\ position[s] = "short" <=> lastApproved[s] = "SHORT_ENTRY"

LEMMA LastApprovedInductive ==
  ASSUME TypeOK, PositionIsLastApproved, [Next]_vars
  PROVE  PositionIsLastApproved' /\ [NoOrphanNoDouble]_vars
<1>1. ASSUME NEW in \in Input, Process(in)
      PROVE  PositionIsLastApproved' /\ NoOrphanNoDouble
  <2>1. in.series \in Series
    BY DEF Input
  <2>2. CASE Approves(in)
    <3>1. \A s \in Series :
            IF s = in.series
              THEN position'[s] = PositionAfter(in.decision) /\ lastApproved'[s] = in.decision
              ELSE position'[s] = position[s] /\ lastApproved'[s] = lastApproved[s]
                   /\ approvals'[s] = approvals[s]
      BY <1>1, <2>1, <2>2 DEF Process, TypeOK
    <3>2. \/ in.decision = "LONG_ENTRY" /\ position[in.series] # "long"
          \/ in.decision = "SHORT_ENTRY" /\ position[in.series] # "short"
          \/ in.decision = "LONG_EXIT" /\ position[in.series] = "long"
          \/ in.decision = "SHORT_EXIT" /\ position[in.series] = "short"
      BY <2>2 DEF Approves, Allowed
    <3>3. PositionIsLastApproved'
      BY <2>1, <3>1, <3>2 DEF PositionIsLastApproved, PositionAfter
    <3>4. NoOrphanNoDouble
      BY <2>1, <3>1, <3>2 DEF PositionIsLastApproved, NoOrphanNoDouble
    <3>5. QED BY <3>3, <3>4
  <2>3. CASE ~Approves(in)
    BY <1>1, <2>3 DEF Process, PositionIsLastApproved, NoOrphanNoDouble
  <2>4. QED BY <2>2, <2>3
<1>2. CASE UNCHANGED vars
  BY <1>2 DEF vars, PositionIsLastApproved
<1>3. QED BY <1>1, <1>2 DEF Next

(* What the engine approves for a series reads as trades: every exit       *)
(* directly follows an entry of its side, no entry repeats its side.       *)
THEOREM ReadsAsTrades == Spec => ApprovedReadsAsTrades
<1>1. Init => PositionIsLastApproved
  BY DEF Init, PositionIsLastApproved
<1>2. QED BY <1>1, Typing, LastApprovedInductive, PTL DEF Spec, ApprovedReadsAsTrades

-----------------------------------------------------------------------------
(* Sequences, of what may be anything.                                     *)
IsSequence(t) == t \in Seq({t[n] : n \in DOMAIN t})

LEMMA Appended ==
  ASSUME NEW t, IsSequence(t), NEW e
  PROVE  /\ IsSequence(Append(t, e))
         /\ Len(t) \in Nat /\ DOMAIN t = 1 .. Len(t)
         /\ Len(Append(t, e)) = Len(t) + 1
         /\ DOMAIN Append(t, e) = 1 .. Len(t) + 1
         /\ \A n \in 1 .. Len(t) : Append(t, e)[n] = t[n]
         /\ Append(t, e)[Len(t) + 1] = e
         /\ t \o <<e>> = Append(t, e) /\ t \o <<>> = t
<1> DEFINE S == {t[n] : n \in DOMAIN t} \union {e}
<1>1. t \in Seq(S) /\ e \in S
  BY DEF IsSequence
<1> HIDE DEF S
<1>2. Append(t, e) \in Seq(S)
  BY <1>1
<1>3. Len(t) \in Nat /\ DOMAIN t = 1 .. Len(t) /\ Len(Append(t, e)) = Len(t) + 1
        /\ DOMAIN Append(t, e) = 1 .. Len(t) + 1
  BY <1>1, <1>2
<1>4. (\A n \in 1 .. Len(t) : Append(t, e)[n] = t[n]) /\ Append(t, e)[Len(t) + 1] = e
  BY <1>1
<1>5. IsSequence(Append(t, e))
  <2> DEFINE u == Append(t, e)
           R == {u[n] : n \in DOMAIN u}
  <2>1. u \in [1 .. Len(u) -> S] /\ Len(u) \in Nat /\ DOMAIN u = 1 .. Len(u)
    BY <1>2, LenProperties
  <2> HIDE DEF u
  <2>2. u \in [1 .. Len(u) -> R]
    BY <2>1
  <2>3. u \in Seq(R)
    BY <2>1, <2>2, SeqDef
  <2> QED
    BY <2>3 DEF IsSequence, u
<1>6. t \o <<e>> = Append(t, e) /\ t \o <<>> = t
  BY <1>1
<1> QED
  BY <1>3, <1>4, <1>5, <1>6

(* A sequence over a set is one over what occurs in it.                    *)
LEMMA RangeIsEnough == ASSUME NEW S, NEW t \in Seq(S) PROVE IsSequence(t)
<1>1. t \in [1 .. Len(t) -> S] /\ Len(t) \in Nat /\ DOMAIN t = 1 .. Len(t)
  BY LenProperties
<1>2. t \in [1 .. Len(t) -> {t[n] : n \in DOMAIN t}]
  BY <1>1
<1> QED
  BY <1>1, <1>2, SeqDef DEF IsSequence

(* Queues.                                                                 *)
LEMMA Joined ==
  ASSUME NEW s, IsSequence(s), NEW t, IsSequence(t)
  PROVE  /\ IsSequence(s \o t) /\ Len(s \o t) = Len(s) + Len(t)
         /\ Len(s) \in Nat /\ Len(t) \in Nat
         /\ DOMAIN s = 1 .. Len(s) /\ DOMAIN t = 1 .. Len(t)
         /\ DOMAIN (s \o t) = 1 .. Len(s) + Len(t)
         /\ \A n \in 1 .. Len(s) : (s \o t)[n] = s[n]
         /\ \A n \in 1 .. Len(t) : (s \o t)[Len(s) + n] = t[n]
<1> DEFINE S == {s[n] : n \in DOMAIN s} \union {t[n] : n \in DOMAIN t}
           u == s \o t
<1>1. s \in Seq(S) /\ t \in Seq(S)
  BY SeqMonotonic DEF IsSequence
<1> HIDE DEF S
<1>2. /\ u \in Seq(S) /\ Len(u) = Len(s) + Len(t)
      /\ \A n \in 1 .. Len(s) + Len(t) : u[n] = IF n <= Len(s) THEN s[n] ELSE t[n - Len(s)]
  BY <1>1, ConcatProperties
<1>3. Len(s) \in Nat /\ Len(t) \in Nat /\ DOMAIN s = 1 .. Len(s) /\ DOMAIN t = 1 .. Len(t)
        /\ DOMAIN u = 1 .. Len(u)
  BY <1>1, <1>2, LenProperties
<1> HIDE DEF u
<1>4. (\A n \in 1 .. Len(s) : u[n] = s[n]) /\ \A n \in 1 .. Len(t) : u[Len(s) + n] = t[n]
  BY <1>2, <1>3
<1>5. IsSequence(u)
  BY <1>2, RangeIsEnough
<1> QED
  BY <1>2, <1>3, <1>4, <1>5 DEF u

(* A part of a sequence.                                                   *)
LEMMA Cut ==
  ASSUME NEW s, IsSequence(s), NEW m \in 1 .. Len(s) + 1, NEW k \in m - 1 .. Len(s)
  PROVE  /\ IsSequence(SubSeq(s, m, k)) /\ Len(SubSeq(s, m, k)) = k - m + 1
         /\ DOMAIN SubSeq(s, m, k) = 1 .. k - m + 1
         /\ \A n \in 1 .. k - m + 1 : SubSeq(s, m, k)[n] = s[m + n - 1]
<1> DEFINE S == {s[n] : n \in DOMAIN s}
           u == SubSeq(s, m, k)
<1>1. s \in Seq(S)
  BY DEF IsSequence
<1> HIDE DEF S
<1>2. Len(s) \in Nat /\ DOMAIN s = 1 .. Len(s) /\ \A n \in m .. k : s[n] \in S
  BY <1>1, LenProperties
<1>3. /\ u \in Seq(S) /\ Len(u) = IF m <= k THEN k - m + 1 ELSE 0
      /\ \A n \in 1 .. k - m + 1 : u[n] = s[m + n - 1]
  BY <1>2, SubSeqProperties
<1>4. Len(u) = k - m + 1 /\ DOMAIN u = 1 .. k - m + 1
  BY <1>2, <1>3, LenProperties
<1>5. IsSequence(u)
  BY <1>3, RangeIsEnough
<1> QED
  BY <1>3, <1>4, <1>5

(* A channel that is offered one event takes it where it has room.         *)
LEMMA OfferedOne ==
  ASSUME NEW q, IsSequence(q), Len(q) <= Buffer
  PROVE  /\ Offer(q, <<>>) = q
         /\ \A v : Offer(q, <<v>>) = IF Len(q) < Buffer THEN Append(q, v) ELSE q
<1> DEFINE S == {q[n] : n \in DOMAIN q}
<1>1. q \in Seq(S)
  BY DEF IsSequence
<1> HIDE DEF S
<1>2. Len(q) \in Nat /\ Len(<<>>) = 0 /\ SubSeq(q, 1, Len(q)) = q /\ q \o <<>> = q
  BY <1>1, SubSeqFull, ConcatEmptySeq
<1>0. Len(q) \in Nat /\ Len(q) <= Buffer /\ Buffer \in Nat
  BY <1>2, BufferPositive
<1>3. Offer(q, <<>>) = q
  <2>1. Len(q) + Len(<<>>) = Len(q) /\ ~(Len(q) + Len(<<>>) > Buffer)
    BY <1>0, <1>2
  <2> QED
    BY <1>2, <2>1, Zenon DEF Offer
<1>4. ASSUME NEW v PROVE Offer(q, <<v>>) = IF Len(q) < Buffer THEN Append(q, v) ELSE q
  <2>1. q \o <<v>> = Append(q, v) /\ Len(<<v>>) = 1 /\ Len(Append(q, v)) = Len(q) + 1
    BY <1>1, Appended
  <2>2. q \in Seq(S \union {v}) /\ Append(q, v) \in Seq(S \union {v})
    BY <1>1, SeqMonotonic, AppendProperties
  <2>3. CASE Len(q) < Buffer
    <3>1. SubSeq(Append(q, v), 1, Len(q) + 1) = Append(q, v)
      BY <2>1, <2>2, SubSeqFull
    <3> QED
      BY <1>2, <2>1, <2>3, <3>1, BufferPositive DEF Offer
  <2>4. CASE Len(q) = Buffer
    <3>1. 1 \in 1 .. Len(q) /\ Len(q) \in 1 .. Len(q)
      BY <1>2, <2>4, BufferPositive
    <3>2. <<v>> \in Seq(S \union {v})
      OBVIOUS
    <3>3. SubSeq(q \o <<v>>, 1, Len(q)) = SubSeq(q, 1, Len(q))
      BY <2>2, <3>1, <3>2, SubSeqOfConcat1
    <3> QED
      BY <1>2, <2>1, <2>4, <3>3, BufferPositive DEF Offer
  <2> QED
    BY <1>0, <2>3, <2>4
<1> QED
  BY <1>3, <1>4

(* A channel without the event that its engine took.                       *)
LEMMA Tailed ==
  ASSUME NEW q, IsSequence(q), q # <<>>
  PROVE  /\ IsSequence(Tail(q)) /\ Len(Tail(q)) = Len(q) - 1 /\ Len(q) \in Nat \ {0}
         /\ DOMAIN q = 1 .. Len(q) /\ DOMAIN Tail(q) = 1 .. Len(q) - 1
         /\ \A n \in 1 .. Len(q) - 1 : Tail(q)[n] = q[n + 1]
         /\ Head(q) = q[1]
<1> DEFINE S == {q[n] : n \in DOMAIN q}
<1>1. q \in Seq(S)
  BY DEF IsSequence
<1> HIDE DEF S
<1>2. Tail(q) \in Seq(S) /\ Len(Tail(q)) = Len(q) - 1 /\ Len(q) \in Nat \ {0}
        /\ \A n \in 1 .. Len(Tail(q)) : Tail(q)[n] = q[n + 1]
  BY <1>1, HeadTailProperties, EmptySeq
<1>3. DOMAIN q = 1 .. Len(q) /\ DOMAIN Tail(q) = 1 .. Len(q) - 1
  BY <1>1, <1>2, LenProperties
<1>4. IsSequence(Tail(q))
  BY <1>2, RangeIsEnough
<1>5. Head(q) = q[1]
  BY <1>1
<1> QED
  BY <1>2, <1>3, <1>4, <1>5

(* A family of subsets of a finite set has a smallest member.              *)
LEMMA Smallest ==
  ASSUME NEW S, IsFiniteSet(S), NEW T, T \subseteq SUBSET S, T # {}
  PROVE  \E t \in T : \A u \in T : ~ (u \subseteq t /\ u # t)
<1>1. IsWellFoundedOn(StrictSubsetOrdering(S), FiniteSubsetsOf(S))
  BY FS_StrictSubsetOrderingWellFounded
<1>2. T \subseteq FiniteSubsetsOf(S)
  BY FS_Subset DEF FiniteSubsetsOf
<1>3. PICK t \in T : \A u \in T : <<u, t>> \notin StrictSubsetOrdering(S)
  BY <1>1, <1>2, WFMin
<1> QED
  BY <1>3 DEF StrictSubsetOrdering

-----------------------------------------------------------------------------
(* A finite set of integers that is not empty has a highest and a lowest.  *)
LEMMA MaxFound ==
  ASSUME NEW S, IsFiniteSet(S), S \subseteq Int, S # {}
  PROVE  Max(S) \in S /\ \A y \in S : y <= Max(S)
<1> DEFINE D == S
           T == {u \in SUBSET D : u # {} /\ ~ \E x \in u : \A y \in u : x >= y}
<1>1. T = {}
  <2>1. SUFFICES ASSUME T # {} PROVE FALSE
    OBVIOUS
  <2>2. T \subseteq SUBSET D /\ IsFiniteSet(D)
    OBVIOUS
  <2>3. PICK u \in T : \A v \in T : ~ (v \subseteq u /\ v # u)
    <3> HIDE DEF T, D
    <3> QED
      BY <2>1, <2>2, Smallest
  <2>4. PICK e \in u : TRUE
    OBVIOUS
  <2>5. u \ {e} \notin T
    BY <2>3, <2>4
  <2>6. CASE u \ {e} = {}
    BY <2>4, <2>6
  <2>7. CASE u \ {e} # {}
    <3>1. PICK x \in u \ {e} : \A y \in u \ {e} : x >= y
      BY <2>5, <2>7
    <3>2. x \in Int /\ e \in Int /\ u \subseteq Int
      BY <2>4, <3>1
    <3>3. CASE x >= e
      BY <3>1, <3>3
    <3>4. CASE e > x
      <4>1. \A y \in u : e >= y
        BY <3>1, <3>2, <3>4
      <4> QED
        BY <2>4, <4>1
    <3> QED
      BY <3>2, <3>3, <3>4
  <2> QED
    BY <2>6, <2>7
<1>2. \E x \in S : \A y \in S : x >= y
  BY <1>1
<1>3. Max(S) \in S /\ \A y \in S : Max(S) >= y
  BY <1>2 DEF Max
<1> QED
  BY <1>3

LEMMA MinFound ==
  ASSUME NEW S, IsFiniteSet(S), S \subseteq Int, S # {}
  PROVE  Min(S) \in S /\ \A y \in S : Min(S) <= y
<1> DEFINE f == [x \in S |-> 0 - x]
           U == {0 - x : x \in S}
<1>1. f \in Surjection(S, U)
  BY DEF Surjection
<1>2. IsFiniteSet(U) /\ U \subseteq Int /\ U # {}
  <2>1. IsFiniteSet(U)
    BY <1>1, FS_Surjection
  <2>2. U \subseteq Int /\ U # {}
    OBVIOUS
  <2> QED
    BY <2>1, <2>2
<1>3. Max(U) \in U /\ \A y \in U : y <= Max(U)
  BY <1>2, MaxFound
<1>4. PICK x \in S : Max(U) = 0 - x
  BY <1>3
<1>5. \A y \in S : x =< y
  <2> TAKE y \in S
  <2>1. 0 - y \in U
    OBVIOUS
  <2>2. 0 - y <= Max(U) /\ Max(U) = 0 - x /\ x \in Int /\ y \in Int
    BY <1>3, <1>4, <2>1
  <2> QED
    BY <2>2
<1>6. Min(S) \in S /\ \A y \in S : Min(S) =< y
  BY <1>5 DEF Min
<1> QED
  BY <1>6

LEMMA LastPosition ==
  ASSUME NEW k \in Nat, NEW s, s \subseteq 1 .. k, s # {}
  PROVE  Max(s) \in s /\ \A y \in s : y <= Max(s)
<1>1. IsFiniteSet(1 .. k) /\ s \subseteq Int
  BY FS_Interval
<1>2. IsFiniteSet(s)
  BY <1>1, FS_Subset
<1> QED
  BY <1>1, <1>2, MaxFound

-----------------------------------------------------------------------------
(***************************************************************************)
(* What SumFunctionOnSet(f, S) of the community modules computes over a    *)
(* finite set S. It is a recursive function over the subsets of S that     *)
(* takes out an element of its choice. That there is one such function,    *)
(* and that the choice does not matter, is shown on a smallest set for     *)
(* which it would not be so.                                               *)
(***************************************************************************)
Chosen(s) == CHOOSE x \in s : TRUE

(* g is the function that adds up f over the subsets of S.                 *)
AddsUp(g, f, S) ==
  g = [s \in SUBSET S |-> IF s = {} THEN 0
                          ELSE f[Chosen(s)] + g[s \ {Chosen(s)}]]

LEMMA ChosenIn == ASSUME NEW s, s # {} PROVE Chosen(s) \in s
BY DEF Chosen

(* The functions that add up f over the subsets of S are the same.         *)
LEMMA OneSum ==
  ASSUME NEW f, NEW S, IsFiniteSet(S), NEW g, NEW h, AddsUp(g, f, S), AddsUp(h, f, S)
  PROVE  g = h
<1> DEFINE T == {t \in SUBSET S : g[t] # h[t]}
<1>1. SUFFICES ASSUME T # {} PROVE FALSE
  BY DEF AddsUp
<1>2. PICK t \in T : \A u \in T : ~ (u \subseteq t /\ u # t)
  <2>1. T \subseteq SUBSET S
    OBVIOUS
  <2> HIDE DEF T
  <2> QED
    BY <1>1, <2>1, Smallest
<1>3. t # {}
  BY DEF AddsUp
<1>4. /\ t \ {Chosen(t)} \subseteq t /\ t \ {Chosen(t)} # t
      /\ t \ {Chosen(t)} \in SUBSET S
  BY <1>3, ChosenIn
<1>5. g[t \ {Chosen(t)}] = h[t \ {Chosen(t)}]
  BY <1>2, <1>4
<1>6. g[t] = f[Chosen(t)] + g[t \ {Chosen(t)}]
  BY <1>3 DEF AddsUp
<1>7. h[t] = f[Chosen(t)] + h[t \ {Chosen(t)}]
  BY <1>3 DEF AddsUp
<1> QED
  BY <1>5, <1>6, <1>7

(* SumFunctionOnSet is such a function's value at S.                       *)
LEMMA SumIsValue ==
  ASSUME NEW f, NEW S
  PROVE  SumFunctionOnSet(f, S) = (CHOOSE g : AddsUp(g, f, S))[S]
BY DEF SumFunctionOnSet, FoldFunctionOnSet, MapThenFoldSet, AddsUp, Chosen

(* The sums over the subsets of a finite set are such a function.          *)
LEMMA SumsAddUp ==
  ASSUME NEW f, NEW S, IsFiniteSet(S)
  PROVE  AddsUp([s \in SUBSET S |-> SumFunctionOnSet(f, s)], f, S)
<1> DEFINE Sums(s) == [t \in SUBSET s |-> SumFunctionOnSet(f, t)]
           T == {s \in SUBSET S : ~ AddsUp(Sums(s), f, s)}
<1>1. SUFFICES ASSUME T # {} PROVE FALSE
  OBVIOUS
<1>2. PICK s \in T : \A u \in T : ~ (u \subseteq s /\ u # s)
  <2>1. T \subseteq SUBSET S
    OBVIOUS
  <2> HIDE DEF T
  <2> QED
    BY <1>1, <2>1, Smallest
<1>3. s \in SUBSET S /\ IsFiniteSet(s) /\ ~ AddsUp(Sums(s), f, s)
  BY FS_Subset
<1>4. ASSUME NEW t \in SUBSET s, t # s
      PROVE  SumFunctionOnSet(f, t) =
               IF t = {} THEN 0
               ELSE f[Chosen(t)] + SumFunctionOnSet(f, t \ {Chosen(t)})
  <2>1. t \in SUBSET S /\ t \notin T
    BY <1>2, <1>3, <1>4
  <2>2. AddsUp(Sums(t), f, t)
    BY <2>1
  <2>3. t \in SUBSET t /\ t \ {Chosen(t)} \in SUBSET t
    OBVIOUS
  <2>4. Sums(t)[t] = IF t = {} THEN 0
                     ELSE f[Chosen(t)] + Sums(t)[t \ {Chosen(t)}]
    BY <2>2, <2>3 DEF AddsUp
  <2> QED
    BY <2>3, <2>4
<1> DEFINE g == [t \in SUBSET s |->
                   IF t = {} THEN 0
                   ELSE f[Chosen(t)] + SumFunctionOnSet(f, t \ {Chosen(t)})]
<1>5. ASSUME NEW t \in SUBSET s, t # {}
      PROVE  g[t \ {Chosen(t)}] = SumFunctionOnSet(f, t \ {Chosen(t)})
  <2>1. t \ {Chosen(t)} \in SUBSET s /\ t \ {Chosen(t)} # s
    BY <1>5, ChosenIn
  <2> QED
    BY <1>4, <2>1
<1>6. AddsUp(g, f, s)
  BY <1>5 DEF AddsUp
<1>7. (CHOOSE h : AddsUp(h, f, s)) = g
  BY <1>3, <1>6, OneSum
<1>8. SumFunctionOnSet(f, s) = g[s]
  BY <1>7, SumIsValue
<1>9. \A t \in SUBSET s : SumFunctionOnSet(f, t) = g[t]
  BY <1>4, <1>8
<1>10. Sums(s) = g
  BY <1>9
<1> QED
  BY <1>3, <1>6, <1>10

LEMMA SumEmpty == \A f : SumFunctionOnSet(f, {}) = 0
<1> TAKE f
<1>1. AddsUp([s \in SUBSET {} |-> SumFunctionOnSet(f, s)], f, {})
  BY SumsAddUp, FS_EmptySet
<1> QED
  BY <1>1 DEF AddsUp

(* The recursion: an element, and the sum over the others.                 *)
LEMMA SumChosen ==
  ASSUME NEW f, NEW S, IsFiniteSet(S), S # {}
  PROVE  /\ Chosen(S) \in S
         /\ SumFunctionOnSet(f, S) =
              f[Chosen(S)] + SumFunctionOnSet(f, S \ {Chosen(S)})
<1> DEFINE g == [s \in SUBSET S |-> SumFunctionOnSet(f, s)]
<1>1. AddsUp(g, f, S)
  BY SumsAddUp
<1>2. S \in SUBSET S /\ S \ {Chosen(S)} \in SUBSET S
  OBVIOUS
<1>3. g[S] = f[Chosen(S)] + g[S \ {Chosen(S)}]
  BY <1>1, <1>2 DEF AddsUp
<1> QED
  BY <1>2, <1>3, ChosenIn

(* Sums of integers are integers.                                          *)
LEMMA SumInt ==
  ASSUME NEW f, NEW S, IsFiniteSet(S), \A x \in S : f[x] \in Int
  PROVE  SumFunctionOnSet(f, S) \in Int
<1> DEFINE T == {s \in SUBSET S : SumFunctionOnSet(f, s) \notin Int}
<1>1. SUFFICES ASSUME T # {} PROVE FALSE
  OBVIOUS
<1>2. PICK s \in T : \A u \in T : ~ (u \subseteq s /\ u # s)
  <2>1. T \subseteq SUBSET S
    OBVIOUS
  <2> HIDE DEF T
  <2> QED
    BY <1>1, <2>1, Smallest
<1>3. s \in SUBSET S /\ IsFiniteSet(s) /\ s # {}
  <2>1. SumFunctionOnSet(f, {}) = 0
    BY SumEmpty
  <2>2. s # {}
    BY <2>1
  <2> QED
    BY <2>2, FS_Subset
<1>4. /\ Chosen(s) \in s
      /\ SumFunctionOnSet(f, s) = f[Chosen(s)] + SumFunctionOnSet(f, s \ {Chosen(s)})
  BY <1>3, SumChosen
<1>5. SumFunctionOnSet(f, s \ {Chosen(s)}) \in Int
  <2>1. /\ s \ {Chosen(s)} \subseteq s /\ s \ {Chosen(s)} # s
        /\ s \ {Chosen(s)} \in SUBSET S
    BY <1>3, <1>4
  <2> QED
    BY <1>2, <2>1
<1> QED
  BY <1>2, <1>3, <1>4, <1>5

-----------------------------------------------------------------------------
(***************************************************************************)
(* The summary of a session: its figures fit together, whatever documents  *)
(* it was made of.                                                         *)
(***************************************************************************)
SoundDoc(doc) == doc.confidence \in Int /\ doc.return \in Int
SoundDocs(docs) == IsFiniteSet(DOMAIN docs) /\ \A id \in DOMAIN docs : SoundDoc(docs[id])
SoundEvents(events) ==
  IsSequence(events) /\ \A n \in DOMAIN events : events[n].type = "delivery" => SoundDoc(events[n].doc)

Counts(counts) == \A t \in DOMAIN counts : counts[t] \in Nat
Figures(m) ==
  /\ m.generated \in Nat /\ m.closed \in Nat /\ m.closed <= m.generated
  /\ m.buy \in Nat /\ m.watch \in Nat /\ m.avoid \in Nat /\ m.buy + m.watch + m.avoid <= m.generated
  /\ m.confidence \in Int /\ m.lowest \in Int /\ m.highest \in Int
  /\ m.lowest <= m.confidence /\ m.confidence <= m.highest
  /\ m.return \in Int
  /\ m.winRate \in Nat /\ m.lossRate \in Nat /\ m.winRate + m.lossRate <= ScaleTo
  /\ m.winning \in Nat /\ m.losing \in Nat /\ m.winning + m.losing <= m.generated
  /\ Counts(m.counts)
SoundFigures(m) == DOMAIN m = DOMAIN NoDocuments /\ Figures(m)

(* Parts of a finite set that do not overlap.                              *)
LEMMA Parts ==
  ASSUME NEW D, IsFiniteSet(D), NEW A \in SUBSET D, NEW B \in SUBSET D, A \intersect B = {}
  PROVE  /\ Cardinality(A) \in Nat /\ Cardinality(B) \in Nat /\ Cardinality(D) \in Nat
         /\ Cardinality(A \union B) = Cardinality(A) + Cardinality(B)
         /\ Cardinality(A) + Cardinality(B) <= Cardinality(D)
<1>1. IsFiniteSet(A) /\ IsFiniteSet(B)
  BY FS_Subset
<1>2. Cardinality(A) \in Nat /\ Cardinality(B) \in Nat /\ Cardinality(D) \in Nat
  BY <1>1, FS_CardinalityType
<1>3. Cardinality(A \union B) = Cardinality(A) + Cardinality(B) - Cardinality(A \intersect B)
  BY <1>1, FS_Union
<1>4. Cardinality(A \intersect B) = 0
  BY FS_EmptySet
<1>5. Cardinality(A \union B) <= Cardinality(D)
  BY FS_Subset
<1> QED
  BY <1>2, <1>3, <1>4, <1>5

LEMMA Quotient ==
  ASSUME NEW a \in Int, NEW n \in Nat \ {0}
  PROVE  a \div n \in Int /\ n * (a \div n) <= a /\ a < n * (a \div n) + n
OBVIOUS

(* Rates of parts.                                                         *)
LEMMA Rates ==
  ASSUME NEW a \in Nat, NEW b \in Nat
  PROVE  /\ Rate(a, a + b) \in Nat /\ Rate(b, a + b) \in Nat
         /\ Rate(a, a + b) + Rate(b, a + b) <= ScaleTo
<1> DEFINE n == a + b
           q == (a * 100) \div n
           r == (b * 100) \div n
<1>1. CASE n = 0
  BY <1>1, ScaleIsPercent DEF Rate
<1>2. CASE n > 0
  <2>1. n \in Nat \ {0} /\ a * 100 \in Nat /\ b * 100 \in Nat
    BY <1>2
  <2>4. Rate(a, n) = q /\ Rate(b, n) = r
    BY <1>2, ScaleIsPercent DEF Rate
  <2>8. n = a + b
    OBVIOUS
  <2> HIDE DEF n
  <2>9. ASSUME NEW c \in Int PROVE c \div n \in Int /\ n * (c \div n) <= c /\ c < n * (c \div n) + n
    BY <2>1, Quotient
  <2>2. q \in Int /\ n * q <= a * 100 /\ a * 100 < n * q + n
    BY <2>1, <2>9
  <2>3. r \in Int /\ n * r <= b * 100 /\ b * 100 < n * r + n
    BY <2>1, <2>9
  <2> HIDE DEF q, r
  <2>5. q >= 0
    <3>1. ~ (q <= 0 - 1)
      <4>1. SUFFICES ASSUME q <= 0 - 1 PROVE FALSE
        OBVIOUS
      <4>2. n * q <= n * (0 - 1)
        BY <2>1, <2>2, <4>1
      <4> QED
        BY <2>1, <2>2, <4>2
    <3> QED
      BY <2>2, <3>1
  <2>6. r >= 0
    <3>1. ~ (r <= 0 - 1)
      <4>1. SUFFICES ASSUME r <= 0 - 1 PROVE FALSE
        OBVIOUS
      <4>2. n * r <= n * (0 - 1)
        BY <2>1, <2>3, <4>1
      <4> QED
        BY <2>1, <2>3, <4>2
    <3> QED
      BY <2>3, <3>1
  <2>7. q + r <= 100
    <3>1. n * (q + r) <= n * 100
      <4>1. n * (q + r) = n * q + n * r
        BY <2>1, <2>2, <2>3
      <4>2. a * 100 + b * 100 = n * 100
        BY <2>8
      <4>3. n * q \in Int /\ n * r \in Int
        BY <2>1, <2>2, <2>3
      <4> QED
        BY <2>1, <2>2, <2>3, <4>1, <4>2, <4>3
    <3>2. ~ (q + r >= 101)
      <4>1. SUFFICES ASSUME q + r >= 101 PROVE FALSE
        OBVIOUS
      <4>2. n * 101 <= n * (q + r)
        BY <2>1, <2>2, <2>3, <4>1
      <4> QED
        BY <2>1, <2>2, <2>3, <3>1, <4>2
    <3> QED
      BY <2>2, <2>3, <3>2
  <2> QED
    BY <2>2, <2>3, <2>4, <2>5, <2>6, <2>7, <2>8, ScaleIsPercent
<1> QED
  BY <1>1, <1>2

(* A sum of integers lies between its number of times the lowest and the   *)
(* highest.                                                                *)
LEMMA SumBounds ==
  ASSUME NEW f, NEW S, IsFiniteSet(S), NEW lo \in Int, NEW hi \in Int,
         \A x \in S : f[x] \in Int /\ lo <= f[x] /\ f[x] <= hi
  PROVE  /\ Cardinality(S) * lo <= SumFunctionOnSet(f, S)
         /\ SumFunctionOnSet(f, S) <= Cardinality(S) * hi
<1> DEFINE Bounded(s) == /\ Cardinality(s) * lo <= SumFunctionOnSet(f, s)
                         /\ SumFunctionOnSet(f, s) <= Cardinality(s) * hi
           T == {s \in SUBSET S : ~ Bounded(s)}
<1>1. SUFFICES ASSUME T # {} PROVE FALSE
  OBVIOUS
<1>2. PICK s \in T : \A u \in T : ~ (u \subseteq s /\ u # s)
  <2>1. T \subseteq SUBSET S
    OBVIOUS
  <2> HIDE DEF T
  <2> QED
    BY <1>1, <2>1, Smallest
<1>3. s \in SUBSET S /\ IsFiniteSet(s) /\ ~ Bounded(s)
  BY FS_Subset
<1>4. s # {}
  <2>1. Cardinality({}) = 0 /\ SumFunctionOnSet(f, {}) = 0
    BY FS_EmptySet, SumEmpty
  <2>2. Bounded({})
    BY <2>1
  <2> QED
    BY <1>3, <2>2
<1> DEFINE x == Chosen(s)
           rest == s \ {x}
<1>5. x \in s /\ SumFunctionOnSet(f, s) = f[x] + SumFunctionOnSet(f, rest)
  BY <1>3, <1>4, SumChosen
<1>6. rest \in SUBSET S /\ rest \notin T /\ IsFiniteSet(rest)
  BY <1>2, <1>3, <1>5, FS_Subset
<1>7. Bounded(rest)
  BY <1>6
<1>8. SumFunctionOnSet(f, rest) \in Int
  BY <1>6, SumInt
<1>9. Cardinality(rest) \in Nat /\ Cardinality(s) = Cardinality(rest) + 1
  BY <1>3, <1>5, <1>6, FS_RemoveElement, FS_CardinalityType
<1>10. f[x] \in Int /\ lo <= f[x] /\ f[x] <= hi
  BY <1>3, <1>5
<1> DEFINE n == Cardinality(rest)
           sum == SumFunctionOnSet(f, rest)
<1>11. n \in Nat /\ sum \in Int /\ n * lo <= sum /\ sum <= n * hi
  BY <1>7, <1>8, <1>9
<1>12. Cardinality(s) = n + 1 /\ SumFunctionOnSet(f, s) = f[x] + sum
  BY <1>5, <1>9
<1> HIDE DEF n, sum, x, rest
<1>13. (n + 1) * lo = n * lo + lo /\ (n + 1) * hi = n * hi + hi /\ n * lo \in Int /\ n * hi \in Int
  BY <1>11
<1>14. (n + 1) * lo <= f[x] + sum /\ f[x] + sum <= (n + 1) * hi
  BY <1>10, <1>11, <1>13
<1> QED
  BY <1>3, <1>12, <1>14

(* So does their average, rounded down.                                    *)
LEMMA AverageBounds ==
  ASSUME NEW a \in Int, NEW n \in Nat \ {0}, NEW lo \in Int, NEW hi \in Int,
         n * lo <= a, a <= n * hi
  PROVE  a \div n \in Int /\ lo <= a \div n /\ a \div n <= hi
<1> DEFINE q == a \div n
<1>1. q \in Int /\ n * q <= a /\ a < n * q + n
  BY Quotient
<1> HIDE DEF q
<1>2. ~ (q <= lo - 1)
  <2>1. SUFFICES ASSUME q <= lo - 1 PROVE FALSE
    OBVIOUS
  <2>2. n * q <= n * (lo - 1)
    BY <1>1, <2>1
  <2>3. n * (lo - 1) = n * lo - n
    OBVIOUS
  <2> QED
    BY <1>1, <2>2, <2>3
<1>3. ~ (q >= hi + 1)
  <2>1. SUFFICES ASSUME q >= hi + 1 PROVE FALSE
    OBVIOUS
  <2>2. n * (hi + 1) <= n * q
    BY <1>1, <2>1
  <2>3. n * (hi + 1) = n * hi + n
    OBVIOUS
  <2> QED
    BY <1>1, <2>2, <2>3
<1> QED
  BY <1>1, <1>2, <1>3 DEF q

LEMMA SummaryIsSound ==
  ASSUME NEW docs, SoundDocs(docs), NEW counts, Counts(counts)
  PROVE  SoundFigures(BuildSummary(docs, counts))
<1> DEFINE D == DOMAIN docs
           m == BuildSummary(docs, counts)
<1>1. CASE D = {}
  <2>1. DOMAIN m = DOMAIN NoDocuments /\ m.counts = counts
          /\ \A f \in DOMAIN NoDocuments \ {"counts"} : m[f] = NoDocuments[f]
    BY <1>1 DEF BuildSummary, NoDocuments
  <2>2. /\ m.generated = 0 /\ m.closed = 0 /\ m.buy = 0 /\ m.watch = 0 /\ m.avoid = 0 /\ m.confidence = 0
        /\ m.highest = 0 /\ m.lowest = 0 /\ m.return = 0 /\ m.winRate = 0 /\ m.lossRate = 0
        /\ m.winning = 0 /\ m.losing = 0
    BY <2>1 DEF NoDocuments
  <2> HIDE DEF m
  <2>3. SoundFigures(m)
    BY <2>1, <2>2, ScaleIsPercent DEF SoundFigures, Figures
  <2> QED
    BY <2>3 DEF m
<1>2. CASE D # {}
  <2> DEFINE n == Cardinality(D)
             Part(P(_)) == {id \in D : P(docs[id])}
             C == Confidences(docs)
             f == [id \in D |-> docs[id]["confidence"]]
             g == [id \in D |-> docs[id]["return"]]
             W == {id \in D : docs[id].outcome = "SUCCESS"}
             L == {id \in D : docs[id].outcome = "FAILED"}
             wins == Cardinality(W)
             losses == Cardinality(L)
  <2>1. IsFiniteSet(D) /\ \A id \in D : docs[id].confidence \in Int /\ docs[id].return \in Int
    BY DEF SoundDocs, SoundDoc
  <2>2. n \in Nat \ {0}
    BY <1>2, <2>1, FS_CardinalityType, FS_EmptySet
  <2>3. IsFiniteSet(C) /\ C \subseteq Int /\ C # {}
    <3>1. f \in Surjection(D, C)
      BY DEF Surjection, Confidences
    <3>2. IsFiniteSet(C)
      BY <2>1, <3>1, FS_Surjection
    <3> QED
      BY <1>2, <2>1, <3>2 DEF Confidences
  <2>4. Max(C) \in Int /\ Min(C) \in Int /\ \A id \in D : Min(C) <= docs[id].confidence /\ docs[id].confidence <= Max(C)
    <3>1. Max(C) \in C /\ \A y \in C : y <= Max(C)
      BY <2>3, MaxFound
    <3>2. Min(C) \in C /\ \A y \in C : Min(C) <= y
      BY <2>3, MinFound
    <3>3. \A id \in D : docs[id].confidence \in C
      BY DEF Confidences
    <3> QED
      BY <2>3, <3>1, <3>2, <3>3
  <2> DEFINE a == SumFunctionOnSet(f, D)
             b == SumFunctionOnSet(g, D)
             lo == Min(C)
             hi == Max(C)
  <2>5. a \in Int /\ n * lo <= a /\ a <= n * hi
    <3>1. \A id \in D : f[id] \in Int /\ lo <= f[id] /\ f[id] <= hi
      BY <2>1, <2>4
    <3> HIDE DEF f, lo, hi
    <3>2. lo \in Int /\ hi \in Int
      BY <2>4 DEF lo, hi
    <3> QED
      BY <2>1, <3>1, <3>2, SumInt, SumBounds
  <2>6. b \in Int
    <3>1. \A id \in D : g[id] \in Int
      BY <2>1
    <3> HIDE DEF g
    <3> QED
      BY <2>1, <3>1, SumInt
  <2>7. a \div n \in Int /\ lo <= a \div n /\ a \div n <= hi
    <3> HIDE DEF a, n, lo, hi
    <3>1. lo \in Int /\ hi \in Int
      BY <2>4 DEF lo, hi
    <3> QED
      BY <2>2, <2>5, <3>1, AverageBounds
  <2>8. b \div n \in Int
    BY <2>2, <2>6, Quotient
  <2> DEFINE Closing == {id \in D : docs[id].status = "CLOSED"}
             Buying == {id \in D : docs[id].level \in {"BUY", "STRONG_BUY"}}
             Watching == {id \in D : docs[id].level = "WATCH"}
             Avoiding == {id \in D : docs[id].level = "AVOID"}
             Winning == {id \in D : docs[id].class \in {"SUCCESS", "GOOD"}}
             Losing == {id \in D : docs[id].class \in {"FAILED", "POOR", "BAD"}}
  <2>9. /\ m.generated = n /\ m.closed = Cardinality(Closing) /\ m.buy = Cardinality(Buying)
        /\ m.watch = Cardinality(Watching) /\ m.avoid = Cardinality(Avoiding)
        /\ m.confidence = a \div n /\ m.highest = hi /\ m.lowest = lo /\ m.return = b \div n
        /\ m.winRate = Rate(wins, wins + losses) /\ m.lossRate = Rate(losses, wins + losses)
        /\ m.winning = Cardinality(Winning) /\ m.losing = Cardinality(Losing)
        /\ m.counts = counts
    BY <1>2 DEF BuildSummary, AveragedOver, Times, Total
  <2>10. DOMAIN m = DOMAIN NoDocuments
    BY <1>2 DEF BuildSummary, NoDocuments
  <2>11. wins \in Nat /\ losses \in Nat
    BY <2>1, FS_Subset, FS_CardinalityType
  <2>12. Cardinality(Closing) \in Nat /\ Cardinality(Closing) <= n
    BY <2>1, FS_Subset, FS_CardinalityType
  <2>13. /\ Cardinality(Buying) \in Nat /\ Cardinality(Watching) \in Nat /\ Cardinality(Avoiding) \in Nat
         /\ Cardinality(Buying) + Cardinality(Watching) + Cardinality(Avoiding) <= n
    <3>1. /\ Cardinality(Buying) \in Nat /\ Cardinality(Watching) \in Nat
          /\ Cardinality(Buying \union Watching) = Cardinality(Buying) + Cardinality(Watching)
      <4>1. Buying \in SUBSET D /\ Watching \in SUBSET D /\ Buying \intersect Watching = {}
        OBVIOUS
      <4> HIDE DEF Buying, Watching, D
      <4> QED
        BY <2>1, <4>1, Parts
    <3>2. /\ Cardinality(Avoiding) \in Nat
          /\ Cardinality(Buying \union Watching) + Cardinality(Avoiding) <= Cardinality(D)
      <4>1. Buying \union Watching \in SUBSET D /\ Avoiding \in SUBSET D
              /\ (Buying \union Watching) \intersect Avoiding = {}
        OBVIOUS
      <4> HIDE DEF Buying, Watching, Avoiding, D
      <4> QED
        BY <2>1, <4>1, Parts
    <3> QED
      BY <3>1, <3>2
  <2>14. /\ Cardinality(Winning) \in Nat /\ Cardinality(Losing) \in Nat
         /\ Cardinality(Winning) + Cardinality(Losing) <= n
    <3>1. Winning \in SUBSET D /\ Losing \in SUBSET D /\ Winning \intersect Losing = {}
      OBVIOUS
    <3> HIDE DEF Winning, Losing, D
    <3> QED
      BY <2>1, <3>1, Parts DEF n
  <2>15. /\ Rate(wins, wins + losses) \in Nat /\ Rate(losses, wins + losses) \in Nat
         /\ Rate(wins, wins + losses) + Rate(losses, wins + losses) <= ScaleTo
    <3> HIDE DEF wins, losses
    <3>1. /\ Rate(wins, wins + losses) \in Nat /\ Rate(losses, wins + losses) \in Nat
          /\ Rate(wins, wins + losses) + Rate(losses, wins + losses) <= ScaleTo
      BY <2>11, Rates
    <3> QED
      BY <3>1
  <2>16. lo \in Int /\ hi \in Int
    BY <2>4
  <2> HIDE DEF n, a, b, lo, hi, wins, losses, Closing, Buying, Watching, Avoiding, Winning, Losing, m, f, g
  <2>17. SoundFigures(m)
    BY <2>2, <2>7, <2>8, <2>9, <2>10, <2>12, <2>13, <2>14, <2>15, <2>16 DEF SoundFigures, Figures
  <2> QED
    BY <2>17 DEF m
<1> QED
  BY <1>1, <1>2

(* Of documents and the deliveries that were heard, documents.             *)
LEMMA DocumentsSound ==
  ASSUME NEW docs, SoundDocs(docs), NEW events, SoundEvents(events)
  PROVE  SoundDocs(Documents(docs, events))
<1> DEFINE P == Deliveries(events)
           ids == {events[n].doc.id : n \in P}
           d == Documents(docs, events)
<1>1. PICK k \in Nat : DOMAIN events = 1 .. k
  BY DEF SoundEvents, IsSequence
<1>2. P \subseteq 1 .. k
  BY <1>1 DEF Deliveries
<1>3. IsFiniteSet(ids)
  <2> DEFINE f == [n \in P |-> events[n].doc.id]
  <2>1. f \in Surjection(P, ids)
    BY DEF Surjection
  <2>2. IsFiniteSet(P)
    <3>1. IsFiniteSet(1 .. k)
      BY FS_Interval
    <3> HIDE DEF P
    <3> QED
      BY <1>2, <3>1, FS_Subset
  <2> QED
    BY <2>1, <2>2, FS_Surjection
<1>4. IsFiniteSet(DOMAIN docs \union ids) /\ DOMAIN d = DOMAIN docs \union ids
  BY <1>3, FS_Union DEF SoundDocs, Documents
<1>5. ASSUME NEW id \in ids PROVE SoundDoc(events[LatestOf(id, events)].doc)
  <2> DEFINE S == {n \in P : events[n].doc.id = id}
  <2>1. S \subseteq 1 .. k /\ S # {}
    BY <1>2
  <2>2. Max(S) \in S
    <3> HIDE DEF S
    <3> QED
      BY <2>1, LastPosition
  <2>3. LatestOf(id, events) = Max(S)
    BY DEF LatestOf
  <2> QED
    BY <2>2, <2>3 DEF SoundEvents, Deliveries
<1>6. ASSUME NEW id \in DOMAIN d PROVE SoundDoc(d[id])
  <2>1. d[id] = IF id \in ids THEN events[LatestOf(id, events)].doc ELSE docs[id]
    BY <1>4 DEF Documents
  <2> QED
    BY <1>4, <1>5, <2>1 DEF SoundDocs
<1> QED
  BY <1>4, <1>6 DEF SoundDocs

LEMMA CollectedSound ==
  ASSUME NEW heard, SoundEvents(heard)
  PROVE  SoundDocs(Collected(heard).docs) /\ Counts(Collected(heard).counts)
<1>1. SoundDocs(<<>>)
  BY FS_EmptySet DEF SoundDocs
<1>2. SoundDocs(Collected(heard).docs)
  BY <1>1, DocumentsSound DEF Collected
<1>3. ASSUME NEW t \in Counted PROVE Cardinality({n \in DOMAIN heard : heard[n].type = t}) \in Nat
  <2>1. IsFiniteSet(DOMAIN heard)
    BY FS_Interval DEF SoundEvents, IsSequence
  <2> QED
    BY <2>1, FS_Subset, FS_CardinalityType
<1> QED
  BY <1>2, <1>3 DEF Collected, Counts

(* What a session is filed with, at whatever point it asks the collector.  *)
LEMMA FiledSound ==
  ASSUME NEW s, SoundEvents(sessionRuns[s].heard), NEW docs, SoundDocs(docs),
         NEW n \in 0 .. Len(sessionRuns[s].heard)
  PROVE  LET collected == Collected(SubSeq(sessionRuns[s].heard, 1, n))
         IN SoundFigures(BuildSummary(CollectDocuments(s, collected.docs, docs), collected.counts))
<1> DEFINE heard == sessionRuns[s].heard
           part == SubSeq(heard, 1, n)
           collected == Collected(part)
           all == CollectDocuments(s, collected.docs, docs)
<1>1. IsSequence(heard) /\ Len(heard) \in Nat /\ DOMAIN heard = 1 .. Len(heard)
  BY Appended DEF SoundEvents
<1>2. IsSequence(part) /\ DOMAIN part = 1 .. n /\ \A i \in 1 .. n : part[i] = heard[i]
  <2>1. 1 \in 1 .. Len(heard) + 1 /\ n \in 1 - 1 .. Len(heard)
    BY <1>1
  <2> HIDE DEF heard
  <2>2. IsSequence(part) /\ DOMAIN part = 1 .. n - 1 + 1
          /\ \A i \in 1 .. n - 1 + 1 : part[i] = heard[1 + i - 1]
    BY <1>1, <2>1, Cut
  <2> HIDE DEF part
  <2> QED
    BY <1>1, <2>1, <2>2
<1>3. SoundEvents(part)
  <2> HIDE DEF part
  <2> QED
    BY <1>1, <1>2 DEF SoundEvents
<1> HIDE DEF part
<1>4. SoundDocs(collected.docs) /\ Counts(collected.counts)
  BY <1>3, CollectedSound
<1> HIDE DEF collected
<1>5. SoundDocs(all)
  <2> DEFINE listed == {id \in DOMAIN docs : InPeriod(docs[id], sessionRuns[s].request)}
  <2>1. DOMAIN all = listed \union DOMAIN collected.docs
          /\ \A id \in DOMAIN all : all[id] = IF id \in listed THEN docs[id] ELSE collected.docs[id]
    BY DEF CollectDocuments
  <2>2. IsFiniteSet(listed)
    BY FS_Subset DEF SoundDocs
  <2> HIDE DEF all
  <2>3. IsFiniteSet(DOMAIN all)
    <3>1. IsFiniteSet(DOMAIN collected.docs)
      BY <1>4 DEF SoundDocs
    <3> HIDE DEF listed
    <3> QED
      BY <2>1, <2>2, <3>1, FS_Union
  <2>4. ASSUME NEW id \in DOMAIN all PROVE SoundDoc(all[id])
    BY <1>4, <2>1, <2>4 DEF SoundDocs
  <2> QED
    BY <2>3, <2>4 DEF SoundDocs
<1> HIDE DEF all
<1>6. SoundFigures(BuildSummary(all, collected.counts))
  BY <1>4, <1>5, SummaryIsSound
<1> QED
  BY <1>6 DEF all, collected, part, heard


-----------------------------------------------------------------------------
(***************************************************************************)
(* HighestVersion folds over the studies. The fold is a recursive function *)
(* over the sets of positions; that there is one, and what it computes, is *)
(* shown on a smallest set of positions for which it would not be so.      *)
(***************************************************************************)
HighestOf(t, r) ==
  FoldLeft(LAMBDA n, s : IF SameDefinition(r, s) /\ s.version > n THEN s.version ELSE n, 0, t)

(* m is the highest version of a definition among positions of t.          *)
IsHighest(m, t, r, positions) ==
  /\ m \in Nat
  /\ \A i \in positions : SameDefinition(r, t[i]) => t[i].version <= m
  /\ m = 0 \/ \E i \in positions : SameDefinition(r, t[i]) /\ t[i].version = m

Higher(t, r, x, n) == IF SameDefinition(r, t[x]) /\ t[x].version > n THEN t[x].version ELSE n
Folds(g, t, r) ==
  g = [s \in SUBSET DOMAIN t |-> IF s = {} THEN 0 ELSE Higher(t, r, Max(s), g[s \ {Max(s)}])]

LEMMA HighestIsValue ==
  ASSUME NEW t, NEW r
  PROVE  HighestOf(t, r) = (CHOOSE g : Folds(g, t, r))[DOMAIN t]
BY DEF HighestOf, FoldLeft, MapThenFoldSet, Folds, Higher

LEMMA OneHighest ==
  ASSUME NEW t, NEW r, NEW positions, \A i \in positions : t[i].version \in Nat,
         NEW m, NEW n, IsHighest(m, t, r, positions), IsHighest(n, t, r, positions)
  PROVE  m = n
BY DEF IsHighest

(* One more position.                                                      *)
LEMMA HigherIsHighest ==
  ASSUME NEW t, NEW r, NEW s, NEW x \in s, \A i \in s : t[i].version \in Nat,
         NEW n, IsHighest(n, t, r, s \ {x})
  PROVE  IsHighest(Higher(t, r, x, n), t, r, s)
BY DEF IsHighest, Higher

LEMMA HighestFound ==
  ASSUME NEW t, IsSequence(t), NEW r, \A i \in DOMAIN t : t[i].version \in Nat
  PROVE  IsHighest(HighestOf(t, r), t, r, DOMAIN t)
<1> DEFINE D == DOMAIN t
           Best(s) == CHOOSE m : IsHighest(m, t, r, s)
           g == [s \in SUBSET D |-> Best(s)]
<1>1. PICK k \in Nat : D = 1 .. k
  BY DEF IsSequence
<1>2. IsFiniteSet(D)
  BY <1>1, FS_Interval
<1>3. \A s \in SUBSET D : s # {} => Max(s) \in s
  BY <1>1, LastPosition
<1>4. IsHighest(0, t, r, {})
  BY DEF IsHighest
<1>5. \A s \in SUBSET D : \E m : IsHighest(m, t, r, s)
  <2> DEFINE T == {s \in SUBSET D : ~ \E m : IsHighest(m, t, r, s)}
  <2>1. SUFFICES ASSUME T # {} PROVE FALSE
    OBVIOUS
  <2>2. T \subseteq SUBSET D
    OBVIOUS
  <2>3. PICK s \in T : \A u \in T : ~ (u \subseteq s /\ u # s)
    <3> HIDE DEF T, D
    <3> QED
      BY <1>2, <2>1, <2>2, Smallest
  <2>4. PICK x \in s : TRUE
    BY <1>4
  <2>5. s \ {x} \in SUBSET D /\ s \ {x} \notin T
    BY <2>3, <2>4
  <2>6. PICK n : IsHighest(n, t, r, s \ {x})
    BY <2>5
  <2>7. IsHighest(Higher(t, r, x, n), t, r, s)
    BY <2>4, <2>6, HigherIsHighest
  <2> QED
    BY <2>7
<1>6. \A s \in SUBSET D : IsHighest(Best(s), t, r, s)
  BY <1>5
<1>7. Folds(g, t, r)
  <2>1. Best({}) = 0
    BY <1>4, <1>6, OneHighest
  <2>2. ASSUME NEW s \in SUBSET D, s # {}
        PROVE  Best(s) = Higher(t, r, Max(s), g[s \ {Max(s)}])
    <3>1. Max(s) \in s /\ s \ {Max(s)} \in SUBSET D
      BY <1>3, <2>2
    <3>2. g[s \ {Max(s)}] = Best(s \ {Max(s)})
      BY <3>1
    <3>3. IsHighest(Best(s \ {Max(s)}), t, r, s \ {Max(s)}) /\ IsHighest(Best(s), t, r, s)
      BY <1>6, <3>1
    <3>4. IsHighest(Higher(t, r, Max(s), Best(s \ {Max(s)})), t, r, s)
      BY <3>1, <3>3, HigherIsHighest
    <3> HIDE DEF g, Best
    <3> QED
      BY <3>2, <3>3, <3>4, OneHighest
  <2> HIDE DEF Best
  <2>3. g = [s \in SUBSET D |-> IF s = {} THEN 0 ELSE Higher(t, r, Max(s), g[s \ {Max(s)}])]
    BY <2>1, <2>2
  <2> QED
    BY <2>3 DEF Folds
<1> DEFINE h == CHOOSE f : Folds(f, t, r)
<1>8. Folds(h, t, r)
  BY <1>7
<1> HIDE DEF g, h
<1>9. \A s \in SUBSET D : IsHighest(h[s], t, r, s)
  <2> DEFINE T == {s \in SUBSET D : ~ IsHighest(h[s], t, r, s)}
  <2>1. SUFFICES ASSUME T # {} PROVE FALSE
    OBVIOUS
  <2>2. T \subseteq SUBSET D
    OBVIOUS
  <2>3. PICK s \in T : \A u \in T : ~ (u \subseteq s /\ u # s)
    <3> HIDE DEF T, D
    <3> QED
      BY <1>2, <2>1, <2>2, Smallest
  <2>4. s # {}
    BY <1>4, <1>8 DEF Folds
  <2>5. Max(s) \in s /\ s \ {Max(s)} \in SUBSET D /\ s \ {Max(s)} \notin T
    BY <1>3, <2>3, <2>4
  <2>6. IsHighest(h[s \ {Max(s)}], t, r, s \ {Max(s)})
    BY <2>5
  <2>7. h[s] = Higher(t, r, Max(s), h[s \ {Max(s)}])
    BY <1>8, <2>4 DEF Folds
  <2>8. IsHighest(Higher(t, r, Max(s), h[s \ {Max(s)}]), t, r, s)
    BY <2>5, <2>6, HigherIsHighest
  <2> QED
    BY <2>7, <2>8
<1>10. HighestOf(t, r) = h[D]
  BY HighestIsValue DEF h
<1> QED
  BY <1>9, <1>10

-----------------------------------------------------------------------------
(***************************************************************************)
(* Studies. A call works on a copy of the study it read, which others may  *)
(* execute meanwhile; the copy is of the same definition and version.      *)
(***************************************************************************)
StudyFields == {"strategy", "parameters", "symbols", "from", "to",
                "version", "status", "sessions", "output"}
HasOutput(study) ==
  study.status = "COMPLETED" => study.output.sessionCount = 1 /\ Last(study.sessions) # 0
SoundOutput(output) ==
  /\ Counts(output.counts)
  /\ \/ output = NoOutput
     \/ DOMAIN output = DOMAIN NoDocuments \union {"sessionCount"} /\ Figures(output)
SoundStudy(study) ==
  /\ DOMAIN study = StudyFields /\ study.version \in Nat \ {0} /\ study.status \in Statuses
  /\ IsSequence(study.sessions) /\ HasOutput(study) /\ SoundOutput(study.output)

(* The lower versions of a study's definition are versions of t's studies. *)
Below(t, study) ==
  \A k \in Nat \ {0} : k < study.version =>
    \E n \in DOMAIN t : SameDefinition(t[n], study) /\ t[n].version = k

IsCopy(study, of) == SameDefinition(study, of) /\ study.version = of.version
ReadFields == {"at", "id", "study", "ctx"}
SoundCall(call, t) ==
  \/ call.at = "idle"
  \/ /\ call.at = "creating" /\ DOMAIN call = {"at", "study"}
     /\ SoundStudy(call.study) /\ call.study.status = "PENDING"
     /\ AutoVersion => Below(t, call.study)
  \/ /\ call.at \in {"read", "starting", "waiting"}
     /\ SoundStudy(call.study) /\ call.id \in DOMAIN t /\ IsCopy(call.study, t[call.id])
     /\ call.at # "read" => call.study.status = "RUNNING"
     /\ DOMAIN call = ReadFields \union IF call.at = "waiting" THEN {"session"} ELSE {}
     /\ call.at = "waiting" => call.session \in Nat \ {0}

LaboratoryInv ==
  /\ IsSequence(studies)
  /\ \A s \in DOMAIN studies : SoundStudy(studies[s]) /\ s \in byStatus[studies[s].status]
  /\ DOMAIN byStatus = Statuses /\ DOMAIN calls = Callers
  /\ \A c \in Callers : SoundCall(calls[c], studies)
  /\ activeStudies = Cardinality(Executing)
  /\ AutoVersion => \A s \in DOMAIN studies : Below(studies, studies[s])

LEMMA SameIsEquivalence ==
  ASSUME NEW a, NEW b, NEW c
  PROVE  /\ SameDefinition(a, a) /\ (SameDefinition(a, b) => SameDefinition(b, a))
         /\ SameDefinition(a, b) /\ SameDefinition(b, c) => SameDefinition(a, c)
BY DEF SameDefinition

(* What LaboratoryInv says of the studies is StudiesFiled.                 *)
LEMMA FiledThen == ASSUME LaboratoryInv PROVE StudiesFiled
<1>1. StudiesFound /\ CompletedHasOutput
  BY DEF LaboratoryInv, SoundStudy, HasOutput, StudiesFound, CompletedHasOutput
<1>2. ASSUME AutoVersion, NEW s \in DOMAIN studies
      PROVE  {studies[n].version : n \in {m \in DOMAIN studies : SameDefinition(studies[m], studies[s])}}
               = 1 .. HighestVersion(studies[s])
  <2> DEFINE r == studies[s]
             h == HighestOf(studies, r)
             V == {studies[n].version : n \in {m \in DOMAIN studies : SameDefinition(studies[m], r)}}
  <2>1. IsSequence(studies) /\ \A n \in DOMAIN studies : studies[n].version \in Nat \ {0}
    BY DEF LaboratoryInv, SoundStudy
  <2>2. IsHighest(h, studies, r, DOMAIN studies)
    BY <2>1, HighestFound
  <2>3. HighestVersion(r) = h
    BY DEF HighestVersion, HighestOf
  <2>4. \A n \in DOMAIN studies : Below(studies, studies[n])
    BY <1>2 DEF LaboratoryInv
  <2> HIDE DEF h, r
  <2>5. V \subseteq 1 .. h
    BY <2>1, <2>2, SameIsEquivalence DEF IsHighest
  <2>6. ASSUME NEW k \in 1 .. h PROVE k \in V
    <3>1. h \in Nat /\ h # 0
      BY <2>2, <2>6 DEF IsHighest
    <3>2. PICK i \in DOMAIN studies : SameDefinition(r, studies[i]) /\ studies[i].version = h
      BY <2>2, <3>1 DEF IsHighest
    <3>3. CASE k = h
      BY <3>2, <3>3, SameIsEquivalence
    <3>4. CASE k < h
      <4>1. PICK n \in DOMAIN studies :
              SameDefinition(studies[n], studies[i]) /\ studies[n].version = k
        BY <2>4, <2>6, <3>2, <3>4 DEF Below
      <4>2. SameDefinition(studies[n], r)
        BY <3>2, <4>1, SameIsEquivalence
      <4> QED
        BY <4>1, <4>2
    <3> QED
      BY <2>6, <3>1, <3>3, <3>4
  <2> QED
    BY <2>3, <2>5, <2>6 DEF r
<1> QED
  BY <1>1, <1>2 DEF StudiesFiled, VersionsConsecutive

(* Studies that are replaced by copies, and more of them.                  *)
Extends(t, u) == DOMAIN t \subseteq DOMAIN u /\ \A n \in DOMAIN t : IsCopy(u[n], t[n])

LEMMA CopiesKeep ==
  ASSUME NEW t, NEW u, Extends(t, u)
  PROVE  /\ \A x : Below(t, x) => Below(u, x)
         /\ \A x, y : Below(t, x) /\ IsCopy(y, x) => Below(u, y)
         /\ \A call : SoundCall(call, t) => SoundCall(call, u)
<1>1. ASSUME NEW x, Below(t, x), NEW y, IsCopy(y, x) PROVE Below(u, y)
  <2>1. SUFFICES ASSUME NEW k \in Nat \ {0}, k < y.version
                 PROVE  \E n \in DOMAIN u : SameDefinition(u[n], y) /\ u[n].version = k
    BY DEF Below
  <2>2. PICK n \in DOMAIN t : SameDefinition(t[n], x) /\ t[n].version = k
    BY <1>1, <2>1 DEF Below, IsCopy
  <2>3. n \in DOMAIN u /\ IsCopy(u[n], t[n])
    BY <2>2 DEF Extends
  <2>4. SameDefinition(u[n], y) /\ u[n].version = k
    BY <1>1, <2>2, <2>3 DEF IsCopy, SameDefinition
  <2> QED
    BY <2>3, <2>4
<1>2. \A x : IsCopy(x, x)
  BY SameIsEquivalence DEF IsCopy
<1>3. \A x : Below(t, x) => Below(u, x)
  BY <1>1, <1>2
<1>4. ASSUME NEW call, SoundCall(call, t) PROVE SoundCall(call, u)
  <2>1. CASE call.at = "idle"
    BY <2>1 DEF SoundCall
  <2>2. CASE call.at = "creating"
    BY <1>3, <1>4, <2>2 DEF SoundCall
  <2>3. CASE call.at \in {"read", "starting", "waiting"}
    <3>1. call.id \in DOMAIN t /\ IsCopy(call.study, t[call.id])
      BY <1>4, <2>3 DEF SoundCall
    <3>2. call.id \in DOMAIN u /\ IsCopy(call.study, u[call.id])
      BY <3>1 DEF Extends, IsCopy, SameDefinition
    <3> QED
      BY <1>4, <2>3, <3>2 DEF SoundCall
  <2> QED
    BY <1>4, <2>1, <2>2, <2>3 DEF SoundCall
<1> QED
  BY <1>1, <1>3, <1>4

LEMMA Unchanged == \A t : Extends(t, t)
BY SameIsEquivalence DEF Extends, IsCopy

LEMMA Replaced ==
  ASSUME NEW t, IsSequence(t), NEW id \in DOMAIN t, NEW study, IsCopy(study, t[id])
  PROVE  /\ IsSequence([t EXCEPT ![id] = study]) /\ DOMAIN [t EXCEPT ![id] = study] = DOMAIN t
         /\ Extends(t, [t EXCEPT ![id] = study])
<1> DEFINE u == [t EXCEPT ![id] = study]
           S == {t[n] : n \in DOMAIN t} \union {study}
<1>1. DOMAIN u = DOMAIN t /\ \A n \in DOMAIN t : u[n] = IF n = id THEN study ELSE t[n]
  BY DEF IsSequence
<1>2. t \in Seq(S)
  BY SeqMonotonic DEF IsSequence
<1>3. u \in Seq(S)
  BY <1>2, ExceptSeq, LenProperties
<1> HIDE DEF u
<1>4. Extends(t, u)
  BY <1>1, SameIsEquivalence DEF Extends, IsCopy
<1> QED
  BY <1>1, <1>3, <1>4, RangeIsEnough DEF u

LEMMA OneMore ==
  ASSUME NEW t, IsSequence(t), NEW study
  PROVE  Extends(t, Append(t, study))
BY Appended, SameIsEquivalence DEF Extends, IsCopy

(* The callers that execute a study.                                       *)
LEMMA ExecutingCard == IsFiniteSet(Executing) /\ Cardinality(Executing) \in Nat
BY CallersKnown, FS_Subset, FS_CardinalityType DEF Executing

(* A call changes, of one caller.                                          *)
LEMMA CallChanges ==
  ASSUME LaboratoryInv, NEW c \in Callers, NEW call, calls' = [calls EXCEPT ![c] = call],
         Extends(studies, studies'), SoundCall(call, studies')
  PROVE  /\ DOMAIN calls' = Callers /\ \A d \in Callers : SoundCall(calls'[d], studies')
         /\ Executing' = IF call.at \in {"starting", "waiting"} THEN Executing \union {c}
                         ELSE Executing \ {c}
<1>1. DOMAIN calls' = Callers /\ \A d \in Callers : calls'[d] = IF d = c THEN call ELSE calls[d]
  BY DEF LaboratoryInv
<1>2. \A d \in Callers : SoundCall(calls'[d], studies')
  BY <1>1, CopiesKeep DEF LaboratoryInv
<1>3. Executing' = {d \in Callers : calls'[d].at \in {"starting", "waiting"}}
  BY DEF Executing
<1> QED
  BY <1>1, <1>2, <1>3 DEF Executing

LEMMA CallOnly ==
  ASSUME LaboratoryInv, NEW c \in Callers, NEW call, calls' = [calls EXCEPT ![c] = call],
         UNCHANGED <<studies, byStatus, activeStudies>>, SoundCall(call, studies),
         c \in Executing <=> call.at \in {"starting", "waiting"}
  PROVE  LaboratoryInv'
<1>1. /\ DOMAIN calls' = Callers /\ \A d \in Callers : SoundCall(calls'[d], studies')
      /\ Executing' = Executing
  <2>1. Extends(studies, studies') /\ SoundCall(call, studies')
    BY Unchanged
  <2>2. /\ DOMAIN calls' = Callers /\ \A d \in Callers : SoundCall(calls'[d], studies')
        /\ Executing' = IF call.at \in {"starting", "waiting"} THEN Executing \union {c}
                         ELSE Executing \ {c}
    BY <2>1, CallChanges
  <2> HIDE DEF SoundCall, Extends
  <2> QED
    BY <2>2
<1>2. AutoVersion => \A s \in DOMAIN studies : Below(studies, studies[s])
  BY DEF LaboratoryInv
<1> QED
  BY <1>1, <1>2 DEF LaboratoryInv

LEMMA NewIsSound ==
  ASSUME NEW r, NEW v \in Nat \ {0}
  PROVE  /\ SoundStudy(NewStudy(r, v)) /\ SameDefinition(NewStudy(r, v), r)
         /\ NewStudy(r, v).status = "PENDING" /\ NewStudy(r, v).version = v
<1>1. IsSequence(<<>>)
  BY DEF IsSequence
<1>2. /\ DOMAIN NewStudy(r, v) = StudyFields /\ NewStudy(r, v).version = v
      /\ NewStudy(r, v).status = "PENDING" /\ NewStudy(r, v).sessions = <<>>
      /\ NewStudy(r, v).strategy = r.strategy /\ NewStudy(r, v).parameters = r.parameters
      /\ NewStudy(r, v).output = NoOutput
  BY DEF NewStudy, StudyFields
<1>3. SoundOutput(NoOutput)
  <2>1. NoOutput.counts = <<>>
    BY DEF NoOutput
  <2>2. Counts(NoOutput.counts)
    BY <2>1 DEF Counts
  <2> QED
    BY <2>1, <2>2 DEF SoundOutput
<1> QED
  BY <1>1, <1>2, <1>3 DEF SoundStudy, HasOutput, Statuses, SameDefinition

LEMMA ChoosesKeeps ==
  ASSUME LaboratoryInv, NEW c \in Callers, NEW r, ChoosesVersion(c, r)
  PROVE  LaboratoryInv'
<1> DEFINE v == NextVersion(r)
           h == HighestOf(studies, r)
           call == [at |-> "creating", study |-> NewStudy(r, v)]
<1>1. IsSequence(studies) /\ \A n \in DOMAIN studies : studies[n].version \in Nat \ {0}
  BY DEF LaboratoryInv, SoundStudy
<1>2. IsHighest(h, studies, r, DOMAIN studies)
  BY <1>1, HighestFound
<1>3. v = IF AutoVersion THEN h + 1 ELSE 1
  BY DEF NextVersion, HighestVersion, HighestOf
<1> HIDE DEF v, h
<1>4. v \in Nat \ {0}
  BY <1>2, <1>3 DEF IsHighest
<1>5. /\ SoundStudy(NewStudy(r, v)) /\ SameDefinition(NewStudy(r, v), r)
      /\ NewStudy(r, v).status = "PENDING" /\ NewStudy(r, v).version = v
  BY <1>4, NewIsSound
<1>6. ASSUME AutoVersion PROVE Below(studies, NewStudy(r, v))
  <2>1. SUFFICES ASSUME NEW k \in Nat \ {0}, k < v
                 PROVE  \E n \in DOMAIN studies :
                          SameDefinition(studies[n], NewStudy(r, v)) /\ studies[n].version = k
    BY <1>5 DEF Below
  <2>2. h \in Nat /\ k <= h /\ h # 0
    BY <1>2, <1>3, <1>6, <2>1 DEF IsHighest
  <2>3. PICK i \in DOMAIN studies : SameDefinition(r, studies[i]) /\ studies[i].version = h
    BY <1>2, <2>2 DEF IsHighest
  <2>4. Below(studies, studies[i])
    BY <1>6, <2>3 DEF LaboratoryInv
  <2>5. PICK n \in DOMAIN studies : SameDefinition(studies[n], studies[i]) /\ studies[n].version = k
    <3>1. CASE k = h
      BY <2>3, <3>1, SameIsEquivalence
    <3>2. CASE k < h
      BY <2>1, <2>3, <2>4, <3>2 DEF Below
    <3> QED
      BY <2>1, <2>2, <3>1, <3>2
  <2> QED
    BY <1>5, <2>3, <2>5 DEF SameDefinition
<1>7. call.at = "creating" /\ DOMAIN call = {"at", "study"} /\ call.study = NewStudy(r, v)
  OBVIOUS
<1>8. /\ calls' = [calls EXCEPT ![c] = call] /\ calls[c].at = "idle"
      /\ UNCHANGED <<studies, byStatus, activeStudies>>
  BY DEF ChoosesVersion, v
<1> HIDE DEF call
<1>9. SoundCall(call, studies)
  BY <1>5, <1>6, <1>7 DEF SoundCall
<1>10. c \notin Executing /\ call.at \notin {"starting", "waiting"}
  BY <1>7, <1>8 DEF Executing
<1> QED
  BY <1>8, <1>9, <1>10, CallOnly

LEMMA SavesKeeps ==
  ASSUME LaboratoryInv, NEW c \in Callers, SavesNew(c) PROVE LaboratoryInv'
<1> DEFINE k == calls[c]
           last == Len(studies) + 1
<1>1. /\ calls[c].at = "creating" /\ studies' = Append(studies, k.study)
      /\ byStatus' = [byStatus EXCEPT !["PENDING"] = @ \union {last}]
      /\ calls' = [calls EXCEPT ![c] = NoCall] /\ UNCHANGED activeStudies
  BY DEF SavesNew
<1>2. SoundStudy(k.study) /\ k.study.status = "PENDING" /\ (AutoVersion => Below(studies, k.study))
  <2>1. SoundCall(calls[c], studies)
    BY DEF LaboratoryInv
  <2> QED
    BY <1>1, <2>1 DEF SoundCall
<1>3. IsSequence(studies)
  BY DEF LaboratoryInv
<1>4. /\ IsSequence(studies') /\ Len(studies) \in Nat /\ DOMAIN studies = 1 .. Len(studies)
      /\ DOMAIN studies' = 1 .. last /\ studies'[last] = k.study
      /\ \A n \in 1 .. Len(studies) : studies'[n] = studies[n]
      /\ Extends(studies, studies')
  BY <1>1, <1>3, Appended, OneMore
<1>5. NoCall.at = "idle"
  BY DEF NoCall
<1>6. SoundCall(NoCall, studies')
  BY <1>5 DEF SoundCall
<1>7. c \notin Executing
  BY <1>1 DEF Executing
<1>8. /\ DOMAIN calls' = Callers /\ \A d \in Callers : SoundCall(calls'[d], studies')
      /\ Executing' = Executing \ {c}
  BY <1>1, <1>4, <1>5, <1>6, CallChanges
<1>9. Executing' = Executing
  BY <1>7, <1>8
<1>10. DOMAIN byStatus' = Statuses /\ \A x \in Statuses : byStatus[x] \subseteq byStatus'[x]
  BY <1>1 DEF LaboratoryInv
<1>11. last \in byStatus'["PENDING"]
  BY <1>1 DEF LaboratoryInv, Statuses
<1> HIDE DEF k
<1>12. ASSUME NEW s \in DOMAIN studies'
       PROVE  /\ SoundStudy(studies'[s]) /\ s \in byStatus'[studies'[s].status]
              /\ AutoVersion => Below(studies', studies'[s])
  <2>1. CASE s = last
    BY <1>2, <1>4, <1>11, <2>1, CopiesKeep
  <2>2. CASE s \in DOMAIN studies
    <3>1. studies'[s] = studies[s]
      BY <1>4, <2>2
    <3>2. SoundStudy(studies[s]) /\ s \in byStatus[studies[s].status]
      BY <2>2 DEF LaboratoryInv
    <3>3. studies[s].status \in Statuses
      BY <3>2 DEF SoundStudy
    <3>4. AutoVersion => Below(studies, studies[s])
      BY <2>2 DEF LaboratoryInv
    <3> QED
      BY <1>4, <1>10, <3>1, <3>2, <3>3, <3>4, CopiesKeep
  <2> QED
    BY <1>4, <1>12, <2>1, <2>2
<1>13. activeStudies' = Cardinality(Executing')
  BY <1>1, <1>9 DEF LaboratoryInv
<1> QED
  BY <1>4, <1>8, <1>10, <1>12, <1>13 DEF LaboratoryInv

LEMMA ReadsKeeps ==
  ASSUME LaboratoryInv, NEW c \in Callers, NEW s \in DOMAIN studies, NEW ctx, ReadsStudy(c, s, ctx)
  PROVE  LaboratoryInv'
<1> DEFINE call == [at |-> "read", id |-> s, study |-> studies[s], ctx |-> ctx]
<1>1. /\ calls[c].at = "idle" /\ calls' = [calls EXCEPT ![c] = call]
      /\ UNCHANGED <<studies, byStatus, activeStudies>>
  BY DEF ReadsStudy
<1>2. DOMAIN call = ReadFields /\ call.at = "read" /\ call.id = s /\ call.study = studies[s]
  BY DEF ReadFields
<1> HIDE DEF call
<1>3. SoundStudy(studies[s]) /\ IsCopy(studies[s], studies[s])
  BY SameIsEquivalence DEF LaboratoryInv, IsCopy
<1>4. SoundCall(call, studies)
  BY <1>2, <1>3 DEF SoundCall
<1>5. c \in Executing <=> call.at \in {"starting", "waiting"}
  BY <1>1, <1>2 DEF Executing
<1> QED
  BY <1>1, <1>4, <1>5, CallOnly

LEMMA RefusedKeeps ==
  ASSUME LaboratoryInv, NEW c \in Callers, NEW limit, Refused(c, limit) PROVE LaboratoryInv'
<1>1. /\ calls[c].at = "read" /\ calls' = [calls EXCEPT ![c] = NoCall]
      /\ UNCHANGED <<studies, byStatus, activeStudies>>
  BY DEF Refused
<1>2. NoCall.at = "idle"
  BY DEF NoCall
<1>3. SoundCall(NoCall, studies)
  BY <1>2 DEF SoundCall
<1>4. c \in Executing <=> NoCall.at \in {"starting", "waiting"}
  BY <1>1, <1>2 DEF Executing
<1> QED
  BY <1>1, <1>3, <1>4, CallOnly

(* A study is saved again, by a call that is then in another place.        *)
LEMMA SavedAgain ==
  ASSUME LaboratoryInv, NEW id \in DOMAIN studies, NEW study, SoundStudy(study),
         IsCopy(study, studies[id]), studies' = [studies EXCEPT ![id] = study],
         NEW old, byStatus' = UpdateStatus(id, old, study.status),
         DOMAIN calls' = Callers, \A d \in Callers : SoundCall(calls'[d], studies'),
         activeStudies' = Cardinality(Executing')
  PROVE  LaboratoryInv'
<1>1. IsSequence(studies)
  BY DEF LaboratoryInv
<1>2. IsSequence(studies') /\ DOMAIN studies' = DOMAIN studies /\ Extends(studies, studies')
  BY <1>1, Replaced
<1>3. \A n \in DOMAIN studies : studies'[n] = IF n = id THEN study ELSE studies[n]
  BY <1>1
<1>4. DOMAIN byStatus = Statuses /\ study.status \in Statuses
  BY DEF LaboratoryInv, SoundStudy
<1>5. /\ DOMAIN byStatus' = Statuses /\ id \in byStatus'[study.status]
      /\ \A x \in Statuses : \A n : n \in byStatus[x] /\ n # id => n \in byStatus'[x]
  BY <1>4 DEF UpdateStatus
<1>6. ASSUME NEW s \in DOMAIN studies
      PROVE  /\ SoundStudy(studies'[s]) /\ s \in byStatus'[studies'[s].status]
             /\ AutoVersion => Below(studies', studies'[s])
  <2>1. SoundStudy(studies[s]) /\ s \in byStatus[studies[s].status]
    BY DEF LaboratoryInv
  <2>2. AutoVersion => Below(studies, studies[s])
    BY DEF LaboratoryInv
  <2>3. IsCopy(studies'[s], studies[s])
    BY <1>2 DEF Extends
  <2>4. AutoVersion => Below(studies', studies'[s])
    BY <1>2, <2>2, <2>3, CopiesKeep
  <2>5. CASE s = id
    BY <1>3, <1>5, <2>4, <2>5
  <2>6. CASE s # id
    <3>1. studies[s].status \in Statuses
      BY <2>1 DEF SoundStudy
    <3> QED
      BY <1>3, <1>5, <2>1, <2>4, <2>6, <3>1
  <2> QED
    BY <2>5, <2>6
<1> QED
  BY <1>2, <1>5, <1>6 DEF LaboratoryInv

LEMMA RunsKeeps ==
  ASSUME LaboratoryInv, NEW c \in Callers, NEW limit, Runs(c, limit) PROVE LaboratoryInv'
<1> DEFINE k == calls[c]
           study == [k.study EXCEPT !.status = "RUNNING"]
           call == [k EXCEPT !.at = "starting", !.study.status = "RUNNING"]
<1>1. /\ k.at = "read" /\ activeStudies' = activeStudies + 1
      /\ studies' = [studies EXCEPT ![k.id] = study]
      /\ byStatus' = UpdateStatus(k.id, k.study.status, "RUNNING")
      /\ calls' = [calls EXCEPT ![c].at = "starting", ![c].study.status = "RUNNING"]
  BY DEF Runs
<1>2. /\ SoundStudy(k.study) /\ k.id \in DOMAIN studies /\ IsCopy(k.study, studies[k.id])
      /\ DOMAIN k = ReadFields
  <2>1. SoundCall(calls[c], studies)
    BY DEF LaboratoryInv
  <2> QED
    BY <1>1, <2>1 DEF SoundCall
<1>3. DOMAIN calls = Callers /\ IsSequence(studies)
  BY DEF LaboratoryInv
<1>4. calls' = [calls EXCEPT ![c] = call]
  BY <1>1, <1>3
<1>5. /\ DOMAIN study = StudyFields /\ study.status = "RUNNING" /\ study.version = k.study.version
      /\ study.strategy = k.study.strategy /\ study.parameters = k.study.parameters
      /\ study.sessions = k.study.sessions /\ study.output = k.study.output
  BY <1>2 DEF SoundStudy, StudyFields
<1>6. DOMAIN call = ReadFields /\ call.at = "starting" /\ call.study = study /\ call.id = k.id
  BY <1>2 DEF ReadFields
<1>7. c \notin Executing
  BY <1>1 DEF Executing
<1> HIDE DEF study, call
<1>8. SoundStudy(study) /\ IsCopy(study, studies[k.id])
  BY <1>2, <1>5 DEF SoundStudy, HasOutput, Statuses, IsCopy, SameDefinition
<1>9. /\ Extends(studies, studies') /\ DOMAIN studies' = DOMAIN studies /\ studies'[k.id] = study
  BY <1>1, <1>2, <1>3, <1>8, Replaced
<1>10. SoundCall(call, studies')
  <2>1. IsCopy(call.study, studies'[call.id])
    BY <1>6, <1>9, SameIsEquivalence DEF IsCopy
  <2> QED
    BY <1>2, <1>5, <1>6, <1>8, <1>9, <2>1 DEF SoundCall
<1>11. /\ DOMAIN calls' = Callers /\ \A d \in Callers : SoundCall(calls'[d], studies')
       /\ Executing' = Executing \union {c}
  BY <1>4, <1>6, <1>9, <1>10, CallChanges
<1>12. activeStudies' = Cardinality(Executing')
  BY <1>1, <1>7, <1>11, ExecutingCard, FS_AddElement DEF LaboratoryInv
<1> HIDE DEF k
<1> QED
  BY <1>1, <1>2, <1>5, <1>8, <1>11, <1>12, SavedAgain

LEMMA StartedKeeps ==
  ASSUME LaboratoryInv, NEW c \in Callers, NEW session \in Nat \ {0}, Started(c, session)
  PROVE  LaboratoryInv'
<1> DEFINE k == calls[c]
           call == [at |-> "waiting", id |-> k.id, study |-> k.study, ctx |-> k.ctx, session |-> session]
<1>1. DOMAIN calls = Callers /\ SoundCall(k, studies)
  BY DEF LaboratoryInv
<1>2. /\ k.at = "starting" /\ calls' = [calls EXCEPT ![c] = call]
      /\ UNCHANGED <<studies, byStatus, activeStudies>>
  BY <1>1 DEF Started
<1>3. /\ DOMAIN call = ReadFields \union {"session"} /\ call.at = "waiting" /\ call.id = k.id
      /\ call.study = k.study /\ call.session = session
  BY DEF ReadFields
<1>4. c \in Executing <=> call.at \in {"starting", "waiting"}
  BY <1>2, <1>3 DEF Executing
<1> HIDE DEF call, k
<1>5. SoundCall(call, studies)
  BY <1>1, <1>2, <1>3 DEF SoundCall
<1> QED
  BY <1>2, <1>4, <1>5, CallOnly

(* The output of a study has the figures of its session's summary.         *)
LEMMA OutputSound ==
  ASSUME NEW summary
  PROVE  /\ StudyOutput(summary).sessionCount = 1
         /\ SoundFigures(summary) => SoundOutput(StudyOutput(summary))
<1> DEFINE output == StudyOutput(summary)
<1>1. /\ output.sessionCount = 1 /\ DOMAIN output = DOMAIN summary \union {"sessionCount"}
      /\ \A f \in DOMAIN summary \ {"sessionCount"} : output[f] = summary[f]
  BY DEF StudyOutput
<1> HIDE DEF output
<1>2. ASSUME SoundFigures(summary) PROVE SoundOutput(output)
  <2>1. DOMAIN summary = DOMAIN NoDocuments /\ Figures(summary)
    BY <1>2 DEF SoundFigures
  <2>2. /\ output.generated = summary.generated /\ output.closed = summary.closed
        /\ output.buy = summary.buy /\ output.watch = summary.watch /\ output.avoid = summary.avoid
        /\ output.confidence = summary.confidence /\ output.highest = summary.highest
        /\ output.lowest = summary.lowest /\ output.return = summary.return
        /\ output.winRate = summary.winRate /\ output.lossRate = summary.lossRate
        /\ output.winning = summary.winning /\ output.losing = summary.losing
        /\ output.counts = summary.counts
    BY <1>1, <2>1 DEF NoDocuments
  <2>3. Figures(output)
    BY <2>1, <2>2 DEF Figures
  <2>4. Counts(output.counts)
    BY <2>3 DEF Figures
  <2> QED
    BY <1>1, <2>1, <2>3, <2>4 DEF SoundOutput
<1> QED
  BY <1>1, <1>2 DEF output

LEMMA FinishesKeeps ==
  ASSUME LaboratoryInv, NEW c \in Callers, c \in Executing, NEW session, NEW failed \in BOOLEAN,
         ~failed => session # 0, NEW summary, ~failed => SoundFigures(summary),
         Finishes(c, session, failed, summary)
  PROVE  LaboratoryInv'
<1> DEFINE k == calls[c]
           study == Ended(k.study, session, failed, summary)
<1>1. /\ studies' = [studies EXCEPT ![k.id] = study]
      /\ byStatus' = UpdateStatus(k.id, "RUNNING", study.status)
      /\ activeStudies' = activeStudies - 1
      /\ calls' = [calls EXCEPT ![c] = NoCall]
  BY DEF Finishes
<1>2. SoundStudy(k.study) /\ k.id \in DOMAIN studies /\ IsCopy(k.study, studies[k.id])
  <2>1. SoundCall(calls[c], studies) /\ calls[c].at \in {"starting", "waiting"}
    BY DEF LaboratoryInv, Executing
  <2> QED
    BY <2>1 DEF SoundCall
<1>3. DOMAIN calls = Callers /\ IsSequence(studies)
  BY DEF LaboratoryInv
<1>4. /\ DOMAIN study = StudyFields /\ study.version = k.study.version
      /\ study.strategy = k.study.strategy /\ study.parameters = k.study.parameters
      /\ study.sessions = Append(k.study.sessions, session)
      /\ study.status = (IF failed THEN "FAILED" ELSE "COMPLETED")
      /\ study.output = IF failed THEN k.study.output ELSE StudyOutput(summary)
  BY <1>2 DEF SoundStudy, StudyFields, Ended
<1>5. IsSequence(study.sessions) /\ Last(study.sessions) = session
  BY <1>2, <1>4, Appended DEF SoundStudy, Last
<1>6. /\ StudyOutput(summary).sessionCount = 1
      /\ SoundFigures(summary) => SoundOutput(StudyOutput(summary))
  BY OutputSound
<1> HIDE DEF study
<1>13. SoundOutput(study.output)
  BY <1>2, <1>4, <1>6 DEF SoundStudy
<1>7. SoundStudy(study) /\ IsCopy(study, studies[k.id])
  BY <1>2, <1>4, <1>5, <1>6, <1>13 DEF SoundStudy, HasOutput, Statuses, IsCopy, SameDefinition
<1>8. Extends(studies, studies')
  BY <1>1, <1>2, <1>3, <1>7, Replaced
<1>9. NoCall.at = "idle"
  BY DEF NoCall
<1>10. SoundCall(NoCall, studies')
  BY <1>9 DEF SoundCall
<1>11. /\ DOMAIN calls' = Callers /\ \A d \in Callers : SoundCall(calls'[d], studies')
       /\ Executing' = Executing \ {c}
  BY <1>1, <1>8, <1>9, <1>10, CallChanges
<1>12. activeStudies' = Cardinality(Executing')
  BY <1>1, <1>11, ExecutingCard, FS_RemoveElement DEF LaboratoryInv
<1> HIDE DEF k
<1> QED
  BY <1>1, <1>2, <1>7, <1>11, <1>12, SavedAgain

-----------------------------------------------------------------------------
(* The sessions begun are a sequence, whatever changes of them.            *)
LEMMA SequenceOf ==
  ASSUME NEW k \in Nat, NEW f, f = [n \in 1 .. k |-> f[n]]
  PROVE  IsSequence(f)
<1>1. f \in [1 .. k -> {f[n] : n \in DOMAIN f}]
  OBVIOUS
<1> QED
  BY <1>1, SeqDef DEF IsSequence

LEMMA SessionsStay ==
  ASSUME IsSequence(sessionRuns), DOMAIN sessionRuns' = DOMAIN sessionRuns,
         sessionRuns' = [s \in DOMAIN sessionRuns' |-> sessionRuns'[s]]
  PROVE  IsSequence(sessionRuns')
BY SequenceOf, LenProperties DEF IsSequence

(***************************************************************************)
(* Sessions: those that are not filed hold a slot, one of them replays, and*)
(* what is filed adds up.                                                  *)
(***************************************************************************)
RunFields == {"at", "request", "ctx", "engine", "failed", "heard"}
SoundRun(run) == DOMAIN run = RunFields /\ SoundEvents(run.heard)
OpenRuns == {s \in DOMAIN sessionRuns : Open(s)}

SessionsInv ==
  /\ IsSequence(sessionRuns) /\ \A s \in DOMAIN sessionRuns : SoundRun(sessionRuns[s])
  /\ DOMAIN sessions = {s \in DOMAIN sessionRuns : ~Open(s)}
  /\ \A s \in DOMAIN sessions : SoundFigures(sessions[s].summary)
  /\ activeSessions = Cardinality(OpenRuns) /\ activeSessions <= SessionLimit[config]
  /\ \A s, t \in Holding : s = t
  /\ SoundDocs(delivered)
  /\ closing \in 1 .. 8 /\ (runnerClosed <=> closing >= 3) /\ (closing > 3 => AutoDone)

(* The stages of Container.Close.                                          *)
LEMMA StagesAre ==
  /\ Len(Stages) = 8 /\ DOMAIN Stages = 1 .. 8
  /\ StageOf("gateway") = 2 /\ StageOf("runner") = 3 /\ StageOf("aicontext") = 4
  /\ StageOf("airesearch") = 5
  /\ \A n \in 1 .. 8 : Stages[n] = "runner" <=> n = 3
<1>1. /\ Len(Stages) = 8 /\ DOMAIN Stages = 1 .. 8
      /\ Stages[1] = "open" /\ Stages[2] = "gateway" /\ Stages[3] = "runner" /\ Stages[4] = "aicontext"
      /\ Stages[5] = "airesearch" /\ Stages[6] = "laboratory" /\ Stages[7] = "manager"
      /\ Stages[8] = "closed"
  BY DEF Stages
<1>2. \A n \in 1 .. 8 : n = 1 \/ n = 2 \/ n = 3 \/ n = 4 \/ n = 5 \/ n = 6 \/ n = 7 \/ n = 8
  OBVIOUS
<1>3. ASSUME NEW m \in 1 .. 8 PROVE StageOf(Stages[m]) = m
  <2>1. StageOf(Stages[m]) \in 1 .. 8 /\ Stages[StageOf(Stages[m])] = Stages[m]
    BY <1>1 DEF StageOf
  <2> QED
    BY <1>1, <1>2, <2>1
<1>4. 2 \in 1 .. 8 /\ 3 \in 1 .. 8 /\ 4 \in 1 .. 8 /\ 5 \in 1 .. 8
  OBVIOUS
<1>5. /\ StageOf("gateway") = 2 /\ StageOf("runner") = 3 /\ StageOf("aicontext") = 4
      /\ StageOf("airesearch") = 5
  BY <1>1, <1>3, <1>4
<1>6. \A n \in 1 .. 8 : Stages[n] = "runner" <=> n = 3
  BY <1>1, <1>2
<1> QED
  BY <1>1, <1>5, <1>6

LEMMA OpenFinite ==
  ASSUME IsSequence(sessionRuns)
  PROVE  IsFiniteSet(OpenRuns) /\ Cardinality(OpenRuns) \in Nat /\ IsFiniteSet(Holding)
<1>1. IsFiniteSet(DOMAIN sessionRuns)
  BY FS_Interval DEF IsSequence
<1>2. OpenRuns \subseteq DOMAIN sessionRuns /\ Holding \subseteq DOMAIN sessionRuns
  BY DEF OpenRuns, Holding
<1> QED
  BY <1>1, <1>2, FS_Subset, FS_CardinalityType

(* What SessionsInv says of sessions and slots.                            *)
LEMMA SessionsThen == ASSUME SessionsInv PROVE Sessions /\ SummariesAddUp /\ AutoQuiet
<1>1. Cardinality(Holding) <= 1
  <2>1. CASE Holding = {}
    BY <2>1, FS_EmptySet
  <2>2. CASE Holding # {}
    <3>1. PICK s : s \in Holding
      BY <2>2
    <3>2. Holding = {s}
      BY <3>1 DEF SessionsInv
    <3> QED
      BY <3>2, FS_Singleton
  <2> QED
    BY <2>1, <2>2
<1>2. Sessions
  BY <1>1 DEF SessionsInv, Sessions, SlotsMatchSessions, OpenRuns
<1>3. SummariesAddUp
  BY DEF SessionsInv, SoundFigures, Figures, SummariesAddUp
<1>4. AutoQuiet
  BY StagesAre DEF SessionsInv, AutoQuiet, AutoDone
<1> QED
  BY <1>2, <1>3, <1>4

(* Sessions change, and none of them begins or is filed.                   *)
LEMMA SessionsChange ==
  ASSUME SessionsInv, DOMAIN sessionRuns' = DOMAIN sessionRuns,
         sessionRuns' = [s \in DOMAIN sessionRuns' |-> sessionRuns'[s]],
         \A s \in DOMAIN sessionRuns :
           /\ SoundRun(sessionRuns'[s]) /\ sessionRuns'[s].ctx = sessionRuns[s].ctx
           /\ sessionRuns'[s].at = "done" <=> sessionRuns[s].at = "done",
         \A s, t \in Holding' : s = t,
         UNCHANGED <<sessions, activeSessions, runnerClosed, closing, config>>, SoundDocs(delivered')
  PROVE  SessionsInv'
<1>1. IsSequence(sessionRuns')
  BY SessionsStay DEF SessionsInv
<1>2. OpenRuns' = OpenRuns
  BY DEF OpenRuns, Open
<1>3. {s \in DOMAIN sessionRuns' : ~Open(s)'} = {s \in DOMAIN sessionRuns : ~Open(s)}
  BY DEF Open
<1>4. AutoDone => AutoDone'
  BY DEF AutoDone, Open
<1> QED
  BY <1>1, <1>2, <1>3, <1>4 DEF SessionsInv

LEMMA SessionsUnchanged ==
  ASSUME SessionsInv, UNCHANGED <<sessionVars, delivered, closing, config>> PROVE SessionsInv'
BY DEF SessionsInv, sessionVars, OpenRuns, Open, Holding, AutoDone

LEMMA SessionsBegin ==
  ASSUME SessionsInv, config \in Configurations, Admits(SessionLimit[config]), NEW request, NEW ctx,
         StartSession(request, ctx), UNCHANGED <<delivered, closing, config>>
  PROVE  /\ SessionsInv' /\ Len(sessionRuns) + 1 \in Nat \ {0}
         /\ DOMAIN sessionRuns' = DOMAIN sessionRuns \union {Len(sessionRuns) + 1}
<1> DEFINE new == NewSession(request, ctx)
           last == Len(sessionRuns) + 1
<1>1. /\ sessionRuns' = Append(sessionRuns, new) /\ activeSessions' = activeSessions + 1
      /\ UNCHANGED <<sessions, runnerClosed>> /\ ~runnerClosed /\ activeSessions < SessionLimit[config]
  BY DEF StartSession, Admits
<1>2. IsSequence(sessionRuns)
  BY DEF SessionsInv
<1>3. /\ IsSequence(sessionRuns') /\ Len(sessionRuns) \in Nat /\ DOMAIN sessionRuns = 1 .. Len(sessionRuns)
      /\ DOMAIN sessionRuns' = 1 .. last /\ sessionRuns'[last] = new
      /\ \A n \in 1 .. Len(sessionRuns) : sessionRuns'[n] = sessionRuns[n]
  BY <1>1, <1>2, Appended
<1>4. SoundRun(new) /\ new.at = "replay"
  <2>1. new.at = "replay" /\ DOMAIN new = RunFields /\ new.heard = <<>>
    BY DEF NewSession, RunFields
  <2>2. SoundEvents(<<>>)
    BY DEF SoundEvents, IsSequence
  <2> QED
    BY <2>1, <2>2 DEF SoundRun
<1> HIDE DEF new
<1>5. DOMAIN sessionRuns' = DOMAIN sessionRuns \union {last} /\ last \notin DOMAIN sessionRuns
        /\ \A s \in DOMAIN sessionRuns : sessionRuns'[s] = sessionRuns[s]
  BY <1>3
<1>6. OpenRuns' = OpenRuns \union {last}
  BY <1>3, <1>4, <1>5 DEF OpenRuns, Open
<1>7. last \notin OpenRuns
  BY <1>5 DEF OpenRuns
<1>8. activeSessions' = Cardinality(OpenRuns') /\ activeSessions' <= SessionLimit[config]
  <2>1. IsFiniteSet(OpenRuns) /\ Cardinality(OpenRuns) \in Nat /\ activeSessions = Cardinality(OpenRuns)
    BY <1>2, OpenFinite DEF SessionsInv
  <2>2. SessionLimit[config] \in Nat
    BY SessionsAdmitted
  <2>3. Cardinality(OpenRuns') = Cardinality(OpenRuns) + 1
    BY <1>6, <1>7, <2>1, FS_AddElement
  <2> QED
    BY <1>1, <2>1, <2>2, <2>3
<1>9. {s \in DOMAIN sessionRuns' : ~Open(s)'} = {s \in DOMAIN sessionRuns : ~Open(s)}
  BY <1>3, <1>4, <1>5 DEF Open
<1>10. Holding' = Holding
  BY <1>3, <1>4, <1>5 DEF Holding
<1>11. closing' \in 1 .. 8 /\ (runnerClosed' <=> closing' >= 3) /\ ~ (closing' > 3)
  <2>1. closing \in 1 .. 8 /\ (runnerClosed <=> closing >= 3) /\ closing' = closing
    BY DEF SessionsInv
  <2>2. ~ (closing >= 3)
    BY <1>1, <2>1
  <2> QED
    BY <1>1, <2>1, <2>2
<1>12. \A s \in DOMAIN sessionRuns' : SoundRun(sessionRuns'[s])
  BY <1>3, <1>4, <1>5 DEF SessionsInv
<1>13. SessionsInv'
  BY <1>1, <1>3, <1>8, <1>9, <1>10, <1>11, <1>12 DEF SessionsInv
<1> QED
  BY <1>3, <1>5, <1>13

(* A session steps while it replays.                                       *)
LEMMA RunSteps ==
  ASSUME SessionsInv, NEW s \in DOMAIN sessionRuns, Open(s), NEW run, SoundRun(run), run.at # "done",
         run.ctx = sessionRuns[s].ctx, run.at = "replaying" => Holding \subseteq {s},
         sessionRuns' = [sessionRuns EXCEPT ![s] = run],
         UNCHANGED <<sessions, activeSessions, runnerClosed, delivered, closing, config>>
  PROVE  SessionsInv'
<1>1. /\ DOMAIN sessionRuns' = DOMAIN sessionRuns
      /\ sessionRuns' = [r \in DOMAIN sessionRuns' |-> sessionRuns'[r]]
      /\ \A r \in DOMAIN sessionRuns : sessionRuns'[r] = IF r = s THEN run ELSE sessionRuns[r]
  BY DEF SessionsInv, IsSequence
<1>2. \A r \in DOMAIN sessionRuns : SoundRun(sessionRuns[r])
  BY DEF SessionsInv
<1>3. \A r \in DOMAIN sessionRuns :
        /\ SoundRun(sessionRuns'[r]) /\ sessionRuns'[r].ctx = sessionRuns[r].ctx
        /\ sessionRuns'[r].at = "done" <=> sessionRuns[r].at = "done"
  BY <1>1, <1>2 DEF Open
<1>4. \A r, t \in Holding' : r = t
  BY <1>1 DEF Holding, SessionsInv
<1>5. SoundDocs(delivered')
  BY DEF SessionsInv
<1> QED
  BY <1>1, <1>3, <1>4, <1>5, SessionsChange

LEMMA BeginsKeeps ==
  ASSUME SessionsInv, NEW s \in DOMAIN sessionRuns, NEW all, NEW e, NEW recovered,
         BeginsReplay(s, all, e, recovered), UNCHANGED <<delivered, closing, config>>
  PROVE  SessionsInv'
<1> DEFINE run == [sessionRuns[s] EXCEPT !.at = "replaying", !.engine = e]
<1>1. /\ sessionRuns[s].at = "replay" /\ Holding = {}
      /\ sessionRuns' = [sessionRuns EXCEPT ![s] = run]
      /\ UNCHANGED <<sessions, activeSessions, runnerClosed>>
  BY DEF BeginsReplay, Unlocked
<1>2. SoundRun(sessionRuns[s])
  BY DEF SessionsInv
<1>3. SoundRun(run) /\ run.at = "replaying" /\ run.ctx = sessionRuns[s].ctx
  BY <1>2 DEF SoundRun, RunFields
<1> HIDE DEF run
<1> QED
  BY <1>1, <1>3, RunSteps DEF Open

LEMMA ReplaysKeeps ==
  ASSUME SessionsInv, NEW s \in DOMAIN sessionRuns, NEW cancelled, Replays(s, cancelled),
         UNCHANGED <<delivered, closing, config>>
  PROVE  SessionsInv'
<1>1. sessionRuns[s].at = "replaying" /\ UNCHANGED <<sessions, activeSessions, runnerClosed>>
  BY DEF Replays
<1>2. /\ SoundRun(sessionRuns[s]) /\ s \in Holding /\ Holding \subseteq {s}
      /\ sessionRuns = [r \in DOMAIN sessionRuns |-> sessionRuns[r]]
  BY <1>1 DEF SessionsInv, Holding, IsSequence
<1>3. PICK failed \in BOOLEAN :
        \/ UNCHANGED sessionRuns
        \/ sessionRuns' = [sessionRuns EXCEPT ![s].failed = failed]
        \/ sessionRuns' = [sessionRuns EXCEPT ![s].at = "replayed"]
  BY DEF Replays
<1>4. CASE UNCHANGED sessionRuns
  BY <1>1, <1>4, SessionsUnchanged DEF sessionVars
<1>5. CASE sessionRuns' = [sessionRuns EXCEPT ![s].failed = failed]
  <2> DEFINE run == [sessionRuns[s] EXCEPT !.failed = failed]
  <2>1. SoundRun(run) /\ run.at = "replaying" /\ run.ctx = sessionRuns[s].ctx
    BY <1>1, <1>2 DEF SoundRun, RunFields
  <2>2. sessionRuns' = [sessionRuns EXCEPT ![s] = run]
    BY <1>5
  <2> HIDE DEF run
  <2> QED
    BY <1>1, <1>2, <2>1, <2>2, RunSteps DEF Open
<1>6. CASE sessionRuns' = [sessionRuns EXCEPT ![s].at = "replayed"]
  <2> DEFINE run == [sessionRuns[s] EXCEPT !.at = "replayed"]
  <2>1. SoundRun(run) /\ run.at = "replayed" /\ run.ctx = sessionRuns[s].ctx
    BY <1>1, <1>2 DEF SoundRun, RunFields
  <2>2. sessionRuns' = [sessionRuns EXCEPT ![s] = run]
    BY <1>6
  <2> HIDE DEF run
  <2> QED
    BY <1>1, <1>2, <2>1, <2>2, RunSteps DEF Open
<1> QED
  BY <1>3, <1>4, <1>5, <1>6

LEMMA FilesKeeps ==
  ASSUME SessionsInv, config \in Configurations, NEW s \in DOMAIN sessionRuns, Files(s, delivered),
         UNCHANGED <<delivered, closing, config>>
  PROVE  SessionsInv'
<1> DEFINE run == [sessionRuns[s] EXCEPT !.at = "done", !.heard = <<>>]
<1>1. /\ sessionRuns[s].at = "replayed" /\ sessionRuns' = [sessionRuns EXCEPT ![s] = run]
      /\ activeSessions' = activeSessions - 1 /\ UNCHANGED runnerClosed
  BY DEF Files, Saves
<1>2. IsSequence(sessionRuns) /\ SoundRun(sessionRuns[s]) /\ SoundDocs(delivered)
  BY DEF SessionsInv
<1>3. PICK summary : /\ SoundFigures(summary) /\ DOMAIN sessions' = DOMAIN sessions \union {s}
                     /\ sessions'[s].summary = summary
                     /\ \A r \in DOMAIN sessions \ {s} : sessions'[r] = sessions[r]
  <2>1. PICK n \in 0 .. Len(sessionRuns[s].heard) :
          LET collected == Collected(SubSeq(sessionRuns[s].heard, 1, n))
              saved == [status |-> IF sessionRuns[s].failed THEN "FAILED" ELSE "COMPLETED",
                        summary |-> BuildSummary(CollectDocuments(s, collected.docs, delivered), collected.counts)]
          IN sessions' = [r \in DOMAIN sessions \union {s} |-> IF r = s THEN saved ELSE sessions[r]]
    BY DEF Files, Saves
  <2> DEFINE collected == Collected(SubSeq(sessionRuns[s].heard, 1, n))
             summary == BuildSummary(CollectDocuments(s, collected.docs, delivered), collected.counts)
  <2>2. SoundFigures(summary)
    BY <1>2, FiledSound DEF SoundRun
  <2> HIDE DEF collected
  <2>3. /\ DOMAIN sessions' = DOMAIN sessions \union {s} /\ sessions'[s].summary = summary
        /\ \A r \in DOMAIN sessions \ {s} : sessions'[r] = sessions[r]
    BY <2>1 DEF collected
  <2> QED
    BY <2>2, <2>3
<1>4. SoundRun(run) /\ run.at = "done" /\ run.ctx = sessionRuns[s].ctx
  <2>1. DOMAIN run = RunFields /\ run.at = "done" /\ run.heard = <<>> /\ run.ctx = sessionRuns[s].ctx
    BY <1>2 DEF SoundRun, RunFields
  <2>2. SoundEvents(<<>>)
    BY DEF SoundEvents, IsSequence
  <2> QED
    BY <2>1, <2>2 DEF SoundRun
<1> HIDE DEF run
<1>5. /\ DOMAIN sessionRuns' = DOMAIN sessionRuns
      /\ sessionRuns' = [r \in DOMAIN sessionRuns' |-> sessionRuns'[r]]
      /\ \A r \in DOMAIN sessionRuns : sessionRuns'[r] = IF r = s THEN run ELSE sessionRuns[r]
  BY <1>1, <1>2 DEF IsSequence
<1>6. IsSequence(sessionRuns')
  BY <1>2, <1>5, SessionsStay
<1>7. OpenRuns' = OpenRuns \ {s} /\ s \in OpenRuns
  BY <1>1, <1>4, <1>5 DEF OpenRuns, Open
<1>8. activeSessions' = Cardinality(OpenRuns') /\ activeSessions' <= SessionLimit[config]
  <2>1. /\ IsFiniteSet(OpenRuns) /\ Cardinality(OpenRuns) \in Nat /\ activeSessions = Cardinality(OpenRuns)
        /\ activeSessions <= SessionLimit[config]
    BY <1>2, OpenFinite DEF SessionsInv
  <2>2. Cardinality(OpenRuns') = Cardinality(OpenRuns) - 1
    BY <1>7, <2>1, FS_RemoveElement
  <2>3. activeSessions' = Cardinality(OpenRuns')
    BY <1>1, <2>1, <2>2
  <2>4. SessionLimit[config] \in Nat
    BY SessionsAdmitted
  <2> QED
    BY <1>1, <2>1, <2>3, <2>4
<1>9. DOMAIN sessions' = {r \in DOMAIN sessionRuns' : ~Open(r)'}
  BY <1>1, <1>3, <1>4, <1>5 DEF SessionsInv, Open
<1>10. \A r \in DOMAIN sessions' : SoundFigures(sessions'[r].summary)
  BY <1>3 DEF SessionsInv
<1>11. \A r, t \in Holding' : r = t
  BY <1>1, <1>4, <1>5 DEF SessionsInv, Holding
<1>12. AutoDone => AutoDone'
  BY <1>1, <1>4, <1>5 DEF AutoDone, Open
<1>13. \A r \in DOMAIN sessionRuns' : SoundRun(sessionRuns'[r])
  BY <1>4, <1>5 DEF SessionsInv
<1> QED
  BY <1>1, <1>6, <1>8, <1>9, <1>10, <1>11, <1>12, <1>13 DEF SessionsInv

(* What the platform makes of a candle is heard by the open sessions.      *)
LEMMA MadeIsSound == ASSUME NEW candle, NEW out \in MadeOf(candle) PROVE SoundEvents(out)
<1>1. CASE candle \in DOMAIN Outcomes
  <2>1. out \in Outcomes[candle]
    BY <1>1 DEF MadeOf
  <2>2. out \in Seq(ToSet(out))
    BY <1>1, <2>1, OutcomesTyped
  <2>3. IsSequence(out)
    BY <2>2, RangeIsEnough
  <2> QED
    BY <1>1, <2>1, <2>3, OutcomesTyped DEF SoundEvents, SoundDoc
<1>2. CASE candle \notin DOMAIN Outcomes
  BY <1>2 DEF MadeOf, SoundEvents, IsSequence
<1> QED
  BY <1>1, <1>2

LEMMA HeardSound ==
  ASSUME NEW s, SoundEvents(s), NEW t, SoundEvents(t) PROVE SoundEvents(s \o t)
<1>1. /\ IsSequence(s \o t) /\ Len(s) \in Nat /\ Len(t) \in Nat
      /\ DOMAIN s = 1 .. Len(s) /\ DOMAIN t = 1 .. Len(t)
      /\ DOMAIN (s \o t) = 1 .. Len(s) + Len(t)
      /\ \A n \in 1 .. Len(s) : (s \o t)[n] = s[n]
      /\ \A n \in 1 .. Len(t) : (s \o t)[Len(s) + n] = t[n]
  BY Joined DEF SoundEvents
<1> DEFINE u == s \o t
<1>2. ASSUME NEW n \in DOMAIN u, u[n].type = "delivery" PROVE SoundDoc(u[n].doc)
  <2>1. CASE n \in 1 .. Len(s)
    BY <1>1, <1>2, <2>1 DEF SoundEvents
  <2>2. CASE n \notin 1 .. Len(s)
    <3> DEFINE m == n - Len(s)
    <3>1. m \in 1 .. Len(t) /\ n = Len(s) + m
      BY <1>1, <2>2
    <3>2. u[n] = t[m]
      BY <1>1, <3>1
    <3> HIDE DEF u, m
    <3> QED
      BY <1>1, <1>2, <3>1, <3>2 DEF SoundEvents
  <2> QED
    BY <2>1, <2>2
<1> QED
  BY <1>1, <1>2 DEF SoundEvents

LEMMA AnalyseKeeps == ASSUME SessionsInv, Analyse PROVE SessionsInv'
<1>1. PICK out \in MadeOf(Head(analysing)) : delivered' = Documents(delivered, out) /\ Hears(out)
  BY DEF Analyse
<1>2. UNCHANGED <<sessions, activeSessions, runnerClosed, closing, config>>
  BY DEF Analyse, lifeVars
<1>3. SoundEvents(out)
  BY <1>1, MadeIsSound
<1>4. SoundDocs(delivered')
  BY <1>1, <1>3, DocumentsSound DEF SessionsInv
<1>5. /\ DOMAIN sessionRuns' = DOMAIN sessionRuns
      /\ sessionRuns' = [s \in DOMAIN sessionRuns' |-> sessionRuns'[s]]
      /\ \A s \in DOMAIN sessionRuns :
           sessionRuns'[s] = IF Open(s) THEN [sessionRuns[s] EXCEPT !.heard = @ \o out] ELSE sessionRuns[s]
  BY <1>1 DEF Hears
<1>6. ASSUME NEW s \in DOMAIN sessionRuns
      PROVE  /\ SoundRun(sessionRuns'[s]) /\ sessionRuns'[s].ctx = sessionRuns[s].ctx
             /\ sessionRuns'[s].at = sessionRuns[s].at
  <2>1. SoundRun(sessionRuns[s])
    BY DEF SessionsInv
  <2>2. SoundEvents(sessionRuns[s].heard \o out)
    BY <1>3, <2>1, HeardSound DEF SoundRun
  <2>3. CASE Open(s)
    <3> DEFINE run == [sessionRuns[s] EXCEPT !.heard = sessionRuns[s].heard \o out]
    <3>1. /\ DOMAIN run = RunFields /\ run.heard = sessionRuns[s].heard \o out
          /\ run.ctx = sessionRuns[s].ctx /\ run.at = sessionRuns[s].at
      BY <2>1 DEF SoundRun, RunFields
    <3>2. sessionRuns'[s] = run
      BY <1>5, <2>3
    <3> HIDE DEF run
    <3> QED
      BY <2>2, <3>1, <3>2 DEF SoundRun
  <2>4. CASE ~Open(s)
    BY <1>5, <2>1, <2>4
  <2> QED
    BY <2>3, <2>4
<1>7. \A s, t \in Holding' : s = t
  BY <1>5, <1>6 DEF Holding, SessionsInv
<1>8. \A s \in DOMAIN sessionRuns :
        /\ SoundRun(sessionRuns'[s]) /\ sessionRuns'[s].ctx = sessionRuns[s].ctx
        /\ sessionRuns'[s].at = "done" <=> sessionRuns[s].at = "done"
  BY <1>6
<1> QED
  BY <1>2, <1>4, <1>5, <1>7, <1>8, SessionsChange

LEMMA CloseKeeps == ASSUME SessionsInv, CloseStep PROVE SessionsInv'
<1>1. /\ closing < Len(Stages) /\ MayLeave(Stages[closing]) /\ closing' = closing + 1
      /\ runnerClosed' = (closing' >= StageOf("runner"))
      /\ UNCHANGED <<sessionRuns, sessions, activeSessions, delivered, config>>
  BY DEF CloseStep, marketVars
<1>2. closing \in 1 .. 8 /\ closing < 8 /\ (runnerClosed' <=> closing' >= 3)
  BY <1>1, StagesAre DEF SessionsInv
<1>3. closing' > 3 => AutoDone
  <2>1. CASE closing = 3
    <3>1. Stages[closing] = "runner"
      BY <1>2, <2>1, StagesAre
    <3>2. MayLeave("runner")
      BY <1>1, <3>1
    <3>3. "runner" \notin Consumers /\ "runner" # "manager"
      BY DEF Consumers
    <3>4. AutoDone
      BY <3>2, <3>3 DEF MayLeave
    <3> QED
      BY <3>4
  <2>2. CASE closing # 3
    BY <1>1, <1>2, <2>2 DEF SessionsInv
  <2> QED
    BY <2>1, <2>2
<1>4. AutoDone' = AutoDone /\ OpenRuns' = OpenRuns /\ Holding' = Holding /\ \A s : Open(s)' = Open(s)
  BY <1>1 DEF AutoDone, OpenRuns, Holding, Open
<1>5. closing' \in 1 .. 8
  BY <1>1, <1>2
<1> QED
  BY <1>1, <1>2, <1>3, <1>4, <1>5 DEF SessionsInv

-----------------------------------------------------------------------------
(* A study that is executed, however often.                                *)
Under(id) == \E c \in Executing : calls[c].id = id

(* What calls do to studies before a study ends, and to other calls.       *)
Moved ==
  /\ DOMAIN studies \subseteq DOMAIN studies'
  /\ \A id \in DOMAIN studies : studies'[id] = studies[id] \/ (studies'[id].status = "RUNNING" /\ Under(id)')
  /\ \A id \in DOMAIN studies' \ DOMAIN studies : studies'[id].status = "PENDING"
  /\ \A id : Under(id) => Under(id)'
OthersWait == \A c \in Callers : calls'[c].at = "waiting" => calls'[c] = calls[c]

LEMMA CallMoves ==
  ASSUME LaboratoryInv, NEW c \in Callers, NEW call, calls' = [calls EXCEPT ![c] = call],
         c \in Executing => call.at \in {"starting", "waiting"} /\ call.id = calls[c].id
  PROVE  /\ \A id : Under(id) => Under(id)'
         /\ call.at # "waiting" => OthersWait
         /\ call.at \in {"starting", "waiting"} => \A id : id = call.id => Under(id)'
<1>1. DOMAIN calls' = Callers /\ \A d \in Callers : calls'[d] = IF d = c THEN call ELSE calls[d]
  BY DEF LaboratoryInv
<1>2. Executing' = {d \in Callers : calls'[d].at \in {"starting", "waiting"}}
  BY DEF Executing
<1>3. ASSUME NEW id, Under(id) PROVE Under(id)'
  <2>1. PICK d \in Executing : calls[d].id = id
    BY <1>3 DEF Under
  <2>2. d \in Executing' /\ calls'[d].id = id
    BY <1>1, <1>2, <2>1 DEF Executing
  <2> QED
    BY <2>2 DEF Under
<1>4. call.at # "waiting" => OthersWait
  BY <1>1 DEF OthersWait
<1>5. call.at \in {"starting", "waiting"} => \A id : id = call.id => Under(id)'
  BY <1>1, <1>2 DEF Under
<1> QED
  BY <1>3, <1>4, <1>5

(* A call of which nothing is executed, and that leaves the studies alone. *)
LEMMA CallAside ==
  ASSUME LaboratoryInv, NEW c \in Callers, c \notin Executing, NEW call, call.at # "waiting",
         calls' = [calls EXCEPT ![c] = call], UNCHANGED studies
  PROVE  Moved /\ OthersWait
<1>1. (\A id : Under(id) => Under(id)') /\ OthersWait
  BY CallMoves
<1> HIDE DEF OthersWait
<1> QED
  BY <1>1 DEF Moved

LEMMA SavesMoves == ASSUME LaboratoryInv, NEW c \in Callers, SavesNew(c) PROVE Moved /\ OthersWait
<1>1. /\ calls[c].at = "creating" /\ studies' = Append(studies, calls[c].study)
      /\ calls' = [calls EXCEPT ![c] = NoCall]
  BY DEF SavesNew
<1>2. SoundCall(calls[c], studies) /\ IsSequence(studies)
  BY DEF LaboratoryInv
<1>3. calls[c].study.status = "PENDING"
  BY <1>1, <1>2 DEF SoundCall
<1>4. /\ Len(studies) \in Nat /\ DOMAIN studies = 1 .. Len(studies)
      /\ DOMAIN studies' = 1 .. Len(studies) + 1 /\ studies'[Len(studies) + 1] = calls[c].study
      /\ \A n \in 1 .. Len(studies) : studies'[n] = studies[n]
  BY <1>1, <1>2, Appended
<1>5. c \notin Executing /\ NoCall.at # "waiting"
  BY <1>1 DEF Executing, NoCall
<1>6. (\A id : Under(id) => Under(id)') /\ OthersWait
  BY <1>1, <1>5, CallMoves
<1>7. DOMAIN studies \subseteq DOMAIN studies'
  BY <1>4
<1>8. \A id \in DOMAIN studies : studies'[id] = studies[id]
  BY <1>4
<1>9. \A id \in DOMAIN studies' \ DOMAIN studies : studies'[id].status = "PENDING"
  BY <1>3, <1>4
<1> QED
  BY <1>6, <1>7, <1>8, <1>9 DEF Moved

LEMMA RunsMoves ==
  ASSUME LaboratoryInv, NEW c \in Callers, NEW limit, Runs(c, limit) PROVE Moved /\ OthersWait
<1> DEFINE k == calls[c]
           study == [k.study EXCEPT !.status = "RUNNING"]
           call == [k EXCEPT !.at = "starting", !.study.status = "RUNNING"]
<1>1. /\ k.at = "read" /\ studies' = [studies EXCEPT ![k.id] = study]
      /\ calls' = [calls EXCEPT ![c].at = "starting", ![c].study.status = "RUNNING"]
  BY DEF Runs
<1>2. SoundCall(k, studies) /\ DOMAIN calls = Callers
  BY DEF LaboratoryInv
<1>3. SoundStudy(k.study) /\ k.id \in DOMAIN studies /\ DOMAIN k = ReadFields
  BY <1>1, <1>2 DEF SoundCall
<1>4. calls' = [calls EXCEPT ![c] = call]
  BY <1>1, <1>2
<1>5. study.status = "RUNNING" /\ call.at = "starting" /\ call.id = k.id
  BY <1>3 DEF SoundStudy, StudyFields, ReadFields
<1>6. c \notin Executing
  BY <1>1 DEF Executing
<1> HIDE DEF call, study
<1>7. (\A id : Under(id) => Under(id)') /\ OthersWait /\ \A id : id = k.id => Under(id)'
  BY <1>4, <1>5, <1>6, CallMoves
<1>8. DOMAIN studies' = DOMAIN studies
        /\ \A id \in DOMAIN studies : studies'[id] = IF id = k.id THEN study ELSE studies[id]
  BY <1>1, <1>3
<1> QED
  BY <1>5, <1>7, <1>8 DEF Moved

-----------------------------------------------------------------------------
(* A caller that waits for a session waits for one that was begun.         *)
CallsWait == \A c \in Callers : calls[c].at = "waiting" => calls[c].session \in DOMAIN sessionRuns

FiledInv == config \in Configurations /\ LaboratoryInv /\ SessionsInv /\ CallsWait

(* Steps of the laboratory's callers; of what executes studies for them;   *)
(* those of sessions; and the others.                                      *)
SessionStep ==
  \/ AutoStart \/ CallerStarts \/ Analyse
  \/ \E s \in DOMAIN sessionRuns : (sessionRuns[s].at = "replay" /\ SessionReplays(s)) \/ SessionSteps(s)
OtherStep ==
  \/ ReplayLoops \/ RuntimeSteps \/ GatewayTakes
  \/ (\E e \in Consumers : ConsumerEnds(e))
  \/ RuntimeConnects \/ OtherRunners \/ CallerCancels \/ LiveEvent

LEMMA FlowSteps ==
  FlowNext => \/ LaboratoryCalls \/ (\E c \in Callers : StudyStarts(c)) \/ (\E c \in Callers : StudyEnds(c))
              \/ SessionStep \/ OtherStep \/ CloseStep \/ AIResearch \/ AIContext
BY Zenon DEF FlowNext, Progress, SessionStep, OtherStep

LEMMA LaboratoryStays ==
  ASSUME LaboratoryInv, UNCHANGED <<studies, byStatus, calls, activeStudies>>
  PROVE  LaboratoryInv'
BY DEF LaboratoryInv, Executing

(* Of the laboratory, the reports and the bus a step leaves alone.         *)
OthersStay == UNCHANGED <<config, laboratoryVars, reportVars, busVars, closing>>

LEMMA SessionStepKeeps == ASSUME FiledInv, SessionStep PROVE FiledInv' /\ OthersStay
<1>0. config \in Configurations /\ LaboratoryInv /\ SessionsInv /\ CallsWait
  BY DEF FiledInv
<1>1. CASE AutoStart
  <2>1. /\ OthersStay /\ Admits(SessionLimit[config]) /\ StartSession(BacktestConfig, "runner")
        /\ UNCHANGED delivered
    BY <1>1 DEF AutoStart, lifeVars, marketVars, OthersStay
  <2>2. SessionsInv' /\ DOMAIN sessionRuns' = DOMAIN sessionRuns \union {Len(sessionRuns) + 1}
    BY <1>0, <2>1, SessionsBegin DEF OthersStay
  <2> QED
    BY <1>0, <2>1, <2>2, LaboratoryStays DEF FiledInv, CallsWait, OthersStay, laboratoryVars
<1>2. CASE CallerStarts
  <2>1. /\ OthersStay /\ Admits(SessionLimit[config]) /\ StartSession(CallersRequest, "caller")
        /\ UNCHANGED delivered
    BY <1>2 DEF CallerStarts, lifeVars, marketVars, OthersStay
  <2>2. SessionsInv' /\ DOMAIN sessionRuns' = DOMAIN sessionRuns \union {Len(sessionRuns) + 1}
    BY <1>0, <2>1, SessionsBegin DEF OthersStay
  <2> QED
    BY <1>0, <2>1, <2>2, LaboratoryStays DEF FiledInv, CallsWait, OthersStay, laboratoryVars
<1>3. CASE Analyse
  <2>1. SessionsInv'
    BY <1>0, <1>3, AnalyseKeeps
  <2>2. OthersStay /\ DOMAIN sessionRuns' = DOMAIN sessionRuns
    BY <1>3 DEF Analyse, lifeVars, OthersStay, Hears
  <2> QED
    BY <1>0, <2>1, <2>2, LaboratoryStays DEF FiledInv, CallsWait, OthersStay, laboratoryVars
<1>4. ASSUME NEW s \in DOMAIN sessionRuns,
             (sessionRuns[s].at = "replay" /\ SessionReplays(s)) \/ SessionSteps(s)
      PROVE  FiledInv' /\ OthersStay
  <2>1. CASE SessionReplays(s)
    <3>1. \E all, e : BeginsReplay(s, all, e, {})
      BY <2>1 DEF SessionReplays
    <3>2. OthersStay /\ UNCHANGED delivered
      BY <2>1 DEF SessionReplays, lifeVars, OthersStay
    <3>3. SessionsInv'
      BY <1>0, <3>1, <3>2, BeginsKeeps DEF OthersStay
    <3>4. DOMAIN sessionRuns' = DOMAIN sessionRuns
      BY <3>1 DEF BeginsReplay
    <3> QED
      BY <1>0, <3>2, <3>3, <3>4, LaboratoryStays DEF FiledInv, CallsWait, OthersStay, laboratoryVars
  <2>2. CASE SessionSteps(s)
    <3>1. OthersStay /\ UNCHANGED delivered
      BY <2>2 DEF SessionSteps, lifeVars, marketVars, OthersStay
    <3>2. SessionsInv' /\ DOMAIN sessionRuns' = DOMAIN sessionRuns
      <4>1. CASE Replays(s, sessionRuns[s].ctx \in ctxDone)
        <5>1. SessionsInv'
          BY <1>0, <3>1, <4>1, ReplaysKeeps DEF OthersStay
        <5>2. DOMAIN sessionRuns' = DOMAIN sessionRuns
          BY <4>1 DEF Replays
        <5> QED
          BY <5>1, <5>2
      <4>2. CASE Files(s, delivered)
        <5>1. SessionsInv'
          BY <1>0, <3>1, <4>2, FilesKeeps DEF OthersStay
        <5>2. DOMAIN sessionRuns' = DOMAIN sessionRuns
          BY <4>2 DEF Files, Saves
        <5> QED
          BY <5>1, <5>2
      <4> QED
        BY <2>2, <4>1, <4>2 DEF SessionSteps
    <3> QED
      BY <1>0, <3>1, <3>2, LaboratoryStays DEF FiledInv, CallsWait, OthersStay, laboratoryVars
  <2> QED
    BY <1>4, <2>1, <2>2
<1> QED
  BY <1>1, <1>2, <1>3, <1>4 DEF SessionStep

LEMMA Untouched ==
  ASSUME FiledInv, UNCHANGED <<config, laboratoryVars, sessionVars, delivered, closing>> PROVE FiledInv'
<1>1. LaboratoryInv' /\ SessionsInv'
  BY LaboratoryStays, SessionsUnchanged DEF FiledInv, laboratoryVars
<1>2. CallsWait'
  BY DEF FiledInv, CallsWait, laboratoryVars, sessionVars
<1> QED
  BY <1>1, <1>2 DEF FiledInv

LEMMA OtherStepKeeps == ASSUME FiledInv, OtherStep PROVE FiledInv' /\ OthersStay
<1>1. OthersStay /\ UNCHANGED <<sessionVars, delivered>>
  <2> USE DEF lifeVars, laboratoryVars, sessionVars, replayVars, marketVars, OthersStay
  <2>1. CASE ReplayLoops \/ RuntimeSteps \/ GatewayTakes
    BY <2>1 DEF ReplayLoops, RuntimeSteps, GatewayTakes
  <2>2. CASE \E e \in Consumers : ConsumerEnds(e)
    BY <2>2 DEF ConsumerEnds
  <2>3. CASE RuntimeConnects \/ OtherRunners
    BY <2>3 DEF RuntimeConnects, OtherRunners
  <2>4. CASE CallerCancels \/ LiveEvent
    BY <2>4 DEF CallerCancels, LiveEvent
  <2> QED
    BY <2>1, <2>2, <2>3, <2>4 DEF OtherStep
<1> QED
  BY <1>1, Untouched DEF OthersStay

LEMMA CloseStepKeeps == ASSUME FiledInv, CloseStep PROVE FiledInv'
<1>1. UNCHANGED <<config, studies, byStatus, calls, activeStudies, sessionRuns>>
  BY DEF CloseStep
<1>2. SessionsInv' /\ LaboratoryInv'
  BY <1>1, CloseKeeps, LaboratoryStays DEF FiledInv
<1> QED
  BY <1>1, <1>2 DEF FiledInv, CallsWait

LEMMA CallsKeep ==
  ASSUME FiledInv, LaboratoryCalls
  PROVE  FiledInv' /\ Moved /\ UNCHANGED <<config, sessionVars, reportVars, busVars, closing>>
<1>0. LaboratoryInv /\ SessionsInv /\ CallsWait /\ config \in Configurations
  BY DEF FiledInv
<1>1. UNCHANGED <<config, sessionVars, delivered, reportVars, busVars, closing>>
  BY DEF LaboratoryCalls, marketVars
<1>2. PICK c \in Bounds[config].callers :
        \/ \E s \in DOMAIN studies, ctx \in Bounds[config].contexts : ReadsStudy(c, s, ctx)
        \/ CreateStudy(c, Bounds[config].requests) \/ CreateVersion(c)
        \/ SavesNew(c) \/ Refused(c, StudyLimit) \/ Runs(c, StudyLimit)
        \/ \E s \in DOMAIN studies : CompareStudies([strategy |-> studies[s].strategy])
  BY Zenon DEF LaboratoryCalls
<1>3. c \in Callers
  BY <1>0, <1>2, CallersKnown
<1>4. LaboratoryInv' /\ Moved /\ OthersWait
  <2>1. CASE \E s \in DOMAIN studies, ctx \in Bounds[config].contexts : ReadsStudy(c, s, ctx)
    <3>1. PICK s \in DOMAIN studies : \E ctx : ReadsStudy(c, s, ctx)
      BY <2>1
    <3>2. PICK ctx : ReadsStudy(c, s, ctx)
      BY <3>1
    <3> DEFINE call == [at |-> "read", id |-> s, study |-> studies[s], ctx |-> ctx]
    <3>3. calls[c].at = "idle" /\ calls' = [calls EXCEPT ![c] = call] /\ UNCHANGED studies /\ call.at # "waiting"
      BY <3>2 DEF ReadsStudy
    <3>4. c \notin Executing
      BY <3>3 DEF Executing
    <3> HIDE DEF call
    <3> QED
      BY <1>0, <1>3, <3>2, <3>3, <3>4, CallAside, ReadsKeeps
  <2>2. CASE CreateStudy(c, Bounds[config].requests) \/ CreateVersion(c)
    <3>1. PICK r : ChoosesVersion(c, r)
      BY <2>2 DEF CreateStudy, CreateVersion
    <3> DEFINE call == [at |-> "creating", study |-> NewStudy(r, NextVersion(r))]
    <3>2. calls[c].at = "idle" /\ calls' = [calls EXCEPT ![c] = call] /\ UNCHANGED studies /\ call.at # "waiting"
      BY <3>1 DEF ChoosesVersion
    <3>3. c \notin Executing
      BY <3>2 DEF Executing
    <3> HIDE DEF call
    <3> QED
      BY <1>0, <1>3, <3>1, <3>2, <3>3, CallAside, ChoosesKeeps
  <2>3. CASE SavesNew(c)
    BY <1>0, <1>3, <2>3, SavesKeeps, SavesMoves
  <2>4. CASE Refused(c, StudyLimit)
    <3>1. calls[c].at = "read" /\ calls' = [calls EXCEPT ![c] = NoCall] /\ UNCHANGED studies /\ NoCall.at # "waiting"
      BY <2>4 DEF Refused, NoCall
    <3>2. c \notin Executing
      BY <3>1 DEF Executing
    <3> QED
      BY <1>0, <1>3, <2>4, <3>1, <3>2, CallAside, RefusedKeeps
  <2>5. CASE Runs(c, StudyLimit)
    BY <1>0, <1>3, <2>5, RunsKeeps, RunsMoves
  <2>6. CASE \E s \in DOMAIN studies : CompareStudies([strategy |-> studies[s].strategy])
    <3>1. UNCHANGED <<studies, byStatus, calls, activeStudies>>
      BY <2>6 DEF CompareStudies
    <3>2. LaboratoryInv'
      BY <1>0, <3>1, LaboratoryStays
    <3>3. Moved /\ OthersWait
      BY <3>1 DEF Moved, OthersWait, Under, Executing
    <3> QED
      BY <3>2, <3>3
  <2> QED
    BY <1>2, <2>1, <2>2, <2>3, <2>4, <2>5, <2>6
<1>5. SessionsInv'
  BY <1>0, <1>1, SessionsUnchanged
<1>6. CallsWait'
  BY <1>0, <1>1, <1>4 DEF OthersWait, CallsWait, sessionVars
<1> QED
  BY <1>0, <1>1, <1>4, <1>5, <1>6 DEF FiledInv

LEMMA StartsKeep ==
  ASSUME FiledInv, NEW c \in Callers, StudyStarts(c)
  PROVE  FiledInv' /\ Moved /\ UNCHANGED <<config, reportVars, busVars, closing>>
<1>0. LaboratoryInv /\ SessionsInv /\ CallsWait /\ config \in Configurations
  BY DEF FiledInv
<1> DEFINE last == Len(sessionRuns) + 1
           k == calls[c]
           call == [at |-> "waiting", id |-> k.id, study |-> k.study, ctx |-> k.ctx, session |-> last]
<1>1. /\ Admits(SessionLimit[config]) /\ StartSession(RequestOf(calls[c].study), calls[c].ctx)
      /\ Started(c, last) /\ UNCHANGED <<config, delivered, reportVars, busVars, closing>>
  BY DEF StudyStarts, marketVars, lifeVars
<1>2. SessionsInv' /\ last \in Nat \ {0} /\ DOMAIN sessionRuns' = DOMAIN sessionRuns \union {last}
  BY <1>0, <1>1, SessionsBegin
<1> HIDE DEF last
<1>3. LaboratoryInv'
  BY <1>0, <1>1, <1>2, StartedKeeps
<1>4. DOMAIN calls = Callers /\ k.at = "starting" /\ calls' = [calls EXCEPT ![c] = call] /\ UNCHANGED studies
  BY <1>0, <1>1 DEF Started, LaboratoryInv
<1>5. call.at = "waiting" /\ call.id = k.id /\ call.session = last
  OBVIOUS
<1> HIDE DEF call
<1>6. \A id : Under(id) => Under(id)'
  BY <1>0, <1>4, <1>5, CallMoves
<1>7. CallsWait'
  BY <1>0, <1>2, <1>4, <1>5 DEF CallsWait
<1>8. Moved
  BY <1>4, <1>6 DEF Moved
<1> QED
  BY <1>0, <1>1, <1>2, <1>3, <1>7, <1>8 DEF FiledInv

(* A study ends as it was executed, and is reported.                       *)
LEMMA EndsKeep ==
  ASSUME FiledInv, NEW c \in Callers, StudyEnds(c)
  PROVE  /\ FiledInv' /\ Publish(StudyCompleted(c), "") /\ UNCHANGED <<config, reportVars, closing>>
         /\ calls[c].id \in DOMAIN studies /\ DOMAIN studies' = DOMAIN studies
         /\ \A id \in DOMAIN studies : id # calls[c].id => studies'[id] = studies[id]
         /\ \A id : id # calls[c].id /\ Under(id) => Under(id)'
<1>0. LaboratoryInv /\ SessionsInv /\ CallsWait /\ config \in Configurations
  BY DEF FiledInv
<1>1. Publish(StudyCompleted(c), "") /\ UNCHANGED <<config, sessionVars, delivered, reportVars, closing>>
  BY DEF StudyEnds, lifeVars, marketVars
<1>2. SoundCall(calls[c], studies)
  BY <1>0 DEF LaboratoryInv
<1>12. \E failed \in BOOLEAN : \E session, summary :
        Finishes(c, session, failed, summary) /\ c \in Executing /\ (~failed => session # 0 /\ SoundFigures(summary))
  <2>1. CASE calls[c].at = "starting" /\ Finishes(c, 0, TRUE, <<>>)
    <3>1. c \in Executing /\ TRUE \in BOOLEAN
      BY <2>1 DEF Executing
    <3> QED
      BY <2>1, <3>1, Zenon
  <2>2. CASE /\ calls[c].at = "waiting" /\ ~Open(calls[c].session)
             /\ Finishes(c, calls[c].session, sessions[calls[c].session].status = "FAILED",
                         sessions[calls[c].session].summary)
    <3> DEFINE s == calls[c].session
    <3>1. s # 0
      BY <1>2, <2>2 DEF SoundCall
    <3>2. s \in DOMAIN sessionRuns
      BY <1>0, <2>2 DEF CallsWait
    <3>3. SoundFigures(sessions[s].summary)
      BY <1>0, <2>2, <3>2 DEF SessionsInv
    <3>4. c \in Executing /\ (sessions[s].status = "FAILED") \in BOOLEAN
      BY <2>2 DEF Executing
    <3> QED
      BY <2>2, <3>1, <3>3, <3>4, Zenon
  <2> QED
    BY <2>1, <2>2 DEF StudyEnds
<1>13. PICK failed \in BOOLEAN : \E session, summary :
         Finishes(c, session, failed, summary) /\ c \in Executing /\ (~failed => session # 0 /\ SoundFigures(summary))
  BY <1>12
<1>3. PICK session, summary :
        Finishes(c, session, failed, summary) /\ c \in Executing /\ (~failed => session # 0 /\ SoundFigures(summary))
  BY <1>13
<1>4. LaboratoryInv'
  BY <1>0, <1>3, FinishesKeeps
<1>5. SessionsInv'
  BY <1>0, <1>1, SessionsUnchanged
<1>6. /\ calls' = [calls EXCEPT ![c] = NoCall]
      /\ studies' = [studies EXCEPT ![calls[c].id] = Ended(calls[c].study, session, failed, summary)]
  BY <1>3 DEF Finishes
<1>7. calls[c].id \in DOMAIN studies
  BY <1>2, <1>3 DEF SoundCall, Executing
<1>8. DOMAIN calls = Callers /\ \A d \in Callers : calls'[d] = IF d = c THEN NoCall ELSE calls[d]
  BY <1>0, <1>6 DEF LaboratoryInv
<1>9. CallsWait'
  <2>1. NoCall.at # "waiting"
    BY DEF NoCall
  <2> QED
    BY <1>0, <1>1, <1>8, <2>1 DEF CallsWait, sessionVars
<1>10. ASSUME NEW id, id # calls[c].id, Under(id) PROVE Under(id)'
  <2>1. PICK d \in Executing : calls[d].id = id
    BY <1>10 DEF Under
  <2>2. d \in Executing' /\ calls'[d].id = id
    BY <1>8, <1>10, <2>1 DEF Executing
  <2> QED
    BY <2>2 DEF Under
<1>11. DOMAIN studies' = DOMAIN studies
         /\ \A id \in DOMAIN studies : id # calls[c].id => studies'[id] = studies[id]
  BY <1>6
<1> QED
  BY <1>0, <1>1, <1>4, <1>5, <1>7, <1>9, <1>10, <1>11 DEF FiledInv

LEMMA ConsumersKeep ==
  ASSUME FiledInv, AIResearch \/ AIContext
  PROVE  FiledInv' /\ UNCHANGED <<laboratoryVars, closing, config>>
<1>1. UNCHANGED <<config, laboratoryVars, sessionVars, delivered, closing>>
  BY DEF AIResearch, AIContext, lifeVars, marketVars
<1> QED
  BY <1>1, Untouched

LEMMA FiledStep == ASSUME FiledInv, [FlowNext]_flowVars PROVE FiledInv'
<1>1. CASE UNCHANGED flowVars
  <2>1. UNCHANGED <<config, laboratoryVars, sessionVars, delivered, closing>>
    BY <1>1 DEF flowVars, marketVars, lifeVars
  <2> QED
    BY <2>1, Untouched
<1>2. CASE FlowNext
  BY <1>2, FlowSteps, CallsKeep, StartsKeep, EndsKeep, SessionStepKeeps, OtherStepKeeps, CloseStepKeeps,
     ConsumersKeep
<1> QED
  BY <1>1, <1>2

LEMMA FiledInit == FlowInit => FiledInv
<1> SUFFICES ASSUME FlowInit PROVE FiledInv
  OBVIOUS
<1>1. IsSequence(<<>>) /\ SoundDocs(<<>>)
  BY FS_EmptySet DEF IsSequence, SoundDocs
<1>2. /\ config \in Configurations /\ sessionRuns = <<>> /\ sessions = <<>> /\ activeSessions = 0
      /\ runnerClosed = FALSE /\ delivered = <<>> /\ closing = 1
  BY DEF FlowInit, SessionsInit
<1>3. /\ studies = <<>> /\ byStatus = [s \in Statuses |-> {}] /\ calls = [c \in Callers |-> NoCall]
      /\ activeStudies = 0
  BY DEF FlowInit, LaboratoryInit
<1>4. \A c \in Callers : calls[c].at = "idle"
  BY <1>3 DEF NoCall
<1>5. Executing = {} /\ OpenRuns = {} /\ Holding = {} /\ Cardinality({}) = 0
  BY <1>2, <1>4, FS_EmptySet DEF Executing, OpenRuns, Holding
<1>6. \A c \in Callers : SoundCall(calls[c], studies)
  BY <1>4 DEF SoundCall
<1>7. LaboratoryInv
  BY <1>1, <1>3, <1>5, <1>6 DEF LaboratoryInv
<1>8. SessionsInv
  <2>1. SessionLimit[config] \in Nat
    BY <1>2, SessionsAdmitted
  <2>2. closing \in 1 .. 8 /\ (runnerClosed <=> closing >= 3) /\ ~ (closing > 3)
    <3>1. closing \in 1 .. 8 /\ ~ (closing >= 3) /\ ~ (closing > 3)
      BY <1>2
    <3> QED
      BY <1>2, <3>1
  <2> QED
    BY <1>1, <1>2, <1>5, <2>1, <2>2 DEF SessionsInv
<1>9. CallsWait
  BY <1>4 DEF CallsWait
<1> QED
  BY <1>2, <1>7, <1>8, <1>9 DEF FiledInv

(* Studies are where their status says, are numbered without gaps and have *)
(* the output of their own session, whoever executes and defines them at a *)
(* time, for any callers, definitions and limits.                          *)
THEOREM StudiesFiledHolds == FlowSpec => []StudiesFiled
<1>1. FiledInv => StudiesFiled
  BY FiledThen DEF FiledInv
<1> QED
  BY <1>1, FiledInit, FiledStep, PTL DEF FlowSpec

(* Slots are held by the sessions that are not filed and never by more than*)
(* the limit, sessions replay one at a time, what is filed adds up, and a  *)
(* runner that is closed has no session of its own left: whatever the      *)
(* platform makes of the candles, and whenever the collector is asked.     *)
THEOREM SlotsHold == FlowSpec => [](Sessions /\ SummariesAddUp /\ AutoQuiet)
<1>1. FiledInv => Sessions /\ SummariesAddUp /\ AutoQuiet
  BY SessionsThen DEF FiledInv
<1> QED
  BY <1>1, FiledInit, FiledStep, PTL DEF FlowSpec
-----------------------------------------------------------------------------
(***************************************************************************)
(* What is written about a study: the verdict of a report is justified by  *)
(* the figures of the study, and the trades of a context are among its     *)
(* recommendations.                                                        *)
(***************************************************************************)
SoundMetrics(m) ==
  /\ m.generated \in Nat /\ m.closed \in Nat /\ m.closed <= m.generated
  /\ m.buy \in Nat /\ m.avoid \in Nat /\ m.confidence \in Int /\ m.return \in Int
  /\ m.winRate \in Nat /\ m.winRate <= 100
  /\ m.winning \in Nat /\ m.losing \in Nat /\ m.winning + m.losing <= m.generated
  /\ m.walkforward \in Nat /\ m.montecarlo \in Nat

LEMMA MetricsSound == ASSUME NEW study, SoundStudy(study) PROVE SoundMetrics(AggregateMetrics(study))
<1> DEFINE output == study.output
           m == AggregateMetrics(study)
<1>1. SoundOutput(output)
  BY DEF SoundStudy
<1>2. \A f \in DOMAIN NoMetrics : m[f] = IF f \in DOMAIN output THEN output[f]
                                         ELSE IF f \in DOMAIN output.counts THEN output.counts[f] ELSE 0
  BY DEF AggregateMetrics
<1>3. DOMAIN NoMetrics = {"sessionCount", "generated", "closed", "buy", "watch", "avoid", "confidence", "highest",
                          "lowest", "return", "winRate", "lossRate", "winning", "losing", "optimization",
                          "walkforward", "montecarlo"}
  BY DEF NoMetrics
<1>4. DOMAIN NoDocuments = {"generated", "closed", "buy", "watch", "avoid", "confidence", "highest", "lowest",
                            "return", "winRate", "lossRate", "winning", "losing", "counts"}
  BY DEF NoDocuments
<1> HIDE DEF m, output
<1>5. m.walkforward \in Nat /\ m.montecarlo \in Nat
  <2>1. DOMAIN NoOutput = {"sessionCount", "counts"}
    BY DEF NoOutput
  <2>2. "walkforward" \notin DOMAIN output /\ "montecarlo" \notin DOMAIN output /\ Counts(output.counts)
    BY <1>1, <1>4, <2>1 DEF SoundOutput
  <2> QED
    BY <1>2, <1>3, <2>2 DEF Counts
<1>6. CASE DOMAIN output = DOMAIN NoDocuments \union {"sessionCount"} /\ Figures(output)
  <2>1. /\ m.generated = output.generated /\ m.closed = output.closed /\ m.buy = output.buy
        /\ m.avoid = output.avoid /\ m.confidence = output.confidence /\ m.return = output.return
        /\ m.winRate = output.winRate /\ m.winning = output.winning /\ m.losing = output.losing
    BY <1>2, <1>3, <1>4, <1>6
  <2>2. output.winRate \in Nat /\ output.winRate <= 100
    BY <1>6, ScaleIsPercent DEF Figures
  <2>3. SoundMetrics(m)
    BY <1>5, <1>6, <2>1, <2>2 DEF SoundMetrics, Figures
  <2> QED
    BY <2>3 DEF m
<1>7. CASE output = NoOutput
  <2>1. DOMAIN output = {"sessionCount", "counts"} /\ DOMAIN output.counts = {}
    BY <1>7 DEF NoOutput
  <2>2. \A f \in DOMAIN NoMetrics \ {"sessionCount"} : m[f] = 0
    BY <1>2, <1>3, <2>1
  <2>3. /\ m.generated = 0 /\ m.closed = 0 /\ m.buy = 0 /\ m.avoid = 0 /\ m.confidence = 0 /\ m.return = 0
        /\ m.winRate = 0 /\ m.winning = 0 /\ m.losing = 0
    BY <1>3, <2>2
  <2>4. SoundMetrics(m)
    BY <1>5, <2>3 DEF SoundMetrics
  <2> QED
    BY <2>4 DEF m
<1> QED
  BY <1>1, <1>6, <1>7 DEF SoundOutput

(* A few names are no more than they are.                                  *)
LEMMA FewNames ==
  /\ \A T : T \subseteq {"winRate", "return", "confidence", "avoided"} => Cardinality(T) <= 4
  /\ Cardinality({"walkforward", "montecarlo", "avoided"}) = 3
  /\ IsFiniteSet({"winRate", "return", "confidence", "walkforward", "montecarlo", "avoided"})
<1> DEFINE One == {"winRate"}
           Two == {"winRate", "return"}
           Three == {"winRate", "return", "confidence"}
           Four == {"winRate", "return", "confidence", "avoided"}
<1>1. IsFiniteSet(One) /\ Cardinality(One) = 1
  BY FS_Singleton
<1>2. IsFiniteSet(Two) /\ Cardinality(Two) = 2
  <2>1. Two = One \union {"return"} /\ "return" \notin One
    OBVIOUS
  <2> HIDE DEF One, Two
  <2> QED
    BY <1>1, <2>1, FS_AddElement
<1>3. IsFiniteSet(Three) /\ Cardinality(Three) = 3
  <2>1. Three = Two \union {"confidence"} /\ "confidence" \notin Two
    OBVIOUS
  <2> HIDE DEF Two, Three
  <2> QED
    BY <1>2, <2>1, FS_AddElement
<1>4. IsFiniteSet(Four) /\ Cardinality(Four) = 4
  <2>1. Four = Three \union {"avoided"} /\ "avoided" \notin Three
    OBVIOUS
  <2> HIDE DEF Three, Four
  <2> QED
    BY <1>3, <2>1, FS_AddElement
<1>5. \A T : T \subseteq Four => Cardinality(T) <= 4
  <2> HIDE DEF Four
  <2> QED
    BY <1>4, FS_Subset
<1> DEFINE A == {"walkforward"}
           B == {"walkforward", "montecarlo"}
           C == {"walkforward", "montecarlo", "avoided"}
<1>6. IsFiniteSet(A) /\ Cardinality(A) = 1
  BY FS_Singleton
<1>7. IsFiniteSet(B) /\ Cardinality(B) = 2
  <2>1. B = A \union {"montecarlo"} /\ "montecarlo" \notin A
    OBVIOUS
  <2> HIDE DEF A, B
  <2> QED
    BY <1>6, <2>1, FS_AddElement
<1>8. Cardinality(C) = 3
  <2>1. C = B \union {"avoided"} /\ "avoided" \notin B
    OBVIOUS
  <2> HIDE DEF B, C
  <2> QED
    BY <1>7, <2>1, FS_AddElement
<1> DEFINE All == {"winRate", "return", "confidence", "walkforward", "montecarlo", "avoided"}
<1>9. IsFiniteSet(All)
  <2>1. All = Four \union B
    OBVIOUS
  <2> HIDE DEF All, Four, B
  <2> QED
    BY <1>4, <1>7, <2>1, FS_Union
<1> QED
  BY <1>5, <1>8, <1>9

Justified(report) ==
  LET r == report.sections IN
    /\ report.of.status = "FAILED" => r.verdict = "FAIL"
    /\ r.verdict = "PASS" => r.strengths \intersect {"walkforward", "montecarlo"} # {}
    /\ r.verdict = "FAIL" => r.weaknesses # {}
    /\ r.strengths \intersect r.weaknesses = {}

LEMMA ReportJustified ==
  ASSUME NEW id, NEW study, SoundStudy(study) PROVE Justified(BuildReport(id, study))
<1> DEFINE m == AggregateMetrics(study)
           strengths == BuildStrengths(m)
           weaknesses == BuildWeaknesses(study, m)
           verdict == OverallVerdict(study, m)
           passed == Holds([winRate |-> m.winRate >= 50, return |-> m.return > 0,
                            confidence |-> m.confidence >= 50, walkforward |-> m.walkforward > 0,
                            montecarlo |-> m.montecarlo > 0, avoided |-> m.avoid <= m.buy])
           n == Points(m)
<1>1. SoundMetrics(m)
  BY MetricsSound
<1>2. LET r == BuildReport(id, study)
      IN /\ r.of = study /\ r.sections.strengths = strengths /\ r.sections.weaknesses = weaknesses
         /\ r.sections.verdict = verdict
  BY DEF BuildReport, Analyze
<1>3. /\ passed \subseteq {"winRate", "return", "confidence", "walkforward", "montecarlo", "avoided"}
      /\ "walkforward" \in passed <=> m.walkforward > 0
      /\ "montecarlo" \in passed <=> m.montecarlo > 0
      /\ "avoided" \in passed <=> m.avoid <= m.buy
  BY DEF Holds
<1>4. /\ "walkforward" \in strengths <=> m.walkforward > 0
      /\ "montecarlo" \in strengths <=> m.montecarlo > 0
      /\ strengths \subseteq {"winRate", "return", "confidence", "walkforward", "montecarlo", "optimization"}
      /\ "winRate" \in strengths => m.winRate >= 50
      /\ "return" \in strengths => m.return > 0
      /\ "confidence" \in strengths => m.confidence >= 60
  BY DEF BuildStrengths, Holds
<1>5. /\ "walkforward" \in weaknesses <=> m.walkforward = 0
      /\ "montecarlo" \in weaknesses <=> m.montecarlo = 0
      /\ "avoided" \in weaknesses <=> m.avoid > m.buy
      /\ "failed" \in weaknesses <=> study.status = "FAILED"
      /\ weaknesses \subseteq {"failed", "winRate", "return", "confidence", "avoided", "walkforward", "montecarlo"}
      /\ "winRate" \in weaknesses => m.winRate < 50
      /\ "return" \in weaknesses => m.return < 0
      /\ "confidence" \in weaknesses => m.confidence < 40
  BY DEF BuildWeaknesses, Holds
<1>6. n = Cardinality(passed)
  BY DEF Points
<1>7. IsFiniteSet(passed) /\ n \in Nat
  <2>1. IsFiniteSet({"winRate", "return", "confidence", "walkforward", "montecarlo", "avoided"})
    BY FewNames
  <2>2. IsFiniteSet(passed)
    <3> HIDE DEF passed
    <3> QED
      BY <1>3, <2>1, FS_Subset
  <2> QED
    BY <1>6, <2>2, FS_CardinalityType
<1> HIDE DEF passed, n, m
<1>8. m.walkforward \in Nat /\ m.montecarlo \in Nat /\ m.avoid \in Nat /\ m.buy \in Nat /\ m.winRate \in Nat
        /\ m.return \in Int /\ m.confidence \in Int
  BY <1>1 DEF SoundMetrics
<1>9. verdict = IF study.status = "FAILED" THEN "FAIL"
                ELSE IF n >= 5 THEN "PASS" ELSE IF n \in {3, 4} THEN "CONDITIONAL" ELSE "FAIL"
  BY <1>7 DEF OverallVerdict, n
<1> HIDE DEF strengths, weaknesses, verdict
<1>10. study.status = "FAILED" => verdict = "FAIL"
  BY <1>9
<1>11. ASSUME verdict = "PASS" PROVE strengths \intersect {"walkforward", "montecarlo"} # {}
  <2>1. n >= 5
    BY <1>9, <1>11
  <2>2. SUFFICES ASSUME "walkforward" \notin strengths, "montecarlo" \notin strengths PROVE FALSE
    OBVIOUS
  <2>3. passed \subseteq {"winRate", "return", "confidence", "avoided"}
    BY <1>3, <1>4, <2>2
  <2>4. n <= 4
    BY <1>6, <2>3, FewNames
  <2> QED
    BY <1>7, <2>1, <2>4
<1>12. ASSUME verdict = "FAIL" PROVE weaknesses # {}
  <2>1. SUFFICES ASSUME weaknesses = {} PROVE FALSE
    OBVIOUS
  <2>2. study.status # "FAILED" /\ ~ (n >= 5) /\ n \notin {3, 4}
    BY <1>5, <1>9, <1>12, <2>1
  <2>3. {"walkforward", "montecarlo", "avoided"} \subseteq passed
    BY <1>3, <1>5, <1>8, <2>1
  <2>4. 3 <= n
    BY <1>6, <1>7, <2>3, FewNames, FS_Subset
  <2> QED
    BY <1>7, <2>2, <2>4
<1>13. strengths \intersect weaknesses = {}
  BY <1>4, <1>5, <1>8
<1> QED
  BY <1>2, <1>10, <1>11, <1>12, <1>13 DEF Justified

LEMMA ContextCounted ==
  ASSUME NEW study, SoundStudy(study)
  PROVE  LET t == TradeStatistics(study) IN t.winning + t.losing <= t.total
<1> DEFINE m == AggregateMetrics(study)
           estimated == (m.closed * m.winRate) \div 100
           t == TradeStatistics(study)
<1>1. SoundMetrics(m)
  BY MetricsSound
<1> HIDE DEF m
<1>2. estimated \in Int
  <2>1. m.closed * m.winRate \in Int
    BY <1>1 DEF SoundMetrics
  <2> QED
    BY <2>1
<1>3. \/ t.total = m.generated /\ t.winning = m.winning /\ t.losing = m.losing
      \/ t.total = m.generated /\ t.winning = estimated /\ t.losing = m.closed - estimated
      \/ t.total = m.generated /\ t.winning = 0 /\ t.losing = 0
  BY DEF TradeStatistics, m
<1> HIDE DEF t, estimated
<1>4. t.winning + t.losing <= t.total
  BY <1>1, <1>2, <1>3 DEF SoundMetrics
<1> QED
  BY <1>4 DEF t
-----------------------------------------------------------------------------
(***************************************************************************)
(* The last report and the last context of a study, and what is under way  *)
(* until they are about the study as it is.                                *)
(***************************************************************************)
LEMMA LastOfIs ==
  ASSUME NEW seq, IsSequence(seq), NEW id
  PROVE  /\ LastOf(seq, id) \in 0 .. Len(seq) /\ Len(seq) \in Nat /\ DOMAIN seq = 1 .. Len(seq)
         /\ LastOf(seq, id) # 0 => LastOf(seq, id) \in DOMAIN seq /\ seq[LastOf(seq, id)].study = id
         /\ \A n \in DOMAIN seq : seq[n].study = id => n <= LastOf(seq, id)
<1> DEFINE of == {n \in DOMAIN seq : seq[n].study = id}
<1>1. Len(seq) \in Nat /\ DOMAIN seq = 1 .. Len(seq)
  BY LenProperties DEF IsSequence
<1>2. LastOf(seq, id) = IF of = {} THEN 0 ELSE Max(of)
  BY DEF LastOf
<1>3. of \subseteq 1 .. Len(seq)
  BY <1>1
<1>4. CASE of = {}
  BY <1>1, <1>2, <1>4
<1>5. CASE of # {}
  <2>1. Max(of) \in of /\ \A y \in of : y <= Max(of)
    <3> HIDE DEF of
    <3> QED
      BY <1>1, <1>3, <1>5, LastPosition
  <2> QED
    BY <1>1, <1>2, <1>3, <1>5, <2>1
<1> QED
  BY <1>4, <1>5

LEMMA LastIs ==
  ASSUME NEW seq, IsSequence(seq), NEW n \in DOMAIN seq,
         \A k \in DOMAIN seq : seq[k].study = seq[n].study => k <= n
  PROVE  LastOf(seq, seq[n].study) = n
<1> DEFINE k == LastOf(seq, seq[n].study)
<1>1. /\ k \in 0 .. Len(seq) /\ Len(seq) \in Nat /\ DOMAIN seq = 1 .. Len(seq)
      /\ k # 0 => k \in DOMAIN seq /\ seq[k].study = seq[n].study
      /\ n <= k
  BY LastOfIs
<1> HIDE DEF k
<1>2. k = n
  BY <1>1
<1> QED
  BY <1>2 DEF k

LEMMA NoneIs ==
  ASSUME NEW seq, IsSequence(seq), NEW id, \A k \in DOMAIN seq : seq[k].study # id
  PROVE  LastOf(seq, id) = 0
BY LastOfIs

LEMMA MoreKeeps ==
  ASSUME NEW seq, IsSequence(seq), NEW item, NEW who, LastOf(seq, who) # 0
  PROVE  Append(seq, item)[LastOf(seq, who)] = seq[LastOf(seq, who)]
<1>1. LastOf(seq, who) \in 1 .. Len(seq)
  <2>1. LastOf(seq, who) \in 0 .. Len(seq) /\ Len(seq) \in Nat
    BY LastOfIs, Appended
  <2> QED
    BY <2>1
<1>2. \A n \in 1 .. Len(seq) : Append(seq, item)[n] = seq[n]
  BY Appended
<1> QED
  BY <1>1, <1>2

LEMMA LastOfMore ==
  ASSUME NEW seq, IsSequence(seq), NEW item, NEW who
  PROVE  /\ LastOf(Append(seq, item), who) = IF item.study = who THEN Len(seq) + 1 ELSE LastOf(seq, who)
         /\ Append(seq, item)[Len(seq) + 1] = item
<1> DEFINE more == Append(seq, item)
           k == LastOf(seq, who)
<1>1. /\ IsSequence(more) /\ Len(seq) \in Nat /\ DOMAIN seq = 1 .. Len(seq)
      /\ DOMAIN more = 1 .. Len(seq) + 1 /\ (\A n \in 1 .. Len(seq) : more[n] = seq[n])
      /\ more[Len(seq) + 1] = item
  BY Appended
<1>2. /\ k \in 0 .. Len(seq) /\ (k # 0 => k \in DOMAIN seq /\ seq[k].study = who)
      /\ \A n \in DOMAIN seq : seq[n].study = who => n <= k
  BY LastOfIs
<1> HIDE DEF more, k
<1>3. CASE item.study = who
  <2>1. Len(seq) + 1 \in DOMAIN more /\ \A n \in DOMAIN more : n <= Len(seq) + 1
    BY <1>1
  <2>2. LastOf(more, more[Len(seq) + 1].study) = Len(seq) + 1
    BY <1>1, <2>1, LastIs
  <2> QED
    BY <1>1, <1>2, <1>3, <2>2 DEF more, k
<1>4. CASE item.study # who /\ k = 0
  <2>1. \A n \in DOMAIN more : more[n].study # who
    BY <1>1, <1>2, <1>4
  <2>2. LastOf(more, who) = 0
    BY <1>1, <2>1, NoneIs
  <2> QED
    BY <1>1, <1>4, <2>2 DEF more, k
<1>5. CASE item.study # who /\ k # 0
  <2>1. k \in DOMAIN more /\ more[k].study = who /\ \A n \in DOMAIN more : more[n].study = who => n <= k
    BY <1>1, <1>2, <1>5
  <2>2. LastOf(more, more[k].study) = k
    BY <1>1, <2>1, LastIs
  <2>3. more[k] = seq[k]
    BY <1>1, <1>2, <1>5
  <2> QED
    BY <1>1, <1>5, <2>1, <2>2, <2>3 DEF more, k
<1> QED
  BY <1>3, <1>4, <1>5

(* A queue without its first event.                                        *)
LEMMA LastOfFewer ==
  ASSUME NEW q, IsSequence(q), q # <<>>, NEW id
  PROVE  \/ LastOf(q, id) = 0 /\ LastOf(Tail(q), id) = 0
         \/ LastOf(q, id) = 1 /\ LastOf(Tail(q), id) = 0 /\ q[1] = Head(q) /\ Head(q).study = id
         \/ /\ LastOf(q, id) # 0 /\ LastOf(Tail(q), id) = LastOf(q, id) - 1 /\ LastOf(Tail(q), id) # 0
            /\ Tail(q)[LastOf(Tail(q), id)] = q[LastOf(q, id)]
<1> DEFINE t == Tail(q)
           k == LastOf(q, id)
<1>1. /\ IsSequence(t) /\ Len(q) \in Nat \ {0} /\ DOMAIN q = 1 .. Len(q) /\ DOMAIN t = 1 .. Len(q) - 1
      /\ (\A n \in 1 .. Len(q) - 1 : t[n] = q[n + 1]) /\ Head(q) = q[1]
  BY Tailed
<1>2. /\ k \in 0 .. Len(q) /\ (k # 0 => k \in DOMAIN q /\ q[k].study = id)
      /\ \A n \in DOMAIN q : q[n].study = id => n <= k
  BY LastOfIs
<1> HIDE DEF t, k
<1>3. CASE k \in {0, 1}
  <2>1. \A n \in DOMAIN t : t[n].study # id
    <3> SUFFICES ASSUME NEW n \in DOMAIN t, t[n].study = id PROVE FALSE
      OBVIOUS
    <3>1. n + 1 \in DOMAIN q /\ q[n + 1].study = id /\ n >= 1
      BY <1>1
    <3> QED
      BY <1>1, <1>2, <1>3, <3>1
  <2>2. LastOf(t, id) = 0
    BY <1>1, <2>1, NoneIs
  <2> QED
    BY <1>1, <1>2, <1>3, <2>2 DEF t, k
<1>4. CASE k \notin {0, 1}
  <2>1. k - 1 \in DOMAIN t /\ t[k - 1] = q[k] /\ k # 0 /\ k - 1 # 0
    BY <1>1, <1>2, <1>4
  <2>2. \A n \in DOMAIN t : t[n].study = t[k - 1].study => n <= k - 1
    <3> TAKE n \in DOMAIN t
    <3>1. n + 1 \in DOMAIN q /\ t[n] = q[n + 1]
      BY <1>1
    <3> QED
      BY <1>1, <1>2, <1>4, <2>1, <3>1
  <2>3. LastOf(t, t[k - 1].study) = k - 1
    BY <1>1, <2>1, <2>2, LastIs
  <2>4. t[k - 1].study = id
    BY <1>2, <1>4, <2>1
  <2> QED
    BY <2>1, <2>3, <2>4 DEF t, k
<1> QED
  BY <1>3, <1>4

(* The channels of the two engines.                                        *)
SoundChannels ==
  /\ DOMAIN inbox = Consumers
  /\ \A e \in Consumers : IsSequence(inbox[e]) /\ Len(inbox[e]) <= Buffer

LEMMA PublishedOne ==
  ASSUME SoundChannels, NEW from, from \in Consumers => inbox[from] # <<>>, NEW v, Publish(<<v>>, from)
  PROVE  /\ SoundChannels' /\ (lost => lost')
         /\ \A e \in Consumers :
              LET q == Queue(e, from)
              IN /\ IsSequence(q) /\ inbox'[e] \in {q, Append(q, v)}
                 /\ v.type \in Listening[e] /\ ~lost' => inbox'[e] = Append(q, v)
                 /\ v.type \notin Listening[e] => inbox'[e] = q
<1>1. DOMAIN inbox' = Consumers /\ (lost => lost')
  BY DEF Publish, PublishTo, SoundChannels
<1>2. ASSUME NEW e \in Consumers
      PROVE  LET q == Queue(e, from)
             IN /\ IsSequence(q) /\ inbox'[e] \in {q, Append(q, v)}
                /\ v.type \in Listening[e] /\ ~lost' => inbox'[e] = Append(q, v)
                /\ v.type \notin Listening[e] => inbox'[e] = q
                /\ IsSequence(inbox'[e]) /\ Len(inbox'[e]) <= Buffer
  <2> DEFINE q == Queue(e, from)
  <2>1. IsSequence(q) /\ Len(q) \in Nat /\ Len(q) <= Buffer
    <3>1. IsSequence(inbox[e]) /\ Len(inbox[e]) <= Buffer
      BY DEF SoundChannels
    <3>2. CASE e = from
      <4>1. q = Tail(inbox[e]) /\ inbox[e] # <<>>
        BY <3>2 DEF Queue
      <4>2. IsSequence(q) /\ Len(q) = Len(inbox[e]) - 1 /\ Len(inbox[e]) \in Nat \ {0}
        BY <3>1, <4>1, Tailed
      <4> HIDE DEF q
      <4> QED
        BY <3>1, <4>2, BufferPositive
    <3>3. CASE e # from
      BY <3>1, <3>3, Appended DEF Queue
    <3> QED
      BY <3>2, <3>3
  <2>2. /\ inbox'[e] = Offer(q, Wanted(<<v>>, Listening[e]))
        /\ lost' = (lost \/ \E f \in Consumers : Len(Queue(f, from)) + Len(Wanted(<<v>>, Listening[f])) > Buffer)
    BY DEF Publish, PublishTo, SoundChannels
  <2>3. <<v>>[1] = v /\ DOMAIN <<v>> = {1} /\ Len(<<v>>) = 1
    OBVIOUS
  <2>4. Wanted(<<v>>, Listening[e]) = IF v.type \in Listening[e] THEN <<v>> ELSE <<>>
    BY <2>3 DEF Wanted
  <2> HIDE DEF q
  <2>5. /\ Offer(q, <<>>) = q
        /\ Offer(q, <<v>>) = IF Len(q) < Buffer THEN Append(q, v) ELSE q
    BY <2>1, OfferedOne
  <2>6. IsSequence(Append(q, v)) /\ Len(Append(q, v)) = Len(q) + 1
    BY <2>1, Appended
  <2>7. CASE v.type \in Listening[e]
    <3>1. Len(q) = Buffer => lost'
      <4>1. SUFFICES ASSUME Len(q) = Buffer
                     PROVE  Len(Queue(e, from)) + Len(Wanted(<<v>>, Listening[e])) > Buffer
        BY <2>2
      <4>2. Wanted(<<v>>, Listening[e]) = <<v>> /\ Len(<<v>>) = 1
        BY <2>3, <2>4, <2>7
      <4> QED
        BY <4>1, <4>2, BufferPositive DEF q
    <3>2. inbox'[e] = IF Len(q) < Buffer THEN Append(q, v) ELSE q
      BY <2>2, <2>4, <2>5, <2>7
    <3>3. /\ IsSequence(q) /\ inbox'[e] \in {q, Append(q, v)} /\ (~lost' => inbox'[e] = Append(q, v))
          /\ IsSequence(inbox'[e]) /\ Len(inbox'[e]) <= Buffer
      BY <2>1, <2>6, <3>1, <3>2, BufferPositive
    <3> QED
      BY <2>7, <3>3 DEF q
  <2>8. CASE v.type \notin Listening[e]
    <3>1. inbox'[e] = q
      BY <2>2, <2>4, <2>5, <2>8
    <3> QED
      BY <2>1, <2>8, <3>1 DEF q
  <2> QED
    BY <2>7, <2>8
<1>3. SoundChannels'
  BY <1>1, <1>2 DEF SoundChannels
<1> QED
  BY <1>1, <1>2, <1>3

LEMMA PublishedNone ==
  ASSUME SoundChannels, NEW from \in Consumers, inbox[from] # <<>>, Publish(<<>>, from)
  PROVE  /\ SoundChannels' /\ (lost => lost')
         /\ \A e \in Consumers : IsSequence(Queue(e, from)) /\ inbox'[e] = Queue(e, from)
<1>1. DOMAIN inbox' = Consumers /\ (lost => lost')
  BY DEF Publish, PublishTo, SoundChannels
<1>2. ASSUME NEW e \in Consumers
      PROVE  /\ IsSequence(Queue(e, from)) /\ inbox'[e] = Queue(e, from)
             /\ IsSequence(inbox'[e]) /\ Len(inbox'[e]) <= Buffer
  <2> DEFINE q == Queue(e, from)
  <2>1. IsSequence(q) /\ Len(q) \in Nat /\ Len(q) <= Buffer
    <3>1. IsSequence(inbox[e]) /\ Len(inbox[e]) <= Buffer
      BY DEF SoundChannels
    <3>2. CASE e = from
      <4>1. q = Tail(inbox[e]) /\ inbox[e] # <<>>
        BY <3>2 DEF Queue
      <4>2. IsSequence(q) /\ Len(q) = Len(inbox[e]) - 1 /\ Len(inbox[e]) \in Nat \ {0}
        BY <3>1, <4>1, Tailed
      <4> HIDE DEF q
      <4> QED
        BY <3>1, <4>2, BufferPositive
    <3>3. CASE e # from
      BY <3>1, <3>3, Appended DEF Queue
    <3> QED
      BY <3>2, <3>3
  <2>2. inbox'[e] = Offer(q, Wanted(<<>>, Listening[e]))
    BY DEF Publish, PublishTo, SoundChannels
  <2>3. Wanted(<<>>, Listening[e]) = <<>>
    BY DEF Wanted
  <2> HIDE DEF q
  <2>4. Offer(q, <<>>) = q
    BY <2>1, OfferedOne
  <2>5. inbox'[e] = q
    BY <2>2, <2>3, <2>4
  <2> QED
    BY <2>1, <2>5 DEF q
<1>3. SoundChannels'
  BY <1>1, <1>2 DEF SoundChannels
<1> QED
  BY <1>1, <1>2, <1>3

(* What is written is sound, and events are about studies there are.       *)
WrittenInv ==
  /\ IsSequence(reports) /\ IsSequence(contexts) /\ SoundChannels
  /\ \A n \in DOMAIN reports : reports[n].study \in DOMAIN studies /\ Justified(reports[n])
  /\ \A n \in DOMAIN contexts : LET t == contexts[n].trades IN t.winning + t.losing <= t.total
  /\ \A e \in Consumers : \A n \in DOMAIN inbox[e] : inbox[e][n].study \in DOMAIN studies

(* A study that ended is about to be analysed, or its last report is about *)
(* it as it is; a study with a report is executed or about to be analysed  *)
(* again, or the last of its reports is about to be packed, or was with the*)
(* study as it is; and no event about the study comes after that report's. *)
Pending(id) == LastOf(inbox["airesearch"], id) # 0
Told(id) ==
  studies[id].status \in {"COMPLETED", "FAILED"} =>
    Pending(id) \/ (LastOf(reports, id) # 0 /\ reports[LastOf(reports, id)].of = studies[id])
Packing(id) ==
  LET n == LastOf(inbox["aicontext"], id) IN n # 0 /\ inbox["aicontext"][n].report = LastOf(reports, id)
Packed(id) ==
  LET n == LastOf(contexts, id)
  IN n # 0 /\ contexts[n].of = studies[id] /\ contexts[n].report = LastOf(reports, id)
PackedLast(id) ==
  /\ LastOf(reports, id) # 0 => Under(id) \/ Pending(id) \/ Packing(id) \/ Packed(id)
  /\ LastOf(inbox["aicontext"], id) # 0 => Packing(id)
ToldInv == lost \/ BusClosed \/ \A id \in DOMAIN studies : Told(id) /\ PackedLast(id)

LEMMA ReportedThen == ASSUME WrittenInv, ToldInv PROVE StudiesReported /\ TradesAreCounted
<1>1. VerdictsJustified /\ TradesAreCounted
  BY DEF WrittenInv, Justified, VerdictsJustified, TradesAreCounted
<1>2. ASSUME Quiet, NEW id \in DOMAIN studies
      PROVE  Told(id) /\ PackedLast(id) /\ ~Pending(id) /\ ~Packing(id) /\ ~Under(id)
  <2>1. Told(id) /\ PackedLast(id)
    BY <1>2 DEF ToldInv, Quiet
  <2>2. inbox["airesearch"] = <<>> /\ inbox["aicontext"] = <<>> /\ Executing = {}
    BY <1>2 DEF Quiet, Consumers
  <2>3. LastOf(<<>>, id) = 0
    <3>1. IsSequence(<<>>) /\ DOMAIN <<>> = {}
      BY DEF IsSequence
    <3> QED
      BY <3>1, NoneIs
  <2> QED
    BY <2>1, <2>2, <2>3 DEF Pending, Packing, Under
<1>3. ReportsConverge
  BY <1>2 DEF ReportsConverge, Told
<1>4. ContextsConverge
  BY <1>2 DEF ContextsConverge, PackedLast, Packed
<1> QED
  BY <1>1, <1>3, <1>4 DEF StudiesReported

LEMMA WrittenAreOf ==
  ASSUME WrittenInv, NEW id, id \notin DOMAIN studies
  PROVE  LastOf(reports, id) = 0 /\ LastOf(inbox["aicontext"], id) = 0
<1>1. "aicontext" \in Consumers
  BY DEF Consumers
<1>2. IsSequence(reports) /\ \A n \in DOMAIN reports : reports[n].study # id
  BY DEF WrittenInv
<1>3. IsSequence(inbox["aicontext"]) /\ \A n \in DOMAIN inbox["aicontext"] : inbox["aicontext"][n].study # id
  BY <1>1 DEF WrittenInv, SoundChannels
<1> QED
  BY <1>2, <1>3, NoneIs

(* Before a study ends.                                                    *)
LEMMA ToldMoved ==
  ASSUME WrittenInv, ToldInv, Moved, UNCHANGED <<reportVars, busVars, closing>>
  PROVE  WrittenInv' /\ ToldInv'
<1>1. UNCHANGED <<reports, contexts, inbox, lost>> /\ BusClosed' = BusClosed
  BY DEF reportVars, busVars, BusClosed, ClosedUpTo
<1>2. WrittenInv'
  BY <1>1 DEF WrittenInv, Moved, SoundChannels
<1>3. ASSUME ~lost, ~BusClosed, NEW id \in DOMAIN studies' PROVE Told(id)' /\ PackedLast(id)'
  <2>1. /\ Pending(id)' = Pending(id) /\ Packing(id)' = Packing(id)
        /\ LastOf(inbox["aicontext"], id)' = LastOf(inbox["aicontext"], id)
        /\ Under(id) => Under(id)'
    BY <1>1 DEF Pending, Packing, Moved, LastOf
  <2>2. CASE id \notin DOMAIN studies
    <3>1. studies'[id].status = "PENDING"
      BY <1>3, <2>2 DEF Moved
    <3>2. LastOf(reports, id) = 0 /\ LastOf(inbox["aicontext"], id) = 0
      BY <2>2, WrittenAreOf
    <3>3. LastOf(reports, id)' = LastOf(reports, id)
      BY <1>1 DEF LastOf
    <3> QED
      BY <2>1, <3>1, <3>2, <3>3 DEF Told, PackedLast
  <2>3. CASE id \in DOMAIN studies /\ studies'[id] = studies[id]
    <3>1. Told(id) /\ PackedLast(id)
      BY <1>3, <2>3 DEF ToldInv
    <3>2. Packed(id) => Packed(id)'
      BY <1>1, <2>3 DEF Packed, LastOf
    <3>3. LastOf(reports, id)' = LastOf(reports, id)
      BY <1>1 DEF LastOf
    <3> QED
      BY <1>1, <2>1, <2>3, <3>1, <3>2, <3>3 DEF Told, PackedLast
  <2>4. CASE id \in DOMAIN studies /\ studies'[id].status = "RUNNING" /\ Under(id)'
    <3>1. PackedLast(id)
      BY <1>3, <2>4 DEF ToldInv
    <3> QED
      BY <2>1, <2>4, <3>1 DEF Told, PackedLast
  <2> QED
    BY <1>3, <2>2, <2>3, <2>4 DEF Moved
<1> QED
  BY <1>1, <1>2, <1>3 DEF ToldInv

LEMMA ToldUntouched ==
  ASSUME WrittenInv, ToldInv, UNCHANGED <<studies, calls, reportVars, busVars>>, BusClosed => BusClosed'
  PROVE  WrittenInv' /\ ToldInv'
<1>1. UNCHANGED <<studies, calls, reports, contexts, inbox, lost>>
  BY DEF reportVars, busVars
<1>2. WrittenInv'
  BY <1>1 DEF WrittenInv, SoundChannels
<1>3. \A id \in DOMAIN studies : Told(id)' = Told(id) /\ PackedLast(id)' = PackedLast(id)
  BY <1>1 DEF Told, PackedLast, Pending, Packing, Packed, Under, Executing, LastOf
<1> QED
  BY <1>1, <1>2, <1>3 DEF ToldInv

(* A study ends, and that is published.                                    *)
LEMMA ToldEnds ==
  ASSUME FiledInv, WrittenInv, ToldInv, NEW c \in Callers, StudyEnds(c)
  PROVE  WrittenInv' /\ ToldInv'
<1> DEFINE v == [type |-> "study.completed", study |-> calls[c].id]
<1>1. /\ Publish(<<v>>, "") /\ UNCHANGED <<reports, contexts, closing>> /\ v.study \in DOMAIN studies
      /\ v.type = "study.completed" /\ v.study = calls[c].id
      /\ DOMAIN studies' = DOMAIN studies
      /\ \A id \in DOMAIN studies : id # v.study => studies'[id] = studies[id]
      /\ \A id : id # v.study /\ Under(id) => Under(id)'
  BY EndsKeep DEF StudyCompleted, reportVars
<1>2. "" \notin Consumers /\ "airesearch" \in Consumers /\ "aicontext" \in Consumers
  BY Zenon DEF Consumers
<1>3. SoundChannels /\ \A e \in Consumers : Queue(e, "") = inbox[e]
  BY <1>2 DEF WrittenInv, Queue
<1> HIDE DEF v
<1>4. /\ SoundChannels' /\ (lost => lost')
      /\ \A e \in Consumers :
           /\ IsSequence(inbox[e]) /\ inbox'[e] \in {inbox[e], Append(inbox[e], v)}
           /\ v.type \in Listening[e] /\ ~lost' => inbox'[e] = Append(inbox[e], v)
           /\ v.type \notin Listening[e] => inbox'[e] = inbox[e]
  <2> DEFINE from == ""
  <2>1. /\ Publish(<<v>>, from) /\ SoundChannels /\ (from \in Consumers => inbox[from] # <<>>)
        /\ \A e \in Consumers : Queue(e, from) = inbox[e]
    BY <1>1, <1>2, <1>3, Zenon
  <2> HIDE DEF from
  <2> QED
    BY <2>1, PublishedOne
<1>5. WrittenInv'
  <2>1. ASSUME NEW e \in Consumers, NEW n \in DOMAIN inbox'[e] PROVE inbox'[e][n].study \in DOMAIN studies'
    <3>1. \A k \in DOMAIN inbox[e] : inbox[e][k].study \in DOMAIN studies
      BY DEF WrittenInv
    <3>2. CASE inbox'[e] = inbox[e]
      BY <1>1, <2>1, <3>1, <3>2
    <3>3. CASE inbox'[e] = Append(inbox[e], v)
      <4>1. /\ DOMAIN inbox'[e] = 1 .. Len(inbox[e]) + 1 /\ inbox'[e][Len(inbox[e]) + 1] = v
            /\ DOMAIN inbox[e] = 1 .. Len(inbox[e]) /\ Len(inbox[e]) \in Nat
            /\ \A k \in 1 .. Len(inbox[e]) : inbox'[e][k] = inbox[e][k]
        BY <1>4, <3>3, Appended
      <4>2. CASE n = Len(inbox[e]) + 1
        BY <1>1, <4>1, <4>2
      <4>3. CASE n \in 1 .. Len(inbox[e])
        <5>1. inbox'[e][n] = inbox[e][n] /\ n \in DOMAIN inbox[e]
          BY <4>1, <4>3
        <5> QED
          BY <1>1, <3>1, <5>1
      <4> QED
        BY <2>1, <4>1, <4>2, <4>3
    <3> QED
      BY <1>4, <3>2, <3>3
  <2> QED
    BY <1>1, <1>4, <2>1 DEF WrittenInv
<1>6. ASSUME ~lost', ~BusClosed', NEW id \in DOMAIN studies' PROVE Told(id)' /\ PackedLast(id)'
  <2>1. ~lost /\ ~BusClosed /\ id \in DOMAIN studies
    BY <1>1, <1>4, <1>6 DEF BusClosed, ClosedUpTo
  <2>2. inbox'["airesearch"] = Append(inbox["airesearch"], v) /\ inbox'["aicontext"] = inbox["aicontext"]
    <3>1. v.type \in Listening["airesearch"] /\ v.type \notin Listening["aicontext"]
      BY <1>1, <1>2, <2>1 DEF Listening
    <3> QED
      BY <1>2, <1>4, <1>6, <3>1
  <2>3. LastOf(inbox["airesearch"], id)' = IF v.study = id THEN Len(inbox["airesearch"]) + 1
                                            ELSE LastOf(inbox["airesearch"], id)
    <3>1. IsSequence(inbox["airesearch"])
      BY <1>2, <1>4
    <3>2. LastOf(inbox["airesearch"], id)' = LastOf(inbox'["airesearch"], id)
      BY DEF LastOf
    <3> QED
      BY <2>2, <3>1, <3>2, LastOfMore
  <2>6. LastOf(inbox["aicontext"], id)' = LastOf(inbox["aicontext"], id) /\ Packing(id)' = Packing(id)
          /\ PackedLast(id)
    BY <1>1, <2>1, <2>2 DEF LastOf, Packing, ToldInv
  <2>4. CASE v.study = id
    <3>1. Pending(id)'
      <4>1. Len(inbox["airesearch"]) \in Nat
        BY <1>2, <1>4, Appended
      <4> QED
        BY <2>3, <2>4, <4>1 DEF Pending
    <3> QED
      BY <2>6, <3>1 DEF Told, PackedLast
  <2>5. CASE v.study # id
    <3>1. Told(id) /\ PackedLast(id)
      BY <2>1 DEF ToldInv
    <3>2. Pending(id)' = Pending(id) /\ studies'[id] = studies[id] /\ (Under(id) => Under(id)')
      BY <1>1, <2>1, <2>3, <2>5 DEF Pending
    <3>3. /\ LastOf(reports, id)' = LastOf(reports, id) /\ LastOf(contexts, id)' = LastOf(contexts, id)
      BY <1>1 DEF LastOf
    <3>4. Packed(id)' = Packed(id)
      BY <1>1, <3>2, <3>3 DEF Packed
    <3> QED
      BY <1>1, <2>6, <3>1, <3>2, <3>3, <3>4 DEF Told, PackedLast
  <2> QED
    BY <2>4, <2>5
<1> QED
  BY <1>1, <1>5, <1>6 DEF ToldInv

(* The AI research engine analyses the study as it is, and publishes.      *)
LEMMA ToldAnalysed ==
  ASSUME FiledInv, WrittenInv, ToldInv, AIResearch PROVE WrittenInv' /\ ToldInv'
<1> DEFINE q == inbox["airesearch"]
           id == Head(q).study
           report == BuildReport(id, studies[id])
           v == [type |-> "study.ai.completed", study |-> id, report |-> Len(reports) + 1]
           last == Len(reports) + 1
<1>0. "airesearch" \in Consumers /\ "aicontext" \in Consumers
  BY DEF Consumers
<1>1. /\ q # <<>> /\ HandleStudy(id, studies[id], AreClosed("airesearch"))
      /\ Publish(IF reports' = reports THEN <<>> ELSE StudyAICompleted(id), "airesearch")
      /\ UNCHANGED <<studies, calls, contexts, closing>>
  BY DEF AIResearch, Waiting, Next1, laboratoryVars, lifeVars
<1>2. SoundChannels /\ IsSequence(q) /\ IsSequence(inbox["aicontext"]) /\ IsSequence(reports)
  BY <1>0 DEF WrittenInv, SoundChannels
<1>3. /\ IsSequence(Tail(q)) /\ DOMAIN q = 1 .. Len(q) /\ DOMAIN Tail(q) = 1 .. Len(q) - 1
      /\ Len(q) \in Nat \ {0} /\ Head(q) = q[1] /\ \A n \in 1 .. Len(q) - 1 : Tail(q)[n] = q[n + 1]
  BY <1>1, <1>2, Tailed
<1>4. id \in DOMAIN studies /\ \A n \in DOMAIN Tail(q) : Tail(q)[n].study \in DOMAIN studies
  <2>1. \A n \in DOMAIN q : q[n].study \in DOMAIN studies
    BY <1>0 DEF WrittenInv
  <2>2. 1 \in DOMAIN q
    BY <1>3
  <2>3. \A n \in DOMAIN Tail(q) : n + 1 \in DOMAIN q
    BY <1>3
  <2> QED
    BY <1>3, <2>1, <2>2, <2>3
<1>5. /\ Queue("airesearch", "airesearch") = Tail(q) /\ Queue("aicontext", "airesearch") = inbox["aicontext"]
  BY DEF Queue
<1>6. /\ Len(reports) \in Nat /\ DOMAIN reports = 1 .. Len(reports)
      /\ IsSequence(Append(reports, report)) /\ DOMAIN Append(reports, report) = 1 .. last
      /\ Append(reports, report)[last] = report
      /\ \A n \in 1 .. Len(reports) : Append(reports, report)[n] = reports[n]
      /\ Len(Append(reports, report)) = last
  BY <1>2, Appended
<1>7. CASE AreClosed("airesearch")
  <2>1. reports' = reports /\ Publish(<<>>, "airesearch")
    BY <1>1, <1>7 DEF HandleStudy
  <2>2. SoundChannels' /\ inbox'["airesearch"] = Tail(q) /\ inbox'["aicontext"] = inbox["aicontext"]
    BY <1>0, <1>1, <1>2, <1>5, <2>1, PublishedNone
  <2>3. ASSUME NEW e \in Consumers, NEW n \in DOMAIN inbox'[e] PROVE inbox'[e][n].study \in DOMAIN studies'
    <3>1. CASE e = "airesearch"
      BY <1>1, <1>4, <2>2, <2>3, <3>1
    <3>2. CASE e = "aicontext"
      BY <1>1, <2>2, <2>3, <3>2 DEF WrittenInv
    <3> QED
      BY <3>1, <3>2 DEF Consumers
  <2>4. WrittenInv'
    BY <1>1, <2>1, <2>2, <2>3 DEF WrittenInv
  <2>5. BusClosed'
    <3>1. closing >= 5 /\ closing \in 1 .. 8
      BY <1>7, StagesAre DEF AreClosed, ClosedUpTo, FiledInv, SessionsInv
    <3> QED
      BY <1>1, <3>1, StagesAre DEF BusClosed, ClosedUpTo
  <2> QED
    BY <2>4, <2>5 DEF ToldInv
<1>8. CASE ~AreClosed("airesearch")
  <2>1. reports' = Append(reports, report)
    BY <1>1, <1>8 DEF HandleStudy
  <2>2. reports' # reports
    <3>1. Len(reports') = Len(reports) + 1
      BY <1>6, <2>1
    <3> QED
      BY <1>6, <3>1
  <2>3. Publish(<<v>>, "airesearch")
    BY <1>1, <2>2 DEF StudyAICompleted
  <2>4. v.type = "study.ai.completed" /\ v.study = id /\ v.report = last /\ report.study = id
          /\ report.of = studies[id]
    BY DEF BuildReport
  <2>5. Justified(report)
    BY <1>4, ReportJustified DEF FiledInv, LaboratoryInv
  <2> HIDE DEF v, report
  <2>6. /\ SoundChannels' /\ (lost => lost')
        /\ inbox'["airesearch"] \in {Tail(q), Append(Tail(q), v)}
        /\ v.type \notin Listening["airesearch"] => inbox'["airesearch"] = Tail(q)
        /\ inbox'["aicontext"] \in {inbox["aicontext"], Append(inbox["aicontext"], v)}
        /\ v.type \in Listening["aicontext"] /\ ~lost' => inbox'["aicontext"] = Append(inbox["aicontext"], v)
    <3>1. "airesearch" \in Consumers => inbox["airesearch"] # <<>>
      BY <1>1
    <3> HIDE DEF q
    <3> QED
      BY <1>0, <1>2, <1>5, <2>3, <3>1, PublishedOne
  <2>7. inbox'["airesearch"] = Tail(q)
    BY <1>0, <2>4, <2>6 DEF Listening
  <2>8. ASSUME NEW e \in Consumers, NEW n \in DOMAIN inbox'[e] PROVE inbox'[e][n].study \in DOMAIN studies'
    <3>1. CASE e = "airesearch"
      BY <1>1, <1>4, <2>7, <2>8, <3>1
    <3>2. CASE e = "aicontext"
      <4>1. \A k \in DOMAIN inbox[e] : inbox[e][k].study \in DOMAIN studies
        BY DEF WrittenInv
      <4>2. CASE inbox'[e] = inbox[e]
        BY <1>1, <2>8, <4>1, <4>2
      <4>3. CASE inbox'[e] = Append(inbox[e], v)
        <5>1. /\ DOMAIN inbox'[e] = 1 .. Len(inbox[e]) + 1 /\ inbox'[e][Len(inbox[e]) + 1] = v
              /\ DOMAIN inbox[e] = 1 .. Len(inbox[e]) /\ Len(inbox[e]) \in Nat
              /\ \A k \in 1 .. Len(inbox[e]) : inbox'[e][k] = inbox[e][k]
          BY <1>2, <3>2, <4>3, Appended
        <5> HIDE DEF id
        <5> QED
          BY <1>1, <1>4, <2>4, <2>8, <4>1, <5>1
      <4> QED
        BY <2>6, <3>2, <4>2, <4>3
    <3> QED
      BY <3>1, <3>2 DEF Consumers
  <2>9. WrittenInv'
    <3>1. ASSUME NEW n \in DOMAIN reports'
          PROVE  reports'[n].study \in DOMAIN studies' /\ Justified(reports'[n])
      <4>1. reports'[last] = report /\ (n = last \/ n \in 1 .. Len(reports))
        BY <1>6, <2>1, <3>1
      <4>2. CASE n = last
        BY <1>1, <1>4, <2>4, <2>5, <4>1, <4>2
      <4>3. CASE n \in 1 .. Len(reports)
        <5>1. reports'[n] = reports[n] /\ n \in DOMAIN reports
          BY <1>6, <2>1, <4>3
        <5> QED
          BY <1>1, <5>1 DEF WrittenInv
      <4> QED
        BY <4>1, <4>2, <4>3
    <3>2. \A n \in DOMAIN reports' : Justified(reports[n])' = Justified(reports'[n])
      BY DEF Justified
    <3> QED
      BY <1>1, <1>6, <2>1, <2>6, <2>8, <3>1, <3>2 DEF WrittenInv
  <2>10. ASSUME ~lost', ~BusClosed', NEW i \in DOMAIN studies' PROVE Told(i)' /\ PackedLast(i)'
    <3>1. ~lost /\ ~BusClosed /\ i \in DOMAIN studies
      BY <1>1, <2>6, <2>10 DEF BusClosed, ClosedUpTo
    <3>2. inbox'["aicontext"] = Append(inbox["aicontext"], v)
      BY <1>0, <2>4, <2>6, <2>10, <3>1 DEF Listening
    <3> DEFINE box == inbox["aicontext"]
    <3>3. /\ LastOf(reports, i)' = (IF id = i THEN last ELSE LastOf(reports, i))
          /\ LastOf(reports, i) # 0 => reports'[LastOf(reports, i)] = reports[LastOf(reports, i)]
      <4>1. LastOf(reports, i)' = LastOf(reports', i)
        BY DEF LastOf
      <4>2. LastOf(Append(reports, report), i) = IF report.study = i THEN Len(reports) + 1 ELSE LastOf(reports, i)
        BY <1>2, LastOfMore
      <4>3. LastOf(reports, i) # 0 => Append(reports, report)[LastOf(reports, i)] = reports[LastOf(reports, i)]
        BY <1>2, MoreKeeps
      <4> QED
        BY <2>1, <2>4, <4>1, <4>2, <4>3
    <3>4. /\ LastOf(inbox["aicontext"], i)' = (IF id = i THEN Len(box) + 1 ELSE LastOf(box, i))
          /\ inbox'["aicontext"][Len(box) + 1] = v
          /\ LastOf(box, i) # 0 => inbox'["aicontext"][LastOf(box, i)] = box[LastOf(box, i)]
      <4>1. LastOf(inbox["aicontext"], i)' = LastOf(inbox'["aicontext"], i)
        BY DEF LastOf
      <4> HIDE DEF box
      <4>2. /\ LastOf(Append(box, v), i) = IF v.study = i THEN Len(box) + 1 ELSE LastOf(box, i)
            /\ Append(box, v)[Len(box) + 1] = v
            /\ LastOf(box, i) # 0 => Append(box, v)[LastOf(box, i)] = box[LastOf(box, i)]
        <5>1. IsSequence(box)
          BY <1>2 DEF box
        <5>2. LastOf(Append(box, v), i) = IF v.study = i THEN Len(box) + 1 ELSE LastOf(box, i)
          BY <5>1, LastOfMore
        <5>3. Append(box, v)[Len(box) + 1] = v
          BY <5>1, LastOfMore
        <5>4. LastOf(box, i) # 0 => Append(box, v)[LastOf(box, i)] = box[LastOf(box, i)]
          BY <5>1, MoreKeeps
        <5> QED
          BY <5>2, <5>3, <5>4
      <4>3. inbox'["aicontext"] = Append(box, v)
        BY <3>2 DEF box
      <4> QED
        BY <2>4, <4>1, <4>2, <4>3
    <3>5. LastOf(inbox["airesearch"], i)' = LastOf(Tail(q), i)
      BY <2>7 DEF LastOf
    <3>6. CASE id = i
      <4>1. LastOf(reports, i)' = last /\ last # 0 /\ Len(box) + 1 # 0
        BY <1>2, <1>6, <3>3, <3>6, LenProperties DEF IsSequence
      <4>2. reports'[last].of = studies'[i]
        BY <1>1, <1>6, <2>1, <2>4, <3>6
      <4>3. Told(i)'
        BY <4>1, <4>2 DEF Told
      <4>4. Packing(i)'
        BY <2>4, <3>4, <3>6, <4>1 DEF Packing
      <4> QED
        BY <4>3, <4>4 DEF PackedLast
    <3>7. CASE id # i
      <4>1. Told(i) /\ PackedLast(i)
        BY <3>1 DEF ToldInv
      <4>2. Pending(i) => Pending(i)'
        <5>1. LastOf(q, i) # 0 => LastOf(Tail(q), i) # 0
          BY <1>1, <1>2, <3>7, LastOfFewer
        <5> QED
          BY <3>5, <5>1 DEF Pending
      <4>3. LastOf(reports, i)' = LastOf(reports, i)
        BY <3>3, <3>7
      <4>4. Packing(i) => Packing(i)'
        BY <3>4, <3>7, <4>3 DEF Packing
      <4>5. Packed(i) => Packed(i)'
        <5>1. LastOf(contexts, i)' = LastOf(contexts, i)
          BY <1>1 DEF LastOf
        <5> QED
          BY <1>1, <4>3, <5>1 DEF Packed
      <4>6. Under(i) => Under(i)'
        BY <1>1 DEF Under, Executing
      <4>7. Told(i)'
        BY <1>1, <3>3, <4>1, <4>2, <4>3 DEF Told
      <4>8. LastOf(inbox["aicontext"], i)' = LastOf(inbox["aicontext"], i)
        BY <3>4, <3>7
      <4> QED
        BY <4>1, <4>2, <4>3, <4>4, <4>5, <4>6, <4>7, <4>8 DEF PackedLast
    <3> QED
      BY <3>6, <3>7
  <2> QED
    BY <1>1, <2>9, <2>10 DEF ToldInv
<1> QED
  BY <1>7, <1>8

(* The AI context engine packs the study as it is, with the report that is *)
(* named.                                                                  *)
LEMMA ToldPacked ==
  ASSUME FiledInv, WrittenInv, ToldInv, AIContext PROVE WrittenInv' /\ ToldInv'
<1> DEFINE q == inbox["aicontext"]
           e == Head(q)
           study == studies[e.study]
           context == BuildContext(e.study, study, reports[e.report], e.report)
<1>0. "airesearch" \in Consumers /\ "aicontext" \in Consumers
  BY DEF Consumers
<1>1. /\ q # <<>> /\ HandleReport(e, study, AreClosed("aicontext")) /\ Publish(<<>>, "aicontext")
      /\ UNCHANGED <<studies, calls, reports, closing>>
  BY DEF AIContext, Waiting, Next1, laboratoryVars, lifeVars
<1>2. SoundChannels /\ IsSequence(q) /\ IsSequence(contexts)
  BY <1>0 DEF WrittenInv, SoundChannels
<1>3. /\ IsSequence(Tail(q)) /\ DOMAIN q = 1 .. Len(q) /\ DOMAIN Tail(q) = 1 .. Len(q) - 1
      /\ Len(q) \in Nat \ {0} /\ Head(q) = q[1] /\ \A n \in 1 .. Len(q) - 1 : Tail(q)[n] = q[n + 1]
  BY <1>1, <1>2, Tailed
<1>4. e.study \in DOMAIN studies /\ \A n \in DOMAIN Tail(q) : Tail(q)[n].study \in DOMAIN studies
  <2>1. \A n \in DOMAIN q : q[n].study \in DOMAIN studies
    BY <1>0 DEF WrittenInv
  <2>2. 1 \in DOMAIN q
    BY <1>3
  <2>3. \A n \in DOMAIN Tail(q) : n + 1 \in DOMAIN q
    BY <1>3
  <2> QED
    BY <1>3, <2>1, <2>2, <2>3
<1>5. /\ SoundChannels' /\ (lost => lost') /\ inbox'["aicontext"] = Tail(q)
      /\ inbox'["airesearch"] = inbox["airesearch"]
  <2>1. Queue("aicontext", "aicontext") = Tail(q) /\ Queue("airesearch", "aicontext") = inbox["airesearch"]
    BY DEF Queue
  <2> QED
    BY <1>0, <1>1, <1>2, <2>1, PublishedNone
<1>6. ASSUME NEW c \in Consumers, NEW n \in DOMAIN inbox'[c] PROVE inbox'[c][n].study \in DOMAIN studies'
  <2>1. CASE c = "aicontext"
    BY <1>1, <1>4, <1>5, <1>6, <2>1
  <2>2. CASE c = "airesearch"
    BY <1>1, <1>5, <1>6, <2>2 DEF WrittenInv
  <2> QED
    BY <2>1, <2>2 DEF Consumers
<1>7. CASE AreClosed("aicontext")
  <2>1. contexts' = contexts
    BY <1>1, <1>7 DEF HandleReport
  <2>2. WrittenInv'
    BY <1>1, <1>5, <1>6, <2>1 DEF WrittenInv
  <2>3. BusClosed'
    <3>1. closing >= 4 /\ closing \in 1 .. 8
      BY <1>7, StagesAre DEF AreClosed, ClosedUpTo, FiledInv, SessionsInv
    <3> QED
      BY <1>1, <3>1, StagesAre DEF BusClosed, ClosedUpTo
  <2> QED
    BY <2>2, <2>3 DEF ToldInv
<1>8. CASE ~AreClosed("aicontext")
  <2>1. contexts' = Append(contexts, context)
    BY <1>1, <1>8 DEF HandleReport
  <2>2. context.study = e.study /\ context.of = study /\ context.report = e.report
          /\ context.trades = TradeStatistics(study)
    BY DEF BuildContext
  <2>3. LET t == context.trades IN t.winning + t.losing <= t.total
    BY <1>4, <2>2, ContextCounted DEF FiledInv, LaboratoryInv
  <2> HIDE DEF context
  <2>4. /\ IsSequence(contexts') /\ Len(contexts) \in Nat /\ DOMAIN contexts = 1 .. Len(contexts)
        /\ DOMAIN contexts' = 1 .. Len(contexts) + 1 /\ contexts'[Len(contexts) + 1] = context
        /\ \A n \in 1 .. Len(contexts) : contexts'[n] = contexts[n]
    BY <1>2, <2>1, Appended
  <2>5. WrittenInv'
    <3>1. \A n \in DOMAIN contexts' : LET t == contexts'[n].trades IN t.winning + t.losing <= t.total
      BY <2>3, <2>4 DEF WrittenInv
    <3>2. \A n \in DOMAIN reports' : reports'[n].study \in DOMAIN studies' /\ Justified(reports[n])'
      BY <1>1 DEF WrittenInv, Justified
    <3> QED
      BY <1>1, <1>5, <1>6, <2>4, <3>1, <3>2 DEF WrittenInv
  <2>6. ASSUME ~lost', ~BusClosed', NEW i \in DOMAIN studies' PROVE Told(i)' /\ PackedLast(i)'
    <3>1. ~lost /\ ~BusClosed /\ i \in DOMAIN studies
      BY <1>1, <1>5, <2>6 DEF BusClosed, ClosedUpTo
    <3>2. Told(i) /\ PackedLast(i)
      BY <3>1 DEF ToldInv
    <3>3. /\ LastOf(reports, i)' = LastOf(reports, i)
          /\ LastOf(inbox["airesearch"], i)' = LastOf(inbox["airesearch"], i)
          /\ LastOf(q, i)' = LastOf(Tail(q), i)
      BY <1>1, <1>5 DEF LastOf
    <3>4. /\ LastOf(contexts, i)' = (IF e.study = i THEN Len(contexts) + 1 ELSE LastOf(contexts, i))
          /\ LastOf(contexts, i) # 0 => contexts'[LastOf(contexts, i)] = contexts[LastOf(contexts, i)]
      <4>1. LastOf(contexts, i)' = LastOf(contexts', i)
        BY DEF LastOf
      <4>2. LastOf(Append(contexts, context), i) = IF context.study = i THEN Len(contexts) + 1 ELSE LastOf(contexts, i)
        BY <1>2, LastOfMore
      <4>3. LastOf(contexts, i) # 0 => Append(contexts, context)[LastOf(contexts, i)] = contexts[LastOf(contexts, i)]
        BY <1>2, MoreKeeps
      <4> QED
        BY <2>1, <2>2, <4>1, <4>2, <4>3
    <3>5. Pending(i)' = Pending(i) /\ (Under(i) => Under(i)')
      BY <1>1, <3>3 DEF Pending, Under, Executing
    <3>6. Told(i)'
      BY <1>1, <3>2, <3>3, <3>5 DEF Told
    <3>7. LastOf(q, i) # 0 => q[LastOf(q, i)].report = LastOf(reports, i)
      BY <3>2 DEF PackedLast, Packing
    <3>8. CASE LastOf(q, i) = 0
      <4>1. LastOf(Tail(q), i) = 0 /\ e.study # i
        <5>1. LastOf(Tail(q), i) = 0
          BY <1>1, <1>2, <3>8, LastOfFewer
        <5>2. 1 \in DOMAIN q /\ \A n \in DOMAIN q : q[n].study = i => n <= 0
          BY <1>2, <1>3, <3>8, LastOfIs
        <5> QED
          BY <1>3, <5>1, <5>2
      <4>2. Packed(i) => Packed(i)'
        BY <1>1, <3>3, <3>4, <4>1 DEF Packed
      <4>3. ~Packing(i)
        BY <3>8 DEF Packing
      <4> QED
        BY <3>2, <3>3, <3>5, <3>6, <4>1, <4>2, <4>3 DEF PackedLast
    <3>9. CASE LastOf(q, i) = 1 /\ LastOf(Tail(q), i) = 0 /\ q[1] = Head(q) /\ Head(q).study = i
      <4>1. e.study = i /\ e.report = LastOf(reports, i)
        BY <3>7, <3>9
      <4>2. LastOf(contexts, i)' = Len(contexts) + 1 /\ Len(contexts) + 1 # 0
        BY <2>4, <3>4, <4>1
      <4>3. contexts'[Len(contexts) + 1].of = studies'[i] /\ contexts'[Len(contexts) + 1].report = LastOf(reports, i)
        BY <1>1, <2>2, <2>4, <4>1
      <4>4. Packed(i)'
        BY <3>3, <4>2, <4>3 DEF Packed
      <4> QED
        BY <3>3, <3>6, <3>9, <4>4 DEF PackedLast
    <3>10. CASE LastOf(Tail(q), i) # 0 /\ LastOf(q, i) # 0 /\ Tail(q)[LastOf(Tail(q), i)] = q[LastOf(q, i)]
      <4>1. Packing(i)'
        BY <1>5, <3>3, <3>7, <3>10 DEF Packing
      <4> QED
        BY <3>6, <4>1 DEF PackedLast
    <3>11. \/ LastOf(q, i) = 0
           \/ LastOf(q, i) = 1 /\ LastOf(Tail(q), i) = 0 /\ q[1] = Head(q) /\ Head(q).study = i
           \/ LastOf(Tail(q), i) # 0 /\ LastOf(q, i) # 0 /\ Tail(q)[LastOf(Tail(q), i)] = q[LastOf(q, i)]
      <4> HIDE DEF q
      <4> QED
        BY <1>1, <1>2, LastOfFewer
    <3> QED
      BY <3>8, <3>9, <3>10, <3>11
  <2> QED
    BY <1>1, <2>5, <2>6 DEF ToldInv
<1> QED
  BY <1>7, <1>8

ReportedInv == FiledInv /\ WrittenInv /\ ToldInv

LEMMA ReportedStep == ASSUME ReportedInv, [FlowNext]_flowVars PROVE ReportedInv'
<1>0. FiledInv /\ WrittenInv /\ ToldInv
  BY DEF ReportedInv
<1>1. FiledInv'
  BY <1>0, FiledStep
<1>2. CASE LaboratoryCalls \/ \E c \in Callers : StudyStarts(c)
  <2>1. Moved /\ UNCHANGED <<reportVars, busVars, closing>>
    BY <1>0, <1>2, CallsKeep, StartsKeep
  <2> QED
    BY <1>0, <1>1, <2>1, ToldMoved DEF ReportedInv
<1>3. CASE \E c \in Callers : StudyEnds(c)
  BY <1>0, <1>1, <1>3, ToldEnds DEF ReportedInv
<1>4. CASE SessionStep \/ OtherStep
  <2>1. OthersStay
    BY <1>0, <1>4, SessionStepKeeps, OtherStepKeeps
  <2>2. UNCHANGED <<studies, calls, reportVars, busVars>> /\ (BusClosed => BusClosed')
    BY <2>1 DEF OthersStay, laboratoryVars, BusClosed, ClosedUpTo
  <2> QED
    BY <1>0, <1>1, <2>2, ToldUntouched DEF ReportedInv
<1>5. CASE CloseStep
  <2>1. UNCHANGED <<studies, calls, reportVars, busVars>> /\ closing' = closing + 1
    BY <1>5 DEF CloseStep
  <2>2. closing \in 1 .. 8
    BY <1>0 DEF FiledInv, SessionsInv
  <2>3. BusClosed => BusClosed'
    BY <2>1, <2>2, StagesAre DEF BusClosed, ClosedUpTo
  <2> QED
    BY <1>0, <1>1, <2>1, <2>3, ToldUntouched DEF ReportedInv
<1>6. CASE AIResearch
  BY <1>0, <1>1, <1>6, ToldAnalysed DEF ReportedInv
<1>7. CASE AIContext
  BY <1>0, <1>1, <1>7, ToldPacked DEF ReportedInv
<1>8. CASE UNCHANGED flowVars
  <2>1. UNCHANGED <<studies, calls, reportVars, busVars>> /\ (BusClosed => BusClosed')
    BY <1>8 DEF flowVars, laboratoryVars, lifeVars, BusClosed, ClosedUpTo
  <2> QED
    BY <1>0, <1>1, <2>1, ToldUntouched DEF ReportedInv
<1> QED
  BY <1>2, <1>3, <1>4, <1>5, <1>6, <1>7, <1>8, FlowSteps

LEMMA ReportedInit == FlowInit => ReportedInv
<1> SUFFICES ASSUME FlowInit PROVE ReportedInv
  OBVIOUS
<1>1. IsSequence(<<>>) /\ Len(<<>>) = 0 /\ DOMAIN <<>> = {}
  BY DEF IsSequence
<1>2. /\ reports = <<>> /\ contexts = <<>> /\ inbox = [e \in Consumers |-> <<>>] /\ studies = <<>>
  BY DEF FlowInit, ReportsInit, LaboratoryInit
<1>3. SoundChannels
  BY <1>1, <1>2, BufferPositive DEF SoundChannels
<1>4. WrittenInv
  BY <1>1, <1>2, <1>3 DEF WrittenInv
<1>5. ToldInv
  BY <1>1, <1>2 DEF ToldInv
<1> QED
  BY <1>4, <1>5, FiledInit DEF ReportedInv

(* When all is handled, and unless the bus dropped something, the last     *)
(* report and the last context of every study are about the study as it is,*)
(* with a verdict its figures justify, whoever executes studies meanwhile. *)
THEOREM StudiesReportedHolds == FlowSpec => []StudiesReported
<1>1. ReportedInv => StudiesReported
  BY ReportedThen DEF ReportedInv
<1> QED
  BY <1>1, ReportedInit, ReportedStep, PTL DEF FlowSpec

(* The trades a context counts are recommendations of its study.           *)
THEOREM TradesCounted == FlowSpec => []TradesAreCounted
<1>1. ReportedInv => TradesAreCounted
  BY ReportedThen DEF ReportedInv
<1> QED
  BY <1>1, ReportedInit, ReportedStep, PTL DEF FlowSpec
=============================================================================
