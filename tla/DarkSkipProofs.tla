--------------------------- MODULE DarkSkipProofs ----------------------------
(***************************************************************************)
(* Theorems about DarkSkip.tla, for every value of its constants.          *)
(***************************************************************************)
EXTENDS DarkSkip, SequenceTheorems, FiniteSetTheorems, FunctionTheorems, TLAPS

USE DEF clockVars, vars

-----------------------------------------------------------------------------
(* The index arithmetic of the ring.                                       *)

LEMMA SlotInRing ==
    ASSUME RingSize \in Nat \ {0}, NEW a \in Int
    PROVE  a % RingSize \in Slots
BY DEF Slots

LEMMA Wrap ==
    ASSUME RingSize \in Nat \ {0}, NEW a \in Slots
    PROVE  /\ a % RingSize = a
           /\ (a + RingSize) % RingSize = a
           /\ (a + RingSize * 2) % RingSize = a
<1>1. RingSize \in Nat /\ RingSize > 0 /\ a \in 0..(RingSize - 1)
  BY DEF Slots
<1>2. a % RingSize = a
  BY <1>1
<1>3. (a + RingSize) % RingSize = a
  BY <1>1
<1>4. (a + RingSize * 2) % RingSize = a
  BY <1>1
<1> QED
  BY <1>2, <1>3, <1>4

\* x modulo the ring size, for an index less than two rings below its start.
At(x) == IF x >= 0 THEN x ELSE x + RingSize

LEMMA SlotIsAt ==
    ASSUME RingSize \in Nat \ {0},
           NEW h \in Slots, NEW c \in 0..RingSize, NEW i \in 0..(c - 1)
    PROVE  /\ At(h - c + i) \in Slots
           /\ (h - c + i + RingSize * 2) % RingSize = At(h - c + i)
<1>1. h \in Int /\ c \in Int /\ i \in Int /\ RingSize \in Int
  BY DEF Slots
<1>2. CASE h - c + i >= 0
  <2>1. At(h - c + i) = h - c + i /\ h - c + i \in Slots
    BY <1>2 DEF At, Slots
  <2> QED
    BY <2>1, Wrap
<1>3. CASE ~(h - c + i >= 0)
  <2> DEFINE a == h - c + i + RingSize
  <2>1. At(h - c + i) = a /\ a \in Slots
    BY <1>3 DEF At, Slots
  <2>2. h - c + i + RingSize * 2 = a + RingSize
    BY <1>1
  <2> HIDE DEF a
  <2> QED
    BY <2>1, <2>2, Wrap
<1> QED
  BY <1>2, <1>3

LEMMA NextIsAt ==
    ASSUME RingSize \in Nat \ {0}, NEW h \in Slots
    PROVE  (h + 1) % RingSize = IF h + 1 = RingSize THEN 0 ELSE h + 1
<1>1. CASE h + 1 = RingSize
  <2>1. 0 \in Slots /\ 0 + RingSize = h + 1
    BY <1>1 DEF Slots
  <2> QED
    BY <1>1, <2>1, Wrap
<1>2. CASE h + 1 # RingSize
  <2>1. h + 1 \in Slots
    BY <1>2 DEF Slots
  <2> QED
    BY <1>2, <2>1, Wrap
<1> QED
  BY <1>1, <1>2

-----------------------------------------------------------------------------
(* Types.                                                                  *)

ClockInv == TypeOK /\ ShiftInv

LEMMA WallIsNat == ClockInv => WallAt(now) \in Nat
BY DEF ClockInv, TypeOK, ShiftInv, WallAt

LEMMA BlankType == Blank \in Samples
BY DEF Blank, Samples, Levels

LEMMA InitClock == Init => ClockInv
<1> SUFFICES ASSUME Init PROVE ClockInv
  OBVIOUS
<1>1. taken \in Seq(Taken) /\ reborn \in Seq(0..MaxTime)
  BY EmptySeq DEF Init
<1>2. ring \in [Slots -> Samples]
  BY BlankType DEF Init
<1> QED
  BY <1>1, <1>2, ConfigAssumption DEF Init, ClockInv, TypeOK, ShiftInv, Slots

LEMMA StepClock == ClockInv /\ [Next]_vars => ClockInv'
<1> SUFFICES ASSUME ClockInv, [Next]_vars PROVE ClockInv'
  OBVIOUS
<1> USE ConfigAssumption
<1>1. CASE Tick
  BY <1>1 DEF ClockInv, TypeOK, ShiftInv, Tick
<1>2. CASE ClockStep
  <2>1. PICK reading \in ClockReadings : shift' = reading - (now + 2)
    BY <1>2 DEF ClockStep
  <2>2. reading \in Nat /\ now \in Nat
    BY DEF ClockInv, TypeOK
  <2>3. now' = now + 1 /\ stepAt' = now + 1 /\ now < MaxTime
    BY <1>2 DEF ClockStep
  <2>4. shift' \in Int /\ stepAt' + 1 + shift' >= 0 /\ now' \in 0..MaxTime
    BY <2>1, <2>2, <2>3
  <2> QED
    BY <1>2, <2>3, <2>4 DEF ClockInv, TypeOK, ShiftInv, ClockStep
<1>3. ASSUME NEW level \in Levels, NoteSample(level) PROVE ClockInv'
  <2>1. [level |-> level, t |-> WallAt(now)] \in Samples
    BY WallIsNat DEF Samples
  <2>2. [level |-> level, t |-> WallAt(now), at |-> now] \in Taken
    BY WallIsNat DEF Taken, ClockInv, TypeOK
  <2>3. taken' \in Seq(Taken)
    BY <1>3, <2>2, AppendProperties DEF NoteSample, ClockInv, TypeOK
  <2>4. head' \in Slots
    <3>1. head + 1 \in Int
      BY DEF ClockInv, TypeOK, Slots
    <3>2. head' = (head + 1) % RingSize
      BY <1>3 DEF NoteSample, NextHead
    <3> QED
      BY <3>1, <3>2, SlotInRing
  <2>5. ring' \in [Slots -> Samples]
    BY <1>3, <2>1 DEF NoteSample, ClockInv, TypeOK
  <2>6. count' \in 0..RingSize
    BY <1>3 DEF NoteSample, ClockInv, TypeOK
  <2> QED
    BY <1>3, <2>3, <2>4, <2>5, <2>6 DEF NoteSample, ClockInv, TypeOK, ShiftInv
<1>4. CASE Restart
  <2>1. reborn' \in Seq(0..MaxTime)
    BY <1>4, AppendProperties DEF Restart, ClockInv, TypeOK
  <2>2. ring' \in [Slots -> Samples]
    BY <1>4, BlankType DEF Restart
  <2>3. head' \in Slots /\ count' \in 0..RingSize
    BY <1>4 DEF Restart, Slots
  <2> QED
    BY <1>4, <2>1, <2>2, <2>3 DEF Restart, ClockInv, TypeOK, ShiftInv
<1>5. CASE UNCHANGED vars
  BY <1>5 DEF ClockInv, TypeOK, ShiftInv
<1> QED
  BY <1>1, <1>2, <1>3, <1>4, <1>5 DEF Next, Done

LEMMA AlwaysClock == Spec => []ClockInv
BY InitClock, StepClock, PTL DEF Spec

\* The history of exposure keeps its types: head and count stay within the
\* ring whatever its size, and no sample carries a time before the epoch.
THEOREM TypeCorrect == Spec => []TypeOK
<1>1. ClockInv => TypeOK
  BY DEF ClockInv
<1> QED
  BY <1>1, AlwaysClock, PTL

-----------------------------------------------------------------------------
(* The ring.                                                               *)

LEMMA StepRing == ClockInv /\ RingIsNewest /\ [Next]_vars => RingIsNewest'
<1> SUFFICES ASSUME ClockInv, RingIsNewest, [Next]_vars PROVE RingIsNewest'
  OBVIOUS
<1> USE ConfigAssumption
<1>1. CASE Tick \/ ClockStep \/ UNCHANGED vars
  BY <1>1 DEF Tick, ClockStep, RingIsNewest, InRing, Slot
<1>2. CASE Restart
  <2>1. count' = 0 /\ Len(taken) \in Nat /\ taken' = taken
    BY <1>2, LenProperties DEF Restart, ClockInv, TypeOK
  <2> QED
    BY <2>1 DEF RingIsNewest, InRing
<1>3. ASSUME NEW level \in Levels, NoteSample(level) PROVE RingIsNewest'
  <2> DEFINE s == [level |-> level, t |-> WallAt(now)]
             u == [level |-> level, t |-> WallAt(now), at |-> now]
  <2>1. /\ taken \in Seq(Taken) /\ head \in Slots /\ count \in 0..RingSize
        /\ ring \in [Slots -> Samples] /\ Len(taken) \in Nat
    BY LenProperties DEF ClockInv, TypeOK
  <2>2. /\ ring' = [ring EXCEPT ![head] = s] /\ head' = (head + 1) % RingSize
        /\ count' = (IF count < RingSize THEN count + 1 ELSE count)
        /\ taken' = Append(taken, u)
    BY <1>3 DEF NoteSample, NextHead
  <2>3. u \in Taken /\ u.level = s.level /\ u.t = s.t /\ s = [level |-> u.level, t |-> u.t]
    BY WallIsNat DEF Taken, ClockInv, TypeOK
  <2> HIDE DEF s, u
  <2>4. /\ Len(taken') = Len(taken) + 1 /\ taken'[Len(taken) + 1] = u
        /\ \A j \in 1..Len(taken) : taken'[j] = taken[j]
    BY <2>1, <2>2, <2>3, AppendProperties
  <2>5. count <= Len(taken) /\ count' <= Len(taken')
    BY <2>1, <2>2, <2>4 DEF RingIsNewest
  <2>6. head' = (IF head + 1 = RingSize THEN 0 ELSE head + 1) /\ head' \in Slots
    BY <2>1, <2>2, NextIsAt DEF Slots
  <2>7. count' \in 0..RingSize
    BY <2>1, <2>2
  <2>8. ASSUME NEW i \in InRing'
        PROVE  ring'[Slot(i)'] = [level |-> taken'[Len(taken') - count' + i + 1].level,
                                  t |-> taken'[Len(taken') - count' + i + 1].t]
    <3>1. i \in 0..(count' - 1) /\ i \in Int /\ count' \in Int
      <4>1. i \in 0..(count' - 1)
        BY DEF InRing
      <4>2. count' \in Int
        BY <2>7
      <4>3. i \in Int
        BY <4>1
      <4> QED
        BY <4>1, <4>2, <4>3
    <3>2. Slot(i)' = At(head' - count' + i)
      BY <2>6, <2>7, <3>1, SlotIsAt DEF Slot
    <3>3. CASE i = count' - 1
      <4>1. Slot(i)' = head
        BY <2>1, <2>6, <3>1, <3>2, <3>3 DEF At, Slots
      <4>2. ring'[head] = s
        BY <2>1, <2>2
      <4>3. Len(taken') - count' + i + 1 = Len(taken) + 1
        BY <2>1, <2>4, <3>1, <3>3
      <4> QED
        BY <2>3, <2>4, <4>1, <4>2, <4>3
    <3>4. CASE i # count' - 1
      <4> DEFINE j == IF count < RingSize THEN i ELSE i + 1
      <4>1. j \in InRing
        BY <2>1, <2>2, <3>1, <3>4 DEF InRing
      <4>2. Slot(j) = At(head - count + j) /\ Slot(j) \in Slots
        BY <2>1, <4>1, SlotIsAt DEF Slot, InRing
      <4>3. Slot(i)' = Slot(j) /\ Slot(j) # head
        <5>1. /\ head \in Int /\ head >= 0 /\ head < RingSize /\ RingSize \in Int
              /\ count \in Int /\ count >= 0 /\ count <= RingSize
              /\ i >= 0 /\ i < count' - 1 /\ i \in Int
          BY <2>1, <2>7, <3>1, <3>4 DEF Slots
        <5>2. CASE count < RingSize
          <6>1. count' = count + 1 /\ j = i
            BY <2>2, <5>2
          <6> HIDE DEF j
          <6>2. CASE head + 1 = RingSize
            BY <2>6, <3>2, <4>2, <5>1, <5>2, <6>1, <6>2 DEF At
          <6>3. CASE head + 1 # RingSize
            BY <2>6, <3>2, <4>2, <5>1, <5>2, <6>1, <6>3 DEF At
          <6> QED
            BY <6>2, <6>3
        <5>3. CASE count = RingSize
          <6>1. count' = count /\ j = i + 1
            BY <2>2, <5>3
          <6> HIDE DEF j
          <6>2. CASE head + 1 = RingSize
            BY <2>6, <3>2, <4>2, <5>1, <5>3, <6>1, <6>2 DEF At
          <6>3. CASE head + 1 # RingSize
            BY <2>6, <3>2, <4>2, <5>1, <5>3, <6>1, <6>3 DEF At
          <6> QED
            BY <6>2, <6>3
        <5> QED
          BY <5>1, <5>2, <5>3
      <4>4. ring'[Slot(i)'] = ring[Slot(j)]
        BY <2>1, <2>2, <4>2, <4>3
      <4>5. Len(taken') - count' + i + 1 = Len(taken) - count + j + 1
        BY <2>1, <2>2, <2>4, <3>1
      <4>6. Len(taken) - count + j + 1 \in 1..Len(taken)
        BY <2>1, <2>5, <4>1 DEF InRing
      <4> HIDE DEF j
      <4>7. taken'[Len(taken') - count' + i + 1] = taken[Len(taken) - count + j + 1]
        BY <2>4, <4>5, <4>6
      <4> QED
        BY <4>1, <4>4, <4>7 DEF RingIsNewest
    <3> QED
      BY <3>3, <3>4
  <2> QED
    BY <2>5, <2>8 DEF RingIsNewest
<1> QED
  BY <1>1, <1>2, <1>3 DEF Next, Done

\* What darkskip_range_is_dark() walks through, from the oldest entry on, is the
\* newest part of all samples taken, in their order: the index arithmetic skips,
\* repeats and mixes none, before and after the ring wraps.
THEOREM RingCorrect == Spec => []RingIsNewest
<1>1. Init => RingIsNewest
  <2> SUFFICES ASSUME Init PROVE RingIsNewest
    OBVIOUS
  <2>1. count = 0 /\ Len(taken) = 0
    BY DEF Init
  <2> QED
    BY <2>1 DEF RingIsNewest, InRing
<1> QED
  BY <1>1, StepRing, AlwaysClock, PTL DEF Spec

-----------------------------------------------------------------------------
(* The samples taken.                                                      *)

LEMMA RestartStays ==
    ASSUME ClockInv, [Next]_vars, NEW a, NEW b, RestartIn(a, b)
    PROVE  \E r \in 1..Len(reborn') : a < reborn'[r] /\ reborn'[r] <= b
<1>1. PICK r \in 1..Len(reborn) : a < reborn[r] /\ reborn[r] <= b
  BY DEF RestartIn
<1>2. CASE UNCHANGED reborn
  BY <1>1, <1>2 DEF RestartIn
<1>3. CASE Restart
  <2>1. now + 1 \in 0..MaxTime /\ reborn \in Seq(0..MaxTime)
    BY <1>3, ConfigAssumption DEF Restart, ClockInv, TypeOK
  <2>2. /\ reborn' = Append(reborn, now + 1) /\ Len(reborn') = Len(reborn) + 1
        /\ \A k \in 1..Len(reborn) : reborn'[k] = reborn[k]
    BY <1>3, <2>1, AppendProperties DEF Restart
  <2>3. r \in 1..Len(reborn') /\ reborn'[r] = reborn[r]
    BY <1>1, <2>1, <2>2, LenProperties
  <2> QED
    BY <1>1, <2>3 DEF RestartIn
<1> QED
  BY <1>2, <1>3 DEF Next, Done, Tick, ClockStep, NoteSample

LEMMA StepTaken ==
    ClockInv /\ RingIsNewest /\ TakenInv /\ [Next]_vars => TakenInv'
<1> SUFFICES ASSUME ClockInv, RingIsNewest, TakenInv, [Next]_vars PROVE TakenInv'
  OBVIOUS
<1> USE ConfigAssumption
<1>1. /\ taken \in Seq(Taken) /\ Len(taken) \in Nat /\ now \in Nat
      /\ \A k \in 1..Len(taken) : taken[k].at \in Nat
  <2>1. taken \in Seq(Taken) /\ now \in Nat
    BY DEF ClockInv, TypeOK
  <2>2. Len(taken) \in Nat /\ \A k \in 1..Len(taken) : taken[k] \in Taken
    BY <2>1, ElementOfSeq, LenProperties
  <2> QED
    BY <2>1, <2>2 DEF Taken
<1>2. \A k \in 1..Len(reborn') : reborn'[k] \in Nat
  <2>1. reborn' \in Seq(0..MaxTime)
    BY StepClock DEF ClockInv, TypeOK
  <2> QED
    BY <2>1, ElementOfSeq
<1>3. now' \in Nat /\ now <= now'
  <2>1. now' = now \/ now' = now + 1
    BY DEF Next, Done, Tick, ClockStep, NoteSample, Restart
  <2> QED
    BY <1>1, <2>1
<1>4. ASSUME UNCHANGED taken,
             count' = 0 => count = 0 \/ (reborn' # <<>> /\ reborn'[Len(reborn')] = now'
                                         /\ now' > now)
      PROVE  TakenInv'
  <2>1. ASSUME NEW k \in 1..Len(taken)
        PROVE  taken[k].at <= now' /\ taken[k].t = WallAt(taken[k].at)'
    <3>1. taken[k].at <= now /\ taken[k].t = WallAt(taken[k].at) /\ taken[k].at \in Nat
      BY <1>1 DEF TakenInv
    <3> DEFINE a == taken[k].at
    <3>2. taken'[k].at = a
      BY <1>4
    <3>3. CASE UNCHANGED <<stepAt, shift>>
      BY <1>1, <1>3, <1>4, <3>1, <3>3 DEF WallAt
    <3>4. CASE ClockStep
      <4>1. stepAt = 0 /\ stepAt' = now + 1
        BY <3>4 DEF ClockStep
      <4>2. ~(stepAt' <= a)
        BY <1>1, <3>1, <4>1
      <4> QED
        BY <1>1, <1>3, <1>4, <3>1, <4>1, <4>2 DEF WallAt
    <3> QED
      BY <3>3, <3>4 DEF Next, Done, Tick, NoteSample, Restart
  <2>2. ASSUME NEW j \in 1..Len(taken), NEW k \in 1..Len(taken), j < k
        PROVE  \/ taken[j].at + Interval <= taken[k].at
               \/ \E r \in 1..Len(reborn') :
                     taken[j].at < reborn'[r] /\ reborn'[r] <= taken[k].at
    <3>1. \/ taken[j].at + Interval <= taken[k].at
          \/ RestartIn(taken[j].at, taken[k].at)
      BY <2>2 DEF TakenInv
    <3> QED
      BY <3>1, RestartStays
  <2>3. ASSUME count' = 0, NEW k \in 1..Len(taken)
        PROVE  \E r \in 1..Len(reborn') : taken[k].at < reborn'[r] /\ reborn'[r] <= now'
    <3>1. CASE count = 0
      <4>1. RestartIn(taken[k].at, now)
        BY <3>1 DEF TakenInv
      <4>2. PICK r \in 1..Len(reborn') : taken[k].at < reborn'[r] /\ reborn'[r] <= now
        BY <4>1, RestartStays
      <4> QED
        BY <1>1, <1>2, <1>3, <4>2
    <3>2. CASE reborn' # <<>> /\ reborn'[Len(reborn')] = now' /\ now' > now
      <4>1. Len(reborn') \in 1..Len(reborn')
        <5>1. reborn' \in Seq(0..MaxTime)
          BY StepClock DEF ClockInv, TypeOK
        <5> QED
          BY <3>2, <5>1, EmptySeq
      <4>2. taken[k].at <= now /\ taken[k].at \in Nat
        BY <1>1 DEF TakenInv
      <4> QED
        BY <1>1, <1>3, <3>2, <4>1, <4>2
    <3> QED
      BY <1>4, <2>3, <3>1, <3>2
  <2>4. taken' = taken
    BY <1>4
  <2> QED
    BY <2>1, <2>2, <2>3, <2>4 DEF TakenInv, RestartIn
<1>5. CASE Tick \/ ClockStep \/ UNCHANGED vars
  BY <1>4, <1>5 DEF Tick, ClockStep
<1>6. CASE Restart
  <2>1. now + 1 \in 0..MaxTime /\ reborn \in Seq(0..MaxTime)
    BY <1>6 DEF Restart, ClockInv, TypeOK
  <2>2. /\ reborn' = Append(reborn, now + 1) /\ Len(reborn') = Len(reborn) + 1
        /\ reborn'[Len(reborn) + 1] = now + 1
    BY <1>6, <2>1, AppendProperties DEF Restart
  <2>3. reborn' # <<>>
    BY <2>1, <2>2, LenProperties
  <2> QED
    BY <1>1, <1>4, <1>6, <2>2, <2>3 DEF Restart
<1>7. ASSUME NEW level \in Levels, NoteSample(level) PROVE TakenInv'
  <2> DEFINE n == Len(taken)
             u == [level |-> level, t |-> WallAt(now), at |-> now]
  <2>1. u \in Taken /\ u.at = now /\ u.t = WallAt(now)
    BY WallIsNat DEF Taken, ClockInv, TypeOK
  <2>2. taken' = Append(taken, u) /\ UNCHANGED <<now, stepAt, shift, reborn>>
    BY <1>7 DEF NoteSample
  <2> HIDE DEF u
  <2>3. /\ Len(taken') = n + 1 /\ taken'[n + 1] = u
        /\ \A k \in 1..n : taken'[k] = taken[k]
    BY <1>1, <2>1, <2>2, AppendProperties
  <2>4. \A k \in 1..n : \/ taken[k].at + Interval <= now
                          \/ RestartIn(taken[k].at, now)
    <3>1. CASE count = 0
      BY <3>1 DEF TakenInv
    <3>2. CASE count # 0
      <4>1. n \in 1..n /\ now - taken[n].at >= Interval /\ n \in Nat
        BY <1>1, <1>7, <3>2 DEF NoteSample, SampleDue, RingIsNewest, ClockInv, TypeOK
      <4>2. taken[n].at \in Nat /\ taken[n].at + Interval <= now
        BY <1>1, <4>1
      <4>3. ASSUME NEW k \in 1..n
            PROVE  taken[k].at + Interval <= now \/ RestartIn(taken[k].at, now)
        <5>1. CASE k = n
          BY <4>2, <5>1
        <5>2. CASE k # n /\ RestartIn(taken[k].at, taken[n].at)
          <6>1. \A r \in 1..Len(reborn) : reborn[r] \in Nat
            BY <1>2, <2>2
          <6>2. taken[n].at <= now
            BY <4>1 DEF TakenInv
          <6> QED
            BY <1>1, <4>2, <5>2, <6>1, <6>2 DEF RestartIn
        <5>3. CASE k # n /\ taken[k].at + Interval <= taken[n].at
          BY <1>1, <4>2, <5>3
        <5>4. k < n \/ k = n
          BY <4>1
        <5> QED
          BY <4>1, <5>1, <5>2, <5>3, <5>4 DEF TakenInv
      <4> QED
        BY <4>3
    <3> QED
      BY <3>1, <3>2
  <2>5. \A k \in 1..(n + 1) : k \in 1..n \/ k = n + 1
    BY <1>1
  <2>6. ASSUME NEW k \in 1..(n + 1)
        PROVE  taken'[k].at <= now /\ taken'[k].t = WallAt(taken'[k].at)
    <3>1. CASE k = n + 1
      BY <1>1, <2>1, <2>3, <3>1
    <3>2. CASE k \in 1..n
      BY <2>3, <3>2 DEF TakenInv
    <3> QED
      BY <2>5, <3>1, <3>2
  <2>7. ASSUME NEW j \in 1..(n + 1), NEW k \in 1..(n + 1), j < k
        PROVE  \/ taken'[j].at + Interval <= taken'[k].at
               \/ RestartIn(taken'[j].at, taken'[k].at)
    <3>1. j \in 1..n /\ taken'[j] = taken[j]
      BY <1>1, <2>3, <2>7
    <3>2. CASE k = n + 1
      BY <2>1, <2>3, <2>4, <3>1, <3>2
    <3>3. CASE k \in 1..n
      BY <2>3, <2>7, <3>1, <3>3 DEF TakenInv
    <3> QED
      BY <2>5, <3>2, <3>3
  <2>8. count' # 0
    BY <1>7 DEF NoteSample, ClockInv, TypeOK
  <2> QED
    BY <2>2, <2>3, <2>6, <2>7, <2>8 DEF TakenInv, RestartIn, WallAt
<1> QED
  BY <1>5, <1>6, <1>7 DEF Next, Done

-----------------------------------------------------------------------------
(* Verdicts.                                                               *)

\* The window of a recording, in wall time, selects exactly the moments of it:
\* unless the clock was set back into it.
LEMMA WindowIsRecording ==
    ASSUME ClockInv, NEW a \in 0..now, NEW b \in 0..now, a < b,
           WallAt(a) < WallAt(b), Window(a, b) \cap Repeated = {},
           NEW t \in 0..now
    PROVE  /\ WallAt(t) \in Window(a, b) <=> t \in a..b
           /\ t \in a..b /\ WallAt(t) <= WallAt(a) + Interval => t <= a + Interval
<1> USE ConfigAssumption
<1>1. /\ now \in Nat /\ stepAt \in Nat /\ shift \in Int /\ a \in Nat /\ b \in Nat /\ t \in Nat
      /\ Interval \in Nat
  BY DEF ClockInv, TypeOK
<1>2. /\ WallAt(a) \in Int /\ WallAt(b) \in Int /\ WallAt(t) \in Int
  BY <1>1 DEF WallAt
<1>3. CASE stepAt = 0
  BY <1>1, <1>3 DEF ClockInv, ShiftInv, WallAt, Window
<1>4. CASE stepAt # 0 /\ shift >= 0
  BY <1>1, <1>4 DEF WallAt, Window
<1>5. CASE stepAt # 0 /\ shift < 0
  <2>1. ASSUME NEW x \in Int, x >= WallAt(a), x <= WallAt(b),
               x >= stepAt + 1 + shift, x <= stepAt
        PROVE  FALSE
    <3>1. x \in Window(a, b) /\ x \in Repeated
      BY <1>1, <1>2, <1>5, <2>1 DEF Window, Repeated
    <3> QED
      BY <3>1
  <2>2. WallAt(b) < stepAt + 1 + shift \/ WallAt(a) > stepAt
    <3>1. CASE WallAt(a) >= stepAt + 1 + shift /\ WallAt(a) <= stepAt
      BY <1>2, <2>1, <3>1
    <3>2. CASE WallAt(a) < stepAt + 1 + shift /\ WallAt(b) >= stepAt + 1 + shift
      BY <1>1, <1>2, <1>5, <2>1, <3>2
    <3> QED
      BY <1>1, <1>2, <3>1, <3>2
  <2>3. CASE WallAt(b) < stepAt + 1 + shift
    <3>1. b < stepAt
      BY <1>1, <1>5, <2>3 DEF WallAt
    <3>2. WallAt(a) = a + 1 /\ WallAt(b) = b + 1
      BY <1>1, <3>1 DEF WallAt
    <3>3. t < stepAt => WallAt(t) = t + 1
      BY <1>1 DEF WallAt
    <3>4. t >= stepAt => WallAt(t) >= stepAt + 1 + shift
      BY <1>1, <1>5 DEF WallAt
    <3> QED
      BY <1>1, <1>2, <2>3, <3>1, <3>2, <3>3, <3>4 DEF Window
  <2>4. CASE WallAt(a) > stepAt
    <3>1. a >= stepAt
      BY <1>1, <2>4 DEF WallAt
    <3>2. WallAt(a) = a + 1 + shift /\ WallAt(b) = b + 1 + shift
      BY <1>1, <1>5, <3>1 DEF WallAt
    <3>3. t >= stepAt => WallAt(t) = t + 1 + shift
      BY <1>1, <1>5 DEF WallAt
    <3>4. t < stepAt => WallAt(t) <= stepAt
      BY <1>1 DEF WallAt
    <3> QED
      BY <1>1, <1>2, <2>4, <3>1, <3>2, <3>3, <3>4 DEF Window
  <2> QED
    BY <2>2, <2>3, <2>4
<1> QED
  BY <1>1, <1>3, <1>4, <1>5

LEMMA RatioRange == ClampedRatio \in 1..100
BY ConfigAssumption DEF ClampedRatio

\* Of the samples all, those in counted were counted, and those in dark of
\* them found dark: at most one of all was not counted.
LEMMA Counting ==
    ASSUME NEW all, NEW counted, NEW dark, NEW bright, IsFiniteSet(all),
           counted \subseteq all, dark \subseteq counted, bright \subseteq all,
           bright \cap dark = {},
           \A j, k \in all \ counted : j = k,
           Cardinality(dark) * 100 >= Cardinality(counted) * ClampedRatio
    PROVE  Cardinality(bright) * 100
             <= Cardinality(all) * (100 - ClampedRatio) + 100
<1> DEFINE rest == all \ counted
           lit  == counted \ dark
<1>1. /\ IsFiniteSet(counted) /\ IsFiniteSet(dark) /\ IsFiniteSet(bright)
      /\ Cardinality(counted) <= Cardinality(all)
  BY FS_Subset
<1>2. IsFiniteSet(rest) /\ Cardinality(rest) \in Nat /\ Cardinality(rest) <= 1
  <2>1. IsFiniteSet(rest)
    BY FS_Subset
  <2>2. CASE rest = {}
    BY <2>2, FS_EmptySet
  <2>3. CASE rest # {}
    <3>1. PICK x : x \in rest
      BY <2>3
    <3>2. rest = {x}
      BY <3>1
    <3> QED
      BY <2>1, <3>2, FS_Singleton
  <2> QED
    BY <2>1, <2>2, <2>3
<1>3. /\ IsFiniteSet(lit)
      /\ Cardinality(lit) = Cardinality(counted) - Cardinality(dark)
  <2>1. counted \cap dark = dark
    OBVIOUS
  <2> QED
    BY <1>1, <2>1, FS_Difference
<1>4. Cardinality(bright) <= Cardinality(lit) + Cardinality(rest)
  <2>1. bright \subseteq lit \cup rest
    OBVIOUS
  <2>2. /\ IsFiniteSet(lit \cup rest)
        /\ Cardinality(lit \cup rest)
             = Cardinality(lit) + Cardinality(rest) - Cardinality(lit \cap rest)
    BY <1>2, <1>3, FS_Union
  <2>3. lit \cap rest = {}
    OBVIOUS
  <2>4. Cardinality(lit) \in Nat /\ Cardinality(bright) \in Nat
    BY <1>1, <1>3, FS_CardinalityType
  <2>5. Cardinality(bright) <= Cardinality(lit \cup rest)
    BY <2>1, <2>2, FS_Subset
  <2>6. Cardinality(lit \cap rest) = 0
    BY <2>3, FS_EmptySet
  <2> HIDE DEF lit, rest
  <2> QED
    BY <1>2, <2>2, <2>4, <2>5, <2>6
<1>5. /\ Cardinality(all) \in Nat /\ Cardinality(counted) \in Nat
      /\ Cardinality(dark) \in Nat /\ Cardinality(bright) \in Nat
  BY <1>1, FS_CardinalityType
<1> HIDE DEF lit, rest
<1> DEFINE A == Cardinality(all)
           C == Cardinality(counted)
           D == Cardinality(dark)
           B == Cardinality(bright)
           r == ClampedRatio
<1>6. /\ A \in Nat /\ C \in Nat /\ D \in Nat /\ B \in Nat /\ r \in 1..100
      /\ C <= A /\ D * 100 >= C * r /\ B <= C - D + 1
  BY <1>1, <1>2, <1>3, <1>4, <1>5, RatioRange
<1> HIDE DEF A, B, C, D, r
<1>7. B * 100 <= C * 100 - C * r + 100
  <2>1. C * r \in Nat
    BY <1>6
  <2> QED
    BY <1>6, <2>1
<1>8. C * 100 - C * r = C * (100 - r)
  BY <1>6
<1>9. C * (100 - r) <= A * (100 - r)
  BY <1>6
<1>10. B * 100 <= A * (100 - r) + 100
  <2>1. C * (100 - r) \in Int /\ A * (100 - r) \in Int
    BY <1>6
  <2> QED
    BY <1>6, <1>7, <1>8, <1>9, <2>1
<1> QED
  BY <1>10 DEF A, B, r

LEMMA ShiftSameSize ==
    ASSUME NEW S, NEW T, NEW d \in Int, S \subseteq Int, IsFiniteSet(T),
           \A i \in S : i + d \in T, \A k \in T : k \in Int /\ k - d \in S
    PROVE  Cardinality(S) = Cardinality(T) /\ IsFiniteSet(S)
<1> DEFINE f == [k \in T |-> k - d]
<1>1. f \in [T -> S]
  OBVIOUS
<1>2. ASSUME NEW j \in T, NEW k \in T, f[j] = f[k] PROVE j = k
  <2>1. j \in Int /\ k \in Int /\ j - d = k - d
    BY <1>2
  <2> QED
    BY <2>1
<1>3. ASSUME NEW i \in S PROVE \E k \in T : f[k] = i
  <2>1. i \in Int /\ i + d \in T /\ (i + d) - d = i
    OBVIOUS
  <2>2. f[i + d] = i
    BY <2>1
  <2> QED
    BY <2>1, <2>2
<1> HIDE DEF f
<1>4. f \in Bijection(T, S)
  BY <1>1, <1>2, <1>3, Fun_IsBij
<1>5. ExistsBijection(T, S)
  BY <1>4 DEF ExistsBijection
<1> QED
  BY <1>5, FS_Bijection

LEMMA LeastIndex ==
    ASSUME NEW S, S \subseteq Nat, S # {}
    PROVE  \E i \in S : \A j \in S : i <= j
<1> DEFINE R == OpToRel(<, Nat)
<1>1. IsWellFoundedOn(R, Nat)
  BY NatLessThanWellFounded
<1>2. \A x, y \in Nat : x < y => <<x, y>> \in R
  BY DEF OpToRel
<1> HIDE DEF R
<1>3. PICK i \in S : \A j \in S : <<j, i>> \notin R
  BY <1>1, WFMin
<1>4. \A j \in S : ~(j < i)
  BY <1>2, <1>3
<1> QED
  BY <1>4

LEMMA VerdictsRight ==
    ClockInv /\ RingIsNewest /\ TakenInv => DeletedWasDark
<1> SUFFICES ASSUME ClockInv, RingIsNewest, TakenInv, NEW w \in Recordings,
                    RangeIsDark(WallAt(w[1]), WallAt(w[2])),
                    Window(w[1], w[2]) \cap Repeated = {}
             PROVE  DarkByItsSamples(w[1], w[2])
  BY DEF DeletedWasDark
<1> USE ConfigAssumption
<1> DEFINE a == w[1]
           b == w[2]
           n == Len(taken)
           d == n - count + 1
           window == InWindow(WallAt(a), WallAt(b))
           darkIn == {i \in window : IsDark(ring[Slot(i)].level)}
           all == Witnesses(a, b)
           counted == {k \in all : k >= d}
           dark == {k \in counted : taken[k].level = "unlit"}
<1>1. a \in 0..now /\ b \in 0..now /\ a < b /\ ~RestartIn(a, b)
  BY DEF Recordings
<1>2. /\ WallAt(a) < WallAt(b) /\ window # {}
      /\ EarliestOf(window) <= WallAt(a) + Interval
      /\ Cardinality(darkIn) * 100 >= Cardinality(window) * ClampedRatio
  <2>1. WallAt(a) \in Int /\ WallAt(b) \in Int
    BY <1>1 DEF WallAt, ClockInv, TypeOK
  <2> QED
    BY <2>1 DEF RangeIsDark, Covers
<1>3. /\ n \in Nat /\ count \in Nat /\ count <= n /\ now \in Nat /\ d \in Nat
      /\ taken \in Seq(Taken) /\ DOMAIN taken = 1..n /\ Interval \in Nat
  BY LenProperties DEF ClockInv, TypeOK, RingIsNewest
<1>4. ASSUME NEW k \in 1..n
      PROVE  /\ taken[k].at \in 0..now /\ taken[k].t = WallAt(taken[k].at)
             /\ taken[k].level \in Levels
  <2>1. taken[k] \in Taken
    BY <1>3, ElementOfSeq
  <2>2. taken[k].at \in 0..MaxTime /\ taken[k].level \in Levels
    BY <2>1 DEF Taken
  <2> QED
    BY <1>3, <2>2 DEF TakenInv
<1>5. ASSUME NEW i \in InRing
      PROVE  /\ i + d \in 1..n /\ i \in Int
             /\ ring[Slot(i)].t = taken[i + d].t
             /\ ring[Slot(i)].level = taken[i + d].level
  <2>1. i \in 0..(count - 1) /\ i \in Int
    BY DEF InRing
  <2>2. n - count + i + 1 = i + d /\ i + d \in 1..n
    BY <1>3, <2>1
  <2>3. ring[Slot(i)] = [level |-> taken[n - count + i + 1].level,
                         t |-> taken[n - count + i + 1].t]
    BY DEF RingIsNewest
  <2> QED
    BY <2>1, <2>2, <2>3
<1>6. \A k \in 1..n : taken[k].t \in Window(a, b) <=> taken[k].at \in a..b
  BY <1>1, <1>2, <1>4, WindowIsRecording
<1>7. \A i \in InRing : i \in window <=> i + d \in all
  <2> SUFFICES ASSUME NEW i \in InRing PROVE i \in window <=> i + d \in all
    OBVIOUS
  <2>1. i \in window <=> ring[Slot(i)].t \in Window(a, b)
    BY DEF InWindow, Window
  <2>2. i + d \in all <=> taken[i + d].at \in a..b
    BY <1>3, <1>5 DEF Witnesses
  <2> HIDE DEF window, all
  <2> QED
    BY <1>5, <1>6, <2>1, <2>2
<1>8. \A k \in 1..n : k >= d => k - d \in InRing /\ (k - d) + d = k
  BY <1>3 DEF InRing
<1>9. window \subseteq InRing /\ all \subseteq 1..n /\ InRing \subseteq Int
  BY <1>3, <1>5 DEF InWindow, Witnesses
<1>10. \A i \in InRing : i \in Nat /\ i + d >= d
  BY <1>3 DEF InRing
<1> HIDE DEF d, window, all
<1>11. counted \subseteq all /\ dark \subseteq counted
  OBVIOUS
<1>12. IsFiniteSet(all) /\ IsFiniteSet(counted) /\ IsFiniteSet(dark)
  <2>1. IsFiniteSet(1..n)
    BY <1>3, FS_Interval
  <2> QED
    BY <1>9, <1>11, <2>1, FS_Subset
<1>13. Cardinality(window) = Cardinality(counted)
  <2>1. \A i \in window : i + d \in counted
    BY <1>7, <1>9, <1>10
  <2>2. ASSUME NEW k \in counted PROVE k \in Int /\ k - d \in window
    <3>1. k \in 1..n /\ k >= d /\ k \in all
      BY <1>9
    <3>2. k - d \in InRing /\ (k - d) + d = k
      BY <1>8, <3>1
    <3> QED
      BY <1>7, <3>1, <3>2
  <2>3. d \in Int /\ window \subseteq Int
    BY <1>3, <1>9
  <2> HIDE DEF counted
  <2> QED
    BY <1>12, <2>1, <2>2, <2>3, ShiftSameSize
<1>14. Cardinality(darkIn) = Cardinality(dark)
  <2>1. ASSUME NEW i \in darkIn PROVE i + d \in dark
    <3>1. i \in InRing /\ i + d \in all /\ i + d >= d
      BY <1>7, <1>9, <1>10
    <3>2. taken[i + d].level = "unlit"
      BY <1>5, <3>1 DEF IsDark
    <3> QED
      BY <3>1, <3>2
  <2>2. ASSUME NEW k \in dark PROVE k \in Int /\ k - d \in darkIn
    <3>1. k \in 1..n /\ k >= d /\ k \in all /\ taken[k].level = "unlit"
      BY <1>9
    <3>2. k - d \in InRing /\ (k - d) + d = k
      BY <1>8, <3>1
    <3>3. k - d \in window
      BY <1>7, <3>1, <3>2
    <3>4. ring[Slot(k - d)].level = "unlit"
      BY <1>5, <3>1, <3>2
    <3> QED
      BY <3>1, <3>3, <3>4 DEF IsDark
  <2>3. darkIn \subseteq window
    OBVIOUS
  <2>4. d \in Int /\ window \subseteq Int
    BY <1>3, <1>9
  <2> HIDE DEF darkIn, dark
  <2>5. darkIn \subseteq Int
    BY <2>3, <2>4
  <2> QED
    BY <1>12, <2>1, <2>2, <2>4, <2>5, ShiftSameSize
<1>15. PICK e \in counted : taken[e].at <= a + Interval
  <2> DEFINE i == CHOOSE i \in window : \A j \in window : i <= j
  <2>1. i \in window
    <3>1. window \subseteq Nat /\ window # {}
      BY <1>2, <1>9, <1>10
    <3>2. \E m \in window : \A j \in window : m <= j
      BY <3>1, LeastIndex
    <3> QED
      BY <3>2
  <2>2. EarliestOf(window) = ring[Slot(i)].t
    BY DEF EarliestOf
  <2> HIDE DEF i
  <2>3. i \in InRing /\ i + d \in all /\ i + d >= d /\ i + d \in 1..n
    BY <1>5, <1>7, <1>9, <1>10, <2>1
  <2>4. taken[i + d].t <= WallAt(a) + Interval
    BY <1>2, <1>5, <2>2, <2>3
  <2>5. taken[i + d].at \in a..b /\ taken[i + d].at \in 0..now
        /\ taken[i + d].t = WallAt(taken[i + d].at)
    BY <1>4, <2>3 DEF all, Witnesses
  <2>6. taken[i + d].at <= a + Interval
    BY <1>1, <1>2, <2>4, <2>5, WindowIsRecording
  <2> QED
    BY <2>3, <2>6
<1>16. \A j, k \in all \ counted : j = k
  <2>1. ASSUME NEW j \in all \ counted, NEW k \in all \ counted, j < k PROVE FALSE
    <3>1. /\ j \in 1..n /\ k \in 1..n /\ e \in 1..n /\ k < d /\ e >= d
      BY <1>3, <1>9
    <3>2. k < e
      BY <1>3, <3>1
    <3>3. /\ taken[j].at \in a..b /\ taken[k].at \in a..b /\ taken[e].at \in a..b
      BY DEF all, Witnesses
    <3>4. /\ a \in Nat /\ b \in Nat /\ taken[j].at \in Nat /\ taken[k].at \in Nat
          /\ taken[e].at \in Nat
      BY <1>1, <1>3, <3>3
    <3>5. ~RestartIn(taken[j].at, taken[k].at) /\ ~RestartIn(taken[k].at, taken[e].at)
      <4>1. \A r \in 1..Len(reborn) : reborn[r] \in Nat
        <5>1. reborn \in Seq(0..MaxTime)
          BY DEF ClockInv, TypeOK
        <5> QED
          BY <5>1, ElementOfSeq
      <4>2. \A r \in 1..Len(reborn) : ~(a < reborn[r] /\ reborn[r] <= b)
        BY <1>1 DEF RestartIn
      <4>3. ASSUME NEW x \in Nat, NEW y \in Nat, a <= x, y <= b, RestartIn(x, y)
            PROVE  FALSE
        <5>1. PICK r \in 1..Len(reborn) : x < reborn[r] /\ reborn[r] <= y
          BY <4>3 DEF RestartIn
        <5>2. a < reborn[r] /\ reborn[r] <= b
          BY <3>4, <4>1, <4>3, <5>1
        <5> QED
          BY <4>2, <5>2
      <4> QED
        BY <3>3, <3>4, <4>3
    <3>6. taken[j].at + Interval <= taken[k].at /\ taken[k].at + Interval <= taken[e].at
      BY <2>1, <3>1, <3>2, <3>5 DEF TakenInv
    <3>7. Interval > 0
      OBVIOUS
    <3> DEFINE x == taken[j].at
               y == taken[k].at
               z == taken[e].at
    <3>8. /\ x \in Nat /\ y \in Nat /\ z \in Nat /\ a \in Nat /\ Interval \in Nat
          /\ x + Interval <= y /\ y + Interval <= z /\ z <= a + Interval /\ a <= x
      BY <1>3, <1>15, <3>3, <3>4, <3>6
    <3> HIDE DEF x, y, z, a
    <3> QED
      BY <3>7, <3>8
  <2>2. \A j \in all : j \in Nat
    BY <1>3, <1>9
  <2> QED
    BY <2>1, <2>2
<1>17. Cardinality(Bright(a, b)) * 100
         <= Cardinality(all) * (100 - ClampedRatio) + 100
  <2>1. Bright(a, b) \subseteq all /\ Bright(a, b) \cap dark = {}
    BY DEF Bright, all
  <2>2. Cardinality(dark) * 100 >= Cardinality(counted) * ClampedRatio
    BY <1>2, <1>13, <1>14
  <2> HIDE DEF counted, dark
  <2> QED
    BY <1>11, <1>12, <1>16, <2>1, <2>2, Counting
<1> QED
  BY <1>17 DEF DarkByItsSamples, all

-----------------------------------------------------------------------------
LEMMA AlwaysTaken == Spec => [](RingIsNewest /\ TakenInv)
<1>1. Init => TakenInv
  <2> SUFFICES ASSUME Init PROVE TakenInv
    OBVIOUS
  <2>1. Len(taken) = 0
    BY DEF Init
  <2> QED
    BY <2>1 DEF TakenInv
<1> QED
  BY <1>1, RingCorrect, StepTaken, AlwaysClock, PTL DEF Spec

\* darkskip_range_is_dark() lets the uploader delete a recording only on the
\* evidence of its own window: of all samples ever taken in it at most one has
\* been lost, to a ring that wrapped or a restart, and no more than 100 - Ratio
\* percent of the others show anything; whatever the sizes and intervals, and
\* with the clock set at any moment but into the recording.
THEOREM DeletionsRight == Spec => []DeletedWasDark
BY VerdictsRight, AlwaysClock, AlwaysTaken, PTL
=============================================================================
