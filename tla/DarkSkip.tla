------------------------------ MODULE DarkSkip ------------------------------
(***************************************************************************)
(* The exposure history of imp-common.c: the ring the autonight thread      *)
(* fills with darkskip_note_sample() and darkskip_range_is_dark(), by which *)
(* the uploader decides to delete a recording instead of uploading it.      *)
(*                                                                         *)
(* A verdict is compared with every sample ever taken, those the ring has   *)
(* overwritten and those a restart has lost included.                       *)
(***************************************************************************)
EXTENDS Integers, Sequences, FiniteSets

CONSTANTS
    RingSize,       \* DARKSKIP_SAMPLES
    Interval,       \* AUTONIGHT_INTERVAL, the least time between samples
    MinAge,         \* DARK_SKIP_MIN_AGE
    Ratio,          \* DARK_SKIP_RATIO, in percent
    ClockReadings,  \* to what the clock may be set, once
    MaxTime, MaxRestarts    \* bounds

\* What one sample shows: daylight (low EV), a dark scene the sensor still
\* exposes (high EV, gain below DARK_SKIP_AGAIN), or no light at all.
Levels == {"lit", "exposed", "unlit"}

ASSUME ConfigAssumption ==
    /\ RingSize \in Nat \ {0} /\ Interval \in Nat \ {0}
    /\ MinAge \in Nat /\ Ratio \in Int
    /\ MaxTime \in Nat /\ MaxRestarts \in Nat /\ ClockReadings \subseteq Nat

Samples == [level : Levels, t : Nat]
Taken   == [level : Levels, t : Nat, at : 0..MaxTime]
Slots   == 0..(RingSize - 1)
Blank   == [level |-> "lit", t |-> 0]       \* a static array starts as zeroes

VARIABLES
    now,            \* real time
    stepAt, shift,  \* when the clock was set, or 0; and by how much
    ring,           \* g_darkskip
    head,           \* g_darkskip_head: the next slot to write
    count,          \* g_darkskip_count
    taken,          \* history: every sample taken, with the real time
    reborn          \* history: the times of the restarts, in order

clockVars == <<now, stepAt, shift>>
vars == <<clockVars, ring, head, count, taken, reborn>>

\* What time() returns at real time t.
WallAt(t) == IF 0 < stepAt /\ stepAt <= t THEN t + 1 + shift ELSE t + 1

Init ==
    /\ now = 0 /\ stepAt = 0 /\ shift = 0
    /\ ring = [i \in Slots |-> Blank] /\ head = 0 /\ count = 0
    /\ taken = <<>> /\ reborn = <<>>

Tick ==
    /\ now < MaxTime /\ now' = now + 1
    /\ UNCHANGED <<stepAt, shift, ring, head, count, taken, reborn>>

\* NTP sets the clock, forwards or back.
ClockStep ==
    /\ stepAt = 0 /\ now < MaxTime
    /\ now' = now + 1 /\ stepAt' = now + 1
    /\ \E reading \in ClockReadings : shift' = reading - (now + 2)
    /\ UNCHANGED <<ring, head, count, taken, reborn>>

-----------------------------------------------------------------------------
(* darkskip_note_sample().                                                  *)

\* The thread sleeps Interval between two samples; it may come late, or miss
\* any number of polls when GetEVAttr fails.
SampleDue ==
    count > 0 => now - taken[Len(taken)].at >= Interval

NextHeadUnwrapped == head + 1

NextHead == (head + 1) % RingSize

NoteSample(level) ==
    /\ SampleDue
    /\ ring' = [ring EXCEPT ![head] = [level |-> level, t |-> WallAt(now)]]
    /\ head' = NextHead
    /\ count' = IF count < RingSize THEN count + 1 ELSE count
    /\ taken' = Append(taken, [level |-> level, t |-> WallAt(now), at |-> now])
    /\ UNCHANGED <<clockVars, reborn>>

\* The daemon restarts: its memory is gone, the recordings are not.  The old
\* process ends and the new one sets up the camera before it takes a sample.
Restart ==
    /\ Len(reborn) < MaxRestarts /\ now < MaxTime
    /\ ring' = [i \in Slots |-> Blank] /\ head' = 0 /\ count' = 0
    /\ now' = now + 1 /\ reborn' = Append(reborn, now + 1)
    /\ UNCHANGED <<stepAt, shift, taken>>

-----------------------------------------------------------------------------
(* darkskip_range_is_dark(first, last).                                     *)

\* The i-th oldest sample of the ring, i from 0.
SlotOffByOne(i) == (head - count + i + 1 + RingSize * 2) % RingSize

Slot(i) == (head - count + i + RingSize * 2) % RingSize

InRing == 0..(count - 1)

InWindow(first, last) ==
    {i \in InRing : ring[Slot(i)].t \in first..last}

EarliestOf(window) ==
    ring[Slot(CHOOSE i \in window : \A j \in window : i <= j)].t

\* ev >= DARK_SKIP_EV and again >= DARK_SKIP_AGAIN.
IsDark(level) == level = "unlit"

CoversAlways(window, first) == window # {}

\* The history reaches back to the start of the chunk, give or take a poll.
Covers(window, first) ==
    window # {} /\ EarliestOf(window) <= first + Interval

ClampedRatio == IF Ratio < 1 THEN 1 ELSE IF Ratio > 100 THEN 100 ELSE Ratio

LongEnough(first, last) == last - first >= MinAge

RangeIsDark(first, last) ==
    LET window == InWindow(first, last)
        dark   == {i \in window : IsDark(ring[Slot(i)].level)}
    IN  /\ last > first
        /\ Covers(window, first)
        /\ LongEnough(first, last)
        /\ Cardinality(dark) * 100 >= Cardinality(window) * ClampedRatio

-----------------------------------------------------------------------------
Done == now = MaxTime /\ UNCHANGED vars

Next ==
    \/ Tick \/ ClockStep
    \/ \E level \in Levels : NoteSample(level)
    \/ Restart
    \/ Done

Spec == Init /\ [][Next]_vars

-----------------------------------------------------------------------------
(* Properties.                                                             *)

TypeOK ==
    /\ now \in 0..MaxTime /\ stepAt \in 0..MaxTime /\ shift \in Int
    /\ ring \in [Slots -> Samples] /\ head \in Slots /\ count \in 0..RingSize
    /\ taken \in Seq(Taken) /\ reborn \in Seq(0..MaxTime)

\* A new process took over after one moment and no later than the other.
RestartIn(after, till) ==
    \E k \in 1..Len(reborn) : after < reborn[k] /\ reborn[k] <= till

\* A recording, by its first and last moment in real time: the recorder does not
\* live through a restart of the daemon either.
Recordings ==
    {w \in (0..now) \X (0..now) :
        /\ w[1] < w[2]
        /\ ~RestartIn(w[1], w[2])}

Witnesses(first, last) == {k \in DOMAIN taken : taken[k].at \in first..last}
Bright(first, last) ==
    {k \in Witnesses(first, last) : taken[k].level # "unlit"}

\* The seconds that came twice because the clock was set back, and how the
\* uploader sees a recording: from its name to its mtime.
Repeated == IF shift < 0 THEN (stepAt + 1 + shift)..stepAt ELSE {}
Window(first, last) == WallAt(first)..WallAt(last)

\* The ring in the order Slot reads it is the newest part of all samples taken
\* since the last restart: nothing is skipped, repeated or out of order.
RingIsNewest ==
    /\ count <= Len(taken)
    /\ \A i \in InRing :
          LET sample == taken[Len(taken) - count + i + 1]
          IN  ring[Slot(i)] = [level |-> sample.level, t |-> sample.t]

DarkByItsSamples(first, last) ==
    LET all == Cardinality(Witnesses(first, last))
        lit == Cardinality(Bright(first, last))
    IN  lit * 100 <= all * (100 - ClampedRatio) + 100

\* A recording is deleted as dark only on the evidence of its own window: of
\* all samples ever taken in it at most one is no longer counted, and of those
\* counted no more than 100 - Ratio percent show anything.  This survives any
\* setting of the clock but one that repeats a second of the recording.
DeletedWasDark ==
    \A w \in Recordings :
        /\ RangeIsDark(WallAt(w[1]), WallAt(w[2]))
        /\ Window(w[1], w[2]) \cap Repeated = {}
        => DarkByItsSamples(w[1], w[2])

\* "The window is the chunk's own start/end": without the exception.
JudgedByItsOwn ==
    \A w \in Recordings :
        RangeIsDark(WallAt(w[1]), WallAt(w[2])) => DarkByItsSamples(w[1], w[2])

-----------------------------------------------------------------------------
(* The inductive invariant behind the safety properties, in parts          *)
(* (DarkSkipProofs proves it).                                             *)

\* The clock never shows less than the reading it was set to.
ShiftInv == IF stepAt = 0 THEN shift = 0
            ELSE stepAt <= now /\ stepAt + 1 + shift >= 0

\* Samples carry the time at which they were taken, and one process takes them
\* at least an Interval apart; those the ring has lost to a restart are older.
TakenInv ==
    /\ \A k \in 1..Len(taken) :
          taken[k].at <= now /\ taken[k].t = WallAt(taken[k].at)
    /\ \A j, k \in 1..Len(taken) :
          j < k => \/ taken[j].at + Interval <= taken[k].at
                   \/ RestartIn(taken[j].at, taken[k].at)
    /\ count = 0 => \A k \in 1..Len(taken) : RestartIn(taken[k].at, now)
=============================================================================
