--------------------------- MODULE RecorderProofs ---------------------------
(***************************************************************************)
(* Theorems about Recorder.tla, for every value of its constants.          *)
(***************************************************************************)
EXTENDS Recorder, TLAPS

USE DEF clockVars, chunkVars, fileVars, diskVars, paramVars, audioVars, vars

LEMMA ConstantTypes ==
    /\ \A t \in 0..MaxWall : Stamp[t] \in Names
    /\ NoName \notin Names
    /\ NoMux \in Muxes /\ NoFrame \in Frames
BY ConfigAssumption, NoNameAssumption, ClockAssumption
   DEF Names, NoMux, Muxes, NoFrame, Frames

LEMMA InitTypeOK == Init => TypeOK
<1> SUFFICES ASSUME Init PROVE TypeOK
  OBVIOUS
<1>1. /\ running \in BOOLEAN /\ arunning \in BOOLEAN
      /\ apc \in {"poll", "lock", "gate", "mux", "exited"}
  BY ConfigAssumption DEF Init
<1>2. /\ frame \in Frames /\ mux \in Muxes
      /\ files \in [Names -> Statuses] /\ openName \in Names \cup {NoName}
  BY ConstantTypes DEF Init, Statuses
<1>3. /\ ats \in 0..MaxAts /\ chunkStart \in 0..MaxWall /\ lastCheck \in 0..MaxWall
      /\ wall \in 0..MaxWall /\ mono \in 0..MaxTime
      /\ openedAt \in 0..MaxTime /\ readAt \in Int /\ idrAt \in Int
      /\ firstPts \in -1..MaxTs
  BY ConfigAssumption, ClockAssumption DEF Init
<1>4. ctx \in BOOLEAN /\ params \in BOOLEAN /\ gotExtradata \in BOOLEAN
  BY Zenon DEF Init
<1>5. /\ vpc \in {"poll", "lock", "rotate", "open", "write", "join", "shutdown", "done"}
      /\ lock \in {"free", "video", "audio"}
      /\ vstream \in Streams /\ astream \in Streams
      /\ lastRel \in Int /\ frameCount \in Nat /\ cachedUsage \in Int
  BY DEF Init, Streams
<1> QED
  BY <1>1, <1>2, <1>3, <1>4, <1>5 DEF TypeOK

\* close_current_chunk() keeps the types of what it touches.
LEMMA CloseTypes ==
    ASSUME TypeOK, CloseChunk
    PROVE  /\ ctx' \in BOOLEAN /\ vstream' \in Streams /\ astream' \in Streams
           /\ chunkStart' \in 0..MaxWall
           /\ firstPts' \in -1..MaxTs /\ lastRel' \in Int /\ frameCount' \in Nat
           /\ files' \in [Names -> Statuses]
           /\ openName' \in Names \cup {NoName}
           /\ mux' \in Muxes
<1>1. firstPts' \in -1..MaxTs
  BY ConfigAssumption DEF CloseChunk, ResetOrigin
<1>2. files' \in [Names -> Statuses]
  BY DEF TypeOK, CloseChunk, Closings, Statuses
<1>3. mux' \in Muxes
  BY ConstantTypes DEF CloseChunk
<1>4. ctx' \in BOOLEAN
  BY Zenon DEF CloseChunk
<1>5. /\ vstream' \in Streams /\ astream' \in Streams
      /\ chunkStart' \in 0..MaxWall /\ frameCount' \in Nat
      /\ lastRel' \in Int /\ openName' \in Names \cup {NoName}
  BY DEF TypeOK, CloseChunk, ResetOrigin, Streams
<1> QED
  BY <1>1, <1>2, <1>3, <1>4, <1>5

\* ... and so do the resets and the disk check at the head of open_new_chunk().
LEMMA BeginOpenTypes ==
    ASSUME TypeOK, BeginOpen
    PROVE  /\ firstPts' \in -1..MaxTs /\ lastRel' \in Int /\ frameCount' \in Nat
           /\ cachedUsage' \in Int /\ lastCheck' \in 0..MaxWall
           /\ readAt' \in Int
<1>1. /\ firstPts' \in -1..MaxTs /\ lastRel' \in Int /\ frameCount' \in Nat
  BY ConfigAssumption DEF BeginOpen, ResetOrigin
<1>2. cachedUsage' \in Int
  BY ConfigAssumption DEF TypeOK, BeginOpen, RefreshDisk
<1>3. lastCheck' \in 0..MaxWall /\ readAt' \in Int
  BY DEF TypeOK, BeginOpen, RefreshDisk
<1> QED
  BY <1>1, <1>2, <1>3

LEMMA StepTypeOK == TypeOK /\ [Next]_vars => TypeOK'
<1> SUFFICES ASSUME TypeOK, [Next]_vars PROVE TypeOK'
  OBVIOUS
<1>1. CASE Tick
  BY <1>1, ClockAssumption DEF TypeOK, Tick
<1>2. CASE StepClock
  BY <1>2 DEF TypeOK, StepClock
<1>3. CASE Signal
  <2>1. running' \in BOOLEAN
    BY <1>3, Zenon DEF Signal
  <2> QED
    BY <1>3, <2>1 DEF TypeOK, Signal
<1>4. ASSUME NEW k \in FrameKinds, NEW ts \in 0..MaxTs, VideoFrame(k, ts)
      PROVE  TypeOK'
  <2>1. params' \in BOOLEAN
    BY <1>4, Zenon DEF TypeOK, VideoFrame
  <2>2. gotExtradata' \in BOOLEAN
    BY <1>4, <2>1, Zenon DEF TypeOK, VideoFrame
  <2>3. idrAt' \in Int /\ vpc' \in {"lock", "poll"}
    BY <1>4 DEF TypeOK, VideoFrame
  <2>4. frame' \in Frames
    BY <1>4, <2>2, ConstantTypes DEF VideoFrame, Frames, LeadsWithSps, HasIdrSlice
  <2> QED
    BY <1>4, <2>1, <2>2, <2>3, <2>4 DEF TypeOK, VideoFrame
<1>5. ASSUME NEW ts \in 0..MaxAts, AudioFrame(ts)
      PROVE  TypeOK'
  BY <1>5 DEF TypeOK, AudioFrame, audioUnchanged
<1>6. CASE VideoLock
  BY <1>6 DEF TypeOK, VideoLock
<1>7. CASE Rotate
  BY <1>7, CloseTypes DEF TypeOK, Rotate
<1>8. CASE SkipOpen
  BY <1>8 DEF TypeOK, SkipOpen
<1>9. CASE SkipFrame
  BY <1>9, ConstantTypes DEF TypeOK, SkipFrame, VideoReturns
<1>10. CASE OpenRefused
  BY <1>10, BeginOpenTypes, ConstantTypes DEF TypeOK, OpenRefused, VideoReturns
<1>11. CASE OpenFails
  <2>1. vstream' \in Streams /\ astream' \in Streams
    BY <1>11 DEF TypeOK, OpenFails, StreamsAfter, Streams
  <2>2. files' \in [Names -> Statuses]
    BY <1>11 DEF TypeOK, OpenFails, Statuses
  <2> QED
    BY <1>11, <2>1, <2>2, BeginOpenTypes, ConstantTypes
       DEF TypeOK, OpenFails, VideoReturns
<1>12. CASE OpenSucceeds
  BY <1>12, BeginOpenTypes, ConstantTypes DEF TypeOK, OpenSucceeds, Streams, Statuses
<1>13. CASE NothingWritten
  BY <1>13, ConstantTypes DEF TypeOK, NothingWritten, VideoReturns
<1>14. CASE VideoWritten
  <2>1. Origin \in 0..MaxTs /\ RelativeTs \in Int /\ frame.ts \in Int
    BY DEF TypeOK, Origin, RelativeTs, Frames
  <2>2. mux' \in Muxes
    BY <1>14, <2>1 DEF TypeOK, VideoWritten, Muxes
  <2> QED
    BY <1>14, <2>1, <2>2, ConstantTypes DEF TypeOK, VideoWritten, VideoReturns
<1>15. CASE VideoBroken
  BY <1>15, CloseTypes, ConstantTypes DEF TypeOK, VideoBroken, VideoReturns
<1>16. CASE LeaveLoop
  BY <1>16 DEF TypeOK, LeaveLoop
<1>17. CASE JoinAudio
  BY <1>17 DEF TypeOK, JoinAudio
<1>18. CASE Shutdown
  BY <1>18, CloseTypes DEF TypeOK, Shutdown, CloseCurrentChunk
<1>19. CASE AudioLock
  BY <1>19 DEF TypeOK, AudioLock, audioUnchanged
<1>20. CASE AudioGate
  BY <1>20 DEF TypeOK, AudioGate, audioUnchanged
<1>21. CASE AudioWritten
  <2>1. Rescale(ats - firstPts) \in Int
    BY ConfigAssumption DEF TypeOK, Rescale
  <2> QED
    BY <1>21, <2>1 DEF TypeOK, AudioWritten, AudioDts, audioUnchanged, Muxes
<1>22. CASE AudioBroken
  BY <1>22, CloseTypes DEF TypeOK, AudioBroken, audioUnchanged
<1>23. CASE AudioExit
  BY <1>23 DEF TypeOK, AudioExit, audioUnchanged
<1>24. CASE UNCHANGED vars
  BY <1>24 DEF TypeOK
<1> QED
  BY <1>1, <1>2, <1>3, <1>4, <1>5, <1>6, <1>7, <1>8, <1>9, <1>10, <1>11, <1>12,
     <1>13, <1>14, <1>15, <1>16, <1>17, <1>18, <1>19, <1>20, <1>21, <1>22,
     <1>23, <1>24
     DEF Next, VideoStep, AudioStep, Exited

\* Every variable keeps its type (the "type invariant" of the run packets).
THEOREM TypeCorrect == Spec => []TypeOK
BY InitTypeOK, StepTypeOK, PTL DEF Spec

-----------------------------------------------------------------------------
(* The mutex.                                                              *)

LEMMA InitSection == Init => SectionInv
BY DEF Init, SectionInv, InVideoSection, InAudioSection

LEMMA StepSection == TypeOK /\ SectionInv /\ [Next]_vars => SectionInv'
<1> SUFFICES ASSUME TypeOK, SectionInv, [Next]_vars PROVE SectionInv'
  OBVIOUS
<1> USE DEF SectionInv, InVideoSection, InAudioSection
<1>1. CASE Tick \/ StepClock \/ Signal \/ UNCHANGED vars
  BY <1>1 DEF Tick, StepClock, Signal
<1>2. ASSUME NEW k \in FrameKinds, NEW ts \in 0..MaxTs, VideoFrame(k, ts)
      PROVE  SectionInv'
  BY <1>2 DEF VideoFrame
<1>3. CASE VideoLock \/ Rotate \/ SkipOpen \/ SkipFrame
  BY <1>3 DEF VideoLock, Rotate, SkipOpen, SkipFrame, VideoReturns
<1>4. CASE OpenRefused \/ OpenFails \/ OpenSucceeds
  BY <1>4 DEF OpenRefused, OpenFails, OpenSucceeds, BeginOpen, VideoReturns
<1>5. CASE NothingWritten \/ VideoWritten \/ VideoBroken
  BY <1>5 DEF NothingWritten, VideoWritten, VideoBroken, VideoReturns
<1>6. CASE LeaveLoop \/ JoinAudio \/ Shutdown
  BY <1>6 DEF TypeOK, LeaveLoop, JoinAudio, Shutdown
<1>7. ASSUME NEW ts \in 0..MaxAts, AudioFrame(ts)
      PROVE  SectionInv'
  BY <1>7 DEF AudioFrame, audioUnchanged
<1>8. CASE AudioStep
  BY <1>8 DEF AudioStep, AudioLock, AudioGate, AudioWritten, AudioBroken,
              AudioExit, audioUnchanged
<1> QED
  BY <1>1, <1>2, <1>3, <1>4, <1>5, <1>6, <1>7, <1>8
     DEF Next, VideoStep, Exited

-----------------------------------------------------------------------------
(* The open chunk.                                                         *)

LEMMA InitOpen == Init => OpenInv
BY ConfigAssumption DEF Init, OpenInv

\* close_current_chunk() leaves nothing open, provided no audio write is going on.
LEMMA CloseOpen ==
    ASSUME TypeOK, OpenInv, ctx, CloseChunk,
           vpc' # "write", apc' # "mux", AudioEnabled \/ apc' = "exited"
    PROVE  OpenInv'
<1>1. ~ctx' /\ openName' = NoName /\ mux' = NoMux /\ firstPts' = -1 /\ lastRel' = -1
  BY DEF CloseChunk, ResetOrigin
<1>2. \A n \in Names : files'[n] # "open"
  BY DEF TypeOK, OpenInv, CloseChunk, Closings
<1> QED
  BY <1>1, <1>2 DEF OpenInv

LEMMA StepOpen == TypeOK /\ SectionInv /\ OpenInv /\ [Next]_vars => OpenInv'
<1> SUFFICES ASSUME TypeOK, SectionInv, OpenInv, [Next]_vars PROVE OpenInv'
  OBVIOUS
<1>1. CASE Tick \/ StepClock \/ Signal \/ UNCHANGED vars
  BY <1>1 DEF OpenInv, Tick, StepClock, Signal
<1>2. ASSUME NEW k \in FrameKinds, NEW ts \in 0..MaxTs, VideoFrame(k, ts)
      PROVE  OpenInv'
  BY <1>2 DEF OpenInv, VideoFrame
<1>3. CASE VideoLock \/ SkipOpen \/ SkipFrame
  BY <1>3 DEF OpenInv, VideoLock, SkipOpen, SkipFrame, VideoReturns
<1>4. CASE Rotate
  <2>1. CASE RotationDue
    <3>1. ctx /\ CloseChunk /\ vpc' = "open" /\ apc' = apc
      BY <1>4, <2>1 DEF Rotate, RotationDue
    <3>2. apc # "mux"
      BY <1>4 DEF Rotate, SectionInv, InVideoSection, InAudioSection
    <3> QED
      BY <3>1, <3>2, CloseOpen DEF OpenInv
  <2>2. CASE ~RotationDue
    BY <1>4, <2>2 DEF OpenInv, Rotate
  <2> QED
    BY <2>1, <2>2
<1>5. CASE OpenRefused \/ OpenFails \/ OpenSucceeds
  <2>1. apc # "mux" /\ apc' = apc /\ ~ctx
    BY <1>5 DEF OpenRefused, OpenFails, OpenSucceeds, BeginOpen, OpenNeeded,
                VideoReturns, SectionInv, InVideoSection, InAudioSection
  <2>2. CASE OpenRefused
    BY <2>1, <2>2 DEF OpenInv, OpenRefused, BeginOpen, ResetOrigin, VideoReturns
  <2>3. CASE OpenFails
    <3>1. \A n \in Names : files'[n] # "open"
      BY <2>1, <2>3, NoNameAssumption DEF TypeOK, OpenInv, OpenFails
    <3> QED
      BY <2>1, <2>3, <3>1 DEF OpenInv, OpenFails, BeginOpen, ResetOrigin, VideoReturns
  <2>4. CASE OpenSucceeds
    <3>1. openName' \in Names /\ openName' # NoName
      BY <2>4, ConstantTypes DEF TypeOK, OpenSucceeds
    <3>2. \A n \in Names : files'[n] = "open" => n = openName'
      BY <2>1, <2>4, NoNameAssumption DEF TypeOK, OpenInv, OpenSucceeds
    <3>3. files'[openName'] = "open"
      BY <2>4, <3>1 DEF TypeOK, OpenSucceeds
    <3> QED
      BY <2>1, <2>4, <3>1, <3>2, <3>3 DEF OpenInv, OpenSucceeds, BeginOpen
  <2> QED
    BY <1>5, <2>2, <2>3, <2>4
<1>6. CASE NothingWritten
  BY <1>6 DEF OpenInv, NothingWritten, VideoReturns
<1>7. CASE VideoWritten
  <2>1. ctx /\ apc # "mux" /\ apc' = apc
    BY <1>7 DEF VideoWritten, VideoReturns, OpenInv, SectionInv, InVideoSection,
                InAudioSection
  <2> QED
    BY <1>7, <2>1 DEF OpenInv, VideoWritten, VideoReturns
<1>8. CASE VideoBroken
  <2>1. ctx /\ CloseChunk /\ apc # "mux" /\ apc' = apc /\ vpc' = "poll"
    BY <1>8 DEF VideoBroken, VideoReturns, OpenInv, SectionInv, InVideoSection,
                InAudioSection
  <2> QED
    BY <2>1, CloseOpen DEF OpenInv
<1>9. CASE LeaveLoop \/ JoinAudio
  BY <1>9 DEF OpenInv, LeaveLoop, JoinAudio
<1>10. CASE Shutdown
  <2>1. apc = "exited" /\ apc' = "exited" /\ vpc' = "done"
    BY <1>10 DEF Shutdown, SectionInv
  <2>2. CASE ctx /\ CloseChunk
    BY <2>1, <2>2, CloseOpen
  <2>3. CASE ~ctx /\ UNCHANGED <<chunkVars, fileVars>>
    BY <2>1, <2>3 DEF OpenInv
  <2> QED
    BY <1>10, <2>2, <2>3 DEF Shutdown, CloseCurrentChunk
<1>11. ASSUME NEW ts \in 0..MaxAts, AudioFrame(ts)
       PROVE  OpenInv'
  BY <1>11 DEF OpenInv, AudioFrame, audioUnchanged
<1>12. CASE AudioLock \/ AudioExit
  BY <1>12 DEF OpenInv, AudioLock, AudioExit, audioUnchanged
<1>13. CASE AudioGate
  BY <1>13 DEF OpenInv, AudioGate, AudioMayWrite, audioUnchanged
<1>14. CASE AudioWritten
  BY <1>14 DEF OpenInv, AudioWritten, audioUnchanged
<1>15. CASE AudioBroken
  <2>1. ctx /\ CloseChunk /\ apc' = "poll" /\ vpc' = vpc /\ vpc # "write"
    BY <1>15 DEF AudioBroken, audioUnchanged, OpenInv, SectionInv,
                 InVideoSection, InAudioSection
  <2>2. AudioEnabled
    BY <1>15 DEF AudioBroken, OpenInv
  <2> QED
    BY <2>1, <2>2, CloseOpen
<1> QED
  BY <1>1, <1>2, <1>3, <1>4, <1>5, <1>6, <1>7, <1>8, <1>9, <1>10, <1>11,
     <1>12, <1>13, <1>14, <1>15
     DEF Next, VideoStep, AudioStep, Exited

-----------------------------------------------------------------------------
(* What the muxer has accepted.                                            *)

LEMMA InitPacket == Init => PacketInv
BY DEF Init, PacketInv, NoMux

\* The monotonicity guard: a new relative timestamp exceeds the last one.
LEMMA RelativeIncreases ==
    ASSUME TypeOK
    PROVE  RelativeTs \in Int /\ RelativeTs > lastRel
BY DEF TypeOK, RelativeTs, Origin, Frames

LEMMA ClosePacket ==
    ASSUME CloseChunk
    PROVE  PacketInv'
BY DEF CloseChunk, ResetOrigin, PacketInv, NoMux

LEMMA StepPacket ==
    TypeOK /\ SectionInv /\ OpenInv /\ PacketInv /\ [Next]_vars => PacketInv'
<1> SUFFICES ASSUME TypeOK, SectionInv, OpenInv, PacketInv, [Next]_vars
             PROVE  PacketInv'
  OBVIOUS
<1>1. CASE UNCHANGED <<chunkVars, fileVars>>
  BY <1>1 DEF PacketInv
<1>2. CASE CloseChunk
  BY <1>2, ClosePacket
<1>3. CASE OpenRefused \/ OpenFails \/ OpenSucceeds
  <2>1. firstPts' = -1 /\ lastRel' = -1 /\ frameCount' = 0 /\ ~ctx
    BY <1>3 DEF OpenRefused, OpenFails, OpenSucceeds, BeginOpen, OpenNeeded, ResetOrigin
  <2>2. mux' = NoMux
    BY <1>3, <2>1 DEF OpenInv, OpenRefused, OpenFails, OpenSucceeds
  <2> QED
    BY <2>1, <2>2 DEF PacketInv, NoMux
<1>4. CASE VideoWritten
  <2>1. /\ lastRel' = RelativeTs /\ firstPts' = Origin
        /\ frameCount' = frameCount + 1 /\ frameCount \in Nat
        /\ mux'.vdts = RelativeTs
        /\ mux'.first = IF mux.first # "none" THEN mux.first
                        ELSE IF frame.idr THEN "key" ELSE "delta"
        /\ mux'.base = IF mux.first = "none" THEN frame.ts ELSE mux.base
        /\ mux'.audio = mux.audio
    BY <1>4 DEF VideoWritten, TypeOK, Muxes
  <2>2. mux'.first # "none"
    BY <2>1
  <2>3. Origin \in Nat /\ mux'.base = Origin
    BY <2>1 DEF Origin, PacketInv, TypeOK, Frames
  <2>4. RelativeTs >= -1
    BY RelativeIncreases DEF PacketInv, TypeOK
  <2> QED
    BY <2>1, <2>2, <2>3, <2>4 DEF PacketInv
<1>5. CASE AudioWritten
  <2>1. /\ UNCHANGED chunkVars
        /\ mux'.vdts = mux.vdts /\ mux'.first = mux.first /\ mux'.base = mux.base
        /\ firstPts \in Int /\ firstPts >= 0
    BY <1>5 DEF AudioWritten, TypeOK, Muxes, OpenInv
  <2> QED
    BY <2>1 DEF PacketInv
<1> QED
  BY <1>1, <1>2, <1>3, <1>4, <1>5
     DEF Next, VideoStep, AudioStep, Exited, Tick, StepClock, Signal, VideoFrame,
         AudioFrame, VideoLock, Rotate, SkipOpen, SkipFrame, NothingWritten,
         VideoBroken, LeaveLoop, JoinAudio, Shutdown, CloseCurrentChunk, AudioLock,
         AudioGate, AudioBroken, AudioExit, audioUnchanged

-----------------------------------------------------------------------------
(* The audio packets.                                                      *)

LEMMA InitAudio == Init => AudioInv
BY DEF Init, AudioInv, NoMux

\* Two timestamps a sample or more apart fall on different samples.
LEMMA RescaleIncreases ==
    ASSUME NEW x \in Int, NEW y \in Int, y >= x + AudioUnit
    PROVE  /\ Rescale(x) \in Int /\ Rescale(y) \in Int
           /\ Rescale(x) < Rescale(y)
<1> DEFINE a == x + AudioUnit \div 2
           b == y + AudioUnit \div 2
<1>1. /\ AudioUnit \in Nat /\ AudioUnit > 0
      /\ a \in Int /\ b \in Int /\ b >= a + AudioUnit
  BY ConfigAssumption
<1>2. (a + AudioUnit) \div AudioUnit = a \div AudioUnit + 1
  BY <1>1
<1>3. b \div AudioUnit >= (a + AudioUnit) \div AudioUnit
  BY <1>1
<1> QED
  BY <1>1, <1>2, <1>3 DEF Rescale

LEMMA StepAudio ==
    TypeOK /\ SectionInv /\ OpenInv /\ PacketInv /\ AudioInv /\ [Next]_vars => AudioInv'
<1> SUFFICES ASSUME TypeOK, SectionInv, OpenInv, PacketInv, AudioInv, [Next]_vars
             PROVE  AudioInv'
  OBVIOUS
<1>1. CASE CloseChunk
  BY <1>1 DEF CloseChunk, AudioInv, NoMux
<1>2. CASE UNCHANGED <<mux, firstPts, apc, ats>>
  BY <1>2 DEF AudioInv, AudioDts, Rescale
<1>3. CASE OpenRefused \/ OpenFails \/ OpenSucceeds
  <2>1. mux' = NoMux
    BY <1>3 DEF OpenRefused, OpenFails, OpenSucceeds, BeginOpen, OpenNeeded, OpenInv
  <2> QED
    BY <2>1 DEF AudioInv, NoMux
<1>4. CASE VideoWritten
  <2>1. /\ mux'.audio = mux.audio /\ mux'.adts = mux.adts
        /\ UNCHANGED <<apc, ats>>
        /\ firstPts' = Origin
    BY <1>4 DEF VideoWritten, VideoReturns, TypeOK, Muxes
  <2>2. mux.audio => firstPts' = firstPts
    BY <2>1 DEF PacketInv, Origin
  <2> QED
    BY <2>1, <2>2 DEF AudioInv, AudioDts, Rescale
<1>5. ASSUME NEW ts \in 0..MaxAts, AudioFrame(ts)
      PROVE  AudioInv'
  <2>1. /\ ts \in Int /\ ats \in Int /\ firstPts \in Int /\ mux.adts \in Int
        /\ ats' = ts /\ UNCHANGED <<mux, firstPts>>
        /\ apc = "poll" /\ apc' = "lock"
        /\ ts >= ats + AudioUnit
    BY <1>5 DEF AudioFrame, TypeOK, Muxes
  <2>2. /\ Rescale(ats - firstPts) \in Int /\ Rescale(ts - firstPts) \in Int
        /\ Rescale(ats - firstPts) < Rescale(ts - firstPts)
    <3>1. /\ ats - firstPts \in Int /\ ts - firstPts \in Int
          /\ ts - firstPts >= (ats - firstPts) + AudioUnit
      BY <2>1, ConfigAssumption
    <3> QED
      BY <3>1, RescaleIncreases
  <2>3. mux.audio => mux.adts <= Rescale(ats - firstPts)
    BY <2>1 DEF AudioInv, AudioDts
  <2>4. AudioDts' = Rescale(ts - firstPts)
    BY <2>1 DEF AudioDts, Rescale
  <2> QED
    BY <2>1, <2>2, <2>3, <2>4 DEF AudioInv
<1>6. CASE AudioLock \/ AudioGate \/ AudioExit
  <2>1. /\ UNCHANGED <<mux, firstPts, ats>>
        /\ apc' \in {"lock", "gate", "mux"} => apc \in {"lock", "gate", "mux"}
    BY <1>6 DEF AudioLock, AudioGate, AudioExit
  <2>2. AudioDts' = AudioDts /\ AudioDts \in Int /\ mux.adts \in Int
    BY <2>1, ConfigAssumption DEF AudioDts, Rescale, TypeOK, Muxes
  <2> QED
    BY <2>1, <2>2 DEF AudioInv
<1>7. CASE AudioWritten
  <2>1. /\ mux'.adts = AudioDts /\ apc' = "poll" /\ UNCHANGED <<firstPts, ats>>
    BY <1>7 DEF AudioWritten, TypeOK, Muxes
  <2>2. AudioDts' = AudioDts /\ AudioDts \in Int
    BY <2>1, ConfigAssumption DEF AudioDts, Rescale, TypeOK
  <2> QED
    BY <2>1, <2>2 DEF AudioInv
<1> QED
  BY <1>1, <1>2, <1>3, <1>4, <1>5, <1>6, <1>7
     DEF Next, VideoStep, AudioStep, Exited, Tick, StepClock, Signal, VideoFrame,
         VideoLock, Rotate, SkipOpen, SkipFrame, NothingWritten, VideoReturns,
         VideoBroken, LeaveLoop, JoinAudio, Shutdown, CloseCurrentChunk, AudioBroken

-----------------------------------------------------------------------------
(* The theorems.                                                           *)

IndInv == TypeOK /\ SectionInv /\ OpenInv /\ PacketInv /\ AudioInv

LEMMA Inductive == Spec => []IndInv
<1>1. Init => IndInv
  BY InitTypeOK, InitSection, InitOpen, InitPacket, InitAudio DEF IndInv
<1>2. IndInv /\ [Next]_vars => IndInv'
  BY StepTypeOK, StepSection, StepOpen, StepPacket, StepAudio DEF IndInv
<1> QED
  BY <1>1, <1>2, PTL DEF Spec

\* No packet is written through a context or a stream that has been freed,
\* and no audio packet without an origin (lines 354, 449 and 460 of
\* mkv_recorder.c), whatever fails and whichever thread closes the chunk.
THEOREM MemorySafe == Spec => []NoUseAfterFree
<1>1. IndInv => NoUseAfterFree
  BY DEF IndInv, OpenInv, NoUseAfterFree
<1> QED
  BY <1>1, Inductive, PTL

\* mkv_recorder_shutdown() needs no mutex: audio_capture_stop() has joined the
\* only other thread that takes it.
THEOREM ShutdownUndisturbed == Spec => []ShutdownAlone
<1>1. IndInv => ShutdownAlone
  BY DEF IndInv, TypeOK, SectionInv, InVideoSection, InAudioSection, ShutdownAlone
<1> QED
  BY <1>1, Inductive, PTL

\* Lines 402-416 of mkv_recorder.c: the muxer never rejects a video packet for
\* its timestamp, for any sequence of encoder timestamps.
THEOREM VideoMonotone == Spec => []VideoNeverRejected
<1>1. IndInv => VideoNeverRejected
  BY RelativeIncreases DEF IndInv, PacketInv, VideoNeverRejected, VideoAccepted
<1> QED
  BY <1>1, Inductive, PTL

\* Line 479: neither does it reject an audio packet, if the audio clock moves
\* a sample or more from frame to frame.
THEOREM AudioMonotone == Spec => []AudioNeverRejected
<1>1. IndInv => AudioNeverRejected
  BY DEF IndInv, AudioInv, AudioNeverRejected, AudioAccepted
<1> QED
  BY <1>1, Inductive, PTL

\* Both tracks of a chunk count from its own first video packet.
THEOREM OriginCorrect == Spec => []OriginIsFirstPacket
<1>1. IndInv => OriginIsFirstPacket
  BY DEF IndInv, PacketInv, OriginIsFirstPacket
<1> QED
  BY <1>1, Inductive, PTL

\* Line 460: audio never comes before the first video packet of its chunk.
THEOREM VideoGated == Spec => []AudioAfterVideo
<1>1. IndInv => AudioAfterVideo
  BY DEF IndInv, PacketInv, AudioAfterVideo
<1> QED
  BY <1>1, Inductive, PTL

\* g_frame_count and g_last_relative_ts describe the open file.
THEOREM CountersCorrect == Spec => []CountersMatchFile
<1>1. IndInv => CountersMatchFile
  BY DEF IndInv, PacketInv, CountersMatchFile
<1> QED
  BY <1>1, Inductive, PTL

\* Every file but that of the open context has been through close_current_chunk()
\* (lines 216-230), and an orderly exit leaves no file open.
THEOREM ChunksAlwaysClosed == Spec => []ChunksClosed
<1>1. IndInv => ChunksClosed
  BY NoNameAssumption DEF IndInv, OpenInv, ChunksClosed
<1> QED
  BY <1>1, Inductive, PTL

\* A file is left without its trailer only by a trailer that fails: the results
\* of lines 222 and 223 are not looked at.
LEMMA StepCut ==
    ASSUME "trailer" \notin Faults
    PROVE  IndInv /\ NothingCut /\ [Next]_vars => NothingCut'
<1> SUFFICES ASSUME IndInv, NothingCut, [Next]_vars PROVE NothingCut'
  OBVIOUS
<1>1. CASE UNCHANGED files
  BY <1>1 DEF NothingCut
<1>2. CASE CloseChunk
  BY <1>2 DEF NothingCut, CloseChunk, Closings, IndInv, TypeOK
<1>3. CASE OpenFails \/ OpenSucceeds
  <2>1. \/ files' = files
        \/ files' = [files EXCEPT ![Stamp[wall]] = "stub"]
        \/ files' = [files EXCEPT ![Stamp[wall]] = "open"]
    BY <1>3 DEF OpenFails, OpenSucceeds
  <2> QED
    BY <2>1 DEF NothingCut, IndInv, TypeOK
<1> QED
  BY <1>1, <1>2, <1>3
     DEF Next, VideoStep, AudioStep, Exited, Tick, StepClock, Signal, VideoFrame,
         AudioFrame, VideoLock, Rotate, SkipOpen, SkipFrame, OpenRefused,
         NothingWritten, VideoWritten, VideoBroken, LeaveLoop, JoinAudio, Shutdown,
         CloseCurrentChunk, AudioLock, AudioGate, AudioWritten, AudioBroken,
         AudioExit, audioUnchanged

THEOREM TrailersAlways ==
    ASSUME "trailer" \notin Faults
    PROVE  Spec => []TrailersWritten
<1>1. Init => NothingCut
  BY DEF Init, NothingCut
<1>2. IndInv /\ NothingCut /\ [Next]_vars => NothingCut'
  BY StepCut
<1>3. NothingCut /\ ChunksClosed => TrailersWritten
  BY DEF NothingCut, ChunksClosed, TrailersWritten
<1> QED
  BY <1>1, <1>2, <1>3, Inductive, ChunksAlwaysClosed, PTL DEF Spec

-----------------------------------------------------------------------------
(* The first packet of a chunk.                                            *)

LEMMA InitKey == Init => KeyInv
BY DEF Init, KeyInv, NoFrame, NoMux

LEMMA StepKey ==
    ASSUME "realloc" \notin Faults
    PROVE  IndInv /\ KeyInv /\ [Next]_vars => KeyInv'
<1> SUFFICES ASSUME IndInv, KeyInv, [Next]_vars PROVE KeyInv'
  OBVIOUS
<1>1. CASE CloseChunk /\ frame' \in {frame, NoFrame}
  BY <1>1 DEF CloseChunk, KeyInv, NoFrame, NoMux
<1>2. CASE UNCHANGED <<ctx, mux, frame, vpc>>
  BY <1>2 DEF KeyInv
<1>3. ASSUME NEW kind \in FrameKinds, NEW ts \in 0..MaxTs, VideoFrame(kind, ts)
      PROVE  KeyInv'
  <2>1. frame'.idr => ~frame'.empty
    BY <1>3 DEF VideoFrame, NoFrame, HasIdrSlice
  <2> QED
    BY <1>3, <2>1 DEF VideoFrame, KeyInv
<1>4. CASE VideoLock \/ SkipOpen \/ LeaveLoop \/ JoinAudio
  BY <1>4 DEF VideoLock, SkipOpen, LeaveLoop, JoinAudio, KeyInv
<1>5. CASE Rotate /\ UNCHANGED <<chunkVars, fileVars>>
  BY <1>5 DEF Rotate, KeyInv
<1>6. CASE SkipFrame \/ OpenRefused \/ OpenFails
  <2>1. ~ctx /\ UNCHANGED <<ctx, mux>> /\ frame' = NoFrame
    BY <1>6 DEF SkipFrame, OpenRefused, OpenFails, BeginOpen, OpenNeeded, VideoReturns
  <2>2. mux = NoMux
    BY <2>1 DEF IndInv, OpenInv
  <2> QED
    BY <2>1, <2>2 DEF KeyInv, NoMux, NoFrame
<1>7. CASE OpenSucceeds
  BY <1>7 DEF OpenSucceeds, BeginOpen, OpenNeeded, KeyInv, NoMux
<1>8. CASE NothingWritten
  <2>1. mux.first # "none"
    BY <1>8 DEF NothingWritten, KeyInv, IndInv, OpenInv
  <2> QED
    BY <1>8, <2>1 DEF NothingWritten, VideoReturns, KeyInv, NoFrame
<1>9. CASE VideoWritten
  <2>1. mux.first # "none" \/ frame.idr
    BY <1>9 DEF VideoWritten, KeyInv, IndInv, OpenInv
  <2>2. mux'.first \notin {"none", "delta"}
    BY <1>9, <2>1 DEF VideoWritten, KeyInv, IndInv, TypeOK, Muxes
  <2> QED
    BY <1>9, <2>2 DEF VideoWritten, VideoReturns, KeyInv, NoFrame
<1>10. CASE Shutdown /\ UNCHANGED <<chunkVars, fileVars>>
  BY <1>10 DEF Shutdown, KeyInv
<1>11. CASE AudioWritten
  <2>1. mux'.first = mux.first /\ UNCHANGED <<ctx, frame, vpc>>
    BY <1>11 DEF AudioWritten, audioUnchanged, IndInv, TypeOK, Muxes
  <2> QED
    BY <2>1 DEF KeyInv
<1> QED
  BY <1>1, <1>2, <1>3, <1>4, <1>5, <1>6, <1>7, <1>8, <1>9, <1>10, <1>11
     DEF Next, VideoStep, AudioStep, Exited, Tick, StepClock, Signal, AudioFrame,
         Rotate, VideoBroken, VideoReturns, Shutdown, CloseCurrentChunk,
         AudioLock, AudioGate, AudioBroken, AudioExit, audioUnchanged

\* Unless the buffer for a frame cannot be had, every chunk begins with an IDR
\* frame and can be decoded from its start (lines 367-378 of mkv_recorder.c).
THEOREM DecodableChunks ==
    ASSUME "realloc" \notin Faults
    PROVE  Spec => []OriginIsIdr
<1>1. Init => KeyInv
  BY InitKey
<1>2. IndInv /\ KeyInv /\ [Next]_vars => KeyInv'
  BY StepKey
<1>3. KeyInv => OriginIsIdr
  BY DEF KeyInv, OriginIsIdr
<1> QED
  BY <1>1, <1>2, <1>3, Inductive, PTL DEF Spec

-----------------------------------------------------------------------------
(* The clocks.                                                             *)

LEMMA StepRead ==
    ASSUME ClockSteps \subseteq Nat
    PROVE  IndInv /\ ReadInv /\ [Next]_vars => ReadInv'
<1> SUFFICES ASSUME IndInv, ReadInv, [Next]_vars PROVE ReadInv'
  OBVIOUS
<1>0. /\ wall \in Int /\ mono \in Int
      /\ lastCheck \in Int /\ readAt \in Int
  BY DEF IndInv, TypeOK
<1>1. CASE Tick
  BY <1>0, <1>1 DEF Tick, ReadInv
<1>2. CASE StepClock
  BY <1>0, <1>2 DEF StepClock, ReadInv
<1>3. CASE RefreshDisk /\ UNCHANGED clockVars
  BY <1>0, <1>3 DEF RefreshDisk, ReadInv
<1>4. CASE UNCHANGED <<clockVars, diskVars>>
  BY <1>0, <1>4 DEF ReadInv
<1> QED
  BY <1>1, <1>2, <1>3, <1>4
     DEF Next, VideoStep, AudioStep, Exited, Signal, VideoFrame, AudioFrame,
         VideoLock, Rotate, SkipOpen, SkipFrame, OpenRefused, OpenFails,
         OpenSucceeds, BeginOpen, NothingWritten, VideoWritten, VideoBroken,
         VideoReturns, LeaveLoop, JoinAudio, Shutdown, AudioLock, AudioGate,
         AudioWritten, AudioBroken, AudioExit, audioUnchanged

LEMMA InitAge == Init => AgeInv
BY DEF Init, AgeInv

LEMMA StepAge ==
    ASSUME ClockSteps \subseteq Nat
    PROVE  IndInv /\ AgeInv /\ [Next]_vars => AgeInv'
<1> SUFFICES ASSUME IndInv, AgeInv, [Next]_vars PROVE AgeInv'
  OBVIOUS
<1>0. /\ wall \in Int /\ mono \in Int /\ chunkStart \in Int /\ openedAt \in Int
  BY DEF IndInv, TypeOK
<1>1. CASE Tick
  BY <1>0, <1>1 DEF Tick, AgeInv
<1>2. CASE StepClock
  BY <1>0, <1>2 DEF StepClock, AgeInv
<1>3. CASE OpenRefused \/ OpenFails
  BY <1>3 DEF OpenRefused, OpenFails, BeginOpen, OpenNeeded, AgeInv
<1>4. CASE OpenSucceeds
  BY <1>0, <1>4 DEF OpenSucceeds, AgeInv
<1>5. CASE CloseChunk
  BY <1>5 DEF CloseChunk, AgeInv
<1>6. CASE UNCHANGED <<clockVars, ctx, chunkStart, openedAt>>
  BY <1>0, <1>6 DEF AgeInv
<1> QED
  BY <1>1, <1>2, <1>3, <1>4, <1>5, <1>6
     DEF Next, VideoStep, AudioStep, Exited, Signal, VideoFrame, AudioFrame,
         VideoLock, Rotate, SkipOpen, SkipFrame, NothingWritten, VideoWritten,
         VideoBroken, VideoReturns, LeaveLoop, JoinAudio, Shutdown,
         CloseCurrentChunk, AudioLock, AudioGate, AudioWritten, AudioBroken,
         AudioExit, audioUnchanged

LEMMA AgeAlways ==
    ASSUME ClockSteps \subseteq Nat
    PROVE  Spec => []AgeInv
<1>1. IndInv /\ AgeInv /\ [Next]_vars => AgeInv'
  BY StepAge
<1> QED
  BY <1>1, InitAge, Inductive, PTL DEF Spec

\* Only OpenSucceeds opens a chunk.
LEMMA OnlyOpens ==
    ASSUME [Next]_vars, ~ctx, ctx'
    PROVE  OpenSucceeds
BY DEF Next, VideoStep, AudioStep, Exited, Tick, StepClock, Signal, VideoFrame,
       AudioFrame, VideoLock, Rotate, SkipOpen, SkipFrame, OpenRefused, OpenFails,
       NothingWritten, VideoWritten, VideoBroken, LeaveLoop, JoinAudio, Shutdown,
       CloseCurrentChunk, CloseChunk, AudioLock, AudioGate, AudioWritten,
       AudioBroken, AudioExit, audioUnchanged

\* "Cached -- refresh every 30s": with a clock that is only set forwards the
\* reading a chunk is opened on is as young in real time as on the clock.  The
\* clock must show RefreshPeriod or more when the process starts: below that the
\* first opens trust a usage of 0 that nobody has read (line 84).
THEOREM DiskReadingFresh ==
    ASSUME ClockSteps \subseteq Nat, RefreshPeriod <= StartWall
    PROVE  Spec => FreshDiskReading
<1>1. ASSUME IndInv, ReadInv, [Next]_vars, ~ctx, ctx'
      PROVE  mono - readAt' < RefreshPeriod /\ ~DiskFull(cachedUsage')
  <2>1. OpenSucceeds
    BY <1>1, OnlyOpens
  <2>2. /\ wall \in Int /\ mono \in Int /\ lastCheck \in Int /\ readAt \in Int
        /\ RefreshPeriod \in Int /\ RefreshPeriod > 0
    BY <1>1, ConfigAssumption DEF IndInv, TypeOK
  <2>3. mono - readAt' < RefreshPeriod
    BY <1>1, <2>1, <2>2 DEF OpenSucceeds, BeginOpen, RefreshDisk, ReadInv
  <2> QED
    BY <2>1, <2>3 DEF OpenSucceeds
<1>2. IndInv /\ ReadInv /\ [Next]_vars =>
        [~ctx /\ ctx' => /\ mono - readAt' < RefreshPeriod
                         /\ ~DiskFull(cachedUsage')]_vars
  BY <1>1
<1>3. Init => ReadInv
  BY ConfigAssumption, ClockAssumption DEF Init, ReadInv
<1>4. IndInv /\ ReadInv /\ [Next]_vars => ReadInv'
  BY StepRead
<1> QED
  BY <1>2, <1>3, <1>4, Inductive, PTL DEF Spec, FreshDiskReading

\* "Use monotonic clock" (line 337): with such a clock no IDR frame finds a
\* chunk that has lasted CHUNK_DURATION of real time and leaves it open.
THEOREM RotationInTime ==
    ASSUME ClockSteps \subseteq Nat
    PROVE  Spec => RotatesOnTime
<1>1. ASSUME IndInv, AgeInv, [Next]_vars, vpc = "rotate", vpc' = "open",
             frame.idr, ctx'
      PROVE  mono - openedAt < ChunkDuration
  <2>1. Rotate
    BY <1>1
       DEF Next, VideoStep, AudioStep, Exited, Tick, StepClock, Signal, VideoFrame,
           AudioFrame, VideoLock, SkipOpen, SkipFrame, OpenRefused, OpenFails,
           OpenSucceeds, BeginOpen, NothingWritten, VideoWritten, VideoBroken,
           LeaveLoop, JoinAudio, Shutdown, AudioLock, AudioGate, AudioWritten,
           AudioBroken, AudioExit, audioUnchanged
  <2>2. ctx /\ ~RotationDue
    BY <1>1, <2>1 DEF Rotate, CloseChunk
  <2>3. /\ wall \in Int /\ mono \in Int /\ chunkStart \in Int /\ openedAt \in Int
        /\ ChunkDuration \in Int
    BY <1>1, ConfigAssumption DEF IndInv, TypeOK
  <2> QED
    BY <1>1, <2>2, <2>3 DEF RotationDue, AgeInv
<1>2. IndInv /\ AgeInv /\ [Next]_vars =>
        [vpc = "rotate" /\ vpc' = "open" /\ frame.idr /\ ctx'
           => mono - openedAt < ChunkDuration]_vars
  BY <1>1
<1> QED
  BY <1>2, AgeAlways, Inductive, PTL DEF Spec, RotatesOnTime

-----------------------------------------------------------------------------
(* The files: Recorder implements ChunkStore.                              *)

\* The assumptions: a clock set forwards only, a name of its own for every
\* second, and an IDR frame that is written before the next one is due.
FreshNames ==
    /\ ClockSteps \subseteq Nat
    /\ FrameDelay < IdrGap
    /\ \A s, t \in 0..MaxWall : Stamp[s] = Stamp[t] => s = t

LEMMA InitName == Init => NameInv
BY ConfigAssumption, ClockAssumption DEF Init, NameInv, Used, NoFrame, Names

\* What no other action changes: a step that uses no new name and brings no IDR
\* frame keeps NameInv, at the same time or a later one.
LEMMA NameKept ==
    ASSUME FreshNames, IndInv, NameInv, UNCHANGED idrAt,
           \A n \in Names : Used(n)' => Used(n),
           frame' = frame \/ ~frame'.idr,
           frame'.idr /\ vpc' \in {"lock", "rotate", "open"}
               => vpc \in {"lock", "rotate", "open"},
           UNCHANGED clockVars
           \/ /\ wall' \in 0..MaxWall /\ wall' > wall
              /\ frame.idr => mono' - idrAt <= FrameDelay
    PROVE  NameInv'
<1>0. /\ wall \in 0..MaxWall
      /\ \A t \in 0..MaxWall : Stamp[t] \in Names
  BY ConstantTypes DEF IndInv, TypeOK
<1>1. CASE UNCHANGED clockVars
  BY <1>0, <1>1 DEF NameInv
<1>2. CASE /\ wall' \in 0..MaxWall /\ wall' > wall
           /\ frame.idr => mono' - idrAt <= FrameDelay
  <2>1. \A t \in 0..MaxWall : Used(Stamp[t])' => t <= wall
    BY <1>0 DEF NameInv
  <2>2. ~Used(Stamp[wall])'
    BY <1>0, <1>2, <2>1
  <2>3. \A t \in 0..MaxWall : Used(Stamp[t])' => t <= wall'
    BY <1>0, <1>2, <2>1
  <2> QED
    BY <1>2, <2>2, <2>3 DEF NameInv
<1> QED
  BY <1>1, <1>2

LEMMA StepName == FreshNames /\ IndInv /\ NameInv /\ [Next]_vars => NameInv'
<1> SUFFICES ASSUME FreshNames, IndInv, NameInv, [Next]_vars PROVE NameInv'
  OBVIOUS
<1>0. /\ wall \in 0..MaxWall /\ mono \in Int /\ idrAt \in Int
      /\ IdrGap \in Nat /\ FrameDelay \in Nat
      /\ files \in [Names -> Statuses]
      /\ \A t \in 0..MaxWall : Stamp[t] \in Names
  BY ConfigAssumption, ConstantTypes DEF IndInv, TypeOK
<1>1. CASE Tick
  <2>1. /\ wall' \in 0..MaxWall /\ wall' > wall
        /\ frame.idr => mono' - idrAt <= FrameDelay
        /\ UNCHANGED <<idrAt, files, frame, vpc>>
    BY <1>0, <1>1, ClockAssumption DEF Tick
  <2> QED
    BY <2>1, NameKept DEF Used
<1>2. CASE StepClock
  <2>1. /\ wall' \in 0..MaxWall /\ wall' >= wall
        /\ UNCHANGED <<idrAt, files, frame, vpc, mono>>
    BY <1>0, <1>2 DEF StepClock, FreshNames
  <2>2. frame.idr => mono' - idrAt <= FrameDelay
    BY <2>1 DEF NameInv
  <2> QED
    BY <1>0, <2>1, <2>2, NameKept DEF Used
<1>3. ASSUME NEW kind \in FrameKinds, NEW ts \in 0..MaxTs, VideoFrame(kind, ts)
      PROVE  NameInv'
  <2>1. UNCHANGED <<files, wall, mono>>
    BY <1>3 DEF VideoFrame
  <2>2. CASE HasIdrSlice(kind)
    <3>1. idrAt' = mono /\ mono - idrAt >= IdrGap
      BY <1>3, <2>2 DEF VideoFrame
    <3>2. ~Used(Stamp[wall])
      BY <1>0, <3>1 DEF NameInv, FreshNames
    <3> QED
      BY <1>0, <2>1, <3>1, <3>2 DEF NameInv, Used
  <2>3. CASE ~HasIdrSlice(kind)
    <3>1. idrAt' = idrAt /\ ~frame'.idr
      BY <1>3, <2>3 DEF VideoFrame, NoFrame
    <3> QED
      BY <2>1, <3>1, NameKept DEF Used
  <2> QED
    BY <2>2, <2>3
<1>4. CASE OpenFails
  <2>1. ~frame'.idr /\ UNCHANGED <<idrAt, clockVars>>
    BY <1>4 DEF OpenFails, VideoReturns, NoFrame
  <2>2. \A n \in Names : Used(n)' => Used(n)
    BY <1>0, <1>4 DEF OpenFails, Used
  <2> QED
    BY <2>1, <2>2, NameKept
<1>5. CASE OpenSucceeds
  <2>1. /\ UNCHANGED <<clockVars, idrAt, frame>> /\ vpc' = "write"
        /\ files' = [files EXCEPT ![Stamp[wall]] = "open"]
        /\ frame.idr
    BY <1>5 DEF OpenSucceeds, BeginOpen, OpenNeeded
  <2>2. \A t \in 0..MaxWall : t # wall => Stamp[t] # Stamp[wall]
    BY <1>0 DEF FreshNames
  <2>3. \A t \in 0..MaxWall : Used(Stamp[t])' => t <= wall'
    BY <1>0, <2>1, <2>2 DEF Used, NameInv
  <2> QED
    BY <2>1, <2>3 DEF NameInv
<1>6. CASE CloseChunk /\ ctx /\ UNCHANGED <<idrAt, clockVars>>
           /\ (frame' = frame \/ frame' = NoFrame)
           /\ (frame'.idr /\ vpc' \in {"lock", "rotate", "open"}
                  => vpc \in {"lock", "rotate", "open"})
  <2>1. openName \in Names /\ files[openName] = "open"
    BY <1>6 DEF IndInv, OpenInv, TypeOK
  <2>2. \A n \in Names : Used(n)' => Used(n)
    BY <1>0, <1>6, <2>1 DEF CloseChunk, Closings, Used
  <2> QED
    BY <1>6, <2>2, NameKept DEF NoFrame
<1>7. CASE UNCHANGED <<files, idrAt, clockVars>>
           /\ (frame' = frame \/ frame' = NoFrame)
           /\ (frame'.idr /\ vpc' \in {"lock", "rotate", "open"}
                  => vpc \in {"lock", "rotate", "open"})
  BY <1>7, NameKept DEF Used, NoFrame
<1>8. CASE Rotate \/ VideoBroken
  <2>1. ctx \/ UNCHANGED fileVars
    BY <1>8 DEF Rotate, RotationDue, VideoBroken, IndInv, OpenInv
  <2> QED
    BY <1>6, <1>7, <1>8, <2>1 DEF Rotate, VideoBroken, VideoReturns
<1>9. CASE Shutdown
  BY <1>6, <1>7, <1>9 DEF Shutdown, CloseCurrentChunk
<1>10. CASE AudioBroken
  <2>1. ctx
    BY <1>10 DEF AudioBroken, IndInv, OpenInv
  <2> QED
    BY <1>6, <1>10, <2>1 DEF AudioBroken, audioUnchanged
<1>11. CASE VideoLock \/ SkipOpen \/ SkipFrame \/ OpenRefused \/ NothingWritten
            \/ VideoWritten \/ LeaveLoop \/ JoinAudio
  BY <1>7, <1>11
     DEF VideoLock, SkipOpen, SkipFrame, OpenRefused, NothingWritten, VideoWritten,
         LeaveLoop, JoinAudio, VideoReturns
<1>12. CASE AudioLock \/ AudioGate \/ AudioWritten \/ AudioExit
            \/ \E ts \in 0..MaxAts : AudioFrame(ts)
  BY <1>7, <1>12
     DEF AudioFrame, AudioLock, AudioGate, AudioWritten, AudioExit, audioUnchanged
<1>13. CASE Signal \/ UNCHANGED vars
  BY <1>7, <1>13 DEF Signal
<1> QED
  BY <1>1, <1>2, <1>3, <1>4, <1>5, <1>8, <1>9, <1>10, <1>11, <1>12, <1>13
     DEF Next, VideoStep, AudioStep, Exited

LEMMA NamesAlways ==
    ASSUME FreshNames
    PROVE  Spec => []NameInv
<1>1. IndInv /\ NameInv /\ [Next]_vars => NameInv'
  BY StepName
<1> QED
  BY <1>1, InitName, Inductive, PTL DEF Spec

\* What closing, and the rest of the recorder's actions, are to the store.
LEMMA CloseFinishes ==
    ASSUME IndInv, ctx, CloseChunk
    PROVE  Store!Finish
<1>1. Closings \subseteq Store!Final
  BY DEF Closings, Store!Final
<1> QED
  BY <1>1 DEF IndInv, OpenInv, CloseChunk, NoMux, Store!Finish

LEMMA StepStore == IndInv /\ NameInv /\ [Next]_vars => [Store!Next]_(Store!vars)
<1> SUFFICES ASSUME IndInv, NameInv, [Next]_vars
             PROVE  Store!Next \/ UNCHANGED <<files, openName, mux.vdts>>
  BY DEF Store!vars
<1>0. Stamp[wall] \in Names
  BY ConstantTypes DEF IndInv, TypeOK
<1>1. CASE UNCHANGED fileVars
  BY <1>1
<1>2. CASE ctx /\ CloseChunk
  BY <1>2, CloseFinishes DEF Store!Next
<1>3. CASE OpenFails
  <2>1. /\ openName = NoName /\ ~Used(Stamp[wall])
        /\ UNCHANGED <<openName, mux>>
    BY <1>3 DEF OpenFails, BeginOpen, OpenNeeded, IndInv, OpenInv, NameInv
  <2>2. \/ files' = files
        \/ files' = [files EXCEPT ![Stamp[wall]] = "stub"]
    BY <1>3 DEF OpenFails
  <2>3. CASE files' = [files EXCEPT ![Stamp[wall]] = "stub"]
    BY <1>0, <2>1, <2>3 DEF Store!Next, Store!Abort, Store!Final, Used
  <2> QED
    BY <2>1, <2>2, <2>3
<1>4. CASE OpenSucceeds
  <2>1. openName = NoName /\ ~Used(Stamp[wall])
    BY <1>4 DEF OpenSucceeds, BeginOpen, OpenNeeded, IndInv, OpenInv, NameInv
  <2>2. Store!Begin(Stamp[wall])
    BY <1>4, <2>1 DEF OpenSucceeds, NoMux, Used, Store!Begin, Store!Final
  <2> QED
    BY <1>0, <2>2 DEF Store!Next
<1>5. CASE VideoWritten
  <2>1. /\ mux'.vdts = RelativeTs /\ UNCHANGED <<files, openName>>
        /\ openName # NoName
    BY <1>5 DEF VideoWritten, IndInv, OpenInv, TypeOK, Muxes
  <2>2. mux'.vdts \in Nat /\ mux'.vdts > mux.vdts
    BY <2>1, RelativeIncreases DEF IndInv, TypeOK, PacketInv
  <2> QED
    BY <2>1, <2>2 DEF Store!Next, Store!AppendVideo
<1>6. CASE AudioWritten
  BY <1>6 DEF AudioWritten, IndInv, TypeOK, Muxes
<1>7. CASE Rotate \/ VideoBroken \/ Shutdown
  BY <1>1, <1>2, <1>7
     DEF Rotate, RotationDue, VideoBroken, Shutdown, CloseCurrentChunk, IndInv, OpenInv
<1>8. CASE AudioStep
  <2>1. CASE AudioBroken
    BY <1>2, <2>1 DEF AudioBroken, IndInv, OpenInv
  <2> QED
    BY <1>1, <1>6, <1>8, <2>1 DEF AudioStep, AudioLock, AudioGate, AudioExit
<1>9. CASE VideoLock \/ SkipOpen \/ SkipFrame \/ OpenRefused \/ NothingWritten
           \/ LeaveLoop \/ JoinAudio
  BY <1>1, <1>9
     DEF VideoLock, SkipOpen, SkipFrame, OpenRefused, NothingWritten, LeaveLoop, JoinAudio
<1> QED
  BY <1>1, <1>3, <1>4, <1>5, <1>7, <1>8, <1>9
     DEF Next, VideoStep, Exited, Tick, StepClock, Signal, VideoFrame, AudioFrame,
         audioUnchanged

\* Whatever the threads, the clock and the library do, the output directory
\* only ever changes as ChunkStore allows: one open chunk, its video timestamps
\* increasing, a closed chunk never touched again.
THEOREM StoreImplemented ==
    ASSUME FreshNames
    PROVE  Spec => ImplementsStore
<1>1. Init => Store!Init
  BY DEF Init, Store!Init, NoMux
<1>2. IndInv /\ NameInv /\ [Next]_vars => [Store!Next]_(Store!vars)
  BY StepStore
<1> QED
  BY <1>1, <1>2, NamesAlways, Inductive, PTL DEF Spec, ImplementsStore, Store!Spec
=============================================================================
