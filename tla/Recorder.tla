------------------------------ MODULE Recorder ------------------------------
(***************************************************************************)
(* The MKV recorder (mkv_recorder.c) with its two clients: the main        *)
(* capture loop, which feeds video frames and opens, rotates and finally   *)
(* closes chunks, and the audio capture thread, which writes into the same *)
(* AVFormatContext.  g_write_mutex serialises the two.                     *)
(*                                                                         *)
(* A frame is its kind, its encoder timestamp and whether it carries data; *)
(* the muxer (libavformat) is the packets' timestamps it has accepted.     *)
(* Wall-clock time, which the code reads with time(), may step; mono is    *)
(* real elapsed time.                                                      *)
(***************************************************************************)
EXTENDS Integers

CONSTANTS
    ChunkDuration,      \* CHUNK_DURATION, in ticks
    RefreshPeriod,      \* the 30 s between two disk checks, in ticks
    Threshold,          \* disk_usage_threshold
    Readings,           \* what check_disk_usage() may return, -1 on error
    AudioEnabled,       \* [audio] ENABLED
    AudioUnit,          \* microseconds per audio sample
    Stamp,              \* wall second -> file name (localtime + snprintf)
    NoName,             \* no file
    Faults,             \* the library calls that may fail
    ClockSteps,         \* sizes of wall-clock adjustments
    IdrGap,             \* least real time between two IDR frames (the GOP)
    FrameDelay,         \* most real time an IDR frame waits to be written
    StartWall, MaxWall, MaxTime,    \* bounds on the clocks
    MaxTs, MaxAts,      \* bounds on video and audio encoder timestamps
    MaxRel              \* bound on the timestamps of one chunk

FaultKinds == {"context", "video stream", "audio stream", "avio", "header",
               "params", "realloc", "write", "trailer"}

ASSUME ConfigAssumption ==
    /\ ChunkDuration \in Nat /\ RefreshPeriod \in Nat \ {0} /\ Threshold \in Nat
    /\ Readings \subseteq Int
    /\ AudioEnabled \in BOOLEAN
    /\ AudioUnit \in Nat \ {0}
    /\ Faults \subseteq FaultKinds
    /\ ClockSteps \subseteq Int
    /\ IdrGap \in Nat /\ FrameDelay \in Nat
    /\ MaxTs \in Nat /\ MaxAts \in Nat /\ MaxRel \in Nat

ASSUME ClockAssumption ==
    /\ StartWall \in Nat /\ MaxWall \in Nat /\ MaxTime \in Nat
    /\ StartWall <= MaxWall
    /\ DOMAIN Stamp = 0..MaxWall

Names == {Stamp[t] : t \in 0..MaxWall}

ASSUME NoNameAssumption == NoName \notin Names

VARIABLES
    running,        \* main.cpp g_running
    vpc, frame,     \* the main thread and the frame it is writing
    arunning,       \* audio_capture.cpp g_running
    apc, ats,       \* the audio thread and the timestamp of its frame
    lock,           \* g_write_mutex: who holds it
    ctx,            \* g_fmt_ctx # NULL
    vstream,        \* g_video_stream: NULL, of the live context, or freed
    astream,        \* g_audio_stream
    params,         \* g_sps_data and g_pps_data are allocated
    gotExtradata,   \* g_got_extradata
    chunkStart,     \* g_chunk_start_time
    firstPts,       \* g_first_pts
    lastRel,        \* g_last_relative_ts
    frameCount,     \* g_frame_count
    cachedUsage,    \* g_cached_disk_usage
    lastCheck,      \* g_last_disk_check
    wall, mono,     \* time(NULL), and real time
    files,          \* the output directory
    openName,       \* the file behind g_fmt_ctx->pb
    mux,            \* what libavformat has accepted for the open chunk
    openedAt, readAt, idrAt     \* history: real time of the last open, disk
                                \* reading and IDR frame

clockVars == <<wall, mono>>
chunkVars == <<ctx, vstream, astream, chunkStart, firstPts, lastRel, frameCount>>
fileVars  == <<files, openName, mux>>
diskVars  == <<cachedUsage, lastCheck, readAt>>
paramVars == <<params, gotExtradata>>
audioVars == <<arunning, apc, ats>>
vars == <<running, vpc, frame, lock, openedAt, idrAt,
          clockVars, chunkVars, fileVars, diskVars, paramVars, audioVars>>

-----------------------------------------------------------------------------
(* Frames.  The encoder delivers an IDR access unit as SPS, PPS, IDR slice; *)
(* inspect_frame() also copes with a bare IDR slice and bare parameters.    *)

FrameKinds == {"idr", "bare idr", "params", "delta", "empty"}

LeadsWithSps(k) == k \in {"idr", "params"}
HasIdrSlice(k)  == k \in {"idr", "bare idr"}

NoFrame == [idr |-> FALSE, ts |-> 0, empty |-> TRUE]
Frames  == [idr : BOOLEAN, ts : 0..MaxTs, empty : BOOLEAN]

NoMux == [vdts |-> -1, first |-> "none", base |-> -1, audio |-> FALSE, adts |-> 0]

Muxes == [vdts : Int, first : {"none", "key", "delta"}, base : Int,
          audio : BOOLEAN, adts : Int]

RescaleWrongBase(us) == us \div (2 * AudioUnit)

\* av_rescale_q() from microseconds to samples, rounding to nearest.
Rescale(us) == (us + AudioUnit \div 2) \div AudioUnit

Streams == {"NULL", "live", "freed"}

\* A stub has no header; a file that was cut was closed without its trailer.
Statuses == {"absent", "open", "finished", "cut", "stub"}

Init ==
    /\ running = TRUE
    /\ vpc = "poll" /\ frame = NoFrame
    \* A failed audio_capture_start() is not fatal.
    /\ arunning \in BOOLEAN /\ (arunning => AudioEnabled)
    /\ apc = IF arunning THEN "poll" ELSE "exited"
    /\ ats = 0
    /\ lock = "free"
    /\ ctx = FALSE /\ vstream = "NULL" /\ astream = "NULL"
    /\ params = FALSE /\ gotExtradata = FALSE
    /\ chunkStart = 0 /\ firstPts = -1 /\ lastRel = -1 /\ frameCount = 0
    /\ cachedUsage = 0 /\ lastCheck = 0
    /\ wall = StartWall /\ mono = 0
    /\ files = [n \in Names |-> "absent"]
    /\ openName = NoName /\ mux = NoMux
    /\ openedAt = 0 /\ readAt = -RefreshPeriod /\ idrAt = -IdrGap

-----------------------------------------------------------------------------
(* Time, and the signal that ends the main loop.                           *)

Tick ==
    /\ mono < MaxTime /\ wall < MaxWall
    /\ frame.idr => mono - idrAt < FrameDelay
    /\ mono' = mono + 1 /\ wall' = wall + 1
    /\ UNCHANGED <<running, vpc, frame, lock, openedAt, idrAt, chunkVars,
                   fileVars, diskVars, paramVars, audioVars>>

\* settimeofday() by an NTP client or by hand.
StepClock ==
    /\ \E d \in ClockSteps : wall + d \in 0..MaxWall /\ wall' = wall + d
    /\ UNCHANGED <<running, vpc, frame, lock, openedAt, idrAt, mono, chunkVars,
                   fileVars, diskVars, paramVars, audioVars>>

Signal ==
    /\ running
    /\ running' = FALSE
    /\ UNCHANGED <<vpc, frame, lock, openedAt, idrAt, clockVars, chunkVars,
                   fileVars, diskVars, paramVars, audioVars>>

-----------------------------------------------------------------------------
(* close_current_chunk() and the resets it shares with open_new_chunk().   *)

ResetOriginKeepsPts == firstPts' = firstPts /\ lastRel' = -1
ResetOriginKeepsRel == firstPts' = -1 /\ lastRel' = lastRel

ResetOrigin ==
    /\ firstPts' = -1
    /\ lastRel' = -1

\* The results of the flush and of av_write_trailer() are not looked at.
Closings == {"finished"} \cup (IF "trailer" \in Faults THEN {"cut"} ELSE {})

CloseChunk ==
    /\ ctx' = FALSE /\ vstream' = "NULL" /\ astream' = "NULL"
    /\ ResetOrigin
    /\ \E s \in Closings : files' = [files EXCEPT ![openName] = s]
    /\ openName' = NoName /\ mux' = NoMux
    /\ UNCHANGED <<chunkStart, frameCount>>

CloseCurrentChunkForgotten == UNCHANGED <<chunkVars, fileVars>>

CloseCurrentChunk ==
    \/ ctx /\ CloseChunk
    \/ ~ctx /\ UNCHANGED <<chunkVars, fileVars>>

-----------------------------------------------------------------------------
(* The main thread: mkv_recorder_write_frame().                            *)

\* IMP_Encoder_GetStream() returned a frame; the part before the lock.  Once
\* the parameter sets are cached only a frame that leads with an SPS is
\* inspected, every other one is taken for a non-IDR frame.
VideoFrame(k, ts) ==
    LET inspected == ~gotExtradata \/ k = "empty" \/ LeadsWithSps(k)
    IN
    /\ vpc = "poll" /\ running
    /\ lastRel < MaxRel
    /\ HasIdrSlice(k) => mono - idrAt >= IdrGap
    /\ idrAt' = IF HasIdrSlice(k) THEN mono ELSE idrAt
    /\ \/ LeadsWithSps(k) /\ params' = TRUE
       \/ LeadsWithSps(k) /\ "params" \in Faults /\ params' = FALSE
       \/ ~LeadsWithSps(k) /\ params' = params
    /\ gotExtradata' = (gotExtradata \/ params')
    /\ frame' = IF gotExtradata'
                THEN [idr |-> inspected /\ HasIdrSlice(k), ts |-> ts,
                      empty |-> k = "empty"]
                ELSE NoFrame
    /\ vpc' = IF gotExtradata' THEN "lock" ELSE "poll"
    /\ UNCHANGED <<running, lock, openedAt, clockVars, chunkVars, fileVars,
                   diskVars, audioVars>>

VideoLockMissing ==
    /\ vpc = "lock"
    /\ vpc' = "rotate"
    /\ UNCHANGED <<running, frame, lock, openedAt, idrAt, clockVars, chunkVars,
                   fileVars, diskVars, paramVars, audioVars>>

VideoLock ==
    /\ vpc = "lock" /\ lock = "free"
    /\ lock' = "video" /\ vpc' = "rotate"
    /\ UNCHANGED <<running, frame, openedAt, idrAt, clockVars, chunkVars,
                   fileVars, diskVars, paramVars, audioVars>>

\* pthread_mutex_unlock() and return to the capture loop.
VideoReturns ==
    /\ lock' = "free" /\ vpc' = "poll" /\ frame' = NoFrame
    /\ UNCHANGED <<running, idrAt, clockVars, paramVars, audioVars>>

RotationDueLate == ctx /\ frame.idr /\ wall - chunkStart > ChunkDuration

RotationDue == ctx /\ frame.idr /\ wall - chunkStart >= ChunkDuration

Rotate ==
    /\ vpc = "rotate"
    /\ vpc' = "open"
    /\ \/ RotationDue /\ CloseChunk
       \/ ~RotationDue /\ UNCHANGED <<chunkVars, fileVars>>
    /\ UNCHANGED <<running, frame, lock, openedAt, idrAt, clockVars, diskVars,
                   paramVars, audioVars>>

OpenNeededAnyFrame == ~ctx
OpenNeededTwice == frame.idr

OpenNeeded == ~ctx /\ frame.idr

SkipOpen ==
    /\ vpc = "open" /\ ctx
    /\ vpc' = "write"
    /\ UNCHANGED <<running, frame, lock, openedAt, idrAt, clockVars, chunkVars,
                   fileVars, diskVars, paramVars, audioVars>>

SkipFrame ==
    /\ vpc = "open" /\ ~ctx /\ ~frame.idr
    /\ VideoReturns
    /\ UNCHANGED <<openedAt, chunkVars, fileVars, diskVars>>

-----------------------------------------------------------------------------
(* open_new_chunk().                                                       *)

RefreshDiskSlides ==
    \/ /\ wall - lastCheck >= RefreshPeriod
       /\ cachedUsage' \in Readings
       /\ lastCheck' = wall /\ readAt' = mono
    \/ /\ wall - lastCheck < RefreshPeriod
       /\ lastCheck' = wall
       /\ UNCHANGED <<cachedUsage, readAt>>

RefreshDisk ==
    \/ /\ wall - lastCheck >= RefreshPeriod
       /\ cachedUsage' \in Readings
       /\ lastCheck' = wall /\ readAt' = mono
    \/ /\ wall - lastCheck < RefreshPeriod
       /\ UNCHANGED diskVars

DiskFull(usage) == usage >= 0 /\ usage >= Threshold

BeginOpenSentinel ==
    /\ vpc = "open" /\ OpenNeeded
    /\ ResetOrigin
    /\ frameCount' = -1
    /\ RefreshDisk

BeginOpen ==
    /\ vpc = "open" /\ OpenNeeded
    /\ ResetOrigin
    /\ frameCount' = 0
    /\ RefreshDisk

OpenRefused ==
    /\ BeginOpen
    /\ DiskFull(cachedUsage')
    /\ VideoReturns
    /\ UNCHANGED <<openedAt, ctx, vstream, astream, chunkStart, fileVars>>

\* The context is freed on every failure, but only a failed audio stream also
\* clears the pointer to the video stream, and nothing clears both when the
\* file cannot be opened or its header not written.
StreamsAfter(f) ==
    CASE f = "context"      -> <<vstream, astream>>
      [] f = "video stream" -> <<"NULL", astream>>
      [] f = "audio stream" -> <<"NULL", "NULL">>
      [] OTHER              -> <<"freed", IF AudioEnabled THEN "freed" ELSE astream>>

OpenFails ==
    /\ BeginOpen
    /\ ~DiskFull(cachedUsage')
    /\ \E f \in Faults \cap {"context", "video stream", "audio stream",
                             "avio", "header"} :
          /\ f = "audio stream" => AudioEnabled
          /\ vstream' = StreamsAfter(f)[1]
          /\ astream' = StreamsAfter(f)[2]
          /\ files' = IF f = "header"
                      THEN [files EXCEPT ![Stamp[wall]] = "stub"]
                      ELSE files
    /\ VideoReturns
    /\ UNCHANGED <<openedAt, ctx, chunkStart, openName, mux>>

OpenSucceeds ==
    /\ BeginOpen
    /\ ~DiskFull(cachedUsage')
    /\ ctx' = TRUE
    /\ vstream' = "live"
    /\ astream' = IF AudioEnabled THEN "live" ELSE astream
    /\ files' = [files EXCEPT ![Stamp[wall]] = "open"]
    /\ openName' = Stamp[wall]
    /\ mux' = NoMux
    /\ chunkStart' = wall
    /\ openedAt' = mono
    /\ vpc' = "write"
    /\ UNCHANGED <<running, frame, lock, idrAt, clockVars, paramVars, audioVars>>

-----------------------------------------------------------------------------
(* The write itself.                                                       *)

Origin == IF firstPts < 0 THEN frame.ts ELSE firstPts

RelativeTsRepeats ==
    IF frame.ts - Origin < lastRel THEN lastRel + 1 ELSE frame.ts - Origin

RelativeTs ==
    IF frame.ts - Origin <= lastRel THEN lastRel + 1 ELSE frame.ts - Origin

\* libavformat rejects a timestamp that does not increase.
VideoAccepted == RelativeTs > mux.vdts

\* Nothing to write, or no memory for it: the chunk stays open.
NothingWritten ==
    /\ vpc = "write"
    /\ frame.empty \/ "realloc" \in Faults
    /\ VideoReturns
    /\ UNCHANGED <<openedAt, chunkVars, fileVars, diskVars>>

VideoWritten ==
    /\ vpc = "write" /\ ~frame.empty
    /\ VideoAccepted
    /\ firstPts' = Origin
    /\ lastRel' = RelativeTs
    /\ frameCount' = frameCount + 1
    /\ mux' = [mux EXCEPT !.vdts = RelativeTs,
                          !.first = IF @ # "none" THEN @
                                    ELSE IF frame.idr THEN "key" ELSE "delta",
                          !.base = IF mux.first = "none" THEN frame.ts ELSE @]
    /\ VideoReturns
    /\ UNCHANGED <<openedAt, ctx, vstream, astream, chunkStart, files, openName,
                   diskVars>>

VideoBroken ==
    /\ vpc = "write" /\ ~frame.empty
    /\ ~VideoAccepted \/ "write" \in Faults
    /\ CloseChunk
    /\ VideoReturns
    /\ UNCHANGED <<openedAt, diskVars>>

-----------------------------------------------------------------------------
(* Shutdown, from main.cpp: stop and join the audio thread, then            *)
(* mkv_recorder_shutdown(), which closes the chunk without the mutex.       *)

LeaveLoopSilently ==
    /\ vpc = "poll" /\ ~running
    /\ vpc' = "join"
    /\ UNCHANGED <<running, frame, lock, openedAt, idrAt, clockVars, chunkVars,
                   fileVars, diskVars, paramVars, audioVars>>

LeaveLoop ==
    /\ vpc = "poll" /\ ~running
    /\ vpc' = "join"
    /\ arunning' = FALSE
    /\ UNCHANGED <<running, frame, lock, openedAt, idrAt, clockVars, chunkVars,
                   fileVars, diskVars, paramVars, apc, ats>>

JoinAudioDetached ==
    /\ vpc = "join"
    /\ vpc' = "shutdown"
    /\ UNCHANGED <<running, frame, lock, openedAt, idrAt, clockVars, chunkVars,
                   fileVars, diskVars, paramVars, audioVars>>

JoinAudio ==
    /\ vpc = "join" /\ apc = "exited"
    /\ vpc' = "shutdown"
    /\ UNCHANGED <<running, frame, lock, openedAt, idrAt, clockVars, chunkVars,
                   fileVars, diskVars, paramVars, audioVars>>

Shutdown ==
    /\ vpc = "shutdown"
    /\ CloseCurrentChunk
    /\ params' = FALSE /\ gotExtradata' = FALSE
    /\ vpc' = "done"
    /\ UNCHANGED <<running, frame, lock, openedAt, idrAt, clockVars, diskVars,
                   audioVars>>

-----------------------------------------------------------------------------
(* The audio thread: audio_capture_thread() and                             *)
(* mkv_recorder_write_audio_frame().                                        *)

audioUnchanged == <<running, vpc, frame, openedAt, idrAt, clockVars, diskVars,
                    paramVars, arunning>>

\* The audio clock advances by at least one sample from frame to frame.
AudioFrame(ts) ==
    /\ apc = "poll" /\ arunning
    /\ ts >= ats + AudioUnit
    /\ ats' = ts /\ apc' = "lock"
    /\ UNCHANGED <<audioUnchanged, lock, chunkVars, fileVars>>

AudioLock ==
    /\ apc = "lock" /\ lock = "free"
    /\ lock' = "audio" /\ apc' = "gate"
    /\ UNCHANGED <<audioUnchanged, ats, chunkVars, fileVars>>

AudioMayWriteUngated == ctx /\ astream # "NULL"

AudioMayWrite == ctx /\ astream # "NULL" /\ firstPts >= 0

AudioGate ==
    /\ apc = "gate"
    /\ \/ AudioMayWrite /\ apc' = "mux" /\ lock' = lock
       \/ ~AudioMayWrite /\ apc' = "poll" /\ lock' = "free"
    /\ UNCHANGED <<audioUnchanged, ats, chunkVars, fileVars>>

AudioDts == Rescale(ats - firstPts)

AudioAccepted == mux.audio => AudioDts > mux.adts

AudioWritten ==
    /\ apc = "mux"
    /\ AudioAccepted
    /\ mux' = [mux EXCEPT !.audio = TRUE, !.adts = AudioDts]
    /\ apc' = "poll" /\ lock' = "free"
    /\ UNCHANGED <<audioUnchanged, ats, chunkVars, files, openName>>

AudioBroken ==
    /\ apc = "mux"
    /\ ~AudioAccepted \/ "write" \in Faults
    /\ CloseChunk
    /\ apc' = "poll" /\ lock' = "free"
    /\ UNCHANGED <<audioUnchanged, ats>>

AudioExit ==
    /\ apc = "poll" /\ ~arunning
    /\ apc' = "exited"
    /\ UNCHANGED <<audioUnchanged, ats, lock, chunkVars, fileVars>>

-----------------------------------------------------------------------------
\* The process has exited; only real time goes on.
Exited == vpc = "done" /\ UNCHANGED vars

VideoStep ==
    \/ VideoLock \/ Rotate \/ SkipOpen \/ SkipFrame
    \/ OpenRefused \/ OpenFails \/ OpenSucceeds
    \/ NothingWritten \/ VideoWritten \/ VideoBroken
    \/ LeaveLoop \/ JoinAudio \/ Shutdown

AudioStep == AudioLock \/ AudioGate \/ AudioWritten \/ AudioBroken \/ AudioExit

Next ==
    \/ Tick \/ StepClock \/ Signal
    \/ \E k \in FrameKinds, ts \in 0..MaxTs : VideoFrame(k, ts)
    \/ \E ts \in 0..MaxAts : AudioFrame(ts)
    \/ VideoStep \/ AudioStep
    \/ Exited

\* Each thread is scheduled whenever it can run.  The mutex is not fair, but
\* both threads hold it only for one frame and sleep between frames, so
\* neither waits for it for ever: strong fairness on taking it.
Fairness ==
    /\ WF_vars(VideoStep) /\ SF_vars(VideoLock)
    /\ WF_vars(AudioStep) /\ SF_vars(AudioLock)

Spec == Init /\ [][Next]_vars
FairSpec == Spec /\ Fairness

-----------------------------------------------------------------------------
(* Properties.                                                             *)

TypeOK ==
    /\ running \in BOOLEAN /\ arunning \in BOOLEAN
    /\ vpc \in {"poll", "lock", "rotate", "open", "write", "join", "shutdown", "done"}
    /\ frame \in Frames
    /\ apc \in {"poll", "lock", "gate", "mux", "exited"}
    /\ ats \in 0..MaxAts
    /\ lock \in {"free", "video", "audio"}
    /\ ctx \in BOOLEAN /\ vstream \in Streams /\ astream \in Streams
    /\ params \in BOOLEAN /\ gotExtradata \in BOOLEAN
    /\ chunkStart \in 0..MaxWall
    /\ firstPts \in -1..MaxTs /\ lastRel \in Int /\ frameCount \in Nat
    /\ cachedUsage \in Int /\ lastCheck \in 0..MaxWall
    /\ wall \in 0..MaxWall /\ mono \in 0..MaxTime
    /\ files \in [Names -> Statuses]
    /\ openName \in Names \cup {NoName}
    /\ mux \in Muxes
    /\ openedAt \in 0..MaxTime /\ readAt \in Int /\ idrAt \in Int

\* A thread that is about to hand a packet to libavformat has an open context,
\* streams that belong to it, and (audio) an origin for its timestamps -- also
\* after failed opens that leave freed streams behind and after the other
\* thread closed the chunk.
NoUseAfterFree ==
    /\ vpc = "write" => ctx /\ vstream = "live"
    /\ apc = "mux" => ctx /\ astream = "live" /\ firstPts >= 0

\* mkv_recorder_shutdown() takes no mutex: nobody is in the critical section,
\* or can still enter it, while it closes the chunk.
ShutdownAlone ==
    vpc \in {"shutdown", "done"} => lock = "free" /\ apc = "exited"

\* The guard at line 414 of mkv_recorder.c does its work: whatever timestamps
\* the encoder delivers, no video packet is rejected for its timestamp.
VideoNeverRejected == vpc = "write" /\ ~frame.empty => VideoAccepted

\* With an audio clock that moves a sample or more per frame, no audio packet
\* is rejected for its timestamp either, whatever the video thread rotates in
\* between: the origin cannot change inside a chunk.
AudioNeverRejected == apc = "mux" => AudioAccepted

\* g_first_pts: "chunk origin: first video IDR PTS (us), shared by audio".
\* Timestamps of both tracks count from the first packet of this very chunk,
\* never from one of an earlier chunk or from an audio packet.
OriginIsFirstPacket == mux.first # "none" => mux.base = firstPts

\* ... and that first packet is an IDR frame, so the chunk can be decoded.
OriginIsIdr == mux.first # "delta"

\* The recorder is video-gated: no audio in a chunk without a video packet.
AudioAfterVideo == mux.audio => mux.first # "none"

\* g_frame_count and g_last_relative_ts, which grafana_push.c and the next
\* write rely on, agree with what the open file contains.
CountersMatchFile ==
    ctx => /\ lastRel = mux.vdts
           /\ (frameCount = 0) <=> (mux.first = "none")

\* A file with a header that has not been through av_write_trailer() is that of
\* the open context, whatever write or open failed before and in which thread;
\* and an orderly exit leaves none.
ChunksClosed ==
    \A n \in Names : files[n] = "open" => ctx /\ n = openName /\ vpc # "done"

\* After an orderly exit every file with a header has its trailer.  The code
\* ensures that only as long as no trailer fails.
TrailersWritten ==
    vpc = "done" => \A n \in Names : files[n] \notin {"open", "cut"}

\* "Cached -- refresh every 30s": a chunk is opened on a disk reading taken
\* less than RefreshPeriod of real time ago, and one below the threshold.
FreshDiskReading ==
    [][~ctx /\ ctx' => /\ mono - readAt' < RefreshPeriod
                       /\ ~DiskFull(cachedUsage')]_vars

\* "Use monotonic clock": an IDR frame never leaves a chunk open that has
\* lasted ChunkDuration or more of real time.
RotatesOnTime ==
    [][vpc = "rotate" /\ vpc' = "open" /\ frame.idr /\ ctx'
         => mono - openedAt < ChunkDuration]_vars

\* SIGTERM ends the process, wherever the two threads are.
ShutdownCompletes == ~running ~> vpc = "done"

-----------------------------------------------------------------------------
(* The inductive invariant behind the safety properties, in parts           *)
(* (RecorderProofs proves it).                                              *)

InVideoSection == vpc \in {"rotate", "open", "write"}
InAudioSection == apc \in {"gate", "mux"}

\* Who holds the mutex is in its critical section, and nobody else is.
SectionInv ==
    /\ lock = "video" <=> InVideoSection
    /\ lock = "audio" <=> InAudioSection
    /\ vpc \in {"shutdown", "done"} => apc = "exited"

\* The context, its streams and its file come and go together.
OpenInv ==
    /\ AudioEnabled \/ apc = "exited"
    /\ ctx => /\ openName # NoName /\ files[openName] = "open"
              /\ vstream = "live"
              /\ AudioEnabled => astream = "live"
    /\ ~ctx => openName = NoName /\ mux = NoMux /\ firstPts = -1 /\ lastRel = -1
    /\ vpc = "write" => ctx
    /\ apc = "mux" => ctx /\ firstPts >= 0
    /\ vpc = "done" => ~ctx
    /\ \A n \in Names : files[n] = "open" => n = openName

\* Without a failed trailer no file lacks one for good.
NothingCut == \A n \in Names : files[n] # "cut"

\* The recorder's counters mirror what the muxer has accepted.
PacketInv ==
    /\ lastRel = mux.vdts /\ lastRel >= -1
    /\ mux.first = "none" <=> firstPts < 0
    /\ mux.first # "none" => mux.base = firstPts
    /\ mux.audio => mux.first # "none"
    /\ ctx => (frameCount = 0 <=> mux.first = "none")

\* The audio frame in flight lies after the last one in the chunk.
AudioInv ==
    mux.audio => IF apc \in {"lock", "gate", "mux"}
                 THEN mux.adts < AudioDts
                 ELSE mux.adts <= AudioDts

\* Without a failed allocation, an open chunk lacks a packet only while the
\* IDR frame that opened it is being written.
KeyInv ==
    /\ frame.idr => ~frame.empty
    /\ mux.first # "delta"
    /\ ctx /\ mux.first = "none" => vpc = "write" /\ frame.idr

\* While the clock is only ever set forwards, the times the code computes with
\* it are never shorter than the real ones: that since the disk was read (at
\* the start of the process, never), and that since the chunk was opened.
ReadInv == mono - readAt <= wall - lastCheck
AgeInv  == ctx => mono - openedAt <= wall - chunkStart

Used(n) == files[n] \in {"open", "finished", "cut"}

\* ... and while an IDR frame waits less than a GOP, the name of a new chunk is
\* a new name: no chunk is called after a later second, and one called after
\* this second came with the latest IDR frame.
NameInv ==
    /\ \A t \in 0..MaxWall : Used(Stamp[t]) => t <= wall
    /\ Used(Stamp[wall]) \/ frame.idr => mono - idrAt <= FrameDelay
    /\ frame.idr /\ vpc \in {"lock", "rotate", "open"} => ~Used(Stamp[wall])

Store == INSTANCE ChunkStore WITH
            store <- files, current <- openName, vlast <- mux.vdts

\* The recorder implements ChunkStore.
ImplementsStore == Store!Spec
=============================================================================
