------------------------------- MODULE Daemon -------------------------------
(***************************************************************************)
(* The life of the process: main() (main.cpp) brings up the camera         *)
(* pipeline of the SDK, the recorder and the threads, waits for SIGTERM,   *)
(* and takes everything down again, while the audio, upload, Grafana, HTTP *)
(* and autonight threads go on using what it takes down.                   *)
(*                                                                         *)
(* What the threads do with the things they use is the business of the     *)
(* modules Recorder, Uploader, KeepAlive, Night and Snapshot; here a       *)
(* thread is a loop, and what matters is what it holds in each place.      *)
(***************************************************************************)
EXTENDS Integers, Sequences

CONSTANTS
    Required,       \* features that every configuration considered turns on
    Grace,          \* 15 s: how long a shutdown waits for a network thread
    MaxFaults       \* bound on SDK calls that fail without ending the process

ASSUME DaemonAssumption == Grace \in Nat \ {0} /\ MaxFaults \in Nat

VARIABLES
    enabled,        \* the configuration: which features are on
    up,             \* SDK objects, recorder and TLS state that exist
    mpc,            \* main()
    k,              \* main()'s place within the SDK set-up or teardown
    status,         \* exit status: 1 for an early return
    sig,            \* main.cpp: g_running cleared by SIGTERM
    waited,         \* waited_s
    detached,       \* threads given up by a shutdown
    faults,         \* SDK failures so far
    tpc,            \* each thread
    on,             \* g_running of each thread's module
    serverFd,       \* g_server_fd: none, the open socket, or a closed one's number
    shut            \* the listening socket has been shut down

mainVars == <<mpc, k, status, waited, detached>>
sockVars == <<serverFd, shut>>
vars == <<enabled, up, sig, faults, tpc, on, mainVars, sockVars>>

Features == {"recording", "audio", "grafana", "upload", "http", "autonight"}
Threads  == {"audio", "uploader", "grafana", "http", "autonight"}

\* The threads a shutdown waits for with a time limit.
Bounded == {"uploader", "grafana"}

\* capture_and_encoding(): what each successful call brings up.  Channel 1 of
\* the frame source is off for the sensor the daemon is built for.
Pipeline == <<"isp", "sensor", "sensorOn", "system", "tuning", "fs", "group",
              "h264", "h264Reg", "bound", "stream">>

\* Mutant: the frame source is destroyed before it stops streaming.
TeardownFsFirst == <<"recv", "fs", "bound", "h264Reg", "h264", "jpegReg", "jpeg",
                     "group", "stream", "system", "sensorOn", "sensor", "tuning",
                     "isp">>

\* destory(): what each of its calls takes down, in its order.
Teardown == <<"recv", "stream", "bound", "h264Reg", "h264", "jpegReg", "jpeg",
              "group", "fs", "system", "sensorOn", "sensor", "tuning", "isp">>

Audio    == {"ai", "aiChn", "aenc"}
ChanObjs == {"fs", "group", "h264", "h264Reg", "bound", "stream", "recv",
             "jpeg", "jpegReg", "jpegRecv"}
Objects  == {"isp", "sensor", "sensorOn", "system", "tuning"} \cup ChanObjs
                \cup Audio \cup {"recorder", "tls"}

\* What an object stands on: the calls of the SDK that end the latter ask for
\* the former to be gone (imp_isp.h, imp_framesource.h, imp_encoder.h).
Needs(o) ==
    CASE o = "sensor"   -> {"isp"}
      [] o = "tuning"   -> {"isp", "sensorOn"}
      [] o = "sensorOn" -> {"sensor"}
      [] o = "stream"   -> {"fs", "system", "sensorOn"}
      [] o = "bound"    -> {"fs", "group", "system"}
      [] o = "h264Reg"  -> {"h264", "group", "system"}
      [] o = "jpegReg"  -> {"jpeg", "group", "system"}
      [] o = "recv"     -> {"h264Reg"}
      [] o = "jpegRecv" -> {"jpegReg"}
      [] o = "aiChn"    -> {"ai"}
      [] o \in {"fs", "group", "h264", "jpeg", "ai", "aenc"} -> {"system"}
      [] OTHER -> {}

Init ==
    /\ enabled \in {e \in SUBSET Features : Required \subseteq e}
    /\ up = {} /\ mpc = "sdk" /\ k = 1 /\ status = 0
    /\ sig = FALSE /\ waited = 0 /\ detached = {} /\ faults = 0
    /\ tpc = [t \in Threads |-> "none"]
    /\ on = [t \in Threads |-> FALSE]
    /\ serverFd = "none" /\ shut = FALSE

Alive == mpc # "exit"

SigTerm ==
    /\ Alive /\ ~sig /\ sig' = TRUE
    /\ UNCHANGED <<enabled, up, faults, tpc, on, mainVars, sockVars>>

-----------------------------------------------------------------------------
(* main(): start.                                                          *)

Go(pc) == mpc' = pc /\ UNCHANGED <<enabled, sig, status, waited, detached, sockVars>>

Start(t, pc) == tpc' = [tpc EXCEPT ![t] = pc] /\ on' = [on EXCEPT ![t] = TRUE]

ThreadsUnchanged == UNCHANGED <<tpc, on>>

Fault == faults < MaxFaults /\ faults' = faults + 1

\* return 1 from main(): whatever is up or running ends with the process.
ReturnError ==
    /\ mpc' = "exit" /\ status' = 1
    /\ UNCHANGED <<enabled, k, sig, waited, detached, faults, tpc, on, sockVars>>

SdkUp ==
    /\ mpc = "sdk" /\ k <= Len(Pipeline)
    /\ up' = up \cup {Pipeline[k]} /\ k' = k + 1
    /\ Go("sdk") /\ ThreadsUnchanged /\ UNCHANGED faults

SdkUpFails == mpc = "sdk" /\ k <= Len(Pipeline) /\ UNCHANGED up /\ ReturnError

\* The last steps of capture_and_encoding(): the autonight thread.  Nothing
\* ever clears g_soft_ps_running.
SdkReady ==
    /\ mpc = "sdk" /\ k > Len(Pipeline)
    /\ IF "autonight" \in enabled THEN Start("autonight", "idle") ELSE ThreadsUnchanged
    /\ Go("recorder") /\ UNCHANGED <<up, k, faults>>

InitRecorder ==
    /\ mpc = "recorder"
    /\ up' = IF "recording" \in enabled THEN up \cup {"recorder"} ELSE up
    /\ Go("audio") /\ ThreadsUnchanged /\ UNCHANGED <<k, faults>>

InitRecorderFails ==
    /\ mpc = "recorder" /\ "recording" \in enabled
    /\ UNCHANGED up /\ ReturnError

AudioOn == {"recording", "audio"} \subseteq enabled

StartAudio ==
    /\ mpc = "audio"
    /\ IF AudioOn
       THEN up' = up \cup Audio /\ Start("audio", "loop")
       ELSE UNCHANGED up /\ ThreadsUnchanged
    /\ Go("grafana") /\ UNCHANGED <<k, faults>>

\* audio_capture_start(): the calls that may fail, with what is up by then.
AudioHeld == [SetPubAttr |-> {}, SetChnParam |-> {"ai"}, EnableChn |-> {"ai"},
              CreateChn |-> {"ai", "aiChn"}, pthread_create |-> Audio]

\* What the error path of each takes down again.
AudioUndone == [SetPubAttr |-> {}, SetChnParam |-> {"ai"}, EnableChn |-> {"ai"},
                CreateChn |-> {"ai", "aiChn"}, pthread_create |-> Audio]

StartAudioFails ==
    /\ mpc = "audio" /\ AudioOn
    /\ \E call \in DOMAIN AudioHeld :
          up' = (up \cup AudioHeld[call]) \ AudioUndone[call]
    /\ Go("grafana") /\ ThreadsUnchanged /\ UNCHANGED <<k, faults>>

\* grafana_push_init() and file_uploader_init(): nothing without a URL; TLS set
\* up once for both; a failure costs only the feature.
Feature(t) == IF t = "uploader" THEN "upload" ELSE "grafana"
AfterStart(t) == IF t = "grafana" THEN "uploader" ELSE "jpeg"

StartPusher(t) ==
    /\ mpc = t /\ Feature(t) \in enabled
    /\ up' = up \cup {"tls"} /\ Start(t, "idle")
    /\ Go(AfterStart(t)) /\ UNCHANGED <<k, faults>>

NoPusher(t) ==
    /\ mpc = t
    /\ \/ UNCHANGED up
       \/ Feature(t) \in enabled /\ up' = up \cup {"tls"}   \* no thread
    /\ Go(AfterStart(t)) /\ ThreadsUnchanged /\ UNCHANGED <<k, faults>>

\* sample_jpeg_init(): create and register; without it every snapshot fails.
StartJpeg ==
    /\ mpc = "jpeg"
    /\ IF "http" \in enabled
       THEN \/ up' = up \cup {"jpeg", "jpegReg"} /\ UNCHANGED faults
            \/ up' \in {up, up \cup {"jpeg"}} /\ Fault
       ELSE UNCHANGED <<up, faults>>
    /\ Go("http") /\ ThreadsUnchanged /\ UNCHANGED k

StartHttp ==
    /\ mpc = "http"
    /\ \/ "http" \in enabled /\ Start("http", "new")
       \/ ThreadsUnchanged                 \* off, or no thread
    /\ Go("recv") /\ UNCHANGED <<up, k, faults>>

StartRecv ==
    /\ mpc = "recv" /\ up' = up \cup {"recv"}
    /\ Go("loop") /\ ThreadsUnchanged /\ UNCHANGED <<k, faults>>

StartRecvFails == mpc = "recv" /\ UNCHANGED up /\ ReturnError

\* The capture loop polls for at most 500 ms, then looks at g_running.
LeaveLoop ==
    /\ mpc = "loop" /\ sig
    /\ Go("stop_uploader") /\ ThreadsUnchanged /\ UNCHANGED <<up, k, faults>>

-----------------------------------------------------------------------------
(* main(): shutdown.                                                       *)

Stopping(t) == IF t = "uploader" THEN "stop_uploader" ELSE "stop_grafana"
Waiting(t)  == IF t = "uploader" THEN "wait_uploader" ELSE "wait_grafana"
AfterStop(t) == IF t = "uploader" THEN "stop_grafana" ELSE "stop_audio"

Clear(t) == on' = [on EXCEPT ![t] = FALSE]

\* file_uploader_shutdown() and grafana_push_shutdown().
StopPusher(t) ==
    /\ mpc = Stopping(t)
    /\ mpc' = IF on[t] THEN Waiting(t) ELSE AfterStop(t)
    /\ Clear(t) /\ waited' = 0
    /\ UNCHANGED <<enabled, up, k, status, sig, detached, faults, tpc, sockVars>>

\* Mutant: the wait has no limit.
WaitPusherLong(t) ==
    /\ mpc = Waiting(t)
    /\ \/ tpc[t] = "exited" /\ mpc' = AfterStop(t) /\ UNCHANGED waited
       \/ waited' = waited + 1 /\ UNCHANGED mpc
    /\ ThreadsUnchanged
    /\ UNCHANGED <<enabled, up, k, status, sig, detached, faults, sockVars>>

\* One second of the wait, or its end: pthread_kill(thread, 0) on a thread that
\* is gone but not joined need not fail, so the wait may go on all the same.
WaitPusher(t) ==
    /\ mpc = Waiting(t) /\ waited < Grace
    /\ \/ tpc[t] = "exited" /\ mpc' = AfterStop(t) /\ UNCHANGED waited
       \/ waited' = waited + 1 /\ UNCHANGED mpc
    /\ ThreadsUnchanged
    /\ UNCHANGED <<enabled, up, k, status, sig, detached, faults, sockVars>>

DetachPusher(t) ==
    /\ mpc = Waiting(t) /\ waited >= Grace
    /\ mpc' = AfterStop(t) /\ detached' = detached \cup {t}
    /\ ThreadsUnchanged
    /\ UNCHANGED <<enabled, up, k, status, sig, waited, faults, sockVars>>

\* audio_capture_stop().
StopAudio ==
    /\ mpc = "stop_audio"
    /\ Go(IF tpc["audio"] = "none" THEN "stop_http" ELSE "join_audio")
    /\ Clear("audio") /\ UNCHANGED <<up, k, faults, tpc>>

\* Mutant: the audio channels are destroyed without a pthread_join().
JoinAudioNot ==
    /\ mpc = "join_audio"
    /\ up' = up \ Audio
    /\ Go("stop_http") /\ ThreadsUnchanged /\ UNCHANGED <<k, faults>>


JoinAudio ==
    /\ mpc = "join_audio" /\ tpc["audio"] = "exited"
    /\ up' = up \ Audio
    /\ Go("stop_http") /\ ThreadsUnchanged /\ UNCHANGED <<k, faults>>

\* http_server_stop(): clear the flag, wake accept(), join.
StopHttp ==
    /\ mpc = "stop_http"
    /\ Go(IF on["http"] THEN "wake_http" ELSE "stop_recorder")
    /\ Clear("http") /\ UNCHANGED <<up, k, faults, tpc>>

\* shutdown() of a socket that does not listen yet has no effect.
Listening == tpc["http"] \in {"test", "accept", "request", "snap"}

\* Mutant: http_server_stop() only clears g_running.
WakeHttpNot ==
    /\ mpc = "wake_http"
    /\ mpc' = "join_http" /\ ThreadsUnchanged
    /\ UNCHANGED <<enabled, up, k, status, sig, waited, detached, faults, sockVars>>


WakeHttp ==
    /\ mpc = "wake_http"
    /\ shut' = (shut \/ (serverFd = "open" /\ Listening))
    /\ mpc' = "join_http" /\ ThreadsUnchanged
    /\ UNCHANGED <<enabled, up, k, status, sig, waited, detached, faults, serverFd>>

JoinHttp ==
    /\ mpc = "join_http" /\ tpc["http"] = "exited"
    /\ Go("stop_recorder") /\ ThreadsUnchanged /\ UNCHANGED <<up, k, faults>>

StopRecorder ==
    /\ mpc = "stop_recorder"
    /\ up' = up \ {"recorder"} /\ k' = 1
    /\ Go("destory") /\ ThreadsUnchanged /\ UNCHANGED faults

\* IMP_System_Exit() releases whatever handles are left.
Ends(o) == IF o = "system" THEN {"system"} \cup ChanObjs ELSE {o}

\* The encoder calls that are documented to fail while something stands on o.
Refused(o) ==
    /\ o \in {"h264Reg", "jpegReg", "h264", "jpeg", "group"}
    /\ \E x \in up : o \in Needs(x)

TakeDown ==
    /\ mpc = "destory" /\ k <= Len(Teardown)
    /\ Teardown[k] \in up /\ ~Refused(Teardown[k])
    /\ up' = up \ Ends(Teardown[k]) /\ k' = k + 1
    /\ Go("destory") /\ ThreadsUnchanged /\ UNCHANGED faults

\* encoder_chn_exit() does nothing for a channel that is not registered.
SkipJpeg ==
    /\ mpc = "destory" /\ k <= Len(Teardown)
    /\ Teardown[k] = "jpegReg" /\ "jpegReg" \notin up
    /\ k' = k + 2
    /\ Go("destory") /\ ThreadsUnchanged /\ UNCHANGED <<up, faults>>

\* destory() returns at the first call that fails.  Whether Query() fails for
\* a channel that was never created is up to the SDK.
TakeDownFails ==
    /\ mpc = "destory" /\ k <= Len(Teardown)
    /\ \/ Refused(Teardown[k]) /\ UNCHANGED faults
       \/ Teardown[k] = "jpegReg" /\ "jpeg" \notin up /\ UNCHANGED faults
       \/ Teardown[k] \in up \ {"system"} /\ Fault
    /\ Go("cleanup") /\ ThreadsUnchanged /\ UNCHANGED <<up, k>>

TornDown ==
    /\ mpc = "destory" /\ k > Len(Teardown)
    /\ Go("cleanup") /\ ThreadsUnchanged /\ UNCHANGED <<up, k, faults>>

\* https_client_cleanup() and return 0.
Cleanup ==
    /\ mpc = "cleanup"
    /\ up' = up \ {"tls"}
    /\ Go("exit") /\ ThreadsUnchanged /\ UNCHANGED <<k, faults>>

-----------------------------------------------------------------------------
(* The threads.                                                            *)

Move(t, from, to) ==
    /\ Alive /\ tpc[t] = from /\ tpc' = [tpc EXCEPT ![t] = to]
    /\ UNCHANGED <<enabled, sig, on, mainVars>>

\* audio_capture_thread(): poll and encode a frame, mux it.  Every wait in it
\* is bounded by 500 ms.
AudioStep ==
    /\ \/ Move("audio", "loop", IF on["audio"] THEN "poll" ELSE "exited")
       \/ Move("audio", "poll", "loop")
       \/ Move("audio", "poll", "write")
       \/ Move("audio", "write", "loop")
    /\ UNCHANGED <<up, faults, sockVars>>

\* file_uploader_thread() and grafana_push_thread(): sleep, gather what to
\* send, send it.  https_post() and https_post_chunk() look at g_initialized
\* once, on entry.  A step may take for ever: the network is stuck, or the
\* pacing of the uploader sleeps.
PusherStep(t) ==
    /\ \/ Move(t, "idle", IF ~on[t] THEN "exited" ELSE "collect")
       \/ Move(t, "collect", IF "tls" \in up THEN "post" ELSE "idle")
       \/ Move(t, "post", "idle")
    /\ UNCHANGED <<up, faults, sockVars>>

\* sample_soft_photosensitive_thread().
AutonightStep ==
    /\ \/ Move("autonight", "idle", "poll")
       \/ Move("autonight", "poll", "idle")
    /\ UNCHANGED <<up, faults, sockVars>>

\* http_server_thread(): socket(), then bind() and listen().  When one of those
\* fails the descriptor is closed and its number stays behind.
HttpSocket ==
    /\ \/ Move("http", "new", "exited") /\ UNCHANGED serverFd
       \/ Move("http", "new", "bind") /\ serverFd' = "open"
    /\ UNCHANGED <<up, faults, shut>>

HttpBind ==
    /\ \/ Move("http", "bind", "test") /\ UNCHANGED serverFd
       \/ Move("http", "bind", "exited") /\ serverFd' = "stale"
    /\ UNCHANGED <<up, faults, shut>>

HttpTest ==
    /\ IF on["http"]
       THEN Move("http", "test", "accept") /\ UNCHANGED serverFd
       ELSE Move("http", "test", "exited") /\ serverFd' = "none"
    /\ UNCHANGED <<up, faults, shut>>

\* accept() waits for a client, or fails at once after a shutdown().
HttpClient ==
    ~shut /\ Move("http", "accept", "request") /\ UNCHANGED <<up, faults, sockVars>>

HttpWoken ==
    shut /\ Move("http", "accept", "test") /\ UNCHANGED <<up, faults, sockVars>>

\* handle_request() other than for a snapshot; a client has 5 s for each call.
HttpAnswer ==
    Move("http", "request", "test") /\ UNCHANGED <<up, faults, sockVars>>

\* sample_do_get_jpeg_snap(), between StartRecvPic and StopRecvPic.
HttpSnap ==
    /\ "jpegReg" \in up /\ "jpegRecv" \notin up
    /\ Move("http", "request", "snap")
    /\ up' = up \cup {"jpegRecv"} /\ UNCHANGED <<faults, sockVars>>

\* Mutant: a failed capture returns without StopRecvPic.
HttpSnapEndsEarly ==
    /\ Move("http", "snap", "test")
    /\ up' \in {up \ {"jpegRecv"}, up} /\ UNCHANGED faults
    /\ UNCHANGED sockVars


HttpSnapEnds ==
    /\ Move("http", "snap", "test")
    /\ \/ up' = up \ {"jpegRecv"} /\ UNCHANGED faults
       \/ UNCHANGED up /\ Fault
    /\ UNCHANGED sockVars

\* The server's own steps; that a client comes is not one of them.
HttpStep ==
    \/ HttpSocket \/ HttpBind \/ HttpTest \/ HttpWoken
    \/ HttpAnswer \/ HttpSnap \/ HttpSnapEnds

-----------------------------------------------------------------------------

MainStep ==
    \/ SdkUp \/ SdkUpFails \/ SdkReady
    \/ InitRecorder \/ InitRecorderFails
    \/ StartAudio \/ StartAudioFails
    \/ (\E t \in Bounded : StartPusher(t) \/ NoPusher(t))
    \/ StartJpeg \/ StartHttp \/ StartRecv \/ StartRecvFails \/ LeaveLoop
    \/ (\E t \in Bounded : StopPusher(t) \/ WaitPusher(t) \/ DetachPusher(t))
    \/ StopAudio \/ JoinAudio \/ StopHttp \/ WakeHttp \/ JoinHttp \/ StopRecorder
    \/ TakeDown \/ SkipJpeg \/ TakeDownFails \/ TornDown \/ Cleanup

\* The process is gone, and its threads with it.
Gone == ~Alive /\ UNCHANGED vars

Next ==
    \/ SigTerm \/ MainStep \/ AudioStep \/ HttpStep \/ HttpClient
    \/ (\E t \in Bounded : PusherStep(t)) \/ AutonightStep \/ Gone

Spec == Init /\ [][Next]_vars

\* The scheduler runs main(), the audio and the HTTP thread, whose waits are all
\* bounded but that for a client; nothing is assumed of the network threads.
FairSpec == Spec /\ WF_vars(MainStep) /\ WF_vars(AudioStep) /\ WF_vars(HttpStep)

-----------------------------------------------------------------------------
(* Properties.                                                             *)

TypeOK ==
    /\ enabled \subseteq Features /\ up \subseteq Objects
    /\ mpc \in {"sdk", "recorder", "audio", "grafana", "uploader", "jpeg", "http",
                "recv", "loop", "stop_uploader", "wait_uploader", "stop_grafana",
                "wait_grafana", "stop_audio", "join_audio", "stop_http",
                "wake_http", "join_http", "stop_recorder", "destory", "cleanup",
                "exit"}
    /\ k \in 1..(Len(Teardown) + 1) /\ status \in {0, 1} /\ sig \in BOOLEAN
    /\ waited \in 0..Grace /\ detached \subseteq Bounded /\ faults \in 0..MaxFaults
    /\ tpc \in [Threads -> {"none", "exited", "loop", "poll", "write", "idle",
                            "collect", "post", "new", "bind", "test", "accept",
                            "request", "snap"}]
    /\ on \in [Threads -> BOOLEAN]
    /\ serverFd \in {"none", "open", "stale"} /\ shut \in BOOLEAN

\* What a thread holds in its hands where it is.
InUse(t) ==
    CASE t = "audio" /\ tpc[t] = "poll"        -> {"aiChn", "aenc"}
      [] t = "audio" /\ tpc[t] = "write"       -> {"aenc", "recorder"}
      [] t = "grafana" /\ tpc[t] = "collect"   -> {"tuning", "h264"}
      [] t \in Bounded /\ tpc[t] = "post"      -> {"tls"}
      [] t = "http" /\ tpc[t] = "snap"         -> {"jpeg", "jpegReg", "jpegRecv"}
      [] t = "autonight" /\ tpc[t] = "poll"    -> {"tuning", "h264"}
      [] OTHER -> {}

TearingDown == mpc \in {"destory", "cleanup"}

\* Nothing is taken down under a thread that works with it, in any order of
\* SIGTERM, failures and thread steps; but for the autonight thread, which is
\* never stopped, and a thread that outlived its grace period (below).
NoUseAfterTeardown ==
    Alive => \A t \in Threads :
        \/ TearingDown /\ t \in detached \cup {"autonight"}
        \/ InUse(t) \subseteq up

\* sample_system_exit() disables the sensor before the tuning, against
\* imp_isp.h: what a shutdown leaves standing on nothing (TuningEndsFirst).
LeftBehind(o) ==
    IF o = "tuning" /\ mpc \in {"destory", "cleanup", "exit"} THEN {"sensorOn"} ELSE {}

\* No object of the SDK outlives what it stands on, on the way up, on the way
\* down, and with a snapshot under way; but for the tuning of the image, which
\* loses its sensor in every shutdown.
NothingDangles == \A o \in up : Needs(o) \subseteq up \cup LeftBehind(o)

\* After an orderly exit the recording is closed and the TLS and audio state
\* gone whatever the SDK did; and when its calls did not fail, a camera that
\* serves snapshots has given back everything.  One snapshot that leaves its
\* channel receiving would end the teardown at that channel.
ReleasedOnExit ==
    mpc = "exit" /\ status = 0 =>
        /\ up \cap ({"recorder", "tls"} \cup Audio) = {}
        /\ "http" \in enabled /\ faults = 0 => up = {}

\* SIGTERM ends the process, although accept() may wait for ever, the network
\* threads may never come back, and the signal may come during start-up.
SigtermEndsProcess == sig ~> (mpc = "exit")

\* "the thread dies with the process either way": a thread that was given up is
\* not harmed by the rest of the shutdown.
DetachedIsHarmless == Alive => \A t \in detached : InUse(t) \subseteq up

\* "mirrored so stop() can wake accept()": the descriptor that is shut down is
\* the listening socket.
WakesOwnSocket == mpc = "wake_http" => serverFd # "stale"

\* imp_isp.h: tuning must be disabled before the sensor is.
TuningEndsFirst == "tuning" \in up => "sensorOn" \in up

-----------------------------------------------------------------------------
(* The inductive invariant behind the safety properties, in parts          *)
(* (DaemonProofs proves it).                                               *)

Running(t) == tpc[t] \notin {"none", "exited"}

\* Where main() has stopped or given up a thread.
HttpOver     == {"stop_recorder", "destory", "cleanup"}
AudioOver    == {"stop_http", "wake_http", "join_http"} \cup HttpOver
GrafanaOver  == {"stop_audio", "join_audio"} \cup AudioOver
UploaderOver == {"stop_grafana", "wait_grafana"} \cup GrafanaOver
Over(t) == IF t = "uploader" THEN UploaderOver ELSE GrafanaOver

\* A thread runs from its start to where main() has waited for its end, and
\* until main() begins to wait with its flag set; a network thread that runs
\* on has been given up.
ThreadInv == Alive =>
    /\ mpc = "sdk" => \A t \in Threads : ~Running(t)
    /\ mpc \in {"sdk", "recorder", "audio"} \cup AudioOver => ~Running("audio")
    /\ mpc \in {"recorder", "audio", "grafana", "uploader", "jpeg", "http"} \cup HttpOver
          => ~Running("http")
    /\ Running("http") => on["http"] \/ mpc \in {"wake_http", "join_http"}
    /\ \A t \in Bounded : Running(t) =>
          \/ on[t]
          \/ mpc = Waiting(t)
          \/ mpc \in Over(t) /\ t \in detached
    /\ \A t \in Bounded : mpc \in Over(t) \cup {Waiting(t)} => ~on[t]

\* What is up where main() is.
Base == {Pipeline[j] : j \in 1..Len(Pipeline)}

ObjectInv == Alive =>
    /\ mpc = "sdk" => k <= Len(Pipeline) + 1 /\ up = {Pipeline[j] : j \in 1..(k - 1)}
    /\ mpc \notin {"sdk", "destory", "cleanup"} => Base \subseteq up
    /\ mpc = "destory" => \A j \in 1..(k - 1) : j = 7 \/ Teardown[j] \notin up
    /\ mpc \in {"destory", "cleanup"} => "recorder" \notin up
    /\ mpc \in {"sdk", "recorder", "audio"} \cup AudioOver => up \cap Audio = {}
    /\ mpc \notin {"sdk", "recorder", "destory", "cleanup"} /\ "recording" \in enabled
          => "recorder" \in up
    /\ tpc["audio"] = "none" => up \cap Audio = {}
    /\ Running("audio") => Audio \cup {"recorder"} \subseteq up
    /\ \A t \in Bounded : tpc[t] = "post" => "tls" \in up
    /\ tpc["http"] = "snap" => {"jpeg", "jpegReg", "jpegRecv"} \subseteq up

\* The order that destory() keeps on its way, too.
Stands(o) == IF o = "tuning" THEN {"isp"} ELSE Needs(o)

StandInv == \A o \in up : Stands(o) \subseteq up

\* Without a failure the teardown finds everything it takes down.
Serving == {"recv", "loop", "stop_uploader", "wait_uploader", "stop_recorder"}
               \cup (UploaderOver \ HttpOver)

CleanInv == Alive /\ "http" \in enabled /\ faults = 0 =>
    /\ mpc \in {"http"} \cup Serving => {"jpeg", "jpegReg"} \subseteq up
    /\ mpc \in Serving \ {"recv"} => "recv" \in up
    /\ "jpegRecv" \in up => tpc["http"] = "snap"
    /\ mpc = "destory" => up \ {"tls"} = {Teardown[j] : j \in k..Len(Teardown)}
    /\ mpc = "cleanup" => up \subseteq {"tls"}
=============================================================================
