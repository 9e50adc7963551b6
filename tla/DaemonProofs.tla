---------------------------- MODULE DaemonProofs -----------------------------
(***************************************************************************)
(* Theorems about Daemon.tla, for every value of its constants.            *)
(***************************************************************************)
EXTENDS Daemon, TLAPS

USE DEF mainVars, sockVars, vars

Pcs == {"sdk", "recorder", "audio", "grafana", "uploader", "jpeg", "http",
        "recv", "loop", "stop_uploader", "wait_uploader", "stop_grafana",
        "wait_grafana", "stop_audio", "join_audio", "stop_http",
        "wake_http", "join_http", "stop_recorder", "destory", "cleanup",
        "exit"}
Places == {"none", "exited", "loop", "poll", "write", "idle", "collect", "post",
           "new", "bind", "test", "accept", "request", "snap"}

LEMMA PipelineObjects ==
    /\ Len(Pipeline) = 11
    /\ \A j \in 1..11 : Pipeline[j] \in Objects \ (Audio \cup {"recorder", "tls", "recv",
                                                  "jpeg", "jpegReg", "jpegRecv"})
<1>1. Len(Pipeline) = 11
  BY DEF Pipeline
<1>2. ASSUME NEW j \in 1..11
      PROVE  Pipeline[j] \in Objects \ (Audio \cup {"recorder", "tls", "recv",
                                        "jpeg", "jpegReg", "jpegRecv"})
  <2>1. j \in {1, 2, 3, 4, 5, 6, 7, 8, 9, 10, 11}
    OBVIOUS
  <2> QED
    BY <2>1 DEF Pipeline, Objects, ChanObjs, Audio
<1> QED
  BY <1>1, <1>2

LEMMA TeardownObjects ==
    Len(Teardown) = 14 /\ \A j \in 1..14 : Teardown[j] \in Objects
<1>1. Len(Teardown) = 14
  BY DEF Teardown
<1>2. ASSUME NEW j \in 1..14 PROVE Teardown[j] \in Objects
  <2>1. j \in {1, 2, 3, 4, 5, 6, 7, 8, 9, 10, 11, 12, 13, 14}
    OBVIOUS
  <2> QED
    BY <2>1 DEF Teardown, Objects, ChanObjs
<1> QED
  BY <1>1, <1>2

LEMMA StartTypes ==
    ASSUME TypeOK, NEW t \in Threads, NEW pc \in Places, Start(t, pc)
    PROVE  /\ tpc' \in [Threads -> Places]
           /\ on' \in [Threads -> BOOLEAN]
<1>1. tpc' \in [Threads -> Places]
  BY DEF TypeOK, Start, Places
<1>2. on' \in [Threads -> BOOLEAN]
  <2>1. on \in [Threads -> BOOLEAN] /\ on' = [on EXCEPT ![t] = TRUE]
    BY DEF TypeOK, Start
  <2>2. TRUE \in BOOLEAN
    BY Zenon
  <2> QED
    BY <2>1, <2>2
<1> QED
  BY <1>1, <1>2

LEMMA ClearTypes ==
    ASSUME TypeOK, NEW t, Clear(t)
    PROVE  on' \in [Threads -> BOOLEAN]
<1>1. on \in [Threads -> BOOLEAN] /\ on' = [on EXCEPT ![t] = FALSE]
  BY DEF TypeOK, Clear
<1>2. FALSE \in BOOLEAN
  BY Zenon
<1> QED
  BY <1>1, <1>2

LEMMA MoveTypes ==
    ASSUME TypeOK, NEW t \in Threads, NEW from, NEW to \in Places, Move(t, from, to)
    PROVE  /\ tpc' \in [Threads -> Places]
           /\ UNCHANGED <<enabled, sig, on, mpc, k, status, waited, detached>>
BY DEF TypeOK, Move, Places

\* The threads move from one place to another, and only what they hold and the
\* HTTP server's socket change with it.
ThreadStep ==
    AudioStep \/ HttpStep \/ HttpClient \/ (\E t \in Bounded : PusherStep(t)) \/ AutonightStep

LEMMA ThreadTypes == TypeOK /\ ThreadStep => TypeOK'
<1> SUFFICES ASSUME TypeOK, ThreadStep PROVE TypeOK'
  OBVIOUS
<1> USE DEF Places
<1>1. CASE AudioStep
  <2>1. PICK from, to \in Places : Move("audio", from, to)
    BY <1>1 DEF AudioStep
  <2> QED
    BY <1>1, <2>1, MoveTypes DEF TypeOK, AudioStep, Threads
<1>2. ASSUME NEW t \in Bounded, PusherStep(t) PROVE TypeOK'
  <2>1. PICK from, to \in Places : Move(t, from, to)
    BY <1>2 DEF PusherStep
  <2>2. t \in Threads
    BY DEF Bounded, Threads
  <2>3. UNCHANGED <<up, faults, serverFd, shut>>
    BY <1>2 DEF PusherStep
  <2> QED
    BY <2>1, <2>2, <2>3, MoveTypes DEF TypeOK
<1>3. CASE AutonightStep
  <2>1. PICK from, to \in Places : Move("autonight", from, to)
    BY <1>3 DEF AutonightStep
  <2> QED
    BY <1>3, <2>1, MoveTypes DEF TypeOK, AutonightStep, Threads
<1>4. CASE HttpStep \/ HttpClient
  <2>1. PICK from, to \in Places : Move("http", from, to)
    BY <1>4 DEF HttpStep, HttpClient, HttpSocket, HttpBind, HttpTest, HttpWoken,
                HttpAnswer, HttpSnap, HttpSnapEnds
  <2>2. shut' = shut /\ serverFd' \in {"none", "open", "stale"}
    BY <1>4 DEF TypeOK, HttpStep, HttpClient, HttpSocket, HttpBind, HttpTest, HttpWoken,
                HttpAnswer, HttpSnap, HttpSnapEnds
  <2>3. /\ up' = up \/ up' = up \cup {"jpegRecv"} \/ up' = up \ {"jpegRecv"}
        /\ faults' = faults \/ Fault
    BY <1>4 DEF HttpStep, HttpClient, HttpSocket, HttpBind, HttpTest, HttpWoken,
                HttpAnswer, HttpSnap, HttpSnapEnds
  <2>4. up' \subseteq Objects
    BY <2>3 DEF TypeOK, Objects, ChanObjs
  <2>5. faults' \in 0..MaxFaults
    BY <2>3, DaemonAssumption DEF TypeOK, Fault
  <2> QED
    BY <2>1, <2>2, <2>4, <2>5, MoveTypes DEF TypeOK, Threads
<1> QED
  BY <1>1, <1>2, <1>3, <1>4 DEF ThreadStep

LEMMA MainTypes == TypeOK /\ MainStep => TypeOK'
<1> SUFFICES ASSUME TypeOK, MainStep PROVE TypeOK'
  OBVIOUS
<1> USE DaemonAssumption, PipelineObjects, TeardownObjects
<1>1. CASE SdkUp
  <2>1. up' \subseteq Objects /\ k' \in 1..(Len(Teardown) + 1)
    BY <1>1 DEF TypeOK, SdkUp
  <2> QED
    BY <1>1, <2>1 DEF TypeOK, SdkUp, Go, ThreadsUnchanged
<1>2. CASE SdkUpFails \/ InitRecorderFails \/ StartRecvFails
  BY <1>2 DEF TypeOK, SdkUpFails, InitRecorderFails, StartRecvFails, ReturnError
<1>3. CASE SdkReady
  <2>1. tpc' \in [Threads -> Places] /\ on' \in [Threads -> BOOLEAN]
    BY <1>3, StartTypes DEF TypeOK, SdkReady, ThreadsUnchanged, Threads, Places
  <2> QED
    BY <1>3, <2>1 DEF TypeOK, SdkReady, Go, Places
<1>4. CASE InitRecorder
  <2>1. up' \subseteq Objects
    BY <1>4 DEF TypeOK, InitRecorder, Objects
  <2> QED
    BY <1>4, <2>1 DEF TypeOK, InitRecorder, Go, ThreadsUnchanged
<1>5. CASE StartAudio
  <2>1. tpc' \in [Threads -> Places] /\ on' \in [Threads -> BOOLEAN]
    BY <1>5, StartTypes DEF TypeOK, StartAudio, ThreadsUnchanged, Threads, Places
  <2>2. up' \subseteq Objects
    BY <1>5 DEF TypeOK, StartAudio, Objects
  <2> QED
    BY <1>5, <2>1, <2>2 DEF TypeOK, StartAudio, Go, Places
<1>6. CASE StartAudioFails
  <2>1. up' \subseteq Objects
    <3>1. PICK c \in DOMAIN AudioHeld : up' = (up \cup AudioHeld[c]) \ AudioUndone[c]
      BY <1>6 DEF StartAudioFails
    <3>2. AudioHeld[c] \subseteq Objects
      BY <3>1 DEF AudioHeld, Audio, Objects
    <3> QED
      BY <3>1, <3>2 DEF TypeOK
  <2> QED
    BY <1>6, <2>1 DEF TypeOK, StartAudioFails, Go, ThreadsUnchanged
<1>7. ASSUME NEW t \in Bounded, StartPusher(t) PROVE TypeOK'
  <2>1. tpc' \in [Threads -> Places] /\ on' \in [Threads -> BOOLEAN]
    BY <1>7, StartTypes DEF TypeOK, StartPusher, Threads, Bounded, Places
  <2>2. up' \subseteq Objects
    BY <1>7 DEF TypeOK, StartPusher, Objects
  <2> QED
    BY <1>7, <2>1, <2>2 DEF TypeOK, StartPusher, Go, AfterStart, Places
<1>8. ASSUME NEW t \in Bounded, NoPusher(t) PROVE TypeOK'
  <2>1. up' \subseteq Objects
    <3>1. up' = up \/ up' = up \cup {"tls"}
      BY <1>8 DEF NoPusher
    <3> QED
      <4>1. up \subseteq Objects /\ "tls" \in Objects
        BY DEF TypeOK, Objects
      <4> QED
        BY <3>1, <4>1
  <2> QED
    BY <1>8, <2>1 DEF TypeOK, NoPusher, Go, AfterStart, ThreadsUnchanged
<1>9. CASE StartJpeg
  <2>1. up' \subseteq Objects /\ faults' \in 0..MaxFaults
    <3>1. up' = up \/ up' = up \cup {"jpeg", "jpegReg"} \/ up' = up \cup {"jpeg"}
      BY <1>9 DEF StartJpeg
    <3>2. up' \subseteq Objects
      BY <3>1 DEF TypeOK, Objects, ChanObjs
    <3>3. faults' = faults \/ Fault
      BY <1>9 DEF StartJpeg
    <3>4. faults' \in 0..MaxFaults
      BY <3>3 DEF TypeOK, Fault
    <3> QED
      BY <3>2, <3>4
  <2> QED
    BY <1>9, <2>1 DEF TypeOK, StartJpeg, Go, ThreadsUnchanged
<1>10. CASE StartHttp
  <2>1. tpc' \in [Threads -> Places] /\ on' \in [Threads -> BOOLEAN]
    BY <1>10, StartTypes DEF TypeOK, StartHttp, ThreadsUnchanged, Threads, Places
  <2> QED
    BY <1>10, <2>1 DEF TypeOK, StartHttp, Go, Places
<1>11. CASE StartRecv
  <2>1. up' \subseteq Objects
    BY <1>11 DEF TypeOK, StartRecv, Objects, ChanObjs
  <2> QED
    BY <1>11, <2>1 DEF TypeOK, StartRecv, Go, ThreadsUnchanged
<1>12. CASE LeaveLoop
  BY <1>12 DEF TypeOK, LeaveLoop, Go, ThreadsUnchanged
<1>13. ASSUME NEW t \in Bounded, StopPusher(t) PROVE TypeOK'
  <2>1. on' \in [Threads -> BOOLEAN]
    BY <1>13, ClearTypes DEF StopPusher
  <2> QED
    BY <1>13, <2>1 DEF TypeOK, StopPusher, Waiting, AfterStop
<1>14. ASSUME NEW t \in Bounded, WaitPusher(t) PROVE TypeOK'
  BY <1>14 DEF TypeOK, WaitPusher, Waiting, AfterStop, ThreadsUnchanged
<1>15. ASSUME NEW t \in Bounded, DetachPusher(t) PROVE TypeOK'
  BY <1>15 DEF TypeOK, DetachPusher, Waiting, AfterStop, ThreadsUnchanged
<1>16. CASE StopAudio \/ StopHttp
  <2>1. on' \in [Threads -> BOOLEAN]
    BY <1>16, ClearTypes DEF StopAudio, StopHttp
  <2> QED
    BY <1>16, <2>1 DEF TypeOK, StopAudio, StopHttp, Go
<1>17. CASE JoinAudio \/ JoinHttp
  BY <1>17 DEF TypeOK, JoinAudio, JoinHttp, Go, ThreadsUnchanged
<1>18. CASE WakeHttp
  <2>1. shut' \in BOOLEAN
    BY <1>18, Zenon DEF TypeOK, WakeHttp
  <2> QED
    BY <1>18, <2>1 DEF TypeOK, WakeHttp, ThreadsUnchanged
<1>19. CASE StopRecorder
  BY <1>19 DEF TypeOK, StopRecorder, Go, ThreadsUnchanged
<1>20. CASE TakeDown
  BY <1>20 DEF TypeOK, TakeDown, Go, ThreadsUnchanged
<1>21. CASE SkipJpeg
  <2>1. k = 6
    <3>1. k \in {1, 2, 3, 4, 5, 6, 7, 8, 9, 10, 11, 12, 13, 14}
      BY <1>21 DEF SkipJpeg, TypeOK
    <3> QED
      BY <1>21, <3>1 DEF SkipJpeg, Teardown
  <2> QED
    BY <1>21, <2>1 DEF TypeOK, SkipJpeg, Go, ThreadsUnchanged
<1>22. CASE TakeDownFails
  <2>1. faults' \in 0..MaxFaults
    BY <1>22 DEF TypeOK, TakeDownFails, Fault
  <2> QED
    BY <1>22, <2>1 DEF TypeOK, TakeDownFails, Go, ThreadsUnchanged
<1>23. CASE TornDown \/ Cleanup
  BY <1>23 DEF TypeOK, TornDown, Cleanup, Go, ThreadsUnchanged
<1> QED
  BY <1>1, <1>2, <1>3, <1>4, <1>5, <1>6, <1>7, <1>8, <1>9, <1>10, <1>11, <1>12,
     <1>13, <1>14, <1>15, <1>16, <1>17, <1>18, <1>19, <1>20, <1>21, <1>22, <1>23
     DEF MainStep

LEMMA InitTypeOK == Init => TypeOK
<1> SUFFICES ASSUME Init PROVE TypeOK
  OBVIOUS
<1>1. sig \in BOOLEAN /\ shut \in BOOLEAN /\ on \in [Threads -> BOOLEAN]
  <2>1. FALSE \in BOOLEAN
    BY Zenon
  <2> QED
    BY <2>1 DEF Init
<1> QED
  BY <1>1, DaemonAssumption, TeardownObjects DEF Init, TypeOK

LEMMA StepTypeOK == TypeOK /\ [Next]_vars => TypeOK'
<1> SUFFICES ASSUME TypeOK, [Next]_vars PROVE TypeOK'
  OBVIOUS
<1>1. CASE SigTerm
  <2>1. sig' \in BOOLEAN
    BY <1>1, Zenon DEF SigTerm
  <2> QED
    BY <1>1, <2>1 DEF TypeOK, SigTerm
<1>2. CASE UNCHANGED vars
  BY <1>2 DEF TypeOK
<1> QED
  BY <1>1, <1>2, MainTypes, ThreadTypes DEF Next, ThreadStep, Gone

\* The variables keep their types: main() leaves its teardown within the list of
\* calls it makes, and waits no longer for a thread than its grace period.
THEOREM TypeCorrect == Spec => []TypeOK
BY InitTypeOK, StepTypeOK, PTL DEF Spec

-----------------------------------------------------------------------------
(* The threads.                                                            *)

\* A thread's step is made by a thread that runs, and starts no other.
LEMMA ThreadStepEffect ==
    ASSUME TypeOK, ThreadStep
    PROVE  /\ Alive /\ \E t \in Threads : Running(t)
           /\ UNCHANGED <<enabled, sig, on, mpc, k, status, waited, detached>>
           /\ \A t \in Threads : Running(t)' => Running(t)
           /\ \A t \in Threads : tpc[t] # "none" => tpc'[t] # "none"
<1>1. ASSUME NEW t \in Threads, NEW from, from \notin {"none", "exited"},
             NEW to, to # "none", Move(t, from, to)
      PROVE  /\ Alive /\ \E u \in Threads : Running(u)
             /\ UNCHANGED <<enabled, sig, on, mpc, k, status, waited, detached>>
             /\ \A u \in Threads : Running(u)' => Running(u)
             /\ \A u \in Threads : tpc[u] # "none" => tpc'[u] # "none"
  BY <1>1 DEF TypeOK, Move, Running
<1>2. \E t \in Threads : \E from, to :
          from \notin {"none", "exited"} /\ to # "none" /\ Move(t, from, to)
  <2>1. CASE AudioStep
    BY <2>1 DEF AudioStep, Threads
  <2>2. ASSUME NEW t \in Bounded, PusherStep(t)
        PROVE  \E from, to :
                 from \notin {"none", "exited"} /\ to # "none" /\ Move(t, from, to)
    BY <2>2 DEF PusherStep
  <2>3. CASE AutonightStep
    BY <2>3 DEF AutonightStep, Threads
  <2>4. CASE HttpStep \/ HttpClient
    BY <2>4 DEF HttpStep, HttpClient, HttpSocket, HttpBind, HttpTest, HttpWoken,
                HttpAnswer, HttpSnap, HttpSnapEnds, Threads
  <2>5. Bounded \subseteq Threads
    BY DEF Bounded, Threads
  <2> QED
    BY <2>1, <2>2, <2>3, <2>4, <2>5 DEF ThreadStep
<1> QED
  BY <1>1, <1>2

LEMMA StepThreads == TypeOK /\ ThreadInv /\ [Next]_vars => ThreadInv'
<1> SUFFICES ASSUME TypeOK, ThreadInv, [Next]_vars PROVE ThreadInv'
  OBVIOUS
<1> USE DEF Over, UploaderOver, GrafanaOver, AudioOver, HttpOver, Waiting, Running
<1>1. CASE ThreadStep
  <2>1. Bounded \subseteq Threads /\ {"audio", "http"} \subseteq Threads
    BY DEF Bounded, Threads
  <2> QED
    BY <1>1, <2>1, ThreadStepEffect DEF ThreadInv, Alive
<1>2. CASE SigTerm \/ UNCHANGED vars
  BY <1>2 DEF ThreadInv, SigTerm, Alive
<1>3. CASE mpc' = "exit"
  BY <1>3 DEF ThreadInv, Alive
<1>4. CASE SdkUp
  BY <1>4 DEF ThreadInv, SdkUp, Go, ThreadsUnchanged, Alive
<1>5. CASE SdkReady
  BY <1>5 DEF TypeOK, ThreadInv, SdkReady, Go, Start, ThreadsUnchanged, Alive, Bounded, Threads
<1>6. CASE InitRecorder
  BY <1>6 DEF ThreadInv, InitRecorder, Go, ThreadsUnchanged, Alive
<1>7. CASE StartAudio
  BY <1>7 DEF TypeOK, ThreadInv, StartAudio, Go, Start, ThreadsUnchanged, Alive, Bounded, Threads
<1>8. CASE StartAudioFails
  BY <1>8 DEF ThreadInv, StartAudioFails, Go, ThreadsUnchanged, Alive
<1>9. ASSUME NEW t \in Bounded, StartPusher(t) PROVE ThreadInv'
  BY <1>9 DEF TypeOK, ThreadInv, StartPusher, Go, Start, AfterStart, Alive, Bounded, Threads
<1>10. ASSUME NEW t \in Bounded, NoPusher(t) PROVE ThreadInv'
  BY <1>10 DEF ThreadInv, NoPusher, Go, AfterStart, ThreadsUnchanged, Alive, Bounded
<1>11. CASE StartJpeg
  BY <1>11 DEF ThreadInv, StartJpeg, Go, ThreadsUnchanged, Alive
<1>12. CASE StartHttp
  BY <1>12 DEF TypeOK, ThreadInv, StartHttp, Go, Start, ThreadsUnchanged, Alive, Bounded, Threads
<1>13. CASE StartRecv \/ LeaveLoop
  BY <1>13 DEF ThreadInv, StartRecv, LeaveLoop, Go, ThreadsUnchanged, Alive
<1>14. ASSUME NEW t \in Bounded, StopPusher(t) PROVE ThreadInv'
  BY <1>14 DEF TypeOK, ThreadInv, StopPusher, Stopping, AfterStop, Clear, Alive, Bounded, Threads
<1>15. ASSUME NEW t \in Bounded, WaitPusher(t) PROVE ThreadInv'
  <2>1. CASE t = "uploader"
    BY <1>15, <2>1 DEF ThreadInv, WaitPusher, AfterStop, ThreadsUnchanged, Alive, Bounded
  <2>2. CASE t = "grafana"
    BY <1>15, <2>2 DEF ThreadInv, WaitPusher, AfterStop, ThreadsUnchanged, Alive, Bounded
  <2> QED
    BY <2>1, <2>2 DEF Bounded
<1>16. ASSUME NEW t \in Bounded, DetachPusher(t) PROVE ThreadInv'
  <2>1. CASE t = "uploader"
    BY <1>16, <2>1 DEF ThreadInv, DetachPusher, AfterStop, ThreadsUnchanged, Alive, Bounded
  <2>2. CASE t = "grafana"
    BY <1>16, <2>2 DEF ThreadInv, DetachPusher, AfterStop, ThreadsUnchanged, Alive, Bounded
  <2> QED
    BY <2>1, <2>2 DEF Bounded
<1>17. CASE StopAudio
  BY <1>17 DEF TypeOK, ThreadInv, StopAudio, Go, Clear, Alive, Bounded, Threads
<1>18. CASE JoinAudio
  BY <1>18 DEF ThreadInv, JoinAudio, Go, ThreadsUnchanged, Alive
<1>19. CASE StopHttp
  BY <1>19 DEF TypeOK, ThreadInv, StopHttp, Go, Clear, Alive, Bounded, Threads
<1>20. CASE WakeHttp
  BY <1>20 DEF ThreadInv, WakeHttp, ThreadsUnchanged, Alive
<1>21. CASE JoinHttp
  BY <1>21 DEF ThreadInv, JoinHttp, Go, ThreadsUnchanged, Alive
<1>22. CASE StopRecorder
  BY <1>22 DEF ThreadInv, StopRecorder, Go, ThreadsUnchanged, Alive
<1>23. CASE TakeDown \/ SkipJpeg \/ TakeDownFails \/ TornDown
  BY <1>23 DEF ThreadInv, TakeDown, SkipJpeg, TakeDownFails, TornDown, Go, ThreadsUnchanged,
              Alive
<1>24. SdkUpFails \/ InitRecorderFails \/ StartRecvFails \/ Cleanup => mpc' = "exit"
  BY DEF SdkUpFails, InitRecorderFails, StartRecvFails, ReturnError, Cleanup, Go
<1> QED
  BY <1>1, <1>2, <1>3, <1>4, <1>5, <1>6, <1>7, <1>8, <1>9, <1>10, <1>11, <1>12,
     <1>13, <1>14, <1>15, <1>16, <1>17, <1>18, <1>19, <1>20, <1>21, <1>22, <1>23, <1>24
     DEF Next, MainStep, ThreadStep, Gone

-----------------------------------------------------------------------------
(* What stands on what.                                                    *)

LEMMA BaseObjects ==
    Base = {"isp", "sensor", "sensorOn", "system", "tuning", "fs", "group",
            "h264", "h264Reg", "bound", "stream"}
<1>1. \A j \in 1..11 : j \in {1, 2, 3, 4, 5, 6, 7, 8, 9, 10, 11}
  OBVIOUS
<1>2. \A j \in 1..11 :
        Pipeline[j] \in {"isp", "sensor", "sensorOn", "system", "tuning", "fs", "group",
                        "h264", "h264Reg", "bound", "stream"}
  BY <1>1 DEF Pipeline
<1>3. /\ Pipeline[1] = "isp" /\ Pipeline[2] = "sensor" /\ Pipeline[3] = "sensorOn"
      /\ Pipeline[4] = "system" /\ Pipeline[5] = "tuning" /\ Pipeline[6] = "fs"
      /\ Pipeline[7] = "group" /\ Pipeline[8] = "h264" /\ Pipeline[9] = "h264Reg"
      /\ Pipeline[10] = "bound" /\ Pipeline[11] = "stream"
  BY DEF Pipeline
<1> QED
  BY <1>2, <1>3, PipelineObjects DEF Base

\* The objects are set up after, and taken down before, what they stand on.
LEMMA PipelineOrder ==
    ASSUME NEW j \in 1..11, NEW x \in Stands(Pipeline[j])
    PROVE  \E i \in 1..(j - 1) : Pipeline[i] = x
<1>1. j \in {1, 2, 3, 4, 5, 6, 7, 8, 9, 10, 11}
  OBVIOUS
<1>2. /\ Pipeline[1] = "isp" /\ Pipeline[2] = "sensor" /\ Pipeline[3] = "sensorOn"
      /\ Pipeline[4] = "system" /\ Pipeline[5] = "tuning" /\ Pipeline[6] = "fs"
      /\ Pipeline[7] = "group" /\ Pipeline[8] = "h264" /\ Pipeline[9] = "h264Reg"
      /\ Pipeline[10] = "bound" /\ Pipeline[11] = "stream"
  BY DEF Pipeline
<1>3. CASE j \in {1, 2, 3, 4, 5}
  BY <1>2, <1>3 DEF Stands, Needs, Audio, ChanObjs
<1>4. CASE j \in {6, 7, 8}
  BY <1>2, <1>4 DEF Stands, Needs, Audio, ChanObjs
<1>5. CASE j \in {9, 10, 11}
  BY <1>2, <1>5 DEF Stands, Needs, Audio, ChanObjs
<1> QED
  BY <1>1, <1>3, <1>4, <1>5

LEMMA TeardownList ==
    /\ Teardown[1] = "recv" /\ Teardown[2] = "stream" /\ Teardown[3] = "bound"
    /\ Teardown[4] = "h264Reg" /\ Teardown[5] = "h264" /\ Teardown[6] = "jpegReg"
    /\ Teardown[7] = "jpeg" /\ Teardown[8] = "group" /\ Teardown[9] = "fs"
    /\ Teardown[10] = "system" /\ Teardown[11] = "sensorOn" /\ Teardown[12] = "sensor"
    /\ Teardown[13] = "tuning" /\ Teardown[14] = "isp"
    /\ \A j \in 1..14 : j \in {1, 2, 3, 4, 5, 6, 7, 8, 9, 10, 11, 12, 13, 14}
BY DEF Teardown

LEMMA TeardownOnce ==
    ASSUME NEW i \in 1..14, NEW j \in 1..14, Teardown[i] = Teardown[j]
    PROVE  i = j
<1>1. i \in {1, 2, 3, 4, 5, 6, 7, 8, 9, 10, 11, 12, 13, 14}
  OBVIOUS
<1>2. j \in {1, 2, 3, 4, 5, 6, 7, 8, 9, 10, 11, 12, 13, 14}
  OBVIOUS
<1> QED
  BY <1>1, <1>2, TeardownList

\* Who stands on an object.
LEMMA Dependents ==
    \A x \in Objects :
        /\ "isp" \in Stands(x) => x \in {"sensor", "tuning"}
        /\ "sensor" \in Stands(x) => x = "sensorOn"
        /\ "sensorOn" \in Stands(x) => x = "stream"
        /\ "system" \in Stands(x) => x \in ChanObjs \cup Audio
        /\ "fs" \in Stands(x) => x \in {"stream", "bound"}
        /\ "group" \in Stands(x) => x \in {"bound", "h264Reg", "jpegReg"}
        /\ "h264" \in Stands(x) => x = "h264Reg"
        /\ "h264Reg" \in Stands(x) => x = "recv"
        /\ "jpeg" \in Stands(x) => x = "jpegReg"
        /\ "jpegReg" \in Stands(x) => x = "jpegRecv"
        /\ "ai" \in Stands(x) => x = "aiChn"
        /\ Stands(x) \cap {"tuning", "recv", "stream", "bound", "jpegRecv", "aiChn", "aenc",
                          "recorder", "tls"} = {}
<1> SUFFICES ASSUME NEW x \in Objects
             PROVE  /\ "isp" \in Stands(x) => x \in {"sensor", "tuning"}
                    /\ "sensor" \in Stands(x) => x = "sensorOn"
                    /\ "sensorOn" \in Stands(x) => x = "stream"
                    /\ "system" \in Stands(x) => x \in ChanObjs \cup Audio
                    /\ "fs" \in Stands(x) => x \in {"stream", "bound"}
                    /\ "group" \in Stands(x) => x \in {"bound", "h264Reg", "jpegReg"}
                    /\ "h264" \in Stands(x) => x = "h264Reg"
                    /\ "h264Reg" \in Stands(x) => x = "recv"
                    /\ "jpeg" \in Stands(x) => x = "jpegReg"
                    /\ "jpegReg" \in Stands(x) => x = "jpegRecv"
                    /\ "ai" \in Stands(x) => x = "aiChn"
                    /\ Stands(x) \cap {"tuning", "recv", "stream", "bound", "jpegRecv",
                                      "aiChn", "aenc", "recorder", "tls"} = {}
  OBVIOUS
<1>1. CASE x \in {"isp", "sensor", "sensorOn", "system", "tuning", "recorder", "tls"}
  BY <1>1 DEF Stands, Needs, Audio, ChanObjs
<1>2. CASE x \in {"fs", "group", "h264", "h264Reg", "bound", "stream"}
  BY <1>2 DEF Stands, Needs, Audio, ChanObjs
<1>3. CASE x \in {"recv", "jpeg", "jpegReg", "jpegRecv", "ai", "aiChn", "aenc"}
  BY <1>3 DEF Stands, Needs, Audio, ChanObjs
<1> QED
  BY <1>1, <1>2, <1>3 DEF Objects, ChanObjs, Audio

\* What the encoder refuses concerns no more than the order that destory() keeps.
LEMMA EncoderNeeds ==
    ASSUME NEW o \in {"h264Reg", "jpegReg", "h264", "jpeg", "group"}, NEW x
    PROVE  o \in Needs(x) <=> o \in Stands(x)
BY DEF Stands, Needs

LEMMA SnapshotNeeds ==
    "jpeg" \in Stands("jpegReg") /\ Stands("jpegRecv") = {"jpegReg"}
BY DEF Stands, Needs

\* What is added and what is taken away.
LEMMA AddObjects ==
    ASSUME StandInv, NEW S, up' = up \cup S, \A o \in S : Stands(o) \subseteq up'
    PROVE  StandInv'
BY DEF StandInv

LEMMA RemoveObjects ==
    ASSUME StandInv, NEW S, up' = up \ S, \A o \in up' : Stands(o) \cap S = {}
    PROVE  StandInv'
BY DEF StandInv

\* A thread's step adds or drops no more than the capture of a snapshot.
LEMMA ThreadObjects ==
    ASSUME TypeOK, ThreadInv, ObjectInv, StandInv, ThreadStep
    PROVE  ObjectInv' /\ StandInv'
<1>1. /\ Alive /\ Alive' /\ \E t \in Threads : Running(t)
      /\ UNCHANGED <<enabled, sig, on, mpc, k, status, waited, detached>>
      /\ Running("audio")' => Running("audio")
      /\ tpc["audio"] # "none" => tpc'["audio"] # "none"
  <2>1. "audio" \in Threads
    BY DEF Threads
  <2> QED
    BY <2>1, ThreadStepEffect DEF Alive
<1>2. mpc # "sdk"
  BY <1>1 DEF ThreadInv
<1>3. \A t \in Bounded : tpc'[t] = "post" /\ tpc[t] # "post" => "tls" \in up
  <2>1. ASSUME NEW t \in Bounded, tpc'[t] = "post", tpc[t] # "post"
        PROVE  "tls" \in up
    <3>1. t \in Threads /\ t \notin {"audio", "http", "autonight"}
      BY DEF Bounded, Threads
    <3>2. ~(AudioStep \/ HttpStep \/ HttpClient \/ AutonightStep)
      BY <2>1, <3>1 DEF AudioStep, AutonightStep, HttpStep, HttpClient, HttpSocket, HttpBind,
            HttpTest, HttpWoken, HttpAnswer, HttpSnap, HttpSnapEnds, Move, TypeOK
    <3>3. PICK u \in Bounded : PusherStep(u)
      BY <3>2 DEF ThreadStep
    <3>4. u = t
      BY <2>1, <3>1, <3>3 DEF PusherStep, Move, TypeOK
    <3> QED
      BY <2>1, <3>1, <3>3, <3>4 DEF PusherStep, Move, TypeOK
  <2> QED
    BY <2>1
<1>4. \/ HttpSnap
      \/ HttpSnapEnds
      \/ up' = up /\ (tpc'["http"] = "snap" => tpc["http"] = "snap")
  BY DEF ThreadStep, AudioStep, AutonightStep, PusherStep, Bounded, Threads, HttpStep,
         HttpClient, HttpSocket, HttpBind, HttpTest, HttpWoken, HttpAnswer, Move, TypeOK
<1>5. CASE up' = up /\ (tpc'["http"] = "snap" => tpc["http"] = "snap")
  <2>1. ObjectInv'
    BY <1>1, <1>2, <1>3, <1>5 DEF ObjectInv
  <2> QED
    BY <1>5, <2>1 DEF StandInv
<1>6. ASSUME HttpSnap \/ HttpSnapEnds, up' = up \cup {"jpegRecv"} \/ up' = up \ {"jpegRecv"},
             tpc'["http"] = "snap" => {"jpeg", "jpegReg", "jpegRecv"} \subseteq up'
      PROVE  ObjectInv'
  <2>1. Running("http")
    BY <1>6 DEF HttpSnap, HttpSnapEnds, Move, Running
  <2>2. mpc \notin HttpOver
    BY <1>1, <2>1 DEF ThreadInv
  <2>3. "jpegRecv" \notin Base \cup Audio \cup {"recorder", "tls"}
    BY BaseObjects DEF Audio
  <2> QED
    BY <1>1, <1>2, <1>3, <1>6, <2>2, <2>3 DEF ObjectInv, HttpOver
<1>7. CASE HttpSnap
  <2>1. up' = up \cup {"jpegRecv"} /\ "jpegReg" \in up
    BY <1>7 DEF HttpSnap
  <2>2. "jpeg" \in up
    BY <2>1, SnapshotNeeds DEF StandInv
  <2>3. ObjectInv'
    BY <1>6, <1>7, <2>1, <2>2
  <2>4. Stands("jpegRecv") \subseteq up'
    BY <2>1, SnapshotNeeds
  <2> QED
    BY <2>1, <2>3, <2>4, AddObjects
<1>8. CASE HttpSnapEnds
  <2>1. tpc'["http"] # "snap"
    BY <1>8 DEF HttpSnapEnds, Move, TypeOK, Threads
  <2>2. CASE up' = up
    <3>1. ObjectInv'
      BY <1>1, <1>2, <1>3, <2>1, <2>2 DEF ObjectInv
    <3> QED
      BY <2>2, <3>1 DEF StandInv
  <2>3. CASE up' = up \ {"jpegRecv"}
    <3>1. ObjectInv'
      BY <1>6, <1>8, <2>1, <2>3
    <3>2. \A o \in up' : Stands(o) \cap {"jpegRecv"} = {}
      BY <2>3, Dependents DEF TypeOK
    <3> QED
      BY <2>3, <3>1, <3>2, RemoveObjects
  <2> QED
    BY <1>8, <2>2, <2>3 DEF HttpSnapEnds
<1> QED
  BY <1>4, <1>5, <1>7, <1>8

\* main() on the way up.
LEMMA StartObjects ==
    ASSUME TypeOK, ThreadInv, ObjectInv, StandInv,
           \/ SdkUp \/ SdkReady \/ InitRecorder \/ StartAudio \/ StartAudioFails
           \/ (\E t \in Bounded : StartPusher(t) \/ NoPusher(t))
           \/ StartJpeg \/ StartHttp \/ StartRecv \/ LeaveLoop
    PROVE  ObjectInv' /\ StandInv'
<1> USE DEF HttpOver, AudioOver, Alive, Running
<1>1. CASE SdkUp
  <2>1. k \in 1..11 /\ mpc = "sdk" /\ mpc' = "sdk" /\ k' = k + 1
    BY <1>1, PipelineObjects DEF SdkUp, Go, TypeOK
  <2>2. up = {Pipeline[j] : j \in 1..(k - 1)} /\ up' = up \cup {Pipeline[k]}
    BY <1>1, <2>1 DEF SdkUp, ObjectInv
  <2>3. up' = {Pipeline[j] : j \in 1..(k' - 1)}
    BY <2>1, <2>2
  <2>4. up' \cap Audio = {}
    BY <2>1, <2>3, PipelineObjects
  <2>5. ObjectInv'
    <3>1. \A t \in Threads : tpc'[t] \in {"none", "exited"}
      BY <1>1, <2>1 DEF ThreadInv, SdkUp, ThreadsUnchanged
    <3>2. Bounded \subseteq Threads /\ {"audio", "http"} \subseteq Threads
      BY DEF Bounded, Threads
    <3> QED
      BY <2>1, <2>3, <2>4, <3>1, <3>2, PipelineObjects DEF ObjectInv
  <2>6. Stands(Pipeline[k]) \subseteq up
    BY <2>1, <2>2, PipelineOrder
  <2> QED
    BY <2>2, <2>5, <2>6, AddObjects
<1>2. CASE SdkReady
  <2>1. up' = up /\ mpc = "sdk" /\ mpc' = "recorder"
    BY <1>2 DEF SdkReady, Go
  <2>2. k = 12 /\ up = {Pipeline[j] : j \in 1..(k - 1)}
    BY <1>2, <2>1, PipelineObjects, TeardownObjects DEF SdkReady, ObjectInv, TypeOK
  <2>3. up = Base
    BY <2>2, PipelineObjects DEF Base
  <2>4. up' \cap Audio = {}
    BY <2>1, <2>3, BaseObjects DEF Audio
  <2>5. \A t \in Threads \ {"autonight"} : tpc'[t] \in {"none", "exited"}
    BY <1>2, <2>1 DEF ThreadInv, SdkReady, Start, ThreadsUnchanged, TypeOK
  <2>6. ObjectInv'
    BY <2>1, <2>3, <2>4, <2>5 DEF ObjectInv, Bounded, Threads
  <2> QED
    BY <2>1, <2>6 DEF StandInv
<1>3. CASE InitRecorder
  <2>1. up' = up \/ up' = up \cup {"recorder"}
    BY <1>3 DEF InitRecorder
  <2>2. "recording" \in enabled => "recorder" \in up'
    BY <1>3 DEF InitRecorder
  <2>3. mpc = "recorder" /\ mpc' = "audio" /\ UNCHANGED <<tpc, enabled>>
    BY <1>3 DEF InitRecorder, Go, ThreadsUnchanged
  <2>4. ObjectInv'
    BY <2>1, <2>2, <2>3 DEF ObjectInv, Audio
  <2>5. Stands("recorder") = {}
    BY DEF Stands, Needs
  <2> QED
    BY <2>1, <2>4, <2>5, AddObjects DEF StandInv
<1>4. CASE StartAudio
  <2>1. CASE AudioOn
    <3>1. /\ up' = up \cup Audio /\ mpc = "audio" /\ mpc' = "grafana" /\ enabled' = enabled
          /\ tpc'["audio"] = "loop" /\ \A t \in Threads \ {"audio"} : tpc'[t] = tpc[t]
      BY <1>4, <2>1 DEF StartAudio, Go, Start, TypeOK, Threads
    <3>2. "recorder" \in up
      BY <2>1, <3>1 DEF ObjectInv, AudioOn
    <3>3. ObjectInv'
      BY <3>1, <3>2 DEF ObjectInv, Bounded, Threads
    <3>4. Stands("ai") = {"system"} /\ Stands("aiChn") = {"ai"} /\ Stands("aenc") = {"system"}
      BY DEF Stands, Needs
    <3>5. "system" \in up
      BY <3>1, BaseObjects DEF ObjectInv
    <3> QED
      BY <3>1, <3>3, <3>4, <3>5, AddObjects DEF Audio
  <2>2. CASE ~AudioOn
    <3>1. up' = up /\ mpc = "audio" /\ mpc' = "grafana" /\ UNCHANGED <<enabled, tpc>>
      BY <1>4, <2>2 DEF StartAudio, Go, ThreadsUnchanged
    <3>2. ObjectInv'
      BY <3>1 DEF ObjectInv
    <3> QED
      BY <3>1, <3>2 DEF StandInv
  <2> QED
    BY <2>1, <2>2
<1>5. CASE StartAudioFails
  <2>1. PICK c \in DOMAIN AudioHeld : up' = (up \cup AudioHeld[c]) \ AudioUndone[c]
    BY <1>5 DEF StartAudioFails
  <2>2. mpc = "audio" /\ mpc' = "grafana" /\ UNCHANGED <<enabled, tpc>>
    BY <1>5 DEF StartAudioFails, Go, ThreadsUnchanged
  <2>3. AudioHeld[c] = AudioUndone[c] /\ AudioHeld[c] \subseteq Audio
    BY <2>1 DEF AudioHeld, AudioUndone, Audio
  <2>4. up' = up
    BY <2>1, <2>2, <2>3 DEF ObjectInv
  <2>5. ObjectInv'
    BY <2>2, <2>4 DEF ObjectInv
  <2> QED
    BY <2>4, <2>5 DEF StandInv
<1>6. ASSUME NEW t \in Bounded, StartPusher(t) \/ NoPusher(t)
      PROVE  ObjectInv' /\ StandInv'
  <2>1. up' = up \/ up' = up \cup {"tls"}
    BY <1>6 DEF StartPusher, NoPusher
  <2>2. /\ mpc \in {"grafana", "uploader"} /\ mpc' \in {"uploader", "jpeg"}
        /\ enabled' = enabled
    BY <1>6 DEF StartPusher, NoPusher, Go, AfterStart, Bounded
  <2>3. \A u \in Threads : tpc'[u] = tpc[u] \/ (u \in Bounded /\ tpc'[u] = "idle")
    <3>1. tpc' = tpc \/ tpc' = [tpc EXCEPT ![t] = "idle"]
      BY <1>6 DEF StartPusher, NoPusher, Start, ThreadsUnchanged
    <3>2. tpc \in [Threads -> Places]
      BY DEF TypeOK, Places
    <3> QED
      BY <3>1, <3>2
  <2>4. ObjectInv'
    <3>1. "tls" \notin Audio /\ {"audio", "http"} \subseteq Threads \ Bounded
                             /\ Bounded \subseteq Threads
      BY DEF Audio, Threads, Bounded
    <3>2. up \subseteq up'
      BY <2>1
    <3>3. tpc'["audio"] = tpc["audio"] /\ tpc'["http"] = tpc["http"]
      BY <2>3, <3>1
    <3>4. \A u \in Bounded : tpc'[u] = "post" => tpc[u] = "post"
      BY <2>3, <3>1
    <3> QED
      BY <2>1, <2>2, <3>1, <3>2, <3>3, <3>4 DEF ObjectInv
  <2>5. Stands("tls") = {}
    BY DEF Stands, Needs
  <2> QED
    BY <2>1, <2>4, <2>5, AddObjects DEF StandInv
<1>7. CASE StartJpeg
  <2>1. \E S \in {{}, {"jpeg"}, {"jpeg", "jpegReg"}} : up' = up \cup S
    BY <1>7 DEF StartJpeg
  <2>2. mpc = "jpeg" /\ mpc' = "http" /\ UNCHANGED <<enabled, tpc>>
    BY <1>7 DEF StartJpeg, Go, ThreadsUnchanged
  <2>3. ObjectInv'
    BY <2>1, <2>2 DEF ObjectInv, Audio
  <2>4. Stands("jpeg") = {"system"} /\ Stands("jpegReg") = {"jpeg", "group", "system"}
    BY DEF Stands, Needs
  <2>5. {"system", "group"} \subseteq up
    BY <2>2, BaseObjects DEF ObjectInv
  <2> QED
    BY <2>1, <2>3, <2>4, <2>5, AddObjects
<1>8. CASE StartHttp
  <2>1. up' = up /\ mpc = "http" /\ mpc' = "recv" /\ enabled' = enabled
    BY <1>8 DEF StartHttp, Go
  <2>2. \A t \in Threads : tpc'[t] = tpc[t] \/ (t = "http" /\ tpc'[t] = "new")
    <3>1. tpc' = tpc \/ tpc' = [tpc EXCEPT !["http"] = "new"]
      BY <1>8 DEF StartHttp, Start, ThreadsUnchanged
    <3>2. tpc \in [Threads -> Places]
      BY DEF TypeOK, Places
    <3> QED
      BY <3>1, <3>2
  <2>3. ObjectInv'
    BY <2>1, <2>2 DEF ObjectInv, Bounded, Threads
  <2> QED
    BY <2>1, <2>3 DEF StandInv
<1>9. CASE StartRecv
  <2>1. up' = up \cup {"recv"} /\ mpc = "recv" /\ mpc' = "loop" /\ UNCHANGED <<enabled, tpc>>
    BY <1>9 DEF StartRecv, Go, ThreadsUnchanged
  <2>2. ObjectInv'
    BY <2>1 DEF ObjectInv, Audio
  <2>3. Stands("recv") = {"h264Reg"}
    BY DEF Stands, Needs
  <2>4. "h264Reg" \in up
    BY <2>1, BaseObjects DEF ObjectInv
  <2> QED
    BY <2>1, <2>2, <2>3, <2>4, AddObjects
<1>10. CASE LeaveLoop
  <2>1. up' = up /\ mpc = "loop" /\ mpc' = "stop_uploader" /\ UNCHANGED <<enabled, tpc>>
    BY <1>10 DEF LeaveLoop, Go, ThreadsUnchanged
  <2>2. ObjectInv'
    BY <2>1 DEF ObjectInv
  <2> QED
    BY <2>1, <2>2 DEF StandInv
<1> QED
  BY <1>1, <1>2, <1>3, <1>4, <1>5, <1>6, <1>7, <1>8, <1>9, <1>10

\* main() until the teardown of the pipeline.
LEMMA StopObjects ==
    ASSUME TypeOK, ThreadInv, ObjectInv, StandInv,
           \/ (\E t \in Bounded : StopPusher(t) \/ WaitPusher(t) \/ DetachPusher(t))
           \/ StopAudio \/ JoinAudio \/ StopHttp \/ WakeHttp \/ JoinHttp \/ StopRecorder
    PROVE  ObjectInv' /\ StandInv'
<1> USE DEF HttpOver, AudioOver, Alive, Running
<1>1. ASSUME NEW t \in Bounded, StopPusher(t) \/ WaitPusher(t) \/ DetachPusher(t)
      PROVE  ObjectInv' /\ StandInv'
  <2>1. UNCHANGED <<up, tpc, enabled>>
    BY <1>1 DEF StopPusher, WaitPusher, DetachPusher, ThreadsUnchanged
  <2>2. /\ mpc \in {"stop_uploader", "wait_uploader", "stop_grafana", "wait_grafana"}
        /\ mpc' \in {"wait_uploader", "stop_grafana", "wait_grafana", "stop_audio"}
    BY <1>1 DEF StopPusher, WaitPusher, DetachPusher, Stopping, Waiting, AfterStop, Bounded
  <2>3. ObjectInv'
    BY <2>1, <2>2 DEF ObjectInv
  <2> QED
    BY <2>1, <2>3 DEF StandInv
<1>2. CASE StopAudio
  <2>1. UNCHANGED <<up, tpc, enabled>> /\ mpc = "stop_audio"
    BY <1>2 DEF StopAudio, Go
  <2>2. mpc' = IF tpc["audio"] = "none" THEN "stop_http" ELSE "join_audio"
    BY <1>2 DEF StopAudio, Go
  <2>3. ObjectInv'
    BY <2>1, <2>2 DEF ObjectInv
  <2> QED
    BY <2>1, <2>3 DEF StandInv
<1>3. CASE JoinAudio
  <2>1. /\ UNCHANGED <<tpc, enabled>> /\ mpc = "join_audio" /\ mpc' = "stop_http"
        /\ up' = up \ Audio /\ tpc["audio"] = "exited"
    BY <1>3 DEF JoinAudio, Go, ThreadsUnchanged
  <2>2. ObjectInv'
    <3>1. (Base \cup {"recorder", "tls", "jpeg", "jpegReg", "jpegRecv"}) \cap Audio = {}
      BY BaseObjects DEF Audio
    <3> QED
      BY <2>1, <3>1 DEF ObjectInv
  <2>3. \A o \in up' : Stands(o) \cap Audio = {}
    BY <2>1, Dependents DEF TypeOK, Audio
  <2> QED
    BY <2>1, <2>2, <2>3, RemoveObjects
<1>4. CASE StopHttp \/ WakeHttp \/ JoinHttp
  <2>1. UNCHANGED <<up, tpc, enabled>>
    BY <1>4 DEF StopHttp, WakeHttp, JoinHttp, Go, ThreadsUnchanged
  <2>2. /\ mpc \in {"stop_http", "wake_http", "join_http"}
        /\ mpc' \in {"wake_http", "join_http", "stop_recorder"}
    BY <1>4 DEF StopHttp, WakeHttp, JoinHttp, Go
  <2>3. ObjectInv'
    BY <2>1, <2>2 DEF ObjectInv
  <2> QED
    BY <2>1, <2>3 DEF StandInv
<1>5. CASE StopRecorder
  <2>1. /\ UNCHANGED <<tpc, enabled>> /\ mpc = "stop_recorder" /\ mpc' = "destory"
        /\ up' = up \ {"recorder"} /\ k' = 1
    BY <1>5 DEF StopRecorder, Go, ThreadsUnchanged
  <2>2. ~Running("audio")
    BY <2>1 DEF ThreadInv
  <2>3. ObjectInv'
    BY <2>1, <2>2 DEF ObjectInv
  <2>4. \A o \in up' : Stands(o) \cap {"recorder"} = {}
    BY <2>1, Dependents DEF TypeOK
  <2> QED
    BY <2>1, <2>3, <2>4, RemoveObjects
<1> QED
  BY <1>1, <1>2, <1>3, <1>4, <1>5

\* destory(): each call's object has lost by then all that stood on it.
LEMMA DestoryOrder ==
    ASSUME TypeOK, ThreadInv, ObjectInv, StandInv, TakeDown
    PROVE  \A o \in up' : Stands(o) \cap Ends(Teardown[k]) = {}
<1>1. /\ mpc = "destory" /\ k \in 1..14 /\ Teardown[k] \in up /\ ~Refused(Teardown[k])
      /\ up' = up \ Ends(Teardown[k])
  BY TeardownObjects DEF TakeDown, TypeOK
<1>2. up \cap Audio = {} /\ \A j \in 1..(k - 1) : j = 7 \/ Teardown[j] \notin up
  BY <1>1 DEF ObjectInv, Alive, AudioOver, HttpOver
<1>3. CASE k \in {1, 2, 3, 13}
  <2>1. Ends(Teardown[k]) \subseteq {"recv", "stream", "bound", "tuning"}
    BY <1>3, TeardownList DEF Ends
  <2> QED
    BY <1>1, <2>1, Dependents DEF TypeOK
<1>4. CASE k \in {4, 5, 6, 7, 8}
  <2>1. /\ Teardown[k] \in {"h264Reg", "jpegReg", "h264", "jpeg", "group"}
        /\ Ends(Teardown[k]) = {Teardown[k]}
    BY <1>4, TeardownList DEF Ends
  <2> QED
    BY <1>1, <2>1, EncoderNeeds DEF Refused
<1>5. CASE k = 9
  <2>1. Ends(Teardown[k]) = {"fs"}
    BY <1>5, TeardownList DEF Ends
  <2>2. "stream" \notin up /\ "bound" \notin up
    <3>1. 2 \in 1..(k - 1) /\ 3 \in 1..(k - 1)
      BY <1>5
    <3> QED
      BY <1>2, <3>1, TeardownList
  <2> QED
    BY <1>1, <2>1, <2>2, Dependents DEF TypeOK
<1>6. CASE k = 10
  <2>1. Ends(Teardown[k]) = {"system"} \cup ChanObjs
    BY <1>6, TeardownList DEF Ends
  <2>2. up' \subseteq Objects \ (ChanObjs \cup Audio)
    BY <1>1, <1>2, <2>1 DEF TypeOK
  <2>3. \A o \in Objects \ (ChanObjs \cup Audio) : Stands(o) \subseteq {"isp", "sensor"}
    BY DEF Objects, Stands, Needs, Audio, ChanObjs
  <2> QED
    BY <2>1, <2>2, <2>3 DEF ChanObjs
<1>7. CASE k = 11
  <2>1. Ends(Teardown[k]) = {"sensorOn"}
    BY <1>7, TeardownList DEF Ends
  <2>2. "stream" \notin up
    <3>1. 2 \in 1..(k - 1)
      BY <1>7
    <3> QED
      BY <1>2, <3>1, TeardownList
  <2> QED
    BY <1>1, <2>1, <2>2, Dependents DEF TypeOK
<1>8. CASE k = 12
  <2>1. Ends(Teardown[k]) = {"sensor"}
    BY <1>8, TeardownList DEF Ends
  <2>2. "sensorOn" \notin up
    <3>1. 11 \in 1..(k - 1)
      BY <1>8
    <3> QED
      BY <1>2, <3>1, TeardownList
  <2> QED
    BY <1>1, <2>1, <2>2, Dependents DEF TypeOK
<1>9. CASE k = 14
  <2>1. Ends(Teardown[k]) = {"isp"}
    BY <1>9, TeardownList DEF Ends
  <2>2. "sensor" \notin up /\ "tuning" \notin up
    <3>1. 12 \in 1..(k - 1) /\ 13 \in 1..(k - 1)
      BY <1>9
    <3> QED
      BY <1>2, <3>1, TeardownList
  <2> QED
    BY <1>1, <2>1, <2>2, Dependents DEF TypeOK
<1> QED
  BY <1>1, <1>3, <1>4, <1>5, <1>6, <1>7, <1>8, <1>9, TeardownList

LEMMA DestoryObjects ==
    ASSUME TypeOK, ThreadInv, ObjectInv, StandInv,
           TakeDown \/ SkipJpeg \/ TakeDownFails \/ TornDown
    PROVE  ObjectInv' /\ StandInv'
<1> USE DEF Alive
<1>1. /\ mpc = "destory" /\ mpc' \in {"destory", "cleanup"} /\ UNCHANGED <<tpc, enabled>>
      /\ k \in 1..15 /\ up' \subseteq up
  BY TeardownObjects DEF TakeDown, SkipJpeg, TakeDownFails, TornDown, Go, ThreadsUnchanged, TypeOK
<1>2. /\ tpc["http"] # "snap" /\ ~Running("audio")
      /\ up' \cap (Audio \cup {"recorder"}) = {}
  BY <1>1 DEF ThreadInv, ObjectInv, Running, AudioOver, HttpOver
<1>3. \A t \in Bounded : tpc'[t] = "post" => "tls" \in up'
  <2>1. CASE TakeDown
    <3>1. up' = up \ Ends(Teardown[k]) /\ k \in 1..14
      BY <1>1, <2>1, TeardownObjects DEF TakeDown
    <3>2. "tls" \notin Ends(Teardown[k])
      BY <3>1, TeardownList DEF Ends, ChanObjs
    <3> QED
      BY <1>1, <3>1, <3>2 DEF ObjectInv
  <2>2. CASE SkipJpeg \/ TakeDownFails \/ TornDown
    BY <1>1, <2>2 DEF ObjectInv, SkipJpeg, TakeDownFails, TornDown
  <2> QED
    BY <2>1, <2>2
<1>4. mpc' = "destory" => \A j \in 1..(k' - 1) : j = 7 \/ Teardown[j] \notin up'
  <2>1. CASE TakeDown
    <3>1. up' = up \ Ends(Teardown[k]) /\ k' = k + 1
      BY <2>1 DEF TakeDown
    <3>2. Teardown[k] \in Ends(Teardown[k])
      BY DEF Ends
    <3>3. \A j \in 1..(k' - 1) : j = k \/ j \in 1..(k - 1)
      BY <1>1, <3>1
    <3> QED
      BY <1>1, <3>1, <3>2, <3>3 DEF ObjectInv
  <2>2. CASE SkipJpeg
    <3>1. k = 6 /\ k' = 8 /\ "jpegReg" \notin up /\ up' = up
      BY <1>1, <2>2, TeardownList, TeardownObjects DEF SkipJpeg
    <3>2. \A j \in 1..(k' - 1) : j = 6 \/ j = 7 \/ j \in 1..(k - 1)
      BY <3>1
    <3> QED
      BY <1>1, <3>1, <3>2, TeardownList DEF ObjectInv
  <2>3. CASE TakeDownFails \/ TornDown
    BY <2>3 DEF TakeDownFails, TornDown, Go
  <2> QED
    BY <2>1, <2>2, <2>3
<1>5. ObjectInv'
  BY <1>1, <1>2, <1>3, <1>4 DEF ObjectInv, Running, AudioOver, HttpOver
<1>6. StandInv'
  <2>1. CASE TakeDown
    <3>1. up' = up \ Ends(Teardown[k])
      BY <2>1 DEF TakeDown
    <3> QED
      BY <2>1, <3>1, DestoryOrder, RemoveObjects
  <2>2. CASE SkipJpeg \/ TakeDownFails \/ TornDown
    BY <2>2 DEF StandInv, SkipJpeg, TakeDownFails, TornDown
  <2> QED
    BY <2>1, <2>2
<1> QED
  BY <1>5, <1>6

LEMMA StepObjects ==
    ASSUME TypeOK, ThreadInv, ObjectInv, StandInv, [Next]_vars
    PROVE  ObjectInv' /\ StandInv'
<1>1. CASE ThreadStep
  BY <1>1, ThreadObjects
<1>2. CASE SigTerm \/ UNCHANGED vars
  <2>1. UNCHANGED <<enabled, up, mpc, k, tpc>>
    BY <1>2 DEF SigTerm
  <2> QED
    BY <2>1 DEF ObjectInv, StandInv, Alive, Running
<1>3. CASE SdkUpFails \/ InitRecorderFails \/ StartRecvFails
  <2>1. up' = up /\ mpc' = "exit"
    BY <1>3 DEF SdkUpFails, InitRecorderFails, StartRecvFails, ReturnError
  <2> QED
    BY <2>1 DEF ObjectInv, StandInv, Alive
<1>4. CASE Cleanup
  <2>1. up' = up \ {"tls"} /\ mpc' = "exit"
    BY <1>4 DEF Cleanup, Go
  <2>2. \A o \in up' : Stands(o) \cap {"tls"} = {}
    BY <2>1, Dependents DEF TypeOK
  <2> QED
    BY <2>1, <2>2, RemoveObjects DEF ObjectInv, Alive
<1> QED
  BY <1>1, <1>2, <1>3, <1>4, StartObjects, StopObjects, DestoryObjects
     DEF Next, MainStep, ThreadStep, Gone

LEMMA InitObjects == Init => ThreadInv /\ ObjectInv /\ StandInv
<1> SUFFICES ASSUME Init PROVE ThreadInv /\ ObjectInv /\ StandInv
  OBVIOUS
<1> USE DEF Init
<1>1. ThreadInv
  BY DEF ThreadInv, Running, Bounded, Threads, Over, UploaderOver, GrafanaOver, AudioOver,
         HttpOver, Waiting
<1>2. StandInv
  BY DEF StandInv
<1>3. {Pipeline[j] : j \in 1..(k - 1)} = {}
  OBVIOUS
<1>4. ObjectInv
  BY <1>3, PipelineObjects DEF ObjectInv, Running, Bounded, Threads
<1> QED
  BY <1>1, <1>2, <1>4

SafeInv == TypeOK /\ ThreadInv /\ ObjectInv /\ StandInv

LEMMA SafeInvariant == Spec => []SafeInv
<1>1. Init => SafeInv
  BY InitTypeOK, InitObjects DEF SafeInv
<1>2. SafeInv /\ [Next]_vars => SafeInv'
  BY StepTypeOK, StepThreads, StepObjects DEF SafeInv
<1> QED
  BY <1>1, <1>2, PTL DEF Spec

\* No object of the SDK is taken down before what stands on it, whatever fails
\* on the way up or down, and whatever the HTTP thread has in hand: the order of
\* capture_and_encoding() and of destory() is right, but for the one call of
\* sample_system_exit() that LeftBehind names: the sensor goes before the tuning.
THEOREM PipelineOrdered == Spec => []NothingDangles
<1>1. SafeInv => NothingDangles
  <2> SUFFICES ASSUME SafeInv, NEW o \in up PROVE Needs(o) \subseteq up \cup LeftBehind(o)
    BY DEF NothingDangles
  <2> USE DEF SafeInv
  <2>1. CASE o # "tuning"
    <3>1. Needs(o) = Stands(o)
      BY <2>1 DEF Stands
    <3> QED
      BY <3>1 DEF StandInv
  <2>2. CASE o = "tuning"
    <3>1. Needs(o) = {"isp", "sensorOn"} /\ "isp" \in up
      BY <2>2 DEF Needs, Stands, StandInv
    <3>2. CASE mpc \in {"destory", "cleanup", "exit"}
      BY <2>2, <3>1, <3>2 DEF LeftBehind
    <3>3. CASE mpc = "sdk"
      <4>1. k - 1 \in 0..11 /\ up = {Pipeline[j] : j \in 1..(k - 1)}
        BY <3>3, PipelineObjects DEF ObjectInv, Alive, TypeOK
      <4>2. PICK j \in 1..(k - 1) : Pipeline[j] = "tuning"
        BY <2>2, <4>1
      <4>3. j = 5 /\ Pipeline[3] = "sensorOn"
        BY <4>1, <4>2 DEF Pipeline
      <4>4. 3 \in 1..(k - 1)
        BY <4>1, <4>2, <4>3
      <4> QED
        BY <3>1, <4>1, <4>3, <4>4
    <3>4. CASE mpc \notin {"sdk", "destory", "cleanup", "exit"}
      BY <3>1, <3>4, BaseObjects DEF ObjectInv, Alive
    <3> QED
      BY <3>2, <3>3, <3>4
  <2> QED
    BY <2>1, <2>2
<1> QED
  BY <1>1, SafeInvariant, PTL

\* No thread loses what it works with: main() waits for the audio and the HTTP
\* thread, for any length of their steps, before it takes down what they use, and
\* a network thread outlives its TLS state only if it was given up.
THEOREM NothingLostInUse == Spec => []NoUseAfterTeardown
<1>1. SafeInv => NoUseAfterTeardown
  <2> SUFFICES ASSUME SafeInv, Alive, NEW t \in Threads,
                      ~(TearingDown /\ t \in detached \cup {"autonight"})
               PROVE  InUse(t) \subseteq up
    BY DEF NoUseAfterTeardown
  <2> USE DEF SafeInv, Alive
  <2>1. CASE t = "audio"
    <3>1. ~Running("audio") => InUse(t) = {}
      BY <2>1 DEF InUse, Running, Bounded
    <3>2. Running("audio") => Audio \cup {"recorder"} \subseteq up
      BY DEF ObjectInv
    <3>3. InUse(t) \subseteq Audio \cup {"recorder"}
      BY <2>1 DEF InUse, Audio, Bounded
    <3> QED
      BY <3>1, <3>2, <3>3
  <2>2. CASE t = "http"
    <3>1. tpc[t] # "snap" => InUse(t) = {}
      BY <2>2 DEF InUse, Bounded
    <3>2. InUse(t) \subseteq {"jpeg", "jpegReg", "jpegRecv"}
      BY <2>2 DEF InUse, Bounded
    <3> QED
      BY <2>2, <3>1, <3>2 DEF ObjectInv
  <2>3. Running(t) => mpc # "sdk"
    BY DEF ThreadInv
  <2>4. mpc \notin {"sdk", "destory", "cleanup"} => {"tuning", "h264"} \subseteq up
    BY BaseObjects DEF ObjectInv
  <2>5. CASE t = "autonight"
    <3>1. ~Running(t) => InUse(t) = {}
      BY <2>5 DEF InUse, Running, Bounded
    <3>2. InUse(t) \subseteq {"tuning", "h264"}
      BY <2>5 DEF InUse, Bounded
    <3> QED
      BY <2>3, <2>4, <2>5, <3>1, <3>2 DEF TearingDown
  <2>6. CASE t \in Bounded
    <3>1. CASE tpc[t] = "post"
      <4>1. InUse(t) = {"tls"}
        BY <2>6, <3>1 DEF InUse, Bounded
      <4> QED
        BY <2>6, <3>1, <4>1 DEF ObjectInv
    <3>2. CASE tpc[t] # "post"
      <4>1. InUse(t) \subseteq {"tuning", "h264"}
        BY <2>6, <3>2 DEF InUse, Bounded
      <4>2. ~Running(t) => InUse(t) = {}
        BY <2>6, <3>2 DEF InUse, Running, Bounded
      <4>3. Running(t) /\ TearingDown => t \in detached
        BY <2>6 DEF ThreadInv, TearingDown, Over, UploaderOver, GrafanaOver, AudioOver,
                    HttpOver, Waiting
      <4> QED
        BY <2>3, <2>4, <4>1, <4>2, <4>3 DEF TearingDown
    <3> QED
      BY <3>1, <3>2
  <2> QED
    BY <2>1, <2>2, <2>5, <2>6 DEF Threads, Bounded
<1> QED
  BY <1>1, SafeInvariant, PTL

-----------------------------------------------------------------------------
(* What is left at the exit.                                               *)

LEMMA TeardownSet ==
    {Teardown[j] : j \in 1..14} = Base \cup {"recv", "jpeg", "jpegReg"}
<1>1. \A j \in 1..14 : Teardown[j] \in Base \cup {"recv", "jpeg", "jpegReg"}
  BY TeardownList, BaseObjects
<1>2. \A x \in Base \cup {"recv", "jpeg", "jpegReg"} : \E j \in 1..14 : Teardown[j] = x
  BY TeardownList, BaseObjects
<1> QED
  BY <1>1, <1>2

\* Nothing in the list of destory() stands on what comes before it.
LEMMA TeardownOrder ==
    ASSUME NEW i \in 1..14, NEW j \in i..14
    PROVE  Teardown[i] \notin Stands(Teardown[j])
<1>1. j \in 1..14
  OBVIOUS
<1>2. Teardown[i] \in Objects /\ Teardown[j] \in Objects
  BY <1>1, TeardownObjects
<1>3. CASE i \in {1, 2, 3, 13}
  BY <1>2, <1>3, TeardownList, Dependents
<1>4. CASE i \in {4, 5, 6, 7}
  BY <1>1, <1>2, <1>4, TeardownList, Dependents
<1>5. CASE i \in {8, 9}
  BY <1>1, <1>2, <1>5, TeardownList, Dependents
<1>6. CASE i = 10
  BY <1>1, <1>2, <1>6, TeardownList, Dependents DEF ChanObjs, Audio
<1>7. CASE i \in {11, 12, 14}
  BY <1>1, <1>2, <1>7, TeardownList, Dependents
<1> QED
  BY <1>3, <1>4, <1>5, <1>6, <1>7, TeardownList

LEMMA NoFaultSoFar ==
    ASSUME TypeOK, [Next]_vars, Alive', "http" \in enabled', faults' = 0, CleanInv
    PROVE  /\ Alive /\ "http" \in enabled /\ faults = 0 /\ ~Fault
           /\ mpc \in {"http"} \cup Serving => {"jpeg", "jpegReg"} \subseteq up
           /\ mpc \in Serving \ {"recv"} => "recv" \in up
           /\ "jpegRecv" \in up => tpc["http"] = "snap"
           /\ mpc = "destory" => up \ {"tls"} = {Teardown[j] : j \in k..Len(Teardown)}
           /\ mpc = "cleanup" => up \subseteq {"tls"}
<1>1. ~Fault
  BY DEF Fault, TypeOK
<1>2. Alive /\ enabled' = enabled /\ (faults' = faults \/ Fault)
  <2>1. CASE ThreadStep
    <3>1. faults' = faults \/ Fault
      BY <2>1 DEF ThreadStep, AudioStep, AutonightStep, PusherStep, HttpStep, HttpClient,
         HttpSocket, HttpBind, HttpTest, HttpWoken, HttpAnswer, HttpSnap, HttpSnapEnds
    <3> QED
      BY <2>1, <3>1, ThreadStepEffect
  <2>2. CASE SigTerm \/ UNCHANGED vars
    BY <2>2 DEF SigTerm, Alive
  <2>3. CASE \/ SdkUp \/ SdkUpFails \/ SdkReady \/ InitRecorder \/ InitRecorderFails
             \/ StartAudio \/ StartAudioFails
             \/ (\E t \in Bounded : StartPusher(t) \/ NoPusher(t))
             \/ StartJpeg \/ StartHttp \/ StartRecv \/ StartRecvFails \/ LeaveLoop
    BY <2>3 DEF SdkUp, SdkUpFails, SdkReady, InitRecorder, InitRecorderFails,
       StartAudio, StartAudioFails, StartPusher, NoPusher, StartJpeg, StartHttp, StartRecv,
       StartRecvFails, LeaveLoop, ReturnError, Go, Alive, Bounded
  <2>4. CASE \/ (\E t \in Bounded : StopPusher(t) \/ WaitPusher(t) \/ DetachPusher(t))
             \/ StopAudio \/ JoinAudio \/ StopHttp \/ WakeHttp \/ JoinHttp \/ StopRecorder
             \/ TakeDown \/ SkipJpeg \/ TakeDownFails \/ TornDown \/ Cleanup
    BY <2>4 DEF StopPusher, WaitPusher, DetachPusher, Stopping, Waiting, StopAudio, JoinAudio,
       StopHttp, WakeHttp, JoinHttp, StopRecorder, TakeDown, SkipJpeg, TakeDownFails, TornDown,
       Cleanup, Go, Alive, Bounded
  <2> QED
    BY <2>1, <2>2, <2>3, <2>4 DEF Next, MainStep, ThreadStep, Gone
<1>3. faults = 0
  BY <1>1, <1>2
<1> QED
  BY <1>1, <1>2, <1>3 DEF CleanInv

LEMMA StepClean ==
    ASSUME TypeOK, ThreadInv, ObjectInv, StandInv, CleanInv, [Next]_vars
    PROVE  CleanInv'
<1> SUFFICES ASSUME Alive', "http" \in enabled', faults' = 0 PROVE CleanInv'
  BY DEF CleanInv
<1>0. /\ Alive /\ "http" \in enabled /\ faults = 0 /\ ~Fault
      /\ mpc \in {"http"} \cup Serving => {"jpeg", "jpegReg"} \subseteq up
      /\ mpc \in Serving \ {"recv"} => "recv" \in up
      /\ "jpegRecv" \in up => tpc["http"] = "snap"
      /\ mpc = "destory" => up \ {"tls"} = {Teardown[j] : j \in k..Len(Teardown)}
      /\ mpc = "cleanup" => up \subseteq {"tls"}
  BY NoFaultSoFar
<1> USE DEF Serving, UploaderOver, GrafanaOver, AudioOver, HttpOver
<1>1. CASE ThreadStep
  <2>1. UNCHANGED <<mpc, k>>
    BY <1>1, ThreadStepEffect
  <2>2. CASE up' = up /\ (tpc["http"] = "snap" => tpc'["http"] = "snap")
    BY <1>0, <2>1, <2>2 DEF CleanInv
  <2>3. CASE HttpSnap \/ HttpSnapEnds
    <3>1. Running("http")
      BY <2>3 DEF HttpSnap, HttpSnapEnds, Move, Running
    <3>2. mpc \notin HttpOver
      BY <1>0, <3>1 DEF ThreadInv
    <3>3. CASE HttpSnap
      <4>1. up' = up \cup {"jpegRecv"} /\ tpc'["http"] = "snap"
        BY <3>3 DEF HttpSnap, Move, TypeOK, Threads
      <4> QED
        BY <1>0, <2>1, <3>2, <4>1 DEF CleanInv
    <3>4. CASE HttpSnapEnds
      <4>1. up' = up \ {"jpegRecv"}
        BY <1>0, <3>4 DEF HttpSnapEnds
      <4> QED
        BY <1>0, <2>1, <3>2, <4>1 DEF CleanInv
    <3> QED
      BY <2>3, <3>3, <3>4
  <2>4. \/ HttpSnap \/ HttpSnapEnds
        \/ up' = up /\ (tpc["http"] = "snap" => tpc'["http"] = "snap")
    BY <1>1 DEF ThreadStep, AudioStep, AutonightStep, PusherStep, Bounded, Threads, HttpStep,
       HttpClient, HttpSocket, HttpBind, HttpTest, HttpWoken, HttpAnswer, Move, TypeOK
  <2> QED
    BY <2>2, <2>3, <2>4
<1>2. CASE SigTerm \/ UNCHANGED vars
  <2>1. UNCHANGED <<up, mpc, k, tpc>>
    BY <1>2 DEF SigTerm
  <2> QED
    BY <1>0, <2>1 DEF CleanInv
<1>3. ~(SdkUpFails \/ InitRecorderFails \/ StartRecvFails \/ Cleanup)
  BY DEF SdkUpFails, InitRecorderFails, StartRecvFails, ReturnError, Cleanup, Go, Alive
<1>4. CASE \/ SdkUp \/ SdkReady \/ InitRecorder \/ StartAudio \/ StartAudioFails
           \/ (\E t \in Bounded : StartPusher(t) \/ NoPusher(t))
  <2>1. mpc' \in {"sdk", "recorder", "audio", "grafana", "uploader", "jpeg"}
    BY <1>4 DEF SdkUp, SdkReady, InitRecorder, StartAudio, StartAudioFails, StartPusher,
       NoPusher, Go, AfterStart
  <2>2. "jpegRecv" \in up' => "jpegRecv" \in up
    <3>1. CASE SdkUp
      <4>1. up' = up \cup {Pipeline[k]} /\ k \in 1..11
        BY <3>1, PipelineObjects DEF SdkUp, TypeOK
      <4> QED
        BY <4>1, PipelineObjects
    <3>2. CASE StartAudioFails
      <4>1. \A c \in DOMAIN AudioHeld : "jpegRecv" \notin AudioHeld[c]
        BY DEF AudioHeld, Audio
      <4> QED
        BY <3>2, <4>1 DEF StartAudioFails
    <3>3. CASE \/ SdkReady \/ InitRecorder \/ StartAudio
               \/ (\E t \in Bounded : StartPusher(t) \/ NoPusher(t))
      BY <3>3 DEF SdkReady, InitRecorder, StartAudio, StartPusher, NoPusher, Audio
    <3> QED
      BY <1>4, <3>1, <3>2, <3>3
  <2>3. tpc["http"] = "snap" => tpc'["http"] = "snap"
    <3>1. \/ tpc' = tpc
          \/ \E t \in Threads \ {"http"}, pc \in Places : tpc' = [tpc EXCEPT ![t] = pc]
      BY <1>4 DEF SdkUp, SdkReady, InitRecorder, StartAudio, StartAudioFails, StartPusher,
         NoPusher, Start, ThreadsUnchanged, Bounded, Threads, Places
    <3> QED
      BY <3>1 DEF TypeOK, Threads
  <2> QED
    BY <1>0, <2>1, <2>2, <2>3 DEF CleanInv
<1>5. CASE StartJpeg
  <2>1. up' = up \cup {"jpeg", "jpegReg"} /\ mpc' = "http" /\ tpc' = tpc
    BY <1>0, <1>5 DEF StartJpeg, Go, ThreadsUnchanged
  <2> QED
    BY <1>0, <2>1 DEF CleanInv
<1>6. CASE StartHttp
  <2>1. up' = up /\ mpc = "http" /\ mpc' = "recv"
    BY <1>6 DEF StartHttp, Go
  <2>2. "jpegRecv" \notin up
    BY <1>0, <2>1 DEF ThreadInv, Running
  <2> QED
    BY <1>0, <2>1, <2>2 DEF CleanInv
<1>7. CASE StartRecv
  <2>1. up' = up \cup {"recv"} /\ mpc = "recv" /\ mpc' = "loop" /\ tpc' = tpc
    BY <1>7 DEF StartRecv, Go, ThreadsUnchanged
  <2> QED
    BY <1>0, <2>1 DEF CleanInv
<1>8. CASE LeaveLoop \/ (\E t \in Bounded : StopPusher(t) \/ WaitPusher(t) \/ DetachPusher(t))
  <2>1. /\ mpc \in Serving \ {"recv", "stop_recorder"}
        /\ mpc' \in Serving \ {"recv", "stop_recorder"} /\ UNCHANGED <<up, tpc>>
    BY <1>8 DEF LeaveLoop, StopPusher, WaitPusher, DetachPusher, Go, ThreadsUnchanged,
       Stopping, Waiting, AfterStop, Bounded
  <2> QED
    BY <1>0, <2>1 DEF CleanInv
<1>9. CASE StopAudio \/ JoinAudio \/ StopHttp \/ WakeHttp \/ JoinHttp
  <2>1. /\ mpc \in {"stop_audio", "join_audio", "stop_http", "wake_http", "join_http"}
        /\ mpc' \in {"join_audio", "stop_http", "wake_http", "join_http", "stop_recorder"}
        /\ tpc' = tpc
    BY <1>9 DEF StopAudio, JoinAudio, StopHttp, WakeHttp, JoinHttp, Go, ThreadsUnchanged
  <2>2. up' = up \/ up' = up \ Audio
    BY <1>9 DEF StopAudio, JoinAudio, StopHttp, WakeHttp, JoinHttp
  <2> QED
    BY <1>0, <2>1, <2>2 DEF CleanInv, Audio
<1>10. CASE StopRecorder
  <2>1. /\ mpc = "stop_recorder" /\ mpc' = "destory" /\ tpc' = tpc
        /\ up' = up \ {"recorder"} /\ k' = 1
    BY <1>10 DEF StopRecorder, Go, ThreadsUnchanged
  <2>2. "jpegRecv" \notin up
    BY <1>0, <2>1 DEF ThreadInv, Running
  <2>3. up \cap Audio = {} /\ Base \subseteq up /\ up \subseteq Objects
    BY <1>0, <2>1 DEF ObjectInv, TypeOK
  <2>4. Base \cup {"recv", "jpeg", "jpegReg"} \subseteq up
    BY <1>0, <2>1, <2>3
  <2>5. Objects = Base \cup {"recv", "jpeg", "jpegReg", "jpegRecv", "recorder", "tls"} \cup Audio
    BY BaseObjects DEF Objects, ChanObjs
  <2>6. (Base \cup {"recv", "jpeg", "jpegReg"}) \cap {"recorder", "tls"} = {}
    BY BaseObjects
  <2>7. up' \ {"tls"} = Base \cup {"recv", "jpeg", "jpegReg"}
    BY <2>1, <2>2, <2>3, <2>4, <2>5, <2>6
  <2>8. up' \ {"tls"} = {Teardown[j] : j \in k'..Len(Teardown)'}
    BY <2>1, <2>7, TeardownSet, TeardownObjects
  <2> QED
    BY <2>1, <2>2, <2>8 DEF CleanInv
<1>11. CASE TakeDown
  <2>1. /\ mpc = "destory" /\ mpc' = "destory" /\ tpc' = tpc /\ k \in 1..14
        /\ up' = up \ Ends(Teardown[k]) /\ k' = k + 1
    BY <1>11, TeardownObjects DEF TakeDown, Go, ThreadsUnchanged, TypeOK
  <2>2. up \ {"tls"} = {Teardown[j] : j \in k..14}
    BY <1>0, <2>1, TeardownObjects
  <2>3. \A j \in (k + 1)..14 : Teardown[j] \notin Ends(Teardown[k])
    <3>1. ASSUME NEW j \in (k + 1)..14 PROVE Teardown[j] \notin Ends(Teardown[k])
      <4>1. j \in 1..14 /\ j # k
        BY <2>1
      <4>2. CASE k = 10
        BY <3>1, <4>1, <4>2, TeardownList DEF Ends, ChanObjs
      <4>3. CASE k # 10
        <5>1. Teardown[k] # "system"
          BY <2>1, <4>3, TeardownList
        <5> QED
          BY <2>1, <4>1, <5>1, TeardownOnce DEF Ends
      <4> QED
        BY <4>2, <4>3
    <3> QED
      BY <3>1
  <2>4. up' \ {"tls"} = {Teardown[j] : j \in (k + 1)..14}
    <3>1. \A x \in up' \ {"tls"} : \E j \in k..14 : x = Teardown[j]
      BY <2>1, <2>2
    <3>2. Teardown[k] \notin up'
      BY <2>1 DEF Ends
    <3>3. \A j \in k..14 : j = k \/ j \in (k + 1)..14
      BY <2>1
    <3>4. up' \ {"tls"} \subseteq {Teardown[j] : j \in (k + 1)..14}
      BY <3>1, <3>2, <3>3
    <3>5. {Teardown[j] : j \in (k + 1)..14} \subseteq up \ {"tls"}
      BY <2>1, <2>2
    <3>6. {Teardown[j] : j \in (k + 1)..14} \subseteq up' \ {"tls"}
      BY <2>1, <2>3, <3>5
    <3> QED
      BY <3>4, <3>6
  <2>5. "jpegRecv" \in up' => tpc'["http"] = "snap"
    BY <1>0, <2>1
  <2> QED
    BY <2>1, <2>4, <2>5, TeardownObjects DEF CleanInv
<1>12. ~SkipJpeg
  <2> SUFFICES ASSUME SkipJpeg PROVE FALSE
    OBVIOUS
  <2>1. mpc = "destory" /\ k \in 1..14 /\ Teardown[k] \notin up /\ Teardown[k] # "tls"
    BY TeardownObjects, TeardownList DEF SkipJpeg, TypeOK
  <2>2. k \in k..14
    BY <2>1
  <2> QED
    BY <1>0, <2>1, <2>2, TeardownObjects
<1>13. ~TakeDownFails
  <2> SUFFICES ASSUME TakeDownFails PROVE FALSE
    OBVIOUS
  <2>1. mpc = "destory" /\ k \in 1..14
    BY TeardownObjects DEF TakeDownFails, TypeOK
  <2>2. up \ {"tls"} = {Teardown[j] : j \in k..14}
    BY <1>0, <2>1, TeardownObjects
  <2>3. \A o \in up : Teardown[k] \notin Stands(o)
    <3>1. ASSUME NEW o \in up, o # "tls" PROVE Teardown[k] \notin Stands(o)
      <4>1. PICK j \in k..14 : o = Teardown[j]
        BY <2>2, <3>1
      <4> QED
        BY <2>1, <4>1, TeardownOrder
    <3>2. Stands("tls") = {}
      BY DEF Stands, Needs
    <3> QED
      BY <3>1, <3>2
  <2>4. ~(Teardown[k] = "jpegReg" /\ "jpeg" \notin up)
    <3> SUFFICES ASSUME Teardown[k] = "jpegReg" PROVE "jpeg" \in up
      OBVIOUS
    <3>1. k = 6
      BY <2>1, TeardownList
    <3>2. 7 \in k..14
      BY <3>1
    <3> QED
      BY <2>2, <3>2, TeardownList
  <2> QED
    BY <1>0, <2>3, <2>4, EncoderNeeds DEF TakeDownFails, Refused
<1>14. CASE TornDown
  <2>1. mpc = "destory" /\ mpc' = "cleanup" /\ k = 15 /\ UNCHANGED <<up, tpc>>
    BY <1>14, TeardownObjects DEF TornDown, Go, ThreadsUnchanged, TypeOK
  <2>2. up \ {"tls"} = {}
    BY <1>0, <2>1, TeardownObjects
  <2> QED
    BY <1>0, <2>1, <2>2 DEF CleanInv
<1> QED
  BY <1>1, <1>2, <1>3, <1>4, <1>5, <1>6, <1>7, <1>8, <1>9, <1>10, <1>11, <1>12, <1>13, <1>14
     DEF Next, MainStep, ThreadStep, Gone

LEMMA StepReleased ==
    ASSUME TypeOK, ThreadInv, ObjectInv, CleanInv, ReleasedOnExit, [Next]_vars
    PROVE  ReleasedOnExit'
<1>1. CASE mpc = "exit"
  <2>1. ~ThreadStep
    BY <1>1, ThreadStepEffect DEF Alive
  <2>2. ~MainStep
    BY <1>1 DEF MainStep, SdkUp, SdkUpFails, SdkReady, InitRecorder, InitRecorderFails,
       StartAudio, StartAudioFails, StartPusher, NoPusher, StartJpeg, StartHttp, StartRecv,
       StartRecvFails, LeaveLoop, StopPusher, WaitPusher, DetachPusher, Stopping, Waiting,
       StopAudio, JoinAudio, StopHttp, WakeHttp, JoinHttp, StopRecorder, TakeDown, SkipJpeg,
       TakeDownFails, TornDown, Cleanup, Bounded
  <2>3. UNCHANGED vars
    BY <1>1, <2>1, <2>2 DEF Next, ThreadStep, SigTerm, Alive, Gone
  <2> QED
    BY <2>3 DEF ReleasedOnExit
<1>2. CASE mpc # "exit" /\ mpc' = "exit"
  <2>1. CASE SdkUpFails \/ InitRecorderFails \/ StartRecvFails
    BY <2>1 DEF SdkUpFails, InitRecorderFails, StartRecvFails, ReturnError, ReleasedOnExit
  <2>2. CASE Cleanup
    <3>1. /\ mpc = "cleanup" /\ up' = up \ {"tls"} /\ UNCHANGED <<enabled, faults>>
      BY <2>2 DEF Cleanup, Go
    <3>2. up \cap (Audio \cup {"recorder"}) = {}
      BY <1>2, <3>1 DEF ObjectInv, Alive, AudioOver, HttpOver
    <3>3. "http" \in enabled /\ faults = 0 => up \subseteq {"tls"}
      BY <1>2, <3>1 DEF CleanInv, Alive
    <3> QED
      BY <3>1, <3>2, <3>3 DEF ReleasedOnExit
  <2>3. ~ThreadStep /\ ~SigTerm /\ ~UNCHANGED vars
    BY <1>2, ThreadStepEffect DEF SigTerm
  <2>4. ~(\/ SdkUp \/ SdkReady \/ InitRecorder \/ StartAudio \/ StartAudioFails
          \/ (\E t \in Bounded : StartPusher(t) \/ NoPusher(t))
          \/ StartJpeg \/ StartHttp \/ StartRecv \/ LeaveLoop)
    BY <1>2 DEF SdkUp, SdkReady, InitRecorder, StartAudio, StartAudioFails, StartPusher,
       NoPusher, AfterStart, StartJpeg, StartHttp, StartRecv, LeaveLoop, Go
  <2>5. ~(\/ (\E t \in Bounded : StopPusher(t) \/ WaitPusher(t) \/ DetachPusher(t))
          \/ StopAudio \/ JoinAudio \/ StopHttp \/ WakeHttp \/ JoinHttp \/ StopRecorder
          \/ TakeDown \/ SkipJpeg \/ TakeDownFails \/ TornDown)
    BY <1>2 DEF StopPusher, WaitPusher, DetachPusher, Waiting, AfterStop, StopAudio, JoinAudio,
       StopHttp, WakeHttp, JoinHttp, StopRecorder, TakeDown, SkipJpeg, TakeDownFails, TornDown, Go
  <2> QED
    BY <2>1, <2>2, <2>3, <2>4, <2>5, <1>2 DEF Next, MainStep, ThreadStep, Gone, Alive
<1>3. CASE mpc' # "exit"
  BY <1>3 DEF ReleasedOnExit
<1> QED
  BY <1>1, <1>2, <1>3

\* After an orderly exit the recording is closed, and the audio and TLS state
\* gone, whatever failed; and a camera that serves snapshots has given back
\* everything when no SDK call failed: destory() finds in its order all it takes
\* down, and no call of it meets an object that still stands on its own.
THEOREM ExitReleases == Spec => []ReleasedOnExit
<1>1. Init => CleanInv /\ ReleasedOnExit
  BY DEF Init, CleanInv, ReleasedOnExit, Serving, UploaderOver, GrafanaOver, AudioOver, HttpOver
<1>2. SafeInv /\ CleanInv /\ ReleasedOnExit /\ [Next]_vars => CleanInv' /\ ReleasedOnExit'
  BY StepClean, StepReleased DEF SafeInv
<1> QED
  BY <1>1, <1>2, SafeInvariant, PTL DEF Spec
=============================================================================
