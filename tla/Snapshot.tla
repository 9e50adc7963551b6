------------------------------ MODULE Snapshot ------------------------------
(***************************************************************************)
(* GET /snapshot (http_server.c): the single server thread has the JPEG    *)
(* channel of the encoder receive pictures, saves one to a file named      *)
(* after the second it started in (sample_do_get_jpeg_snap(),              *)
(* imp-common.c), looks for the newest such file on the camera, sends that *)
(* and unlinks it.  Around it: the encoder, which fills its one buffer     *)
(* whenever the channel receives, clients, and the wall clock.             *)
(***************************************************************************)
EXTENDS Integers, FiniteSets

CONSTANTS
    PerSec,         \* ticks per second: two captures may share a second
    OldFiles,       \* files that may lie there when the daemon starts
    NoPicture,
    MaxTime,        \* bound on time, in ticks
    MaxRequests, MaxFaults, MaxSteps    \* bounds on requests, failures, clock steps

\* Directories are numbered in the order of dirs[]; /tmp is the first.
File == [dir : 1..3, name : Int, mtime : Int, req : Int, whole : BOOLEAN, pic : Int]

ASSUME SnapshotAssumption ==
    /\ PerSec \in Nat \ {0} /\ OldFiles \subseteq File /\ NoPicture \notin Int
    /\ MaxTime \in Nat /\ MaxRequests \in Nat /\ MaxFaults \in Nat /\ MaxSteps \in Nat

VARIABLES
    time,           \* real time
    wall,           \* time(), in ticks
    files,          \* snap-*.jpg
    receiving,      \* the JPEG channel is between Start- and StopRecvPic
    buffer,         \* when the picture in its stream buffer was taken
    pc,             \* the server thread
    req, asked,     \* number of the request in hand, and when it came
    name,           \* snap_path
    ret,            \* what the capture returns
    answer,         \* the last answer
    faults, steps,  \* failures and clock steps so far
    left,           \* history: captures that left a file and were not answered with one
    blurred,        \* history: a step back, or a write that failed part way
    stale,          \* history: a picture stayed in the buffer at StopRecvPic
    stuck           \* history: StopRecvPic failed

envVars     == <<time, wall, steps>>
channelVars == <<receiving, buffer>>
requestVars == <<req, asked>>
historyVars == <<left, blurred, stale, stuck>>
vars == <<files, pc, name, ret, answer, faults,
          envVars, channelVars, requestVars, historyVars>>

Second == wall \div PerSec

NoAnswer == [status |-> 0]
Failed   == [status |-> 503]
Missing  == [status |-> 404]

Init ==
    /\ time = 0 /\ wall = PerSec /\ steps = 0
    /\ files \in {{}} \cup {{f} : f \in OldFiles}
    /\ receiving = FALSE /\ buffer = NoPicture
    /\ pc = "idle" /\ req = 0 /\ asked = 0 /\ name = 0 /\ ret = 0
    /\ answer = NoAnswer /\ faults = 0
    /\ left = Cardinality(files)
    /\ blurred = FALSE /\ stale = FALSE /\ stuck = FALSE

-----------------------------------------------------------------------------
(* Time and the encoder.                                                   *)

Tick ==
    /\ time < MaxTime
    /\ time' = time + 1 /\ wall' = wall + 1
    /\ UNCHANGED <<steps, files, pc, name, ret, answer, faults, channelVars,
                   requestVars, historyVars>>

\* The clock is set, at start-up by NTP for one.
ClockStep ==
    /\ steps < MaxSteps /\ steps' = steps + 1
    /\ \E w \in 0..(MaxTime + PerSec) :
          wall' = w /\ blurred' = (blurred \/ w < wall)
    /\ UNCHANGED <<time, files, pc, name, ret, answer, faults, channelVars,
                   requestVars, left, stale, stuck>>

\* JPEG channels have one stream buffer; a picture stays in it until released,
\* and StopRecvPic does not empty it (imp_encoder.h).
Encode ==
    /\ receiving /\ buffer = NoPicture
    /\ buffer' = time
    /\ UNCHANGED <<files, pc, name, ret, answer, faults, receiving, envVars,
                   requestVars, historyVars>>

-----------------------------------------------------------------------------
(* sample_do_get_jpeg_snap().                                              *)

Go(l) == pc' = l

Fault == faults < MaxFaults /\ faults' = faults + 1

Request ==
    /\ pc = "idle" /\ req < MaxRequests
    /\ req' = req + 1 /\ asked' = time
    /\ Go("start")
    /\ UNCHANGED <<files, name, ret, answer, faults, envVars, channelVars, historyVars>>

StartRecvPic ==
    /\ pc = "start" /\ ~receiving
    /\ receiving' = TRUE /\ Go("open")
    /\ UNCHANGED <<files, name, ret, answer, faults, buffer, envVars, requestVars,
                   historyVars>>

\* "leaving the channel in receive mode makes every later snapshot fail".
StartRecvPicFails ==
    /\ pc = "start"
    /\ (receiving /\ UNCHANGED faults) \/ Fault
    /\ answer' = Failed /\ Go("idle")
    /\ UNCHANGED <<files, name, ret, channelVars, envVars, requestVars, historyVars>>

Named(n) == {f \in files : f.dir = 1 /\ f.name = n}

\* O_CREAT | O_TRUNC: a file of the same second is emptied.
OpenFile ==
    /\ pc = "open"
    /\ name' = Second
    /\ files' = (files \ Named(Second)) \cup
                {[dir |-> 1, name |-> Second, mtime |-> Second, req |-> req,
                  whole |-> FALSE, pic |-> -1]}
    /\ Go("poll")
    /\ UNCHANGED <<ret, answer, faults, channelVars, envVars, requestVars, historyVars>>

\* Mutant: a failed open() returns at once.
OpenFailsEarly ==
    /\ pc = "open" /\ Fault
    /\ answer' = Failed /\ Go("idle")
    /\ UNCHANGED <<files, name, ret, channelVars, envVars, requestVars, historyVars>>


OpenFails ==
    /\ pc = "open" /\ Fault
    /\ ret' = -1 /\ Go("stop")
    /\ UNCHANGED <<files, name, answer, channelVars, envVars, requestVars, historyVars>>

PollAndGet ==
    /\ pc = "poll" /\ buffer # NoPicture
    /\ Go("save")
    /\ UNCHANGED <<files, name, ret, answer, faults, channelVars, envVars,
                   requestVars, historyVars>>

\* No picture within a second, or GetStream fails: the empty file stays.
PollOrGetFails ==
    /\ pc = "poll"
    /\ (buffer = NoPicture /\ UNCHANGED faults) \/ Fault
    /\ ret' = -1 /\ left' = left + 1 /\ Go("stop")
    /\ UNCHANGED <<files, name, answer, channelVars, envVars, requestVars, blurred,
                   stale, stuck>>

Written(w) ==
    files' = (files \ Named(name)) \cup
             {[f EXCEPT !.mtime = Second, !.whole = w, !.pic = buffer] : f \in Named(name)}

\* Mutant: save_stream() returns the number of packs written.
SaveStreamCounts ==
    /\ pc = "save"
    /\ Written(TRUE) /\ ret' = 1 /\ Go("release")
    /\ UNCHANGED <<name, answer, faults, channelVars, envVars, requestVars, historyVars>>


SaveStream ==
    /\ pc = "save"
    /\ Written(TRUE) /\ ret' = 0 /\ Go("release")
    /\ UNCHANGED <<name, answer, faults, channelVars, envVars, requestVars, historyVars>>

\* /tmp is full: a part of the picture is written.
SaveStreamFails ==
    /\ pc = "save" /\ Fault
    /\ Written(FALSE) /\ ret' = -1 /\ Go("release")
    /\ left' = left + 1 /\ blurred' = TRUE
    /\ UNCHANGED <<name, answer, channelVars, envVars, requestVars, stale, stuck>>

ReleaseStream ==
    /\ pc = "release"
    /\ buffer' = NoPicture /\ Go("stop")
    /\ UNCHANGED <<files, name, ret, answer, faults, receiving, envVars, requestVars,
                   historyVars>>

\* Whatever happened, the channel is stopped; the result of that is ignored.
StopRecvPic ==
    /\ pc = "stop"
    /\ \/ receiving' = FALSE /\ UNCHANGED <<faults, stuck>>
       \/ Fault /\ stuck' = TRUE /\ UNCHANGED receiving
    /\ stale' = (stale \/ buffer # NoPicture)
    /\ IF ret < 0
       THEN answer' = Failed /\ Go("idle")
       ELSE UNCHANGED answer /\ Go("find")
    /\ UNCHANGED <<files, name, ret, buffer, envVars, requestVars, left, blurred>>

-----------------------------------------------------------------------------
(* handle_request(), find_latest_snapshot().                               *)

\* Mutant: a later directory also wins with a file just as new.
LatestLater ==
    {f \in files :
        /\ f.mtime > 0
        /\ \A g \in files : g.mtime < f.mtime \/ (g.mtime = f.mtime /\ g.dir <= f.dir)}

\* The newest file: of equally new ones that in the first directory, and within
\* it the first that readdir() returns.
Latest ==
    {f \in files :
        /\ f.mtime > 0
        /\ \A g \in files : g.mtime < f.mtime \/ (g.mtime = f.mtime /\ g.dir >= f.dir)}

\* Mutant: the file that was sent is not unlinked.
ServeAndKeep ==
    /\ pc = "find"
    /\ \E f \in Latest :
          answer' = [status |-> 200, req |-> req, asked |-> asked, file |-> f]
    /\ Go("idle")
    /\ UNCHANGED <<files, name, ret, faults, channelVars, envVars, requestVars,
                   historyVars>>


Serve ==
    /\ pc = "find"
    /\ \E f \in Latest :
          /\ answer' = [status |-> 200, req |-> req, asked |-> asked, file |-> f]
          /\ files' = files \ {f}
    /\ Go("idle")
    /\ UNCHANGED <<name, ret, faults, channelVars, envVars, requestVars, historyVars>>

\* Only with a clock at the very start of the epoch.
NotFound ==
    /\ pc = "find" /\ Latest = {}
    /\ answer' = Missing /\ left' = left + 1 /\ Go("idle")
    /\ UNCHANGED <<files, name, ret, faults, channelVars, envVars, requestVars,
                   blurred, stale, stuck>>

-----------------------------------------------------------------------------

\* The bounds are used up.
Quiet == pc = "idle" /\ req = MaxRequests /\ UNCHANGED vars

Next ==
    \/ Tick \/ ClockStep \/ Encode
    \/ Request \/ StartRecvPic \/ StartRecvPicFails \/ OpenFile \/ OpenFails
    \/ PollAndGet \/ PollOrGetFails \/ SaveStream \/ SaveStreamFails
    \/ ReleaseStream \/ StopRecvPic \/ Serve \/ NotFound
    \/ Quiet

Spec == Init /\ [][Next]_vars

-----------------------------------------------------------------------------
(* Properties.                                                             *)

TypeOK ==
    /\ time \in 0..MaxTime /\ wall \in Nat
    /\ files \subseteq File
    /\ \A f, g \in files : f.dir = g.dir /\ f.name = g.name => f = g
    /\ receiving \in BOOLEAN /\ buffer \in 0..MaxTime \cup {NoPicture}
    /\ pc \in {"idle", "start", "open", "poll", "save", "release", "stop", "find"}
    /\ req \in 0..MaxRequests /\ asked \in 0..MaxTime /\ name \in Nat
    /\ ret \in {-1, 0} /\ answer.status \in {0, 200, 404, 503}
    /\ faults \in 0..MaxFaults /\ steps \in 0..MaxSteps
    /\ left \in Nat /\ {blurred, stale, stuck} \subseteq BOOLEAN

Served == answer.status = 200

\* A 200 answer carries the whole picture this very request captured, however
\* many captures failed before, until the clock is set back or a file is written
\* in part; and it shows the scene after the request came, unless the channel
\* was ever stopped with a picture in its buffer.
ServesItsCapture ==
    Served /\ ~blurred =>
        /\ answer.file.req = answer.req /\ answer.file.whole
        /\ stale \/ answer.file.pic >= answer.asked

\* "Capture a fresh JPEG snapshot": without the exception.
FreshPicture == Served => answer.file.pic >= answer.asked

\* /tmp is memory: a file stays there only for a capture that was answered with
\* an error, whatever the clock does.
LeftoversAreFailures == pc = "idle" => Cardinality(files) <= left

\* "Always balance StartRecvPic": between requests the channel does not receive,
\* so that no failed capture takes the later ones with it.
ChannelFree == pc = "idle" /\ receiving => stuck

-----------------------------------------------------------------------------
(* The inductive invariant behind the safety properties, in parts          *)
(* (SnapshotProofs proves it).                                             *)

\* The request in hand has its picture in a file, or at least has a file.
Captured == pc = "find" \/ (pc \in {"release", "stop"} /\ ret = 0)
Holding  == pc \in {"poll", "save"} \/ Captured

CountInv ==
    /\ IsFiniteSet(files)
    /\ Cardinality(files) <= left + (IF Holding THEN 1 ELSE 0)

\* A picture that may be read was taken since the request came, or was left in
\* the buffer when the channel stopped.
ChannelInv ==
    /\ asked <= time
    /\ pc \in {"idle", "start", "find"} /\ receiving => stuck
    /\ pc \notin {"idle", "start", "find"} => receiving
    /\ ~receiving /\ buffer # NoPicture => stale
    /\ pc \notin {"idle", "start", "find"} /\ buffer # NoPicture => stale \/ buffer >= asked
    /\ pc = "save" => buffer # NoPicture

\* The file in hand is newer than every other in its directory and no older
\* than any elsewhere: until the clock is set back, a file that was given up has
\* the time it is named after.
FileInv == ~blurred =>
    /\ Second >= 1
    /\ \A f \in files : f.mtime <= Second
    /\ \A f \in files : f.dir = 1 =>
          f.mtime < 1 \/ f.mtime = f.name \/ (Captured /\ f.name = name)
    /\ Holding =>
          /\ 1 <= name /\ name <= Second
          /\ \A f \in files : f \in Named(name) \/ f.mtime <= name
          /\ \E f \in Named(name) :
                /\ f.req = req
                /\ Captured =>
                      f.whole /\ f.mtime >= name /\ (stale \/ f.pic >= asked)
=============================================================================
