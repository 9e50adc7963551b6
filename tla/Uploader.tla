------------------------------ MODULE Uploader ------------------------------
(***************************************************************************)
(* The upload thread (file_uploader.c): it scans the recording directory   *)
(* for chunks that look finished, sends each in pieces of ChunkBytes with  *)
(* https_post_chunk() and unlinks it.  Around it: the recorder, which      *)
(* writes files; the server, which keeps every piece it ever received      *)
(* (src relies on its deduplication); a network that loses requests or     *)
(* answers; SIGTERM, power loss and restarts.                              *)
(*                                                                         *)
(* A file is a sequence of bytes; the server's knowledge of it is the set  *)
(* of offsets it has received.                                             *)
(***************************************************************************)
EXTENDS Integers, FiniteSets

CONSTANTS
    Files,          \* the recordings
    Black,          \* those that show nothing: darkskip may say so
    DarkSkip,       \* dark_skip_enabled
    ChunkBytes,     \* UPLOAD_CHUNK_BYTES
    MinSize,        \* 100 KB: smaller files are left alone
    MinAge,         \* 30 s: younger files are left alone
    MaxFiles,       \* MAX_FILES of one scan
    MaxPause,       \* longest real time between two writes to the open file
    ClockSteps,     \* sizes of forward wall-clock adjustments
    MaxJump,        \* the most they add up to between two writes
    None,           \* no file
    MaxSize, MaxTime,   \* bounds on a file and on the clock
    MaxFaults,      \* bound on failures of the network and of unlink()
    MaxRestarts     \* bound on restarts

ASSUME ConfigAssumption ==
    /\ Black \subseteq Files
    /\ DarkSkip \in BOOLEAN
    /\ MaxPause \in Nat /\ ClockSteps \subseteq Nat \ {0} /\ MaxJump \in Nat
    /\ ChunkBytes \in Nat \ {0}
    /\ MinSize \in Nat \ {0} /\ MinAge \in Nat \ {0} /\ MaxFiles \in Nat \ {0}
    /\ MaxSize \in Nat /\ MaxTime \in Nat /\ MaxFaults \in Nat /\ MaxRestarts \in Nat
    /\ None \notin Files

VARIABLES
    now,            \* time(), which is also what stamps a file's mtime
    quiet, jumped,  \* history: real time, and forward adjustments of the clock,
                    \* since the open file was written (0 when none is open)
    status,         \* each file: none, writing, closed or gone
    mtime, size,    \* stat() of each file
    open,           \* the file the recorder is writing, or None
    received,       \* the offsets of each file the server has
    running,        \* g_running
    pc,             \* the upload thread; "dead" when the process is down
    batch,          \* files[i..]: what is left of the last scan
    snap,           \* what that scan saw of each file
    cur,            \* files[i]
    idx,            \* chunk_idx
    ok,             \* upload_ok
    faults,         \* failures so far
    restarts,       \* restarts so far
    interrupted     \* history: files in hand when g_running was cleared

clockVars  == <<now, quiet, jumped>>
cardVars   == <<status, mtime, size, open>>
threadVars == <<pc, batch, snap, cur, idx, ok>>
vars == <<received, running, faults, restarts, interrupted,
          clockVars, cardVars, threadVars>>

\* files[] is a local of the round: nothing of it survives.
NoSnap == [f \in Files |-> [mtime |-> 0, size |-> 0]]

Init ==
    /\ now = 0 /\ quiet = 0 /\ jumped = 0
    /\ status = [f \in Files |-> "none"]
    /\ mtime = [f \in Files |-> 0] /\ size = [f \in Files |-> 0]
    /\ open = None
    /\ received = [f \in Files |-> {}]
    /\ running = TRUE
    /\ pc = "scan" /\ batch = {} /\ cur = None /\ idx = 0 /\ ok = TRUE
    /\ snap = NoSnap
    /\ faults = 0 /\ restarts = 0
    /\ interrupted = {}

-----------------------------------------------------------------------------
(* The recorder and the clock.  A file's mtime is the wall-clock time of its *)
(* last write, and the scan compares it with the wall clock.               *)

Alive == pc # "dead"

Tick ==
    /\ now < MaxTime
    /\ open # None => quiet < MaxPause
    /\ now' = now + 1
    /\ quiet' = IF open = None THEN 0 ELSE quiet + 1
    /\ UNCHANGED <<received, running, faults, restarts, interrupted, jumped,
                   cardVars, threadVars>>

\* settimeofday() by an NTP client or by hand.  (A clock set back makes files
\* look younger: the scan leaves them alone for longer.)
StepClock ==
    /\ \E d \in ClockSteps :
        /\ now + d + MinAge < MaxTime
        /\ now' = now + d
        /\ \/ open = None /\ UNCHANGED jumped
           \/ open # None /\ jumped + d <= MaxJump /\ jumped' = jumped + d
    /\ UNCHANGED <<received, running, faults, restarts, interrupted, quiet,
                   cardVars, threadVars>>

recorderUnchanged == <<now, received, running, faults, restarts, interrupted,
                       threadVars>>

\* write() stamps the file.
Touched(f) ==
    /\ mtime' = [mtime EXCEPT ![f] = now]
    /\ quiet' = 0 /\ jumped' = 0

StartFile(f) ==
    /\ Alive /\ open = None /\ status[f] = "none"
    /\ now + MinAge < MaxTime           \* so that it can still be uploaded
    /\ status' = [status EXCEPT ![f] = "writing"]
    /\ Touched(f)
    /\ open' = f
    /\ UNCHANGED <<recorderUnchanged, size>>

WriteFile ==
    /\ Alive /\ open # None
    /\ size[open] < MaxSize /\ now + MinAge < MaxTime
    /\ size' = [size EXCEPT ![open] = @ + 1]
    /\ Touched(open)
    /\ UNCHANGED <<recorderUnchanged, status, open>>

Closed == [status EXCEPT ![open] = IF @ = "writing" THEN "closed" ELSE @]

CloseFile ==
    /\ Alive /\ open # None
    /\ status' = Closed
    /\ Touched(open)
    /\ open' = None
    /\ UNCHANGED <<recorderUnchanged, size>>

-----------------------------------------------------------------------------
(* scan_completed_files().  readdir() delivers in any order; the result is  *)
(* sorted by mtime, which Pick does.                                        *)

OldEnoughAlways(f) == TRUE

OldEnough(f) == now - mtime[f] >= MinAge

EligibleAbove(f) ==
    /\ status[f] \in {"writing", "closed"}
    /\ size[f] > MinSize
    /\ OldEnough(f)

Eligible(f) ==
    /\ status[f] \in {"writing", "closed"}
    /\ size[f] >= MinSize
    /\ OldEnough(f)

\* files[] of one scan: all eligible files, or any MaxFiles of them.
Scans ==
    LET all == {f \in Files : Eligible(f)}
    IN  IF Cardinality(all) <= MaxFiles THEN {all}
        ELSE {s \in SUBSET all : Cardinality(s) = MaxFiles}

Scan ==
    /\ pc = "scan"
    /\ batch' \in Scans
    /\ snap' = [f \in Files |-> IF f \in batch'
                               THEN [mtime |-> mtime[f], size |-> size[f]]
                               ELSE NoSnap[f]]
    /\ pc' = "pick"
    /\ UNCHANGED <<clockVars, received, running, faults, restarts, interrupted,
                   cardVars, cur, idx, ok>>

-----------------------------------------------------------------------------
(* The loop over the files of a scan.                                      *)

Unlinked(f) == [status EXCEPT ![f] = "gone"]

\* unlink() fails (the card is gone, or mounted read-only): the error is
\* logged and the file is met again by the next scan.
Unlink(f) ==
    \/ status' = Unlinked(f) /\ UNCHANGED faults
    \/ faults < MaxFaults /\ faults' = faults + 1 /\ UNCHANGED status

Oldest(f) == f \in batch /\ \A g \in batch : snap[f].mtime <= snap[g].mtime

\* darkskip_range_is_dark() on the window of f.  Its own model is DarkSkip;
\* here it never calls a chunk dark that shows something, and it may miss a
\* dark one (the exposure history does not survive a restart).
Verdicts(f) == IF DarkSkip /\ f \in Black THEN BOOLEAN ELSE {FALSE}

pickUnchanged == <<clockVars, received, running, restarts, mtime, size, open, snap>>

SkipDark ==
    /\ pc = "pick" /\ running
    /\ \E f \in batch :
        /\ Oldest(f) /\ TRUE \in Verdicts(f)
        /\ batch' = batch \ {f}
        /\ Unlink(f)
    /\ UNCHANGED <<pickUnchanged, interrupted, pc, cur, idx, ok>>

BeginUpload ==
    /\ pc = "pick" /\ running
    /\ \E f \in batch :
        /\ Oldest(f) /\ FALSE \in Verdicts(f)
        /\ batch' = batch \ {f}
        /\ cur' = f
    /\ idx' = 0 /\ ok' = TRUE /\ pc' = "post"
    /\ UNCHANGED <<pickUnchanged, interrupted, faults, status>>

EndRound ==
    /\ pc = "pick" /\ (batch = {} \/ ~running)
    /\ batch' = {} /\ snap' = NoSnap /\ pc' = "sleep"
    /\ UNCHANGED <<clockVars, received, running, restarts, interrupted, faults,
                   cardVars, cur, idx, ok>>

-----------------------------------------------------------------------------
(* The loop over the pieces of a file.                                     *)

TotalChunksFloor(bytes) == IF bytes \div ChunkBytes < 1 THEN 1 ELSE bytes \div ChunkBytes

\* total_chunks, from the size the scan saw.
TotalChunks(bytes) ==
    LET n == (bytes + ChunkBytes - 1) \div ChunkBytes
    IN  IF n < 1 THEN 1 ELSE n

PieceUnclamped(f, i) == (i * ChunkBytes)..(i * ChunkBytes + ChunkBytes - 1)

\* The bytes https_post_chunk() reads for piece i: it asks for ChunkBytes and
\* is clamped to the size the file has now.
Piece(f, i) ==
    LET first == i * ChunkBytes
    IN  {b \in first..(first + ChunkBytes - 1) : b < size[f]}

MorePieces == idx < TotalChunks(snap[cur].size) /\ running

postUnchanged == <<clockVars, running, restarts, interrupted, cardVars, batch, snap, cur>>

PostOk ==
    /\ pc = "post" /\ ok /\ MorePieces
    /\ received' = [received EXCEPT ![cur] = @ \cup Piece(cur, idx)]
    /\ idx' = idx + 1
    /\ UNCHANGED <<postUnchanged, pc, ok, faults>>

\* The request is lost or refused, or only its answer is lost: either way
\* https_post_chunk() returns an error and the file is given up until the next scan.
PostFails ==
    /\ pc = "post" /\ ok /\ MorePieces
    /\ faults < MaxFaults /\ faults' = faults + 1
    /\ \/ UNCHANGED received
       \/ received' = [received EXCEPT ![cur] = @ \cup Piece(cur, idx)]
    /\ ok' = FALSE
    /\ UNCHANGED <<postUnchanged, pc, idx>>

GiveUp ==
    /\ pc = "post" /\ ~ok
    /\ cur' = None /\ idx' = 0 /\ ok' = TRUE /\ pc' = "pick"
    /\ UNCHANGED <<clockVars, received, running, faults, restarts, interrupted,
                   cardVars, batch, snap>>

\* The loop also ends when g_running is cleared, with upload_ok still set.
LoopDone == ~MorePieces

FinishUpload ==
    /\ pc = "post" /\ ok /\ LoopDone
    /\ Unlink(cur)
    /\ cur' = None /\ idx' = 0 /\ pc' = "pick"
    /\ UNCHANGED <<clockVars, received, running, restarts, interrupted, mtime, size,
                   open, batch, snap, ok>>

Wake ==
    /\ pc = "sleep"
    /\ pc' = IF running THEN "scan" ELSE "exit"
    /\ UNCHANGED <<clockVars, received, running, faults, restarts, interrupted,
                   cardVars, batch, snap, cur, idx, ok>>

-----------------------------------------------------------------------------
(* SIGTERM, the end of the process and its restart.                        *)

\* file_uploader_shutdown() clears g_running.
Terminate ==
    /\ running
    /\ running' = FALSE
    /\ interrupted' = interrupted \cup ({cur} \ {None})
    /\ UNCHANGED <<clockVars, received, faults, restarts, cardVars, threadVars>>

\* The process ends: main() returns after a bounded wait for the thread,
\* wherever that is, or the power fails.
Die ==
    /\ Alive
    /\ pc' = "dead" /\ running' = FALSE
    /\ status' = IF open = None THEN status ELSE Closed
    /\ open' = None
    /\ batch' = {} /\ snap' = NoSnap /\ cur' = None /\ idx' = 0 /\ ok' = TRUE
    /\ quiet' = 0 /\ jumped' = 0
    /\ UNCHANGED <<now, received, faults, restarts, interrupted, mtime, size>>

Restart ==
    /\ ~Alive /\ restarts < MaxRestarts
    /\ restarts' = restarts + 1
    /\ running' = TRUE /\ pc' = "scan"
    /\ UNCHANGED <<clockVars, received, faults, interrupted, cardVars, batch, snap,
                   cur, idx, ok>>

\* Down for good, once the bound on restarts is used up.
StaysDown == ~Alive /\ restarts = MaxRestarts /\ UNCHANGED vars

Recording == WriteFile \/ CloseFile

UploadStep ==
    \/ Scan \/ SkipDark \/ BeginUpload \/ EndRound
    \/ PostOk \/ PostFails \/ GiveUp \/ FinishUpload \/ Wake

Next ==
    \/ Tick \/ StepClock
    \/ (\E f \in Files : StartFile(f)) \/ Recording
    \/ UploadStep
    \/ Terminate \/ Die \/ Restart \/ StaysDown

Spec == Init /\ [][Next]_vars

\* The thread runs, time passes and frames keep arriving at the recorder.
\* Network and unlink() failures end after MaxFaults: the network comes back.
FairSpec == Spec /\ WF_vars(Tick) /\ WF_vars(Recording) /\ WF_vars(UploadStep)

-----------------------------------------------------------------------------
(* Properties.                                                             *)

Offsets == 0..(MaxSize - 1)

TypeOK ==
    /\ now \in 0..MaxTime /\ quiet \in 0..MaxPause /\ jumped \in 0..MaxJump
    /\ status \in [Files -> {"none", "writing", "closed", "gone"}]
    /\ mtime \in [Files -> 0..MaxTime] /\ size \in [Files -> 0..MaxSize]
    /\ open \in Files \cup {None}
    /\ received \in [Files -> SUBSET Offsets]
    /\ running \in BOOLEAN /\ ok \in BOOLEAN
    /\ pc \in {"scan", "pick", "post", "sleep", "exit", "dead"}
    /\ batch \subseteq Files
    /\ snap \in [Files -> [mtime : 0..MaxTime, size : 0..MaxSize]]
    /\ cur \in Files \cup {None}
    /\ (pc = "post") <=> (cur # None)
    /\ idx \in Nat /\ faults \in 0..MaxFaults /\ restarts \in 0..MaxRestarts
    /\ interrupted \subseteq Files

Delivered(f) == 0..(size[f] - 1) \subseteq received[f]

\* Footage leaves the card only when the server has every byte of it or it
\* shows nothing -- across lost answers, failed unlinks, crashes and restarts
\* -- except for the file in hand when the process is told to stop.
Accounted ==
    \A f \in Files : status[f] = "gone" => \/ Delivered(f)
                                           \/ f \in Black
                                           \/ f \in interrupted

\* "Upload of finished chunks": without the exception.
GoneWasDelivered ==
    \A f \in Files : status[f] = "gone" => Delivered(f) \/ f \in Black

\* "Skip files modified in the last 30 seconds (still being written)": the
\* thread never works on, or deletes, the file the recorder has open.
OnlyClosedFiles ==
    /\ \A f \in batch \cup ({cur} \ {None}) : status[f] # "writing"
    /\ open # None => status[open] = "writing"

\* Every finished file of MinSize or more leaves the card, however many of its
\* uploads fail first, unless the process is stopped.
EventuallyGone ==
    \A f \in Files :
        (status[f] = "closed" /\ size[f] >= MinSize) ~> (status[f] = "gone" \/ ~running)

-----------------------------------------------------------------------------
(* The inductive invariant behind the safety properties, in parts           *)
(* (UploaderProofs proves it under Steady).                                 *)

\* Between two writes to the open file the clock advances by less than MinAge:
\* the encoder does not pause that long and nobody sets the clock that far.
Steady == MaxPause + MaxJump < MinAge

InHand == batch \cup ({cur} \ {None})

\* Only the open file is being written, and it looks no older than the time and
\* the adjustments since its last write; what the thread has in hand is closed,
\* and is what the scan saw.
HandInv ==
    /\ open # None => status[open] = "writing" /\ now - mtime[open] <= quiet + jumped
    /\ \A f \in Files : status[f] = "writing" => f = open
    /\ \A f \in InHand : status[f] = "closed" /\ snap[f].size = size[f]
    /\ cur \notin batch

\* The server has every piece before the current one, and a file whose pieces
\* are left out because of SIGTERM is noted.
SentInv ==
    /\ pc = "post" => \A b \in 0..(size[cur] - 1) :
                            b < idx * ChunkBytes => b \in received[cur]
    /\ pc = "post" /\ ~running => cur \in interrupted
=============================================================================
