--------------------------- MODULE UploaderProofs ---------------------------
(***************************************************************************)
(* Theorems about Uploader.tla, for every value of its constants.          *)
(***************************************************************************)
EXTENDS Uploader, TLAPS

USE DEF clockVars, cardVars, threadVars, vars

\* The server never learns of a byte the card cannot hold.
LEMMA PieceTypes ==
    ASSUME NEW f \in Files, NEW i \in Nat, size \in [Files -> 0..MaxSize]
    PROVE  Piece(f, i) \subseteq Offsets
<1>1. i * ChunkBytes \in Nat
  BY ConfigAssumption
<1>2. size[f] \in Int /\ size[f] <= MaxSize /\ MaxSize \in Nat
  BY ConfigAssumption
<1>3. \A b \in Piece(f, i) : b \in Int /\ b >= i * ChunkBytes /\ b < size[f]
  BY <1>1, ConfigAssumption DEF Piece
<1> QED
  BY <1>1, <1>2, <1>3 DEF Offsets

LEMMA InitTypeOK == Init => TypeOK
<1> SUFFICES ASSUME Init PROVE TypeOK
  OBVIOUS
<1>1. running \in BOOLEAN /\ ok \in BOOLEAN
  BY Zenon DEF Init
<1>2. NoSnap \in [Files -> [mtime : 0..MaxTime, size : 0..MaxSize]]
  BY ConfigAssumption DEF NoSnap
<1> QED
  BY <1>1, <1>2, ConfigAssumption DEF Init, TypeOK, Offsets

LEMMA StepTypeOK == TypeOK /\ [Next]_vars => TypeOK'
<1> SUFFICES ASSUME TypeOK, [Next]_vars PROVE TypeOK'
  OBVIOUS
<1> USE ConfigAssumption
<1>0. NoSnap \in [Files -> [mtime : 0..MaxTime, size : 0..MaxSize]]
  BY DEF NoSnap
<1>1. CASE Tick \/ StepClock
  BY <1>1 DEF TypeOK, Tick, StepClock
<1>2. ASSUME NEW f \in Files, StartFile(f)
      PROVE  TypeOK'
  BY <1>2 DEF TypeOK, StartFile, Touched, recorderUnchanged
<1>3. CASE WriteFile
  BY <1>3 DEF TypeOK, WriteFile, Touched, recorderUnchanged
<1>4. CASE CloseFile
  BY <1>4 DEF TypeOK, CloseFile, Closed, Touched, recorderUnchanged
<1>5. CASE Scan
  <2>1. batch' \subseteq Files
    BY <1>5 DEF Scan, Scans
  <2>2. snap' \in [Files -> [mtime : 0..MaxTime, size : 0..MaxSize]]
    BY <1>0, <1>5 DEF Scan, TypeOK
  <2> QED
    BY <1>5, <2>1, <2>2 DEF TypeOK, Scan
<1>6. CASE SkipDark
  <2>1. /\ status' \in [Files -> {"none", "writing", "closed", "gone"}]
        /\ faults' \in 0..MaxFaults
        /\ batch' \subseteq Files
    BY <1>6 DEF TypeOK, SkipDark, Unlink, Unlinked
  <2> QED
    BY <1>6, <2>1 DEF TypeOK, SkipDark, pickUnchanged
<1>7. CASE BeginUpload
  <2>1. cur' \in Files /\ batch' \subseteq Files
    BY <1>7 DEF TypeOK, BeginUpload
  <2>2. ok' \in BOOLEAN
    BY <1>7, Zenon DEF BeginUpload
  <2> QED
    BY <1>7, <2>1, <2>2 DEF TypeOK, BeginUpload, pickUnchanged
<1>8. CASE EndRound
  BY <1>0, <1>8 DEF TypeOK, EndRound
<1>9. CASE PostOk \/ PostFails
  <2>1. cur \in Files /\ Piece(cur, idx) \subseteq Offsets
    BY <1>9, PieceTypes DEF TypeOK, PostOk, PostFails
  <2>2. received' \in [Files -> SUBSET Offsets]
    BY <1>9, <2>1 DEF TypeOK, PostOk, PostFails
  <2>3. ok' \in BOOLEAN
    BY <1>9, Zenon DEF TypeOK, PostOk, PostFails
  <2>4. faults' \in 0..MaxFaults /\ idx' \in Nat
    BY <1>9 DEF TypeOK, PostOk, PostFails
  <2> QED
    BY <1>9, <2>2, <2>3, <2>4 DEF TypeOK, PostOk, PostFails, postUnchanged
<1>10. CASE GiveUp
  <2>1. ok' \in BOOLEAN
    BY <1>10, Zenon DEF GiveUp
  <2> QED
    BY <1>10, <2>1 DEF TypeOK, GiveUp
<1>11. CASE FinishUpload
  <2>1. /\ status' \in [Files -> {"none", "writing", "closed", "gone"}]
        /\ faults' \in 0..MaxFaults
    BY <1>11 DEF TypeOK, FinishUpload, Unlink, Unlinked
  <2> QED
    BY <1>11, <2>1 DEF TypeOK, FinishUpload
<1>12. CASE Wake
  BY <1>12 DEF TypeOK, Wake
<1>13. CASE Terminate
  <2>1. running' \in BOOLEAN
    BY <1>13, Zenon DEF Terminate
  <2> QED
    BY <1>13, <2>1 DEF TypeOK, Terminate
<1>14. CASE Die
  <2>1. running' \in BOOLEAN /\ ok' \in BOOLEAN
    BY <1>14, Zenon DEF Die
  <2>2. status' \in [Files -> {"none", "writing", "closed", "gone"}]
    BY <1>14 DEF TypeOK, Die, Closed
  <2> QED
    BY <1>0, <1>14, <2>1, <2>2 DEF TypeOK, Die
<1>15. CASE Restart
  <2>1. running' \in BOOLEAN
    BY <1>15, Zenon DEF Restart
  <2> QED
    BY <1>15, <2>1 DEF TypeOK, Restart, Alive
<1>16. CASE UNCHANGED vars
  BY <1>16 DEF TypeOK
<1> QED
  BY <1>1, <1>2, <1>3, <1>4, <1>5, <1>6, <1>7, <1>8, <1>9, <1>10, <1>11, <1>12,
     <1>13, <1>14, <1>15, <1>16
     DEF Next, Recording, UploadStep, StaysDown

\* Every variable keeps its type; the thread has a file exactly while it posts.
THEOREM TypeCorrect == Spec => []TypeOK
BY InitTypeOK, StepTypeOK, PTL DEF Spec

-----------------------------------------------------------------------------
(* The upload thread and the open file.                                    *)

LEMMA InitHand == Init => HandInv
BY ConfigAssumption DEF Init, HandInv, InHand

\* What is in hand was scanned, and is still as it was.
LEMMA StepHand ==
    ASSUME Steady
    PROVE  TypeOK /\ HandInv /\ [Next]_vars => HandInv'
<1> SUFFICES ASSUME TypeOK, HandInv, [Next]_vars PROVE HandInv'
  OBVIOUS
<1> USE ConfigAssumption
<1>0. /\ InHand \subseteq Files /\ None \notin Files
      /\ open \notin InHand
  BY DEF TypeOK, HandInv, InHand
<1>1. CASE Tick \/ StepClock
  <2>1. InHand' = InHand /\ UNCHANGED <<cur, batch, open, status, mtime, size, snap>>
    BY <1>1 DEF Tick, StepClock, InHand
  <2>2. ASSUME open # None
        PROVE  now' - mtime[open] <= quiet' + jumped'
    <3>1. /\ mtime[open] \in Int /\ now \in Int /\ quiet \in Int /\ jumped \in Int
          /\ now - mtime[open] <= quiet + jumped
      BY <2>2 DEF TypeOK, HandInv
    <3>2. CASE Tick
      BY <2>2, <3>1, <3>2 DEF Tick
    <3>3. CASE StepClock
      <4>1. PICK d \in ClockSteps : now' = now + d /\ jumped' = jumped + d
        BY <2>2, <3>3 DEF StepClock
      <4>2. d \in Int /\ quiet' = quiet
        BY <3>3 DEF StepClock
      <4> QED
        BY <3>1, <4>1, <4>2
    <3> QED
      BY <1>1, <3>2, <3>3
  <2> QED
    BY <2>1, <2>2 DEF HandInv
<1>2. ASSUME NEW f \in Files, StartFile(f)
      PROVE  HandInv'
  <2>1. f \notin InHand /\ InHand' = InHand
    BY <1>2 DEF HandInv, StartFile, recorderUnchanged, InHand
  <2> QED
    BY <1>0, <1>2, <2>1 DEF TypeOK, HandInv, StartFile, Touched, recorderUnchanged
<1>3. CASE WriteFile
  <2>1. InHand' = InHand
    BY <1>3 DEF WriteFile, recorderUnchanged, InHand
  <2> QED
    BY <1>0, <1>3, <2>1 DEF TypeOK, HandInv, WriteFile, Touched, recorderUnchanged
<1>4. CASE CloseFile
  <2>1. InHand' = InHand
    BY <1>4 DEF CloseFile, recorderUnchanged, InHand
  <2> QED
    BY <1>0, <1>4, <2>1 DEF TypeOK, HandInv, CloseFile, Closed, Touched, recorderUnchanged
<1>5. CASE Scan
  <2>1. \A f \in batch' : Eligible(f)
    BY <1>5 DEF Scan, Scans
  <2>2. \A f \in batch' : f \in Files /\ f # open
    BY <1>5, <2>1 DEF Scan, Scans, Eligible, OldEnough, HandInv, TypeOK, Steady
  <2>3. \A f \in batch' : status[f] = "closed" /\ snap'[f].size = size[f]
    BY <1>5, <2>1, <2>2 DEF Scan, Eligible, HandInv
  <2>4. cur = None /\ cur' = None
    BY <1>5 DEF Scan, TypeOK
  <2> QED
    BY <1>5, <2>2, <2>3, <2>4 DEF Scan, HandInv, InHand
<1>6. CASE SkipDark
  <2>1. PICK f \in batch : batch' = batch \ {f} /\ Unlink(f)
    BY <1>6 DEF SkipDark
  <2>2. cur = None /\ cur' = None
    BY <1>6 DEF SkipDark, TypeOK
  <2>3. /\ f \in Files /\ status[f] = "closed"
        /\ status' = status \/ status' = [status EXCEPT ![f] = "gone"]
    BY <1>0, <2>1 DEF Unlink, Unlinked, InHand, HandInv
  <2>4. \A g \in Files : g # f => status'[g] = status[g]
    BY <2>3 DEF TypeOK
  <2>5. \A g \in Files : status'[g] = "writing" => status[g] = "writing"
    BY <2>3, <2>4 DEF TypeOK
  <2> QED
    BY <1>6, <2>1, <2>2, <2>3, <2>4, <2>5
       DEF SkipDark, pickUnchanged, HandInv, InHand, TypeOK
<1>7. CASE BeginUpload
  BY <1>7 DEF TypeOK, HandInv, InHand, BeginUpload, pickUnchanged
<1>8. CASE EndRound
  BY <1>8 DEF TypeOK, HandInv, InHand, EndRound
<1>9. CASE PostOk \/ PostFails
  BY <1>9 DEF HandInv, InHand, PostOk, PostFails, postUnchanged
<1>10. CASE GiveUp
  BY <1>10 DEF TypeOK, HandInv, InHand, GiveUp
<1>11. CASE FinishUpload
  <2>1. cur \in Files /\ cur \in InHand /\ cur \notin batch /\ cur' = None
    BY <1>11 DEF FinishUpload, TypeOK, HandInv, InHand
  <2>2. /\ status[cur] = "closed"
        /\ status' = status \/ status' = [status EXCEPT ![cur] = "gone"]
    BY <1>11, <2>1 DEF FinishUpload, Unlink, Unlinked, HandInv
  <2>3. \A g \in Files : g # cur => status'[g] = status[g]
    BY <2>2 DEF TypeOK
  <2>4. \A g \in Files : status'[g] = "writing" => status[g] = "writing"
    BY <2>1, <2>2, <2>3 DEF TypeOK
  <2> QED
    BY <1>11, <2>1, <2>2, <2>3, <2>4 DEF FinishUpload, HandInv, InHand, TypeOK
<1>12. CASE Wake
  BY <1>12 DEF HandInv, InHand, Wake
<1>13. CASE Terminate
  BY <1>13 DEF HandInv, InHand, Terminate
<1>14. CASE Die
  <2>1. batch' = {} /\ cur' = None /\ open' = None
    BY <1>14 DEF Die
  <2>2. \A f \in Files : status'[f] # "writing"
    BY <1>14 DEF Die, Closed, TypeOK, HandInv
  <2> QED
    BY <2>1, <2>2 DEF HandInv, InHand
<1>15. CASE Restart
  BY <1>15 DEF HandInv, InHand, Restart
<1>16. CASE UNCHANGED vars
  BY <1>16 DEF HandInv, InHand
<1> QED
  BY <1>1, <1>2, <1>3, <1>4, <1>5, <1>6, <1>7, <1>8, <1>9, <1>10, <1>11, <1>12,
     <1>13, <1>14, <1>15, <1>16
     DEF Next, Recording, UploadStep, StaysDown

LEMMA HandAlways ==
    ASSUME Steady
    PROVE  Spec => [](TypeOK /\ HandInv)
<1>1. TypeOK /\ HandInv /\ [Next]_vars => TypeOK' /\ HandInv'
  BY StepTypeOK, StepHand
<1> QED
  BY <1>1, InitTypeOK, InitHand, PTL DEF Spec

\* "Skip files modified in the last 30 seconds" (line 236 of file_uploader.c)
\* keeps the thread off the open file as long as, between two writes to it, the
\* encoder does not pause and the clock is not set forward, together, for MinAge.
THEOREM OpenFileLeftAlone ==
    ASSUME Steady
    PROVE  Spec => []OnlyClosedFiles
<1>1. TypeOK /\ HandInv => OnlyClosedFiles
  BY DEF HandInv, InHand, OnlyClosedFiles
<1> QED
  BY <1>1, HandAlways, PTL

-----------------------------------------------------------------------------
(* What the server has.                                                    *)

\* Lines 376-381: the pieces counted from the size cover every byte.
LEMMA PiecesCover ==
    ASSUME NEW bytes \in Nat, NEW i \in Nat, i >= TotalChunks(bytes)
    PROVE  i * ChunkBytes >= bytes
<1> DEFINE n == (bytes + ChunkBytes - 1) \div ChunkBytes
<1>1. ChunkBytes \in Nat /\ ChunkBytes > 0
  BY ConfigAssumption
<1>2. n \in Int /\ n * ChunkBytes > bytes - 1
  BY <1>1
<1>3. i >= n
  BY <1>2 DEF TotalChunks
<1>4. i * ChunkBytes >= n * ChunkBytes
  BY <1>1, <1>2, <1>3
<1>5. i * ChunkBytes \in Int /\ n * ChunkBytes \in Int
  BY <1>1, <1>2
<1> HIDE DEF n
<1> QED
  BY <1>2, <1>4, <1>5

\* One more piece takes the server one piece further.
LEMMA PieceExtends ==
    ASSUME NEW f \in Files, NEW i \in Nat, size \in [Files -> 0..MaxSize],
           NEW known,
           \A b \in 0..(size[f] - 1) : b < i * ChunkBytes => b \in known
    PROVE  \A b \in 0..(size[f] - 1) :
              b < (i + 1) * ChunkBytes => b \in known \cup Piece(f, i)
<1>1. /\ ChunkBytes \in Nat /\ i * ChunkBytes \in Nat
      /\ (i + 1) * ChunkBytes = i * ChunkBytes + ChunkBytes
  BY ConfigAssumption
<1>2. size[f] \in Int
  BY ConfigAssumption
<1> QED
  BY <1>1, <1>2 DEF Piece

LEMMA InitSent == Init => SentInv /\ Accounted
BY DEF Init, SentInv, Accounted

LEMMA StepSent ==
    TypeOK /\ HandInv /\ SentInv /\ [Next]_vars => SentInv'
<1> SUFFICES ASSUME TypeOK, HandInv, SentInv, [Next]_vars PROVE SentInv'
  OBVIOUS
<1> USE ConfigAssumption
<1>0. pc = "post" => cur \in Files /\ cur # open
  BY DEF TypeOK, HandInv, InHand
<1>1. CASE Tick \/ StepClock \/ Wake \/ UNCHANGED vars
  BY <1>1 DEF SentInv, Tick, StepClock, Wake
<1>2. ASSUME NEW f \in Files, StartFile(f)
      PROVE  SentInv'
  BY <1>2 DEF SentInv, StartFile, recorderUnchanged
<1>3. CASE WriteFile
  BY <1>0, <1>3 DEF TypeOK, SentInv, WriteFile, recorderUnchanged
<1>4. CASE CloseFile
  BY <1>4 DEF SentInv, CloseFile, recorderUnchanged
<1>5. CASE Scan \/ SkipDark \/ EndRound \/ GiveUp \/ FinishUpload \/ Die \/ Restart
  <2>1. pc' # "post"
    BY <1>5 DEF Scan, SkipDark, EndRound, GiveUp, FinishUpload, Die, Restart
  <2> QED
    BY <2>1 DEF SentInv
<1>6. CASE BeginUpload
  <2>1. idx' * ChunkBytes = 0 /\ running'
    BY <1>6 DEF BeginUpload, pickUnchanged
  <2> QED
    BY <2>1 DEF SentInv
<1>7. CASE PostOk
  <2>1. /\ pc = "post" /\ pc' = pc /\ cur \in Files /\ idx \in Nat
        /\ idx' = idx + 1
        /\ received'[cur] = received[cur] \cup Piece(cur, idx)
        /\ UNCHANGED <<size, cur, running, interrupted>>
    BY <1>0, <1>7 DEF TypeOK, PostOk, postUnchanged
  <2>2. \A b \in 0..(size[cur] - 1) :
           b < (idx + 1) * ChunkBytes => b \in received'[cur]
    BY <2>1, PieceExtends DEF TypeOK, SentInv
  <2> QED
    BY <2>1, <2>2 DEF SentInv
<1>8. CASE PostFails
  <2>1. received[cur] \subseteq received'[cur]
    BY <1>0, <1>8 DEF TypeOK, PostFails
  <2> QED
    BY <1>8, <2>1 DEF SentInv, PostFails, postUnchanged
<1>9. CASE Terminate
  BY <1>0, <1>9 DEF SentInv, Terminate
<1> QED
  BY <1>1, <1>2, <1>3, <1>4, <1>5, <1>6, <1>7, <1>8, <1>9
     DEF Next, Recording, UploadStep, StaysDown

\* What is known of a file that is gone is never lost.
LEMMA AccountKept ==
    ASSUME TypeOK, HandInv, Accounted,
           interrupted \subseteq interrupted',
           \A f \in Files : received[f] \subseteq received'[f],
           \A f \in Files : f # open => size'[f] = size[f],
           \A f \in Files : status'[f] = "gone" => status[f] = "gone"
    PROVE  Accounted'
<1>1. \A f \in Files : status[f] = "gone" => f # open
  BY ConfigAssumption DEF HandInv
<1> QED
  BY <1>1 DEF Accounted, Delivered

LEMMA StepAccounted ==
    TypeOK /\ HandInv /\ SentInv /\ Accounted /\ [Next]_vars => Accounted'
<1> SUFFICES ASSUME TypeOK, HandInv, SentInv, Accounted, [Next]_vars
             PROVE  Accounted'
  OBVIOUS
<1> USE ConfigAssumption
<1>1. CASE Tick \/ StepClock \/ Wake \/ Scan \/ BeginUpload \/ EndRound \/ GiveUp
            \/ Terminate \/ Restart \/ UNCHANGED vars
  <2>1. UNCHANGED <<status, size, received>> /\ interrupted \subseteq interrupted'
    BY <1>1 DEF Tick, StepClock, Wake, Scan, BeginUpload, EndRound, GiveUp, Terminate,
                Restart, pickUnchanged
  <2> QED
    BY <2>1, AccountKept
<1>2. ASSUME NEW f \in Files, StartFile(f)
      PROVE  Accounted'
  BY <1>2, AccountKept DEF TypeOK, StartFile, recorderUnchanged
<1>3. CASE WriteFile
  BY <1>3, AccountKept DEF TypeOK, WriteFile, recorderUnchanged
<1>4. CASE CloseFile \/ Die
  <2>1. /\ UNCHANGED <<size, received, interrupted>>
        /\ status' = status \/ status' = Closed
    BY <1>4 DEF CloseFile, Die, recorderUnchanged
  <2>2. \A f \in Files : status'[f] = "gone" => status[f] = "gone"
    BY <2>1 DEF TypeOK, Closed
  <2> QED
    BY <2>1, <2>2, AccountKept
<1>5. CASE SkipDark
  <2>1. PICK f \in batch : TRUE \in Verdicts(f) /\ Unlink(f)
    BY <1>5 DEF SkipDark
  <2>2. f \in Black /\ f \in Files
    BY <2>1 DEF Verdicts, TypeOK
  <2>3. \A g \in Files : g # f => (status'[g] = "gone" => status[g] = "gone")
    BY <2>1, <2>2 DEF Unlink, Unlinked, TypeOK
  <2>4. UNCHANGED <<size, received, interrupted>>
    BY <1>5 DEF SkipDark, pickUnchanged
  <2> QED
    BY <2>2, <2>3, <2>4 DEF Accounted, Delivered
<1>6. CASE PostOk \/ PostFails
  <2>1. \A f \in Files : received[f] \subseteq received'[f]
    BY <1>6 DEF TypeOK, PostOk, PostFails
  <2>2. UNCHANGED <<status, size, interrupted>>
    BY <1>6 DEF PostOk, PostFails, postUnchanged
  <2> QED
    BY <2>1, <2>2, AccountKept
<1>7. CASE FinishUpload
  <2>1. /\ cur \in Files /\ cur \in InHand /\ idx \in Nat
        /\ UNCHANGED <<size, received, interrupted>>
    BY <1>7 DEF FinishUpload, TypeOK, InHand
  <2>2. \A g \in Files : g # cur => (status'[g] = "gone" => status[g] = "gone")
    BY <1>7, <2>1 DEF FinishUpload, Unlink, Unlinked, TypeOK
  <2>3. CASE ~running
    <3>1. cur \in interrupted
      BY <1>7, <2>3 DEF FinishUpload, SentInv
    <3> QED
      BY <2>1, <2>2, <3>1 DEF Accounted, Delivered
  <2>4. CASE running
    <3>1. size[cur] \in Nat /\ snap[cur].size = size[cur]
      BY <2>1 DEF TypeOK, HandInv
    <3>2. TotalChunks(size[cur]) \in Int /\ idx >= TotalChunks(size[cur])
      BY <1>7, <2>1, <2>4, <3>1 DEF FinishUpload, LoopDone, MorePieces, TotalChunks
    <3>3. idx * ChunkBytes >= size[cur] /\ idx * ChunkBytes \in Int
      BY <2>1, <3>1, <3>2, PiecesCover
    <3>4. Delivered(cur)
      BY <1>7, <3>1, <3>3 DEF FinishUpload, SentInv, Delivered
    <3> QED
      BY <2>1, <2>2, <3>4 DEF Accounted, Delivered
  <2> QED
    BY <2>3, <2>4
<1> QED
  BY <1>1, <1>2, <1>3, <1>4, <1>5, <1>6, <1>7
     DEF Next, Recording, UploadStep, StaysDown

\* Nothing is unlinked that the server lacks a byte of, unless it shows nothing
\* or SIGTERM met it in hand -- across lost requests and answers, failed
\* unlinks, power loss and restarts, for any sizes of files and pieces, under the
\* same assumption on pauses and the clock.
THEOREM FootageAccounted ==
    ASSUME Steady
    PROVE  Spec => []Accounted
<1>1. /\ TypeOK /\ HandInv /\ SentInv /\ Accounted /\ [Next]_vars
      => SentInv' /\ Accounted'
  BY StepSent, StepAccounted
<1> QED
  BY <1>1, InitSent, HandAlways, PTL DEF Spec
=============================================================================
