--------------------------- MODULE SnapshotProofs ----------------------------
(***************************************************************************)
(* Theorems about Snapshot.tla, for every value of its constants.          *)
(***************************************************************************)
EXTENDS Snapshot, FiniteSetTheorems, TLAPS

USE DEF envVars, channelVars, requestVars, historyVars, vars

\* Division by the length of a second.
LEMMA SecondsMonotone ==
    ASSUME NEW p \in Nat \ {0}, NEW a \in Nat, NEW b \in Nat, a <= b
    PROVE  a \div p \in Nat /\ a \div p <= b \div p
OBVIOUS

LEMMA OneSecond == ASSUME NEW p \in Nat \ {0} PROVE p \div p = 1
OBVIOUS

-----------------------------------------------------------------------------
(* Files.                                                                  *)

OneFilePerName == \A f, g \in files : f.dir = g.dir /\ f.name = g.name => f = g

LEMMA NamedAtMostOne ==
    ASSUME files \subseteq File, OneFilePerName, NEW n, NEW f \in Named(n)
    PROVE  Named(n) = {f}
BY DEF Named, OneFilePerName

\* A file is emptied, or made, by the open().
LEMMA OpenedFiles ==
    ASSUME files \subseteq File, OneFilePerName, NEW n \in Int, NEW r \in Int,
           NEW new, new = [dir |-> 1, name |-> n, mtime |-> n, req |-> r,
                           whole |-> FALSE, pic |-> -1],
           files' = (files \ Named(n)) \cup {new}
    PROVE  files' \subseteq File /\ OneFilePerName'
<1>1. new \in File
  <2>1. FALSE \in BOOLEAN
    BY Zenon
  <2> QED
    BY <2>1 DEF File
<1>2. files' \subseteq File
  BY <1>1
<1>3. \A f \in files \ Named(n) : ~(f.dir = new.dir /\ f.name = new.name)
  BY DEF Named
<1>4. OneFilePerName'
  BY <1>3 DEF OneFilePerName
<1> QED
  BY <1>2, <1>4

\* What a write leaves of the file.
Image(f, w) == [f EXCEPT !.mtime = Second, !.whole = w, !.pic = buffer]

LEMMA ImageFields ==
    ASSUME NEW f \in File, NEW w \in BOOLEAN, Second \in Int, buffer \in Int
    PROVE  /\ Image(f, w) \in File
           /\ Image(f, w).dir = f.dir /\ Image(f, w).name = f.name
           /\ Image(f, w).req = f.req /\ Image(f, w).mtime = Second
           /\ Image(f, w).pic = buffer /\ Image(f, w).whole = w
BY DEF Image, File

\* A write replaces the file in hand, if it is still there, by its image.
LEMMA WrittenFiles ==
    ASSUME files \subseteq File, OneFilePerName, NEW w \in BOOLEAN,
           Second \in Int, buffer \in Int, Written(w)
    PROVE  /\ files' \subseteq File /\ OneFilePerName'
           /\ \/ Named(name) = {} /\ files' = files
              \/ \E f \in Named(name) :
                    Named(name) = {f} /\ files' = (files \ {f}) \cup {Image(f, w)}
<1>1. CASE Named(name) = {}
  <2>1. files' = files
    BY <1>1 DEF Written
  <2> QED
    BY <1>1, <2>1 DEF OneFilePerName
<1>2. ASSUME NEW f \in Named(name)
      PROVE  /\ files' \subseteq File /\ OneFilePerName'
             /\ Named(name) = {f} /\ files' = (files \ {f}) \cup {Image(f, w)}
  <2>1. Named(name) = {f} /\ f \in files /\ f \in File
    BY <1>2, NamedAtMostOne DEF Named
  <2>2. files' = (files \ {f}) \cup {Image(f, w)}
    <3>1. {[g EXCEPT !.mtime = Second, !.whole = w, !.pic = buffer] : g \in Named(name)}
            = {Image(f, w)}
      BY <2>1 DEF Image
    <3> QED
      BY <2>1, <3>1 DEF Written
  <2>3. /\ Image(f, w) \in File
        /\ Image(f, w).dir = f.dir /\ Image(f, w).name = f.name
    BY <2>1, ImageFields
  <2>4. files' \subseteq File
    BY <2>2, <2>3
  <2>5. OneFilePerName'
    BY <2>1, <2>2, <2>3 DEF OneFilePerName
  <2> QED
    BY <2>1, <2>2, <2>4, <2>5
<1> QED
  BY <1>1, <1>2

-----------------------------------------------------------------------------
(* Types.                                                                  *)

\* The part of the types that is about the files, and the rest.
OtherTypes ==
    /\ time \in 0..MaxTime /\ wall \in Nat
    /\ receiving \in BOOLEAN /\ buffer \in 0..MaxTime \cup {NoPicture}
    /\ pc \in {"idle", "start", "open", "poll", "save", "release", "stop", "find"}
    /\ req \in 0..MaxRequests /\ asked \in 0..MaxTime /\ name \in Nat
    /\ ret \in {-1, 0} /\ answer.status \in {0, 200, 404, 503}
    /\ faults \in 0..MaxFaults /\ steps \in 0..MaxSteps
    /\ left \in Nat

Flags == blurred \in BOOLEAN /\ stale \in BOOLEAN /\ stuck \in BOOLEAN

LEMMA TypeParts ==
    TypeOK <=> OtherTypes /\ Flags /\ files \subseteq File /\ OneFilePerName
<1>1. {blurred, stale, stuck} \subseteq BOOLEAN <=> Flags
  BY Zenon DEF Flags
<1> QED
  BY <1>1 DEF TypeOK, OtherTypes, OneFilePerName

LEMMA InitTypeOK == Init => TypeOK
<1> SUFFICES ASSUME Init PROVE TypeOK
  OBVIOUS
<1>1. Flags /\ receiving \in BOOLEAN
  BY Zenon DEF Init, Flags
<1>2. files \subseteq File /\ OneFilePerName
  BY SnapshotAssumption DEF Init, OneFilePerName
<1>3. left \in Nat
  <2>1. \A f : IsFiniteSet({f}) /\ Cardinality({f}) = 1
    BY FS_Singleton
  <2>2. Cardinality({}) = 0
    BY FS_EmptySet
  <2>3. files = {} \/ \E f : files = {f}
    BY DEF Init
  <2>4. Cardinality(files) \in Nat
    <3>1. CASE files = {}
      BY <2>2, <3>1
    <3>2. ASSUME NEW f, files = {f} PROVE Cardinality(files) \in Nat
      <4>1. Cardinality(files) = 1
        BY <2>1, <3>2, Zenon
      <4> QED
        BY <4>1
    <3> QED
      BY <2>3, <3>1, <3>2
  <2> QED
    BY <2>4 DEF Init
<1>4. OtherTypes
  BY <1>1, <1>3, SnapshotAssumption DEF Init, OtherTypes, NoAnswer
<1> QED
  BY <1>1, <1>2, <1>4, TypeParts

LEMMA SecondType == TypeOK => Second \in Nat
<1> SUFFICES ASSUME TypeOK PROVE Second \in Nat
  OBVIOUS
<1> QED
  BY SecondsMonotone, SnapshotAssumption DEF TypeOK, Second

LEMMA StepFlags == Flags /\ [Next]_vars => Flags'
<1> SUFFICES ASSUME Flags, [Next]_vars PROVE Flags'
  OBVIOUS
<1>1. /\ blurred' = blurred \/ blurred' \in BOOLEAN
      /\ stale' = stale \/ stale' \in BOOLEAN
      /\ stuck' = stuck \/ stuck' \in BOOLEAN
  BY Zenon DEF Next, Tick, ClockStep, Encode, Request, StartRecvPic, StartRecvPicFails,
     OpenFile, OpenFails, PollAndGet, PollOrGetFails, SaveStream, SaveStreamFails,
     ReleaseStream, StopRecvPic, Serve, NotFound, Quiet
<1> QED
  BY <1>1, Zenon DEF Flags

LEMMA StepOtherTypes == TypeOK /\ [Next]_vars => OtherTypes'
<1> SUFFICES ASSUME TypeOK, [Next]_vars PROVE OtherTypes'
  OBVIOUS
<1> USE SnapshotAssumption DEF OtherTypes
<1>0. OtherTypes /\ Second \in Nat
  BY TypeParts, SecondType
<1>1. CASE Tick
  BY <1>0, <1>1 DEF Tick
<1>2. CASE ClockStep
  BY <1>0, <1>2 DEF ClockStep
<1>3. CASE Encode
  BY <1>0, <1>3 DEF Encode
<1>4. CASE Request
  BY <1>0, <1>4 DEF Request, Go
<1>5. CASE StartRecvPic
  <2>1. receiving' \in BOOLEAN
    BY <1>5, Zenon DEF StartRecvPic
  <2> QED
    BY <1>0, <1>5, <2>1 DEF StartRecvPic, Go
<1>6. CASE StartRecvPicFails
  BY <1>0, <1>6 DEF StartRecvPicFails, Go, Fault, Failed
<1>7. CASE OpenFile
  BY <1>0, <1>7 DEF OpenFile, Go
<1>8. CASE OpenFails
  BY <1>0, <1>8 DEF OpenFails, Go, Fault
<1>9. CASE PollAndGet
  BY <1>0, <1>9 DEF PollAndGet, Go
<1>10. CASE PollOrGetFails
  BY <1>0, <1>10 DEF PollOrGetFails, Go, Fault
<1>11. CASE SaveStream
  BY <1>0, <1>11 DEF SaveStream, Go
<1>12. CASE SaveStreamFails
  BY <1>0, <1>12 DEF SaveStreamFails, Go, Fault
<1>13. CASE ReleaseStream
  BY <1>0, <1>13 DEF ReleaseStream, Go
<1>14. CASE StopRecvPic
  <2>1. receiving' \in BOOLEAN
    BY <1>0, <1>14, Zenon DEF StopRecvPic
  <2>2. faults' \in 0..MaxFaults
    BY <1>0, <1>14 DEF StopRecvPic, Fault
  <2> QED
    BY <1>0, <1>14, <2>1, <2>2 DEF StopRecvPic, Go, Failed
<1>15. CASE Serve
  BY <1>0, <1>15 DEF Serve, Go
<1>16. CASE NotFound
  BY <1>0, <1>16 DEF NotFound, Go, Missing
<1>17. CASE Quiet \/ UNCHANGED vars
  BY <1>0, <1>17 DEF Quiet
<1> QED
  BY <1>1, <1>2, <1>3, <1>4, <1>5, <1>6, <1>7, <1>8, <1>9, <1>10, <1>11, <1>12, <1>13,
     <1>14, <1>15, <1>16, <1>17 DEF Next

\* The files change with an open, a write and an answer.
LEMMA FilesUnchanged ==
    ASSUME [Next]_vars,
           ~(OpenFile \/ SaveStream \/ SaveStreamFails \/ Serve)
    PROVE  files' = files
BY DEF Next, Tick, ClockStep, Encode, Request, StartRecvPic, StartRecvPicFails, OpenFails,
   PollAndGet, PollOrGetFails, ReleaseStream, StopRecvPic, NotFound, Quiet

LEMMA StepFiles ==
    TypeOK /\ ChannelInv /\ [Next]_vars => files' \subseteq File /\ OneFilePerName'
<1> SUFFICES ASSUME TypeOK, ChannelInv, [Next]_vars
             PROVE  files' \subseteq File /\ OneFilePerName'
  OBVIOUS
<1>0. OtherTypes /\ files \subseteq File /\ OneFilePerName /\ Second \in Nat
  BY TypeParts, SecondType
<1>1. CASE OpenFile
  <2>1. req \in Int /\ Second \in Int
    BY <1>0 DEF OtherTypes
  <2> QED
    BY <1>0, <1>1, <2>1, OpenedFiles DEF OpenFile
<1>2. CASE SaveStream \/ SaveStreamFails
  <2>1. PICK w \in BOOLEAN : Written(w)
    BY <1>2, Zenon DEF SaveStream, SaveStreamFails
  <2>2. buffer \in Int /\ Second \in Int
    BY <1>0, <1>2, SnapshotAssumption DEF OtherTypes, ChannelInv, SaveStream, SaveStreamFails
  <2> QED
    BY <1>0, <2>1, <2>2, WrittenFiles
<1>3. CASE Serve
  <2>1. files' \subseteq files
    BY <1>3 DEF Serve
  <2> QED
    BY <1>0, <2>1 DEF OneFilePerName
<1>4. CASE files' = files
  BY <1>0, <1>4 DEF OneFilePerName
<1> QED
  BY <1>1, <1>2, <1>3, <1>4, FilesUnchanged

-----------------------------------------------------------------------------
(* The channel.                                                            *)

LEMMA StepChannel == TypeOK /\ ChannelInv /\ [Next]_vars => ChannelInv'
<1> SUFFICES ASSUME TypeOK, ChannelInv, [Next]_vars PROVE ChannelInv'
  OBVIOUS
<1>0. OtherTypes /\ NoPicture \notin Int
  BY TypeParts, SnapshotAssumption
<1> USE DEF ChannelInv, OtherTypes
<1>1. CASE Tick
  BY <1>0, <1>1 DEF Tick
<1>2. CASE ClockStep
  BY <1>0, <1>2 DEF ClockStep
<1>3. CASE Encode
  BY <1>0, <1>3 DEF Encode
<1>4. CASE Request
  BY <1>0, <1>4 DEF Request, Go
<1>5. CASE StartRecvPic
  BY <1>0, <1>5 DEF StartRecvPic, Go
<1>6. CASE StartRecvPicFails
  BY <1>0, <1>6 DEF StartRecvPicFails, Go
<1>7. CASE OpenFile \/ OpenFails
  BY <1>0, <1>7 DEF OpenFile, OpenFails, Go
<1>8. CASE PollAndGet \/ PollOrGetFails
  BY <1>0, <1>8 DEF PollAndGet, PollOrGetFails, Go
<1>9. CASE SaveStream \/ SaveStreamFails
  <2>1. /\ pc = "save" /\ pc' = "release"
        /\ UNCHANGED <<time, asked, buffer, receiving, stale>>
    BY <1>9 DEF SaveStream, SaveStreamFails, Go
  <2> QED
    BY <1>0, <2>1
<1>10. CASE ReleaseStream
  BY <1>0, <1>10 DEF ReleaseStream, Go
<1>11. CASE StopRecvPic
  <2>1. pc' \in {"idle", "find"} /\ UNCHANGED <<time, asked, buffer>>
    BY <1>11 DEF StopRecvPic, Go
  <2>2. receiving' => stuck'
    BY <1>11 DEF StopRecvPic
  <2>3. buffer # NoPicture => stale'
    BY <1>11 DEF StopRecvPic
  <2> QED
    BY <1>0, <2>1, <2>2, <2>3
<1>12. CASE Serve \/ NotFound
  BY <1>0, <1>12 DEF Serve, NotFound, Go
<1>13. CASE Quiet \/ UNCHANGED vars
  BY <1>13 DEF Quiet
<1> QED
  BY <1>1, <1>2, <1>3, <1>4, <1>5, <1>6, <1>7, <1>8, <1>9, <1>10, <1>11, <1>12, <1>13
     DEF Next

LEMMA ChannelInvariant == Spec => [](TypeOK /\ ChannelInv)
<1>1. Init => TypeOK /\ ChannelInv
  BY InitTypeOK DEF Init, ChannelInv
<1>2. TypeOK /\ ChannelInv /\ [Next]_vars => TypeOK' /\ ChannelInv'
  <2> SUFFICES ASSUME TypeOK, ChannelInv, [Next]_vars PROVE TypeOK' /\ ChannelInv'
    OBVIOUS
  <2>1. OtherTypes' /\ Flags' /\ files' \subseteq File /\ OneFilePerName'
    BY StepOtherTypes, StepFlags, StepFiles, TypeParts
  <2>2. TypeOK'
    <3>1. {blurred, stale, stuck}' \subseteq BOOLEAN
      BY <2>1, Zenon DEF Flags
    <3> QED
      BY <2>1, <3>1 DEF TypeOK, OtherTypes, OneFilePerName
  <2> QED
    BY <2>2, StepChannel
<1> QED
  BY <1>1, <1>2, PTL DEF Spec

\* The variables keep their types: there is one file of a name in a directory,
\* and a picture that is written is one that was taken.
THEOREM TypeCorrect == Spec => []TypeOK
BY ChannelInvariant, PTL

\* Between requests the channel does not receive, on whatever path the capture
\* ended, unless StopRecvPic itself failed: every StartRecvPic of
\* sample_do_get_jpeg_snap() is balanced.
THEOREM ChannelBalanced == Spec => []ChannelFree
<1>1. ChannelInv => ChannelFree
  BY DEF ChannelInv, ChannelFree
<1> QED
  BY <1>1, ChannelInvariant, PTL

-----------------------------------------------------------------------------
(* Leftovers.                                                              *)

LEMMA StepCount ==
    TypeOK /\ ChannelInv /\ CountInv /\ [Next]_vars => CountInv'
<1> SUFFICES ASSUME TypeOK, ChannelInv, CountInv, [Next]_vars PROVE CountInv'
  OBVIOUS
<1> USE DEF CountInv, Holding, Captured
<1>0. /\ OtherTypes /\ files \subseteq File /\ OneFilePerName /\ Second \in Nat
      /\ Cardinality(files) \in Nat
  BY TypeParts, SecondType, FS_CardinalityType
<1> USE DEF OtherTypes
<1>1. CASE Tick \/ ClockStep \/ Encode
  BY <1>1 DEF Tick, ClockStep, Encode
<1>2. CASE Request \/ StartRecvPic \/ StartRecvPicFails
  BY <1>2 DEF Request, StartRecvPic, StartRecvPicFails, Go
<1>3. CASE OpenFile
  <2> DEFINE rest == files \ Named(Second)
  <2>1. /\ IsFiniteSet(rest) /\ Cardinality(rest) \in Nat
        /\ Cardinality(rest) <= Cardinality(files)
    BY FS_Subset, FS_CardinalityType
  <2>2. \E new : files' = rest \cup {new}
    BY <1>3 DEF OpenFile
  <2>3. IsFiniteSet(files') /\ Cardinality(files') <= Cardinality(rest) + 1
    <3> HIDE DEF rest
    <3>1. PICK new : files' = rest \cup {new}
      BY <2>2
    <3>2. /\ IsFiniteSet(rest \cup {new})
          /\ Cardinality(rest \cup {new}) =
               IF new \in rest THEN Cardinality(rest) ELSE Cardinality(rest) + 1
      BY <2>1, FS_AddElement
    <3> QED
      BY <2>1, <3>1, <3>2
  <2>4. pc = "open" /\ pc' = "poll" /\ left' = left
    BY <1>3 DEF OpenFile, Go
  <2>5. Cardinality(files') \in Nat
    BY <2>3, FS_CardinalityType
  <2> QED
    BY <1>0, <2>1, <2>3, <2>4, <2>5
<1>4. CASE OpenFails
  BY <1>0, <1>4 DEF OpenFails, Go
<1>5. CASE PollAndGet
  BY <1>0, <1>5 DEF PollAndGet, Go
<1>6. CASE PollOrGetFails
  BY <1>0, <1>6 DEF PollOrGetFails, Go
<1>7. CASE SaveStream \/ SaveStreamFails
  <2>1. PICK w \in BOOLEAN : Written(w)
    BY <1>7, Zenon DEF SaveStream, SaveStreamFails
  <2>2. buffer \in Int /\ Second \in Int
    BY <1>0, <1>7, SnapshotAssumption DEF ChannelInv, SaveStream, SaveStreamFails
  <2>3. IsFiniteSet(files') /\ Cardinality(files') <= Cardinality(files)
    <3>1. CASE files' = files
      BY <1>0, <3>1
    <3>2. ASSUME NEW f \in files, NEW g, files' = (files \ {f}) \cup {g}
          PROVE  IsFiniteSet(files') /\ Cardinality(files') <= Cardinality(files)
      <4>1. /\ IsFiniteSet(files \ {f})
            /\ Cardinality(files \ {f}) = Cardinality(files) - 1
        BY FS_RemoveElement
      <4> QED
        BY <1>0, <3>2, <4>1, FS_AddElement
    <3>3. files' = files \/ \E f \in files : \E g : files' = (files \ {f}) \cup {g}
      BY <1>0, <2>1, <2>2, WrittenFiles DEF Named
    <3> QED
      BY <3>1, <3>2, <3>3
  <2>4. Cardinality(files') \in Nat
    BY <2>3, FS_CardinalityType
  <2>5. /\ pc = "save" /\ pc' = "release"
        /\ (ret' = 0 /\ left' = left) \/ (ret' = -1 /\ left' = left + 1)
    BY <1>7 DEF SaveStream, SaveStreamFails, Go
  <2> QED
    BY <1>0, <2>3, <2>4, <2>5
<1>8. CASE ReleaseStream
  BY <1>0, <1>8 DEF ReleaseStream, Go
<1>9. CASE StopRecvPic
  <2>1. /\ pc = "stop" /\ UNCHANGED <<files, ret, left>>
        /\ IF ret < 0 THEN pc' = "idle" ELSE pc' = "find"
    BY <1>9 DEF StopRecvPic, Go
  <2> QED
    BY <1>0, <2>1
<1>10. CASE Serve
  <2>1. PICK f \in Latest : files' = files \ {f}
    BY <1>10 DEF Serve
  <2>2. f \in files
    BY DEF Latest
  <2>3. IsFiniteSet(files') /\ Cardinality(files') = Cardinality(files) - 1
    BY <2>1, <2>2, FS_RemoveElement
  <2> QED
    BY <1>0, <1>10, <2>3 DEF Serve, Go
<1>11. CASE NotFound
  BY <1>0, <1>11 DEF NotFound, Go
<1>12. CASE Quiet \/ UNCHANGED vars
  BY <1>12 DEF Quiet
<1> QED
  BY <1>1, <1>2, <1>3, <1>4, <1>5, <1>6, <1>7, <1>8, <1>9, <1>10, <1>11, <1>12 DEF Next

LEMMA InitCount == Init => CountInv
<1> SUFFICES ASSUME Init PROVE CountInv
  OBVIOUS
<1>1. files = {} \/ \E f : files = {f}
  BY DEF Init
<1>2. IsFiniteSet(files) /\ Cardinality(files) \in Nat
  <2>1. CASE files = {}
    BY <2>1, FS_EmptySet
  <2>2. ASSUME NEW f, files = {f} PROVE IsFiniteSet(files) /\ Cardinality(files) \in Nat
    <3>1. IsFiniteSet(files) /\ Cardinality(files) = 1
      BY <2>2, FS_Singleton, Zenon
    <3> QED
      BY <3>1
  <2> QED
    BY <1>1, <2>1, <2>2
<1> QED
  BY <1>2 DEF Init, CountInv, Holding, Captured

\* Every file in /tmp stands for a capture that was answered with an error, or
\* was there at the start: what is served is unlinked, what fails half way is
\* overwritten or counted, and so the camera's memory does not fill with
\* pictures, whatever the clock does.
THEOREM LeftoversCounted == Spec => []LeftoversAreFailures
<1>1. TypeOK /\ CountInv => LeftoversAreFailures
  BY DEF TypeOK, CountInv, LeftoversAreFailures, Holding, Captured
<1> QED
  BY <1>1, InitCount, StepCount, ChannelInvariant, PTL DEF Spec

-----------------------------------------------------------------------------
(* The answers.                                                            *)

\* The leftovers of an earlier run are from a second before the daemon started,
\* or named after the one it started in: the clock was not set back between the
\* runs, and no request is served in the second of another run's.
OldFilesAreOld == \A f \in OldFiles : f.mtime <= 1 /\ (f.dir = 1 /\ f.mtime = 1 => f.name = 1)

\* The clock is not set back, and its second does not shrink, until "blurred".
LEMMA Blur ==
    ASSUME TypeOK, TypeOK', [Next]_vars, ~blurred'
    PROVE  ~blurred /\ Second <= Second' /\ Second' \in Int /\ (stale => stale')
<1>1. ~blurred /\ (stale => stale') /\ wall <= wall'
  <2>1. CASE Tick
    BY <2>1 DEF Tick, TypeOK
  <2>2. CASE ClockStep
    <3>1. ~blurred /\ stale' = stale /\ ~(wall' < wall)
      BY <2>2 DEF ClockStep
    <3> QED
      BY <3>1 DEF TypeOK
  <2>3. CASE ~(Tick \/ ClockStep)
    <3>1. /\ wall' = wall
          /\ blurred' = blurred \/ blurred' = TRUE
          /\ stale' = stale \/ stale' = (stale \/ buffer # NoPicture)
      BY <2>3 DEF Next, Encode, Request, StartRecvPic, StartRecvPicFails, OpenFile, OpenFails,
         PollAndGet, PollOrGetFails, SaveStream, SaveStreamFails, ReleaseStream, StopRecvPic,
         Serve, NotFound, Quiet
    <3>2. ~blurred
      BY <3>1, Zenon
    <3>3. stale => stale'
      BY <3>1, Zenon
    <3> QED
      BY <3>1, <3>2, <3>3 DEF TypeOK
  <2> QED
    BY <2>1, <2>2, <2>3
<1>2. wall \in Nat /\ wall' \in Nat
  BY DEF TypeOK
<1>3. Second <= Second' /\ Second' \in Int
  <2>1. /\ wall \div PerSec <= wall' \div PerSec
        /\ wall' \div PerSec \in Nat
    <3>1. wall' <= wall'
      BY <1>2
    <3>2. wall \div PerSec <= wall' \div PerSec
      BY <1>1, <1>2, SecondsMonotone, SnapshotAssumption
    <3>3. wall' \div PerSec \in Nat
      BY <1>2, <3>1, SecondsMonotone, SnapshotAssumption
    <3> QED
      BY <3>2, <3>3
  <2> QED
    BY <2>1 DEF Second
<1> QED
  BY <1>1, <1>3

\* What find_latest_snapshot() finds is the file of the request in hand.
LEMMA OwnIsLatest ==
    ASSUME TypeOK, FileInv, pc = "find", ~blurred
    PROVE  \E f \in Named(name) :
              /\ Latest = {f} /\ Named(name) = {f}
              /\ f.req = req /\ f.whole /\ (stale \/ f.pic >= asked)
<1> USE DEF Captured, Holding
<1>0. files \subseteq File /\ OneFilePerName
  BY TypeParts
<1>1. PICK f \in Named(name) :
          f.req = req /\ f.whole /\ f.mtime >= name /\ (stale \/ f.pic >= asked)
  BY DEF FileInv
<1>2. /\ 1 <= name /\ name \in Nat
      /\ \A g \in files : g \in Named(name) \/ g.mtime <= name
      /\ \A g \in files : g.dir = 1 => g.mtime < 1 \/ g.mtime = g.name \/ g.name = name
  BY DEF FileInv, TypeOK
<1>3. Named(name) = {f} /\ f \in files /\ f.dir = 1 /\ f.name = name /\ f.mtime \in Int
  BY <1>0, NamedAtMostOne DEF Named, File
<1>4. f \in Latest
  <2>1. ASSUME NEW g \in files
        PROVE  g.mtime < f.mtime \/ (g.mtime = f.mtime /\ g.dir >= f.dir)
    <3>1. g.mtime \in Int /\ g.dir \in 1..3
      BY <1>0 DEF File
    <3> QED
      BY <1>1, <1>2, <1>3, <3>1
  <2> QED
    BY <1>1, <1>2, <1>3, <2>1 DEF Latest
<1>5. ASSUME NEW g \in Latest PROVE g = f
  <2>1. /\ g \in files /\ g.mtime \in Int /\ g.dir \in 1..3 /\ g.name \in Int
    BY <1>0 DEF Latest, File
  <2>2. f.mtime < g.mtime \/ (f.mtime = g.mtime /\ f.dir >= g.dir)
    BY <1>3 DEF Latest
  <2>3. CASE g \in Named(name)
    BY <1>3, <2>3
  <2>4. CASE g \notin Named(name)
    <3>1. g.mtime <= name
      BY <1>2, <2>1, <2>4
    <3>2. g.mtime = name /\ g.dir = 1
      BY <1>1, <1>2, <1>3, <2>1, <2>2, <3>1
    <3>3. g.name = name
      BY <1>2, <2>1, <3>2
    <3> QED
      BY <2>1, <2>4, <3>2, <3>3 DEF Named
  <2> QED
    BY <2>3, <2>4
<1> QED
  BY <1>1, <1>3, <1>4, <1>5

\* What time alone, and steps that leave the file in hand as it is, preserve.
LEMMA SameHand ==
    ASSUME TypeOK, FileInv, ~blurred, Second' \in Int, Second <= Second', stale => stale',
           UNCHANGED <<files, name>>, Captured' <=> Captured,
           Holding' => Holding /\ UNCHANGED <<req, asked>>
    PROVE  FileInv'
<1>1. Second \in Nat /\ Second' \in Int
  BY SecondType
<1>2. \A f \in files : f.mtime \in Int
  BY DEF TypeOK, File
<1>3. Named(name)' = Named(name)
  BY DEF Named
<1>4. name \in Nat
  BY DEF TypeOK
<1> QED
  BY <1>1, <1>2, <1>3, <1>4 DEF FileInv

LEMMA StepFile ==
    ASSUME TypeOK, TypeOK', ChannelInv, FileInv, [Next]_vars PROVE FileInv'
<1> SUFFICES ASSUME ~blurred' PROVE FileInv'
  BY DEF FileInv
<1>0. /\ OtherTypes /\ files \subseteq File /\ OneFilePerName /\ Second \in Nat
      /\ ~blurred /\ Second <= Second' /\ (stale => stale') /\ Second' \in Int
  BY TypeParts, SecondType, Blur
<1>1. CASE Tick \/ ClockStep \/ Encode \/ Quiet \/ UNCHANGED vars
  <2>1. UNCHANGED <<files, name, pc, ret, req, asked>>
    BY <1>1 DEF Tick, ClockStep, Encode, Quiet
  <2>2. Captured' = Captured /\ Holding' = Holding
    BY <2>1 DEF Captured, Holding
  <2> QED
    BY <1>0, <2>1, <2>2, SameHand
<1>2. CASE \/ Request \/ StartRecvPic \/ StartRecvPicFails \/ OpenFails
           \/ PollAndGet \/ PollOrGetFails \/ ReleaseStream \/ StopRecvPic
  <2>1. UNCHANGED <<files, name>>
    BY <1>2 DEF Request, StartRecvPic, StartRecvPicFails, OpenFails, PollAndGet,
       PollOrGetFails, ReleaseStream, StopRecvPic
  <2>2. (Captured' <=> Captured) /\ (Holding' => Holding)
    BY <1>0, <1>2 DEF Request, StartRecvPic, StartRecvPicFails, OpenFails, PollAndGet,
       PollOrGetFails, ReleaseStream, StopRecvPic, Go, Captured, Holding, OtherTypes
  <2>3. Holding' => UNCHANGED <<req, asked>>
    BY <1>2 DEF Request, StartRecvPic, StartRecvPicFails, OpenFails, PollAndGet,
       PollOrGetFails, ReleaseStream, StopRecvPic, Go, Captured, Holding
  <2> QED
    BY <1>0, <2>1, <2>2, <2>3, SameHand
<1>3. CASE OpenFile
  <2> DEFINE new == [dir |-> 1, name |-> Second, mtime |-> Second, req |-> req,
                     whole |-> FALSE, pic |-> -1]
  <2>1. /\ files' = (files \ Named(Second)) \cup {new} /\ name' = Second
        /\ pc = "open" /\ pc' = "poll" /\ req' = req /\ Second' = Second
    BY <1>3 DEF OpenFile, Go, Second
  <2>2. new.dir = 1 /\ new.name = Second /\ new.mtime = Second /\ new.req = req
    OBVIOUS
  <2>3. ~Captured /\ ~Captured' /\ Holding'
    BY <2>1 DEF Captured, Holding
  <2> HIDE DEF new
  <2>4. \A f \in files : f.mtime <= Second /\ (f.dir = 1 => f.mtime < 1 \/ f.mtime = f.name)
    BY <1>0, <2>3 DEF FileInv
  <2>5. new \in Named(name)' /\ 1 <= Second
    BY <1>0, <2>1, <2>2 DEF Named, FileInv
  <2>6. Second <= Second
    BY <1>0
  <2> QED
    BY <1>0, <2>1, <2>2, <2>3, <2>4, <2>5, <2>6 DEF FileInv
<1>4. CASE SaveStream
  <2>1. /\ Written(TRUE) /\ pc = "save" /\ pc' = "release" /\ ret' = 0
        /\ UNCHANGED <<name, req, asked, stale>> /\ Second' = Second
    BY <1>4 DEF SaveStream, Go, Second
  <2>2. buffer \in Int /\ (stale \/ buffer >= asked)
    BY <1>0, <2>1 DEF ChannelInv, OtherTypes
  <2>3. ~Captured /\ Holding /\ Captured' /\ Holding'
    BY <2>1 DEF Captured, Holding
  <2>4. PICK f \in Named(name) : f.req = req
    BY <1>0, <2>3 DEF FileInv
  <2>5. TRUE \in BOOLEAN
    BY Zenon
  <2>6. Named(name) = {f} /\ files' = (files \ {f}) \cup {Image(f, TRUE)}
    <3>1. PICK g \in Named(name) :
             Named(name) = {g} /\ files' = (files \ {g}) \cup {Image(g, TRUE)}
      BY <1>0, <2>1, <2>2, <2>4, <2>5, WrittenFiles
    <3> QED
      BY <2>4, <3>1
  <2>7. f \in files /\ f \in File /\ f.dir = 1 /\ f.name = name
    BY <1>0 DEF Named
  <2> DEFINE new == Image(f, TRUE)
  <2>8. /\ new.dir = 1 /\ new.name = name /\ new.req = req /\ new.mtime = Second
        /\ new.pic = buffer /\ new.whole
    <3>1. /\ new.dir = f.dir /\ new.name = f.name /\ new.req = f.req
          /\ new.mtime = Second /\ new.pic = buffer /\ new.whole = TRUE
      <4>1. Second \in Int
        BY <1>0
      <4> QED
        BY <2>2, <2>5, <2>7, <4>1, ImageFields, Zenon
    <3>2. new.whole
      BY <3>1, Zenon
    <3> QED
      BY <2>4, <2>7, <3>1, <3>2
  <2> HIDE DEF new
  <2>9. /\ \A g \in files : g.mtime <= Second /\ (g.dir = 1 => g.mtime < 1 \/ g.mtime = g.name)
        /\ 1 <= name /\ name <= Second /\ Second >= 1 /\ name \in Nat
        /\ \A g \in files : g = f \/ g.mtime <= name
    BY <1>0, <2>3, <2>6 DEF FileInv, OtherTypes
  <2>10. files' = (files \ {f}) \cup {new}
    BY <2>6 DEF new
  <2>11. new \in Named(name)'
    BY <2>1, <2>8, <2>10 DEF Named
  <2>12. \A g \in files' : g \in Named(name)' \/ g.mtime <= name
    BY <2>9, <2>10, <2>11
  <2>13. \A g \in files' : g.mtime <= Second
    BY <1>0, <2>8, <2>9, <2>10
  <2>14. \A g \in files' : g.dir = 1 => g.mtime < 1 \/ g.mtime = g.name \/ g.name = name
    BY <2>8, <2>9, <2>10
  <2>15. \E g \in Named(name)' : g.req = req /\ g.whole /\ g.mtime >= name
                                 /\ (stale \/ g.pic >= asked)
    BY <1>0, <2>2, <2>8, <2>9, <2>11
  <2> QED
    BY <1>0, <2>1, <2>3, <2>9, <2>12, <2>13, <2>14, <2>15 DEF FileInv
<1>5. ~SaveStreamFails
  BY DEF SaveStreamFails
<1>6. CASE Serve
  <2>1. pc = "find" /\ pc' = "idle" /\ Second' = Second
    BY <1>6 DEF Serve, Go, Second
  <2>2. files' = files \ Named(name)
    BY <1>0, <1>6, <2>1, OwnIsLatest DEF Serve
  <2>3. ~Captured' /\ ~Holding'
    BY <2>1 DEF Captured, Holding
  <2> QED
    BY <1>0, <2>1, <2>2, <2>3 DEF FileInv, Named
<1>7. ~NotFound
  <2> SUFFICES ASSUME NotFound PROVE FALSE
    OBVIOUS
  <2>1. pc = "find" /\ Latest = {}
    BY DEF NotFound
  <2> QED
    BY <1>0, <2>1, OwnIsLatest
<1> QED
  BY <1>1, <1>2, <1>3, <1>4, <1>5, <1>6, <1>7 DEF Next

LEMMA StepAnswer ==
    ASSUME TypeOK, TypeOK', FileInv, ServesItsCapture, [Next]_vars PROVE ServesItsCapture'
<1> SUFFICES ASSUME ~blurred', Served' PROVE ServesItsCapture'
  BY DEF ServesItsCapture
<1>0. ~blurred /\ (stale => stale')
  BY Blur
<1>1. CASE Serve
  <2>1. /\ pc = "find" /\ stale' = stale
        /\ \E f \in Latest :
              answer' = [status |-> 200, req |-> req, asked |-> asked, file |-> f]
    BY <1>1 DEF Serve
  <2>2. PICK f : /\ answer' = [status |-> 200, req |-> req, asked |-> asked, file |-> f]
                 /\ f.req = req /\ f.whole /\ (stale \/ f.pic >= asked)
    BY <1>0, <2>1, OwnIsLatest
  <2>3. answer'.req = req /\ answer'.asked = asked /\ answer'.file = f
    BY <2>2
  <2> QED
    BY <2>1, <2>2, <2>3 DEF ServesItsCapture
<1>2. CASE ~Serve
  <2>1. answer' = answer \/ answer' = Failed \/ answer' = Missing
    BY <1>2 DEF Next, Tick, ClockStep, Encode, Request, StartRecvPic, StartRecvPicFails,
       OpenFile, OpenFails, PollAndGet, PollOrGetFails, SaveStream, SaveStreamFails,
       ReleaseStream, StopRecvPic, NotFound, Quiet
  <2>2. answer' = answer
    BY <2>1 DEF Served, Failed, Missing
  <2> QED
    BY <1>0, <2>2 DEF ServesItsCapture, Served
<1> QED
  BY <1>1, <1>2

LEMMA InitFile == ASSUME OldFilesAreOld PROVE Init => FileInv /\ ServesItsCapture
<1> SUFFICES ASSUME Init PROVE FileInv /\ ServesItsCapture
  OBVIOUS
<1>1. Second = 1
  BY OneSecond, SnapshotAssumption DEF Init, Second
<1>2. \A f \in files : f \in OldFiles /\ f.mtime \in Int
  BY SnapshotAssumption DEF Init, File
<1>3. ~Holding /\ ~Captured
  BY DEF Init, Holding, Captured
<1>4. FileInv
  BY <1>1, <1>2, <1>3 DEF FileInv, OldFilesAreOld
<1>5. ~Served
  BY DEF Init, Served, NoAnswer
<1> QED
  BY <1>4, <1>5 DEF ServesItsCapture

\* A client never gets another request's picture, nor an empty or cut one: the
\* newest file is that of the capture just made, whatever captures failed before
\* and whatever lies in the other directories, as long as the clock is not set
\* back and no write failed half way; and the picture was taken after the request
\* came, unless the channel was once stopped with a picture in its buffer.
THEOREM AnswersOwnCapture ==
    ASSUME OldFilesAreOld PROVE Spec => []ServesItsCapture
<1>1. Init => FileInv /\ ServesItsCapture
  BY InitFile
<1>2. /\ TypeOK /\ TypeOK' /\ ChannelInv /\ FileInv /\ ServesItsCapture /\ [Next]_vars
      => FileInv' /\ ServesItsCapture'
  BY StepFile, StepAnswer
<1> QED
  BY <1>1, <1>2, ChannelInvariant, PTL DEF Spec
=============================================================================
