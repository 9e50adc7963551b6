--------------------------- MODULE KeepAliveProofs ---------------------------
(***************************************************************************)
(* Theorems about KeepAlive.tla, for every value of its constants.         *)
(***************************************************************************)
EXTENDS KeepAlive, SequenceTheorems, TLAPS

USE DEF clientVars, serverVars, vars

LEMMA NoPartType == NoPart \in Parts
<1>1. 0 \in 0..MaxCalls
  BY ConfigAssumption
<1>2. FALSE \in BOOLEAN
  BY Zenon
<1>3. "length" \in AllFramings
  BY DEF AllFramings
<1> QED
  BY <1>1, <1>2, <1>3 DEF NoPart, Parts

\* The "408 Request Timeout" of a server that closes an idle connection.
LEMMA TimeoutPart ==
    [kind |-> "head", of |-> 0, good |-> FALSE, framing |-> "length, close"] \in Parts
<1>1. FALSE \in BOOLEAN /\ "head" \in {"none", "head", "body"}
  BY Zenon
<1>2. "length, close" \in AllFramings
  BY DEF AllFramings
<1>3. 0 \in 0..MaxCalls
  BY ConfigAssumption
<1> QED
  BY <1>1, <1>2, <1>3 DEF Parts

LEMMA IdleLong ==
    ASSUME TypeOK, ServerTimesOut
    PROVE  srvLast # now /\ now - srvLast >= ServerIdle /\ ~(now - srvLast < ServerIdle)
<1>1. now \in Int /\ srvLast \in Int /\ ServerIdle \in Int /\ ServerIdle > 0
  BY ConfigAssumption DEF TypeOK
<1>2. now - srvLast >= ServerIdle
  BY DEF ServerTimesOut
<1> QED
  BY <1>1, <1>2

\* Taking the first part, and adding one or two.
LEMMA TailParts ==
    ASSUME inbox \in Seq(Parts), inbox # <<>>
    PROVE  /\ Len(inbox) \in Nat /\ Len(inbox) >= 1
           /\ Head(inbox) = inbox[1] /\ Head(inbox) \in Parts
           /\ Tail(inbox) \in Seq(Parts)
           /\ Len(Tail(inbox)) = Len(inbox) - 1
           /\ \A i \in 1..Len(Tail(inbox)) : Tail(inbox)[i] = inbox[i + 1]
<1>1. /\ Head(inbox) \in Parts /\ Tail(inbox) \in Seq(Parts)
      /\ Len(Tail(inbox)) = Len(inbox) - 1
      /\ \A i \in 1..Len(Tail(inbox)) : Tail(inbox)[i] = inbox[i + 1]
  BY HeadTailProperties
<1>2. Len(inbox) \in Nat /\ Len(inbox) >= 1
  BY EmptySeq
<1>3. Head(inbox) = inbox[1]
  BY <1>2
<1> QED
  BY <1>1, <1>2, <1>3

LEMMA AddedPart ==
    ASSUME inbox \in Seq(Parts), NEW p \in Parts
    PROVE  /\ inbox \o <<p>> \in Seq(Parts)
           /\ Len(inbox) \in Nat /\ Len(inbox \o <<p>>) = Len(inbox) + 1
           /\ \A i \in 1..Len(inbox) : (inbox \o <<p>>)[i] = inbox[i]
           /\ (inbox \o <<p>>)[Len(inbox) + 1] = p
<1>1. <<p>> \in Seq(Parts) /\ Len(<<p>>) = 1 /\ <<p>>[1] = p
  OBVIOUS
<1>2. Len(inbox) \in Nat
  BY LenProperties
<1> QED
  BY <1>1, <1>2, ConcatProperties

LEMMA AnswerParts ==
    ASSUME inbox \in Seq(Parts), NEW p \in Parts, NEW q \in Parts
    PROVE  inbox \o <<p, q>> \in Seq(Parts)
<1>1. <<p, q>> \in Seq(Parts)
  OBVIOUS
<1> QED
  BY <1>1, ConcatProperties

LEMMA InitTypeOK == Init => TypeOK
<1> SUFFICES ASSUME Init PROVE TypeOK
  OBVIOUS
<1>1. /\ valid \in BOOLEAN /\ cached \in BOOLEAN /\ srvOpen \in BOOLEAN
      /\ complete \in BOOLEAN /\ truncated \in BOOLEAN
  BY Zenon DEF Init
<1>2. inbox \in Seq(Parts)
  BY EmptySeq DEF Init
<1> QED
  BY <1>1, <1>2, NoPartType, ConfigAssumption DEF Init, TypeOK, Calls

LEMMA DropTypes ==
    ASSUME TypeOK, Drop
    PROVE  /\ lastUse' \in 0..MaxTime /\ srvLast' \in 0..MaxTime
           /\ valid' \in BOOLEAN /\ srvOpen' \in BOOLEAN
           /\ pending' \in 0..MaxCalls
           /\ inbox' \in Seq(Parts) /\ accepted' \subseteq Calls
<1>1. valid' \in BOOLEAN /\ srvOpen' \in BOOLEAN
  BY Zenon DEF Drop
<1>2. inbox' \in Seq(Parts)
  BY EmptySeq DEF Drop
<1> QED
  BY <1>1, <1>2, ConfigAssumption DEF TypeOK, Drop

LEMMA ReturnTypes ==
    ASSUME TypeOK, NEW how \in {"ok", "failed"}, Return(how)
    PROVE  /\ now' \in 0..MaxTime /\ call' \in 0..MaxCalls
           /\ pc' = "idle" /\ attempt' \in {0, 1}
           /\ cached' \in BOOLEAN /\ complete' \in BOOLEAN /\ truncated' \in BOOLEAN
           /\ first' \in Parts /\ hdr' \in Parts
           /\ result' \in [Calls -> {"none", "ok", "failed"}]
<1>1. cached' \in BOOLEAN /\ complete' \in BOOLEAN /\ truncated' \in BOOLEAN
  BY Zenon DEF Return
<1> QED
  BY <1>1, NoPartType DEF TypeOK, Return

LEMMA StepTypeOK == TypeOK /\ ResponseInv /\ [Next]_vars => TypeOK'
<1> SUFFICES ASSUME TypeOK, ResponseInv, [Next]_vars PROVE TypeOK'
  OBVIOUS
<1> USE ConfigAssumption
<1>1. CASE Tick
  BY <1>1 DEF TypeOK, Tick
<1>2. CASE StartCall
  BY <1>2 DEF TypeOK, StartCall
<1>3. CASE DropStale
  BY <1>3, DropTypes DEF TypeOK, DropStale, prepareUnchanged
<1>4. CASE Reuse
  <2>1. cached' \in BOOLEAN
    BY <1>4, Zenon DEF Reuse
  <2> QED
    BY <1>4, <2>1 DEF TypeOK, Reuse, prepareUnchanged
<1>5. CASE Connect
  <2>1. cached' \in BOOLEAN /\ valid' \in BOOLEAN /\ srvOpen' \in BOOLEAN
    BY <1>5, Zenon DEF Connect
  <2>2. inbox' \in Seq(Parts)
    BY <1>5, EmptySeq DEF Connect
  <2> QED
    BY <1>5, <2>1, <2>2 DEF TypeOK, Connect, prepareUnchanged
<1>6. CASE ConnectFails
  <2>1. hit' \subseteq Calls
    BY <1>6 DEF TypeOK, ResponseInv, ConnectFails, Calls
  <2> QED
    BY <1>6, <2>1, ReturnTypes DEF TypeOK, ConnectFails
<1>7. CASE SendOk
  BY <1>7 DEF TypeOK, SendOk, sendUnchanged
<1>8. CASE SendFails
  <2>1. hit' \subseteq Calls /\ hit' \subseteq Calls
    BY <1>8 DEF TypeOK, ResponseInv, SendFails, Calls
  <2>2. /\ lastUse' \in 0..MaxTime /\ srvLast' \in 0..MaxTime
        /\ valid' \in BOOLEAN /\ srvOpen' \in BOOLEAN
        /\ pending' \in 0..MaxCalls
        /\ inbox' \in Seq(Parts) /\ accepted' \subseteq Calls
    BY <1>8, DropTypes DEF SendFails, DropAfterFailure
  <2>3. CASE Return("failed")
    BY <2>1, <2>2, <2>3, ReturnTypes DEF TypeOK
  <2>4. CASE ~Return("failed")
    BY <1>8, <2>1, <2>2, <2>4 DEF TypeOK, SendFails
  <2> QED
    BY <2>3, <2>4
<1>9. CASE ReadPart
  <2>1. complete' \in BOOLEAN
    BY <1>9, Zenon DEF ReadPart
  <2>2. inbox' \in Seq(Parts) /\ first' \in Parts /\ hdr' \in Parts
    BY <1>9, TailParts DEF TypeOK, ReadPart
  <2>3. pc' \in {"read", "parse"} /\ pc = "read"
    BY <1>9 DEF ReadPart
  <2> QED
    BY <1>9, <2>1, <2>2, <2>3 DEF TypeOK, ReadPart, readUnchanged
<1>10. CASE ReadEof
  <2>1. complete' \in BOOLEAN /\ truncated' \in BOOLEAN
    BY <1>10, Zenon DEF TypeOK, ReadEof
  <2> QED
    BY <1>10, <2>1 DEF TypeOK, ReadEof, readUnchanged
<1>11. CASE ReadFails
  <2>1. truncated' \in BOOLEAN
    BY <1>11, Zenon DEF ReadFails
  <2>2. hit' \subseteq Calls
    BY <1>11 DEF TypeOK, ResponseInv, ReadFails, Calls
  <2> QED
    BY <1>11, <2>1, <2>2 DEF TypeOK, ReadFails, readUnchanged
<1>12. CASE ParseStatus
  <2>1. PICK how \in {"ok", "failed"} : Return(how)
    BY <1>12 DEF ParseStatus
  <2>2. /\ lastUse' \in 0..MaxTime /\ srvLast' \in 0..MaxTime
        /\ valid' \in BOOLEAN /\ srvOpen' \in BOOLEAN
        /\ pending' \in 0..MaxCalls
        /\ inbox' \in Seq(Parts) /\ accepted' \subseteq Calls
    BY <1>12, DropTypes DEF TypeOK, ParseStatus, Keep
  <2>3. hit' \subseteq Calls
    BY <1>12 DEF TypeOK, ParseStatus
  <2> QED
    BY <2>1, <2>2, <2>3, ReturnTypes DEF TypeOK
<1>13. ASSUME NEW f \in Framings, NEW good \in BOOLEAN, Answer(f, good)
       PROVE  TypeOK'
  <2>1. srvOpen' \in BOOLEAN
    BY <1>13, Zenon DEF Answer
  <2>2. inbox' \in Seq(Parts)
    BY <1>13, AnswerParts DEF TypeOK, Answer, Parts
  <2>3. hit' \subseteq Calls /\ accepted' \subseteq Calls
    BY <1>13 DEF TypeOK, Answer, Calls
  <2> QED
    BY <1>13, <2>1, <2>2, <2>3 DEF TypeOK, Answer
<1>14. CASE ServerDies
  <2>1. srvOpen' \in BOOLEAN
    BY <1>14, Zenon DEF ServerDies
  <2> QED
    BY <1>14, <2>1 DEF TypeOK, ServerDies, Calls
<1>15. CASE ServerTimesOut
  <2>1. srvOpen' \in BOOLEAN
    BY <1>15, Zenon DEF ServerTimesOut
  <2> DEFINE p == [kind |-> "head", of |-> 0, good |-> FALSE,
                   framing |-> "length, close"]
  <2>2. p \in Parts
    BY TimeoutPart
  <2>3. inbox' = inbox \/ inbox' = inbox \o <<p>>
    BY <1>15 DEF ServerTimesOut
  <2>4. inbox' \in Seq(Parts)
    <3> HIDE DEF p
    <3> QED
      BY <2>2, <2>3, AddedPart DEF TypeOK
  <2> QED
    BY <1>15, <2>1, <2>4 DEF TypeOK, ServerTimesOut
<1>16. CASE UNCHANGED vars
  BY <1>16 DEF TypeOK
<1> QED
  BY <1>1, <1>2, <1>3, <1>4, <1>5, <1>6, <1>7, <1>8, <1>9, <1>10, <1>11, <1>12,
     <1>13, <1>14, <1>15, <1>16
     DEF Next, AllDone

-----------------------------------------------------------------------------
(* What is read and what is unread.                                        *)

LEMMA NoPartFields ==
    NoPart.kind = "none" /\ ~NoPart.good /\ NoPart.framing = "length"
BY DEF NoPart

\* Nothing is left on an open connection between two answers.
LEMMA NothingUnread ==
    ASSUME TypeOK, UnreadInv, srvOpen, ~Reading
    PROVE  inbox = <<>>
<1> SUFFICES ASSUME inbox # <<>> PROVE FALSE
  OBVIOUS
<1>1. 1 \in 1..Len(inbox)
  BY TailParts DEF TypeOK
<1> QED
  BY <1>1 DEF UnreadInv

LEMMA ReturnResponse ==
    ASSUME NEW how, Return(how), pending' = 0
    PROVE  ResponseInv'
BY DEF Return, ResponseInv, Reading

LEMMA EmptyUnread ==
    ASSUME inbox' = <<>>
    PROVE  UnreadInv'
<1>1. Len(inbox') = 0
  OBVIOUS
<1> QED
  BY <1>1 DEF UnreadInv

LEMMA StepResponse ==
    TypeOK /\ ResponseInv /\ UnreadInv /\ [Next]_vars => ResponseInv' /\ UnreadInv'
<1> SUFFICES ASSUME TypeOK, ResponseInv, UnreadInv, [Next]_vars
             PROVE  ResponseInv' /\ UnreadInv'
  OBVIOUS
<1> USE ConfigAssumption
<1>1. CASE Tick
  BY <1>1 DEF Tick, ResponseInv, UnreadInv, Reading
<1>2. CASE StartCall
  BY <1>2 DEF TypeOK, StartCall, ResponseInv, UnreadInv, Reading
<1>3. CASE DropStale
  BY <1>3, EmptyUnread DEF DropStale, Drop, prepareUnchanged, ResponseInv, Reading
<1>4. CASE Reuse
  BY <1>4 DEF Reuse, prepareUnchanged, ResponseInv, UnreadInv, Reading
<1>5. CASE Connect
  BY <1>5, EmptyUnread DEF Connect, prepareUnchanged, ResponseInv, Reading
<1>6. CASE ConnectFails
  <2>1. pending = 0 /\ ~Reading /\ pc' = "idle"
    BY <1>6 DEF ConnectFails, Return, ResponseInv, Reading
  <2>2. ResponseInv'
    BY <1>6, <2>1, ReturnResponse DEF ConnectFails
  <2> QED
    BY <1>6, <2>1, <2>2 DEF ConnectFails, Return, UnreadInv, Reading
<1>7. CASE SendOk
  <2>1. ~Reading /\ pc' = "read" /\ first = NoPart
    BY <1>7 DEF SendOk, ResponseInv, Reading
  <2>2. CASE srvOpen
    BY <1>7, <2>1, <2>2, NothingUnread, EmptyUnread
       DEF SendOk, sendUnchanged, ResponseInv, Reading
  <2>3. CASE ~srvOpen
    BY <1>7, <2>1, <2>3 DEF SendOk, sendUnchanged, ResponseInv, UnreadInv, Reading
  <2> QED
    BY <2>2, <2>3
<1>8. CASE SendFails
  <2>1. Drop
    BY <1>8 DEF SendFails, DropAfterFailure
  <2>2. UnreadInv' /\ pending' = 0
    BY <2>1, EmptyUnread DEF Drop
  <2>3. CASE Return("failed")
    BY <2>2, <2>3, ReturnResponse
  <2>4. CASE ~Return("failed")
    BY <1>8, <2>2, <2>4 DEF SendFails, ResponseInv, Reading
  <2> QED
    BY <2>2, <2>3, <2>4
<1>9. CASE ReadPart
  <2> DEFINE p == inbox[1]
             h == IF first = NoPart /\ p.kind = "head" THEN p ELSE first
  <2>1. /\ pc = "read" /\ ~complete /\ inbox # <<>> /\ hdr = first /\ pending = 0
        /\ UNCHANGED <<call, accepted, srvOpen, pending, truncated>>
    BY <1>9 DEF ReadPart, readUnchanged, ResponseInv
  <2>2. /\ Len(inbox) \in Nat /\ Len(inbox) >= 1 /\ Head(inbox) = p
        /\ Len(Tail(inbox)) = Len(inbox) - 1
        /\ \A i \in 1..Len(Tail(inbox)) : Tail(inbox)[i] = inbox[i + 1]
    BY <2>1, TailParts DEF TypeOK
  <2>3. /\ p.kind \in {"head", "body"}
        /\ p.kind = "body" => first # NoPart
        /\ p.kind = "head" /\ (p.good \/ srvOpen) => first = NoPart
        /\ p.kind = "head" /\ p.good => call \in accepted
    BY <2>2 DEF UnreadInv
  <2>4. p # NoPart
    BY <2>3, NoPartFields
  <2>5. inbox' = Tail(inbox) /\ first' = (IF first = NoPart THEN p ELSE first)
    BY <1>9, <2>2 DEF ReadPart
  <2>6. hdr' = h /\ h = first'
    <3>1. hdr' = h
      BY <1>9, <2>1, <2>2 DEF ReadPart
    <3> QED
      BY <3>1, <2>3, <2>5
  <2>7. complete' = (h # NoPart /\ HasLength(h) /\ p.kind = "body")
    BY <1>9, <2>1, <2>2, Zenon DEF ReadPart
  <2>8. pc' = IF complete' THEN "parse" ELSE "read"
    BY <1>9 DEF ReadPart
  <2> HIDE DEF p, h
  <2>9. complete' => p.kind = "body" /\ pc' = "parse"
    BY <2>7, <2>8
  <2>10. first' # NoPart /\ first'.kind = "head" /\ (first'.good => call \in accepted)
    BY <2>3, <2>4, <2>5 DEF ResponseInv
  <2>11. ResponseInv'
    BY <2>1, <2>6, <2>8, <2>9, <2>10 DEF ResponseInv, Reading
  <2>12. ASSUME NEW i \in 1..Len(inbox')
         PROVE  /\ inbox'[i] = inbox[i + 1] /\ i + 1 \in 1..Len(inbox)
                /\ i + 1 # 1 /\ i \in Nat
    BY <2>2, <2>5
  <2>13. Reading' /\ Reading
    BY <2>1, <2>8 DEF Reading
  <2>14. ASSUME NEW i \in 1..Len(inbox')
         PROVE  /\ inbox'[i].kind \in {"head", "body"}
                /\ inbox'[i].kind = "body" => i = 1 /\ ~complete'
                /\ inbox'[i].kind = "head" => ~inbox'[i].good /\ ~srvOpen'
    <3> DEFINE j == i + 1
    <3>1. inbox'[i] = inbox[j] /\ j \in 1..Len(inbox) /\ j # 1
      BY <2>12
    <3>2. j = 2 => i = 1
      BY <2>12
    <3> HIDE DEF j
    <3>3. /\ inbox[j].kind \in {"head", "body"}
          /\ inbox[j].kind = "body" => j = 2 /\ first = NoPart
          /\ inbox[j].kind = "head" => ~inbox[j].good /\ ~srvOpen
      BY <3>1 DEF UnreadInv
    <3>4. first = NoPart => ~complete'
      BY <2>3, <2>9
    <3> QED
      BY <3>1, <3>2, <3>3, <3>4, <2>1
  <2>15. UnreadInv'
    BY <2>10, <2>13, <2>14 DEF UnreadInv
  <2> QED
    BY <2>11, <2>15
<1>10. CASE ReadEof
  <2>1. inbox' = <<>> /\ pc' = "parse" /\ pending' = pending /\ pending = 0
    BY <1>10 DEF ReadEof, readUnchanged, ResponseInv
  <2>2. UNCHANGED <<first, hdr, call, accepted, srvOpen>> /\ hdr = first
    BY <1>10 DEF ReadEof, readUnchanged, ResponseInv
  <2>3. complete' => hdr # NoPart
    <3>1. complete => hdr # NoPart
      BY DEF ResponseInv
    <3> QED
      BY <1>10, <3>1, Zenon DEF ReadEof
  <2> QED
    BY <1>10, <2>1, <2>2, <2>3, EmptyUnread DEF ReadEof, ResponseInv, Reading
<1>11. CASE ReadFails
  BY <1>11 DEF ReadFails, readUnchanged, ResponseInv, UnreadInv, Reading
<1>12. CASE ParseStatus
  <2>1. PICK how \in {"ok", "failed"} : Return(how)
    BY <1>12 DEF ParseStatus
  <2>2. CASE ConnUsable
    <3>1. complete /\ first # NoPart /\ pending = 0 /\ UNCHANGED <<inbox, srvOpen, pending>>
      BY <1>12, <2>2 DEF ParseStatus, Keep, ConnUsable, ResponseInv
    <3>2. UnreadInv'
      BY <2>1, <3>1 DEF Return, UnreadInv
    <3> QED
      BY <2>1, <3>1, <3>2, ReturnResponse
  <2>3. CASE ~ConnUsable
    BY <1>12, <2>1, <2>3, ReturnResponse, EmptyUnread DEF ParseStatus, Drop
  <2> QED
    BY <2>2, <2>3
<1>13. ASSUME NEW f \in Framings, NEW good \in BOOLEAN, Answer(f, good)
       PROVE  ResponseInv' /\ UnreadInv'
  <2>1. /\ pending = call /\ inbox = <<>> /\ first = NoPart /\ Reading /\ ~complete
        /\ UNCHANGED clientVars
    BY <1>13 DEF Answer, ResponseInv
  <2> DEFINE hd == [kind |-> "head", of |-> pending, good |-> good, framing |-> f]
             bd == [kind |-> "body", of |-> pending, good |-> good, framing |-> f]
  <2>2. inbox' = <<hd, bd>>
    <3>1. inbox' = inbox \o <<hd, bd>>
      BY <1>13 DEF Answer
    <3> QED
      BY <2>1, <3>1
  <2>3. good => call \in accepted'
    BY <1>13, <2>1 DEF Answer
  <2>4. UnreadInv'
    BY <2>1, <2>2, <2>3 DEF UnreadInv, Reading
  <2>5. ResponseInv'
    BY <1>13, <2>1 DEF Answer, ResponseInv, Reading
  <2> QED
    BY <2>4, <2>5
<1>14. CASE ServerDies
  BY <1>14 DEF ServerDies, ResponseInv, UnreadInv, Reading
<1>15. CASE ServerTimesOut
  <2>1. ResponseInv'
    BY <1>15 DEF ServerTimesOut, ResponseInv, Reading
  <2> DEFINE p == [kind |-> "head", of |-> 0, good |-> FALSE,
                   framing |-> "length, close"]
  <2>2. CASE UNCHANGED inbox
    BY <1>15, <2>1, <2>2 DEF ServerTimesOut, UnreadInv, Reading
  <2>3. CASE inbox' = inbox \o <<p>>
    <3>1. p.kind = "head" /\ ~p.good
      OBVIOUS
    <3>2. p \in Parts
      BY TimeoutPart
    <3> HIDE DEF p
    <3>3. /\ Len(inbox) \in Nat /\ Len(inbox') = Len(inbox) + 1
          /\ \A i \in 1..Len(inbox) : inbox'[i] = inbox[i]
          /\ inbox'[Len(inbox) + 1] = p
      BY <2>3, <3>2, AddedPart DEF TypeOK
    <3>4. \A i \in 1..Len(inbox') : i \in 1..Len(inbox) \/ i = Len(inbox) + 1
      BY <3>3
    <3>5. ~srvOpen' /\ UNCHANGED <<first, pc, complete, call, accepted>>
      BY <1>15 DEF ServerTimesOut
    <3>6. ASSUME NEW i \in 1..Len(inbox') 
          PROVE  /\ inbox'[i].kind \in {"head", "body"}
                 /\ inbox'[i].kind = "body" => /\ i = IF first = NoPart THEN 2 ELSE 1
                                               /\ Reading /\ ~complete
                 /\ inbox'[i].kind = "head" /\ inbox'[i].good
                        => i = 1 /\ first = NoPart /\ Reading /\ call \in accepted
      <4>1. CASE i \in 1..Len(inbox)
        BY <3>3, <4>1 DEF UnreadInv
      <4>2. CASE i = Len(inbox) + 1
        BY <3>1, <3>3, <4>2
      <4> QED
        BY <3>4, <4>1, <4>2
    <3>7. UnreadInv'
      BY <3>5, <3>6 DEF UnreadInv, Reading
    <3> QED
      BY <2>1, <3>7
  <2> QED
    BY <1>15, <2>2, <2>3 DEF ServerTimesOut
<1>16. CASE UNCHANGED vars
  BY <1>16 DEF ResponseInv, UnreadInv, Reading
<1> QED
  BY <1>1, <1>2, <1>3, <1>4, <1>5, <1>6, <1>7, <1>8, <1>9, <1>10, <1>11, <1>12,
     <1>13, <1>14, <1>15, <1>16
     DEF Next, AllDone

-----------------------------------------------------------------------------
(* Accepted chunks, fresh retries.                                         *)

LEMMA StepAccepted ==
    ASSUME TypeOK, ResponseInv, OkMeansAccepted, [Next]_vars
    PROVE  OkMeansAccepted'
<1>1. accepted \subseteq accepted'
  <2>1. CASE \E f \in Framings, good \in BOOLEAN : Answer(f, good)
    BY <2>1 DEF Answer
  <2>2. CASE ~\E f \in Framings, good \in BOOLEAN : Answer(f, good)
    BY <2>2 DEF Next, AllDone, Tick, StartCall, DropStale, Reuse, Connect, ConnectFails,
       SendOk, sendUnchanged, SendFails, DropAfterFailure, Drop, ReadPart, ReadEof,
       ReadFails, readUnchanged, ParseStatus, Keep, ServerDies, ServerTimesOut
  <2> QED
    BY <2>1, <2>2
<1>2. CASE UNCHANGED result
  BY <1>1, <1>2 DEF OkMeansAccepted
<1>3. CASE Return("failed")
  BY <1>1, <1>3 DEF TypeOK, Return, OkMeansAccepted
<1>4. CASE ParseStatus
  <2>1. PICK s \in Statuses : Return(IF s = "2xx" THEN "ok" ELSE "failed")
    BY <1>4 DEF ParseStatus
  <2>2. s = "2xx" => call \in accepted
    BY <2>1, NoPartFields DEF Statuses, ResponseInv
  <2> QED
    BY <1>1, <1>3, <2>1, <2>2 DEF TypeOK, Return, OkMeansAccepted
<1>5. UNCHANGED result \/ Return("failed") \/ ParseStatus
  BY DEF Next, AllDone, Tick, StartCall, DropStale, Reuse, Connect, ConnectFails,
     prepareUnchanged, SendOk, sendUnchanged, SendFails, ReadPart, ReadEof, ReadFails,
     readUnchanged, Answer, ServerDies, ServerTimesOut
<1> QED
  BY <1>2, <1>3, <1>4, <1>5

LEMMA StepFresh ==
    ASSUME TypeOK, ResponseInv, FreshInv, [Next]_vars
    PROVE  FreshInv'
<1> USE ConfigAssumption
<1>1. CASE Tick
  BY <1>1 DEF Tick, FreshInv
<1>2. CASE StartCall
  BY <1>2 DEF StartCall, FreshInv
<1>3. CASE DropStale
  BY <1>3 DEF DropStale, Drop, prepareUnchanged, FreshInv
<1>4. CASE Reuse
  BY <1>4 DEF Reuse, prepareUnchanged, FreshInv
<1>5. CASE Connect
  BY <1>5 DEF Connect, prepareUnchanged, FreshInv
<1>6. CASE SendFails
  BY <1>6 DEF SendFails, DropAfterFailure, Drop, Return, FreshInv
<1>7. CASE pc' \notin {"prepare", "send"}
  BY <1>7 DEF FreshInv
<1>8. ASSUME NEW f \in Framings, NEW good \in BOOLEAN, Answer(f, good)
      PROVE  FreshInv'
  BY <1>8 DEF Answer, ResponseInv, Reading, FreshInv
<1>9. CASE ServerDies
  BY <1>9 DEF ServerDies, ResponseInv, Reading, FreshInv
<1>10. CASE ServerTimesOut
  <2>1. srvLast # now
    BY <1>10, IdleLong
  <2>2. UNCHANGED <<pc, attempt, valid, cached>>
    BY <1>10 DEF ServerTimesOut
  <2> QED
    BY <2>1, <2>2 DEF FreshInv
<1>11. CASE UNCHANGED vars
  BY <1>11 DEF FreshInv
<1>12. ConnectFails \/ SendOk \/ ReadPart \/ ReadEof \/ ReadFails \/ ParseStatus
          => pc' \notin {"prepare", "send"}
  BY DEF ConnectFails, SendOk, ReadPart, ReadEof, ReadFails, ParseStatus, Return
<1> QED
  BY <1>1, <1>2, <1>3, <1>4, <1>5, <1>6, <1>7, <1>8, <1>9, <1>10, <1>11, <1>12
     DEF Next, AllDone

LEMMA FreshIsRetryIsFresh == FreshInv => RetryIsFresh
BY DEF FreshInv, RetryIsFresh

-----------------------------------------------------------------------------
(* Calls that fail.                                                        *)

\* The server keeps an idle connection for longer than the client does, and it
\* never ends an answer without a word, by closing the connection alone.
Polite == IdleMax < ServerIdle /\ "eof" \notin Framings

LEMMA StepFraming ==
    ASSUME TypeOK, ResponseInv, FramingInv, [Next]_vars
    PROVE  FramingInv'
<1> DEFINE used == Framings \cup {"length", "length, close"}
<1>1. /\ first.framing \in used
      /\ \A i \in 1..Len(inbox) : inbox[i].framing \in used
  BY DEF FramingInv
<1>2. NoPart.framing \in used
  BY NoPartFields
<1>3. Len(<<>>) = 0
  OBVIOUS
<1>4. CASE UNCHANGED <<first, inbox>>
  BY <1>4 DEF FramingInv
<1>5. CASE first' \in {first, NoPart} /\ inbox' \in {inbox, <<>>}
  <2>1. first'.framing \in used
    BY <1>1, <1>2, <1>5
  <2>2. CASE inbox' = inbox
    BY <1>1, <2>1, <2>2 DEF FramingInv
  <2>3. CASE inbox' = <<>>
    <3>1. \A i \in 1..Len(inbox') : FALSE
      BY <1>3, <2>3
    <3> QED
      BY <2>1, <3>1 DEF FramingInv
  <2> QED
    BY <1>5, <2>2, <2>3
<1>6. CASE ReadPart
  <2>1. /\ Len(inbox) \in Nat /\ Len(inbox) >= 1 /\ Head(inbox) = inbox[1]
        /\ Len(Tail(inbox)) = Len(inbox) - 1
        /\ \A i \in 1..Len(Tail(inbox)) : Tail(inbox)[i] = inbox[i + 1]
    BY <1>6, TailParts DEF TypeOK, ReadPart
  <2>2. \A i \in 1..Len(Tail(inbox)) : i + 1 \in 1..Len(inbox)
    BY <2>1
  <2>3. inbox' = Tail(inbox) /\ first' \in {first, inbox[1]}
    BY <1>6, <2>1 DEF ReadPart
  <2> QED
    <3>1. first'.framing \in used
      <4>1. 1 \in 1..Len(inbox)
        BY <2>1
      <4>2. inbox[1].framing \in used
        BY <1>1, <4>1
      <4> QED
        BY <1>1, <2>3, <4>2
    <3>2. \A i \in 1..Len(inbox') : inbox'[i].framing \in used
      BY <1>1, <2>1, <2>2, <2>3
    <3> QED
      BY <3>1, <3>2 DEF FramingInv
<1>7. ASSUME NEW f \in Framings, NEW good \in BOOLEAN, Answer(f, good)
      PROVE  FramingInv'
  <2> DEFINE hd == [kind |-> "head", of |-> pending, good |-> good, framing |-> f]
             bd == [kind |-> "body", of |-> pending, good |-> good, framing |-> f]
  <2>1. inbox' = <<>> \o <<hd, bd>> /\ first' = first
    BY <1>7 DEF Answer, ResponseInv
  <2>2. inbox' = <<hd, bd>> /\ hd.framing = f /\ bd.framing = f
    BY <2>1
  <2> HIDE DEF hd, bd
  <2>3. \A i \in 1..Len(inbox') : inbox'[i] \in {hd, bd}
    BY <2>2
  <2> QED
    BY <1>1, <2>1, <2>2, <2>3 DEF FramingInv
<1>8. CASE ServerTimesOut
  <2> DEFINE p == [kind |-> "head", of |-> 0, good |-> FALSE,
                   framing |-> "length, close"]
  <2>1. p \in Parts /\ p.framing = "length, close"
    BY TimeoutPart
  <2>2. first' = first /\ (inbox' = inbox \/ inbox' = inbox \o <<p>>)
    BY <1>8 DEF ServerTimesOut
  <2> HIDE DEF p
  <2>3. CASE inbox' = inbox \o <<p>>
    <3>1. /\ Len(inbox) \in Nat /\ Len(inbox') = Len(inbox) + 1
          /\ \A i \in 1..Len(inbox) : inbox'[i] = inbox[i]
          /\ inbox'[Len(inbox) + 1] = p
      BY <2>1, <2>3, AddedPart DEF TypeOK
    <3>2. \A i \in 1..Len(inbox') : inbox'[i] = p \/ (i \in 1..Len(inbox) /\ inbox'[i] = inbox[i])
      BY <3>1
    <3> QED
      BY <1>1, <2>1, <2>2, <3>2 DEF FramingInv
  <2> QED
    BY <1>4, <2>2, <2>3
<1> QED
  BY <1>4, <1>5, <1>6, <1>7, <1>8
     DEF Next, AllDone, Tick, StartCall, DropStale, Reuse, Connect, ConnectFails,
         prepareUnchanged, SendOk, sendUnchanged, SendFails, DropAfterFailure, Drop, Keep,
         Return, ReadEof, ReadFails, readUnchanged, ParseStatus, ServerDies

\* What Return leaves of a response: nothing.
LEMMA ReturnIsIdle ==
    ASSUME NEW how, Return(how)
    PROVE  pc' = "idle" /\ first' = NoPart /\ ~complete' /\ now' = now
BY DEF Return

LEMMA StepKept ==
    ASSUME Polite, TypeOK, ResponseInv, UnreadInv, FramingInv, KeptInv, [Next]_vars
    PROVE  KeptInv'
<1> USE ConfigAssumption
<1>1. CASE Tick
  BY <1>1 DEF TypeOK, Tick, ResponseInv, KeptInv
<1>2. CASE StartCall
  BY <1>2 DEF StartCall, KeptInv
<1>3. CASE DropStale
  BY <1>3 DEF DropStale, Drop, prepareUnchanged, ResponseInv, Reading, KeptInv
<1>4. CASE Reuse
  BY <1>4 DEF Polite, TypeOK, Reuse, IsStale, prepareUnchanged, KeptInv
<1>5. CASE Connect
  BY <1>5 DEF TypeOK, Connect, prepareUnchanged, ResponseInv, Reading, KeptInv
<1>6. CASE ConnectFails
  BY <1>6, ReturnIsIdle DEF ConnectFails, KeptInv
<1>7. CASE SendOk
  <2>1. inbox = <<>> /\ first = NoPart /\ ~complete
    BY <1>7, NothingUnread DEF SendOk, KeptInv, ResponseInv, Reading
  <2> QED
    BY <1>7, <2>1 DEF SendOk, sendUnchanged, KeptInv
<1>8. CASE SendFails
  <2>1. ~valid' /\ pc' \in {"idle", "prepare"} /\ ~complete'
    BY <1>8 DEF SendFails, DropAfterFailure, Drop, Return, ResponseInv, Reading
  <2> QED
    BY <2>1 DEF KeptInv
<1>9. CASE ReadPart
  <2> DEFINE p == inbox[1]
             h == IF first = NoPart /\ p.kind = "head" THEN p ELSE first
  <2>1. /\ pc = "read" /\ ~complete /\ inbox # <<>> /\ hdr = first
        /\ UNCHANGED <<now, srvOpen, srvLast>>
    BY <1>9 DEF ReadPart, readUnchanged, ResponseInv
  <2>2. /\ Len(inbox) \in Nat /\ Len(inbox) >= 1 /\ Head(inbox) = p
        /\ Len(Tail(inbox)) = Len(inbox) - 1
        /\ \A i \in 1..Len(Tail(inbox)) : Tail(inbox)[i] = inbox[i + 1]
    BY <2>1, TailParts DEF TypeOK
  <2>3. /\ p.kind \in {"head", "body"}
        /\ p.kind = "body" => first # NoPart
    BY <2>2 DEF UnreadInv
  <2>4. inbox' = Tail(inbox) /\ first' = (IF first = NoPart THEN p ELSE first)
    BY <1>9, <2>2 DEF ReadPart
  <2>5. pc' = IF complete' THEN "parse" ELSE "read"
    BY <1>9 DEF ReadPart
  <2>6. complete' = (h # NoPart /\ HasLength(h) /\ p.kind = "body")
    BY <1>9, <2>1, <2>2, Zenon DEF ReadPart
  <2>7. p # NoPart
    BY <2>3, NoPartFields
  <2>8. complete' => p.kind = "body" /\ first # NoPart
    BY <2>3, <2>6
  <2>9. first # NoPart /\ first.framing = "length" => complete' /\ srvOpen /\ srvLast = now
    <3> SUFFICES ASSUME first # NoPart, first.framing = "length"
                 PROVE  complete' /\ srvOpen /\ srvLast = now
      OBVIOUS
    <3>1. srvOpen /\ srvLast = now /\ p.kind = "body"
      BY <2>1 DEF KeptInv
    <3>2. h = first /\ HasLength(h)
      BY DEF HasLength
    <3> HIDE DEF h, p
    <3>3. complete'
      BY <2>6, <3>1, <3>2
    <3> QED
      BY <3>1, <3>3
  <2>10. first = NoPart /\ p.framing = "length"
           => srvOpen /\ srvLast = now /\ Len(inbox') >= 1 /\ inbox'[1].kind = "body"
    <3> SUFFICES ASSUME first = NoPart, p.framing = "length"
                 PROVE  srvOpen /\ srvLast = now /\ Len(inbox') >= 1 /\ inbox'[1].kind = "body"
      OBVIOUS
    <3>1. srvOpen /\ srvLast = now /\ Len(inbox) >= 2 /\ inbox[2].kind = "body"
      BY <2>1 DEF KeptInv
    <3>2. Len(Tail(inbox)) >= 1 /\ Tail(inbox)[1] = inbox[2]
      BY <2>2, <3>1
    <3> QED
      BY <2>4, <3>1, <3>2
  <2> HIDE DEF p, h
  <2>11. pc' \in {"read", "parse"} /\ first' # NoPart
    BY <2>4, <2>5, <2>7
  <2>12. pc' = "read" => ~complete'
    BY <2>5
  <2>13. pc' = "read" /\ first'.framing = "length"
           => srvOpen' /\ srvLast' = now' /\ Len(inbox') >= 1 /\ inbox'[1].kind = "body"
    BY <2>1, <2>4, <2>9, <2>10, <2>12
  <2>14. complete' /\ first'.framing = "length" => srvOpen' /\ srvLast' = now'
    BY <2>1, <2>4, <2>8, <2>9
  <2> QED
    BY <2>11, <2>13, <2>14 DEF KeptInv
<1>10. CASE ReadEof
  <2>1. /\ pc = "read" /\ ~srvOpen /\ pc' = "parse" /\ hdr = first
        /\ UNCHANGED <<srvOpen, srvLast, first, now>>
        /\ first # NoPart => first.framing # "length"
    BY <1>10 DEF ReadEof, readUnchanged, ResponseInv, KeptInv
  <2>2. complete' => first # NoPart
    <3>1. complete => hdr # NoPart
      BY DEF ResponseInv
    <3> QED
      BY <1>10, <2>1, <3>1, Zenon DEF ReadEof
  <2> QED
    BY <2>1, <2>2 DEF KeptInv
<1>11. CASE ReadFails
  BY <1>11 DEF ReadFails, readUnchanged, ResponseInv, KeptInv
<1>12. CASE ParseStatus
  <2>1. PICK how \in {"ok", "failed"} : Return(how)
    BY <1>12 DEF ParseStatus
  <2>2. CASE ConnUsable
    <3>1. complete /\ first # NoPart /\ ~SaysClose(first)
      BY <2>2 DEF ConnUsable, ResponseInv
    <3>2. first.framing = "length"
      <4>1. first.framing \in AllFramings /\ first.framing # "eof"
        BY DEF TypeOK, Parts, FramingInv, Polite
      <4> QED
        BY <3>1, <4>1 DEF SaysClose, AllFramings
    <3>3. srvOpen' /\ srvLast' = now' /\ lastUse' = now'
      BY <1>12, <2>1, <2>2, <3>1, <3>2, ReturnIsIdle DEF ParseStatus, Keep, KeptInv
    <3> QED
      BY <2>1, <3>3, ReturnIsIdle DEF KeptInv
  <2>3. CASE ~ConnUsable
    BY <1>12, <2>1, <2>3, ReturnIsIdle DEF ParseStatus, Drop, KeptInv
  <2> QED
    BY <2>2, <2>3
<1>13. ASSUME NEW f \in Framings, NEW good \in BOOLEAN, Answer(f, good)
       PROVE  KeptInv'
  <2>1. /\ inbox = <<>> /\ first = NoPart /\ Reading /\ ~complete
        /\ UNCHANGED <<first, pc, complete, now>>
    BY <1>13 DEF Answer, ResponseInv
  <2> DEFINE hd == [kind |-> "head", of |-> pending, good |-> good, framing |-> f]
             bd == [kind |-> "body", of |-> pending, good |-> good, framing |-> f]
  <2>2. inbox' = <<>> \o <<hd, bd>> /\ srvLast' = now /\ (f = "length" => srvOpen')
    BY <1>13, <2>1 DEF Answer
  <2>3. Len(inbox') = 2 /\ inbox'[1].framing = f /\ inbox'[2].kind = "body"
    BY <2>2
  <2> QED
    BY <2>1, <2>2, <2>3 DEF KeptInv, Reading
<1>14. CASE ServerDies
  <2>1. /\ inbox = <<>> /\ first = NoPart /\ Reading /\ ~complete
        /\ UNCHANGED <<first, pc, complete, now, inbox>>
    BY <1>14 DEF ServerDies, ResponseInv
  <2> QED
    BY <2>1 DEF KeptInv, Reading
<1>15. CASE ServerTimesOut
  <2>1. /\ srvLast # now /\ now - srvLast >= ServerIdle
        /\ UNCHANGED <<first, pc, complete, now, srvLast, valid, lastUse>>
    BY <1>15, IdleLong DEF ServerTimesOut
  <2>2. pc # "send"
    BY <1>15, IdleLong DEF KeptInv
  <2>3. pc = "read" /\ first = NoPart /\ inbox' # <<>> => inbox'[1].framing # "length"
    <3> DEFINE p == [kind |-> "head", of |-> 0, good |-> FALSE,
                     framing |-> "length, close"]
    <3>1. p \in Parts /\ p.framing # "length"
      BY TimeoutPart
    <3>2. inbox' = inbox \/ inbox' = inbox \o <<p>>
      BY <1>15 DEF ServerTimesOut
    <3> HIDE DEF p
    <3>3. CASE inbox' = inbox
      BY <2>1, <3>3 DEF KeptInv
    <3>4. CASE inbox' = inbox \o <<p>> /\ inbox = <<>>
      BY <3>1, <3>4
    <3>5. CASE inbox' = inbox \o <<p>> /\ inbox # <<>>
      <4>1. Len(inbox) >= 1 /\ Len(inbox) \in Nat
        BY <3>5, TailParts DEF TypeOK
      <4>2. inbox'[1] = inbox[1]
        BY <3>1, <3>5, <4>1, AddedPart DEF TypeOK
      <4> QED
        BY <2>1, <3>5, <4>2 DEF KeptInv
    <3> QED
      BY <3>2, <3>3, <3>4, <3>5
  <2> QED
    BY <2>1, <2>2, <2>3 DEF KeptInv
<1>16. CASE UNCHANGED vars
  BY <1>16 DEF KeptInv
<1> QED
  BY <1>1, <1>2, <1>3, <1>4, <1>5, <1>6, <1>7, <1>8, <1>9, <1>10, <1>11, <1>12,
     <1>13, <1>14, <1>15, <1>16
     DEF Next, AllDone

LEMMA StepFailure ==
    ASSUME Polite, TypeOK, ResponseInv, UnreadInv, KeptInv, FailureInv, [Next]_vars
    PROVE  FailureInv'
<1> USE ConfigAssumption
<1>1. CASE Tick
  BY <1>1 DEF Tick, FailureInv, Reading
<1>2. CASE ~Reading'
  BY <1>2 DEF FailureInv
<1>3. CASE SendOk
  <2>1. pending' = call /\ call # 0 /\ pc' = "read" /\ call' = call
    BY <1>3 DEF SendOk, sendUnchanged, KeptInv, ResponseInv
  <2> QED
    BY <2>1 DEF FailureInv
<1>4. CASE ReadPart
  <2>1. /\ pc = "read" /\ inbox # <<>> /\ pending = 0
        /\ UNCHANGED <<call, hit>>
    BY <1>4 DEF ReadPart, readUnchanged, ResponseInv
  <2>2. Head(inbox) = inbox[1]
    BY <2>1, TailParts DEF TypeOK
  <2>3. first' = (IF first = NoPart THEN inbox[1] ELSE first)
    BY <1>4, <2>2 DEF ReadPart
  <2>4. inbox[1].kind = "head" => inbox[1] # NoPart
    BY NoPartFields
  <2> QED
    BY <2>1, <2>3, <2>4 DEF FailureInv, Reading
<1>5. CASE ReadEof
  <2>1. /\ pc = "read" /\ inbox = <<>> /\ pending = 0
        /\ UNCHANGED <<call, hit, first>>
    BY <1>5 DEF ReadEof, readUnchanged, ResponseInv
  <2> QED
    BY <2>1 DEF FailureInv, Reading
<1>6. CASE ReadFails
  BY <1>6 DEF ReadFails, readUnchanged, FailureInv
<1>7. ASSUME NEW f \in Framings, NEW good \in BOOLEAN, Answer(f, good)
      PROVE  FailureInv'
  <2>1. /\ pending # 0 /\ pending = call /\ inbox = <<>> /\ first = NoPart /\ Reading
        /\ UNCHANGED <<first, pc, call>>
    BY <1>7 DEF Answer, ResponseInv
  <2>2. hit \subseteq hit' /\ (~good => call \in hit')
    BY <1>7, <2>1 DEF Answer
  <2> DEFINE hd == [kind |-> "head", of |-> pending, good |-> good, framing |-> f]
             bd == [kind |-> "body", of |-> pending, good |-> good, framing |-> f]
  <2>3. inbox' = <<>> \o <<hd, bd>>
    BY <1>7, <2>1 DEF Answer
  <2>4. inbox' # <<>> /\ inbox'[1] = hd
    BY <2>3
  <2>5. hd.kind = "head" /\ hd.good = good
    OBVIOUS
  <2> HIDE DEF hd
  <2>6. CASE call \in hit \/ ~good
    BY <2>1, <2>2, <2>6 DEF FailureInv
  <2>7. CASE call \notin hit /\ good
    <3>1. pc = "read"
      BY <2>1, <2>7, NoPartFields DEF FailureInv
    <3> QED
      BY <2>1, <2>4, <2>5, <2>7, <3>1 DEF FailureInv
  <2> QED
    BY <2>6, <2>7
<1>8. CASE ServerDies
  <2>1. call \in hit' /\ call' = call
    BY <1>8 DEF ServerDies, ResponseInv
  <2> QED
    BY <2>1 DEF FailureInv
<1>9. CASE ServerTimesOut
  <2>1. pending = 0 /\ UNCHANGED <<call, hit, first, pc, pending>>
    BY <1>9 DEF ServerTimesOut
  <2>2. inbox # <<>> => inbox' # <<>> /\ inbox'[1] = inbox[1]
    <3> SUFFICES ASSUME inbox # <<>> PROVE inbox' # <<>> /\ inbox'[1] = inbox[1]
      OBVIOUS
    <3> DEFINE p == [kind |-> "head", of |-> 0, good |-> FALSE,
                     framing |-> "length, close"]
    <3>1. p \in Parts
      BY TimeoutPart
    <3>2. inbox' = inbox \/ inbox' = inbox \o <<p>>
      BY <1>9 DEF ServerTimesOut
    <3> HIDE DEF p
    <3>3. Len(inbox) >= 1 /\ Len(inbox) \in Nat
      BY TailParts DEF TypeOK
    <3>4. CASE inbox' = inbox \o <<p>>
      <4>1. inbox'[1] = inbox[1] /\ Len(inbox') = Len(inbox) + 1
        BY <3>1, <3>3, <3>4, AddedPart DEF TypeOK
      <4>2. inbox' # <<>>
        BY <3>3, <4>1
      <4> QED
        BY <4>1, <4>2
    <3> QED
      BY <3>2, <3>4
  <2> QED
    BY <2>1, <2>2 DEF FailureInv, Reading
<1>10. CASE UNCHANGED vars
  BY <1>10 DEF FailureInv, Reading
<1>11. StartCall \/ DropStale \/ Reuse \/ Connect \/ ConnectFails \/ SendFails \/ ParseStatus
          => ~Reading'
  BY DEF StartCall, DropStale, Reuse, Connect, ConnectFails, SendFails, ParseStatus,
         Return, Reading
<1> QED
  BY <1>1, <1>2, <1>3, <1>4, <1>5, <1>6, <1>7, <1>8, <1>9, <1>10, <1>11
     DEF Next, AllDone

LEMMA StepSpurious ==
    ASSUME Polite, TypeOK, ResponseInv, KeptInv, FailureInv, NoSpuriousFailure, [Next]_vars
    PROVE  NoSpuriousFailure'
<1>1. hit \subseteq hit'
  BY DEF Next, AllDone, Tick, StartCall, DropStale, Reuse, Connect, prepareUnchanged,
         ConnectFails, SendOk, SendFails, ReadPart, ReadEof, ReadFails, ParseStatus,
         Answer, ServerDies, ServerTimesOut
<1>2. CASE UNCHANGED result
  BY <1>1, <1>2 DEF NoSpuriousFailure
<1>3. CASE Return("failed") /\ call \in hit'
  BY <1>1, <1>3 DEF TypeOK, Return, NoSpuriousFailure
<1>4. CASE Return("ok")
  BY <1>1, <1>4 DEF TypeOK, Return, NoSpuriousFailure
<1>5. CASE ConnectFails
  BY <1>3, <1>5 DEF ConnectFails
<1>6. CASE SendFails
  BY <1>2, <1>3, <1>6 DEF SendFails, KeptInv
<1>7. CASE ParseStatus
  <2>1. PICK s \in Statuses : Return(IF s = "2xx" THEN "ok" ELSE "failed")
    BY <1>7 DEF ParseStatus
  <2>2. s # "2xx" => call \in hit
    <3>1. s # "2xx" => ~(first # NoPart /\ first.good)
      BY NoPartFields DEF Statuses, ResponseInv
    <3>2. pc = "parse"
      BY <1>7 DEF ParseStatus
    <3> QED
      BY <3>1, <3>2 DEF FailureInv, Reading
  <2> QED
    BY <1>1, <1>3, <1>4, <2>1, <2>2
<1>8. UNCHANGED result \/ ConnectFails \/ SendFails \/ ParseStatus
  BY DEF Next, AllDone, Tick, StartCall, DropStale, Reuse, Connect,
     prepareUnchanged, SendOk, sendUnchanged, ReadPart, ReadEof, ReadFails,
     readUnchanged, Answer, ServerDies, ServerTimesOut
<1> QED
  BY <1>2, <1>5, <1>6, <1>7, <1>8

-----------------------------------------------------------------------------
(* The theorems.                                                           *)

SafeInv == TypeOK /\ ResponseInv /\ UnreadInv /\ FreshInv /\ OkMeansAccepted

LEMMA InitSafe == Init => SafeInv
<1> SUFFICES ASSUME Init PROVE SafeInv
  OBVIOUS
<1>1. ResponseInv /\ FreshInv /\ OkMeansAccepted
  BY DEF Init, ResponseInv, FreshInv, OkMeansAccepted, Reading
<1>2. Len(inbox) = 0
  BY DEF Init
<1>3. UnreadInv
  BY <1>2 DEF UnreadInv
<1> QED
  BY <1>1, <1>3, InitTypeOK DEF SafeInv

LEMMA StepSafe == SafeInv /\ [Next]_vars => SafeInv'
BY StepTypeOK, StepResponse, StepFresh, StepAccepted DEF SafeInv

LEMMA AlwaysSafe == Spec => []SafeInv
BY InitSafe, StepSafe, PTL DEF Spec

\* The variables keep their types, and a request is only written to, and an
\* answer only read from, a connection the client holds (ka_send_chunk()).
THEOREM TypeCorrect == Spec => []TypeOK
<1>1. SafeInv => TypeOK
  BY DEF SafeInv
<1> QED
  BY <1>1, AlwaysSafe, PTL

\* https_post_chunk() reports success only for a chunk the server accepted,
\* whatever the framing of the answers and wherever the connection breaks:
\* what is left of one answer is never taken for the status line of the next.
THEOREM OkIsAccepted == Spec => []OkMeansAccepted
<1>1. SafeInv => OkMeansAccepted
  BY DEF SafeInv
<1> QED
  BY <1>1, AlwaysSafe, PTL

\* The one retry of https_post_chunk() goes over a connection made for it,
\* which the server has not closed.
THEOREM RetryOverFresh == Spec => []RetryIsFresh
<1>1. SafeInv => RetryIsFresh
  BY FreshIsRetryIsFresh DEF SafeInv
<1> QED
  BY <1>1, AlwaysSafe, PTL

PoliteInv == FramingInv /\ KeptInv /\ FailureInv /\ NoSpuriousFailure

LEMMA InitPolite == Init => PoliteInv
<1> SUFFICES ASSUME Init PROVE PoliteInv
  OBVIOUS
<1>1. NoSpuriousFailure /\ FailureInv
  BY DEF Init, NoSpuriousFailure, FailureInv, Reading
<1>2. KeptInv
  BY DEF Init, KeptInv
<1>3. Len(inbox) = 0 /\ first = NoPart
  BY DEF Init
<1>4. FramingInv
  BY <1>3, NoPartFields DEF FramingInv
<1> QED
  BY <1>1, <1>2, <1>4 DEF PoliteInv

\* With KA_IDLE_MAX_US below the server's idle timeout, and a server that says
\* so when it closes after an answer, a chunk fails only by a failure of the
\* network or the server during its own call: ka_drop_if_stale() and the
\* Connection header keep every other reason away.
THEOREM FailuresAreReal ==
    ASSUME Polite
    PROVE  Spec => []NoSpuriousFailure
<1>1. SafeInv /\ PoliteInv /\ [Next]_vars => PoliteInv'
  BY StepFraming, StepKept, StepFailure, StepSpurious DEF SafeInv, PoliteInv
<1>2. Spec => []PoliteInv
  BY <1>1, InitPolite, AlwaysSafe, PTL DEF Spec
<1>3. PoliteInv => NoSpuriousFailure
  BY DEF PoliteInv
<1> QED
  BY <1>2, <1>3, PTL
=============================================================================
