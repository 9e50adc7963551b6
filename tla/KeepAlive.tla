------------------------------ MODULE KeepAlive ------------------------------
(***************************************************************************)
(* https_post_chunk() of https_client.c and the persistent TLS connection  *)
(* it keeps between chunks (the ka_ functions), against an external server *)
(* that answers, refuses, closes idle connections, and a network that      *)
(* fails.  One thread, the uploader, makes the calls; call r uploads chunk *)
(* r.  The one upload URL never changes, so neither do host and port.      *)
(*                                                                         *)
(* What the connection carries towards the camera is a sequence of         *)
(* response parts: a head, and the body that belongs to it.                *)
(***************************************************************************)
EXTENDS Integers, Sequences

CONSTANTS
    IdleMax,        \* KA_IDLE_MAX_US
    ServerIdle,     \* the server closes a connection idle for so long
    Framings,       \* the forms of response this server sends
    MaxCalls, MaxTime   \* bounds

\* How a response ends: by its Content-Length, with or without Connection:
\* close, or with the connection.
AllFramings == {"length", "length, close", "eof, close", "eof"}

ASSUME ConfigAssumption ==
    /\ IdleMax \in Nat /\ ServerIdle \in Nat \ {0}
    /\ Framings \subseteq AllFramings
    /\ MaxCalls \in Nat /\ MaxTime \in Nat

Calls == 1..MaxCalls

VARIABLES
    now,            \* CLOCK_MONOTONIC
    valid,          \* g_ka_valid
    lastUse,        \* g_ka_last_use_us
    call,           \* the call in progress, or the last one
    pc,             \* where it is
    attempt,        \* 0 or 1
    cached,         \* this attempt reuses the connection
    first, hdr,     \* the first part read, and the head found in what was read
    complete, truncated,    \* the locals of the read loop
    result,         \* what each call returned
    srvOpen,        \* the server's end of the connection is open
    srvLast,        \* when the server last saw traffic on it
    pending,        \* the chunk the server has in full but not answered, or 0
    inbox,          \* parts on their way to, or unread at, the camera
    accepted,       \* the chunks the server has accepted
    hit             \* history: calls met by a network or server failure

clientVars == <<valid, lastUse, call, pc, attempt, cached, first, hdr,
                complete, truncated, result>>
serverVars == <<srvOpen, srvLast, pending, inbox, accepted>>
vars == <<now, hit, clientVars, serverVars>>

NoPart == [kind |-> "none", of |-> 0, good |-> FALSE, framing |-> "length"]
Parts  == [kind : {"none", "head", "body"}, of : 0..MaxCalls, good : BOOLEAN,
           framing : AllFramings]

Init ==
    /\ now = 0 /\ hit = {}
    /\ valid = FALSE /\ lastUse = 0
    /\ call = 0 /\ pc = "idle" /\ attempt = 0 /\ cached = FALSE
    /\ first = NoPart /\ hdr = NoPart
    /\ complete = FALSE /\ truncated = FALSE
    /\ result = [r \in Calls |-> "none"]
    /\ srvOpen = FALSE /\ srvLast = 0 /\ pending = 0 /\ inbox = <<>>
    /\ accepted = {}

-----------------------------------------------------------------------------
\* Time passes between calls and while an answer is awaited.
Tick ==
    /\ now < MaxTime
    /\ pc = "idle" \/ (pc = "read" /\ inbox = <<>>)
    /\ now' = now + 1
    /\ UNCHANGED <<hit, clientVars, serverVars>>

-----------------------------------------------------------------------------
(* The connection.                                                         *)

\* ka_drop(): the server may not notice, but what it sends is lost.
Drop ==
    /\ valid' = FALSE /\ lastUse' = 0
    /\ srvOpen' = FALSE /\ pending' = 0 /\ inbox' = <<>>
    /\ UNCHANGED <<srvLast, accepted>>

DropKeepsSocket ==
    /\ valid' = valid /\ lastUse' = now
    /\ UNCHANGED serverVars

IsStaleLate == now - lastUse > IdleMax + 1

IsStale == now - lastUse > IdleMax

Keep ==
    /\ lastUse' = now
    /\ UNCHANGED <<valid, serverVars>>

\* How the caller leaves the connection after an attempt that failed.
DropAfterFailure == Drop

StartCall ==
    /\ pc = "idle" /\ call < MaxCalls
    /\ call' = call + 1 /\ attempt' = 0 /\ pc' = "prepare"
    /\ UNCHANGED <<now, hit, valid, lastUse, cached, first, hdr, complete,
                   truncated, result, serverVars>>

prepareUnchanged == <<now, hit, call, attempt, first, hdr, complete, truncated, result>>

DropStaleOnly ==
    /\ pc = "prepare" /\ valid /\ IsStale
    /\ Drop
    /\ pc' = "send"
    /\ UNCHANGED <<prepareUnchanged, cached>>

DropStale ==
    /\ pc = "prepare" /\ valid /\ IsStale
    /\ Drop
    /\ UNCHANGED <<prepareUnchanged, pc, cached>>

Reuse ==
    /\ pc = "prepare" /\ valid /\ ~IsStale
    /\ cached' = TRUE /\ pc' = "send"
    /\ UNCHANGED <<prepareUnchanged, valid, lastUse, serverVars>>

Connect ==
    /\ pc = "prepare" /\ ~valid
    /\ cached' = FALSE /\ pc' = "send"
    /\ valid' = TRUE /\ lastUse' = now
    /\ srvOpen' = TRUE /\ srvLast' = now /\ pending' = 0 /\ inbox' = <<>>
    /\ UNCHANGED <<prepareUnchanged, accepted>>

Return(how) ==
    /\ result' = [result EXCEPT ![call] = how]
    /\ pc' = "idle" /\ attempt' = 0 /\ cached' = FALSE
    /\ first' = NoPart /\ hdr' = NoPart
    /\ complete' = FALSE /\ truncated' = FALSE
    /\ UNCHANGED <<now, call>>

ConnectFails ==
    /\ pc = "prepare" /\ ~valid
    /\ hit' = hit \cup {call}
    /\ Return("failed")
    /\ UNCHANGED <<valid, lastUse, serverVars>>

-----------------------------------------------------------------------------
(* ka_send_chunk(), writing.                                               *)

sendUnchanged == <<now, call, attempt, cached, first, hdr, complete, truncated,
                   result, accepted>>

\* The request is written.  If the server has already closed its end, the
\* kernel takes the bytes and nobody gets them.
SendOk ==
    /\ pc = "send"
    /\ pc' = "read"
    /\ pending' = IF srvOpen THEN call ELSE 0
    /\ srvLast' = IF srvOpen THEN now ELSE srvLast
    /\ UNCHANGED <<sendUnchanged, hit, valid, lastUse, srvOpen, inbox>>

\* Return code -1, the only one the caller retries, and only when the
\* connection was a cached one.
SendFails ==
    /\ pc = "send"
    /\ hit' = IF srvOpen THEN hit \cup {call} ELSE hit
    /\ DropAfterFailure
    /\ \/ /\ cached /\ attempt = 0
          /\ attempt' = 1 /\ pc' = "prepare"
          /\ UNCHANGED <<now, call, cached, first, hdr, complete, truncated, result>>
       \/ /\ ~cached \/ attempt = 1
          /\ Return("failed")

-----------------------------------------------------------------------------
(* ka_send_chunk(), reading until the response is complete, the connection *)
(* ends or a read fails.                                                   *)

readUnchanged == <<now, call, attempt, cached, result, valid, lastUse, srvOpen,
                   srvLast, pending, accepted>>

HasLength(h) == h.framing \in {"length", "length, close"}
SaysClose(h) == h.framing \in {"length, close", "eof, close"}

ReadPart ==
    /\ pc = "read" /\ ~complete /\ inbox # <<>>
    /\ LET p == Head(inbox)
           h == IF hdr = NoPart /\ p.kind = "head" THEN p ELSE hdr
       IN  /\ inbox' = Tail(inbox)
           /\ first' = IF first = NoPart THEN p ELSE first
           /\ hdr' = h
           /\ complete' = (h # NoPart /\ HasLength(h) /\ p.kind = "body")
           /\ pc' = IF complete' THEN "parse" ELSE "read"
    /\ UNCHANGED <<readUnchanged, hit, truncated>>

\* The other end has closed: a bare end of file counts as the end of the
\* response, a close_notify is an error code like any other.
ReadEof ==
    /\ pc = "read" /\ inbox = <<>> /\ ~srvOpen
    /\ \/ complete' = (hdr # NoPart) /\ UNCHANGED truncated
       \/ truncated' = (first # NoPart) /\ UNCHANGED complete
    /\ pc' = "parse"
    /\ UNCHANGED <<readUnchanged, hit, inbox, first, hdr>>

\* A timeout or an error: the answer may be under way, or lost.
ReadFails ==
    /\ pc = "read"
    /\ hit' = hit \cup {call}
    /\ truncated' = (first # NoPart)
    /\ pc' = "parse"
    /\ UNCHANGED <<readUnchanged, inbox, first, hdr, complete>>

ConnUsableAlways == hdr # NoPart /\ ~SaysClose(hdr)

\* Reuse is only safe when the response was consumed exactly and the server
\* did not ask to close.
ConnUsable == complete /\ ~truncated /\ ~(hdr # NoPart /\ SaysClose(hdr))

\* The status line is taken from whatever came first; the middle of a body
\* can look like anything.
Statuses ==
    CASE first.kind = "none" -> {"0"}
      [] first.kind = "head" -> {IF first.good THEN "2xx" ELSE "error"}
      [] first.kind = "body" -> {"2xx", "error"}

ParseStatus ==
    /\ pc = "parse"
    /\ IF ConnUsable THEN Keep ELSE Drop
    /\ \E s \in Statuses : Return(IF s = "2xx" THEN "ok" ELSE "failed")
    /\ UNCHANGED hit

-----------------------------------------------------------------------------
(* The server (external).                                                  *)

\* It takes the chunk or refuses it, and answers.
Answer(f, good) ==
    /\ pending # 0
    /\ accepted' = IF good THEN accepted \cup {pending} ELSE accepted
    /\ hit' = IF good THEN hit ELSE hit \cup {pending}
    /\ inbox' = inbox \o <<[kind |-> "head", of |-> pending, good |-> good, framing |-> f],
                           [kind |-> "body", of |-> pending, good |-> good, framing |-> f]>>
    /\ pending' = 0
    /\ srvLast' = now
    /\ srvOpen' = (f = "length")
    /\ UNCHANGED <<now, clientVars>>

\* It goes away without an answer.
ServerDies ==
    /\ pending # 0
    /\ hit' = hit \cup {pending}
    /\ pending' = 0 /\ srvOpen' = FALSE
    /\ UNCHANGED <<now, clientVars, srvLast, inbox, accepted>>

\* An idle connection is closed, perhaps with a last "408 Request Timeout".
ServerTimesOut ==
    /\ srvOpen /\ pending = 0 /\ now - srvLast >= ServerIdle
    /\ srvOpen' = FALSE
    /\ \/ UNCHANGED inbox
       \/ inbox' = inbox \o <<[kind |-> "head", of |-> 0, good |-> FALSE,
                               framing |-> "length, close"]>>
    /\ UNCHANGED <<now, hit, clientVars, srvLast, pending, accepted>>

\* Every call made and answered.
AllDone == pc = "idle" /\ call = MaxCalls /\ now = MaxTime /\ UNCHANGED vars

Next ==
    \/ Tick
    \/ StartCall \/ DropStale \/ Reuse \/ Connect \/ ConnectFails
    \/ SendOk \/ SendFails
    \/ ReadPart \/ ReadEof \/ ReadFails \/ ParseStatus
    \/ \E f \in Framings, good \in BOOLEAN : Answer(f, good)
    \/ ServerDies \/ ServerTimesOut
    \/ AllDone

Spec == Init /\ [][Next]_vars

-----------------------------------------------------------------------------
(* Properties.                                                             *)

TypeOK ==
    /\ now \in 0..MaxTime /\ lastUse \in 0..MaxTime /\ srvLast \in 0..MaxTime
    /\ valid \in BOOLEAN /\ cached \in BOOLEAN /\ srvOpen \in BOOLEAN
    /\ complete \in BOOLEAN /\ truncated \in BOOLEAN
    /\ call \in 0..MaxCalls /\ pending \in 0..MaxCalls
    /\ pc \in {"idle", "prepare", "send", "read", "parse"}
    /\ attempt \in {0, 1}
    /\ first \in Parts /\ hdr \in Parts
    /\ result \in [Calls -> {"none", "ok", "failed"}]
    /\ inbox \in Seq(Parts)
    /\ accepted \subseteq Calls /\ hit \subseteq Calls
    /\ pc \in {"send", "read", "parse"} => valid

\* A chunk reported as uploaded is one the server accepted.  The danger, which
\* the comment on truncated responses describes, is a connection reused with
\* the rest of an earlier answer unread: its bytes would pass for a status line.
OkMeansAccepted == \A r \in Calls : result[r] = "ok" => r \in accepted

\* The second attempt never goes over the connection that just failed.
RetryIsFresh == pc = "send" /\ attempt = 1 => ~cached /\ srvOpen

\* "Server-side idle timeouts are handled": a chunk fails only if the network
\* or the server failed during its own call, not because the connection had
\* been closed before it.
NoSpuriousFailure == \A r \in Calls : result[r] = "failed" => r \in hit

-----------------------------------------------------------------------------
(* The inductive invariant behind the safety properties, in parts           *)
(* (KeepAliveProofs proves it).                                             *)

Reading == pc \in {"read", "parse"}

\* Unread parts: a body only where its own head comes, or came, just before it;
\* a good head only as the next part to read, and only for an accepted chunk.
UnreadInv ==
    \A i \in 1..Len(inbox) :
        /\ inbox[i].kind \in {"head", "body"}
        /\ inbox[i].kind = "body" => /\ i = IF first = NoPart THEN 2 ELSE 1
                                     /\ Reading /\ ~complete
        /\ inbox[i].kind = "head" /\ (inbox[i].good \/ srvOpen)
               => i = 1 /\ first = NoPart /\ Reading
        /\ inbox[i].kind = "head" /\ inbox[i].good => call \in accepted

\* What has been read of the response, and what is still to be answered.
ResponseInv ==
    /\ hdr = first
    /\ pc # "idle" => call # 0
    /\ first # NoPart => first.kind = "head" /\ (first.good => call \in accepted)
    /\ complete => pc = "parse" /\ first # NoPart
    /\ ~Reading => first = NoPart /\ ~truncated
    /\ pending # 0 => /\ pending = call /\ inbox = <<>> /\ first = NoPart
                      /\ Reading /\ srvOpen

\* A retry goes over a connection made for it, just now.
FreshInv ==
    /\ pc = "prepare" /\ attempt = 1 => ~valid
    /\ pc = "send" /\ attempt = 1 => ~cached
    /\ pc = "send" /\ ~cached => srvOpen /\ srvLast = now

\* The parts have a framing that this server uses, or that of its last 408.
FramingInv ==
    LET used == Framings \cup {"length", "length, close"}
    IN  first.framing \in used /\ \A i \in 1..Len(inbox) : inbox[i].framing \in used

\* A connection that is kept has not been closed, unless it has been idle for
\* longer than the client would use it; a length-framed answer arrives whole.
KeptInv ==
    /\ valid /\ pc \in {"idle", "prepare"}
           => srvLast = lastUse /\ (srvOpen \/ now - srvLast >= ServerIdle)
    /\ pc = "send" => srvOpen /\ now - srvLast < ServerIdle
    /\ pc = "read" /\ first # NoPart /\ first.framing = "length"
           => srvOpen /\ srvLast = now /\ Len(inbox) >= 1 /\ inbox[1].kind = "body"
    /\ pc = "read" /\ first = NoPart /\ inbox # <<>> /\ inbox[1].framing = "length"
           => srvOpen /\ srvLast = now /\ Len(inbox) >= 2 /\ inbox[2].kind = "body"
    /\ complete /\ first.framing = "length" => srvOpen /\ srvLast = now

\* A call fails, or will fail, only if it was hit.
FailureInv ==
    Reading => \/ call \in hit
               \/ pc = "read" /\ pending # 0
               \/ first # NoPart /\ first.good
               \/ /\ pc = "read" /\ first = NoPart /\ inbox # <<>>
                  /\ inbox[1].kind = "head" /\ inbox[1].good
=============================================================================
