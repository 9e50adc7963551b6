----------------------------- MODULE ChunkStore -----------------------------
(***************************************************************************)
(* What the recorder promises about the files it leaves in its output      *)
(* directory, with no thread, lock, muxer or clock in sight:               *)
(*                                                                         *)
(*   - at most one chunk is open, and only that chunk changes;             *)
(*   - a chunk that was closed is final: nothing reopens or truncates it;  *)
(*   - the video packets of a chunk have strictly increasing timestamps.   *)
(*                                                                         *)
(* Recorder.tla is shown to implement this module.                         *)
(***************************************************************************)
EXTENDS Integers

CONSTANTS
    Names,      \* file names the recorder can produce
    NoName      \* "no chunk is open"

VARIABLES
    store,      \* status of every file name
    current,    \* name of the open chunk, or NoName
    vlast       \* timestamp of its last video packet, -1 before the first

vars == <<store, current, vlast>>

Status == {"absent", "open", "finished", "cut", "stub"}

\* Closed for good: with its trailer or, when that could not be written, without.
Final == {"finished", "cut"}

Init ==
    /\ store = [n \in Names |-> "absent"]
    /\ current = NoName
    /\ vlast = -1

\* A file without a header is left behind by a failed open; its name may be
\* reused, that of a closed chunk may not.
Begin(n) ==
    /\ current = NoName
    /\ store[n] \notin Final
    /\ store' = [store EXCEPT ![n] = "open"]
    /\ current' = n
    /\ vlast' = -1

Abort(n) ==
    /\ current = NoName
    /\ store[n] \notin Final
    /\ store' = [store EXCEPT ![n] = "stub"]
    /\ UNCHANGED <<current, vlast>>

AppendVideo ==
    /\ current # NoName
    /\ vlast' \in Nat
    /\ vlast' > vlast
    /\ UNCHANGED <<store, current>>

Finish ==
    /\ current # NoName
    /\ \E s \in Final : store' = [store EXCEPT ![current] = s]
    /\ current' = NoName
    /\ vlast' = -1

Next ==
    \/ \E n \in Names : Begin(n) \/ Abort(n)
    \/ AppendVideo
    \/ Finish

Spec == Init /\ [][Next]_vars
=============================================================================
