----------------------------- MODULE MCSnapshot -----------------------------
EXTENDS Snapshot

\* One in each of the other directories and a leftover of an earlier run.
MCOldFiles ==
    {[dir |-> d, name |-> 1, mtime |-> 1, req |-> 0, whole |-> TRUE, pic |-> -1] : d \in 1..3}
=============================================================================
