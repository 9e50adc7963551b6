----------------------------- MODULE MCRecorder -----------------------------
(***************************************************************************)
(* Recorder.tla on small instances: a handful of wall-clock seconds, two   *)
(* disk levels and the error value, and encoder timestamps that may repeat *)
(* and go back.                                                            *)
(***************************************************************************)
EXTENDS Recorder

\* Without a DST change every second has a name of its own.
MCStamp == [t \in 0..MaxWall |-> t]

AllReadings == {-1, 50, 95}
LowReading == {50}

NoSteps == {}
BackwardSteps == {-2}
ForwardSteps == {1}

NoFaults == {}
AllFaults == FaultKinds
OpenFaults == {"header", "write"}
=============================================================================
