----------------------------- MODULE MCUploader -----------------------------
(***************************************************************************)
(* Uploader.tla on small instances: files of up to three bytes sent in     *)
(* pieces of two, three ticks of age, scans shorter than the directory.    *)
(***************************************************************************)
EXTENDS Uploader

CONSTANTS f1, f2

OneFile == {f1}
TwoFiles == {f1, f2}
OneBlack == {f2}
NoneBlack == {}
=============================================================================
