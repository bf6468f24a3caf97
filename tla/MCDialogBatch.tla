---------------------------- MODULE MCDialogBatch ----------------------------
(* DialogBatch for TLC.                                                      *)
EXTENDS DialogBatch

CONSTANTS t1, t2

OneThread == {t1}
TwoThreads == {t1, t2}
=============================================================================
