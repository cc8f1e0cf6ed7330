----------------------------- MODULE MCSleepMode ------------------------------
(* Up to three commands on one instance that others annotate meanwhile.        *)
EXTENDS SleepMode
=============================================================================
