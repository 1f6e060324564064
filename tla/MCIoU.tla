------------------------------- MODULE MCIoU -------------------------------
(* IoU on small instances: two or three io_us, a handful of submissions.    *)
EXTENDS IoU, TLC

Symmetry == Permutations(IoUs)
=============================================================================
