------------------------------ MODULE MCFioSem ------------------------------
(* FioSem on a small instance, under both disciplines: four threads that    *)
(* lock and unlock, or one that waits for the posts of the others.          *)
EXTENDS FioSem
=============================================================================
