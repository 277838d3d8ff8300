-------------------------- MODULE MCRebuildWorker --------------------------
(* Small instances of RebuildWorker. *)
EXTENDS RebuildWorker, TLC

CONSTANTS s1, r1, r2

\* Two requests of one session.
SessionsOfTwo == r1 :> s1 @@ r2 :> s1
=============================================================================
