-------------------------- MODULE MCStreamSession --------------------------
(* Small instances of StreamSession for TLC. *)
EXTENDS StreamSession
AllSurfaces == {"direct", "native", "translated", "responses"}
=============================================================================
