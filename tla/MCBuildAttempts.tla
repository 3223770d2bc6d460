--------------------------- MODULE MCBuildAttempts ---------------------------
(* Small instances of BuildAttempts for TLC.                                  *)
EXTENDS BuildAttempts, TLC

=============================================================================
