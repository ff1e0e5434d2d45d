---- MODULE MCBoot ----
(***************************************************************************)
(* The firmware's 10 tries and 256 values of a byte become 1 and 4, so     *)
(* that a dozen resets go through what takes hundreds of them.             *)
(***************************************************************************)
EXTENDS Boot

MCEdits == {"edited", "crashing", "wrongnet"}
MCFiles == {"none", "default", "crashing"}
====
