---------------------------- MODULE MCQxlDisplay ----------------------------
(* An instance of QxlDisplay for TLC. *)
EXTENDS QxlDisplay

\* Three modes, the smallest not the first.
MCRomModes == <<3, 2, 4>>

=============================================================================
