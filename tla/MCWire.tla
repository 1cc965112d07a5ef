------------------------------- MODULE MCWire --------------------------------
(***************************************************************************)
(* Inputs for the run of Wire: all texts of up to four characters, all     *)
(* streams of up to seven octets of which only the framing matters, and    *)
(* all numbers around the limit of the type.                               *)
(***************************************************************************)
EXTENDS Wire

MCTexts   == SeqOf({"a", SP, DQ, BS, "{", "}", "+", "1", CR, LF}, 4)
MCFrames  == SeqOf({"a", CR, LF}, 7)
MCNumbers == SeqOf({"0", "1", "2", "3", "9", "a"}, 4)
MCInputs  == MCTexts \cup MCFrames \cup MCNumbers
=============================================================================
