--------------------------- MODULE MCCommandReader ----------------------------
(* Texts for TLC: all up to a length, those that end a line, and those that do   *)
(* not.                                                                          *)
EXTENDS CommandReader

CONSTANT MaxText

AllTexts == UNION {[1..n -> {"c", "b", "n"}] : n \in 0..MaxText}
EndedTexts == {s \in AllTexts : Finished(s)}
=============================================================================
