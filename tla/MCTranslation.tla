--------------------------- MODULE MCTranslation ---------------------------
(* Six cues of uneven length, one of them an identifier that needs no       *)
(* translation: a range is filled by its size, by its characters, and by a   *)
(* single cue longer than the limit.                                         *)
EXTENDS Translation

MCChars == <<1, 2, 5, 1, 1, 2>>
MCPlain == {5}
=============================================================================
