----------------------------- MODULE MCSubtitle -----------------------------
(***************************************************************************)
(* Small instances of Subtitle: a film with two English text tracks, of    *)
(* which the first in rank holds nothing, and a later cut of it that has   *)
(* only a bitmap track.                                                    *)
(***************************************************************************)
EXTENDS Subtitle, TLC

CONSTANTS w1, w2, m1, m2

TextTrack(index, yields) ==
    [index |-> index, text |-> TRUE, english |-> TRUE, default |-> FALSE,
     forced |-> FALSE, sdh |-> FALSE, score |-> 1, yields |-> yields]

Bitmap == [TextTrack(2, "good") EXCEPT !.text = FALSE]

MCTracks == 1 :> {TextTrack(2, "poor"), TextTrack(3, "good")} @@ 2 :> {Bitmap}

\* A film whose only subtitles are a bitmap track.
MCBitmapOnly == 1 :> {Bitmap}

MCExternal == {[kind |-> "external", cut |-> 2, worker |-> None, score |-> 2]}

MCJob == Version \X Worker
MCKindOf == [j \in MCJob |-> "subtitle"]
MCStanding == [worker |-> w1, model |-> m1]
MCOther == {[worker |-> w2, model |-> m1], [worker |-> w1, model |-> m2]}
=============================================================================
