---------------------------- MODULE Acquisition ----------------------------
(***************************************************************************)
(* Where the English source of a film comes from (src/subtitles/mod.rs):   *)
(* SRT files beside the film, its embedded text tracks, OCR of a bitmap    *)
(* track, speech recognition.                                              *)
(*                                                                         *)
(* A text is known by the way it was obtained, the cut of the film and the *)
(* tools it was obtained with, and its score_source.  What a tool delivers *)
(* is "good", "poor" when it fails the gate of validate_source, and        *)
(* "nothing" when the tool fails or its output is no SRT.                  *)
(***************************************************************************)
EXTENDS Naturals, FiniteSets

CONSTANTS
    Version,    \* the cuts of the film that may stand at its path
    Worker,     \* settings of ffmpeg, OCR and ASR
    Ocr, Asr,   \* the settings with an enabled OCR or ASR worker
    Tracks,     \* the subtitle tracks of each cut
    External,   \* the SRT files people may put beside the film
    Margin,     \* external_quality_margin
    None,       \* no file, no text
    Failed      \* the error that ends an acquisition

Yield == {"good", "poor", "nothing"}

Track == [index : Nat, text : BOOLEAN, english : BOOLEAN, default : BOOLEAN,
          forced : BOOLEAN, sdh : BOOLEAN, score : Nat, yields : Yield]

\* The files that may hold a source: <stem>.en.srt and its kin, .emb.srt, .pgs.srt, .asr.srt.
Slot == {"external", "embedded", "pgs", "asr"}

Text == [kind : Slot, cut : Version, worker : Worker \cup {None}, score : Nat]

ASSUME AcquisitionAssumption ==
    /\ Version \subseteq Nat /\ Version # {} /\ Ocr \subseteq Worker /\ Asr \subseteq Worker
    /\ Tracks \in [Version -> SUBSET Track]
    /\ \A v \in Version : \A t, u \in Tracks[v] : t.index = u.index => t = u
    /\ External \subseteq {x \in Text : x.kind = "external" /\ x.worker = None}
    /\ Margin \in Nat /\ None \notin Worker /\ None # Failed /\ {None, Failed} \cap Text = {}

Made(kind, v, w, score) == [kind |-> kind, cut |-> v, worker |-> w, score |-> score]

-----------------------------------------------------------------------------
\* track_rank, compared as a tuple: the smallest comes first.
Rank(t) ==
    LET flag(b) == IF b THEN 1 ELSE 0
    IN  <<flag(~t.text), flag(~t.default), flag(t.forced), flag(t.sdh), t.index>>

Before(t, u) ==
    \E k \in 1 .. 5 : /\ Rank(t)[k] < Rank(u)[k]
                      /\ \A j \in 1 .. k - 1 : Rank(t)[j] = Rank(u)[j]

FirstTrack(S) == CHOOSE t \in S : \A u \in S \ {t} : Before(t, u)

English(v, text) == {t \in Tracks[v] : t.english /\ t.text = text}

\* The first text track that gives a good SRT; when there are text tracks and
\* none does, the acquisition fails.  None: there is nothing to try.
FromText(v, w, yields) ==
    LET good == {t \in English(v, TRUE) : yields[t] = "good"}
    IN  CASE English(v, TRUE) = {} -> None
          [] English(v, TRUE) # {} /\ good = {} -> Failed
          [] OTHER -> Made("embedded", v, w, FirstTrack(good).score)

\* OCR is optional: a worker that fails is passed over, an SRT that is poor is not.
FromBitmap(v, w, yields) ==
    LET t == FirstTrack(English(v, FALSE))
    IN  CASE w \notin Ocr \/ English(v, FALSE) = {} -> None
          [] OTHER -> CASE yields[t] = "good" -> Made("pgs", v, w, t.score)
                        [] yields[t] = "poor" -> Failed
                        [] yields[t] = "nothing" -> None

FromSpeech(v, w, speech) ==
    IF w \in Asr /\ speech = "good" THEN Made("asr", v, w, 0) ELSE Failed

\* acquire_embedded_anchor: an embedded text to measure an external one against.
Anchor(v, w, yields) ==
    IF FromText(v, w, yields) # None THEN FromText(v, w, yields) ELSE FromBitmap(v, w, yields)

\* Mutant: text tracks that cannot be read are passed over.
GeneratedAnyway(v, w, yields, speech) ==
    IF Anchor(v, w, yields) \in {None, Failed} THEN FromSpeech(v, w, speech) ELSE Anchor(v, w, yields)

\* acquire_generated_source
Generated(v, w, yields, speech) ==
    IF Anchor(v, w, yields) = None THEN FromSpeech(v, w, speech) ELSE Anchor(v, w, yields)

-----------------------------------------------------------------------------
SlotRank(s) ==
    CASE s = "external" -> 450 [] s = "embedded" -> 400 [] s = "pgs" -> 350 [] s = "asr" -> 300

\* acquire_existing_sources: score first, then the rank of the name.
Best(files, S) ==
    CHOOSE s \in S : \A r \in S \ {s} :
        \/ files[s].score > files[r].score
        \/ files[s].score = files[r].score /\ SlotRank(s) > SlotRank(r)

\* compare_sources: the texts of one cut agree in timing and words, those of
\* different cuts do not.
Agree(external, embedded) == external.cut = embedded.cut

\* Mutant: the better text wins, whatever the comparison says.
ExternalWinsOnScore(external, embedded) == external.score >= embedded.score + Margin

ExternalWins(external, embedded) ==
    Agree(external, embedded) /\ external.score >= embedded.score + Margin

\* resolve_existing_source: the text, and the file it is in when it is in one.
Resolve(files, v, w, yields) ==
    LET present == {s \in Slot : files[s] # None}
        cached  == present \cap {"embedded", "pgs"}
        In(s)   == [text |-> files[s], path |-> s]
        anchor  == IF cached # {} THEN In(Best(files, cached))
                   ELSE [text |-> Anchor(v, w, yields), path |-> None]
    IN  CASE present = {} -> None
          [] present # {} /\ "external" \notin present -> In(Best(files, present))
          [] OTHER -> CASE anchor.text = Failed -> Failed
                        [] anchor.text = None -> In("external")
                        [] OTHER -> IF ExternalWins(files["external"], anchor.text)
                                    THEN In("external") ELSE anchor
=============================================================================
