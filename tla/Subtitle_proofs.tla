--------------------------- MODULE Subtitle_proofs --------------------------
(***************************************************************************)
(* Theorems about Subtitle and the acquisition it uses, for any number of  *)
(* overlapping processes, any cuts of the film and tracks in them, any     *)
(* settings, errors and crashes.                                           *)
(*                                                                         *)
(* TypeOK rests on what a process carries to each step (Sound).  The other *)
(* four rest on it, each with one invariant of its own: a publisher holds  *)
(* its job (HoldersPublish), an archive in the making has the output of    *)
(* now (HandInv), speech that is to be written was recognised for want of  *)
(* a text track (SpokenInv), and while the film has not been replaced      *)
(* every text is of it, or there was none of it to compare with (CutInv).  *)
(***************************************************************************)
EXTENDS Subtitle, JobTable_proofs, WellFoundedInduction

RunRecord == [pc : PC, setting : Setting, seen : Version \cup {0}, listed : SUBSET Slot,
              got : Manifest \cup {None}, source : Source \cup {None},
              draft : Draft \cup {None}, expected : Output \cup {None},
              held : Output \cup {None}, tries : 0 .. Attempts - 1]

\* The steps that have a source of their own, and those that have a draft.
Sourced == {"persist", "confirm_source", "renew_acquired", "to_translating", "translate"}
Drafted == {"renew_translated", "to_verified", "guard", "read_output", "archive", "upload",
            "confirm", "upload_manifest", "complete"}

\* What a process brings to the step it is at.
Sound(r) ==
    /\ r.pc # "idle" => r.seen \in Version
    /\ r.pc \in {"hash_output", "hash_source"} => r.got \in Manifest
    /\ r.pc \in Sourced => r.source \in Source
    /\ r.pc \in Drafted => r.draft \in Draft
    /\ r.draft # None => r.source \in Source
    /\ r.pc = "resolve" => r.draft = None
    /\ r.pc \in {"read_output", "archive"} => r.expected \in Output
    /\ r.pc = "archive" => r.held \in Output
    /\ r.pc = "persist" => /\ r.source.path = r.source.text.kind
                           /\ r.source.text.kind # "external"

RunsTyped == run \in [Owner -> RunRecord] /\ \A p \in Owner : Sound(run[p])

FilesTyped ==
    /\ files \in [Slot -> Text \cup {None}]
    /\ \A s \in Slot : files[s] # None => files[s].kind = s
    /\ output \in Output \cup {None} /\ manifest \in Manifest \cup {None}
    /\ backups \subseteq Output

\* There is an output to read: nothing takes it away.
OutputThere == \A p \in Owner : run[p].pc = "read_output" => output # None

WorldTyped ==
    /\ video \in Version /\ hand \in BOOLEAN
    /\ faults \in 0 .. MaxFaults /\ edits \in 0 .. MaxEdits

RunsInv == RunsTyped /\ OutputThere

TypeInv == TableTypeOK /\ RunsInv /\ FilesTyped /\ WorldTyped

\* Who publishes holds its job, and the lease is live.
HoldersPublish ==
    \A p \in Owner : Publishing(p) => jobs[Key(p)].owner = p /\ jobs[Key(p)].live = TRUE

\* From the moment its bytes are read until it is replaced, an output made by
\* hand is in the archive or about to be.
HandInv ==
    /\ HandMadeKept
    /\ \A p \in Owner :
        /\ run[p].pc = "archive" /\ output = Hand => run[p].held = Hand \/ Hand \in backups
        /\ run[p].pc = "upload" /\ output = Hand => Hand \in backups

\* Speech was recognised only in a cut that has no English text track.
SpokenOnly(t) == t.kind = "asr" => English(t.cut, TRUE) = {}

SpokenInv ==
    /\ \A s \in Slot : files[s] # None => SpokenOnly(files[s])
    /\ \A p \in Owner : run[p].pc = "persist" => SpokenOnly(run[p].source.text)

\* A text of the first cut, or one there was nothing to compare with.
Verified(t) == t.kind = "external" => t.cut = First \/ English(First, TRUE) = {}

\* What a process holds while the film is the one it was.
OfFirst(r) ==
    /\ r.pc # "idle" => r.seen = First
    /\ r.pc = "persist" => r.source.text.cut = First
    /\ r.source # None => Verified(r.source.text)

CutInv ==
    video = First =>
        /\ \A s \in {"embedded", "pgs"} : files[s] # None => files[s].cut = First
        /\ \A p \in Owner : OfFirst(run[p])
        /\ manifest # None => manifest.video = First /\ Verified(manifest.source.text)

-----------------------------------------------------------------------------
(***************************************************************************)
(* The acquisition: what the operators of Acquisition return               *)
(***************************************************************************)
\* Of a set of natural numbers one is the least.
LEMMA LeastNumber ==
    ASSUME NEW T \in SUBSET Nat, T # {}
    PROVE  \E n \in T : \A m \in T : n <= m
<1> DEFINE R == OpToRel(<, Nat)
<1>1. IsWellFoundedOn(R, Nat) BY NatLessThanWellFounded
<1>2. \A x, y \in Nat : x < y => <<x, y>> \in R BY DEF OpToRel
<1> HIDE DEF R
<1>3. PICK x \in T : \A y \in T : ~(<<y, x>> \in R) BY <1>1, WFMin
<1>4. \A y \in T : ~(y < x) BY <1>2, <1>3
<1> QED BY <1>4

LEMMA FirstCut == First \in Version /\ First \in Nat /\ \A v \in Version : First <= v
<1>1. Version \in SUBSET Nat /\ Version # {} BY AcquisitionAssumption
<1>2. \E v \in Version : \A u \in Version : v <= u BY <1>1, LeastNumber
<1>3. First \in Version /\ \A v \in Version : First <= v BY <1>2 DEF First
<1> QED BY <1>1, <1>3

\* The first four components of the rank, read as one number.
Flag(b) == IF b THEN 1 ELSE 0
Flags(t) == 8 * Flag(~t.text) + 4 * Flag(~t.default) + 2 * Flag(t.forced) + Flag(t.sdh)

LEMMA FlagsBefore ==
    ASSUME NEW t \in Track, NEW u \in Track,
           Flags(t) < Flags(u) \/ (Flags(t) = Flags(u) /\ t.index < u.index)
    PROVE  Before(t, u)
<1> DEFINE a1 == Flag(~t.text)   b1 == Flag(~u.text)
           a2 == Flag(~t.default)   b2 == Flag(~u.default)
           a3 == Flag(t.forced)   b3 == Flag(u.forced)
           a4 == Flag(t.sdh)   b4 == Flag(u.sdh)
<1>1. t.index \in Nat /\ u.index \in Nat BY DEF Track
<1>2. /\ a1 \in {0, 1} /\ a2 \in {0, 1} /\ a3 \in {0, 1} /\ a4 \in {0, 1}
      /\ b1 \in {0, 1} /\ b2 \in {0, 1} /\ b3 \in {0, 1} /\ b4 \in {0, 1}
  BY DEF Flag
<1>3. /\ Rank(t) = <<a1, a2, a3, a4, t.index>> /\ Rank(u) = <<b1, b2, b3, b4, u.index>>
  BY DEF Rank, Flag
<1>4. /\ Flags(t) = 8 * a1 + 4 * a2 + 2 * a3 + a4 /\ Flags(u) = 8 * b1 + 4 * b2 + 2 * b3 + b4
  BY DEF Flags
<1> HIDE DEF a1, a2, a3, a4, b1, b2, b3, b4
<1>5. \/ a1 < b1
      \/ a1 = b1 /\ a2 < b2
      \/ a1 = b1 /\ a2 = b2 /\ a3 < b3
      \/ a1 = b1 /\ a2 = b2 /\ a3 = b3 /\ a4 < b4
      \/ a1 = b1 /\ a2 = b2 /\ a3 = b3 /\ a4 = b4 /\ t.index < u.index
  BY <1>1, <1>2, <1>4
<1>6. \A k \in 1 .. 5 : k = 1 \/ k = 2 \/ k = 3 \/ k = 4 \/ k = 5 OBVIOUS
<1>7. CASE a1 < b1
  <2>1. Rank(t)[1] < Rank(u)[1] /\ \A j \in 1 .. 1 - 1 : Rank(t)[j] = Rank(u)[j]
    BY <1>3, <1>7
  <2> QED BY <2>1 DEF Before
<1>8. CASE a1 = b1 /\ a2 < b2
  <2>1. Rank(t)[2] < Rank(u)[2] /\ \A j \in 1 .. 2 - 1 : Rank(t)[j] = Rank(u)[j]
    BY <1>3, <1>8
  <2> QED BY <2>1 DEF Before
<1>9. CASE a1 = b1 /\ a2 = b2 /\ a3 < b3
  <2>1. Rank(t)[3] < Rank(u)[3] /\ \A j \in 1 .. 3 - 1 : Rank(t)[j] = Rank(u)[j]
    BY <1>3, <1>9
  <2> QED BY <2>1 DEF Before
<1>10. CASE a1 = b1 /\ a2 = b2 /\ a3 = b3 /\ a4 < b4
  <2>1. Rank(t)[4] < Rank(u)[4] /\ \A j \in 1 .. 4 - 1 : Rank(t)[j] = Rank(u)[j]
    BY <1>3, <1>10
  <2> QED BY <2>1 DEF Before
<1>11. CASE a1 = b1 /\ a2 = b2 /\ a3 = b3 /\ a4 = b4 /\ t.index < u.index
  <2>1. Rank(t)[5] < Rank(u)[5] /\ \A j \in 1 .. 5 - 1 : Rank(t)[j] = Rank(u)[j]
    BY <1>3, <1>11
  <2> QED BY <2>1 DEF Before
<1> QED BY <1>5, <1>7, <1>8, <1>9, <1>10, <1>11

\* Of the tracks of a cut one comes first.
LEMMA FirstTrackMember ==
    ASSUME NEW v \in Version, NEW S \in SUBSET Tracks[v], S # {}
    PROVE  FirstTrack(S) \in S
<1>1. S \subseteq Track /\ \A t, u \in S : t.index = u.index => t = u
  BY AcquisitionAssumption
<1>2. \A t \in S : Flags(t) \in Nat /\ t.index \in Nat BY <1>1 DEF Flags, Flag, Track
<1> DEFINE N == {Flags(t) : t \in S}
<1>3. N \in SUBSET Nat /\ N # {} BY <1>2
<1>4. PICK n \in N : \A m \in N : n <= m BY <1>3, LeastNumber
<1> DEFINE A == {t \in S : Flags(t) = n}
           I == {t.index : t \in A}
<1>5. I \in SUBSET Nat /\ I # {} BY <1>2, <1>4
<1>6. PICK i \in I : \A k \in I : i <= k BY <1>5, LeastNumber
<1>7. PICK t \in A : t.index = i BY <1>6
<1>8. ASSUME NEW u \in S \ {t} PROVE Before(t, u)
  <2>1. t \in S /\ Flags(t) = n /\ n <= Flags(u) /\ n \in Nat /\ Flags(u) \in Nat
    BY <1>2, <1>4, <1>7
  <2>2. CASE Flags(u) = n
    <3>1. u \in A /\ i <= u.index BY <1>6, <2>2
    <3>2. u.index # t.index BY <1>1, <2>1
    <3>3. t.index < u.index BY <1>2, <1>7, <2>1, <3>1, <3>2
    <3> QED BY <1>1, <2>1, <2>2, <3>3, FlagsBefore
  <2>3. CASE Flags(u) # n
    <3>1. Flags(t) < Flags(u) BY <2>1, <2>3
    <3> QED BY <1>1, <2>1, <3>1, FlagsBefore
  <2> QED BY <2>2, <2>3
<1>9. t \in S BY <1>7
<1>10. \E x \in S : \A u \in S \ {x} : Before(x, u) BY <1>8, <1>9
<1> QED BY <1>10 DEF FirstTrack

\* A source file that is better than another: the order of acquire_existing_sources.
Better(held, s, r) ==
    \/ held[s].score > held[r].score
    \/ held[s].score = held[r].score /\ SlotRank(s) > SlotRank(r)

HasBest(held, S) == \E s \in S : \A r \in S \ {s} : Better(held, s, r)

LEMMA SlotRanks ==
    /\ SlotRank("external") = 450 /\ SlotRank("embedded") = 400
    /\ SlotRank("pgs") = 350 /\ SlotRank("asr") = 300
BY DEF SlotRank

LEMMA OneMoreBest ==
    ASSUME NEW S \in SUBSET Slot, NEW x \in Slot \ S, NEW held,
           \A s \in S \cup {x} : held[s].score \in Nat,
           S # {} => HasBest(held, S)
    PROVE  HasBest(held, S \cup {x})
<1>1. \A s \in Slot : SlotRank(s) \in Nat BY SlotRanks DEF Slot
<1>2. \A s, r \in Slot : s # r => SlotRank(s) # SlotRank(r) BY SlotRanks DEF Slot
<1>3. \A s, r \in S \cup {x} : s # r => Better(held, s, r) \/ Better(held, r, s)
  BY <1>1, <1>2 DEF Better
<1>4. \A s, r, q \in S \cup {x} :
          Better(held, s, r) /\ Better(held, r, q) => Better(held, s, q)
  BY <1>1 DEF Better
<1>5. CASE S = {} BY <1>5 DEF HasBest
<1>6. CASE S # {}
  <2>1. PICK b \in S : \A r \in S \ {b} : Better(held, b, r) BY <1>6 DEF HasBest
  <2>2. CASE Better(held, b, x)
    <3>1. \A r \in (S \cup {x}) \ {b} : Better(held, b, r) BY <2>1, <2>2
    <3> QED BY <2>1, <3>1 DEF HasBest
  <2>3. CASE Better(held, x, b)
    <3>1. \A r \in (S \cup {x}) \ {x} : Better(held, x, r) BY <1>4, <2>1, <2>3
    <3> QED BY <3>1 DEF HasBest
  <2> QED BY <1>3, <2>1, <2>2, <2>3
<1> QED BY <1>5, <1>6

\* Of the files that are there one is the best.
LEMMA BestMember ==
    ASSUME NEW S \in SUBSET Slot, S # {}, NEW held, \A s \in S : held[s].score \in Nat
    PROVE  Best(held, S) \in S
<1> DEFINE P(T) == T # {} => HasBest(held, T)
           A == S \cap {"external"}
           B == S \cap {"external", "embedded"}
           C == S \cap {"external", "embedded", "pgs"}
<1>1. ASSUME NEW T \in SUBSET S, NEW x \in Slot, P(T) PROVE P((T \cup {x}) \cap S)
  <2>1. CASE x \in T \/ x \notin S
    <3>1. (T \cup {x}) \cap S = T BY <2>1
    <3> QED BY <1>1, <3>1
  <2>2. CASE x \in S \ T
    <3>1. (T \cup {x}) \cap S = T \cup {x} BY <2>2
    <3>2. HasBest(held, T \cup {x}) BY <1>1, <2>2, OneMoreBest
    <3> QED BY <3>1, <3>2
  <2> QED BY <2>1, <2>2
<1>2. P({}) OBVIOUS
<1>3. /\ A = ({} \cup {"external"}) \cap S /\ B = (A \cup {"embedded"}) \cap S
      /\ C = (B \cup {"pgs"}) \cap S /\ S = (C \cup {"asr"}) \cap S
  BY DEF Slot
<1>4. /\ {} \in SUBSET S /\ A \in SUBSET S /\ B \in SUBSET S /\ C \in SUBSET S
      /\ "external" \in Slot /\ "embedded" \in Slot /\ "pgs" \in Slot /\ "asr" \in Slot
  BY DEF Slot
<1> HIDE DEF P, A, B, C
<1>5. P(A) BY <1>1, <1>2, <1>3, <1>4, Zenon
<1>6. P(B) BY <1>1, <1>3, <1>4, <1>5, Zenon
<1>7. P(C) BY <1>1, <1>3, <1>4, <1>6, Zenon
<1>8. P(S) BY <1>1, <1>3, <1>4, <1>7, Zenon
<1>9. HasBest(held, S) BY <1>8 DEF P
<1>10. \E s \in S : \A r \in S \ {s} : Better(held, s, r) BY <1>9 DEF HasBest
<1> QED BY <1>10 DEF Best, Better

\* A text obtained from a cut is a text.
LEMMA MadeType ==
    ASSUME NEW kind \in Slot, NEW v \in Version, NEW w \in Worker, NEW n \in Nat
    PROVE  LET t == Made(kind, v, w, n)
           IN  t \in Text /\ t.kind = kind /\ t.cut = v
BY DEF Made, Text

LEMMA TextNotError == \A t \in Text : t # None /\ t # Failed
BY AcquisitionAssumption

\* What a tool yields for each track.
YieldsOf(v) == [Tracks[v] -> Yield]

\* An embedded text is of the cut; there is none to measure against only when
\* there is no English text track.
LEMMA AnchorType ==
    ASSUME NEW v \in Version, NEW w \in Worker, NEW y \in YieldsOf(v)
    PROVE  LET a == Anchor(v, w, y)
           IN  /\ a \in Text \cup {None, Failed}
               /\ a \in Text => a.cut = v /\ a.kind \in {"embedded", "pgs"}
               /\ a = None => English(v, TRUE) = {}
<1>1. /\ Tracks[v] \subseteq Track /\ None # Failed
      /\ English(v, TRUE) \subseteq Tracks[v] /\ English(v, FALSE) \subseteq Tracks[v]
  BY AcquisitionAssumption DEF English
<1>2. "embedded" \in Slot /\ "pgs" \in Slot BY DEF Slot
<1>3. \/ FromText(v, w, y) = None /\ English(v, TRUE) = {}
      \/ FromText(v, w, y) = Failed
      \/ /\ FromText(v, w, y) \in Text /\ FromText(v, w, y).cut = v
         /\ FromText(v, w, y).kind = "embedded"
  <2> DEFINE good == {t \in English(v, TRUE) : y[t] = "good"}
             n == FirstTrack(good).score
  <2>1. CASE English(v, TRUE) = {} BY <2>1 DEF FromText
  <2>2. CASE English(v, TRUE) # {} /\ good = {} BY <2>2 DEF FromText
  <2>3. CASE English(v, TRUE) # {} /\ good # {}
    <3>1. good \in SUBSET Tracks[v] BY <1>1
    <3> HIDE DEF good
    <3>2. FirstTrack(good) \in Track BY <1>1, <2>3, <3>1, FirstTrackMember
    <3>3. n \in Nat BY <3>2 DEF Track
    <3>4. FromText(v, w, y) = Made("embedded", v, w, n) BY <2>3 DEF FromText, good
    <3> HIDE DEF n
    <3> DEFINE m == Made("embedded", v, w, n)
    <3>5. m \in Text /\ m.cut = v /\ m.kind = "embedded" BY <1>2, <3>3, MadeType
    <3> HIDE DEF m
    <3> QED BY <3>4, <3>5 DEF m
  <2> QED BY <2>1, <2>2, <2>3
<1>4. \/ FromBitmap(v, w, y) \in {None, Failed}
      \/ /\ FromBitmap(v, w, y) \in Text /\ FromBitmap(v, w, y).cut = v
         /\ FromBitmap(v, w, y).kind = "pgs"
  <2> DEFINE t == FirstTrack(English(v, FALSE))
             n == t.score
  <2>1. CASE w \notin Ocr \/ English(v, FALSE) = {} BY <2>1 DEF FromBitmap
  <2>2. CASE ~(w \notin Ocr \/ English(v, FALSE) = {})
    <3>1. t \in Tracks[v] /\ t \in Track BY <1>1, <2>2, FirstTrackMember
    <3>2. n \in Nat /\ y[t] \in {"good", "poor", "nothing"}
      BY <3>1 DEF Track, YieldsOf, Yield
    <3>3. CASE y[t] = "good"
      <4>1. FromBitmap(v, w, y) = Made("pgs", v, w, n) BY <2>2, <3>3 DEF FromBitmap
      <4> HIDE DEF n
      <4> QED BY <1>2, <3>2, <4>1, MadeType
    <3>4. CASE y[t] = "poor" BY <2>2, <3>4 DEF FromBitmap
    <3>5. CASE y[t] = "nothing" BY <2>2, <3>5 DEF FromBitmap
    <3> HIDE DEF t
    <3> QED BY <3>2, <3>3, <3>4, <3>5
  <2> QED BY <2>1, <2>2
<1> DEFINE text == FromText(v, w, y)
           bitmap == FromBitmap(v, w, y)
           a == Anchor(v, w, y)
<1>5. a = IF text # None THEN text ELSE bitmap BY DEF Anchor
<1>6. /\ \/ text = None /\ English(v, TRUE) = {}
         \/ text = Failed
         \/ text \in Text /\ text.cut = v /\ text.kind = "embedded"
      /\ \/ bitmap \in {None, Failed}
         \/ bitmap \in Text /\ bitmap.cut = v /\ bitmap.kind = "pgs"
  BY <1>3, <1>4
<1> HIDE DEF text, bitmap, a
<1>7. /\ a \in Text \cup {None, Failed}
      /\ a \in Text => a.cut = v /\ a.kind \in {"embedded", "pgs"}
      /\ a = None => English(v, TRUE) = {}
  <2>1. None \notin Text /\ Failed \notin Text BY TextNotError
  <2>2. CASE text = None
    <3>1. a = bitmap /\ English(v, TRUE) = {} BY <1>1, <1>5, <1>6, <2>1, <2>2
    <3> QED BY <1>6, <2>1, <3>1
  <2>3. CASE text # None
    <3>1. a = text BY <1>5, <2>3
    <3> QED BY <1>1, <1>6, <2>1, <2>3, <3>1
  <2> QED BY <2>2, <2>3
<1> QED BY <1>7 DEF a

\* A text that is generated is of the cut and comes from the film, and from its
\* sound only when it has no English text track.
LEMMA GeneratedType ==
    ASSUME NEW v \in Version, NEW w \in Worker, NEW y \in YieldsOf(v), NEW speech
    PROVE  LET t == Generated(v, w, y, speech)
           IN  /\ t \in Text \cup {Failed}
               /\ t \in Text => t.cut = v /\ t.kind # "external" /\ SpokenOnly(t)
<1> DEFINE a == Anchor(v, w, y)
           s == FromSpeech(v, w, speech)
<1>1. /\ a \in Text \cup {None, Failed}
      /\ a \in Text => a.cut = v /\ a.kind \in {"embedded", "pgs"}
      /\ a = None => English(v, TRUE) = {}
  BY AnchorType
<1>2. s = Failed \/ (s \in Text /\ s.cut = v /\ s.kind = "asr")
  <2>1. "asr" \in Slot /\ 0 \in Nat BY DEF Slot
  <2> QED BY <2>1, MadeType DEF FromSpeech
<1>3. Generated(v, w, y, speech) = IF a = None THEN s ELSE a BY DEF Generated
<1> HIDE DEF a, s
<1> QED BY <1>1, <1>2, <1>3, TextNotError DEF SpokenOnly

LEMMA SourceType ==
    ASSUME NEW t \in Text, NEW s \in Slot \cup {None}
    PROVE  LET x == [text |-> t, path |-> s] IN x \in Source /\ x.text = t /\ x.path = s
BY DEF Source

\* What is taken from the files beside the film or measured against them.  An
\* external text is taken only when there is nothing to measure it against, or
\* what it was measured against is of its cut.
LEMMA ResolveType ==
    ASSUME NEW held \in [Slot -> Text \cup {None}],
           NEW v \in Version, NEW w \in Worker, NEW y \in YieldsOf(v),
           \A s \in Slot : held[s] # None => held[s].kind = s
    PROVE  LET x == Resolve(held, v, w, y)
           IN  /\ x \in Source \cup {None, Failed}
               /\ (x \in Source /\ x.text.kind = "external")
                     => \/ English(v, TRUE) = {}
                        \/ x.text.cut = v
                        \/ \E s \in {"embedded", "pgs"} :
                              held[s] # None /\ held[s].cut = x.text.cut
<1> DEFINE present == {s \in Slot : held[s] # None}
           cached == present \cap {"embedded", "pgs"}
           In(s) == [text |-> held[s], path |-> s]
           a == Anchor(v, w, y)
           anchor == IF cached # {} THEN In(Best(held, cached)) ELSE [text |-> a, path |-> None]
           x == Resolve(held, v, w, y)
           Fair(z) == (z \in Source /\ z.text.kind = "external")
                         => \/ English(v, TRUE) = {}
                            \/ z.text.cut = v
                            \/ \E s \in {"embedded", "pgs"} :
                                  held[s] # None /\ held[s].cut = z.text.cut
<1>1. \A s \in present : /\ s \in Slot /\ held[s] \in Text /\ held[s].score \in Nat
                         /\ held[s].kind = s
  BY DEF Text
<1>2. \A s \in present : In(s) \in Source /\ In(s).text = held[s]
  BY <1>1, SourceType
<1>3. x = CASE present = {} -> None
            [] present # {} /\ "external" \notin present -> In(Best(held, present))
            [] OTHER -> CASE anchor.text = Failed -> Failed
                          [] anchor.text = None -> In("external")
                          [] OTHER -> IF ExternalWins(held["external"], anchor.text)
                                      THEN In("external") ELSE anchor
  BY DEF Resolve
<1>4. /\ a \in Text \cup {None, Failed}
      /\ a \in Text => a.cut = v /\ a.kind \in {"embedded", "pgs"}
      /\ a = None => English(v, TRUE) = {}
  BY AnchorType
<1>5. \A s \in present : Best(held, present) \in present
  BY <1>1, BestMember
<1>6. cached # {} => Best(held, cached) \in cached
  BY <1>1, BestMember
<1>7. cached # {} =>
        /\ anchor \in Source /\ anchor.text \in Text /\ anchor.text.kind \in {"embedded", "pgs"}
        /\ \E s \in {"embedded", "pgs"} : held[s] # None /\ held[s].cut = anchor.text.cut
  <2> SUFFICES ASSUME cached # {}
      PROVE  /\ anchor \in Source /\ anchor.text \in Text
             /\ anchor.text.kind \in {"embedded", "pgs"}
             /\ \E s \in {"embedded", "pgs"} : held[s] # None /\ held[s].cut = anchor.text.cut
    OBVIOUS
  <2> DEFINE b == Best(held, cached)
  <2>1. b \in present /\ b \in {"embedded", "pgs"} BY <1>6
  <2>2. anchor = In(b) OBVIOUS
  <2> HIDE DEF b, anchor, present, cached
  <2>3. anchor \in Source /\ anchor.text = held[b] BY <1>2, <2>1, <2>2
  <2>4. held[b] \in Text /\ held[b].kind = b /\ held[b] # None
    BY <1>1, <2>1, TextNotError
  <2> QED BY <2>1, <2>3, <2>4
<1>8. cached = {} =>
        /\ anchor.text = a
        /\ a \in Text => anchor \in Source
  BY SourceType
<1> HIDE DEF a
<1>9. CASE present = {}
  <2>1. x = None BY <1>3, <1>9
  <2>2. None \notin Source BY SubtitleAssumption
  <2> QED BY <2>1, <2>2
<1>10. CASE present # {} /\ "external" \notin present
  <2> DEFINE b == Best(held, present)
  <2>1. b \in present BY <1>5, <1>10
  <2>2. x = In(b) BY <1>3, <1>10
  <2> HIDE DEF b, present, x
  <2>3. x \in Source /\ x.text = held[b] /\ held[b].kind = b /\ b # "external"
    BY <1>1, <1>2, <1>10, <2>1, <2>2
  <2> QED BY <2>3 DEF x
<1>11. CASE "external" \in present
  <2>1. x = CASE anchor.text = Failed -> Failed
              [] anchor.text = None -> In("external")
              [] OTHER -> IF ExternalWins(held["external"], anchor.text)
                          THEN In("external") ELSE anchor
    BY <1>3, <1>11
  <2>2. In("external") \in Source /\ In("external").text = held["external"]
    BY <1>2, <1>11
  <2>3. None \notin Text /\ Failed \notin Text BY TextNotError
  <2> HIDE DEF anchor, x, present, In, cached
  <2>4. CASE anchor.text = Failed
    <3>1. x = Failed BY <2>1, <2>4, AcquisitionAssumption
    <3>2. x \notin Source BY <3>1, SubtitleAssumption
    <3> QED BY <3>1, <3>2 DEF x
  <2>5. CASE anchor.text = None
    <3>1. cached = {} /\ a = None BY <1>7, <1>8, <2>3, <2>5
    <3>2. x \in Source BY <2>1, <2>2, <2>5, AcquisitionAssumption
    <3> QED BY <1>4, <3>1, <3>2 DEF x
  <2>6. CASE anchor.text \notin {None, Failed}
    <3>1. x = IF ExternalWins(held["external"], anchor.text) THEN In("external") ELSE anchor
      BY <2>1, <2>6
    <3>2. /\ anchor \in Source /\ anchor.text \in Text
          /\ anchor.text.kind \in {"embedded", "pgs"}
          /\ \/ anchor.text.cut = v
             \/ \E s \in {"embedded", "pgs"} :
                   held[s] # None /\ held[s].cut = anchor.text.cut
      BY <1>4, <1>7, <1>8, <2>6
    <3>3. CASE ExternalWins(held["external"], anchor.text)
      <4>1. x = In("external") /\ held["external"].cut = anchor.text.cut
        BY <3>1, <3>3 DEF ExternalWins, Agree
      <4>2. x \in Source /\ x.text = held["external"] BY <2>2, <4>1
      <4> QED BY <3>2, <4>1, <4>2 DEF x
    <3>4. CASE ~ExternalWins(held["external"], anchor.text)
      <4>1. x = anchor BY <3>1, <3>4
      <4> QED BY <3>2, <4>1 DEF x
    <3> QED BY <3>3, <3>4
  <2> QED BY <2>4, <2>5, <2>6
<1> QED BY <1>9, <1>10, <1>11

-----------------------------------------------------------------------------
(***************************************************************************)
(* Type correctness                                                        *)
(***************************************************************************)
LEMMA IdleTyped == Idle \in RunRecord /\ Sound(Idle) /\ Idle.pc = "idle"
<1>1. Standing \in Setting /\ 0 \in 0 .. Attempts - 1 BY SubtitleAssumption
<1> QED BY <1>1 DEF Idle, RunRecord, Sound, Sourced, Drafted, PC

LEMMA KeyType ==
    ASSUME RunsTyped, NEW p \in Owner, run[p].pc # "idle"
    PROVE  Key(p) \in Job /\ run[p].seen \in Version /\ run[p].setting.worker \in Worker
<1>1. run[p] \in RunRecord /\ Sound(run[p]) BY DEF RunsTyped
<1>2. run[p].seen \in Version /\ run[p].setting \in Setting BY <1>1 DEF Sound, RunRecord
<1>3. run[p].setting.worker \in Worker BY <1>2 DEF Setting
<1> QED BY <1>2, <1>3, SubtitleAssumption DEF Key

\* One process moves, and the others stay where they are.
LEMMA OneMoves ==
    ASSUME RunsInv, NEW p \in Owner, NEW r \in RunRecord, Sound(r), Set(p, r),
           output' = output \/ output' # None,
           r.pc = "read_output" => output' # None
    PROVE  RunsInv'
BY DEF RunsInv, RunsTyped, OutputThere, Set

LEMMA StopTyped ==
    ASSUME RunsInv, NEW p \in Owner, Stop(p), output' = output
    PROVE  RunsInv'
BY IdleTyped, OneMoves DEF Stop

\* A process goes on to a step for which it has what the step needs.
Guarded == {"hash_output", "read_output", "archive", "persist", "resolve"}

LEMMA GotoTyped ==
    ASSUME RunsInv, NEW p \in Owner, run[p].pc # "idle", NEW n \in PC \ Guarded,
           n = "hash_source" => run[p].got \in Manifest,
           n \in Sourced => run[p].source \in Source,
           n \in Drafted => run[p].draft \in Draft,
           Goto(p, n), output' = output \/ output' # None
    PROVE  RunsInv'
<1> DEFINE next == [run[p] EXCEPT !.pc = n]
<1>1. run[p] \in RunRecord /\ Sound(run[p]) BY DEF RunsInv, RunsTyped
<1>2. next \in RunRecord /\ next.pc = n BY <1>1 DEF RunRecord
<1>3. Sound(next) BY <1>1 DEF RunRecord, Sound, Guarded
<1>4. Set(p, next) BY DEF Goto
<1> HIDE DEF next
<1> QED BY <1>2, <1>3, <1>4, OneMoves DEF Guarded

\* The looks at the artifact, and what they come to.
Looking == {"read_manifest", "hash_output", "hash_source"}

LEMMA NotReadyTyped ==
    ASSUME RunsInv, NEW p \in Owner, run[p].pc \in Looking, NotReady(p), output' = output
    PROVE  RunsInv'
<1>1. run[p] \in RunRecord /\ Sound(run[p]) BY DEF RunsInv, RunsTyped
<1>2. CASE run[p].draft = None
  <2> DEFINE next == [run[p] EXCEPT !.pc = "resolve", !.got = None]
  <2>1. next \in RunRecord BY <1>1 DEF RunRecord, PC
  <2>2. Sound(next) /\ next.pc = "resolve" BY <1>1, <1>2 DEF RunRecord, Sound, Sourced, Drafted, Looking
  <2>3. Set(p, next) BY <1>2 DEF NotReady
  <2> HIDE DEF next
  <2> QED BY <2>1, <2>2, <2>3, OneMoves
<1>3. CASE run[p].draft # None /\ Again(p)
  <2> DEFINE next == [run[p] EXCEPT !.pc = "read_manifest", !.got = None, !.tries = @ + 1]
  <2>1. next \in RunRecord
    <3>1. run[p].tries + 1 \in 0 .. Attempts - 1
      BY <1>1, <1>3, SubtitleAssumption DEF RunRecord, Again
    <3> QED BY <1>1, <3>1 DEF RunRecord, PC
  <2>2. Sound(next) /\ next.pc = "read_manifest"
    BY <1>1 DEF RunRecord, Sound, Sourced, Drafted, Looking
  <2>3. Set(p, next) BY <1>3 DEF NotReady
  <2> HIDE DEF next
  <2> QED BY <2>1, <2>2, <2>3, OneMoves
<1>4. CASE run[p].draft # None /\ ~Again(p)
  <2> DEFINE next == [run[p] EXCEPT !.pc = "failing", !.got = None]
  <2>1. next \in RunRecord BY <1>1 DEF RunRecord, PC
  <2>2. Sound(next) /\ next.pc = "failing"
    BY <1>1 DEF RunRecord, Sound, Sourced, Drafted, Looking
  <2>3. Set(p, next) BY <1>4 DEF NotReady
  <2> HIDE DEF next
  <2> QED BY <2>1, <2>2, <2>3, OneMoves
<1> QED BY <1>2, <1>3, <1>4

LEMMA IsReadyTyped ==
    ASSUME RunsInv, NEW p \in Owner, run[p].pc \in Looking, IsReady(p), output' = output
    PROVE  RunsInv'
<1>1. run[p] \in RunRecord /\ Sound(run[p]) BY DEF RunsInv, RunsTyped
<1>2. CASE run[p].draft # None
  <2> DEFINE next == [run[p] EXCEPT !.pc = "complete", !.got = None]
  <2>1. next \in RunRecord BY <1>1 DEF RunRecord, PC
  <2>2. Sound(next) /\ next.pc = "complete"
    BY <1>1, <1>2 DEF RunRecord, Sound, Sourced, Drafted, Looking
  <2>3. Set(p, next) BY <1>2 DEF IsReady
  <2> HIDE DEF next
  <2> QED BY <2>1, <2>2, <2>3, OneMoves
<1>3. CASE run[p].draft = None
  <2> DEFINE next == [run[p] EXCEPT !.pc = "resolve", !.got = None]
  <2>1. next \in RunRecord BY <1>1 DEF RunRecord, PC
  <2>2. Sound(next) /\ next.pc = "resolve"
    BY <1>1, <1>3 DEF RunRecord, Sound, Sourced, Drafted, Looking
  <2>3. Set(p, next) \/ Stop(p) BY <1>3 DEF IsReady
  <2> HIDE DEF next
  <2> QED BY <2>1, <2>2, <2>3, OneMoves, StopTyped
<1> QED BY <1>2, <1>3

\* The readiness check of the artifact.
LEMMA LookTyped ==
    ASSUME RunsInv, FilesTyped, NEW p \in Owner,
           ReadManifest(p) \/ HashOutput(p) \/ HashSource(p)
    PROVE  RunsInv'
<1>1. run[p] \in RunRecord /\ Sound(run[p]) BY DEF RunsInv, RunsTyped
<1>2. output' = output BY DEF ReadManifest, HashOutput, HashSource, fileVars
<1>3. CASE ReadManifest(p)
  <2> DEFINE next == [run[p] EXCEPT !.pc = "hash_output", !.got = manifest]
  <2>1. manifest # None => next \in RunRecord /\ next.pc = "hash_output"
    BY <1>1 DEF RunRecord, PC, FilesTyped
  <2>2. manifest # None => Sound(next)
    BY <1>1, <1>3 DEF RunRecord, Sound, Sourced, Drafted, FilesTyped, ReadManifest
  <2>3. NotReady(p) \/ (manifest # None /\ Set(p, next)) BY <1>3 DEF ReadManifest
  <2>4. run[p].pc \in Looking BY <1>3 DEF ReadManifest, Looking
  <2> HIDE DEF next
  <2> QED BY <1>2, <2>1, <2>2, <2>3, <2>4, OneMoves, NotReadyTyped
<1>4. CASE HashOutput(p)
  <2>1. run[p].pc \in Looking /\ run[p].pc # "idle" /\ run[p].got \in Manifest
    BY <1>1, <1>4 DEF HashOutput, Looking, Sound
  <2>2. NotReady(p) \/ IsReady(p) \/ Goto(p, "hash_source") BY <1>4 DEF HashOutput
  <2>3. "hash_source" \in PC \ Guarded BY DEF PC, Guarded
  <2>4. "hash_source" \notin Sourced \cup Drafted BY DEF Sourced, Drafted
  <2> QED BY <1>2, <2>1, <2>2, <2>3, <2>4, NotReadyTyped, IsReadyTyped, GotoTyped
<1>5. CASE HashSource(p)
  <2>1. run[p].pc \in Looking BY <1>5 DEF HashSource, Looking
  <2>2. NotReady(p) \/ IsReady(p) BY <1>5 DEF HashSource
  <2> QED BY <1>2, <2>1, <2>2, NotReadyTyped, IsReadyTyped
<1> QED BY <1>3, <1>4, <1>5

\* The source: from the files beside the film, from the film, or from its sound.
LEMMA YieldsType ==
    ASSUME NEW v \in Version, NEW y \in Yields(Tracks[v])
    PROVE  y \in YieldsOf(v)
BY DEF Yields, YieldsOf

\* What the files that were listed hold now is typed as the files are.
LEMMA ListedType ==
    ASSUME FilesTyped, NEW p \in Owner
    PROVE  /\ Listed(p) \in [Slot -> Text \cup {None}]
           /\ \A s \in Slot : Listed(p)[s] # None =>
                 /\ Listed(p)[s] = files[s] /\ files[s] # None /\ Listed(p)[s].kind = s
BY DEF FilesTyped, Listed

\* What a run makes of the files that were listed and of the film.
LEMMA Resolved ==
    ASSUME RunsInv, FilesTyped, WorldTyped, NEW p \in Owner, ResolveSource(p)
    PROVE  \/ Stop(p)
           \/ \E x \in Source \cup {None} :
                 /\ Set(p, [run[p] EXCEPT !.pc = "claim", !.source = x, !.listed = {}])
                 /\ (x \in Source /\ x.text.kind = "external")
                       => \/ English(video, TRUE) = {}
                          \/ x.text.cut = video
                          \/ \E s \in {"embedded", "pgs"} :
                                files[s] # None /\ files[s].cut = x.text.cut
<1>1. run[p].pc # "idle" BY DEF ResolveSource
<1>2. run[p].setting.worker \in Worker BY <1>1, KeyType DEF RunsInv
<1>3. PICK y \in Yields(Tracks[video]) :
        LET source == Resolve(Listed(p), video, run[p].setting.worker, y)
        IN  IF source = Failed THEN Stop(p)
            ELSE Set(p, [run[p] EXCEPT !.pc = "claim", !.source = source, !.listed = {}])
  BY DEF ResolveSource
<1> DEFINE x == Resolve(Listed(p), video, run[p].setting.worker, y)
<1>4. video \in Version /\ y \in YieldsOf(video) BY <1>3, YieldsType DEF WorldTyped
<1>5. /\ Listed(p) \in [Slot -> Text \cup {None}]
      /\ \A s \in Slot : Listed(p)[s] # None => Listed(p)[s].kind = s
      /\ \A s \in {"embedded", "pgs"} : Listed(p)[s] # None =>
            Listed(p)[s] = files[s] /\ files[s] # None
  BY ListedType DEF Slot
<1>6. /\ x \in Source \cup {None, Failed}
      /\ (x \in Source /\ x.text.kind = "external")
            => \/ English(video, TRUE) = {}
               \/ x.text.cut = video
               \/ \E s \in {"embedded", "pgs"} :
                     Listed(p)[s] # None /\ Listed(p)[s].cut = x.text.cut
  BY <1>2, <1>4, <1>5, ResolveType
<1>7. IF x = Failed THEN Stop(p)
      ELSE Set(p, [run[p] EXCEPT !.pc = "claim", !.source = x, !.listed = {}])
  BY <1>3
<1> HIDE DEF x
<1>8. (x \in Source /\ x.text.kind = "external")
            => \/ English(video, TRUE) = {}
               \/ x.text.cut = video
               \/ \E s \in {"embedded", "pgs"} :
                     files[s] # None /\ files[s].cut = x.text.cut
  BY <1>5, <1>6
<1> QED BY <1>6, <1>7, <1>8

\* What a run obtains from the film.
LEMMA Acquired ==
    ASSUME RunsInv, WorldTyped, NEW p \in Owner, Acquire(p)
    PROVE  \/ run[p].source # None /\ Goto(p, "renew_acquired")
           \/ Goto(p, "failing")
           \/ \E t \in Text :
                 /\ Set(p, [run[p] EXCEPT !.pc = "persist",
                              !.source = [text |-> t, path |-> t.kind]])
                 /\ t.cut = video /\ t.kind # "external" /\ SpokenOnly(t)
<1>1. run[p].pc # "idle" BY DEF Acquire
<1>2. run[p].setting.worker \in Worker /\ video \in Version
  BY <1>1, KeyType DEF RunsInv, WorldTyped
<1>3. CASE run[p].source # None BY <1>3 DEF Acquire
<1>4. CASE run[p].source = None
  <2>1. PICK y \in Yields(Tracks[video]), speech \in {"good", "nothing"} :
          LET text == Generated(video, run[p].setting.worker, y, speech)
          IN  IF text = Failed THEN Goto(p, "failing")
              ELSE Set(p, [run[p] EXCEPT !.pc = "persist",
                             !.source = [text |-> text, path |-> text.kind]])
    BY <1>4 DEF Acquire
  <2> DEFINE t == Generated(video, run[p].setting.worker, y, speech)
  <2>2. y \in YieldsOf(video) BY <1>2, <2>1, YieldsType
  <2>3. t \in Text \cup {Failed} /\ (t \in Text => t.cut = video /\ t.kind # "external" /\ SpokenOnly(t))
    BY <1>2, <2>2, GeneratedType
  <2>4. IF t = Failed THEN Goto(p, "failing")
        ELSE Set(p, [run[p] EXCEPT !.pc = "persist", !.source = [text |-> t, path |-> t.kind]])
    BY <2>1
  <2> HIDE DEF t
  <2> QED BY <2>3, <2>4
<1> QED BY <1>3, <1>4

LEMMA AcquisitionTyped ==
    ASSUME RunsInv, FilesTyped, WorldTyped, NEW p \in Owner, ResolveSource(p) \/ Acquire(p)
    PROVE  RunsInv'
<1>1. run[p] \in RunRecord /\ Sound(run[p]) BY DEF RunsInv, RunsTyped
<1>2. output' = output BY DEF ResolveSource, Acquire, fileVars
<1>3. CASE ResolveSource(p)
  <2>1. ASSUME NEW x \in Source \cup {None},
               Set(p, [run[p] EXCEPT !.pc = "claim", !.source = x, !.listed = {}]),
               ~Stop(p)
        PROVE  RunsInv'
    <3> DEFINE next == [run[p] EXCEPT !.pc = "claim", !.source = x, !.listed = {}]
    <3>1. next \in RunRecord /\ next.pc = "claim" BY <1>1 DEF RunRecord, PC
    <3>2. Set(p, next) BY <2>1
    <3>3. Sound(next) BY <1>1, <1>3 DEF RunRecord, Sound, Sourced, Drafted, ResolveSource
    <3> HIDE DEF next
    <3> QED BY <1>2, <3>1, <3>2, <3>3, OneMoves
  <2> QED BY <1>2, <1>3, <2>1, Resolved, StopTyped
<1>4. CASE Acquire(p)
  <2>1. "renew_acquired" \in PC \ Guarded BY DEF PC, Guarded
  <2>2. "failing" \in PC \ Guarded BY DEF PC, Guarded
  <2>3. /\ "failing" \notin Sourced \cup Drafted \cup {"hash_source"}
        /\ "renew_acquired" \notin Drafted \cup {"hash_source"}
    BY DEF Sourced, Drafted
  <2>4. run[p].pc # "idle" BY <1>4 DEF Acquire
  <2>5. run[p].source # None => run[p].source \in Source BY <1>1 DEF RunRecord
  <2>6. CASE run[p].source # None /\ Goto(p, "renew_acquired")
    BY <1>2, <2>1, <2>3, <2>4, <2>5, <2>6, GotoTyped
  <2>7. CASE Goto(p, "failing")
    BY <1>2, <2>2, <2>3, <2>4, <2>7, GotoTyped
  <2>8. ASSUME NEW t \in Text, t.kind # "external",
               Set(p, [run[p] EXCEPT !.pc = "persist", !.source = [text |-> t, path |-> t.kind]])
        PROVE  RunsInv'
    <3> DEFINE x == [text |-> t, path |-> t.kind]
               next == [run[p] EXCEPT !.pc = "persist", !.source = x]
    <3>1. t.kind \in Slot BY <2>8 DEF Text
    <3>2. x \in Source /\ x.text = t /\ x.path = t.kind BY <3>1, SourceType
    <3> HIDE DEF x
    <3>3. next \in RunRecord /\ next.pc = "persist" BY <1>1, <3>2 DEF RunRecord, PC
    <3>4. Sound(next)
      BY <1>1, <1>4, <2>8, <3>2 DEF RunRecord, Sound, Sourced, Drafted, Acquire
    <3>5. Set(p, next) BY <2>8 DEF x
    <3> HIDE DEF next
    <3> QED BY <1>2, <3>3, <3>4, <3>5, OneMoves
  <2> QED BY <1>4, <2>6, <2>7, <2>8, Acquired
<1> QED BY <1>3, <1>4

-----------------------------------------------------------------------------
\* The steps on the jobs table, and those that only go on.
LEMMA TableSteps ==
    ASSUME RunsInv, NEW p \in Owner,
           \/ ClaimJob(p) \/ ToAcquiring(p) \/ RenewAcquired(p) \/ ToTranslating(p)
           \/ RenewTranslated(p) \/ ToVerified(p)
    PROVE  RunsInv'
<1>1. run[p] \in RunRecord /\ Sound(run[p]) BY DEF RunsInv, RunsTyped
<1>2. output' = output
  BY DEF ClaimJob, ToAcquiring, RenewAcquired, ToTranslating, RenewTranslated, ToVerified,
         Advance, RenewLease, fileVars
<1>3. /\ {"to_acquiring", "acquire", "to_translating", "translate", "to_verified", "guard",
          "failing"} \subseteq PC \ Guarded
      /\ {"to_acquiring", "acquire", "failing"} \cap (Sourced \cup Drafted) = {}
      /\ {"to_translating", "translate"} \cap Drafted = {}
      /\ {"to_verified", "guard"} \cap Sourced = {}
  BY DEF PC, Guarded, Sourced, Drafted
<1>4. /\ run[p].pc \in {"renew_acquired", "to_translating"} => run[p].source \in Source
      /\ run[p].pc \in {"renew_translated", "to_verified"} => run[p].draft \in Draft
  BY <1>1 DEF Sound, Sourced, Drafted
<1>5. ASSUME NEW n \in {"to_acquiring", "acquire", "failing"}, Goto(p, n), run[p].pc # "idle"
      PROVE  RunsInv'
  <2>1. n \in PC \ Guarded /\ n \notin Sourced \cup Drafted /\ n # "hash_source" BY <1>3
  <2> QED BY <1>2, <1>5, <2>1, GotoTyped
<1>6. ASSUME NEW n \in {"to_translating", "translate"}, Goto(p, n),
             run[p].pc \in {"renew_acquired", "to_translating"}
      PROVE  RunsInv'
  <2>1. n \in PC \ Guarded /\ n \notin Drafted /\ n # "hash_source" BY <1>3
  <2> QED BY <1>2, <1>4, <1>6, <2>1, GotoTyped
<1>7. ASSUME NEW n \in {"to_verified", "guard"}, Goto(p, n),
             run[p].pc \in {"renew_translated", "to_verified"}
      PROVE  RunsInv'
  <2>1. n \in PC \ Guarded /\ n \notin Sourced /\ n # "hash_source" BY <1>3
  <2> QED BY <1>2, <1>4, <1>7, <2>1, GotoTyped
<1>8. CASE ClaimJob(p) BY <1>2, <1>5, <1>8, StopTyped DEF ClaimJob
<1>9. CASE ToAcquiring(p) BY <1>5, <1>9 DEF ToAcquiring, Advance
<1>10. CASE RenewAcquired(p) BY <1>5, <1>6, <1>10 DEF RenewAcquired, RenewLease
<1>11. CASE ToTranslating(p) BY <1>5, <1>6, <1>11 DEF ToTranslating, Advance
<1>12. CASE RenewTranslated(p) BY <1>5, <1>7, <1>12 DEF RenewTranslated, RenewLease
<1>13. CASE ToVerified(p) BY <1>5, <1>7, <1>13 DEF ToVerified, Advance
<1> QED BY <1>8, <1>9, <1>10, <1>11, <1>12, <1>13

\* The steps that write and confirm a source, and the translation.
LEMMA SourceSteps ==
    ASSUME RunsInv, NEW p \in Owner, Persist(p) \/ ConfirmSource(p) \/ Translate(p)
    PROVE  RunsInv'
<1>1. run[p] \in RunRecord /\ Sound(run[p]) BY DEF RunsInv, RunsTyped
<1>2. output' = output /\ run[p].pc # "idle"
  BY DEF Persist, ConfirmSource, Translate, fileVars
<1>3. run[p].source \in Source
  BY <1>1 DEF Persist, ConfirmSource, Translate, Sound, Sourced
<1>4. /\ {"confirm_source", "renew_acquired", "failing"} \subseteq PC \ Guarded
      /\ {"confirm_source", "renew_acquired", "failing"} \cap Drafted = {}
  BY DEF PC, Guarded, Drafted
<1>5. ASSUME NEW n \in {"confirm_source", "renew_acquired", "failing"}, Goto(p, n)
      PROVE  RunsInv'
  <2>1. n \in PC \ Guarded /\ n \notin Drafted /\ n # "hash_source" BY <1>4
  <2> QED BY <1>2, <1>3, <1>5, <2>1, GotoTyped
<1>6. CASE Persist(p) BY <1>5, <1>6 DEF Persist
<1>7. CASE ConfirmSource(p) BY <1>5, <1>7 DEF ConfirmSource, Require
<1>8. CASE Translate(p)
  <2> DEFINE d == [source |-> run[p].source.text, model |-> run[p].setting.model, by |-> p]
             next == [run[p] EXCEPT !.pc = "renew_translated", !.draft = d]
  <2>1. d \in Draft
    <3>1. run[p].source.text \in Text /\ run[p].setting.model \in Model
      BY <1>1, <1>3 DEF RunRecord, Source, Setting
    <3> QED BY <3>1 DEF Draft
  <2>2. Set(p, next) BY <1>8 DEF Translate
  <2> HIDE DEF d
  <2>3. next \in RunRecord /\ next.pc = "renew_translated" BY <1>1, <2>1 DEF RunRecord, PC
  <2>4. Sound(next) BY <1>1, <1>2, <1>3, <2>1 DEF RunRecord, Sound, Sourced, Drafted
  <2> HIDE DEF next
  <2> QED BY <1>2, <2>2, <2>3, <2>4, OneMoves
<1> QED BY <1>6, <1>7, <1>8

\* The archive of what stands at the output.
LEMMA GuardSteps ==
    ASSUME RunsInv, FilesTyped, NEW p \in Owner, Guard(p) \/ ReadOutput(p) \/ Archive(p)
    PROVE  RunsInv' /\ FilesTyped'
<1>1. run[p] \in RunRecord /\ Sound(run[p]) BY DEF RunsInv, RunsTyped
<1>2. output' = output /\ run[p].pc # "idle"
  BY DEF Guard, ReadOutput, Archive, fileVars
<1>3. run[p].draft \in Draft BY <1>1 DEF Guard, ReadOutput, Archive, Sound, Drafted
<1>4. None \notin Output /\ None \notin Draft BY SubtitleAssumption DEF Output
<1>5. CASE Guard(p)
  <2>1. FilesTyped' BY <1>5 DEF Guard, FilesTyped, fileVars
  <2>2. CASE output = None
    <3>1. "upload" \in PC \ Guarded /\ "upload" \notin Sourced BY DEF PC, Guarded, Sourced
    <3>2. Goto(p, "upload") BY <1>5, <2>2 DEF Guard
    <3> QED BY <1>2, <1>3, <2>1, <3>1, <3>2, GotoTyped
  <2>3. CASE output # None
    <3> DEFINE next == [run[p] EXCEPT !.pc = "read_output", !.expected = output]
    <3>1. output \in Output BY <2>3 DEF FilesTyped
    <3>2. next \in RunRecord BY <1>1, <3>1 DEF RunRecord, PC
    <3>3. Sound(next) BY <1>1, <1>2, <1>3, <1>4, <3>1 DEF RunRecord, Sound, Sourced, Drafted
    <3>4. Set(p, next) BY <1>5, <2>3 DEF Guard
    <3> HIDE DEF next
    <3> QED BY <1>2, <2>1, <2>3, <3>2, <3>3, <3>4, OneMoves
  <2> QED BY <2>2, <2>3
<1>6. CASE ReadOutput(p)
  <2>1. FilesTyped' BY <1>6 DEF ReadOutput, FilesTyped, fileVars
  <2>2. output \in Output BY <1>6 DEF ReadOutput, FilesTyped, RunsInv, OutputThere
  <2> DEFINE next == [run[p] EXCEPT !.pc = "archive", !.held = output]
  <2>3. next \in RunRecord /\ next.pc = "archive" BY <1>1, <2>2 DEF RunRecord, PC
  <2>4. Sound(next)
    BY <1>1, <1>3, <1>6, <2>2 DEF RunRecord, Sound, Sourced, Drafted, ReadOutput
  <2>5. Set(p, next) BY <1>6 DEF ReadOutput
  <2> HIDE DEF next
  <2> QED BY <1>2, <2>1, <2>3, <2>4, <2>5, OneMoves
<1>7. CASE Archive(p)
  <2>1. run[p].held \in Output BY <1>1, <1>7 DEF Archive, Sound
  <2>2. FilesTyped' BY <1>7, <2>1 DEF Archive, FilesTyped
  <2> DEFINE n == IF run[p].held = run[p].expected THEN "upload" ELSE "failing"
             next == [run[p] EXCEPT !.pc = n, !.expected = None, !.held = None]
  <2>3. n \in {"upload", "failing"} OBVIOUS
  <2>4. Set(p, next) BY <1>7 DEF Archive
  <2> HIDE DEF n
  <2>5. next \in RunRecord /\ next.pc = n BY <1>1, <2>3 DEF RunRecord, PC
  <2>6. Sound(next) BY <1>1, <1>2, <1>3, <2>3 DEF RunRecord, Sound, Sourced, Drafted
  <2> HIDE DEF next
  <2> QED BY <1>2, <2>2, <2>3, <2>4, <2>5, <2>6, OneMoves
<1> QED BY <1>5, <1>6, <1>7

\* Publication, and what a process that must give up does.
LEMMA PublicationSteps ==
    ASSUME RunsInv, FilesTyped, NEW p \in Owner,
           Upload(p) \/ Confirm(p) \/ UploadManifest(p) \/ Complete(p)
    PROVE  RunsInv' /\ FilesTyped'
<1>1. run[p] \in RunRecord /\ Sound(run[p]) BY DEF RunsInv, RunsTyped
<1>2. run[p].pc # "idle" BY DEF Upload, Confirm, UploadManifest, Complete
<1>3. run[p].draft \in Draft /\ run[p].source \in Source
  BY <1>1, SubtitleAssumption DEF Upload, Confirm, UploadManifest, Complete, Sound, Drafted
<1>4. None \notin Draft BY SubtitleAssumption
<1>5. output' = output \/ output' # None
  BY <1>3, <1>4 DEF Upload, Confirm, UploadManifest, Complete, fileVars
<1>6. /\ {"confirm", "upload_manifest", "read_manifest", "failing"} \subseteq PC \ Guarded
      /\ {"confirm", "upload_manifest", "read_manifest", "failing"} \cap Sourced = {}
  BY DEF PC, Guarded, Sourced
<1>7. ASSUME NEW n \in {"confirm", "upload_manifest", "read_manifest", "failing"}, Goto(p, n)
      PROVE  RunsInv'
  <2>1. n \in PC \ Guarded /\ n \notin Sourced /\ n # "hash_source" BY <1>6
  <2> QED BY <1>2, <1>3, <1>5, <1>7, <2>1, GotoTyped
<1>8. CASE Upload(p)
  <2>1. FilesTyped' BY <1>3, <1>8 DEF Upload, FilesTyped, Output
  <2> QED BY <1>7, <1>8, <2>1 DEF Upload
<1>9. CASE Confirm(p)
  <2>1. FilesTyped' BY <1>9 DEF Confirm, FilesTyped, fileVars
  <2> QED BY <1>7, <1>9, <2>1 DEF Confirm, Require
<1>10. CASE UploadManifest(p)
  <2>1. /\ run[p].seen \in Version /\ Key(p) \in Job /\ run[p].setting.model \in Model
    BY <1>1, <1>2, KeyType DEF RunsInv, RunRecord, Setting
  <2>2. manifest' \in Manifest BY <1>3, <1>10, <2>1 DEF UploadManifest, Manifest
  <2>3. FilesTyped' BY <1>10, <2>2 DEF UploadManifest, FilesTyped
  <2> QED BY <1>7, <1>10, <2>3 DEF UploadManifest
<1>11. CASE Complete(p)
  <2>1. FilesTyped' /\ output' = output BY <1>11 DEF Complete, FilesTyped, fileVars
  <2> QED BY <1>7, <1>11, <2>1, StopTyped DEF Complete
<1> QED BY <1>8, <1>9, <1>10, <1>11

LEMMA FailureSteps ==
    ASSUME RunsInv, NEW p \in Owner, FailJob(p) \/ IoError(p) \/ Crash(p)
    PROVE  RunsInv'
<1>1. run[p] \in RunRecord /\ Sound(run[p]) BY DEF RunsInv, RunsTyped
<1>2. output' = output BY DEF FailJob, IoError, Crash, fileVars
<1>3. CASE Stop(p) BY <1>2, <1>3, StopTyped
<1>4. CASE IoError(p) /\ ~Stop(p)
  <2> DEFINE next == [Idle EXCEPT !.pc = "failing", !.setting = run[p].setting,
                                  !.seen = run[p].seen]
  <2>0. /\ run[p].setting \in Setting /\ run[p].seen \in Version \cup {0} /\ "failing" \in PC
    BY <1>1 DEF RunRecord, PC
  <2>1. next \in RunRecord /\ next.pc = "failing" BY <2>0, IdleTyped DEF RunRecord
  <2>2. Sound(next)
    BY <1>1, <1>4, IdleTyped DEF RunRecord, Sound, Sourced, Drafted, IoError, Idle
  <2>3. Set(p, next) BY <1>4 DEF IoError
  <2> HIDE DEF next
  <2> QED BY <1>2, <2>1, <2>2, <2>3, OneMoves
<1> QED BY <1>3, <1>4 DEF FailJob, Crash

LEMMA BeginTyped ==
    ASSUME RunsInv, WorldTyped, NEW p \in Owner, NEW s \in {Standing} \cup Other,
           NEW force \in BOOLEAN, Begin(p, s, force)
    PROVE  RunsInv'
<1> DEFINE next == [Idle EXCEPT !.pc = IF force THEN "resolve" ELSE "read_manifest",
                                !.setting = s, !.seen = video,
                                !.listed = {slot \in Slot : files[slot] # None}]
<1>1. output' = output BY DEF Begin, fileVars
<1>2. s \in Setting BY SubtitleAssumption
<1>3. next \in RunRecord /\ next.pc \in {"resolve", "read_manifest"}
  BY <1>2, IdleTyped DEF RunRecord, PC, WorldTyped
<1>4. Sound(next)
  BY IdleTyped DEF RunRecord, Sound, Sourced, Drafted, WorldTyped, Idle
<1>5. Set(p, next) BY DEF Begin
<1> HIDE DEF next
<1> QED BY <1>1, <1>3, <1>4, <1>5, OneMoves

-----------------------------------------------------------------------------
\* The table changes only by its own operations.
LEMMA TableStep ==
    ASSUME RunsTyped, [Next]_vars
    PROVE  [TableNext]_jobs
<1>1. ASSUME NEW p \in Owner, run[p].pc # "idle"
      PROVE  /\ Claim(Key(p), p) => TableNext
             /\ Renew(Key(p), p) => TableNext
             /\ Fail(Key(p), p) => TableNext
             /\ \A step \in SubtitleStep : Transition(Key(p), p, step[1], step[2]) => TableNext
  BY <1>1, KeyType DEF TableNext
<1>2. /\ <<"CLAIMED", "ACQUIRING">> \in SubtitleStep
      /\ <<"ACQUIRING", "TRANSLATING">> \in SubtitleStep
      /\ <<"TRANSLATING", "VERIFIED">> \in SubtitleStep
      /\ <<"VERIFIED", "READY">> \in SubtitleStep
  BY DEF SubtitleStep
<1>3. ASSUME NEW p \in Owner, Run(p)
      PROVE  TableNext \/ UNCHANGED jobs
  <2>1. CASE \/ ReadManifest(p) \/ HashOutput(p) \/ HashSource(p) \/ ResolveSource(p)
             \/ Acquire(p) \/ Persist(p) \/ ConfirmSource(p) \/ Translate(p) \/ Guard(p)
             \/ ReadOutput(p) \/ Archive(p) \/ Upload(p) \/ Confirm(p) \/ UploadManifest(p)
    BY <2>1 DEF ReadManifest, HashOutput, HashSource, ResolveSource, Acquire, Persist,
                ConfirmSource, Translate, Guard, ReadOutput, Archive, Upload, Confirm,
                UploadManifest
  <2>2. CASE ClaimJob(p) BY <1>1, <2>2 DEF ClaimJob
  <2>3. CASE ToAcquiring(p)
    <3>1. run[p].pc # "idle" /\ (Transition(Key(p), p, "CLAIMED", "ACQUIRING") \/ UNCHANGED jobs)
      BY <2>3 DEF ToAcquiring, Advance
    <3> QED BY <1>1, <1>2, <3>1
  <2>4. CASE ToTranslating(p)
    <3>1. /\ run[p].pc # "idle"
          /\ Transition(Key(p), p, "ACQUIRING", "TRANSLATING") \/ UNCHANGED jobs
      BY <2>4 DEF ToTranslating, Advance
    <3> QED BY <1>1, <1>2, <3>1
  <2>5. CASE ToVerified(p)
    <3>1. /\ run[p].pc # "idle"
          /\ Transition(Key(p), p, "TRANSLATING", "VERIFIED") \/ UNCHANGED jobs
      BY <2>5 DEF ToVerified, Advance
    <3> QED BY <1>1, <1>2, <3>1
  <2>6. CASE Complete(p)
    <3>1. run[p].pc # "idle" /\ (Transition(Key(p), p, "VERIFIED", "READY") \/ UNCHANGED jobs)
      BY <2>6 DEF Complete
    <3> QED BY <1>1, <1>2, <3>1
  <2>7. CASE RenewAcquired(p) \/ RenewTranslated(p)
    BY <1>1, <2>7 DEF RenewAcquired, RenewTranslated, RenewLease
  <2>8. CASE FailJob(p) BY <1>1, <2>8 DEF FailJob
  <2> QED BY <1>3, <2>1, <2>2, <2>3, <2>4, <2>5, <2>6, <2>7, <2>8 DEF Run
<1>4. ASSUME NEW p \in Owner, IoError(p) \/ Crash(p) PROVE UNCHANGED jobs
  BY <1>4 DEF IoError, Crash
<1>5. ASSUME NEW p \in Owner, NEW s \in {Standing} \cup Other, NEW force \in BOOLEAN,
             Begin(p, s, force)
      PROVE  UNCHANGED jobs
  BY <1>5 DEF Begin
<1>6. ASSUME NEW j \in Job, LeaseRunsOut(j) PROVE TableNext
  <2>1. {j} \in SUBSET Job /\ ExpireAll({j}) BY <1>6 DEF LeaseRunsOut, Expire
  <2> QED BY <2>1 DEF TableNext
<1>7. CASE Edit BY <1>7 DEF Edit
<1>8. ASSUME NEW x \in External, PutExternal(x) PROVE UNCHANGED jobs BY <1>8 DEF PutExternal
<1>9. ASSUME NEW v \in Version, ReplaceFilm(v) PROVE UNCHANGED jobs BY <1>9 DEF ReplaceFilm
<1>10. CASE UNCHANGED vars BY <1>10 DEF vars
<1> QED BY <1>3, <1>4, <1>5, <1>6, <1>7, <1>8, <1>9, <1>10 DEF Next

LEMMA WorldBounded ==
    ASSUME WorldTyped, FaultHappens \/ (EditHappens /\ video' \in Version /\ hand' \in BOOLEAN)
    PROVE  WorldTyped'
<1>1. MaxFaults \in Nat /\ MaxEdits \in Nat BY SubtitleAssumption
<1>2. CASE FaultHappens
  <2>1. faults' \in 0 .. MaxFaults BY <1>1, <1>2 DEF FaultHappens, WorldTyped
  <2> QED BY <1>2, <2>1 DEF FaultHappens, WorldTyped
<1>3. CASE EditHappens /\ video' \in Version /\ hand' \in BOOLEAN
  <2>1. edits' \in 0 .. MaxEdits BY <1>1, <1>3 DEF EditHappens, WorldTyped
  <2> QED BY <1>3, <2>1 DEF EditHappens, WorldTyped
<1> QED BY <1>2, <1>3

LEMMA WorldKept == ASSUME WorldTyped, [Next]_vars PROVE WorldTyped'
<1>1. CASE UNCHANGED worldVars BY <1>1 DEF worldVars, WorldTyped
<1>2. CASE FaultHappens BY <1>2, WorldBounded
<1>3. CASE EditHappens /\ video' \in Version /\ hand' \in BOOLEAN BY <1>3, WorldBounded
<1>4. ASSUME NEW p \in Owner, Run(p) PROVE UNCHANGED worldVars \/ FaultHappens
  <2>1. CASE ResolveSource(p) \/ Acquire(p) BY <2>1 DEF ResolveSource, Acquire
  <2>2. CASE \/ ReadManifest(p) \/ HashOutput(p) \/ HashSource(p) \/ Persist(p)
             \/ ConfirmSource(p) \/ Translate(p) \/ Guard(p)
             \/ ReadOutput(p) \/ Archive(p) \/ Upload(p) \/ Confirm(p) \/ UploadManifest(p)
    BY <2>2 DEF ReadManifest, HashOutput, HashSource, Persist, ConfirmSource, Translate,
                Guard, ReadOutput, Archive, Upload, Confirm, UploadManifest
  <2>3. CASE \/ ClaimJob(p) \/ ToAcquiring(p) \/ RenewAcquired(p) \/ ToTranslating(p)
             \/ RenewTranslated(p) \/ ToVerified(p) \/ Complete(p) \/ FailJob(p)
    BY <2>3 DEF ClaimJob, ToAcquiring, RenewAcquired, ToTranslating, RenewTranslated,
                ToVerified, Complete, FailJob, Advance, RenewLease
  <2> QED BY <1>4, <2>1, <2>2, <2>3 DEF Run
<1>5. ASSUME NEW p \in Owner, IoError(p) \/ Crash(p) PROVE FaultHappens
  BY <1>5 DEF IoError, Crash
<1>6. ASSUME NEW p \in Owner, NEW s \in {Standing} \cup Other, NEW force \in BOOLEAN,
             Begin(p, s, force)
      PROVE  UNCHANGED worldVars \/ (EditHappens /\ UNCHANGED <<video, hand>>)
  BY <1>6 DEF Begin
<1>7. ASSUME NEW j \in Job, LeaseRunsOut(j) PROVE UNCHANGED worldVars \/ FaultHappens
  BY <1>7 DEF LeaseRunsOut
<1>8. CASE Edit BY <1>3, <1>8 DEF Edit, WorldTyped
<1>9. ASSUME NEW x \in External, PutExternal(x) PROVE EditHappens /\ UNCHANGED <<video, hand>>
  BY <1>9 DEF PutExternal
<1>10. ASSUME NEW v \in Version, ReplaceFilm(v) PROVE EditHappens /\ video' = v /\ hand' = hand
  BY <1>10 DEF ReplaceFilm
<1>11. ASSUME EditHappens, UNCHANGED <<video, hand>> PROVE WorldTyped'
  BY <1>3, <1>11 DEF WorldTyped
<1>12. ASSUME NEW v \in Version, EditHappens, video' = v, hand' = hand PROVE WorldTyped'
  BY <1>3, <1>12 DEF WorldTyped
<1>13. CASE UNCHANGED vars BY <1>1, <1>13 DEF vars, worldVars
<1> QED BY <1>1, <1>2, <1>4, <1>5, <1>6, <1>7, <1>8, <1>9, <1>10, <1>11, <1>12, <1>13 DEF Next

\* Every step keeps the types.
LEMMA TypeStep == ASSUME TypeInv, [Next]_vars PROVE TypeInv'
<1>0. /\ RunsInv /\ RunsTyped /\ FilesTyped /\ WorldTyped /\ WorldTyped' /\ TableTypeOK'
  BY WorldKept, TableStep, TableTyped DEF TypeInv, RunsInv
<1>1. ASSUME UNCHANGED fileVars PROVE FilesTyped' BY <1>0, <1>1 DEF FilesTyped, fileVars
<1>2. ASSUME NEW p \in Owner, Run(p) PROVE RunsInv' /\ FilesTyped'
  <2>1. CASE ReadManifest(p) \/ HashOutput(p) \/ HashSource(p)
    BY <1>0, <1>1, <2>1, LookTyped DEF ReadManifest, HashOutput, HashSource
  <2>2. CASE ResolveSource(p) \/ Acquire(p)
    BY <1>0, <1>1, <2>2, AcquisitionTyped DEF ResolveSource, Acquire
  <2>3. CASE \/ ClaimJob(p) \/ ToAcquiring(p) \/ RenewAcquired(p) \/ ToTranslating(p)
             \/ RenewTranslated(p) \/ ToVerified(p)
    <3>1. UNCHANGED fileVars
      BY <2>3 DEF ClaimJob, ToAcquiring, RenewAcquired, ToTranslating, RenewTranslated,
                  ToVerified, Advance, RenewLease
    <3> QED BY <1>0, <1>1, <2>3, <3>1, TableSteps
  <2>4. CASE ConfirmSource(p) \/ Translate(p)
    BY <1>0, <1>1, <2>4, SourceSteps DEF ConfirmSource, Translate
  <2>5. CASE Persist(p)
    <3>1. run[p] \in RunRecord /\ Sound(run[p]) BY <1>0 DEF RunsTyped
    <3> DEFINE t == run[p].source.text
               s == run[p].source.path
    <3>2. t \in Text /\ s = t.kind BY <2>5, <3>1 DEF Persist, Sound, Sourced, Source
    <3>3. s \in Slot BY <3>2 DEF Text
    <3>4. files' = [files EXCEPT ![s] = t] /\ UNCHANGED <<output, manifest, backups>>
      BY <2>5 DEF Persist
    <3> HIDE DEF t, s
    <3>5. FilesTyped' BY <1>0, <3>2, <3>3, <3>4 DEF FilesTyped
    <3> QED BY <1>0, <2>5, <3>5, SourceSteps
  <2>6. CASE Guard(p) \/ ReadOutput(p) \/ Archive(p) BY <1>0, <2>6, GuardSteps
  <2>7. CASE Upload(p) \/ Confirm(p) \/ UploadManifest(p) \/ Complete(p)
    BY <1>0, <2>7, PublicationSteps
  <2>8. CASE FailJob(p) BY <1>0, <1>1, <2>8, FailureSteps DEF FailJob
  <2> QED BY <1>2, <2>1, <2>2, <2>3, <2>4, <2>5, <2>6, <2>7, <2>8 DEF Run
<1>3. ASSUME NEW p \in Owner, IoError(p) \/ Crash(p) PROVE RunsInv' /\ FilesTyped'
  BY <1>0, <1>1, <1>3, FailureSteps DEF IoError, Crash
<1>4. ASSUME NEW p \in Owner, NEW s \in {Standing} \cup Other, NEW force \in BOOLEAN,
             Begin(p, s, force)
      PROVE  RunsInv' /\ FilesTyped'
  BY <1>0, <1>1, <1>4, BeginTyped DEF Begin
<1>5. ASSUME UNCHANGED <<run, output>> PROVE RunsInv'
  BY <1>0, <1>5 DEF RunsInv, RunsTyped, OutputThere
<1>6. ASSUME NEW j \in Job, LeaseRunsOut(j) PROVE RunsInv' /\ FilesTyped'
  <2>1. UNCHANGED fileVars /\ UNCHANGED <<run, output>> BY <1>6 DEF LeaseRunsOut, fileVars
  <2> QED BY <1>1, <1>5, <2>1
<1>7. ASSUME Edit PROVE RunsInv' /\ FilesTyped'
  <2>1. Hand # None BY SubtitleAssumption
  <2>2. FilesTyped' BY <1>0, <1>7 DEF Edit, FilesTyped, Output
  <2>3. RunsInv' BY <1>0, <1>7, <2>1 DEF Edit, RunsInv, RunsTyped, OutputThere
  <2> QED BY <2>2, <2>3
<1>8. ASSUME NEW x \in External, PutExternal(x) PROVE RunsInv' /\ FilesTyped'
  <2>1. x \in Text /\ x.kind = "external" BY AcquisitionAssumption
  <2>2. FilesTyped' BY <1>0, <1>8, <2>1 DEF PutExternal, FilesTyped
  <2> QED BY <1>5, <1>8, <2>2 DEF PutExternal
<1>9. ASSUME NEW v \in Version, ReplaceFilm(v) PROVE RunsInv' /\ FilesTyped'
  <2>1. UNCHANGED fileVars /\ UNCHANGED <<run, output>> BY <1>9 DEF ReplaceFilm, fileVars
  <2> QED BY <1>1, <1>5, <2>1
<1>10. ASSUME UNCHANGED vars PROVE RunsInv' /\ FilesTyped'
  BY <1>1, <1>5, <1>10 DEF vars, fileVars
<1>11. RunsInv' /\ FilesTyped'
  BY <1>2, <1>3, <1>4, <1>6, <1>7, <1>8, <1>9, <1>10 DEF Next
<1> QED BY <1>0, <1>11 DEF TypeInv

LEMMA TypeInit == Init => TypeInv
<1> SUFFICES ASSUME Init PROVE TypeInv OBVIOUS
<1>1. TableTypeOK
  BY DEF Init, TableInit, NoJob, TableTypeOK, JobState
<1>2. RunsInv BY IdleTyped DEF Init, RunsInv, RunsTyped, OutputThere
<1>3. FilesTyped BY DEF Init, FilesTyped
<1>4. WorldTyped
  <2>1. 0 \in 0 .. MaxFaults /\ 0 \in 0 .. MaxEdits BY SubtitleAssumption
  <2> QED BY <2>1, FirstCut DEF Init, WorldTyped
<1> QED BY <1>1, <1>2, <1>3, <1>4 DEF TypeInv

LEMMA TypeInvariant == Spec => []TypeInv
<1>1. TypeInv /\ [Next]_vars => TypeInv' BY TypeStep
<1> QED BY <1>1, TypeInit, PTL DEF Spec

\* Every variable has its type, and a process never comes to a step without what
\* the step uses (mod.rs:162-354).
THEOREM TypeCorrect == Spec => []TypeOK
<1>1. TypeInv => TypeOK
  <2> SUFFICES ASSUME TypeInv PROVE TypeOK OBVIOUS
  <2>1. run \in [Owner -> RunRecord] /\ \A p \in Owner : Sound(run[p])
    BY DEF TypeInv, RunsInv, RunsTyped
  <2>2. ASSUME NEW p \in Owner
        PROVE  /\ run[p].pc # "idle" => run[p].seen \in Version
               /\ run[p].pc \in {"hash_output", "hash_source"} => run[p].got \in Manifest
               /\ run[p].pc \in {"persist", "confirm_source", "renew_acquired", "translate"}
                     => run[p].source \in Source
               /\ run[p].pc \in {"read_output", "archive"} => run[p].expected \in Output
               /\ Publishing(p) => run[p].draft \in Draft /\ run[p].source \in Source
    <3>1. run[p] \in RunRecord /\ Sound(run[p]) BY <2>1
    <3>2. Publishing(p) => run[p].draft \in Draft
      BY <3>1 DEF Publishing, Sound, Drafted, RunRecord
    <3>3. None \notin Draft BY SubtitleAssumption
    <3> QED BY <3>1, <3>2, <3>3 DEF Sound, Sourced
  <2> QED BY <2>1, <2>2 DEF TypeOK, TypeInv, FilesTyped, WorldTyped, RunRecord
<1> QED BY <1>1, TypeInvariant, PTL

\* The runs change the jobs table only by the operations of the store, so what
\* the table promises holds of them: a subtitle job has an owner exactly while it
\* is open (mod.rs:218-354, state.rs:108-264).
THEOREM TableRespected == Spec => TableSpec /\ []OwnedWhileOpen
<1>1. Init => TableInit BY DEF Init
<1>2. TypeInv /\ [Next]_vars => [TableNext]_jobs BY TableStep DEF TypeInv, RunsInv
<1>3. Spec => TableSpec BY <1>1, <1>2, TypeInvariant, PTL DEF Spec, TableSpec
<1> QED BY <1>3, OwnersMatchStates, PTL

-----------------------------------------------------------------------------
(***************************************************************************)
(* What one step does to what its process holds, as far as the invariants  *)
(* below ask                                                               *)
(***************************************************************************)
Publishes(r) ==
    \/ r.pc \in {"to_verified", "guard", "read_output", "archive", "upload", "confirm",
                 "upload_manifest", "complete"}
    \/ r.draft # None /\ r.pc \in Looking

Follows(r, s) ==
    \/ s = Idle
    \/ /\ r.pc # "idle" /\ s.pc # "idle" /\ s.seen = r.seen /\ s.setting = r.setting
       /\ s.source \in {r.source, None} \/ r.pc \in {"resolve", "acquire"}
       /\ s.pc = "persist" => r.pc = "acquire"
       /\ s.pc = "archive" => r.pc = "read_output" /\ s.held = output
       /\ s.pc = "upload" => \/ r.pc = "guard" /\ output = None
                             \/ r.pc = "archive" /\ backups' = backups \cup {r.held}
       /\ Publishes(s) => Publishes(r) \/ r.pc = "renew_translated"

Moves(p) ==
    /\ \A q \in Owner : q # p => run'[q] = run[q]
    /\ Follows(run[p], run'[p])

LEMMA SetMoves ==
    ASSUME RunsTyped, NEW p \in Owner, NEW s, Set(p, s), Follows(run[p], s)
    PROVE  Moves(p)
BY DEF RunsTyped, Set, Moves

LEMMA StopMoves == ASSUME RunsTyped, NEW p \in Owner, Stop(p) PROVE Moves(p)
BY SetMoves DEF Stop, Follows

LEMMA GotoMoves ==
    ASSUME RunsTyped, NEW p \in Owner, run[p].pc # "idle",
           NEW n \in PC \ {"idle", "persist", "archive", "upload"}, Goto(p, n),
           Publishes(run[p]) \/ n \notin Drafted \cup Looking \/ run[p].pc = "renew_translated"
    PROVE  Moves(p)
<1> DEFINE next == [run[p] EXCEPT !.pc = n]
<1>1. run[p] \in RunRecord BY DEF RunsTyped
<1>2. Set(p, next) BY DEF Goto
<1>3. /\ next.pc = n /\ next.seen = run[p].seen /\ next.setting = run[p].setting
      /\ next.source = run[p].source /\ next.draft = run[p].draft
  BY <1>1 DEF RunRecord
<1> HIDE DEF next
<1>4. Publishes(next) => Publishes(run[p]) \/ run[p].pc = "renew_translated"
  BY <1>3 DEF Publishes, Drafted
<1> QED BY <1>2, <1>3, <1>4, SetMoves DEF Follows

LEMMA LookMoves ==
    ASSUME RunsTyped, NEW p \in Owner, ReadManifest(p) \/ HashOutput(p) \/ HashSource(p)
    PROVE  Moves(p)
<1>1. run[p] \in RunRecord BY DEF RunsTyped
<1>2. run[p].pc \in Looking BY DEF ReadManifest, HashOutput, HashSource, Looking
<1>3. ASSUME NEW n \in Looking \cup {"resolve", "failing", "complete"},
             n = "complete" => run[p].draft # None,
             NEW next \in RunRecord, Set(p, next), next.pc = n, next.draft = run[p].draft,
             next.seen = run[p].seen, next.setting = run[p].setting,
             next.source = run[p].source
      PROVE  Moves(p)
  <2>1. Follows(run[p], next) BY <1>2, <1>3 DEF Follows, Publishes, Looking
  <2> QED BY <1>3, <2>1, SetMoves
<1>4. ASSUME NotReady(p) PROVE Moves(p)
  <2> DEFINE a == [run[p] EXCEPT !.pc = "resolve", !.got = None]
             b == [run[p] EXCEPT !.pc = "read_manifest", !.got = None, !.tries = @ + 1]
             c == [run[p] EXCEPT !.pc = "failing", !.got = None]
  <2>1. CASE run[p].draft = None
    <3>1. Set(p, a) BY <1>4, <2>1 DEF NotReady
    <3>2. /\ a \in RunRecord /\ a.pc = "resolve" /\ a.draft = run[p].draft
          /\ a.seen = run[p].seen /\ a.setting = run[p].setting /\ a.source = run[p].source
      BY <1>1 DEF RunRecord, PC
    <3> HIDE DEF a
    <3> QED BY <1>3, <3>1, <3>2
  <2>2. CASE run[p].draft # None /\ Again(p)
    <3>1. Set(p, b) BY <1>4, <2>2 DEF NotReady
    <3>2. run[p].tries + 1 \in 0 .. Attempts - 1
      BY <1>1, <2>2, SubtitleAssumption DEF RunRecord, Again
    <3>3. /\ b \in RunRecord /\ b.pc = "read_manifest" /\ b.draft = run[p].draft
          /\ b.seen = run[p].seen /\ b.setting = run[p].setting /\ b.source = run[p].source
      BY <1>1, <3>2 DEF RunRecord, PC
    <3> HIDE DEF b
    <3> QED BY <1>3, <3>1, <3>3 DEF Looking
  <2>3. CASE run[p].draft # None /\ ~Again(p)
    <3>1. Set(p, c) BY <1>4, <2>3 DEF NotReady
    <3>2. /\ c \in RunRecord /\ c.pc = "failing" /\ c.draft = run[p].draft
          /\ c.seen = run[p].seen /\ c.setting = run[p].setting /\ c.source = run[p].source
      BY <1>1 DEF RunRecord, PC
    <3> HIDE DEF c
    <3> QED BY <1>3, <3>1, <3>2
  <2> QED BY <2>1, <2>2, <2>3
<1>5. ASSUME IsReady(p) PROVE Moves(p)
  <2> DEFINE a == [run[p] EXCEPT !.pc = "complete", !.got = None]
             b == [run[p] EXCEPT !.pc = "resolve", !.got = None]
  <2>1. CASE run[p].draft # None
    <3>1. Set(p, a) BY <1>5, <2>1 DEF IsReady
    <3>2. /\ a \in RunRecord /\ a.pc = "complete" /\ a.draft = run[p].draft
          /\ a.seen = run[p].seen /\ a.setting = run[p].setting /\ a.source = run[p].source
      BY <1>1 DEF RunRecord, PC
    <3> HIDE DEF a
    <3> QED BY <1>3, <2>1, <3>1, <3>2
  <2>2. CASE run[p].draft = None
    <3>1. Stop(p) \/ Set(p, b) BY <1>5, <2>2 DEF IsReady
    <3>2. /\ b \in RunRecord /\ b.pc = "resolve" /\ b.draft = run[p].draft
          /\ b.seen = run[p].seen /\ b.setting = run[p].setting /\ b.source = run[p].source
      BY <1>1 DEF RunRecord, PC
    <3> HIDE DEF b
    <3> QED BY <1>3, <3>1, <3>2, StopMoves
  <2> QED BY <2>1, <2>2
<1>6. CASE ReadManifest(p)
  <2> DEFINE a == [run[p] EXCEPT !.pc = "hash_output", !.got = manifest]
  <2>1. NotReady(p) \/ Set(p, a) BY <1>6 DEF ReadManifest
  <2>2. /\ a.pc = "hash_output" /\ a.draft = run[p].draft
        /\ a.seen = run[p].seen /\ a.setting = run[p].setting /\ a.source = run[p].source
    BY <1>1 DEF RunRecord
  <2> HIDE DEF a
  <2>3. Follows(run[p], a) BY <1>2, <2>2 DEF Follows, Publishes, Looking
  <2> QED BY <1>4, <2>1, <2>3, SetMoves
<1>7. CASE HashOutput(p)
  <2> DEFINE a == [run[p] EXCEPT !.pc = "hash_source"]
  <2>1. NotReady(p) \/ IsReady(p) \/ Set(p, a) BY <1>7 DEF HashOutput, Goto
  <2>2. /\ a.pc = "hash_source" /\ a.draft = run[p].draft
        /\ a.seen = run[p].seen /\ a.setting = run[p].setting /\ a.source = run[p].source
    BY <1>1 DEF RunRecord
  <2> HIDE DEF a
  <2>3. Follows(run[p], a) BY <1>2, <2>2 DEF Follows, Publishes, Looking
  <2> QED BY <1>4, <1>5, <2>1, <2>3, SetMoves
<1>8. CASE HashSource(p) BY <1>4, <1>5, <1>8 DEF HashSource
<1> QED BY <1>6, <1>7, <1>8

LEMMA AcquisitionMoves ==
    ASSUME RunsInv, FilesTyped, WorldTyped, NEW p \in Owner, ResolveSource(p) \/ Acquire(p)
    PROVE  Moves(p)
<1>1. run[p] \in RunRecord /\ RunsTyped BY DEF RunsInv, RunsTyped
<1>2. CASE ResolveSource(p)
  <2>1. ASSUME NEW x, Set(p, [run[p] EXCEPT !.pc = "claim", !.source = x, !.listed = {}])
        PROVE  Moves(p)
    <3> DEFINE next == [run[p] EXCEPT !.pc = "claim", !.source = x, !.listed = {}]
    <3>1. next.pc = "claim" /\ next.seen = run[p].seen /\ next.setting = run[p].setting
      BY <1>1 DEF RunRecord
    <3>2. Set(p, next) BY <2>1
    <3> HIDE DEF next
    <3>3. Follows(run[p], next)
      BY <1>2, <3>1 DEF Follows, Publishes, Looking, ResolveSource
    <3> QED BY <1>1, <3>2, <3>3, SetMoves
  <2> QED BY <1>1, <1>2, <2>1, Resolved, StopMoves
<1>3. CASE Acquire(p)
  <2>1. run[p].pc = "acquire" BY <1>3 DEF Acquire
  <2>2. ASSUME NEW n \in {"renew_acquired", "failing"}, Goto(p, n) PROVE Moves(p)
    <3>1. n \in PC \ {"idle", "persist", "archive", "upload"} /\ n \notin Drafted \cup Looking
      BY DEF PC, Drafted, Looking
    <3> QED BY <1>1, <2>1, <2>2, <3>1, GotoMoves
  <2>3. ASSUME NEW t,
               Set(p, [run[p] EXCEPT !.pc = "persist", !.source = [text |-> t, path |-> t.kind]])
        PROVE  Moves(p)
    <3> DEFINE next == [run[p] EXCEPT !.pc = "persist",
                                      !.source = [text |-> t, path |-> t.kind]]
    <3>1. next.pc = "persist" /\ next.seen = run[p].seen /\ next.setting = run[p].setting
      BY <1>1 DEF RunRecord
    <3>2. Set(p, next) BY <2>3
    <3> HIDE DEF next
    <3>3. Follows(run[p], next) BY <2>1, <3>1 DEF Follows, Publishes, Looking
    <3> QED BY <1>1, <3>2, <3>3, SetMoves
  <2> QED BY <1>3, <2>2, <2>3, Acquired
<1> QED BY <1>2, <1>3

LEMMA GuardMoves ==
    ASSUME RunsTyped, NEW p \in Owner, Translate(p) \/ Guard(p) \/ ReadOutput(p) \/ Archive(p)
    PROVE  Moves(p)
<1>1. run[p] \in RunRecord BY DEF RunsTyped
<1>2. ASSUME NEW next, Set(p, next), next.pc \in PC, next.pc # "idle", next.pc # "persist",
             next.seen = run[p].seen, next.setting = run[p].setting,
             next.source = run[p].source, run[p].pc # "idle",
             Publishes(next) => Publishes(run[p]),
             next.pc = "archive" => run[p].pc = "read_output" /\ next.held = output,
             next.pc = "upload" => \/ run[p].pc = "guard" /\ output = None
                                   \/ run[p].pc = "archive" /\ backups' = backups \cup {run[p].held}
      PROVE  Moves(p)
  <2>1. Follows(run[p], next) BY <1>2 DEF Follows
  <2> QED BY <1>2, <2>1, SetMoves
<1>3. CASE Translate(p)
  <2> DEFINE d == [source |-> run[p].source.text, model |-> run[p].setting.model, by |-> p]
             next == [run[p] EXCEPT !.pc = "renew_translated", !.draft = d]
  <2>1. /\ next.pc = "renew_translated" /\ next.seen = run[p].seen
        /\ next.setting = run[p].setting /\ next.source = run[p].source
    BY <1>1 DEF RunRecord
  <2>2. Set(p, next) /\ run[p].pc = "translate" BY <1>3 DEF Translate
  <2> HIDE DEF next
  <2>3. ~Publishes(next) /\ next.pc \in PC BY <2>1 DEF Publishes, Looking, PC
  <2> QED BY <1>2, <2>1, <2>2, <2>3
<1>4. CASE Guard(p)
  <2> DEFINE a == [run[p] EXCEPT !.pc = "upload"]
             b == [run[p] EXCEPT !.pc = "read_output", !.expected = output]
  <2>1. /\ a.pc = "upload" /\ a.seen = run[p].seen
        /\ a.setting = run[p].setting /\ a.source = run[p].source
        /\ b.pc = "read_output" /\ b.seen = run[p].seen
        /\ b.setting = run[p].setting /\ b.source = run[p].source
        /\ {"upload", "read_output"} \subseteq PC
    BY <1>1 DEF RunRecord, PC
  <2>2. (output = None /\ Set(p, a)) \/ Set(p, b) BY <1>4 DEF Guard, Goto
  <2>3. run[p].pc = "guard" /\ Publishes(run[p]) BY <1>4 DEF Guard, Publishes
  <2> HIDE DEF a, b
  <2> QED BY <1>2, <2>1, <2>2, <2>3
<1>5. CASE ReadOutput(p)
  <2> DEFINE next == [run[p] EXCEPT !.pc = "archive", !.held = output]
  <2>1. /\ next.pc = "archive" /\ next.seen = run[p].seen /\ next.held = output
        /\ next.setting = run[p].setting /\ next.source = run[p].source
        /\ "archive" \in PC
    BY <1>1 DEF RunRecord, PC
  <2>2. Set(p, next) BY <1>5 DEF ReadOutput
  <2>3. run[p].pc = "read_output" /\ Publishes(run[p]) BY <1>5 DEF ReadOutput, Publishes
  <2> HIDE DEF next
  <2> QED BY <1>2, <2>1, <2>2, <2>3
<1>6. CASE Archive(p)
  <2> DEFINE n == IF run[p].held = run[p].expected THEN "upload" ELSE "failing"
             next == [run[p] EXCEPT !.pc = n, !.expected = None, !.held = None]
  <2>1. n \in {"upload", "failing"} /\ {"upload", "failing"} \subseteq PC BY DEF PC
  <2>2. Set(p, next) BY <1>6 DEF Archive
  <2> HIDE DEF n
  <2>3. /\ next.pc = n /\ next.seen = run[p].seen
        /\ next.setting = run[p].setting /\ next.source = run[p].source
    BY <1>1 DEF RunRecord
  <2> HIDE DEF next
  <2>4. run[p].pc = "archive" /\ Publishes(run[p]) BY <1>6 DEF Archive, Publishes
  <2>5. backups' = backups \cup {run[p].held} BY <1>6 DEF Archive
  <2> QED BY <1>2, <2>1, <2>2, <2>3, <2>4, <2>5
<1> QED BY <1>3, <1>4, <1>5, <1>6

LEMMA FailureMoves ==
    ASSUME RunsTyped, NEW p \in Owner, FailJob(p) \/ IoError(p) \/ Crash(p)
    PROVE  Moves(p)
<1>1. run[p] \in RunRecord BY DEF RunsTyped
<1> DEFINE next == [Idle EXCEPT !.pc = "failing", !.setting = run[p].setting,
                                !.seen = run[p].seen]
<1>2. Stop(p) \/ (run[p].pc # "idle" /\ Set(p, next)) BY DEF FailJob, IoError, Crash
<1>3. /\ next.pc = "failing" /\ next.setting = run[p].setting /\ next.seen = run[p].seen
      /\ next.source = None
  BY DEF Idle
<1> HIDE DEF next
<1>4. ~Publishes(next) BY <1>3 DEF Publishes, Looking
<1>5. run[p].pc # "idle" => Follows(run[p], next) BY <1>3, <1>4 DEF Follows
<1> QED BY <1>2, <1>5, SetMoves, StopMoves

\* Every step of a process follows what it holds.
LEMMA RunMoves ==
    ASSUME RunsInv, FilesTyped, WorldTyped, NEW p \in Owner, Run(p) \/ IoError(p) \/ Crash(p)
    PROVE  Moves(p)
<1>1. RunsTyped BY DEF RunsInv
<1>2. ASSUME run[p].pc # "idle", NEW n \in {"to_acquiring", "acquire", "failing",
               "to_translating", "translate", "confirm_source", "renew_acquired"}, Goto(p, n)
      PROVE  Moves(p)
  <2>1. n \in PC \ {"idle", "persist", "archive", "upload"} /\ n \notin Drafted \cup Looking
    BY DEF PC, Drafted, Looking
  <2> QED BY <1>1, <1>2, <2>1, GotoMoves
<1>3. ASSUME run[p].pc \in Drafted,
             NEW n \in {"to_verified", "guard", "confirm", "upload_manifest", "read_manifest"},
             Goto(p, n)
      PROVE  Moves(p)
  <2>1. n \in PC \ {"idle", "persist", "archive", "upload"} BY DEF PC
  <2>2. Publishes(run[p]) \/ run[p].pc = "renew_translated" BY <1>3 DEF Drafted, Publishes
  <2>3. run[p].pc # "idle" BY <1>3 DEF Drafted
  <2> QED BY <1>1, <1>3, <2>1, <2>2, <2>3, GotoMoves
<1>4. CASE ReadManifest(p) \/ HashOutput(p) \/ HashSource(p) BY <1>1, <1>4, LookMoves
<1>5. CASE ResolveSource(p) \/ Acquire(p) BY <1>5, AcquisitionMoves
<1>6. CASE Translate(p) \/ Guard(p) \/ ReadOutput(p) \/ Archive(p)
  BY <1>1, <1>6, GuardMoves
<1>7. CASE FailJob(p) \/ IoError(p) \/ Crash(p) BY <1>1, <1>7, FailureMoves
<1>8. CASE ClaimJob(p) BY <1>1, <1>2, <1>8, StopMoves DEF ClaimJob
<1>9. CASE ToAcquiring(p) BY <1>2, <1>9 DEF ToAcquiring, Advance
<1>10. CASE RenewAcquired(p) BY <1>2, <1>10 DEF RenewAcquired, RenewLease
<1>11. CASE ToTranslating(p) BY <1>2, <1>11 DEF ToTranslating, Advance
<1>12. CASE RenewTranslated(p)
  BY <1>2, <1>3, <1>12 DEF RenewTranslated, RenewLease, Drafted
<1>13. CASE ToVerified(p) BY <1>2, <1>3, <1>13 DEF ToVerified, Advance, Drafted
<1>14. CASE Persist(p) BY <1>2, <1>14 DEF Persist
<1>15. CASE ConfirmSource(p) BY <1>2, <1>15 DEF ConfirmSource, Require
<1>16. CASE Upload(p) BY <1>3, <1>16 DEF Upload, Drafted
<1>17. CASE Confirm(p) BY <1>2, <1>3, <1>17 DEF Confirm, Require, Drafted
<1>18. CASE UploadManifest(p) BY <1>3, <1>18 DEF UploadManifest, Drafted
<1>19. CASE Complete(p) BY <1>1, <1>2, <1>19, StopMoves DEF Complete
<1> QED BY <1>4, <1>5, <1>6, <1>7, <1>8, <1>9, <1>10, <1>11, <1>12, <1>13, <1>14, <1>15,
           <1>16, <1>17, <1>18, <1>19 DEF Run

-----------------------------------------------------------------------------
(***************************************************************************)
(* One publisher for each job                                              *)
(***************************************************************************)
Holds(p, k) == jobs[k].owner = p /\ jobs[k].live = TRUE

LEMMA PublishingRuns ==
    ASSUME RunsTyped, NEW p \in Owner, Publishing(p)
    PROVE  Publishes(run[p]) /\ run[p].pc # "idle" /\ Key(p) \in Job
<1>1. Publishes(run[p]) /\ run[p].pc # "idle" BY DEF Publishing, Publishes, Looking
<1> QED BY <1>1, KeyType

LEMMA RunsPublishing ==
    ASSUME NEW p \in Owner, Publishes(run[p]) PROVE Publishing(p)
BY DEF Publishing, Publishes, Looking

\* Nobody takes away a job that is held, and that of another publisher is not touched.
LEMMA OthersKept ==
    ASSUME TableTypeOK, RunsTyped, HoldersPublish, NEW p \in Owner, NEW k \in Job,
           \/ Claim(k, p) \/ Renew(k, p)
           \/ \E from, to \in JobState : Transition(k, p, from, to),
           NEW q \in Owner, q # p, Publishing(q)
    PROVE  jobs'[Key(q)] = jobs[Key(q)]
<1>1. Key(q) \in Job BY PublishingRuns
<1>2. jobs[Key(q)].owner = q /\ jobs[Key(q)].live = TRUE BY DEF HoldersPublish
<1>3. q # NoOne BY OwnerAssumption
<1>4. CASE Claim(k, p)
  <2>1. k # Key(q) BY <1>2, <1>3, <1>4 DEF Claim, Leased
  <2> QED BY <1>1, <1>4, <2>1, ClaimWrites
<1>5. CASE Renew(k, p)
  <2>1. k # Key(q) BY <1>2, <1>5 DEF Renew
  <2> QED BY <1>1, <1>5, <2>1, RenewWrites
<1>6. ASSUME NEW from \in JobState, NEW to \in JobState, Transition(k, p, from, to)
      PROVE  jobs'[Key(q)] = jobs[Key(q)]
  <2>1. k # Key(q) BY <1>2, <1>6 DEF Transition, MayTransition
  <2> QED BY <1>1, <1>6, <2>1, TransitionWrites
<1> QED BY <1>4, <1>5, <1>6

\* One process moves: who publishes after the step holds its job.
LEMMA HoldersMove ==
    ASSUME RunsTyped, HoldersPublish, NEW p \in Owner, Moves(p),
           \A q \in Owner : q # p /\ Publishing(q) => jobs'[Key(q)] = jobs[Key(q)],
           (run'[p].pc # "idle" /\ Publishes(run'[p])) =>
              jobs'[Key(p)].owner = p /\ jobs'[Key(p)].live = TRUE
    PROVE  HoldersPublish'
<1> SUFFICES ASSUME NEW q \in Owner, Publishing(q)'
             PROVE  (jobs[Key(q)].owner = q /\ jobs[Key(q)].live = TRUE)'
  BY DEF HoldersPublish
<1>1. Publishes(run'[q]) /\ run'[q].pc # "idle" BY DEF Publishing, Publishes, Looking
<1>2. CASE q # p
  <2>1. run'[q] = run[q] BY <1>2 DEF Moves
  <2>2. Publishing(q) BY <1>1, <2>1, RunsPublishing
  <2>3. Key(q)' = Key(q) BY <2>1 DEF Key
  <2>4. jobs[Key(q)].owner = q /\ jobs[Key(q)].live = TRUE BY <2>2 DEF HoldersPublish
  <2>5. jobs'[Key(q)] = jobs[Key(q)] BY <1>2, <2>2
  <2> QED BY <2>3, <2>4, <2>5
<1>3. CASE q = p
  <2>1. run'[p].seen = run[p].seen /\ run'[p].setting = run[p].setting
    BY <1>1, <1>3, IdleTyped DEF Moves, Follows
  <2>2. Key(p)' = Key(p) BY <2>1 DEF Key
  <2> QED BY <1>1, <1>3, <2>2
<1> QED BY <1>2, <1>3

\* Steps that leave the table alone.
LEMMA HoldersStay ==
    ASSUME RunsTyped, HoldersPublish, NEW p \in Owner, Moves(p), UNCHANGED jobs,
           run[p].pc # "renew_translated" \/ ~Publishes(run'[p])
    PROVE  HoldersPublish'
<1>1. Publishes(run'[p]) => Publishes(run[p]) \/ run'[p].pc = "idle"
  BY IdleTyped DEF Moves, Follows
<1>2. Publishes(run[p]) => jobs[Key(p)].owner = p /\ jobs[Key(p)].live = TRUE
  BY RunsPublishing DEF HoldersPublish
<1> QED BY <1>1, <1>2, HoldersMove

LEMMA NextOfGoto ==
    ASSUME RunsTyped, NEW p \in Owner, NEW n, Goto(p, n)
    PROVE  run'[p].pc = n /\ run'[p].draft = run[p].draft
<1>1. run[p] \in RunRecord BY DEF RunsTyped
<1>2. run'[p] = [run[p] EXCEPT !.pc = n] BY DEF RunsTyped, Goto, Set
<1> QED BY <1>1, <1>2 DEF RunRecord

LEMMA StopsIdle ==
    ASSUME RunsTyped, NEW p \in Owner, Stop(p) PROVE run'[p].pc = "idle"
BY IdleTyped DEF RunsTyped, Stop, Set

LEMMA HoldersRun ==
    ASSUME TypeInv, HoldersPublish, NEW p \in Owner, Run(p) \/ IoError(p) \/ Crash(p)
    PROVE  HoldersPublish'
<1>1. RunsTyped /\ TableTypeOK /\ Moves(p) BY RunMoves DEF TypeInv, RunsInv
<1>2. CASE \/ ReadManifest(p) \/ HashOutput(p) \/ HashSource(p) \/ ResolveSource(p)
           \/ Acquire(p) \/ Persist(p) \/ ConfirmSource(p) \/ Translate(p) \/ Guard(p)
           \/ ReadOutput(p) \/ Archive(p) \/ Upload(p) \/ Confirm(p) \/ UploadManifest(p)
           \/ Crash(p)
  <2>1. UNCHANGED jobs
    BY <1>2 DEF ReadManifest, HashOutput, HashSource, ResolveSource, Acquire, Persist,
                ConfirmSource, Translate, Guard, ReadOutput, Archive, Upload, Confirm,
                UploadManifest, Crash
  <2>2. run[p].pc # "renew_translated" \/ run'[p].pc = "idle"
    BY <1>1, <1>2, StopsIdle
       DEF ReadManifest, HashOutput, HashSource, ResolveSource, Acquire, Persist,
           ConfirmSource, Translate, Guard, ReadOutput, Archive, Upload, Confirm,
           UploadManifest, Crash
  <2>3. run'[p].pc = "idle" => HoldersPublish'
    <3>1. \A q \in Owner : q # p /\ Publishing(q) => jobs'[Key(q)] = jobs[Key(q)] BY <2>1
    <3> QED BY <1>1, <3>1, HoldersMove
  <2> QED BY <1>1, <2>1, <2>2, <2>3, HoldersStay
<1>3. CASE IoError(p)
  <2>1. UNCHANGED jobs BY <1>3 DEF IoError
  <2>2. run'[p].pc \in {"idle", "failing"}
    <3> DEFINE next == [Idle EXCEPT !.pc = "failing", !.setting = run[p].setting,
                                    !.seen = run[p].seen]
    <3>1. Stop(p) \/ Set(p, next) BY <1>3 DEF IoError
    <3>2. next.pc = "failing" BY DEF Idle
    <3> HIDE DEF next
    <3>3. Set(p, next) => run'[p] = next BY <1>1 DEF Set, RunsTyped
    <3> QED BY <1>1, <3>1, <3>2, <3>3, StopsIdle
  <2>3. run'[p].pc # "idle" => ~Publishes(run'[p]) BY <2>2 DEF Publishes, Looking
  <2>4. \A q \in Owner : q # p /\ Publishing(q) => jobs'[Key(q)] = jobs[Key(q)] BY <2>1
  <2> QED BY <1>1, <2>3, <2>4, HoldersMove
<1>4. ASSUME run[p].pc # "idle", UNCHANGED jobs, Goto(p, "failing") \/ Stop(p)
      PROVE  HoldersPublish'
  <2>1. run'[p].pc \in {"idle", "failing"} BY <1>1, <1>4, NextOfGoto, StopsIdle
  <2>2. run'[p].pc # "idle" => ~Publishes(run'[p]) BY <2>1 DEF Publishes, Looking
  <2>3. \A q \in Owner : q # p /\ Publishing(q) => jobs'[Key(q)] = jobs[Key(q)] BY <1>4
  <2> QED BY <1>1, <2>2, <2>3, HoldersMove
<1>5. ASSUME run[p].pc # "idle",
             \/ Claim(Key(p), p) \/ Renew(Key(p), p)
             \/ \E from, to \in JobState : Transition(Key(p), p, from, to),
             run'[p].pc \in {"idle", "to_acquiring", "acquire", "to_translating", "translate"}
      PROVE  HoldersPublish'
  <2>1. Key(p) \in Job BY <1>1, <1>5, KeyType
  <2>2. \A q \in Owner : q # p /\ Publishing(q) => jobs'[Key(q)] = jobs[Key(q)]
    BY <1>1, <1>5, <2>1, OthersKept
  <2>3. ~Publishes(run'[p]) \/ run'[p].pc = "idle" BY <1>5 DEF Publishes, Looking
  <2> QED BY <1>1, <2>2, <2>3, HoldersMove
<1>6. {"CLAIMED", "ACQUIRING", "TRANSLATING", "VERIFIED", "READY", "FAILED"} \subseteq JobState
  BY DEF JobState
<1>7. CASE ClaimJob(p)
  <2>1. run[p].pc # "idle" BY <1>7 DEF ClaimJob
  <2>2. \/ Claim(Key(p), p) /\ run'[p].pc = "to_acquiring"
        \/ UNCHANGED jobs /\ Stop(p)
    BY <1>1, <1>7, NextOfGoto DEF ClaimJob
  <2> QED BY <1>4, <1>5, <2>1, <2>2
<1>8. CASE ToAcquiring(p) \/ ToTranslating(p)
  <2>1. run[p].pc # "idle" BY <1>8 DEF ToAcquiring, ToTranslating, Advance
  <2>2. \/ /\ \/ Transition(Key(p), p, "CLAIMED", "ACQUIRING")
              \/ Transition(Key(p), p, "ACQUIRING", "TRANSLATING")
           /\ run'[p].pc \in {"acquire", "translate"}
        \/ UNCHANGED jobs /\ Goto(p, "failing")
    BY <1>1, <1>8, NextOfGoto DEF ToAcquiring, ToTranslating, Advance
  <2> QED BY <1>4, <1>5, <1>6, <2>1, <2>2
<1>9. CASE RenewAcquired(p)
  <2>1. run[p].pc # "idle" BY <1>9 DEF RenewAcquired, RenewLease
  <2>2. \/ Renew(Key(p), p) /\ run'[p].pc = "to_translating"
        \/ UNCHANGED jobs /\ Goto(p, "failing")
    BY <1>1, <1>9, NextOfGoto DEF RenewAcquired, RenewLease
  <2> QED BY <1>4, <1>5, <2>1, <2>2
<1>10. CASE RenewTranslated(p)
  <2>1. run[p].pc # "idle" BY <1>10 DEF RenewTranslated, RenewLease
  <2>2. Renew(Key(p), p) \/ (UNCHANGED jobs /\ Goto(p, "failing"))
    BY <1>10 DEF RenewTranslated, RenewLease
  <2>3. CASE Renew(Key(p), p)
    <3>1. Key(p) \in Job BY <1>1, <2>1, KeyType
    <3>2. jobs'[Key(p)].owner = p /\ jobs'[Key(p)].live = TRUE
      BY <1>1, <2>3, <3>1, RenewWrites DEF Renew
    <3>3. \A q \in Owner : q # p /\ Publishing(q) => jobs'[Key(q)] = jobs[Key(q)]
      BY <1>1, <2>3, <3>1, OthersKept
    <3> QED BY <1>1, <3>2, <3>3, HoldersMove
  <2> QED BY <1>4, <2>1, <2>2, <2>3
<1>11. CASE ToVerified(p)
  <2>1. run[p].pc # "idle" /\ Publishing(p) BY <1>11 DEF ToVerified, Advance, Publishing
  <2>2. \/ Transition(Key(p), p, "TRANSLATING", "VERIFIED")
        \/ UNCHANGED jobs /\ Goto(p, "failing")
    BY <1>11 DEF ToVerified, Advance
  <2>3. CASE Transition(Key(p), p, "TRANSLATING", "VERIFIED")
    <3>1. Key(p) \in Job BY <1>1, <2>1, KeyType
    <3>2. "VERIFIED" \notin Terminal BY DEF Terminal
    <3>3. jobs[Key(p)].live = TRUE BY <2>1 DEF HoldersPublish
    <3>4. jobs'[Key(p)].owner = p /\ jobs'[Key(p)].live = TRUE
      BY <1>1, <1>6, <2>3, <3>1, <3>2, <3>3, TransitionWrites
    <3>5. \A q \in Owner : q # p /\ Publishing(q) => jobs'[Key(q)] = jobs[Key(q)]
      BY <1>1, <1>6, <2>3, <3>1, OthersKept
    <3> QED BY <1>1, <3>4, <3>5, HoldersMove
  <2> QED BY <1>4, <2>1, <2>2, <2>3
<1>12. CASE Complete(p)
  <2>1. run[p].pc # "idle" BY <1>12 DEF Complete
  <2>2. \/ Transition(Key(p), p, "VERIFIED", "READY") /\ run'[p].pc = "idle"
        \/ UNCHANGED jobs /\ Goto(p, "failing")
    BY <1>1, <1>12, StopsIdle DEF Complete
  <2> QED BY <1>4, <1>5, <1>6, <2>1, <2>2
<1>13. CASE FailJob(p)
  <2>1. run[p].pc # "idle" BY <1>13 DEF FailJob
  <2>2. run'[p].pc = "idle" /\ Stop(p) BY <1>1, <1>13, StopsIdle DEF FailJob
  <2>3. Fail(Key(p), p) \/ UNCHANGED jobs BY <1>13 DEF FailJob
  <2>4. Fail(Key(p), p) => \E from, to \in JobState : Transition(Key(p), p, from, to)
    BY <1>6 DEF Fail
  <2> QED BY <1>4, <1>5, <2>1, <2>2, <2>3, <2>4
<1> QED BY <1>2, <1>3, <1>7, <1>8, <1>9, <1>10, <1>11, <1>12, <1>13 DEF Run

LEMMA HoldersStep == ASSUME TypeInv, HoldersPublish, [Next]_vars PROVE HoldersPublish'
<1>0. RunsTyped /\ TableTypeOK BY DEF TypeInv, RunsInv
<1>1. ASSUME NEW p \in Owner, Run(p) \/ IoError(p) \/ Crash(p) PROVE HoldersPublish'
  BY <1>1, HoldersRun
<1>2. ASSUME NEW p \in Owner, NEW s \in {Standing} \cup Other, NEW force \in BOOLEAN,
             Begin(p, s, force)
      PROVE  HoldersPublish'
  <2> DEFINE next == [Idle EXCEPT !.pc = IF force THEN "resolve" ELSE "read_manifest",
                                  !.setting = s, !.seen = video,
                                  !.listed = {slot \in Slot : files[slot] # None}]
  <2>1. next.draft = None /\ next.pc \in {"resolve", "read_manifest"} BY DEF Idle
  <2>2. Set(p, next) /\ UNCHANGED jobs BY <1>2 DEF Begin
  <2> HIDE DEF next
  <2>3. run'[p] = next /\ \A q \in Owner : q # p => run'[q] = run[q]
    BY <1>0, <2>2 DEF Set, RunsTyped
  <2>4. ASSUME NEW q \in Owner, Publishing(q)'
        PROVE  jobs'[Key(q)'].owner = q /\ jobs'[Key(q)'].live = TRUE
    <3>1. Publishes(run'[q]) BY <2>4 DEF Publishing, Publishes, Looking
    <3>2. q # p BY <2>1, <2>3, <3>1 DEF Publishes, Looking
    <3>3. run'[q] = run[q] BY <2>3, <3>2
    <3>4. Publishing(q) /\ Key(q)' = Key(q) BY <3>1, <3>3, RunsPublishing DEF Key
    <3> QED BY <2>2, <3>4 DEF HoldersPublish
  <2> QED BY <2>4 DEF HoldersPublish
<1>3. ASSUME NEW j \in Job, LeaseRunsOut(j) PROVE HoldersPublish'
  <2>1. {j} \in SUBSET Job /\ ExpireAll({j}) /\ run' = run
    BY <1>3 DEF LeaseRunsOut, Expire
  <2>2. ASSUME NEW q \in Owner, Publishing(q)
        PROVE  jobs'[Key(q)].owner = q /\ jobs'[Key(q)].live = TRUE
    <3>1. Key(q) \in Job BY <1>0, <2>2, PublishingRuns
    <3>2. jobs[Key(q)].owner = q /\ jobs[Key(q)].live = TRUE BY <2>2 DEF HoldersPublish
    <3>3. Key(q) # j BY <1>3, <2>2, <3>2 DEF LeaseRunsOut
    <3>4. jobs'[Key(q)] = jobs[Key(q)] BY <1>0, <2>1, <3>1, <3>3, ExpireWrites
    <3> QED BY <3>2, <3>4
  <2>3. \A q \in Owner : Key(q)' = Key(q) /\ (Publishing(q)' <=> Publishing(q))
    BY <2>1 DEF Key, Publishing
  <2> QED BY <2>2, <2>3 DEF HoldersPublish
<1>4. ASSUME UNCHANGED <<run, jobs>> PROVE HoldersPublish'
  <2>1. \A q \in Owner : Key(q)' = Key(q) /\ (Publishing(q)' <=> Publishing(q))
    BY <1>4 DEF Key, Publishing
  <2> QED BY <1>4, <2>1 DEF HoldersPublish
<1>5. CASE Edit BY <1>4, <1>5 DEF Edit
<1>6. ASSUME NEW x \in External, PutExternal(x) PROVE HoldersPublish'
  BY <1>4, <1>6 DEF PutExternal
<1>7. ASSUME NEW v \in Version, ReplaceFilm(v) PROVE HoldersPublish'
  BY <1>4, <1>7 DEF ReplaceFilm
<1>8. CASE UNCHANGED vars BY <1>4, <1>8 DEF vars
<1> QED BY <1>1, <1>2, <1>3, <1>5, <1>6, <1>7, <1>8 DEF Next

\* No process publishes, archives or completes for a job it does not hold at that
\* moment (mod.rs:263-271, state.rs:240-275).
LEMMA PublishersHold == Spec => []HoldersPublish
<1>1. Init => HoldersPublish
  BY IdleTyped DEF Init, HoldersPublish, Publishing, Idle
<1>2. TypeInv /\ HoldersPublish /\ [Next]_vars => HoldersPublish' BY HoldersStep
<1> QED BY <1>1, <1>2, TypeInvariant, PTL DEF Spec

\* Two processes of one job are never both past the renewal that follows the
\* translation (mod.rs:239, 263-271): the second could only get there by a renewal
\* of a job that has one owner, and that is the first.
THEOREM OneProcessPublishes == Spec => []OnePublisherPerJob
<1>1. HoldersPublish => OnePublisherPerJob BY DEF HoldersPublish, OnePublisherPerJob
<1> QED BY <1>1, PublishersHold, PTL

-----------------------------------------------------------------------------
(***************************************************************************)
(* What is made by hand                                                    *)
(***************************************************************************)
\* The output changes only when a draft is uploaded.
LEMMA OutputStays ==
    ASSUME NEW p \in Owner, Run(p) \/ IoError(p) \/ Crash(p)
    PROVE  /\ Upload(p) \/ output' = output
           /\ backups \subseteq backups' /\ hand' = hand
<1>1. CASE Run(p)
  <2>1. CASE \/ ReadManifest(p) \/ HashOutput(p) \/ HashSource(p) \/ ResolveSource(p)
             \/ Acquire(p) \/ Persist(p) \/ ConfirmSource(p)
    BY <2>1 DEF ReadManifest, HashOutput, HashSource, ResolveSource, Acquire, Persist,
                ConfirmSource, fileVars, worldVars, FaultHappens
  <2>2. CASE \/ Translate(p) \/ Guard(p) \/ ReadOutput(p) \/ Archive(p) \/ Upload(p)
             \/ Confirm(p) \/ UploadManifest(p)
    BY <2>2 DEF Translate, Guard, ReadOutput, Archive, Upload, Confirm, UploadManifest,
                fileVars, worldVars
  <2>3. CASE \/ ClaimJob(p) \/ ToAcquiring(p) \/ RenewAcquired(p) \/ ToTranslating(p)
             \/ RenewTranslated(p) \/ ToVerified(p) \/ Complete(p) \/ FailJob(p)
    BY <2>3 DEF ClaimJob, ToAcquiring, RenewAcquired, ToTranslating, RenewTranslated,
                ToVerified, Complete, FailJob, Advance, RenewLease, fileVars, worldVars
  <2> QED BY <1>1, <2>1, <2>2, <2>3 DEF Run
<1>2. CASE IoError(p) \/ Crash(p)
  BY <1>2 DEF IoError, Crash, fileVars, FaultHappens
<1> QED BY <1>1, <1>2

LEMMA HandStep ==
    ASSUME EditRaces = FALSE, TypeInv, HandInv, [Next]_vars PROVE HandInv'
<1>0. RunsTyped /\ RunsInv /\ FilesTyped /\ WorldTyped BY DEF TypeInv, RunsInv
<1>1. ASSUME NEW p \in Owner, Run(p) \/ IoError(p) \/ Crash(p) PROVE HandInv'
  <2>1. Moves(p) BY <1>0, <1>1, RunMoves
  <2>2. /\ Upload(p) \/ output' = output
        /\ backups \subseteq backups' /\ hand' = hand
    BY <1>1, OutputStays
  <2>3. CASE Upload(p)
    <3>1. run[p].pc = "upload" /\ output' = run[p].draft /\ backups' = backups
      BY <2>3 DEF Upload
    <3>2. output' \in Draft BY <1>0, <3>1 DEF RunsTyped, Sound, Drafted
    <3>3. output' # Hand BY <3>2, SubtitleAssumption
    <3>4. output = Hand => Hand \in backups BY <3>1 DEF HandInv
    <3>5. hand => output = Hand \/ Hand \in backups BY DEF HandInv, HandMadeKept
    <3>6. HandMadeKept' BY <2>2, <3>1, <3>4, <3>5 DEF HandMadeKept
    <3> QED BY <3>3, <3>6 DEF HandInv
  <2>4. CASE output' = output
    <3>1. HandMadeKept' BY <2>2, <2>4 DEF HandInv, HandMadeKept
    <3>2. ASSUME NEW q \in Owner, run'[q].pc = "archive", output' = Hand
          PROVE  run'[q].held = Hand \/ Hand \in backups'
      <4>1. CASE q = p
        <5>1. run'[p].held = output BY <3>2, <4>1, <2>1, IdleTyped DEF Moves, Follows
        <5> QED BY <2>4, <3>2, <4>1, <5>1
      <4>2. CASE q # p
        <5>1. run'[q] = run[q] BY <2>1, <4>2 DEF Moves
        <5> QED BY <2>2, <2>4, <3>2, <5>1 DEF HandInv
      <4> QED BY <4>1, <4>2
    <3>3. ASSUME NEW q \in Owner, run'[q].pc = "upload", output' = Hand
          PROVE  Hand \in backups'
      <4>1. CASE q = p
        <5>1. \/ output = None
              \/ run[p].pc = "archive" /\ backups' = backups \cup {run[p].held}
          BY <3>3, <4>1, <2>1, IdleTyped DEF Moves, Follows
        <5>2. Hand # None BY SubtitleAssumption
        <5>3. run[p].pc = "archive" => run[p].held = Hand \/ Hand \in backups
          BY <2>4, <3>3 DEF HandInv
        <5> QED BY <2>4, <3>3, <5>1, <5>2, <5>3
      <4>2. CASE q # p
        <5>1. run'[q] = run[q] BY <2>1, <4>2 DEF Moves
        <5> QED BY <2>2, <2>4, <3>3, <5>1 DEF HandInv
      <4> QED BY <4>1, <4>2
    <3> QED BY <3>1, <3>2, <3>3 DEF HandInv
  <2> QED BY <2>2, <2>3, <2>4
<1>2. ASSUME NEW p \in Owner, NEW s \in {Standing} \cup Other, NEW force \in BOOLEAN,
             Begin(p, s, force)
      PROVE  HandInv'
  <2> DEFINE next == [Idle EXCEPT !.pc = IF force THEN "resolve" ELSE "read_manifest",
                                  !.setting = s, !.seen = video,
                                  !.listed = {slot \in Slot : files[slot] # None}]
  <2>1. next.pc \in {"resolve", "read_manifest"} BY DEF Idle
  <2>2. Set(p, next) /\ UNCHANGED <<output, backups, hand>>
    BY <1>2 DEF Begin, fileVars, worldVars
  <2> HIDE DEF next
  <2>3. run'[p] = next /\ \A q \in Owner : q # p => run'[q] = run[q]
    BY <1>0, <2>2 DEF Set, RunsTyped
  <2> QED BY <2>1, <2>2, <2>3 DEF HandInv, HandMadeKept
<1>3. ASSUME UNCHANGED <<run, output, backups, hand>> PROVE HandInv'
  BY <1>3 DEF HandInv, HandMadeKept
<1>4. ASSUME NEW j \in Job, LeaseRunsOut(j) PROVE HandInv'
  BY <1>3, <1>4 DEF LeaseRunsOut, fileVars, worldVars, FaultHappens
<1>5. CASE Edit
  <2>1. \A p \in Owner : run[p].pc \notin {"archive", "upload"} BY <1>5 DEF Edit
  <2> QED BY <1>5, <2>1 DEF Edit, HandInv, HandMadeKept
<1>6. ASSUME NEW x \in External, PutExternal(x) PROVE HandInv'
  BY <1>3, <1>6 DEF PutExternal
<1>7. ASSUME NEW v \in Version, ReplaceFilm(v) PROVE HandInv'
  BY <1>3, <1>7 DEF ReplaceFilm, fileVars
<1>8. CASE UNCHANGED vars BY <1>3, <1>8 DEF vars
<1> QED BY <1>1, <1>2, <1>4, <1>5, <1>6, <1>7, <1>8 DEF Next

\* A subtitle finished by hand stays the output or is in an archive, whatever
\* runs, settings, crashes and edits come later (mod.rs:297-301, 549-582), unless
\* it is finished between the archive and the upload of a run.
THEOREM HandMadeIsKept ==
    ASSUME EditRaces = FALSE
    PROVE  Spec => []HandMadeKept
<1>1. Init => HandInv BY IdleTyped DEF Init, HandInv, HandMadeKept
<1>2. TypeInv /\ HandInv /\ [Next]_vars => HandInv' BY HandStep
<1>3. HandInv => HandMadeKept BY DEF HandInv
<1> QED BY <1>1, <1>2, <1>3, TypeInvariant, PTL DEF Spec

-----------------------------------------------------------------------------
(***************************************************************************)
(* Where a source comes from                                               *)
(***************************************************************************)
\* The source of a process stays, is dropped, or is one that was resolved or
\* acquired in this step.
LEMMA SourceOf ==
    ASSUME TypeInv, NEW p \in Owner, Run(p) \/ IoError(p) \/ Crash(p)
    PROVE  LET x == run'[p].source
           IN  \/ x \in {run[p].source, None} /\ run'[p].pc # "persist"
               \/ /\ x \in Source
                  /\ x.text.kind = "external" =>
                        \/ English(video, TRUE) = {}
                        \/ x.text.cut = video
                        \/ \E s \in {"embedded", "pgs"} :
                              files[s] # None /\ files[s].cut = x.text.cut
                  /\ run'[p].pc = "persist" => x.text.cut = video /\ SpokenOnly(x.text)
<1>0. RunsTyped /\ RunsInv /\ FilesTyped /\ WorldTyped BY DEF TypeInv, RunsInv
<1>1. Moves(p) /\ run[p] \in RunRecord BY <1>0, RunMoves DEF RunsTyped
<1>2. Idle.pc = "idle" /\ Idle.source = None BY DEF Idle
<1>3. ASSUME NEW s, Set(p, s) PROVE run'[p] = s BY <1>0, <1>3 DEF Set, RunsTyped
<1>4. CASE run'[p] = Idle BY <1>2, <1>4
<1>5. CASE run'[p] # Idle /\ run[p].pc \notin {"resolve", "acquire"}
  BY <1>1, <1>5 DEF Moves, Follows
<1>6. CASE run'[p] # Idle /\ run[p].pc \in {"resolve", "acquire"}
  <2>1. ResolveSource(p) \/ Acquire(p) \/ IoError(p) \/ Crash(p)
    BY <1>6 DEF Run, ReadManifest, HashOutput, HashSource, ClaimJob, ToAcquiring, Persist,
                ConfirmSource, RenewAcquired, ToTranslating, Translate, RenewTranslated,
                ToVerified, Guard, ReadOutput, Archive, Upload, Confirm, UploadManifest,
                Complete, FailJob, Advance, RenewLease
  <2>2. ASSUME Stop(p) PROVE FALSE BY <1>3, <1>6, <2>2 DEF Stop
  <2>3. CASE ResolveSource(p)
    <3>1. PICK x \in Source \cup {None} :
            /\ Set(p, [run[p] EXCEPT !.pc = "claim", !.source = x, !.listed = {}])
            /\ (x \in Source /\ x.text.kind = "external")
                  => \/ English(video, TRUE) = {}
                     \/ x.text.cut = video
                     \/ \E s \in {"embedded", "pgs"} :
                           files[s] # None /\ files[s].cut = x.text.cut
      BY <1>0, <2>2, <2>3, Resolved
    <3>2. run'[p] = [run[p] EXCEPT !.pc = "claim", !.source = x, !.listed = {}]
      BY <1>3, <3>1
    <3>3. run'[p].source = x /\ run'[p].pc = "claim" BY <1>1, <3>2 DEF RunRecord
    <3> QED BY <3>1, <3>3
  <2>4. CASE Acquire(p)
    <3>1. ASSUME NEW n \in {"renew_acquired", "failing"}, Goto(p, n)
          PROVE  run'[p].source = run[p].source /\ run'[p].pc # "persist"
      <4>1. run'[p] = [run[p] EXCEPT !.pc = n] BY <1>3, <3>1 DEF Goto
      <4> QED BY <1>1, <3>1, <4>1 DEF RunRecord
    <3>2. ASSUME NEW t \in Text,
                 Set(p, [run[p] EXCEPT !.pc = "persist",
                           !.source = [text |-> t, path |-> t.kind]]),
                 t.cut = video, t.kind # "external", SpokenOnly(t)
          PROVE  /\ run'[p].source \in Source /\ run'[p].source.text.kind # "external"
                 /\ run'[p].source.text.cut = video /\ SpokenOnly(run'[p].source.text)
      <4> DEFINE x == [text |-> t, path |-> t.kind]
      <4>1. t.kind \in Slot BY DEF Text
      <4>2. x \in Source /\ x.text = t BY <4>1, SourceType
      <4>3. run'[p] = [run[p] EXCEPT !.pc = "persist", !.source = x] BY <1>3, <3>2
      <4> HIDE DEF x
      <4>4. run'[p].source = x BY <1>1, <4>3 DEF RunRecord
      <4> QED BY <3>2, <4>2, <4>4
    <3> QED BY <1>0, <2>4, <3>1, <3>2, Acquired
  <2>5. CASE IoError(p)
    <3> DEFINE next == [Idle EXCEPT !.pc = "failing", !.setting = run[p].setting,
                                    !.seen = run[p].seen]
    <3>1. Set(p, next) BY <2>2, <2>5 DEF IoError
    <3>2. next.pc = "failing" /\ next.source = None BY DEF Idle
    <3> HIDE DEF next
    <3> QED BY <1>3, <3>1, <3>2
  <2> QED BY <2>1, <2>2, <2>3, <2>4, <2>5 DEF Crash
<1> QED BY <1>4, <1>5, <1>6

\* The files beside the film change only when a generated text is persisted.
LEMMA FilesStay ==
    ASSUME TypeInv, NEW p \in Owner, Run(p) \/ IoError(p) \/ Crash(p)
    PROVE  /\ video' = video
           /\ \/ files' = files
              \/ /\ run[p].pc = "persist" /\ run[p].source.text.kind \in Slot
                 /\ files' = [files EXCEPT ![run[p].source.text.kind] = run[p].source.text]
           /\ \/ manifest' = manifest
              \/ /\ run[p].pc = "upload_manifest" /\ run[p].source \in Source
                 /\ manifest'.video = run[p].seen /\ manifest'.source = run[p].source
<1>0. run[p] \in RunRecord /\ Sound(run[p]) BY DEF TypeInv, RunsInv, RunsTyped
<1>1. CASE \/ ReadManifest(p) \/ HashOutput(p) \/ HashSource(p) \/ ResolveSource(p)
           \/ Acquire(p) \/ ConfirmSource(p) \/ Translate(p) \/ Guard(p)
  BY <1>1 DEF ReadManifest, HashOutput, HashSource, ResolveSource, Acquire, ConfirmSource,
              Translate, Guard, fileVars, worldVars, FaultHappens
<1>2. CASE \/ ReadOutput(p) \/ Archive(p) \/ Upload(p) \/ Confirm(p) \/ IoError(p) \/ Crash(p)
  BY <1>2 DEF ReadOutput, Archive, Upload, Confirm, IoError, Crash, fileVars, worldVars,
              FaultHappens
<1>3. CASE \/ ClaimJob(p) \/ ToAcquiring(p) \/ RenewAcquired(p) \/ ToTranslating(p)
           \/ RenewTranslated(p) \/ ToVerified(p) \/ Complete(p) \/ FailJob(p)
  BY <1>3 DEF ClaimJob, ToAcquiring, RenewAcquired, ToTranslating, RenewTranslated,
              ToVerified, Complete, FailJob, Advance, RenewLease, fileVars, worldVars
<1>4. CASE Persist(p)
  <2>1. run[p].source.path = run[p].source.text.kind /\ run[p].source.text \in Text
    BY <1>0, <1>4 DEF Persist, Sound, Sourced, Source
  <2>2. run[p].source.text.kind \in Slot BY <2>1 DEF Text
  <2> QED BY <1>4, <2>1, <2>2 DEF Persist, worldVars
<1>5. CASE UploadManifest(p)
  <2>1. run[p].source \in Source
    BY <1>0, <1>5, SubtitleAssumption DEF UploadManifest, Sound, Drafted
  <2> QED BY <1>5, <2>1 DEF UploadManifest, worldVars
<1> QED BY <1>1, <1>2, <1>3, <1>4, <1>5 DEF Run

LEMMA BeginSets ==
    ASSUME RunsTyped, NEW p \in Owner, NEW s \in {Standing} \cup Other, NEW force \in BOOLEAN,
           Begin(p, s, force)
    PROVE  /\ \A q \in Owner : q # p => run'[q] = run[q]
           /\ run'[p].pc \in {"resolve", "read_manifest"} /\ run'[p].seen = video
           /\ run'[p].source = None /\ UNCHANGED <<video, files, manifest>>
<1> DEFINE next == [Idle EXCEPT !.pc = IF force THEN "resolve" ELSE "read_manifest",
                                !.setting = s, !.seen = video,
                                !.listed = {slot \in Slot : files[slot] # None}]
<1>1. next.pc \in {"resolve", "read_manifest"} /\ next.seen = video /\ next.source = None
  BY DEF Idle
<1>2. Set(p, next) /\ UNCHANGED <<video, files, manifest>> BY DEF Begin, fileVars, worldVars
<1> HIDE DEF next
<1>3. run'[p] = next /\ \A q \in Owner : q # p => run'[q] = run[q]
  BY <1>2 DEF Set, RunsTyped
<1> QED BY <1>1, <1>2, <1>3

LEMMA SpokenStep == ASSUME TypeInv, SpokenInv, [Next]_vars PROVE SpokenInv'
<1>0. RunsTyped /\ RunsInv /\ FilesTyped /\ WorldTyped BY DEF TypeInv, RunsInv
<1>1. ASSUME NEW p \in Owner, Run(p) \/ IoError(p) \/ Crash(p) PROVE SpokenInv'
  <2>1. Moves(p) BY <1>0, <1>1, RunMoves
  <2>2. run'[p].pc = "persist" => SpokenOnly(run'[p].source.text) BY <1>1, SourceOf
  <2>3. \A q \in Owner : run'[q].pc = "persist" => SpokenOnly(run'[q].source.text)
    BY <2>1, <2>2 DEF Moves, SpokenInv
  <2>4. \A s \in Slot : files'[s] # None => SpokenOnly(files'[s])
    BY <1>0, <1>1, FilesStay DEF FilesTyped, SpokenInv
  <2> QED BY <2>3, <2>4 DEF SpokenInv, SpokenOnly
<1>2. ASSUME NEW p \in Owner, NEW s \in {Standing} \cup Other, NEW force \in BOOLEAN,
             Begin(p, s, force)
      PROVE  SpokenInv'
  BY <1>0, <1>2, BeginSets DEF SpokenInv, SpokenOnly
<1>3. ASSUME UNCHANGED <<run, files>> PROVE SpokenInv' BY <1>3 DEF SpokenInv, SpokenOnly
<1>4. ASSUME NEW j \in Job, LeaseRunsOut(j) PROVE SpokenInv'
  BY <1>3, <1>4 DEF LeaseRunsOut, fileVars
<1>5. CASE Edit BY <1>3, <1>5 DEF Edit
<1>6. ASSUME NEW x \in External, PutExternal(x) PROVE SpokenInv'
  <2>1. x.kind = "external" BY AcquisitionAssumption
  <2>2. \A s \in Slot : files'[s] = IF s = "external" THEN x ELSE files[s]
    BY <1>0, <1>6 DEF PutExternal, FilesTyped
  <2>3. SpokenOnly(x) BY <2>1 DEF SpokenOnly
  <2> QED BY <1>6, <2>2, <2>3 DEF PutExternal, SpokenInv, SpokenOnly
<1>7. ASSUME NEW v \in Version, ReplaceFilm(v) PROVE SpokenInv'
  BY <1>3, <1>7 DEF ReplaceFilm, fileVars
<1>8. CASE UNCHANGED vars BY <1>3, <1>8 DEF vars
<1> QED BY <1>1, <1>2, <1>4, <1>5, <1>6, <1>7, <1>8 DEF Next

\* Speech recognition never stands in for an English text track, in whatever cut
\* it was recognised: tracks that cannot be read end the run (mod.rs:963-968).
THEOREM TextBeforeSpeech == Spec => []EmbeddedBeforeSpeech
<1>1. Init => SpokenInv BY IdleTyped DEF Init, SpokenInv
<1>2. TypeInv /\ SpokenInv /\ [Next]_vars => SpokenInv' BY SpokenStep
<1>3. TypeInv /\ SpokenInv => EmbeddedBeforeSpeech
  <2>1. "asr" \in Slot BY DEF Slot
  <2> QED BY <2>1 DEF TypeInv, FilesTyped, SpokenInv, SpokenOnly, EmbeddedBeforeSpeech
<1> QED BY <1>1, <1>2, <1>3, TypeInvariant, PTL DEF Spec

LEMMA CutStep == ASSUME TypeInv, CutInv, [Next]_vars PROVE CutInv'
<1>0. RunsTyped /\ RunsInv /\ FilesTyped /\ WorldTyped BY DEF TypeInv, RunsInv
<1> DEFINE Files(f) == \A s \in {"embedded", "pgs"} : f[s] # None => f[s].cut = First
           Told(m) == m # None => m.video = First /\ Verified(m.source.text)
<1>1. CutInv' <=> (video' = First =>
                     Files(files') /\ (\A p \in Owner : OfFirst(run'[p])) /\ Told(manifest'))
  BY DEF CutInv, OfFirst, Verified
<1>2. video = First =>
        Files(files) /\ (\A p \in Owner : OfFirst(run[p])) /\ Told(manifest)
  BY DEF CutInv
<1>3. ASSUME NEW p \in Owner, Run(p) \/ IoError(p) \/ Crash(p), video' = First
      PROVE  Files(files') /\ (\A q \in Owner : OfFirst(run'[q])) /\ Told(manifest')
  <2>1. Moves(p) BY <1>0, <1>3, RunMoves
  <2>2. video = First BY <1>3, FilesStay
  <2>3. Files(files) /\ (\A q \in Owner : OfFirst(run[q])) /\ Told(manifest) BY <1>2, <2>2
  <2>4. Files(files')
    <3>1. CASE files' = files BY <2>3, <3>1
    <3>2. CASE files' # files
      <4>1. /\ run[p].pc = "persist"
            /\ files' = [files EXCEPT ![run[p].source.text.kind] = run[p].source.text]
        BY <1>3, <3>2, FilesStay
      <4>2. run[p].source.text.cut = First BY <2>3, <4>1 DEF OfFirst
      <4>3. \A s \in {"embedded", "pgs"} : files'[s] \in {files[s], run[p].source.text}
        BY <1>0, <4>1 DEF FilesTyped, Slot
      <4> QED BY <2>3, <4>2, <4>3
    <3> QED BY <3>1, <3>2
  <2>5. Told(manifest')
    <3>1. CASE manifest' = manifest BY <2>3, <3>1
    <3>2. CASE manifest' # manifest
      <4>1. /\ run[p].pc = "upload_manifest" /\ run[p].source \in Source
            /\ manifest'.video = run[p].seen /\ manifest'.source = run[p].source
        BY <1>3, <3>2, FilesStay
      <4>2. run[p].source # None BY <4>1, SubtitleAssumption
      <4>3. run[p].seen = First /\ Verified(run[p].source.text)
        BY <2>3, <4>1, <4>2 DEF OfFirst
      <4> QED BY <4>1, <4>3
    <3> QED BY <3>1, <3>2
  <2>6. OfFirst(run'[p])
    <3>1. run'[p].pc # "idle" => run'[p].seen = First
      BY <2>1, <2>3, IdleTyped DEF Moves, Follows, OfFirst
    <3>2. CASE run'[p].source \in {run[p].source, None} /\ run'[p].pc # "persist"
      BY <2>3, <3>1, <3>2 DEF OfFirst
    <3>3. CASE ~(run'[p].source \in {run[p].source, None} /\ run'[p].pc # "persist")
      <4> DEFINE x == run'[p].source
      <4>1. /\ x.text.kind = "external" =>
                  \/ English(First, TRUE) = {}
                  \/ x.text.cut = First
                  \/ \E s \in {"embedded", "pgs"} :
                        files[s] # None /\ files[s].cut = x.text.cut
            /\ run'[p].pc = "persist" => x.text.cut = First
        BY <1>3, <2>2, <3>3, SourceOf
      <4>2. Verified(x.text) BY <2>3, <4>1 DEF Verified
      <4> QED BY <3>1, <4>1, <4>2 DEF OfFirst
    <3> QED BY <3>2, <3>3
  <2>7. \A q \in Owner : OfFirst(run'[q]) BY <2>1, <2>3, <2>6 DEF Moves
  <2> HIDE DEF Files, Told
  <2> QED BY <2>4, <2>5, <2>7
<1>4. ASSUME NEW p \in Owner, NEW s \in {Standing} \cup Other, NEW force \in BOOLEAN,
             Begin(p, s, force), video' = First
      PROVE  Files(files') /\ (\A q \in Owner : OfFirst(run'[q])) /\ Told(manifest')
  <2>1. /\ \A q \in Owner : q # p => run'[q] = run[q]
        /\ run'[p].pc \in {"resolve", "read_manifest"} /\ run'[p].seen = video
        /\ run'[p].source = None /\ UNCHANGED <<video, files, manifest>>
    BY <1>0, <1>4, BeginSets
  <2>2. Files(files) /\ (\A q \in Owner : OfFirst(run[q])) /\ Told(manifest)
    BY <1>2, <1>4, <2>1
  <2>3. OfFirst(run'[p]) BY <1>4, <2>1 DEF OfFirst
  <2>4. \A q \in Owner : OfFirst(run'[q]) BY <2>1, <2>2, <2>3
  <2> QED BY <2>1, <2>2, <2>4
<1>5. ASSUME UNCHANGED <<video, run, files, manifest>> PROVE CutInv'
  BY <1>1, <1>2, <1>5
<1>6. ASSUME NEW j \in Job, LeaseRunsOut(j) PROVE CutInv'
  BY <1>5, <1>6 DEF LeaseRunsOut, fileVars, worldVars, FaultHappens
<1>7. CASE Edit BY <1>5, <1>7 DEF Edit
<1>8. ASSUME NEW x \in External, PutExternal(x) PROVE CutInv'
  <2>1. files'["embedded"] = files["embedded"] /\ files'["pgs"] = files["pgs"]
    BY <1>0, <1>8 DEF PutExternal, FilesTyped, Slot
  <2>2. UNCHANGED <<video, run, manifest>> BY <1>8 DEF PutExternal
  <2> QED BY <1>1, <1>2, <2>1, <2>2
<1>9. ASSUME NEW v \in Version, ReplaceFilm(v) PROVE CutInv'
  <2>1. v > video /\ video' = v /\ video \in Nat /\ v \in Nat /\ First <= video /\ First \in Nat
    BY <1>0, <1>9, FirstCut, AcquisitionAssumption DEF ReplaceFilm, WorldTyped
  <2>2. video' # First BY <2>1
  <2> QED BY <1>1, <2>2
<1>10. CASE UNCHANGED vars BY <1>5, <1>10 DEF vars
<1> QED BY <1>1, <1>3, <1>4, <1>6, <1>7, <1>8, <1>9, <1>10 DEF Next

\* While the film is the one it was, an external file of another cut is not
\* published for a film whose embedded English can be read (mod.rs:663-699).
THEOREM ExternalIsVerified == Spec => []ExternalVerified
<1>1. Init => CutInv
  <2>1. Idle.pc = "idle" /\ Idle.source = None BY DEF Idle
  <2>2. OfFirst(Idle) BY <2>1 DEF OfFirst
  <2>3. \A s \in {"embedded", "pgs"} : s \in Slot BY DEF Slot
  <2>4. Init => /\ \A p \in Owner : run[p] = Idle
                /\ \A s \in {"embedded", "pgs"} : files[s] = None
                /\ manifest = None
    BY <2>3 DEF Init
  <2> QED BY <2>2, <2>4 DEF CutInv
<1>2. TypeInv /\ CutInv /\ [Next]_vars => CutInv' BY CutStep
<1>3. CutInv => ExternalVerified BY DEF CutInv, Verified, ExternalVerified
<1> QED BY <1>1, <1>2, <1>3, TypeInvariant, PTL DEF Spec
=============================================================================
