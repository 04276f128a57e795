----------------------------- MODULE Classifier -----------------------------
(***************************************************************************)
(* What a path tells about a film: src/migration/classifier.rs, the        *)
(* overrides of the planner, and those of src/metadata.rs.                 *)
(*                                                                         *)
(* A path is known by its markers, what each regular expression finds in   *)
(* it: [first, last] episodes of a season, a season and an episode in one  *)
(* marker or in two, the release year, the source of the release, a date   *)
(* of broadcast, a 4K label, the title.                                    *)
(*                                                                         *)
(* Each expression reads all of the path or of the name, also what another *)
(* one has found: S01E02-4K is a label and episodes 2 to 4, and 01.4K is   *)
(* no episode 1 where 01 would be.  So the markers of a path with a label  *)
(* are not those of the same path without it; any of them may come with    *)
(* any other, and nothing is assumed of how they depend on one another.    *)
(***************************************************************************)
EXTENDS Naturals

CONSTANTS
    Name,       \* titles
    None        \* a marker that is not there, a field that is not set

ASSUME ClassifierAssumption == None \notin Name /\ None \notin Nat

Optional(S) == S \cup {None}

Kind == {"movie", "tv", "unknown"}

Markers ==
    [multi : Optional([season : Nat, first : Nat, last : Nat]),
     paired : Optional([season : Nat, episode : Nat]),
     season : Optional(Nat), episode : Optional(Nat), year : Optional(Nat),
     source : BOOLEAN, dated : BOOLEAN, uhd : BOOLEAN, title : Optional(Name)]

Classification ==
    [kind : Kind, title : Optional(Name), year : Optional(Nat), season : Optional(Nat),
     episode : Optional(Nat), uhd : BOOLEAN, confidence : 0 .. 100, pending : BOOLEAN]

Unknown(season, episode, uhd) ==
    [kind |-> "unknown", title |-> None, year |-> None, season |-> season,
     episode |-> episode, uhd |-> uhd, confidence |-> 0, pending |-> TRUE]

Tv(m, season, episode, confidence) ==
    [kind |-> "tv", title |-> m.title, year |-> m.year, season |-> season,
     episode |-> episode, uhd |-> m.uhd, confidence |-> confidence, pending |-> FALSE]

Movie(m) ==
    [kind |-> "movie", title |-> m.title, year |-> m.year, season |-> None,
     episode |-> None, uhd |-> m.uhd, confidence |-> 96, pending |-> FALSE]

-----------------------------------------------------------------------------
\* Episodes are counted upwards, or there is only one.
Multi(m) == m.multi # None /\ m.multi.last > m.multi.first

\* A marker with episode 0 is passed over, and nothing else is made of it.
Paired(m) == m.paired # None /\ m.paired.episode # 0

Released(m) == m.year # None /\ m.source /\ ~m.dated

\* Mutant: a release of a film is looked for first.
ClassifyMovieFirst(m) ==
    IF Released(m) THEN Movie(m)
    ELSE IF Paired(m) THEN Tv(m, m.paired.season, m.paired.episode, 99)
    ELSE Unknown(None, None, m.uhd)

\* classify_path: the first rule that applies.
Classify(m) ==
    CASE Multi(m) -> Unknown(m.multi.season, m.multi.first, m.uhd)
      [] ~Multi(m) /\ Paired(m) -> Tv(m, m.paired.season, m.paired.episode, 99)
      [] OTHER ->
         CASE m.season # None /\ m.episode # None /\ m.episode # 0 ->
                Tv(m, m.season, m.episode, 97)
           [] (m.season # None \/ m.episode # None) /\ (None \in {m.season, m.episode} \/ m.episode = 0) ->
                Unknown(m.season, m.episode, m.uhd)
           [] m.season = None /\ m.episode = None ->
                IF Released(m) THEN Movie(m) ELSE Unknown(None, None, m.uhd)

-----------------------------------------------------------------------------
MigrationOverride ==
    [kind : {"movie", "tv"}, title : Name, year : Optional(Nat), season : Optional(Nat),
     episode : Optional(Nat), uhd : Optional(BOOLEAN), untranslated : BOOLEAN]

MetadataOverride == [kind : {"movie", "tv"}, season : Optional(Nat), episode : Optional(Nat)]

\* classification_from_override; the metadata take an unset label for no label.
Decided(o, uhd) ==
    [kind |-> o.kind, title |-> o.title, year |-> o.year, season |-> o.season,
     episode |-> o.episode, uhd |-> IF o.uhd = None THEN uhd ELSE o.uhd,
     confidence |-> 100, pending |-> FALSE]

\* What the planner takes a path for, and what the metadata start from.
Planned(m, o) == IF o = None THEN Classify(m) ELSE Decided(o, m.uhd)

Base(m, o) == IF o = None THEN Classify(m) ELSE Decided(o, FALSE)

Conflict(base, o) ==
    \/ base.kind # o.kind
    \/ o.kind = "tv" /\ <<base.season, base.episode>> # <<o.season, o.episode>>

\* Mutant: the metadata override has the last word.
OverriddenAlways(base, o) ==
    IF o = None THEN base
    ELSE [kind |-> o.kind, title |-> base.title, year |-> base.year, season |-> o.season,
          episode |-> o.episode, uhd |-> base.uhd, confidence |-> 100, pending |-> FALSE]

\* apply_metadata_override
Overridden(base, o) ==
    IF o = None THEN base
    ELSE IF base.pending
    THEN [kind |-> o.kind, title |-> None, year |-> None, season |-> o.season,
          episode |-> o.episode, uhd |-> base.uhd, confidence |-> 100, pending |-> FALSE]
    ELSE IF Conflict(base, o) THEN Unknown(o.season, o.episode, base.uhd)
    ELSE base

\* selection_for
Selection(m, o, metadata) == Overridden(Base(m, o), metadata)
=============================================================================
