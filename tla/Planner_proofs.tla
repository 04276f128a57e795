--------------------------- MODULE Planner_proofs ---------------------------
(***************************************************************************)
(* Theorems about Classifier and Planner, for any markers, overrides,      *)
(* names, settings and libraries, and any number of events.                *)
(***************************************************************************)
EXTENDS Planner, TLAPS

-----------------------------------------------------------------------------
(***************************************************************************)
(* What a path tells                                                       *)
(***************************************************************************)
\* A classification has its type.
LEMMA ClassifyType == \A m \in Markers : Classify(m) \in Classification
<1> SUFFICES ASSUME NEW m \in Markers PROVE Classify(m) \in Classification OBVIOUS
<1> USE ClassifierAssumption
<1>1. /\ m.multi # None => m.multi \in [season : Nat, first : Nat, last : Nat]
      /\ m.paired # None => m.paired \in [season : Nat, episode : Nat]
      /\ m.season \in Optional(Nat) /\ m.episode \in Optional(Nat) /\ m.year \in Optional(Nat)
      /\ m.uhd \in BOOLEAN /\ m.title \in Optional(Name)
  BY DEF Markers, Optional
<1>2. \A s \in Optional(Nat), n \in Optional(Nat) : Unknown(s, n, m.uhd) \in Classification
  BY <1>1 DEF Unknown, Classification, Kind, Optional
<1>3. \A s \in Optional(Nat), n \in Optional(Nat), c \in 0 .. 100 :
        Tv(m, s, n, c) \in Classification
  BY <1>1 DEF Tv, Classification, Kind, Optional
<1>4. Movie(m) \in Classification
  BY <1>1 DEF Movie, Classification, Kind, Optional
<1>5. CASE Multi(m)
  <2>1. m.multi.season \in Optional(Nat) /\ m.multi.first \in Optional(Nat)
    BY <1>1, <1>5 DEF Multi, Optional
  <2> QED BY <2>1, <1>2, <1>5 DEF Classify
<1>6. CASE ~Multi(m) /\ Paired(m)
  <2>1. m.paired.season \in Optional(Nat) /\ m.paired.episode \in Optional(Nat)
    BY <1>1, <1>6 DEF Paired, Optional
  <2> QED BY <2>1, <1>3, <1>6 DEF Classify
<1>7. CASE ~Multi(m) /\ ~Paired(m)
  <2>1. None \in Optional(Nat) BY DEF Optional
  <2> QED BY <2>1, <1>1, <1>2, <1>3, <1>4, <1>7 DEF Classify
<1> QED BY <1>5, <1>6, <1>7

\* A path that is not pending has the evidence for what it is taken for.
LEMMA EvidentClass ==
    ASSUME NEW m \in Markers, ~Classify(m).pending
    PROVE  Evident(m, Classify(m))
<1> USE ClassifierAssumption
<1>1. /\ m.paired # None => m.paired \in [season : Nat, episode : Nat]
      /\ m.season \in Optional(Nat) /\ m.episode \in Optional(Nat)
  BY DEF Markers, Optional
<1>2. \A s, n : Unknown(s, n, m.uhd).pending = TRUE BY DEF Unknown
<1>3. \A s, n, c : /\ Tv(m, s, n, c).kind = "tv"
                   /\ Tv(m, s, n, c).season = s /\ Tv(m, s, n, c).episode = n
  BY DEF Tv
<1>4. Movie(m).kind = "movie" /\ Movie(m).year = m.year BY DEF Movie
<1>5. ~Multi(m) BY <1>2 DEF Classify
<1>6. CASE Paired(m)
  <2>1. Classify(m) = Tv(m, m.paired.season, m.paired.episode, 99) BY <1>5, <1>6 DEF Classify
  <2>2. m.paired.season # None /\ m.paired.episode \notin {None, 0}
    BY <1>1, <1>6 DEF Paired
  <2> QED BY <2>1, <2>2, <1>3, <1>5 DEF Evident
<1>7. CASE ~Paired(m) /\ m.season # None /\ m.episode # None /\ m.episode # 0
  <2>1. Classify(m) = Tv(m, m.season, m.episode, 97) BY <1>5, <1>7 DEF Classify
  <2> QED BY <2>1, <1>3, <1>5, <1>7 DEF Evident
<1>8. CASE /\ ~Paired(m) /\ (m.season # None \/ m.episode # None)
           /\ None \in {m.season, m.episode} \/ m.episode = 0
  <2>1. Classify(m) = Unknown(m.season, m.episode, m.uhd) BY <1>5, <1>8 DEF Classify
  <2> QED BY <2>1, <1>2
<1>9. CASE ~Paired(m) /\ m.season = None /\ m.episode = None
  <2>1. Classify(m) = IF Released(m) THEN Movie(m) ELSE Unknown(None, None, m.uhd)
    BY <1>5, <1>9 DEF Classify
  <2>2. Released(m) /\ Classify(m) = Movie(m) BY <2>1, <1>2
  <2> QED BY <2>2, <1>4, <1>5, <1>9 DEF Evident, Released
<1> QED BY <1>6, <1>7, <1>8, <1>9

\* Selections have their type.
LEMMA SelectionType ==
    ASSUME NEW m \in Markers, NEW o \in Optional(MigrationOverride),
           NEW d \in Optional(MetadataOverride)
    PROVE  Selection(m, o, d) \in Classification
<1> USE ClassifierAssumption
<1> DEFINE base == Base(m, o)
<1>1. base \in Classification
  <2>1. CASE o = None BY <2>1, ClassifyType DEF Base
  <2>2. CASE o # None
    <3>1. o \in MigrationOverride BY <2>2 DEF Optional
    <3>2. (IF o.uhd = None THEN FALSE ELSE o.uhd) \in BOOLEAN
      BY <3>1 DEF MigrationOverride, Optional
    <3> DEFINE uhd == IF o.uhd = None THEN FALSE ELSE o.uhd
    <3>4. /\ o.kind \in Kind /\ o.title \in Optional(Name) /\ o.year \in Optional(Nat)
          /\ o.season \in Optional(Nat) /\ o.episode \in Optional(Nat)
      BY <3>1 DEF MigrationOverride, Kind, Optional
    <3> HIDE DEF uhd
    <3>5. uhd \in BOOLEAN BY <3>2 DEF uhd
    <3>6. [kind |-> o.kind, title |-> o.title, year |-> o.year, season |-> o.season,
           episode |-> o.episode, uhd |-> uhd, confidence |-> 100, pending |-> FALSE]
              \in Classification
      BY <3>4, <3>5 DEF Classification
    <3>3. Decided(o, FALSE) \in Classification BY <3>6 DEF Decided, uhd
    <3> QED BY <2>2, <3>3 DEF Base
  <2> QED BY <2>1, <2>2
<1> HIDE DEF base
<1>2. CASE d = None BY <1>1, <1>2 DEF Selection, Overridden, base
<1>3. CASE d # None
  <2>1. d \in MetadataOverride BY <1>3 DEF Optional
  <2>2. [kind |-> d.kind, title |-> None, year |-> None, season |-> d.season,
         episode |-> d.episode, uhd |-> base.uhd, confidence |-> 100, pending |-> FALSE]
            \in Classification
    BY <1>1, <2>1 DEF MetadataOverride, Classification, Kind, Optional
  <2>3. Unknown(d.season, d.episode, base.uhd) \in Classification
    BY <1>1, <2>1 DEF MetadataOverride, Classification, Unknown, Kind, Optional
  <2> QED BY <1>1, <1>3, <2>2, <2>3 DEF Selection, Overridden, base
<1> QED BY <1>2, <1>3

\* Metadata of a selection that could be told, and a plan under the same override,
\* are of one kind and one episode.
LEMMA SelectionAgrees ==
    ASSUME NEW m \in Markers, NEW o \in Optional(MigrationOverride),
           NEW d \in Optional(MetadataOverride),
           ~Selection(m, o, d).pending, ~Planned(m, o).pending
    PROVE  /\ Selection(m, o, d).kind = Planned(m, o).kind
           /\ Planned(m, o).kind = "tv" =>
                 <<Selection(m, o, d).season, Selection(m, o, d).episode>>
                     = <<Planned(m, o).season, Planned(m, o).episode>>
<1> DEFINE base == Base(m, o)
           class == Planned(m, o)
<1>1. /\ base.kind = class.kind /\ base.season = class.season
      /\ base.episode = class.episode /\ base.pending = class.pending
  BY DEF Base, Planned, Decided
<1>2. Selection(m, o, d) = Overridden(base, d) BY DEF Selection
<1> HIDE DEF base
<1>3. CASE d = None BY <1>1, <1>2, <1>3 DEF Overridden
<1>4. CASE d # None
  <2>1. ~base.pending BY <1>1
  <2>2. ~Conflict(base, d)
    BY <1>2, <1>4, <2>1 DEF Overridden, Unknown
  <2>3. Selection(m, o, d) = base BY <1>2, <1>4, <2>1, <2>2 DEF Overridden
  <2> QED BY <1>1, <2>3
<1> QED BY <1>3, <1>4

-----------------------------------------------------------------------------
(***************************************************************************)
(* Types                                                                   *)
(***************************************************************************)
LibraryOK ==
    /\ library.films \in Seq(Film) /\ library.films # <<>>
    /\ library.decisions \subseteq Optional(MigrationOverride)
    /\ library.events \in Nat
    /\ \A j, k \in DOMAIN library.films : library.films[j] = library.films[k] => j = k

\* What the assumption on Library says of the library at hand.
LEMMA LibraryTypes ==
    ASSUME library \in Library
    PROVE  /\ LibraryOK /\ Films \subseteq Film
           /\ Len(library.films) \in Nat \ {0}
           /\ DOMAIN library.films = 1 .. Len(library.films)
           /\ \A k \in 1 .. Len(library.films) : library.films[k] \in Films
<1> DEFINE Shape == [films : Seq(Film) \ {<<>>}, sidecars : SUBSET Sidecar,
                     lacking : SUBSET Film, decisions : SUBSET Optional(MigrationOverride),
                     events : Nat]
<1>0. /\ library \in Shape
      /\ \A j, k \in DOMAIN library.films : library.films[j] = library.films[k] => j = k
  BY PlannerAssumption
<1>1. LibraryOK
  <2>1. /\ library.films \in Seq(Film) \ {<<>>} /\ library.events \in Nat
        /\ library.decisions \in SUBSET Optional(MigrationOverride)
    BY <1>0
  <2> QED BY <1>0, <2>1 DEF LibraryOK
<1>2. Films \subseteq Film BY <1>1 DEF LibraryOK, Films, Elements
<1>3. Len(library.films) \in Nat \ {0} /\ DOMAIN library.films = 1 .. Len(library.films)
  BY <1>1 DEF LibraryOK
<1> QED BY <1>1, <1>2, <1>3 DEF Films, Elements

IsBuild(b) ==
    b = [pc |-> b.pc, config |-> b.config, next |-> b.next, items |-> b.items, listed |-> b.listed]

\* Where the build stands after a film.
LEMMA AdvanceType ==
    ASSUME NEW b, NEW items, b.next \in 1 .. Len(library.films), Len(library.films) \in Nat
    PROVE  /\ IsBuild(Advance(b, items)) /\ Advance(b, items).next = b.next + 1
           /\ Advance(b, items).config = b.config /\ Advance(b, items).items = items
           /\ Advance(b, items).listed = b.listed
           /\ \/ Advance(b, items).pc = "write" /\ b.next = Len(library.films)
              \/ Advance(b, items).pc = "assess" /\ b.next + 1 \in 1 .. Len(library.films)
<1> QED BY DEF Advance, IsBuild

\* To set off to hash changes nothing else.
LEMMA ToHash ==
    ASSUME NEW b, IsBuild(b)
    PROVE  LET h == [b EXCEPT !.pc = "hash"]
           IN  /\ IsBuild(h) /\ h.pc = "hash" /\ h.config = b.config /\ h.next = b.next
               /\ h.items = b.items /\ h.listed = b.listed
<1>1. [b EXCEPT !.pc = "hash"] = [pc |-> "hash", config |-> b.config, next |-> b.next,
                                  items |-> b.items, listed |-> b.listed]
  BY DEF IsBuild
<1> QED BY <1>1 DEF IsBuild

-----------------------------------------------------------------------------
(***************************************************************************)
(* The build                                                               *)
(***************************************************************************)
Sources(items) == {i.source : i \in items}

Seen(b, films) == {films[k] : k \in 1 .. b.next - 1} \cap b.listed

ItemOK(i, c) ==
    /\ i.pending \in {"none", "blocked"}
    /\ i.pending = "none" /\ c.decisions[i.source] = None =>
          Evident(i.source.markers, Class(c, i.source))

\* The items are those of the films up to the next one, each with what it needs.
BuildInv(b, films) ==
    /\ IsBuild(b) /\ b.pc \in {"idle", "assess", "hash", "write"}
    /\ b.pc \in {"assess", "hash"} =>
          b.next \in 1 .. Len(films) /\ Sources(b.items) = Seen(b, films)
    /\ b.pc = "hash" => films[b.next] \in b.listed /\ ~Class(b.config, films[b.next]).pending
    /\ b.pc = "write" => Sources(b.items) = Elements(films) \cap b.listed
    /\ Sources(b.items) \subseteq Elements(films)
    /\ \A i, j \in b.items : i.source = j.source => i = j
    /\ \A i \in b.items : ItemOK(i, b.config)

\* Past a film that was not there, and past one with its item.
LEMMA BuildAdvances ==
    ASSUME NEW items, library \in Library, BuildInv(build, library.films),
           build.pc \in {"assess", "hash"},
           \/ items = build.items /\ library.films[build.next] \notin build.listed
           \/ \E x : /\ items = build.items \cup {x} /\ ItemOK(x, build.config)
                    /\ x.source = library.films[build.next] /\ x.source \in build.listed
    PROVE  BuildInv(Advance(build, items), library.films)
<1> DEFINE films == library.films
           n == build.next
           film == films[n]
           b == Advance(build, items)
<1>1. /\ n \in 1 .. Len(films) /\ Len(films) \in Nat /\ DOMAIN films = 1 .. Len(films)
      /\ \A j, k \in DOMAIN films : films[j] = films[k] => j = k
  BY LibraryTypes DEF BuildInv, LibraryOK
<1>2. /\ IsBuild(b) /\ b.next = n + 1 /\ b.config = build.config /\ b.items = items
      /\ b.listed = build.listed
      /\ \/ b.pc = "write" /\ n = Len(films)
         \/ b.pc = "assess" /\ n + 1 \in 1 .. Len(films)
  BY <1>1, AdvanceType
<1> HIDE DEF b
<1>3. Sources(build.items) = Seen(build, films) BY DEF BuildInv
<1>4. Seen(b, films) = Seen(build, films) \cup ({film} \cap build.listed)
  <2>1. 1 .. (n + 1) - 1 = (1 .. n - 1) \cup {n} BY <1>1
  <2>2. {films[k] : k \in 1 .. (n + 1) - 1} = {films[k] : k \in 1 .. n - 1} \cup {film} BY <2>1
  <2> QED BY <1>2, <2>2 DEF Seen
<1>5. film \notin Seen(build, films)
  <2>1. \A k \in 1 .. n - 1 : k \in DOMAIN films /\ n \in DOMAIN films /\ k # n BY <1>1
  <2>2. \A k \in 1 .. n - 1 : films[k] # film BY <1>1, <2>1
  <2> QED BY <2>2 DEF Seen
<1>6. /\ Sources(items) = Seen(b, films)
      /\ \A i, j \in items : i.source = j.source => i = j
      /\ \A i \in items : ItemOK(i, build.config)
  <2>1. CASE items = build.items /\ film \notin build.listed
    BY <2>1, <1>3, <1>4 DEF BuildInv
  <2>2. CASE \E x : /\ items = build.items \cup {x} /\ ItemOK(x, build.config)
                    /\ x.source = film /\ x.source \in build.listed
    <3>1. PICK x : /\ items = build.items \cup {x} /\ ItemOK(x, build.config)
                   /\ x.source = film /\ x.source \in build.listed
      BY <2>2
    <3>2. Sources(items) = Sources(build.items) \cup {film} BY <3>1 DEF Sources
    <3>3. \A i \in build.items : i.source # film BY <1>3, <1>5 DEF Sources
    <3>4. \A i, j \in items : i.source = j.source => i = j BY <3>1, <3>3 DEF BuildInv
    <3>5. \A i \in items : ItemOK(i, build.config) BY <3>1 DEF BuildInv
    <3> QED BY <3>1, <3>2, <3>4, <3>5, <1>3, <1>4
  <2> QED BY <2>1, <2>2
<1>7. Seen(b, films) \subseteq Elements(films)
  <2>1. b.next - 1 \in 0 .. Len(films) BY <1>1, <1>2
  <2>2. \A k \in 1 .. b.next - 1 : k \in DOMAIN films BY <1>1, <2>1
  <2> QED BY <2>2 DEF Seen, Elements
<1>8. b.pc = "write" => Seen(b, films) = Elements(films) \cap b.listed
  <2>1. SUFFICES ASSUME b.pc = "write" PROVE Seen(b, films) = Elements(films) \cap b.listed
    OBVIOUS
  <2>2. b.next - 1 = Len(films) BY <1>1, <1>2, <2>1
  <2> QED BY <1>1, <2>2 DEF Seen, Elements
<1>9. Sources(b.items) = Seen(b, films) /\ Sources(b.items) \subseteq Elements(films)
  BY <1>2, <1>6, <1>7
<1>10. /\ b.pc \in {"assess", "write"}
       /\ b.pc = "assess" => b.next \in 1 .. Len(films)
       /\ b.pc = "write" => Sources(b.items) = Elements(films) \cap b.listed
  BY <1>2, <1>8, <1>9
<1>11. /\ \A i, j \in b.items : i.source = j.source => i = j
       /\ \A i \in b.items : ItemOK(i, b.config)
  BY <1>2, <1>6
<1> HIDE DEF films
<1>12. BuildInv(b, films) BY <1>2, <1>9, <1>10, <1>11 DEF BuildInv
<1> QED BY <1>12 DEF b, films

\* A build that has not begun, and one that has just begun.
LEMMA BuildBegins ==
    ASSUME library \in Library
    PROVE  /\ BuildInv(Idle, library.films)
           /\ \A there : BuildInv(Begun(there), library.films)
<1>1. IsBuild(Idle) /\ Idle.pc = "idle" /\ Idle.items = {} BY DEF Idle, IsBuild
<1>2. BuildInv(Idle, library.films) BY <1>1 DEF BuildInv, Sources
<1>3. ASSUME NEW there PROVE BuildInv(Begun(there), library.films)
  <2>1. /\ IsBuild(Begun(there)) /\ Begun(there).pc = "assess" /\ Begun(there).next = 1
        /\ Begun(there).items = {}
    BY DEF Begun, IsBuild
  <2>2. 1 \in 1 .. Len(library.films) BY LibraryTypes
  <2>3. Seen(Begun(there), library.films) = {} BY <2>1 DEF Seen
  <2> QED BY <2>1, <2>2, <2>3 DEF BuildInv, Sources
<1> QED BY <1>2, <1>3

\* Every step keeps the invariant of the build.
LEMMA BuildKept ==
    ASSUME library \in Library, BuildInv(build, library.films), [Next]_vars
    PROVE  BuildInv(build, library.films)'
<1> DEFINE film == library.films[build.next]
           Kept(b) == BuildInv(b, library.films)
<1>1. library' = library BY DEF Next, vars, Start, EventHappens, Assess, Hash, Write, Review,
        Preflight, BeginApply, ChangeFile, ChangeSubtitle, LoseMetadata, ChangeSetting,
        Decide, Tamper
<1>2. SUFFICES BuildInv(build', library.films) BY <1>1
<1>3. CASE Start
  <2>1. build' = Idle \/ \E there : build' = Begun(there) BY <1>3 DEF Start
  <2> QED BY <2>1, BuildBegins
<1>4. CASE Assess
  <2>1. CASE film \notin build.listed
    <3>1. build' = Advance(build, build.items) BY <1>4, <2>1 DEF Assess
    <3> QED BY <3>1, <2>1, <1>4, BuildAdvances DEF Assess
  <2>2. CASE film \in build.listed /\ Blocked(build.config, film)
    <3> DEFINE x == Item(film, {}, "blocked")
    <3>1. build' = Advance(build, build.items \cup {x}) BY <1>4, <2>2 DEF Assess
    <3>2. x.source = film /\ ItemOK(x, build.config) BY DEF Item, ItemOK
    <3> HIDE DEF x
    <3> QED BY <3>1, <3>2, <2>2, <1>4, BuildAdvances DEF Assess
  <2>3. CASE film \in build.listed /\ ~Blocked(build.config, film)
    <3>1. build' = [build EXCEPT !.pc = "hash"] BY <1>4, <2>3 DEF Assess
    <3>2. /\ IsBuild(build') /\ build'.pc = "hash" /\ build'.config = build.config
          /\ build'.next = build.next /\ build'.items = build.items
          /\ build'.listed = build.listed
      BY <3>1, ToHash DEF BuildInv
    <3>3. ~Class(build.config, film).pending BY <2>3 DEF Blocked
    <3>4. build.pc = "assess" BY <1>4 DEF Assess
    <3> QED BY <3>2, <3>3, <3>4, <2>3 DEF BuildInv, Seen
  <2> QED BY <2>1, <2>2, <2>3
<1>5. CASE Hash
  <2>1. \/ build' = Idle
        \/ \E a : build' = Advance(build, build.items \cup {Item(film, a, "none")})
    BY <1>5 DEF Hash
  <2>2. ASSUME NEW a, build' = Advance(build, build.items \cup {Item(film, a, "none")})
        PROVE  Kept(build')
    <3> DEFINE x == Item(film, a, "none")
    <3>1. x.source = film BY DEF Item
    <3>2. film \in Film /\ film.markers \in Markers
      <4>1. film \in Film BY <1>5, LibraryTypes DEF BuildInv, Hash
      <4> QED BY <4>1 DEF Film
    <3>3. ~Class(build.config, film).pending /\ film \in build.listed
      BY <1>5 DEF BuildInv, Hash
    <3>4. ItemOK(x, build.config)
      <4>1. build.config.decisions[film] = None =>
              Evident(film.markers, Class(build.config, film))
        BY <3>2, <3>3, EvidentClass DEF Class, Planned
      <4> QED BY <4>1 DEF ItemOK, Item
    <3> HIDE DEF x
    <3> QED BY <1>5, <2>2, <3>1, <3>3, <3>4, BuildAdvances DEF Hash, x
  <2> QED BY <2>1, <2>2, BuildBegins
<1>6. CASE Write
  BY <1>6, BuildBegins DEF Write
<1>7. CASE build' = build BY <1>7
<1> QED BY <1>3, <1>4, <1>5, <1>6, <1>7 DEF Next, vars, Review, Preflight, BeginApply,
      ChangeFile, ChangeSubtitle, LoseMetadata, ChangeSetting, Decide, Tamper

-----------------------------------------------------------------------------
(***************************************************************************)
(* The plan and what is read of it                                         *)
(***************************************************************************)
EvidentItems(document) ==
    \A i \in Ready(document) :
        document.config.decisions[i.source] = None =>
            Evident(i.source.markers, Class(document.config, i.source))

\* What was hashed is sound, whatever the plan file says now.
PlanInv ==
    plan # None =>
        /\ plan = [document |-> plan.document, hash |-> plan.hash]
        /\ Distinct(plan.hash) /\ EvidentItems(plan.hash)

ApplyInv ==
    /\ approved # None => approved.hash = approved.document
    /\ apply = [pc |-> apply.pc, document |-> apply.document, config |-> apply.config,
                left |-> apply.left]
    /\ apply.pc \in {"idle", "preflight", "running"}
    /\ apply.pc # "idle" => Distinct(apply.document) /\ Ready(apply.document) # {}
    /\ apply.pc = "preflight" =>
          apply.document = approved.document /\ apply.config = apply.document.config

\* One pass leaves no two ready items that want one destination.
LEMMA MarkedDistinct ==
    ASSUME NEW c, NEW items
    PROVE  /\ Distinct(Document(c, Marked(items)))
           /\ Ready(Document(c, Marked(items))) \subseteq {i \in items : i.pending = "none"}
<1> DEFINE D == Document(c, Marked(items))
<1>1. D.items = Marked(items) BY DEF Document
<1>2. \A i \in Ready(D) : i \in items /\ i \notin Colliding(items) /\ i.pending = "none"
  <2>1. SUFFICES ASSUME NEW i \in Ready(D)
                 PROVE  i \in items /\ i \notin Colliding(items) /\ i.pending = "none"
    OBVIOUS
  <2>2. i \in Marked(items) /\ i.pending = "none" BY <1>1 DEF Ready
  <2>3. PICK j \in items : i = IF j \in Colliding(items)
                              THEN Item(j.source, {}, "collision") ELSE j
    BY <2>2 DEF Marked
  <2>4. Item(j.source, {}, "collision").pending = "collision" BY DEF Item
  <2>5. j \notin Colliding(items) BY <2>2, <2>3, <2>4
  <2> QED BY <2>2, <2>3, <2>5
<1> HIDE DEF D
<1>3. Distinct(D)
  <2>1. SUFFICES ASSUME NEW i \in Ready(D), NEW j \in Ready(D), NEW a \in i.actions,
                        NEW b \in j.actions, a.destination = b.destination,
                        <<i, a>> # <<j, b>>
                 PROVE  FALSE
    BY DEF Distinct
  <2>2. i \in Colliding(items) BY <1>2, <2>1 DEF Colliding
  <2> QED BY <2>2, <1>2
<1> QED BY <1>2, <1>3 DEF D

\* The plan file keeps the document it was hashed of until it is written anew.
LEMMA PlanKept ==
    ASSUME BuildInv(build, library.films), PlanInv, [Next]_vars
    PROVE  PlanInv'
<1>1. CASE Write
  <2> DEFINE D == Document(build.config, Marked(build.items))
  <2>1. plan' = [document |-> D, hash |-> D] BY <1>1 DEF Write
  <2>2. Distinct(D) /\ Ready(D) \subseteq {i \in build.items : i.pending = "none"}
    BY MarkedDistinct
  <2>3. D.config = build.config BY DEF Document
  <2>4. \A i \in build.items : ItemOK(i, build.config) BY DEF BuildInv
  <2> HIDE DEF D
  <2>5. EvidentItems(D)
    <3>1. SUFFICES ASSUME NEW i \in Ready(D), D.config.decisions[i.source] = None
                   PROVE  Evident(i.source.markers, Class(D.config, i.source))
      BY DEF EvidentItems
    <3>2. i \in build.items /\ i.pending = "none" BY <2>2
    <3> QED BY <3>1, <3>2, <2>3, <2>4 DEF ItemOK
  <2>6. plan'.document = D /\ plan'.hash = D BY <2>1
  <2> QED BY <2>1, <2>2, <2>5, <2>6 DEF PlanInv, Distinct, EvidentItems, Ready
<1>2. CASE Tamper
  <2>1. PICK d : plan' = [plan EXCEPT !.document = d] BY <1>2 DEF Tamper
  <2>2. plan # None BY <1>2 DEF Tamper
  <2>3. plan = [document |-> plan.document, hash |-> plan.hash] BY <2>2 DEF PlanInv
  <2>4. plan' = [document |-> d, hash |-> plan.hash] BY <2>1, <2>3
  <2>5. plan'.document = d /\ plan'.hash = plan.hash BY <2>4
  <2> QED BY <2>2, <2>4, <2>5 DEF PlanInv, Distinct, EvidentItems, Ready
<1>3. CASE plan' = plan BY <1>3 DEF PlanInv, Distinct, EvidentItems, Ready
<1> QED BY <1>1, <1>2, <1>3 DEF Next, vars, Start, Assess, Hash, Review, Preflight,
      BeginApply, ChangeFile, ChangeSubtitle, LoseMetadata, ChangeSetting, Decide

\* An execution keeps to the document that was approved when it began.
LEMMA ApplyKept ==
    ASSUME PlanInv, ApplyInv, [Next]_vars
    PROVE  ApplyInv'
<1>1. CASE Review
  <2>1. /\ approved' = plan /\ apply' = apply /\ apply.pc = "idle"
        /\ plan.hash = plan.document
    BY <1>1 DEF Review, Reads
  <2> QED BY <2>1 DEF ApplyInv
<1>2. CASE \E p \in BOOLEAN : BeginApply(p)
  <2>1. /\ plan # None /\ plan.hash = plan.document /\ plan.document.config = config
        /\ plan.hash = approved.hash /\ approved # None /\ approved' = approved
        /\ Ready(plan.document) # {}
        /\ apply' = [pc |-> "preflight", document |-> plan.document, config |-> config,
                     left |-> Looks(plan.document)]
    BY <1>2 DEF BeginApply, Reads
  <2>2. Distinct(plan.document) BY <2>1 DEF PlanInv
  <2>3. approved.document = plan.document BY <2>1 DEF ApplyInv
  <2>4. /\ apply'.pc = "preflight" /\ apply'.document = plan.document
        /\ apply'.config = config
    BY <2>1
  <2> QED BY <2>1, <2>2, <2>3, <2>4 DEF ApplyInv, Distinct, Ready
<1>3. CASE \E look \in apply.left : Preflight(look)
  <2>1. PICK look \in apply.left : Preflight(look) BY <1>3
  <2>2. approved' = approved /\ apply.pc = "preflight" BY <2>1 DEF Preflight
  <2>3. CASE apply' = NoApply BY <2>2, <2>3 DEF ApplyInv, NoApply
  <2>4. ASSUME NEW left, apply' = [apply EXCEPT !.left = left]
                          \/ apply' = [apply EXCEPT !.pc = "running", !.left = left]
        PROVE  ApplyInv'
    <3>1. \/ apply' = [pc |-> "preflight", document |-> apply.document,
                       config |-> apply.config, left |-> left]
          \/ apply' = [pc |-> "running", document |-> apply.document,
                       config |-> apply.config, left |-> left]
      BY <2>2, <2>4 DEF ApplyInv
    <3>2. /\ apply'.pc \in {"preflight", "running"} /\ apply'.document = apply.document
          /\ apply'.config = apply.config
      BY <3>1
    <3>3. apply' = [pc |-> apply'.pc, document |-> apply'.document,
                    config |-> apply'.config, left |-> apply'.left]
      BY <3>1
    <3> QED BY <2>2, <3>2, <3>3 DEF ApplyInv, Distinct, Ready
  <2> QED BY <2>1, <2>3, <2>4 DEF Preflight
<1>4. CASE UNCHANGED <<approved, apply>> BY <1>4 DEF ApplyInv, Distinct, Ready
<1> QED BY <1>1, <1>2, <1>3, <1>4 DEF Next, vars, Start, Assess, Hash, Write, ChangeFile,
      ChangeSubtitle, LoseMetadata, ChangeSetting, Decide, Tamper

-----------------------------------------------------------------------------
(***************************************************************************)
(* Files, settings and metadata                                            *)
(***************************************************************************)
Made == [selection : Classification, decision : Optional(MigrationOverride)]

WorldOK ==
    /\ library \in Library
    /\ content \in [Files -> {1, 2, Gone}]
    /\ lacking \in SUBSET Films
    /\ metadata \in [Films -> Optional(Made)]
    /\ config \in [setting : Setting, decisions : [Films -> library.decisions]]
    /\ events \in 0 .. library.events

\* Metadata are of a selection that could be told.
MetadataInv ==
    \A f \in Films : metadata[f] # None =>
        /\ metadata[f].selection = Selection(f.markers, metadata[f].decision, f.metadata)
        /\ ~metadata[f].selection.pending
        /\ metadata[f].decision \in Optional(MigrationOverride)

\* The library is never exchanged.
LEMMA LibraryStays == [Next]_vars => library' = library /\ Films' = Films /\ Files' = Files
<1> SUFFICES ASSUME [Next]_vars PROVE library' = library /\ Films' = Films /\ Files' = Files
  OBVIOUS
<1>1. library' = library
  BY DEF Next, vars, Start, EventHappens, Assess, Hash, Write, Review, Preflight,
     BeginApply, ChangeFile, ChangeSubtitle, LoseMetadata, ChangeSetting, Decide, Tamper
<1> QED BY <1>1 DEF Films, Files, Elements

\* What is fetched has its type.
LEMMA FetchedType ==
    ASSUME WorldOK, NEW f \in Films
    PROVE  /\ Fetched(f) \in Made
           /\ Fetched(f).selection = Selection(f.markers, Fetched(f).decision, f.metadata)
           /\ Fetched(f).decision \in Optional(MigrationOverride)
<1>1. f \in Film /\ library.decisions \subseteq Optional(MigrationOverride)
  BY LibraryTypes DEF WorldOK, LibraryOK
<1>2. f.markers \in Markers /\ f.metadata \in Optional(MetadataOverride) BY <1>1 DEF Film
<1>3. config.decisions[f] \in Optional(MigrationOverride) BY <1>1 DEF WorldOK
<1>4. Selection(f.markers, config.decisions[f], f.metadata) \in Classification
  BY <1>2, <1>3, SelectionType
<1> QED BY <1>3, <1>4 DEF Fetched, Made

\* Files, readiness and the configuration keep their types.
LEMMA WorldKept ==
    ASSUME WorldOK, [Next]_vars
    PROVE  WorldOK'
<1>1. library' = library /\ Films' = Films /\ Files' = Files BY LibraryStays
<1>2. library.events \in Nat BY LibraryTypes DEF WorldOK, LibraryOK
<1>3. content' \in [Files -> {1, 2, Gone}]
  <2>1. CASE \E f \in Files, c \in {1, 2, Gone} : ChangeFile(f, c)
    <3>1. PICK f \in Files, c \in {1, 2, Gone} : content' = [content EXCEPT ![f] = c]
      BY <2>1 DEF ChangeFile
    <3> QED BY <3>1 DEF WorldOK
  <2>2. CASE content' = content BY <2>2 DEF WorldOK
  <2> QED BY <2>1, <2>2 DEF Next, vars, Start, Assess, Hash, Write, Review, Preflight,
        BeginApply, ChangeSubtitle, LoseMetadata, ChangeSetting, Decide, Tamper
<1>4. lacking' \in SUBSET Films
  <2>1. CASE \E f \in Films : ChangeSubtitle(f) BY <2>1 DEF ChangeSubtitle, WorldOK
  <2>2. CASE lacking' = lacking BY <2>2 DEF WorldOK
  <2> QED BY <2>1, <2>2 DEF Next, vars, Start, Assess, Hash, Write, Review, Preflight,
        BeginApply, ChangeFile, LoseMetadata, ChangeSetting, Decide, Tamper
<1>5. metadata' \in [Films -> Optional(Made)]
  <2>1. CASE Start
    <3>1. PICK S \in SUBSET Films :
            metadata' = [f \in Films |-> IF config.setting.metadata /\ f \in S
                                        THEN Fetched(f) ELSE metadata[f]]
      BY <2>1 DEF Start
    <3>2. \A f \in Films : metadata'[f] \in Optional(Made)
      BY <3>1, FetchedType DEF WorldOK, Optional
    <3> QED BY <3>1, <3>2
  <2>2. CASE \E f \in Films : LoseMetadata(f)
    BY <2>2 DEF LoseMetadata, WorldOK, Optional
  <2>3. CASE metadata' = metadata BY <2>3 DEF WorldOK
  <2> QED BY <2>1, <2>2, <2>3 DEF Next, vars, Assess, Hash, Write, Review, Preflight,
        BeginApply, ChangeFile, ChangeSubtitle, ChangeSetting, Decide, Tamper
<1>6. config' \in [setting : Setting, decisions : [Films -> library.decisions]]
  <2>1. CASE \E c \in Setting : ChangeSetting(c) BY <2>1 DEF ChangeSetting, WorldOK
  <2>2. CASE \E f \in Films, d \in library.decisions : Decide(f, d)
    <3>1. PICK f \in Films, d \in library.decisions :
            config' = [config EXCEPT !.decisions[f] = d]
      BY <2>2 DEF Decide
    <3>2. [config.decisions EXCEPT ![f] = d] \in [Films -> library.decisions]
      BY DEF WorldOK
    <3>3. config' = [config EXCEPT !.decisions = [config.decisions EXCEPT ![f] = d]]
      BY <3>1 DEF WorldOK
    <3> QED BY <3>2, <3>3 DEF WorldOK
  <2>3. CASE config' = config BY <2>3 DEF WorldOK
  <2> QED BY <2>1, <2>2, <2>3 DEF Next, vars, Start, Assess, Hash, Write, Review,
        Preflight, BeginApply, ChangeFile, ChangeSubtitle, LoseMetadata, Tamper
<1>7. events' \in 0 .. library.events
  <2>1. CASE EventHappens BY <1>2, <2>1 DEF EventHappens, WorldOK
  <2>2. CASE events' = events BY <2>2 DEF WorldOK
  <2> QED BY <2>1, <2>2 DEF Next, vars, Start, Assess, Hash, Write, Review, Preflight,
        BeginApply, ChangeFile, ChangeSubtitle, LoseMetadata, ChangeSetting, Decide, Tamper
<1> QED BY <1>1, <1>3, <1>4, <1>5, <1>6, <1>7 DEF WorldOK

\* Metadata are fetched for what can be told, and lost as a whole.
LEMMA MetadataKept ==
    ASSUME WorldOK, MetadataInv, [Next]_vars
    PROVE  MetadataInv'
<1>1. Films' = Films BY LibraryStays
<1>2. CASE Start
  <2> DEFINE there   == {f \in Files : content[f] # Gone}
             wanting == {f \in there \cap Films : ~f.marked /\ metadata[f] = None}
             fetched == {f \in wanting : ~Fetched(f).selection.pending}
  <2>1. metadata' = [f \in Films |-> IF config.setting.metadata /\ f \in fetched
                                    THEN Fetched(f) ELSE metadata[f]]
    BY <1>2 DEF Start
  <2>2. \A f \in fetched : ~Fetched(f).selection.pending OBVIOUS
  <2> HIDE DEF fetched
  <2>3. ASSUME NEW f \in Films
        PROVE  metadata'[f] = metadata[f]
                \/ (metadata'[f] = Fetched(f) /\ ~Fetched(f).selection.pending)
    BY <2>1, <2>2
  <2> QED BY <1>1, <2>3, FetchedType DEF MetadataInv
<1>3. CASE \E g \in Films : LoseMetadata(g)
  <2>1. PICK g \in Films : metadata' = [metadata EXCEPT ![g] = None] BY <1>3 DEF LoseMetadata
  <2>2. \A f \in Films : metadata'[f] = None \/ metadata'[f] = metadata[f]
    BY <2>1 DEF WorldOK
  <2> QED BY <1>1, <2>2 DEF MetadataInv
<1>4. CASE metadata' = metadata BY <1>1, <1>4 DEF MetadataInv
<1> QED BY <1>2, <1>3, <1>4 DEF Next, vars, Assess, Hash, Write, Review, Preflight,
      BeginApply, ChangeFile, ChangeSubtitle, ChangeSetting, Decide, Tamper

-----------------------------------------------------------------------------
(***************************************************************************)
(* What an execution looks at: the plan is of files of the library, what   *)
(* has been looked at has held what was approved.                          *)
(***************************************************************************)
Furnished(items, files) ==
    \A i \in items :
        /\ \A a \in i.actions : a.source \in files
        /\ i.pending = "none" => i.actions # {}

FilesInv ==
    Furnished(build.items, Files) /\ (plan # None => Furnished(plan.hash.items, Files))

LookInv ==
    /\ held \in [Files -> SUBSET {1, 2, Gone}]
    /\ apply.pc = "preflight" =>
          /\ Furnished(apply.document.items, Files)
          /\ apply.left # {} /\ apply.left \subseteq Looks(apply.document)
          /\ \A f \in Files : content[f] \in held[f]
          /\ \A i \in Ready(apply.document) : \A a \in i.actions :
                 <<i, a>> \in apply.left \/ a.content \in held[a.source]

\* Items are made of files that were found, and the plan of those items.
LEMMA FilesKept ==
    ASSUME library \in Library, BuildInv(build, library.films), PlanInv, FilesInv, [Next]_vars
    PROVE  FilesInv'
<1> DEFINE film == library.films[build.next]
<1>1. Files' = Files BY LibraryStays
<1>2. SUFFICES /\ Furnished(build'.items, Files)
               /\ plan' # None => Furnished(plan'.hash.items, Files)
  BY <1>1 DEF FilesInv, Furnished
<1>3. \A b, items : Advance(b, items).items = items BY DEF Advance
<1>4. Furnished(build.items, Files) BY DEF FilesInv
<1>5. ASSUME build' = Idle \/ \E there : build' = Begun(there)
      PROVE  Furnished(build'.items, Files)
  <2>1. build'.items = {} BY <1>5 DEF Idle, Begun
  <2> QED BY <2>1 DEF Furnished
<1>6. ASSUME Assess PROVE Furnished(build'.items, Files)
  <2>1. CASE build' = Advance(build, build.items) BY <1>3, <1>4, <2>1
  <2>2. CASE build' = Advance(build, build.items \cup {Item(film, {}, "blocked")})
    <3>1. build'.items = build.items \cup {Item(film, {}, "blocked")} BY <1>3, <2>2
    <3> QED BY <1>4, <3>1 DEF Furnished, Item
  <2>3. CASE build' = [build EXCEPT !.pc = "hash"]
    <3>1. build'.items = build.items BY <2>3, ToHash DEF BuildInv
    <3> QED BY <1>4, <3>1
  <2> QED BY <1>6, <2>1, <2>2, <2>3 DEF Assess
<1>7. ASSUME Hash PROVE Furnished(build'.items, Files)
  <2> DEFINE class  == Class(build.config, film)
             target == Destination(build.config.setting, film, class)
             moved  == {film} \cup (Beside(film, class) \cap build.listed)
             to(f)  == IF f = film THEN target ELSE SidecarDestination(film, target, f)
             action(f) == [source |-> f, destination |-> to(f), content |-> content[f]]
             acts == {action(f) : f \in moved}
  <2>1. build' = Idle \/ build' = Advance(build, build.items \cup {Item(film, acts, "none")})
    BY <1>7 DEF Hash
  <2>2. film \in Films
    BY <1>7, LibraryTypes DEF BuildInv, Hash
  <2>3. moved \subseteq Files /\ film \in moved
    BY <2>2 DEF Beside, Files
  <2>4. \A f : action(f).source = f OBVIOUS
  <2> HIDE DEF action, moved
  <2>5. acts # {} /\ \A a \in acts : a.source \in Files
    BY <2>3, <2>4
  <2> HIDE DEF acts
  <2>6. CASE build' = Advance(build, build.items \cup {Item(film, acts, "none")})
    <3>1. build'.items = build.items \cup {Item(film, acts, "none")} BY <1>3, <2>6
    <3> QED BY <1>4, <2>5, <3>1 DEF Furnished, Item
  <2> QED BY <1>5, <2>1, <2>6
<1>8. Furnished(build'.items, Files)
  <2>1. CASE build' = build BY <1>4, <2>1
  <2> QED BY <1>5, <1>6, <1>7, <2>1 DEF Next, vars, Start, Write, Review, Preflight,
        BeginApply, ChangeFile, ChangeSubtitle, LoseMetadata, ChangeSetting, Decide, Tamper
<1>9. plan' # None => Furnished(plan'.hash.items, Files)
  <2>1. CASE Write
    <3>1. plan'.hash.items = Marked(build.items) BY <2>1 DEF Write, Document
    <3> QED BY <1>4, <3>1 DEF Furnished, Marked, Item
  <2>2. CASE Tamper
    <3>1. PICK d : plan' = [plan EXCEPT !.document = d] BY <2>2 DEF Tamper
    <3>2. plan # None /\ plan = [document |-> plan.document, hash |-> plan.hash]
      BY <2>2 DEF Tamper, PlanInv
    <3>3. plan'.hash = plan.hash BY <3>1, <3>2
    <3> QED BY <3>2, <3>3 DEF FilesInv
  <2>3. CASE plan' = plan BY <2>3 DEF FilesInv
  <2> QED BY <2>1, <2>2, <2>3 DEF Next, vars, Start, Assess, Hash, Review, Preflight,
        BeginApply, ChangeFile, ChangeSubtitle, LoseMetadata, ChangeSetting, Decide
<1> QED BY <1>8, <1>9

\* A look is taken off the list when the file holds what was approved.
LEMMA LookKept ==
    ASSUME WorldOK, PlanInv, FilesInv, ApplyInv, LookInv, [Next]_vars
    PROVE  LookInv'
<1>1. Files' = Files BY LibraryStays
<1>2. content \in [Files -> {1, 2, Gone}] BY DEF WorldOK
<1>3. CASE \E p \in BOOLEAN : BeginApply(p)
  <2>1. /\ plan # None /\ plan.hash = plan.document /\ Ready(plan.document) # {}
        /\ apply' = [pc |-> "preflight", document |-> plan.document, config |-> config,
                     left |-> Looks(plan.document)]
        /\ held' = [f \in Files |-> {content[f]}] /\ content' = content
    BY <1>3 DEF BeginApply, Reads
  <2>2. apply'.document = plan.document /\ apply'.left = Looks(plan.document)
    BY <2>1
  <2>3. Furnished(plan.document.items, Files) BY <2>1 DEF FilesInv
  <2>4. \A i \in Ready(plan.document) : \A a \in i.actions : <<i, a>> \in Looks(plan.document)
    BY DEF Looks
  <2>5. Looks(plan.document) # {}
    <3>1. PICK i \in Ready(plan.document) : TRUE BY <2>1
    <3>2. i.actions # {} BY <2>3 DEF Furnished, Ready
    <3> QED BY <2>4, <3>2
  <2>6. /\ held' \in [Files -> SUBSET {1, 2, Gone}]
        /\ \A f \in Files : content[f] \in held'[f]
    BY <1>2, <2>1
  <2> QED BY <1>1, <2>1, <2>2, <2>3, <2>4, <2>5, <2>6 DEF LookInv, Furnished, Ready, Looks
<1>4. CASE \E look \in apply.left : Preflight(look)
  <2>1. PICK look \in apply.left : Preflight(look) BY <1>4
  <2>2. apply.pc = "preflight" /\ content' = content
        /\ held' = IF apply'.pc = "preflight" THEN held ELSE NothingHeld
    BY <2>1 DEF Preflight
  <2>3. NothingHeld \in [Files -> SUBSET {1, 2, Gone}] BY DEF NothingHeld
  <2>4. held' \in [Files -> SUBSET {1, 2, Gone}] BY <2>2, <2>3 DEF LookInv
  <2>5. CASE apply'.pc # "preflight" BY <1>1, <2>4, <2>5 DEF LookInv
  <2>6. CASE apply'.pc = "preflight"
    <3> DEFINE left == apply.left \ {look}
    <3>1. NoApply.pc = "idle" BY DEF NoApply
    <3>2. apply = [pc |-> apply.pc, document |-> apply.document, config |-> apply.config,
                   left |-> apply.left]
      BY DEF ApplyInv
    <3>3. [apply EXCEPT !.pc = "running", !.left = left].pc = "running" BY <3>2
    <3>4. /\ content[look[2].source] = look[2].content /\ left # {}
          /\ apply' = [apply EXCEPT !.left = left]
      BY <2>1, <2>6, <3>1, <3>3 DEF Preflight
    <3>5. apply'.document = apply.document /\ apply'.left = left BY <3>2, <3>4
    <3>6. /\ look[1] \in Ready(apply.document) /\ look[2] \in look[1].actions
          /\ look = <<look[1], look[2]>>
      BY <2>1, <2>2 DEF LookInv, Looks
    <3>7. look[2].source \in Files BY <2>2, <3>6 DEF LookInv, Furnished, Ready
    <3>8. look[2].content \in held[look[2].source] BY <2>2, <3>4, <3>7 DEF LookInv
    <3>9. held' = held BY <2>2, <2>6
    <3>10. ASSUME NEW i \in Ready(apply.document), NEW a \in i.actions
           PROVE  <<i, a>> \in left \/ a.content \in held[a.source]
      BY <2>2, <3>8 DEF LookInv
    <3>11. left \subseteq Looks(apply.document) BY <2>2 DEF LookInv
    <3> HIDE DEF left
    <3> QED BY <1>1, <2>2, <2>4, <3>4, <3>5, <3>9, <3>10, <3>11 DEF LookInv, Furnished, Ready, Looks
  <2> QED BY <2>5, <2>6
<1>5. CASE \E f \in Files, c \in {1, 2, Gone} : ChangeFile(f, c)
  <2>1. PICK f \in Files, c \in {1, 2, Gone} : ChangeFile(f, c) BY <1>5
  <2>2. /\ content' = [content EXCEPT ![f] = c] /\ apply' = apply
        /\ held' = IF apply.pc = "preflight" THEN [held EXCEPT ![f] = @ \cup {c}] ELSE held
    BY <2>1 DEF ChangeFile
  <2>3. held' \in [Files -> SUBSET {1, 2, Gone}] BY <2>2 DEF LookInv
  <2>4. apply.pc = "preflight" => \A g \in Files : content'[g] \in held'[g]
    BY <1>2, <2>2 DEF LookInv
  <2>5. \A g \in Files : held[g] \subseteq held'[g] BY <2>2 DEF LookInv
  <2>6. ASSUME apply.pc = "preflight", NEW i \in Ready(apply.document), NEW a \in i.actions
        PROVE  <<i, a>> \in apply.left \/ a.content \in held'[a.source]
    <3>1. a.source \in Files BY <2>6 DEF LookInv, Furnished, Ready
    <3> QED BY <2>5, <2>6, <3>1 DEF LookInv
  <2> QED BY <1>1, <2>2, <2>3, <2>4, <2>6 DEF LookInv, Furnished, Ready, Looks
<1>6. CASE UNCHANGED <<apply, held, content>>
  BY <1>1, <1>6 DEF LookInv, Furnished, Ready, Looks
<1> QED BY <1>3, <1>4, <1>5, <1>6 DEF Next, vars, Start, Assess, Hash, Write, Review,
      ChangeSubtitle, LoseMetadata, ChangeSetting, Decide, Tamper

-----------------------------------------------------------------------------
(***************************************************************************)
(* The theorems                                                            *)
(***************************************************************************)
IInv ==
    /\ WorldOK /\ MetadataInv
    /\ BuildInv(build, library.films)
    /\ PlanInv /\ ApplyInv /\ FilesInv /\ LookInv

\* The invariant holds at first.
LEMMA InitInv == Init => IInv
<1> SUFFICES ASSUME Init PROVE IInv OBVIOUS
<1>1. library \in Library /\ library.events \in Nat
  BY LibraryTypes DEF Init, LibraryOK
<1>2. WorldOK
  <2>1. /\ content \in [Files -> {1, 2, Gone}] /\ lacking \in SUBSET Films
        /\ events \in 0 .. library.events
    BY <1>1 DEF Init
  <2>2. metadata \in [Films -> Optional(Made)] BY DEF Init, Optional
  <2>3. config \in [setting : Setting, decisions : [Films -> library.decisions]] BY DEF Init
  <2> QED BY <1>1, <2>1, <2>2, <2>3 DEF WorldOK
<1>3. MetadataInv BY DEF Init, MetadataInv
<1>4. BuildInv(build, library.films) BY <1>1, BuildBegins DEF Init
<1>5. PlanInv /\ ApplyInv BY DEF Init, PlanInv, ApplyInv, NoApply
<1>6. FilesInv BY DEF Init, FilesInv, Furnished, Idle
<1>7. LookInv BY DEF Init, LookInv, NoApply, NothingHeld
<1> QED BY <1>2, <1>3, <1>4, <1>5, <1>6, <1>7 DEF IInv

\* Every step keeps it.
LEMMA NextInv == IInv /\ [Next]_vars => IInv'
<1> SUFFICES ASSUME IInv, [Next]_vars PROVE IInv' OBVIOUS
<1>1. WorldOK' /\ MetadataInv' BY WorldKept, MetadataKept DEF IInv
<1>2. BuildInv(build, library.films)' BY BuildKept DEF IInv, WorldOK
<1>3. PlanInv' /\ ApplyInv' BY PlanKept, ApplyKept DEF IInv
<1>4. FilesInv' BY FilesKept DEF IInv, WorldOK
<1>5. LookInv' BY LookKept DEF IInv
<1> QED BY <1>1, <1>2, <1>3, <1>4, <1>5 DEF IInv

\* It is an invariant.
LEMMA Invariant == Spec => []IInv
<1> QED BY InitInv, NextInv, PTL DEF Spec

\* Every variable keeps its type, and a build looks at a film of the library.
THEOREM TypeCorrect == Spec => []TypeOK
<1>1. IInv => TypeOK
  <2> SUFFICES ASSUME IInv PROVE TypeOK OBVIOUS
  <2>1. /\ library \in Library /\ content \in [Files -> {1, 2, Gone}]
        /\ lacking \in SUBSET Films /\ events \in 0 .. library.events
        /\ config \in [setting : Setting, decisions : [Films -> library.decisions]]
    BY DEF IInv, WorldOK
  <2>2. metadata \in [Films -> Optional([selection : Classification,
                                         decision : Optional(MigrationOverride)])]
    BY DEF IInv, WorldOK, Made
  <2>3. /\ build.pc \in {"idle", "assess", "hash", "write"}
        /\ build.pc \in {"assess", "hash"} => build.next \in DOMAIN library.films
    BY <2>1, LibraryTypes DEF IInv, BuildInv
  <2>4. \A i \in build.items : i.source \in Films /\ i.pending \in {"none", "blocked"}
    BY DEF IInv, BuildInv, Sources, ItemOK, Films
  <2>5. /\ apply.pc \in {"idle", "preflight", "running"}
        /\ apply.pc # "idle" => Ready(apply.document) # {}
    BY DEF IInv, ApplyInv
  <2>6. /\ apply.pc = "preflight" => apply.left # {} /\ apply.left \subseteq Looks(apply.document)
        /\ held \in [Files -> SUBSET {1, 2, Gone}]
    BY DEF IInv, LookInv
  <2> QED BY <2>1, <2>2, <2>3, <2>4, <2>5, <2>6 DEF TypeOK
<1> QED BY Invariant, <1>1, PTL

\* A finished build has one item for each film that it listed (build_plan).
THEOREM EveryFilmIsPlanned == Spec => []EveryFilmPlanned
<1>1. IInv => EveryFilmPlanned
  BY DEF IInv, BuildInv, EveryFilmPlanned, Sources, Films
<1> QED BY Invariant, <1>1, PTL

\* No two files of a plan that is read, or executed, go to one destination
\* (mark_destination_collisions).
THEOREM DestinationsAreDistinct == Spec => []DestinationsDistinct
<1>1. IInv => DestinationsDistinct
  BY DEF IInv, PlanInv, ApplyInv, Reads, DestinationsDistinct
<1> QED BY Invariant, <1>1, PTL

\* A film without an override is ready only with the evidence for what it is
\* taken for (classify_path).
THEOREM EvidenceIsComplete == Spec => []EvidenceComplete
<1>1. IInv => EvidenceComplete
  BY DEF IInv, PlanInv, EvidentItems, Reads, EvidenceComplete
<1> QED BY Invariant, <1>1, PTL

\* An execution begins to move only what was approved, after it has seen each file
\* as it was approved; another program may change a file again while the rest is
\* looked at (apply_plan_inner, preflight_plan).
THEOREM ApprovalsHold == Spec => ApprovalHolds
<1> DEFINE HeldOnce(a) == a.content \in held[a.source]
           Held == /\ apply'.document = approved.document
                   /\ apply'.config = approved.document.config
                   /\ \A i \in Ready(approved.document) : \A a \in i.actions : HeldOnce(a)
<1>1. IInv /\ [Next]_vars => [apply.pc # "running" /\ apply'.pc = "running" => Held]_vars
  <2> SUFFICES ASSUME IInv, Next, apply.pc # "running", apply'.pc = "running"
               PROVE  Held
    BY DEF vars
  <2>1. CASE \E look \in apply.left : Preflight(look)
    <3>1. PICK look \in apply.left : Preflight(look) BY <2>1
    <3> DEFINE left == apply.left \ {look}
    <3>2. apply.pc = "preflight" BY <3>1 DEF Preflight
    <3>3. apply = [pc |-> apply.pc, document |-> apply.document, config |-> apply.config,
                   left |-> apply.left]
      BY DEF IInv, ApplyInv
    <3>4. NoApply.pc = "idle" BY DEF NoApply
    <3>5. [apply EXCEPT !.left = left].pc = "preflight" BY <3>2, <3>3
    <3>6. /\ apply' = [apply EXCEPT !.pc = "running", !.left = left]
          /\ content[look[2].source] = look[2].content /\ left = {}
      BY <3>1, <3>4, <3>5 DEF Preflight
    <3>7. apply'.document = apply.document /\ apply'.config = apply.config
      BY <3>3, <3>6
    <3>8. apply.document = approved.document /\ apply.config = apply.document.config
      BY <3>2 DEF IInv, ApplyInv
    <3>9. /\ look[1] \in Ready(apply.document) /\ look[2] \in look[1].actions
          /\ look = <<look[1], look[2]>>
      BY <3>1, <3>2 DEF IInv, LookInv, Looks
    <3>10. look[2].source \in Files BY <3>2, <3>9 DEF IInv, LookInv, Furnished, Ready
    <3>11. HeldOnce(look[2]) BY <3>2, <3>6, <3>10 DEF IInv, LookInv
    <3>12. ASSUME NEW i \in Ready(apply.document), NEW a \in i.actions PROVE HeldOnce(a)
      <4>1. <<i, a>> \in apply.left \/ HeldOnce(a) BY <3>2 DEF IInv, LookInv
      <4>2. <<i, a>> \in apply.left => <<i, a>> = look BY <3>6
      <4>3. <<i, a>> = look => a = look[2] OBVIOUS
      <4> QED BY <3>11, <4>1, <4>2, <4>3
    <3> QED BY <3>7, <3>8, <3>12
  <2>2. CASE \E p \in BOOLEAN : BeginApply(p)
    BY <2>2 DEF BeginApply
  <2>3. CASE apply' = apply BY <2>3
  <2> QED BY <2>1, <2>2, <2>3 DEF Next, Start, Assess, Hash, Write, Review, ChangeFile,
        ChangeSubtitle, LoseMetadata, ChangeSetting, Decide, Tamper
<1> QED BY Invariant, <1>1, PTL DEF Spec, ApprovalHolds

\* Metadata and the plan agree on a film as long as its override stays
\* (select_metadata, apply_override).
THEOREM MetadataAlwaysAgree == Spec => MetadataAgrees
<1> DEFINE film == library.films[build.next]
           class == Class(build.config, film)
           made == metadata[film]
           SetsOff == /\ build.pc = "assess" /\ build'.pc = "hash"
                      /\ build.config.setting.metadata
                      /\ made.decision = build.config.decisions[film]
           Agree == /\ made.selection.kind = class.kind
                    /\ class.kind = "tv" =>
                          <<made.selection.season, made.selection.episode>>
                              = <<class.season, class.episode>>
<1>1. IInv /\ [Next]_vars => [SetsOff => Agree]_vars
  <2> SUFFICES ASSUME IInv, Next, SetsOff PROVE Agree
    BY DEF vars
  <2>1. Assess
    <3>1. ~Start /\ ~Hash /\ ~Write BY DEF Start, Hash, Write
    <3>2. build' # build OBVIOUS
    <3> QED BY <3>1, <3>2 DEF Next, Review, Preflight, BeginApply, ChangeFile,
          ChangeSubtitle, LoseMetadata, ChangeSetting, Decide, Tamper
  <2>2. build.next \in 1 .. Len(library.films) BY DEF IInv, BuildInv
  <2>3. film \in Films /\ film \in Film BY <2>2, LibraryTypes DEF IInv, WorldOK
  <2>4. ~Blocked(build.config, film)
    <3>1. Len(library.films) \in Nat BY LibraryTypes DEF IInv, WorldOK
    <3>2. \A items : Advance(build, items).pc # "hash" BY <2>2, <3>1, AdvanceType
    <3> QED BY <2>1, <3>2 DEF Assess
  <2>5. made # None /\ ~class.pending BY <2>4 DEF Blocked
  <2>6. /\ made.selection = Selection(film.markers, made.decision, film.metadata)
        /\ ~made.selection.pending /\ made.decision \in Optional(MigrationOverride)
    BY <2>3, <2>5 DEF IInv, MetadataInv
  <2>7. class = Planned(film.markers, made.decision) BY DEF Class
  <2>8. film.markers \in Markers /\ film.metadata \in Optional(MetadataOverride)
    BY <2>3 DEF Film
  <2> HIDE DEF film, class, made
  <2>9. /\ Selection(film.markers, made.decision, film.metadata).kind = class.kind
        /\ class.kind = "tv" =>
              <<Selection(film.markers, made.decision, film.metadata).season,
                Selection(film.markers, made.decision, film.metadata).episode>>
                  = <<class.season, class.episode>>
    BY <2>5, <2>6, <2>7, <2>8, SelectionAgrees
  <2> QED BY <2>6, <2>9
<1>2. [][SetsOff => Agree]_vars => MetadataAgrees BY DEF MetadataAgrees
<1> QED BY Invariant, <1>1, <1>2, PTL DEF Spec
=============================================================================
