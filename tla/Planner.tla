------------------------------ MODULE Planner -------------------------------
(***************************************************************************)
(* The migration plan: src/migration/planner.rs build_plan and             *)
(* PlanDocument, the metadata prerequisite it starts with                  *)
(* (src/metadata.rs ensure_before), the review of the plan, and how an     *)
(* execution begins (src/migration/executor.rs apply_plan_inner up to the  *)
(* preflight).  What follows the preflight is module Migration.            *)
(*                                                                         *)
(* Between any two steps files change, subtitles and metadata become ready *)
(* or cease to be, the configuration is edited, the plan file is edited or *)
(* written anew.                                                           *)
(*                                                                         *)
(* A stem is the sequence of its parts; Fold joins the names that          *)
(* safe_component, dotify and lower case make equal.  A hash is the        *)
(* content it was computed of.                                             *)
(***************************************************************************)
EXTENDS Classifier, Sequences

CONSTANTS
    Fold,       \* names as they are compared in destinations, None when nothing is left
    Group,      \* alphabet_group of each title, None when it has no letter
    Library,    \* what may lie in the source
    Setting,    \* migration and metadata settings, the overrides apart
    Gone        \* a file that is not there

\* A film: its name, what its path tells, its metadata override, and whether an
\* unfinished download is beside it.
Film ==
    [stem : Seq(Name), ext : STRING, markers : Markers,
     metadata : Optional(MetadataOverride), marked : BOOLEAN]

Sidecar == [stem : Seq(Name), ext : STRING, markers : Markers]

\* The films in the order of their paths, those without subtitles, the migration
\* overrides that may be written for one, and how many events are looked at.
\*
\* A setting is [layout, routes, confidence, translated, metadata]; each layout,
\* [root, directory, file, recent], has its two templates as sets of the fields
\* they use; a route is [title, group].
ASSUME PlannerAssumption ==
    /\ Fold \in [Name -> Optional(Name)] /\ Gone \notin Nat
    /\ \A l \in Library :
          /\ l \in [films : Seq(Film) \ {<<>>}, sidecars : SUBSET Sidecar, lacking : SUBSET Film,
                   decisions : SUBSET Optional(MigrationOverride), events : Nat]
          /\ \A j, k \in DOMAIN l.films : l.films[j] = l.films[k] => j = k

VARIABLES
    library,    \* what lies in the source at first
    content,    \* what each file holds
    lacking,    \* the films without a valid subtitle manifest
    metadata,   \* of each film, the selection its metadata are of and the
                \* override that was in force then, None when there are none
    config,     \* the configuration file: the setting and the overrides
    build,      \* the build: where it is, the configuration it read, its items
    plan,       \* the plan file
    approved,   \* the plan as the operator saw it when he approved its hash
    apply,      \* the execution: where it is, the plan and configuration it read,
                \* the files it has still to look at
    held,       \* history: what each file has held while the execution looked at them
    events

vars ==
    <<library, content, lacking, metadata, config, build, plan, approved, apply, held, events>>

Elements(f) == {f[x] : x \in DOMAIN f}

Films == Elements(library.films)

Files == Films \cup library.sidecars

EventHappens == events < library.events /\ events' = events + 1 /\ UNCHANGED library

-----------------------------------------------------------------------------
(***************************************************************************)
(* destination_for                                                         *)
(***************************************************************************)
\* title_route: a title may be given another name, another group, or both.
Route(c, title) ==
    IF title \in DOMAIN c.routes THEN c.routes[title] ELSE [title |-> None, group |-> None]

Routed(c, title) == IF Route(c, title).title = None THEN title ELSE Route(c, title).title

GroupOf(c, title) ==
    IF Route(c, title).group = None THEN Group[Routed(c, title)] ELSE Route(c, title).group

LayoutOf(c, class) == c.layout[<<class.kind, class.uhd>>]

\* year_bucket: years before recent_year_from are put together by decade.
Bucket(layout, year) == IF year >= layout.recent THEN year ELSE (year \div 10) * 10

Value(c, film, class, field) ==
    CASE field = "title"   -> <<Fold[Routed(c, class.title)]>>
      [] field = "year"    -> <<Bucket(LayoutOf(c, class), class.year)>>
      [] field = "season"  -> <<class.season>>
      [] field = "episode" -> <<class.episode>>
      [] field = "group"   -> <<GroupOf(c, class.title)>>
      [] field = "source"  -> [i \in DOMAIN film.stem |-> Fold[film.stem[i]]]

\* The fields of a template in one order.
Rendered(c, film, class, fields) ==
    LET part(field) == IF field \in fields THEN Value(c, film, class, field) ELSE <<>>
    IN  part("group") \o part("source") \o part("title") \o part("year")
            \o part("season") \o part("episode")

\* The classification has what its layout needs.
Placeable(c, class) ==
    /\ class.title # None /\ Fold[Routed(c, class.title)] # None
    /\ class.kind = "movie" => class.year # None
    /\ class.kind = "tv" => class.season # None /\ class.episode # None
    /\ "group" \in LayoutOf(c, class).directory => GroupOf(c, class.title) # None

Destination(c, film, class) ==
    LET layout == LayoutOf(c, class)
    IN  [root |-> layout.root, directory |-> Rendered(c, film, class, layout.directory),
         stem |-> Rendered(c, film, class, layout.file), ext |-> film.ext]

-----------------------------------------------------------------------------
(***************************************************************************)
(* sidecars_for                                                            *)
(***************************************************************************)
Extends(s, stem) == Len(s) >= Len(stem) /\ SubSeq(s, 1, Len(stem)) = stem

SameEpisode(class, sidecar) ==
    LET other == Classify(sidecar.markers)
    IN  /\ class.kind = "tv" /\ other.kind = "tv"
        /\ <<class.season, class.episode>> = <<other.season, other.episode>>

Beside(film, class) ==
    {s \in library.sidecars : Extends(s.stem, film.stem) \/ SameEpisode(class, s)}

\* A file named after the film is renamed with it, one of its episode keeps its name.
SidecarDestination(film, target, s) ==
    LET folded == [i \in DOMAIN s.stem |-> Fold[s.stem[i]]]
    IN  [target EXCEPT !.ext = s.ext,
           !.stem = IF Extends(s.stem, film.stem)
                    THEN target.stem \o SubSeq(folded, Len(film.stem) + 1, Len(folded))
                    ELSE folded]

-----------------------------------------------------------------------------
(***************************************************************************)
(* build_plan                                                              *)
(***************************************************************************)
\* What the planner takes a film for under the configuration c.
Class(c, film) == Planned(film.markers, c.decisions[film])

Exempt(c, film) == c.decisions[film] # None /\ c.decisions[film].untranslated

Blocked(c, film) ==
    LET class == Class(c, film)
    IN  \/ film.marked
        \/ class.pending \/ class.confidence < c.setting.confidence
        \/ ~Placeable(c.setting, class)
        \/ c.setting.translated /\ ~Exempt(c, film) /\ film \in lacking
        \/ c.setting.metadata /\ metadata[film] = None

Idle == [pc |-> "idle", config |-> None, next |-> 0, items |-> {}, listed |-> {}]

Begun(there) ==
    [pc |-> "assess", config |-> config, next |-> 1, items |-> {}, listed |-> there]

Item(film, actions, reason) == [source |-> film, actions |-> actions, pending |-> reason]

Fetched(film) ==
    [selection |-> Selection(film.markers, config.decisions[film], film.metadata),
     decision |-> config.decisions[film]]

(***************************************************************************)
(* ensure_before: metadata that are valid stay, those that are not are     *)
(* fetched, and one film that cannot be told ends the build.  An override  *)
(* written for the migration does not make metadata invalid.               *)
(***************************************************************************)
Start ==
    /\ build.pc = "idle"
    /\ EventHappens
    /\ LET there   == {f \in Files : content[f] # Gone}
           wanting == {f \in there \cap Films : ~f.marked /\ metadata[f] = None}
           fetched == {f \in wanting : ~Fetched(f).selection.pending}
           ensured == ~config.setting.metadata \/ fetched = wanting
       IN  /\ metadata' = [f \in Films |-> IF config.setting.metadata /\ f \in fetched
                                           THEN Fetched(f) ELSE metadata[f]]
           /\ build' = IF ensured THEN Begun(there) ELSE Idle
    /\ UNCHANGED <<content, lacking, config, plan, approved, apply, held>>

\* Mutant: the build does not stop at the last film.
AdvanceForever(b, items) ==
    [pc |-> "assess", config |-> b.config, next |-> b.next + 1, items |-> items, listed |-> b.listed]

\* Mutant: the last film is never looked at.
AdvanceTooSoon(b, items) ==
    [pc |-> IF b.next >= Len(library.films) - 1 THEN "write" ELSE "assess",
     config |-> b.config, next |-> b.next + 1, items |-> items, listed |-> b.listed]

\* On to the next film.
Advance(b, items) ==
    [pc |-> IF b.next = Len(library.films) THEN "write" ELSE "assess",
     config |-> b.config, next |-> b.next + 1, items |-> items, listed |-> b.listed]

\* Readiness is read before the files are hashed, and they are not locked.
Assess ==
    /\ build.pc = "assess"
    /\ LET film == library.films[build.next]
       IN  build' = CASE film \notin build.listed -> Advance(build, build.items)
                      [] film \in build.listed /\ Blocked(build.config, film) ->
                           Advance(build, build.items \cup {Item(film, {}, "blocked")})
                      [] OTHER -> [build EXCEPT !.pc = "hash"]
    /\ UNCHANGED <<library, content, lacking, metadata, config, plan, approved, apply, held, events>>

\* The film and the files beside it; one that is gone ends the build.
Hash ==
    /\ build.pc = "hash"
    /\ LET film   == library.films[build.next]
           class  == Class(build.config, film)
           target == Destination(build.config.setting, film, class)
           moved  == {film} \cup (Beside(film, class) \cap build.listed)
           to(f)  == IF f = film THEN target ELSE SidecarDestination(film, target, f)
           action(f) == [source |-> f, destination |-> to(f), content |-> content[f]]
       IN  build' = IF \E f \in moved : content[f] = Gone THEN Idle
                    ELSE Advance(build, build.items \cup
                                          {Item(film, {action(f) : f \in moved}, "none")})
    /\ UNCHANGED <<library, content, lacking, metadata, config, plan, approved, apply, held, events>>

Colliding(items) ==
    {i \in items : \E a \in i.actions, j \in items : \E b \in j.actions :
        <<j, b>> # <<i, a>> /\ b.destination = a.destination}

\* Mutant: only the films themselves are compared.
MarkedFilms(items) ==
    LET clash(i) == \E j \in items \ {i}, a \in i.actions : \E b \in j.actions :
                        a.source = i.source /\ b.source = j.source /\ a.destination = b.destination
    IN  {IF clash(i) THEN Item(i.source, {}, "collision") ELSE i : i \in items}

\* mark_destination_collisions
Marked(items) ==
    {IF i \in Colliding(items) THEN Item(i.source, {}, "collision") ELSE i : i \in items}

Document(c, items) == [config |-> c, items |-> items]

\* PlanDocument::new and write
Write ==
    /\ build.pc = "write"
    /\ LET document == Document(build.config, Marked(build.items))
       IN  plan' = [document |-> document, hash |-> document]
    /\ build' = Idle
    /\ UNCHANGED <<library, content, lacking, metadata, config, approved, apply, held, events>>

-----------------------------------------------------------------------------
(***************************************************************************)
(* migrate review and migrate apply                                        *)
(***************************************************************************)
\* PlanDocument::read
Reads(p) == p # None /\ p.hash = p.document

Ready(document) == {i \in document.items : i.pending = "none"}

Review ==
    /\ apply.pc = "idle"
    /\ Reads(plan) /\ plan.document.config = config
    /\ approved' = plan
    /\ UNCHANGED <<library, content, lacking, metadata, config, build, plan, apply, held, events>>

NoApply == [pc |-> "idle", document |-> None, config |-> None, left |-> {}]

NothingHeld == [f \in Files |-> {}]

\* Mutant: the films are looked at, the files beside them are not.
LooksAtFilms(document) ==
    {look \in Ready(document) \X UNION {i.actions : i \in Ready(document)} :
        look[2] \in look[1].actions /\ look[2].source = look[1].source}

\* A look for each file of each ready item: <<item, action>>.
Looks(document) ==
    {look \in Ready(document) \X UNION {i.actions : i \in Ready(document)} :
        look[2] \in look[1].actions}

\* By the order of the plan, and of an item the film last.
Earlier(look, other) ==
    LET place(i) == CHOOSE k \in DOMAIN library.films : library.films[k] = i.source
        last(x) == x[2].source = x[1].source
    IN  \/ place(look[1]) < place(other[1])
        \/ look[1] = other[1] /\ ~last(look) /\ last(other)

\* migrate apply reads the configuration and the plan file, once.
BeginApply(pendingAllowed) ==
    /\ apply.pc = "idle" /\ approved # None
    /\ Reads(plan) /\ plan.document.config = config
    /\ plan.hash = approved.hash
    /\ pendingAllowed \/ Ready(plan.document) = plan.document.items
    /\ Ready(plan.document) # {}
    /\ apply' = [pc |-> "preflight", document |-> plan.document, config |-> config,
                 left |-> Looks(plan.document)]
    /\ held' = [f \in Files |-> {content[f]}]
    /\ UNCHANGED <<library, content, lacking, metadata, config, build, plan, approved, events>>

\* preflight_plan looks at one file after the other, with the world going on in
\* between: a source must hold what was hashed.  No destination is there yet: module
\* Migration has the executions that follow a first one.
Preflight(look) ==
    /\ apply.pc = "preflight"
    /\ \A other \in apply.left : ~Earlier(other, look)
    /\ LET left == apply.left \ {look}
       IN  apply' = CASE content[look[2].source] # look[2].content -> NoApply
                      [] content[look[2].source] = look[2].content /\ left # {} ->
                           [apply EXCEPT !.left = left]
                      [] OTHER -> [apply EXCEPT !.pc = "running", !.left = left]
    /\ held' = IF apply'.pc = "preflight" THEN held ELSE NothingHeld
    /\ UNCHANGED <<library, content, lacking, metadata, config, build, plan, approved, events>>

-----------------------------------------------------------------------------
(***************************************************************************)
(* The world                                                               *)
(***************************************************************************)
ChangeFile(f, c) ==
    /\ EventHappens
    /\ content[f] # c /\ content' = [content EXCEPT ![f] = c]
    /\ held' = IF apply.pc = "preflight" THEN [held EXCEPT ![f] = @ \cup {c}] ELSE held
    /\ UNCHANGED <<lacking, metadata, config, build, plan, approved, apply>>

ChangeSubtitle(film) ==
    /\ EventHappens
    /\ lacking' = IF film \in lacking THEN lacking \ {film} ELSE lacking \cup {film}
    /\ UNCHANGED <<content, metadata, config, build, plan, approved, apply, held>>

LoseMetadata(film) ==
    /\ EventHappens
    /\ metadata[film] # None /\ metadata' = [metadata EXCEPT ![film] = None]
    /\ UNCHANGED <<content, lacking, config, build, plan, approved, apply, held>>

\* Metadata stay: what their manifest is bound to does not change.
ChangeSetting(c) ==
    /\ EventHappens
    /\ config.setting # c /\ config' = [config EXCEPT !.setting = c]
    /\ UNCHANGED <<content, lacking, metadata, build, plan, approved, apply, held>>

Decide(film, decision) ==
    /\ EventHappens
    /\ config.decisions[film] # decision
    /\ config' = [config EXCEPT !.decisions[film] = decision]
    /\ UNCHANGED <<content, lacking, metadata, build, plan, approved, apply, held>>

Rehashed(i) ==
    [i EXCEPT !.actions = {[a EXCEPT !.content = content[a.source]] : a \in i.actions}]

\* The plan file is edited: an item is taken out, or its files are hashed anew,
\* or the plan is made out for the configuration as it is now.
Tamper ==
    /\ plan # None
    /\ EventHappens
    /\ \E document \in
            {[plan.document EXCEPT !.items = plan.document.items \ {i}] : i \in plan.document.items}
            \cup {[plan.document EXCEPT !.items = (plan.document.items \ {i}) \cup {Rehashed(i)}] :
                    i \in plan.document.items}
            \cup {[plan.document EXCEPT !.config = config]} :
        document # plan.document /\ plan' = [plan EXCEPT !.document = document]
    /\ UNCHANGED <<content, lacking, metadata, config, build, approved, apply, held>>

-----------------------------------------------------------------------------
Init ==
    /\ library \in Library
    /\ content = [f \in Files |-> 1]
    /\ lacking = library.lacking \cap Films
    /\ metadata = [f \in Films |-> None]
    /\ config \in [setting : Setting, decisions : [Films -> library.decisions]]
    /\ build = Idle
    /\ plan = None /\ approved = None
    /\ apply = NoApply
    /\ held = NothingHeld
    /\ events = 0

Next ==
    \/ Start \/ Assess \/ Hash \/ Write
    \/ Review
    \/ \E pendingAllowed \in BOOLEAN : BeginApply(pendingAllowed)
    \/ \E look \in apply.left : Preflight(look)
    \/ \E f \in Files, c \in {1, 2, Gone} : ChangeFile(f, c)
    \/ \E film \in Films : ChangeSubtitle(film) \/ LoseMetadata(film)
    \/ \E c \in Setting : ChangeSetting(c)
    \/ \E film \in Films, decision \in library.decisions : Decide(film, decision)
    \/ Tamper

Spec == Init /\ [][Next]_vars

-----------------------------------------------------------------------------
(***************************************************************************)
(* Properties                                                              *)
(***************************************************************************)
\* Where a build is, a film is looked at; an execution has a document.
TypeOK ==
    /\ library \in Library
    /\ content \in [Files -> {1, 2, Gone}]
    /\ lacking \in SUBSET Films
    /\ metadata \in [Films -> Optional([selection : Classification,
                                        decision : Optional(MigrationOverride)])]
    /\ config \in [setting : Setting, decisions : [Films -> library.decisions]]
    /\ build.pc \in {"idle", "assess", "hash", "write"}
    /\ build.pc \in {"assess", "hash"} => build.next \in DOMAIN library.films
    /\ \A i \in build.items : i.source \in Films /\ i.pending \in {"none", "blocked"}
    /\ apply.pc \in {"idle", "preflight", "running"}
    /\ apply.pc # "idle" => Ready(apply.document) # {}
    /\ apply.pc = "preflight" => apply.left # {} /\ apply.left \subseteq Looks(apply.document)
    /\ held \in [Files -> SUBSET {1, 2, Gone}]
    /\ events \in 0 .. library.events

\* A plan has one item for each film that was there when the build listed the
\* source, whatever became of it since: none is left out without a reason
\* (docs/V2_SCOPE_DECISIONS.md: every pending item can be looked up).
EveryFilmPlanned ==
    build.pc = "write" =>
        /\ {i.source : i \in build.items} = Films \cap build.listed
        /\ \A i, j \in build.items : i.source = j.source => i = j

Distinct(document) ==
    \A i, j \in Ready(document) : \A a \in i.actions, b \in j.actions :
        a.destination = b.destination => <<i, a>> = <<j, b>>

\* One pass over the destinations is enough: no two files of the ready items, of
\* one film or of two, have destinations that differ in case or not at all, in
\* a plan that is read and in one that is executed.
DestinationsDistinct ==
    /\ Reads(plan) => Distinct(plan.document)
    /\ apply.pc # "idle" => Distinct(apply.document)

\* What an execution moves is what was approved: the document that was reviewed,
\* under the configuration it was built for, of files each of which has held, at
\* some moment since the execution began, what it held when the plan was built
\* (docs/V2_SCOPE_DECISIONS.md: an approved hash is of no use once plan,
\* configuration or content changed; executor.rs:37-67, 110-142).  A file that
\* changes after it was looked at is met by the executor, in module Migration.
ApprovalHolds ==
    [][apply.pc # "running" /\ apply'.pc = "running" =>
        /\ apply'.document = approved.document
        /\ apply'.config = approved.document.config
        /\ \A i \in Ready(approved.document) : \A a \in i.actions :
               a.content \in held[a.source]]_vars

\* A film that the plan moves has metadata of the kind, season and episode the
\* plan takes it for, unless its migration override was changed after they were
\* fetched: a metadata override does not change the kind of a film (README.md).
MetadataAgrees ==
    [][LET film == library.films[build.next]
           class == Class(build.config, film)
           made == metadata[film]
       IN  /\ build.pc = "assess" /\ build'.pc = "hash"
           /\ build.config.setting.metadata
           /\ made.decision = build.config.decisions[film]
           => /\ made.selection.kind = class.kind
              /\ class.kind = "tv" =>
                    <<made.selection.season, made.selection.episode>>
                        = <<class.season, class.episode>>]_vars

\* What a path without an override may be moved as: an episode, with a season
\* and an episode that is not 0, or a movie, when nothing in the path is a season
\* or an episode, one marker with episode 0 excepted.
Evident(m, class) ==
    \/ /\ class.kind = "tv" /\ ~Multi(m)
       /\ class.season # None /\ class.episode \notin {None, 0}
    \/ /\ class.kind = "movie" /\ class.year # None /\ ~m.dated
       /\ m.season = None /\ m.episode = None /\ ~Multi(m) /\ ~Paired(m)

\* A film without an override is in a plan that is read as ready only with the
\* evidence for what it is taken for (docs/V2_SCOPE_DECISIONS.md: nothing is
\* moved without complete evidence of season and episode).
EvidenceComplete ==
    Reads(plan) => \A i \in Ready(plan.document) :
        plan.document.config.decisions[i.source] = None =>
            Evident(i.source.markers, Class(plan.document.config, i.source))
=============================================================================
