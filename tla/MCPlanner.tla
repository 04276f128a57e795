----------------------------- MODULE MCPlanner ------------------------------
(***************************************************************************)
(* Module Planner with single films of all markers, once planned, and with *)
(* libraries where names meet, under a few events.                         *)
(***************************************************************************)
EXTENDS Planner

MCName == {"A", "a", "B", "en", "?"}

MCFold == [n \in MCName |-> CASE n = "a" -> "A" [] n = "?" -> None [] OTHER -> n]

MCGroup == [n \in MCName |-> IF n \in {"en", "?"} THEN None ELSE n]

Plain == [multi |-> None, paired |-> None, season |-> None, episode |-> None, year |-> None,
          source |-> FALSE, dated |-> FALSE, uhd |-> FALSE, title |-> "A"]

\* Every pattern for several episodes is one for a season and an episode too.
Numbered ==
    {[multi |-> None, paired |-> None]}
    \cup [multi : {None}, paired : [season : {1}, episode : {0, 1}]]
    \cup {[multi |-> [season |-> 1, first |-> 1, last |-> last],
           paired |-> [season |-> 1, episode |-> 1]] : last \in {1, 2}}

EveryMarkers ==
    {[Plain EXCEPT !.multi = n.multi, !.paired = n.paired, !.season = season,
                   !.episode = episode, !.year = IF released = "no" THEN None ELSE 2019,
                   !.source = source, !.dated = released = "dated", !.uhd = uhd] :
        n \in Numbered, season \in {None, 1}, episode \in {None, 0, 2},
        released \in {"no", "year", "dated"}, source \in BOOLEAN, uhd \in BOOLEAN}

TvOverride(season, episode) ==
    [kind |-> "tv", title |-> "A", year |-> None, season |-> season, episode |-> episode,
     uhd |-> None, untranslated |-> TRUE]

MovieOverride(year) ==
    [kind |-> "movie", title |-> "B", year |-> year, season |-> None, episode |-> None,
     uhd |-> TRUE, untranslated |-> FALSE]

MetadataOverrides ==
    {None, [kind |-> "movie", season |-> None, episode |-> None],
     [kind |-> "tv", season |-> 1, episode |-> 1]}

FilmOf(stem, markers, override) ==
    [stem |-> stem, ext |-> "mkv", markers |-> markers, metadata |-> override, marked |-> FALSE]

Single ==
    {[films |-> <<FilmOf(<<"A">>, m, o)>>, sidecars |-> {}, lacking |-> {},
      decisions |-> {None, TvOverride(1, 1), TvOverride(1, None), MovieOverride(2019)},
      events |-> 1] : m \in EveryMarkers, o \in MetadataOverrides}

Release(title) == [Plain EXCEPT !.year = 2019, !.source = TRUE, !.title = title]

Episode(title, n) == [Plain EXCEPT !.paired = [season |-> 1, episode |-> n], !.title = title]

SidecarOf(stem, markers) == [stem |-> stem, ext |-> "srt", markers |-> markers]

\* Two films of one name but for its case, with a subtitle each.
Cased ==
    [films |-> <<FilmOf(<<"A">>, Release("A"), None), FilmOf(<<"a">>, Release("a"), None)>>,
     sidecars |-> {SidecarOf(<<"A", "en">>, Plain)}, lacking |-> {},
     decisions |-> {None, MovieOverride(2010)}, events |-> 4]

\* Two films that routes bring together, one an edition of the other.
Edition ==
    [films |-> <<FilmOf(<<"A">>, Release("A"), None), FilmOf(<<"A", "B">>, Release("B"), None)>>,
     sidecars |-> {SidecarOf(<<"A", "B", "en">>, Plain)}, lacking |-> {},
     decisions |-> {None}, events |-> 4]

\* Two cuts of one episode, and a subtitle of it under a name of its own.
Cuts ==
    [films |-> <<FilmOf(<<"A">>, Episode("A", 1), None), FilmOf(<<"B">>, Episode("A", 1), None)>>,
     sidecars |-> {SidecarOf(<<"en">>, Episode("A", 1))},
     lacking |-> {}, decisions |-> {None, MovieOverride(2019)}, events |-> 4]

\* An unfinished download beside a film, and what happens to a plan.
Lone ==
    [films |-> <<FilmOf(<<"A">>, Release("A"), None),
                 [FilmOf(<<"B">>, Release("B"), None) EXCEPT !.marked = TRUE]>>,
     sidecars |-> {SidecarOf(<<"A", "en">>, Plain)}, lacking |-> {},
     decisions |-> {None, MovieOverride(2010)}, events |-> 4]

\* A film whose title has no letter that a path may have.
Nameless ==
    [films |-> <<FilmOf(<<"?">>, Release("?"), None)>>, sidecars |-> {}, lacking |-> {},
     decisions |-> {None, MovieOverride(2019)}, events |-> 1]

MCLibrary == Single \cup {Cased, Edition, Cuts, Lone, Nameless}

ByTitle(root) == [root |-> root, directory |-> {"title"}, file |-> {"title", "year"}, recent |-> 2015]

BySource(root) == [root |-> root, directory |-> {"group", "title", "season"}, file |-> {"source"},
                   recent |-> 0]

Layout == {"movie", "tv"} \X BOOLEAN

Titled(confidence) ==
    [layout |-> [l \in Layout |-> IF l[1] = "movie" THEN ByTitle(l) ELSE BySource(l)],
     routes |-> [n \in {"B"} |-> [title |-> "A", group |-> None]], confidence |-> confidence,
     translated |-> TRUE, metadata |-> TRUE]

MCSetting ==
    {Titled(90), Titled(98),
     [layout |-> [l \in Layout |-> [BySource(l) EXCEPT !.directory = {"title"}]],
      routes |-> [n \in {"B"} |-> [title |-> None, group |-> "A"]], confidence |-> 96, translated |-> FALSE, metadata |-> FALSE]}
=============================================================================
