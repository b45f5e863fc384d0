----------------------------- MODULE TorrentSearch -----------------------------
(***************************************************************************)
(* Searching torrents: app/routers/search.py over the four sources         *)
(* nyaa.py, subsplease.py, mikan.py and anime_garden.py of app/services.   *)
(*                                                                         *)
(* search_all asks the sources at the same time, each on its own routes;   *)
(* when all have answered, _merge_and_rank makes one list of them, and the *)
(* page gets as many of it as it asked for.  A torrent is what the merge   *)
(* looks at: source, info hash, title key, seeders, fansub and the text of *)
(* its date, by which those that are even otherwise are sorted, the least  *)
(* first.  The sources are asked for a keyword they were not asked before: *)
(* the response cache in front of each is ResponseCache.                   *)
(***************************************************************************)
EXTENDS Integers, Sequences, FiniteSets, SequencesExt, Lists

CONSTANTS
  Hashes,       \* BT info hashes
  NoHash,       \* a torrent of which no hash is known
  TitleKeys,    \* _normalize_title_key of the titles
  NoTitle,      \* the empty key of a title that is all brackets
  MaxSeeders,   \* bound: seeders of a torrent
  MaxFound,     \* bound: torrents of one source
  MaxAlts,      \* alts[:4]: titles SubsPlease is asked for
  TorrentLimit  \* limit, torrents the page asks for

ASSUME TorrentBounds ==
  /\ NoHash \notin Hashes /\ NoTitle \notin TitleKeys
  /\ MaxSeeders \in Nat /\ MaxFound \in Nat
  /\ MaxAlts \in Nat /\ TorrentLimit \in Nat \ {0}

Sources == {"mikan", "anime_garden", "nyaa", "subsplease"}
Torrents == [source : Sources, hash : Hashes \cup {NoHash}, title : TitleKeys \cup {NoTitle},
             seeders : 0..MaxSeeders, fansub : 0..1, date : 0..1]

\* What a source tells of a torrent: Nyaa's table and feed and the feed of
\* SubsPlease give no hash, only Nyaa gives seeders.
TorrentsOf(source) ==
  {t \in Torrents :
     /\ t.source = source
     /\ source \in {"nyaa", "subsplease"} => t.hash = NoHash /\ t.fansub = 0
     /\ source # "nyaa" => t.seeders = 0}

VARIABLES
  chinese,      \* prefer_chinese: the keyword has Chinese or Japanese letters
  found,        \* what each source answered: [Sources -> Seq(Torrents)]
  waiting,      \* the sources that have not answered yet
  missed,       \* history: sources that answered less than a route of theirs had
  ranked,       \* the merged list
  merged        \* it is made

torrentVars == <<chinese, found, waiting, missed, ranked, merged>>

-----------------------------------------------------------------------------
(***************************************************************************)
(* The sources.  A route works, refuses (an HTTP error, 403, 429), or      *)
(* answers 200 with a page that is something else.                         *)
(***************************************************************************)
RouteStates == {"works", "refuses", "garbage"}
Pages == {"page", "mirror page"}
Feeds == {"feed", "mirror feed"}

\* The first of the routes that is not passed over, "none" if all are.
FirstOf(routes, passed) ==
  LET rest == Sift(routes, ToSet(routes) \ passed)
  IN IF rest = <<>> THEN "none" ELSE Head(rest)

In(state, routes) == {r \in DOMAIN routes : routes[r] = state}

\* Nyaa's search_html: a page without a torrent table sends it on to the mirror.
NyaaPage(routes) ==
  FirstOf(<<"page", "mirror page">>, In("refuses", routes) \cup In("garbage", routes))

\* Its search_rss: a feed is whatever answers 200, with no entries if it is none.
NyaaFeed(routes) == FirstOf(<<"feed", "mirror feed">>, In("refuses", routes))

\* A bug the checks must notice: a page that is no search result ends the search.
NyaaGivesUp(routes, torrents) ==
  LET page == FirstOf(<<"page", "mirror page">>, In("refuses", routes))
      feed == NyaaFeed(routes)
  IN IF page # "none" THEN IF routes[page] = "works" THEN torrents ELSE <<>>
     ELSE IF feed # "none" /\ routes[feed] = "works" THEN torrents ELSE <<>>

\* The pages first, the feeds when none of them answers a table.
NyaaAnswer(routes, torrents) ==
  IF NyaaPage(routes) # "none" THEN torrents
  ELSE IF NyaaFeed(routes) # "none" /\ routes[NyaaFeed(routes)] = "works" THEN torrents
  ELSE <<>>

\* Mikan's _fetch: the first base that does not refuse.
MikanFetch(routes) == FirstOf(<<"page", "mirror page">>, In("refuses", routes))

\* Mikan's search_html: rows of its table that have a title.
MikanAnswer(routes, torrents) ==
  LET base == MikanFetch(routes)
  IN IF base # "none" /\ routes[base] = "works" THEN torrents ELSE <<>>

\* AnimeGarden: one JSON route, and an empty result whatever goes wrong.
GardenAnswer(routes, torrents) == IF routes["page"] = "works" THEN torrents ELSE <<>>

\* SubsPlease is asked for one title after the other, one for a keyword it is
\* given as it is; each time its feed is read anew and filtered.
AskLists(k) == [1..k -> [feed : RouteStates,
                         entries : UNION {[1..n -> TorrentsOf("subsplease")] : n \in 0..MaxFound}]]

\* A feed that fails, or is none, has no entries.
AskEntries(ask) == IF ask.feed = "works" THEN ask.entries ELSE <<>>

\* The positions of a list that do not repeat an earlier one (a torrent whose
\* exact title came before is that torrent).
News(list) == Sift([i \in 1..Len(list) |-> i],
                   {i \in 1..Len(list) : \A j \in 1..i - 1 : list[j] # list[i]})

\* A bug the checks must notice: one title that fails empties the answer.
SubsPleaseAllOrNothing(asked) ==
  IF \E i \in DOMAIN asked : asked[i].feed # "works" THEN <<>>
  ELSE Joined([i \in DOMAIN asked |-> AskEntries(asked[i])])

\* _search_sp: what each title found that no earlier one did.
SubsPleaseAnswer(asked) ==
  LET all == Joined([i \in DOMAIN asked |-> AskEntries(asked[i])])
  IN [i \in DOMAIN News(all) |-> all[News(all)[i]]]

SourceAnswer(source, routes, torrents) ==
  CASE source = "nyaa" -> NyaaAnswer(routes, torrents)
    [] source = "mikan" -> MikanAnswer(routes, torrents)
    [] source = "anime_garden" -> GardenAnswer(routes, torrents)

\* The reference: a route that works is come to, whatever routes refuse before
\* it.  A 200 that is something else is passed over among Nyaa's pages, and
\* taken for an empty answer among the feeds and by Mikan.
Reaches(source, routes) ==
  CASE source = "nyaa" ->
         \/ \E r \in Pages : routes[r] = "works"
         \/ (\E r \in Feeds : routes[r] = "works") /\ (\A r \in Feeds : routes[r] # "garbage")
    [] source = "mikan" ->
         (\E r \in Pages : routes[r] = "works") /\ (\A r \in Pages : routes[r] # "garbage")
    [] source = "anime_garden" -> routes["page"] = "works"

\* search_all, one of the other sources of its gather.
AskSource(source, routes, torrents) ==
  /\ source \in waiting \ {"subsplease"}
  /\ found' = [found EXCEPT ![source] = SourceAnswer(source, routes, torrents)]
  /\ waiting' = waiting \ {source}
  /\ missed' = IF Reaches(source, routes) /\ found'[source] # torrents
               THEN missed \cup {source} ELSE missed
  /\ UNCHANGED <<chinese, ranked, merged>>

\* search_all, SubsPlease: once, or for the keyword and its English titles.
AskSubsPlease(asked) ==
  /\ "subsplease" \in waiting
  /\ found' = [found EXCEPT !["subsplease"] =
                  IF chinese THEN SubsPleaseAnswer(asked) ELSE AskEntries(asked[1])]
  /\ waiting' = waiting \ {"subsplease"}
  /\ missed' = IF \E i \in DOMAIN asked :
                     ~(ToSet(AskEntries(asked[i])) \subseteq ToSet(found'["subsplease"]))
               THEN missed \cup {"subsplease"} ELSE missed
  /\ UNCHANGED <<chinese, ranked, merged>>

-----------------------------------------------------------------------------
(***************************************************************************)
(* _merge_and_rank.                                                        *)
(***************************************************************************)
Preferred ==
  IF chinese THEN <<"mikan", "anime_garden", "nyaa", "subsplease">>
  ELSE <<"nyaa", "subsplease", "mikan", "anime_garden">>

\* flat, sorted by source priority (sort is stable).
Flat == Joined([i \in DOMAIN Preferred |-> found[Preferred[i]]])

\* A bug the checks must notice: a known title drops a torrent that has a hash.
KnownByTitle(t, list) ==
  \E u \in ToSet(list) :
    \/ t.hash # NoHash /\ u.hash = t.hash
    \/ t.title # NoTitle /\ u.title = t.title

\* Seen before: by its hash, or without one by its title.
Known(t, list) ==
  \E u \in ToSet(list) :
    \/ t.hash # NoHash /\ u.hash = t.hash
    \/ t.hash = NoHash /\ t.title # NoTitle /\ u.title = t.title

Unseen(list, t) == IF Known(t, list) THEN list ELSE Append(list, t)

Deduplicated(torrents) ==
  LET merge[i \in 0..Len(torrents)] ==
        IF i = 0 THEN <<>> ELSE Unseen(merge[i - 1], torrents[i])
  IN merge[Len(torrents)]

\* The place _rank gives a torrent: seeders, the fansub if it counts, the date.
RankOf(t) == 4 * (MaxSeeders - t.seeders) + (IF chinese /\ t.fansub = 1 THEN 0 ELSE 2) + t.date

\* A stable sort: the torrents of each rank in turn.
Ranked(torrents) ==
  Joined([r \in 1..4 * MaxSeeders + 4 |->
            Sift(torrents, {t \in ToSet(torrents) : RankOf(t) = r - 1})])

\* list[:limit]
Limited(list) == SubSeq(list, 1, IF Len(list) < TorrentLimit THEN Len(list) ELSE TorrentLimit)

\* A bug the checks must notice: the list is cut before it is sorted.
CutFirst ==
  /\ waiting = {} /\ ~merged
  /\ ranked' = Ranked(Limited(Deduplicated(Flat)))
  /\ merged' = TRUE
  /\ UNCHANGED <<chinese, found, waiting, missed>>

\* search_torrents_for_frontend and search_unified, when gather has returned.
MergeAndRank ==
  /\ waiting = {} /\ ~merged
  /\ ranked' = Limited(Ranked(Deduplicated(Flat)))
  /\ merged' = TRUE
  /\ UNCHANGED <<chinese, found, waiting, missed>>

-----------------------------------------------------------------------------
TorrentInit ==
  /\ chinese \in BOOLEAN
  /\ found = [s \in Sources |-> <<>>] /\ waiting = Sources /\ missed = {}
  /\ ranked = <<>> /\ merged = FALSE

\* The sources answer independently; the order among them decides nothing.
NextSource == IF waiting = {} THEN {} ELSE {CHOOSE s \in waiting : TRUE}

TorrentNext ==
  \/ \E source \in NextSource \ {"subsplease"}, routes \in [Pages \cup Feeds -> RouteStates] :
       \E n \in 0..MaxFound : \E torrents \in [1..n -> TorrentsOf(source)] :
         AskSource(source, routes, torrents)
  \/ /\ "subsplease" \in NextSource
     /\ \E k \in (IF chinese THEN 2..MaxAlts ELSE {1}) : \E asked \in AskLists(k) : AskSubsPlease(asked)
  \/ MergeAndRank

TorrentSpec == TorrentInit /\ [][TorrentNext]_torrentVars

-----------------------------------------------------------------------------
(***************************************************************************)
(* Properties.                                                             *)
(***************************************************************************)

TorrentTypeOK ==
  /\ chinese \in BOOLEAN /\ merged \in BOOLEAN
  /\ waiting \subseteq Sources /\ missed \subseteq Sources
  /\ \A s \in Sources : ToSet(found[s]) \subseteq TorrentsOf(s)
  /\ ToSet(ranked) \subseteq Torrents

FoundByAny == UNION {ToSet(found[s]) : s \in Sources}

SameTorrent(t, u) ==
  \/ t = u
  \/ t.hash # NoHash /\ u.hash = t.hash
  \/ t.hash = NoHash /\ t.title # NoTitle /\ u.title = t.title

Priority(source) == CHOOSE i \in DOMAIN Preferred : Preferred[i] = source

\* The torrent that stands for t where two are the same: not of a source that
\* is less preferred.
StandsFor(v, t) == SameTorrent(t, v) /\ Priority(v.source) <= Priority(t.source)

\* It comes first, or may: more seeders, or as many and no worse a fansub.
NoWorse(u, v) ==
  /\ u.seeders >= v.seeders
  /\ u.seeders = v.seeders /\ chinese => u.fansub >= v.fansub

\* Nothing that was found is lost on the way: a source that answers on a route
\* its search comes to is heard, and SubsPlease with what it found for any of
\* its titles; for every torrent of every source the page gets that torrent, by
\* its hash or, without one, by its title, or that of a preferred source that is
\* the same, unless it gets as many as it asked for and none of them is worse
\* than that one; and none twice, the best first.
NoTorrentIsLost ==
  /\ missed = {}
  /\ merged =>
       /\ ToSet(ranked) \subseteq FoundByAny
       /\ \A t \in FoundByAny : \E v \in FoundByAny :
            /\ StandsFor(v, t)
            /\ \/ v \in ToSet(ranked)
               \/ Len(ranked) = TorrentLimit /\ \A u \in ToSet(ranked) : NoWorse(u, v)
       /\ \A i, j \in DOMAIN ranked : i < j =>
            /\ ranked[i].hash = NoHash \/ ranked[i].hash # ranked[j].hash
            /\ NoWorse(ranked[i], ranked[j])
       /\ \A t \in FoundByAny, u \in ToSet(ranked) :
            t.hash # NoHash /\ u.hash = t.hash => Priority(u.source) <= Priority(t.source)

================================================================================
