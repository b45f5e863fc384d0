------------------------------ MODULE TitleCards ------------------------------
(***************************************************************************)
(* The cards a search shows (search_anime_for_frontend and its fallbacks,  *)
(* app/routers/search.py, with the AniList search of                       *)
(* app/services/anilist.py), and the covers of torrent titles              *)
(* (app/services/cover_resolver.py over title_cover_map).                  *)
(*                                                                         *)
(* A card is made in one request from what the sources answer it.  A cover *)
(* is looked up, resolved over the network and stored, and resolves of the *)
(* same title overlap: the calendar and any number of pages ask for it.    *)
(***************************************************************************)
EXTENDS Integers, Sequences, FiniteSets, SequencesExt, Lists

CONSTANTS
  Terms,        \* names a show may be searched by
  NoTerm,       \* an empty name
  CardChannels, \* ids of the channels
  CardTitles,   \* normalized titles of channel hits
  MaxHits,      \* bound: hits of the channels
  CardLimit,    \* limit of the request (1..30, 12 by default)
  Resolves,     \* titles being resolved at one time, all with the same hash
  MissRetry     \* MISS_RETRY_SECONDS, in ticks

ASSUME CardBounds ==
  /\ NoTerm \notin Terms \cup CardTitles
  /\ MaxHits \in Nat /\ CardLimit \in Nat \ {0} /\ MissRetry \in Nat

PerChannel == 2

Names == [name : Terms \cup {NoTerm}, nameCn : Terms \cup {NoTerm}]
Hits == [channel : CardChannels, title : CardTitles \cup {NoTerm}, place : 0..1]

VARIABLES
  world,      \* what the sources would answer the request
  cards,      \* its answer: [from, list], from "nobody" before
  cover,      \* the row of title_cover_map: [what, age]
  resolving,  \* the resolves under way
  older       \* history: those under way when the cover was stored

cardVars == <<world, cards>>
coverVars == <<cover, resolving, older>>
titleVars == <<world, cards, cover, resolving, older>>

-----------------------------------------------------------------------------
(***************************************************************************)
(* AniList.                                                                *)
(***************************************************************************)

\* The terms _search_uncached tries: the keyword and, for a Chinese one that
\* finds nothing, the names of the Bangumi hits, the original name first.
TriedTerms(keyword, names) ==
  <<keyword>> \o
  Sift(Joined([i \in DOMAIN names |-> <<names[i].name, names[i].nameCn>>]), Terms)

\* A bug the checks must notice: only the first of the terms is tried.
AnilistOnce(keyword, names, known) == IF keyword \in known THEN <<keyword>> ELSE <<>>

\* _search_uncached: the hits of the first term AniList knows.  (_do_search
\* answers no items whatever goes wrong, and search keeps that answer like any
\* other for six hours: "known" is what AniList answers then, failures and
\* answers of up to six hours ago included.)
AnilistSearch(keyword, names, known) ==
  LET hits == Sift(TriedTerms(keyword, names), known)
  IN IF hits = <<>> THEN <<>> ELSE <<Head(hits)>>

-----------------------------------------------------------------------------
(***************************************************************************)
(* Hits of the channels.                                                   *)
(***************************************************************************)

\* One hit of a channel for a title, and none without a title.
Distinct(list, h) ==
  IF h.title = NoTerm \/ \E g \in ToSet(list) : g.channel = h.channel /\ g.title = h.title
  THEN list ELSE Append(list, h)

DistinctHits(hits) ==
  LET distinct[i \in 0..Len(hits)] ==
        IF i = 0 THEN <<>> ELSE Distinct(distinct[i - 1], hits[i])
  IN distinct[Len(hits)]

\* Those that contain the keyword, and Chinese titles, come first.  (Then by
\* channel and title, which no property tells apart.)
SortedHits(hits) ==
  Sift(hits, {h \in ToSet(hits) : h.place = 0}) \o Sift(hits, {h \in ToSet(hits) : h.place = 1})

OfChannel(list, c) == Sift(list, {h \in Hits : h.channel = c})

\* At most PerChannel hits of a channel, and CardLimit in all.
Taken(list, h) ==
  IF Len(OfChannel(list, h.channel)) >= PerChannel \/ Len(list) >= CardLimit
  THEN list ELSE Append(list, h)

Capped(hits) ==
  LET capped[i \in 0..Len(hits)] == IF i = 0 THEN <<>> ELSE Taken(capped[i - 1], hits[i])
  IN capped[Len(hits)]

\* _channel_hits_to_anime.
ChannelCards(hits) == Capped(SortedHits(DistinctHits(hits)))

-----------------------------------------------------------------------------
\* search_anime_for_frontend: Bangumi, then AniList, then the channels.
MakeCards ==
  /\ cards.from = "nobody"
  /\ cards' =
       LET anilist == AnilistSearch(world.keyword, world.names, world.known)
           channels == ChannelCards(world.hits)
       IN IF world.bangumi # <<>> THEN [from |-> "bangumi", list |-> world.bangumi]
          ELSE IF anilist # <<>> THEN [from |-> "anilist", list |-> anilist]
          ELSE IF channels # <<>> THEN [from |-> "channels", list |-> channels]
          ELSE [from |-> "error", list |-> <<>>]
  /\ UNCHANGED <<world, coverVars>>

-----------------------------------------------------------------------------
(***************************************************************************)
(* Covers.                                                                 *)
(***************************************************************************)

\* A bug the checks must notice: a cover is resolved again.
ShouldRetryAlways == TRUE

\* _should_retry_miss: no row, or a miss that is old.
ShouldRetryMiss == cover.what = "none" \/ (cover.what = "miss" /\ cover.age >= MissRetry)

\* resolve_titles reads the rows of all its titles, and then resolves one after
\* the other; with force_refresh it does not wait for a miss to get old.
BeginResolve(r, force) ==
  /\ r \notin resolving
  /\ ShouldRetryMiss \/ (force /\ cover.what = "miss")
  /\ resolving' = resolving \cup {r}
  /\ UNCHANGED <<cover, older, cardVars>>

\* A variant of the title finds a Bangumi subject with a cover, or AniList
\* knows one or leads to one: upsert_title_cover.
CoverFound(r) ==
  /\ r \in resolving
  /\ resolving' = resolving \ {r}
  /\ cover' = [what |-> "cover", age |-> 0]
  /\ older' = IF cover.what = "cover" THEN older \ {r} ELSE resolving \ {r}
  /\ UNCHANGED cardVars

\* Neither does, or neither answers: the miss is stored over whatever is there.
CoverMissed(r) ==
  /\ r \in resolving
  /\ resolving' = resolving \ {r}
  /\ cover' = [what |-> "miss", age |-> 0]
  /\ older' = older \ {r}
  /\ UNCHANGED cardVars

\* The request is over before, with its process.
ResolveEnds(r) ==
  /\ r \in resolving
  /\ resolving' = resolving \ {r}
  /\ older' = older \ {r}
  /\ UNCHANGED <<cover, cardVars>>

CoverTick ==
  /\ cover.what # "none" /\ cover.age < MissRetry
  /\ cover' = [cover EXCEPT !.age = @ + 1]
  /\ UNCHANGED <<resolving, older, cardVars>>

-----------------------------------------------------------------------------
SeqsUpTo(S, n) == UNION {[1..i -> S] : i \in 0..n}

\* The worlds a request may meet.  (The Bangumi names AniList is tried with are
\* of another search, with a limit of its own, and may be there when the cards'
\* search had none; the keyword is Chinese, or there are none.)
Worlds ==
  [keyword : Terms, bangumi : SeqsUpTo(Terms, 1), names : SeqsUpTo(Names, 1),
   known : SUBSET Terms, hits : SeqsUpTo(Hits, MaxHits)]

CoverInit == cover = [what |-> "none", age |-> 0] /\ resolving = {} /\ older = {}

TitleInit ==
  /\ world \in Worlds
  /\ cards = [from |-> "nobody", list |-> <<>>]
  /\ CoverInit

CoverNext ==
  \/ \E r \in Resolves, force \in BOOLEAN : BeginResolve(r, force)
  \/ \E r \in Resolves : CoverFound(r) \/ CoverMissed(r) \/ ResolveEnds(r)
  \/ CoverTick

TitleNext == MakeCards \/ CoverNext

TitleSpec == TitleInit /\ [][TitleNext]_titleVars

-----------------------------------------------------------------------------
(***************************************************************************)
(* Properties.                                                             *)
(***************************************************************************)

TitleTypeOK ==
  /\ cards.from \in {"nobody", "bangumi", "anilist", "channels", "error"}
  /\ cover \in [what : {"none", "miss", "cover"}, age : 0..MissRetry]
  /\ resolving \subseteq Resolves /\ older \subseteq Resolves

UsableHits == {h \in ToSet(world.hits) : h.title # NoTerm}

\* A search shows a card whenever anything it asks has one: "bangumi
\* unavailable" is answered only when Bangumi, AniList under every name known
\* for it, and the channels have nothing; and the fallback on the channels
\* leaves out a usable hit only for PerChannel others of the same channel or
\* for a full page.
NoCardIsLost ==
  /\ cards.from = "error" =>
       /\ world.bangumi = <<>> /\ UsableHits = {}
       /\ world.keyword \notin world.known
       /\ \A n \in ToSet(world.names) : n.name \notin world.known /\ n.nameCn \notin world.known
  /\ cards.from = "channels" =>
       \A h \in UsableHits :
         \/ \E g \in ToSet(cards.list) : g.channel = h.channel /\ g.title = h.title
         \/ Len(OfChannel(cards.list, h.channel)) = PerChannel
         \/ Len(cards.list) = CardLimit

\* A cover that was found is lost only to a resolve of the same title that had
\* begun before it was stored: a failed lookup never begins once there is one.
CoversAreLostToOldResolvesOnly ==
  [][cover.what = "cover" /\ cover'.what # "cover" =>
       \E r \in older : r \in resolving /\ r \notin resolving']_titleVars

================================================================================
