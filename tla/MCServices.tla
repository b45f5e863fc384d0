------------------------------ MODULE MCServices ------------------------------
(***************************************************************************)
(* Instance for TLC of the components that share no state: a room page,    *)
(* the response cache, the channel registry, the connection to             *)
(* qBittorrent, direct play, the searches and the channel providers.       *)
(* `part` chooses the one a behaviour exercises; the others rest in one    *)
(* initial state.                                                          *)
(***************************************************************************)
EXTENDS RoomPage, ResponseCache, ChannelRegistry, QbConnection, RangeStream,
        MetadataSearch, TorrentSearch, TitleCards, MirrorRace, RotatingKeys,
        AnikotoStreams, TLC

VARIABLE part

servicesVars ==
  <<part, pageVars, cacheVars, registryVars, qbVars, rangeVars, metaVars, torrentVars,
    titleVars, raceVars, keyVars, anikotoVars>>

Parts == {"page", "cache", "registry", "qb", "range", "metadata", "torrents", "cards",
          "covers", "race", "keys", "anikoto"}

\* A world that tries every fallback of the cards, not all at their longest.
SmallWorld == world.names = <<>> \/ Len(world.hits) <= 1

PlainWorld == world = [keyword |-> CHOOSE t \in Terms : TRUE, bangumi |-> <<>>,
                       names |-> <<>>, known |-> {}, hits |-> <<>>]

\* The initial state of the part that is exercised, and the rest of the others.
Init ==
  /\ part \in Parts
  /\ PageInit /\ (part = "page" \/ posted = 0)
  /\ CacheInit /\ RegistryInit /\ MetaInit /\ KeyInit
  /\ QbInit /\ (part = "qb" \/ (connected /\ reachable))
  /\ RangeInit /\ (part = "range" \/ size = 0)
  /\ TorrentInit /\ (part = "torrents" \/ chinese)
  /\ RaceInit /\ (part # "race" \/ wanted = "hits" => playList = <<>>)
  /\ part = "race" \/ wanted = "show"
  /\ AnikotoInit
  /\ part = "anikoto" \/ (servers = <<>> /\ ref = "whole" /\ kiwi = "plays")
  /\ IF part = "cards" THEN TitleInit /\ SmallWorld
     ELSE /\ PlainWorld /\ CoverInit
          /\ cards = [from |-> "nobody", list |-> <<>>]

Rest(p, others) == part = p /\ UNCHANGED <<part, others>>

PageAlone == Rest("page", <<cacheVars, registryVars, qbVars, rangeVars, metaVars,
                            torrentVars, titleVars, raceVars, keyVars, anikotoVars>>)
CacheAlone == Rest("cache", <<pageVars, registryVars, qbVars, rangeVars, metaVars,
                              torrentVars, titleVars, raceVars, keyVars, anikotoVars>>)
RegistryAlone == Rest("registry", <<pageVars, cacheVars, qbVars, rangeVars, metaVars,
                                    torrentVars, titleVars, raceVars, keyVars, anikotoVars>>)
QbAlone == Rest("qb", <<pageVars, cacheVars, registryVars, rangeVars, metaVars,
                        torrentVars, titleVars, raceVars, keyVars, anikotoVars>>)
RangeAlone == Rest("range", <<pageVars, cacheVars, registryVars, qbVars, metaVars,
                              torrentVars, titleVars, raceVars, keyVars, anikotoVars>>)
MetaAlone == Rest("metadata", <<pageVars, cacheVars, registryVars, qbVars, rangeVars,
                                torrentVars, titleVars, raceVars, keyVars, anikotoVars>>)
TorrentsAlone == Rest("torrents", <<pageVars, cacheVars, registryVars, qbVars, rangeVars,
                                    metaVars, titleVars, raceVars, keyVars, anikotoVars>>)
TitlesAlone == part \in {"cards", "covers"}
               /\ Rest(part, <<pageVars, cacheVars, registryVars, qbVars, rangeVars,
                               metaVars, torrentVars, raceVars, keyVars, anikotoVars>>)
RaceAlone == Rest("race", <<pageVars, cacheVars, registryVars, qbVars, rangeVars,
                            metaVars, torrentVars, titleVars, keyVars, anikotoVars>>)
KeysAlone == Rest("keys", <<pageVars, cacheVars, registryVars, qbVars, rangeVars,
                            metaVars, torrentVars, titleVars, raceVars, anikotoVars>>)
AnikotoAlone == Rest("anikoto", <<pageVars, cacheVars, registryVars, qbVars, rangeVars,
                                  metaVars, torrentVars, titleVars, raceVars, keyVars>>)

Next ==
  \/ PageAlone /\ PageNext
  \/ CacheAlone /\ CacheNext
  \/ RegistryAlone /\ RegistryNext
  \/ QbAlone /\ QbNext
  \/ RangeAlone /\ RangeNext
  \/ MetaAlone /\ MetaNext
  \/ TorrentsAlone /\ TorrentNext
  \/ TitlesAlone /\ part = "cards" /\ MakeCards
  \/ TitlesAlone /\ part = "covers" /\ CoverNext
  \/ RaceAlone /\ RaceNext
  \/ KeysAlone /\ KeyNext
  \/ AnikotoAlone /\ AnikotoNext

\* The page's event loop and its timers run on; the registry's clock does, and
\* asyncio.wait returns when it may.
Fairness ==
  /\ WF_pageVars(PageAlone /\ PageMoves)
  /\ WF_registryVars(RegistryAlone /\ RegistryTick)
  /\ WF_registryVars(RegistryAlone /\ EndSearch)

Spec == Init /\ [][Next]_servicesVars /\ Fairness

TypeOK ==
  /\ part \in Parts
  /\ PageTypeOK /\ CacheTypeOK /\ RegistryTypeOK /\ QbTypeOK /\ RangeTypeOK
  /\ MetaTypeOK /\ TorrentTypeOK /\ TitleTypeOK /\ RaceTypeOK /\ KeyTypeOK /\ AnikotoTypeOK

\* PagesCatchUp, of the behaviours in which the page is open.
OpenPagesCatchUp == part = "page" => PagesCatchUp

\* ChannelsComeBack and SearchesAreAnswered, where the registry is used.
RegistryGetsOn == part = "registry" => ChannelsComeBack /\ SearchesAreAnswered

\* NoTorrentIsLost and NoCardIsLost: a search hands on all that was found.
NothingFoundIsLost == NoTorrentIsLost /\ NoCardIsLost

\* AMirrorIsEnough, RotationsAreSurvived and OneServerIsEnough: a provider plays
\* what one of its mirrors, keys or servers plays.
WhatWorksIsOffered == AMirrorIsEnough /\ RotationsAreSurvived /\ OneServerIsEnough
================================================================================
