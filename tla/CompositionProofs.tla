--------------------------- MODULE CompositionProofs ---------------------------
(***************************************************************************)
(* The components of MCServices together: what is proved of each by itself *)
(* holds of the composition the runs check, since a step of one leaves the *)
(* others as they are.                                                     *)
(***************************************************************************)
EXTENDS ServicesProofs, RoomPageProofs

-----------------------------------------------------------------------------
(***************************************************************************)
(* A step of the composition is a step of each component or leaves it.     *)
(***************************************************************************)

PartsStep ==
  /\ [PageNext]_pageVars /\ [CacheNext]_cacheVars /\ [RegistryNext]_registryVars
  /\ [QbNext]_qbVars /\ [RangeNext]_rangeVars /\ [MetaNext]_metaVars
  /\ [TorrentNext]_torrentVars /\ [TitleNext]_titleVars /\ [RaceNext]_raceVars
  /\ [KeyNext]_keyVars /\ [AnikotoNext]_anikotoVars

LEMMA EachPartSteps == [Next]_servicesVars => PartsStep
<1> USE DEF PartsStep, Rest
<1>1. CASE PageAlone /\ PageNext
  BY <1>1 DEF PageAlone
<1>2. CASE CacheAlone /\ CacheNext
  BY <1>2 DEF CacheAlone
<1>3. CASE RegistryAlone /\ RegistryNext
  BY <1>3 DEF RegistryAlone
<1>4. CASE QbAlone /\ QbNext
  BY <1>4 DEF QbAlone
<1>5. CASE RangeAlone /\ RangeNext
  BY <1>5 DEF RangeAlone
<1>6. CASE MetaAlone /\ MetaNext
  BY <1>6 DEF MetaAlone
<1>7. CASE TorrentsAlone /\ TorrentNext
  BY <1>7 DEF TorrentsAlone
<1>8. CASE TitlesAlone /\ (MakeCards \/ CoverNext)
  BY <1>8 DEF TitlesAlone, TitleNext
<1>9. CASE RaceAlone /\ RaceNext
  BY <1>9 DEF RaceAlone
<1>10. CASE KeysAlone /\ KeyNext
  BY <1>10 DEF KeysAlone
<1>11. CASE AnikotoAlone /\ AnikotoNext
  BY <1>11 DEF AnikotoAlone
<1>12. CASE UNCHANGED servicesVars
  BY <1>12 DEF servicesVars
<1> QED
  BY <1>1, <1>2, <1>3, <1>4, <1>5, <1>6, <1>7, <1>8, <1>9, <1>10, <1>11, <1>12 DEF Next

-----------------------------------------------------------------------------
(***************************************************************************)
(* The channel registry, whose properties are of its progress: its types.  *)
(***************************************************************************)

LEMMA HealthStep ==
  ASSUME RegistryTypeOK, NEW c \in Channels, MarkFailure(c) \/ MarkSuccess(c)
  PROVE  /\ failures' \in [Channels -> 0..Threshold]
         /\ coolingFor' \in [Channels -> 0..Cooldown]
<1>1. /\ Threshold \in Nat /\ Cooldown \in Nat
      /\ failures \in [Channels -> 0..Threshold] /\ coolingFor \in [Channels -> 0..Cooldown]
  BY RegistryConstants DEF RegistryTypeOK
<1>2. failures[c] < Threshold => failures[c] + 1 \in 0..Threshold
  BY <1>1
<1>3. 0 \in 0..Threshold /\ 0 \in 0..Cooldown /\ Cooldown \in 0..Cooldown
  BY <1>1
<1>4. CASE MarkFailure(c)
  BY <1>1, <1>2, <1>3, <1>4 DEF MarkFailure
<1>5. CASE MarkSuccess(c)
  BY <1>1, <1>3, <1>5 DEF MarkSuccess
<1> QED
  BY <1>4, <1>5

LEMMA RegistryStep == RegistryTypeOK /\ [RegistryNext]_registryVars => RegistryTypeOK'
<1> SUFFICES ASSUME RegistryTypeOK, [RegistryNext]_registryVars PROVE RegistryTypeOK'
  OBVIOUS
<1> DEFINE Runs == [tried : 0..Alternatives, succeeded : BOOLEAN,
                    state : {"idle", "running", "done"}]
<1>0. /\ failures \in [Channels -> 0..Threshold] /\ coolingFor \in [Channels -> 0..Cooldown]
      /\ calling \in [Calls -> Channels \cup {NoCall}]
      /\ search \in [running : BOOLEAN, left : 0..Deadline]
      /\ run \in [Channels -> Runs] /\ answered \subseteq Channels
  BY DEF RegistryTypeOK
<1>n. Threshold \in Nat /\ Cooldown \in Nat /\ Deadline \in Nat /\ Alternatives \in Nat
  BY RegistryConstants
<1>1. ASSUME NEW c \in Channels, DetailFromCache(c) PROVE RegistryTypeOK'
  BY <1>0, <1>1, HealthStep DEF DetailFromCache, searchVars, RegistryTypeOK
<1>2. ASSUME NEW c \in Channels, TryAlternative(c) PROVE RegistryTypeOK'
  <2>1. PICK hit \in BOOLEAN :
          run' = [run EXCEPT ![c].tried = @ + 1, ![c].succeeded = @ \/ hit]
    BY <1>2 DEF TryAlternative
  <2>2. run[c].tried + 1 \in 0..Alternatives
    BY <1>0, <1>n, <1>2 DEF TryAlternative
  <2>3. run' \in [Channels -> Runs]
    <3> DEFINE first == [run EXCEPT ![c].tried = @ + 1]
    <3>1. first \in [Channels -> Runs]
      BY <1>0, <2>2
    <3>2. run' = [first EXCEPT ![c].succeeded = @ \/ hit]
      BY <2>1
    <3> HIDE DEF first
    <3>3. first[c] \in Runs /\ (first[c].succeeded \/ hit) \in BOOLEAN
      BY <3>1
    <3> QED
      BY <3>1, <3>2, <3>3
  <2> QED
    BY <1>0, <1>2, <2>3 DEF TryAlternative, healthVars, RegistryTypeOK
<1>3. ASSUME NEW c \in Channels, RunEnds(c) PROVE RegistryTypeOK'
  BY <1>0, <1>3, HealthStep DEF RunEnds, RegistryTypeOK
<1>4. ASSUME NEW i \in Calls, NEW c \in Channels, Begin(i, c) PROVE RegistryTypeOK'
  BY <1>0, <1>4 DEF Begin, searchVars, healthVars, RegistryTypeOK
<1>5. ASSUME NEW i \in Calls, CallSucceeds(i) \/ CallFails(i) PROVE RegistryTypeOK'
  <2>1. calling[i] \in Channels
    BY <1>0, <1>5 DEF CallSucceeds, CallFails
  <2> QED
    BY <1>0, <1>5, <2>1, HealthStep DEF CallSucceeds, CallFails, searchVars, RegistryTypeOK
<1>6. ASSUME NEW i \in Calls, CallCrashes(i) PROVE RegistryTypeOK'
  BY <1>0, <1>6 DEF CallCrashes, searchVars, healthVars, RegistryTypeOK
<1>7. Resting \in Runs
  BY <1>n DEF Resting
<1>8. CASE BeginSearch
  <2>1. search' \in [running : BOOLEAN, left : 0..Deadline]
    BY <1>n, <1>8 DEF BeginSearch
  <2>2. \A c \in Channels :
          [Resting EXCEPT !.state = IF IsHealthy(c) THEN "running" ELSE "done"] \in Runs
    BY <1>7
  <2>3. run' \in [Channels -> Runs]
    BY <1>8, <2>2 DEF BeginSearch
  <2> QED
    BY <1>0, <1>8, <2>1, <2>3 DEF BeginSearch, healthVars, RegistryTypeOK
<1>9. CASE EndSearch
  <2>1. run' \in [Channels -> Runs]
    BY <1>7, <1>9 DEF EndSearch
  <2> QED
    BY <1>0, <1>9, <2>1 DEF EndSearch, healthVars, RegistryTypeOK
<1>10. CASE RegistryTick
  <2>1. search.running => search.left - 1 \in 0..Deadline
    BY <1>0, <1>n, <1>10 DEF RegistryTick
  <2>2. search' \in [running : BOOLEAN, left : 0..Deadline]
    BY <1>0, <1>10, <2>1 DEF RegistryTick
  <2>3. \A c \in Channels :
          (IF coolingFor[c] > 0 THEN coolingFor[c] - 1 ELSE 0) \in 0..Cooldown
    BY <1>0, <1>n
  <2> QED
    BY <1>0, <1>10, <2>2, <2>3 DEF RegistryTick, RegistryTypeOK
<1>11. CASE UNCHANGED registryVars
  BY <1>11 DEF registryVars, RegistryTypeOK
<1> QED
  BY <1>1, <1>2, <1>3, <1>4, <1>5, <1>6, <1>8, <1>9, <1>10, <1>11 DEF RegistryNext

LEMMA RegistryInitTypes == RegistryInit => RegistryTypeOK
<1>1. 0 \in 0..Threshold /\ 0 \in 0..Cooldown /\ 0 \in 0..Deadline /\ 0 \in 0..Alternatives
  BY RegistryConstants
<1> QED
  BY <1>1 DEF RegistryInit, RegistryTypeOK, Resting

-----------------------------------------------------------------------------
(***************************************************************************)
(* The cards: a world that is only a filler is never asked.                *)
(***************************************************************************)

CardsRest ==
  /\ part = "cards" => CardInv
  /\ part # "cards" => cards.from = "nobody"

LEMMA CardsRestStep == CardsRest /\ [Next]_servicesVars => CardsRest'
<1> SUFFICES ASSUME CardsRest, [Next]_servicesVars PROVE CardsRest'
  OBVIOUS
<1>1. part' = part
  BY DEF Next, servicesVars, Rest, PageAlone, CacheAlone, RegistryAlone, QbAlone, RangeAlone,
         MetaAlone, TorrentsAlone, TitlesAlone, RaceAlone, KeysAlone, AnikotoAlone
<1>2. CASE part = "cards"
  BY <1>1, <1>2, EachPartSteps, CardStep DEF CardsRest, PartsStep
<1>3. CASE part # "cards"
  <2>1. cards' = cards
    <3>1. CASE TitlesAlone /\ part = "covers" /\ CoverNext
      BY <3>1 DEF CoverNext, BeginResolve, CoverFound, CoverMissed, ResolveEnds, CoverTick,
                  cardVars
    <3>2. CASE ~TitlesAlone
      BY <1>3, <3>2
      DEF Next, servicesVars, titleVars, Rest, PageAlone, CacheAlone, RegistryAlone, QbAlone,
          RangeAlone, MetaAlone, TorrentsAlone, RaceAlone, KeysAlone, AnikotoAlone
    <3>3. CASE UNCHANGED servicesVars
      BY <3>3 DEF servicesVars, titleVars
    <3> QED
      BY <1>3, <3>1, <3>2, <3>3
      DEF Next, TitlesAlone, titleVars, Rest, PageAlone, CacheAlone, RegistryAlone, QbAlone,
          RangeAlone, MetaAlone, TorrentsAlone, RaceAlone, KeysAlone, AnikotoAlone
  <2> QED
    BY <1>1, <1>3, <2>1 DEF CardsRest
<1> QED
  BY <1>2, <1>3

LEMMA CardsAreKept == CardsRest => NoCardIsLost
<1>1. cards.from = "nobody" => NoCardIsLost
  BY DEF NoCardIsLost
<1> QED
  BY <1>1 DEF CardsRest, CardInv

-----------------------------------------------------------------------------
(***************************************************************************)
(* The invariant of the composition.                                       *)
(***************************************************************************)

ServicesInv ==
  /\ part \in Parts
  /\ PageInv /\ CacheInv /\ RegistryTypeOK /\ QbInv /\ RangeInv /\ MetaInv /\ TorrentInv
  /\ CoverInv /\ CardsRest /\ RaceInv /\ KeyInv /\ AnikotoInv

LEMMA ServicesInitInv == Init => ServicesInv
<1> SUFFICES ASSUME Init PROVE ServicesInv
  OBVIOUS
<1>1. /\ part \in Parts /\ PageInit /\ CacheInit /\ RegistryInit /\ MetaInit /\ KeyInit
      /\ QbInit /\ RangeInit /\ TorrentInit /\ RaceInit /\ AnikotoInit
  BY DEF Init
<1>2. CoverInit /\ cards.from = "nobody"
  BY DEF Init, TitleInit
<1>3. part = "cards" => TitleInit
  BY DEF Init
<1>4. CoverInv
  BY <1>2, CardBounds DEF CoverInit, CoverInv, TitleTypeOK, OldResolvesOnly
<1>5. CardsRest
  BY <1>2, <1>3, CardInitInv DEF CardsRest
<1> QED
  BY <1>1, <1>4, <1>5, PageInitInv, CacheInitInv, RegistryInitTypes, QbInitInv, RangeInitInv,
     MetaInitInv, TorrentInitInv, RaceInitInv, KeyInitInv, AnikotoInitInv
  DEF ServicesInv

LEMMA ServicesStep == ServicesInv /\ [Next]_servicesVars => ServicesInv'
<1> SUFFICES ASSUME ServicesInv, [Next]_servicesVars PROVE ServicesInv'
  OBVIOUS
<1>1. PartsStep
  BY EachPartSteps
<1>2. part' \in Parts
  BY DEF ServicesInv, Next, servicesVars, Rest, PageAlone, CacheAlone, RegistryAlone, QbAlone,
         RangeAlone, MetaAlone, TorrentsAlone, TitlesAlone, RaceAlone, KeysAlone, AnikotoAlone
<1>3. CardsRest'
  BY CardsRestStep DEF ServicesInv
<1>4. PageInv' /\ CacheInv' /\ RegistryTypeOK' /\ QbInv' /\ RangeInv' /\ MetaInv'
  BY <1>1, PageNextInv, CacheNextInv, RegistryStep, QbNextInv, RangeStep, MetaStep
  DEF ServicesInv, PartsStep
<1>5. TorrentInv' /\ CoverInv' /\ RaceInv' /\ KeyInv' /\ AnikotoInv'
  BY <1>1, TorrentStep, CoverStep, RaceStep, KeyStep, AnikotoStep DEF ServicesInv, PartsStep
<1> QED
  BY <1>2, <1>3, <1>4, <1>5 DEF ServicesInv

THEOREM ServicesInvariance == Spec => []ServicesInv
  BY ServicesInitInv, ServicesStep, PTL DEF Spec

-----------------------------------------------------------------------------
(***************************************************************************)
(* Theorems.                                                               *)
(***************************************************************************)

\* Every component keeps to its types, whichever of them runs.
THEOREM ServicesTypesHold == Spec => []TypeOK
<1>1. ServicesInv => TypeOK
  BY RangeTypes, TorrentTypes, AnikotoTypes
  DEF ServicesInv, TypeOK, PageInv, CacheInv, QbInv, MetaInv, CoverInv, RaceInv, KeyInv,
      AnikotoInv
<1> QED
  BY <1>1, ServicesInvariance, PTL

\* A provider plays what one of its mirrors, keys or servers plays: one mirror that
\* answers with a list is enough, and no call fails or comes back empty before every
\* mirror that could answer was waited for (maccms); a rotated key costs no stream
\* (allanime); and the first server that plays is offered, unless an earlier one ended
\* the call with JSON of another shape (anikoto).
THEOREM ProvidersPlay == Spec => []WhatWorksIsOffered
<1>1. ServicesInv => WhatWorksIsOffered
  BY DEF ServicesInv, WhatWorksIsOffered, RaceInv, KeyInv, AnikotoInv
<1> QED
  BY <1>1, ServicesInvariance, PTL

\* What a search hands on stands for all that was found: the list of torrents holds
\* each of them, by itself or by the one the de-duplication prefers, down to the limit,
\* where every torrent it holds comes before those it cut; and there is a card for
\* every show that Bangumi, AniList or the channels know.
THEOREM SearchesLoseNothing == Spec => []NothingFoundIsLost
<1>1. ServicesInv => NothingFoundIsLost
  BY TorrentsAreKept, CardsAreKept DEF ServicesInv, NothingFoundIsLost
<1> QED
  BY <1>1, ServicesInvariance, PTL

\* Whatever the others do: a room page is honest, the two layers of the cache agree,
\* qBittorrent sees one login for each loss, a part of a file is what was asked for,
\* and a stall of Bangumi leaves no trace.
THEOREM EveryPartKeepsItsWord ==
  Spec => [](/\ ThePageIsHonest /\ LayersAgree /\ OneLoginPerLoss
             /\ AnswersAreWhatWasAsked /\ SilenceLeavesNoTrace)
<1>1. QbInv => OneLoginPerLoss
  BY DEF QbInv, QbTypeOK, LoginsAreLost, OneLoginPerLoss
<1>2. ServicesInv =>
        /\ ThePageIsHonest /\ LayersAgree /\ OneLoginPerLoss
        /\ AnswersAreWhatWasAsked /\ SilenceLeavesNoTrace
  BY <1>1, PageIsHonest, LayersFacts, SilenceFacts DEF ServicesInv, CacheInv, RangeInv
<1> QED
  BY <1>2, ServicesInvariance, PTL

\* Whatever the others do: an answer in the cache goes back to an older one only where
\* a request or a warmer raced another producer and was slower.
THEOREM AnswersMoveForwardInAll == Spec => AnswersGoBackWhereRequestsRaceOnly
<1>1. ServicesInv /\ [Next]_servicesVars =>
        [row # NoEntry /\ row' # NoEntry /\ row'.payload < row.payload =>
           \E p \in overtaken :
             /\ producing[p] # NoEntry /\ producing'[p] = NoEntry
             /\ producing[p].purpose # "refresh" \/ writer # "refresh"]_cacheVars
  BY EachPartSteps, GoingBackStep DEF ServicesInv, PartsStep
<1> QED
  BY <1>1, ServicesInvariance, PTL DEF Spec, AnswersGoBackWhereRequestsRaceOnly

\* Whatever the others do: a cover that was found is lost only to a resolve that had
\* begun before it was stored.
THEOREM CoversStayInAll == Spec => CoversAreLostToOldResolvesOnly
<1>1. ServicesInv /\ [Next]_servicesVars =>
        [cover.what = "cover" /\ cover'.what # "cover" =>
           \E r \in older : r \in resolving /\ r \notin resolving']_titleVars
  BY EachPartSteps, CoverStep DEF ServicesInv, PartsStep
<1> QED
  BY <1>1, ServicesInvariance, PTL DEF Spec, CoversAreLostToOldResolvesOnly

================================================================================
