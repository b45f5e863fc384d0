SPECIFICATION Spec
CONSTANTS
  NoRoom = noroom
  MaxVersion = 2
  MaxPosted = 1
  MaxDrops = 1
  MaxLoads = 1
  MaxAnswers = 2
  Producers = {p1, p2}
  NoEntry = noentry
  Ttl = 3
  MaxEdition = 3
  Channels = {c1, c2}
  Calls = {k1, k2}
  NoCall = nocall
  Threshold = 2
  Cooldown = 2
  Deadline = 2
  Alternatives = 2
  Threads = {t1, t2}
  Nobody = nobody
  MaxLosses = 2
  NoNumber = nonumber
  MaxSize = 4
  ChunkSize = 2
  Keywords = {w1, w2}
  Asks = {s1, s2}
  NoAsk = noask
  Patience = 1
  FailTtl = 1
  FailThreshold = 2
  FailCooldown = 2
  KeepFor = 1
  Hashes = {h1}
  NoHash = nohash
  TitleKeys = {a}
  NoTitle = notitle
  MaxSeeders = 1
  MaxFound = 1
  MaxAlts = 2
  TorrentLimit = 2
  Terms = {q1, q2}
  NoTerm = noterm
  CardChannels = {c1}
  CardTitles = {a1, a2, a3}
  MaxHits = 3
  CardLimit = 3
  Resolves = {r1, r2}
  MissRetry = 1
  Mirrors = {m1, m2}
  RaceTime = 1
  MaxSources = 2
  MaxEpisodes = 2
  StreamCalls = {v1, v2}
  NoSiteKey = nokey
  KeyTtl = 2
  MaxRotations = 2
  StreamUrls = {u1, u2}
  RawUrls = {u2}
  MaxServers = 2
INVARIANTS
  TypeOK
  ThePageIsHonest
  LayersAgree
  OneLoginPerLoss
  AnswersAreWhatWasAsked
  SilenceLeavesNoTrace
  NothingFoundIsLost
  WhatWorksIsOffered
PROPERTIES
  OpenPagesCatchUp
  RegistryGetsOn
  CoversAreLostToOldResolvesOnly
  AnswersGoBackWhereRequestsRaceOnly
CHECK_DEADLOCK FALSE
