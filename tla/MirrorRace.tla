------------------------------ MODULE MirrorRace ------------------------------
(***************************************************************************)
(* The AppleCMS channels: MaccmsChannel of                                 *)
(* app/services/channels/maccms.py, which asks all mirrors of a site at    *)
(* the same time and goes on with the first that answers.                  *)
(*                                                                         *)
(* A mirror's request is a task of its own; the race looks at the tasks    *)
(* that are done whenever asyncio.wait returns, and more may be done by    *)
(* then.  A play source is the sequence of what its episodes link to.  The *)
(* caller wants the show itself (get_detail) or the hits for a keyword     *)
(* (search), for which an empty list is an answer.                         *)
(***************************************************************************)
EXTENDS Integers, Sequences, FiniteSets, SequencesExt, Lists

CONSTANTS
  Mirrors,      \* domains
  RaceTime,     \* _RACE_TIMEOUT, in ticks
  MaxSources,   \* bound: play sources of a show
  MaxEpisodes   \* bound: episodes of a source

ASSUME RaceBounds ==
  RaceTime \in Nat \ {0} /\ MaxSources \in Nat /\ MaxEpisodes \in Nat

\* What an episode links to: a media file, a page that plays it, or no URL.
Links == {"media", "player", "nothing"}
PlayLists == UNION {[1..n -> UNION {[1..k -> Links] : k \in 0..MaxEpisodes}] : n \in 0..MaxSources}

\* How a mirror answers: a list with the show, an empty list, JSON that is no
\* object (or a list of something else), a 200 that is no JSON, an error.
Answers200 == {"show", "empty", "odd", "garbage"}

VARIABLES
  wanted,      \* "show" (get_detail) or "hits" (search)
  mirror,      \* the task of each mirror
  waitedFor,   \* pending: the tasks the race has not seen done
  raceLeft,    \* ticks until the deadline
  race,        \* "running", or what the call ended with
  playList,    \* vod_play_url of the show, chunk by chunk
  groups       \* the groups get_detail answers

raceVars == <<wanted, mirror, waitedFor, raceLeft, race, playList, groups>>

-----------------------------------------------------------------------------
\* A bug the checks must notice: a source with a player page is kept.
KeepAllSources(sources) == sources

\* _parse_play_sources drops what is no URL, sources without episodes, and the
\* sources without a media file as soon as one has some.
DirectFirst(sources) ==
  LET direct == Sift(sources, {s \in ToSet(sources) : "media" \in ToSet(s)})
  IN IF direct # <<>> THEN direct ELSE sources

PlaySources(list) ==
  DirectFirst(Sift([i \in DOMAIN list |-> Sift(list[i], Links \ {"nothing"})],
                   Seq(Links) \ {<<>>}))

-----------------------------------------------------------------------------
\* The request of a mirror ends, within its own timeout or by it.
MirrorEnds(m, how) ==
  /\ race = "running" /\ mirror[m] = "pending"
  /\ mirror' = [mirror EXCEPT ![m] = how]
  /\ UNCHANGED <<wanted, waitedFor, raceLeft, race, playList, groups>>

\* done: what asyncio.wait returns.
DoneNow == {m \in waitedFor : mirror[m] # "pending"}
Successes == {m \in DoneNow : mirror[m] \in Answers200}

\* The race is over: the tasks that are still pending are cancelled.
Over(how) ==
  /\ race' = how
  /\ mirror' = [m \in Mirrors |-> IF mirror[m] = "pending" THEN "cancelled" ELSE mirror[m]]

\* What the caller makes of the first 200: resp.json() and payload.get("list").
Outcome(m) ==
  CASE mirror[m] = "show" -> "answer"
    [] mirror[m] = "empty" -> IF wanted = "show" THEN "empty list" ELSE "no hits"
    [] mirror[m] = "odd" -> "crash"
    [] mirror[m] = "garbage" -> "invalid json"

\* asyncio.wait returns: of the tasks that are done, a set, the first that
\* answered 200 is taken.
TakeAnswer(m) ==
  /\ race = "running" /\ m \in Successes
  /\ Over(Outcome(m))
  /\ groups' = IF mirror[m] = "show" /\ wanted = "show" THEN PlaySources(playList) ELSE groups
  /\ UNCHANGED <<wanted, waitedFor, raceLeft, playList>>

\* A bug the checks must notice: one failure passes over all that are done.
PassOverDone ==
  /\ race = "running" /\ \E m \in DoneNow : mirror[m] = "failed"
  /\ waitedFor' = waitedFor \ DoneNow
  /\ UNCHANGED <<wanted, mirror, raceLeft, race, playList, groups>>

\* It returns with failures alone: the race goes on with the others.
PassOverFailures ==
  /\ race = "running" /\ DoneNow # {} /\ Successes = {}
  /\ waitedFor' = waitedFor \ DoneNow
  /\ UNCHANGED <<wanted, mirror, raceLeft, race, playList, groups>>

\* A bug the checks must notice: the race ends with the first failure.
GiveUpEarly ==
  /\ race = "running"
  /\ waitedFor # Mirrors \/ (raceLeft = 0 /\ Successes = {})
  /\ Over("error")
  /\ UNCHANGED <<wanted, waitedFor, raceLeft, playList, groups>>

\* The loop ends: no task is left, or asyncio.wait has run into the deadline;
\* the last failure is raised, or the timeout if there was none.
GiveUp ==
  /\ race = "running"
  /\ waitedFor = {} \/ (raceLeft = 0 /\ Successes = {})
  /\ Over("error")
  /\ UNCHANGED <<wanted, waitedFor, raceLeft, playList, groups>>

\* The registry's deadline cancels the search in the middle of the race; the
\* tasks of the mirrors go on until their own timeout.
RaceCancelled ==
  /\ race = "running" /\ wanted = "hits"
  /\ race' = "cancelled"
  /\ UNCHANGED <<wanted, mirror, waitedFor, raceLeft, playList, groups>>

RaceTick ==
  /\ race = "running" /\ raceLeft > 0
  /\ raceLeft' = raceLeft - 1
  /\ UNCHANGED <<wanted, mirror, waitedFor, race, playList, groups>>

RaceInit ==
  /\ wanted \in {"show", "hits"}
  /\ mirror = [m \in Mirrors |-> "pending"] /\ waitedFor = Mirrors
  /\ raceLeft = RaceTime /\ race = "running"
  /\ playList \in PlayLists /\ groups = <<>>

RaceNext ==
  \/ \E m \in Mirrors :
       TakeAnswer(m) \/ \E how \in Answers200 \cup {"failed"} : MirrorEnds(m, how)
  \/ PassOverFailures \/ GiveUp \/ RaceCancelled \/ RaceTick

RaceSpec == RaceInit /\ [][RaceNext]_raceVars

-----------------------------------------------------------------------------
(***************************************************************************)
(* Properties.                                                             *)
(***************************************************************************)

RaceTypeOK ==
  /\ wanted \in {"show", "hits"}
  /\ mirror \in [Mirrors -> Answers200 \cup {"pending", "failed", "cancelled"}]
  /\ waitedFor \subseteq Mirrors /\ raceLeft \in 0..RaceTime
  /\ race \in {"running", "answer", "no hits", "empty list", "invalid json", "crash", "error",
               "cancelled"}

Playable(list) == \E i \in DOMAIN list : "media" \in ToSet(list[i])

\* One mirror that has what is wanted is enough, however the others end and in
\* whatever order, unless one answers 200 with something else: no answer that
\* has arrived is passed over for an error, nobody is given up before the
\* deadline who may still answer, and only a mirror that disappoints ends the
\* call with anything but an answer or "every mirror fails or the race times
\* out" (maccms.py, line 79).  No request outlives a race that ended by itself,
\* and of a show with media files no group is without.
AMirrorIsEnough ==
  /\ race = "error" =>
       \A m \in Mirrors : mirror[m] = "failed" \/ (mirror[m] = "cancelled" /\ raceLeft = 0)
  /\ race \in {"no hits", "empty list", "invalid json", "crash"} =>
       \E m \in Mirrors : mirror[m] \in {"empty", "odd", "garbage"}
  /\ race \notin {"running", "cancelled"} => \A m \in Mirrors : mirror[m] # "pending"
  /\ race = "answer" /\ wanted = "show" /\ Playable(playList) =>
       groups # <<>> /\ \A i \in DOMAIN groups : "media" \in ToSet(groups[i])

================================================================================
