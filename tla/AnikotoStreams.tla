---------------------------- MODULE AnikotoStreams ----------------------------
(***************************************************************************)
(* Streams of Anikoto: get_streams of app/services/channels/anikoto.py,    *)
(* which asks the servers of an episode one after the other, follows each  *)
(* to its player, and falls back on another site when none plays.          *)
(*                                                                         *)
(* Only the answers of other sites come in between, and the call keeps     *)
(* nothing: a server is one step.  http.request turns every transport and  *)
(* HTTP error into ChannelError; JSON of another shape than expected is a  *)
(* Python error, which nothing up to the route catches.                    *)
(***************************************************************************)
EXTENDS Integers, Sequences, FiniteSets, SequencesExt, Lists

CONSTANTS
  StreamUrls,    \* where players find the episode
  RawUrls,       \* those on vidtube, akirax or norami: raw segments
  MaxServers     \* bound: servers of an episode

ASSUME AnikotoBounds == RawUrls \subseteq StreamUrls /\ MaxServers \in Nat

\* What follows from a server's link: no embed page (an error, or none), JSON of
\* another shape, the page of a known player, or one that leads to a player in
\* at most two frames; and what the player there does, "odd" for JSON of another
\* shape.
ServersOf ==
  [embed : {"nowhere", "odd", "player", "framed"},
   player : {"plays", "empty", "error", "odd"}, url : StreamUrls]

VARIABLES
  ref,         \* episode_ref: "whole", "malformed" (too few parts), or "cut short"
  listed,      \* /ajax/server/list: "unasked", "listed", "failed" or "odd"
  servers,     \* the servers still to be tried
  tried,       \* history: those that were
  kiwi,        \* the fallback: "plays", "nothing", "odd", or "unknown" without mal and ts
  streams,     \* what has been found
  result       \* "running", "streams", "error" (ChannelError) or "crash"

anikotoVars == <<ref, listed, servers, tried, kiwi, streams, result>>

-----------------------------------------------------------------------------
\* Where the call meets JSON of another shape.
Odd(server) ==
  server.embed = "odd" \/ (server.embed \in {"player", "framed"} /\ server.player = "odd")

\* A bug the checks must notice: a player's error ends the call wherever the
\* player was found.
ResolveUnguarded(server) ==
  IF Odd(server) THEN "crash"
  ELSE IF server.embed = "nowhere" \/ server.player = "empty" THEN "nothing"
  ELSE IF server.player = "error" THEN "error" ELSE "stream"

\* _resolve_embed_url and _resolve_embed.  The error of a known player is
\* caught; behind a frame the player is called outside the try.
Resolve(server) ==
  IF Odd(server) THEN "crash"
  ELSE IF server.embed = "nowhere" \/ server.player = "empty" THEN "nothing"
  ELSE IF server.player = "plays" THEN "stream"
  ELSE IF server.embed = "player" THEN "nothing" ELSE "error"

\* The reference is split; one of three or four parts passes the check and is
\* read beyond its end.
ReadRef ==
  /\ result = "running" /\ ref # "whole"
  /\ result' = IF ref = "malformed" THEN "error" ELSE "crash"
  /\ UNCHANGED <<ref, listed, servers, tried, kiwi, streams>>

\* _fetch_servers.
ListServers ==
  /\ result = "running" /\ ref = "whole" /\ listed = "unasked"
  /\ \/ listed' = "listed" /\ UNCHANGED result
     \/ listed' = "failed" /\ result' = "error"
     \/ listed' = "odd" /\ result' = "crash"
  /\ UNCHANGED <<ref, servers, tried, kiwi, streams>>

\* A bug the checks must notice: the first server that plays ends the loop.
TryUntilOnePlays ==
  LET server == Head(servers)
  IN /\ result = "running" /\ listed = "listed" /\ servers # <<>>
     /\ tried' = tried \cup {server}
     /\ IF Resolve(server) = "stream"
        THEN result' = "streams" /\ streams' = <<server.url>> /\ UNCHANGED servers
        ELSE /\ servers' = Tail(servers)
             /\ result' = IF Resolve(server) \in {"error", "crash"} THEN Resolve(server) ELSE result
             /\ UNCHANGED streams
     /\ UNCHANGED <<ref, listed, kiwi>>

\* One turn of the loop: a stream that is new is kept.
TryServer ==
  LET server == Head(servers)
  IN /\ result = "running" /\ listed = "listed" /\ servers # <<>>
     /\ servers' = Tail(servers)
     /\ tried' = tried \cup {server}
     /\ streams' = IF Resolve(server) = "stream" /\ server.url \notin ToSet(streams)
                   THEN Append(streams, server.url) ELSE streams
     /\ result' = IF Resolve(server) \in {"error", "crash"} THEN Resolve(server) ELSE result
     /\ UNCHANGED <<ref, listed, kiwi>>

\* streams.sort: vidtube, akirax and norami first (the order of the host names
\* among each is left out).
PreferredFirst(urls) ==
  Sift(urls, RawUrls) \o Sift(urls, StreamUrls \ RawUrls)

\* After the loop: _resolve_kiwi when nothing was found, an error when it does
\* not find anything either.
AnswerStreams ==
  /\ result = "running" /\ listed = "listed" /\ servers = <<>>
  /\ IF streams # <<>> THEN result' = "streams" /\ streams' = PreferredFirst(streams)
     ELSE IF kiwi = "plays" THEN result' = "streams" /\ \E u \in StreamUrls : streams' = <<u>>
     ELSE result' = (IF kiwi = "odd" THEN "crash" ELSE "error") /\ UNCHANGED streams
  /\ UNCHANGED <<ref, listed, servers, tried, kiwi>>

AnikotoInit ==
  /\ ref \in {"whole", "malformed", "cut short"} /\ listed = "unasked"
  /\ servers \in UNION {[1..n -> ServersOf] : n \in 0..MaxServers}
  /\ tried = {} /\ kiwi \in {"plays", "nothing", "odd", "unknown"}
  /\ streams = <<>> /\ result = "running"

AnikotoNext == ReadRef \/ ListServers \/ TryServer \/ AnswerStreams

AnikotoSpec == AnikotoInit /\ [][AnikotoNext]_anikotoVars

-----------------------------------------------------------------------------
(***************************************************************************)
(* Properties.                                                             *)
(***************************************************************************)

AnikotoTypeOK ==
  /\ listed \in {"unasked", "listed", "failed", "odd"} /\ tried \subseteq ServersOf
  /\ ToSet(streams) \subseteq StreamUrls
  /\ result \in {"running", "streams", "error", "crash"}

Plays(server) == server.embed \in {"player", "framed"} /\ server.player = "plays"

\* A server that plays is offered whatever the servers before and after it do,
\* once, and those on vidtube, akirax and norami first.  What costs it all the
\* same is named here: a reference or a list of servers that cannot be read; a
\* player behind a frame that fails; and JSON of another shape, from a server or
\* the fallback, which ends the call as a Python error.
OneServerIsEnough ==
  /\ result = "error" =>
       \/ ref = "malformed" \/ listed = "failed"
       \/ \E s \in tried : s.embed = "framed" /\ s.player = "error"
       \/ servers = <<>> /\ kiwi \in {"nothing", "unknown"} /\ \A s \in tried : ~Plays(s)
  /\ result = "crash" =>
       \/ ref = "cut short" \/ listed = "odd"
       \/ \E s \in tried : Odd(s)
       \/ servers = <<>> /\ kiwi = "odd" /\ \A s \in tried : ~Plays(s)
  /\ result = "streams" =>
       /\ servers = <<>> /\ \A s \in tried : Plays(s) => s.url \in ToSet(streams)
       /\ \A i, j \in DOMAIN streams : i < j =>
            streams[i] # streams[j] /\ (streams[j] \in RawUrls => streams[i] \in RawUrls)

================================================================================
