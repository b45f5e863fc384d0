# Formal models of the anime watch-together backend

TLA+ modules, TLC configurations and TLAPS proofs about the program in `src/`:
a FastAPI backend over SQLite (`app/`), one process with one asyncio event
loop, and a React front end (`frontend/`).  Users search and play anime, meet
in *watch rooms* that keep everybody's player in step over Server-Sent Events,
make friends and invite them to rooms, and have local video files prepared for
HLS playback.

Contents: [inventory](#inventory) - [modules](#the-modules) -
[runs](#what-the-runs-check) - [proofs](#what-is-proved) -
[what is not covered](#what-is-left-out) - [plan](#plan).

To repeat everything: `tlc -config X.cfg MCModule` for each run in
`PROJECT.json`, and `tlapm M.tla` for `SequenceFacts` and the seven modules
whose names end in `Proofs`.

## Inventory

What is hard about this program is hardly ever one function: handlers share
tables, most of them delete rooms on the way, the event hub and the handlers
run in different tasks, and threads and the process's end cut through the
multi-step jobs.  `PROJECT.json` lists each hazard at its line.

| Part (code) | State | Operations | Interacts with | What is hard | What makes it correct |
|---|---|---|---|---|---|
| Watch rooms (`services/watch_room.py`, `routers/watch_rooms.py`) | table `watch_rooms` | create, list, get, PUT state, chat, periodic cleanup | presence, invitations, chat (cascades); event hub | nearly every handler deletes idle rooms first; every PUT replaces the row | owners and deletions are for ever; no deletion under a visitor; idle rooms go |
| Presence and room invitations (`services/social.py`, `database_social.py`) | `user_presence`, `room_invitations` | heartbeat, lobby, invite, accept, dismiss | rooms, friendships | three age limits against two clocks; rows hang on rooms and on friendships | active users are in live rooms; open invitations are between friends |
| Friend requests (`services/social.py`) | `friend_requests`, `friendships` | request, accept, reject, unfriend | invitations, direct messages | crossed requests; two transactions in accept and unfriend | open requests never cross; only a crash leaves a half-answered one |
| Direct messages (`services/social.py`) | `direct_messages` | send, list (marks read), unread counts | friendships | a listing marks what it has not returned, in a transaction of its own | a message that was shown never counts as unread |
| Event hub and SSE endpoint (`services/room_events.py`, `routers/watch_rooms.py`) | queues per room; one generator per stream | subscribe, publish, deliver, keepalive, cancel | room handlers, room page | fan-out in tasks of its own; slow and vanished browsers; snapshot before subscription | order, bounded queues, only floods lose events, dead streams leave |
| Room page (`frontend/src/pages/WatchRoomPage.tsx`, `lib/useRoomEventStream.ts`) | shown room, chat list, player | PUT on play/pause/seek, chat, reconnect | hub, room handlers | answers and events overtake each other; own messages come back twice; gaps while reconnecting | a page at rest has shown the room as it is; it comes back after a loss |
| HLS preparation (`services/media_transcode.py`) | `media_assets.hls_status`, task table, semaphore, output directories | request, wait, encode, progress, stitch, fail | library scan, process restarts | threads write late; tasks fail in many places; forced rebuilds | no slot lost; `ready` means playable; queued assets progress |
| Media library scan (`services/media_library.py`) | `media_assets` | scan, upsert, remove missing | HLS preparation, watch history | a seconds-long probe between read and write | a scan never breaks the row of a running job |
| Direct play (`services/range_stream.py`) | none | parse a range, stream | - | off-by-one at the ends of a file; a file that changes under the body | the bytes announced are the bytes asked for; the body is whole unless the file shrank |
| Response cache (`services/response_cache.py`, `cache_warmer.py`) | two layers, refresh tasks | get or produce, refresh, warm, invalidate | search, catalogue, channels | requests, refreshes and warmers producing at the same time | the layers agree; one refresh per key; answers go back only where a request or a warmer raced |
| Channel registry (`services/channels/registry.py`) | failure counts, cooldowns, stream cache | search, detail, streams | providers, response cache | overlapping outcomes, cancelled calls, a deadline | a failing channel is skipped and comes back; every search is answered |
| Channel providers (`services/channels/maccms.py`, `allanime.py`, `anikoto.py`, ...) | mirror lists, a derived key | search, detail, streams | third-party sites | mirrors raced against each other, a key that rotates, servers tried in turn, JSON of another shape | what one mirror, key or server plays is offered, but for the errors named |
| Search and torrent sources (`routers/search.py`, `services/nyaa.py`, `mikan.py`, `subsplease.py`, `anime_garden.py`) | none | fetch with fallbacks, merge, rank, cards | response cache | half-failing sources; the merge and its limit | nothing found is listed twice, or dropped for something worse |
| Catalogue, calendar, covers (`services/bangumi.py`, `anilist.py`, `cover_resolver.py`, ...) | response cache, failed keywords, a circuit, `title_cover_map`, image files | fetch, resolve | remote sites | timeouts inside timeouts; overlapping resolves | a stall leaves no trace; a cover is lost to older resolves only |
| Downloads (`services/qbittorrent.py`, `routers/download.py`) | connection flag, client, lock | connect, ping, add | qBittorrent | worker threads that find a dead session together; reconnects failing half way | one login per loss; a lost connection comes back |
| Accounts and sessions (`services/auth.py`, `rate_limit.py`) | `users`, `user_sessions`, hit windows | register, login, logout, expire, throttle | every route | window edges, rounding, expiry against use | no more than ten failures a minute; an ended session stays ended |
| Favorites, watch history (`routers/favorites.py`, `services/watch_history.py`) | `user_favorites`, `user_watch_history` | upsert, import, list, resume | room routes, library scan | whole rows are replaced; durations change | a choice survives re-adding; resuming offers what was watched last |
| Storage (`services/database.py`, `db_migrations.py`) | SQLite file, foreign keys on | one transaction per function | all services | `INSERT OR REPLACE` cascades | - |
| Application, other pages, scripts | - | start, stop, present | - | - | - |

## The modules

Rules shared by all modules.  The backend's synchronous handlers are called
from `async def` routes of one loop, so such a handler is **one step**; code
that awaits is split into a step per stretch between awaits; a thread and the
end of the process are interleaved with everything; where a handler commits
more than once and the module is about crashes, each commit is a step.  Data is abstracted to what
a decision or a property tells apart.  Operators whose comment begins "A bug
the checks must notice" are not part of the model: each is a plausible slip in
one definition, and the properties must fail when it takes that definition's
place.  Bounds (`Max...`) are guards named in the module.  A time that the code
compares only with the present is kept as an age or as the ticks that are left,
capped where the comparison no longer changes.  What another site answers is a
choice: it answers, refuses, or answers something else with 200.

### WatchRooms: rooms, presence, invitations, chat

| TLA+ | code |
|---|---|
| `rooms[r] = [owner, idle]` | a row of `watch_rooms`; `idle` is the age of `updated_at` |
| `presence[u] = [room, age]` | a row of `user_presence`; `age` is the age of `last_seen_at` |
| `friends`, `invitations`, `chat` | the rows of `friendships`, `room_invitations`, `room_messages` |
| `issued`, `posted` | uuids and AUTOINCREMENT ids already used |
| `Expired`, `CleanedTables` | `cleanup_inactive_rooms` with its cascades |
| `Cleanup` | the periodic task, the read-only handlers, and every handler that raises after cleaning up |
| `ReplaceRoom` | `upsert_watch_room`, an INSERT OR REPLACE: delete, cascade, insert |
| `CreateRoom`, `UpdateRoomState`, `SendRoomMessage`, `Heartbeat`, `HeartbeatElsewhere`, `BuildLobby`, `Befriend`, `RemoveFriend`, `SendInvitation`, `AcceptInvitation`, `DismissInvitation` | the handlers of those names |
| `Tick` | one unit of time passes for every timestamp |

The code compares a timestamp with the present only, so an age capped above the
largest limit is exact.  The playback state inside a room (position, source,
playing) decides nothing on the server and is left out.
`LimitsAreOrdered` states the order of the code's limits (90 s < 10 min < 6 h;
90 s < 1 h); the instances keep the order with small numbers.

### RoomEvents and RoomFeed: the event hub and its promise

`RoomEvents` models one room (the hub keeps rooms apart): `ready` is the event
loop's FIFO of tasks created and not yet run - `publish_threadsafe` and
Starlette's body tasks both go through it - `queue[s]` is a subscriber's bounded
`asyncio.Queue`, `phase[s]` the await at which the generator of stream `s`
stands (`starting`, `greeted`, `checking`, `waiting`), `open[s]` the browser's
end, `shown[s]` the version of the room its page shows.  `published` and
`joined` are history variables for properties only.  `Post`/`Schedule` is the
handler's write and its task; `Publish` is the task; `Put` is `put_nowait` with
the drop-oldest fallback; `Greet`, `Subscribe`, `CheckConnected`, `LeaveLoop`,
`Deliver`, `Keepalive` are the stretches of `event_generator`; `Disconnect` is
the browser's, `Cancel` Starlette's cancellation.

`RoomFeed` is the abstract specification: a counter of published events and a
position per reader, with `Publish`, `Join`, `Read`, `Leave`.  `Position` is the
refinement mapping: the number before the head of a subscriber's queue, or
everything published when the queue is empty.

Assumed: between the snapshot's yield and the subscription the generator
suspends only where the transport makes `send` suspend; the model lets any step
happen there (`greeted`), so nothing relies on it.

### MediaTranscode: HLS preparation

`row[m]` is the row of asset `m` reduced to its HLS and probe status,
`onDisk[m]` its source file, `master[m]` its `index.m3u8`, `tasks` the registry
`_transcode_tasks`, `job[j]` a `_prepare` task (`created`, `waiting`, `granted`,
`encoding`), `free` and `waiters` the semaphore, `writing` the progress threads
under way, `loop` what the event loop is in the middle of.  `PrepareHls` is
`prepare_hls`; `Wait`, `Encode`, `Refuse`, `NextRung`, `Stitch`, `MarkReady`, `Fail` are
the stretches of `_prepare` and `_run_ffmpeg`; `ReportProgress` and
`WriteProgress` the thread; `ScanRead`, `ScanWrite`, `ScanRemove` a scan of the
library; `FileChanges` the world outside; `Restart` the process.

`HandOut` is `asyncio.Semaphore` of Python 3.12: `release` wakes one waiter and
reserves its slot, `acquire` passes surplus slots on, and a woken waiter that
has not run yet makes newcomers queue.  A scan takes two steps although the loop
does not yield in between, because the progress thread and the end of the
process can fall between its read and its write; `Stitch` and `MarkReady` are
two steps for the same reason.  The route answers 409 for an asset that cannot
be watched, so `prepare_hls`'s own refusal of one has nothing to change.

### FriendGraph: friends, invitations and direct messages, commit by commit

`WatchRooms` has the social handlers as single steps; here each of their
transactions is one, since the process may end between two of them.
`unfinished` is the commit the running handler still owes, and no other handler
starts while there is one (the handlers are synchronous code on the loop);
`Crash` forgets it.  `request`, `friendship`, `invited`, `direct` are the rows;
`shown` and `torn` are history: ids returned to their recipient, pairs a crash
fell on.  Accepting is `Accepting` (both rows of `friendships`) then
`MarkAccepted`; unfriending is `RemoveFriend` then `CancelInvitations`; opening
a conversation is `OpenConversation` (everything is marked read) then
`ReturnPage` (the latest `PageLimit` messages).

### Accounts: sessions and the login limiter

`session[t]` is the row of token `t` with its age, `bucket[a]` the limiter's
deque for address `a`, as ages.  A tick is half a second, because the
`Retry-After` header is rounded down to whole seconds and that is what a
property is about.  `refused` (failures answered 400 within the window) and
`told` (the rest of the first promise a client was given) are history.

### Shelf: favorites and watch history

`tracked` and `watched` are the two tables, `legacy` the favorites from before
accounts, `room` the playback state of a room, `length[m]` the duration a scan
found.  `PutState` is the room route with the recording it does on the way;
`SyncProgress` and `SyncRoomProgress` are the route of its own.  `picked` and
`lately` are what the user last chose and last watched, for the properties.

### RoomPage: one page of a room

The page has two sources that are not ordered with each other: `wire`, what the
stream still has to deliver, first in first out, and `answers`, what its own
requests will bring, in any order.  The server's side (`version`, `posted`,
`deleted`) serves a request when it is sent.  `ReceiveState`, `ReceiveMessage`
are the event handlers; `ApplyRoom`, `ApplyGone`, `ApplySent`, `ApplyList` the
continuations of `load`, `sendRoomCommand`, `handleSendRoomChatMessage` and
`loadRoomChat`; `StreamError`, `BackoffEnds`, `Connect`, `ConnectFails` the hook
`useRoomEventStream`.  `ReceiveState` may or may not load the room again: it
does for another media file, and which states share a file is left open.

### ResponseCache, ChannelRegistry, QbConnection, RangeStream

- `ResponseCache` follows one key: `l1`, `row`, and the producers under way.  A
  payload is the number of the upstream edition it was made from, so that "old"
  means something.  `ServeFresh`, `ServeStale`, `Request` are the branches of
  `get_or_set_json` that change something; `Store` writes the table and then
  memory, whose clock may be a tick later.  `writer` and `overtaken` are history:
  what the last payload was made for, and which producers it overtook.
  `invalidate` is modelled as part of the module's interface, but no property is
  about it: nothing calls it but `tests/test_response_cache.py:114`.
- `ChannelRegistry` has the counters with the calls that overlap on them.
  `_run` of a search is `TryAlternative` and `RunEnds` per channel, `EndSearch`
  is `asyncio.wait` returning: all done, or the deadline.
- `QbConnection` has one thread per request, the lock of `_ensure_connected`,
  and qBittorrent going away, coming back and forgetting sessions.  The route's
  check `_check_connected` is `Enter`.
- `RangeStream` has the arithmetic of `_parse_range` as it stands in the code,
  and `Asked`, a reference read off the header's grammar.  The file may change
  between the headers and any block of the body; `lowest` is the fewest bytes it
  has had since, below which the body has nothing left to read.

### Searches and providers

- `MetadataSearch` - Bangumi's `search` with its timeout, its negative entries
  and its circuit over the cache, and callers that give up before it does.
- `TorrentSearch` - the four sources with their fallback routes, SubsPlease asked
  for one title after the other (`AskSubsPlease`), then `_merge_and_rank` and the
  routes' `[:limit]` (`Limited`).  `Reaches` is the reference for a source: that
  its search comes to a route that works.  It is no more than the code does: a 200
  that is something else ends the fallback among Nyaa's feeds and for Mikan.
- `TitleCards` - the fallbacks of the card search (Bangumi, AniList under other
  names, channel hits), and the covers of torrent titles with overlapping
  resolves.
- `MirrorRace` (AppleCMS sites), `RotatingKeys` (AllAnime), `AnikotoStreams`
  (Anikoto) - the three providers that have control of their own.  In the race
  the tasks of the mirrors end by themselves and `asyncio.wait` returns some time
  later with all that are done (`DoneNow`): `TakeAnswer`, or `PassOverFailures`,
  or at the end `GiveUp`.  `Outcome` is what the caller makes of the first 200: an
  answer, an empty list (an error of `get_detail`, no hits for `search`), no JSON,
  or JSON of another shape, on which it raises a Python error.  `Odd` has the same
  for Anikoto's JSON (lines 486 and 573 of `anikoto.py` among others).

What these do with lists is in `Lists`: `Sift`, a list comprehension with a
condition, and `Joined`, lists put end to end, as recursive functions.

These and the four before share no state.  `MCServices` puts them beside each
other: `part` names the one a behaviour exercises and the others rest;
`MCPeople` does the same for `FriendGraph`, `Accounts` and `Shelf`.  A conjunction
such as `NothingFoundIsLost` names properties of several modules that ask the
same question; each conjunct is stated and explained in its own module.

## What the runs check

Twelve runs, four of which expect a violation (the findings below); every property
of a passing run has a mutant in `PROJECT.json`.

| Run | Instance | Shows |
|---|---|---|
| `rooms` | 2 users + guest, 2 rooms, limits 1 < 2 < 3 units, 2 invitation rows or 1 message (`FewRows`); symmetry | `TypeOK`; `NoOrphans` (cascades take exactly a room's rows); `ActivePresenceNamesALiveRoom` (no cleanup under a visitor); `OpenInvitationsAreBetweenFriends`; `OwnersNeverChange`; `DeletedRoomsStayDeleted`; `AcceptedInvitationsAreNotRevoked` |
| `room_liveness` | 2 users, 1 room, `FairSpec` | `LastingRoomsAreInUse`: a room that lives on is used again and again |
| `accepted` | 2 users, 1 room | violated: `AcceptedInvitationsLast` (finding 1) |
| `hiccup` | 1 user, 1 room | violated: `OwnedRoomsSurviveAHiccup` (finding 2) |
| `events` | 2 streams, queues of 1, 3 events; symmetry | `TypeOK`; `QueuesAreBounded`; `StateLostOnlyToAFlood`; `PagesNeverGoBack` |
| `events_fair` | 1 stream, queue of 2, 4 events, `FairSpec` | `ImplementsFeed` (the refinement); `LostStreamsAreForgotten`; `QueuedEventsAreDelivered` |
| `transcode` | 2 assets, 3 tasks, 2 slots, forced requests, 1 restart; symmetry | `TypeOK`; `SlotsAddUp`; `ReadyHasAMaster` |
| `transcode_fair` | 2 assets, 2 tasks, 1 slot, 2 rungs, no forced requests, no restart, `FairSpec` | `OneTaskPerAsset`; `PreparingMeansRunning`; `QueuedAssetsGetTheirTurn` |
| `people` | 3 people (symmetry), 2 request rows in use (`FewRows`), 2 messages, 1 crash; 1 name, 1 address, 2 tokens, window of 5 half seconds, capacity 2; 1 viewer, 2 shows, 2 files | `TypeOK`; `CrossedRequestsMeet`; `OnlyACrashTears`; `ShownMessagesAreRead`; `TheLimiterKeepsItsWord`; `EndedSessionsStayEnded`; `TheShelfIsKept` |
| `services` | see below | `TypeOK`; `ThePageIsHonest`; `LayersAgree`; `OneLoginPerLoss`; `AnswersAreWhatWasAsked`; `SilenceLeavesNoTrace`; `NothingFoundIsLost`; `WhatWorksIsOffered`; `OpenPagesCatchUp`; `RegistryGetsOn`; `CoversAreLostToOldResolvesOnly`; `AnswersGoBackWhereRequestsRaceOnly` |
| `page_refresh` | 1 page, 2 PUTs, 1 message, 1 loss of the stream | violated: `ReconnectingIsAFullRefresh` (finding 3) |
| `downloads_back` | 2 threads, 2 losses, fair | violated: `DownloadsComeBack` (finding 4) |

**Why the bounds are enough.** In `rooms`, two rooms let presence move while the
other room expires, and two users with a guest give owner, invited member, visitor
and stranger; the limits 1 < 2 < 3 put every comparison on both of its sides and
let a heartbeat outlast a PUT (with a presence window of 0 no cleanup could meet a
visitor); `FewRows` leaves both directions between two users, or one invitation in
each room. Its seven properties are also proved for all values, and so are those
of every other passing run but for liveness (below). In `events`, a queue of one
already overflows, two streams show that one does not disturb the other, and three
events give a state, a chat message and one more that overtakes; `events_fair`
adds partial overflow. In `transcode`, three tasks for two slots and two assets
cover waiting, waking and two tasks on one asset at once; `transcode_fair` adds a
second rung. Deadlock is not checked in `RoomEvents` and `MediaTranscode`: their
bounds on events and tasks let a behaviour end (in the latter, an empty disk has
nothing to do), and neither in `people`, `services` and the two runs on one of
their modules, for the same reason: a body is sent, a race is over, a bound is
reached.

In `people`, three people are the least with which a pair's rows can be confused
with another's; `FewRows` still allows two requests, in both directions of a pair or
in two pairs, with an invitation beside them; one crash is enough, since
after it every handler starts from the tables again.  With room for two
failures in five half seconds an address is throttled, waits a
`Retry-After` that was rounded, and is let in, at both edges of the window.  Two
tokens let a session end while another begins.  One second on the shelf's clock
has entries of the same and of different times.

In `services`, the bounds are the least at which the case happens: for the page,
two PUTs (one overtakes the other), a message and a loss; two producers, four
editions and a lifetime of three ticks (of two, an entry in memory could not be
seen to outlive the row by more than the tick it may); two channels
and two calls with a threshold of two, so that outcomes meet on both sides of
it; two threads and two losses; a file of four bytes in blocks of two; two
keywords and two searches against a threshold of two; one hash, one title key,
two dates, and one torrent per source and title asked for, which are up to five to
merge for a page that asks for two (`TorrentLimit`; the code's default is 80);
SubsPlease asked for two titles of a Chinese keyword (`MaxAlts`; the code takes up
to four); three hits of a channel that may show two; two resolves; two mirrors,
with every play list of two sources and two episodes where a show is wanted and
none where hits are (a search reads no play list); two calls and two rotations;
two servers and two URLs, one of them of raw segments, which is sorted first.
Where a property is proved (below) it holds beyond the bounds as well.

**Fairness.**  `room_liveness`: time passes and the periodic cleanup runs
(`run_periodic_room_cleanup` loops for as long as the process lives); no user is
obliged to do anything.  `events_fair`: the loop runs ready tasks, wakes a
generator whose await is over, and fires the 20 s timer; browsers, handlers and
cancellation are not fair.  (Weak fairness of the loop takes `send` to return: a
page that keeps its connection open and never reads could hold a generator at an
event for as long as the transport's buffers are full.)  `transcode_fair`: each task's step is strongly fair,
since a scan may block the loop again and again yet always gives it up; ffmpeg
ends; threads and scans finish; requests, files and failures are free.
`services`: the browser's event loop and timers run on and what is on its way
arrives (`PageMoves`), the registry's clock goes on, and `asyncio.wait` returns
when it may; people, servers and failures are free.  `downloads_back`: threads
that run get on, users keep asking (strongly fair, since the route may refuse
them for a while), qBittorrent comes up again and a login tried again and again
works in the end - more than the code needs, and still the flag stays false.

**Findings.**

1. `accepted` - a state PUT is an INSERT OR REPLACE on `watch_rooms`
   (`app/services/database.py:953`), which deletes the room's invitations and
   chat through ON DELETE CASCADE.  An accepted member loses the right to take
   part without a heartbeat at the owner's first play or pause, contrary to
   `tests/test_social_features.py:390`.
2. `hiccup` - the grace period counts from the last state PUT, not from the last
   presence (`app/services/watch_room.py:80`), so a room whose player nobody
   touched for ten minutes goes 90 s after its last visitor's last heartbeat,
   contrary to the comment at line 17.
3. `page_refresh` - the snapshot a stream begins with is the room without its
   chat, and the page loads its chat list only when it opens.  A message posted
   between the loss of the stream and its return stays missing, contrary to
   "losing the socket and reconnecting behaves like a full refresh"
   (`frontend/src/lib/useRoomEventStream.ts:13`).
4. `downloads_back` - `_ensure_connected` would reconnect ("Reconnect if needed",
   `app/services/qbittorrent.py:63`), but a reconnect that was refused sets
   `_connected` to false, and `_check_connected` (`app/routers/download.py:13`)
   then answers 503 before anybody calls it: downloads are off until the process
   restarts.

**Where comments say something else.**  In five more places the code does not do
what a comment says of it.  No run states them as violated properties; the models
have what the code does, and the properties leave room for it:

- `maccms.py:77-79` promises "the first JSON payload" and an error when every
  mirror fails or the race times out.  The first 200 is taken, JSON or not: one
  that is no JSON ends the race in an error (`invalid json`) although another
  mirror would answer.  `AMirrorIsEnough` says that only a mirror which answered
  otherwise does that.
- `allanime.py:324-325`: "Retries once with a fresh key after the first failure".
  An answer sealed with a key the site has rotated to raises the cipher's
  `InvalidTag`, which is no `ChannelError` and is not tried again (`Unreadable`;
  the second conjunct of `RotationsAreSurvived`).
- `range_stream.py:121`: "416 Range Not Satisfiable for malformed / out-of-bounds
  ranges".  A malformed header, `bytes=-` included, is ignored and answered 200
  with the whole file, as the comment at line 61 says; 416 is for ranges out of
  bounds and `bytes=-0`.
- `search.py:14` and `108`: "publish-date DESC".  The date is sorted ascending, as
  text; among torrents without seeders, as all but Nyaa's are, the limit keeps
  those whose text is least (`RankOf` has it so, `NoWorse` says nothing of dates).
- `search.py:76`: "dedupe by info_hash then title, rank by seeders".  The
  preferred source wins before the ranking: a torrent of Nyaa's with many seeders
  gives way to the same title of a source that tells none, which then ranks last
  and may be cut (`StandsFor` says which torrent stands for which).

**Behaviour worth knowing**, which the models have as the code does:

- A page shows what came last: an answer to its own request replaces a newer
  event (`BehindOnlyIfOvertaken` says exactly when), and a message it sent is
  listed twice when the event comes first (`OnlyOwnMessagesRepeat`).
- Opening a conversation marks all messages read, also those beyond the page
  that is returned.  A crash between the commits of an acceptance leaves a
  pending request; after unfriending it can still be accepted.
- `Retry-After` is rounded down: who waits exactly as long may be throttled for
  up to a second more (`RetryAfterIsCloseEnough`).
- Bangumi refusing a search at once is stored as an empty answer for six hours;
  a stall is not.  AniList's `_do_search` answers an empty list whatever goes wrong,
  and that too is kept for six hours (`anilist.py:140-147`, `203-205`); `TitleCards`
  has it in what AniList is taken to know.  While the circuit is open, stored answers are withheld too.
- After a channel's cooldown every request passes, not one probe; an answer from
  the cache resets its failures; a hung provider is cancelled and never counted.
- A miss is stored over a cover that an overlapping resolve has found.
- A Nyaa feed or a Mikan page that answers 200 with something else ends the
  fallback; a maccms mirror that answers with an empty list wins the race.
- Anikoto's error of a player behind a frame discards the streams found before,
  and so does JSON of another shape, from a server or the fallback, as an
  `AttributeError` nobody catches.
- Two requests that find nothing ask the upstream twice, and the slower one's
  answer stays, newer or not.

## What is proved

TLAPS checks every theorem for all values of the constants that satisfy the
modules' named assumptions, which TLC evaluates in the runs:
`ConstantsAreNumbers`, `LimitsAreOrdered`, `GuestIsNoUser`, `LobbyIsNoRoom`,
`NoRowIsNoRow` (`WatchRooms`, and `Shelf` with `ShelfBounds`); `DepthIsPositive`,
`EventsAreBounded` (`RoomEvents`); `CountsAreNumbers`, `ForceIsAFlag`,
`NoTaskIsNoJob` (`MediaTranscode`); `FriendBounds`, `NothingIsOwed`
(`FriendGraph`); `AccountLimits`, `NoSessionIsNoRow` (`Accounts`);
`RoomPageBounds`, `FaultBounds`, `NoRoomIsNoVersion` (`RoomPage`); `CacheBounds`,
`NoEntryIsNoEntry` (`ResponseCache`); `RegistryConstants`, `NoCallIsNoCall`
(`ChannelRegistry`); `QbBounds` (`QbConnection`); `RangeBounds`,
`NoNumberIsNoNumber` (`RangeStream`); `SearchConstants`, `NoAskIsNone`
(`MetadataSearch`); `TorrentBounds` (`TorrentSearch`); `CardBounds`
(`TitleCards`); `RaceBounds` (`MirrorRace`); `KeyBounds`, `NoSiteKeyIsNone`
(`RotatingKeys`); `AnikotoBounds` (`AnikotoStreams`).  They say that limits are
numbers, that "no row" is no row, that thresholds are not zero, and in two
places that the code's limits are ordered as they are.

Two theorems assume more, as the code cannot promise them otherwise (see
[what is left out](#what-is-left-out)): `TasksAreExclusive` that nobody forces a
rebuild, `PreparingIsTrue` that the process does not restart.

`WatchRoomsProofs`:

- `TypeCorrect`, `ForeignKeysHold`, `PresenceIsInLiveRooms`,
  `InvitationsFollowFriendship`: the four invariants of `rooms`.  The argument of
  `PresenceIsInLiveRooms` is that a cleanup spares every occupied room
  (`CleanupKeepsOccupied`), and that presence only becomes active by a heartbeat,
  which has just found the room.  Each invariant is inductive relative to type
  correctness.
- `OwnersAreForLife`, `DeletedRoomsAreGone`: action properties, from `RoomSteps`
  (every step keeps, ages, deletes or rewrites a row, or inserts one under a
  fresh uuid) and `RowsAlwaysIssued` (every live row's uuid was drawn, so a
  freshly drawn one is not a deleted room's).
- `AcceptedInvitationsStand`: an accepted invitation goes only with its room, or
  when its room is rewritten or it is sent again.  Handler by handler
  (`AcceptedInvitationSteps`); unfriending cancels open invitations only.

`RoomEventsProofs`:

- `TypeCorrect`, `StalledPagesAreCheap`, `HubImplementsFeed`.  The invariant
  `Inv` is type correctness and bounded queues, plus: a pending start task means
  its stream is `starting`, once (`StartsAreStarting`); the publish tasks in
  `ready` are exactly the events after `published`, in order (`ReadyIsTheRest`);
  a subscriber's queue holds the latest events, consecutively, up to `published`
  (`QueuesHoldTheLatest`).  The last two are why the refinement holds: without
  them a task could publish event 5 after event 6, and `Position` would jump.
  Every step then maps to a step of `RoomFeed` or to a stutter.
- `StatesAreLostInFloodsOnly` and `PagesGoForwardOnly` need to know what the
  events carry: the last state is the newest event of its kind wherever it is
  (`NewestIsAState`); a snapshot is older than every event whose task comes after
  the stream's start (`SnapshotsAreBehind`), which is why it may be taken before
  the subscription; so a page is never ahead of its own queue (`PagesAreBehind`);
  and the newest state has left a queue only to be shown, or under `MaxDepth`
  newer events (`DeliveredStatesAreShown`).

`MediaTranscodeProofs`:

- All five theorems rest on `Shape` (types; the semaphore's queue holds tasks that
  wait, each once; while a playlist is stitched its task is alive, its threads
  have written and the playlist stays).  `HandOutFacts` says once what handing out
  slots does to the tasks, and the actions cite it.
- `ReadyIsPlayable` adds that a status a scan has read and will write back is as
  true as a row's: that is where a late write could bring a `ready` back.
- `PreparingIsTrue` (assuming `MaxRestarts = 0`) adds the same for `preparing`, and
  that a thread which has not written yet belongs to a task that still encodes.
- `TasksAreExclusive` (assuming no forced requests) adds that the live task of an
  asset is the registered one.
- `SlotsAreAccountedFor` counts: the holders after a hand-out are the others, the
  woken and perhaps the task itself, and the woken are as many as the slots
  handed out because the queue has no repetitions.  `TypeCorrect` follows.

`PeopleProofs` (friends, accounts, shelf):

- `RequestsMeet`, `OnlyCrashesTear`, `ShownIsRead`, `FriendTypesHold`.  The
  invariant says of every pair that it is torn, half changed by the handler under
  way, or intact (`TornOrIntact`); what the first commit of a handler has
  established for its second (`OwedRightly`); and that messages are numbered by
  their count (`Numbered`), without which a new message might take the id of one
  already shown.
- `SessionsEndForGood`: a row's token was drawn, an ended token was drawn, and a
  session is issued under an undrawn one.
- `LimiterKeepsItsWord`: the failures answered are exactly the hits inside the
  window (the deque is pruned from its head only, so this is about the order of
  ages), never more than the capacity; and while a client waits, the oldest hit
  leaves the window less than a second after the rounded `Retry-After`
  (`TheWaitIsRight`).
- `TheShelfKeepsItsWord`: nothing on the shelf is from the future
  (`NothingFromTheFuture`), so what is recorded now is the newest; the entry last
  recorded is among the newest (`LatelyIsNewest`); positions lie inside the
  duration recorded with them (`InsideTheFile`).
- `PeopleAreApart`, `PeopleTypesHold`: a behaviour of the composition `MCPeople`
  is one of each component, so all of the above holds in the run `people`.

`RoomPageProofs`:

- `PagesAreHonest`.  An open stream still brings the newest state, behind any
  older one, or has brought it and nothing undid it (`StreamIsHonest`); nothing on
  the wire, in an answer or on the page is newer than the server
  (`NothingIsAhead`); and until the answer to a post is applied its message is
  listed at most once (`SentOnce`, by counting places in the list).

`ServicesProofs`, component by component:

- `MemoryFollowsTheTable` and `AnswersMoveForward`, for any set of producers.  The
  strengthening is `ProducersAreNew`: a producer that was not under way when the
  row was stored has read an edition that is not older than the row's; those that
  were are `overtaken`, and none of them is a refresh if the row is a refresh's,
  because one task refreshes at a time.
- `LoginsAreCounted` and `TheLockExcludes`.  A session that is known is in use
  (`AliveIsUsed`), nobody connects while it is good (`NobodyConnectsTwice`, from the
  lock), so every login but the newest has been lost (`LoginsAreLost`).
- `PartsAreWhatWasAsked`: `ParserIsRight` proves the parser's arithmetic equal to
  the grammar of the header for every file size and every pair of numbers; the
  rest follows the body to its end (`AnswerShape`, `BlockStep`).
- `RotationsCostNoStream`: the key of a second attempt was derived in that attempt
  (`SecondKeyIsFresh`), so a rejection means that the site has rotated since.
- `StallsLeaveNoTrace`: a guard that is set runs out within a timeout and a
  cooldown of calm (`GuardsRunOut`), and only a refusal stores an empty answer.
- `CoversStay`: once a cover is stored, the resolves of its title under way had
  all begun before (`OldResolvesOnly`).
- `TorrentsAreNotLost`: a source answers what one of its routes had
  (`SourceIsHeard`), whatever the routes before it did, and SubsPlease what any of
  its titles found (`SubsPleaseIsHeard`); then one lemma per stage of
  `_merge_and_rank`, each an induction over its loop - the flat list in the order
  of preference (`FlatFacts`), the first of each hash or title kept
  (`DeduplicatedFacts`, `PreferredFacts`), the ranking (`RankedFacts`) - and the cut,
  which takes what is behind every torrent it leaves (`LimitedFacts`).
- `SearchesShowWhatThereIs`: AniList is asked every name there is; a hit of a
  channel is left out only under another of the same channel and title, or
  when its channel or the page is full, which stays so to the end of the loop.
- `OneMirrorIsEnough`: a mirror that is no longer waited for has failed, and none
  is cancelled while the race runs (`PassedOver`), so that what ends the race is
  either an answer that was there or the failure of all that could give one.
- `ServersThatPlayAreOffered`: the streams found so far are those of the servers
  tried that play, each once (`FoundSoFar`, `FoundOnce`), and the sort keeps them.

`CompositionProofs` (the composition `MCServices`): a step of one component
leaves the others as they are (`EachPartSteps`), so the conjunction of their
invariants, `ServicesInv`, is inductive.  One case needs an argument of its own:
the worlds of a search that is not the part exercised are fillers, and no claim is
made of them because they are never asked (`CardsRest`).  From it:
`ServicesTypesHold` (with the types of `ChannelRegistry`, whose properties are of
its progress), `ProvidersPlay`, `SearchesLoseNothing`, `EveryPartKeepsItsWord`,
`AnswersMoveForwardInAll`, `CoversStayInAll`: every safety property of the run
`services`.

`SequenceFacts` has what several of them need: appending, heads and tails; what
`Sift` and `Joined` return; and induction.  The library's induction theorems take
an operator, which no installed prover can instantiate, so `UpTo` states it for a
set of numbers instead (from the least number of its complement), and a
definition that is computed by a loop is a recursive function in its module, whose
values `UpTo` follows.

Only model-checked: every liveness property (`LastingRoomsAreInUse`,
`LostStreamsAreForgotten`, `QueuedEventsAreDelivered`, `QueuedAssetsGetTheirTurn`,
`OpenPagesCatchUp`, `RegistryGetsOn`), since liveness under fairness and ENABLED
are outside the prover's reach; and the four violated properties of the findings.

## What is left out

- Several worker processes: the hub, the semaphore and the registry live in one
  process, as the code says of itself.
- Forced rebuilds are excluded from `OneTaskPerAsset`, `PreparingMeansRunning`
  and the liveness run, because the code cannot promise them there: a forced
  request starts a second ffmpeg in the same output directory and leaves the
  first one running.  After a restart, rows stay at `queued` or `preparing`
  until somebody asks for the asset again; no document promises otherwise.
- The source file of a prepared asset may be replaced and keeps its playlist; a
  room that is cleaned up is announced to no page.  Both are in the models as
  the code does them, and nothing in the repository promises the contrary.
- The qBittorrent client library's own login, when a request of it is answered 403,
  happens outside the service's lock; `OneLoginPerLoss` is about the logins of
  `_do_connect`.
- `RoomPage` has a stream of its own on which nothing overflows; what a full queue
  costs a page is `StateLostOnlyToAFlood` of `RoomEvents`.
- Texts: parsing, scraping, formatting, hashing, and the wording of answers.

Not modelled:

- **Other channel providers** (`age`, `anilibria`, `animeheaven`, `animexin`,
  `gogoanime`, `kitsu`, `libvio`, `miruro`, `reanime`, `shikimori`, `zzzfun`,
  `bilibili_channel`, `fixture`): a request goes out, an answer is parsed; what
  the registry makes of success, failure and delay is in `ChannelRegistry`.
- **Calendar, schedule, image cache and proxy, Bilibili, Bangumi details and covers,
  Mikan's groups and seasons, `crawl.py`**: reads behind `ResponseCache`
  whose substance is the format of other sites.
- **The player of the room page**: seeking, drift and HLS in the browser, and the
  presence heartbeat's timer.  `docs/WATCH_SYNC_PROTOCOL.md` describes windows
  that suppress the echo of own events; the page no longer has them.
- **Database connections, WAL, migrations**: there is one baseline migration, and
  the models take each function of `database.py` as the transaction it is.
- **Settings, static files, middleware, the other pages, scripts and deployment**:
  no state of their own, or none a property is about.

## Plan

What would add most from here:

1. The safety parts the liveness properties rest on, as theorems: that a stream
   whose browser has gone is never past the step that notices it, that a search
   has always a step to go on with.
2. Two `RoomPage`s on one `RoomEvents`, in place of the page's private stream:
   overflow on the server and overtaken answers in the browser at once.
3. `ResponseCache` with `MetadataSearch` on two keys, and properties of
   `invalidate` should it get a caller.
4. Should the comments named above be meant as promises: each as a property that
   the code violates, beside the four findings.
5. The player, should the page get its echo windows back.
