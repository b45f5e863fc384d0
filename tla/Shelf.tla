--------------------------------- MODULE Shelf ---------------------------------
(***************************************************************************)
(* What a user keeps: tracked shows (app/routers/favorites.py and the      *)
(* import of the old shared table) and watch history                       *)
(* (app/services/watch_history.py, recorded by the room routes).           *)
(*                                                                         *)
(* Every operation is one transaction of app/services/database.py and no   *)
(* handler awaits inside one, so each is a step.  Titles, covers and tags  *)
(* are left out; a tracking is a status and an episode number.             *)
(***************************************************************************)
EXTENDS Integers

CONSTANTS
  Viewers,     \* users who keep a shelf
  Shows,       \* bangumi ids
  Media,       \* media assets a room may play
  NoRow,       \* the absence of a row, or of a media id
  MaxLength,   \* bound: episodes of a show, seconds of a media file
  MaxClock     \* bound: seconds a behaviour lasts

ASSUME ShelfBounds == MaxLength \in Nat /\ MaxClock \in Nat

Tracking == [status : {"watching", "completed"}, episode : 0..MaxLength]
Entry == [position : 0..MaxLength + 1, duration : 0..MaxLength, at : 0..MaxClock,
          created : 0..MaxClock]

ASSUME NoRowIsNoRow == NoRow \notin Tracking \cup Entry \cup Media

VARIABLES
  legacy,    \* favorites, the table from before accounts: [Shows -> Tracking or NoRow]
  tracked,   \* user_favorites
  picked,    \* history: the tracking the user last chose, NoRow if none
  length,    \* media_assets.duration, 0 when probing found none
  room,      \* the state of the room the users are in
  watched,   \* user_watch_history of that room
  lately,    \* history: the media each viewer's progress was last recorded for
  clock      \* int(time.time())

shelfVars == <<legacy, tracked, picked, length, room, watched, lately, clock>>

favoriteVars == <<tracked, picked>>
historyVars == <<room, watched, lately>>

-----------------------------------------------------------------------------
(***************************************************************************)
(* Favorites.                                                              *)
(***************************************************************************)

Fresh == [status |-> "watching", episode |-> 0]

\* A bug the checks must notice: replacing a row resets the tracking.
KeptReset(v, s) == Fresh

\* add_user_favorite replaces the row, and carries the tracking columns over.
Kept(v, s) == IF tracked[<<v, s>>] = NoRow THEN Fresh ELSE tracked[<<v, s>>]

AddFavorite(v, s) ==
  /\ tracked' = [tracked EXCEPT ![<<v, s>>] = Kept(v, s)]
  /\ picked' = [picked EXCEPT ![<<v, s>>] = IF @ = NoRow THEN Fresh ELSE @]
  /\ UNCHANGED <<legacy, length, clock, historyVars>>

\* update_favorite; without a row the UPDATE matches nothing: 404.
UpdateFavorite(v, s, new) ==
  /\ tracked[<<v, s>>] # NoRow
  /\ tracked' = [tracked EXCEPT ![<<v, s>>] = new]
  /\ picked' = [picked EXCEPT ![<<v, s>>] = new]
  /\ UNCHANGED <<legacy, length, clock, historyVars>>

RemoveFavorite(v, s) ==
  /\ tracked[<<v, s>>] # NoRow
  /\ tracked' = [tracked EXCEPT ![<<v, s>>] = NoRow]
  /\ picked' = [picked EXCEPT ![<<v, s>>] = NoRow]
  /\ UNCHANGED <<legacy, length, clock, historyVars>>

Importable(v) == {s \in Shows : legacy[s] # NoRow /\ tracked[<<v, s>>] = NoRow}

\* import_legacy_favorites copies what the account does not track; the old
\* table stays, so that other accounts can import it and anyone may repeat it.
ImportLegacy(v) ==
  /\ Importable(v) # {}
  /\ tracked' = [k \in DOMAIN tracked |->
       IF k[1] = v /\ k[2] \in Importable(v) THEN legacy[k[2]] ELSE tracked[k]]
  /\ picked' = [k \in DOMAIN picked |->
       IF k[1] = v /\ k[2] \in Importable(v) THEN legacy[k[2]] ELSE picked[k]]
  /\ UNCHANGED <<legacy, length, clock, historyVars>>

-----------------------------------------------------------------------------
(***************************************************************************)
(* Watch history.                                                          *)
(***************************************************************************)

\* Positions a client may send: before the start and past the end, too.
Positions == -1..MaxLength + 1

\* A bug the checks must notice: the position is stored as it was sent.
NormalizedUnclamped(m, seconds) == seconds

\* _normalize_progress: clamped to the asset's duration when it has one.
Normalized(m, seconds) ==
  IF seconds < 0 THEN 0
  ELSE IF length[m] > 0 /\ seconds > length[m] THEN length[m]
  ELSE seconds

\* A bug the checks must notice: replacing an entry keeps its first time.
StampedFirst(old) == IF old = NoRow THEN clock ELSE old.created
StampedNow(old) == clock

\* record_progress and upsert_user_watch_history.
Record(v, m, seconds) ==
  LET old == watched[<<v, m>>]
  IN /\ watched' = [watched EXCEPT ![<<v, m>>] =
          [position |-> Normalized(m, seconds), duration |-> length[m],
           at |-> StampedNow(old),
           created |-> IF old = NoRow THEN clock ELSE old.created]]
     /\ lately' = [lately EXCEPT ![v] = m]

\* PUT /watch-rooms/{id}/state by a signed-in owner, or creating the room: the
\* state is stored as it was sent, then the user's progress is recorded.
PutState(v, m, seconds) ==
  /\ room' = [media |-> m, position |-> seconds]
  /\ Record(v, m, seconds)
  /\ UNCHANGED <<legacy, favoriteVars, length, clock>>

\* The same by a guest, or with a recording that fails (it is only logged).
PutStateUnrecorded(m, seconds) ==
  /\ room' = [media |-> m, position |-> seconds]
  /\ UNCHANGED <<legacy, favoriteVars, length, clock, watched, lately>>

\* POST /watch-history/progress with a media file and a position of its own.
SyncProgress(v, m, seconds) ==
  /\ Record(v, m, seconds)
  /\ UNCHANGED <<legacy, favoriteVars, length, room, clock>>

\* The same with both left out: they are the room's; 409 when it has no media.
SyncRoomProgress(v) ==
  /\ room.media # NoRow
  /\ SyncProgress(v, room.media, room.position)

\* get_user_watch_history_entry without a media id: ORDER BY updated_at DESC
\* LIMIT 1, which leaves open which of the entries of one second comes first.
ResumeCandidates(v) ==
  {m \in Media : /\ watched[<<v, m>>] # NoRow
                 /\ \A n \in Media : watched[<<v, n>>] # NoRow =>
                                       watched[<<v, n>>].at <= watched[<<v, m>>].at}

-----------------------------------------------------------------------------
\* A scan probes a file again and may find another duration, or none.
Rescan(m, seconds) ==
  /\ length[m] # seconds
  /\ length' = [length EXCEPT ![m] = seconds]
  /\ UNCHANGED <<legacy, favoriteVars, clock, historyVars>>

ShelfTick ==
  /\ clock < MaxClock
  /\ clock' = clock + 1
  /\ UNCHANGED <<legacy, favoriteVars, length, historyVars>>

ShelfInit ==
  /\ legacy \in [Shows -> {NoRow, [status |-> "completed", episode |-> MaxLength]}]
  /\ tracked = [k \in Viewers \X Shows |-> NoRow]
  /\ picked = [k \in Viewers \X Shows |-> NoRow]
  /\ length = [m \in Media |-> MaxLength]
  /\ room = [media |-> NoRow, position |-> 0]
  /\ watched = [k \in Viewers \X Media |-> NoRow]
  /\ lately = [v \in Viewers |-> NoRow]
  /\ clock = 0

FavoritesNext ==
  \/ \E v \in Viewers, s \in Shows : AddFavorite(v, s) \/ RemoveFavorite(v, s)
  \/ \E v \in Viewers, s \in Shows, new \in Tracking : UpdateFavorite(v, s, new)
  \/ \E v \in Viewers : ImportLegacy(v)

HistoryNext ==
  \/ \E v \in Viewers, m \in Media, p \in Positions :
       PutState(v, m, p) \/ SyncProgress(v, m, p)
  \/ \E m \in Media, p \in Positions : PutStateUnrecorded(m, p)
  \/ \E v \in Viewers : SyncRoomProgress(v)
  \/ \E m \in Media, p \in 0..MaxLength : Rescan(m, p)
  \/ ShelfTick

ShelfNext == FavoritesNext \/ HistoryNext

ShelfSpec == ShelfInit /\ [][ShelfNext]_shelfVars

-----------------------------------------------------------------------------
(***************************************************************************)
(* Properties.                                                             *)
(***************************************************************************)

ShelfTypeOK ==
  /\ legacy \in [Shows -> Tracking \cup {NoRow}]
  /\ tracked \in [Viewers \X Shows -> Tracking \cup {NoRow}]
  /\ picked \in [Viewers \X Shows -> Tracking \cup {NoRow}]
  /\ length \in [Media -> 0..MaxLength]
  /\ room \in [media : Media \cup {NoRow}, position : Positions]
  /\ watched \in [Viewers \X Media -> Entry \cup {NoRow}]
  /\ lately \in [Viewers -> Media \cup {NoRow}]
  /\ clock \in 0..MaxClock

\* A user's status and episode survive everything but the user's own update
\* and removal: adding a tracked show again and importing the old table,
\* once or often, never reset them.
ChosenTrackingIsKept == \A k \in Viewers \X Shows : tracked[k] = picked[k]

\* Resuming in a room offers what the viewer watched last, whatever was
\* replaced or rescanned in between (of two files of the same second, either),
\* at a position inside the file it was recorded for.
ResumeIsWhatWasWatchedLast ==
  \A v \in Viewers :
    /\ lately[v] # NoRow => lately[v] \in ResumeCandidates(v)
    /\ \A m \in ResumeCandidates(v) :
         watched[<<v, m>>].duration > 0
           => watched[<<v, m>>].position <= watched[<<v, m>>].duration

\* What a user put on the shelf stays there as it was put, whatever else is
\* written over the same rows.
TheShelfIsKept == ChosenTrackingIsKept /\ ResumeIsWhatWasWatchedLast

================================================================================
