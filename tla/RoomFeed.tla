------------------------------- MODULE RoomFeed -------------------------------
(***************************************************************************)
(* What the event hub of a watch room promises a stream that subscribed to *)
(* it (app/services/room_events.py:34-36): from the moment it subscribes a *)
(* stream is handed the room's events one at a time, in the order they were *)
(* published, each at most once; it misses an event only by falling Depth  *)
(* events behind, and then it misses the oldest ones.                      *)
(*                                                                         *)
(* Events are numbered in the order of publication.  A reader is the       *)
(* number of the last event it was handed or has missed.                   *)
(***************************************************************************)
EXTENDS Naturals

CONSTANTS
  Streams,  \* the connections that may read the feed
  Absent,   \* the position of a connection that does not read
  Depth,    \* how many events a reader may be behind
  Events    \* bound: events a behaviour may publish

VARIABLES
  published,  \* how many events were published
  reader      \* the position of every connection

feedVars == <<published, reader>>

Init ==
  /\ published = 0
  /\ reader = [s \in Streams |-> Absent]

Readers == {s \in Streams : reader[s] # Absent}

Lag(s) == published - reader[s]

\* One more event: whoever is Depth events behind misses the oldest of them.
Publish ==
  /\ published < Events
  /\ published' = published + 1
  /\ reader' = [s \in Streams |->
                  IF s \in Readers /\ Lag(s) = Depth THEN reader[s] + 1 ELSE reader[s]]

Join(s) ==
  /\ s \notin Readers
  /\ reader' = [reader EXCEPT ![s] = published]
  /\ UNCHANGED published

Read(s) ==
  /\ s \in Readers
  /\ reader[s] < published
  /\ reader' = [reader EXCEPT ![s] = @ + 1]
  /\ UNCHANGED published

Leave(s) ==
  /\ s \in Readers
  /\ reader' = [reader EXCEPT ![s] = Absent]
  /\ UNCHANGED published

Next ==
  \/ Publish
  \/ \E s \in Streams : Join(s) \/ Read(s) \/ Leave(s)

Spec == Init /\ [][Next]_feedVars
=============================================================================
