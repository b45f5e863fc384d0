----------------------------- MODULE QbConnection -----------------------------
(***************************************************************************)
(* The connection to qBittorrent: app/services/qbittorrent.py, called by   *)
(* app/main.py at start and by app/routers/download.py, whose handlers run *)
(* it in worker threads.                                                   *)
(*                                                                         *)
(* A request is one thread: the route's check on the event loop, then      *)
(* _ensure_connected under the lock, then the operation without the lock,  *)
(* on whatever client the service has by then.  A client is the number of  *)
(* its login; qBittorrent accepts the latest session only (a lost session  *)
(* is one it no longer knows).                                             *)
(***************************************************************************)
EXTENDS Integers, FiniteSets

CONSTANTS
  Threads,      \* worker threads: requests at one time
  Nobody,       \* the lock is free
  MaxLosses     \* bound: sessions qBittorrent forgets

ASSUME QbBounds == MaxLosses \in Nat /\ Nobody \notin Threads

VARIABLES
  reachable,   \* the port answers
  alive,       \* qBittorrent knows the session of the newest client
  connected,   \* _connected
  hasClient,   \* _client is not None
  holder,      \* who holds _connect_lock
  pc,          \* where each thread is
  logins,      \* logins so far
  losses       \* sessions lost so far

qbVars == <<reachable, alive, connected, hasClient, holder, pc, logins, losses>>
worldVars == <<reachable, losses>>

At(t, place) == pc[t] = place
Go(t, place) == pc' = [pc EXCEPT ![t] = place]

-----------------------------------------------------------------------------
\* A route refuses at once when the service is not connected: 503.
Enter(t) ==
  /\ At(t, "idle") /\ connected
  /\ Go(t, "waiting")
  /\ UNCHANGED <<worldVars, alive, connected, hasClient, holder, logins>>

\* A bug the checks must notice: nobody waits for the lock.
LockNever(t) ==
  /\ At(t, "waiting")
  /\ Go(t, "checking")
  /\ UNCHANGED <<worldVars, alive, connected, hasClient, holder, logins>>

\* with self._connect_lock.
Lock(t) ==
  /\ At(t, "waiting") /\ holder = Nobody
  /\ holder' = t
  /\ Go(t, "checking")
  /\ UNCHANGED <<worldVars, alive, connected, hasClient, logins>>

\* The ping answers: the session is used as it is.
PingAnswers(t) ==
  /\ At(t, "checking") /\ connected /\ hasClient /\ reachable /\ alive
  /\ holder' = Nobody
  /\ Go(t, "using")
  /\ UNCHANGED <<worldVars, alive, connected, hasClient, logins>>

\* It does not, or there is no connection: _do_connect.
PingFails(t) ==
  /\ At(t, "checking") /\ ~(connected /\ hasClient /\ reachable /\ alive)
  /\ Go(t, "connecting")
  /\ UNCHANGED <<worldVars, alive, connected, hasClient, holder, logins>>

\* The port check fails: not connected, and the caller gets the error.
PortRefused(t) ==
  /\ At(t, "connecting") /\ ~reachable
  /\ connected' = FALSE
  /\ holder' = Nobody
  /\ Go(t, "idle")
  /\ UNCHANGED <<worldVars, alive, hasClient, logins>>

\* A new client, and its login.
LogIn(t) ==
  /\ At(t, "connecting") /\ reachable
  /\ hasClient' = TRUE /\ connected' = TRUE /\ alive' = TRUE
  /\ logins' = logins + 1
  /\ holder' = Nobody
  /\ Go(t, "using")
  /\ UNCHANGED worldVars

\* The port answers and the login fails: the new client stays, _connected is
\* left as it was, the caller gets the error.
LoginRefused(t) ==
  /\ At(t, "connecting")
  /\ hasClient' = TRUE /\ alive' = FALSE
  /\ holder' = Nobody
  /\ Go(t, "idle")
  /\ UNCHANGED <<worldVars, connected, logins>>

\* The operation itself, by whatever it answers.
Operate(t) ==
  /\ At(t, "using")
  /\ Go(t, "idle")
  /\ UNCHANGED <<worldVars, alive, connected, hasClient, holder, logins>>

-----------------------------------------------------------------------------
\* qBittorrent stops answering, and its sessions are gone with it.
GoDown ==
  /\ reachable /\ losses < MaxLosses
  /\ losses' = losses + 1
  /\ reachable' = FALSE /\ alive' = FALSE
  /\ UNCHANGED <<connected, hasClient, holder, pc, logins>>

ComeUp ==
  /\ ~reachable
  /\ reachable' = TRUE
  /\ UNCHANGED <<alive, connected, hasClient, holder, pc, logins, losses>>

\* The session expires while qBittorrent goes on.
LoseSession ==
  /\ reachable /\ alive /\ losses < MaxLosses
  /\ losses' = losses + 1
  /\ alive' = FALSE
  /\ UNCHANGED <<reachable, connected, hasClient, holder, pc, logins>>

\* lifespan connects once, when the process starts; if that fails the downloads
\* are off, and the process serves.  (Its five seconds may be over before the
\* worker thread is done: the thread goes on and holds the lock.)
QbInit ==
  /\ reachable \in BOOLEAN /\ losses = 0
  /\ \/ /\ reachable /\ alive = TRUE /\ connected = TRUE /\ hasClient = TRUE /\ logins = 1
        /\ holder = Nobody /\ pc = [t \in Threads |-> "idle"]
     \/ /\ alive = FALSE /\ connected = FALSE /\ hasClient = FALSE /\ logins = 0
        /\ \/ holder = Nobody /\ pc = [t \in Threads |-> "idle"]
           \/ \E t \in Threads :
                holder = t /\ pc = [u \in Threads |-> IF u = t THEN "connecting" ELSE "idle"]

Work(t) ==
  \/ Lock(t) \/ PingAnswers(t) \/ PingFails(t)
  \/ PortRefused(t) \/ LogIn(t) \/ LoginRefused(t) \/ Operate(t)

QbNext ==
  \/ \E t \in Threads : Enter(t) \/ Work(t)
  \/ GoDown \/ ComeUp \/ LoseSession

\* Threads that run get on, users keep asking, qBittorrent comes up again and
\* a login that is tried again and again works in the end.
QbFairness ==
  /\ \A t \in Threads : WF_qbVars(Work(t)) /\ SF_qbVars(Enter(t)) /\ SF_qbVars(LogIn(t))
  /\ WF_qbVars(ComeUp)

QbSpec == QbInit /\ [][QbNext]_qbVars

-----------------------------------------------------------------------------
(***************************************************************************)
(* Properties.                                                             *)
(***************************************************************************)

QbTypeOK ==
  /\ reachable \in BOOLEAN /\ alive \in BOOLEAN
  /\ connected \in BOOLEAN /\ hasClient \in BOOLEAN
  /\ holder \in Threads \cup {Nobody}
  /\ pc \in [Threads -> {"idle", "waiting", "checking", "connecting", "using"}]
  /\ logins \in Nat /\ losses \in 0..MaxLosses

\* "two requests racing on a dead session don't log in twice and invalidate
\* each other server-side": however many threads find the session dead, one
\* logs in and the others find its session.
OneLoginPerLoss == logins <= losses + 1

\* "Reconnect if needed" (_ensure_connected): a service that is connected is
\* connected again after an outage that ended, as long as users keep asking.
DownloadsComeBack == [](connected => []<>(connected /\ alive))

================================================================================
