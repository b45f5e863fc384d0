------------------------------- MODULE Accounts -------------------------------
(***************************************************************************)
(* Accounts, sessions and the login limiter: app/services/auth.py,         *)
(* app/services/rate_limit.py, app/dependencies/auth.py and                *)
(* app/routers/auth.py over the tables users and user_sessions.            *)
(*                                                                         *)
(* A stored time is compared with the present only, so it is kept as an    *)
(* age, capped above the largest limit; Tick is half a second, because     *)
(* Retry-After is rounded down to whole seconds.  Passwords are abstracted *)
(* to whether the attempt is right.  The limiter's lock is never contended *)
(* across an await, so hit and seconds_until_retry are one step.           *)
(***************************************************************************)
EXTENDS Integers, Sequences

CONSTANTS
  Names,        \* usernames, normalized
  Addresses,    \* client addresses, the limiter's keys
  Tokens,       \* the session tokens secrets draws, each at most once
  NoSession,    \* the absence of a user_sessions row
  SessionTtl,   \* SESSION_TTL_SECONDS, in ticks
  Window,       \* window_seconds of LOGIN_FAILURE_LIMITER, in ticks
  Capacity      \* its capacity, 10

ASSUME AccountLimits ==
  SessionTtl \in Nat /\ Window \in Nat \ {0} /\ Capacity \in Nat \ {0}

TicksPerSecond == 2
SessionRow == [user : Names, age : 0..SessionTtl + 1]
Ages == 0..Window + 1

ASSUME NoSessionIsNoRow == NoSession \notin SessionRow

VARIABLES
  users,     \* the registered usernames
  session,   \* user_sessions, keyed by token
  drawn,     \* the tokens issued so far
  over,      \* history: tokens that were logged out or refused as expired
  bucket,    \* _hits: ages of the counted failures of an address, oldest first
  refused,   \* history: ages of the failures answered 400 since the last reset
  told       \* history: ticks of the first Retry-After still to wait, -1 for none

accountVars == <<users, session, drawn, over, bucket, refused, told>>

-----------------------------------------------------------------------------
(***************************************************************************)
(* The sliding window.                                                     *)
(***************************************************************************)

\* The while loop of hit pops from the left as long as the oldest hit is older
\* than limit: how many it pops, and what it leaves.
Popped(ages, limit) ==
  CHOOSE k \in 0..Len(ages) :
    /\ \A i \in 1..k : ages[i] > limit
    /\ k < Len(ages) => ages[k + 1] <= limit

Counted(ages, limit) == SubSeq(ages, Popped(ages, limit) + 1, Len(ages))

\* A bug the checks must notice: a hit exactly one window old is forgotten.
InWindowHalfOpen(ages) == Counted(ages, Window - 1)

\* hit pops from the left while bucket[0] < now - window.
InWindow(ages) == Counted(ages, Window)

Throttled(a) == Len(InWindow(bucket[a])) >= Capacity

\* seconds_until_retry and the header: whole seconds, rounded down, one at least.
RetryAfter(ages) ==
  LET seconds == (Window - Head(ages)) \div TicksPerSecond
  IN TicksPerSecond * (IF seconds > 1 THEN seconds ELSE 1)

\* The promise a client holds on to: the first one that is still running.
FirstPromise(a, ages) == IF told[a] > 0 THEN told[a] ELSE RetryAfter(ages)

-----------------------------------------------------------------------------
(***************************************************************************)
(* Routes.                                                                 *)
(***************************************************************************)

\* _issue_session: create_user_session under a fresh token.
IssueSession(n) ==
  \E t \in Tokens \ drawn :
    /\ drawn' = drawn \cup {t}
    /\ session' = [session EXCEPT ![t] = [user |-> n, age |-> 0]]

\* register: a taken name is refused by the UNIQUE column and changes nothing.
Register(n) ==
  /\ n \notin users
  /\ users' = users \cup {n}
  /\ IssueSession(n)
  /\ UNCHANGED <<over, bucket, refused, told>>

\* register, when the process ends between create_user and create_user_session.
RegisterHalfway(n) ==
  /\ n \notin users
  /\ users' = users \cup {n}
  /\ UNCHANGED <<session, drawn, over, bucket, refused, told>>

\* login with the right password: the address's failures are forgotten.
LoginSucceeds(n, a) ==
  /\ n \in users
  /\ IssueSession(n)
  /\ bucket' = [bucket EXCEPT ![a] = <<>>]
  /\ refused' = [refused EXCEPT ![a] = <<>>]
  /\ told' = [told EXCEPT ![a] = -1]
  /\ UNCHANGED <<users, over>>

\* A bug the checks must notice: a throttled attempt is counted as well.
CountThrottled(a) ==
  /\ Throttled(a)
  /\ bucket' = [bucket EXCEPT ![a] = Append(Tail(InWindow(@)), 0)]
  /\ told' = [told EXCEPT ![a] = FirstPromise(a, bucket'[a])]
  /\ UNCHANGED <<users, session, drawn, over, refused>>

\* login with a wrong name or password, over the limit: 429.
LoginThrottled(a) ==
  /\ Throttled(a)
  /\ bucket' = [bucket EXCEPT ![a] = InWindow(@)]
  /\ told' = [told EXCEPT ![a] = FirstPromise(a, bucket'[a])]
  /\ UNCHANGED <<users, session, drawn, over, refused>>

\* The same within the limit: counted, and answered 400.
LoginFails(a) ==
  /\ ~Throttled(a)
  /\ bucket' = [bucket EXCEPT ![a] = Append(InWindow(@), 0)]
  /\ refused' = [refused EXCEPT ![a] = Append(Counted(@, Window), 0)]
  /\ told' = [told EXCEPT ![a] = -1]
  /\ UNCHANGED <<users, session, drawn, over>>

Expired(t) == session[t] # NoSession /\ session[t].age > SessionTtl

\* A bug the checks must notice: the refused row stays.
RefuseKeepingRow(t) ==
  /\ Expired(t)
  /\ over' = over \cup {t}
  /\ UNCHANGED <<users, session, drawn, bucket, refused, told>>

\* get_user_by_session deletes an expired row and answers None: 401.  (For a
\* row in time it only stamps last_used_at, which decides nothing.)
RefuseExpired(t) ==
  /\ Expired(t)
  /\ session' = [session EXCEPT ![t] = NoSession]
  /\ over' = over \cup {t}
  /\ UNCHANGED <<users, drawn, bucket, refused, told>>

\* logout: the row of the presented token goes.
Logout(t) ==
  /\ t \in drawn
  /\ session' = [session EXCEPT ![t] = NoSession]
  /\ over' = over \cup {t}
  /\ UNCHANGED <<users, drawn, bucket, refused, told>>

-----------------------------------------------------------------------------
Aged(age, last) == IF age < last THEN age + 1 ELSE age

Tick ==
  /\ session' = [t \in Tokens |->
       IF session[t] = NoSession THEN NoSession
       ELSE [session[t] EXCEPT !.age = Aged(@, SessionTtl + 1)]]
  /\ bucket' = [a \in Addresses |->
       [i \in DOMAIN bucket[a] |-> Aged(bucket[a][i], Window + 1)]]
  /\ refused' = [a \in Addresses |->
       Counted([i \in DOMAIN refused[a] |-> Aged(refused[a][i], Window + 1)], Window)]
  /\ told' = [a \in Addresses |-> IF told[a] > 0 THEN told[a] - 1 ELSE told[a]]
  /\ UNCHANGED <<users, drawn, over>>

\* The process starts again: init_db purges expired sessions, the limiter,
\* which lives in memory, starts empty.
Restart ==
  /\ session' = [t \in Tokens |-> IF Expired(t) THEN NoSession ELSE session[t]]
  /\ bucket' = [a \in Addresses |-> <<>>]
  /\ refused' = [a \in Addresses |-> <<>>]
  /\ told' = [a \in Addresses |-> -1]
  /\ UNCHANGED <<users, drawn, over>>

AccountInit ==
  /\ users = {} /\ drawn = {} /\ over = {}
  /\ session = [t \in Tokens |-> NoSession]
  /\ bucket = [a \in Addresses |-> <<>>]
  /\ refused = [a \in Addresses |-> <<>>]
  /\ told = [a \in Addresses |-> -1]

AccountNext ==
  \/ \E n \in Names : Register(n) \/ RegisterHalfway(n)
  \/ \E n \in Names, a \in Addresses : LoginSucceeds(n, a)
  \/ \E a \in Addresses : LoginFails(a) \/ LoginThrottled(a)
  \/ \E t \in Tokens : RefuseExpired(t) \/ Logout(t)
  \/ Tick \/ Restart

AccountSpec == AccountInit /\ [][AccountNext]_accountVars

-----------------------------------------------------------------------------
(***************************************************************************)
(* Properties.                                                             *)
(***************************************************************************)

AccountTypeOK ==
  /\ users \subseteq Names /\ drawn \subseteq Tokens /\ over \subseteq Tokens
  /\ session \in [Tokens -> SessionRow \cup {NoSession}]
  /\ bucket \in [Addresses -> Seq(Ages)]
  /\ refused \in [Addresses -> Seq(Ages)]
  /\ told \in [Addresses -> {-1} \cup Nat]

\* An address gets at most Capacity answers 400 within any Window since it was
\* last cleared: the eleventh failed login of a minute is throttled, and the
\* limiter's memory of an address stays bounded.
FailuresAreCapped ==
  \A a \in Addresses : /\ Len(refused[a]) <= Capacity
                       /\ Len(bucket[a]) <= Capacity

\* A client that waits for as long as Retry-After says is let in less than a
\* second later: the header is the window's rest rounded down, and throttled
\* attempts, its own or others' behind the same address, never prolong it.
RetryAfterIsCloseEnough ==
  \A a \in Addresses :
    told[a] = 0 /\ Throttled(a) => Window - Head(InWindow(bucket[a])) < TicksPerSecond

\* However failures, successes, pauses and restarts are spaced, the limiter
\* neither lets more through than it says nor keeps out longer.
TheLimiterKeepsItsWord == FailuresAreCapped /\ RetryAfterIsCloseEnough

\* A token that was logged out or refused as expired never authenticates
\* again, whatever is issued, purged or restarted afterwards.
EndedSessionsStayEnded == \A t \in over : session[t] = NoSession

================================================================================
