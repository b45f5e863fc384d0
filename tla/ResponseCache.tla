----------------------------- MODULE ResponseCache -----------------------------
(***************************************************************************)
(* The response cache: app/services/response_cache.py, the process-local   *)
(* dictionary (L1) over the table response_cache of                        *)
(* app/services/database.py, for one key (keys share nothing).             *)
(*                                                                         *)
(* A payload is the number of the upstream edition it was made from.  Code *)
(* between two awaits is one step; a producer awaits, and meanwhile other  *)
(* requests, refreshes, an invalidation or a restart happen.  An expiry is *)
(* kept as the ticks until expires_at, 0 for past.                         *)
(***************************************************************************)
EXTENDS Integers, FiniteSets

CONSTANTS
  Producers,     \* identities of the producers that may run at the same time
  NoEntry,       \* no entry, or no payload (a producer's None)
  Ttl,           \* ttl_seconds, in ticks
  MaxEdition     \* bound: editions of the upstream

ASSUME CacheBounds == Ttl \in Nat /\ MaxEdition \in Nat

Entries == [payload : 0..MaxEdition, left : 0..Ttl + 1]
Purposes == {"refresh", "request", "warm"}

ASSUME NoEntryIsNoEntry == NoEntry \notin Entries \cup 0..MaxEdition

VARIABLES
  edition,     \* what the upstream has now
  l1,          \* _l1_cache[key]
  row,         \* the row of response_cache
  producing,   \* producers under way: [Producers -> [purpose, got] or NoEntry]
  writer,      \* history: what the producer of the last payload ran for
  overtaken    \* history: producers that were under way when it was stored

cacheVars == <<edition, l1, row, producing, writer, overtaken>>
cacheHistory == <<writer, overtaken>>

Running(purpose) ==
  {p \in Producers : producing[p] # NoEntry /\ producing[p].purpose = purpose}

L1Fresh == l1 # NoEntry /\ l1.left > 0
RowFresh == row # NoEntry /\ row.left > 0

-----------------------------------------------------------------------------
\* The producer asks the upstream and awaits its answer.
Produce(purpose) ==
  \E p \in Producers :
    /\ producing[p] = NoEntry
    /\ producing' = [producing EXCEPT ![p] = [purpose |-> purpose, got |-> edition]]

\* _l1_get drops an expired entry while it looks.
Looked == IF L1Fresh THEN l1 ELSE NoEntry

\* A bug the checks must notice: a copy in memory gets a lifetime of its own.
ServeForLonger ==
  /\ ~L1Fresh /\ RowFresh
  /\ l1' = [row EXCEPT !.left = Ttl]
  /\ UNCHANGED <<edition, row, producing, cacheHistory>>

\* get_or_set_json and get_cached_json with a fresh row: it is copied to L1.
ServeFresh ==
  /\ ~L1Fresh /\ RowFresh
  /\ l1' = row
  /\ UNCHANGED <<edition, row, producing, cacheHistory>>

\* A bug the checks must notice: a refresh is started beside one that runs.
ServeStaleAnyway ==
  /\ ~L1Fresh /\ row # NoEntry /\ ~RowFresh
  /\ l1' = Looked
  /\ Produce("refresh")
  /\ UNCHANGED <<edition, row, cacheHistory>>

\* get_or_set_json with an expired row is served from it, and schedule_refresh
\* starts a task unless one is running.
ServeStale ==
  /\ ~L1Fresh /\ row # NoEntry /\ ~RowFresh
  /\ l1' = Looked
  /\ \/ Running("refresh") = {} /\ Produce("refresh")
     \/ Running("refresh") # {} /\ UNCHANGED producing
  /\ UNCHANGED <<edition, row, cacheHistory>>

\* get_or_set_json with nothing stored (or a stale row and allow_stale off), or
\* with force_refresh, awaits the producer itself; two requests run two.
Request(force) ==
  /\ force \/ (~L1Fresh /\ ~RowFresh)
  /\ l1' = IF force THEN l1 ELSE Looked
  /\ Produce("request")
  /\ UNCHANGED <<edition, row, cacheHistory>>

\* warm_json.
Warm ==
  /\ Produce("warm")
  /\ UNCHANGED <<edition, l1, row, cacheHistory>>

Made(p, ticks) == [payload |-> producing[p].got, left |-> ticks]

Returned(p) ==
  /\ producing[p] # NoEntry
  /\ producing' = [producing EXCEPT ![p] = NoEntry]
  /\ writer' = producing[p].purpose
  /\ overtaken' = {q \in Producers \ {p} : producing[q] # NoEntry}
  /\ UNCHANGED edition

\* A bug the checks must notice: the payload is stored in the table only.
StoreRow(p) ==
  /\ Returned(p)
  /\ row' = Made(p, Ttl)
  /\ UNCHANGED l1

\* The producer returns a payload: set_response_cache, then _l1_set, which
\* reads the clock again and may find it a tick later.
Store(p) ==
  /\ Returned(p)
  /\ row' = Made(p, Ttl)
  /\ \E late \in 0..1 : l1' = Made(p, Ttl + late)

\* It returns None, raises, or the write fails: the cache stays as it is (a
\* request then falls back on the entry it read, or answers None or 500).
ProduceFails(p) ==
  /\ producing[p] # NoEntry
  /\ producing' = [producing EXCEPT ![p] = NoEntry]
  /\ overtaken' = overtaken \ {p}
  /\ UNCHANGED <<edition, l1, row, writer>>

\* invalidate: both layers, and nothing under way.  (The module offers it; at
\* present nothing but its tests calls it.)
Invalidate ==
  /\ row' = NoEntry /\ l1' = NoEntry
  /\ UNCHANGED <<edition, producing, cacheHistory>>

-----------------------------------------------------------------------------
\* The upstream changes.
Publish ==
  /\ edition < MaxEdition
  /\ edition' = edition + 1
  /\ UNCHANGED <<l1, row, producing, cacheHistory>>

Sooner(entry) ==
  IF entry # NoEntry /\ entry.left > 0 THEN [entry EXCEPT !.left = @ - 1] ELSE entry

CacheTick ==
  /\ l1' = Sooner(l1) /\ row' = Sooner(row)
  /\ UNCHANGED <<edition, producing, cacheHistory>>

\* The process starts again: memory and tasks are gone, the table stays, but
\* for a row init_db finds long expired.
CacheRestart ==
  /\ l1' = NoEntry
  /\ row' \in {row} \cup (IF RowFresh THEN {} ELSE {NoEntry})
  /\ producing' = [p \in Producers |-> NoEntry]
  /\ overtaken' = {}
  /\ UNCHANGED <<edition, writer>>

CacheInit ==
  /\ edition = 0
  /\ l1 = NoEntry /\ row = NoEntry
  /\ producing = [p \in Producers |-> NoEntry]
  /\ writer = "request" /\ overtaken = {}

CacheNext ==
  \/ ServeFresh \/ ServeStale \/ Warm \/ Invalidate
  \/ \E force \in BOOLEAN : Request(force)
  \/ \E p \in Producers : Store(p) \/ ProduceFails(p)
  \/ Publish \/ CacheTick \/ CacheRestart

CacheSpec == CacheInit /\ [][CacheNext]_cacheVars

-----------------------------------------------------------------------------
(***************************************************************************)
(* Properties.                                                             *)
(***************************************************************************)

CacheTypeOK ==
  /\ edition \in 0..MaxEdition
  /\ l1 \in Entries \cup {NoEntry} /\ row \in Entries \cup {NoEntry}
  /\ producing \in [Producers -> [purpose : Purposes, got : 0..MaxEdition] \cup {NoEntry}]
  /\ writer \in Purposes /\ overtaken \subseteq Producers

\* What memory serves is what the table holds: however requests, refreshes,
\* warmers, purges and restarts mix, an unexpired L1 entry has the payload of
\* the row and expires with it (or a tick later, of the second look at the
\* clock), so no answer outlives its time by being copied, and a restart never
\* changes the answer of a key that is fresh; one task at a time refreshes.
LayersAgree ==
  /\ L1Fresh => row # NoEntry /\ row.payload = l1.payload /\ l1.left <= row.left + 1
  /\ Cardinality(Running("refresh")) <= 1

\* An answer goes back to an older one only when two producers overlapped that
\* are not both refreshes: the slower was under way already when the newer was
\* stored, and one of the two is a request that found nothing (or was forced)
\* or a warmer.  The refreshes of a key alone only move it forward.
AnswersGoBackWhereRequestsRaceOnly ==
  [][row # NoEntry /\ row' # NoEntry /\ row'.payload < row.payload =>
       \E p \in overtaken :
         /\ producing[p] # NoEntry /\ producing'[p] = NoEntry
         /\ producing[p].purpose # "refresh" \/ writer # "refresh"]_cacheVars

================================================================================
