---------------------------- MODULE MetadataSearch ----------------------------
(***************************************************************************)
(* Searching Bangumi for metadata: `search` of app/services/bangumi.py     *)
(* with its three guards (a hard timeout, failed keywords, a circuit) over *)
(* the response cache, and the callers that give up on it earlier.         *)
(*                                                                         *)
(* The two layers of the cache agree (ResponseCache), so they are one here *)
(* with one entry per keyword, kept with the ticks until it expires.  What *)
(* a request meets is a state of the world: Bangumi answers, refuses both  *)
(* v0 and the old search at once (an HTTP error, no connection), or the    *)
(* search stalls: Bangumi hangs, or the queue at _rate_limit, which all    *)
(* details and covers share, is longer than the search may last.           *)
(***************************************************************************)
EXTENDS Integers, FiniteSets

CONSTANTS
  Keywords,      \* what users search; Bangumi knows a show for each
  Asks,          \* identities of the searches on the network at one time
  NoAsk,         \* none
  Patience,      \* SEARCH_TIMEOUT_SECONDS, in ticks
  FailTtl,       \* SEARCH_FAIL_CACHE_TTL_SECONDS, in ticks
  FailThreshold, \* SEARCH_FAILURE_THRESHOLD
  FailCooldown,  \* SEARCH_COOLDOWN_SECONDS, in ticks
  KeepFor        \* ttl_seconds of bangumi.search, in ticks

ASSUME SearchConstants ==
  /\ Patience \in Nat /\ FailTtl \in Nat /\ KeepFor \in Nat
  /\ FailThreshold \in Nat \ {0} /\ FailCooldown \in Nat
  /\ FailTtl <= FailCooldown

OnTheNetwork == [keyword : Keywords, purpose : {"request", "refresh"}, left : 0..Patience]

ASSUME NoAskIsNone == NoAsk \notin OnTheNetwork

VARIABLES
  bangumi,        \* what a request meets
  calmFor,        \* history: ticks for which Bangumi has answered
  searchFailures, \* _search_failures, up to the threshold
  searchCooling,  \* _search_cooldown_until, in ticks from now
  negative,       \* _negative_search_cache, in ticks from now
  kept,           \* the entry of a keyword: [hits, left]
  asking,         \* the searches on the network
  snubbed         \* history: keywords refused since they were last found

metaVars ==
  <<bangumi, calmFor, searchFailures, searchCooling, negative, kept, asking, snubbed>>
guardVars == <<searchFailures, searchCooling, negative>>

CalmEnough == Patience + FailCooldown + 1
KeptEntry == [hits : {"none", "empty", "found"}, left : 0..KeepFor]

-----------------------------------------------------------------------------
\* A bug the checks must notice: the circuit closes on a success only.
CooldownUntilProved == searchFailures >= FailThreshold

\* _in_search_cooldown.
InSearchCooldown == searchFailures >= FailThreshold /\ searchCooling > 0

MarkSearchFailure ==
  /\ searchFailures' = IF searchFailures < FailThreshold THEN searchFailures + 1
                       ELSE searchFailures
  /\ searchCooling' = IF searchFailures' >= FailThreshold THEN FailCooldown
                      ELSE searchCooling

MarkSearchSuccess == searchFailures' = 0 /\ searchCooling' = 0

HeldBack(k) == InSearchCooldown \/ negative[k] > 0

RefreshRuns(k) ==
  \E s \in Asks : asking[s] # NoAsk /\ asking[s].keyword = k /\ asking[s].purpose = "refresh"

\* The producer goes to the network.
GoAsk(k, purpose) ==
  /\ \E s \in Asks :
       /\ asking[s] = NoAsk
       /\ asking' = [asking EXCEPT ![s] =
                       [keyword |-> k, purpose |-> purpose, left |-> Patience]]
  /\ UNCHANGED <<bangumi, calmFor, guardVars, kept, snubbed>>

\* search with nothing stored, or by force.  (A fresh entry is returned, a
\* keyword that is held back answers [], and neither changes anything.)
Search(k, force) ==
  /\ ~HeldBack(k)
  /\ force \/ kept[k].hits = "none"
  /\ GoAsk(k, "request")

\* search with an expired entry: it is returned, and one task refreshes it.
SearchStale(k) ==
  /\ ~HeldBack(k)
  /\ kept[k].hits # "none" /\ kept[k].left = 0
  /\ ~RefreshRuns(k)
  /\ GoAsk(k, "refresh")

Gone(s) == asking[s] # NoAsk /\ asking' = [asking EXCEPT ![s] = NoAsk]
Keep(k, what) == kept' = [kept EXCEPT ![k] = [hits |-> what, left |-> KeepFor]]

\* v0 answers, or the old search does after v0 has refused.
Found(s) ==
  /\ Gone(s) /\ bangumi = "answers"
  /\ Keep(asking[s].keyword, "found")
  /\ snubbed' = snubbed \ {asking[s].keyword}
  /\ MarkSearchSuccess
  /\ UNCHANGED <<bangumi, calmFor, negative>>

\* Both refuse: _search_uncached_legacy returns [], which is stored, and counts
\* as a success.  (v0 answering something else than JSON does the same.)
Refused(s) ==
  /\ Gone(s) /\ bangumi = "refuses"
  /\ Keep(asking[s].keyword, "empty")
  /\ snubbed' = snubbed \cup {asking[s].keyword}
  /\ MarkSearchSuccess
  /\ UNCHANGED <<bangumi, calmFor, negative>>

\* A request sent while Bangumi stalled may still run into the timeout when it
\* answers again.
MayTimeOut(s) == asking[s].left = 0 /\ calmFor <= Patience

\* A bug the checks must notice: the timeout is taken for an empty answer.
FailsEmpty(s) ==
  /\ Gone(s) /\ MayTimeOut(s)
  /\ negative' = [negative EXCEPT ![asking[s].keyword] = FailTtl]
  /\ Keep(asking[s].keyword, "empty")
  /\ MarkSearchFailure
  /\ UNCHANGED <<bangumi, calmFor, snubbed>>

\* wait_for cancels the search (or the old search answers something else than
\* JSON, which a stalling Bangumi does as well): a failure of the keyword and
\* of the circuit; what is stored stays.
Fails(s) ==
  /\ Gone(s) /\ MayTimeOut(s)
  /\ negative' = [negative EXCEPT ![asking[s].keyword] = FailTtl]
  /\ MarkSearchFailure
  /\ UNCHANGED <<bangumi, calmFor, kept, snubbed>>

\* expand_keywords waits two of the three seconds and cancels its search, which
\* no handler of `search` catches: nothing is counted.
GivesUp(s) ==
  /\ Gone(s) /\ asking[s].purpose = "request"
  /\ UNCHANGED <<bangumi, calmFor, guardVars, kept, snubbed>>

-----------------------------------------------------------------------------
WorldTurns ==
  /\ bangumi' \in {"answers", "refuses", "stalls"} \ {bangumi}
  /\ calmFor' = 0
  /\ UNCHANGED <<guardVars, kept, asking, snubbed>>

Down(n) == IF n > 0 THEN n - 1 ELSE 0

MetaTick ==
  /\ \A s \in Asks : asking[s] # NoAsk => asking[s].left > 0
  /\ calmFor' = IF bangumi = "answers" /\ calmFor < CalmEnough THEN calmFor + 1 ELSE calmFor
  /\ searchCooling' = Down(searchCooling)
  /\ negative' = [k \in Keywords |-> Down(negative[k])]
  /\ kept' = [k \in Keywords |-> [kept[k] EXCEPT !.left = Down(@)]]
  /\ asking' = [s \in Asks |-> IF asking[s] = NoAsk THEN NoAsk
                               ELSE [asking[s] EXCEPT !.left = Down(@)]]
  /\ UNCHANGED <<bangumi, searchFailures, snubbed>>

\* The process starts again: the table is what is left.
MetaRestart ==
  /\ searchFailures' = 0 /\ searchCooling' = 0
  /\ negative' = [k \in Keywords |-> 0]
  /\ asking' = [s \in Asks |-> NoAsk]
  /\ UNCHANGED <<bangumi, calmFor, kept, snubbed>>

MetaInit ==
  /\ bangumi = "answers" /\ calmFor = 0
  /\ searchFailures = 0 /\ searchCooling = 0
  /\ negative = [k \in Keywords |-> 0]
  /\ kept = [k \in Keywords |-> [hits |-> "none", left |-> 0]]
  /\ asking = [s \in Asks |-> NoAsk]
  /\ snubbed = {}

MetaNext ==
  \/ \E k \in Keywords : SearchStale(k) \/ \E force \in BOOLEAN : Search(k, force)
  \/ \E s \in Asks : Found(s) \/ Refused(s) \/ Fails(s) \/ GivesUp(s)
  \/ WorldTurns \/ MetaTick \/ MetaRestart

MetaSpec == MetaInit /\ [][MetaNext]_metaVars

-----------------------------------------------------------------------------
(***************************************************************************)
(* Properties.                                                             *)
(***************************************************************************)

MetaTypeOK ==
  /\ bangumi \in {"answers", "refuses", "stalls"}
  /\ calmFor \in 0..CalmEnough
  /\ searchFailures \in 0..FailThreshold /\ searchCooling \in 0..FailCooldown
  /\ negative \in [Keywords -> 0..FailTtl]
  /\ kept \in [Keywords -> KeptEntry]
  /\ asking \in [Asks -> OnTheNetwork \cup {NoAsk}]
  /\ snubbed \subseteq Keywords

Calm == calmFor = CalmEnough

\* A stall leaves no trace: once Bangumi has answered for longer than a timeout
\* and a cooldown, no guard holds a keyword back, and a keyword that was not
\* refused outright has lost nothing it had; failures neither prolong the
\* guards for ever nor are they stored.
SilenceLeavesNoTrace ==
  /\ \A k \in Keywords : kept[k].hits = "empty" => k \in snubbed
  /\ Calm => \A k \in Keywords : ~HeldBack(k)

================================================================================
