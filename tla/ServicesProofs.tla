----------------------------- MODULE ServicesProofs -----------------------------
(***************************************************************************)
(* Theorems about the components of MCServices one by one, for any sizes,  *)
(* calls, keywords, producers, periods and limits.  CompositionProofs puts *)
(* them together.                                                          *)
(***************************************************************************)
EXTENDS MCServices, SequenceFacts, FiniteSetTheorems

-----------------------------------------------------------------------------
(***************************************************************************)
(* The response cache: its inductive invariant.                            *)
(***************************************************************************)

\* The first half of LayersAgree.
SamePayload ==
  L1Fresh => row # NoEntry /\ row.payload = l1.payload /\ l1.left <= row.left + 1

\* Its second half, without counting.
OneRefresh ==
  \A p, q \in Producers : p \in Running("refresh") /\ q \in Running("refresh") => p = q

\* A producer that was not under way when the row was stored brings nothing
\* older than the row; the others are remembered, and no refresh is overtaken by
\* a refresh.
ProducersAreNew ==
  /\ row # NoEntry => row.payload <= edition
  /\ \A p \in Producers : producing[p] # NoEntry => producing[p].got <= edition
  /\ \A p \in Producers :
       producing[p] # NoEntry /\ row # NoEntry /\ producing[p].got < row.payload => p \in overtaken
  /\ \A p \in overtaken : producing[p] # NoEntry
  /\ writer = "refresh" => \A p \in overtaken : producing[p].purpose # "refresh"

CacheInv == CacheTypeOK /\ SamePayload /\ OneRefresh /\ ProducersAreNew

\* Time takes nothing from an entry but its ticks.
LEMMA SoonerFacts ==
  ASSUME NEW e \in Entries \cup {NoEntry}
  PROVE  /\ Sooner(e) \in Entries \cup {NoEntry}
         /\ Sooner(e) # NoEntry <=> e # NoEntry
         /\ e # NoEntry =>
              /\ Sooner(e).payload = e.payload
              /\ e.left \in Nat /\ Sooner(e).left = IF e.left > 0 THEN e.left - 1 ELSE 0
<1>1. CASE e # NoEntry /\ e.left > 0
  <2>1. e \in Entries
    BY <1>1
  <2>2. /\ [e EXCEPT !.left = @ - 1] \in Entries /\ [e EXCEPT !.left = @ - 1].payload = e.payload
        /\ [e EXCEPT !.left = @ - 1].left = e.left - 1 /\ e.left \in Nat
    BY <1>1, <2>1, CacheBounds DEF Entries
  <2> QED
    BY <1>1, <2>2, NoEntryIsNoEntry DEF Sooner
<1>2. CASE ~(e # NoEntry /\ e.left > 0)
  BY <1>2, CacheBounds DEF Sooner, Entries
<1> QED
  BY <1>1, <1>2

\* What a producer stores is an entry.
LEMMA MadeFacts ==
  ASSUME CacheTypeOK, NEW p \in Producers, producing[p] # NoEntry, NEW ticks \in 0..Ttl + 1
  PROVE  /\ Made(p, ticks) \in Entries /\ Made(p, ticks) # NoEntry
         /\ Made(p, ticks).payload = producing[p].got /\ Made(p, ticks).left = ticks
<1>1. producing[p].got \in 0..MaxEdition
  BY DEF CacheTypeOK
<1>2. Made(p, ticks) \in Entries
  BY <1>1 DEF Made, Entries
<1> QED
  BY <1>2, NoEntryIsNoEntry DEF Made

\* Asking a producer changes nobody else's producer.
LEMMA ProduceFacts ==
  ASSUME CacheTypeOK, NEW purpose \in Purposes, Produce(purpose)
  PROVE  \E p \in Producers :
           /\ producing[p] = NoEntry
           /\ producing' \in [Producers -> [purpose : Purposes, got : 0..MaxEdition]
                                            \cup {NoEntry}]
           /\ producing'[p] = [purpose |-> purpose, got |-> edition]
           /\ \A q \in Producers : q # p => producing'[q] = producing[q]
<1>1. PICK p \in Producers :
        /\ producing[p] = NoEntry
        /\ producing' = [producing EXCEPT ![p] = [purpose |-> purpose, got |-> edition]]
  BY DEF Produce
<1>2. [purpose |-> purpose, got |-> edition] \in [purpose : Purposes, got : 0..MaxEdition]
  BY DEF CacheTypeOK
<1> QED
  BY <1>1, <1>2 DEF CacheTypeOK

\* A set with at most one element has at most one element.
LEMMA AtMostOne ==
  ASSUME NEW S, \A p, q \in S : p = q
  PROVE  Cardinality(S) <= 1
<1>1. CASE S = {}
  BY <1>1, FS_EmptySet
<1>2. CASE S # {}
  <2>1. PICK p \in S : S = {p}
    BY <1>2
  <2>2. Cardinality({p}) = 1
    BY FS_Singleton
  <2> QED
    BY <2>1, <2>2
<1> QED
  BY <1>1, <1>2

LEMMA CacheTypeStep ==
  ASSUME CacheTypeOK, CacheNext
  PROVE  CacheTypeOK'
<1> USE DEF CacheTypeOK, cacheHistory
<1>0. Looked \in Entries \cup {NoEntry}
  BY DEF Looked
<1>1. ASSUME ServeFresh PROVE CacheTypeOK'
  BY <1>1 DEF ServeFresh
<1>2. ASSUME NEW purpose \in Purposes, Produce(purpose),
             l1' \in {l1, Looked}, UNCHANGED <<edition, row, cacheHistory>>
      PROVE  CacheTypeOK'
  BY <1>0, <1>2, ProduceFacts
<1>3. ASSUME ServeStale PROVE CacheTypeOK'
  BY <1>0, <1>2, <1>3 DEF ServeStale, Purposes
<1>4. ASSUME NEW force \in BOOLEAN, Request(force) PROVE CacheTypeOK'
  BY <1>2, <1>4 DEF Request, Purposes
<1>5. ASSUME Warm PROVE CacheTypeOK'
  BY <1>2, <1>5 DEF Warm, Purposes
<1>6. ASSUME NEW p \in Producers, Store(p) PROVE CacheTypeOK'
  <2>1. row' \in Entries /\ l1' \in Entries
    BY <1>6, MadeFacts, CacheBounds DEF Store, Returned
  <2>2. producing[p] \in [purpose : Purposes, got : 0..MaxEdition]
    BY <1>6 DEF Store, Returned
  <2> QED
    BY <1>6, <2>1, <2>2 DEF Store, Returned
<1>7. ASSUME NEW p \in Producers, ProduceFails(p) PROVE CacheTypeOK'
  BY <1>7 DEF ProduceFails
<1>8. ASSUME Invalidate PROVE CacheTypeOK'
  BY <1>8 DEF Invalidate
<1>9. ASSUME Publish PROVE CacheTypeOK'
  BY <1>9, CacheBounds DEF Publish
<1>10. ASSUME CacheTick PROVE CacheTypeOK'
  BY <1>10, SoonerFacts DEF CacheTick
<1>11. ASSUME CacheRestart PROVE CacheTypeOK'
  BY <1>11 DEF CacheRestart
<1> QED
  BY <1>1, <1>3, <1>4, <1>5, <1>6, <1>7, <1>8, <1>9, <1>10, <1>11 DEF CacheNext

\* Memory is written together with the table, or not at all.
LEMMA LayersStep ==
  ASSUME CacheTypeOK, SamePayload, CacheNext
  PROVE  SamePayload'
<1> USE DEF SamePayload, L1Fresh
<1>1. ASSUME ServeFresh PROVE SamePayload'
  BY <1>1, CacheBounds DEF ServeFresh, RowFresh, CacheTypeOK, Entries
<1>2. ASSUME ServeStale \/ \E force \in BOOLEAN : Request(force) PROVE SamePayload'
  BY <1>2 DEF ServeStale, Request, Looked
<1>3. ASSUME Warm \/ Publish PROVE SamePayload'
  BY <1>3 DEF Warm, Publish
<1>4. ASSUME NEW p \in Producers, Store(p) PROVE SamePayload'
  BY <1>4, MadeFacts, CacheBounds DEF Store, Returned
<1>5. ASSUME NEW p \in Producers, ProduceFails(p) PROVE SamePayload'
  BY <1>5 DEF ProduceFails
<1>6. ASSUME Invalidate \/ CacheRestart PROVE SamePayload'
  BY <1>6 DEF Invalidate, CacheRestart
<1>7. ASSUME CacheTick PROVE SamePayload'
  BY <1>7, SoonerFacts DEF CacheTick, CacheTypeOK
<1> QED
  BY <1>1, <1>2, <1>3, <1>4, <1>5, <1>6, <1>7 DEF CacheNext

\* schedule_refresh looks before it starts a task.
LEMMA RefreshStep ==
  ASSUME CacheTypeOK, OneRefresh, CacheNext
  PROVE  OneRefresh'
<1> USE DEF OneRefresh, Running
<1>1. ASSUME NEW purpose \in Purposes, Produce(purpose),
             purpose = "refresh" => Running("refresh") = {}
      PROVE  OneRefresh'
  <2>1. PICK p \in Producers :
          /\ producing'[p] = [purpose |-> purpose, got |-> edition]
          /\ \A q \in Producers : q # p => producing'[q] = producing[q]
    BY <1>1, ProduceFacts
  <2> QED
    BY <1>1, <2>1
<1>2. ASSUME ServeStale PROVE OneRefresh'
  BY <1>1, <1>2 DEF ServeStale, Purposes
<1>3. ASSUME Warm \/ \E force \in BOOLEAN : Request(force) PROVE OneRefresh'
  BY <1>1, <1>3 DEF Warm, Request, Purposes
<1>4. ASSUME NEW p \in Producers, producing' = [producing EXCEPT ![p] = NoEntry]
      PROVE  OneRefresh'
  BY <1>4 DEF CacheTypeOK
<1>5. ASSUME CacheRestart PROVE OneRefresh'
  BY <1>5 DEF CacheRestart
<1>6. ASSUME UNCHANGED producing PROVE OneRefresh'
  BY <1>6
<1> QED
  BY <1>2, <1>3, <1>4, <1>5, <1>6
  DEF CacheNext, ServeFresh, Store, Returned, ProduceFails, Invalidate, Publish, CacheTick

\* A producer reads the edition of the moment it begins.
LEMMA ProducersStep ==
  ASSUME CacheTypeOK, OneRefresh, ProducersAreNew, CacheNext
  PROVE  ProducersAreNew'
<1> USE DEF ProducersAreNew, cacheHistory
<1>0. /\ edition \in Int /\ overtaken \subseteq Producers
      /\ \A e \in Entries : e.payload \in Int /\ e # NoEntry
      /\ \A p \in Producers : producing[p] # NoEntry =>
           producing[p].got \in 0..MaxEdition /\ producing[p].purpose \in Purposes
      /\ row # NoEntry => row \in Entries
  BY NoEntryIsNoEntry, CacheBounds DEF CacheTypeOK, Entries
<1>1. ASSUME NEW purpose \in Purposes, Produce(purpose), UNCHANGED <<edition, row, cacheHistory>>
      PROVE  ProducersAreNew'
  <2>1. PICK p \in Producers :
          /\ producing[p] = NoEntry
          /\ producing'[p] = [purpose |-> purpose, got |-> edition]
          /\ producing' \in [Producers -> [purpose : Purposes, got : 0..MaxEdition] \cup {NoEntry}]
          /\ \A q \in Producers : q # p => producing'[q] = producing[q]
    BY <1>1, ProduceFacts
  <2>2. p \notin overtaken
    BY <2>1
  <2>3. [purpose |-> purpose, got |-> edition].got = edition
    OBVIOUS
  <2>4. \A q \in overtaken : producing'[q] = producing[q]
    BY <1>0, <2>1, <2>2
  <2>5. \A q \in Producers : producing'[q] # NoEntry /\ row # NoEntry
                               /\ producing'[q].got < row.payload => q \in overtaken
    <3> SUFFICES ASSUME NEW q \in Producers, producing'[q] # NoEntry, row # NoEntry,
                        producing'[q].got < row.payload
                 PROVE  q \in overtaken
      OBVIOUS
    <3>1. row.payload <= edition /\ row.payload \in Int
      BY <1>0
    <3>2. q # p
      BY <1>0, <2>1, <2>3, <3>1
    <3> QED
      BY <2>1, <3>2
  <2>6. \A q \in Producers : producing'[q] # NoEntry => producing'[q].got <= edition
    BY <1>0, <2>1, <2>3
  <2> QED
    BY <1>0, <1>1, <2>1, <2>2, <2>4, <2>5, <2>6
<1>2. ASSUME ServeStale PROVE ProducersAreNew'
  BY <1>1, <1>2 DEF ServeStale, Purposes
<1>3. ASSUME Warm \/ \E force \in BOOLEAN : Request(force) PROVE ProducersAreNew'
  BY <1>1, <1>3 DEF Warm, Request, Purposes
<1>4. ASSUME NEW p \in Producers, ProduceFails(p) PROVE ProducersAreNew'
  BY <1>0, <1>4 DEF ProduceFails, CacheTypeOK
<1>5. ASSUME NEW p \in Producers, Store(p) PROVE ProducersAreNew'
  <2>1. /\ row' # NoEntry /\ row'.payload = producing[p].got /\ edition' = edition
        /\ producing' = [producing EXCEPT ![p] = NoEntry]
        /\ overtaken' = {q \in Producers \ {p} : producing[q] # NoEntry}
        /\ writer' = producing[p].purpose /\ producing[p] # NoEntry
    BY <1>5, MadeFacts, CacheBounds DEF Store, Returned
  <2>2. \A q \in Producers : q # p => producing'[q] = producing[q]
    BY <2>1 DEF CacheTypeOK
  <2>3. producing'[p] = NoEntry
    BY <2>1 DEF CacheTypeOK
  <2>4. writer' = "refresh" => \A q \in overtaken' : producing'[q].purpose # "refresh"
    BY <2>1, <2>2 DEF OneRefresh, Running
  <2>5. row'.payload <= edition'
    BY <1>0, <2>1
  <2> QED
    BY <2>1, <2>2, <2>3, <2>4, <2>5
<1>6. ASSUME Invalidate \/ ServeFresh PROVE ProducersAreNew'
  BY <1>6 DEF Invalidate, ServeFresh
<1>7. ASSUME CacheRestart PROVE ProducersAreNew'
  BY <1>7 DEF CacheRestart
<1>8. ASSUME Publish PROVE ProducersAreNew'
  BY <1>0, <1>8 DEF Publish
<1>9. ASSUME CacheTick PROVE ProducersAreNew'
  BY <1>9, SoonerFacts DEF CacheTick, CacheTypeOK
<1> QED
  BY <1>2, <1>3, <1>4, <1>5, <1>6, <1>7, <1>8, <1>9 DEF CacheNext

\* Only a producer that was overtaken takes an answer back, and of two refreshes
\* neither is overtaken.
LEMMA GoingBackStep == CacheInv /\ [CacheNext]_cacheVars =>
  (row # NoEntry /\ row' # NoEntry /\ row'.payload < row.payload =>
     \E p \in overtaken :
       /\ producing[p] # NoEntry /\ producing'[p] = NoEntry
       /\ producing[p].purpose # "refresh" \/ writer # "refresh")
<1> SUFFICES ASSUME CacheInv, [CacheNext]_cacheVars,
                    row # NoEntry, row' # NoEntry, row'.payload < row.payload
             PROVE  \E p \in overtaken :
                      /\ producing[p] # NoEntry /\ producing'[p] = NoEntry
                      /\ producing[p].purpose # "refresh" \/ writer # "refresh"
  OBVIOUS
<1> USE DEF CacheInv
<1>1. row \in Entries /\ row.payload \in Int
  BY CacheBounds DEF CacheTypeOK, Entries
<1>2. row' # row /\ row'.payload # row.payload
  BY <1>1
<1>3. ASSUME NEW p \in Producers, Store(p)
      PROVE  /\ p \in overtaken /\ producing[p] # NoEntry /\ producing'[p] = NoEntry
             /\ producing[p].purpose # "refresh" \/ writer # "refresh"
  <2>1. row'.payload = producing[p].got /\ producing[p] # NoEntry
    BY <1>3, MadeFacts, CacheBounds DEF Store, Returned
  <2>2. producing'[p] = NoEntry
    BY <1>3 DEF Store, Returned, CacheTypeOK
  <2> QED
    BY <2>1, <2>2 DEF ProducersAreNew
<1>4. ~CacheTick
  BY <1>2, SoonerFacts DEF CacheTick, CacheTypeOK
<1>5. CASE CacheNext
  BY <1>2, <1>3, <1>4, <1>5
  DEF CacheNext, ServeFresh, ServeStale, Warm, Invalidate, Request, ProduceFails, Publish, CacheRestart
<1>6. CASE UNCHANGED cacheVars
  BY <1>2, <1>6 DEF cacheVars
<1> QED
  BY <1>5, <1>6

LEMMA CacheInitInv == CacheInit => CacheInv
<1> SUFFICES ASSUME CacheInit PROVE CacheInv
  OBVIOUS
<1>1. CacheTypeOK
  BY CacheBounds DEF CacheInit, CacheTypeOK, Purposes
<1>2. SamePayload
  BY DEF CacheInit, SamePayload, L1Fresh
<1>3. OneRefresh
  BY DEF CacheInit, OneRefresh, Running
<1>4. ProducersAreNew
  BY DEF CacheInit, ProducersAreNew
<1> QED
  BY <1>1, <1>2, <1>3, <1>4 DEF CacheInv

LEMMA CacheNextInv == CacheInv /\ [CacheNext]_cacheVars => CacheInv'
<1> SUFFICES ASSUME CacheInv, [CacheNext]_cacheVars PROVE CacheInv'
  OBVIOUS
<1>1. CASE CacheNext
  BY <1>1, CacheTypeStep, LayersStep, RefreshStep, ProducersStep DEF CacheInv
<1>2. CASE UNCHANGED cacheVars
  BY <1>2 DEF cacheVars, CacheInv, CacheTypeOK, SamePayload, OneRefresh, Running, L1Fresh,
              ProducersAreNew
<1> QED
  BY <1>1, <1>2

\* The inductive invariant holds in every reachable state.
THEOREM CacheInvariance == CacheSpec => []CacheInv
<1> QED
  BY CacheInitInv, CacheNextInv, PTL DEF CacheSpec

\* Both layers hold entries, and nothing but producers runs.
THEOREM CacheTypesHold == CacheSpec => []CacheTypeOK
<1>1. CacheInv => CacheTypeOK
  BY DEF CacheInv
<1> QED
  BY <1>1, CacheInvariance, PTL

LEMMA LayersFacts == CacheInv => LayersAgree
<1> SUFFICES ASSUME CacheInv PROVE LayersAgree
  OBVIOUS
<1>1. \A p, q \in Running("refresh") : p = q
  BY DEF CacheInv, OneRefresh, Running
<1> QED
  BY <1>1, AtMostOne DEF CacheInv, SamePayload, LayersAgree

\* Memory never serves what the table does not hold, and a key is refreshed by
\* one task at a time, however many producers there are.
THEOREM MemoryFollowsTheTable == CacheSpec => []LayersAgree
  BY LayersFacts, CacheInvariance, PTL

\* An answer goes back to an older one only where a request or a warmer raced
\* another producer and was slower; refreshes alone never take it back.
THEOREM AnswersMoveForward == CacheSpec => AnswersGoBackWhereRequestsRaceOnly
  BY GoingBackStep, CacheInvariance, PTL DEF CacheSpec, AnswersGoBackWhereRequestsRaceOnly

-----------------------------------------------------------------------------
(***************************************************************************)
(* Direct play.                                                            *)
(***************************************************************************)

RangeShapes ==
  /\ size \in 0..MaxSize
  /\ header \in Headers
  /\ answer \in [status : {0, 200, 206, 304, 416}, from : 0..MaxSize + 1,
                 to : -1..MaxSize, size : 0..MaxSize]
  /\ sent \in Nat /\ done \in BOOLEAN
  /\ answer.status \notin {200, 206} => sent = 0
  /\ answer.status \in {200, 206} => answer.to < answer.size
  /\ done => answer.status # 0
  /\ lowest \in 0..MaxSize /\ lowest <= size

RangeInv == RangeShapes /\ AnswersAreWhatWasAsked

\* The numbers of a header, and the two ends of a part.
LEMMA HeaderFacts ==
  ASSUME NEW h \in Headers, NEW n \in 0..MaxSize
  PROVE  /\ n \in Nat /\ n <= MaxSize /\ MaxSize \in Nat
         /\ h.start # NoNumber => h.start \in Nat /\ h.start <= MaxSize + 1
         /\ h.end # NoNumber => h.end \in Nat /\ h.end <= MaxSize + 1
<1>1. MaxSize \in Nat
  BY RangeBounds
<1>2. h.start \in Numbers \cup {NoNumber} /\ h.end \in Numbers \cup {NoNumber}
  BY DEF Headers
<1> QED
  BY <1>1, <1>2 DEF Numbers

\* The parser agrees with the grammar of the header: the bytes between the two
\* ends are the bytes asked for, and there are none exactly if it refuses.
LEMMA ParserIsRight ==
  ASSUME NEW h \in Headers, NEW n \in 0..MaxSize, h # NoRange
  PROVE  /\ Unsatisfiable(h, n) => Asked(h, n) = {}
         /\ ~Unsatisfiable(h, n) =>
              /\ Parsed(h, n).from \in 0..MaxSize /\ Parsed(h, n).to \in 0..MaxSize
              /\ Parsed(h, n).from <= Parsed(h, n).to /\ Parsed(h, n).to < n
              /\ \A b \in 0..MaxSize :
                   b \in Asked(h, n) <=> Parsed(h, n).from <= b /\ b <= Parsed(h, n).to
<1> USE NoNumberIsNoNumber
<1>1. /\ n \in Nat /\ n <= MaxSize /\ MaxSize \in Nat
      /\ h.start # NoNumber => h.start \in Nat
      /\ h.end # NoNumber => h.end \in Nat
  BY HeaderFacts
<1>2. CASE h.start = NoNumber
  <2>1. h.end \in Nat
    <3>1. h = [start |-> h.start, end |-> h.end]
      BY DEF Headers
    <3> QED
      BY <1>1, <1>2, <3>1 DEF NoRange
  <2>2. /\ FirstByte(h, n) = IF n - h.end > 0 THEN n - h.end ELSE 0
        /\ LastByte(h, n) = n - 1
    BY <1>1, <1>2, <2>1 DEF FirstByte, LastByte, Greater
  <2>3. Asked(h, n) = {b \in 0..n - 1 : b >= n - h.end}
    BY <1>2, <2>1 DEF Asked
  <2>4. Parsed(h, n).from = FirstByte(h, n) /\ Parsed(h, n).to = n - 1
    BY <1>1, <2>2 DEF Parsed, Lesser
  <2> QED
    BY <1>1, <1>2, <2>1, <2>2, <2>3, <2>4 DEF Unsatisfiable
<1>3. CASE h.start # NoNumber
  <2>1. FirstByte(h, n) = h.start /\ h.start \in Nat
    BY <1>1, <1>3 DEF FirstByte
  <2>2. CASE h.end = NoNumber
    <3>1. LastByte(h, n) = n - 1 /\ Asked(h, n) = {b \in 0..n - 1 : b >= h.start}
      BY <1>3, <2>2 DEF LastByte, Asked
    <3>2. Parsed(h, n).from = h.start /\ Parsed(h, n).to = n - 1
      BY <1>1, <2>1, <3>1 DEF Parsed, Lesser
    <3> QED
      BY <1>1, <1>3, <2>1, <3>1, <3>2 DEF Unsatisfiable
  <2>3. CASE h.end # NoNumber
    <3>1. /\ LastByte(h, n) = h.end /\ h.end \in Nat
          /\ Asked(h, n) = {b \in 0..n - 1 : b >= h.start /\ b <= h.end}
      BY <1>1, <1>3, <2>3 DEF LastByte, Asked
    <3>2. /\ Parsed(h, n).from = h.start
          /\ Parsed(h, n).to = IF h.end < n - 1 THEN h.end ELSE n - 1
      BY <1>1, <2>1, <3>1 DEF Parsed, Lesser
    <3> QED
      BY <1>1, <1>3, <2>1, <3>1, <3>2 DEF Unsatisfiable
  <2> QED
    BY <2>2, <2>3
<1> QED
  BY <1>2, <1>3

\* The shape of the state a new answer leaves.
LEMMA AnswerShape ==
  ASSUME NEW h \in Headers, header' = h, size' \in 0..MaxSize, sent' = 0, done' = FALSE,
         lowest' = size', lowest' <= size',
         answer' \in [status : {0, 200, 206, 304, 416}, from : 0..MaxSize + 1,
                     to : -1..MaxSize, size : 0..MaxSize],
         answer'.status \in {200, 206} => answer'.to < answer'.size
  PROVE  RangeShapes'
  BY DEF RangeShapes

\* What a new answer announces.
LEMMA AskStep ==
  ASSUME RangeInv, NEW h \in Headers, NEW unmodified \in BOOLEAN, Ask(h, unmodified)
  PROVE  RangeInv'
<1>1. size \in Nat /\ size <= MaxSize /\ MaxSize \in Nat /\ size \in 0..MaxSize
  BY RangeBounds DEF RangeInv, RangeShapes
<1>2. /\ sent' = 0 /\ header' = h /\ size' = size /\ done' = FALSE
      /\ lowest' = size /\ lowest' <= size'
  BY <1>1 DEF Ask, RangeInv, RangeShapes
<1> DEFINE Announcements == [status : {0, 200, 206, 304, 416}, from : 0..MaxSize + 1,
                             to : -1..MaxSize, size : 0..MaxSize]
<1>3. CASE unmodified
  <2>1. answer' = [status |-> 304, from |-> 0, to |-> -1, size |-> size]
    BY <1>3 DEF Ask, RangeAnswer
  <2>2. RangeShapes'
    <3>1. answer' \in Announcements /\ (answer'.status \in {200, 206} => answer'.to < answer'.size)
      BY <1>1, <2>1
    <3> QED
      BY <1>1, <1>2, <3>1, AnswerShape
  <2> QED
    BY <2>1, <2>2 DEF RangeInv, AnswersAreWhatWasAsked
<1>4. CASE ~unmodified /\ h = NoRange
  <2>1. answer' = [status |-> 200, from |-> 0, to |-> size - 1, size |-> size]
    BY <1>4 DEF Ask, RangeAnswer
  <2>2. Asked(h, size) = 0..size - 1
    BY <1>4 DEF Asked, NoRange
  <2>3. Announced' = 0..size - 1
    BY <1>1, <2>1 DEF Announced
  <2>4. size - 1 \in -1..MaxSize
    BY <1>1
  <2>5. sent' <= Promised' /\ size - 1 < size
    BY <1>1, <1>2, <2>1 DEF Promised
  <2>6. RangeShapes'
    <3>1. answer' \in Announcements /\ (answer'.status \in {200, 206} => answer'.to < answer'.size)
      BY <1>1, <2>1, <2>4, <2>5
    <3> QED
      BY <1>1, <1>2, <3>1, AnswerShape
  <2> QED
    BY <1>2, <1>4, <2>1, <2>2, <2>3, <2>5, <2>6 DEF RangeInv, AnswersAreWhatWasAsked
<1>5. CASE ~unmodified /\ h # NoRange /\ Unsatisfiable(h, size)
  <2>1. answer' = [status |-> 416, from |-> 0, to |-> -1, size |-> size]
    BY <1>5 DEF Ask, RangeAnswer
  <2>2. Asked(h, size) = {}
    BY <1>1, <1>5, ParserIsRight
  <2>3. RangeShapes'
    <3>1. answer' \in Announcements /\ (answer'.status \in {200, 206} => answer'.to < answer'.size)
      BY <1>1, <2>1
    <3> QED
      BY <1>1, <1>2, <3>1, AnswerShape
  <2> QED
    BY <1>2, <2>1, <2>2, <2>3 DEF RangeInv, AnswersAreWhatWasAsked
<1>6. CASE ~unmodified /\ h # NoRange /\ ~Unsatisfiable(h, size)
  <2> DEFINE first == Parsed(h, size).from
             last == Parsed(h, size).to
  <2>1. answer' = [status |-> 206, from |-> first, to |-> last, size |-> size]
    BY <1>6 DEF Ask, RangeAnswer
  <2>2. /\ first \in 0..MaxSize /\ last \in 0..MaxSize /\ first <= last /\ last < size
        /\ \A b \in 0..MaxSize : b \in Asked(h, size) <=> first <= b /\ b <= last
    BY <1>1, <1>6, ParserIsRight
  <2> HIDE DEF first, last
  <2>3. Asked(h, size) \subseteq 0..MaxSize
    BY <1>1 DEF Asked
  <2>4. Announced' = Asked(h, size)
    BY <2>1, <2>2, <2>3 DEF Announced
  <2>5. first \in Int /\ last \in Int /\ sent' <= Promised'
    BY <1>1, <1>2, <2>1, <2>2 DEF Promised
  <2>6. first \in 0..MaxSize + 1 /\ last \in -1..MaxSize
    BY <1>1, <2>2
  <2>7. RangeShapes'
    <3>1. answer' \in Announcements /\ (answer'.status \in {200, 206} => answer'.to < answer'.size)
      BY <1>1, <2>1, <2>2, <2>6
    <3> QED
      BY <1>1, <1>2, <3>1, AnswerShape
  <2> QED
    BY <1>2, <2>1, <2>2, <2>4, <2>5, <2>7 DEF RangeInv, AnswersAreWhatWasAsked
<1> QED
  BY <1>3, <1>4, <1>5, <1>6

\* A block stays within what was promised.
LEMMA BlockStep ==
  ASSUME RangeInv, SendBlock
  PROVE  RangeInv'
<1> DEFINE block == Lesser(Lesser(ChunkSize, Promised - sent),
                           Greater(0, size - (answer.from + sent)))
<1>1. /\ sent' = sent + block /\ block > 0 /\ ~done
      /\ UNCHANGED <<size, answer, header, done, lowest>>
  BY DEF SendBlock
<1>2. /\ sent \in Nat /\ size \in Int /\ ChunkSize \in Int
      /\ answer.from \in Int /\ answer.to \in Int
  BY RangeBounds DEF RangeInv, RangeShapes
<1>3. Promised \in Int
  BY <1>2 DEF Promised
<1>4. block \in Int /\ block <= Promised - sent
  BY <1>2, <1>3 DEF Lesser, Greater
<1> HIDE DEF block
<1>5. sent' \in Nat /\ sent' <= Promised
  BY <1>1, <1>2, <1>3, <1>4
<1>6. Promised' = Promised /\ Announced' = Announced
  BY <1>1 DEF Promised, Announced
<1>7. answer.status \in {200, 206}
  BY DEF SendBlock
<1> QED
  BY <1>1, <1>5, <1>6, <1>7 DEF RangeInv, RangeShapes, AnswersAreWhatWasAsked

LEMMA RangeInitInv == RangeInit => RangeInv
<1> SUFFICES ASSUME RangeInit PROVE RangeInv
  OBVIOUS
<1>1. MaxSize \in Nat
  BY RangeBounds
<1>2. NoRange \in Headers
  BY DEF NoRange, Headers
<1>3. /\ 0 \in 0..MaxSize /\ 0 \in 0..MaxSize + 1 /\ -1 \in -1..MaxSize
      /\ size \in 0..MaxSize /\ size <= size
  BY <1>1 DEF RangeInit
<1>4. answer \in [status : {0, 200, 206, 304, 416}, from : 0..MaxSize + 1,
                  to : -1..MaxSize, size : 0..MaxSize]
  BY <1>3 DEF RangeInit
<1>5. RangeShapes
  <2>1. answer.status = 0 /\ header = NoRange /\ sent = 0 /\ done = FALSE /\ lowest = size
    BY DEF RangeInit
  <2>2. sent \in Nat /\ done \in BOOLEAN /\ header \in Headers
    BY <1>2, <2>1
  <2>3. answer.status \notin {200, 206}
    BY <2>1
  <2>4. lowest \in 0..MaxSize /\ lowest <= size /\ size \in 0..MaxSize
    BY <1>3, <2>1
  <2> QED
    BY <1>4, <2>1, <2>2, <2>3, <2>4 DEF RangeShapes
<1>6. AnswersAreWhatWasAsked
  BY DEF RangeInit, AnswersAreWhatWasAsked
<1> QED
  BY <1>5, <1>6 DEF RangeInv

LEMMA RangeStep == RangeInv /\ [RangeNext]_rangeVars => RangeInv'
<1> SUFFICES ASSUME RangeInv, [RangeNext]_rangeVars PROVE RangeInv'
  OBVIOUS
<1>1. ASSUME NEW h \in Headers, NEW unmodified \in BOOLEAN, Ask(h, unmodified)
      PROVE  RangeInv'
  BY <1>1, AskStep
<1>2. CASE SendBlock
  BY <1>2, BlockStep
<1>3. /\ size \in Int /\ lowest \in Int /\ sent \in Int
      /\ answer.from \in Int /\ answer.to \in Int /\ answer.size \in Int
  BY RangeBounds DEF RangeInv, RangeShapes
<1>4. CASE End
  <2>1. /\ answer.status # 0 /\ ~done /\ done' = TRUE
        /\ sent = Promised \/ answer.from + sent >= size
        /\ UNCHANGED <<size, answer, sent, header, lowest>>
    BY <1>4 DEF End
  <2>2. answer.status \in {200, 206} =>
          sent = Promised \/ (lowest < answer.size /\ answer.from + sent >= lowest)
    <3> SUFFICES ASSUME answer.status \in {200, 206}, sent # Promised
                 PROVE  lowest < answer.size /\ answer.from + sent >= lowest
      OBVIOUS
    <3>1. /\ sent <= answer.to - answer.from + 1 /\ sent # answer.to - answer.from + 1
          /\ answer.to < answer.size /\ lowest <= size
      BY DEF RangeInv, RangeShapes, AnswersAreWhatWasAsked, Promised
    <3> QED
      BY <1>3, <2>1, <3>1
  <2> QED
    BY <2>1, <2>2 DEF RangeInv, RangeShapes, AnswersAreWhatWasAsked, Announced, Promised
<1>5. ASSUME NEW n \in 0..MaxSize, Resize(n)
      PROVE  RangeInv'
  <2>1. /\ size' = n /\ lowest' = Lesser(lowest, n)
        /\ UNCHANGED <<answer, sent, header, done>>
    BY <1>5 DEF Resize
  <2>2. lowest' \in 0..MaxSize /\ lowest' <= n /\ lowest' <= lowest /\ lowest' \in Int
    BY <1>3, <2>1, RangeBounds DEF Lesser, RangeInv, RangeShapes
  <2>3. RangeShapes'
    BY <2>1, <2>2 DEF RangeInv, RangeShapes
  <2>4. answer.status \in {200, 206} /\ done =>
          sent = Promised \/ (lowest' < answer.size /\ answer.from + sent >= lowest')
    BY <1>3, <2>2 DEF RangeInv, AnswersAreWhatWasAsked
  <2> QED
    BY <2>1, <2>3, <2>4 DEF RangeInv, AnswersAreWhatWasAsked, Announced, Promised
<1>6. CASE UNCHANGED rangeVars
  BY <1>6 DEF rangeVars, RangeInv, RangeShapes, AnswersAreWhatWasAsked, Announced, Promised
<1> QED
  BY <1>1, <1>2, <1>4, <1>5, <1>6 DEF RangeNext

\* The body never exceeds what a part can be.
LEMMA RangeTypes == RangeInv => RangeTypeOK
<1> SUFFICES ASSUME RangeInv PROVE RangeTypeOK
  OBVIOUS
<1>1. /\ sent \in Nat /\ MaxSize \in Nat /\ answer.from \in Nat
      /\ answer.to \in -1..MaxSize /\ answer.to \in Int
  BY RangeBounds DEF RangeInv, RangeShapes
<1>2. CASE answer.status \in {200, 206}
  <2>1. sent <= answer.to - answer.from + 1
    BY <1>2 DEF RangeInv, AnswersAreWhatWasAsked, Promised
  <2>2. sent \in 0..MaxSize + 1
    BY <1>1, <2>1
  <2> QED
    BY <2>2 DEF RangeInv, RangeShapes, RangeTypeOK
<1>3. CASE answer.status \notin {200, 206}
  BY <1>1, <1>3 DEF RangeInv, RangeShapes, RangeTypeOK
<1> QED
  BY <1>2, <1>3

\* For files and blocks of any size: 200 and 206 announce exactly the bytes the
\* header asks for that the file had, 416 is said only when there are none, and
\* the body never runs past the announcement nor ends before it, unless the file
\* became shorter and the body stops where it ended (_parse_range,
\* _iter_file_chunks).
THEOREM PartsAreWhatWasAsked == RangeSpec => []AnswersAreWhatWasAsked
<1>1. RangeInv => AnswersAreWhatWasAsked
  BY DEF RangeInv
<1> QED
  BY <1>1, RangeInitInv, RangeStep, PTL DEF RangeSpec

-----------------------------------------------------------------------------
(***************************************************************************)
(* AllAnime's keys.  The second attempt uses the site's own key unless the *)
(* site has rotated meanwhile.                                             *)
(***************************************************************************)

SecondKeyIsFresh ==
  \A v \in StreamCalls :
    call[v].at \in {"deriving", "asking"} /\ call[v].attempt = 1 /\ v \notin rotated
      => call[v].key = epoch

\* Nobody has a key the site does not have yet.
NoKeyIsNewer ==
  /\ keyCache # NoSiteKey => keyCache.epoch <= epoch
  /\ \A v \in StreamCalls : call[v].key <= epoch

KeyInv == KeyTypeOK /\ SecondKeyIsFresh /\ NoKeyIsNewer /\ RotationsAreSurvived

CallPlaces == {"idle", "deriving", "asking", "played", "failed", "crashed"}
CallRows == [at : CallPlaces, attempt : 0..1, key : 0..MaxRotations]

\* One call moves to a entry that keeps the promises; the others stay.
LEMMA CallStep ==
  ASSUME KeyInv, NEW v \in StreamCalls, NEW entry \in CallRows,
         call' = [call EXCEPT ![v] = entry],
         keyCache' \in CachedKeys \cup {NoSiteKey}, epoch' = epoch,
         rotated' \subseteq StreamCalls, upset' \subseteq StreamCalls,
         \A w \in StreamCalls \ {v} : (w \in rotated' <=> w \in rotated)
                                      /\ (w \in upset => w \in upset'),
         entry.at \in {"deriving", "asking"} /\ entry.attempt = 1 /\ v \notin rotated'
           => entry.key = epoch,
         entry.at = "failed" => v \in rotated' \/ v \in upset',
         entry.key <= epoch, entry.at = "crashed" => entry.key # epoch,
         keyCache' # NoSiteKey => keyCache'.epoch <= epoch
  PROVE  KeyInv'
<1>0. entry.key \in Int /\ epoch \in Int
  BY KeyBounds DEF KeyInv, KeyTypeOK, CallRows
<1>1. call'[v] = entry /\ \A w \in StreamCalls \ {v} : call'[w] = call[w]
  BY DEF KeyInv, KeyTypeOK
<1>2. KeyTypeOK'
  BY DEF KeyInv, KeyTypeOK, CallRows, CallPlaces
<1>3. SecondKeyIsFresh' /\ NoKeyIsNewer'
  BY <1>1 DEF KeyInv, SecondKeyIsFresh, NoKeyIsNewer
<1>4. RotationsAreSurvived'
  BY <1>0, <1>1 DEF KeyInv, RotationsAreSurvived
<1> QED
  BY <1>2, <1>3, <1>4 DEF KeyInv

\* What _get_keys leads to: the first attempt may take the cached key, the
\* second derives the key of now.
LEMMA GetKeysFacts ==
  ASSUME KeyInv, NEW v \in StreamCalls, NEW attempt \in 0..1, GetKeys(v, attempt)
  PROVE  \E entry \in CallRows :
           /\ call' = [call EXCEPT ![v] = entry] /\ entry.attempt = attempt
           /\ entry.at \in {"deriving", "asking"}
           /\ attempt = 1 => entry.key = epoch
           /\ entry.key <= epoch
<1>1. epoch \in 0..MaxRotations /\ epoch <= epoch
  BY KeyBounds DEF KeyInv, KeyTypeOK
<1>2. CASE KeyFresh /\ attempt = 0
  <2> DEFINE entry == [at |-> "asking", attempt |-> attempt, key |-> keyCache.epoch]
  <2>1. keyCache.epoch \in 0..MaxRotations /\ keyCache.epoch <= epoch
    BY <1>2 DEF KeyInv, KeyTypeOK, KeyFresh, CachedKeys, NoKeyIsNewer
  <2>2. entry \in CallRows
    BY <2>1 DEF CallRows, CallPlaces
  <2>3. call' = [call EXCEPT ![v] = entry]
    BY <1>2 DEF GetKeys
  <2> WITNESS entry \in CallRows
  <2> QED
    BY <1>2, <2>1, <2>3
<1>3. CASE ~(KeyFresh /\ attempt = 0)
  <2> DEFINE entry == [at |-> "deriving", attempt |-> attempt, key |-> epoch]
  <2>1. entry \in CallRows
    BY <1>1 DEF CallRows, CallPlaces
  <2>2. call' = [call EXCEPT ![v] = entry]
    BY <1>3 DEF GetKeys
  <2> WITNESS entry \in CallRows
  <2> QED
    BY <1>1, <2>2
<1> QED
  BY <1>2, <1>3

\* A failed attempt: once more with a fresh key, or the error.
LEMMA AgainStep ==
  ASSUME KeyInv, NEW v \in StreamCalls, Again(v), UNCHANGED <<epoch, keyCache>>,
         upset' \in {upset, upset \cup {v}},
         call[v].attempt = 0 \/ v \in rotated \/ v \in upset'
  PROVE  KeyInv'
<1>1. /\ keyCache' \in CachedKeys \cup {NoSiteKey} /\ upset' \subseteq StreamCalls
      /\ keyCache' # NoSiteKey => keyCache'.epoch <= epoch
      /\ call[v].key <= epoch
  BY DEF KeyInv, KeyTypeOK, NoKeyIsNewer
<1>2. CASE call[v].attempt = 0
  <2>1. GetKeys(v, 1) /\ rotated' = rotated \ {v}
    BY <1>2 DEF Again
  <2>2. PICK entry \in CallRows :
          /\ call' = [call EXCEPT ![v] = entry] /\ entry.attempt = 1
          /\ entry.at \in {"deriving", "asking"} /\ entry.key = epoch /\ entry.key <= epoch
    BY <2>1, GetKeysFacts
  <2>3. rotated' \subseteq StreamCalls
    BY <2>1 DEF KeyInv, KeyTypeOK
  <2> QED
    BY <1>1, <2>1, <2>2, <2>3, CallStep
<1>3. CASE call[v].attempt # 0
  <2> DEFINE entry == [call[v] EXCEPT !.at = "failed"]
  <2>1. call' = [call EXCEPT ![v] = entry] /\ rotated' = rotated
    BY <1>3 DEF Again
  <2>2. entry \in CallRows /\ entry.at = "failed" /\ entry.key = call[v].key
    BY DEF KeyInv, KeyTypeOK, CallRows, CallPlaces
  <2>3. rotated' \subseteq StreamCalls
    BY <2>1 DEF KeyInv, KeyTypeOK
  <2> HIDE DEF entry
  <2> QED
    BY <1>1, <1>3, <2>1, <2>2, <2>3, CallStep
<1> QED
  BY <1>2, <1>3

\* A call that leaves the network without failing, or goes on to ask.
LEMMA MoveStep ==
  ASSUME KeyInv, NEW v \in StreamCalls,
         NEW place \in {"asking", "played", "crashed"},
         place = "asking" => call[v].at = "deriving",
         place = "crashed" => call[v].key # epoch,
         call' = [call EXCEPT ![v].at = place],
         keyCache' \in CachedKeys \cup {NoSiteKey}, UNCHANGED <<epoch, rotated, upset>>,
         keyCache' # NoSiteKey => keyCache'.epoch <= epoch
  PROVE  KeyInv'
<1> DEFINE entry == [call[v] EXCEPT !.at = place]
<1>1. entry \in CallRows /\ entry.at = place /\ entry.attempt = call[v].attempt
      /\ entry.key = call[v].key
  BY DEF KeyInv, KeyTypeOK, CallRows, CallPlaces
<1>2. call' = [call EXCEPT ![v] = entry]
  OBVIOUS
<1> HIDE DEF entry
<1>3. rotated' \subseteq StreamCalls /\ upset' \subseteq StreamCalls
  BY DEF KeyInv, KeyTypeOK
<1>4. entry.at \in {"deriving", "asking"} /\ entry.attempt = 1 /\ v \notin rotated
        => entry.key = epoch
  BY <1>1 DEF KeyInv, SecondKeyIsFresh
<1>5. entry.key <= epoch
  BY <1>1 DEF KeyInv, NoKeyIsNewer
<1> QED
  BY <1>1, <1>2, <1>3, <1>4, <1>5, CallStep

LEMMA KeyStep ==
  ASSUME KeyInv, [KeyNext]_keyVars
  PROVE  KeyInv'
<1>1. /\ keyCache \in CachedKeys \cup {NoSiteKey} /\ epoch \in 0..MaxRotations
      /\ keyCache # NoSiteKey => keyCache.epoch <= epoch
      /\ \A v \in StreamCalls : call[v].key <= epoch
  BY DEF KeyInv, KeyTypeOK, NoKeyIsNewer
<1>2. ASSUME NEW v \in StreamCalls, Play(v)
      PROVE  KeyInv'
  <2>1. GetKeys(v, 0) /\ rotated' = rotated \ {v} /\ upset' = upset \ {v}
        /\ UNCHANGED <<epoch, keyCache>>
    BY <1>2 DEF Play
  <2>2. PICK entry \in CallRows :
          /\ call' = [call EXCEPT ![v] = entry] /\ entry.attempt = 0
          /\ entry.at \in {"deriving", "asking"} /\ entry.key <= epoch
    BY <2>1, GetKeysFacts
  <2>3. rotated' \subseteq StreamCalls /\ upset' \subseteq StreamCalls
    BY <2>1 DEF KeyInv, KeyTypeOK
  <2>4. /\ entry.at # "failed" /\ entry.attempt # 1
        /\ \A w \in StreamCalls \ {v} : (w \in rotated' <=> w \in rotated)
                                        /\ (w \in upset => w \in upset')
    BY <2>1, <2>2
  <2> QED
    BY <1>1, <2>1, <2>2, <2>3, <2>4, CallStep
<1>3. ASSUME NEW v \in StreamCalls, Derived(v)
      PROVE  KeyInv'
  <2>1. /\ [epoch |-> call[v].key, left |-> KeyTtl] \in CachedKeys
        /\ [epoch |-> call[v].key, left |-> KeyTtl].epoch <= epoch
    BY <1>1, KeyBounds DEF KeyInv, KeyTypeOK, CachedKeys
  <2> QED
    BY <1>3, <2>1, MoveStep DEF Derived
<1>4. ASSUME NEW v \in StreamCalls, AttemptUpset(v)
      PROVE  KeyInv'
  BY <1>4, AgainStep DEF AttemptUpset
<1>5. ASSUME NEW v \in StreamCalls, FailsForGood(v)
      PROVE  KeyInv'
  <2> DEFINE entry == [call[v] EXCEPT !.at = "failed"]
  <2>1. entry \in CallRows /\ entry.at = "failed" /\ entry.key <= epoch
    BY <1>1 DEF KeyInv, KeyTypeOK, CallRows, CallPlaces
  <2>2. call' = [call EXCEPT ![v] = entry]
    BY <1>5 DEF FailsForGood
  <2> HIDE DEF entry
  <2>3. upset' = upset \cup {v} /\ UNCHANGED <<epoch, keyCache, rotated>>
    BY <1>5 DEF FailsForGood
  <2>4. rotated' \subseteq StreamCalls /\ upset' \subseteq StreamCalls
    BY <2>3 DEF KeyInv, KeyTypeOK
  <2> QED
    BY <1>1, <2>1, <2>2, <2>3, <2>4, CallStep
<1>6. ASSUME NEW v \in StreamCalls, Answers(v) \/ Unreadable(v)
      PROVE  KeyInv'
  BY <1>1, <1>6, MoveStep DEF Answers, Unreadable
<1>7. ASSUME NEW v \in StreamCalls, Rejects(v)
      PROVE  KeyInv'
  <2>1. call[v].attempt = 0 \/ v \in rotated
    <3>1. call[v].attempt \in 0..1
      BY DEF KeyInv, KeyTypeOK
    <3> QED
      BY <1>7, <3>1 DEF Rejects, KeyInv, SecondKeyIsFresh
  <2> QED
    BY <1>7, <2>1, AgainStep DEF Rejects
<1>8. ASSUME NEW v \in StreamCalls, Returns(v)
      PROVE  KeyInv'
  <2>1. 0 \in 0..MaxRotations /\ 0 <= epoch
    BY <1>1, KeyBounds
  <2>2. IdleCall \in CallRows /\ IdleCall.at = "idle" /\ IdleCall.key <= epoch
    BY <2>1 DEF IdleCall, CallRows, CallPlaces
  <2>3. rotated' \subseteq StreamCalls /\ upset' \subseteq StreamCalls
    BY <1>8 DEF Returns, KeyInv, KeyTypeOK
  <2> QED
    BY <1>1, <1>8, <2>2, <2>3, CallStep DEF Returns
<1>9. CASE Rotate
  <2>1. /\ epoch' \in 0..MaxRotations /\ epoch' = epoch + 1 /\ epoch \in Int
        /\ UNCHANGED <<keyCache, call, upset>>
    BY <1>1, <1>9, KeyBounds DEF Rotate
  <2>2. rotated' = {v \in StreamCalls : v \in rotated \/ call[v].at \in {"deriving", "asking"}}
    BY <1>9 DEF Rotate
  <2>3. KeyTypeOK'
    BY <2>1, <2>2 DEF KeyInv, KeyTypeOK
  <2>4. SecondKeyIsFresh'
    BY <2>1, <2>2 DEF KeyInv, SecondKeyIsFresh
  <2>5. \A v \in StreamCalls : call[v].key \in Int
    BY KeyBounds DEF KeyInv, KeyTypeOK
  <2>6. keyCache # NoSiteKey => keyCache.epoch \in Int
    BY <1>1, KeyBounds DEF CachedKeys
  <2>7. NoKeyIsNewer' /\ RotationsAreSurvived'
    BY <1>1, <2>1, <2>2, <2>5, <2>6 DEF KeyInv, NoKeyIsNewer, RotationsAreSurvived
  <2> QED
    BY <2>3, <2>4, <2>7 DEF KeyInv
<1>10. CASE KeyTick
  <2>1. keyCache' \in CachedKeys /\ keyCache'.epoch <= epoch
    <3>1. keyCache \in CachedKeys /\ keyCache.left > 0
      BY <1>1, <1>10 DEF KeyTick, KeyFresh
    <3>2. keyCache.left - 1 \in 0..KeyTtl
      BY <3>1, KeyBounds DEF CachedKeys
    <3> QED
      BY <1>1, <1>10, <3>1, <3>2, NoSiteKeyIsNone DEF KeyTick, CachedKeys
  <2> QED
    BY <1>10, <2>1
    DEF KeyTick, KeyInv, KeyTypeOK, SecondKeyIsFresh, NoKeyIsNewer, RotationsAreSurvived
<1>11. CASE UNCHANGED keyVars
  BY <1>11 DEF keyVars, KeyInv, KeyTypeOK, SecondKeyIsFresh, NoKeyIsNewer, RotationsAreSurvived
<1> QED
  BY <1>2, <1>3, <1>4, <1>5, <1>6, <1>7, <1>8, <1>9, <1>10, <1>11 DEF KeyNext

LEMMA KeyInitInv == KeyInit => KeyInv
<1> SUFFICES ASSUME KeyInit PROVE KeyInv
  OBVIOUS
<1>1. 0 \in 0..MaxRotations
  BY KeyBounds
<1>2. KeyTypeOK
  BY <1>1 DEF KeyInit, KeyTypeOK, IdleCall
<1> QED
  BY <1>2 DEF KeyInit, KeyInv, IdleCall, SecondKeyIsFresh, NoKeyIsNewer, RotationsAreSurvived

\* For any calls, rotations and time to live: a key the site rejects costs no
\* viewer the stream, whichever call cached it, unless the site rotates again
\* under the second attempt, and an answer that cannot be read is one to a key
\* the site has replaced (_get_keys, _fetch_sources).
THEOREM RotationsCostNoStream == KeySpec => []RotationsAreSurvived
<1>1. KeyInv => RotationsAreSurvived
  BY DEF KeyInv
<1> QED
  BY <1>1, KeyInitInv, KeyStep, PTL DEF KeySpec

-----------------------------------------------------------------------------
(***************************************************************************)
(* The guards of the metadata search.  A guard that is set runs out within *)
(* its period of the last moment a request could still fail.               *)
(***************************************************************************)

GuardsRunOut ==
  /\ searchCooling > 0 => calmFor + searchCooling <= Patience + FailCooldown
  /\ \A k \in Keywords : negative[k] > 0 => calmFor + negative[k] <= Patience + FailTtl

EmptyWasRefused == \A k \in Keywords : kept[k].hits = "empty" => k \in snubbed

MetaInv == MetaTypeOK /\ GuardsRunOut /\ EmptyWasRefused

\* The constants are numbers.
LEMMA SearchNumbers ==
  /\ Patience \in Nat /\ FailTtl \in Nat /\ KeepFor \in Nat /\ FailCooldown \in Nat
  /\ FailThreshold \in Nat /\ FailThreshold > 0 /\ FailTtl <= FailCooldown
BY SearchConstants

\* What the type invariant says of the numbers.
LEMMA GuardFacts ==
  ASSUME MetaTypeOK
  PROVE  /\ calmFor \in Nat /\ calmFor <= CalmEnough
         /\ searchFailures \in Nat /\ searchFailures <= FailThreshold
         /\ searchCooling \in Nat /\ searchCooling <= FailCooldown
         /\ \A k \in Keywords : negative[k] \in Nat /\ negative[k] <= FailTtl
BY SearchNumbers DEF MetaTypeOK, CalmEnough

\* Going to the network.
LEMMA GoAskStep ==
  ASSUME MetaInv, NEW k \in Keywords, NEW purpose \in {"request", "refresh"},
         GoAsk(k, purpose)
  PROVE  MetaInv'
<1>1. PICK s \in Asks :
        asking' = [asking EXCEPT ![s] =
                     [keyword |-> k, purpose |-> purpose, left |-> Patience]]
  BY DEF GoAsk
<1>2. UNCHANGED <<bangumi, calmFor, searchFailures, searchCooling, negative, kept, snubbed>>
  BY DEF GoAsk, guardVars
<1>3. [keyword |-> k, purpose |-> purpose, left |-> Patience] \in OnTheNetwork
  <2>1. Patience \in 0..Patience
    BY SearchNumbers
  <2> QED
    BY <2>1 DEF OnTheNetwork
<1>4. MetaTypeOK'
  BY <1>1, <1>2, <1>3 DEF MetaInv, MetaTypeOK
<1> QED
  BY <1>2, <1>4 DEF MetaInv, GuardsRunOut, EmptyWasRefused

\* An answer that counts as a success, empty or not, stored as it came.
LEMMA AnswerStep ==
  ASSUME MetaInv, NEW s \in Asks, Gone(s), NEW what \in {"empty", "found"},
         Keep(asking[s].keyword, what), MarkSearchSuccess,
         UNCHANGED <<bangumi, calmFor, negative>>,
         snubbed' \subseteq snubbed \cup {asking[s].keyword},
         snubbed \subseteq snubbed' \cup {asking[s].keyword},
         what = "empty" => asking[s].keyword \in snubbed'
  PROVE  MetaInv'
<1> DEFINE k == asking[s].keyword
<1>1. asking[s] \in OnTheNetwork /\ asking' = [asking EXCEPT ![s] = NoAsk]
  BY DEF Gone, MetaInv, MetaTypeOK
<1>2. k \in Keywords
  BY <1>1 DEF OnTheNetwork
<1>3. kept' = [kept EXCEPT ![k] = [hits |-> what, left |-> KeepFor]]
  BY DEF Keep
<1>4. [hits |-> what, left |-> KeepFor] \in KeptEntry
  <2>1. KeepFor \in 0..KeepFor
    BY SearchNumbers
  <2> QED
    BY <2>1 DEF KeptEntry
<1>5. searchFailures' = 0 /\ searchCooling' = 0
  BY DEF MarkSearchSuccess
<1> HIDE DEF k
<1>6. /\ snubbed' \subseteq snubbed \cup {k} /\ snubbed \subseteq snubbed' \cup {k}
      /\ what = "empty" => k \in snubbed'
  BY DEF k
<1>7. searchFailures' \in 0..FailThreshold /\ searchCooling' \in 0..FailCooldown
  BY <1>5, SearchNumbers
<1>8. kept' \in [Keywords -> KeptEntry] /\ asking' \in [Asks -> OnTheNetwork \cup {NoAsk}]
      /\ snubbed' \subseteq Keywords
  BY <1>1, <1>2, <1>3, <1>4, <1>6 DEF MetaInv, MetaTypeOK
<1>9. MetaTypeOK'
  BY <1>7, <1>8 DEF MetaInv, MetaTypeOK
<1>10. GuardsRunOut'
  BY <1>5 DEF MetaInv, GuardsRunOut
<1>11. EmptyWasRefused'
  <2> SUFFICES ASSUME NEW j \in Keywords, kept'[j].hits = "empty"
               PROVE  j \in snubbed'
    BY DEF EmptyWasRefused
  <2>1. CASE j = k
    <3>1. kept'[j] = [hits |-> what, left |-> KeepFor]
      BY <2>1, <1>3 DEF MetaInv, MetaTypeOK
    <3>2. what = "empty"
      BY <3>1
    <3> QED
      BY <2>1, <3>2, <1>6
  <2>2. CASE j # k
    <3>1. kept'[j] = kept[j]
      BY <2>2, <1>3 DEF MetaInv, MetaTypeOK
    <3> QED
      BY <2>2, <3>1, <1>6 DEF MetaInv, EmptyWasRefused
  <2> QED
    BY <2>1, <2>2
<1> QED
  BY <1>9, <1>10, <1>11 DEF MetaInv

\* A timeout sets the guards for their periods and stores nothing.
LEMMA FailStep ==
  ASSUME MetaInv, NEW s \in Asks, Fails(s)
  PROVE  MetaInv'
<1> DEFINE k == asking[s].keyword
<1>1. asking[s] \in OnTheNetwork /\ asking' = [asking EXCEPT ![s] = NoAsk]
  BY DEF Fails, Gone, MetaInv, MetaTypeOK
<1>2. k \in Keywords
  BY <1>1 DEF OnTheNetwork
<1>3. negative' = [negative EXCEPT ![k] = FailTtl] /\ calmFor <= Patience
      /\ UNCHANGED <<bangumi, calmFor, kept, snubbed>>
  BY DEF Fails, MayTimeOut
<1> HIDE DEF k
<1>4. MetaTypeOK
  BY DEF MetaInv
<1>5. /\ searchFailures' \in 0..FailThreshold
      /\ searchCooling' = FailCooldown \/ searchCooling' = searchCooling
  BY <1>4, GuardFacts, SearchNumbers DEF Fails, MarkSearchFailure
<1>6. searchCooling' \in 0..FailCooldown
  BY <1>4, <1>5, SearchNumbers DEF MetaTypeOK
<1>7. FailTtl \in 0..FailTtl
  BY SearchNumbers
<1>8. negative' \in [Keywords -> 0..FailTtl]
  BY <1>2, <1>3, <1>4, <1>7 DEF MetaTypeOK
<1>9. MetaTypeOK'
  BY <1>1, <1>3, <1>4, <1>5, <1>6, <1>8 DEF MetaTypeOK
<1>10. searchCooling' > 0 => calmFor' + searchCooling' <= Patience + FailCooldown
  BY <1>3, <1>4, <1>5, GuardFacts, SearchNumbers DEF MetaInv, GuardsRunOut
<1>11. ASSUME NEW j \in Keywords, negative'[j] > 0
       PROVE  calmFor' + negative'[j] <= Patience + FailTtl
  <2>1. CASE j = k
    <3>1. negative'[j] = FailTtl
      BY <2>1, <1>3, <1>4 DEF MetaTypeOK
    <3> QED
      BY <3>1, <1>3, <1>4, GuardFacts, SearchNumbers
  <2>2. CASE j # k
    <3>1. negative'[j] = negative[j]
      BY <2>2, <1>3, <1>4 DEF MetaTypeOK
    <3> QED
      BY <3>1, <1>3, <1>11 DEF MetaInv, GuardsRunOut
  <2> QED
    BY <2>1, <2>2
<1> QED
  BY <1>3, <1>9, <1>10, <1>11 DEF MetaInv, GuardsRunOut, EmptyWasRefused

\* Counting down one tick.
LEMMA DownFacts ==
  ASSUME NEW limit \in Nat, NEW n \in 0..limit
  PROVE  Down(n) \in 0..limit /\ (Down(n) > 0 => n > 0 /\ Down(n) = n - 1)
BY DEF Down

\* One up and one down leaves the sum within its bound.
LEMMA Balance ==
  ASSUME NEW a \in Int, NEW b \in Int, NEW c \in Int, NEW d \in Int, NEW bound \in Int,
         c <= a + 1, d = b - 1, a + b <= bound
  PROVE  c + d <= bound
OBVIOUS

\* The clock brings every guard nearer to its end as fast as it makes Bangumi
\* look calm.
LEMMA MetaTickStep ==
  ASSUME MetaInv, MetaTick
  PROVE  MetaInv'
<1>1. MetaTypeOK
  BY DEF MetaInv
<1>2. UNCHANGED <<bangumi, searchFailures, snubbed>>
  BY DEF MetaTick
<1>3. calmFor' \in 0..CalmEnough /\ (calmFor' = calmFor \/ calmFor' = calmFor + 1)
  BY <1>1, GuardFacts, SearchNumbers DEF MetaTick, CalmEnough
<1>4. calmFor' \in 0..CalmEnough /\ calmFor' <= calmFor + 1
  BY <1>1, <1>3, GuardFacts, SearchNumbers DEF CalmEnough
<1>5. searchCooling' \in 0..FailCooldown
      /\ (searchCooling' > 0 => searchCooling > 0 /\ searchCooling' = searchCooling - 1)
  BY <1>1, DownFacts, SearchNumbers DEF MetaTick, MetaTypeOK
<1>6. \A k \in Keywords :
        /\ negative'[k] \in 0..FailTtl
        /\ negative'[k] > 0 => negative[k] > 0 /\ negative'[k] = negative[k] - 1
  <2> SUFFICES ASSUME NEW k \in Keywords
               PROVE  /\ negative'[k] \in 0..FailTtl
                      /\ negative'[k] > 0 => negative[k] > 0 /\ negative'[k] = negative[k] - 1
    OBVIOUS
  <2>1. negative'[k] = Down(negative[k])
    BY DEF MetaTick
  <2>2. negative[k] \in 0..FailTtl
    BY <1>1 DEF MetaTypeOK
  <2> QED
    BY <2>1, <2>2, DownFacts, SearchNumbers
<1>7. \A k \in Keywords : kept'[k] \in KeptEntry /\ kept'[k].hits = kept[k].hits
  <2> SUFFICES ASSUME NEW k \in Keywords
               PROVE  kept'[k] \in KeptEntry /\ kept'[k].hits = kept[k].hits
    OBVIOUS
  <2>1. kept'[k] = [kept[k] EXCEPT !.left = Down(@)] /\ kept[k] \in KeptEntry
    BY <1>1 DEF MetaTick, MetaTypeOK
  <2>2. Down(kept[k].left) \in 0..KeepFor
    BY <2>1, DownFacts, SearchNumbers DEF KeptEntry
  <2> QED
    BY <2>1, <2>2 DEF KeptEntry
<1>8. \A s \in Asks : asking'[s] \in OnTheNetwork \cup {NoAsk}
  <2> SUFFICES ASSUME NEW s \in Asks, asking[s] # NoAsk
               PROVE  asking'[s] \in OnTheNetwork
    BY DEF MetaTick
  <2>1. asking'[s] = [asking[s] EXCEPT !.left = Down(@)] /\ asking[s] \in OnTheNetwork
    BY <1>1 DEF MetaTick, MetaTypeOK
  <2>2. Down(asking[s].left) \in 0..Patience
    BY <2>1, DownFacts, SearchNumbers DEF OnTheNetwork
  <2> QED
    BY <2>1, <2>2 DEF OnTheNetwork
<1>9. /\ negative' = [k \in Keywords |-> negative'[k]]
      /\ kept' = [k \in Keywords |-> kept'[k]]
      /\ asking' = [s \in Asks |-> asking'[s]]
  BY DEF MetaTick
<1>10. MetaTypeOK'
  <2>1. negative' \in [Keywords -> 0..FailTtl] /\ kept' \in [Keywords -> KeptEntry]
        /\ asking' \in [Asks -> OnTheNetwork \cup {NoAsk}]
    BY <1>6, <1>7, <1>8, <1>9
  <2> QED
    BY <1>1, <1>2, <1>4, <1>5, <2>1 DEF MetaTypeOK
<1>11. searchCooling' > 0 => calmFor' + searchCooling' <= Patience + FailCooldown
  <2>1. calmFor \in Int /\ calmFor' \in Int /\ searchCooling \in Int
    BY <1>1, <1>4, GuardFacts
  <2>2. searchCooling > 0 => calmFor + searchCooling <= Patience + FailCooldown
    BY DEF MetaInv, GuardsRunOut
  <2>3. ASSUME searchCooling' > 0
        PROVE  calmFor' + searchCooling' <= Patience + FailCooldown
    <3>1. /\ searchCooling > 0 /\ searchCooling' = searchCooling - 1
          /\ calmFor' <= calmFor + 1
      BY <1>4, <1>5, <2>3
    <3>2. searchCooling' \in Int /\ Patience + FailCooldown \in Int
      BY <2>1, <3>1, SearchNumbers
    <3> QED
      BY <2>1, <2>2, <3>1, <3>2, Balance
  <2> QED
    BY <2>3
<1>12. ASSUME NEW k \in Keywords, negative'[k] > 0
       PROVE  calmFor' + negative'[k] <= Patience + FailTtl
  <2>1. calmFor \in Int /\ calmFor' \in Int /\ negative[k] \in Int
    BY <1>1, <1>4, GuardFacts
  <2> QED
    BY <1>4, <1>6, <1>12, <2>1, SearchNumbers DEF MetaInv, GuardsRunOut
<1> QED
  BY <1>2, <1>7, <1>10, <1>11, <1>12 DEF MetaInv, GuardsRunOut, EmptyWasRefused

LEMMA MetaStep ==
  ASSUME MetaInv, [MetaNext]_metaVars
  PROVE  MetaInv'
<1>1. ASSUME NEW k \in Keywords, NEW purpose \in {"request", "refresh"}, GoAsk(k, purpose)
      PROVE  MetaInv'
  BY <1>1, GoAskStep
<1>2. ASSUME NEW s \in Asks, Found(s) \/ Refused(s)
      PROVE  MetaInv'
  <2>1. CASE Found(s)
    <3>1. /\ Keep(asking[s].keyword, "found") /\ Gone(s) /\ MarkSearchSuccess
          /\ UNCHANGED <<bangumi, calmFor, negative>>
      BY <2>1 DEF Found
    <3>2. snubbed' = snubbed \ {asking[s].keyword}
      BY <2>1 DEF Found
    <3>3. /\ snubbed' \subseteq snubbed \cup {asking[s].keyword}
          /\ snubbed \subseteq snubbed' \cup {asking[s].keyword}
      BY <3>2
    <3>4. "found" \in {"empty", "found"} /\ "found" # "empty"
      OBVIOUS
    <3> QED
      BY <3>1, <3>3, <3>4, AnswerStep
  <2>2. CASE Refused(s)
    <3>1. /\ Keep(asking[s].keyword, "empty") /\ Gone(s) /\ MarkSearchSuccess
          /\ UNCHANGED <<bangumi, calmFor, negative>>
      BY <2>2 DEF Refused
    <3>2. snubbed' = snubbed \cup {asking[s].keyword}
      BY <2>2 DEF Refused
    <3>3. /\ snubbed' \subseteq snubbed \cup {asking[s].keyword}
          /\ snubbed \subseteq snubbed' \cup {asking[s].keyword}
          /\ asking[s].keyword \in snubbed'
      BY <3>2
    <3>4. "empty" \in {"empty", "found"}
      OBVIOUS
    <3> QED
      BY <3>1, <3>3, <3>4, AnswerStep
  <2> QED
    BY <1>2, <2>1, <2>2
<1>3. ASSUME NEW s \in Asks, Fails(s)
      PROVE  MetaInv'
  BY <1>3, FailStep
<1>4. ASSUME NEW s \in Asks, GivesUp(s)
      PROVE  MetaInv'
  BY <1>4 DEF GivesUp, Gone, guardVars, MetaInv, MetaTypeOK, GuardsRunOut, EmptyWasRefused
<1>5. CASE WorldTurns
  <2>1. calmFor' = 0 /\ bangumi' \in {"answers", "refuses", "stalls"}
        /\ UNCHANGED <<searchFailures, searchCooling, negative, kept, asking, snubbed>>
    BY <1>5 DEF WorldTurns, guardVars
  <2>2. calmFor' \in 0..CalmEnough
    BY <2>1, SearchNumbers DEF CalmEnough
  <2>3. MetaTypeOK'
    BY <2>1, <2>2 DEF MetaInv, MetaTypeOK
  <2>4. calmFor \in Nat /\ searchCooling \in Nat /\ \A k \in Keywords : negative[k] \in Nat
    BY GuardFacts DEF MetaInv
  <2>5. GuardsRunOut'
    BY <2>1, <2>4, SearchNumbers DEF MetaInv, GuardsRunOut
  <2> QED
    BY <2>1, <2>3, <2>5 DEF MetaInv, EmptyWasRefused
<1>6. CASE MetaTick
  BY <1>6, MetaTickStep
<1>7. CASE MetaRestart
  <2>1. 0 \in 0..FailThreshold /\ 0 \in 0..FailCooldown /\ 0 \in 0..FailTtl
    BY SearchNumbers
  <2> QED
    BY <1>7, <2>1 DEF MetaRestart, MetaInv, MetaTypeOK, GuardsRunOut, EmptyWasRefused
<1>8. CASE UNCHANGED metaVars
  BY <1>8 DEF metaVars, MetaInv, MetaTypeOK, GuardsRunOut, EmptyWasRefused
<1> QED
  BY <1>1, <1>2, <1>3, <1>4, <1>5, <1>6, <1>7, <1>8 DEF MetaNext, Search, SearchStale

LEMMA MetaInitInv == MetaInit => MetaInv
<1> SUFFICES ASSUME MetaInit PROVE MetaInv
  OBVIOUS
<1>1. /\ 0 \in 0..FailThreshold /\ 0 \in 0..FailCooldown /\ 0 \in 0..FailTtl
      /\ 0 \in 0..KeepFor /\ 0 \in 0..CalmEnough
  BY SearchNumbers DEF CalmEnough
<1>2. MetaTypeOK
  BY <1>1 DEF MetaInit, MetaTypeOK, KeptEntry
<1> QED
  BY <1>2 DEF MetaInit, MetaInv, GuardsRunOut, EmptyWasRefused

LEMMA SilenceFacts == MetaInv => SilenceLeavesNoTrace
<1> SUFFICES ASSUME MetaInv, Calm, NEW k \in Keywords
             PROVE  ~HeldBack(k)
  BY DEF MetaInv, EmptyWasRefused, SilenceLeavesNoTrace
<1>1. calmFor = Patience + FailCooldown + 1
  BY DEF Calm, CalmEnough
<1>2. searchCooling \in Nat /\ negative[k] \in Nat
  BY GuardFacts DEF MetaInv
<1>3. ~(searchCooling > 0)
  BY <1>1, <1>2, SearchNumbers DEF MetaInv, GuardsRunOut
<1>4. ~(negative[k] > 0)
  BY <1>1, <1>2, SearchNumbers DEF MetaInv, GuardsRunOut
<1> QED
  BY <1>3, <1>4 DEF HeldBack, InSearchCooldown

\* For any keywords, thresholds and periods: once Bangumi has answered for
\* longer than a timeout and a cooldown, no guard holds a search back, and only
\* an outright refusal is ever stored as an empty answer (search,
\* _in_search_cooldown, _mark_search_failure).
THEOREM StallsLeaveNoTrace == MetaSpec => []SilenceLeavesNoTrace
  BY SilenceFacts, MetaInitInv, MetaStep, PTL DEF MetaSpec

-----------------------------------------------------------------------------
(***************************************************************************)
(* Covers.  Once a cover is stored, every resolve of the title that is     *)
(* still under way had begun before.                                       *)
(***************************************************************************)

OldResolvesOnly == cover.what = "cover" => resolving \subseteq older

CoverInv == TitleTypeOK /\ OldResolvesOnly

LEMMA CoverStep ==
  ASSUME CoverInv, [TitleNext]_titleVars
  PROVE  /\ CoverInv'
         /\ cover.what = "cover" /\ cover'.what # "cover" =>
              \E r \in older : r \in resolving /\ r \notin resolving'
<1> USE DEF CoverInv, TitleTypeOK, OldResolvesOnly
<1>1. MissRetry \in Nat
  BY CardBounds
<1>2. CASE MakeCards
  BY <1>2 DEF MakeCards, coverVars
<1>3. ASSUME NEW r \in Resolves, NEW force \in BOOLEAN, BeginResolve(r, force)
      PROVE  CoverInv' /\ cover' = cover
  BY <1>3 DEF BeginResolve, ShouldRetryMiss, cardVars
<1>4. ASSUME NEW r \in Resolves, CoverFound(r)
      PROVE  CoverInv' /\ cover'.what = "cover"
  <2>1. cover' \in [what : {"none", "miss", "cover"}, age : 0..MissRetry]
    BY <1>1, <1>4 DEF CoverFound
  <2> QED
    BY <1>4, <2>1 DEF CoverFound, cardVars
<1>5. ASSUME NEW r \in Resolves, CoverMissed(r)
      PROVE  CoverInv' /\ r \in resolving /\ r \notin resolving'
  <2>1. cover' \in [what : {"none", "miss", "cover"}, age : 0..MissRetry]
    BY <1>1, <1>5 DEF CoverMissed
  <2> QED
    BY <1>5, <2>1 DEF CoverMissed, cardVars
<1>6. ASSUME NEW r \in Resolves, ResolveEnds(r)
      PROVE  CoverInv' /\ cover' = cover
  BY <1>6 DEF ResolveEnds, cardVars
<1>7. CASE CoverTick
  <2>1. /\ cover'.what = cover.what
        /\ cover' \in [what : {"none", "miss", "cover"}, age : 0..MissRetry]
    BY <1>1, <1>7 DEF CoverTick
  <2> QED
    BY <1>7, <2>1 DEF CoverTick, cardVars
<1>8. CASE UNCHANGED titleVars
  BY <1>8 DEF titleVars
<1> QED
  BY <1>2, <1>3, <1>4, <1>5, <1>6, <1>7, <1>8 DEF TitleNext, CoverNext

LEMMA CoverInvHolds == TitleSpec => []CoverInv
<1>1. TitleInit => CoverInv
  BY CardBounds DEF TitleInit, CoverInit, CoverInv, TitleTypeOK, OldResolvesOnly
<1> QED
  BY <1>1, CoverStep, PTL DEF TitleSpec

\* For any number of resolves at a time: a cover that was found is lost only to
\* a resolve of the same title that had begun before it was stored
\* (resolve_titles, _should_retry_miss, upsert_title_cover).
THEOREM CoversStay == TitleSpec => CoversAreLostToOldResolvesOnly
<1>1. CoverInv /\ [TitleNext]_titleVars =>
        [cover.what = "cover" /\ cover'.what # "cover" =>
           \E r \in older : r \in resolving /\ r \notin resolving']_titleVars
  BY CoverStep
<1> QED
  BY <1>1, CoverInvHolds, PTL DEF TitleSpec, CoversAreLostToOldResolvesOnly

-----------------------------------------------------------------------------
(***************************************************************************)
(* TorrentSearch: the sources are heard, and the merge keeps what they     *)
(* found.                                                                  *)
(***************************************************************************)

\* The first of two routes that is not passed over.
LEMMA FirstOfTwo ==
  ASSUME NEW a, NEW b, NEW passed
  PROVE  FirstOf(<<a, b>>, passed) =
           IF a \notin passed THEN a ELSE IF b \notin passed THEN b ELSE "none"
<1> DEFINE S == {a, b}
           q == <<a, b>>
           keep == ToSet(q) \ passed
           rest == Sift(q, keep)
<1>1. q \in Seq(S) /\ Len(q) = 2 /\ q[1] = a /\ q[2] = b
  OBVIOUS
<1>2. FirstOf(q, passed) = IF rest = <<>> THEN "none" ELSE Head(rest)
  BY DEF FirstOf
<1>3. (a \in keep <=> a \notin passed) /\ (b \in keep <=> b \notin passed)
  <2> HIDE DEF q
  <2>1. DOMAIN q = 1..2
    BY <1>1, ElementFacts
  <2> QED
    BY <1>1, <2>1 DEF ToSet
<1> HIDE DEF keep, q, S
<1>4. /\ rest \in Seq(S)
      /\ \A j \in 1..Len(rest) : rest[j] \in keep /\ \E i \in 1..2 : rest[j] = q[i]
      /\ \A i \in 1..2 : q[i] \in keep => \E j \in 1..Len(rest) : rest[j] = q[i]
      /\ \A j, k \in 1..Len(rest) : j < k =>
           \E x, y \in 1..2 : x < y /\ rest[j] = q[x] /\ rest[k] = q[y]
  <2>0. q \in Seq(S)
    BY <1>1
  <2>1. /\ Sift(q, keep) \in Seq(S)
        /\ \A j \in 1..Len(Sift(q, keep)) :
             Sift(q, keep)[j] \in keep /\ \E i \in 1..Len(q) : Sift(q, keep)[j] = q[i]
        /\ \A i \in 1..Len(q) :
             q[i] \in keep => \E j \in 1..Len(Sift(q, keep)) : Sift(q, keep)[j] = q[i]
        /\ \A j, k \in 1..Len(Sift(q, keep)) : j < k =>
             \E x, y \in 1..Len(q) :
               x < y /\ Sift(q, keep)[j] = q[x] /\ Sift(q, keep)[k] = q[y]
    BY <2>0, SiftFacts
  <2> QED
    BY <1>1, <2>1
<1> HIDE DEF rest
<1>5. Len(rest) \in Nat /\ (rest = <<>> <=> Len(rest) = 0)
  BY <1>4, ElementFacts
<1>6. rest # <<>> => Head(rest) = rest[1] /\ 1 \in 1..Len(rest)
  BY <1>4, <1>5, TailFacts
<1>7. ASSUME a \in keep PROVE rest # <<>> /\ rest[1] = a
  <2>1. PICK j \in 1..Len(rest) : rest[j] = a
    BY <1>1, <1>4, <1>7
  <2>2. rest # <<>> /\ 1 \in 1..Len(rest)
    BY <1>5, <2>1
  <2>3. CASE j = 1
    BY <2>1, <2>2, <2>3
  <2>4. CASE 1 < j
    <3>1. PICK x \in 1..2, y \in 1..2 : x < y /\ rest[1] = q[x]
      BY <1>4, <2>2, <2>4
    <3> QED
      BY <1>1, <2>2, <3>1
  <2> QED
    BY <2>1, <2>3, <2>4
<1>8. ASSUME a \notin keep, b \in keep PROVE rest # <<>> /\ rest[1] = b
  <2>1. \E j \in 1..Len(rest) : rest[j] = b
    BY <1>1, <1>4, <1>8
  <2>2. rest # <<>>
    BY <1>5, <2>1
  <2>3. rest[1] \in keep /\ \E i \in 1..2 : rest[1] = q[i]
    BY <1>4, <1>6, <2>2
  <2> QED
    BY <1>1, <1>8, <2>2, <2>3
<1>9. ASSUME a \notin keep, b \notin keep PROVE rest = <<>>
  <2>1. \A j \in 1..Len(rest) : FALSE
    BY <1>1, <1>4, <1>9
  <2> QED
    BY <1>5, <2>1
<1> QED
  BY <1>2, <1>3, <1>6, <1>7, <1>8, <1>9 DEF q

\* The two instances of it: of two pages, and of two feeds, the first that is not passed.
LEMMA FirstPage ==
  ASSUME NEW passed
  PROVE  FirstOf(<<"page", "mirror page">>, passed) =
           IF "page" \notin passed THEN "page"
           ELSE IF "mirror page" \notin passed THEN "mirror page" ELSE "none"
  BY FirstOfTwo

LEMMA FirstFeed ==
  ASSUME NEW passed
  PROVE  FirstOf(<<"feed", "mirror feed">>, passed) =
           IF "feed" \notin passed THEN "feed"
           ELSE IF "mirror feed" \notin passed THEN "mirror feed" ELSE "none"
  BY FirstOfTwo

\* A source whose torrents a route of it has tells all of them.
LEMMA SourceIsHeard ==
  ASSUME NEW s \in Sources \ {"subsplease"}, NEW routes \in [Pages \cup Feeds -> RouteStates], NEW torrents
  PROVE  /\ SourceAnswer(s, routes, torrents) \in {torrents, <<>>}
         /\ Reaches(s, routes) => SourceAnswer(s, routes, torrents) = torrents
<1>1. /\ DOMAIN routes = {"page", "mirror page", "feed", "mirror feed"}
      /\ \A r \in DOMAIN routes : routes[r] \in {"works", "refuses", "garbage"}
  BY DEF Pages, Feeds, RouteStates
<1>2. CASE s = "nyaa"
  <2> DEFINE gone == In("refuses", routes)
             bad == In("refuses", routes) \cup In("garbage", routes)
  <2>1. NyaaPage(routes) = IF "page" \notin bad THEN "page"
                           ELSE IF "mirror page" \notin bad THEN "mirror page" ELSE "none"
    <3>1. FirstOf(<<"page", "mirror page">>, bad) =
            IF "page" \notin bad THEN "page"
            ELSE IF "mirror page" \notin bad THEN "mirror page" ELSE "none"
      <4> HIDE DEF bad
      <4> QED
        BY FirstPage
    <3> QED
      BY <3>1 DEF NyaaPage
  <2>2. NyaaFeed(routes) = IF "feed" \notin gone THEN "feed"
                           ELSE IF "mirror feed" \notin gone THEN "mirror feed" ELSE "none"
    <3>1. FirstOf(<<"feed", "mirror feed">>, gone) =
            IF "feed" \notin gone THEN "feed"
            ELSE IF "mirror feed" \notin gone THEN "mirror feed" ELSE "none"
      <4> HIDE DEF gone
      <4> QED
        BY FirstFeed
    <3> QED
      BY <3>1 DEF NyaaFeed
  <2>3. \A r \in DOMAIN routes : (r \notin bad <=> routes[r] = "works")
                                 /\ (r \notin gone <=> routes[r] # "refuses")
    BY <1>1 DEF In
  <2>4. SourceAnswer(s, routes, torrents) = NyaaAnswer(routes, torrents)
    BY <1>2 DEF SourceAnswer
  <2>5. Reaches(s, routes) <=>
          \/ \E r \in Pages : routes[r] = "works"
          \/ (\E r \in Feeds : routes[r] = "works") /\ (\A r \in Feeds : routes[r] # "garbage")
    BY <1>2 DEF Reaches
  <2> HIDE DEF bad, gone
  <2> QED
    BY <1>1, <2>1, <2>2, <2>3, <2>4, <2>5 DEF NyaaAnswer, Pages, Feeds
<1>3. CASE s = "mikan"
  <2> DEFINE gone == In("refuses", routes)
  <2>1. MikanFetch(routes) = IF "page" \notin gone THEN "page"
                             ELSE IF "mirror page" \notin gone THEN "mirror page" ELSE "none"
    <3>1. FirstOf(<<"page", "mirror page">>, gone) =
            IF "page" \notin gone THEN "page"
            ELSE IF "mirror page" \notin gone THEN "mirror page" ELSE "none"
      <4> HIDE DEF gone
      <4> QED
        BY FirstPage
    <3> QED
      BY <3>1 DEF MikanFetch
  <2>2. \A r \in DOMAIN routes : r \notin gone <=> routes[r] # "refuses"
    BY <1>1 DEF In
  <2>3. SourceAnswer(s, routes, torrents) = MikanAnswer(routes, torrents)
    BY <1>3 DEF SourceAnswer
  <2>4. Reaches(s, routes) <=>
          (\E r \in Pages : routes[r] = "works") /\ (\A r \in Pages : routes[r] # "garbage")
    BY <1>3 DEF Reaches
  <2> HIDE DEF gone
  <2> QED
    BY <1>1, <2>1, <2>2, <2>3, <2>4 DEF MikanAnswer, Pages
<1>4. CASE s = "anime_garden"
  BY <1>4 DEF SourceAnswer, GardenAnswer, Reaches
<1> QED
  BY <1>2, <1>3, <1>4 DEF Sources

\* What a torrent is made of.
LEMMA TorrentFacts ==
  /\ NoHash \notin Hashes /\ MaxSeeders \in Nat /\ MaxFound \in Nat
  /\ \A t \in Torrents : t.seeders \in 0..MaxSeeders /\ t.hash \in Hashes \cup {NoHash}
                         /\ t.source \in Sources /\ t.fansub \in 0..1 /\ t.date \in 0..1
  BY TorrentBounds DEF Torrents

\* What SubsPlease is asked, one title after the other.
LEMMA AskFacts ==
  ASSUME NEW k \in Nat, NEW asked \in AskLists(k)
  PROVE  /\ DOMAIN asked = 1..k
         /\ \A i \in 1..k : AskEntries(asked[i]) \in Seq(TorrentsOf("subsplease"))
<1> DEFINE T == TorrentsOf("subsplease")
<1>1. asked \in [1..k -> [feed : RouteStates, entries : UNION {[1..n -> T] : n \in 0..MaxFound}]]
  BY DEF AskLists
<1> HIDE DEF T
<1>2. ASSUME NEW i \in 1..k PROVE AskEntries(asked[i]) \in Seq(T)
  <2> DEFINE e == asked[i].entries
  <2>1. e \in UNION {[1..n -> T] : n \in 0..MaxFound}
    BY <1>1
  <2>2. PICK n \in 0..MaxFound : e \in [1..n -> T]
    BY <2>1
  <2>3. n \in Nat
    BY <2>2, TorrentFacts
  <2> HIDE DEF e
  <2>4. e \in Seq(T) /\ <<>> \in Seq(T)
    BY <2>2, <2>3, ListFacts
  <2> QED
    BY <2>4 DEF AskEntries, e
<1> QED
  BY <1>1, <1>2 DEF T

\* SubsPlease tells what any of its titles found: of equal entries the first is
\* kept.
LEMMA SubsPleaseIsHeard ==
  ASSUME NEW k \in Nat, NEW asked \in AskLists(k)
  PROVE  /\ SubsPleaseAnswer(asked) \in Seq(TorrentsOf("subsplease"))
         /\ \A i \in 1..k : ToSet(AskEntries(asked[i])) \subseteq ToSet(SubsPleaseAnswer(asked))
<1> DEFINE T == TorrentsOf("subsplease")
           lists == [i \in DOMAIN asked |-> AskEntries(asked[i])]
           all == Joined(lists)
           n == Len(all)
           places == [i \in 1..n |-> i]
           first == {i \in 1..n : \A j \in 1..i - 1 : all[j] # all[i]}
           news == Sift(places, first)
           told == [i \in DOMAIN news |-> all[news[i]]]
<1>1. lists \in [1..k -> Seq(T)] /\ \A i \in 1..k : lists[i] = AskEntries(asked[i])
  BY AskFacts
<1>2. SubsPleaseAnswer(asked) = told
  BY DEF SubsPleaseAnswer, News
<1> HIDE DEF T, lists
<1>3. all \in Seq(T) /\ IsJoined(all, k, lists)
  BY <1>1, JoinedIsJoined
<1> HIDE DEF all
<1>4. n \in Nat /\ \A i \in 1..n : all[i] \in T
  BY <1>3, ElementFacts
<1>5. places \in Seq(1..n) /\ Len(places) = n /\ \A i \in 1..n : places[i] = i
  <2>1. places \in [1..n -> 1..n]
    OBVIOUS
  <2> HIDE DEF n
  <2> QED
    BY <1>4, <2>1, ListFacts
<1> HIDE DEF places, n
<1>6. /\ news \in Seq(1..n)
      /\ \A i \in 1..n : i \in first => \E j \in 1..Len(news) : news[j] = i
  <2> HIDE DEF first
  <2> DEFINE S == 1..n
  <2>0. places \in Seq(S)
    BY <1>5
  <2> HIDE DEF S
  <2>1. /\ Sift(places, first) \in Seq(S)
        /\ \A i \in 1..Len(places) : places[i] \in first =>
             \E j \in 1..Len(Sift(places, first)) : Sift(places, first)[j] = places[i]
    BY <2>0, SiftFacts
  <2> USE DEF S
  <2> QED
    BY <1>5, <2>1
<1> HIDE DEF news
<1>7. /\ DOMAIN news = 1..Len(news) /\ Len(news) \in Nat
      /\ \A j \in 1..Len(news) : news[j] \in 1..n
  BY <1>6, ElementFacts
<1>8. told \in [1..Len(news) -> T] /\ \A j \in 1..Len(news) : told[j] = all[news[j]]
  BY <1>4, <1>7
<1> HIDE DEF told
<1>9. told \in Seq(T) /\ DOMAIN told = 1..Len(news)
  BY <1>7, <1>8, ListFacts
<1>10. ASSUME NEW i \in 1..k, NEW x \in ToSet(AskEntries(asked[i])) PROVE x \in ToSet(told)
  <2>1. lists[i] \in Seq(T) /\ x \in ToSet(lists[i])
    BY <1>1, <1>10
  <2>2. PICK c \in 1..Len(lists[i]) : lists[i][c] = x
    BY <2>1, ElementFacts DEF ToSet
  <2>3. \E j \in 1..n : all[j] = x
    BY <1>3, <2>2 DEF IsJoined, n
  <2> DEFINE at == {j \in 1..n : all[j] = x}
  <2>4. at \subseteq Nat /\ at # {}
    BY <1>4, <2>3
  <2>5. PICK p \in at : \A j \in at : p <= j
    <3> HIDE DEF at
    <3> QED
      BY <2>4, LeastNumber
  <2>6. p \in 1..n /\ all[p] = x /\ \A j \in 1..n : all[j] = x => p <= j
    BY <2>5
  <2>7. \A j \in 1..p - 1 : j \in 1..n /\ ~(p <= j)
    BY <1>4, <2>6
  <2>8. p \in first
    BY <2>6, <2>7
  <2>9. PICK j \in 1..Len(news) : news[j] = p
    BY <1>6, <2>6, <2>8
  <2>10. told[j] = x
    BY <1>8, <2>6, <2>9
  <2> QED
    BY <1>9, <2>9, <2>10 DEF ToSet
<1> QED
  BY <1>2, <1>9, <1>10 DEF T

LEMMA UnseenFacts ==
  ASSUME NEW r \in Seq(Torrents), NEW t \in Torrents
  PROVE  Unseen(r, t) \in Seq(Torrents)
  BY AppendFacts DEF Unseen

\* The results of the loop behind Deduplicated.
Deduplicating(f, torrents) ==
  /\ f \in [0..Len(torrents) -> Seq(Torrents)]
  /\ f[0] = <<>>
  /\ \A i \in 1..Len(torrents) : f[i] = Unseen(f[i - 1], torrents[i])
  /\ Deduplicated(torrents) = f[Len(torrents)]

LEMMA DeduplicatedLoop ==
  ASSUME NEW torrents \in Seq(Torrents)
  PROVE  \E f : Deduplicating(f, torrents)
<1> DEFINE n == Len(torrents)
           X == Seq(Torrents)
           Longer(r, i) == Unseen(r, torrents[i])
           Body(f) == [i \in 0..n |-> IF i = 0 THEN <<>> ELSE Longer(f[i - 1], i)]
           step == [i \in 1..n |-> [r \in X |-> Longer(r, i)]]
           loop == CHOOSE h : h = Body(h)
<1>1. n \in Nat /\ <<>> \in X
  BY ElementFacts
<1>2. \A i \in 1..n, r \in X : Longer(r, i) \in X
  BY ElementFacts, UnseenFacts
<1>3. Deduplicated(torrents) = loop[n]
  BY DEF Deduplicated
<1> HIDE DEF n, X, Longer
<1>4. step \in [1..n -> [X -> X]]
  BY <1>2
<1> DEFINE start == <<>>
<1>5. start \in X
  BY <1>1
<1>6. PICK f : Looping(f, X, start, n, step)
  <2> HIDE DEF step, start
  <2> QED
    BY <1>1, <1>4, <1>5, LoopExists
<1>7. f = Body(f)
  <2>1. f \in [0..n -> X] /\ f[0] = <<>> /\ \A i \in 1..n : f[i] = step[i][f[i - 1]]
    BY <1>6 DEF Looping
  <2>2. \A i \in 1..n : f[i - 1] \in X
    BY <1>1, <2>1
  <2>3. \A i \in 1..n : f[i] = Longer(f[i - 1], i)
    BY <2>1, <2>2
  <2>4. \A i \in 0..n : f[i] = IF i = 0 THEN <<>> ELSE Longer(f[i - 1], i)
    BY <1>1, <2>1, <2>3
  <2> QED
    BY <2>1, <2>4
<1>8. loop = Body(loop)
  BY <1>7
<1> HIDE DEF loop
<1>9. loop[0] = <<>>
  BY <1>1, <1>8
<1>10. ASSUME NEW i \in 1..n PROVE loop[i] = Longer(loop[i - 1], i)
  <2>1. Body(loop)[i] = Longer(loop[i - 1], i)
    BY <1>1
  <2> QED
    BY <1>8, <2>1
<1>11. loop = [i \in 0..n |-> loop[i]]
  BY <1>8
<1>12. \A i \in 1..n : loop[i - 1] \in X => loop[i] = step[i][loop[i - 1]]
  BY <1>10
<1>13. \A i \in 0..n : loop[i] \in X
  <2>1. loop[0] = start
    BY <1>9
  <2> HIDE DEF step, start
  <2> QED
    BY <1>1, <1>4, <1>5, <1>12, <2>1, LoopIsTyped
<1>14. Deduplicating(loop, torrents)
  <2>1. loop \in [0..n -> X]
    BY <1>11, <1>13
  <2> QED
    BY <1>3, <1>9, <1>10, <2>1 DEF Deduplicating, n, X, Longer
<1> QED
  BY <1>14

\* What the merge keeps of a list: for each torrent one that is the same and does
\* not come later, and of a hash the first.
LEMMA DeduplicatedFacts ==
  ASSUME NEW q \in Seq(Torrents)
  PROVE  /\ Deduplicated(q) \in Seq(Torrents)
         /\ \A j \in 1..Len(Deduplicated(q)) : \E i \in 1..Len(q) : Deduplicated(q)[j] = q[i]
         /\ \A i \in 1..Len(q) : \E j \in 1..Len(Deduplicated(q)) :
              SameTorrent(q[i], Deduplicated(q)[j]) /\ \E a \in 1..i : Deduplicated(q)[j] = q[a]
         /\ \A j, k \in 1..Len(Deduplicated(q)) : j < k =>
              \/ Deduplicated(q)[j].hash = NoHash
              \/ Deduplicated(q)[j].hash # Deduplicated(q)[k].hash
         /\ \A i \in 1..Len(q), j \in 1..Len(Deduplicated(q)) :
              q[i].hash # NoHash /\ Deduplicated(q)[j].hash = q[i].hash =>
                \E a \in 1..i : Deduplicated(q)[j] = q[a]
<1>0. PICK f : Deduplicating(f, q)
  BY DeduplicatedLoop
<1> DEFINE n == Len(q)
           Comes(r, m) == \A j \in 1..Len(r) : \E i \in 1..m : r[j] = q[i]
           Shown(r, m) == \A i \in 1..m : \E j \in 1..Len(r) :
                            SameTorrent(q[i], r[j]) /\ \E a \in 1..i : r[j] = q[a]
           Apart(r) == \A j, k \in 1..Len(r) : j < k =>
                         r[j].hash = NoHash \/ r[j].hash # r[k].hash
           First(r, m) == \A i \in 1..m, j \in 1..Len(r) :
                            q[i].hash # NoHash /\ r[j].hash = q[i].hash =>
                              \E a \in 1..i : r[j] = q[a]
           Kept(r, m) == Comes(r, m) /\ Shown(r, m) /\ Apart(r) /\ First(r, m)
<1>1. /\ f \in [0..n -> Seq(Torrents)]
      /\ f[0] = <<>>
      /\ \A i \in 1..n : f[i] = Unseen(f[i - 1], q[i])
      /\ Deduplicated(q) = f[n]
  BY <1>0 DEF Deduplicating
<1>2. n \in Nat /\ \A i \in 1..n : q[i] \in Torrents
  BY ElementFacts
<1> DEFINE T == {m \in 0..n : Kept(f[m], m)}
<1>3. 0 \in T
  <2>1. Len(f[0]) = 0
    BY <1>1
  <2>2. Kept(f[0], 0)
    BY <2>1
  <2> HIDE DEF Kept
  <2> QED
    BY <1>2, <2>2
<1>4. ASSUME NEW m \in 1..n, m - 1 \in T PROVE m \in T
  <2> DEFINE r == f[m - 1]
             t == q[m]
             s == Append(r, t)
  <2>1. Kept(r, m - 1)
    BY <1>4
  <2>2. /\ m \in Nat /\ m - 1 \in 0..n /\ r \in Seq(Torrents) /\ t \in Torrents
        /\ Len(r) \in Nat
    BY <1>1, <1>2
  <2>3. f[m] = IF Known(t, r) THEN r ELSE s
    BY <1>1 DEF Unseen
  <2>4. /\ Len(s) = Len(r) + 1 /\ s[Len(r) + 1] = t
        /\ \A i \in 1..Len(r) : s[i] = r[i]
    BY <2>2, AppendFacts
  <2>5. Known(t, r) <=>
          \E j \in 1..Len(r) :
            \/ t.hash # NoHash /\ r[j].hash = t.hash
            \/ t.hash = NoHash /\ t.title # NoTitle /\ r[j].title = t.title
    <3>1. DOMAIN r = 1..Len(r)
      BY <2>2, ElementFacts
    <3> HIDE DEF r, t
    <3> QED
      BY <3>1 DEF Known, ToSet
  <2>6. \A i \in 1..m : i = m \/ i \in 1..(m - 1)
    BY <2>2
  <2>7. \A i \in 1..(m - 1) : i \in 1..m
    BY <2>2
  <2>8. Comes(r, m - 1) /\ Shown(r, m - 1) /\ Apart(r) /\ First(r, m - 1)
    BY <2>1
  <2> HIDE DEF r, s
  <2>9. CASE Known(t, r)
    <3>1. Comes(r, m)
      BY <2>7, <2>8
    <3>2. Shown(r, m)
      <4>1. PICK j \in 1..Len(r) : SameTorrent(q[m], r[j])
        BY <2>5, <2>9 DEF SameTorrent
      <4>2. \E a \in 1..m : r[j] = q[a]
        BY <3>1
      <4> QED
        BY <2>6, <2>8, <4>1, <4>2
    <3>3. First(r, m)
      <4>1. ASSUME NEW j \in 1..Len(r) PROVE \E a \in 1..m : r[j] = q[a]
        BY <3>1
      <4> QED
        BY <2>6, <2>8, <4>1
    <3>4. Kept(r, m)
      BY <2>8, <3>1, <3>2, <3>3
    <3> HIDE DEF Kept
    <3> QED
      BY <2>3, <2>9, <3>4
  <2>10. CASE ~Known(t, r)
    <3>1. \A j \in 1..Len(s) : j = Len(r) + 1 \/ j \in 1..Len(r)
      BY <2>2, <2>4
    <3>2. \A j \in 1..Len(r) : j \in 1..Len(s)
      BY <2>2, <2>4
    <3>3. Len(r) + 1 \in 1..Len(s) /\ m \in 1..m
      BY <2>2, <2>4
    <3>4. Comes(s, m)
      <4> SUFFICES ASSUME NEW j \in 1..Len(s) PROVE \E i \in 1..m : s[j] = q[i]
        OBVIOUS
      <4>1. CASE j = Len(r) + 1
        BY <2>4, <3>3, <4>1
      <4>2. CASE j \in 1..Len(r)
        <5>1. PICK i \in 1..(m - 1) : r[j] = q[i]
          BY <2>8, <4>2
        <5> QED
          BY <2>4, <2>7, <4>2, <5>1
      <4> QED
        BY <3>1, <4>1, <4>2
    <3>5. Shown(s, m)
      <4>1. SameTorrent(q[m], s[Len(r) + 1]) /\ s[Len(r) + 1] = q[m]
        BY <2>4 DEF SameTorrent
      <4>2. ASSUME NEW i \in 1..(m - 1)
            PROVE  \E j \in 1..Len(s) :
                     SameTorrent(q[i], s[j]) /\ \E a \in 1..i : s[j] = q[a]
        <5>1. PICK j \in 1..Len(r) :
                SameTorrent(q[i], r[j]) /\ \E a \in 1..i : r[j] = q[a]
          BY <2>8
        <5>2. j \in 1..Len(s) /\ s[j] = r[j]
          BY <2>4, <3>2
        <5> QED
          BY <5>1, <5>2
      <4> QED
        BY <2>6, <3>3, <4>1, <4>2
    <3>6. \A j \in 1..Len(r) : t.hash # NoHash => r[j].hash # t.hash
      BY <2>5, <2>10
    <3>7. Apart(s)
      <4> SUFFICES ASSUME NEW j \in 1..Len(s), NEW k \in 1..Len(s), j < k,
                          s[j].hash # NoHash
                   PROVE  s[j].hash # s[k].hash
        OBVIOUS
      <4>1. j \in 1..Len(r) /\ s[j] = r[j]
        BY <2>2, <2>4, <3>1
      <4>2. CASE k \in 1..Len(r)
        <5>1. s[k] = r[k]
          BY <2>4, <4>2
        <5>2. r[j].hash = NoHash \/ r[j].hash # r[k].hash
          BY <2>8, <4>1, <4>2
        <5> QED
          BY <4>1, <5>1, <5>2
      <4>3. CASE k = Len(r) + 1
        BY <2>4, <3>6, <4>1, <4>3
      <4> QED
        BY <3>1, <4>2, <4>3
    <3>8. First(s, m)
      <4> SUFFICES ASSUME NEW i \in 1..m, NEW j \in 1..Len(s),
                          q[i].hash # NoHash, s[j].hash = q[i].hash
                   PROVE  \E a \in 1..i : s[j] = q[a]
        OBVIOUS
      <4>1. CASE i = m
        BY <3>4, <4>1
      <4>2. CASE i \in 1..(m - 1) /\ j \in 1..Len(r)
        <5>1. s[j] = r[j]
          BY <2>4, <4>2
        <5>2. \E a \in 1..i : r[j] = q[a]
          BY <2>8, <4>2, <5>1
        <5> QED
          BY <5>1, <5>2
      <4>3. CASE i \in 1..(m - 1) /\ j = Len(r) + 1
        <5>1. PICK k \in 1..Len(r) : SameTorrent(q[i], r[k])
          BY <2>8, <4>3
        <5>2. r[k].hash = q[i].hash
          BY <5>1 DEF SameTorrent
        <5>3. t.hash = q[i].hash
          BY <2>4, <4>3
        <5> QED
          BY <3>6, <5>2, <5>3
      <4> QED
        BY <2>6, <3>1, <4>1, <4>2, <4>3
    <3>9. Kept(s, m)
      BY <3>4, <3>5, <3>7, <3>8
    <3> HIDE DEF Kept
    <3> QED
      BY <2>3, <2>10, <3>9
  <2> QED
    BY <2>9, <2>10
<1>5. \A m \in 0..n : m \in T
  <2> HIDE DEF T, n
  <2> QED
    BY <1>2, <1>3, <1>4, UpTo
<1>6. Kept(f[n], n) /\ f[n] \in Seq(Torrents)
  <2> HIDE DEF Kept
  <2> QED
    BY <1>1, <1>2, <1>5
<1> DEFINE D == f[n]
<1> HIDE DEF D
<1>7. Comes(D, n) /\ Shown(D, n) /\ Apart(D) /\ First(D, n)
  BY <1>6 DEF D
<1>8. \A j \in 1..Len(D) : \E i \in 1..n : D[j] = q[i]
  BY <1>7
<1>9. \A i \in 1..n : \E j \in 1..Len(D) :
        SameTorrent(q[i], D[j]) /\ \E a \in 1..i : D[j] = q[a]
  BY <1>7
<1> QED
  BY <1>1, <1>6, <1>7, <1>8, <1>9 DEF D

\* The order of the sources names each of them once.
LEMMA PreferredFacts ==
  /\ DOMAIN Preferred = 1..4
  /\ \A i \in 1..4 : Preferred[i] \in Sources /\ Priority(Preferred[i]) = i
  /\ \A s \in Sources : \E i \in 1..4 : Preferred[i] = s
<1>1. /\ DOMAIN Preferred = 1..4
      /\ \A i, j \in 1..4 : Preferred[i] = Preferred[j] => i = j
      /\ \A i \in 1..4 : Preferred[i] \in Sources
      /\ \A s \in Sources :
           s = Preferred[1] \/ s = Preferred[2] \/ s = Preferred[3] \/ s = Preferred[4]
  BY DEF Preferred, Sources
<1> QED
  BY <1>1 DEF Priority

\* What the merge begins with: the torrents of all sources, source by source.
LEMMA FlatFacts ==
  ASSUME found \in [Sources -> Seq(Torrents)],
         \A s \in Sources : ToSet(found[s]) \subseteq TorrentsOf(s)
  PROVE  /\ Flat \in Seq(Torrents)
         /\ \A t \in FoundByAny : \E j \in 1..Len(Flat) : Flat[j] = t
         /\ \A j \in 1..Len(Flat) : Flat[j] \in FoundByAny
         /\ \A i, j \in 1..Len(Flat) : i < j =>
              Priority(Flat[i].source) <= Priority(Flat[j].source)
<1> DEFINE lists == [i \in DOMAIN Preferred |-> found[Preferred[i]]]
<1>1. /\ DOMAIN Preferred = 1..4
      /\ \A i \in 1..4 : Preferred[i] \in Sources /\ Priority(Preferred[i]) = i
      /\ \A s \in Sources : \E i \in 1..4 : Preferred[i] = s
  BY PreferredFacts
<1>2. \A i \in 1..4 : found[Preferred[i]] \in Seq(Torrents)
  BY <1>1
<1>3. lists \in [1..4 -> Seq(Torrents)]
      /\ \A i \in 1..4 : lists[i] = found[Preferred[i]]
  BY <1>1, <1>2
<1>4. Flat = Joined(lists)
  BY DEF Flat
<1>5. \A s \in Sources : DOMAIN found[s] = 1..Len(found[s])
  BY ElementFacts
<1> HIDE DEF lists
<1> DEFINE F == Joined(lists)
<1>6. F \in Seq(Torrents) /\ IsJoined(F, 4, lists)
  <2>1. lists \in [1..4 -> Seq(Torrents)] /\ 4 \in Nat
    BY <1>3
  <2> QED
    BY <2>1, JoinedIsJoined
<1> HIDE DEF F
<1>7. ASSUME NEW a \in 1..4, NEW c \in 1..Len(lists[a])
      PROVE  /\ lists[a][c] \in FoundByAny
             /\ Priority(lists[a][c].source) = a
  <2> DEFINE s == Preferred[a]
             t == lists[a][c]
  <2>1. s \in Sources /\ c \in 1..Len(found[s]) /\ t = found[s][c] /\ Priority(s) = a
    BY <1>1, <1>3
  <2>2. t \in ToSet(found[s])
    BY <1>5, <2>1 DEF ToSet
  <2>3. t.source = s
    BY <2>1, <2>2 DEF TorrentsOf
  <2> HIDE DEF s, t
  <2>4. t \in FoundByAny
    BY <2>1, <2>2 DEF FoundByAny
  <2> QED
    BY <2>1, <2>3, <2>4 DEF t
<1>8. ASSUME NEW t \in FoundByAny PROVE \E j \in 1..Len(F) : F[j] = t
  <2>1. PICK s \in Sources : t \in ToSet(found[s])
    BY <1>8 DEF FoundByAny
  <2>2. PICK i \in 1..Len(found[s]) : t = found[s][i]
    BY <1>5, <2>1 DEF ToSet
  <2>3. PICK a \in 1..4 : Preferred[a] = s
    BY <1>1
  <2>4. i \in 1..Len(lists[a]) /\ lists[a][i] = t
    BY <1>3, <2>2, <2>3
  <2>5. \E j \in 1..Len(F) : F[j] = lists[a][i]
    BY <1>6, <2>4 DEF IsJoined
  <2> QED
    BY <2>4, <2>5
<1>9. ASSUME NEW j \in 1..Len(F) PROVE F[j] \in FoundByAny
  <2>1. PICK a \in 1..4 : \E i \in 1..Len(lists[a]) : F[j] = lists[a][i]
    BY <1>6 DEF IsJoined
  <2> QED
    BY <1>7, <2>1
<1>10. ASSUME NEW j \in 1..Len(F), NEW k \in 1..Len(F), j < k
       PROVE  Priority(F[j].source) <= Priority(F[k].source)
  <2>1. PICK a \in 1..4, b \in 1..4 :
          \E c \in 1..Len(lists[a]), d \in 1..Len(lists[b]) :
            /\ a < b \/ (a = b /\ c < d)
            /\ F[j] = lists[a][c] /\ F[k] = lists[b][d]
    BY <1>6, <1>10 DEF IsJoined
  <2>2. Priority(F[j].source) = a /\ Priority(F[k].source) = b /\ a <= b
    <3>1. PICK c \in 1..Len(lists[a]), d \in 1..Len(lists[b]) :
            /\ a < b \/ (a = b /\ c < d)
            /\ F[j] = lists[a][c] /\ F[k] = lists[b][d]
      BY <2>1
    <3>2. Priority(lists[a][c].source) = a /\ Priority(lists[b][d].source) = b
      BY <1>7
    <3> QED
      BY <3>1, <3>2
  <2> QED
    BY <2>2
<1> QED
  BY <1>4, <1>6, <1>8, <1>9, <1>10 DEF F

\* The order the merged list is shown in.
LEMMA RankFacts ==
  ASSUME NEW t \in Torrents, NEW u \in Torrents
  PROVE  /\ RankOf(t) \in 0..(4 * MaxSeeders + 3)
         /\ RankOf(t) <= RankOf(u) => NoWorse(t, u)
<1>1. /\ MaxSeeders \in Nat /\ t.seeders \in 0..MaxSeeders /\ u.seeders \in 0..MaxSeeders
      /\ t.fansub \in 0..1 /\ u.fansub \in 0..1 /\ t.date \in 0..1 /\ u.date \in 0..1
  BY TorrentFacts
<1> DEFINE x == t.seeders
           y == u.seeders
           a == IF chinese /\ t.fansub = 1 THEN 0 ELSE 2
           b == IF chinese /\ u.fansub = 1 THEN 0 ELSE 2
           c == t.date
           d == u.date
<1>2. /\ a \in {0, 2} /\ b \in {0, 2} /\ c \in 0..1 /\ d \in 0..1
      /\ chinese => (a = 0 <=> t.fansub = 1) /\ (b = 0 <=> u.fansub = 1)
  BY <1>1
<1>3. RankOf(t) = 4 * (MaxSeeders - x) + a + c /\ RankOf(u) = 4 * (MaxSeeders - y) + b + d
  BY DEF RankOf
<1>4. NoWorse(t, u) <=> x >= y /\ (x = y /\ chinese => t.fansub >= u.fansub)
  BY DEF NoWorse
<1>5. x \in 0..MaxSeeders /\ y \in 0..MaxSeeders
  BY <1>1
<1> HIDE DEF a, b, c, d, x, y
<1>6. RankOf(t) \in 0..(4 * MaxSeeders + 3)
  BY <1>1, <1>2, <1>3, <1>5
<1>7. ASSUME RankOf(t) <= RankOf(u)
      PROVE  x >= y /\ (x = y => a <= b)
  BY <1>1, <1>2, <1>3, <1>5, <1>7
<1>8. ASSUME a <= b, chinese PROVE t.fansub >= u.fansub
  BY <1>1, <1>2, <1>8
<1> QED
  BY <1>4, <1>6, <1>7, <1>8

\* The merged list is the list it is made of, in the order of the ranks.
LEMMA RankedFacts ==
  ASSUME NEW q \in Seq(Torrents)
  PROVE  /\ Ranked(q) \in Seq(Torrents)
         /\ \A i \in 1..Len(q) : \E j \in 1..Len(Ranked(q)) : Ranked(q)[j] = q[i]
         /\ \A j \in 1..Len(Ranked(q)) : \E i \in 1..Len(q) : Ranked(q)[j] = q[i]
         /\ \A j, k \in 1..Len(Ranked(q)) : j < k =>
              /\ NoWorse(Ranked(q)[j], Ranked(q)[k])
              /\ \E a, b \in 1..Len(q) :
                   a # b /\ Ranked(q)[j] = q[a] /\ Ranked(q)[k] = q[b]
<1> DEFINE n == 4 * MaxSeeders + 4
           Of(r) == {t \in ToSet(q) : RankOf(t) = r - 1}
           lists == [r \in 1..n |-> Sift(q, Of(r))]
           R == Joined(lists)
<1>0. n \in Nat /\ \A t \in Torrents : RankOf(t) + 1 \in 1..n
  BY TorrentFacts, RankFacts
<1>1. /\ DOMAIN q = 1..Len(q) /\ Len(q) \in Nat
      /\ \A i \in 1..Len(q) : q[i] \in Torrents /\ q[i] \in ToSet(q)
  BY ElementFacts DEF ToSet
<1>2. R = Ranked(q)
  BY DEF Ranked
<1> HIDE DEF n, Of
<1>3. \A r \in 1..n : Sift(q, Of(r)) \in Seq(Torrents) /\ IsSifted(Sift(q, Of(r)), q, Of(r))
  BY SiftIsSifted
<1>4. /\ lists \in [1..n -> Seq(Torrents)]
      /\ \A r \in 1..n : IsSifted(lists[r], q, Of(r))
  BY <1>3
<1> HIDE DEF lists
<1>5. R \in Seq(Torrents) /\ IsJoined(R, n, lists)
  BY <1>0, <1>4, JoinedIsJoined
<1>6. \A j \in 1..Len(R) : \E r \in 1..n : \E i \in 1..Len(lists[r]) : R[j] = lists[r][i]
  BY <1>5 DEF IsJoined
<1> HIDE DEF R
<1>7. \A r \in 1..n : \A t \in Of(r) : RankOf(t) = r - 1
  BY DEF Of
<1>8. ASSUME NEW i \in 1..Len(q) PROVE \E j \in 1..Len(R) : R[j] = q[i]
  <2> DEFINE r == RankOf(q[i]) + 1
  <2>1. r \in 1..n /\ q[i] \in Of(r)
    BY <1>0, <1>1, RankFacts, TorrentFacts DEF Of
  <2> HIDE DEF r
  <2>2. PICK j \in 1..Len(lists[r]) : lists[r][j] = q[i]
    BY <1>4, <2>1 DEF IsSifted
  <2>3. \E k \in 1..Len(R) : R[k] = lists[r][j]
    BY <1>5, <2>1, <2>2 DEF IsJoined
  <2> QED
    BY <2>2, <2>3
<1>9. ASSUME NEW j \in 1..Len(R) PROVE \E i \in 1..Len(q) : R[j] = q[i]
  <2>1. PICK r \in 1..n : \E i \in 1..Len(lists[r]) : R[j] = lists[r][i]
    BY <1>6
  <2> QED
    BY <1>4, <2>1 DEF IsSifted
<1>10. ASSUME NEW j \in 1..Len(R), NEW k \in 1..Len(R), j < k
       PROVE  /\ NoWorse(R[j], R[k])
              /\ \E a, b \in 1..Len(q) : a # b /\ R[j] = q[a] /\ R[k] = q[b]
  <2>1. PICK r \in 1..n, s \in 1..n :
          \E c \in 1..Len(lists[r]), d \in 1..Len(lists[s]) :
            /\ r < s \/ (r = s /\ c < d)
            /\ R[j] = lists[r][c] /\ R[k] = lists[s][d]
    BY <1>5, <1>10 DEF IsJoined
  <2>2. PICK c \in 1..Len(lists[r]), d \in 1..Len(lists[s]) :
          /\ r < s \/ (r = s /\ c < d)
          /\ R[j] = lists[r][c] /\ R[k] = lists[s][d]
    BY <2>1
  <2>3. PICK x \in 1..Len(q), y \in 1..Len(q) : R[j] = q[x] /\ R[k] = q[y]
    BY <1>9
  <2>4. R[j] \in Torrents /\ R[k] \in Torrents
    BY <1>1, <2>3
  <2>5. RankOf(R[j]) = r - 1 /\ RankOf(R[k]) = s - 1
    <3>1. lists[r][c] \in Of(r) /\ lists[s][d] \in Of(s)
      BY <1>4, <2>2 DEF IsSifted
    <3> QED
      BY <1>7, <2>2, <3>1
  <2>6. NoWorse(R[j], R[k])
    <3>1. RankOf(R[j]) <= RankOf(R[k])
      BY <2>2, <2>5
    <3> QED
      BY <2>4, <3>1, RankFacts
  <2>7. CASE r < s
    <3>1. x # y
      BY <2>3, <2>5, <2>7
    <3> QED
      BY <2>3, <2>6, <3>1
  <2>8. CASE r = s /\ c < d
    <3>1. PICK a \in 1..Len(q), b \in 1..Len(q) :
            a < b /\ lists[r][c] = q[a] /\ lists[r][d] = q[b]
      BY <1>4, <2>2, <2>8 DEF IsSifted
    <3>2. a # b /\ R[j] = q[a] /\ R[k] = q[b]
      BY <2>2, <2>8, <3>1
    <3> QED
      BY <2>6, <3>2
  <2> QED
    BY <2>2, <2>7, <2>8
<1>11. \A j, k \in 1..Len(R) : j < k =>
          /\ NoWorse(R[j], R[k])
          /\ \E a, b \in 1..Len(q) : a # b /\ R[j] = q[a] /\ R[k] = q[b]
  <2> SUFFICES ASSUME NEW j \in 1..Len(R), NEW k \in 1..Len(R), j < k
               PROVE  /\ NoWorse(R[j], R[k])
                      /\ \E a, b \in 1..Len(q) : a # b /\ R[j] = q[a] /\ R[k] = q[b]
    OBVIOUS
  <2> QED
    BY <1>10
<1>12. /\ \A i \in 1..Len(q) : \E j \in 1..Len(R) : R[j] = q[i]
       /\ \A j \in 1..Len(R) : \E i \in 1..Len(q) : R[j] = q[i]
  BY <1>8, <1>9
<1>13. R \in Seq(Torrents)
  BY <1>5
<1>14. /\ Ranked(q) \in Seq(Torrents)
       /\ \A i \in 1..Len(q) : \E j \in 1..Len(Ranked(q)) : Ranked(q)[j] = q[i]
       /\ \A j \in 1..Len(Ranked(q)) : \E i \in 1..Len(q) : Ranked(q)[j] = q[i]
  BY <1>2, <1>12, <1>13
<1>15. \A j, k \in 1..Len(Ranked(q)) : j < k =>
          /\ NoWorse(Ranked(q)[j], Ranked(q)[k])
          /\ \E a, b \in 1..Len(q) :
               a # b /\ Ranked(q)[j] = q[a] /\ Ranked(q)[k] = q[b]
  BY <1>2, <1>11
<1> QED
  BY <1>14, <1>15

\* The page gets the beginning of a list.
LEMMA LimitedFacts ==
  ASSUME NEW S, NEW q \in Seq(S)
  PROVE  /\ Limited(q) \in Seq(S)
         /\ \A i \in 1..Len(Limited(q)) : i \in 1..Len(q) /\ Limited(q)[i] = q[i]
         /\ \A i \in 1..Len(q) : i > Len(Limited(q)) => Len(Limited(q)) = TorrentLimit
<1> DEFINE m == IF Len(q) < TorrentLimit THEN Len(q) ELSE TorrentLimit
<1>1. Len(q) \in Nat /\ TorrentLimit \in Nat \ {0}
  BY ElementFacts, TorrentBounds
<1>2. m \in Nat /\ m <= Len(q) /\ (m = Len(q) \/ m = TorrentLimit)
  BY <1>1
<1>3. Limited(q) = SubSeq(q, 1, m)
  BY DEF Limited
<1> HIDE DEF m
<1>4. /\ SubSeq(q, 1, m) \in Seq(S) /\ Len(SubSeq(q, 1, m)) = m
      /\ \A i \in 1..m : SubSeq(q, 1, m)[i] = q[i]
  BY <1>1, <1>2
<1> QED
  BY <1>1, <1>2, <1>3, <1>4

\* What the merged list says of the torrents the sources found.
MergedWell(list) ==
  /\ ToSet(list) \subseteq FoundByAny
  /\ \A t \in FoundByAny : \E v \in FoundByAny :
       /\ StandsFor(v, t)
       /\ \/ v \in ToSet(list)
          \/ Len(list) = TorrentLimit /\ \A u \in ToSet(list) : NoWorse(u, v)
  /\ \A i, j \in DOMAIN list : i < j =>
       /\ list[i].hash = NoHash \/ list[i].hash # list[j].hash
       /\ NoWorse(list[i], list[j])
  /\ \A t \in FoundByAny, u \in ToSet(list) :
       t.hash # NoHash /\ u.hash = t.hash => Priority(u.source) <= Priority(t.source)

\* It depends on what was found and on the keyword only.
LEMMA MergedWellStays ==
  ASSUME MergedWell(ranked), UNCHANGED <<chinese, found, ranked>>
  PROVE  MergedWell(ranked)'
<1>1. FoundByAny' = FoundByAny
  BY DEF FoundByAny
<1>2. \A s : Priority(s)' = Priority(s)
  BY DEF Priority, Preferred
<1> QED
  BY <1>1, <1>2 DEF MergedWell, StandsFor, SameTorrent, NoWorse

LEMMA MergeFacts ==
  ASSUME chinese \in BOOLEAN, found \in [Sources -> Seq(Torrents)],
         \A s \in Sources : ToSet(found[s]) \subseteq TorrentsOf(s)
  PROVE  /\ Limited(Ranked(Deduplicated(Flat))) \in Seq(Torrents)
         /\ MergedWell(Limited(Ranked(Deduplicated(Flat))))
<1> DEFINE F == Flat
           D == Deduplicated(F)
           R == Ranked(D)
           L == Limited(R)
<1>1. /\ F \in Seq(Torrents)
      /\ \A t \in FoundByAny : \E j \in 1..Len(F) : F[j] = t
      /\ \A j \in 1..Len(F) : F[j] \in FoundByAny
      /\ \A i, j \in 1..Len(F) : i < j => Priority(F[i].source) <= Priority(F[j].source)
  BY FlatFacts
<1>2. \A j \in 1..Len(F) : F[j] \in Torrents /\ Priority(F[j].source) \in Int
  <2>1. \A j \in 1..Len(F) : F[j] \in Torrents
    BY <1>1, ElementFacts
  <2>2. \A s \in Sources : Priority(s) \in Int
    <3>1. \A s \in Sources : \E i \in 1..4 : Preferred[i] = s /\ Priority(Preferred[i]) = i
      BY PreferredFacts
    <3> QED
      BY <3>1
  <2> QED
    BY <2>1, <2>2, TorrentFacts
<1> HIDE DEF F
<1>3. /\ D \in Seq(Torrents)
      /\ \A j \in 1..Len(D) : \E i \in 1..Len(F) : D[j] = F[i]
      /\ \A i \in 1..Len(F) : \E j \in 1..Len(D) :
           SameTorrent(F[i], D[j]) /\ \E a \in 1..i : D[j] = F[a]
      /\ \A j, k \in 1..Len(D) : j < k => D[j].hash = NoHash \/ D[j].hash # D[k].hash
      /\ \A i \in 1..Len(F), j \in 1..Len(D) :
           F[i].hash # NoHash /\ D[j].hash = F[i].hash => \E a \in 1..i : D[j] = F[a]
  <2>1. F \in Seq(Torrents)
    BY <1>1
  <2> QED
    BY <2>1, DeduplicatedFacts
<1> HIDE DEF D
<1>4. /\ R \in Seq(Torrents)
      /\ \A i \in 1..Len(D) : \E j \in 1..Len(R) : R[j] = D[i]
      /\ \A j \in 1..Len(R) : \E i \in 1..Len(D) : R[j] = D[i]
      /\ \A j, k \in 1..Len(R) : j < k =>
           /\ NoWorse(R[j], R[k])
           /\ \E a, b \in 1..Len(D) : a # b /\ R[j] = D[a] /\ R[k] = D[b]
  <2>1. D \in Seq(Torrents)
    BY <1>3
  <2> QED
    BY <2>1, RankedFacts
<1> HIDE DEF R
<1>5. /\ L \in Seq(Torrents)
      /\ \A i \in 1..Len(L) : i \in 1..Len(R) /\ L[i] = R[i]
      /\ \A i \in 1..Len(R) : i > Len(L) => Len(L) = TorrentLimit
  <2>1. R \in Seq(Torrents)
    BY <1>4
  <2> QED
    BY <2>1, LimitedFacts
<1> HIDE DEF L
<1>6. DOMAIN L = 1..Len(L) /\ Len(L) \in Nat /\ Len(F) \in Nat /\ Len(D) \in Nat
  BY <1>1, <1>3, <1>5, ElementFacts
<1>7. ASSUME NEW u \in ToSet(L)
      PROVE  /\ \E i \in 1..Len(L) : u = L[i]
             /\ \E j \in 1..Len(D) : u = D[j]
  <2>1. PICK k \in 1..Len(L) : u = L[k]
    BY <1>6, <1>7 DEF ToSet
  <2>2. \E j \in 1..Len(D) : R[k] = D[j]
    BY <1>4, <1>5
  <2> QED
    BY <1>5, <2>1, <2>2
<1>8. \A j \in 1..Len(D) : D[j] \in FoundByAny
  BY <1>1, <1>3
<1>9. ASSUME NEW t \in FoundByAny
      PROVE  \E v \in FoundByAny :
               /\ StandsFor(v, t)
               /\ \/ v \in ToSet(L)
                  \/ Len(L) = TorrentLimit /\ \A u \in ToSet(L) : NoWorse(u, v)
  <2>1. PICK i \in 1..Len(F) : F[i] = t
    BY <1>1
  <2>2. PICK j \in 1..Len(D) : SameTorrent(F[i], D[j]) /\ \E a \in 1..i : D[j] = F[a]
    BY <1>3
  <2>3. PICK a \in 1..i : D[j] = F[a]
    BY <2>2
  <2>4. a \in 1..Len(F) /\ (a = i \/ a < i)
    BY <1>6
  <2>5. Priority(F[a].source) <= Priority(F[i].source)
    BY <1>1, <1>2, <2>4
  <2>6. StandsFor(D[j], t)
    BY <2>1, <2>2, <2>3, <2>5 DEF StandsFor
  <2>7. PICK k \in 1..Len(R) : R[k] = D[j]
    BY <1>4
  <2>8. CASE k <= Len(L)
    <3>1. k \in 1..Len(L)
      BY <1>6, <2>7, <2>8
    <3>2. D[j] \in ToSet(L)
      BY <1>5, <1>6, <2>7, <3>1 DEF ToSet
    <3> QED
      BY <1>8, <2>6, <3>2
  <2>9. CASE k > Len(L)
    <3>1. Len(L) = TorrentLimit
      BY <1>5, <2>9
    <3>2. ASSUME NEW u \in ToSet(L) PROVE NoWorse(u, D[j])
      <4>1. PICK m \in 1..Len(L) : u = L[m]
        BY <1>7
      <4>2. m \in 1..Len(R) /\ u = R[m] /\ m < k
        BY <1>5, <1>6, <2>9, <4>1
      <4> QED
        BY <1>4, <2>7, <4>2
    <3> QED
      BY <1>8, <2>6, <3>1, <3>2
  <2> QED
    BY <1>6, <2>8, <2>9
<1>10. ASSUME NEW j \in DOMAIN L, NEW k \in DOMAIN L, j < k
       PROVE  /\ L[j].hash = NoHash \/ L[j].hash # L[k].hash
              /\ NoWorse(L[j], L[k])
  <2>0. j \in 1..Len(R) /\ k \in 1..Len(R) /\ L[j] = R[j] /\ L[k] = R[k]
    BY <1>5, <1>6
  <2>1. /\ NoWorse(R[j], R[k])
        /\ \E a, b \in 1..Len(D) : a # b /\ R[j] = D[a] /\ R[k] = D[b]
    BY <1>4, <1>10, <2>0
  <2>2. PICK a \in 1..Len(D), b \in 1..Len(D) : a # b /\ R[j] = D[a] /\ R[k] = D[b]
    BY <2>1
  <2>3. CASE a < b
    <3>1. D[a].hash = NoHash \/ D[a].hash # D[b].hash
      BY <1>3, <2>3
    <3> QED
      BY <2>0, <2>1, <2>2, <3>1
  <2>4. CASE b < a
    <3>1. D[b].hash = NoHash \/ D[b].hash # D[a].hash
      BY <1>3, <2>4
    <3> QED
      BY <2>0, <2>1, <2>2, <3>1
  <2> QED
    BY <1>6, <2>2, <2>3, <2>4
<1>11. ASSUME NEW t \in FoundByAny, NEW u \in ToSet(L), t.hash # NoHash, u.hash = t.hash
       PROVE  Priority(u.source) <= Priority(t.source)
  <2>1. PICK i \in 1..Len(F) : F[i] = t
    BY <1>1
  <2>2. PICK j \in 1..Len(D) : u = D[j]
    BY <1>7
  <2>3. PICK a \in 1..i : D[j] = F[a]
    BY <1>3, <1>11, <2>1, <2>2
  <2>4. a \in 1..Len(F) /\ (a = i \/ a < i)
    BY <1>6
  <2>5. Priority(F[a].source) <= Priority(F[i].source)
    BY <1>1, <1>2, <2>4
  <2> QED
    BY <2>1, <2>2, <2>3, <2>5
<1>12. ToSet(L) \subseteq FoundByAny
  BY <1>7, <1>8
<1>13. MergedWell(L)
  BY <1>9, <1>10, <1>11, <1>12 DEF MergedWell
<1> QED
  BY <1>5, <1>13 DEF L, R, D, F

\* The merge waits for all sources, and what it made is not touched any more.
TorrentInv ==
  /\ chinese \in BOOLEAN /\ merged \in BOOLEAN
  /\ waiting \subseteq Sources /\ missed = {}
  /\ found \in [Sources -> Seq(Torrents)]
  /\ \A s \in Sources : ToSet(found[s]) \subseteq TorrentsOf(s)
  /\ ranked \in Seq(Torrents)
  /\ merged => waiting = {} /\ MergedWell(ranked)

LEMMA TorrentTypes == TorrentInv => TorrentTypeOK
<1> SUFFICES ASSUME TorrentInv PROVE TorrentTypeOK
  OBVIOUS
<1>1. ranked \in Seq(Torrents)
  BY DEF TorrentInv
<1>2. ToSet(ranked) \subseteq Torrents
  BY <1>1, ElementFacts DEF ToSet
<1> QED
  BY <1>2 DEF TorrentInv, TorrentTypeOK

LEMMA TorrentsAreKept == TorrentInv => NoTorrentIsLost
  BY DEF TorrentInv, MergedWell, NoTorrentIsLost

LEMMA TorrentInitInv == TorrentInit => TorrentInv
<1> SUFFICES ASSUME TorrentInit PROVE TorrentInv
  OBVIOUS
<1>1. <<>> \in Seq(Torrents) /\ ToSet(<<>>) = {}
  BY DEF ToSet
<1> QED
  BY <1>1 DEF TorrentInit, TorrentInv

LEMMA TorrentStep == TorrentInv /\ [TorrentNext]_torrentVars => TorrentInv'
<1> SUFFICES ASSUME TorrentInv, [TorrentNext]_torrentVars PROVE TorrentInv'
  OBVIOUS
<1>1. ASSUME NEW source \in waiting \ {"subsplease"}, NEW routes \in [Pages \cup Feeds -> RouteStates],
             NEW n \in 0..MaxFound, NEW torrents \in [1..n -> TorrentsOf(source)],
             AskSource(source, routes, torrents)
      PROVE  TorrentInv'
  <2>1. source \in Sources /\ ~merged
    BY <1>1 DEF TorrentInv
  <2>2. torrents \in Seq(Torrents) /\ ToSet(torrents) \subseteq TorrentsOf(source)
    <3>1. TorrentsOf(source) \subseteq Torrents
      BY DEF TorrentsOf
    <3>2. n \in Nat
      BY TorrentFacts
    <3>3. torrents \in Seq(TorrentsOf(source)) /\ torrents \in Seq(Torrents)
      BY <3>1, <3>2, ListFacts
    <3> QED
      BY <3>3, ElementFacts DEF ToSet
  <2>3. <<>> \in Seq(Torrents) /\ ToSet(<<>>) = {}
    BY DEF ToSet
  <2> DEFINE told == SourceAnswer(source, routes, torrents)
  <2>4. told \in {torrents, <<>>} /\ (Reaches(source, routes) => told = torrents)
    BY <2>1, SourceIsHeard
  <2>5. told \in Seq(Torrents) /\ ToSet(told) \subseteq TorrentsOf(source)
    BY <2>2, <2>3, <2>4
  <2>6. /\ found' = [found EXCEPT ![source] = told]
        /\ waiting' = waiting \ {source}
        /\ missed' = IF Reaches(source, routes) /\ found'[source] # torrents
                     THEN missed \cup {source} ELSE missed
        /\ chinese' = chinese /\ ranked' = ranked /\ merged' = merged
    BY <1>1 DEF AskSource
  <2> HIDE DEF told
  <2>7. /\ chinese \in BOOLEAN /\ waiting \subseteq Sources /\ missed = {}
        /\ found \in [Sources -> Seq(Torrents)]
        /\ \A s \in Sources : ToSet(found[s]) \subseteq TorrentsOf(s)
        /\ ranked \in Seq(Torrents) /\ merged \in BOOLEAN
    BY DEF TorrentInv
  <2>8. found'[source] = told /\ \A s \in Sources \ {source} : found'[s] = found[s]
    BY <2>1, <2>6, <2>7
  <2>9. missed' = {}
    BY <2>4, <2>6, <2>7, <2>8
  <2>10. found' \in [Sources -> Seq(Torrents)]
    BY <2>1, <2>5, <2>6, <2>7
  <2>11. ASSUME NEW s \in Sources PROVE ToSet(found'[s]) \subseteq TorrentsOf(s)
    <3>1. CASE s = source
      BY <2>5, <2>8, <3>1
    <3>2. CASE s # source
      BY <2>7, <2>8, <3>2
    <3> QED
      BY <3>1, <3>2
  <2> QED
    BY <2>1, <2>6, <2>7, <2>9, <2>10, <2>11 DEF TorrentInv
<1>2. CASE MergeAndRank
  <2> DEFINE list == Limited(Ranked(Deduplicated(Flat)))
  <2>1. list \in Seq(Torrents) /\ MergedWell(list)
    BY MergeFacts DEF TorrentInv
  <2>2. /\ ranked' = list /\ merged' = TRUE /\ waiting = {}
        /\ chinese' = chinese /\ found' = found /\ waiting' = waiting /\ missed' = missed
    BY <1>2 DEF MergeAndRank
  <2> HIDE DEF list
  <2>3. MergedWell(ranked)'
    <3>1. FoundByAny' = FoundByAny
      BY <2>2 DEF FoundByAny
    <3>2. \A s : Priority(s)' = Priority(s)
      BY <2>2 DEF Priority, Preferred
    <3> QED
      BY <2>1, <2>2, <3>1, <3>2 DEF MergedWell, StandsFor, SameTorrent, NoWorse
  <2> QED
    BY <2>1, <2>2, <2>3 DEF TorrentInv
<1>3. ASSUME NEW k \in (IF chinese THEN 2..MaxAlts ELSE {1}), NEW asked \in AskLists(k),
             AskSubsPlease(asked)
      PROVE  TorrentInv'
  <2> DEFINE sp == "subsplease"
             told == IF chinese THEN SubsPleaseAnswer(asked) ELSE AskEntries(asked[1])
  <2>1. k \in Nat /\ (~chinese => k = 1)
    BY TorrentBounds DEF TorrentInv
  <2>2. /\ told \in Seq(TorrentsOf(sp)) /\ DOMAIN asked = 1..k
        /\ \A i \in 1..k : ToSet(AskEntries(asked[i])) \subseteq ToSet(told)
    <3>1. DOMAIN asked = 1..k /\ \A i \in 1..k : AskEntries(asked[i]) \in Seq(TorrentsOf(sp))
      BY <2>1, AskFacts
    <3>2. CASE chinese
      <4>1. told = SubsPleaseAnswer(asked)
        BY <3>2
      <4> HIDE DEF told
      <4>2. /\ SubsPleaseAnswer(asked) \in Seq(TorrentsOf("subsplease"))
            /\ \A i \in 1..k :
                 ToSet(AskEntries(asked[i])) \subseteq ToSet(SubsPleaseAnswer(asked))
        BY <2>1, SubsPleaseIsHeard
      <4> QED
        BY <3>1, <4>1, <4>2
    <3>3. CASE ~chinese
      <4>1. told = AskEntries(asked[1]) /\ k = 1
        BY <2>1, <3>3
      <4> HIDE DEF told
      <4>2. 1 \in 1..k /\ \A i \in 1..k : i = 1
        BY <4>1
      <4> QED
        BY <3>1, <4>1, <4>2
    <3> QED
      BY <3>2, <3>3
  <2>3. /\ sp \in waiting
        /\ found' = [found EXCEPT ![sp] = told]
        /\ waiting' = waiting \ {sp}
        /\ missed' = IF \E i \in DOMAIN asked :
                          ~(ToSet(AskEntries(asked[i])) \subseteq ToSet(found'[sp]))
                     THEN missed \cup {sp} ELSE missed
        /\ chinese' = chinese /\ ranked' = ranked /\ merged' = merged
    BY <1>3 DEF AskSubsPlease
  <2> HIDE DEF told
  <2>4. told \in Seq(Torrents) /\ ToSet(told) \subseteq TorrentsOf(sp)
    <3> DEFINE S == TorrentsOf(sp)
    <3>1. S \subseteq Torrents
      BY DEF TorrentsOf
    <3> HIDE DEF S
    <3>2. told \in Seq(S)
      BY <2>2 DEF S
    <3>3. told \in Seq(Torrents) /\ ToSet(told) \subseteq S
      BY <3>1, <3>2, ElementFacts DEF ToSet
    <3> QED
      BY <3>3 DEF S
  <2>5. /\ chinese \in BOOLEAN /\ waiting \subseteq Sources /\ missed = {}
        /\ found \in [Sources -> Seq(Torrents)]
        /\ \A s \in Sources : ToSet(found[s]) \subseteq TorrentsOf(s)
        /\ ranked \in Seq(Torrents) /\ merged \in BOOLEAN
        /\ merged => waiting = {}
    BY DEF TorrentInv
  <2>6. found'[sp] = told /\ \A s \in Sources \ {sp} : found'[s] = found[s]
    BY <2>3, <2>5
  <2>7. missed' = {}
    BY <2>2, <2>3, <2>5, <2>6
  <2>8. found' \in [Sources -> Seq(Torrents)]
    BY <2>3, <2>4, <2>5
  <2>9. \A s \in Sources : ToSet(found'[s]) \subseteq TorrentsOf(s)
    BY <2>4, <2>5, <2>6
  <2>10. ~merged
    BY <2>3, <2>5
  <2> QED
    BY <2>3, <2>5, <2>7, <2>8, <2>9, <2>10 DEF TorrentInv
<1>4. CASE UNCHANGED torrentVars
  <2>1. UNCHANGED <<chinese, found, waiting, missed, ranked, merged>>
    BY <1>4 DEF torrentVars
  <2>2. merged => MergedWell(ranked)'
    BY <2>1, MergedWellStays DEF TorrentInv
  <2> QED
    BY <2>1, <2>2 DEF TorrentInv
<1>5. NextSource \subseteq waiting
  BY DEF NextSource
<1> QED
  BY <1>1, <1>2, <1>3, <1>4, <1>5 DEF TorrentNext

\* Whatever the sources answer on whichever routes, for every torrent they found
\* the page gets that one or the one of a preferred source that is the same, once
\* and the best first, or as many as it asked for that are no worse.
THEOREM TorrentsAreNotLost == TorrentSpec => []NoTorrentIsLost
  BY TorrentsAreKept, TorrentInitInv, TorrentStep, PTL DEF TorrentSpec

-----------------------------------------------------------------------------
(***************************************************************************)
(* TitleCards: what a search finds reaches its cards.                      *)
(***************************************************************************)

\* AniList answers nothing only if it knows the show under no name.
LEMMA AnilistFacts ==
  ASSUME NEW keyword \in Terms, NEW names \in Seq(Names), NEW known, known \subseteq Terms,
         AnilistSearch(keyword, names, known) = <<>>
  PROVE  /\ keyword \notin known
         /\ \A n \in ToSet(names) : n.name \notin known /\ n.nameCn \notin known
<1> DEFINE S == Terms \cup {NoTerm}
           pairs == [i \in DOMAIN names |-> <<names[i].name, names[i].nameCn>>]
           more == Joined(pairs)
           rest == Sift(more, Terms)
           asked == <<keyword>> \o rest
           hits == Sift(asked, known)
<1>1. Len(names) \in Nat /\ DOMAIN names = 1..Len(names)
      /\ \A i \in 1..Len(names) : names[i].name \in S /\ names[i].nameCn \in S
  <2>1. Len(names) \in Nat /\ DOMAIN names = 1..Len(names)
        /\ \A i \in 1..Len(names) : names[i] \in Names
    BY ElementFacts
  <2>2. \A n \in Names : n.name \in S /\ n.nameCn \in S
    BY DEF Names
  <2> QED
    BY <2>1, <2>2
<1>2. \A i \in 1..Len(names) : <<names[i].name, names[i].nameCn>> \in Seq(S)
  BY <1>1
<1>3. /\ pairs \in Seq(Seq(S)) /\ Len(pairs) = Len(names)
      /\ \A i \in 1..Len(names) : /\ Len(pairs[i]) = 2
                                  /\ pairs[i][1] = names[i].name
                                  /\ pairs[i][2] = names[i].nameCn
  BY <1>1, <1>2, ListFacts
<1> HIDE DEF pairs
<1>4. /\ more \in Seq(S)
      /\ \A a \in 1..Len(pairs) : \A i \in 1..Len(pairs[a]) :
           \E j \in 1..Len(more) : more[j] = pairs[a][i]
  <2> HIDE DEF S
  <2> QED
    BY <1>3, JoinedFacts
<1> HIDE DEF more
<1>5. /\ rest \in Seq(S)
      /\ \A i \in 1..Len(more) :
           more[i] \in Terms => \E j \in 1..Len(rest) : rest[j] = more[i]
  <2> HIDE DEF S
  <2> QED
    BY <1>4, SiftFacts
<1> HIDE DEF rest
<1>6. /\ asked \in Seq(S) /\ 1 \in 1..Len(asked) /\ asked[1] = keyword
      /\ \A j \in 1..Len(rest) : 1 + j \in 1..Len(asked) /\ asked[1 + j] = rest[j]
  <2> DEFINE one == <<keyword>>
  <2>1. one \in Seq(S) /\ Len(one) = 1 /\ one[1] = keyword
    OBVIOUS
  <2>2. Len(rest) \in Nat
    BY <1>5, ElementFacts
  <2>3. /\ one \o rest \in Seq(S) /\ Len(one \o rest) = 1 + Len(rest)
        /\ (one \o rest)[1] = keyword
        /\ \A j \in 1..Len(rest) : (one \o rest)[1 + j] = rest[j]
    <3> HIDE DEF one, S
    <3>1. /\ one \o rest \in Seq(S) /\ Len(one \o rest) = Len(one) + Len(rest)
          /\ \A i \in 1..Len(one) : (one \o rest)[i] = one[i]
          /\ \A j \in 1..Len(rest) : (one \o rest)[Len(one) + j] = rest[j]
      <4>1. one \in Seq(S) /\ rest \in Seq(S)
        BY <1>5, <2>1
      <4> QED
        BY <4>1, ConcatFacts
    <3> QED
      BY <2>1, <3>1
  <2> HIDE DEF S
  <2> QED
    BY <2>2, <2>3
<1> HIDE DEF asked
<1>7. /\ hits \in Seq(S)
      /\ \A i \in 1..Len(asked) : asked[i] \in known => \E j \in 1..Len(hits) : hits[j] = asked[i]
  <2> HIDE DEF S
  <2> QED
    BY <1>6, SiftFacts
<1> HIDE DEF hits
<1>8. hits = <<>>
  BY DEF AnilistSearch, TriedTerms, hits, asked, rest, more, pairs
<1>9. Len(hits) = 0
  BY <1>8
<1>10. \A i \in 1..Len(asked) : asked[i] \notin known
  BY <1>7, <1>9
<1>11. \A j \in 1..Len(rest) : rest[j] \notin known
  BY <1>6, <1>10
<1>12. \A j \in 1..Len(more) : more[j] \notin known
  BY <1>5, <1>11
<1>13. ASSUME NEW i \in 1..Len(names)
       PROVE  names[i].name \notin known /\ names[i].nameCn \notin known
  <2>1. i \in 1..Len(pairs) /\ 1 \in 1..Len(pairs[i]) /\ 2 \in 1..Len(pairs[i])
    BY <1>3
  <2>2. PICK j \in 1..Len(more) : more[j] = pairs[i][1]
    BY <1>4, <2>1
  <2>3. PICK k \in 1..Len(more) : more[k] = pairs[i][2]
    BY <1>4, <2>1
  <2> QED
    BY <1>3, <1>12, <2>2, <2>3
<1> QED
  BY <1>1, <1>6, <1>10, <1>13 DEF ToSet

LEMMA DistinctTypes ==
  ASSUME NEW r \in Seq(Hits), NEW h \in Hits
  PROVE  Distinct(r, h) \in Seq(Hits)
  BY AppendFacts DEF Distinct

\* The results of the loop behind DistinctHits.
Distinguishing(f, hits) ==
  /\ f \in [0..Len(hits) -> Seq(Hits)]
  /\ f[0] = <<>>
  /\ \A i \in 1..Len(hits) : f[i] = Distinct(f[i - 1], hits[i])
  /\ DistinctHits(hits) = f[Len(hits)]

LEMMA DistinctLoop ==
  ASSUME NEW hits \in Seq(Hits)
  PROVE  \E f : Distinguishing(f, hits)
<1> DEFINE n == Len(hits)
           X == Seq(Hits)
           Longer(r, i) == Distinct(r, hits[i])
           Body(f) == [i \in 0..n |-> IF i = 0 THEN <<>> ELSE Longer(f[i - 1], i)]
           step == [i \in 1..n |-> [r \in X |-> Longer(r, i)]]
           loop == CHOOSE h : h = Body(h)
<1>1. n \in Nat /\ <<>> \in X
  BY ElementFacts
<1>2. \A i \in 1..n, r \in X : Longer(r, i) \in X
  BY ElementFacts, DistinctTypes
<1>3. DistinctHits(hits) = loop[n]
  BY DEF DistinctHits
<1> HIDE DEF n, X, Longer
<1>4. step \in [1..n -> [X -> X]]
  BY <1>2
<1> DEFINE start == <<>>
<1>5. start \in X
  BY <1>1
<1>6. PICK f : Looping(f, X, start, n, step)
  <2> HIDE DEF step, start
  <2> QED
    BY <1>1, <1>4, <1>5, LoopExists
<1>7. f = Body(f)
  <2>1. f \in [0..n -> X] /\ f[0] = <<>> /\ \A i \in 1..n : f[i] = step[i][f[i - 1]]
    BY <1>6 DEF Looping
  <2>2. \A i \in 1..n : f[i - 1] \in X
    BY <1>1, <2>1
  <2>3. \A i \in 1..n : f[i] = Longer(f[i - 1], i)
    BY <2>1, <2>2
  <2>4. \A i \in 0..n : f[i] = IF i = 0 THEN <<>> ELSE Longer(f[i - 1], i)
    BY <1>1, <2>1, <2>3
  <2> QED
    BY <2>1, <2>4
<1>8. loop = Body(loop)
  BY <1>7
<1> HIDE DEF loop
<1>9. loop[0] = <<>>
  BY <1>1, <1>8
<1>10. ASSUME NEW i \in 1..n PROVE loop[i] = Longer(loop[i - 1], i)
  <2>1. Body(loop)[i] = Longer(loop[i - 1], i)
    BY <1>1
  <2> QED
    BY <1>8, <2>1
<1>11. loop = [i \in 0..n |-> loop[i]]
  BY <1>8
<1>12. \A i \in 1..n : loop[i - 1] \in X => loop[i] = step[i][loop[i - 1]]
  BY <1>10
<1>13. \A i \in 0..n : loop[i] \in X
  <2>1. loop[0] = start
    BY <1>9
  <2> HIDE DEF step, start
  <2> QED
    BY <1>1, <1>4, <1>5, <1>12, <2>1, LoopIsTyped
<1>14. Distinguishing(loop, hits)
  <2>1. loop \in [0..n -> X]
    BY <1>11, <1>13
  <2> QED
    BY <1>3, <1>9, <1>10, <2>1 DEF Distinguishing, n, X, Longer
<1> QED
  BY <1>14

\* A hit with a title is kept, or one of the same channel and title is.
LEMMA DistinctFacts ==
  ASSUME NEW hits \in Seq(Hits)
  PROVE  /\ DistinctHits(hits) \in Seq(Hits)
         /\ \A i \in 1..Len(hits) : hits[i].title # NoTerm =>
              \E j \in 1..Len(DistinctHits(hits)) :
                /\ DistinctHits(hits)[j].channel = hits[i].channel
                /\ DistinctHits(hits)[j].title = hits[i].title
<1>0. PICK f : Distinguishing(f, hits)
  BY DistinctLoop
<1> DEFINE n == Len(hits)
           Has(r, h) == \E j \in 1..Len(r) : r[j].channel = h.channel /\ r[j].title = h.title
           Kept(r, m) == \A i \in 1..m : hits[i].title # NoTerm => Has(r, hits[i])
           T == {m \in 0..n : Kept(f[m], m)}
<1>1. /\ f \in [0..n -> Seq(Hits)]
      /\ \A i \in 1..n : f[i] = Distinct(f[i - 1], hits[i])
      /\ DistinctHits(hits) = f[n]
  BY <1>0 DEF Distinguishing
<1>2. n \in Nat /\ \A i \in 1..n : hits[i] \in Hits
  BY ElementFacts
<1>3. 0 \in T
  BY <1>2
<1>4. ASSUME NEW m \in 1..n, m - 1 \in T PROVE m \in T
  <2> DEFINE r == f[m - 1]
             h == hits[m]
  <2>1. Kept(r, m - 1)
    BY <1>4
  <2>2. /\ m \in Nat /\ m - 1 \in 0..n /\ r \in Seq(Hits) /\ h \in Hits
        /\ f[m] = Distinct(r, h)
    <3>1. m \in Nat /\ m - 1 \in 0..n
      BY <1>2
    <3>2. r \in Seq(Hits)
      BY <1>1, <3>1
    <3> QED
      BY <1>1, <1>2, <3>1, <3>2
  <2>3. DOMAIN r = 1..Len(r) /\ Len(r) \in Nat
    <3> HIDE DEF r
    <3> QED
      BY <2>2, ElementFacts
  <2> HIDE DEF r
  <2>4. (\A g : Has(r, g) => Has(f[m], g)) /\ (h.title # NoTerm => Has(f[m], h))
    <3>1. CASE f[m] = r
      <4>1. CASE h.title = NoTerm
        BY <3>1, <4>1
      <4>2. CASE \E g \in ToSet(r) : g.channel = h.channel /\ g.title = h.title
        BY <2>3, <3>1, <4>2 DEF ToSet
      <4>3. CASE f[m] = Append(r, h)
        <5>1. Len(Append(r, h)) = Len(r) + 1
          <6> HIDE DEF h
          <6> QED
            BY <2>2, AppendFacts
        <5> QED
          BY <2>3, <3>1, <4>3, <5>1
      <4> QED
        BY <2>2, <4>1, <4>2, <4>3 DEF Distinct
    <3>2. CASE f[m] = Append(r, h)
      <4> DEFINE s == Append(r, h)
      <4>1. /\ Len(s) = Len(r) + 1 /\ s[Len(r) + 1] = h
            /\ \A i \in 1..Len(r) : s[i] = r[i]
        <5> HIDE DEF h
        <5> QED
          BY <2>2, AppendFacts
      <4> HIDE DEF s, h
      <4>2. Len(r) + 1 \in 1..Len(s) /\ \A i \in 1..Len(r) : i \in 1..Len(s)
        BY <2>3, <4>1
      <4>3. Has(s, h)
        BY <4>1, <4>2
      <4>4. ASSUME NEW g, Has(r, g) PROVE Has(s, g)
        BY <4>1, <4>2, <4>4
      <4> QED
        BY <3>2, <4>3, <4>4 DEF s
    <3> QED
      BY <2>2, <3>1, <3>2 DEF Distinct
  <2> HIDE DEF Has
  <2>5. ASSUME NEW i \in 1..m, hits[i].title # NoTerm PROVE Has(f[m], hits[i])
    <3>1. CASE i = m
      BY <2>4, <2>5, <3>1
    <3>2. CASE i # m
      <4>1. i \in 1..(m - 1)
        BY <2>2, <3>2
      <4> QED
        BY <2>1, <2>4, <2>5, <4>1
    <3> QED
      BY <3>1, <3>2
  <2> QED
    BY <2>2, <2>5
<1>5. \A m \in 0..n : m \in T
  <2> HIDE DEF T, n
  <2> QED
    BY <1>2, <1>3, <1>4, UpTo
<1>6. Kept(f[n], n) /\ f[n] \in Seq(Hits)
  <2> HIDE DEF Kept
  <2> QED
    BY <1>1, <1>2, <1>5
<1> QED
  BY <1>1, <1>6

\* Sorting leaves no hit out.
LEMMA SortedFacts ==
  ASSUME NEW hits \in Seq(Hits)
  PROVE  /\ SortedHits(hits) \in Seq(Hits)
         /\ \A i \in 1..Len(hits) : \E j \in 1..Len(SortedHits(hits)) : SortedHits(hits)[j] = hits[i]
<1> DEFINE K == {h \in ToSet(hits) : h.place = 0}
           L == {h \in ToSet(hits) : h.place = 1}
           A == Sift(hits, K)
           B == Sift(hits, L)
           P == A \o B
<1>1. \A i \in 1..Len(hits) : hits[i] \in K \/ hits[i] \in L
  <2>1. DOMAIN hits = 1..Len(hits) /\ \A i \in 1..Len(hits) : hits[i] \in Hits
    BY ElementFacts
  <2>2. \A h \in Hits : h.place = 0 \/ h.place = 1
    BY DEF Hits
  <2>3. \A i \in 1..Len(hits) : hits[i] \in ToSet(hits)
    BY <2>1 DEF ToSet
  <2> QED
    BY <2>1, <2>2, <2>3
<1> HIDE DEF K, L
<1>2. A \in Seq(Hits) /\ \A i \in 1..Len(hits) : hits[i] \in K => \E j \in 1..Len(A) : A[j] = hits[i]
  BY SiftFacts
<1>3. B \in Seq(Hits) /\ \A i \in 1..Len(hits) : hits[i] \in L => \E j \in 1..Len(B) : B[j] = hits[i]
  BY SiftFacts
<1> HIDE DEF A, B
<1>4. /\ P \in Seq(Hits) /\ Len(P) = Len(A) + Len(B)
      /\ \A i \in 1..Len(A) : P[i] = A[i]
      /\ \A i \in 1..Len(B) : P[Len(A) + i] = B[i]
      /\ Len(A) \in Nat /\ Len(B) \in Nat
  BY <1>2, <1>3, ConcatFacts, ElementFacts
<1>5. SortedHits(hits) = P
  BY DEF SortedHits, P, A, B, K, L
<1> HIDE DEF P
<1>6. /\ \A i \in 1..Len(A) : i \in 1..Len(P)
      /\ \A i \in 1..Len(B) : Len(A) + i \in 1..Len(P)
  BY <1>4
<1>7. ASSUME NEW i \in 1..Len(hits) PROVE \E j \in 1..Len(P) : P[j] = hits[i]
  <2>1. CASE hits[i] \in K
    BY <1>2, <1>4, <1>6, <2>1
  <2>2. CASE hits[i] \in L
    BY <1>3, <1>4, <1>6, <2>2
  <2> QED
    BY <1>1, <2>1, <2>2
<1> QED
  BY <1>4, <1>5, <1>7

LEMMA TakenTypes ==
  ASSUME NEW r \in Seq(Hits), NEW h \in Hits
  PROVE  Taken(r, h) \in Seq(Hits)
  BY AppendFacts DEF Taken

\* The results of the loop behind Capped.
Capping(f, hits) ==
  /\ f \in [0..Len(hits) -> Seq(Hits)]
  /\ f[0] = <<>>
  /\ \A i \in 1..Len(hits) : f[i] = Taken(f[i - 1], hits[i])
  /\ Capped(hits) = f[Len(hits)]

LEMMA CappedLoop ==
  ASSUME NEW hits \in Seq(Hits)
  PROVE  \E f : Capping(f, hits)
<1> DEFINE n == Len(hits)
           X == Seq(Hits)
           Longer(r, i) == Taken(r, hits[i])
           Body(f) == [i \in 0..n |-> IF i = 0 THEN <<>> ELSE Longer(f[i - 1], i)]
           step == [i \in 1..n |-> [r \in X |-> Longer(r, i)]]
           loop == CHOOSE h : h = Body(h)
<1>1. n \in Nat /\ <<>> \in X
  BY ElementFacts
<1>2. \A i \in 1..n, r \in X : Longer(r, i) \in X
  BY ElementFacts, TakenTypes
<1>3. Capped(hits) = loop[n]
  BY DEF Capped
<1> HIDE DEF n, X, Longer
<1>4. step \in [1..n -> [X -> X]]
  BY <1>2
<1> DEFINE start == <<>>
<1>5. start \in X
  BY <1>1
<1>6. PICK f : Looping(f, X, start, n, step)
  <2> HIDE DEF step, start
  <2> QED
    BY <1>1, <1>4, <1>5, LoopExists
<1>7. f = Body(f)
  <2>1. f \in [0..n -> X] /\ f[0] = <<>> /\ \A i \in 1..n : f[i] = step[i][f[i - 1]]
    BY <1>6 DEF Looping
  <2>2. \A i \in 1..n : f[i - 1] \in X
    BY <1>1, <2>1
  <2>3. \A i \in 1..n : f[i] = Longer(f[i - 1], i)
    BY <2>1, <2>2
  <2>4. \A i \in 0..n : f[i] = IF i = 0 THEN <<>> ELSE Longer(f[i - 1], i)
    BY <1>1, <2>1, <2>3
  <2> QED
    BY <2>1, <2>4
<1>8. loop = Body(loop)
  BY <1>7
<1> HIDE DEF loop
<1>9. loop[0] = <<>>
  BY <1>1, <1>8
<1>10. ASSUME NEW i \in 1..n PROVE loop[i] = Longer(loop[i - 1], i)
  <2>1. Body(loop)[i] = Longer(loop[i - 1], i)
    BY <1>1
  <2> QED
    BY <1>8, <2>1
<1>11. loop = [i \in 0..n |-> loop[i]]
  BY <1>8
<1>12. \A i \in 1..n : loop[i - 1] \in X => loop[i] = step[i][loop[i - 1]]
  BY <1>10
<1>13. \A i \in 0..n : loop[i] \in X
  <2>1. loop[0] = start
    BY <1>9
  <2> HIDE DEF step, start
  <2> QED
    BY <1>1, <1>4, <1>5, <1>12, <2>1, LoopIsTyped
<1>14. Capping(loop, hits)
  <2>1. loop \in [0..n -> X]
    BY <1>11, <1>13
  <2> QED
    BY <1>3, <1>9, <1>10, <2>1 DEF Capping, n, X, Longer
<1> QED
  BY <1>14

\* The number of cards of a channel, before and after one is appended.
LEMMA OfChannelFacts ==
  ASSUME NEW r \in Seq(Hits), NEW h \in Hits, NEW c
  PROVE  /\ Len(OfChannel(r, c)) \in Nat
         /\ Len(OfChannel(Append(r, h), c)) =
              Len(OfChannel(r, c)) + (IF h.channel = c THEN 1 ELSE 0)
         /\ Len(OfChannel(<<>>, c)) = 0
<1> DEFINE K == {g \in Hits : g.channel = c}
<1>1. h \in K <=> h.channel = c
  OBVIOUS
<1> HIDE DEF K
<1>2. Sift(r, K) \in Seq(Hits)
  BY SiftFacts
<1>3. Sift(Append(r, h), K) = IF h \in K THEN Append(Sift(r, K), h) ELSE Sift(r, K)
  BY SiftAppend
<1>4. Sift(<<>>, K) = <<>>
  BY SiftEmpty
<1> DEFINE q == Sift(r, K)
<1> HIDE DEF q
<1>5. Len(q) \in Nat /\ Len(Append(q, h)) = Len(q) + 1
  BY <1>2, AppendFacts, ElementFacts DEF q
<1>6. Len(<<>>) = 0
  OBVIOUS
<1>7. CASE h \in K
  BY <1>1, <1>3, <1>4, <1>5, <1>6, <1>7 DEF OfChannel, K, q
<1>8. CASE h \notin K
  BY <1>1, <1>3, <1>4, <1>5, <1>6, <1>8 DEF OfChannel, K, q
<1> QED
  BY <1>7, <1>8

\* A hit is left out only when its channel or the page is full.
LEMMA CappedFacts ==
  ASSUME NEW hits \in Seq(Hits)
  PROVE  /\ Capped(hits) \in Seq(Hits)
         /\ \A i \in 1..Len(hits) :
              \/ \E j \in 1..Len(Capped(hits)) : Capped(hits)[j] = hits[i]
              \/ Len(OfChannel(Capped(hits), hits[i].channel)) = PerChannel
              \/ Len(Capped(hits)) = CardLimit
<1>0. PICK f : Capping(f, hits)
  BY CappedLoop
<1> DEFINE n == Len(hits)
           Full(r, c) == Len(OfChannel(r, c)) = PerChannel
           Has(r, h) == \E j \in 1..Len(r) : r[j] = h
           Room(r) == /\ Len(r) <= CardLimit
                      /\ \A c : Len(OfChannel(r, c)) <= PerChannel
           Kept(r, m) == \A i \in 1..m :
                           Has(r, hits[i]) \/ Full(r, hits[i].channel) \/ Len(r) = CardLimit
           T == {m \in 0..n : Room(f[m]) /\ Kept(f[m], m)}
<1>1. /\ f \in [0..n -> Seq(Hits)] /\ f[0] = <<>>
      /\ \A i \in 1..n : f[i] = Taken(f[i - 1], hits[i])
      /\ Capped(hits) = f[n]
  BY <1>0 DEF Capping
<1>2. n \in Nat /\ \A i \in 1..n : hits[i] \in Hits
  BY ElementFacts
<1>3. 0 \in T
  <2>1. ASSUME NEW c PROVE Len(OfChannel(<<>>, c)) <= PerChannel
    <3>1. Sift(<<>>, {g \in Hits : g.channel = c}) = <<>>
      BY SiftEmpty
    <3>2. Len(<<>>) = 0
      OBVIOUS
    <3> QED
      BY <3>1, <3>2 DEF OfChannel, PerChannel
  <2>2. Len(<<>>) <= CardLimit
    BY CardBounds
  <2>3. Room(f[0]) /\ Kept(f[0], 0)
    BY <1>1, <2>1, <2>2
  <2> HIDE DEF Room, Kept
  <2> QED
    BY <1>2, <2>3
<1>4. ASSUME NEW m \in 1..n, m - 1 \in T PROVE m \in T
  <2> DEFINE r == f[m - 1]
             h == hits[m]
             s == Append(r, h)
  <2>1. Room(r) /\ Kept(r, m - 1)
    BY <1>4
  <2>2. /\ m \in Nat /\ m - 1 \in 0..n /\ r \in Seq(Hits) /\ h \in Hits
        /\ f[m] = Taken(r, h)
    BY <1>1, <1>2
  <2> HIDE DEF r, h
  <2>3. /\ Len(r) \in Nat
        /\ Len(s) = Len(r) + 1 /\ s[Len(r) + 1] = h
        /\ \A i \in 1..Len(r) : s[i] = r[i]
    BY <2>2, AppendFacts, ElementFacts
  <2>4. \A c : /\ Len(OfChannel(r, c)) \in Nat
               /\ Len(OfChannel(s, c)) = Len(OfChannel(r, c)) + (IF h.channel = c THEN 1 ELSE 0)
    BY <2>2, OfChannelFacts
  <2> HIDE DEF s
  <2>5. CASE Len(OfChannel(r, h.channel)) >= PerChannel \/ Len(r) >= CardLimit
    <3>1. f[m] = r
      BY <2>2, <2>5 DEF Taken
    <3>2. Full(r, h.channel) \/ Len(r) = CardLimit
      <4> DEFINE k == Len(OfChannel(r, h.channel))
      <4>1. /\ k \in Nat /\ k <= PerChannel /\ Len(r) <= CardLimit
            /\ k >= PerChannel \/ Len(r) >= CardLimit
        BY <2>1, <2>4, <2>5
      <4> HIDE DEF k
      <4>2. k = PerChannel \/ Len(r) = CardLimit
        BY <2>3, <4>1, CardBounds DEF PerChannel
      <4> QED
        BY <4>2 DEF k
    <3> HIDE DEF Full, Has
    <3>3. Kept(r, m)
      <4>1. \A i \in 1..m : i = m \/ i \in 1..(m - 1)
        BY <2>2
      <4> QED
        BY <2>1, <3>2, <4>1 DEF h
    <3> HIDE DEF Room, Kept
    <3> QED
      BY <2>1, <2>2, <3>1, <3>3
  <2>6. CASE ~(Len(OfChannel(r, h.channel)) >= PerChannel \/ Len(r) >= CardLimit)
    <3>1. f[m] = s
      BY <2>2, <2>6 DEF Taken, s
    <3>2. Room(s)
      <4>1. Len(s) <= CardLimit
        BY <2>3, <2>6, CardBounds
      <4>2. ASSUME NEW c PROVE Len(OfChannel(s, c)) <= PerChannel
        BY <2>1, <2>4, <2>6 DEF PerChannel
      <4> QED
        BY <4>1, <4>2
    <3>3. Has(s, h)
      BY <2>3
    <3>4. \A g : Has(r, g) => Has(s, g)
      BY <2>3
    <3>5. Len(r) # CardLimit
      BY <2>3, <2>6, CardBounds
    <3>6. ASSUME NEW c, Full(r, c) PROVE Full(s, c)
      BY <2>1, <2>4, <2>6, <3>2, <3>6 DEF PerChannel
    <3> HIDE DEF Full, Has
    <3>7. Kept(s, m)
      <4>1. \A i \in 1..m : i = m \/ i \in 1..(m - 1)
        BY <2>2
      <4> QED
        BY <2>1, <3>3, <3>4, <3>5, <3>6, <4>1 DEF h
    <3> HIDE DEF Room, Kept
    <3> QED
      BY <2>2, <3>1, <3>2, <3>7
  <2> QED
    BY <2>5, <2>6
<1>5. \A m \in 0..n : m \in T
  <2> HIDE DEF T, n
  <2> QED
    BY <1>2, <1>3, <1>4, UpTo
<1>6. Kept(f[n], n) /\ f[n] \in Seq(Hits)
  <2> HIDE DEF Kept, Room
  <2> QED
    BY <1>1, <1>2, <1>5
<1> QED
  BY <1>1, <1>6

\* A usable hit is shown, or one of its channel and title is, unless its channel
\* or the page is full; so that no usable hit means no card, and the reverse.
LEMMA ChannelCardsFacts ==
  ASSUME NEW hits \in Seq(Hits)
  PROVE  /\ ChannelCards(hits) \in Seq(Hits)
         /\ \A h \in ToSet(hits) : h.title # NoTerm =>
              \/ \E g \in ToSet(ChannelCards(hits)) : g.channel = h.channel /\ g.title = h.title
              \/ Len(OfChannel(ChannelCards(hits), h.channel)) = PerChannel
              \/ Len(ChannelCards(hits)) = CardLimit
         /\ ChannelCards(hits) = <<>> => \A h \in ToSet(hits) : h.title = NoTerm
<1> DEFINE D == DistinctHits(hits)
           O == SortedHits(D)
           C == Capped(O)
<1>1. /\ D \in Seq(Hits)
      /\ \A i \in 1..Len(hits) : hits[i].title # NoTerm =>
           \E j \in 1..Len(D) : D[j].channel = hits[i].channel /\ D[j].title = hits[i].title
  BY DistinctFacts
<1>2. C = ChannelCards(hits)
  BY DEF ChannelCards
<1> HIDE DEF D
<1>3. O \in Seq(Hits) /\ \A i \in 1..Len(D) : \E j \in 1..Len(O) : O[j] = D[i]
  BY <1>1, SortedFacts
<1> HIDE DEF O
<1>4. /\ C \in Seq(Hits)
      /\ \A i \in 1..Len(O) :
           \/ \E j \in 1..Len(C) : C[j] = O[i]
           \/ Len(OfChannel(C, O[i].channel)) = PerChannel
           \/ Len(C) = CardLimit
  BY <1>3, CappedFacts
<1> HIDE DEF C
<1>5. /\ DOMAIN hits = 1..Len(hits) /\ \A i \in 1..Len(hits) : hits[i] \in Hits
      /\ DOMAIN C = 1..Len(C) /\ (C = <<>> => Len(C) = 0)
  BY <1>4, ElementFacts
<1>6. ASSUME NEW h \in ToSet(hits), h.title # NoTerm
      PROVE  \/ \E g \in ToSet(C) : g.channel = h.channel /\ g.title = h.title
             \/ Len(OfChannel(C, h.channel)) = PerChannel
             \/ Len(C) = CardLimit
  <2>1. PICK i \in 1..Len(hits) : hits[i] = h
    BY <1>5, <1>6 DEF ToSet
  <2>2. PICK j \in 1..Len(D) : D[j].channel = h.channel /\ D[j].title = h.title
    BY <1>1, <1>6, <2>1
  <2>3. PICK k \in 1..Len(O) : O[k] = D[j]
    BY <1>3, <2>2
  <2>4. O[k].channel = h.channel /\ O[k].title = h.title
    BY <2>2, <2>3
  <2>5. CASE \E l \in 1..Len(C) : C[l] = O[k]
    <3>1. PICK l \in 1..Len(C) : C[l] = O[k]
      BY <2>5
    <3>2. C[l] \in ToSet(C)
      BY <1>5, <3>1 DEF ToSet
    <3> QED
      BY <2>4, <3>1, <3>2
  <2>6. CASE Len(OfChannel(C, O[k].channel)) = PerChannel \/ Len(C) = CardLimit
    BY <2>4, <2>6
  <2> QED
    BY <1>4, <2>5, <2>6
<1>7. ASSUME C = <<>>, NEW h \in ToSet(hits) PROVE h.title = NoTerm
  <2>1. Len(C) = 0 /\ ToSet(C) = {}
    BY <1>5, <1>7 DEF ToSet
  <2>2. h \in Hits
    BY <1>5, <1>7 DEF ToSet
  <2>3. Len(OfChannel(<<>>, h.channel)) = 0
    <3>1. <<>> \in Seq(Hits)
      OBVIOUS
    <3> QED
      BY <2>2, <3>1, OfChannelFacts
  <2> QED
    BY <1>6, <1>7, <2>1, <2>3, CardBounds DEF PerChannel
<1> QED
  BY <1>2, <1>4, <1>6, <1>7

\* The worlds are made of sequences.
LEMMA WorldFacts ==
  ASSUME world \in Worlds
  PROVE  /\ world.keyword \in Terms /\ world.names \in Seq(Names)
         /\ world.known \subseteq Terms /\ world.hits \in Seq(Hits)
<1>1. /\ world.keyword \in Terms /\ world.known \subseteq Terms
      /\ world.names \in SeqsUpTo(Names, 1) /\ world.hits \in SeqsUpTo(Hits, MaxHits)
  BY DEF Worlds
<1>2. ASSUME NEW S, NEW n \in Nat, NEW q \in SeqsUpTo(S, n) PROVE q \in Seq(S)
  <2>1. q \in UNION {[1..i -> S] : i \in 0..n}
    BY <1>2 DEF SeqsUpTo
  <2>2. PICK i \in 0..n : q \in [1..i -> S]
    BY <2>1
  <2> QED
    BY <1>2, <2>2, ListFacts
<1> QED
  BY <1>1, <1>2, CardBounds

CardInv == world \in Worlds /\ NoCardIsLost

LEMMA CardStep == CardInv /\ [TitleNext]_titleVars => CardInv'
<1> SUFFICES ASSUME CardInv, [TitleNext]_titleVars PROVE CardInv'
  OBVIOUS
<1>1. CASE MakeCards
  <2> DEFINE anilist == AnilistSearch(world.keyword, world.names, world.known)
             channels == ChannelCards(world.hits)
  <2>1. world' = world /\ world \in Worlds
    BY <1>1 DEF MakeCards, CardInv
  <2>2. /\ world.keyword \in Terms /\ world.names \in Seq(Names)
        /\ world.known \subseteq Terms /\ world.hits \in Seq(Hits)
    BY <2>1, WorldFacts
  <2>3. \/ cards' = [from |-> "bangumi", list |-> world.bangumi]
        \/ cards' = [from |-> "anilist", list |-> anilist]
        \/ /\ cards' = [from |-> "channels", list |-> channels]
        \/ /\ world.bangumi = <<>> /\ anilist = <<>> /\ channels = <<>>
           /\ cards' = [from |-> "error", list |-> <<>>]
    BY <1>1 DEF MakeCards
  <2>4. anilist = <<>> =>
          /\ world.keyword \notin world.known
          /\ \A n \in ToSet(world.names) : n.name \notin world.known /\ n.nameCn \notin world.known
    BY <2>2, AnilistFacts
  <2>5. /\ \A h \in ToSet(world.hits) : h.title # NoTerm =>
             \/ \E g \in ToSet(channels) : g.channel = h.channel /\ g.title = h.title
             \/ Len(OfChannel(channels, h.channel)) = PerChannel
             \/ Len(channels) = CardLimit
        /\ channels = <<>> => \A h \in ToSet(world.hits) : h.title = NoTerm
    BY <2>2, ChannelCardsFacts
  <2> HIDE DEF anilist, channels
  <2>6. UsableHits' = UsableHits
    BY <2>1 DEF UsableHits
  <2>7. CASE cards' = [from |-> "channels", list |-> channels]
    <3>1. cards'.from = "channels" /\ cards'.list = channels
      BY <2>7
    <3>2. \A h \in UsableHits' :
            \/ \E g \in ToSet(cards'.list) : g.channel = h.channel /\ g.title = h.title
            \/ Len(OfChannel(cards'.list, h.channel)) = PerChannel
            \/ Len(cards'.list) = CardLimit
      BY <2>5, <2>6, <3>1 DEF UsableHits
    <3> QED
      BY <2>1, <3>1, <3>2 DEF CardInv, NoCardIsLost
  <2>8. CASE /\ world.bangumi = <<>> /\ anilist = <<>> /\ channels = <<>>
             /\ cards' = [from |-> "error", list |-> <<>>]
    <3>1. cards'.from = "error"
      BY <2>8
    <3>2. UsableHits = {}
      BY <2>5, <2>8 DEF UsableHits
    <3> QED
      BY <2>1, <2>4, <2>6, <2>8, <3>1, <3>2 DEF CardInv, NoCardIsLost
  <2>9. CASE cards' = [from |-> "bangumi", list |-> world.bangumi]
             \/ cards' = [from |-> "anilist", list |-> anilist]
    <3>1. cards'.from # "error" /\ cards'.from # "channels"
      BY <2>9
    <3> QED
      BY <2>1, <3>1 DEF CardInv, NoCardIsLost
  <2> QED
    BY <2>3, <2>7, <2>8, <2>9
<1>2. CASE UNCHANGED cardVars
  BY <1>2 DEF cardVars, CardInv, NoCardIsLost, UsableHits
<1>3. CoverNext \/ UNCHANGED titleVars => UNCHANGED cardVars
  BY DEF CoverNext, BeginResolve, CoverFound, CoverMissed, ResolveEnds, CoverTick, titleVars,
         cardVars
<1> QED
  BY <1>1, <1>2, <1>3 DEF TitleNext

LEMMA CardInitInv == TitleInit => CardInv
  BY DEF TitleInit, CardInv, NoCardIsLost

\* Of everything Bangumi, AniList and the channels have for a search, a card is
\* shown, for any number of names, hits, channels and any limit.
THEOREM SearchesShowWhatThereIs == TitleSpec => []NoCardIsLost
<1>1. CardInv => NoCardIsLost
  BY DEF CardInv
<1> QED
  BY <1>1, CardInitInv, CardStep, PTL DEF TitleSpec

-----------------------------------------------------------------------------
(***************************************************************************)
(* MirrorRace: a race that is over stays as it ended, so every way it can  *)
(* end is judged at the step that ends it.                                 *)
(***************************************************************************)

\* While the race runs, those it waits for no more have failed.
PassedOver ==
  race = "running" =>
    /\ \A m \in Mirrors \ waitedFor : mirror[m] = "failed"
    /\ \A m \in Mirrors : mirror[m] # "cancelled"

RaceInv == RaceTypeOK /\ playList \in PlayLists /\ PassedOver /\ AMirrorIsEnough

\* A list of play sources is a sequence of sequences of links.
LEMMA PlayListFacts ==
  ASSUME NEW list \in PlayLists
  PROVE  list \in Seq(Seq(Links))
<1>1. PICK n \in 0..MaxSources :
        list \in [1..n -> UNION {[1..k -> Links] : k \in 0..MaxEpisodes}]
  BY DEF PlayLists
<1>2. \A i \in 1..n : list[i] \in Seq(Links)
  <2> TAKE i \in 1..n
  <2>1. list[i] \in UNION {[1..k -> Links] : k \in 0..MaxEpisodes}
    BY <1>1
  <2>2. PICK k \in 0..MaxEpisodes : list[i] \in [1..k -> Links]
    BY <2>1
  <2>3. k \in Nat
    BY RaceBounds
  <2> QED
    BY <2>2, <2>3, ListFacts
<1>3. n \in Nat /\ list \in [1..n -> Seq(Links)]
  BY <1>1, <1>2, RaceBounds
<1> QED
  BY <1>3, ListFacts

\* _parse_play_sources: of a show with a media file no source is without.
LEMMA PlaySourcesFacts ==
  ASSUME NEW list \in PlayLists, Playable(list)
  PROVE  /\ PlaySources(list) # <<>>
         /\ \A i \in DOMAIN PlaySources(list) : "media" \in ToSet(PlaySources(list)[i])
<1> DEFINE urls == Links \ {"nothing"}
           trimmed == [i \in DOMAIN list |-> Sift(list[i], urls)]
           some == Seq(Links) \ {<<>>}
           sources == Sift(trimmed, some)
           media == {s \in ToSet(sources) : "media" \in ToSet(s)}
           direct == Sift(sources, media)
<1>1. list \in Seq(Seq(Links)) /\ DOMAIN list = 1..Len(list) /\ Len(list) \in Nat
      /\ \A i \in 1..Len(list) : list[i] \in Seq(Links)
  BY PlayListFacts, ElementFacts
<1>2. PICK p \in 1..Len(list) : "media" \in ToSet(list[p])
  BY <1>1 DEF Playable
<1>3. \A i \in 1..Len(list) : Sift(list[i], urls) \in Seq(Links)
  BY <1>1, SiftFacts
<1>4. trimmed \in Seq(Seq(Links)) /\ Len(trimmed) = Len(list)
      /\ \A i \in 1..Len(list) : trimmed[i] = Sift(list[i], urls)
  BY <1>1, <1>3, ListFacts
<1>5. trimmed[p] \in some /\ "media" \in ToSet(trimmed[p])
  <2> DEFINE q == list[p]
             t == Sift(q, urls)
  <2>1. PICK e \in 1..Len(q) : q[e] = "media"
    BY <1>1, <1>2, ElementFacts DEF ToSet
  <2>2. q[e] \in urls /\ q \in Seq(Links)
    BY <1>1, <2>1 DEF Links
  <2>3. t \in Seq(Links) /\ \E j \in 1..Len(t) : t[j] = q[e]
    <3> HIDE DEF q, urls
    <3> QED
      BY <2>2, SiftFacts
  <2>4. trimmed[p] = t
    BY <1>4
  <2> HIDE DEF t, q
  <2>5. DOMAIN t = 1..Len(t) /\ (t = <<>> <=> Len(t) = 0)
    BY <2>3, ElementFacts
  <2>6. t # <<>> /\ "media" \in ToSet(t)
    BY <2>1, <2>3, <2>5 DEF ToSet
  <2> HIDE DEF trimmed
  <2> QED
    BY <2>3, <2>4, <2>6
<1> HIDE DEF trimmed, some
<1>6. sources \in Seq(Seq(Links))
      /\ \E j \in 1..Len(sources) : sources[j] = trimmed[p]
  <2> DEFINE S == Seq(Links)
  <2>1. trimmed \in Seq(S) /\ p \in 1..Len(trimmed) /\ trimmed[p] \in some
    BY <1>4, <1>5
  <2> HIDE DEF S
  <2>2. sources \in Seq(S) /\ \E j \in 1..Len(sources) : sources[j] = trimmed[p]
    BY <2>1, SiftFacts
  <2> QED
    BY <2>2 DEF S
<1> HIDE DEF sources
<1>7. PICK j \in 1..Len(sources) : sources[j] = trimmed[p]
  BY <1>6
<1>8. sources[j] \in media
  BY <1>5, <1>6, <1>7, ElementFacts DEF ToSet
<1> HIDE DEF media
<1>9. /\ direct \in Seq(Seq(Links))
      /\ \E k \in 1..Len(direct) : direct[k] = sources[j]
      /\ \A k \in 1..Len(direct) : direct[k] \in media
  BY <1>6, <1>8, SiftFacts
<1>10. direct # <<>> /\ DOMAIN direct = 1..Len(direct)
  <2> HIDE DEF direct
  <2> QED
    BY <1>9, ElementFacts
<1>11. PlaySources(list) = direct
  BY <1>10 DEF PlaySources, DirectFirst, sources, trimmed, some, media
<1> QED
  BY <1>9, <1>10, <1>11 DEF media

\* The end of a race leaves the mirrors that answered and failed as they are.
LEMMA OverFacts ==
  ASSUME RaceTypeOK, NEW how, Over(how)
  PROVE  /\ race' = how
         /\ mirror' \in [Mirrors -> Answers200 \cup {"pending", "failed", "cancelled"}]
         /\ \A m \in Mirrors : mirror[m] = "pending" => mirror'[m] = "cancelled"
         /\ \A m \in Mirrors : mirror[m] # "pending" => mirror'[m] = mirror[m]
  BY DEF Over, RaceTypeOK

\* What was taken for an answer decides how the call ends.
LEMMA TakeAnswerStep ==
  ASSUME RaceInv, NEW m \in Mirrors, TakeAnswer(m)
  PROVE  RaceInv'
<1>1. /\ race = "running" /\ m \in waitedFor /\ mirror[m] \in Answers200
      /\ Over(Outcome(m))
      /\ groups' = IF mirror[m] = "show" /\ wanted = "show" THEN PlaySources(playList) ELSE groups
      /\ UNCHANGED <<wanted, waitedFor, raceLeft, playList>>
  BY DEF TakeAnswer, Successes, DoneNow
<1>2. RaceTypeOK /\ playList \in PlayLists
  BY DEF RaceInv
<1>3. /\ Outcome(m) \in {"answer", "no hits", "empty list", "invalid json", "crash"}
      /\ Outcome(m) = "answer" <=> mirror[m] = "show"
  BY <1>1 DEF Outcome, Answers200
<1>4. race' = Outcome(m) /\ mirror'[m] = mirror[m]
      /\ \A n \in Mirrors : mirror'[n] # "pending"
  BY <1>1, <1>2, OverFacts DEF Answers200
<1>5. RaceTypeOK'
  BY <1>1, <1>2, <1>3, <1>4, OverFacts DEF RaceTypeOK
<1>6. race' = "answer" /\ wanted' = "show" /\ Playable(playList') =>
        groups' # <<>> /\ \A i \in DOMAIN groups' : "media" \in ToSet(groups'[i])
  BY <1>1, <1>2, <1>3, <1>4, PlaySourcesFacts
<1>7. race' # "answer" => mirror'[m] \in {"empty", "odd", "garbage"}
  BY <1>1, <1>3, <1>4 DEF Answers200
<1>8. AMirrorIsEnough'
  BY <1>3, <1>4, <1>6, <1>7 DEF AMirrorIsEnough, Playable
<1> QED
  BY <1>1, <1>2, <1>3, <1>4, <1>5, <1>8 DEF RaceInv, PassedOver

\* Nobody is given up who may still answer.
LEMMA GiveUpStep ==
  ASSUME RaceInv, GiveUp
  PROVE  RaceInv'
<1>1. /\ race = "running" /\ Over("error")
      /\ waitedFor = {} \/ (raceLeft = 0 /\ Successes = {})
      /\ UNCHANGED <<wanted, waitedFor, raceLeft, playList, groups>>
  BY DEF GiveUp
<1>2. RaceTypeOK /\ playList \in PlayLists /\ PassedOver
  BY DEF RaceInv
<1>3. ASSUME NEW m \in Mirrors
      PROVE  mirror'[m] = "failed" \/ (mirror'[m] = "cancelled" /\ raceLeft = 0)
  <2>1. CASE m \notin waitedFor
    <3>1. mirror[m] = "failed"
      BY <1>1, <1>2, <2>1 DEF PassedOver
    <3> QED
      BY <1>1, <1>2, <3>1, OverFacts
  <2>2. CASE m \in waitedFor
    <3>1. raceLeft = 0 /\ (mirror[m] = "pending" \/ mirror[m] \notin Answers200)
      BY <1>1, <2>2 DEF Successes, DoneNow
    <3>2. mirror[m] \in Answers200 \cup {"pending", "failed"}
      BY <1>1, <1>2 DEF RaceTypeOK, PassedOver
    <3> QED
      BY <1>1, <1>2, <3>1, <3>2, OverFacts
  <2> QED
    BY <2>1, <2>2
<1>4. race' = "error"
  BY <1>1, <1>2, OverFacts
<1>5. RaceTypeOK'
  BY <1>1, <1>2, <1>4, OverFacts DEF RaceTypeOK
<1>6. AMirrorIsEnough'
  BY <1>1, <1>3, <1>4 DEF AMirrorIsEnough
<1> QED
  BY <1>1, <1>2, <1>4, <1>5, <1>6 DEF RaceInv, PassedOver

LEMMA RaceStep == RaceInv /\ [RaceNext]_raceVars => RaceInv'
<1> SUFFICES ASSUME RaceInv, [RaceNext]_raceVars PROVE RaceInv'
  OBVIOUS
<1>0. RaceTypeOK /\ playList \in PlayLists /\ PassedOver /\ AMirrorIsEnough
  BY DEF RaceInv
<1>1. ASSUME NEW m \in Mirrors, NEW how \in Answers200 \cup {"failed"}, MirrorEnds(m, how)
      PROVE  RaceInv'
  <2>1. /\ race = "running" /\ mirror[m] = "pending" /\ mirror' = [mirror EXCEPT ![m] = how]
        /\ UNCHANGED <<wanted, waitedFor, raceLeft, race, playList, groups>>
    BY <1>1 DEF MirrorEnds
  <2>2. how # "cancelled" /\ m \in waitedFor
    BY <1>0, <2>1 DEF PassedOver, Answers200
  <2>3. RaceTypeOK'
    BY <1>0, <2>1 DEF RaceTypeOK
  <2>4. PassedOver'
    BY <1>0, <2>1, <2>2 DEF PassedOver, RaceTypeOK
  <2> QED
    BY <1>0, <2>1, <2>3, <2>4 DEF RaceInv, AMirrorIsEnough
<1>2. CASE PassOverFailures
  <2>1. /\ race = "running" /\ Successes = {} /\ waitedFor' = waitedFor \ DoneNow
        /\ UNCHANGED <<wanted, mirror, raceLeft, race, playList, groups>>
    BY <1>2 DEF PassOverFailures
  <2>2. \A m \in DoneNow : m \in waitedFor /\ mirror[m] # "pending" /\ mirror[m] \notin Answers200
    BY <2>1 DEF Successes, DoneNow
  <2>3. PassedOver'
    BY <1>0, <2>1, <2>2 DEF PassedOver, RaceTypeOK
  <2> QED
    BY <1>0, <2>1, <2>3 DEF RaceInv, RaceTypeOK, AMirrorIsEnough
<1>3. CASE RaceCancelled
  BY <1>0, <1>3 DEF RaceCancelled, RaceInv, RaceTypeOK, PassedOver, AMirrorIsEnough
<1>4. CASE RaceTick
  BY <1>0, <1>4, RaceBounds DEF RaceTick, RaceInv, RaceTypeOK, PassedOver, AMirrorIsEnough
<1>5. CASE UNCHANGED raceVars
  BY <1>0, <1>5 DEF raceVars, RaceInv, RaceTypeOK, PassedOver, AMirrorIsEnough, Playable
<1> QED
  BY <1>1, <1>2, <1>3, <1>4, <1>5, TakeAnswerStep, GiveUpStep DEF RaceNext

LEMMA RaceInitInv == RaceInit => RaceInv
  BY RaceBounds DEF RaceInit, RaceInv, RaceTypeOK, PassedOver, AMirrorIsEnough, Playable

\* Whatever the mirrors of a site answer, and in whatever order, the call ends
\* with an error only when all have failed or the time is up, and with no show
\* only if a mirror answered 200 with something else.
THEOREM OneMirrorIsEnough == RaceSpec => []AMirrorIsEnough
<1>1. RaceInv => AMirrorIsEnough
  BY DEF RaceInv
<1> QED
  BY <1>1, RaceInitInv, RaceStep, PTL DEF RaceSpec

-----------------------------------------------------------------------------
(***************************************************************************)
(* AnikotoStreams: while the loop runs, the streams found so far are those *)
(* of the servers tried that play, each once.                              *)
(***************************************************************************)

AnikotoShapes ==
  /\ ref \in {"whole", "malformed", "cut short"} /\ listed \in {"unasked", "listed", "failed", "odd"}
  /\ servers \in Seq(ServersOf) /\ tried \subseteq ServersOf
  /\ kiwi \in {"plays", "nothing", "odd", "unknown"}
  /\ streams \in Seq(StreamUrls)
  /\ result \in {"running", "streams", "error", "crash"}

FoundOnce ==
  result = "running" => \A i, j \in 1..Len(streams) : i < j => streams[i] # streams[j]

FoundSoFar ==
  result = "running" => \A s \in tried : Plays(s) => s.url \in ToSet(streams)

AnikotoInv == AnikotoShapes /\ FoundOnce /\ FoundSoFar /\ OneServerIsEnough

LEMMA AnikotoTypes == AnikotoShapes => AnikotoTypeOK
<1> SUFFICES ASSUME AnikotoShapes PROVE AnikotoTypeOK
  OBVIOUS
<1>1. ToSet(streams) \subseteq StreamUrls
  <2>1. streams \in Seq(StreamUrls)
    BY DEF AnikotoShapes
  <2> QED
    BY <2>1, ElementFacts DEF ToSet
<1> QED
  BY <1>1 DEF AnikotoShapes, AnikotoTypeOK

\* streams.sort loses nothing, repeats nothing and puts the raw players first.
LEMMA SortFacts ==
  ASSUME NEW urls \in Seq(StreamUrls),
         \A i, j \in 1..Len(urls) : i < j => urls[i] # urls[j]
  PROVE  /\ PreferredFirst(urls) \in Seq(StreamUrls)
         /\ \A u \in ToSet(urls) : u \in ToSet(PreferredFirst(urls))
         /\ \A i, j \in DOMAIN PreferredFirst(urls) : i < j =>
              /\ PreferredFirst(urls)[i] # PreferredFirst(urls)[j]
              /\ PreferredFirst(urls)[j] \in RawUrls => PreferredFirst(urls)[i] \in RawUrls
<1> DEFINE plain == StreamUrls \ RawUrls
           A == Sift(urls, RawUrls)
           B == Sift(urls, plain)
           P == A \o B
<1>1. /\ A \in Seq(StreamUrls)
      /\ \A j \in 1..Len(A) : A[j] \in RawUrls
      /\ \A i \in 1..Len(urls) : urls[i] \in RawUrls => \E j \in 1..Len(A) : A[j] = urls[i]
      /\ \A j, k \in 1..Len(A) : j < k =>
           \E a, b \in 1..Len(urls) : a < b /\ A[j] = urls[a] /\ A[k] = urls[b]
  BY SiftFacts
<1>2. /\ B \in Seq(StreamUrls)
      /\ \A j \in 1..Len(B) : B[j] \in plain
      /\ \A i \in 1..Len(urls) : urls[i] \in plain => \E j \in 1..Len(B) : B[j] = urls[i]
      /\ \A j, k \in 1..Len(B) : j < k =>
           \E a, b \in 1..Len(urls) : a < b /\ B[j] = urls[a] /\ B[k] = urls[b]
  <2> HIDE DEF plain
  <2> QED
    BY SiftFacts
<1>3. PreferredFirst(urls) = P
  BY DEF PreferredFirst
<1> HIDE DEF A, B
<1>4. /\ P \in Seq(StreamUrls) /\ Len(P) = Len(A) + Len(B)
      /\ \A i \in 1..Len(A) : P[i] = A[i]
      /\ \A i \in 1..Len(B) : P[Len(A) + i] = B[i]
      /\ Len(A) \in Nat /\ Len(B) \in Nat
  BY <1>1, <1>2, ConcatFacts, ElementFacts
<1> HIDE DEF P
<1>5. DOMAIN P = 1..Len(P) /\ DOMAIN urls = 1..Len(urls)
      /\ \A i \in 1..Len(urls) : urls[i] \in StreamUrls
  BY <1>4, ElementFacts
<1>6. \A j \in 1..Len(P) : j \in 1..Len(A) \/ \E i \in 1..Len(B) : j = Len(A) + i
  <2> SUFFICES ASSUME NEW j \in 1..Len(P), j \notin 1..Len(A)
               PROVE  j - Len(A) \in 1..Len(B) /\ j = Len(A) + (j - Len(A))
    OBVIOUS
  <2> QED
    BY <1>4
<1>7. ASSUME NEW u \in ToSet(urls) PROVE u \in ToSet(P)
  <2>1. PICK i \in 1..Len(urls) : urls[i] = u
    BY <1>5, <1>7 DEF ToSet
  <2>2. CASE u \in RawUrls
    <3>1. PICK j \in 1..Len(A) : A[j] = u
      BY <1>1, <2>1, <2>2
    <3>2. j \in 1..Len(P) /\ P[j] = u
      BY <1>4, <3>1
    <3> QED
      BY <1>5, <3>2 DEF ToSet
  <2>3. CASE u \notin RawUrls
    <3>1. u \in plain
      BY <1>5, <2>1, <2>3
    <3>2. PICK j \in 1..Len(B) : B[j] = u
      BY <1>2, <2>1, <3>1
    <3>3. Len(A) + j \in 1..Len(P) /\ P[Len(A) + j] = u
      BY <1>4, <3>2
    <3> QED
      BY <1>5, <3>3 DEF ToSet
  <2> QED
    BY <2>2, <2>3
<1>8. ASSUME NEW i \in 1..Len(P), NEW j \in 1..Len(P), i < j
      PROVE  P[i] # P[j] /\ (P[j] \in RawUrls => P[i] \in RawUrls)
  <2>1. CASE j \in 1..Len(A)
    <3>1. i \in 1..Len(A) /\ P[i] = A[i] /\ P[j] = A[j]
      BY <1>4, <1>8, <2>1
    <3>2. PICK a \in 1..Len(urls), b \in 1..Len(urls) :
            a < b /\ A[i] = urls[a] /\ A[j] = urls[b]
      BY <1>1, <1>8, <2>1, <3>1
    <3>3. urls[a] # urls[b]
      BY <3>2
    <3> QED
      BY <1>1, <3>1, <3>2, <3>3
  <2>2. CASE i \in 1..Len(A) /\ j \notin 1..Len(A)
    <3>1. PICK k \in 1..Len(B) : j = Len(A) + k
      BY <1>6, <2>2
    <3>2. P[j] = B[k] /\ P[i] = A[i]
      BY <1>4, <2>2, <3>1
    <3> QED
      BY <1>1, <1>2, <2>2, <3>2
  <2>3. CASE i \notin 1..Len(A)
    <3>1. PICK k \in 1..Len(B) : i = Len(A) + k
      BY <1>6, <2>3
    <3>2. j \notin 1..Len(A)
      BY <1>4, <1>8, <3>1
    <3>3. PICK l \in 1..Len(B) : j = Len(A) + l
      BY <1>6, <3>2
    <3>4. k < l /\ P[i] = B[k] /\ P[j] = B[l]
      BY <1>4, <1>8, <3>1, <3>3
    <3> QED
      BY <1>2, <3>4
  <2> QED
    BY <2>1, <2>2, <2>3
<1> QED
  BY <1>3, <1>4, <1>5, <1>7, <1>8

\* A server is played if and only if Resolve finds its stream; only a player
\* behind a frame makes it fail, and only JSON of another shape makes it crash.
LEMMA ResolveFacts ==
  ASSUME NEW server \in ServersOf
  PROVE  /\ Plays(server) <=> Resolve(server) = "stream"
         /\ Resolve(server) = "error" => server.embed = "framed" /\ server.player = "error"
         /\ Resolve(server) = "crash" <=> Odd(server)
         /\ server.url \in StreamUrls
  BY DEF ServersOf, Plays, Resolve, Odd

LEMMA TryStep == AnikotoInv /\ TryServer => AnikotoInv'
<1> SUFFICES ASSUME AnikotoInv, TryServer PROVE AnikotoInv'
  OBVIOUS
<1> DEFINE server == Head(servers)
           new == Resolve(server) = "stream" /\ server.url \notin ToSet(streams)
<1>0. AnikotoShapes /\ FoundOnce /\ FoundSoFar /\ OneServerIsEnough
  BY DEF AnikotoInv
<1>1. /\ result = "running" /\ listed = "listed" /\ servers # <<>>
      /\ servers' = Tail(servers) /\ tried' = tried \cup {server}
      /\ streams' = (IF new THEN Append(streams, server.url) ELSE streams)
      /\ result' = (IF Resolve(server) \in {"error", "crash"} THEN Resolve(server) ELSE result)
      /\ UNCHANGED <<ref, listed, kiwi>>
  BY DEF TryServer
<1>2. server \in ServersOf /\ servers' \in Seq(ServersOf)
  BY <1>0, <1>1, TailFacts DEF AnikotoShapes
<1> DEFINE q == streams
           url == server.url
<1>3. /\ q \in Seq(StreamUrls) /\ url \in StreamUrls /\ Len(q) \in Nat
      /\ DOMAIN q = 1..Len(q)
  BY <1>0, <1>2, ResolveFacts, ElementFacts DEF AnikotoShapes
<1>4. /\ streams' \in Seq(StreamUrls)
      /\ \A u \in ToSet(streams) : u \in ToSet(streams')
      /\ Resolve(server) = "stream" => server.url \in ToSet(streams')
      /\ \A i, j \in 1..Len(streams') : i < j => streams'[i] # streams'[j]
  <2>1. CASE ~new
    BY <1>0, <1>1, <1>3, <2>1 DEF FoundOnce
  <2>2. CASE new
    <3> DEFINE r == Append(q, url)
    <3>1. streams' = r
      BY <1>1, <2>2
    <3>2. /\ r \in Seq(StreamUrls) /\ Len(r) = Len(q) + 1 /\ r[Len(q) + 1] = url
          /\ \A i \in 1..Len(q) : r[i] = q[i]
      <4> HIDE DEF q, url
      <4> QED
        BY <1>3, AppendFacts
    <3> HIDE DEF r
    <3>3. DOMAIN r = 1..Len(r)
      BY <3>2, ElementFacts
    <3>4. \A i \in 1..Len(q) : q[i] # url
      BY <1>3, <2>2 DEF ToSet
    <3>5. \A i, j \in 1..Len(q) : i < j => q[i] # q[j]
      BY <1>0, <1>1 DEF FoundOnce
    <3> HIDE DEF q, url
    <3>6. \A i \in 1..Len(r) : i = Len(q) + 1 \/ i \in 1..Len(q)
      BY <1>3, <3>2
    <3>7. \A i, j \in 1..Len(r) : i < j => r[i] # r[j]
      <4> TAKE i, j \in 1..Len(r)
      <4> HAVE i < j
      <4>1. i \in 1..Len(q)
        BY <1>3, <3>2
      <4> QED
        BY <3>2, <3>4, <3>5, <3>6, <4>1
    <3>8. url \in ToSet(r)
      BY <1>3, <3>2, <3>3 DEF ToSet
    <3>9. \A u \in ToSet(q) : u \in ToSet(r)
      BY <1>3, <3>2, <3>3 DEF ToSet
    <3> QED
      BY <3>1, <3>2, <3>7, <3>8, <3>9 DEF q, url
  <2> QED
    BY <2>1, <2>2
<1>5. AnikotoShapes' /\ FoundOnce'
  BY <1>0, <1>1, <1>2, <1>4 DEF AnikotoShapes, FoundOnce
<1>6. FoundSoFar'
  BY <1>0, <1>1, <1>2, <1>4, ResolveFacts DEF FoundSoFar, Plays
<1>7. OneServerIsEnough'
  BY <1>1, <1>2, ResolveFacts DEF OneServerIsEnough
<1> QED
  BY <1>5, <1>6, <1>7 DEF AnikotoInv

LEMMA AnswerStreamsStep == AnikotoInv /\ AnswerStreams => AnikotoInv'
<1> SUFFICES ASSUME AnikotoInv, AnswerStreams PROVE AnikotoInv'
  OBVIOUS
<1>0. AnikotoShapes /\ FoundOnce /\ FoundSoFar /\ OneServerIsEnough
  BY DEF AnikotoInv
<1>1. /\ result = "running" /\ listed = "listed" /\ servers = <<>>
      /\ UNCHANGED <<ref, listed, servers, tried, kiwi>>
  BY DEF AnswerStreams
<1>2. /\ streams \in Seq(StreamUrls)
      /\ \A s \in tried : Plays(s) => s.url \in ToSet(streams)
      /\ \A i, j \in 1..Len(streams) : i < j => streams[i] # streams[j]
  BY <1>0, <1>1 DEF AnikotoShapes, FoundSoFar, FoundOnce
<1>3. ASSUME streams = <<>> PROVE \A s \in tried : ~Plays(s)
  BY <1>2, <1>3 DEF ToSet
<1>4. CASE streams = <<>> /\ result' = "streams"
  <2>1. PICK u \in StreamUrls : streams' = <<u>>
    BY <1>4 DEF AnswerStreams
  <2>2. /\ streams' \in Seq(StreamUrls)
        /\ \A i, j \in DOMAIN streams' : ~(i < j)
    BY <2>1
  <2> QED
    BY <1>0, <1>1, <1>3, <1>4, <2>2
    DEF AnikotoInv, AnikotoShapes, FoundOnce, FoundSoFar, OneServerIsEnough, Plays
<1>5. CASE streams = <<>> /\ result' # "streams"
  <2>1. /\ kiwi # "plays" /\ streams' = streams
        /\ result' = (IF kiwi = "odd" THEN "crash" ELSE "error")
    BY <1>5 DEF AnswerStreams
  <2>2. kiwi \in {"nothing", "odd", "unknown"}
    BY <1>0, <2>1 DEF AnikotoShapes
  <2> QED
    BY <1>0, <1>1, <1>3, <1>5, <2>1, <2>2
    DEF AnikotoInv, AnikotoShapes, FoundOnce, FoundSoFar, OneServerIsEnough, Plays
<1>6. CASE streams # <<>>
  <2>1. result' = "streams" /\ streams' = PreferredFirst(streams)
    BY <1>6 DEF AnswerStreams
  <2>2. /\ streams' \in Seq(StreamUrls)
        /\ \A u \in ToSet(streams) : u \in ToSet(streams')
        /\ \A i, j \in DOMAIN streams' : i < j =>
             streams'[i] # streams'[j] /\ (streams'[j] \in RawUrls => streams'[i] \in RawUrls)
    BY <1>2, <2>1, SortFacts
  <2> QED
    BY <1>0, <1>1, <1>2, <2>1, <2>2
    DEF AnikotoInv, AnikotoShapes, FoundOnce, FoundSoFar, OneServerIsEnough, Plays
<1> QED
  BY <1>4, <1>5, <1>6

LEMMA AnikotoStep == AnikotoInv /\ [AnikotoNext]_anikotoVars => AnikotoInv'
<1> SUFFICES ASSUME AnikotoInv, [AnikotoNext]_anikotoVars PROVE AnikotoInv'
  OBVIOUS
<1>0. AnikotoShapes /\ FoundOnce /\ FoundSoFar /\ OneServerIsEnough
  BY DEF AnikotoInv
<1>1. CASE ReadRef
  BY <1>0, <1>1
  DEF ReadRef, AnikotoInv, AnikotoShapes, FoundOnce, FoundSoFar, OneServerIsEnough
<1>2. CASE ListServers
  <2>1. /\ UNCHANGED <<ref, servers, tried, kiwi, streams>>
        /\ result = "running"
        /\ \/ listed' = "listed" /\ result' = result
           \/ listed' = "failed" /\ result' = "error"
           \/ listed' = "odd" /\ result' = "crash"
    BY <1>2 DEF ListServers
  <2>2. AnikotoShapes'
    BY <1>0, <2>1 DEF AnikotoShapes
  <2>3. FoundOnce' /\ FoundSoFar'
    BY <1>0, <2>1 DEF FoundOnce, FoundSoFar
  <2>4. OneServerIsEnough'
    BY <2>1 DEF OneServerIsEnough
  <2> QED
    BY <2>2, <2>3, <2>4 DEF AnikotoInv
<1>3. CASE UNCHANGED anikotoVars
  BY <1>0, <1>3
  DEF anikotoVars, AnikotoInv, AnikotoShapes, FoundOnce, FoundSoFar, OneServerIsEnough
<1> QED
  BY <1>1, <1>2, <1>3, TryStep, AnswerStreamsStep DEF AnikotoNext

LEMMA AnikotoInitInv == AnikotoInit => AnikotoInv
<1> SUFFICES ASSUME AnikotoInit PROVE AnikotoInv
  OBVIOUS
<1>1. servers \in Seq(ServersOf)
  <2>1. servers \in UNION {[1..n -> ServersOf] : n \in 0..MaxServers}
    BY DEF AnikotoInit
  <2>2. PICK n \in 0..MaxServers : servers \in [1..n -> ServersOf]
    BY <2>1
  <2>3. n \in Nat
    BY AnikotoBounds
  <2> QED
    BY <2>2, <2>3, ListFacts
<1>2. streams \in Seq(StreamUrls) /\ Len(streams) = 0
  <2>1. streams = <<>>
    BY DEF AnikotoInit
  <2> QED
    BY <2>1
<1>3. AnikotoShapes
  BY <1>1, <1>2 DEF AnikotoInit, AnikotoShapes
<1>4. FoundOnce /\ FoundSoFar
  <2>1. tried = {}
    BY DEF AnikotoInit
  <2>2. \A i \in 1..Len(streams) : FALSE
    BY <1>2
  <2> QED
    BY <2>1, <2>2 DEF FoundOnce, FoundSoFar
<1>5. OneServerIsEnough
  BY DEF AnikotoInit, OneServerIsEnough
<1> QED
  BY <1>3, <1>4, <1>5 DEF AnikotoInv

\* A server that plays is offered whatever the servers before and after it do.
THEOREM ServersThatPlayAreOffered == AnikotoSpec => []OneServerIsEnough
<1>1. AnikotoInv => OneServerIsEnough
  BY DEF AnikotoInv
<1> QED
  BY <1>1, AnikotoInitInv, AnikotoStep, PTL DEF AnikotoSpec

-----------------------------------------------------------------------------
(***************************************************************************)
(* The connection to qBittorrent: who holds the lock, and which logins     *)
(* count.                                                                  *)
(***************************************************************************)

InTheLock(t) == pc[t] \in {"checking", "connecting"}

\* _connect_lock is held by the thread that checks or connects, and by no other.
Exclusive == \A t \in Threads : InTheLock(t) <=> holder = t

\* A session qBittorrent knows is one the service uses.
AliveIsUsed == alive => connected /\ hasClient /\ reachable

\* Nobody connects while the session is good.
NobodyConnectsTwice == \A t \in Threads : pc[t] = "connecting" => ~alive

\* Every login but the one in use has been lost.
LoginsAreLost == logins <= losses + (IF alive THEN 1 ELSE 0)

QbInv == QbTypeOK /\ Exclusive /\ AliveIsUsed /\ NobodyConnectsTwice /\ LoginsAreLost

-----------------------------------------------------------------------------
(***************************************************************************)
(* Lemmas.                                                                 *)
(***************************************************************************)

\* A thread goes on without the others.
LEMMA GoFacts ==
  ASSUME QbTypeOK, NEW t \in Threads,
         NEW place \in {"idle", "waiting", "checking", "connecting", "using"}, Go(t, place)
  PROVE  /\ pc' \in [Threads -> {"idle", "waiting", "checking", "connecting", "using"}]
         /\ pc'[t] = place
         /\ \A u \in Threads : u # t => pc'[u] = pc[u]
  BY DEF QbTypeOK, Go

\* Only one thread is in the lock.
LEMMA Alone ==
  ASSUME Exclusive, NEW t \in Threads, InTheLock(t)
  PROVE  holder = t /\ \A u \in Threads : u # t => ~InTheLock(u)
  BY DEF Exclusive

-----------------------------------------------------------------------------
(***************************************************************************)
(* One step.                                                               *)
(***************************************************************************)

\* Entering and operating leave the lock and the session alone.
LEMMA OutsideStep ==
  ASSUME QbInv, NEW t \in Threads, Enter(t) \/ Operate(t)
  PROVE  QbInv'
<1> USE DEF At, InTheLock, worldVars
<1>1. PICK place \in {"idle", "waiting"} : Go(t, place) /\ ~InTheLock(t)
  BY DEF Enter, Operate
<1>2. /\ pc' \in [Threads -> {"idle", "waiting", "checking", "connecting", "using"}]
      /\ pc'[t] = place /\ \A u \in Threads : u # t => pc'[u] = pc[u]
  BY <1>1, GoFacts DEF QbInv
<1>3. UNCHANGED <<reachable, losses, alive, connected, hasClient, holder, logins>>
  BY DEF Enter, Operate
<1>4. QbTypeOK'
  BY <1>2, <1>3 DEF QbInv, QbTypeOK
<1>5. Exclusive' /\ NobodyConnectsTwice'
  BY <1>1, <1>2, <1>3 DEF QbInv, Exclusive, NobodyConnectsTwice
<1>6. AliveIsUsed' /\ LoginsAreLost'
  BY <1>3 DEF QbInv, AliveIsUsed, LoginsAreLost
<1> QED
  BY <1>4, <1>5, <1>6 DEF QbInv

\* The lock is taken when it is free, and the ping tells whether to go on.
LEMMA LockStep ==
  ASSUME QbInv, NEW t \in Threads, Lock(t) \/ PingAnswers(t) \/ PingFails(t)
  PROVE  QbInv'
<1> USE DEF At, InTheLock, worldVars
<1>0. UNCHANGED <<reachable, losses, alive, connected, hasClient, logins>>
  BY DEF Lock, PingAnswers, PingFails
<1>1. AliveIsUsed' /\ LoginsAreLost'
  BY <1>0 DEF QbInv, AliveIsUsed, LoginsAreLost
<1>2. CASE Lock(t)
  <2>1. /\ pc' \in [Threads -> {"idle", "waiting", "checking", "connecting", "using"}]
        /\ pc'[t] = "checking" /\ \A u \in Threads : u # t => pc'[u] = pc[u]
    BY <1>2, GoFacts DEF Lock, QbInv
  <2>2. holder' = t /\ \A u \in Threads : ~InTheLock(u)
    BY <1>2, QbBounds DEF Lock, QbInv, Exclusive
  <2>3. QbTypeOK'
    BY <1>0, <2>1, <2>2 DEF QbInv, QbTypeOK
  <2>4. Exclusive' /\ NobodyConnectsTwice'
    BY <1>0, <2>1, <2>2 DEF QbInv, Exclusive, NobodyConnectsTwice
  <2> QED
    BY <1>1, <2>3, <2>4 DEF QbInv
<1>3. CASE PingAnswers(t)
  <2>1. /\ pc' \in [Threads -> {"idle", "waiting", "checking", "connecting", "using"}]
        /\ pc'[t] = "using" /\ \A u \in Threads : u # t => pc'[u] = pc[u]
    BY <1>3, GoFacts DEF PingAnswers, QbInv
  <2>2. holder' = Nobody /\ \A u \in Threads : u # t => ~InTheLock(u)
    BY <1>3, Alone DEF PingAnswers, QbInv
  <2>3. QbTypeOK'
    BY <1>0, <2>1, <2>2 DEF QbInv, QbTypeOK
  <2>4. Exclusive' /\ NobodyConnectsTwice'
    BY <1>0, <2>1, <2>2, QbBounds DEF QbInv, Exclusive, NobodyConnectsTwice
  <2> QED
    BY <1>1, <2>3, <2>4 DEF QbInv
<1>4. CASE PingFails(t)
  <2>1. /\ pc' \in [Threads -> {"idle", "waiting", "checking", "connecting", "using"}]
        /\ pc'[t] = "connecting" /\ \A u \in Threads : u # t => pc'[u] = pc[u]
    BY <1>4, GoFacts DEF PingFails, QbInv
  <2>2. holder' = holder /\ InTheLock(t) /\ ~alive
    BY <1>4 DEF PingFails, QbInv, AliveIsUsed
  <2>3. QbTypeOK'
    BY <1>0, <2>1, <2>2 DEF QbInv, QbTypeOK
  <2>4. Exclusive' /\ NobodyConnectsTwice'
    BY <1>0, <2>1, <2>2 DEF QbInv, Exclusive, NobodyConnectsTwice
  <2> QED
    BY <1>1, <2>3, <2>4 DEF QbInv
<1> QED
  BY <1>2, <1>3, <1>4

\* _do_connect: whatever comes of it, the lock is released.
LEMMA ConnectStep ==
  ASSUME QbInv, NEW t \in Threads, PortRefused(t) \/ LogIn(t) \/ LoginRefused(t)
  PROVE  QbInv'
<1> USE DEF At, InTheLock, worldVars
<1>1. PICK place \in {"idle", "using"} : Go(t, place)
  BY DEF PortRefused, LogIn, LoginRefused
<1>2. /\ pc' \in [Threads -> {"idle", "waiting", "checking", "connecting", "using"}]
      /\ pc'[t] = place /\ \A u \in Threads : u # t => pc'[u] = pc[u]
  BY <1>1, GoFacts DEF QbInv
<1>3. pc[t] = "connecting" /\ holder' = Nobody /\ UNCHANGED <<reachable, losses>>
  BY DEF PortRefused, LogIn, LoginRefused
<1>4. \A u \in Threads : u # t => ~InTheLock(u)
  BY <1>3, Alone DEF QbInv
<1>5. ~alive
  BY <1>3 DEF QbInv, NobodyConnectsTwice
<1>6. Exclusive' /\ NobodyConnectsTwice'
  BY <1>2, <1>3, <1>4, QbBounds DEF Exclusive, NobodyConnectsTwice
<1>7. QbTypeOK'
  <2>1. logins' \in Nat
    BY DEF PortRefused, LogIn, LoginRefused, QbInv, QbTypeOK
  <2>2. alive' \in BOOLEAN /\ connected' \in BOOLEAN /\ hasClient' \in BOOLEAN
    BY DEF PortRefused, LogIn, LoginRefused, QbInv, QbTypeOK
  <2>3. reachable' \in BOOLEAN /\ losses' \in 0..MaxLosses
    BY <1>3 DEF QbInv, QbTypeOK
  <2> QED
    BY <1>2, <1>3, <2>1, <2>2, <2>3 DEF QbTypeOK
<1>8. AliveIsUsed' /\ LoginsAreLost'
  <2>1. CASE LogIn(t)
    BY <2>1, <1>5 DEF LogIn, QbInv, QbTypeOK, AliveIsUsed, LoginsAreLost
  <2>2. CASE PortRefused(t) \/ LoginRefused(t)
    BY <2>2, <1>5 DEF PortRefused, LoginRefused, QbInv, AliveIsUsed, LoginsAreLost
  <2> QED
    BY <2>1, <2>2
<1> QED
  BY <1>6, <1>7, <1>8 DEF QbInv

\* Whatever qBittorrent does, a session that ends is a loss.
LEMMA WorldStep ==
  ASSUME QbInv, GoDown \/ ComeUp \/ LoseSession
  PROVE  QbInv'
<1> USE DEF InTheLock
<1>1. UNCHANGED <<connected, hasClient, holder, pc, logins>>
  BY DEF GoDown, ComeUp, LoseSession
<1>2. QbTypeOK'
  <2>1. losses' \in 0..MaxLosses
    BY QbBounds DEF GoDown, ComeUp, LoseSession, QbInv, QbTypeOK
  <2>2. reachable' \in BOOLEAN /\ alive' \in BOOLEAN
    BY DEF GoDown, ComeUp, LoseSession, QbInv, QbTypeOK
  <2>3. /\ connected' \in BOOLEAN /\ hasClient' \in BOOLEAN /\ logins' \in Nat
        /\ holder' \in Threads \cup {Nobody}
        /\ pc' \in [Threads -> {"idle", "waiting", "checking", "connecting", "using"}]
    BY <1>1 DEF QbInv, QbTypeOK
  <2> QED
    BY <2>1, <2>2, <2>3 DEF QbTypeOK
<1>3. alive' => alive
  BY DEF GoDown, ComeUp, LoseSession
<1>4. Exclusive' /\ NobodyConnectsTwice'
  BY <1>1, <1>3 DEF QbInv, Exclusive, NobodyConnectsTwice
<1>5. AliveIsUsed' /\ LoginsAreLost'
  BY <1>1 DEF GoDown, ComeUp, LoseSession, QbInv, QbTypeOK, AliveIsUsed, LoginsAreLost
<1> QED
  BY <1>2, <1>4, <1>5 DEF QbInv

-----------------------------------------------------------------------------
(***************************************************************************)
(* Theorems.                                                               *)
(***************************************************************************)

LEMMA QbInitInv == QbInit => QbInv
<1> SUFFICES ASSUME QbInit PROVE QbInv
  OBVIOUS
<1>1. /\ \E t \in Threads \cup {Nobody} :
            /\ holder = t
            /\ pc = [u \in Threads |-> IF u = t THEN "connecting" ELSE "idle"]
            /\ t # Nobody => ~alive
      /\ losses = 0 /\ reachable \in BOOLEAN
      /\ \/ reachable /\ alive = TRUE /\ connected = TRUE /\ hasClient = TRUE /\ logins = 1
         \/ alive = FALSE /\ connected = FALSE /\ hasClient = FALSE /\ logins = 0
  <2>1. [u \in Threads |-> "idle"] = [u \in Threads |-> IF u = Nobody THEN "connecting" ELSE "idle"]
    BY QbBounds
  <2> QED
    BY <2>1, QbBounds DEF QbInit
<1>2. PICK t \in Threads \cup {Nobody} :
        /\ holder = t
        /\ pc = [u \in Threads |-> IF u = t THEN "connecting" ELSE "idle"]
        /\ t # Nobody => ~alive
  BY <1>1
<1>3. QbTypeOK
  <2>1. losses \in 0..MaxLosses /\ logins \in Nat
    BY <1>1, QbBounds
  <2>2. alive \in BOOLEAN /\ connected \in BOOLEAN /\ hasClient \in BOOLEAN
    BY <1>1
  <2> QED
    BY <1>1, <1>2, <2>1, <2>2 DEF QbTypeOK
<1>4. Exclusive /\ NobodyConnectsTwice
  BY <1>2, QbBounds DEF Exclusive, NobodyConnectsTwice, InTheLock
<1>5. AliveIsUsed /\ LoginsAreLost
  BY <1>1 DEF AliveIsUsed, LoginsAreLost
<1> QED
  BY <1>3, <1>4, <1>5 DEF QbInv

LEMMA QbNextInv == QbInv /\ [QbNext]_qbVars => QbInv'
<1> SUFFICES ASSUME QbInv, [QbNext]_qbVars PROVE QbInv'
  OBVIOUS
<1>1. CASE QbNext
  BY <1>1, OutsideStep, LockStep, ConnectStep, WorldStep DEF QbNext, Work
<1>2. CASE UNCHANGED qbVars
  BY <1>2 DEF qbVars, QbInv, QbTypeOK, Exclusive, AliveIsUsed, NobodyConnectsTwice,
              LoginsAreLost, InTheLock
<1> QED
  BY <1>1, <1>2

\* The inductive invariant holds in every reachable state.
THEOREM QbInvariance == QbSpec => []QbInv
<1> QED
  BY QbInitInv, QbNextInv, PTL DEF QbSpec

\* However many threads find the session dead, they log in once per loss.
THEOREM LoginsAreCounted == QbSpec => []OneLoginPerLoss
<1>1. QbInv => OneLoginPerLoss
  BY DEF QbInv, QbTypeOK, LoginsAreLost, OneLoginPerLoss
<1> QED
  BY <1>1, QbInvariance, PTL

\* At most one thread checks or connects at any time.
THEOREM TheLockExcludes ==
  QbSpec => [](\A t, u \in Threads : InTheLock(t) /\ InTheLock(u) => t = u)
<1>1. QbInv => \A t, u \in Threads : InTheLock(t) /\ InTheLock(u) => t = u
  BY DEF QbInv, Exclusive
<1> QED
  BY <1>1, QbInvariance, PTL
=================================================================================
