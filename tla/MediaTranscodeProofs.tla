-------------------------- MODULE MediaTranscodeProofs --------------------------
(***************************************************************************)
(* Theorems about MediaTranscode, for any assets, tasks, slots and rungs:  *)
(* the semaphore's slots add up, a row that says "ready" is playable, one  *)
(* that says "preparing" is being transcoded while the process lives, and  *)
(* an asset has one task while nobody forces a rebuild.                    *)
(***************************************************************************)
EXTENDS MediaTranscode, FiniteSetTheorems, TLAPS

-----------------------------------------------------------------------------
(***************************************************************************)
(* The invariant everything rests on.                                      *)
(***************************************************************************)

\* TypeOK without the upper bound of the semaphore.
Typed ==
  /\ row \in [Media -> Row \cup {NoRow}]
  /\ onDisk \in [Media -> BOOLEAN]
  /\ master \in [Media -> BOOLEAN]
  /\ tasks \in [Media -> Jobs \cup {NoTask}]
  /\ job \in [Jobs -> Job]
  /\ free \in Nat
  /\ waiters \in Seq(Jobs)
  /\ writing \subseteq Jobs \X Media
  /\ loop \in Loop
  /\ restarts \in 0..MaxRestarts

\* The semaphore's queue holds tasks that wait, each once.
QueueOfTheWaiting ==
  /\ \A k \in 1..Len(waiters) : At(waiters[k], "waiting")
  /\ \A k, l \in 1..Len(waiters) : waiters[k] = waiters[l] => k = l

\* While a playlist is stitched, its task is still there, its threads have
\* written, and the playlist stays.
Stitching ==
  \A j \in Jobs :
    loop = [doing |-> "stitch", job |-> j] =>
      At(j, "encoding") /\ ~Writing(j) /\ master[job[j].media]

Shape == Typed /\ QueueOfTheWaiting /\ Stitching

\* What the tasks look like when one of them took a step and some were woken.
Moved(j, to) ==
  /\ job' \in [Jobs -> Job]
  /\ job'[j] = to
  /\ \A i \in Jobs \ {j} :
       \/ job'[i] = job[i]
       \/ /\ At(i, "waiting") /\ job'[i].at = "granted"
          /\ job'[i].media = job[i].media

-----------------------------------------------------------------------------
(***************************************************************************)
(* The parts of a step.                                                    *)
(***************************************************************************)

\* A task that is not idle has an asset and a rung.
LEMMA LiveJobs ==
  ASSUME Typed, NEW j \in Jobs, ~At(j, "idle")
  PROVE  /\ job[j] \in [at : {"created", "waiting", "granted", "encoding"},
                        media : Media, rung : 0..Rungs]
         /\ job[j].media \in Media
BY DEF Typed, Job, Idle, At

\* A row is a row after its status was set.
LEMMA SetStatusType ==
  ASSUME Typed, NEW m \in Media, NEW status \in Statuses, SetStatus(m, status)
  PROVE  /\ row' \in [Media -> Row \cup {NoRow}]
         /\ \A n \in Media \ {m} : row'[n] = row[n]
         /\ row[m] = NoRow => row'[m] = row[m]
         /\ row[m] # NoRow => row'[m].hls = status
BY DEF Typed, SetStatus, Row

\* What is left of the queue when its first n tasks were woken.
LEMMA RestOfTheQueue ==
  ASSUME NEW q \in Seq(Jobs), NEW n \in 0..Len(q)
  PROVE  LET rest == SubSeq(q, n + 1, Len(q)) IN
         /\ rest \in Seq(Jobs)
         /\ Len(rest) = Len(q) - n
         /\ \A k \in 1..Len(rest) : rest[k] = q[n + k]
OBVIOUS

\* The semaphore: slots never go below zero, the woken tasks leave the queue,
\* and no other task changes.
LEMMA HandOutFacts ==
  ASSUME Shape, NEW j \in Jobs, NEW to \in Job, NEW slots \in Nat, NEW most \in Nat,
         most <= slots, ~At(j, "waiting"), HandOut(j, to, slots, most)
  PROVE  /\ free' \in Nat
         /\ waiters' \in Seq(Jobs)
         /\ Moved(j, to)
         /\ QueueOfTheWaiting'
<1> DEFINE n == Lesser(most, Len(waiters))
<1> USE DEF Shape
<1>1. n \in 0..Len(waiters) /\ n \in Nat /\ n <= most
  BY DEF Typed, Lesser
<1>2. free' = slots - n /\ free' \in Nat
  BY <1>1 DEF HandOut
<1>3. /\ waiters' \in Seq(Jobs)
      /\ Len(waiters') = Len(waiters) - n
      /\ \A k \in 1..Len(waiters') : waiters'[k] = waiters[n + k]
  BY <1>1, RestOfTheQueue DEF HandOut, Typed
<1>4. ASSUME NEW k \in 1..Len(waiters) PROVE waiters[k] \in Jobs /\ waiters[k] # j
  BY DEF Typed, QueueOfTheWaiting
<1>5. job' = [i \in Jobs |->
               IF i = j THEN to
               ELSE IF \E k \in 1..n : waiters[k] = i
                 THEN [job[i] EXCEPT !.at = "granted"]
               ELSE job[i]]
  BY DEF HandOut
<1>6. ASSUME NEW i \in Jobs, At(i, "waiting")
      PROVE  /\ [job[i] EXCEPT !.at = "granted"] \in Job
             /\ [job[i] EXCEPT !.at = "granted"].at = "granted"
             /\ [job[i] EXCEPT !.at = "granted"].media = job[i].media
  BY <1>6, LiveJobs DEF Job, At
<1>7. Moved(j, to)
  <2>1. ASSUME NEW i \in Jobs, i # j, \E k \in 1..n : waiters[k] = i
        PROVE  At(i, "waiting")
    BY <1>1, <2>1 DEF QueueOfTheWaiting, Typed
  <2>2. ASSUME NEW i \in Jobs, i # j
        PROVE  /\ job'[i] \in Job
               /\ \/ job'[i] = job[i]
                  \/ /\ At(i, "waiting") /\ job'[i].at = "granted"
                     /\ job'[i].media = job[i].media
    <3>1. CASE \E k \in 1..n : waiters[k] = i
      BY <1>5, <1>6, <2>1, <2>2, <3>1
    <3>2. CASE ~\E k \in 1..n : waiters[k] = i
      BY <1>5, <2>2, <3>2 DEF Typed
    <3> QED
      BY <3>1, <3>2
  <2>3. job'[j] = to
    BY <1>5
  <2>4. job' \in [Jobs -> Job]
    BY <1>5, <2>2, <2>3
  <2> QED
    BY <2>2, <2>3, <2>4 DEF Moved
<1>8. QueueOfTheWaiting'
  <2>1. ASSUME NEW k \in 1..Len(waiters')
        PROVE  /\ n + k \in 1..Len(waiters)
               /\ waiters'[k] = waiters[n + k]
    BY <1>1, <1>3 DEF Typed
  <2>2. ASSUME NEW k \in 1..Len(waiters') PROVE job'[waiters'[k]].at = "waiting"
    <3> DEFINE i == waiters[n + k]
    <3>1. i \in Jobs /\ i # j /\ At(i, "waiting")
      BY <1>4, <2>1 DEF QueueOfTheWaiting
    <3>2. ~\E l \in 1..n : waiters[l] = i
      BY <1>1, <2>1 DEF QueueOfTheWaiting, Typed
    <3>3. job'[i] = job[i]
      BY <1>5, <3>1, <3>2
    <3> QED
      BY <2>1, <3>1, <3>3 DEF At
  <2>3. ASSUME NEW k \in 1..Len(waiters'), NEW l \in 1..Len(waiters'),
               waiters'[k] = waiters'[l]
        PROVE  k = l
    <3>1. n + k = n + l
      BY <2>1, <2>3 DEF QueueOfTheWaiting
    <3> QED
      BY <1>1, <1>3, <3>1
  <2> QED
    BY <2>2, <2>3 DEF QueueOfTheWaiting, At
<1> QED
  BY <1>2, <1>3, <1>7, <1>8

\* A task that is done leaves the semaphore to the next.
LEMMA EndFacts ==
  ASSUME Shape, NEW j \in Jobs, At(j, "encoding"), End(j)
  PROVE  /\ free' \in Nat
         /\ waiters' \in Seq(Jobs)
         /\ Moved(j, Idle)
         /\ QueueOfTheWaiting'
<1>1. Idle \in Job /\ free + 1 \in Nat /\ 1 <= free + 1
  BY DEF Shape, Typed, Job
<1>2. ~At(j, "waiting")
  BY DEF At
<1> QED
  BY <1>1, <1>2, HandOutFacts DEF End

\* A task that has a slot sees how many are left.
LEMMA SlotFacts ==
  ASSUME Shape, NEW j \in Jobs, HasSlot(j)
  PROVE  /\ Left(j) \in Nat /\ Left(j) + 1 \in Nat
         /\ ~At(j, "waiting") /\ ~At(j, "idle") /\ ~At(j, "encoding")
         /\ job[j].media \in Media
<1>1. ~At(j, "waiting") /\ ~At(j, "idle") /\ ~At(j, "encoding")
  BY DEF HasSlot, At
<1>2. Left(j) \in Nat /\ Left(j) + 1 \in Nat
  BY DEF HasSlot, SlotFree, Left, Shape, Typed, At
<1> QED
  BY <1>1, <1>2, LiveJobs DEF Shape

\* The start of a transcode.
LEMMA EncodeFacts ==
  ASSUME Shape, NEW j \in Jobs, Encode(j)
  PROVE  /\ [job[j] EXCEPT !.at = "encoding", !.rung = 1] \in Job
         /\ [job[j] EXCEPT !.at = "encoding", !.rung = 1].at = "encoding"
         /\ [job[j] EXCEPT !.at = "encoding", !.rung = 1].media = job[j].media
         /\ free' \in Nat
         /\ waiters' \in Seq(Jobs)
         /\ Moved(j, [job[j] EXCEPT !.at = "encoding", !.rung = 1])
         /\ QueueOfTheWaiting'
<1> DEFINE to == [job[j] EXCEPT !.at = "encoding", !.rung = 1]
<1>1. HasSlot(j) /\ HandOut(j, to, Left(j), Left(j))
  BY DEF Encode
<1>2. /\ Left(j) \in Nat /\ Left(j) <= Left(j)
      /\ ~At(j, "waiting") /\ ~At(j, "idle")
  BY <1>1, SlotFacts
<1>3. job[j] \in [at : {"created", "waiting", "granted", "encoding"},
                  media : Media, rung : 0..Rungs]
  BY <1>2, LiveJobs DEF Shape
<1>4. 1 \in 0..Rungs
  BY CountsAreNumbers
<1>5. to \in Job /\ to.at = "encoding" /\ to.media = job[j].media
  BY <1>3, <1>4 DEF Job
<1>6. /\ free' \in Nat
      /\ waiters' \in Seq(Jobs)
      /\ Moved(j, to)
      /\ QueueOfTheWaiting'
  <2> HIDE DEF to
  <2> QED
    BY <1>1, <1>2, <1>5, HandOutFacts
<1> QED
  BY <1>5, <1>6

\* The end of a task whose asset cannot be encoded.
LEMMA RefuseFacts ==
  ASSUME Shape, NEW j \in Jobs, Refuse(j)
  PROVE  /\ free' \in Nat
         /\ waiters' \in Seq(Jobs)
         /\ Moved(j, Idle)
         /\ QueueOfTheWaiting'
<1>1. HasSlot(j) /\ HandOut(j, Idle, Left(j) + 1, Left(j) + 1)
  BY DEF Refuse
<1>2. /\ Left(j) + 1 \in Nat /\ Left(j) + 1 <= Left(j) + 1
      /\ ~At(j, "waiting") /\ Idle \in Job
  BY <1>1, SlotFacts DEF Job
<1> QED
  BY <1>1, <1>2, HandOutFacts

-----------------------------------------------------------------------------
(***************************************************************************)
(* Every step keeps the shape.                                             *)
(***************************************************************************)

\* While the loop is free nothing is being stitched.
LEMMA FreeLoopStitchesNothing == LoopIsFree => Stitching
BY DEF LoopIsFree, FreeLoop, Stitching

\* Whatever is stored after a scan is a row.
LEMMA ScanWriteType ==
  ASSUME Typed, NEW m \in Media, ScanWrite(m)
  PROVE  row' \in [Media -> Row \cup {NoRow}]
<1>1. loop.hls \in Statuses
  BY DEF Typed, Loop, FreeLoop, ScanWrite
<1>2. \A probe \in Probes : StatusAfter(probe, loop.hls) \in Statuses
  BY <1>1 DEF StatusAfter, Statuses
<1>3. PICK probe \in Probes :
        row' = [row EXCEPT ![m] = [hls |-> StatusAfter(probe, loop.hls), probe |-> probe]]
  BY DEF ScanWrite
<1>4. [hls |-> StatusAfter(probe, loop.hls), probe |-> probe] \in Row
  BY <1>2 DEF Row
<1> QED
  BY <1>3, <1>4 DEF Typed

LEMMA ShapeStep == Shape /\ [Next]_vars => Shape'
<1> SUFFICES ASSUME Shape, [Next]_vars PROVE Shape'
  OBVIOUS
<1>0. Typed /\ QueueOfTheWaiting /\ Stitching
  BY DEF Shape
<1> USE DEF Statuses
<1>1. ASSUME NEW m \in Media, NEW force \in ForceFlags, PrepareHls(m, force) PROVE Shape'
  <2>1. PICK j \in Jobs :
          /\ ~Live(j)
          /\ job' = [job EXCEPT ![j] = [at |-> "created", media |-> m, rung |-> 0]]
          /\ tasks' = [tasks EXCEPT ![m] = j]
    BY <1>1 DEF PrepareHls
  <2>2. job' \in [Jobs -> Job] /\ \A i \in Jobs \ {j} : job'[i] = job[i]
    BY <1>0, <2>1, CountsAreNumbers DEF Typed, Job
  <2>3. row' \in [Media -> Row \cup {NoRow}]
    BY <1>0, <1>1, SetStatusType DEF PrepareHls
  <2>4. Typed'
    BY <1>0, <1>1, <2>1, <2>2, <2>3 DEF Typed, PrepareHls
  <2>5. QueueOfTheWaiting'
    BY <1>0, <1>1, <2>1, <2>2 DEF QueueOfTheWaiting, Typed, PrepareHls, At, Live
  <2>6. Stitching'
    BY <1>1 DEF PrepareHls, LoopIsFree, FreeLoop, Stitching
  <2> QED
    BY <2>4, <2>5, <2>6 DEF Shape
<1>2. ASSUME NEW j \in Jobs, Wait(j) PROVE Shape'
  <2>1. At(j, "created") /\ ~At(j, "idle")
    BY <1>2 DEF Wait, At
  <2>2. job[j] \in [at : {"created", "waiting", "granted", "encoding"},
                    media : Media, rung : 0..Rungs]
    BY <1>0, <2>1, LiveJobs
  <2>3. /\ job' \in [Jobs -> Job]
        /\ job'[j].at = "waiting"
        /\ \A i \in Jobs \ {j} : job'[i] = job[i]
    BY <1>0, <1>2, <2>2 DEF Typed, Job, Wait
  <2>4. row' \in [Media -> Row \cup {NoRow}]
    BY <1>0, <1>2, <2>2, SetStatusType DEF Wait
  <2>5. /\ waiters' \in Seq(Jobs)
        /\ Len(waiters') = Len(waiters) + 1
        /\ Len(waiters) \in Nat
        /\ \A k \in 1..Len(waiters) : waiters'[k] = waiters[k] /\ waiters[k] \in Jobs
        /\ waiters'[Len(waiters) + 1] = j
    BY <1>0, <1>2 DEF Typed, Wait
  <2>6. Typed'
    BY <1>0, <1>2, <2>3, <2>4, <2>5 DEF Typed, Wait
  <2>7. \A k \in 1..Len(waiters) : waiters[k] # j
    BY <1>0, <2>1 DEF QueueOfTheWaiting, At
  <2>8. QueueOfTheWaiting'
    BY <1>0, <2>3, <2>5, <2>7 DEF QueueOfTheWaiting, At
  <2>9. Stitching'
    BY <1>2 DEF Wait, LoopIsFree, FreeLoop, Stitching
  <2> QED
    BY <2>6, <2>8, <2>9 DEF Shape
<1>3. ASSUME NEW j \in Jobs, Encode(j) PROVE Shape'
  <2>1. job[j].media \in Media
    BY <1>3, SlotFacts DEF Encode
  <2>2. row' \in [Media -> Row \cup {NoRow}]
    BY <1>0, <1>3, <2>1, SetStatusType DEF Encode
  <2>3. Typed' /\ QueueOfTheWaiting'
    BY <1>0, <1>3, <2>1, <2>2, EncodeFacts DEF Typed, Moved, Encode
  <2>4. Stitching'
    BY <1>3 DEF Encode, LoopIsFree, FreeLoop, Stitching
  <2> QED
    BY <2>3, <2>4 DEF Shape
<1>4. ASSUME NEW j \in Jobs, Refuse(j) PROVE Shape'
  <2>1. job[j].media \in Media
    BY <1>4, SlotFacts DEF Refuse
  <2>2. row' \in [Media -> Row \cup {NoRow}]
    BY <1>0, <1>4, <2>1, SetStatusType DEF Refuse
  <2>3. tasks' \in [Media -> Jobs \cup {NoTask}]
    BY <1>0, <1>4 DEF Typed, Refuse, Unregister
  <2>4. Typed' /\ QueueOfTheWaiting'
    BY <1>0, <1>4, <2>1, <2>2, <2>3, RefuseFacts DEF Typed, Moved, Refuse
  <2>5. Stitching'
    BY <1>4 DEF Refuse, LoopIsFree, FreeLoop, Stitching
  <2> QED
    BY <2>4, <2>5 DEF Shape
<1>5. ASSUME NEW j \in Jobs, ReportProgress(j) PROVE Shape'
  <2>1. job[j].media \in Media
    BY <1>0, <1>5, LiveJobs DEF ReportProgress, At
  <2>2. Typed' /\ QueueOfTheWaiting'
    BY <1>0, <1>5, <2>1 DEF Typed, QueueOfTheWaiting, At, ReportProgress
  <2>3. Stitching'
    BY <1>5 DEF ReportProgress, LoopIsFree, FreeLoop, Stitching
  <2> QED
    BY <2>2, <2>3 DEF Shape
<1>6. ASSUME NEW j \in Jobs, NEW m \in Media, WriteProgress(j, m) PROVE Shape'
  <2>1. row' \in [Media -> Row \cup {NoRow}]
    BY <1>0, <1>6, SetStatusType DEF WriteProgress
  <2>2. Typed' /\ QueueOfTheWaiting'
    BY <1>0, <1>6, <2>1 DEF Typed, QueueOfTheWaiting, At, WriteProgress
  <2>3. Stitching'
    BY <1>0, <1>6 DEF WriteProgress, Stitching, At, Writing
  <2> QED
    BY <2>2, <2>3 DEF Shape
<1>7. ASSUME NEW j \in Jobs, NextRung(j) PROVE Shape'
  <2>1. At(j, "encoding") /\ ~At(j, "idle")
    BY <1>7 DEF NextRung, FfmpegExited, At
  <2>2. /\ job[j] \in [at : {"created", "waiting", "granted", "encoding"},
                       media : Media, rung : 0..Rungs]
        /\ job[j].rung + 1 \in 0..Rungs
    BY <1>0, <1>7, <2>1, LiveJobs, CountsAreNumbers DEF NextRung
  <2>3. /\ job' \in [Jobs -> Job]
        /\ job'[j].at = "encoding"
        /\ \A i \in Jobs \ {j} : job'[i] = job[i]
    BY <1>0, <1>7, <2>1, <2>2 DEF Typed, Job, NextRung, At
  <2>4. Typed' /\ QueueOfTheWaiting'
    BY <1>0, <1>7, <2>1, <2>3 DEF Typed, QueueOfTheWaiting, At, NextRung
  <2>5. Stitching'
    BY <1>7 DEF NextRung, LoopIsFree, FreeLoop, Stitching
  <2> QED
    BY <2>4, <2>5 DEF Shape
<1>8. ASSUME NEW j \in Jobs, Stitch(j) PROVE Shape'
  <2>1. At(j, "encoding") /\ ~Writing(j) /\ job[j].media \in Media
    BY <1>0, <1>8, LiveJobs DEF Stitch, FfmpegExited, At
  <2>2. Typed' /\ QueueOfTheWaiting'
    BY <1>0, <1>8, <2>1 DEF Typed, QueueOfTheWaiting, At, Stitch, Loop
  <2>3. ASSUME NEW i \in Jobs, loop' = [doing |-> "stitch", job |-> i] PROVE i = j
    BY <1>8, <2>3 DEF Stitch
  <2>4. master'[job[j].media]
    BY <1>0, <1>8, <2>1 DEF Typed, Stitch
  <2>5. Stitching'
    BY <1>8, <2>1, <2>3, <2>4 DEF Stitch, Stitching, At, Writing
  <2> QED
    BY <2>2, <2>5 DEF Shape
<1>9. ASSUME NEW j \in Jobs, MarkReady(j) PROVE Shape'
  <2>1. At(j, "encoding") /\ job[j].media \in Media
    BY <1>0, <1>9, LiveJobs DEF MarkReady, Stitching, At
  <2>2. row' \in [Media -> Row \cup {NoRow}]
    BY <1>0, <1>9, <2>1, SetStatusType DEF MarkReady
  <2>3. tasks' \in [Media -> Jobs \cup {NoTask}] /\ loop' \in Loop
    BY <1>0, <1>9 DEF Typed, MarkReady, Unregister, Loop
  <2>4. Typed' /\ QueueOfTheWaiting'
    BY <1>0, <1>9, <2>1, <2>2, <2>3, EndFacts DEF Typed, Moved, MarkReady
  <2>5. Stitching'
    BY <1>9 DEF MarkReady, FreeLoop, Stitching
  <2> QED
    BY <2>4, <2>5 DEF Shape
<1>10. ASSUME NEW j \in Jobs, Fail(j) PROVE Shape'
  <2>1. At(j, "encoding") /\ job[j].media \in Media
    BY <1>0, <1>10, LiveJobs DEF Fail, FfmpegExited, At
  <2>2. row' \in [Media -> Row \cup {NoRow}]
    BY <1>0, <1>10, <2>1, SetStatusType DEF Fail
  <2>3. tasks' \in [Media -> Jobs \cup {NoTask}]
    BY <1>0, <1>10 DEF Typed, Fail, Unregister
  <2>4. Typed' /\ QueueOfTheWaiting'
    BY <1>0, <1>10, <2>1, <2>2, <2>3, EndFacts DEF Typed, Moved, Fail
  <2>5. Stitching'
    BY <1>10 DEF Fail, LoopIsFree, FreeLoop, Stitching
  <2> QED
    BY <2>4, <2>5 DEF Shape
<1>11. ASSUME NEW m \in Media, ScanRead(m) PROVE Shape'
  <2>1. (IF row[m] = NoRow THEN "missing" ELSE row[m].hls) \in Statuses
    BY <1>0 DEF Typed, Row
  <2>2. loop' \in Loop
    BY <1>11, <2>1 DEF ScanRead, Loop
  <2>3. Typed' /\ QueueOfTheWaiting'
    BY <1>0, <1>11, <2>2 DEF Typed, QueueOfTheWaiting, At, ScanRead
  <2>4. Stitching'
    BY <1>11 DEF ScanRead, Stitching
  <2> QED
    BY <2>3, <2>4 DEF Shape
<1>12. ASSUME NEW m \in Media, ScanWrite(m) PROVE Shape'
  <2>1. Typed' /\ QueueOfTheWaiting'
    BY <1>0, <1>12, ScanWriteType DEF Typed, QueueOfTheWaiting, At, ScanWrite, Loop
  <2>2. Stitching'
    BY <1>12 DEF ScanWrite, FreeLoop, Stitching
  <2> QED
    BY <2>1, <2>2 DEF Shape
<1>13. ASSUME NEW m \in Media, ScanRemove(m) PROVE Shape'
  <2>1. Typed' /\ QueueOfTheWaiting'
    BY <1>0, <1>13 DEF Typed, QueueOfTheWaiting, At, ScanRemove
  <2>2. Stitching'
    BY <1>13 DEF ScanRemove, LoopIsFree, FreeLoop, Stitching
  <2> QED
    BY <2>1, <2>2 DEF Shape
<1>14. ASSUME NEW m \in Media, FileChanges(m) PROVE Shape'
  <2>1. Typed' /\ QueueOfTheWaiting'
    BY <1>0, <1>14 DEF Typed, QueueOfTheWaiting, At, FileChanges
  <2>2. Stitching'
    BY <1>0, <1>14 DEF FileChanges, Stitching, At, Writing
  <2> QED
    BY <2>1, <2>2 DEF Shape
<1>15. CASE Restart
  <2>1. Typed'
    BY <1>0, <1>15, CountsAreNumbers DEF Typed, Restart, Job, Loop
  <2>2. QueueOfTheWaiting' /\ Stitching'
    BY <1>15 DEF Restart, QueueOfTheWaiting, FreeLoop, Stitching
  <2> QED
    BY <2>1, <2>2 DEF Shape
<1>16. CASE UNCHANGED vars
  BY <1>0, <1>16 DEF vars, Shape, Typed, QueueOfTheWaiting, Stitching, At, Writing
<1> QED
  BY <1>1, <1>2, <1>3, <1>4, <1>5, <1>6, <1>7, <1>8, <1>9, <1>10, <1>11, <1>12,
     <1>13, <1>14, <1>15, <1>16 DEF Next

LEMMA ShapeAlways == Spec => []Shape
<1>1. Init => Shape
  BY CountsAreNumbers
  DEF Init, Shape, Typed, QueueOfTheWaiting, Stitching, Job, Loop, FreeLoop
<1> QED
  BY <1>1, ShapeStep, PTL DEF Spec

-----------------------------------------------------------------------------
(***************************************************************************)
(* A row that says "ready" is playable.                                    *)
(***************************************************************************)

\* The status a scan has read and will write back.
ScannedReadyHasAMaster ==
  \A m \in Media :
    loop.doing = "scan" /\ loop.media = m /\ loop.hls = "ready" => master[m]

Playable == ReadyHasAMaster /\ ScannedReadyHasAMaster

\* A free loop has read nothing.
LEMMA NothingScanned == LoopIsFree => loop.doing # "scan"
BY DEF LoopIsFree, FreeLoop

\* A step that leaves playlists alone and sets no row to ready.
LEMMA OtherStatus ==
  ASSUME Typed, Playable, NEW m \in Media, NEW status \in Statuses \ {"ready"},
         SetStatus(m, status), UNCHANGED <<master, loop>>
  PROVE  Playable'
BY SetStatusType DEF Playable, ReadyHasAMaster, ScannedReadyHasAMaster, Statuses

LEMMA PlayableStep == Shape /\ Playable /\ [Next]_vars => Playable'
<1> SUFFICES ASSUME Shape, Playable, [Next]_vars PROVE Playable'
  OBVIOUS
<1>0. Typed /\ Stitching
  BY DEF Shape
<1> USE DEF Playable, ReadyHasAMaster, ScannedReadyHasAMaster
<1>1. ASSUME NEW m \in Media, NEW force \in ForceFlags, PrepareHls(m, force)
      PROVE  Playable'
  BY <1>0, <1>1, OtherStatus DEF PrepareHls, Statuses
<1>2. ASSUME NEW j \in Jobs, Wait(j) PROVE Playable'
  <2>1. job[j].media \in Media
    BY <1>0, <1>2, LiveJobs DEF Wait, At
  <2> QED
    BY <1>0, <1>2, <2>1, OtherStatus DEF Wait, Statuses
<1>3. ASSUME NEW j \in Jobs, Encode(j) PROVE Playable'
  <2> DEFINE m == job[j].media
  <2>1. m \in Media /\ row[m] # NoRow
    BY <1>3, SlotFacts DEF Encode, Encodable
  <2>2. /\ row'[m].hls = "preparing"
        /\ \A n \in Media \ {m} : row'[n] = row[n]
    BY <1>0, <1>3, <2>1, SetStatusType DEF Encode, Statuses
  <2>3. \A n \in Media \ {m} : master'[n] = master[n]
    BY <1>0, <1>3, <2>1 DEF Encode, Typed
  <2>4. loop'.doing # "scan"
    BY <1>3, NothingScanned DEF Encode
  <2> QED
    BY <2>2, <2>3, <2>4
<1>4. ASSUME NEW j \in Jobs, Refuse(j) PROVE Playable'
  <2>1. job[j].media \in Media
    BY <1>4, SlotFacts DEF Refuse
  <2> QED
    BY <1>0, <1>4, <2>1, OtherStatus DEF Refuse, Statuses
<1>5. ASSUME NEW j \in Jobs, NEW m \in Media, WriteProgress(j, m) PROVE Playable'
  BY <1>0, <1>5, OtherStatus DEF WriteProgress, Statuses
<1>6. ASSUME NEW j \in Jobs, Stitch(j) PROVE Playable'
  <2>1. \A n \in Media : master[n] => master'[n]
    BY <1>0, <1>6 DEF Stitch, Typed
  <2>2. loop'.doing # "scan"
    BY <1>6 DEF Stitch
  <2> QED
    BY <1>6, <2>1, <2>2 DEF Stitch
<1>7. ASSUME NEW j \in Jobs, MarkReady(j) PROVE Playable'
  <2>1. At(j, "encoding") /\ master[job[j].media] /\ job[j].media \in Media
    BY <1>0, <1>7, LiveJobs DEF MarkReady, Stitching, At
  <2>2. \A n \in Media \ {job[j].media} : row'[n] = row[n]
    BY <1>0, <1>7, <2>1, SetStatusType DEF MarkReady, Statuses
  <2>3. loop'.doing # "scan"
    BY <1>7 DEF MarkReady, FreeLoop
  <2> QED
    BY <1>7, <2>1, <2>2, <2>3 DEF MarkReady
<1>8. ASSUME NEW j \in Jobs, Fail(j) PROVE Playable'
  <2>1. job[j].media \in Media
    BY <1>0, <1>8, LiveJobs DEF Fail, FfmpegExited, At
  <2> QED
    BY <1>0, <1>8, <2>1, OtherStatus DEF Fail, Statuses
<1>9. ASSUME NEW m \in Media, ScanRead(m) PROVE Playable'
  <2>1. loop'.media = m /\ (loop'.hls = "ready" => row[m] # NoRow /\ row[m].hls = "ready")
    BY <1>9 DEF ScanRead
  <2> QED
    BY <1>9, <2>1 DEF ScanRead
<1>10. ASSUME NEW m \in Media, ScanWrite(m) PROVE Playable'
  <2>1. PICK probe \in Probes :
          row' = [row EXCEPT ![m] = [hls |-> StatusAfter(probe, loop.hls), probe |-> probe]]
    BY <1>10 DEF ScanWrite
  <2>2. StatusAfter(probe, loop.hls) = "ready" => loop.hls = "ready"
    BY DEF StatusAfter
  <2>3. /\ row'[m].hls = StatusAfter(probe, loop.hls)
        /\ \A n \in Media \ {m} : row'[n] = row[n]
    BY <1>0, <2>1 DEF Typed
  <2>4. loop'.doing # "scan"
    BY <1>10 DEF ScanWrite, FreeLoop
  <2> QED
    BY <1>10, <2>2, <2>3, <2>4 DEF ScanWrite
<1>11. ASSUME NEW m \in Media, ScanRemove(m) PROVE Playable'
  <2>1. row'[m] = NoRow /\ \A n \in Media \ {m} : row'[n] = row[n]
    BY <1>0, <1>11 DEF Typed, ScanRemove
  <2> QED
    BY <1>11, <2>1 DEF ScanRemove
<1>12. CASE Restart
  BY <1>12 DEF Restart, FreeLoop
<1>13. ASSUME UNCHANGED <<row, master, loop>> PROVE Playable'
  BY <1>13
<1> HIDE DEF Playable
<1> QED
  BY <1>1, <1>2, <1>3, <1>4, <1>5, <1>6, <1>7, <1>8, <1>9, <1>10, <1>11, <1>12, <1>13
  DEF Next, ReportProgress, NextRung, FileChanges, vars

\* A ready asset always has its master playlist: rebuilds empty the directory
\* only after the row stopped saying ready, scans copy nothing that is not
\* true any more, and a restart falls between no two writes that matter.
THEOREM ReadyIsPlayable == Spec => []ReadyHasAMaster
<1>1. Init => Playable
  BY DEF Init, Playable, ReadyHasAMaster, ScannedReadyHasAMaster, FreeLoop
<1> QED
  BY <1>1, PlayableStep, ShapeAlways, PTL DEF Spec, Playable

-----------------------------------------------------------------------------
(***************************************************************************)
(* Without forced rebuilds an asset has one task.                          *)
(***************************************************************************)

\* A task that did not take the step, and was at most woken by it.
LEMMA OthersStay ==
  ASSUME NEW j \in Jobs, NEW to, Moved(j, to), NEW i \in Jobs \ {j}
  PROVE  /\ job'[i].at = "encoding" <=> job[i].at = "encoding"
         /\ job'[i].at = "idle" <=> job[i].at = "idle"
         /\ job[i].at # "idle" => job'[i].media = job[i].media
BY DEF Moved, At

\* The registered task of an asset is the live one.
Registered == \A j \in Jobs : Live(j) => tasks[job[j].media] = j

\* A ready asset is not being encoded, nor is one a scan takes for ready.
Untouched ==
  \A m \in Media, j \in Jobs :
    /\ \/ row[m] # NoRow /\ row[m].hls = "ready"
       \/ loop.doing = "scan" /\ loop.media = m /\ loop.hls = "ready"
    => ~(At(j, "encoding") /\ job[j].media = m)

\* What the end of a task leaves of both.
LEMMA TaskEnds ==
  ASSUME Typed, Registered, NEW j \in Jobs, ~At(j, "idle"), Unregister(j), Moved(j, Idle)
  PROVE  /\ Registered'
         /\ \A i \in Jobs : job'[i].at = "encoding" =>
              /\ i # j /\ At(i, "encoding") /\ job'[i].media = job[i].media
              /\ job[i].media # job[j].media
<1>1. job[j].media \in Media /\ tasks[job[j].media] = j
  BY LiveJobs DEF Registered, Live
<1>2. job'[j].at = "idle"
  BY DEF Moved, Idle
<1>3. ASSUME NEW i \in Jobs, job'[i].at # "idle"
      PROVE  /\ i # j
             /\ job[i].at # "idle" /\ job'[i].media = job[i].media
             /\ job[i].media \in Media
             /\ tasks[job[i].media] = i
             /\ job[i].media # job[j].media
  <2>1. i # j
    BY <1>2, <1>3
  <2>2. job[i].at # "idle" /\ job'[i].media = job[i].media
    BY <1>3, <2>1, OthersStay
  <2>3. job[i].media \in Media /\ tasks[job[i].media] = i
    BY <2>2, LiveJobs DEF Registered, Live, At
  <2> QED
    BY <1>1, <2>1, <2>2, <2>3
<1>4. Registered'
  <2>1. ASSUME NEW i \in Jobs, job'[i].at # "idle" PROVE tasks'[job'[i].media] = i
    BY <1>1, <1>3, <2>1 DEF Unregister, Typed
  <2> QED
    BY <2>1 DEF Registered, Live, At
<1>5. ASSUME NEW i \in Jobs, job'[i].at = "encoding"
      PROVE  /\ i # j /\ At(i, "encoding") /\ job'[i].media = job[i].media
             /\ job[i].media # job[j].media
  BY <1>3, <1>5, OthersStay DEF At
<1> QED
  BY <1>4, <1>5

Exclusive == Registered /\ Untouched

LEMMA ExclusiveStep ==
  ASSUME ForceFlags \subseteq {FALSE}
  PROVE  Shape /\ Exclusive /\ [Next]_vars => Exclusive'
<1> SUFFICES ASSUME Shape, Exclusive, [Next]_vars PROVE Exclusive'
  OBVIOUS
<1>0. Typed /\ Stitching /\ Registered /\ Untouched
  BY DEF Shape, Exclusive
<1> USE DEF Statuses
<1>1. ASSUME NEW m \in Media, NEW force \in ForceFlags, PrepareHls(m, force)
      PROVE  Exclusive'
  <2>1. PICK j \in Jobs :
          /\ ~Live(j)
          /\ job' = [job EXCEPT ![j] = [at |-> "created", media |-> m, rung |-> 0]]
          /\ tasks' = [tasks EXCEPT ![m] = j]
    BY <1>1 DEF PrepareHls
  <2>2. tasks[m] = NoTask
    BY <1>1 DEF PrepareHls, Wanted
  <2>3. ASSUME NEW i \in Jobs, i # j, job'[i].at # "idle"
        PROVE  /\ tasks[job[i].media] = i /\ job[i].media \in Media
               /\ job[i].media # m /\ job'[i] = job[i]
    BY <1>0, <2>1, <2>2, <2>3, LiveJobs, NoTaskIsNoJob DEF Typed, Registered, Live, At
  <2>4. job'[j].at = "created" /\ job'[j].media = m
    BY <1>0, <2>1 DEF Typed
  <2>5. Registered'
    BY <1>0, <2>1, <2>3, <2>4 DEF Typed, Registered, Live, At
  <2>6. row'[m].hls # "ready" \/ row'[m] = NoRow
    BY <1>0, <1>1, SetStatusType DEF PrepareHls
  <2>7. \A n \in Media \ {m} : row'[n] = row[n]
    BY <1>0, <1>1, SetStatusType DEF PrepareHls
  <2>8. loop' = loop /\ loop.doing # "scan"
    BY <1>1, NothingScanned DEF PrepareHls
  <2>9. Untouched'
    BY <1>0, <2>3, <2>4, <2>6, <2>7, <2>8 DEF Untouched, At
  <2> QED
    BY <2>5, <2>9 DEF Exclusive
<1>2. ASSUME NEW j \in Jobs, Wait(j) PROVE Exclusive'
  <2>1. At(j, "created") /\ job[j].media \in Media
    BY <1>0, <1>2, LiveJobs DEF Wait, At
  <2>2. /\ job'[j].at = "waiting" /\ job'[j].media = job[j].media
        /\ \A i \in Jobs \ {j} : job'[i] = job[i]
    BY <1>0, <1>2, <2>1, LiveJobs DEF Wait, At, Typed
  <2>3. /\ row'[job[j].media] = NoRow \/ row'[job[j].media].hls # "ready"
        /\ \A n \in Media \ {job[j].media} : row'[n] = row[n]
    BY <1>0, <1>2, <2>1, SetStatusType DEF Wait
  <2>4. loop' = loop /\ loop.doing # "scan"
    BY <1>2, NothingScanned DEF Wait
  <2>5. Registered'
    BY <1>0, <1>2, <2>1, <2>2 DEF Registered, Live, At, Wait
  <2>6. Untouched'
    BY <1>0, <2>2, <2>3, <2>4 DEF Untouched, At
  <2> QED
    BY <2>5, <2>6 DEF Exclusive
<1>3. ASSUME NEW j \in Jobs, Encode(j) PROVE Exclusive'
  <2> DEFINE m == job[j].media
  <2>1. m \in Media /\ row[m] # NoRow /\ job[j].at # "idle" /\ tasks[m] = j
    BY <1>0, <1>3, SlotFacts DEF Encode, Encodable, Registered, Live, At
  <2>2. /\ row'[m].hls = "preparing"
        /\ \A n \in Media \ {m} : row'[n] = row[n]
    BY <1>0, <1>3, <2>1, SetStatusType DEF Encode
  <2>3. Moved(j, [job[j] EXCEPT !.at = "encoding", !.rung = 1])
    BY <1>3, EncodeFacts
  <2>4. job'[j].at = "encoding" /\ job'[j].media = m
    BY <1>3, <2>3, EncodeFacts DEF Moved
  <2>5. loop' = loop /\ loop.doing # "scan" /\ tasks' = tasks
    BY <1>3, NothingScanned DEF Encode
  <2>6. Registered'
    BY <1>0, <2>1, <2>3, <2>4, <2>5, OthersStay DEF Registered, Live, At
  <2>7. Untouched'
    BY <1>0, <2>2, <2>3, <2>4, <2>5, OthersStay DEF Untouched, At
  <2> QED
    BY <2>6, <2>7 DEF Exclusive
<1>4. ASSUME NEW j \in Jobs, Refuse(j) PROVE Exclusive'
  <2>1. job[j].media \in Media /\ ~At(j, "idle")
    BY <1>4, SlotFacts DEF Refuse
  <2>2. /\ row'[job[j].media] = NoRow \/ row'[job[j].media].hls # "ready"
        /\ \A n \in Media \ {job[j].media} : row'[n] = row[n]
    BY <1>0, <1>4, <2>1, SetStatusType DEF Refuse
  <2>3. /\ Registered'
        /\ \A i \in Jobs : job'[i].at = "encoding" =>
             At(i, "encoding") /\ job'[i].media = job[i].media
    BY <1>0, <1>4, <2>1, RefuseFacts, TaskEnds DEF Refuse
  <2>4. loop' = loop /\ loop.doing # "scan"
    BY <1>4, NothingScanned DEF Refuse
  <2>5. Untouched'
    BY <1>0, <2>2, <2>3, <2>4 DEF Untouched, At
  <2> QED
    BY <2>3, <2>5 DEF Exclusive
<1>5. ASSUME NEW j \in Jobs, NEW m \in Media, WriteProgress(j, m) PROVE Exclusive'
  <2>1. /\ row'[m] = NoRow \/ row'[m].hls # "ready"
        /\ \A n \in Media \ {m} : row'[n] = row[n]
    BY <1>0, <1>5, SetStatusType DEF WriteProgress
  <2> QED
    BY <1>0, <1>5, <2>1 DEF WriteProgress, Exclusive, Registered, Untouched, Live, At
<1>6. ASSUME NEW j \in Jobs, NextRung(j) PROVE Exclusive'
  <2>1. job'[j].at = job[j].at /\ job'[j].media = job[j].media
    BY <1>0, <1>6, LiveJobs DEF NextRung, FfmpegExited, At, Typed
  <2>2. \A i \in Jobs : job'[i].at = job[i].at /\ job'[i].media = job[i].media
    BY <1>0, <1>6, <2>1 DEF NextRung, Typed
  <2> QED
    BY <1>0, <1>6, <2>2 DEF NextRung, Exclusive, Registered, Untouched, Live, At
<1>7. ASSUME NEW j \in Jobs, Stitch(j) PROVE Exclusive'
  <2>1. loop'.doing # "scan"
    BY <1>7 DEF Stitch
  <2> QED
    BY <1>0, <1>7, <2>1 DEF Stitch, Exclusive, Registered, Untouched, Live, At
<1>8. ASSUME NEW j \in Jobs, MarkReady(j) PROVE Exclusive'
  <2>1. job[j].media \in Media /\ At(j, "encoding") /\ ~At(j, "idle")
    BY <1>0, <1>8, LiveJobs DEF MarkReady, Stitching, At
  <2>2. \A n \in Media \ {job[j].media} : row'[n] = row[n]
    BY <1>0, <1>8, <2>1, SetStatusType DEF MarkReady
  <2>3. /\ Registered'
        /\ \A i \in Jobs : job'[i].at = "encoding" =>
             /\ At(i, "encoding") /\ job'[i].media = job[i].media
             /\ job[i].media # job[j].media
    BY <1>0, <1>8, <2>1, EndFacts, TaskEnds DEF MarkReady
  <2>4. loop'.doing # "scan"
    BY <1>8 DEF MarkReady, FreeLoop
  <2>5. Untouched'
    BY <1>0, <2>2, <2>3, <2>4 DEF Untouched, At
  <2> QED
    BY <2>3, <2>5 DEF Exclusive
<1>9. ASSUME NEW j \in Jobs, Fail(j) PROVE Exclusive'
  <2>1. job[j].media \in Media /\ At(j, "encoding") /\ ~At(j, "idle")
    BY <1>0, <1>9, LiveJobs DEF Fail, FfmpegExited, At
  <2>2. /\ row'[job[j].media] = NoRow \/ row'[job[j].media].hls # "ready"
        /\ \A n \in Media \ {job[j].media} : row'[n] = row[n]
    BY <1>0, <1>9, <2>1, SetStatusType DEF Fail
  <2>3. /\ Registered'
        /\ \A i \in Jobs : job'[i].at = "encoding" =>
             At(i, "encoding") /\ job'[i].media = job[i].media
    BY <1>0, <1>9, <2>1, EndFacts, TaskEnds DEF Fail
  <2>4. loop' = loop /\ loop.doing # "scan"
    BY <1>9, NothingScanned DEF Fail
  <2>5. Untouched'
    BY <1>0, <2>2, <2>3, <2>4 DEF Untouched, At
  <2> QED
    BY <2>3, <2>5 DEF Exclusive
<1>10. ASSUME NEW m \in Media, ScanRead(m) PROVE Exclusive'
  <2>1. loop'.media = m /\ (loop'.hls = "ready" => row[m] # NoRow /\ row[m].hls = "ready")
    BY <1>10 DEF ScanRead
  <2> QED
    BY <1>0, <1>10, <2>1 DEF ScanRead, Exclusive, Registered, Untouched, Live, At
<1>11. ASSUME NEW m \in Media, ScanWrite(m) PROVE Exclusive'
  <2>1. PICK probe \in Probes :
          row' = [row EXCEPT ![m] = [hls |-> StatusAfter(probe, loop.hls), probe |-> probe]]
    BY <1>11 DEF ScanWrite
  <2>2. StatusAfter(probe, loop.hls) = "ready" => loop.hls = "ready"
    BY DEF StatusAfter
  <2>3. /\ row'[m].hls = StatusAfter(probe, loop.hls)
        /\ \A n \in Media \ {m} : row'[n] = row[n]
    BY <1>0, <2>1 DEF Typed
  <2>4. loop'.doing # "scan" /\ loop.doing = "scan" /\ loop.media = m
    BY <1>11 DEF ScanWrite, FreeLoop
  <2> QED
    BY <1>0, <1>11, <2>2, <2>3, <2>4
    DEF ScanWrite, Exclusive, Registered, Untouched, Live, At
<1>12. ASSUME NEW m \in Media, ScanRemove(m) PROVE Exclusive'
  <2>1. row'[m] = NoRow /\ \A n \in Media \ {m} : row'[n] = row[n]
    BY <1>0, <1>12 DEF Typed, ScanRemove
  <2> QED
    BY <1>0, <1>12, <2>1 DEF ScanRemove, Exclusive, Registered, Untouched, Live, At
<1>13. CASE Restart
  <2>1. \A j \in Jobs : job'[j].at = "idle"
    BY <1>13 DEF Restart, Idle
  <2> QED
    BY <2>1 DEF Exclusive, Registered, Untouched, Live, At
<1>14. ASSUME UNCHANGED <<row, tasks, job, loop>> PROVE Exclusive'
  BY <1>0, <1>14 DEF Exclusive, Registered, Untouched, Live, At
<1> QED
  BY <1>1, <1>2, <1>3, <1>4, <1>5, <1>6, <1>7, <1>8, <1>9, <1>10, <1>11, <1>12, <1>13, <1>14
  DEF Next, ReportProgress, FileChanges, vars

\* While nobody forces a rebuild an asset has one task at most, whatever fails,
\* vanishes or restarts, and nobody writes the files of a ready asset.
THEOREM TasksAreExclusive ==
  ASSUME ForceFlags \subseteq {FALSE}
  PROVE  Spec => []OneTaskPerAsset
<1>1. Init => Exclusive
  BY DEF Init, Exclusive, Registered, Untouched, Live, At, Idle, FreeLoop
<1>2. Exclusive => OneTaskPerAsset
  BY DEF Exclusive, Registered, Untouched, OneTaskPerAsset, Encoding
<1> QED
  BY <1>1, <1>2, ExclusiveStep, ShapeAlways, PTL DEF Spec

-----------------------------------------------------------------------------
(***************************************************************************)
(* "preparing" is said of assets that are being transcoded.                *)
(***************************************************************************)

\* A thread that has not written yet belongs to a task that still encodes.
WritersEncode ==
  \A j \in Jobs, m \in Media :
    <<j, m>> \in writing => At(j, "encoding") /\ job[j].media = m

\* A row that says preparing, and one that a scan has read and will write back.
PreparingIsEncoding ==
  \A m \in Media :
    \/ row[m] # NoRow /\ row[m].hls = "preparing"
    \/ loop.doing = "scan" /\ loop.media = m /\ loop.hls = "preparing"
    => \E j \in Jobs : At(j, "encoding") /\ job[j].media = m

Truthful == WritersEncode /\ PreparingIsEncoding

\* Everybody but j who encodes goes on doing so.
LEMMA OthersEncode ==
  ASSUME NEW j \in Jobs, NEW to, Moved(j, to), NEW i \in Jobs \ {j}, At(i, "encoding")
  PROVE  job'[i].at = "encoding" /\ job'[i].media = job[i].media
BY OthersStay DEF At

LEMMA TruthfulStep ==
  ASSUME MaxRestarts = 0
  PROVE  Shape /\ Truthful /\ [Next]_vars => Truthful'
<1> SUFFICES ASSUME Shape, Truthful, [Next]_vars PROVE Truthful'
  OBVIOUS
<1>0. Typed /\ Stitching /\ WritersEncode /\ PreparingIsEncoding
  BY DEF Shape, Truthful
<1> USE DEF Statuses
<1>1. ASSUME NEW m \in Media, NEW force \in ForceFlags, PrepareHls(m, force)
      PROVE  Truthful'
  <2>1. PICK j \in Jobs :
          /\ ~Live(j)
          /\ job' = [job EXCEPT ![j] = [at |-> "created", media |-> m, rung |-> 0]]
    BY <1>1 DEF PrepareHls
  <2>2. \A i \in Jobs : At(i, "encoding") => job'[i] = job[i]
    BY <2>1 DEF Live, At, Typed
  <2>3. /\ row'[m] = NoRow \/ row'[m].hls # "preparing"
        /\ \A n \in Media \ {m} : row'[n] = row[n]
    BY <1>0, <1>1, SetStatusType DEF PrepareHls
  <2>4. loop' = loop /\ loop.doing # "scan" /\ writing' = writing
    BY <1>1, NothingScanned DEF PrepareHls
  <2> QED
    BY <1>0, <2>2, <2>3, <2>4 DEF Truthful, WritersEncode, PreparingIsEncoding, At
<1>2. ASSUME NEW j \in Jobs, Wait(j) PROVE Truthful'
  <2>1. At(j, "created") /\ job[j].media \in Media
    BY <1>0, <1>2, LiveJobs DEF Wait, At
  <2>2. \A i \in Jobs : At(i, "encoding") => job'[i] = job[i]
    BY <1>0, <1>2, <2>1 DEF Wait, At, Typed
  <2>3. /\ row'[job[j].media] = NoRow \/ row'[job[j].media].hls # "preparing"
        /\ \A n \in Media \ {job[j].media} : row'[n] = row[n]
    BY <1>0, <1>2, <2>1, SetStatusType DEF Wait
  <2>4. loop' = loop /\ loop.doing # "scan" /\ writing' = writing
    BY <1>2, NothingScanned DEF Wait
  <2> QED
    BY <1>0, <2>2, <2>3, <2>4 DEF Truthful, WritersEncode, PreparingIsEncoding, At
<1>3. ASSUME NEW j \in Jobs, Encode(j) PROVE Truthful'
  <2>1. job[j].media \in Media /\ ~At(j, "encoding")
    BY <1>3, SlotFacts DEF Encode
  <2>2. /\ Moved(j, [job[j] EXCEPT !.at = "encoding", !.rung = 1])
        /\ job'[j].at = "encoding" /\ job'[j].media = job[j].media
    BY <1>3, EncodeFacts DEF Moved
  <2>3. \A i \in Jobs : At(i, "encoding") =>
          job'[i].at = "encoding" /\ job'[i].media = job[i].media
    BY <2>1, <2>2, OthersEncode
  <2>4. \A n \in Media \ {job[j].media} : row'[n] = row[n]
    BY <1>0, <1>3, <2>1, SetStatusType DEF Encode
  <2>5. loop' = loop /\ loop.doing # "scan" /\ writing' = writing
    BY <1>3, NothingScanned DEF Encode
  <2>6. WritersEncode'
    BY <1>0, <2>3, <2>5 DEF WritersEncode, At
  <2>7. PreparingIsEncoding'
    BY <1>0, <2>2, <2>3, <2>4, <2>5 DEF PreparingIsEncoding, At
  <2> QED
    BY <2>6, <2>7 DEF Truthful
<1>4. ASSUME NEW j \in Jobs, Refuse(j) PROVE Truthful'
  <2>1. job[j].media \in Media /\ ~At(j, "encoding")
    BY <1>4, SlotFacts DEF Refuse
  <2>2. \A i \in Jobs : At(i, "encoding") =>
          job'[i].at = "encoding" /\ job'[i].media = job[i].media
    BY <1>4, <2>1, RefuseFacts, OthersEncode
  <2>3. /\ row'[job[j].media] = NoRow \/ row'[job[j].media].hls # "preparing"
        /\ \A n \in Media \ {job[j].media} : row'[n] = row[n]
    BY <1>0, <1>4, <2>1, SetStatusType DEF Refuse
  <2>4. loop' = loop /\ loop.doing # "scan" /\ writing' = writing
    BY <1>4, NothingScanned DEF Refuse
  <2> QED
    BY <1>0, <2>2, <2>3, <2>4 DEF Truthful, WritersEncode, PreparingIsEncoding, At
<1>5. ASSUME NEW j \in Jobs, ReportProgress(j) PROVE Truthful'
  BY <1>0, <1>5
  DEF ReportProgress, Truthful, WritersEncode, PreparingIsEncoding, At
<1>6. ASSUME NEW j \in Jobs, NEW m \in Media, WriteProgress(j, m) PROVE Truthful'
  <2>1. At(j, "encoding") /\ job[j].media = m
    BY <1>0, <1>6 DEF WriteProgress, WritersEncode
  <2>2. \A n \in Media \ {m} : row'[n] = row[n]
    BY <1>0, <1>6, SetStatusType DEF WriteProgress
  <2> QED
    BY <1>0, <1>6, <2>1, <2>2
    DEF WriteProgress, Truthful, WritersEncode, PreparingIsEncoding, At
<1>7. ASSUME NEW j \in Jobs, NextRung(j) PROVE Truthful'
  <2>1. job'[j].at = job[j].at /\ job'[j].media = job[j].media
    BY <1>0, <1>7, LiveJobs DEF NextRung, FfmpegExited, At, Typed
  <2>2. \A i \in Jobs : job'[i].at = job[i].at /\ job'[i].media = job[i].media
    BY <1>0, <1>7, <2>1 DEF NextRung, Typed
  <2> QED
    BY <1>0, <1>7, <2>2
    DEF NextRung, Truthful, WritersEncode, PreparingIsEncoding, At
<1>8. ASSUME NEW j \in Jobs, Stitch(j) PROVE Truthful'
  <2>1. loop'.doing # "scan"
    BY <1>8 DEF Stitch
  <2> QED
    BY <1>0, <1>8, <2>1 DEF Stitch, Truthful, WritersEncode, PreparingIsEncoding, At
<1>9. ASSUME NEW j \in Jobs, ~Writing(j), At(j, "encoding"), Moved(j, Idle),
             writing' = writing, loop'.doing # "scan",
             /\ row'[job[j].media] = NoRow \/ row'[job[j].media].hls # "preparing"
             /\ \A n \in Media \ {job[j].media} : row'[n] = row[n]
      PROVE  Truthful'
  <2>1. \A i \in Jobs \ {j} : At(i, "encoding") =>
          job'[i].at = "encoding" /\ job'[i].media = job[i].media
    BY <1>9, OthersEncode
  <2>2. WritersEncode'
    BY <1>0, <1>9, <2>1 DEF WritersEncode, Writing, At
  <2>3. PreparingIsEncoding'
    BY <1>0, <1>9, <2>1 DEF PreparingIsEncoding, At
  <2> QED
    BY <2>2, <2>3 DEF Truthful
<1>10. ASSUME NEW j \in Jobs, MarkReady(j) PROVE Truthful'
  <2>1. job[j].media \in Media /\ At(j, "encoding") /\ ~Writing(j)
    BY <1>0, <1>10, LiveJobs DEF MarkReady, Stitching, At
  <2>2. /\ row'[job[j].media] = NoRow \/ row'[job[j].media].hls # "preparing"
        /\ \A n \in Media \ {job[j].media} : row'[n] = row[n]
    BY <1>0, <1>10, <2>1, SetStatusType DEF MarkReady
  <2> QED
    BY <1>9, <1>10, <2>1, <2>2, EndFacts DEF MarkReady, FreeLoop
<1>11. ASSUME NEW j \in Jobs, Fail(j) PROVE Truthful'
  <2>1. job[j].media \in Media /\ At(j, "encoding") /\ ~Writing(j)
    BY <1>0, <1>11, LiveJobs DEF Fail, FfmpegExited, At
  <2>2. /\ row'[job[j].media] = NoRow \/ row'[job[j].media].hls # "preparing"
        /\ \A n \in Media \ {job[j].media} : row'[n] = row[n]
    BY <1>0, <1>11, <2>1, SetStatusType DEF Fail
  <2> QED
    BY <1>9, <1>11, <2>1, <2>2, EndFacts, NothingScanned DEF Fail
<1>12. ASSUME NEW m \in Media, ScanRead(m) PROVE Truthful'
  <2>1. loop'.media = m
        /\ (loop'.hls = "preparing" => row[m] # NoRow /\ row[m].hls = "preparing")
    BY <1>12 DEF ScanRead
  <2> QED
    BY <1>0, <1>12, <2>1 DEF ScanRead, Truthful, WritersEncode, PreparingIsEncoding, At
<1>13. ASSUME NEW m \in Media, ScanWrite(m) PROVE Truthful'
  <2>1. PICK probe \in Probes :
          row' = [row EXCEPT ![m] = [hls |-> StatusAfter(probe, loop.hls), probe |-> probe]]
    BY <1>13 DEF ScanWrite
  <2>2. StatusAfter(probe, loop.hls) = "preparing" => loop.hls = "preparing"
    BY DEF StatusAfter
  <2>3. /\ row'[m].hls = StatusAfter(probe, loop.hls)
        /\ \A n \in Media \ {m} : row'[n] = row[n]
    BY <1>0, <2>1 DEF Typed
  <2>4. loop'.doing # "scan" /\ loop.doing = "scan" /\ loop.media = m
    BY <1>13 DEF ScanWrite, FreeLoop
  <2> QED
    BY <1>0, <1>13, <2>2, <2>3, <2>4
    DEF ScanWrite, Truthful, WritersEncode, PreparingIsEncoding, At
<1>14. ASSUME NEW m \in Media, ScanRemove(m) PROVE Truthful'
  <2>1. row'[m] = NoRow /\ \A n \in Media \ {m} : row'[n] = row[n]
    BY <1>0, <1>14 DEF Typed, ScanRemove
  <2> QED
    BY <1>0, <1>14, <2>1
    DEF ScanRemove, Truthful, WritersEncode, PreparingIsEncoding, At
<1>15. ~Restart
  BY <1>0 DEF Typed, Restart
<1>16. ASSUME UNCHANGED <<row, job, writing, loop>> PROVE Truthful'
  BY <1>0, <1>16 DEF Truthful, WritersEncode, PreparingIsEncoding, At
<1> QED
  BY <1>1, <1>2, <1>3, <1>4, <1>5, <1>6, <1>7, <1>8, <1>10, <1>11, <1>12, <1>13, <1>14,
     <1>15, <1>16 DEF Next, FileChanges, vars

\* For as long as one process lives, an asset that is stored as preparing is
\* being transcoded, forced rebuilds, late threads and scans included.
THEOREM PreparingIsTrue ==
  ASSUME MaxRestarts = 0
  PROVE  Spec => []PreparingMeansRunning
<1>1. Init => Truthful
  BY DEF Init, Truthful, WritersEncode, PreparingIsEncoding, FreeLoop
<1>2. Truthful => PreparingMeansRunning
  BY DEF Truthful, PreparingIsEncoding, PreparingMeansRunning, Encoding
<1> QED
  BY <1>1, <1>2, TruthfulStep, ShapeAlways, PTL DEF Spec

-----------------------------------------------------------------------------
(***************************************************************************)
(* No slot is lost or made up.                                             *)
(***************************************************************************)

FiniteHolders == IsFiniteSet(Holders)

\* The tasks at the head of a queue without repetitions are as many as asked for.
LEMMA HeadOfTheQueue ==
  ASSUME NEW q \in Seq(Jobs), NEW n \in 0..Len(q),
         \A k, l \in 1..Len(q) : q[k] = q[l] => k = l
  PROVE  /\ IsFiniteSet({q[k] : k \in 1..n})
         /\ Cardinality({q[k] : k \in 1..n}) = n
<1> DEFINE f == [k \in 1..n |-> q[k]]
           T == {q[k] : k \in 1..n}
<1>1. f \in [1..n -> T] /\ n \in Nat
  OBVIOUS
<1>2. \A k, l \in 1..n : f[k] = f[l] => k = l
  OBVIOUS
<1>3. \A t \in T : \E k \in 1..n : f[k] = t
  OBVIOUS
<1>4. f \in Bijection(1..n, T)
  <2> HIDE DEF f, T
  <2> QED
    BY <1>1, <1>2, <1>3 DEF Bijection, Injection, Surjection, IsInjective
<1>5. IsFiniteSet(1..n) /\ Cardinality(1..n) = n
  BY <1>1, FS_Interval
<1> HIDE DEF f, T
<1>6. IsFiniteSet(T) /\ Cardinality(T) = n
  BY <1>4, <1>5, FS_Bijection DEF ExistsBijection
<1> QED
  BY <1>6 DEF T

\* Who holds a slot after one was handed out: the others, the woken, and the
\* task itself if it goes on.
LEMMA HoldersAfterHandOut ==
  ASSUME Shape, FiniteHolders,
         NEW j \in Jobs, NEW to \in Job, NEW slots \in Nat, NEW most \in Nat,
         most <= slots, ~At(j, "waiting"), to.at \in {"encoding", "idle"},
         HandOut(j, to, slots, most)
  PROVE  /\ FiniteHolders'
         /\ to.at = "encoding" =>
              free' + Cardinality(Holders') = slots + Cardinality(Holders \ {j}) + 1
         /\ to.at = "idle" =>
              free' + Cardinality(Holders') = slots + Cardinality(Holders \ {j})
         /\ waiters' # <<>> => free' = slots - most
         /\ waiters' # <<>> /\ most > 0 => \E i \in Jobs : job'[i].at = "granted"
<1> DEFINE n == Lesser(most, Len(waiters))
           Woken == {waiters[k] : k \in 1..n}
           Rest == Holders \ {j}
<1>0. Typed /\ QueueOfTheWaiting
  BY DEF Shape
<1>1. n \in 0..Len(waiters) /\ n \in Nat /\ n <= most /\ Len(waiters) \in Nat
  BY <1>0 DEF Typed, Lesser
<1>2. free' = slots - n /\ free' \in Nat
  BY <1>1 DEF HandOut
<1>3. waiters' # <<>> => n = most
  BY <1>0, <1>1 DEF HandOut, Lesser, Typed
<1>4. IsFiniteSet(Woken) /\ Cardinality(Woken) = n
  BY <1>0, <1>1, HeadOfTheQueue DEF Typed, QueueOfTheWaiting
<1>5. \A i \in Woken : i \in Jobs /\ At(i, "waiting") /\ i # j
  BY <1>0, <1>1 DEF Typed, QueueOfTheWaiting
<1>6. job' = [i \in Jobs |->
               IF i = j THEN to
               ELSE IF i \in Woken THEN [job[i] EXCEPT !.at = "granted"]
               ELSE job[i]]
  BY DEF HandOut
<1>7. IsFiniteSet(Rest) /\ Cardinality(Rest) \in Nat
  BY FS_RemoveElement, FS_CardinalityType DEF FiniteHolders
<1>8. \A i \in Woken : job'[i].at = "granted"
  BY <1>0, <1>5, <1>6, LiveJobs DEF At
<1> HIDE DEF n, Woken
<1>9. \A i \in Jobs : i \in Holders' <=> job'[i].at \in {"granted", "encoding"}
  BY DEF Holders
<1>10. \A i \in Jobs \ {j} : i \in Holders' <=> i \in Rest \cup Woken
  <2>1. ASSUME NEW i \in Jobs \ {j}, i \in Woken PROVE i \in Holders'
    BY <1>8, <1>9, <2>1
  <2>2. ASSUME NEW i \in Jobs \ {j}, i \notin Woken PROVE i \in Holders' <=> i \in Rest
    BY <1>6, <1>9, <2>2 DEF Holders
  <2> QED
    BY <2>1, <2>2
<1>11. job'[j] = to
  BY <1>6
<1>12. Holders' \subseteq Jobs /\ Rest \subseteq Jobs /\ Woken \subseteq Jobs
  BY <1>5 DEF Holders
<1>13. Rest \cap Woken = {}
  BY <1>5 DEF Holders, At
<1>14. /\ IsFiniteSet(Rest \cup Woken)
       /\ Cardinality(Rest \cup Woken) = Cardinality(Rest) + n
  <2>1. Cardinality(Rest \cap Woken) = 0
    BY <1>13, FS_EmptySet
  <2> HIDE DEF Rest
  <2>2. /\ IsFiniteSet(Rest \cup Woken)
        /\ Cardinality(Rest \cup Woken)
             = Cardinality(Rest) + Cardinality(Woken) - Cardinality(Rest \cap Woken)
    BY <1>4, <1>7, FS_Union
  <2> QED
    BY <1>1, <1>4, <1>7, <2>1, <2>2
<1>15. waiters' # <<>> /\ most > 0 => \E i \in Jobs : job'[i].at = "granted"
  <2>1. ASSUME waiters' # <<>>, most > 0 PROVE Woken # {}
    BY <1>1, <1>3, <1>4, <2>1, FS_EmptySet
  <2> QED
    BY <1>8, <1>12, <2>1
<1>16. CASE to.at = "encoding"
  <2>1. Holders' = (Rest \cup Woken) \cup {j} /\ j \notin Rest \cup Woken
    BY <1>5, <1>9, <1>10, <1>11, <1>12, <1>16
  <2>2. IsFiniteSet(Holders') /\ Cardinality(Holders') = Cardinality(Rest) + n + 1
    BY <1>14, <2>1, FS_AddElement
  <2>3. free' + Cardinality(Holders') = slots + Cardinality(Rest) + 1
    BY <1>1, <1>2, <1>7, <2>2
  <2> QED
    BY <1>2, <1>3, <1>15, <1>16, <2>2, <2>3 DEF FiniteHolders
<1>17. CASE to.at = "idle"
  <2>1. Holders' = Rest \cup Woken
    BY <1>5, <1>9, <1>10, <1>11, <1>12, <1>17
  <2>2. IsFiniteSet(Holders') /\ Cardinality(Holders') = Cardinality(Rest) + n
    BY <1>14, <2>1
  <2>3. free' + Cardinality(Holders') = slots + Cardinality(Rest)
    BY <1>1, <1>2, <1>7, <2>2
  <2> QED
    BY <1>2, <1>3, <1>15, <1>17, <2>2, <2>3 DEF FiniteHolders
<1> QED
  BY <1>16, <1>17

\* The slots, the queue that waits for them, and that all this is finite.
Accounted == FiniteHolders /\ SlotsAddUp

\* A step that moves nobody into or out of the holders.
LEMMA SameHolders ==
  ASSUME Accounted, UNCHANGED <<free, waiters>>,
         \A i \in Jobs : job'[i].at = job[i].at
                         \/ {job[i].at, job'[i].at} \cap {"granted", "encoding"} = {}
  PROVE  Accounted'
<1>1. Holders' = Holders
  BY DEF Holders
<1>2. (\E i \in Jobs : At(i, "granted")) => (\E i \in Jobs : At(i, "granted"))'
  BY DEF At
<1> QED
  BY <1>1, <1>2 DEF Accounted, FiniteHolders, SlotsAddUp

LEMMA AccountedStep == Shape /\ Accounted /\ [Next]_vars => Accounted'
<1> SUFFICES ASSUME Shape, Accounted, [Next]_vars PROVE Accounted'
  OBVIOUS
<1>0. Typed /\ Stitching /\ FiniteHolders /\ SlotsAddUp /\ Cardinality(Holders) \in Nat
  BY FS_CardinalityType DEF Shape, Accounted, FiniteHolders
<1>01. \A j \in Jobs :
         Cardinality(Holders \ {j}) =
           IF j \in Holders THEN Cardinality(Holders) - 1 ELSE Cardinality(Holders)
  BY <1>0, FS_RemoveElement DEF FiniteHolders
<1>02. free \in Nat /\ MaxTranscodes \in Nat /\ free + Cardinality(Holders) = MaxTranscodes
  BY <1>0, CountsAreNumbers DEF SlotsAddUp, Typed
<1>1. ASSUME NEW m \in Media, NEW force \in ForceFlags, PrepareHls(m, force)
      PROVE  Accounted'
  <2>1. PICK j \in Jobs :
          /\ ~Live(j)
          /\ job' = [job EXCEPT ![j] = [at |-> "created", media |-> m, rung |-> 0]]
    BY <1>1 DEF PrepareHls
  <2>2. job[j].at = "idle" /\ job'[j].at = "created"
    BY <1>0, <2>1 DEF Live, At, Typed
  <2>3. \A i \in Jobs \ {j} : job'[i] = job[i]
    BY <1>0, <2>1 DEF Typed
  <2> QED
    BY <1>1, <2>2, <2>3, SameHolders DEF PrepareHls
<1>2. ASSUME NEW j \in Jobs, Wait(j) PROVE Accounted'
  <2>1. job[j].at = "created" /\ job'[j].at = "waiting"
    BY <1>0, <1>2, LiveJobs DEF Wait, At, Typed
  <2>2. \A i \in Jobs \ {j} : job'[i] = job[i]
    BY <1>0, <1>2 DEF Wait, Typed
  <2>3. Holders' = Holders
    BY <2>1, <2>2 DEF Holders
  <2>4. free = 0 \/ \E i \in Jobs : At(i, "granted")
    BY <1>0, <1>2 DEF Wait, SlotFree, SlotsAddUp, Typed
  <2>5. free' = 0 \/ \E i \in Jobs : job'[i].at = "granted"
    BY <1>2, <2>1, <2>2, <2>4 DEF Wait, At
  <2> QED
    BY <1>0, <1>2, <2>3, <2>5 DEF Wait, Accounted, FiniteHolders, SlotsAddUp, At
<1>3. ASSUME NEW j \in Jobs, Encode(j) PROVE Accounted'
  <2> DEFINE to == [job[j] EXCEPT !.at = "encoding", !.rung = 1]
  <2>1. HasSlot(j) /\ HandOut(j, to, Left(j), Left(j))
    BY <1>3 DEF Encode
  <2>2. Left(j) \in Nat /\ Left(j) <= Left(j) /\ ~At(j, "waiting")
    BY <2>1, SlotFacts
  <2>3. to \in Job /\ to.at = "encoding"
    BY <1>3, EncodeFacts
  <2>4. Left(j) + Cardinality(Holders \ {j}) + 1 = MaxTranscodes
    <3>1. CASE At(j, "granted")
      <4>1. j \in Holders /\ Left(j) = free
        BY <3>1 DEF Holders, Left, At
      <4> QED
        BY <1>0, <1>01, <1>02, <4>1
    <3>2. CASE At(j, "created") /\ SlotFree
      <4>1. j \notin Holders /\ Left(j) = free - 1
        BY <3>2 DEF Holders, Left, At
      <4> QED
        BY <1>0, <1>01, <1>02, <4>1
    <3> QED
      BY <2>1, <3>1, <3>2 DEF HasSlot
  <2> HIDE DEF to
  <2>5. /\ FiniteHolders'
        /\ free' + Cardinality(Holders') = Left(j) + Cardinality(Holders \ {j}) + 1
        /\ waiters' # <<>> => free' = Left(j) - Left(j)
    BY <1>0, <2>1, <2>2, <2>3, HoldersAfterHandOut
  <2> QED
    BY <2>2, <2>4, <2>5 DEF Accounted, SlotsAddUp
<1>4. ASSUME NEW j \in Jobs, Refuse(j) PROVE Accounted'
  <2>1. HasSlot(j) /\ HandOut(j, Idle, Left(j) + 1, Left(j) + 1)
    BY <1>4 DEF Refuse
  <2>2. /\ Left(j) \in Nat /\ Left(j) + 1 \in Nat /\ Left(j) + 1 <= Left(j) + 1
        /\ ~At(j, "waiting")
    BY <2>1, SlotFacts
  <2>3. Idle \in Job /\ Idle.at = "idle"
    BY DEF Job, Idle
  <2>4. Left(j) + 1 + Cardinality(Holders \ {j}) = MaxTranscodes
    <3>1. CASE At(j, "granted")
      <4>1. j \in Holders /\ Left(j) = free
        BY <3>1 DEF Holders, Left, At
      <4> QED
        BY <1>0, <1>01, <1>02, <4>1
    <3>2. CASE At(j, "created") /\ SlotFree
      <4>1. j \notin Holders /\ Left(j) = free - 1
        BY <3>2 DEF Holders, Left, At
      <4> QED
        BY <1>0, <1>01, <1>02, <4>1
    <3> QED
      BY <2>1, <3>1, <3>2 DEF HasSlot
  <2>5. /\ FiniteHolders'
        /\ free' + Cardinality(Holders') = Left(j) + 1 + Cardinality(Holders \ {j})
        /\ waiters' # <<>> => free' = (Left(j) + 1) - (Left(j) + 1)
    BY <1>0, <2>1, <2>2, <2>3, HoldersAfterHandOut
  <2> QED
    BY <2>2, <2>4, <2>5 DEF Accounted, SlotsAddUp
<1>5. ASSUME NEW j \in Jobs, At(j, "encoding"), End(j) PROVE Accounted'
  <2>1. /\ HandOut(j, Idle, free + 1, 1) /\ ~At(j, "waiting")
        /\ free + 1 \in Nat /\ 1 \in Nat /\ 1 <= free + 1 /\ 1 > 0
        /\ Idle \in Job /\ Idle.at = "idle"
    BY <1>0, <1>5 DEF End, At, Typed, Job, Idle
  <2>2. j \in Holders
    BY <1>5 DEF Holders, At
  <2>3. free + 1 + Cardinality(Holders \ {j}) = MaxTranscodes
    BY <1>0, <1>01, <1>02, <2>2
  <2>4. /\ FiniteHolders'
        /\ free' + Cardinality(Holders') = free + 1 + Cardinality(Holders \ {j})
        /\ waiters' # <<>> => \E i \in Jobs : job'[i].at = "granted"
    BY <1>0, <2>1, HoldersAfterHandOut
  <2> QED
    BY <2>3, <2>4 DEF Accounted, SlotsAddUp, At
<1>6. ASSUME NEW j \in Jobs, NextRung(j) PROVE Accounted'
  <2>1. \A i \in Jobs : job'[i].at = job[i].at
    BY <1>0, <1>6, LiveJobs DEF NextRung, FfmpegExited, At, Typed
  <2> QED
    BY <1>6, <2>1, SameHolders DEF NextRung
<1>7. CASE Restart
  <2>1. Holders' = {} /\ waiters' = <<>> /\ free' = MaxTranscodes
    BY <1>7 DEF Restart, Holders, Idle
  <2> QED
    BY <2>1, FS_EmptySet, CountsAreNumbers DEF Accounted, FiniteHolders, SlotsAddUp
<1>8. ASSUME UNCHANGED <<job, free, waiters>> PROVE Accounted'
  BY <1>8, SameHolders
<1>9. ASSUME NEW j \in Jobs, MarkReady(j) PROVE Accounted'
  BY <1>0, <1>5, <1>9 DEF MarkReady, Stitching
<1>10. ASSUME NEW j \in Jobs, Fail(j) PROVE Accounted'
  BY <1>5, <1>10 DEF Fail, FfmpegExited
<1> QED
  BY <1>1, <1>2, <1>3, <1>4, <1>6, <1>7, <1>8, <1>9, <1>10
  DEF Next, ReportProgress, WriteProgress, Stitch, ScanRead, ScanWrite, ScanRemove,
      FileChanges, vars

LEMMA AccountedAlways == Spec => []Accounted
<1>1. Init => Accounted
  <2>1. Init => Holders = {} /\ waiters = <<>> /\ free = MaxTranscodes
    BY DEF Init, Holders, Idle
  <2> QED
    BY <2>1, FS_EmptySet, CountsAreNumbers DEF Accounted, FiniteHolders, SlotsAddUp
<1> QED
  BY <1>1, AccountedStep, ShapeAlways, PTL DEF Spec

\* Never more than MaxTranscodes transcodes run, no way out of a task keeps a
\* slot or gives back two, and nobody sleeps while a slot is free.
THEOREM SlotsAreAccountedFor == Spec => []SlotsAddUp
BY AccountedAlways, PTL DEF Accounted

\* Every reachable state is well typed; the semaphore's value stays within its
\* limit because the slots add up.
THEOREM TypeCorrect == Spec => []TypeOK
<1>1. Shape /\ Accounted => TypeOK
  <2> SUFFICES ASSUME Shape, Accounted PROVE TypeOK
    OBVIOUS
  <2>1. Cardinality(Holders) \in Nat
    BY FS_CardinalityType DEF Accounted, FiniteHolders
  <2>2. free \in 0..MaxTranscodes
    BY <2>1, CountsAreNumbers DEF Shape, Typed, Accounted, SlotsAddUp
  <2> QED
    BY <2>2 DEF Shape, Typed, TypeOK
<1> QED
  BY <1>1, ShapeAlways, AccountedAlways, PTL
=============================================================================
