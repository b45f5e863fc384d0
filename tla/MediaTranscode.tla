---------------------------- MODULE MediaTranscode ----------------------------
(***************************************************************************)
(* HLS preparation (app/services/media_transcode.py) of the assets of the  *)
(* media library: the request handler, the _prepare tasks it starts, the   *)
(* semaphore they queue for, the thread that writes their progress, and    *)
(* the library scan (app/services/media_library.py) that rewrites the same *)
(* rows.                                                                   *)
(*                                                                         *)
(* Handlers and tasks share one event loop and give it up only where they  *)
(* await.  Two things run beside a step of the loop and are interleaved    *)
(* with it: the progress thread's write, and the end of the process.  So a *)
(* scan (which probes the file, reads the row and writes the row) and the  *)
(* end of a transcode (which writes the playlist, then the row) take two   *)
(* steps, and `loop` says which of them the loop is in the middle of.      *)
(*                                                                         *)
(* A lookup of an asset that has no row scans the library first; that is a *)
(* scan step before the lookup.  The route rejects an asset that cannot be *)
(* watched before prepare_hls sees it, so prepare_hls's own refusal of one *)
(* has nothing left to change.                                             *)
(***************************************************************************)
EXTENDS Naturals, Sequences, FiniteSets

CONSTANTS
  Media,           \* media ids
  Jobs,            \* identities of the _prepare tasks
  MaxTranscodes,   \* _MAX_CONCURRENT_TRANSCODES
  Rungs,           \* how many rungs of the ABR ladder _pick_rungs keeps
  ForceFlags,      \* the values of the force flag that requests carry
  MaxRestarts,     \* bound: how often the process is started again
  NoRow, NoTask    \* the absence of a row, of a registered task

ASSUME CountsAreNumbers ==
  MaxTranscodes \in Nat \ {0} /\ Rungs \in Nat \ {0} /\ MaxRestarts \in Nat
ASSUME ForceIsAFlag == ForceFlags \subseteq BOOLEAN
ASSUME NoTaskIsNoJob == NoTask \notin Jobs

Statuses == {"missing", "queued", "preparing", "ready", "error"}
Probes   == {"ready", "failed", "unavailable"}

Row == [hls : Statuses, probe : Probes]

\* A task: where it stands, for which asset, at which rung of the ladder.
Idle == [at |-> "idle"]
Job  == {Idle} \cup
        [at : {"created", "waiting", "granted", "encoding"}, media : Media, rung : 0..Rungs]

\* What the loop is in the middle of.
FreeLoop == [doing |-> "nothing"]
Loop == {FreeLoop}
        \cup [doing : {"scan"}, media : Media, hls : Statuses]
        \cup [doing : {"stitch"}, job : Jobs]

VARIABLES
  row,        \* media_assets, as far as HLS is concerned
  onDisk,     \* the source file exists
  master,     \* index.m3u8 exists in the asset's output directory
  tasks,      \* _transcode_tasks
  job,        \* the _prepare tasks
  free,       \* the value of the semaphore
  waiters,    \* the tasks that sleep until it has one, oldest first
  writing,    \* progress threads that have not written yet: task and asset
  loop,       \* what the event loop is in the middle of
  restarts    \* how often the process was started again

vars == <<row, onDisk, master, tasks, job, free, waiters, writing, loop, restarts>>

LoopIsFree == loop = FreeLoop

At(j, place) == job[j].at = place
Live(j) == ~At(j, "idle")

\* update_media_hls_status: it does nothing without a row.
SetStatus(m, status) ==
  row' = IF row[m] = NoRow THEN row ELSE [row EXCEPT ![m].hls = status]

-----------------------------------------------------------------------------
(***************************************************************************)
(* The request.                                                            *)
(***************************************************************************)

\* A bug the checks must notice: a running task does not stop a second one.
WantedUnregistered(m, force) ==
  /\ row[m] # NoRow /\ row[m].probe # "failed"
  /\ force \/ ~(row[m].hls = "ready" /\ master[m])

\* prepare_hls gets past its early returns.
Wanted(m, force) ==
  /\ row[m] # NoRow /\ row[m].probe # "failed"
  /\ force \/ ~(row[m].hls = "ready" /\ master[m])
  /\ force \/ tasks[m] = NoTask

\* POST /{media_id}/prepare.  A forced request replaces the registered task
\* and leaves the task itself alone.
PrepareHls(m, force) ==
  /\ LoopIsFree
  /\ Wanted(m, force)
  /\ SetStatus(m, "queued")
  /\ \E j \in Jobs :
       /\ ~Live(j)
       /\ job' = [job EXCEPT ![j] = [at |-> "created", media |-> m, rung |-> 0]]
       /\ tasks' = [tasks EXCEPT ![m] = j]
  /\ UNCHANGED <<onDisk, master, free, waiters, writing, loop, restarts>>

-----------------------------------------------------------------------------
(***************************************************************************)
(* The task: _prepare and _run_ffmpeg.                                     *)
(***************************************************************************)

Lesser(a, b) == IF a < b THEN a ELSE b

\* asyncio.Semaphore: j goes on as `to`, `slots` slots are free, and up to
\* `most` of the tasks that wait for one are woken with theirs, oldest first.
HandOut(j, to, slots, most) ==
  LET n == Lesser(most, Len(waiters)) IN
  /\ free' = slots - n
  /\ waiters' = SubSeq(waiters, n + 1, Len(waiters))
  /\ job' = [i \in Jobs |->
               IF i = j THEN to
               ELSE IF \E k \in 1..n : waiters[k] = i
                 THEN [job[i] EXCEPT !.at = "granted"]
               ELSE job[i]]

\* A bug the checks must notice: the slot goes back and nobody is woken.
EndWithoutWaking(j) == HandOut(j, Idle, free + 1, 0)

\* The task is over: release() wakes one.
End(j) == HandOut(j, Idle, free + 1, 1)

\* The finally clause: whatever task is registered for the asset goes.
Unregister(j) == tasks' = [tasks EXCEPT ![job[j].media] = NoTask]

\* locked() is false: a task that was woken and has not run is still queued.
SlotFree == free > 0 /\ waiters = <<>> /\ ~\E j \in Jobs : At(j, "granted")

\* The slots left when acquire() returns to j.
Left(j) == IF At(j, "created") THEN free - 1 ELSE free

\* The task's first step, when it must wait for a slot.
Wait(j) ==
  /\ LoopIsFree
  /\ At(j, "created")
  /\ ~SlotFree
  /\ SetStatus(job[j].media, "queued")
  /\ job' = [job EXCEPT ![j].at = "waiting"]
  /\ waiters' = Append(waiters, j)
  /\ UNCHANGED <<onDisk, master, tasks, free, writing, loop, restarts>>

\* The task holds a slot, by its first step or by a waiter's wake-up.
HasSlot(j) == At(j, "granted") \/ (At(j, "created") /\ SlotFree)

\* A file without a row is scanned by the task's lookup before it goes on.
Known(m) == row[m] # NoRow \/ ~onDisk[m]

Encodable(m) == row[m] # NoRow /\ row[m].probe # "failed" /\ onDisk[m]

\* The output directory is emptied and the first ffmpeg started.
Encode(j) ==
  LET m == job[j].media IN
  /\ LoopIsFree
  /\ HasSlot(j)
  /\ Encodable(m)
  /\ SetStatus(m, "preparing")
  /\ master' = [master EXCEPT ![m] = FALSE]
  /\ HandOut(j, [job[j] EXCEPT !.at = "encoding", !.rung = 1], Left(j), Left(j))
  /\ UNCHANGED <<onDisk, tasks, writing, loop, restarts>>

\* A bug the checks must notice: the slot is not given back.
RefuseKeepingSlot(j) ==
  /\ LoopIsFree
  /\ HasSlot(j)
  /\ Known(job[j].media) /\ ~Encodable(job[j].media)
  /\ SetStatus(job[j].media, "error")
  /\ Unregister(j)
  /\ HandOut(j, Idle, Left(j), Left(j))
  /\ UNCHANGED <<onDisk, master, writing, loop, restarts>>

\* A bug the checks must notice: a slot is given back that was never taken.
RefuseReleasing(j) ==
  /\ LoopIsFree
  /\ HasSlot(j)
  /\ Known(job[j].media) /\ ~Encodable(job[j].media)
  /\ SetStatus(job[j].media, "error")
  /\ Unregister(j)
  /\ HandOut(j, Idle, free + 1, free + 1)
  /\ UNCHANGED <<onDisk, master, writing, loop, restarts>>

\* The asset has gone, cannot be watched, or has no source file any more.
Refuse(j) ==
  /\ LoopIsFree
  /\ HasSlot(j)
  /\ Known(job[j].media) /\ ~Encodable(job[j].media)
  /\ SetStatus(job[j].media, "error")
  /\ Unregister(j)
  /\ HandOut(j, Idle, Left(j) + 1, Left(j) + 1)
  /\ UNCHANGED <<onDisk, master, writing, loop, restarts>>

Writing(j) == \E m \in Media : <<j, m>> \in writing

\* _consume_progress hands a percentage to a thread, and awaits it.
ReportProgress(j) ==
  /\ LoopIsFree
  /\ At(j, "encoding")
  /\ ~Writing(j)
  /\ writing' = writing \cup {<<j, job[j].media>>}
  /\ UNCHANGED <<row, onDisk, master, tasks, job, free, waiters, loop, restarts>>

\* The thread writes.  It does not wait for the loop.
WriteProgress(j, m) ==
  /\ <<j, m>> \in writing
  /\ writing' = writing \ {<<j, m>>}
  /\ SetStatus(m, "preparing")
  /\ UNCHANGED <<onDisk, master, tasks, job, free, waiters, loop, restarts>>

\* A bug the checks must notice: ffmpeg's exit does not wait for the thread.
FfmpegExitedAlone(j) == At(j, "encoding")

\* ffmpeg has exited and both of its pipes are drained.
FfmpegExited(j) == At(j, "encoding") /\ ~Writing(j)

NextRung(j) ==
  /\ LoopIsFree
  /\ FfmpegExited(j)
  /\ job[j].rung < Rungs
  /\ job' = [job EXCEPT ![j].rung = @ + 1]
  /\ UNCHANGED <<row, onDisk, master, tasks, free, waiters, writing, loop, restarts>>

\* A bug the checks must notice: the row says ready before the playlist exists.
StitchAfterwards(j) ==
  /\ LoopIsFree
  /\ FfmpegExited(j)
  /\ job[j].rung = Rungs
  /\ SetStatus(job[j].media, "ready")
  /\ loop' = [doing |-> "stitch", job |-> j]
  /\ UNCHANGED <<onDisk, master, tasks, job, free, waiters, writing, restarts>>

\* The last rung is done: the master playlist is written ...
Stitch(j) ==
  /\ LoopIsFree
  /\ FfmpegExited(j)
  /\ job[j].rung = Rungs
  /\ master' = [master EXCEPT ![job[j].media] = TRUE]
  /\ loop' = [doing |-> "stitch", job |-> j]
  /\ UNCHANGED <<row, onDisk, tasks, job, free, waiters, writing, restarts>>

\* ... then the row says so, and the task ends.
MarkReady(j) ==
  /\ loop = [doing |-> "stitch", job |-> j]
  /\ SetStatus(job[j].media, "ready")
  /\ Unregister(j)
  /\ End(j)
  /\ loop' = FreeLoop
  /\ UNCHANGED <<onDisk, master, writing, restarts>>

\* ffmpeg failed, or left no playlist, or something raised.
Fail(j) ==
  /\ LoopIsFree
  /\ FfmpegExited(j)
  /\ SetStatus(job[j].media, "error")
  /\ Unregister(j)
  /\ End(j)
  /\ UNCHANGED <<onDisk, master, writing, loop, restarts>>

-----------------------------------------------------------------------------
(***************************************************************************)
(* The library scan, the files, the process.                               *)
(***************************************************************************)

\* scan_library comes to a file it must analyse; it reads the row.
ScanRead(m) ==
  /\ LoopIsFree
  /\ onDisk[m]
  /\ loop' = [doing |-> "scan", media |-> m,
              hls |-> IF row[m] = NoRow THEN "missing" ELSE row[m].hls]
  /\ UNCHANGED <<row, onDisk, master, tasks, job, free, waiters, writing, restarts>>

\* The scan that a task's lookup makes when it finds no row.
LookUp(j) == HasSlot(j) /\ row[job[j].media] = NoRow /\ ScanRead(job[j].media)

\* What _analyze_media makes of the status it read.
StatusAfter(probe, hls) ==
  CASE probe = "failed" -> "error"
    [] probe = "ready" /\ hls = "error" -> "missing"
    [] OTHER -> hls

\* The probe is over; upsert_media_asset replaces the row.
ScanWrite(m) ==
  /\ loop.doing = "scan" /\ loop.media = m
  /\ \E probe \in Probes :
       row' = [row EXCEPT ![m] = [hls |-> StatusAfter(probe, loop.hls), probe |-> probe]]
  /\ loop' = FreeLoop
  /\ UNCHANGED <<onDisk, master, tasks, job, free, waiters, writing, restarts>>

\* delete_missing_media_assets, unless the whole disk looks empty.
ScanRemove(m) ==
  /\ LoopIsFree
  /\ row[m] # NoRow /\ ~onDisk[m]
  /\ \E n \in Media : onDisk[n]
  /\ row' = [row EXCEPT ![m] = NoRow]
  /\ UNCHANGED <<onDisk, master, tasks, job, free, waiters, writing, loop, restarts>>

\* A download puts a file into the library; somebody deletes one.
FileChanges(m) ==
  /\ onDisk' = [onDisk EXCEPT ![m] = ~@]
  /\ UNCHANGED <<row, master, tasks, job, free, waiters, writing, loop, restarts>>

\* The process ends and starts again; the rows and the files are what is left.
Restart ==
  /\ restarts < MaxRestarts
  /\ restarts' = restarts + 1
  /\ tasks' = [m \in Media |-> NoTask]
  /\ job' = [j \in Jobs |-> Idle]
  /\ free' = MaxTranscodes
  /\ waiters' = <<>>
  /\ writing' = {}
  /\ loop' = FreeLoop
  /\ UNCHANGED <<row, onDisk, master>>

-----------------------------------------------------------------------------
Init ==
  /\ row = [m \in Media |-> NoRow]
  /\ onDisk = [m \in Media |-> TRUE]
  /\ master = [m \in Media |-> FALSE]
  /\ tasks = [m \in Media |-> NoTask]
  /\ job = [j \in Jobs |-> Idle]
  /\ free = MaxTranscodes
  /\ waiters = <<>>
  /\ writing = {}
  /\ loop = FreeLoop
  /\ restarts = 0

Next ==
  \/ \E m \in Media, force \in ForceFlags : PrepareHls(m, force)
  \/ \E j \in Jobs : Wait(j)
  \/ \E j \in Jobs : Encode(j)
  \/ \E j \in Jobs : Refuse(j)
  \/ \E j \in Jobs : ReportProgress(j)
  \/ \E j \in Jobs, m \in Media : WriteProgress(j, m)
  \/ \E j \in Jobs : NextRung(j)
  \/ \E j \in Jobs : Stitch(j)
  \/ \E j \in Jobs : MarkReady(j)
  \/ \E j \in Jobs : Fail(j)
  \/ \E m \in Media : ScanRead(m)
  \/ \E m \in Media : ScanWrite(m)
  \/ \E m \in Media : ScanRemove(m)
  \/ \E m \in Media : FileChanges(m)
  \/ Restart

Spec == Init /\ [][Next]_vars

\* The steps of one task; where the task stands decides which of them it is.
TaskStep(j) == \/ Wait(j) \/ Encode(j) \/ Refuse(j)
               \/ NextRung(j) \/ Stitch(j) \/ MarkReady(j) \/ Fail(j)

\* The loop gets to every task that can go on, however often a scan blocks it
\* (strong fairness: each scan disables the task for a while); ffmpeg comes to
\* an end; a scan and a thread finish.
FairSpec ==
  /\ Spec
  /\ \A j \in Jobs :
       /\ SF_vars(TaskStep(j))
       /\ SF_vars(LookUp(j))
       /\ WF_vars(\E m \in Media : WriteProgress(j, m))
  /\ WF_vars(\E m \in Media : ScanWrite(m))

-----------------------------------------------------------------------------
(***************************************************************************)
(* Properties.                                                             *)
(***************************************************************************)

TypeOK ==
  /\ row \in [Media -> Row \cup {NoRow}]
  /\ onDisk \in [Media -> BOOLEAN]
  /\ master \in [Media -> BOOLEAN]
  /\ tasks \in [Media -> Jobs \cup {NoTask}]
  /\ job \in [Jobs -> Job]
  /\ free \in 0..MaxTranscodes
  /\ waiters \in Seq(Jobs)
  /\ writing \subseteq Jobs \X Media
  /\ loop \in Loop
  /\ restarts \in 0..MaxRestarts

Holders == {j \in Jobs : job[j].at \in {"granted", "encoding"}}

\* No slot of the semaphore is lost or made up on any path out of a task, so
\* never more than MaxTranscodes transcodes run, and no task sleeps while a slot
\* is free, unless another was woken that will hand it on.
SlotsAddUp ==
  /\ free + Cardinality(Holders) = MaxTranscodes
  /\ waiters # <<>> => free = 0 \/ \E j \in Jobs : At(j, "granted")

\* An asset the library calls ready has a master playlist to play, whatever
\* forced rebuilds, scans and restarts came in between.
ReadyHasAMaster ==
  \A m \in Media : row[m] # NoRow /\ row[m].hls = "ready" => master[m]

Encoding(m) == \E j \in Jobs : At(j, "encoding") /\ job[j].media = m

\* app/services/media_transcode.py:499: "Reflect queue position in the stored
\* state so the UI can distinguish 'queued behind other jobs' from 'currently
\* running'": while the process lasts (MaxRestarts = 0), an asset that is stored
\* as preparing is being transcoded, however late the progress thread writes
\* and whatever status a scan copied.
PreparingMeansRunning ==
  \A m \in Media : row[m] # NoRow /\ row[m].hls = "preparing" => Encoding(m)

\* While nobody asks for a forced rebuild, an asset has one task at most, and
\* the files of a ready asset are not being written.
OneTaskPerAsset ==
  /\ \A j, k \in Jobs : Live(j) /\ Live(k) /\ job[j].media = job[k].media => j = k
  /\ \A m \in Media :
       row[m] # NoRow /\ row[m].hls = "ready" => ~Encoding(m)

\* Nobody is queued for ever: not behind a task that failed, not behind an
\* asset that vanished, and not behind the library's scans.
QueuedAssetsGetTheirTurn ==
  \A m \in Media :
    row[m] # NoRow /\ row[m].hls = "queued"
      ~> row[m] = NoRow \/ row[m].hls # "queued"
=============================================================================
