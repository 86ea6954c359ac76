# A TLA+ model of boda-backend

`boda-backend` watches video streams of construction sites. SRS (an RTMP server) cuts each stream into
HLS segments and calls the Go program in `streaming/`, which extracts an image of every segment, has it
classified by an AI server, records a video of what was classified as an accident, and reports accidents to
the NestJS program in `api/`, which keeps them in a database and notifies users. This directory holds TLA+
modules of that system, TLC configurations that check them on small instances, and proofs for TLAPS.

    tlc -workers 2 -config MCProcessTask.cfg MCProcessTask      # model-check
    tlapm ProcessTaskProofs.tla                                 # check its proofs

and likewise for the other `MC*` and `*Proofs` modules.

## Inventory

| Component | State | Operations | Talks to |
|---|---|---|---|
| **DetectWorker** `streaming/detect.go` | channels `msgs`, `tsfiles` (1024), map of workers | on_hls message: copy the TS file; a goroutine per message hands it on; create or find the worker of the stream | SRS hooks, ProcessWorker |
| **ProcessTask** `streaming/process.go` | channel `tsfiles`, three queues, save signal, files, redis `PROCESS_TASK` | receive, extract image, detect, finish, dispose, save | DetectWorker, AI server, ffmpeg, AccidentWorker, redis |
| **AccidentWorker** `streaming/accident.go` | channels, map of active recordings, messages and file list of each, files, redis `..._WORKING`, `..._ARTIFACT` | copy, find or create the recording, move files into it, finish it as mp4, call the API at both ends | ProcessTask, API, redis, ffmpeg |
| **SRS hooks** `streaming/srs-hooks.go` | redis `SRS_STREAM_ACTIVE`, counters | publish, unpublish, play, on_hls | SRS, API streams, DetectWorker |
| **HTTP service, main** `streaming/service.go`, `main.go` | two servers, contexts, wait groups | start, serve, shut down, forced exit | everything in the program |
| **Playlists** `streaming/utils.go` | none | build the live and the VoD m3u8 | ProcessTask, AccidentWorker |
| **API accidents, notifications** `api/src/module/accident`, `notification` | rows of accidents and notifications | start (save, notify), end, update, delete | AccidentWorker, Firebase |
| **API streams** `api/src/module/stream` | status IDLE or LIVE of each stream | verify, end, create, update, delete | SRS hooks |
| **API rest** | users, places | one database call each | |

What makes each part correct, and what is hard about it:

* **ProcessTask.** Six goroutines per stream work on three queues and one lock. Segments must go through in
  their order, none may be dropped or processed twice, the files a queue refers to must exist and those it
  no longer refers to must not, the queues stay bounded, and redis must get the task in the end. Hard:
  each driver keeps a segment in a local variable over long external calls and takes the lock only
  afterwards; hand-overs are not all atomic; the save runs concurrently and signals coalesce; failed tools
  are retried from the start.
* **AccidentWorker.** Two goroutines and one per recording share the map and the recordings. Every reported
  segment must be in exactly one recording, in order, and the finished artifact must list what is in the
  video. Hard: the builder finds an object and adds to it in separate steps while `finishM3u8` removes it;
  a conversion takes long and may fail; redis calls may fail or be interrupted by a restart.
* **DetectWorker.** Per-stream order over asynchronous hand-overs; one stream must not stop the others.
* **Hooks and API streams.** `SRS_STREAM_ACTIVE`, kept per URL, and the status, kept per key, agree with what SRS
  publishes, in spite of overlapping connections and failures between the two writes.
* **HTTP service.** After a signal the program ends, its workers are closed before `doMain` returns, and a
  server that fails is reported. Hard: two servers share one context, watchers wait for it, and recordings start
  while `Close` waits for the group they belong to.
* **API accidents and notifications.** What the API answers is and stays what the database holds, and
  `is_sent` tells which push was accepted. Hard: the accident is saved in one transaction and the notifications in
  another, with a call to Firebase inside it, while rows are deleted, devices register and either program restarts.

`PROJECT.json` lists every component with its status, and under `hazards` the places in the code, line by
line, with the properties that watch them.

## Modules

| Module | What it is |
|---|---|
| `SegmentFifo` | abstract: what one stream's task promises, a FIFO that keeps a window of segments for players |
| `ProcessTask` | the task of one stream, its goroutines, files and redis record; implements `SegmentFifo` |
| `MCProcessTask` + 2 `.cfg` | its instances for TLC |
| `ProcessTaskProofs` | theorems about `ProcessTask` for all values of its constants: order, bounds, redis, reports |
| `ProcessTaskFifoProofs` | theorems about its files and losses, and that it implements `SegmentFifo` |
| `AccidentWorker` | copier, builder and recordings of one stream and category |
| `MCAccidentWorker` + 3 `.cfg` | its instances for TLC |
| `AccidentWorkerProofs` | theorems about `AccidentWorker` |
| `DetectWorker` | ingestion of all streams, up to the channel of each `ProcessTask` |
| `MCDetectWorker` + 2 `.cfg` | its instances for TLC |
| `DetectWorkerProofs` | theorems about `DetectWorker` |
| `StreamHooks` | on_publish and on_unpublish, the API's stream status, `SRS_STREAM_ACTIVE` |
| `MCStreamHooks` + `.cfg` | its instance for TLC |
| `StreamHooksProofs` | theorems about `StreamHooks` |
| `FinishPlaylist` | the array behind the finish queue and the playlist handler that reads it |
| `MCFinishPlaylist` + `.cfg` | its instance for TLC |
| `FinishPlaylistProofs` | theorems about `FinishPlaylist` |
| `AccidentApi` | callbacks of the recordings, the API's handlers, the tables and Firebase |
| `MCAccidentApi` + `.cfg` | its instance for TLC |
| `AccidentApiProofs` | theorems about `AccidentApi` |
| `Shutdown` | how the Go program starts, serves and ends |
| `MCShutdown` + 2 `.cfg` | its instances for TLC |
| `ShutdownProofs` | theorems about `Shutdown` |

How they fit together: `DetectWorker` ends where `ProcessTask` begins (`Enter` there is `Arrive` and `ReceiveTs` here).
`ProcessTask` ends where `AccidentWorker` begins (`AddAccident` there is `OnAccidentAdded` here).
`AccidentWorker.CallbackBegin` and `CallbackEnd` are taken apart in `AccidentApi` (`Begin`, `Begun`, `End`), for several recordings at once.
`Shutdown` holds the goroutines of both workers together, reduced to when they start and stop.
`FinishPlaylist` takes the finish queue of `ProcessTask`, whose order is proved there, down to the memory it lives in.
Each module treats its neighbours as environments that may act at any time.

### ProcessTask

`tsfiles`, `live`, `detect`, `finish` are the channel and the three queues; a segment is the number it got
on arrival. `pc` and `seg` hold, for each goroutine, where it is and which segment its local variable
`segment` names. One action is what the code does between two points where another goroutine can
interfere: a queue operation (`ProcessQueue.lock`), a critical section of `ProcessTask.lock`, an external
command with its outcome. `ProcessTask.lock` is held across steps only by `saveTask`, so the other
critical sections are single actions guarded by `LockFree`. `json.Marshal` reads the queues one after the
other (`MarshalLive`, `MarshalDetect`, `MarshalFinish`): the writers that do not take the lock
can interleave. The drop branches of the drivers, which signal no save, set the history variable `stale`, as
a failed HSET does.

Abstracted: contents of segments, images and boxes (a number of boxes per image); the 10 s and 200 ms
pauses (any interleaving); `FixQueue`, which is always empty; the thumbnail; the stop of the
context. When the second ffmpeg of `Extract` fails, the image of the first one may stay under a name that is never
used again ("TODO: FIXME: Cleanup the failed file.", `process.go:743`): `orphans` remembers the segments this
happened to, and `NoFileLeak` says that only a failing tool or a file that the environment removed leads there. Actions `Arrive` and `ReceiveAccident`/`CopyEvidence` stand for the neighbours.

`SegmentFifo` says the same from outside: accept in order, retire the oldest when more than
`MaxFinish` are held, skip one that lost a file. `ImplementsFifo` instantiates it with
`Pipeline`, the concatenation of the queues and the segments in goroutines' hands.

### AccidentWorker

Copier, builder and one `Run` goroutine per object, numbered by creation. `streams` is the value of
the map under the one URL; `messages`, `aged`, `batch`, `files` the fields and local variables of the
objects; `tmp`, `recorded`, `mp4` the files; `working` and `artifact` the redis hashes. A redis write is
applied, or fails after being applied or not (`Write`). Time is `aged`: 30 seconds may pass whenever
nothing refreshes `Update`. The source segment of a message can be disposed of at any time, so `cp` and the
`os.Stat` after it may fail; the copy, or a piece of it, may then stay in `tmp`. `Crash` is an exit at any point followed by a start, which loads nothing. The
answers of the API are ignored by the code and change only `rows`. The history variable `overtaken` holds the
objects that were created while an older one of the URL had left the map but not yet deleted its redis record; `late` holds
the messages that were added to an object which had begun to finish: those that `Cleanup` finds are deleted with their
files, those added after it stay with theirs, and both are lost unless the conversion fails and the object records again. The
goroutines' end at a shutdown is `Shutdown`; as far as files and redis go, it is a `Crash`, or
a failure of the call it interrupts.

Other URLs have objects of their own and share the copier and the builder only.

### DetectWorker

`msgs` and `tsfiles` are the channels; `copier` and `router` the two goroutines with the message in their
hands; `senders` the files whose hand-over goroutine has not sent yet. `workers` says what became of
the worker of each stream: not in the map, stored without goroutines because its directory could not be
created, running, or stopped by the cancel. `queue` is the channel of each worker, `entered` what its task
got. `late` remembers which files a newer one of the same stream overtook while both waited to be sent. Every
`select` with `ctx.Done()` gives up its file when the context is cancelled (`gone`). The properties look at the line
`Sent(s)`: what the worker of `s` got and what is on the way to it, with the files of other streams in between as long
as the router has not taken them.

### StreamHooks

A connection goes through the steps of its hooks: `find` and `setLive` in the API (`findOne` and
`update` are two statements, and the row may be deleted in between), `hset`, `count`, then `accepted`; later `hdel`,
`endFind`, `setIdle`. Each call may fail, before or after it took effect, and the handler returns there without
undoing anything. A connection has an application and a stream key. Redis is keyed by `StreamURL`, `[vhost/]app/stream`
(`srs-hooks.go:101`, `utils.go:327`), the row of the API by the stream key alone (`srs-hooks.go:96`, `123`): `active`
and `srs` are over URLs, `status` is over keys.

SRS is external, and nothing in the repository says what it does beyond calling the hooks. Here it publishes a URL for
one connection at a time, and turns others away; an accepted connection that was turned away (`away`) may or may not be
followed by on_unpublish, so the model does both. The handler cannot tell it from the publisher's. The history
variable `overlapped` holds the streams of which a connection ended (its on_unpublish began or was in progress) while
another one, of whatever URL, began or published.

### FinishPlaylist

`arrays` are the arrays that `append` has used, `len` the length of the queue's view of the last one, `reader`
the view that `finishSegments` returned and what was read through it. A dequeue holds the locks and moves
the cells one at a time, in any order, because `memmove` promises none; the reader takes no lock.
`Tags` and `BuildLive` are `buildLiveM3u8ForLocal`, reduced to the media sequence, the files and
the discontinuity tags. A segment is known by its place among those the queue got, which orders cells and playlists; it
also has the number that SRS gave it (`seqNos`), and that is what the media sequence and the tags are made of.
These numbers go up by one, or jump: a file that could not be copied (`detect.go:105`) or was dropped (`process.go:669`)
leaves a gap, hand-over goroutines overtake (`detect.go:126`), and a restarted SRS counts anew while the task stays. `NextNumbers`
allows every jump to a number of `SeqNo`, forward, back or to the same. `TypeOK` says that the unlocked reader meets no
`nil`: `dequeue` does not clear the cell it frees, and `append` leaves the array before it would matter.
`MaxFinish` is positive, as `maxFinishSegments` is (`process.go:30`). With 0 the queue could become empty while an
old answer stays, and `InOrder` and `TagsTellJumps`, which count dequeues of the last request, would not hold.

### AccidentApi

`rec` and `key` are the Go side: a recording is about to call `callbackBegin`, waits for its answer in the
builder goroutine (one at a time), records, or is lost in a restart. `handler` and `answer` are its request at the
API: `Save` is the insert of the accident, `Find`, `Push`, `Insert` the statements of the notification's
transaction, `Answer` the end of the handler; each may fail, and then the handler answers with an error. A failing
`Save` or `Insert` may have been carried out: the reply to COMMIT may be lost, and `torn` remembers that, as it does
handlers that a restart of the API cut off.
`users` is what the query of the users returned, in any order (`Orders`) and with the devices of that moment;
`TokensOf` makes the list of tokens from it, with a gap for a user who has no device; `responses` are the places in that
list for which Firebase answered with success, and `Insert` stores `is_sent` by these places. Beside them, `accepted`
remembers for whose device Firebase accepted the push, and `SentIsAccepted` compares the two. A user keeps one
device here: a token that changes between query and push belongs to the same user.
`row`, `streams`, `notified`, `isSent`, `readed` are the tables, `tokens` the users with a device. Foreign
keys without cascade (`migrations/1733152550032-Migration.ts`) are guards of the deletions and of the inserts.
Firebase is external: it accepts any subset of the pushes, or fails the call after accepting some.

Two oddities of the code are in the model: `startAccident` does not await the query of the stream, so its check
never rejects anything and the foreign key does the work; `callbackBegin` reads `accidentId` from an answer that has
`id`, so `callbackEnd` updates row 0, which does not exist.

### Shutdown

`main` is where `doMain` is, the deferred calls included; `cancelled` the contexts cancelled themselves (`Done`
also looks at the parent); `listener` and `watcher` the two goroutines of each server; `running` the goroutines
of the workers. What goroutines do is left out, but for starting others (`Spawn`), finishing (`Finish`) and noticing
the cancel (`Stop`), in any order. `ListenEnds` is environment: a server ends when listening or accepting fails, and
for no other reason, because nothing calls its `Shutdown` or `Close`. The 15 seconds of the forced exit may be shorter than
anything; in `PatientSpec` they are longer than anything.

## Runs

| Run | Instance | Shows |
|---|---|---|
| `task_safety` | 3 segments, `MaxFinish` 1, channel of 2, one failure of a tool and of HSET, segment 2 may lose files | order, no loss, bound of the detect queue, files and queues agree, no lost wake-up of the saver, ordered snapshots, refinement of `SegmentFifo` |
| `task_liveness` | 2 segments, up to 2 accidents each, accident channel of 1, one tool failure | every segment is processed, accidents in order, the task is saved in the end |
| `accident_safety` | 3 messages, up to 3 objects, one fault each of redis, rename and ffmpeg, one restart | every message in one place, lost only when it came late, its copy there; videos in order and complete, one recorder, what is in the map is served and saved |
| `accident_liveness` | 3 messages, a fault of rename and of ffmpeg | a recording ends, with the messages it held in time |
| `accident_cleanup` | 3 messages, no faults | violation: see findings |
| `detect_worker` | 2 streams of 2 files, channels of 2 and 1, cancel at any point | no file lost or doubled, order changed only by the hand-over, everything arrives, `Close` returns |
| `detect_blocked` | 2 streams, one of which cannot start | violation: see findings |
| `stream_hooks` | a stream under 2 applications, 3 connections, 3 failing calls, the row created and deleted | redis, API and SRS agree as far as connections do not overlap, publishers have a created key, a stream ends IDLE |
| `playlist` | 5 segments numbered from 0 or 2 with up to 2 jumps, window of 2, 2 playlists | nil-free, ordered and exact playlists as far as dequeues allow, tags where the numbers jump, a media sequence that grows while the numbers do |
| `shutdown` | 2 servers, 2 recordings, 1 process worker; signal, failing start and failing listener at any point | the program ends, with its workers closed, and failures are reported |
| `shutdown_forced` | the same with 1 recording, and no limit on the 15 s | violation: see findings |
| `accident_api` | 2 recordings of a stream, 2 users in any order; deletions, registrations, failures, lost replies, restarts at any point | answers are true and stay so, `is_sent` is right, the builder goes on |

Why the bounds are enough. Three segments and `MaxFinish` 1 put a segment into each queue at once, fill the
detect queue (limit 2), and retire one; a longer queue adds no new neighbour to any segment. One
failure of each kind covers the retry paths, since a retry returns to a state without memory of the failure. Three messages allow one in a recording, one in the
builder's hands while the recording ends, and one that finds the next object. Two streams with full channels show every way one
can stop the other. Two connections make hooks meet, with one URL or with two of the same key, and a third comes after them, or is turned
away meanwhile; three failures can hit both hooks of a
connection and another one. Streams with different keys share nothing. Two jumps make a gap, a repeat, or a step back and
forth within a window, and with numbers from 0 and 2 jumps by one more and by one less than a step. Five segments make the array grow (1, 2, 4, 8 cells) with the queue
long enough for two dequeues during one playlist. Two servers are what the code has; two recordings are enough for
one to start while `Close` waits for the other, and again after the first has ended. Two users make every mix and order of
devices and accepted pushes, and a misplaced response visible; two recordings let a second handler
run while the first one's builder was lost in a restart.

Deadlock is not checked: arrivals are bounded, and the system then rests. What should happen before is stated as
liveness.

Fairness is weak fairness of each goroutine, and of time: goroutines are loops with bounded pauses, the Go
scheduler runs every runnable one, and Go's mutex hands itself to a starving waiter. External calls are
assumed to return, which the code relies on (no timeouts). No fairness is assumed for arrivals,
failures, lost files and restarts. `Persisted` is checked without failing HSET and `RecordingEnds` without failing
redis: the code does not retry those. In `DetectWorker` and `StreamHooks` the goroutines and the handlers are fair;
announcements, the cancel, publishers and requests of the API are not. In `AccidentApi` the handlers are (the
database and Firebase answer or fail) and so is the builder; operators, devices and restarts are not. In `Shutdown`
every goroutine and the forced exit are; signals, failures, new recordings and their ends are not, and a server may
serve for ever.

Each property of a passing run has a mutant in `PROJECT.json`: a plausible slip in the code (an operator
beside the original) under which the property fails.

## Findings

* `accident_cleanup`: a message added between the map lookup and the end of `finishM3u8` stays, with
  its file, in an object nobody serves (`accident.go:619`).
* `detect_blocked`: a worker whose directory cannot be created stays in the map with nobody receiving; when its channel is
  full, the router blocks on it and no stream is processed any more (`detect.go:185`, `190`).
* `shutdown_forced`: "Normally, this doesn't occur because the main thread exits after the context is cancelled"
  (`main.go:58`). `httpService.Close` forgets the servers instead of shutting them down (`service.go:31`), so `Run` does not
  return, the deferred `Close` of the workers does not run, and each exit after a signal is the forced one.

Some behaviour deserves notice but is stated as a property that holds, with the condition under which it does:

* `OnTsSegment` releases the lock before it adds to `LiveQueue` (`process.go:646`), against the comment above it. A
  stored task may lack that segment; order and the final save are unharmed (`SnapshotOrdered`, `NoLostWakeup`).
* The HDEL of an ending recording removes the redis record of one that was created meanwhile (`accident.go:344`);
  `SavedUnlessOvertaken` says that nothing else does while redis works.
* A playlist built during a dequeue repeats a segment and misses another (`process.go:964`), and with two dequeues
  and an enqueue it goes backwards: `UndisturbedIsExact`, `InOrder`.
* One server that fails to listen cancels the context of both, but the other goes on and answers on_hls with success
  while it drops the message; `FailureReported` says that the error is recorded by then. The program ends only when both have.
* Redis is told of URLs and the API of stream keys (`srs-hooks.go:101`, `123`). When encoders publish one key under two
  applications, which the API admits (`verify` does not look at LIVE), the first to leave makes the row IDLE while the
  other one publishes. `ActiveIsLive` and `PublishedIsActive` say that this, and two connections of one URL of which one ends
  while the other begins or publishes (also an encoder that SRS turned away), are the only ways the records come to disagree.
* The image of an extraction whose thumbnail failed stays for ever (`process.go:743`): `NoFileLeak` names it as the exception.
* A message that reaches a recording after it began to finish is lost without an error (`accident.go:620`): `Accounted` says
  that nothing else is, while redis works.
* The media sequence goes back when SRS counts anew or segments overtake each other: `MediaSequenceGrows` says that nothing
  else takes it back. The last pair of a playlist is not compared, and the tag stands before the segment ahead of the
  jump (`utils.go:189`): `TagsTellJumps`.
* No accident is ever ended in the database (above), and accidents stay when their notification fails: `AnswerIsTrue`
  excludes only the reverse, but for a COMMIT whose reply is lost and for restarts.

Not a run, because it follows from the absence of code: nothing reloads what is stored "for reloading it when
restart" (`accident.go:248`), nor the stored task (`process.go:226`, commented out).

## Proofs

Every safety property that a passing run checks, the action property and the refinement among them, is also proved
for all values of the constants. The only assumptions are those on the constants, which each module names and TLC
evaluates. In each case TLC checked the inductive invariant on the module's instance before it was proved.

`ProcessTaskProofs` and `ProcessTaskFifoProofs` prove, for every `MaxFinish`, capacity, number of segments, boxes and
failures and every set of losable segments (`TaskAssumption`: the limits are naturals), that `Spec` implies

* `TypeCorrect`: `[]TypeOK`, `DetectQueueBounded`: `[]DetectBound`, `SegmentsInOrder`: `[]FifoOrder`,
* `WakeupsKept`: `[]NoLostWakeup`, `SnapshotsInOrder`: `[]SnapshotOrdered`, `AccidentsInOrder`: `[]AccidentOrder`,
* `NothingLost`: `[]NoSegmentLost`, `FilesStay`: `[]FilesPresent`, `NothingLeaks`: `[]NoFileLeak`,
* `TaskImplementsFifo`: `ImplementsFifo`, the refinement of `SegmentFifo`.

None is inductive alone. `DetectBound` fails to be, because the room is checked before two ffmpeg
runs: one needs that a live driver past the check still has that room (`Room`), and that only it adds to
the queue. `FifoOrder` needs that a driver that dequeues its segment dequeues the head of the queue
(`HoldsHead`): then every step leaves the pipeline as it is, appends a newer segment, or removes one element
(`PipelineStep`), and each of these keeps it increasing (`OrderedStep`). `HoldsHead` in turn needs to know where
each goroutine can be (`Control`). The inductive invariant is `IInv`, the conjunction of these and `TypeOK`.
Lemmas about sequences come first; concatenation is hidden behind `Cat` where only its algebra matters.

On `IInv` rest three invariants of their own. `SaveDue` says where the save goroutine is when redis is
behind: every step that changes a queue leaves a signal due, and none takes the signal without reading the queues
afterwards. `SnapOrdered` says what the queues look like while they are marshalled: the lock holds `detect` and `finish`
still, and `live` only grows at its end, so the three parts are in order though read one by one. `ReportedFirst` says that
what was reported is no newer than any segment whose detection is still to come.

Losses and files need each other, so they are proved together (`FilesInv`). A driver drops a segment because `os.Stat` or a
tool did not find its file; `Kept` says that the files of all held segments exist unless the environment took one, so
only such a segment is dropped (`DropsLost`). `Kept` holds because `Dispose` removes the files of segments that have left the
pipeline only (`Disposed`), which needs that a segment is in the pipeline once (`FifoOrder`). `Owned` and `Retained` are
the other direction: every file has a segment or a driver about to dispose of it, and a segment that left without loss was
retired. `Abandoned` adds that only an extraction that failed left an image behind. For the refinement each action is mapped to `Accept`, `Skip`, `Retire`, `LoseFile` or a stutter; that a
`Skip` is allowed is `DropsLost`.

`FinishPlaylistProofs` proves, for any queue length above 0 and any number of segments and requests
(`PlaylistAssumption`),

* `TypeCorrect`: `[]TypeOK`, `PlaylistInOrder`: `[]InOrder`, `PlaylistExact`: `[]UndisturbedIsExact`,
* `TagsTell`: `[]TagsTellJumps`, `SequenceGrows`: `MediaSequenceGrows`.

The arrays hold segments by their place, without gaps, so two numbers tell what is in a cell: `Queued` says that cell `i` of the queue
holds `added - len + i`, and one more where a dequeue in progress has been. For the reader, who may look at an array the
queue has left, `Views` compares each cell with the number before the first segment it saw (`Base`): never below `Base + i`,
and before the second dequeue at most the number of dequeues above it (`Within`). `Fronts` says that what a
request could begin with now is never behind what an answer began with (`Began`), and `Numbered` that its media sequence is the number SRS gave that segment and its
tags are where these numbers jump, whatever they are: `MediaSequenceGrows` and `TagsTellJumps` need no assumption about them.

`StreamHooksProofs` proves, for any sets of applications, streams and connections and any number of failing calls
(`HooksAssumption`: the number is a natural, and `NoConn` is no connection),

* `HooksTypeCorrect`: `[]TypeOK`, with it that nobody publishes with a key that was never created,
* `ActiveStreamsAreLive`: `[]ActiveIsLive`,
* `PublishedStreamsAreActive`: `[]PublishedIsActive`.

The two agreements lean on each other: setting IDLE is harmless because HDEL came before (`Ended`), HSET because
the update to LIVE did (`Begun`), and neither is undone because, without an overlap, connections of a
stream are `Apart`, whatever their URLs. If the key of a URL has no other URL after a step, it had none before (`SoleKept`), which is
the direction the induction needs.

`AccidentWorkerProofs` proves, for any capacity and numbers of messages, faults and restarts
(`AccidentAssumption`),

* `AccidentTypeCorrect`: `[]TypeOK`,
* `OneRecorderAtATime`: `[]OneRecorder`,
* `RegisteredObjectIsServed`: `[]RegisteredIsServed`,
* `RecorderIsSaved`: `[]SavedUnlessOvertaken`,
* `VideosPlayInOrder`: `[]VideosInOrder`,
* `MessagesAccounted`: `[]Accounted`,
* `FinishedIsComplete`: `[]FinishedArtifactComplete`.

Even the types need more than themselves: `SaveServed` takes the first message of a list, which must not be
empty (`BatchIsNext`: a batch is the beginning of the object's messages, which only grow at the end), and a fresh object must
have a number, which it has because each comes with a message of its own (`Order`). `Registry` says that the
map holds the newest object or none, that older ones have left it and are ending, and where the builder can be meanwhile;
`OneRecorder` and `RegisteredIsServed` follow. `Saved` adds what redis holds for the newest object: only an older one
in `Ending` can remove it, and then the newest was `overtaken`. For the videos, `Cut` orders everything an
object holds (video, file list, messages still to serve) before everything of a later object, of the builder and of
the channels; each action moves the head of one piece to the end of another (`CutShrinks`, `BehindInOrder`).

`Artifacts` follows an object through its life: nothing is in its directory before its `Run` starts; then the list of
files in memory is what is in the directory, until a restart forgets the list; the video is made of that list, which does not
change any more although messages keep coming; and redis calls it finished last. `FinishedArtifactComplete` is its last
conjunct. `Account` strengthens `Accounted`: what waits has not been given up too. A step moves one message or none
(`Kept`, `Reported`, `Dropped`, `Handed`, `Failed`), or it is a crash, which keeps what was recorded (`Forgotten`). That a
message which fails is not in the directory already, so that it is not both recorded and given up, takes
`Cut` and `Artifacts` together; that one which is removed from the list was recorded is `MovedFirst`. `Lists` says who serves a
list: its object begins to finish with an empty one, so that what it holds later came late, and an object without a `Run` goroutine is the
builder's or redis failed. `Copies` follows the files: a copy moves into a recording or is removed only with its message,
which is nowhere else by `Account`.

`AccidentApiProofs` proves, for any recordings, streams and users (`ApiAssumption`),

* `AnswersAreTrue`: `[]AnswerIsTrue`,
* `SentMeansAccepted`: `[]SentIsAccepted`.

What is missing for induction is `Progress`: how far a request has come says what is in the tables, and which answer
was given. `Matched` says what a handler has in hand: each found user comes with the own device or none (`Found`), and the devices
whose push was accepted are those at the places of the responses, because the list of tokens has a place for every user
(`Responses`, from the order of the query and `TokensOf`).

`ShutdownProofs` proves, for any number of servers and any recordings and process workers (`ShutdownAssumption`),

* `ShutdownTypeCorrect`: `[]TypeOK`, with it that nothing of `Run` is left when it has returned,
* `FailuresAreReported`: `[]FailureReported`,
* `WorkersAreClosed`: `[]WorkersClosed`.

`Explained` strengthens the second: without a signal, a cancelled service context has a recorded error behind it.
`Groups` strengthens the third: once `DetectWorker.Close` has returned, its group stays empty.

`DetectWorkerProofs` proves, for any streams, files and capacities (`DetectAssumption`),

* `DetectTypeCorrect`: `[]TypeOK`, with it that no channel exceeds its capacity and that a file only enters the worker of
  its stream once that is in the map,
* `FilesConserved`: `[]Conserved`,
* `OvertakingIsWaiting`: `[]OnlyWaitingIsOvertaken`.

The files are in three lines: `Coming` (copier and `msgs`), `senders`, and `Sent`. The actions are first reduced to what they
do to these (`Move`: `Announced`, `Released`, `Posted`, `Routed`, or nothing), so that places are counted and orders compared on
five moves instead of eleven actions. `Conserved` is inductive with the types. `Order` is not only
`OnlyWaitingIsOvertaken` but also that what comes is in order and newer than all that waits or was sent, and that a
file which waits behind a newer one is recorded as `late`; with `Conserved`, which says that a file waits or was
sent but not both (`Apart`), that is inductive.

Only model-checked: liveness (`Processed`, `Persisted`, `RecordingEnds`, `RecordedInTime`, `Delivered`, `CloseReturns`,
`EndsIdle`, `ProgramEnds`, `BuilderGoesOn`), because fairness is stated with ENABLED, which is beyond the prover. The
violations of the findings are TLC's counterexamples.

## Not modelled

* Environment variables, `String` methods, the fast cache, the debug and pprof servers, and the proxies: they keep no state a
  property could be about. The JSON post to the AI server is an outcome in `ProcessTask`.
* `ProcessWorker.OnHlsTsMessage` and its copier, `ProcessTask.restart`, `reset` and `match`: nothing calls them.
* The restart of the pipeline of a stream: it starts empty, because the loading code is commented out. Files of the former
  run stay on disk with nobody to remove them, so a model would only repeat that.
* The handlers that serve TS files, images and mp4 files: they read one file. The range of an mp4 request is
  read with `%u`, a verb Go's `Sscanf` does not have, so ranges are ignored (`accident.go:103`): a matter for a unit test.
* The discontinuity tags of a recording's VoD playlist (`utils.go:549`): the same rule as `Tags`, over a list nobody else changes.
* `getAllNotifications`, `updateStream`, `updateAccident`, places, users, authentication, health, configuration,
  migrations: single database calls. Those that `AccidentApi` and `StreamHooks` depend on (foreign keys) are
  guards there. `StreamHooks.DeleteStream` ignores accidents: it allows more deletions than the database does.

## Plan

1. *(done)* `SegmentFifo`, `ProcessTask`, `AccidentWorker`, `DetectWorker`, `StreamHooks`, `FinishPlaylist`, `AccidentApi`,
   `Shutdown`, and the proofs above.
2. *(done)* Proofs of every safety property of the runs and of the refinement of `SegmentFifo`.
3. A composition of `DetectWorker` with the `SegmentFifo` of each stream.
