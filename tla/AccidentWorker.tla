----------------------------- MODULE AccidentWorker -----------------------------
(***************************************************************************)
(* streaming/accident.go: recordings of accidents.  For one stream and one *)
(* category of accident (one M3u8URL), three kinds of goroutines share the *)
(* map streams, a directory and two redis hashes:                          *)
(*                                                                         *)
(*   copier    copies the TS file of each message    (OnAccidentAddedImpl) *)
(*   builder   adds the copy to the object of its URL, creating a fresh    *)
(*             object when there is none                 (buildM3u8Object) *)
(*   Run       one goroutine per AccidentM3u8Stream: moves the copies into *)
(*             the recording and, 30 seconds after the last change,        *)
(*             converts it to a video                    (Run, finishM3u8) *)
(*                                                                         *)
(* Each step of an AccidentM3u8Stream is atomic under its lock; the lock   *)
(* is never held from one step to the next.  Messages and objects are      *)
(* numbered in the order they are created.                                 *)
(***************************************************************************)
EXTENDS Naturals, Sequences, SequencesExt

CONSTANTS
    MsgCap,       \* capacity of AccidentWorker.msgs and tsfiles, 1024 in the code
    MaxMessages,  \* bound: messages
    Faults,       \* bound: the kinds of faults that happen
    MaxFaults,    \* bound: how many of each kind
    MaxCrashes    \* bound: restarts of the program

FaultKind == {"redis", "rename", "ffmpeg"}

ASSUME AccidentAssumption ==
    /\ MsgCap \in Nat /\ MaxMessages \in Nat
    /\ Faults \subseteq FaultKind /\ MaxFaults \in Nat /\ MaxCrashes \in Nat

VARIABLES
    added,      \* number of messages OnAccidentAdded was called with
    msgs,       \* channel to the copier
    tsfiles,    \* channel to the builder
    copier,     \* [at, msg]
    builder,    \* [at, msg, obj, fresh]
    streams,    \* AccidentWorker.streams: the object of the URL, or None
    created,    \* number of objects created; also the newest one
    messages,   \* Messages of each object
    aged,       \* 30 seconds have passed since Update of the object
    late,       \* history: messages that came after their object had begun to finish
    run,        \* where the Run goroutine of each object is
    batch,      \* copyMessages of its current round
    files,      \* artifact.Files in memory
    tmp,        \* copies in accident/, one per message
    recorded,   \* TS files in accident/:uuid/
    mp4,        \* accident/:uuid/index.mp4: the TS files it was made of
    working,    \* SRS_ACCIDENT_M3U8_WORKING[url]
    artifact,   \* SRS_ACCIDENT_M3U8_ARTIFACT[uuid]
    rows,       \* objects the API was told of, and made an accident for
    gone,       \* history: messages given up with an error, or by a crash
    overtaken,  \* history: objects created while an older one was still ending
    faults,     \* number of faults of each kind
    crashes

channels == <<added, msgs, tsfiles>>
object == <<messages, aged, late>>
redis == <<working, artifact>>
disk == <<tmp, recorded, mp4>>
bounds == <<faults, crashes>>
registry == <<streams, created, overtaken>>
runs == <<run, batch, files>>
vars == <<channels, copier, builder, registry, object, runs, disk, redis, rows, gone, bounds>>

Message == 1..MaxMessages
Object == 1..MaxMessages
None == 0

Idle == [at |-> "idle", msg |-> None, obj |-> None, fresh |-> FALSE]
IdleCopier == [at |-> "idle", msg |-> None]
NoArtifact == [saved |-> FALSE, files |-> <<>>, processing |-> TRUE]

\* A Run goroutine may add to the recording, or it has begun to finish it.
Recording == {"idle", "serve", "saved", "save", "check"}
Ending == {"end", "artifact", "hdel"}  \* out of the map, and the HDEL still to come
Finishing == {"convert", "delete", "end", "artifact", "hdel", "cleanup"}

\* The shape of the state, part by part: channels hold messages, objects are known by
\* number, at most one of them is registered.
ChannelTypes == added \in 0..MaxMessages /\ msgs \in Seq(Message) /\ tsfiles \in Seq(Message)
CopierType == copier \in {IdleCopier} \cup [at : {"cp", "stat", "send"}, msg : Message]
BuilderType ==
    builder \in {Idle} \cup [at : {"init", "begin", "add", "save"}, msg : Message,
                             obj : Object, fresh : BOOLEAN]
RegistryTypes ==
    streams \in Object \cup {None} /\ created \in 0..MaxMessages /\ overtaken \subseteq Object
ObjectTypes ==
    /\ messages \in [Object -> Seq(Message)] /\ aged \in [Object -> BOOLEAN]
    /\ late \subseteq Message
RunTypes ==
    /\ run \in [Object -> {"none", "done"} \cup Recording \cup Finishing]
    /\ batch \in [Object -> Seq(Message)] /\ files \in [Object -> Seq(Message)]
DiskTypes ==
    /\ tmp \subseteq Message /\ recorded \in [Object -> SUBSET Message]
    /\ mp4 \in [Object -> Seq(Message)]
RedisTypes ==
    /\ working \in Object \cup {None}
    /\ artifact \in [Object -> [saved : BOOLEAN, files : Seq(Message),
                                processing : BOOLEAN]]
BoundTypes ==
    /\ rows \subseteq Object /\ gone \subseteq Message
    /\ faults \in [FaultKind -> 0..MaxFaults] /\ crashes \in 0..MaxCrashes

TypeOK ==
    /\ ChannelTypes /\ CopierType /\ BuilderType /\ RegistryTypes /\ ObjectTypes
    /\ RunTypes /\ DiskTypes /\ RedisTypes /\ BoundTypes

Init ==
    /\ added = 0 /\ msgs = <<>> /\ tsfiles = <<>>
    /\ copier = IdleCopier /\ builder = Idle
    /\ streams = None /\ created = 0
    /\ messages = [o \in Object |-> <<>>] /\ aged = [o \in Object |-> FALSE]
    /\ late = {}
    /\ run = [o \in Object |-> "none"]
    /\ batch = [o \in Object |-> <<>>] /\ files = [o \in Object |-> <<>>]
    /\ tmp = {} /\ recorded = [o \in Object |-> {}] /\ mp4 = [o \in Object |-> <<>>]
    /\ working = None /\ artifact = [o \in Object |-> NoArtifact]
    /\ rows = {} /\ gone = {} /\ overtaken = {}
    /\ faults = [k \in FaultKind |-> 0] /\ crashes = 0

Fault(kind) ==
    /\ kind \in Faults /\ faults[kind] < MaxFaults
    /\ faults' = [faults EXCEPT ![kind] = @ + 1]

\* A redis write: it is applied, or it fails, applied or not.
Write(var, new, after, otherwise) ==
    \/ var' = new /\ after /\ UNCHANGED faults
    \/ var' \in {var, new} /\ otherwise /\ Fault("redis")

GiveUp(m) == gone' = gone \cup {m}

--------------------------------------------------------------------------------
\* The detect driver of a ProcessTask reports an accident.

OnAccidentAdded ==
    /\ added < MaxMessages /\ Len(msgs) < MsgCap
    /\ added' = added + 1
    /\ msgs' = Append(msgs, added + 1)
    /\ UNCHANGED <<tsfiles, copier, builder, registry, object, runs, disk, redis, rows,
                   gone, bounds>>

--------------------------------------------------------------------------------
\* OnAccidentAddedImpl, in the copier goroutine.

ReceiveMsg ==
    /\ copier.at = "idle" /\ msgs # <<>>
    /\ copier' = [at |-> "cp", msg |-> Head(msgs)]
    /\ msgs' = Tail(msgs)
    /\ UNCHANGED <<added, tsfiles, builder, registry, object, runs, disk, redis, rows, gone,
                   bounds>>

\* The source segment may be disposed of at any time (see ProcessTask), so cp
\* fails or not, and so does the os.Stat of the source after it, which leaves
\* the copy behind; cp itself may leave a piece of it.
CopyFile ==
    /\ copier.at = "cp"
    /\ \/ copier' = [copier EXCEPT !.at = "stat"] /\ tmp' = tmp \cup {copier.msg}
          /\ UNCHANGED gone
       \/ copier' = IdleCopier /\ GiveUp(copier.msg)
          /\ tmp' \in {tmp, tmp \cup {copier.msg}}
    /\ UNCHANGED <<channels, builder, registry, object, runs, recorded, mp4, redis, rows,
                   bounds>>

StatSource ==
    /\ copier.at = "stat"
    /\ \/ copier' = [copier EXCEPT !.at = "send"] /\ UNCHANGED gone
       \/ copier' = IdleCopier /\ GiveUp(copier.msg)
    /\ UNCHANGED <<channels, builder, registry, object, runs, disk, redis, rows, bounds>>

SendTs ==
    /\ copier.at = "send" /\ Len(tsfiles) < MsgCap
    /\ tsfiles' = Append(tsfiles, copier.msg)
    /\ copier' = IdleCopier
    /\ UNCHANGED <<added, msgs, builder, registry, object, runs, disk, redis, rows, gone,
                   bounds>>

--------------------------------------------------------------------------------
\* buildM3u8Object, in the builder goroutine.

\* Receive, and LoadOrStore of the URL.
LoadOrStore ==
    /\ builder.at = "idle" /\ tsfiles # <<>>
    /\ tsfiles' = Tail(tsfiles)
    /\ \/ /\ streams # None
          /\ builder' = [at |-> "add", msg |-> Head(tsfiles), obj |-> streams,
                         fresh |-> FALSE]
          /\ UNCHANGED registry
       \/ /\ streams = None
          /\ created' = created + 1
          /\ streams' = created + 1
          /\ overtaken' = IF \E o \in Object : run[o] \in Ending
                             THEN overtaken \cup {created + 1} ELSE overtaken
          /\ builder' = [at |-> "init", msg |-> Head(tsfiles), obj |-> created + 1,
                         fresh |-> TRUE]
    /\ UNCHANGED <<added, msgs, copier, object, runs, disk, redis, rows, gone, bounds>>

\* Initialize: HGET, then HSET of the new artifact.  When either fails, the
\* object stays in the map and nobody runs it.
Initialize ==
    /\ builder.at = "init"
    /\ Write(artifact,
             [artifact EXCEPT ![builder.obj] =
                [saved |-> TRUE, files |-> <<>>, processing |-> TRUE]],
             builder' = [builder EXCEPT !.at = "begin"] /\ UNCHANGED gone,
             builder' = Idle /\ GiveUp(builder.msg))
    /\ UNCHANGED <<channels, copier, registry, object, runs, disk, working, rows, crashes>>

\* The API saves an accident and answers, or not; Initialize ignores the error,
\* and accidentId, which the answer does not have, stays 0.
CallbackBegin ==
    /\ builder.at = "begin"
    /\ rows' \in {rows, rows \cup {builder.obj}}
    /\ builder' = [builder EXCEPT !.at = "add"]
    /\ UNCHANGED <<channels, copier, registry, object, runs, disk, redis, gone, bounds>>

\* Update is now, and the message is late if the object no longer records.
Refresh(o, m) ==
    /\ aged' = [aged EXCEPT ![o] = FALSE]
    /\ late' = IF run[o] \in Finishing \cup {"done"} THEN late \cup {m} ELSE late

AddMessageFirst ==
    /\ builder.at = "add"
    /\ messages' = [messages EXCEPT ![builder.obj] = <<builder.msg>> \o @]
    /\ Refresh(builder.obj, builder.msg)
    /\ builder' = [builder EXCEPT !.at = "save"]
    /\ UNCHANGED <<channels, copier, registry, runs, disk, redis, rows, gone, bounds>>

AddMessage ==
    /\ builder.at = "add"
    /\ messages' = [messages EXCEPT ![builder.obj] = Append(@, builder.msg)]
    /\ Refresh(builder.obj, builder.msg)
    /\ builder' = [builder EXCEPT !.at = "save"]
    /\ UNCHANGED <<channels, copier, registry, runs, disk, redis, rows, gone, bounds>>

\* saveObject; then a fresh object gets its Run goroutine.  When saving fails, a
\* fresh object stays in the map and nobody runs it.
SaveObject ==
    /\ builder.at = "save"
    /\ builder' = Idle
    /\ Write(working, builder.obj,
             run' = IF builder.fresh THEN [run EXCEPT ![builder.obj] = "idle"] ELSE run,
             UNCHANGED run)
    /\ UNCHANGED <<channels, copier, registry, object, batch, files, disk, artifact, rows,
                   gone, crashes>>

--------------------------------------------------------------------------------
\* Run of object o: the rounds of pfn.

Goto(o, l) == run' = [run EXCEPT ![o] = l]

RemoveMessages(o, m) ==
    /\ messages' = [messages EXCEPT ![o] = <<>>]
    /\ aged' = [aged EXCEPT ![o] = FALSE] /\ UNCHANGED late

\* removeMessage also refreshes Update.
RemoveMessage(o, m) ==
    /\ messages' = [messages EXCEPT ![o] = RemoveFirst(@, m)]
    /\ aged' = [aged EXCEPT ![o] = FALSE] /\ UNCHANGED late

CopyMessages(o) ==
    /\ run[o] = "idle"
    /\ batch' = [batch EXCEPT ![o] = messages[o]]
    /\ Goto(o, IF messages[o] = <<>> THEN "check" ELSE "serve")
    /\ UNCHANGED <<channels, copier, builder, registry, object, files, disk, redis, rows,
                   gone, bounds>>

NextMessage(o) ==
    /\ batch' = [batch EXCEPT ![o] = Tail(@)]
    /\ Goto(o, IF Len(batch[o]) = 1 THEN "save" ELSE "serve")

\* serveMessage up to updateArtifact.
ServeMessage(o) ==
    /\ run[o] = "serve"
    /\ LET m == Head(batch[o]) IN
         /\ m \in tmp
         /\ tmp' = tmp \ {m}
         /\ recorded' = [recorded EXCEPT ![o] = @ \cup {m}]
         /\ files' = [files EXCEPT ![o] = Append(@, m)]
    /\ Goto(o, "saved")
    /\ UNCHANGED <<channels, copier, builder, registry, object, batch, mp4, redis, rows,
                   gone, bounds>>

\* os.Stat, os.MkdirAll or os.Rename fails: the message is removed all the same.
ServeFails(o) ==
    /\ run[o] = "serve"
    /\ LET m == Head(batch[o]) IN
         /\ \/ m \in tmp /\ Fault("rename")
            \/ m \notin tmp /\ UNCHANGED faults
         /\ RemoveMessage(o, m)
         /\ GiveUp(m)
    /\ NextMessage(o)
    /\ UNCHANGED <<channels, copier, builder, registry, files, disk, redis, rows, crashes>>

\* saveArtifact, whose error is logged, and the deferred removeMessage.
SaveServed(o) ==
    /\ run[o] = "saved"
    /\ Write(artifact,
             [artifact EXCEPT ![o] = [@ EXCEPT !.saved = TRUE, !.files = files[o]]],
             TRUE, TRUE)
    /\ RemoveMessage(o, Head(batch[o]))
    /\ NextMessage(o)
    /\ UNCHANGED <<channels, copier, builder, registry, files, disk, working, rows, gone,
                   crashes>>

\* "Refresh redis if got messages to serve."
SaveRound(o) ==
    /\ run[o] = "save"
    /\ Write(working, o, Goto(o, "check"), Goto(o, "idle"))
    /\ UNCHANGED <<channels, copier, builder, registry, object, batch, files, disk,
                   artifact, rows, gone, crashes>>

CheckAgeOnly(o) ==
    /\ run[o] = "check"
    /\ Goto(o, IF aged[o] THEN "convert" ELSE "idle")
    /\ UNCHANGED <<channels, copier, builder, registry, object, batch, files, disk, redis,
                   rows, gone, bounds>>

\* The recording ends when no message waits and Update is 30 seconds old; a
\* message that is added between the two tests makes Update new.
CheckExpired(o) ==
    /\ run[o] = "check"
    /\ Goto(o, IF messages[o] = <<>> /\ aged[o] THEN "convert" ELSE "idle")
    /\ UNCHANGED <<channels, copier, builder, registry, object, batch, files, disk, redis,
                   rows, gone, bounds>>

\* Time passes; Update matters to a recording only.
Age(o) ==
    /\ run[o] \in Recording /\ ~aged[o]
    /\ aged' = [aged EXCEPT ![o] = TRUE]
    /\ UNCHANGED <<channels, copier, builder, registry, messages, late, runs, disk, redis, rows,
                   gone, bounds>>

--------------------------------------------------------------------------------
\* finishM3u8.

ConvertUnchecked(o) ==
    /\ run[o] = "convert"
    /\ \/ Goto(o, "delete") /\ mp4' = [mp4 EXCEPT ![o] = files[o]] /\ UNCHANGED faults
       \/ Goto(o, "delete") /\ Fault("ffmpeg") /\ UNCHANGED mp4
    /\ UNCHANGED <<channels, copier, builder, registry, object, batch, files, tmp, recorded,
                   redis, rows, gone, crashes>>

ConvertUnregistered(o) ==
    /\ run[o] = "convert"
    /\ streams' = None
    /\ \/ /\ files[o] # <<>>
          /\ mp4' = [mp4 EXCEPT ![o] = files[o]]
          /\ Goto(o, "delete")
          /\ UNCHANGED faults
       \/ Goto(o, "idle") /\ Fault("ffmpeg") /\ UNCHANGED mp4
    /\ UNCHANGED <<channels, copier, builder, created, overtaken, object, batch, files, tmp,
                   recorded, redis, rows, gone, crashes>>

ConvertOnce(o) ==
    /\ run[o] = "convert"
    /\ \/ Goto(o, "delete") /\ mp4' = [mp4 EXCEPT ![o] = files[o]] /\ UNCHANGED faults
       \/ Goto(o, "done") /\ Fault("ffmpeg") /\ UNCHANGED mp4
    /\ UNCHANGED <<channels, copier, builder, registry, object, batch, files, tmp, recorded,
                   redis, rows, gone, crashes>>

\* Build the playlist, which fails without files, and convert it with ffmpeg.
\* After an error Run starts over with a new round.
Convert(o) ==
    /\ run[o] = "convert"
    /\ \/ /\ files[o] # <<>>
          /\ mp4' = [mp4 EXCEPT ![o] = files[o]]
          /\ Goto(o, "delete")
          /\ UNCHANGED faults
       \/ /\ \/ files[o] = <<>> /\ UNCHANGED faults
             \/ files[o] # <<>> /\ Fault("ffmpeg")
          /\ Goto(o, "idle")
          /\ UNCHANGED mp4
    /\ UNCHANGED <<channels, copier, builder, registry, object, batch, files, tmp, recorded,
                   redis, rows, gone, crashes>>

KeepRegistered(o) ==
    /\ run[o] = "delete"
    /\ Goto(o, "end")
    /\ UNCHANGED <<channels, copier, builder, registry, object, batch, files, disk, redis,
                   rows, gone, bounds>>

Unregister(o) ==
    /\ run[o] = "delete"
    /\ streams' = None
    /\ Goto(o, "end")
    /\ UNCHANGED <<channels, copier, builder, created, overtaken, object, batch, files,
                   disk, redis, rows, gone, bounds>>

\* The request names accidentId, which is 0 (see CallbackBegin): the API
\* updates no row.  Errors are logged.
CallbackEnd(o) ==
    /\ run[o] = "end"
    /\ Goto(o, "artifact")
    /\ UNCHANGED <<channels, copier, builder, registry, object, batch, files, disk, redis,
                   rows, gone, bounds>>

\* finishArtifact and saveArtifact; the results of this and of the next call
\* are only logged.
FinishArtifact(o) ==
    /\ run[o] = "artifact"
    /\ Write(artifact,
             [artifact EXCEPT ![o] =
                [saved |-> TRUE, files |-> files[o], processing |-> FALSE]],
             TRUE, TRUE)
    /\ Goto(o, "hdel")
    /\ UNCHANGED <<channels, copier, builder, registry, object, batch, files, disk, working,
                   rows, gone, crashes>>

\* HDEL of the URL, whichever object is stored there by now.
DeleteObject(o) ==
    /\ run[o] = "hdel"
    /\ Write(working, None, TRUE, TRUE)
    /\ Goto(o, "cleanup")
    /\ UNCHANGED <<channels, copier, builder, registry, object, batch, files, disk,
                   artifact, rows, gone, crashes>>

\* Remove the files of the messages that came while converting; Run ends.
Cleanup(o) ==
    /\ run[o] = "cleanup"
    /\ tmp' = tmp \ Range(messages[o])
    /\ Goto(o, "done")
    /\ UNCHANGED <<channels, copier, builder, registry, object, batch, files, recorded, mp4,
                   redis, rows, gone, bounds>>

--------------------------------------------------------------------------------
InHand == {copier.msg} \ {None}
InBuilder == IF builder.at \in {"init", "begin", "add"} THEN {builder.msg} ELSE {}

\* The program exits at any point and starts again: what is in memory is lost,
\* the files and redis stay, and nothing of them is loaded.
Crash ==
    /\ crashes < MaxCrashes
    /\ crashes' = crashes + 1
    /\ gone' = gone \cup Range(msgs) \cup Range(tsfiles) \cup InHand \cup InBuilder
                    \cup UNION {Range(messages[o]) \ recorded[o] : o \in Object}
    /\ msgs' = <<>> /\ tsfiles' = <<>>
    /\ copier' = IdleCopier /\ builder' = Idle
    /\ streams' = None
    /\ messages' = [o \in Object |-> <<>>] /\ aged' = [o \in Object |-> FALSE]
    /\ run' = [o \in Object |-> "none"]
    /\ batch' = [o \in Object |-> <<>>] /\ files' = [o \in Object |-> <<>>]
    /\ UNCHANGED <<added, created, overtaken, late, disk, redis, rows, faults>>

Copier == ReceiveMsg \/ CopyFile \/ StatSource \/ SendTs
Builder == LoadOrStore \/ Initialize \/ CallbackBegin \/ AddMessage \/ SaveObject
Run(o) ==
    \/ CopyMessages(o) \/ ServeMessage(o) \/ ServeFails(o) \/ SaveServed(o)
    \/ SaveRound(o) \/ CheckExpired(o)
    \/ Convert(o) \/ Unregister(o) \/ CallbackEnd(o) \/ FinishArtifact(o)
    \/ DeleteObject(o) \/ Cleanup(o)

Next ==
    \/ OnAccidentAdded
    \/ Copier \/ Builder
    \/ \E o \in Object : Run(o) \/ Age(o)
    \/ Crash

Spec == Init /\ [][Next]_vars

\* The goroutines are loops with bounded pauses, and time passes.
Fairness ==
    /\ WF_vars(Copier) /\ WF_vars(Builder)
    /\ \A o \in Object : WF_vars(Run(o)) /\ WF_vars(Age(o))

FairSpec == Spec /\ Fairness

--------------------------------------------------------------------------------
\* Properties.

\* The places a message can be in.
Pending(o) == Range(messages[o]) \ recorded[o]
Waiting == Range(msgs) \cup Range(tsfiles) \cup InHand \cup InBuilder

Copied ==
    Range(tsfiles) \cup InBuilder
    \cup IF copier.at \in {"stat", "send"} THEN {copier.msg} ELSE {}

\* Run serves the list of object o, or the builder is about to start it.
IsServed(o) == run[o] \in Recording \/ (builder.fresh /\ builder.obj = o)

\* Every accident reported is in exactly one place: on its way to the builder, in one
\* object's list, in one recording, or given up with an error.  A list that nobody will
\* serve, whose messages are lost without an error, holds what came after its object
\* had begun to finish and nothing else, or is one that redis kept from being served.
\* The copy of a message that may still be recorded is there, and no other copies
\* are, but for messages that were given up or lost.
Accounted ==
    /\ 1..added =
         Waiting \cup gone \cup UNION {Pending(o) \cup recorded[o] : o \in Object}
    /\ \A o, p \in Object :
         o # p => (Pending(o) \cup recorded[o]) \cap (Pending(p) \cup recorded[p]) = {}
    /\ \A o \in Object : (Pending(o) \cup recorded[o]) \cap (Waiting \cup gone) = {}
    /\ \A o \in Object :
         \/ Pending(o) = {} \/ IsServed(o)
         \/ IF run[o] = "none" THEN faults["redis"] > 0 ELSE Pending(o) \subseteq late
    /\ Copied \cup UNION {Pending(o) : o \in {p \in Object : run[p] # "done"}} \subseteq tmp
    /\ tmp \subseteq Copied \cup gone \cup UNION {Pending(o) : o \in Object}

\* The recordings cut the stream of accidents into pieces that do not overlap: the
\* videos in the order of their objects play every TS file in its order.
VideosInOrder ==
    \A o, p \in Object : \A i \in 1..Len(mp4[o]), j \in 1..Len(mp4[p]) :
        (o < p \/ (o = p /\ i < j)) => mp4[o][i] < mp4[p][j]

\* An artifact that redis shows as finished lists what its video was made of, and
\* that is all that is in its directory, although messages arrive during the
\* conversion and the program may stop between any two steps.
FinishedArtifactComplete ==
    \A o \in Object :
        ~artifact[o].processing =>
            /\ artifact[o].files = mp4[o] /\ mp4[o] # <<>>
            /\ Range(mp4[o]) = recorded[o]

\* One accident is one recording: at most one object of the URL records.
OneRecorder ==
    \A o, p \in Object : run[o] \in Recording /\ run[p] \in Recording => o = p

\* What the map holds is served: the registered object has a Run goroutine that
\* has not ended, or the builder is about to start it, unless redis failed.
RegisteredIsServed ==
    \A o \in Object :
        streams = o => \/ run[o] \in Recording \cup Finishing
                       \/ builder.fresh /\ builder.obj = o
                       \/ faults["redis"] > 0

\* Once a recording has a file, it ends as a finished artifact.
RecordingEnds ==
    \A o \in Object : files[o] # <<>> ~> ~artifact[o].processing

\* A message that reached an object before it began to finish is in its video,
\* unless its file could not be moved.
RecordedInTime ==
    \A o \in Object, m \in Message :
        m \in Range(messages[o]) /\ run[o] \in Recording
            ~> m \in Range(mp4[o]) \cup gone

\* "Do final cleanup, because new messages might arrive while converting to mp4,
\* which takes a long time." (accident.go:619): no file of an ended object stays.
CleanedUp ==
    \A o \in Object : run[o] = "done" => tmp \cap Range(messages[o]) = {}

\* The record from which a restart could go on ("Always save the object to redis, for
\* reloading it when restart", accident.go:248): it is that of the object which records,
\* unless redis failed, or an older recording of the URL was still ending when the
\* object was created and removes the record of its successor (line 344).
SavedUnlessOvertaken ==
    \A o \in Object \ overtaken :
        run[o] \in Recording => working = o \/ faults["redis"] > 0
================================================================================
