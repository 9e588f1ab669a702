------------------------------ MODULE MediaJob ------------------------------
(***************************************************************************)
(* One admitted request from its row in the history to its answer:         *)
(* createRequest and runMediaJob of internal/adapter/telegram, the use     *)
(* case internal/usecase/process_media.go with its fallbacks, and the      *)
(* delivery.                                                               *)
(*                                                                         *)
(* The job's work runs under workCtx, whose deadline starts before the     *)
(* wait for a worker; statements, uploads and messages run under the       *)
(* handler's ctx, which ends only when the process is told to stop. The    *)
(* process does not wait for its jobs. Extraction, recognition, downloads  *)
(* and Telegram are outside; each may fail at any time. The jobs stand for *)
(* those of different users.                                               *)
(***************************************************************************)
EXTENDS Integers, FiniteSets

CONSTANTS
    Jobs,        \* admitted requests
    Workers,     \* WORKER_COUNT
    Providers,   \* music downloaders in the fallback chain, tried in order
    MaxRestarts  \* bound: how often the process ends and is started again

ASSUME WorkersAssumption == Workers \in Nat \ {0}
ASSUME ProvidersAssumption == Providers \in Nat \ {0}
ASSUME RestartsAssumption == MaxRestarts \in Nat

VARIABLES
    job,       \* the locals of each job's goroutine
    requests,  \* the table requests, one possible row per job
    tracks,    \* the table tracks: jobs that have created a row
    dirs,      \* work directories on disk
    chat,      \* history: what the user was sent for each job
    misled,    \* history: jobs whose upload failed and arrived nevertheless
    unsaved,   \* history: jobs whose last write to requests failed
    slots,     \* len(workers.slots)
    stopping,  \* the process was told to stop: ctx is cancelled
    restarts   \* how often the process has ended

process == <<stopping, restarts>>
vars == <<job, requests, tracks, dirs, chat, misled, unsaved, slots, process>>

Kinds == {"instagram", "soundcloud", "upload"}
Modes == {"full", "original", "both"}
Audio == {"full", "original"}
\* The category of a failure the user is told, as far as a property cares.
Errors == {"timeout", "other"}

\* Where workCtx matters, where ctx matters, and the deferred calls.
Timed == {"starting", "fetching", "ripping", "extracting", "recognizing", "downloading"}
Delivering == {"applying", "sending", "uploading", "sent", "failing", "telling"}
Busy == Timed \cup Delivering \cup {"cleaning", "leaving"}
InFlight == {"waiting"} \cup Busy
Places == {"new", "over", "lost"} \cup InFlight

Idle(kind, pc) ==
    [pc |-> pc, kind |-> kind, request |-> FALSE, late |-> FALSE, provider |-> 1,
     original |-> FALSE, payload |-> "none", mode |-> "full", track |-> FALSE,
     error |-> "none"]

NoRow == [status |-> "none", track |-> FALSE]

\* workCtx is done: its deadline has passed, or its parent is cancelled.
WorkDone(j) == job[j].late \/ stopping

At(j, pc) == job[j].pc = pc
Goto(j, pc) == job' = [job EXCEPT ![j].pc = pc]
Deliver(j, payload) ==
    job' = [job EXCEPT ![j].pc = "applying", ![j].payload = payload]
\* runMediaJob returns: its locals are gone, its deferred calls run.
Return(j) == job' = [job EXCEPT ![j] = Idle(job[j].kind, "cleaning")]
FailWith(j, error) ==
    job' = [job EXCEPT ![j].pc = "failing", ![j].error = error]
Say(j, what) == chat' = [chat EXCEPT ![j] = @ \cup {what}]

\* All that is not a local of a goroutine.
world == <<requests, tracks, dirs, chat, misled, unsaved, slots, process>>
unsent == <<chat, misled>>
stored == <<requests, unsaved>>

----------------------------------------------------------------------------
Init ==
    /\ \E kind \in [Jobs -> Kinds] : job = [j \in Jobs |-> Idle(kind[j], "new")]
    /\ requests = [j \in Jobs |-> NoRow]
    /\ tracks = {}
    /\ dirs = {}
    /\ chat = [j \in Jobs |-> {}]
    /\ misled = {}
    /\ unsaved = {}
    /\ slots = 0
    /\ stopping = FALSE
    /\ restarts = 0

\* createRequest, then the goroutine of the job, which arms its deadline.
CreateRequest(j) ==
    /\ At(j, "new") /\ ~stopping
    /\ requests' = [requests EXCEPT ![j].status = "processing"]
    /\ job' = [job EXCEPT ![j].pc = "waiting", ![j].request = TRUE]
    /\ UNCHANGED <<tracks, dirs, unsent, unsaved, slots, process>>

\* ensureUser or the insert fails: the job runs without a row.
CreateRequestFails(j) ==
    /\ At(j, "new")
    /\ Goto(j, "waiting")
    /\ UNCHANGED world

\* The deadline passes; once the use case has returned nobody looks at it.
Expire(j) ==
    /\ job[j].pc \in {"waiting"} \cup Timed /\ ~job[j].late
    /\ job' = [job EXCEPT ![j].late = TRUE]
    /\ UNCHANGED world

\* The wait for a worker looks at no context. The mutant lets one job too many
\* through.
AcquireWorkerOneMore(j) ==
    /\ At(j, "waiting") /\ slots <= Workers
    /\ slots' = slots + 1
    /\ Goto(j, "starting")
    /\ UNCHANGED <<requests, tracks, dirs, unsent, unsaved, process>>

AcquireWorker(j) ==
    /\ At(j, "waiting") /\ slots < Workers
    /\ slots' = slots + 1
    /\ Goto(j, "starting")
    /\ UNCHANGED <<requests, tracks, dirs, unsent, unsaved, process>>

\* MkdirAll, and where the kind of source sends the job next.
FirstStage(kind) ==
    CASE kind = "upload" -> "fetching"
      [] kind = "soundcloud" -> "ripping"
      [] kind = "instagram" -> "extracting"

MakeDir(j) ==
    /\ At(j, "starting")
    /\ dirs' = dirs \cup {j}
    /\ Goto(j, FirstStage(job[j].kind))
    /\ UNCHANGED <<requests, tracks, unsent, unsaved, slots, process>>

\* The mutant returns without delivery.Fail.
MakeDirFailsSilently(j) ==
    /\ At(j, "starting")
    /\ Return(j)
    /\ UNCHANGED world

MakeDirFails(j) ==
    /\ At(j, "starting")
    /\ FailWith(j, "other")
    /\ UNCHANGED world

\* downloadTelegramMedia: under ctx, with no deadline of its own.
FetchFile(j) ==
    /\ At(j, "fetching") /\ ~stopping
    /\ Goto(j, "extracting")
    /\ UNCHANGED world

FetchFails(j) ==
    /\ At(j, "fetching")
    /\ \E e \in Errors : FailWith(j, e)
    /\ UNCHANGED world

----------------------------------------------------------------------------
\* The use case. A SoundCloud link is downloaded as it is. A download is done
\* when its file is written, even if yt-dlp is killed after that.
RipTrack(j) ==
    /\ At(j, "ripping") /\ ~WorkDone(j)
    /\ Deliver(j, "full")
    /\ UNCHANGED world

RipFails(j) ==
    /\ At(j, "ripping")
    /\ FailWith(j, "other")
    /\ UNCHANGED world

\* Anything else: extract the original sound, recognise, download.
Extract(j) ==
    /\ At(j, "extracting") /\ ~WorkDone(j)
    /\ job' = [job EXCEPT ![j].pc = "recognizing", ![j].original = TRUE]
    /\ UNCHANGED world

ExtractFails(j) ==
    /\ At(j, "extracting")
    /\ FailWith(j, "other")
    /\ UNCHANGED world

\* A candidate that came before the deadline decides after it.
Recognize(j) ==
    /\ At(j, "recognizing")
    /\ Goto(j, "downloading")
    /\ UNCHANGED world

\* No match, an error or a deadline: deliver the original.
Unrecognized(j) ==
    /\ At(j, "recognizing")
    /\ Deliver(j, "original")
    /\ UNCHANGED world

Download(j) ==
    /\ At(j, "downloading") /\ ~WorkDone(j)
    /\ Deliver(j, "full")
    /\ UNCHANGED world

\* A provider fails or its file is rejected: try the next, if there is one.
NextProvider(j) ==
    /\ At(j, "downloading") /\ job[j].provider < Providers
    /\ job' = [job EXCEPT ![j].provider = @ + 1]
    /\ UNCHANGED world

\* No provider is left: deliver the original. The mutant fails the request.
FallBackFails(j) ==
    /\ At(j, "downloading") /\ job[j].provider = Providers
    /\ FailWith(j, "other")
    /\ UNCHANGED world

FallBack(j) ==
    /\ At(j, "downloading") /\ job[j].provider = Providers
    /\ Deliver(j, "original")
    /\ UNCHANGED world

----------------------------------------------------------------------------
\* ApplyOutputMode reads the settings when the job is done: by then the user
\* may have picked any mode. Only "original" changes the payload, and only when
\* there is an original.
ApplyMode(j, m) ==
    /\ At(j, "applying") /\ job[j].request /\ ~stopping
    /\ job' = [job EXCEPT
          ![j].pc = "sending", ![j].mode = m,
          ![j].payload = IF m = "original" /\ job[j].original THEN "original" ELSE @]
    /\ UNCHANGED world

\* Without a request, or when the settings cannot be read, nothing changes.
KeepPayload(j) ==
    /\ At(j, "applying")
    /\ Goto(j, "sending")
    /\ UNCHANGED world

\* SendAudio: the file is gone or over the upload limit.
Unsendable(j) ==
    /\ At(j, "sending")
    /\ FailWith(j, "other")
    /\ UNCHANGED world

\* A full track gets its row before the upload, so that the button can name it.
CreateTrack(j) ==
    /\ At(j, "sending") /\ job[j].payload = "full" /\ ~stopping
    /\ tracks' = tracks \cup {j}
    /\ job' = [job EXCEPT ![j].pc = "uploading", ![j].track = TRUE]
    /\ UNCHANGED <<requests, dirs, unsent, unsaved, slots, process>>

SkipTrack(j) ==
    /\ At(j, "sending")
    /\ Goto(j, "uploading")
    /\ UNCHANGED world

Upload(j) ==
    /\ At(j, "uploading") /\ ~stopping
    /\ Say(j, job[j].payload)
    /\ Goto(j, "sent")
    /\ UNCHANGED <<requests, tracks, dirs, misled, unsaved, slots, process>>

UploadFails(j) ==
    /\ At(j, "uploading")
    /\ \E e \in Errors : FailWith(j, e)
    /\ UNCHANGED world

\* Telegram has the recording but its reply is lost: the program sees an error.
UploadUnheard(j) ==
    /\ At(j, "uploading")
    /\ Say(j, job[j].payload)
    /\ misled' = misled \cup {j}
    /\ \E e \in Errors : FailWith(j, e)
    /\ UNCHANGED <<requests, tracks, dirs, unsaved, slots, process>>

----------------------------------------------------------------------------
\* finishRequest: the update finds the row, or finds it deleted by /forget, or
\* fails; no error is passed on.
Save(j, status, track) ==
    /\ job[j].request => ~stopping
    /\ requests' =
          IF job[j].request /\ requests[j].status # "none"
          THEN [requests EXCEPT ![j] = [status |-> status, track |-> track]]
          ELSE requests

\* Mutants: the row is completed before the upload; a failed request keeps the
\* track of the upload that failed.
SaveBeforeUpload(j) ==
    /\ At(j, "uploading")
    /\ Save(j, "completed", job[j].track)
    /\ Return(j)
    /\ UNCHANGED <<tracks, dirs, unsent, unsaved, slots, process>>

SaveCompleted(j) ==
    /\ At(j, "sent")
    /\ Save(j, "completed", job[j].track)
    /\ Return(j)
    /\ UNCHANGED <<tracks, dirs, unsent, unsaved, slots, process>>

SaveFailedWithTrack(j) ==
    /\ At(j, "failing")
    /\ Save(j, "failed", job[j].track)
    /\ Goto(j, "telling")
    /\ UNCHANGED <<tracks, dirs, unsent, unsaved, slots, process>>

SaveFailed(j) ==
    /\ At(j, "failing")
    /\ Save(j, "failed", FALSE)
    /\ Goto(j, "telling")
    /\ UNCHANGED <<tracks, dirs, unsent, unsaved, slots, process>>

SaveFails(j) ==
    /\ job[j].pc \in {"sent", "failing"} /\ job[j].request
    /\ unsaved' = unsaved \cup {j}
    /\ IF At(j, "sent") THEN Return(j) ELSE Goto(j, "telling")
    /\ UNCHANGED <<requests, tracks, dirs, unsent, slots, process>>

\* sendErrorMessage.
Tell(j) ==
    /\ At(j, "telling") /\ ~stopping
    /\ Say(j, "error")
    /\ Return(j)
    /\ UNCHANGED <<requests, tracks, dirs, misled, unsaved, slots, process>>

TellFails(j) ==
    /\ At(j, "telling")
    /\ Return(j)
    /\ UNCHANGED world

\* The deferred calls: the directory, then the worker. The mutants forget them.
RemoveDirForgotten(j) ==
    /\ At(j, "cleaning")
    /\ Goto(j, "leaving")
    /\ UNCHANGED world

RemoveDir(j) ==
    /\ At(j, "cleaning")
    /\ dirs' = dirs \ {j}
    /\ Goto(j, "leaving")
    /\ UNCHANGED <<requests, tracks, unsent, unsaved, slots, process>>

ReleaseWorkerForgotten(j) ==
    /\ At(j, "leaving")
    /\ job' = [job EXCEPT ![j] = Idle(job[j].kind, "over")]
    /\ UNCHANGED world

ReleaseWorker(j) ==
    /\ At(j, "leaving")
    /\ slots' = slots - 1
    /\ job' = [job EXCEPT ![j] = Idle(job[j].kind, "over")]
    /\ UNCHANGED <<requests, tracks, dirs, unsent, unsaved, process>>

----------------------------------------------------------------------------
\* The user sends /forget: the user's row goes and takes the requests with it.
Forget(j) ==
    /\ requests[j].status # "none"
    /\ requests' = [requests EXCEPT ![j] = NoRow]
    /\ UNCHANGED <<job, tracks, dirs, unsent, unsaved, slots, process>>

\* SIGTERM cancels ctx.
Stop ==
    /\ ~stopping /\ restarts < MaxRestarts
    /\ stopping' = TRUE
    /\ UNCHANGED <<job, requests, tracks, dirs, unsent, unsaved, slots, restarts>>

\* The process ends, after Stop or without, and is started again. Deferred
\* calls of jobs in flight do not run.
Exit ==
    /\ restarts < MaxRestarts
    /\ restarts' = restarts + 1
    /\ stopping' = FALSE
    /\ slots' = 0
    /\ job' = [j \in Jobs |->
          IF job[j].pc \in InFlight THEN Idle(job[j].kind, "lost") ELSE job[j]]
    /\ UNCHANGED <<requests, tracks, dirs, unsent, unsaved>>

\* What the job's goroutine does next, whatever comes back from outside.
Advance(j) ==
    \/ AcquireWorker(j) \/ MakeDir(j) \/ MakeDirFails(j)
    \/ FetchFile(j) \/ FetchFails(j) \/ RipTrack(j) \/ RipFails(j)
    \/ Extract(j) \/ ExtractFails(j) \/ Recognize(j) \/ Unrecognized(j)
    \/ Download(j) \/ NextProvider(j) \/ FallBack(j)
    \/ (\E m \in Modes : ApplyMode(j, m)) \/ KeepPayload(j) \/ Unsendable(j)
    \/ CreateTrack(j) \/ SkipTrack(j)
    \/ Upload(j) \/ UploadFails(j) \/ UploadUnheard(j)
    \/ SaveCompleted(j) \/ SaveFailed(j) \/ SaveFails(j)
    \/ Tell(j) \/ TellFails(j) \/ RemoveDir(j) \/ ReleaseWorker(j)

Next ==
    \/ \E j \in Jobs :
          \/ CreateRequest(j) \/ CreateRequestFails(j)
          \/ Expire(j)
          \/ Advance(j)
          \/ Forget(j)
    \/ Stop
    \/ Exit

Spec == Init /\ [][Next]_vars

\* Go runs the goroutines, and outside calls return in some way.
FairSpec == Spec /\ \A j \in Jobs : WF_vars(Advance(j))
----------------------------------------------------------------------------
Locals == [pc : Places, kind : Kinds, request : BOOLEAN, late : BOOLEAN,
           provider : 1..Providers, original : BOOLEAN,
           payload : Audio \cup {"none"}, mode : Modes, track : BOOLEAN,
           error : Errors \cup {"none"}]
Statuses == {"none", "processing", "completed", "failed"}

\* Every variable keeps its type.
TypeOK ==
    /\ job \in [Jobs -> Locals]
    /\ requests \in [Jobs -> [status : Statuses, track : BOOLEAN]]
    /\ tracks \subseteq Jobs
    /\ dirs \subseteq Jobs
    /\ chat \in [Jobs -> SUBSET (Audio \cup {"error"})]
    /\ misled \subseteq Jobs
    /\ unsaved \subseteq Jobs
    /\ slots \in 0..Workers
    /\ stopping \in BOOLEAN
    /\ restarts \in 0..MaxRestarts

\* A job whose goroutine is over leaves its row in progress only if its last
\* write failed: no path out of runMediaJob forgets finishRequest.
NoStuckRow ==
    \A j \in Jobs :
        At(j, "over") /\ requests[j].status = "processing" => j \in unsaved

\* A completed request names a track only if that row exists and the full
\* recording was sent with its button.
TrackLinked ==
    \A j \in Jobs :
        requests[j].track => /\ j \in tracks
                             /\ requests[j].status = "completed"
                             /\ chat[j] = {"full"}

\* Once the original sound is extracted nothing but the delivery itself can
\* fail: recognition, downloads and deadlines never cost the user the answer.
OriginalNeverLost ==
    [][\A j \in Jobs :
          job[j].original /\ ~At(j, "failing") /\ job'[j].pc = "failing" =>
              job[j].pc \in {"sending", "uploading"}]_vars

\* A work directory belongs to a job at work, or to one that a dead process
\* took with it.
DirsOwned == dirs \subseteq {j \in Jobs : job[j].pc \in Busy \cup {"lost"}}

\* What the chat and the history show keeps the promise of MediaAnswer.
Answers == INSTANCE MediaAnswer WITH status <- [j \in Jobs |-> requests[j].status]
AnswerPromise == Answers!Spec

\* To the pool all that a job does between its worker and its end is one stay.
Pool == INSTANCE WorkerPool WITH
    Capacity <- Workers,
    waiting <- {j \in Jobs : At(j, "waiting")},
    working <- {j \in Jobs : job[j].pc \in Busy},
    over <- {j \in Jobs : job[j].pc \in {"over", "lost"}}
PoolPromise == Pool!Spec

\* Every job that waits for a worker comes to its end, or dies with the process.
EveryJobEnds == \A j \in Jobs : At(j, "waiting") ~> job[j].pc \in {"over", "lost"}

\* errors.go:35 has a message for a request that ran out of time: a job whose
\* deadline had passed before its extraction began, and that fails there, says so.
TimeoutNamed ==
    \A j \in Jobs :
        [](At(j, "starting") /\ job[j].late /\ job[j].kind = "instagram" =>
              [](At(j, "failing") /\ j \in dirs => job[j].error = "timeout"))

\* Nobody waits for nothing: while all workers are taken, jobs run that will give theirs
\* back.
NoDeadlock ==
    \A j \in Jobs :
        At(j, "waiting") /\ ~(slots < Workers) => \E k \in Jobs : job[k].pc \in Busy

\* How many steps a job has left at most.
StepsLeft(j) ==
    CASE At(j, "new") -> Providers + 15
      [] At(j, "waiting") -> Providers + 14
      [] At(j, "starting") -> Providers + 13
      [] At(j, "fetching") -> Providers + 12
      [] At(j, "extracting") -> Providers + 11
      [] At(j, "recognizing") -> Providers + 10
      [] At(j, "downloading") -> (Providers - job[j].provider) + 9
      [] At(j, "ripping") -> 9
      [] At(j, "applying") -> 8
      [] At(j, "sending") -> 7
      [] At(j, "uploading") -> 6
      [] At(j, "sent") -> 5
      [] At(j, "failing") -> 4
      [] At(j, "telling") -> 3
      [] At(j, "cleaning") -> 2
      [] At(j, "leaving") -> 1
      [] OTHER -> 0

\* Each step of a job, failures and the next provider included, brings it closer to its
\* end, and nothing takes it back: no stage, no provider and no message is tried again.
Forward ==
    /\ [](\A j \in Jobs : StepsLeft(j) \in Nat)
    /\ [][\A j \in Jobs :
          /\ StepsLeft(j)' <= StepsLeft(j)
          /\ CreateRequest(j) \/ CreateRequestFails(j) \/ Advance(j)
                => StepsLeft(j)' < StepsLeft(j)]_vars
==============================================================================
