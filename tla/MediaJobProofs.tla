-------------------------- MODULE MediaJobProofs ---------------------------
(***************************************************************************)
(* Safety of MediaJob for any number of jobs, workers, downloaders and     *)
(* restarts. What is true of a job depends on that job alone: its locals,  *)
(* its row, its track, its directory and its chat. Counted ties the worker *)
(* pool to the jobs that hold a worker, Ordered(j) says how far job j can  *)
(* be at each place of its program.                                        *)
(***************************************************************************)
EXTENDS MediaJob, CountLemmas

Working == {j \in Jobs : job[j].pc \in Busy}

\* The pool's channel holds one token for each job that works.
Counted ==
    /\ IsFiniteSet(Working)
    /\ slots = Cardinality(Working)

Early == {"new", "waiting", "starting", "fetching", "ripping", "extracting"}
Heard == {"applying", "sending", "uploading", "sent"}

\* Before the upload returns the user has heard nothing; after it failed the
\* user has at most a recording that the program does not know of.
ChatInv(j) ==
    LET at == job[j].pc IN
    /\ at \in {"new", "waiting", "applying", "sending", "uploading"} \cup Timed =>
          chat[j] = {} /\ j \notin misled
    /\ at = "sent" => chat[j] = {job[j].payload} /\ j \notin misled
    /\ at \in {"failing", "telling"} =>
          "error" \notin chat[j] /\ (chat[j] # {} => j \in misled)

\* The row is in progress until the job writes its end, or fails to.
RowInv(j) ==
    LET at == job[j].pc
        status == requests[j].status
    IN
    /\ at = "new" => status = "none"
    /\ at \in {"waiting", "applying", "sending", "uploading", "sent", "failing"} \cup Timed =>
          /\ status \in {"none", "processing"}
          /\ status = "processing" => job[j].request
    /\ at \in {"telling", "cleaning", "leaving", "over"} =>
          (status = "processing" => j \in unsaved)
    /\ at = "telling" => status # "completed"

\* What the payload is, and where it comes from.
PayloadInv(j) ==
    LET at == job[j].pc IN
    /\ at \in Early => ~job[j].original
    /\ at = "ripping" => job[j].kind = "soundcloud"
    /\ at \in {"recognizing", "downloading"} => job[j].original
    /\ at \in Heard => /\ job[j].payload \in Audio
                       /\ job[j].original \/ job[j].kind = "soundcloud"
    /\ at \in Early \cup {"recognizing", "downloading", "applying"} =>
          job[j].mode = "full"
    /\ at \in Heard \ {"applying"} =>
          (job[j].mode = "original" /\ job[j].original => job[j].payload = "original")

\* A job that has created a track delivers a full recording.
TrackInv(j) ==
    LET at == job[j].pc IN
    /\ job[j].track => j \in tracks /\ job[j].payload = "full"
    /\ at \notin {"uploading", "sent", "failing", "telling"} => ~job[j].track

\* The directory is gone before the worker is returned.
DirInv(j) == j \in dirs => job[j].pc \in (Busy \ {"leaving"}) \cup {"lost"}

LinkInv(j) ==
    requests[j].track =>
        j \in tracks /\ requests[j].status = "completed" /\ chat[j] = {"full"}

Ordered(j) ==
    /\ ChatInv(j) /\ RowInv(j) /\ PayloadInv(j)
    /\ TrackInv(j) /\ DirInv(j) /\ LinkInv(j)

IInv == TypeOK /\ Counted /\ \A j \in Jobs : Ordered(j)

USE WorkersAssumption, ProvidersAssumption, RestartsAssumption

----------------------------------------------------------------------------
\* All that a step of job j may do to the others: nothing, or nothing they see.
Only(j) ==
    \A k \in Jobs \ {j} :
        /\ job'[k] = job[k]
        /\ requests'[k] = requests[k]
        /\ chat'[k] = chat[k]
        /\ k \in tracks => k \in tracks'
        /\ k \in dirs' => k \in dirs
        /\ k \in misled' <=> k \in misled
        /\ k \in unsaved' <=> k \in unsaved

\* The step takes no worker and returns none.
Unpooled(j) ==
    /\ slots' = slots
    /\ job'[j].pc \in Busy <=> job[j].pc \in Busy

\* What a job's own step keeps.
Good(j) == TypeOK' /\ Ordered(j)' /\ Only(j) /\ Unpooled(j)

Moved(j, l) ==
    /\ job' \in [Jobs -> Locals]
    /\ \A k \in Jobs \ {j} : job'[k] = job[k]
    /\ job'[j] = l

\* A failure sends the job to Delivery.Fail with its category.
LEMMA Failed ==
    ASSUME TypeOK, NEW j \in Jobs, NEW e \in Errors, FailWith(j, e)
    PROVE  Moved(j, [job[j] EXCEPT !.pc = "failing", !.error = e])
<1>1. job[j] \in Locals
  BY DEF TypeOK
<1>2. [job[j] EXCEPT !.pc = "failing", !.error = e] \in Locals
  BY <1>1 DEF Locals, Places, InFlight, Busy, Delivering
<1>3. QED
  BY <1>1, <1>2 DEF FailWith, TypeOK, Moved, Locals

\* The steps that change nothing but the job's locals.
LEMMA Quiet ==
    ASSUME TypeOK, NEW j \in Jobs, Ordered(j), UNCHANGED world,
           \/ CreateRequestFails(j)
           \/ Expire(j)
           \/ MakeDirFails(j)
           \/ FetchFile(j)
           \/ FetchFails(j)
           \/ RipTrack(j)
           \/ RipFails(j)
           \/ Extract(j)
           \/ ExtractFails(j)
           \/ Recognize(j)
           \/ Unrecognized(j)
           \/ Download(j)
           \/ NextProvider(j)
           \/ FallBack(j)
           \/ KeepPayload(j)
           \/ Unsendable(j)
           \/ SkipTrack(j)
           \/ UploadFails(j)
           \/ TellFails(j)
           \/ \E m \in Modes : ApplyMode(j, m)
    PROVE  Good(j)
<1> USE DEF TypeOK, Good, Only, Unpooled, Ordered, ChatInv, RowInv, PayloadInv, TrackInv, DirInv,
        LinkInv, At, Locals, Places, InFlight, Busy, Timed, Delivering, Early, Heard,
        Audio, Errors, Modes, world, unsent, process
<1>0. job[j] \in Locals
  OBVIOUS
<1>1. CASE CreateRequestFails(j)
  <2>1. Moved(j, [job[j] EXCEPT !.pc = "waiting"])
    BY <1>1, <1>0 DEF CreateRequestFails, Moved, Goto
  <2>2. QED
    BY <1>1, <2>1, <1>0 DEF CreateRequestFails, Moved
<1>2. CASE Expire(j)
  <2>1. Moved(j, [job[j] EXCEPT !.late = TRUE])
    BY <1>2, <1>0 DEF Expire, Moved
  <2>2. QED
    BY <1>2, <2>1, <1>0 DEF Expire, Moved
<1>3. CASE MakeDirFails(j)
  <2>1. Moved(j, [job[j] EXCEPT !.pc = "failing", !.error = "other"])
    BY <1>3, <1>0 DEF MakeDirFails, Moved, FailWith
  <2>2. QED
    BY <1>3, <2>1, <1>0 DEF MakeDirFails, Moved
<1>4. CASE FetchFile(j)
  <2>1. Moved(j, [job[j] EXCEPT !.pc = "extracting"])
    BY <1>4, <1>0 DEF FetchFile, Moved, Goto
  <2>2. QED
    BY <1>4, <2>1, <1>0 DEF FetchFile, Moved
<1>5. CASE FetchFails(j)
  <2>1. PICK e \in Errors : FailWith(j, e)
    BY <1>5 DEF FetchFails
  <2>2. Moved(j, [job[j] EXCEPT !.pc = "failing", !.error = e])
    BY <2>1, Failed
  <2>3. QED
    BY <1>5, <2>2, <1>0 DEF FetchFails, Moved
<1>6. CASE RipTrack(j)
  <2>1. Moved(j, [job[j] EXCEPT !.pc = "applying", !.payload = "full"])
    BY <1>6, <1>0 DEF RipTrack, Moved, Deliver
  <2>2. QED
    BY <1>6, <2>1, <1>0 DEF RipTrack, Moved
<1>7. CASE RipFails(j)
  <2>1. Moved(j, [job[j] EXCEPT !.pc = "failing", !.error = "other"])
    BY <1>7, <1>0 DEF RipFails, Moved, FailWith
  <2>2. QED
    BY <1>7, <2>1, <1>0 DEF RipFails, Moved
<1>8. CASE Extract(j)
  <2>1. Moved(j, [job[j] EXCEPT !.pc = "recognizing", !.original = TRUE])
    BY <1>8, <1>0 DEF Extract, Moved
  <2>2. QED
    BY <1>8, <2>1, <1>0 DEF Extract, Moved
<1>9. CASE ExtractFails(j)
  <2>1. Moved(j, [job[j] EXCEPT !.pc = "failing", !.error = "other"])
    BY <1>9, <1>0 DEF ExtractFails, Moved, FailWith
  <2>2. QED
    BY <1>9, <2>1, <1>0 DEF ExtractFails, Moved
<1>10. CASE Recognize(j)
  <2>1. Moved(j, [job[j] EXCEPT !.pc = "downloading"])
    BY <1>10, <1>0 DEF Recognize, Moved, Goto
  <2>2. QED
    BY <1>10, <2>1, <1>0 DEF Recognize, Moved
<1>11. CASE Unrecognized(j)
  <2>1. Moved(j, [job[j] EXCEPT !.pc = "applying", !.payload = "original"])
    BY <1>11, <1>0 DEF Unrecognized, Moved, Deliver
  <2>2. QED
    BY <1>11, <2>1, <1>0 DEF Unrecognized, Moved
<1>12. CASE Download(j)
  <2>1. Moved(j, [job[j] EXCEPT !.pc = "applying", !.payload = "full"])
    BY <1>12, <1>0 DEF Download, Moved, Deliver
  <2>2. QED
    BY <1>12, <2>1, <1>0 DEF Download, Moved
<1>13. CASE NextProvider(j)
  <2>1. job[j].provider + 1 \in 1..Providers
    BY <1>13, <1>0 DEF NextProvider
  <2>2. [job[j] EXCEPT !.provider = @ + 1] \in Locals
    BY <2>1, <1>0
  <2>3. Moved(j, [job[j] EXCEPT !.provider = @ + 1])
    BY <1>13, <2>2, <1>0 DEF NextProvider, Moved
  <2>4. QED
    BY <1>13, <2>2, <2>3, <1>0 DEF NextProvider, Moved
<1>14. CASE FallBack(j)
  <2>1. Moved(j, [job[j] EXCEPT !.pc = "applying", !.payload = "original"])
    BY <1>14, <1>0 DEF FallBack, Moved, Deliver
  <2>2. QED
    BY <1>14, <2>1, <1>0 DEF FallBack, Moved
<1>15. CASE KeepPayload(j)
  <2>1. Moved(j, [job[j] EXCEPT !.pc = "sending"])
    BY <1>15, <1>0 DEF KeepPayload, Moved, Goto
  <2>2. QED
    BY <1>15, <2>1, <1>0 DEF KeepPayload, Moved
<1>16. CASE Unsendable(j)
  <2>1. Moved(j, [job[j] EXCEPT !.pc = "failing", !.error = "other"])
    BY <1>16, <1>0 DEF Unsendable, Moved, FailWith
  <2>2. QED
    BY <1>16, <2>1, <1>0 DEF Unsendable, Moved
<1>17. CASE SkipTrack(j)
  <2>1. Moved(j, [job[j] EXCEPT !.pc = "uploading"])
    BY <1>17, <1>0 DEF SkipTrack, Moved, Goto
  <2>2. QED
    BY <1>17, <2>1, <1>0 DEF SkipTrack, Moved
<1>18. CASE UploadFails(j)
  <2>1. PICK e \in Errors : FailWith(j, e)
    BY <1>18 DEF UploadFails
  <2>2. Moved(j, [job[j] EXCEPT !.pc = "failing", !.error = e])
    BY <2>1, Failed
  <2>3. QED
    BY <1>18, <2>2, <1>0 DEF UploadFails, Moved
<1>19. CASE \E m \in Modes : ApplyMode(j, m)
  <2>1. PICK m \in Modes : ApplyMode(j, m)
    BY <1>19
  <2>2. Moved(j, [job[j] EXCEPT !.pc = "sending", !.mode = m,
            !.payload = IF m = "original" /\ job[j].original THEN "original" ELSE @])
    BY <2>1, <1>0 DEF ApplyMode, Moved
  <2>3. QED
    BY <2>1, <2>2, <1>0 DEF ApplyMode, Moved
<1>20. CASE TellFails(j)
  <2>1. Moved(j, Idle(job[j].kind, "cleaning"))
    BY <1>20, <1>0 DEF TellFails, Moved, Return, Idle
  <2>2. QED
    BY <1>20, <2>1, <1>0 DEF TellFails, Moved, Idle
<1>21. QED
  BY <1>1, <1>2, <1>3, <1>4, <1>5, <1>6, <1>7, <1>8, <1>9, <1>10, <1>11, <1>12, <1>13, <1>14, <1>15, <1>16, <1>17, <1>18, <1>19, <1>20

\* One more thing is in the chat of one job.
LEMMA Said ==
    ASSUME TypeOK, NEW j \in Jobs, NEW what \in Audio \cup {"error"}, Say(j, what)
    PROVE  /\ chat' \in [Jobs -> SUBSET (Audio \cup {"error"})]
           /\ chat'[j] = chat[j] \cup {what}
           /\ \A k \in Jobs \ {j} : chat'[k] = chat[k]
BY DEF TypeOK, Say

\* The steps that change a row, a directory, a track or the chat.
LEMMA Loud ==
    ASSUME TypeOK, NEW j \in Jobs, Ordered(j),
           \/ CreateRequest(j)
           \/ MakeDir(j)
           \/ CreateTrack(j)
           \/ Upload(j)
           \/ UploadUnheard(j)
           \/ SaveCompleted(j)
           \/ SaveFailed(j)
           \/ SaveFails(j)
           \/ Tell(j)
           \/ RemoveDir(j)
           \/ Forget(j)
    PROVE  Good(j)
<1> USE DEF TypeOK, Good, Only, Unpooled, Ordered, ChatInv, RowInv, PayloadInv, TrackInv,
        DirInv, LinkInv, At, Locals, Places, InFlight, Busy, Timed, Delivering, Early,
        Heard, Audio, Errors, Modes, Statuses, unsent, process
<1>0. job[j] \in Locals /\ Idle(job[j].kind, "cleaning") \in Locals
  BY DEF Idle
<1>1. CASE CreateRequest(j)
  <2>1. Moved(j, [job[j] EXCEPT !.pc = "waiting", !.request = TRUE])
    BY <1>1, <1>0 DEF CreateRequest, Moved
  <2>2. QED
    BY <1>1, <2>1, <1>0 DEF CreateRequest, Moved
<1>2. CASE MakeDir(j)
  <2>1. FirstStage(job[j].kind) = CASE job[j].kind = "upload" -> "fetching"
                                    [] job[j].kind = "soundcloud" -> "ripping"
                                    [] job[j].kind = "instagram" -> "extracting"
    BY DEF FirstStage
  <2>2. /\ FirstStage(job[j].kind) \in {"fetching", "ripping", "extracting"}
        /\ FirstStage(job[j].kind) = "ripping" => job[j].kind = "soundcloud"
    BY <2>1, <1>0 DEF Kinds
  <2>3. Moved(j, [job[j] EXCEPT !.pc = FirstStage(job[j].kind)])
    BY <1>2, <2>2, <1>0 DEF MakeDir, Moved, Goto
  <2>4. QED
    BY <1>2, <2>2, <2>3, <1>0 DEF MakeDir, Moved
<1>3. CASE CreateTrack(j)
  <2>1. Moved(j, [job[j] EXCEPT !.pc = "uploading", !.track = TRUE])
    BY <1>3, <1>0 DEF CreateTrack, Moved
  <2>2. QED
    BY <1>3, <2>1, <1>0 DEF CreateTrack, Moved
<1>4. CASE Upload(j)
  <2>1. Moved(j, [job[j] EXCEPT !.pc = "sent"])
    BY <1>4, <1>0 DEF Upload, Moved, Goto
  <2>2. job[j].payload \in Audio /\ chat[j] = {}
    BY <1>4 DEF Upload
  <2>3. /\ chat' \in [Jobs -> SUBSET (Audio \cup {"error"})]
        /\ chat'[j] = {job[j].payload}
        /\ \A k \in Jobs \ {j} : chat'[k] = chat[k]
    BY <1>4, <2>2, Said DEF Upload
  <2>4. QED
    BY <1>4, <2>1, <2>2, <2>3, <1>0 DEF Upload, Moved
<1>5. CASE UploadUnheard(j)
  <2>1. PICK e \in Errors : FailWith(j, e)
    BY <1>5 DEF UploadUnheard
  <2>2. Moved(j, [job[j] EXCEPT !.pc = "failing", !.error = e])
    BY <2>1, Failed
  <2>3. job[j].payload \in Audio /\ chat[j] = {}
    BY <1>5 DEF UploadUnheard
  <2>4. /\ chat' \in [Jobs -> SUBSET (Audio \cup {"error"})]
        /\ chat'[j] = {job[j].payload}
        /\ \A k \in Jobs \ {j} : chat'[k] = chat[k]
    BY <1>5, <2>3, Said DEF UploadUnheard
  <2>5. QED
    BY <1>5, <2>2, <2>3, <2>4, <1>0 DEF UploadUnheard, Moved
<1>6. CASE SaveCompleted(j)
  <2>1. Moved(j, Idle(job[j].kind, "cleaning"))
    BY <1>6, <1>0 DEF SaveCompleted, Moved, Return
  <2>2. QED
    BY <1>6, <2>1, <1>0 DEF SaveCompleted, Save, Moved, Idle
<1>7. CASE SaveFailed(j)
  <2>1. Moved(j, [job[j] EXCEPT !.pc = "telling"])
    BY <1>7, <1>0 DEF SaveFailed, Moved, Goto
  <2>2. QED
    BY <1>7, <2>1, <1>0 DEF SaveFailed, Save, Moved
<1>8. CASE SaveFails(j)
  <2>1. CASE At(j, "sent")
    <3>1. Moved(j, Idle(job[j].kind, "cleaning"))
      BY <1>8, <2>1, <1>0 DEF SaveFails, Moved, Return
    <3>2. QED
      BY <1>8, <2>1, <3>1, <1>0 DEF SaveFails, Moved, Idle
  <2>2. CASE At(j, "failing")
    <3>1. Moved(j, [job[j] EXCEPT !.pc = "telling"])
      BY <1>8, <2>2, <1>0 DEF SaveFails, Moved, Goto
    <3>2. QED
      BY <1>8, <2>2, <3>1, <1>0 DEF SaveFails, Moved
  <2>3. QED
    BY <1>8, <2>1, <2>2 DEF SaveFails
<1>9. CASE Tell(j)
  <2>1. Moved(j, Idle(job[j].kind, "cleaning"))
    BY <1>9, <1>0 DEF Tell, Moved, Return
  <2>2. /\ chat' \in [Jobs -> SUBSET (Audio \cup {"error"})]
        /\ \A k \in Jobs \ {j} : chat'[k] = chat[k]
    BY <1>9, Said DEF Tell
  <2>3. QED
    BY <1>9, <2>1, <2>2, <1>0 DEF Tell, Moved, Idle
<1>10. CASE RemoveDir(j)
  <2>1. Moved(j, [job[j] EXCEPT !.pc = "leaving"])
    BY <1>10, <1>0 DEF RemoveDir, Moved, Goto
  <2>2. QED
    BY <1>10, <2>1, <1>0 DEF RemoveDir, Moved
<1>11. CASE Forget(j)
  BY <1>11, <1>0 DEF Forget, NoRow
<1>12. QED
  BY <1>1, <1>2, <1>3, <1>4, <1>5, <1>6, <1>7, <1>8, <1>9, <1>10, <1>11

\* What is true of a job stays true while the others move.
LEMMA Framed ==
    ASSUME NEW j \in Jobs, Only(j), NEW k \in Jobs \ {j}, Ordered(k)
    PROVE  Ordered(k)'
BY DEF Only, Ordered, ChatInv, RowInv, PayloadInv, TrackInv, DirInv, LinkInv

\* A good step keeps the invariant.
LEMMA GoodKeeps ==
    ASSUME IInv, NEW j \in Jobs, Good(j)
    PROVE  IInv'
<1>1. TypeOK' /\ \A k \in Jobs : Ordered(k)'
  BY Framed DEF IInv, Good
<1>2. Working' = Working
  BY DEF Good, Only, Unpooled, Working
<1>3. Counted'
  BY <1>2 DEF IInv, Good, Unpooled, Counted
<1>4. QED
  BY <1>1, <1>3 DEF IInv

\* Taking a worker adds one to the channel and to the jobs that work.
LEMMA AcquireKeeps ==
    ASSUME IInv, NEW j \in Jobs, AcquireWorker(j)
    PROVE  IInv'
<1>1. job[j] \in Locals /\ Ordered(j) /\ job[j].pc = "waiting"
  BY DEF IInv, TypeOK, AcquireWorker, At
<1>2. Moved(j, [job[j] EXCEPT !.pc = "starting"])
  BY <1>1 DEF IInv, TypeOK, AcquireWorker, Goto, Moved, Locals, Places, InFlight, Busy, Timed
<1>3. Only(j) /\ Ordered(j)'
  BY <1>1, <1>2 DEF AcquireWorker, Moved, Only, Ordered, ChatInv, RowInv, PayloadInv,
     TrackInv, DirInv, LinkInv, Locals, Timed, Early, Heard, Busy, Delivering, unsent, process
<1>4. j \notin Working /\ Working' = Working \cup {j}
  BY <1>1, <1>2 DEF Working, Moved, Locals, Busy, Timed, Delivering
<1>5. Counted'
  BY <1>4, CardAdd DEF IInv, Counted, AcquireWorker
<1>6. TypeOK'
  BY <1>2 DEF IInv, TypeOK, Moved, AcquireWorker, unsent, process
<1>7. QED
  BY <1>3, <1>5, <1>6, Framed DEF IInv

\* Returning it takes one from both: the channel was not empty.
LEMMA ReleaseKeeps ==
    ASSUME IInv, NEW j \in Jobs, ReleaseWorker(j)
    PROVE  IInv'
<1>1. job[j] \in Locals /\ Ordered(j) /\ job[j].pc = "leaving"
  BY DEF IInv, TypeOK, ReleaseWorker, At
<1>2. Moved(j, Idle(job[j].kind, "over"))
  BY <1>1 DEF IInv, TypeOK, ReleaseWorker, Moved, Idle, Locals, Places, Modes
<1>3. Only(j) /\ Ordered(j)'
  BY <1>1, <1>2 DEF ReleaseWorker, Moved, Only, Ordered, ChatInv, RowInv, PayloadInv,
     TrackInv, DirInv, LinkInv, Idle, Timed, Early, Heard, Busy, Delivering, unsent, process
<1>4. j \in Working /\ Working' = Working \ {j}
  BY <1>1, <1>2 DEF Working, Moved, Idle, Busy, Timed, Delivering
<1>5. Counted' /\ slots \in Nat \ {0}
  BY <1>4, CardRemove DEF IInv, Counted, ReleaseWorker
<1>6. TypeOK'
  BY <1>2, <1>5 DEF IInv, TypeOK, Moved, ReleaseWorker, unsent, process
<1>7. QED
  BY <1>3, <1>5, <1>6, Framed DEF IInv

\* The process ends: jobs in flight are lost, the channel starts empty.
LEMMA ExitKeeps ==
    ASSUME IInv, Exit
    PROVE  IInv'
<1>1. /\ \A j \in Jobs : job[j] \in Locals
      /\ \A j \in Jobs : Idle(job[j].kind, "lost") \in Locals
  BY DEF IInv, TypeOK, Idle, Locals, Places, Modes
<1>2. /\ job' \in [Jobs -> Locals]
      /\ \A j \in Jobs : job'[j] = IF job[j].pc \in InFlight
                                  THEN Idle(job[j].kind, "lost") ELSE job[j]
  BY <1>1 DEF Exit
<1>3. TypeOK'
  <2>1. restarts \in 0..MaxRestarts
    BY DEF IInv, TypeOK
  <2>2. restarts' \in 0..MaxRestarts /\ slots' \in 0..Workers /\ stopping' \in BOOLEAN
    <3>1. restarts' \in 0..MaxRestarts
      BY <2>1, restarts < MaxRestarts, restarts' = restarts + 1 DEF Exit
    <3>2. slots' \in 0..Workers
      BY slots' = 0 DEF Exit
    <3>3. QED
      BY <3>1, <3>2 DEF Exit
  <2>3. UNCHANGED <<requests, tracks, dirs, chat, misled, unsaved>>
    BY DEF Exit, unsent
  <2>4. QED
    BY <1>2, <2>2, <2>3 DEF IInv, TypeOK
<1>4. Working' = {}
  BY <1>2 DEF Working, InFlight, Idle, Busy, Timed, Delivering
<1>5. Counted'
  BY <1>4, FS_EmptySet DEF Counted, Exit
<1>6. ASSUME NEW j \in Jobs PROVE Ordered(j)'
  BY <1>1, <1>2 DEF IInv, Ordered, ChatInv, RowInv, PayloadInv, TrackInv, DirInv, LinkInv,
     Exit, Idle, InFlight, Timed, Early, Heard, Busy, Delivering, unsent
<1>7. QED
  BY <1>3, <1>5, <1>6 DEF IInv

----------------------------------------------------------------------------
\* The invariant holds initially.
LEMMA InvInit == Init => IInv
<1> SUFFICES ASSUME Init PROVE IInv
  OBVIOUS
<1>1. PICK kind \in [Jobs -> Kinds] : job = [j \in Jobs |-> Idle(kind[j], "new")]
  BY DEF Init
<1>2. \A j \in Jobs : kind[j] \in Kinds /\ job[j] = Idle(kind[j], "new")
  BY <1>1 DEF Idle
<1>3. TypeOK
  <2>1. \A j \in Jobs : Idle(kind[j], "new") \in Locals
    BY <1>2 DEF Idle, Locals, Places, Modes
  <2>2. job \in [Jobs -> Locals]
    BY <1>1, <2>1
  <2>3. /\ requests \in [Jobs -> [status : Statuses, track : BOOLEAN]]
        /\ slots \in 0..Workers /\ restarts \in 0..MaxRestarts
    BY DEF Init, NoRow, Statuses
  <2>4. QED
    BY <2>2, <2>3 DEF Init, TypeOK
<1>4. Working = {}
  <2>1. ASSUME NEW j \in Jobs PROVE job[j].pc = "new"
    <3>1. job[j] = Idle(kind[j], "new")
      BY <1>2
    <3>2. QED
      BY <3>1 DEF Idle
  <2>2. QED
    BY <2>1 DEF Working, Busy, Timed, Delivering
<1>5. Counted
  BY <1>4, FS_EmptySet DEF Init, Counted
<1>6. ASSUME NEW j \in Jobs PROVE Ordered(j)
  BY <1>2 DEF Init, Ordered, ChatInv, RowInv, PayloadInv, TrackInv, DirInv, LinkInv,
     Idle, NoRow, Timed, Early, Heard
<1>7. QED
  BY <1>3, <1>5, <1>6 DEF IInv

\* Every step keeps it.
LEMMA InvNext == IInv /\ [Next]_vars => IInv'
<1> SUFFICES ASSUME IInv, [Next]_vars PROVE IInv'
  OBVIOUS
<1>1. TypeOK /\ \A j \in Jobs : Ordered(j)
  BY DEF IInv
<1>2. ASSUME NEW j \in Jobs, CreateRequest(j) \/ CreateRequestFails(j) \/ Expire(j)
                               \/ Advance(j) \/ Forget(j)
      PROVE  IInv'
  <2>1. CASE AcquireWorker(j)
    BY <2>1, AcquireKeeps
  <2>2. CASE ReleaseWorker(j)
    BY <2>2, ReleaseKeeps
  <2>3. CASE ~AcquireWorker(j) /\ ~ReleaseWorker(j)
    <3>1. Good(j)
      BY <1>1, <1>2, <2>3, Quiet, Loud DEF Advance, CreateRequestFails, Expire, MakeDirFails,
         FetchFile, FetchFails, RipTrack, RipFails, Extract, ExtractFails, Recognize,
         Unrecognized, Download, NextProvider, FallBack, ApplyMode, KeepPayload,
         Unsendable, SkipTrack, UploadFails, TellFails
    <3>2. QED
      BY <3>1, GoodKeeps
  <2>4. QED
    BY <2>1, <2>2, <2>3
<1>3. CASE Stop
  BY <1>3 DEF IInv, TypeOK, Counted, Working, Ordered, ChatInv, RowInv, PayloadInv,
     TrackInv, DirInv, LinkInv, Stop, unsent
<1>4. CASE UNCHANGED vars
  BY <1>4 DEF IInv, TypeOK, Counted, Working, Ordered, ChatInv, RowInv, PayloadInv,
     TrackInv, DirInv, LinkInv, vars, process
<1>5. QED
  BY <1>2, <1>3, <1>4, ExitKeeps DEF Next

\* IInv is an invariant of the specification.
THEOREM Inductive == Spec => []IInv
BY InvInit, InvNext, PTL DEF Spec

\* Every variable keeps its type; in particular the pool's channel holds no
\* more tokens than it has room for.
THEOREM TypeCorrect == Spec => []TypeOK
<1>1. IInv => TypeOK
  BY DEF IInv
<1>2. QED
  BY <1>1, Inductive, PTL

\* Whatever path a job takes out of runMediaJob, its row is not left in
\* progress unless the write itself failed.
THEOREM RowsClosed == Spec => []NoStuckRow
<1>1. IInv => NoStuckRow
  BY DEF IInv, Ordered, RowInv, NoStuckRow, At
<1>2. QED
  BY <1>1, Inductive, PTL

\* A row that names a track is that of a full recording the user has received.
THEOREM TracksLinked == Spec => []TrackLinked
<1>1. IInv => TrackLinked
  BY DEF IInv, Ordered, LinkInv, TrackLinked
<1>2. QED
  BY <1>1, Inductive, PTL

\* No directory outlives its job, unless the process died with the job.
THEOREM DirsCorrect == Spec => []DirsOwned
<1>1. IInv => DirsOwned
  BY DEF IInv, TypeOK, Ordered, DirInv, DirsOwned
<1>2. QED
  BY <1>1, Inductive, PTL

----------------------------------------------------------------------------
\* Where a job may come from when it starts to fail.
LEMMA FailsFrom ==
    ASSUME TypeOK, Next, NEW k \in Jobs, job[k].pc # "failing", job'[k].pc = "failing"
    PROVE  job[k].pc \in Early \cup {"sending", "uploading"}
<1>1. PICK j \in Jobs : CreateRequest(j) \/ CreateRequestFails(j) \/ Expire(j)
                            \/ Advance(j) \/ Forget(j)
  BY DEF Next, Stop, Exit, Idle
<1>2. job[j] \in Locals /\ job[k] \in Locals
  BY DEF TypeOK
<1>3. CASE \/ MakeDirFails(j) \/ FetchFails(j) \/ RipFails(j) \/ ExtractFails(j)
           \/ Unsendable(j) \/ UploadFails(j) \/ UploadUnheard(j)
  BY <1>2, <1>3 DEF TypeOK, Locals, At, FailWith, Early, MakeDirFails, FetchFails, RipFails,
     ExtractFails, Unsendable, UploadFails, UploadUnheard
<1>4. CASE \/ SaveCompleted(j) \/ Tell(j) \/ TellFails(j)
  BY <1>2, <1>4 DEF TypeOK, Return, Idle, SaveCompleted, Tell, TellFails
<1>5. CASE \/ ReleaseWorker(j) \/ Forget(j)
  BY <1>2, <1>5 DEF TypeOK, Idle, ReleaseWorker, Forget
<1>6. CASE \/ CreateRequest(j) \/ CreateRequestFails(j) \/ Expire(j) \/ AcquireWorker(j)
           \/ FetchFile(j) \/ RipTrack(j) \/ Extract(j) \/ Recognize(j) \/ Unrecognized(j)
           \/ Download(j) \/ NextProvider(j) \/ FallBack(j)
  BY <1>2, <1>6 DEF TypeOK, Locals, Goto, Deliver, CreateRequest, CreateRequestFails, Expire,
     AcquireWorker, FetchFile, RipTrack, Extract, Recognize, Unrecognized, Download,
     NextProvider, FallBack
<1>7. CASE MakeDir(j)
  <2>1. FirstStage(job[j].kind) # "failing"
    BY <1>2 DEF FirstStage, Locals, Kinds
  <2>2. QED
    BY <1>2, <1>7, <2>1 DEF TypeOK, Locals, Goto, MakeDir
<1>8. CASE \E m \in Modes : ApplyMode(j, m)
  <2>1. PICK m \in Modes : ApplyMode(j, m)
    BY <1>8
  <2>2. CASE k = j
    BY <1>2, <2>1, <2>2 DEF TypeOK, Locals, ApplyMode
  <2>3. CASE k # j
    BY <2>1, <2>3 DEF TypeOK, ApplyMode
  <2>4. QED
    BY <2>2, <2>3
<1>9. CASE CreateTrack(j)
  <2>1. CASE k = j
    BY <1>2, <1>9, <2>1 DEF TypeOK, Locals, CreateTrack
  <2>2. CASE k # j
    BY <1>9, <2>2 DEF TypeOK, CreateTrack
  <2>3. QED
    BY <2>1, <2>2
<1>10. CASE KeepPayload(j) \/ SkipTrack(j) \/ Upload(j) \/ SaveFailed(j) \/ RemoveDir(j)
  <2>1. PICK p \in {"sending", "uploading", "sent", "telling", "leaving"} : Goto(j, p)
    BY <1>10 DEF KeepPayload, SkipTrack, Upload, SaveFailed, RemoveDir
  <2>2. QED
    BY <1>2, <2>1 DEF TypeOK, Locals, Goto
<1>11. CASE SaveFails(j)
  <2>1. CASE At(j, "sent")
    BY <1>2, <1>11, <2>1 DEF TypeOK, SaveFails, Return, Idle
  <2>2. CASE ~At(j, "sent")
    BY <1>2, <1>11, <2>2 DEF TypeOK, Locals, SaveFails, Goto
  <2>3. QED
    BY <2>1, <2>2
<1>12. QED
  BY <1>1, <1>3, <1>4, <1>5, <1>6, <1>7, <1>8, <1>9, <1>10, <1>11 DEF Advance

\* Once there is an original sound, only the delivery can still fail.
THEOREM OriginalKept == Spec => OriginalNeverLost
<1>1. IInv /\ [Next]_vars =>
        [\A j \in Jobs :
          job[j].original /\ ~At(j, "failing") /\ job'[j].pc = "failing" =>
              job[j].pc \in {"sending", "uploading"}]_vars
  <2> SUFFICES ASSUME IInv, Next, NEW j \in Jobs, job[j].original, ~At(j, "failing"),
                      job'[j].pc = "failing"
               PROVE  job[j].pc \in {"sending", "uploading"}
    OBVIOUS
  <2>1. job[j].pc \in Early \cup {"sending", "uploading"}
    BY FailsFrom DEF IInv, At
  <2>2. job[j].pc \notin Early
    BY DEF IInv, Ordered, PayloadInv
  <2>3. QED
    BY <2>1, <2>2
<1>2. QED
  BY <1>1, Inductive, PTL DEF Spec, OriginalNeverLost

----------------------------------------------------------------------------
\* When no worker is free some job holds one.
THEOREM NoDeadlockCorrect == Spec => []NoDeadlock
<1>1. IInv => NoDeadlock
  <2> SUFFICES ASSUME IInv, ~(slots < Workers)
               PROVE  \E k \in Jobs : job[k].pc \in Busy
    BY DEF NoDeadlock
  <2>1. slots > 0 /\ slots = Cardinality(Working)
    BY DEF IInv, TypeOK, Counted
  <2>2. Working # {}
    BY <2>1, FS_EmptySet
  <2>3. QED
    BY <2>2 DEF Working
<1>2. QED
  BY <1>1, Inductive, PTL

\* The number of steps, as a function of a job's locals.
Remaining(l) ==
    CASE l.pc = "new" -> Providers + 15
      [] l.pc = "waiting" -> Providers + 14
      [] l.pc = "starting" -> Providers + 13
      [] l.pc = "fetching" -> Providers + 12
      [] l.pc = "extracting" -> Providers + 11
      [] l.pc = "recognizing" -> Providers + 10
      [] l.pc = "downloading" -> (Providers - l.provider) + 9
      [] l.pc = "ripping" -> 9
      [] l.pc = "applying" -> 8
      [] l.pc = "sending" -> 7
      [] l.pc = "uploading" -> 6
      [] l.pc = "sent" -> 5
      [] l.pc = "failing" -> 4
      [] l.pc = "telling" -> 3
      [] l.pc = "cleaning" -> 2
      [] l.pc = "leaving" -> 1
      [] OTHER -> 0

\* It counts the steps of a job, and is a natural number.
LEMMA RemainingSteps ==
    /\ \A j : StepsLeft(j) = Remaining(job[j]) /\ StepsLeft(j)' = Remaining(job'[j])
    /\ \A l \in Locals : Remaining(l) \in Nat
<1>1. \A j : StepsLeft(j) = Remaining(job[j]) /\ StepsLeft(j)' = Remaining(job'[j])
  BY DEF StepsLeft, Remaining, At
<1>2. ASSUME NEW l \in Locals PROVE Remaining(l) \in Nat
  <2>1. Providers \in Nat /\ Providers - l.provider \in Nat
    BY DEF Locals
  <2>2. QED
    BY <2>1 DEF Remaining
<1>3. QED
  BY <1>1, <1>2

\* How a job's place and provider may change by its own steps.
Closer(l, m) ==
    \/ l.pc = "new" /\ m.pc = "waiting"
    \/ l.pc = "waiting" /\ m.pc = "starting"
    \/ l.pc = "starting" /\ m.pc \in {"fetching", "ripping", "extracting", "failing"}
    \/ l.pc = "fetching" /\ m.pc \in {"extracting", "failing"}
    \/ l.pc = "extracting" /\ m.pc \in {"recognizing", "failing"}
    \/ l.pc = "recognizing" /\ m.pc \in {"downloading", "applying"}
    \/ l.pc = "downloading" /\ m.pc = "downloading" /\ m.provider = l.provider + 1
    \/ l.pc \in {"downloading", "ripping"} /\ m.pc \in {"applying", "failing"}
    \/ l.pc = "applying" /\ m.pc = "sending"
    \/ l.pc = "sending" /\ m.pc \in {"uploading", "failing"}
    \/ l.pc = "uploading" /\ m.pc \in {"sent", "failing"}
    \/ l.pc = "sent" /\ m.pc = "cleaning"
    \/ l.pc = "failing" /\ m.pc = "telling"
    \/ l.pc = "telling" /\ m.pc = "cleaning"
    \/ l.pc = "cleaning" /\ m.pc = "leaving"
    \/ l.pc = "leaving" /\ m.pc = "over"

\* Then fewer steps are left.
LEMMA CloserLess ==
    ASSUME NEW l \in Locals, NEW m \in Locals, Closer(l, m)
    PROVE  Remaining(m) < Remaining(l)
<1>1. /\ l.provider \in Nat /\ l.provider >= 1 /\ l.provider <= Providers
      /\ m.provider \in Nat /\ m.provider >= 1 /\ m.provider <= Providers
      /\ Providers \in Nat
  BY DEF Locals
<1>2. CASE l.pc = "downloading"
  BY <1>1, <1>2 DEF Closer, Remaining
<1>3. CASE l.pc = "recognizing"
  BY <1>1, <1>3 DEF Closer, Remaining
<1>4. CASE l.pc \in {"new", "waiting", "starting", "fetching", "extracting"}
  BY <1>1, <1>4 DEF Closer, Remaining
<1>5. CASE l.pc \notin {"new", "waiting", "starting", "fetching", "extracting", "recognizing",
                        "downloading"}
  BY <1>1, <1>5 DEF Closer, Remaining
<1>6. QED
  BY <1>2, <1>3, <1>4, <1>5

\* The other jobs stay where they are.
OthersStay(j) == \A k \in Jobs \ {j} : job'[k] = job[k]

\* Where the ways to move a job take it.
LEMMA Went ==
    ASSUME TypeOK, NEW j \in Jobs
    PROVE  /\ \A pc : Goto(j, pc) => job'[j].pc = pc /\ OthersStay(j)
           /\ \A e : FailWith(j, e) => job'[j].pc = "failing" /\ OthersStay(j)
           /\ \A p : Deliver(j, p) => job'[j].pc = "applying" /\ OthersStay(j)
           /\ Return(j) => job'[j].pc = "cleaning" /\ OthersStay(j)
<1>1. job \in [Jobs -> Locals] /\ job[j] \in Locals
  BY DEF TypeOK
<1>2. ASSUME NEW pc, Goto(j, pc) PROVE job'[j].pc = pc /\ OthersStay(j)
  BY <1>1, <1>2 DEF Goto, OthersStay, Locals
<1>3. ASSUME NEW e, FailWith(j, e) PROVE job'[j].pc = "failing" /\ OthersStay(j)
  BY <1>1, <1>3 DEF FailWith, OthersStay, Locals
<1>4. ASSUME NEW p, Deliver(j, p) PROVE job'[j].pc = "applying" /\ OthersStay(j)
  BY <1>1, <1>4 DEF Deliver, OthersStay, Locals
<1>5. ASSUME Return(j) PROVE job'[j].pc = "cleaning" /\ OthersStay(j)
  BY <1>1, <1>5 DEF Return, OthersStay, Idle
<1>6. QED
  BY <1>2, <1>3, <1>4, <1>5

\* Every step of a job's own brings it closer to its end, and no other job anywhere.
LEMMA StepsOwn ==
    ASSUME TypeOK, NEW j \in Jobs, CreateRequest(j) \/ CreateRequestFails(j) \/ Advance(j)
    PROVE  Closer(job[j], job'[j]) /\ OthersStay(j)
<1>0. job \in [Jobs -> Locals] /\ job[j] \in Locals
  BY DEF TypeOK
<1>1. CASE CreateRequestFails(j) \/ AcquireWorker(j)
  BY <1>1, Went DEF CreateRequestFails, AcquireWorker, At, Closer
<1>2. CASE CreateRequest(j)
  <2>1. job'[j].pc = "waiting" /\ OthersStay(j)
    BY <1>0, <1>2 DEF CreateRequest, OthersStay, Locals
  <2>2. QED
    BY <1>2, <2>1 DEF CreateRequest, At, Closer
<1>3. CASE MakeDir(j) \/ MakeDirFails(j)
  <2>1. FirstStage(job[j].kind) \in {"fetching", "ripping", "extracting"}
    BY <1>0 DEF FirstStage, Locals, Kinds
  <2>2. QED
    BY <1>3, <2>1, Went DEF MakeDir, MakeDirFails, At, Closer
<1>4. CASE FetchFile(j) \/ FetchFails(j) \/ RipTrack(j) \/ RipFails(j) \/ ExtractFails(j)
  BY <1>4, Went DEF FetchFile, FetchFails, RipTrack, RipFails, ExtractFails, At, Closer
<1>5. CASE Extract(j)
  <2>1. job'[j].pc = "recognizing" /\ OthersStay(j)
    BY <1>0, <1>5 DEF Extract, OthersStay, Locals
  <2>2. QED
    BY <1>5, <2>1 DEF Extract, At, Closer
<1>6. CASE Recognize(j) \/ Unrecognized(j) \/ Download(j) \/ FallBack(j)
  BY <1>6, Went DEF Recognize, Unrecognized, Download, FallBack, At, Closer
<1>7. CASE NextProvider(j)
  <2>1. job'[j].pc = job[j].pc /\ job'[j].provider = job[j].provider + 1 /\ OthersStay(j)
    BY <1>0, <1>7 DEF NextProvider, OthersStay, Locals
  <2>2. QED
    BY <1>7, <2>1 DEF NextProvider, At, Closer
<1>8. CASE \E m \in Modes : ApplyMode(j, m)
  <2>1. job'[j].pc = "sending" /\ OthersStay(j)
    BY <1>0, <1>8 DEF ApplyMode, OthersStay, Locals
  <2>2. QED
    BY <1>8, <2>1 DEF ApplyMode, At, Closer
<1>9. CASE CreateTrack(j)
  <2>1. PICK yes : yes = TRUE
    OBVIOUS
  <2>2. job' = [job EXCEPT ![j].pc = "uploading", ![j].track = yes]
    BY <1>9, <2>1 DEF CreateTrack
  <2>3. job'[j].pc = "uploading" /\ OthersStay(j)
    BY <1>0, <2>2 DEF OthersStay, Locals
  <2>4. QED
    BY <1>9, <2>3 DEF CreateTrack, At, Closer
<1>10. CASE KeepPayload(j) \/ Unsendable(j) \/ SkipTrack(j)
  BY <1>10, Went DEF KeepPayload, Unsendable, SkipTrack, At, Closer
<1>11. CASE Upload(j) \/ UploadFails(j) \/ UploadUnheard(j)
  BY <1>11, Went DEF Upload, UploadFails, UploadUnheard, At, Closer
<1>12. CASE SaveCompleted(j) \/ SaveFailed(j)
  BY <1>12, Went DEF SaveCompleted, SaveFailed, At, Closer
<1>13. CASE SaveFails(j)
  BY <1>13, Went DEF SaveFails, At, Closer
<1>14. CASE Tell(j) \/ TellFails(j) \/ RemoveDir(j)
  BY <1>14, Went DEF Tell, TellFails, RemoveDir, At, Closer
<1>15. CASE ReleaseWorker(j)
  <2>1. job'[j].pc = "over" /\ OthersStay(j)
    BY <1>0, <1>15 DEF ReleaseWorker, OthersStay, Idle
  <2>2. QED
    BY <1>15, <2>1 DEF ReleaseWorker, At, Closer
<1>16. QED
  BY <1>1, <1>2, <1>3, <1>4, <1>5, <1>6, <1>7, <1>8, <1>9, <1>10, <1>11, <1>12, <1>13, <1>14,
     <1>15 DEF Advance

\* Jobs only move forward, each within its Providers + 15 steps.
THEOREM ForwardCorrect == Spec => Forward
<1> DEFINE Own(j) == CreateRequest(j) \/ CreateRequestFails(j) \/ Advance(j)
<1>1. IInv /\ IInv' /\ [Next]_vars =>
          [\A j \in Jobs : /\ StepsLeft(j)' <= StepsLeft(j)
                           /\ Own(j) => StepsLeft(j)' < StepsLeft(j)]_vars
  <2> SUFFICES ASSUME IInv, IInv', [Next]_vars, NEW j \in Jobs
               PROVE  /\ StepsLeft(j)' <= StepsLeft(j)
                      /\ Own(j) => StepsLeft(j)' < StepsLeft(j)
    OBVIOUS
  <2>1. /\ TypeOK /\ job[j] \in Locals /\ job'[j] \in Locals
        /\ Remaining(job[j]) \in Nat /\ Remaining(job'[j]) \in Nat
    BY RemainingSteps DEF IInv, TypeOK
  <2>2. SUFFICES /\ Remaining(job'[j]) <= Remaining(job[j])
                 /\ Own(j) => Remaining(job'[j]) < Remaining(job[j])
    BY RemainingSteps
  <2>3. CreateRequest(j) \/ CreateRequestFails(j) \/ Advance(j) =>
            Remaining(job'[j]) < Remaining(job[j])
    BY <2>1, StepsOwn, CloserLess
  <2>4. SUFFICES Remaining(job'[j]) <= Remaining(job[j])
    BY <2>3
  <2>5. CASE job'[j] = job[j]
    BY <2>1, <2>5
  <2>6. ASSUME NEW k \in Jobs, CreateRequest(k) \/ CreateRequestFails(k) \/ Advance(k)
        PROVE  Remaining(job'[j]) <= Remaining(job[j])
    <3>1. CASE k = j
      BY <2>1, <2>3, <2>6, <3>1
    <3>2. CASE k # j
      BY <2>1, <2>5, <2>6, <3>2, StepsOwn DEF OthersStay
    <3>3. QED
      BY <3>1, <3>2
  <2>7. ASSUME NEW k \in Jobs, Expire(k)
        PROVE  Remaining(job'[j]) <= Remaining(job[j])
    <3>1. job'[j].pc = job[j].pc /\ job'[j].provider = job[j].provider
      BY <2>1, <2>7 DEF Expire, TypeOK
    <3>2. Remaining(job'[j]) = Remaining(job[j])
      BY <3>1 DEF Remaining
    <3>3. QED
      BY <2>1, <3>2
  <2>8. CASE (\E k \in Jobs : Forget(k)) \/ Stop \/ UNCHANGED vars
    BY <2>5, <2>8 DEF Forget, Stop, vars
  <2>9. CASE Exit
    <3>1. job'[j] = job[j] \/ job'[j].pc = "lost"
      BY <2>9 DEF Exit, Idle
    <3>2. job'[j].pc = "lost" => Remaining(job'[j]) = 0
      BY DEF Remaining
    <3>3. QED
      BY <2>1, <2>5, <3>1, <3>2
  <2>10. QED
    BY <2>6, <2>7, <2>8, <2>9 DEF Next
<1>2. IInv => \A j \in Jobs : StepsLeft(j) \in Nat
  BY RemainingSteps DEF IInv, TypeOK
<1>3. QED
  BY <1>1, <1>2, Inductive, PTL DEF Spec, Forward

----------------------------------------------------------------------------
\* What /history says, and how one row's status changes.
Status == [j \in Jobs |-> requests[j].status]

\* The steps that the user sees nothing of.
LEMMA Unseen ==
    ASSUME UNCHANGED <<requests, chat, misled>>
    PROVE  UNCHANGED Answers!answer
BY DEF Answers!answer

\* A row whose status changes is a status that changes.
LEMMA Noted ==
    ASSUME TypeOK, NEW j \in Jobs, NEW s \in Statuses, NEW t \in BOOLEAN,
           requests' = [requests EXCEPT ![j] = [status |-> s, track |-> t]]
    PROVE  Status' = [Status EXCEPT ![j] = s]
BY DEF TypeOK, Status

\* The end of a request, written to its row, is the end MediaAnswer allows.
LEMMA SaveRefines ==
    ASSUME IInv, NEW j \in Jobs, SaveCompleted(j) \/ SaveFailed(j)
    PROVE  Answers!Next \/ UNCHANGED Answers!answer
<1>1. TypeOK /\ Ordered(j) /\ job[j] \in Locals
  BY DEF IInv, TypeOK
<1>2. UNCHANGED <<chat, misled>>
  BY DEF SaveCompleted, SaveFailed, unsent
<1>3. CASE requests' = requests
  BY <1>2, <1>3, Unseen
<1>4. CASE requests' # requests
  <2>1. job[j].request /\ requests[j].status # "none"
    BY <1>4 DEF SaveCompleted, SaveFailed, Save
  <2>2. CASE SaveCompleted(j)
    <3>1. requests[j].status = "processing" /\ chat[j] = {job[j].payload}
          /\ job[j].payload \in Audio /\ j \notin misled
      BY <1>1, <2>1, <2>2 DEF SaveCompleted, At, Ordered, RowInv, ChatInv, PayloadInv, Heard
    <3>2. Status' = [Status EXCEPT ![j] = "completed"]
      BY <1>1, <2>1, <2>2, Noted DEF SaveCompleted, Save, Statuses, Locals
    <3>3. Answers!Complete(j)
      BY <1>2, <3>1, <3>2 DEF Answers!Complete, Answers!Note, Status, Audio
    <3>4. QED
      BY <3>3 DEF Answers!Next
  <2>3. CASE SaveFailed(j)
    <3>1. requests[j].status = "processing" /\ (chat[j] # {} => j \in misled)
      BY <1>1, <2>1, <2>3 DEF SaveFailed, At, Ordered, RowInv, ChatInv
    <3>2. Status' = [Status EXCEPT ![j] = "failed"]
      BY <1>1, <2>1, <2>3, Noted DEF SaveFailed, Save, Statuses
    <3>3. Answers!Fail(j)
      BY <1>2, <3>1, <3>2 DEF Answers!Fail, Answers!Note, Status
    <3>4. QED
      BY <3>3 DEF Answers!Next
  <2>4. QED
    BY <2>2, <2>3
<1>5. QED
  BY <1>3, <1>4

\* A recording that arrives, known to the program or not, is a delivery.
LEMMA UploadRefines ==
    ASSUME IInv, NEW j \in Jobs, Upload(j) \/ UploadUnheard(j)
    PROVE  Answers!Next
<1>1. TypeOK /\ Ordered(j)
  BY DEF IInv
<1>2. /\ job[j].payload \in Audio /\ chat[j] = {}
      /\ Status[j] \in {"none", "processing"}
  BY <1>1 DEF Upload, UploadUnheard, At, Ordered, PayloadInv, ChatInv, RowInv, Heard, Status
<1>3. chat' = [chat EXCEPT ![j] = @ \cup {job[j].payload}]
  BY DEF Upload, UploadUnheard, Say
<1>4. requests' = requests /\ misled' \in {misled, misled \cup {j}}
  BY DEF Upload, UploadUnheard
<1>5. Answers!Deliver(j, job[j].payload)
  BY <1>2, <1>3, <1>4 DEF Answers!Deliver, Answers!Say, Status
<1>6. QED
  BY <1>2, <1>5 DEF Answers!Next, Answers!Audio, Audio

\* The row of a new request, the error message and /forget.
LEMMA RowRefines ==
    ASSUME IInv, NEW j \in Jobs, CreateRequest(j) \/ Tell(j) \/ Forget(j)
    PROVE  Answers!Next
<1>1. TypeOK /\ Ordered(j)
  BY DEF IInv
<1>2. CASE CreateRequest(j)
  <2>1. requests[j].status = "none" /\ chat[j] = {}
    BY <1>1, <1>2 DEF CreateRequest, At, Ordered, RowInv, ChatInv
  <2>2. Status' = [Status EXCEPT ![j] = "processing"]
    BY <1>1, <1>2 DEF CreateRequest, TypeOK, Status
  <2>3. Answers!Open(j)
    BY <1>2, <2>1, <2>2 DEF Answers!Open, Answers!Note, Status, CreateRequest, unsent
  <2>4. QED
    BY <2>3 DEF Answers!Next
<1>3. CASE Tell(j)
  <2>1. /\ requests[j].status # "completed"
        /\ "error" \notin chat[j] /\ (chat[j] # {} => j \in misled)
    BY <1>1, <1>3 DEF Tell, At, Ordered, RowInv, ChatInv
  <2>2. Answers!Apologise(j)
    BY <1>3, <2>1 DEF Answers!Apologise, Answers!Say, Tell, Say, Status
  <2>3. QED
    BY <2>2 DEF Answers!Next
<1>4. CASE Forget(j)
  <2>1. Status' = [Status EXCEPT ![j] = "none"]
    BY <1>1, <1>4 DEF Forget, NoRow, TypeOK, Status
  <2>2. Answers!Forget(j)
    BY <1>4, <2>1 DEF Answers!Forget, Answers!Note, Status, Forget, unsent
  <2>3. QED
    BY <2>2 DEF Answers!Next
<1>5. QED
  BY <1>2, <1>3, <1>4

\* Whatever the job, its provider and the process do, the user sees an answer
\* that MediaAnswer allows.
THEOREM Refinement == Spec => AnswerPromise
<1>1. Init => Answers!Init
  <2> SUFFICES ASSUME Init PROVE Answers!Init
    OBVIOUS
  <2>1. [j \in Jobs |-> requests[j].status] = [j \in Jobs |-> "none"]
    BY DEF Init, NoRow
  <2>2. QED
    BY <2>1 DEF Init, Answers!Init
<1>2. IInv /\ [Next]_vars => [Answers!Next]_Answers!answer
  <2> SUFFICES ASSUME IInv, [Next]_vars PROVE [Answers!Next]_Answers!answer
    OBVIOUS
  <2>1. ASSUME NEW j \in Jobs, CreateRequest(j) \/ CreateRequestFails(j) \/ Expire(j)
                                 \/ Advance(j) \/ Forget(j)
        PROVE  [Answers!Next]_Answers!answer
    <3>1. CASE SaveCompleted(j) \/ SaveFailed(j)
      BY <3>1, SaveRefines
    <3>2. CASE Upload(j) \/ UploadUnheard(j)
      BY <3>2, UploadRefines
    <3>3. CASE CreateRequest(j) \/ Tell(j) \/ Forget(j)
      BY <3>3, RowRefines
    <3>4. CASE UNCHANGED world
      BY <3>4, Unseen DEF world, unsent
    <3>5. CASE \/ AcquireWorker(j) \/ MakeDir(j) \/ CreateTrack(j) \/ SaveFails(j)
               \/ RemoveDir(j) \/ ReleaseWorker(j)
      BY <3>5, Unseen DEF AcquireWorker, MakeDir, CreateTrack, SaveFails, RemoveDir,
         ReleaseWorker, unsent
    <3>6. QED
      BY <2>1, <3>1, <3>2, <3>3, <3>4, <3>5 DEF Advance, CreateRequestFails, Expire,
         MakeDirFails, FetchFile, FetchFails, RipTrack, RipFails, Extract, ExtractFails,
         Recognize, Unrecognized, Download, NextProvider, FallBack, ApplyMode, KeepPayload,
         Unsendable, SkipTrack, UploadFails, TellFails
  <2>2. CASE Stop \/ Exit \/ UNCHANGED vars
    BY <2>2, Unseen DEF Stop, Exit, vars, unsent
  <2>3. QED
    BY <2>1, <2>2 DEF Next
<1>3. QED
  BY <1>1, <1>2, Inductive, PTL DEF Spec, AnswerPromise, Answers!Spec
----------------------------------------------------------------------------
\* The pool counts as MediaJob does.
LEMMA PoolCardinality == \A S : Pool!Cardinality(S) = Cardinality(S)
BY Zenon DEF Pool!Cardinality, Cardinality

\* A job that waits goes on only by getting a worker.
LEMMA WaitsForWorker ==
    ASSUME NEW j \in Jobs, Advance(j), At(j, "waiting")
    PROVE  slots < Workers
BY DEF Advance, At, AcquireWorker, MakeDir, MakeDirFails, FetchFile, FetchFails, RipTrack,
   RipFails, Extract, ExtractFails, Recognize, Unrecognized, Download, NextProvider, FallBack,
   ApplyMode, KeepPayload, Unsendable, CreateTrack, SkipTrack, Upload, UploadFails,
   UploadUnheard, SaveCompleted, SaveFailed, SaveFails, Tell, TellFails, RemoveDir,
   ReleaseWorker

\* The pool sees three of a job's own steps and none of those between.
LEMMA PoolOwn ==
    ASSUME IInv, NEW j \in Jobs, CreateRequest(j) \/ CreateRequestFails(j) \/ Advance(j)
    PROVE  Pool!Next \/ UNCHANGED Pool!pool
<1> DEFINE Waits == {k \in Jobs : At(k, "waiting")}
           Works == {k \in Jobs : job[k].pc \in Busy}
           Gone == {k \in Jobs : job[k].pc \in {"over", "lost"}}
<1>1. TypeOK /\ Works = Working /\ slots = Cardinality(Works)
  BY DEF IInv, Counted, Working
<1>2. Closer(job[j], job'[j]) /\ OthersStay(j)
  BY <1>1, StepsOwn
<1>3. CASE job[j].pc = "new"
  <2>1. job'[j].pc = "waiting"
    BY <1>2, <1>3 DEF Closer
  <2>2. /\ j \notin Waits \cup Works \cup Gone
        /\ Waits' = Waits \cup {j} /\ Works' = Works /\ Gone' = Gone
    BY <1>2, <1>3, <2>1 DEF OthersStay, At, Busy, Timed, Delivering
  <2>3. QED
    BY <2>2 DEF Pool!Next, Pool!Join
<1>4. CASE job[j].pc = "waiting"
  <2>1. job'[j].pc = "starting"
    BY <1>2, <1>4 DEF Closer
  <2>2. /\ j \in Waits /\ Waits' = Waits \ {j}
        /\ Works' = Works \cup {j} /\ Gone' = Gone
    BY <1>2, <1>4, <2>1 DEF OthersStay, At, Busy, Timed, Delivering
  <2>3. slots < Workers
    BY <1>4, WaitsForWorker DEF At, CreateRequest, CreateRequestFails
  <2>4. Cardinality(Works) < Workers
    BY <1>1, <2>3
  <2> HIDE DEF Waits, Works, Gone
  <2>5. Pool!Start(j)
    BY <2>2, <2>4, PoolCardinality DEF Pool!Start, Waits, Works, Gone
  <2>6. QED
    BY <2>5 DEF Pool!Next
<1>5. CASE job[j].pc = "leaving"
  <2>1. job'[j].pc = "over"
    BY <1>2, <1>5 DEF Closer
  <2>2. /\ j \in Works /\ Waits' = Waits
        /\ Works' = Works \ {j} /\ Gone' = Gone \cup {j}
    BY <1>2, <1>5, <2>1 DEF OthersStay, At, Busy, Timed, Delivering
  <2>3. QED
    BY <2>2 DEF Pool!Next, Pool!Finish
<1>6. CASE job[j].pc \notin {"new", "waiting", "leaving"}
  <2>1. job[j].pc \in Busy /\ job'[j].pc \in Busy
    BY <1>2, <1>6 DEF Closer, Busy, Timed, Delivering
  <2>2. Waits' = Waits /\ Works' = Works /\ Gone' = Gone
    BY <1>2, <2>1 DEF OthersStay, At, Busy, Timed, Delivering
  <2>3. QED
    BY <2>2 DEF Pool!pool
<1>7. QED
  BY <1>3, <1>4, <1>5, <1>6

\* When no job changes its place the pool sees nothing.
LEMMA PoolStill ==
    ASSUME \A k \in Jobs : job'[k].pc = job[k].pc
    PROVE  UNCHANGED Pool!pool
BY DEF Pool!pool, At

\* Every job, whatever happens in it, is a job of the pool.
THEOREM PoolRefinement == Spec => PoolPromise
<1>1. Init => Pool!Init
  <2> SUFFICES ASSUME Init PROVE Pool!Init
    OBVIOUS
  <2>1. ASSUME NEW j \in Jobs PROVE job[j].pc = "new"
    BY DEF Init, Idle
  <2>2. QED
    BY <2>1 DEF Pool!Init, At, Busy, Timed, Delivering
<1>2. IInv /\ [Next]_vars => [Pool!Next]_Pool!pool
  <2> SUFFICES ASSUME IInv, [Next]_vars PROVE Pool!Next \/ UNCHANGED Pool!pool
    OBVIOUS
  <2>1. CASE \E j \in Jobs : CreateRequest(j) \/ CreateRequestFails(j) \/ Advance(j)
    BY <2>1, PoolOwn
  <2>2. ASSUME NEW j \in Jobs, Expire(j) PROVE UNCHANGED Pool!pool
    <3>1. \A k \in Jobs : job'[k].pc = job[k].pc
      BY <2>2 DEF Expire, IInv, TypeOK, Locals
    <3>2. QED
      BY <3>1, PoolStill
  <2>3. CASE (\E j \in Jobs : Forget(j)) \/ Stop \/ UNCHANGED vars
    <3>1. job' = job
      BY <2>3 DEF Forget, Stop, vars
    <3>2. QED
      BY <3>1, PoolStill
  <2>4. CASE Exit
    <3>1. \A k \in Jobs : job'[k] = IF job[k].pc \in InFlight
                                    THEN Idle(job[k].kind, "lost") ELSE job[k]
      BY <2>4 DEF Exit
    <3>2. \A k \in Jobs : job'[k].pc = IF job[k].pc \in InFlight THEN "lost" ELSE job[k].pc
      <4>1. \A kind : Idle(kind, "lost").pc = "lost"
        BY DEF Idle
      <4>2. QED
        BY <3>1, <4>1
    <3>3. /\ {k \in Jobs : At(k, "waiting")'} = {}
          /\ {k \in Jobs : job'[k].pc \in Busy} = {}
      BY <3>2 DEF At, InFlight, Busy, Timed, Delivering
    <3>4. {k \in Jobs : At(k, "waiting")} \cup {k \in Jobs : job[k].pc \in Busy}
              \cup {k \in Jobs : job[k].pc \in {"over", "lost"}}
                  \subseteq {k \in Jobs : job'[k].pc \in {"over", "lost"}}
      BY <3>2 DEF At, InFlight
    <3>5. Pool!Crash
      BY <3>3, <3>4 DEF Pool!Crash, At
    <3>6. QED
      BY <3>5 DEF Pool!Next
  <2>5. QED
    BY <2>1, <2>2, <2>3, <2>4 DEF Next
<1>3. QED
  BY <1>1, <1>2, Inductive, PTL DEF Spec, PoolPromise, Pool!Spec
=============================================================================
