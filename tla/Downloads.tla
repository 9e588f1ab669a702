----------------------------- MODULE Downloads -----------------------------
(***************************************************************************)
(* The files of one job: the extraction of adapter/extractor, the          *)
(* providers of adapter/downloader, each with a yt-dlp in a directory of   *)
(* its own, the policy of domain/audio.go that tells a full track from a   *)
(* preview, and the choice of process_media.go between track and original. *)
(*                                                                         *)
(* yt-dlp and ffmpeg are outside programs: they write what they want, when *)
(* they want, and end as they want or are killed by a deadline. A file is  *)
(* its length in half seconds, 0 if ffprobe cannot tell, and its size.     *)
(***************************************************************************)
EXTENDS Integers, Sequences

CONSTANTS
    Chain,       \* the providers in the order of the list
    Lengths,     \* lengths of the files that yt-dlp writes, in half seconds
    Durations,   \* what a recognition says of the length, in seconds; 0: nothing
    NoFile,
    MinFullTrackSeconds, RelativeTolerance, MinToleranceSeconds, MaxOvershootFactor

Providers == {"soundcloud", "youtube"}
Files == [halves : Lengths, size : {"empty", "fits", "large"}]
Contents == Files \cup {NoFile}

ASSUME ChainAssumption == Chain \in Seq(Providers) /\ Chain # << >>
ASSUME FilesAssumption == Lengths \subseteq Nat /\ NoFile \notin Files
ASSUME DurationsAssumption == Durations \subseteq Nat
ASSUME PolicyAssumption ==
    /\ MinFullTrackSeconds \in Nat /\ MinToleranceSeconds \in Nat
    /\ RelativeTolerance \in 0..100 /\ MaxOvershootFactor \in Nat

VARIABLES
    kind,      \* a link, an upload, or the direct link of a track
    pc,        \* where the job is
    expired,   \* the request's own deadline has passed
    expected,  \* the length of the recognized track
    attempt,   \* the provider at work or tried last, 0 for a direct link
    clean,     \* yt-dlp has ended with status 0
    dirs,      \* the directories of attempts on disk
    disk,      \* the file of a track in each directory, 0 is the job's own
    wrote,     \* history: what each provider's yt-dlp has written last
    ended,     \* history: the providers whose yt-dlp ended with status 0
    original,  \* the original sound is there
    answer     \* what the use case returns

vars == <<kind, pc, expired, expected, attempt, clean, dirs, disk, wrote, ended,
          original, answer>>

Attempts == 0..Len(Chain)
Provider(p) == IF p = 0 THEN "soundcloud" ELSE Chain[p]

----------------------------------------------------------------------------
\* domain/audio.go: the policy for a length of actual seconds.
Tolerance(e) ==
    LET share == (e * RelativeTolerance) \div 100
    IN  IF share < MinToleranceSeconds THEN MinToleranceSeconds ELSE share

Matches(actual, e) ==
    /\ actual > 0
    /\ IF e <= 0 THEN actual >= MinFullTrackSeconds
       ELSE /\ actual + Tolerance(e) >= e
            /\ actual <= e + Tolerance(e) * MaxOvershootFactor

\* validateAudioFile: a file of a size that Telegram takes, whose length ffprobe
\* can tell, and the length rounded to seconds.
Probed(f) == f # NoFile /\ f.size = "fits" /\ f.halves > 0
Seconds(f) == (f.halves + 1) \div 2

\* What a provider takes for a success. The exit status of SoundCloud's yt-dlp is
\* not zero when it stops at --max-downloads, and does not count.
Finds(p, f) == f # NoFile /\ (Provider(p) = "youtube" => clean)

Acceptable(p, f) == Finds(p, f) /\ Probed(f) /\ Matches(Seconds(f), expected)

----------------------------------------------------------------------------
NoAnswer == [payload |-> "none", from |-> 0, seconds |-> 0]
Track(p, seconds) == [payload |-> "track", from |-> p, seconds |-> seconds]
Plain(payload) == [payload |-> payload, from |-> 0, seconds |-> 0]

Init ==
    /\ kind \in {"link", "upload", "direct"}
    /\ pc = IF kind = "direct" THEN "ripping" ELSE "fetching"
    /\ expired = FALSE
    /\ expected = 0
    /\ attempt = 0
    /\ clean = FALSE
    /\ dirs = {}
    /\ disk = [p \in Attempts |-> NoFile]
    /\ wrote = [p \in Attempts |-> NoFile]
    /\ ended = {}
    /\ original = FALSE
    /\ answer = NoAnswer

files == <<dirs, disk, wrote, ended>>

\* The use case returns.
Return(what) == pc' = "done" /\ answer' = what

\* yt-dlp has fetched the medium before it was killed, or the upload is copied.
Fetched ==
    /\ pc = "fetching" /\ (kind = "link" => ~expired)
    /\ pc' = "cutting"
    /\ original' = TRUE
    /\ UNCHANGED <<kind, expired, expected, attempt, clean, files, answer>>

\* ffmpeg, which is not started and does not live on after the deadline, has cut the
\* snippet that is recognized. The mutant runs it without the context of the job.
CutWithoutContext ==
    /\ pc = "cutting"
    /\ pc' = "recognizing"
    /\ UNCHANGED <<kind, expired, expected, attempt, clean, files, original, answer>>

Cut ==
    /\ pc = "cutting" /\ ~expired
    /\ pc' = "recognizing"
    /\ UNCHANGED <<kind, expired, expected, attempt, clean, files, original, answer>>

\* yt-dlp or ffmpeg fails, or leaves nothing.
ExtractFails ==
    /\ pc \in {"fetching", "cutting"}
    /\ Return(Plain("error"))
    /\ UNCHANGED <<kind, expired, expected, attempt, clean, files, original>>

Recognized(e) ==
    /\ pc = "recognizing"
    /\ pc' = "choosing"
    /\ expected' = e
    /\ UNCHANGED <<kind, expired, attempt, clean, files, original, answer>>

Unrecognized ==
    /\ pc = "recognizing"
    /\ Return(Plain("original"))
    /\ UNCHANGED <<kind, expired, expected, attempt, clean, files, original>>

\* yt-dlp is started for p, unless the request's time is up: it then fails at once.
Run(p) ==
    /\ attempt' = p
    /\ clean' = FALSE
    /\ pc' = IF expired THEN "checking" ELSE "running"

\* DownloadTrack for a direct link, in the directory of the job.
Rip ==
    /\ pc = "ripping"
    /\ Run(0)
    /\ UNCHANGED <<kind, expired, expected, files, original, answer>>

\* The next provider of the chain gets a directory of its own. The mutant goes on
\* beyond the end of the list.
AttemptOneMore ==
    /\ pc = "choosing" /\ attempt <= Len(Chain)
    /\ Run(attempt + 1)
    /\ dirs' = dirs \cup {attempt + 1}
    /\ UNCHANGED <<kind, expired, expected, disk, wrote, ended, original, answer>>

Attempt ==
    /\ pc = "choosing" /\ attempt < Len(Chain)
    /\ Run(attempt + 1)
    /\ dirs' = dirs \cup {attempt + 1}
    /\ UNCHANGED <<kind, expired, expected, disk, wrote, ended, original, answer>>

MakeDirFails ==
    /\ pc = "choosing" /\ attempt < Len(Chain)
    /\ attempt' = attempt + 1
    /\ UNCHANGED <<kind, pc, expired, expected, clean, files, original, answer>>

\* yt-dlp leaves a file, the first or another one.
Write(f) ==
    /\ pc = "running"
    /\ disk' = [disk EXCEPT ![attempt] = f]
    /\ wrote' = [wrote EXCEPT ![attempt] = f]
    /\ UNCHANGED <<kind, pc, expired, expected, attempt, clean, dirs, ended, original, answer>>

\* yt-dlp ends, with status 0 or another one.
Exit(status) ==
    /\ pc = "running"
    /\ pc' = "checking"
    /\ clean' = status
    /\ ended' = IF status THEN ended \cup {attempt} ELSE ended
    /\ UNCHANGED <<kind, expired, expected, attempt, dirs, disk, wrote, original, answer>>

\* The deadline of the extraction or of the provider ends the program. The mutant
\* forgets the deadline of a provider.
KilledInExtraction ==
    /\ \/ pc = "fetching" /\ kind = "link"
       \/ pc = "cutting"
    /\ Return(Plain("error"))
    /\ UNCHANGED <<kind, expired, expected, attempt, clean, files, original>>

Killed ==
    \/ KilledInExtraction
    \/ /\ pc = "running"
       /\ pc' = "checking"
       /\ UNCHANGED <<kind, expired, expected, attempt, clean, files, original, answer>>

\* The deadline of workCtx passes, or the bot is told to stop.
Expire ==
    /\ pc # "done" /\ ~expired
    /\ expired' = TRUE
    /\ UNCHANGED <<kind, pc, expected, attempt, clean, files, original, answer>>

\* The provider returns its file. process_media.go looks at the length again,
\* except for a direct link. The mutant removes every directory on the way out.
AcceptAndRemove ==
    /\ pc = "checking" /\ Acceptable(attempt, disk[attempt])
    /\ Return(Track(attempt, Seconds(disk[attempt])))
    /\ dirs' = dirs \ {attempt}
    /\ disk' = [disk EXCEPT ![attempt] = NoFile]
    /\ UNCHANGED <<kind, expired, expected, attempt, clean, wrote, ended, original>>

Accept ==
    /\ pc = "checking" /\ Acceptable(attempt, disk[attempt])
    /\ LET seconds == Seconds(disk[attempt]) IN
       Return(IF kind = "direct" \/ Matches(seconds, expected)
              THEN Track(attempt, seconds) ELSE Plain("original"))
    /\ UNCHANGED <<kind, expired, expected, attempt, clean, files, original>>

\* The provider fails: its directory is removed, if that succeeds, and the next
\* one is tried. A direct link has no other.
Reject(removed) ==
    /\ pc = "checking" /\ ~Acceptable(attempt, disk[attempt])
    /\ IF kind = "direct" THEN Return(Plain("error"))
                          ELSE pc' = "choosing" /\ answer' = answer
    /\ IF removed /\ kind # "direct"
       THEN dirs' = dirs \ {attempt} /\ disk' = [disk EXCEPT ![attempt] = NoFile]
       ELSE UNCHANGED <<dirs, disk>>
    /\ UNCHANGED <<kind, expired, expected, attempt, clean, wrote, ended, original>>

\* No provider is left: the original is delivered.
FallBack ==
    /\ pc = "choosing" /\ attempt = Len(Chain)
    /\ Return(Plain("original"))
    /\ UNCHANGED <<kind, expired, expected, attempt, clean, files, original>>

\* What the bot does on its own: it copies uploads, asks who knows the track, runs
\* through its providers, and its timers fire.
Advance ==
    \/ kind = "upload" /\ Fetched
    \/ (\E e \in Durations : Recognized(e)) \/ Unrecognized
    \/ Rip \/ Attempt \/ MakeDirFails
    \/ Accept \/ (\E removed \in BOOLEAN : Reject(removed))
    \/ FallBack
    \/ Killed

Next ==
    \/ Advance
    \/ Fetched \/ Cut \/ ExtractFails
    \/ \E f \in Files : Write(f)
    \/ \E status \in BOOLEAN : Exit(status)
    \/ Expire

Spec == Init /\ [][Next]_vars
FairSpec == Spec /\ WF_vars(Advance)

----------------------------------------------------------------------------
Working == {"running", "checking"}
Places == {"fetching", "cutting", "recognizing", "choosing", "ripping", "done"} \cup Working

\* Every variable keeps its type; the original is there when it is needed.
TypeOK ==
    /\ kind \in {"link", "upload", "direct"}
    /\ pc \in Places
    /\ expired \in BOOLEAN
    /\ expected \in Durations \cup {0}
    /\ attempt \in Attempts
    /\ clean \in BOOLEAN
    /\ dirs \subseteq Attempts \ {0}
    /\ disk \in [Attempts -> Contents]
    /\ wrote \in [Attempts -> Contents]
    /\ ended \subseteq Attempts
    /\ original \in BOOLEAN
    /\ pc \in {"cutting", "recognizing", "choosing"} \/ answer.payload = "original" => original
    /\ answer \in [payload : {"none", "error", "original", "track"},
                   from : Attempts, seconds : Nat]
    /\ pc = "done" <=> answer.payload # "none"

\* A length that fits a recognition of e seconds, without rounding: not shorter by
\* more than the percentage of e or the minimum, not longer by more than so many
\* times a whole number of seconds within one of them.
Fits(actual, e) ==
    /\ actual > 0
    /\ e = 0 => actual >= MinFullTrackSeconds
    /\ e > 0 =>
         /\ \/ e - actual <= MinToleranceSeconds
            \/ 100 * (e - actual) <= e * RelativeTolerance
         /\ \/ actual - e <= MinToleranceSeconds * MaxOvershootFactor
            \/ \E t \in 0..e : /\ 100 * t <= e * RelativeTolerance
                               /\ actual - e <= t * MaxOvershootFactor

\* Provider p left a track: it wrote a readable file of the right length, and
\* YouTube's yt-dlp ended well.
Left(p) ==
    /\ Probed(wrote[p]) /\ Fits(Seconds(wrote[p]), expected)
    /\ Provider(p) = "youtube" => p \in ended

\* However the programs of the providers end and whatever they leave behind, the
\* track of the first provider that left one is delivered, from where that provider
\* wrote it, with its length; the original or an error only if there is none, and
\* the original of a recognized track only when every provider was asked.
FirstTrackWins ==
    pc = "done" =>
        IF answer.payload = "track"
        THEN /\ Left(answer.from)
             /\ disk[answer.from] = wrote[answer.from]
             /\ answer.from \in dirs \/ kind = "direct"
             /\ answer.seconds = Seconds(wrote[answer.from])
             /\ \A p \in Attempts : p < answer.from => ~Left(p)
        ELSE /\ \A p \in Attempts : ~Left(p)
             /\ answer.payload = "original" => attempt \in {0, Len(Chain)}

\* The job gets its answer although yt-dlp or ffmpeg never end: each runs under a
\* deadline.
FilesSettled == <>(pc = "done")

\* How many steps the job has left at most, but for what yt-dlp writes.
StepsLeft ==
    LET turns == 3 * (Len(Chain) - attempt) IN
    CASE pc \in {"fetching", "ripping"} -> turns + 4
      [] pc \in {"cutting", "running"} -> turns + 3
      [] pc \in {"recognizing", "checking"} -> turns + 2
      [] pc = "choosing" -> turns + 1
      [] pc = "done" -> 0

\* Every step but a write and the deadline's own brings the job closer to its answer:
\* no provider is asked twice, whatever it left behind.
Forward ==
    /\ [](StepsLeft \in Nat)
    /\ [][StepsLeft' < StepsLeft \/ (\E f \in Files : Write(f)) \/ Expire]_vars

\* What MediaJob sees of this job. For it a download is done when its file is: while
\* yt-dlp runs, and once it has left a file that is accepted, the deadline does not count.
Untimed ==
    \/ pc = "running"
    \/ pc = "checking" /\ Acceptable(attempt, disk[attempt])
    \/ answer.payload = "track"

Stage ==
    CASE pc \in {"fetching", "cutting"} -> "extracting"
      [] pc = "recognizing" -> "recognizing"
      [] pc = "done" -> IF answer.payload = "error" THEN "failing" ELSE "applying"
      [] OTHER -> IF kind = "direct" THEN "ripping" ELSE "downloading"

Source == CASE kind = "link" -> "instagram"
            [] kind = "upload" -> "upload"
            [] kind = "direct" -> "soundcloud"

\* The provider whose turn it is.
Turn == IF pc = "choosing" /\ attempt < Len(Chain) THEN attempt + 1
        ELSE IF attempt = 0 THEN 1 ELSE attempt

Late == expired /\ ~Untimed
Kept == kind # "direct" /\ Stage \notin {"extracting", "failing"}
Delivered == CASE answer.payload = "track" -> "full"
               [] answer.payload = "original" -> "original"
               [] OTHER -> "none"
Error == IF answer.payload = "error" THEN "other" ELSE "none"

Seen ==
    [pc |-> Stage, kind |-> Source, request |-> TRUE, late |-> Late, provider |-> Turn,
     original |-> Kept, payload |-> Delivered, mode |-> "full", track |-> FALSE,
     error |-> Error]

Job == INSTANCE MediaJob WITH
    Jobs <- {"this"}, Workers <- 1, Providers <- Len(Chain), MaxRestarts <- 0,
    job <- [j \in {"this"} |-> Seen],
    requests <- [j \in {"this"} |-> [status |-> "processing", track |-> FALSE]],
    tracks <- {}, dirs <- {"this"}, chat <- [j \in {"this"} |-> {}],
    misled <- {}, unsaved <- {}, slots <- 1, stopping <- FALSE, restarts <- 0

\* The files behind a job take it through the stages of MediaJob and no other way: its
\* choices of success and failure, in their order and under their deadline, are what
\* programs, directories and the policy can bring about.
StagesKept ==
    /\ Seen = [Job!Idle(Source, IF kind = "direct" THEN "ripping" ELSE "extracting")
                  EXCEPT !.request = TRUE]
    /\ [][Job!Advance("this") \/ Job!Expire("this")]_Job!vars
=============================================================================
