# A TLA+ model of the music finder bot

The bot takes an Instagram link, a SoundCloud link or an uploaded file from a Telegram
user, recognises the music in it, downloads the full track and sends it back. It is one
Go process with one SQLite database. Every Telegram update runs in a goroutine of its
own, every admitted request in another one, and a janitor goroutine cleans the database.
The modules here model what those goroutines do to the state they share, TLC checks them
on small instances, and TLAPS proves the most important facts for every number of users,
requests, workers, URLs, providers and titles.

Run from this directory:

    tlc -config Admission_safety.cfg MCAdmission.tla     # model-check
    tlapm AdmissionProofs.tla                            # check the proofs

## The system

Paths are relative to `src/internal/`.

| Component | State | Operations | Talks to |
|---|---|---|---|
| Rate limiter (`storage/sqlite/rate_limit.go`) | table `rate_limits`: window start and count per user | `Allow`: up to 32 attempts of one conditional UPSERT; `Reset` (no caller) | SQLite, called by admission |
| Lease repository (`storage/sqlite/lease.go`) | table `request_leases`: owner and expiry per URL | `Acquire`, `Release`, `DeleteExpired`; `Renew` (no caller) | SQLite, called by admission and janitor |
| Admission (`adapter/telegram/admission.go`) | channel `queue`, and a permit per request | `TryAdmit`, `Permit.Release` | limiter, leases |
| Worker pool (`adapter/telegram/worker.go`) | channel `slots` | `Acquire` (blocks), its release, `Busy`, `WithTimeout` | jobs |
| Job processor (`adapter/telegram/bot_handler.go`, `processor.go`) | goroutine per job: permit, deadline, work directory | `handleMessage`, `runMediaJob` | everything below |
| Media pipeline (`usecase/process_media.go`) | none | `Execute`: extract, recognise, download, or fall back to the original sound | extractor, resolver, downloaders |
| Metadata resolver and cache (`usecase/metadata_resolver.go`, `storage/sqlite/cache.go`) | table `cache_entries` | `Resolve`, `Get`, `Set`, `DeleteExpired` | engines, SQLite |
| Recognition (`adapter/recognizer/`) | candidates of one call, in groups | engines in turn under deadlines, scores, choice among groups | outside services |
| Extractor and downloaders (`adapter/extractor/`, `adapter/downloader/`) | files in the job's directory and one per attempt | yt-dlp, ffmpeg; SoundCloud, then YouTube, validation by `domain/audio.go` | yt-dlp, ffmpeg, ffprobe |
| Delivery and history (`adapter/telegram/delivery.go`, `request.go`) | tables `requests`, `tracks` | `createRequest`, `ApplyOutputMode`, `SendAudio`, `Fail`, `finishRequest` | Telegram, SQLite |
| Users, settings, favorites (`users.go`, `commands.go`, `callbacks.go`) | tables `users`, `user_settings`, `favorites` | `ensureUser`, the commands, the buttons | SQLite, with cascades |
| Routing (`classify.go`, `callback_router.go`) | map of prefixes | classify a message, route a button | handlers |
| Janitor and life cycle (`app/app.go`, `cmd/bot/main.go`) | ticker | `runJanitor`, `purgeExpired`, start, stop | leases, cache |
| Configuration (`config/config.go`) | none after start | `Load`, `validate` | everyone |

The database pool has a single connection (`sqlite.go:20`): statements are atomic and
run one at a time, but nothing spans two statements, and the clock a statement compares
is read in Go before the statement waits for the connection. That is the atomicity of
the models: one action per SQL statement, one per channel operation, and a separate step
wherever the code reads the clock for a later statement.

What is hard here, and what makes each part correct:

* Rate limiter: concurrent calls of one user with clock values that commit out of order,
  and a retry loop. It must never grant more than its budget, charge a request twice or
  refuse one without cause.
* Admission, leases, workers: three resources taken and given back in steps, with
  roll-backs, two channels that are never locked together, leases that run out under
  running jobs, errors that are dropped, a janitor, and restarts that keep the rows and
  lose the channels. Counts must be exact, capacities hold, an unexpired lease be
  touched by nobody but its owner, and every URL become free again.
* Jobs: a deadline that starts before the wait for a worker, fallbacks at every stage,
  one answer per request, a history row that agrees with it, and clean-up on every path.
* Cache: look-ups, upserts and purges that each compare a clock read earlier. What comes
  out must be fresh and about the medium that was asked for, what went in must stay for
  its time, and every row must go in the end.
* Users: read-then-write handlers that race with each other and with `/forget`.
* Recognition: engines that answer, miss or hang, under deadlines of their own and the
  job's; candidates that agree in part; groups compared in the random order of a Go map.
  The answer must not depend on that order, an engine that agrees must not harm its
  candidate, and every wait must end.
* Files: programs that write what they want, end as they want or never, previews where
  full tracks are expected, directories that cannot be made or removed. The first
  provider that left a fitting file must have it delivered, from where it is, and
  nothing else may pass for a track.
* Routing: pure functions of one string.

## Modules

| Module | Models |
|---|---|
| `RateLimiter` | `rate_limit.go`: `Allow`, `allowOnce` and the UPSERT |
| `Leases` | the rows of `request_leases` and the statements on them, as operators |
| `Admission` | `admission.go`, `worker.go`, the frame of `runMediaJob`, the janitor's lease purge, process death; composes `Leases` |
| `AdmissionGate` | what admission promises, without queue, leases, janitor or restart; `Admission` implements it |
| `WorkerPool` | what the worker channel promises to the jobs that come to it; `Admission` and `MediaJob` both implement it |
| `MediaJob` | an admitted request from its history row to its answer: `request.go`, `runMediaJob`, `process_media.go`, `fallback_downloader.go`, `delivery.go`, shutdown |
| `MediaAnswer` | what a user may see of a request in chat and history; `MediaJob` implements it |
| `MetadataCache` | `metadata_resolver.go` over `cache_entries`, `NormalizeMediaURL`, the janitor's cache purge |
| `UserStore` | `users.go`, `commands.go`, `callbacks.go` and `createRequest` over the tables `users`, `user_settings`, `favorites`, `requests` |
| `Profiles` | what a user may expect of the data kept of him: one record, changed an entry at a time, erased as a whole; `UserStore` implements it |
| `Recognition` | the recognizers: what `config.go` and `app.go` wire, `fallback.go`, and what each engine may answer |
| `Downloads` | the files behind `MediaJob`'s choices: `ytdlp_extractor.go`, the downloaders and the duration policy of `domain/audio.go`; implements the stages of `MediaJob` |
| `MC...` | the instances of each of these for TLC |
| `...Proofs` | the theorems about each; `CountLemmas` has what they say of counts |

### RateLimiter

`rows[u]` is the user's row of `rate_limits` (`count = 0`: no row). A call is `stamped`
between `time.Now()` in `allowOnce` and its UPSERT, and `backoff` between a busy error
and the timer. `Grant` and `Deny` are the statement with one row affected, or none;
`Busy`, `Retry`, `GiveUp` and `Fail` are the loop of `Allow`. `Admits`, `WindowOver` and
`Charged` are the WHERE and the two CASE expressions. The other variables are history:
`total[u][t]` is how many calls of `u` were answered true while the clock was `t` or
less, from which `GrantedSince` counts those of any interval, and `opened` is how many
windows were opened. `Reset` is left out because nothing calls it.

### Admission

`phase[r]` is where the goroutine of request `r` is; `stamp[r]` the clock its `Acquire`
read; `heldQueue[r]` the permit's field; `queueLen` and `slots` the lengths of the two
channels; `lease` the table. The path is

    new -> acquiring -> leased -> admitted -> waiting -> working
        -> releasing -> unqueued -> done

with `refused` from the first three (a full queue rolls back through `releasing`),
`orphaned` when the final DELETE fails, and `lost` when the process dies. The deferred
calls of `runMediaJob` run in reverse order: worker (`FinishWork`), then
`Permit.Release`, which leaves the queue (`LeaveQueue`) and deletes the lease
(`ReleaseLease`), in two steps. `JanitorReads` and `JanitorPurges` are the clock and the
statement of `DeleteExpired`, `PurgeFails` its error, which is only logged. `Crash` is a
process that ends in any way and is started again: `main` does not wait for jobs, so a
normal stop is no different. The owner string is random per attempt, which the model
takes as unique: owner and request are the same value. `Limited` covers every refusal of
the rate limiter, whose own behaviour is the other module's.

Two abstract specifications are implemented by it. `GatePromise` forgets queue, leases,
janitor and restarts. `PoolPromise` looks at the worker channel alone: a request waits,
works, or will not come any more (refused, leaving, ended or lost). `WorkerPool` is also
what `MediaJob` implements, where the one phase `working` is all the places between
`starting` and `leaving`: so the two modules, which both have the channel, agree on it.

### MediaJob

`job[j]` holds the locals of the goroutine of request `j`: `pc` is the place in the
program, `request` whether it has a row, `late` whether the deadline of `workCtx` has
passed, `provider` the downloader being tried, `original` whether the extracted sound
exists, `payload` what `AudioPayload` holds, `mode` the output mode it read, `track`
whether it created a track, `error` the category of its failure. `requests`, `tracks`
and `dirs` are the tables and the work directories; `slots` is the worker channel;
`stopping` is a cancelled `ctx`. `chat`, `misled` and `unsaved` are history.

    new -> waiting -> starting -> (fetching ->) extracting -> recognizing
        -> downloading -> applying -> sending -> uploading -> sent
        -> cleaning -> leaving -> over

A SoundCloud link goes from `starting` through `ripping` to `applying`. Recognition and
downloads that fail go to `applying` with the original sound; everything else that fails
goes to `failing` and `telling` (`Delivery.Fail`). A job in flight when the process ends
is `lost`. What runs under `workCtx` succeeds only while neither the deadline has passed
nor `ctx` is cancelled; SQL, upload and messages look at `ctx` only; the wait for a
worker looks at nothing. `ApplyMode(j, m)` takes any mode, because the user may change
it until that moment (the table of settings is that of `UserStore`). `Upload`,
`UploadFails` and `UploadUnheard` are the three ends of an upload: in the third Telegram
has the file and the program has an error.

Taken for granted: the jobs belong to different users, work directories have different
names, `RemoveAll` succeeds, and the Telegram library returns a message value for the
status message. A recognition may succeed after the deadline, because the first engine
may still be asked and a cached answer still be read. A download counts as done the
moment its file is complete, even if the deadline passes before yt-dlp has ended: that
these choices are the ones the files make is what `StagesKept` of `Downloads` says.

### MetadataCache

`pc[j]` is where job `j` is in `Resolve`, `source[j]` its link or upload, `stamp[j]` the
clock it read for its statement, `answer[j]` the medium that the recognition it returns
is about; `cache` is the table and `janitor` the clock that `DeleteExpired` read. `age`,
`kept` and `newest` are history: how old a hit was, and with which clock the last row of
a key was written and the latest.

    new -> looking -> (hit) done
                   -> recognizing -> (scraping ->) storing -> done

`Ask` is `time.Now()` in `Get`, `Hit`, `Miss` and `LookFails` its query; `Match` reads
the clock for the expiry and `Store` runs the upsert, which wins over whatever row is
there: so does the code (`cache.go:41`), and a late upsert may shorten the life of a row
that was written with a later clock. `PurgeFails` is a purge whose error is logged. A
link is a pair of a short code in lower case and the capitals it is written with,
because that is what `NormalizeMediaURL` loses and media differ in; queries and slashes,
which it strips, tell no two media apart and are left out. The key of an upload is the
path of its file, which lies in the work directory of the job: the model uses the job. A
recognition is reduced to the medium it is about, and no cached value fails to decode.

### UserStore

A handler is a message, a command or a click; `handler[x]` holds the locals of its
goroutine: whose it is, the `users.id` it looked up, the mode or track of its button,
what `Exists` said. `users`, `settings`, `favorites` and `requests` are the tables, by
`users.id`, which SQLite's AUTOINCREMENT never gives twice (`nextId`). Each statement is
one action, so two handlers interleave between any two. The keys of the schema are
guards: `UNIQUE(telegram_id)` of `Create`, the foreign keys of `SaveSettings`,
`AddFavorite` and `InsertRequest`; the cascades are part of `DeleteProfile`.

    new -> (renaming | creating) -> reading -> saving -> over      /settings, mode buttons
                                 -> checking -> toggling -> over   favorite button
                                 -> inserting -> over              a message
                                 -> over                           /history, /favorites
    new -> deleting -> over                                        /forget

The actions named `...Fails` are the error returns: with `MayFail` a statement may fail
for any reason (a cancelled context, a full disk), without it only where the data say
so. `told` is what the handler answered and `stocked` counts the rows `favorites` ever
had. For `ProfilePromise` a person's record is read off the rows under the ids that are
the person's; `strays` is what lies under ids that are nobody's. Names and languages of
users, the texts of lists, the check of a button's data and forwarding to the channel
are left out.

### Recognition

`wired` is the list of engines that a set of environment variables gives, or the program
is `refused` by `validate`; `turn` is the engine asked last, `said` what each one
answered, `visited` and `best` the loop over the groups, `answer` the engine whose
candidate `Identify` returns. `expired` is the deadline of `workCtx` or a shutdown.

    asking <-> waiting      Ask, then Answers, Misses or TimesOut, engine by engine
    asking -> done          Answers, when one candidate scores enough alone
    asking -> asking        Visit, group by group, when all were asked
    asking -> done          Decide

A title or an artist is its words of `a-z0-9`, which are what `normalizeTrackKey` keeps,
and a rest, which it drops; the score asks only whether there is a text, and whether a
title mentions `unknown` or `original`. `Key` concatenates the words of title and artist
as the code does, so that the place where the title ends is lost. Raw scores are in
units of 1/20 and final ones of 1/1200, in which every weight is whole: what binary
fractions do to a score that is exactly on a threshold, or to two that are exactly
equal, is left out. `Candidates(e)` is what the adapters let through: Shazam and AudD
need a title and never tell a duration, ACR may answer anything. ACR's client takes no
context: the goroutine it leaves behind writes to a buffered channel of that call which
nobody reads any more, and changes nothing else, so that the late answer is no action;
what is checked is that the wait for it ends. Titles of white space only are not told
apart from others.

### Downloads

`disk[p]` is the track in the directory of attempt `p`, `dirs` the directories that
exist, `clean` the exit status of the program that ran last, `expected` the length the
recognition gave, `answer` the payload, with the provider and length it came with.
`wrote` and `ended` are history: what each yt-dlp did, whatever the bot made of it. A
direct link of a track (`ripping`) is provider 0, in the directory of the job.

    fetching -> cutting -> recognizing -> choosing -> running -> checking -> done
                                             ^---------------------+

`Write` and `Exit` are the outside program: it may write any file, several times, and
end with any status. `Killed` is the deadline of a provider or of the job: `Run` under a
job that has `expired` fails at once. `Finds` is what counts as an end: YouTube's
provider needs status 0, SoundCloud's ignores it, since yt-dlp returns another one when
it stops at `--max-downloads`. `Probed`, `Seconds`, `Tolerance` and `Matches` are
`validateAudioFile` and the policy with its integer division and rounding; `Accept`
applies the policy once more as `process_media.go` does. `Fetched` and `Cut` need a job
that has not `expired`, but for the copy of an upload, which looks at no context. A
rejected attempt loses its directory unless `RemoveAll` fails. Thumbnails are left out,
and so are children of a yt-dlp that was killed, which could go on writing.

`Seen` is what `MediaJob` would hold of this job: its stage, the provider whose turn it
is, the payload. Its deadline (`Late`) is not `expired` while yt-dlp runs or has left an
acceptable file, because that download is done in `MediaJob` already. `StagesKept` says
that the job starts in a stage of `MediaJob` and that every step on the files is a step
`MediaJob` has for that stage, or none.

## Runs

| Run | Instance | Shows |
|---|---|---|
| `rate_lag` | 1 user, 3 concurrent calls, limit 2, window 2, statements up to 3 ticks late, 2 attempts | `LongRunBudget`, `BurstBound`, `ChargedOnce`, `DenialJustified` whatever the order of commits |
| `admission_safety` | 3 requests on 1 to 3 URLs, 1 worker, queue limit 1, TTL 2, arrivals up to 2, one crash | `Accounting`, `WaitingBounded`, `LeaseProtected`, `NoLeaseLeaked`, `OnlyOwnerEndsLease` and `GatePromise` |
| `admission_live` | 2 requests, TTL 1, one crash, purges that may fail | `EveryRequestEnds`, `EveryLeaseEnds` |
| `media_safety` | 2 jobs of any kind, 1 worker, 2 providers, one restart | types, closed rows, linked tracks, owned directories, the kept original, `AnswerPromise` |
| `media_live` | 2 jobs, 1 worker, 1 provider, no restart | `EveryJobEnds` |
| `media_timeout` | 1 job, 1 worker, 2 providers | the finding about timeouts |
| `cache` | 2 jobs, 1 code with 2 spellings, 2 files, TTL 2, statements up to 1 tick late, any row from before | `NeverStale`, `Remembered`, `AnswerForKey`, `EveryRowEnds` |
| `users_safety` | 3 handlers of 2 users, 1 track, 2 modes, any statement may fail | `OwnDataOnly`, `RemovedOnce`, `ProfilePromise` |
| `users_mode` | 2 handlers of 1 user, no statement fails | the finding about a race |
| `recognition` | every environment, 5 titles, 2 artists, any answers, any order | `BestOfBestGroup`, `PlainAnswerAccepted`, `AgreementDecides`, `AgreementHelps`, `IdentifyReturns` |
| `recognition_consensus` | 4 titles, 2 of them in another script | the finding about agreement |
| `downloads` | SoundCloud and YouTube, the default policy, 10 lengths, 3 durations | `FirstTrackWins`, `StagesKept`, `FilesSettled` |

The bounds are named constants. `MaxNow` stops the clock; `MaxLag` limits how many ticks
a statement may wait (three is longer than the window, so that a statement can come from
before the previous window); `MaxAttempts` is 2 where the code has 32: a first, a last
and hence both ends of the loop. `Horizon` ends arrivals, and `MaxNow = Horizon +
LeaseTTL` lets the last lease run out, so that a clock that stops cuts nothing off.
Three requests with one worker and one waiting place fill every place and leave one to
be rejected or to take over an expired lease; three keys give all the ways in which
three requests can share URLs. One crash separates two processes; a second adds no new
situation, because a process starts from the same empty channels each time. In
`MediaJob` two jobs on one worker are enough to make one wait, to its deadline or into a
shutdown; jobs share nothing else. Two providers give a first, a next and a last one. In
`MetadataCache` rows from before have any age up to `CacheTTL`, so that what
`NeverStale` excludes is within reach although jobs end at `Horizon`; `CacheTTL` is
longer than `MaxLag`, because otherwise a late upsert may take all of a row's life and
the second half of `Remembered` says nothing; and the clock goes on until the last row
has run out and been purged. Three handlers are what the races of `UserStore` take: one
that holds an id, a `/forget` that makes it stale, and one that inserts the user again.
The titles of `Recognition` are none, a plain one, one with a penalty of each kind, and
one that the key drops; an artist that consists of the last word of a title lets two
candidates split the same words differently. The lengths of `Downloads` lie a half
second on both sides of each limit of the policy for no duration (60 s), one where the
minimum tolerance decides (30 s: 20 to 60 s) and one where the percentage, rounded down,
does not exceed it (105 s: 95 to 135 s); the theorem `PolicyExact` covers all others.
Requests, keys, calls, jobs, handlers and people are symmetric in the safety runs only.
Handlers and jobs end, so those runs do not look for deadlocks.

### Fairness

`EveryRequestEnds` and `EveryLeaseEnds` assume that a request that can take a step takes
it: the Go scheduler runs every runnable goroutine, the single connection is handed out,
and timers fire. They assume that the ticker wakes the janitor, that not every purge of
its leases fails (`SF_vars(JanitorPurges)`: any number may, and the ticker comes again)
and that time passes. They assume that a job's work ends, which the code ensures by
timeouts for extraction, recognition and downloads, and leaves to Telegram for the file
download through `http.DefaultClient` and for the upload: those have no deadline of
their own, and a server that never answers would hold a worker. `EveryJobEnds` rests on
the same assumption, one job at a time. `EveryRowEnds` assumes that time passes and the
same of the janitor. `IdentifyReturns` and `FilesSettled` assume much less: their
`Advance` has only what the bot does on its own, the timers of the engines and of yt-dlp
and ffmpeg among it. An engine need not answer, and a program need not end. Three things
are taken to return although nothing bounds them: ffprobe, which is started without a
context; the copy of an upload on the local disk; and `CombinedOutput` of a program that
was killed, which waits for its output to be closed: no `WaitDelay` is set, so a child
of yt-dlp that outlives it and holds the pipe would delay the end of `Killed`. But for
the purges, of which not all fail, nothing is assumed of arrivals, deadlines, errors,
crashes or of a failed release.

## Proofs

The theorems hold for every value of the constants under the named assumptions: the
positive counts that `config.go` enforces, bounds that are natural numbers, a percentage
that is at most 100. The models, and so the proofs, also take for granted that the wall
clock does not run backwards and that owner strings differ.

RateLimiter. None of the properties is inductive. The invariant adds that a call's stamp
is not after the clock and, while its statement waits, not more than `MaxLag` before it;
that a row's window starts no later than the clock; that what was granted is at most
`Limit` for each window opened, with the current one counted exactly (`granted <= Limit
* (opened - 1) + count`), and every count was granted since its window started; and that
  the k-th window of a user starts at `Window * (k - 1)` or later, whatever the order of
  commits. This gives `BudgetCorrect`, `ChargedCorrect` and `DenialCorrect`.
  `BurstCorrect` rests on `RecentInv`: what was granted since a clock value `t` came
  from the current window and from `k` before it with `k * Window <= started - t +
  MaxLag - 1 + Window`, because a statement that opens a window is not older than
  `MaxLag`. For an interval that the clock has left, what it holds is frozen; for one it
  has not, the division in `BurstBound` follows from `RecentInv` by arithmetic
  (`BurstArith`).

Admission. The invariant has three layers. `Base`: types, and the two channel lengths as
the cardinalities of the requests that hold a token or a worker, which needs the
library's facts on finite sets (a step adds or removes one element). `ClockInv`: stamps
and the janitor's reading are not after the clock. And the leases: until its lease ends
a request finds its own row (`LeaseProtected`), and every row has an owner who still has
to, or could not, release it (`NoLeaseLeaked`). From these follow `WaitingCorrect`,
`OneLiveCorrect` (two requests run on one URL only when a lease has run out), the action
property `OwnerEndsLease`, and `Refinement`: under the mapping in `Admission`, every
behaviour is one of `AdmissionGate`. `PoolRefinement` maps the worker channel to
`WorkerPool`, where the counts of `Base` say that a slot is free exactly when fewer than
`Workers` requests work. `FreeAgainCorrect` adds to the invariant that no row expires
more than `LeaseTTL` after the clock.

MediaJob. What is true of a job depends on that job alone, so the invariant is
`Ordered(j)` for each job, and `Framed` carries it over the steps of the others. It
says, place by place, what the user has heard (`ChatInv`: nothing before the upload, the
payload after it, at most an unnoticed recording once it failed), what the row says
(`RowInv`), where the payload comes from (`PayloadInv`), which tracks and directories
exist (`TrackInv`, `DirInv`, `LinkInv`). `AnswerPromise` alone is not inductive: that a
job never sends a second recording or an error after a known success is a fact about its
place in the program. `Counted` ties `slots` to the jobs that hold a worker, which
`TypeCorrect` needs: a release never receives from an empty channel. `Refinement` maps
each step to `MediaAnswer`, and `PoolRefinement` to `WorkerPool`, where a restart is the
pool's crash. The jobs need not be finite in number.

MetadataCache. `Clocks`: a clock that was read is not ahead, and not more than `MaxLag`
behind while its statement waits. `RowsSound`: a row expires `CacheTTL` after its last
write and says something about its key. With what a job is about to store (`StoresOwn`)
the four safety properties are inductive. `NeverStale` holds without the janitor,
because the look-up compares the expiry itself; the first half of `Remembered`, about
the last row written, because a purge compares a clock that can only be old. The second
half is about every row written before it. It needs that no row's clock is ahead
(`newest[k] <= now`): an upsert that commits has waited `MaxLag` at most, so that the
row it leaves expires at most `MaxLag` before the one it replaced. The full `CACHE_TTL`
does not hold there: see Findings.

UserStore. Everything rests on what an id in a handler's locals is worth. `Owned(x)`: it
is smaller than `nextId`, and its row is the handler's own user or gone; ids are never
reused (`Assigned`), so this survives `/forget` and a new registration. With
`NothingOrphaned` it gives `OwnDataCorrect` and `ForgottenStaysForgotten`. `Unique`
gives `OneProfileCorrect`, that a person has one row, which no run checks; `Counted`
says that an id is left for each handler that may still insert, which types need.
`RemovedOnceCorrect` counts: a removal takes one row away that an insert has put there.
`Refinement` puts these together: a handler that writes has a known id (`SaveSettings`,
`AddFavorite`, `InsertRequest` by the foreign keys, `RemoveFavorite` because nothing is
orphaned), which is the one row of its own user (`Owned`, `Unique`), so that the write
is one of that user's record and nobody else's (`OthersKept`); a new row gets an id
under which nothing lies.

Recognition. The loop over the groups has the invariant `BestSoFar`: the best candidate
so far is the strongest of a group that no visited one surpasses. With `Turned` (the
engine that is asked has not answered) and `Undecided` (nothing answered so far was
strong enough alone) it makes `BestOfBestGroup` inductive, whatever is in the titles.
`PlainCorrect` and `AgreementCorrect` then are bounds on scores: a plain candidate
scores 13, 13 * 60 + 13 * 18 exceeds the threshold of 840, and two such in one group
exceed what one without a duration can reach (15). `AgreementHelpsCorrect` says that the
bonus of one more engine outweighs the average it pulls down.

Downloads. `PolicyExact` says that the policy's integer arithmetic accepts exactly the
lengths within its limits, for every length, duration and setting. `Ahead` (a provider
that was not asked wrote nothing), `Behind` (one that was rejected left nothing that
fits) and `AtWork` (the file on disk is what was written) make `FirstTrackWins`
inductive for a chain of any length. `Refinement` shows `StagesKept` case by case, one
lemma for each group of actions: `Seen` is expanded into its ten fields, and the field
that matters is `late`, which must not be set where `MediaJob` needs it unset.

Progress. ENABLED and fairness are out of the prover's reach, but what the liveness
properties rest on is proved. `ForwardCorrect`, of `Admission`, `MediaJob`,
`Recognition` and `Downloads`: `StepsLeft` is a natural number that each step of a
request, job or call lowers and no other step raises, so that none is tried without end
(what does not lower it, the deadline and yt-dlp's writes, is named in `Forward`).
`NoDeadlockCorrect`, of `Admission` and `MediaJob`: no channel operation of an admission
or a release ever blocks, and who waits for a worker waits for a job that has one and is
at work. What is left to TLC is that fairness turns this into an end:
`EveryRequestEnds`, `EveryLeaseEnds`, `EveryJobEnds`, `EveryRowEnds`, `IdentifyReturns`
and `FilesSettled` are the only properties of passing runs that are not theorems.

Theorems about definitions that no run checks are `OneProfile`, `NothingOrphaned` (which
`ProfilePromise` contains as `strays`), `OneLivePerKey` (contained in `GatePromise`),
`PoolPromise`, `NoDeadlock`, `Forward` and `FreeAgain`. No definition is recursive.

## Findings

`recognition_consensus`: `README.md:8` of the repository says that consensus picks the
best match. `normalizeTrackKey` (`fallback.go:172`) keeps `a-z0-9` only, so titles in
any other script have an empty key: two engines that name different tracks there count
as agreeing, and outvote a candidate with a higher score. The bot itself speaks Persian.

`media_timeout`: `copy/errors.go:35` has a message for requests that ran out of time.
`process_media.go:137` (and `:85`) wrap the cause with `%v`, and the extraction category
is matched first, so a request whose deadline passed while it waited for a worker is
answered with another cause.

`users_mode`: `commands.go:131` writes the whole default row when the earlier read found
none, and so sets a mode back that a button saved meanwhile and confirmed
(`messages.go:37`).

More divergences are plain in the code, modelled as it is, and have no run of their own:

* The comment on `Allow` (`rate_limit.go:20`) speaks of the user's sliding window. The
  statement keeps a fixed window that starts with the first request after the previous
  one ended: two full bursts around its end pass within one `RATE_WINDOW`, up to twice
  `RATE_LIMIT`, which is what `BurstBound` allows.
* The comment on `NormalizeMediaURL` (`domain/audio.go:121`) speaks of slashes and
  queries; the function also lowercases the path (`:128`), in which the short codes of
  Instagram are case-sensitive, so that a job may be told of the medium of another link:
  `AnswerForKey` says how far this goes.
* `README.md:144` offers the mode `both`; `ApplyOutputMode` (`delivery.go:47`) knows
  only `original`, and one file is sent.
* `commands.go:149` takes any error of the look-up for an unknown user, so that
  `/forget` may answer that the data were deleted (`messages.go:34`) when they are not.
* `README.md:13` guarantees that a request's directory is cleaned up. Nobody waits for
  jobs at shutdown, so a deferred `RemoveAll` (`processor.go:65`) may never run, and
  nothing removes the directory later: `DirsOwned` allows those.
* Of two first messages of a user, one loses the race for the UNIQUE key (`users.go:22`)
  and is processed without the history row that `README.md:142` speaks of.

Some consequences are worth knowing although nothing says otherwise. Commands call
`ensureUser` with nothing but the id and so empty the stored names (`users.go:17`). A
direct SoundCloud track carries no duration, so that one shorter than a minute is always
refused; and since Shazam and AudD tell no duration, a truncated file of a minute passes
for a full track (`audio.go:112`). The threshold of `fallback.go` applies to the score
with the bonus, so that a weak candidate may be answered because others agree. Among
groups with equal scores the order of the map decides. The upsert of the cache
(`cache.go:41`) takes the expiry of whichever statement commits last, not the later one:
of two jobs on one link that miss at the same time, one may replace the newer row by one
that runs out earlier, by as long as its statement waited. `Remembered` allows that and
no more; the next job on the link recognises again, and nothing stale is answered.

## Not modelled

* Update routing (`classify.go`, `callback_router.go`): pure functions of one string,
  without state or an order of events. The longest registered prefix wins in any order
  of iteration, and the prefixes that are registered do not overlap.
* Wording, layout and progress messages; the forwarding of tracks to the channel; names
  and languages of users.
* yt-dlp, ffmpeg, ffprobe, Telegram and the recognition services: their outcomes are
  choices. A server that stalls the download of a Telegram file (`media.go:46`) holds a
  worker for as long as it likes; the liveness properties assume that it does not.
* The parsing of environment variables, the check of the bot's token, the opening and
  migration of the database. What is checked of the numbers is assumed of the constants.
* Operations that nothing calls: `Reset`, `Renew`, `Delete` of cache entries and tracks,
  pagination.
* Two work directories with the same name: it is made from the clock in nanoseconds
  (`processor.go:59`).
* One module that composes everything. The parts share a permit, a worker and outcomes:
  `working` in `Admission` is the body that `MediaJob` models, `Limited` is
  `RateLimiter`'s answer, and the recognition that `MediaJob` chooses is what
  `MetadataCache` and `Recognition` compute. Two of these joints are theorems: both
  modules implement the same `WorkerPool`, and `Downloads` implements the stages of
  `MediaJob`. No further state links the parts, and their product is out of TLC's reach.
