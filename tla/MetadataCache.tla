--------------------------- MODULE MetadataCache ---------------------------
(***************************************************************************)
(* The cache of recognitions: internal/usecase/metadata_resolver.go over   *)
(* the table cache_entries, which a janitor cleans. Jobs resolve at the    *)
(* same time; a statement compares a clock that was read before it ran.    *)
(*                                                                         *)
(* What a recognition says is left out but for the medium it is about. A   *)
(* link is reduced to what NormalizeMediaURL tells apart and what it does  *)
(* not: its short code, and the letters of it that are capitals. Queries   *)
(* and slashes never tell two media apart.                                 *)
(***************************************************************************)
EXTENDS Integers

CONSTANTS
    Jobs,       \* jobs, each with a work directory of its own
    Codes,      \* short codes in lower case
    Spellings,  \* ways to write a short code with capitals
    Files,      \* uploaded files
    CacheTTL,   \* CACHE_TTL, in clock ticks
    Nothing,    \* no medium
    MaxLag,     \* bound: ticks a statement may wait for the connection
    Horizon,    \* bound: jobs are under way until then
    MaxNow      \* bound: the clock stops here

\* config.go refuses a CACHE_TTL that is not positive.
ASSUME CacheTTLAssumption == CacheTTL \in Nat \ {0}
ASSUME BoundsAssumption == MaxLag \in Nat /\ Horizon \in Nat /\ MaxNow \in Nat
ASSUME NothingAssumption ==
    Nothing \notin Codes \X Spellings /\ Nothing \notin Files
ASSUME NamesAssumption ==
    Files \cap (Codes \X Spellings) = {} /\ Jobs \cap Codes = {}

VARIABLES
    now,      \* the wall clock
    pc,       \* where each job is in Resolve
    source,   \* the link or the upload of each job
    stamp,    \* the clock each job read for its statement
    answer,   \* the medium the recognition of each job is about
    cache,    \* the table cache_entries, by key
    janitor,  \* the clock DeleteExpired read, if it is about to run
    age,      \* history: ticks since the recognition that a hit returned
    kept,     \* history: the clock value of the last row that was written, by key
    newest    \* history: the latest clock value of any row that was written, by key

vars == <<now, pc, source, stamp, answer, cache, janitor, age, kept, newest>>

Links == Codes \X Spellings
Media == Links \cup Files
Places == {"new", "looking", "recognizing", "scraping", "storing", "done"}
NoRow == [of |-> Nothing, until |-> 0]

NormalizeMediaURL(link) == link[1]

\* An upload is resolved under the path of the file in the job's directory. The
\* mutant has one key for all uploads.
KeyOfAnyUpload(j) ==
    IF source[j] \in Files THEN CHOOSE k \in Jobs : TRUE ELSE NormalizeMediaURL(source[j])

Key(j) == IF source[j] \in Files THEN j ELSE NormalizeMediaURL(source[j])

Keys == Codes \cup Jobs

At(j, place) == pc[j] = place
Goto(j, place) == pc' = [pc EXCEPT ![j] = place]

\* The mutant of a look-up: a row is good until it is purged.
FreshUntilPurged(row, t) == row.of # Nothing

Fresh(row, t) == row.of # Nothing /\ row.until > t
Expired(row, t) == row.of # Nothing /\ row.until <= t

----------------------------------------------------------------------------
\* The bot has run before: rows of links may be there.
Init ==
    /\ now = 0
    /\ pc = [j \in Jobs |-> "new"]
    /\ source \in [Jobs -> Media]
    /\ stamp = [j \in Jobs |-> 0]
    /\ answer = [j \in Jobs |-> Nothing]
    /\ \E first \in [Codes -> Links \cup {Nothing}] :
          /\ \A c \in Codes : first[c] # Nothing => NormalizeMediaURL(first[c]) = c
          /\ kept \in [Keys -> -CacheTTL .. 0]
          /\ \A k \in Keys : k \in Jobs \/ first[k] = Nothing => kept[k] = -CacheTTL
          /\ cache = [k \in Keys |-> IF k \in Jobs \/ first[k] = Nothing THEN NoRow
                                     ELSE [of |-> first[k], until |-> kept[k] + CacheTTL]]
    /\ newest = kept
    /\ janitor = {}
    /\ age = [j \in Jobs |-> 0]

\* Resolve asks the cache; Get reads the clock.
Ask(j) ==
    /\ At(j, "new") /\ now <= Horizon
    /\ stamp' = [stamp EXCEPT ![j] = now]
    /\ Goto(j, "looking")
    /\ UNCHANGED <<now, source, answer, cache, janitor, age, kept, newest>>

\* The row is there and has not run out.
Hit(j) ==
    /\ At(j, "looking") /\ Fresh(cache[Key(j)], stamp[j])
    /\ answer' = [answer EXCEPT ![j] = cache[Key(j)].of]
    /\ age' = [age EXCEPT ![j] = now - kept[Key(j)]]
    /\ Goto(j, "done")
    /\ UNCHANGED <<now, source, stamp, cache, janitor, kept, newest>>

Miss(j) ==
    /\ At(j, "looking") /\ ~Fresh(cache[Key(j)], stamp[j])
    /\ Goto(j, "recognizing")
    /\ UNCHANGED <<now, source, stamp, answer, cache, janitor, age, kept, newest>>

\* An error of the cache is a miss.
LookFails(j) ==
    /\ At(j, "looking")
    /\ Goto(j, "recognizing")
    /\ UNCHANGED <<now, source, stamp, answer, cache, janitor, age, kept, newest>>

\* A match, by the sound or else by the page of the link, is about to be stored:
\* the clock is read for its expiry. The mutant counts from when the job asked.
MatchFromAsk(j) ==
    /\ answer' = [answer EXCEPT ![j] = source[j]]
    /\ Goto(j, "storing")
    /\ UNCHANGED <<now, source, stamp, cache, janitor, age, kept, newest>>

Match(j) ==
    /\ answer' = [answer EXCEPT ![j] = source[j]]
    /\ stamp' = [stamp EXCEPT ![j] = now]
    /\ Goto(j, "storing")
    /\ UNCHANGED <<now, source, cache, janitor, age, kept, newest>>

Identify(j) == At(j, "recognizing") /\ Match(j)

IdentifyFails(j) ==
    /\ At(j, "recognizing")
    /\ Goto(j, "scraping")
    /\ UNCHANGED <<now, source, stamp, answer, cache, janitor, age, kept, newest>>

Scrape(j) == At(j, "scraping") /\ Match(j)

\* What did not match is returned and not stored. The mutant does not look.
ScrapeFailsStored(j) ==
    /\ At(j, "scraping")
    /\ stamp' = [stamp EXCEPT ![j] = now]
    /\ Goto(j, "storing")
    /\ UNCHANGED <<now, source, answer, cache, janitor, age, kept, newest>>

ScrapeFails(j) ==
    /\ At(j, "scraping")
    /\ Goto(j, "done")
    /\ UNCHANGED <<now, source, stamp, answer, cache, janitor, age, kept, newest>>

\* The upsert of Set: it wins over the row that is there, even over one that was
\* written with a later clock.
Store(j) ==
    /\ At(j, "storing")
    /\ cache' = [cache EXCEPT ![Key(j)] =
                    [of |-> answer[j], until |-> stamp[j] + CacheTTL]]
    /\ kept' = [kept EXCEPT ![Key(j)] = stamp[j]]
    /\ newest' = [newest EXCEPT ![Key(j)] = IF @ < stamp[j] THEN stamp[j] ELSE @]
    /\ Goto(j, "done")
    /\ UNCHANGED <<now, source, stamp, answer, janitor, age>>

\* An error of Set is logged, and the match returned all the same.
StoreFails(j) ==
    /\ At(j, "storing")
    /\ Goto(j, "done")
    /\ UNCHANGED <<now, source, stamp, answer, cache, janitor, age, kept, newest>>

----------------------------------------------------------------------------
\* The ticker wakes the janitor, and DeleteExpired reads the clock. The mutant
\* purges at the start of the process only.
JanitorStarts ==
    /\ janitor = {} /\ now = 0
    /\ janitor' = {now}
    /\ UNCHANGED <<now, pc, source, stamp, answer, cache, age, kept, newest>>

JanitorReads ==
    /\ janitor = {}
    /\ janitor' = {now}
    /\ UNCHANGED <<now, pc, source, stamp, answer, cache, age, kept, newest>>

JanitorPurges ==
    /\ \E t \in janitor :
          cache' = [k \in Keys |-> IF Expired(cache[k], t) THEN NoRow ELSE cache[k]]
    /\ janitor' = {}
    /\ UNCHANGED <<now, pc, source, stamp, answer, age, kept, newest>>

PurgeFails ==
    /\ janitor # {}
    /\ janitor' = {}
    /\ UNCHANGED <<now, pc, source, stamp, answer, cache, age, kept, newest>>

\* Time passes, but no statement waits for more than MaxLag ticks.
Tick ==
    /\ now < MaxNow
    /\ now >= Horizon => \A j \in Jobs : pc[j] \in {"new", "done"}
    /\ \A j \in Jobs : pc[j] \in {"looking", "storing"} => now - stamp[j] < MaxLag
    /\ \A t \in janitor : now - t < MaxLag
    /\ now' = now + 1
    /\ UNCHANGED <<pc, source, stamp, answer, cache, janitor, age, kept, newest>>

Resolve(j) ==
    \/ Ask(j) \/ Hit(j) \/ Miss(j) \/ LookFails(j)
    \/ Identify(j) \/ IdentifyFails(j) \/ Scrape(j) \/ ScrapeFails(j)
    \/ Store(j) \/ StoreFails(j)

Next ==
    \/ \E j \in Jobs : Resolve(j)
    \/ JanitorReads \/ JanitorPurges \/ PurgeFails \/ Tick

\* Jobs that are under way go on, time passes, the ticker fires, and not every
\* purge fails.
Fairness ==
    /\ \A j \in Jobs : WF_vars(~At(j, "new") /\ Resolve(j))
    /\ WF_vars(Tick) /\ WF_vars(JanitorReads) /\ SF_vars(JanitorPurges)

Spec == Init /\ [][Next]_vars
FairSpec == Spec /\ Fairness
----------------------------------------------------------------------------
\* Every variable keeps its type; a row that is there holds a match.
TypeOK ==
    /\ now \in Nat
    /\ pc \in [Jobs -> Places]
    /\ source \in [Jobs -> Media]
    /\ stamp \in [Jobs -> Nat]
    /\ answer \in [Jobs -> Media \cup {Nothing}]
    /\ cache \in [Keys -> {NoRow} \cup [of : Media, until : Nat]]
    /\ janitor \subseteq Nat
    /\ age \in [Jobs -> Int]
    /\ kept \in [Keys -> Int]
    /\ newest \in [Keys -> Int]

\* However late the janitor is, and whatever order rows are written in, a
\* recognition from the cache is younger than CACHE_TTL and the time the look-up
\* waited.
NeverStale == \A j \in Jobs : age[j] < CacheTTL + MaxLag

\* What was written last stays for all of CACHE_TTL, whatever a purge with an old
\* clock does. Of what was written before, even with a later clock, the upsert of
\* another job takes at most the time that it waited: for CACHE_TTL less MaxLag
\* after the latest recognition that was stored there is a row to answer with.
Remembered ==
    \A k \in Keys :
        /\ now < kept[k] + CacheTTL =>
              cache[k].of # Nothing /\ cache[k].until = kept[k] + CacheTTL
        /\ now < newest[k] + CacheTTL - MaxLag =>
              /\ cache[k].of # Nothing
              /\ cache[k].until >= newest[k] + CacheTTL - MaxLag

\* A job is told of a medium whose link has the key of its own, and of an upload
\* only when it is its own.
AnswerForKey ==
    \A j \in Jobs : answer[j] # Nothing =>
        IF source[j] \in Files THEN answer[j] = source[j]
        ELSE answer[j] \in Links /\ NormalizeMediaURL(answer[j]) = NormalizeMediaURL(source[j])

\* Every row goes in the end, those of uploads too, which no look-up finds again.
EveryRowEnds == \A k \in Keys : cache[k] # NoRow ~> cache[k] = NoRow
=============================================================================
