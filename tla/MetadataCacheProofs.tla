------------------------ MODULE MetadataCacheProofs ------------------------
(***************************************************************************)
(* Theorems about MetadataCache, for any number of jobs, links and files.  *)
(***************************************************************************)
EXTENDS MetadataCache, TLAPS

\* No clock that was read is ahead of the wall clock, that of a row included, or too
\* far behind it while its statement waits.
Clocks ==
    /\ \A j \in Jobs :
          /\ stamp[j] <= now
          /\ pc[j] \in {"looking", "storing"} => now - stamp[j] <= MaxLag
    /\ \A t \in janitor : t <= now
    /\ \A k \in Keys : newest[k] <= now

\* A row expires CACHE_TTL after the clock of the last write, and what it says
\* has its key.
RowSound(k) ==
    cache[k].of # Nothing =>
        /\ cache[k].until = kept[k] + CacheTTL
        /\ k \in Codes => cache[k].of \in Links /\ NormalizeMediaURL(cache[k].of) = k
        /\ k \in Jobs => source[k] \in Files /\ cache[k].of = source[k]

RowsSound == \A k \in Keys : RowSound(k)

\* What is about to be stored was recognised.
StoresOwn == \A j \in Jobs : pc[j] = "storing" => answer[j] = source[j]

IInv ==
    /\ TypeOK /\ Clocks /\ RowsSound /\ StoresOwn
    /\ NeverStale /\ Remembered /\ AnswerForKey

USE CacheTTLAssumption, BoundsAssumption, NothingAssumption, NamesAssumption

\* The key of an upload is the job's own, that of a link is its code.
LEMMA KeyOfSource ==
    ASSUME TypeOK, NEW j \in Jobs
    PROVE  /\ Key(j) \in Keys
           /\ source[j] \in Files => Key(j) = j /\ Key(j) \notin Codes
           /\ source[j] \notin Files =>
                 /\ source[j] \in Links
                 /\ Key(j) = NormalizeMediaURL(source[j])
                 /\ Key(j) \in Codes /\ Key(j) \notin Jobs
<1>1. source[j] \in Files \/ source[j] \in Links
  BY DEF TypeOK, Media
<1>2. ASSUME NEW l \in Links PROVE NormalizeMediaURL(l) \in Codes /\ l \notin Files
  BY DEF Links, NormalizeMediaURL
<1> QED
  BY <1>1, <1>2 DEF Key, Keys

\* The invariant holds at the start.
LEMMA Start == Init => IInv
<1> SUFFICES ASSUME Init PROVE IInv
  OBVIOUS
<1>1. PICK first \in [Codes -> Links \cup {Nothing}] :
          /\ \A c \in Codes : first[c] # Nothing => NormalizeMediaURL(first[c]) = c
          /\ kept \in [Keys -> -CacheTTL .. 0]
          /\ \A k \in Keys : k \in Jobs \/ first[k] = Nothing => kept[k] = -CacheTTL
          /\ cache = [k \in Keys |-> IF k \in Jobs \/ first[k] = Nothing THEN NoRow
                                     ELSE [of |-> first[k], until |-> kept[k] + CacheTTL]]
  BY DEF Init
<1>2. ASSUME NEW k \in Keys
      PROVE  /\ kept[k] \in Int /\ kept[k] + CacheTTL \in Nat
             /\ cache[k] \in {NoRow} \cup [of : Media, until : Nat]
             /\ RowSound(k)
             /\ kept[k] <= 0
             /\ 0 < kept[k] + CacheTTL =>
                   cache[k].of # Nothing /\ cache[k].until = kept[k] + CacheTTL
  <2>1. kept[k] \in -CacheTTL .. 0
    BY <1>1
  <2>2. kept[k] \in Int /\ kept[k] <= 0 /\ kept[k] + CacheTTL \in Nat
    BY <2>1
  <2>3. CASE k \in Jobs \/ first[k] = Nothing
    <3>1. cache[k] = NoRow /\ kept[k] = -CacheTTL
      BY <1>1, <2>3
    <3> QED
      BY <2>2, <3>1 DEF NoRow, RowSound
  <2>4. CASE ~(k \in Jobs \/ first[k] = Nothing)
    <3>1. k \in Codes /\ first[k] \in Links /\ NormalizeMediaURL(first[k]) = k
      BY <1>1, <2>4 DEF Keys
    <3>2. cache[k] = [of |-> first[k], until |-> kept[k] + CacheTTL]
      BY <1>1, <2>4
    <3> QED
      BY <2>2, <2>4, <3>1, <3>2 DEF RowSound, Media, Links
  <2> QED
    BY <2>3, <2>4
<1>3. /\ now = 0 /\ janitor = {} /\ pc = [j \in Jobs |-> "new"]
      /\ source \in [Jobs -> Media] /\ stamp = [j \in Jobs |-> 0]
      /\ answer = [j \in Jobs |-> Nothing] /\ age = [j \in Jobs |-> 0]
      /\ newest = kept
  BY DEF Init
<1>4. cache \in [Keys -> {NoRow} \cup [of : Media, until : Nat]] /\ kept \in [Keys -> Int]
      /\ newest \in [Keys -> Int]
  BY <1>1, <1>2, <1>3
<1>5. TypeOK
  BY <1>3, <1>4 DEF TypeOK, Places
<1>6. Clocks /\ StoresOwn /\ NeverStale /\ AnswerForKey
  BY <1>2, <1>3 DEF Clocks, StoresOwn, NeverStale, AnswerForKey
<1>7. RowsSound
  BY <1>2 DEF RowsSound
<1>8. ASSUME NEW k \in Keys, now < newest[k] + CacheTTL - MaxLag
      PROVE  cache[k].of # Nothing /\ cache[k].until >= newest[k] + CacheTTL - MaxLag
  <2>1. 0 < kept[k] + CacheTTL /\ newest[k] = kept[k] /\ kept[k] \in Int
    BY <1>2, <1>3, <1>8
  <2> QED
    BY <1>2, <2>1
<1>9. Remembered
  BY <1>2, <1>3, <1>8 DEF Remembered
<1> QED
  BY <1>5, <1>6, <1>7, <1>9 DEF IInv

\* Steps that change only where a job is, or what the janitor has read, keep the
\* invariant.
LEMMA Quiet ==
    ASSUME IInv,
           UNCHANGED <<now, source, stamp, answer, cache, age, kept, newest>>,
           pc' \in [Jobs -> Places],
           \A j \in Jobs : pc'[j] = pc[j] \/ pc'[j] \notin {"looking", "storing"},
           janitor' \subseteq Nat, \A t \in janitor' : t <= now
    PROVE  IInv'
<1>1. TypeOK'
  BY DEF IInv, TypeOK, Keys, Media, Links
<1>2. Clocks' /\ StoresOwn'
  BY DEF IInv, Clocks, StoresOwn
<1>3. NeverStale' /\ Remembered' /\ AnswerForKey'
  BY DEF IInv, NeverStale, Remembered, AnswerForKey, Keys, Links
<1>4. RowsSound'
  BY DEF IInv, RowsSound, RowSound, Keys, Links
<1> QED
  BY <1>1, <1>2, <1>3, <1>4 DEF IInv

\* A job asks the cache: it reads the clock.
LEMMA AskKeeps ==
    ASSUME IInv, NEW j \in Jobs, Ask(j)
    PROVE  IInv'
<1>1. /\ UNCHANGED <<now, source, answer, cache, janitor, age, kept, newest>>
      /\ stamp' = [stamp EXCEPT ![j] = now]
      /\ pc' = [pc EXCEPT ![j] = "looking"]
  BY DEF Ask, Goto
<1>2. TypeOK'
  BY <1>1 DEF IInv, TypeOK, Keys, Media, Links, Places
<1>3. Clocks' /\ StoresOwn'
  BY <1>1 DEF IInv, TypeOK, Clocks, StoresOwn
<1>4. NeverStale' /\ Remembered' /\ AnswerForKey' /\ RowsSound'
  BY <1>1 DEF IInv, NeverStale, Remembered, AnswerForKey, RowsSound, RowSound, Keys, Links
<1> QED
  BY <1>2, <1>3, <1>4 DEF IInv

\* A look-up that hits returns a row that is young enough, about the job's key.
LEMMA HitKeeps ==
    ASSUME IInv, NEW j \in Jobs, Hit(j)
    PROVE  IInv'
<1>1. /\ UNCHANGED <<now, source, stamp, cache, janitor, kept, newest>>
      /\ pc[j] = "looking" /\ Fresh(cache[Key(j)], stamp[j])
      /\ answer' = [answer EXCEPT ![j] = cache[Key(j)].of]
      /\ age' = [age EXCEPT ![j] = now - kept[Key(j)]]
      /\ pc' = [pc EXCEPT ![j] = "done"]
  BY DEF Hit, At, Goto
<1>2. /\ Key(j) \in Keys
      /\ source[j] \in Files => Key(j) = j
      /\ source[j] \notin Files =>
            source[j] \in Links /\ Key(j) = NormalizeMediaURL(source[j]) /\ Key(j) \in Codes
  BY KeyOfSource DEF IInv
<1>3. /\ cache[Key(j)] \in [of : Media, until : Nat]
      /\ cache[Key(j)].of \in Media /\ cache[Key(j)].of # Nothing
      /\ cache[Key(j)].until > stamp[j]
      /\ kept[Key(j)] \in Int
  BY <1>1, <1>2 DEF IInv, TypeOK, Fresh, NoRow
<1>4. RowSound(Key(j))
  BY <1>2 DEF IInv, RowsSound
<1>5. now - kept[Key(j)] \in Int /\ now - kept[Key(j)] < CacheTTL + MaxLag
  <2>1. stamp[j] \in Nat /\ now \in Nat /\ now - stamp[j] <= MaxLag
    BY <1>1 DEF IInv, TypeOK, Clocks
  <2>2. cache[Key(j)].until = kept[Key(j)] + CacheTTL
    BY <1>3, <1>4 DEF RowSound
  <2> QED
    BY <1>3, <2>1, <2>2
<1>6. TypeOK'
  BY <1>1, <1>3, <1>5 DEF IInv, TypeOK, Keys, Media, Links, Places
<1>7. Clocks' /\ StoresOwn'
  BY <1>1 DEF IInv, TypeOK, Clocks, StoresOwn
<1>8. NeverStale'
  BY <1>1, <1>5 DEF IInv, TypeOK, NeverStale
<1>9. AnswerForKey'
  <2>1. IF source[j] \in Files THEN cache[Key(j)].of = source[j]
        ELSE /\ cache[Key(j)].of \in Links
             /\ NormalizeMediaURL(cache[Key(j)].of) = NormalizeMediaURL(source[j])
    BY <1>2, <1>3, <1>4 DEF RowSound
  <2> QED
    BY <1>1, <2>1 DEF IInv, TypeOK, AnswerForKey, Links, NormalizeMediaURL
<1>10. Remembered' /\ RowsSound'
  BY <1>1 DEF IInv, Remembered, RowsSound, RowSound, Keys, Links
<1> QED
  BY <1>6, <1>7, <1>8, <1>9, <1>10 DEF IInv

\* A match is about the job's own medium, and is stored with a clock just read.
LEMMA MatchKeeps ==
    ASSUME IInv, NEW j \in Jobs, Match(j)
    PROVE  IInv'
<1>1. /\ UNCHANGED <<now, source, cache, janitor, age, kept, newest>>
      /\ answer' = [answer EXCEPT ![j] = source[j]]
      /\ stamp' = [stamp EXCEPT ![j] = now]
      /\ pc' = [pc EXCEPT ![j] = "storing"]
  BY DEF Match, Goto
<1>2. TypeOK'
  BY <1>1 DEF IInv, TypeOK, Keys, Media, Links, Places
<1>3. Clocks' /\ StoresOwn'
  BY <1>1 DEF IInv, TypeOK, Clocks, StoresOwn
<1>4. AnswerForKey'
  BY <1>1, KeyOfSource DEF IInv, TypeOK, AnswerForKey, Links, NormalizeMediaURL
<1>5. NeverStale' /\ Remembered' /\ RowsSound'
  BY <1>1 DEF IInv, NeverStale, Remembered, RowsSound, RowSound, Keys, Links
<1> QED
  BY <1>2, <1>3, <1>4, <1>5 DEF IInv

\* An upsert writes a row of its job's key, to stay for CACHE_TTL. It may replace a
\* row with a later clock, but by no more than the time it waited.
LEMMA StoreKeeps ==
    ASSUME IInv, NEW j \in Jobs, Store(j)
    PROVE  IInv'
<1> DEFINE row == [of |-> answer[j], until |-> stamp[j] + CacheTTL]
<1>1. /\ UNCHANGED <<now, source, stamp, answer, janitor, age>>
      /\ pc[j] = "storing"
      /\ cache' = [cache EXCEPT ![Key(j)] = row]
      /\ kept' = [kept EXCEPT ![Key(j)] = stamp[j]]
      /\ newest' = [newest EXCEPT ![Key(j)] = IF @ < stamp[j] THEN stamp[j] ELSE @]
      /\ pc' = [pc EXCEPT ![j] = "done"]
  BY DEF Store, At, Goto
<1>2. /\ Key(j) \in Keys
      /\ source[j] \in Files => Key(j) = j /\ Key(j) \notin Codes
      /\ source[j] \notin Files =>
            /\ source[j] \in Links /\ Key(j) = NormalizeMediaURL(source[j])
            /\ Key(j) \in Codes /\ Key(j) \notin Jobs
  BY KeyOfSource DEF IInv
<1>3. /\ stamp[j] \in Nat /\ answer[j] = source[j] /\ source[j] \in Media
      /\ row \in [of : Media, until : Nat] /\ row.of # Nothing
  BY <1>1 DEF IInv, TypeOK, StoresOwn, Media, Links
<1>4. ASSUME NEW k \in Keys
      PROVE  /\ cache'[k] = IF k = Key(j) THEN row ELSE cache[k]
             /\ kept'[k] = IF k = Key(j) THEN stamp[j] ELSE kept[k]
             /\ newest'[k] = IF k = Key(j) /\ newest[k] < stamp[j] THEN stamp[j]
                             ELSE newest[k]
  BY <1>1, <1>2 DEF IInv, TypeOK
<1>5. /\ now \in Nat /\ stamp[j] <= now /\ now - stamp[j] <= MaxLag
      /\ \A k \in Keys :
            newest[k] \in Int /\ newest[k] <= now /\ newest'[k] <= now
  BY <1>1, <1>3, <1>4 DEF IInv, TypeOK, Clocks
<1>6. TypeOK'
  BY <1>1, <1>2, <1>3 DEF IInv, TypeOK, Keys, Media, Links, Places
<1>7. Clocks' /\ StoresOwn'
  BY <1>1, <1>5 DEF IInv, TypeOK, Clocks, StoresOwn, Keys
<1>8. NeverStale' /\ AnswerForKey'
  BY <1>1 DEF IInv, NeverStale, AnswerForKey, Links
<1>9. Remembered'
  <2>1. ASSUME NEW k \in Keys
        PROVE  /\ now < kept'[k] + CacheTTL =>
                     cache'[k].of # Nothing /\ cache'[k].until = kept'[k] + CacheTTL
               /\ now < newest'[k] + CacheTTL - MaxLag =>
                     /\ cache'[k].of # Nothing
                     /\ cache'[k].until >= newest'[k] + CacheTTL - MaxLag
    <3>1. CASE k = Key(j)
      \* The new row is not older than the wait of its statement.
      <4>1. cache'[k] = row /\ kept'[k] = stamp[j] /\ row.until = stamp[j] + CacheTTL
        BY <1>4, <3>1
      <4>2. newest'[k] \in Int /\ newest'[k] <= now
        BY <1>3, <1>4, <1>5
      <4>3. stamp[j] + CacheTTL >= newest'[k] + CacheTTL - MaxLag
        BY <1>3, <1>5, <4>2
      <4> QED
        BY <1>3, <4>1, <4>3
    <3>2. CASE k # Key(j)
      BY <1>4, <3>2 DEF IInv, Remembered
    <3> QED
      BY <3>1, <3>2
  <2> QED
    BY <1>1, <2>1 DEF Remembered, Keys
<1>10. ASSUME NEW k \in Keys PROVE RowSound(k)'
  <2>1. CASE k = Key(j)
    <3>1. cache'[k] = row /\ kept'[k] = stamp[j]
      BY <1>4, <2>1
    <3> QED
      BY <1>1, <1>2, <1>3, <2>1, <3>1 DEF RowSound, Links, NormalizeMediaURL
  <2>2. CASE k # Key(j)
    <3>1. cache'[k] = cache[k] /\ kept'[k] = kept[k] /\ RowSound(k)
      BY <1>4, <2>2 DEF IInv, RowsSound
    <3> QED
      BY <1>1, <3>1 DEF RowSound, Links
  <2> QED
    BY <2>1, <2>2
<1> QED
  BY <1>6, <1>7, <1>8, <1>9, <1>10 DEF IInv, RowsSound, Keys

\* A purge takes rows that have run out by a clock that is not ahead.
LEMMA PurgeKeeps ==
    ASSUME IInv, JanitorPurges
    PROVE  IInv'
<1>1. PICK t \in janitor :
          cache' = [k \in Keys |-> IF Expired(cache[k], t) THEN NoRow ELSE cache[k]]
  BY DEF JanitorPurges
<1>2. janitor' = {} /\ UNCHANGED <<now, pc, source, stamp, answer, age, kept, newest>>
  BY DEF JanitorPurges
<1>3. ASSUME NEW k \in Keys
      PROVE  \/ cache'[k] = cache[k]
             \/ cache'[k] = NoRow /\ cache[k].until <= now /\ cache[k].of # Nothing
  <2>1. t \in Nat /\ t <= now /\ now \in Nat
    BY DEF IInv, TypeOK, Clocks
  <2>2. cache[k].of # Nothing => cache[k].until \in Nat
    BY DEF IInv, TypeOK, NoRow
  <2> QED
    BY <1>1, <2>1, <2>2 DEF Expired
<1>4. TypeOK'
  <2>1. cache' \in [Keys -> {NoRow} \cup [of : Media, until : Nat]]
    BY <1>1 DEF IInv, TypeOK
  <2> QED
    BY <1>2, <2>1 DEF IInv, TypeOK, Keys, Media, Links, NoRow
<1>5. Clocks' /\ StoresOwn'
  BY <1>2 DEF IInv, Clocks, StoresOwn
<1>6. NeverStale' /\ AnswerForKey'
  BY <1>2 DEF IInv, NeverStale, AnswerForKey, Links
<1>7. ASSUME NEW k \in Keys
      PROVE  /\ now < kept[k] + CacheTTL =>
                   cache'[k].of # Nothing /\ cache'[k].until = kept[k] + CacheTTL
             /\ now < newest[k] + CacheTTL - MaxLag =>
                   /\ cache'[k].of # Nothing
                   /\ cache'[k].until >= newest[k] + CacheTTL - MaxLag
  <2>1. now \in Nat /\ kept[k] \in Int /\ newest[k] \in Int
    BY DEF IInv, TypeOK
  <2>2. CASE cache'[k] = cache[k]
    BY <2>2 DEF IInv, Remembered
  <2>3. CASE cache[k].until <= now /\ cache[k].of # Nothing
    <3>1. cache[k].until \in Nat
      BY <2>3 DEF IInv, TypeOK, NoRow
    <3> QED
      BY <2>1, <2>3, <3>1 DEF IInv, Remembered
  <2> QED
    BY <1>3, <2>2, <2>3
<1>8. Remembered'
  BY <1>2, <1>7 DEF Remembered, Keys
<1>9. ASSUME NEW k \in Keys PROVE RowSound(k)'
  BY <1>2, <1>3 DEF IInv, RowsSound, RowSound, NoRow, Links
<1> QED
  BY <1>4, <1>5, <1>6, <1>8, <1>9 DEF IInv, RowsSound, Keys

\* The clock moves on while no statement has waited for too long.
LEMMA TickKeeps ==
    ASSUME IInv, Tick
    PROVE  IInv'
<1>1. /\ now' = now + 1 /\ now \in Nat
      /\ UNCHANGED <<pc, source, stamp, answer, cache, janitor, age, kept, newest>>
      /\ \A j \in Jobs : pc[j] \in {"looking", "storing"} => now - stamp[j] < MaxLag
  BY DEF Tick, IInv, TypeOK
<1>2. TypeOK'
  BY <1>1 DEF IInv, TypeOK, Keys, Media, Links, Places, NoRow
<1>3. Clocks' /\ StoresOwn'
  BY <1>1 DEF IInv, TypeOK, Clocks, StoresOwn
<1>4. NeverStale' /\ AnswerForKey'
  BY <1>1 DEF IInv, NeverStale, AnswerForKey, Links
<1>5. Remembered'
  BY <1>1 DEF IInv, TypeOK, Remembered, Keys
<1>6. RowsSound'
  BY <1>1 DEF IInv, RowsSound, RowSound, Keys, Links
<1> QED
  BY <1>2, <1>3, <1>4, <1>5, <1>6 DEF IInv

\* The invariant is inductive.
THEOREM Inductive == IInv /\ [Next]_vars => IInv'
<1> SUFFICES ASSUME IInv, [Next]_vars PROVE IInv'
  OBVIOUS
<1>1. pc \in [Jobs -> Places] /\ janitor \subseteq Nat /\ now \in Nat
      /\ \A t \in janitor : t <= now
  BY DEF IInv, TypeOK, Clocks
<1>2. ASSUME NEW j \in Jobs,
             Miss(j) \/ LookFails(j) \/ IdentifyFails(j) \/ ScrapeFails(j) \/ StoreFails(j)
      PROVE  IInv'
  <2>1. /\ UNCHANGED <<now, source, stamp, answer, cache, janitor, age, kept, newest>>
        /\ \E place \in {"recognizing", "scraping", "done"} : Goto(j, place)
    BY <1>2 DEF Miss, LookFails, IdentifyFails, ScrapeFails, StoreFails
  <2>2. /\ pc' \in [Jobs -> Places]
        /\ \A i \in Jobs : pc'[i] = pc[i] \/ pc'[i] \notin {"looking", "storing"}
    BY <1>1, <2>1 DEF Goto, Places
  <2> QED
    BY <1>1, <2>1, <2>2, Quiet
<1>3. ASSUME NEW j \in Jobs, Identify(j) \/ Scrape(j) PROVE IInv'
  BY <1>3, MatchKeeps DEF Identify, Scrape
<1>4. ASSUME JanitorReads \/ PurgeFails PROVE IInv'
  <2>1. /\ UNCHANGED <<now, pc, source, stamp, answer, cache, age, kept, newest>>
        /\ janitor' = {} \/ janitor' = {now}
    BY <1>4 DEF JanitorReads, PurgeFails
  <2>2. janitor' \subseteq Nat /\ \A t \in janitor' : t <= now
    BY <1>1, <2>1
  <2> QED
    BY <1>1, <2>1, <2>2, Quiet
<1>5. CASE UNCHANGED vars
  BY <1>1, <1>5, Quiet DEF vars
<1>6. ASSUME NEW j \in Jobs, Resolve(j) PROVE IInv'
  BY <1>2, <1>3, <1>6, AskKeeps, HitKeeps, StoreKeeps DEF Resolve
<1> QED
  BY <1>4, <1>5, <1>6, PurgeKeeps, TickKeeps DEF Next

\* The invariant holds always.
THEOREM Invariance == Spec => []IInv
  BY Start, Inductive, PTL DEF Spec

\* Types hold, and no row is kept that is not a match.
THEOREM TypeCorrect == Spec => []TypeOK
<1>1. IInv => TypeOK
  BY DEF IInv
<1> QED
  BY <1>1, Invariance, PTL

\* A hit is never older than CACHE_TTL and the wait of one look-up.
THEOREM NeverStaleCorrect == Spec => []NeverStale
<1>1. IInv => NeverStale
  BY DEF IInv
<1> QED
  BY <1>1, Invariance, PTL

\* The last row written stays until it has run out, whatever late purges do, and
\* what was stored before it, by however many jobs in whatever order, is answered
\* for CACHE_TTL less the longest wait of an upsert.
THEOREM RememberedCorrect == Spec => []Remembered
<1>1. IInv => Remembered
  BY DEF IInv
<1> QED
  BY <1>1, Invariance, PTL

\* A job is never told of a medium with another key, or of another's upload.
THEOREM AnswerCorrect == Spec => []AnswerForKey
<1>1. IInv => AnswerForKey
  BY DEF IInv
<1> QED
  BY <1>1, Invariance, PTL
=============================================================================
