-------------------------- MODULE DownloadsProofs --------------------------
(***************************************************************************)
(* The choice of Downloads for every chain of providers, every policy and  *)
(* all files that yt-dlp may leave: what a provider accepts is exactly     *)
(* what fits the recognition, and the first such track is delivered.       *)
(***************************************************************************)
EXTENDS Downloads, TLAPS

\* Multiplication by a natural number is monotone.
LEMMA MulMono ==
    ASSUME NEW a \in Nat, NEW b \in Nat, NEW f \in Nat, a <= b
    PROVE  a * f <= b * f
OBVIOUS

\* The percentage of e that the tolerance is made of, rounded down.
LEMMA ShareBounds ==
    ASSUME NEW e \in Nat
    PROVE  LET x == e * RelativeTolerance  s == x \div 100 IN
           /\ x \in Nat /\ s \in Nat /\ s <= e
           /\ \A d \in Int : d <= s <=> 100 * d <= x
<1> DEFINE x == e * RelativeTolerance
<1>1. RelativeTolerance \in Nat /\ RelativeTolerance <= 100 /\ 100 \in Nat
  BY PolicyAssumption
<1>2. x \in Nat
  BY <1>1
<1>3. x <= 100 * e
  <2>1. RelativeTolerance * e <= 100 * e
    BY <1>1, MulMono
  <2>2. QED
    BY <1>1, <2>1
<1> HIDE DEF x
<1>4. x \div 100 \in Nat /\ 100 * (x \div 100) <= x /\ x < 100 * (x \div 100) + 100
  BY <1>2
<1>5. \A d \in Int : d <= x \div 100 <=> 100 * d <= x
  BY <1>2, <1>4
<1>6. x \div 100 <= e
  BY <1>2, <1>3, <1>4
<1>7. QED
  BY <1>2, <1>4, <1>5, <1>6 DEF x

\* The integer arithmetic of the policy, with its division that rounds down, accepts
\* exactly the lengths that fit.
THEOREM PolicyExact ==
    ASSUME NEW a \in Nat, NEW e \in Nat
    PROVE  Matches(a, e) <=> Fits(a, e)
<1> DEFINE x == e * RelativeTolerance
           s == x \div 100
           t == Tolerance(e)
           M == MinToleranceSeconds
           F == MaxOvershootFactor
<1>1. M \in Nat /\ F \in Nat
  BY PolicyAssumption
<1>2. /\ x \in Nat /\ s \in Nat /\ s <= e
      /\ \A d \in Int : d <= s <=> 100 * d <= x
  BY ShareBounds
<1>3. t = (IF s < M THEN M ELSE s)
  BY DEF Tolerance
<1> HIDE DEF x, s, t
<1>4. t \in Nat /\ s <= t /\ M <= t /\ (t = s \/ t = M)
  BY <1>1, <1>2, <1>3
<1> HIDE DEF M, F
<1>5. CASE e = 0
  BY <1>5 DEF Matches, Fits
<1>6. CASE e > 0
  <2>1. a + t >= e <=> e - a <= M \/ 100 * (e - a) <= x
    BY <1>1, <1>2, <1>4
  <2>2. /\ t * F \in Nat /\ s * F \in Nat /\ M * F \in Nat
        /\ M * F <= t * F
    BY <1>1, <1>2, <1>4, MulMono
  <2>3. ASSUME a <= e + t * F
        PROVE  a - e <= M * F \/ \E q \in 0..e : 100 * q <= x /\ a - e <= q * F
    <3>1. CASE t = M
      BY <1>1, <2>2, <2>3, <3>1
    <3>2. CASE t = s
      <4>1. s \in 0..e /\ 100 * s <= x
        BY <1>2
      <4>2. a - e <= s * F
        BY <2>2, <2>3, <3>2
      <4>3. QED
        BY <4>1, <4>2
    <3>3. QED
      BY <1>4, <3>1, <3>2
  <2>4. ASSUME NEW q \in 0..e, 100 * q <= x, a - e <= q * F
        PROVE  a <= e + t * F
    <3>1. q \in Nat /\ q <= t
      BY <1>2, <1>4, <2>4
    <3>2. q * F <= t * F /\ q * F \in Nat
      BY <1>1, <1>4, <3>1, MulMono
    <3>3. QED
      BY <2>2, <2>4, <3>2
  <2>5. ASSUME a - e <= M * F PROVE a <= e + t * F
    BY <2>2, <2>5
  <2>6. a <= e + t * F <=> a - e <= M * F \/ \E q \in 0..e : 100 * q <= x /\ a - e <= q * F
    BY <2>3, <2>4, <2>5
  <2>7. Matches(a, e) <=> a > 0 /\ a + t >= e /\ a <= e + t * F
    BY <1>6 DEF Matches, t, F
  <2>8. Fits(a, e) <=>
          /\ a > 0
          /\ e - a <= M \/ 100 * (e - a) <= x
          /\ a - e <= M * F \/ \E q \in 0..e : 100 * q <= x /\ a - e <= q * F
    BY <1>6 DEF Fits, M, F, x
  <2>9. QED
    BY <2>1, <2>6, <2>7, <2>8
<1>7. QED
  BY <1>5, <1>6

----------------------------------------------------------------------------
\* Where a direct link and a recognized one may be.
Routed ==
    /\ kind = "direct" => /\ pc \in {"ripping", "done"} \cup Working
                          /\ attempt = 0 /\ expected = 0
    /\ kind # "direct" => /\ pc # "ripping"
                          /\ wrote[0] = NoFile
                          /\ pc \in Working => attempt > 0 /\ original
    /\ pc \in {"fetching", "cutting", "recognizing", "ripping"} => attempt = 0
    /\ pc = "ripping" => wrote[0] = NoFile /\ disk[0] = NoFile /\ 0 \notin ended

\* Providers ahead have left nothing, and those behind no track.
Ahead == \A p \in Attempts :
    p > attempt => disk[p] = NoFile /\ wrote[p] = NoFile /\ p \notin ended
Behind == \A p \in Attempts :
    p < attempt \/ (pc = "choosing" /\ p = attempt) => ~Left(p)

\* The provider at work finds in its directory what its yt-dlp wrote.
AtWork ==
    pc \in Working =>
        /\ disk[attempt] = wrote[attempt]
        /\ kind # "direct" => attempt \in dirs
        /\ pc = "running" => attempt \notin ended /\ clean = FALSE
        /\ pc = "checking" => (attempt \in ended <=> clean)

IInv == TypeOK /\ Routed /\ Ahead /\ Behind /\ AtWork /\ FirstTrackWins

\* A provider that wrote nothing left no track.
LEMMA NothingLeft ==
    ASSUME NEW p, wrote[p] = NoFile
    PROVE  ~Left(p)
BY DEF Left, Probed

\* What is left depends on what was written and on the recognition alone.
LEMMA LeftKept ==
    ASSUME UNCHANGED <<wrote, ended, expected>>
    PROVE  \A p : Left(p)' <=> Left(p)
BY DEF Left, Provider, Fits, Probed, Seconds

\* There is at least one provider.
LEMMA ChainTypes == Len(Chain) \in Nat /\ Len(Chain) > 0
BY ChainAssumption

\* A readable file has a length in whole seconds.
LEMMA SecondsType ==
    ASSUME NEW f \in Files
    PROVE  Seconds(f) \in Nat
<1>1. f.halves \in Nat
  BY FilesAssumption DEF Files
<1>2. QED
  BY <1>1 DEF Seconds

\* A provider takes its yt-dlp for successful exactly if that left a track.
LEMMA AcceptableIsLeft ==
    ASSUME TypeOK, AtWork, pc = "checking"
    PROVE  Acceptable(attempt, disk[attempt]) <=> Left(attempt)
<1> DEFINE f == disk[attempt]
<1>1. f \in Contents /\ f = wrote[attempt] /\ (attempt \in ended <=> clean)
  BY DEF TypeOK, AtWork, Working
<1>2. CASE f = NoFile
  BY <1>1, <1>2 DEF Acceptable, Finds, Left, Probed
<1>3. CASE f # NoFile
  <2>1. f \in Files
    BY <1>1, <1>3 DEF Contents
  <2>2. Seconds(f) \in Nat /\ expected \in Nat
    BY <2>1, SecondsType, DurationsAssumption DEF TypeOK
  <2>3. Matches(Seconds(f), expected) <=> Fits(Seconds(f), expected)
    BY <2>2, PolicyExact
  <2>4. QED
    BY <1>1, <1>3, <2>3 DEF Acceptable, Finds, Left
<1>4. QED
  BY <1>2, <1>3

\* Until a provider is asked no track is there.
LEMMA NothingYet ==
    ASSUME IInv, pc \in {"fetching", "cutting", "recognizing"}
    PROVE  /\ attempt = 0 /\ kind # "direct"
           /\ \A p \in Attempts : wrote[p] = NoFile
<1>1. attempt = 0 /\ kind # "direct"
  BY DEF IInv, Routed, Working
<1>2. ASSUME NEW p \in Attempts PROVE wrote[p] = NoFile
  <2>1. CASE p = 0
    BY <1>1, <2>1 DEF IInv, Routed
  <2>2. CASE p # 0
    BY <1>1, <2>2, ChainTypes DEF IInv, Ahead, Attempts
  <2>3. QED
    BY <2>1, <2>2
<1>3. QED
  BY <1>1, <1>2

\* Extraction and recognition come before the first provider.
LEMMA ExtractStep ==
    ASSUME IInv,
           \/ Fetched \/ Cut \/ ExtractFails \/ KilledInExtraction
           \/ Unrecognized \/ \E e \in Durations : Recognized(e)
    PROVE  IInv'
<1>1. /\ pc \in {"fetching", "cutting", "recognizing"}
      /\ UNCHANGED <<kind, expired, attempt, clean, dirs, disk, wrote, ended>>
  BY DEF Fetched, Cut, ExtractFails, KilledInExtraction, Unrecognized, Recognized, files
<1>2. attempt = 0 /\ kind # "direct" /\ \A p \in Attempts : wrote[p] = NoFile
  BY <1>1, NothingYet
<1>3. \A p \in Attempts : ~Left(p)'
  BY <1>1, <1>2 DEF Left, Probed
<1>4. /\ expected' \in Durations \cup {0}
      /\ \/ pc' \in {"cutting", "recognizing", "choosing"} /\ answer' = answer
         \/ pc' = "done" /\ answer' \in {Plain("error"), Plain("original")}
      /\ original' \in BOOLEAN
      /\ pc' \in {"cutting", "recognizing", "choosing"} \/ answer' = Plain("original") => original'
  <2>1. /\ original \in BOOLEAN /\ expected \in Durations \cup {0}
        /\ pc \in {"cutting", "recognizing"} => original
    BY DEF IInv, TypeOK
  <2>2. CASE Fetched
    BY <2>1, <2>2 DEF Fetched, Plain, NoAnswer, IInv, TypeOK
  <2>3. CASE Cut
    BY <2>1, <2>3 DEF Cut, IInv, TypeOK, Plain
  <2>4. CASE ExtractFails \/ KilledInExtraction
    BY <2>1, <2>4 DEF ExtractFails, KilledInExtraction, Return, Plain
  <2>5. CASE Unrecognized
    BY <2>1, <2>5 DEF Unrecognized, Return, Plain
  <2>6. CASE \E e \in Durations : Recognized(e)
    BY <2>1, <2>6 DEF Recognized, IInv, TypeOK, Plain
  <2>7. QED
    BY <2>2, <2>3, <2>4, <2>5, <2>6
<1>5. TypeOK'
  <2>1. 0 \in Attempts
    BY ChainTypes DEF Attempts
  <2>2. CASE answer' = answer /\ pc' \in {"cutting", "recognizing", "choosing"}
    BY <1>1, <1>4, <2>2 DEF IInv, TypeOK, Places, Plain
  <2>3. CASE pc' = "done" /\ answer' \in {Plain("error"), Plain("original")}
    BY <1>1, <1>4, <2>1, <2>3 DEF IInv, TypeOK, Places, Plain
  <2>4. QED
    BY <1>4, <2>2, <2>3
<1>6. Routed'
  BY <1>1, <1>2, <1>4 DEF IInv, Routed, Working
<1>7. Ahead' /\ Behind'
  BY <1>1, <1>3 DEF IInv, Ahead, Behind
<1>8. AtWork'
  BY <1>4 DEF AtWork, Working
<1>9. FirstTrackWins'
  BY <1>1, <1>2, <1>3, <1>4 DEF FirstTrackWins, Plain
<1>10. QED
  BY <1>5, <1>6, <1>7, <1>8, <1>9 DEF IInv

\* A provider is asked, or passed over for want of a directory.
LEMMA AttemptStep ==
    ASSUME IInv, Rip \/ Attempt \/ MakeDirFails
    PROVE  IInv'
<1> DEFINE next == IF pc = "ripping" THEN 0 ELSE attempt + 1
<1>1. /\ pc = "ripping" \/ (pc = "choosing" /\ attempt < Len(Chain))
      /\ UNCHANGED <<kind, expired, expected, disk, wrote, ended, original, answer>>
      /\ attempt' = next
      /\ \/ pc' \in Working /\ clean' = FALSE
         \/ pc' = "choosing" /\ clean' = clean /\ dirs' = dirs
      /\ dirs' = dirs \/ (dirs' = dirs \cup {attempt + 1} /\ pc = "choosing")
      /\ pc' \in Working /\ pc = "choosing" => attempt + 1 \in dirs'
      /\ pc = "ripping" => pc' \in Working
  <2>1. CASE Rip
    <3>1. /\ pc = "ripping" /\ next = 0 /\ attempt' = 0 /\ clean' = FALSE
          /\ UNCHANGED <<kind, expired, expected, dirs, disk, wrote, ended, original, answer>>
      BY <2>1 DEF Rip, Run, files
    <3>2. pc' \in Working
      BY <2>1 DEF Rip, Run, Working
    <3>3. QED
      BY <3>1, <3>2
  <2>2. CASE Attempt
    <3>1. /\ pc = "choosing" /\ attempt < Len(Chain)
          /\ attempt' = attempt + 1 /\ clean' = FALSE /\ dirs' = dirs \cup {attempt + 1}
          /\ UNCHANGED <<kind, expired, expected, disk, wrote, ended, original, answer>>
      BY <2>2 DEF Attempt, Run
    <3>2. pc' \in Working
      BY <2>2 DEF Attempt, Run, Working
    <3>3. QED
      BY <3>1, <3>2
  <2>3. CASE MakeDirFails
    <3>1. /\ pc = "choosing" /\ pc' = "choosing" /\ attempt < Len(Chain)
          /\ attempt' = attempt + 1 /\ clean' = clean /\ dirs' = dirs
          /\ UNCHANGED <<kind, expired, expected, disk, wrote, ended, original, answer>>
      BY <2>3 DEF MakeDirFails, files
    <3>2. pc' \notin Working
      BY <3>1 DEF Working
    <3>3. QED
      BY <3>1, <3>2
  <2>4. QED
    BY <2>1, <2>2, <2>3
<1>2. /\ attempt \in Attempts /\ Len(Chain) \in Nat
      /\ pc = "ripping" => attempt = 0 /\ kind = "direct"
      /\ pc = "choosing" => kind # "direct"
  BY ChainTypes DEF IInv, TypeOK, Routed, Working
<1>3. next \in Attempts /\ (pc = "choosing" => next = attempt + 1 /\ next \in Attempts \ {0})
  BY <1>1, <1>2 DEF Attempts
<1>4. TypeOK'
  BY <1>1, <1>3 DEF IInv, TypeOK, Working, Places
<1>5. disk[next] = NoFile /\ wrote[next] = NoFile /\ next \notin ended
  <2>1. CASE pc = "ripping"
    BY <2>1 DEF IInv, Routed
  <2>2. CASE pc = "choosing"
    <3>1. next > attempt
      BY <1>2, <1>3, <2>2 DEF Attempts
    <3>2. QED
      BY <1>3, <3>1 DEF IInv, Ahead
  <2>3. QED
    BY <1>1, <2>1, <2>2
<1>6. Routed'
  <2>1. pc = "choosing" => original
    BY DEF IInv, TypeOK
  <2>2. QED
    BY <1>1, <1>2, <1>3, <2>1 DEF IInv, Routed, Working, Attempts
<1>7. Ahead'
  <2>1. \A p \in Attempts : p > next => p > attempt
    BY <1>1, <1>2, <1>3 DEF Attempts
  <2>2. QED
    BY <1>1, <2>1 DEF IInv, Ahead
<1>8. Behind'
  <2>1. SUFFICES ASSUME NEW p \in Attempts, p < next \/ (pc' = "choosing" /\ p = next)
                 PROVE  ~Left(p)'
    BY <1>1 DEF Behind
  <2>2. ~Left(p)
    <3>1. CASE p = next
      BY <1>5, <3>1, NothingLeft
    <3>2. CASE p # next
      <4>1. p < next
        BY <2>1, <3>2
      <4>2. pc = "choosing"
        BY <1>1, <4>1 DEF Attempts
      <4>3. p < attempt \/ p = attempt
        BY <1>2, <1>3, <4>1, <4>2 DEF Attempts
      <4>4. QED
        BY <4>2, <4>3 DEF IInv, Behind
    <3>3. QED
      BY <3>1, <3>2
  <2>3. QED
    BY <1>1, <2>2, LeftKept
<1>9. AtWork'
  BY <1>1, <1>2, <1>3, <1>5 DEF AtWork, Working
<1>10. FirstTrackWins'
  BY <1>1 DEF FirstTrackWins, Working
<1>11. QED
  BY <1>4, <1>6, <1>7, <1>8, <1>9, <1>10 DEF IInv

\* yt-dlp writes, ends or is killed: only the provider at work is concerned.
LEMMA RunStep ==
    ASSUME IInv,
           \/ \E f \in Files : Write(f)
           \/ \E status \in BOOLEAN : Exit(status)
           \/ Killed /\ ~KilledInExtraction
    PROVE  IInv'
<1>1. /\ pc = "running" /\ pc' \in Working
      /\ UNCHANGED <<kind, expired, expected, attempt, dirs, original, answer>>
  BY DEF Write, Exit, Killed, files, Working
<1>2. /\ attempt \in Attempts /\ disk[attempt] = wrote[attempt] /\ attempt \notin ended
      /\ disk \in [Attempts -> Contents] /\ wrote \in [Attempts -> Contents]
      /\ ended \subseteq Attempts /\ clean = FALSE
  BY <1>1 DEF IInv, TypeOK, AtWork, Working
<1>3. /\ disk' \in [Attempts -> Contents] /\ wrote' \in [Attempts -> Contents]
      /\ ended' \subseteq Attempts /\ clean' \in BOOLEAN
      /\ disk'[attempt] = wrote'[attempt]
      /\ pc' = "running" => attempt \notin ended' /\ clean' = FALSE
      /\ pc' = "checking" => (attempt \in ended' <=> clean')
      /\ \A p \in Attempts : p # attempt =>
            disk'[p] = disk[p] /\ wrote'[p] = wrote[p] /\ (p \in ended' <=> p \in ended)
  <2>1. CASE \E f \in Files : Write(f)
    <3>1. PICK f \in Files : Write(f)
      BY <2>1
    <3>2. /\ disk' = [disk EXCEPT ![attempt] = f] /\ wrote' = [wrote EXCEPT ![attempt] = f]
          /\ f \in Contents /\ pc' = "running" /\ ended' = ended /\ clean' = clean
      BY <3>1 DEF Write, Contents
    <3>3. QED
      BY <1>2, <3>2
  <2>2. CASE \E status \in BOOLEAN : Exit(status)
    BY <1>2, <2>2 DEF Exit
  <2>3. CASE Killed /\ ~KilledInExtraction
    <3>1. pc' = "checking" /\ UNCHANGED <<clean, disk, wrote, ended>>
      BY <2>3 DEF Killed, files
    <3>2. QED
      BY <1>2, <3>1
  <2>4. QED
    BY <2>1, <2>2, <2>3
<1>4. TypeOK'
  BY <1>1, <1>3 DEF IInv, TypeOK, Working, Places
<1>5. Routed'
  <2>1. kind # "direct" => attempt # 0
    BY <1>1 DEF IInv, Routed, Working
  <2>2. QED
    BY <1>1, <1>2, <1>3, <2>1, ChainTypes DEF IInv, Routed, Working, Attempts
<1>6. Ahead'
  BY <1>1, <1>2, <1>3 DEF IInv, Ahead, Attempts
<1>7. Behind'
  <2>1. SUFFICES ASSUME NEW p \in Attempts, p < attempt
                 PROVE  ~Left(p)'
    BY <1>1 DEF Behind, Working
  <2>2. p # attempt /\ ~Left(p)
    BY <1>2, <2>1 DEF IInv, Behind, Attempts
  <2>3. wrote'[p] = wrote[p] /\ (p \in ended' <=> p \in ended) /\ expected' = expected
    BY <1>1, <1>3, <2>2
  <2>4. QED
    BY <2>2, <2>3 DEF Left, Provider, Fits, Probed, Seconds
<1>8. AtWork'
  BY <1>1, <1>2, <1>3 DEF IInv, AtWork, Working
<1>9. FirstTrackWins'
  BY <1>1 DEF FirstTrackWins, Working
<1>10. QED
  BY <1>4, <1>5, <1>6, <1>7, <1>8, <1>9 DEF IInv

\* A provider's track is the answer, and it is there.
LEMMA AcceptStep ==
    ASSUME IInv, Accept
    PROVE  IInv'
<1> DEFINE f == disk[attempt]
<1>1. /\ pc = "checking" /\ pc' = "done" /\ Acceptable(attempt, f)
      /\ UNCHANGED <<kind, expired, expected, attempt, clean, dirs, disk, wrote, ended, original>>
  BY DEF Accept, Return, files
<1>2. /\ attempt \in Attempts /\ f \in Contents /\ f = wrote[attempt]
      /\ kind # "direct" => attempt \in dirs
  BY <1>1 DEF IInv, TypeOK, AtWork, Working
<1>3. f \in Files /\ Seconds(f) \in Nat /\ Matches(Seconds(f), expected)
  <2>1. f # NoFile /\ Matches(Seconds(f), expected)
    BY <1>1 DEF Acceptable, Finds
  <2>2. QED
    BY <1>2, <2>1, SecondsType DEF Contents
<1>4. answer' = Track(attempt, Seconds(f))
  BY <1>3 DEF Accept, Return
<1>5. TypeOK'
  BY <1>1, <1>2, <1>3, <1>4 DEF IInv, TypeOK, Places, Track
<1>6. Routed' /\ Ahead' /\ AtWork'
  BY <1>1 DEF IInv, Routed, Ahead, AtWork, Working
<1>7. Left(attempt)
  BY <1>1, AcceptableIsLeft DEF IInv
<1>8. \A p : Left(p)' <=> Left(p)
  BY <1>1, LeftKept
<1>9. \A p \in Attempts : p < attempt => ~Left(p)
  BY DEF IInv, Behind
<1>10. Behind'
  BY <1>1, <1>8, <1>9 DEF Behind
<1>11. FirstTrackWins'
  BY <1>1, <1>2, <1>4, <1>7, <1>8, <1>9 DEF FirstTrackWins, Track
<1>12. QED
  BY <1>5, <1>6, <1>10, <1>11 DEF IInv

\* A provider that failed left no track; a direct link then has no answer.
LEMMA RejectStep ==
    ASSUME IInv, NEW removed \in BOOLEAN, Reject(removed)
    PROVE  IInv'
<1>1. /\ pc = "checking" /\ ~Acceptable(attempt, disk[attempt])
      /\ UNCHANGED <<kind, expired, expected, attempt, clean, wrote, ended, original>>
  BY DEF Reject
<1>2. \/ kind = "direct" /\ pc' = "done" /\ answer' = Plain("error")
         /\ UNCHANGED <<dirs, disk>>
      \/ kind # "direct" /\ pc' = "choosing" /\ answer' = answer
         /\ \/ UNCHANGED <<dirs, disk>>
            \/ dirs' = dirs \ {attempt} /\ disk' = [disk EXCEPT ![attempt] = NoFile]
  BY DEF Reject, Return
<1>3. /\ attempt \in Attempts /\ disk \in [Attempts -> Contents]
      /\ answer.payload = "none" /\ ~Left(attempt) /\ 0 \in Attempts
      /\ kind # "direct" => attempt > 0
      /\ kind # "direct" => original
  <2>1. kind # "direct" => attempt > 0 /\ original
    BY <1>1 DEF IInv, Routed, Working
  <2>2. QED
    BY <1>1, <2>1, AcceptableIsLeft, ChainTypes DEF IInv, TypeOK, Working, Attempts
<1>4. /\ dirs' \subseteq Attempts \ {0} /\ disk' \in [Attempts -> Contents]
      /\ \A p \in Attempts : p # attempt => disk'[p] = disk[p]
  BY <1>2, <1>3 DEF IInv, TypeOK, Contents
<1>5. TypeOK'
  <2>1. CASE kind = "direct"
    BY <1>1, <1>2, <1>3, <1>4, <2>1 DEF IInv, TypeOK, Places, Plain
  <2>2. CASE kind # "direct"
    BY <1>1, <1>2, <1>3, <1>4, <2>2 DEF IInv, TypeOK, Places
  <2>3. QED
    BY <2>1, <2>2
<1>6. Routed'
  BY <1>1, <1>2, <1>3 DEF IInv, Routed, Working
<1>7. Ahead'
  <2>1. \A p \in Attempts : p > attempt => p # attempt
    BY <1>3 DEF Attempts
  <2>2. QED
    BY <1>1, <1>4, <2>1 DEF IInv, Ahead
<1>8. \A p : Left(p)' <=> Left(p)
  BY <1>1, LeftKept
<1>9. \A p \in Attempts : p <= attempt => ~Left(p)
  <2>1. \A p \in Attempts : p < attempt => ~Left(p)
    BY DEF IInv, Behind
  <2>2. \A p \in Attempts : p <= attempt => p < attempt \/ p = attempt
    BY <1>3 DEF Attempts
  <2>3. QED
    BY <1>3, <2>1, <2>2
<1>10. Behind'
  <2>1. \A p \in Attempts : p < attempt \/ p = attempt => p <= attempt
    BY <1>3 DEF Attempts
  <2>2. QED
    BY <1>1, <1>8, <1>9, <2>1 DEF Behind
<1>11. AtWork'
  BY <1>2 DEF AtWork, Working
<1>12. FirstTrackWins'
  <2>1. CASE kind = "direct"
    <3>1. attempt = 0 /\ attempt' = 0
      BY <1>1, <2>1 DEF IInv, Routed
    <3>2. \A p \in Attempts : p > attempt => ~Left(p)
      BY NothingLeft DEF IInv, Ahead
    <3>3. \A p \in Attempts : p <= attempt \/ p > attempt
      BY <1>3 DEF Attempts
    <3>4. \A p \in Attempts : ~Left(p)
      BY <1>9, <3>2, <3>3
    <3>5. QED
      BY <1>2, <1>8, <2>1, <3>1, <3>4 DEF FirstTrackWins, Plain
  <2>2. CASE kind # "direct"
    BY <1>2, <2>2 DEF FirstTrackWins
  <2>3. QED
    BY <2>1, <2>2
<1>13. QED
  BY <1>5, <1>6, <1>7, <1>10, <1>11, <1>12 DEF IInv

\* The original is delivered when every provider has failed.
LEMMA FallBackStep ==
    ASSUME IInv, FallBack
    PROVE  IInv'
<1>1. /\ pc = "choosing" /\ pc' = "done" /\ attempt = Len(Chain) /\ answer' = Plain("original")
      /\ UNCHANGED <<kind, expired, expected, attempt, clean, dirs, disk, wrote, ended, original>>
  BY DEF FallBack, Return, files
<1>2. /\ 0 \in Attempts /\ original /\ kind # "direct"
      /\ \A p \in Attempts : p < attempt \/ p = attempt
  BY <1>1, ChainTypes DEF IInv, TypeOK, Routed, Working, Attempts
<1>3. \A p \in Attempts : ~Left(p)'
  <2>1. \A p \in Attempts : ~Left(p)
    BY <1>1, <1>2 DEF IInv, Behind
  <2>2. QED
    BY <1>1, <2>1, LeftKept
<1>4. TypeOK'
  BY <1>1, <1>2 DEF IInv, TypeOK, Places, Plain
<1>5. Routed' /\ Ahead' /\ AtWork' /\ Behind'
  BY <1>1, <1>3 DEF IInv, Routed, Ahead, AtWork, Behind, Working
<1>6. FirstTrackWins'
  BY <1>1, <1>3 DEF FirstTrackWins, Plain
<1>7. QED
  BY <1>4, <1>5, <1>6 DEF IInv

\* The deadline of the request changes nothing else, and neither does a stutter.
LEMMA IdleStep ==
    ASSUME IInv, Expire \/ UNCHANGED vars
    PROVE  IInv'
<1>1. /\ expired' \in BOOLEAN
      /\ UNCHANGED <<kind, pc, expected, attempt, clean, dirs, disk, wrote, ended, original,
                     answer>>
  BY DEF Expire, vars, files, IInv, TypeOK
<1>2. \A p : Left(p)' <=> Left(p)
  BY <1>1, LeftKept
<1>3. TypeOK' /\ Routed' /\ Ahead' /\ AtWork'
  BY <1>1 DEF IInv, TypeOK, Routed, Ahead, AtWork
<1>4. Behind' /\ FirstTrackWins'
  BY <1>1, <1>2 DEF IInv, Behind, FirstTrackWins
<1>5. QED
  BY <1>3, <1>4 DEF IInv

\* The inductive invariant.
THEOREM Invariant == Spec => []IInv
<1>1. Init => IInv
  <2> SUFFICES ASSUME Init PROVE IInv
    OBVIOUS
  <2>1. /\ attempt = 0 /\ expected = 0 /\ pc # "done" /\ pc \notin Working
        /\ pc \in {"ripping", "fetching"} /\ (pc = "ripping" <=> kind = "direct")
        /\ disk = [p \in Attempts |-> NoFile] /\ wrote = [p \in Attempts |-> NoFile]
        /\ ended = {} /\ dirs = {} /\ answer = NoAnswer /\ original = FALSE
        /\ expired = FALSE /\ clean = FALSE /\ kind \in {"link", "upload", "direct"}
    BY DEF Init, Working
  <2>2. 0 \in Attempts
    BY ChainTypes DEF Attempts
  <2>3. TypeOK
    BY <2>1, <2>2 DEF TypeOK, Places, Contents, NoAnswer
  <2>4. Routed /\ Ahead /\ AtWork
    BY <2>1, <2>2 DEF Routed, Ahead, AtWork
  <2>5. Behind
    <3>1. \A p \in Attempts : ~Left(p)
      BY <2>1, NothingLeft
    <3>2. QED
      BY <3>1 DEF Behind
  <2>6. FirstTrackWins
    BY <2>1 DEF FirstTrackWins
  <2>7. QED
    BY <2>3, <2>4, <2>5, <2>6 DEF IInv
<1>2. IInv /\ [Next]_vars => IInv'
  <2> SUFFICES ASSUME IInv, [Next]_vars PROVE IInv'
    OBVIOUS
  <2>1. CASE Advance
    <3>1. CASE \/ Fetched \/ Unrecognized \/ KilledInExtraction
               \/ \E e \in Durations : Recognized(e)
      BY <3>1, ExtractStep
    <3>2. CASE Rip \/ Attempt \/ MakeDirFails
      BY <3>2, AttemptStep
    <3>3. CASE Accept \/ (\E removed \in BOOLEAN : Reject(removed)) \/ FallBack
      BY <3>3, AcceptStep, RejectStep, FallBackStep
    <3>4. CASE Killed /\ ~KilledInExtraction
      BY <3>4, RunStep
    <3>5. QED
      BY <2>1, <3>1, <3>2, <3>3, <3>4 DEF Advance
  <2>2. CASE Fetched \/ Cut \/ ExtractFails
    BY <2>2, ExtractStep
  <2>3. CASE (\E f \in Files : Write(f)) \/ (\E status \in BOOLEAN : Exit(status))
    BY <2>3, RunStep
  <2>4. CASE Expire \/ UNCHANGED vars
    BY <2>4, IdleStep
  <2>5. QED
    BY <2>1, <2>2, <2>3, <2>4 DEF Next
<1>3. QED
  BY <1>1, <1>2, PTL DEF Spec

\* Every variable keeps its type, and the original is there when it is delivered.
THEOREM TypeCorrect == Spec => []TypeOK
<1>1. IInv => TypeOK
  BY DEF IInv
<1>2. QED
  BY <1>1, Invariant, PTL

\* For any list of providers and whatever their programs do, the track of the first
\* one that left one is delivered.
THEOREM FirstTrackCorrect == Spec => []FirstTrackWins
<1>1. IInv => FirstTrackWins
  BY DEF IInv
<1>2. QED
  BY <1>1, Invariant, PTL

----------------------------------------------------------------------------
\* A job as MediaJob sees it, by what may change.
Look(s, k, l, t, o, y, e) ==
    [pc |-> s, kind |-> k, request |-> TRUE, late |-> l, provider |-> t, original |-> o,
     payload |-> y, mode |-> "full", track |-> FALSE, error |-> e]

\* Its fields, with its constant ones made variable.
LEMMA LookFields ==
    \E yes, no : \A s, k, l, t, o, y, e :
        Look(s, k, l, t, o, y, e) =
            [pc |-> s, kind |-> k, request |-> yes, late |-> l, provider |-> t, original |-> o,
             payload |-> y, mode |-> "full", track |-> no, error |-> e]
BY DEF Look

\* Looks that differ in one field.
LEMMA LookPc ==
    ASSUME NEW s, NEW k, NEW l, NEW t, NEW o, NEW y, NEW e, NEW x, NEW r, NEW q,
           r = Look(s, k, l, t, o, y, e), q = Look(x, k, l, t, o, y, e)
    PROVE  q = [r EXCEPT !.pc = x]
BY LookFields

\* Likewise.
LEMMA LookLate ==
    ASSUME NEW s, NEW k, NEW l, NEW t, NEW o, NEW y, NEW e, NEW x, NEW r, NEW q,
           r = Look(s, k, l, t, o, y, e), q = Look(s, k, x, t, o, y, e)
    PROVE  q = [r EXCEPT !.late = x]
BY LookFields

\* Likewise.
LEMMA LookProvider ==
    ASSUME NEW s, NEW k, NEW l, NEW t, NEW o, NEW y, NEW e, NEW x, NEW r, NEW q,
           r = Look(s, k, l, t, o, y, e), q = Look(s, k, l, x, o, y, e)
    PROVE  q = [r EXCEPT !.provider = x]
BY LookFields

\* Likewise.
LEMMA LookOriginal ==
    ASSUME NEW s, NEW k, NEW l, NEW t, NEW o, NEW y, NEW e, NEW x, NEW r, NEW q,
           r = Look(s, k, l, t, o, y, e), q = Look(s, k, l, t, x, y, e)
    PROVE  q = [r EXCEPT !.original = x]
BY LookFields

\* Likewise.
LEMMA LookPayload ==
    ASSUME NEW s, NEW k, NEW l, NEW t, NEW o, NEW y, NEW e, NEW x, NEW r, NEW q,
           r = Look(s, k, l, t, o, y, e), q = Look(s, k, l, t, o, x, e)
    PROVE  q = [r EXCEPT !.payload = x]
BY LookFields

\* Likewise.
LEMMA LookError ==
    ASSUME NEW s, NEW k, NEW l, NEW t, NEW o, NEW y, NEW e, NEW x, NEW r, NEW q,
           r = Look(s, k, l, t, o, y, e), q = Look(s, k, l, t, o, y, x)
    PROVE  q = [r EXCEPT !.error = x]
BY LookFields

\* MediaJob's ways to change a job, by what is seen before and after: it goes on.
LEMMA GotoSeen ==
    ASSUME NEW s, NEW k, NEW l, NEW t, NEW o, NEW y, NEW e, NEW x,
           Seen = Look(s, k, l, t, o, y, e), Seen' = Look(x, k, l, t, o, y, e)
    PROVE  Job!Goto("this", x)
<1>1. Seen' = [Seen EXCEPT !.pc = x]
  BY LookPc
<1>2. QED
  BY <1>1 DEF Job!Goto

\* A recording is delivered.
LEMMA DeliverSeen ==
    ASSUME NEW s, NEW k, NEW l, NEW t, NEW o, NEW y, NEW e, NEW x,
           Seen = Look(s, k, l, t, o, y, e), Seen' = Look("applying", k, l, t, o, x, e)
    PROVE  Job!Deliver("this", x)
<1>1. PICK q : q = Look("applying", k, l, t, o, y, e)
  OBVIOUS
<1>2. q = [Seen EXCEPT !.pc = "applying"]
  BY <1>1, LookPc
<1>3. Seen' = [q EXCEPT !.payload = x]
  BY <1>1, LookPayload
<1>4. QED
  BY <1>2, <1>3 DEF Job!Deliver

\* The job fails.
LEMMA FailSeen ==
    ASSUME NEW s, NEW k, NEW l, NEW t, NEW o, NEW y, NEW e, NEW x,
           Seen = Look(s, k, l, t, o, y, e), Seen' = Look("failing", k, l, t, o, y, x)
    PROVE  Job!FailWith("this", x)
<1>1. PICK q : q = Look("failing", k, l, t, o, y, e)
  OBVIOUS
<1>2. q = [Seen EXCEPT !.pc = "failing"]
  BY <1>1, LookPc
<1>3. Seen' = [q EXCEPT !.error = x]
  BY <1>1, LookError
<1>4. QED
  BY <1>2, <1>3 DEF Job!FailWith

\* What is seen, and what the guards of MediaJob look at.
LEMMA SeenParts ==
    /\ Seen.late = Late /\ Seen.provider = Turn /\ Seen.kind = Source
    /\ Job!WorkDone("this") <=> Late
    /\ \A at : Job!At("this", at) <=> Stage = at
    /\ Job!world' = Job!world
BY DEF Seen, Job!WorkDone, Job!At, Job!world, Job!unsent, Job!process

\* What is seen is a look.
LEMMA SeenLook ==
    /\ Seen = Look(Stage, Source, Late, Turn, Kept, Delivered, Error)
    /\ Seen' = Look(Stage', Source', Late', Turn', Kept', Delivered', Error')
BY DEF Seen, Look

\* Nothing else of MediaJob changes.
LEMMA StutterSeen ==
    ASSUME Seen' = Seen
    PROVE  UNCHANGED Job!vars
BY DEF Job!vars, Job!process

\* Extraction and recognition: no provider has been asked yet.
LEMMA ExtractionSeen ==
    ASSUME IInv,
           \/ Fetched \/ Cut \/ ExtractFails \/ KilledInExtraction
           \/ Unrecognized \/ \E e \in Durations : Recognized(e)
    PROVE  Job!Advance("this") \/ UNCHANGED Job!vars
<1>1. /\ pc \in {"fetching", "cutting", "recognizing"} /\ UNCHANGED <<kind, expired, attempt>>
      /\ \/ pc = "fetching" /\ pc' = "cutting" /\ answer' = answer
         \/ pc = "cutting" /\ pc' = "recognizing" /\ answer' = answer /\ ~expired
         \/ pc \in {"fetching", "cutting"} /\ pc' = "done" /\ answer' = Plain("error")
         \/ pc = "recognizing" /\ pc' = "choosing" /\ answer' = answer
         \/ pc = "recognizing" /\ pc' = "done" /\ answer' = Plain("original")
  BY DEF Fetched, Cut, ExtractFails, KilledInExtraction, Unrecognized, Recognized, Return, files
<1>2. kind # "direct" /\ attempt = 0 /\ answer.payload = "none"
  BY <1>1, NothingYet DEF IInv, TypeOK
<1>3. /\ Source' = Source /\ Late = expired /\ Late' = Late /\ Turn' = Turn
      /\ Delivered = "none" /\ Error = "none"
  <2>1. /\ answer'.payload # "track" /\ answer.payload = "none"
        /\ pc # "checking" /\ pc' # "checking" /\ pc # "running" /\ pc' # "running"
    BY <1>1, <1>2 DEF Plain
  <2>2. ~Untimed /\ ~Untimed'
    BY <2>1 DEF Untimed
  <2>3. Turn = 1 /\ Turn' = 1
    BY <1>1, <1>2 DEF Turn
  <2>4. QED
    <3>1. Source' = Source
      BY <1>1 DEF Source
    <3>2. Late = expired /\ Late' = expired
      BY <1>1, <2>2 DEF Late, IInv, TypeOK
    <3>3. Delivered = "none" /\ Error = "none"
      BY <1>2 DEF Delivered, Error
    <3>4. QED
      BY <2>3, <3>1, <3>2, <3>3
<1>4. CASE pc = "fetching" /\ pc' = "cutting"
  <2>1. Stage' = Stage /\ Kept' = Kept /\ Delivered' = Delivered /\ Error' = Error
    BY <1>1, <1>4 DEF Stage, Kept, Delivered, Error
  <2>2. QED
    BY <1>3, <2>1, StutterSeen DEF Seen
<1>5. CASE pc = "cutting" /\ pc' = "recognizing"
  <2>1. /\ Stage = "extracting" /\ Stage' = "recognizing" /\ Kept' = TRUE /\ ~Late
        /\ Delivered' = Delivered /\ Error' = Error
    BY <1>1, <1>2, <1>3, <1>5 DEF Stage, Kept, Delivered, Error
  <2>2. /\ Seen = Look("extracting", Source, Late, Turn, Kept, Delivered, Error)
        /\ Seen' = Look("recognizing", Source, Late, Turn, Kept', Delivered, Error)
    BY <1>3, <2>1, SeenLook
  <2>3. Seen' = [Seen EXCEPT !.pc = "recognizing", !.original = Kept']
    <3>1. PICK q : q = Look("recognizing", Source, Late, Turn, Kept, Delivered, Error)
      OBVIOUS
    <3>2. q = [Seen EXCEPT !.pc = "recognizing"]
      BY <2>2, <3>1, LookPc
    <3>3. Seen' = [q EXCEPT !.original = Kept']
      BY <2>2, <3>1, LookOriginal
    <3>4. QED
      BY <3>2, <3>3
  <2>4. Job!Extract("this")
    BY <2>1, <2>3, SeenParts DEF Job!Extract
  <2>5. QED
    BY <2>4 DEF Job!Advance
<1>6. CASE pc \in {"fetching", "cutting"} /\ pc' = "done"
  <2>1. /\ Stage = "extracting" /\ Stage' = "failing" /\ Kept = FALSE /\ Kept' = FALSE
        /\ Delivered' = "none" /\ Error' = "other"
    BY <1>1, <1>2, <1>6 DEF Stage, Kept, Delivered, Error, Plain
  <2>2. /\ Seen = Look("extracting", Source, Late, Turn, Kept, "none", "none")
        /\ Seen' = Look("failing", Source, Late, Turn, Kept, "none", "other")
    BY <1>3, <2>1, SeenLook
  <2>3. Job!ExtractFails("this")
    BY <2>1, <2>2, FailSeen, SeenParts DEF Job!ExtractFails
  <2>4. QED
    BY <2>3 DEF Job!Advance
<1>7. CASE pc = "recognizing" /\ pc' = "choosing"
  <2>1. /\ Stage = "recognizing" /\ Stage' = "downloading" /\ Kept = TRUE /\ Kept' = TRUE
        /\ Delivered' = Delivered /\ Error' = Error
    BY <1>1, <1>2, <1>7 DEF Stage, Kept, Delivered, Error
  <2>2. /\ Seen = Look("recognizing", Source, Late, Turn, Kept, "none", "none")
        /\ Seen' = Look("downloading", Source, Late, Turn, Kept, "none", "none")
    BY <1>3, <2>1, SeenLook
  <2>3. Job!Recognize("this")
    BY <2>1, <2>2, GotoSeen, SeenParts DEF Job!Recognize
  <2>4. QED
    BY <2>3 DEF Job!Advance
<1>8. CASE pc = "recognizing" /\ pc' = "done"
  <2>1. /\ Stage = "recognizing" /\ Stage' = "applying" /\ Kept = TRUE /\ Kept' = TRUE
        /\ Delivered' = "original" /\ Error' = "none"
    BY <1>1, <1>2, <1>8 DEF Stage, Kept, Delivered, Error, Plain
  <2>2. /\ Seen = Look("recognizing", Source, Late, Turn, Kept, "none", "none")
        /\ Seen' = Look("applying", Source, Late, Turn, Kept, "original", "none")
    BY <1>3, <2>1, SeenLook
  <2>3. Job!Unrecognized("this")
    BY <2>1, <2>2, DeliverSeen, SeenParts DEF Job!Unrecognized
  <2>4. QED
    BY <2>3 DEF Job!Advance
<1>9. QED
  BY <1>1, <1>4, <1>5, <1>6, <1>7, <1>8

\* A provider is asked, or passed over: the deadline already counts when its yt-dlp is
\* not started.
LEMMA AttemptSeen ==
    ASSUME IInv, Rip \/ Attempt \/ MakeDirFails
    PROVE  Job!Advance("this") \/ UNCHANGED Job!vars
<1>1. /\ pc = "ripping" \/ (pc = "choosing" /\ attempt < Len(Chain))
      /\ UNCHANGED <<kind, expired, disk, answer>>
      /\ attempt' = IF pc = "ripping" THEN 0 ELSE attempt + 1
      /\ \/ pc' = "choosing" /\ pc = "choosing"
         \/ pc' = IF expired THEN "checking" ELSE "running"
  BY DEF Rip, Attempt, MakeDirFails, Run, files
<1>2. /\ attempt \in Nat /\ attempt' \in Attempts /\ answer.payload = "none"
      /\ pc = "ripping" <=> kind = "direct"
      /\ pc = "ripping" => attempt = 0
  BY <1>1, ChainTypes DEF IInv, TypeOK, Routed, Working, Attempts
<1>3. disk'[attempt'] = NoFile
  <2>1. CASE pc = "ripping"
    BY <1>1, <2>1 DEF IInv, Routed
  <2>2. CASE pc = "choosing"
    BY <1>1, <1>2, <2>2 DEF IInv, Ahead
  <2>3. QED
    BY <1>1, <2>1, <2>2
<1>4. /\ Source' = Source /\ Stage' = Stage /\ Delivered' = Delivered /\ Error' = Error
      /\ Stage = IF kind = "direct" THEN "ripping" ELSE "downloading"
  <2>1. Source' = Source /\ Delivered' = Delivered /\ Error' = Error
    BY <1>1 DEF Source, Delivered, Error
  <2>2. Stage = (IF kind = "direct" THEN "ripping" ELSE "downloading")
    BY <1>1 DEF Stage
  <2>3. Stage' = (IF kind = "direct" THEN "ripping" ELSE "downloading")
    BY <1>1 DEF Stage
  <2>4. QED
    BY <2>1, <2>2, <2>3
<1>5. Kept' = Kept
  BY <1>1, <1>4 DEF Kept
<1>6. Late' = Late
  <2>1. ~Untimed
    BY <1>1, <1>2 DEF Untimed
  <2>2. expired => ~Untimed'
    <3>1. ~Acceptable(attempt, disk[attempt])'
      BY <1>3 DEF Acceptable, Finds
    <3>2. QED
      BY <1>1, <1>2, <3>1 DEF Untimed
  <2>3. QED
    BY <1>1, <2>1, <2>2 DEF Late, IInv, TypeOK
<1>7. CASE Turn' = Turn
  BY <1>4, <1>5, <1>6, <1>7, StutterSeen DEF Seen
<1>8. CASE Turn' # Turn
  <2>1. pc = "choosing" /\ pc' = "choosing" /\ attempt < Len(Chain) /\ attempt' = attempt + 1
    BY <1>1, <1>2, <1>8 DEF Turn
  <2>2. Turn = attempt + 1 /\ Turn < Len(Chain) /\ Turn' = Turn + 1
    BY <1>2, <1>8, <2>1, ChainTypes DEF Turn
  <2>3. Seen' = [Seen EXCEPT !.provider = Turn + 1]
    BY <1>4, <1>5, <1>6, <2>2, SeenLook, LookProvider
  <2>4. Stage = "downloading"
    BY <1>2, <1>4, <2>1
  <2>5. Job!NextProvider("this")
    BY <2>2, <2>3, <2>4, SeenParts DEF Job!NextProvider
  <2>6. QED
    BY <2>5 DEF Job!Advance
<1>9. QED
  BY <1>7, <1>8

\* yt-dlp writes and ends: a deadline that passed while it ran counts only now, and only
\* if there is no file to accept.
LEMMA RunSeen ==
    ASSUME IInv,
           \/ \E f \in Files : Write(f)
           \/ \E status \in BOOLEAN : Exit(status)
           \/ Killed /\ ~KilledInExtraction
    PROVE  Job!Expire("this") \/ UNCHANGED Job!vars
<1>1. /\ pc = "running" /\ pc' \in Working
      /\ UNCHANGED <<kind, expired, attempt, answer>>
  BY DEF Write, Exit, Killed, files, Working
<1>2. /\ Source' = Source /\ Turn' = Turn /\ Delivered' = Delivered /\ Error' = Error
      /\ Stage \in {"ripping", "downloading"} /\ Stage' = Stage
  <2>1. Source' = Source /\ Delivered' = Delivered /\ Error' = Error
    BY <1>1 DEF Source, Delivered, Error
  <2>2. Turn' = Turn
    BY <1>1 DEF Turn, Working
  <2>3. Stage = (IF kind = "direct" THEN "ripping" ELSE "downloading")
    BY <1>1 DEF Stage
  <2>4. Stage' = (IF kind = "direct" THEN "ripping" ELSE "downloading")
    BY <1>1 DEF Stage, Working
  <2>5. QED
    BY <2>1, <2>2, <2>3, <2>4
<1>3. Kept' = Kept
  BY <1>1, <1>2 DEF Kept
<1>4. Late = FALSE
  BY <1>1 DEF Late, Untimed
<1>5. CASE Late' = FALSE
  BY <1>2, <1>3, <1>4, <1>5, StutterSeen DEF Seen
<1>6. CASE Late' = TRUE
  <2>1. Seen' = [Seen EXCEPT !.late = Late']
    BY <1>2, <1>3, SeenLook, LookLate
  <2>2. Seen.pc = Stage
    BY DEF Seen
  <2>3. Job!Expire("this")
    BY <1>2, <1>4, <1>6, <2>1, <2>2, SeenParts DEF Job!Expire, Job!Timed
  <2>4. QED
    BY <2>3
<1>7. QED
  BY <1>5, <1>6 DEF Late

\* A provider's track ends the job, whenever that is noticed.
LEMMA AcceptSeen ==
    ASSUME IInv, Accept
    PROVE  Job!Advance("this")
<1>1. /\ pc = "checking" /\ pc' = "done" /\ Acceptable(attempt, disk[attempt])
      /\ UNCHANGED <<kind, expired, attempt>>
  BY DEF Accept, Return, files
<1>2. Matches(Seconds(disk[attempt]), expected)
  BY <1>1 DEF Acceptable
<1>3. answer.payload = "none" /\ answer'.payload = "track"
  BY <1>1, <1>2 DEF Accept, Return, Track, IInv, TypeOK
<1>4. /\ Source' = Source /\ Turn' = Turn /\ Late = FALSE /\ Late' = FALSE
      /\ Delivered = "none" /\ Delivered' = "full" /\ Error' = Error
  <2>1. Source' = Source /\ Turn' = Turn
    BY <1>1 DEF Source, Turn
  <2>2. Late = FALSE /\ Late' = FALSE
    BY <1>1, <1>3 DEF Late, Untimed
  <2>3. Delivered = "none" /\ Delivered' = "full" /\ Error' = Error
    BY <1>3 DEF Delivered, Error
  <2>4. QED
    BY <2>1, <2>2, <2>3
<1>5. /\ Stage = IF kind = "direct" THEN "ripping" ELSE "downloading"
      /\ Stage' = "applying"
  BY <1>1, <1>3 DEF Stage
<1>6. Kept' = Kept
  BY <1>1, <1>5 DEF Kept
<1>7. Job!Deliver("this", "full")
  <2>1. PICK no : no = Late /\ no = Late'
    BY <1>4
  <2>2. /\ Seen = Look(Stage, Source, no, Turn, Kept, Delivered, Error)
        /\ Seen' = Look("applying", Source, no, Turn, Kept, "full", Error)
    BY <1>4, <1>5, <1>6, <2>1, SeenLook
  <2>3. QED
    BY <2>2, DeliverSeen
<1>8. CASE kind = "direct"
  BY <1>4, <1>5, <1>7, <1>8, SeenParts DEF Job!RipTrack, Job!Advance
<1>9. CASE kind # "direct"
  BY <1>4, <1>5, <1>7, <1>9, SeenParts DEF Job!Download, Job!Advance
<1>10. QED
  BY <1>8, <1>9

\* A provider that fails makes room for the next; for a direct link there is none.
LEMMA RejectSeen ==
    ASSUME IInv, NEW removed \in BOOLEAN, Reject(removed)
    PROVE  Job!Advance("this") \/ UNCHANGED Job!vars
<1>1. /\ pc = "checking" /\ ~Acceptable(attempt, disk[attempt])
      /\ UNCHANGED <<kind, expired, attempt>>
      /\ IF kind = "direct" THEN pc' = "done" /\ answer' = Plain("error")
                            ELSE pc' = "choosing" /\ answer' = answer
  BY DEF Reject, Return
<1>2. /\ attempt \in Nat /\ attempt <= Len(Chain) /\ answer.payload = "none"
      /\ kind = "direct" => attempt = 0
      /\ kind # "direct" => attempt > 0
  BY <1>1, ChainTypes DEF IInv, TypeOK, Routed, Working, Attempts
<1>3. Source' = Source /\ Late' = Late
  <2>1. answer'.payload # "track"
    BY <1>1, <1>2 DEF Plain
  <2>2. ~Untimed /\ ~Untimed'
    BY <1>1, <1>2, <2>1 DEF Untimed
  <2>3. QED
    BY <1>1, <2>2 DEF Source, Late
<1>4. Stage = IF kind = "direct" THEN "ripping" ELSE "downloading"
  BY <1>1 DEF Stage
<1>5. CASE kind = "direct"
  <2>1. /\ Stage' = "failing" /\ Turn' = Turn /\ Kept' = Kept /\ Delivered' = Delivered
        /\ Error' = "other"
    <3>1. Stage' = "failing"
      BY <1>1, <1>5 DEF Stage, Plain
    <3>2. Turn' = Turn
      BY <1>1, <1>5 DEF Turn
    <3>3. Kept' = Kept
      BY <1>1, <1>5 DEF Kept
    <3>4. Delivered' = Delivered /\ Error' = "other"
      BY <1>1, <1>2, <1>5 DEF Delivered, Error, Plain
    <3>5. QED
      BY <3>1, <3>2, <3>3, <3>4
  <2>2. /\ Seen = Look(Stage, Source, Late, Turn, Kept, Delivered, Error)
        /\ Seen' = Look("failing", Source, Late, Turn, Kept, Delivered, "other")
    BY <1>3, <2>1, SeenLook
  <2>3. Job!RipFails("this")
    BY <1>4, <1>5, <2>2, FailSeen, SeenParts DEF Job!RipFails
  <2>4. QED
    BY <2>3 DEF Job!Advance
<1>6. CASE kind # "direct"
  <2>1. /\ Stage' = Stage /\ Kept' = Kept /\ Delivered' = Delivered /\ Error' = Error
    <3>1. Stage' = Stage
      BY <1>1, <1>4, <1>6 DEF Stage
    <3>2. Delivered' = Delivered /\ Error' = Error
      BY <1>1, <1>6 DEF Delivered, Error
    <3>3. QED
      BY <1>1, <3>1, <3>2 DEF Kept
  <2>2. Turn = attempt /\ Turn' = IF attempt < Len(Chain) THEN attempt + 1 ELSE attempt
    BY <1>1, <1>2, <1>6 DEF Turn
  <2>3. CASE attempt < Len(Chain)
    <3>1. Seen' = [Seen EXCEPT !.provider = Turn + 1]
      BY <1>3, <2>1, <2>2, <2>3, SeenLook, LookProvider
    <3>2. Job!NextProvider("this")
      BY <1>4, <1>6, <2>2, <2>3, <3>1, SeenParts DEF Job!NextProvider
    <3>3. QED
      BY <3>2 DEF Job!Advance
  <2>4. CASE ~(attempt < Len(Chain))
    BY <1>3, <2>1, <2>2, <2>4, StutterSeen DEF Seen
  <2>5. QED
    BY <2>3, <2>4
<1>7. QED
  BY <1>5, <1>6

\* The last provider has failed.
LEMMA FallBackSeen ==
    ASSUME IInv, FallBack
    PROVE  Job!Advance("this")
<1>1. /\ pc = "choosing" /\ pc' = "done" /\ attempt = Len(Chain) /\ answer' = Plain("original")
      /\ UNCHANGED <<kind, expired, attempt>>
  BY DEF FallBack, Return, files
<1>2. kind # "direct" /\ answer.payload = "none"
  BY <1>1 DEF IInv, TypeOK, Routed, Working
<1>3. /\ Source' = Source /\ Late' = Late /\ Turn = Len(Chain) /\ Turn' = Turn
      /\ Delivered' = "original" /\ Error' = Error
      /\ Stage = "downloading" /\ Stage' = "applying"
  <2>1. ~Untimed /\ ~Untimed'
    BY <1>1, <1>2 DEF Untimed, Plain
  <2>2. Source' = Source /\ Late' = Late
    BY <1>1, <2>1 DEF Source, Late
  <2>3. Turn = Len(Chain) /\ Turn' = Turn
    BY <1>1, ChainTypes DEF Turn
  <2>4. Delivered' = "original" /\ Error' = Error
    BY <1>1, <1>2 DEF Delivered, Error, Plain
  <2>5. Stage = "downloading" /\ Stage' = "applying"
    BY <1>1, <1>2 DEF Stage, Plain
  <2>6. QED
    BY <2>2, <2>3, <2>4, <2>5
<1>4. Kept' = Kept
  BY <1>1, <1>3 DEF Kept
<1>5. /\ Seen = Look(Stage, Source, Late, Turn, Kept, Delivered, Error)
      /\ Seen' = Look("applying", Source, Late, Turn, Kept, "original", Error)
  BY <1>3, <1>4, SeenLook
<1>6. Job!FallBack("this")
  BY <1>3, <1>5, DeliverSeen, SeenParts DEF Job!FallBack
<1>7. QED
  BY <1>6 DEF Job!Advance

\* The deadline passes: at once, or for a provider at work when it ends.
LEMMA ExpireSeen ==
    ASSUME IInv, Expire
    PROVE  Job!Expire("this") \/ UNCHANGED Job!vars
<1>1. /\ pc # "done" /\ ~expired /\ expired'
      /\ UNCHANGED <<kind, pc, expected, attempt, clean, disk, answer>>
  BY DEF Expire, files
<1>2. /\ Source' = Source /\ Turn' = Turn /\ Delivered' = Delivered /\ Error' = Error
      /\ Stage' = Stage /\ Stage \in Job!Timed
  <2>1. Source' = Source /\ Turn' = Turn /\ Delivered' = Delivered /\ Error' = Error
    BY <1>1 DEF Source, Turn, Delivered, Error
  <2>2. Stage' = Stage
    BY <1>1 DEF Stage
  <2>3. Stage \in {"extracting", "recognizing", "ripping", "downloading"}
    BY <1>1 DEF Stage
  <2>4. QED
    BY <2>1, <2>2, <2>3 DEF Job!Timed
<1>3. Kept' = Kept
  BY <1>1, <1>2 DEF Kept
<1>4. (Untimed' <=> Untimed) /\ ~Late
  BY <1>1 DEF Untimed, Late, Acceptable, Finds, Provider
<1>5. CASE Untimed
  <2>1. Late' = Late
    BY <1>1, <1>4, <1>5 DEF Late
  <2>2. QED
    BY <1>2, <1>3, <2>1, StutterSeen DEF Seen
<1>6. CASE ~Untimed
  <2>1. Late' = TRUE
    BY <1>1, <1>4, <1>6 DEF Late
  <2>2. Seen' = [Seen EXCEPT !.late = Late']
    BY <1>2, <1>3, SeenLook, LookLate
  <2>3. Seen.pc = Stage
    BY DEF Seen
  <2>4. Job!Expire("this")
    BY <1>2, <1>4, <2>1, <2>2, <2>3, SeenParts DEF Job!Expire
  <2>5. QED
    BY <2>4
<1>7. QED
  BY <1>5, <1>6

\* For any chain, any policy and whatever the programs do: each step of the files behind
\* a job is a step that MediaJob lets the job take, or one it does not see.
THEOREM Refinement == Spec => StagesKept
<1>1. Init => Seen = [Job!Idle(Source, IF kind = "direct" THEN "ripping" ELSE "extracting")
                         EXCEPT !.request = TRUE]
  <2> SUFFICES ASSUME Init
               PROVE  Seen = [Job!Idle(Source, IF kind = "direct" THEN "ripping"
                                               ELSE "extracting") EXCEPT !.request = TRUE]
    OBVIOUS
  <2>1. /\ pc = (IF kind = "direct" THEN "ripping" ELSE "fetching")
        /\ expired = FALSE /\ attempt = 0 /\ answer.payload = "none"
    BY DEF Init, NoAnswer
  <2>2. /\ Stage = (IF kind = "direct" THEN "ripping" ELSE "extracting")
        /\ Late = FALSE /\ Turn = 1 /\ Delivered = "none" /\ Error = "none"
    BY <2>1 DEF Stage, Late, Turn, Delivered, Error
  <2>3. Kept = FALSE
    BY <2>1, <2>2 DEF Kept
  <2>4. PICK yes, no : yes = TRUE /\ no = FALSE
    OBVIOUS
  <2>5. PICK idle : idle = Job!Idle(Source, Stage)
    OBVIOUS
  <2>6. idle = [pc |-> Stage, kind |-> Source, request |-> no, late |-> no, provider |-> 1,
                original |-> no, payload |-> "none", mode |-> "full", track |-> no,
                error |-> "none"]
    BY <2>4, <2>5 DEF Job!Idle
  <2>7. Seen = [pc |-> Stage, kind |-> Source, request |-> yes, late |-> no, provider |-> 1,
                original |-> no, payload |-> "none", mode |-> "full", track |-> no,
                error |-> "none"]
    BY <2>2, <2>3, <2>4 DEF Seen
  <2>8. Seen = [idle EXCEPT !.request = yes]
    BY ONLY <2>6, <2>7
  <2>9. QED
    BY <2>2, <2>4, <2>5, <2>8
<1>2. IInv /\ [Next]_vars => [Job!Advance("this") \/ Job!Expire("this")]_Job!vars
  <2> SUFFICES ASSUME IInv, [Next]_vars
               PROVE  Job!Advance("this") \/ Job!Expire("this") \/ UNCHANGED Job!vars
    OBVIOUS
  <2>1. CASE Advance
    <3>1. CASE \/ Fetched \/ Unrecognized \/ KilledInExtraction
               \/ \E e \in Durations : Recognized(e)
      BY <3>1, ExtractionSeen
    <3>2. CASE Rip \/ Attempt \/ MakeDirFails
      BY <3>2, AttemptSeen
    <3>3. CASE Accept \/ (\E removed \in BOOLEAN : Reject(removed)) \/ FallBack
      BY <3>3, AcceptSeen, RejectSeen, FallBackSeen
    <3>4. CASE Killed /\ ~KilledInExtraction
      BY <3>4, RunSeen
    <3>5. QED
      BY <2>1, <3>1, <3>2, <3>3, <3>4 DEF Advance
  <2>2. CASE Fetched \/ Cut \/ ExtractFails
    BY <2>2, ExtractionSeen
  <2>3. CASE (\E f \in Files : Write(f)) \/ (\E status \in BOOLEAN : Exit(status))
    BY <2>3, RunSeen
  <2>4. CASE Expire
    BY <2>4, ExpireSeen
  <2>5. CASE UNCHANGED vars
    <3>1. UNCHANGED <<kind, pc, expired, expected, attempt, clean, disk, answer>>
      BY <2>5 DEF vars
    <3>2. Seen' = Seen
      BY <3>1 DEF Seen, Stage, Source, Late, Untimed, Turn, Kept, Delivered, Error,
         Acceptable, Finds, Provider
    <3>3. QED
      BY <3>2, StutterSeen
  <2>6. QED
    BY <2>1, <2>2, <2>3, <2>4, <2>5 DEF Next
<1>3. QED
  BY <1>1, <1>2, Invariant, PTL DEF Spec, StagesKept
----------------------------------------------------------------------------
\* Every step but a write and the deadline's own brings the job closer to its answer.
THEOREM ForwardCorrect == Spec => Forward
<1>1. ASSUME IInv, Next PROVE StepsLeft' < StepsLeft \/ (\E f \in Files : Write(f)) \/ Expire
  <2> DEFINE n == Len(Chain)
  <2>1. n \in Nat /\ attempt \in Nat /\ attempt <= n
    <3>1. attempt \in Attempts
      BY <1>1 DEF IInv, TypeOK
    <3>2. QED
      BY <3>1, ChainTypes DEF Attempts
  <2> HIDE DEF n
  <2>2. CASE \/ Fetched \/ Cut \/ ExtractFails
             \/ (\E e \in Durations : Recognized(e)) \/ Unrecognized
    <3>1. attempt' = attempt /\ \/ pc = "fetching" /\ pc' \in {"cutting", "done"}
                                \/ pc = "cutting" /\ pc' \in {"recognizing", "done"}
                                \/ pc = "recognizing" /\ pc' \in {"choosing", "done"}
      BY <2>2 DEF Fetched, Cut, ExtractFails, Recognized, Unrecognized, Return
    <3>2. QED
      BY <2>1, <3>1 DEF StepsLeft, n
  <2>3. CASE Rip
    <3>1. pc = "ripping" /\ pc' \in {"checking", "running"} /\ attempt' = 0 /\ attempt = 0
      BY <1>1, <2>3 DEF Rip, Run, IInv, Routed
    <3>2. QED
      BY <2>1, <3>1 DEF StepsLeft, n
  <2>4. CASE Attempt \/ MakeDirFails
    <3>1. /\ pc = "choosing" /\ pc' \in {"choosing", "checking", "running"}
          /\ attempt' = attempt + 1 /\ attempt < n
      BY <2>4 DEF Attempt, MakeDirFails, Run, n
    <3>2. QED
      BY <2>1, <3>1 DEF StepsLeft, n
  <2>5. CASE (\E status \in BOOLEAN : Exit(status)) \/ Killed
    <3>1. attempt' = attempt /\ \/ pc \in {"fetching", "cutting"} /\ pc' = "done"
                                \/ pc = "running" /\ pc' = "checking"
      BY <2>5 DEF Exit, Killed, KilledInExtraction, Return
    <3>2. QED
      BY <2>1, <3>1 DEF StepsLeft, n
  <2>6. CASE Accept \/ (\E removed \in BOOLEAN : Reject(removed)) \/ FallBack
    <3>1. attempt' = attempt /\ \/ pc \in {"checking", "choosing"} /\ pc' = "done"
                                \/ pc = "checking" /\ pc' = "choosing"
      BY <2>6 DEF Accept, Reject, FallBack, Return
    <3>2. QED
      BY <2>1, <3>1 DEF StepsLeft, n
  <2>7. QED
    BY <1>1, <2>2, <2>3, <2>4, <2>5, <2>6 DEF Next, Advance
<1>2. IInv => StepsLeft \in Nat
  <2> SUFFICES ASSUME IInv PROVE StepsLeft \in Nat
    OBVIOUS
  <2>1. attempt \in 0 .. Len(Chain) /\ Len(Chain) \in Nat /\ pc \in Places
    BY ChainTypes DEF IInv, TypeOK, Attempts
  <2>2. 3 * (Len(Chain) - attempt) \in Nat
    BY <2>1
  <2>3. QED
    BY <2>1, <2>2 DEF StepsLeft, Places, Working
<1>3. QED
  BY <1>1, <1>2, Invariant, PTL DEF Spec, Forward
=============================================================================
