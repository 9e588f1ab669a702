------------------------- MODULE RecognitionProofs -------------------------
(***************************************************************************)
(* The choice of Recognition for all titles and artists that engines may   *)
(* name: the loop over the groups finds a best one in any order, an engine *)
(* that agrees never weakens its group, and two that agree are outvoted    *)
(* only by one that knows a duration.                                      *)
(***************************************************************************)
EXTENDS Recognition, TLAPS

\* The raw score of a candidate is a natural number, 18 at most; 15 without a
\* duration; 13 at least with a title and an artist and nothing against it.
LEMMA RawBounds ==
    ASSUME NEW c
    PROVE  /\ RawScore(c) \in 0..18
           /\ c.duration = FALSE => RawScore(c) <= 15
           /\ /\ c.title # Blank /\ c.artist # Blank
              /\ ~Mentions(c.title, Unknown) /\ ~Mentions(c.title, Original)
              => RawScore(c) >= 13
<1> DEFINE A == Weight(c.title # Blank, 7)
           B == Weight(c.artist # Blank, 6)
           D == Weight(c.duration, 3)
           L == Weight(c.link, 2)
           U == Weight(Mentions(c.title, Unknown), 5)
           O == Weight(Mentions(c.title, Original), 3)
<1>1. A \in {0, 7} /\ B \in {0, 6} /\ D \in {0, 3} /\ L \in {0, 2} /\ U \in {0, 5} /\ O \in {0, 3}
  BY DEF Weight
<1>2. /\ c.duration = FALSE => D = 0
      /\ c.title # Blank => A = 7
      /\ c.artist # Blank => B = 6
      /\ ~Mentions(c.title, Unknown) => U = 0
      /\ ~Mentions(c.title, Original) => O = 0
  BY DEF Weight
<1>3. RawScore(c) = IF A + B + D + L - U - O < 0 THEN 0 ELSE A + B + D + L - U - O
  BY DEF RawScore
<1> HIDE DEF A, B, D, L, U, O
<1>4. QED
  BY <1>1, <1>2, <1>3

\* The points that the engines bring to a group, and the sums over them.
LEMMA GroupBounds ==
    ASSUME NEW k
    PROVE  /\ \A e \in Engines : Points(e, k) \in 0..18
           /\ Top(k) \in 0..18
           /\ \A e \in Engines : Points(e, k) <= Top(k)
           /\ Total(k) \in 0..54
           /\ Size(k) \in 0..3
           /\ Top(k) <= Total(k) /\ Total(k) <= Size(k) * Top(k)
           /\ (\E e \in Engines : InGroup(e, k)) <=> Size(k) > 0
<1>1. \A e \in Engines : Points(e, k) \in 0..18 /\ (~InGroup(e, k) => Points(e, k) = 0)
  <2>1. ASSUME NEW e \in Engines PROVE RawScore(said[e]) \in 0..18
    BY RawBounds
  <2>2. QED
    BY <2>1 DEF Points
<1> DEFINE s == Points(1, k)  a == Points(2, k)  r == Points(3, k)
           n1 == Weight(InGroup(1, k), 1)
           n2 == Weight(InGroup(2, k), 1)
           n3 == Weight(InGroup(3, k), 1)
<1>2. s \in 0..18 /\ a \in 0..18 /\ r \in 0..18
  BY <1>1 DEF Engines, Shazam, AudD, ACR
<1>3. /\ n1 \in {0, 1} /\ n2 \in {0, 1} /\ n3 \in {0, 1}
      /\ (n1 = 1 <=> InGroup(1, k)) /\ (n2 = 1 <=> InGroup(2, k)) /\ (n3 = 1 <=> InGroup(3, k))
      /\ (n1 = 0 => s = 0) /\ (n2 = 0 => a = 0) /\ (n3 = 0 => r = 0)
  BY <1>1 DEF Weight, Engines, Shazam, AudD, ACR
<1>4. /\ Top(k) = IF s >= a /\ s >= r THEN s ELSE IF a >= r THEN a ELSE r
      /\ Total(k) = s + a + r
      /\ Size(k) = n1 + n2 + n3
  BY DEF Top, Total, Size, Shazam, AudD, ACR
<1>5. (\E e \in Engines : InGroup(e, k)) <=> n1 = 1 \/ n2 = 1 \/ n3 = 1
  <2>1. Engines = {1, 2, 3}
    BY DEF Engines, Shazam, AudD, ACR
  <2>2. (\E e \in Engines : InGroup(e, k)) <=> InGroup(1, k) \/ InGroup(2, k) \/ InGroup(3, k)
    BY <2>1
  <2>3. QED
    BY <1>3, <2>2
<1>6. \A e \in Engines : Points(e, k) = s \/ Points(e, k) = a \/ Points(e, k) = r
  BY DEF Engines, Shazam, AudD, ACR
<1> HIDE DEF s, a, r, n1, n2, n3
<1>7. Top(k) \in 0..18 /\ s <= Top(k) /\ a <= Top(k) /\ r <= Top(k) /\ Top(k) <= s + a + r
  BY <1>2, <1>4
<1>8. Size(k) \in 0..3 /\ Total(k) \in 0..54 /\ (Size(k) > 0 <=> n1 = 1 \/ n2 = 1 \/ n3 = 1)
  BY <1>2, <1>3, <1>4
<1>9. Total(k) <= Size(k) * Top(k)
  <2> DEFINE t == Top(k)
  <2>1. t \in 0..18 /\ s <= n1 * t /\ a <= n2 * t /\ r <= n3 * t
    BY <1>2, <1>3, <1>7
  <2>2. (n1 + n2 + n3) * t = n1 * t + n2 * t + n3 * t /\ n1 * t \in Int /\ n2 * t \in Int /\ n3 * t \in Int
    BY <1>3, <2>1
  <2>3. QED
    BY <1>2, <1>4, <2>1, <2>2
<1>10. QED
  BY <1>1, <1>4, <1>5, <1>6, <1>7, <1>8, <1>9

\* What a division by the size of a group is worth.
LEMMA Shares ==
    ASSUME NEW t \in Nat
    PROVE  /\ (18 * t) \div 1 = 18 * t
           /\ (18 * t) \div 2 = 9 * t
           /\ (18 * t) \div 3 = 6 * t
OBVIOUS

\* The final score of a group without the division, by the size of the group.
LEMMA WorthBySize ==
    ASSUME NEW m \in Nat, NEW t \in Nat, NEW n \in Nat, 1 <= n, n <= 3
    PROVE  LET raw == IF n = 1 THEN 60 * m + 18 * t
                      ELSE IF n = 2 THEN 60 * m + 9 * t + 180
                      ELSE 60 * m + 6 * t + 360
           IN  Worth(m, t, n) = IF raw > 1200 THEN 1200 ELSE raw
BY Shares DEF Worth

\* A group with a member has a winner, which is one of its strongest.
LEMMA WinnerIsStrongest ==
    ASSUME NEW k, \E e \in Engines : InGroup(e, k)
    PROVE  /\ Winner(k) \in Engines /\ InGroup(Winner(k), k)
           /\ \A e \in Engines : InGroup(e, k) => Points(e, k) <= Points(Winner(k), k)
<1> DEFINE P(e) == Points(e, k) = Top(k) /\ \A d \in Group(k) : d < e => Points(d, k) < Top(k)
<1>1. /\ \A e \in Engines : Points(e, k) \in 0..18 /\ Points(e, k) <= Top(k)
      /\ \A e \in Engines : ~InGroup(e, k) => Points(e, k) = 0
  BY GroupBounds DEF Points
<1>2. \E e \in Engines : Points(e, k) = Top(k)
  BY DEF Top, Engines
<1>3. Top(k) \in 0..18
  BY GroupBounds
<1>4. \E e \in Group(k) : Points(e, k) = Top(k)
  <2>1. PICK e \in Engines : Points(e, k) = Top(k)
    BY <1>2
  <2>2. CASE InGroup(e, k)
    BY <2>1, <2>2 DEF Group
  <2>3. CASE ~InGroup(e, k)
    BY <1>1, <1>3, <2>1, <2>3 DEF Group
  <2>4. QED
    BY <2>2, <2>3
<1>5. \E e \in Group(k) : P(e)
  <2>1. \A e \in Group(k) : Points(e, k) \in 0..18 /\ Points(e, k) <= Top(k) /\ e \in {1, 2, 3}
    BY <1>1 DEF Group, Engines, Shazam, AudD, ACR
  <2>2. CASE 1 \in Group(k) /\ Points(1, k) = Top(k)
    BY <2>1, <2>2
  <2>3. CASE ~(1 \in Group(k) /\ Points(1, k) = Top(k)) /\ 2 \in Group(k) /\ Points(2, k) = Top(k)
    BY <1>3, <2>1, <2>3
  <2>4. CASE ~(1 \in Group(k) /\ Points(1, k) = Top(k)) /\ ~(2 \in Group(k) /\ Points(2, k) = Top(k))
    BY <1>3, <1>4, <2>1, <2>4
  <2>5. QED
    BY <2>2, <2>3, <2>4
<1>6. Winner(k) \in Group(k) /\ P(Winner(k))
  BY <1>5 DEF Winner
<1>7. QED
  BY <1>1, <1>6 DEF Group

\* A group with a member is worth between 0 and 1200.
LEMMA WorthRange ==
    ASSUME NEW m \in Nat, NEW t \in Nat, NEW n \in Nat, 1 <= n, n <= 3
    PROVE  Worth(m, t, n) \in Nat /\ Worth(m, t, n) <= 1200
<1> DEFINE raw == IF n = 1 THEN 60 * m + 18 * t
                 ELSE IF n = 2 THEN 60 * m + 9 * t + 180
                 ELSE 60 * m + 6 * t + 360
<1>1. Worth(m, t, n) = IF raw > 1200 THEN 1200 ELSE raw
  BY WorthBySize
<1>2. raw \in Nat
  OBVIOUS
<1>3. QED
  BY <1>1, <1>2

\* A candidate more: the highest score and the sum do not fall, and the bonus is
\* more than the average can lose.
LEMMA JoinHelps ==
    ASSUME NEW m \in 0..18, NEW t \in 0..54, NEW m2 \in 0..18, NEW t2 \in 0..54,
           m <= m2, t <= t2
    PROVE  /\ t <= m => Worth(m2, t2, 2) >= Worth(m, t, 1)
           /\ t <= 2 * m => Worth(m2, t2, 3) >= Worth(m, t, 2)
<1>1. m \in Nat /\ t \in Nat /\ t2 \in Nat /\ m2 \in Nat /\ 1 \in 1..3 /\ 2 \in 1..3 /\ 3 \in 1..3
  OBVIOUS
<1>2. /\ Worth(m, t, 1) = IF 60 * m + 18 * t > 1200 THEN 1200 ELSE 60 * m + 18 * t
      /\ Worth(m, t, 2) = IF 60 * m + 9 * t + 180 > 1200 THEN 1200
                          ELSE 60 * m + 9 * t + 180
  BY <1>1, Shares DEF Worth
<1>3. Worth(m2, t2, 2) = IF 60 * m2 + 9 * t2 + 180 > 1200 THEN 1200
                          ELSE 60 * m2 + 9 * t2 + 180
  BY <1>1, Shares DEF Worth
<1>4. Worth(m2, t2, 3) = IF 60 * m2 + 6 * t2 + 360 > 1200 THEN 1200
                          ELSE 60 * m2 + 6 * t2 + 360
  BY <1>1, Shares DEF Worth
<1>5. QED
  BY <1>2, <1>3, <1>4

----------------------------------------------------------------------------
\* The loop of the choice: best is a best one of the groups visited so far.
BestSoFar ==
    IF visited = {} THEN best = NoBest
    ELSE \E k \in visited :
            /\ best = [score |-> FinalScore(k), engine |-> Winner(k)]
            /\ \A q \in visited : FinalScore(q) <= best.score

\* While Identify runs nothing has decided, and groups are visited only when all
\* engines have been asked.
Undecided ==
    pc # "done" => /\ answer = 0
                   /\ \A e \in Engines : ~Strong(e)
                   /\ visited # {} => pc = "asking" /\ Ahead = {}

\* An engine that is waited for has not answered yet.
Turned == pc = "waiting" => turn \in wired /\ said[turn] = Nothing

IInv == TypeOK /\ BestSoFar /\ Undecided /\ Turned /\ BestOfBestGroup

\* The groups and what they are worth depend on the answers alone.
LEMMA GroupsKept ==
    ASSUME said' = said
    PROVE  /\ Keys' = Keys
           /\ \A k : FinalScore(k)' = FinalScore(k)
           /\ \A k : Winner(k)' = Winner(k)
           /\ \A k : Group(k)' = Group(k)
           /\ \A e : Strong(e)' <=> Strong(e)
<1>1. Keys' = Keys /\ \A k : Group(k)' = Group(k)
  BY DEF Keys, Group, InGroup
<1>2. ASSUME NEW k PROVE /\ \A e : Points(e, k)' = Points(e, k)
                         /\ Top(k)' = Top(k) /\ Total(k)' = Total(k) /\ Size(k)' = Size(k)
  BY DEF Points, Top, Total, Size, InGroup
<1>3. ASSUME NEW k PROVE FinalScore(k)' = FinalScore(k)
  BY <1>2 DEF FinalScore
<1>4. ASSUME NEW k PROVE Winner(k)' = Winner(k)
  BY <1>1, <1>2 DEF Winner
<1>5. \A e : Strong(e)' <=> Strong(e)
  BY DEF Strong
<1>6. QED
  BY <1>1, <1>3, <1>4, <1>5

\* Each group that the choice visits has a member, so that its winner is one.
LEMMA KeyHasMember ==
    ASSUME NEW k \in Keys
    PROVE  /\ \E e \in Engines : InGroup(e, k)
           /\ Winner(k) \in Engines /\ InGroup(Winner(k), k)
           /\ FinalScore(k) \in Nat /\ FinalScore(k) <= 1200
<1>1. \E e \in Engines : InGroup(e, k)
  BY DEF Keys, InGroup
<1>2. /\ Size(k) \in Nat /\ 1 <= Size(k) /\ Size(k) <= 3
      /\ Top(k) \in Nat /\ Total(k) \in Nat
  BY <1>1, GroupBounds
<1>3. Worth(Top(k), Total(k), Size(k)) \in Nat /\ Worth(Top(k), Total(k), Size(k)) <= 1200
  BY <1>2, WorthRange
<1>4. QED
  BY <1>1, <1>3, WinnerIsStrongest DEF FinalScore

\* An engine's answer decides, or is collected before any group is visited.
LEMMA AnswerStep ==
    ASSUME IInv, NEW c \in Candidates(turn), Answers(c)
    PROVE  IInv'
<1>1. /\ turn \in Engines /\ turn \in wired /\ visited = {} /\ best = NoBest
      /\ said \in [Engines -> Candidates(ACR) \cup {Nothing}] /\ pc = "waiting" /\ answer = 0
  BY DEF Answers, IInv, TypeOK, Turned, Undecided, BestSoFar
<1>2. /\ said' = [said EXCEPT ![turn] = c]
      /\ UNCHANGED <<wired, turn, expired, visited, best>>
  BY DEF Answers
<1>3. c \in Candidates(ACR) /\ c # Nothing
  BY <1>1, NothingAssumption DEF Candidates, Engines, ACR
<1>4. /\ said'[turn] = c
      /\ \A e \in Engines : e # turn => said'[e] = said[e]
      /\ said' \in [Engines -> Candidates(ACR) \cup {Nothing}]
  BY <1>1, <1>2, <1>3
<1>5. /\ \A e \in Engines : said'[e] \in Candidates(e) \cup {Nothing}
      /\ \A e \in Engines : said'[e] # Nothing => e \in wired' /\ e <= turn'
  BY <1>1, <1>2, <1>4 DEF IInv, TypeOK, Engines, Shazam, AudD, ACR
<1>6. \/ RawScore(c) >= ShortCircuit /\ pc' = "done" /\ answer' = turn
      \/ ~(RawScore(c) >= ShortCircuit) /\ pc' = "asking" /\ answer' = 0
  BY <1>1 DEF Answers
<1>7. TypeOK'
  <2>1. visited' \subseteq Keys' /\ best' \in [score : -1..1200, engine : Engines \cup {0}]
    BY <1>1, <1>2 DEF NoBest
  <2>2. QED
    BY <1>1, <1>2, <1>4, <1>5, <1>6, <2>1 DEF IInv, TypeOK, Ends
<1>8. Turned' /\ BestSoFar'
  BY <1>1, <1>2, <1>6 DEF Turned, BestSoFar, NoBest
<1>9. \A e \in Engines : Strong(e)' <=> e = turn /\ RawScore(c) >= ShortCircuit
  BY <1>1, <1>3, <1>4 DEF Strong, IInv, Undecided
<1>10. Undecided'
  BY <1>1, <1>2, <1>6, <1>9 DEF Undecided
<1>11. BestOfBestGroup'
  <2>1. CASE RawScore(c) >= ShortCircuit
    <3>1. answer' = turn /\ turn # 0 /\ said'[answer'] = c
      BY <1>1, <1>4, <1>6, <2>1 DEF Engines, Shazam, AudD, ACR
    <3>2. Strong(answer)'
      BY <1>3, <2>1, <3>1 DEF Strong
    <3>3. (\E e \in Engines : Strong(e))'
      <4>1. PICK e \in Engines : e = turn
        BY <1>1
      <4>2. Strong(e)'
        BY <1>9, <2>1, <4>1
      <4>3. QED
        BY <4>2
    <3>4. QED
      BY <3>1, <3>2, <3>3 DEF BestOfBestGroup
  <2>2. CASE ~(RawScore(c) >= ShortCircuit)
    BY <1>6, <2>2 DEF BestOfBestGroup
  <2>3. QED
    BY <2>1, <2>2
<1>12. QED
  BY <1>7, <1>8, <1>10, <1>11 DEF IInv

\* Engines are asked, miss, or time out: nothing that the choice reads changes.
LEMMA WaitStep ==
    ASSUME IInv,
           \/ \E e \in Engines : Ask(e) \/ AskInVain(e)
           \/ Misses \/ TimesOut \/ Expire \/ UNCHANGED vars
    PROVE  IInv'
<1>1. UNCHANGED <<wired, said, visited, best, answer>>
  BY DEF Ask, AskInVain, Misses, TimesOut, Expire, vars
<1>2. \/ /\ pc = "asking" /\ Ahead # {} /\ turn' \in wired /\ turn' > turn
         /\ pc' \in {"asking", "waiting"} /\ expired' = expired
      \/ pc = "waiting" /\ pc' = "asking" /\ turn' = turn /\ expired' = expired
      \/ pc' = pc /\ turn' = turn /\ expired' \in BOOLEAN
  <2>1. CASE \E e \in Engines : Ask(e) \/ AskInVain(e)
    <3>1. PICK e \in Engines : Ask(e) \/ AskInVain(e)
      BY <2>1
    <3>2. /\ pc = "asking" /\ e \in Ahead /\ turn' = e /\ expired' = expired
          /\ pc' \in {"asking", "waiting"}
      BY <3>1 DEF Ask, AskInVain, Upcoming
    <3>3. QED
      BY <3>2 DEF Ahead
  <2>2. CASE Misses \/ TimesOut
    BY <2>2 DEF Misses, TimesOut
  <2>3. CASE Expire \/ UNCHANGED vars
    BY <2>3 DEF Expire, vars, IInv, TypeOK
  <2>4. QED
    BY <2>1, <2>2, <2>3
<1>3. /\ turn \in Engines \cup {0} /\ turn' \in wired \cup {0} /\ turn' \in Int /\ turn \in Int
      /\ turn' >= turn /\ wired \subseteq Engines
  <2>1. wired \subseteq Engines /\ turn \in wired \cup {0}
    BY DEF IInv, TypeOK
  <2>2. turn' \in wired \cup {0} /\ (turn' = turn \/ turn' > turn)
    BY <1>2, <2>1
  <2>3. \A e \in Engines \cup {0} : e \in Int
    BY DEF Engines, Shazam, AudD, ACR
  <2>4. turn \in Int /\ turn' \in Int
    BY <2>1, <2>2, <2>3
  <2>5. QED
    BY <2>1, <2>2, <2>4
<1>4. /\ Keys' = Keys
      /\ \A k : FinalScore(k)' = FinalScore(k)
      /\ \A k : Winner(k)' = Winner(k)
      /\ \A k : Group(k)' = Group(k)
      /\ \A e : Strong(e)' <=> Strong(e)
  BY <1>1, GroupsKept
<1>5. \A e \in Engines : said[e] # Nothing => e \in wired /\ e <= turn'
  <2>1. \A e \in Engines : e \in Int
    BY DEF Engines, Shazam, AudD, ACR
  <2>2. QED
    BY <1>3, <2>1 DEF IInv, TypeOK
<1>6. /\ pc' \in {"asking", "waiting"} \cup Ends
      /\ pc' # "refused" => wired # {}
      /\ expired' \in BOOLEAN
  BY <1>2 DEF IInv, TypeOK
<1>7. TypeOK'
  BY <1>1, <1>3, <1>4, <1>5, <1>6 DEF IInv, TypeOK
<1>8. BestSoFar'
  BY <1>1, <1>4 DEF IInv, BestSoFar
<1>9. Turned'
  <2>1. CASE turn' \in wired /\ turn' > turn
    <3>1. said[turn'] = Nothing
      BY <1>3, <2>1 DEF IInv, TypeOK
    <3>2. QED
      BY <1>1, <2>1, <3>1 DEF Turned
  <2>2. CASE turn' = turn /\ (pc' = pc \/ pc' = "asking")
    BY <1>1, <2>2 DEF IInv, Turned
  <2>3. QED
    BY <1>2, <2>1, <2>2
<1>10. Undecided'
  <2>1. CASE pc = "asking" /\ Ahead # {}
    BY <1>1, <1>4, <2>1 DEF IInv, Undecided
  <2>2. CASE pc = "waiting"
    BY <1>1, <1>4, <2>2 DEF IInv, Undecided
  <2>3. CASE pc' = pc /\ turn' = turn
    BY <1>1, <1>4, <2>3 DEF IInv, Undecided, Ahead
  <2>4. QED
    BY <1>2, <2>1, <2>2, <2>3
<1>11. BestOfBestGroup'
  <2>1. CASE pc' # "done"
    BY <2>1 DEF BestOfBestGroup
  <2>2. CASE pc' = "done"
    <3>1. pc = "done" /\ turn' = turn
      BY <1>2, <2>2
    <3>2. Ahead' = Ahead
      BY <1>1, <3>1 DEF Ahead
    <3>3. QED
      BY <1>1, <1>4, <3>1, <3>2 DEF IInv, BestOfBestGroup
  <2>3. QED
    BY <2>1, <2>2
<1>12. QED
  BY <1>7, <1>8, <1>9, <1>10, <1>11 DEF IInv

\* One more group: best stays a best one of those visited, in any order.
LEMMA VisitStep ==
    ASSUME IInv, NEW k \in Keys, Visit(k)
    PROVE  IInv'
<1>1. /\ pc = "asking" /\ Ahead = {} /\ visited' = visited \cup {k}
      /\ best' = IF FinalScore(k) > best.score
                 THEN [score |-> FinalScore(k), engine |-> Winner(k)] ELSE best
      /\ UNCHANGED <<wired, pc, turn, expired, said, answer>>
  BY DEF Visit
<1>2. /\ Keys' = Keys
      /\ \A q : FinalScore(q)' = FinalScore(q)
      /\ \A q : Winner(q)' = Winner(q)
      /\ \A e : Strong(e)' <=> Strong(e)
  BY <1>1, GroupsKept
<1>3. /\ visited \subseteq Keys
      /\ \A q \in Keys : FinalScore(q) \in Nat /\ FinalScore(q) <= 1200 /\ Winner(q) \in Engines
  BY KeyHasMember DEF IInv, TypeOK
<1>4. best \in [score : -1..1200, engine : Engines \cup {0}]
  BY DEF IInv, TypeOK
<1>5. best' \in [score : -1..1200, engine : Engines \cup {0}]
  <2>1. FinalScore(k) \in -1..1200 /\ Winner(k) \in Engines
    BY <1>3
  <2>2. QED
    BY <1>1, <1>4, <2>1
<1>6. TypeOK'
  BY <1>1, <1>2, <1>3, <1>5 DEF IInv, TypeOK
<1>7. BestSoFar'
  <2>1. \E q \in visited' :
           /\ best' = [score |-> FinalScore(q), engine |-> Winner(q)]
           /\ \A p \in visited' : FinalScore(p) <= best'.score
    <3>1. CASE visited = {}
      <4>1. best.score = -1
        BY <3>1 DEF IInv, BestSoFar, NoBest
      <4>2. best' = [score |-> FinalScore(k), engine |-> Winner(k)]
        BY <1>1, <1>3, <4>1
      <4>3. QED
        BY <1>1, <1>3, <3>1, <4>2
    <3>2. CASE visited # {}
      <4>1. PICK q \in visited :
               /\ best = [score |-> FinalScore(q), engine |-> Winner(q)]
               /\ \A p \in visited : FinalScore(p) <= best.score
        BY <3>2 DEF IInv, BestSoFar
      <4>2. CASE FinalScore(k) > best.score
        <5>1. best' = [score |-> FinalScore(k), engine |-> Winner(k)]
          BY <1>1, <4>2
        <5>2. \A p \in visited : FinalScore(p) <= FinalScore(k)
          BY <1>3, <1>4, <4>1, <4>2
        <5>3. QED
          BY <1>1, <1>3, <5>1, <5>2
      <4>3. CASE ~(FinalScore(k) > best.score)
        <5>1. best' = best
          BY <1>1, <4>3
        <5>2. FinalScore(k) <= best.score
          BY <1>3, <1>4, <4>3
        <5>3. QED
          BY <1>1, <4>1, <5>1, <5>2
      <4>4. QED
        BY <4>2, <4>3
    <3>3. QED
      BY <3>1, <3>2
  <2>2. visited' # {}
    BY <1>1
  <2>3. QED
    BY <1>2, <2>1, <2>2 DEF BestSoFar
<1>8. Undecided' /\ Turned' /\ BestOfBestGroup'
  BY <1>1, <1>2 DEF IInv, Undecided, Turned, BestOfBestGroup, Ahead
<1>9. QED
  BY <1>6, <1>7, <1>8 DEF IInv

\* The answer is the winner of a best group, if that is good enough.
LEMMA DecideStep ==
    ASSUME IInv, Decide
    PROVE  IInv'
<1>1. /\ pc = "asking" /\ pc' = "done" /\ Ahead = {} /\ visited = Keys
      /\ answer' = IF best.score >= MinAccept THEN best.engine ELSE 0
      /\ UNCHANGED <<wired, turn, expired, said, visited, best>>
  BY DEF Decide
<1>2. /\ Keys' = Keys
      /\ \A q : FinalScore(q)' = FinalScore(q)
      /\ \A q : Winner(q)' = Winner(q)
      /\ \A q : Group(q)' = Group(q)
      /\ \A e : Strong(e)' <=> Strong(e)
  BY <1>1, GroupsKept
<1>3. \A e \in Engines : ~Strong(e)'
  BY <1>1, <1>2 DEF IInv, Undecided
<1>4. Ahead' = {}
  BY <1>1 DEF Ahead
<1>5. CASE Keys = {}
  <2>1. answer' = 0
    BY <1>1, <1>5 DEF IInv, BestSoFar, NoBest, MinAccept
  <2>2. BestOfBestGroup'
    BY <1>2, <1>3, <1>4, <1>5, <2>1 DEF BestOfBestGroup
  <2>3. QED
    BY <1>1, <1>2, <2>1, <2>2 DEF IInv, TypeOK, BestSoFar, Undecided, Turned, Ends
<1>6. CASE Keys # {}
  <2>1. PICK k \in Keys :
           /\ best = [score |-> FinalScore(k), engine |-> Winner(k)]
           /\ \A q \in Keys : FinalScore(q) <= FinalScore(k)
    BY <1>1, <1>6 DEF IInv, BestSoFar
  <2>2. /\ Winner(k) \in Engines /\ Winner(k) # 0 /\ InGroup(Winner(k), k)
        /\ \A q \in Keys : FinalScore(q) \in Nat
        /\ \A e \in Engines : InGroup(e, k) => Points(e, k) <= Points(Winner(k), k)
    BY KeyHasMember, WinnerIsStrongest DEF Engines, Shazam, AudD, ACR
  <2>3. /\ said[Winner(k)] # Nothing /\ Key(said[Winner(k)]) = k
        /\ Winner(k) \in wired
        /\ \A e \in Group(k) : RawScore(said[e]) <= RawScore(said[Winner(k)])
    BY <2>2 DEF InGroup, Points, Group, IInv, TypeOK
  <2>4. answer' = IF FinalScore(k) >= MinAccept THEN Winner(k) ELSE 0
    BY <1>1, <2>1
  <2>5. answer' # 0 <=> \E q \in Keys : FinalScore(q) >= MinAccept
    BY <2>1, <2>2, <2>4 DEF MinAccept
  <2>6. answer' # 0 => answer' = Winner(k)
    BY <2>4
  <2>7. BestOfBestGroup'
    <3>1. (answer # 0 =>
             /\ said[answer] # Nothing
             /\ \A q \in Keys : FinalScore(q) <= FinalScore(Key(said[answer]))
             /\ \A e \in Group(Key(said[answer])) : RawScore(said[e]) <= RawScore(said[answer]))'
      <4>1. CASE answer' = 0
        BY <4>1
      <4>2. CASE answer' # 0
        <5>1. said'[answer'] = said[Winner(k)] /\ Key(said'[answer']) = k
          BY <1>1, <2>3, <2>6, <4>2
        <5>2. \A q \in Keys' : FinalScore(q)' <= FinalScore(k)'
          BY <1>2, <2>1
        <5>3. \A e \in Group(k)' : RawScore(said'[e]) <= RawScore(said'[answer'])
          BY <1>1, <1>2, <2>3, <5>1
        <5>4. QED
          BY <2>3, <5>1, <5>2, <5>3
      <4>3. QED
        BY <4>1, <4>2
    <3>2. answer' # 0 <=> \E q \in Keys' : FinalScore(q)' >= MinAccept
      BY <1>2, <2>5
    <3>3. QED
      BY <1>3, <1>4, <3>1, <3>2 DEF BestOfBestGroup
  <2>8. answer' \in wired' \cup {0}
    BY <1>1, <2>3, <2>4
  <2>9. QED
    BY <1>1, <1>2, <2>7, <2>8 DEF IInv, TypeOK, BestSoFar, Undecided, Turned, Ends
<1>7. QED
  BY <1>5, <1>6

\* The inductive invariant.
THEOREM Invariant == Spec => []IInv
<1>1. Init => IInv
  <2> SUFFICES ASSUME Init PROVE IInv
    OBVIOUS
  <2>1. /\ turn = 0 /\ expired = FALSE /\ said = [e \in Engines |-> Nothing]
        /\ visited = {} /\ best = NoBest /\ answer = 0
    BY DEF Init
  <2>2. wired \subseteq Engines /\ pc \in {"asking", "refused"} /\ (pc # "refused" => wired # {})
    <3>1. PICK env \in Environments :
             IF Valid(env) THEN wired = Wired(env) /\ pc = "asking"
                           ELSE wired = {} /\ pc = "refused"
      BY DEF Init
    <3>2. CASE Valid(env)
      <4>1. HasACR(env) \/ HasAudD(env) \/ HasShazam(env)
        BY <3>2 DEF Valid
      <4>2. Wired(env) # {} /\ Wired(env) \subseteq Engines
        BY <4>1 DEF Wired, Engines
      <4>3. QED
        BY <3>1, <3>2, <4>2
    <3>3. CASE ~Valid(env)
      BY <3>1, <3>3
    <3>4. QED
      BY <3>2, <3>3
  <2>3. TypeOK
    <3>1. /\ said \in [Engines -> Candidates(ACR) \cup {Nothing}]
          /\ \A e \in Engines : said[e] = Nothing
          /\ best \in [score : -1..1200, engine : Engines \cup {0}]
      BY <2>1 DEF NoBest
    <3>2. /\ \A e \in Engines : said[e] \in Candidates(e) \cup {Nothing}
          /\ \A e \in Engines : said[e] # Nothing => e \in wired /\ e <= turn
      BY <3>1
    <3>3. /\ pc \in {"asking", "waiting"} \cup Ends /\ turn \in wired \cup {0}
          /\ answer \in wired \cup {0} /\ visited \subseteq Keys /\ expired \in BOOLEAN
      BY <2>1, <2>2 DEF Ends
    <3>4. QED
      BY <2>2, <3>1, <3>2, <3>3 DEF TypeOK
  <2>4. BestSoFar /\ Turned /\ Undecided /\ BestOfBestGroup
    BY <2>1, <2>2 DEF BestSoFar, Turned, Undecided, Strong, BestOfBestGroup
  <2>5. QED
    BY <2>3, <2>4 DEF IInv
<1>2. IInv /\ [Next]_vars => IInv'
  <2> SUFFICES ASSUME IInv, [Next]_vars PROVE IInv'
    OBVIOUS
  <2>1. CASE Advance
    BY <2>1, WaitStep, VisitStep, DecideStep DEF Advance
  <2>2. CASE Misses \/ Expire \/ UNCHANGED vars
    BY <2>2, WaitStep
  <2>3. CASE \E c \in Candidates(turn) : Answers(c)
    BY <2>3, AnswerStep
  <2>4. QED
    BY <2>1, <2>2, <2>3 DEF Next
<1>3. QED
  BY <1>1, <1>2, PTL DEF Spec

\* Every variable keeps its type, and a bot that started has an engine.
THEOREM TypeCorrect == Spec => []TypeOK
<1>1. IInv => TypeOK
  BY DEF IInv
<1>2. QED
  BY <1>1, Invariant, PTL

\* The choice does not depend on the order in which Go's map gives the groups.
THEOREM BestCorrect == Spec => []BestOfBestGroup
<1>1. IInv => BestOfBestGroup
  BY DEF IInv
<1>2. QED
  BY <1>1, Invariant, PTL

----------------------------------------------------------------------------
\* What a plain candidate, two of them, and one without a duration are worth.
LEMMA PlainWorth ==
    ASSUME NEW m \in 13..18, NEW t \in 13..54, NEW n \in Nat, 1 <= n, n <= 3
    PROVE  /\ Worth(m, t, n) >= 840
           /\ t >= 26 /\ n >= 2 => Worth(m, t, n) >= 1194
<1>1. m \in Nat /\ t \in Nat
  OBVIOUS
<1> DEFINE raw == IF n = 1 THEN 60 * m + 18 * t
                 ELSE IF n = 2 THEN 60 * m + 9 * t + 180
                 ELSE 60 * m + 6 * t + 360
<1>2. Worth(m, t, n) = IF raw > 1200 THEN 1200 ELSE raw
  BY <1>1, WorthBySize
<1>3. raw >= 840 /\ (t >= 26 /\ n >= 2 => raw >= 1194) /\ raw \in Nat
  OBVIOUS
<1> HIDE DEF raw
<1>4. QED
  BY <1>2, <1>3

\* A candidate alone with 15 points.
LEMMA LoneWorth ==
    ASSUME NEW m \in Nat, m <= 15
    PROVE  Worth(m, m, 1) <= 1170
<1>1. Worth(m, m, 1) = IF 60 * m + 18 * m > 1200 THEN 1200 ELSE 60 * m + 18 * m
  BY Shares DEF Worth
<1>2. QED
  BY <1>1

\* A plain candidate has 13 points for its group.
LEMMA PlainPoints ==
    ASSUME NEW e \in Engines, Plain(e)
    PROVE  /\ InGroup(e, Key(said[e])) /\ Key(said[e]) \in Keys
           /\ Points(e, Key(said[e])) >= 13
<1>1. said[e] # Nothing /\ RawScore(said[e]) >= 13
  BY RawBounds DEF Plain
<1>2. QED
  BY <1>1 DEF InGroup, Keys, Points

\* One plain candidate makes its group good enough.
LEMMA PlainGroup ==
    ASSUME NEW e \in Engines, Plain(e)
    PROVE  FinalScore(Key(said[e])) >= MinAccept
<1> DEFINE k == Key(said[e])
<1>1. InGroup(e, k) /\ Points(e, k) >= 13
  BY PlainPoints
<1> HIDE DEF k
<1>2. Top(k) \in 13..18 /\ Total(k) \in 13..54
  BY <1>1, GroupBounds
<1>3. Size(k) \in Nat /\ 1 <= Size(k) /\ Size(k) <= 3
  BY <1>1, GroupBounds
<1>4. Worth(Top(k), Total(k), Size(k)) >= 840
  BY <1>2, <1>3, PlainWorth
<1>5. FinalScore(k) >= MinAccept
  BY <1>4 DEF FinalScore, MinAccept
<1>6. QED
  BY <1>5 DEF k

\* A plain candidate is enough for an answer.
LEMMA PlainEnough ==
    ASSUME IInv, pc = "done", NEW e \in Engines, Plain(e)
    PROVE  answer # 0
<1>1. CASE \E d \in Engines : Strong(d)
  BY <1>1 DEF IInv, BestOfBestGroup
<1>2. CASE ~(\E d \in Engines : Strong(d))
  <2>1. Key(said[e]) \in Keys /\ FinalScore(Key(said[e])) >= MinAccept
    BY PlainPoints, PlainGroup
  <2>2. QED
    BY <1>2, <2>1 DEF IInv, BestOfBestGroup
<1>3. QED
  BY <1>1, <1>2

\* One engine that names a title and an artist is enough, whatever the others do.
THEOREM PlainCorrect == Spec => []PlainAnswerAccepted
<1>1. IInv => PlainAnswerAccepted
  BY PlainEnough DEF PlainAnswerAccepted
<1>2. QED
  BY <1>1, Invariant, PTL

\* A group with two plain candidates is worth 1194.
LEMMA PairGroup ==
    ASSUME NEW e \in Engines, NEW d \in Engines, e # d, NEW k,
           InGroup(e, k), InGroup(d, k), Points(e, k) >= 13, Points(d, k) >= 13
    PROVE  FinalScore(k) >= 1194
<1> DEFINE s == Points(1, k)  a == Points(2, k)  r == Points(3, k)
<1>1. Engines = {1, 2, 3}
  BY DEF Engines, Shazam, AudD, ACR
<1>2. s \in 0..18 /\ a \in 0..18 /\ r \in 0..18
  BY <1>1, GroupBounds
<1>3. Total(k) = s + a + r
  BY DEF Total, Shazam, AudD, ACR
<1>4. \/ s >= 13 /\ a >= 13 /\ InGroup(1, k) /\ InGroup(2, k)
      \/ s >= 13 /\ r >= 13 /\ InGroup(1, k) /\ InGroup(3, k)
      \/ a >= 13 /\ r >= 13 /\ InGroup(2, k) /\ InGroup(3, k)
  BY <1>1
<1> HIDE DEF s, a, r
<1>5. Total(k) >= 26
  BY <1>2, <1>3, <1>4
<1>6. Size(k) >= 2
  BY <1>4 DEF Size, Weight, Shazam, AudD, ACR
<1>7. Top(k) \in 13..18 /\ Total(k) \in 13..54 /\ Size(k) \in Nat /\ Size(k) <= 3
  BY <1>5, GroupBounds
<1>8. Worth(Top(k), Total(k), Size(k)) >= 1194
  BY <1>5, <1>6, <1>7, PlainWorth
<1>9. QED
  BY <1>8 DEF FinalScore

\* A group of one candidate without a duration is worth 1170 at most.
LEMMA LoneGroup ==
    ASSUME NEW g \in Engines, NEW k, InGroup(g, k), said[g].duration = FALSE,
           \A e \in Engines : InGroup(e, k) => e = g
    PROVE  FinalScore(k) \in Nat /\ FinalScore(k) <= 1170
<1> DEFINE m == RawScore(said[g])
<1>1. m \in 0..18 /\ m <= 15
  BY RawBounds
<1>2. Engines = {1, 2, 3}
  BY DEF Engines, Shazam, AudD, ACR
<1>3. Points(g, k) = m /\ \A e \in Engines : e # g => Points(e, k) = 0 /\ ~InGroup(e, k)
  BY DEF Points
<1> HIDE DEF m
<1>4. Top(k) = m /\ Total(k) = m
  BY <1>1, <1>2, <1>3 DEF Top, Total, Shazam, AudD, ACR
<1>5. Size(k) = 1
  BY <1>2, <1>3 DEF Size, Weight, Shazam, AudD, ACR
<1>6. m \in Nat /\ Worth(m, m, 1) <= 1170
  BY <1>1, LoneWorth
<1>7. Worth(m, m, 1) \in Nat
  BY <1>6, WorthRange
<1>8. QED
  BY <1>4, <1>5, <1>6, <1>7 DEF FinalScore

\* Two engines that agree are outvoted only by one that knows a duration.
THEOREM AgreementCorrect == Spec => []AgreementDecides
<1>1. ASSUME IInv, pc = "done",
             NEW e \in Engines, NEW d \in Engines, NEW other \in Engines,
             e # d, other # e, other # d,
             Plain(e), Plain(d), Key(said[e]) = Key(said[d]),
             said[other] = Nothing \/ ~said[other].duration
      PROVE  answer # 0 /\ Key(said[answer]) = Key(said[e])
  <2> DEFINE k == Key(said[e])
  <2>1. answer # 0 /\ answer \in Engines
    BY <1>1, PlainEnough DEF IInv, TypeOK
  <2>2. answer = e \/ answer = d \/ answer = other
    BY <1>1, <2>1 DEF Engines, Shazam, AudD, ACR
  <2>3. CASE answer = other
    <3>1. said[other].duration = FALSE \/ said[other] = Nothing
      BY <1>1 DEF IInv, TypeOK, Candidates
    <3>2. ~Strong(other)
      <4>1. RawScore(said[other]) \in 0..18
            /\ (said[other].duration = FALSE => RawScore(said[other]) <= 15)
        BY RawBounds
      <4>2. QED
        BY <3>1, <4>1 DEF Strong, ShortCircuit
    <3>3. ~(\E g \in Engines : Strong(g))
      BY <1>1, <2>3, <3>2 DEF IInv, BestOfBestGroup
    <3>4. /\ said[other] # Nothing
          /\ \A q \in Keys : FinalScore(q) <= FinalScore(Key(said[other]))
      BY <1>1, <2>1, <2>3, <3>3 DEF IInv, BestOfBestGroup
    <3>5. /\ InGroup(e, k) /\ Points(e, k) >= 13 /\ k \in Keys
          /\ InGroup(d, k) /\ Points(d, k) >= 13
      BY <1>1, PlainPoints
    <3>6. FinalScore(k) >= 1194 /\ FinalScore(k) \in Nat
      BY <1>1, <3>5, PairGroup, KeyHasMember
    <3>7. CASE Key(said[other]) # k
      <4> DEFINE q == Key(said[other])
      <4>1. InGroup(other, q)
        BY <3>4 DEF InGroup
      <4>2. \A g \in Engines : InGroup(g, q) => g = other
        BY <1>1, <3>7 DEF InGroup, Engines, Shazam, AudD, ACR
      <4>3. said[other].duration = FALSE
        BY <3>1, <3>4
      <4> HIDE DEF q, k
      <4>4. FinalScore(q) \in Nat /\ FinalScore(q) <= 1170
        BY <4>1, <4>2, <4>3, LoneGroup, ZenonT(60)
      <4>5. FinalScore(k) <= FinalScore(q)
        BY <3>4, <3>5 DEF q
      <4>6. QED
        BY <3>6, <4>4, <4>5
    <3>8. QED
      BY <2>1, <2>3, <3>7
  <2>4. QED
    BY <1>1, <2>1, <2>2, <2>3
<1>2. IInv => AgreementDecides
  BY <1>1 DEF AgreementDecides
<1>3. QED
  BY <1>2, Invariant, PTL

\* The points of a group of which one more engine is a member.
LEMMA GroupGrows ==
    ASSUME NEW g \in Engines, NEW k, NEW c, c # Nothing, Key(c) = k,
           said[g] = Nothing, said'[g] = c,
           \A e \in Engines : e # g => said'[e] = said[e]
    PROVE  /\ Top(k)' \in 0..18 /\ Top(k) <= Top(k)'
           /\ Total(k)' \in 0..54 /\ Total(k) <= Total(k)'
           /\ Size(k)' = Size(k) + 1 /\ Size(k) <= 2
<1> DEFINE s == Points(1, k)  a == Points(2, k)  r == Points(3, k)
           s2 == Points(1, k)'  a2 == Points(2, k)'  r2 == Points(3, k)'
           p == RawScore(c)
<1>1. Engines = {1, 2, 3}
  BY DEF Engines, Shazam, AudD, ACR
<1>2. p \in 0..18
  BY RawBounds
<1>3. s \in 0..18 /\ a \in 0..18 /\ r \in 0..18
  BY <1>1, GroupBounds
<1>4. /\ InGroup(g, k)' /\ ~InGroup(g, k) /\ Points(g, k) = 0 /\ Points(g, k)' = p
      /\ \A e \in Engines : e # g => /\ InGroup(e, k)' <=> InGroup(e, k)
                                     /\ Points(e, k)' = Points(e, k)
  BY DEF InGroup, Points
<1>5. \/ s = 0 /\ s2 = p /\ a2 = a /\ r2 = r
      \/ s2 = s /\ a = 0 /\ a2 = p /\ r2 = r
      \/ s2 = s /\ a2 = a /\ r = 0 /\ r2 = p
  BY <1>1, <1>4
<1>6. /\ Top(k) = IF s >= a /\ s >= r THEN s ELSE IF a >= r THEN a ELSE r
      /\ Top(k)' = IF s2 >= a2 /\ s2 >= r2 THEN s2 ELSE IF a2 >= r2 THEN a2 ELSE r2
      /\ Total(k) = s + a + r /\ Total(k)' = s2 + a2 + r2
  BY DEF Top, Total, Shazam, AudD, ACR
<1>7. Size(k)' = Size(k) + 1 /\ Size(k) <= 2
  <2>1. \/ /\ InGroup(1, k)' /\ ~InGroup(1, k)
           /\ InGroup(2, k)' <=> InGroup(2, k)
           /\ InGroup(3, k)' <=> InGroup(3, k)
        \/ /\ InGroup(2, k)' /\ ~InGroup(2, k)
           /\ InGroup(1, k)' <=> InGroup(1, k)
           /\ InGroup(3, k)' <=> InGroup(3, k)
        \/ /\ InGroup(3, k)' /\ ~InGroup(3, k)
           /\ InGroup(1, k)' <=> InGroup(1, k)
           /\ InGroup(2, k)' <=> InGroup(2, k)
    BY <1>1, <1>4
  <2>2. QED
    BY <2>1 DEF Size, Weight, Shazam, AudD, ACR
<1> HIDE DEF s, a, r, s2, a2, r2, p
<1>8. Total(k)' \in 0..54 /\ Total(k) <= Total(k)'
  BY <1>2, <1>3, <1>5, <1>6
<1>9. Top(k)' \in 0..18 /\ Top(k) <= Top(k)'
  BY <1>2, <1>3, <1>5, <1>6
<1>10. QED
  BY <1>7, <1>8, <1>9

\* An engine that agrees never lowers what its group is worth.
THEOREM AgreementHelpsCorrect == Spec => AgreementHelps
<1>1. ASSUME IInv, NEW c \in Candidates(turn), Answers(c), NEW k \in Keys
      PROVE  FinalScore(k)' >= FinalScore(k)
  <2>1. /\ turn \in Engines /\ said[turn] = Nothing
        /\ said' = [said EXCEPT ![turn] = c] /\ DOMAIN said = Engines
    BY <1>1 DEF Answers, IInv, TypeOK, Turned
  <2>2. c # Nothing
    BY <2>1, NothingAssumption
  <2>3. said'[turn] = c /\ \A e \in Engines : e # turn => said'[e] = said[e]
    BY <2>1
  <2>4. FinalScore(k) \in Nat
    BY KeyHasMember
  <2>5. CASE Key(c) # k
    <3>1. \A e \in Engines : /\ InGroup(e, k)' <=> InGroup(e, k)
                             /\ Points(e, k)' = Points(e, k)
      BY <2>1, <2>2, <2>3, <2>5 DEF InGroup, Points
    <3>2. Top(k)' = Top(k) /\ Total(k)' = Total(k) /\ Size(k)' = Size(k)
      BY <3>1 DEF Top, Total, Size, Weight, Engines
    <3>3. QED
      BY <2>4, <3>2 DEF FinalScore
  <2>6. CASE Key(c) = k
    <3> DEFINE m == Top(k)  t == Total(k)  n == Size(k)
               m2 == Top(k)'  t2 == Total(k)'
    <3>1. /\ m2 \in 0..18 /\ m <= m2 /\ t2 \in 0..54 /\ t <= t2
          /\ Size(k)' = n + 1 /\ n <= 2
      BY <2>1, <2>2, <2>3, <2>6, GroupGrows
    <3>2. m \in 0..18 /\ t \in 0..54 /\ n \in 0..3 /\ n > 0 /\ t <= n * m
      BY KeyHasMember, GroupBounds
    <3>3. FinalScore(k) = Worth(m, t, n) /\ FinalScore(k)' = Worth(m2, t2, n + 1)
      BY <3>1 DEF FinalScore
    <3> HIDE DEF m, t, n, m2, t2
    <3>4. n = 1 \/ n = 2
      BY <3>1, <3>2
    <3>5. CASE n = 1
      <4>1. t <= m /\ n + 1 = 2
        BY <3>2, <3>5
      <4>2. Worth(m2, t2, 2) >= Worth(m, t, 1)
        BY <3>1, <3>2, <4>1, JoinHelps
      <4>3. QED
        BY <3>3, <3>5, <4>1, <4>2
    <3>6. CASE n = 2
      <4>1. t <= 2 * m /\ n + 1 = 3
        BY <3>2, <3>6
      <4>2. Worth(m2, t2, 3) >= Worth(m, t, 2)
        BY <3>1, <3>2, <4>1, JoinHelps
      <4>3. QED
        BY <3>3, <3>6, <4>1, <4>2
    <3>7. QED
      BY <3>4, <3>5, <3>6
  <2>7. QED
    BY <2>5, <2>6
<1>2. ASSUME IInv, Next, said' # said
      PROVE  \E c \in Candidates(turn) : Answers(c)
  BY <1>2 DEF Next, Advance, Ask, AskInVain, TimesOut, Visit, Decide, Misses, Expire
<1>3. IInv /\ [Next]_vars => [\A k \in Keys : FinalScore(k)' >= FinalScore(k)]_said
  BY <1>1, <1>2 DEF vars
<1>4. QED
  BY <1>3, Invariant, PTL DEF Spec, AgreementHelps
----------------------------------------------------------------------------
\* The steps for the engines to come.
LEMMA FewerAhead ==
    ASSUME NEW x \in 0..3, NEW y \in 0..3, y > x
    PROVE  /\ 4 * (3 - x) \in Nat /\ 4 * (3 - y) \in Nat
           /\ 4 * (3 - y) + 4 <= 4 * (3 - x)
OBVIOUS

\* Every step but the deadline's own brings Identify closer to its end.
THEOREM ForwardCorrect == Spec => Forward
<1>1. ASSUME IInv, IInv', Next PROVE StepsLeft' < StepsLeft \/ Expire
  <2> DEFINE s == Unseen(1)  a == Unseen(2)  r == Unseen(3)
             s2 == Unseen(1)'  a2 == Unseen(2)'  r2 == Unseen(3)'
             w == Weight(pc = "waiting", 2)  w2 == Weight(pc' = "waiting", 2)
  <2>1. /\ s \in 0..1 /\ a \in 0..1 /\ r \in 0..1 /\ s2 \in 0..1 /\ a2 \in 0..1 /\ r2 \in 0..1
        /\ w = (IF pc = "waiting" THEN 2 ELSE 0) /\ w2 = (IF pc' = "waiting" THEN 2 ELSE 0)
    BY DEF Unseen, Weight
  <2>2. turn \in 0..3 /\ turn' \in 0..3 /\ Engines = {1, 2, 3}
    BY <1>1 DEF IInv, TypeOK, Engines, Shazam, AudD, ACR
  <2>3. /\ StepsLeft = (IF pc \in Ends THEN 0 ELSE 4 * (3 - turn) + w + s + a + r + 1)
        /\ StepsLeft' = (IF pc' \in Ends THEN 0 ELSE 4 * (3 - turn') + w2 + s2 + a2 + r2 + 1)
    BY DEF StepsLeft, Shazam, AudD, ACR
  <2>4. (said' = said /\ visited' = visited) => s2 = s /\ a2 = a /\ r2 = r
    BY DEF Unseen
  <2>5. ASSUME NEW k \in Keys \ visited, Visit(k) PROVE s2 + a2 + r2 < s + a + r
    <3>1. said' = said /\ visited' = visited \cup {k}
      BY <2>5 DEF Visit
    <3>2. PICK e \in Engines : said[e] # Nothing /\ Key(said[e]) = k
      BY DEF Keys
    <3>3. Unseen(e) = 1 /\ Unseen(e)' = 0
      BY <2>5, <3>1, <3>2 DEF Unseen, Weight
    <3>4. \A d : Unseen(d)' = 1 => Unseen(d) = 1
      BY <3>1 DEF Unseen, Weight
    <3>5. (e = 1 /\ s = 1 /\ s2 = 0) \/ (e = 2 /\ a = 1 /\ a2 = 0) \/ (e = 3 /\ r = 1 /\ r2 = 0)
      BY <2>2, <3>3
    <3>6. (s2 = 1 => s = 1) /\ (a2 = 1 => a = 1) /\ (r2 = 1 => r = 1)
      BY <3>4
    <3> HIDE DEF s, a, r, s2, a2, r2
    <3>7. QED
      BY <2>1, <3>5, <3>6
  <2>6. ASSUME NEW c \in Candidates(turn), Answers(c)
        PROVE  s2 + a2 + r2 <= s + a + r + 1
    <3>1. /\ visited' = visited /\ turn \in Engines
          /\ \A d \in Engines : d # turn => said'[d] = said[d]
      BY <1>1, <2>6 DEF Answers, IInv, TypeOK, Turned
    <3>2. \A d \in Engines : d # turn => Unseen(d)' = Unseen(d)
      BY <3>1 DEF Unseen
    <3>3. (a2 = a /\ r2 = r) \/ (s2 = s /\ r2 = r) \/ (s2 = s /\ a2 = a)
      BY <2>2, <3>1, <3>2
    <3> HIDE DEF s, a, r, s2, a2, r2
    <3>4. QED
      BY <2>1, <3>3
  <2> HIDE DEF s, a, r, s2, a2, r2, w, w2
  <2>7. CASE \E e \in Engines : Ask(e) \/ AskInVain(e)
    <3>1. turn' > turn /\ pc = "asking" /\ pc' \in {"asking", "waiting"}
      BY <2>2, <2>7 DEF Ask, AskInVain, Upcoming, Ahead
    <3>2. s2 = s /\ a2 = a /\ r2 = r
      BY <2>4, <2>7 DEF Ask, AskInVain
    <3>3. /\ 4 * (3 - turn') \in Nat /\ 4 * (3 - turn) \in Nat
          /\ 4 * (3 - turn') + 4 <= 4 * (3 - turn)
      BY <2>2, <3>1, FewerAhead
    <3>4. w = 0 /\ w2 \in {0, 2}
      BY <2>1, <3>1
    <3>5. pc \notin Ends /\ pc' \notin Ends
      BY <3>1 DEF Ends
    <3>6. QED
      BY <2>1, <2>3, <3>2, <3>3, <3>4, <3>5
  <2>8. CASE TimesOut \/ Misses
    <3>1. turn' = turn /\ pc = "waiting" /\ pc' = "asking"
      BY <2>8 DEF TimesOut, Misses
    <3>2. s2 = s /\ a2 = a /\ r2 = r
      BY <2>4, <2>8 DEF TimesOut, Misses
    <3>3. QED
      BY <2>1, <2>2, <2>3, <3>1, <3>2 DEF Ends
  <2>9. CASE \E k \in Keys : Visit(k)
    <3>1. pc' = pc /\ pc = "asking" /\ turn' = turn /\ s2 + a2 + r2 < s + a + r
      BY <2>5, <2>9 DEF Visit
    <3>2. QED
      BY <2>1, <2>2, <2>3, <3>1 DEF Ends
  <2>10. CASE Decide
    BY <2>1, <2>2, <2>3, <2>10 DEF Decide, Ends
  <2>11. CASE \E c \in Candidates(turn) : Answers(c)
    <3>1. /\ turn' = turn /\ pc = "waiting" /\ pc' \in {"asking", "done"}
          /\ s2 + a2 + r2 <= s + a + r + 1
      BY <2>6, <2>11 DEF Answers
    <3>2. QED
      BY <2>1, <2>2, <2>3, <3>1 DEF Ends
  <2>12. QED
    BY <1>1, <2>7, <2>8, <2>9, <2>10, <2>11 DEF Next, Advance
<1>2. IInv => StepsLeft \in Nat
  <2> SUFFICES ASSUME IInv PROVE StepsLeft \in Nat
    OBVIOUS
  <2>1. turn \in 0..3
    BY DEF IInv, TypeOK, Engines, Shazam, AudD, ACR
  <2>2. 4 * (3 - turn) \in Nat
    BY <2>1
  <2>3. QED
    BY <2>2 DEF StepsLeft, Unseen, Weight, Shazam, AudD, ACR
<1>3. QED
  BY <1>1, <1>2, Invariant, PTL DEF Spec, Forward
=============================================================================
