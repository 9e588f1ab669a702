---------------------------- MODULE Recognition ----------------------------
(***************************************************************************)
(* One recognition: which engines config.go and app.go wire, Identify of   *)
(* recognizer/fallback, which asks them in turn, each under a deadline of  *)
(* its own, and the choice among their answers.                            *)
(*                                                                         *)
(* A title or an artist is reduced to what the key of a track keeps of it, *)
(* its words of a-z and 0-9, and to the rest, which the key drops: letters *)
(* of another script, accents, punctuation. Raw scores are in units of     *)
(* 1/20 and final ones in units of 1/1200, in which all weights are whole. *)
(***************************************************************************)
EXTENDS Integers, Sequences

CONSTANTS
    Words,     \* words of a-z and 0-9, in lower case
    Unknown,   \* the words with "unknown" or "unmatched" in them
    Original,  \* the words with "original" in them
    Rests,     \* what a title or an artist has besides such words
    Nothing,   \* no rest, no answer
    Titles,    \* the titles and the artists that engines name
    Artists

Texts == [words : Seq(Words), rest : Rests \cup {Nothing}]
Blank == [words |-> << >>, rest |-> Nothing]

ASSUME WordsAssumption == Unknown \subseteq Words /\ Original \subseteq Words
ASSUME TextsAssumption ==
    /\ \A text \in Titles \cup Artists : text \in Texts
    /\ Blank \in Titles \cap Artists

VARIABLES
    wired,    \* the engines that buildBot has put in the list
    pc,       \* where Identify is; refused: the program did not start
    turn,     \* the engine asked last
    expired,  \* the request's own deadline has passed
    said,     \* what each engine has answered
    visited,  \* the groups the choice has looked at
    best,     \* the best candidate so far and its final score
    answer    \* the engine whose answer is returned, 0 for no match

vars == <<wired, pc, turn, expired, said, visited, best, answer>>

\* The engines in the order of the list.
Shazam == 1
AudD == 2
ACR == 3
Engines == {Shazam, AudD, ACR}

----------------------------------------------------------------------------
\* config.go: an ACR credential needs the two others, and an engine there must
\* be. SHAZAM_SCRIPT_PATH has a default when it is unset, not when it is empty.
Credentials == {"host", "key", "secret"}
Environments == [acr : SUBSET Credentials, audd : BOOLEAN, shazam : {"unset", "empty", "set"}]

HasShazam(env) == env.shazam # "empty"
HasAudD(env) == env.audd
HasACR(env) == env.acr = Credentials

\* Mutant: the last check of validate is missing.
ValidWithoutEngine(env) == env.acr # {} => HasACR(env)

Valid(env) ==
    /\ env.acr # {} => HasACR(env)
    /\ HasACR(env) \/ HasAudD(env) \/ HasShazam(env)

Wired(env) ==
    {e \in Engines : \/ e = Shazam /\ HasShazam(env)
                     \/ e = AudD /\ HasAudD(env)
                     \/ e = ACR /\ HasACR(env)}

\* What an engine may answer: Shazam and AudD a title that is not empty and never
\* a duration; ACR anything, a duration and an artist of its own making included.
Candidates(e) ==
    [title : IF e = ACR THEN Titles ELSE Titles \ {Blank}, artist : Artists,
     duration : IF e = ACR THEN BOOLEAN ELSE {FALSE}, link : BOOLEAN]

ASSUME NothingAssumption == \A e \in Engines : Nothing \notin Candidates(e)

----------------------------------------------------------------------------
\* The score of a candidate: what it names, less what its title gives away.
Weight(holds, points) == IF holds THEN points ELSE 0
Mentions(text, words) == \E i \in DOMAIN text.words : text.words[i] \in words

RawScore(c) ==
    LET score == Weight(c.title # Blank, 7) + Weight(c.artist # Blank, 6)
                 + Weight(c.duration, 3) + Weight(c.link, 2)
                 - Weight(Mentions(c.title, Unknown), 5)
                 - Weight(Mentions(c.title, Original), 3)
    IN  IF score < 0 THEN 0 ELSE score

\* Candidates are of one group when the words of their titles and artists are the
\* same, wherever the title ends.
Key(c) == c.title.words \o c.artist.words

Keys == {Key(said[e]) : e \in {d \in Engines : said[d] # Nothing}}
InGroup(e, k) == said[e] # Nothing /\ Key(said[e]) = k
Group(k) == {e \in Engines : InGroup(e, k)}

Points(e, k) == IF InGroup(e, k) THEN RawScore(said[e]) ELSE 0
Top(k) ==
    LET s == Points(Shazam, k)  a == Points(AudD, k)  r == Points(ACR, k)
    IN  IF s >= a /\ s >= r THEN s ELSE IF a >= r THEN a ELSE r
Total(k) == Points(Shazam, k) + Points(AudD, k) + Points(ACR, k)
Size(k) ==
    Weight(InGroup(Shazam, k), 1) + Weight(InGroup(AudD, k), 1) + Weight(InGroup(ACR, k), 1)

\* Of the candidates of a group with the highest score, the first.
Winner(k) ==
    CHOOSE e \in Group(k) :
        /\ Points(e, k) = Top(k)
        /\ \A d \in Group(k) : d < e => Points(d, k) < Top(k)

\* The highest score, 0.3 of the average and 0.15 for each engine that agrees, at
\* most 1. The mutant gives no bonus for the second engine.
WorthNoPair(top, total, size) ==
    LET score == 60 * top + (18 * total) \div size + 180 * Weight(size > 2, 2)
    IN  IF score > 1200 THEN 1200 ELSE score

Worth(top, total, size) ==
    LET score == 60 * top + (18 * total) \div size + 180 * (size - 1)
    IN  IF score > 1200 THEN 1200 ELSE score

FinalScore(k) == Worth(Top(k), Total(k), Size(k))

\* defaultShortCircuitScore and defaultMinAcceptScore.
ShortCircuit == 18
MinAccept == 840

----------------------------------------------------------------------------
NoBest == [score |-> -1, engine |-> 0]

Init ==
    /\ \E env \in Environments :
          IF Valid(env) THEN wired = Wired(env) /\ pc = "asking"
                        ELSE wired = {} /\ pc = "refused"
    /\ turn = 0
    /\ expired = FALSE
    /\ said = [e \in Engines |-> Nothing]
    /\ visited = {}
    /\ best = NoBest
    /\ answer = 0

Ahead == {e \in wired : e > turn}
Upcoming(e) == e \in Ahead /\ \A d \in Ahead : e <= d

\* Identify asks the next engine in the list.
Ask(e) ==
    /\ pc = "asking" /\ Upcoming(e) /\ ~expired
    /\ turn' = e
    /\ pc' = "waiting"
    /\ UNCHANGED <<wired, expired, said, visited, best, answer>>

\* The request's time is up: the engine is not started, or fails at once.
AskInVain(e) ==
    /\ pc = "asking" /\ Upcoming(e) /\ expired
    /\ turn' = e
    /\ UNCHANGED <<wired, pc, expired, said, visited, best, answer>>

\* An engine answers with a candidate that decides alone, or is collected.
Answers(c) ==
    /\ pc = "waiting" /\ c \in Candidates(turn)
    /\ said' = [said EXCEPT ![turn] = c]
    /\ IF RawScore(c) >= ShortCircuit THEN pc' = "done" /\ answer' = turn
                                      ELSE pc' = "asking" /\ answer' = answer
    /\ UNCHANGED <<wired, turn, expired, visited, best>>

\* An engine knows nothing, or fails.
Misses ==
    /\ pc = "waiting"
    /\ pc' = "asking"
    /\ UNCHANGED <<wired, turn, expired, said, visited, best, answer>>

\* The engine's own deadline or the request's ends the wait. ACR's client takes no
\* context: its answer comes later, to a channel that nobody reads. The mutant
\* waits for it.
TimesOutButACR ==
    /\ pc = "waiting" /\ turn # ACR
    /\ pc' = "asking"
    /\ UNCHANGED <<wired, turn, expired, said, visited, best, answer>>

TimesOut ==
    /\ pc = "waiting"
    /\ pc' = "asking"
    /\ UNCHANGED <<wired, turn, expired, said, visited, best, answer>>

\* The deadline of workCtx passes, or the bot is told to stop.
Expire ==
    /\ pc \in {"asking", "waiting"} /\ ~expired
    /\ expired' = TRUE
    /\ UNCHANGED <<wired, pc, turn, said, visited, best, answer>>

\* All engines have been asked; the choice looks at one more group. The order is
\* that of a Go map. The mutant takes the group it sees last.
VisitKeepsLast(k) ==
    /\ pc = "asking" /\ Ahead = {} /\ k \in Keys \ visited
    /\ visited' = visited \cup {k}
    /\ best' = [score |-> FinalScore(k), engine |-> Winner(k)]
    /\ UNCHANGED <<wired, pc, turn, expired, said, answer>>

Visit(k) ==
    /\ pc = "asking" /\ Ahead = {} /\ k \in Keys \ visited
    /\ visited' = visited \cup {k}
    /\ best' = IF FinalScore(k) > best.score
               THEN [score |-> FinalScore(k), engine |-> Winner(k)] ELSE best
    /\ UNCHANGED <<wired, pc, turn, expired, said, answer>>

\* Identify returns the best candidate if it is good enough. The mutant asks the
\* candidate itself to be.
DecideByRawScore ==
    /\ pc = "asking" /\ Ahead = {} /\ visited = Keys
    /\ pc' = "done"
    /\ answer' = IF best.engine # 0 /\ 60 * RawScore(said[best.engine]) >= MinAccept
                 THEN best.engine ELSE 0
    /\ UNCHANGED <<wired, turn, expired, said, visited, best>>

Decide ==
    /\ pc = "asking" /\ Ahead = {} /\ visited = Keys
    /\ pc' = "done"
    /\ answer' = IF best.score >= MinAccept THEN best.engine ELSE 0
    /\ UNCHANGED <<wired, turn, expired, said, visited, best>>

\* What the program does without any help from the services: timers fire.
Advance ==
    \/ \E e \in Engines : Ask(e) \/ AskInVain(e)
    \/ TimesOut
    \/ \E k \in Keys : Visit(k)
    \/ Decide

Next ==
    \/ Advance
    \/ Misses
    \/ Expire
    \/ \E c \in Candidates(turn) : Answers(c)

Spec == Init /\ [][Next]_vars
FairSpec == Spec /\ WF_vars(Advance)

----------------------------------------------------------------------------
Ends == {"refused", "done"}

\* Every variable keeps its type; a bot that started has an engine, and only the
\* engines that it has answer.
TypeOK ==
    /\ wired \subseteq Engines
    /\ pc \in {"asking", "waiting"} \cup Ends
    /\ pc # "refused" => wired # {}
    /\ turn \in wired \cup {0}
    /\ expired \in BOOLEAN
    /\ said \in [Engines -> Candidates(ACR) \cup {Nothing}]
    /\ \A e \in Engines : said[e] \in Candidates(e) \cup {Nothing}
    /\ \A e \in Engines : said[e] # Nothing => e \in wired /\ e <= turn
    /\ visited \subseteq Keys
    /\ best \in [score : -1..1200, engine : Engines \cup {0}]
    /\ answer \in wired \cup {0}

Strong(e) == said[e] # Nothing /\ RawScore(said[e]) >= ShortCircuit

\* Whatever the order of the map, Identify asks every engine and returns a candidate
\* exactly if some group is good enough, and then the strongest of a group that none
\* surpasses; unless one candidate was strong enough to decide alone.
BestOfBestGroup ==
    pc = "done" =>
        IF \E e \in Engines : Strong(e) THEN answer # 0 /\ Strong(answer)
        ELSE /\ Ahead = {}
             /\ answer # 0 <=> \E k \in Keys : FinalScore(k) >= MinAccept
             /\ answer # 0 =>
                    /\ said[answer] # Nothing
                    /\ \A k \in Keys : FinalScore(k) <= FinalScore(Key(said[answer]))
                    /\ \A e \in Group(Key(said[answer])) :
                           RawScore(said[e]) <= RawScore(said[answer])

\* A candidate that names title and artist, and a title that gives nothing away.
Plain(e) ==
    /\ said[e] # Nothing
    /\ said[e].title # Blank /\ said[e].artist # Blank
    /\ ~Mentions(said[e].title, Unknown) /\ ~Mentions(said[e].title, Original)

\* One engine that names a title and an artist is enough for an answer, whatever
\* the others say, miss or time out.
PlainAnswerAccepted ==
    pc = "done" /\ (\E e \in Engines : Plain(e)) => answer # 0

\* Two engines that name the same words are not outvoted by a third one that
\* knows no duration. With a duration the third may outvote them.
AgreementDecides ==
    \A e, d, other \in Engines :
        /\ pc = "done" /\ e # d /\ other \notin {e, d}
        /\ Plain(e) /\ Plain(d) /\ Key(said[e]) = Key(said[d])
        /\ said[other] = Nothing \/ ~said[other].duration
        => answer # 0 /\ Key(said[answer]) = Key(said[e])

\* An engine that agrees, however weakly, never lowers what its group is worth.
AgreementHelps ==
    [][\A k \in Keys : FinalScore(k)' >= FinalScore(k)]_said

\* Identify returns although no engine ever answers: each wait has a deadline.
IdentifyReturns == pc # "refused" ~> pc = "done"

\* How many steps Identify has left at most: two for each engine to come with its
\* answer, one for each answer whose group was not looked at, and the choice.
Unseen(e) == Weight(said[e] # Nothing /\ Key(said[e]) \notin visited, 1)

StepsLeft ==
    IF pc \in Ends THEN 0
    ELSE 4 * (ACR - turn) + Weight(pc = "waiting", 2)
         + Unseen(Shazam) + Unseen(AudD) + Unseen(ACR) + 1

\* Every step but the deadline's own brings Identify closer to its end: no engine is
\* asked twice and no group is looked at twice, whatever comes back.
Forward ==
    /\ [](StepsLeft \in Nat)
    /\ [][StepsLeft' < StepsLeft \/ Expire]_vars

\* README.md:8 says that consensus scoring picks the best match: a candidate is
\* preferred to one with a higher score of its own only if another engine names
\* the same title and artist.
ConsensusReal ==
    \A e \in Engines :
        pc = "done" /\ answer # 0 /\ said[e] # Nothing
            /\ RawScore(said[e]) > RawScore(said[answer]) =>
            \E d \in Engines \ {answer} :
                /\ said[d] # Nothing
                /\ said[d].title = said[answer].title
                /\ said[d].artist = said[answer].artist
=============================================================================
