------------------------------ MODULE Profiles ------------------------------
(***************************************************************************)
(* What the bot promises of the data it keeps of its users, whatever       *)
(* handlers run at the same time: to each user it looks like one record,   *)
(* opened empty, changed one entry at a time, and erased as a whole by     *)
(* /forget; nobody else's is touched, and nothing is kept of nobody.       *)
(***************************************************************************)
CONSTANTS People, Modes, Tracks, Handlers

VARIABLES
    known,    \* the people who have a profile
    mode,     \* the output mode that each has picked, if any
    liked,    \* the favorites of each
    history,  \* the requests of each, by the handler that took them
    strays    \* what is kept of people who have no profile

data == <<known, mode, liked, history, strays>>

Init ==
    /\ known \subseteq People
    /\ mode \in [People -> {{}} \cup {{m} : m \in Modes}]
    /\ liked \in [People -> SUBSET Tracks]
    /\ history = [p \in People |-> {}]
    /\ \A p \in People \ known : mode[p] = {} /\ liked[p] = {}
    /\ strays = {}

Open(p) ==
    /\ p \notin known
    /\ mode[p] = {} /\ liked[p] = {} /\ history[p] = {}
    /\ known' = known \cup {p}
    /\ UNCHANGED <<mode, liked, history, strays>>

Pick(p, m) ==
    /\ p \in known
    /\ mode' = [mode EXCEPT ![p] = {m}]
    /\ UNCHANGED <<known, liked, history, strays>>

Like(p, t) ==
    /\ p \in known
    /\ liked' = [liked EXCEPT ![p] = @ \cup {t}]
    /\ UNCHANGED <<known, mode, history, strays>>

Unlike(p, t) ==
    /\ p \in known /\ t \in liked[p]
    /\ liked' = [liked EXCEPT ![p] = @ \ {t}]
    /\ UNCHANGED <<known, mode, history, strays>>

Record(p, x) ==
    /\ p \in known
    /\ history' = [history EXCEPT ![p] = @ \cup {x}]
    /\ UNCHANGED <<known, mode, liked, strays>>

Erase(p) ==
    /\ p \in known
    /\ known' = known \ {p}
    /\ mode' = [mode EXCEPT ![p] = {}]
    /\ liked' = [liked EXCEPT ![p] = {}]
    /\ history' = [history EXCEPT ![p] = {}]
    /\ UNCHANGED strays

Next ==
    \E p \in People :
        \/ Open(p) \/ Erase(p)
        \/ \E m \in Modes : Pick(p, m)
        \/ \E t \in Tracks : Like(p, t) \/ Unlike(p, t)
        \/ \E x \in Handlers : Record(p, x)

Spec == Init /\ [][Next]_data
=============================================================================
