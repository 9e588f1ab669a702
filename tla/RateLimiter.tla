---------------------------- MODULE RateLimiter ----------------------------
(***************************************************************************)
(* The per-user request budget of internal/storage/sqlite/rate_limit.go.   *)
(*                                                                         *)
(* Every update handler runs in a goroutine of its own and calls Allow.    *)
(* A call reads the wall clock first and runs its UPSERT later, when the   *)
(* pool's single connection is free, so that the time the statement        *)
(* compares may be older than the statement: calls commit in any order.    *)
(* A busy database makes the call back off and read the clock again.       *)
(***************************************************************************)
EXTENDS Integers

CONSTANTS
    Users,        \* Telegram users
    Calls,        \* handlers, each running one call of Allow at a time
    Limit,        \* RATE_LIMIT
    Window,       \* RATE_WINDOW, in clock ticks
    MaxAttempts,  \* the 32 attempts of the retry loop
    MaxLag,       \* bound: ticks a statement may wait for the connection
    MaxNow        \* bound: the clock stops here

\* config.go refuses a limit or a window that is not positive.
ASSUME LimitAssumption == Limit \in Nat \ {0}
ASSUME WindowAssumption == Window \in Nat \ {0}
ASSUME AttemptsAssumption == MaxAttempts \in Nat \ {0}
ASSUME BoundsAssumption == MaxLag \in Nat /\ MaxNow \in Nat

VARIABLES
    now,        \* the wall clock
    rows,       \* the table rate_limits; count 0 stands for no row
    phase,      \* where each call is, or that its last one was denied
    caller,     \* the user each call is about
    stamp,      \* the clock as allowOnce read it
    attempt,    \* the loop variable of Allow
    opened,     \* history: windows opened, per user
    total       \* history: calls of a user answered true up to a clock value

vars == <<now, rows, phase, caller, stamp, attempt, opened, total>>

Times == 0..MaxNow
Answered == {"idle", "denied"}
InFlight == {"stamped", "backoff"}
NoRow == [started |-> 0, count |-> 0]

Row(c) == rows[caller[c]]

----------------------------------------------------------------------------
\* The UPSERT: a row whose window is over starts a new one, a row with budget
\* left is charged, any other row is left alone and no row is affected.

\* Mutants of WindowOver: the window is a tick too long, or too short.
WindowOverTooLate(row, t) == row.count = 0 \/ t > row.started + Window
WindowOverTooSoon(row, t) == row.count = 0 \/ t + 1 >= row.started + Window

WindowOver(row, t) == row.count = 0 \/ t >= row.started + Window

\* Mutant: one request over the limit.
AdmitsOneMore(row, t) == WindowOver(row, t) \/ row.count <= Limit

Admits(row, t) == WindowOver(row, t) \/ row.count < Limit

Charged(row, t) ==
    IF WindowOver(row, t) THEN [started |-> t, count |-> 1]
                          ELSE [row EXCEPT !.count = @ + 1]

----------------------------------------------------------------------------
Init ==
    /\ now = 0
    /\ rows = [u \in Users |-> NoRow]
    /\ phase = [c \in Calls |-> "idle"]
    /\ caller \in [Calls -> Users]
    /\ stamp = [c \in Calls |-> 0]
    /\ attempt = [c \in Calls |-> 0]
    /\ opened = [u \in Users |-> 0]
    /\ total = [u \in Users |-> [t \in Times |-> 0]]

\* A handler calls Allow for user u; allowOnce reads the clock.
Call(c, u) ==
    /\ phase[c] \in Answered
    /\ phase' = [phase EXCEPT ![c] = "stamped"]
    /\ caller' = [caller EXCEPT ![c] = u]
    /\ stamp' = [stamp EXCEPT ![c] = now]
    /\ attempt' = [attempt EXCEPT ![c] = 0]
    /\ UNCHANGED <<now, rows, opened, total>>

\* Allow returns: the call's locals are gone.
Return(c, answer) ==
    /\ phase' = [phase EXCEPT ![c] = answer]
    /\ stamp' = [stamp EXCEPT ![c] = 0]
    /\ attempt' = [attempt EXCEPT ![c] = 0]

\* The statement affects one row: the call is granted.
Grant(c) ==
    LET u == caller[c] IN
    /\ phase[c] = "stamped"
    /\ Admits(Row(c), stamp[c])
    /\ rows' = [rows EXCEPT ![u] = Charged(@, stamp[c])]
    /\ Return(c, "idle")
    /\ opened' = IF WindowOver(Row(c), stamp[c])
                 THEN [opened EXCEPT ![u] = @ + 1] ELSE opened
    /\ total' = [total EXCEPT ![u] = [t \in Times |-> IF t >= now THEN @[t] + 1 ELSE @[t]]]
    /\ UNCHANGED <<now, caller>>

\* The statement's WHERE is false: no row is affected.
Deny(c) ==
    /\ phase[c] = "stamped"
    /\ ~Admits(Row(c), stamp[c])
    /\ Return(c, "denied")
    /\ UNCHANGED <<now, rows, caller, opened, total>>

\* SQLITE_BUSY: the statement had no effect; wait and try again. The mutant
\* charges the budget nevertheless.
BusyChargesRow(c) ==
    /\ phase[c] = "stamped"
    /\ attempt[c] + 1 < MaxAttempts
    /\ Admits(Row(c), stamp[c])
    /\ rows' = [rows EXCEPT ![caller[c]] = Charged(@, stamp[c])]
    /\ phase' = [phase EXCEPT ![c] = "backoff"]
    /\ attempt' = [attempt EXCEPT ![c] = @ + 1]
    /\ UNCHANGED <<now, caller, stamp, opened, total>>

Busy(c) ==
    /\ phase[c] = "stamped"
    /\ attempt[c] + 1 < MaxAttempts
    /\ phase' = [phase EXCEPT ![c] = "backoff"]
    /\ attempt' = [attempt EXCEPT ![c] = @ + 1]
    /\ UNCHANGED <<now, rows, caller, stamp, opened, total>>

\* The timer of the back-off fires and allowOnce reads the clock again.
Retry(c) ==
    /\ phase[c] = "backoff"
    /\ phase' = [phase EXCEPT ![c] = "stamped"]
    /\ stamp' = [stamp EXCEPT ![c] = now]
    /\ UNCHANGED <<now, rows, caller, attempt, opened, total>>

\* The last attempt is busy too: Allow returns the error.
GiveUp(c) ==
    /\ phase[c] = "stamped"
    /\ attempt[c] + 1 = MaxAttempts
    /\ Return(c, "idle")
    /\ UNCHANGED <<now, rows, caller, opened, total>>

\* Any other database error, or the handler's context ends.
Fail(c) ==
    /\ phase[c] \in InFlight
    /\ Return(c, "idle")
    /\ UNCHANGED <<now, rows, caller, opened, total>>

Tick ==
    /\ now < MaxNow
    /\ \A c \in Calls : phase[c] = "stamped" => now - stamp[c] < MaxLag
    /\ now' = now + 1
    /\ UNCHANGED <<rows, phase, caller, stamp, attempt, opened, total>>

Next ==
    \/ Tick
    \/ \E c \in Calls :
          \/ \E u \in Users : Call(c, u)
          \/ Grant(c) \/ Deny(c) \/ Busy(c) \/ Retry(c) \/ GiveUp(c) \/ Fail(c)

Spec == Init /\ [][Next]_vars

----------------------------------------------------------------------------
\* Every variable keeps its type; a row never counts past the limit.
TypeOK ==
    /\ now \in Times
    /\ rows \in [Users -> [started : Nat, count : 0..Limit]]
    /\ phase \in [Calls -> Answered \cup InFlight]
    /\ caller \in [Calls -> Users]
    /\ stamp \in [Calls -> Nat]
    /\ attempt \in [Calls -> Nat]
    /\ opened \in [Users -> Nat]
    /\ total \in [Users -> [Times -> Nat]]

\* The requests granted to u up to clock value t, in all, and since t.
GrantedUpTo(u, t) == IF t < 0 THEN 0 ELSE total[u][IF t < MaxNow THEN t ELSE MaxNow]
Granted(u) == total[u][MaxNow]
GrantedSince(u, t) == Granted(u) - GrantedUpTo(u, t - 1)

\* Whatever the order in which late statements commit, a user is granted at
\* most Limit requests per Window of elapsed time, and one Limit more.
LongRunBudget ==
    \A u \in Users : Granted(u) <= Limit * (now \div Window + 1)

\* In any Window of consecutive clock values the grants come from at most two
\* fixed windows, so twice the limit, when statements are not delayed; a lag
\* lets statements stamped further apart commit together, and adds to that.
BurstBound ==
    \A u \in Users, t \in Times :
        GrantedUpTo(u, t + Window - 1) - GrantedUpTo(u, t - 1)
            <= Limit * ((Window + MaxLag - 2) \div Window + 2)

\* A request is refused only if Limit requests of the same user were granted
\* less than a Window before the clock that the refused call read, or since.
DenialJustified ==
    [][\A c \in Calls :
          phase[c] = "stamped" /\ phase'[c] = "denied" =>
              GrantedSince(caller[c], stamp[c] - Window + 1) >= Limit]_vars

\* The retry loop charges a request at most once: what the current window
\* has counted was answered true since the window started.
ChargedOnce ==
    \A u \in Users :
        rows[u].count > 0 =>
            rows[u].count <= GrantedSince(u, rows[u].started)
=============================================================================
