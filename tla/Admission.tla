----------------------------- MODULE Admission -----------------------------
(***************************************************************************)
(* How a media request enters and leaves the bot:                          *)
(* internal/adapter/telegram/admission.go, worker.go and processor.go, the *)
(* leases they keep in SQLite and the janitor of internal/app/app.go.      *)
(*                                                                         *)
(* Each request is a goroutine: TryAdmit (rate limit, then the lease on    *)
(* the URL, then a slot in the admission queue, rolled back when there is  *)
(* none), then runMediaJob (wait for a worker, work, and the deferred      *)
(* releases in reverse order: worker, queue slot, lease). The queue and    *)
(* the worker pool are channels and die with the process; the lease rows   *)
(* survive it. Nothing renews a lease while its job runs.                  *)
(***************************************************************************)
EXTENDS Leases, FiniteSets

CONSTANTS
    Workers,     \* WORKER_COUNT
    QueueLimit,  \* QUEUE_LIMIT
    Horizon,     \* bound: no request arrives after this clock value
    MaxNow,      \* bound: the clock stops here, when the last lease is over
    MaxCrashes   \* bound: how often the process dies

\* config.go refuses counts that are not positive.
ASSUME WorkersAssumption == Workers \in Nat \ {0}
ASSUME QueueLimitAssumption == QueueLimit \in Nat \ {0}
ASSUME BoundsAssumption ==
    /\ Horizon \in Nat
    /\ MaxCrashes \in Nat
    /\ MaxNow = Horizon + LeaseTTL

\* One request is one admission attempt, and its owner string is its own.
Requests == Owners

VARIABLES
    now,        \* the wall clock
    lease,      \* the table request_leases
    phase,      \* where each request's goroutine is
    key,        \* the lease key of each request
    stamp,      \* the clock as Acquire read it, for each request
    heldQueue,  \* permit.heldQueue
    queueLen,   \* len(admission.queue)
    slots,      \* len(workers.slots)
    janitor,    \* {} or {t}: DeleteExpired has read t and not run yet
    crashes     \* how often the process has died

mem == <<heldQueue, queueLen, slots>>
env == <<now, janitor, crashes>>
vars == <<now, lease, phase, key, stamp, heldQueue, queueLen, slots, janitor, crashes>>

\* TryAdmit, the job, Permit.Release, and how it ended.
Admitting == {"acquiring", "leased"}
Inside == {"admitted", "waiting", "working"}
Leaving == {"releasing", "unqueued"}
Over == {"refused", "done", "orphaned", "lost"}
InFlight == Admitting \cup Inside \cup Leaving
Phases == {"new"} \cup InFlight \cup Over

\* The phases in which a request counts on its lease.
Leased == {"leased", "releasing", "unqueued"} \cup Inside

At(ps) == {r \in Requests : phase[r] \in ps}
Goto(r, p) == phase' = [phase EXCEPT ![r] = p]

QueueCap == Workers + QueueLimit
LeaseEnd(r) == stamp[r] + LeaseTTL

----------------------------------------------------------------------------
Init ==
    /\ now = 0
    /\ lease = [k \in Keys |-> NoRow]
    /\ phase = [r \in Requests |-> "new"]
    /\ key \in [Requests -> Keys]
    /\ stamp = [r \in Requests |-> 0]
    /\ heldQueue = [r \in Requests |-> FALSE]
    /\ queueLen = 0
    /\ slots = 0
    /\ janitor = {}
    /\ crashes = 0

\* The rate limiter refuses the request, or fails.
Limited(r) ==
    /\ phase[r] = "new"
    /\ Goto(r, "refused")
    /\ UNCHANGED <<env, mem, lease, key, stamp>>

\* The rate limiter grants the request; Acquire reads the clock.
StartAcquire(r) ==
    /\ phase[r] = "new"
    /\ now <= Horizon
    /\ stamp' = [stamp EXCEPT ![r] = now]
    /\ Goto(r, "acquiring")
    /\ UNCHANGED <<env, mem, lease, key>>

\* The upsert of Acquire. The mutant overwrites a row whatever its expiry.
AcquireAnyway(r) ==
    /\ phase[r] = "acquiring"
    /\ lease' = [lease EXCEPT ![key[r]] = Acquired(r, stamp[r])]
    /\ Goto(r, "leased")
    /\ UNCHANGED <<env, mem, key, stamp>>

AcquireLease(r) ==
    /\ phase[r] = "acquiring"
    /\ CanAcquire(lease[key[r]], stamp[r])
    /\ lease' = [lease EXCEPT ![key[r]] = Acquired(r, stamp[r])]
    /\ Goto(r, "leased")
    /\ UNCHANGED <<env, mem, key, stamp>>

\* ErrLeaseHeld.
LeaseHeld(r) ==
    /\ phase[r] = "acquiring"
    /\ ~CanAcquire(lease[key[r]], stamp[r])
    /\ Goto(r, "refused")
    /\ UNCHANGED <<env, mem, lease, key, stamp>>

\* The statement fails, or the handler's context ends.
AcquireFails(r) ==
    /\ phase[r] = "acquiring"
    /\ Goto(r, "refused")
    /\ UNCHANGED <<env, mem, lease, key, stamp>>

\* The select of TryAdmit: push without blocking, or roll the permit back.
\* The mutants push past the capacity, and forget to roll back.
EnterQueueOverfull(r) ==
    /\ phase[r] = "leased"
    /\ queueLen <= QueueCap
    /\ queueLen' = queueLen + 1
    /\ heldQueue' = [heldQueue EXCEPT ![r] = TRUE]
    /\ Goto(r, "admitted")
    /\ UNCHANGED <<env, lease, key, stamp, slots>>

EnterQueue(r) ==
    /\ phase[r] = "leased"
    /\ queueLen < QueueCap
    /\ queueLen' = queueLen + 1
    /\ heldQueue' = [heldQueue EXCEPT ![r] = TRUE]
    /\ Goto(r, "admitted")
    /\ UNCHANGED <<env, lease, key, stamp, slots>>

QueueFullKeepsLease(r) ==
    /\ phase[r] = "leased"
    /\ queueLen = QueueCap
    /\ Goto(r, "refused")
    /\ UNCHANGED <<env, mem, lease, key, stamp>>

QueueFull(r) ==
    /\ phase[r] = "leased"
    /\ queueLen = QueueCap
    /\ Goto(r, "releasing")
    /\ UNCHANGED <<env, mem, lease, key, stamp>>

\* handleMessage goes on to submitMediaJob, and runMediaJob to the worker pool.
SubmitJob(r) ==
    /\ phase[r] = "admitted"
    /\ Goto(r, "waiting")
    /\ UNCHANGED <<env, mem, lease, key, stamp>>

\* workers.Acquire: a send that blocks while every worker is taken.
AcquireWorker(r) ==
    /\ phase[r] = "waiting"
    /\ slots < Workers
    /\ slots' = slots + 1
    /\ Goto(r, "working")
    /\ UNCHANGED <<env, lease, key, stamp, heldQueue, queueLen>>

\* The job ends, delivered or failed; the deferred releaseWorker runs. The
\* mutant returns without it.
FinishKeepsWorker(r) ==
    /\ phase[r] = "working"
    /\ Goto(r, "releasing")
    /\ UNCHANGED <<env, mem, lease, key, stamp>>

FinishWork(r) ==
    /\ phase[r] = "working"
    /\ slots' = slots - 1
    /\ Goto(r, "releasing")
    /\ UNCHANGED <<env, lease, key, stamp, heldQueue, queueLen>>

\* Permit.Release, first half: receive from the queue if a slot is held. The
\* mutant receives without looking.
LeaveQueueUnchecked(r) ==
    /\ phase[r] = "releasing"
    /\ queueLen > 0
    /\ queueLen' = queueLen - 1
    /\ heldQueue' = [heldQueue EXCEPT ![r] = FALSE]
    /\ Goto(r, "unqueued")
    /\ UNCHANGED <<env, lease, key, stamp, slots>>

LeaveQueue(r) ==
    /\ phase[r] = "releasing"
    /\ heldQueue[r] => queueLen > 0
    /\ queueLen' = IF heldQueue[r] THEN queueLen - 1 ELSE queueLen
    /\ heldQueue' = [heldQueue EXCEPT ![r] = FALSE]
    /\ Goto(r, "unqueued")
    /\ UNCHANGED <<env, lease, key, stamp, slots>>

\* Permit.Release, second half: delete the lease row, if it is still ours.
ReleaseLease(r) ==
    /\ phase[r] = "unqueued"
    /\ lease' = Released(lease, key[r], r)
    /\ Goto(r, "done")
    /\ UNCHANGED <<env, mem, key, stamp>>

\* The error of leases.Release is dropped: the row stays until it expires.
ReleaseLeaseFails(r) ==
    /\ phase[r] = "unqueued"
    /\ Goto(r, "orphaned")
    /\ UNCHANGED <<env, mem, lease, key, stamp>>

----------------------------------------------------------------------------
\* The janitor: DeleteExpired reads the clock and runs its statement later. The
\* mutant compares every time with the clock of the first start.
JanitorReadsOnce ==
    /\ janitor = {}
    /\ janitor' = {0}
    /\ UNCHANGED <<now, crashes, mem, lease, phase, key, stamp>>

JanitorReads ==
    /\ janitor = {}
    /\ janitor' = {now}
    /\ UNCHANGED <<now, crashes, mem, lease, phase, key, stamp>>

JanitorPurges ==
    /\ \E t \in janitor : lease' = Purged(lease, t)
    /\ janitor' = {}
    /\ UNCHANGED <<now, crashes, mem, phase, key, stamp>>

\* An error of DeleteExpired is logged: the rows stay until the ticker's next turn.
PurgeFails ==
    /\ janitor # {}
    /\ janitor' = {}
    /\ UNCHANGED <<now, crashes, mem, lease, phase, key, stamp>>

\* The process dies and is started again: the channels are empty, no request
\* in flight is finished, the lease rows are what they were.
Crash ==
    /\ crashes < MaxCrashes
    /\ crashes' = crashes + 1
    /\ phase' = [r \in Requests |-> IF phase[r] \in InFlight THEN "lost" ELSE phase[r]]
    /\ heldQueue' = [r \in Requests |-> FALSE]
    /\ queueLen' = 0
    /\ slots' = 0
    /\ janitor' = {}
    /\ UNCHANGED <<now, lease, key, stamp>>

Tick ==
    /\ now < MaxNow
    /\ now' = now + 1
    /\ UNCHANGED <<janitor, crashes, mem, lease, phase, key, stamp>>

Step(r) ==
    \/ AcquireLease(r) \/ LeaseHeld(r)
    \/ EnterQueue(r) \/ QueueFull(r)
    \/ SubmitJob(r) \/ AcquireWorker(r) \/ FinishWork(r)
    \/ LeaveQueue(r) \/ ReleaseLease(r)

Next ==
    \/ \E r \in Requests :
          \/ Limited(r) \/ StartAcquire(r)
          \/ Step(r)
          \/ AcquireFails(r) \/ ReleaseLeaseFails(r)
    \/ JanitorReads \/ JanitorPurges \/ PurgeFails
    \/ Crash
    \/ Tick

Spec == Init /\ [][Next]_vars

\* Go runs every goroutine that can run, a job is bounded by its timeouts, the
\* ticker wakes the janitor, not every purge fails, and time passes. No arrival,
\* other error or crash is owed.
Fairness ==
    /\ \A r \in Requests : WF_vars(Step(r))
    /\ WF_vars(JanitorReads)
    /\ SF_vars(JanitorPurges)
    /\ WF_vars(Tick)

FairSpec == Spec /\ Fairness
----------------------------------------------------------------------------
\* Every variable keeps its type; expiries are those of some Acquire.
TypeOK ==
    /\ now \in 0..MaxNow
    /\ lease \in [Keys -> Rows]
    /\ phase \in [Requests -> Phases]
    /\ key \in [Requests -> Keys]
    /\ stamp \in [Requests -> 0..Horizon]
    /\ heldQueue \in [Requests -> BOOLEAN]
    /\ queueLen \in 0..QueueCap
    /\ slots \in 0..Workers
    /\ janitor \in SUBSET (0..MaxNow)
    /\ crashes \in 0..MaxCrashes

\* The admission queue holds one token for each permit that says so, which only
\* an admitted job does until its release, and the pool has a slot taken for each
\* job that works: no roll-back, error or second release takes another's token.
Accounting ==
    /\ queueLen = Cardinality({r \in Requests : heldQueue[r]})
    /\ \A r \in Requests :
          /\ phase[r] \in Inside => heldQueue[r]
          /\ heldQueue[r] => phase[r] \in Inside \cup {"releasing"}
    /\ slots = Cardinality(At({"working"}))

\* While every worker is busy at most QUEUE_LIMIT admitted requests wait for
\* one, although queue and pool are two channels that are never locked together.
WaitingBounded ==
    slots = Workers => Cardinality(At({"admitted", "waiting"})) <= QueueLimit

\* Until its lease ends, a request that holds a permit finds its own row in
\* request_leases: no other request, late statement, janitor or restart takes it.
LeaseProtected ==
    \A r \in At(Leased) :
        now < LeaseEnd(r) =>
            lease[key[r]] = [owner |-> r, expires |-> LeaseEnd(r)]

\* So two requests on one URL run together only when a lease has run out, which
\* nothing renews.
OneLivePerKey ==
    \A r, s \in At(Leased) :
        r # s /\ key[r] = key[s] => now >= LeaseEnd(r) \/ now >= LeaseEnd(s)

\* A row belongs to a request that still has to release it, or to one that
\* could not: its process died or its DELETE failed. Every refusal and every
\* end of a job gives the URL back.
NoLeaseLeaked ==
    \A k \in Keys :
        LET o == lease[k].owner IN
        o # Nobody => key[o] = k /\ phase[o] \in Leased \cup {"orphaned", "lost"}

\* A row that has not expired is removed or replaced only by its owner's own
\* release, even when the owner died with an earlier process.
OnlyOwnerEndsLease ==
    [][\A k \in Keys :
          LET o == lease[k].owner IN
          o # Nobody /\ now < lease[k].expires /\ lease'[k] # lease[k] =>
              phase[o] = "unqueued" /\ phase'[o] = "done"]_vars

\* The queue, the leases and the crashes together keep the promise of the gate.
Gate == INSTANCE AdmissionGate WITH
    Capacity <- QueueCap,
    inside <- {r \in Requests : heldQueue[r]},
    ends <- [r \in Requests |-> IF heldQueue[r] THEN LeaseEnd(r) ELSE 0]
GatePromise == Gate!Spec

\* For the pool a request waits, works or will not come any more.
Pool == INSTANCE WorkerPool WITH
    Jobs <- Requests, Capacity <- Workers,
    waiting <- At({"waiting"}), working <- At({"working"}), over <- At(Leaving \cup Over)
PoolPromise == Pool!Spec

\* Every request that starts to be admitted is answered: it is refused, runs to
\* the end and gives back what it holds, or is lost with its process.
EveryRequestEnds ==
    \A r \in Requests : phase[r] \in InFlight ~> phase[r] \in Over

\* A URL is never blocked for good: whoever holds it, dead or alive, the row
\* goes away, by its owner's release or by the janitor after LEASE_TTL, even if
\* purges fail again and again in between.
EveryLeaseEnds ==
    \A k \in Keys, r \in Requests : lease[k].owner = r ~> lease[k].owner # r

\* What a request may have to wait for: room in a channel, or a token in it.
Blocked(r) ==
    \/ phase[r] = "leased" /\ ~(queueLen <= QueueCap)
    \/ phase[r] = "waiting" /\ ~(slots < Workers)
    \/ phase[r] = "releasing" /\ heldQueue[r] /\ ~(queueLen > 0)

\* Nobody waits for nothing: no send or receive of an admission or a release ever
\* blocks, and who waits for a worker waits for a job that runs.
NoDeadlock ==
    \A r \in At(InFlight) :
        Blocked(r) => phase[r] = "waiting" /\ At({"working"}) # {}

\* How many steps a request has left at most.
StepsLeft(r) ==
    CASE phase[r] = "new" -> 8
      [] phase[r] = "acquiring" -> 7
      [] phase[r] = "leased" -> 6
      [] phase[r] = "admitted" -> 5
      [] phase[r] = "waiting" -> 4
      [] phase[r] = "working" -> 3
      [] phase[r] = "releasing" -> 2
      [] phase[r] = "unqueued" -> 1
      [] OTHER -> 0

\* Each step of a request brings it closer to its end, and no step of another one, of
\* the janitor or of a crash takes it back: a request is never admitted twice.
Forward ==
    /\ [](\A r \in Requests : StepsLeft(r) \in Nat)
    /\ [][\A r \in Requests :
          /\ StepsLeft(r)' <= StepsLeft(r)
          /\ \/ Limited(r) \/ StartAcquire(r) \/ Step(r)
             \/ AcquireFails(r) \/ ReleaseLeaseFails(r)
             => StepsLeft(r)' < StepsLeft(r)]_vars

\* No URL is blocked for longer than LEASE_TTL from now on, even if the janitor never
\* runs again and the process that holds the row is dead.
FreeAgain == \A k \in Keys : CanAcquire(lease[k], now + LeaseTTL)
=============================================================================
