-------------------------- MODULE AdmissionProofs --------------------------
(***************************************************************************)
(* Safety of Admission for any number of requests, keys, workers and       *)
(* waiting places. The two channels come first: Base counts the tokens and *)
(* types the state. The leases follow: no clock value that was read lies   *)
(* in the future, so an unexpired row is out of everybody else's reach.    *)
(***************************************************************************)
EXTENDS Admission, CountLemmas

Holders == {r \in Requests : heldQueue[r]}
Working == {r \in Requests : phase[r] = "working"}

\* The counters and the sets they count; the sets are finite because they only
\* ever grow by one request.
QueueInv ==
    /\ IsFiniteSet(Holders)
    /\ queueLen = Cardinality(Holders)
    /\ \A r \in Requests :
          /\ phase[r] \in Inside => heldQueue[r]
          /\ heldQueue[r] => phase[r] \in Inside \cup {"releasing"}

WorkerInv ==
    /\ IsFiniteSet(Working)
    /\ slots = Cardinality(Working)

Base == TypeOK /\ QueueInv /\ WorkerInv

\* A clock value that was read is not in the future.
ClockInv ==
    /\ \A r \in Requests : stamp[r] <= now
    /\ \A t \in janitor : t <= now

IInv == Base /\ ClockInv /\ LeaseProtected /\ NoLeaseLeaked

USE WorkersAssumption, QueueLimitAssumption, BoundsAssumption,
    LeaseTTLAssumption, NobodyAssumption

----------------------------------------------------------------------------
\* The steps of one request leave the phases of the others alone.
LEMMA GotoOther ==
    ASSUME TypeOK, NEW r \in Requests, NEW p \in Phases, Goto(r, p)
    PROVE  /\ phase' \in [Requests -> Phases]
           /\ phase'[r] = p
           /\ \A s \in Requests \ {r} : phase'[s] = phase[s]
BY DEF TypeOK, Goto

\* Base holds initially.
LEMMA BaseInit == Init => Base
<1> SUFFICES ASSUME Init PROVE Base
  OBVIOUS
<1>1. TypeOK
  BY DEF Init, TypeOK, Rows, NoRow, Phases, QueueCap
<1>2. Holders = {} /\ Working = {}
  BY DEF Init, Holders, Working
<1>3. QueueInv /\ WorkerInv
  BY <1>2, FS_EmptySet DEF Init, QueueInv, WorkerInv, Inside
<1>4. QED
  BY <1>1, <1>3 DEF Base

\* A step of one request that touches neither channel keeps both counts.
LEMMA QuietStep ==
    ASSUME Base, NEW r \in Requests, NEW q \in Phases \ {"working"},
           Goto(r, q), UNCHANGED mem, phase[r] # "working",
           q \in Inside => phase[r] \in Inside,
           heldQueue[r] => q \in Inside \cup {"releasing"}
    PROVE  QueueInv' /\ WorkerInv'
<1>1. /\ phase' \in [Requests -> Phases] /\ phase'[r] = q
      /\ \A s \in Requests \ {r} : phase'[s] = phase[s]
  BY GotoOther DEF Base
<1>2. Working' = Working /\ Holders' = Holders
  BY <1>1 DEF Working, Holders, mem
<1>3. QueueInv'
  BY <1>1, <1>2 DEF Base, QueueInv, mem
<1>4. WorkerInv'
  BY <1>2 DEF Base, WorkerInv, mem
<1>5. QED
  BY <1>3, <1>4

\* TypeOK survives every step but those of the counters, which the invariants
\* of the counters keep in range.
LEMMA TypeStep ==
    ASSUME Base, [Next]_vars
    PROVE  TypeOK'
<1> USE DEF Base
<1>1. ASSUME NEW r \in Requests, NEW p \in Phases, Goto(r, p),
             UNCHANGED <<env, mem, key, stamp, lease>>
      PROVE  TypeOK'
  BY <1>1, GotoOther DEF TypeOK, env, mem
<1>2. ASSUME NEW r \in Requests, StartAcquire(r) PROVE TypeOK'
  <2>1. phase' \in [Requests -> Phases]
    BY <1>2, GotoOther DEF StartAcquire, Phases, InFlight, Admitting
  <2>2. stamp' \in [Requests -> 0..Horizon]
    BY <1>2 DEF StartAcquire, TypeOK
  <2>3. QED
    BY <1>2, <2>1, <2>2 DEF StartAcquire, TypeOK, env, mem
<1>3. ASSUME NEW r \in Requests, AcquireLease(r) PROVE TypeOK'
  <2>1. phase' \in [Requests -> Phases]
    BY <1>3, GotoOther DEF AcquireLease, Phases, InFlight, Admitting
  <2>2. Acquired(r, stamp[r]) \in Rows
    BY DEF Acquired, Rows, TypeOK, Requests
  <2>3. lease' \in [Keys -> Rows]
    BY <1>3, <2>2 DEF AcquireLease, TypeOK
  <2>4. QED
    BY <1>3, <2>1, <2>3 DEF AcquireLease, TypeOK, env, mem
<1>4. ASSUME NEW r \in Requests, EnterQueue(r) PROVE TypeOK'
  <2>1. phase' \in [Requests -> Phases]
    BY <1>4, GotoOther DEF EnterQueue, Phases, InFlight, Inside
  <2>2. queueLen' \in 0..QueueCap
    BY <1>4 DEF EnterQueue, TypeOK, QueueCap
  <2>3. QED
    BY <1>4, <2>1, <2>2 DEF EnterQueue, TypeOK, env
<1>5. ASSUME NEW r \in Requests, AcquireWorker(r) PROVE TypeOK'
  <2>1. phase' \in [Requests -> Phases]
    BY <1>5, GotoOther DEF AcquireWorker, Phases, InFlight, Inside
  <2>2. slots' \in 0..Workers
    BY <1>5 DEF AcquireWorker, TypeOK
  <2>3. QED
    BY <1>5, <2>1, <2>2 DEF AcquireWorker, TypeOK, env
<1>6. ASSUME NEW r \in Requests, FinishWork(r) PROVE TypeOK'
  <2>1. phase' \in [Requests -> Phases]
    BY <1>6, GotoOther DEF FinishWork, Phases, InFlight, Leaving
  <2>2. r \in Working
    BY <1>6 DEF FinishWork, Working
  <2>3. slots \in Nat \ {0}
    BY <2>2, CardRemove DEF WorkerInv
  <2>4. slots' \in 0..Workers
    BY <1>6, <2>3 DEF FinishWork, TypeOK
  <2>5. QED
    BY <1>6, <2>1, <2>4 DEF FinishWork, TypeOK, env
<1>7. ASSUME NEW r \in Requests, LeaveQueue(r) PROVE TypeOK'
  <2>1. phase' \in [Requests -> Phases]
    BY <1>7, GotoOther DEF LeaveQueue, Phases, InFlight, Leaving
  <2>2. queueLen' \in 0..QueueCap
    BY <1>7 DEF LeaveQueue, TypeOK, QueueCap
  <2>3. QED
    BY <1>7, <2>1, <2>2 DEF LeaveQueue, TypeOK, env
<1>8. ASSUME NEW r \in Requests, ReleaseLease(r) PROVE TypeOK'
  <2>1. phase' \in [Requests -> Phases]
    BY <1>8, GotoOther DEF ReleaseLease, Phases, Over
  <2>2. lease' \in [Keys -> Rows]
    BY <1>8 DEF ReleaseLease, Released, TypeOK, NoRow, Rows
  <2>3. QED
    BY <1>8, <2>1, <2>2 DEF ReleaseLease, TypeOK, env, mem
<1>9. CASE JanitorReads \/ PurgeFails
  BY <1>9 DEF JanitorReads, PurgeFails, TypeOK, mem
<1>10. CASE JanitorPurges
  <2>1. lease' \in [Keys -> Rows]
    BY <1>10 DEF JanitorPurges, Purged, TypeOK, NoRow, Rows
  <2>2. QED
    BY <1>10, <2>1 DEF JanitorPurges, TypeOK, mem
<1>11. CASE Crash
  <2>1. phase' \in [Requests -> Phases]
    BY <1>11 DEF Crash, TypeOK, Phases, Over
  <2>2. QED
    BY <1>11, <2>1 DEF Crash, TypeOK, QueueCap
<1>12. CASE Tick
  BY <1>12 DEF Tick, TypeOK, mem
<1>13. CASE UNCHANGED vars
  BY <1>13 DEF vars, TypeOK
<1>14. ASSUME NEW r \in Requests,
              \/ Limited(r) \/ LeaseHeld(r) \/ AcquireFails(r) \/ QueueFull(r)
              \/ SubmitJob(r) \/ ReleaseLeaseFails(r)
       PROVE  TypeOK'
  BY <1>1, <1>14 DEF Limited, LeaseHeld, AcquireFails, QueueFull, SubmitJob,
     ReleaseLeaseFails, Phases, InFlight, Inside, Leaving, Over
<1>15. QED
  BY <1>2, <1>3, <1>4, <1>5, <1>6, <1>7, <1>8, <1>9, <1>10, <1>11, <1>12,
     <1>13, <1>14 DEF Next, Step

\* The counters follow the sets they count.
LEMMA CountStep ==
    ASSUME Base, [Next]_vars
    PROVE  QueueInv' /\ WorkerInv'
<1> USE DEF Base
<1>1. ASSUME NEW r \in Requests,
             \/ Limited(r) \/ StartAcquire(r) \/ AcquireLease(r) \/ LeaseHeld(r)
             \/ AcquireFails(r) \/ QueueFull(r) \/ SubmitJob(r)
             \/ ReleaseLease(r) \/ ReleaseLeaseFails(r)
      PROVE  QueueInv' /\ WorkerInv'
  <2>1. PICK q \in Phases \ {"working"} :
           /\ Goto(r, q) /\ UNCHANGED mem /\ phase[r] # "working"
           /\ q \in Inside => phase[r] \in Inside
           /\ phase[r] \in Inside => q \in Inside
           /\ phase[r] # "releasing"
    BY <1>1 DEF Limited, StartAcquire, AcquireLease, LeaseHeld, AcquireFails,
       QueueFull, SubmitJob, ReleaseLease, ReleaseLeaseFails, Phases, InFlight,
       Admitting, Inside, Leaving, Over
  <2>2. heldQueue[r] => q \in Inside \cup {"releasing"}
    BY <2>1 DEF QueueInv
  <2>3. QED
    BY <2>1, <2>2, QuietStep
<1>2. ASSUME NEW r \in Requests, EnterQueue(r) PROVE QueueInv' /\ WorkerInv'
  <2>1. /\ phase' \in [Requests -> Phases] /\ phase'[r] = "admitted"
        /\ \A s \in Requests \ {r} : phase'[s] = phase[s]
    BY <1>2, GotoOther DEF EnterQueue, Phases, InFlight, Inside
  <2>2. r \notin Holders
    BY <1>2 DEF EnterQueue, QueueInv, Holders, Inside
  <2>3. Holders' = Holders \cup {r} /\ Working' = Working
    BY <1>2, <2>1 DEF EnterQueue, Holders, Working, TypeOK
  <2>4. IsFiniteSet(Holders') /\ queueLen' = Cardinality(Holders')
    BY <1>2, <2>2, <2>3, CardAdd DEF EnterQueue, QueueInv
  <2>5. QueueInv'
    BY <1>2, <2>1, <2>4 DEF EnterQueue, QueueInv, Inside, TypeOK
  <2>6. WorkerInv'
    BY <1>2, <2>3 DEF EnterQueue, WorkerInv
  <2>7. QED
    BY <2>5, <2>6
<1>3. ASSUME NEW r \in Requests, AcquireWorker(r) PROVE QueueInv' /\ WorkerInv'
  <2>1. /\ phase' \in [Requests -> Phases] /\ phase'[r] = "working"
        /\ \A s \in Requests \ {r} : phase'[s] = phase[s]
    BY <1>3, GotoOther DEF AcquireWorker, Phases, InFlight, Inside
  <2>2. r \notin Working /\ Working' = Working \cup {r} /\ Holders' = Holders
    BY <1>3, <2>1 DEF AcquireWorker, Holders, Working
  <2>3. WorkerInv'
    BY <1>3, <2>2, CardAdd DEF AcquireWorker, WorkerInv
  <2>4. QueueInv'
    BY <1>3, <2>1, <2>2 DEF AcquireWorker, QueueInv, Inside
  <2>5. QED
    BY <2>3, <2>4
<1>4. ASSUME NEW r \in Requests, FinishWork(r) PROVE QueueInv' /\ WorkerInv'
  <2>1. /\ phase' \in [Requests -> Phases] /\ phase'[r] = "releasing"
        /\ \A s \in Requests \ {r} : phase'[s] = phase[s]
    BY <1>4, GotoOther DEF FinishWork, Phases, InFlight, Leaving
  <2>2. r \in Working /\ Working' = Working \ {r} /\ Holders' = Holders
    BY <1>4, <2>1 DEF FinishWork, Holders, Working
  <2>3. WorkerInv'
    BY <1>4, <2>2, CardRemove DEF FinishWork, WorkerInv
  <2>4. QueueInv'
    BY <1>4, <2>1, <2>2 DEF FinishWork, QueueInv, Inside
  <2>5. QED
    BY <2>3, <2>4
<1>5. ASSUME NEW r \in Requests, LeaveQueue(r) PROVE QueueInv' /\ WorkerInv'
  <2>1. /\ phase' \in [Requests -> Phases] /\ phase'[r] = "unqueued"
        /\ \A s \in Requests \ {r} : phase'[s] = phase[s]
    BY <1>5, GotoOther DEF LeaveQueue, Phases, InFlight, Leaving
  <2>2. Working' = Working /\ Holders' = Holders \ {r}
    BY <1>5, <2>1 DEF LeaveQueue, Holders, Working, TypeOK
  <2>3. IsFiniteSet(Holders') /\ queueLen' = Cardinality(Holders')
    <3>1. CASE heldQueue[r]
      <4>1. r \in Holders
        BY <3>1 DEF Holders
      <4>2. QED
        BY <1>5, <2>2, <3>1, <4>1, CardRemove DEF LeaveQueue, QueueInv
    <3>2. CASE ~heldQueue[r]
      <4>1. Holders' = Holders
        BY <2>2, <3>2 DEF Holders
      <4>2. QED
        BY <1>5, <3>2, <4>1 DEF LeaveQueue, QueueInv
    <3>3. QED
      BY <3>1, <3>2
  <2>4. QueueInv'
    BY <1>5, <2>1, <2>3 DEF LeaveQueue, QueueInv, Inside, TypeOK
  <2>5. WorkerInv'
    BY <1>5, <2>2 DEF LeaveQueue, WorkerInv
  <2>6. QED
    BY <2>4, <2>5
<1>6. CASE Crash
  <2>1. Holders' = {} /\ Working' = {}
    BY <1>6 DEF Crash, Holders, Working, TypeOK, InFlight, Inside
  <2>2. QED
    BY <1>6, <2>1, FS_EmptySet DEF Crash, QueueInv, WorkerInv, TypeOK, InFlight, Inside
<1>7. CASE JanitorReads \/ PurgeFails \/ JanitorPurges \/ Tick \/ UNCHANGED vars
  <2>1. Holders' = Holders /\ Working' = Working /\ UNCHANGED <<mem, phase>>
    BY <1>7 DEF JanitorReads, PurgeFails, JanitorPurges, Tick, vars, mem, Holders, Working
  <2>2. QED
    BY <2>1 DEF QueueInv, WorkerInv, mem
<1>8. QED
  BY <1>1, <1>2, <1>3, <1>4, <1>5, <1>6, <1>7 DEF Next, Step

\* Base is an invariant.
THEOREM BaseInvariant == Spec => []Base
<1>1. Init => Base
  BY BaseInit
<1>2. Base /\ [Next]_vars => Base'
  BY TypeStep, CountStep DEF Base
<1>3. QED
  BY <1>1, <1>2, PTL DEF Spec

----------------------------------------------------------------------------
\* Time only moves forward and is only read as it is.
LEMMA ClockStep ==
    ASSUME Base, ClockInv, [Next]_vars
    PROVE  ClockInv'
<1> USE DEF Base, TypeOK, ClockInv
<1>1. ASSUME NEW r \in Requests, StartAcquire(r) PROVE ClockInv'
  BY <1>1 DEF StartAcquire, env
<1>2. ASSUME NEW r \in Requests,
             \/ Limited(r) \/ Step(r) \/ AcquireFails(r) \/ ReleaseLeaseFails(r)
      PROVE  ClockInv'
  <2>1. UNCHANGED <<env, stamp>>
    BY <1>2 DEF Limited, Step, AcquireFails, ReleaseLeaseFails, AcquireLease,
       LeaseHeld, EnterQueue, QueueFull, SubmitJob, AcquireWorker, FinishWork,
       LeaveQueue, ReleaseLease
  <2>2. QED
    BY <2>1 DEF env
<1>3. CASE JanitorReads \/ PurgeFails \/ JanitorPurges \/ Crash
  BY <1>3 DEF JanitorReads, PurgeFails, JanitorPurges, Crash
<1>4. CASE Tick
  BY <1>4 DEF Tick
<1>5. CASE UNCHANGED vars
  BY <1>5 DEF vars
<1>6. QED
  BY <1>1, <1>2, <1>3, <1>4, <1>5 DEF Next

\* Requests move into Leased only by AcquireLease.
LEMMA LeasedOnlyByAcquire ==
    ASSUME Base, [Next]_vars, NEW s \in Requests, s \in At(Leased)',
           s \notin At(Leased)
    PROVE  AcquireLease(s)
<1> USE DEF Base, TypeOK, At, Leased, Inside
<1>1. ASSUME NEW r \in Requests, ~AcquireLease(r),
             \/ Limited(r) \/ StartAcquire(r) \/ Step(r) \/ AcquireFails(r)
             \/ ReleaseLeaseFails(r)
      PROVE  FALSE
  <2>1. phase'[s] # phase[s] => r = s
    BY <1>1 DEF Limited, StartAcquire, Step, AcquireFails, ReleaseLeaseFails,
       LeaseHeld, EnterQueue, QueueFull, SubmitJob, AcquireWorker, FinishWork,
       LeaveQueue, ReleaseLease, Goto
  <2>2. QED
    BY <1>1, <2>1 DEF Limited, StartAcquire, Step, AcquireFails, ReleaseLeaseFails,
       LeaseHeld, EnterQueue, QueueFull, SubmitJob, AcquireWorker, FinishWork,
       LeaveQueue, ReleaseLease, Goto
<1>2. ASSUME NEW r \in Requests, AcquireLease(r), r # s PROVE FALSE
  BY <1>2 DEF AcquireLease, Goto
<1>3. CASE JanitorReads \/ PurgeFails \/ JanitorPurges \/ Crash \/ Tick \/ UNCHANGED vars
  BY <1>3 DEF JanitorReads, PurgeFails, JanitorPurges, Crash, Tick, vars, InFlight
<1>4. QED
  BY <1>1, <1>2, <1>3 DEF Next

\* The one way to change a row: its key's Acquire, its owner's release, or the
\* janitor after its expiry. An unexpired row only ever goes by the second.
LEMMA LiveRowStep ==
    ASSUME Base, ClockInv, NoLeaseLeaked, [Next]_vars, NEW k \in Keys,
           lease[k].owner # Nobody, now < lease[k].expires, lease'[k] # lease[k]
    PROVE  ReleaseLease(lease[k].owner) /\ lease[k].owner \in Requests
<1> USE DEF Base, TypeOK
<1>1. lease[k] \in Rows /\ lease[k].owner \in Requests
  BY DEF Rows, Requests
<1>2. ASSUME NEW r \in Requests, AcquireLease(r) PROVE FALSE
  <2>1. key[r] = k
    BY <1>2 DEF AcquireLease
  <2>2. lease[k].expires <= stamp[r]
    BY <1>2, <2>1 DEF AcquireLease, CanAcquire, Expired
  <2>3. stamp[r] <= now /\ stamp[r] \in Nat /\ now \in Nat /\ lease[k].expires \in Nat
    BY <1>1 DEF ClockInv, Rows
  <2>4. QED
    BY <2>2, <2>3
<1>3. ASSUME NEW r \in Requests, ReleaseLease(r) PROVE r = lease[k].owner
  BY <1>3 DEF ReleaseLease, Released
<1>4. CASE JanitorPurges
  <2>1. PICK t \in janitor : lease' = Purged(lease, t)
    BY <1>4 DEF JanitorPurges
  <2>2. lease[k].expires <= t
    BY <2>1 DEF Purged, Expired
  <2>3. t <= now /\ t \in Nat /\ now \in Nat /\ lease[k].expires \in Nat
    BY <1>1, <2>1 DEF ClockInv, Rows
  <2>4. QED
    BY <2>2, <2>3
<1>5. ASSUME NEW r \in Requests,
             \/ Limited(r) \/ StartAcquire(r) \/ AcquireFails(r)
             \/ ReleaseLeaseFails(r) \/ LeaseHeld(r) \/ EnterQueue(r)
             \/ QueueFull(r) \/ SubmitJob(r) \/ AcquireWorker(r) \/ FinishWork(r)
             \/ LeaveQueue(r)
      PROVE  FALSE
  BY <1>5 DEF Limited, StartAcquire, AcquireFails, ReleaseLeaseFails, LeaseHeld,
     EnterQueue, QueueFull, SubmitJob, AcquireWorker, FinishWork, LeaveQueue
<1>6. CASE JanitorReads \/ PurgeFails \/ Crash \/ Tick \/ UNCHANGED vars
  BY <1>6 DEF JanitorReads, PurgeFails, Crash, Tick, vars
<1>7. QED
  BY <1>1, <1>2, <1>3, <1>4, <1>5, <1>6 DEF Next, Step

\* A permit keeps its key and its clock value.
LEMMA PermitFixed ==
    ASSUME Base, [Next]_vars
    PROVE  /\ key' = key
           /\ \A r \in At(Leased) : stamp'[r] = stamp[r]
           /\ now' \in Nat /\ now' >= now
<1> USE DEF Base, TypeOK
<1>1. ASSUME NEW r \in Requests, StartAcquire(r)
      PROVE  key' = key /\ now' = now /\ \A s \in At(Leased) : stamp'[s] = stamp[s]
  BY <1>1 DEF StartAcquire, env, At, Leased, Inside
<1>2. ASSUME NEW r \in Requests,
             \/ Limited(r) \/ Step(r) \/ AcquireFails(r) \/ ReleaseLeaseFails(r)
      PROVE  UNCHANGED <<key, stamp, now>>
  BY <1>2 DEF Limited, Step, AcquireFails, ReleaseLeaseFails, AcquireLease,
     LeaseHeld, EnterQueue, QueueFull, SubmitJob, AcquireWorker, FinishWork,
     LeaveQueue, ReleaseLease, env
<1>3. CASE JanitorReads \/ PurgeFails \/ JanitorPurges \/ Crash \/ UNCHANGED vars
  BY <1>3 DEF JanitorReads, PurgeFails, JanitorPurges, Crash, vars
<1>4. CASE Tick
  BY <1>4 DEF Tick
<1>5. QED
  BY <1>1, <1>2, <1>3, <1>4 DEF Next

\* An unexpired lease outlives every step but its owner's own release.
LEMMA LeaseStep ==
    ASSUME IInv, [Next]_vars
    PROVE  LeaseProtected'
<1> USE DEF IInv, Base
<1> SUFFICES ASSUME NEW s \in At(Leased)', (now < LeaseEnd(s))'
             PROVE  (lease[key[s]] = [owner |-> s, expires |-> LeaseEnd(s)])'
  BY DEF LeaseProtected
<1>1. s \in Requests
  BY DEF At
<1>2. CASE s \notin At(Leased)
  <2>1. AcquireLease(s)
    BY <1>1, <1>2, LeasedOnlyByAcquire
  <2>2. lease' = [lease EXCEPT ![key[s]] = Acquired(s, stamp[s])] /\ UNCHANGED <<key, stamp>>
    BY <2>1 DEF AcquireLease
  <2>3. QED
    BY <1>1, <2>2 DEF Acquired, LeaseEnd, TypeOK
<1>3. CASE s \in At(Leased)
  <2>1. key'[s] = key[s] /\ stamp'[s] = stamp[s] /\ now < LeaseEnd(s)
    BY <1>1, <1>3, PermitFixed DEF LeaseEnd, TypeOK
  <2>2. lease[key[s]] = [owner |-> s, expires |-> LeaseEnd(s)]
    BY <1>3, <2>1 DEF LeaseProtected
  <2>3. key[s] \in Keys
    BY <1>1 DEF TypeOK
  <2>4. CASE lease'[key[s]] # lease[key[s]]
    <3>1. ReleaseLease(s)
      BY <1>1, <2>1, <2>2, <2>3, <2>4, LiveRowStep DEF Requests
    <3>2. phase'[s] = "done"
      BY <1>1, <3>1 DEF ReleaseLease, Goto, TypeOK
    <3>3. QED
      BY <3>2 DEF At, Leased, Inside
  <2>5. QED
    BY <2>1, <2>2, <2>4 DEF LeaseEnd
<1>4. QED
  BY <1>2, <1>3

\* Whoever stops holding a permit takes its row along, unless its DELETE fails
\* or its process dies.
LEMMA LeakStep ==
    ASSUME IInv, [Next]_vars
    PROVE  NoLeaseLeaked'
<1> USE DEF IInv, Base, TypeOK
<1> DEFINE Owing == Leased \cup {"orphaned", "lost"}
<1> SUFFICES ASSUME NEW k \in Keys, lease'[k].owner # Nobody
             PROVE  key'[lease'[k].owner] = k /\ phase'[lease'[k].owner] \in Owing
  BY DEF NoLeaseLeaked
<1>0. TypeOK' /\ key' = key
  BY TypeStep, PermitFixed
<1>1. lease'[k].owner \in Requests
  BY <1>0 DEF Rows, Requests
<1>2. ASSUME NEW r \in Requests, AcquireLease(r)
      PROVE  key'[lease'[k].owner] = k /\ phase'[lease'[k].owner] \in Owing
  <2>1. CASE key[r] = k
    BY <1>0, <1>2, <2>1 DEF AcquireLease, Acquired, Goto, Leased
  <2>2. CASE key[r] # k
    <3>1. lease'[k] = lease[k]
      BY <1>2, <2>2 DEF AcquireLease
    <3>2. key[lease[k].owner] = k /\ phase[lease[k].owner] \in Owing
      BY <3>1 DEF NoLeaseLeaked
    <3>3. phase'[lease[k].owner] = phase[lease[k].owner]
      BY <1>1, <1>2, <2>2, <3>1, <3>2 DEF AcquireLease, Goto
    <3>4. QED
      BY <1>0, <3>1, <3>2, <3>3
  <2>3. QED
    BY <2>1, <2>2
<1>3. ASSUME lease'[k] = lease[k], phase'[lease[k].owner] \in Owing
      PROVE  key'[lease'[k].owner] = k /\ phase'[lease'[k].owner] \in Owing
  BY <1>0, <1>3 DEF NoLeaseLeaked
<1>4. ASSUME NEW r \in Requests, ReleaseLease(r)
      PROVE  key'[lease'[k].owner] = k /\ phase'[lease'[k].owner] \in Owing
  <2>1. lease'[k] = lease[k]
    BY <1>4 DEF ReleaseLease, Released, NoRow
  <2>2. key[lease[k].owner] = k /\ phase[lease[k].owner] \in Owing
    BY <2>1 DEF NoLeaseLeaked
  <2>3. lease[k].owner # r
    BY <1>4, <2>1, <2>2 DEF ReleaseLease, Released, NoRow
  <2>4. QED
    BY <1>0, <1>1, <1>4, <2>1, <2>2, <2>3 DEF ReleaseLease, Goto
<1>5. CASE JanitorPurges
  <2>1. lease'[k] = lease[k] /\ phase' = phase
    BY <1>5 DEF JanitorPurges, Purged, NoRow
  <2>2. QED
    BY <1>3, <2>1 DEF NoLeaseLeaked
<1>6. ASSUME NEW r \in Requests,
             \/ Limited(r) \/ StartAcquire(r) \/ AcquireFails(r)
             \/ ReleaseLeaseFails(r) \/ LeaseHeld(r) \/ EnterQueue(r)
             \/ QueueFull(r) \/ SubmitJob(r) \/ AcquireWorker(r) \/ FinishWork(r)
             \/ LeaveQueue(r)
      PROVE  key'[lease'[k].owner] = k /\ phase'[lease'[k].owner] \in Owing
  <2>1. lease' = lease
    BY <1>6 DEF Limited, StartAcquire, AcquireFails, ReleaseLeaseFails, LeaseHeld,
       EnterQueue, QueueFull, SubmitJob, AcquireWorker, FinishWork, LeaveQueue
  <2>2. phase[lease[k].owner] \in Owing /\ lease[k].owner \in Requests
    BY <1>1, <2>1 DEF NoLeaseLeaked
  <2>3. ASSUME NEW s \in Requests, phase[s] \in Owing PROVE phase'[s] \in Owing
    BY <1>6, <2>3 DEF Limited, StartAcquire, AcquireFails, ReleaseLeaseFails,
       LeaseHeld, EnterQueue, QueueFull, SubmitJob, AcquireWorker, FinishWork,
       LeaveQueue, Goto, Leased, Inside
  <2>4. QED
    BY <1>3, <2>1, <2>2, <2>3
<1>7. CASE Crash
  BY <1>1, <1>3, <1>7 DEF Crash, NoLeaseLeaked, InFlight, Leased, Inside, Leaving, Admitting
<1>8. CASE JanitorReads \/ PurgeFails \/ Tick \/ UNCHANGED vars
  BY <1>3, <1>8 DEF JanitorReads, PurgeFails, Tick, vars, NoLeaseLeaked
<1>9. QED
  BY <1>2, <1>4, <1>5, <1>6, <1>7, <1>8 DEF Next, Step

----------------------------------------------------------------------------
\* The inductive invariant.
THEOREM Invariant == Spec => []IInv
<1>1. Init => IInv
  <2> SUFFICES ASSUME Init PROVE IInv
    OBVIOUS
  <2>1. At(Leased) = {}
    BY DEF Init, At, Leased, Inside
  <2>2. ClockInv /\ LeaseProtected /\ NoLeaseLeaked
    BY <2>1 DEF Init, ClockInv, LeaseProtected, NoLeaseLeaked, NoRow
  <2>3. QED
    BY <2>2, BaseInit DEF IInv
<1>2. IInv /\ [Next]_vars => IInv'
  BY TypeStep, CountStep, ClockStep, LeaseStep, LeakStep DEF IInv, Base
<1>3. QED
  BY <1>1, <1>2, PTL DEF Spec

\* Every variable keeps its type: in particular no counter of a channel leaves
\* the channel's capacity.
THEOREM TypeCorrect == Spec => []TypeOK
<1>1. IInv => TypeOK
  BY DEF IInv, Base
<1>2. QED
  BY <1>1, Invariant, PTL

\* The admission queue holds exactly the tokens of the permits that hold one, and
\* the pool has exactly one slot taken for each job that works.
THEOREM AccountingCorrect == Spec => []Accounting
<1>1. IInv => Accounting
  <2>1. At({"working"}) = Working
    BY DEF At, Working
  <2>2. QED
    BY <2>1 DEF IInv, Base, QueueInv, WorkerInv, Accounting, Holders
<1>2. QED
  BY <1>1, Invariant, PTL

\* While every worker is busy at most QUEUE_LIMIT admitted requests wait.
THEOREM WaitingCorrect == Spec => []WaitingBounded
<1>1. IInv => WaitingBounded
  <2> SUFFICES ASSUME IInv, slots = Workers
               PROVE  Cardinality(At({"admitted", "waiting"})) <= QueueLimit
    BY DEF WaitingBounded
  <2> DEFINE A == At({"admitted", "waiting"})
  <2>1. A \cup Working \subseteq Holders /\ A \cap Working = {}
    BY DEF IInv, Base, QueueInv, At, Working, Holders, Inside
  <2>2. IsFiniteSet(Holders) /\ Cardinality(Holders) = queueLen /\ queueLen <= QueueCap
    BY DEF IInv, Base, QueueInv, TypeOK
  <2>3. /\ IsFiniteSet(A \cup Working) /\ IsFiniteSet(A) /\ IsFiniteSet(Working)
        /\ Cardinality(A \cup Working) <= Cardinality(Holders)
    BY <2>1, <2>2, FS_Subset
  <2>4. Cardinality(A \cup Working)
           = Cardinality(A) + Cardinality(Working) - Cardinality(A \cap Working)
    BY <2>3, FS_Union
  <2>5. Cardinality(A \cap Working) = 0
    BY <2>1, FS_EmptySet
  <2>6. Cardinality(Working) = Workers
    BY DEF IInv, Base, WorkerInv
  <2>7. Cardinality(A) \in Nat /\ Cardinality(A \cup Working) \in Nat /\ queueLen \in Nat
    BY <2>3, FS_CardinalityType DEF IInv, Base, TypeOK
  <2>8. QED
    BY <2>2, <2>3, <2>4, <2>5, <2>6, <2>7 DEF QueueCap
<1>2. QED
  BY <1>1, Invariant, PTL

\* No request loses its row to anyone before its lease ends.
THEOREM LeaseCorrect == Spec => []LeaseProtected
<1>1. IInv => LeaseProtected
  BY DEF IInv
<1>2. QED
  BY <1>1, Invariant, PTL

\* Two requests overlap on a URL only when one of their leases has run out.
LEMMA OneLive == IInv => OneLivePerKey
<1> SUFFICES ASSUME IInv, NEW r \in At(Leased), NEW s \in At(Leased),
                    r # s, key[r] = key[s], ~(now >= LeaseEnd(r)),
                    ~(now >= LeaseEnd(s))
             PROVE  FALSE
  BY DEF OneLivePerKey
<1>1. now \in Int /\ LeaseEnd(r) \in Int /\ LeaseEnd(s) \in Int
  BY DEF IInv, Base, TypeOK, At, LeaseEnd
<1>2. now < LeaseEnd(r) /\ now < LeaseEnd(s)
  BY <1>1
<1>3. lease[key[r]] = [owner |-> r, expires |-> LeaseEnd(r)]
  BY <1>2 DEF IInv, LeaseProtected
<1>4. lease[key[s]] = [owner |-> s, expires |-> LeaseEnd(s)]
  BY <1>2 DEF IInv, LeaseProtected
<1>5. QED
  BY <1>3, <1>4

\* The same, of every reachable state.
THEOREM OneLiveCorrect == Spec => []OneLivePerKey
BY OneLive, Invariant, PTL

\* Refusals and ends of jobs leave no row behind.
THEOREM NoLeak == Spec => []NoLeaseLeaked
<1>1. IInv => NoLeaseLeaked
  BY DEF IInv
<1>2. QED
  BY <1>1, Invariant, PTL

\* Only the owner's release ends a lease early.
THEOREM OwnerEndsLease == Spec => OnlyOwnerEndsLease
<1> DEFINE Early(k) ==
      lease[k].owner # Nobody /\ now < lease[k].expires /\ lease'[k] # lease[k]
           => phase[lease[k].owner] = "unqueued" /\ phase'[lease[k].owner] = "done"
<1>1. IInv /\ [Next]_vars => [\A k \in Keys : Early(k)]_vars
  <2> SUFFICES ASSUME IInv, [Next]_vars, NEW k \in Keys,
                      lease[k].owner # Nobody, now < lease[k].expires,
                      lease'[k] # lease[k]
               PROVE  /\ phase[lease[k].owner] = "unqueued"
                      /\ phase'[lease[k].owner] = "done"
    OBVIOUS
  <2>1. ReleaseLease(lease[k].owner) /\ lease[k].owner \in Requests
    BY LiveRowStep DEF IInv
  <2>2. QED
    BY <2>1 DEF ReleaseLease, Goto, IInv, Base, TypeOK
<1>2. QED
  BY <1>1, Invariant, PTL DEF Spec, OnlyOwnerEndsLease

----------------------------------------------------------------------------
\* A request blocks only on the pool, and then a job holds a worker.
THEOREM NoDeadlockCorrect == Spec => []NoDeadlock
<1>1. IInv => NoDeadlock
  <2> SUFFICES ASSUME IInv, NEW r \in At(InFlight), Blocked(r)
               PROVE  phase[r] = "waiting" /\ At({"working"}) # {}
    BY DEF NoDeadlock
  <2>1. r \in Requests /\ TypeOK /\ QueueInv /\ WorkerInv
    BY DEF At, IInv, Base
  <2>2. queueLen <= QueueCap
    BY <2>1 DEF TypeOK, QueueCap
  <2>3. ASSUME heldQueue[r] PROVE queueLen > 0
    <3>1. r \in Holders
      BY <2>1, <2>3 DEF Holders
    <3>2. Cardinality(Holders) \in Nat \ {0}
      BY <2>1, <3>1, CardRemove DEF QueueInv
    <3>3. QED
      BY <2>1, <3>2 DEF QueueInv
  <2>4. ASSUME ~(slots < Workers) PROVE At({"working"}) # {}
    <3>1. slots > 0
      BY <2>1, <2>4 DEF TypeOK
    <3>2. Working # {}
      BY <2>1, <3>1, FS_EmptySet DEF WorkerInv
    <3>3. QED
      BY <3>2 DEF Working, At
  <2>5. QED
    BY <2>2, <2>3, <2>4 DEF Blocked
<1>2. QED
  BY <1>1, Invariant, PTL

\* What is left to do for a request depends on its phase alone.
LEMMA StepsOther ==
    ASSUME NEW r \in Requests, phase'[r] = phase[r]
    PROVE  StepsLeft(r)' <= StepsLeft(r)
<1>1. StepsLeft(r) \in Nat /\ StepsLeft(r)' = StepsLeft(r)
  BY DEF StepsLeft
<1>2. QED
  BY <1>1

\* A request's own step, or its refusal, leaves it less to do.
LEMMA StepsOwn ==
    ASSUME TypeOK, NEW r \in Requests,
           \/ Limited(r) \/ StartAcquire(r) \/ Step(r)
           \/ AcquireFails(r) \/ ReleaseLeaseFails(r)
    PROVE  StepsLeft(r)' < StepsLeft(r)
<1>1. PICK p \in Phases :
          /\ Goto(r, p)
          /\ \/ phase[r] = "new" /\ p \in {"refused", "acquiring"}
             \/ phase[r] = "acquiring" /\ p \in {"leased", "refused"}
             \/ phase[r] = "leased" /\ p \in {"admitted", "releasing"}
             \/ phase[r] = "admitted" /\ p = "waiting"
             \/ phase[r] = "waiting" /\ p = "working"
             \/ phase[r] = "working" /\ p = "releasing"
             \/ phase[r] = "releasing" /\ p = "unqueued"
             \/ phase[r] = "unqueued" /\ p \in {"done", "orphaned"}
  BY DEF Limited, StartAcquire, Step, AcquireFails, ReleaseLeaseFails, AcquireLease, LeaseHeld,
     EnterQueue, QueueFull, SubmitJob, AcquireWorker, FinishWork, LeaveQueue, ReleaseLease,
     Phases, InFlight, Admitting, Inside, Leaving, Over
<1>2. phase'[r] = p
  BY <1>1, GotoOther
<1>3. QED
  BY <1>1, <1>2 DEF StepsLeft

\* Requests only move forward.
THEOREM ForwardCorrect == Spec => Forward
<1> DEFINE Own(r) == \/ Limited(r) \/ StartAcquire(r) \/ Step(r)
                     \/ AcquireFails(r) \/ ReleaseLeaseFails(r)
<1>1. TypeOK /\ [Next]_vars =>
          [\A r \in Requests : /\ StepsLeft(r)' <= StepsLeft(r)
                               /\ Own(r) => StepsLeft(r)' < StepsLeft(r)]_vars
  <2> SUFFICES ASSUME TypeOK, [Next]_vars, NEW r \in Requests
               PROVE  /\ StepsLeft(r)' <= StepsLeft(r)
                      /\ Own(r) => StepsLeft(r)' < StepsLeft(r)
    OBVIOUS
  <2>1. Own(r) => StepsLeft(r)' < StepsLeft(r)
    BY StepsOwn
  <2>2. StepsLeft(r) \in Nat /\ StepsLeft(r)' \in Nat
    BY DEF StepsLeft
  <2>3. ASSUME NEW s \in Requests,
               \/ Limited(s) \/ StartAcquire(s) \/ Step(s)
               \/ AcquireFails(s) \/ ReleaseLeaseFails(s)
        PROVE  StepsLeft(r)' <= StepsLeft(r)
    <3>1. CASE s = r
      BY <2>2, <2>3, <3>1, StepsOwn
    <3>2. CASE s # r
      <4>1. \E p \in Phases : Goto(s, p)
        BY <2>3 DEF Limited, StartAcquire, Step, AcquireFails, ReleaseLeaseFails, AcquireLease,
           LeaseHeld, EnterQueue, QueueFull, SubmitJob, AcquireWorker, FinishWork, LeaveQueue,
           ReleaseLease, Phases, InFlight, Admitting, Inside, Leaving, Over
      <4>2. phase'[r] = phase[r]
        BY <3>2, <4>1, GotoOther
      <4>3. QED
        BY <4>2, StepsOther
    <3>3. QED
      BY <3>1, <3>2
  <2>4. CASE Crash
    <3>1. phase'[r] = phase[r] \/ phase'[r] = "lost"
      BY <2>4 DEF Crash
    <3>2. phase'[r] = "lost" => StepsLeft(r)' = 0
      BY DEF StepsLeft
    <3>3. CASE phase'[r] = phase[r]
      BY <2>1, <3>3, StepsOther
    <3>4. CASE phase'[r] = "lost"
      BY <2>1, <2>2, <3>2, <3>4
    <3>5. QED
      BY <3>1, <3>3, <3>4
  <2>5. CASE JanitorReads \/ PurgeFails \/ JanitorPurges \/ Tick \/ UNCHANGED vars
    <3>1. phase'[r] = phase[r]
      BY <2>5 DEF JanitorReads, PurgeFails, JanitorPurges, Tick, vars
    <3>2. QED
      BY <2>1, <3>1, StepsOther
  <2>6. QED
    BY <2>1, <2>3, <2>4, <2>5 DEF Next
<1>2. \A r \in Requests : StepsLeft(r) \in Nat
  BY DEF StepsLeft
<1>3. QED
  BY <1>1, <1>2, TypeCorrect, PTL DEF Spec, Forward

\* Expiries lie at most LEASE_TTL ahead of the clock.
Bounded == \A k \in Keys : lease[k].expires <= now + LeaseTTL

\* The row of a lease is what some Acquire wrote, with a clock it had read.
LEMMA BoundedStep ==
    ASSUME Base, ClockInv, Bounded, [Next]_vars
    PROVE  Bounded'
<1> SUFFICES ASSUME NEW k \in Keys
             PROVE  lease'[k].expires <= now' + LeaseTTL
  BY DEF Bounded
<1>1. /\ now \in Nat /\ now' \in Nat /\ now <= now' /\ lease[k].expires \in Nat
      /\ LeaseTTL \in Nat /\ lease[k].expires <= now + LeaseTTL
  <2>1. now \in Nat /\ lease[k].expires \in Nat /\ LeaseTTL \in Nat
    BY DEF Base, TypeOK, Rows
  <2>2. now' = now \/ now' = now + 1
    BY DEF Next, Step, Limited, StartAcquire, AcquireFails, ReleaseLeaseFails, AcquireLease,
       LeaseHeld, EnterQueue, QueueFull, SubmitJob, AcquireWorker, FinishWork, LeaveQueue,
       ReleaseLease, JanitorReads, PurgeFails, JanitorPurges, Crash, Tick, vars, env
  <2>3. QED
    BY <2>1, <2>2 DEF Bounded
<1>2. CASE lease'[k] = lease[k]
  BY <1>1, <1>2
<1>3. CASE lease'[k] = NoRow
  BY <1>1, <1>3 DEF NoRow
<1>4. ASSUME NEW r \in Requests, AcquireLease(r)
      PROVE  lease'[k] = lease[k] \/ lease'[k].expires <= now' + LeaseTTL
  <2>1. lease' = [lease EXCEPT ![key[r]] = Acquired(r, stamp[r])] /\ stamp[r] <= now
    BY <1>4 DEF AcquireLease, ClockInv
  <2>2. lease'[k] = lease[k] \/ lease'[k].expires = stamp[r] + LeaseTTL
    BY <2>1 DEF Acquired, Base, TypeOK
  <2>3. stamp[r] \in Nat
    BY DEF Base, TypeOK
  <2>4. QED
    BY <1>1, <2>1, <2>2, <2>3
<1>5. ASSUME NEW r \in Requests, ReleaseLease(r)
      PROVE  lease'[k] \in {lease[k], NoRow}
  BY <1>5 DEF ReleaseLease, Released, Base, TypeOK
<1>6. CASE JanitorPurges
  <2>1. lease'[k] \in {lease[k], NoRow}
    BY <1>6 DEF JanitorPurges, Purged, Base, TypeOK
  <2>2. QED
    BY <1>2, <1>3, <2>1
<1>7. CASE JanitorReads \/ PurgeFails \/ Crash \/ Tick \/ UNCHANGED vars
  BY <1>2, <1>7 DEF JanitorReads, PurgeFails, Crash, Tick, vars
<1>8. ASSUME NEW r \in Requests,
             \/ Limited(r) \/ StartAcquire(r) \/ AcquireFails(r) \/ ReleaseLeaseFails(r)
             \/ LeaseHeld(r) \/ EnterQueue(r) \/ QueueFull(r) \/ SubmitJob(r)
             \/ AcquireWorker(r) \/ FinishWork(r) \/ LeaveQueue(r)
      PROVE  lease' = lease
  BY <1>8 DEF Limited, StartAcquire, AcquireFails, ReleaseLeaseFails, LeaseHeld, EnterQueue,
     QueueFull, SubmitJob, AcquireWorker, FinishWork, LeaveQueue
<1>9. QED
  BY <1>2, <1>3, <1>4, <1>5, <1>6, <1>7, <1>8 DEF Next, Step

\* Any URL can be acquired again at the latest LEASE_TTL from now.
THEOREM FreeAgainCorrect == Spec => []FreeAgain
<1>1. Init => Bounded
  <2> SUFFICES ASSUME Init PROVE Bounded
    OBVIOUS
  <2>1. \A k \in Keys : lease[k].expires = 0
    BY DEF Init, NoRow
  <2>2. QED
    BY <2>1 DEF Init, Bounded
<1>2. IInv /\ Bounded /\ [Next]_vars => Bounded'
  BY BoundedStep DEF IInv
<1>3. Bounded => FreeAgain
  BY DEF Bounded, FreeAgain, CanAcquire, Expired
<1>4. QED
  BY <1>1, <1>2, <1>3, Invariant, PTL DEF Spec

----------------------------------------------------------------------------
\* The gate counts as Admission does.
LEMMA GateCardinality == \A S : Gate!Cardinality(S) = Cardinality(S)
BY Zenon DEF Gate!Cardinality, Cardinality

\* An empty queue is an empty gate.
LEMMA GateInit == Init => Gate!Init
<1> SUFFICES ASSUME Init PROVE Gate!Init
  OBVIOUS
<1>1. \A r \in Requests : ~heldQueue[r]
  BY DEF Init
<1>2. QED
  BY <1>1 DEF Init, Gate!Init

\* Only the push on the queue lets a request in, only its receive or a crash
\* lets it out; every other step leaves the gate as it is.
LEMMA GateStep ==
    ASSUME IInv, IInv', [Next]_vars
    PROVE  [Gate!Next]_Gate!gate
<1> USE DEF IInv, Base, TypeOK
<1> DEFINE In == {q \in Requests : heldQueue[q]}
           Ends == [q \in Requests |-> IF heldQueue[q] THEN LeaseEnd(q) ELSE 0]
<1>1. ASSUME NEW r \in Requests, EnterQueue(r) PROVE Gate!Enter(r)
  <2>1. phase[r] = "leased" /\ ~heldQueue[r]
    BY <1>1 DEF EnterQueue, QueueInv, Inside
  <2>2. heldQueue' = [heldQueue EXCEPT ![r] = TRUE] /\ UNCHANGED <<now, key, stamp>>
    BY <1>1 DEF EnterQueue, env
  <2>3. Cardinality({q \in Requests : heldQueue[q]}) < QueueCap
    BY <1>1 DEF EnterQueue, QueueInv, Holders
  <2>4. \A s \in Requests : heldQueue[s] /\ key[s] = key[r] =>
           ~(now < LeaseEnd(s) /\ now < LeaseEnd(r))
    <3>1. SUFFICES ASSUME NEW s \in Requests, heldQueue[s], key[s] = key[r]
                   PROVE  ~(now < LeaseEnd(s) /\ now < LeaseEnd(r))
      OBVIOUS
    <3>2. s \in At(Leased) /\ r \in At(Leased) /\ s # r
      BY <2>1, <3>1 DEF QueueInv, At, Leased
    <3>3. now >= LeaseEnd(s) \/ now >= LeaseEnd(r)
      BY <3>1, <3>2, OneLive DEF OneLivePerKey
    <3>4. now \in Int /\ LeaseEnd(s) \in Int /\ LeaseEnd(r) \in Int
      BY DEF LeaseEnd
    <3>5. QED
      BY <3>3, <3>4
  <2>5. LeaseEnd(r) \in Nat
    BY DEF LeaseEnd
  <2>6. r \notin In /\ In' = In \cup {r} /\ Cardinality(In) < QueueCap
    BY <2>1, <2>2, <2>3
  <2>7. Ends' = [Ends EXCEPT ![r] = LeaseEnd(r)] /\ Ends'[r] = LeaseEnd(r)
    BY <2>2 DEF LeaseEnd
  <2>8. \A s \in In : key[s] = key[r] => ~(now < Ends[s] /\ now < Ends'[r])
    BY <2>4, <2>7
  <2>9. Ends'[r] \in Nat /\ Ends' = [Ends EXCEPT ![r] = Ends'[r]]
    BY <2>5, <2>7
  <2>10. UNCHANGED <<now, key>>
    BY <2>2
  <2> HIDE DEF In, Ends
  <2>11. QED
    BY <2>6, <2>8, <2>9, <2>10, GateCardinality DEF Gate!Enter, Gate!Live, In, Ends
<1>2. ASSUME NEW r \in Requests, LeaveQueue(r), heldQueue[r] PROVE Gate!Leave(r)
  <2>1. heldQueue' = [heldQueue EXCEPT ![r] = FALSE] /\ UNCHANGED <<now, key, stamp>>
    BY <1>2 DEF LeaveQueue, env
  <2>2. QED
    BY <1>2, <2>1 DEF Gate!Leave, LeaseEnd
<1>3. ASSUME Crash PROVE Gate!Crash
  BY <1>3 DEF Crash, Gate!Crash
<1>4. ASSUME Tick PROVE Gate!Tick
  BY <1>4 DEF Tick, mem, Gate!Tick, LeaseEnd
<1>5. ASSUME UNCHANGED <<now, key, heldQueue>>,
             \A s \in Requests : heldQueue[s] => stamp'[s] = stamp[s]
      PROVE  UNCHANGED Gate!gate
  BY <1>5 DEF Gate!gate, LeaseEnd
<1>6. ASSUME NEW r \in Requests, LeaveQueue(r), ~heldQueue[r]
      PROVE  UNCHANGED Gate!gate
  BY <1>5, <1>6 DEF LeaveQueue, env
<1>7. ASSUME NEW r \in Requests, StartAcquire(r) PROVE UNCHANGED Gate!gate
  <2>1. ~heldQueue[r]
    BY <1>7 DEF StartAcquire, QueueInv, Inside
  <2>2. QED
    BY <1>5, <1>7, <2>1 DEF StartAcquire, env, mem
<1>8. ASSUME NEW r \in Requests,
             \/ Limited(r) \/ AcquireFails(r) \/ ReleaseLeaseFails(r)
             \/ AcquireLease(r) \/ LeaseHeld(r) \/ QueueFull(r) \/ SubmitJob(r)
             \/ AcquireWorker(r) \/ FinishWork(r) \/ ReleaseLease(r)
      PROVE  UNCHANGED Gate!gate
  BY <1>5, <1>8 DEF Limited, AcquireFails, ReleaseLeaseFails, AcquireLease,
     LeaseHeld, QueueFull, SubmitJob, AcquireWorker, FinishWork, ReleaseLease,
     env, mem
<1>9. CASE JanitorReads \/ PurgeFails \/ JanitorPurges \/ UNCHANGED vars
  BY <1>5, <1>9 DEF JanitorReads, PurgeFails, JanitorPurges, vars, mem
<1>10. QED
  BY <1>1, <1>2, <1>3, <1>4, <1>6, <1>7, <1>8, <1>9 DEF Next, Step, Gate!Next

\* The queue, the leases, the janitor and the crashes keep the gate's promise.
THEOREM Refinement == Spec => GatePromise
<1>1. IInv /\ IInv' /\ [Next]_vars => [Gate!Next]_Gate!gate
  BY GateStep
<1>2. QED
  BY <1>1, GateInit, Invariant, PTL DEF Spec, GatePromise, Gate!Spec
----------------------------------------------------------------------------
\* The pool counts as Admission does.
LEMMA PoolCardinality == \A S : Pool!Cardinality(S) = Cardinality(S)
BY Zenon DEF Pool!Cardinality, Cardinality

\* Who is where after the step of one request.
LEMMA AtMoves ==
    ASSUME TypeOK, NEW r \in Requests, NEW p \in Phases, Goto(r, p), NEW ps
    PROVE  /\ p \in ps => At(ps)' = At(ps) \cup {r}
           /\ p \notin ps => At(ps)' = At(ps) \ {r}
BY GotoOther DEF At

\* Nobody waits for a worker, has one or is over when the bot starts.
LEMMA PoolInit == Init => Pool!Init
BY DEF Init, Pool!Init, At, Leaving, Over

\* The steps that the pool sees: a job comes, gets a worker or returns it, a request ends
\* without one, or the process does.
LEMMA PoolStep ==
    ASSUME Base, [Next]_vars
    PROVE  [Pool!Next]_Pool!pool
<1> DEFINE Waits == At({"waiting"})
           Works == At({"working"})
           Gone == At(Leaving \cup Over)
<1>1. TypeOK /\ Works = Working
  BY DEF Base, At, Working
<1>2. ASSUME NEW r \in Requests, NEW p \in Phases, Goto(r, p)
      PROVE  /\ p = "waiting" => Waits' = Waits \cup {r}
             /\ p # "waiting" => Waits' = Waits \ {r}
             /\ p = "working" => Works' = Works \cup {r}
             /\ p # "working" => Works' = Works \ {r}
             /\ p \in Leaving \cup Over => Gone' = Gone \cup {r}
             /\ p \notin Leaving \cup Over => Gone' = Gone \ {r}
  <2>1. /\ p \in {"waiting"} => At({"waiting"})' = At({"waiting"}) \cup {r}
        /\ p \notin {"waiting"} => At({"waiting"})' = At({"waiting"}) \ {r}
    BY <1>1, <1>2, AtMoves
  <2>2. /\ p \in {"working"} => At({"working"})' = At({"working"}) \cup {r}
        /\ p \notin {"working"} => At({"working"})' = At({"working"}) \ {r}
    BY <1>1, <1>2, AtMoves
  <2>3. /\ p \in Leaving \cup Over => Gone' = Gone \cup {r}
        /\ p \notin Leaving \cup Over => Gone' = Gone \ {r}
    <3>1. At(Leaving \cup Over)' = {q \in Requests : phase'[q] \in Leaving \cup Over}
      BY DEF At, Leaving, Over
    <3>2. QED
      BY <1>1, <1>2, <3>1, GotoOther DEF At
  <2>4. QED
    BY <2>1, <2>2, <2>3
<1>3. ASSUME NEW r \in Requests
      PROVE  /\ r \in Waits <=> phase[r] = "waiting"
             /\ r \in Works <=> phase[r] = "working"
             /\ r \in Gone <=> phase[r] \in Leaving \cup Over
  BY DEF At
<1>4. ASSUME NEW r \in Requests, StartAcquire(r) \/ AcquireLease(r) \/ EnterQueue(r)
      PROVE  UNCHANGED <<Waits, Works, Gone>>
  <2>1. /\ \E p \in Admitting \cup {"admitted"} : Goto(r, p)
        /\ phase[r] \in {"new"} \cup Admitting
    BY <1>4 DEF StartAcquire, AcquireLease, EnterQueue, Admitting
  <2>2. PICK p \in Admitting \cup {"admitted"} : Goto(r, p)
    BY <2>1
  <2>3. p \in Phases /\ p \notin Leaving \cup Over /\ p # "waiting" /\ p # "working"
    BY DEF Phases, InFlight, Admitting, Inside, Leaving, Over
  <2>4. r \notin Waits /\ r \notin Works /\ r \notin Gone
    BY <1>3, <2>1 DEF Admitting, Leaving, Over
  <2> HIDE DEF Waits, Works, Gone
  <2>5. Waits' = Waits \ {r} /\ Works' = Works \ {r} /\ Gone' = Gone \ {r}
    BY <1>2, <2>2, <2>3
  <2>6. QED
    BY <2>4, <2>5
<1>5. ASSUME NEW r \in Requests, Limited(r) \/ LeaseHeld(r) \/ AcquireFails(r) \/ QueueFull(r)
      PROVE  Pool!TurnAway(r)
  <2>1. /\ \E p \in {"refused", "releasing"} : Goto(r, p)
        /\ phase[r] \in {"new"} \cup Admitting
    BY <1>5 DEF Limited, LeaseHeld, AcquireFails, QueueFull, Admitting
  <2>2. PICK p \in {"refused", "releasing"} : Goto(r, p)
    BY <2>1
  <2>3. p \in Phases /\ p \in Leaving \cup Over /\ p \notin {"waiting", "working"}
    BY DEF Phases, InFlight, Leaving, Over
  <2>4. r \notin Waits /\ r \notin Works /\ r \notin Gone
    BY <1>3, <2>1 DEF Admitting, Leaving, Over
  <2> HIDE DEF Waits, Works, Gone
  <2>5. Waits' = Waits /\ Works' = Works /\ Gone' = Gone \cup {r}
    BY <1>2, <2>2, <2>3, <2>4
  <2>6. QED
    BY <2>4, <2>5 DEF Pool!TurnAway, Waits, Works, Gone
<1>6. ASSUME NEW r \in Requests, SubmitJob(r)
      PROVE  Pool!Join(r)
  <2>1. Goto(r, "waiting") /\ phase[r] = "admitted"
    BY <1>6 DEF SubmitJob
  <2>2. "waiting" \in Phases /\ "waiting" \notin Leaving \cup Over
    BY DEF Phases, InFlight, Inside, Leaving, Over
  <2>3. r \notin Waits /\ r \notin Works /\ r \notin Gone
    BY <1>3, <2>1 DEF Leaving, Over
  <2> HIDE DEF Waits, Works, Gone
  <2>4. Waits' = Waits \cup {r} /\ Works' = Works /\ Gone' = Gone
    BY <1>2, <2>1, <2>2, <2>3
  <2>5. QED
    BY <2>3, <2>4 DEF Pool!Join, Waits, Works, Gone
<1>7. ASSUME NEW r \in Requests, AcquireWorker(r)
      PROVE  Pool!Start(r)
  <2>1. Goto(r, "working") /\ phase[r] = "waiting" /\ slots < Workers
    BY <1>7 DEF AcquireWorker
  <2>2. "working" \in Phases /\ "working" \notin Leaving \cup Over
    BY DEF Phases, InFlight, Inside, Leaving, Over
  <2>3. r \in Waits /\ r \notin Works /\ r \notin Gone
    BY <1>3, <2>1 DEF Leaving, Over
  <2>4. Cardinality(Works) < Workers
    BY <1>1, <2>1 DEF Base, WorkerInv
  <2> HIDE DEF Waits, Works, Gone
  <2>5. Waits' = Waits \ {r} /\ Works' = Works \cup {r} /\ Gone' = Gone
    BY <1>2, <2>1, <2>2, <2>3
  <2>6. QED
    BY <2>3, <2>4, <2>5, PoolCardinality DEF Pool!Start, Waits, Works, Gone
<1>8. ASSUME NEW r \in Requests, FinishWork(r)
      PROVE  Pool!Finish(r)
  <2>1. Goto(r, "releasing") /\ phase[r] = "working"
    BY <1>8 DEF FinishWork
  <2>2. "releasing" \in Phases /\ "releasing" \in Leaving \cup Over
    BY DEF Phases, InFlight, Leaving, Over
  <2>3. r \notin Waits /\ r \in Works /\ r \notin Gone
    BY <1>3, <2>1 DEF Leaving, Over
  <2> HIDE DEF Waits, Works, Gone
  <2>4. Waits' = Waits /\ Works' = Works \ {r} /\ Gone' = Gone \cup {r}
    BY <1>2, <2>1, <2>2, <2>3
  <2>5. QED
    BY <2>3, <2>4 DEF Pool!Finish, Waits, Works, Gone
<1>9. ASSUME NEW r \in Requests, LeaveQueue(r) \/ ReleaseLease(r) \/ ReleaseLeaseFails(r)
      PROVE  UNCHANGED <<Waits, Works, Gone>>
  <2>1. /\ \E p \in {"unqueued", "done", "orphaned"} : Goto(r, p)
        /\ phase[r] \in Leaving
    BY <1>9 DEF LeaveQueue, ReleaseLease, ReleaseLeaseFails, Leaving
  <2>2. PICK p \in {"unqueued", "done", "orphaned"} : Goto(r, p)
    BY <2>1
  <2>3. p \in Phases /\ p \in Leaving \cup Over
    BY DEF Phases, InFlight, Leaving, Over
  <2>4. r \notin Waits /\ r \notin Works /\ r \in Gone
    BY <1>3, <2>1 DEF Leaving
  <2> HIDE DEF Waits, Works, Gone
  <2>5. QED
    BY <1>2, <2>2, <2>3, <2>4
<1>10. ASSUME Crash PROVE Pool!Crash
  <2>1. \A r \in Requests : phase'[r] = IF phase[r] \in InFlight THEN "lost" ELSE phase[r]
    BY <1>10 DEF Crash
  <2>2. Waits' = {} /\ Works' = {}
    BY <2>1 DEF At, InFlight, Inside
  <2>3. Waits \cup Works \cup Gone \subseteq Gone' /\ Gone' \subseteq Requests
    BY <2>1 DEF At, InFlight, Inside, Leaving, Over
  <2>4. QED
    BY <2>2, <2>3 DEF Pool!Crash
<1>11. CASE JanitorReads \/ PurgeFails \/ JanitorPurges \/ Tick \/ UNCHANGED vars
  BY <1>11 DEF JanitorReads, PurgeFails, JanitorPurges, Tick, vars, At, Pool!pool
<1>12. QED
  BY <1>4, <1>5, <1>6, <1>7, <1>8, <1>9, <1>10, <1>11 DEF Next, Step, Pool!Next, Pool!pool

\* Admission uses the pool as WorkerPool says, whatever a job does with its worker.
THEOREM PoolRefinement == Spec => PoolPromise
<1>1. Base /\ [Next]_vars => [Pool!Next]_Pool!pool
  BY PoolStep
<1>2. QED
  BY <1>1, PoolInit, BaseInvariant, PTL DEF Spec, PoolPromise, Pool!Spec
=============================================================================
