--------------------------- MODULE SchedulerLease ---------------------------
(***************************************************************************)
(* Periodic analysis runs of several worker processes that share one       *)
(* PostgreSQL database.  Each worker's RunScheduler loop sleeps for an     *)
(* interval, then takes the scheduler lease, a row that names its owner    *)
(* and when it expires, runs the analysis and deletes the row again.       *)
(*                                                                         *)
(* The worker computes the expiry, and the instant it compares the row's   *)
(* expiry with, from its own clock before it sends the statement.  Nothing *)
(* renews the lease during a run and nothing bounds a run.                 *)
(*                                                                         *)
(* Time is discrete and every instant is kept as its distance from now, so *)
(* that time can pass for ever: the counters stop where no comparison can  *)
(* tell the values apart any more.  A worker restarted after a crash has a *)
(* new owner id: it is another member of Workers.                          *)
(***************************************************************************)
EXTENDS Integers, FiniteSets

CONSTANTS
    Workers,       \* scheduler owner ids
    NoOwner,
    TTL,           \* lease_ttl_seconds
    Interval,      \* interval_seconds
    Skew,          \* bound: how far two workers' clocks are apart
    MaxDelay,      \* bound: time between reading the clock and the statement
    MaxConfigures  \* bound: schedule changes in a behaviour

ASSUME LeaseAssumption ==
    /\ NoOwner \notin Workers
    /\ TTL \in Nat \ {0} /\ Interval \in Nat \ {0}
    /\ Skew \in Nat /\ MaxDelay \in Nat /\ MaxConfigures \in Nat

VARIABLES
    lease,    \* the row of scheduler_leases; left: expires_at - now
    ahead,    \* how far each worker's clock is ahead of the slowest one
    pc,       \* where each worker's loop is
    due,      \* time until the loop's timer fires
    age,      \* time since the loop read its clock for the statement
    held,     \* what is left of the lease each run was started under
    configures

leaseVars == <<lease, ahead, pc, due, age, held, configures>>

NoLease == [owner |-> NoOwner, left |-> 0]

Remaining == -MaxDelay .. TTL + Skew

LeaseTypeOK ==
    /\ lease \in [owner: Workers \cup {NoOwner}, left: Remaining]
    /\ ahead \in [Workers -> 0..Skew]
    /\ pc \in [Workers -> {"timer", "acquire", "run", "release", "off", "gone"}]
    /\ due \in [Workers -> 0..Interval]
    /\ age \in [Workers -> 0..MaxDelay]
    /\ held \in [Workers -> Remaining]
    /\ configures \in 0..MaxConfigures

\* The workers' processes start at different times.
LeaseInit ==
    /\ lease = NoLease
    /\ ahead \in [Workers -> 0..Skew]
    /\ pc = [w \in Workers |-> "timer"]
    /\ due \in [Workers -> 0..Interval]
    /\ age = [w \in Workers |-> 0]
    /\ held = [w \in Workers |-> 0]
    /\ configures = 0

-----------------------------------------------------------------------------
Down(n, floor) == IF n > floor THEN n - 1 ELSE floor

\* Time passes, in the middle of runs and statements too.
Tick ==
    /\ \A w \in Workers : pc[w] = "acquire" => age[w] < MaxDelay
    /\ lease' = [lease EXCEPT !.left = Down(@, -MaxDelay)]
    /\ due' = [w \in Workers |-> Down(due[w], 0)]
    /\ age' = [w \in Workers |-> IF pc[w] = "acquire" THEN age[w] + 1 ELSE 0]
    /\ held' = [w \in Workers |-> IF pc[w] = "run" THEN Down(held[w], -MaxDelay) ELSE 0]
    /\ UNCHANGED <<ahead, pc, configures>>

Goto(w, label) == pc' = [pc EXCEPT ![w] = label]

\* The loop starts to sleep for the whole interval again.
Sleep(w) ==
    /\ Goto(w, "timer")
    /\ due' = [due EXCEPT ![w] = Interval]

\* wait_for times out and acquire_scheduler_lease reads the clock.
Timeout(w) ==
    /\ pc[w] = "timer" /\ due[w] = 0
    /\ age' = [age EXCEPT ![w] = 0]
    /\ Goto(w, "acquire")
    /\ UNCHANGED <<lease, ahead, due, held, configures>>

\* Mutant: a row that another worker owns is never taken over.
Available_OwnerOnly(w) == lease.owner \in {NoOwner, w}

\* The statement inserts or updates the row: there is none, it has expired by
\* the clock w read, or it is w's own.
Available(w) ==
    \/ lease.owner \in {NoOwner, w}
    \/ lease.left + age[w] - ahead[w] <= 0

RowOf(w) == [owner |-> w, left |-> TTL + ahead[w] - age[w]]

Acquire(w) ==
    /\ pc[w] = "acquire" /\ Available(w)
    /\ lease' = RowOf(w)
    /\ held' = [held EXCEPT ![w] = RowOf(w).left]
    /\ Goto(w, "run")
    /\ UNCHANGED <<ahead, due, age, configures>>

\* "scheduler lease held by another worker"
Skip(w) ==
    /\ pc[w] = "acquire" /\ ~Available(w)
    /\ Sleep(w)
    /\ UNCHANGED <<lease, ahead, age, held, configures>>

\* The database call raises, before or after the statement took effect.
\* Nothing in the loop catches it: the task ends.
AcquireFails(w) ==
    /\ pc[w] = "acquire"
    /\ lease' \in {lease} \cup (IF Available(w) THEN {RowOf(w)} ELSE {})
    /\ Goto(w, "off")
    /\ UNCHANGED <<ahead, due, age, held, configures>>

\* The run returns or raises, after any time.
Finish(w) ==
    /\ pc[w] = "run"
    /\ Goto(w, "release")
    /\ UNCHANGED <<lease, ahead, due, age, held, configures>>

\* Mutant: the row is deleted by its name alone.
Released_ByName(w) == NoLease

\* The row w owns is deleted; by now another worker may own it.
Released(w) == IF lease.owner = w THEN NoLease ELSE lease

Release(w) ==
    /\ pc[w] = "release"
    /\ lease' = Released(w)
    /\ Sleep(w)
    /\ UNCHANGED <<ahead, age, held, configures>>

ReleaseFails(w) ==
    /\ pc[w] = "release"
    /\ lease' \in {lease, Released(w)}
    /\ Goto(w, "off")
    /\ UNCHANGED <<ahead, due, age, held, configures>>

\* PUT /schedule stops the loop, if one sleeps, and starts a new one unless the
\* new schedule is disabled.
Configure(w) ==
    /\ configures < MaxConfigures
    /\ pc[w] \in {"timer", "off"}
    /\ Sleep(w) \/ (Goto(w, "off") /\ UNCHANGED due)
    /\ configures' = configures + 1
    /\ UNCHANGED <<lease, ahead, age, held>>

\* The process is killed; the row stays.
Crash(w) ==
    /\ pc[w] # "gone"
    /\ Goto(w, "gone")
    /\ UNCHANGED <<lease, ahead, due, age, held, configures>>

Loop(w) ==
    \/ Timeout(w) \/ Acquire(w) \/ Skip(w) \/ AcquireFails(w)
    \/ Finish(w) \/ Release(w) \/ ReleaseFails(w)

LeaseNext == Tick \/ \E w \in Workers : Loop(w) \/ Configure(w) \/ Crash(w)

LeaseSpec == LeaseInit /\ [][LeaseNext]_leaseVars

\* Time passes, and the event loop serves a timer that is due and a call that
\* has returned or failed.  Nothing forces a run to end.
Fairness ==
    /\ WF_leaseVars(Tick)
    /\ \A w \in Workers :
          /\ WF_leaseVars(Timeout(w))
          /\ WF_leaseVars(Acquire(w) \/ Skip(w) \/ AcquireFails(w))
          /\ WF_leaseVars(Release(w) \/ ReleaseFails(w))

FairSpec == LeaseSpec /\ Fairness

-----------------------------------------------------------------------------
(* Properties                                                                *)

\* A run whose lease has not run out by any worker's clock.
Covered(w) == pc[w] = "run" /\ held[w] > Skew

\* The lease excludes: whatever the delays, failures, takeovers and late
\* releases, two periodic runs overlap only after the lease of one of them has
\* run out by some worker's clock.
LeaseExcludes ==
    \A v, w \in Workers : Covered(v) /\ Covered(w) => v = w

\* What makes LeaseExcludes inductive: the row still is the one a covered run
\* was started under.
CoveredOwnsRow ==
    \A w \in Workers : Covered(w) => lease = [owner |-> w, left |-> held[w]]

\* Neither a lease that a dead worker left, nor one that a lost reply wrote, nor
\* one whose run hangs stops the periodic runs: a worker whose loop is alive
\* runs again and again, or others do under leases that have not run out.
Alive(w) == pc[w] \notin {"off", "gone"}

LeaseRecovers ==
    \A w \in Workers :
        []<>(\/ ~Alive(w) \/ pc[w] = "run"
             \/ \E v \in Workers \ {w} : pc[v] = "run" /\ held[v] > -MaxDelay)
============================================================================
