---------------------------- MODULE EodScheduler ----------------------------
(***************************************************************************)
(* The end-of-day scheduler, SchedulerRunner.run_once of                   *)
(* app/operations/scheduler.py, on the operations repository of            *)
(* OperationLease.  Several runs are started, by Windows or by hand, while *)
(* time passes; each is a process of its own, and each spawns the batch    *)
(* CLI as a child process that outlives a parent that crashes.             *)
(*                                                                         *)
(* A step is one repository transaction or one external call.  A run reads *)
(* the clock once, when it starts, and uses that reading to acquire the    *)
(* lease.  The batch is seen as the scheduler sees it, through the status  *)
(* of its row; BatchRunner models what happens inside the child.           *)
(***************************************************************************)
EXTENDS OperationLease

CONSTANTS
    EodKey,             \* config.lease_key
    LeaseTtl,           \* config.lease_ttl_seconds
    MaxDeferredAttempts,\* config.max_deferred_attempts
    RetryBackoff,       \* config.retry_backoff_seconds
    BackoffMultiplier,  \* config.retry_backoff_multiplier
    ScheduledAt,        \* config.schedule_time on the requested date
    GracePeriod,        \* config.grace_period_seconds
    Scheduled,          \* the runs whose trigger is "scheduled", not "manual"
    EarlierStatuses,    \* status an earlier batch for the date may be in
    StartBy,            \* bound: no run starts later
    MaxClock            \* bound: the clock stops here

(* One run has one invocation and acquires at most one lease: the two are  *)
(* named alike.                                                            *)
Runs == Invocations

BatchDone == {"success", "skipped_non_trading_day", "skipped_no_new_market_date"}

BatchStatuses ==
    BatchDone \cup {"absent", "pending", "running", "partial_success", "failed",
                    "deferred_awaiting_market_data"}

(* The sleep after the probe numbered n, the first being 0. *)
Backoff(n) == RetryBackoff * BackoffMultiplier ^ n

ASSUME SchedulerAssumption ==
    /\ Leases = Runs /\ EodKey \in Keys
    /\ Scheduled \subseteq Runs
    /\ Batches \subseteq Nat /\ EarlierStatuses \subseteq BatchStatuses
    /\ LeaseTtl \in Nat \ {0} /\ MaxDeferredAttempts \in Nat \ {0}
    /\ \A n \in 0..MaxDeferredAttempts : Backoff(n) \in Nat
    /\ ScheduledAt \in Nat /\ GracePeriod \in Nat
    /\ StartBy \in Nat /\ MaxClock \in Nat
    /\ MaxClock + LeaseTtl =< MaxTime

VARIABLES
    clock,
    pc,         \* where each run is
    run,        \* the local variables of each run
    child,      \* the batch CLI spawned by each run
    batch,      \* daily_batch_runs.status for this watchlist and date
    overrun     \* history: a lease was taken over from a run still at work

vars == <<invocation, lease, clock, pc, run, child, batch, overrun>>

(* Inside the try block of run_once. *)
TryBlock == {"probing", "sleeping", "ready", "lookup", "waiting", "reporting",
             "finishing", "releasing"}

(* Between the grant of the lease and its release. *)
AtWork == {"acquired"} \cup TryBlock

Stopped == {"idle", "done", "dead"}

Locations == Stopped \cup {"created", "overlapped"} \cup AtWork

(* now: the reading of the clock the run started with; probes and wakeAt:  *)
(* attempts and end of sleep of _await_market_data; seen: the batch that   *)
(* find_existing_batch returned; verdict: the status about to be recorded; *)
(* handling: the run is in the except clause.                              *)
RunLocals ==
    [now : 0..MaxClock, probes : Nat, wakeAt : Nat, seen : Batches \cup {NoBatch},
     verdict : FinalStatuses \cup {"none"}, handling : BOOLEAN]

NoLocals == [now |-> 0, probes |-> 0, wakeAt |-> 0, seen |-> NoBatch,
             verdict |-> "none", handling |-> FALSE]

(* batch: what --resume-batch-id named, then the batch the child works on  *)
(* and prints when it exits; mayCreate: there was no batch when the child  *)
(* was spawned.                                                            *)
ChildProcess ==
    [status : {"none", "spawned", "working", "exited"},
     batch : Batches \cup {NoBatch}, mayCreate : BOOLEAN]

NoChild == [status |-> "none", batch |-> NoBatch, mayCreate |-> FALSE]

ChildAlive(p) == child[p].status \in {"spawned", "working"}

Existing == {b \in Batches : batch[b] # "absent"}

(* Batches are numbered in the order of created_at. *)
IsNewest(b) == b \in Existing /\ \A c \in Existing : c =< b

Deadline == ScheduledAt + GracePeriod

Goto(p, here, there) == pc[p] = here /\ pc' = [pc EXCEPT ![p] = there]

(* The local variables of a run end with it. *)
Ends(p, here) == Goto(p, here, "done") /\ run' = [run EXCEPT ![p] = NoLocals]

----------------------------------------------------------------------------

(* An earlier run, or a person running the CLI, may have left a batch.     *)
Init ==
    /\ StoreInit
    /\ clock = 0
    /\ pc = [p \in Runs |-> "idle"]
    /\ run = [p \in Runs |-> NoLocals]
    /\ child = [p \in Runs |-> NoChild]
    /\ \E s \in EarlierStatuses :
          batch = [b \in Batches |-> IF \A c \in Batches : b =< c THEN s ELSE "absent"]
    /\ overrun = FALSE

Tick ==
    /\ clock < MaxClock
    /\ clock' = clock + 1
    /\ UNCHANGED <<invocation, lease, pc, run, child, batch, overrun>>

Start(p) ==
    /\ clock =< StartBy
    /\ Goto(p, "idle", "created")
    /\ CreateInvocation(p)
    /\ run' = [run EXCEPT ![p].now = clock]
    /\ UNCHANGED <<clock, child, batch, overrun>>

(* The lease is granted at the time the run started, not the time it is    *)
(* now.                                                                    *)
Acquire(p) ==
    /\ Goto(p, "created", "acquired")
    /\ AcquireLease(p, EodKey, p, run[p].now, run[p].now + LeaseTtl)
    /\ overrun' = (overrun \/ \E q \in Runs :
                        /\ lease[q].status = "active" /\ lease'[q].status = "expired"
                        /\ pc[q] \notin Stopped \/ ChildAlive(q))
    /\ UNCHANGED <<clock, run, child, batch>>

Overlap(p) ==
    /\ Goto(p, "created", "overlapped")
    /\ Blocked(EodKey, run[p].now)
    /\ UNCHANGED <<invocation, lease, clock, run, child, batch, overrun>>

SkipOverlap(p) ==
    /\ Ends(p, "overlapped")
    /\ FinishInvocation(p, "skip")
    /\ UNCHANGED <<clock, child, batch, overrun>>

(* The requested date of a run may be a weekend. *)
Begin(p) ==
    /\ StartInvocation(p)
    /\ \/ Goto(p, "acquired", "probing") /\ UNCHANGED run
       \/ Goto(p, "acquired", "finishing") /\ run' = [run EXCEPT ![p].verdict = "skip"]
    /\ UNCHANGED <<clock, child, batch, overrun>>

(* Mutant: the sleep is not cut to the grace deadline. *)
DelayUncut(p, n) == Backoff(n)

(* How long a run that has failed n + 1 probes sleeps before the next. *)
Delay(p, n) ==
    IF p \in Scheduled /\ Deadline - clock < Backoff(n) THEN Deadline - clock
                                                       ELSE Backoff(n)

OutOfAttempts(p) ==
    \/ run[p].probes + 1 >= MaxDeferredAttempts
    \/ p \in Scheduled /\ clock >= Deadline

(* One readiness probe.  The wait ends with market data, with a permanent  *)
(* failure, or with the last answer when there are no attempts left.       *)
Probe(p) ==
    /\ \/ /\ Goto(p, "probing", "ready")
          /\ run' = [run EXCEPT ![p].probes = 0, ![p].wakeAt = 0]
       \/ \E v \in {"hard_failure", "deferred", "warning"} :
            /\ v # "hard_failure" => OutOfAttempts(p)
            /\ Goto(p, "probing", "finishing")
            /\ run' = [run EXCEPT ![p].probes = 0, ![p].wakeAt = 0, ![p].verdict = v]
       \/ /\ ~ OutOfAttempts(p)
          /\ Goto(p, "probing", "sleeping")
          /\ run' = [run EXCEPT ![p].probes = @ + 1,
                                ![p].wakeAt = clock + Delay(p, run[p].probes)]
    /\ UNCHANGED <<invocation, lease, clock, child, batch, overrun>>

(* A run asleep when the modelled time ends is woken then. *)
Wake(p) ==
    /\ clock >= run[p].wakeAt \/ clock = MaxClock
    /\ Goto(p, "sleeping", "probing")
    /\ UNCHANGED <<invocation, lease, clock, run, child, batch, overrun>>

(* The answer of heartbeat is ignored: a run that lost its lease goes on.  *)
RenewLease(p) ==
    /\ Goto(p, "ready", "lookup")
    /\ IF p \in ActiveLeases(EodKey) THEN Heartbeat(p, EodKey, clock + LeaseTtl)
                                     ELSE UNCHANGED <<invocation, lease>>
    /\ UNCHANGED <<clock, run, child, batch, overrun>>

(* find_existing_batch, then the CLI, told to resume an unfinished batch. *)
SpawnChild(p) ==
    /\ Goto(p, "lookup", "waiting")
    /\ \/ /\ Existing = {}
          /\ child' = [child EXCEPT ![p] =
                [status |-> "spawned", batch |-> NoBatch, mayCreate |-> TRUE]]
          /\ UNCHANGED run
       \/ \E b \in Batches :
          /\ IsNewest(b)
          /\ child' = [child EXCEPT ![p] =
                [status |-> "spawned", mayCreate |-> FALSE,
                 batch |-> IF batch[b] \in BatchDone THEN NoBatch ELSE b]]
          /\ run' = [run EXCEPT ![p].seen = b]
    /\ UNCHANGED <<invocation, lease, clock, batch, overrun>>

(* The child works on the batch it is told to resume or on the newest one; *)
(* it creates one if it finds none, even if another is created since.      *)
IsChosenBy(p, b) ==
    IF child[p].batch # NoBatch THEN b = child[p].batch
    ELSE \/ IsNewest(b)
         \/ /\ child[p].mayCreate
            /\ b \notin Existing /\ \A c \in Batches \ Existing : b =< c

ChildBegins(p) ==
    /\ child[p].status = "spawned"
    /\ \E b \in Batches :
          /\ IsChosenBy(p, b)
          /\ \/ /\ batch[b] \in BatchDone
                /\ child' = [child EXCEPT ![p].status = "exited", ![p].batch = b]
                /\ UNCHANGED batch
             \/ /\ batch[b] \notin BatchDone
                /\ child' = [child EXCEPT ![p].status = "working", ![p].batch = b]
                /\ batch' = [batch EXCEPT ![b] = "running"]
    /\ UNCHANGED <<invocation, lease, clock, pc, run, overrun>>

(* finish_batch_run writes only a row that is still running. *)
ChildEnds(p) ==
    /\ child[p].status = "working"
    /\ child' = [child EXCEPT ![p].status = "exited"]
    /\ \/ /\ batch[child[p].batch] = "running"
          /\ \E s \in {"success", "partial_success", "failed"} :
                batch' = [batch EXCEPT ![child[p].batch] = s]
       \/ /\ batch[child[p].batch] # "running"
          /\ UNCHANGED batch
    /\ UNCHANGED <<invocation, lease, clock, pc, run, overrun>>

ExitedSilently == [NoChild EXCEPT !.status = "exited"]

(* The child fails before it prints its batch id. *)
ChildDies(p) ==
    /\ ChildAlive(p)
    /\ child' = [child EXCEPT ![p] = ExitedSilently]
    /\ UNCHANGED <<invocation, lease, clock, pc, run, batch, overrun>>

(* Mutant: the except clause records nothing and leaves the rest to finally. *)
HandleUnrecorded(p) ==
    /\ ~ run[p].handling
    /\ pc' = [pc EXCEPT ![p] = "releasing"]
    /\ run' = [run EXCEPT ![p].handling = TRUE, ![p].probes = 0, ![p].wakeAt = 0]
    /\ UNCHANGED <<invocation, lease, clock, batch, overrun>>

(* Every exception in the try block leads to _finish(HARD_FAILURE); one    *)
(* raised while that runs leaves run_once (see Crash).                     *)
Handle(p) ==
    /\ ~ run[p].handling
    /\ pc' = [pc EXCEPT ![p] = "finishing"]
    /\ run' = [run EXCEPT ![p].handling = TRUE, ![p].verdict = "hard_failure",
                          ![p].probes = 0, ![p].wakeAt = 0]
    /\ UNCHANGED <<invocation, lease, clock, batch, overrun>>

(* The batch the run reports on: the id printed, else the one it had seen. *)
Reported(p) == IF child[p].batch # NoBatch THEN child[p].batch ELSE run[p].seen

(* set_batch_run_id; there is no batch to set, or the transaction fails.    *)
Collect(p) ==
    /\ child[p].status = "exited"
    /\ child' = [child EXCEPT ![p] = NoChild]
    /\ \/ /\ Reported(p) # NoBatch
          /\ Goto(p, "waiting", "reporting")
          /\ SetBatchRunId(p, Reported(p))
          /\ UNCHANGED <<clock, run, batch, overrun>>
       \/ pc[p] = "waiting" /\ Handle(p)

(* Mutant: the CLI is started without a timeout. *)
TimeOutUnset(p) == FALSE

(* subprocess.run kills the child when the CLI timeout passes. *)
TimeOut(p) ==
    /\ pc[p] = "waiting" /\ ChildAlive(p)
    /\ Handle(p)
    /\ child' = [child EXCEPT ![p] = NoChild]

(* Mutant: a failed batch passes its own status on. *)
VerdictUnmapped(status, reportsFailed) ==
    IF status = "failed" THEN "failed" ELSE "warning"

(* _classify_batch. *)
Verdict(status, reportsFailed) ==
    CASE status = "success" -> IF reportsFailed THEN "warning" ELSE "success"
      [] status = "partial_success" -> "partial_failure"
      [] status = "failed" -> "hard_failure"
      [] status \in BatchDone \ {"success"} -> "skip"
      [] status = "deferred_awaiting_market_data" -> "deferred"
      [] OTHER -> "warning"

(* Read the batch's checkpoint, render the reports, classify. *)
Report(p) ==
    /\ Goto(p, "reporting", "finishing")
    /\ \E failed \in BOOLEAN :
          run' = [run EXCEPT ![p].verdict = Verdict(batch[invocation[p].batch], failed)]
    /\ UNCHANGED <<invocation, lease, clock, child, batch, overrun>>

Finish(p) ==
    /\ Goto(p, "finishing", "releasing")
    /\ FinishInvocation(p, run[p].verdict)
    /\ UNCHANGED <<clock, run, child, batch, overrun>>

Release(p) ==
    /\ Ends(p, "releasing")
    /\ IF p \in ActiveLeases(EodKey) THEN ReleaseLease(p, EodKey, clock)
                                     ELSE UNCHANGED <<invocation, lease>>
    /\ UNCHANGED <<clock, child, batch, overrun>>

(* A transaction or a call fails (database locked, probe error ...). *)
Raises(p) ==
    /\ pc[p] \in TryBlock \ {"sleeping", "waiting"}
    /\ Handle(p)
    /\ UNCHANGED child

(* The process dies; its child does not. *)
Crash(p) ==
    /\ pc[p] \notin Stopped
    /\ pc' = [pc EXCEPT ![p] = "dead"]
    /\ run' = [run EXCEPT ![p] = NoLocals]
    /\ UNCHANGED <<invocation, lease, clock, child, batch, overrun>>

(* The machine restarts: every process and every child dies. *)
Restart ==
    /\ \E p \in Runs : pc[p] \notin Stopped \/ ChildAlive(p)
    /\ pc' = [p \in Runs |-> IF pc[p] \in Stopped THEN pc[p] ELSE "dead"]
    /\ run' = [p \in Runs |-> NoLocals]
    /\ child' = [p \in Runs |-> NoChild]
    /\ UNCHANGED <<invocation, lease, clock, batch, overrun>>

RunStep(p) ==
    \/ Acquire(p) \/ Overlap(p) \/ SkipOverlap(p) \/ Begin(p) \/ Probe(p) \/ Wake(p)
    \/ RenewLease(p) \/ SpawnChild(p) \/ Collect(p) \/ TimeOut(p) \/ Report(p)
    \/ Finish(p) \/ Release(p)

ChildStep(p) == ChildBegins(p) \/ ChildEnds(p) \/ ChildDies(p)

Next ==
    \/ Tick
    \/ Restart
    \/ \E p \in Runs :
        \/ Start(p)
        \/ RunStep(p)
        \/ ChildStep(p)
        \/ Raises(p)
        \/ Crash(p)

Spec == Init /\ [][Next]_vars

(* A run is straight-line code whose waits are bounded, so once started it *)
(* keeps taking steps until it ends or dies.  Time passes.  Nothing is     *)
(* assumed of the child: the CLI timeout covers one that hangs.            *)
FairSpec == Spec /\ WF_vars(Tick) /\ \A p \in Runs : WF_vars(RunStep(p))

----------------------------------------------------------------------------

(* Every variable keeps its type. *)
SchedulerTypeOK ==
    /\ StoreTypeOK
    /\ clock \in 0..MaxClock
    /\ pc \in [Runs -> Locations]
    /\ run \in [Runs -> RunLocals]
    /\ child \in [Runs -> ChildProcess]
    /\ batch \in [Batches -> BatchStatuses]
    /\ overrun \in BOOLEAN

(* Two runs are never at work under leases that have both time left, even  *)
(* though each acquires with the clock it read when it started and even    *)
(* though heartbeat's answer is ignored: exclusion fails only for a run    *)
(* that outlives its own lease.                                            *)
UnexpiredHoldersExclusive ==
    \A p, q \in Runs :
        /\ p # q
        /\ pc[p] \in AtWork /\ pc[q] \in AtWork
        /\ lease[p].expires > clock
        => lease[q].expires =< clock

(* As long as no lease was taken over from a run or a child still at work, *)
(* there is one batch for the date and one child working on it, whatever   *)
(* crashes and restarts happen: the lease is what makes the child's        *)
(* look-then-create safe.                                                  *)
OneBatchWithoutOverrun ==
    ~ overrun => /\ \A b, c \in Existing : b = c
                 /\ \A p, q \in Runs :
                        child[p].status = "working" /\ child[q].status = "working" => p = q

(* A run is turned away only by a lease that had time left when that run   *)
(* started; a run left behind by a crash does not block the ones that      *)
(* start after its lease has expired.                                      *)
OverlapJustified ==
    \A p \in Runs : pc[p] = "overlapped" =>
        \E q \in Runs : q # p /\ lease[q].expires > run[p].now

(* A lease is released only after the run's verdict is on record, and a    *)
(* run that ends holds no lease: a crash between the two transactions      *)
(* leaves a lease to expire, never a released lease without a verdict.     *)
VerdictBeforeRelease ==
    \A p \in Runs :
        /\ lease[p].status = "released" => invocation[p].status \in FinalStatuses
        /\ pc[p] = "done" => /\ lease[p].status # "active"
                             /\ invocation[p].status \in FinalStatuses

(* A verdict on record is changed only by the run it belongs to, and then  *)
(* only if the run's lease was taken over, or if it records a hard failure *)
(* because something failed after the verdict.  A verdict that a run which *)
(* still holds its lease has recorded is never replaced by a better one,   *)
(* although finish_invocation does not look at what it replaces.           *)
VerdictKept ==
    \A p \in Runs :
        /\ invocation[p].status \in FinalStatuses
        /\ invocation'[p].status # invocation[p].status
        => /\ pc[p] # pc'[p]
           /\ \/ lease[p].status = "expired"
              \/ run[p].handling /\ invocation'[p].status = "hard_failure"

(* The wait for market data is bounded: a scheduled run never sleeps past  *)
(* its grace deadline, and no run probes more often than configured.       *)
ProbesBounded ==
    \A p \in Runs :
        pc[p] = "sleeping" => /\ run[p].probes < MaxDeferredAttempts
                              /\ p \in Scheduled => run[p].wakeAt =< Deadline

(* Every run that starts ends: it records a verdict and releases, or dies. *)
EveryRunEnds ==
    \A p \in Runs : pc[p] = "created" ~> pc[p] \in {"done", "dead"}

(* The lease is honoured on both sides: no two runs are at work under      *)
(* leases with time left, and none is turned away without such a lease.    *)
LeasesHonoured == UnexpiredHoldersExclusive /\ OverlapJustified

(* The verdict of a run is on record before its lease is released, and     *)
(* what is on record changes only as VerdictKept allows.                   *)
VerdictsStand == [][VerdictBeforeRelease' /\ VerdictKept]_vars
=============================================================================
