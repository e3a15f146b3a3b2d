--------------------------- MODULE OperationLease ---------------------------
(***************************************************************************)
(* The operations repository, app/storage/operations.py: the table of      *)
(* scheduler invocations and the table of operation leases, and the        *)
(* methods that write them.  Every method is one SQLite transaction, hence *)
(* one action.  The repository reads no clock: each method receives its    *)
(* timestamps from the caller, who may have read them long before, so they *)
(* are arbitrary here, and the module allows the calls in any order.       *)
(*                                                                         *)
(* Left out: log lines, error texts, attempt counts and the timestamps     *)
(* that no method ever reads back.                                         *)
(***************************************************************************)
EXTENDS Naturals

CONSTANTS
    Invocations,    \* invocation_id: one scheduler_invocations row each
    Leases,         \* lease_id: one operation_leases row each
    Keys,           \* lease_key
    Batches,        \* batch_run_id of the batches an invocation may name
    NoBatch,        \* the NULL batch_run_id
    NoLease,        \* "no lease" in the abstract view
    MaxTime         \* bound on timestamps

ASSUME LeaseAssumption ==
    /\ MaxTime \in Nat
    /\ Keys # {} /\ Invocations # {}
    /\ NoBatch \notin Batches
    /\ NoLease \notin Leases

VARIABLES
    invocation,     \* scheduler_invocations: status and batch_run_id
    lease           \* operation_leases

storeVars == <<invocation, lease>>

Time == 0..MaxTime

FinalStatuses ==
    {"success", "warning", "partial_failure", "hard_failure", "skip", "deferred"}

(* "none" is a row that has not been inserted. *)
InvocationStatuses == {"none", "pending", "running"} \cup FinalStatuses

LeaseStatuses == {"none", "active", "released", "expired"}

InvocationRow == [status : InvocationStatuses, batch : Batches \cup {NoBatch}]

(* released stands for released_at, which is NULL (0 here) while active. *)
LeaseRow ==
    [status : LeaseStatuses, key : Keys, owner : Invocations,
     acquired : Time, expires : Time, released : Time]

NoInvocationRow == [status |-> "none", batch |-> NoBatch]

NoLeaseRow ==
    [status |-> "none", key |-> CHOOSE k \in Keys : TRUE,
     owner |-> CHOOSE i \in Invocations : TRUE,
     acquired |-> 0, expires |-> 0, released |-> 0]

Inserted(i) == invocation[i].status # "none"

ActiveLeases(k) == {l \in Leases : lease[l].status = "active" /\ lease[l].key = k}

(* The row that acquire_lease selects: active, newest acquired_at first.   *)
IsCurrent(c, k) ==
    /\ c \in ActiveLeases(k)
    /\ \A l \in ActiveLeases(k) : lease[l].acquired =< lease[c].acquired

(* Mutant: a lease that expires at this moment still blocks. *)
BlockedAtExpiry(k, at) == \E c \in Leases : IsCurrent(c, k) /\ lease[c].expires >= at

(* acquire_lease answers "not acquired": the selected row expires later    *)
(* than the caller's acquired_at.                                          *)
Blocked(k, at) == \E c \in Leases : IsCurrent(c, k) /\ lease[c].expires > at

NewLeaseRow(k, i, at, until) ==
    [status |-> "active", key |-> k, owner |-> i,
     acquired |-> at, expires |-> until, released |-> 0]

----------------------------------------------------------------------------

StoreInit ==
    /\ invocation = [i \in Invocations |-> NoInvocationRow]
    /\ lease = [l \in Leases |-> NoLeaseRow]

CreateInvocation(i) ==
    /\ ~ Inserted(i)
    /\ invocation' = [invocation EXCEPT ![i].status = "pending"]
    /\ UNCHANGED lease

(* No condition on the current status: a finished row runs again. *)
StartInvocation(i) ==
    /\ Inserted(i)
    /\ invocation' = [invocation EXCEPT ![i].status = "running"]
    /\ UNCHANGED lease

SetBatchRunId(i, b) ==
    /\ Inserted(i)
    /\ invocation' = [invocation EXCEPT ![i].batch = b]
    /\ UNCHANGED lease

(* No condition on the current status either: the verdict of a run whose   *)
(* lease was taken over replaces the 'warning' the takeover wrote.         *)
FinishInvocation(i, status) ==
    /\ Inserted(i)
    /\ status \in FinalStatuses
    /\ invocation' = [invocation EXCEPT ![i].status = status]
    /\ UNCHANGED lease

(* Mutant: no foreign key check on the owner. *)
AcquireFreeUnowned(l, k, i, at, until) ==
    /\ lease[l].status = "none" /\ at < until
    /\ ActiveLeases(k) = {}
    /\ lease' = [lease EXCEPT ![l] = NewLeaseRow(k, i, at, until)]
    /\ UNCHANGED invocation

(* Mutant: the active row is not looked for. *)
AcquireFreeBlind(l, k, i, at, until) ==
    /\ Inserted(i) /\ lease[l].status = "none" /\ at < until
    /\ lease' = [lease EXCEPT ![l] = NewLeaseRow(k, i, at, until)]
    /\ UNCHANGED invocation

(* acquire_lease with no active row for the key. *)
AcquireFree(l, k, i, at, until) ==
    /\ Inserted(i) /\ lease[l].status = "none" /\ at < until
    /\ ActiveLeases(k) = {}
    /\ lease' = [lease EXCEPT ![l] = NewLeaseRow(k, i, at, until)]
    /\ UNCHANGED invocation

(* Mutant: the takeover gives the old invocation the status of its lease. *)
InterruptedAsExpired(row) == [row EXCEPT !.status = "expired"]

(* Mutant: the takeover does not ask whether the old invocation was running. *)
InterruptedAlways(row) == [row EXCEPT !.status = "warning"]

(* What the takeover does to the invocation that owned the lease. *)
Interrupted(row) == IF row.status = "running" THEN [row EXCEPT !.status = "warning"]
                                             ELSE row

(* Mutant: the old lease is not retired. *)
AcquireExpiredKeeping(c, l, k, i, at, until) ==
    /\ Inserted(i) /\ lease[l].status = "none" /\ at < until
    /\ IsCurrent(c, k) /\ lease[c].expires =< at
    /\ invocation' = [invocation EXCEPT ![lease[c].owner] = Interrupted(@)]
    /\ lease' = [lease EXCEPT ![l] = NewLeaseRow(k, i, at, until)]

(* Mutant: the expiry of the old lease is not compared with the clock. *)
AcquireExpiredEarly(c, l, k, i, at, until) ==
    /\ Inserted(i) /\ lease[l].status = "none" /\ at < until
    /\ IsCurrent(c, k)
    /\ invocation' = [invocation EXCEPT ![lease[c].owner] = Interrupted(@)]
    /\ lease' = [lease EXCEPT ![c].status = "expired", ![c].released = at,
                              ![l] = NewLeaseRow(k, i, at, until)]

(* acquire_lease over an active row that has expired: the old invocation is *)
(* closed if it was running, the old lease expires, the new one starts.     *)
AcquireExpired(c, l, k, i, at, until) ==
    /\ Inserted(i) /\ lease[l].status = "none" /\ at < until
    /\ IsCurrent(c, k) /\ lease[c].expires =< at
    /\ invocation' = [invocation EXCEPT ![lease[c].owner] = Interrupted(@)]
    /\ lease' = [lease EXCEPT ![c].status = "expired", ![c].released = at,
                              ![l] = NewLeaseRow(k, i, at, until)]

AcquireLease(l, k, i, at, until) ==
    \/ AcquireFree(l, k, i, at, until)
    \/ \E c \in Leases : AcquireExpired(c, l, k, i, at, until)

(* Mutant: the UPDATE does not ask for an active row. *)
HeartbeatAnyRow(l, k, until) ==
    /\ lease[l].status # "none" /\ lease[l].key = k
    /\ lease' = [lease EXCEPT ![l].expires = until]
    /\ UNCHANGED invocation

(* Only an active row moves; on any other the call changes nothing and     *)
(* returns the row all the same.                                           *)
Heartbeat(l, k, until) ==
    /\ l \in ActiveLeases(k)
    /\ lease' = [lease EXCEPT ![l].expires = until]
    /\ UNCHANGED invocation

ReleaseLease(l, k, at) ==
    /\ l \in ActiveLeases(k)
    /\ lease' = [lease EXCEPT ![l].status = "released", ![l].released = at]
    /\ UNCHANGED invocation

StoreNext ==
    \/ \E i \in Invocations :
        \/ CreateInvocation(i)
        \/ StartInvocation(i)
        \/ \E b \in Batches : SetBatchRunId(i, b)
        \/ \E status \in FinalStatuses : FinishInvocation(i, status)
    \/ \E l \in Leases, k \in Keys :
        \/ \E i \in Invocations, at, until \in Time : AcquireLease(l, k, i, at, until)
        \/ \E until \in Time : Heartbeat(l, k, until)
        \/ \E at \in Time : ReleaseLease(l, k, at)

StoreSpec == StoreInit /\ [][StoreNext]_storeVars

----------------------------------------------------------------------------

(* Every row of the two tables has the shape the schema gives it. *)
StoreTypeOK ==
    /\ invocation \in [Invocations -> InvocationRow]
    /\ lease \in [Leases -> LeaseRow]

(* A lease row in the table belongs to an invocation row in the table: the *)
(* foreign key of operation_leases.                                        *)
LeaseOwnerExists ==
    \A l \in Leases : lease[l].status # "none" => Inserted(lease[l].owner)

(* For every key at most one lease row is active, whatever the callers and *)
(* their timestamps.  The partial unique index on active rows is not       *)
(* modelled: this says that it never has an INSERT to refuse, because      *)
(* acquire_lease retires the row it found before it inserts another.       *)
OneActiveLeasePerKey ==
    \A l, m \in Leases :
        /\ lease[l].status = "active" /\ lease[m].status = "active"
        /\ lease[l].key = lease[m].key
        => l = m

(* A lease is recorded as expired only because another lease for its key   *)
(* was granted at a time at or after its expiry: acquire_lease never       *)
(* retires a lease early, and nothing extends a lease that was retired.    *)
ExpiredWasReplaced ==
    \A l \in Leases : lease[l].status = "expired" =>
        /\ lease[l].expires =< lease[l].released
        /\ \E m \in Leases :
              /\ m # l /\ lease[m].status # "none"
              /\ lease[m].key = lease[l].key
              /\ lease[m].acquired = lease[l].released

(* A closed lease row is history: a late heartbeat or release of a holder  *)
(* that lost its lease changes nothing in it.                              *)
ClosedLeaseFrozen ==
    [][\A l \in Leases :
          lease[l].status \in {"released", "expired"} => lease'[l] = lease[l]]_storeVars

(* The lease table implements an exclusive lease: the holder of a key is   *)
(* its active row, and a grant ends when its row is closed.                *)
HolderOf(k) ==
    IF ActiveLeases(k) = {} THEN NoLease ELSE CHOOSE l \in ActiveLeases(k) : TRUE

Abstract == INSTANCE ExclusiveLease WITH
    Grants <- Leases, NoGrant <- NoLease,
    holder <- [k \in Keys |-> HolderOf(k)],
    since <- [l \in Leases |-> lease[l].acquired],
    deadline <- [l \in Leases |-> lease[l].expires],
    ended <- {l \in Leases : lease[l].status \in {"released", "expired"}}

ImplementsExclusiveLease == Abstract!Spec

(* What has been retired stands: no lease expires early, and a late        *)
(* heartbeat or release of its former holder does not bring it back.       *)
RetiredLeasesStand ==
    [][/\ ExpiredWasReplaced'
       /\ \A l \in Leases :
             lease[l].status \in {"released", "expired"} => lease'[l] = lease[l]]_storeVars
=============================================================================
