------------------------ MODULE EodScheduler_proofs ------------------------
(***************************************************************************)
(* Theorems about the operations repository, for any numbers of            *)
(* invocations, leases and keys and any timestamps; and about the          *)
(* scheduler, for any number of runs, batches, attempts and any lease      *)
(* length.  The scheduler uses the repository as OperationLease allows, so *)
(* that the theorems of the first part hold of it.                         *)
(***************************************************************************)
EXTENDS EodScheduler, TLAPS

----------------------------------------------------------------------------
(* The repository: OperationLease.                                         *)
----------------------------------------------------------------------------

(* The row inserted by acquire_lease is a lease row. *)
LEMMA NewLeaseRowType ==
    ASSUME NEW k \in Keys, NEW i \in Invocations, NEW at \in Time, NEW until \in Time
    PROVE  NewLeaseRow(k, i, at, until) \in LeaseRow
BY LeaseAssumption DEF NewLeaseRow, LeaseRow, LeaseStatuses, Time

(* Every step of the repository keeps the types of the two tables. *)
LEMMA StoreTypeStep == StoreTypeOK /\ [StoreNext]_storeVars => StoreTypeOK'
<1> SUFFICES ASSUME StoreTypeOK, [StoreNext]_storeVars PROVE StoreTypeOK'
  OBVIOUS
<1> USE DEF StoreTypeOK
<1>1. ASSUME NEW i \in Invocations, CreateInvocation(i) PROVE StoreTypeOK'
  BY <1>1 DEF CreateInvocation, InvocationRow, InvocationStatuses
<1>2. ASSUME NEW i \in Invocations, StartInvocation(i) PROVE StoreTypeOK'
  BY <1>2 DEF StartInvocation, InvocationRow, InvocationStatuses
<1>3. ASSUME NEW i \in Invocations, NEW b \in Batches, SetBatchRunId(i, b)
      PROVE  StoreTypeOK'
  BY <1>3 DEF SetBatchRunId, InvocationRow
<1>4. ASSUME NEW i \in Invocations, NEW st \in FinalStatuses, FinishInvocation(i, st)
      PROVE  StoreTypeOK'
  BY <1>4 DEF FinishInvocation, InvocationRow, InvocationStatuses
<1>5. ASSUME NEW l \in Leases, NEW k \in Keys, NEW i \in Invocations,
             NEW at \in Time, NEW until \in Time, AcquireLease(l, k, i, at, until)
      PROVE  StoreTypeOK'
  <2>1. CASE AcquireFree(l, k, i, at, until)
    BY <2>1, NewLeaseRowType DEF AcquireFree
  <2>2. ASSUME NEW c \in Leases, AcquireExpired(c, l, k, i, at, until)
        PROVE  StoreTypeOK'
    <3> DEFINE mid == [lease EXCEPT ![c].status = "expired", ![c].released = at]
    <3>1. mid \in [Leases -> LeaseRow]
      BY DEF LeaseRow, LeaseStatuses
    <3>2. lease' = [mid EXCEPT ![l] = NewLeaseRow(k, i, at, until)]
      BY <2>2 DEF AcquireExpired
    <3>3. lease' \in [Leases -> LeaseRow]
      BY <3>1, <3>2, NewLeaseRowType
    <3>4. lease[c].owner \in Invocations
      BY DEF LeaseRow
    <3>5. \A row \in InvocationRow : Interrupted(row) \in InvocationRow
      BY DEF Interrupted, InvocationRow, InvocationStatuses, FinalStatuses
    <3>6. invocation' \in [Invocations -> InvocationRow]
      BY <2>2, <3>4, <3>5 DEF AcquireExpired
    <3> QED
      BY <3>3, <3>6
  <2> QED
    BY <1>5, <2>1, <2>2 DEF AcquireLease
<1>6. ASSUME NEW l \in Leases, NEW k \in Keys, NEW until \in Time, Heartbeat(l, k, until)
      PROVE  StoreTypeOK'
  BY <1>6 DEF Heartbeat, LeaseRow
<1>7. ASSUME NEW l \in Leases, NEW k \in Keys, NEW at \in Time, ReleaseLease(l, k, at)
      PROVE  StoreTypeOK'
  BY <1>7 DEF ReleaseLease, LeaseRow, LeaseStatuses
<1>8. CASE UNCHANGED storeVars
  BY <1>8 DEF storeVars
<1> QED
  BY <1>1, <1>2, <1>3, <1>4, <1>5, <1>6, <1>7, <1>8 DEF StoreNext

LEMMA StoreTypeInit == StoreInit => StoreTypeOK
<1>1. 0 \in Time
  BY LeaseAssumption DEF Time
<1>2. (CHOOSE k \in Keys : TRUE) \in Keys /\ (CHOOSE i \in Invocations : TRUE) \in Invocations
  BY LeaseAssumption
<1> QED
  BY <1>1, <1>2 DEF StoreInit, StoreTypeOK, NoInvocationRow, NoLeaseRow, InvocationRow,
                    LeaseRow, InvocationStatuses, LeaseStatuses

(* The two tables keep their types under any sequence of repository calls. *)
THEOREM StoreTypeCorrect == StoreSpec => []StoreTypeOK
<1>1. StoreInit => StoreTypeOK
  BY StoreTypeInit
<1>2. StoreTypeOK /\ [StoreNext]_storeVars => StoreTypeOK'
  BY StoreTypeStep
<1> QED
  BY <1>1, <1>2, PTL DEF StoreSpec

----------------------------------------------------------------------------

(* The row of a lease that ends, and of one that is renewed. *)
Closed(row, status, at) == [row EXCEPT !.status = status, !.released = at]

Renewed(row, until) == [row EXCEPT !.expires = until]

LEMMA RowFields ==
    ASSUME NEW row \in LeaseRow, NEW status, NEW t
    PROVE  /\ Closed(row, status, t).status = status
           /\ Closed(row, status, t).released = t
           /\ Closed(row, status, t).key = row.key
           /\ Closed(row, status, t).owner = row.owner
           /\ Closed(row, status, t).acquired = row.acquired
           /\ Closed(row, status, t).expires = row.expires
           /\ Renewed(row, t).expires = t
           /\ Renewed(row, t).status = row.status
           /\ Renewed(row, t).released = row.released
           /\ Renewed(row, t).key = row.key
           /\ Renewed(row, t).owner = row.owner
           /\ Renewed(row, t).acquired = row.acquired
BY DEF LeaseRow, Closed, Renewed

(* What each of the calls that write the lease table does to it.           *)
LEMMA AcquireFreeEffect ==
    StoreTypeOK =>
    \A l \in Leases, k \in Keys, i \in Invocations, at, until \in Time :
       AcquireFree(l, k, i, at, until) =>
       /\ invocation' = invocation
       /\ lease[l].status = "none" /\ at < until
       /\ Inserted(i)
       /\ ActiveLeases(k) = {}
       /\ lease'[l] = NewLeaseRow(k, i, at, until)
       /\ \A m \in Leases : m # l => lease'[m] = lease[m]
BY DEF AcquireFree, StoreTypeOK

LEMMA AcquireExpiredEffect ==
    StoreTypeOK =>
    \A c, l \in Leases, k \in Keys, i \in Invocations, at, until \in Time :
       AcquireExpired(c, l, k, i, at, until) =>
       /\ lease[l].status = "none" /\ at < until
       /\ Inserted(i)
       /\ c # l /\ c \in ActiveLeases(k)
       /\ lease[c].expires =< at
       /\ lease'[l] = NewLeaseRow(k, i, at, until)
       /\ lease'[c] = Closed(lease[c], "expired", at)
       /\ \A m \in Leases : m # l /\ m # c => lease'[m] = lease[m]
<1> SUFFICES ASSUME StoreTypeOK, NEW c \in Leases, NEW l \in Leases, NEW k \in Keys,
                    NEW i \in Invocations, NEW at \in Time, NEW until \in Time,
                    AcquireExpired(c, l, k, i, at, until)
             PROVE  /\ lease[l].status = "none"
                    /\ at < until /\ Inserted(i)
                    /\ c # l /\ c \in ActiveLeases(k)
                    /\ lease[c].expires =< at
                    /\ lease'[l] = NewLeaseRow(k, i, at, until)
                    /\ lease'[c] = Closed(lease[c], "expired", at)
                    /\ \A m \in Leases : m # l /\ m # c => lease'[m] = lease[m]
  OBVIOUS
<1>1. /\ c \in ActiveLeases(k) /\ lease[c].expires =< at
      /\ lease[l].status = "none" /\ at < until /\ Inserted(i)
  BY DEF AcquireExpired, IsCurrent
<1>2. c # l
  BY <1>1 DEF ActiveLeases
<1>3. lease' = [lease EXCEPT ![c].status = "expired", ![c].released = at,
                             ![l] = NewLeaseRow(k, i, at, until)]
  BY DEF AcquireExpired
<1>4. lease'[c] = Closed(lease[c], "expired", at)
  BY <1>2, <1>3 DEF StoreTypeOK, LeaseRow, Closed
<1>5. /\ lease'[l] = NewLeaseRow(k, i, at, until)
      /\ \A m \in Leases : m # l /\ m # c => lease'[m] = lease[m]
  BY <1>3 DEF StoreTypeOK
<1> QED
  BY <1>1, <1>2, <1>4, <1>5

LEMMA HeartbeatEffect ==
    StoreTypeOK =>
    \A l \in Leases, k \in Keys, until \in Time :
       Heartbeat(l, k, until) =>
       /\ invocation' = invocation
       /\ l \in ActiveLeases(k)
       /\ lease'[l] = Renewed(lease[l], until)
       /\ \A m \in Leases : m # l => lease'[m] = lease[m]
BY DEF Heartbeat, StoreTypeOK, Renewed

LEMMA ReleaseLeaseEffect ==
    StoreTypeOK =>
    \A l \in Leases, k \in Keys, at \in Time :
       ReleaseLease(l, k, at) =>
       /\ invocation' = invocation
       /\ l \in ActiveLeases(k)
       /\ lease'[l] = Closed(lease[l], "released", at)
       /\ \A m \in Leases : m # l => lease'[m] = lease[m]
BY DEF ReleaseLease, StoreTypeOK, LeaseRow, Closed

(* The steps that write the invocation table only, and stuttering. *)
LEMMA LeaseTableUntouched ==
    [StoreNext]_storeVars =>
       \/ UNCHANGED lease
       \/ \E l \in Leases, k \in Keys :
            \/ \E i \in Invocations, at, until \in Time :
                  AcquireLease(l, k, i, at, until)
            \/ \E until \in Time : Heartbeat(l, k, until)
            \/ \E at \in Time : ReleaseLease(l, k, at)
BY DEF StoreNext, storeVars, CreateInvocation, StartInvocation, SetBatchRunId,
       FinishInvocation

----------------------------------------------------------------------------

(* acquire_lease, heartbeat and release_lease leave one active lease per   *)
(* key.                                                                    *)
LEMMA OneActiveStep ==
    StoreTypeOK /\ OneActiveLeasePerKey /\ [StoreNext]_storeVars => OneActiveLeasePerKey'
<1> SUFFICES ASSUME StoreTypeOK, OneActiveLeasePerKey, [StoreNext]_storeVars
             PROVE  OneActiveLeasePerKey'
  OBVIOUS
<1> USE DEF OneActiveLeasePerKey, ActiveLeases
<1>0. \A m \in Leases : lease[m] \in LeaseRow
  BY DEF StoreTypeOK
<1>1. CASE UNCHANGED lease
  BY <1>1
<1>2. ASSUME NEW l \in Leases, NEW k \in Keys, NEW i \in Invocations,
             NEW at \in Time, NEW until \in Time, AcquireFree(l, k, i, at, until)
      PROVE  OneActiveLeasePerKey'
  <2>1. lease'[l].key = k
    <3>1. lease'[l] = NewLeaseRow(k, i, at, until)
      BY <1>2, AcquireFreeEffect
    <3> QED
      BY <3>1 DEF NewLeaseRow
  <2>2. \A m \in Leases : m # l => lease'[m] = lease[m]
    BY <1>2, AcquireFreeEffect
  <2>3. \A m \in Leases : lease[m].status = "active" => lease[m].key # k
    BY <1>2, AcquireFreeEffect
  <2> QED
    BY <2>1, <2>2, <2>3
<1>3. ASSUME NEW c \in Leases, NEW l \in Leases, NEW k \in Keys, NEW i \in Invocations,
             NEW at \in Time, NEW until \in Time, AcquireExpired(c, l, k, i, at, until)
      PROVE  OneActiveLeasePerKey'
  <2>1. lease'[l].key = k
    <3>1. lease'[l] = NewLeaseRow(k, i, at, until)
      BY <1>3, AcquireExpiredEffect
    <3> QED
      BY <3>1 DEF NewLeaseRow
  <2>2. \A m \in Leases : m # l /\ m # c => lease'[m] = lease[m]
    BY <1>3, AcquireExpiredEffect
  <2>3. lease'[c].status = "expired"
    <3>1. lease'[c] = Closed(lease[c], "expired", at)
      BY <1>3, AcquireExpiredEffect
    <3> QED
      BY <1>0, <3>1, RowFields
  <2>4. lease[c].status = "active" /\ lease[c].key = k
    BY <1>3, AcquireExpiredEffect
  <2> QED
    BY <2>1, <2>2, <2>3, <2>4
<1>4. ASSUME NEW l \in Leases, NEW k \in Keys, NEW until \in Time, Heartbeat(l, k, until)
      PROVE  OneActiveLeasePerKey'
  <2>1. \A m \in Leases : m # l => lease'[m] = lease[m]
    BY <1>4, HeartbeatEffect
  <2>2. lease'[l].status = lease[l].status /\ lease'[l].key = lease[l].key
    <3>1. lease'[l] = Renewed(lease[l], until)
      BY <1>4, HeartbeatEffect
    <3> QED
      BY <1>0, <3>1, RowFields
  <2> QED
    BY <2>1, <2>2
<1>5. ASSUME NEW l \in Leases, NEW k \in Keys, NEW at \in Time, ReleaseLease(l, k, at)
      PROVE  OneActiveLeasePerKey'
  <2>1. \A m \in Leases : m # l => lease'[m] = lease[m]
    BY <1>5, ReleaseLeaseEffect
  <2>2. lease'[l].status = "released"
    <3>1. lease'[l] = Closed(lease[l], "released", at)
      BY <1>5, ReleaseLeaseEffect
    <3> QED
      BY <1>0, <3>1, RowFields
  <2> QED
    BY <2>1, <2>2
<1> QED
  BY <1>1, <1>2, <1>3, <1>4, <1>5, LeaseTableUntouched DEF AcquireLease

(* Whatever the callers do and whatever timestamps they bring, no key ever *)
(* has two active leases.                                                  *)
THEOREM LeaseExclusive == StoreSpec => []OneActiveLeasePerKey
<1>1. StoreInit => OneActiveLeasePerKey
  BY DEF StoreInit, OneActiveLeasePerKey, NoLeaseRow
<1> QED
  BY <1>1, StoreTypeCorrect, OneActiveStep, PTL DEF StoreSpec

(* A row that has been closed is never written again: every update of      *)
(* operation_leases names an active row.                                   *)
THEOREM ClosedLeasesFrozen == StoreSpec => ClosedLeaseFrozen
<1> DEFINE Frozen == \A l \in Leases :
              lease[l].status \in {"released", "expired"} => lease'[l] = lease[l]
<1>1. StoreTypeOK /\ [StoreNext]_storeVars => Frozen
  <2> SUFFICES ASSUME StoreTypeOK, [StoreNext]_storeVars PROVE Frozen
    OBVIOUS
  <2>1. CASE UNCHANGED lease
    BY <2>1
  <2>2. ASSUME NEW l \in Leases, NEW k \in Keys, NEW i \in Invocations,
               NEW at \in Time, NEW until \in Time, AcquireFree(l, k, i, at, until)
        PROVE  Frozen
    BY <2>2, AcquireFreeEffect
  <2>3. ASSUME NEW c \in Leases, NEW l \in Leases, NEW k \in Keys, NEW i \in Invocations,
               NEW at \in Time, NEW until \in Time, AcquireExpired(c, l, k, i, at, until)
        PROVE  Frozen
    BY <2>3, AcquireExpiredEffect DEF ActiveLeases
  <2>4. ASSUME NEW l \in Leases, NEW k \in Keys, NEW until \in Time, Heartbeat(l, k, until)
        PROVE  Frozen
    BY <2>4, HeartbeatEffect DEF ActiveLeases
  <2>5. ASSUME NEW l \in Leases, NEW k \in Keys, NEW at \in Time, ReleaseLease(l, k, at)
        PROVE  Frozen
    BY <2>5, ReleaseLeaseEffect DEF ActiveLeases
  <2> QED
    BY <2>1, <2>2, <2>3, <2>4, <2>5, LeaseTableUntouched DEF AcquireLease
<1> QED
  BY <1>1, StoreTypeCorrect, PTL DEF StoreSpec, ClosedLeaseFrozen

----------------------------------------------------------------------------

(* A lease row keeps its key, and one that was inserted stays inserted.    *)
LEMMA LeaseRowsPersist ==
    StoreTypeOK /\ [StoreNext]_storeVars =>
    \A l \in Leases : lease[l].status # "none" =>
        /\ lease'[l].status # "none"
        /\ lease'[l].key = lease[l].key
        /\ lease'[l].acquired = lease[l].acquired
        /\ lease'[l].owner = lease[l].owner
<1> SUFFICES ASSUME StoreTypeOK, [StoreNext]_storeVars,
                    NEW x \in Leases, lease[x].status # "none"
             PROVE  /\ lease'[x].status # "none"
                    /\ lease'[x].key = lease[x].key
                    /\ lease'[x].acquired = lease[x].acquired
                    /\ lease'[x].owner = lease[x].owner
  OBVIOUS
<1> DEFINE Persists == /\ lease'[x].status # "none"
                       /\ lease'[x].key = lease[x].key
                       /\ lease'[x].acquired = lease[x].acquired
                       /\ lease'[x].owner = lease[x].owner
<1>0. lease[x] \in LeaseRow
  BY DEF StoreTypeOK
<1>1. CASE lease'[x] = lease[x]
  BY <1>1
<1>2. ASSUME NEW l \in Leases, NEW k \in Keys, NEW i \in Invocations,
             NEW at \in Time, NEW until \in Time, AcquireFree(l, k, i, at, until)
      PROVE  lease'[x] = lease[x]
  BY <1>2, AcquireFreeEffect
<1>3. ASSUME NEW c \in Leases, NEW l \in Leases, NEW k \in Keys, NEW i \in Invocations,
             NEW at \in Time, NEW until \in Time, AcquireExpired(c, l, k, i, at, until)
      PROVE  Persists
  <2>1. lease'[x] = lease[x] \/ lease'[x] = Closed(lease[x], "expired", at)
    BY <1>3, AcquireExpiredEffect
  <2> QED
    BY <1>0, <1>1, <2>1, RowFields
<1>4. ASSUME NEW l \in Leases, NEW k \in Keys, NEW until \in Time, Heartbeat(l, k, until)
      PROVE  Persists
  <2>1. lease'[x] = lease[x] \/ lease'[x] = Renewed(lease[x], until)
    BY <1>4, HeartbeatEffect
  <2> QED
    BY <1>0, <1>1, <2>1, RowFields
<1>5. ASSUME NEW l \in Leases, NEW k \in Keys, NEW at \in Time, ReleaseLease(l, k, at)
      PROVE  Persists
  <2>1. lease'[x] = lease[x] \/ lease'[x] = Closed(lease[x], "released", at)
    BY <1>5, ReleaseLeaseEffect
  <2> QED
    BY <1>0, <1>1, <2>1, RowFields
<1> QED
  BY <1>1, <1>2, <1>3, <1>4, <1>5, LeaseTableUntouched DEF AcquireLease

(* Only a grant expires a lease, and it takes the place of the lease that  *)
(* expires at the moment it names; all others are as they were.            *)
LEMMA ExpiredStep ==
    StoreTypeOK /\ ExpiredWasReplaced /\ [StoreNext]_storeVars => ExpiredWasReplaced'
<1> SUFFICES ASSUME StoreTypeOK, ExpiredWasReplaced, [StoreNext]_storeVars,
                    NEW x \in Leases, lease'[x].status = "expired"
             PROVE  /\ lease'[x].expires =< lease'[x].released
                    /\ \E m \in Leases :
                          /\ m # x /\ lease'[m].status # "none"
                          /\ lease'[m].key = lease'[x].key
                          /\ lease'[m].acquired = lease'[x].released
  BY DEF ExpiredWasReplaced
<1> DEFINE Replaced == /\ lease'[x].expires =< lease'[x].released
                       /\ \E m \in Leases :
                             /\ m # x /\ lease'[m].status # "none"
                             /\ lease'[m].key = lease'[x].key
                             /\ lease'[m].acquired = lease'[x].released
<1>0. lease[x] \in LeaseRow
  BY DEF StoreTypeOK
<1>1. CASE lease'[x] = lease[x]
  <2>1. /\ lease[x].expires =< lease[x].released
        /\ \E m \in Leases : /\ m # x /\ lease[m].status # "none"
                             /\ lease[m].key = lease[x].key
                             /\ lease[m].acquired = lease[x].released
    BY <1>1 DEF ExpiredWasReplaced
  <2> QED
    BY <1>1, <2>1, LeaseRowsPersist
<1>2. ASSUME NEW l \in Leases, NEW k \in Keys, NEW i \in Invocations,
             NEW at \in Time, NEW until \in Time, AcquireFree(l, k, i, at, until)
      PROVE  lease'[x] = lease[x]
  <2>1. lease'[l] = NewLeaseRow(k, i, at, until)
    BY <1>2, AcquireFreeEffect
  <2>2. lease'[l].status = "active"
    BY <2>1 DEF NewLeaseRow
  <2> QED
    BY <1>2, <2>2, AcquireFreeEffect
<1>3. ASSUME NEW c \in Leases, NEW l \in Leases, NEW k \in Keys, NEW i \in Invocations,
             NEW at \in Time, NEW until \in Time, AcquireExpired(c, l, k, i, at, until)
      PROVE  Replaced
  <2>1. lease'[l] = NewLeaseRow(k, i, at, until)
    BY <1>3, AcquireExpiredEffect
  <2>2. lease'[l].status = "active" /\ lease'[l].key = k /\ lease'[l].acquired = at
    BY <2>1 DEF NewLeaseRow
  <2>3. x # l
    BY <2>2
  <2>4. CASE x # c
    BY <1>1, <1>3, <2>3, <2>4, AcquireExpiredEffect
  <2>5. CASE x = c
    <3>1. lease'[x] = Closed(lease[x], "expired", at)
      BY <1>3, <2>5, AcquireExpiredEffect
    <3>2. /\ lease'[x].released = at /\ lease'[x].expires = lease[x].expires
          /\ lease'[x].key = lease[x].key
      BY <1>0, <3>1, RowFields
    <3>3. lease[x].expires =< at /\ lease[x].key = k
      BY <1>3, <2>5, AcquireExpiredEffect DEF ActiveLeases
    <3> QED
      BY <2>2, <2>3, <3>2, <3>3
  <2> QED
    BY <2>4, <2>5
<1>4. ASSUME NEW l \in Leases, NEW k \in Keys, NEW until \in Time, Heartbeat(l, k, until)
      PROVE  lease'[x] = lease[x]
  <2>1. lease'[x] = lease[x] \/ lease'[x] = Renewed(lease[x], until)
    BY <1>4, HeartbeatEffect
  <2>2. lease'[x] = lease[x] \/ lease[x].status = "active"
    BY <1>4, HeartbeatEffect DEF ActiveLeases
  <2> QED
    BY <1>0, <2>1, <2>2, RowFields
<1>5. ASSUME NEW l \in Leases, NEW k \in Keys, NEW at \in Time, ReleaseLease(l, k, at)
      PROVE  lease'[x] = lease[x]
  <2>1. lease'[x] = lease[x] \/ lease'[x] = Closed(lease[x], "released", at)
    BY <1>5, ReleaseLeaseEffect
  <2> QED
    BY <1>0, <2>1, RowFields
<1> QED
  BY <1>1, <1>2, <1>3, <1>4, <1>5, LeaseTableUntouched DEF AcquireLease

(* No lease is ever recorded as expired before its time or without a       *)
(* successor.                                                              *)
THEOREM ExpiryJustified == StoreSpec => []ExpiredWasReplaced
<1>1. StoreInit => ExpiredWasReplaced
  <2>1. StoreInit => \A l \in Leases : lease[l].status = "none"
    BY DEF StoreInit, NoLeaseRow
  <2> QED
    BY <2>1 DEF ExpiredWasReplaced
<1> QED
  BY <1>1, StoreTypeCorrect, ExpiredStep, PTL DEF StoreSpec

(* An invocation row is never deleted. *)
LEMMA InvocationRowsPersist ==
    StoreTypeOK /\ [StoreNext]_storeVars =>
    \A j \in Invocations : Inserted(j) => Inserted(j)'
<1> SUFFICES ASSUME StoreTypeOK, [StoreNext]_storeVars, NEW j \in Invocations, Inserted(j)
             PROVE  Inserted(j)'
  OBVIOUS
<1> USE DEF Inserted
<1>1. ASSUME NEW i \in Invocations,
             CreateInvocation(i) \/ StartInvocation(i)
      PROVE  Inserted(j)'
  BY <1>1 DEF CreateInvocation, StartInvocation, StoreTypeOK, InvocationRow
<1>2. ASSUME NEW i \in Invocations, NEW b \in Batches, SetBatchRunId(i, b)
      PROVE  Inserted(j)'
  BY <1>2 DEF SetBatchRunId, StoreTypeOK, InvocationRow
<1>3. ASSUME NEW i \in Invocations, NEW st \in FinalStatuses, FinishInvocation(i, st)
      PROVE  Inserted(j)'
  BY <1>3 DEF FinishInvocation, FinalStatuses, StoreTypeOK, InvocationRow
<1>4. ASSUME NEW l \in Leases, NEW k \in Keys, NEW i \in Invocations,
             NEW at \in Time, NEW until \in Time, AcquireLease(l, k, i, at, until)
      PROVE  Inserted(j)'
  <2>1. CASE AcquireFree(l, k, i, at, until)
    BY <2>1 DEF AcquireFree
  <2>2. ASSUME NEW c \in Leases, AcquireExpired(c, l, k, i, at, until)
        PROVE  Inserted(j)'
    <3>1. \A row \in InvocationRow : row.status # "none" => Interrupted(row).status # "none"
      BY DEF Interrupted, InvocationRow
    <3>2. invocation' = [invocation EXCEPT ![lease[c].owner] = Interrupted(@)]
      BY <2>2 DEF AcquireExpired
    <3> QED
      BY <3>1, <3>2 DEF StoreTypeOK
  <2> QED
    BY <1>4, <2>1, <2>2 DEF AcquireLease
<1>5. CASE UNCHANGED invocation
  BY <1>5
<1> QED
  BY <1>1, <1>2, <1>3, <1>4, <1>5
  DEF StoreNext, storeVars, Heartbeat, ReleaseLease

LEMMA OwnerStep ==
    StoreTypeOK /\ LeaseOwnerExists /\ [StoreNext]_storeVars => LeaseOwnerExists'
<1> SUFFICES ASSUME StoreTypeOK, LeaseOwnerExists, [StoreNext]_storeVars,
                    NEW x \in Leases, lease'[x].status # "none"
             PROVE  Inserted(lease[x].owner)'
  BY DEF LeaseOwnerExists, Inserted
<1>0. lease[x] \in LeaseRow
  BY DEF StoreTypeOK
<1>1. CASE lease[x].status # "none"
  <2>1. Inserted(lease[x].owner) /\ lease[x].owner \in Invocations
    BY <1>0, <1>1 DEF LeaseOwnerExists, LeaseRow
  <2>2. lease'[x].owner = lease[x].owner
    BY <1>1, LeaseRowsPersist
  <2> QED
    BY <2>1, <2>2, InvocationRowsPersist DEF Inserted
<1>2. CASE lease[x].status = "none"
  <2>1. PICK l \in Leases, k \in Keys, i \in Invocations, at \in Time, until \in Time :
             AcquireLease(l, k, i, at, until) /\ l = x
    <3>1. lease'[x] # lease[x]
      BY <1>2
    <3>2. ASSUME NEW l \in Leases, NEW k \in Keys, NEW until \in Time, Heartbeat(l, k, until)
          PROVE  lease'[x] = lease[x]
      BY <1>2, <3>2, HeartbeatEffect DEF ActiveLeases
    <3>3. ASSUME NEW l \in Leases, NEW k \in Keys, NEW at \in Time, ReleaseLease(l, k, at)
          PROVE  lease'[x] = lease[x]
      BY <1>2, <3>3, ReleaseLeaseEffect DEF ActiveLeases
    <3>4. PICK l \in Leases, k \in Keys, i \in Invocations, at \in Time, until \in Time :
               AcquireLease(l, k, i, at, until)
      BY <3>1, <3>2, <3>3, LeaseTableUntouched
    <3>5. l = x
      <4>1. CASE AcquireFree(l, k, i, at, until)
        BY <3>1, <4>1, AcquireFreeEffect
      <4>2. ASSUME NEW c \in Leases, AcquireExpired(c, l, k, i, at, until)
            PROVE  l = x
        BY <1>2, <3>1, <4>2, AcquireExpiredEffect DEF ActiveLeases
      <4> QED
        BY <3>4, <4>1, <4>2 DEF AcquireLease
    <3> QED
      BY <3>4, <3>5
  <2>2. lease'[x] = NewLeaseRow(k, i, at, until) /\ Inserted(i)
    BY <2>1, AcquireFreeEffect, AcquireExpiredEffect DEF AcquireLease
  <2>3. lease'[x].owner = i
    BY <2>2 DEF NewLeaseRow
  <2> QED
    BY <2>2, <2>3, InvocationRowsPersist DEF Inserted
<1> QED
  BY <1>1, <1>2

(* The foreign key from leases to invocations is never dangling.           *)
THEOREM LeaseOwnersExist == StoreSpec => []LeaseOwnerExists
<1>1. StoreInit => LeaseOwnerExists
  <2>1. StoreInit => \A l \in Leases : lease[l].status = "none"
    BY DEF StoreInit, NoLeaseRow
  <2> QED
    BY <2>1 DEF LeaseOwnerExists
<1> QED
  BY <1>1, StoreTypeCorrect, OwnerStep, PTL DEF StoreSpec

----------------------------------------------------------------------------

(* HolderOf names the active row of a key, if there is one.                *)
HolderMeaning ==
    \A k \in Keys :
        /\ HolderOf(k) \in Leases \cup {NoLease}
        /\ \A l \in Leases : HolderOf(k) = l <=> l \in ActiveLeases(k)

LEMMA HolderIsTheActiveRow == OneActiveLeasePerKey => HolderMeaning
<1> SUFFICES ASSUME OneActiveLeasePerKey, NEW k \in Keys
             PROVE  /\ HolderOf(k) \in Leases \cup {NoLease}
                    /\ \A l \in Leases : HolderOf(k) = l <=> l \in ActiveLeases(k)
  BY DEF HolderMeaning
<1>1. CASE ActiveLeases(k) = {}
  BY <1>1, LeaseAssumption DEF HolderOf
<1>2. CASE ActiveLeases(k) # {}
  <2>1. HolderOf(k) \in ActiveLeases(k)
    BY <1>2 DEF HolderOf
  <2> QED
    BY <2>1 DEF ActiveLeases, OneActiveLeasePerKey
<1> QED
  BY <1>1, <1>2

EndedLeases == {l \in Leases : lease[l].status \in {"released", "expired"}}

(* A step that leaves the lease table alone is invisible in the abstract   *)
(* view, and every other step is one of its operations.                    *)
LEMMA LeaseStepRefines ==
    /\ StoreTypeOK /\ HolderMeaning /\ HolderMeaning'
    /\ [StoreNext]_storeVars
    => [Abstract!Next]_(Abstract!vars)
<1> SUFFICES ASSUME StoreTypeOK, HolderMeaning, HolderMeaning', [StoreNext]_storeVars
             PROVE  [Abstract!Next]_(Abstract!vars)
  OBVIOUS
<1>0. \A m \in Leases : lease[m] \in LeaseRow
  BY DEF StoreTypeOK
<1>1. CASE UNCHANGED lease
  BY <1>1 DEF Abstract!vars, HolderOf, ActiveLeases
<1>2. ASSUME NEW l \in Leases, NEW k \in Keys, NEW i \in Invocations,
             NEW at \in Time, NEW until \in Time, AcquireFree(l, k, i, at, until)
      PROVE  Abstract!Grant(k, l, at, until)
  <2>1. lease'[l] = NewLeaseRow(k, i, at, until)
    BY <1>2, AcquireFreeEffect
  <2>2. /\ lease'[l].status = "active" /\ lease'[l].key = k
        /\ lease'[l].acquired = at /\ lease'[l].expires = until
    BY <2>1 DEF NewLeaseRow
  <2>3. /\ lease[l].status = "none" /\ at < until /\ ActiveLeases(k) = {}
        /\ \A m \in Leases : m # l => lease'[m] = lease[m]
    BY <1>2, AcquireFreeEffect
  <2>4. HolderOf(k) = NoLease /\ \A j \in Keys : HolderOf(j) # l
    BY <2>3 DEF HolderMeaning, ActiveLeases
  <2>5. HolderOf(k)' = l
    BY <2>2 DEF HolderMeaning, ActiveLeases
  <2>6. \A j \in Keys : j # k => HolderOf(j)' = HolderOf(j)
    BY <2>2, <2>3 DEF HolderMeaning, ActiveLeases
  <2>7. EndedLeases' = EndedLeases
    BY <2>2, <2>3 DEF EndedLeases
  <2>8. l \notin EndedLeases
    BY <2>3 DEF EndedLeases
  <2> QED
    BY <2>2, <2>3, <2>4, <2>5, <2>6, <2>7, <2>8
    DEF Abstract!Grant, Abstract!InForce, EndedLeases
<1>3. ASSUME NEW c \in Leases, NEW l \in Leases, NEW k \in Keys, NEW i \in Invocations,
             NEW at \in Time, NEW until \in Time, AcquireExpired(c, l, k, i, at, until)
      PROVE  Abstract!Replace(k, l, at, until)
  <2>1. lease'[l] = NewLeaseRow(k, i, at, until)
    BY <1>3, AcquireExpiredEffect
  <2>2. /\ lease'[l].status = "active" /\ lease'[l].key = k
        /\ lease'[l].acquired = at /\ lease'[l].expires = until
    BY <2>1 DEF NewLeaseRow
  <2>3. /\ lease[l].status = "none" /\ at < until /\ c # l
        /\ c \in ActiveLeases(k) /\ lease[c].expires =< at
        /\ \A m \in Leases : m # l /\ m # c => lease'[m] = lease[m]
    BY <1>3, AcquireExpiredEffect
  <2>4. lease'[c] = Closed(lease[c], "expired", at)
    BY <1>3, AcquireExpiredEffect
  <2>5. /\ lease'[c].status = "expired" /\ lease'[c].key = k
        /\ lease'[c].acquired = lease[c].acquired
        /\ lease'[c].expires = lease[c].expires
    BY <1>0, <2>3, <2>4, RowFields DEF ActiveLeases
  <2>6. HolderOf(k) = c /\ \A j \in Keys : HolderOf(j) # l
    BY <2>3 DEF HolderMeaning, ActiveLeases
  <2>7. HolderOf(k)' = l
    BY <2>2 DEF HolderMeaning, ActiveLeases
  <2>8. \A j \in Keys : j # k => HolderOf(j)' = HolderOf(j)
    BY <2>2, <2>3, <2>5 DEF HolderMeaning, ActiveLeases
  <2>9. EndedLeases' = EndedLeases \cup {c}
    BY <2>2, <2>3, <2>5 DEF EndedLeases
  <2>10. l \notin EndedLeases
    BY <2>3 DEF EndedLeases
  <2> QED
    BY <2>2, <2>3, <2>5, <2>6, <2>7, <2>8, <2>9, <2>10
    DEF Abstract!Replace, Abstract!InForce, EndedLeases
<1>4. ASSUME NEW l \in Leases, NEW k \in Keys, NEW until \in Time, Heartbeat(l, k, until)
      PROVE  Abstract!Extend(k, until)
  <2>1. lease'[l] = Renewed(lease[l], until)
    BY <1>4, HeartbeatEffect
  <2>2. /\ lease'[l].status = lease[l].status /\ lease'[l].key = lease[l].key
        /\ lease'[l].acquired = lease[l].acquired /\ lease'[l].expires = until
    BY <1>0, <2>1, RowFields
  <2>3. l \in ActiveLeases(k) /\ \A m \in Leases : m # l => lease'[m] = lease[m]
    BY <1>4, HeartbeatEffect
  <2>4. HolderOf(k) = l
    BY <2>3 DEF HolderMeaning
  <2>5. \A j \in Keys : HolderOf(j)' = HolderOf(j)
    BY <2>2, <2>3 DEF HolderMeaning, ActiveLeases
  <2>6. EndedLeases' = EndedLeases
    BY <2>2, <2>3 DEF EndedLeases
  <2> QED
    BY <2>2, <2>3, <2>4, <2>5, <2>6 DEF Abstract!Extend, EndedLeases
<1>5. ASSUME NEW l \in Leases, NEW k \in Keys, NEW at \in Time, ReleaseLease(l, k, at)
      PROVE  Abstract!GiveUp(k)
  <2>1. lease'[l] = Closed(lease[l], "released", at)
    BY <1>5, ReleaseLeaseEffect
  <2>2. /\ lease'[l].status = "released"
        /\ lease'[l].acquired = lease[l].acquired /\ lease'[l].expires = lease[l].expires
    BY <1>0, <2>1, RowFields
  <2>3. l \in ActiveLeases(k) /\ \A m \in Leases : m # l => lease'[m] = lease[m]
    BY <1>5, ReleaseLeaseEffect
  <2>4. HolderOf(k) = l
    BY <2>3 DEF HolderMeaning
  <2>5. HolderOf(k)' = NoLease
    BY <2>2, <2>3, <2>4 DEF HolderMeaning, ActiveLeases
  <2>6. \A j \in Keys : j # k => HolderOf(j)' = HolderOf(j)
    BY <2>2, <2>3 DEF HolderMeaning, ActiveLeases
  <2>7. EndedLeases' = EndedLeases \cup {l}
    BY <2>2, <2>3 DEF EndedLeases
  <2> QED
    BY <2>2, <2>3, <2>4, <2>5, <2>6, <2>7 DEF Abstract!GiveUp, EndedLeases
<1> QED
  BY <1>1, <1>2, <1>3, <1>4, <1>5, LeaseTableUntouched
  DEF AcquireLease, Abstract!Next, Abstract!Time, Time

(* The lease table implements an exclusive lease with takeover.            *)
THEOREM LeaseRefinement == StoreSpec => ImplementsExclusiveLease
<1>1. StoreInit => Abstract!Init
  <2>1. StoreInit => \A l \in Leases : /\ lease[l].status = "none"
                                     /\ lease[l].acquired = 0 /\ lease[l].expires = 0
    BY DEF StoreInit, NoLeaseRow
  <2> QED
    BY <2>1 DEF Abstract!Init, HolderOf, ActiveLeases
<1>2. OneActiveLeasePerKey => HolderMeaning
  BY HolderIsTheActiveRow
<1>3. /\ StoreTypeOK /\ HolderMeaning /\ HolderMeaning'
      /\ [StoreNext]_storeVars
      => [Abstract!Next]_(Abstract!vars)
  BY LeaseStepRefines
<1> QED
  BY <1>1, <1>2, <1>3, StoreTypeCorrect, LeaseExclusive, PTL
  DEF StoreSpec, ImplementsExclusiveLease, Abstract!Spec

(* RetiredLeasesStand holds for any number of leases and any timestamps.   *)
THEOREM RetiredLeases == StoreSpec => RetiredLeasesStand
<1>1. /\ ExpiredWasReplaced'
      /\ [\A l \in Leases :
            lease[l].status \in {"released", "expired"} => lease'[l] = lease[l]]_storeVars
      => [/\ ExpiredWasReplaced'
          /\ \A l \in Leases :
                lease[l].status \in {"released", "expired"} => lease'[l] = lease[l]]_storeVars
  OBVIOUS
<1> QED
  BY <1>1, ExpiryJustified, ClosedLeasesFrozen, PTL DEF RetiredLeasesStand, ClosedLeaseFrozen

----------------------------------------------------------------------------
(* The scheduler.                                                          *)
----------------------------------------------------------------------------

USE SchedulerAssumption

(* The locations, unfolded where a step names one. *)
LEMMA LocationNames ==
    /\ AtWork = {"acquired", "probing", "sleeping", "ready", "lookup", "waiting",
                 "reporting", "finishing", "releasing"}
    /\ Locations = AtWork \cup {"idle", "done", "dead", "created", "overlapped"}
BY DEF AtWork, TryBlock, Locations, Stopped

(* Every step of the scheduler is a call of the repository, or leaves its  *)
(* tables alone.                                                           *)
LEMMA StoreStep == SchedulerTypeOK /\ [Next]_vars => [StoreNext]_storeVars
<1> SUFFICES ASSUME SchedulerTypeOK, [Next]_vars
             PROVE  [StoreNext]_storeVars
  OBVIOUS
<1>1. /\ \A t \in 0..MaxClock : t \in Time /\ t + LeaseTtl \in Time
      /\ clock \in 0..MaxClock /\ \A p \in Runs : run[p].now \in 0..MaxClock
  BY LeaseAssumption DEF SchedulerTypeOK, RunLocals, Time
<1>2. ASSUME NEW p \in Runs, Start(p) PROVE StoreNext
  BY <1>2 DEF Start, StoreNext, Runs
<1>3. ASSUME NEW p \in Runs, Acquire(p) PROVE StoreNext
  <2>1. AcquireLease(p, EodKey, p, run[p].now, run[p].now + LeaseTtl)
    BY <1>3 DEF Acquire
  <2>2. run[p].now \in Time /\ run[p].now + LeaseTtl \in Time
    BY <1>1
  <2>3. p \in Leases /\ p \in Invocations
    BY DEF Runs
  <2> QED
    BY <2>1, <2>2, <2>3 DEF StoreNext
<1>4. ASSUME NEW p \in Runs, SkipOverlap(p) PROVE StoreNext
  <2>1. FinishInvocation(p, "skip") /\ "skip" \in FinalStatuses
    BY <1>4 DEF SkipOverlap, FinalStatuses
  <2> QED
    BY <2>1 DEF StoreNext, Runs
<1>5. ASSUME NEW p \in Runs, Begin(p) PROVE StoreNext
  BY <1>5 DEF Begin, StoreNext, Runs
<1>6. ASSUME NEW p \in Runs, RenewLease(p) PROVE StoreNext \/ UNCHANGED storeVars
  <2>1. CASE p \in ActiveLeases(EodKey)
    <3>1. Heartbeat(p, EodKey, clock + LeaseTtl) /\ clock + LeaseTtl \in Time
      BY <1>1, <1>6, <2>1 DEF RenewLease
    <3> QED
      BY <3>1 DEF StoreNext, Runs
  <2>2. CASE p \notin ActiveLeases(EodKey)
    BY <1>6, <2>2 DEF RenewLease, storeVars
  <2> QED
    BY <2>1, <2>2
<1>7. ASSUME NEW p \in Runs, Collect(p) PROVE StoreNext \/ UNCHANGED storeVars
  <2>1. CASE Reported(p) # NoBatch /\ SetBatchRunId(p, Reported(p))
    <3>1. Reported(p) \in Batches
      BY <2>1 DEF SchedulerTypeOK, Reported, ChildProcess, RunLocals
    <3> QED
      BY <2>1, <3>1 DEF StoreNext, Runs
  <2>2. CASE Handle(p)
    BY <2>2 DEF Handle, storeVars
  <2> QED
    BY <1>7, <2>1, <2>2 DEF Collect
<1>8. ASSUME NEW p \in Runs, Finish(p) PROVE StoreNext
  <2>1. FinishInvocation(p, run[p].verdict) /\ run[p].verdict \in FinalStatuses
    BY <1>8 DEF Finish, FinishInvocation
  <2> QED
    BY <2>1 DEF StoreNext, Runs
<1>9. ASSUME NEW p \in Runs, Release(p) PROVE StoreNext \/ UNCHANGED storeVars
  <2>1. CASE p \in ActiveLeases(EodKey)
    <3>1. ReleaseLease(p, EodKey, clock) /\ clock \in Time
      BY <1>1, <1>9, <2>1 DEF Release
    <3> QED
      BY <3>1 DEF StoreNext, Runs
  <2>2. CASE p \notin ActiveLeases(EodKey)
    BY <1>9, <2>2 DEF Release, storeVars
  <2> QED
    BY <2>1, <2>2
<1>10. ASSUME NEW p \in Runs,
              \/ Overlap(p) \/ Probe(p) \/ Wake(p) \/ SpawnChild(p) \/ TimeOut(p)
              \/ Report(p) \/ ChildStep(p) \/ Raises(p) \/ Crash(p)
       PROVE  UNCHANGED storeVars
  BY <1>10 DEF Overlap, Probe, Wake, SpawnChild, TimeOut, Report, ChildStep, ChildBegins,
     ChildEnds, ChildDies, Raises, Crash, Handle, storeVars
<1>11. CASE Tick \/ Restart \/ UNCHANGED vars
  BY <1>11 DEF Tick, Restart, vars, storeVars
<1> QED
  BY <1>2, <1>3, <1>4, <1>5, <1>6, <1>7, <1>8, <1>9, <1>10, <1>11 DEF Next, RunStep

----------------------------------------------------------------------------

(* The types of the scheduler's own variables. *)
ProcessTypeOK ==
    /\ clock \in 0..MaxClock
    /\ pc \in [Runs -> Locations]
    /\ run \in [Runs -> RunLocals]
    /\ child \in [Runs -> ChildProcess]
    /\ batch \in [Batches -> BatchStatuses]
    /\ overrun \in BOOLEAN

LEMMA VerdictType ==
    ASSUME NEW s, NEW f \in BOOLEAN
    PROVE  Verdict(s, f) \in FinalStatuses
BY DEF Verdict, FinalStatuses, BatchDone

LEMMA DelayType ==
    ASSUME clock \in 0..MaxClock, NEW p \in Runs, NEW n \in 0..MaxDeferredAttempts
    PROVE  clock + Delay(p, n) \in Nat
<1>1. Backoff(n) \in Nat /\ Deadline \in Nat
  BY DEF Deadline
<1>2. CASE Delay(p, n) = Backoff(n)
  BY <1>1, <1>2
<1>3. CASE Delay(p, n) = Deadline - clock
  BY <1>1, <1>3
<1> QED
  BY <1>2, <1>3 DEF Delay

(* Setting one local variable of a run, or all of them. *)
LEMMA RunFieldTypes ==
    ASSUME NEW f \in [Runs -> RunLocals], NEW p \in Runs
    PROVE  /\ \A t \in 0..MaxClock : [f EXCEPT ![p].now = t] \in [Runs -> RunLocals]
           /\ \A n \in Nat : [f EXCEPT ![p].probes = n] \in [Runs -> RunLocals]
           /\ \A t \in Nat : [f EXCEPT ![p].wakeAt = t] \in [Runs -> RunLocals]
           /\ \A b \in Batches : [f EXCEPT ![p].seen = b] \in [Runs -> RunLocals]
           /\ \A v \in FinalStatuses : [f EXCEPT ![p].verdict = v] \in [Runs -> RunLocals]
           /\ \A h \in BOOLEAN : [f EXCEPT ![p].handling = h] \in [Runs -> RunLocals]
           /\ [f EXCEPT ![p] = NoLocals] \in [Runs -> RunLocals]
<1>1. 0 \in 0..MaxClock
  OBVIOUS
<1>2. NoLocals \in RunLocals
  BY <1>1 DEF NoLocals, RunLocals
<1> QED
  BY <1>2 DEF RunLocals

LEMMA NoProcess ==
    /\ NoLocals \in RunLocals /\ NoChild \in ChildProcess /\ ExitedSilently \in ChildProcess
    /\ \A b \in Batches \cup {NoBatch}, m \in BOOLEAN :
          [status |-> "spawned", batch |-> b, mayCreate |-> m] \in ChildProcess
<1>1. 0 \in 0..MaxClock
  OBVIOUS
<1>2. NoLocals \in RunLocals
  BY <1>1 DEF NoLocals, RunLocals
<1>3. NoChild \in ChildProcess
  BY DEF NoChild, ChildProcess
<1>4. ExitedSilently \in ChildProcess
  BY DEF NoChild, ChildProcess, ExitedSilently
<1> QED
  BY <1>2, <1>3, <1>4 DEF ChildProcess

LEMMA ProcessTypeStep == SchedulerTypeOK /\ [Next]_vars => ProcessTypeOK'
<1> SUFFICES ASSUME SchedulerTypeOK, [Next]_vars
             PROVE  ProcessTypeOK'
  OBVIOUS
<1> USE DEF SchedulerTypeOK, ProcessTypeOK, Goto, Ends
<1>0. /\ NoLocals \in RunLocals /\ NoChild \in ChildProcess /\ ExitedSilently \in ChildProcess
  BY NoProcess
<1>1. ASSUME NEW p \in Runs, Start(p) PROVE ProcessTypeOK'
  BY <1>1, LocationNames DEF Start, RunLocals
<1>2. ASSUME NEW p \in Runs, Acquire(p) PROVE ProcessTypeOK'
  BY <1>2, LocationNames DEF Acquire
<1>3. ASSUME NEW p \in Runs, Overlap(p) PROVE ProcessTypeOK'
  BY <1>3, LocationNames DEF Overlap
<1>4. ASSUME NEW p \in Runs, SkipOverlap(p) PROVE ProcessTypeOK'
  BY <1>0, <1>4, LocationNames DEF SkipOverlap
<1>5. ASSUME NEW p \in Runs, Begin(p) PROVE ProcessTypeOK'
  BY <1>5, LocationNames DEF Begin, RunLocals, FinalStatuses
<1>6. ASSUME NEW p \in Runs, Probe(p) PROVE ProcessTypeOK'
  <2>1. CASE /\ Goto(p, "probing", "ready")
             /\ run' = [run EXCEPT ![p].probes = 0, ![p].wakeAt = 0]
    <3> DEFINE mid == [run EXCEPT ![p].probes = 0]
    <3>1. mid \in [Runs -> RunLocals]
      BY RunFieldTypes
    <3>2. run' = [mid EXCEPT ![p].wakeAt = 0]
      BY <2>1
    <3> HIDE DEF mid
    <3>3. run' \in [Runs -> RunLocals]
      BY <3>1, <3>2, RunFieldTypes
    <3> QED
      BY <1>6, <2>1, <3>3, LocationNames DEF Probe
  <2>2. ASSUME NEW v \in {"hard_failure", "deferred", "warning"},
               Goto(p, "probing", "finishing"),
               run' = [run EXCEPT ![p].probes = 0, ![p].wakeAt = 0, ![p].verdict = v]
        PROVE  ProcessTypeOK'
    <3> DEFINE mid == [run EXCEPT ![p].probes = 0]
               last == [mid EXCEPT ![p].wakeAt = 0]
    <3>1. mid \in [Runs -> RunLocals]
      BY RunFieldTypes
    <3>2. run' = [last EXCEPT ![p].verdict = v]
      BY <2>2
    <3> HIDE DEF mid
    <3>3. last \in [Runs -> RunLocals]
      BY <3>1, RunFieldTypes
    <3> HIDE DEF last
    <3>4. run' \in [Runs -> RunLocals]
      BY <3>2, <3>3, RunFieldTypes DEF FinalStatuses
    <3> QED
      BY <1>6, <2>2, <3>4, LocationNames DEF Probe
  <2>3. CASE /\ ~ OutOfAttempts(p)
             /\ Goto(p, "probing", "sleeping")
             /\ run' = [run EXCEPT ![p].probes = @ + 1,
                                   ![p].wakeAt = clock + Delay(p, run[p].probes)]
    <3>1. run[p].probes \in 0..MaxDeferredAttempts
      BY <2>3 DEF OutOfAttempts, RunLocals
    <3>2. clock + Delay(p, run[p].probes) \in Nat
      BY <3>1, DelayType
    <3> QED
      BY <1>6, <2>3, <3>1, <3>2, LocationNames DEF Probe, RunLocals
  <2> QED
    BY <1>6, <2>1, <2>2, <2>3 DEF Probe
<1>7. ASSUME NEW p \in Runs, Wake(p) PROVE ProcessTypeOK'
  BY <1>7, LocationNames DEF Wake
<1>8. ASSUME NEW p \in Runs, RenewLease(p) PROVE ProcessTypeOK'
  BY <1>8, LocationNames DEF RenewLease
<1>9. ASSUME NEW p \in Runs, SpawnChild(p) PROVE ProcessTypeOK'
  <2>1. run' \in [Runs -> RunLocals]
    BY <1>9, RunFieldTypes DEF SpawnChild
  <2>2. PICK b \in Batches \cup {NoBatch}, m \in BOOLEAN :
            child' = [child EXCEPT ![p] = [status |-> "spawned", batch |-> b, mayCreate |-> m]]
    BY <1>9 DEF SpawnChild
  <2>3. child' \in [Runs -> ChildProcess]
    BY <2>2, NoProcess
  <2> QED
    BY <1>9, <2>1, <2>3, LocationNames DEF SpawnChild
<1>10. ASSUME NEW p \in Runs, Handle(p), child' \in [Runs -> ChildProcess]
       PROVE  ProcessTypeOK'
  <2> DEFINE a == [run EXCEPT ![p].handling = TRUE]
             b == [a EXCEPT ![p].verdict = "hard_failure"]
             c == [b EXCEPT ![p].probes = 0]
  <2>1. run' = [c EXCEPT ![p].wakeAt = 0]
    BY <1>10 DEF Handle
  <2>2. a \in [Runs -> RunLocals]
    BY RunFieldTypes
  <2> HIDE DEF a
  <2>3. b \in [Runs -> RunLocals]
    BY <2>2, RunFieldTypes DEF FinalStatuses
  <2> HIDE DEF b
  <2>4. c \in [Runs -> RunLocals]
    BY <2>3, RunFieldTypes
  <2> HIDE DEF c
  <2>5. run' \in [Runs -> RunLocals]
    BY <2>1, <2>4, RunFieldTypes
  <2> QED
    BY <1>10, <2>5, LocationNames DEF Handle
<1>11. ASSUME NEW p \in Runs, Collect(p) PROVE ProcessTypeOK'
  <2>1. child' \in [Runs -> ChildProcess]
    BY <1>0, <1>11 DEF Collect
  <2>2. CASE Goto(p, "waiting", "reporting") /\ UNCHANGED <<clock, run, batch, overrun>>
    BY <2>1, <2>2, LocationNames
  <2> QED
    BY <1>10, <1>11, <2>1, <2>2 DEF Collect
<1>12. ASSUME NEW p \in Runs, TimeOut(p) PROVE ProcessTypeOK'
  BY <1>0, <1>10, <1>12 DEF TimeOut
<1>13. ASSUME NEW p \in Runs, Report(p) PROVE ProcessTypeOK'
  BY <1>13, LocationNames, VerdictType DEF Report, RunLocals
<1>14. ASSUME NEW p \in Runs, Finish(p) PROVE ProcessTypeOK'
  BY <1>14, LocationNames DEF Finish
<1>15. ASSUME NEW p \in Runs, Release(p) PROVE ProcessTypeOK'
  BY <1>0, <1>15, LocationNames DEF Release
<1>16. ASSUME NEW p \in Runs, ChildBegins(p) PROVE ProcessTypeOK'
  BY <1>16 DEF ChildBegins, ChildProcess, BatchStatuses
<1>17. ASSUME NEW p \in Runs, ChildEnds(p) PROVE ProcessTypeOK'
  BY <1>17 DEF ChildEnds, ChildProcess, BatchStatuses, BatchDone
<1>18. ASSUME NEW p \in Runs, ChildDies(p) PROVE ProcessTypeOK'
  BY <1>0, <1>18 DEF ChildDies
<1>19. ASSUME NEW p \in Runs, Raises(p) PROVE ProcessTypeOK'
  BY <1>10, <1>19 DEF Raises
<1>20. ASSUME NEW p \in Runs, Crash(p) PROVE ProcessTypeOK'
  BY <1>0, <1>20, LocationNames DEF Crash
<1>21. CASE Tick
  BY <1>21 DEF Tick
<1>22. CASE Restart
  BY <1>0, <1>22, LocationNames DEF Restart
<1>23. CASE UNCHANGED vars
  BY <1>23 DEF vars
<1> QED
  BY <1>1, <1>2, <1>3, <1>4, <1>5, <1>6, <1>7, <1>8, <1>9, <1>11, <1>12, <1>13, <1>14,
     <1>15, <1>16, <1>17, <1>18, <1>19, <1>20, <1>21, <1>22, <1>23
  DEF Next, RunStep, ChildStep

LEMMA SchedulerTypeInit == Init => SchedulerTypeOK
<1> SUFFICES ASSUME Init PROVE SchedulerTypeOK
  OBVIOUS
<1>1. StoreTypeOK
  BY StoreTypeInit DEF Init
<1>2. run \in [Runs -> RunLocals] /\ child \in [Runs -> ChildProcess]
  BY NoProcess DEF Init
<1>3. batch \in [Batches -> BatchStatuses]
  BY DEF Init, BatchStatuses
<1>4. pc \in [Runs -> Locations]
  BY LocationNames DEF Init
<1>5. clock = 0 /\ overrun = FALSE
  BY DEF Init
<1>6. clock \in 0..MaxClock
  BY <1>5
<1> QED
  BY <1>1, <1>2, <1>3, <1>4, <1>5, <1>6 DEF SchedulerTypeOK

LEMMA SchedulerTypeStep == SchedulerTypeOK /\ [Next]_vars => SchedulerTypeOK'
<1>1. SchedulerTypeOK /\ [Next]_vars => StoreTypeOK'
  BY StoreStep, StoreTypeStep DEF SchedulerTypeOK
<1> QED
  BY <1>1, ProcessTypeStep DEF SchedulerTypeOK, ProcessTypeOK

(* Every variable of the scheduler keeps its type. *)
THEOREM SchedulerTypeCorrect == Spec => []SchedulerTypeOK
BY SchedulerTypeInit, SchedulerTypeStep, PTL DEF Spec

(* The scheduler calls the operations repository in no way that            *)
(* OperationLease does not allow ...                                       *)
THEOREM SchedulerUsesStore == Spec => StoreSpec
<1>1. Init => StoreInit
  BY DEF Init
<1> QED
  BY <1>1, StoreStep, SchedulerTypeCorrect, PTL DEF Spec, StoreSpec

(* ... so that the exclusive lease is one of the scheduler, too.           *)
THEOREM SchedulerLeasesExclusive ==
    Spec => [](OneActiveLeasePerKey /\ ExpiredWasReplaced) /\ ImplementsExclusiveLease
BY SchedulerUsesStore, LeaseExclusive, ExpiryJustified, LeaseRefinement, PTL

----------------------------------------------------------------------------

(* A run never holds a reading of the clock from the future. *)
NowIsPast == \A p \in Runs : run[p].now =< clock

LEMMA NowStep == SchedulerTypeOK /\ NowIsPast /\ [Next]_vars => NowIsPast'
<1> SUFFICES ASSUME SchedulerTypeOK, NowIsPast, [Next]_vars
             PROVE  NowIsPast'
  OBVIOUS
<1> USE DEF SchedulerTypeOK
<1>1. CASE Tick
  BY <1>1 DEF Tick, NowIsPast, RunLocals
<1>2. ASSUME NEW p \in Runs, Start(p) PROVE NowIsPast'
  BY <1>2 DEF Start, NowIsPast, RunLocals
<1>3. ASSUME UNCHANGED <<clock, run>> PROVE NowIsPast'
  BY <1>3 DEF NowIsPast
<1>4. ASSUME NEW p \in Runs, run' = [run EXCEPT ![p] = NoLocals], UNCHANGED clock
      PROVE  NowIsPast'
  BY <1>4 DEF NowIsPast, NoLocals
<1>5. ASSUME \A q \in Runs : run'[q].now = run[q].now, UNCHANGED clock
      PROVE  NowIsPast'
  BY <1>5 DEF NowIsPast
<1>6. ASSUME NEW p \in Runs, Begin(p) PROVE NowIsPast'
  <2>1. UNCHANGED clock /\ \A q \in Runs : run'[q].now = run[q].now
    BY <1>6 DEF Begin, RunLocals
  <2> QED
    BY <2>1, <1>5
<1>7. ASSUME NEW p \in Runs, Probe(p) PROVE NowIsPast'
  <2>1. UNCHANGED clock /\ \A q \in Runs : run'[q].now = run[q].now
    BY <1>7 DEF Probe, RunLocals
  <2> QED
    BY <2>1, <1>5
<1>8. ASSUME NEW p \in Runs, SpawnChild(p) PROVE NowIsPast'
  <2>1. UNCHANGED clock /\ \A q \in Runs : run'[q].now = run[q].now
    BY <1>8 DEF SpawnChild, RunLocals
  <2> QED
    BY <2>1, <1>5
<1>9. ASSUME NEW p \in Runs, Handle(p) PROVE NowIsPast'
  <2>1. UNCHANGED clock /\ \A q \in Runs : run'[q].now = run[q].now
    BY <1>9 DEF Handle, RunLocals
  <2> QED
    BY <2>1, <1>5
<1>10. ASSUME NEW p \in Runs, Report(p) PROVE NowIsPast'
  <2>1. UNCHANGED clock /\ \A q \in Runs : run'[q].now = run[q].now
    BY <1>10 DEF Report, RunLocals
  <2> QED
    BY <2>1, <1>5
<1>11. CASE Restart
  BY <1>11 DEF Restart, NowIsPast, NoLocals
<1>12. ASSUME NEW p \in Runs, Collect(p) \/ TimeOut(p) \/ Raises(p) PROVE NowIsPast'
  BY <1>3, <1>9, <1>12 DEF Collect, TimeOut, Raises
<1>13. ASSUME NEW p \in Runs, SkipOverlap(p) \/ Release(p) \/ Crash(p) PROVE NowIsPast'
  BY <1>4, <1>13 DEF SkipOverlap, Release, Crash, Ends
<1>14. ASSUME NEW p \in Runs,
              \/ Acquire(p) \/ Overlap(p) \/ Wake(p) \/ RenewLease(p) \/ Finish(p)
              \/ ChildStep(p)
       PROVE  NowIsPast'
  BY <1>3, <1>14 DEF Acquire, Overlap, Wake, RenewLease, Finish, ChildStep, ChildBegins,
     ChildEnds, ChildDies
<1>15. CASE UNCHANGED vars
  BY <1>3, <1>15 DEF vars
<1> QED
  BY <1>1, <1>2, <1>6, <1>7, <1>8, <1>10, <1>11, <1>12, <1>13, <1>14, <1>15
  DEF Next, RunStep

----------------------------------------------------------------------------

(* What a step may do to the lease and the invocation of one run.          *)
Recorded(q) == invocation[q].status \in FinalStatuses

LeaseKept(q) ==
    /\ lease'[q].status = lease[q].status
    /\ lease'[q].key = lease[q].key /\ lease'[q].expires = lease[q].expires

LeaseGranted(q) ==
    /\ lease'[q].status = "active" /\ lease'[q].key = EodKey
    /\ lease[q].status = "none"

LeaseTakenOver(q) ==
    /\ lease[q].status = "active" /\ lease'[q].status = "expired"
    /\ lease'[q].key = lease[q].key /\ lease'[q].expires = lease[q].expires
    /\ lease[q].expires =< clock

LeaseRenewed(q) ==
    /\ lease[q].status = "active" /\ lease'[q].status = "active"
    /\ lease'[q].key = lease[q].key /\ lease'[q].expires = clock + LeaseTtl

LeaseReleased(q) ==
    /\ lease[q].status = "active" /\ lease'[q].status = "released"
    /\ lease'[q].key = lease[q].key /\ lease'[q].expires = lease[q].expires

InvocationKept(q) == invocation'[q].status = invocation[q].status

(* The ways of one run from place to place, with what the step does to its *)
(* lease and its invocation.                                               *)
Stays(q) ==
    /\ pc'[q] = pc[q]
    /\ LeaseKept(q) \/ LeaseTakenOver(q)
    /\ Recorded(q) => InvocationKept(q)

Starts(q) == pc[q] = "idle" /\ pc'[q] = "created" /\ LeaseKept(q)

Acquires(q) == pc[q] = "created" /\ pc'[q] = "acquired" /\ LeaseGranted(q)

IsTurnedAway(q) ==
    /\ pc[q] = "created" /\ pc'[q] = "overlapped"
    /\ Blocked(EodKey, run[q].now) /\ LeaseKept(q)

Skips(q) ==
    /\ pc[q] = "overlapped" /\ pc'[q] = "done"
    /\ Recorded(q)' /\ LeaseKept(q)

Works(q) ==
    /\ pc[q] \in AtWork /\ pc'[q] \in AtWork \ {"releasing"}
    /\ LeaseKept(q) \/ LeaseRenewed(q)
    /\ pc'[q] # pc[q] \/ InvocationKept(q)

Records(q) ==
    /\ pc[q] = "finishing" /\ pc'[q] = "releasing"
    /\ Recorded(q)' /\ LeaseKept(q)

Releases(q) ==
    /\ pc[q] = "releasing" /\ pc'[q] = "done" /\ InvocationKept(q)
    /\ \/ LeaseReleased(q)
       \/ LeaseKept(q) /\ ~ (lease[q].status = "active" /\ lease[q].key = EodKey)

Dies(q) ==
    /\ pc[q] \notin Stopped /\ pc'[q] = "dead"
    /\ LeaseKept(q) /\ InvocationKept(q)

RunMoves(q) ==
    \/ Stays(q) \/ Starts(q) \/ Acquires(q) \/ IsTurnedAway(q) \/ Skips(q)
    \/ Works(q) \/ Records(q) \/ Releases(q) \/ Dies(q)

(* The lease table and the rows of all runs but one are left alone.        *)
LEMMA OthersStay ==
    ASSUME SchedulerTypeOK, NEW p \in Runs, UNCHANGED lease,
           \A q \in Runs \ {p} : InvocationKept(q) /\ pc'[q] = pc[q]
    PROVE  /\ \A q \in Runs : LeaseKept(q)
           /\ \A q \in Runs \ {p} : Stays(q)
BY DEF LeaseKept, Stays

(* A step of a run at work that leaves both tables alone. *)
LEMMA WorksQuietly ==
    ASSUME SchedulerTypeOK, NEW p \in Runs, NEW to \in AtWork \ {"releasing"},
           pc[p] \in AtWork, pc' = [pc EXCEPT ![p] = to], UNCHANGED <<invocation, lease>>
    PROVE  \A q \in Runs : RunMoves(q)
<1>1. \A q \in Runs : InvocationKept(q)
  BY DEF InvocationKept
<1>2. pc'[p] = to /\ \A q \in Runs \ {p} : pc'[q] = pc[q]
  BY DEF SchedulerTypeOK
<1>3. Works(p) /\ \A q \in Runs \ {p} : Stays(q)
  BY <1>1, <1>2, OthersStay DEF Works
<1> QED
  BY <1>3 DEF RunMoves

LEMMA StartMoves == SchedulerTypeOK =>
    \A p \in Runs : Start(p) => \A q \in Runs : RunMoves(q)
<1> SUFFICES ASSUME SchedulerTypeOK, NEW p \in Runs, Start(p)
             PROVE  \A q \in Runs : RunMoves(q)
  OBVIOUS
<1>1. pc[p] = "idle" /\ pc'[p] = "created" /\ \A q \in Runs \ {p} : pc'[q] = pc[q]
  BY DEF SchedulerTypeOK, Start, Goto
<1>2. UNCHANGED lease /\ \A q \in Runs \ {p} : InvocationKept(q)
  BY DEF SchedulerTypeOK, StoreTypeOK, Start, CreateInvocation, InvocationKept, Runs
<1> QED
  BY <1>1, <1>2, OthersStay DEF RunMoves, Starts

LEMMA AcquireMoves == SchedulerTypeOK /\ NowIsPast =>
    \A p \in Runs : Acquire(p) => \A q \in Runs : RunMoves(q)
<1> SUFFICES ASSUME SchedulerTypeOK, NowIsPast, NEW p \in Runs, Acquire(p)
             PROVE  \A q \in Runs : RunMoves(q)
  OBVIOUS
<1> DEFINE at == run[p].now
           until == run[p].now + LeaseTtl
<1>1. at \in Time /\ until \in Time /\ at =< clock /\ clock \in Nat /\ at \in Nat
  BY LeaseAssumption DEF SchedulerTypeOK, RunLocals, Time, NowIsPast
<1>2. pc[p] = "created" /\ pc'[p] = "acquired" /\ \A q \in Runs \ {p} : pc'[q] = pc[q]
  BY DEF SchedulerTypeOK, Acquire, Goto
<1>3. Runs = Leases /\ Runs = Invocations /\ EodKey \in Keys /\ StoreTypeOK
  BY DEF Runs, SchedulerTypeOK
<1> HIDE DEF at, until
<1>4. CASE AcquireFree(p, EodKey, p, at, until)
  <2>1. /\ invocation' = invocation /\ lease[p].status = "none"
        /\ lease'[p] = NewLeaseRow(EodKey, p, at, until)
        /\ \A q \in Runs \ {p} : lease'[q] = lease[q]
    BY <1>1, <1>3, <1>4, AcquireFreeEffect
  <2>2. LeaseGranted(p)
    BY <2>1 DEF LeaseGranted, NewLeaseRow
  <2>3. \A q \in Runs \ {p} : Stays(q)
    BY <1>2, <2>1 DEF Stays, LeaseKept, InvocationKept
  <2> QED
    BY <1>2, <2>2, <2>3 DEF RunMoves, Acquires
<1>5. ASSUME NEW c \in Leases, AcquireExpired(c, p, EodKey, p, at, until)
      PROVE  \A q \in Runs : RunMoves(q)
  <2>1. /\ lease[p].status = "none" /\ c # p /\ c \in ActiveLeases(EodKey)
        /\ lease[c].expires =< at
        /\ lease'[p] = NewLeaseRow(EodKey, p, at, until)
        /\ lease'[c] = Closed(lease[c], "expired", at)
        /\ \A m \in Leases : m # p /\ m # c => lease'[m] = lease[m]
    BY <1>1, <1>3, <1>5, AcquireExpiredEffect
  <2>2. LeaseGranted(p)
    BY <2>1 DEF LeaseGranted, NewLeaseRow
  <2>3. lease[c] \in LeaseRow /\ lease[c].expires \in Nat /\ lease[c].owner \in Invocations
    BY <1>3 DEF StoreTypeOK, LeaseRow, Time
  <2>4. LeaseTakenOver(c)
    <3>1. /\ lease'[c].status = "expired" /\ lease'[c].key = lease[c].key
          /\ lease'[c].expires = lease[c].expires
      BY <2>1, <2>3, RowFields
    <3>2. lease[c].status = "active" /\ lease[c].expires =< clock
      BY <1>1, <2>1, <2>3 DEF ActiveLeases
    <3> QED
      BY <3>1, <3>2 DEF LeaseTakenOver
  <2>5. \A q \in Runs \ {p, c} : LeaseKept(q)
    BY <1>3, <2>1 DEF LeaseKept
  <2>6. \A q \in Runs : Recorded(q) => InvocationKept(q)
    <3>1. invocation' = [invocation EXCEPT ![lease[c].owner] = Interrupted(@)]
      BY <1>5 DEF AcquireExpired
    <3>2. \A q \in Runs : Recorded(q) => Interrupted(invocation[q]) = invocation[q]
      BY DEF Recorded, Interrupted, FinalStatuses
    <3> QED
      BY <1>3, <2>3, <3>1, <3>2 DEF StoreTypeOK, InvocationKept
  <2>7. \A q \in Runs \ {p} : Stays(q)
    BY <1>2, <2>4, <2>5, <2>6 DEF Stays
  <2> QED
    BY <1>2, <2>2, <2>7 DEF RunMoves, Acquires
<1> QED
  BY <1>4, <1>5 DEF Acquire, AcquireLease, at, until

LEMMA OverlapMoves == SchedulerTypeOK =>
    \A p \in Runs : Overlap(p) \/ SkipOverlap(p) => \A q \in Runs : RunMoves(q)
<1> SUFFICES ASSUME SchedulerTypeOK, NEW p \in Runs, Overlap(p) \/ SkipOverlap(p)
             PROVE  \A q \in Runs : RunMoves(q)
  OBVIOUS
<1>1. CASE Overlap(p)
  <2>1. /\ pc[p] = "created" /\ pc'[p] = "overlapped" /\ Blocked(EodKey, run[p].now)
        /\ \A q \in Runs \ {p} : pc'[q] = pc[q]
    BY <1>1 DEF SchedulerTypeOK, Overlap, Goto
  <2>2. UNCHANGED lease /\ \A q \in Runs \ {p} : InvocationKept(q)
    BY <1>1 DEF Overlap, InvocationKept
  <2> QED
    BY <2>1, <2>2, OthersStay DEF RunMoves, IsTurnedAway
<1>2. CASE SkipOverlap(p)
  <2>1. /\ pc[p] = "overlapped" /\ pc'[p] = "done"
        /\ \A q \in Runs \ {p} : pc'[q] = pc[q]
    BY <1>2 DEF SchedulerTypeOK, SkipOverlap, Ends, Goto
  <2>2. /\ UNCHANGED lease /\ Recorded(p)'
        /\ \A q \in Runs \ {p} : InvocationKept(q)
    BY <1>2 DEF SchedulerTypeOK, StoreTypeOK, SkipOverlap, FinishInvocation, Recorded,
       FinalStatuses, InvocationKept, Runs
  <2> QED
    BY <2>1, <2>2, OthersStay DEF RunMoves, Skips
<1> QED
  BY <1>1, <1>2

LEMMA BeginMoves == SchedulerTypeOK =>
    \A p \in Runs : Begin(p) => \A q \in Runs : RunMoves(q)
<1> SUFFICES ASSUME SchedulerTypeOK, NEW p \in Runs, Begin(p)
             PROVE  \A q \in Runs : RunMoves(q)
  OBVIOUS
<1>1. /\ pc[p] \in AtWork /\ pc'[p] \in AtWork \ {"releasing"}
      /\ pc'[p] # pc[p] /\ \A q \in Runs \ {p} : pc'[q] = pc[q]
  BY LocationNames DEF SchedulerTypeOK, Begin, Goto
<1>2. UNCHANGED lease /\ \A q \in Runs \ {p} : InvocationKept(q)
  BY DEF SchedulerTypeOK, StoreTypeOK, Begin, StartInvocation, InvocationKept, Runs
<1> QED
  BY <1>1, <1>2, OthersStay DEF RunMoves, Works

LEMMA HandleMoves == SchedulerTypeOK =>
    \A p \in Runs : Handle(p) /\ pc[p] \in AtWork => \A q \in Runs : RunMoves(q)
<1> SUFFICES ASSUME SchedulerTypeOK, NEW p \in Runs, Handle(p), pc[p] \in AtWork
             PROVE  \A q \in Runs : RunMoves(q)
  OBVIOUS
<1>1. pc' = [pc EXCEPT ![p] = "finishing"] /\ UNCHANGED <<invocation, lease>>
  BY DEF Handle
<1>2. "finishing" \in AtWork \ {"releasing"}
  BY LocationNames
<1> QED
  BY <1>1, <1>2, WorksQuietly

LEMMA QuietMoves == SchedulerTypeOK =>
    \A p \in Runs : Probe(p) \/ Wake(p) \/ SpawnChild(p) \/ Report(p) =>
        \A q \in Runs : RunMoves(q)
<1> SUFFICES ASSUME SchedulerTypeOK, NEW p \in Runs,
                    Probe(p) \/ Wake(p) \/ SpawnChild(p) \/ Report(p)
             PROVE  \A q \in Runs : RunMoves(q)
  OBVIOUS
<1>1. PICK to \in AtWork \ {"releasing"} :
          pc[p] \in AtWork /\ pc' = [pc EXCEPT ![p] = to]
  <2>1. CASE Probe(p)
    BY <2>1, LocationNames DEF Probe, Goto
  <2>2. CASE Wake(p)
    BY <2>2, LocationNames DEF Wake, Goto
  <2>3. CASE SpawnChild(p)
    BY <2>3, LocationNames DEF SpawnChild, Goto
  <2>4. CASE Report(p)
    BY <2>4, LocationNames DEF Report, Goto
  <2> QED
    BY <2>1, <2>2, <2>3, <2>4
<1>2. UNCHANGED <<invocation, lease>>
  BY DEF Probe, Wake, SpawnChild, Report
<1> QED
  BY <1>1, <1>2, WorksQuietly

LEMMA RenewMoves == SchedulerTypeOK =>
    \A p \in Runs : RenewLease(p) => \A q \in Runs : RunMoves(q)
<1> SUFFICES ASSUME SchedulerTypeOK, NEW p \in Runs, RenewLease(p)
             PROVE  \A q \in Runs : RunMoves(q)
  OBVIOUS
<1>1. /\ pc[p] \in AtWork /\ pc'[p] \in AtWork \ {"releasing"}
      /\ pc' = [pc EXCEPT ![p] = "lookup"]
      /\ pc'[p] # pc[p] /\ \A q \in Runs \ {p} : pc'[q] = pc[q]
  BY LocationNames DEF SchedulerTypeOK, RenewLease, Goto
<1>2. Runs = Leases /\ EodKey \in Keys /\ StoreTypeOK /\ clock + LeaseTtl \in Time
  BY LeaseAssumption DEF Runs, SchedulerTypeOK, Time
<1>3. CASE p \in ActiveLeases(EodKey)
  <2>1. Heartbeat(p, EodKey, clock + LeaseTtl)
    BY <1>3 DEF RenewLease
  <2>2. /\ invocation' = invocation
        /\ lease'[p] = Renewed(lease[p], clock + LeaseTtl)
        /\ \A q \in Runs \ {p} : lease'[q] = lease[q]
    BY <1>2, <2>1, HeartbeatEffect
  <2>3. lease[p] \in LeaseRow
    BY <1>2 DEF StoreTypeOK
  <2>4. LeaseRenewed(p)
    BY <1>3, <2>2, <2>3, RowFields DEF LeaseRenewed, ActiveLeases
  <2>5. \A q \in Runs \ {p} : Stays(q)
    BY <1>1, <2>2 DEF Stays, LeaseKept, InvocationKept
  <2> QED
    BY <1>1, <2>4, <2>5 DEF RunMoves, Works
<1>4. CASE p \notin ActiveLeases(EodKey)
  <2>1. UNCHANGED <<invocation, lease>> /\ "lookup" \in AtWork \ {"releasing"}
    BY <1>4, LocationNames DEF RenewLease
  <2> QED
    BY <1>1, <2>1, WorksQuietly
<1> QED
  BY <1>3, <1>4

LEMMA CollectMoves == SchedulerTypeOK =>
    \A p \in Runs : Collect(p) \/ TimeOut(p) \/ Raises(p) => \A q \in Runs : RunMoves(q)
<1> SUFFICES ASSUME SchedulerTypeOK, NEW p \in Runs, Collect(p) \/ TimeOut(p) \/ Raises(p)
             PROVE  \A q \in Runs : RunMoves(q)
  OBVIOUS
<1>1. CASE Goto(p, "waiting", "reporting") /\ SetBatchRunId(p, Reported(p))
  <2>1. /\ pc[p] \in AtWork /\ pc'[p] \in AtWork \ {"releasing"}
        /\ pc'[p] # pc[p] /\ \A q \in Runs \ {p} : pc'[q] = pc[q]
    BY <1>1, LocationNames DEF SchedulerTypeOK, Goto
  <2>2. UNCHANGED lease /\ \A q \in Runs \ {p} : InvocationKept(q)
    BY <1>1 DEF SchedulerTypeOK, StoreTypeOK, SetBatchRunId, InvocationKept, Runs
  <2> QED
    BY <2>1, <2>2, OthersStay DEF RunMoves, Works
<1>2. CASE Handle(p) /\ pc[p] \in AtWork
  BY <1>2, HandleMoves
<1>3. Collect(p) => \/ Goto(p, "waiting", "reporting") /\ SetBatchRunId(p, Reported(p))
                    \/ Handle(p) /\ pc[p] \in AtWork
  BY LocationNames DEF Collect
<1>4. TimeOut(p) \/ Raises(p) => Handle(p) /\ pc[p] \in AtWork
  BY DEF TimeOut, Raises, AtWork, TryBlock
<1> QED
  BY <1>1, <1>2, <1>3, <1>4

LEMMA FinishMoves == SchedulerTypeOK =>
    \A p \in Runs : Finish(p) => \A q \in Runs : RunMoves(q)
<1> SUFFICES ASSUME SchedulerTypeOK, NEW p \in Runs, Finish(p)
             PROVE  \A q \in Runs : RunMoves(q)
  OBVIOUS
<1>1. /\ pc[p] = "finishing" /\ pc'[p] = "releasing"
      /\ \A q \in Runs \ {p} : pc'[q] = pc[q]
  BY DEF SchedulerTypeOK, Finish, Goto
<1>2. /\ UNCHANGED lease /\ Recorded(p)'
      /\ \A q \in Runs \ {p} : InvocationKept(q)
  BY DEF SchedulerTypeOK, StoreTypeOK, Finish, FinishInvocation, Recorded,
     InvocationKept, Runs
<1> QED
  BY <1>1, <1>2, OthersStay DEF RunMoves, Records

LEMMA ReleaseMoves == SchedulerTypeOK =>
    \A p \in Runs : Release(p) => \A q \in Runs : RunMoves(q)
<1> SUFFICES ASSUME SchedulerTypeOK, NEW p \in Runs, Release(p)
             PROVE  \A q \in Runs : RunMoves(q)
  OBVIOUS
<1>1. /\ pc[p] = "releasing" /\ pc'[p] = "done"
      /\ \A q \in Runs \ {p} : pc'[q] = pc[q]
  BY DEF SchedulerTypeOK, Release, Ends, Goto
<1>2. Runs = Leases /\ EodKey \in Keys /\ StoreTypeOK /\ clock \in Time
  BY LeaseAssumption DEF Runs, SchedulerTypeOK, Time
<1>3. CASE p \in ActiveLeases(EodKey)
  <2>1. ReleaseLease(p, EodKey, clock)
    BY <1>3 DEF Release
  <2>2. /\ invocation' = invocation
        /\ lease'[p] = Closed(lease[p], "released", clock)
        /\ \A q \in Runs \ {p} : lease'[q] = lease[q]
    BY <1>2, <2>1, ReleaseLeaseEffect
  <2>3. lease[p] \in LeaseRow
    BY <1>2 DEF StoreTypeOK
  <2>4. LeaseReleased(p)
    BY <1>3, <2>2, <2>3, RowFields DEF LeaseReleased, ActiveLeases
  <2>5. InvocationKept(p) /\ \A q \in Runs \ {p} : Stays(q)
    BY <1>1, <2>2 DEF Stays, LeaseKept, InvocationKept
  <2> QED
    BY <1>1, <2>4, <2>5 DEF RunMoves, Releases
<1>4. CASE p \notin ActiveLeases(EodKey)
  <2>1. UNCHANGED <<invocation, lease>>
    BY <1>4 DEF Release
  <2>2. ~ (lease[p].status = "active" /\ lease[p].key = EodKey)
    BY <1>2, <1>4 DEF ActiveLeases
  <2>3. \A q \in Runs : LeaseKept(q) /\ InvocationKept(q)
    BY <2>1 DEF LeaseKept, InvocationKept
  <2>4. Releases(p) /\ \A q \in Runs \ {p} : Stays(q)
    BY <1>1, <2>2, <2>3 DEF Releases, Stays
  <2> QED
    BY <2>4 DEF RunMoves
<1> QED
  BY <1>3, <1>4

LEMMA CrashMoves ==
    SchedulerTypeOK /\ ((\E p \in Runs : Crash(p)) \/ Restart) => \A q \in Runs : RunMoves(q)
<1> SUFFICES ASSUME SchedulerTypeOK, (\E p \in Runs : Crash(p)) \/ Restart
             PROVE  \A q \in Runs : RunMoves(q)
  OBVIOUS
<1>1. \A q \in Runs : LeaseKept(q) /\ InvocationKept(q)
  BY DEF Crash, Restart, LeaseKept, InvocationKept
<1>2. \A q \in Runs : pc'[q] = pc[q] \/ (pc[q] \notin Stopped /\ pc'[q] = "dead")
  <2>1. CASE Restart
    BY <2>1 DEF SchedulerTypeOK, Restart
  <2>2. ASSUME NEW p \in Runs, Crash(p)
        PROVE  \A q \in Runs : pc'[q] = pc[q] \/ (pc[q] \notin Stopped /\ pc'[q] = "dead")
    BY <2>2 DEF SchedulerTypeOK, Crash
  <2> QED
    BY <2>1, <2>2
<1> QED
  BY <1>1, <1>2 DEF RunMoves, Stays, Dies

(* Every step moves every run in one of these ways. *)
LEMMA StepMoves == SchedulerTypeOK /\ NowIsPast /\ [Next]_vars => \A q \in Runs : RunMoves(q)
<1> SUFFICES ASSUME SchedulerTypeOK, NowIsPast, [Next]_vars
             PROVE  \A q \in Runs : RunMoves(q)
  OBVIOUS
<1>1. ASSUME UNCHANGED <<invocation, lease, pc>> PROVE \A q \in Runs : RunMoves(q)
  BY <1>1 DEF RunMoves, Stays, LeaseKept, InvocationKept
<1>2. CASE Tick \/ UNCHANGED vars \/ \E p \in Runs : ChildStep(p)
  BY <1>1, <1>2 DEF Tick, vars, ChildStep, ChildBegins, ChildEnds, ChildDies
<1>3. CASE Restart \/ \E p \in Runs : Crash(p)
  BY <1>3, CrashMoves
<1>4. ASSUME NEW p \in Runs, Start(p) \/ RunStep(p) \/ Raises(p)
      PROVE  \A q \in Runs : RunMoves(q)
  BY <1>4, StartMoves, AcquireMoves, OverlapMoves, BeginMoves, QuietMoves, RenewMoves,
     CollectMoves, FinishMoves, ReleaseMoves DEF RunStep
<1> QED
  BY <1>2, <1>3, <1>4 DEF Next

----------------------------------------------------------------------------

(* Where a run is tells what its lease can be; a lease that has been taken *)
(* over has run out; a run that is about to release, or that is done, has  *)
(* its verdict on record.                                                  *)
LeasePhases ==
    \A q \in Runs :
        /\ pc[q] \in {"idle", "created", "overlapped"} => lease[q].status = "none"
        /\ pc[q] \in AtWork => lease[q].status \in {"active", "expired"}
        /\ lease[q].status = "released" => pc[q] = "done"
        /\ pc[q] = "done" => lease[q].status # "active"

LeaseRows ==
    \A q \in Runs :
        /\ lease[q].status = "none" => lease[q].expires = 0
        /\ lease[q].status # "none" => lease[q].key = EodKey
        /\ lease[q].status = "expired" => lease[q].expires =< clock

VerdictsRecorded ==
    \A q \in Runs : pc[q] \in {"releasing", "done"} => Recorded(q)

LeaseInv == NowIsPast /\ LeasePhases /\ LeaseRows /\ VerdictsRecorded

LEMMA LeaseInvInit == Init => LeaseInv
<1> SUFFICES ASSUME Init PROVE LeaseInv
  OBVIOUS
<1>1. /\ clock = 0 /\ \A q \in Runs : pc[q] = "idle" /\ run[q].now = 0
  BY DEF Init, NoLocals
<1>2. \A q \in Runs : lease[q].status = "none" /\ lease[q].expires = 0
  BY DEF Init, StoreInit, NoLeaseRow, Runs
<1> QED
  BY <1>1, <1>2, LocationNames
  DEF LeaseInv, NowIsPast, LeasePhases, LeaseRows, VerdictsRecorded

LEMMA ClockForward == SchedulerTypeOK /\ [Next]_vars => clock =< clock' /\ clock' \in Nat
<1> SUFFICES ASSUME SchedulerTypeOK, [Next]_vars PROVE clock =< clock' /\ clock' \in Nat
  OBVIOUS
<1>1. clock \in Nat
  BY DEF SchedulerTypeOK
<1>2. CASE Tick
  BY <1>1, <1>2 DEF Tick
<1>3. CASE UNCHANGED clock
  BY <1>1, <1>3
<1>4. [Next]_vars => Tick \/ UNCHANGED clock
  BY DEF Next, vars, Start, RunStep, ChildStep, Raises, Crash, Restart, Acquire, Overlap,
     SkipOverlap, Begin, Probe, Wake, RenewLease, SpawnChild, Collect, TimeOut, Report,
     Finish, Release, ChildBegins, ChildEnds, ChildDies, Handle
<1> QED
  BY <1>2, <1>3, <1>4

LEMMA LeasePhasesStep == LeaseInv /\ (\A q \in Runs : RunMoves(q)) => LeasePhases'
<1> SUFFICES ASSUME LeaseInv, \A q \in Runs : RunMoves(q), NEW q \in Runs
             PROVE  /\ pc'[q] \in {"idle", "created", "overlapped"} => lease'[q].status = "none"
                    /\ pc'[q] \in AtWork => lease'[q].status \in {"active", "expired"}
                    /\ lease'[q].status = "released" => pc'[q] = "done"
                    /\ pc'[q] = "done" => lease'[q].status # "active"
  BY DEF LeasePhases
<1> USE LocationNames DEF LeaseInv, LeasePhases
<1>1. CASE Stays(q)
  BY <1>1 DEF Stays, LeaseKept, LeaseTakenOver
<1>2. CASE Starts(q) \/ IsTurnedAway(q) \/ Skips(q) \/ Records(q)
  BY <1>2 DEF Starts, IsTurnedAway, Skips, Records, LeaseKept
<1>3. CASE Acquires(q)
  BY <1>3 DEF Acquires, LeaseGranted
<1>4. CASE Works(q)
  BY <1>4 DEF Works, LeaseKept, LeaseRenewed
<1>5. CASE Releases(q)
  BY <1>5 DEF Releases, LeaseKept, LeaseReleased, LeaseRows
<1>6. CASE Dies(q)
  BY <1>6 DEF Dies, LeaseKept, Stopped
<1> QED
  BY <1>1, <1>2, <1>3, <1>4, <1>5, <1>6 DEF RunMoves

LEMMA LeaseRowsStep ==
    /\ SchedulerTypeOK /\ LeaseInv /\ (\A q \in Runs : RunMoves(q))
    /\ clock =< clock' /\ clock' \in Nat
    => LeaseRows'
<1> SUFFICES ASSUME SchedulerTypeOK, LeaseInv, \A q \in Runs : RunMoves(q),
                    clock =< clock', clock' \in Nat, NEW q \in Runs
             PROVE  /\ lease'[q].status = "none" => lease'[q].expires = 0
                    /\ lease'[q].status # "none" => lease'[q].key = EodKey
                    /\ lease'[q].status = "expired" => lease'[q].expires =< clock'
  BY DEF LeaseRows
<1>1. clock \in Nat /\ lease[q].expires \in Nat
  BY LeaseAssumption DEF SchedulerTypeOK, StoreTypeOK, LeaseRow, Time, Runs
<1>2. LeaseKept(q) \/ LeaseGranted(q) \/ LeaseTakenOver(q) \/ LeaseRenewed(q) \/ LeaseReleased(q)
  BY DEF RunMoves, Stays, Starts, IsTurnedAway, Skips, Records, Acquires, Works, Releases, Dies
<1> QED
  BY <1>1, <1>2 DEF LeaseInv, LeaseRows, LeaseKept, LeaseGranted, LeaseTakenOver,
     LeaseRenewed, LeaseReleased

LEMMA VerdictsStep == LeaseInv /\ (\A q \in Runs : RunMoves(q)) => VerdictsRecorded'
<1> SUFFICES ASSUME LeaseInv, \A q \in Runs : RunMoves(q), NEW q \in Runs,
                    pc'[q] \in {"releasing", "done"}
             PROVE  Recorded(q)'
  BY DEF VerdictsRecorded
<1>1. CASE Stays(q)
  BY <1>1 DEF Stays, LeaseInv, VerdictsRecorded, Recorded, InvocationKept
<1>2. CASE Releases(q)
  BY <1>2 DEF Releases, LeaseInv, VerdictsRecorded, Recorded, InvocationKept
<1>3. CASE Skips(q) \/ Records(q)
  BY <1>3 DEF Skips, Records
<1>4. CASE Starts(q) \/ Acquires(q) \/ IsTurnedAway(q) \/ Works(q) \/ Dies(q)
  BY <1>4, LocationNames DEF Starts, Acquires, IsTurnedAway, Works, Dies
<1> QED
  BY <1>1, <1>2, <1>3, <1>4 DEF RunMoves

LEMMA LeaseInvStep == SchedulerTypeOK /\ LeaseInv /\ [Next]_vars => LeaseInv'
<1>1. SchedulerTypeOK /\ LeaseInv /\ [Next]_vars =>
          /\ NowIsPast' /\ (\A q \in Runs : RunMoves(q))
          /\ clock =< clock' /\ clock' \in Nat
  BY NowStep, StepMoves, ClockForward DEF LeaseInv
<1> QED
  BY <1>1, LeasePhasesStep, LeaseRowsStep, VerdictsStep DEF LeaseInv

THEOREM LeaseInvariant == Spec => []LeaseInv
BY LeaseInvInit, LeaseInvStep, SchedulerTypeCorrect, PTL DEF Spec

(* No two runs are at work under leases that have both time left.          *)
THEOREM HoldersExclusive == Spec => []UnexpiredHoldersExclusive
<1>1. SchedulerTypeOK /\ LeaseInv /\ OneActiveLeasePerKey => UnexpiredHoldersExclusive
  <2> SUFFICES ASSUME SchedulerTypeOK, LeaseInv, OneActiveLeasePerKey,
                      NEW p \in Runs, NEW q \in Runs, p # q,
                      pc[p] \in AtWork, pc[q] \in AtWork, lease[p].expires > clock
               PROVE  lease[q].expires =< clock
    BY DEF UnexpiredHoldersExclusive
  <2>1. clock \in Nat /\ lease[p].expires \in Nat
    BY LeaseAssumption DEF SchedulerTypeOK, StoreTypeOK, LeaseRow, Time, Runs
  <2>2. lease[p].status = "active" /\ lease[p].key = EodKey
    BY <2>1 DEF LeaseInv, LeasePhases, LeaseRows
  <2>3. lease[q].status # "active"
    BY <2>2 DEF LeaseInv, LeaseRows, OneActiveLeasePerKey, Runs
  <2> QED
    BY <2>3 DEF LeaseInv, LeasePhases, LeaseRows
<1> QED
  BY <1>1, LeaseInvariant, SchedulerTypeCorrect, SchedulerLeasesExclusive, PTL

(* No lease is released, and no run is done, without a verdict on record.  *)
THEOREM VerdictsPrecedeReleases == Spec => []VerdictBeforeRelease
<1>1. LeaseInv => VerdictBeforeRelease
  BY DEF LeaseInv, LeasePhases, VerdictsRecorded, Recorded, VerdictBeforeRelease
<1> QED
  BY <1>1, LeaseInvariant, PTL

(* A lease belongs to the run it is named after. *)
OwnersNamed == \A q \in Runs : lease[q].status # "none" => lease[q].owner = q

(* A run with a verdict on record before it has recorded one has lost its  *)
(* lease, unless it handles an exception, and then a hard failure follows. *)
VerdictPhases ==
    \A q \in Runs :
        /\ pc[q] \in {"idle", "created", "overlapped"} => ~ Recorded(q)
        /\ pc[q] \in AtWork \ {"releasing"} /\ ~ run[q].handling /\ Recorded(q)
           => lease[q].status = "expired"
        /\ run[q].handling => pc[q] \in {"finishing", "releasing"}
        /\ run[q].handling /\ pc[q] = "finishing" => run[q].verdict = "hard_failure"

LEMMA OwnersInit == Init => OwnersNamed
BY DEF Init, StoreInit, NoLeaseRow, OwnersNamed, Runs

LEMMA OwnersStep == SchedulerTypeOK /\ OwnersNamed /\ [Next]_vars => OwnersNamed'
<1> SUFFICES ASSUME SchedulerTypeOK, OwnersNamed, [Next]_vars PROVE OwnersNamed'
  OBVIOUS
<1>1. Runs = Leases /\ Runs = Invocations /\ EodKey \in Keys /\ StoreTypeOK
  BY DEF Runs, SchedulerTypeOK
<1>2. \A q \in Runs : lease[q] \in LeaseRow
  BY <1>1 DEF StoreTypeOK
<1>3. CASE UNCHANGED lease
  BY <1>3 DEF OwnersNamed
<1>4. ASSUME NEW p \in Runs, Acquire(p) PROVE OwnersNamed'
  <2> DEFINE at == run[p].now
             until == run[p].now + LeaseTtl
             new == NewLeaseRow(EodKey, p, at, until)
  <2>1. at \in Time /\ until \in Time
    BY LeaseAssumption DEF SchedulerTypeOK, RunLocals, Time
  <2>2. AcquireLease(p, EodKey, p, at, until)
    BY <1>4 DEF Acquire
  <2>3. new.owner = p
    BY DEF NewLeaseRow
  <2> HIDE DEF at, until, new
  <2>4. CASE AcquireFree(p, EodKey, p, at, until)
    <3>1. lease'[p] = new /\ \A q \in Runs \ {p} : lease'[q] = lease[q]
      BY <1>1, <2>1, <2>4, AcquireFreeEffect DEF new
    <3> QED
      BY <2>3, <3>1 DEF OwnersNamed
  <2>5. ASSUME NEW c \in Leases, AcquireExpired(c, p, EodKey, p, at, until)
        PROVE  OwnersNamed'
    <3>1. /\ c # p /\ c \in ActiveLeases(EodKey) /\ lease'[p] = new
          /\ lease'[c] = Closed(lease[c], "expired", at)
          /\ \A m \in Leases : m # p /\ m # c => lease'[m] = lease[m]
      BY <1>1, <2>1, <2>5, AcquireExpiredEffect DEF new
    <3>2. lease'[c].owner = lease[c].owner /\ lease[c].status # "none"
      BY <1>1, <1>2, <3>1, RowFields DEF ActiveLeases
    <3> QED
      BY <1>1, <2>3, <3>1, <3>2 DEF OwnersNamed
  <2> QED
    BY <2>2, <2>4, <2>5 DEF AcquireLease
<1>5. ASSUME NEW p \in Runs, RenewLease(p), p \in ActiveLeases(EodKey) PROVE OwnersNamed'
  <2> DEFINE until == clock + LeaseTtl
  <2>1. until \in Time /\ Heartbeat(p, EodKey, until)
    BY <1>5, LeaseAssumption DEF RenewLease, SchedulerTypeOK, Time
  <2> HIDE DEF until
  <2>2. lease'[p] = Renewed(lease[p], until) /\ \A q \in Runs \ {p} : lease'[q] = lease[q]
    BY <1>1, <2>1, HeartbeatEffect
  <2>3. lease'[p].owner = lease[p].owner /\ lease'[p].status = lease[p].status
    BY <1>2, <2>2, RowFields
  <2> QED
    BY <2>2, <2>3 DEF OwnersNamed
<1>6. ASSUME NEW p \in Runs, Release(p), p \in ActiveLeases(EodKey) PROVE OwnersNamed'
  <2>1. clock \in Time /\ ReleaseLease(p, EodKey, clock)
    BY <1>6, LeaseAssumption DEF Release, SchedulerTypeOK, Time
  <2>2. lease'[p] = Closed(lease[p], "released", clock)
        /\ \A q \in Runs \ {p} : lease'[q] = lease[q]
    BY <1>1, <2>1, ReleaseLeaseEffect
  <2>3. lease'[p].owner = lease[p].owner /\ lease[p].status # "none"
    BY <1>2, <1>6, <2>2, RowFields DEF ActiveLeases
  <2> QED
    BY <2>2, <2>3 DEF OwnersNamed
<1>7. ASSUME NEW p \in Runs,
             \/ Start(p) \/ Overlap(p) \/ SkipOverlap(p) \/ Begin(p) \/ Probe(p) \/ Wake(p)
             \/ SpawnChild(p) \/ Collect(p) \/ TimeOut(p) \/ Report(p) \/ Finish(p)
             \/ ChildStep(p) \/ Raises(p) \/ Crash(p)
      PROVE  UNCHANGED lease
  BY <1>7 DEF Start, CreateInvocation, Overlap, SkipOverlap, FinishInvocation, Begin,
     StartInvocation, Probe, Wake, SpawnChild, Collect, SetBatchRunId, TimeOut, Report,
     Finish, ChildStep, ChildBegins, ChildEnds, ChildDies, Raises, Crash, Handle
<1>8. ASSUME NEW p \in Runs, RenewLease(p) \/ Release(p), p \notin ActiveLeases(EodKey)
      PROVE  UNCHANGED lease
  BY <1>8 DEF RenewLease, Release
<1>9. Tick \/ Restart \/ UNCHANGED vars => UNCHANGED lease
  BY DEF Tick, Restart, vars
<1> QED
  BY <1>3, <1>4, <1>5, <1>6, <1>7, <1>8, <1>9 DEF Next, RunStep

(* A lease that has been taken over stays so. *)
LEMMA ExpiredStays ==
    ASSUME LeaseInv, NEW q \in Runs, RunMoves(q), lease[q].status = "expired"
    PROVE  lease'[q].status = "expired"
BY DEF RunMoves, Stays, Starts, Acquires, IsTurnedAway, Skips, Works, Records, Releases,
   Dies, LeaseKept, LeaseGranted, LeaseTakenOver, LeaseRenewed, LeaseReleased

----------------------------------------------------------------------------

(* The ways of one run from place to place, with what the step does to the *)
(* verdict on record and to the one about to be recorded.                  *)
Watches(q) ==
    /\ pc'[q] = pc[q]
    /\ run'[q].handling = run[q].handling /\ run'[q].verdict = run[q].verdict
    /\ Recorded(q) => InvocationKept(q)
    /\ Recorded(q)' => Recorded(q) \/ lease'[q].status = "expired"

Approaches(q) ==
    /\ pc[q] \in {"idle", "created"} /\ pc'[q] \in {"created", "overlapped", "acquired"}
    /\ run'[q].handling = run[q].handling
    /\ Recorded(q)' => Recorded(q)

Proceeds(q) ==
    /\ pc[q] \in AtWork \ {"finishing", "releasing"} /\ pc'[q] \in AtWork \ {"releasing"}
    /\ pc'[q] # pc[q]
    /\ run'[q].handling = run[q].handling
    /\ Recorded(q)' => Recorded(q)

HandlesFailure(q) ==
    /\ pc[q] \in AtWork /\ pc'[q] = "finishing"
    /\ run'[q].handling /\ run'[q].verdict = "hard_failure" /\ InvocationKept(q)

Concludes(q) ==
    /\ pc[q] = "finishing" /\ pc'[q] = "releasing"
    /\ run'[q].handling = run[q].handling /\ invocation'[q].status = run[q].verdict

Departs(q) ==
    /\ pc'[q] \in Stopped /\ (pc'[q] = "idle" => pc[q] = "idle")
    /\ ~ run'[q].handling
    /\ InvocationKept(q) \/ pc[q] = "overlapped"

VerdictMoves(q) ==
    \/ Watches(q) \/ Approaches(q) \/ Proceeds(q) \/ HandlesFailure(q) \/ Concludes(q)
    \/ Departs(q)

(* A step that writes nothing of a run is watched by it. *)
LEMMA OthersWatch ==
    ASSUME NEW q \in Runs, pc'[q] = pc[q], run'[q] = run[q], InvocationKept(q)
    PROVE  VerdictMoves(q)
BY DEF VerdictMoves, Watches, InvocationKept, Recorded

LEMMA StartVerdict == SchedulerTypeOK =>
    \A p \in Runs : Start(p) => \A q \in Runs : VerdictMoves(q)
<1> SUFFICES ASSUME SchedulerTypeOK, NEW p \in Runs, Start(p)
             PROVE  \A q \in Runs : VerdictMoves(q)
  OBVIOUS
<1>1. /\ pc[p] = "idle" /\ pc'[p] = "created" /\ run'[p].handling = run[p].handling
      /\ \A q \in Runs \ {p} : pc'[q] = pc[q] /\ run'[q] = run[q]
  BY DEF SchedulerTypeOK, RunLocals, Start, Goto
<1>2. invocation'[p].status = "pending" /\ \A q \in Runs \ {p} : InvocationKept(q)
  BY DEF SchedulerTypeOK, StoreTypeOK, InvocationRow, Start, CreateInvocation,
     InvocationKept, Runs
<1>3. Approaches(p)
  BY <1>1, <1>2 DEF Approaches, Recorded, FinalStatuses
<1> QED
  BY <1>1, <1>2, <1>3, OthersWatch DEF VerdictMoves

(* Only a takeover writes the invocation of another run, and it closes the *)
(* lease of that run.                                                      *)
LEMMA AcquireVerdict == SchedulerTypeOK /\ OwnersNamed =>
    \A p \in Runs : Acquire(p) => \A q \in Runs : VerdictMoves(q)
<1> SUFFICES ASSUME SchedulerTypeOK, OwnersNamed, NEW p \in Runs, Acquire(p)
             PROVE  \A q \in Runs : VerdictMoves(q)
  OBVIOUS
<1> DEFINE at == run[p].now
           until == run[p].now + LeaseTtl
<1>1. at \in Time /\ until \in Time
  BY LeaseAssumption DEF SchedulerTypeOK, RunLocals, Time
<1>2. /\ pc[p] = "created" /\ pc'[p] = "acquired" /\ run' = run
      /\ \A q \in Runs \ {p} : pc'[q] = pc[q]
  BY DEF SchedulerTypeOK, Acquire, Goto
<1>3. Runs = Leases /\ Runs = Invocations /\ EodKey \in Keys /\ StoreTypeOK
  BY DEF Runs, SchedulerTypeOK
<1>4. AcquireLease(p, EodKey, p, at, until)
  BY DEF Acquire
<1> HIDE DEF at, until
<1>5. CASE AcquireFree(p, EodKey, p, at, until)
  <2>1. \A q \in Runs : InvocationKept(q)
    BY <1>5 DEF AcquireFree, InvocationKept
  <2>2. Approaches(p)
    BY <1>2, <2>1 DEF Approaches, InvocationKept, Recorded
  <2> QED
    BY <1>2, <2>1, <2>2, OthersWatch DEF VerdictMoves
<1>6. ASSUME NEW c \in Leases, AcquireExpired(c, p, EodKey, p, at, until)
      PROVE  \A q \in Runs : VerdictMoves(q)
  <2>1. /\ c # p /\ c \in ActiveLeases(EodKey)
        /\ lease'[c] = Closed(lease[c], "expired", at)
    BY <1>1, <1>3, <1>6, AcquireExpiredEffect
  <2>2. lease[c].owner = c /\ lease'[c].status = "expired"
    <3>1. lease[c] \in LeaseRow
      BY <1>3 DEF StoreTypeOK
    <3> QED
      BY <1>3, <2>1, <3>1, RowFields DEF ActiveLeases, OwnersNamed
  <2>3. invocation' = [invocation EXCEPT ![c] = Interrupted(@)]
    BY <1>6, <2>2 DEF AcquireExpired
  <2>4. \A q \in Runs \ {c} : InvocationKept(q)
    BY <1>3, <2>3 DEF StoreTypeOK, InvocationKept
  <2>5. Recorded(c) => InvocationKept(c)
    BY <1>3, <2>3 DEF StoreTypeOK, InvocationKept, Recorded, Interrupted, FinalStatuses
  <2>6. Watches(c)
    BY <1>2, <1>3, <2>1, <2>2, <2>5 DEF Watches
  <2>7. Approaches(p)
    BY <1>2, <2>1, <2>4 DEF Approaches, InvocationKept, Recorded
  <2> QED
    BY <1>2, <2>4, <2>6, <2>7, OthersWatch DEF VerdictMoves
<1> QED
  BY <1>4, <1>5, <1>6 DEF AcquireLease

LEMMA OverlapVerdict == SchedulerTypeOK =>
    \A p \in Runs : Overlap(p) \/ SkipOverlap(p) => \A q \in Runs : VerdictMoves(q)
<1> SUFFICES ASSUME SchedulerTypeOK, NEW p \in Runs, Overlap(p) \/ SkipOverlap(p)
             PROVE  \A q \in Runs : VerdictMoves(q)
  OBVIOUS
<1>1. CASE Overlap(p)
  <2>1. /\ pc[p] = "created" /\ pc'[p] = "overlapped" /\ run' = run
        /\ \A q \in Runs \ {p} : pc'[q] = pc[q]
    BY <1>1 DEF SchedulerTypeOK, Overlap, Goto
  <2>2. \A q \in Runs : InvocationKept(q)
    BY <1>1 DEF Overlap, InvocationKept
  <2>3. Approaches(p)
    BY <2>1, <2>2 DEF Approaches, InvocationKept, Recorded
  <2> QED
    BY <2>1, <2>2, <2>3, OthersWatch DEF VerdictMoves
<1>2. CASE SkipOverlap(p)
  <2>1. /\ pc[p] = "overlapped" /\ pc'[p] = "done" /\ ~ run'[p].handling
        /\ \A q \in Runs \ {p} : pc'[q] = pc[q] /\ run'[q] = run[q]
    BY <1>2 DEF SchedulerTypeOK, SkipOverlap, Ends, Goto, NoLocals
  <2>2. \A q \in Runs \ {p} : InvocationKept(q)
    BY <1>2 DEF SchedulerTypeOK, StoreTypeOK, SkipOverlap, FinishInvocation, InvocationKept,
       Runs
  <2>3. Departs(p)
    BY <2>1 DEF Departs, Stopped
  <2> QED
    BY <2>1, <2>2, <2>3, OthersWatch DEF VerdictMoves
<1> QED
  BY <1>1, <1>2

LEMMA BeginVerdict == SchedulerTypeOK =>
    \A p \in Runs : Begin(p) => \A q \in Runs : VerdictMoves(q)
<1> SUFFICES ASSUME SchedulerTypeOK, NEW p \in Runs, Begin(p)
             PROVE  \A q \in Runs : VerdictMoves(q)
  OBVIOUS
<1>1. /\ pc[p] = "acquired" /\ pc'[p] \in {"probing", "finishing"}
      /\ \A q \in Runs \ {p} : pc'[q] = pc[q]
  BY DEF SchedulerTypeOK, Begin, Goto
<1>2. run'[p].handling = run[p].handling /\ \A q \in Runs \ {p} : run'[q] = run[q]
  BY DEF SchedulerTypeOK, RunLocals, Begin
<1>3. invocation'[p].status = "running" /\ \A q \in Runs \ {p} : InvocationKept(q)
  BY DEF SchedulerTypeOK, StoreTypeOK, InvocationRow, Begin, StartInvocation, InvocationKept,
     Runs
<1>4. Proceeds(p)
  BY <1>1, <1>2, <1>3, LocationNames DEF Proceeds, Recorded, FinalStatuses
<1> QED
  BY <1>1, <1>2, <1>3, <1>4, OthersWatch DEF VerdictMoves

LEMMA HandleVerdict == SchedulerTypeOK =>
    \A p \in Runs : Handle(p) /\ pc[p] \in AtWork => \A q \in Runs : VerdictMoves(q)
<1> SUFFICES ASSUME SchedulerTypeOK, NEW p \in Runs, Handle(p), pc[p] \in AtWork
             PROVE  \A q \in Runs : VerdictMoves(q)
  OBVIOUS
<1>1. /\ pc'[p] = "finishing" /\ run'[p].handling /\ run'[p].verdict = "hard_failure"
      /\ \A q \in Runs \ {p} : pc'[q] = pc[q] /\ run'[q] = run[q]
  BY DEF SchedulerTypeOK, RunLocals, Handle
<1>2. \A q \in Runs : InvocationKept(q)
  BY DEF Handle, InvocationKept
<1> QED
  BY <1>1, <1>2, OthersWatch DEF VerdictMoves, HandlesFailure

LEMMA QuietVerdict == SchedulerTypeOK =>
    \A p \in Runs :
        \/ Probe(p) \/ Wake(p) \/ RenewLease(p) \/ SpawnChild(p) \/ Report(p)
        \/ Collect(p) /\ pc'[p] = "reporting"
        => \A q \in Runs : VerdictMoves(q)
<1> SUFFICES ASSUME SchedulerTypeOK, NEW p \in Runs,
                    \/ Probe(p) \/ Wake(p) \/ RenewLease(p) \/ SpawnChild(p) \/ Report(p)
                    \/ Collect(p) /\ pc'[p] = "reporting"
             PROVE  \A q \in Runs : VerdictMoves(q)
  OBVIOUS
<1>1. PICK to \in AtWork \ {"releasing"} :
          /\ pc[p] \in AtWork \ {"finishing", "releasing"} /\ to # pc[p]
          /\ pc' = [pc EXCEPT ![p] = to]
  <2>1. CASE Probe(p)
    BY <2>1, LocationNames DEF Probe, Goto
  <2>2. CASE Wake(p)
    BY <2>2, LocationNames DEF Wake, Goto
  <2>3. CASE RenewLease(p)
    BY <2>3, LocationNames DEF RenewLease, Goto
  <2>4. CASE SpawnChild(p)
    BY <2>4, LocationNames DEF SpawnChild, Goto
  <2>5. CASE Report(p)
    BY <2>5, LocationNames DEF Report, Goto
  <2>6. CASE Collect(p) /\ pc'[p] = "reporting"
    BY <2>6, LocationNames DEF SchedulerTypeOK, Collect, Goto, Handle
  <2> QED
    BY <2>1, <2>2, <2>3, <2>4, <2>5, <2>6
<1>2. pc'[p] = to /\ \A q \in Runs \ {p} : pc'[q] = pc[q]
  BY <1>1 DEF SchedulerTypeOK
<1>3. run'[p].handling = run[p].handling /\ \A q \in Runs \ {p} : run'[q] = run[q]
  <2>1. CASE Probe(p)
    BY <2>1 DEF SchedulerTypeOK, RunLocals, Probe
  <2>2. CASE SpawnChild(p) \/ Report(p)
    BY <2>2 DEF SchedulerTypeOK, RunLocals, SpawnChild, Report
  <2>3. CASE Wake(p) \/ RenewLease(p)
    BY <2>3 DEF Wake, RenewLease
  <2>4. CASE Collect(p) /\ pc'[p] = "reporting"
    BY <2>4 DEF SchedulerTypeOK, Collect, Handle
  <2> QED
    BY <2>1, <2>2, <2>3, <2>4
<1>4. \A q \in Runs : InvocationKept(q)
  <2>1. CASE Probe(p) \/ Wake(p) \/ SpawnChild(p) \/ Report(p)
    BY <2>1 DEF Probe, Wake, SpawnChild, Report, InvocationKept
  <2>2. CASE RenewLease(p)
    BY <2>2 DEF RenewLease, Heartbeat, InvocationKept
  <2>3. CASE Collect(p) /\ pc'[p] = "reporting"
    BY <2>3 DEF SchedulerTypeOK, StoreTypeOK, InvocationRow, Collect, SetBatchRunId, Handle,
       InvocationKept, Runs
  <2> QED
    BY <2>1, <2>2, <2>3
<1>5. Proceeds(p)
  BY <1>1, <1>2, <1>3, <1>4 DEF Proceeds, InvocationKept, Recorded
<1> QED
  BY <1>2, <1>3, <1>4, <1>5, OthersWatch DEF VerdictMoves

LEMMA FinishVerdict == SchedulerTypeOK =>
    \A p \in Runs : Finish(p) => \A q \in Runs : VerdictMoves(q)
<1> SUFFICES ASSUME SchedulerTypeOK, NEW p \in Runs, Finish(p)
             PROVE  \A q \in Runs : VerdictMoves(q)
  OBVIOUS
<1>1. /\ pc[p] = "finishing" /\ pc'[p] = "releasing" /\ run' = run
      /\ \A q \in Runs \ {p} : pc'[q] = pc[q]
  BY DEF SchedulerTypeOK, Finish, Goto
<1>2. /\ invocation'[p].status = run[p].verdict
      /\ \A q \in Runs \ {p} : InvocationKept(q)
  BY DEF SchedulerTypeOK, StoreTypeOK, InvocationRow, Finish, FinishInvocation,
     InvocationKept, Runs
<1> QED
  BY <1>1, <1>2, OthersWatch DEF VerdictMoves, Concludes

LEMMA ReleaseVerdict == SchedulerTypeOK =>
    \A p \in Runs : Release(p) => \A q \in Runs : VerdictMoves(q)
<1> SUFFICES ASSUME SchedulerTypeOK, NEW p \in Runs, Release(p)
             PROVE  \A q \in Runs : VerdictMoves(q)
  OBVIOUS
<1>1. /\ pc'[p] = "done" /\ ~ run'[p].handling
      /\ \A q \in Runs \ {p} : pc'[q] = pc[q] /\ run'[q] = run[q]
  BY DEF SchedulerTypeOK, Release, Ends, Goto, NoLocals
<1>2. \A q \in Runs : InvocationKept(q)
  BY DEF Release, ReleaseLease, InvocationKept
<1>3. Departs(p)
  BY <1>1, <1>2 DEF Departs, Stopped
<1> QED
  BY <1>1, <1>2, <1>3, OthersWatch DEF VerdictMoves

LEMMA CrashVerdict ==
    SchedulerTypeOK /\ ((\E p \in Runs : Crash(p)) \/ Restart) =>
        \A q \in Runs : VerdictMoves(q)
<1> SUFFICES ASSUME SchedulerTypeOK, (\E p \in Runs : Crash(p)) \/ Restart
             PROVE  \A q \in Runs : VerdictMoves(q)
  OBVIOUS
<1>1. \A q \in Runs : InvocationKept(q)
  BY DEF Crash, Restart, InvocationKept
<1>2. CASE Restart
  <2>1. \A q \in Runs : ~ run'[q].handling
    BY <1>2 DEF Restart, NoLocals
  <2>2. \A q \in Runs : pc'[q] \in Stopped /\ (pc'[q] = "idle" => pc[q] = "idle")
    BY <1>2 DEF SchedulerTypeOK, Restart, Stopped
  <2> QED
    BY <1>1, <2>1, <2>2 DEF VerdictMoves, Departs
<1>3. ASSUME NEW p \in Runs, Crash(p) PROVE \A q \in Runs : VerdictMoves(q)
  <2>1. /\ pc'[p] = "dead" /\ ~ run'[p].handling
        /\ \A q \in Runs \ {p} : pc'[q] = pc[q] /\ run'[q] = run[q]
    BY <1>3 DEF SchedulerTypeOK, Crash, NoLocals
  <2>2. Departs(p)
    BY <1>1, <2>1 DEF Departs, Stopped
  <2> QED
    BY <1>1, <2>1, <2>2, OthersWatch DEF VerdictMoves
<1> QED
  BY <1>2, <1>3

(* Every step moves every run in one of these ways. *)
LEMMA StepVerdicts ==
    SchedulerTypeOK /\ OwnersNamed /\ [Next]_vars => \A q \in Runs : VerdictMoves(q)
<1> SUFFICES ASSUME SchedulerTypeOK, OwnersNamed, [Next]_vars
             PROVE  \A q \in Runs : VerdictMoves(q)
  OBVIOUS
<1>1. CASE Tick \/ UNCHANGED vars \/ \E p \in Runs : ChildStep(p)
  <2>1. UNCHANGED <<invocation, pc, run>>
    BY <1>1 DEF Tick, vars, ChildStep, ChildBegins, ChildEnds, ChildDies
  <2> QED
    BY <2>1, OthersWatch DEF InvocationKept
<1>2. CASE Restart \/ \E p \in Runs : Crash(p)
  BY <1>2, CrashVerdict
<1>3. ASSUME NEW p \in Runs, Collect(p) \/ TimeOut(p) \/ Raises(p)
      PROVE  \A q \in Runs : VerdictMoves(q)
  <2>1. \/ Collect(p) /\ pc'[p] = "reporting"
        \/ Handle(p) /\ pc[p] \in AtWork
    BY <1>3, LocationNames
    DEF SchedulerTypeOK, Collect, TimeOut, Raises, Goto, AtWork, TryBlock
  <2> QED
    BY <2>1, HandleVerdict, QuietVerdict
<1>4. ASSUME NEW p \in Runs, Start(p) \/ RunStep(p)
      PROVE  \A q \in Runs : VerdictMoves(q)
  BY <1>3, <1>4, StartVerdict, AcquireVerdict, OverlapVerdict, BeginVerdict, QuietVerdict,
     FinishVerdict, ReleaseVerdict DEF RunStep
<1> QED
  BY <1>1, <1>2, <1>3, <1>4 DEF Next

LEMMA VerdictPhasesInit == Init => VerdictPhases
<1> SUFFICES ASSUME Init PROVE VerdictPhases
  OBVIOUS
<1>1. \A q \in Runs : pc[q] = "idle" /\ ~ run[q].handling /\ ~ Recorded(q)
  BY DEF Init, NoLocals, StoreInit, NoInvocationRow, Recorded, FinalStatuses, Runs
<1> QED
  BY <1>1, LocationNames DEF VerdictPhases

LEMMA VerdictPhasesStep ==
    /\ LeaseInv /\ LeaseInv' /\ VerdictPhases
    /\ \A q \in Runs : RunMoves(q) /\ VerdictMoves(q)
    => VerdictPhases'
<1> SUFFICES ASSUME LeaseInv, LeaseInv', VerdictPhases,
                    \A q \in Runs : RunMoves(q) /\ VerdictMoves(q), NEW q \in Runs
             PROVE  /\ pc'[q] \in {"idle", "created", "overlapped"} => ~ Recorded(q)'
                    /\ pc'[q] \in AtWork \ {"releasing"} /\ ~ run'[q].handling /\ Recorded(q)'
                       => lease'[q].status = "expired"
                    /\ run'[q].handling => pc'[q] \in {"finishing", "releasing"}
                    /\ run'[q].handling /\ pc'[q] = "finishing"
                       => run'[q].verdict = "hard_failure"
  BY DEF VerdictPhases
<1>1. lease[q].status = "expired" => lease'[q].status = "expired"
  BY ExpiredStays
<1>2. pc'[q] \in {"idle", "created", "overlapped"} => lease'[q].status = "none"
  BY DEF LeaseInv, LeasePhases
<1>3. /\ pc[q] \in {"idle", "created", "overlapped"} => ~ Recorded(q)
      /\ pc[q] \in AtWork \ {"releasing"} /\ ~ run[q].handling /\ Recorded(q)
         => lease[q].status = "expired"
      /\ run[q].handling => pc[q] \in {"finishing", "releasing"}
      /\ run[q].handling /\ pc[q] = "finishing" => run[q].verdict = "hard_failure"
  BY DEF VerdictPhases
<1>4. CASE Watches(q)
  BY <1>1, <1>2, <1>3, <1>4 DEF Watches
<1>5. CASE Approaches(q)
  BY <1>3, <1>5, LocationNames DEF Approaches
<1>6. CASE Proceeds(q)
  BY <1>1, <1>3, <1>6, LocationNames DEF Proceeds
<1>7. CASE HandlesFailure(q)
  BY <1>7 DEF HandlesFailure
<1>8. CASE Concludes(q)
  BY <1>3, <1>8 DEF Concludes
<1>9. CASE Departs(q)
  BY <1>3, <1>9, LocationNames DEF Departs, Stopped, InvocationKept, Recorded
<1> QED
  BY <1>4, <1>5, <1>6, <1>7, <1>8, <1>9 DEF VerdictMoves

VerdictInv == OwnersNamed /\ VerdictPhases

LEMMA VerdictInvStep ==
    SchedulerTypeOK /\ LeaseInv /\ VerdictInv /\ [Next]_vars => VerdictInv'
<1>1. SchedulerTypeOK /\ LeaseInv /\ VerdictInv /\ [Next]_vars =>
          /\ OwnersNamed' /\ LeaseInv'
          /\ \A q \in Runs : RunMoves(q) /\ VerdictMoves(q)
  BY OwnersStep, LeaseInvStep, StepMoves, StepVerdicts DEF LeaseInv, VerdictInv
<1> QED
  BY <1>1, VerdictPhasesStep DEF VerdictInv

(* A verdict on record is changed only by its own run, after the takeover  *)
(* of its lease or to the hard failure of an exception it handles.         *)
THEOREM VerdictsKept == Spec => [][VerdictKept]_vars
<1>1. SchedulerTypeOK /\ LeaseInv /\ VerdictInv /\ [Next]_vars => VerdictKept
  <2> SUFFICES ASSUME SchedulerTypeOK, LeaseInv, VerdictInv, [Next]_vars, NEW p \in Runs,
                      Recorded(p), ~ InvocationKept(p)
               PROVE  /\ pc[p] # pc'[p]
                      /\ \/ lease[p].status = "expired"
                         \/ run[p].handling /\ invocation'[p].status = "hard_failure"
    BY DEF VerdictKept, Recorded, InvocationKept
  <2>1. VerdictMoves(p)
    BY StepVerdicts DEF VerdictInv
  <2>2. CASE Proceeds(p)
    BY <2>2, LocationNames DEF Proceeds, VerdictInv, VerdictPhases
  <2>3. CASE Concludes(p)
    BY <2>3, LocationNames DEF Concludes, VerdictInv, VerdictPhases
  <2>4. ~ (Watches(p) \/ Approaches(p) \/ HandlesFailure(p) \/ Departs(p))
    BY DEF Watches, Approaches, HandlesFailure, Departs, VerdictInv, VerdictPhases
  <2> QED
    BY <2>1, <2>2, <2>3, <2>4 DEF VerdictMoves
<1>2. Init => VerdictInv
  BY OwnersInit, VerdictPhasesInit DEF VerdictInv
<1> QED
  BY <1>1, <1>2, VerdictInvStep, LeaseInvariant, SchedulerTypeCorrect, PTL DEF Spec

----------------------------------------------------------------------------

(* The local variables of a run that has been turned away or sleeps are    *)
(* those it had when it got there.                                         *)
FallsAsleep(p) ==
    /\ ~ OutOfAttempts(p)
    /\ run'[p].probes = run[p].probes + 1
    /\ run'[p].wakeAt = clock + Delay(p, run[p].probes)

WaitsAsBefore(p) ==
    /\ pc'[p] = "overlapped" => run'[p].now = run[p].now
    /\ pc'[p] = "sleeping" => \/ pc[p] = "sleeping" /\ run'[p] = run[p]
                              \/ FallsAsleep(p)

LEMMA WaitStep == SchedulerTypeOK /\ [Next]_vars => \A p \in Runs : WaitsAsBefore(p)
<1> SUFFICES ASSUME SchedulerTypeOK, [Next]_vars
             PROVE  \A p \in Runs : WaitsAsBefore(p)
  OBVIOUS
<1>1. ASSUME UNCHANGED <<pc, run>> PROVE \A p \in Runs : WaitsAsBefore(p)
  BY <1>1 DEF WaitsAsBefore
<1>2. ASSUME NEW p \in Runs, NEW to, to \notin {"overlapped", "sleeping"},
             pc' = [pc EXCEPT ![p] = to],
             \A q \in Runs \ {p} : run'[q] = run[q]
      PROVE  \A q \in Runs : WaitsAsBefore(q)
  <2>1. pc'[p] = to /\ \A q \in Runs \ {p} : pc'[q] = pc[q]
    BY <1>2 DEF SchedulerTypeOK
  <2> QED
    BY <1>2, <2>1 DEF WaitsAsBefore
<1>3. ASSUME NEW p \in Runs, Overlap(p) PROVE \A q \in Runs : WaitsAsBefore(q)
  BY <1>3 DEF SchedulerTypeOK, Overlap, Goto, WaitsAsBefore
<1>4. ASSUME NEW p \in Runs, Probe(p) PROVE \A q \in Runs : WaitsAsBefore(q)
  <2>1. \A q \in Runs \ {p} : run'[q] = run[q]
    BY <1>4 DEF SchedulerTypeOK, Probe
  <2>2. CASE Goto(p, "probing", "ready") \/ Goto(p, "probing", "finishing")
    BY <1>2, <2>1, <2>2 DEF Goto
  <2>3. CASE /\ ~ OutOfAttempts(p) /\ Goto(p, "probing", "sleeping")
             /\ run' = [run EXCEPT ![p].probes = @ + 1,
                                   ![p].wakeAt = clock + Delay(p, run[p].probes)]
    <3>1. FallsAsleep(p)
      BY <2>3 DEF SchedulerTypeOK, RunLocals, FallsAsleep
    <3>2. pc'[p] = "sleeping" /\ \A q \in Runs \ {p} : pc'[q] = pc[q]
      BY <2>3 DEF SchedulerTypeOK, Goto
    <3> QED
      BY <2>1, <3>1, <3>2 DEF WaitsAsBefore
  <2> QED
    BY <1>4, <2>2, <2>3 DEF Probe
<1>5. ASSUME NEW p \in Runs, Handle(p) PROVE \A q \in Runs : WaitsAsBefore(q)
  <2>1. \A q \in Runs \ {p} : run'[q] = run[q]
    BY <1>5 DEF SchedulerTypeOK, Handle
  <2> QED
    BY <1>2, <1>5, <2>1 DEF Handle
<1>6. ASSUME NEW p \in Runs,
             \/ Start(p) \/ Acquire(p) \/ SkipOverlap(p) \/ Begin(p) \/ Wake(p)
             \/ RenewLease(p)
      PROVE  \A q \in Runs : WaitsAsBefore(q)
  <2>1. \A q \in Runs \ {p} : run'[q] = run[q]
    BY <1>6 DEF SchedulerTypeOK, Start, Acquire, SkipOverlap, Begin, Wake, RenewLease, Ends
  <2> QED
    BY <1>2, <1>6, <2>1 DEF Start, Acquire, SkipOverlap, Begin, Wake, RenewLease, Ends, Goto
<1>7. ASSUME NEW p \in Runs,
             \/ SpawnChild(p) \/ Report(p) \/ Finish(p) \/ Release(p) \/ Crash(p)
      PROVE  \A q \in Runs : WaitsAsBefore(q)
  <2>1. \A q \in Runs \ {p} : run'[q] = run[q]
    BY <1>7 DEF SchedulerTypeOK, SpawnChild, Report, Finish, Release, Crash, Ends
  <2> QED
    BY <1>2, <1>7, <2>1 DEF SpawnChild, Report, Finish, Release, Crash, Ends, Goto
<1>8. ASSUME NEW p \in Runs, Collect(p) \/ TimeOut(p) \/ Raises(p)
      PROVE  \A q \in Runs : WaitsAsBefore(q)
  <2>1. CASE Goto(p, "waiting", "reporting") /\ UNCHANGED run
    BY <1>2, <2>1 DEF Goto
  <2> QED
    BY <1>5, <1>8, <2>1 DEF Collect, TimeOut, Raises
<1>9. CASE Restart
  BY <1>9 DEF SchedulerTypeOK, Restart, WaitsAsBefore, Stopped
<1>10. CASE Tick \/ UNCHANGED vars \/ \E p \in Runs : ChildStep(p)
  BY <1>1, <1>10 DEF Tick, vars, ChildStep, ChildBegins, ChildEnds, ChildDies
<1> QED
  BY <1>3, <1>4, <1>6, <1>7, <1>8, <1>9, <1>10 DEF Next, RunStep

(* The wait for market data stays within its deadline and its attempts.    *)
THEOREM WaitIsBounded == Spec => []ProbesBounded
<1>1. Init => ProbesBounded
  BY DEF Init, ProbesBounded
<1>2. SchedulerTypeOK /\ ProbesBounded /\ [Next]_vars => ProbesBounded'
  <2> SUFFICES ASSUME SchedulerTypeOK, ProbesBounded, [Next]_vars,
                      NEW p \in Runs, pc'[p] = "sleeping"
               PROVE  /\ run'[p].probes < MaxDeferredAttempts
                      /\ p \in Scheduled => run'[p].wakeAt =< Deadline
    BY DEF ProbesBounded, Deadline
  <2>1. CASE pc[p] = "sleeping" /\ run'[p] = run[p]
    BY <2>1 DEF ProbesBounded
  <2>2. CASE FallsAsleep(p)
    <3>1. run[p].probes \in Nat /\ clock \in Nat /\ Deadline \in Nat
      BY DEF SchedulerTypeOK, RunLocals, Deadline
    <3>2. run[p].probes + 1 < MaxDeferredAttempts
      BY <2>2, <3>1 DEF FallsAsleep, OutOfAttempts
    <3>3. Backoff(run[p].probes) \in Nat
      BY <3>1, <3>2
    <3>4. p \in Scheduled => clock + Delay(p, run[p].probes) =< Deadline
      BY <3>1, <3>3 DEF Delay
    <3> QED
      BY <2>2, <3>2, <3>4 DEF FallsAsleep
  <2> QED
    BY <2>1, <2>2, WaitStep DEF WaitsAsBefore
<1> QED
  BY <1>1, <1>2, SchedulerTypeCorrect, PTL DEF Spec

(* A lease with time left keeps it. *)
LEMMA UnexpiredStays ==
    SchedulerTypeOK /\ LeaseInv /\ (\A q \in Runs : RunMoves(q)) =>
    \A q \in Runs : \A t \in 0..clock :
        lease[q].expires > t => lease'[q].expires > t
<1> SUFFICES ASSUME SchedulerTypeOK, LeaseInv, \A q \in Runs : RunMoves(q),
                    NEW q \in Runs, NEW t \in 0..clock, lease[q].expires > t
             PROVE  lease'[q].expires > t
  OBVIOUS
<1>1. clock \in Nat /\ lease[q].expires \in Nat
  BY LeaseAssumption DEF SchedulerTypeOK, StoreTypeOK, LeaseRow, Time, Runs
<1>2. LeaseKept(q) \/ LeaseGranted(q) \/ LeaseTakenOver(q) \/ LeaseRenewed(q) \/ LeaseReleased(q)
  BY DEF RunMoves, Stays, Starts, IsTurnedAway, Skips, Records, Acquires, Works, Releases, Dies
<1>3. ~ LeaseGranted(q)
  BY <1>1 DEF LeaseInv, LeaseRows, LeaseGranted
<1> QED
  BY <1>1, <1>2, <1>3 DEF LeaseKept, LeaseTakenOver, LeaseRenewed, LeaseReleased

(* A run is turned away only by a lease with time left.                    *)
THEOREM OverlapIsJustified == Spec => []OverlapJustified
<1>1. Init => OverlapJustified
  BY DEF Init, OverlapJustified
<1>2. SchedulerTypeOK /\ LeaseInv /\ OverlapJustified /\ [Next]_vars => OverlapJustified'
  <2> SUFFICES ASSUME SchedulerTypeOK, LeaseInv, OverlapJustified, [Next]_vars,
                      NEW p \in Runs, pc'[p] = "overlapped"
               PROVE  \E q \in Runs : q # p /\ lease'[q].expires > run'[p].now
    BY DEF OverlapJustified
  <2>1. /\ run'[p].now = run[p].now /\ run[p].now \in 0..clock
        /\ \A q \in Runs : RunMoves(q)
    BY WaitStep, StepMoves DEF WaitsAsBefore, LeaseInv, NowIsPast, SchedulerTypeOK, RunLocals
  <2>2. \E q \in Runs : q # p /\ lease[q].expires > run[p].now
    <3>1. CASE pc[p] = "overlapped"
      BY <3>1 DEF OverlapJustified
    <3>2. CASE IsTurnedAway(p)
      BY <3>2 DEF IsTurnedAway, Blocked, IsCurrent, ActiveLeases, LeaseInv, LeasePhases, Runs
    <3>3. pc[p] = "overlapped" \/ IsTurnedAway(p)
      BY <2>1, LocationNames DEF RunMoves, Stays, Starts, Acquires, Skips, Works, Records,
         Releases, Dies
    <3> QED
      BY <3>1, <3>2, <3>3
  <2> QED
    BY <2>1, <2>2, UnexpiredStays
<1> QED
  BY <1>1, <1>2, LeaseInvariant, SchedulerTypeCorrect, PTL DEF Spec

----------------------------------------------------------------------------

(* A child lives while its run waits for it, or after its run died.        *)
ChildPhase == \A q \in Runs : child[q].status # "none" => pc[q] \in {"waiting", "dead"}

(* A child resumes or works on a batch that exists. *)
NamedBatchExists == \A q \in Runs : child[q].batch # NoBatch => child[q].batch \in Existing

Engaged(q) == pc[q] \in AtWork \/ ChildAlive(q)

(* Without a takeover from a run at work, every run at work, and every     *)
(* child, has the lease; ...                                               *)
EngagedHoldLease == \A q \in Runs : Engaged(q) => lease[q].status = "active"

(* ... no batch appears between the look and the child's first step; ...   *)
NoBatchSinceLook ==
    \A q \in Runs : child[q].status = "spawned" /\ child[q].mayCreate => Existing = {}

(* ... and there is one batch. *)
OneBatch == \A b, c \in Existing : b = c

BatchInv ==
    /\ ChildPhase /\ NamedBatchExists
    /\ ~ overrun => EngagedHoldLease /\ NoBatchSinceLook /\ OneBatch

LEMMA BatchInvInit == Init => BatchInv
<1> SUFFICES ASSUME Init PROVE BatchInv
  OBVIOUS
<1>1. \A q \in Runs : pc[q] = "idle" /\ child[q].status = "none" /\ child[q].batch = NoBatch
  BY DEF Init, NoChild
<1>2. \A b \in Existing : b \in Batches /\ \A c \in Batches : b =< c
  BY DEF Init, Existing
<1>3. OneBatch
  <2>1. \A b, c \in Existing : b \in Nat /\ c \in Nat /\ b =< c /\ c =< b
    BY <1>2
  <2> QED
    BY <2>1 DEF OneBatch
<1> QED
  BY <1>1, <1>3, LocationNames
  DEF BatchInv, ChildPhase, NamedBatchExists, EngagedHoldLease, NoBatchSinceLook, Engaged,
      ChildAlive

(* A child is born of a run that has looked for a batch, and goes on while *)
(* its run waits or is dead.                                               *)
ChildMoves(q) ==
    /\ ChildAlive(q)' => ChildAlive(q) \/ pc[q] = "lookup"
    /\ child'[q].status # "none" =>
          \/ child[q].status # "none" /\ pc'[q] \in {pc[q], "dead"}
          \/ pc[q] = "lookup" /\ pc'[q] = "waiting"

LEMMA ChildRules ==
    SchedulerTypeOK /\ ChildPhase /\ [Next]_vars => \A q \in Runs : ChildMoves(q)
<1> SUFFICES ASSUME SchedulerTypeOK, ChildPhase, [Next]_vars
             PROVE  \A q \in Runs : ChildMoves(q)
  OBVIOUS
<1>1. ASSUME UNCHANGED <<pc, child>> PROVE \A q \in Runs : ChildMoves(q)
  BY <1>1 DEF ChildMoves, ChildAlive
<1>2. ASSUME NEW p \in Runs, NEW to, pc' = [pc EXCEPT ![p] = to], UNCHANGED child,
             pc[p] \notin {"waiting", "dead"} \/ to = "dead"
      PROVE  \A q \in Runs : ChildMoves(q)
  <2>1. pc'[p] = to /\ \A q \in Runs \ {p} : pc'[q] = pc[q]
    BY <1>2 DEF SchedulerTypeOK
  <2> QED
    BY <1>2, <2>1 DEF ChildMoves, ChildAlive, ChildPhase
<1>3. ASSUME NEW p \in Runs, child' = [child EXCEPT ![p] = NoChild],
             \A q \in Runs \ {p} : pc'[q] = pc[q]
      PROVE  \A q \in Runs : ChildMoves(q)
  BY <1>3 DEF SchedulerTypeOK, ChildMoves, ChildAlive, NoChild
<1>4. ASSUME NEW p \in Runs, SpawnChild(p) PROVE \A q \in Runs : ChildMoves(q)
  <2>1. pc[p] = "lookup" /\ pc'[p] = "waiting" /\ \A q \in Runs \ {p} : pc'[q] = pc[q]
    BY <1>4 DEF SchedulerTypeOK, SpawnChild, Goto
  <2>2. \A q \in Runs \ {p} : child'[q] = child[q]
    BY <1>4 DEF SchedulerTypeOK, SpawnChild
  <2> QED
    BY <2>1, <2>2 DEF ChildMoves, ChildAlive
<1>5. ASSUME NEW p \in Runs, ChildBegins(p) PROVE \A q \in Runs : ChildMoves(q)
  <2>1. child[p].status = "spawned" /\ UNCHANGED pc
    BY <1>5 DEF ChildBegins
  <2>2. \A q \in Runs \ {p} : child'[q] = child[q]
    BY <1>5 DEF SchedulerTypeOK, ChildBegins
  <2> QED
    BY <2>1, <2>2 DEF ChildMoves, ChildAlive
<1>6. ASSUME NEW p \in Runs, ChildEnds(p) PROVE \A q \in Runs : ChildMoves(q)
  <2>1. child[p].status = "working" /\ UNCHANGED pc
    BY <1>6 DEF ChildEnds
  <2>2. \A q \in Runs \ {p} : child'[q] = child[q]
    BY <1>6 DEF SchedulerTypeOK, ChildEnds
  <2> QED
    BY <2>1, <2>2 DEF ChildMoves, ChildAlive
<1>7. ASSUME NEW p \in Runs, ChildDies(p) PROVE \A q \in Runs : ChildMoves(q)
  <2>1. ChildAlive(p) /\ UNCHANGED pc
    BY <1>7 DEF ChildDies
  <2>2. \A q \in Runs \ {p} : child'[q] = child[q]
    BY <1>7 DEF SchedulerTypeOK, ChildDies
  <2> QED
    BY <2>1, <2>2 DEF ChildMoves, ChildAlive
<1>8. ASSUME NEW p \in Runs, Collect(p) \/ TimeOut(p) PROVE \A q \in Runs : ChildMoves(q)
  <2>1. child' = [child EXCEPT ![p] = NoChild]
    BY <1>8 DEF Collect, TimeOut
  <2>2. \A q \in Runs \ {p} : pc'[q] = pc[q]
    BY <1>8 DEF SchedulerTypeOK, Collect, TimeOut, Goto, Handle
  <2> QED
    BY <1>3, <2>1, <2>2
<1>9. ASSUME NEW p \in Runs, Raises(p) \/ Crash(p) PROVE \A q \in Runs : ChildMoves(q)
  BY <1>2, <1>9, LocationNames DEF Raises, Crash, Handle, TryBlock
<1>10. CASE Restart
  BY <1>10 DEF SchedulerTypeOK, Restart, ChildMoves, ChildAlive, NoChild
<1>11. ASSUME NEW p \in Runs, Start(p) \/ Acquire(p) \/ Overlap(p) \/ SkipOverlap(p)
       PROVE  \A q \in Runs : ChildMoves(q)
  BY <1>2, <1>11 DEF Start, Acquire, Overlap, SkipOverlap, Ends, Goto
<1>12. ASSUME NEW p \in Runs, Begin(p) \/ Probe(p) \/ Wake(p) \/ RenewLease(p)
       PROVE  \A q \in Runs : ChildMoves(q)
  BY <1>2, <1>12 DEF Begin, Probe, Wake, RenewLease, Goto
<1>13. ASSUME NEW p \in Runs, Report(p) \/ Finish(p) \/ Release(p)
       PROVE  \A q \in Runs : ChildMoves(q)
  BY <1>2, <1>13 DEF Report, Finish, Release, Ends, Goto
<1>14. CASE Tick \/ UNCHANGED vars
  BY <1>1, <1>14 DEF Tick, vars
<1> QED
  BY <1>4, <1>5, <1>6, <1>7, <1>8, <1>9, <1>10, <1>11, <1>12, <1>13, <1>14
  DEF Next, RunStep, ChildStep

(* The first step of a child adds to the batches the one it chose, or none. *)
LEMMA ChildBeginsEffect == SchedulerTypeOK =>
    \A p \in Runs : ChildBegins(p) =>
       \E b \in Batches :
          /\ IsChosenBy(p, b) /\ Existing' = Existing \cup {b}
          /\ child[p].status = "spawned"
          /\ child'[p].status # "spawned" /\ child'[p].batch = b
          /\ \A q \in Runs \ {p} : child'[q] = child[q]
<1> SUFFICES ASSUME SchedulerTypeOK, NEW p \in Runs, ChildBegins(p)
             PROVE  \E b \in Batches :
                       /\ IsChosenBy(p, b) /\ Existing' = Existing \cup {b}
                       /\ child[p].status = "spawned"
                       /\ child'[p].status # "spawned" /\ child'[p].batch = b
                       /\ \A q \in Runs \ {p} : child'[q] = child[q]
  OBVIOUS
<1>1. child[p].status = "spawned"
  BY DEF ChildBegins
<1>2. PICK b \in Batches :
         /\ IsChosenBy(p, b)
         /\ \/ /\ batch[b] \in BatchDone
               /\ child' = [child EXCEPT ![p].status = "exited", ![p].batch = b]
               /\ UNCHANGED batch
            \/ /\ batch[b] \notin BatchDone
               /\ child' = [child EXCEPT ![p].status = "working", ![p].batch = b]
               /\ batch' = [batch EXCEPT ![b] = "running"]
  BY DEF ChildBegins
<1>3. Existing' = Existing \cup {b}
  <2>1. CASE batch[b] \in BatchDone
    BY <1>2, <2>1 DEF Existing, BatchDone
  <2>2. CASE batch[b] \notin BatchDone
    BY <1>2, <2>2 DEF SchedulerTypeOK, Existing
  <2> QED
    BY <2>1, <2>2
<1>4. /\ child'[p].status # "spawned" /\ child'[p].batch = b
      /\ \A q \in Runs \ {p} : child'[q] = child[q]
  BY <1>2 DEF SchedulerTypeOK, ChildProcess
<1> QED
  BY <1>1, <1>2, <1>3, <1>4

(* Every other step leaves the set of batches alone, and lets a child     *)
(* create one only if there is none.                                      *)
ChildLooks(q) ==
    /\ child'[q].status = "spawned" /\ child'[q].mayCreate =>
          (child[q].status = "spawned" /\ child[q].mayCreate) \/ Existing = {}
    /\ child'[q].batch # NoBatch =>
          child'[q].batch = child[q].batch \/ child'[q].batch \in Existing

LEMMA OtherBatchSteps ==
    SchedulerTypeOK /\ [Next]_vars /\ (\A p \in Runs : ~ ChildBegins(p)) =>
       Existing' = Existing /\ \A q \in Runs : ChildLooks(q)
<1> SUFFICES ASSUME SchedulerTypeOK, [Next]_vars, \A p \in Runs : ~ ChildBegins(p)
             PROVE  Existing' = Existing /\ \A q \in Runs : ChildLooks(q)
  OBVIOUS
<1> DEFINE Looks == Existing' = Existing /\ \A q \in Runs : ChildLooks(q)
<1>1. ASSUME UNCHANGED <<child, batch>> PROVE Looks
  BY <1>1 DEF Existing, ChildLooks
<1>2. ASSUME NEW p \in Runs, NEW c \in {NoChild, ExitedSilently}, UNCHANGED batch,
             child' = [child EXCEPT ![p] = c]
      PROVE  Looks
  BY <1>2 DEF SchedulerTypeOK, Existing, ChildLooks, NoChild, ExitedSilently
<1>3. ASSUME NEW p \in Runs, SpawnChild(p) PROVE Looks
  <2>1. Existing' = Existing /\ \A q \in Runs \ {p} : child'[q] = child[q]
    BY <1>3 DEF SchedulerTypeOK, SpawnChild, Existing
  <2>2. ChildLooks(p)
    <3>1. CASE /\ Existing = {}
               /\ child' = [child EXCEPT ![p] =
                     [status |-> "spawned", batch |-> NoBatch, mayCreate |-> TRUE]]
      BY <3>1 DEF SchedulerTypeOK, ChildLooks
    <3>2. ASSUME NEW b \in Existing,
                 child' = [child EXCEPT ![p] =
                    [status |-> "spawned", mayCreate |-> FALSE,
                     batch |-> IF batch[b] \in BatchDone THEN NoBatch ELSE b]]
          PROVE  ChildLooks(p)
      BY <3>2 DEF SchedulerTypeOK, ChildLooks
    <3> QED
      BY <1>3, <3>1, <3>2 DEF SpawnChild, IsNewest
  <2> QED
    BY <2>1, <2>2 DEF ChildLooks
<1>4. ASSUME NEW p \in Runs, ChildEnds(p) PROVE Looks
  <2>1. Existing' = Existing
    <3>1. CASE UNCHANGED batch
      BY <3>1 DEF Existing
    <3>2. ASSUME batch[child[p].batch] = "running",
                 NEW s \in {"success", "partial_success", "failed"},
                 batch' = [batch EXCEPT ![child[p].batch] = s]
          PROVE  Existing' = Existing
      BY <3>2 DEF SchedulerTypeOK, Existing
    <3> QED
      BY <1>4, <3>1, <3>2 DEF ChildEnds
  <2>2. child'[p].status = "exited" /\ child'[p].batch = child[p].batch
    BY <1>4 DEF SchedulerTypeOK, ChildProcess, ChildEnds
  <2>3. \A q \in Runs \ {p} : child'[q] = child[q]
    BY <1>4 DEF SchedulerTypeOK, ChildEnds
  <2> QED
    BY <2>1, <2>2, <2>3 DEF ChildLooks
<1>5. ASSUME NEW p \in Runs, ChildDies(p) \/ Collect(p) \/ TimeOut(p) PROVE Looks
  BY <1>2, <1>5 DEF ChildDies, Collect, TimeOut, Handle
<1>6. CASE Restart
  BY <1>6 DEF SchedulerTypeOK, Restart, Existing, ChildLooks, NoChild
<1>7. ASSUME NEW p \in Runs,
             \/ Start(p) \/ Acquire(p) \/ Overlap(p) \/ SkipOverlap(p) \/ Begin(p)
             \/ Probe(p) \/ Wake(p) \/ RenewLease(p)
      PROVE  Looks
  BY <1>1, <1>7 DEF Start, Acquire, Overlap, SkipOverlap, Begin, Probe, Wake, RenewLease
<1>8. ASSUME NEW p \in Runs,
             Report(p) \/ Finish(p) \/ Release(p) \/ Raises(p) \/ Crash(p)
      PROVE  Looks
  BY <1>1, <1>8 DEF Report, Finish, Release, Raises, Crash, Handle
<1>9. CASE Tick \/ UNCHANGED vars
  BY <1>1, <1>9 DEF Tick, vars
<1> QED
  BY <1>3, <1>4, <1>5, <1>6, <1>7, <1>8, <1>9 DEF Next, RunStep, ChildStep

(* A takeover from a run at work, or from a child, is an overrun. *)
LEMMA OverrunStep ==
    SchedulerTypeOK /\ [Next]_vars /\ ~ overrun' =>
       ~ overrun /\ \A q \in Runs : LeaseTakenOver(q) => ~ Engaged(q)
<1> SUFFICES ASSUME SchedulerTypeOK, [Next]_vars, ~ overrun'
             PROVE  ~ overrun /\ \A q \in Runs : LeaseTakenOver(q) => ~ Engaged(q)
  OBVIOUS
<1> DEFINE Spared == ~ overrun /\ \A q \in Runs : LeaseTakenOver(q) => ~ Engaged(q)
<1>1. ASSUME NEW p \in Runs, Acquire(p) PROVE Spared
  BY <1>1, LocationNames DEF Acquire, LeaseTakenOver, Engaged, Stopped
<1>2. ASSUME UNCHANGED overrun,
             \/ UNCHANGED lease
             \/ \E p \in Runs : Heartbeat(p, EodKey, clock + LeaseTtl)
             \/ \E p \in Runs : ReleaseLease(p, EodKey, clock)
      PROVE  Spared
  <2>1. \A q \in Runs : lease[q].status = "active" => lease'[q].status # "expired"
    <3>1. CASE UNCHANGED lease
      BY <3>1
    <3>2. ASSUME NEW p \in Runs, Heartbeat(p, EodKey, clock + LeaseTtl)
          PROVE  \A q \in Runs : lease'[q].status = lease[q].status
      BY <3>2 DEF SchedulerTypeOK, StoreTypeOK, LeaseRow, Heartbeat, Runs
    <3>3. ASSUME NEW p \in Runs, ReleaseLease(p, EodKey, clock)
          PROVE  \A q \in Runs : lease'[q].status \in {lease[q].status, "released"}
      BY <3>3 DEF SchedulerTypeOK, StoreTypeOK, LeaseRow, ReleaseLease, Runs
    <3> QED
      BY <1>2, <3>1, <3>2, <3>3
  <2> QED
    BY <1>2, <2>1 DEF LeaseTakenOver
<1>3. ASSUME NEW p \in Runs,
             \/ Start(p) \/ Overlap(p) \/ SkipOverlap(p) \/ Begin(p) \/ Probe(p)
             \/ Wake(p) \/ RenewLease(p) \/ SpawnChild(p)
      PROVE  Spared
  BY <1>2, <1>3 DEF Start, Overlap, SkipOverlap, Begin, Probe, Wake, RenewLease, SpawnChild,
     CreateInvocation, FinishInvocation, StartInvocation
<1>4. ASSUME NEW p \in Runs,
             \/ Collect(p) \/ TimeOut(p) \/ Report(p) \/ Finish(p) \/ Release(p)
             \/ Raises(p) \/ Crash(p) \/ ChildStep(p)
      PROVE  Spared
  BY <1>2, <1>4 DEF Collect, TimeOut, Report, Finish, Release, Raises, Crash, Handle,
     ChildStep, ChildBegins, ChildEnds, ChildDies, SetBatchRunId, FinishInvocation
<1>5. CASE Tick \/ Restart \/ UNCHANGED vars
  BY <1>2, <1>5 DEF Tick, Restart, vars
<1> QED
  BY <1>1, <1>3, <1>4, <1>5 DEF Next, RunStep

(* The lease stays with a run until it and its child are through.          *)
LEMMA EngagedStep ==
    /\ (\A q \in Runs : RunMoves(q) /\ ChildMoves(q))
    /\ (\A q \in Runs : LeaseTakenOver(q) => ~ Engaged(q))
    /\ ChildPhase' /\ EngagedHoldLease
    => EngagedHoldLease'
<1> SUFFICES ASSUME \A q \in Runs : RunMoves(q) /\ ChildMoves(q),
                    \A q \in Runs : LeaseTakenOver(q) => ~ Engaged(q),
                    ChildPhase', EngagedHoldLease, NEW q \in Runs, Engaged(q)'
             PROVE  lease'[q].status = "active"
  BY DEF EngagedHoldLease
<1>1. ChildAlive(q)' => pc'[q] \in {"waiting", "dead"}
  BY DEF ChildPhase, ChildAlive
<1>2. pc'[q] \in AtWork \cup {"waiting", "dead"}
  BY <1>1 DEF Engaged
<1>3. Engaged(q) \/ Acquires(q)
  BY <1>1, LocationNames DEF RunMoves, ChildMoves, Engaged, Stays, Starts, IsTurnedAway, Skips, Works,
     Records, Releases, Dies
<1>4. CASE Acquires(q)
  BY <1>4 DEF Acquires, LeaseGranted
<1>5. CASE Engaged(q)
  <2>1. lease[q].status = "active" /\ ~ LeaseTakenOver(q)
    BY <1>5 DEF EngagedHoldLease
  <2> QED
    BY <1>2, <1>4, <2>1, LocationNames DEF RunMoves, Stays, Starts, IsTurnedAway, Skips, Works,
       Records, Releases, Dies, LeaseKept, LeaseRenewed
<1> QED
  BY <1>3, <1>4, <1>5

(* While no lease is lost, at most one run is engaged. *)
LEMMA OneEngaged ==
    LeaseInv /\ OneActiveLeasePerKey /\ EngagedHoldLease =>
       \A p, q \in Runs : Engaged(p) /\ Engaged(q) => p = q
BY DEF LeaseInv, LeaseRows, OneActiveLeasePerKey, EngagedHoldLease, Runs

LEMMA BatchInvStep ==
    SchedulerTypeOK /\ LeaseInv /\ OneActiveLeasePerKey /\ BatchInv /\ [Next]_vars => BatchInv'
<1> SUFFICES ASSUME SchedulerTypeOK, LeaseInv, OneActiveLeasePerKey, BatchInv, [Next]_vars
             PROVE  BatchInv'
  OBVIOUS
<1>1. \A q \in Runs : RunMoves(q) /\ ChildMoves(q)
  BY StepMoves, ChildRules DEF LeaseInv, BatchInv
<1>2. ChildPhase'
  BY <1>1 DEF ChildMoves, BatchInv, ChildPhase
<1>3. ~ overrun' => EngagedHoldLease'
  BY <1>1, <1>2, OverrunStep, EngagedStep DEF BatchInv
<1>4. ASSUME NEW p \in Runs, ChildBegins(p)
      PROVE  NamedBatchExists' /\ (~ overrun' => NoBatchSinceLook' /\ OneBatch')
  <2>1. PICK b \in Batches :
          /\ IsChosenBy(p, b) /\ Existing' = Existing \cup {b}
          /\ child[p].status = "spawned"
          /\ child'[p].status # "spawned" /\ child'[p].batch = b
          /\ \A q \in Runs \ {p} : child'[q] = child[q]
    BY <1>4, ChildBeginsEffect
  <2>2. NamedBatchExists'
    BY <2>1 DEF BatchInv, NamedBatchExists
  <2>3. ASSUME ~ overrun' PROVE NoBatchSinceLook' /\ OneBatch'
    <3>1. EngagedHoldLease /\ NoBatchSinceLook /\ OneBatch
      BY <2>3, OverrunStep DEF BatchInv
    <3>2. \A q \in Runs \ {p} : child[q].status # "spawned"
      BY <2>1, <3>1, OneEngaged DEF Engaged, ChildAlive
    <3>3. b \in Existing \/ Existing = {}
      BY <2>1, <3>1 DEF IsChosenBy, IsNewest, BatchInv, NamedBatchExists, NoBatchSinceLook
    <3> QED
      BY <2>1, <3>1, <3>2, <3>3 DEF NoBatchSinceLook, OneBatch
  <2> QED
    BY <2>2, <2>3
<1>5. ASSUME \A p \in Runs : ~ ChildBegins(p)
      PROVE  NamedBatchExists' /\ (~ overrun' => NoBatchSinceLook' /\ OneBatch')
  <2>1. Existing' = Existing /\ \A q \in Runs : ChildLooks(q)
    BY <1>5, OtherBatchSteps
  <2>2. NamedBatchExists'
    BY <2>1 DEF ChildLooks, BatchInv, NamedBatchExists
  <2>3. ~ overrun' => NoBatchSinceLook /\ OneBatch
    BY OverrunStep DEF BatchInv
  <2> QED
    BY <2>1, <2>2, <2>3 DEF ChildLooks, NoBatchSinceLook, OneBatch
<1> QED
  BY <1>2, <1>3, <1>4, <1>5 DEF BatchInv

(* Unless a lease is taken over from a run or a child still at work, there *)
(* is one batch for the date and at most one child working on it.          *)
THEOREM OneBatchPerDate == Spec => []OneBatchWithoutOverrun
<1>1. SchedulerTypeOK /\ LeaseInv /\ OneActiveLeasePerKey /\ BatchInv => OneBatchWithoutOverrun
  BY OneEngaged DEF BatchInv, OneBatch, OneBatchWithoutOverrun, Engaged, ChildAlive
<1> QED
  BY <1>1, BatchInvInit, BatchInvStep, LeaseInvariant, SchedulerTypeCorrect,
     SchedulerLeasesExclusive, PTL DEF Spec

(* LeasesHonoured holds for any number of runs and any clock.              *)
THEOREM LeasesAreHonoured == Spec => []LeasesHonoured
BY HoldersExclusive, OverlapIsJustified, PTL DEF LeasesHonoured

(* VerdictsStand holds for any number of runs and any crashes.             *)
THEOREM VerdictsHold == Spec => VerdictsStand
<1>1. VerdictBeforeRelease' /\ [VerdictKept]_vars => [VerdictBeforeRelease' /\ VerdictKept]_vars
  OBVIOUS
<1> QED
  BY <1>1, VerdictsPrecedeReleases, VerdictsKept, PTL DEF VerdictsStand
============================================================================
