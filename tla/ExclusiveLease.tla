--------------------------- MODULE ExclusiveLease ---------------------------
(***************************************************************************)
(* What the operation lease promises, with nothing said of tables, rows or *)
(* transactions: for each key there is at most one holder, a holder loses  *)
(* the key only by giving it up or by being replaced once its deadline has *)
(* been reached, and a grant that has ended is never in force again.       *)
(*                                                                         *)
(* Deadlines are numbers supplied by the callers, as the repository takes  *)
(* its timestamps from them: the promise does not depend on a clock.       *)
(***************************************************************************)
EXTENDS Naturals

CONSTANTS
    Keys,       \* the things that are leased
    Grants,     \* identities of grants, each used at most once
    NoGrant,    \* "nobody holds the key"
    MaxTime     \* bound on the timestamps callers supply

VARIABLES
    holder,     \* the grant in force for each key, or NoGrant
    since,      \* when each grant was made
    deadline,   \* when each grant may be taken over
    ended       \* the grants that have been given up or replaced

vars == <<holder, since, deadline, ended>>

Time == 0..MaxTime

InForce == {g \in Grants : \E k \in Keys : holder[k] = g}

Init ==
    /\ holder = [k \in Keys |-> NoGrant]
    /\ since = [g \in Grants |-> 0]
    /\ deadline = [g \in Grants |-> 0]
    /\ ended = {}

(* A grant that was never used before gets a key that nobody holds. *)
Grant(k, g, at, until) ==
    /\ at < until
    /\ holder[k] = NoGrant
    /\ g \notin InForce \cup ended
    /\ holder' = [holder EXCEPT ![k] = g]
    /\ since' = [since EXCEPT ![g] = at]
    /\ deadline' = [deadline EXCEPT ![g] = until]
    /\ UNCHANGED ended

(* A new grant replaces one whose deadline is not after its own start.     *)
Replace(k, g, at, until) ==
    /\ at < until
    /\ holder[k] \in Grants
    /\ deadline[holder[k]] =< at
    /\ g \notin InForce \cup ended
    /\ holder' = [holder EXCEPT ![k] = g]
    /\ since' = [since EXCEPT ![g] = at]
    /\ deadline' = [deadline EXCEPT ![g] = until]
    /\ ended' = ended \cup {holder[k]}

(* The holder moves its own deadline. *)
Extend(k, until) ==
    /\ holder[k] \in Grants
    /\ deadline' = [deadline EXCEPT ![holder[k]] = until]
    /\ UNCHANGED <<holder, since, ended>>

(* The holder gives the key up. *)
GiveUp(k) ==
    /\ holder[k] \in Grants
    /\ holder' = [holder EXCEPT ![k] = NoGrant]
    /\ ended' = ended \cup {holder[k]}
    /\ UNCHANGED <<since, deadline>>

Next ==
    \E k \in Keys :
        \/ GiveUp(k)
        \/ \E until \in Time : Extend(k, until)
        \/ \E g \in Grants, at, until \in Time :
              Grant(k, g, at, until) \/ Replace(k, g, at, until)

Spec == Init /\ [][Next]_vars
=============================================================================
