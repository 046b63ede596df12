------------------------------- MODULE Leases -------------------------------
(***************************************************************************)
(* What a lease in a database row promises the jobs of cflab that run      *)
(* unattended: whoever takes the lease of a resource works under it until  *)
(* it ends, dies or outlives it, and nobody else takes or frees the lease  *)
(* meanwhile.  There are no rows, no clock and no owner ids here.          *)
(* SignalsCollector and GscCollector implement this specification.         *)
(***************************************************************************)
CONSTANTS Resources, Users

VARIABLES
  valid,  \* the resources whose lease is in force
  work,   \* per resource the users at work on it
  late    \* those of them that have outlived their lease

leaseVars == <<valid, work, late>>

Nobody == [x \in Resources |-> {}]

LeaseInit == valid = {} /\ work = Nobody /\ late = Nobody

Enters(x, u) == u \notin work[x] /\ work' = [work EXCEPT ![x] = @ \cup {u}]
Leaves(x, u) == work' = [work EXCEPT ![x] = @ \ {u}]

Take(x, u) ==
  /\ x \notin valid
  /\ Enters(x, u)
  /\ valid' = valid \cup {x}
  /\ UNCHANGED late

(* The answer comes when the lease is already over.                        *)
TakeTooLate(x, u) ==
  /\ x \notin valid
  /\ Enters(x, u)
  /\ late' = [late EXCEPT ![x] = @ \cup {u}]
  /\ UNCHANGED valid

(* The lease is given back, or waits to expire when its user is no more.   *)
Finish(x, u) ==
  /\ u \in work[x] \ late[x]
  /\ Leaves(x, u)
  /\ valid' \in {valid, valid \ {x}}
  /\ UNCHANGED late

(* Whoever is late leaves the lease to its successor.                      *)
FinishLate(x, u) ==
  /\ u \in late[x]
  /\ Leaves(x, u)
  /\ late' = [late EXCEPT ![x] = @ \ {u}]
  /\ UNCHANGED valid

Expire(over) ==
  /\ valid' = valid \ over
  /\ late' = [x \in Resources |-> IF x \in over THEN work[x] ELSE late[x]]
  /\ UNCHANGED work

LeaseNext ==
  \/ \E x \in Resources, u \in Users :
       Take(x, u) \/ TakeTooLate(x, u) \/ Finish(x, u) \/ FinishLate(x, u)
  \/ \E over \in SUBSET valid : Expire(over)

LeaseSpec == LeaseInit /\ [][LeaseNext]_leaseVars

(* Of all the users at work on a resource, the one that is not late has    *)
(* the lease.                                                              *)
OneInTime ==
  \A x \in Resources : \A u, v \in work[x] \ late[x] : u = v /\ x \in valid
=============================================================================
