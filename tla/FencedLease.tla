---------------------------- MODULE FencedLease ----------------------------
(***************************************************************************)
(* What every lease in leo-crm promises, stated once and without clocks,   *)
(* schedules or SQL: a resource (a monitor target, a queue job) is lent to *)
(* one claim at a time, a claim that is still live is never pushed aside   *)
(* by another claim, and only the claim on record may deliver the result.  *)
(* The detailed queues of this project are shown to implement it.          *)
(***************************************************************************)

CONSTANTS
  Resources,   \* rows that are claimed
  Tokens,      \* fencing tokens
  NoToken      \* the NULL of the lease_token column

VARIABLES
  holder,      \* holder[r]: the token on record, or NoToken
  live,        \* the resources whose recorded lease has not expired
  recorded     \* recorded[r]: the token under which the newest result came

leaseVars == <<holder, live, recorded>>

LeaseInit ==
  /\ holder = [r \in Resources |-> NoToken]
  /\ live = {}
  /\ recorded = [r \in Resources |-> NoToken]

(***************************************************************************)
(* What may happen to one resource in one step.                            *)
(***************************************************************************)

Keep(r) ==
  /\ holder'[r] = holder[r]
  /\ r \in live' <=> r \in live
  /\ recorded'[r] = recorded[r]

\* A claim is granted on a resource nobody holds or whose lease ran out, and
\* always under a token no other resource carries.
Grant(r) ==
  /\ r \notin live
  /\ holder'[r] \in Tokens
  /\ \A q \in Resources : holder[q] # holder'[r]
  /\ r \in live'
  /\ recorded'[r] = recorded[r]

\* Time runs out under the holder; the token stays on record.
Expire(r) ==
  /\ r \in live
  /\ holder'[r] = holder[r]
  /\ r \notin live'
  /\ recorded'[r] = recorded[r]

\* The holder on record, expired or not, delivers and gives the lease back.
Deliver(r) ==
  /\ holder[r] \in Tokens
  /\ holder'[r] = NoToken
  /\ r \notin live'
  /\ recorded'[r] = holder[r]

\* The lease ends without a result: given back, or taken away by the operator.
Release(r) ==
  /\ holder'[r] = NoToken
  /\ r \notin live'
  /\ recorded'[r] = recorded[r]

LeaseNext ==
  \A r \in Resources :
    Keep(r) \/ Grant(r) \/ Expire(r) \/ Deliver(r) \/ Release(r)

LeaseSpec == LeaseInit /\ [][LeaseNext]_leaseVars
=============================================================================
