---------------------------- MODULE TokenBucket ----------------------------
(***************************************************************************)
(* What a rate limiter promises: each key has a bucket of Burst tokens, a  *)
(* request that is served takes one, and each unit of time brings one      *)
(* back.  Only two things fill a bucket up at once: the process was        *)
(* started again, or nobody has used the bucket for longer than Patience.  *)
(***************************************************************************)
EXTENDS Integers

CONSTANTS
  Keys,      \* what is limited
  Burst,     \* the tokens of a full bucket
  Patience   \* how long an unused bucket is remembered

VARIABLES
  level,    \* the tokens of each bucket
  served,   \* the requests of each key served
  used,     \* when the last of them was
  now,      \* the time
  starts    \* the times the process was started again

vars == <<level, served, used, now, starts>>

Full == [k \in Keys |-> Burst]

Init ==
  /\ level = Full
  /\ served = [k \in Keys |-> 0] /\ used = [k \in Keys |-> 0]
  /\ now = 0 /\ starts = 0

(* A request of k is served.                                               *)
Take(k) ==
  /\ level[k] >= 1
  /\ level' = [level EXCEPT ![k] = @ - 1]
  /\ served' = [served EXCEPT ![k] = @ + 1]
  /\ used' = [used EXCEPT ![k] = now]
  /\ UNCHANGED <<now, starts>>

(* A unit of time passes.                                                  *)
Refill ==
  /\ now' = now + 1
  /\ level' = [k \in Keys |-> IF level[k] < Burst THEN level[k] + 1 ELSE Burst]
  /\ UNCHANGED <<served, used, starts>>

(* The buckets of S are forgotten.  One that fills within Patience is full *)
(* by then anyway, and nobody can tell.                                    *)
Lapse(S) ==
  /\ \A k \in S : now - used[k] > Patience
  /\ level' = [k \in Keys |-> IF k \in S THEN Burst ELSE level[k]]
  /\ UNCHANGED <<served, used, now, starts>>

(* The process was started again.                                          *)
Restart ==
  /\ starts' = starts + 1
  /\ level' = Full
  /\ UNCHANGED <<served, used, now>>

Next ==
  \/ \E k \in Keys : Take(k)
  \/ Refill
  \/ \E S \in SUBSET Keys : Lapse(S)
  \/ Restart

Spec == Init /\ [][Next]_vars
=============================================================================
