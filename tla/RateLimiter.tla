---------------------------- MODULE RateLimiter ----------------------------
(***************************************************************************)
(* internal/ratelimit: a registry of token buckets, one for each merchant  *)
(* or address, whose entries a background goroutine deletes when they have *)
(* not been asked for in a while.  No route of the program uses it yet.    *)
(*                                                                         *)
(* A request looks its bucket up under the registry's mutex and takes a    *)
(* token after it has let the mutex go, so that the entry can be deleted,  *)
(* and made anew for another request, in between.                          *)
(*                                                                         *)
(* The unit of time is the time in which a bucket gains a token, 1 / rps.  *)
(***************************************************************************)
EXTENDS Integers, Sequences

CONSTANTS
  Handlers,     \* the requests that can be in flight at a time
  Callers,      \* who can send a request
  Burst,        \* the argument burst of NewRegistry
  IdleTimeout,  \* 1 h, in units of time
  MaxHold,      \* the time a request can take from its lookup to its token
  MaxTime,      \* bound on the clock
  NoKey,        \* not a key
  MaxRestarts   \* bound on the restarts of the process

(* merchant_id is 0 for a request without an API key, param is 0 for a     *)
(* route without :merchant_id.                                             *)
Caller == [merchant_id : Nat, param : Nat, ip : Nat]

(* "merchant:%d", "merchant:%s", "ip:%s"                                   *)
Key(c) ==
  IF c.merchant_id # 0 THEN <<"merchant", c.merchant_id>>
  ELSE IF c.param # 0 THEN <<"merchant", c.param>>
  ELSE <<"ip", c.ip>>

Keys == {Key(c) : c \in Callers}

ASSUME CallersAssumption == Callers \subseteq Caller

(* Two adjacent statements of Middleware, GetLimiter and Allow, are less   *)
(* than the idle timeout of an hour apart.  Of rps and burst nothing is    *)
(* assumed: a bucket may need longer than the idle timeout to fill up.     *)
ASSUME TimingAssumption ==
  /\ Burst \in Nat /\ IdleTimeout \in Nat /\ MaxHold \in Nat
  /\ MaxTime \in Nat /\ MaxRestarts \in Nat
  /\ MaxHold <= IdleTimeout

VARIABLES
  clients,   \* the registry's map; no entry when limiter = 0
  limiters,  \* every rate.Limiter made, in order: a pointer is a position
  pc,        \* the next step of each request
  key,       \* the key of each request
  held,      \* the limiter GetLimiter returned to each request
  since,     \* when it did
  clock,     \* time.Now()
  passed,    \* the requests of each key served (history)
  used,      \* when the last of them was (history)
  lapses,    \* the times the cleanup deleted the entry of each key (history)
  restarts   \* the restarts that have happened

requests == <<pc, key, held, since>>
history == <<passed, used, lapses>>
vars == <<clients, limiters, pc, key, held, since, clock, passed, used, lapses,
          restarts>>

NoClient == [limiter |-> 0, lastSeen |-> 0]

TypeOK ==
  /\ clients \in [Keys -> [limiter : 0..Len(limiters), lastSeen : 0..clock]]
  /\ limiters \in Seq([tokens : 0..Burst, last : 0..clock])
  /\ pc \in [Handlers -> {"idle", "allow"}]
  /\ key \in [Handlers -> Keys \union {NoKey}]
  /\ held \in [Handlers -> 0..Len(limiters)]
  /\ since \in [Handlers -> 0..clock]
  /\ clock \in 0..MaxTime
  /\ passed \in [Keys -> Nat] /\ lapses \in [Keys -> Nat]
  /\ used \in [Keys -> 0..clock]
  /\ restarts \in 0..MaxRestarts

----------------------------------------------------------------------------
(* What rate.Limiter would have at this moment.                            *)
Available(l) ==
  LET tokens == limiters[l].tokens + (clock - limiters[l].last) IN
  IF tokens > Burst THEN Burst ELSE tokens

(* The entry is found, and its lastSeen stays as it was.                   *)
LookupWithoutRefresh(k) ==
  IF clients[k].limiter = 0
    THEN /\ limiters' = Append(limiters, [tokens |-> Burst, last |-> clock])
         /\ clients' = [clients EXCEPT ![k] =
              [limiter |-> Len(limiters) + 1, lastSeen |-> clock]]
    ELSE UNCHANGED <<limiters, clients>>

(* The registry under its mutex: the entry is made, or seen again.         *)
Lookup(k) ==
  IF clients[k].limiter = 0
    THEN /\ limiters' = Append(limiters, [tokens |-> Burst, last |-> clock])
         /\ clients' = [clients EXCEPT ![k] =
              [limiter |-> Len(limiters) + 1, lastSeen |-> clock]]
    ELSE /\ limiters' = limiters
         /\ clients' = [clients EXCEPT ![k].lastSeen = clock]

(* Middleware up to GetLimiter.                                            *)
GetLimiter(h, c) ==
  /\ pc[h] = "idle"
  /\ Lookup(Key(c))
  /\ pc' = [pc EXCEPT ![h] = "allow"]
  /\ key' = [key EXCEPT ![h] = Key(c)]
  /\ held' = [held EXCEPT ![h] = clients'[Key(c)].limiter]
  /\ since' = [since EXCEPT ![h] = clock]
  /\ UNCHANGED <<clock, history, restarts>>

Done(h) ==
  /\ pc' = [pc EXCEPT ![h] = "idle"]
  /\ key' = [key EXCEPT ![h] = NoKey]
  /\ held' = [held EXCEPT ![h] = 0]
  /\ since' = [since EXCEPT ![h] = 0]

(* The bucket is looked at in one step and charged whatever it holds.      *)
AllowUnchecked(h) ==
  /\ pc[h] = "allow"
  /\ limiters' = [limiters EXCEPT ![held[h]] =
       [tokens |-> Available(held[h]) - 1, last |-> clock]]
  /\ passed' = [passed EXCEPT ![key[h]] = @ + 1]
  /\ used' = [used EXCEPT ![key[h]] = clock]
  /\ Done(h)
  /\ UNCHANGED <<clients, clock, lapses, restarts>>

(* limiter.Allow(), then the handler or 429.                               *)
Allow(h) ==
  /\ pc[h] = "allow"
  /\ LET l == held[h] IN
       IF Available(l) >= 1
         THEN /\ limiters' = [limiters EXCEPT ![l] =
                   [tokens |-> Available(l) - 1, last |-> clock]]
              /\ passed' = [passed EXCEPT ![key[h]] = @ + 1]
              /\ used' = [used EXCEPT ![key[h]] = clock]
         ELSE UNCHANGED <<limiters, passed, used>>
  /\ Done(h)
  /\ UNCHANGED <<clients, clock, lapses, restarts>>

(* The timeout of another table, shorter than the time to fill a bucket.   *)
IdleEarly(k) == clock - clients[k].lastSeen >= MaxHold

Idle(k) == clock - clients[k].lastSeen > IdleTimeout

(* A tick of startCleanup's ticker.  It comes every 10 minutes, and the    *)
(* goroutine may be late for it: no moment is excluded.                    *)
Cleanup ==
  /\ clients' = [k \in Keys |-> IF Idle(k) THEN NoClient ELSE clients[k]]
  /\ lapses' = [k \in Keys |->
       IF clients[k].limiter # 0 /\ Idle(k) THEN lapses[k] + 1 ELSE lapses[k]]
  /\ UNCHANGED <<limiters, requests, clock, passed, used, restarts>>

(* Time passes; no request is held up for longer than MaxHold.             *)
Tick ==
  /\ clock < MaxTime
  /\ \A h \in Handlers : pc[h] = "allow" => clock - since[h] < MaxHold
  /\ clock' = clock + 1
  /\ UNCHANGED <<clients, limiters, requests, history, restarts>>

(* The process stops and is started again: all it had in memory is gone.   *)
Restart ==
  /\ restarts < MaxRestarts
  /\ restarts' = restarts + 1
  /\ clients' = [k \in Keys |-> NoClient]
  /\ limiters' = <<>>
  /\ pc' = [h \in Handlers |-> "idle"]
  /\ key' = [h \in Handlers |-> NoKey]
  /\ held' = [h \in Handlers |-> 0]
  /\ since' = [h \in Handlers |-> 0]
  /\ UNCHANGED <<clock, history>>

Init ==
  /\ clients = [k \in Keys |-> NoClient]
  /\ limiters = <<>>
  /\ pc = [h \in Handlers |-> "idle"]
  /\ key = [h \in Handlers |-> NoKey]
  /\ held = [h \in Handlers |-> 0]
  /\ since = [h \in Handlers |-> 0]
  /\ clock = 0 /\ restarts = 0
  /\ passed = [k \in Keys |-> 0] /\ lapses = [k \in Keys |-> 0]
  /\ used = [k \in Keys |-> 0]

Next ==
  \/ \E h \in Handlers, c \in Callers : GetLimiter(h, c)
  \/ \E h \in Handlers : Allow(h)
  \/ Cleanup
  \/ Tick
  \/ Restart

Spec == Init /\ [][Next]_vars

----------------------------------------------------------------------------
(* Properties.                                                             *)

(* A request holds the bucket of its key that every other request of the   *)
(* key holds: the cleanup does not take it from the registry between the   *)
(* lookup and the token, though the mutex is free.                         *)
HeldIsRegistered ==
  \A h \in Handlers : pc[h] = "allow" => held[h] = clients[key[h]].limiter

Level(k) == IF clients[k].limiter = 0 THEN Burst ELSE Available(clients[k].limiter)

(* What is left unused of an entry's life when it is deleted, at the least.*)
Patience == IdleTimeout - MaxHold

(* The most that a deletion can give to a key: what its bucket would still *)
(* have lacked.  It is 0 if buckets fill within Patience.                  *)
Windfall == IF Burst > Patience THEN Burst - Patience ELSE 0

(* No key is served more often than its rate allows, from the start to any *)
(* moment: a burst, one request for each unit of time, another burst for   *)
(* each restart, and a windfall for each deletion of its entry, of which   *)
(* there is one in each idle timeout at most; less what its bucket has.    *)
BurstPlusRate ==
  \A k \in Keys :
    /\ passed[k] + Level(k)
         <= Burst * (restarts + 1) + clock + Windfall * lapses[k]
    /\ IdleTimeout * lapses[k] <= clock

(* The registry implements one bucket for each key that is remembered for  *)
(* at least Patience: nobody sees that an entry was made, deleted or made  *)
(* again, but by a full bucket where nobody has been for that long.        *)
Bucket == INSTANCE TokenBucket WITH
  level <- [k \in Keys |-> Level(k)], served <- passed, now <- clock,
  starts <- restarts

RefinesTokenBucket == Bucket!Spec
=============================================================================
