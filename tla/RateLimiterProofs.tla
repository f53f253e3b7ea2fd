------------------------- MODULE RateLimiterProofs -------------------------
(***************************************************************************)
(* Theorems about RateLimiter, for every value of its constants that meets *)
(* TimingAssumption.                                                       *)
(***************************************************************************)
EXTENDS RateLimiter, TLAPS

----------------------------------------------------------------------------
(* The inductive invariant.  A request keeps its entry in the registry,    *)
(* since the entry was seen when the request came or later, and the        *)
(* request is at most MaxHold old.  An entry's bucket was last used at     *)
(* most MaxHold after the entry was last seen, so that nobody has used it  *)
(* for longer than Patience when the cleanup finds it idle.                *)

HeldInv ==
  \A h \in Handlers : pc[h] = "allow" =>
    /\ key[h] \in Keys
    /\ held[h] = clients[key[h]].limiter
    /\ held[h] # 0
    /\ since[h] <= clients[key[h]].lastSeen
    /\ clock <= since[h] + MaxHold

OneBucketEach ==
  \A j, k \in Keys :
    clients[j].limiter = clients[k].limiter /\ clients[j].limiter # 0 => j = k

LastUse ==
  \A k \in Keys : clients[k].limiter # 0 =>
    /\ used[k] <= limiters[clients[k].limiter].last
    /\ limiters[clients[k].limiter].last <= clients[k].lastSeen + MaxHold

IInv == TypeOK /\ HeldInv /\ OneBucketEach /\ LastUse

Client == [limiter : 0..Len(limiters), lastSeen : 0..clock]
Limiter == [tokens : 0..Burst, last : 0..clock]

----------------------------------------------------------------------------
LEMMA Buckets ==
  ASSUME IInv, NEW k \in Keys
  PROVE  /\ clients[k].limiter \in 0..Len(limiters) /\ clients[k].lastSeen \in 0..clock
         /\ Len(limiters) \in Nat /\ clock \in Nat
         /\ clients[k].limiter # 0 =>
              /\ clients[k].limiter \in DOMAIN limiters
              /\ limiters[clients[k].limiter] \in Limiter
              /\ Available(clients[k].limiter) \in 0..Burst
         /\ Level(k) \in 0..Burst
<1>1. /\ clients[k] \in Client /\ limiters \in Seq(Limiter) /\ clock \in Nat
  BY TimingAssumption DEF IInv, TypeOK, Client, Limiter
<1>2. /\ clients[k].limiter \in 0..Len(limiters) /\ clients[k].lastSeen \in 0..clock
      /\ Len(limiters) \in Nat
  BY <1>1 DEF Client
<1>3. ASSUME clients[k].limiter # 0
      PROVE  /\ clients[k].limiter \in DOMAIN limiters
             /\ limiters[clients[k].limiter] \in Limiter
             /\ Available(clients[k].limiter) \in 0..Burst
  <2>1. clients[k].limiter \in DOMAIN limiters
    BY <1>1, <1>2, <1>3
  <2>2. limiters[clients[k].limiter] \in Limiter
    BY <1>1, <2>1
  <2> QED
    BY <1>1, <2>1, <2>2, TimingAssumption DEF Available, Limiter
<1> QED
  BY <1>1, <1>2, <1>3, TimingAssumption DEF Level

LEMMA SeqMonotone ==
  ASSUME NEW S, NEW T, S \subseteq T, NEW s \in Seq(S)
  PROVE  s \in Seq(T)
<1>1. /\ Len(s) \in Nat /\ DOMAIN s = 1..Len(s)
      /\ \A i \in 1..Len(s) : s[i] \in T
  OBVIOUS
<1>2. s = [i \in 1..Len(s) |-> s[i]]
  BY <1>1
<1> QED
  BY <1>1, <1>2

LEMMA InitIInv == Init => IInv
BY TimingAssumption
DEF Init, IInv, TypeOK, HeldInv, OneBucketEach, LastUse, NoClient

(* A request finds its bucket, or makes a full one.                        *)
LEMMA LookupFacts ==
  ASSUME IInv, NEW k \in Keys, Lookup(k)
  PROVE  /\ clients' \in [Keys -> [limiter : 0..Len(limiters'), lastSeen : 0..clock]]
         /\ limiters' \in Seq(Limiter) /\ Len(limiters) <= Len(limiters')
         /\ \A i \in DOMAIN limiters : limiters'[i] = limiters[i]
         /\ \A j \in Keys \ {k} : clients'[j] = clients[j]
         /\ clients'[k].lastSeen = clock /\ clients'[k].limiter # 0
         /\ \/ clients[k].limiter # 0 /\ clients'[k].limiter = clients[k].limiter
            \/ /\ clients[k].limiter = 0
               /\ clients'[k].limiter = Len(limiters) + 1
               /\ limiters'[Len(limiters) + 1] = [tokens |-> Burst, last |-> clock]
<1>1. /\ clients \in [Keys -> Client] /\ limiters \in Seq(Limiter) /\ clock \in Nat
      /\ Len(limiters) \in Nat
  BY TimingAssumption DEF IInv, TypeOK, Client, Limiter
<1>2. CASE clients[k].limiter = 0
  <2> DEFINE full == [tokens |-> Burst, last |-> clock]
             c == [limiter |-> Len(limiters) + 1, lastSeen |-> clock]
  <2>1. limiters' = Append(limiters, full) /\ clients' = [clients EXCEPT ![k] = c]
    BY <1>2 DEF Lookup
  <2>2. full \in Limiter
    BY <1>1, TimingAssumption DEF Limiter
  <2>3. c \in [limiter : 0..(Len(limiters) + 1), lastSeen : 0..clock]
        /\ c.limiter = Len(limiters) + 1 /\ c.lastSeen = clock
    BY <1>1
  <2> HIDE DEF full, c
  <2>4. /\ limiters' \in Seq(Limiter) /\ Len(limiters') = Len(limiters) + 1
        /\ \A i \in DOMAIN limiters : limiters'[i] = limiters[i]
        /\ limiters'[Len(limiters) + 1] = full
    BY <1>1, <2>1, <2>2
  <2>5. \A j \in Keys : clients[j] \in [limiter : 0..(Len(limiters) + 1), lastSeen : 0..clock]
    BY <1>1 DEF Client
  <2>6. clients' \in [Keys -> [limiter : 0..(Len(limiters) + 1), lastSeen : 0..clock]]
        /\ clients'[k] = c /\ \A j \in Keys \ {k} : clients'[j] = clients[j]
    BY <1>1, <2>1, <2>3, <2>5
  <2> QED
    BY <1>1, <1>2, <2>3, <2>4, <2>6 DEF full
<1>3. CASE clients[k].limiter # 0
  <2> DEFINE c == [clients[k] EXCEPT !.lastSeen = clock]
  <2>1. limiters' = limiters /\ clients' = [clients EXCEPT ![k] = c]
    BY <1>3 DEF Lookup
  <2>2. c \in Client /\ c.lastSeen = clock /\ c.limiter = clients[k].limiter
    BY <1>1 DEF Client
  <2> HIDE DEF c
  <2>3. clients' \in [Keys -> Client] /\ clients'[k] = c
        /\ \A j \in Keys \ {k} : clients'[j] = clients[j]
    BY <1>1, <2>1, <2>2
  <2> QED
    BY <1>1, <1>3, <2>1, <2>2, <2>3 DEF Client
<1> QED
  BY <1>2, <1>3

LEMMA GetLimiterIInv ==
  ASSUME IInv, NEW h \in Handlers, NEW c \in Callers, GetLimiter(h, c)
  PROVE  IInv'
<1> DEFINE k == Key(c)
<1>1. k \in Keys
  BY DEF Keys
<1> HIDE DEF k
<1>2. /\ Lookup(k) /\ pc[h] = "idle"
      /\ pc' = [pc EXCEPT ![h] = "allow"] /\ key' = [key EXCEPT ![h] = k]
      /\ held' = [held EXCEPT ![h] = clients'[k].limiter]
      /\ since' = [since EXCEPT ![h] = clock]
      /\ UNCHANGED <<clock, passed, used, lapses, restarts>>
  BY DEF GetLimiter, history, k
<1>3. /\ clients' \in [Keys -> [limiter : 0..Len(limiters'), lastSeen : 0..clock]]
      /\ limiters' \in Seq(Limiter) /\ Len(limiters) <= Len(limiters')
      /\ \A i \in DOMAIN limiters : limiters'[i] = limiters[i]
      /\ \A j \in Keys \ {k} : clients'[j] = clients[j]
      /\ clients'[k].lastSeen = clock /\ clients'[k].limiter # 0
      /\ \/ clients[k].limiter # 0 /\ clients'[k].limiter = clients[k].limiter
         \/ /\ clients[k].limiter = 0
            /\ clients'[k].limiter = Len(limiters) + 1
            /\ limiters'[Len(limiters) + 1] = [tokens |-> Burst, last |-> clock]
  BY <1>1, <1>2, LookupFacts
<1>4. /\ pc \in [Handlers -> {"idle", "allow"}] /\ key \in [Handlers -> Keys \union {NoKey}]
      /\ held \in [Handlers -> 0..Len(limiters)] /\ since \in [Handlers -> 0..clock]
      /\ clock \in Nat /\ Len(limiters) \in Nat /\ Len(limiters') \in Nat
  BY <1>3, TimingAssumption DEF IInv, TypeOK
<1>5. /\ pc'[h] = "allow" /\ key'[h] = k /\ held'[h] = clients'[k].limiter
      /\ since'[h] = clock
      /\ \A g \in Handlers \ {h} :
           pc'[g] = pc[g] /\ key'[g] = key[g] /\ held'[g] = held[g] /\ since'[g] = since[g]
  BY <1>2, <1>4
<1>6. TypeOK'
  <2>1. clients'[k].limiter \in 0..Len(limiters')
    BY <1>1, <1>3
  <2>2. \A g \in Handlers : held[g] \in 0..Len(limiters')
    BY <1>3, <1>4
  <2>3. held' \in [Handlers -> 0..Len(limiters')]
    BY <1>2, <1>4, <2>1, <2>2
  <2>4. /\ pc' \in [Handlers -> {"idle", "allow"}] /\ key' \in [Handlers -> Keys \union {NoKey}]
        /\ since' \in [Handlers -> 0..clock]
    BY <1>1, <1>2, <1>4
  <2>5. /\ clock' = clock /\ passed' \in [Keys -> Nat] /\ restarts' \in 0..MaxRestarts
        /\ clock \in 0..MaxTime /\ used' \in [Keys -> 0..clock] /\ lapses' \in [Keys -> Nat]
    BY <1>2 DEF IInv, TypeOK
  <2> QED
    BY <1>3, <2>3, <2>4, <2>5 DEF TypeOK, Limiter
<1>7. HeldInv'
  <2> SUFFICES ASSUME NEW g \in Handlers, pc'[g] = "allow"
               PROVE  /\ key'[g] \in Keys
                      /\ held'[g] = clients'[key'[g]].limiter
                      /\ held'[g] # 0
                      /\ since'[g] <= clients'[key'[g]].lastSeen
                      /\ clock <= since'[g] + MaxHold
    BY <1>2 DEF HeldInv
  <2>1. CASE g = h
    BY <1>1, <1>3, <1>4, <1>5, <2>1, TimingAssumption
  <2>2. CASE g # h
    <3>1. /\ key[g] \in Keys /\ held[g] = clients[key[g]].limiter /\ held[g] # 0
          /\ since[g] <= clients[key[g]].lastSeen /\ clock <= since[g] + MaxHold
          /\ key'[g] = key[g] /\ held'[g] = held[g] /\ since'[g] = since[g]
          /\ since[g] <= clock
      BY <1>4, <1>5, <2>2 DEF IInv, HeldInv
    <3>2. CASE key[g] = k
      BY <1>3, <3>1, <3>2
    <3>3. CASE key[g] # k
      BY <1>3, <3>1, <3>3
    <3> QED
      BY <3>2, <3>3
  <2> QED
    BY <2>1, <2>2
<1>8. \A j \in Keys : clients[j].limiter \in 0..Len(limiters)
                      /\ clients[j].lastSeen \in 0..clock
  BY Buckets
<1>9. OneBucketEach'
  <2>1. \A j \in Keys \ {k} : clients'[j].limiter # Len(limiters) + 1
    BY <1>3, <1>4, <1>8
  <2>2. \A i, j \in Keys :
          clients[i].limiter = clients[j].limiter /\ clients[i].limiter # 0 => i = j
    BY DEF IInv, OneBucketEach
  <2>3. CASE clients[k].limiter # 0
    <3>1. \A j \in Keys : clients'[j].limiter = clients[j].limiter
      BY <1>3, <1>4, <1>8, <2>3
    <3> QED
      BY <2>2, <3>1 DEF OneBucketEach
  <2>4. CASE clients[k].limiter = 0
    <3>1. clients'[k].limiter = Len(limiters) + 1
      BY <1>3, <2>4
    <3> QED
      BY <1>3, <2>1, <2>2, <3>1 DEF OneBucketEach
  <2> QED
    BY <2>3, <2>4
<1>10. LastUse'
  <2> SUFFICES ASSUME NEW j \in Keys, clients'[j].limiter # 0
               PROVE  /\ used[j] <= limiters'[clients'[j].limiter].last
                      /\ limiters'[clients'[j].limiter].last <= clients'[j].lastSeen + MaxHold
    BY <1>2 DEF LastUse
  <2>0. used[j] \in 0..clock
    BY DEF IInv, TypeOK
  <2>1. ASSUME clients[j].limiter # 0
        PROVE  /\ limiters'[clients[j].limiter] = limiters[clients[j].limiter]
               /\ limiters[clients[j].limiter].last \in 0..clock
               /\ used[j] <= limiters[clients[j].limiter].last
               /\ limiters[clients[j].limiter].last <= clients[j].lastSeen + MaxHold
    BY <1>3, <2>1, Buckets DEF IInv, LastUse, Limiter
  <2>2. CASE j # k
    BY <1>3, <2>1, <2>2
  <2>3. CASE j = k /\ clients[k].limiter # 0
    BY <1>3, <1>4, <2>1, <2>3, TimingAssumption
  <2>4. CASE j = k /\ clients[k].limiter = 0
    BY <1>3, <1>4, <2>0, <2>4, TimingAssumption
  <2> QED
    BY <2>2, <2>3, <2>4
<1> QED
  BY <1>6, <1>7, <1>9, <1>10 DEF IInv

(* A token is taken, or refused.                                           *)
LEMMA AllowFacts ==
  ASSUME IInv, NEW h \in Handlers, Allow(h)
  PROVE  LET l == held[h] IN
         /\ key[h] \in Keys /\ l = clients[key[h]].limiter /\ l # 0
         /\ l \in DOMAIN limiters /\ Available(l) \in 0..Burst
         /\ clock <= clients[key[h]].lastSeen + MaxHold
         /\ limiters' \in Seq(Limiter) /\ Len(limiters') = Len(limiters)
         /\ \A i \in DOMAIN limiters : i # l => limiters'[i] = limiters[i]
         /\ \/ UNCHANGED <<limiters, passed, used>>
            \/ /\ Available(l) >= 1
               /\ limiters'[l] = [tokens |-> Available(l) - 1, last |-> clock]
               /\ passed' = [passed EXCEPT ![key[h]] = @ + 1]
               /\ used' = [used EXCEPT ![key[h]] = clock]
<1> DEFINE l == held[h]
           new == [tokens |-> Available(l) - 1, last |-> clock]
<1>1. /\ key[h] \in Keys /\ l = clients[key[h]].limiter /\ l # 0
      /\ since[h] <= clients[key[h]].lastSeen /\ clock <= since[h] + MaxHold
  BY DEF IInv, HeldInv, Allow
<1>2. /\ l \in DOMAIN limiters /\ Available(l) \in 0..Burst /\ clock \in Nat
      /\ clients[key[h]].lastSeen \in 0..clock
  BY <1>1, Buckets
<1>3. since[h] \in 0..clock /\ limiters \in Seq(Limiter)
  BY DEF IInv, TypeOK, Limiter
<1>4. clock <= clients[key[h]].lastSeen + MaxHold
  BY <1>1, <1>2, <1>3, TimingAssumption
<1>5. CASE UNCHANGED <<limiters, passed, used>>
  BY <1>1, <1>2, <1>3, <1>4, <1>5
<1>6. CASE /\ Available(l) >= 1
           /\ limiters' = [limiters EXCEPT ![l] = new]
           /\ passed' = [passed EXCEPT ![key[h]] = @ + 1]
           /\ used' = [used EXCEPT ![key[h]] = clock]
  <2>1. new \in Limiter
    BY <1>2, <1>6, TimingAssumption DEF Limiter
  <2> HIDE DEF new
  <2>2. /\ limiters' \in Seq(Limiter) /\ Len(limiters') = Len(limiters)
        /\ limiters'[l] = new
        /\ \A i \in DOMAIN limiters : i # l => limiters'[i] = limiters[i]
    BY <1>2, <1>3, <1>6, <2>1
  <2> QED
    BY <1>1, <1>2, <1>4, <1>6, <2>2 DEF new
<1> QED
  BY <1>5, <1>6 DEF Allow

LEMMA AllowIInv ==
  ASSUME IInv, NEW h \in Handlers, Allow(h)
  PROVE  IInv'
<1> DEFINE l == held[h]
<1>1. /\ key[h] \in Keys /\ l = clients[key[h]].limiter /\ l # 0
      /\ l \in DOMAIN limiters /\ Available(l) \in 0..Burst
      /\ clock <= clients[key[h]].lastSeen + MaxHold
      /\ limiters' \in Seq(Limiter) /\ Len(limiters') = Len(limiters)
      /\ \A i \in DOMAIN limiters : i # l => limiters'[i] = limiters[i]
      /\ \/ UNCHANGED <<limiters, passed, used>>
         \/ /\ Available(l) >= 1
            /\ limiters'[l] = [tokens |-> Available(l) - 1, last |-> clock]
            /\ passed' = [passed EXCEPT ![key[h]] = @ + 1]
            /\ used' = [used EXCEPT ![key[h]] = clock]
  BY AllowFacts
<1>2. /\ pc' = [pc EXCEPT ![h] = "idle"] /\ key' = [key EXCEPT ![h] = NoKey]
      /\ held' = [held EXCEPT ![h] = 0] /\ since' = [since EXCEPT ![h] = 0]
      /\ UNCHANGED <<clients, clock, lapses, restarts>>
  BY DEF Allow, Done
<1>3. /\ pc \in [Handlers -> {"idle", "allow"}] /\ key \in [Handlers -> Keys \union {NoKey}]
      /\ held \in [Handlers -> 0..Len(limiters)] /\ since \in [Handlers -> 0..clock]
      /\ clock \in Nat /\ Len(limiters) \in Nat /\ passed \in [Keys -> Nat]
      /\ used \in [Keys -> 0..clock]
  BY TimingAssumption DEF IInv, TypeOK
<1>4. TypeOK'
  <2>1. /\ pc' \in [Handlers -> {"idle", "allow"}] /\ key' \in [Handlers -> Keys \union {NoKey}]
        /\ held' \in [Handlers -> 0..Len(limiters')] /\ since' \in [Handlers -> 0..clock]
    BY <1>1, <1>2, <1>3
  <2>2. passed' \in [Keys -> Nat]
    BY <1>1, <1>3
  <2>3. used' \in [Keys -> 0..clock]
    <3>1. clock \in 0..clock /\ \A k \in Keys : used[k] \in 0..clock
      BY <1>3
    <3>2. CASE used' = used
      BY <1>3, <3>2
    <3>3. CASE used' = [used EXCEPT ![key[h]] = clock]
      BY <1>3, <3>1, <3>3
    <3> QED
      BY <1>1, <3>2, <3>3
  <2> QED
    BY <1>1, <1>2, <2>1, <2>2, <2>3 DEF IInv, TypeOK, Limiter
<1>5. HeldInv'
  BY <1>2, <1>3 DEF IInv, HeldInv
<1>6. OneBucketEach'
  BY <1>2 DEF IInv, OneBucketEach
<1>7. LastUse'
  <2> SUFFICES ASSUME NEW k \in Keys, clients[k].limiter # 0
               PROVE  /\ used'[k] <= limiters'[clients[k].limiter].last
                      /\ limiters'[clients[k].limiter].last <= clients[k].lastSeen + MaxHold
    BY <1>2 DEF LastUse
  <2>1. /\ clients[k].limiter \in DOMAIN limiters
        /\ used[k] <= limiters[clients[k].limiter].last
        /\ limiters[clients[k].limiter].last <= clients[k].lastSeen + MaxHold
    BY Buckets DEF IInv, LastUse
  <2>2. CASE clients[k].limiter # l
    <3>1. k # key[h]
      BY <1>1, <2>2
    <3>2. used'[k] = used[k]
      BY <1>1, <1>3, <3>1
    <3> QED
      BY <1>1, <2>1, <2>2, <3>2
  <2>3. CASE clients[k].limiter = l
    <3>1. k = key[h]
      BY <1>1, <2>3 DEF IInv, OneBucketEach
    <3>2. UNCHANGED <<limiters, used>> \/ (limiters'[l].last = clock /\ used'[k] = clock)
      BY <1>1, <1>3, <3>1
    <3> QED
      BY <1>1, <1>3, <2>1, <2>3, <3>1, <3>2
  <2> QED
    BY <2>2, <2>3
<1> QED
  BY <1>4, <1>5, <1>6, <1>7 DEF IInv

LEMMA CleanupIInv ==
  ASSUME IInv, Cleanup
  PROVE  IInv'
<1>1. /\ clients' = [k \in Keys |-> IF Idle(k) THEN NoClient ELSE clients[k]]
      /\ UNCHANGED <<limiters, requests, clock, passed, used, restarts>>
  BY DEF Cleanup
<1>2. TypeOK'
  <2>1. NoClient \in [limiter : 0..Len(limiters), lastSeen : 0..clock]
    BY TimingAssumption DEF NoClient, IInv, TypeOK
  <2>2. clients' \in [Keys -> [limiter : 0..Len(limiters), lastSeen : 0..clock]]
    BY <1>1, <2>1 DEF IInv, TypeOK
  <2>3. lapses' \in [Keys -> Nat]
    BY DEF Cleanup, IInv, TypeOK
  <2> QED
    BY <1>1, <2>2, <2>3 DEF IInv, TypeOK, requests
<1>3. HeldInv'
  <2> SUFFICES ASSUME NEW h \in Handlers, pc[h] = "allow"
               PROVE  clients'[key[h]] = clients[key[h]]
    BY <1>1 DEF IInv, HeldInv, requests
  <2>1. /\ key[h] \in Keys /\ since[h] <= clients[key[h]].lastSeen
        /\ clock <= since[h] + MaxHold /\ since[h] \in 0..clock
    BY DEF IInv, HeldInv, TypeOK
  <2>2. clock \in Nat /\ clients[key[h]].lastSeen \in 0..clock
    BY <2>1, Buckets
  <2>3. ~Idle(key[h])
    BY <2>1, <2>2, TimingAssumption DEF Idle
  <2> QED
    BY <1>1, <2>1, <2>3
<1>4. OneBucketEach' /\ LastUse'
  BY <1>1 DEF IInv, OneBucketEach, LastUse, NoClient
<1> QED
  BY <1>2, <1>3, <1>4 DEF IInv

LEMMA TickIInv ==
  ASSUME IInv, Tick
  PROVE  IInv'
<1>1. /\ clock' = clock + 1 /\ clock < MaxTime /\ clock \in Nat
      /\ \A h \in Handlers : pc[h] = "allow" => clock - since[h] < MaxHold
      /\ UNCHANGED <<clients, limiters, requests, passed, used, lapses, restarts>>
  BY TimingAssumption DEF Tick, history, IInv, TypeOK
<1>2. TypeOK'
  <2>1. 0..clock \subseteq 0..clock'
    BY <1>1
  <2>2. /\ clients' \in [Keys -> [limiter : 0..Len(limiters), lastSeen : 0..clock']]
        /\ since' \in [Handlers -> 0..clock'] /\ used' \in [Keys -> 0..clock']
    BY <1>1, <2>1 DEF IInv, TypeOK, requests
  <2>3. limiters' \in Seq([tokens : 0..Burst, last : 0..clock'])
    <3>1. [tokens : 0..Burst, last : 0..clock] \subseteq [tokens : 0..Burst, last : 0..clock']
      BY <2>1
    <3>2. limiters \in Seq([tokens : 0..Burst, last : 0..clock]) /\ limiters' = limiters
      BY <1>1 DEF IInv, TypeOK
    <3> QED
      BY <3>1, <3>2, SeqMonotone
  <2>4. clock' \in 0..MaxTime
    BY <1>1, TimingAssumption
  <2> QED
    BY <1>1, <2>2, <2>3, <2>4 DEF IInv, TypeOK, requests
<1>3. HeldInv'
  <2> SUFFICES ASSUME NEW h \in Handlers, pc[h] = "allow"
               PROVE  clock' <= since[h] + MaxHold
    BY <1>1 DEF IInv, HeldInv, requests
  <2>1. since[h] \in 0..clock
    BY DEF IInv, TypeOK
  <2> QED
    BY <1>1, <2>1, TimingAssumption
<1>4. OneBucketEach' /\ LastUse'
  BY <1>1 DEF IInv, OneBucketEach, LastUse
<1> QED
  BY <1>2, <1>3, <1>4 DEF IInv

LEMMA RestartIInv ==
  ASSUME IInv, Restart
  PROVE  IInv'
<1>1. clock \in Nat /\ restarts' \in 0..MaxRestarts
  BY TimingAssumption DEF Restart, IInv, TypeOK
<1>2. TypeOK'
  <2>1. limiters' = <<>> /\ Len(limiters') = 0
    BY DEF Restart
  <2>2. limiters' \in Seq([tokens : 0..Burst, last : 0..clock])
    BY <2>1
  <2>3. clients' \in [Keys -> [limiter : 0..Len(limiters'), lastSeen : 0..clock]]
    BY <1>1, <2>1 DEF Restart, NoClient
  <2> QED
    BY <1>1, <2>1, <2>2, <2>3 DEF Restart, history, IInv, TypeOK
<1> QED
  BY <1>2 DEF Restart, history, IInv, HeldInv, OneBucketEach, LastUse, NoClient

LEMMA NextIInv == IInv /\ [Next]_vars => IInv'
<1> SUFFICES ASSUME IInv, [Next]_vars PROVE IInv'
  OBVIOUS
<1>1. CASE UNCHANGED vars
  BY <1>1 DEF vars, requests, IInv, TypeOK, HeldInv, OneBucketEach, LastUse
<1> QED
  BY <1>1, GetLimiterIInv, AllowIInv, CleanupIInv, TickIInv, RestartIInv DEF Next

LEMMA Invariance == Spec => []IInv
BY InitIInv, NextIInv, PTL DEF Spec

(* Entries, buckets and times of the registry have values of their types:  *)
(* no bucket has more than a burst or less than nothing.                   *)
THEOREM LimiterTypeCorrect == Spec => []TypeOK
<1>1. IInv => TypeOK
  BY DEF IInv
<1> QED
  BY <1>1, Invariance, PTL

(* startCleanup never takes from the registry the bucket of a request that *)
(* is between GetLimiter and Allow, though neither holds the mutex then.   *)
THEOREM HeldStaysRegistered == Spec => []HeldIsRegistered
<1>1. IInv => HeldIsRegistered
  BY DEF IInv, HeldInv, HeldIsRegistered
<1> QED
  BY <1>1, Invariance, PTL

----------------------------------------------------------------------------
(* What the steps do to the level of each key's bucket.                    *)

LEMMA LevelLookup ==
  ASSUME IInv, NEW h \in Handlers, NEW c \in Callers, GetLimiter(h, c)
  PROVE  \A k \in Keys : Level(k)' = Level(k)
<1> DEFINE k == Key(c)
<1>1. k \in Keys /\ Lookup(k) /\ clock' = clock
  BY DEF Keys, GetLimiter
<1> HIDE DEF k
<1>2. /\ \A i \in DOMAIN limiters : limiters'[i] = limiters[i]
      /\ \A j \in Keys \ {k} : clients'[j] = clients[j]
      /\ clients'[k].limiter # 0
      /\ \/ clients[k].limiter # 0 /\ clients'[k].limiter = clients[k].limiter
         \/ /\ clients[k].limiter = 0
            /\ clients'[k].limiter = Len(limiters) + 1
            /\ limiters'[Len(limiters) + 1] = [tokens |-> Burst, last |-> clock]
  BY <1>1, LookupFacts
<1> TAKE j \in Keys
<1>3. CASE clients'[j].limiter = clients[j].limiter
  BY <1>1, <1>2, <1>3, Buckets DEF Level, Available
<1>4. CASE j = k /\ clients[k].limiter = 0
  <2>1. clock \in Nat /\ Len(limiters) \in Nat
    BY Buckets
  <2>2. limiters'[clients'[j].limiter] = [tokens |-> Burst, last |-> clock]
        /\ clients'[j].limiter # 0
    BY <1>2, <1>4
  <2> QED
    BY <1>1, <1>4, <2>1, <2>2, TimingAssumption DEF Level, Available
<1> QED
  BY <1>2, <1>3, <1>4

LEMMA LevelAllow ==
  ASSUME IInv, NEW h \in Handlers, Allow(h)
  PROVE  \/ /\ \A k \in Keys : Level(k)' = Level(k)
            /\ passed' = passed /\ used' = used
         \/ \E k \in Keys :
              /\ Level(k) >= 1 /\ Level(k)' = Level(k) - 1
              /\ \A j \in Keys \ {k} : Level(j)' = Level(j)
              /\ passed' = [passed EXCEPT ![k] = @ + 1]
              /\ used' = [used EXCEPT ![k] = clock]
<1> DEFINE l == held[h]
<1>1. /\ key[h] \in Keys /\ l = clients[key[h]].limiter /\ l # 0
      /\ Available(l) \in 0..Burst
      /\ \A i \in DOMAIN limiters : i # l => limiters'[i] = limiters[i]
      /\ \/ UNCHANGED <<limiters, passed, used>>
         \/ /\ Available(l) >= 1
            /\ limiters'[l] = [tokens |-> Available(l) - 1, last |-> clock]
            /\ passed' = [passed EXCEPT ![key[h]] = @ + 1]
            /\ used' = [used EXCEPT ![key[h]] = clock]
  BY AllowFacts
<1>2. clients' = clients /\ clock' = clock
  BY DEF Allow
<1>3. clock \in Nat
  BY <1>1, Buckets
<1>4. CASE UNCHANGED <<limiters, passed, used>>
  BY <1>2, <1>4 DEF Level, Available
<1>5. CASE /\ Available(l) >= 1
           /\ limiters'[l] = [tokens |-> Available(l) - 1, last |-> clock]
           /\ passed' = [passed EXCEPT ![key[h]] = @ + 1]
           /\ used' = [used EXCEPT ![key[h]] = clock]
  <2>1. PICK k \in Keys : k = key[h]
    BY <1>1
  <2>2. Level(k) = Available(l)
    BY <1>1, <2>1 DEF Level
  <2>3. Level(k)' = Available(l) - 1
    <3>1. Level(k)' = LET tokens == limiters'[l].tokens + (clock - limiters'[l].last)
                      IN  IF tokens > Burst THEN Burst ELSE tokens
      BY <1>1, <1>2, <2>1 DEF Level, Available
    <3>2. limiters'[l].tokens = Available(l) - 1 /\ limiters'[l].last = clock
      BY <1>5
    <3> HIDE DEF l
    <3> QED
      BY <1>1, <1>3, <3>1, <3>2, TimingAssumption
  <2>4. ASSUME NEW j \in Keys \ {k} PROVE Level(j)' = Level(j)
    <3>1. clients[j].limiter # 0 =>
            clients[j].limiter # l /\ clients[j].limiter \in DOMAIN limiters
      BY <1>1, <2>1, <2>4, Buckets DEF IInv, OneBucketEach
    <3> QED
      BY <1>1, <1>2, <3>1 DEF Level, Available
  <2> QED
    BY <1>5, <2>1, <2>2, <2>3, <2>4
<1> QED
  BY <1>1, <1>4, <1>5

(* A bucket that the cleanup deletes has not been used for longer than     *)
(* Patience, and has what has come back in that time.                      *)
LEMMA LevelCleanup ==
  ASSUME IInv, Cleanup
  PROVE  \A k \in Keys :
           \/ /\ Level(k)' = Level(k) /\ clients'[k] = clients[k]
              /\ lapses'[k] = lapses[k]
           \/ /\ clients[k].limiter = 0 /\ clients'[k].limiter = 0
              /\ Level(k)' = Level(k) /\ lapses'[k] = lapses[k]
           \/ /\ clients[k].limiter # 0 /\ clients'[k].limiter = 0
              /\ clock - clients[k].lastSeen > IdleTimeout
              /\ clock - used[k] > Patience
              /\ Level(k)' = Burst /\ Burst <= Level(k) + Windfall
              /\ lapses'[k] = lapses[k] + 1
<1> TAKE k \in Keys
<1>1. /\ clients'[k] = IF Idle(k) THEN NoClient ELSE clients[k]
      /\ lapses'[k] = IF clients[k].limiter # 0 /\ Idle(k) THEN lapses[k] + 1 ELSE lapses[k]
      /\ limiters' = limiters /\ clock' = clock
  BY DEF Cleanup
<1>2. CASE ~Idle(k)
  BY <1>1, <1>2 DEF Level, Available
<1>3. CASE Idle(k) /\ clients[k].limiter = 0
  BY <1>1, <1>3 DEF Level, NoClient
<1>4. CASE Idle(k) /\ clients[k].limiter # 0
  <2>1. /\ limiters[clients[k].limiter] \in Limiter /\ clock \in Nat
        /\ clients[k].lastSeen \in 0..clock
        /\ used[k] <= limiters[clients[k].limiter].last
        /\ limiters[clients[k].limiter].last <= clients[k].lastSeen + MaxHold
        /\ used[k] \in 0..clock
    BY <1>4, Buckets DEF IInv, LastUse, TypeOK
  <2>2. /\ limiters[clients[k].limiter].last \in 0..clock
        /\ limiters[clients[k].limiter].tokens \in 0..Burst
    BY <2>1 DEF Limiter
  <2>3. clock - clients[k].lastSeen > IdleTimeout
    BY <1>4 DEF Idle
  <2>4. /\ clock - limiters[clients[k].limiter].last > Patience
        /\ clock - used[k] > Patience
    BY <2>1, <2>2, <2>3, TimingAssumption DEF Patience
  <2>5. Patience \in Nat /\ Burst \in Nat
    BY TimingAssumption DEF Patience
  <2>6. Burst <= Available(clients[k].limiter) + Windfall
    BY <2>1, <2>2, <2>4, <2>5 DEF Available, Windfall
  <2>7. Level(k) = Available(clients[k].limiter) /\ Level(k)' = Burst
        /\ clients'[k].limiter = 0 /\ lapses'[k] = lapses[k] + 1
    BY <1>1, <1>4 DEF Level, NoClient
  <2> QED
    BY <1>4, <2>3, <2>4, <2>6, <2>7
<1> QED
  BY <1>2, <1>3, <1>4

LEMMA LevelTick ==
  ASSUME IInv, Tick
  PROVE  \A k \in Keys : Level(k)' = IF Level(k) < Burst THEN Level(k) + 1 ELSE Burst
<1> TAKE k \in Keys
<1>1. clients' = clients /\ limiters' = limiters /\ clock' = clock + 1
  BY DEF Tick
<1>2. CASE clients[k].limiter = 0
  BY <1>1, <1>2, TimingAssumption DEF Level
<1>3. CASE clients[k].limiter # 0
  <2>1. limiters[clients[k].limiter] \in Limiter /\ clock \in Nat
    BY <1>3, Buckets
  <2>2. /\ limiters[clients[k].limiter].last \in 0..clock
        /\ limiters[clients[k].limiter].tokens \in 0..Burst
    BY <2>1 DEF Limiter
  <2> QED
    BY <1>1, <1>3, <2>1, <2>2, TimingAssumption DEF Level, Available
<1> QED
  BY <1>2, <1>3

LEMMA LevelRestart ==
  ASSUME Restart
  PROVE  \A k \in Keys : Level(k)' = Burst
BY DEF Restart, Level, NoClient

----------------------------------------------------------------------------
LEMMA StepRefines == IInv /\ [Next]_vars => [Bucket!Next]_Bucket!vars
<1> DEFINE level == [k \in Keys |-> Level(k)]
<1> SUFFICES ASSUME IInv, [Next]_vars
             PROVE  Bucket!Next \/ UNCHANGED <<level, passed, used, clock, restarts>>
  BY DEF Bucket!vars
<1>1. ASSUME NEW h \in Handlers, NEW c \in Callers, GetLimiter(h, c)
      PROVE  UNCHANGED <<level, passed, used, clock, restarts>>
  <2>1. level' = level
    BY <1>1, LevelLookup
  <2> QED
    BY <1>1, <2>1 DEF GetLimiter, history
<1>2. ASSUME NEW h \in Handlers, Allow(h)
      PROVE  Bucket!Next \/ UNCHANGED <<level, passed, used, clock, restarts>>
  <2>1. clock' = clock /\ restarts' = restarts
    BY <1>2 DEF Allow
  <2>2. CASE (\A k \in Keys : Level(k)' = Level(k)) /\ passed' = passed /\ used' = used
    BY <2>1, <2>2
  <2>3. ASSUME NEW k \in Keys, Level(k) >= 1, Level(k)' = Level(k) - 1,
               \A j \in Keys \ {k} : Level(j)' = Level(j),
               passed' = [passed EXCEPT ![k] = @ + 1],
               used' = [used EXCEPT ![k] = clock]
        PROVE  Bucket!Next
    <3>1. level[k] >= 1 /\ level' = [level EXCEPT ![k] = @ - 1]
      BY <2>3
    <3>2. Bucket!Take(k)
      BY <2>1, <2>3, <3>1 DEF Bucket!Take
    <3> QED
      BY <3>2 DEF Bucket!Next
  <2> QED
    BY <1>2, <2>2, <2>3, LevelAllow
<1>3. CASE Cleanup
  <2> DEFINE S == {k \in Keys : clients[k].limiter # 0 /\ clients'[k].limiter = 0}
  <2>1. UNCHANGED <<passed, used, clock, restarts>>
    BY <1>3 DEF Cleanup
  <2>2. \A k \in S : clock - used[k] > Patience /\ Level(k)' = Burst
    BY <1>3, LevelCleanup
  <2>3. \A k \in Keys \ S : Level(k)' = Level(k)
    BY <1>3, LevelCleanup
  <2>4. level' = [k \in Keys |-> IF k \in S THEN Burst ELSE level[k]]
    BY <2>2, <2>3
  <2>5. S \in SUBSET Keys
    OBVIOUS
  <2> HIDE DEF S
  <2>6. Bucket!Lapse(S)
    BY <2>1, <2>2, <2>4 DEF Bucket!Lapse
  <2> QED
    BY <2>5, <2>6 DEF Bucket!Next
<1>4. CASE Tick
  <2>1. level' = [k \in Keys |-> IF level[k] < Burst THEN level[k] + 1 ELSE Burst]
    BY <1>4, LevelTick
  <2> QED
    BY <1>4, <2>1 DEF Tick, history, Bucket!Next, Bucket!Refill
<1>5. CASE Restart
  <2>1. level' = Bucket!Full
    BY <1>5, LevelRestart DEF Bucket!Full
  <2> QED
    BY <1>5, <2>1 DEF Restart, history, Bucket!Next, Bucket!Restart
<1>6. CASE UNCHANGED vars
  BY <1>6 DEF vars, Level, Available
<1> QED
  BY <1>1, <1>2, <1>3, <1>4, <1>5, <1>6 DEF Next

(* For its callers the registry of limiter.go is one token bucket for each *)
(* merchant or address.  Entries made, deleted and made again by           *)
(* concurrent requests and the cleanup are not seen, but by a full bucket  *)
(* where nobody has been served for longer than Patience.                  *)
THEOREM ImplementsTokenBucket == Spec => RefinesTokenBucket
<1>1. Init => Bucket!Init
  BY DEF Init, Level, NoClient, Bucket!Init, Bucket!Full
<1> QED
  BY <1>1, StepRefines, Invariance, PTL DEF Spec, RefinesTokenBucket, Bucket!Spec

----------------------------------------------------------------------------
(* An entry is deleted once in each IdleTimeout at most: between two       *)
(* deletions somebody asked for it again, and nobody for that long.        *)

LapseInv ==
  \A k \in Keys :
    IdleTimeout * lapses[k]
      <= IF clients[k].limiter = 0 THEN clock ELSE clients[k].lastSeen

LEMMA LapseNext == IInv /\ LapseInv /\ [Next]_vars => LapseInv'
<1> SUFFICES ASSUME IInv, LapseInv, [Next]_vars, NEW k \in Keys
             PROVE  IdleTimeout * lapses'[k]
                      <= IF clients'[k].limiter = 0 THEN clock' ELSE clients'[k].lastSeen
  BY DEF LapseInv
<1> DEFINE spent == IdleTimeout * lapses[k]
<1>1. /\ clock \in Nat /\ clients[k].lastSeen \in 0..clock /\ lapses[k] \in Nat
      /\ IdleTimeout \in Nat
  BY Buckets, TimingAssumption DEF IInv, TypeOK
<1>2. spent \in Nat /\ IdleTimeout * (lapses[k] + 1) = spent + IdleTimeout
  BY <1>1
<1>3. spent <= IF clients[k].limiter = 0 THEN clock ELSE clients[k].lastSeen
  BY DEF LapseInv
<1>4. ASSUME lapses'[k] = lapses[k], clients'[k] = clients[k], clock' >= clock,
             clock' \in Nat
      PROVE  IdleTimeout * lapses'[k]
               <= IF clients'[k].limiter = 0 THEN clock' ELSE clients'[k].lastSeen
  <2>1. IdleTimeout * lapses'[k] = spent
    BY <1>4
  <2> HIDE DEF spent
  <2> QED
    BY <1>1, <1>2, <1>3, <1>4, <2>1
<1>5. ASSUME NEW h \in Handlers, NEW c \in Callers, GetLimiter(h, c)
      PROVE  IdleTimeout * lapses'[k]
               <= IF clients'[k].limiter = 0 THEN clock' ELSE clients'[k].lastSeen
  <2>1. Key(c) \in Keys /\ Lookup(Key(c)) /\ lapses' = lapses /\ clock' = clock
    BY <1>5 DEF Keys, GetLimiter, history
  <2>2. CASE k # Key(c)
    <3>1. clients'[k] = clients[k]
      BY <2>1, <2>2, LookupFacts
    <3> QED
      BY <1>1, <1>4, <2>1, <3>1
  <2>3. CASE k = Key(c)
    <3>1. clients'[k].limiter # 0 /\ clients'[k].lastSeen = clock
      BY <2>1, <2>3, LookupFacts
    <3>2. IdleTimeout * lapses'[k] = spent
      BY <2>1
    <3> HIDE DEF spent
    <3> QED
      BY <1>1, <1>2, <1>3, <3>1, <3>2
  <2> QED
    BY <2>2, <2>3
<1>6. CASE Cleanup
  <2>1. clock' = clock
    BY <1>6 DEF Cleanup
  <2>2. CASE lapses'[k] = lapses[k] /\ clients'[k] = clients[k]
    BY <1>1, <1>4, <2>1, <2>2
  <2>3. CASE /\ clients[k].limiter = 0 /\ clients'[k].limiter = 0
             /\ lapses'[k] = lapses[k]
    BY <1>3, <2>1, <2>3
  <2>4. CASE /\ clients[k].limiter # 0 /\ clients'[k].limiter = 0
             /\ clock - clients[k].lastSeen > IdleTimeout
             /\ lapses'[k] = lapses[k] + 1
    <3>1. IdleTimeout * lapses'[k] = spent + IdleTimeout
      BY <1>2, <2>4
    <3> HIDE DEF spent
    <3> QED
      BY <1>1, <1>2, <1>3, <2>1, <2>4, <3>1
  <2> QED
    BY <1>6, <2>2, <2>3, <2>4, LevelCleanup
<1>7. CASE Tick
  BY <1>1, <1>4, <1>7 DEF Tick, history
<1>8. CASE Restart
  <2>1. clients'[k].limiter = 0 /\ lapses'[k] = lapses[k] /\ clock' = clock
    BY <1>8 DEF Restart, NoClient, history
  <2>2. IdleTimeout * lapses'[k] = spent
    BY <2>1
  <2> HIDE DEF spent
  <2> QED
    BY <1>1, <1>2, <1>3, <2>1, <2>2
<1>9. ASSUME NEW h \in Handlers, Allow(h)
      PROVE  lapses' = lapses /\ clients' = clients /\ clock' = clock
  BY <1>9 DEF Allow
<1>10. CASE UNCHANGED vars
  BY <1>1, <1>4, <1>10 DEF vars
<1> QED
  BY <1>1, <1>4, <1>5, <1>6, <1>7, <1>8, <1>9, <1>10 DEF Next

(* The rate with its windfalls, of which LapseInv bounds the number.       *)
Rated ==
  \A k \in Keys :
    passed[k] + Level(k) <= Burst * (restarts + 1) + clock + Windfall * lapses[k]

LEMMA RateNext == IInv /\ Rated /\ [Next]_vars => Rated'
<1> SUFFICES ASSUME IInv, Rated, [Next]_vars, NEW k \in Keys
             PROVE  passed'[k] + Level(k)'
                      <= Burst * (restarts' + 1) + clock' + Windfall * lapses'[k]
  BY DEF Rated, Windfall, Patience
<1> DEFINE bound == Burst * (restarts + 1)
           extra == Windfall * lapses[k]
<1>1. /\ passed[k] \in Nat /\ passed \in [Keys -> Nat] /\ restarts \in Nat
      /\ clock \in Nat /\ Burst \in Nat /\ Level(k) \in 0..Burst /\ lapses[k] \in Nat
  BY Buckets, TimingAssumption DEF IInv, TypeOK
<1>2. Windfall \in Nat
  BY TimingAssumption DEF Windfall, Patience
<1>3. /\ bound \in Nat /\ Burst * ((restarts + 1) + 1) = bound + Burst
      /\ extra \in Nat /\ Windfall * (lapses[k] + 1) = extra + Windfall
  BY <1>1, <1>2
<1>4. passed[k] + Level(k) <= bound + clock + extra
  BY DEF Rated
<1> HIDE DEF bound, extra
<1>5. ASSUME NEW h \in Handlers, NEW c \in Callers, GetLimiter(h, c)
      PROVE  passed'[k] + Level(k)'
               <= Burst * (restarts' + 1) + clock' + Windfall * lapses'[k]
  <2>1. Level(k)' = Level(k)
    BY <1>5, LevelLookup
  <2> QED
    BY <1>4, <1>5, <2>1 DEF GetLimiter, history, bound, extra
<1>6. ASSUME NEW h \in Handlers, Allow(h)
      PROVE  passed'[k] + Level(k)'
               <= Burst * (restarts' + 1) + clock' + Windfall * lapses'[k]
  <2>1. restarts' = restarts /\ clock' = clock /\ lapses' = lapses
    BY <1>6 DEF Allow
  <2>2. passed'[k] + Level(k)' = passed[k] + Level(k)
    <3>1. CASE Level(k)' = Level(k) /\ passed' = passed
      BY <3>1
    <3>2. ASSUME NEW i \in Keys, Level(i)' = Level(i) - 1,
                 \A j \in Keys \ {i} : Level(j)' = Level(j),
                 passed' = [passed EXCEPT ![i] = @ + 1]
          PROVE  passed'[k] + Level(k)' = passed[k] + Level(k)
      <4>1. CASE i = k
        BY <1>1, <3>2, <4>1
      <4>2. CASE i # k
        BY <1>1, <3>2, <4>2
      <4> QED
        BY <4>1, <4>2
    <3> QED
      BY <1>6, <3>1, <3>2, LevelAllow
  <2> QED
    BY <1>4, <2>1, <2>2 DEF bound, extra
<1>7. CASE Cleanup
  <2>1. passed' = passed /\ restarts' = restarts /\ clock' = clock
    BY <1>7 DEF Cleanup
  <2>2. CASE Level(k)' = Level(k) /\ lapses'[k] = lapses[k]
    BY <1>4, <2>1, <2>2 DEF bound, extra
  <2>3. CASE /\ Level(k)' = Burst /\ Burst <= Level(k) + Windfall
             /\ lapses'[k] = lapses[k] + 1
    <3>1. Windfall * lapses'[k] = extra + Windfall /\ Burst * (restarts' + 1) = bound
      BY <1>3, <2>1, <2>3 DEF bound
    <3>2. passed[k] + Burst <= bound + clock + (extra + Windfall)
      BY <1>1, <1>2, <1>3, <1>4, <2>3
    <3> QED
      BY <2>1, <2>3, <3>1, <3>2
  <2> QED
    BY <1>7, <2>2, <2>3, LevelCleanup
<1>8. CASE Tick
  <2>1. Level(k)' <= Level(k) + 1 /\ Level(k)' \in Nat
    BY <1>1, <1>8, LevelTick
  <2>2. passed' = passed /\ restarts' = restarts /\ clock' = clock + 1 /\ lapses' = lapses
    BY <1>8 DEF Tick, history
  <2>3. passed[k] + Level(k)' <= bound + (clock + 1) + extra
    BY <1>1, <1>3, <1>4, <2>1
  <2> QED
    BY <2>2, <2>3 DEF bound, extra
<1>9. CASE Restart
  <2>1. /\ Level(k)' = Burst /\ passed' = passed /\ clock' = clock
        /\ restarts' = restarts + 1 /\ lapses' = lapses
    BY <1>9, LevelRestart DEF Restart, history
  <2>2. passed[k] + Burst <= (bound + Burst) + clock + extra
    BY <1>1, <1>3, <1>4
  <2> QED
    BY <1>3, <2>1, <2>2 DEF extra
<1>10. CASE UNCHANGED vars
  <2>1. Level(k)' = Level(k)
    BY <1>10 DEF vars, Level, Available
  <2> QED
    BY <1>4, <1>10, <2>1 DEF vars, bound, extra
<1> QED
  BY <1>5, <1>6, <1>7, <1>8, <1>9, <1>10 DEF Next

(* Whatever rps and burst, and whatever the interleaving of requests and   *)
(* cleanups, Middleware serves a key no more than a burst, a request for   *)
(* each unit of time, a burst for each restart, and a windfall for each    *)
(* deletion of its entry, of which there is one in each idle timeout.      *)
THEOREM RateKept == Spec => []BurstPlusRate
<1>1. Init => Rated /\ LapseInv
  <2> SUFFICES ASSUME Init, NEW k \in Keys
               PROVE  /\ passed[k] + Level(k)
                           <= Burst * (restarts + 1) + clock + Windfall * lapses[k]
                      /\ IdleTimeout * lapses[k]
                           <= IF clients[k].limiter = 0 THEN clock ELSE clients[k].lastSeen
    BY DEF Rated, LapseInv
  <2>1. Windfall \in Nat
    BY TimingAssumption DEF Windfall, Patience
  <2> QED
    BY <2>1, TimingAssumption DEF Init, Level, NoClient
<1>2. IInv /\ Rated /\ LapseInv => BurstPlusRate
  <2> SUFFICES ASSUME IInv, LapseInv, NEW k \in Keys
               PROVE  IdleTimeout * lapses[k] <= clock
    BY DEF BurstPlusRate, Rated
  <2> DEFINE spent == IdleTimeout * lapses[k]
  <2>1. /\ clock \in Nat /\ clients[k].lastSeen \in 0..clock
        /\ lapses[k] \in Nat /\ IdleTimeout \in Nat
    BY Buckets, TimingAssumption DEF IInv, TypeOK
  <2>2. spent \in Nat /\ spent <= IF clients[k].limiter = 0 THEN clock ELSE clients[k].lastSeen
    BY <2>1 DEF LapseInv
  <2> HIDE DEF spent
  <2>3. spent <= clock
    BY <2>1, <2>2
  <2> QED
    BY <2>3 DEF spent
<1> QED
  BY <1>1, <1>2, RateNext, LapseNext, Invariance, PTL DEF Spec

(* A registry whose buckets fill up within the idle timeout gives nothing  *)
(* away: a key is served its bursts and its rate and no more, however      *)
(* often its entry is deleted and made again.                              *)
THEOREM QuickBucketsGiveNothingAway ==
  ASSUME MaxHold + Burst <= IdleTimeout
  PROVE  Spec => [](\A k \in Keys : passed[k] + Level(k) <= Burst * (restarts + 1) + clock)
<1>1. Windfall = 0
  BY TimingAssumption DEF Windfall, Patience
<1>2. IInv /\ BurstPlusRate =>
        \A k \in Keys : passed[k] + Level(k) <= Burst * (restarts + 1) + clock
  <2> SUFFICES ASSUME IInv, BurstPlusRate, NEW k \in Keys
               PROVE  passed[k] + Level(k) <= Burst * (restarts + 1) + clock
    OBVIOUS
  <2>1. /\ lapses[k] \in Nat /\ clock \in Nat /\ restarts \in Nat /\ Burst \in Nat
    BY Buckets, TimingAssumption DEF IInv, TypeOK
  <2>2. Windfall * lapses[k] = 0 /\ Burst * (restarts + 1) \in Nat
    BY <1>1, <2>1
  <2>3. passed[k] + Level(k) <= Burst * (restarts + 1) + clock + Windfall * lapses[k]
    BY DEF BurstPlusRate
  <2>4. Burst * (restarts + 1) + clock + 0 = Burst * (restarts + 1) + clock
    BY <2>1, <2>2
  <2> QED
    BY <2>2, <2>3, <2>4
<1> QED
  BY <1>2, Invariance, RateKept, PTL
=============================================================================
