-------------------------- MODULE FairShareProofs --------------------------
(***************************************************************************)
(* What _FairPendingQueue charges, and what its order bounds, for any      *)
(* number of jobs and keys, any weights and limits, and any grace period.  *)
(*                                                                         *)
(* QueueInv, of FairQueueProofs, is strengthened twice. Priced says that   *)
(* service is a natural number, and that times and activation orders are   *)
(* in the past: what the steps of the queue alone keep. ShareInv adds what *)
(* the load of the executor keeps, and bounds not the score of a served    *)
(* key, which grows while its calls run, but its Potential: the score it   *)
(* would have if each of its calls lasted MaxCall. No settlement and no    *)
(* passing of time raises it, so only a pop of the key does, and then the  *)
(* order has just compared its score with that of every waiting key.       *)
(***************************************************************************)
EXTENDS FairShare, FairQueueProofs, WellFoundedInduction

Service(s) == s.service

Activation(s) == s.activation

Priced ==
  /\ DOMAIN states \subseteq Keys
  /\ nextActivation \in Nat
  /\ \A k \in DOMAIN states :
       /\ Service(states[k]) \in Nat
       /\ Activation(states[k]) \in Nat
       /\ Activation(states[k]) < nextActivation
  /\ \A j \in DOMAIN dequeuedAt : dequeuedAt[j] <= clock

PricedInv == QueueInv /\ Priced

\* The score of a key whose calls all last MaxCall, from the start of its calls.
Potential(k) == Service(states[k]) + Rate[k] * (MaxCall * Cardinality(Running(k)))

Owed(k, o) == Rate[k] * (MaxCall * Slots) + Rate[o] * (MaxCall * (Slots - 1))

Loaded ==
  /\ Cardinality(DOMAIN dequeuedAt) <= Slots
  /\ \A j \in DOMAIN dequeuedAt : clock - dequeuedAt[j] <= MaxCall

Behind(p) ==
  /\ p[1] # p[2]
  /\ p[1] \in DOMAIN states
  /\ p[2] \in Waiting
  /\ Potential(p[1]) <= Service(states[p[2]]) + Owed(p[1], p[2])

ShareInv == PricedInv /\ Loaded /\ \A p \in served : Behind(p)

----------------------------------------------------------------------------
\* How long the active jobs of a key have run

\* The ticks that _score counts for active entries e at a time.
Ticks(e, now) == {p \in (DOMAIN e) \X (0 .. (now - 1)) : e[p[1]] <= p[2]}

\* _score reads the active entries of a state and nothing else.
LEMMA ElapsedIs == \A s, now : Elapsed(s, now) = Cardinality(Ticks(Entries(s), now))
BY DEF Elapsed, Held, Ticks, Entries

\* A finite number of jobs has run for a finite number of ticks.
LEMMA TicksAreFinite ==
  ASSUME NEW e, IsFiniteSet(DOMAIN e), NEW now \in Nat
  PROVE  IsFiniteSet(Ticks(e, now)) /\ Cardinality(Ticks(e, now)) \in Nat
<1>1. IsFiniteSet(0 .. (now - 1))
  BY FS_Interval
<1>2. IsFiniteSet((DOMAIN e) \X (0 .. (now - 1)))
  BY <1>1, FS_Product
<1>3. Ticks(e, now) \in SUBSET ((DOMAIN e) \X (0 .. (now - 1)))
  BY DEF Ticks
<1> QED
  BY <1>2, <1>3, FS_Subset, FS_CardinalityType

\* A job that is taken off leaves the ticks of the others, and one tick less for each
\* since it was popped.
LEMMA TicksWithout ==
  ASSUME NEW e, IsFiniteSet(DOMAIN e), NEW now \in Nat,
         NEW j \in DOMAIN e, e[j] \in Nat, e[j] <= now
  PROVE  Cardinality(Ticks(e, now)) =
           Cardinality(Ticks(Restrict(e, DOMAIN e \ {j}), now)) + (now - e[j])
<1> DEFINE r == Restrict(e, DOMAIN e \ {j})
           own == {j} \X (e[j] .. (now - 1))
           A == Ticks(e, now)
           B == Ticks(r, now)
<1>1. /\ DOMAIN r = DOMAIN e \ {j}
      /\ \A i \in DOMAIN r : r[i] = e[i]
  BY DEF Restrict
<1> HIDE DEF r
<1>2. A = B \cup own
  <2>1. \A p : p \in A <=> p \in B \/ p \in own
    BY <1>1 DEF Ticks
  <2> QED
    BY <2>1
<1>3. B \cap own = {}
  BY <1>1 DEF Ticks
<1>4. IsFiniteSet(own) /\ Cardinality(own) = now - e[j]
  <2>1. /\ IsFiniteSet(e[j] .. (now - 1))
        /\ Cardinality(e[j] .. (now - 1)) = now - e[j]
    <3>1. ASSUME NEW a \in Int, NEW b \in Int, a <= b + 1
          PROVE  IsFiniteSet(a .. b) /\ Cardinality(a .. b) = b - a + 1
      <4>1. /\ IsFiniteSet(a .. b)
            /\ Cardinality(a .. b) = IF a > b THEN 0 ELSE b - a + 1
        BY FS_Interval
      <4> QED
        BY <3>1, <4>1
    <3>2. e[j] <= (now - 1) + 1 /\ (now - 1) - e[j] + 1 = now - e[j] /\ now - 1 \in Int
      OBVIOUS
    <3> QED
      BY <3>1, <3>2
  <2>2. IsFiniteSet({j}) /\ Cardinality({j}) = 1
    BY FS_Singleton
  <2>3. IsFiniteSet(own) /\ Cardinality(own) = 1 * (now - e[j])
    <3> DEFINE S == {j}
               T == e[j] .. (now - 1)
    <3>1. /\ IsFiniteSet(S) /\ Cardinality(S) = 1
          /\ IsFiniteSet(T) /\ Cardinality(T) = now - e[j]
      BY <2>1, <2>2
    <3>2. own = S \X T
      OBVIOUS
    <3> HIDE DEF S, T, own
    <3>3. IsFiniteSet(S \X T) /\ Cardinality(S \X T) = Cardinality(S) * Cardinality(T)
      BY <3>1, FS_Product
    <3> QED
      BY <3>1, <3>2, <3>3
  <2> QED
    BY <2>3
<1>5. IsFiniteSet(B) /\ Cardinality(B) \in Nat
  <2>1. DOMAIN r \in SUBSET DOMAIN e
    BY <1>1
  <2>2. IsFiniteSet(DOMAIN r)
    BY <2>1, FS_Subset
  <2> QED
    BY <2>2, TicksAreFinite
<1> HIDE DEF own, A, B
<1>6. Cardinality(A) = Cardinality(B) + Cardinality(own) - Cardinality({})
  BY <1>2, <1>3, <1>4, <1>5, FS_Union
<1> QED
  BY <1>4, <1>5, <1>6, FS_EmptySet DEF A, B, r

\* Jobs of which none has run longer than a bound have run no more ticks together than
\* the bound times their number.
LEMMA TicksBound ==
  ASSUME NEW e, IsFiniteSet(DOMAIN e), NEW now \in Nat, NEW b \in Nat,
         \A j \in DOMAIN e : e[j] \in Nat /\ now - e[j] <= b
  PROVE  Cardinality(Ticks(e, now)) <= b * Cardinality(DOMAIN e)
<1> DEFINE S == Ticks(e, now)
           T == (DOMAIN e) \X (0 .. (b - 1))
           f == [p \in S |-> <<p[1], p[2] - e[p[1]]>>]
<1>1. ASSUME NEW p \in S
      PROVE  p = <<p[1], p[2]>> /\ p[1] \in DOMAIN e /\ p[2] \in Nat /\ e[p[1]] \in Nat
             /\ p[2] - e[p[1]] \in 0 .. (b - 1)
  BY DEF Ticks
<1>2. f \in Injection(S, T)
  <2>1. f \in [S -> T]
    BY <1>1
  <2>2. ASSUME NEW p \in S, NEW q \in S, f[p] = f[q] PROVE p = q
    <3>1. p[1] = q[1] /\ p[2] - e[p[1]] = q[2] - e[q[1]]
      BY <2>2
    <3>2. p[2] = q[2]
      BY <1>1, <3>1
    <3> QED
      BY <1>1, <3>1, <3>2
  <2> HIDE DEF f, T, S
  <2> QED
    BY <2>1, <2>2 DEF Injection, IsInjective
<1>3. IsFiniteSet(0 .. (b - 1)) /\ Cardinality(0 .. (b - 1)) = b
  BY FS_Interval
<1>4. IsFiniteSet(T) /\ Cardinality(T) = Cardinality(DOMAIN e) * b
  BY <1>3, FS_Product
<1> HIDE DEF f, T, S
<1>5. Cardinality(S) <= Cardinality(T)
  BY <1>2, <1>4, FS_Injection
<1>6. Cardinality(DOMAIN e) \in Nat
  BY FS_CardinalityType
<1>7. \A m, n \in Nat : m * n = n * m
  OBVIOUS
<1> QED
  BY <1>4, <1>5, <1>6, <1>7 DEF S

\* Among natural numbers there is a least one: the baseline of a new key is a score.
LEMMA MinIsMember ==
  ASSUME NEW S \in SUBSET Nat, S # {}
  PROVE  Min(S) \in S
<1> DEFINE T == {0 .. n : n \in S}
<1>1. T \subseteq FiniteSubsetsOf(Nat) /\ T # {}
  <2>1. ASSUME NEW n \in S PROVE 0 .. n \in FiniteSubsetsOf(Nat)
    BY FS_Interval DEF FiniteSubsetsOf
  <2> QED
    BY <2>1
<1>2. PICK I \in T : \A J \in T : ~(<<J, I>> \in StrictSubsetOrdering(Nat))
  BY <1>1, FS_StrictSubsetOrderingWellFounded, WFMin
<1>3. PICK x \in S : I = 0 .. x
  OBVIOUS
<1>4. ASSUME NEW y \in S, y < x PROVE FALSE
  <2>1. 0 .. y \in T
    OBVIOUS
  <2>2. 0 .. y \subseteq 0 .. x /\ 0 .. y # 0 .. x
    <3>1. x \in 0 .. x /\ x \notin 0 .. y
      BY <1>4
    <3> QED
      BY <1>4, <3>1
  <2>3. 0 .. y \in SUBSET Nat /\ 0 .. x \in SUBSET Nat
    OBVIOUS
  <2>4. <<0 .. y, 0 .. x>> \in StrictSubsetOrdering(Nat)
    BY <2>2, <2>3 DEF StrictSubsetOrdering
  <2> QED
    BY <1>2, <1>3, <2>1, <2>4
<1>5. \A y \in S : x <= y
  BY <1>4
<1> QED
  BY <1>5 DEF Min

----------------------------------------------------------------------------
\* What a step does to the service and the activation order of a key

SameAccount(k) ==
  /\ k \in DOMAIN states
  /\ Service(states[k])' = Service(states[k])
  /\ Activation(states[k])' = Activation(states[k])

\* The operations on a state set neither, except that complete charges the service.
LEMMA AccountKept ==
  ASSUME NEW s, IsMap(s, Fields), NEW r, NEW j, NEW i, NEW now,
         \/ r = MarkIdle(s, now)
         \/ r = Pushed(s, j)
         \/ r = Popped(s, j)
         \/ r = Plucked(s, i)
         \/ r = Emptied(s)
         \/ r = Dropped(s, j)
  PROVE  /\ Service(r) = Service(s)
         /\ Activation(r) = Activation(s)
         /\ IsMap(r, Fields)
<1> DEFINE F(x) == IsMap(x, Fields) /\ Service(x) = Service(s) /\ Activation(x) = Activation(s)
<1>1. F(s)
  OBVIOUS
<1>2. \A v : /\ F([s EXCEPT !.idle = v])
             /\ F([s EXCEPT !.fifo = v])
             /\ F([s EXCEPT !.started = v])
  BY DEF IsMap, Fields, Service, Activation
<1>3. ASSUME NEW u, NEW v PROVE F([s EXCEPT !.fifo = u, !.idle = v])
  BY DEF IsMap, Fields, Service, Activation
<1>4. r = MarkIdle(s, now) => F(r)
  BY <1>1, <1>2 DEF MarkIdle
<1>5. r = Pushed(s, j) => F(r)
  <2> DEFINE u == Append(s.fifo, j)
  <2>1. Pushed(s, j) = [s EXCEPT !.fifo = u, !.idle = NotIdle]
    BY DEF Pushed
  <2> HIDE DEF u
  <2>2. F([s EXCEPT !.fifo = u, !.idle = NotIdle])
    BY <1>3
  <2> QED
    BY <2>1, <2>2
<1>6. r = Popped(s, j) => F(r)
  <2> DEFINE a == Tail(s.fifo)
             b == With(s.started, j, clock)
             p == [s EXCEPT !.fifo = a, !.started = b, !.lastPick = nextSelection,
                            !.idle = NotIdle]
  <2>1. Popped(s, j) = p
    BY DEF Popped
  <2> HIDE DEF a, b
  <2>2. F(p)
    BY DEF IsMap, Fields, Service, Activation
  <2> QED
    BY <2>1, <2>2
<1>7. r = Plucked(s, i) \/ r = Emptied(s) \/ r = Dropped(s, j) => F(r)
  BY <1>2 DEF Plucked, Emptied, Dropped
<1> QED
  BY <1>4, <1>5, <1>6, <1>7

\* complete charges the key what the stopwatch showed.
LEMMA AccountCharged ==
  ASSUME NEW s, IsMap(s, Fields), NEW amount
  PROVE  /\ Service(Charged(s, amount)) = Service(s) + amount
         /\ Activation(Charged(s, amount)) = Activation(s)
         /\ IsMap(Charged(s, amount), Fields)
BY DEF IsMap, Fields, Service, Activation, Charged

\* Forgetting idle keys, and setting the state of one key, leaves the accounts of the
\* others.
LEMMA OtherAccounts ==
  ASSUME NEW f, Live(f), NEW k, NEW s,
         \/ states' = f
         \/ states' = With(f, k, s)
         \/ k \in DOMAIN f /\ states' = [f EXCEPT ![k] = s]
  PROVE  /\ \A o \in DOMAIN states' : o # k => SameAccount(o)
         /\ states' # f => k \in DOMAIN states' /\ states'[k] = s
<1>1. CASE states' = f
  BY <1>1 DEF Live, SameAccount
<1>2. CASE states' = With(f, k, s)
  BY <1>2 DEF Live, SameAccount, With
<1>3. CASE k \in DOMAIN f /\ states' = [f EXCEPT ![k] = s]
  BY <1>3 DEF Live, IsMap, SameAccount
<1> QED
  BY <1>1, <1>2, <1>3

\* A step that sets the state of a present key to one with the same account keeps all
\* accounts.
LEMMA KeyKeepsAccount ==
  ASSUME NEW f, Live(f), NEW k, NEW s,
         \/ states' = f
         \/ k \in DOMAIN f /\ states' = [f EXCEPT ![k] = s],
         Service(s) = Service(states[k]), Activation(s) = Activation(states[k]),
         NEW o \in DOMAIN states'
  PROVE  SameAccount(o)
<1>1. o # k => SameAccount(o)
  BY OtherAccounts
<1>2. states' = f => SameAccount(o)
  BY DEF Live, SameAccount
<1>3. ASSUME k \in DOMAIN f, states' = [f EXCEPT ![k] = s] PROVE SameAccount(k)
  BY <1>3 DEF Live, SameAccount
<1> QED
  BY <1>1, <1>2, <1>3

\* pop_next changes no account: what a call costs is known when it ends.
LEMMA PopAccounts ==
  ASSUME Shaped, PopNext, NEW o \in DOMAIN states' PROVE SameAccount(o)
<1> DEFINE live == Fresh(clock)
<1>1. Live(live)
  BY FreshIsLive DEF Shaped
<1>2. PICK k \in DOMAIN live :
        states' = [live EXCEPT ![k] = Popped(live[k], Head(live[k].fifo))]
  BY DEF PopNext
<1> HIDE DEF live
<1>3. live[k] = states[k] /\ IsMap(states[k], Fields)
  BY <1>1 DEF Live, Shaped, StatesShaped, Built
<1> DEFINE s == Popped(live[k], Head(live[k].fifo))
<1>4. Service(s) = Service(states[k]) /\ Activation(s) = Activation(states[k])
  BY <1>3, AccountKept
<1>5. states' = [live EXCEPT ![k] = s]
  BY <1>2
<1> HIDE DEF s
<1> QED
  BY <1>1, <1>4, <1>5, KeyKeepsAccount

\* Neither does remove.
LEMMA WithdrawAccounts ==
  ASSUME Shaped, NEW j \in Jobs, Withdraw(j), NEW o \in DOMAIN states'
  PROVE  SameAccount(o)
<1> DEFINE k == KeyOf[j]
           x == states[k]
<1>1. /\ k \in DOMAIN states
      /\ \E i : states' = [states EXCEPT ![k] = MarkIdle(Plucked(x, i), clock)]
  BY DEF Withdraw
<1>2. PICK i : states' = [states EXCEPT ![k] = MarkIdle(Plucked(x, i), clock)]
  BY <1>1
<1>3. IsMap(x, Fields)
  BY <1>1 DEF Shaped, StatesShaped, Built
<1> DEFINE p == Plucked(x, i)
           s == MarkIdle(p, clock)
<1> HIDE DEF x
<1>4. Service(p) = Service(x) /\ Activation(p) = Activation(x) /\ IsMap(p, Fields)
  BY <1>3, AccountKept
<1> HIDE DEF p
<1>5. Service(s) = Service(x) /\ Activation(s) = Activation(x)
  BY <1>4, AccountKept
<1>6. states' = [states EXCEPT ![k] = s]
  BY <1>2 DEF p
<1> HIDE DEF s
<1>7. Live(states)
  BY StatesAreLive DEF Shaped
<1> QED
  BY <1>1, <1>5, <1>6, <1>7, KeyKeepsAccount DEF x

\* Nor do drain, a reading, a refusal and the passing of time.
LEMMA QuietAccounts ==
  ASSUME Shaped,
         Drain \/ Observe \/ Tick \/ (\E j \in Jobs : Refuse(j)) \/ UNCHANGED vars,
         NEW o \in DOMAIN states'
  PROVE  SameAccount(o)
<1>1. CASE Drain
  <2>1. /\ o \in DOMAIN states
        /\ states'[o] = MarkIdle(Emptied(states[o]), clock)
        /\ IsMap(states[o], Fields)
    BY <1>1 DEF Drain, Shaped, StatesShaped, Built
  <2> DEFINE x == states[o]
             e == Emptied(x)
  <2>2. IsMap(x, Fields)
    BY <2>1
  <2> HIDE DEF x
  <2>3. Service(e) = Service(x) /\ Activation(e) = Activation(x) /\ IsMap(e, Fields)
    BY <2>2, AccountKept
  <2> HIDE DEF e
  <2>4. /\ Service(MarkIdle(e, clock)) = Service(x)
        /\ Activation(MarkIdle(e, clock)) = Activation(x)
    BY <2>3, AccountKept
  <2> QED
    BY <2>1, <2>4 DEF SameAccount, x, e
<1>2. CASE Observe \/ Tick \/ (\E j \in Jobs : Refuse(j)) \/ UNCHANGED vars
  <2>1. states' = Fresh(clock) \/ states' = states
    BY <1>2 DEF Observe, Tick, Refuse, vars
  <2>2. Live(Fresh(clock)) /\ Live(states)
    BY FreshIsLive, StatesAreLive DEF Shaped
  <2> QED
    BY <2>1, <2>2 DEF Live, SameAccount
<1> QED
  BY <1>1, <1>2

\* abandon leaves the accounts, and so does complete but for what it charges the key.
LEMMA SettlingAccounts ==
  ASSUME Shaped, NEW j \in Jobs, NEW begin, NEW end,
         Complete(j, begin, end) \/ Abandon(j, end),
         NEW o \in DOMAIN states', ~SameAccount(o)
  PROVE  /\ o = KeyOf[j] /\ o \in DOMAIN states
         /\ Complete(j, begin, end)
         /\ Service(states[o])' = Service(states[o]) + Rate[o] * (end - begin)
         /\ Activation(states[o])' = Activation(states[o])
<1> DEFINE k == KeyOf[j]
           x == states[k]
           d == Dropped(x, j)
           c == Charged(d, Rate[k] * (end - begin))
<1>1. Live(states)
  BY StatesAreLive DEF Shaped
<1>2. \/ states' = states
      \/ k \in DOMAIN states /\ Abandon(j, end) /\ states' = [states EXCEPT ![k] = MarkIdle(d, end)]
      \/ k \in DOMAIN states /\ Complete(j, begin, end) /\ states' = [states EXCEPT ![k] = MarkIdle(c, end)]
  BY DEF Complete, Abandon, HasEntry
<1>3. k \in DOMAIN states => IsMap(x, Fields)
  BY DEF Shaped, StatesShaped, Built
<1> HIDE DEF x
<1>4. k \in DOMAIN states =>
        Service(d) = Service(x) /\ Activation(d) = Activation(x) /\ IsMap(d, Fields)
  BY <1>3, AccountKept
<1> HIDE DEF d
<1>5. k \in DOMAIN states =>
        /\ Service(c) = Service(x) + Rate[k] * (end - begin)
        /\ Activation(c) = Activation(x)
        /\ IsMap(c, Fields)
  BY <1>4, AccountCharged
<1> HIDE DEF c
<1>6. k \in DOMAIN states =>
        /\ Service(MarkIdle(d, end)) = Service(x)
        /\ Activation(MarkIdle(d, end)) = Activation(x)
        /\ Service(MarkIdle(c, end)) = Service(c)
        /\ Activation(MarkIdle(c, end)) = Activation(x)
  BY <1>4, <1>5, AccountKept
<1>7. states' # states
  BY <1>1 DEF Live, SameAccount
<1>8. ASSUME k \in DOMAIN states, states' = [states EXCEPT ![k] = MarkIdle(d, end)]
      PROVE  FALSE
  <2> DEFINE s == MarkIdle(d, end)
  <2>1. Service(s) = Service(states[k]) /\ Activation(s) = Activation(states[k])
    BY <1>6, <1>8 DEF x
  <2>2. states' = [states EXCEPT ![k] = s]
    BY <1>8
  <2> HIDE DEF s
  <2> QED
    BY <1>1, <1>8, <2>1, <2>2, KeyKeepsAccount
<1>9. /\ k \in DOMAIN states /\ Complete(j, begin, end)
      /\ states' = [states EXCEPT ![k] = MarkIdle(c, end)]
  BY <1>2, <1>7, <1>8
<1>10. o = k /\ states'[k] = MarkIdle(c, end)
  <2> DEFINE s == MarkIdle(c, end)
  <2>1. k \in DOMAIN states /\ states' = [states EXCEPT ![k] = s]
    BY <1>9
  <2> HIDE DEF s
  <2>2. o # k => SameAccount(o)
    BY <1>1, <2>1, OtherAccounts
  <2> QED
    BY <2>1, <2>2 DEF s
<1> QED
  BY <1>5, <1>6, <1>9, <1>10 DEF x

\* enqueue opens an account for a key that has none, with a new activation order.
LEMMA EnqueueAccounts ==
  ASSUME Shaped, NEW j \in Jobs, Enqueue(j), NEW o \in DOMAIN states', ~SameAccount(o)
  PROVE  /\ o = KeyOf[j]
         /\ Activation(states[o])' = nextActivation
         /\ nextActivation' = nextActivation + 1
         /\ Service(states[o])' = Baseline(Fresh(clock), clock)
         /\ o \in DOMAIN states => ~Busy(states[o])
<1> DEFINE k == KeyOf[j]
           live == Fresh(clock)
           fresh == NewState(live, clock)
           s == IF k \in DOMAIN live THEN live[k] ELSE fresh
<1>1. Live(live)
  BY FreshIsLive DEF Shaped
<1>2. /\ states' = With(live, k, Pushed(s, j))
      /\ nextActivation' = IF k \in DOMAIN live THEN nextActivation ELSE nextActivation + 1
  BY DEF Enqueue
<1>3. /\ IsMap(fresh, Fields)
      /\ Service(fresh) = Baseline(live, clock)
      /\ Activation(fresh) = nextActivation
  BY DEF NewState, IsMap, Fields, Service, Activation
<1> HIDE DEF live, fresh
<1>4. IsMap(s, Fields)
  BY <1>1, <1>3 DEF Live, Shaped, StatesShaped, Built
<1> DEFINE p == Pushed(s, j)
<1> HIDE DEF s
<1>5. Service(p) = Service(s) /\ Activation(p) = Activation(s)
  BY <1>4, AccountKept
<1>6. states' = With(live, k, p)
  BY <1>2
<1> HIDE DEF p
<1>7. o # k => SameAccount(o)
  BY <1>1, <1>6, OtherAccounts
<1>8. k \in DOMAIN states' /\ states'[k] = p
  BY <1>6 DEF With
<1>9. k \in DOMAIN live => SameAccount(k)
  BY <1>1, <1>5, <1>8 DEF Live, SameAccount, s
<1>10. k \notin DOMAIN live /\ k \in DOMAIN states => ~Busy(states[k])
  BY <1>1 DEF Live
<1> QED
  BY <1>2, <1>3, <1>5, <1>7, <1>8, <1>9, <1>10 DEF s, live

----------------------------------------------------------------------------
\* Scores are natural numbers, and times and activation orders are in the past

\* A weight is a positive number, for every key a job can have.
LEMMA RateType == \A k \in Keys : Rate[k] \in Nat \ {0}
BY QueueAssumption

\* The active jobs of a key are finitely many.
LEMMA EntriesAreFinite ==
  ASSUME Shaped, NEW k \in DOMAIN states
  PROVE  IsFiniteSet(DOMAIN Entries(states[k]))
<1>1. DOMAIN Entries(states[k]) \in SUBSET Jobs
  BY DEF Shaped, StatesShaped, Built, OfKey
<1> QED
  BY <1>1, FS_Subset, QueueAssumption

\* A product of natural numbers is one.
LEMMA ProductType == \A m, n \in Nat : m * n \in Nat
OBVIOUS

\* A score is a natural number, and never below the service.
LEMMA ScoreType ==
  ASSUME Shaped, Priced, NEW k \in DOMAIN states
  PROVE  /\ Elapsed(states[k], clock) \in Nat
         /\ Score(k, states[k], clock) =
              Service(states[k]) + Rate[k] * Elapsed(states[k], clock)
         /\ Rate[k] * Elapsed(states[k], clock) \in Nat
         /\ Score(k, states[k], clock) \in Nat
<1>1. Elapsed(states[k], clock) \in Nat
  BY EntriesAreFinite, TicksAreFinite, ElapsedIs DEF Shaped
<1>2. Score(k, states[k], clock) = Service(states[k]) + Rate[k] * Elapsed(states[k], clock)
  BY DEF Score, Service
<1>3. Rate[k] \in Nat /\ Service(states[k]) \in Nat
  BY RateType DEF Priced
<1>4. Rate[k] * Elapsed(states[k], clock) \in Nat
  BY <1>1, <1>3, ProductType
<1> QED
  BY <1>1, <1>2, <1>3, <1>4

\* A new key starts with a natural number: zero, or the least score of a busy key.
LEMMA BaselineType ==
  ASSUME Shaped, Priced
  PROVE  Baseline(Fresh(clock), clock) \in Nat
<1> DEFINE live == Fresh(clock)
           busy == {k \in DOMAIN live : Busy(live[k])}
           scores == {Score(k, live[k], clock) : k \in busy}
<1>1. \A k \in DOMAIN live : k \in DOMAIN states /\ live[k] = states[k]
  BY FreshIsLive DEF Shaped, Live
<1>2. Baseline(live, clock) = IF busy = {} THEN 0 ELSE Min(scores)
  BY DEF Baseline
<1> HIDE DEF live
<1>3. \A k \in busy : Score(k, live[k], clock) \in Nat
  BY <1>1, ScoreType
<1>4. scores \in SUBSET Nat /\ (busy # {} => scores # {})
  BY <1>3
<1> HIDE DEF busy, scores
<1>5. scores # {} => Min(scores) \in scores
  BY <1>4, MinIsMember
<1>6. busy # {} => Min(scores) \in Nat
  BY <1>4, <1>5
<1>7. Baseline(live, clock) \in Nat
  BY <1>2, <1>6
<1> QED
  BY <1>7 DEF live

\* At first there are no keys.
LEMMA InitPriced == Init => Priced
BY EmptyMap DEF Init, Priced

\* What is left to prove of a step that leaves the accounts as they were.
LEMMA SameAccountsPriced ==
  ASSUME Shaped, Priced, \A o \in DOMAIN states' : SameAccount(o),
         nextActivation' = nextActivation,
         \A j \in DOMAIN dequeuedAt' : dequeuedAt'[j] <= clock'
  PROVE  Priced'
BY DEF Priced, SameAccount

\* Every step keeps service a natural number and the orders and times in the past.
LEMMA NextPriced == Shaped /\ Priced /\ [Next]_vars => Priced'
<1> SUFFICES ASSUME Shaped, Priced, [Next]_vars PROVE Priced'
  OBVIOUS
<1>1. clock \in Nat /\ \A j \in DOMAIN dequeuedAt : dequeuedAt[j] \in Nat /\ dequeuedAt[j] <= clock
  BY DEF Shaped, Priced
<1>2. ASSUME NEW j \in Jobs, Enqueue(j) PROVE Priced'
  <2>1. ASSUME NEW o \in DOMAIN states'
        PROVE  /\ o \in Keys
               /\ Service(states[o])' \in Nat
               /\ Activation(states[o])' \in Nat
               /\ Activation(states[o])' < nextActivation'
    <3>1. nextActivation' \in {nextActivation, nextActivation + 1} /\ nextActivation \in Nat
      BY <1>2 DEF Enqueue, Priced
    <3>2. CASE SameAccount(o)
      BY <3>1, <3>2 DEF SameAccount, Priced
    <3>3. CASE ~SameAccount(o)
      <4>1. /\ o = KeyOf[j] /\ Activation(states[o])' = nextActivation
            /\ nextActivation' = nextActivation + 1
            /\ Service(states[o])' = Baseline(Fresh(clock), clock)
        BY <1>2, <3>3, EnqueueAccounts
      <4> QED
        BY <3>1, <4>1, BaselineType DEF Keys
    <3> QED
      BY <3>2, <3>3
  <2>2. nextActivation' \in Nat /\ dequeuedAt' = dequeuedAt /\ clock' = clock
    BY <1>2 DEF Enqueue, Priced
  <2> QED
    BY <1>1, <2>1, <2>2 DEF Priced
<1>3. CASE PopNext
  <2>1. \A o \in DOMAIN states' : SameAccount(o)
    BY <1>3, PopAccounts
  <2>2. PICK j : dequeuedAt' = With(dequeuedAt, j, clock)
    BY <1>3 DEF PopNext
  <2>3. \A i \in DOMAIN dequeuedAt' : dequeuedAt'[i] <= clock
    BY <1>1, <2>2 DEF With
  <2>4. clock' = clock /\ nextActivation' = nextActivation
    BY <1>3 DEF PopNext
  <2> QED
    BY <2>1, <2>3, <2>4, SameAccountsPriced
<1>4. ASSUME NEW j \in Jobs, Withdraw(j) PROVE Priced'
  <2>1. \A o \in DOMAIN states' : SameAccount(o)
    BY <1>4, WithdrawAccounts
  <2>2. clock' = clock /\ nextActivation' = nextActivation /\ dequeuedAt' = dequeuedAt
    BY <1>4 DEF Withdraw
  <2> QED
    BY <1>1, <2>1, <2>2, SameAccountsPriced
<1>5. ASSUME NEW j \in Jobs, NEW begin \in 0..clock, NEW end \in 0..clock,
             Complete(j, begin, end) \/ Abandon(j, end)
      PROVE  Priced'
  <2>1. clock' = clock /\ nextActivation' = nextActivation
    BY <1>5 DEF Complete, Abandon
  <2>2. \A i \in DOMAIN dequeuedAt' : dequeuedAt'[i] <= clock
    <3>1. dequeuedAt' = Restrict(dequeuedAt, DOMAIN dequeuedAt \ {j})
      BY <1>5 DEF Complete, Abandon
    <3> QED
      BY <1>1, <3>1 DEF Restrict
  <2>3. ASSUME NEW o \in DOMAIN states'
        PROVE  /\ o \in Keys
               /\ Service(states[o])' \in Nat
               /\ Activation(states[o])' \in Nat
               /\ Activation(states[o])' < nextActivation
    <3>1. CASE SameAccount(o)
      BY <3>1 DEF SameAccount, Priced
    <3>2. CASE ~SameAccount(o)
      <4>1. /\ o \in DOMAIN states /\ Complete(j, begin, end)
            /\ Service(states[o])' = Service(states[o]) + Rate[o] * (end - begin)
            /\ Activation(states[o])' = Activation(states[o])
        BY <1>5, <3>2, SettlingAccounts
      <4>2. end - begin \in Nat /\ Rate[o] \in Nat
        BY <4>1, RateType DEF Complete, Priced
      <4>3. Rate[o] * (end - begin) \in Nat
        BY <4>2, ProductType
      <4> QED
        BY <4>1, <4>3 DEF Priced
    <3> QED
      BY <3>1, <3>2
  <2> QED
    BY <2>1, <2>2, <2>3 DEF Priced
<1>6. CASE Drain \/ Observe \/ Tick \/ (\E j \in Jobs : Refuse(j)) \/ UNCHANGED vars
  <2>1. \A o \in DOMAIN states' : SameAccount(o)
    BY <1>6, QuietAccounts
  <2>2. /\ clock' \in {clock, clock + 1} /\ nextActivation' = nextActivation
        /\ dequeuedAt' = dequeuedAt
    BY <1>6 DEF Drain, Observe, Tick, Refuse, vars
  <2>3. \A i \in DOMAIN dequeuedAt' : dequeuedAt'[i] <= clock'
    BY <1>1, <2>2
  <2> QED
    BY <2>1, <2>2, <2>3, SameAccountsPriced
<1> QED
  BY <1>2, <1>3, <1>4, <1>5, <1>6 DEF Next

\* PricedInv holds initially and every step keeps it.
LEMMA PricedInvariance == Spec => []PricedInv
<1>1. Init => PricedInv
  BY InitQueueInv, InitPriced DEF PricedInv
<1>2. PricedInv /\ [Next]_vars => PricedInv'
  BY NextShaped, NextInOrder, NextTracked, NextCounted, NextPriced
     DEF PricedInv, QueueInv
<1> QED
  BY <1>1, <1>2, PTL DEF Spec

----------------------------------------------------------------------------
\* Settling a job

\* Weighted sums, and their order.
LEMMA TimesSum == \A r, a, b \in Int : r * (a + b) = r * a + r * b
OBVIOUS

\* A larger sum has the larger weighted sum.
LEMMA TimesMonotone == ASSUME NEW r \in Nat, NEW a \in Nat, NEW b \in Nat, a <= b
                       PROVE  r * a <= r * b
<1>1. b = a + (b - a) /\ b - a \in Nat
  OBVIOUS
<1>2. r * b = r * a + r * (b - a)
  BY <1>1, TimesSum
<1>3. r * (b - a) \in Nat /\ r * a \in Nat
  BY <1>1, ProductType
<1> QED
  BY <1>2, <1>3

\* A job that was popped and not settled is an active entry of its key.
LEMMA SettledIsActive ==
  ASSUME QueueInv, NEW j \in DOMAIN dequeuedAt
  PROVE  /\ j \in Jobs /\ KeyOf[j] \in DOMAIN states
         /\ j \in Running(KeyOf[j])
         /\ j \in DOMAIN Entries(states[KeyOf[j]])
         /\ Entries(states[KeyOf[j]])[j] = dequeuedAt[j]
<1>1. j \in Active /\ states[KeyOf[j]].started[j] = dequeuedAt[j]
  BY DEF QueueInv, ActiveKept
<1>2. Active = {i \in Jobs : i \in Running(KeyOf[i])}
  BY WorkSets DEF QueueInv
<1> QED
  BY <1>1, <1>2 DEF Running, Entries

\* complete and abandon leave the other active entries of the key as they were.
LEMMA SettledEntries ==
  ASSUME QueueInv, NEW j \in Jobs, NEW begin, NEW end \in 0..clock,
         Complete(j, begin, end) \/ Abandon(j, end)
  PROVE  /\ KeyOf[j] \in DOMAIN states'
         /\ Entries(states'[KeyOf[j]]) =
              Restrict(Entries(states[KeyOf[j]]), DOMAIN Entries(states[KeyOf[j]]) \ {j})
<1> DEFINE k == KeyOf[j]
           e == Entries(states[k])
           n == Entries(states'[k])
<1>1. j \in DOMAIN dequeuedAt
  BY DEF Complete, Abandon
<1>2. k \in DOMAIN states /\ k \in DOMAIN states'
  BY <1>1, SettledIsActive DEF Complete, Abandon
<1>3. /\ Shaped' /\ Running(k)' = Running(k) \ {j}
      /\ \A i \in Running(k)' : StartOf(k, i)' = StartOf(k, i)
  BY SettlingWork DEF QueueInv, KeySettled
<1>4. /\ DOMAIN n = DOMAIN e \ {j}
      /\ \A i \in DOMAIN n : n[i] = e[i]
      /\ n = [x \in DOMAIN n |-> n[x]]
  BY <1>2, <1>3 DEF Running, StartOf, Shaped, StatesShaped, Built, IsMap
<1> HIDE DEF e, n
<1>5. n = Restrict(e, DOMAIN e \ {j})
  BY <1>4 DEF Restrict
<1> QED
  BY <1>2, <1>5 DEF e, n

\* A job is charged for no longer than since its pop.
LEMMA SettledCharge ==
  ASSUME PricedInv, NEW j \in Jobs, NEW begin \in 0..clock, NEW end \in 0..clock,
         Complete(j, begin, end) \/ Abandon(j, end)
  PROVE  \E d \in Nat :
           /\ d <= clock - dequeuedAt[j]
           /\ Service(states'[KeyOf[j]]) = Service(states[KeyOf[j]]) + Rate[KeyOf[j]] * d
<1> DEFINE k == KeyOf[j]
           ran == clock - dequeuedAt[j]
<1> USE DEF PricedInv, QueueInv
<1>1. j \in DOMAIN dequeuedAt
  BY DEF Complete, Abandon
<1>2. k \in DOMAIN states /\ k \in DOMAIN states'
  BY <1>1, SettledIsActive, SettledEntries
<1>3. clock \in Nat /\ dequeuedAt[j] \in Nat /\ dequeuedAt[j] <= clock
  BY <1>1 DEF Shaped, Priced
<1>4. Rate[k] \in Nat /\ Service(states[k]) \in Nat
  BY <1>2, RateType DEF Priced
<1>5. CASE SameAccount(k)
  <2>1. Rate[k] * 0 = 0
    BY <1>4
  <2>2. Service(states'[k]) = Service(states[k]) + Rate[k] * 0
    BY <1>4, <1>5, <2>1 DEF SameAccount
  <2> QED
    BY <1>3, <2>2
<1>6. CASE ~SameAccount(k)
  <2>1. /\ Complete(j, begin, end)
        /\ Service(states[k])' = Service(states[k]) + Rate[k] * (end - begin)
    BY <1>2, <1>6, SettlingAccounts
  <2>2. end - begin \in Nat /\ end - begin <= ran
    BY <1>3, <2>1 DEF Complete
  <2> QED
    BY <2>1, <2>2
<1> QED
  BY <1>5, <1>6

\* The charge of a job is no more than its part of the running estimate.
LEMMA SettledScore ==
  ASSUME PricedInv, NEW j \in Jobs, NEW begin \in 0..clock, NEW end \in 0..clock,
         Complete(j, begin, end) \/ Abandon(j, end)
  PROVE  Score(KeyOf[j], states'[KeyOf[j]], clock) <= Score(KeyOf[j], states[KeyOf[j]], clock)
<1> DEFINE k == KeyOf[j]
           e == Entries(states[k])
           before == Elapsed(states[k], clock)
           after == Elapsed(states'[k], clock)
           ran == clock - dequeuedAt[j]
<1> USE DEF PricedInv, QueueInv
<1>1. j \in DOMAIN dequeuedAt
  BY DEF Complete, Abandon
<1>2. k \in DOMAIN states /\ j \in DOMAIN e /\ e[j] = dequeuedAt[j]
  BY <1>1, SettledIsActive
<1>3. clock \in Nat /\ dequeuedAt[j] \in Nat /\ dequeuedAt[j] <= clock
  BY <1>1 DEF Shaped, Priced
<1>4. IsFiniteSet(DOMAIN e)
  BY <1>2, EntriesAreFinite
<1>5. k \in DOMAIN states' /\ Entries(states'[k]) = Restrict(e, DOMAIN e \ {j})
  BY SettledEntries
<1> HIDE DEF e
<1>6. Cardinality(Ticks(e, clock)) =
        Cardinality(Ticks(Restrict(e, DOMAIN e \ {j}), clock)) + (clock - e[j])
  BY <1>2, <1>3, <1>4, TicksWithout
<1>7. before = after + ran
  BY <1>2, <1>5, <1>6, ElapsedIs DEF e
<1>8. before \in Nat /\ Rate[k] \in Nat /\ Service(states[k]) \in Nat /\ ran \in Nat
  BY <1>2, <1>3, ScoreType, RateType DEF Priced
<1>9. after \in Nat
  <2>1. DOMAIN Restrict(e, DOMAIN e \ {j}) \in SUBSET DOMAIN e
    BY DEF Restrict
  <2>2. IsFiniteSet(DOMAIN Restrict(e, DOMAIN e \ {j}))
    BY <1>4, <2>1, FS_Subset
  <2>3. Cardinality(Ticks(Restrict(e, DOMAIN e \ {j}), clock)) \in Nat
    BY <1>3, <2>2, TicksAreFinite
  <2> QED
    BY <1>5, <2>3, ElapsedIs
<1>10. PICK d \in Nat : d <= ran /\ Service(states'[k]) = Service(states[k]) + Rate[k] * d
  BY SettledCharge
<1>11. /\ Score(k, states[k], clock) = Service(states[k]) + Rate[k] * before
       /\ Score(k, states'[k], clock) = Service(states'[k]) + Rate[k] * after
  BY DEF Score, Service
<1> HIDE DEF before, after, ran
<1>12. /\ Rate[k] * (d + after) <= Rate[k] * before
       /\ Rate[k] * (d + after) = Rate[k] * d + Rate[k] * after
       /\ Rate[k] * d \in Nat /\ Rate[k] * after \in Nat /\ Rate[k] * before \in Nat
  <2>1. d + after \in Nat /\ d + after <= before
    BY <1>7, <1>8, <1>9, <1>10
  <2>2. Rate[k] * (d + after) <= Rate[k] * before
    BY <1>8, <2>1, TimesMonotone
  <2>3. Rate[k] * (d + after) = Rate[k] * d + Rate[k] * after
    BY <1>8, <1>9, TimesSum
  <2>4. Rate[k] * d \in Nat /\ Rate[k] * after \in Nat /\ Rate[k] * before \in Nat
    BY <1>8, <1>9, ProductType
  <2> QED
    BY <2>2, <2>3, <2>4
<1> QED
  BY <1>8, <1>10, <1>11, <1>12

\* For any weights and any times a stopwatch can show, settling a job never makes its
\* key look more expensive than the running estimate did.
THEOREM SettlingIsNoSurcharge == Spec => SettlingNeverRaisesScore
<1>1. PricedInv /\ [Next]_vars =>
        \A j \in DOMAIN dequeuedAt \ DOMAIN dequeuedAt' :
          LET k == KeyOf[j]
          IN  Score(k, states[k], clock)' <= Score(k, states[k], clock)
  <2> SUFFICES ASSUME PricedInv, [Next]_vars,
                      NEW j \in DOMAIN dequeuedAt, j \notin DOMAIN dequeuedAt'
               PROVE  Score(KeyOf[j], states'[KeyOf[j]], clock')
                        <= Score(KeyOf[j], states[KeyOf[j]], clock)
    BY DEF Score, Elapsed, Held
  <2>1. PICK i \in Jobs, begin \in 0..clock, end \in 0..clock :
          Complete(i, begin, end) \/ Abandon(i, end)
    <3>1. CASE PopNext
      BY <3>1 DEF PopNext, With
    <3>2. ASSUME NEW i \in Jobs, Refuse(i) \/ Enqueue(i) \/ Withdraw(i) PROVE FALSE
      BY <3>2 DEF Refuse, Enqueue, Withdraw
    <3>3. CASE Drain \/ Observe \/ Tick \/ UNCHANGED vars
      BY <3>3 DEF Drain, Observe, Tick, vars
    <3> QED
      BY <3>1, <3>2, <3>3 DEF Next
  <2>2. dequeuedAt' = Restrict(dequeuedAt, DOMAIN dequeuedAt \ {i}) /\ clock' = clock
    BY <2>1 DEF Complete, Abandon
  <2>3. j = i
    BY <2>2 DEF Restrict
  <2> QED
    BY <2>1, <2>2, <2>3, SettledScore
<1> QED
  BY <1>1, PricedInvariance, PTL DEF Spec, SettlingNeverRaisesScore

----------------------------------------------------------------------------
\* The load of the executor

\* Every step of the loaded queue is a step of the queue.
LEMMA ShareStep == [ShareNext]_shareVars => [Next]_vars
BY DEF ShareNext, PopIntoSlot, Next, shareVars

\* The jobs that hold a slot are finitely many.
LEMMA HoldersAreFinite ==
  ASSUME Shaped
  PROVE  IsFiniteSet(DOMAIN dequeuedAt) /\ Cardinality(DOMAIN dequeuedAt) \in Nat
<1>1. DOMAIN dequeuedAt \in SUBSET Jobs
  BY DEF Shaped
<1> QED
  BY <1>1, FS_Subset, FS_CardinalityType, QueueAssumption

\* The active jobs of one key are some of those that hold a slot.
LEMMA RunningHold ==
  ASSUME QueueInv, NEW k
  PROVE  /\ Running(k) \subseteq DOMAIN dequeuedAt
         /\ IsFiniteSet(Running(k))
         /\ Cardinality(Running(k)) \in Nat
         /\ Cardinality(Running(k)) <= Cardinality(DOMAIN dequeuedAt)
<1>1. Running(k) \subseteq DOMAIN dequeuedAt
  <2>1. Active = {i \in Jobs : i \in Running(KeyOf[i])} /\ Active = DOMAIN dequeuedAt
    BY WorkSets DEF QueueInv, ActiveKept
  <2>2. Running(k) \subseteq OfKey(k)
    BY BucketType DEF QueueInv
  <2> QED
    BY <2>1, <2>2 DEF OfKey
<1>2. Running(k) \in SUBSET DOMAIN dequeuedAt
  BY <1>1
<1> QED
  BY <1>2, HoldersAreFinite, FS_Subset, FS_CardinalityType DEF QueueInv

\* No more jobs run than there are slots, and none for longer than MaxCall.
LEMMA NextLoaded ==
  ASSUME Shaped, Loaded, ShareNext
  PROVE  Loaded'
<1> USE ShareAssumption
<1>1. /\ clock \in Nat /\ \A j \in DOMAIN dequeuedAt : dequeuedAt[j] \in Nat
      /\ IsFiniteSet(DOMAIN dequeuedAt) /\ Cardinality(DOMAIN dequeuedAt) \in Nat
  BY HoldersAreFinite DEF Shaped
<1>2. CASE PopIntoSlot
  <2>1. PICK j : dequeuedAt' = With(dequeuedAt, j, clock) /\ clock' = clock
    BY <1>2 DEF PopIntoSlot, PopNext
  <2>2. /\ DOMAIN dequeuedAt' = DOMAIN dequeuedAt \cup {j}
        /\ \A i \in DOMAIN dequeuedAt' : dequeuedAt'[i] = IF i = j THEN clock ELSE dequeuedAt[i]
    BY <2>1 DEF With
  <2>3. Cardinality(DOMAIN dequeuedAt \cup {j}) <= Cardinality(DOMAIN dequeuedAt) + 1
    BY <1>1, FS_AddElement
  <2>4. Cardinality(DOMAIN dequeuedAt \cup {j}) \in Nat
    BY <1>1, FS_AddElement
  <2>5. Cardinality(DOMAIN dequeuedAt) < Slots
    BY <1>2 DEF PopIntoSlot
  <2>6. Cardinality(DOMAIN dequeuedAt)' <= Slots
    BY <1>1, <2>2, <2>3, <2>4, <2>5
  <2>7. \A i \in DOMAIN dequeuedAt' : clock' - dequeuedAt'[i] <= MaxCall
    BY <1>1, <2>1, <2>2 DEF Loaded
  <2> QED
    BY <2>6, <2>7 DEF Loaded
<1>3. ASSUME NEW j, NEW begin, NEW end, Complete(j, begin, end) \/ Abandon(j, end)
      PROVE  Loaded'
  <2>1. dequeuedAt' = Restrict(dequeuedAt, DOMAIN dequeuedAt \ {j}) /\ clock' = clock
    BY <1>3 DEF Complete, Abandon
  <2>2. /\ DOMAIN dequeuedAt' \in SUBSET DOMAIN dequeuedAt
        /\ \A i \in DOMAIN dequeuedAt' : dequeuedAt'[i] = dequeuedAt[i]
    BY <2>1 DEF Restrict
  <2>3. /\ Cardinality(DOMAIN dequeuedAt') <= Cardinality(DOMAIN dequeuedAt)
        /\ Cardinality(DOMAIN dequeuedAt') \in Nat
    BY <1>1, <2>2, FS_Subset, FS_CardinalityType
  <2>4. Cardinality(DOMAIN dequeuedAt)' <= Slots
    BY <1>1, <2>3 DEF Loaded
  <2>5. \A i \in DOMAIN dequeuedAt' : clock' - dequeuedAt'[i] <= MaxCall
    BY <2>1, <2>2 DEF Loaded
  <2> QED
    BY <2>4, <2>5 DEF Loaded
<1>4. ASSUME NEW j, Refuse(j) \/ Enqueue(j) \/ Withdraw(j) PROVE Loaded'
  BY <1>4 DEF Refuse, Enqueue, Withdraw, Loaded
<1>5. CASE CallsInTime /\ Tick
  BY <1>1, <1>5 DEF CallsInTime, Tick, Loaded
<1>6. CASE Drain \/ Observe
  BY <1>6 DEF Drain, Observe, Loaded
<1> QED
  BY <1>2, <1>3, <1>4, <1>5, <1>6 DEF ShareNext

----------------------------------------------------------------------------
\* Scores and potentials

\* The fields of a rank are compared in turn: the key that precedes has no larger score.
LEMMA PrecedesIsNoDearer ==
  ASSUME NEW a, NEW b, NEW s, NEW r, NEW now, Score(a, s, now) \in Int, Score(b, r, now) \in Int,
         Precedes(Rank(a, s, now), Rank(b, r, now))
  PROVE  Score(a, s, now) <= Score(b, r, now)
<1> DEFINE p == Rank(a, s, now)
           q == Rank(b, r, now)
<1>1. p[1] = Score(a, s, now) /\ q[1] = Score(b, r, now)
  BY DEF Rank
<1> HIDE DEF p, q
<1>2. PICK i \in 1..4 : p[i] < q[i] /\ \A m \in 1..(i - 1) : p[m] = q[m]
  BY DEF Precedes, p, q
<1>3. CASE i = 1
  BY <1>1, <1>2, <1>3
<1>4. CASE i # 1
  <2>1. 1 \in 1..(i - 1)
    BY <1>4
  <2>2. p[1] = q[1]
    BY <1>2, <2>1
  <2> QED
    BY <1>1, <2>2
<1> QED
  BY <1>3, <1>4

\* An estimate is at most MaxCall for each active job of the key.
LEMMA EstimateBound ==
  ASSUME PricedInv, Loaded, NEW k \in DOMAIN states
  PROVE  /\ Rate[k] * Elapsed(states[k], clock) <= Rate[k] * (MaxCall * Cardinality(Running(k)))
         /\ Rate[k] * (MaxCall * Cardinality(Running(k))) \in Nat
<1> DEFINE e == Entries(states[k])
<1> USE DEF PricedInv, QueueInv
<1>1. DOMAIN e = Running(k)
  BY DEF Running
<1>2. \A j \in DOMAIN e : e[j] \in Nat /\ clock - e[j] <= MaxCall
  <2> SUFFICES ASSUME NEW j \in DOMAIN e PROVE e[j] \in Nat /\ clock - e[j] <= MaxCall
    OBVIOUS
  <2>1. j \in DOMAIN dequeuedAt
    BY <1>1, RunningHold
  <2>2. j \in OfKey(k)
    BY <1>1, BucketType
  <2>3. e[j] = dequeuedAt[j]
    BY <2>1, <2>2, SettledIsActive DEF OfKey
  <2> QED
    BY <2>1, <2>3 DEF Shaped, Loaded
<1>3. IsFiniteSet(DOMAIN e) /\ clock \in Nat /\ MaxCall \in Nat
  BY EntriesAreFinite, ShareAssumption DEF Shaped
<1> HIDE DEF e
<1>4. Cardinality(Ticks(e, clock)) <= MaxCall * Cardinality(DOMAIN e)
  BY <1>2, <1>3, TicksBound
<1>5. Cardinality(Running(k)) \in Nat /\ MaxCall * Cardinality(Running(k)) \in Nat
  BY <1>3, RunningHold, ProductType
<1>6. Elapsed(states[k], clock) <= MaxCall * Cardinality(Running(k))
  BY <1>1, <1>4, ElapsedIs DEF e
<1>7. Elapsed(states[k], clock) \in Nat /\ Rate[k] \in Nat
  BY ScoreType, RateType DEF Priced
<1> QED
  BY <1>5, <1>6, <1>7, TimesMonotone, ProductType

----------------------------------------------------------------------------
\* What a pop and a settlement do to the lead of a key

\* pop_next serves a key whose score is not above that of any other key with work
\* waiting.
LEMMA PopOrder ==
  ASSUME PricedInv, PopNext
  PROVE  \E j \in Jobs :
           /\ dequeuedAt' = With(dequeuedAt, j, clock)
           /\ j \notin DOMAIN dequeuedAt
           /\ KeyOf[j] \in DOMAIN states
           /\ Running(KeyOf[j])' = Running(KeyOf[j]) \cup {j}
           /\ \A o : o # KeyOf[j] => SameWork(o)
           /\ \A o \in Waiting \ {KeyOf[j]} :
                Score(KeyOf[j], states[KeyOf[j]], clock) <= Score(o, states[o], clock)
<1> USE DEF PricedInv, QueueInv
<1> DEFINE live == Fresh(clock)
<1>1. PICK k \in DOMAIN live :
        /\ Selected(live, clock, k)
        /\ dequeuedAt' = With(dequeuedAt, Head(live[k].fifo), clock)
  BY DEF PopNext
<1>2. Live(live)
  BY FreshIsLive DEF Shaped
<1>3. PICK j \in Jobs :
        /\ \A o : o # KeyOf[j] => SameWork(o)
        /\ Bucket(KeyOf[j]) # <<>> /\ j = Head(Bucket(KeyOf[j]))
        /\ Running(KeyOf[j])' = Running(KeyOf[j]) \cup {j}
        /\ dequeuedAt' = With(dequeuedAt, j, clock)
  BY PopNextWork
<1> DEFINE h == Head(live[k].fifo)
<1> HIDE DEF live
<1>4. k \in DOMAIN states /\ live[k] = states[k] /\ live[k].fifo = Bucket(k)
  BY <1>2 DEF Live, Bucket, Fifo
<1>5. ASSUME NEW f, Bucket(f) # <<>>
      PROVE  /\ Head(Bucket(f)) \in Queued /\ KeyOf[Head(Bucket(f))] = f
             /\ Head(Bucket(f)) \notin DOMAIN dequeuedAt
  <2> DEFINE b == Bucket(f)
  <2>1. /\ b \in Seq(OfKey(f)) /\ Len(b) \in Nat
        /\ \A i \in 1..Len(b) : b[i] \in Jobs /\ KeyOf[b[i]] = f
    BY BucketType
  <2>2. Queued = {i \in Jobs : i \in Elements(Bucket(KeyOf[i]))}
    BY WorkSets
  <2>3. Queued \cap Active = {} /\ Active = DOMAIN dequeuedAt
    BY DEF Apart, ActiveKept
  <2> HIDE DEF b
  <2>4. Len(b) # 0 /\ Head(b) = b[1]
    BY <1>5, <2>1, HeadTailProperties, EmptySeq DEF b
  <2>5. 1 \in 1..Len(b)
    BY <2>1, <2>4
  <2>6. b[1] \in Elements(b) /\ b[1] \in Jobs /\ KeyOf[b[1]] = f
    BY <2>1, <2>5 DEF Elements
  <2> QED
    BY <2>2, <2>3, <2>4, <2>6 DEF b
<1>6. Bucket(k) # <<>> /\ h = Head(Bucket(k))
  BY <1>1, <1>4 DEF Selected
<1>7. h \notin DOMAIN dequeuedAt /\ j \notin DOMAIN dequeuedAt /\ KeyOf[h] = k
  BY <1>3, <1>5, <1>6
<1>8. h = j
  BY <1>1, <1>3, <1>7 DEF With
<1>9. ASSUME NEW o \in Waiting, o # k
      PROVE  Score(k, states[k], clock) <= Score(o, states[o], clock)
  <2>1. o \in DOMAIN states /\ states[o].fifo # <<>> /\ Busy(states[o])
    BY <1>9 DEF Waiting, Busy
  <2>2. o \in DOMAIN live /\ live[o] = states[o]
    BY <1>2, <2>1 DEF Live
  <2>3. Precedes(Rank(k, live[k], clock), Rank(o, live[o], clock))
    BY <1>1, <1>9, <2>1, <2>2 DEF Selected
  <2>4. Score(k, states[k], clock) \in Int /\ Score(o, states[o], clock) \in Int
    BY <1>4, <2>1, ScoreType
  <2> QED
    BY <1>4, <2>2, <2>3, <2>4, PrecedesIsNoDearer
<1> QED
  BY <1>3, <1>4, <1>7, <1>8, <1>9

\* A lead that shrinks, over a key that does not get cheaper, stays bounded.
LEMMA LeadShrinks ==
  ASSUME NEW p, Behind(p), p[1] \in DOMAIN states', p[2] \in Waiting',
         Potential(p[1])' <= Potential(p[1]),
         Service(states[p[2]]) <= Service(states[p[2]])',
         Potential(p[1]) \in Int, Potential(p[1])' \in Int,
         Service(states[p[2]]) \in Int, Service(states[p[2]])' \in Int,
         Owed(p[1], p[2]) \in Int
  PROVE  Behind(p)'
<1>1. Owed(p[1], p[2])' = Owed(p[1], p[2])
  BY DEF Owed
<1>2. Potential(p[1])' <= Service(states[p[2]])' + Owed(p[1], p[2])
  BY DEF Behind
<1> QED
  BY <1>1, <1>2 DEF Behind

\* Potentials, debts and services are integers.
LEMMA LeadTypes ==
  PricedInv => /\ \A k \in DOMAIN states : Service(states[k]) \in Nat /\ Potential(k) \in Nat
               /\ \A k, o \in Keys : Owed(k, o) \in Nat
<1> SUFFICES ASSUME PricedInv
             PROVE  /\ \A k \in DOMAIN states : Service(states[k]) \in Nat /\ Potential(k) \in Nat
                    /\ \A k, o \in Keys : Owed(k, o) \in Nat
  OBVIOUS
<1> USE DEF PricedInv
<1>1. ASSUME NEW k \in DOMAIN states
      PROVE  Service(states[k]) \in Nat /\ Potential(k) \in Nat
  <2>1. Cardinality(Running(k)) \in Nat /\ MaxCall \in Nat /\ Rate[k] \in Nat
    BY RunningHold, RateType, ShareAssumption DEF Priced
  <2>2. Rate[k] * (MaxCall * Cardinality(Running(k))) \in Nat
    BY <2>1, ProductType
  <2> QED
    BY <2>2 DEF Priced, Potential
<1>2. ASSUME NEW k \in Keys, NEW o \in Keys PROVE Owed(k, o) \in Nat
  <2>1. /\ Rate[k] \in Nat /\ Rate[o] \in Nat
        /\ MaxCall \in Nat /\ Slots \in Nat /\ Slots - 1 \in Nat
    BY RateType, ShareAssumption
  <2>2. MaxCall * Slots \in Nat /\ MaxCall * (Slots - 1) \in Nat
    BY <2>1, ProductType
  <2>3. Rate[k] * (MaxCall * Slots) \in Nat /\ Rate[o] * (MaxCall * (Slots - 1)) \in Nat
    BY <2>1, <2>2, ProductType
  <2> QED
    BY <2>3 DEF Owed
<1> QED
  BY <1>1, <1>2

\* A key whose account and active jobs stay has the same potential.
LEMMA SamePotential ==
  ASSUME NEW k, SameAccount(k), Running(k)' = Running(k)
  PROVE  Potential(k)' = Potential(k)
BY DEF SameAccount, Potential

\* A settlement turns at most MaxCall of potential into service.
LEMMA SettledPotential ==
  ASSUME PricedInv, Loaded, NEW j \in Jobs, NEW begin \in 0..clock, NEW end \in 0..clock,
         Complete(j, begin, end) \/ Abandon(j, end)
  PROVE  Potential(KeyOf[j])' <= Potential(KeyOf[j])
<1> DEFINE k == KeyOf[j]
           n == Cardinality(Running(k))
<1> USE DEF PricedInv, QueueInv
<1>1. j \in DOMAIN dequeuedAt
  BY DEF Complete, Abandon
<1>2. k \in DOMAIN states /\ j \in Running(k)
  BY <1>1, SettledIsActive
<1>3. PICK d \in Nat :
        /\ d <= clock - dequeuedAt[j]
        /\ Service(states'[k]) = Service(states[k]) + Rate[k] * d
  BY SettledCharge
<1>4. d <= MaxCall /\ MaxCall \in Nat /\ Rate[k] \in Nat /\ Service(states[k]) \in Nat
  BY <1>1, <1>2, <1>3, RateType, ShareAssumption DEF Loaded, Shaped, Priced
<1>5. Running(k)' = Running(k) \ {j}
  BY SettlingWork DEF KeySettled
<1>6. IsFiniteSet(Running(k)) /\ n \in Nat
  BY RunningHold
<1>7. Cardinality(Running(k)') = n - 1 /\ n - 1 \in Nat
  <2>1. Cardinality(Running(k) \ {j}) = n - 1
    BY <1>2, <1>6, FS_RemoveElement
  <2>2. Cardinality(Running(k) \ {j}) \in Nat
    BY <1>6, FS_RemoveElement, FS_CardinalityType
  <2> QED
    BY <1>5, <2>1, <2>2
<1>8. Potential(k)' = Service(states'[k]) + Rate[k] * (MaxCall * Cardinality(Running(k)'))
  BY DEF Potential
<1> HIDE DEF n
<1>9. d + MaxCall * (n - 1) <= MaxCall * n
  <2>1. MaxCall * ((n - 1) + 1) = MaxCall * (n - 1) + MaxCall * 1
    BY <1>4, <1>7, TimesSum
  <2>2. (n - 1) + 1 = n /\ MaxCall * 1 = MaxCall
    BY <1>4, <1>6
  <2>3. MaxCall * (n - 1) \in Nat /\ MaxCall * n \in Nat
    BY <1>4, <1>6, <1>7, ProductType
  <2> QED
    BY <1>4, <2>1, <2>2, <2>3
<1>10. MaxCall * (n - 1) \in Nat /\ MaxCall * n \in Nat
  BY <1>4, <1>6, <1>7, ProductType
<1>11. Rate[k] * (d + MaxCall * (n - 1)) <= Rate[k] * (MaxCall * n)
  <2>1. d + MaxCall * (n - 1) \in Nat
    BY <1>10
  <2> QED
    BY <1>4, <1>9, <1>10, <2>1, TimesMonotone
<1>12. Rate[k] * (d + MaxCall * (n - 1)) = Rate[k] * d + Rate[k] * (MaxCall * (n - 1))
  <2>1. Rate[k] \in Int /\ d \in Int /\ MaxCall * (n - 1) \in Int
    BY <1>4, <1>10
  <2> QED
    BY <2>1, TimesSum, Zenon
<1>13. /\ Rate[k] * d \in Nat /\ Rate[k] * (MaxCall * (n - 1)) \in Nat
       /\ Rate[k] * (MaxCall * n) \in Nat
  BY <1>4, <1>10, ProductType
<1>14. Potential(k) = Service(states[k]) + Rate[k] * (MaxCall * n)
  BY DEF Potential, n
<1>15. Potential(k)' = Service(states[k]) + Rate[k] * d + Rate[k] * (MaxCall * (n - 1))
  BY <1>3, <1>7, <1>8
<1> QED
  BY <1>4, <1>11, <1>12, <1>13, <1>14, <1>15

\* A pop puts its key ahead of a waiting key by no more than the bound.
LEMMA PoppedPotential ==
  ASSUME PricedInv, Loaded, NEW k \in DOMAIN states, NEW j,
         Cardinality(DOMAIN dequeuedAt) < Slots,
         Running(k)' = Running(k) \cup {j}, Service(states[k])' = Service(states[k]),
         NEW o \in DOMAIN states,
         Score(k, states[k], clock) <= Score(o, states[o], clock)
  PROVE  Potential(k)' <= Service(states[o]) + Owed(k, o)
<1> DEFINE n == Cardinality(Running(k))
           m == Cardinality(Running(o))
           r == Cardinality(Running(k)')
<1> USE DEF PricedInv, QueueInv
<1>1. /\ IsFiniteSet(Running(k)) /\ n \in Nat /\ m \in Nat
      /\ Cardinality(DOMAIN dequeuedAt) \in Nat
      /\ n <= Cardinality(DOMAIN dequeuedAt) /\ m <= Cardinality(DOMAIN dequeuedAt)
  BY RunningHold, HoldersAreFinite
<1>2. r \in Nat /\ r <= n + 1
  <2>1. Cardinality(Running(k) \cup {j}) = IF j \in Running(k) THEN n ELSE n + 1
    BY <1>1, FS_AddElement
  <2>2. r = Cardinality(Running(k) \cup {j})
    OBVIOUS
  <2> HIDE DEF n, r
  <2> QED
    BY <1>1, <2>1, <2>2
<1>3. /\ Rate[k] \in Nat /\ Rate[o] \in Nat /\ MaxCall \in Nat /\ Slots \in Nat
      /\ Service(states[k]) \in Nat /\ Service(states[o]) \in Nat
  BY RateType, ShareAssumption DEF Priced
<1> HIDE DEF n, m, r
<1>4. r <= Slots /\ m <= Slots - 1 /\ Slots - 1 \in Nat
  BY <1>1, <1>2, <1>3
<1>5. Rate[k] * (MaxCall * r) <= Rate[k] * (MaxCall * Slots)
  <2>1. MaxCall * r <= MaxCall * Slots /\ MaxCall * r \in Nat /\ MaxCall * Slots \in Nat
    BY <1>2, <1>3, <1>4, TimesMonotone, ProductType
  <2> QED
    BY <1>3, <2>1, TimesMonotone
<1>6. Rate[o] * (MaxCall * m) <= Rate[o] * (MaxCall * (Slots - 1))
  <2>1. /\ MaxCall * m <= MaxCall * (Slots - 1)
        /\ MaxCall * m \in Nat /\ MaxCall * (Slots - 1) \in Nat
    BY <1>1, <1>3, <1>4, TimesMonotone, ProductType
  <2> QED
    BY <1>3, <2>1, TimesMonotone
<1>7. Rate[o] * Elapsed(states[o], clock) <= Rate[o] * (MaxCall * m)
  BY EstimateBound DEF m
<1>8. /\ Score(o, states[o], clock) = Service(states[o]) + Rate[o] * Elapsed(states[o], clock)
      /\ Score(k, states[k], clock) = Service(states[k]) + Rate[k] * Elapsed(states[k], clock)
      /\ Rate[o] * Elapsed(states[o], clock) \in Nat
      /\ Rate[k] * Elapsed(states[k], clock) \in Nat
  BY ScoreType
<1>9. Potential(k)' = Service(states[k]) + Rate[k] * (MaxCall * r)
  BY DEF Potential, r
<1>10. /\ Rate[k] * (MaxCall * r) \in Nat /\ Rate[k] * (MaxCall * Slots) \in Nat
       /\ Rate[o] * (MaxCall * m) \in Nat /\ Rate[o] * (MaxCall * (Slots - 1)) \in Nat
  BY <1>1, <1>2, <1>3, <1>4, ProductType
<1>11. Service(states[k]) <= Service(states[o]) + Rate[o] * (MaxCall * (Slots - 1))
  BY <1>3, <1>6, <1>7, <1>8, <1>10
<1> QED
  BY <1>3, <1>5, <1>9, <1>10, <1>11 DEF Owed

----------------------------------------------------------------------------
\* The lead of a served key is bounded

\* A pair stays in the record, or enters it, only while its second key waits and its
\* first one keeps its state.
LEMMA RecordIs ==
  ASSUME ShareNext, NEW p \in served'
  PROVE  /\ \/ p \in served
            \/ \E j \in Taken : p[1] = KeyOf[j] /\ p[2] \in Waiting
         /\ p[1] # p[2] /\ p[2] \in Waiting' /\ Kept(p[1])
BY DEF ShareNext, Record

\* Steps that pop nothing and settle nothing leave the leads as they are.
LEMMA QuietLead ==
  ASSUME PricedInv, Priced', NEW p, Behind(p), p[2] \in Waiting',
         SameAccount(p[1]), SameAccount(p[2]), Running(p[1])' = Running(p[1]),
         p[1] \in DOMAIN states'
  PROVE  Behind(p)'
<1>1. Potential(p[1])' = Potential(p[1]) /\ Service(states[p[2]])' = Service(states[p[2]])
  BY SamePotential DEF SameAccount
<1>2. /\ Potential(p[1]) \in Nat /\ Service(states[p[2]]) \in Nat
      /\ Owed(p[1], p[2]) \in Nat
  BY LeadTypes DEF SameAccount, PricedInv, Priced
<1> QED
  BY <1>1, <1>2, LeadShrinks

\* After a pop, the keys it did not serve lead as before, and the one it served leads a
\* waiting key by no more than the bound, since its score was the least.
LEMMA PopLead ==
  ASSUME ShareInv, PricedInv', ShareNext, PopIntoSlot, NEW p \in served'
  PROVE  Behind(p)'
<1> USE DEF ShareInv
<1>1. PopNext /\ Cardinality(DOMAIN dequeuedAt) < Slots
  BY DEF PopIntoSlot
<1>2. PICK j \in Jobs :
        /\ dequeuedAt' = With(dequeuedAt, j, clock)
        /\ j \notin DOMAIN dequeuedAt
        /\ KeyOf[j] \in DOMAIN states
        /\ Running(KeyOf[j])' = Running(KeyOf[j]) \cup {j}
        /\ \A o : o # KeyOf[j] => SameWork(o)
        /\ \A o \in Waiting \ {KeyOf[j]} :
             Score(KeyOf[j], states[KeyOf[j]], clock) <= Score(o, states[o], clock)
  BY <1>1, PopOrder
<1> DEFINE k == KeyOf[j]
<1>3. Taken = {j}
  BY <1>2 DEF Taken, With
<1>4. /\ p \in served \/ (p[1] = k /\ p[2] \in Waiting)
      /\ p[1] # p[2] /\ p[2] \in Waiting' /\ Kept(p[1])
  BY <1>3, RecordIs
<1>5. p[1] \in DOMAIN states' /\ p[2] \in DOMAIN states'
  BY <1>4 DEF Kept, Waiting
<1>6. SameAccount(p[1]) /\ SameAccount(p[2])
  BY <1>1, <1>5, PopAccounts DEF PricedInv, QueueInv
<1>7. CASE p[1] # k
  <2>1. p \in served /\ Behind(p)
    BY <1>4, <1>7
  <2>2. Running(p[1])' = Running(p[1])
    BY <1>2, <1>7 DEF SameWork
  <2> QED
    BY <1>4, <1>5, <1>6, <2>1, <2>2, QuietLead DEF PricedInv
<1>8. CASE p[1] = k
  <2>1. p[2] \in Waiting /\ p[2] # k
    BY <1>4, <1>8 DEF Behind
  <2>2. p[2] \in DOMAIN states /\ Score(k, states[k], clock) <= Score(p[2], states[p[2]], clock)
    BY <1>2, <2>1 DEF Waiting
  <2>3. Service(states[k])' = Service(states[k])
    BY <1>6, <1>8 DEF SameAccount
  <2> DEFINE o == p[2]
  <2> HIDE DEF k, o
  <2>4. k \in DOMAIN states /\ Running(k)' = Running(k) \cup {j}
    BY <1>2 DEF k
  <2>5. o \in DOMAIN states /\ Score(k, states[k], clock) <= Score(o, states[o], clock)
    BY <2>2 DEF o
  <2>6. Potential(k)' <= Service(states[o]) + Owed(k, o)
    BY <1>1, <2>3, <2>4, <2>5, PoppedPotential
  <2>7. Owed(k, o)' = Owed(k, o) /\ Service(states[o])' = Service(states[o])
    BY <1>6 DEF Owed, SameAccount, o
  <2>8. Potential(k)' <= Service(states[o])' + Owed(k, o)'
    BY <2>6, <2>7
  <2>9. p[1] = k /\ p[2] = o
    BY <1>8 DEF o
  <2> QED
    BY <1>4, <1>5, <2>8, <2>9 DEF Behind
<1> QED
  BY <1>7, <1>8

\* A settlement moves what a call has cost, if anything, from the potential of its key
\* to its service.
LEMMA SettledLead ==
  ASSUME ShareInv, PricedInv', ShareNext, NEW j \in Jobs,
         NEW begin \in 0..clock, NEW end \in 0..clock,
         Complete(j, begin, end) \/ Abandon(j, end),
         NEW p \in served'
  PROVE  Behind(p)'
<1> USE DEF ShareInv, PricedInv, QueueInv
<1>1. dequeuedAt' = Restrict(dequeuedAt, DOMAIN dequeuedAt \ {j})
  BY DEF Complete, Abandon
<1>2. Taken = {}
  BY <1>1 DEF Taken, Restrict
<1>3. /\ p \in served /\ Behind(p)
      /\ p[1] # p[2] /\ p[2] \in Waiting' /\ Kept(p[1])
  BY <1>2, RecordIs
<1>4. /\ p[1] \in DOMAIN states' /\ p[1] \in DOMAIN states
      /\ p[2] \in DOMAIN states' /\ p[2] \in DOMAIN states
  BY <1>3 DEF Kept, Waiting, Behind
<1>5. KeySettled(KeyOf[j], j)
  BY SettlingWork
<1>6. Potential(p[1])' <= Potential(p[1])
  <2>1. CASE p[1] = KeyOf[j]
    BY <2>1, SettledPotential
  <2>2. CASE p[1] # KeyOf[j]
    <3>1. SameAccount(p[1])
      BY <1>4, <2>2, SettlingAccounts
    <3>2. Running(p[1])' = Running(p[1])
      BY <1>5, <2>2 DEF KeySettled, SameWork
    <3>3. Potential(p[1]) \in Nat
      BY <1>4, LeadTypes
    <3> QED
      BY <3>1, <3>2, <3>3, SamePotential
  <2> QED
    BY <2>1, <2>2
<1>7. Service(states[p[2]]) <= Service(states[p[2]])'
  <2>1. Service(states[p[2]]) \in Nat /\ Rate[p[2]] \in Nat
    BY <1>4, RateType DEF Priced
  <2>2. CASE SameAccount(p[2])
    BY <2>1, <2>2 DEF SameAccount
  <2>3. CASE ~SameAccount(p[2])
    <3>1. /\ Complete(j, begin, end)
          /\ Service(states[p[2]])' = Service(states[p[2]]) + Rate[p[2]] * (end - begin)
      BY <1>4, <2>3, SettlingAccounts
    <3>2. end - begin \in Nat
      BY <3>1 DEF Complete
    <3>3. Rate[p[2]] * (end - begin) \in Nat
      BY <2>1, <3>2, ProductType
    <3> QED
      BY <2>1, <3>1, <3>3
  <2> QED
    BY <2>2, <2>3
<1>8. /\ Potential(p[1]) \in Nat /\ Service(states[p[2]]) \in Nat
      /\ Owed(p[1], p[2]) \in Nat
  BY <1>4, LeadTypes DEF Priced
<1>9. Potential(p[1])' \in Nat /\ Service(states[p[2]])' \in Nat
  <2>1. (\A k \in DOMAIN states : Service(states[k]) \in Nat /\ Potential(k) \in Nat)'
    <3>1. PricedInv'
      OBVIOUS
    <3> QED
      BY <3>1, LeadTypes, PTL
  <2> QED
    BY <1>4, <2>1
<1> QED
  BY <1>3, <1>4, <1>6, <1>7, <1>8, <1>9, LeadShrinks

\* After a drain nobody waits, so that nobody is behind.
LEMMA DrainedLead ==
  ASSUME ShareInv, ShareNext, Drain, NEW p \in served'
  PROVE  FALSE
<1>1. Bucket(p[2])' = <<>>
  BY DrainWork DEF ShareInv, PricedInv, QueueInv
<1>2. p[2] \in DOMAIN states' /\ states'[p[2]].fifo # <<>>
  BY RecordIs DEF Waiting
<1> QED
  BY <1>1, <1>2 DEF Bucket, Fifo

\* enqueue, remove, a reading, a refusal and the passing of time leave the leads of the
\* keys that keep their state: a key that comes back starts a new account, and is
\* forgotten as served.
LEMMA IdleLead ==
  ASSUME ShareInv, PricedInv', ShareNext,
         \/ Observe \/ Tick
         \/ \E j \in Jobs : Refuse(j) \/ Enqueue(j) \/ Withdraw(j),
         NEW p \in served'
  PROVE  Behind(p)'
<1> USE DEF ShareInv, PricedInv, QueueInv
<1>1. dequeuedAt' = dequeuedAt
  BY DEF Observe, Tick, Refuse, Enqueue, Withdraw
<1>2. Taken = {}
  BY <1>1 DEF Taken
<1>3. /\ p \in served /\ Behind(p)
      /\ p[1] # p[2] /\ p[2] \in Waiting' /\ Kept(p[1])
  BY <1>2, RecordIs
<1>4. /\ p[1] \in DOMAIN states' /\ p[1] \in DOMAIN states
      /\ Activation(states[p[1]])' = Activation(states[p[1]])
      /\ p[2] \in DOMAIN states' /\ p[2] \in DOMAIN states
      /\ Busy(states[p[2]])
  BY <1>3 DEF Kept, Waiting, Behind, Activation, Busy
<1>5. SameAccount(p[1]) /\ SameAccount(p[2]) /\ Running(p[1])' = Running(p[1])
  <2>1. CASE Observe \/ Tick \/ (\E j \in Jobs : Refuse(j))
    <3>1. SameAccount(p[1]) /\ SameAccount(p[2])
      BY <1>4, <2>1, QuietAccounts
    <3>2. Running(p[1])' = Running(p[1])
      BY <2>1, IdleWork DEF SameWork
    <3> QED
      BY <3>1, <3>2
  <2>2. ASSUME NEW j \in Jobs, Withdraw(j)
        PROVE  SameAccount(p[1]) /\ SameAccount(p[2]) /\ Running(p[1])' = Running(p[1])
    <3>1. SameAccount(p[1]) /\ SameAccount(p[2])
      BY <1>4, <2>2, WithdrawAccounts
    <3>2. Running(p[1])' = Running(p[1])
      BY <2>2, WithdrawWork DEF SameWork
    <3> QED
      BY <3>1, <3>2
  <2>3. ASSUME NEW j \in Jobs, Enqueue(j)
        PROVE  SameAccount(p[1]) /\ SameAccount(p[2]) /\ Running(p[1])' = Running(p[1])
    <3>1. SameAccount(p[1])
      <4>1. Activation(states[p[1]]) \in Nat /\ Activation(states[p[1]]) < nextActivation
        BY <1>4 DEF Priced
      <4>2. ~SameAccount(p[1]) => Activation(states[p[1]])' = nextActivation
        BY <1>4, <2>3, EnqueueAccounts
      <4> QED
        BY <1>4, <4>1, <4>2 DEF Priced
    <3>2. SameAccount(p[2])
      BY <1>4, <2>3, EnqueueAccounts
    <3>3. Running(p[1])' = Running(p[1])
      BY <2>3, EnqueueWork DEF SameWork
    <3> QED
      BY <3>1, <3>2, <3>3
  <2> QED
    BY <2>1, <2>2, <2>3
<1> QED
  BY <1>3, <1>4, <1>5, QuietLead

\* ShareInv holds initially and every step of the loaded queue keeps it.
THEOREM ShareInvariance == ShareSpec => []ShareInv
<1>1. ShareInit => ShareInv
  <2> SUFFICES ASSUME ShareInit PROVE ShareInv
    OBVIOUS
  <2>1. PricedInv /\ served = {} /\ DOMAIN dequeuedAt = {}
    BY InitQueueInv, InitPriced, EmptyMap DEF ShareInit, PricedInv, Init
  <2>2. Loaded
    BY <2>1, FS_EmptySet, ShareAssumption DEF Loaded
  <2> QED
    BY <2>1, <2>2 DEF ShareInv
<1>2. ShareInv /\ [ShareNext]_shareVars => ShareInv'
  <2> SUFFICES ASSUME ShareInv, [ShareNext]_shareVars PROVE ShareInv'
    OBVIOUS
  <2>1. PricedInv'
    BY ShareStep, NextShaped, NextInOrder, NextTracked, NextCounted, NextPriced
       DEF ShareInv, PricedInv, QueueInv
  <2>2. CASE UNCHANGED shareVars
    <3>1. Loaded'
      BY <2>2 DEF ShareInv, Loaded, shareVars, vars
    <3>2. \A p \in served' : Behind(p)'
      BY <2>2 DEF ShareInv, Behind, Waiting, Potential, Owed, Running, Service,
                  shareVars, vars
    <3> QED
      BY <2>1, <3>1, <3>2 DEF ShareInv
  <2>3. CASE ShareNext
    <3>1. Loaded'
      BY <2>3, NextLoaded DEF ShareInv, PricedInv, QueueInv
    <3>2. ASSUME NEW p \in served' PROVE Behind(p)'
      <4>1. CASE PopIntoSlot
        BY <2>1, <2>3, <4>1, PopLead
      <4>2. ASSUME NEW j \in Jobs, NEW begin \in 0..clock, NEW end \in 0..clock,
                   Complete(j, begin, end) \/ Abandon(j, end)
            PROVE  Behind(p)'
        BY <2>1, <2>3, <4>2, SettledLead
      <4>3. CASE Drain
        BY <2>3, <4>3, DrainedLead
      <4>4. CASE Observe \/ Tick \/ (\E j \in Jobs : Refuse(j) \/ Enqueue(j) \/ Withdraw(j))
        BY <2>1, <2>3, <4>4, IdleLead
      <4> QED
        BY <2>3, <4>1, <4>2, <4>3, <4>4 DEF ShareNext
    <3> QED
      BY <2>1, <3>1, <3>2 DEF ShareInv
  <2> QED
    BY <2>2, <2>3
<1> QED
  BY <1>1, <1>2, PTL DEF ShareSpec

\* The factors of a product can be taken in any order.
LEMMA ProductOrder == \A a, b, c \in Nat : a * b * c = a * (c * b)
OBVIOUS

\* For any number of keys, jobs and slots, any weights and any longest call, a key that
\* was served while another had work waiting is never ahead of it by more weighted
\* slot-time than was running when it was served.
THEOREM LeadIsBounded == ShareSpec => []LeadBounded
<1>1. ShareInv => LeadBounded
  <2> SUFFICES ASSUME ShareInv, NEW p \in served,
                      p[1] \in DOMAIN states, p[2] \in DOMAIN states
               PROVE  Score(p[1], states[p[1]], clock)
                        <= states[p[2]].service + Rate[p[1]] * Slots * MaxCall
                                                + Rate[p[2]] * (Slots - 1) * MaxCall
    BY DEF LeadBounded
  <2> DEFINE k == p[1]
             o == p[2]
  <2> USE DEF ShareInv, PricedInv, QueueInv
  <2>1. Potential(k) <= Service(states[o]) + Owed(k, o)
    BY DEF Behind
  <2>2. Score(k, states[k], clock) <= Potential(k)
    <3>1. /\ Score(k, states[k], clock) = Service(states[k]) + Rate[k] * Elapsed(states[k], clock)
          /\ Rate[k] * Elapsed(states[k], clock) \in Nat
          /\ Service(states[k]) \in Nat
      BY ScoreType DEF Priced
    <3>2. /\ Rate[k] * Elapsed(states[k], clock) <= Rate[k] * (MaxCall * Cardinality(Running(k)))
          /\ Rate[k] * (MaxCall * Cardinality(Running(k))) \in Nat
      BY EstimateBound
    <3> QED
      BY <3>1, <3>2 DEF Potential
  <2>3. /\ Rate[k] * Slots * MaxCall = Rate[k] * (MaxCall * Slots)
        /\ Rate[o] * (Slots - 1) * MaxCall = Rate[o] * (MaxCall * (Slots - 1))
    BY RateType, ShareAssumption, ProductOrder DEF Priced
  <2>4. /\ Score(k, states[k], clock) \in Nat /\ Potential(k) \in Nat
        /\ Service(states[o]) \in Nat /\ Owed(k, o) \in Nat
    BY ScoreType, LeadTypes DEF Priced
  <2>5. Score(k, states[k], clock) <= Service(states[o]) + Owed(k, o)
    BY <2>1, <2>2, <2>4
  <2>6. /\ Rate[k] * (MaxCall * Slots) \in Nat
        /\ Rate[o] * (MaxCall * (Slots - 1)) \in Nat
    <3>1. Slots \in Nat /\ Slots - 1 \in Nat /\ MaxCall \in Nat /\ Rate[k] \in Nat /\ Rate[o] \in Nat
      BY RateType, ShareAssumption DEF Priced
    <3> QED
      BY <3>1, ProductType
  <2> QED
    BY <2>3, <2>4, <2>5, <2>6 DEF Owed, Service
<1> QED
  BY <1>1, ShareInvariance, PTL

\* Under the load of its executor the queue is still the pool.
THEOREM SharedQueueIsAPool == ShareSpec => ImplementsPool
<1>1. ShareInit => Init
  BY DEF ShareInit
<1>2. ShareSpec => Spec
  BY <1>1, ShareStep, PTL DEF ShareSpec, Spec
<1> QED
  BY <1>2, QueueIsAPool

============================================================================
