-------------------------- MODULE FairQueueProofs --------------------------
(***************************************************************************)
(* Facts about the states and steps of FairQueue, for any number of jobs   *)
(* and keys, any weights and limits, and any grace period.                 *)
(*                                                                         *)
(* QueueInv, the inductive invariant, says                                 *)
(*   Shaped        what the state of a key is made of, and that a key is   *)
(*                 idle exactly when nothing of it waits or runs, so that  *)
(*                 the expiry can only meet keys without work;             *)
(*   InOrder       that a bucket is sorted by job id, so that no job       *)
(*                 stands in it twice;                                     *)
(*   ActiveKept    that the active entries are the jobs popped and not     *)
(*                 settled, with their pop times;                          *)
(*   Apart         that none of these waits, and all have been admitted;   *)
(*   Counted       that the counter is the number of waiting jobs.         *)
(***************************************************************************)
EXTENDS FairQueue, TLAPS, FiniteSetTheorems, FunctionTheorems, SequenceTheorems

Fields == {"fifo", "service", "started", "activation", "lastPick", "idle"}

OfKey(k) == {j \in Jobs : KeyOf[j] = k}

\* f is a function with domain S, whatever its values.
IsMap(f, S) == f = [x \in S |-> f[x]]

\* The parts of a state, named so that a fact about one stands alone.
Fifo(s) == s.fifo

Entries(s) == s.started

Idle(s) == s.idle

Built(k, s) ==
  /\ IsMap(s, Fields)
  /\ Fifo(s) \in Seq(OfKey(k))
  /\ IsMap(Entries(s), DOMAIN Entries(s))
  /\ DOMAIN Entries(s) \subseteq OfKey(k)

StatesShaped ==
  /\ IsMap(states, DOMAIN states)
  /\ \A k \in DOMAIN states :
       Built(k, states[k]) /\ ((Idle(states[k]) = NotIdle) <=> Busy(states[k]))

Shaped ==
  /\ clock \in Nat
  /\ pendingCount \in Int
  /\ nextJobId \in Nat \ {0}
  /\ jobId \in [Jobs -> 0 .. (nextJobId - 1)]
  /\ IsMap(dequeuedAt, DOMAIN dequeuedAt)
  /\ DOMAIN dequeuedAt \subseteq Jobs
  /\ \A j \in DOMAIN dequeuedAt : dequeuedAt[j] \in Nat
  /\ StatesShaped

\* What waits and what runs of key k, whether or not the key is present.
Bucket(k) == IF k \in DOMAIN states THEN Fifo(states[k]) ELSE <<>>

Running(k) == IF k \in DOMAIN states THEN DOMAIN Entries(states[k]) ELSE {}

StartOf(k, j) == Entries(states[k])[j]

\* The ids of the jobs in a bucket are positive and ascend.
IdAt(id, fifo, i) == id[fifo[i]]

Sorted(id, fifo) ==
  /\ \A i \in 1..Len(fifo) : IdAt(id, fifo, i) \in Nat \ {0}
  /\ \A i, m \in 1..Len(fifo) : i < m => IdAt(id, fifo, i) < IdAt(id, fifo, m)

InOrder == \A j \in Jobs : Sorted(jobId, Bucket(KeyOf[j]))

Apart ==
  /\ Queued \cap Active = {}
  /\ \A j \in Active : jobId[j] > 0

Counted == pendingCount = Cardinality(Queued)

QueueInv == Shaped /\ InOrder /\ ActiveKept /\ Apart /\ Counted

----------------------------------------------------------------------------
\* What the operators on the state of a key return

\* _mark_idle_if_empty_locked calls a key busy when a job of it waits or runs.
LEMMA BusyIs == \A s : Busy(s) <=> Fifo(s) # <<>> \/ DOMAIN Entries(s) # {}
BY DEF Busy, Fifo, Entries

\* _mark_idle_if_empty_locked only sets the idle time, exactly when the key has no
\* work.
LEMMA MarkIdleShape ==
  ASSUME NEW k, NEW s, NEW now \in Nat, Built(k, s), Busy(s) => Idle(s) = NotIdle
  PROVE  /\ Built(k, MarkIdle(s, now))
         /\ (Idle(MarkIdle(s, now)) = NotIdle) <=> Busy(MarkIdle(s, now))
         /\ Fifo(MarkIdle(s, now)) = Fifo(s)
         /\ Entries(MarkIdle(s, now)) = Entries(s)
BY DEF MarkIdle, Built, Busy, Fields, IsMap, NotIdle, Fifo, Entries, Idle

\* enqueue appends to the bucket and ends the idle time.
LEMMA PushedShape ==
  ASSUME NEW k, NEW s, NEW j \in OfKey(k), Built(k, s)
  PROVE  /\ Built(k, Pushed(s, j))
         /\ Idle(Pushed(s, j)) = NotIdle
         /\ Busy(Pushed(s, j))
         /\ Fifo(Pushed(s, j)) = Append(Fifo(s), j)
         /\ Entries(Pushed(s, j)) = Entries(s)
<1>1. /\ Append(Fifo(s), j) \in Seq(OfKey(k))
      /\ Append(Fifo(s), j) # <<>>
  BY AppendProperties DEF Built
<1> QED
  BY <1>1 DEF Pushed, Built, Busy, Fields, IsMap, Fifo, Entries, Idle

\* pop_next moves the head of the bucket to the active entries.
LEMMA PoppedShape ==
  ASSUME NEW k, NEW s, Built(k, s), Fifo(s) # <<>>
  PROVE  LET j == Head(Fifo(s))
         IN  /\ j \in OfKey(k)
             /\ Built(k, Popped(s, j))
             /\ Idle(Popped(s, j)) = NotIdle
             /\ Busy(Popped(s, j))
             /\ Fifo(Popped(s, j)) = Tail(Fifo(s))
             /\ Entries(Popped(s, j)) = With(Entries(s), j, clock)
<1> DEFINE j == Head(Fifo(s))
<1>1. j \in OfKey(k) /\ Tail(Fifo(s)) \in Seq(OfKey(k))
  BY HeadTailProperties DEF Built
<1> HIDE DEF j
<1> DEFINE r == With(Entries(s), j, clock)
<1>2. /\ IsMap(r, DOMAIN r)
      /\ DOMAIN r = DOMAIN Entries(s) \cup {j}
  BY DEF With, IsMap
<1> HIDE DEF r
<1>3. Popped(s, j) = [s EXCEPT !.fifo = Tail(Fifo(s)), !.started = r,
                               !.lastPick = nextSelection, !.idle = NotIdle]
  BY DEF Popped, r, Fifo, Entries
<1> QED
  BY <1>1, <1>2, <1>3 DEF Built, Busy, Fields, IsMap, j, r, Fifo, Entries, Idle

\* complete and abandon remove one active entry.
LEMMA DroppedShape ==
  ASSUME NEW k, NEW s, NEW j, Built(k, s)
  PROVE  /\ Built(k, Dropped(s, j))
         /\ Idle(Dropped(s, j)) = Idle(s)
         /\ Busy(Dropped(s, j)) => Busy(s)
         /\ Fifo(Dropped(s, j)) = Fifo(s)
         /\ Entries(Dropped(s, j)) = Restrict(Entries(s), DOMAIN Entries(s) \ {j})
<1> DEFINE r == Restrict(Entries(s), DOMAIN Entries(s) \ {j})
<1>1. /\ IsMap(r, DOMAIN r)
      /\ DOMAIN r = DOMAIN Entries(s) \ {j}
  BY DEF Restrict, IsMap
<1> HIDE DEF r
<1>2. Dropped(s, j) = [s EXCEPT !.started = r]
  BY DEF Dropped, r, Entries
<1> QED
  BY <1>1, <1>2 DEF Built, Fields, Busy, IsMap, Fifo, Entries, Idle, r

\* Charging slot-time to a key changes nothing but its service.
LEMMA ChargedShape ==
  ASSUME NEW k, NEW s, NEW amount, Built(k, s)
  PROVE  /\ Built(k, Charged(s, amount))
         /\ Idle(Charged(s, amount)) = Idle(s)
         /\ Fifo(Charged(s, amount)) = Fifo(s)
         /\ Entries(Charged(s, amount)) = Entries(s)
         /\ Busy(Charged(s, amount)) <=> Busy(s)
BY DEF Charged, Built, Busy, Fields, IsMap, Fifo, Entries, Idle

----------------------------------------------------------------------------
\* How a step can change the states of the keys

\* f is the table of states, with or without some keys that have no work.
Live(f) ==
  /\ IsMap(f, DOMAIN f)
  /\ DOMAIN f \subseteq DOMAIN states
  /\ \A k \in DOMAIN f : f[k] = states[k]
  /\ \A k \in DOMAIN states \ DOMAIN f : ~Busy(states[k])

SameWork(k) ==
  /\ Bucket(k)' = Bucket(k)
  /\ Running(k)' = Running(k)
  /\ \A j \in Running(k) : StartOf(k, j)' = StartOf(k, j)

\* An expiry drops only keys without work: MarkIdle is called on no other.
LEMMA FreshIsLive ==
  ASSUME StatesShaped, NEW now
  PROVE  Live(Fresh(now))
BY DEF StatesShaped, Live, Fresh, Restrict, IsMap, Expired, Idle

\* Nothing is forgotten while states stays as it is.
LEMMA StatesAreLive ==
  ASSUME StatesShaped
  PROVE  Live(states)
BY DEF StatesShaped, Live

\* Forgetting idle keys changes no bucket and no active entry.
LEMMA ForgettingKeepsWork ==
  ASSUME StatesShaped, NEW f, Live(f), states' = f
  PROVE  StatesShaped' /\ \A k : SameWork(k)
<1>1. StatesShaped'
  BY DEF StatesShaped, Live
<1>2. ASSUME NEW k PROVE SameWork(k)
  BY BusyIs DEF StatesShaped, Live, SameWork, Bucket, Running, StartOf
<1> QED
  BY <1>1, <1>2

\* A step may forget idle keys and set one key's state: the work of the others is as
\* before.
LEMMA OneKeyChanges ==
  ASSUME StatesShaped, NEW f, Live(f), NEW k, NEW s,
         Built(k, s), (Idle(s) = NotIdle) <=> Busy(s),
         \/ states' = With(f, k, s)
         \/ k \in DOMAIN f /\ states' = [f EXCEPT ![k] = s]
  PROVE  /\ StatesShaped'
         /\ \A o : o # k => SameWork(o)
         /\ Bucket(k)' = Fifo(s)
         /\ Running(k)' = DOMAIN Entries(s)
         /\ \A j \in DOMAIN Entries(s) : StartOf(k, j)' = Entries(s)[j]
<1>1. /\ IsMap(states', DOMAIN states')
      /\ DOMAIN states' = DOMAIN f \cup {k}
      /\ states'[k] = s
      /\ \A o \in DOMAIN f : o # k => states'[o] = f[o]
  BY DEF With, IsMap, Live
<1>2. StatesShaped'
  BY <1>1 DEF StatesShaped, Live
<1>3. ASSUME NEW o, o # k PROVE SameWork(o)
  BY <1>1, <1>3, BusyIs DEF StatesShaped, Live, SameWork, Bucket, Running, StartOf
<1> QED
  BY <1>1, <1>2, <1>3 DEF Bucket, Running, StartOf

----------------------------------------------------------------------------
\* Every step keeps the shape, and does this to the work of the keys

\* The empty sequence is the function on no keys.
LEMMA EmptyMap == IsMap(<<>>, DOMAIN <<>>) /\ DOMAIN <<>> = {}
BY DEF IsMap

\* At first there are no keys.
LEMMA InitShaped == Init => Shaped /\ \A k : Bucket(k) = <<>> /\ Running(k) = {}
BY EmptyMap DEF Init, Shaped, StatesShaped, Bucket, Running

\* enqueue puts the job at the end of its key's bucket.
LEMMA EnqueueWork ==
  ASSUME Shaped, NEW j \in Jobs, Enqueue(j)
  PROVE  /\ Shaped'
         /\ \A o : o # KeyOf[j] => SameWork(o)
         /\ Bucket(KeyOf[j])' = Append(Bucket(KeyOf[j]), j)
         /\ Running(KeyOf[j])' = Running(KeyOf[j])
         /\ \A i \in Running(KeyOf[j]) : StartOf(KeyOf[j], i)' = StartOf(KeyOf[j], i)
<1> DEFINE k == KeyOf[j]
           live == Fresh(clock)
           s == IF k \in DOMAIN live THEN live[k] ELSE NewState(live, clock)
<1>1. Live(live)
  BY FreshIsLive DEF Shaped
<1>2. states' = With(live, k, Pushed(s, j))
  BY DEF Enqueue
<1> HIDE DEF live
<1>3. /\ Built(k, s)
      /\ Fifo(s) = Bucket(k)
      /\ DOMAIN Entries(s) = Running(k)
      /\ \A i \in Running(k) : Entries(s)[i] = StartOf(k, i)
  <2>1. CASE k \in DOMAIN live
    BY <1>1, <2>1 DEF Live, Shaped, StatesShaped, Bucket, Running, StartOf
  <2>2. CASE k \notin DOMAIN live
    <3>1. Bucket(k) = <<>> /\ Running(k) = {}
      BY <1>1, <2>2, BusyIs DEF Live, Bucket, Running
    <3>2. Built(k, NewState(live, clock))
      BY EmptyMap, EmptySeq DEF NewState, Built, IsMap, Fields, Fifo, Entries
    <3> QED
      BY <2>2, <3>1, <3>2, EmptyMap DEF NewState, Fifo, Entries
  <2> QED
    BY <2>1, <2>2
<1> HIDE DEF s
<1>4. j \in OfKey(k)
  BY DEF OfKey
<1> DEFINE p == Pushed(s, j)
<1>5. /\ Built(k, p)
      /\ (Idle(p) = NotIdle) <=> Busy(p)
      /\ Fifo(p) = Append(Fifo(s), j)
      /\ Entries(p) = Entries(s)
      /\ states' = With(live, k, p)
  BY <1>2, <1>3, <1>4, PushedShape
<1> HIDE DEF p
<1>6. /\ StatesShaped'
      /\ \A o : o # k => SameWork(o)
      /\ Bucket(k)' = Append(Bucket(k), j)
      /\ Running(k)' = Running(k)
      /\ \A i \in Running(k) : StartOf(k, i)' = StartOf(k, i)
  <2>1. /\ StatesShaped'
        /\ \A o : o # k => SameWork(o)
        /\ Bucket(k)' = Fifo(p)
        /\ Running(k)' = DOMAIN Entries(p)
        /\ \A i \in DOMAIN Entries(p) : StartOf(k, i)' = Entries(p)[i]
    BY <1>1, <1>5, OneKeyChanges DEF Shaped
  <2> QED
    BY <1>3, <1>5, <2>1
<1>7. Shaped'
  BY <1>6 DEF Enqueue, Shaped
<1> QED
  BY <1>6, <1>7

\* pop_next takes the head of some bucket and notes the time.
LEMMA PopNextWork ==
  ASSUME Shaped, PopNext
  PROVE  \E j \in Jobs :
           LET k == KeyOf[j]
           IN  /\ Shaped'
               /\ \A o : o # k => SameWork(o)
               /\ Bucket(k) # <<>> /\ j = Head(Bucket(k))
               /\ Bucket(k)' = Tail(Bucket(k))
               /\ Running(k)' = Running(k) \cup {j}
               /\ \A i \in Running(k)' :
                    StartOf(k, i)' = IF i = j THEN clock ELSE StartOf(k, i)
               /\ dequeuedAt' = With(dequeuedAt, j, clock)
<1> DEFINE live == Fresh(clock)
<1>1. Live(live)
  BY FreshIsLive DEF Shaped
<1>2. PICK k \in DOMAIN live :
        /\ Fifo(live[k]) # <<>>
        /\ states' = [live EXCEPT ![k] = Popped(live[k], Head(Fifo(live[k])))]
        /\ dequeuedAt' = With(dequeuedAt, Head(Fifo(live[k])), clock)
  BY DEF PopNext, Selected, Fifo
<1> DEFINE j == Head(Fifo(live[k]))
           s == Popped(live[k], j)
<1> HIDE DEF live
<1>3. /\ Built(k, live[k])
      /\ Fifo(live[k]) = Bucket(k)
      /\ DOMAIN Entries(live[k]) = Running(k)
      /\ \A i \in Running(k) : Entries(live[k])[i] = StartOf(k, i)
  BY <1>1, <1>2 DEF Live, Shaped, StatesShaped, Bucket, Running, StartOf
<1>4. /\ j \in OfKey(k)
      /\ Built(k, s)
      /\ (Idle(s) = NotIdle) <=> Busy(s)
      /\ Fifo(s) = Tail(Fifo(live[k]))
      /\ Entries(s) = With(Entries(live[k]), j, clock)
  BY <1>2, <1>3, PoppedShape
<1>5. j \in Jobs /\ k = KeyOf[j] /\ j = Head(Bucket(k))
  BY <1>3, <1>4 DEF OfKey
<1>6. /\ StatesShaped'
      /\ \A o : o # k => SameWork(o)
      /\ Bucket(k)' = Fifo(s)
      /\ Running(k)' = DOMAIN Entries(s)
      /\ \A i \in DOMAIN Entries(s) : StartOf(k, i)' = Entries(s)[i]
  <2>1. k \in DOMAIN live /\ states' = [live EXCEPT ![k] = s]
    BY <1>2
  <2> HIDE DEF s
  <2> QED
    BY <1>1, <1>4, <2>1, OneKeyChanges DEF Shaped
<1> HIDE DEF s, j
<1>7. /\ Running(k)' = Running(k) \cup {j}
      /\ \A i \in Running(k)' : StartOf(k, i)' = IF i = j THEN clock ELSE StartOf(k, i)
  BY <1>3, <1>4, <1>6 DEF With
<1>8. dequeuedAt' = With(dequeuedAt, j, clock)
  BY <1>2 DEF j
<1>9. Shaped'
  <2>1. /\ IsMap(dequeuedAt', DOMAIN dequeuedAt')
        /\ DOMAIN dequeuedAt' \subseteq Jobs
        /\ \A i \in DOMAIN dequeuedAt' : dequeuedAt'[i] \in Nat
    BY <1>5, <1>8 DEF With, IsMap, Shaped
  <2> QED
    BY <1>6, <2>1 DEF Shaped, PopNext
<1> QED
  BY <1>2, <1>3, <1>4, <1>5, <1>6, <1>7, <1>8, <1>9

\* Key k, and no other, loses the active entry of j.
KeySettled(k, j) ==
  /\ \A o : o # k => SameWork(o)
  /\ Bucket(k)' = Bucket(k)
  /\ Running(k)' = Running(k) \ {j}
  /\ \A i \in Running(k)' : StartOf(k, i)' = StartOf(k, i)

\* What complete and abandon do to the key of the job.
LEMMA SettledKey ==
  ASSUME StatesShaped, NEW k \in DOMAIN states, NEW j, NEW now \in Nat, NEW s,
         \/ s = Dropped(states[k], j)
         \/ \E amount : s = Charged(Dropped(states[k], j), amount),
         states' = [states EXCEPT ![k] = MarkIdle(s, now)]
  PROVE  StatesShaped' /\ KeySettled(k, j)
<1> DEFINE x == states[k]
           d == Dropped(x, j)
           m == MarkIdle(s, now)
<1>1. Built(k, x) /\ ((Idle(x) = NotIdle) <=> Busy(x))
  BY DEF StatesShaped
<1> HIDE DEF x
<1>2. /\ Built(k, d)
      /\ Idle(d) = Idle(x)
      /\ Busy(d) => Busy(x)
      /\ Fifo(d) = Fifo(x)
      /\ Entries(d) = Restrict(Entries(x), DOMAIN Entries(x) \ {j})
  BY <1>1, DroppedShape
<1>3. s = d \/ \E amount : s = Charged(d, amount)
  BY DEF x
<1> HIDE DEF d
<1>4. /\ Built(k, s) /\ Fifo(s) = Fifo(d) /\ Entries(s) = Entries(d)
      /\ Busy(s) => Idle(s) = NotIdle
  BY <1>1, <1>2, <1>3, ChargedShape
<1>5. /\ Built(k, m)
      /\ (Idle(m) = NotIdle) <=> Busy(m)
      /\ Fifo(m) = Fifo(s)
      /\ Entries(m) = Entries(s)
  BY <1>4, MarkIdleShape
<1>6. states' = [states EXCEPT ![k] = m]
  OBVIOUS
<1> HIDE DEF m
<1>7. /\ StatesShaped'
      /\ \A o : o # k => SameWork(o)
      /\ Bucket(k)' = Fifo(m)
      /\ Running(k)' = DOMAIN Entries(m)
      /\ \A i \in DOMAIN Entries(m) : StartOf(k, i)' = Entries(m)[i]
  BY <1>5, <1>6, StatesAreLive, OneKeyChanges
<1>8. /\ DOMAIN Entries(m) = DOMAIN Entries(x) \ {j}
      /\ \A i \in DOMAIN Entries(m) : Entries(m)[i] = Entries(x)[i]
  BY <1>2, <1>4, <1>5 DEF Restrict
<1> QED
  BY <1>2, <1>4, <1>5, <1>7, <1>8 DEF KeySettled, Bucket, Running, StartOf, x

\* complete and abandon remove the active entry and the pop time, whatever times they
\* are told.
LEMMA SettlingWork ==
  ASSUME Shaped, NEW j \in Jobs, NEW begin, NEW end \in 0..clock,
         Complete(j, begin, end) \/ Abandon(j, end)
  PROVE  /\ Shaped'
         /\ KeySettled(KeyOf[j], j)
         /\ dequeuedAt' = Restrict(dequeuedAt, DOMAIN dequeuedAt \ {j})
<1> DEFINE k == KeyOf[j]
           d == Dropped(states[k], j)
<1>1. dequeuedAt' = Restrict(dequeuedAt, DOMAIN dequeuedAt \ {j})
  BY DEF Complete, Abandon
<1>2. /\ IsMap(dequeuedAt', DOMAIN dequeuedAt')
      /\ DOMAIN dequeuedAt' \subseteq Jobs
      /\ \A i \in DOMAIN dequeuedAt' : dequeuedAt'[i] \in Nat
  BY <1>1 DEF Restrict, IsMap, Shaped
<1>3. StatesShaped' => Shaped'
  BY <1>2 DEF Complete, Abandon, Shaped
<1>4. CASE states' = states /\ j \notin Running(k)
  <2>1. StatesShaped' /\ \A o : SameWork(o)
    BY <1>4, StatesAreLive, ForgettingKeepsWork DEF Shaped
  <2> QED
    BY <1>1, <1>3, <1>4, <2>1 DEF SameWork, KeySettled
<1>5. ASSUME k \in DOMAIN states, NEW s,
             s = d \/ \E amount : s = Charged(d, amount),
             states' = [states EXCEPT ![k] = MarkIdle(s, end)]
      PROVE  StatesShaped' /\ KeySettled(k, j)
  <2>1. StatesShaped /\ end \in Nat
    BY DEF Shaped
  <2> QED
    BY <1>5, <2>1, SettledKey
<1>6. CASE Complete(j, begin, end)
  <2>1. \/ states' = states /\ j \notin Running(k)
        \/ /\ k \in DOMAIN states
           /\ states' = [states EXCEPT ![k] =
                             MarkIdle(Charged(d, Rate[k] * (end - begin)), end)]
    BY <1>6 DEF Complete, HasEntry, Running, Entries
  <2> QED
    BY <1>1, <1>3, <1>4, <1>5, <2>1
<1>7. CASE Abandon(j, end)
  <2>1. \/ states' = states /\ j \notin Running(k)
        \/ k \in DOMAIN states /\ states' = [states EXCEPT ![k] = MarkIdle(d, end)]
    BY <1>7 DEF Abandon, Running
  <2> QED
    BY <1>1, <1>3, <1>4, <1>5, <2>1
<1> QED
  BY <1>6, <1>7

\* A sequence without its element at i, index by index.
LEMMA RemoveAtIs ==
  ASSUME NEW S, NEW s \in Seq(S), NEW i \in 1..Len(s)
  PROVE  /\ RemoveAt(s, i) \in Seq(S)
         /\ Len(RemoveAt(s, i)) = Len(s) - 1
         /\ \A m \in 1..(Len(s) - 1) :
              RemoveAt(s, i)[m] = IF m < i THEN s[m] ELSE s[m + 1]
<1>1. /\ SubSeq(s, 1, i - 1) \in Seq(S)
      /\ Len(SubSeq(s, 1, i - 1)) = i - 1
      /\ \A m \in 1..(i - 1) : SubSeq(s, 1, i - 1)[m] = s[m]
  BY SubSeqProperties
<1>2. /\ SubSeq(s, i + 1, Len(s)) \in Seq(S)
      /\ Len(SubSeq(s, i + 1, Len(s))) = Len(s) - i
      /\ \A m \in 1..(Len(s) - i) : SubSeq(s, i + 1, Len(s))[m] = s[i + m]
  BY SubSeqProperties
<1> DEFINE p == SubSeq(s, 1, i - 1)
           q == SubSeq(s, i + 1, Len(s))
<1> HIDE DEF p, q
<1>3. /\ p \o q \in Seq(S)
      /\ Len(p \o q) = Len(p) + Len(q)
      /\ \A m \in 1..(Len(p) + Len(q)) :
           (p \o q)[m] = IF m <= Len(p) THEN p[m] ELSE q[m - Len(p)]
  BY <1>1, <1>2, ConcatProperties DEF p, q
<1>4. RemoveAt(s, i) = p \o q
  BY DEF RemoveAt, p, q
<1>5. Len(s) \in Nat /\ Len(p) = i - 1 /\ Len(q) = Len(s) - i
  BY <1>1, <1>2 DEF p, q
<1>6. ASSUME NEW m \in 1..(Len(s) - 1)
      PROVE  (p \o q)[m] = IF m < i THEN s[m] ELSE s[m + 1]
  <2>1. CASE m < i
    BY <1>1, <1>3, <1>5, <2>1 DEF p
  <2>2. CASE ~(m < i)
    <3>1. /\ m \in 1..(Len(p) + Len(q)) /\ ~(m <= Len(p))
          /\ m - Len(p) \in 1..(Len(s) - i) /\ i + (m - Len(p)) = m + 1
      BY <1>5, <2>2
    <3> QED
      BY <1>2, <1>3, <2>2, <3>1 DEF q
  <2> QED
    BY <2>1, <2>2
<1> QED
  BY <1>3, <1>4, <1>5, <1>6

\* remove takes one job out of the middle of its bucket.
LEMMA WithdrawWork ==
  ASSUME Shaped, NEW j \in Jobs, Withdraw(j)
  PROVE  LET k == KeyOf[j]
         IN  /\ Shaped'
             /\ \A o : o # k => SameWork(o)
             /\ Running(k)' = Running(k)
             /\ \A i \in Running(k) : StartOf(k, i)' = StartOf(k, i)
             /\ \E i \in 1..Len(Bucket(k)) :
                  Bucket(k)[i] = j /\ Bucket(k)' = RemoveAt(Bucket(k), i)
<1> DEFINE k == KeyOf[j]
           x == states[k]
<1>1. k \in DOMAIN states /\ Built(k, x) /\ ((Idle(x) = NotIdle) <=> Busy(x))
  BY DEF Withdraw, Shaped, StatesShaped
<1>2. PICK i \in 1..Len(Fifo(x)) :
        /\ Fifo(x)[i] = j
        /\ states' = [states EXCEPT ![k] = MarkIdle(Plucked(x, i), clock)]
  BY DEF Withdraw, Fifo
<1> DEFINE r == RemoveAt(Fifo(x), i)
           s == Plucked(x, i)
           m == MarkIdle(s, clock)
<1> HIDE DEF x
<1>3. r \in Seq(OfKey(k)) /\ Fifo(x) # <<>>
  BY <1>1, <1>2, RemoveAtIs DEF Built
<1>4. states' = [states EXCEPT ![k] = m]
  BY <1>2
<1> HIDE DEF r
<1>5. /\ Built(k, s) /\ Fifo(s) = r /\ Entries(s) = Entries(x)
      /\ Busy(s) => Idle(s) = NotIdle
  <2>1. Idle(x) = NotIdle
    BY <1>1, <1>3, BusyIs
  <2>2. s = [x EXCEPT !.fifo = r]
    BY DEF Plucked, Fifo, r
  <2> QED
    BY <1>1, <1>3, <2>1, <2>2 DEF Built, Fields, IsMap, Fifo, Entries, Idle
<1> HIDE DEF s
<1>6. /\ Built(k, m)
      /\ (Idle(m) = NotIdle) <=> Busy(m)
      /\ Fifo(m) = r
      /\ Entries(m) = Entries(x)
  BY <1>5, MarkIdleShape DEF Shaped
<1> HIDE DEF m
<1>7. /\ StatesShaped'
      /\ \A o : o # k => SameWork(o)
      /\ Bucket(k)' = Fifo(m)
      /\ Running(k)' = DOMAIN Entries(m)
      /\ \A h \in DOMAIN Entries(m) : StartOf(k, h)' = Entries(m)[h]
  BY <1>1, <1>4, <1>6, StatesAreLive, OneKeyChanges DEF Shaped
<1>8. Shaped'
  BY <1>7 DEF Withdraw, Shaped
<1> QED
  BY <1>1, <1>2, <1>6, <1>7, <1>8 DEF Bucket, Running, StartOf, x, r

\* drain empties all buckets and leaves the active entries.
LEMMA DrainWork ==
  ASSUME Shaped, Drain
  PROVE  /\ Shaped'
         /\ \A k : /\ Bucket(k)' = <<>>
                  /\ Running(k)' = Running(k)
                  /\ \A j \in Running(k) : StartOf(k, j)' = StartOf(k, j)
<1> DEFINE m[k \in DOMAIN states] == MarkIdle(Emptied(states[k]), clock)
<1>1. ASSUME NEW k \in DOMAIN states
      PROVE  /\ Built(k, m[k])
             /\ (Idle(m[k]) = NotIdle) <=> Busy(m[k])
             /\ Fifo(m[k]) = <<>>
             /\ Entries(m[k]) = Entries(states[k])
  <2> DEFINE x == states[k]
             s == Emptied(x)
  <2>1. Built(k, x) /\ ((Idle(x) = NotIdle) <=> Busy(x))
    BY DEF Shaped, StatesShaped
  <2>2. m[k] = MarkIdle(s, clock)
    OBVIOUS
  <2> HIDE DEF x, m
  <2>3. /\ Built(k, s) /\ Fifo(s) = <<>> /\ Entries(s) = Entries(x) /\ Idle(s) = Idle(x)
    BY <2>1, EmptySeq DEF Built, Fields, IsMap, Fifo, Entries, Idle, Emptied
  <2> HIDE DEF s
  <2>4. Busy(s) => Idle(s) = NotIdle
    BY <2>1, <2>3, BusyIs
  <2>5. /\ Built(k, MarkIdle(s, clock))
        /\ (Idle(MarkIdle(s, clock)) = NotIdle) <=> Busy(MarkIdle(s, clock))
        /\ Fifo(MarkIdle(s, clock)) = <<>>
        /\ Entries(MarkIdle(s, clock)) = Entries(x)
    BY <2>3, <2>4, MarkIdleShape DEF Shaped
  <2> QED
    BY <2>2, <2>5 DEF x
<1>2. states' = m
  BY DEF Drain
<1>3. IsMap(m, DOMAIN m) /\ DOMAIN m = DOMAIN states
  BY DEF IsMap
<1> HIDE DEF m
<1>4. StatesShaped'
  BY <1>1, <1>2, <1>3 DEF StatesShaped
<1>5. Shaped'
  BY <1>4 DEF Shaped, Drain
<1> QED
  BY <1>1, <1>2, <1>3, <1>5 DEF Bucket, Running, StartOf

\* Reading the queue, refusing a job and the passing of time only forget idle keys.
LEMMA IdleWork ==
  ASSUME Shaped, Observe \/ Tick \/ (\E j \in Jobs : Refuse(j)) \/ UNCHANGED vars
  PROVE  Shaped' /\ \A k : SameWork(k)
<1>1. states' = Fresh(clock) \/ states' = states
  BY DEF Observe, Tick, Refuse, vars
<1>2. StatesShaped' /\ \A k : SameWork(k)
  BY <1>1, FreshIsLive, StatesAreLive, ForgettingKeepsWork DEF Shaped
<1> QED
  BY <1>2 DEF Shaped, Observe, Tick, Refuse, vars

----------------------------------------------------------------------------
\* The buckets stay sorted by job id

\* A bucket is a sequence of jobs of its key.
LEMMA BucketType ==
  ASSUME Shaped, NEW k
  PROVE  /\ Bucket(k) \in Seq(OfKey(k))
         /\ Len(Bucket(k)) \in Nat
         /\ \A i \in 1..Len(Bucket(k)) : Bucket(k)[i] \in Jobs /\ KeyOf[Bucket(k)[i]] = k
         /\ Running(k) \subseteq OfKey(k)
<1>1. Bucket(k) \in Seq(OfKey(k)) /\ Running(k) \subseteq OfKey(k)
  BY EmptySeq DEF Bucket, Running, Shaped, StatesShaped, Built
<1> QED
  BY <1>1, LenProperties, ElementOfSeq DEF OfKey

\* A job with a new, larger id goes to the end of a sorted bucket.
LEMMA SortedAppend ==
  ASSUME NEW S, NEW fifo \in Seq(S), NEW id \in [S -> Nat], Sorted(id, fifo),
         NEW j \in S, id[j] = 0,
         NEW n \in Nat \ {0}, \A i \in S : id[i] < n
  PROVE  Sorted([id EXCEPT ![j] = n], Append(fifo, j))
<1> DEFINE new == [id EXCEPT ![j] = n]
           f   == Append(fifo, j)
<1>1. /\ Len(fifo) \in Nat
      /\ Len(f) = Len(fifo) + 1
      /\ \A i \in 1..Len(fifo) : f[i] = fifo[i] /\ fifo[i] \in S
      /\ f[Len(fifo) + 1] = j
  BY AppendProperties, ElementOfSeq, LenProperties
<1>2. \A i \in 1..Len(fifo) :
        /\ IdAt(new, f, i) = IdAt(id, fifo, i)
        /\ IdAt(id, fifo, i) \in Nat \ {0} /\ IdAt(id, fifo, i) < n
  <2>1. ASSUME NEW i \in 1..Len(fifo)
        PROVE  IdAt(new, f, i) = IdAt(id, fifo, i) /\ IdAt(id, fifo, i) < n
    <3>1. IdAt(id, fifo, i) \in Nat \ {0}
      BY DEF Sorted
    <3>2. fifo[i] # j
      BY <1>1, <3>1 DEF IdAt
    <3> QED
      BY <1>1, <3>2 DEF IdAt
  <2> QED
    BY <2>1 DEF Sorted
<1>3. IdAt(new, f, Len(fifo) + 1) = n
  BY <1>1 DEF IdAt
<1> HIDE DEF f, new
<1>4. \A i \in 1..Len(f) : i \in 1..Len(fifo) \/ i = Len(fifo) + 1
  BY <1>1
<1>5. \A i \in 1..Len(f) : IdAt(new, f, i) \in Nat \ {0}
  BY <1>2, <1>3, <1>4
<1>6. ASSUME NEW i \in 1..Len(f), NEW m \in 1..Len(f), i < m
      PROVE  IdAt(new, f, i) < IdAt(new, f, m)
  <2>1. i \in 1..Len(fifo)
    BY <1>1, <1>6
  <2>2. CASE m \in 1..Len(fifo)
    <3>1. IdAt(id, fifo, i) < IdAt(id, fifo, m)
      BY <1>6, <2>1, <2>2 DEF Sorted
    <3> QED
      BY <1>2, <2>1, <2>2, <3>1
  <2>3. CASE m = Len(fifo) + 1
    BY <1>2, <1>3, <2>1, <2>3
  <2> QED
    BY <1>4, <2>2, <2>3
<1>7. Sorted(new, f)
  BY <1>5, <1>6 DEF Sorted
<1> QED
  BY <1>7 DEF new, f

\* A sorted bucket without its head is sorted.
LEMMA SortedTail ==
  ASSUME NEW S, NEW fifo \in Seq(S), fifo # <<>>, NEW id, Sorted(id, fifo)
  PROVE  Sorted(id, Tail(fifo))
<1> DEFINE f == Tail(fifo)
<1>1. /\ Len(fifo) \in Nat
      /\ Len(f) = Len(fifo) - 1
      /\ \A i \in 1..Len(f) : f[i] = fifo[i + 1]
  BY HeadTailProperties, LenProperties
<1> HIDE DEF f
<1>2. \A i \in 1..Len(f) : i + 1 \in 1..Len(fifo) /\ IdAt(id, f, i) = IdAt(id, fifo, i + 1)
  BY <1>1 DEF IdAt
<1>3. Sorted(id, f)
  BY <1>1, <1>2 DEF Sorted
<1> QED
  BY <1>3 DEF f

\* A sorted bucket without one job is sorted.
LEMMA SortedRemove ==
  ASSUME NEW S, NEW fifo \in Seq(S), NEW n \in 1..Len(fifo), NEW id, Sorted(id, fifo)
  PROVE  Sorted(id, RemoveAt(fifo, n))
<1> DEFINE f == RemoveAt(fifo, n)
           g[m \in 1..Len(f)] == IF m < n THEN m ELSE m + 1
<1>1. /\ Len(fifo) \in Nat
      /\ Len(f) = Len(fifo) - 1
      /\ \A m \in 1..Len(f) : f[m] = IF m < n THEN fifo[m] ELSE fifo[m + 1]
  BY RemoveAtIs, LenProperties
<1> HIDE DEF f
<1>2. /\ \A m \in 1..Len(f) : g[m] \in 1..Len(fifo) /\ IdAt(id, f, m) = IdAt(id, fifo, g[m])
      /\ \A i, m \in 1..Len(f) : i < m => g[i] < g[m]
  BY <1>1 DEF IdAt
<1> HIDE DEF g
<1>3. Sorted(id, f)
  BY <1>2 DEF Sorted
<1> QED
  BY <1>3 DEF f

\* Every job of a sorted bucket stands once in it.
LEMMA SortedIsInjective ==
  ASSUME NEW id, NEW fifo, Len(fifo) \in Nat, Sorted(id, fifo),
         NEW i \in 1..Len(fifo), NEW m \in 1..Len(fifo), fifo[i] = fifo[m]
  PROVE  i = m
BY DEF Sorted, IdAt

\* Every operation leaves the buckets sorted by job id.
LEMMA NextInOrder == Shaped /\ InOrder /\ [Next]_vars => InOrder'
<1> SUFFICES ASSUME Shaped, InOrder, [Next]_vars, NEW h \in Jobs
             PROVE  Sorted(jobId', Bucket(KeyOf[h])')
  BY DEF InOrder
<1> DEFINE k == KeyOf[h]
           b == Bucket(k)
           c == Bucket(k)'
<1>1. Sorted(jobId, b) /\ b \in Seq(Jobs)
  <2>1. b \in Seq(OfKey(k)) /\ OfKey(k) \subseteq Jobs
    BY BucketType DEF OfKey
  <2> QED
    BY <2>1, SeqMonotonic DEF InOrder
<1>2. ASSUME c = b, jobId' = jobId PROVE Sorted(jobId', c)
  BY <1>1, <1>2
<1>3. ASSUME NEW j \in Jobs, Enqueue(j) PROVE Sorted(jobId', c)
  <2>1. /\ jobId[j] = 0 /\ jobId' = [jobId EXCEPT ![j] = nextJobId]
        /\ jobId \in [Jobs -> Nat] /\ nextJobId \in Nat \ {0}
        /\ \A i \in Jobs : jobId[i] < nextJobId
    BY <1>3 DEF Enqueue, Shaped
  <2>2. CASE k = KeyOf[j]
    <3>1. c = Append(b, j)
      BY <1>3, <2>2, EnqueueWork
    <3> HIDE DEF b, c
    <3> QED
      BY <1>1, <2>1, <3>1, SortedAppend
  <2>3. CASE k # KeyOf[j]
    <3>1. c = b
      BY <1>3, <2>3, EnqueueWork DEF SameWork
    <3>2. \A i \in 1..Len(b) : b[i] \in Jobs /\ b[i] # j
      BY <2>3, BucketType
    <3> HIDE DEF b, c
    <3>3. \A i \in 1..Len(b) : IdAt(jobId', b, i) = IdAt(jobId, b, i)
      BY <2>1, <3>2 DEF IdAt
    <3> QED
      BY <1>1, <3>1, <3>3 DEF Sorted
  <2> QED
    BY <2>2, <2>3
<1>4. CASE PopNext
  <2>1. jobId' = jobId
    BY <1>4 DEF PopNext
  <2>2. c = b \/ (b # <<>> /\ c = Tail(b))
    BY <1>4, PopNextWork DEF SameWork
  <2> HIDE DEF b, c
  <2>3. Sorted(jobId', c)
    BY <1>1, <2>1, <2>2, SortedTail
  <2> QED
    BY <2>3 DEF c
<1>5. ASSUME NEW j \in Jobs, Withdraw(j) PROVE Sorted(jobId', c)
  <2>1. jobId' = jobId
    BY <1>5 DEF Withdraw
  <2>2. c = b \/ \E i \in 1..Len(b) : c = RemoveAt(b, i)
    BY <1>5, WithdrawWork DEF SameWork
  <2> HIDE DEF b, c
  <2> QED
    BY <1>1, <2>1, <2>2, SortedRemove
<1>6. ASSUME NEW j \in Jobs, NEW begin \in 0..clock, NEW end \in 0..clock,
             Complete(j, begin, end) \/ Abandon(j, end)
      PROVE  Sorted(jobId', c)
  <2>1. c = b
    BY <1>6, SettlingWork DEF KeySettled, SameWork
  <2>2. jobId' = jobId
    BY <1>6 DEF Complete, Abandon
  <2> QED
    BY <1>2, <2>1, <2>2
<1>7. CASE Drain
  <2>1. c = <<>>
    BY <1>7, DrainWork
  <2> HIDE DEF c
  <2>2. Len(c) = 0
    BY <2>1, EmptySeq
  <2>3. Sorted(jobId', c)
    BY <2>2 DEF Sorted
  <2> QED
    BY <2>3 DEF c
<1>8. CASE Observe \/ Tick \/ (\E j \in Jobs : Refuse(j)) \/ UNCHANGED vars
  <2>1. c = b
    BY <1>8, IdleWork DEF SameWork
  <2>2. jobId' = jobId
    BY <1>8 DEF Observe, Tick, Refuse, vars
  <2> QED
    BY <1>2, <2>1, <2>2
<1> QED
  BY <1>3, <1>4, <1>5, <1>6, <1>7, <1>8 DEF Next

\* Every operation leaves the states of the keys in shape.
LEMMA NextShaped == Shaped /\ [Next]_vars => Shaped'
<1> SUFFICES ASSUME Shaped, [Next]_vars PROVE Shaped'
  OBVIOUS
<1>1. ASSUME NEW j \in Jobs, Enqueue(j) PROVE Shaped'
  BY <1>1, EnqueueWork
<1>2. ASSUME NEW j \in Jobs, Withdraw(j) PROVE Shaped'
  BY <1>2, WithdrawWork
<1>3. CASE PopNext
  BY <1>3, PopNextWork
<1>4. ASSUME NEW j \in Jobs, NEW begin \in 0..clock, NEW end \in 0..clock,
             Complete(j, begin, end) \/ Abandon(j, end)
      PROVE  Shaped'
  BY <1>4, SettlingWork
<1>5. CASE Drain
  BY <1>5, DrainWork
<1>6. CASE Observe \/ Tick \/ (\E j \in Jobs : Refuse(j)) \/ UNCHANGED vars
  BY <1>6, IdleWork
<1> QED
  BY <1>1, <1>2, <1>3, <1>4, <1>5, <1>6 DEF Next

----------------------------------------------------------------------------
\* Which jobs wait and which are active, before and after each step

Elements(fifo) == {fifo[i] : i \in 1..Len(fifo)}

\* The waiting and the active jobs, read from the bucket of their own key.
LEMMA WorkSets ==
  Shaped => /\ Queued = {j \in Jobs : j \in Elements(Bucket(KeyOf[j]))}
            /\ Active = {j \in Jobs : j \in Running(KeyOf[j])}
<1> SUFFICES ASSUME Shaped
             PROVE  /\ Queued = {j \in Jobs : j \in Elements(Bucket(KeyOf[j]))}
                    /\ Active = {j \in Jobs : j \in Running(KeyOf[j])}
  OBVIOUS
<1>1. ASSUME NEW k \in DOMAIN states
      PROVE  /\ ToSet(states[k].fifo) = Elements(Bucket(k))
             /\ DOMAIN states[k].started = Running(k)
             /\ \A j \in Elements(Bucket(k)) \cup Running(k) : j \in Jobs /\ KeyOf[j] = k
  <2>1. Built(k, states[k])
    BY DEF Shaped, StatesShaped
  <2>2. states[k].fifo = Bucket(k) /\ DOMAIN states[k].started = Running(k)
    BY DEF Bucket, Running, Fifo, Entries
  <2>3. /\ Bucket(k) \in Seq(OfKey(k)) /\ Running(k) \subseteq OfKey(k)
    BY BucketType
  <2>4. ToSet(Bucket(k)) = Elements(Bucket(k))
    BY <2>3, LenProperties DEF ToSet, Elements
  <2> QED
    BY <2>2, <2>3, <2>4, BucketType DEF Elements, OfKey
<1>2. ASSUME NEW k, k \notin DOMAIN states PROVE Elements(Bucket(k)) = {} /\ Running(k) = {}
  <2>1. Bucket(k) = <<>> /\ Running(k) = {}
    BY <1>2 DEF Bucket, Running
  <2> QED
    BY <2>1, EmptySeq DEF Elements
<1>3. Queued = {j \in Jobs : j \in Elements(Bucket(KeyOf[j]))}
  BY <1>1, <1>2 DEF Queued
<1>4. Active = {j \in Jobs : j \in Running(KeyOf[j])}
  BY <1>1, <1>2 DEF Active
<1> QED
  BY <1>3, <1>4

\* The jobs of a bucket after an append.
LEMMA AppendElements ==
  ASSUME NEW S, NEW fifo \in Seq(S), NEW j \in S
  PROVE  Elements(Append(fifo, j)) = Elements(fifo) \cup {j}
<1>1. /\ Len(fifo) \in Nat
      /\ Len(Append(fifo, j)) = Len(fifo) + 1
      /\ \A i \in 1..Len(fifo) : Append(fifo, j)[i] = fifo[i]
      /\ Append(fifo, j)[Len(fifo) + 1] = j
  BY AppendProperties, LenProperties
<1> QED
  BY <1>1 DEF Elements

\* The jobs of a bucket after its head was taken.
LEMMA TailElements ==
  ASSUME NEW S, NEW fifo \in Seq(S), fifo # <<>>, NEW id, Sorted(id, fifo)
  PROVE  /\ Head(fifo) \in Elements(fifo)
         /\ Elements(Tail(fifo)) = Elements(fifo) \ {Head(fifo)}
<1> DEFINE f == Tail(fifo)
<1>1. /\ Len(fifo) \in Nat \ {0}
      /\ Len(f) = Len(fifo) - 1
      /\ \A i \in 1..Len(f) : f[i] = fifo[i + 1]
      /\ Head(fifo) = fifo[1]
  BY HeadTailProperties, LenProperties
<1>2. \A i \in 1..Len(fifo) : fifo[i] = fifo[1] => i = 1
  BY <1>1, SortedIsInjective
<1> HIDE DEF f
<1>3. ASSUME NEW i \in 1..Len(fifo), i # 1 PROVE fifo[i] \in Elements(f)
  <2>1. i - 1 \in 1..Len(f) /\ (i - 1) + 1 = i
    BY <1>1, <1>3
  <2> QED
    BY <1>1, <2>1 DEF Elements
<1>4. ASSUME NEW i \in 1..Len(f)
      PROVE  f[i] \in Elements(fifo) /\ f[i] # fifo[1]
  <2>1. i + 1 \in 1..Len(fifo) /\ i + 1 # 1 /\ f[i] = fifo[i + 1]
    BY <1>1
  <2> QED
    BY <1>2, <2>1 DEF Elements
<1>5. Elements(f) = Elements(fifo) \ {fifo[1]}
  BY <1>3, <1>4 DEF Elements
<1>6. fifo[1] \in Elements(fifo)
  BY <1>1 DEF Elements
<1> QED
  BY <1>1, <1>5, <1>6 DEF f

\* The jobs of a bucket after a removal.
LEMMA RemoveElements ==
  ASSUME NEW S, NEW fifo \in Seq(S), NEW n \in 1..Len(fifo), NEW id, Sorted(id, fifo)
  PROVE  Elements(RemoveAt(fifo, n)) = Elements(fifo) \ {fifo[n]}
<1> DEFINE f == RemoveAt(fifo, n)
<1>1. /\ Len(fifo) \in Nat
      /\ Len(f) = Len(fifo) - 1
      /\ \A m \in 1..Len(f) : f[m] = IF m < n THEN fifo[m] ELSE fifo[m + 1]
  BY RemoveAtIs, LenProperties
<1>2. \A i \in 1..Len(fifo) : fifo[i] = fifo[n] => i = n
  BY <1>1, SortedIsInjective
<1> HIDE DEF f
<1>3. ASSUME NEW i \in 1..Len(fifo), i # n PROVE fifo[i] \in Elements(f)
  <2>1. CASE i < n
    <3>1. i \in 1..Len(f) /\ f[i] = fifo[i]
      BY <1>1, <2>1
    <3> QED
      BY <3>1 DEF Elements
  <2>2. CASE i > n
    <3>1. i - 1 \in 1..Len(f) /\ ~(i - 1 < n) /\ (i - 1) + 1 = i
      BY <1>1, <2>2
    <3>2. f[i - 1] = fifo[i]
      BY <1>1, <3>1
    <3> QED
      BY <3>1, <3>2 DEF Elements
  <2> QED
    BY <1>1, <1>3, <2>1, <2>2
<1>4. ASSUME NEW i \in 1..Len(f)
      PROVE  f[i] \in Elements(fifo) /\ f[i] # fifo[n]
  <2>1. PICK m \in 1..Len(fifo) : f[i] = fifo[m] /\ m # n
    <3>1. CASE i < n
      BY <1>1, <3>1
    <3>2. CASE ~(i < n)
      <4>1. i + 1 \in 1..Len(fifo) /\ i + 1 # n /\ f[i] = fifo[i + 1]
        BY <1>1, <3>2
      <4> QED
        BY <4>1
    <3> QED
      BY <3>1, <3>2
  <2> QED
    BY <1>2, <2>1 DEF Elements
<1>5. Elements(f) = Elements(fifo) \ {fifo[n]}
  BY <1>3, <1>4 DEF Elements
<1> QED
  BY <1>5 DEF f

\* The waiting and active jobs after a step, in the same way.
LEMMA NextWorkSets ==
  Shaped' => /\ Queued' = {j \in Jobs : j \in Elements(Bucket(KeyOf[j])')}
             /\ Active' = {j \in Jobs : j \in Running(KeyOf[j])'}
<1>1. (Queued = {j \in Jobs : j \in Elements(Bucket(KeyOf[j]))})'
        <=> Queued' = {j \in Jobs : j \in Elements(Bucket(KeyOf[j])')}
  BY DEF Elements
<1>2. (Active = {j \in Jobs : j \in Running(KeyOf[j])})'
        <=> Active' = {j \in Jobs : j \in Running(KeyOf[j])'}
  OBVIOUS
<1> QED
  BY <1>1, <1>2, WorkSets, PTL

\* enqueue lets one new job wait.
LEMMA EnqueueMoves ==
  ASSUME Shaped, InOrder, NEW j \in Jobs, Enqueue(j)
  PROVE  Queued' = Queued \cup {j} /\ j \notin Queued /\ Active' = Active
<1>1. /\ Shaped'
      /\ \A o : o # KeyOf[j] => SameWork(o)
      /\ Bucket(KeyOf[j])' = Append(Bucket(KeyOf[j]), j)
      /\ Running(KeyOf[j])' = Running(KeyOf[j])
  BY EnqueueWork
<1>2. j \in OfKey(KeyOf[j]) /\ Bucket(KeyOf[j]) \in Seq(OfKey(KeyOf[j]))
  BY BucketType DEF OfKey
<1>3. ASSUME NEW i \in Jobs
      PROVE  /\ i \in Elements(Bucket(KeyOf[i])') <=> i \in Elements(Bucket(KeyOf[i])) \/ i = j
             /\ Running(KeyOf[i])' = Running(KeyOf[i])
  <2>1. CASE KeyOf[i] = KeyOf[j]
    <3>1. Elements(Bucket(KeyOf[j])') = Elements(Bucket(KeyOf[j])) \cup {j}
      BY <1>1, <1>2, AppendElements
    <3> QED
      BY <1>1, <2>1, <3>1
  <2>2. CASE KeyOf[i] # KeyOf[j]
    BY <1>1, <2>2 DEF SameWork
  <2> QED
    BY <2>1, <2>2
<1>4. j \notin Elements(Bucket(KeyOf[j]))
  BY DEF Enqueue, InOrder, Sorted, IdAt, Elements
<1> QED
  BY <1>1, <1>3, <1>4, WorkSets, NextWorkSets

\* pop_next makes a waiting job active.
LEMMA PopNextMoves ==
  ASSUME Shaped, InOrder, PopNext
  PROVE  \E j \in Queued :
           /\ j = Head(Bucket(KeyOf[j])) /\ Bucket(KeyOf[j]) # <<>>
           /\ Queued' = Queued \ {j}
           /\ Active' = Active \cup {j}
           /\ dequeuedAt' = With(dequeuedAt, j, clock)
<1>1. PICK j \in Jobs :
        /\ Shaped'
        /\ \A o : o # KeyOf[j] => SameWork(o)
        /\ Bucket(KeyOf[j]) # <<>> /\ j = Head(Bucket(KeyOf[j]))
        /\ Bucket(KeyOf[j])' = Tail(Bucket(KeyOf[j]))
        /\ Running(KeyOf[j])' = Running(KeyOf[j]) \cup {j}
        /\ dequeuedAt' = With(dequeuedAt, j, clock)
  BY PopNextWork
<1>2. Bucket(KeyOf[j]) \in Seq(OfKey(KeyOf[j])) /\ Sorted(jobId, Bucket(KeyOf[j]))
  BY BucketType DEF InOrder
<1>3. /\ j \in Elements(Bucket(KeyOf[j]))
      /\ Elements(Bucket(KeyOf[j])') = Elements(Bucket(KeyOf[j])) \ {j}
  BY <1>1, <1>2, TailElements
<1>4. ASSUME NEW i \in Jobs
      PROVE  /\ i \in Elements(Bucket(KeyOf[i])') <=> i \in Elements(Bucket(KeyOf[i])) /\ i # j
             /\ i \in Running(KeyOf[i])' <=> i \in Running(KeyOf[i]) \/ i = j
  BY <1>1, <1>3 DEF SameWork
<1> QED
  BY <1>1, <1>3, <1>4, WorkSets, NextWorkSets

\* remove lets one waiting job go.
LEMMA WithdrawMoves ==
  ASSUME Shaped, InOrder, NEW j \in Jobs, Withdraw(j)
  PROVE  j \in Queued /\ Queued' = Queued \ {j} /\ Active' = Active
<1>1. PICK n \in 1..Len(Bucket(KeyOf[j])) :
        /\ Shaped'
        /\ \A o : o # KeyOf[j] => SameWork(o)
        /\ Running(KeyOf[j])' = Running(KeyOf[j])
        /\ Bucket(KeyOf[j])[n] = j
        /\ Bucket(KeyOf[j])' = RemoveAt(Bucket(KeyOf[j]), n)
  BY WithdrawWork
<1>2. Bucket(KeyOf[j]) \in Seq(OfKey(KeyOf[j])) /\ Sorted(jobId, Bucket(KeyOf[j]))
  BY BucketType DEF InOrder
<1>3. /\ j \in Elements(Bucket(KeyOf[j]))
      /\ Elements(Bucket(KeyOf[j])') = Elements(Bucket(KeyOf[j])) \ {j}
  <2>1. j \in Elements(Bucket(KeyOf[j]))
    BY <1>1 DEF Elements
  <2> QED
    BY <1>1, <1>2, <2>1, RemoveElements
<1>4. ASSUME NEW i \in Jobs
      PROVE  /\ i \in Elements(Bucket(KeyOf[i])') <=> i \in Elements(Bucket(KeyOf[i])) /\ i # j
             /\ Running(KeyOf[i])' = Running(KeyOf[i])
  BY <1>1, <1>3 DEF SameWork
<1> QED
  BY <1>1, <1>3, <1>4, WorkSets, NextWorkSets

\* complete and abandon settle one job.
LEMMA SettlingMoves ==
  ASSUME Shaped, NEW j \in Jobs, NEW begin, NEW end \in 0..clock,
         Complete(j, begin, end) \/ Abandon(j, end)
  PROVE  Queued' = Queued /\ Active' = Active \ {j}
<1>1. Shaped' /\ KeySettled(KeyOf[j], j)
  BY SettlingWork
<1>2. ASSUME NEW i \in Jobs
      PROVE  /\ Bucket(KeyOf[i])' = Bucket(KeyOf[i])
             /\ i \in Running(KeyOf[i])' <=> i \in Running(KeyOf[i]) /\ i # j
  BY <1>1 DEF KeySettled, SameWork
<1> QED
  BY <1>1, <1>2, WorkSets, NextWorkSets

\* drain lets all waiting jobs go.
LEMMA DrainMoves ==
  ASSUME Shaped, Drain
  PROVE  Queued' = {} /\ Active' = Active
<1>1. /\ Shaped'
      /\ \A k : Bucket(k)' = <<>> /\ Running(k)' = Running(k)
  BY DrainWork
<1>2. Elements(<<>>) = {}
  BY EmptySeq DEF Elements
<1>3. \A i \in Jobs : Elements(Bucket(KeyOf[i])') = {} /\ Running(KeyOf[i])' = Running(KeyOf[i])
  BY <1>1, <1>2
<1> QED
  BY <1>1, <1>3, WorkSets, NextWorkSets

\* No job moves when keys are only read or expire.
LEMMA IdleMoves ==
  ASSUME Shaped, Observe \/ Tick \/ (\E j \in Jobs : Refuse(j)) \/ UNCHANGED vars
  PROVE  Queued' = Queued /\ Active' = Active
<1>1. Shaped' /\ \A k : Bucket(k)' = Bucket(k) /\ Running(k)' = Running(k)
  BY IdleWork DEF SameWork
<1> QED
  BY <1>1, WorkSets, NextWorkSets

----------------------------------------------------------------------------
\* The active entries, and the counter

\* The active entries stay the unsettled pops, with their times.
LEMMA NextTracked ==
  Shaped /\ InOrder /\ ActiveKept /\ Apart /\ [Next]_vars => ActiveKept' /\ Apart'
<1> SUFFICES ASSUME Shaped, InOrder, ActiveKept, Apart, [Next]_vars
             PROVE  ActiveKept' /\ Apart'
  OBVIOUS
<1> DEFINE Kept(i) == StartOf(KeyOf[i], i)' = StartOf(KeyOf[i], i)
<1>1. /\ Active = DOMAIN dequeuedAt
      /\ \A i \in Active : StartOf(KeyOf[i], i) = dequeuedAt[i]
  BY DEF ActiveKept, StartOf, Entries
<1>2. ASSUME Active' = DOMAIN dequeuedAt',
             \A i \in Active' : StartOf(KeyOf[i], i)' = dequeuedAt'[i]
      PROVE  ActiveKept'
  BY <1>2 DEF ActiveKept, StartOf, Entries
<1>3. /\ Active = {i \in Jobs : i \in Running(KeyOf[i])}
      /\ Queued \subseteq Jobs
      /\ jobId \in [Jobs -> Nat] /\ nextJobId \in Nat \ {0}
  BY WorkSets DEF Shaped
<1>4. ASSUME Active' = Active, dequeuedAt' = dequeuedAt, Queued' \subseteq Queued,
             \A i \in Active : Kept(i), jobId' = jobId
      PROVE  ActiveKept' /\ Apart'
  BY <1>1, <1>2, <1>4 DEF Apart
<1>5. ASSUME NEW j \in Jobs, Enqueue(j) PROVE ActiveKept' /\ Apart'
  <2>1. Queued' = Queued \cup {j} /\ Active' = Active
    BY <1>5, EnqueueMoves
  <2>2. \A i \in Active : Kept(i)
    BY <1>3, <1>5, EnqueueWork DEF SameWork
  <2>3. /\ jobId[j] = 0 /\ jobId' = [jobId EXCEPT ![j] = nextJobId]
        /\ dequeuedAt' = dequeuedAt
    BY <1>5 DEF Enqueue
  <2>4. ActiveKept'
    BY <1>1, <1>2, <2>1, <2>2, <2>3
  <2>5. j \notin Active
    BY <2>3 DEF Apart
  <2> QED
    BY <1>3, <2>1, <2>3, <2>4, <2>5 DEF Apart
<1>6. CASE PopNext
  <2>1. PICK j \in Jobs :
          /\ \A o : o # KeyOf[j] => SameWork(o)
          /\ Bucket(KeyOf[j]) # <<>> /\ j = Head(Bucket(KeyOf[j]))
          /\ \A i \in Running(KeyOf[j])' :
               StartOf(KeyOf[j], i)' = IF i = j THEN clock ELSE StartOf(KeyOf[j], i)
          /\ Shaped'
          /\ dequeuedAt' = With(dequeuedAt, j, clock)
    BY <1>6, PopNextWork
  <2>2. PICK q \in Queued :
          /\ Queued' = Queued \ {q} /\ Active' = Active \cup {q}
          /\ dequeuedAt' = With(dequeuedAt, q, clock)
    BY <1>6, PopNextMoves
  <2>3. /\ jobId' = jobId /\ jobId[q] > 0
    <3>1. q \in Jobs /\ q \in Elements(Bucket(KeyOf[q])) /\ Sorted(jobId, Bucket(KeyOf[q]))
      BY WorkSets DEF InOrder
    <3>2. jobId[q] \in Nat \ {0}
      BY <3>1 DEF Elements, Sorted, IdAt
    <3> QED
      BY <1>6, <3>2 DEF PopNext
  <2>4. q \notin Active /\ q \notin DOMAIN dequeuedAt
    BY <1>1 DEF Apart
  <2>5. DOMAIN dequeuedAt' = DOMAIN dequeuedAt \cup {q} /\ DOMAIN dequeuedAt' = DOMAIN dequeuedAt \cup {j}
    BY <2>1, <2>2 DEF With
  <2>6. q = j
    BY <2>4, <2>5
  <2>7. Active' = {i \in Jobs : i \in Running(KeyOf[i])'}
    BY <2>1, NextWorkSets
  <2>8. ASSUME NEW i \in Active' PROVE StartOf(KeyOf[i], i)' = dequeuedAt'[i]
    <3>1. CASE i = j
      BY <2>1, <2>7, <3>1 DEF With
    <3>2. CASE i # j
      <4>1. i \in Active /\ i \in DOMAIN dequeuedAt /\ i \in Running(KeyOf[i])
        BY <1>1, <1>3, <2>2, <2>6, <3>2
      <4>2. Kept(i)
        BY <2>1, <2>7, <3>2, <4>1 DEF SameWork
      <4> QED
        BY <1>1, <2>1, <3>2, <4>1, <4>2 DEF With
    <3> QED
      BY <3>1, <3>2
  <2>9. ActiveKept'
    BY <1>1, <1>2, <2>2, <2>5, <2>8
  <2> QED
    BY <2>2, <2>3, <2>4, <2>9 DEF Apart
<1>7. ASSUME NEW j \in Jobs, Withdraw(j) PROVE ActiveKept' /\ Apart'
  <2>1. Queued' = Queued \ {j} /\ Active' = Active
    BY <1>7, WithdrawMoves
  <2>2. \A i \in Active : Kept(i)
    BY <1>3, <1>7, WithdrawWork DEF SameWork
  <2> QED
    BY <1>4, <1>7, <2>1, <2>2 DEF Withdraw
<1>8. ASSUME NEW j \in Jobs, NEW begin \in 0..clock, NEW end \in 0..clock,
             Complete(j, begin, end) \/ Abandon(j, end)
      PROVE  ActiveKept' /\ Apart'
  <2>1. Queued' = Queued /\ Active' = Active \ {j}
    BY <1>8, SettlingMoves
  <2>2. /\ Shaped' /\ KeySettled(KeyOf[j], j)
        /\ dequeuedAt' = Restrict(dequeuedAt, DOMAIN dequeuedAt \ {j})
    BY <1>8, SettlingWork
  <2>3. \A i \in Active' : Kept(i) /\ dequeuedAt'[i] = dequeuedAt[i]
    <3>1. Active' = {i \in Jobs : i \in Running(KeyOf[i])'}
      BY <2>2, NextWorkSets
    <3>2. \A i \in Active' : Kept(i)
      BY <1>3, <2>1, <2>2, <3>1 DEF KeySettled, SameWork
    <3> QED
      BY <1>1, <2>1, <2>2, <3>2 DEF Restrict
  <2>4. Active' = DOMAIN dequeuedAt'
    BY <1>1, <2>1, <2>2 DEF Restrict
  <2>5. ActiveKept'
    BY <1>1, <1>2, <2>1, <2>3, <2>4
  <2> QED
    BY <1>8, <2>1, <2>5 DEF Apart, Complete, Abandon
<1>9. CASE Drain
  <2>1. Queued' = {} /\ Active' = Active
    BY <1>9, DrainMoves
  <2>2. \A i \in Active : Kept(i)
    BY <1>3, <1>9, DrainWork
  <2> QED
    BY <1>4, <1>9, <2>1, <2>2 DEF Drain
<1>10. CASE Observe \/ Tick \/ (\E j \in Jobs : Refuse(j)) \/ UNCHANGED vars
  <2>1. Queued' = Queued /\ Active' = Active
    BY <1>10, IdleMoves
  <2>2. \A i \in Active : Kept(i)
    BY <1>3, <1>10, IdleWork DEF SameWork
  <2> QED
    BY <1>4, <1>10, <2>1, <2>2 DEF Observe, Tick, Refuse, vars
<1> QED
  BY <1>5, <1>6, <1>7, <1>8, <1>9, <1>10 DEF Next

\* pending_count goes up and down with the waiting jobs.
LEMMA NextCounted == Shaped /\ InOrder /\ Counted /\ [Next]_vars => Counted'
<1> SUFFICES ASSUME Shaped, InOrder, Counted, [Next]_vars PROVE Counted'
  OBVIOUS
<1>1. IsFiniteSet(Queued)
  BY WorkSets, FS_Subset, QueueAssumption
<1>2. ASSUME NEW j \in Jobs, Enqueue(j) PROVE Counted'
  <2>1. Queued' = Queued \cup {j} /\ j \notin Queued /\ pendingCount' = pendingCount + 1
    BY <1>2, EnqueueMoves DEF Enqueue
  <2> QED
    BY <1>1, <2>1, FS_AddElement DEF Counted
<1>3. CASE PopNext
  <2>1. PICK j \in Queued : Queued' = Queued \ {j}
    BY <1>3, PopNextMoves
  <2>2. pendingCount' = pendingCount - 1
    BY <1>3 DEF PopNext
  <2> QED
    BY <1>1, <2>1, <2>2, FS_RemoveElement DEF Counted
<1>4. ASSUME NEW j \in Jobs, Withdraw(j) PROVE Counted'
  <2>1. j \in Queued /\ Queued' = Queued \ {j} /\ pendingCount' = pendingCount - 1
    BY <1>4, WithdrawMoves DEF Withdraw
  <2> QED
    BY <1>1, <2>1, FS_RemoveElement DEF Counted
<1>5. ASSUME NEW j \in Jobs, NEW begin \in 0..clock, NEW end \in 0..clock,
             Complete(j, begin, end) \/ Abandon(j, end)
      PROVE  Counted'
  BY <1>5, SettlingMoves DEF Counted, Complete, Abandon
<1>6. CASE Drain
  BY <1>6, DrainMoves, FS_EmptySet DEF Counted, Drain
<1>7. CASE Observe \/ Tick \/ (\E j \in Jobs : Refuse(j)) \/ UNCHANGED vars
  BY <1>7, IdleMoves DEF Counted, Observe, Tick, Refuse, vars
<1> QED
  BY <1>2, <1>3, <1>4, <1>5, <1>6, <1>7 DEF Next

----------------------------------------------------------------------------
\* The queue's own invariants

\* The empty queue satisfies the invariant.
LEMMA InitQueueInv == Init => QueueInv
<1> SUFFICES ASSUME Init PROVE QueueInv
  OBVIOUS
<1>1. Shaped /\ \A k : Bucket(k) = <<>> /\ Running(k) = {}
  BY InitShaped
<1>2. Elements(<<>>) = {} /\ Sorted(jobId, <<>>)
  BY EmptySeq DEF Elements, Sorted
<1>3. Queued = {} /\ Active = {}
  BY <1>1, <1>2, WorkSets
<1>4. ActiveKept /\ Apart
  BY <1>3, EmptyMap DEF Init, ActiveKept, Apart
<1>5. Counted
  BY <1>3, FS_EmptySet DEF Init, Counted
<1> QED
  BY <1>1, <1>2, <1>4, <1>5 DEF QueueInv, InOrder

\* QueueInv holds initially and every step keeps it.
THEOREM QueueInvariance == Spec => []QueueInv
<1>1. QueueInv /\ [Next]_vars => QueueInv'
  BY NextShaped, NextInOrder, NextTracked, NextCounted DEF QueueInv
<1> QED
  BY <1>1, InitQueueInv, PTL DEF Spec

\* For any number of keys and jobs and any grace period, a key is idle exactly
\* when it has neither a waiting nor an active job.
THEOREM IdleKeysHaveNoWork == Spec => []IdleAgrees
<1>1. QueueInv => IdleAgrees
  BY DEF QueueInv, Shaped, StatesShaped, IdleAgrees, Idle
<1> QED
  BY <1>1, QueueInvariance, PTL

\* The expiry of idle keys never loses the active entry of a job that was
\* popped and not settled, nor its pop time.
THEOREM ActiveEntriesKept == Spec => []ActiveKept
<1>1. QueueInv => ActiveKept
  BY DEF QueueInv
<1> QED
  BY <1>1, QueueInvariance, PTL

\* pending_count is the number of waiting jobs, and no job waits twice.
THEOREM PendingCountIsExact == Spec => []CountAgrees
<1>1. QueueInv => CountAgrees
  <2> SUFFICES ASSUME QueueInv, NEW k \in DOMAIN states,
                      NEW a \in DOMAIN states[k].fifo, NEW b \in DOMAIN states[k].fifo,
                      states[k].fifo[a] = states[k].fifo[b]
               PROVE  a = b
    BY DEF QueueInv, Counted, CountAgrees, IsInjective
  <2>1. Bucket(k) = states[k].fifo /\ Bucket(k) \in Seq(OfKey(k)) /\ Shaped
    BY BucketType DEF QueueInv, Bucket, Fifo
  <2>2. /\ Len(Bucket(k)) \in Nat
        /\ a \in 1..Len(Bucket(k)) /\ b \in 1..Len(Bucket(k))
        /\ Bucket(k)[a] \in Jobs /\ k = KeyOf[Bucket(k)[a]]
    BY <2>1, BucketType, LenProperties
  <2>3. Sorted(jobId, Bucket(k))
    BY <2>2 DEF QueueInv, InOrder
  <2> QED
    BY <2>1, <2>2, <2>3, SortedIsInjective
<1> QED
  BY <1>1, QueueInvariance, PTL

\* Jobs of one key are popped in the order of their admission.
THEOREM KeysAreServedInOrder == Spec => FifoPerKey
<1>1. QueueInv /\ [Next]_vars =>
        \A j \in DOMAIN dequeuedAt' \ DOMAIN dequeuedAt :
          \A i \in Queued' : KeyOf[i] = KeyOf[j] => jobId[j] < jobId[i]
  <2> SUFFICES ASSUME QueueInv, [Next]_vars,
                      NEW j \in DOMAIN dequeuedAt' \ DOMAIN dequeuedAt,
                      NEW i \in Queued', KeyOf[i] = KeyOf[j]
               PROVE  jobId[j] < jobId[i]
    OBVIOUS
  <2> USE DEF QueueInv
  <2>1. PopNext
    <3>1. ASSUME NEW h \in Jobs, NEW begin, NEW end,
                 Complete(h, begin, end) \/ Abandon(h, end)
          PROVE  FALSE
      BY <3>1 DEF Complete, Abandon, Restrict
    <3> QED
      BY <3>1 DEF Next, vars, Refuse, Enqueue, Withdraw, Drain, Observe, Tick
  <2>2. PICK q \in Queued :
          /\ q = Head(Bucket(KeyOf[q])) /\ Bucket(KeyOf[q]) # <<>>
          /\ Queued' = Queued \ {q}
          /\ dequeuedAt' = With(dequeuedAt, q, clock)
    BY <2>1, PopNextMoves
  <2>3. j = q
    BY <2>2 DEF With
  <2> DEFINE f == Bucket(KeyOf[j])
  <2>4. /\ f \in Seq(OfKey(KeyOf[j])) /\ f # <<>> /\ j = Head(f)
        /\ i \in Elements(f) /\ i # j /\ Sorted(jobId, f)
    BY <2>2, <2>3, BucketType, WorkSets DEF InOrder
  <2> HIDE DEF f
  <2>5. Len(f) \in Nat \ {0} /\ j = f[1]
    BY <2>4, HeadTailProperties, LenProperties
  <2>6. PICK m \in 1..Len(f) : i = f[m]
    BY <2>4 DEF Elements
  <2>7. 1 \in 1..Len(f) /\ 1 < m
    BY <2>4, <2>5, <2>6
  <2>8. IdAt(jobId, f, 1) < IdAt(jobId, f, m)
    BY <2>4, <2>7 DEF Sorted
  <2> QED
    BY <2>5, <2>6, <2>8 DEF IdAt
<1> QED
  BY <1>1, QueueInvariance, PTL DEF Spec, FifoPerKey

----------------------------------------------------------------------------
\* The queue implements PendingPool

\* The length of a bucket is the number of waiting jobs of its key.
LEMMA BucketSize ==
  ASSUME Shaped, InOrder, NEW j \in Jobs
  PROVE  Cardinality({i \in Queued : KeyOf[i] = KeyOf[j]}) = Len(Bucket(KeyOf[j]))
<1> DEFINE k == KeyOf[j]
           f == Bucket(k)
           S == {i \in Queued : KeyOf[i] = k}
<1>1. /\ f \in Seq(OfKey(k)) /\ Len(f) \in Nat /\ Sorted(jobId, f)
      /\ \A i \in 1..Len(f) : f[i] \in Jobs /\ KeyOf[f[i]] = k
  BY BucketType DEF InOrder
<1>2. S = Elements(f)
  BY <1>1, WorkSets DEF Elements
<1> HIDE DEF f, S
<1>3. \A i, m \in 1..Len(f) : f[i] = f[m] => i = m
  BY <1>1, SortedIsInjective
<1> DEFINE g == [i \in 1..Len(f) |-> f[i]]
<1>4. g \in Bijection(1..Len(f), S)
  <2>1. /\ DOMAIN g = 1..Len(f)
        /\ \A i \in 1..Len(f) : g[i] = f[i] /\ f[i] \in S
        /\ \A x \in S : \E i \in 1..Len(f) : f[i] = x
    BY <1>2 DEF Elements
  <2>2. g \in [1..Len(f) -> S]
    BY <2>1
  <2> HIDE DEF g
  <2>3. \A i, m \in 1..Len(f) : g[i] = g[m] => i = m
    BY <1>3, <2>1
  <2>4. \A x \in S : \E i \in 1..Len(f) : g[i] = x
    BY <2>1
  <2> QED
    BY <2>2, <2>3, <2>4 DEF Bijection, Injection, Surjection, IsInjective
<1>5. ExistsBijection(1..Len(f), S)
  BY <1>4 DEF ExistsBijection
<1>6. Cardinality(S) = Len(f)
  BY <1>1, <1>5, FS_CountingElements
<1> QED
  BY <1>6 DEF f, S

\* What enqueue compares with the limit of a key is the number of its waiting jobs.
LEMMA FullnessIs ==
  ASSUME QueueInv, NEW j \in Jobs
  PROVE  /\ KeyQueueFull(Fresh(clock), KeyOf[j]) <=> Pool!KeyFull(j)
         /\ QueueFull <=> Pool!TotalFull
<1> USE DEF QueueInv
<1>1. KeyQueueFull(Fresh(clock), KeyOf[j]) <=> Len(Bucket(KeyOf[j])) >= MaxPerKey
  <2> DEFINE k == KeyOf[j]
             live == Fresh(clock)
  <2>1. Live(live)
    BY FreshIsLive DEF Shaped
  <2> SUFFICES KeyQueueFull(live, k) <=> Len(Bucket(k)) >= MaxPerKey
    OBVIOUS
  <2> HIDE DEF live
  <2>2. CASE k \in DOMAIN live
    BY <2>1, <2>2 DEF Live, KeyQueueFull, Bucket, Fifo
  <2>3. CASE k \notin DOMAIN live
    <3>1. Bucket(k) = <<>>
      BY <2>1, <2>3, BusyIs DEF Live, Bucket
    <3>2. Len(Bucket(k)) = 0
      BY <3>1, EmptySeq
    <3> QED
      BY <2>3, <3>2, QueueAssumption DEF KeyQueueFull
  <2> QED
    BY <2>2, <2>3
<1>2. Pool!KeyFull(j) <=> Len(Bucket(KeyOf[j])) >= MaxPerKey
  BY BucketSize DEF Pool!KeyFull, Pool!SameKey, Pool!Cardinality, Cardinality
<1>3. QueueFull <=> Pool!TotalFull
  BY DEF QueueFull, Counted, Pool!TotalFull, Pool!Cardinality, Cardinality
<1> QED
  BY <1>1, <1>2, <1>3

\* Each operation is one of PendingPool's, or changes none of its variables.
LEMMA NextPool ==
  ASSUME QueueInv, [Next]_vars
  PROVE  Pool!Next \/ UNCHANGED <<Queued, Active>>
<1> USE DEF QueueInv
<1>1. Queued \subseteq Jobs /\ Queued \cap Active = {}
  BY WorkSets DEF Apart
<1>2. ASSUME NEW j \in Jobs, Enqueue(j) PROVE Pool!Next
  <2>1. Queued' = Queued \cup {j} /\ j \notin Queued /\ Active' = Active
    BY <1>2, EnqueueMoves
  <2>2. j \notin Active
    BY <1>2 DEF Apart, Enqueue
  <2>3. ~Pool!KeyFull(j) /\ ~Pool!TotalFull
    BY <1>2, FullnessIs DEF Enqueue
  <2>4. Pool!Admit(j)
    BY <2>1, <2>3 DEF Pool!Admit
  <2> QED
    BY <2>1, <2>2, <2>4 DEF Pool!Next
<1>3. CASE PopNext
  <2>1. PICK j \in Queued : Queued' = Queued \ {j} /\ Active' = Active \cup {j}
    BY <1>3, PopNextMoves
  <2> QED
    BY <1>1, <2>1 DEF Pool!Next, Pool!Pop
<1>4. ASSUME NEW j \in Jobs, Withdraw(j) PROVE Pool!Next
  BY <1>4, WithdrawMoves DEF Pool!Next, Pool!Withdraw
<1>5. ASSUME NEW j \in Jobs, NEW begin \in 0..clock, NEW end \in 0..clock,
             Complete(j, begin, end) \/ Abandon(j, end)
      PROVE  Pool!Next
  BY <1>5, SettlingMoves DEF Pool!Next, Pool!Settle
<1>6. CASE Drain
  BY <1>6, DrainMoves DEF Pool!Next, Pool!DrainAll
<1>7. CASE Observe \/ Tick \/ (\E j \in Jobs : Refuse(j)) \/ UNCHANGED vars
  BY <1>7, IdleMoves
<1> QED
  BY <1>2, <1>3, <1>4, <1>5, <1>6, <1>7 DEF Next

\* For any keys, limits, grace period and history, each of the two checks of enqueue is
\* true exactly when its limit is reached.
THEOREM RefusalsAreJustified == Spec => [](\A j \in Jobs : LimitsAreSeen(j))
<1>1. QueueInv => \A j \in Jobs : LimitsAreSeen(j)
  BY FullnessIs DEF LimitsAreSeen
<1> QED
  BY <1>1, QueueInvariance, PTL

\* For any keys, weights, limits and grace period, the queue is a pool in which
\* both limits are kept, a job that is popped or settled is one that waits or
\* runs, the expiry of idle keys cannot be seen, and no job is turned away that
\* there is room for.
THEOREM QueueIsAPool == Spec => ImplementsPool
<1>1. Init => Pool!Init
  <2> SUFFICES ASSUME Init PROVE Pool!Init
    OBVIOUS
  <2>1. Queued = {} /\ Active = {}
    BY DEF Init, Queued, Active
  <2> QED
    BY <2>1 DEF Pool!Init
<1>2. QueueInv /\ [Next]_vars => [Pool!Next]_(Pool!poolVars)
  BY NextPool DEF Pool!poolVars
<1>3. Spec => Pool!Spec
  BY <1>1, <1>2, QueueInvariance, PTL DEF Spec, Pool!Spec
<1> QED
  BY <1>3, RefusalsAreJustified, PTL DEF ImplementsPool

============================================================================
