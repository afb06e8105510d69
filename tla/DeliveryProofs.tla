--------------------------- MODULE DeliveryProofs ---------------------------
(*****************************************************************************)
(* Proofs about what reaches an application: the dispatcher of               *)
(* PriorityDispatch.tla, for every capacity of the queues and every number   *)
(* of samples, and the authenticated link of SecureLink.tla, for every       *)
(* range of the counters, any number of frames, restarts and faults of the   *)
(* line.                                                                     *)
(*****************************************************************************)
EXTENDS PriorityDispatch, SecureLink, TLAPS

-----------------------------------------------------------------------------
(* Sequences *)

LEMMA EmptySeq ==
    ASSUME NEW S
    PROVE  /\ <<>> \in Seq(S) /\ Len(<<>>) = 0
           /\ \A q \in Seq(S) : q # <<>> => Len(q) \in Nat \ {0}
  OBVIOUS

LEMMA HeadTailProperties ==
    ASSUME NEW S, NEW q \in Seq(S), q # <<>>
    PROVE  /\ Head(q) \in S /\ Tail(q) \in Seq(S) /\ Len(Tail(q)) = Len(q) - 1
           /\ \A i \in 1 .. Len(Tail(q)) : Tail(q)[i] = q[i + 1]
  OBVIOUS

LEMMA ConcatProperties ==
    ASSUME NEW S, NEW p \in Seq(S), NEW q \in Seq(S)
    PROVE  /\ p \o q \in Seq(S) /\ Len(p \o q) = Len(p) + Len(q)
           /\ \A i \in 1 .. Len(p) + Len(q) :
                (p \o q)[i] = IF i <= Len(p) THEN p[i] ELSE q[i - Len(p)]
  OBVIOUS

LEMMA LenProperties ==
    ASSUME NEW S, NEW q \in Seq(S)
    PROVE  Len(q) \in Nat /\ q \in [1 .. Len(q) -> S] /\ DOMAIN q = 1 .. Len(q)
  OBVIOUS

LEMMA AppendProperties ==
    ASSUME NEW S, NEW q \in Seq(S), NEW e \in S
    PROVE  /\ Append(q, e) \in Seq(S) /\ Append(q, e) # <<>>
           /\ Len(Append(q, e)) = Len(q) + 1 /\ Append(q, e)[Len(q) + 1] = e
           /\ \A i \in 1 .. Len(q) : Append(q, e)[i] = q[i]
  OBVIOUS

LEMMA ElementOfSeq ==
    ASSUME NEW S, NEW q \in Seq(S), NEW i \in 1 .. Len(q)
    PROVE  q[i] \in S
  OBVIOUS

-----------------------------------------------------------------------------
(* Arithmetic on the slots of a pool, and facts on sequences *)

\* The slot of the pool that sample number n of a topic is written to.
Home(n) == (n - 1) % QUEUE_CAPACITY

LEMMA Divided ==
    ASSUME NEW w \in Nat \ {0}, NEW x \in Int
    PROVE  \E q \in Int, r \in 0 .. w - 1 : x = w * q + r /\ r = x % w
  <1>1. x % w \in 0 .. w - 1 /\ x \div w \in Int /\ (x % w) + (x \div w) * w = x
    OBVIOUS
  <1> QED
    BY <1>1

LEMMA Quotient ==
    ASSUME NEW w \in Nat \ {0}, NEW q \in Int, NEW r \in 0 .. w - 1, NEW x \in Int,
           x = w * q + r
    PROVE  x % w = r
  <1>1. PICK p \in Int, s \in 0 .. w - 1 : x = w * p + s /\ s = x % w
    BY Zenon, Divided
  <1>2. w * (q - p) = s - r
    BY <1>1
  <1>3. ~(q - p >= 1)
    BY <1>1, <1>2
  <1>4. ~(q - p <= -1)
    BY <1>1, <1>2
  <1>5. p = q
    BY <1>3, <1>4
  <1>6. s = r
    BY <1>1, <1>5
  <1> QED
    BY <1>1, <1>6

LEMMA Homes ==
    ASSUME NEW n \in Nat \ {0}
    PROVE  /\ Home(n) \in Slots
           /\ (Home(n) + 1) % QUEUE_CAPACITY = Home(n + 1)
           /\ \A m \in Nat : m > n /\ m - n < QUEUE_CAPACITY => Home(m) # Home(n)
  <1> DEFINE w == QUEUE_CAPACITY
  <1>0. w \in Nat \ {0}
    BY DispatchAssumption
  <1> HIDE DEF w
  <1>1. PICK x \in Int : x = n - 1
    OBVIOUS
  <1>2. PICK q \in Int, r \in 0 .. w - 1 : x = w * q + r /\ r = x % w
    BY <1>0, Divided
  <1>3. Home(n) = r
    BY Zenon, <1>1, <1>2 DEF Home, w
  <1>4. (r + 1) % w = Home(n + 1)
    <2>1. PICK y \in Int : y = n + 1 - 1 /\ y = w * q + (r + 1)
      BY <1>0, <1>1, <1>2
    <2>2. Home(n + 1) = y % w
      BY <2>1 DEF Home, w
    <2>3. CASE r + 1 < w
      <3>1. PICK z \in 0 .. w - 1 : z = r + 1
        BY <1>0, <2>3
      <3>2. z % w = z /\ y % w = z
        BY <1>0, <2>1, <3>1, Quotient
      <3> QED
        BY <2>2, <3>1, <3>2
    <2>4. CASE r + 1 = w
      <3>1. w % w = 0
        BY <1>0, Quotient
      <3>2. PICK p \in Int : p = q + 1
        OBVIOUS
      <3>3. y = w * p + 0
        BY <1>0, <2>1, <2>4, <3>2
      <3>4. y % w = 0
        BY <1>0, <3>3, Quotient
      <3> QED
        BY <2>2, <2>4, <3>1, <3>4
    <2> QED
      BY <1>0, <1>2, <2>3, <2>4
  <1>5. ASSUME NEW m \in Nat, m > n, m - n < w
        PROVE  Home(m) # Home(n)
    <2>1. PICK y \in Int : y = m - 1
      OBVIOUS
    <2>2. PICK p \in Int, s \in 0 .. w - 1 : y = w * p + s /\ s = y % w
      BY <1>0, Divided
    <2>3. Home(m) = s
      BY Zenon, <2>1, <2>2 DEF Home, w
    <2>4. s # r
      <3> SUFFICES ASSUME s = r PROVE FALSE
        OBVIOUS
      <3>1. w * (p - q) = m - n
        BY <1>0, <1>1, <1>2, <2>1, <2>2
      <3>2. ~(p - q >= 1)
        BY <1>0, <1>5, <3>1
      <3>3. ~(p - q <= 0)
        BY <1>0, <1>5, <3>1
      <3> QED
        BY <3>2, <3>3
    <2> QED
      BY <1>3, <2>3, <2>4
  <1> QED
    BY <1>2, <1>3, <1>4, <1>5 DEF Slots, w

LEMMA Appended ==
    ASSUME NEW S, NEW s \in Seq(S), NEW e \in S
    PROVE  /\ Append(s, e) \in Seq(S) /\ Len(Append(s, e)) = Len(s) + 1
           /\ \A i \in 1 .. Len(s) : Append(s, e)[i] = s[i]
           /\ Append(s, e)[Len(s) + 1] = e
  OBVIOUS

LEMMA Tailed ==
    ASSUME NEW S, NEW s \in Seq(S), s # <<>>
    PROVE  /\ Tail(s) \in Seq(S) /\ Len(Tail(s)) = Len(s) - 1 /\ Len(s) \in Nat \ {0}
           /\ Head(s) = s[1] /\ Head(s) \in S
           /\ \A i \in 1 .. Len(Tail(s)) : Tail(s)[i] = s[i + 1]
  OBVIOUS

-----------------------------------------------------------------------------
(* Types *)

Pointer == [slot : Slots, n : Nat]

TypeOK ==
    /\ at \in [Task -> {"poll", "send", "sleep", "receive", "stamp", "value", "work"}]
    /\ at[POLLER] \in {"poll", "send", "sleep"}
    /\ \A c \in Consumer : at[c] \in {"receive", "stamp", "value", "work"}
    /\ queue \in [Consumer -> Seq(Pointer)]
    /\ pool \in [Consumer -> [Slots -> Nat]]
    /\ pool_next \in [Consumer -> Slots]
    /\ item \in [Task -> Pointer]
    /\ topic \in Consumer
    /\ latency \in [Consumer -> Nat]
    /\ sent \in [Consumer -> Nat]
    /\ got \in [Consumer -> [n : Nat, stamp : Nat, value : Nat]]
    /\ lapped \in [Consumer -> BOOLEAN]

LEMMA Tasks ==
    /\ Task = {1, 2, 3} /\ Consumer = {2, 3} /\ POLLER = 1 /\ HIGH = 2 /\ LOW = 3
    /\ QUEUE_CAPACITY \in Nat \ {0} /\ MaxSamples \in Nat
  BY DispatchAssumption DEF POLLER, HIGH, LOW, Consumer

LEMMA TypeInit == DispatchInit => TypeOK
  <1> SUFFICES ASSUME DispatchInit PROVE TypeOK
    OBVIOUS
  <1>1. 0 \in Slots /\ NoItem \in Pointer
    BY Tasks DEF Slots, NoItem, Pointer
  <1>2. <<>> \in Seq(Pointer)
    OBVIOUS
  <1> QED
    BY <1>1, <1>2, Tasks DEF DispatchInit, TypeOK

LEMMA Typed ==
    ASSUME TypeOK, NEW c \in Consumer
    PROVE  /\ pool_next[c] \in Slots /\ sent[c] \in Nat /\ latency[c] \in Nat
           /\ queue[c] \in Seq(Pointer) /\ pool[c] \in [Slots -> Nat]
           /\ c \in Task /\ POLLER \in Task /\ c # POLLER /\ topic \in Consumer
           /\ got[c] \in [n : Nat, stamp : Nat, value : Nat]
           /\ \A t \in Task : /\ item[t] \in Pointer /\ item[t].slot \in Slots /\ item[t].n \in Nat
                              /\ pool[c][item[t].slot] \in Nat
           /\ Slots \subseteq Int
  <1>1. pool_next[c] \in Slots /\ sent[c] \in Nat /\ latency[c] \in Nat
    BY DEF TypeOK
  <1>2. queue[c] \in Seq(Pointer) /\ pool[c] \in [Slots -> Nat] /\ topic \in Consumer
    BY DEF TypeOK
  <1>3. c \in Task /\ POLLER \in Task /\ c # POLLER
    BY Tasks
  <1>4. got[c] \in [n : Nat, stamp : Nat, value : Nat]
    BY DEF TypeOK
  <1>5. ASSUME NEW t \in Task
        PROVE  /\ item[t] \in Pointer /\ item[t].slot \in Slots /\ item[t].n \in Nat
               /\ pool[c][item[t].slot] \in Nat
    <2>1. item[t] \in Pointer
      BY DEF TypeOK
    <2>2. item[t].slot \in Slots /\ item[t].n \in Nat
      BY <2>1 DEF Pointer
    <2> QED
      BY <1>2, <2>1, <2>2
  <1>6. Slots \subseteq Int
    BY Tasks DEF Slots
  <1> QED
    BY <1>1, <1>2, <1>3, <1>4, <1>5, <1>6

-----------------------------------------------------------------------------
(* The samples of a topic, from the pool to the callback *)

\* The consumer has a pointer it will read from; the poller has one to send.
Reading(c) == at[c] \in {"stamp", "value"}
Sending(c) == at[POLLER] = "send" /\ topic = c

\* How many of the topic's samples have been taken from the queue.
Taken(c) == got[c].n + (IF Reading(c) THEN 1 ELSE 0)

\* A pointer to a sample's slot, which holds that sample or, when the pool was lapped, a
\* newer one.
Held(c, p) ==
    /\ p.n > 0 /\ p.slot = Home(p.n)
    /\ pool[c][p.slot] >= p.n
    /\ ~lapped[c] => pool[c][p.slot] = p.n

\* The samples that have arrived and not reached their callback are numbered without a
\* gap: the one being read, those in the queue, and the one to be sent.
SampleInv(c) ==
    /\ pool_next[c] = Home(sent[c] + 1)
    /\ \A s \in Slots : pool[c][s] <= sent[c]
    /\ sent[c] = Taken(c) + Len(queue[c]) + (IF Sending(c) THEN 1 ELSE 0)
    /\ \A k \in 1 .. Len(queue[c]) : queue[c][k].n = Taken(c) + k /\ Held(c, queue[c][k])
    /\ Reading(c) => item[c].n = Taken(c) /\ Held(c, item[c])
    /\ Sending(c) => item[POLLER].n = sent[c] /\ Held(c, item[POLLER])
    /\ at[c] = "value" => latency[c] >= item[c].n /\ pool[c][item[c].slot] >= latency[c]

LEMMA SampleInit == DispatchInit => \A c \in Consumer : SampleInv(c)
  <1> SUFFICES ASSUME DispatchInit, NEW c \in Consumer PROVE SampleInv(c)
    OBVIOUS
  <1>1. /\ pool_next[c] = 0 /\ sent[c] = 0 /\ got[c].n = 0 /\ queue[c] = <<>>
        /\ at[c] = "receive" /\ at[POLLER] = "poll" /\ \A s \in Slots : pool[c][s] = 0
    BY Tasks DEF DispatchInit
  <1>2. Len(queue[c]) = 0
    BY <1>1
  <1>3. Home(0 + 1) = 0
    <2>1. PICK x \in Int : x = 0 + 1 - 1 /\ x = QUEUE_CAPACITY * 0 + 0
      BY Tasks
    <2>2. x % QUEUE_CAPACITY = 0
      BY <2>1, Quotient, Tasks
    <2> QED
      BY <2>1, <2>2 DEF Home
  <1> QED
    BY <1>1, <1>2, <1>3 DEF SampleInv, Reading, Sending, Taken

\* The steps that leave a topic's data alone.
LEMMA SampleSame ==
    ASSUME TypeOK, NEW c \in Consumer, SampleInv(c),
           Reading(c)' = Reading(c), Sending(c)' = Sending(c),
           at'[c] = "value" => at[c] = "value",
           UNCHANGED <<pool_next[c], sent[c], got[c], queue[c], pool[c], lapped[c]>>,
           Reading(c) => item'[c] = item[c],
           at[c] = "value" => latency'[c] = latency[c],
           Sending(c) => item'[POLLER] = item[POLLER]
    PROVE  SampleInv(c)'
  <1>1. Taken(c)' = Taken(c)
    BY DEF Taken
  <1>2. \A p : Held(c, p)' <=> Held(c, p)
    BY DEF Held
  <1>3. at'[c] = "value" => Reading(c)
    BY DEF Reading
  <1> QED
    BY Zenon, <1>1, <1>2, <1>3 DEF SampleInv
\* poll_once() writes the slot before queue_send(): a pointer in use still leads to its own
\* sample, unless the pool is lapped.
LEMMA SampleArrives ==
    ASSUME TypeOK, NEW c \in Consumer, SampleInv(c), poll_once(c)
    PROVE  SampleInv(c)'
  <1>1. PICK n \in Nat \ {0}, l \in Nat : n = sent[c] + 1 /\ l = Len(queue[c])
    <2>1. sent[c] \in Nat /\ queue[c] \in Seq(Pointer)
      BY Zenon, Typed
    <2>2. Len(queue[c]) \in Nat
      BY <2>1
    <2> QED
      BY <2>1, <2>2
  <1>2. PICK s \in Slots : s = Home(n) /\ s = pool_next[c]
    BY Zenon, <1>1, Typed DEF SampleInv
  <1>3. /\ at[POLLER] = "poll" /\ at'[POLLER] = "send" /\ at'[c] = at[c]
        /\ topic' = c /\ UNCHANGED <<queue, latency, got>>
    BY Zenon, Typed DEF poll_once, On, Goto, TypeOK
  <1>4. sent'[c] = n
    BY <1>1 DEF poll_once, TypeOK
  <1>5. item'[POLLER] = [slot |-> s, n |-> n] /\ item'[c] = item[c]
    BY Zenon, <1>2, <1>4, Typed DEF poll_once, NextSlot, TypeOK
  <1>6. /\ pool'[c][s] = n
        /\ \A i \in Slots \ {s} : pool'[c][i] = pool[c][i]
    BY Zenon, <1>2, <1>4, Typed DEF poll_once, NextSlot, TypeOK
  <1>7. pool_next'[c] = Home(n + 1)
    <2>1. pool_next'[c] = (s + 1) % QUEUE_CAPACITY
      BY Zenon, <1>2 DEF poll_once, TypeOK
    <2> QED
      BY Zenon, <1>2, <2>1, Homes
  <1>8. /\ ~lapped'[c] => ~lapped[c] /\ InUse(c) < QUEUE_CAPACITY
        /\ InUse(c) = l + (IF Reading(c) THEN 1 ELSE 0)
    <2>1. lapped'[c] = (lapped[c] \/ InUse(c) >= QUEUE_CAPACITY)
      BY DEF poll_once, TypeOK
    <2>2. InUse(c) = l + (IF Reading(c) THEN 1 ELSE 0)
      BY <1>1 DEF InUse, Reading
    <2>3. ~(InUse(c) >= QUEUE_CAPACITY) => InUse(c) < QUEUE_CAPACITY
      BY <2>2, Tasks
    <2> QED
      BY Zenon, <2>1, <2>2, <2>3
  <1>9. Reading(c)' = Reading(c) /\ Taken(c)' = Taken(c) /\ Sending(c)' /\ ~Sending(c)
    BY <1>3 DEF Reading, Taken, Sending
  <1>10. /\ Taken(c) \in Nat /\ sent[c] = Taken(c) + l /\ n = Taken(c) + l + 1
         /\ Reading(c) => Taken(c) > 0
    <2>1. got[c].n \in Nat
      BY Typed
    <2>2. Taken(c) \in Nat /\ (Reading(c) => Taken(c) > 0)
      BY <2>1 DEF Taken
    <2>3. sent[c] = Taken(c) + l + 0
      BY <1>1, <1>9 DEF SampleInv
    <2> QED
      BY <1>1, <2>2, <2>3
  <1>11. ASSUME NEW p \in Pointer, Held(c, p), n - p.n <= InUse(c), p.n < n
         PROVE  Held(c, p)'
    <2>1. p.n \in Nat \ {0} /\ p.slot \in Slots /\ p.slot = Home(p.n)
      BY <1>11 DEF Held, Pointer
    <2>2. pool'[c][p.slot] >= p.n
      BY <1>6, <1>11, <2>1 DEF Held
    <2>3. ASSUME ~lapped'[c] PROVE pool'[c][p.slot] = p.n
      <3>1. n - p.n < QUEUE_CAPACITY
        BY <1>8, <1>10, <1>11, <2>1, <2>3, Tasks
      <3>2. Home(n) # Home(p.n)
        BY <1>11, <2>1, <3>1, Homes
      <3> QED
        BY Zenon, <1>2, <1>6, <1>8, <1>11, <2>1, <2>3, <3>2 DEF Held
    <2> QED
      BY <2>1, <2>2, <2>3 DEF Held
  <1>12. \A i \in Slots : pool'[c][i] <= n
    <2>1. \A i \in Slots : pool[c][i] <= sent[c] /\ pool[c][i] \in Nat /\ sent[c] \in Nat
      BY Zenon, Typed DEF SampleInv
    <2> QED
      BY <1>1, <1>6, <2>1
  <1>13. ASSUME NEW k \in 1 .. l
         PROVE  queue[c][k].n = Taken(c) + k /\ Held(c, queue[c][k])'
    <2>1. queue[c][k] \in Pointer
      BY <1>1, Typed
    <2>2. queue[c][k].n = Taken(c) + k /\ Held(c, queue[c][k])
      BY Zenon, <1>1 DEF SampleInv
    <2>3. n - queue[c][k].n <= InUse(c) /\ queue[c][k].n < n
      BY <1>8, <1>10, <2>2
    <2>4. PICK p \in Pointer : p = queue[c][k]
      BY <2>1
    <2>5. Held(c, p)'
      BY Zenon, <1>11, <2>2, <2>3, <2>4
    <2> QED
      BY <1>3, <2>2, <2>4, <2>5
  <1>14. Reading(c) => item[c].n = Taken(c) /\ Held(c, item[c])'
    <2> SUFFICES ASSUME Reading(c) PROVE item[c].n = Taken(c) /\ Held(c, item[c])'
      OBVIOUS
    <2>1. item[c].n = Taken(c) /\ Held(c, item[c])
      BY Zenon DEF SampleInv
    <2>2. PICK p \in Pointer : p = item[c]
      BY Zenon, Typed
    <2>3. Held(c, p)'
      BY <1>8, <1>10, <1>11, <2>1, <2>2
    <2> QED
      BY <1>5, <2>1, <2>2, <2>3
  <1>15. Held(c, item[POLLER])'
    <2>1. item'[POLLER].n = n /\ item'[POLLER].slot = s
      BY <1>5
    <2>2. n > 0 /\ n >= n
      OBVIOUS
    <2> QED
      BY Zenon, <1>2, <1>6, <2>1, <2>2 DEF Held
  <1>16. at[c] = "value" => /\ latency[c] >= item[c].n
                            /\ pool'[c][item[c].slot] >= latency[c]
    <2> SUFFICES ASSUME at[c] = "value"
                 PROVE  latency[c] >= item[c].n /\ pool'[c][item[c].slot] >= latency[c]
      OBVIOUS
    <2>1. /\ latency[c] >= item[c].n /\ pool[c][item[c].slot] >= latency[c]
          /\ pool[c][item[c].slot] <= sent[c] /\ item[c].slot \in Slots
      BY Zenon, Typed DEF SampleInv
    <2>2. latency[c] <= n
      BY SMTT(30), <1>1, <2>1, Typed
    <2> QED
      BY <1>6, <2>1, <2>2
  <1>17. \A k \in 1 .. Len(queue'[c]) :
             queue'[c][k].n = Taken(c)' + k /\ Held(c, queue[c][k])'
    BY <1>1, <1>3, <1>9, <1>13
  <1>18. sent'[c] = Taken(c)' + Len(queue'[c]) + 1
    BY <1>1, <1>3, <1>4, <1>9, <1>10
  <1> QED
    BY <1>3, <1>4, <1>5, <1>7, <1>9, <1>12, <1>14, <1>15, <1>16, <1>17, <1>18 DEF SampleInv

\* queue_send() puts the poller's pointer behind the others.
LEMMA SampleQueued ==
    ASSUME TypeOK, NEW c \in Consumer, SampleInv(c), Sending(c), queue_send,
           Len(queue[c]) < QUEUE_CAPACITY
    PROVE  SampleInv(c)'
  <1>1. PICK p \in Pointer, q \in Seq(Pointer) : p = item[POLLER] /\ q = queue[c]
    BY Typed
  <1>2. topic = c /\ p.n = sent[c] /\ Held(c, p)
    BY Zenon, <1>1 DEF Sending, SampleInv
  <1>3. /\ queue'[c] = Append(q, p) /\ at'[POLLER] = "sleep" /\ at'[c] = at[c]
        /\ UNCHANGED <<pool, pool_next, item, latency, sent, got, lapped>>
    BY Zenon, <1>1, <1>2, Typed DEF queue_send, Goto, TypeOK
  <1>4. Reading(c)' = Reading(c) /\ Taken(c)' = Taken(c) /\ ~Sending(c)'
    BY Zenon, <1>3 DEF Reading, Taken, Sending
  <1>5. \A r : Held(c, r)' <=> Held(c, r)
    BY Zenon, <1>3 DEF Held
  <1>6. /\ Len(queue'[c]) = Len(q) + 1 /\ Len(q) \in Nat /\ queue'[c][Len(q) + 1] = p
        /\ \A k \in 1 .. Len(q) : queue'[c][k] = q[k]
    BY <1>3, Appended
  <1>7. got[c].n \in Nat
    BY Typed
  <1>8. Taken(c) \in Nat /\ sent[c] = Taken(c) + Len(q) + 1
    BY <1>1, <1>7 DEF Taken, SampleInv
  <1>9. ASSUME NEW k \in 1 .. Len(queue'[c])
        PROVE  queue'[c][k].n = Taken(c) + k /\ Held(c, queue'[c][k])
    <2>1. CASE k = Len(q) + 1
      BY <1>2, <1>6, <1>8, <2>1
    <2>2. CASE k \in 1 .. Len(q)
      BY Zenon, <1>1, <1>6, <2>2 DEF SampleInv
    <2> QED
      BY <1>6, <2>1, <2>2
  <1>10. \A k \in 1 .. Len(queue'[c]) : queue'[c][k].n = Taken(c)' + k /\ Held(c, queue[c][k])'
    BY Zenon, <1>3, <1>4, <1>9 DEF Held
  <1>11. sent'[c] = Taken(c)' + Len(queue'[c]) + 0
    BY <1>3, <1>4, <1>6, <1>8
  <1> QED
    BY Zenon, <1>3, <1>4, <1>5, <1>10, <1>11 DEF SampleInv

\* queue_receive() takes the oldest pointer, that of the next sample.
LEMMA SampleTaken ==
    ASSUME TypeOK, NEW c \in Consumer, SampleInv(c), queue_receive(c), queue[c] # <<>>
    PROVE  SampleInv(c)'
  <1>1. PICK q \in Seq(Pointer) : q = queue[c] /\ q # <<>>
    BY Zenon, Typed
  <1>2. /\ queue'[c] = Tail(q) /\ item'[c] = Head(q) /\ item'[POLLER] = item[POLLER]
        /\ at[c] = "receive" /\ at'[c] = "stamp" /\ at'[POLLER] = at[POLLER]
        /\ UNCHANGED <<pool, pool_next, topic, latency, sent, got, lapped>>
    BY Zenon, <1>1, Typed DEF queue_receive, Take, On, Goto, TypeOK
  <1>3. ~Reading(c) /\ Reading(c)' /\ Sending(c)' = Sending(c)
    BY <1>2 DEF Reading, Sending
  <1>4. got[c].n \in Nat
    BY Zenon, Typed
  <1>5. Taken(c) \in Nat /\ Taken(c)' = Taken(c) + 1
    BY <1>2, <1>3, <1>4 DEF Taken
  <1>6. \A r : Held(c, r)' <=> Held(c, r)
    BY <1>2 DEF Held
  <1>7. /\ Len(Tail(q)) = Len(q) - 1 /\ Len(q) \in Nat \ {0} /\ Head(q) = q[1]
        /\ \A k \in 1 .. Len(Tail(q)) : Tail(q)[k] = q[k + 1]
    BY <1>1, Tailed
  <1>8. item'[c].n = Taken(c) + 1 /\ Held(c, item'[c])
    <2>1. 1 \in 1 .. Len(q)
      BY <1>7
    <2>2. q[1].n = Taken(c) + 1 /\ Held(c, q[1])
      BY Zenon, <1>1, <2>1 DEF SampleInv
    <2> QED
      BY Zenon, <1>2, <1>7, <2>2
  <1>9. ASSUME NEW k \in 1 .. Len(queue'[c])
        PROVE  queue'[c][k].n = Taken(c) + 1 + k /\ Held(c, queue'[c][k])
    <2>1. k + 1 \in 1 .. Len(q) /\ queue'[c][k] = q[k + 1]
      BY <1>2, <1>7
    <2>2. q[k + 1].n = Taken(c) + (k + 1) /\ Held(c, q[k + 1])
      BY Zenon, <1>1, <2>1 DEF SampleInv
    <2> QED
      BY <1>5, <2>1, <2>2
  <1>10. \A k \in 1 .. Len(queue'[c]) : queue'[c][k].n = Taken(c)' + k /\ Held(c, queue[c][k])'
    BY Zenon, <1>2, <1>5, <1>9 DEF Held
  <1>11. sent'[c] = Taken(c)' + Len(queue'[c]) + (IF Sending(c)' THEN 1 ELSE 0)
    <2>1. sent[c] = Taken(c) + Len(q) + (IF Sending(c) THEN 1 ELSE 0)
      BY Zenon, <1>1 DEF SampleInv
    <2> QED
      BY <1>2, <1>3, <1>5, <1>7, <2>1
  <1>12. item'[c].n = Taken(c)' /\ Held(c, item'[c])
    BY Zenon, <1>5, <1>8
  <1>13. ~Reading(c) /\ at'[c] # "value"
    BY <1>2, <1>3
  <1> QED
    BY Zenon, <1>2, <1>3, <1>6, <1>10, <1>11, <1>12, <1>13 DEF SampleInv

\* The callback reads the stamp, and then the value.
LEMMA SampleStamp ==
    ASSUME TypeOK, NEW c \in Consumer, SampleInv(c), read_stamp(c)
    PROVE  SampleInv(c)'
  <1>1. at[c] = "stamp"
    BY Zenon DEF read_stamp, On
  <1>2. Reading(c) /\ Held(c, item[c]) /\ item[c].n = Taken(c) /\ item[c].n \in Nat
    BY Zenon, <1>1, Typed DEF Reading, SampleInv
  <1>3. /\ UNCHANGED <<queue, pool, pool_next, item, topic, sent, got, lapped>>
        /\ at'[POLLER] = at[POLLER] /\ at'[c] = "value"
        /\ latency'[c] = pool[c][item[c].slot]
    BY Zenon, Typed DEF read_stamp, Goto, TypeOK
  <1>4. Sending(c)' = Sending(c) /\ \A p : Held(c, p)' <=> Held(c, p)
    BY <1>3 DEF Sending, Held
  <1>5. Reading(c)' /\ Taken(c)' = Taken(c)
    BY <1>2, <1>3 DEF Reading, Taken
  <1>6. latency'[c] >= item[c].n /\ pool[c][item[c].slot] >= latency'[c]
    <2>1. pool[c][item[c].slot] \in Nat /\ pool[c][item[c].slot] >= item[c].n
      BY Zenon, <1>2, Typed DEF Held
    <2> QED
      BY <1>3, <2>1
  <1> QED
    BY Zenon, <1>2, <1>3, <1>4, <1>5, <1>6 DEF SampleInv

LEMMA SampleValue ==
    ASSUME TypeOK, NEW c \in Consumer, SampleInv(c), read_value(c)
    PROVE  SampleInv(c)'
  <1>1. at[c] = "value"
    BY Zenon DEF read_value, On
  <1>2. Reading(c) /\ item[c].n = Taken(c)
    BY Zenon, <1>1 DEF Reading, SampleInv
  <1>3. /\ UNCHANGED <<queue, pool, pool_next, item, topic, sent, latency, lapped>>
        /\ at'[POLLER] = at[POLLER] /\ at'[c] \in {"work", "receive"}
        /\ got'[c].n = item[c].n
    BY Zenon, Typed DEF read_value, Goto, TypeOK
  <1>4. Sending(c)' = Sending(c) /\ \A p : Held(c, p)' <=> Held(c, p)
    BY Zenon, <1>3 DEF Sending, Held
  <1>5. ~Reading(c)' /\ at'[c] # "value"
    BY <1>3 DEF Reading
  <1>6. Taken(c)' = Taken(c)
    <2>1. Taken(c)' = got'[c].n + 0
      BY Zenon, <1>5 DEF Taken
    <2>2. item[c].n \in Nat
      BY Zenon, Typed
    <2> QED
      BY <1>2, <1>3, <2>1, <2>2
  <1> QED
    BY Zenon, <1>3, <1>4, <1>5, <1>6 DEF SampleInv

LEMMA SampleStep ==
    ASSUME TypeOK, \A d \in Consumer : SampleInv(d), [DispatchNext]_dispatchVars,
           NEW c \in Consumer
    PROVE  SampleInv(c)'
  <1>0. c \in Task /\ POLLER \in Task /\ c # POLLER
        /\ at \in [Task -> {"poll", "send", "sleep", "receive", "stamp", "value", "work"}]
    BY Tasks DEF TypeOK
  <1>1. CASE UNCHANGED data /\ UNCHANGED at
    BY Zenon, <1>1, SampleSame DEF data, Reading, Sending
  <1>2. CASE poll_nothing
    BY Zenon, <1>0, <1>2, SampleSame DEF poll_nothing, On, Goto, data, Reading, Sending
  <1>3. ASSUME NEW d \in Consumer, poll_once(d)
        PROVE  SampleInv(c)'
    <2>1. CASE d = c
      BY <1>3, <2>1, SampleArrives
    <2>2. CASE d # c
      <3>1. at[POLLER] = "poll" /\ at'[c] = at[c] /\ item'[c] = item[c] /\ topic' = d
        BY Zenon, <1>0, <1>3 DEF poll_once, On, Goto, TypeOK
      <3>2. UNCHANGED <<pool_next[c], sent[c], got[c], queue[c], pool[c], lapped[c], latency[c]>>
        BY Zenon, <1>3, <2>2 DEF poll_once, TypeOK
      <3>3. Reading(c)' = Reading(c) /\ Sending(c)' = Sending(c) /\ ~Sending(c)
        BY Zenon, <2>2, <3>1 DEF Reading, Sending
      <3> QED
        BY Zenon, <3>1, <3>2, <3>3, SampleSame
    <2> QED
      BY <2>1, <2>2
  <1>4. CASE queue_send
    <2>1. at[POLLER] = "send" /\ topic' = topic /\ topic \in Consumer /\ at'[c] = at[c]
          /\ UNCHANGED <<pool, pool_next, item, latency, sent, got, lapped>>
      BY Zenon, <1>0, <1>4 DEF queue_send, On, Goto, TypeOK
    <2>2. CASE topic = c /\ Len(queue[c]) < QUEUE_CAPACITY
      BY Zenon, <1>4, <2>1, <2>2, SampleQueued DEF Sending
    <2>3. CASE topic = c /\ ~(Len(queue[c]) < QUEUE_CAPACITY)
      <3>1. UNCHANGED <<queue, at>>
        BY <1>4, <2>3 DEF queue_send
      <3> QED
        BY Zenon, <2>1, <3>1, SampleSame DEF Reading, Sending
    <2>4. CASE topic # c
      <3>1. queue'[c] = queue[c]
        BY Zenon, <1>4, <2>1, <2>4 DEF queue_send, TypeOK
      <3>2. Reading(c)' = Reading(c) /\ Sending(c)' = Sending(c) /\ ~Sending(c)
        BY Zenon, <2>1, <2>4 DEF Reading, Sending
      <3> QED
        BY Zenon, <2>1, <3>1, <3>2, SampleSame
    <2> QED
      BY <2>2, <2>3, <2>4
  <1>5. CASE poll_sleep
    BY Zenon, <1>0, <1>5, SampleSame DEF poll_sleep, On, Goto, data, Reading, Sending
  <1>6. ASSUME NEW d \in Consumer, queue_receive(d)
        PROVE  SampleInv(c)'
    <2>1. CASE queue[d] = <<>>
      <3>1. UNCHANGED <<at, data>>
        BY Zenon, <1>6, <2>1 DEF queue_receive, data
      <3> QED
        BY <1>1, <3>1
    <2>2. CASE queue[d] # <<>> /\ d = c
      BY <1>6, <2>2, SampleTaken
    <2>3. CASE queue[d] # <<>> /\ d # c
      <3>1. /\ at'[c] = at[c] /\ at'[POLLER] = at[POLLER] /\ queue'[c] = queue[c]
            /\ item'[c] = item[c] /\ item'[POLLER] = item[POLLER]
            /\ UNCHANGED <<pool, pool_next, topic, latency, sent, got, lapped>>
        BY Zenon, <1>0, <1>6, <2>3, Tasks DEF queue_receive, Goto, TypeOK
      <3> QED
        BY Zenon, <3>1, SampleSame DEF Reading, Sending
    <2> QED
      BY <2>1, <2>2, <2>3
  <1>7. ASSUME NEW d \in Consumer, read_stamp(d) \/ read_value(d)
        PROVE  SampleInv(c)'
    <2>1. CASE d = c
      BY Zenon, <1>7, <2>1, SampleStamp, SampleValue
    <2>2. CASE d # c
      <3>1. /\ at'[c] = at[c] /\ at'[POLLER] = at[POLLER]
            /\ latency'[c] = latency[c] /\ got'[c] = got[c]
            /\ UNCHANGED <<queue, pool, pool_next, item, topic, sent, lapped>>
        BY Zenon, <1>0, <1>7, <2>2, Tasks DEF read_stamp, read_value, Goto, TypeOK
      <3> QED
        BY Zenon, <3>1, SampleSame DEF Reading, Sending
    <2> QED
      BY <2>1, <2>2
  <1>8. CASE simulate_slow_work
    <2>1. /\ at'[POLLER] = at[POLLER] /\ UNCHANGED data
          /\ at'[c] = at[c] \/ (at[c] = "work" /\ at'[c] = "receive")
      BY <1>0, <1>8, Tasks DEF simulate_slow_work, On, Goto
    <2> QED
      BY <2>1, SampleSame DEF data, Reading, Sending
  <1>9. CASE Dispatch \/ Tick \/ UNCHANGED dispatchVars
    BY <1>1, <1>9 DEF Dispatch, Tick, dispatchVars
  <1> QED
    BY Zenon, <1>2, <1>3, <1>4, <1>5, <1>6, <1>7, <1>8, <1>9
    DEF DispatchNext, Poller, Callback

\* A callback changes `got`, and only read_value() does; then it has what SampleInv says.
LEMMA CallbackReads ==
    ASSUME TypeOK, NEW c \in Consumer, SampleInv(c), [DispatchNext]_dispatchVars,
           got'[c] # got[c]
    PROVE  /\ got'[c].n = got[c].n + 1 /\ got'[c].stamp >= got'[c].n
           /\ got'[c].value >= got'[c].stamp
           /\ ~lapped[c] => got'[c].value = got'[c].n
  <1>1. read_value(c)
    <2>1. \E d \in Consumer : read_value(d)
      BY Zenon DEF DispatchNext, Poller, Callback, poll_nothing, poll_once, queue_send, poll_sleep,
             queue_receive, read_stamp, simulate_slow_work, Dispatch, Tick, data, dispatchVars
    <2> QED
      BY Zenon, <2>1 DEF read_value, TypeOK
  <1>2. got'[c] = [n |-> item[c].n, stamp |-> latency[c], value |-> pool[c][item[c].slot]]
    BY Zenon, <1>1 DEF read_value, TypeOK
  <1>3. at[c] = "value" /\ Reading(c)
    BY Zenon, <1>1 DEF read_value, On, Reading
  <1>4. item[c].n = Taken(c) /\ Taken(c) = got[c].n + 1 /\ Held(c, item[c])
    BY Zenon, <1>3 DEF SampleInv, Taken
  <1>5. latency[c] >= item[c].n /\ pool[c][item[c].slot] >= latency[c]
    BY Zenon, <1>3 DEF SampleInv
  <1> QED
    BY <1>2, <1>4, <1>5 DEF Held

LEMMA TypeStep ==
    ASSUME TypeOK, [DispatchNext]_dispatchVars
    PROVE  TypeOK'
  <1> DEFINE Label == {"poll", "send", "sleep", "receive", "stamp", "value", "work"}
  <1>0. at \in [Task -> Label]
    BY DEF TypeOK
  <1>1. CASE UNCHANGED <<at, data>>
    BY Zenon, <1>1 DEF data, TypeOK
  <1>2. CASE poll_nothing
    BY Zenon, <1>2, Tasks DEF poll_nothing, Goto, data, TypeOK
  <1>3. ASSUME NEW c \in Consumer, poll_once(c)
        PROVE  TypeOK'
    <2>1. sent' = [sent EXCEPT ![c] = sent[c] + 1] /\ sent'[c] = sent[c] + 1
      BY Zenon, <1>3 DEF poll_once, TypeOK
    <2>2. PICK n \in Nat : n = sent'[c]
      BY <2>1, Typed
    <2>3. PICK s \in Slots : s = pool_next[c]
      BY Zenon, Typed
    <2>4. /\ pool' = [pool EXCEPT ![c] = [pool[c] EXCEPT ![s] = n]]
          /\ item' = [item EXCEPT ![POLLER] = [slot |-> s, n |-> n]]
          /\ pool_next' = [pool_next EXCEPT ![c] = (s + 1) % QUEUE_CAPACITY]
      BY Zenon, <1>3, <2>2, <2>3 DEF poll_once, NextSlot
    <2>5. pool' \in [Consumer -> [Slots -> Nat]]
      <3>1. [pool[c] EXCEPT ![s] = n] \in [Slots -> Nat]
        BY Zenon, Typed
      <3> QED
        BY Zenon, <2>4, <3>1 DEF TypeOK
    <2>6. item' \in [Task -> Pointer]
      <3>1. [slot |-> s, n |-> n] \in Pointer
        BY DEF Pointer
      <3> QED
        BY Zenon, <2>4, <3>1 DEF TypeOK
    <2>7. pool_next' \in [Consumer -> Slots]
      <3>1. PICK x \in Int : x = s + 1
        BY Typed
      <3>2. x % QUEUE_CAPACITY \in Slots
        BY Tasks DEF Slots
      <3> QED
        BY Zenon, <2>4, <3>1, <3>2 DEF TypeOK
    <2>8. lapped' \in [Consumer -> BOOLEAN]
      BY Zenon, <1>3 DEF poll_once, TypeOK
    <2>9. sent' \in [Consumer -> Nat]
      BY Zenon, <2>1, <2>2 DEF TypeOK
    <2>10. at' \in [Task -> Label] /\ at'[POLLER] = "send" /\ \A d \in Consumer : at'[d] = at[d]
      BY <1>0, <1>3, Tasks DEF poll_once, Goto
    <2>11. UNCHANGED <<queue, latency, got>> /\ topic' = c
      BY Zenon, <1>3 DEF poll_once
    <2> QED
      BY Zenon, <2>5, <2>6, <2>7, <2>8, <2>9, <2>10, <2>11 DEF TypeOK
  <1>4. CASE queue_send
    <2>1. queue' \in [Consumer -> Seq(Pointer)]
      <3>1. item[POLLER] \in Pointer /\ topic \in Consumer /\ queue[topic] \in Seq(Pointer)
        BY Zenon, Tasks DEF TypeOK
      <3>2. PICK q \in Seq(Pointer) : q = Append(queue[topic], item[POLLER])
        BY Zenon, <3>1, Appended
      <3>3. queue' = [queue EXCEPT ![topic] = q] \/ queue' = queue
        BY <1>4, <3>2 DEF queue_send
      <3> QED
        BY Zenon, <3>1, <3>2, <3>3 DEF TypeOK
    <2>2. at' \in [Task -> Label] /\ at'[POLLER] \in {"send", "sleep"}
          /\ \A d \in Consumer : at'[d] = at[d]
      BY <1>0, <1>4, Tasks DEF queue_send, On, Goto
    <2>3. UNCHANGED <<pool, pool_next, item, topic, latency, sent, got, lapped>>
      BY <1>4 DEF queue_send
    <2> QED
      BY Zenon, <2>1, <2>2, <2>3 DEF TypeOK
  <1>5. CASE poll_sleep
    BY Zenon, <1>5, Tasks DEF poll_sleep, Goto, data, TypeOK
  <1>6. ASSUME NEW c \in Consumer, queue_receive(c)
        PROVE  TypeOK'
    <2>1. CASE queue[c] # <<>>
      <3>1. PICK p \in Pointer, q \in Seq(Pointer) : p = Head(queue[c]) /\ q = Tail(queue[c])
        BY Zenon, <2>1, Tailed, Typed
      <3>2. /\ item' = [item EXCEPT ![c] = p] /\ queue' = [queue EXCEPT ![c] = q]
            /\ at' = [at EXCEPT ![c] = "stamp"]
        BY Zenon, <1>6, <2>1, <3>1 DEF queue_receive, Take, Goto
      <3>3. UNCHANGED <<pool, pool_next, topic, latency, sent, got, lapped>>
        BY Zenon, <1>6 DEF queue_receive
      <3> QED
        BY Zenon, <3>1, <3>2, <3>3, Tasks DEF TypeOK
    <2>2. CASE queue[c] = <<>>
      BY Zenon, <1>6, <2>2 DEF queue_receive, TypeOK
    <2> QED
      BY <2>1, <2>2
  <1>7. ASSUME NEW c \in Consumer, read_stamp(c)
        PROVE  TypeOK'
    <2>1. PICK n \in Nat : n = pool[c][item[c].slot]
      BY Zenon, Typed
    <2>2. latency' = [latency EXCEPT ![c] = n] /\ at' = [at EXCEPT ![c] = "value"]
      BY Zenon, <1>7, <2>1 DEF read_stamp, Goto
    <2>3. UNCHANGED <<queue, pool, pool_next, item, topic, sent, got, lapped>>
      BY Zenon, <1>7 DEF read_stamp
    <2> QED
      BY Zenon, <2>2, <2>3, Tasks DEF TypeOK
  <1>8. ASSUME NEW c \in Consumer, read_value(c)
        PROVE  TypeOK'
    <2>1. PICK r \in [n : Nat, stamp : Nat, value : Nat] :
            r = [n |-> item[c].n, stamp |-> latency[c], value |-> pool[c][item[c].slot]]
      BY Zenon, Typed
    <2>2. got' = [got EXCEPT ![c] = r]
      BY Zenon, <1>8, <2>1 DEF read_value
    <2>3. at' \in [Task -> Label] /\ at'[c] \in {"work", "receive"}
          /\ \A t \in Task \ {c} : at'[t] = at[t]
      BY Zenon, <1>0, <1>8, Tasks DEF read_value, Goto
    <2>4. UNCHANGED <<queue, pool, pool_next, item, topic, latency, sent, lapped>>
      BY Zenon, <1>8 DEF read_value
    <2> QED
      BY Zenon, <2>2, <2>3, <2>4, Tasks DEF TypeOK
  <1>9. CASE simulate_slow_work
    BY Zenon, <1>9, Tasks DEF simulate_slow_work, Goto, data, TypeOK
  <1>10. CASE Dispatch \/ Tick
    BY <1>1, <1>10 DEF Dispatch, Tick
  <1>11. CASE UNCHANGED dispatchVars
    BY <1>1, <1>11 DEF dispatchVars
  <1> QED
    BY <1>2, <1>3, <1>4, <1>5, <1>6, <1>7, <1>8, <1>9, <1>10, <1>11
    DEF DispatchNext, Poller, Callback

\* The callbacks of live_priority_demo come in the order of the samples, one for each, and
\* read their own sample, or a newer one when the pool was lapped: for every capacity of
\* the queues, which is the size of the pools, and every number of samples.
THEOREM CallbacksReadTheirs == DispatchSpec => OwnSample
  <1> DEFINE Inv == TypeOK /\ \A c \in Consumer : SampleInv(c)
  <1>1. DispatchInit => Inv
    BY TypeInit, SampleInit
  <1>2. Inv /\ [DispatchNext]_dispatchVars => Inv'
    <2> SUFFICES ASSUME Inv, [DispatchNext]_dispatchVars PROVE Inv'
      OBVIOUS
    <2>1. TypeOK'
      BY TypeStep
    <2>2. \A c \in Consumer : SampleInv(c)'
      BY SampleStep
    <2> QED
      BY <2>1, <2>2
  <1> DEFINE Reads == \A c \in Consumer :
                        got'[c] # got[c] => /\ got'[c].n = got[c].n + 1
                                            /\ got'[c].stamp >= got'[c].n
                                            /\ got'[c].value >= got'[c].stamp
                                            /\ ~lapped[c] => got'[c].value = got'[c].n
  <1>3. Inv /\ [DispatchNext]_dispatchVars => [Reads]_dispatchVars
    <2> SUFFICES ASSUME Inv, [DispatchNext]_dispatchVars PROVE Reads
      BY Zenon
    <2> QED
      BY Zenon, CallbackReads
  <1>4. OwnSample <=> [][Reads]_dispatchVars
    BY DEF OwnSample
  <1> HIDE DEF Inv, Reads
  <1> QED
    BY <1>1, <1>2, <1>3, <1>4, PTL DEF DispatchSpec

-----------------------------------------------------------------------------
(* What the kernel does for the three tasks *)

\* A task of the demo is READY, RUNNING or BLOCKED; it is RUNNING when it has the CPU;
\* and high_task is BLOCKED only in queue_receive(), with nothing to receive.
RunInv ==
    /\ state \in [Task -> {"READY", "RUNNING", "BLOCKED"}]
    /\ priority = [t \in Task |-> IF t = POLLER THEN 100 ELSE IF t = HIGH THEN 50 ELSE 10]
    /\ picked \in Task \union {NoTask} /\ cpu \in Task \union {NoTask}
    /\ picked # NoTask => cpu = NoTask /\ state[picked] = "READY"
    /\ \A t \in Task : state[t] = "RUNNING" <=> cpu = t
    /\ state[HIGH] = "BLOCKED" => at[HIGH] = "receive" /\ queue[HIGH] = <<>>

LEMMA RunInit == DispatchInit => RunInv /\ LowNeverDelaysHigh
  BY Tasks DEF DispatchInit, RunInv, LowNeverDelaysHigh, NoTask

\* While a task has the CPU, none is chosen for it.
LEMMA Alone ==
    ASSUME RunInv, NEW t \in Task, cpu = t
    PROVE  picked = NoTask /\ state[t] = "RUNNING" /\ t # NoTask
  BY Tasks DEF RunInv, NoTask

\* A task that goes on without the kernel preserves the invariant.
LEMMA RunsOn ==
    ASSUME TypeOK, RunInv, LowNeverDelaysHigh, NEW t \in Task, cpu = t,
           UNCHANGED kernelVars, queue' = queue,
           \A u \in Task \ {t} : at'[u] = at[u]
    PROVE  RunInv' /\ LowNeverDelaysHigh'
  BY Zenon, Alone, Tasks DEF RunInv, LowNeverDelaysHigh, kernelVars

\* So does a task that blocks; high_task does so only with an empty queue.
LEMMA RunBlocks ==
    ASSUME TypeOK, RunInv, LowNeverDelaysHigh, NEW t \in Task, Block(t), queue' = queue,
           t = HIGH => at'[HIGH] = "receive" /\ queue[HIGH] = <<>>,
           \A u \in Task \ {t} : at'[u] = at[u]
    PROVE  RunInv' /\ LowNeverDelaysHigh'
  <1>1. cpu = t /\ cpu' = NoTask /\ priority' = priority /\ picked' = picked
    BY Zenon DEF Block, Leave
  <1>2. picked = NoTask /\ NoTask \notin Task
    BY <1>1, Alone, Tasks DEF NoTask
  <1>3. /\ state' \in [Task -> {"READY", "RUNNING", "BLOCKED"}]
        /\ state'[t] = "BLOCKED" /\ \A u \in Task \ {t} : state'[u] = state[u]
    BY Zenon DEF Block, Leave, RunInv
  <1>4. RunInv'
    BY Zenon, <1>1, <1>2, <1>3, Tasks DEF RunInv
  <1> QED
    BY Zenon, <1>1, <1>2, <1>4, Tasks DEF LowNeverDelaysHigh, NoTask

\* So does the waking of other tasks than the one that runs, when no message is sent to
\* a high_task that stays BLOCKED.
LEMMA RunWakes ==
    ASSUME TypeOK, RunInv, LowNeverDelaysHigh, NEW W \in SUBSET Task, Wake(W),
           \A u \in W : state[u] = "BLOCKED",
           LOW \in {cpu, picked} => HIGH \notin W,
           HIGH \notin W /\ state[HIGH] = "BLOCKED" =>
               queue'[HIGH] = queue[HIGH] /\ at'[HIGH] = at[HIGH]
    PROVE  RunInv' /\ LowNeverDelaysHigh'
  <1>1. cpu' = cpu /\ priority' = priority /\ picked' = picked
    BY Zenon DEF Wake
  <1>2. /\ state' \in [Task -> {"READY", "RUNNING", "BLOCKED"}]
        /\ \A u \in Task : state'[u] = IF u \in W THEN "READY" ELSE state[u]
    BY Zenon DEF Wake, WakeUp, RunInv
  <1>3. RunInv'
    BY <1>1, <1>2, Tasks DEF RunInv
  <1> QED
    BY Zenon, <1>1, <1>2, <1>3, Tasks DEF LowNeverDelaysHigh, RunInv

LEMMA RunTask ==
    ASSUME TypeOK, RunInv, LowNeverDelaysHigh,
           Poller \/ (\E c \in Consumer : Callback(c)) \/ simulate_slow_work
    PROVE  RunInv' /\ LowNeverDelaysHigh'
  <1>1. CASE poll_nothing
    BY Zenon, <1>1, RunsOn, Tasks DEF poll_nothing, On, Goto, data, TypeOK
  <1>2. ASSUME NEW c \in Consumer, poll_once(c)
        PROVE  RunInv' /\ LowNeverDelaysHigh'
    BY Zenon, <1>2, RunsOn, Tasks DEF poll_once, On, Goto, TypeOK
  <1>3. CASE queue_send
    <2>1. cpu = POLLER /\ at[POLLER] = "send" /\ topic \in Consumer
      BY Zenon, <1>3 DEF queue_send, On, TypeOK
    <2>2. CASE Len(queue[topic]) < QUEUE_CAPACITY
      <3>1. PICK W \in SUBSET Task : W = Waiting(topic, "receive")
        BY Zenon, <2>1, Tasks DEF Waiting
      <3>2. \A u \in W : state[u] = "BLOCKED"
        BY <3>1 DEF Waiting
      <3>3. LOW \notin {cpu, picked}
        BY <2>1, Alone, Tasks DEF NoTask
      <3>4. HIGH \notin W /\ state[HIGH] = "BLOCKED" => topic # HIGH
        BY Zenon, <3>1 DEF Waiting, RunInv
      <3>5. topic # HIGH => queue'[HIGH] = queue[HIGH]
        BY Zenon, <1>3, <2>1, <2>2, Tasks DEF queue_send, TypeOK
      <3>6. at'[HIGH] = at[HIGH] /\ Wake(W)
        BY <1>3, <2>2, <3>1, Tasks DEF queue_send, Goto, TypeOK
      <3> QED
        BY Zenon, <3>2, <3>3, <3>4, <3>5, <3>6, RunWakes
    <2>3. CASE ~(Len(queue[topic]) < QUEUE_CAPACITY)
      BY <1>3, <2>3, RunBlocks, Tasks DEF queue_send
    <2> QED
      BY <2>2, <2>3
  <1>4. CASE poll_sleep
    <2>1. Block(POLLER) /\ queue' = queue /\ at' = [at EXCEPT ![POLLER] = "poll"]
      BY <1>4 DEF poll_sleep, Goto, data
    <2> QED
      BY Zenon, <2>1, RunBlocks, Tasks DEF TypeOK
  <1>5. ASSUME NEW c \in Consumer, queue_receive(c)
        PROVE  RunInv' /\ LowNeverDelaysHigh'
    <2>1. cpu = c /\ at[c] = "receive"
      BY Zenon, <1>5 DEF queue_receive, On
    <2>2. CASE queue[c] # <<>>
      <3>1. PICK W \in SUBSET Task : W = IF topic = c THEN Waiting(POLLER, "send") ELSE {}
        BY Zenon, Tasks DEF Waiting
      <3>2. (\A u \in W : state[u] = "BLOCKED") /\ HIGH \notin W
        BY <3>1, Tasks DEF Waiting
      <3>3. state[HIGH] = "BLOCKED" => c # HIGH
        BY <2>1, Alone, Tasks
      <3>4. c # HIGH => queue'[HIGH] = queue[HIGH] /\ at'[HIGH] = at[HIGH]
        <4>1. /\ queue' = [queue EXCEPT ![c] = Take(@).rest]
              /\ at' = [at EXCEPT ![c] = "stamp"]
          BY Zenon, <1>5, <2>2 DEF queue_receive, Goto
        <4>2. DOMAIN queue = Consumer /\ DOMAIN at = Task /\ HIGH \in Consumer /\ HIGH \in Task
          BY Zenon, Tasks DEF TypeOK
        <4> QED
          BY Zenon, <4>1, <4>2
      <3>5. Wake(W)
        BY Zenon, <1>5, <2>2, <3>1 DEF queue_receive
      <3> QED
        BY Zenon, <3>2, <3>3, <3>4, <3>5, RunWakes
    <2>3. CASE queue[c] = <<>>
      BY Zenon, <1>5, <2>1, <2>3, RunBlocks, Tasks DEF queue_receive
    <2> QED
      BY <2>2, <2>3
  <1>6. ASSUME NEW c \in Consumer, read_stamp(c) \/ read_value(c)
        PROVE  RunInv' /\ LowNeverDelaysHigh'
    BY Zenon, <1>6, RunsOn, Tasks DEF read_stamp, read_value, On, Goto, TypeOK
  <1>7. CASE simulate_slow_work
    BY Zenon, <1>7, RunsOn, Tasks DEF simulate_slow_work, On, Goto, data, TypeOK
  <1> QED
    BY <1>1, <1>2, <1>3, <1>4, <1>5, <1>6, <1>7 DEF Poller, Callback

LEMMA RunKernel ==
    ASSUME TypeOK, RunInv, LowNeverDelaysHigh, Dispatch \/ Tick
    PROVE  RunInv' /\ LowNeverDelaysHigh'
  <1>1. at' = at /\ queue' = queue
    BY DEF Dispatch, Tick, data
  <1>2. ASSUME NEW t \in Task, Pick(t)
        PROVE  RunInv' /\ LowNeverDelaysHigh'
    <2>1. /\ cpu = NoTask /\ picked' = t /\ UNCHANGED <<state, priority, cpu>>
          /\ state[t] = "READY" /\ \A u \in Task : state[u] = "READY" => priority[u] <= priority[t]
      BY <1>2 DEF Pick, Highest
    <2>2. RunInv'
      BY Zenon, <1>1, <2>1, Tasks DEF RunInv
    <2>3. t = LOW => state[HIGH] # "READY"
      BY <2>1, Tasks DEF RunInv
    <2>4. t = LOW => state[HIGH] = "BLOCKED"
      BY <2>1, <2>3, Tasks DEF RunInv, NoTask
    <2> QED
      BY Zenon, <1>1, <2>1, <2>2, <2>4, Tasks DEF LowNeverDelaysHigh, RunInv, NoTask
  <1>3. CASE Start
    <2>1. /\ picked \in Task /\ cpu = NoTask /\ cpu' = picked /\ picked' = NoTask
          /\ priority' = priority /\ state[picked] = "READY"
      BY Zenon, <1>3 DEF Start, RunInv
    <2>2. /\ state' \in [Task -> {"READY", "RUNNING", "BLOCKED"}] /\ state'[picked] = "RUNNING"
          /\ \A u \in Task \ {picked} : state'[u] = state[u]
      BY Zenon, <1>3, <2>1 DEF Start, RunInv
    <2>3. RunInv'
      BY <1>1, <2>1, <2>2, Tasks DEF RunInv, NoTask
    <2> QED
      BY Zenon, <1>1, <2>1, <2>2, <2>3, Tasks DEF LowNeverDelaysHigh, RunInv, NoTask
  <1>4. PICK W \in SUBSET Task : /\ W = Sleepers /\ \A u \in W : state[u] = "BLOCKED"
                                 /\ HIGH \notin W
    <2>1. Sleepers \in SUBSET Task
      BY Tasks DEF Sleepers, Waiting
    <2>2. HIGH \notin Sleepers /\ \A u \in Sleepers : state[u] = "BLOCKED"
      BY Tasks DEF Sleepers, Waiting
    <2> QED
      BY Zenon, <2>1, <2>2
  <1>5. CASE Wake(Sleepers)
    BY Zenon, <1>1, <1>4, <1>5, RunWakes
  <1>6. ASSUME NEW t \in Task, Preempt(Sleepers, t)
        PROVE  RunInv' /\ LowNeverDelaysHigh'
    <2>1. PICK y \in [Task -> {"READY", "RUNNING", "BLOCKED"}] :
             /\ y = [WakeUp(W) EXCEPT ![cpu] = "READY"]
             /\ \A u \in Task : y[u] = IF u \in W \/ u = cpu THEN "READY" ELSE state[u]
      <3> DEFINE y == [WakeUp(W) EXCEPT ![cpu] = "READY"]
      <3>1. y \in [Task -> {"READY", "RUNNING", "BLOCKED"}]
        BY Zenon DEF WakeUp, RunInv
      <3>2. \A u \in Task : y[u] = IF u \in W \/ u = cpu THEN "READY" ELSE state[u]
        BY Zenon DEF WakeUp, RunInv
      <3> HIDE DEF y
      <3> WITNESS y \in [Task -> {"READY", "RUNNING", "BLOCKED"}]
      <3> QED
        BY <3>2 DEF y
    <2>2. /\ cpu # NoTask /\ cpu' = t /\ UNCHANGED <<priority, picked>>
          /\ state' = [y EXCEPT ![t] = "RUNNING"] /\ Highest(y, t)
      BY <1>4, <1>6, <2>1 DEF Preempt
    <2>3. y[t] = "READY" /\ \A u \in Task : y[u] = "READY" => priority[u] <= priority[t]
      BY <2>2 DEF Highest
    <2>4. cpu \in Task /\ picked = NoTask
      BY Zenon, <2>2 DEF RunInv
    <2>5. /\ state' \in [Task -> {"READY", "RUNNING", "BLOCKED"}]
          /\ \A u \in Task : state'[u] = IF u = t THEN "RUNNING" ELSE y[u]
      BY <2>2
    <2>6. \A u \in Task : y[u] # "RUNNING" /\ (y[u] = "BLOCKED" => state[u] = "BLOCKED")
      BY Zenon, <2>1 DEF RunInv
    <2>7. RunInv'
      BY Zenon, <1>1, <2>2, <2>4, <2>5, <2>6, Tasks DEF RunInv
    <2>8. t = LOW => state'[HIGH] = "BLOCKED"
      BY <2>1, <2>3, <2>5, <2>6, Tasks DEF RunInv
    <2> QED
      BY <2>2, <2>4, <2>7, <2>8, Tasks DEF LowNeverDelaysHigh, RunInv, NoTask
  <1> QED
    BY <1>2, <1>3, <1>5, <1>6 DEF Dispatch, Tick, PickHighest

\* live_priority_demo's low-priority callback and its slow work never have the CPU, and
\* are never chosen for it, while a message waits in the high-priority queue: for every
\* capacity and every number of messages.
THEOREM HighNeverDelayed == DispatchSpec => []LowNeverDelaysHigh
  <1>1. DispatchInit => TypeOK /\ RunInv /\ LowNeverDelaysHigh
    BY TypeInit, RunInit
  <1>2. TypeOK /\ RunInv /\ LowNeverDelaysHigh /\ [DispatchNext]_dispatchVars
            => (TypeOK /\ RunInv /\ LowNeverDelaysHigh)'
    <2> SUFFICES ASSUME TypeOK, RunInv, LowNeverDelaysHigh, [DispatchNext]_dispatchVars
                 PROVE  (TypeOK /\ RunInv /\ LowNeverDelaysHigh)'
      OBVIOUS
    <2>1. CASE UNCHANGED dispatchVars
      <3>1. UNCHANGED <<state, priority, picked, cpu, at, queue>>
        BY <2>1 DEF dispatchVars, kernelVars, data
      <3>2. RunInv'
        BY Zenon, <3>1 DEF RunInv
      <3>3. LowNeverDelaysHigh'
        BY Zenon, <3>1 DEF LowNeverDelaysHigh
      <3> QED
        BY <3>2, <3>3, TypeStep
    <2>2. CASE DispatchNext
      BY Zenon, <2>2, TypeStep, RunTask, RunKernel DEF DispatchNext
    <2> QED
      BY <2>1, <2>2
  <1> QED
    BY <1>1, <1>2, PTL DEF DispatchSpec

-----------------------------------------------------------------------------
(* The authenticated link *)

Node == {"board", "gateway"}
Keys == {"default", "other"}
Kinds == {"publish", "pong", "data", "status"}
Payloads == [boot : Nat, n : Nat, kind : Kinds \union {"noise"}, len : Nat]
Frames == [counter : Nat, payload : Payloads, tag : Keys \X Nat \X Payloads, len : Nat]
Contexts == [last_recv_counter : Nat, have_received : BOOLEAN]

TypeInv ==
    /\ send_counter \in [Dir -> Nat]
    /\ rx \in [Dir -> Contexts]
    /\ boots \in [Node -> Nat]
    /\ gateway_key \in Keys
    /\ link \in [Dir -> Seq(Frames)]
    /\ passed \in [Dir -> Seq(Payloads)]
    /\ linkFaults \in Nat

\* The tag of a frame, whatever the line did to the rest of it, is one that a sender
\* with this key computed, over a payload of its own and that payload's number.
Sealed(key, frame) ==
    /\ frame.tag[1] = key
    /\ frame.tag[3].n = frame.tag[2]
    /\ frame.tag[3].kind # "noise"

SealedSeq(key, frames) == \A i \in 1 .. Len(frames) : Sealed(key, frames[i])

AllSealed == \A d \in Dir : SealedSeq(Key(Sender[d]), link[d])

\* A receiving context remembers the number of the payload handed on last.
Remembers(ctx, payloads) ==
    /\ ctx.have_received <=> Len(payloads) > 0
    /\ ctx.have_received => ctx.last_recv_counter = payloads[Len(payloads)].n

\* The payloads are genuine, and their numbers grow, those of different runs of the
\* sender included.
Increasing(payloads) ==
    /\ \A i \in 1 .. Len(payloads) : payloads[i].kind # "noise" /\ gateway_key = "default"
    /\ \A i, j \in 1 .. Len(payloads) : i < j => payloads[i].n < payloads[j].n

AllHanded == \A d \in Dir : Remembers(rx[d], passed[d]) /\ Increasing(passed[d])

\* The inductive invariant.  That nothing is handed on twice needs the context to agree
\* with what was handed on (AllHanded), which needs the counter of an accepted frame to
\* be its payload's number (AllSealed).
LinkInv == TypeInv /\ AllSealed /\ AllHanded

-----------------------------------------------------------------------------
(* Sequences of sealed frames *)

LEMMA TailSealed ==
    ASSUME NEW key, NEW frames \in Seq(Frames), frames # <<>>, SealedSeq(key, frames)
    PROVE  /\ Tail(frames) \in Seq(Frames) /\ SealedSeq(key, Tail(frames))
           /\ Head(frames) \in Frames /\ Sealed(key, Head(frames))
  <1>1. /\ Tail(frames) \in Seq(Frames) /\ Head(frames) \in Frames
        /\ Len(frames) \in Nat \ {0}
        /\ Len(Tail(frames)) = Len(frames) - 1
        /\ Head(frames) = frames[1]
        /\ \A i \in 1 .. Len(Tail(frames)) : Tail(frames)[i] = frames[i + 1]
    BY HeadTailProperties, EmptySeq
  <1>2. \A i \in 1 .. Len(Tail(frames)) : i + 1 \in 1 .. Len(frames)
    BY <1>1
  <1> QED
    BY <1>1, <1>2 DEF SealedSeq

LEMMA ConcatSealed ==
    ASSUME NEW key, NEW frames \in Seq(Frames), SealedSeq(key, frames),
           NEW more \in Seq(Frames), SealedSeq(key, more)
    PROVE  frames \o more \in Seq(Frames) /\ SealedSeq(key, frames \o more)
  BY ConcatProperties DEF SealedSeq

LEMMA OneSealed ==
    ASSUME NEW key, NEW frame \in Frames, Sealed(key, frame)
    PROVE  <<frame>> \in Seq(Frames) /\ SealedSeq(key, <<frame>>)
  BY DEF SealedSeq

-----------------------------------------------------------------------------
(* secure_transport.c *)

\* What xrce_secure_wrap() returns is sealed with the sender's key.
LEMMA WrapSealed ==
    ASSUME CounterMod \in Nat \ {0}, TypeInv, NEW d \in Dir,
           NEW kind \in Kinds, NEW len \in Nat
    PROVE  LET wrapped == xrce_secure_wrap(d, Payload(d, kind, len))
           IN  /\ wrapped.counter \in Nat
               /\ wrapped.frames \in Seq(Frames)
               /\ SealedSeq(Key(Sender[d]), wrapped.frames)
  <1> DEFINE payload == Payload(d, kind, len)
             frame == [counter |-> send_counter[d], payload |-> payload,
                       tag |-> compute_tag(Key(Sender[d]), send_counter[d], payload),
                       len |-> payload.len + XRCE_SECURE_OVERHEAD]
  <1>0. Sender[d] \in Node
    BY DEF Dir, Sender, Node
  <1>1. /\ send_counter[d] \in Nat /\ boots[Sender[d]] \in Nat
        /\ Key(Sender[d]) \in Keys
    BY <1>0 DEF TypeInv, Key, Keys
  <1>2. payload \in Payloads /\ payload.n = send_counter[d] /\ payload.kind # "noise"
    BY Zenon, <1>1 DEF Payload, Payloads, Kinds
  <1>3. frame \in Frames /\ Sealed(Key(Sender[d]), frame)
    <2> DEFINE tag == compute_tag(Key(Sender[d]), send_counter[d], payload)
    <2> HIDE DEF payload
    <2>1. payload.len + XRCE_SECURE_OVERHEAD \in Nat
      BY <1>2 DEF Payloads, XRCE_SECURE_OVERHEAD
    <2>2. /\ tag \in Keys \X Nat \X Payloads
          /\ tag[1] = Key(Sender[d]) /\ tag[2] = send_counter[d] /\ tag[3] = payload
      BY <1>1, <1>2 DEF compute_tag
    <2> HIDE DEF tag
    <2>3. frame \in Frames /\ frame.tag = tag
      BY Zenon, <1>1, <1>2, <2>1, <2>2 DEF Frames, tag
    <2> QED
      BY Zenon, <1>2, <2>2, <2>3 DEF Sealed
  <1>4. (send_counter[d] + 1) % CounterMod \in Nat
    BY <1>1
  <1>5. <<>> \in Seq(Frames) /\ SealedSeq(Key(Sender[d]), <<>>)
    BY DEF SealedSeq
  <1>6. <<frame>> \in Seq(Frames) /\ SealedSeq(Key(Sender[d]), <<frame>>)
    BY Zenon, <1>3, OneSealed
  <1> HIDE DEF payload, frame
  <1> DEFINE wrapped == xrce_secure_wrap(d, payload)
  <1>7. \/ wrapped.frames = <<>> /\ wrapped.counter = send_counter[d]
        \/ wrapped.frames = <<frame>> /\ wrapped.counter = (send_counter[d] + 1) % CounterMod
    BY Zenon DEF xrce_secure_wrap, frame
  <1> HIDE DEF wrapped
  <1>8. /\ wrapped.counter \in Nat /\ wrapped.frames \in Seq(Frames)
        /\ SealedSeq(Key(Sender[d]), wrapped.frames)
    BY Zenon, <1>1, <1>4, <1>5, <1>6, <1>7
  <1> QED
    BY Zenon, <1>8 DEF wrapped, payload

\* A frame that xrce_secure_unwrap() accepts carries a genuine payload, whose number is
\* the frame's counter, and both ends have the same key.
LEMMA AcceptedGenuine ==
    ASSUME TypeInv, NEW d \in Dir, NEW frame \in Frames,
           Sealed(Key(Sender[d]), frame), TagOK(Receiver[d], frame)
    PROVE  /\ gateway_key = "default"
           /\ frame.payload.n = frame.counter
           /\ frame.payload.kind # "noise"
  <1>1. /\ frame.tag[1] = Key(Receiver[d])
        /\ frame.tag[2] = frame.counter
        /\ frame.tag[3] = frame.payload
    BY DEF TagOK, compute_tag
  <1>2. Key(Sender[d]) = Key(Receiver[d])
    BY Zenon, <1>1 DEF Sealed
  <1>3. gateway_key = "default"
    BY <1>2 DEF Key, Sender, Receiver, Dir
  <1> QED
    BY Zenon, <1>1, <1>3 DEF Sealed

\* A payload with a larger number may follow.
LEMMA AppendIncreasing ==
    ASSUME NEW payloads \in Seq(Payloads), NEW p \in Payloads, Increasing(payloads),
           p.kind # "noise", gateway_key = "default",
           Len(payloads) > 0 => p.n > payloads[Len(payloads)].n
    PROVE  /\ Append(payloads, p) \in Seq(Payloads)
           /\ Increasing(Append(payloads, p))
           /\ Len(Append(payloads, p)) > 0
           /\ Append(payloads, p)[Len(Append(payloads, p))] = p
  <1> DEFINE n == Len(payloads)
             longer == Append(payloads, p)
  <1>1. /\ n \in Nat /\ longer \in Seq(Payloads) /\ Len(longer) = n + 1
        /\ \A i \in 1 .. n : longer[i] = payloads[i] /\ payloads[i] \in Payloads
        /\ longer[n + 1] = p
    BY AppendProperties, LenProperties, ElementOfSeq
  <1> HIDE DEF n, longer
  <1>2. \A i \in 1 .. n : payloads[i].n \in Nat
    BY Zenon, <1>1 DEF Payloads
  <1>3. \A i \in 1 .. n : payloads[i].n < p.n
    <2> TAKE i \in 1 .. n
    <2>1. CASE i = n
      BY <2>1, <1>1 DEF n
    <2>2. CASE i < n
      <3>1. payloads[i].n < payloads[n].n /\ n \in 1 .. n
        BY <2>2, <1>1 DEF Increasing, n
      <3>2. payloads[n].n < p.n /\ n > 0
        BY <1>1, <2>2 DEF n
      <3>3. p.n \in Nat /\ payloads[i].n \in Nat /\ payloads[n].n \in Nat
        BY Zenon, <1>1, <1>2, <3>1 DEF Payloads
      <3> QED
        BY <3>1, <3>2, <3>3
    <2> QED
      BY <1>1, <2>1, <2>2
  <1>4. Increasing(longer)
    <2>1. \A i \in 1 .. n + 1 : longer[i].kind # "noise"
      BY <1>1 DEF Increasing, n
    <2>2. ASSUME NEW i \in 1 .. n + 1, NEW j \in 1 .. n + 1, i < j
          PROVE  longer[i].n < longer[j].n
      <3>1. CASE j = n + 1
        BY <3>1, <2>2, <1>1, <1>3
      <3>2. CASE j \in 1 .. n
        BY <3>2, <2>2, <1>1 DEF Increasing, n
      <3> QED
        BY <1>1, <3>1, <3>2
    <2> QED
      BY Zenon, <1>1, <2>1, <2>2 DEF Increasing
  <1> QED
    BY <1>1, <1>4 DEF longer

\* process_secure_frame() and pace_and_poll_rx() keep the context and what was handed on
\* in step, whatever frame they are given.
LEMMA VerifyHanded ==
    ASSUME TypeInv, AllHanded, NEW d \in Dir, NEW frame \in Frames,
           Sealed(Key(Sender[d]), frame), Verify(d, frame), gateway_key' = gateway_key
    PROVE  /\ rx' \in [Dir -> Contexts] /\ passed' \in [Dir -> Seq(Payloads)]
           /\ AllHanded'
  <1>1. /\ rx \in [Dir -> Contexts] /\ passed \in [Dir -> Seq(Payloads)]
        /\ rx[d] \in Contexts /\ passed[d] \in Seq(Payloads)
        /\ Remembers(rx[d], passed[d]) /\ Increasing(passed[d])
    BY DEF TypeInv, AllHanded
  <1>2. CASE Verified(d, frame)
    <2> DEFINE ctx == [last_recv_counter |-> frame.counter, have_received |-> TRUE]
               longer == Append(passed[d], frame.payload)
    <2>1. TagOK(Receiver[d], frame) /\ Fresh(rx[d], frame) /\ ReaderTakes(d, frame)
      BY Zenon, <1>2 DEF Verified, xrce_secure_unwrap
    <2>2. /\ gateway_key = "default" /\ frame.payload.n = frame.counter
          /\ frame.payload.kind # "noise"
      BY Zenon, <2>1, AcceptedGenuine
    <2>3. rx' = [rx EXCEPT ![d] = ctx] /\ passed' = [passed EXCEPT ![d] = longer]
      BY Zenon, <1>2, <2>1 DEF Verify, Verified, xrce_secure_unwrap
    <2>4. Len(passed[d]) > 0 => frame.payload.n > passed[d][Len(passed[d])].n
      BY Zenon, <2>1, <2>2, <1>1 DEF Remembers, Fresh
    <2>5. frame.payload \in Payloads /\ frame.counter \in Nat
      BY DEF Frames
    <2>6. /\ longer \in Seq(Payloads) /\ Increasing(longer)
          /\ Len(longer) > 0 /\ longer[Len(longer)] = frame.payload
      BY Zenon, <1>1, <2>2, <2>4, <2>5, AppendIncreasing
    <2>7. ctx \in Contexts /\ Remembers(ctx, longer)
      BY Zenon, <2>2, <2>5, <2>6 DEF Contexts, Remembers
    <2> HIDE DEF ctx, longer
    <2>8. rx' \in [Dir -> Contexts] /\ passed' \in [Dir -> Seq(Payloads)]
      BY Zenon, <1>1, <2>3, <2>6, <2>7
    <2>9. ASSUME NEW e \in Dir
          PROVE  Remembers(rx'[e], passed'[e]) /\ Increasing(passed'[e])
      <3>1. CASE e = d
        BY Zenon, <3>1, <1>1, <2>3, <2>6, <2>7
      <3>2. CASE e # d
        BY <3>2, <1>1, <2>3 DEF AllHanded
      <3> QED
        BY Zenon, <3>1, <3>2
    <2>10. \A e \in Dir : Increasing(passed'[e]) <=> Increasing(passed[e])'
      BY Zenon DEF Increasing
    <2> QED
      BY Zenon, <2>8, <2>9, <2>10 DEF AllHanded, Remembers
  <1>3. CASE ~Verified(d, frame)
    <2>1. rx' = rx /\ passed' = passed
      BY Zenon, <1>1, <1>3 DEF Verify, Verified, xrce_secure_unwrap
    <2> QED
      BY Zenon, <1>1, <2>1 DEF AllHanded, Remembers, Increasing
  <1> QED
    BY <1>2, <1>3

-----------------------------------------------------------------------------
(* The actions *)

LEMMA InitInv ==
    ASSUME LinkInit
    PROVE  LinkInv
  <1>1. TypeInv
    BY DEF LinkInit, TypeInv, NotYet, Contexts, Node, Keys
  <1>2. \A i : i \notin 1 .. Len(<<>>)
    OBVIOUS
  <1>3. AllSealed
    BY Zenon, <1>2 DEF LinkInit, AllSealed, SealedSeq
  <1>4. Remembers(NotYet, <<>>)
    BY DEF Remembers, NotYet
  <1>5. AllHanded
    BY Zenon, <1>2, <1>4 DEF LinkInit, AllHanded, Increasing
  <1> QED
    BY Zenon, <1>1, <1>3, <1>5 DEF LinkInv

\* One end puts frames of its own on the line, or the line changes what is under way.
LEMMA LinkStep ==
    ASSUME LinkInv, NEW d \in Dir, NEW frames \in Seq(Frames),
           SealedSeq(Key(Sender[d]), frames), link' = [link EXCEPT ![d] = frames],
           send_counter' \in [Dir -> Nat], linkFaults' \in Nat,
           UNCHANGED <<rx, boots, gateway_key, passed>>
    PROVE  LinkInv'
  <1>1. TypeInv'
    BY Zenon DEF LinkInv, TypeInv
  <1>2. AllSealed'
    BY Zenon DEF LinkInv, TypeInv, AllSealed, SealedSeq, Key
  <1>3. AllHanded'
    BY Zenon DEF LinkInv, AllHanded, Remembers, Increasing
  <1> QED
    BY <1>1, <1>2, <1>3 DEF LinkInv

\* A wrapped payload is put on the line, and its counter is used up.
LEMMA SendInv ==
    ASSUME CounterMod \in Nat \ {0}, LinkInv, NEW d \in Dir,
           NEW kind \in Kinds, NEW len \in Nat,
           LET wrapped == xrce_secure_wrap(d, Payload(d, kind, len))
           IN  /\ link' = [link EXCEPT ![d] = @ \o wrapped.frames]
               /\ send_counter' = [send_counter EXCEPT ![d] = wrapped.counter],
           UNCHANGED <<rx, boots, gateway_key, passed, linkFaults>>
    PROVE  LinkInv'
  <1> DEFINE wrapped == xrce_secure_wrap(d, Payload(d, kind, len))
  <1>1. /\ wrapped.counter \in Nat /\ wrapped.frames \in Seq(Frames)
        /\ SealedSeq(Key(Sender[d]), wrapped.frames)
    BY Zenon, WrapSealed DEF LinkInv
  <1> HIDE DEF wrapped
  <1>2. /\ link' = [link EXCEPT ![d] = link[d] \o wrapped.frames]
        /\ send_counter' = [send_counter EXCEPT ![d] = wrapped.counter]
    BY DEF wrapped
  <1>3. link[d] \in Seq(Frames) /\ SealedSeq(Key(Sender[d]), link[d])
    BY Zenon DEF LinkInv, TypeInv, AllSealed
  <1>4. /\ link[d] \o wrapped.frames \in Seq(Frames)
        /\ SealedSeq(Key(Sender[d]), link[d] \o wrapped.frames)
    BY Zenon, <1>1, <1>3, ConcatSealed
  <1>5. send_counter' \in [Dir -> Nat] /\ linkFaults' \in Nat
    BY Zenon, <1>1, <1>2 DEF LinkInv, TypeInv
  <1> QED
    BY Zenon, <1>2, <1>4, <1>5, LinkStep

LEMMA board_send_Inv ==
    ASSUME CounterMod \in Nat \ {0}, LinkInv, board_send
    PROVE  LinkInv'
  BY Zenon, SendInv DEF board_send, Dir, Kinds

LEMMA gateway_downlink_Inv ==
    ASSUME CounterMod \in Nat \ {0}, LinkInv, NEW kind \in Kinds, NEW len \in Nat,
           gateway_downlink(kind, len)
    PROVE  LinkInv'
  BY Zenon, SendInv DEF gateway_downlink, Dir

\* The oldest frame of a direction is there to be verified.
LEMMA HeadOfLink ==
    ASSUME LinkInv, NEW d \in Dir, link[d] # <<>>
    PROVE  /\ Head(link[d]) \in Frames /\ Sealed(Key(Sender[d]), Head(link[d]))
           /\ Tail(link[d]) \in Seq(Frames) /\ SealedSeq(Key(Sender[d]), Tail(link[d]))
  <1>1. link[d] \in Seq(Frames) /\ SealedSeq(Key(Sender[d]), link[d])
    BY DEF LinkInv, TypeInv, AllSealed
  <1> QED
    BY Zenon, <1>1, TailSealed

LEMMA gateway_uplink_Inv ==
    ASSUME LinkInv, gateway_uplink
    PROVE  LinkInv'
  <1> DEFINE frame == Head(link["up"])
             rest == Tail(link["up"])
  <1>1. /\ "up" \in Dir /\ link["up"] # <<>> /\ Verify("up", frame)
        /\ link' = [link EXCEPT !["up"] = rest]
        /\ UNCHANGED <<send_counter, boots, gateway_key, linkFaults>>
    BY DEF gateway_uplink, Dir
  <1>2. /\ frame \in Frames /\ Sealed(Key(Sender["up"]), frame)
        /\ rest \in Seq(Frames) /\ SealedSeq(Key(Sender["up"]), rest)
    BY Zenon, <1>1, HeadOfLink
  <1> HIDE DEF frame, rest
  <1>3. rx' \in [Dir -> Contexts] /\ passed' \in [Dir -> Seq(Payloads)] /\ AllHanded'
    BY Zenon, <1>1, <1>2, VerifyHanded DEF LinkInv
  <1>4. TypeInv'
    BY Zenon, <1>1, <1>2, <1>3 DEF LinkInv, TypeInv
  <1>5. AllSealed'
    BY Zenon, <1>1, <1>2 DEF LinkInv, TypeInv, AllSealed, Key
  <1> QED
    BY <1>3, <1>4, <1>5 DEF LinkInv

\* The frame is taken off the line, and a sample's echo, wrapped, is put on the other.
LEMMA board_rx_Inv ==
    ASSUME CounterMod \in Nat \ {0}, LinkInv, board_rx
    PROVE  LinkInv'
  <1> DEFINE frame == Head(link["down"])
             rest == Tail(link["down"])
             pong == xrce_secure_wrap("up", Payload("up", "pong", 64))
  <1>1. /\ "down" \in Dir /\ link["down"] # <<>> /\ Verify("down", frame)
        /\ \/ /\ link' = [up |-> link["up"] \o pong.frames, down |-> rest]
              /\ send_counter' = [send_counter EXCEPT !["up"] = pong.counter]
           \/ link' = [link EXCEPT !["down"] = rest] /\ UNCHANGED send_counter
        /\ UNCHANGED <<boots, gateway_key, linkFaults>>
    BY Zenon DEF board_rx, Dir
  <1>2. /\ frame \in Frames /\ Sealed(Key(Sender["down"]), frame)
        /\ rest \in Seq(Frames) /\ SealedSeq(Key(Sender["down"]), rest)
    BY Zenon, <1>1, HeadOfLink
  <1>3. /\ pong.counter \in Nat /\ pong.frames \in Seq(Frames)
        /\ SealedSeq(Key(Sender["up"]), pong.frames)
    BY WrapSealed DEF LinkInv, Dir, Kinds
  <1> HIDE DEF frame, rest, pong
  <1>4. rx' \in [Dir -> Contexts] /\ passed' \in [Dir -> Seq(Payloads)] /\ AllHanded'
    BY Zenon, <1>1, <1>2, VerifyHanded DEF LinkInv
  <1>5. link["up"] \in Seq(Frames) /\ SealedSeq(Key(Sender["up"]), link["up"])
    BY DEF LinkInv, TypeInv, AllSealed, Dir
  <1>6. /\ link["up"] \o pong.frames \in Seq(Frames)
        /\ SealedSeq(Key(Sender["up"]), link["up"] \o pong.frames)
    BY Zenon, <1>3, <1>5, ConcatSealed
  <1>7. /\ link' \in [Dir -> Seq(Frames)] /\ send_counter' \in [Dir -> Nat]
        /\ SealedSeq(Key(Sender["up"]), link'["up"])
        /\ SealedSeq(Key(Sender["down"]), link'["down"])
    <2>0. link \in [Dir -> Seq(Frames)] /\ send_counter \in [Dir -> Nat]
      BY DEF LinkInv, TypeInv
    <2>1. CASE /\ link' = [up |-> link["up"] \o pong.frames, down |-> rest]
               /\ send_counter' = [send_counter EXCEPT !["up"] = pong.counter]
      <3>1. link'["up"] = link["up"] \o pong.frames /\ link'["down"] = rest
        BY Zenon, <2>1
      <3>2. link' = [d \in Dir |-> link'[d]]
        BY Zenon, <2>1 DEF Dir
      <3>3. link' \in [Dir -> Seq(Frames)]
        BY Zenon, <3>1, <3>2, <1>2, <1>6 DEF Dir
      <3> QED
        BY Zenon, <2>0, <2>1, <3>1, <3>3, <1>2, <1>3, <1>6
    <2>2. CASE link' = [link EXCEPT !["down"] = rest] /\ UNCHANGED send_counter
      BY Zenon, <2>0, <2>2, <1>2, <1>5 DEF Dir
    <2> QED
      BY Zenon, <1>1, <2>1, <2>2
  <1>8. TypeInv'
    BY Zenon, <1>1, <1>4, <1>7 DEF LinkInv, TypeInv
  <1>9. AllSealed'
    BY Zenon, <1>1, <1>7 DEF AllSealed, Key, Dir
  <1> QED
    BY <1>4, <1>8, <1>9 DEF LinkInv

\* A restarted end has a fresh context, and its history starts again.
LEMMA restart_Inv ==
    ASSUME LinkInv, NEW node \in Node, restart(node)
    PROVE  LinkInv'
  <1>1. NotYet \in Contexts /\ <<>> \in Seq(Payloads) /\ Remembers(NotYet, <<>>)
    BY DEF NotYet, Contexts, Remembers
  <1>2. /\ rx' = [d \in Dir |-> IF Receiver[d] = node THEN NotYet ELSE rx[d]]
        /\ passed' = [d \in Dir |-> IF Receiver[d] = node THEN <<>> ELSE passed[d]]
        /\ UNCHANGED <<gateway_key, link, linkFaults>>
    BY Zenon DEF restart
  <1>3. TypeInv'
    BY <1>1, <1>2 DEF LinkInv, TypeInv, restart
  <1>4. AllSealed'
    BY Zenon, <1>2 DEF LinkInv, AllSealed, Key, SealedSeq
  <1>5. ASSUME NEW d \in Dir
        PROVE  (Remembers(rx[d], passed[d]) /\ Increasing(passed[d]))'
    <2>1. CASE Receiver[d] = node
      <3>1. rx'[d] = NotYet /\ passed'[d] = <<>>
        BY Zenon, <1>2, <2>1
      <3> QED
        BY <3>1, <1>1 DEF Remembers, Increasing
    <2>2. CASE Receiver[d] # node
      <3>1. rx'[d] = rx[d] /\ passed'[d] = passed[d]
        BY Zenon, <1>2, <2>2
      <3>2. Remembers(rx[d], passed[d]) /\ Increasing(passed[d])
        BY Zenon DEF LinkInv, AllHanded
      <3>3. Remembers(rx[d], passed[d])'
        BY Zenon, <3>1, <3>2 DEF Remembers
      <3>4. Increasing(passed[d])'
        BY Zenon, <3>1, <3>2, <1>2 DEF Increasing
      <3> QED
        BY Zenon, <3>3, <3>4
    <2> QED
      BY Zenon, <2>1, <2>2
  <1> QED
    BY Zenon, <1>3, <1>4, <1>5 DEF LinkInv, AllHanded

LEMMA lose_Inv ==
    ASSUME LinkInv, NEW d \in Dir, lose_frame(d)
    PROVE  LinkInv'
  <1>1. /\ link[d] # <<>> /\ link' = [link EXCEPT ![d] = Tail(link[d])]
        /\ linkFaults' = linkFaults + 1 /\ UNCHANGED <<send_counter, rx, boots, gateway_key, passed>>
    BY DEF lose_frame, Fault
  <1>2. linkFaults' \in Nat /\ send_counter' \in [Dir -> Nat]
    BY <1>1 DEF LinkInv, TypeInv
  <1> QED
    BY Zenon, <1>1, <1>2, HeadOfLink, LinkStep

LEMMA repeat_Inv ==
    ASSUME LinkInv, NEW d \in Dir, repeat(d)
    PROVE  LinkInv'
  <1> DEFINE frame == Head(link[d])
  <1>1. /\ link[d] # <<>> /\ link' = [link EXCEPT ![d] = Append(link[d], frame)]
        /\ linkFaults' = linkFaults + 1 /\ UNCHANGED <<send_counter, rx, boots, gateway_key, passed>>
    BY DEF repeat, Fault
  <1>2. linkFaults' \in Nat /\ send_counter' \in [Dir -> Nat]
    BY <1>1 DEF LinkInv, TypeInv
  <1>3. frame \in Frames /\ Sealed(Key(Sender[d]), frame)
    BY Zenon, <1>1, HeadOfLink
  <1> HIDE DEF frame
  <1>4. link[d] \in Seq(Frames) /\ SealedSeq(Key(Sender[d]), link[d])
    BY DEF LinkInv, TypeInv, AllSealed
  <1>5. /\ Append(link[d], frame) \in Seq(Frames)
        /\ SealedSeq(Key(Sender[d]), Append(link[d], frame))
    BY <1>3, <1>4, AppendProperties DEF SealedSeq
  <1> QED
    BY Zenon, <1>1, <1>2, <1>5, LinkStep

\* The tag is left alone: damage to it would only make one more frame to refuse.
LEMMA damage_Inv ==
    ASSUME CounterMod \in Nat \ {0}, LinkInv, NEW d \in Dir, damage(d)
    PROVE  LinkInv'
  <1> DEFINE frame == Head(link[d])
  <1>0. link[d] # <<>>
    BY DEF damage
  <1>1. /\ frame \in Frames /\ Sealed(Key(Sender[d]), frame)
        /\ Tail(link[d]) \in Seq(Frames) /\ SealedSeq(Key(Sender[d]), Tail(link[d]))
    BY Zenon, <1>0, HeadOfLink
  <1>2. PICK hit \in {[frame EXCEPT !.counter = CounterMod - 1],
                      [frame EXCEPT !.payload = Noise], [frame EXCEPT !.len = 4]} :
          Fault(d, <<hit>> \o Tail(link[d]))
    BY DEF damage
  <1>3. /\ link' = [link EXCEPT ![d] = <<hit>> \o Tail(link[d])]
        /\ linkFaults' = linkFaults + 1 /\ UNCHANGED <<send_counter, rx, boots, gateway_key, passed>>
    BY <1>2 DEF Fault
  <1>4. Noise \in Payloads /\ CounterMod - 1 \in Nat
    BY DEF Noise, Payloads
  <1> HIDE DEF frame
  <1>5. hit \in Frames /\ Sealed(Key(Sender[d]), hit)
    <2>1. CASE hit = [frame EXCEPT !.counter = CounterMod - 1]
      BY Zenon, <2>1, <1>1, <1>4 DEF Frames, Sealed
    <2>2. CASE hit = [frame EXCEPT !.payload = Noise]
      <3>1. hit.tag = frame.tag
        BY <2>2, <1>1 DEF Frames
      <3>2. hit \in Frames
        BY Zenon, <2>2, <1>1, <1>4 DEF Frames
      <3> QED
        BY <3>1, <3>2, <1>1 DEF Sealed
    <2>3. CASE hit = [frame EXCEPT !.len = 4]
      BY Zenon, <2>3, <1>1 DEF Frames, Sealed
    <2> QED
      BY <2>1, <2>2, <2>3
  <1>6. /\ <<hit>> \o Tail(link[d]) \in Seq(Frames)
        /\ SealedSeq(Key(Sender[d]), <<hit>> \o Tail(link[d]))
    BY Zenon, <1>1, <1>5, OneSealed, ConcatSealed
  <1>7. linkFaults' \in Nat /\ send_counter' \in [Dir -> Nat]
    BY <1>3 DEF LinkInv, TypeInv
  <1> QED
    BY Zenon, <1>3, <1>6, <1>7, LinkStep

LEMMA StutterInv ==
    ASSUME LinkInv, UNCHANGED linkVars
    PROVE  LinkInv'
  BY Zenon DEF LinkInv, TypeInv, AllSealed, AllHanded, SealedSeq, Remembers, Increasing, Key, linkVars

LEMMA NextInv ==
    ASSUME CounterMod \in Nat \ {0}, LinkInv, [LinkNext]_linkVars
    PROVE  LinkInv'
  <1>1. CASE board_send
    BY <1>1, board_send_Inv
  <1>2. CASE gateway_uplink
    BY <1>2, gateway_uplink_Inv
  <1>3. CASE \E m \in {<<"data", 64>>, <<"status", 300>>, <<"status", 400>>} :
               gateway_downlink(m[1], m[2])
    <2>1. PICK m \in {<<"data", 64>>, <<"status", 300>>, <<"status", 400>>} :
            gateway_downlink(m[1], m[2])
      BY <1>3
    <2>2. m[1] \in Kinds /\ m[2] \in Nat
      BY DEF Kinds
    <2> QED
      BY <2>1, <2>2, gateway_downlink_Inv
  <1>4. CASE board_rx
    BY <1>4, board_rx_Inv
  <1>5. CASE \E node \in {"board", "gateway"} : restart(node)
    BY <1>5, restart_Inv DEF Node
  <1>6. CASE \E d \in Dir : lose_frame(d) \/ repeat(d) \/ damage(d)
    BY <1>6, lose_Inv, repeat_Inv, damage_Inv
  <1>7. CASE UNCHANGED linkVars
    BY <1>7, StutterInv
  <1> QED
    BY <1>1, <1>2, <1>3, <1>4, <1>5, <1>6, <1>7 DEF LinkNext

-----------------------------------------------------------------------------
(* The theorems *)

\* The inductive invariant of secure_transport.c at both ends, for any counter range.
THEOREM LinkInvariant ==
    ASSUME CounterMod \in Nat \ {0}
    PROVE  LinkSpec => []LinkInv
  <1>1. LinkInit => LinkInv
    BY InitInv
  <1>2. LinkInv /\ [LinkNext]_linkVars => LinkInv'
    BY NextInv
  <1> QED
    BY <1>1, <1>2, PTL DEF LinkSpec

\* xrce_secure_unwrap() hands on only what the peer wrapped with the same key, nothing
\* twice and nothing after a later payload of the same run, however often the line
\* repeats frames, the ends restart and the counters wrap.
THEOREM HandedOnInOrder ==
    ASSUME CounterMod \in Nat \ {0}
    PROVE  LinkSpec => []DeliveredInOrder
  <1>1. LinkInv => DeliveredInOrder
    <2> SUFFICES ASSUME LinkInv, NEW d \in Dir
                 PROVE  /\ \A i \in DOMAIN passed[d] :
                             passed[d][i].kind # "noise" /\ gateway_key = "default"
                        /\ \A i, j \in DOMAIN passed[d] :
                             i < j /\ passed[d][i].boot = passed[d][j].boot
                               => passed[d][i].n < passed[d][j].n
      BY Zenon DEF DeliveredInOrder
    <2>1. DOMAIN passed[d] = 1 .. Len(passed[d])
      BY DEF LinkInv, TypeInv
    <2> QED
      BY Zenon, <2>1 DEF LinkInv, AllHanded, Increasing
  <1> QED
    BY <1>1, LinkInvariant, PTL

LEMMA ConcatLonger ==
    ASSUME NEW frames \in Seq(Frames), NEW more \in Seq(Frames)
    PROVE  Len(frames \o more) >= Len(frames)
  BY ConcatProperties, LenProperties

\* Who sends takes nothing off the line.
LEMMA SendGrows ==
    ASSUME CounterMod \in Nat \ {0}, LinkInv, NEW d \in Dir,
           NEW kind \in Kinds, NEW len \in Nat,
           LET wrapped == xrce_secure_wrap(d, Payload(d, kind, len))
           IN  link' = [link EXCEPT ![d] = @ \o wrapped.frames]
    PROVE  \A e \in Dir : Len(link'[e]) >= Len(link[e])
  <1> DEFINE wrapped == xrce_secure_wrap(d, Payload(d, kind, len))
  <1>1. wrapped.frames \in Seq(Frames)
    BY Zenon, WrapSealed DEF LinkInv
  <1>2. link' = [link EXCEPT ![d] = link[d] \o wrapped.frames]
    OBVIOUS
  <1>3. link \in [Dir -> Seq(Frames)]
    BY DEF LinkInv, TypeInv
  <1> HIDE DEF wrapped
  <1>4. \A e \in Dir : Len(link[e]) \in Nat
    BY <1>3, LenProperties
  <1> QED
    BY <1>1, <1>2, <1>3, <1>4, ConcatLonger

\* A frame that got through and is newer than everything handed on is handed on: what
\* xrce_secure_unwrap() refuses leaves the context as it was.
THEOREM NewFramesGetThrough ==
    ASSUME CounterMod \in Nat \ {0}
    PROVE  LinkSpec => NewerAccepted
  <1> DEFINE Newer(d) ==
        LET frame == Head(link[d])
        IN  /\ Received(d)
            /\ TagOK(Receiver[d], frame) /\ LengthOK(frame) /\ ReaderTakes(d, frame)
            /\ \A i \in DOMAIN passed[d] : frame.counter > passed[d][i].n
            => passed'[d] = Append(passed[d], frame.payload)
  <1>1. ASSUME LinkInv, [LinkNext]_linkVars, NEW d \in Dir
        PROVE  Newer(d)
    <2> SUFFICES ASSUME Received(d), TagOK(Receiver[d], Head(link[d])),
                        LengthOK(Head(link[d])), ReaderTakes(d, Head(link[d])),
                        \A i \in DOMAIN passed[d] : Head(link[d]).counter > passed[d][i].n
                 PROVE  passed'[d] = Append(passed[d], Head(link[d]).payload)
      BY Zenon
    <2>1. /\ link \in [Dir -> Seq(Frames)] /\ passed \in [Dir -> Seq(Payloads)]
          /\ linkFaults \in Nat /\ link[d] \in Seq(Frames) /\ passed[d] \in Seq(Payloads)
      BY Zenon, <1>1 DEF LinkInv, TypeInv
    <2>2. /\ link[d] # <<>> /\ linkFaults' = linkFaults
          /\ Len(link'[d]) < Len(link[d])
      BY <2>1, HeadTailProperties, EmptySeq DEF Received
    <2>3. ASSUME Verify(d, Head(link[d]))
          PROVE  passed'[d] = Append(passed[d], Head(link[d]).payload)
      <3>1. rx[d].have_received => Head(link[d]).counter > rx[d].last_recv_counter
        <4> SUFFICES ASSUME rx[d].have_received
                     PROVE  Head(link[d]).counter > rx[d].last_recv_counter
          BY Zenon
        <4>1. /\ Len(passed[d]) > 0
              /\ rx[d].last_recv_counter = passed[d][Len(passed[d])].n
          BY Zenon, <1>1 DEF LinkInv, AllHanded, Remembers
        <4>2. Len(passed[d]) \in DOMAIN passed[d]
          BY <2>1, <4>1
        <4> QED
          BY Zenon, <4>1, <4>2
      <3>2. Verified(d, Head(link[d]))
        BY Zenon, <3>1 DEF Verified, xrce_secure_unwrap, Fresh
      <3> QED
        BY Zenon, <3>2, <2>3, <2>1 DEF Verify
    <2>4. CASE gateway_uplink
      <3>1. d = "up"
        BY <2>1, <2>2, <2>4 DEF gateway_uplink, Dir
      <3> QED
        BY Zenon, <3>1, <2>3, <2>4 DEF gateway_uplink
    <2>5. CASE board_rx
      <3>1. d = "down"
        <4> DEFINE pong == xrce_secure_wrap("up", Payload("up", "pong", 64))
        <4>1. link'["up"] = link["up"] \/ link'["up"] = link["up"] \o pong.frames
          <5>1. \/ link' = [up |-> link["up"] \o pong.frames, down |-> Tail(link["down"])]
                \/ link' = [link EXCEPT !["down"] = Tail(@)]
            BY Zenon, <2>5 DEF board_rx
          <5> HIDE DEF pong
          <5> QED
            BY <5>1, <2>1 DEF Dir
        <4>2. pong.frames \in Seq(Frames)
          BY Zenon, <1>1, WrapSealed DEF LinkInv, Dir, Kinds
        <4> HIDE DEF pong
        <4>3. Len(link'["up"]) >= Len(link["up"])
          <5>1. link["up"] \in Seq(Frames)
            BY Zenon, <2>1 DEF Dir
          <5>2. Len(link["up"]) \in Nat
            BY Zenon, <5>1, LenProperties
          <5>3. Len(link["up"] \o pong.frames) >= Len(link["up"])
            BY Zenon, <5>1, <4>2, ConcatLonger
          <5>4. Len(link["up"]) >= Len(link["up"])
            BY <5>2
          <5> QED
            BY <5>3, <5>4, <4>1, Zenon
        <4> QED
          BY <2>1, <2>2, <4>3 DEF Dir
      <3> QED
        BY Zenon, <3>1, <2>3, <2>5 DEF board_rx
    <2>6. CASE board_send
      BY <1>1, <2>1, <2>2, <2>6, SendGrows DEF board_send, Dir, Kinds
    <2>7. CASE \E m \in {<<"data", 64>>, <<"status", 300>>, <<"status", 400>>} :
                 gateway_downlink(m[1], m[2])
      <3>1. PICK m \in {<<"data", 64>>, <<"status", 300>>, <<"status", 400>>} :
              gateway_downlink(m[1], m[2])
        BY Zenon, <2>7
      <3>2. m[1] \in Kinds /\ m[2] \in Nat
        BY DEF Kinds
      <3> QED
        BY <1>1, <3>1, <3>2, <2>1, <2>2, SendGrows DEF gateway_downlink, Dir
    <2>8. CASE (\E node \in {"board", "gateway"} : restart(node)) \/ UNCHANGED linkVars
      BY <2>2, <2>8 DEF restart, linkVars
    <2>9. CASE \E e \in Dir : lose_frame(e) \/ repeat(e) \/ damage(e)
      BY <2>1, <2>2, <2>9 DEF lose_frame, repeat, damage, Fault
    <2> QED
      BY Zenon, <1>1, <2>4, <2>5, <2>6, <2>7, <2>8, <2>9 DEF LinkNext
  <1>2. LinkInv /\ [LinkNext]_linkVars => \A d \in Dir : Newer(d)
    BY Zenon, <1>1
  <1> QED
    BY <1>2, LinkInvariant, PTL DEF LinkSpec, NewerAccepted
=============================================================================
