------------------------- MODULE ReliableStreamProofs -------------------------
(***************************************************************************)
(* Proofs about the reliable stream of ReliableStream.tla, for every size  *)
(* of the window, of the sequence numbers and of the publication.          *)
(***************************************************************************)
EXTENDS ReliableStream, WellFoundedInduction, TLAPS

-----------------------------------------------------------------------------
(* Sequences *)

LEMMA EmptySeq ==
    ASSUME NEW S
    PROVE  /\ <<>> \in Seq(S) /\ Len(<<>>) = 0
           /\ \A q \in Seq(S) : q # <<>> => Len(q) \in Nat \ {0}
  OBVIOUS

LEMMA HeadTailProperties ==
    ASSUME NEW S, NEW q \in Seq(S), q # <<>>
    PROVE  /\ Head(q) \in S /\ Tail(q) \in Seq(S) /\ Len(Tail(q)) = Len(q) - 1
           /\ \A i \in 1 .. Len(Tail(q)) : Tail(q)[i] = q[i + 1]
  OBVIOUS

LEMMA AppendProperties ==
    ASSUME NEW S, NEW q \in Seq(S), NEW e \in S
    PROVE  /\ Append(q, e) \in Seq(S) /\ Append(q, e) # <<>>
           /\ Len(Append(q, e)) = Len(q) + 1 /\ Append(q, e)[Len(q) + 1] = e
           /\ \A i \in 1 .. Len(q) : Append(q, e)[i] = q[i]
  OBVIOUS

-----------------------------------------------------------------------------
(* Arithmetic on sequence numbers *)

LEMMA LastSlot ==
    ASSUME NEW w \in Nat \ {0}, NEW m \in Nat \ {0}, m % w = 0
    PROVE  (m - 1) % w = w - 1
  <1>1. PICK q \in Int : m = w * q
    <2>1. (m % w) + (m \div w) * w = m
      OBVIOUS
    <2> QED
      BY <2>1
  <1>2. PICK p \in Int, r \in 0 .. w - 1 : m - 1 = w * p + r /\ r = (m - 1) % w
    <2> DEFINE l == m - 1
    <2>1. l \in Nat
      OBVIOUS
    <2> HIDE DEF l
    <2>2. (l % w) + (l \div w) * w = l /\ l % w \in 0 .. w - 1 /\ l \div w \in Int
      BY <2>1
    <2> QED
      BY <2>2 DEF l
  <1>3. w * (q - p) = r + 1
    BY <1>1, <1>2
  <1>4. q - p = 1
    <2>1. q - p >= 1
      BY <1>2, <1>3
    <2>2. ~(q - p >= 2)
      BY <1>2, <1>3
    <2> QED
      BY <2>1, <2>2
  <1> QED
    BY <1>2, <1>3, <1>4

LEMMA Least ==
    ASSUME NEW T \in SUBSET Nat, T # {}
    PROVE  \E n \in T : \A k \in T : n <= k
  <1>1. PICK n \in T : \A k \in T : ~(<<k, n>> \in OpToRel(<, Nat))
    BY Zenon, NatLessThanWellFounded, WFMin
  <1>2. \A k \in T : ~(k < n)
    <2> SUFFICES ASSUME NEW k \in T, k < n PROVE FALSE
      OBVIOUS
    <2>1. <<k, n>> \in Nat \X Nat /\ <<k, n>>[1] < <<k, n>>[2]
      OBVIOUS
    <2>2. <<k, n>> \in OpToRel(<, Nat)
      BY <2>1, Zenon DEF OpToRel
    <2> QED
      BY Zenon, <1>1, <2>2
  <1> QED
    BY <1>2

\* Upto(seq) is the number of samples up to and including seq; no sample precedes the
\* first one, so that Upto(Modulo - 1) = 0.
Upto(seq) == (seq + 1) % Modulo

LEMMA Sizes ==
    /\ Window \in Nat \ {0} /\ Count \in Nat \ {0} /\ Modulo \in Nat \ {0} /\ MaxRounds \in Nat
    /\ Modulo > 2 * Window /\ Modulo > 2 * Count
  BY StreamAssumption

LEMMA UptoValues ==
    /\ \A seq \in Seq16 : Upto(seq) = IF seq = Modulo - 1 THEN 0 ELSE seq + 1
    /\ \A n \in 0 .. Count : /\ (n - 1) % Modulo \in Seq16 /\ Upto((n - 1) % Modulo) = n
                             /\ n % Modulo = n /\ n \in Seq16
  <1>1. ASSUME NEW seq \in Seq16
        PROVE  Upto(seq) = IF seq = Modulo - 1 THEN 0 ELSE seq + 1
    <2>1. PICK x \in Int : x = seq + 1
      BY DEF Seq16
    <2>2. x % Modulo = IF x = Modulo THEN 0 ELSE x
      BY <2>1, Sizes DEF Seq16
    <2> QED
      BY <2>1, <2>2, Sizes DEF Upto, Seq16
  <1>2. ASSUME NEW n \in 0 .. Count
        PROVE  /\ (n - 1) % Modulo \in Seq16 /\ Upto((n - 1) % Modulo) = n
               /\ n % Modulo = n /\ n \in Seq16
    <2>1. n % Modulo = n /\ n \in Seq16
      BY Sizes DEF Seq16
    <2>2. (n - 1) % Modulo = IF n = 0 THEN Modulo - 1 ELSE n - 1
      <3>1. PICK x \in Int : x = n - 1
        BY Sizes
      <3>2. x % Modulo = IF n = 0 THEN Modulo - 1 ELSE x
        BY <3>1, Sizes
      <3> QED
        BY <3>1, <3>2
    <2>3. (n - 1) % Modulo \in Seq16
      BY <2>2, Sizes DEF Seq16
    <2>4. Upto((n - 1) % Modulo) = n
      BY <1>1, <2>2, <2>3, Sizes
    <2> QED
      BY <2>1, <2>3, <2>4
  <1> QED
    BY <1>1, <1>2

\* What the agent hands on when it has received `got`: at least what it had, without a
\* gap, and up to the first sample it misses.
LEMMA InOrderValues ==
    ASSUME delivered \in 0 .. Count, NEW got
    PROVE  /\ InOrder(got) \in delivered .. Count
           /\ \A k \in delivered .. InOrder(got) - 1 : k \in got
           /\ InOrder(got) = Count \/ InOrder(got) \notin got
  <1> DEFINE Ends(n) == n = Count \/ n % Modulo \notin got
             T == {n \in delivered .. Count : Ends(n)}
  <1>1. T \in SUBSET Nat /\ Count \in T
    BY Sizes
  <1>2. PICK n \in T : \A k \in T : n <= k
    BY Zenon, <1>1, Least
  <1>3. n \in delivered .. Count /\ Ends(n)
    OBVIOUS
  <1>4. \A k \in delivered .. n - 1 : k % Modulo \in got
    <2> SUFFICES ASSUME NEW k \in delivered .. n - 1, k % Modulo \notin got PROVE FALSE
      OBVIOUS
    <2>1. k \in T /\ k < n
      BY <1>3, Sizes
    <2> QED
      BY <1>2, <1>3, <2>1
  <1> HIDE DEF T
  <1>5. /\ InOrder(got) \in delivered .. Count
        /\ \A k \in delivered .. InOrder(got) - 1 : k % Modulo \in got
        /\ Ends(InOrder(got))
    BY <1>3, <1>4 DEF InOrder
  <1>6. \A k \in delivered .. Count : k % Modulo = k
    BY UptoValues
  <1>7. \A k \in delivered .. InOrder(got) - 1 : k \in delivered .. Count
    BY <1>5, Sizes
  <1> QED
    BY <1>5, <1>6, <1>7, Zenon

-----------------------------------------------------------------------------
(* What is acknowledged is delivered.  Of the window nothing needs to be known: *)
(* an ACKNACK says what the agent had when it was sent, and the agent loses     *)
(* nothing.                                                                     *)

Ack == [first_unacked : Seq16, bitmap : BOOLEAN]

AckInv ==
    /\ delivered \in 0 .. Count /\ last_acknown \in Seq16 /\ toClient \in Seq(Ack)
    /\ Upto(last_acknown) <= delivered
    /\ \A i \in 1 .. Len(toClient) : toClient[i].first_unacked <= delivered

\* Fewer ACKNACKs.
LEMMA TailAcks ==
    ASSUME AckInv, toClient # <<>>, toClient' = Tail(toClient)
    PROVE  /\ toClient' \in Seq(Ack)
           /\ \A i \in 1 .. Len(toClient') : toClient'[i].first_unacked <= delivered
           /\ Head(toClient) \in Ack /\ Head(toClient).first_unacked <= delivered
  <1>1. toClient \in Seq(Ack) /\ Len(toClient) \in Nat \ {0} /\ Head(toClient) = toClient[1]
    BY DEF AckInv
  <1>2. toClient' \in Seq(Ack) /\ Head(toClient) \in Ack
    BY <1>1
  <1>3. \A i \in 1 .. Len(toClient') : toClient'[i] = toClient[i + 1] /\ i + 1 \in 1 .. Len(toClient)
    BY <1>1
  <1>4. \A i \in 1 .. Len(toClient') : toClient'[i].first_unacked <= delivered
    BY <1>3 DEF AckInv
  <1> QED
    BY <1>1, <1>2, <1>4 DEF AckInv

LEMMA AckFrame ==
    ASSUME AckInv, UNCHANGED <<delivered, last_acknown>>,
           toClient' = toClient \/ (toClient # <<>> /\ toClient' = Tail(toClient))
    PROVE  AckInv'
  <1>1. CASE toClient' = toClient
    BY <1>1 DEF AckInv, Upto
  <1>2. CASE toClient # <<>> /\ toClient' = Tail(toClient)
    BY <1>2, TailAcks DEF AckInv, Upto
  <1> QED
    BY <1>1, <1>2

LEMMA recv_acknack_Acked ==
    ASSUME AckInv, recv_acknack
    PROVE  AckInv'
  <1> DEFINE f == Head(toClient).first_unacked
  <1>1. /\ toClient # <<>> /\ toClient' = Tail(toClient) /\ UNCHANGED delivered
        /\ last_acknown' = (f - 1) % Modulo \/ last_acknown' = last_acknown
    BY DEF recv_acknack, on_acknack, agent
  <1>2. f \in Seq16 /\ f <= delivered
    BY <1>1, TailAcks DEF Ack
  <1> HIDE DEF f
  <1>3. f \in 0 .. Count
    BY <1>2, Sizes DEF AckInv, Seq16
  <1>4. last_acknown' \in Seq16 /\ Upto(last_acknown') <= delivered
    <2>1. CASE last_acknown' = (f - 1) % Modulo
      BY <1>2, <1>3, <2>1, UptoValues
    <2>2. CASE last_acknown' = last_acknown
      BY <2>2 DEF AckInv
    <2> QED
      BY <1>1, <2>1, <2>2
  <1> QED
    BY <1>1, <1>4, TailAcks DEF AckInv, Upto

LEMMA agent_data_Acked ==
    ASSUME AckInv, agent_data
    PROVE  AckInv'
  <1>1. PICK got : delivered' = InOrder(got)
    BY DEF agent_data
  <1>2. UNCHANGED <<last_acknown, toClient>>
    BY DEF agent_data, ro
  <1>3. delivered' \in delivered .. Count
    BY <1>1, InOrderValues DEF AckInv
  <1>4. toClient \in Seq(Ack) /\ \A i \in 1 .. Len(toClient) : toClient[i].first_unacked \in Int
    <2>1. toClient \in Seq(Ack) /\ \A i \in 1 .. Len(toClient) : toClient[i] \in Ack
      BY DEF AckInv
    <2>2. \A a \in Ack : a.first_unacked \in Int
      BY DEF Ack, Seq16
    <2> QED
      BY <2>1, <2>2
  <1>5. Upto(last_acknown) \in Int
    BY UptoValues DEF AckInv, Seq16
  <1>6. delivered' \in 0 .. Count /\ delivered <= delivered'
    BY <1>3, Sizes DEF AckInv
  <1>7. Upto(last_acknown) <= delivered'
    BY <1>5, <1>6, Sizes DEF AckInv
  <1>8. \A i \in 1 .. Len(toClient) : toClient[i].first_unacked <= delivered'
    <2> SUFFICES ASSUME NEW i \in 1 .. Len(toClient)
                 PROVE  toClient[i].first_unacked <= delivered'
      OBVIOUS
    <2>1. toClient[i].first_unacked <= delivered /\ delivered \in Int /\ delivered' \in Int
      BY <1>6, Sizes DEF AckInv
    <2> QED
      BY <1>4, <1>6, <2>1
  <1> QED
    BY <1>2, <1>6, <1>7, <1>8 DEF AckInv, Upto

LEMMA agent_heartbeat_Acked ==
    ASSUME AckInv, agent_heartbeat
    PROVE  AckInv'
  <1>1. PICK b \in BOOLEAN : toClient' = Append(toClient, Acknack(delivered % Modulo, b))
    BY Zenon DEF agent_heartbeat
  <1>2. UNCHANGED <<last_acknown, delivered>>
    BY DEF agent_heartbeat, ro
  <1> DEFINE a == Acknack(delivered % Modulo, b)
  <1>3. a \in Ack /\ a.first_unacked = delivered
    BY UptoValues DEF AckInv, Ack, Acknack
  <1> HIDE DEF a
  <1>4. toClient' \in Seq(Ack)
    BY <1>1, <1>3 DEF AckInv, a
  <1>5. \A i \in 1 .. Len(toClient') : toClient'[i].first_unacked <= delivered
    <2>1. /\ Len(toClient') = Len(toClient) + 1 /\ toClient'[Len(toClient) + 1] = a
          /\ \A i \in 1 .. Len(toClient) : toClient'[i] = toClient[i]
      BY <1>1, <1>3 DEF AckInv, a
    <2> QED
      BY <1>3, <2>1 DEF AckInv
  <1> QED
    BY <1>2, <1>4, <1>5 DEF AckInv, Upto

LEMMA AckInit ==
    ASSUME Init
    PROVE  AckInv
  <1>1. last_acknown \in Seq16 /\ Upto(last_acknown) = 0
    BY Sizes, UptoValues DEF Init, Seq16
  <1>2. toClient \in Seq(Ack) /\ Len(toClient) = 0
    BY DEF Init
  <1> QED
    BY <1>1, <1>2, Sizes DEF Init, AckInv

LEMMA AckStep ==
    ASSUME AckInv, [Next]_vars
    PROVE  AckInv'
  <1>1. CASE publish_sample \/ send_heartbeat \/ round_over
    BY <1>1, AckFrame DEF publish_sample, track, send_heartbeat, round_over, ro, link, agent
  <1>2. CASE retransmit \/ sweep_done \/ give_up
    BY <1>2, AckFrame DEF retransmit, next_retransmit, sweep_done, sweep_finished, give_up,
       ro, link, agent
  <1>3. CASE drop
    BY <1>3, AckFrame DEF drop, ro, agent
  <1>4. CASE UNCHANGED vars
    BY <1>4, AckFrame DEF vars, ro, link, agent
  <1> QED
    BY <1>1, <1>2, <1>3, <1>4, recv_acknack_Acked, agent_data_Acked, agent_heartbeat_Acked
       DEF Next, Client, Finished

\* What the client takes for acknowledged, the agent has handed on: last_acknown of
\* reliable_stream.c never runs ahead of the agent, for any window, any number of samples
\* and any losses, however late an ACKNACK is.
THEOREM AcksAreTrue ==
    Spec => []AckedDelivered
  <1>1. Init => AckInv
    BY AckInit
  <1>2. AckInv /\ [Next]_vars => AckInv'
    BY AckStep
  <1>3. AckInv => AckedDelivered
    BY DEF AckInv, AckedDelivered, Upto
  <1> QED
    BY <1>1, <1>2, <1>3, PTL DEF Spec

-----------------------------------------------------------------------------
(* With a slot to spare the window keeps what is not acknowledged *)

\* The window is never full.  (When it is, the loop of on_acknack that starts at
\* last_acknown itself frees the slot of the newest sample.)
Spare == Count < Window

WindowInv ==
    /\ out_seq_num \in 0 .. Count
    /\ phase \in {"publish", "round", "listen", "sweep", "done"}
    /\ phase = "publish" <=> out_seq_num < Count
    /\ phase = "publish" => last_acknown = Modulo - 1
    /\ any_sent \in BOOLEAN /\ (any_sent <=> out_seq_num > 0)
    /\ any_sent => last_sent = out_seq_num - 1
    /\ buf \in [Slot -> 0 .. Modulo] /\ occupied \in [Slot -> BOOLEAN]
    /\ \A s \in 0 .. out_seq_num - 1 : /\ buf[s] = s
                                       /\ s >= Upto(last_acknown) => occupied[s]

\* The ACKNACKs under way acknowledge more and more.
OrderInv ==
    /\ \A i \in 1 .. Len(toClient) : Upto(last_acknown) <= toClient[i].first_unacked
    /\ \A i, j \in 1 .. Len(toClient) :
          i < j => toClient[i].first_unacked <= toClient[j].first_unacked

LEMMA SlotValues ==
    ASSUME Spare
    PROVE  /\ \A s \in 0 .. Count - 1 : s \in Slot /\ slot_for(s) = s /\ s \in Seq16
           /\ slot_for(Modulo - 1) = Window - 1 /\ slot_for(Modulo) = 0
  <1>1. \A s \in 0 .. Count - 1 : s \in Slot /\ s % Window = s /\ s \in Seq16
    BY Sizes DEF Spare, Slot, Seq16
  <1>2. Modulo % Window = 0
    BY StreamAssumption
  <1>3. (Modulo - 1) % Window = Window - 1
    BY Zenon, <1>2, Sizes, LastSlot
  <1> QED
    BY <1>1, <1>2, <1>3 DEF slot_for

\* The slots an ACKNACK frees: none of a sample it does not acknowledge.
LEMMA FreedSlots ==
    ASSUME Spare, last_acknown \in Seq16, NEW f \in 0 .. Count, Upto(last_acknown) <= f,
           NEW seq \in FreedFrom(f)
    PROVE  slot_for(seq) \notin f .. Count - 1
  <1>1. PICK k \in 0 .. Ahead(last_acknown, f) - 1 : seq = (last_acknown + k) % Modulo
    BY DEF FreedFrom
  <1>2. CASE last_acknown = Modulo - 1
    <2>1. Ahead(last_acknown, f) = f + 1
      <3>1. PICK x \in Int : x = f - last_acknown
        BY <1>2, Sizes
      <3>2. x % Modulo = f + 1
        BY <1>2, <3>1, Sizes
      <3> QED
        BY <3>1, <3>2 DEF Ahead
    <2>2. seq = Modulo - 1 \/ seq \in 0 .. f - 1
      <3>1. PICK x \in Int : x = last_acknown + k
        BY <1>2, <2>1, Sizes
      <3>2. k \in 0 .. f
        BY <2>1, Sizes
      <3>3. x % Modulo = IF k = 0 THEN Modulo - 1 ELSE k - 1
        BY <1>2, <3>1, <3>2, Sizes
      <3> QED
        BY <1>1, <3>1, <3>2, <3>3
    <2> QED
      BY <2>2, SlotValues, Sizes DEF Spare
  <1>3. CASE last_acknown # Modulo - 1
    <2>0. last_acknown + 1 <= f /\ last_acknown \in Nat
      BY <1>3, UptoValues DEF Seq16
    <2>1. Ahead(last_acknown, f) = f - last_acknown
      <3>1. PICK x \in Int : x = f - last_acknown
        BY <2>0, Sizes
      <3>2. x % Modulo = x
        BY <2>0, <3>1, Sizes
      <3> QED
        BY <3>1, <3>2 DEF Ahead
    <2>2. seq \in 0 .. f - 1
      <3>1. PICK x \in Int : x = last_acknown + k
        BY <2>0, <2>1, Sizes
      <3>2. x \in 0 .. f - 1
        BY <2>0, <2>1, <3>1, Sizes
      <3>3. x % Modulo = x
        BY <3>2, Sizes
      <3> QED
        BY <1>1, <3>1, <3>2, <3>3
    <2> QED
      BY <2>2, SlotValues, Sizes DEF Spare
  <1> QED
    BY <1>2, <1>3

LEMMA publish_sample_Window ==
    ASSUME Spare, AckInv, WindowInv, publish_sample
    PROVE  WindowInv'
  <1>1. /\ phase = "publish" /\ out_seq_num < Count /\ track(out_seq_num)
        /\ out_seq_num' = out_seq_num + 1
        /\ phase' = IF out_seq_num + 1 = Count THEN "round" ELSE phase
    BY DEF publish_sample
  <1>2. last_acknown = Modulo - 1 /\ out_seq_num \in 0 .. Count - 1
    BY <1>1, Sizes DEF WindowInv
  <1>3. HasRoom(out_seq_num)
    <2>1. PICK x \in Int : x = out_seq_num - last_acknown
      BY <1>2, Sizes
    <2>2. x % Modulo = out_seq_num + 1
      BY <1>2, <2>1, Sizes
    <2> QED
      BY <1>2, <2>1, <2>2, Sizes DEF HasRoom, Ahead, Spare
  <1>4. out_seq_num \in Slot /\ slot_for(out_seq_num) = out_seq_num /\ out_seq_num \in Seq16
    BY <1>2, SlotValues
  <1>5. /\ buf' = [buf EXCEPT ![out_seq_num] = out_seq_num]
        /\ occupied' = [occupied EXCEPT ![out_seq_num] = TRUE]
        /\ last_sent' = out_seq_num /\ any_sent' = TRUE /\ last_acknown' = last_acknown
    BY <1>1, <1>3, <1>4 DEF track
  <1>6. /\ buf' \in [Slot -> 0 .. Modulo] /\ occupied' \in [Slot -> BOOLEAN]
        /\ buf'[out_seq_num] = out_seq_num /\ occupied'[out_seq_num]
        /\ \A s \in Slot : s # out_seq_num => buf'[s] = buf[s] /\ occupied'[s] = occupied[s]
    BY <1>4, <1>5, Sizes DEF WindowInv, Seq16
  <1>7. \A s \in 0 .. out_seq_num : /\ buf'[s] = s
                                    /\ s >= Upto(last_acknown) => occupied'[s]
    <2> SUFFICES ASSUME NEW s \in 0 .. out_seq_num
                 PROVE  buf'[s] = s /\ (s >= Upto(last_acknown) => occupied'[s])
      OBVIOUS
    <2>1. CASE s = out_seq_num
      BY <1>6, <2>1
    <2>2. CASE s # out_seq_num
      <3>1. s \in 0 .. out_seq_num - 1 /\ s \in 0 .. Count - 1
        BY <1>2, <2>2, Sizes
      <3>2. s \in Slot
        BY <3>1, SlotValues
      <3>3. buf[s] = s /\ (s >= Upto(last_acknown) => occupied[s])
        BY <3>1 DEF WindowInv
      <3> QED
        BY <1>6, <2>2, <3>2, <3>3
    <2> QED
      BY <2>1, <2>2
  <1>8. /\ out_seq_num' \in 0 .. Count /\ out_seq_num' > 0 /\ out_seq_num' - 1 = out_seq_num
        /\ phase' = "publish" <=> out_seq_num' < Count
        /\ phase' \in {"publish", "round"}
    BY <1>1, <1>2, Sizes
  <1> QED
    BY Zenon, <1>2, <1>5, <1>6, <1>7, <1>8 DEF WindowInv, Upto

LEMMA WindowFrame ==
    ASSUME WindowInv,
           UNCHANGED <<buf, occupied, last_acknown, last_sent, any_sent, out_seq_num>>,
           phase' = phase \/ (phase # "publish" /\ phase' \in {"round", "listen", "sweep", "done"})
    PROVE  WindowInv'
  BY DEF WindowInv, Upto

LEMMA recv_acknack_Window ==
    ASSUME Spare, AckInv, OrderInv, WindowInv, recv_acknack
    PROVE  /\ WindowInv' /\ any_sent
           /\ last_acknown' = (Head(toClient).first_unacked - 1) % Modulo
           /\ Upto(last_acknown') = Head(toClient).first_unacked
  <1> DEFINE f == Head(toClient).first_unacked
             freed == {slot_for(seq) : seq \in FreedFrom(f)}
  <1>1. /\ phase = "listen" /\ toClient # <<>> /\ toClient' = Tail(toClient)
        /\ on_acknack(f, Head(toClient).bitmap) /\ UNCHANGED <<phase, out_seq_num>>
    BY DEF recv_acknack
  <1>2. any_sent /\ out_seq_num = Count
    BY <1>1, Sizes DEF WindowInv
  <1>3. /\ occupied' = [s \in Slot |-> occupied[s] /\ s \notin freed]
        /\ last_acknown' = (f - 1) % Modulo /\ UNCHANGED <<buf, last_sent, any_sent>>
    BY <1>1, <1>2 DEF on_acknack
  <1>4. f \in 0 .. Count /\ Upto(last_acknown) <= f
    <2>1. f \in Seq16 /\ f <= delivered
      BY <1>1, TailAcks DEF Ack
    <2>2. f = toClient[1].first_unacked /\ 1 \in 1 .. Len(toClient)
      BY <1>1 DEF AckInv
    <2> QED
      BY <2>1, <2>2, Sizes DEF AckInv, OrderInv, Seq16
  <1>5. \A s \in f .. Count - 1 : s \notin freed
    BY <1>4, FreedSlots DEF AckInv
  <1> HIDE DEF f, freed
  <1>6. Upto(last_acknown') = f
    BY <1>3, <1>4, UptoValues
  <1>7. \A s \in 0 .. Count - 1 : s >= f => occupied'[s]
    <2> SUFFICES ASSUME NEW s \in 0 .. Count - 1, s >= f PROVE occupied'[s]
      OBVIOUS
    <2>1. s \in Slot /\ s \in f .. Count - 1
      BY <1>4, SlotValues
    <2>2. Upto(last_acknown) \in Int
      BY UptoValues DEF AckInv, Seq16
    <2>3. s >= Upto(last_acknown)
      BY <1>4, <2>2
    <2>4. occupied[s]
      BY <1>2, <2>3 DEF WindowInv
    <2> QED
      BY Zenon, <1>3, <1>5, <2>1, <2>4
  <1>8. occupied' \in [Slot -> BOOLEAN]
    BY <1>3 DEF WindowInv
  <1>9. WindowInv'
    BY Zenon, <1>1, <1>2, <1>3, <1>6, <1>7, <1>8 DEF WindowInv, Upto
  <1> QED
    BY <1>2, <1>3, <1>6, <1>9 DEF f

LEMMA TailOrder ==
    ASSUME AckInv, OrderInv, toClient # <<>>, toClient' = Tail(toClient)
    PROVE  /\ \A i \in 1 .. Len(toClient') :
                /\ Head(toClient).first_unacked <= toClient'[i].first_unacked
                /\ Upto(last_acknown) <= toClient'[i].first_unacked
           /\ \A i, j \in 1 .. Len(toClient') :
                i < j => toClient'[i].first_unacked <= toClient'[j].first_unacked
  <1>1. /\ Len(toClient') = Len(toClient) - 1 /\ Len(toClient) \in Nat \ {0}
        /\ Head(toClient) = toClient[1]
        /\ \A i \in 1 .. Len(toClient') : toClient'[i] = toClient[i + 1]
    BY DEF AckInv
  <1>2. ASSUME NEW i \in 1 .. Len(toClient')
        PROVE  /\ Head(toClient).first_unacked <= toClient'[i].first_unacked
               /\ Upto(last_acknown) <= toClient'[i].first_unacked
    <2>1. 1 \in 1 .. Len(toClient) /\ i + 1 \in 1 .. Len(toClient) /\ 1 < i + 1
      BY <1>1
    <2> QED
      BY <1>1, <2>1 DEF OrderInv
  <1>3. ASSUME NEW i \in 1 .. Len(toClient'), NEW j \in 1 .. Len(toClient'), i < j
        PROVE  toClient'[i].first_unacked <= toClient'[j].first_unacked
    <2>1. i + 1 \in 1 .. Len(toClient) /\ j + 1 \in 1 .. Len(toClient) /\ i + 1 < j + 1
      BY <1>1, <1>3
    <2> QED
      BY <1>1, <2>1 DEF OrderInv
  <1> QED
    BY <1>2, <1>3

LEMMA OrderFrame ==
    ASSUME AckInv, OrderInv, last_acknown' = last_acknown,
           toClient' = toClient \/ (toClient # <<>> /\ toClient' = Tail(toClient))
    PROVE  OrderInv'
  <1>1. CASE toClient' = toClient
    BY <1>1 DEF OrderInv, Upto
  <1>2. CASE toClient # <<>> /\ toClient' = Tail(toClient)
    BY <1>2, TailOrder DEF OrderInv, Upto
  <1> QED
    BY <1>1, <1>2

LEMMA recv_acknack_Order ==
    ASSUME Spare, AckInv, OrderInv, WindowInv, recv_acknack
    PROVE  OrderInv'
  <1>1. toClient # <<>> /\ toClient' = Tail(toClient)
    BY DEF recv_acknack
  <1>2. Upto(last_acknown') = Head(toClient).first_unacked
    BY recv_acknack_Window
  <1> QED
    BY <1>1, <1>2, TailOrder DEF OrderInv, Upto

LEMMA agent_heartbeat_Order ==
    ASSUME AckInv, OrderInv, agent_heartbeat
    PROVE  OrderInv'
  <1>1. PICK b \in BOOLEAN : toClient' = Append(toClient, Acknack(delivered % Modulo, b))
    BY Zenon DEF agent_heartbeat
  <1>2. last_acknown' = last_acknown
    BY DEF agent_heartbeat, ro
  <1> DEFINE a == Acknack(delivered % Modulo, b)
  <1>3. a \in Ack /\ a.first_unacked = delivered
    BY UptoValues DEF AckInv, Ack, Acknack
  <1> HIDE DEF a
  <1>4. /\ Len(toClient') = Len(toClient) + 1 /\ toClient'[Len(toClient) + 1] = a
        /\ \A i \in 1 .. Len(toClient) : toClient'[i] = toClient[i]
        /\ Len(toClient) \in Nat
    BY <1>1, <1>3 DEF AckInv, a
  <1>5. \A i \in 1 .. Len(toClient') : Upto(last_acknown) <= toClient'[i].first_unacked
    BY <1>3, <1>4 DEF AckInv, OrderInv
  <1>6. \A i, j \in 1 .. Len(toClient') :
          i < j => toClient'[i].first_unacked <= toClient'[j].first_unacked
    <2> SUFFICES ASSUME NEW i \in 1 .. Len(toClient'), NEW j \in 1 .. Len(toClient'), i < j
                 PROVE  toClient'[i].first_unacked <= toClient'[j].first_unacked
      OBVIOUS
    <2>1. i \in 1 .. Len(toClient)
      BY <1>4
    <2>2. CASE j \in 1 .. Len(toClient)
      BY <1>4, <2>1, <2>2 DEF OrderInv
    <2>3. CASE j = Len(toClient) + 1
      BY <1>3, <1>4, <2>1, <2>3 DEF AckInv
    <2> QED
      BY <1>4, <2>2, <2>3
  <1> QED
    BY <1>2, <1>5, <1>6 DEF OrderInv, Upto

StreamInv == AckInv /\ WindowInv /\ OrderInv

LEMMA StreamInit ==
    ASSUME Init
    PROVE  StreamInv
  <1>1. WindowInv
    <2>1. buf \in [Slot -> 0 .. Modulo] /\ occupied \in [Slot -> BOOLEAN]
      BY Sizes DEF Init
    <2>2. out_seq_num \in 0 .. Count /\ out_seq_num < Count /\ ~(out_seq_num > 0)
      BY Sizes DEF Init
    <2>3. \A s \in 0 .. out_seq_num - 1 : FALSE
      BY DEF Init
    <2>4. phase = "publish" /\ last_acknown = Modulo - 1 /\ any_sent = FALSE
      BY DEF Init
    <2> QED
      BY <2>1, <2>2, <2>3, <2>4, Zenon DEF WindowInv
  <1>2. OrderInv
    BY DEF Init, OrderInv
  <1> QED
    BY <1>1, <1>2, AckInit DEF StreamInv

LEMMA StreamStep ==
    ASSUME Spare, StreamInv, [Next]_vars
    PROVE  StreamInv'
  <1>1. AckInv /\ WindowInv /\ OrderInv /\ AckInv'
    BY AckStep DEF StreamInv
  <1> USE <1>1
  <1>2. CASE publish_sample
    <2>1. UNCHANGED <<last_acknown, toClient>>
      BY <1>2 DEF publish_sample, track, ro
    <2> QED
      BY <1>2, <2>1, publish_sample_Window, OrderFrame DEF StreamInv
  <1>3. CASE recv_acknack
    BY <1>3, recv_acknack_Window, recv_acknack_Order DEF StreamInv
  <1>4. CASE send_heartbeat \/ round_over \/ retransmit \/ sweep_done \/ give_up
    <2>1. /\ UNCHANGED <<buf, occupied, last_acknown, last_sent, any_sent, out_seq_num, toClient>>
          /\ phase # "publish" /\ phase' \in {"round", "listen", "sweep", "done"}
      <3>1. CASE send_heartbeat \/ round_over \/ give_up
        BY <3>1 DEF send_heartbeat, round_over, give_up, ro, link
      <3>2. CASE retransmit
        BY <3>2 DEF retransmit, next_retransmit, bench
      <3>3. CASE sweep_done
        BY <3>3 DEF sweep_done, sweep_finished, link
      <3> QED
        BY <1>4, <3>1, <3>2, <3>3
    <2> QED
      BY <2>1, WindowFrame, OrderFrame DEF StreamInv
  <1>5. CASE drop \/ agent_data \/ UNCHANGED vars
    <2>1. /\ UNCHANGED <<buf, occupied, last_acknown, last_sent, any_sent, out_seq_num, phase>>
          /\ toClient' = toClient \/ (toClient # <<>> /\ toClient' = Tail(toClient))
      BY <1>5 DEF drop, agent_data, vars, ro, bench, link
    <2> QED
      BY <2>1, WindowFrame, OrderFrame DEF StreamInv
  <1>6. CASE agent_heartbeat
    <2>1. UNCHANGED <<buf, occupied, last_acknown, last_sent, any_sent, out_seq_num, phase>>
      BY <1>6 DEF agent_heartbeat, ro, bench
    <2> QED
      BY <1>6, <2>1, WindowFrame, agent_heartbeat_Order DEF StreamInv
  <1> QED
    BY <1>2, <1>3, <1>4, <1>5, <1>6 DEF Next, Client, Finished

LEMMA WindowKeeps ==
    ASSUME Spare, StreamInv
    PROVE  NothingForgotten
  <1> SUFFICES ASSUME NEW seq \in delivered .. out_seq_num - 1
               PROVE  occupied[slot_for(seq)] /\ buf[slot_for(seq)] = seq
    BY DEF NothingForgotten
  <1>1. /\ delivered \in 0 .. Count /\ out_seq_num \in 0 .. Count
        /\ Upto(last_acknown) <= delivered /\ Upto(last_acknown) \in Int
    BY UptoValues DEF StreamInv, AckInv, WindowInv, Seq16
  <1>2. seq \in 0 .. out_seq_num - 1 /\ seq \in 0 .. Count - 1 /\ seq >= Upto(last_acknown)
    BY <1>1, Sizes
  <1> QED
    BY <1>2, SlotValues DEF StreamInv, WindowInv

\* As long as fewer samples than the window has slots are published, on_acknack() frees no
\* slot of a sample the agent has not got: next_retransmit() can resend each one.
THEOREM NothingLost ==
    ASSUME Spare
    PROVE  Spec => []NothingForgotten
  <1>1. Init => StreamInv
    BY StreamInit
  <1>2. StreamInv /\ [Next]_vars => StreamInv'
    BY StreamStep
  <1>3. StreamInv => NothingForgotten
    BY WindowKeeps
  <1> QED
    BY <1>1, <1>2, <1>3, PTL DEF Spec

-----------------------------------------------------------------------------
(* What a wasted round costs the link.  From here on no round ended with       *)
(* datagrams still on their way: ~late.                                        *)

Sample == 0 .. Count - 1
Datagram == {Data(k) : k \in Sample} \union {Heartbeat(first, Count - 1) : first \in Seq16}

\* A round of the bench has one heartbeat, behind all data, and one ACKNACK that is the
\* answer to it.
RoundInv ==
    /\ toAgent \in Seq(Datagram)
    /\ early \subseteq Sample /\ delivered \notin early
    /\ rounds \in 0 .. MaxRounds /\ drops \in 0 .. MaxRounds
    /\ got_acknack \in BOOLEAN /\ send_lost \in BOOLEAN
    /\ phase \in {"listen", "sweep"} => rounds < MaxRounds
    /\ phase = "done" => AllAcked \/ rounds = MaxRounds
    /\ \A i \in 1 .. Len(toAgent) :
          toAgent[i].kind = "heartbeat" <=> phase = "listen" /\ i = Len(toAgent)
    /\ phase = "listen" /\ toAgent # <<>> => toClient = <<>> /\ ~got_acknack
    /\ toClient # <<>> => /\ phase = "listen" /\ ~got_acknack /\ Len(toClient) = 1
                          /\ toClient[1].first_unacked = delivered
                          /\ delivered < Count => toClient[1].bitmap
    /\ phase = "listen" /\ got_acknack => /\ Upto(last_acknown) = delivered
                                          /\ retransmit_cursor = last_acknown
                                          /\ delivered < Count => send_lost
    /\ phase = "sweep" => /\ retransmit_cursor \in Seq16
                          /\ Upto(retransmit_cursor) \in Upto(last_acknown) .. Count
                          /\ ~AllAcked => send_lost

Sweeping == phase = "sweep" /\ ~AllAcked
Silent == phase = "listen" /\ ~got_acknack /\ toAgent = <<>> /\ toClient = <<>>
InFlight(k) == \E i \in 1 .. Len(toAgent) : toAgent[i] = Data(k)
Coming(k) == \/ k < delivered \/ k \in early \/ InFlight(k)
             \/ Sweeping /\ k >= Upto(retransmit_cursor)
Lost == \E k \in 0 .. out_seq_num - 1 : ~Coming(k)

One(b) == IF b THEN 1 ELSE 0

\* Each round that was wasted, a sample that is gone until the next sweep, an answer that
\* will not come and a sweep under way stand for a lost datagram each.
Charge == rounds + One(Lost) + One(Silent) + One(Sweeping)

LossInv == drops = MaxRounds \/ drops >= Charge

LEMMA Datagrams ==
    /\ \A k \in Sample : Data(k) \in Datagram /\ Data(k).kind = "data" /\ Data(k).seq = k
    /\ \A first \in Seq16 : /\ Heartbeat(first, Count - 1) \in Datagram
                            /\ Heartbeat(first, Count - 1).kind = "heartbeat"
    /\ \A d \in Datagram : \/ d.kind = "data" /\ d.seq \in Sample /\ d = Data(d.seq)
                           \/ d.kind = "heartbeat" /\ d.last = Count - 1
  <1>1. \A k \in Sample : Data(k) \in Datagram /\ Data(k).kind = "data" /\ Data(k).seq = k
    BY DEF Datagram, Data
  <1>2. \A first \in Seq16 : /\ Heartbeat(first, Count - 1) \in Datagram
                             /\ Heartbeat(first, Count - 1).kind = "heartbeat"
                             /\ Heartbeat(first, Count - 1).last = Count - 1
    BY DEF Datagram, Heartbeat
  <1>3. \A d \in Datagram : \/ \E k \in Sample : d = Data(k)
                            \/ \E first \in Seq16 : d = Heartbeat(first, Count - 1)
    BY DEF Datagram
  <1> QED
    BY <1>1, <1>2, <1>3

LEMMA Appended ==
    ASSUME NEW S, NEW s \in Seq(S), NEW e \in S
    PROVE  /\ Append(s, e) \in Seq(S) /\ Append(s, e) # <<>> /\ Len(s) \in Nat
           /\ Len(Append(s, e)) = Len(s) + 1 /\ Append(s, e)[Len(s) + 1] = e
           /\ \A i \in 1 .. Len(s) : Append(s, e)[i] = s[i]
  BY AppendProperties

LEMMA Tailed ==
    ASSUME NEW S, NEW s \in Seq(S), s # <<>>
    PROVE  /\ Tail(s) \in Seq(S) /\ Len(s) \in Nat \ {0} /\ Len(Tail(s)) = Len(s) - 1
           /\ Head(s) = s[1] /\ Head(s) \in S
           /\ \A i \in 1 .. Len(s) - 1 : Tail(s)[i] = s[i + 1]
           /\ Tail(s) = <<>> <=> Len(s) = 1
  <1>1. /\ Tail(s) \in Seq(S) /\ Len(s) \in Nat \ {0} /\ Len(Tail(s)) = Len(s) - 1
        /\ Head(s) = s[1] /\ Head(s) \in S
        /\ \A i \in 1 .. Len(s) - 1 : Tail(s)[i] = s[i + 1]
    BY HeadTailProperties
  <1>2. Tail(s) = <<>> <=> Len(Tail(s)) = 0
    BY Zenon, <1>1, EmptySeq
  <1> QED
    BY <1>1, <1>2

\* What is acknowledged, in samples.
LEMMA Acknowledged ==
    ASSUME StreamInv
    PROVE  /\ Upto(last_acknown) \in 0 .. delivered /\ delivered \in 0 .. Count
           /\ AllAcked <=> Upto(last_acknown) = Count
  <1>1. /\ last_acknown \in Seq16 /\ delivered \in 0 .. Count /\ Upto(last_acknown) <= delivered
    BY DEF StreamInv, AckInv
  <1>2. Upto(last_acknown) = IF last_acknown = Modulo - 1 THEN 0 ELSE last_acknown + 1
    BY <1>1, UptoValues
  <1> QED
    BY <1>1, <1>2, Sizes DEF AllAcked, Seq16

\* A sample on its way stays so unless it arrives, is lost or is passed by the sweep.
LEMMA ComingFrame ==
    ASSUME NEW k, Coming(k), UNCHANGED <<delivered, early>>,
           \A i \in 1 .. Len(toAgent) : \E j \in 1 .. Len(toAgent') : toAgent'[j] = toAgent[i],
           Sweeping /\ k >= Upto(retransmit_cursor) => Coming(k)'
    PROVE  Coming(k)'
  BY DEF Coming, InFlight

LEMMA SameCharge ==
    ASSUME RoundInv, LossInv, UNCHANGED <<drops, rounds>>,
           Lost' => Lost, Silent' => Silent, Sweeping' => Sweeping
    PROVE  LossInv'
  <1>1. /\ One(Lost') \in 0 .. 1 /\ One(Lost) \in 0 .. 1 /\ One(Lost') <= One(Lost)
        /\ One(Silent') \in 0 .. 1 /\ One(Silent) \in 0 .. 1 /\ One(Silent') <= One(Silent)
        /\ One(Sweeping') \in 0 .. 1 /\ One(Sweeping) \in 0 .. 1
        /\ One(Sweeping') <= One(Sweeping)
    BY DEF One
  <1>2. /\ Charge = rounds + One(Lost) + One(Silent) + One(Sweeping)
        /\ Charge' = rounds + One(Lost') + One(Silent') + One(Sweeping')
    BY DEF Charge, One
  <1>3. rounds \in Nat /\ drops \in Nat
    BY Sizes DEF RoundInv
  <1>4. Charge' <= Charge
    BY <1>1, <1>2, <1>3
  <1> QED
    BY <1>1, <1>2, <1>3, <1>4 DEF LossInv

-----------------------------------------------------------------------------
(* The client's steps *)

LEMMA publish_sample_Round ==
    ASSUME Spare, StreamInv, RoundInv, LossInv, publish_sample
    PROVE  RoundInv' /\ LossInv'
  <1> DEFINE d == Data(out_seq_num)
  <1>1. /\ phase = "publish" /\ phase' \in {"publish", "round"}
        /\ out_seq_num \in Sample /\ out_seq_num' = out_seq_num + 1
        /\ toAgent' = Append(toAgent, d)
        /\ UNCHANGED <<rounds, got_acknack, toClient, drops, delivered, early, send_lost>>
    BY Sizes DEF publish_sample, track, agent, ro, StreamInv, WindowInv, Sample
  <1>2. d \in Datagram /\ d.kind = "data" /\ d = Data(out_seq_num)
    BY <1>1, Datagrams
  <1> HIDE DEF d
  <1>3. /\ toAgent' \in Seq(Datagram) /\ Len(toAgent) \in Nat
        /\ Len(toAgent') = Len(toAgent) + 1 /\ toAgent'[Len(toAgent) + 1] = d
        /\ \A i \in 1 .. Len(toAgent) : toAgent'[i] = toAgent[i]
    BY <1>1, <1>2, Appended DEF RoundInv
  <1>4. \A i \in 1 .. Len(toAgent') : toAgent'[i].kind # "heartbeat"
    BY <1>1, <1>2, <1>3 DEF RoundInv
  <1>5. RoundInv'
    BY <1>1, <1>3, <1>4 DEF RoundInv
  <1>6. Lost' => Lost
    <2> SUFFICES ASSUME ~Lost, NEW k \in 0 .. out_seq_num PROVE Coming(k)'
      <3>1. out_seq_num' - 1 = out_seq_num
        BY <1>1 DEF Sample
      <3> QED
        BY <3>1, Zenon DEF Lost
    <2>1. CASE k = out_seq_num
      BY <1>2, <1>3, <2>1 DEF Coming, InFlight
    <2>2. CASE k # out_seq_num
      <3>1. Coming(k)
        BY <1>1, <2>2 DEF Lost, Sample
      <3>2. \A i \in 1 .. Len(toAgent) : \E j \in 1 .. Len(toAgent') : toAgent'[j] = toAgent[i]
        BY <1>3
      <3> QED
        BY <1>1, <3>1, <3>2, ComingFrame DEF Sweeping
    <2> QED
      BY <2>1, <2>2
  <1>7. ~Silent' /\ ~Sweeping'
    BY <1>1 DEF Silent, Sweeping
  <1> QED
    BY <1>1, <1>5, <1>6, <1>7, SameCharge

LEMMA send_heartbeat_Round ==
    ASSUME Spare, StreamInv, RoundInv, LossInv, send_heartbeat
    PROVE  RoundInv' /\ LossInv'
  <1> DEFINE d == Heartbeat((last_acknown + 1) % Modulo, last_sent)
  <1>1. /\ phase = "round" /\ rounds < MaxRounds /\ phase' = "listen" /\ got_acknack' = FALSE
        /\ toAgent' = Append(toAgent, d)
        /\ UNCHANGED <<out_seq_num, rounds, toClient, drops, delivered, early, send_lost>>
    BY DEF send_heartbeat, agent, ro
  <1>2. d \in Datagram /\ d.kind = "heartbeat"
    <2>1. last_sent = Count - 1
      BY <1>1, Sizes DEF StreamInv, WindowInv
    <2>2. (last_acknown + 1) % Modulo \in Seq16
      BY Sizes DEF StreamInv, AckInv, Seq16
    <2> QED
      BY <2>1, <2>2, Datagrams
  <1> HIDE DEF d
  <1>3. /\ toAgent' \in Seq(Datagram) /\ Len(toAgent) \in Nat /\ toAgent' # <<>>
        /\ Len(toAgent') = Len(toAgent) + 1 /\ toAgent'[Len(toAgent) + 1] = d
        /\ \A i \in 1 .. Len(toAgent) : toAgent'[i] = toAgent[i]
    BY <1>1, <1>2, Appended DEF RoundInv
  <1>4. \A i \in 1 .. Len(toAgent') : toAgent'[i].kind = "heartbeat" <=> i = Len(toAgent')
    BY <1>1, <1>2, <1>3 DEF RoundInv
  <1>5. toClient = <<>>
    BY <1>1 DEF RoundInv
  <1>6. RoundInv'
    BY Zenon, <1>1, <1>3, <1>4, <1>5 DEF RoundInv
  <1>7. Lost' => Lost
    <2> SUFFICES ASSUME NEW k, Coming(k) PROVE Coming(k)'
      BY <1>1 DEF Lost
    <2>1. \A i \in 1 .. Len(toAgent) : \E j \in 1 .. Len(toAgent') : toAgent'[j] = toAgent[i]
      BY <1>3
    <2> QED
      BY <1>1, <2>1, ComingFrame DEF Sweeping
  <1>8. ~Silent' /\ ~Sweeping'
    BY <1>1, <1>3 DEF Silent, Sweeping
  <1> QED
    BY <1>1, <1>6, <1>7, <1>8, SameCharge

LEMMA recv_acknack_Round ==
    ASSUME Spare, StreamInv, RoundInv, LossInv, recv_acknack
    PROVE  RoundInv' /\ LossInv'
  <1>1. /\ phase = "listen" /\ toClient # <<>> /\ toClient' = Tail(toClient) /\ got_acknack' = TRUE
        /\ send_lost' = Head(toClient).bitmap /\ retransmit_cursor' = last_acknown'
        /\ UNCHANGED <<phase, out_seq_num, rounds, toAgent, drops, delivered, early>>
    BY DEF recv_acknack, on_acknack, agent
  <1>2. /\ Len(toClient) = 1 /\ Head(toClient).first_unacked = delivered
        /\ delivered < Count => Head(toClient).bitmap
        /\ Head(toClient) \in Ack /\ toClient' = <<>>
    BY <1>1, Tailed DEF StreamInv, AckInv, RoundInv
  <1>3. toAgent = <<>> /\ Len(toAgent) = 0
    BY <1>1 DEF RoundInv
  <1>4. Upto(last_acknown)' = delivered
    BY <1>2, recv_acknack_Window DEF StreamInv, Upto
  <1>5. send_lost' \in BOOLEAN
    BY <1>1, <1>2 DEF Ack
  <1>6. RoundInv'
    BY <1>1, <1>2, <1>3, <1>4, <1>5 DEF RoundInv
  <1>7. Lost' => Lost
    BY <1>1 DEF Lost, Coming, InFlight, Sweeping
  <1>8. ~Silent' /\ ~Sweeping'
    BY <1>1 DEF Silent, Sweeping
  <1> QED
    BY <1>1, <1>6, <1>7, <1>8, SameCharge

\* A sample that is not handed on and of which nothing is under way is gone.
LEMMA round_over_Round ==
    ASSUME Spare, StreamInv, RoundInv, LossInv, round_over, ~late'
    PROVE  RoundInv' /\ LossInv'
  <1>1. /\ phase = "listen" /\ toAgent = <<>> /\ toClient = <<>>
        /\ phase' = IF got_acknack THEN "sweep" ELSE "round"
        /\ rounds' = IF got_acknack THEN rounds ELSE rounds + 1
        /\ UNCHANGED <<toAgent, toClient, drops, delivered, early, got_acknack, send_lost,
                       retransmit_cursor, last_acknown, out_seq_num>>
    BY Zenon DEF round_over, ro, link, agent
  <1>2. /\ rounds \in Nat /\ drops \in Nat /\ MaxRounds \in Nat /\ rounds < MaxRounds
        /\ got_acknack \in BOOLEAN /\ Len(toAgent) = 0 /\ Len(toClient) = 0
    BY <1>1, Sizes DEF RoundInv
  <1>3. /\ delivered \in 0 .. Count /\ Upto(last_acknown) \in 0 .. delivered
        /\ AllAcked <=> Upto(last_acknown) = Count
    BY Acknowledged
  <1>4. out_seq_num = Count /\ Upto(last_acknown)' = Upto(last_acknown) /\ AllAcked' = AllAcked
    BY <1>1, Sizes DEF StreamInv, WindowInv, Upto, AllAcked
  <1>5. ~Silent' /\ ~Sweeping
    BY <1>1 DEF Silent, Sweeping
  <1>6. CASE ~got_acknack
    <2>1. phase' = "round" /\ rounds' = rounds + 1 /\ Silent /\ ~Sweeping'
      BY <1>1, <1>6 DEF Silent, Sweeping
    <2>2. RoundInv'
      BY <1>1, <1>2, <2>1 DEF RoundInv
    <2>3. Lost' <=> Lost
      BY <1>1, <1>5, <2>1 DEF Lost, Coming, InFlight
    <2>4. Charge' = Charge
      BY <1>2, <1>5, <2>1, <2>3 DEF Charge, One
    <2> QED
      BY <1>1, <2>2, <2>4 DEF LossInv
  <1>7. CASE got_acknack
    <2>1. /\ phase' = "sweep" /\ rounds' = rounds /\ ~Silent
          /\ Upto(last_acknown) = delivered /\ retransmit_cursor = last_acknown
          /\ delivered < Count => send_lost
      BY <1>1, <1>7 DEF Silent, RoundInv
    <2>2. RoundInv'
      <3>1. retransmit_cursor \in Seq16
        BY <2>1 DEF StreamInv, AckInv
      <3>2. Upto(retransmit_cursor)' = delivered /\ (~AllAcked => send_lost)
        BY <1>1, <1>3, <2>1, Sizes DEF Upto
      <3> QED
        BY <1>1, <1>2, <1>3, <1>4, <2>1, <3>1, <3>2 DEF RoundInv
    <2>3. CASE AllAcked
      <3>1. Lost' => Lost
        BY <1>1, <1>4, <2>3 DEF Lost, Coming, InFlight, Sweeping
      <3>2. ~Sweeping'
        BY <1>4, <2>3 DEF Sweeping
      <3> QED
        BY <1>1, <1>5, <2>1, <2>2, <3>1, <3>2, SameCharge
    <2>4. CASE ~AllAcked
      <3>1. delivered \in 0 .. out_seq_num - 1
        BY <1>3, <1>4, <2>1, <2>4, Sizes
      <3>2. ~Coming(delivered)
        BY <1>2, <1>3, <1>5 DEF Coming, InFlight, RoundInv
      <3>3. Lost
        BY <3>1, <3>2 DEF Lost
      <3>4. Sweeping' /\ Upto(retransmit_cursor)' = delivered
        BY <1>1, <1>4, <2>1, <2>4 DEF Sweeping, Upto
      <3>5. ~Lost'
        <4> SUFFICES ASSUME NEW k \in 0 .. out_seq_num - 1 PROVE Coming(k)'
          BY <1>1 DEF Lost
        <4>1. k < delivered \/ k >= delivered
          BY <1>3
        <4> QED
          BY <1>1, <3>4, <4>1 DEF Coming
      <3>6. Charge' = Charge
        BY <1>2, <1>5, <2>1, <3>3, <3>4, <3>5 DEF Charge, One
      <3> QED
        BY <1>1, <2>2, <3>6 DEF LossInv
    <2> QED
      BY <2>3, <2>4
  <1> QED
    BY <1>2, <1>6, <1>7

LEMMA give_up_Round ==
    ASSUME StreamInv, RoundInv, LossInv, give_up
    PROVE  RoundInv' /\ LossInv'
  <1>1. /\ phase = "round" /\ phase' = "done" /\ rounds = MaxRounds
        /\ UNCHANGED <<ro, out_seq_num, rounds, got_acknack, link, agent>>
    BY DEF give_up
  <1>2. RoundInv'
    BY Zenon, <1>1 DEF RoundInv, ro, link, agent
  <1>3. Lost' => Lost
    BY <1>1 DEF Lost, Coming, InFlight, Sweeping, ro, link, agent
  <1>4. ~Silent' /\ ~Sweeping'
    BY <1>1 DEF Silent, Sweeping
  <1> QED
    BY <1>1, <1>2, <1>3, <1>4, SameCharge DEF link

\* The sweep of next_retransmit() finds every sample from the cursor on, one after the other.
LEMMA SweepFinds ==
    ASSUME Spare, StreamInv, RoundInv, phase = "sweep"
    PROVE  /\ Upto(retransmit_cursor) \in Upto(last_acknown) .. Count
           /\ Upto(retransmit_cursor) = Count => Resendable = {}
           /\ Upto(retransmit_cursor) < Count =>
                /\ ~AllAcked /\ Resendable # {} /\ Min(Resendable) = 1
                /\ (retransmit_cursor + 1) % Modulo = Upto(retransmit_cursor)
  <1> DEFINE c == Upto(retransmit_cursor)
  <1>1. /\ retransmit_cursor \in Seq16 /\ c \in Upto(last_acknown) .. Count
        /\ ~AllAcked => send_lost
    BY DEF RoundInv
  <1>2. Upto(last_acknown) \in 0 .. Count /\ (AllAcked <=> Upto(last_acknown) = Count)
    BY Acknowledged, Sizes
  <1>3. c = IF retransmit_cursor = Modulo - 1 THEN 0 ELSE retransmit_cursor + 1
    BY <1>1, UptoValues
  <1>4. (retransmit_cursor + 1) % Modulo = c
    BY DEF Upto
  <1> HIDE DEF c
  <1>5. c \in 0 .. Count
    BY <1>1, <1>2, Sizes
  <1>6. last_sent = Count - 1 /\ out_seq_num = Count
    BY Sizes DEF StreamInv, WindowInv
  <1>7. Ahead(retransmit_cursor, last_sent) = Count - c
    <2>1. PICK x \in Int : x = last_sent - retransmit_cursor
      BY <1>1, <1>6, Sizes DEF Seq16
    <2>2. x % Modulo = Count - c
      BY <1>1, <1>3, <1>5, <1>6, <2>1, Sizes DEF Seq16
    <2> QED
      BY <2>1, <2>2 DEF Ahead
  <1>8. c = Count => Resendable = {}
    BY <1>5, <1>7, Sizes DEF Resendable
  <1>9. ASSUME c < Count
        PROVE  ~AllAcked /\ Resendable # {} /\ Min(Resendable) = 1
    <2>1. ~AllAcked /\ send_lost
      BY <1>1, <1>2, <1>9, Sizes
    <2>2. c \in 0 .. Count - 1 /\ c >= Upto(last_acknown)
      BY <1>1, <1>2, <1>5, <1>9, Sizes
    <2>3. slot_for(retransmit_cursor + 1) = c
      <3>1. CASE retransmit_cursor = Modulo - 1
        BY <1>3, <3>1, Sizes, SlotValues
      <3>2. CASE retransmit_cursor # Modulo - 1
        BY <1>3, <2>2, <3>2, SlotValues
      <3> QED
        BY <3>1, <3>2
    <2>4. occupied[c]
      BY <1>6, <2>2 DEF StreamInv, WindowInv
    <2>5. 1 \in Resendable
      BY <1>5, <1>7, <1>9, <2>1, <2>3, <2>4, Sizes DEF Resendable
    <2>6. \A k \in Resendable : k \in Int /\ 1 <= k
      BY <1>5, <1>7, Sizes DEF Resendable
    <2>7. Min(Resendable) = 1
      BY <2>5, <2>6 DEF Min
    <2> QED
      BY <2>1, <2>5, <2>7
  <1> QED
    BY <1>1, <1>4, <1>8, <1>9 DEF c

LEMMA retransmit_Round ==
    ASSUME Spare, StreamInv, RoundInv, LossInv, retransmit
    PROVE  RoundInv' /\ LossInv'
  <1>1. PICK seq \in Seq16 : next_retransmit(seq) /\ toAgent' = Append(toAgent, Data(buf[slot_for(seq)]))
    BY DEF retransmit
  <1>2. /\ phase = "sweep" /\ phase' = "sweep" /\ Resendable # {}
        /\ seq = (retransmit_cursor + Min(Resendable)) % Modulo /\ retransmit_cursor' = seq
        /\ UNCHANGED <<toClient, drops, delivered, early, got_acknack, send_lost, rounds,
                       last_acknown, out_seq_num>>
    BY <1>1 DEF retransmit, next_retransmit, bench, agent
  <1>3. /\ Upto(last_acknown) \in 0 .. Count /\ Upto(last_acknown)' = Upto(last_acknown)
        /\ AllAcked' = AllAcked /\ out_seq_num = Count
    BY <1>2, Acknowledged, Sizes DEF Upto, AllAcked, StreamInv, WindowInv
  <1>4. /\ seq = Upto(retransmit_cursor) /\ seq < Count /\ ~AllAcked
        /\ seq \in Upto(last_acknown) .. Count
    BY <1>2, <1>3, SweepFinds, Sizes
  <1>5. seq \in Sample
    BY <1>3, <1>4, Sizes DEF Sample
  <1>6. Upto(retransmit_cursor)' = seq + 1
    <2>1. seq # Modulo - 1
      BY <1>5, Sizes DEF Sample
    <2> QED
      BY <1>2, <2>1, UptoValues DEF Upto
  <1> DEFINE d == Data(buf[slot_for(seq)])
  <1>7. d \in Datagram /\ d.kind = "data" /\ d = Data(seq)
    <2>1. slot_for(seq) = seq /\ buf[seq] = seq
      BY <1>3, <1>5, SlotValues DEF Sample, StreamInv, WindowInv
    <2> QED
      BY <1>5, <2>1, Datagrams
  <1> HIDE DEF d
  <1>8. /\ toAgent' \in Seq(Datagram) /\ Len(toAgent) \in Nat
        /\ Len(toAgent') = Len(toAgent) + 1 /\ toAgent'[Len(toAgent) + 1] = d
        /\ \A i \in 1 .. Len(toAgent) : toAgent'[i] = toAgent[i]
    <2>1. toAgent' = Append(toAgent, d)
      BY <1>1 DEF d
    <2> QED
      BY <1>7, <2>1, Appended DEF RoundInv
  <1>9. \A i \in 1 .. Len(toAgent') : toAgent'[i].kind # "heartbeat"
    BY <1>2, <1>7, <1>8 DEF RoundInv
  <1>10. RoundInv'
    <2>1. /\ retransmit_cursor' \in Seq16
          /\ Upto(retransmit_cursor)' \in Upto(last_acknown)' .. Count
          /\ ~AllAcked' => send_lost'
      BY <1>2, <1>3, <1>4, <1>6, Sizes DEF RoundInv
    <2> QED
      BY Zenon, <1>2, <1>8, <1>9, <2>1 DEF RoundInv
  <1>11. Lost' => Lost
    <2> SUFFICES ASSUME NEW k \in 0 .. out_seq_num - 1, Coming(k) PROVE Coming(k)'
      BY <1>2 DEF Lost
    <2>1. CASE k >= Upto(retransmit_cursor)
      <3>1. CASE k = seq
        BY <1>7, <1>8, <3>1 DEF Coming, InFlight
      <3>2. CASE k # seq
        <4>1. k >= Upto(retransmit_cursor)'
          BY <1>3, <1>4, <1>5, <1>6, <2>1, <3>2, Sizes DEF Sample
        <4> QED
          BY <1>2, <1>3, <1>4, <4>1 DEF Coming, Sweeping
      <3> QED
        BY <3>1, <3>2
    <2>2. CASE ~(k >= Upto(retransmit_cursor))
      <3>1. \A i \in 1 .. Len(toAgent) : \E j \in 1 .. Len(toAgent') : toAgent'[j] = toAgent[i]
        BY <1>8
      <3> QED
        BY <1>2, <2>2, <3>1, ComingFrame
    <2> QED
      BY <2>1, <2>2
  <1>12. ~Silent' /\ (Sweeping' => Sweeping)
    BY <1>2, <1>3 DEF Silent, Sweeping
  <1> QED
    BY <1>2, <1>10, <1>11, <1>12, SameCharge

LEMMA sweep_done_Round ==
    ASSUME Spare, StreamInv, RoundInv, LossInv, sweep_done
    PROVE  RoundInv' /\ LossInv'
  <1>1. /\ phase = "sweep" /\ Resendable = {} /\ send_lost' = FALSE
        /\ UNCHANGED <<toAgent, toClient, drops, delivered, early, got_acknack,
                       last_acknown, out_seq_num>>
        /\ \/ AllAcked /\ phase' = "done" /\ rounds' = rounds
           \/ ~AllAcked /\ phase' = "round" /\ rounds' = rounds + 1
    BY DEF sweep_done, sweep_finished, link, agent
  <1>2. /\ rounds \in Nat /\ drops \in Nat /\ MaxRounds \in Nat /\ rounds < MaxRounds
    BY <1>1, Sizes DEF RoundInv
  <1>3. AllAcked' = AllAcked /\ out_seq_num = Count
    BY <1>1, Sizes DEF AllAcked, StreamInv, WindowInv
  <1>4. Upto(last_acknown) \in 0 .. Count /\ Upto(retransmit_cursor) = Count
    BY <1>1, Acknowledged, SweepFinds, Sizes
  <1>5. RoundInv'
    <2>1. /\ phase' \in {"round", "done"} /\ toClient = <<>> /\ rounds' \in 0 .. MaxRounds
          /\ phase' = "done" => AllAcked'
      BY <1>1, <1>2, <1>3 DEF RoundInv
    <2>2. \A i \in 1 .. Len(toAgent) : toAgent[i].kind # "heartbeat"
      BY <1>1 DEF RoundInv
    <2> QED
      BY Zenon, <1>1, <2>1, <2>2 DEF RoundInv
  <1>6. Lost' => Lost
    <2> SUFFICES ASSUME NEW k \in 0 .. out_seq_num - 1, Coming(k) PROVE Coming(k)'
      BY <1>1 DEF Lost
    <2>1. ~(k >= Upto(retransmit_cursor))
      BY <1>3, <1>4, Sizes
    <2> QED
      BY <1>1, <2>1, ComingFrame
  <1>7. ~Silent /\ ~Silent' /\ ~Sweeping'
    BY <1>1 DEF Silent, Sweeping
  <1>8. CASE AllAcked
    BY <1>1, <1>5, <1>6, <1>7, <1>8, SameCharge
  <1>9. CASE ~AllAcked
    <2>1. Sweeping /\ rounds' = rounds + 1
      BY <1>1, <1>9 DEF Sweeping
    <2>2. Charge' <= Charge /\ Charge \in Int /\ Charge' \in Int
      BY <1>2, <1>6, <1>7, <2>1 DEF Charge, One
    <2> QED
      BY <1>1, <1>2, <1>5, <2>2 DEF LossInv
  <1> QED
    BY <1>8, <1>9

-----------------------------------------------------------------------------
(* The link and the agent *)

LEMMA MoreDrops ==
    ASSUME RoundInv, drops' = Min({drops + 1, MaxRounds})
    PROVE  /\ drops' \in 0 .. MaxRounds
           /\ drops = MaxRounds => drops' = MaxRounds
           /\ drops # MaxRounds => drops' = drops + 1
  <1>1. drops \in 0 .. MaxRounds /\ MaxRounds \in Nat
    BY Sizes DEF RoundInv
  <1>2. CASE drops = MaxRounds
    <2>1. MaxRounds \in {drops + 1, MaxRounds} /\ \A y \in {drops + 1, MaxRounds} : MaxRounds <= y
      BY <1>1, <1>2
    <2>2. \A x \in {drops + 1, MaxRounds} :
            (\A y \in {drops + 1, MaxRounds} : x <= y) => x = MaxRounds
      BY <1>1, <1>2
    <2>3. Min({drops + 1, MaxRounds}) = MaxRounds
      BY <2>1, <2>2 DEF Min
    <2> QED
      BY <1>1, <1>2, <2>3
  <1>3. CASE drops # MaxRounds
    <2>1. drops + 1 \in {drops + 1, MaxRounds} /\ \A y \in {drops + 1, MaxRounds} : drops + 1 <= y
      BY <1>1, <1>3
    <2>2. \A x \in {drops + 1, MaxRounds} :
            (\A y \in {drops + 1, MaxRounds} : x <= y) => x = drops + 1
      BY <1>1, <1>3
    <2>3. Min({drops + 1, MaxRounds}) = drops + 1
      BY <2>1, <2>2 DEF Min
    <2> QED
      BY <1>1, <1>3, <2>3
  <1> QED
    BY <1>2, <1>3

\* One datagram fewer for the agent: the heartbeat still is the last one.
LEMMA ShorterToAgent ==
    ASSUME RoundInv, toAgent # <<>>, toAgent' = Tail(toAgent), phase' = phase
    PROVE  /\ toAgent' \in Seq(Datagram) /\ Len(toAgent) \in Nat \ {0}
           /\ Len(toAgent') = Len(toAgent) - 1 /\ Head(toAgent) = toAgent[1]
           /\ Head(toAgent) \in Datagram
           /\ \A i \in 1 .. Len(toAgent') : toAgent'[i] = toAgent[i + 1]
           /\ \A i \in 1 .. Len(toAgent') :
                toAgent'[i].kind = "heartbeat" <=> phase' = "listen" /\ i = Len(toAgent')
           /\ phase = "listen" => toClient = <<>> /\ ~got_acknack
           /\ phase = "listen" => (Head(toAgent).kind = "heartbeat" <=> toAgent' = <<>>)
           /\ phase # "listen" => toClient = <<>> /\ Head(toAgent).kind # "heartbeat"
  <1>1. /\ toAgent' \in Seq(Datagram) /\ Len(toAgent) \in Nat \ {0}
        /\ Len(toAgent') = Len(toAgent) - 1 /\ Head(toAgent) = toAgent[1]
        /\ Head(toAgent) \in Datagram
        /\ \A i \in 1 .. Len(toAgent') : toAgent'[i] = toAgent[i + 1]
        /\ toAgent' = <<>> <=> Len(toAgent) = 1
    BY Tailed DEF RoundInv
  <1>2. ASSUME NEW i \in 1 .. Len(toAgent')
        PROVE  toAgent'[i].kind = "heartbeat" <=> phase' = "listen" /\ i = Len(toAgent')
    <2>1. i + 1 \in 1 .. Len(toAgent) /\ (i + 1 = Len(toAgent) <=> i = Len(toAgent'))
      BY <1>1
    <2>2. toAgent[i + 1].kind = "heartbeat" <=> phase = "listen" /\ i + 1 = Len(toAgent)
      BY <2>1 DEF RoundInv
    <2> QED
      BY Zenon, <1>1, <2>1, <2>2
  <1>3. Head(toAgent).kind = "heartbeat" <=> phase = "listen" /\ Len(toAgent) = 1
    <2>1. 1 \in 1 .. Len(toAgent) /\ Head(toAgent) = toAgent[1]
      BY <1>1
    <2>2. toAgent[1].kind = "heartbeat" <=> phase = "listen" /\ 1 = Len(toAgent)
      BY Zenon, <2>1 DEF RoundInv
    <2> QED
      BY <2>1, <2>2
  <1>4. /\ phase = "listen" => toClient = <<>> /\ ~got_acknack
        /\ phase # "listen" => toClient = <<>>
    BY DEF RoundInv
  <1> QED
    BY Zenon, <1>1, <1>2, <1>3, <1>4

\* Only its own datagram's leaving the link ends a sample's flight.
LEMMA StillInFlight ==
    ASSUME RoundInv, toAgent # <<>>, toAgent' = Tail(toAgent), phase' = phase,
           NEW k, InFlight(k), Head(toAgent) # Data(k)
    PROVE  InFlight(k)'
  <1>1. PICK i \in 1 .. Len(toAgent) : toAgent[i] = Data(k)
    BY DEF InFlight
  <1>2. /\ Len(toAgent) \in Nat /\ Len(toAgent') = Len(toAgent) - 1 /\ Head(toAgent) = toAgent[1]
        /\ \A j \in 1 .. Len(toAgent') : toAgent'[j] = toAgent[j + 1]
    BY Zenon, ShorterToAgent
  <1>3. i - 1 \in 1 .. Len(toAgent') /\ (i - 1) + 1 = i
    BY <1>1, <1>2
  <1>4. toAgent'[i - 1] = Data(k)
    BY <1>1, <1>2, <1>3
  <1> QED
    BY Zenon, <1>3, <1>4 DEF InFlight

LEMMA drop_Round ==
    ASSUME StreamInv, RoundInv, LossInv, drop
    PROVE  RoundInv' /\ LossInv'
  <1>1. /\ drops' = Min({drops + 1, MaxRounds})
        /\ UNCHANGED <<phase, rounds, delivered, early, got_acknack, send_lost, last_acknown,
                       retransmit_cursor, out_seq_num>>
        /\ \/ toAgent # <<>> /\ toAgent' = Tail(toAgent) /\ toClient' = toClient
           \/ toClient # <<>> /\ toClient' = Tail(toClient) /\ toAgent' = toAgent
    BY DEF drop, ro, bench, agent
  <1>2. /\ drops' \in 0 .. MaxRounds
        /\ drops = MaxRounds => drops' = MaxRounds
        /\ drops # MaxRounds => drops' = drops + 1
    BY <1>1, MoreDrops
  <1>3. /\ Sweeping' = Sweeping /\ AllAcked' = AllAcked
        /\ Upto(last_acknown)' = Upto(last_acknown)
        /\ Upto(retransmit_cursor)' = Upto(retransmit_cursor)
    BY <1>1 DEF Sweeping, AllAcked, Upto
  <1>4. rounds \in Nat /\ drops \in Nat
    BY Sizes DEF RoundInv
  <1>5. ASSUME One(Lost') + One(Silent') <= One(Lost) + One(Silent) + 1 PROVE LossInv'
    <2>1. /\ One(Lost') \in 0 .. 1 /\ One(Lost) \in 0 .. 1 /\ One(Silent') \in 0 .. 1
          /\ One(Silent) \in 0 .. 1 /\ One(Sweeping) \in 0 .. 1
      BY DEF One
    <2>2. /\ Charge = rounds + One(Lost) + One(Silent) + One(Sweeping)
          /\ Charge' = rounds + One(Lost') + One(Silent') + One(Sweeping)
      BY <1>1, <1>3 DEF Charge, One
    <2>3. Charge' <= Charge + 1 /\ Charge \in Int /\ Charge' \in Int
      BY <1>4, <1>5, <2>1, <2>2
    <2> QED
      BY <1>2, <1>4, <2>3 DEF LossInv
  <1>6. CASE toAgent # <<>> /\ toAgent' = Tail(toAgent) /\ toClient' = toClient
    <2>1. /\ toAgent' \in Seq(Datagram) /\ Head(toAgent) \in Datagram
          /\ \A i \in 1 .. Len(toAgent') :
               toAgent'[i].kind = "heartbeat" <=> phase' = "listen" /\ i = Len(toAgent')
          /\ phase = "listen" => toClient = <<>> /\ ~got_acknack
          /\ phase = "listen" => (Head(toAgent).kind = "heartbeat" <=> toAgent' = <<>>)
          /\ phase # "listen" => toClient = <<>> /\ Head(toAgent).kind # "heartbeat"
      BY Zenon, <1>1, <1>6, ShorterToAgent
    <2>2. RoundInv'
      BY Zenon, <1>1, <1>2, <1>3, <1>6, <2>1 DEF RoundInv
    <2>3. CASE Head(toAgent).kind = "heartbeat"
      <3>1. \A k \in 0 .. out_seq_num - 1 : Coming(k) => Coming(k)'
        <4> SUFFICES ASSUME NEW k \in 0 .. out_seq_num - 1, Coming(k) PROVE Coming(k)'
          OBVIOUS
        <4>1. Head(toAgent) # Data(k)
          BY <2>3 DEF Data
        <4>2. InFlight(k) => InFlight(k)'
          BY <1>1, <1>6, <4>1, StillInFlight
        <4> QED
          BY <1>1, <1>3, <4>2 DEF Coming
      <3>2. Lost' => Lost
        BY <1>1, <3>1 DEF Lost
      <3> QED
        BY <1>5, <2>2, <3>2 DEF One
    <2>4. CASE Head(toAgent).kind # "heartbeat"
      <3>1. ~Silent'
        BY <1>1, <2>1, <2>4 DEF Silent
      <3> QED
        BY <1>5, <2>2, <3>1 DEF One
    <2> QED
      BY <2>3, <2>4
  <1>7. CASE toClient # <<>> /\ toClient' = Tail(toClient) /\ toAgent' = toAgent
    <2>1. phase = "listen" /\ ~got_acknack /\ Len(toClient) = 1 /\ toAgent = <<>>
      BY <1>7 DEF RoundInv
    <2>2. toClient' = <<>>
      <3>1. toClient \in Seq(Ack)
        BY DEF StreamInv, AckInv
      <3> QED
        BY <1>7, <2>1, <3>1, Tailed
    <2>3. RoundInv'
      BY Zenon, <1>1, <1>2, <1>3, <1>7, <2>1, <2>2 DEF RoundInv
    <2>4. Lost' = Lost
      BY <1>1, <1>3, <1>7 DEF Lost, Coming, InFlight
    <2> QED
      BY <1>5, <2>3, <2>4 DEF One
  <1> QED
    BY <1>1, <1>6, <1>7

\* The samples the agent holds on to: those it may yet hand on.
LEMMA KeptEarly ==
    ASSUME NEW n \in 0 .. Count, NEW s \in Sample
    PROVE  Ahead(n, s) < Modulo \div 2 <=> s >= n
  <1>1. PICK x \in Int : x = s - n
    BY Sizes DEF Sample
  <1>2. x >= -Count /\ x < Count /\ (x >= 0 <=> s >= n)
    BY <1>1, Sizes DEF Sample
  <1>3. PICK h \in Int : h = Modulo \div 2
    BY Sizes
  <1>4. 2 * h <= Modulo /\ Modulo <= 2 * h + 1
    BY <1>3, Sizes
  <1>5. x % Modulo = IF x >= 0 THEN x ELSE x + Modulo
    BY <1>2, Sizes
  <1> QED
    BY <1>1, <1>2, <1>3, <1>4, <1>5, Sizes DEF Ahead

LEMMA agent_data_Round ==
    ASSUME StreamInv, RoundInv, LossInv, agent_data
    PROVE  RoundInv' /\ LossInv'
  <1>1. /\ toAgent # <<>> /\ Head(toAgent).kind = "data" /\ toAgent' = Tail(toAgent)
        /\ UNCHANGED <<phase, rounds, got_acknack, send_lost, last_acknown, retransmit_cursor,
                       out_seq_num, toClient, drops>>
    BY DEF agent_data, ro, bench
  <1>2. /\ toAgent' \in Seq(Datagram) /\ Head(toAgent) \in Datagram
        /\ \A i \in 1 .. Len(toAgent') :
             toAgent'[i].kind = "heartbeat" <=> phase' = "listen" /\ i = Len(toAgent')
        /\ phase = "listen" => toClient = <<>> /\ ~got_acknack
        /\ phase = "listen" => (Head(toAgent).kind = "heartbeat" <=> toAgent' = <<>>)
        /\ phase # "listen" => toClient = <<>>
    BY Zenon, <1>1, ShorterToAgent
  <1>3. PICK m \in Sample : Head(toAgent) = Data(m) /\ Head(toAgent).seq = m
    BY <1>1, <1>2, Datagrams
  <1>4. PICK got : /\ got = early \union {m} /\ delivered' = InOrder(got)
                   /\ early' = {s \in got : Ahead(delivered', s) < Modulo \div 2}
    BY <1>3 DEF agent_data
  <1>5. got \subseteq Sample /\ delivered \in 0 .. Count
    BY <1>3, <1>4 DEF RoundInv, StreamInv, AckInv
  <1>6. /\ delivered' \in delivered .. Count /\ delivered' \in 0 .. Count
        /\ \A k \in delivered .. delivered' - 1 : k \in got
        /\ delivered' = Count \/ delivered' \notin got
    BY <1>4, <1>5, InOrderValues, Sizes
  <1>7. early' \subseteq Sample /\ \A s \in Sample : s \in early' <=> s \in got /\ s >= delivered'
    BY <1>4, <1>5, <1>6, KeptEarly
  <1>8. delivered' \notin early'
    <2>1. Count \notin Sample
      BY Sizes DEF Sample
    <2> QED
      BY Zenon, <1>4, <1>6, <1>7, <2>1
  <1>9. /\ Sweeping' = Sweeping /\ AllAcked' = AllAcked
        /\ Upto(last_acknown)' = Upto(last_acknown)
        /\ Upto(retransmit_cursor)' = Upto(retransmit_cursor)
    BY <1>1 DEF Sweeping, AllAcked, Upto
  <1>10. toClient = <<>>
    BY <1>2
  <1>11. RoundInv'
    <2>1. ~(phase = "listen" /\ got_acknack)
      BY <1>2
    <2> QED
      BY Zenon, <1>1, <1>2, <1>7, <1>8, <1>9, <1>10, <2>1 DEF RoundInv
  <1>12. Lost' => Lost
    <2> SUFFICES ASSUME NEW k \in 0 .. out_seq_num - 1, Coming(k) PROVE Coming(k)'
      BY <1>1 DEF Lost
    <2>1. k \in Sample /\ k \in Int /\ delivered \in Int /\ delivered' \in Int
      BY <1>5, <1>6, Sizes DEF StreamInv, WindowInv, Sample
    <2>2. CASE k < delivered
      BY <1>6, <2>1, <2>2, Sizes DEF Coming
    <2>3. CASE k \in got
      BY <1>7, <2>1, <2>3 DEF Coming
    <2>4. CASE k \notin got /\ InFlight(k)
      <3>1. Head(toAgent) # Data(k)
        BY <1>3, <1>4, <2>1, <2>4, Datagrams
      <3> QED
        BY <1>1, <2>4, <3>1, StillInFlight DEF Coming
    <2>5. CASE Sweeping /\ k >= Upto(retransmit_cursor)
      BY <1>9, <2>5 DEF Coming
    <2> QED
      BY <1>4, <2>2, <2>3, <2>4, <2>5 DEF Coming
  <1>13. ~Silent'
    BY <1>1, <1>2 DEF Silent
  <1> QED
    BY <1>1, <1>9, <1>11, <1>12, <1>13, SameCharge

LEMMA agent_heartbeat_Round ==
    ASSUME StreamInv, RoundInv, LossInv, agent_heartbeat
    PROVE  RoundInv' /\ LossInv'
  <1>1. /\ toAgent # <<>> /\ Head(toAgent).kind = "heartbeat" /\ toAgent' = Tail(toAgent)
        /\ UNCHANGED <<phase, rounds, got_acknack, send_lost, last_acknown, retransmit_cursor,
                       out_seq_num, drops, delivered, early>>
    BY DEF agent_heartbeat, ro, bench
  <1>2. /\ toAgent' \in Seq(Datagram) /\ Head(toAgent) \in Datagram /\ phase = "listen"
        /\ toAgent' = <<>> /\ toClient = <<>> /\ ~got_acknack
    BY Zenon, <1>1, ShorterToAgent
  <1>3. announced' = Count /\ delivered \in 0 .. Count
    <2>1. Head(toAgent).last = Count - 1
      BY <1>1, <1>2, Datagrams
    <2> QED
      BY <2>1, Sizes DEF agent_heartbeat, StreamInv, AckInv
  <1>4. PICK b \in BOOLEAN : /\ b <=> \E k \in delivered .. announced' - 1 : k \notin early
                             /\ toClient' = Append(toClient, Acknack(delivered % Modulo, b))
    BY Zenon DEF agent_heartbeat
  <1>5. delivered < Count => b
    <2> SUFFICES ASSUME delivered < Count PROVE delivered \in delivered .. announced' - 1
      BY <1>4 DEF RoundInv
    <2> QED
      BY <1>3, Sizes
  <1>6. /\ toClient' # <<>> /\ Len(toClient') = 1
        /\ toClient'[1].first_unacked = delivered /\ toClient'[1].bitmap = b
    <2>1. delivered % Modulo = delivered
      BY <1>3, UptoValues
    <2>2. toClient' = <<Acknack(delivered, b)>>
      BY <1>2, <1>4, <2>1
    <2> QED
      BY <2>2 DEF Acknack
  <1>7. AllAcked' = AllAcked /\ Sweeping' = Sweeping
    BY <1>1 DEF AllAcked, Sweeping
  <1>8. RoundInv'
    BY <1>1, <1>2, <1>5, <1>6, <1>7 DEF RoundInv
  <1>9. Lost' => Lost
    <2> SUFFICES ASSUME NEW k \in 0 .. out_seq_num - 1, Coming(k) PROVE Coming(k)'
      BY <1>1 DEF Lost
    <2>1. InFlight(k) => InFlight(k)'
      <3>1. Head(toAgent) # Data(k)
        BY <1>1 DEF Data
      <3> QED
        BY <1>1, <3>1, StillInFlight
    <2> QED
      BY <1>1, <1>7, <2>1 DEF Coming, Upto
  <1>10. ~Silent'
    BY <1>6 DEF Silent
  <1> QED
    BY <1>1, <1>7, <1>8, <1>9, <1>10, SameCharge

-----------------------------------------------------------------------------
CostInv == StreamInv /\ (~late => RoundInv /\ LossInv)

LEMMA CostInit ==
    ASSUME Init
    PROVE  CostInv
  <1>1. /\ toAgent = <<>> /\ toClient = <<>> /\ early = {} /\ phase = "publish"
        /\ rounds = 0 /\ drops = 0 /\ got_acknack = FALSE /\ send_lost = FALSE
        /\ out_seq_num = 0
    BY DEF Init
  <1>2. toAgent \in Seq(Datagram) /\ \A i \in 1 .. Len(toAgent) : FALSE
    BY <1>1
  <1>3. RoundInv
    <2>1. rounds \in 0 .. MaxRounds /\ drops \in 0 .. MaxRounds /\ early \subseteq Sample
      BY <1>1, Sizes
    <2>2. got_acknack \in BOOLEAN /\ send_lost \in BOOLEAN /\ delivered \notin early
      BY Zenon, <1>1
    <2> QED
      BY <1>1, <1>2, <2>1, <2>2, Zenon DEF RoundInv
  <1>4. ~Lost /\ ~Silent /\ ~Sweeping
    BY <1>1 DEF Lost, Silent, Sweeping
  <1>5. LossInv
    BY <1>1, <1>4 DEF LossInv, Charge, One
  <1> QED
    BY <1>3, <1>5, StreamInit DEF CostInv

LEMMA CostStep ==
    ASSUME Spare, CostInv, [Next]_vars
    PROVE  CostInv'
  <1>1. StreamInv /\ StreamInv'
    BY StreamStep DEF CostInv
  <1> SUFFICES ASSUME ~late' PROVE RoundInv' /\ LossInv'
    BY <1>1 DEF CostInv
  <1>2. ~late
    BY Zenon DEF Next, Client, publish_sample, send_heartbeat, recv_acknack, round_over, retransmit,
           sweep_done, give_up, drop, agent_data, agent_heartbeat, Finished, vars
  <1>3. RoundInv /\ LossInv
    BY <1>2 DEF CostInv
  <1>4. CASE publish_sample
    BY <1>1, <1>3, <1>4, publish_sample_Round
  <1>5. CASE send_heartbeat
    BY <1>1, <1>3, <1>5, send_heartbeat_Round
  <1>6. CASE recv_acknack
    BY <1>1, <1>3, <1>6, recv_acknack_Round
  <1>7. CASE round_over
    BY <1>1, <1>3, <1>7, round_over_Round
  <1>8. CASE retransmit
    BY <1>1, <1>3, <1>8, retransmit_Round
  <1>9. CASE sweep_done
    BY <1>1, <1>3, <1>9, sweep_done_Round
  <1>10. CASE give_up
    BY <1>1, <1>3, <1>10, give_up_Round
  <1>11. CASE drop
    BY <1>1, <1>3, <1>11, drop_Round
  <1>12. CASE agent_data
    BY <1>1, <1>3, <1>12, agent_data_Round
  <1>13. CASE agent_heartbeat
    BY <1>1, <1>3, <1>13, agent_heartbeat_Round
  <1>14. CASE UNCHANGED vars
    <2>1. UNCHANGED <<toAgent, toClient, drops, delivered, early, phase, rounds, got_acknack,
                      out_seq_num, last_acknown, send_lost, retransmit_cursor>>
      BY <1>14 DEF vars, ro, bench, link, agent
    <2>2. RoundInv'
      BY Zenon, <1>3, <2>1 DEF RoundInv, AllAcked, Upto
    <2>3. Lost' = Lost /\ Silent' = Silent /\ Sweeping' = Sweeping
      BY <2>1 DEF Lost, Coming, InFlight, Silent, Sweeping, AllAcked, Upto
    <2> QED
      BY <1>3, <2>1, <2>2, <2>3, SameCharge
  <1> QED
    BY <1>4, <1>5, <1>6, <1>7, <1>8, <1>9, <1>10, <1>11, <1>12, <1>13, <1>14
       DEF Next, Client, Finished

\* The bench of host/bench_qos.c reports an incomplete run only after the link lost a
\* datagram for every one of its max_rounds rounds, unless a round's 150 ms ended with
\* datagrams on their way: one lost sample, heartbeat or ACKNACK never costs two rounds.
THEOREM RoundsCostLosses ==
    ASSUME Spare
    PROVE  Spec => []GivesUpOnlyOnLoss
  <1>1. Init => CostInv
    BY CostInit
  <1>2. CostInv /\ [Next]_vars => CostInv'
    BY CostStep
  <1>3. CostInv => GivesUpOnlyOnLoss
    <2> SUFFICES ASSUME CostInv, phase = "done", ~AllAcked, ~late PROVE drops >= MaxRounds
      BY DEF GivesUpOnlyOnLoss
    <2>1. RoundInv /\ LossInv /\ rounds = MaxRounds
      BY DEF CostInv, RoundInv
    <2>2. One(Lost) \in 0 .. 1 /\ One(Silent) \in 0 .. 1 /\ One(Sweeping) \in 0 .. 1
      BY DEF One
    <2>3. drops \in Nat /\ MaxRounds \in Nat
      BY <2>1, Sizes DEF RoundInv
    <2> QED
      BY <2>1, <2>2, <2>3 DEF LossInv, Charge
  <1> QED
    BY <1>1, <1>2, <1>3, PTL DEF Spec
=============================================================================
