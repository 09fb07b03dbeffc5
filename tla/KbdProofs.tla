----------------------------- MODULE KbdProofs -----------------------------
(***************************************************************************)
(* Kbd for every queue size and every index width it divides: the rings    *)
(* hold every descriptor once (QueueOK), and the handler passes on every   *)
(* key press once, in order and in its case (CharsExact).                  *)
(***************************************************************************)
EXTENDS Kbd, SequenceTheorems, TLAPS

-----------------------------------------------------------------------------
(* Residues.                                                               *)

\* What div and mod are of each other.
LEMMA DivMod ==
    ASSUME NEW a \in Int, NEW Q \in Nat, Q > 0
    PROVE  /\ a \div Q \in Int /\ (a % Q) \in 0 .. Q - 1
           /\ a = Q * (a \div Q) + (a % Q)
  OBVIOUS

\* A multiple of Q other than 0 is at least Q away from it.
LEMMA Multiples ==
    ASSUME NEW Q \in Nat, Q > 0, NEW q \in Int
    PROVE  /\ q >= 1 => Q * q >= Q
           /\ q <= -1 => Q * q <= -Q
  <1>1. q >= 1 => Q * q >= Q
    OBVIOUS
  <1>2. q <= -1 => Q * q <= -Q
    OBVIOUS
  <1>3. QED BY <1>1, <1>2

\* The remainder is the only one in range.
LEMMA ModUnique ==
    ASSUME NEW Q \in Nat, Q > 0, NEW q \in Int, NEW r \in 0 .. Q - 1
    PROVE  (Q * q + r) % Q = r
  <1> DEFINE a == Q * q + r
             d == q - (a \div Q)
  <1>1. a \in Int
    OBVIOUS
  <1>2. a \div Q \in Int /\ (a % Q) \in 0 .. Q - 1 /\ a = Q * (a \div Q) + (a % Q)
    BY <1>1, DivMod
  <1>3. d \in Int /\ Q * d = (a % Q) - r
    BY <1>2
  <1> HIDE DEF d
  <1>4. (d >= 1 => Q * d >= Q) /\ (d <= -1 => Q * d <= -Q)
    BY <1>3, Multiples
  <1>5. d = 0
    BY <1>2, <1>3, <1>4
  <1>6. QED BY <1>2, <1>3, <1>5

\* Multiples of Q do not show in the remainder.
LEMMA ModShift ==
    ASSUME NEW Q \in Nat, Q > 0, NEW a \in Int, NEW m \in Int
    PROVE  (a + Q * m) % Q = a % Q
  <1> DEFINE q == a \div Q
             r == a % Q
  <1>1. q \in Int /\ r \in 0 .. Q - 1 /\ a = Q * q + r
    BY DivMod
  <1> HIDE DEF q, r
  <1>2. a + Q * m = Q * (q + m) + r
    BY <1>1
  <1>3. (Q * (q + m) + r) % Q = r
    BY <1>1, ModUnique
  <1>4. QED BY <1>2, <1>3 DEF r

\* Q consecutive numbers have different remainders ...
LEMMA ModInjective ==
    ASSUME NEW Q \in Nat, Q > 0, NEW a \in Int, NEW k \in 0 .. Q - 1, NEW j \in 0 .. Q - 1,
           (a + k) % Q = (a + j) % Q
    PROVE  k = j
  <1> DEFINE x == (a + k) \div Q
             y == (a + j) \div Q
             r == (a + k) % Q
             d == x - y
  <1>1. x \in Int /\ a + k = Q * x + r /\ r \in 0 .. Q - 1
    BY DivMod
  <1>2. y \in Int /\ a + j = Q * y + r
    BY DivMod
  <1> HIDE DEF x, y, r
  <1>3. d \in Int /\ Q * d = k - j
    BY <1>1, <1>2
  <1> HIDE DEF d
  <1>4. (d >= 1 => Q * d >= Q) /\ (d <= -1 => Q * d <= -Q)
    BY <1>3, Multiples
  <1>5. d = 0
    BY <1>3, <1>4
  <1>6. QED BY <1>3, <1>5

\* ... and so every one there is.
LEMMA ModOnto ==
    ASSUME NEW Q \in Nat, Q > 0, NEW a \in Int, NEW r \in 0 .. Q - 1
    PROVE  /\ ((r - a) % Q) \in 0 .. Q - 1
           /\ (a + ((r - a) % Q)) % Q = r
  <1> DEFINE q == (r - a) \div Q
             k == (r - a) % Q
  <1>1. q \in Int /\ k \in 0 .. Q - 1 /\ r - a = Q * q + k
    BY DivMod
  <1> HIDE DEF q, k
  <1> DEFINE p == 0 - q
  <1>2. p \in Int /\ a + k = Q * p + r
    BY <1>1
  <1> HIDE DEF p
  <1>3. (Q * p + r) % Q = r
    BY <1>2, ModUnique
  <1>4. QED BY <1>1, <1>2, <1>3 DEF k

-----------------------------------------------------------------------------
(* Ring indices: words that a ring of QUEUE_SIZE entries divides.          *)

\* Sums and differences of indices, without mod.
LEMMA WordArith ==
    ASSUME NEW x \in Words, NEW y \in Words
    PROVE  /\ (x + y) % U16 = IF x + y < U16 THEN x + y ELSE x + y - U16
           /\ (x - y) % U16 = IF x >= y THEN x - y ELSE x - y + U16
  <1> USE KbdConstants DEF Words
  <1>1. ASSUME NEW r \in 0 .. U16 - 1
        PROVE  /\ (U16 * 0 + r) % U16 = r /\ (U16 * 1 + r) % U16 = r
               /\ (U16 * (-1) + r) % U16 = r
    BY ModUnique
  <1>2. (x + y) % U16 = IF x + y < U16 THEN x + y ELSE x + y - U16
    <2>1. CASE x + y < U16
      BY <1>1, <2>1
    <2>2. CASE x + y >= U16
      <3>1. x + y = U16 * 1 + (x + y - U16)
        OBVIOUS
      <3>2. QED BY <1>1, <2>2, <3>1
    <2>3. QED BY <2>1, <2>2
  <1>3. (x - y) % U16 = IF x >= y THEN x - y ELSE x - y + U16
    <2>1. CASE x >= y
      BY <1>1, <2>1
    <2>2. CASE x < y
      <3>1. x - y = U16 * (-1) + (x - y + U16)
        OBVIOUS
      <3>2. QED BY <1>1, <2>2, <3>1
    <2>3. QED BY <2>1, <2>2
  <1>4. QED BY <1>2, <1>3

\* The entry of a sum of indices does not depend on where it wrapped.
LEMMA WordEntry ==
    ASSUME NEW x \in Words, NEW y \in Words, NEW k \in Int
    PROVE  (((x + y) % U16) + k) % QUEUE_SIZE = (x + y + k) % QUEUE_SIZE
  <1> USE KbdConstants DEF Words
  <1>0. QUEUE_SIZE \in Nat /\ QUEUE_SIZE > 0
    OBVIOUS
  <1> DEFINE m == U16 \div QUEUE_SIZE
  <1>1. m \in Int /\ U16 = QUEUE_SIZE * m
    BY DivMod
  <1> HIDE DEF m
  <1> DEFINE p == 0 - m
             s == x + y + k
  <1>2. p \in Int /\ s \in Int /\ s + QUEUE_SIZE * p = x + y - U16 + k
    BY <1>1
  <1> HIDE DEF p, s
  <1>3. (s + QUEUE_SIZE * p) % QUEUE_SIZE = s % QUEUE_SIZE
    BY <1>0, <1>2, ModShift, Zenon
  <1>4. QED BY <1>2, <1>3, WordArith DEF s

\* One more event, one event less.
LEMMA Distance ==
    ASSUME NEW g \in Words, NEW u \in Words
    PROVE  /\ Inc(u) \in Words /\ (u - g) % U16 \in Words
           /\ u = (g + ((u - g) % U16)) % U16
           /\ (u - g) % U16 < QUEUE_SIZE => (Inc(u) - g) % U16 = ((u - g) % U16) + 1
           /\ (u - g) % U16 >= 1 => (u - Inc(g)) % U16 = ((u - g) % U16) - 1
           /\ (u - g) % U16 = 0 <=> u = g
  <1> USE KbdConstants
  <1>1. 1 \in Words
    BY DEF Words
  <1> DEFINE d == (u - g) % U16
  <1>2. d = IF u >= g THEN u - g ELSE u - g + U16
    BY WordArith
  <1>3. /\ Inc(u) = IF u + 1 < U16 THEN u + 1 ELSE u + 1 - U16
        /\ Inc(g) = IF g + 1 < U16 THEN g + 1 ELSE g + 1 - U16
    BY <1>1, WordArith DEF Inc
  <1> HIDE DEF d
  <1>4. d \in Words /\ Inc(u) \in Words /\ Inc(g) \in Words /\ (d = 0 <=> u = g)
    BY <1>2, <1>3 DEF Words
  <1>5. (g + d) % U16 = IF g + d < U16 THEN g + d ELSE g + d - U16
    BY <1>4, WordArith
  <1>6. u = (g + d) % U16
    BY <1>2, <1>5 DEF Words
  <1>7. /\ (Inc(u) - g) % U16 = IF Inc(u) >= g THEN Inc(u) - g ELSE Inc(u) - g + U16
        /\ (u - Inc(g)) % U16 = IF u >= Inc(g) THEN u - Inc(g) ELSE u - Inc(g) + U16
    BY <1>4, WordArith
  <1>8. d < QUEUE_SIZE => (Inc(u) - g) % U16 = d + 1
    BY <1>2, <1>3, <1>7 DEF Words
  <1>9. d >= 1 => (u - Inc(g)) % U16 = d - 1
    BY <1>2, <1>3, <1>7 DEF Words
  <1>10. QED BY <1>4, <1>6, <1>8, <1>9 DEF d

-----------------------------------------------------------------------------
(* The inductive invariant.                                                *)

\* Events the device has delivered and the handler has not given back.
Pending == (used_idx - g_last_used_idx) % U16

\* The k-th entry from where the handler reads.
Entry(k) == (g_last_used_idx + k) % QUEUE_SIZE

\* The descriptors stay in the order of their numbers: the device uses them as
\* they are made available and the handler gives them back as they are used, so
\* that both rings hold k at entry k and an index is a place in either.
RingInv ==
    /\ TypeOK
    /\ Pending \in 0 .. QUEUE_SIZE
    /\ last_avail_idx = used_idx
    /\ avail_idx = (g_last_used_idx + QUEUE_SIZE) % U16
    /\ avail_ring = [k \in Descs |-> k]
    /\ \A k \in 0 .. QUEUE_SIZE - 1 : k < Pending => used_ring[Entry(k)] = Entry(k)
    /\ pc \in {"handle", "give"} => Pending >= 1 /\ desc_id = Entry(0)

\* The events not given back are the last that were sent, in order, and
\* g_shift is what the events handled make of it.
EventInv ==
    /\ sent \in Seq(Kinds) /\ Len(sent) \in Pending .. MaxEvents
    /\ \A k \in 0 .. QUEUE_SIZE - 1 :
          k < Pending => g_events[Entry(k)] = Len(sent) - Pending + k + 1
    /\ chars \in Seq((1 .. MaxEvents) \X BOOLEAN)
    /\ g_shift = Shifted(Handled + 1)
    /\ CharsExact

KbdInv == RingInv /\ EventInv

\* Where the indices point.
LEMMA EntryFacts ==
    TypeOK /\ Pending \in 0 .. QUEUE_SIZE =>
      /\ \A k \in 0 .. QUEUE_SIZE : Entry(k) \in Descs
      /\ \A j, k \in 0 .. QUEUE_SIZE - 1 : Entry(j) = Entry(k) => j = k
      /\ Entry(QUEUE_SIZE) = Entry(0)
      /\ g_last_used_idx % QUEUE_SIZE = Entry(0)
      /\ used_idx = (g_last_used_idx + Pending) % U16
      /\ used_idx % QUEUE_SIZE = Entry(Pending)
      /\ (g_last_used_idx + QUEUE_SIZE) % U16 \in Words
      /\ ((g_last_used_idx + QUEUE_SIZE) % U16) % QUEUE_SIZE = Entry(0)
      /\ Pending = 0 <=> used_idx = g_last_used_idx
      /\ used_idx # (g_last_used_idx + QUEUE_SIZE) % U16 => Pending < QUEUE_SIZE
  <1> SUFFICES ASSUME TypeOK, Pending \in 0 .. QUEUE_SIZE
               PROVE  /\ \A k \in 0 .. QUEUE_SIZE : Entry(k) \in Descs
                      /\ \A j, k \in 0 .. QUEUE_SIZE - 1 : Entry(j) = Entry(k) => j = k
                      /\ Entry(QUEUE_SIZE) = Entry(0)
                      /\ g_last_used_idx % QUEUE_SIZE = Entry(0)
                      /\ used_idx = (g_last_used_idx + Pending) % U16
                      /\ used_idx % QUEUE_SIZE = Entry(Pending)
                      /\ (g_last_used_idx + QUEUE_SIZE) % U16 \in Words
                      /\ ((g_last_used_idx + QUEUE_SIZE) % U16) % QUEUE_SIZE = Entry(0)
                      /\ Pending = 0 <=> used_idx = g_last_used_idx
                      /\ used_idx # (g_last_used_idx + QUEUE_SIZE) % U16 => Pending < QUEUE_SIZE
    OBVIOUS
  <1> DEFINE g == g_last_used_idx
             Q == QUEUE_SIZE
  <1>1. Q \in Nat /\ Q > 0 /\ Q \in Words /\ U16 \in Nat /\ U16 > 0
    BY KbdConstants DEF Words
  <1>2. g \in Words /\ used_idx \in Words
    BY DEF TypeOK
  <1>3. g \in Int /\ \A w \in Words : w \in Int
    BY <1>1, <1>2 DEF Words
  <1>4. \A k \in 0 .. Q : Entry(k) \in Descs
    <2>1. ASSUME NEW k \in 0 .. Q PROVE Entry(k) \in Descs
      <3>1. g + k \in Int
        BY <1>1, <1>3
      <3>2. QED BY <1>1, <3>1, DivMod DEF Entry, Descs
    <2>2. QED BY <2>1
  <1>5. \A j, k \in 0 .. Q - 1 : Entry(j) = Entry(k) => j = k
    BY <1>1, <1>3, ModInjective, Zenon DEF Entry
  <1>6. Entry(Q) = Entry(0)
    <2>1. (g + Q * 1) % Q = g % Q
      <3>1. 1 \in Int
        OBVIOUS
      <3>2. QED BY <1>1, <1>3, <3>1, ModShift, Zenon
    <2>2. g + Q * 1 = g + Q /\ g + 0 = g
      BY <1>1, <1>3
    <2>3. QED BY <2>1, <2>2 DEF Entry
  <1>7. g % Q = Entry(0)
    BY <1>1, <1>3 DEF Entry
  <1>8. /\ used_idx = (g + Pending) % U16 /\ (Pending = 0 <=> used_idx = g)
        /\ Pending \in Words
    BY <1>2, Distance DEF Pending
  <1>9. (used_idx + 0) % Q = (g + Pending + 0) % Q /\ (((g + Q) % U16) + 0) % Q = (g + Q + 0) % Q
    <2>1. 0 \in Int
      OBVIOUS
    <2>2. QED BY <1>1, <1>2, <1>8, <2>1, WordEntry, Zenon
  <1>10. (g + Q) % U16 \in 0 .. U16 - 1
    <2>1. g + Q \in Int
      BY <1>1, <1>3
    <2>2. QED BY <1>1, <2>1, DivMod
  <1>11. used_idx % Q = Entry(Pending) /\ ((g + Q) % U16) % Q = Entry(Q)
    <2>1. used_idx + 0 = used_idx /\ g + Pending + 0 = g + Pending /\ g + Q + 0 = g + Q
          /\ ((g + Q) % U16) + 0 = (g + Q) % U16
      BY <1>1, <1>2, <1>3, <1>8, <1>10
    <2>2. QED BY <1>9, <2>1 DEF Entry
  <1>12. used_idx # (g + Q) % U16 => Pending < Q
    BY <1>1, <1>8
  <1>13. QED BY <1>4, <1>5, <1>6, <1>7, <1>8, <1>10, <1>11, <1>12 DEF Words

\* The ring invariant holds at the start ...
LEMMA RingInit == Init => RingInv
  <1> SUFFICES ASSUME Init PROVE RingInv
    OBVIOUS
  <1> USE KbdConstants
  <1>1. TypeOK
    BY DEF Init, setup_eventq, TypeOK, Descs, Words
  <1>2. Pending = 0 /\ 0 \in Words /\ QUEUE_SIZE \in Words
    <2>1. 0 \in Words /\ QUEUE_SIZE \in Words
      BY DEF Words
    <2>2. QED BY <2>1, Distance DEF Init, setup_eventq, Pending
  <1>3. (0 + QUEUE_SIZE) % U16 = QUEUE_SIZE
    BY <1>2, WordArith
  <1>4. QED BY <1>1, <1>2, <1>3 DEF Init, setup_eventq, RingInv

\* The device offers no less than the driver asks for.
LEMMA QueueNum == QUEUE_NUM = QUEUE_SIZE
  BY KbdConstants, KbdOffered DEF QUEUE_NUM

\* ... and through an event of the device ...
LEMMA RingDeliver ==
    ASSUME RingInv, Len(sent) \in Nat, NEW kind \in Kinds, Deliver(kind)
    PROVE  RingInv' /\ Pending' = Pending + 1 /\ Pending < QUEUE_SIZE
  <1> USE KbdConstants
  <1>0. TypeOK /\ Pending \in 0 .. QUEUE_SIZE
    BY DEF RingInv
  <1>1. /\ \A k \in 0 .. QUEUE_SIZE : Entry(k) \in Descs
        /\ \A j, k \in 0 .. QUEUE_SIZE - 1 : Entry(j) = Entry(k) => j = k
        /\ used_idx % QUEUE_SIZE = Entry(Pending)
        /\ Pending < QUEUE_SIZE
    BY <1>0, EntryFacts DEF RingInv, Deliver
  <1>2. Pending' = Pending + 1
    BY <1>0, <1>1, Distance DEF TypeOK, Pending, Deliver, driver
  <1>3. \A k : Entry(k)' = Entry(k)
    BY DEF Entry, Deliver, driver
  <1>4. avail_ring[last_avail_idx % QUEUE_SIZE] = Entry(Pending)
    BY <1>0, <1>1 DEF RingInv
  <1>5. /\ used_ring' = [used_ring EXCEPT ![Entry(Pending)] = Entry(Pending)]
        /\ g_events' = [g_events EXCEPT ![Entry(Pending)] = Len(sent) + 1]
    BY <1>1, <1>4, QueueNum DEF Deliver
  <1>6. Inc(used_idx) \in Words
    BY <1>0, Distance DEF TypeOK
  <1>7. TypeOK'
    <2>1. Inc(last_avail_idx) \in Words
      BY <1>0, Distance DEF TypeOK
    <2>2. Entry(Pending) \in Descs /\ Len(sent) + 1 \in 0 .. MaxEvents
      BY <1>0, <1>1 DEF Deliver
    <2>3. used_ring' \in [Descs -> Descs] /\ g_events' \in [Descs -> 0 .. MaxEvents]
      BY <1>0, <1>5, <2>2 DEF TypeOK
    <2>4. QED BY <1>0, <1>6, <2>1, <2>3 DEF TypeOK, Deliver, driver
  <1>8. \A k \in 0 .. QUEUE_SIZE - 1 : k < Pending + 1 => used_ring'[Entry(k)] = Entry(k)
    <2>1. SUFFICES ASSUME NEW k \in 0 .. QUEUE_SIZE - 1, k < Pending + 1
                   PROVE  used_ring'[Entry(k)] = Entry(k)
      OBVIOUS
    <2>2. used_ring \in [Descs -> Descs] /\ Entry(Pending) \in Descs /\ Entry(k) \in Descs
      BY <1>0, <1>1 DEF TypeOK
    <2>3. CASE k = Pending
      BY <1>5, <2>2, <2>3
    <2>4. CASE k < Pending
      <3>1. Entry(k) # Entry(Pending)
        BY <1>0, <1>1, <2>4
      <3>2. used_ring[Entry(k)] = Entry(k)
        BY <2>4 DEF RingInv
      <3>3. QED BY <1>5, <2>2, <3>1, <3>2
    <2>5. QED BY <1>0, <2>1, <2>3, <2>4
  <1>9. QED BY <1>0, <1>1, <1>2, <1>3, <1>7, <1>8 DEF RingInv, Deliver, driver

\* ... through the descriptor going back ...
LEMMA RingGive ==
    ASSUME RingInv, IrqGive
    PROVE  /\ RingInv' /\ Pending' = Pending - 1 /\ Pending >= 1
           /\ \A k \in 0 .. QUEUE_SIZE - 1 : Entry(k)' = Entry(k + 1)
  <1> USE KbdConstants
  <1>0. TypeOK /\ Pending \in 0 .. QUEUE_SIZE /\ Pending >= 1 /\ desc_id = Entry(0)
    BY DEF RingInv, IrqGive, Goto
  <1>1. /\ \A k \in 0 .. QUEUE_SIZE : Entry(k) \in Descs
        /\ avail_idx % QUEUE_SIZE = Entry(0)
        /\ avail_idx \in Words
    BY <1>0, EntryFacts DEF RingInv
  <1>2. Pending' = Pending - 1 /\ Inc(g_last_used_idx) \in Words
    BY <1>0, Distance DEF TypeOK, Pending, IrqGive, device
  <1>3. 1 \in Words /\ QUEUE_SIZE \in Words
    BY DEF Words
  <1>4. \A k \in 0 .. QUEUE_SIZE - 1 : Entry(k)' = Entry(k + 1)
    <2>1. ASSUME NEW k \in 0 .. QUEUE_SIZE - 1 PROVE Entry(k)' = Entry(k + 1)
      <3>1. (Inc(g_last_used_idx) + k) % QUEUE_SIZE = (g_last_used_idx + 1 + k) % QUEUE_SIZE
        <4>1. k \in Int /\ g_last_used_idx \in Words
          BY <1>0 DEF TypeOK
        <4>2. QED BY <1>3, <4>1, WordEntry, Zenon DEF Inc
      <3>2. g_last_used_idx + 1 + k = g_last_used_idx + (k + 1)
        BY <1>0 DEF TypeOK, Words
      <3>3. QED BY <3>1, <3>2 DEF Entry, IrqGive
    <2>2. QED BY <2>1
  <1>5. avail_ring' = avail_ring
    BY <1>0, <1>1 DEF IrqGive, RingInv, Descs
  <1>6. avail_idx' = (Inc(g_last_used_idx) + QUEUE_SIZE) % U16 /\ Inc(avail_idx) \in Words
    <2>1. /\ (g_last_used_idx + QUEUE_SIZE) % U16
               = IF g_last_used_idx + QUEUE_SIZE < U16 THEN g_last_used_idx + QUEUE_SIZE
                 ELSE g_last_used_idx + QUEUE_SIZE - U16
          /\ Inc(g_last_used_idx) = IF g_last_used_idx + 1 < U16 THEN g_last_used_idx + 1
                                    ELSE g_last_used_idx + 1 - U16
          /\ Inc(avail_idx) = IF avail_idx + 1 < U16 THEN avail_idx + 1 ELSE avail_idx + 1 - U16
          /\ (Inc(g_last_used_idx) + QUEUE_SIZE) % U16
               = IF Inc(g_last_used_idx) + QUEUE_SIZE < U16 THEN Inc(g_last_used_idx) + QUEUE_SIZE
                 ELSE Inc(g_last_used_idx) + QUEUE_SIZE - U16
      BY <1>0, <1>1, <1>2, <1>3, WordArith DEF TypeOK, Inc
    <2>2. avail_idx' = Inc(avail_idx) /\ avail_idx = (g_last_used_idx + QUEUE_SIZE) % U16
      BY DEF RingInv, IrqGive
    <2>3. QED BY <1>0, <1>1, <2>1, <2>2 DEF Words, TypeOK
  <1>7. TypeOK'
    <2>1. avail_idx' \in Words /\ g_last_used_idx' \in Words
      BY <1>2, <1>6 DEF IrqGive
    <2>2. pc' = "loop" /\ UNCHANGED <<device, int_status, g_shift, desc_id>>
      BY DEF IrqGive, Goto
    <2>3. QED BY <1>0, <1>5, <2>1, <2>2 DEF TypeOK, device
  <1>8. \A k \in 0 .. QUEUE_SIZE - 1 : k < Pending' => used_ring'[Entry(k)'] = Entry(k)'
    BY <1>0, <1>2, <1>4 DEF RingInv, IrqGive, device
  <1>9. QED BY <1>0, <1>2, <1>4, <1>5, <1>6, <1>7, <1>8 DEF RingInv, IrqGive, device, Goto

\* ... and through the steps that move no index.
LEMMA RingOther ==
    ASSUME RingInv,
           \/ IrqEnter \/ IrqAck \/ IrqLoop \/ IrqNotify \/ UNCHANGED vars
           \/ IrqHandle /\ g_shift' \in BOOLEAN
    PROVE  RingInv' /\ Pending' = Pending /\ \A k : Entry(k)' = Entry(k)
  <1>1. UNCHANGED <<driver, device>>
    BY DEF IrqEnter, IrqAck, IrqLoop, IrqHandle, IrqNotify, vars
  <1>2. Pending' = Pending /\ \A k : Entry(k)' = Entry(k)
    BY <1>1 DEF Pending, Entry, driver, device
  <1>3. TypeOK /\ Pending \in 0 .. QUEUE_SIZE
    BY DEF RingInv
  <1>4. (\A k \in 0 .. QUEUE_SIZE : Entry(k) \in Descs) /\ QUEUE_SIZE \in Nat /\ QUEUE_SIZE >= 1
    BY <1>3, EntryFacts, KbdConstants
  <1>5. /\ pc' \in {"idle", "ack", "loop", "handle", "give", "notify"}
        /\ int_status' \in BOOLEAN /\ g_shift' \in BOOLEAN /\ desc_id' \in Descs
        /\ pc' \in {"handle", "give"} => Pending >= 1 /\ desc_id' = Entry(0)
    <2>1. CASE IrqEnter \/ IrqAck \/ IrqNotify
      BY <1>3, <2>1 DEF IrqEnter, IrqAck, IrqNotify, Goto, TypeOK
    <2>2. CASE IrqLoop
      <3>1. CASE g_last_used_idx # used_idx
        <4>1. Pending >= 1 /\ g_last_used_idx % QUEUE_SIZE = Entry(0)
          BY <1>3, <3>1, EntryFacts
        <4>2. desc_id' = Entry(0) /\ Entry(0) \in Descs
          BY <1>4, <2>2, <3>1, <4>1 DEF IrqLoop, RingInv
        <4>3. QED BY <1>3, <2>2, <3>1, <4>1, <4>2 DEF IrqLoop, Goto, TypeOK
      <3>2. CASE g_last_used_idx = used_idx
        BY <1>3, <2>2, <3>2 DEF IrqLoop, Goto, TypeOK
      <3>3. QED BY <3>1, <3>2
    <2>3. CASE IrqHandle /\ g_shift' \in BOOLEAN
      BY <1>3, <2>3 DEF IrqHandle, Goto, TypeOK, RingInv
    <2>4. CASE UNCHANGED vars
      BY <1>3, <2>4 DEF vars, TypeOK, RingInv
    <2>5. QED BY <2>1, <2>2, <2>3, <2>4
  <1>6. QED BY <1>1, <1>2, <1>3, <1>5 DEF RingInv, TypeOK, driver, device

\* The ring invariant leaves every descriptor with one side.
LEMMA RingOwner == RingInv => OneOwner
  <1> SUFFICES ASSUME RingInv PROVE OneOwner
    OBVIOUS
  <1> USE KbdConstants
  <1> DEFINE g == g_last_used_idx
             Q == QUEUE_SIZE
             A == Window(avail_ring, last_avail_idx, avail_idx)
             U == Window(used_ring, g, used_idx)
  <1>1. TypeOK /\ Pending \in 0 .. Q /\ Pending \in Nat /\ Q - Pending \in Nat
    BY DEF RingInv
  <1>2. /\ \A k \in 0 .. Q : Entry(k) \in Descs
        /\ used_idx = (g + Pending) % U16
        /\ (g + Q) % U16 \in Words
    BY <1>1, EntryFacts
  <1>3. /\ g \in Words /\ used_idx \in Words /\ avail_idx \in Words /\ Q \in Words
        /\ Pending \in Words /\ 0 \in Words
    BY <1>1 DEF TypeOK, Words
  <1>4. (avail_idx - last_avail_idx) % U16 = Q - Pending
    <2>1. /\ avail_idx = IF g + Q < U16 THEN g + Q ELSE g + Q - U16
          /\ used_idx = IF g + Pending < U16 THEN g + Pending ELSE g + Pending - U16
          /\ (avail_idx - used_idx) % U16 = IF avail_idx >= used_idx THEN avail_idx - used_idx
                                            ELSE avail_idx - used_idx + U16
      BY <1>2, <1>3, WordArith DEF RingInv
    <2>2. last_avail_idx = used_idx
      BY DEF RingInv
    <2>3. QED BY <1>1, <1>3, <2>1, <2>2 DEF Words
  <1>5. A = [k \in 1 .. Q - Pending |-> Entry(Pending + (k - 1))]
    <2>1. ASSUME NEW k \in 1 .. Q - Pending
          PROVE  avail_ring[(last_avail_idx + k - 1) % Q] = Entry(Pending + (k - 1))
      <3>1. k - 1 \in Int /\ Pending + (k - 1) \in 0 .. Q
        BY <1>1
      <3>2. (used_idx + (k - 1)) % Q = (g + Pending + (k - 1)) % Q
        BY <1>2, <1>3, <3>1, WordEntry, ZenonT(30)
      <3>3. /\ used_idx + (k - 1) = last_avail_idx + k - 1
            /\ g + Pending + (k - 1) = g + (Pending + (k - 1))
        BY <1>3, <3>1 DEF RingInv, Words
      <3>4. (last_avail_idx + k - 1) % Q = Entry(Pending + (k - 1))
        BY <3>2, <3>3 DEF Entry
      <3>5. QED BY <1>2, <3>1, <3>4 DEF RingInv
    <2>2. QED BY <1>4, <2>1 DEF Window
  <1>6. U = [k \in 1 .. Pending |-> Entry(k - 1)]
    <2>1. ASSUME NEW k \in 1 .. Pending
          PROVE  used_ring[(g + k - 1) % Q] = Entry(k - 1)
      <3>1. g + k - 1 = g + (k - 1) /\ k - 1 \in 0 .. Q - 1 /\ k - 1 < Pending
        BY <1>1, <1>3 DEF Words
      <3>2. QED BY <3>1 DEF Entry, RingInv
    <2>2. (used_idx - g) % U16 = Pending
      BY DEF Pending
    <2>3. QED BY <2>1, <2>2 DEF Window
  <1> HIDE DEF A, U
  <1>7. A \in Seq(Descs) /\ Len(A) = Q - Pending
    <2>1. \A k \in 1 .. Q - Pending : Entry(Pending + (k - 1)) \in Descs
      BY <1>1, <1>2
    <2>2. QED BY <1>1, <1>5, <2>1
  <1>8. U \in Seq(Descs) /\ Len(U) = Pending
    <2>1. \A k \in 1 .. Pending : Entry(k - 1) \in Descs
      BY <1>1, <1>2
    <2>2. QED BY <1>1, <1>6, <2>1
  <1>9. /\ Len(A \o U) = Q
        /\ \A i \in 1 .. Q : (A \o U)[i] = IF i <= Q - Pending THEN A[i] ELSE U[i - (Q - Pending)]
    BY <1>1, <1>7, <1>8, ConcatProperties
  <1>10. ASSUME NEW d \in Descs PROVE \E i \in 1 .. Q : (A \o U)[i] = d
    <2>1. PICK k \in 0 .. Q - 1 : Entry(k) = d
      <3>1. d \in 0 .. Q - 1 /\ Q \in Nat /\ Q > 0 /\ g \in Int
        BY <1>3 DEF Descs, Words
      <3>2. QED BY <3>1, ModOnto, Zenon DEF Entry
    <2>2. CASE k < Pending
      <3>1. k + 1 \in 1 .. Pending /\ (k + 1) - 1 = k /\ (Q - Pending) + (k + 1) \in 1 .. Q
            /\ ((Q - Pending) + (k + 1)) - (Q - Pending) = k + 1
            /\ ~ ((Q - Pending) + (k + 1) <= Q - Pending)
        BY <1>1, <2>2
      <3>2. U[k + 1] = d
        BY <1>6, <2>1, <3>1
      <3>3. (A \o U)[(Q - Pending) + (k + 1)] = d
        BY <1>9, <3>1, <3>2
      <3>4. QED BY <3>1, <3>3
    <2>3. CASE k >= Pending
      <3> DEFINE i == k - Pending + 1
      <3>1. i \in 1 .. Q - Pending /\ i \in 1 .. Q /\ i <= Q - Pending /\ Pending + (i - 1) = k
        BY <1>1, <2>3
      <3> HIDE DEF i
      <3>2. A[i] = d
        BY <1>5, <2>1, <3>1
      <3>3. (A \o U)[i] = d
        BY <1>9, <3>1, <3>2
      <3>4. QED BY <3>1, <3>3
    <2>4. k < Pending \/ k >= Pending
      BY <1>1
    <2>5. QED BY <2>2, <2>3, <2>4, Zenon
  <1>11. QED BY <1>9, <1>10 DEF OneOwner, A, U

-----------------------------------------------------------------------------
(* The events.                                                             *)

\* Shifted and CharsExact as functions of what they look at: the events s, the
\* characters c and the number h of events handled.
ShiftedIn(s, j) ==
    \E k \in 1 .. j - 1 : s[k] = "down" /\ \A m \in k + 1 .. j - 1 : s[m] # "up"
CharsIn(s, c, h) ==
    /\ \A k \in 1 .. Len(c) :
          /\ c[k][1] \in 1 .. h /\ s[c[k][1]] = "key"
          /\ c[k][2] = ShiftedIn(s, c[k][1])
          /\ k > 1 => c[k - 1][1] < c[k][1]
    /\ \A j \in 1 .. h : s[j] = "key" => \E k \in 1 .. Len(c) : c[k][1] = j

\* They are Shifted and CharsExact.
LEMMA AsFunctions ==
    /\ \A j : Shifted(j) = ShiftedIn(sent, j)
    /\ CharsExact <=> CharsIn(sent, chars, Handled)
  <1>1. \A j : Shifted(j) = ShiftedIn(sent, j)
    BY DEF Shifted, ShiftedIn
  <1>2. QED BY <1>1, Zenon DEF CharsExact, CharsIn

\* What one more event makes of the shift key.
LEMMA ShiftStep ==
    ASSUME NEW s, NEW j \in Nat, j >= 1
    PROVE  /\ s[j] = "down" => ShiftedIn(s, j + 1)
           /\ s[j] = "up" => ~ ShiftedIn(s, j + 1)
           /\ s[j] \notin {"down", "up"} => (ShiftedIn(s, j + 1) <=> ShiftedIn(s, j))
  <1> USE DEF ShiftedIn
  <1>1. ASSUME s[j] = "down" PROVE ShiftedIn(s, j + 1)
    BY <1>1
  <1>2. ASSUME s[j] = "up" PROVE ~ ShiftedIn(s, j + 1)
    BY <1>2
  <1>3. ASSUME s[j] \notin {"down", "up"} PROVE ShiftedIn(s, j + 1) <=> ShiftedIn(s, j)
    <2>1. ASSUME ShiftedIn(s, j + 1) PROVE ShiftedIn(s, j)
      <3>1. PICK k \in 1 .. (j + 1) - 1 :
                   s[k] = "down" /\ \A m \in k + 1 .. (j + 1) - 1 : s[m] # "up"
        BY <2>1
      <3>2. k \in 1 .. j - 1 /\ \A m \in k + 1 .. j - 1 : s[m] # "up"
        BY <1>3, <3>1
      <3>3. QED BY <3>1, <3>2
    <2>2. ASSUME ShiftedIn(s, j) PROVE ShiftedIn(s, j + 1)
      <3>1. PICK k \in 1 .. j - 1 :
                   s[k] = "down" /\ \A m \in k + 1 .. j - 1 : s[m] # "up"
        BY <2>2
      <3>2. k \in 1 .. (j + 1) - 1 /\ \A m \in k + 1 .. (j + 1) - 1 : s[m] # "up"
        BY <1>3, <3>1
      <3>3. QED BY <3>1, <3>2
    <2>3. QED BY <2>1, <2>2
  <1>4. QED BY <1>1, <1>2, <1>3

\* Later events change nothing about the earlier ones.
LEMMA LaterEvents ==
    ASSUME NEW h \in Nat, NEW s, NEW t, \A i \in 1 .. h : t[i] = s[i]
    PROVE  /\ \A j \in 1 .. h + 1 : ShiftedIn(t, j) = ShiftedIn(s, j)
           /\ \A c : CharsIn(s, c, h) => CharsIn(t, c, h)
  <1>1. ASSUME NEW j \in 1 .. h + 1 PROVE ShiftedIn(t, j) = ShiftedIn(s, j)
    <2>1. \A k \in 1 .. j - 1 : k \in 1 .. h /\ \A m \in k + 1 .. j - 1 : m \in 1 .. h
      OBVIOUS
    <2>2. QED BY <2>1 DEF ShiftedIn
  <1>2. ASSUME NEW c, CharsIn(s, c, h) PROVE CharsIn(t, c, h)
    <2>1. \A j \in 1 .. h : j \in 1 .. h + 1
      OBVIOUS
    <2>2. QED BY <1>1, <1>2, <2>1, Zenon DEF CharsIn
  <1>3. QED BY <1>1, <1>2

\* handle_kbd_event on the next event.
LEMMA NextEvent ==
    ASSUME NEW h \in Nat, NEW s, NEW c \in Seq((1 .. MaxEvents) \X BOOLEAN), h < MaxEvents,
           CharsIn(s, c, h), NEW b \in BOOLEAN, b = ShiftedIn(s, h + 1), NEW d,
           d = IF s[h + 1] = "key" THEN Append(c, <<h + 1, b>>) ELSE c
    PROVE  CharsIn(s, d, h + 1) /\ d \in Seq((1 .. MaxEvents) \X BOOLEAN)
  <1> USE KbdConstants
  <1>1. CASE s[h + 1] # "key"
    <2>1. d = c /\ \A j \in 1 .. h + 1 : j \in 1 .. h \/ j = h + 1
      BY <1>1
    <2>2. \A j \in 1 .. h : j \in 1 .. h + 1
      OBVIOUS
    <2>3. \A k \in 1 .. Len(c) :
             /\ c[k][1] \in 1 .. h + 1 /\ s[c[k][1]] = "key"
             /\ c[k][2] = ShiftedIn(s, c[k][1])
             /\ k > 1 => c[k - 1][1] < c[k][1]
      BY <2>2 DEF CharsIn
    <2>4. \A j \in 1 .. h + 1 : s[j] = "key" => \E k \in 1 .. Len(c) : c[k][1] = j
      BY <1>1, <2>1 DEF CharsIn
    <2>5. CharsIn(s, c, h + 1)
      BY <2>3, <2>4, Zenon DEF CharsIn
    <2>6. QED BY <2>1, <2>5
  <1>2. CASE s[h + 1] = "key"
    <2> DEFINE n == Len(c)
               e == <<h + 1, b>>
    <2>1. n \in Nat /\ d = Append(c, e) /\ e \in (1 .. MaxEvents) \X BOOLEAN
      BY <1>2
    <2>2. e[1] = h + 1 /\ e[2] = b
      OBVIOUS
    <2> HIDE DEF e
    <2>3. /\ d \in Seq((1 .. MaxEvents) \X BOOLEAN) /\ Len(d) = n + 1
          /\ \A i \in 1 .. n : d[i] = c[i]
          /\ d[n + 1] = e
      BY <2>1, AppendProperties
    <2> HIDE DEF n
    <2>4. ASSUME NEW k \in 1 .. n
          PROVE  /\ d[k][1] \in 1 .. h /\ d[k][1] \in 1 .. h + 1 /\ s[d[k][1]] = "key"
                 /\ d[k][2] = ShiftedIn(s, d[k][1])
                 /\ k > 1 => d[k - 1][1] < d[k][1]
      <3>1. /\ c[k][1] \in 1 .. h /\ s[c[k][1]] = "key" /\ c[k][2] = ShiftedIn(s, c[k][1])
            /\ k > 1 => c[k - 1][1] < c[k][1]
        BY DEF CharsIn, n
      <3>2. d[k] = c[k] /\ (k > 1 => d[k - 1] = c[k - 1])
        BY <2>1, <2>3
      <3>3. c[k][1] \in 1 .. h + 1
        BY <3>1
      <3>4. QED BY <3>1, <3>2, <3>3, Zenon
    <2>5. /\ d[n + 1][1] = h + 1 /\ d[n + 1][2] = ShiftedIn(s, h + 1)
          /\ n + 1 > 1 => d[n][1] < h + 1
      <3>1. n + 1 > 1 => n \in 1 .. n
        BY <2>1
      <3>2. n + 1 > 1 => d[n][1] \in 1 .. h
        BY <2>4, <3>1
      <3>3. d[n + 1][1] = h + 1 /\ d[n + 1][2] = b
        BY <2>2, <2>3, Zenon
      <3>4. n + 1 > 1 => d[n][1] < h + 1
        <4>1. \A w \in 1 .. h : w < h + 1
          OBVIOUS
        <4>2. QED BY <3>2, <4>1, Zenon
      <3>5. QED BY <3>3, <3>4
    <2>6. ASSUME NEW k \in 1 .. n + 1
          PROVE  /\ d[k][1] \in 1 .. h + 1 /\ s[d[k][1]] = "key"
                 /\ d[k][2] = ShiftedIn(s, d[k][1])
                 /\ k > 1 => d[k - 1][1] < d[k][1]
      <3>1. CASE k = n + 1
        <4>1. (n + 1) - 1 = n /\ h + 1 \in 1 .. h + 1
          BY <2>1
        <4>2. QED BY <1>2, <2>5, <3>1, <4>1
      <3>2. CASE k # n + 1
        <4>1. k \in 1 .. n
          BY <2>1, <3>2
        <4>2. QED BY <2>4, <4>1
      <3>3. QED BY <3>1, <3>2
    <2>7. ASSUME NEW j \in 1 .. h + 1, s[j] = "key" PROVE \E k \in 1 .. n + 1 : d[k][1] = j
      <3>1. CASE j = h + 1
        <4>1. n + 1 \in 1 .. n + 1
          BY <2>1
        <4>2. QED BY <2>5, <3>1, <4>1
      <3>2. CASE j # h + 1
        <4>1. j \in 1 .. h
          BY <3>2
        <4>2. PICK k \in 1 .. n : c[k][1] = j
          BY <2>7, <4>1 DEF CharsIn, n
        <4>3. k \in 1 .. n + 1 /\ d[k] = c[k]
          BY <2>1, <2>3
        <4>4. QED BY <4>2, <4>3
      <3>3. QED BY <3>1, <3>2
    <2>8. QED BY <2>3, <2>6, <2>7, SMTT(30) DEF CharsIn
  <1>3. QED BY <1>1, <1>2

\* The count of events handled, without mod, and its range.
LEMMA HandledFacts ==
    RingInv /\ EventInv =>
      /\ Handled = Len(sent) - Pending + (IF pc = "give" THEN 1 ELSE 0)
      /\ Handled \in 0 .. Len(sent) /\ Pending \in Nat /\ Len(sent) \in Nat
      /\ pc = "handle" => Handled < Len(sent)
  <1>1. Handled = Len(sent) - Pending + (IF pc = "give" THEN 1 ELSE 0)
    BY DEF Handled, Pending
  <1>2. QED BY <1>1, KbdConstants DEF RingInv, EventInv

\* The events hold at the start ...
LEMMA EventInit == Init => EventInv
  <1> SUFFICES ASSUME Init PROVE EventInv
    OBVIOUS
  <1>1. Pending = 0 /\ MaxEvents \in Nat
    <2>1. 0 \in Words
      BY KbdConstants DEF Words
    <2>2. QED BY <2>1, Distance, KbdConstants DEF Init, setup_eventq, Pending
  <1>2. Handled = 0
    BY <1>1 DEF Handled, Pending, Init
  <1>3. sent = <<>> /\ chars = <<>> /\ ~ g_shift /\ g_shift = FALSE
    BY DEF Init
  <1>4. Shifted(Handled + 1) = FALSE
    BY <1>2 DEF Shifted
  <1>5. CharsExact
    BY <1>2, <1>3 DEF CharsExact
  <1>6. /\ sent \in Seq(Kinds) /\ Len(sent) \in Pending .. MaxEvents
        /\ chars \in Seq((1 .. MaxEvents) \X BOOLEAN)
        /\ \A k \in 0 .. QUEUE_SIZE - 1 : ~ k < Pending
    BY <1>1, <1>3, KbdConstants
  <1>7. g_shift = Shifted(Handled + 1)
    BY <1>3, <1>4
  <1>8. QED BY <1>5, <1>6, <1>7 DEF EventInv

\* ... a new one leaves those before it as they were ...
LEMMA EventDeliver ==
    ASSUME RingInv, EventInv, NEW kind \in Kinds, Deliver(kind)
    PROVE  EventInv'
  <1> USE KbdConstants
  <1>1. /\ sent \in Seq(Kinds) /\ Len(sent) \in Nat /\ Pending \in 0 .. QUEUE_SIZE
        /\ Handled \in 0 .. Len(sent)
    BY HandledFacts DEF EventInv, RingInv
  <1>2. RingInv' /\ Pending' = Pending + 1 /\ Pending < QUEUE_SIZE
    BY <1>1, RingDeliver
  <1>3. /\ sent' \in Seq(Kinds) /\ Len(sent') = Len(sent) + 1
        /\ \A i \in 1 .. Len(sent) : sent'[i] = sent[i]
        /\ Len(sent) < MaxEvents /\ UNCHANGED <<pc, g_shift, chars, g_last_used_idx>>
    BY <1>1 DEF Deliver, driver
  <1>4. Handled' = Handled
    BY <1>1, <1>2, <1>3 DEF Handled, Pending
  <1>5. \A i \in 1 .. Handled : sent'[i] = sent[i]
    BY <1>1, <1>3
  <1>6. g_shift' = Shifted(Handled + 1)'
    <2>1. Handled + 1 \in 1 .. Handled + 1 /\ Handled \in Nat
      BY <1>1
    <2>2. ShiftedIn(sent', Handled + 1) = ShiftedIn(sent, Handled + 1)
      BY <1>5, <2>1, LaterEvents
    <2>3. (\A j : Shifted(j) = ShiftedIn(sent, j)) /\ g_shift = Shifted(Handled + 1)
      BY AsFunctions DEF EventInv
    <2>4. (\A j : Shifted(j) = ShiftedIn(sent, j))'
      BY AsFunctions, PTL
    <2>5. QED BY <1>3, <1>4, <2>2, <2>3, <2>4
  <1>7. CharsExact'
    <2>1. CharsIn(sent, chars, Handled) /\ Handled \in Nat
      BY <1>1, AsFunctions DEF EventInv
    <2>2. CharsIn(sent', chars, Handled)
      BY <1>5, <2>1, LaterEvents
    <2>3. (CharsExact <=> CharsIn(sent, chars, Handled))'
      BY AsFunctions, PTL
    <2>4. QED BY <1>3, <1>4, <2>2, <2>3
  <1>8. \A k \in 0 .. QUEUE_SIZE - 1 :
           k < Pending + 1 => g_events'[Entry(k)] = Len(sent) - Pending + k + 1
    <2>1. /\ \A k \in 0 .. QUEUE_SIZE : Entry(k) \in Descs
          /\ \A j, k \in 0 .. QUEUE_SIZE - 1 : Entry(j) = Entry(k) => j = k
          /\ used_idx % QUEUE_SIZE = Entry(Pending)
      BY EntryFacts DEF RingInv
    <2>2. g_events' = [g_events EXCEPT ![Entry(Pending)] = Len(sent) + 1]
      BY <1>1, <2>1, QueueNum DEF Deliver, RingInv
    <2>3. /\ g_events \in [Descs -> 0 .. MaxEvents]
          /\ \A k \in 0 .. QUEUE_SIZE - 1 :
                k < Pending => g_events[Entry(k)] = Len(sent) - Pending + k + 1
      BY DEF EventInv, RingInv, TypeOK
    <2>4. QED BY <1>1, <1>2, <2>1, <2>2, <2>3, SMTT(30)
  <1>9. \A k : Entry(k)' = Entry(k)
    BY <1>3 DEF Entry
  <1>10. QED BY <1>1, <1>2, <1>3, <1>6, <1>7, <1>8, <1>9 DEF EventInv

\* ... handling one passes it on ...
LEMMA EventHandle ==
    ASSUME RingInv, EventInv, IrqHandle
    PROVE  RingInv' /\ EventInv'
  <1> USE KbdConstants
  <1> DEFINE h == Handled
             ev == h + 1
  <1>1. /\ h = Len(sent) - Pending + (IF pc = "give" THEN 1 ELSE 0)
        /\ h \in Nat /\ h < Len(sent) /\ Pending \in Nat /\ Len(sent) \in Nat
        /\ Len(sent) <= MaxEvents /\ pc = "handle" /\ pc' = "give"
    BY HandledFacts DEF IrqHandle, Goto, EventInv
  <1>2. g_events[desc_id] = ev
    <2>1. Pending >= 1 /\ desc_id = Entry(0)
      BY <1>1 DEF RingInv
    <2>2. g_events[Entry(0)] = Len(sent) - Pending + 0 + 1
      <3>1. \A k \in 0 .. QUEUE_SIZE - 1 :
               k < Pending => g_events[Entry(k)] = Len(sent) - Pending + k + 1
        BY DEF EventInv
      <3>2. QED BY <1>1, <2>1, <3>1
    <2>3. QED BY <1>1, <2>1, <2>2
  <1>3. UNCHANGED <<driver, device, int_status, desc_id>> /\ handle_kbd_event(ev)
    BY <1>2 DEF IrqHandle
  <1>4. g_shift \in BOOLEAN /\ g_shift = ShiftedIn(sent, ev) /\ CharsIn(sent, chars, h)
    BY AsFunctions DEF EventInv, RingInv, TypeOK
  <1> HIDE DEF h
  <1>5. g_shift' \in BOOLEAN /\ g_shift' = ShiftedIn(sent, ev + 1)
    <2>1. ShiftedIn(sent, ev + 1) \in BOOLEAN /\ ev \in Nat /\ ev >= 1
      BY <1>1 DEF ShiftedIn
    <2>2. CASE sent[ev] = "down"
      <3>1. g_shift' = TRUE
        BY <1>3, <2>2 DEF handle_kbd_event
      <3>2. QED BY <2>1, <2>2, <3>1, ShiftStep
    <2>3. CASE sent[ev] = "up"
      <3>1. g_shift' = FALSE
        BY <1>3, <2>3 DEF handle_kbd_event
      <3>2. QED BY <2>1, <2>3, <3>1, ShiftStep
    <2>4. CASE sent[ev] \notin {"down", "up"}
      <3>1. g_shift' = g_shift
        BY <1>3, <2>4 DEF handle_kbd_event
      <3>2. QED BY <1>4, <2>1, <2>4, <3>1, ShiftStep
    <2>5. QED BY <2>2, <2>3, <2>4
  <1>6. CharsIn(sent, chars', ev) /\ chars' \in Seq((1 .. MaxEvents) \X BOOLEAN)
    <2>1. chars' = IF sent[ev] = "key" THEN Append(chars, <<ev, g_shift>>) ELSE chars
      BY <1>3 DEF handle_kbd_event
    <2>2. chars \in Seq((1 .. MaxEvents) \X BOOLEAN) /\ h < MaxEvents
      BY <1>1 DEF EventInv
    <2>3. QED BY <1>1, <1>4, <2>1, <2>2, NextEvent
  <1>7. RingInv' /\ Pending' = Pending /\ \A k : Entry(k)' = Entry(k)
    BY <1>5, RingOther
  <1>8. Handled' = ev /\ sent' = sent /\ g_events' = g_events
    <2>1. sent' = sent /\ g_events' = g_events
      BY <1>3 DEF device
    <2>2. QED BY <1>1, <1>7, <2>1 DEF Handled, Pending
  <1>9. g_shift' = Shifted(Handled + 1)' /\ CharsExact'
    <2>1. (\A j : Shifted(j) = ShiftedIn(sent, j))' /\ (CharsExact <=> CharsIn(sent, chars, Handled))'
      BY AsFunctions, PTL
    <2>2. QED BY <1>5, <1>6, <1>8, <2>1
  <1>10. QED BY <1>1, <1>6, <1>7, <1>8, <1>9 DEF EventInv

\* ... and giving its descriptor back counts it once.
LEMMA EventGive ==
    ASSUME RingInv, EventInv, IrqGive
    PROVE  EventInv'
  <1> USE KbdConstants
  <1>1. /\ RingInv' /\ Pending' = Pending - 1 /\ Pending >= 1
        /\ \A k \in 0 .. QUEUE_SIZE - 1 : Entry(k)' = Entry(k + 1)
    BY RingGive
  <1>2. Pending \in 0 .. QUEUE_SIZE /\ Len(sent) \in Nat
    BY HandledFacts DEF RingInv
  <1>3. UNCHANGED <<sent, g_events, g_shift, chars>> /\ pc = "give" /\ pc' = "loop"
    BY DEF IrqGive, device, Goto
  <1>4. Handled' = Handled
    BY <1>1, <1>2, <1>3 DEF Handled, Pending
  <1>5. g_shift' = Shifted(Handled + 1)' /\ CharsExact'
    <2>1. /\ \A j : Shifted(j) = ShiftedIn(sent, j)
          /\ CharsExact <=> CharsIn(sent, chars, Handled)
      BY AsFunctions
    <2>2. (\A j : Shifted(j) = ShiftedIn(sent, j))' /\ (CharsExact <=> CharsIn(sent, chars, Handled))'
      BY AsFunctions, PTL
    <2>3. QED BY <1>3, <1>4, <2>1, <2>2 DEF EventInv
  <1>6. ASSUME NEW k \in 0 .. QUEUE_SIZE - 1, k < Pending'
        PROVE  g_events'[Entry(k)'] = Len(sent') - Pending' + k + 1
    <2>1. k + 1 \in 0 .. QUEUE_SIZE - 1 /\ k + 1 < Pending
      BY <1>1, <1>2, <1>6
    <2>2. g_events[Entry(k + 1)] = Len(sent) - Pending + (k + 1) + 1
      BY <2>1 DEF EventInv
    <2>3. QED BY <1>1, <1>2, <1>3, <2>2
  <1>7. QED BY <1>1, <1>2, <1>3, <1>5, <1>6 DEF EventInv

\* The other steps do not touch the events.
LEMMA EventOther ==
    ASSUME RingInv, EventInv,
           IrqEnter \/ IrqAck \/ IrqLoop \/ IrqNotify \/ UNCHANGED vars
    PROVE  EventInv'
  <1>1. Pending' = Pending /\ \A k : Entry(k)' = Entry(k)
    BY RingOther
  <1>2. UNCHANGED <<sent, g_events, g_shift, chars>> /\ (pc' = "give" <=> pc = "give")
    BY DEF IrqEnter, IrqAck, IrqLoop, IrqNotify, vars, device, Goto
  <1>3. Handled' = Handled
    BY <1>1, <1>2 DEF Handled, Pending
  <1>4. g_shift' = Shifted(Handled + 1)' /\ CharsExact'
    <2>1. /\ \A j : Shifted(j) = ShiftedIn(sent, j)
          /\ CharsExact <=> CharsIn(sent, chars, Handled)
      BY AsFunctions
    <2>2. (\A j : Shifted(j) = ShiftedIn(sent, j))' /\ (CharsExact <=> CharsIn(sent, chars, Handled))'
      BY AsFunctions, PTL
    <2>3. QED BY <1>2, <1>3, <2>1, <2>2 DEF EventInv
  <1>5. QED BY <1>1, <1>2, <1>4 DEF EventInv

-----------------------------------------------------------------------------
(* The theorems.                                                           *)

\* KbdInv is inductive: the handler's order of reading the ring, handling the
\* event and giving the descriptor back keeps both rings and the events
\* aligned, whatever the device does in between.
THEOREM KbdInductive == Spec => []KbdInv
  <1>1. Init => KbdInv
    BY RingInit, EventInit DEF KbdInv
  <1>2. KbdInv /\ [Next]_vars => KbdInv'
    <2> SUFFICES ASSUME KbdInv, [Next]_vars PROVE KbdInv'
      OBVIOUS
    <2>1. RingInv /\ EventInv /\ Len(sent) \in Nat
      BY HandledFacts DEF KbdInv
    <2>2. ASSUME NEW kind \in Kinds, Deliver(kind) PROVE KbdInv'
      BY <2>1, <2>2, RingDeliver, EventDeliver DEF KbdInv
    <2>3. CASE IrqHandle
      BY <2>1, <2>3, EventHandle DEF KbdInv
    <2>4. CASE IrqGive
      BY <2>1, <2>4, RingGive, EventGive DEF KbdInv
    <2>5. CASE IrqEnter \/ IrqAck \/ IrqLoop \/ IrqNotify \/ UNCHANGED vars
      BY <2>1, <2>5, RingOther, EventOther DEF KbdInv
    <2>6. QED BY <2>2, <2>3, <2>4, <2>5 DEF Next, kbd_irq_handler
  <1>3. QED BY <1>1, <1>2, PTL DEF Spec

\* Every descriptor of the event queue is with exactly one side, for every
\* queue size and every index width it divides, also when the indices wrap.
THEOREM QueueAlwaysOK == Spec => []QueueOK
  <1>1. KbdInv => QueueOK
    BY RingOwner DEF KbdInv, RingInv, QueueOK
  <1>2. QED BY <1>1, KbdInductive, PTL

\* tty_input gets every key press handled, once, in order and in its case, for
\* every queue size and any number of events.
THEOREM CharsAlwaysExact == Spec => []CharsExact
  <1>1. KbdInv => CharsExact
    BY DEF KbdInv, EventInv
  <1>2. QED BY <1>1, KbdInductive, PTL
=============================================================================
