-------------------------- MODULE RunStreamProofs ---------------------------
(***************************************************************************)
(* What holds of the event stream for any number of viewers, any number of *)
(* events and any capacity of the channel.                                 *)
(***************************************************************************)
EXTENDS RunStream, TLAPS

(***************************************************************************)
(* A line of events in three pieces: what the client has seen, what is in  *)
(* the channel, what is on the wire.                                       *)
(***************************************************************************)
Before(x, y) == x # Heartbeat /\ y # Heartbeat => x < y
Rising(q) == \A i, j \in 1 .. Len(q) : i < j => Before(q[i], q[j])
Ahead(p, q) == \A i \in 1 .. Len(p), j \in 1 .. Len(q) : Before(p[i], q[j])
After(low, q) == \A i \in 1 .. Len(q) : q[i] # Heartbeat => q[i] > low

AllBefore(q, x) == \A i \in 1 .. Len(q) : Before(q[i], x)
AllAfter(x, q) == \A i \in 1 .. Len(q) : Before(x, q[i])

InOrder(low, a, b, c) ==
  /\ Rising(a) /\ Rising(b) /\ Rising(c)
  /\ Ahead(a, b) /\ Ahead(a, c) /\ Ahead(b, c)
  /\ After(low, a) /\ After(low, b) /\ After(low, c)

(***************************************************************************)
(* Facts about sequences.                                                  *)
(***************************************************************************)

\* What a send adds and a receive takes.
LEMMA Elements ==
  ASSUME NEW q \in Seq(Nat), NEW x \in Nat
  PROVE  /\ InSeq(<<>>) = {}
         /\ Append(q, x) \in Seq(Nat) /\ Len(Append(q, x)) = Len(q) + 1
         /\ \A i \in 1 .. Len(q) + 1 : Append(q, x)[i] = IF i = Len(q) + 1 THEN x ELSE q[i]
         /\ InSeq(Append(q, x)) = InSeq(q) \cup {x}
         /\ q # <<>> => /\ Tail(q) \in Seq(Nat) /\ Len(q) >= 1 /\ Len(Tail(q)) = Len(q) - 1
                        /\ Head(q) = q[1] /\ Head(q) \in Nat
                        /\ \A i \in 1 .. Len(q) - 1 : Tail(q)[i] = q[i + 1]
                        /\ InSeq(q) = {Head(q)} \cup InSeq(Tail(q))
<1>1. InSeq(<<>>) = {}
  BY DEF InSeq
<1>2. /\ Append(q, x) \in Seq(Nat) /\ Len(Append(q, x)) = Len(q) + 1
      /\ \A i \in 1 .. Len(q) + 1 : Append(q, x)[i] = IF i = Len(q) + 1 THEN x ELSE q[i]
  OBVIOUS
<1>3. InSeq(Append(q, x)) = InSeq(q) \cup {x}
  <2>1. Len(q) \in Nat
    OBVIOUS
  <2>2. ASSUME NEW y \in InSeq(Append(q, x)) PROVE y \in InSeq(q) \cup {x}
    BY <1>2, <2>1, <2>2 DEF InSeq
  <2>3. ASSUME NEW y \in InSeq(q) PROVE y \in InSeq(Append(q, x))
    <3>1. PICK i \in 1 .. Len(q) : y = q[i]
      BY <2>3 DEF InSeq
    <3>2. i \in 1 .. Len(q) + 1 /\ i # Len(q) + 1
      BY <2>1
    <3>3. QED
      BY <1>2, <3>1, <3>2 DEF InSeq
  <2>4. x \in InSeq(Append(q, x))
    <3>1. Len(q) + 1 \in 1 .. Len(q) + 1
      BY <2>1
    <3>2. QED
      BY <1>2, <3>1 DEF InSeq
  <2>5. QED
    BY <2>2, <2>3, <2>4
<1>4. ASSUME q # <<>>
      PROVE  /\ Tail(q) \in Seq(Nat) /\ Len(q) >= 1 /\ Len(Tail(q)) = Len(q) - 1
             /\ Head(q) = q[1] /\ Head(q) \in Nat
             /\ \A i \in 1 .. Len(q) - 1 : Tail(q)[i] = q[i + 1]
             /\ InSeq(q) = {Head(q)} \cup InSeq(Tail(q))
  <2>1. Len(q) \in Nat /\ Len(q) >= 1
    BY <1>4
  <2>2. /\ Tail(q) \in Seq(Nat) /\ Len(Tail(q)) = Len(q) - 1
        /\ Head(q) = q[1] /\ Head(q) \in Nat
        /\ \A i \in 1 .. Len(q) - 1 : Tail(q)[i] = q[i + 1]
    BY <1>4, <2>1
  <2>3. ASSUME NEW y \in InSeq(q) PROVE y \in {Head(q)} \cup InSeq(Tail(q))
    <3>1. PICK i \in 1 .. Len(q) : y = q[i]
      BY <2>3 DEF InSeq
    <3>2. CASE i = 1
      BY <2>2, <3>1, <3>2
    <3>3. CASE i # 1
      <4>1. i - 1 \in 1 .. Len(Tail(q)) /\ Tail(q)[i - 1] = q[i]
        BY <2>1, <2>2, <3>3
      <4>2. QED
        BY <3>1, <4>1 DEF InSeq
    <3>4. QED
      BY <3>2, <3>3
  <2>4. ASSUME NEW y \in InSeq(Tail(q)) PROVE y \in InSeq(q)
    <3>1. PICK i \in 1 .. Len(q) - 1 : y = Tail(q)[i]
      BY <2>2, <2>4 DEF InSeq
    <3>2. i + 1 \in 1 .. Len(q) /\ q[i + 1] = y
      BY <2>1, <2>2, <3>1
    <3>3. QED
      BY <3>2 DEF InSeq
  <2>5. Head(q) \in InSeq(q)
    <3>1. 1 \in 1 .. Len(q)
      BY <2>1
    <3>2. QED
      BY <2>2, <3>1 DEF InSeq
  <2>6. QED
    BY <2>1, <2>2, <2>3, <2>4, <2>5
<1>5. QED
  BY <1>1, <1>2, <1>3, <1>4

\* Order after a send.
LEMMA OrderOfAppend ==
  ASSUME NEW q \in Seq(Nat), NEW x \in Nat, NEW p \in Seq(Nat), NEW low \in Nat
  PROVE  /\ Rising(q) /\ AllBefore(q, x) => Rising(Append(q, x))
         /\ Ahead(p, q) /\ AllBefore(p, x) => Ahead(p, Append(q, x))
         /\ Ahead(q, p) /\ AllAfter(x, p) => Ahead(Append(q, x), p)
         /\ After(low, q) /\ (x # Heartbeat => x > low) => After(low, Append(q, x))
<1> DEFINE r == Append(q, x)
           n == Len(q)
<1>1. /\ n \in Nat /\ Len(r) = n + 1
      /\ r[n + 1] = x
      /\ \A i \in 1 .. n : i \in 1 .. n + 1 /\ r[i] = q[i]
  <2>1. n \in Nat
    OBVIOUS
  <2>2. n + 1 \in 1 .. n + 1 /\ \A i \in 1 .. n : i \in 1 .. n + 1 /\ i # n + 1
    BY <2>1
  <2>3. QED
    BY <2>1, <2>2, Elements
<1>2. \A i \in 1 .. n + 1 : i \in 1 .. n \/ i = n + 1
  BY <1>1
<1>3. 1 .. Len(r) = 1 .. n + 1 /\ Len(q) = n
  BY <1>1
<1> HIDE DEF r, n
<1>4. ASSUME Rising(q), AllBefore(q, x) PROVE Rising(r)
  <2>1. ASSUME NEW i \in 1 .. n + 1, NEW j \in 1 .. n + 1, i < j PROVE Before(r[i], r[j])
    <3>1. i \in 1 .. n
      BY <1>1, <2>1
    <3>2. CASE j = n + 1
      BY <1>1, <1>3, <1>4, <3>1, <3>2 DEF AllBefore
    <3>3. CASE j \in 1 .. n
      BY <1>1, <1>3, <1>4, <2>1, <3>1, <3>3 DEF Rising
    <3>4. QED
      BY <1>2, <3>2, <3>3
  <2>2. QED
    BY <1>3, <2>1 DEF Rising
<1>5. ASSUME Ahead(p, q), AllBefore(p, x) PROVE Ahead(p, r)
  <2>1. ASSUME NEW i \in 1 .. Len(p), NEW j \in 1 .. n + 1 PROVE Before(p[i], r[j])
    <3>1. CASE j = n + 1
      BY <1>1, <1>5, <3>1 DEF AllBefore
    <3>2. CASE j \in 1 .. n
      BY <1>1, <1>3, <1>5, <3>2 DEF Ahead
    <3>3. QED
      BY <1>2, <3>1, <3>2
  <2>2. QED
    BY <1>3, <2>1 DEF Ahead
<1>6. ASSUME Ahead(q, p), AllAfter(x, p) PROVE Ahead(r, p)
  <2>1. ASSUME NEW i \in 1 .. Len(p), NEW j \in 1 .. n + 1 PROVE Before(r[j], p[i])
    <3>1. CASE j = n + 1
      BY <1>1, <1>6, <3>1 DEF AllAfter
    <3>2. CASE j \in 1 .. n
      BY <1>1, <1>3, <1>6, <3>2 DEF Ahead
    <3>3. QED
      BY <1>2, <3>1, <3>2
  <2>2. QED
    BY <1>3, <2>1 DEF Ahead
<1>7. ASSUME After(low, q), x # Heartbeat => x > low PROVE After(low, r)
  <2>1. ASSUME NEW j \in 1 .. n + 1, r[j] # Heartbeat PROVE r[j] > low
    <3>1. CASE j = n + 1
      BY <1>1, <1>7, <2>1, <3>1
    <3>2. CASE j \in 1 .. n
      BY <1>1, <1>3, <1>7, <2>1, <3>2 DEF After
    <3>3. QED
      BY <1>2, <3>1, <3>2
  <2>2. QED
    BY <1>3, <2>1 DEF After
<1>8. QED
  BY <1>4, <1>5, <1>6, <1>7 DEF r

\* Order after a receive, and of what was received.
LEMMA OrderOfTail ==
  ASSUME NEW q \in Seq(Nat), q # <<>>, NEW p \in Seq(Nat), NEW low \in Nat
  PROVE  /\ Rising(q) => Rising(Tail(q)) /\ AllAfter(Head(q), Tail(q))
         /\ Ahead(p, q) => Ahead(p, Tail(q)) /\ AllBefore(p, Head(q))
         /\ Ahead(q, p) => Ahead(Tail(q), p) /\ AllAfter(Head(q), p)
         /\ After(low, q) => After(low, Tail(q)) /\ (Head(q) # Heartbeat => Head(q) > low)
<1> DEFINE r == Tail(q)
           h == Head(q)
<1>1. /\ Len(q) \in Nat /\ Len(q) >= 1 /\ Len(r) = Len(q) - 1
      /\ h = q[1]
      /\ \A i \in 1 .. Len(r) : i + 1 \in 1 .. Len(q) /\ r[i] = q[i + 1]
  <2>1. 0 \in Nat
    OBVIOUS
  <2>2. QED
    BY <2>1, Elements
<1>2. 1 \in 1 .. Len(q)
  BY <1>1
<1> HIDE DEF r, h
<1>3. ASSUME Rising(q) PROVE Rising(r) /\ AllAfter(h, r)
  <2>1. ASSUME NEW i \in 1 .. Len(r), NEW j \in 1 .. Len(r), i < j PROVE Before(r[i], r[j])
    <3>1. i + 1 \in 1 .. Len(q) /\ j + 1 \in 1 .. Len(q) /\ i + 1 < j + 1
      BY <1>1, <2>1
    <3>2. Before(q[i + 1], q[j + 1])
      BY <1>3, <3>1 DEF Rising
    <3>3. QED
      BY <1>1, <3>2
  <2>2. ASSUME NEW i \in 1 .. Len(r) PROVE Before(h, r[i])
    <3>1. i + 1 \in 1 .. Len(q) /\ 1 < i + 1
      BY <1>1
    <3>2. Before(q[1], q[i + 1])
      BY <1>2, <1>3, <3>1 DEF Rising
    <3>3. QED
      BY <1>1, <3>2
  <2>3. QED
    BY <2>1, <2>2 DEF Rising, AllAfter
<1>4. ASSUME Ahead(p, q) PROVE Ahead(p, r) /\ AllBefore(p, h)
  BY <1>1, <1>2, <1>4 DEF Ahead, AllBefore
<1>5. ASSUME Ahead(q, p) PROVE Ahead(r, p) /\ AllAfter(h, p)
  BY <1>1, <1>2, <1>5 DEF Ahead, AllAfter
<1>6. ASSUME After(low, q) PROVE After(low, r) /\ (h # Heartbeat => h > low)
  BY <1>1, <1>2, <1>6 DEF After
<1>7. QED
  BY <1>3, <1>4, <1>5, <1>6 DEF r, h

\* A new event, above all others, goes to the end.
LEMMA LineGrows ==
  ASSUME NEW low \in Nat, NEW a \in Seq(Nat), NEW b \in Seq(Nat), NEW c \in Seq(Nat),
         NEW n \in Nat, InOrder(low, a, b, c), low < n,
         AllBefore(a, n), AllBefore(b, n), AllBefore(c, n)
  PROVE  InOrder(low, a, b, Append(c, n))
BY OrderOfAppend DEF InOrder

\* The wire may be lost, and a heartbeat may enter the channel.
LEMMA LineBeats ==
  ASSUME NEW low \in Nat, NEW a \in Seq(Nat), NEW b \in Seq(Nat), NEW c \in Seq(Nat),
         InOrder(low, a, b, c)
  PROVE  InOrder(low, a, b, <<>>) /\ InOrder(low, a, Append(b, Heartbeat), c)
<1>1. InOrder(low, a, b, <<>>)
  BY DEF InOrder, Rising, Ahead, After
<1>2. \A q \in Seq(Nat) : AllBefore(q, Heartbeat) /\ AllAfter(Heartbeat, q)
  BY DEF AllBefore, AllAfter, Before
<1>3. Heartbeat \in Nat
  BY DEF Heartbeat
<1>4. QED
  BY <1>1, <1>2, <1>3, OrderOfAppend DEF InOrder

\* A message leaves the wire, for the channel or for nowhere.
LEMMA LineForwards ==
  ASSUME NEW low \in Nat, NEW a \in Seq(Nat), NEW b \in Seq(Nat), NEW c \in Seq(Nat),
         InOrder(low, a, b, c), c # <<>>
  PROVE  InOrder(low, a, Append(b, Head(c)), Tail(c)) /\ InOrder(low, a, b, Tail(c))
<1>1. Head(c) \in Nat /\ Tail(c) \in Seq(Nat)
  BY Elements
<1>2. /\ Rising(Tail(c)) /\ AllAfter(Head(c), Tail(c))
      /\ Ahead(a, Tail(c)) /\ AllBefore(a, Head(c))
      /\ Ahead(b, Tail(c)) /\ AllBefore(b, Head(c))
      /\ After(low, Tail(c)) /\ (Head(c) # Heartbeat => Head(c) > low)
  BY OrderOfTail DEF InOrder
<1>3. QED
  BY <1>1, <1>2, OrderOfAppend DEF InOrder

\* The handler takes from the channel, and shows what is not a heartbeat.
LEMMA LineShows ==
  ASSUME NEW low \in Nat, NEW a \in Seq(Nat), NEW b \in Seq(Nat), NEW c \in Seq(Nat),
         InOrder(low, a, b, c), b # <<>>
  PROVE  InOrder(low, a, Tail(b), c) /\ InOrder(low, Append(a, Head(b)), Tail(b), c)
<1>1. Head(b) \in Nat /\ Tail(b) \in Seq(Nat)
  BY Elements
<1>2. /\ Rising(Tail(b)) /\ AllAfter(Head(b), Tail(b))
      /\ Ahead(a, Tail(b)) /\ AllBefore(a, Head(b))
      /\ Ahead(Tail(b), c) /\ AllAfter(Head(b), c)
      /\ After(low, Tail(b)) /\ (Head(b) # Heartbeat => Head(b) > low)
  BY OrderOfTail DEF InOrder
<1>3. QED
  BY <1>1, <1>2, OrderOfAppend DEF InOrder

\* The three pieces in order are one line in order.
LEMMA LineIsOrdered ==
  ASSUME NEW low \in Nat, NEW a \in Seq(Nat), NEW b \in Seq(Nat), NEW c \in Seq(Nat),
         InOrder(low, a, b, c)
  PROVE  LET line == a \o b \o c
         IN \A i, j \in 1 .. Len(line) :
              line[i] # Heartbeat /\ line[j] # Heartbeat =>
                line[i] > low /\ (i < j => line[i] < line[j])
<1> DEFINE line == a \o b \o c
<1>1. /\ Len(a) \in Nat /\ Len(b) \in Nat /\ Len(c) \in Nat
      /\ Len(line) = Len(a) + Len(b) + Len(c)
  OBVIOUS
<1>2. \A i \in 1 .. Len(line) :
        \/ i \in 1 .. Len(a) /\ line[i] = a[i]
        \/ /\ i > Len(a) /\ i - Len(a) \in 1 .. Len(b)
           /\ line[i] = b[i - Len(a)]
        \/ /\ i > Len(a) + Len(b) /\ i - (Len(a) + Len(b)) \in 1 .. Len(c)
           /\ line[i] = c[i - (Len(a) + Len(b))]
  OBVIOUS
<1> HIDE DEF line
<1> SUFFICES ASSUME NEW i \in 1 .. Len(line), NEW j \in 1 .. Len(line),
                    line[i] # Heartbeat, line[j] # Heartbeat
             PROVE  line[i] > low /\ (i < j => line[i] < line[j])
  BY DEF line
<1> DEFINE k == i - Len(a)
           l == j - Len(a)
           m == i - (Len(a) + Len(b))
           n == j - (Len(a) + Len(b))
<1>3. /\ \/ i \in 1 .. Len(a) /\ line[i] = a[i]
         \/ i > Len(a) /\ k \in 1 .. Len(b) /\ line[i] = b[k]
         \/ i > Len(a) + Len(b) /\ m \in 1 .. Len(c) /\ line[i] = c[m]
      /\ \/ j \in 1 .. Len(a) /\ line[j] = a[j]
         \/ j > Len(a) /\ l \in 1 .. Len(b) /\ line[j] = b[l]
         \/ j > Len(a) + Len(b) /\ n \in 1 .. Len(c) /\ line[j] = c[n]
  BY <1>2
<1>4. line[i] > low
  BY <1>3 DEF InOrder, After
<1>5. ASSUME i < j PROVE line[i] < line[j]
  <2>1. k < l /\ m < n
    BY <1>1, <1>5
  <2>2. CASE i \in 1 .. Len(a) /\ line[i] = a[i]
    <3>1. CASE j \in 1 .. Len(a) /\ line[j] = a[j]
      BY <1>5, <2>2, <3>1 DEF InOrder, Rising, Before
    <3>2. CASE l \in 1 .. Len(b) /\ line[j] = b[l]
      BY <2>2, <3>2 DEF InOrder, Ahead, Before
    <3>3. CASE n \in 1 .. Len(c) /\ line[j] = c[n]
      BY <2>2, <3>3 DEF InOrder, Ahead, Before
    <3>4. QED
      BY <1>3, <3>1, <3>2, <3>3
  <2>3. CASE i > Len(a) /\ k \in 1 .. Len(b) /\ line[i] = b[k]
    <3>1. ~(j \in 1 .. Len(a))
      BY <1>1, <1>5, <2>3
    <3>2. CASE l \in 1 .. Len(b) /\ line[j] = b[l]
      <4>1. k < l
        BY <2>1
      <4> HIDE DEF k, l
      <4>2. QED
        BY <2>3, <3>2, <4>1 DEF InOrder, Rising, Before
    <3>3. CASE n \in 1 .. Len(c) /\ line[j] = c[n]
      <4> HIDE DEF k, n
      <4>1. QED
        BY <2>3, <3>3 DEF InOrder, Ahead, Before
    <3>4. QED
      BY <1>3, <3>1, <3>2, <3>3
  <2>4. CASE i > Len(a) + Len(b) /\ m \in 1 .. Len(c) /\ line[i] = c[m]
    <3>1. ~(j \in 1 .. Len(a)) /\ ~(l \in 1 .. Len(b))
      BY <1>1, <1>5, <2>4
    <3>2. n \in 1 .. Len(c) /\ line[j] = c[n] /\ m < n
      BY <1>3, <2>1, <3>1
    <3> HIDE DEF m, n
    <3>3. QED
      BY <2>4, <3>2 DEF InOrder, Rising, Before
  <2>5. QED
    BY <1>3, <2>2, <2>3, <2>4
<1>6. QED
  BY <1>4, <1>5

(***************************************************************************)
(* Types.                                                                  *)
(***************************************************************************)
\* The initial state is well typed.
LEMMA InitTypes == Init => TypeOK
BY StreamAssumption DEF Init, TypeOK, Events

\* A publication adds one event.
LEMMA PublishTypes ==
  ASSUME TypeOK, NEW type \in {"progress", "complete"}, Publish(type)
  PROVE  TypeOK' /\ Len(published') = Len(published) + 1
<1>1. published' \in Seq({"progress", "complete"}) /\ Len(published) \in Nat
      /\ Len(published') = Len(published) + 1
  BY DEF TypeOK, Publish
<1>2. Events \subseteq Events' /\ Events \cup {Heartbeat} \subseteq Events' \cup {Heartbeat}
      /\ Len(published') \in Events'
  BY <1>1 DEF Events
<1>3. \A q \in Seq(Events) : q \in Seq(Events')
  BY <1>2
<1>4. \A q \in Seq(Events \cup {Heartbeat}) : q \in Seq(Events' \cup {Heartbeat})
  BY <1>2
<1>5. wire' \in [Streams -> Seq(Events')]
  <2>1. \A s \in Streams : wire[s] \in Seq(Events')
    BY <1>3 DEF TypeOK
  <2>2. \A s \in Streams : Append(wire[s], Len(published')) \in Seq(Events')
    BY <1>2, <2>1
  <2>3. wire' = [s \in Streams |-> IF Subscribed(s) THEN Append(wire[s], Len(published'))
                                   ELSE wire[s]]
    BY DEF Publish
  <2>4. QED
    BY <2>1, <2>2, <2>3
<1>6. since' \in [Streams -> 0 .. Len(published')]
  BY <1>1 DEF TypeOK, Publish
<1>7. buffer' \in [Streams -> Seq(Events' \cup {Heartbeat})]
  BY <1>4 DEF TypeOK, Publish
<1>8. shown' \in [Streams -> Seq(Events')] /\ dropped' \in [Streams -> SUBSET Events']
  BY <1>2, <1>3 DEF TypeOK, Publish
<1>9. QED
  BY <1>1, <1>5, <1>6, <1>7, <1>8 DEF TypeOK, Publish

\* Every step of a stream keeps the types.
LEMMA StreamTypes ==
  ASSUME TypeOK, NEW s \in Streams,
         \/ LoseWire(s) \/ Open(s) \/ Confirm(s) \/ Refuse(s) \/ Disconnect(s)
         \/ Beat(s) \/ Forward(s) \/ Quit(s) \/ Write(s) \/ RangeEnds(s)
  PROVE  TypeOK' /\ UNCHANGED published
<1>1. UNCHANGED published
  BY DEF LoseWire, Open, Confirm, Refuse, Disconnect, Beat, Forward, Quit, Write, RangeEnds
<1>2. Events' = Events
  BY <1>1 DEF Events
<1>3. /\ wire[s] \in Seq(Events) /\ buffer[s] \in Seq(Events \cup {Heartbeat})
      /\ shown[s] \in Seq(Events) /\ Len(buffer[s]) \in Nat /\ Len(buffer[s]) <= Buffer
      /\ Len(published) \in Nat
  BY DEF TypeOK
<1> DEFINE Channel == /\ buffer' \in [Streams -> Seq(Events \cup {Heartbeat})]
                      /\ \A t \in Streams : Len(buffer'[t]) <= Buffer
<1>0. ASSUME NEW q \in Seq(Events \cup {Heartbeat}), Len(q) <= Buffer,
             buffer' = [buffer EXCEPT ![s] = q]
      PROVE  Channel
  BY <1>0 DEF TypeOK
<1> HIDE DEF Channel
<1>4. CASE LoseWire(s)
  BY <1>2, <1>4 DEF TypeOK, LoseWire
<1>5. CASE Open(s)
  BY <1>2, <1>5 DEF TypeOK, Open
<1>6. CASE Confirm(s)
  <2>1. Len(published) \in 0 .. Len(published)
    BY <1>3
  <2>2. QED
    BY <1>2, <1>6, <2>1 DEF TypeOK, Confirm
<1>7. CASE Refuse(s)
  BY <1>2, <1>7 DEF TypeOK, Refuse
<1>8. CASE Disconnect(s)
  BY <1>2, <1>8 DEF TypeOK, Disconnect
<1>9. CASE Beat(s)
  <2>1. /\ Append(buffer[s], Heartbeat) \in Seq(Events \cup {Heartbeat})
        /\ Len(Append(buffer[s], Heartbeat)) <= Buffer
    BY <1>3, <1>9, StreamAssumption DEF Beat, HasRoom
  <2>2. buffer' = [buffer EXCEPT ![s] = Append(buffer[s], Heartbeat)]
    BY <1>9 DEF Beat, Enqueue
  <2>3. Channel
    BY <1>0, <2>1, <2>2
  <2>4. QED
    BY <1>2, <1>9, <2>3 DEF TypeOK, Beat, Channel
<1>10. CASE Forward(s)
  <2>1. Head(wire[s]) \in Events /\ Tail(wire[s]) \in Seq(Events)
    BY <1>3, <1>10 DEF Forward
  <2>2. wire' \in [Streams -> Seq(Events)]
    BY <1>10, <2>1 DEF TypeOK, Forward
  <2>3. CASE HasRoom(s)
    <3>1. /\ Append(buffer[s], Head(wire[s])) \in Seq(Events \cup {Heartbeat})
          /\ Len(Append(buffer[s], Head(wire[s]))) <= Buffer
      BY <1>3, <2>1, <2>3, StreamAssumption DEF HasRoom
    <3>2. buffer' = [buffer EXCEPT ![s] = Append(buffer[s], Head(wire[s]))]
          /\ UNCHANGED dropped
      BY <1>10, <2>3 DEF Forward, Enqueue
    <3>3. Channel
      BY <1>0, <3>1, <3>2
    <3>4. QED
      BY <1>2, <1>10, <2>2, <3>2, <3>3 DEF TypeOK, Forward, Channel
  <2>4. CASE ~HasRoom(s)
    <3>1. dropped' = [dropped EXCEPT ![s] = dropped[s] \cup {Head(wire[s])}] /\ UNCHANGED buffer
      BY <1>10, <2>4 DEF Forward
    <3>2. dropped' \in [Streams -> SUBSET Events]
      BY <2>1, <3>1 DEF TypeOK
    <3>3. QED
      BY <1>2, <1>10, <2>2, <3>1, <3>2 DEF TypeOK, Forward
  <2>5. QED
    BY <2>3, <2>4
<1>11. CASE Quit(s)
  BY <1>2, <1>11 DEF TypeOK, Quit
<1>12. CASE Write(s)
  <2>1. /\ Head(buffer[s]) \in Events \cup {Heartbeat}
        /\ Tail(buffer[s]) \in Seq(Events \cup {Heartbeat})
        /\ Len(Tail(buffer[s])) <= Buffer
    BY <1>3, <1>12, StreamAssumption DEF Write
  <2>2. buffer' = [buffer EXCEPT ![s] = Tail(buffer[s])]
    BY <1>12 DEF Write
  <2>3. shown' \in [Streams -> Seq(Events)]
    <3>1. CASE Head(buffer[s]) = Heartbeat
      BY <1>12, <3>1 DEF TypeOK, Write
    <3>2. CASE Head(buffer[s]) # Heartbeat
      <4>1. Append(shown[s], Head(buffer[s])) \in Seq(Events)
        BY <1>3, <2>1, <3>2
      <4>2. shown' = [shown EXCEPT ![s] = Append(shown[s], Head(buffer[s]))]
        BY <1>12, <3>2 DEF Write
      <4>3. QED
        BY <4>1, <4>2 DEF TypeOK
    <3>3. QED
      BY <3>1, <3>2
  <2>4. /\ handler' \in [Streams -> {"idle", "subscribing", "reading", "returned"}]
        /\ ctxDone' \in [Streams -> BOOLEAN] /\ unsubbed' \in [Streams -> BOOLEAN]
    BY <1>12 DEF TypeOK, Write, Return
  <2>5. Channel
    BY <1>0, <2>1, <2>2
  <2>6. QED
    BY <1>2, <1>12, <2>3, <2>4, <2>5 DEF TypeOK, Write, Channel
<1>13. CASE RangeEnds(s)
  BY <1>2, <1>13 DEF TypeOK, RangeEnds, Return
<1>14. QED
  BY <1>1, <1>4, <1>5, <1>6, <1>7, <1>8, <1>9, <1>10, <1>11, <1>12, <1>13

(***************************************************************************)
(* The inductive invariant of one stream.                                  *)
(***************************************************************************)

\* Every event since the subscription was shown, is under way or was dropped.
NothingLost(s) ==
  ~lost[s] /\ handler[s] = "reading" /\ Subscribed(s) =>
    since[s] + 1 .. Len(published)
      = InSeq(shown[s]) \cup (InSeq(buffer[s]) \ {Heartbeat}) \cup InSeq(wire[s])
          \cup dropped[s]

StreamInv(s) ==
  /\ handler[s] \in {"idle", "subscribing"} => broker[s] = "none"
  /\ broker[s] = "none" => /\ wire[s] = <<>> /\ buffer[s] = <<>>
                           /\ shown[s] = <<>> /\ dropped[s] = {}
  /\ InOrder(since[s], shown[s], buffer[s], wire[s])
  /\ NothingLost(s)

IInv == TypeOK /\ \A s \in Streams : StreamInv(s)

\* The types of one stream, in terms of numbers.
LEMMA StreamTyped ==
  ASSUME TypeOK, NEW s \in Streams
  PROVE  /\ Len(published) \in Nat
         /\ since[s] \in 0 .. Len(published) /\ since[s] \in Nat
         /\ shown[s] \in Seq(Nat) /\ buffer[s] \in Seq(Nat) /\ wire[s] \in Seq(Nat)
         /\ AllBefore(shown[s], Len(published) + 1)
         /\ AllBefore(buffer[s], Len(published) + 1)
         /\ AllBefore(wire[s], Len(published) + 1)
<1>1. Len(published) \in Nat
  BY DEF TypeOK
<1>2. Events \subseteq Nat /\ Events \cup {Heartbeat} \subseteq Nat
  BY <1>1 DEF Events, Heartbeat
<1>3. since[s] \in 0 .. Len(published) /\ since[s] \in Nat
  BY <1>1 DEF TypeOK
<1>4. /\ shown[s] \in Seq(Events) /\ buffer[s] \in Seq(Events \cup {Heartbeat})
      /\ wire[s] \in Seq(Events)
  BY DEF TypeOK
<1>5. shown[s] \in Seq(Nat) /\ buffer[s] \in Seq(Nat) /\ wire[s] \in Seq(Nat)
  <2>1. \A S, T : S \subseteq T => \A q \in Seq(S) : q \in Seq(T)
    OBVIOUS
  <2>2. QED
    BY <1>2, <1>4, <2>1
<1>6. \A q \in Seq(Events \cup {Heartbeat}) : AllBefore(q, Len(published) + 1)
  <2> SUFFICES ASSUME NEW q \in Seq(Events \cup {Heartbeat}), NEW i \in 1 .. Len(q)
               PROVE  Before(q[i], Len(published) + 1)
    BY DEF AllBefore
  <2>1. q[i] \in Events \cup {Heartbeat}
    OBVIOUS
  <2>2. QED
    BY <1>1, <2>1 DEF Events, Before
<1>7. shown[s] \in Seq(Events \cup {Heartbeat}) /\ wire[s] \in Seq(Events \cup {Heartbeat})
  BY <1>4
<1>8. QED
  BY <1>1, <1>3, <1>4, <1>5, <1>6, <1>7

\* Where nothing of a stream changes, nor what is published, its invariant stays.
LEMMA StreamUntouched ==
  ASSUME NEW s \in Streams, StreamInv(s), published' = published,
         handler'[s] = handler[s], broker'[s] = broker[s], since'[s] = since[s],
         wire'[s] = wire[s], buffer'[s] = buffer[s], unsubbed'[s] = unsubbed[s],
         shown'[s] = shown[s], dropped'[s] = dropped[s], lost'[s] = lost[s]
  PROVE  StreamInv(s)'
BY DEF StreamInv, NothingLost, Subscribed, InOrder, Rising, Ahead, After, Before, InSeq

\* The invariant holds at first.
LEMMA InitInv == Init => IInv
<1> SUFFICES ASSUME Init, NEW s \in Streams PROVE StreamInv(s)
  BY InitTypes DEF IInv
<1>1. InOrder(0, <<>>, <<>>, <<>>)
  BY DEF InOrder, Rising, Ahead, After
<1>2. /\ handler[s] = "idle" /\ broker[s] = "none" /\ since[s] = 0
      /\ wire[s] = <<>> /\ buffer[s] = <<>> /\ shown[s] = <<>> /\ dropped[s] = {}
  BY DEF Init
<1>3. InOrder(since[s], shown[s], buffer[s], wire[s])
  BY <1>1, <1>2, ZenonT(20)
<1>4. NothingLost(s)
  BY <1>2 DEF NothingLost
<1>5. QED
  BY <1>2, <1>3, <1>4 DEF StreamInv

\* A publication reaches the wire of every subscription.
LEMMA PublishInv ==
  ASSUME IInv, NEW type \in {"progress", "complete"}, Publish(type), NEW s \in Streams
  PROVE  StreamInv(s)'
<1> DEFINE n == Len(published)
<1>1. TypeOK /\ StreamInv(s) /\ TypeOK' /\ Len(published') = n + 1
  BY PublishTypes DEF IInv
<1>2. /\ n \in Nat /\ since[s] \in 0 .. n /\ since[s] \in Nat
      /\ shown[s] \in Seq(Nat) /\ buffer[s] \in Seq(Nat) /\ wire[s] \in Seq(Nat)
      /\ AllBefore(shown[s], n + 1) /\ AllBefore(buffer[s], n + 1) /\ AllBefore(wire[s], n + 1)
  BY <1>1, StreamTyped
<1>3. /\ UNCHANGED <<handler, broker, since, buffer, ctxDone, unsubbed, shown, dropped, lost>>
      /\ wire'[s] = IF Subscribed(s) THEN Append(wire[s], n + 1) ELSE wire[s]
  BY <1>1 DEF Publish
<1>4. Subscribed(s)' <=> Subscribed(s)
  BY <1>3 DEF Subscribed
<1> HIDE DEF n
<1>5. CASE ~Subscribed(s)
  BY <1>1, <1>3, <1>4, <1>5 DEF StreamInv, NothingLost
<1>6. CASE Subscribed(s)
  <2>1. n + 1 \in Nat /\ since[s] < n + 1
    BY <1>2
  <2>2. InOrder(since[s], shown[s], buffer[s], Append(wire[s], n + 1))
    BY <1>1, <1>2, <2>1, LineGrows DEF StreamInv
  <2>3. InSeq(Append(wire[s], n + 1)) = InSeq(wire[s]) \cup {n + 1}
    BY <1>2, <2>1, Elements
  <2>4. since[s] + 1 .. n + 1 = (since[s] + 1 .. n) \cup {n + 1}
    BY <1>2
  <2>5. NothingLost(s)'
    <3>1. SUFFICES ASSUME ~lost[s], handler[s] = "reading"
                   PROVE  since[s] + 1 .. n + 1
                            = InSeq(shown[s]) \cup (InSeq(buffer[s]) \ {Heartbeat})
                                \cup InSeq(Append(wire[s], n + 1)) \cup dropped[s]
      BY <1>1, <1>3, <1>6 DEF NothingLost
    <3>2. since[s] + 1 .. n = InSeq(shown[s]) \cup (InSeq(buffer[s]) \ {Heartbeat})
                                \cup InSeq(wire[s]) \cup dropped[s]
      BY <1>1, <1>6, <3>1 DEF StreamInv, NothingLost, n
    <3>3. QED
      BY <2>3, <2>4, <3>2
  <2>6. broker[s] # "none"
    BY <1>6 DEF Subscribed
  <2>7. QED
    BY <1>1, <1>3, <1>6, <2>2, <2>5, <2>6 DEF StreamInv
<1>7. QED
  BY <1>5, <1>6

\* A step of the stream itself.
LEMMA StepInv ==
  ASSUME IInv, NEW s \in Streams,
         \/ LoseWire(s) \/ Open(s) \/ Confirm(s) \/ Refuse(s) \/ Disconnect(s)
         \/ Beat(s) \/ Forward(s) \/ Quit(s) \/ Write(s) \/ RangeEnds(s)
  PROVE  StreamInv(s)'
<1>1. /\ TypeOK /\ StreamInv(s) /\ TypeOK' /\ UNCHANGED published
  BY StreamTypes DEF IInv
<1>2. /\ Len(published) \in Nat /\ since[s] \in Nat
      /\ shown[s] \in Seq(Nat) /\ buffer[s] \in Seq(Nat) /\ wire[s] \in Seq(Nat)
  BY <1>1, StreamTyped
<1>3. Heartbeat = 0 /\ Heartbeat \in Nat
  BY DEF Heartbeat
<1>4. CASE LoseWire(s)
  <2>1. /\ UNCHANGED <<handler, broker, since, buffer, shown, dropped, unsubbed>>
        /\ wire'[s] = <<>> /\ lost'[s]
    BY <1>1, <1>4 DEF LoseWire, TypeOK
  <2>2. InOrder(since[s], shown[s], buffer[s], <<>>)
    BY <1>1, <1>2, LineBeats DEF StreamInv
  <2>3. QED
    BY <1>1, <2>1, <2>2 DEF StreamInv, NothingLost
<1>5. CASE Open(s)
  <2>1. /\ UNCHANGED <<broker, since, wire, buffer, shown, dropped, unsubbed, lost>>
        /\ handler[s] = "idle" /\ handler'[s] = "subscribing"
    BY <1>1, <1>5 DEF Open, TypeOK
  <2>2. QED
    BY <1>1, <2>1 DEF StreamInv, NothingLost
<1>6. CASE Confirm(s)
  <2>1. /\ UNCHANGED <<wire, buffer, shown, dropped, unsubbed, lost>>
        /\ handler[s] = "subscribing" /\ handler'[s] = "reading"
        /\ broker'[s] = "running" /\ since'[s] = Len(published)
    BY <1>1, <1>6 DEF Confirm, TypeOK
  <2>2. wire[s] = <<>> /\ buffer[s] = <<>> /\ shown[s] = <<>> /\ dropped[s] = {}
    BY <1>1, <2>1 DEF StreamInv
  <2>3. InOrder(Len(published), <<>>, <<>>, <<>>)
    BY DEF InOrder, Rising, Ahead, After
  <2>4. Len(published) + 1 .. Len(published) = {} /\ InSeq(<<>>) = {}
    BY <1>2, <1>3, Elements
  <2>5. NothingLost(s)'
    BY <1>1, <2>1, <2>2, <2>4 DEF NothingLost
  <2>6. QED
    BY <2>1, <2>2, <2>3, <2>5 DEF StreamInv
<1>7. CASE Refuse(s)
  <2>1. /\ UNCHANGED <<broker, since, wire, buffer, shown, dropped, lost>>
        /\ handler'[s] = "returned"
    BY <1>1, <1>7 DEF Refuse, TypeOK
  <2>2. QED
    BY <1>1, <2>1 DEF StreamInv, NothingLost
<1>8. CASE Disconnect(s)
  <2>1. UNCHANGED <<handler, broker, since, wire, buffer, unsubbed, shown, dropped, lost>>
    BY <1>8 DEF Disconnect
  <2>2. QED
    BY <1>1, <2>1, StreamUntouched
<1>9. CASE Beat(s)
  <2>1. /\ UNCHANGED <<handler, broker, since, wire, shown, dropped, unsubbed, lost>>
        /\ broker[s] = "running" /\ buffer'[s] = Append(buffer[s], Heartbeat)
    BY <1>1, <1>9 DEF Beat, Enqueue, TypeOK
  <2>2. InOrder(since[s], shown[s], Append(buffer[s], Heartbeat), wire[s])
    BY <1>1, <1>2, LineBeats DEF StreamInv
  <2>3. InSeq(Append(buffer[s], Heartbeat)) = InSeq(buffer[s]) \cup {Heartbeat}
    BY <1>2, <1>3, Elements
  <2>4. NothingLost(s)'
    <3>1. InSeq(buffer'[s]) \ {Heartbeat} = InSeq(buffer[s]) \ {Heartbeat}
      BY <2>1, <2>3
    <3>2. QED
      BY <1>1, <2>1, <3>1 DEF StreamInv, NothingLost, Subscribed, InSeq
  <2>5. QED
    BY <1>1, <2>1, <2>2, <2>4 DEF StreamInv
<1>10. CASE Forward(s)
  <2> DEFINE h == Head(wire[s])
  <2>1. /\ UNCHANGED <<handler, broker, since, shown, unsubbed, lost>>
        /\ broker[s] = "running" /\ wire[s] # <<>> /\ wire'[s] = Tail(wire[s])
    BY <1>1, <1>10 DEF Forward, TypeOK
  <2>2. /\ InOrder(since[s], shown[s], Append(buffer[s], h), Tail(wire[s]))
        /\ InOrder(since[s], shown[s], buffer[s], Tail(wire[s]))
    BY <1>1, <1>2, <2>1, LineForwards DEF StreamInv
  <2>3. h \in Nat /\ h # Heartbeat
    <3>1. wire[s] \in Seq(Events)
      BY <1>1 DEF TypeOK
    <3>2. h \in Events
      BY <2>1, <3>1
    <3>3. QED
      BY <1>2, <3>2 DEF Events, Heartbeat
  <2>4. /\ InSeq(wire[s]) = {h} \cup InSeq(Tail(wire[s]))
        /\ InSeq(Append(buffer[s], h)) = InSeq(buffer[s]) \cup {h}
    BY <1>2, <2>1, <2>3, Elements
  <2>5. /\ (Subscribed(s)' <=> Subscribed(s)) /\ UNCHANGED <<lost, handler, published>>
        /\ lost'[s] = lost[s] /\ handler'[s] = handler[s]
    BY <1>1, <2>1 DEF Subscribed
  <2>6. CASE HasRoom(s)
    <3>1. buffer'[s] = Append(buffer[s], h) /\ UNCHANGED dropped
      BY <1>1, <1>10, <2>6 DEF Forward, Enqueue, TypeOK
    <3> HIDE DEF h
    <3>2. (InSeq(buffer'[s]) \ {Heartbeat}) \cup InSeq(wire'[s])
            = (InSeq(buffer[s]) \ {Heartbeat}) \cup InSeq(wire[s])
      BY <2>1, <2>3, <2>4, <3>1
    <3>3. InSeq(shown[s])' = InSeq(shown[s])
      BY <2>1 DEF InSeq
    <3>4. NothingLost(s)'
      <4>1. ASSUME ~lost[s], handler[s] = "reading", Subscribed(s)
            PROVE  since[s] + 1 .. Len(published)
                     = InSeq(shown[s]) \cup (InSeq(buffer'[s]) \ {Heartbeat})
                         \cup InSeq(wire'[s]) \cup dropped[s]
        <5>1. since[s] + 1 .. Len(published)
                = InSeq(shown[s]) \cup (InSeq(buffer[s]) \ {Heartbeat})
                    \cup InSeq(wire[s]) \cup dropped[s]
          BY <1>1, <4>1 DEF StreamInv, NothingLost
        <5>2. QED
          BY <3>2, <5>1
      <4>2. QED
        BY <1>1, <2>1, <2>5, <3>1, <4>1 DEF NothingLost
    <3>5. QED
      BY <1>1, <2>1, <2>2, <3>1, <3>4 DEF StreamInv
  <2>7. CASE ~HasRoom(s)
    <3>1. dropped'[s] = dropped[s] \cup {h} /\ UNCHANGED buffer
      BY <1>1, <1>10, <2>7 DEF Forward, TypeOK
    <3> HIDE DEF h
    <3>2. InSeq(wire'[s]) \cup dropped'[s] = InSeq(wire[s]) \cup dropped[s]
      BY <2>1, <2>4, <3>1
    <3>3. NothingLost(s)'
      <4>1. ASSUME ~lost[s], handler[s] = "reading", Subscribed(s)
            PROVE  since[s] + 1 .. Len(published)
                     = InSeq(shown[s]) \cup (InSeq(buffer[s]) \ {Heartbeat})
                         \cup InSeq(wire'[s]) \cup dropped'[s]
        <5>1. since[s] + 1 .. Len(published)
                = InSeq(shown[s]) \cup (InSeq(buffer[s]) \ {Heartbeat})
                    \cup InSeq(wire[s]) \cup dropped[s]
          BY <1>1, <4>1 DEF StreamInv, NothingLost
        <5>2. QED
          BY <3>2, <5>1
      <4>2. QED
        BY <1>1, <2>1, <2>5, <3>1, <4>1 DEF NothingLost
    <3>4. QED
      BY <1>1, <2>1, <2>2, <3>1, <3>3 DEF StreamInv
  <2>8. QED
    BY <2>6, <2>7
<1>11. CASE Quit(s)
  <2>1. /\ UNCHANGED <<handler, since, wire, buffer, shown, dropped, lost>>
        /\ broker[s] = "running" /\ broker'[s] = "ended"
    BY <1>1, <1>11 DEF Quit, TypeOK
  <2>2. QED
    BY <1>1, <2>1 DEF StreamInv, NothingLost, Subscribed
<1>12. CASE Write(s)
  <2> DEFINE h == Head(buffer[s])
  <2>1. /\ UNCHANGED <<broker, since, wire, dropped, lost>>
        /\ handler[s] = "reading" /\ buffer[s] # <<>> /\ buffer'[s] = Tail(buffer[s])
        /\ shown'[s] = IF h = Heartbeat THEN shown[s] ELSE Append(shown[s], h)
    BY <1>1, <1>12 DEF Write, TypeOK
  <2>2. broker[s] # "none"
    BY <1>1, <2>1 DEF StreamInv
  <2>3. /\ InOrder(since[s], shown[s], Tail(buffer[s]), wire[s])
        /\ InOrder(since[s], Append(shown[s], h), Tail(buffer[s]), wire[s])
    BY <1>1, <1>2, <2>1, LineShows DEF StreamInv
  <2>4. h \in Nat
    BY <1>2, <1>3, <2>1, Elements
  <2>5. /\ InSeq(buffer[s]) = {h} \cup InSeq(Tail(buffer[s]))
        /\ InSeq(Append(shown[s], h)) = InSeq(shown[s]) \cup {h}
    BY <1>2, <2>1, <2>4, Elements
  <2>6. /\ handler'[s] = "returned" \/ (handler'[s] = "reading" /\ unsubbed'[s] = unsubbed[s])
    BY <1>1, <1>12, <2>1 DEF Write, Return, TypeOK
  <2> HIDE DEF h
  <2>7. InSeq(shown'[s]) \cup (InSeq(buffer'[s]) \ {Heartbeat})
          = InSeq(shown[s]) \cup (InSeq(buffer[s]) \ {Heartbeat})
    <3>1. CASE h = Heartbeat
      BY <2>1, <2>5, <3>1
    <3>2. CASE h # Heartbeat
      BY <2>1, <2>5, <3>2
    <3>3. QED
      BY <3>1, <3>2
  <2>8. NothingLost(s)'
    <3>1. CASE handler'[s] = "returned"
      BY <3>1 DEF NothingLost
    <3>2. CASE handler'[s] = "reading" /\ unsubbed'[s] = unsubbed[s]
      <4>1. Subscribed(s)' <=> Subscribed(s)
        BY <2>1, <3>2 DEF Subscribed
      <4>2. ASSUME ~lost[s], Subscribed(s)
            PROVE  since[s] + 1 .. Len(published)
                     = InSeq(shown'[s]) \cup (InSeq(buffer'[s]) \ {Heartbeat})
                         \cup InSeq(wire[s]) \cup dropped[s]
        <5>1. since[s] + 1 .. Len(published)
                = InSeq(shown[s]) \cup (InSeq(buffer[s]) \ {Heartbeat})
                    \cup InSeq(wire[s]) \cup dropped[s]
          BY <1>1, <2>1, <4>2 DEF StreamInv, NothingLost
        <5>2. QED
          BY <2>7, <5>1
      <4>3. QED
        BY <1>1, <2>1, <4>1, <4>2 DEF NothingLost
    <3>3. QED
      BY <2>6, <3>1, <3>2
  <2>9. InOrder(since[s], shown'[s], buffer'[s], wire[s])
    BY <2>1, <2>3
  <2>10. QED
    BY <2>1, <2>2, <2>6, <2>8, <2>9 DEF StreamInv
<1>13. CASE RangeEnds(s)
  <2>1. /\ UNCHANGED <<broker, since, wire, buffer, shown, dropped, lost>>
        /\ handler'[s] = "returned"
    BY <1>1, <1>13 DEF RangeEnds, Return, TypeOK
  <2>2. QED
    BY <1>1, <2>1 DEF StreamInv, NothingLost
<1>14. QED
  BY <1>4, <1>5, <1>6, <1>7, <1>8, <1>9, <1>10, <1>11, <1>12, <1>13

\* The invariant holds in every reachable state.
LEMMA Invariant == Spec => []IInv
<1>1. Init => IInv
  BY InitInv
<1>2. IInv /\ [Next]_vars => IInv'
  <2> SUFFICES ASSUME IInv, [Next]_vars PROVE IInv'
    OBVIOUS
  <2>1. ASSUME NEW type \in {"progress", "complete"}, Publish(type) PROVE IInv'
    BY <2>1, PublishTypes, PublishInv DEF IInv
  <2>2. ASSUME NEW s \in Streams,
               \/ LoseWire(s) \/ Open(s) \/ Confirm(s) \/ Refuse(s) \/ Disconnect(s)
               \/ Beat(s) \/ Forward(s) \/ Quit(s) \/ Write(s) \/ RangeEnds(s)
        PROVE  IInv'
    <3>1. TypeOK /\ TypeOK' /\ UNCHANGED published
      BY <2>2, StreamTypes DEF IInv
    <3>2. ASSUME NEW t \in Streams, t # s PROVE StreamInv(t)'
      <4>1. /\ handler'[t] = handler[t] /\ broker'[t] = broker[t] /\ since'[t] = since[t]
            /\ wire'[t] = wire[t] /\ buffer'[t] = buffer[t] /\ unsubbed'[t] = unsubbed[t]
            /\ shown'[t] = shown[t] /\ dropped'[t] = dropped[t] /\ lost'[t] = lost[t]
        <5>1. CASE LoseWire(s) \/ Open(s) \/ Confirm(s) \/ Refuse(s) \/ Disconnect(s)
          BY <3>1, <3>2, <5>1 DEF TypeOK, LoseWire, Open, Confirm, Refuse, Disconnect
        <5>2. CASE Beat(s) \/ Forward(s)
          BY <3>1, <3>2, <5>2 DEF TypeOK, Beat, Forward
        <5>3. CASE Quit(s) \/ Write(s) \/ RangeEnds(s)
          BY <3>1, <3>2, <5>3 DEF TypeOK, Quit, Write, RangeEnds, Return
        <5>4. QED
          BY <2>2, <5>1, <5>2, <5>3
      <4>2. StreamInv(t)
        BY DEF IInv
      <4>3. QED
        BY <3>1, <4>1, <4>2, StreamUntouched
    <3>3. StreamInv(s)'
      BY <2>2, StepInv
    <3>4. QED
      BY <3>1, <3>2, <3>3 DEF IInv
  <2>3. CASE UNCHANGED vars
    <3>1. TypeOK'
      BY <2>3 DEF IInv, TypeOK, Events, vars
    <3>2. ASSUME NEW s \in Streams PROVE StreamInv(s)'
      BY <2>3, StreamUntouched DEF IInv, vars
    <3>3. QED
      BY <3>1, <3>2 DEF IInv
  <2>4. QED
    BY <2>1, <2>2, <2>3 DEF Next
<1>3. QED
  BY <1>1, <1>2, PTL DEF Spec

(***************************************************************************)
(* The theorems.                                                           *)
(***************************************************************************)

\* The channel between the goroutine and the handler never holds more than its
\* capacity, and nothing is under way that was not published.
THEOREM TypeCorrect == Spec => []TypeOK
<1>1. IInv => TypeOK
  BY DEF IInv
<1>2. QED
  BY <1>1, Invariant, PTL

\* Subscribe and Stream show every viewer the events in the order they were
\* published in, and none twice.
THEOREM OrderIsKept == Spec => []OrderKept
<1>1. IInv => OrderKept
  <2> SUFFICES ASSUME IInv, NEW s \in Streams
               PROVE  LET line == shown[s] \o buffer[s] \o wire[s]
                      IN \A i, j \in 1 .. Len(line) :
                           i < j /\ line[i] # Heartbeat /\ line[j] # Heartbeat =>
                             line[i] < line[j]
    BY DEF OrderKept
  <2>1. /\ since[s] \in Nat /\ shown[s] \in Seq(Nat) /\ buffer[s] \in Seq(Nat)
        /\ wire[s] \in Seq(Nat)
    BY StreamTyped DEF IInv
  <2>2. InOrder(since[s], shown[s], buffer[s], wire[s])
    BY DEF IInv, StreamInv
  <2>3. QED
    BY <2>1, <2>2, LineIsOrdered
<1>2. QED
  BY <1>1, Invariant, PTL

\* While the connection to Redis lasts, an open stream loses an event only to a
\* full channel.
THEOREM NothingElseIsLost == Spec => []NothingElseLost
<1>1. IInv => NothingElseLost
  BY DEF IInv, StreamInv, NothingLost, NothingElseLost
<1>2. QED
  BY <1>1, Invariant, PTL

=============================================================================
