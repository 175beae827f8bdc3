----------------------------- MODULE WireProofs -----------------------------
(***************************************************************************)
(* Theorems about the sending side of the wire, for any number of packages,*)
(* broken connections and restarts.                                        *)
(***************************************************************************)
EXTENDS SocketWire, SequenceTheorems, TLAPS

-----------------------------------------------------------------------------
(* Sequences of consecutive numbers *)

Numbers(m, n) == [k \in 1 .. n - m + 1 |-> m + k - 1]

LEMMA NumbersAre ==
    ASSUME NEW m \in Nat, NEW n \in Nat, m <= n + 1
    PROVE  /\ Numbers(m, n) \in Seq(Nat)
           /\ Len(Numbers(m, n)) = n - m + 1
           /\ \A k \in 1 .. n - m + 1 : Numbers(m, n)[k] = m + k - 1
BY DEF Numbers

\* A sequence is known from its elements.
LEMMA SameElements ==
    ASSUME NEW s \in Seq(Nat), NEW t \in Seq(Nat), Len(s) = Len(t),
           \A k \in 1 .. Len(s) : s[k] = t[k]
    PROVE  s = t
OBVIOUS

LEMMA Concatenated ==
    ASSUME NEW p \in Seq(Nat), NEW q \in Seq(Nat), NEW d \in Seq(Nat), NEW c \in Nat,
           \A k \in 1 .. Len(p) : p[k] = c + k - 1,
           \A k \in 1 .. Len(q) : q[k] = c + Len(p) + k - 1,
           \A k \in 1 .. Len(d) : d[k] = c + Len(p) + Len(q) + k - 1
    PROVE  p \o q \o d = Numbers(c, c + Len(p) + Len(q) + Len(d) - 1)
<1> DEFINE s == p \o q \o d
           n == Len(p) + Len(q) + Len(d)
<1>1. s \in Seq(Nat) /\ Len(s) = n
  OBVIOUS
<1>2. \A k \in 1 .. n : s[k] = c + k - 1
  OBVIOUS
<1>3. Numbers(c, c + n - 1) = [k \in 1 .. n |-> c + k - 1]
  <2>1. c + n - 1 - c + 1 = n
    OBVIOUS
  <2> QED
    BY <2>1 DEF Numbers
<1>4. s = [k \in 1 .. n |-> c + k - 1]
  <2> DEFINE t == [k \in 1 .. n |-> c + k - 1]
  <2>1. t \in Seq(Nat) /\ Len(t) = n
    OBVIOUS
  <2> HIDE DEF s, n
  <2>2. \A k \in 1 .. n : t[k] = c + k - 1
    OBVIOUS
  <2> HIDE DEF t
  <2> QED
    BY <1>1, <1>2, <2>1, <2>2, SameElements
<1> QED
  BY <1>3, <1>4

LEMMA NumbersGrow ==
    ASSUME NEW m \in Nat, NEW n \in Nat, m <= n + 1
    PROVE  Append(Numbers(m, n), n + 1) = Numbers(m, n + 1)
<1>0. /\ Numbers(m, n) \in Seq(Nat) /\ Len(Numbers(m, n)) = n - m + 1
      /\ \A k \in 1 .. n - m + 1 : Numbers(m, n)[k] = m + k - 1
  BY NumbersAre
<1> DEFINE s == Append(Numbers(m, n), n + 1)
<1>1. /\ s \in Seq(Nat) /\ Len(s) = n - m + 2
      /\ \A k \in 1 .. n - m + 2 : s[k] = m + k - 1
  BY <1>0
<1>2. /\ Numbers(m, n + 1) \in Seq(Nat) /\ Len(Numbers(m, n + 1)) = n - m + 2
      /\ \A k \in 1 .. n - m + 2 : Numbers(m, n + 1)[k] = m + k - 1
  <2>1. n + 1 \in Nat /\ m <= n + 1 + 1 /\ n + 1 - m + 1 = n - m + 2
    OBVIOUS
  <2> QED
    BY <2>1, NumbersAre
<1> HIDE DEF s
<1>3. s = Numbers(m, n + 1)
  BY <1>1, <1>2, SameElements
<1> QED
  BY <1>3 DEF s

LEMMA NumbersDrop ==
    ASSUME NEW m \in Nat, NEW n \in Nat, NEW a \in Nat, m + a <= n + 1
    PROVE  SubSeq(Numbers(m, n), a + 1, Len(Numbers(m, n))) = Numbers(m + a, n)
<1> m <= n + 1
  OBVIOUS
<1>0. /\ Numbers(m, n) \in Seq(Nat) /\ Len(Numbers(m, n)) = n - m + 1
      /\ \A k \in 1 .. n - m + 1 : Numbers(m, n)[k] = m + k - 1
  BY NumbersAre
<1> DEFINE s == Numbers(m, n)
           t == SubSeq(s, a + 1, Len(s))
<1>1. /\ s \in Seq(Nat) /\ Len(s) = n - m + 1
      /\ \A k \in 1 .. n - m + 1 : s[k] = m + k - 1
  BY <1>0
<1> HIDE DEF s
<1>2. /\ t \in Seq(Nat) /\ Len(t) = n - m + 1 - a
      /\ \A k \in 1 .. n - m + 1 - a : t[k] = m + a + k - 1
  BY <1>1
<1>3. /\ Numbers(m + a, n) \in Seq(Nat) /\ Len(Numbers(m + a, n)) = n - m + 1 - a
      /\ \A k \in 1 .. n - m + 1 - a : Numbers(m + a, n)[k] = m + a + k - 1
  <2>1. m + a \in Nat /\ m + a <= n + 1 /\ n - (m + a) + 1 = n - m + 1 - a
    OBVIOUS
  <2> QED
    BY <2>1, NumbersAre
<1> HIDE DEF t
<1>4. t = Numbers(m + a, n)
  BY <1>2, <1>3, SameElements
<1> QED
  BY <1>4 DEF t, s

-----------------------------------------------------------------------------
(* Types *)

LEMMA DropIs ==
    ASSUME NEW S, NEW s \in Seq(S), NEW n \in 0 .. Len(s)
    PROVE  /\ Drop(s, n) \in Seq(S) /\ Len(Drop(s, n)) = Len(s) - n
           /\ \A k \in 1 .. Len(s) - n : Drop(s, n)[k] = s[n + k]
BY DEF Drop

\* What resume() sends again is the pending packages that stay.
LEMMA NumbersFromIs ==
    ASSUME NEW n \in Nat, NEW s \in Seq(Nat)
    PROVE  /\ NumbersFrom(n, s) \in Seq([seqn : Nat, put : Nat])
           /\ Len(NumbersFrom(n, s)) = Len(s)
           /\ \A k \in 1 .. Len(s) :
                NumbersFrom(n, s)[k] = [seqn |-> n + k - 1, put |-> s[k]]
<1> DEFINE T == [seqn : Nat, put : Nat]
<1>1. \A k \in 1 .. Len(s) : Package(n + k - 1, s[k]) \in T
  BY DEF Package
<1> HIDE DEF T
<1>2. NumbersFrom(n, s) \in Seq(T) /\ Len(NumbersFrom(n, s)) = Len(s)
  BY <1>1 DEF NumbersFrom
<1>3. \A k \in 1 .. Len(s) :
        NumbersFrom(n, s)[k] = [seqn |-> n + k - 1, put |-> s[k]]
  BY DEF NumbersFrom, Package
<1> QED
  BY <1>2, <1>3 DEF T

Wired == [seqn : Nat, put : Nat]

\* The buffer is paused but while a connection is resumed and not yet paused.
PausedUnlessUp == balance = IF conn \in {"up", "ended"} THEN 0 ELSE 1

\* Pending, queue and data hold the numbers from current on, each where the one
\* before it ends.
Consecutive ==
    /\ maxSent = current + Len(pending) - 1
    /\ puts = maxSent + Len(queue) + Len(data)
    /\ \A k \in 1 .. Len(pending) : pending[k] = current + k - 1
    /\ \A k \in 1 .. Len(queue) : queue[k] = maxSent + k
    /\ \A k \in 1 .. Len(data) : data[k] = maxSent + Len(queue) + k

\* What is under way was sent, under its own number.
UnderWay ==
    /\ acknowledged <= maxSent
    /\ \A k \in 1 .. Len(acks) : acks[k] \in 1 .. maxSent
    /\ \A k \in 1 .. Len(wire) :
         wire[k].seqn = wire[k].put /\ wire[k].seqn \in 1 .. maxSent

WireInv ==
    /\ TypeOK
    /\ PausedUnlessUp
    /\ Consecutive
    /\ UnderWay

LEMMA TypesAre ==
    ASSUME TypeOK
    PROVE  /\ data \in Seq(Nat) /\ queue \in Seq(Nat) /\ pending \in Seq(Nat)
           /\ acks \in Seq(Nat) /\ dispatched \in Seq(Nat) /\ wire \in Seq(Wired)
           /\ maxSent \in Nat /\ acknowledged \in Nat /\ puts \in Nat
           /\ maxReceived \in Nat /\ current \in Nat \ {0}
<1>1. data \in Seq(Nat) /\ queue \in Seq(Nat) /\ pending \in Seq(Nat)
      /\ acks \in Seq(Nat) /\ dispatched \in Seq(Nat)
  BY DEF TypeOK
<1>2. maxSent \in Nat /\ acknowledged \in Nat /\ puts \in Nat /\ maxReceived \in Nat
  BY DEF TypeOK
<1>3. wire \in Seq(Wired) /\ current \in Nat \ {0}
  BY DEF TypeOK, Wired
<1> QED
  BY <1>1, <1>2, <1>3

LEMMA AckedIs ==
    ASSUME WireInv
    PROVE  /\ Acked \in 0 .. Len(pending)
           /\ Acked > 0 => current + Acked - 1 = acknowledged
<1>1. current \in Nat \ {0} /\ acknowledged \in Nat /\ maxSent \in Nat
      /\ Len(pending) \in Nat
  BY TypesAre DEF WireInv
<1>2. maxSent = current + Len(pending) - 1 /\ acknowledged <= maxSent
  BY DEF WireInv, Consecutive, UnderWay
<1> QED
  BY <1>1, <1>2 DEF Acked

LEMMA ResentIs ==
    ASSUME WireInv
    PROVE  /\ Resent \in Seq(Wired)
           /\ \A k \in 1 .. Len(Resent) :
                Resent[k].seqn = Resent[k].put /\ Resent[k].seqn \in 1 .. maxSent
           /\ Len(Resent) = Len(pending) - Acked
           /\ \A k \in 1 .. Len(Resent) : Resent[k].seqn = current + Acked + k - 1
<1> DEFINE s == Drop(pending, Acked)
           n == current + Acked
<1>1. Acked \in 0 .. Len(pending) /\ current \in Nat \ {0} /\ pending \in Seq(Nat)
  BY AckedIs, TypesAre DEF WireInv
<1>2. /\ s \in Seq(Nat) /\ Len(s) = Len(pending) - Acked
      /\ \A k \in 1 .. Len(pending) - Acked : s[k] = pending[Acked + k]
  BY <1>1, DropIs
<1>3. \A k \in 1 .. Len(s) : s[k] = n + k - 1 /\ n + k - 1 \in 1 .. maxSent
  <2>1. maxSent = current + Len(pending) - 1
        /\ \A k \in 1 .. Len(pending) : pending[k] = current + k - 1
    BY DEF WireInv, Consecutive
  <2>2. Len(pending) \in Nat
    BY <1>1
  <2> HIDE DEF s
  <2> TAKE k \in 1 .. Len(s)
  <2>3. /\ k \in 1 .. Len(pending) - Acked
        /\ Acked + k \in 1 .. Len(pending)
    BY <1>1, <1>2, <2>2
  <2>4. s[k] = pending[Acked + k]
    BY <1>2, <2>3
  <2>5. pending[Acked + k] = current + (Acked + k) - 1
    BY <2>1, <2>3
  <2> QED
    BY <1>1, <2>1, <2>2, <2>3, <2>4, <2>5
<1>4. n \in Nat
  BY <1>1
<1> HIDE DEF s, n
<1>5. /\ NumbersFrom(n, s) \in Seq(Wired) /\ Len(NumbersFrom(n, s)) = Len(s)
      /\ \A k \in 1 .. Len(s) :
           NumbersFrom(n, s)[k] = [seqn |-> n + k - 1, put |-> s[k]]
  BY <1>2, <1>4, NumbersFromIs DEF Wired
<1>6. Resent = NumbersFrom(n, s)
  BY DEF Resent, n, s
<1>7. \A k \in 1 .. Len(s) : Resent[k].seqn = n + k - 1 /\ Resent[k].put = s[k]
  <2> TAKE k \in 1 .. Len(s)
  <2>1. Resent[k] = [seqn |-> n + k - 1, put |-> s[k]]
    BY <1>5, <1>6
  <2> QED
    BY ONLY <2>1
<1>8. \A k \in 1 .. Len(s) : Resent[k].seqn = current + Acked + k - 1
  BY <1>7 DEF n
<1>9. Resent \in Seq(Wired) /\ Len(Resent) = Len(s)
  BY <1>5, <1>6
<1>10. \A k \in 1 .. Len(s) :
         Resent[k].seqn = Resent[k].put /\ Resent[k].seqn \in 1 .. maxSent
  <2> TAKE k \in 1 .. Len(s)
  <2>1. s[k] = n + k - 1 /\ n + k - 1 \in 1 .. maxSent
    BY <1>3
  <2>2. Resent[k].seqn = n + k - 1 /\ Resent[k].put = s[k]
    BY <1>7
  <2> QED
    BY ONLY <2>1, <2>2
<1>11. Len(s) = Len(pending) - Acked
  BY <1>2
<1> QED
  BY ONLY <1>8, <1>9, <1>10, <1>11

LEMMA WireInitInv ==
    ASSUME Init
    PROVE  WireInv
<1>1. wire = <<>> /\ data = <<>> /\ queue = <<>> /\ pending = <<>> /\ acks = <<>>
      /\ dispatched = <<>>
  BY DEF Init
<1>2. <<>> \in Seq(Nat) /\ <<>> \in Seq([seqn : Nat, put : Nat])
  OBVIOUS
<1>3. TypeOK
  <2>1. {data, queue, pending, acks, dispatched} \subseteq Seq(Nat)
    BY <1>1, <1>2
  <2>2. wire \in Seq([seqn : Nat, put : Nat])
    BY <1>1, <1>2
  <2>3. {maxSent, acknowledged, maxReceived, puts, breaks, restarts} \subseteq Nat
    BY DEF Init
  <2>4. {linkUp, garbled, pausedSend} \subseteq BOOLEAN
    BY Zenon DEF Init
  <2>5. /\ state = "AsyncProcessing" /\ thread = "waiting" /\ conn = "down"
        /\ current \in Nat \ {0} /\ balance = 1 /\ reader = "idle"
    BY DEF Init
  <2> QED
    BY <2>1, <2>2, <2>3, <2>4, <2>5 DEF TypeOK, StateKind
<1>4. PausedUnlessUp
  BY DEF Init, PausedUnlessUp
<1>5. Len(<<>>) = 0
  OBVIOUS
<1>6. Consecutive /\ UnderWay
  BY <1>1, <1>5 DEF Init, Consecutive, UnderWay
<1> QED
  BY <1>3, <1>4, <1>6 DEF WireInv

\* What Transmit puts on the wire joins what is there, or is lost.
LEMMA TransmitIs ==
    ASSUME NEW b, b \in Seq(Wired), wire \in Seq(Wired), Transmit(b),
           NEW m \in Nat,
           \A k \in 1 .. Len(b) : b[k].seqn = b[k].put /\ b[k].seqn \in 1 .. m,
           \A k \in 1 .. Len(wire) :
             wire[k].seqn = wire[k].put /\ wire[k].seqn \in 1 .. m
    PROVE  /\ wire' \in Seq(Wired)
           /\ \A k \in 1 .. Len(wire') :
                wire'[k].seqn = wire'[k].put /\ wire'[k].seqn \in 1 .. m
<1>1. CASE ~linkUp
  BY <1>1 DEF Transmit
<1>2. CASE linkUp
  <2>1. wire' = wire \o b
    BY <1>2 DEF Transmit
  <2> HIDE DEF Wired
  <2>2. wire' \in Seq(Wired) /\ Len(wire') = Len(wire) + Len(b)
    BY <2>1
  <2>3. \A k \in 1 .. Len(wire') :
          \/ k \in 1 .. Len(wire) /\ wire'[k] = wire[k]
          \/ k - Len(wire) \in 1 .. Len(b) /\ wire'[k] = b[k - Len(wire)]
    BY <2>1
  <2> QED
    BY <2>2, <2>3
<1> QED
  BY <1>1, <1>2

-----------------------------------------------------------------------------
(* Every step keeps the invariant *)

Places ==
    /\ state \in StateKind
    /\ thread \in {"waiting", "taken", "processing", "returned"}
    /\ conn \in {"down", "switched", "up", "ended"}
    /\ reader \in {"idle", "up"}
    /\ balance \in {0, 1}
    /\ linkUp \in BOOLEAN /\ garbled \in BOOLEAN /\ pausedSend \in BOOLEAN

Counts ==
    /\ maxSent \in Nat /\ acknowledged \in Nat /\ maxReceived \in Nat
    /\ puts \in Nat /\ breaks \in Nat /\ restarts \in Nat
    /\ current \in Nat \ {0}

Queues ==
    /\ data \in Seq(Nat) /\ queue \in Seq(Nat) /\ pending \in Seq(Nat)
    /\ acks \in Seq(Nat) /\ dispatched \in Seq(Nat) /\ wire \in Seq(Wired)

LEMMA TypeParts ==
    TypeOK <=> Places /\ Counts /\ Queues
<1>1. ASSUME TypeOK PROVE Places
  BY <1>1, Zenon DEF TypeOK, Places
<1>2. ASSUME TypeOK PROVE Counts
  <2>1. breaks \in Nat /\ restarts \in Nat
    BY <1>2 DEF TypeOK
  <2> QED
    BY <1>2, <2>1, TypesAre DEF Counts
<1>3. ASSUME TypeOK PROVE Queues
  BY <1>3, TypesAre DEF Queues
<1>4. ASSUME Places, Counts, Queues PROVE TypeOK
  <2>1. {data, queue, pending, acks, dispatched} \subseteq Seq(Nat)
    BY <1>4 DEF Queues
  <2>2. wire \in Seq([seqn : Nat, put : Nat])
    BY <1>4 DEF Queues, Wired
  <2>3. {maxSent, acknowledged, maxReceived, puts, breaks, restarts} \subseteq Nat
        /\ current \in Nat \ {0}
    BY <1>4 DEF Counts
  <2>4. {linkUp, garbled, pausedSend} \subseteq BOOLEAN
    BY <1>4, Zenon DEF Places
  <2> QED
    BY <1>4, <2>1, <2>2, <2>3, <2>4 DEF TypeOK, Places
<1> QED
  BY <1>1, <1>2, <1>3, <1>4

LEMMA PlacesStep ==
    ASSUME Places, PausedUnlessUp, [Next]_vars
    PROVE  Places' /\ PausedUnlessUp'
<1> USE DEF Places, PausedUnlessUp
<1>1. CASE Put
  BY <1>1, SMTT(30) DEF Put, link, receiver
<1>2. CASE Stop
  BY <1>2, SMTT(30) DEF Stop, link, receiver, StateKind
<1>3. CASE CleanUp
  BY <1>3, SMTT(30) DEF CleanUp, link, receiver, StateKind
<1>4. CASE TakeData
  BY <1>4, SMTT(30) DEF TakeData, link, receiver
<1>5. CASE ProcessOne
  BY <1>5, SMTT(30) DEF ProcessOne, receiver
<1>6. CASE ProcessEnds
  BY <1>6, SMTT(30) DEF ProcessEnds, link, receiver
<1>7. CASE ThreadReturns
  BY <1>7, SMTT(30) DEF ThreadReturns, link, receiver
<1>8. CASE Connect
  BY <1>8, SMTT(30) DEF Connect
<1>9. CASE Resume
  BY <1>9, SMTT(30) DEF Resume, receiver
<1>10. CASE GivesUp
  <2>1. linkUp' \in BOOLEAN
    BY <1>10, Zenon DEF GivesUp
  <2> QED
    BY <1>10, <2>1, SMTT(30) DEF GivesUp, receiver
<1>11. CASE ReceiveAck
  BY <1>11, SMTT(30) DEF ReceiveAck, receiver
<1>12. CASE SeesEnd
  BY <1>12, SMTT(30) DEF SeesEnd, link, receiver
<1>13. CASE Pause
  BY <1>13, SMTT(30) DEF Pause, link, receiver
<1>14. CASE ReadPackage
  <2>1. garbled' \in BOOLEAN
    BY <1>14 DEF ReadPackage
  <2> QED
    BY <1>14, <2>1, SMTT(30) DEF ReadPackage, sender
<1>15. CASE ReaderSeesEnd
  BY <1>15, SMTT(30) DEF ReaderSeesEnd, sender, link
<1>16. CASE Break
  <2>1. linkUp' \in BOOLEAN
    BY <1>16, Zenon DEF Break
  <2> QED
    BY <1>16, <2>1, SMTT(30) DEF Break, sender, receiver
<1>17. CASE Restart
  <2>1. linkUp' \in BOOLEAN /\ pausedSend' \in BOOLEAN /\ garbled' = garbled
    BY <1>17, Zenon DEF Restart
  <2>2. /\ state' = "AsyncProcessing" /\ thread' = "waiting" /\ conn' = "down"
        /\ balance' = 1 /\ reader' = reader
    BY <1>17 DEF Restart
  <2> QED
    BY <2>1, <2>2 DEF StateKind
<1>18. CASE UNCHANGED vars
  BY <1>18, SMTT(30) DEF vars, sender, link, receiver
<1> QED
  BY <1>1, <1>2, <1>3, <1>4, <1>5, <1>6, <1>7, <1>8, <1>9, <1>10, <1>11,
     <1>12, <1>13, <1>14, <1>15, <1>16, <1>17, <1>18
     DEF Next, BufferThread, ConnThread, Counterpart

Numbered == Counts /\ Queues /\ Consecutive /\ UnderWay

\* What is put goes to the end of data, under the next number.
LEMMA PutKeeps ==
    ASSUME Numbered, Put
    PROVE  Numbered'
<1> USE DEF Numbered
<1>1. /\ puts' = puts + 1 /\ data' = Append(data, puts + 1)
      /\ queue' = queue /\ pending' = pending /\ maxSent' = maxSent
      /\ current' = current /\ acknowledged' = acknowledged
      /\ wire' = wire /\ acks' = acks /\ breaks' = breaks
      /\ maxReceived' = maxReceived /\ dispatched' = dispatched
      /\ restarts' = restarts
  BY DEF Put, link, receiver
<1>2. puts \in Nat /\ data \in Seq(Nat) /\ maxSent \in Nat /\ queue \in Seq(Nat)
  BY DEF Counts, Queues
<1>3. /\ data' \in Seq(Nat) /\ Len(data') = Len(data) + 1
      /\ \A k \in 1 .. Len(data') :
           data'[k] = IF k = Len(data) + 1 THEN puts + 1 ELSE data[k]
  BY <1>1, <1>2
<1>4. Counts' /\ Queues'
  BY <1>1, <1>3 DEF Counts, Queues, Wired
<1>5. Consecutive'
  <2>1. Len(data) \in Nat /\ Len(queue) \in Nat /\ Len(pending) \in Nat
    BY DEF Queues
  <2>2. /\ puts = maxSent + Len(queue) + Len(data)
        /\ \A k \in 1 .. Len(data) : data[k] = maxSent + Len(queue) + k
    BY DEF Consecutive
  <2>3. \A k \in 1 .. Len(data') : data'[k] = maxSent + Len(queue) + k
    <3> TAKE k \in 1 .. Len(data')
    <3>1. CASE k = Len(data) + 1
      BY <1>2, <1>3, <2>1, <2>2, <3>1
    <3>2. CASE k # Len(data) + 1
      <4>1. k \in 1 .. Len(data) /\ data'[k] = data[k]
        BY <1>3, <2>1, <3>2
      <4> QED
        BY <2>2, <4>1
    <3> QED
      BY <3>1, <3>2
  <2>4. puts' = maxSent' + Len(queue') + Len(data')
    BY <1>1, <1>2, <1>3, <2>1, <2>2
  <2> QED
    BY <1>1, <2>3, <2>4 DEF Consecutive
<1>6. UnderWay'
  BY <1>1 DEF UnderWay
<1> QED
  BY <1>4, <1>5, <1>6

\* The thread takes data behind what is left in the queue.
LEMMA TakeKeeps ==
    ASSUME Numbered, TakeData
    PROVE  Numbered'
<1> USE DEF Numbered
<1>1. /\ queue' = queue \o data /\ data' = <<>>
      /\ puts' = puts /\ pending' = pending /\ maxSent' = maxSent
      /\ current' = current /\ acknowledged' = acknowledged
      /\ wire' = wire /\ acks' = acks /\ breaks' = breaks
      /\ maxReceived' = maxReceived /\ dispatched' = dispatched
      /\ restarts' = restarts
  BY DEF TakeData, link, receiver
<1>2. puts \in Nat /\ data \in Seq(Nat) /\ maxSent \in Nat /\ queue \in Seq(Nat)
  BY DEF Counts, Queues
<1>3. /\ queue' \in Seq(Nat) /\ Len(queue') = Len(queue) + Len(data)
      /\ \A k \in 1 .. Len(queue') :
           queue'[k] = IF k <= Len(queue) THEN queue[k] ELSE data[k - Len(queue)]
  BY <1>1, <1>2
<1>4. data' \in Seq(Nat) /\ Len(data') = 0
  BY <1>1
<1>5. Counts' /\ Queues'
  BY <1>1, <1>3, <1>4 DEF Counts, Queues, Wired
<1>6. Consecutive'
  <2>0. /\ Len(data) \in Nat /\ Len(queue) \in Nat
        /\ \A k \in 1 .. Len(queue) : queue[k] = maxSent + k
        /\ \A k \in 1 .. Len(data) : data[k] = maxSent + Len(queue) + k
    BY DEF Queues, Consecutive
  <2>1. \A k \in 1 .. Len(queue') : queue'[k] = maxSent + k
    <3> TAKE k \in 1 .. Len(queue')
    <3>1. CASE k <= Len(queue)
      <4>1. k \in 1 .. Len(queue) /\ queue'[k] = queue[k]
        BY <1>3, <2>0, <3>1
      <4> QED
        BY <2>0, <4>1
    <3>2. CASE ~(k <= Len(queue))
      <4>1. k - Len(queue) \in 1 .. Len(data)
        BY <1>3, <2>0, <3>2
      <4>2. data[k - Len(queue)] = maxSent + Len(queue) + (k - Len(queue))
        BY <2>0, <4>1
      <4> QED
        BY <1>2, <1>3, <2>0, <3>2, <4>2
    <3> QED
      BY <3>1, <3>2
  <2>2. puts' = maxSent' + Len(queue') + Len(data')
    BY <1>1, <1>2, <1>3, <1>4 DEF Consecutive
  <2> QED
    BY <1>1, <1>4, <2>1, <2>2 DEF Consecutive
<1>7. UnderWay'
  BY <1>1 DEF UnderWay
<1> QED
  BY <1>5, <1>6, <1>7

\* The first of the queue goes out under the next number and becomes pending.
LEMMA ProcessKeeps ==
    ASSUME Numbered, ProcessOne
    PROVE  Numbered'
<1> USE DEF Numbered
<1> DEFINE b == <<Package(maxSent + 1, Head(queue))>>
<1>1. /\ queue # <<>> /\ queue' = Tail(queue) /\ maxSent' = maxSent + 1
      /\ pending' = Append(pending, Head(queue))
      /\ data' = data /\ puts' = puts
      /\ current' = current /\ acknowledged' = acknowledged
      /\ acks' = acks /\ breaks' = breaks
      /\ maxReceived' = maxReceived /\ dispatched' = dispatched
      /\ restarts' = restarts
  BY DEF ProcessOne, receiver
<1>2. /\ puts \in Nat /\ data \in Seq(Nat) /\ maxSent \in Nat /\ queue \in Seq(Nat)
      /\ pending \in Seq(Nat) /\ current \in Nat /\ wire \in Seq(Wired)
      /\ acks \in Seq(Nat) /\ acknowledged \in Nat
  BY DEF Counts, Queues
<1>3. /\ queue' \in Seq(Nat) /\ Len(queue') = Len(queue) - 1 /\ Len(queue) > 0
      /\ \A k \in 1 .. Len(queue') : queue'[k] = queue[k + 1]
      /\ Head(queue) = queue[1] /\ Head(queue) \in Nat
  BY <1>1, <1>2
<1>4. Head(queue) = maxSent + 1
  BY <1>2, <1>3 DEF Consecutive
<1>5. /\ pending' \in Seq(Nat) /\ Len(pending') = Len(pending) + 1
      /\ \A k \in 1 .. Len(pending') :
           pending'[k] = IF k = Len(pending) + 1 THEN maxSent + 1 ELSE pending[k]
  <2>1. pending' = Append(pending, maxSent + 1) /\ maxSent + 1 \in Nat
    BY <1>1, <1>2, <1>4
  <2> QED
    BY <1>2, <2>1
<1>6. Consecutive'
  <2>1. maxSent' = current' + Len(pending') - 1
        /\ puts' = maxSent' + Len(queue') + Len(data')
    BY <1>1, <1>2, <1>3, <1>5 DEF Consecutive
  <2>2. \A k \in 1 .. Len(pending') : pending'[k] = current' + k - 1
    <3>1. /\ Len(pending) \in Nat /\ maxSent = current + Len(pending) - 1
          /\ \A k \in 1 .. Len(pending) : pending[k] = current + k - 1
      BY DEF Queues, Consecutive
    <3> QED
      BY <1>1, <1>2, <1>5, <3>1
  <2>3. \A k \in 1 .. Len(queue') : queue'[k] = maxSent' + k
    BY <1>1, <1>2, <1>3 DEF Consecutive
  <2>4. \A k \in 1 .. Len(data') : data'[k] = maxSent' + Len(queue') + k
    BY <1>1, <1>2, <1>3 DEF Consecutive
  <2> QED
    BY <2>1, <2>2, <2>3, <2>4 DEF Consecutive
<1>7. /\ b \in Seq(Wired) /\ Len(b) = 1
      /\ b[1] = [seqn |-> maxSent + 1, put |-> maxSent + 1]
  <2>1. Package(maxSent + 1, Head(queue)) = [seqn |-> maxSent + 1, put |-> maxSent + 1]
    BY <1>4 DEF Package
  <2>2. Package(maxSent + 1, Head(queue)) \in Wired
    BY <1>2, <2>1 DEF Wired
  <2> HIDE DEF Wired
  <2> QED
    BY <2>1, <2>2
<1>8. \A k \in 1 .. Len(b) : b[k].seqn = b[k].put /\ b[k].seqn \in 1 .. maxSent + 1
  <2>1. b[1].seqn = maxSent + 1 /\ b[1].put = maxSent + 1
    BY ONLY <1>7
  <2> HIDE DEF b
  <2> QED
    BY <1>2, <1>7, <2>1
<1>9. Transmit(b)
  BY DEF ProcessOne
<1>10. \A k \in 1 .. Len(wire) :
         wire[k].seqn = wire[k].put /\ wire[k].seqn \in 1 .. maxSent + 1
  BY <1>2 DEF UnderWay
<1> HIDE DEF b
<1>11. /\ wire' \in Seq(Wired)
       /\ \A k \in 1 .. Len(wire') :
            wire'[k].seqn = wire'[k].put /\ wire'[k].seqn \in 1 .. maxSent + 1
  <2>1. maxSent + 1 \in Nat
    BY <1>2
  <2> QED
    BY <1>2, <1>7, <1>8, <1>9, <1>10, <2>1, TransmitIs
<1>12. UnderWay'
  <2>1. acknowledged' <= maxSent'
    BY <1>1, <1>2 DEF UnderWay
  <2>2. \A k \in 1 .. Len(acks') : acks'[k] \in 1 .. maxSent'
    BY <1>1, <1>2 DEF UnderWay
  <2> QED
    BY <1>1, <1>11, <2>1, <2>2 DEF UnderWay
<1>13. Counts' /\ Queues'
  BY <1>1, <1>2, <1>3, <1>5, <1>11 DEF Counts, Queues
<1> QED
  BY <1>6, <1>12, <1>13

\* Resuming forgets a first part of pending and numbers the rest as it was.
LEMMA ResumeKeeps ==
    ASSUME WireInv, Numbered, Resume
    PROVE  Numbered'
<1>1. /\ pending' = Drop(pending, Acked) /\ current' = current + Acked
      /\ data' = data /\ queue' = queue /\ puts' = puts /\ maxSent' = maxSent
      /\ acknowledged' = acknowledged /\ acks' = acks /\ breaks' = breaks
      /\ maxReceived' = maxReceived /\ dispatched' = dispatched
      /\ restarts' = restarts
  BY DEF Resume, receiver
<1>2. /\ puts \in Nat /\ data \in Seq(Nat) /\ maxSent \in Nat /\ queue \in Seq(Nat)
      /\ pending \in Seq(Nat) /\ current \in Nat \ {0} /\ wire \in Seq(Wired)
      /\ acks \in Seq(Nat) /\ acknowledged \in Nat
  BY DEF Numbered, Counts, Queues
<1>3. Acked \in 0 .. Len(pending)
  BY AckedIs
<1>4. /\ pending' \in Seq(Nat) /\ Len(pending') = Len(pending) - Acked
      /\ \A k \in 1 .. Len(pending) - Acked : pending'[k] = pending[Acked + k]
  BY <1>1, <1>2, <1>3, DropIs
<1>5. Consecutive'
  <2>1. /\ maxSent = current + Len(pending) - 1
        /\ \A k \in 1 .. Len(pending) : pending[k] = current + k - 1
        /\ Len(pending) \in Nat
    BY <1>2 DEF Numbered, Consecutive
  <2>2. maxSent' = current' + Len(pending') - 1
    BY <1>1, <1>2, <1>3, <1>4, <2>1
  <2>3. \A k \in 1 .. Len(pending') : pending'[k] = current' + k - 1
    <3> TAKE k \in 1 .. Len(pending')
    <3>1. Acked + k \in 1 .. Len(pending) /\ k \in 1 .. Len(pending) - Acked
      BY <1>3, <1>4, <2>1
    <3>2. pending'[k] = current + (Acked + k) - 1
      BY <1>4, <2>1, <3>1
    <3> QED
      BY <1>1, <1>2, <1>3, <3>1, <3>2
  <2>4. /\ puts = maxSent + Len(queue) + Len(data)
        /\ \A k \in 1 .. Len(queue) : queue[k] = maxSent + k
        /\ \A k \in 1 .. Len(data) : data[k] = maxSent + Len(queue) + k
    BY DEF Numbered, Consecutive
  <2> QED
    BY <1>1, <2>2, <2>3, <2>4 DEF Consecutive
<1>6. /\ wire' \in Seq(Wired)
      /\ \A k \in 1 .. Len(wire') :
           wire'[k].seqn = wire'[k].put /\ wire'[k].seqn \in 1 .. maxSent
  <2>1. Transmit(Resent)
    BY DEF Resume
  <2>2. \A k \in 1 .. Len(wire) :
          wire[k].seqn = wire[k].put /\ wire[k].seqn \in 1 .. maxSent
    BY DEF Numbered, UnderWay
  <2> QED
    BY <1>2, <2>1, <2>2, ResentIs, TransmitIs
<1>7. UnderWay'
  BY <1>1, <1>6 DEF Numbered, UnderWay
<1>8. Counts' /\ Queues'
  BY <1>1, <1>2, <1>3, <1>4, <1>6 DEF Numbered, Counts, Queues
<1> QED
  BY <1>5, <1>7, <1>8 DEF Numbered

\* A first part of a sequence, or its tail, holds nothing new.
LEMMA FewerIs ==
    ASSUME NEW S, NEW s \in Seq(S), NEW t, t \in Prefixes(s) \/ (s # <<>> /\ t = Tail(s))
    PROVE  /\ t \in Seq(S)
           /\ \A k \in 1 .. Len(t) : \E i \in 1 .. Len(s) : t[k] = s[i]
<1>1. CASE t \in Prefixes(s)
  <2>1. PICK n \in 0 .. Len(s) : t = SubSeq(s, 1, n)
    BY <1>1 DEF Prefixes
  <2>0. Len(s) \in Nat /\ n \in Nat /\ n <= Len(s)
    OBVIOUS
  <2>2. \A i \in 1 .. n : s[i] \in S
    BY <2>0
  <2>3. t \in Seq(S) /\ Len(t) = n /\ \A k \in 1 .. n : t[k] = s[k]
    BY <2>0, <2>1, <2>2, SubSeqProperties
  <2> QED
    BY <2>0, <2>3
<1>2. CASE s # <<>> /\ t = Tail(s)
  <2>1. t \in Seq(S) /\ Len(t) = Len(s) - 1 /\ Len(s) \in Nat \ {0}
        /\ \A k \in 1 .. Len(t) : t[k] = s[k + 1]
    BY <1>2
  <2>2. \A k \in 1 .. Len(t) : k + 1 \in 1 .. Len(s)
    BY <2>1
  <2> QED
    BY <2>1, <2>2
<1> QED
  BY <1>1, <1>2

\* The reader takes the first package and acknowledges its number.
LEMMA ReadKeeps ==
    ASSUME Numbered, ReadPackage
    PROVE  Numbered'
<1>1. /\ data' = data /\ queue' = queue /\ pending' = pending /\ puts' = puts
      /\ maxSent' = maxSent /\ current' = current
      /\ acknowledged' = acknowledged /\ breaks' = breaks
      /\ restarts' = restarts
  BY DEF ReadPackage, sender
<1>2. /\ wire \in Seq(Wired) /\ acks \in Seq(Nat) /\ dispatched \in Seq(Nat)
      /\ maxSent \in Nat /\ maxReceived \in Nat
      /\ wire # <<>> /\ wire' = Tail(wire)
  BY DEF Numbered, Counts, Queues, ReadPackage
<1>3. /\ wire' \in Seq(Wired)
      /\ \A k \in 1 .. Len(wire') : \E i \in 1 .. Len(wire) : wire'[k] = wire[i]
  BY <1>2, FewerIs
<1> DEFINE p == Head(wire)
<1>4. p \in Wired /\ \E i \in 1 .. Len(wire) : p = wire[i]
  <2> HIDE DEF Wired
  <2>1. Len(wire) \in Nat \ {0} /\ p = wire[1]
    BY <1>2
  <2> QED
    BY <1>2, <2>1
<1>5. p.seqn \in 1 .. maxSent /\ p.put \in Nat
  BY <1>4 DEF Numbered, UnderWay, Wired
<1>6. acks' = acks \/ acks' = Append(acks, p.seqn)
  BY DEF ReadPackage
<1>7. \/ maxReceived' = maxReceived /\ dispatched' = dispatched
      \/ /\ maxReceived' = p.seqn
         /\ \/ dispatched' = dispatched
            \/ dispatched' = Append(dispatched, p.put)
  BY DEF ReadPackage
<1> HIDE DEF p
<1>8. acks' \in Seq(Nat) /\ \A k \in 1 .. Len(acks') : acks'[k] \in 1 .. maxSent
  <2>1. \A k \in 1 .. Len(acks) : acks[k] \in 1 .. maxSent
    BY DEF Numbered, UnderWay
  <2>2. CASE acks' = acks
    BY <1>2, <2>1, <2>2
  <2>3. CASE acks' = Append(acks, p.seqn)
    <3>1. p.seqn \in Nat
      BY <1>2, <1>5
    <3>2. /\ acks' \in Seq(Nat) /\ Len(acks') = Len(acks) + 1 /\ Len(acks) \in Nat
          /\ \A k \in 1 .. Len(acks) : acks'[k] = acks[k]
          /\ acks'[Len(acks) + 1] = p.seqn
      BY <1>2, <2>3, <3>1
    <3> QED
      BY <1>5, <2>1, <3>2
  <2> QED
    BY <1>6, <2>2, <2>3
<1>9. maxReceived' \in Nat /\ dispatched' \in Seq(Nat)
  <2>1. p.seqn \in Nat
    BY <1>2, <1>5
  <2>2. Append(dispatched, p.put) \in Seq(Nat)
    BY <1>2, <1>5
  <2> QED
    BY <1>2, <1>7, <2>1, <2>2
<1>10. UnderWay'
  BY <1>1, <1>3, <1>8 DEF Numbered, UnderWay
<1>11. Consecutive'
  BY <1>1 DEF Numbered, Consecutive
<1>12. Counts' /\ Queues'
  BY <1>1, <1>3, <1>8, <1>9 DEF Numbered, Counts, Queues
<1> QED
  BY <1>10, <1>11, <1>12 DEF Numbered

LEMMA ReceiveKeeps ==
    ASSUME Numbered, ReceiveAck
    PROVE  /\ Numbered'
           /\ acknowledged' \in acknowledged .. puts
<1>1. /\ data' = data /\ queue' = queue /\ pending' = pending /\ puts' = puts
      /\ maxSent' = maxSent /\ current' = current /\ wire' = wire
      /\ breaks' = breaks /\ maxReceived' = maxReceived
      /\ dispatched' = dispatched /\ restarts' = restarts
  BY DEF ReceiveAck, receiver
<1>2. /\ acks \in Seq(Nat) /\ acknowledged \in Nat /\ maxSent \in Nat /\ puts \in Nat
      /\ acks # <<>> /\ acks' = Tail(acks)
      /\ \A k \in 1 .. Len(acks) : acks[k] \in 1 .. maxSent
      /\ acknowledged <= maxSent
  BY DEF Numbered, Counts, Queues, ReceiveAck, UnderWay
<1>3. /\ acks' \in Seq(Nat)
      /\ \A k \in 1 .. Len(acks') : \E i \in 1 .. Len(acks) : acks'[k] = acks[i]
  BY <1>2, FewerIs
<1>4. Head(acks) \in 1 .. maxSent
  <2>1. Len(acks) \in Nat \ {0} /\ Head(acks) = acks[1]
    BY <1>2
  <2> QED
    BY <1>2, <2>1
<1>5. acknowledged' \in Nat /\ acknowledged' \in acknowledged .. maxSent
  BY <1>2, <1>4 DEF ReceiveAck, AckHighest
<1>6. maxSent <= puts
  <2>1. puts = maxSent + Len(queue) + Len(data) /\ Len(queue) \in Nat /\ Len(data) \in Nat
    BY DEF Numbered, Consecutive, Queues
  <2> QED
    BY <1>2, <2>1
<1>7. UnderWay'
  <2>1. \A k \in 1 .. Len(acks') : acks'[k] \in 1 .. maxSent
    BY <1>2, <1>3
  <2> QED
    BY <1>1, <1>2, <1>5, <2>1 DEF Numbered, UnderWay
<1>8. Consecutive'
  BY <1>1 DEF Numbered, Consecutive
<1>9. Counts' /\ Queues'
  BY <1>1, <1>3, <1>5 DEF Numbered, Counts, Queues, Wired
<1>10. acknowledged' \in acknowledged .. puts
  BY <1>2, <1>5, <1>6
<1> QED
  BY <1>7, <1>8, <1>9, <1>10 DEF Numbered

\* A new connection and a broken one leave the buffer alone; what is under way
\* only becomes less.
LEMMA LinkKeeps ==
    ASSUME Numbered, Connect \/ Break
    PROVE  /\ Numbered'
           /\ UNCHANGED <<data, queue, pending, puts, acknowledged>>
<1>1. /\ data' = data /\ queue' = queue /\ pending' = pending /\ puts' = puts
      /\ maxSent' = maxSent /\ current' = current /\ acknowledged' = acknowledged
      /\ breaks' \in Nat /\ maxReceived' = maxReceived
      /\ dispatched' = dispatched /\ restarts' = restarts
  BY DEF Connect, Break, sender, receiver, Numbered, Counts
<1>2. wire \in Seq(Wired) /\ acks \in Seq(Nat)
  BY DEF Numbered, Queues
<1>3. /\ wire' \in Seq(Wired)
      /\ \A k \in 1 .. Len(wire') : \E i \in 1 .. Len(wire) : wire'[k] = wire[i]
  <2>1. CASE Connect
    <3>1. wire' = <<>>
      BY <2>1 DEF Connect
    <3> HIDE DEF Wired
    <3> QED
      BY <3>1
  <2>2. CASE Break
    <3>1. wire' \in Prefixes(wire)
      BY <2>2 DEF Break
    <3> QED
      BY <1>2, <3>1, FewerIs
  <2> QED
    BY <2>1, <2>2
<1>4. /\ acks' \in Seq(Nat)
      /\ \A k \in 1 .. Len(acks') : \E i \in 1 .. Len(acks) : acks'[k] = acks[i]
  <2>1. CASE Connect
    BY <2>1 DEF Connect
  <2>2. CASE Break
    <3>1. acks' \in Prefixes(acks)
      BY <2>2 DEF Break
    <3> QED
      BY <1>2, <3>1, FewerIs
  <2> QED
    BY <2>1, <2>2
<1>5. UnderWay'
  BY <1>1, <1>3, <1>4 DEF Numbered, UnderWay
<1>6. Consecutive' /\ Counts' /\ Queues'
  BY <1>1, <1>3, <1>4 DEF Numbered, Consecutive, Counts, Queues
<1> QED
  BY <1>1, <1>5, <1>6 DEF Numbered

LEMMA RestartKeeps ==
    ASSUME Numbered, Restart
    PROVE  Numbered'
<1>1. /\ data' = <<>> /\ queue' = <<>> /\ pending' = <<>> /\ wire' = <<>>
      /\ acks' = <<>> /\ dispatched' = <<>> /\ maxSent' = 0 /\ current' = 1
      /\ acknowledged' = 0 /\ puts' = 0 /\ breaks' = breaks
      /\ maxReceived' = maxReceived /\ restarts' = restarts + 1
  BY DEF Restart
<1>2. <<>> \in Seq(Nat) /\ <<>> \in Seq(Wired) /\ Len(<<>>) = 0
  <2> HIDE DEF Wired
  <2> QED
    OBVIOUS
<1>3. Consecutive' /\ UnderWay'
  BY <1>1, <1>2 DEF Consecutive, UnderWay
<1>4. Counts' /\ Queues'
  BY <1>1, <1>2 DEF Numbered, Counts, Queues
<1> QED
  BY <1>3, <1>4 DEF Numbered

\* The steps that move no package, number or acknowledgement.
Idle ==
    \/ Stop \/ CleanUp \/ ProcessEnds \/ ThreadReturns \/ GivesUp
    \/ SeesEnd \/ Pause \/ ReaderSeesEnd \/ UNCHANGED vars

LEMMA IdleKeeps ==
    ASSUME Numbered, Idle
    PROVE  /\ Numbered'
           /\ UNCHANGED <<data, queue, pending, puts, acknowledged>>
<1>1. UNCHANGED <<data, queue, pending, puts, maxSent, current, acknowledged,
                  wire, acks, breaks, maxReceived, dispatched, restarts>>
  BY DEF Idle, Stop, CleanUp, ProcessEnds, ThreadReturns, GivesUp, SeesEnd,
         Pause, ReaderSeesEnd, vars, sender, link, receiver
<1> QED
  BY <1>1 DEF Numbered, Consecutive, UnderWay, Counts, Queues, Wired

LEMMA StepIs ==
    ASSUME [Next]_vars
    PROVE  \/ Put \/ TakeData \/ ProcessOne \/ Resume \/ ReadPackage
           \/ ReceiveAck \/ Connect \/ Break \/ Restart \/ Idle
BY DEF Next, BufferThread, ConnThread, Counterpart, Idle

\* The inductive invariant of the wire.
THEOREM WireInvariant == Spec => []WireInv
<1>1. ASSUME WireInv, [Next]_vars
      PROVE  WireInv'
  <2>1. Places /\ Counts /\ Queues /\ Numbered
    BY <1>1, TypeParts DEF WireInv, Numbered
  <2>2. Places' /\ PausedUnlessUp'
    BY <1>1, <2>1, PlacesStep DEF WireInv
  <2>3. Numbered'
    BY <1>1, <2>1, StepIs, PutKeeps, TakeKeeps, ProcessKeeps, ResumeKeeps,
       ReadKeeps, ReceiveKeeps, LinkKeeps, RestartKeeps, IdleKeeps
  <2>4. Places' /\ Counts' /\ Queues' => TypeOK'
    BY TypeParts, PTL
  <2> QED
    BY <2>2, <2>3, <2>4 DEF WireInv, Numbered
<1> QED
  BY <1>1, WireInitInv, PTL DEF Spec

\* Every variable of the wire has its type.
THEOREM WireTyped == Spec => []TypeOK
<1>1. WireInv => TypeOK
  BY DEF WireInv
<1> QED
  BY <1>1, WireInvariant, PTL

\* A package goes out under one number for ever, however often it is resent.
THEOREM WireOneNumberEach == Spec => []OneNumberEach
<1>1. WireInv => OneNumberEach
  BY DEF WireInv, UnderWay, OneNumberEach
<1> QED
  BY <1>1, WireInvariant, PTL

\* An acknowledgement is of a package that was sent, and reprocess() never
\* pops an empty deque.
THEOREM WireAckOfSent == Spec => []AckOfSent
<1>1. ASSUME WireInv PROVE AckOfSent
  <2>1. acknowledged \in Nat /\ maxSent \in Nat /\ current \in Nat
        /\ Len(pending) \in Nat
    BY <1>1, TypesAre DEF WireInv
  <2>2. maxSent = current + Len(pending) - 1 /\ acknowledged <= maxSent
        /\ \A k \in 1 .. Len(acks) : acks[k] \in 1 .. maxSent
    BY <1>1 DEF WireInv, Consecutive, UnderWay
  <2> QED
    BY <2>1, <2>2 DEF AckOfSent
<1> QED
  BY <1>1, WireInvariant, PTL

-----------------------------------------------------------------------------
(* The buffer implements the outbox *)

\* The three queues together hold the numbers from current to the last put.
Contents == pending \o queue \o data

Counted ==
    /\ Contents = Numbers(current, puts)
    /\ current \in Nat /\ puts \in Nat /\ current <= puts + 1
    /\ acknowledged \in Nat /\ acknowledged <= puts

LEMMA ContentsAre == WireInv => Counted
<1> SUFFICES ASSUME WireInv PROVE Counted
  OBVIOUS
<1>1. /\ pending \in Seq(Nat) /\ queue \in Seq(Nat) /\ data \in Seq(Nat)
      /\ current \in Nat \ {0} /\ maxSent \in Nat /\ puts \in Nat
      /\ acknowledged \in Nat
  BY TypesAre DEF WireInv
<1>2. /\ maxSent = current + Len(pending) - 1
      /\ puts = maxSent + Len(queue) + Len(data)
      /\ acknowledged <= maxSent
  BY DEF WireInv, Consecutive, UnderWay
<1>3. Len(pending) \in Nat /\ Len(queue) \in Nat /\ Len(data) \in Nat
  BY <1>1
<1>4. /\ \A k \in 1 .. Len(pending) : pending[k] = current + k - 1
      /\ \A k \in 1 .. Len(queue) : queue[k] = current + Len(pending) + k - 1
      /\ \A k \in 1 .. Len(data) :
           data[k] = current + Len(pending) + Len(queue) + k - 1
  <2>1. /\ \A k \in 1 .. Len(pending) : pending[k] = current + k - 1
        /\ \A k \in 1 .. Len(queue) : queue[k] = maxSent + k
        /\ \A k \in 1 .. Len(data) : data[k] = maxSent + Len(queue) + k
    BY DEF WireInv, Consecutive
  <2> QED
    BY <1>1, <1>2, <1>3, <2>1
<1>5. puts = current + Len(pending) + Len(queue) + Len(data) - 1
  BY <1>1, <1>2, <1>3
<1>6. Contents = Numbers(current, puts)
  BY <1>1, <1>4, <1>5, Concatenated DEF Contents
<1>7. current <= puts + 1 /\ acknowledged <= puts
  BY <1>1, <1>2, <1>3, <1>5
<1> QED
  BY <1>1, <1>6, <1>7 DEF Counted

\* Putting accepts, whatever of the three queues is empty.
LEMMA PutAccepts ==
    ASSUME Counted, Counted', Put
    PROVE  Box!Accept
<1>1. current' = current /\ puts' = puts + 1 /\ acknowledged' = acknowledged
  BY DEF Put
<1>2. Contents' = Append(Contents, puts + 1)
  BY <1>1, NumbersGrow DEF Counted
<1> QED
  BY <1>1, <1>2 DEF Box!Accept, Contents

\* Resuming forgets packages whose receipt is known.
LEMMA ResumeForgets ==
    ASSUME WireInv, Counted, Counted', Resume
    PROVE  Box!Forget
<1>1. /\ current' = current + Acked /\ puts' = puts
      /\ acknowledged' = acknowledged
  BY DEF Resume
<1>2. /\ Acked \in 0 .. Len(pending) /\ Len(pending) \in Nat /\ Acked \in Nat
      /\ Acked > 0 => current + Acked - 1 = acknowledged
  BY AckedIs, TypesAre DEF WireInv
<1>3. /\ Len(Contents) = puts - current + 1
      /\ \A k \in 1 .. puts - current + 1 : Contents[k] = current + k - 1
  BY NumbersAre DEF Counted
<1>4. current + Acked <= puts + 1 /\ puts \in Nat /\ current \in Nat
  BY <1>1 DEF Counted
<1>5. Contents' = SubSeq(Contents, Acked + 1, Len(Contents))
  BY <1>1, <1>2, <1>4, NumbersDrop DEF Counted
<1>6. Acked \in 0 .. Len(Contents)
  BY <1>2, <1>3, <1>4
<1>7. \A k \in 1 .. Acked : Contents[k] <= acknowledged
  BY <1>2, <1>3, <1>4 DEF Counted
<1> QED
  BY <1>1, <1>5, <1>6, <1>7 DEF Box!Forget, Contents

LEMMA OutboxStep ==
    ASSUME WireInv, Counted, Counted', [Next]_vars
    PROVE  [Box!OutboxNext]_(Box!boxVars)
<1> DEFINE Same == Contents' = Contents /\ puts' = puts /\ acknowledged' = acknowledged
<1>1. ASSUME Same PROVE UNCHANGED Box!boxVars
  BY <1>1 DEF Box!boxVars, Contents
<1>2. Numbered
  BY TypeParts DEF WireInv, Numbered
<1>3. CASE Put
  BY <1>3, PutAccepts DEF Box!OutboxNext
<1>4. CASE Resume
  BY <1>4, ResumeForgets DEF Box!OutboxNext
<1>5. CASE ReceiveAck
  <2>1. acknowledged' \in acknowledged .. puts
    BY <1>2, <1>5, ReceiveKeeps
  <2>2. UNCHANGED <<pending, queue, data, puts>>
    BY <1>5 DEF ReceiveAck
  <2> QED
    BY <2>1, <2>2 DEF Box!OutboxNext, Box!Acknowledged
<1>6. CASE Restart
  <2>1. pending' = <<>> /\ queue' = <<>> /\ data' = <<>> /\ puts' = 0
        /\ acknowledged' = 0
    BY <1>6 DEF Restart
  <2>2. (pending \o queue \o data)' = <<>>
    BY <2>1
  <2> QED
    BY <2>1, <2>2 DEF Box!OutboxNext, Box!StartAnew, Box!Empty
<1>7. CASE TakeData \/ ProcessOne
  <2>1. current' = current /\ puts' = puts /\ acknowledged' = acknowledged
    BY <1>7 DEF TakeData, ProcessOne
  <2>2. Same
    BY <2>1 DEF Counted
  <2> QED
    BY <1>1, <2>2
<1>8. CASE ReadPackage
  BY <1>1, <1>8 DEF ReadPackage, sender, Contents
<1>9. CASE Connect \/ Break \/ Idle
  <2>1. UNCHANGED <<data, queue, pending, puts, acknowledged>>
    BY <1>2, <1>9, LinkKeeps, IdleKeeps
  <2> QED
    BY <1>1, <2>1 DEF Contents
<1> QED
  BY <1>3, <1>4, <1>5, <1>6, <1>7, <1>8, <1>9, StepIs

\* The buffer, with its three queues, its thread, its failing sends and its
\* restarts, is an outbox: packages leave it in the order they were put, none
\* before its receipt is known, and none is left out.
THEOREM WireOutbox == Spec => OutboxSpec
<1>1. Init => Box!Empty
  <2> SUFFICES ASSUME Init PROVE Box!Empty
    OBVIOUS
  <2>1. pending = <<>> /\ queue = <<>> /\ data = <<>> /\ puts = 0
        /\ acknowledged = 0
    BY DEF Init
  <2>2. pending \o queue \o data = <<>>
    BY <2>1
  <2> QED
    BY <2>1, <2>2 DEF Box!Empty
<1>2. WireInv /\ Counted /\ Counted' /\ [Next]_vars
        => [Box!OutboxNext]_(Box!boxVars)
  BY OutboxStep
<1> QED
  BY <1>1, <1>2, WireInvariant, ContentsAre, PTL
     DEF Spec, OutboxSpec, Box!OutboxSpec
-----------------------------------------------------------------------------
(* Stopping on a connection that never broke *)

\* Until a connection breaks, the thread is at work only on one that is up, and
\* comes back from it with nothing left in the queue.
Unbroken ==
    breaks = 0 =>
        /\ conn # "ended"
        /\ conn \in {"switched", "up"} => linkUp
        /\ thread \in {"taken", "processing"} => conn = "up"
        /\ thread \in {"waiting", "returned"} => queue = <<>>

LEMMA UnbrokenStep ==
    ASSUME WireInv, Unbroken, [Next]_vars
    PROVE  Unbroken'
<1> USE DEF Unbroken
<1>0. /\ thread \in {"waiting", "taken", "processing", "returned"}
      /\ conn \in {"down", "switched", "up", "ended"}
      /\ balance = 0 => conn \in {"up", "ended"}
      /\ breaks \in Nat
  <2>1. Places /\ Counts
    BY TypeParts DEF WireInv
  <2> QED
    BY <2>1 DEF WireInv, Places, Counts, PausedUnlessUp
<1>1. CASE Put \/ Stop \/ CleanUp
  <2>1. UNCHANGED <<breaks, conn, linkUp, thread, queue>>
    BY <1>1 DEF Put, Stop, CleanUp, link
  <2> QED
    BY <2>1
<1>2. CASE TakeData
  BY <1>0, <1>2, SMTT(30) DEF TakeData, link
<1>3. CASE ProcessOne
  BY <1>0, <1>3, SMTT(30) DEF ProcessOne
<1>4. CASE ProcessEnds
  BY <1>0, <1>4, SMTT(30) DEF ProcessEnds, link
<1>5. CASE ThreadReturns
  BY <1>5, SMTT(30) DEF ThreadReturns, link
<1>6. CASE Connect
  BY <1>0, <1>6, SMTT(30) DEF Connect
<1>7. CASE Resume
  BY <1>0, <1>7, SMTT(30) DEF Resume
<1>8. CASE GivesUp
  BY <1>0, <1>8, SMTT(30) DEF GivesUp
<1>9. CASE SeesEnd \/ Pause
  BY <1>0, <1>9, SMTT(30) DEF SeesEnd, Pause, link
<1>10. CASE ReceiveAck \/ ReadPackage \/ ReaderSeesEnd
  <2>1. UNCHANGED <<breaks, conn, linkUp, thread, queue>>
    BY <1>10 DEF ReceiveAck, ReadPackage, ReaderSeesEnd, sender, link
  <2> QED
    BY <2>1
<1>11. CASE Break
  <2>1. breaks' # 0
    BY <1>0, <1>11 DEF Break
  <2> QED
    BY <2>1
<1>12. CASE Restart
  BY <1>12, SMTT(30) DEF Restart
<1>13. CASE UNCHANGED vars
  BY <1>13, SMTT(30) DEF vars, sender, link
<1> QED
  BY <1>1, <1>2, <1>3, <1>4, <1>5, <1>6, <1>7, <1>8, <1>9, <1>10, <1>11,
     <1>12, <1>13 DEF Next, BufferThread, ConnThread, Counterpart

\* Only ThreadReturns makes the thread return.
LEMMA ReturnsIs ==
    ASSUME [Next]_vars, thread # "returned", thread' = "returned"
    PROVE  ThreadReturns
<1>1. CASE Put \/ Stop \/ CleanUp \/ Connect \/ Resume \/ GivesUp \/ ReceiveAck
           \/ SeesEnd \/ Pause
  BY <1>1, Zenon DEF Put, Stop, CleanUp, Connect, Resume, GivesUp, ReceiveAck,
     SeesEnd, Pause
<1>2. CASE ReadPackage \/ ReaderSeesEnd \/ Break \/ UNCHANGED vars
  <2>1. UNCHANGED sender
    BY <1>2 DEF ReadPackage, ReaderSeesEnd, Break, vars
  <2> QED
    BY <2>1 DEF sender
<1>3. CASE TakeData \/ ProcessOne \/ ProcessEnds \/ Restart
  BY <1>3 DEF TakeData, ProcessOne, ProcessEnds, Restart
<1> QED
  BY <1>1, <1>2, <1>3 DEF Next, BufferThread, ConnThread, Counterpart

\* stop() on a connection that never broke sends all that was put before it:
\* the thread returns only when data is empty, and the queue is by then.
THEOREM WireStopFlushes == Spec => StopFlushes
<1>1. Init => Unbroken
  BY DEF Init, Unbroken
<1>2. WireInv /\ Unbroken /\ [Next]_vars => Unbroken'
  BY UnbrokenStep
<1> DEFINE Flushed ==
      ( /\ state = "Stopping" /\ thread # "returned"
        /\ thread' = "returned"
        /\ conn = "up" /\ breaks = 0 ) => maxSent = puts
<1>3. ASSUME WireInv, Unbroken, [Next]_vars PROVE [Flushed]_vars
  <2> SUFFICES ASSUME state = "Stopping", thread # "returned",
                      thread' = "returned", conn = "up", breaks = 0
               PROVE  maxSent = puts
    OBVIOUS
  <2>1. ThreadReturns
    BY <1>3, ReturnsIs
  <2>2. balance = 0
    BY <1>3 DEF WireInv, PausedUnlessUp
  <2>3. data = <<>> /\ queue = <<>>
    BY <1>3, <2>1, <2>2 DEF ThreadReturns, Unbroken
  <2>4. puts = maxSent + Len(queue) + Len(data) /\ maxSent \in Nat
    BY <1>3, TypesAre DEF WireInv, Consecutive
  <2> QED
    BY <2>3, <2>4
<1> QED
  BY <1>1, <1>2, <1>3, WireInvariant, PTL DEF Spec, StopFlushes
-----------------------------------------------------------------------------
(* What the counterpart dispatches *)

\* The number of the last package of this process that the counterpart took.
Latest == IF dispatched = <<>> THEN 0 ELSE maxReceived

\* Who looks after a connection that carries what is sent.
LinkStates == linkUp => conn \in {"switched", "up"}

\* Under way are consecutive numbers, ...
InStep == \A k \in 1 .. Len(wire) : wire[k].seqn = wire[1].seqn + k - 1

\* ... the first no later than the counterpart expects, and not acknowledged.
NextUp ==
    wire # <<>> =>
        /\ wire[1].seqn >= current /\ wire[1].seqn <= Latest + 1
        /\ wire[1].seqn > acknowledged
        /\ \A k \in 1 .. Len(acks) : acks[k] < wire[1].seqn

\* A connection in use has carried all that was sent.
UpToSent ==
    linkUp /\ conn = "up" =>
        IF wire = <<>> THEN maxSent <= Latest
                       ELSE wire[1].seqn + Len(wire) - 1 = maxSent

\* Nothing is under way on a new connection.
Fresh == conn = "switched" => wire = <<>> /\ acks = <<>>

\* What is forgotten or acknowledged, or whose acknowledgement is under way, was
\* taken, and all that was taken was dispatched.
Taken ==
    /\ current <= Latest + 1 /\ acknowledged <= Latest
    /\ \A k \in 1 .. Len(acks) : acks[k] <= Latest
    /\ \A n \in 1 .. Latest : \E k \in 1 .. Len(dispatched) : dispatched[k] = n
    /\ dispatched # <<>> => dispatched[Len(dispatched)] = maxReceived

Flow ==
    ~pausedSend /\ ~garbled => InStep /\ NextUp /\ UpToSent /\ Fresh /\ Taken

FlowInv == LinkStates /\ Flow /\ DispatchedInSequence

LEMMA PrefixIs ==
    ASSUME NEW S, NEW s \in Seq(S), NEW t \in Prefixes(s)
    PROVE  /\ t \in Seq(S) /\ Len(t) <= Len(s)
           /\ \A k \in 1 .. Len(t) : t[k] = s[k]
<1>1. PICK n \in 0 .. Len(s) : t = SubSeq(s, 1, n)
  BY DEF Prefixes
<1>0. Len(s) \in Nat /\ n \in Nat /\ n <= Len(s)
  OBVIOUS
<1>2. \A i \in 1 .. n : s[i] \in S
  BY <1>0
<1>3. t \in Seq(S) /\ Len(t) = n /\ \A k \in 1 .. n : t[k] = s[k]
  BY <1>0, <1>1, <1>2, SubSeqProperties
<1> QED
  BY <1>0, <1>3

LEMMA TailIs ==
    ASSUME NEW S, NEW s \in Seq(S), s # <<>>
    PROVE  /\ Len(s) \in Nat \ {0} /\ Head(s) = s[1] /\ s[1] \in S
           /\ Tail(s) \in Seq(S) /\ Len(Tail(s)) = Len(s) - 1
           /\ \A k \in 1 .. Len(s) - 1 : Tail(s)[k] = s[k + 1]
OBVIOUS

LEMMA AppendIs ==
    ASSUME NEW S, NEW s \in Seq(S), NEW e \in S
    PROVE  /\ Append(s, e) \in Seq(S) /\ Len(Append(s, e)) = Len(s) + 1
           /\ Len(s) \in Nat /\ Append(s, e) # <<>>
           /\ \A k \in 1 .. Len(s) : Append(s, e)[k] = s[k]
           /\ Append(s, e)[Len(s) + 1] = e
OBVIOUS

\* What the steps below start from.
FlowFacts ==
    /\ wire \in Seq(Wired) /\ acks \in Seq(Nat) /\ dispatched \in Seq(Nat)
    /\ maxSent \in Nat /\ acknowledged \in Nat /\ maxReceived \in Nat
    /\ current \in Nat \ {0} /\ current <= maxSent + 1 /\ acknowledged <= maxSent
    /\ \A k \in 1 .. Len(acks) : acks[k] \in 1 .. maxSent
    /\ \A k \in 1 .. Len(wire) :
         wire[k].seqn = wire[k].put /\ wire[k].seqn \in 1 .. maxSent

LEMMA FlowFactsHold == WireInv => FlowFacts
<1> SUFFICES ASSUME WireInv PROVE FlowFacts
  OBVIOUS
<1>1. /\ maxSent = current + Len(pending) - 1 /\ Len(pending) \in Nat
      /\ current \in Nat
  BY TypesAre DEF WireInv, Consecutive
<1> QED
  BY <1>1, TypesAre DEF WireInv, UnderWay, FlowFacts

\* Steps that move nothing on the connection, but may end it.
LEMMA FlowStays ==
    ASSUME Flow,
           UNCHANGED <<wire, acks, current, acknowledged, maxSent, maxReceived,
                       garbled, dispatched, pausedSend>>,
           linkUp' /\ conn' = "up" => linkUp /\ conn = "up",
           conn' = "switched" => conn = "switched"
    PROVE  Flow'
BY DEF Flow, InStep, NextUp, UpToSent, Fresh, Taken, Latest

LEMMA FlowProcess ==
    ASSUME WireInv, LinkStates, Flow, ProcessOne
    PROVE  Flow'
<1> SUFFICES ASSUME ~pausedSend', ~garbled'
             PROVE  (InStep /\ NextUp /\ UpToSent /\ Fresh /\ Taken)'
  BY DEF Flow
<1>0. FlowFacts
  BY FlowFactsHold
<1>1. /\ current' = current /\ acknowledged' = acknowledged /\ acks' = acks
      /\ maxReceived' = maxReceived /\ dispatched' = dispatched
      /\ garbled' = garbled /\ conn' = conn /\ linkUp' = linkUp
      /\ maxSent' = maxSent + 1
      /\ pausedSend' = (pausedSend \/ (linkUp /\ balance # 0))
  BY DEF ProcessOne, receiver
<1>2. ~pausedSend /\ ~garbled /\ (linkUp => balance = 0)
  BY <1>1, Zenon
<1>3. InStep /\ NextUp /\ UpToSent /\ Fresh /\ Taken
  BY <1>2 DEF Flow
<1>4. Latest' = Latest
  BY <1>1 DEF Latest
<1>5. Taken'
  BY <1>1, <1>3, <1>4 DEF Taken
<1>6. CASE ~linkUp
  <2>1. wire' = wire
    BY <1>6 DEF ProcessOne, Transmit
  <2> QED
    BY <1>1, <1>3, <1>4, <1>5, <1>6, <2>1
       DEF InStep, NextUp, UpToSent, Fresh
<1>7. CASE linkUp
  <2>1. conn = "up"
    BY <1>2, <1>7 DEF LinkStates, WireInv, PausedUnlessUp
  <2> DEFINE e == Package(maxSent + 1, Head(queue))
  <2>2. wire' = wire \o <<e>>
    BY <1>7 DEF ProcessOne, Transmit
  <2>3. e \in Wired /\ e.seqn = maxSent + 1
    <3>1. queue \in Seq(Nat) /\ queue # <<>>
      BY TypesAre DEF WireInv, ProcessOne
    <3>2. Head(queue) \in Nat
      BY <3>1, TailIs
    <3> QED
      BY <1>0, <3>2 DEF Wired, Package, FlowFacts
  <2> HIDE DEF e
  <2>4. wire \in Seq(Wired)
    BY <1>0 DEF FlowFacts
  <2>5. /\ Len(wire') = Len(wire) + 1 /\ Len(wire) \in Nat /\ wire' # <<>>
        /\ \A k \in 1 .. Len(wire) : wire'[k] = wire[k]
        /\ wire'[Len(wire) + 1] = e
        /\ wire = <<>> => Len(wire) = 0
    <3>1. wire' = Append(wire, e)
      BY <2>2, <2>3, <2>4
    <3> QED
      BY <2>3, <2>4, <3>1, AppendIs
  <2>6. /\ wire = <<>> => maxSent <= Latest
        /\ wire # <<>> => wire[1].seqn + Len(wire) - 1 = maxSent
    BY <1>3, <1>7, <2>1 DEF UpToSent
  <2>7. Latest \in Nat
    BY <1>0 DEF Latest, FlowFacts
  <2>8. CASE wire = <<>>
    <3>1. Len(wire') = 1 /\ wire'[1].seqn = maxSent + 1
      BY <2>3, <2>5, <2>8
    <3>2. InStep'
      BY <3>1, <1>0 DEF InStep, FlowFacts
    <3>3. NextUp'
      BY <1>0, <1>1, <1>4, <2>6, <2>7, <2>8, <3>1 DEF NextUp, FlowFacts
    <3>4. UpToSent'
      BY <1>0, <1>1, <2>5, <3>1 DEF UpToSent, FlowFacts
    <3> QED
      BY <1>1, <1>5, <2>1, <3>2, <3>3, <3>4 DEF Fresh
  <2>9. CASE wire # <<>>
    <3>1. Len(wire) \in Nat \ {0} /\ wire[1].seqn \in Nat
      BY <1>0, <2>4, <2>9, TailIs DEF FlowFacts
    <3>2. wire'[1] = wire[1]
      BY <2>5, <3>1
    <3>3. InStep'
      <4> SUFFICES ASSUME NEW k \in 1 .. Len(wire')
                   PROVE  wire'[k].seqn = wire'[1].seqn + k - 1
        BY DEF InStep
      <4>1. CASE k = Len(wire) + 1
        <5>1. wire'[k].seqn = maxSent + 1 /\ maxSent = wire[1].seqn + Len(wire) - 1
          BY <2>3, <2>5, <2>6, <2>9, <4>1
        <5> QED
          BY <3>1, <3>2, <4>1, <5>1
      <4>2. CASE k # Len(wire) + 1
        <5>1. k \in 1 .. Len(wire)
          BY <2>5, <4>2
        <5> QED
          BY <1>3, <2>5, <3>2, <5>1 DEF InStep
      <4> QED
        BY <4>1, <4>2
    <3>4. NextUp'
      BY <1>1, <1>3, <1>4, <2>9, <3>2 DEF NextUp
    <3>5. UpToSent'
      BY <1>0, <1>1, <2>5, <2>6, <2>9, <3>1, <3>2 DEF UpToSent, FlowFacts
    <3> QED
      BY <1>1, <1>5, <2>1, <3>3, <3>4, <3>5 DEF Fresh
  <2> QED
    BY <2>8, <2>9
<1> QED
  BY <1>6, <1>7

\* A resend begins where the acknowledgements end.
LEMMA FlowResume ==
    ASSUME WireInv, Flow, Resume
    PROVE  Flow'
<1> SUFFICES ASSUME ~pausedSend', ~garbled'
             PROVE  (InStep /\ NextUp /\ UpToSent /\ Fresh /\ Taken)'
  BY DEF Flow
<1>0. FlowFacts
  BY FlowFactsHold
<1>1. /\ current' = current + Acked /\ acknowledged' = acknowledged
      /\ acks' = acks /\ maxReceived' = maxReceived
      /\ dispatched' = dispatched /\ garbled' = garbled /\ conn' = "up"
      /\ linkUp' = linkUp /\ maxSent' = maxSent /\ pausedSend' = pausedSend
      /\ conn = "switched"
  BY DEF Resume, receiver
<1>2. InStep /\ NextUp /\ UpToSent /\ Fresh /\ Taken
  BY <1>1 DEF Flow
<1>3. Latest' = Latest /\ Latest \in Nat
  BY <1>0, <1>1 DEF Latest, FlowFacts
<1>4. wire = <<>> /\ acks = <<>>
  BY <1>1, <1>2 DEF Fresh
<1>5. /\ Acked \in Nat /\ current + Acked > acknowledged
      /\ current + Acked <= Latest + 1
  <2>1. /\ Acked \in 0 .. Len(pending) /\ Len(pending) \in Nat
        /\ Acked > 0 => current + Acked - 1 = acknowledged
    BY AckedIs, TypesAre DEF WireInv
  <2>2. Acked = 0 => current > acknowledged
    BY <1>0 DEF Acked, FlowFacts
  <2>3. current <= Latest + 1 /\ acknowledged <= Latest
    BY <1>2 DEF Taken
  <2>4. current \in Nat /\ acknowledged \in Nat
    BY <1>0 DEF FlowFacts
  <2> QED
    BY <1>3, <2>1, <2>2, <2>3, <2>4
<1>6. Taken'
  BY <1>1, <1>2, <1>3, <1>5 DEF Taken
<1>7. Fresh'
  BY <1>1 DEF Fresh
<1>8. CASE ~linkUp
  <2>1. wire' = <<>>
    BY <1>4, <1>8 DEF Resume, Transmit
  <2> QED
    BY <1>1, <1>6, <1>7, <1>8, <2>1 DEF InStep, NextUp, UpToSent
<1>9. CASE linkUp
  <2>1. /\ Resent \in Seq(Wired) /\ Len(Resent) = Len(pending) - Acked
        /\ \A k \in 1 .. Len(Resent) : Resent[k].seqn = current + Acked + k - 1
    BY ResentIs
  <2>2. wire' = Resent
    <3>1. wire' = <<>> \o Resent
      BY <1>4, <1>9 DEF Resume, Transmit
    <3> HIDE DEF Resent, Wired
    <3> QED
      BY <2>1, <3>1
  <2>3. Len(wire') \in Nat /\ (wire' = <<>> <=> Len(wire') = 0)
    <3> HIDE DEF Wired
    <3> QED
      BY <2>1, <2>2
  <2>4. current + Acked + Len(wire') - 1 = maxSent
    <3>1. maxSent = current + Len(pending) - 1 /\ Len(pending) \in Nat
      BY TypesAre DEF WireInv, Consecutive
    <3>2. current \in Nat /\ Acked \in Nat /\ Len(wire') = Len(pending) - Acked
      BY <1>0, <1>5, <2>1, <2>2 DEF FlowFacts
    <3> QED
      BY <3>1, <3>2
  <2>5. current + Acked \in Nat
    BY <1>0, <1>5 DEF FlowFacts
  <2>6. CASE wire' = <<>>
    <3>1. maxSent <= Latest
      BY <1>0, <1>3, <1>5, <2>3, <2>4, <2>5, <2>6 DEF FlowFacts
    <3> QED
      BY <1>1, <1>3, <1>6, <1>7, <2>3, <2>6, <3>1 DEF InStep, NextUp, UpToSent
  <2>7. CASE wire' # <<>>
    <3>1. wire'[1].seqn = current + Acked
      BY <2>1, <2>2, <2>3, <2>5, <2>7
    <3>2. InStep'
      BY <2>1, <2>2, <3>1 DEF InStep
    <3>3. NextUp'
      BY <1>1, <1>3, <1>4, <1>5, <2>5, <3>1 DEF NextUp
    <3>4. UpToSent'
      BY <1>1, <2>4, <2>7, <3>1 DEF UpToSent
    <3> QED
      BY <1>6, <1>7, <3>2, <3>3, <3>4
  <2> QED
    BY <2>6, <2>7
<1> QED
  BY <1>8, <1>9
LEMMA FlowReceive ==
    ASSUME WireInv, Flow, ReceiveAck
    PROVE  Flow'
<1> SUFFICES ASSUME ~pausedSend', ~garbled'
             PROVE  (InStep /\ NextUp /\ UpToSent /\ Fresh /\ Taken)'
  BY DEF Flow
<1>0. FlowFacts
  BY FlowFactsHold
<1>1. /\ current' = current /\ maxReceived' = maxReceived /\ wire' = wire
      /\ dispatched' = dispatched /\ garbled' = garbled /\ conn' = conn
      /\ linkUp' = linkUp /\ maxSent' = maxSent /\ pausedSend' = pausedSend
      /\ conn = "up" /\ acks # <<>> /\ acks' = Tail(acks)
      /\ acknowledged' = AckHighest(Head(acks))
  BY DEF ReceiveAck, receiver
<1>2. InStep /\ NextUp /\ UpToSent /\ Fresh /\ Taken
  BY <1>1 DEF Flow
<1>3. Latest' = Latest /\ Latest \in Nat
  BY <1>0, <1>1 DEF Latest, FlowFacts
<1>4. /\ Len(acks) \in Nat \ {0} /\ Head(acks) = acks[1] /\ acks[1] \in Nat
      /\ Len(acks') = Len(acks) - 1
      /\ \A k \in 1 .. Len(acks) - 1 : acks'[k] = acks[k + 1]
  BY <1>0, <1>1, TailIs DEF FlowFacts
<1>5. acknowledged' = acknowledged \/ acknowledged' = acks[1]
  BY <1>1, <1>4 DEF AckHighest
<1>6. Taken'
  <2>1. acknowledged' <= Latest
    BY <1>2, <1>4, <1>5 DEF Taken
  <2>2. \A k \in 1 .. Len(acks') : acks'[k] <= Latest
    BY <1>2, <1>4 DEF Taken
  <2> QED
    BY <1>1, <1>2, <1>3, <2>1, <2>2 DEF Taken
<1>7. NextUp'
  <2> SUFFICES ASSUME wire # <<>>
               PROVE  /\ wire[1].seqn > acknowledged'
                      /\ \A k \in 1 .. Len(acks') : acks'[k] < wire[1].seqn
    BY <1>1, <1>2, <1>3 DEF NextUp
  <2>1. wire[1].seqn > acknowledged /\ \A k \in 1 .. Len(acks) : acks[k] < wire[1].seqn
    BY <1>2 DEF NextUp
  <2>2. Len(wire) \in Nat \ {0}
    <3> HIDE DEF Wired
    <3> QED
      BY <1>0, TailIs DEF FlowFacts
  <2>3. wire[1].seqn \in Nat
    BY <1>0, <2>2 DEF FlowFacts
  <2>4. wire[1].seqn > acks[1]
    BY <1>4, <2>1, <2>3
  <2> QED
    BY <1>4, <1>5, <2>1, <2>4
<1> QED
  BY <1>1, <1>2, <1>3, <1>6, <1>7 DEF InStep, UpToSent, Fresh

LEMMA FlowConnect ==
    ASSUME WireInv, Flow, Connect
    PROVE  Flow'
<1> SUFFICES ASSUME ~pausedSend', ~garbled'
             PROVE  (InStep /\ NextUp /\ UpToSent /\ Fresh /\ Taken)'
  BY DEF Flow
<1>1. /\ current' = current /\ acknowledged' = acknowledged
      /\ maxReceived' = maxReceived /\ dispatched' = dispatched
      /\ garbled' = garbled /\ pausedSend' = pausedSend
      /\ conn' = "switched" /\ wire' = <<>> /\ acks' = <<>>
  BY DEF Connect
<1>2. Taken /\ Latest' = Latest
  BY <1>1 DEF Flow, Latest
<1>3. Len(<<>>) = 0
  OBVIOUS
<1>4. Taken'
  BY <1>1, <1>2, <1>3 DEF Taken
<1> QED
  BY <1>1, <1>3, <1>4 DEF InStep, NextUp, UpToSent, Fresh

LEMMA FlowBreak ==
    ASSUME WireInv, Flow, Break
    PROVE  Flow'
<1> SUFFICES ASSUME ~pausedSend', ~garbled'
             PROVE  (InStep /\ NextUp /\ UpToSent /\ Fresh /\ Taken)'
  BY DEF Flow
<1>0. FlowFacts
  BY FlowFactsHold
<1>1. /\ current' = current /\ acknowledged' = acknowledged
      /\ maxReceived' = maxReceived /\ dispatched' = dispatched
      /\ garbled' = garbled /\ pausedSend' = pausedSend /\ conn' = conn
      /\ ~linkUp' /\ wire' \in Prefixes(wire) /\ acks' \in Prefixes(acks)
  BY DEF Break, sender, receiver
<1>2. InStep /\ NextUp /\ Fresh /\ Taken
  BY <1>1 DEF Flow
<1>3. Latest' = Latest
  BY <1>1 DEF Latest
<1>4. /\ wire' \in Seq(Wired) /\ Len(wire') <= Len(wire)
      /\ \A k \in 1 .. Len(wire') : wire'[k] = wire[k]
  <2> HIDE DEF Wired
  <2> QED
    BY <1>0, <1>1, PrefixIs DEF FlowFacts
<1>5. /\ acks' \in Seq(Nat) /\ Len(acks') <= Len(acks)
      /\ \A k \in 1 .. Len(acks') : acks'[k] = acks[k]
  BY <1>0, <1>1, PrefixIs DEF FlowFacts
<1>6. /\ Len(wire) \in Nat /\ Len(acks) \in Nat
      /\ Len(wire') \in Nat /\ Len(acks') \in Nat
      /\ wire' # <<>> => Len(wire') > 0
      /\ acks' # <<>> => Len(acks') > 0
      /\ wire = <<>> <=> Len(wire) = 0
      /\ acks = <<>> <=> Len(acks) = 0
  <2> HIDE DEF Wired
  <2> QED
    BY <1>0, <1>4, <1>5 DEF FlowFacts
<1>7. wire' # <<>> => wire'[1] = wire[1] /\ wire # <<>>
  BY <1>4, <1>6
<1>8. InStep'
  BY <1>2, <1>4, <1>6, <1>7 DEF InStep
<1>9. NextUp'
  BY <1>1, <1>2, <1>3, <1>5, <1>6, <1>7 DEF NextUp
<1>10. Fresh' /\ UpToSent'
  BY <1>1, <1>2, <1>4, <1>5, <1>6 DEF Fresh, UpToSent
<1>11. Taken'
  BY <1>1, <1>2, <1>3, <1>5, <1>6 DEF Taken
<1> QED
  BY <1>8, <1>9, <1>10, <1>11

\* The counterpart takes the first package under way: it is the next one or, for
\* a counterpart that has taken it before, the very first.
LEMMA FlowRead ==
    ASSUME WireInv, Flow, DispatchedInSequence, ReadPackage
    PROVE  Flow' /\ DispatchedInSequence'
<1>0. FlowFacts
  BY FlowFactsHold
<1> DEFINE n == wire[1].seqn
<1>1. /\ Len(wire) \in Nat \ {0} /\ Head(wire) = wire[1]
      /\ wire' = Tail(wire) /\ Len(wire') = Len(wire) - 1
      /\ wire' = <<>> <=> Len(wire') = 0
      /\ \A k \in 1 .. Len(wire) - 1 : wire'[k] = wire[k + 1]
  <2>1. wire # <<>> /\ wire' = Tail(wire)
    BY DEF ReadPackage
  <2>2. wire' \in Seq(Wired) /\ wire \in Seq(Wired)
    BY <1>0, <2>1, TailIs DEF FlowFacts
  <2> HIDE DEF Wired
  <2> QED
    BY <2>1, <2>2, TailIs
<1>2. n \in Nat \ {0} /\ wire[1].put = n
  BY <1>0, <1>1 DEF FlowFacts
<1>3. /\ current' = current /\ acknowledged' = acknowledged
      /\ maxSent' = maxSent /\ conn' = conn /\ linkUp' = linkUp
      /\ pausedSend' = pausedSend
  BY DEF ReadPackage, sender
<1>4. /\ acks' = IF linkUp THEN Append(acks, n) ELSE acks
      /\ Duplicate(n) => /\ garbled' = TRUE /\ dispatched' = dispatched
      /\ ~Duplicate(n) =>
           /\ maxReceived' = n /\ garbled' = garbled
           /\ dispatched' = IF garbled THEN dispatched ELSE Append(dispatched, n)
  <2> HIDE DEF n
  <2>1. Head(wire).seqn = n /\ Head(wire).put = n
    BY <1>1, <1>2 DEF n
  <2> QED
    BY <2>1 DEF ReadPackage
<1> HIDE DEF n
<1>5. CASE pausedSend
  BY <1>3, <1>5 DEF Flow, DispatchedInSequence
<1>6. CASE ~pausedSend /\ garbled'
  <2>1. dispatched' = dispatched
    BY <1>4, <1>6
  <2> QED
    BY <1>3, <1>6, <2>1 DEF Flow, DispatchedInSequence
<1>7. CASE ~pausedSend /\ ~garbled'
  <2>1. ~Duplicate(n) /\ ~garbled /\ maxReceived' = n
        /\ dispatched' = Append(dispatched, n)
    BY <1>4, <1>7
  <2>2. InStep /\ NextUp /\ UpToSent /\ Fresh /\ Taken
    BY <1>7, <2>1 DEF Flow
  <2>3. /\ Len(dispatched') = Len(dispatched) + 1 /\ Len(dispatched) \in Nat
        /\ dispatched' # <<>> /\ dispatched'[Len(dispatched) + 1] = n
        /\ \A k \in 1 .. Len(dispatched) : dispatched'[k] = dispatched[k]
    <3>1. dispatched \in Seq(Nat) /\ n \in Nat
      BY <1>0, <1>2 DEF FlowFacts
    <3> QED
      BY <2>1, <3>1, AppendIs
  <2>4. Latest' = n /\ Latest \in Nat
    BY <1>0, <2>1, <2>3 DEF Latest, FlowFacts
  <2>5. /\ n >= current /\ n <= Latest + 1 /\ n > acknowledged
        /\ \A k \in 1 .. Len(acks) : acks[k] < n
    BY <1>1, <2>2 DEF NextUp, n
  <2>6. n = 1 \/ n = Latest + 1
    <3>1. CASE dispatched = <<>>
      BY <1>2, <2>5, <3>1 DEF Latest
    <3>2. CASE dispatched # <<>>
      <4>1. Latest = maxReceived
        BY <3>2 DEF Latest
      <4>2. n > maxReceived \/ n = 1
        BY <1>0, <1>2, <2>1 DEF Duplicate, FlowFacts
      <4> QED
        BY <1>2, <2>4, <2>5, <4>1, <4>2
    <3> QED
      BY <3>1, <3>2
  <2>7. /\ acks' \in Seq(Nat) /\ Len(acks') \in Nat
        /\ \A k \in 1 .. Len(acks') : acks'[k] <= n
    <3>1. acks \in Seq(Nat)
      BY <1>0 DEF FlowFacts
    <3>2. CASE ~linkUp
      <4>1. acks' = acks /\ Len(acks) \in Nat
        BY <1>4, <3>1, <3>2
      <4>2. \A k \in 1 .. Len(acks) : acks[k] \in Nat
        BY <1>0 DEF FlowFacts
      <4> QED
        BY <1>2, <2>5, <3>1, <4>1, <4>2
    <3>3. CASE linkUp
      <4>1. /\ acks' \in Seq(Nat) /\ Len(acks') = Len(acks) + 1 /\ Len(acks) \in Nat
            /\ acks'[Len(acks) + 1] = n
            /\ \A k \in 1 .. Len(acks) : acks'[k] = acks[k]
        <5>1. acks' = Append(acks, n)
          BY <1>4, <3>3
        <5> QED
          BY <1>2, <3>1, <5>1, AppendIs
      <4>2. \A k \in 1 .. Len(acks) : acks[k] \in Nat
        BY <1>0 DEF FlowFacts
      <4> QED
        BY <1>2, <2>5, <4>1, <4>2
    <3> QED
      BY <3>2, <3>3
  <2>8. Taken'
    <3>1. \A m \in 1 .. n : \E k \in 1 .. Len(dispatched') : dispatched'[k] = m
      <4> TAKE m \in 1 .. n
      <4>1. CASE m = n
        <5>1. Len(dispatched) + 1 \in 1 .. Len(dispatched')
          BY <2>3
        <5> QED
          BY <2>3, <4>1, <5>1
      <4>2. CASE m # n
        <5>1. m \in 1 .. Latest
          BY <1>2, <2>4, <2>6, <4>2
        <5>2. PICK k \in 1 .. Len(dispatched) : dispatched[k] = m
          BY <2>2, <5>1 DEF Taken
        <5>3. k \in 1 .. Len(dispatched') /\ dispatched'[k] = m
          BY <2>3, <5>2
        <5> QED
          BY <5>3
      <4> QED
        BY <4>1, <4>2
    <3>2. current' <= n + 1 /\ acknowledged' <= n
      BY <1>0, <1>2, <1>3, <2>5 DEF FlowFacts
    <3> QED
      BY <2>1, <2>3, <2>4, <2>7, <3>1, <3>2 DEF Taken
  <2>9. wire' # <<>> => 1 \in 1 .. Len(wire) - 1 /\ wire'[1].seqn = n + 1
    <3> SUFFICES ASSUME wire' # <<>>
                 PROVE  1 \in 1 .. Len(wire) - 1 /\ wire'[1].seqn = n + 1
      OBVIOUS
    <3>1. 1 \in 1 .. Len(wire) - 1 /\ 2 \in 1 .. Len(wire)
      BY <1>1
    <3>2. wire'[1] = wire[2] /\ wire[2].seqn = wire[1].seqn + 2 - 1
      BY <1>1, <2>2, <3>1 DEF InStep
    <3> QED
      BY <1>2, <3>1, <3>2 DEF n
  <2>10. InStep'
    <3> SUFFICES ASSUME NEW k \in 1 .. Len(wire')
                 PROVE  wire'[k].seqn = wire'[1].seqn + k - 1
      BY DEF InStep
    <3>1. k + 1 \in 1 .. Len(wire) /\ wire'[k] = wire[k + 1] /\ wire' # <<>>
      BY <1>1
    <3>2. wire[k + 1].seqn = n + (k + 1) - 1
      BY <2>2, <3>1 DEF InStep, n
    <3> QED
      BY <1>2, <2>9, <3>1, <3>2
  <2>11. NextUp'
    <3> SUFFICES ASSUME wire' # <<>> PROVE NextUp'
      BY DEF NextUp
    <3>1. \A k \in 1 .. Len(acks') : acks'[k] < n + 1
      <4>1. \A k \in 1 .. Len(acks') : acks'[k] \in Nat
        BY <2>7
      <4> QED
        BY <1>2, <2>7, <4>1
    <3>2. /\ current' <= n + 1 /\ acknowledged' < n + 1
      BY <1>0, <1>2, <1>3, <2>5 DEF FlowFacts
    <3>3. /\ wire'[1].seqn = n + 1 /\ Latest' = n
      BY <2>4, <2>9
    <3> QED
      BY <1>0, <1>2, <1>3, <3>1, <3>2, <3>3 DEF NextUp, FlowFacts
  <2>12. UpToSent'
    <3> SUFFICES ASSUME linkUp, conn = "up"
                 PROVE  IF wire' = <<>> THEN maxSent <= n
                        ELSE wire'[1].seqn + Len(wire') - 1 = maxSent
      BY <1>3, <2>4 DEF UpToSent
    <3>1. n + Len(wire) - 1 = maxSent
      <4>1. wire # <<>>
        BY DEF ReadPackage
      <4> QED
        BY <2>2, <4>1 DEF UpToSent, n
    <3>2. CASE wire' = <<>>
      BY <1>1, <1>2, <3>1, <3>2
    <3>3. CASE wire' # <<>>
      <4>1. wire'[1].seqn = n + 1 /\ Len(wire') = Len(wire) - 1
            /\ Len(wire) \in Nat /\ n \in Nat
        BY <1>1, <1>2, <2>9, <3>3
      <4>2. wire'[1].seqn + Len(wire') - 1 = maxSent
        BY <3>1, <4>1
      <4> QED
        BY <3>3, <4>2
    <3> QED
      BY <3>2, <3>3
  <2>13. Fresh'
    <3>1. wire # <<>>
      BY DEF ReadPackage
    <3> QED
      BY <1>3, <2>2, <3>1 DEF Fresh
  <2>14. DispatchedInSequence'
    <3> SUFFICES ASSUME NEW k \in 1 .. Len(dispatched')
                 PROVE  \/ dispatched'[k] = 1
                        \/ k > 1 /\ dispatched'[k] = dispatched'[k - 1] + 1
      BY DEF DispatchedInSequence
    <3>1. CASE k = Len(dispatched) + 1
      <4>1. dispatched'[k] = n
        BY <2>3, <3>1
      <4>2. CASE n = 1
        BY <4>1, <4>2
      <4>3. CASE n # 1
        <5>1. n = Latest + 1 /\ Latest > 0
          BY <1>2, <2>4, <2>6, <4>3
        <5>2. dispatched # <<>>
          BY <5>1 DEF Latest
        <5>3. dispatched[Len(dispatched)] = Latest
          BY <2>2, <5>2 DEF Taken, Latest
        <5>4. Len(dispatched) \in 1 .. Len(dispatched)
          BY <1>0, <5>2, TailIs DEF FlowFacts
        <5>5. k - 1 = Len(dispatched) /\ dispatched'[k - 1] = Latest /\ k > 1
          BY <2>3, <3>1, <5>3, <5>4
        <5> QED
          BY <4>1, <5>1, <5>5
      <4> QED
        BY <4>2, <4>3
    <3>2. CASE k # Len(dispatched) + 1
      <4>1. k \in 1 .. Len(dispatched)
        BY <2>3, <3>2
      <4>2. \/ dispatched[k] = 1
            \/ k > 1 /\ dispatched[k] = dispatched[k - 1] + 1
        BY <1>7, <4>1 DEF DispatchedInSequence
      <4>3. k > 1 => k - 1 \in 1 .. Len(dispatched)
        BY <4>1
      <4> QED
        BY <2>3, <4>1, <4>2, <4>3
    <3> QED
      BY <3>1, <3>2
  <2> QED
    BY <2>8, <2>10, <2>11, <2>12, <2>13, <2>14 DEF Flow
<1> QED
  BY <1>5, <1>6, <1>7
LEMMA FlowRestart ==
    ASSUME Restart
    PROVE  Flow' /\ DispatchedInSequence'
<1>1. /\ current' = 1 /\ acknowledged' = 0 /\ maxSent' = 0 /\ conn' = "down"
      /\ wire' = <<>> /\ acks' = <<>> /\ dispatched' = <<>>
  BY DEF Restart
<1>2. Len(<<>>) = 0
  OBVIOUS
<1> QED
  BY <1>1, <1>2 DEF Flow, InStep, NextUp, UpToSent, Fresh, Taken, Latest,
     DispatchedInSequence

LEMMA LinkStatesStep ==
    ASSUME LinkStates, [Next]_vars
    PROVE  LinkStates'
<1> USE DEF LinkStates
<1>1. CASE Put \/ Stop \/ CleanUp \/ TakeData \/ ProcessEnds \/ ThreadReturns
           \/ ReaderSeesEnd \/ ReceiveAck \/ ReadPackage \/ UNCHANGED vars
  <2>1. UNCHANGED <<conn, linkUp>>
    BY <1>1 DEF Put, Stop, CleanUp, TakeData, ProcessEnds, ThreadReturns,
       ReaderSeesEnd, ReceiveAck, ReadPackage, vars, sender, link
  <2> QED
    BY <2>1
<1>2. CASE ProcessOne \/ Connect \/ Resume
  BY <1>2 DEF ProcessOne, Connect, Resume
<1>3. CASE GivesUp \/ Break \/ Restart
  BY <1>3 DEF GivesUp, Break, Restart
<1>4. CASE SeesEnd \/ Pause
  BY <1>4 DEF SeesEnd, Pause, link
<1> QED
  BY <1>1, <1>2, <1>3, <1>4 DEF Next, BufferThread, ConnThread, Counterpart

LEMMA FlowStep ==
    ASSUME WireInv, FlowInv, [Next]_vars
    PROVE  FlowInv'
<1>1. LinkStates'
  BY LinkStatesStep DEF FlowInv
<1>2. CASE Put \/ TakeData \/ Idle
  <2>1. /\ UNCHANGED <<wire, acks, current, acknowledged, maxSent, maxReceived,
                       garbled, dispatched, pausedSend>>
        /\ linkUp' /\ conn' = "up" => linkUp /\ conn = "up"
        /\ conn' = "switched" => conn = "switched"
    <3>1. CASE Put \/ TakeData \/ Stop \/ CleanUp \/ ProcessEnds \/ ThreadReturns
               \/ ReaderSeesEnd \/ UNCHANGED vars
      BY <3>1 DEF Put, TakeData, Stop, CleanUp, ProcessEnds, ThreadReturns,
         ReaderSeesEnd, vars, sender, link, receiver
    <3>2. CASE GivesUp \/ SeesEnd \/ Pause
      BY <3>2 DEF GivesUp, SeesEnd, Pause, link, receiver
    <3> QED
      BY <1>2, <3>1, <3>2 DEF Idle
  <2>2. Flow'
    BY <2>1, FlowStays DEF FlowInv
  <2>3. DispatchedInSequence'
    BY <2>1 DEF FlowInv, DispatchedInSequence
  <2> QED
    BY <1>1, <2>2, <2>3 DEF FlowInv
<1>3. CASE ProcessOne \/ Resume \/ ReceiveAck \/ Connect \/ Break
  <2>1. Flow'
    BY <1>3, FlowProcess, FlowResume, FlowReceive, FlowConnect, FlowBreak
       DEF FlowInv
  <2>2. dispatched' = dispatched /\ (pausedSend => pausedSend')
    <3>1. CASE ProcessOne
      <4>1. dispatched' = dispatched
        BY <3>1 DEF ProcessOne, receiver
      <4>2. pausedSend => pausedSend'
        BY <3>1, Zenon DEF ProcessOne
      <4> QED
        BY <4>1, <4>2
    <3>2. CASE Resume \/ ReceiveAck \/ Connect \/ Break
      BY <3>2 DEF Resume, ReceiveAck, Connect, Break, sender, receiver
    <3> QED
      BY <1>3, <3>1, <3>2
  <2>3. DispatchedInSequence'
    BY <2>2 DEF FlowInv, DispatchedInSequence
  <2> QED
    BY <1>1, <2>1, <2>3 DEF FlowInv
<1>4. CASE ReadPackage \/ Restart
  BY <1>1, <1>4, FlowRead, FlowRestart DEF FlowInv
<1> QED
  BY <1>2, <1>3, <1>4, StepIs

LEMMA WireFlow == Spec => [](WireInv /\ FlowInv)
<1>1. ASSUME Init PROVE FlowInv
  <2>1. Len(<<>>) = 0
    OBVIOUS
  <2>2. LinkStates /\ DispatchedInSequence
    BY <1>1, <2>1 DEF Init, LinkStates, DispatchedInSequence
  <2>3. Flow
    BY <1>1, <2>1
       DEF Init, Flow, InStep, NextUp, UpToSent, Fresh, Taken, Latest
  <2> QED
    BY <2>2, <2>3 DEF FlowInv
<1>2. WireInv /\ FlowInv /\ [Next]_vars => FlowInv'
  BY FlowStep
<1> QED
  BY <1>1, <1>2, WireInvariant, PTL DEF Spec

\* Unless a package went out while the buffer was paused, messages are dispatched
\* one after the other, or from the first again: a resend begins where the
\* acknowledgements end, and no connection carries more than one of them.
THEOREM WireDispatchedInSequence == Spec => []DispatchedInSequence
<1>1. FlowInv => DispatchedInSequence
  BY DEF FlowInv
<1> QED
  BY <1>1, WireFlow, PTL

\* With the same exception, and until the stream is garbled, what the sender
\* forgets as acknowledged was dispatched.
THEOREM WireLostOnlyByOvertaking == Spec => []LostOnlyByOvertaking
<1>1. ASSUME WireInv, FlowInv PROVE LostOnlyByOvertaking
  <2> SUFFICES ASSUME ~pausedSend, ~garbled, NEW n \in 1 .. acknowledged
               PROVE  \E k \in 1 .. Len(dispatched) : dispatched[k] = n
    BY DEF LostOnlyByOvertaking
  <2>1. Taken
    BY <1>1 DEF FlowInv, Flow
  <2>2. Latest \in Nat /\ acknowledged \in Nat
    BY <1>1, FlowFactsHold DEF FlowFacts, Latest
  <2>3. n \in 1 .. Latest
    BY <2>1, <2>2 DEF Taken
  <2> QED
    BY <2>1, <2>3 DEF Taken
<1> QED
  BY <1>1, WireFlow, PTL
-----------------------------------------------------------------------------
(* The answer to the last package *)

\* On a connection in use the last package sent is acknowledged, or it or its
\* acknowledgement is under way.
AnswerUnderWay ==
    \/ acknowledged >= maxSent
    \/ \E k \in 1 .. Len(wire) : wire[k].seqn = maxSent
    \/ \E k \in 1 .. Len(acks) : acks[k] = maxSent

\* Only what is acknowledged is forgotten, so what a connection starts with is
\* acknowledged or sent again.
AnswerDue ==
    /\ current <= acknowledged + 1
    /\ conn = "up" /\ linkUp => AnswerUnderWay

\* When nothing is under way on a connection in use, all is acknowledged: no
\* break, resend, repeat, failed send, overtaking or garbled stream leaves the
\* buffer waiting for an acknowledgement that nobody will send.
AllAnswered ==
    conn = "up" /\ linkUp /\ wire = <<>> /\ acks = <<>> => acknowledged = maxSent

LEMMA JoinIs ==
    ASSUME NEW a \in Seq(Wired), NEW b \in Seq(Wired)
    PROVE  /\ Len(a \o b) = Len(a) + Len(b) /\ Len(a) \in Nat /\ Len(b) \in Nat
           /\ \A k \in 1 .. Len(a) : (a \o b)[k] = a[k]
           /\ \A k \in 1 .. Len(b) : (a \o b)[Len(a) + k] = b[k]
<1> HIDE DEF Wired
<1> QED
  OBVIOUS

LEMMA AnswerDueStep ==
    ASSUME WireInv, AnswerDue, [Next]_vars
    PROVE  AnswerDue'
<1> USE DEF sender, link, receiver
<1>0. FlowFacts
  BY FlowFactsHold
<1>1. ASSUME UNCHANGED <<current, acknowledged>>,
             conn' = "up" /\ linkUp' =>
               conn = "up" /\ linkUp /\ UNCHANGED <<maxSent, wire, acks>>
      PROVE  AnswerDue'
  BY <1>1 DEF AnswerDue, AnswerUnderWay
<1>2. CASE \/ Put \/ TakeData \/ Stop \/ CleanUp \/ ProcessEnds \/ ThreadReturns
           \/ GivesUp \/ SeesEnd \/ Pause \/ ReaderSeesEnd \/ Connect \/ Break
           \/ UNCHANGED vars
  BY <1>1, <1>2 DEF Put, TakeData, Stop, CleanUp, ProcessEnds, ThreadReturns,
     GivesUp, SeesEnd, Pause, ReaderSeesEnd, Connect, Break, vars
<1>3. CASE ProcessOne
  <2> DEFINE b == <<Package(maxSent + 1, Head(queue))>>
  <2>1. /\ Transmit(b) /\ maxSent' = maxSent + 1
        /\ UNCHANGED <<current, acknowledged, conn, linkUp, acks>>
    BY <1>3 DEF ProcessOne
  <2>2. b \in Seq(Wired) /\ Len(b) = 1 /\ b[1].seqn = maxSent + 1
    <3>1. queue \in Seq(Nat) /\ queue # <<>> /\ maxSent \in Nat
      BY <1>3, TypesAre DEF WireInv, ProcessOne
    <3> QED
      BY <3>1 DEF Package, Wired
  <2> HIDE DEF b
  <2>3. CASE linkUp
    <3>1. wire' = wire \o b /\ wire \in Seq(Wired)
      BY <1>0, <2>1, <2>3 DEF Transmit, FlowFacts
    <3>2. /\ Len(wire \o b) = Len(wire) + Len(b) /\ Len(wire) \in Nat
          /\ \A k \in 1 .. Len(b) : (wire \o b)[Len(wire) + k] = b[k]
      BY <2>2, <3>1, JoinIs
    <3>3. Len(wire') = Len(wire) + 1 /\ wire'[Len(wire) + 1] = b[1]
      BY <2>2, <3>1, <3>2
    <3> QED
      BY <2>1, <2>2, <3>2, <3>3 DEF AnswerDue, AnswerUnderWay
  <2>4. CASE ~linkUp
    BY <2>1, <2>4 DEF AnswerDue
  <2> QED
    BY <2>3, <2>4
<1>4. CASE Resume
  <2>1. /\ Transmit(Resent) /\ current' = current + Acked
        /\ UNCHANGED <<maxSent, acknowledged, linkUp, acks>>
    BY <1>4 DEF Resume
  <2>2. /\ Acked \in 0 .. Len(pending) /\ Len(pending) \in Nat
        /\ Acked > 0 => current + Acked - 1 = acknowledged
        /\ maxSent = current + Len(pending) - 1
        /\ current \in Nat /\ acknowledged \in Nat /\ maxSent \in Nat
    <3>1. /\ Len(pending) \in Nat /\ current \in Nat
          /\ acknowledged \in Nat /\ maxSent \in Nat
      BY TypesAre DEF WireInv
    <3> QED
      BY <3>1, AckedIs DEF WireInv, Consecutive
  <2>3. current' <= acknowledged' + 1
    BY <2>1, <2>2 DEF AnswerDue
  <2>4. CASE Acked = Len(pending)
    <3>1. acknowledged >= maxSent
      BY <2>2, <2>4 DEF AnswerDue
    <3> QED
      BY <2>1, <2>3, <3>1 DEF AnswerDue, AnswerUnderWay
  <2>5. CASE Acked # Len(pending) /\ linkUp
    <3>1. /\ Resent \in Seq(Wired) /\ Len(Resent) = Len(pending) - Acked
          /\ Resent[Len(Resent)].seqn = maxSent
      <4>1. /\ Resent \in Seq(Wired) /\ Len(Resent) = Len(pending) - Acked
            /\ \A k \in 1 .. Len(Resent) : Resent[k].seqn = current + Acked + k - 1
        BY ResentIs
      <4>2. Len(Resent) \in 1 .. Len(Resent)
        BY <2>2, <2>5, <4>1
      <4> QED
        BY <2>2, <4>1, <4>2
    <3>2. wire' = wire \o Resent /\ wire \in Seq(Wired)
      BY <1>0, <2>1, <2>5 DEF Transmit, FlowFacts
    <3>3. /\ Len(wire') = Len(wire) + Len(Resent) /\ Len(wire) \in Nat
          /\ \A k \in 1 .. Len(Resent) : wire'[Len(wire) + k] = Resent[k]
      BY <3>1, <3>2, JoinIs
    <3>4. /\ Len(wire) + Len(Resent) \in 1 .. Len(wire')
          /\ wire'[Len(wire) + Len(Resent)] = Resent[Len(Resent)]
      BY <2>2, <2>5, <3>1, <3>3
    <3> QED
      BY <2>1, <2>3, <3>1, <3>4 DEF AnswerDue, AnswerUnderWay
  <2>6. CASE ~linkUp
    BY <2>1, <2>3, <2>6 DEF AnswerDue
  <2> QED
    BY <2>4, <2>5, <2>6
<1>5. CASE ReceiveAck
  <2>1. /\ acks # <<>> /\ acks' = Tail(acks)
        /\ acknowledged' = IF Head(acks) > acknowledged THEN Head(acks) ELSE acknowledged
        /\ UNCHANGED <<current, maxSent, conn, linkUp, wire>>
    BY <1>5 DEF ReceiveAck, AckHighest
  <2>2. /\ Head(acks) = acks[1] /\ acks[1] \in Nat /\ Len(acks) \in Nat \ {0}
        /\ Len(Tail(acks)) = Len(acks) - 1
        /\ \A k \in 1 .. Len(acks) - 1 : Tail(acks)[k] = acks[k + 1]
        /\ acknowledged \in Nat /\ maxSent \in Nat /\ current \in Nat
    BY <1>0, <2>1, TailIs DEF FlowFacts
  <2>3. acknowledged' >= acknowledged /\ acknowledged' >= acks[1] /\ acknowledged' \in Nat
    BY <2>1, <2>2
  <2>4. AnswerUnderWay => AnswerUnderWay'
    <3>1. CASE acknowledged >= maxSent
      BY <2>1, <2>2, <2>3, <3>1 DEF AnswerUnderWay
    <3>2. CASE \E k \in 1 .. Len(wire) : wire[k].seqn = maxSent
      BY <2>1, <3>2 DEF AnswerUnderWay
    <3>3. ASSUME NEW k \in 1 .. Len(acks), acks[k] = maxSent
          PROVE  AnswerUnderWay'
      <4>1. CASE k = 1
        BY <2>1, <2>2, <2>3, <3>3, <4>1 DEF AnswerUnderWay
      <4>2. CASE k # 1
        <5>1. k - 1 \in 1 .. Len(acks') /\ acks'[k - 1] = acks[k]
          BY <2>1, <2>2, <4>2
        <5> QED
          BY <2>1, <3>3, <5>1 DEF AnswerUnderWay
      <4> QED
        BY <4>1, <4>2
    <3> QED
      BY <3>1, <3>2, <3>3 DEF AnswerUnderWay
  <2>5. current' <= acknowledged' + 1
    BY <2>1, <2>2, <2>3 DEF AnswerDue
  <2> QED
    BY <2>1, <2>4, <2>5 DEF AnswerDue
<1>6. CASE ReadPackage
  <2>1. /\ wire # <<>> /\ wire' = Tail(wire)
        /\ linkUp => acks' = Append(acks, Head(wire).seqn)
        /\ UNCHANGED <<current, acknowledged, maxSent, conn, linkUp>>
    BY <1>6 DEF ReadPackage
  <2>2. /\ Head(wire) = wire[1] /\ wire[1].seqn \in Nat /\ Len(wire) \in Nat \ {0}
        /\ Len(Tail(wire)) = Len(wire) - 1
        /\ \A k \in 1 .. Len(wire) - 1 : Tail(wire)[k] = wire[k + 1]
    <3> HIDE DEF Wired
    <3>1. /\ Head(wire) = wire[1] /\ wire[1] \in Wired /\ Len(wire) \in Nat \ {0}
          /\ Len(Tail(wire)) = Len(wire) - 1
          /\ \A k \in 1 .. Len(wire) - 1 : Tail(wire)[k] = wire[k + 1]
      BY <1>0, <2>1, TailIs DEF FlowFacts
    <3> QED
      BY <3>1 DEF Wired
  <2>3. ASSUME linkUp, AnswerUnderWay PROVE AnswerUnderWay'
    <3>1. /\ Len(acks') = Len(acks) + 1 /\ Len(acks) \in Nat
          /\ \A k \in 1 .. Len(acks) : acks'[k] = acks[k]
          /\ acks'[Len(acks) + 1] = wire[1].seqn
      <4> DEFINE n == wire[1].seqn
      <4>1. n \in Nat /\ acks \in Seq(Nat) /\ acks' = Append(acks, n)
        BY <1>0, <2>1, <2>2, <2>3 DEF FlowFacts
      <4> HIDE DEF n
      <4>2. /\ Len(acks') = Len(acks) + 1 /\ Len(acks) \in Nat
            /\ \A k \in 1 .. Len(acks) : acks'[k] = acks[k]
            /\ acks'[Len(acks) + 1] = n
        BY <4>1, AppendIs
      <4> QED
        BY <4>2 DEF n
    <3>2. CASE acknowledged >= maxSent
      BY <2>1, <3>2 DEF AnswerUnderWay
    <3>3. ASSUME NEW k \in 1 .. Len(wire), wire[k].seqn = maxSent
          PROVE  AnswerUnderWay'
      <4>1. CASE k = 1
        BY <2>1, <3>1, <3>3, <4>1 DEF AnswerUnderWay
      <4>2. CASE k # 1
        <5>1. k - 1 \in 1 .. Len(wire') /\ wire'[k - 1] = wire[k]
          BY <2>1, <2>2, <4>2
        <5> QED
          BY <2>1, <3>3, <5>1 DEF AnswerUnderWay
      <4> QED
        BY <4>1, <4>2
    <3>4. ASSUME NEW k \in 1 .. Len(acks), acks[k] = maxSent
          PROVE  AnswerUnderWay'
      BY <2>1, <3>1, <3>4 DEF AnswerUnderWay
    <3> QED
      BY <2>3, <3>2, <3>3, <3>4 DEF AnswerUnderWay
  <2> QED
    BY <2>1, <2>3 DEF AnswerDue
<1>7. CASE Restart
  BY <1>7 DEF Restart, AnswerDue
<1> QED
  BY <1>2, <1>3, <1>4, <1>5, <1>6, <1>7
     DEF Next, BufferThread, ConnThread, Counterpart

\* The last package sent on a connection in use is answered or its answer is due,
\* so that a connection with nothing under way has all acknowledged.
THEOREM WireAllAnswered == Spec => []AllAnswered
<1>1. Init => AnswerDue
  BY DEF Init, AnswerDue
<1>2. ASSUME WireInv, AnswerDue PROVE AllAnswered
  <2> SUFFICES ASSUME conn = "up", linkUp, wire = <<>>, acks = <<>>
               PROVE  acknowledged = maxSent
    BY DEF AllAnswered
  <2>1. acknowledged >= maxSent
    BY <1>2 DEF AnswerDue, AnswerUnderWay
  <2> QED
    BY <1>2, <2>1, FlowFactsHold DEF FlowFacts
<1> QED
  BY <1>1, <1>2, WireInvariant, AnswerDueStep, PTL DEF Spec
-----------------------------------------------------------------------------
(* The acknowledgements that increase *)

\* Acknowledgements under way rise, and from above the last that came.
AcksRise ==
    ~pausedSend /\ ~garbled =>
        /\ \A k \in 1 .. Len(acks) : acks[k] > acknowledged
        /\ \A j, k \in 1 .. Len(acks) : j < k => acks[j] < acks[k]

\* ByteBufferAsyncProcessor::acknowledge is called with a greater number than the
\* last, as its comment asks, while no package was repeated or has overtaken
\* another: AcksIncrease fails only then.
AcksIncreaseUnrepeated ==
    [][ ReceiveAck /\ ~pausedSend /\ ~garbled => Head(acks) > acknowledged ]_vars

LEMMA AcksRiseStep ==
    ASSUME WireInv, FlowInv, AcksRise, [Next]_vars
    PROVE  AcksRise'
<1> USE DEF sender, link, receiver
<1> SUFFICES ASSUME ~pausedSend', ~garbled'
             PROVE  /\ \A k \in 1 .. Len(acks') : acks'[k] > acknowledged'
                    /\ \A j, k \in 1 .. Len(acks') : j < k => acks'[j] < acks'[k]
  BY DEF AcksRise
<1>0. FlowFacts
  BY FlowFactsHold
<1>1. CASE Connect \/ Restart
  <2>1. acks' = <<>>
    BY <1>1 DEF Connect, Restart
  <2> QED
    BY <2>1
<1>2. CASE ~(Connect \/ Restart)
  <2>1. ~pausedSend /\ ~garbled
    <3>1. CASE ProcessOne
      <4>1. pausedSend' = (pausedSend \/ (linkUp /\ balance # 0))
            /\ garbled' = garbled
        BY <3>1 DEF ProcessOne
      <4> QED
        BY <4>1
    <3>2. CASE ReadPackage
      <4>1. pausedSend' = pausedSend /\ (garbled' = TRUE \/ garbled' = garbled)
        BY <3>2 DEF ReadPackage
      <4> QED
        BY <4>1
    <3>3. CASE ~(ProcessOne \/ ReadPackage)
      <4>1. pausedSend' = pausedSend /\ garbled' = garbled
        BY <1>2, <3>3 DEF Next, BufferThread, ConnThread, Counterpart, vars, Put,
           TakeData, Stop, CleanUp, ProcessEnds, ThreadReturns, Resume, GivesUp,
           SeesEnd, Pause, ReaderSeesEnd, ReceiveAck, Break
      <4> QED
        BY <4>1
    <3> QED
      BY <3>1, <3>2, <3>3
  <2>2. /\ \A k \in 1 .. Len(acks) : acks[k] > acknowledged
        /\ \A j, k \in 1 .. Len(acks) : j < k => acks[j] < acks[k]
    BY <2>1 DEF AcksRise
  <2>3. CASE acks' = acks /\ acknowledged' = acknowledged
    BY <2>2, <2>3
  <2>4. CASE ReceiveAck
    <3>1. /\ acks # <<>> /\ acks' = Tail(acks)
          /\ acknowledged' = IF Head(acks) > acknowledged THEN Head(acks) ELSE acknowledged
      BY <2>4 DEF ReceiveAck, AckHighest
    <3>2. /\ Head(acks) = acks[1] /\ acks[1] \in Nat /\ Len(acks) \in Nat \ {0}
          /\ Len(Tail(acks)) = Len(acks) - 1
          /\ \A k \in 1 .. Len(acks) - 1 : Tail(acks)[k] = acks[k + 1]
      BY <1>0, <3>1, TailIs DEF FlowFacts
    <3>3. acknowledged' = acks[1]
      BY <2>2, <3>1, <3>2
    <3>4. ASSUME NEW k \in 1 .. Len(acks')
          PROVE  k + 1 \in 1 .. Len(acks) /\ acks'[k] = acks[k + 1]
      BY <3>1, <3>2
    <3>5. \A k \in 1 .. Len(acks') : acks'[k] > acknowledged'
      <4> TAKE k \in 1 .. Len(acks')
      <4>1. acks[1] < acks[k + 1]
        BY <2>2, <3>2, <3>4
      <4>2. acks[k + 1] \in Nat
        BY <1>0, <3>4 DEF FlowFacts
      <4> QED
        BY <3>2, <3>3, <3>4, <4>1, <4>2
    <3>6. \A j, k \in 1 .. Len(acks') : j < k => acks'[j] < acks'[k]
      BY <2>2, <3>4
    <3> QED
      BY <3>5, <3>6
  <2>5. CASE ReadPackage
    <3> DEFINE n == wire[1].seqn
    <3>1. wire # <<>> /\ acknowledged' = acknowledged
          /\ acks' = IF linkUp THEN Append(acks, Head(wire).seqn) ELSE acks
      BY <2>5 DEF ReadPackage
    <3>2. Head(wire) = wire[1] /\ n \in Nat
      <4> HIDE DEF Wired
      <4>1. Head(wire) = wire[1] /\ wire[1] \in Wired
        BY <1>0, <3>1, TailIs DEF FlowFacts
      <4> QED
        BY <4>1 DEF Wired
    <3>3. n > acknowledged /\ \A k \in 1 .. Len(acks) : acks[k] < n
      BY <2>1, <3>1 DEF FlowInv, Flow, NextUp
    <3> HIDE DEF n
    <3>4. acks \in Seq(Nat)
      BY <1>0 DEF FlowFacts
    <3>5. CASE acks' = Append(acks, n)
      <4>1. /\ Len(acks') = Len(acks) + 1 /\ Len(acks) \in Nat
            /\ \A k \in 1 .. Len(acks) : acks'[k] = acks[k]
            /\ acks'[Len(acks) + 1] = n
        BY <3>2, <3>4, <3>5, AppendIs
      <4> QED
        BY <2>2, <3>1, <3>3, <4>1
    <3> QED
      BY <2>3, <3>1, <3>2, <3>5 DEF n
  <2>6. CASE Break
    <3>1. acks' \in Prefixes(acks) /\ acknowledged' = acknowledged
      BY <2>6 DEF Break
    <3>2. acks' \in Seq(Nat) /\ Len(acks') <= Len(acks)
          /\ \A k \in 1 .. Len(acks') : acks'[k] = acks[k]
      BY <1>0, <3>1, PrefixIs DEF FlowFacts
    <3>3. Len(acks') \in Nat /\ Len(acks) \in Nat
      BY <1>0, <3>2 DEF FlowFacts
    <3>4. \A k \in 1 .. Len(acks') : k \in 1 .. Len(acks) /\ acks'[k] = acks[k]
      BY <3>2, <3>3
    <3>5. \A k \in 1 .. Len(acks') : acks'[k] > acknowledged'
      BY <2>2, <3>1, <3>4
    <3> QED
      BY <2>2, <3>4, <3>5
  <2> QED
    BY <1>2, <2>3, <2>4, <2>5, <2>6
       DEF Next, BufferThread, ConnThread, Counterpart, vars, Put, TakeData, Stop,
           CleanUp, ProcessOne, ProcessEnds, ThreadReturns, Resume, GivesUp, SeesEnd,
           Pause, ReaderSeesEnd
<1> QED
  BY <1>1, <1>2

\* Only a repeated package or one that overtook others makes an acknowledgement
\* come that is not greater than the last.
THEOREM WireAcksIncrease == Spec => AcksIncreaseUnrepeated
<1>1. Init => AcksRise
  BY DEF Init, AcksRise
<1>2. ASSUME WireInv, AcksRise, ReceiveAck, ~pausedSend, ~garbled
      PROVE  Head(acks) > acknowledged
  <2>1. acks # <<>> /\ acks \in Seq(Nat)
    BY <1>2, FlowFactsHold DEF ReceiveAck, FlowFacts
  <2>2. Head(acks) = acks[1] /\ 1 \in 1 .. Len(acks)
    BY <2>1
  <2> QED
    BY <1>2, <2>2 DEF AcksRise
<1>3. WireInv /\ AcksRise =>
        [ReceiveAck /\ ~pausedSend /\ ~garbled => Head(acks) > acknowledged]_vars
  BY <1>2
<1> QED
  BY <1>1, <1>3, WireFlow, AcksRiseStep, PTL DEF Spec, AcksIncreaseUnrepeated
=============================================================================
