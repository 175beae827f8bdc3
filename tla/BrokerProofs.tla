---------------------------- MODULE BrokerProofs ----------------------------
(***************************************************************************)
(* Theorems about the message broker, for any number of messages and       *)
(* connections.                                                            *)
(***************************************************************************)
EXTENDS MessageBroker, TLAPS

In(s) == {s[k] : k \in 1 .. Len(s)}

Increasing(s) ==
    \A i, j \in 1 .. Len(s) : i < j => s[i].num < s[j].num

-----------------------------------------------------------------------------
(* The inductive invariant *)

SessionOf(t) == IF t.kind = "bind" THEN t.session ELSE t.message.session

\* How two tasks are queued one after the other.
Precedes(t, u) ==
    /\ SessionOf(t) <= SessionOf(u)
    /\ u.kind = "bind" => SessionOf(t) < SessionOf(u)
    /\ t.kind # "bind" /\ u.kind # "bind" => t.message.num < u.message.num

TasksOrdered(q) == \A i, j \in 1 .. Len(q) : i < j => Precedes(q[i], q[j])

Bind(s) == [kind |-> "bind", session |-> s]

\* A session's tasks follow its binding, and when that has run they are the
\* only ones.
SessionsInTurn ==
    /\ session \in {0, sessions}
    /\ TasksOrdered(queue)
    /\ \A t \in In(queue) :
         /\ SessionOf(t) \in 1 .. sessions
         /\ subscription # 0 => SessionOf(t) = session
         /\ t.kind = "invoke" =>
              /\ ~custom
              /\ t.session = t.message.session
              /\ t.session = session => subscription # 0
    /\ session # 0 /\ subscription = 0 => Bind(session) \in In(queue)

\* The queue of the id is in the map while dispatch() or a drain needs it.
InMapWhileNeeded ==
    /\ ~LockFree => session # 0 /\ inMap /\ earlier < arrived
    /\ dispatching = "parking" => subscription = 0
    /\ dispatching = "holding" => subscription # 0 /\ custom
    /\ ~inMap => waiting = <<>> /\ held = <<>>
    /\ inMap => \/ \E t \in In(queue) : t.kind = "drain"
                \/ draining \in {"popping", "handling", "testing", "erasing"}
                \/ dispatching = "parking"
    /\ ~custom => held = <<>> /\ rest = <<>>
    /\ \A m \in In(held) : m.session = session => subscription # 0

\* The entity a drain has seen is that of the message's session, if there is one.
Fits(m) ==
    /\ seen # 0 => m.session = seen
    /\ m.session = session => seen = session

DrainSeesItsOwn ==
    /\ draining # "idle" =>
         /\ sessions # 0 /\ seen \in 0 .. sessions
         /\ subscription \in {0, seen}
         /\ session # 0 /\ seen = session => subscription = session
    /\ draining = "popping" => waiting # <<>> /\ Fits(Head(waiting))
    /\ draining # "handling" => taken = <<>>
    /\ taken # <<>> => In(taken) = {Head(taken)}
    /\ draining # "releasing" => rest = <<>>
    /\ \A m \in In(taken) : Fits(m)
    /\ \A m \in In(rest) : m.session = session => seen = session

Undrained == IF draining = "popping" THEN In(Tail(waiting)) ELSE In(waiting)

\* Every parked message has its drain, which will take just that message.
DrainsMatch ==
    /\ \A t \in In(queue) : t.kind = "drain" => t.message \in Undrained
    /\ \A m \in Undrained : \E t \in In(queue) : t.kind = "drain" /\ t.message = m

\* In the only session of a default entity nothing is parked after the binding.
FirstSession ==
    ~custom /\ sessions <= 1 /\ draining # "idle" =>
        /\ LockFree
        /\ \A t \in In(queue) : t.kind # "bind"
        /\ draining = "erasing" => waiting = <<>>

Known(m) ==
    /\ m.num \in 1 .. arrived /\ (~LockFree => m.num < arrived)
    /\ m.session \in 1 .. sessions
    /\ session # 0 /\ m.num > earlier => m.session = session

\* Where messages are, they are in the order they came.
PlacesInOrder ==
    /\ Increasing(waiting) /\ Increasing(held) /\ Increasing(rest)
    /\ \A m \in In(waiting) \cup In(held) \cup In(rest) \cup In(taken) : Known(m)
    /\ \A t \in In(queue) : t.kind # "bind" =>
         /\ Known(t.message)
         /\ draining = "popping" => Head(waiting).num < t.message.num
         /\ \A m \in In(taken) : m.num < t.message.num
    /\ \A m \in In(taken) :
         /\ \A w \in In(waiting) : m.num < w.num
         /\ \A h \in In(held) : h.session = m.session => m.num < h.num
    /\ \A h \in In(held) :
         /\ \A w \in In(waiting) : w.session = h.session => w.num < h.num
         /\ \A r \in In(rest) : r.num < h.num
    /\ \A w \in In(waiting) : \A r \in In(rest) : r.num < w.num

Pending(m) ==
    \/ m \in In(waiting) \/ m \in In(held) \/ m \in In(rest) \/ m \in In(taken)
    \/ \E t \in In(queue) : t.kind = "invoke" /\ t.message = m

\* d was handled when p, of the same session, was not: it came before p, or
\* overtook the drain.
Before(d, p, over) == d.num < p.num \/ (d.num # p.num /\ d.num \in over)

HandledBefore ==
    /\ \A d \in In(delivered) :
         /\ d.num \in 1 .. arrived /\ (~LockFree => d.num < arrived)
         /\ \A p \in Message :
              Pending(p) /\ p.session = d.session => Before(d, p, overtaking)

NoneForgotten ==
    session # 0 =>
        \A n \in earlier + 1 .. arrived :
            \/ \E d \in In(delivered) : d.num = n
            \/ \E p \in Message : Pending(p) /\ p.num = n
            \/ n = arrived /\ ~LockFree

Sound ==
    /\ SessionsInTurn
    /\ InMapWhileNeeded
    /\ DrainSeesItsOwn
    /\ DrainsMatch
    /\ FirstSession
    /\ PlacesInOrder
    /\ HandledBefore
    /\ NoneForgotten

BrokerInv ==
    /\ BrokerTypeOK /\ InOrder /\ NoneCrosses /\ TornOnlyByRemains
    /\ ~torn => Sound

-----------------------------------------------------------------------------
(* Sequences and what is in them *)

\* What is in a sequence.
LEMMA InTyped ==
    ASSUME NEW S, NEW s \in Seq(S)
    PROVE  /\ In(s) \subseteq S
           /\ \A k \in 1 .. Len(s) : s[k] \in In(s)
           /\ \A x \in In(s) : \E k \in 1 .. Len(s) : s[k] = x
           /\ s = <<>> <=> In(s) = {}
<1>1. s = <<>> <=> In(s) = {}
  <2>1. s # <<>> => 1 \in 1 .. Len(s)
    OBVIOUS
  <2> QED
    BY <2>1 DEF In
<1> QED
  BY <1>1 DEF In

\* Appending adds one.
LEMMA InAppend ==
    ASSUME NEW S, NEW s \in Seq(S), NEW e \in S
    PROVE  In(Append(s, e)) = In(s) \cup {e} /\ Append(s, e) \in Seq(S)
<1> DEFINE a == Append(s, e)
<1>1. /\ a \in Seq(S) /\ Len(a) = Len(s) + 1 /\ a[Len(s) + 1] = e
      /\ \A k \in 1 .. Len(s) : a[k] = s[k]
  OBVIOUS
<1> HIDE DEF a
<1>2. ASSUME NEW k \in 1 .. Len(a) PROVE a[k] \in In(s) \cup {e}
  <2>1. k \in 1 .. Len(s) \/ k = Len(s) + 1
    BY <1>1
  <2> QED
    BY <1>1, <2>1 DEF In
<1>3. \A k \in 1 .. Len(s) : k \in 1 .. Len(a) /\ a[k] = s[k]
  BY <1>1
<1>4. Len(s) + 1 \in 1 .. Len(a)
  BY <1>1
<1> QED
  BY <1>1, <1>2, <1>3, <1>4 DEF In, a

\* The tail, by index.
LEMMA TailIs ==
    ASSUME NEW S, NEW s \in Seq(S), s # <<>>
    PROVE  /\ Len(Tail(s)) = Len(s) - 1 /\ Head(s) = s[1] /\ Len(s) \in Nat \ {0}
           /\ \A k \in 1 .. Len(Tail(s)) : Tail(s)[k] = s[k + 1]
OBVIOUS

\* A sequence holds its head and what its tail holds.
LEMMA InTail ==
    ASSUME NEW S, NEW s \in Seq(S), s # <<>>
    PROVE  /\ Tail(s) \in Seq(S) /\ Head(s) \in S
           /\ Head(s) \in In(s)
           /\ In(s) = {Head(s)} \cup In(Tail(s))
<1> DEFINE t == Tail(s)
<1>1. /\ t \in Seq(S) /\ Len(t) = Len(s) - 1 /\ Head(s) = s[1]
      /\ Len(s) \in Nat \ {0}
      /\ \A k \in 1 .. Len(t) : t[k] = s[k + 1]
  OBVIOUS
<1> HIDE DEF t
<1>2. ASSUME NEW k \in 1 .. Len(s) PROVE s[k] \in {Head(s)} \cup In(t)
  <2>1. CASE k = 1
    BY <2>1, <1>1
  <2>2. CASE k # 1
    <3>1. k - 1 \in 1 .. Len(t) /\ t[k - 1] = s[k - 1 + 1] /\ k - 1 + 1 = k
      BY <2>2, <1>1
    <3> QED
      BY <3>1 DEF In
  <2> QED
    BY <2>1, <2>2
<1>3. \A k \in 1 .. Len(t) : k + 1 \in 1 .. Len(s) /\ t[k] = s[k + 1]
  BY <1>1
<1>4. 1 \in 1 .. Len(s) /\ s[1] \in S
  BY <1>1
<1>5. In(t) \subseteq In(s)
  BY <1>3 DEF In
<1>6. Head(s) \in In(s)
  BY <1>1, <1>4 DEF In
<1>7. In(s) \subseteq {Head(s)} \cup In(t)
  BY <1>2 DEF In
<1> QED
  BY <1>1, <1>4, <1>5, <1>6, <1>7 DEF t

\* What is appended comes last in the tail too.
LEMMA TailOfAppend ==
    ASSUME NEW S, NEW s \in Seq(S), s # <<>>, NEW e \in S
    PROVE  /\ Append(s, e) # <<>> /\ Head(Append(s, e)) = Head(s)
           /\ In(Tail(Append(s, e))) = In(Tail(s)) \cup {e}
<1> DEFINE a == Append(s, e)
           t == Tail(s)
           u == Tail(a)
<1>1. /\ a \in Seq(S) /\ Len(a) = Len(s) + 1 /\ a[Len(s) + 1] = e
      /\ \A k \in 1 .. Len(s) : a[k] = s[k]
      /\ Len(s) \in Nat \ {0}
  OBVIOUS
<1>2. a # <<>> /\ Head(a) = a[1] /\ Head(s) = s[1]
  BY <1>1
<1>3. Len(t) = Len(s) - 1 /\ \A k \in 1 .. Len(t) : t[k] = s[k + 1]
  BY TailIs
<1>4. Len(u) = Len(a) - 1 /\ \A k \in 1 .. Len(u) : u[k] = a[k + 1]
  <2> HIDE DEF a
  <2> QED
    BY <1>1, <1>2, TailIs
<1> HIDE DEF a, t, u
<1>5. ASSUME NEW k \in 1 .. Len(u) PROVE u[k] \in In(t) \cup {e}
  <2>1. CASE k = Len(s)
    BY <2>1, <1>1, <1>4
  <2>2. CASE k # Len(s)
    <3>1. k \in 1 .. Len(t) /\ k + 1 \in 1 .. Len(s)
      BY <2>2, <1>1, <1>3, <1>4
    <3>2. u[k] = t[k]
      BY <3>1, <1>1, <1>3, <1>4
    <3> QED
      BY <3>1, <3>2 DEF In
  <2> QED
    BY <2>1, <2>2
<1>6. ASSUME NEW k \in 1 .. Len(t) PROVE k \in 1 .. Len(u) /\ u[k] = t[k]
  <2>1. k \in 1 .. Len(u) /\ k + 1 \in 1 .. Len(s)
    BY <1>1, <1>3, <1>4
  <2> QED
    BY <2>1, <1>1, <1>3, <1>4
<1>7. Len(s) \in 1 .. Len(u) /\ u[Len(s)] = e
  BY <1>1, <1>4
<1>8. In(u) = In(t) \cup {e}
  BY <1>5, <1>6, <1>7 DEF In
<1>9. 1 \in 1 .. Len(s)
  BY <1>1
<1> QED
  BY <1>1, <1>2, <1>8, <1>9 DEF a, t, u

\* A sequence stays increasing.
LEMMA IncreasingSteps ==
    ASSUME NEW s \in Seq(Message)
    PROVE  /\ \A e \in Message :
                Increasing(s) /\ (\A m \in In(s) : m.num < e.num)
                    => Increasing(Append(s, e))
           /\ Increasing(s) /\ s # <<>> =>
                /\ Increasing(Tail(s))
                /\ \A m \in In(Tail(s)) : Head(s).num < m.num
<1>1. ASSUME NEW e \in Message, Increasing(s), \A m \in In(s) : m.num < e.num
      PROVE  Increasing(Append(s, e))
  <2> DEFINE a == Append(s, e)
  <2>1. /\ Len(a) = Len(s) + 1 /\ a[Len(s) + 1] = e /\ Len(s) \in Nat
        /\ \A k \in 1 .. Len(s) : a[k] = s[k] /\ a[k] \in In(s)
    BY DEF In
  <2> HIDE DEF a
  <2> SUFFICES ASSUME NEW i \in 1 .. Len(a), NEW j \in 1 .. Len(a), i < j
               PROVE  a[i].num < a[j].num
    BY DEF Increasing, a
  <2>2. i \in 1 .. Len(s) /\ (j \in 1 .. Len(s) \/ j = Len(s) + 1)
    BY <2>1
  <2> QED
    BY <1>1, <2>1, <2>2 DEF Increasing
<1>2. ASSUME Increasing(s), s # <<>>
      PROVE  /\ Increasing(Tail(s))
             /\ \A m \in In(Tail(s)) : Head(s).num < m.num
  <2> DEFINE t == Tail(s)
  <2>1. /\ Len(t) = Len(s) - 1 /\ Head(s) = s[1] /\ Len(s) \in Nat \ {0}
        /\ \A k \in 1 .. Len(t) : t[k] = s[k + 1]
    BY <1>2, TailIs
  <2> HIDE DEF t
  <2>2. \A k \in 1 .. Len(t) : k + 1 \in 1 .. Len(s) /\ 1 \in 1 .. Len(s) /\ 1 < k + 1
    BY <2>1
  <2>3. \A i, j \in 1 .. Len(t) : i < j => i + 1 < j + 1
    BY <2>1
  <2> QED
    BY <1>2, <2>1, <2>2, <2>3 DEF Increasing, In, t
<1> QED
  BY <1>1, <1>2

\* A queue of tasks stays ordered.
LEMMA TasksOrderedSteps ==
    ASSUME NEW q \in Seq(Task)
    PROVE  /\ \A e \in Task :
                TasksOrdered(q) /\ (\A t \in In(q) : Precedes(t, e))
                    => TasksOrdered(Append(q, e))
           /\ TasksOrdered(q) /\ q # <<>> =>
                /\ TasksOrdered(Tail(q))
                /\ \A t \in In(Tail(q)) : Precedes(Head(q), t)
<1>1. ASSUME NEW e \in Task, TasksOrdered(q), \A t \in In(q) : Precedes(t, e)
      PROVE  TasksOrdered(Append(q, e))
  <2> DEFINE a == Append(q, e)
  <2>1. /\ Len(a) = Len(q) + 1 /\ a[Len(q) + 1] = e /\ Len(q) \in Nat
        /\ \A k \in 1 .. Len(q) : a[k] = q[k] /\ a[k] \in In(q)
    BY DEF In
  <2> HIDE DEF a
  <2> SUFFICES ASSUME NEW i \in 1 .. Len(a), NEW j \in 1 .. Len(a), i < j
               PROVE  Precedes(a[i], a[j])
    BY DEF TasksOrdered, a
  <2>2. i \in 1 .. Len(q) /\ (j \in 1 .. Len(q) \/ j = Len(q) + 1)
    BY <2>1
  <2> QED
    BY <1>1, <2>1, <2>2 DEF TasksOrdered
<1>2. ASSUME TasksOrdered(q), q # <<>>
      PROVE  /\ TasksOrdered(Tail(q))
             /\ \A t \in In(Tail(q)) : Precedes(Head(q), t)
  <2> DEFINE t == Tail(q)
  <2>1. /\ Len(t) = Len(q) - 1 /\ Head(q) = q[1] /\ Len(q) \in Nat \ {0}
        /\ \A k \in 1 .. Len(t) : t[k] = q[k + 1]
    BY <1>2, TailIs
  <2> HIDE DEF t
  <2>2. \A k \in 1 .. Len(t) : k + 1 \in 1 .. Len(q) /\ 1 \in 1 .. Len(q) /\ 1 < k + 1
    BY <2>1
  <2>3. \A i, j \in 1 .. Len(t) : i < j => i + 1 < j + 1
    BY <2>1
  <2> QED
    BY <1>2, <2>1, <2>2, <2>3 DEF TasksOrdered, In, t
<1> QED
  BY <1>1, <1>2

-----------------------------------------------------------------------------
(* Types *)

\* Messages, tasks and their fields.
LEMMA RecordsAre ==
    /\ \A s \in Nat : Bind(s) \in Task
    /\ \A s \in Nat, m \in Message :
         [kind |-> "invoke", session |-> s, message |-> m] \in Task
    /\ \A m \in Message : [kind |-> "drain", message |-> m] \in Task
    /\ \A t \in Task :
         \/ t.kind = "bind" /\ t.session \in Nat /\ t = Bind(t.session)
         \/ t.kind = "invoke" /\ t.session \in Nat /\ t.message \in Message
         \/ t.kind = "drain" /\ t.message \in Message
    /\ \A m \in Message : m.num \in Nat /\ m.session \in Nat
    /\ \A n, s \in Nat : [num |-> n, session |-> s] \in Message
<1>1. \A s \in Nat : Bind(s) \in Task
  BY DEF Bind, Task
<1>2. \A m \in Message : m.num \in Nat /\ m.session \in Nat
  BY DEF Message
<1>3. \A n, s \in Nat : [num |-> n, session |-> s] \in Message
  BY DEF Message
<1>4. \A s \in Nat, m \in Message :
         [kind |-> "invoke", session |-> s, message |-> m] \in Task
  BY DEF Task
<1>5. \A m \in Message : [kind |-> "drain", message |-> m] \in Task
  BY DEF Task
<1>6. ASSUME NEW t \in Task
      PROVE  \/ t.kind = "bind" /\ t.session \in Nat /\ t = Bind(t.session)
             \/ t.kind = "invoke" /\ t.session \in Nat /\ t.message \in Message
             \/ t.kind = "drain" /\ t.message \in Message
  BY DEF Task, Bind
<1> QED
  BY <1>1, <1>2, <1>3, <1>4, <1>5, <1>6

Handled == [num : Nat, session : Nat, to : Nat]

\* The types of the variables, one by one.
LEMMA TypesAre ==
    ASSUME BrokerTypeOK
    PROVE  /\ waiting \in Seq(Message) /\ held \in Seq(Message)
           /\ taken \in Seq(Message) /\ rest \in Seq(Message)
           /\ queue \in Seq(Task) /\ delivered \in Seq(Handled)
           /\ {session, sessions, arrived, earlier, subscription, seen} \subseteq Nat
           /\ Arriving \in Message
<1>1. {session, sessions, arrived, earlier, subscription, seen} \subseteq Nat
  BY BrokerAssumption DEF BrokerTypeOK
<1>2. Arriving \in Message
  BY <1>1, RecordsAre DEF Arriving
<1> QED
  BY <1>1, <1>2 DEF BrokerTypeOK, Handled

\* What invoke() adds to what was handled.
LEMMA InvokeIs ==
    ASSUME BrokerTypeOK, NEW m \in Message, NEW e \in Nat
    PROVE  /\ Handle(m, e) => delivered' \in Seq(Handled)
           /\ Invoke(m, e) => delivered' \in Seq(Handled)
<1>1. [num |-> m.num, session |-> m.session, to |-> e] \in Handled
  BY RecordsAre DEF Handled
<1>2. delivered \in Seq(Handled)
  BY TypesAre
<1>3. Append(delivered, [num |-> m.num, session |-> m.session, to |-> e])
        \in Seq(Handled)
  BY <1>1, <1>2, InAppend
<1> QED
  BY <1>2, <1>3 DEF Handle, Invoke

\* Every step keeps the types.
LEMMA TypesKept ==
    ASSUME BrokerTypeOK, Next
    PROVE  BrokerTypeOK'
<1> USE BrokerAssumption, TypesAre, RecordsAre
<1>0. BrokerTypeOK' <=>
        /\ custom' \in BOOLEAN /\ inMap' \in BOOLEAN /\ torn' \in BOOLEAN
        /\ session' \in 0 .. sessions' /\ subscription' \in {0, session'}
        /\ sessions' \in 0 .. MaxSessions
        /\ arrived' \in 0 .. MaxMessages /\ earlier' \in 0 .. arrived'
        /\ dispatching' \in {"idle", "parking", "holding"}
        /\ waiting' \in Seq(Message) /\ held' \in Seq(Message)
        /\ taken' \in Seq(Message) /\ rest' \in Seq(Message)
        /\ queue' \in Seq(Task)
        /\ draining' \in {"idle", "popping", "handling", "testing", "erasing",
                          "releasing"}
        /\ seen' \in Nat
        /\ delivered' \in Seq(Handled)
        /\ overtaking' \subseteq 1 .. arrived'
  BY DEF BrokerTypeOK, Handled
<1>1. CASE SessionStarts
  <2>1. Bind(sessions') \in Task
    BY <1>1 DEF SessionStarts, BrokerTypeOK
  <2>2. queue' \in Seq(Task)
    BY <1>1, <2>1, InAppend DEF SessionStarts, Bind
  <2> QED
    BY <1>0, <1>1, <2>2 DEF SessionStarts, BrokerTypeOK, mq, task
<1>2. CASE SessionEnds
  BY <1>0, <1>2 DEF SessionEnds, BrokerTypeOK, mq, task
<1>3. CASE Dispatch
  <2> DEFINE m == [num |-> arrived', session |-> session]
             t == [kind |-> "invoke", session |-> subscription, message |-> m]
  <2>1. arrived' \in 1 .. MaxMessages /\ 0 .. arrived \subseteq 0 .. arrived'
        /\ 1 .. arrived \subseteq 1 .. arrived'
    BY <1>3 DEF Dispatch, BrokerTypeOK
  <2>2. m \in Message
    BY <2>1
  <2>3. t \in Task /\ Append(queue, t) \in Seq(Task)
    BY <2>2, InAppend
  <2>4. DispatchTo(m) =>
          /\ delivered' \in Seq(Handled) /\ queue' \in Seq(Task)
          /\ overtaking' \subseteq 1 .. arrived'
    <3>1. subscription \in Nat /\ queue \in Seq(Task) /\ delivered \in Seq(Handled)
      OBVIOUS
    <3>2. Invoke(m, subscription) => delivered' \in Seq(Handled)
      BY <2>2, <3>1, InvokeIs
    <3>3. m.num \in 1 .. arrived' /\ overtaking \subseteq 1 .. arrived'
      <4>1. m.num = arrived' /\ arrived' \in Nat \ {0}
        BY <2>1
      <4>2. overtaking \subseteq 1 .. arrived
        BY DEF BrokerTypeOK
      <4> HIDE DEF m
      <4> QED
        BY <2>1, <4>1, <4>2
    <3> HIDE DEF m
    <3> QED
      BY <2>3, <3>1, <3>2, <3>3 DEF DispatchTo
  <2>5. /\ delivered' \in Seq(Handled) /\ queue' \in Seq(Task)
        /\ overtaking' \subseteq 1 .. arrived'
    <3> HIDE DEF m, t
    <3>1. DispatchTo(m) \/ UNCHANGED <<queue, delivered, overtaking>>
      BY <1>3 DEF Dispatch, m
    <3> QED
      BY <2>1, <2>4, <3>1 DEF BrokerTypeOK
  <2>6. dispatching' \in {"idle", "parking", "holding"} /\ inMap' \in BOOLEAN
    BY <1>3 DEF Dispatch, BrokerTypeOK
  <2> HIDE DEF m, t
  <2> QED
    BY <1>0, <1>3, <2>1, <2>5, <2>6 DEF Dispatch, BrokerTypeOK, task
<1>4. CASE Park
  <2>1. waiting' \in Seq(Message) /\ queue' \in Seq(Task)
    BY <1>4, InAppend DEF Park
  <2> QED
    BY <1>0, <1>4, <2>1 DEF Park, BrokerTypeOK, task
<1>5. CASE Hold
  <2>1. held' \in Seq(Message)
    BY <1>5, InAppend DEF Hold
  <2> QED
    BY <1>0, <1>5, <2>1 DEF Hold, BrokerTypeOK, task
<1>6. CASE Scheduler
  <2>1. Idle => Tail(queue) \in Seq(Task) /\ Head(queue) \in Task
    BY InTail DEF Idle
  <2>2. waiting # <<>> => /\ Head(waiting) \in Message /\ <<Head(waiting)>> \in Seq(Message)
                          /\ Tail(waiting) \in Seq(Message)
    BY InTail
  <2>3. CASE RunBind
    BY <1>0, <2>1, <2>3 DEF RunBind, BrokerTypeOK, wire, mq, task
  <2>4. CASE RunInvoke
    <3>1. Head(queue).message \in Message /\ Head(queue).session \in Nat
      BY <2>1, <2>4 DEF RunInvoke
    <3>2. delivered' \in Seq(Handled)
      BY <2>4, <3>1, InvokeIs DEF RunInvoke
    <3> QED
      BY <1>0, <2>1, <2>4, <3>2 DEF RunInvoke, BrokerTypeOK, wire, mq, task
  <2>5. CASE RunDrain
    BY <1>0, <2>1, <2>5 DEF RunDrain, BrokerTypeOK, wire, mq
  <2>6. CASE DrainPops
    BY <1>0, <2>2, <2>6 DEF DrainPops, Popped, BrokerTypeOK, wire
  <2>7. CASE DrainHandles
    <3>1. taken # <<>> => Head(taken) \in Message
      BY InTail
    <3>2. delivered' \in Seq(Handled)
      BY <2>7, <3>1, InvokeIs DEF DrainHandles
    <3> QED
      BY <1>0, <2>7, <3>2 DEF DrainHandles, BrokerTypeOK, wire, mq
  <2>8. CASE DrainTests
    BY <1>0, <2>8 DEF DrainTests, BrokerTypeOK, wire, mq
  <2>9. CASE DrainErases
    <3>1. torn' \in BOOLEAN
      BY <2>9, Zenon DEF DrainErases
    <3>2. <<>> \in Seq(Message) /\ rest' \in Seq(Message)
      BY <2>9 DEF DrainErases
    <3> QED
      BY <1>0, <2>9, <3>1, <3>2 DEF DrainErases, BrokerTypeOK, wire
  <2>10. CASE DrainReleases
    <3>1. rest # <<>> => Head(rest) \in Message /\ Tail(rest) \in Seq(Message)
      BY InTail
    <3>2. delivered' \in Seq(Handled) /\ rest' \in Seq(Message)
      BY <2>10, <3>1, InvokeIs DEF DrainReleases
    <3> QED
      BY <1>0, <2>10, <3>2 DEF DrainReleases, BrokerTypeOK, wire, mq
  <2> QED
    BY <1>6, <2>3, <2>4, <2>5, <2>6, <2>7, <2>8, <2>9, <2>10 DEF Scheduler
<1> QED
  BY <1>1, <1>2, <1>3, <1>4, <1>5, <1>6 DEF Next

-----------------------------------------------------------------------------
(* Each step keeps the invariant *)

\* What is in the queues, and what is first there.
LEMMA InAre ==
    ASSUME BrokerTypeOK
    PROVE  /\ In(queue) \subseteq Task /\ In(delivered) \subseteq Handled
           /\ In(waiting) \subseteq Message /\ In(held) \subseteq Message
           /\ In(taken) \subseteq Message /\ In(rest) \subseteq Message
           /\ waiting = <<>> <=> In(waiting) = {}
           /\ queue # <<>> =>
                /\ Tail(queue) \in Seq(Task) /\ Head(queue) \in In(queue)
                /\ In(queue) = {Head(queue)} \cup In(Tail(queue))
           /\ waiting # <<>> =>
                /\ Tail(waiting) \in Seq(Message) /\ Head(waiting) \in In(waiting)
                /\ In(waiting) = {Head(waiting)} \cup In(Tail(waiting))
           /\ rest # <<>> =>
                /\ Tail(rest) \in Seq(Message) /\ Head(rest) \in In(rest)
                /\ In(rest) = {Head(rest)} \cup In(Tail(rest))
           /\ taken # <<>> => Head(taken) \in In(taken)
           /\ In(<<>>) = {}
<1>1. /\ In(queue) \subseteq Task /\ In(delivered) \subseteq Handled
      /\ In(waiting) \subseteq Message /\ In(held) \subseteq Message
      /\ In(taken) \subseteq Message /\ In(rest) \subseteq Message
      /\ waiting = <<>> <=> In(waiting) = {}
  BY TypesAre, InTyped
<1>2. queue # <<>> =>
        /\ Tail(queue) \in Seq(Task) /\ Head(queue) \in In(queue)
        /\ In(queue) = {Head(queue)} \cup In(Tail(queue))
  BY TypesAre, InTail
<1>3. waiting # <<>> =>
        /\ Tail(waiting) \in Seq(Message) /\ Head(waiting) \in In(waiting)
        /\ In(waiting) = {Head(waiting)} \cup In(Tail(waiting))
  BY TypesAre, InTail
<1>4. rest # <<>> =>
        /\ Tail(rest) \in Seq(Message) /\ Head(rest) \in In(rest)
        /\ In(rest) = {Head(rest)} \cup In(Tail(rest))
  BY TypesAre, InTail
<1>5. taken # <<>> => Head(taken) \in In(taken)
  BY TypesAre, InTail
<1>6. In(<<>>) = {}
  BY DEF In
<1> QED
  BY <1>1, <1>2, <1>3, <1>4, <1>5, <1>6

\* The messages in some place.
Places == In(waiting) \cup In(held) \cup In(rest) \cup In(taken)

\* The numbers of what is on its way.
LEMMA NumbersAre ==
    ASSUME BrokerTypeOK, Sound
    PROVE  /\ session \in Nat /\ sessions \in Nat /\ arrived \in Nat
           /\ earlier \in Nat /\ subscription \in {0, session} /\ seen \in Nat
           /\ earlier <= arrived /\ session \in {0, sessions}
           /\ \A m \in Places :
                /\ m \in Message /\ m.num \in Nat /\ m.session \in Nat
                /\ 1 <= m.num /\ m.num <= arrived
                /\ m.session # 0 /\ m.session <= sessions
           /\ \A t \in In(queue) :
                /\ t \in Task /\ SessionOf(t) \in Nat
                /\ SessionOf(t) # 0 /\ SessionOf(t) <= sessions
                /\ t.kind = "bind" => SessionOf(t) = t.session
                /\ t.kind # "bind" =>
                     /\ SessionOf(t) = t.message.session
                     /\ t.message \in Message /\ t.message.num \in Nat
                     /\ t.message.session \in Nat
                     /\ 1 <= t.message.num /\ t.message.num <= arrived
<1>1. /\ session \in Nat /\ sessions \in Nat /\ arrived \in Nat
      /\ earlier \in Nat /\ subscription \in {0, session} /\ seen \in Nat
      /\ earlier <= arrived
  BY BrokerAssumption DEF BrokerTypeOK
<1>2. ASSUME NEW m \in Message, Known(m)
      PROVE  /\ m \in Message /\ m.num \in Nat /\ m.session \in Nat
             /\ 1 <= m.num /\ m.num <= arrived
             /\ m.session # 0 /\ m.session <= sessions
  BY <1>1, <1>2, RecordsAre DEF Known
<1>3. \A m \in Places : m \in Message /\ Known(m)
  BY InAre DEF Places, Sound, PlacesInOrder
<1>4. ASSUME NEW t \in In(queue)
      PROVE  /\ t \in Task /\ SessionOf(t) \in Nat
             /\ SessionOf(t) # 0 /\ SessionOf(t) <= sessions
             /\ t.kind = "bind" => SessionOf(t) = t.session
             /\ t.kind # "bind" =>
                  /\ SessionOf(t) = t.message.session
                  /\ t.message \in Message /\ t.message.num \in Nat
                  /\ t.message.session \in Nat
                  /\ 1 <= t.message.num /\ t.message.num <= arrived
  <2>1. t \in Task
    BY InAre
  <2>2. t.kind # "bind" => t.message \in Message /\ Known(t.message)
    BY <2>1, RecordsAre DEF Sound, PlacesInOrder
  <2>3. SessionOf(t) \in 1 .. sessions
    BY DEF Sound, SessionsInTurn
  <2> QED
    BY <1>1, <1>2, <2>1, <2>2, <2>3 DEF SessionOf
<1>5. session \in {0, sessions}
  BY DEF Sound, SessionsInTurn
<1> QED
  BY <1>1, <1>2, <1>3, <1>4, <1>5

\* The binding of a new session follows all other tasks.
LEMMA SessionStartsKeeps ==
    ASSUME BrokerTypeOK, Sound, SessionStarts
    PROVE  Sound'
<1> USE NumbersAre
<1> USE DEF Sound, SessionStarts, mq, task
<1> DEFINE e == Bind(sessions')
<1>1. /\ sessions' = sessions + 1 /\ session' = sessions' /\ subscription = 0
      /\ e \in Task /\ e.kind = "bind" /\ SessionOf(e) = sessions'
      /\ queue' = Append(queue, e) /\ LockFree /\ LockFree'
  BY RecordsAre DEF Bind, SessionOf, LockFree
<1>2. In(queue') = In(queue) \cup {e}
  BY <1>1, TypesAre, InAppend
<1> HIDE DEF e
<1>4. SessionsInTurn'
  <2>1. \A t \in In(queue) : Precedes(t, e)
    BY <1>1 DEF Precedes
  <2>2. TasksOrdered(queue')
    BY <1>1, <2>1, TypesAre, TasksOrderedSteps DEF SessionsInTurn
  <2>3. \A t \in In(queue) : t.kind = "invoke" => t.session # session'
    BY <1>1 DEF SessionsInTurn
  <2>4. \A t \in In(queue') : SessionOf(t) \in 1 .. sessions'
    BY <1>1, <1>2
  <2> QED
    BY <1>1, <1>2, <2>2, <2>3, <2>4 DEF SessionsInTurn, e
<1>5. \A m \in Places : m.session # session'
  BY <1>1
<1>6. InMapWhileNeeded'
  BY <1>1, <1>2, <1>5 DEF InMapWhileNeeded, Places
<1>7. DrainSeesItsOwn'
  BY <1>1, <1>5, InAre DEF DrainSeesItsOwn, Fits, Places
<1>8. DrainsMatch'
  BY <1>1, <1>2 DEF DrainsMatch, Undrained
<1>9. FirstSession'
  BY <1>1 DEF FirstSession, DrainSeesItsOwn
<1>10. PlacesInOrder'
  <2>1. \A m : Known(m) => Known(m)'
    BY <1>1 DEF Known
  <2> QED
    BY <1>1, <1>2, <2>1 DEF PlacesInOrder
<1>11. HandledBefore'
  BY <1>1, <1>2 DEF HandledBefore, Pending, Before
<1>12. NoneForgotten'
  BY DEF NoneForgotten
<1> QED
  BY <1>4, <1>6, <1>7, <1>8, <1>9, <1>10, <1>11, <1>12

\* Nothing on its way belongs to session 0.
LEMMA SessionEndsKeeps ==
    ASSUME BrokerTypeOK, Sound, SessionEnds
    PROVE  Sound'
<1> USE NumbersAre
<1> USE DEF Sound, SessionEnds, mq, task
<1>1. session' = 0 /\ subscription' = 0 /\ LockFree /\ LockFree' /\ queue' = queue
  BY DEF LockFree
<1>2. \A m \in Places : m.session # 0
  OBVIOUS
<1>3. \A t \in In(queue) : t.kind = "invoke" => t.session # 0
  BY DEF SessionsInTurn
<1>4. SessionsInTurn'
  <2>1. session' \in {0, sessions'} /\ TasksOrdered(queue)'
    BY <1>1 DEF SessionsInTurn
  <2>2. \A t \in In(queue) : SessionOf(t) \in 1 .. sessions /\ sessions' = sessions
    BY DEF SessionsInTurn
  <2>3. \A t \in In(queue) : t.kind = "invoke" => ~custom' /\ t.session = t.message.session
    BY DEF SessionsInTurn
  <2>4. \A t \in In(queue)' :
          /\ SessionOf(t) \in 1 .. sessions'
          /\ t.kind = "invoke" => ~custom' /\ t.session = t.message.session
          /\ t.kind = "invoke" => t.session # session'
    BY <1>1, <1>3, <2>2, <2>3
  <2> QED
    BY <1>1, <2>1, <2>4 DEF SessionsInTurn
<1>5. InMapWhileNeeded'
  BY <1>1, <1>2 DEF InMapWhileNeeded, Places, LockFree
<1>6. DrainSeesItsOwn'
  BY <1>1, <1>2, InAre DEF DrainSeesItsOwn, Fits, Places
<1>7. DrainsMatch'
  BY DEF DrainsMatch, Undrained
<1>8. FirstSession'
  BY <1>1 DEF FirstSession
<1>9. PlacesInOrder'
  BY <1>1 DEF PlacesInOrder, Known
<1>10. HandledBefore'
  BY <1>1 DEF HandledBefore, Pending, Before
<1>11. NoneForgotten'
  BY <1>1 DEF NoneForgotten
<1> QED
  BY <1>4, <1>5, <1>6, <1>7, <1>8, <1>9, <1>10, <1>11

\* The task that invokes m.
Invoked(m) == [kind |-> "invoke", session |-> subscription, message |-> m]

\* A message that is handled at once, of an entity with its own scheduler.
LEMMA HandledAtOnceKeeps ==
    ASSUME BrokerTypeOK, BrokerTypeOK', Sound, Dispatch, ~Parks, ~Holds, custom
    PROVE  Sound'
<1> USE NumbersAre
<1> USE DEF Sound, task
<1> DEFINE m == [num |-> arrived', session |-> session]
           d == [num |-> m.num, session |-> m.session, to |-> subscription]
<1>1. /\ arrived' = arrived + 1 /\ LockFree /\ LockFree' /\ ~inMap
      /\ subscription # 0 /\ subscription = session /\ session # 0
      /\ UNCHANGED <<custom, session, sessions, earlier, subscription, waiting,
                     held, draining, seen, taken, rest, inMap, queue>>
      /\ m.num = arrived + 1 /\ m.session = session /\ m \in Message
  BY RecordsAre DEF Dispatch, Parks, Holds, LockFree, DispatchTo
<1>2. /\ delivered' = Append(delivered, d) /\ d \in Handled
      /\ d.num = arrived + 1 /\ d.session = session
      /\ draining # "idle" => overtaking' = overtaking \cup {arrived + 1}
      /\ draining = "idle" => overtaking' = overtaking
  <2>1. DispatchTo(m)
    BY DEF Dispatch
  <2>2. d \in Handled /\ d.num = m.num /\ d.session = m.session
    BY <1>1, RecordsAre DEF Handled
  <2> HIDE DEF m
  <2> QED
    BY <1>1, <2>1, <2>2 DEF DispatchTo, Invoke, Handle
<1> HIDE DEF m, d
<1>3. In(delivered') = In(delivered) \cup {d}
  BY <1>2, TypesAre, InAppend
<1>4. waiting = <<>> /\ held = <<>> /\ In(waiting) = {} /\ In(held) = {}
  BY <1>1, InAre DEF InMapWhileNeeded
<1>5. SessionsInTurn'
  <2>1. UNCHANGED <<custom, session, sessions, subscription, queue>>
    BY <1>1
  <2> QED
    BY <2>1 DEF SessionsInTurn
<1>6. InMapWhileNeeded'
  BY <1>1, <1>4 DEF InMapWhileNeeded, LockFree
<1>7. DrainSeesItsOwn'
  BY <1>1 DEF DrainSeesItsOwn, Fits
<1>8. DrainsMatch'
  BY <1>1 DEF DrainsMatch, Undrained
<1>9. FirstSession'
  BY <1>1 DEF FirstSession
<1>10. PlacesInOrder'
  <2>1. \A x \in Message : Known(x) => Known(x)'
    BY <1>1, RecordsAre DEF Known
  <2> QED
    BY <1>1, <2>1, InAre DEF PlacesInOrder, Places
<1>11. HandledBefore'
  <2>1. \A p : Pending(p)' => Pending(p)
    BY <1>1 DEF Pending
  <2>2. draining = "idle" => \A p : ~Pending(p)
    BY <1>4, InAre DEF Pending, DrainSeesItsOwn, SessionsInTurn
  <2>3. \A p \in Message : Pending(p) => p.num # arrived + 1 /\ p.num \in Nat
    BY DEF Pending, Places
  <2> QED
    BY <1>1, <1>2, <1>3, <2>1, <2>2, <2>3 DEF HandledBefore, Before
<1>12. NoneForgotten'
  <2>1. \A p : Pending(p) => Pending(p)'
    BY <1>1 DEF Pending
  <2> QED
    BY <1>1, <1>2, <1>3, <2>1 DEF NoneForgotten
<1> QED
  BY <1>5, <1>6, <1>7, <1>8, <1>9, <1>10, <1>11, <1>12
\* A message that is handled by a task of the default scheduler.
LEMMA InvokedLaterKeeps ==
    ASSUME BrokerTypeOK, Sound, Dispatch, ~Parks, ~Holds, ~custom
    PROVE  Sound'
<1> USE NumbersAre
<1> USE DEF Sound, task
<1> PICK m \in Message : m = [num |-> arrived + 1, session |-> session]
  <2>1. session \in Nat /\ arrived + 1 \in Nat
    OBVIOUS
  <2>2. [num |-> arrived + 1, session |-> session] \in Message
    BY <2>1, RecordsAre
  <2> QED
    BY <2>2
<1> PICK e \in Task : e = Invoked(m)
  <2>1. subscription \in Nat
    OBVIOUS
  <2> QED
    BY <2>1, RecordsAre DEF Invoked
<1>0. m.num = arrived + 1 /\ m.session = session
  BY DEF Message
<1>1. /\ arrived' = arrived + 1 /\ LockFree /\ LockFree'
      /\ dispatching = "idle" /\ dispatching' = "idle"
      /\ subscription # 0 /\ subscription = session /\ session # 0
      /\ UNCHANGED <<custom, session, sessions, earlier, subscription, waiting,
                     held, draining, seen, taken, rest, inMap, delivered,
                     overtaking>>
      /\ queue' = Append(queue, e)
      /\ m.num = arrived + 1 /\ m.session = session
  <2>1. ~Parks /\ ~Holds /\ ~custom
    OBVIOUS
  <2>2. /\ session # 0 /\ LockFree /\ arrived' = arrived + 1
        /\ DispatchTo(m)
        /\ UNCHANGED <<dispatching, inMap>>
        /\ UNCHANGED <<custom, session, sessions, earlier, subscription, waiting,
                       held, task, torn>>
    BY <2>1 DEF Dispatch
  <2>3. queue' = Append(queue, e) /\ UNCHANGED <<delivered, overtaking>>
    BY <2>1, <2>2 DEF DispatchTo, Invoked
  <2> QED
    BY <1>0, <2>1, <2>2, <2>3 DEF Parks, LockFree
<1>2. /\ e.kind = "invoke" /\ e.session = session /\ e.message = m
      /\ SessionOf(e) = session
  BY <1>1, RecordsAre DEF Invoked, SessionOf
<1>3. In(queue') = In(queue) \cup {e}
  BY <1>1, <1>2, TypesAre, InAppend
<1>4. SessionsInTurn'
  <2>1. \A t \in In(queue) : Precedes(t, e)
    BY <1>1, <1>2 DEF Precedes
  <2>2. TasksOrdered(queue')
    BY <1>1, <1>2, <2>1, TypesAre, TasksOrderedSteps DEF SessionsInTurn
  <2>3. session \in 1 .. sessions
    BY <1>1
  <2> QED
    BY <1>1, <1>2, <1>3, <2>2, <2>3 DEF SessionsInTurn
<1>5. InMapWhileNeeded'
  BY <1>1, <1>3 DEF InMapWhileNeeded
<1>6. DrainSeesItsOwn'
  BY <1>1 DEF DrainSeesItsOwn, Fits
<1>7. DrainsMatch'
  BY <1>1, <1>2, <1>3 DEF DrainsMatch, Undrained
<1>8. FirstSession'
  BY <1>1, <1>2, <1>3 DEF FirstSession
<1>9. PlacesInOrder'
  <2>1. \A x \in Message : Known(x) => Known(x)'
    BY <1>1, RecordsAre DEF Known
  <2>2. Known(m)'
    BY <1>1 DEF Known
  <2>3. \A x \in Places : x.num < m.num
    BY <1>1
  <2>4. draining = "popping" => Head(waiting) \in Places
    BY InAre DEF DrainSeesItsOwn, Places
  <2> QED
    BY <1>1, <1>2, <1>3, <2>1, <2>2, <2>3, <2>4, InAre DEF PlacesInOrder, Places
<1>10. HandledBefore'
  <2>1. \A p : Pending(p)' => Pending(p) \/ p = m
    BY <1>1, <1>2, <1>3 DEF Pending
  <2>2. \A d \in In(delivered) : d.num \in 1 .. arrived' /\ d.num < m.num
    BY <1>1 DEF HandledBefore
  <2> QED
    BY <1>1, <2>1, <2>2 DEF HandledBefore, Before
<1>11. NoneForgotten'
  <2>1. \A p : Pending(p) => Pending(p)'
    BY <1>1, <1>3 DEF Pending
  <2>2. Pending(m)'
    BY <1>2, <1>3 DEF Pending
  <2> QED
    BY <1>1, <2>1, <2>2 DEF NoneForgotten
<1> QED
  BY <1>4, <1>5, <1>6, <1>7, <1>8, <1>9, <1>10, <1>11

\* A message that is about to be put into a queue.
LEMMA EnteringKeeps ==
    ASSUME BrokerTypeOK, Sound, Dispatch, Parks \/ Holds
    PROVE  Sound'
<1> USE NumbersAre
<1> USE DEF Sound, task
<1>1. /\ arrived' = arrived + 1 /\ LockFree /\ ~LockFree' /\ inMap' = TRUE
      /\ session # 0
      /\ \/ dispatching' = "parking" /\ subscription = 0
         \/ dispatching' = "holding" /\ subscription # 0 /\ custom /\ inMap
      /\ dispatching = "idle"
      /\ UNCHANGED <<custom, session, sessions, earlier, subscription, waiting,
                     held, draining, seen, taken, rest, queue, delivered,
                     overtaking>>
  BY DEF Dispatch, Parks, Holds, LockFree
<1>2. SessionsInTurn'
  <2>1. UNCHANGED <<custom, session, sessions, subscription, queue>>
    BY <1>1
  <2> QED
    BY <2>1 DEF SessionsInTurn
<1>3. InMapWhileNeeded'
  BY <1>1 DEF InMapWhileNeeded
<1>4. DrainSeesItsOwn'
  BY <1>1 DEF DrainSeesItsOwn, Fits
<1>5. DrainsMatch'
  BY <1>1 DEF DrainsMatch, Undrained
<1>6. FirstSession'
  <2>1. Bind(session).kind = "bind"
    BY DEF Bind
  <2>2. ~(~custom /\ sessions <= 1 /\ draining # "idle")
    BY <1>1, <2>1 DEF FirstSession, SessionsInTurn
  <2> QED
    BY <1>1, <2>2 DEF FirstSession
<1>7. PlacesInOrder'
  <2>1. \A x \in Message : Known(x) => Known(x)'
    BY <1>1, RecordsAre DEF Known
  <2> QED
    BY <1>1, <2>1, InAre DEF PlacesInOrder
<1>8. HandledBefore'
  <2>1. \A p : Pending(p)' <=> Pending(p)
    BY <1>1 DEF Pending
  <2>2. \A d \in In(delivered) : d.num \in 1 .. arrived' /\ d.num < arrived'
    BY <1>1 DEF HandledBefore
  <2> QED
    BY <1>1, <2>1, <2>2 DEF HandledBefore, Before
<1>9. NoneForgotten'
  <2>1. \A p : Pending(p)' <=> Pending(p)
    BY <1>1 DEF Pending
  <2> QED
    BY <1>1, <2>1 DEF NoneForgotten
<1> QED
  BY <1>2, <1>3, <1>4, <1>5, <1>6, <1>7, <1>8, <1>9
\* A parked message is the last, as is the task to drain it.
LEMMA ParkKeeps ==
    ASSUME BrokerTypeOK, Sound, Park
    PROVE  Sound'
<1> USE NumbersAre
<1> USE DEF Sound, task
<1> PICK m \in Message : m = Arriving
  BY TypesAre
<1> PICK e \in Task : e = [kind |-> "drain", message |-> m]
  BY RecordsAre
<1>1. /\ ~LockFree /\ LockFree' /\ inMap = TRUE /\ inMap' = TRUE
      /\ dispatching' = "idle" /\ subscription = 0 /\ session # 0 /\ earlier < arrived
      /\ m.num = arrived /\ m.session = session
      /\ waiting' = Append(waiting, m) /\ queue' = Append(queue, e)
      /\ e.kind = "drain" /\ e.message = m /\ SessionOf(e) = session
      /\ UNCHANGED <<custom, session, sessions, arrived, earlier, subscription,
                     held, draining, seen, taken, rest, delivered, overtaking>>
  <2>1. /\ dispatching = "parking"
        /\ waiting' = Append(waiting, m) /\ queue' = Append(queue, e)
        /\ dispatching' = "idle" /\ inMap' = TRUE
        /\ UNCHANGED <<custom, session, sessions, arrived, earlier, subscription,
                       held, task, delivered, overtaking>>
    BY DEF Park
  <2>2. m.num = arrived /\ m.session = session
    BY DEF Arriving
  <2> QED
    BY <2>1, <2>2 DEF LockFree, InMapWhileNeeded, SessionOf
<1>2. In(queue') = In(queue) \cup {e}
  BY <1>1, TypesAre, InAppend
<1>3. In(waiting') = In(waiting) \cup {m}
  BY <1>1, TypesAre, InAppend
<1>4. \A x \in Places : x.num < m.num
  BY <1>1, InAre DEF PlacesInOrder, Places, Known
<1>5. SessionsInTurn'
  <2>1. \A t \in In(queue) : Precedes(t, e)
    BY <1>1 DEF Precedes, PlacesInOrder, Known
  <2>2. TasksOrdered(queue')
    BY <1>1, <2>1, TypesAre, TasksOrderedSteps DEF SessionsInTurn
  <2>3. session \in 1 .. sessions
    BY <1>1
  <2> QED
    BY <1>1, <1>2, <2>2, <2>3 DEF SessionsInTurn
<1>6. InMapWhileNeeded'
  BY <1>1, <1>2 DEF InMapWhileNeeded
<1>7. waiting # <<>> => /\ waiting' # <<>> /\ Head(waiting') = Head(waiting)
                        /\ In(Tail(waiting')) = In(Tail(waiting)) \cup {m}
  <2>1. waiting \in Seq(Message) /\ waiting' = Append(waiting, m)
    BY <1>1, TypesAre
  <2> QED
    BY <2>1, TailOfAppend
<1>8. DrainSeesItsOwn'
  BY <1>1, <1>7 DEF DrainSeesItsOwn, Fits
<1>9. DrainsMatch'
  <2>1. Undrained' = Undrained \cup {m}
    BY <1>1, <1>3, <1>7 DEF Undrained, DrainSeesItsOwn
  <2> QED
    BY <1>1, <1>2, <2>1 DEF DrainsMatch
<1>10. FirstSession'
  BY <1>1 DEF FirstSession
<1>11. PlacesInOrder'
  <2>1. \A x : Known(x) => Known(x)'
    BY <1>1 DEF Known
  <2>2. Known(m)'
    BY <1>1 DEF Known
  <2>3. Increasing(waiting')
    BY <1>1, <1>4, TypesAre, IncreasingSteps DEF PlacesInOrder, Places
  <2>4. draining = "popping" => Head(waiting) \in Places /\ Head(waiting') = Head(waiting)
    BY <1>7, InAre DEF DrainSeesItsOwn, Places
  <2>5. \A h \in In(held) : h.session # m.session
    BY <1>1 DEF InMapWhileNeeded
  <2> QED
    BY <1>1, <1>2, <1>3, <1>4, <2>1, <2>2, <2>3, <2>4, <2>5 DEF PlacesInOrder, Places
<1>12. HandledBefore'
  <2>1. \A p : Pending(p)' => Pending(p) \/ p = m
    BY <1>1, <1>2, <1>3 DEF Pending
  <2>2. \A d \in In(delivered) : d.num \in 1 .. arrived /\ d.num < m.num
    BY <1>1 DEF HandledBefore
  <2> QED
    BY <1>1, <2>1, <2>2 DEF HandledBefore, Before
<1>13. NoneForgotten'
  <2>1. \A p : Pending(p) => Pending(p)'
    BY <1>1, <1>2, <1>3 DEF Pending
  <2>2. Pending(m)'
    BY <1>3 DEF Pending
  <2> QED
    BY <1>1, <2>1, <2>2 DEF NoneForgotten
<1> QED
  BY <1>5, <1>6, <1>8, <1>9, <1>10, <1>11, <1>12, <1>13

\* A message held back is the last.
LEMMA HoldKeeps ==
    ASSUME BrokerTypeOK, Sound, Hold
    PROVE  Sound'
<1> USE NumbersAre
<1> USE DEF Sound, task
<1> PICK m \in Message : m = Arriving
  BY TypesAre
<1>1. /\ ~LockFree /\ LockFree' /\ inMap = TRUE /\ inMap' = TRUE
      /\ dispatching' = "idle" /\ dispatching = "holding" /\ custom
      /\ subscription # 0 /\ session # 0
      /\ earlier < arrived /\ m.num = arrived /\ m.session = session
      /\ held' = Append(held, m)
      /\ UNCHANGED <<custom, session, sessions, arrived, earlier, subscription,
                     inMap, waiting, queue, draining, seen, taken, rest, delivered,
                     overtaking>>
  <2>1. /\ dispatching = "holding"
        /\ held' = Append(held, m)
        /\ dispatching' = "idle"
        /\ UNCHANGED <<custom, session, sessions, arrived, earlier, subscription,
                       inMap, waiting, queue, task, delivered, overtaking>>
    BY DEF Hold
  <2>2. m.num = arrived /\ m.session = session
    BY DEF Arriving
  <2>3. inMap = TRUE
    BY <2>1 DEF LockFree, InMapWhileNeeded, BrokerTypeOK
  <2> QED
    BY <2>1, <2>2, <2>3 DEF LockFree, InMapWhileNeeded
<1>2. In(held') = In(held) \cup {m}
  BY <1>1, TypesAre, InAppend
<1>3. \A x \in Places : x.num < m.num
  BY <1>1, InAre DEF PlacesInOrder, Places, Known
<1>4. SessionsInTurn'
  <2>1. UNCHANGED <<custom, session, sessions, subscription, queue>>
    BY <1>1
  <2> QED
    BY <2>1 DEF SessionsInTurn
<1>5. InMapWhileNeeded'
  BY <1>1, <1>2 DEF InMapWhileNeeded
<1>6. DrainSeesItsOwn'
  BY <1>1 DEF DrainSeesItsOwn, Fits
<1>7. DrainsMatch'
  BY <1>1 DEF DrainsMatch, Undrained
<1>8. FirstSession'
  BY <1>1 DEF FirstSession
<1>9. PlacesInOrder'
  <2>1. \A x : Known(x) => Known(x)'
    BY <1>1 DEF Known
  <2>2. Known(m)'
    BY <1>1 DEF Known
  <2>3. Increasing(held')
    BY <1>1, <1>3, TypesAre, IncreasingSteps DEF PlacesInOrder, Places
  <2> QED
    BY <1>1, <1>2, <1>3, <2>1, <2>2, <2>3 DEF PlacesInOrder, Places
<1>10. HandledBefore'
  <2>1. \A p : Pending(p)' => Pending(p) \/ p = m
    BY <1>1, <1>2 DEF Pending
  <2>2. \A d \in In(delivered) : d.num \in 1 .. arrived /\ d.num < m.num
    BY <1>1 DEF HandledBefore
  <2> QED
    BY <1>1, <2>1, <2>2 DEF HandledBefore, Before
<1>11. NoneForgotten'
  <2>1. \A p : Pending(p) => Pending(p)'
    BY <1>1, <1>2 DEF Pending
  <2>2. Pending(m)'
    BY <1>2 DEF Pending
  <2> QED
    BY <1>1, <2>1, <2>2 DEF NoneForgotten
<1> QED
  BY <1>4, <1>5, <1>6, <1>7, <1>8, <1>9, <1>10, <1>11
\* The tasks that follow the one at the head.
LEMMA FollowingTasks ==
    ASSUME BrokerTypeOK, Sound, queue # <<>>
    PROVE  /\ Head(queue) \in In(queue) /\ Head(queue) \in Task
           /\ In(queue) = {Head(queue)} \cup In(Tail(queue))
           /\ TasksOrdered(Tail(queue))
           /\ \A t \in In(Tail(queue)) : t \in In(queue) /\ Precedes(Head(queue), t)
           /\ session # 0 /\ subscription = 0 /\ Head(queue) # Bind(session)
                => Bind(session) \in In(Tail(queue))
<1>1. /\ Head(queue) \in In(queue) /\ Head(queue) \in Task
      /\ In(queue) = {Head(queue)} \cup In(Tail(queue))
  BY InAre
<1>2. TasksOrdered(queue) /\ (session # 0 /\ subscription = 0 => Bind(session) \in In(queue))
  BY DEF Sound, SessionsInTurn
<1>3. /\ TasksOrdered(Tail(queue))
      /\ \A t \in In(Tail(queue)) : Precedes(Head(queue), t)
  BY <1>2, TypesAre, TasksOrderedSteps
<1> QED
  BY <1>1, <1>2, <1>3

\* When a session is bound only its own tasks are left.
LEMMA RunBindKeeps ==
    ASSUME BrokerTypeOK, Sound, RunBind
    PROVE  Sound'
<1> USE NumbersAre
<1> USE DEF Sound, mq, task, wire
<1> DEFINE h == Head(queue)
<1>1. /\ draining = "idle" /\ draining' = "idle" /\ LockFree /\ LockFree'
      /\ dispatching = "idle" /\ dispatching' = "idle"
      /\ queue # <<>> /\ h.kind = "bind" /\ queue' = Tail(queue)
      /\ subscription' = IF session = h.session THEN session ELSE subscription
      /\ UNCHANGED <<custom, session, sessions, arrived, earlier, inMap, waiting, held,
                     seen, taken, rest, delivered, overtaking>>
  BY DEF RunBind, Idle, LockFree
<1>2. /\ h \in In(queue) /\ h \in Task
      /\ In(queue) = {h} \cup In(queue') /\ TasksOrdered(queue')
      /\ \A t \in In(queue') : t \in In(queue) /\ Precedes(h, t)
      /\ session # 0 /\ subscription = 0 /\ h # Bind(session)
           => Bind(session) \in In(queue')
  BY <1>1, FollowingTasks
<1> HIDE DEF h
<1>3. SessionOf(h) = h.session /\ h.session \in Nat /\ h.session # 0
  BY <1>1, <1>2
<1>4. SessionsInTurn'
  <2>1. \A t \in In(queue') : subscription' # 0 => SessionOf(t) = session
    <3>1. \A t \in In(queue') : h.session <= SessionOf(t)
      BY <1>2, <1>3 DEF Precedes
    <3> QED
      BY <1>1, <1>2, <1>3, <3>1 DEF SessionsInTurn
  <2>2. \A t \in In(queue') :
           /\ SessionOf(t) \in 1 .. sessions
           /\ t.kind = "invoke" =>
                /\ ~custom
                /\ t.session = t.message.session
                /\ t.session = session => subscription' # 0
    BY <1>1, <1>2, <1>3 DEF SessionsInTurn
  <2>3. session # 0 /\ subscription' = 0 => Bind(session) \in In(queue')
    BY <1>1, <1>2 DEF Bind
  <2>4. session \in {0, sessions} /\ UNCHANGED <<session, sessions, custom>>
    BY <1>1
  <2> QED
    BY <1>2, <2>1, <2>2, <2>3, <2>4 DEF SessionsInTurn
<1>5. InMapWhileNeeded'
  BY <1>1, <1>2 DEF InMapWhileNeeded
<1>6. DrainSeesItsOwn'
  BY <1>1 DEF DrainSeesItsOwn, Fits
<1>7. DrainsMatch'
  BY <1>1, <1>2 DEF DrainsMatch, Undrained
<1>8. FirstSession'
  BY <1>1 DEF FirstSession
<1>9. PlacesInOrder'
  <2>1. \A x : Known(x)' <=> Known(x)
    BY <1>1 DEF Known
  <2> QED
    BY <1>1, <1>2, <2>1 DEF PlacesInOrder
<1>10. \A p : Pending(p)' <=> Pending(p)
  BY <1>1, <1>2 DEF Pending
<1>11. HandledBefore'
  BY <1>1, <1>10 DEF HandledBefore, Before
<1>12. NoneForgotten'
  BY <1>1, <1>10 DEF NoneForgotten
<1> QED
  BY <1>4, <1>5, <1>6, <1>7, <1>8, <1>9, <1>11, <1>12

\* A drain starts when its message is the first to wait.
LEMMA RunDrainKeeps ==
    ASSUME BrokerTypeOK, Sound, RunDrain
    PROVE  Sound'
<1> USE NumbersAre
<1> USE DEF Sound, mq, task, wire
<1> DEFINE h == Head(queue)
           m == h.message
<1>1. /\ draining = "idle" /\ draining' = "popping" /\ seen' = subscription
      /\ queue # <<>> /\ h.kind = "drain" /\ queue' = Tail(queue)
      /\ UNCHANGED <<custom, session, sessions, arrived, earlier, dispatching,
                     subscription, inMap, waiting, held, taken, rest, delivered,
                     overtaking>>
  BY DEF RunDrain, Idle
<1>2. /\ h \in In(queue) /\ h \in Task
      /\ In(queue) = {h} \cup In(queue') /\ TasksOrdered(queue')
      /\ \A t \in In(queue') : t \in In(queue) /\ Precedes(h, t)
      /\ session # 0 /\ subscription = 0 /\ h # Bind(session)
           => Bind(session) \in In(queue')
  BY <1>1, FollowingTasks
<1>3. /\ SessionOf(h) = m.session /\ m.session \in Nat /\ m.session # 0
      /\ m \in Message /\ m.num \in Nat /\ m.session <= sessions /\ sessions # 0
  BY <1>1, <1>2
<1> HIDE DEF h
<1>4. \A t \in In(queue') :
         /\ m.session <= SessionOf(t)
         /\ t.kind = "bind" => m.session < SessionOf(t)
         /\ t.kind # "bind" => m.num < t.message.num
  BY <1>1, <1>2, <1>3 DEF Precedes
\* The message it will take is the one it was queued for.
<1>5. /\ waiting # <<>> /\ Head(waiting) = m
      /\ In(waiting) = {m} \cup In(Tail(waiting))
      /\ \A w \in In(Tail(waiting)) : m.num < w.num
  <2>1. m \in In(waiting)
    BY <1>1, <1>2 DEF DrainsMatch, Undrained
  <2>2. waiting # <<>>
    BY <2>1, InAre
  <2>3. /\ Head(waiting) \in In(waiting)
        /\ In(waiting) = {Head(waiting)} \cup In(Tail(waiting))
    BY <2>2, InAre
  <2>4. \A w \in In(Tail(waiting)) : Head(waiting).num < w.num
    BY <2>2, TypesAre, IncreasingSteps DEF PlacesInOrder
  <2>5. PICK t \in In(queue) : t.kind = "drain" /\ t.message = Head(waiting)
    BY <1>1, <2>3 DEF DrainsMatch, Undrained
  <2>6. Head(waiting).num \in Nat
    BY <2>3 DEF Places
  <2>7. Head(waiting) = m
    BY <1>2, <1>3, <1>4, <2>1, <2>3, <2>4, <2>5, <2>6
  <2> QED
    BY <2>2, <2>3, <2>4, <2>7
<1>6. SessionsInTurn'
  <2>1. \A t \in In(queue') :
           /\ SessionOf(t) \in 1 .. sessions
           /\ subscription # 0 => SessionOf(t) = session
           /\ t.kind = "invoke" =>
                /\ ~custom
                /\ t.session = t.message.session
                /\ t.session = session => subscription # 0
    BY <1>2 DEF SessionsInTurn
  <2>2. session # 0 /\ subscription = 0 => Bind(session) \in In(queue')
    BY <1>1, <1>2 DEF Bind
  <2>3. session \in {0, sessions} /\ UNCHANGED <<session, sessions, custom, subscription>>
    BY <1>1
  <2> QED
    BY <1>2, <2>1, <2>2, <2>3 DEF SessionsInTurn
<1>7. InMapWhileNeeded'
  BY <1>1 DEF InMapWhileNeeded, LockFree
<1>8. Bind(session).kind = "bind" /\ SessionOf(Bind(session)) = session
  BY DEF Bind, SessionOf
<1>9. /\ subscription # 0 => m.session = session
      /\ m.session = session => subscription = session
  <2>1. subscription # 0 => m.session = session
    BY <1>2, <1>3 DEF SessionsInTurn
  <2>2. m.session = session /\ subscription = 0 => FALSE
    BY <1>1, <1>2, <1>3, <1>4, <1>8 DEF Bind
  <2> QED
    BY <2>1, <2>2
<1>10. DrainSeesItsOwn'
  <2>1. Fits(Head(waiting))'
    BY <1>1, <1>5, <1>9 DEF Fits
  <2>2. taken = <<>> /\ rest = <<>> /\ In(taken) = {} /\ In(rest) = {}
    BY <1>1, InAre DEF DrainSeesItsOwn
  <2>3. seen' \in 0 .. sessions /\ sessions # 0
    BY <1>1, <1>3
  <2> QED
    BY <1>1, <1>5, <2>1, <2>2, <2>3 DEF DrainSeesItsOwn
<1>11. DrainsMatch'
  <2>1. Undrained = In(waiting) /\ Undrained' = In(Tail(waiting))
    BY <1>1 DEF Undrained
  <2>2. \A t \in In(queue') : t.kind = "drain" => t.message \in In(Tail(waiting))
    <3>1. ASSUME NEW t \in In(queue'), t.kind = "drain"
          PROVE  t.message \in In(waiting) /\ t.message # m
      BY <1>2, <1>3, <1>4, <2>1, <3>1 DEF DrainsMatch
    <3> QED
      BY <1>5, <3>1
  <2>3. \A w \in In(Tail(waiting)) :
          \E t \in In(queue') : t.kind = "drain" /\ t.message = w
    <3>1. ASSUME NEW w \in In(Tail(waiting))
          PROVE  w # m /\ w \in In(waiting)
      BY <1>3, <1>5, <3>1
    <3> QED
      BY <1>2, <2>1, <3>1 DEF DrainsMatch
  <2> QED
    BY <2>1, <2>2, <2>3 DEF DrainsMatch
<1>12. FirstSession'
  <2>1. ASSUME ~custom, sessions <= 1
        PROVE  LockFree /\ \A t \in In(queue') : t.kind # "bind"
    <3>1. m.session = 1 /\ sessions = 1
      BY <1>3, <2>1
    <3>2. \A t \in In(queue') : t.kind # "bind"
      BY <1>2, <1>4, <2>1, <3>1
    <3>3. LockFree
      BY <1>1, <1>2, <1>8, <2>1, <3>2 DEF InMapWhileNeeded, LockFree, BrokerTypeOK
    <3> QED
      BY <3>2, <3>3
  <2> QED
    BY <1>1, <2>1 DEF FirstSession, LockFree
<1>13. PlacesInOrder'
  <2>1. \A x : Known(x)' <=> Known(x)
    BY <1>1 DEF Known, LockFree
  <2> QED
    BY <1>1, <1>2, <1>4, <1>5, <2>1 DEF PlacesInOrder
<1>14. \A p : Pending(p)' <=> Pending(p)
  BY <1>1, <1>2 DEF Pending
<1>15. HandledBefore'
  BY <1>1, <1>14 DEF HandledBefore, Before, LockFree
<1>16. NoneForgotten'
  BY <1>1, <1>14 DEF NoneForgotten, LockFree
<1> QED
  BY <1>6, <1>7, <1>10, <1>11, <1>12, <1>13, <1>15, <1>16
\* What Handle adds.
LEMMA HandleAdds ==
    ASSUME BrokerTypeOK, NEW m \in Message, NEW e \in Nat, Handle(m, e)
    PROVE  \E d \in Handled :
             /\ d.num = m.num /\ d.session = m.session /\ d.to = e
             /\ delivered' = Append(delivered, d)
             /\ In(delivered') = In(delivered) \cup {d}
<1> DEFINE d == [num |-> m.num, session |-> m.session, to |-> e]
<1>1. d \in Handled /\ d.num = m.num /\ d.session = m.session /\ d.to = e
  BY RecordsAre DEF Handled
<1>2. delivered' = Append(delivered, d)
  BY DEF Handle
<1> HIDE DEF d
<1>3. In(delivered') = In(delivered) \cup {d}
  BY <1>1, <1>2, TypesAre, InAppend
<1> QED
  BY <1>1, <1>2, <1>3

\* A task handles its message before all others of the session.
LEMMA RunInvokeKeeps ==
    ASSUME BrokerTypeOK, Sound, RunInvoke
    PROVE  Sound'
<1> USE NumbersAre
<1> USE DEF Sound, mq, task, wire
<1> DEFINE h == Head(queue)
           m == h.message
<1>1. /\ draining = "idle" /\ draining' = "idle" /\ LockFree /\ LockFree'
      /\ dispatching = "idle" /\ dispatching' = "idle"
      /\ queue # <<>> /\ h.kind = "invoke" /\ queue' = Tail(queue)
      /\ Invoke(m, h.session)
      /\ UNCHANGED <<custom, session, sessions, arrived, earlier, subscription, inMap,
                     waiting, held, seen, taken, rest, overtaking>>
  BY DEF RunInvoke, Idle, LockFree
<1>2. /\ h \in In(queue) /\ h \in Task
      /\ In(queue) = {h} \cup In(queue') /\ TasksOrdered(queue')
      /\ \A t \in In(queue') : t \in In(queue) /\ Precedes(h, t)
      /\ session # 0 /\ subscription = 0 /\ h # Bind(session)
           => Bind(session) \in In(queue')
  BY <1>1, FollowingTasks
<1>3. /\ m \in Message /\ m.num \in Nat /\ Known(m)
      /\ h.session = m.session /\ h.session # 0 /\ h.session \in Nat /\ ~custom
      /\ h.session = session => subscription # 0
  BY <1>1, <1>2 DEF SessionsInTurn, PlacesInOrder
<1>4. \A t \in In(queue') : t.kind # "bind" => m.num < t.message.num
  BY <1>1, <1>2 DEF Precedes
<1> HIDE DEF h
<1>5. SessionsInTurn'
  <2>1. \A t \in In(queue') :
           /\ SessionOf(t) \in 1 .. sessions
           /\ subscription # 0 => SessionOf(t) = session
           /\ t.kind = "invoke" =>
                /\ ~custom
                /\ t.session = t.message.session
                /\ t.session = session => subscription # 0
    BY <1>2 DEF SessionsInTurn
  <2>2. session # 0 /\ subscription = 0 => Bind(session) \in In(queue')
    BY <1>1, <1>2 DEF Bind
  <2>3. session \in {0, sessions} /\ UNCHANGED <<session, sessions, custom, subscription>>
    BY <1>1
  <2> QED
    BY <1>2, <2>1, <2>2, <2>3 DEF SessionsInTurn
<1>6. InMapWhileNeeded'
  BY <1>1, <1>2 DEF InMapWhileNeeded
<1>7. DrainSeesItsOwn'
  BY <1>1 DEF DrainSeesItsOwn, Fits
<1>8. DrainsMatch'
  BY <1>1, <1>2 DEF DrainsMatch, Undrained
<1>9. FirstSession'
  BY <1>1 DEF FirstSession
<1>10. PlacesInOrder'
  <2>1. \A x : Known(x)' <=> Known(x)
    BY <1>1 DEF Known
  <2> QED
    BY <1>1, <1>2, <2>1 DEF PlacesInOrder
<1>11. \A p : Pending(p)' => Pending(p)
  BY <1>1, <1>2 DEF Pending
<1>12. \A p : Pending(p)' => m.num < p.num
  <2>1. In(held) = {} /\ In(rest) = {} /\ In(taken) = {}
    BY <1>1, <1>3, InAre DEF InMapWhileNeeded, DrainSeesItsOwn
  <2>2. \A w \in In(waiting) : \E t \in In(queue') : t.kind = "drain" /\ t.message = w
    BY <1>1, <1>2 DEF DrainsMatch, Undrained
  <2> QED
    BY <1>1, <1>4, <2>1, <2>2 DEF Pending
<1>13. \A p : Pending(p) => Pending(p)' \/ p = m
  BY <1>1, <1>2 DEF Pending
<1>14. CASE Handle(m, h.session)
  <2>1. PICK d \in Handled : /\ d.num = m.num /\ d.session = m.session
                             /\ In(delivered') = In(delivered) \cup {d}
    BY <1>3, <1>14, HandleAdds
  <2>2. HandledBefore'
    <3>1. d.num \in 1 .. arrived
      BY <1>3, <2>1 DEF Known
    <3> QED
      BY <1>1, <1>11, <1>12, <2>1, <3>1 DEF HandledBefore, Before
  <2>3. NoneForgotten'
    BY <1>1, <1>13, <2>1 DEF NoneForgotten
  <2> QED
    BY <1>5, <1>6, <1>7, <1>8, <1>9, <1>10, <2>2, <2>3
<1>15. CASE UNCHANGED delivered /\ subscription # h.session
  <2>1. HandledBefore'
    BY <1>1, <1>11, <1>15 DEF HandledBefore, Before
  <2>2. session # 0 => m.num <= earlier
    BY <1>3, <1>15 DEF Known
  <2>3. NoneForgotten'
    BY <1>1, <1>3, <1>13, <1>15, <2>2 DEF NoneForgotten
  <2> QED
    BY <1>5, <1>6, <1>7, <1>8, <1>9, <1>10, <2>1, <2>3
<1> QED
  BY <1>1, <1>3, <1>14, <1>15 DEF Invoke

\* The drain takes the message it was queued for.
LEMMA DrainPopsKeeps ==
    ASSUME BrokerTypeOK, Sound, DrainPops
    PROVE  Sound'
<1> USE NumbersAre
<1> USE DEF Sound, mq, wire
<1> DEFINE m == Head(waiting)
<1>1. /\ draining = "popping" /\ draining' = "handling" /\ LockFree /\ LockFree'
      /\ dispatching = "idle" /\ dispatching' = "idle"
      /\ waiting # <<>> /\ taken' = <<m>> /\ waiting' = Tail(waiting)
      /\ UNCHANGED <<custom, session, sessions, arrived, earlier, subscription, inMap,
                     held, queue, seen, rest, delivered, overtaking>>
  BY DEF DrainPops, Popped, DrainSeesItsOwn, LockFree
<1>2. /\ m \in In(waiting) /\ m \in Message
      /\ In(waiting) = {m} \cup In(waiting') /\ Increasing(waiting')
      /\ \A w \in In(waiting') : m.num < w.num
  BY <1>1, TypesAre, InAre, IncreasingSteps DEF PlacesInOrder
<1>3. In(taken) = {}
  BY <1>1, InAre DEF DrainSeesItsOwn
<1> HIDE DEF m
<1>4. In(taken') = {m} /\ taken' # <<>> /\ Head(taken') = m
  BY <1>1 DEF In
<1>5. SessionsInTurn'
  <2>1. UNCHANGED <<custom, session, sessions, subscription, queue>>
    BY <1>1
  <2> QED
    BY <2>1 DEF SessionsInTurn
<1>6. InMapWhileNeeded'
  BY <1>1 DEF InMapWhileNeeded
<1>7. DrainSeesItsOwn'
  BY <1>1, <1>4 DEF DrainSeesItsOwn, Fits, m
<1>8. DrainsMatch'
  BY <1>1 DEF DrainsMatch, Undrained
<1>9. FirstSession'
  BY <1>1 DEF FirstSession
<1>10. PlacesInOrder'
  <2>1. \A x : Known(x)' <=> Known(x)
    BY <1>1 DEF Known
  <2> QED
    BY <1>1, <1>2, <1>3, <1>4, <2>1 DEF PlacesInOrder, m
<1>11. \A p : Pending(p)' <=> Pending(p)
  BY <1>1, <1>2, <1>3, <1>4 DEF Pending
<1>12. HandledBefore'
  BY <1>1, <1>11 DEF HandledBefore, Before
<1>13. NoneForgotten'
  BY <1>1, <1>11 DEF NoneForgotten
<1> QED
  BY <1>5, <1>6, <1>7, <1>8, <1>9, <1>10, <1>12, <1>13

\* A queue that is not empty has another drain.
LEMMA DrainTestsKeeps ==
    ASSUME BrokerTypeOK, Sound, DrainTests
    PROVE  Sound'
<1> USE NumbersAre
<1> USE DEF Sound, mq, wire
<1>1. /\ draining = "testing"
      /\ draining' = IF waiting = <<>> THEN "erasing" ELSE "idle"
      /\ UNCHANGED <<custom, session, sessions, arrived, earlier, dispatching,
                     subscription, inMap, waiting, held, queue, seen, taken, rest,
                     delivered, overtaking>>
  BY DEF DrainTests
<1>2. SessionsInTurn'
  <2>1. UNCHANGED <<custom, session, sessions, subscription, queue>>
    BY <1>1
  <2> QED
    BY <2>1 DEF SessionsInTurn
<1>3. InMapWhileNeeded'
  <2>1. waiting # <<>> => \E t \in In(queue) : t.kind = "drain"
    BY <1>1, InAre DEF DrainsMatch, Undrained
  <2> QED
    BY <1>1, <2>1 DEF InMapWhileNeeded, LockFree
<1>4. DrainSeesItsOwn'
  BY <1>1 DEF DrainSeesItsOwn, Fits
<1>5. DrainsMatch'
  BY <1>1 DEF DrainsMatch, Undrained
<1>6. FirstSession'
  BY <1>1 DEF FirstSession, LockFree
<1>7. PlacesInOrder'
  <2>1. \A x : Known(x)' <=> Known(x)
    BY <1>1 DEF Known, LockFree
  <2> QED
    BY <1>1, <2>1 DEF PlacesInOrder
<1>8. \A p : Pending(p)' <=> Pending(p)
  BY <1>1 DEF Pending
<1>9. HandledBefore'
  BY <1>1, <1>8 DEF HandledBefore, Before, LockFree
<1>10. NoneForgotten'
  BY <1>1, <1>8 DEF NoneForgotten, LockFree
<1> QED
  BY <1>2, <1>3, <1>4, <1>5, <1>6, <1>7, <1>9, <1>10
\* The message taken is handled before all others of its session.
LEMMA DrainHandlesKeeps ==
    ASSUME BrokerTypeOK, Sound, DrainHandles
    PROVE  Sound'
<1> USE NumbersAre
<1> USE DEF Sound, mq, wire
<1> DEFINE m == Head(taken)
<1>1. /\ draining = "handling" /\ draining' = "testing" /\ taken' = <<>>
      /\ In(taken') = {} /\ rest = <<>> /\ In(rest) = {}
      /\ IF seen = 0 \/ taken = <<>> THEN UNCHANGED delivered
         ELSE IF custom THEN Invoke(m, seen)
         ELSE Handle(m, seen)
      /\ UNCHANGED <<custom, session, sessions, arrived, earlier, dispatching,
                     subscription, inMap, waiting, held, queue, seen, rest,
                     overtaking>>
  BY InAre DEF DrainHandles, DrainSeesItsOwn
<1>2. SessionsInTurn'
  <2>1. UNCHANGED <<custom, session, sessions, subscription, queue>>
    BY <1>1
  <2> QED
    BY <2>1 DEF SessionsInTurn
<1>3. InMapWhileNeeded'
  BY <1>1 DEF InMapWhileNeeded, LockFree
<1>4. DrainSeesItsOwn'
  BY <1>1 DEF DrainSeesItsOwn, Fits
<1>5. DrainsMatch'
  BY <1>1 DEF DrainsMatch, Undrained
<1>6. FirstSession'
  BY <1>1 DEF FirstSession, LockFree
<1>7. PlacesInOrder'
  <2>1. \A x : Known(x)' <=> Known(x)
    BY <1>1 DEF Known, LockFree
  <2> QED
    BY <1>1, <2>1 DEF PlacesInOrder
<1>8. \A p : Pending(p)' => Pending(p)
  BY <1>1 DEF Pending
<1>9. CASE taken = <<>>
  <2>1. UNCHANGED delivered /\ In(taken) = {}
    BY <1>1, <1>9, InAre
  <2>2. \A p : Pending(p) => Pending(p)'
    BY <1>1, <2>1 DEF Pending
  <2>3. HandledBefore'
    BY <1>1, <1>8, <2>1 DEF HandledBefore, Before, LockFree
  <2>4. NoneForgotten'
    BY <1>1, <2>1, <2>2 DEF NoneForgotten, LockFree
  <2> QED
    BY <1>2, <1>3, <1>4, <1>5, <1>6, <1>7, <2>3, <2>4
<1>10. CASE taken # <<>>
  <2>1. /\ In(taken) = {m} /\ m \in Message /\ Known(m) /\ Fits(m)
        /\ m.num \in Nat /\ m.session \in Nat /\ m.session # 0
    BY <1>10, InAre DEF DrainSeesItsOwn, PlacesInOrder, Places
  <2> HIDE DEF m
  <2>2. \A p : Pending(p) => Pending(p)' \/ p = m
    BY <1>1, <2>1 DEF Pending
  <2>3. \A p : Pending(p)' /\ p.session = m.session => m.num < p.num
    BY <1>1, <2>1 DEF Pending, PlacesInOrder
  <2>4. CASE Handle(m, seen)
    <3>1. PICK d \in Handled : /\ d.num = m.num /\ d.session = m.session
                               /\ In(delivered') = In(delivered) \cup {d}
      BY <2>1, <2>4, HandleAdds
    <3>2. d.num \in 1 .. arrived /\ (~LockFree => d.num < arrived)
      BY <2>1, <3>1 DEF Known
    <3>3. HandledBefore'
      BY <1>1, <1>8, <2>3, <3>1, <3>2 DEF HandledBefore, Before, LockFree
    <3>4. NoneForgotten'
      BY <1>1, <2>2, <3>1 DEF NoneForgotten, LockFree
    <3> QED
      BY <1>2, <1>3, <1>4, <1>5, <1>6, <1>7, <3>3, <3>4
  <2>5. CASE UNCHANGED delivered /\ (seen = 0 \/ subscription # seen)
    <3>1. HandledBefore'
      BY <1>1, <1>8, <2>5 DEF HandledBefore, Before, LockFree
    <3>2. session # 0 => m.session # session
      BY <1>1, <2>1, <2>5 DEF Fits, DrainSeesItsOwn
    <3>3. session # 0 => m.num <= earlier
      BY <2>1, <3>2 DEF Known
    <3>4. NoneForgotten'
      BY <1>1, <2>1, <2>2, <2>5, <3>3 DEF NoneForgotten, LockFree
    <3> QED
      BY <1>2, <1>3, <1>4, <1>5, <1>6, <1>7, <3>1, <3>4
  <2> QED
    BY <1>1, <1>10, <2>4, <2>5 DEF Invoke
<1> QED
  BY <1>9, <1>10

\* When nothing is torn the queue of the map is empty.
LEMMA DrainErasesKeeps ==
    ASSUME BrokerTypeOK, Sound, DrainErases, ~torn'
    PROVE  Sound'
<1> USE NumbersAre
<1> USE DEF Sound, wire
<1>1. /\ draining = "erasing" /\ draining' = "releasing" /\ inMap' = FALSE
      /\ waiting = <<>> /\ waiting' = <<>> /\ held' = <<>> /\ rest' = held
      /\ LockFree /\ LockFree' /\ dispatching = "idle" /\ dispatching' = "idle"
      /\ rest = <<>> /\ In(<<>>) = {}
      /\ UNCHANGED <<custom, session, sessions, arrived, earlier, subscription,
                     queue, seen, taken, delivered, overtaking>>
  BY InAre DEF DrainErases, DrainSeesItsOwn, LockFree
<1>2. SessionsInTurn'
  <2>1. UNCHANGED <<custom, session, sessions, subscription, queue>>
    BY <1>1
  <2> QED
    BY <2>1 DEF SessionsInTurn
<1>3. InMapWhileNeeded'
  BY <1>1 DEF InMapWhileNeeded
<1>4. DrainSeesItsOwn'
  <2>1. \A m \in In(held) : m.session = session => seen = session
    BY <1>1 DEF InMapWhileNeeded, DrainSeesItsOwn
  <2> QED
    BY <1>1, <2>1 DEF DrainSeesItsOwn, Fits
<1>5. DrainsMatch'
  BY <1>1 DEF DrainsMatch, Undrained
<1>6. FirstSession'
  BY <1>1 DEF FirstSession
<1>7. PlacesInOrder'
  <2>1. \A x : Known(x)' <=> Known(x)
    BY <1>1 DEF Known
  <2>2. In(taken) = {}
    BY <1>1, InAre DEF DrainSeesItsOwn
  <2> QED
    BY <1>1, <2>1, <2>2 DEF PlacesInOrder
<1>8. \A p : Pending(p)' <=> Pending(p)
  BY <1>1 DEF Pending
<1>9. HandledBefore'
  BY <1>1, <1>8 DEF HandledBefore, Before
<1>10. NoneForgotten'
  BY <1>1, <1>8 DEF NoneForgotten
<1> QED
  BY <1>2, <1>3, <1>4, <1>5, <1>6, <1>7, <1>9, <1>10

\* The messages held back follow in the order they came.
LEMMA DrainReleasesKeeps ==
    ASSUME BrokerTypeOK, Sound, DrainReleases, ~torn'
    PROVE  Sound'
<1> USE NumbersAre
<1> USE DEF Sound, mq, wire
<1> DEFINE m == Head(rest)
<1>1. /\ draining = "releasing" /\ LockFree /\ LockFree'
      /\ dispatching = "idle" /\ dispatching' = "idle"
      /\ taken = <<>> /\ In(taken) = {} /\ In(<<>>) = {}
      /\ UNCHANGED <<custom, session, sessions, arrived, earlier, subscription,
                     inMap, waiting, held, queue, seen, taken, overtaking>>
      /\ rest = <<>> => draining' = "idle" /\ rest' = <<>> /\ UNCHANGED delivered
      /\ rest # <<>> => /\ draining' = draining /\ rest' = Tail(rest)
                        /\ Invoke(m, seen) /\ seen # 0 /\ custom
  BY InAre DEF DrainReleases, DrainSeesItsOwn, LockFree, InMapWhileNeeded
<1>2. rest # <<>> =>
        /\ m \in In(rest) /\ m \in Message /\ In(rest) = {m} \cup In(rest')
        /\ Increasing(rest') /\ \A r \in In(rest') : m.num < r.num
  <2>1. rest # <<>> => Increasing(Tail(rest)) /\ \A r \in In(Tail(rest)) : m.num < r.num
    BY TypesAre, IncreasingSteps DEF PlacesInOrder
  <2> QED
    BY <1>1, <2>1, InAre
<1> HIDE DEF m
<1>3. In(rest') \subseteq In(rest) /\ Increasing(rest')
  BY <1>1, <1>2 DEF PlacesInOrder
<1>4. SessionsInTurn'
  <2>1. UNCHANGED <<custom, session, sessions, subscription, queue>>
    BY <1>1
  <2> QED
    BY <2>1 DEF SessionsInTurn
<1>5. InMapWhileNeeded'
  BY <1>1 DEF InMapWhileNeeded
<1>6. DrainSeesItsOwn'
  BY <1>1, <1>3 DEF DrainSeesItsOwn, Fits
<1>7. DrainsMatch'
  BY <1>1 DEF DrainsMatch, Undrained
<1>8. FirstSession'
  BY <1>1 DEF FirstSession
<1>9. PlacesInOrder'
  <2>1. \A x : Known(x)' <=> Known(x)
    BY <1>1 DEF Known
  <2> QED
    BY <1>1, <1>3, <2>1 DEF PlacesInOrder
<1>10. \A p : Pending(p)' => Pending(p)
  BY <1>1, <1>3 DEF Pending
<1>11. CASE rest = <<>>
  <2>1. \A p : Pending(p) => Pending(p)'
    BY <1>1, <1>11 DEF Pending
  <2>2. HandledBefore'
    BY <1>1, <1>10, <1>11 DEF HandledBefore, Before
  <2>3. NoneForgotten'
    BY <1>1, <1>11, <2>1 DEF NoneForgotten
  <2> QED
    BY <1>4, <1>5, <1>6, <1>7, <1>8, <1>9, <2>2, <2>3
<1>12. CASE rest # <<>>
  <2>1. /\ m \in In(rest) /\ m \in Message /\ Known(m) /\ m.num \in Nat
        /\ m.session \in Nat /\ m.session # 0
    BY <1>2, <1>12 DEF PlacesInOrder, Places
  <2>2. \A p : Pending(p) => Pending(p)' \/ p = m
    BY <1>1, <1>2, <1>12 DEF Pending
  <2>3. \A p : Pending(p)' => m.num < p.num
    <3>1. \A t \in In(queue) : t.kind # "invoke"
      BY <1>1, <1>12 DEF SessionsInTurn
    <3>2. \A x \in In(waiting) \cup In(held) \cup In(rest') : m.num < x.num
      BY <1>2, <1>12 DEF PlacesInOrder
    <3> QED
      BY <1>1, <3>1, <3>2 DEF Pending
  <2>4. CASE Handle(m, seen)
    <3>1. PICK d \in Handled : /\ d.num = m.num /\ d.session = m.session
                               /\ In(delivered') = In(delivered) \cup {d}
      BY <2>1, <2>4, HandleAdds
    <3>2. d.num \in 1 .. arrived
      BY <2>1, <3>1 DEF Known
    <3>3. HandledBefore'
      BY <1>1, <1>10, <2>3, <3>1, <3>2 DEF HandledBefore, Before
    <3>4. NoneForgotten'
      BY <1>1, <2>2, <3>1 DEF NoneForgotten
    <3> QED
      BY <1>4, <1>5, <1>6, <1>7, <1>8, <1>9, <3>3, <3>4
  <2>5. CASE UNCHANGED delivered /\ subscription # seen
    <3>1. HandledBefore'
      BY <1>1, <1>10, <2>5 DEF HandledBefore, Before
    <3>2. session # 0 => m.session # session
      BY <1>1, <2>1, <2>5 DEF DrainSeesItsOwn
    <3>3. session # 0 => m.num <= earlier
      BY <2>1, <3>2 DEF Known
    <3>4. NoneForgotten'
      BY <1>1, <2>1, <2>2, <2>5, <3>3 DEF NoneForgotten
    <3> QED
      BY <1>4, <1>5, <1>6, <1>7, <1>8, <1>9, <3>1, <3>4
  <2> QED
    BY <1>1, <1>12, <2>4, <2>5 DEF Invoke
<1> QED
  BY <1>11, <1>12
\* Every step keeps Sound, unless it tears a queue.
LEMMA SoundKept ==
    ASSUME BrokerTypeOK, Sound, Next, ~torn'
    PROVE  Sound'
<1>1. BrokerTypeOK'
  BY TypesKept
<1>2. CASE SessionStarts
  BY <1>2, SessionStartsKeeps
<1>3. CASE SessionEnds
  BY <1>3, SessionEndsKeeps
<1>4. CASE Dispatch
  BY <1>1, <1>4, HandledAtOnceKeeps, InvokedLaterKeeps, EnteringKeeps
<1>5. CASE Park
  BY <1>5, ParkKeeps
<1>6. CASE Hold
  BY <1>6, HoldKeeps
<1>7. CASE Scheduler
  BY <1>7, RunBindKeeps, RunInvokeKeeps, RunDrainKeeps, DrainPopsKeeps,
     DrainHandlesKeeps, DrainTestsKeeps, DrainErasesKeeps, DrainReleasesKeeps
     DEF Scheduler
<1> QED
  BY <1>2, <1>3, <1>4, <1>5, <1>6, <1>7 DEF Next

-----------------------------------------------------------------------------
(* What was handled *)

\* A message handled after those that came before it, or that overtook it.
LEMMA HandledInTurn ==
    ASSUME BrokerTypeOK, InOrder, NoneCrosses, NEW m \in Message, NEW e \in Nat,
           Handle(m, e), overtaking \subseteq overtaking', custom' = custom,
           \A d \in In(delivered) : d.session = m.session => Before(d, m, overtaking),
           custom \/ e = m.session
    PROVE  InOrder' /\ NoneCrosses'
<1>1. PICK d \in Handled : /\ d.num = m.num /\ d.session = m.session /\ d.to = e
                           /\ delivered' = Append(delivered, d)
  BY HandleAdds
<1> DEFINE a == delivered'
<1>2. /\ Len(a) = Len(delivered) + 1 /\ a[Len(delivered) + 1] = d
      /\ Len(delivered) \in Nat
      /\ \A k \in 1 .. Len(delivered) : a[k] = delivered[k]
  BY <1>1, TypesAre
<1>3. \A k \in 1 .. Len(delivered) : delivered[k] \in In(delivered)
  BY DEF In
<1>4. \A k \in 1 .. Len(a) : k \in 1 .. Len(delivered) \/ k = Len(delivered) + 1
  BY <1>2
<1> HIDE DEF a
<1>5. InOrder'
  <2> SUFFICES ASSUME NEW i \in 1 .. Len(a), NEW j \in 1 .. Len(a), i < j,
                      a[i].session = a[j].session
               PROVE  \/ a[i].num < a[j].num
                      \/ a[i].num # a[j].num /\ a[i].num \in overtaking'
    BY DEF InOrder, a
  <2>1. i \in 1 .. Len(delivered)
    BY <1>2
  <2>2. CASE j \in 1 .. Len(delivered)
    <3>1. a[i] = delivered[i] /\ a[j] = delivered[j]
      BY <1>2, <2>1, <2>2
    <3> QED
      BY <2>1, <2>2, <3>1 DEF InOrder
  <2>3. CASE j = Len(delivered) + 1
    <3>1. a[i] \in In(delivered) /\ a[j] = d
      BY <1>2, <1>3, <2>1, <2>3
    <3> QED
      BY <1>1, <3>1 DEF Before
  <2> QED
    BY <1>4, <2>2, <2>3
<1>6. NoneCrosses'
  <2> SUFFICES ASSUME NEW i \in 1 .. Len(a)
               PROVE  custom' \/ a[i].to = a[i].session
    BY DEF NoneCrosses, a
  <2> QED
    BY <1>1, <1>2, <1>4 DEF NoneCrosses
<1> QED
  BY <1>5, <1>6

\* Nothing is handled.
LEMMA NothingHandled ==
    ASSUME InOrder, NoneCrosses, UNCHANGED <<custom, delivered>>,
           overtaking \subseteq overtaking'
    PROVE  InOrder' /\ NoneCrosses'
BY DEF InOrder, NoneCrosses

\* Every step handles at most one message, and in turn.
LEMMA HistoryKept ==
    ASSUME BrokerTypeOK, Sound, InOrder, NoneCrosses, Next
    PROVE  InOrder' /\ NoneCrosses'
<1> USE NumbersAre
<1>1. custom' = custom /\ overtaking \subseteq overtaking'
  BY DEF Next, SessionStarts, SessionEnds, Dispatch, DispatchTo, Park, Hold,
         Scheduler, RunBind, RunInvoke, RunDrain, DrainPops, DrainHandles,
         DrainTests, DrainErases, DrainReleases
<1>2. \A d \in In(delivered), p \in Message :
        Pending(p) /\ p.session = d.session => Before(d, p, overtaking)
  BY DEF Sound, HandledBefore
<1>3. CASE Dispatch
  <2>1. CASE UNCHANGED delivered
    BY <1>1, <2>1, NothingHandled
  <2>2. CASE delivered' # delivered
    <3>1. PICK m \in Message : m = [num |-> arrived + 1, session |-> session]
      <4>1. session \in Nat /\ arrived + 1 \in Nat
        OBVIOUS
      <4>2. [num |-> arrived + 1, session |-> session] \in Message
        BY <4>1, RecordsAre
      <4> QED
        BY <4>2
    <3>2. m.num = arrived + 1 /\ m.session = session
      BY <3>1
    <3>3. DispatchTo(m)
      BY <1>3, <2>2, <3>1 DEF Dispatch
    <3>4. custom /\ Handle(m, subscription)
      BY <2>2, <3>3 DEF DispatchTo, Invoke
    <3>5. \A d \in In(delivered) : d.num < m.num
      BY <3>2 DEF Sound, HandledBefore
    <3>6. subscription \in Nat
      OBVIOUS
    <3> QED
      BY <1>1, <3>4, <3>5, <3>6, HandledInTurn DEF Before
  <2> QED
    BY <2>1, <2>2
<1>4. CASE RunInvoke
  <2> DEFINE h == Head(queue)
  <2>1. queue # <<>> /\ h.kind = "invoke" /\ Invoke(h.message, h.session)
    BY <1>4 DEF RunInvoke, Idle
  <2>2. h \in In(queue)
    BY <2>1, InAre
  <2> HIDE DEF h
  <2>3. h.message \in Message /\ h.session = h.message.session /\ h.session \in Nat
    BY <2>1, <2>2 DEF Sound, SessionsInTurn
  <2>4. Pending(h.message)
    BY <2>1, <2>2 DEF Pending
  <2>5. Handle(h.message, h.session) \/ UNCHANGED delivered
    BY <2>1 DEF Invoke
  <2>6. Handle(h.message, h.session) => InOrder' /\ NoneCrosses'
    BY <1>1, <1>2, <2>3, <2>4, HandledInTurn
  <2> QED
    BY <1>1, <2>5, <2>6, NothingHandled
<1>5. CASE DrainHandles
  <2> DEFINE m == Head(taken)
  <2>1. \/ UNCHANGED delivered
        \/ taken # <<>> /\ seen # 0 /\ Handle(m, seen)
    BY <1>5 DEF DrainHandles, Invoke
  <2>2. taken # <<>> => m \in In(taken) /\ m \in Message
    BY InAre
  <2> HIDE DEF m
  <2>3. taken # <<>> /\ seen # 0 => m.session = seen
    BY <2>2 DEF Sound, DrainSeesItsOwn, Fits
  <2>4. taken # <<>> => Pending(m)
    BY <2>2 DEF Pending
  <2>5. taken # <<>> /\ seen # 0 /\ Handle(m, seen) => InOrder' /\ NoneCrosses'
    BY <1>1, <1>2, <2>2, <2>3, <2>4, HandledInTurn
  <2> QED
    BY <1>1, <2>1, <2>5, NothingHandled
<1>6. CASE DrainReleases
  <2> DEFINE m == Head(rest)
  <2>1. UNCHANGED delivered \/ (rest # <<>> /\ Handle(m, seen))
    <3>1. rest = <<>> => UNCHANGED delivered
      BY <1>6 DEF DrainReleases
    <3>2. rest # <<>> => Invoke(m, seen)
      BY <1>6 DEF DrainReleases
    <3>3. rest # <<>> => Handle(m, seen) \/ UNCHANGED delivered
      BY <3>2, Zenon DEF Invoke
    <3> QED
      BY <3>1, <3>3
  <2>2. rest # <<>> => m \in In(rest) /\ m \in Message
    BY InAre
  <2> HIDE DEF m
  <2>3. rest # <<>> => Pending(m) /\ custom
    BY <2>2 DEF Pending, Sound, InMapWhileNeeded
  <2>4. rest # <<>> /\ Handle(m, seen) => InOrder' /\ NoneCrosses'
    BY <1>1, <1>2, <2>2, <2>3, HandledInTurn
  <2> QED
    BY <1>1, <2>1, <2>4, NothingHandled
<1>7. CASE UNCHANGED delivered
  BY <1>1, <1>7, NothingHandled
<1>8. Dispatch \/ RunInvoke \/ DrainHandles \/ DrainReleases \/ UNCHANGED delivered
  BY DEF Next, SessionStarts, SessionEnds, Park, Hold, Scheduler, RunBind,
         RunDrain, DrainPops, DrainTests, DrainErases
<1> QED
  BY <1>3, <1>4, <1>5, <1>6, <1>7, <1>8

\* Only the last steps of a drain tear a queue.
LEMMA TornKept ==
    ASSUME BrokerTypeOK, Sound, Next
    PROVE  TornOnlyByRemains'
<1> USE NumbersAre
<1>1. custom' = custom /\ sessions' \in {sessions, sessions + 1} /\ torn = FALSE
  <2>1. sessions' \in {sessions, sessions + 1} /\ custom' = custom
    BY DEF Next, SessionStarts, SessionEnds, Dispatch, Park, Hold, Scheduler, wire,
           RunBind, RunInvoke, RunDrain, DrainPops, DrainHandles, DrainTests,
           DrainErases, DrainReleases
  <2>2. torn = FALSE
    BY DEF Next, BrokerTypeOK
  <2> QED
    BY <2>1, <2>2
<1>2. CASE DrainErases
  <2>1. torn' => waiting # <<>> \/ ~LockFree
    BY <1>1, <1>2 DEF DrainErases
  <2>2. draining = "erasing"
    BY <1>2 DEF DrainErases
  <2>3. torn' => custom \/ sessions > 1
    BY <2>1, <2>2 DEF Sound, FirstSession
  <2> QED
    BY <1>1, <2>3 DEF TornOnlyByRemains
<1>3. CASE DrainReleases
  <2>1. torn' => rest # <<>>
    BY <1>1, <1>3 DEF DrainReleases
  <2> QED
    BY <1>1, <2>1 DEF TornOnlyByRemains, Sound, InMapWhileNeeded
<1>4. CASE UNCHANGED torn
  BY <1>1, <1>4 DEF TornOnlyByRemains
<1>5. DrainErases \/ DrainReleases \/ UNCHANGED torn
  BY DEF Next, SessionStarts, SessionEnds, Dispatch, Park, Hold, Scheduler,
         RunBind, RunInvoke, RunDrain, DrainPops, DrainHandles, DrainTests
<1> QED
  BY <1>2, <1>3, <1>4, <1>5

-----------------------------------------------------------------------------
(* The theorems *)

\* The invariant is inductive, for any number of messages and connections.
THEOREM BrokerInvariant == Spec => []BrokerInv
<1>1. Init => BrokerInv
  <2> SUFFICES ASSUME Init PROVE BrokerInv
    OBVIOUS
  <2> USE BrokerAssumption
  <2>1. BrokerTypeOK
    <3>1. /\ waiting = <<>> /\ held = <<>> /\ taken = <<>> /\ rest = <<>>
          /\ queue = <<>> /\ delivered = <<>> /\ overtaking = {}
          /\ custom \in BOOLEAN /\ inMap \in BOOLEAN /\ torn \in BOOLEAN
      BY DEF Init
    <3>2. /\ {waiting, held, taken, rest} \subseteq Seq(Message)
          /\ queue \in Seq(Task)
          /\ delivered \in Seq([num : Nat, session : Nat, to : Nat])
      BY <3>1
    <3>3. /\ session \in 0 .. sessions /\ subscription \in {0, session}
          /\ sessions \in 0 .. MaxSessions
          /\ arrived \in 0 .. MaxMessages /\ earlier \in 0 .. arrived
          /\ seen \in Nat
      BY DEF Init
    <3>4. /\ dispatching \in {"idle", "parking", "holding"}
          /\ draining \in {"idle", "popping", "handling", "testing", "erasing",
                           "releasing"}
      BY DEF Init
    <3> QED
      BY <3>1, <3>2, <3>3, <3>4 DEF BrokerTypeOK
  <2>2. In(<<>>) = {} /\ Len(<<>>) = 0
    BY DEF In
  <2>3. /\ session = 0 /\ sessions = 0 /\ arrived = 0 /\ LockFree
        /\ subscription = 0 /\ inMap = FALSE /\ draining = "idle"
        /\ waiting = <<>> /\ held = <<>> /\ queue = <<>>
        /\ taken = <<>> /\ rest = <<>> /\ delivered = <<>>
        /\ dispatching = "idle" /\ torn = FALSE
    BY DEF Init, LockFree
  <2>4. SessionsInTurn
    BY <2>2, <2>3 DEF SessionsInTurn, TasksOrdered
  <2>5. InMapWhileNeeded
    BY <2>2, <2>3 DEF InMapWhileNeeded
  <2>6. DrainSeesItsOwn /\ DrainsMatch /\ FirstSession
    BY <2>2, <2>3 DEF DrainSeesItsOwn, DrainsMatch, Undrained, FirstSession
  <2>7. PlacesInOrder
    BY <2>2, <2>3 DEF PlacesInOrder, Increasing
  <2>8. HandledBefore /\ NoneForgotten
    BY <2>2, <2>3 DEF HandledBefore, NoneForgotten
  <2>9. InOrder /\ NoneCrosses /\ TornOnlyByRemains
    BY <2>2, <2>3 DEF InOrder, NoneCrosses, TornOnlyByRemains
  <2> QED
    BY <2>1, <2>4, <2>5, <2>6, <2>7, <2>8, <2>9 DEF BrokerInv, Sound
<1>2. BrokerInv /\ [Next]_vars => BrokerInv'
  <2> SUFFICES ASSUME BrokerInv, [Next]_vars PROVE BrokerInv'
    OBVIOUS
  <2>1. CASE Next
    <3>1. Sound
      BY <2>1 DEF BrokerInv, Next
    <3> QED
      BY <2>1, <3>1, TypesKept, SoundKept, HistoryKept, TornKept DEF BrokerInv
  <2>2. CASE UNCHANGED vars
    <3>1. UNCHANGED <<custom, session, sessions, arrived, earlier, dispatching,
                      subscription, inMap, waiting, held, queue, draining, seen,
                      taken, rest, delivered, overtaking, torn>>
      BY <2>2 DEF vars, wire, mq, task
    <3>2. BrokerTypeOK' /\ InOrder' /\ NoneCrosses' /\ TornOnlyByRemains'
      BY <3>1 DEF BrokerInv, BrokerTypeOK, InOrder, NoneCrosses, TornOnlyByRemains
    <3>3. SessionsInTurn' <=> SessionsInTurn
      BY <3>1 DEF SessionsInTurn
    <3>4. InMapWhileNeeded' <=> InMapWhileNeeded
      BY <3>1 DEF InMapWhileNeeded, LockFree
    <3>5. DrainSeesItsOwn' <=> DrainSeesItsOwn
      BY <3>1 DEF DrainSeesItsOwn, Fits
    <3>6. DrainsMatch' <=> DrainsMatch
      BY <3>1 DEF DrainsMatch, Undrained
    <3>7. FirstSession' <=> FirstSession
      BY <3>1 DEF FirstSession, LockFree
    <3>8. PlacesInOrder' <=> PlacesInOrder
      BY <3>1 DEF PlacesInOrder, Known, LockFree
    <3>9. HandledBefore' <=> HandledBefore
      BY <3>1 DEF HandledBefore, Pending, LockFree
    <3>10. NoneForgotten' <=> NoneForgotten
      BY <3>1 DEF NoneForgotten, Pending, LockFree
    <3> QED
      BY <3>1, <3>2, <3>3, <3>4, <3>5, <3>6, <3>7, <3>8, <3>9, <3>10
         DEF BrokerInv, Sound
  <2> QED
    BY <2>1, <2>2
<1> QED
  BY <1>1, <1>2, PTL DEF Spec

\* Every variable keeps its type.
THEOREM BrokerTyped == Spec => []BrokerTypeOK
<1>1. BrokerInv => BrokerTypeOK
  BY DEF BrokerInv
<1> QED
  BY <1>1, BrokerInvariant, PTL

\* The messages of a session are handled in the order they came, but for those
\* that overtake a drain.
THEOREM BrokerInOrder == Spec => []InOrder
<1>1. BrokerInv => InOrder
  BY DEF BrokerInv
<1> QED
  BY <1>1, BrokerInvariant, PTL

\* On the default scheduler no message reaches the entity of another session.
THEOREM BrokerNoneCrosses == Spec => []NoneCrosses
<1>1. BrokerInv => NoneCrosses
  BY DEF BrokerInv
<1> QED
  BY <1>1, BrokerInvariant, PTL

\* The drain and dispatch() meet in one queue unsynchronised only when the entity
\* has a scheduler of its own or there was an earlier session.
THEOREM BrokerTornOnlyByRemains == Spec => []TornOnlyByRemains
<1>1. BrokerInv => TornOnlyByRemains
  BY DEF BrokerInv
<1> QED
  BY <1>1, BrokerInvariant, PTL

\* No message of the session is left when the tasks of the scheduler are done.
THEOREM BrokerNoneLost == Spec => []NoneLost
<1>1. BrokerInv => NoneLost
  <2> SUFFICES ASSUME BrokerInv, queue = <<>>, draining = "idle", LockFree,
                      session # 0, ~torn,
                      NEW n \in earlier + 1 .. arrived
               PROVE  \E i \in 1 .. Len(delivered) : delivered[i].num = n
    BY DEF NoneLost
  <2>1. BrokerTypeOK /\ Sound
    BY DEF BrokerInv
  <2>2. In(queue) = {} /\ In(taken) = {} /\ In(rest) = {}
    BY <2>1, InAre DEF Sound, DrainSeesItsOwn
  <2>3. In(waiting) = {}
    BY <2>1, <2>2 DEF Sound, DrainsMatch, Undrained
  <2>4. In(held) = {}
    <3>1. dispatching # "parking"
      BY DEF LockFree
    <3>2. ~inMap
      BY <2>1, <2>2, <3>1 DEF Sound, InMapWhileNeeded
    <3> QED
      BY <2>1, <3>2, InAre DEF Sound, InMapWhileNeeded
  <2>5. \E d \in In(delivered) : d.num = n
    BY <2>1, <2>2, <2>3, <2>4 DEF Sound, NoneForgotten, Pending
  <2> QED
    BY <2>5 DEF In
<1> QED
  BY <1>1, BrokerInvariant, PTL
=============================================================================
