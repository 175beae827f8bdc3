---------------------------- MODULE MessageBroker ----------------------------
(***************************************************************************)
(* How a message of the counterpart reaches the entity with its id.  The   *)
(* thread that reads the socket dispatches it; the entity is bound, and    *)
(* most messages are handled, by tasks of the one default scheduler.  A    *)
(* message that comes before its entity is parked, with a task to drain it.*)
(*                                                                         *)
(* One id, through sessions: connections of the wire, each of which binds  *)
(* an entity of its own under that id.  dispatch() holds the lock, of which*)
(* the draining task takes only a part: its steps interleave with those of *)
(* dispatch.                                                               *)
(***************************************************************************)
EXTENDS Naturals, Sequences

CONSTANTS
    MaxMessages,    \* bound: messages that arrive
    MaxSessions     \* bound: connections

ASSUME BrokerAssumption == {MaxMessages, MaxSessions} \subseteq Nat

VARIABLES
    custom,         \* whether the entity has a (synchronous) scheduler of its own
    session,        \* the session of the wire, 0 without connection
    sessions,       \* how many there were
    arrived,        \* how many messages arrived
    earlier,        \* history: how many of them before this session
    dispatching,    \* where the thread of the wire is in dispatch()
    subscription,   \* the session whose entity is subscribed, or 0
    inMap,          \* whether broker has a queue for the id
    waiting,        \* its default_scheduler_messages
    held,           \* its custom_scheduler_messages
    queue,          \* the tasks of the default scheduler
    draining,       \* where the draining task is
    seen,           \* the subscription it read
    taken,          \* the message it took: a sequence of at most one
    rest,           \* the messages it took off the map
    delivered,      \* history: what was handled, with the session of the entity
    overtaking,     \* history: messages handled at once during a drain
    torn            \* history: the two threads touched one queue unsynchronised

wire == <<session, sessions, arrived, earlier, dispatching>>
mq   == <<inMap, waiting, held>>
task == <<draining, seen, taken, rest>>
vars == <<custom, wire, subscription, mq, queue, task, delivered, overtaking,
          torn>>

Message == [num : Nat, session : Nat]

\* A drain does not know the message it was queued for: that is history.
Task == [kind : {"bind"}, session : Nat]
        \cup [kind : {"invoke"}, session : Nat, message : Message]
        \cup [kind : {"drain"}, message : Message]

Init ==
    /\ custom \in BOOLEAN
    /\ session = 0 /\ sessions = 0 /\ arrived = 0 /\ earlier = 0
    /\ dispatching = "idle"
    /\ subscription = 0
    /\ inMap = FALSE /\ waiting = <<>> /\ held = <<>>
    /\ queue = <<>>
    /\ draining = "idle" /\ seen = 0 /\ taken = <<>> /\ rest = <<>>
    /\ delivered = <<>> /\ overtaking = {}
    /\ torn = FALSE

\* The lock of the broker is free.
LockFree == dispatching = "idle"

Arriving == [num |-> arrived, session |-> session]

Handle(message, entity) ==
    delivered' = Append(delivered, [num |-> message.num,
                                    session |-> message.session,
                                    to |-> entity])

\* The action of invoke() looks whether the entity is still there.
Invoke(message, entity) ==
    IF entity # 0 /\ subscription = entity THEN Handle(message, entity)
    ELSE UNCHANGED delivered

-----------------------------------------------------------------------------
(* The thread of the wire *)

\* connected becomes true before the first message is read.
SessionStarts ==
    /\ session = 0 /\ LockFree
    /\ sessions < MaxSessions
    /\ sessions' = sessions + 1
    /\ session' = sessions'
    /\ earlier' = arrived
    /\ queue' = Append(queue, [kind |-> "bind", session |-> sessions'])
    /\ UNCHANGED <<custom, arrived, dispatching, subscription, mq, task,
                   delivered, overtaking, torn>>

EndKeepsSubscription ==                                       \* mutant
    /\ session # 0 /\ LockFree
    /\ session' = 0
    /\ UNCHANGED <<custom, sessions, arrived, earlier, dispatching, subscription, mq,
                   queue, task, delivered, overtaking, torn>>

\* The end of the lifetime unsubscribes the entity.
SessionEnds ==
    /\ session # 0 /\ LockFree
    /\ session' = 0
    /\ subscription' = 0
    /\ UNCHANGED <<custom, sessions, arrived, earlier, dispatching, mq, queue, task,
                   delivered, overtaking, torn>>

DispatchTo(message) ==
    IF custom
    THEN /\ Invoke(message, subscription)
         /\ overtaking' = IF draining = "idle" THEN overtaking
                          ELSE overtaking \cup {message.num}
         /\ UNCHANGED queue
    ELSE /\ queue' = Append(queue, [kind |-> "invoke", session |-> subscription,
                                    message |-> message])
         /\ UNCHANGED <<delivered, overtaking>>

Parks == subscription = 0
NeverHolds == FALSE                                           \* mutant
Holds == subscription # 0 /\ custom /\ inMap

\* dispatch(): take the lock, look up the entity and the queue.
Dispatch ==
    /\ session # 0 /\ LockFree
    /\ arrived < MaxMessages
    /\ arrived' = arrived + 1
    /\ \/ /\ Parks
          /\ dispatching' = "parking"
          /\ inMap' = TRUE
          /\ UNCHANGED <<queue, delivered, overtaking>>
       \/ /\ Holds
          /\ dispatching' = "holding"
          /\ UNCHANGED <<inMap, queue, delivered, overtaking>>
       \/ /\ ~Parks /\ ~Holds
          /\ DispatchTo([num |-> arrived', session |-> session])
          /\ UNCHANGED <<dispatching, inMap>>
    /\ UNCHANGED <<custom, session, sessions, earlier, subscription, waiting, held, task,
                   torn>>

Park ==
    /\ dispatching = "parking"
    /\ dispatching' = "idle"
    /\ inMap' = TRUE
    /\ waiting' = Append(waiting, Arriving)
    /\ queue' = Append(queue, [kind |-> "drain", message |-> Arriving])
    /\ UNCHANGED <<custom, session, sessions, arrived, earlier, subscription, held, task,
                   delivered, overtaking, torn>>

Hold ==
    /\ dispatching = "holding"
    /\ dispatching' = "idle"
    /\ held' = Append(held, Arriving)
    /\ UNCHANGED <<custom, session, sessions, arrived, earlier, subscription, inMap,
                   waiting, queue, task, delivered, overtaking, torn>>

-----------------------------------------------------------------------------
(* The default scheduler *)

Idle == draining = "idle" /\ queue # <<>>

NeverSubscribes ==                                            \* mutant
    /\ Idle /\ LockFree
    /\ Head(queue).kind = "bind"
    /\ queue' = Tail(queue)
    /\ UNCHANGED <<custom, wire, subscription, mq, task, delivered, overtaking,
                   torn>>

\* advise_on() does nothing, or fails, when the lifetime has ended.
RunBind ==
    /\ Idle /\ LockFree
    /\ Head(queue).kind = "bind"
    /\ subscription' = IF session = Head(queue).session THEN session
                       ELSE subscription
    /\ queue' = Tail(queue)
    /\ UNCHANGED <<custom, wire, mq, task, delivered, overtaking, torn>>

RunInvoke ==
    /\ Idle /\ LockFree
    /\ Head(queue).kind = "invoke"
    /\ Invoke(Head(queue).message, Head(queue).session)
    /\ queue' = Tail(queue)
    /\ UNCHANGED <<custom, wire, subscription, mq, task, overtaking, torn>>

\* The draining task reads the subscription, without the lock.
RunDrain ==
    /\ Idle
    /\ Head(queue).kind = "drain"
    /\ seen' = subscription
    /\ draining' = "popping"
    /\ queue' = Tail(queue)
    /\ UNCHANGED <<custom, wire, subscription, mq, taken, rest, delivered,
                   overtaking, torn>>

PopsLast == [waiting EXCEPT ![1] = waiting[Len(waiting)]]     \* mutant
Popped == waiting

DrainPops ==
    /\ draining = "popping" /\ LockFree
    /\ draining' = "handling"
    /\ IF waiting = <<>>
       THEN taken' = <<>> /\ UNCHANGED waiting
       ELSE taken' = <<Head(Popped)>> /\ waiting' = Tail(waiting)
    /\ UNCHANGED <<custom, wire, subscription, inMap, held, queue, seen, rest,
                   delivered, overtaking, torn>>

\* On the default scheduler the message is handled without another look, on
\* one of the entity's own through the action of invoke().
DrainHandles ==
    /\ draining = "handling"
    /\ custom => LockFree
    /\ draining' = "testing"
    /\ taken' = <<>>
    /\ IF seen = 0 \/ taken = <<>> THEN UNCHANGED delivered
       ELSE IF custom THEN Invoke(Head(taken), seen)
       ELSE Handle(Head(taken), seen)
    /\ UNCHANGED <<custom, wire, subscription, mq, queue, seen, rest,
                   overtaking, torn>>

DrainTests ==
    /\ draining = "testing"
    /\ draining' = IF waiting = <<>> THEN "erasing" ELSE "idle"
    /\ UNCHANGED <<custom, wire, subscription, mq, queue, seen, taken, rest,
                   delivered, overtaking, torn>>

\* It takes the queue off the map without the lock: what dispatch() put there
\* since the test, or is about to, is lost or goes into freed memory.
DrainErases ==
    /\ draining = "erasing"
    /\ draining' = "releasing"
    /\ rest' = held
    /\ inMap' = FALSE /\ waiting' = <<>> /\ held' = <<>>
    /\ torn' = (torn \/ waiting # <<>> \/ ~LockFree)
    /\ UNCHANGED <<custom, wire, subscription, queue, seen, taken, delivered,
                   overtaking>>

\* The messages held back follow.  Without an entity the assertion before this
\* reads through a null pointer.
DrainReleases ==
    /\ draining = "releasing" /\ LockFree
    /\ IF rest = <<>>
       THEN draining' = "idle" /\ UNCHANGED <<rest, delivered, torn>>
       ELSE /\ rest' = Tail(rest)
            /\ torn' = (torn \/ seen = 0)
            /\ Invoke(Head(rest), seen)
            /\ UNCHANGED draining
    /\ UNCHANGED <<custom, wire, subscription, mq, queue, seen, taken,
                   overtaking>>

Scheduler ==
    \/ RunBind \/ RunInvoke \/ RunDrain
    \/ DrainPops \/ DrainHandles \/ DrainTests \/ DrainErases \/ DrainReleases

\* Nothing is said of what follows undefined behaviour.
Next ==
    /\ ~torn
    /\ \/ SessionStarts \/ SessionEnds
       \/ Dispatch \/ Park \/ Hold
       \/ Scheduler

Spec == Init /\ [][Next]_vars

-----------------------------------------------------------------------------
(* Properties *)

\* Every variable has its type.
BrokerTypeOK ==
    /\ custom \in BOOLEAN /\ inMap \in BOOLEAN /\ torn \in BOOLEAN
    /\ session \in 0 .. sessions /\ subscription \in {0, session}
    /\ sessions \in 0 .. MaxSessions
    /\ arrived \in 0 .. MaxMessages /\ earlier \in 0 .. arrived
    /\ dispatching \in {"idle", "parking", "holding"}
    /\ {waiting, held, taken, rest} \subseteq Seq(Message)
    /\ queue \in Seq(Task)
    /\ draining \in {"idle", "popping", "handling", "testing", "erasing",
                     "releasing"}
    /\ seen \in Nat
    /\ delivered \in Seq([num : Nat, session : Nat, to : Nat])
    /\ overtaking \subseteq 1 .. arrived

\* The messages of a session are handled in the order they came, and once,
\* whether they were parked, held back or handled directly.  One that comes while
\* the task drains the queue may be handled before those that task still holds.
InOrder ==
    \A i, j \in 1 .. Len(delivered) :
        i < j /\ delivered[i].session = delivered[j].session =>
            \/ delivered[i].num < delivered[j].num
            \/ /\ delivered[i].num # delivered[j].num
               /\ delivered[i].num \in overtaking

\* On the default scheduler no message reaches the entity of another session
\* than the one it was sent in, although all have one id and messages are parked
\* across sessions.  (A message held back for a synchronous entity may.)
NoneCrosses ==
    \A i \in 1 .. Len(delivered) :
        custom \/ delivered[i].to = delivered[i].session

\* When all tasks are done every message of the session was handled, also the
\* ones that came before their entity.
NoneLost ==
    (queue = <<>> /\ draining = "idle" /\ LockFree /\ session # 0 /\ ~torn) =>
        \A n \in earlier + 1 .. arrived :
            \E i \in 1 .. Len(delivered) : delivered[i].num = n

\* The two threads meet in one queue unsynchronised only when the entity has a
\* scheduler of its own or an earlier session left a message parked.
TornOnlyByRemains == torn => custom \/ sessions > 1
=============================================================================
