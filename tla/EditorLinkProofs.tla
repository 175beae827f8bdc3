-------------------------- MODULE EditorLinkProofs --------------------------
(***************************************************************************)
(* Theorems about the link to the IDE, for any number of connections, of   *)
(* things the user and the IDE do, and any settings.                       *)
(***************************************************************************)
EXTENDS EditorLink, TLAPS

-----------------------------------------------------------------------------
(* Settings and modes *)

LEMMA IntOfPlayMode ==
    ASSUME NEW m \in PlayModes
    PROVE  /\ PlayModeToInt(m) \in 0 .. 6
           /\ m # "InTargetedMobilePreview" => PlayModeFromInt(PlayModeToInt(m)) = m
BY DEF PlayModes, PlayModeToInt, PlayModeFromInt

LEMMA PlayModeOfInt ==
    ASSUME NEW n \in Nat
    PROVE  /\ PlayModeFromInt(n) \in PlayModes \ {"InTargetedMobilePreview"}
           /\ n \in 0 .. 6 => PlayModeToInt(PlayModeFromInt(n)) = n
BY DEF PlayModes, PlayModeToInt, PlayModeFromInt

\* The number of settings stays in a byte, whatever the number of players.
LEMMA PackBounds ==
    ASSUME NEW s \in PlaySettings
    PROVE  PackToMode(s) \in ModeNumbers
<1>1. s.NumberOfClients \in 1 .. 64 /\ PlayModeToInt(s.PlayMode) \in 0 .. 6
  BY IntOfPlayMode DEF PlaySettings
<1>2. Bit(s.bSpawnAtPlayerStart, 4) \in {0, 4} /\ Bit(s.bNetDedicated, 8) \in {0, 8}
  BY DEF PlaySettings, Bit
<1> QED
  BY <1>1, <1>2 DEF PackToMode, ModeNumbers

LEMMA UnpackTypes ==
    ASSUME NEW mode \in Nat
    PROVE  UnpackFromMode(mode) \in PlaySettings
<1>1. (mode \div 16) % 8 \in Nat /\ (mode % 4) + 1 \in 1 .. 64
  OBVIOUS
<1>2. HasBit(mode, 8) \in BOOLEAN /\ HasBit(mode, 4) \in BOOLEAN
  BY DEF HasBit
<1>3. PlayModeFromInt((mode \div 16) % 8) \in PlayModes
  BY <1>1, PlayModeOfInt
<1> QED
  BY <1>1, <1>2, <1>3 DEF UnpackFromMode, PlaySettings

\* Four fields of a number are found again in it.
LEMMA FieldsOfNumber ==
    ASSUME NEW n \in 0 .. 3, NEW b \in {0, 4}, NEW d \in {0, 8}, NEW k \in 0 .. 6
    PROVE  LET x == n + b + d + 16 * k
           IN  /\ x % 4 = n
               /\ (x \div 4) % 2 = 1 <=> b = 4
               /\ (x \div 8) % 2 = 1 <=> d = 8
               /\ (x \div 16) % 8 = k
OBVIOUS

\* Settings that have a number come back from it, as PackToMode and
\* UnpackFromMode are meant to: up to four players, and no targeted preview.
THEOREM SettingsComeBack ==
    ASSUME NEW s \in PlaySettings, Packable(s)
    PROVE  UnpackFromMode(PackToMode(s)) = s
<1> DEFINE n == s.NumberOfClients - 1
           b == Bit(s.bSpawnAtPlayerStart, 4)
           d == Bit(s.bNetDedicated, 8)
           k == PlayModeToInt(s.PlayMode)
           x == n + b + d + 16 * k
<1>1. /\ n \in 0 .. 3
      /\ b \in {0, 4} /\ (b = 4 <=> s.bSpawnAtPlayerStart)
      /\ d \in {0, 8} /\ (d = 8 <=> s.bNetDedicated)
      /\ k \in 0 .. 6 /\ PlayModeFromInt(k) = s.PlayMode
  BY IntOfPlayMode DEF PlaySettings, Packable, Bit
<1>2. PackToMode(s) = x
  BY DEF PackToMode
<1>3. /\ x % 4 = n
      /\ (x \div 4) % 2 = 1 <=> b = 4
      /\ (x \div 8) % 2 = 1 <=> d = 8
      /\ (x \div 16) % 8 = k
  <2> HIDE DEF n, b, d, k
  <2> QED
    BY <1>1, FieldsOfNumber
<1>4. UnpackFromMode(x) = [PlayMode            |-> s.PlayMode,
                           NumberOfClients     |-> s.NumberOfClients,
                           bNetDedicated       |-> s.bNetDedicated,
                           bSpawnAtPlayerStart |-> s.bSpawnAtPlayerStart]
  <2>1. n + 1 = s.NumberOfClients
    BY DEF PlaySettings
  <2>2. s.bSpawnAtPlayerStart \in BOOLEAN /\ s.bNetDedicated \in BOOLEAN
    BY DEF PlaySettings
  <2> HIDE DEF n, b, d, k, x
  <2>3. HasBit(x, 8) = s.bNetDedicated /\ HasBit(x, 4) = s.bSpawnAtPlayerStart
    BY <1>1, <1>3, <2>2 DEF HasBit
  <2> QED
    BY <1>1, <1>3, <2>1, <2>3 DEF UnpackFromMode
<1> QED
  BY <1>2, <1>4 DEF PlaySettings

\* A number the IDE sends comes back from the settings it stands for, so that
\* the IDE is never told another mode than the one it asked for.
THEOREM ModeComesBack ==
    ASSUME NEW mode \in 0 .. 111
    PROVE  PackToMode(UnpackFromMode(mode)) = mode
<1> DEFINE s == UnpackFromMode(mode)
<1>1. /\ s.NumberOfClients = (mode % 4) + 1
      /\ s.bSpawnAtPlayerStart = HasBit(mode, 4)
      /\ s.bNetDedicated = HasBit(mode, 8)
      /\ s.PlayMode = PlayModeFromInt((mode \div 16) % 8)
  BY DEF UnpackFromMode
<1>2. (mode \div 16) % 8 = mode \div 16 /\ mode \div 16 \in 0 .. 6
  OBVIOUS
<1>3. PlayModeToInt(s.PlayMode) = mode \div 16
  BY <1>1, <1>2, PlayModeOfInt
<1>4. mode = (mode % 4) + 4 * ((mode \div 4) % 2) + 8 * ((mode \div 8) % 2)
             + 16 * (mode \div 16)
  OBVIOUS
<1>5. /\ Bit(HasBit(mode, 4), 4) = 4 * ((mode \div 4) % 2)
      /\ Bit(HasBit(mode, 8), 8) = 8 * ((mode \div 8) % 2)
  BY DEF Bit, HasBit
<1> HIDE DEF s
<1>6. PackToMode(s) = (mode % 4) + Bit(HasBit(mode, 4), 4) + Bit(HasBit(mode, 8), 8)
                      + 16 * (mode \div 16)
  BY <1>1, <1>3 DEF PackToMode
<1> QED
  BY <1>4, <1>5, <1>6 DEF s

-----------------------------------------------------------------------------
(* Types *)

\* Every task that is queued is one.
LEMMA TasksAre ==
    /\ \A c \in Connections : [kind |-> "connected", connection |-> c] \in Tasks
    /\ [kind |-> "lost"] \in Tasks
    /\ \A m \in RiderModes, c \in Connections :
         [kind |-> "setMode", mode |-> m, connection |-> c] \in Tasks
    /\ \A i \in Ids, c \in Connections :
         [kind |-> "request", id |-> i, connection |-> c] \in Tasks
    /\ \A c \in Connections, what \in Told : Event(c, what) \in Tasks
BY DEF Tasks, Event

LEMMA ToldAre ==
    /\ \A m \in ModeNumbers : Mode(m) \in Told
    /\ \A p \in {"Idle", "Play", "Pause"} : Play(p) \in Told
    /\ \A i \in Ids : Reply(i) \in Told
BY DEF Told, Mode, Play, Reply

LEMMA TaskFields ==
    ASSUME NEW t \in Tasks
    PROVE  /\ t.kind \in {"connected", "setMode", "request"}
                => t.connection \in Connections
           /\ t.kind = "setMode" => t.mode \in RiderModes
           /\ t.kind = "request" => t.id \in Ids
           /\ t.kind = "event" => t.control \in Connections
BY DEF Tasks

LEMMA LinkInitTypes ==
    ASSUME Init
    PROVE  LinkTypeOK
<1>1. MaxConnections \in Nat /\ MaxMoves \in Nat /\ UserSettings \subseteq PlaySettings
  BY LinkAssumption
<1>2. edited \in [control : 0 .. MaxConnections, mode : ModeNumbers]
  BY <1>1 DEF Init, ModeNumbers
<1>3. queue \in Seq(Tasks) /\ gameTasks \in Seq([control : Connections, id : Ids])
  BY DEF Init
<1>4. settings \in PlaySettings
  BY <1>1 DEF Init
<1>5. {retrieved, playMode} \subseteq ModeNumbers
  BY DEF Init, ModeNumbers
<1>6. {model, control, delegates} \subseteq 0 .. MaxConnections
  BY <1>1 DEF Init
<1>7. /\ connections \in 0 .. MaxConnections /\ connection \in {0, connections}
      /\ hooked = FALSE /\ stage = "idle" /\ alive = FALSE /\ playing = "Idle"
      /\ editing = "idle" /\ moves \in 0 .. MaxMoves /\ stale = FALSE
  BY <1>1 DEF Init
<1> QED
  BY <1>2, <1>3, <1>4, <1>5, <1>6, <1>7 DEF LinkTypeOK

LEMMA LinkTypeStep ==
    ASSUME LinkTypeOK, [Next]_vars
    PROVE  LinkTypeOK'
<1> USE LinkAssumption
<1> USE DEF LinkTypeOK, wire, scheduler, link, game, rider, history, Connections
<1>0. ASSUME Runs("connected") \/ Runs("setMode") \/ Runs("request")
             \/ Runs("lost") \/ Runs("event")
      PROVE  Tail(queue) \in Seq(Tasks) /\ Head(queue) \in Tasks
  BY <1>0 DEF Runs
<1> MaxConnections \in Nat /\ MaxMoves \in Nat
  OBVIOUS
<1>1. CASE Connects
  <2>1. connections + 1 \in Connections
    BY <1>1 DEF Connects
  <2> QED
    BY <1>1, <2>1, TasksAre DEF Connects
<1>2. CASE Disconnects
  <2>1. Append(queue, [kind |-> "lost"]) \in Seq(Tasks)
    BY TasksAre
  <2> QED
    BY <1>2, <2>1 DEF Disconnects
<1>3. CASE MakeModel
  <2>1. Head(queue).connection \in Connections
    BY <1>3, <1>0, TaskFields DEF MakeModel, Runs
  <2>2. queue' \in Seq(Tasks)
    BY <1>3, <1>0 DEF MakeModel, EndsTask
  <2>3. playMode' \in ModeNumbers
    BY <1>3, PackBounds DEF MakeModel
  <2>4. {model, control, delegates}' \subseteq 0 .. MaxConnections
    BY <1>3, <2>1 DEF MakeModel
  <2>5. hooked' \in BOOLEAN /\ (hooked' => connection # 0)
    <3>1. CASE connection = Head(queue).connection
      BY <1>3, <2>1, <3>1 DEF MakeModel
    <3>2. CASE connection # Head(queue).connection
      BY <1>3, <3>2 DEF MakeModel
    <3> QED
      BY <3>1, <3>2
  <2>6. stage' \in {"subscribed", stage} /\ alive' \in BOOLEAN
    BY <1>3 DEF MakeModel
  <2>7. UNCHANGED <<connection, connections, retrieved, settings, playing, editing,
                    edited, gameTasks, moves, stale>>
    BY <1>3 DEF MakeModel
  <2> QED
    BY <2>2, <2>3, <2>4, <2>5, <2>6, <2>7
<1>4. CASE ReadSettings
  BY <1>4, PackBounds DEF ReadSettings
<1>5. CASE InitialSync
  BY <1>5 DEF InitialSync
<1>6. CASE LoseModel
  <2>1. queue' \in Seq(Tasks)
    BY <1>6, <1>0 DEF LoseModel, EndsTask
  <2>2. {model, control, delegates}' \subseteq 0 .. MaxConnections
    BY <1>6 DEF LoseModel
  <2> QED
    BY <1>6, <2>1, <2>2 DEF LoseModel
<1>7. CASE RunEvent
  BY <1>7, <1>0 DEF RunEvent, EndsTask
<1>8. CASE DropMessage
  BY <1>8, <1>0 DEF DropMessage, EndsTask
<1>9. CASE SetMode
  <2>1. Head(queue).mode \in Nat
    <3>1. Head(queue) \in Tasks /\ Head(queue).kind = "setMode"
      BY <1>9, <1>0 DEF SetMode, Runs
    <3>2. Head(queue).mode \in RiderModes
      BY <3>1, TaskFields
    <3>3. \A m \in RiderModes : m \in Nat
      OBVIOUS
    <3> QED
      BY <3>2, <3>3
  <2> QED
    BY <1>9, <1>0, <2>1, UnpackTypes DEF SetMode, EndsTask
<1>10. CASE AnnounceMode
  BY <1>10 DEF AnnounceMode
<1>11. CASE RequestPlay
  <2>1. control \in Connections /\ Head(queue).id \in Ids
    BY <1>11, <1>0, TaskFields DEF RequestPlay, Runs, Handled
  <2>2. Append(gameTasks, [control |-> control, id |-> Head(queue).id])
          \in Seq([control : Connections, id : Ids])
    BY <2>1
  <2> HIDE DEF Connections
  <2> QED
    BY <1>11, <1>0, <2>2 DEF RequestPlay, EndsTask
<1>12. CASE PlayEvent
  <2>1. playing' \in {"Idle", "Play", "Pause"}
    BY <1>12 DEF PlayEvent
  <2>2. delegates # 0 => Event(delegates, Play(playing')) \in Tasks
    BY <2>1, TasksAre, ToldAre
  <2> QED
    BY <1>12, <2>1, <2>2 DEF PlayEvent, Moves
<1>13. CASE EditSettings
  BY <1>13, PackBounds DEF EditSettings, Moves
<1>14. CASE CompareMode
  BY <1>14 DEF CompareMode
<1>15. CASE QueueMode
  <2>1. Event(edited.control, Mode(edited.mode)) \in Tasks
    <3>1. edited.control \in Connections /\ edited.mode \in ModeNumbers
      BY <1>15 DEF QueueMode
    <3> QED
      BY <3>1, TasksAre, ToldAre
  <2> QED
    BY <1>15, <2>1 DEF QueueMode
<1>16. CASE ExecuteCommand
  <2> DEFINE T == [control : Connections, id : Ids]
  <2>1. Head(gameTasks) \in T /\ Tail(gameTasks) \in Seq(T)
    <3>1. gameTasks \in Seq(T) /\ gameTasks # <<>>
      BY <1>16 DEF ExecuteCommand
    <3> HIDE DEF T
    <3> QED
      BY <3>1
  <2>2. Event(Head(gameTasks).control, Reply(Head(gameTasks).id)) \in Tasks
    BY <2>1, TasksAre, ToldAre
  <2> QED
    BY <1>16, <2>1, <2>2 DEF ExecuteCommand
<1>17. CASE SendMode
  BY <1>17, TasksAre DEF SendMode, Moves
<1>18. CASE SendRequest
  <2>1. moves' \in Ids /\ moves' \in 0 .. MaxMoves
    BY <1>18 DEF SendRequest, Moves, Ids
  <2> QED
    BY <1>18, <2>1, TasksAre DEF SendRequest
<1>19. CASE Receive
  BY <1>19 DEF Receive
<1>20. CASE UNCHANGED vars
  BY <1>20 DEF vars
<1> QED
  BY <1>1, <1>2, <1>3, <1>4, <1>5, <1>6, <1>7, <1>8, <1>9, <1>10, <1>11, <1>12,
     <1>13, <1>14, <1>15, <1>16, <1>17, <1>18, <1>19, <1>20
     DEF Next, Scheduler, Game, Rider

-----------------------------------------------------------------------------
(* The inductive invariant *)

Constructing == stage \in {"subscribed", "syncing"}
IsLost(t) == t.kind = "lost"
IsConnected(t) == t.kind = "connected"
IsMessage(t) == t.kind \in {"setMode", "request"}

\* A model is hooked exactly while its connection goes on, and alive until the
\* task that its end queued has run; and then it has its control.
ModelAndControl ==
    /\ hooked => connection = model /\ control = model
    /\ connection # 0 /\ model = connection => hooked
    /\ model <= connections
    /\ alive <=> hooked \/ Lost
    /\ alive => model # 0
    /\ control # 0 => alive /\ control = model

\* Connections are queued in order, and the end of one model before the next.
QueueOrdered ==
    /\ \A k \in 1 .. Len(queue) :
         /\ IsConnected(queue[k]) => queue[k].connection \in model + 1 .. connections
         /\ hooked => ~IsLost(queue[k])
    /\ \A j, k \in 1 .. Len(queue) :
         j < k => /\ ~(IsLost(queue[j]) /\ IsLost(queue[k]))
                  /\ IsConnected(queue[j]) => ~IsLost(queue[k])
                  /\ IsConnected(queue[j]) /\ IsConnected(queue[k])
                       => queue[j].connection < queue[k].connection

\* A sound event finds its control when its turn comes.
SoundEvents ==
    \A k \in 1 .. Len(queue) :
        queue[k].kind = "event" /\ queue[k].sound =>
            /\ queue[k].control = control
            /\ ~Constructing
            /\ \A j \in 1 .. k - 1 : ~IsLost(queue[j])

\* What the game's thread holds is of this model or of an earlier one.
GameBehind ==
    /\ delegates <= model
    /\ edited.control <= model
    /\ \A k \in 1 .. Len(gameTasks) : gameTasks[k].control <= model

LinkInv ==
    /\ LinkTypeOK
    /\ ModelAndControl
    /\ QueueOrdered
    /\ SoundEvents
    /\ GameBehind

\* What the queue and the model are changed by, as far as the invariant goes.
Appends(e) ==
    /\ queue' = Append(queue, e)
    /\ e \in Tasks
    /\ e.kind \in {"event", "setMode", "request"}
    /\ e.kind = "event" => e.control <= model
    /\ e.kind = "event" /\ e.sound => connection = e.control /\ ~Constructing
    /\ IsMessage(e) => e.connection = connection
    /\ UNCHANGED <<wire, link, stage>>

Takes ==
    /\ queue # <<>>
    /\ Head(queue).kind \in {"event", "setMode", "request"}
    /\ queue' = Tail(queue)
    /\ stage = "idle" /\ stage' \in {"idle", "applied"}
    /\ UNCHANGED <<wire, link>>

Goes ==
    /\ control' = control \/ (control' = 0 /\ connection # model /\ Constructing)
    /\ Constructing' => Constructing
    /\ UNCHANGED <<wire, queue, alive, model, delegates>>

LEMMA LinkStep ==
    ASSUME LinkTypeOK, GameBehind, [Next]_vars
    PROVE  \/ Connects \/ Disconnects \/ MakeModel \/ LoseModel
           \/ (\E e \in Tasks : Appends(e))
           \/ Takes \/ Goes
<1> USE DEF wire, scheduler, link, game, rider, history, IsMessage
<1>1. ASSUME PlayEvent PROVE Goes \/ \E e \in Tasks : Appends(e)
  <2>1. CASE delegates = 0
    BY <1>1, <2>1 DEF PlayEvent, Goes, Constructing
  <2>2. CASE delegates # 0
    <3> DEFINE e == Event(delegates, Play(playing'))
    <3>1. playing' \in {"Idle", "Play", "Pause"} /\ delegates \in Connections
      BY <1>1, <2>2, LinkAssumption DEF PlayEvent, LinkTypeOK, Connections
    <3>2. e \in Tasks
      BY <3>1, TasksAre, ToldAre
    <3>3. /\ e.kind = "event" /\ e.control = delegates
          /\ e.sound = (connection = delegates /\ ~Constructing)
      BY DEF Event, Constructing
    <3>4. queue' = Append(queue, e) /\ UNCHANGED <<wire, link, stage>>
      BY <1>1, <2>2 DEF PlayEvent
    <3> QED
      BY <3>2, <3>3, <3>4 DEF Appends, GameBehind
  <2> QED
    BY <2>1, <2>2
<1>2. ASSUME QueueMode PROVE \E e \in Tasks : Appends(e)
  <2> DEFINE c == edited.control
             e == Event(c, Mode(edited.mode))
  <2>1. c \in Connections /\ edited.mode \in ModeNumbers
    BY <1>2, LinkAssumption DEF QueueMode, LinkTypeOK, Connections
  <2>2. e \in Tasks
    BY <2>1, TasksAre, ToldAre
  <2>3. /\ e.kind = "event" /\ e.control = c
        /\ e.sound = (connection = c /\ ~Constructing)
    BY DEF Event, Constructing
  <2>4. queue' = Append(queue, e) /\ UNCHANGED <<wire, link, stage>>
    BY <1>2 DEF QueueMode
  <2> QED
    BY <2>2, <2>3, <2>4 DEF Appends, GameBehind
<1>3. ASSUME ExecuteCommand PROVE \E e \in Tasks : Appends(e)
  <2> DEFINE c == Head(gameTasks).control
             e == Event(c, Reply(Head(gameTasks).id))
             T == [control : Connections, id : Ids]
  <2>1. Head(gameTasks) = gameTasks[1] /\ 1 \in 1 .. Len(gameTasks)
        /\ Head(gameTasks) \in T
    <3>1. gameTasks \in Seq(T) /\ gameTasks # <<>>
      BY <1>3 DEF ExecuteCommand, LinkTypeOK
    <3> HIDE DEF T
    <3> QED
      BY <3>1
  <2>2. e \in Tasks
    BY <2>1, TasksAre, ToldAre
  <2>3. /\ e.kind = "event" /\ e.control = c
        /\ e.sound = (connection = c /\ ~Constructing)
    BY DEF Event, Constructing
  <2>4. queue' = Append(queue, e) /\ UNCHANGED <<wire, link, stage>>
    BY <1>3 DEF ExecuteCommand
  <2> QED
    BY <2>1, <2>2, <2>3, <2>4 DEF Appends, GameBehind
<1>4. ASSUME SendMode PROVE \E e \in Tasks : Appends(e)
  <2>1. PICK m \in RiderModes :
          queue' = Append(queue, [kind |-> "setMode", mode |-> m,
                                  connection |-> connection])
    BY <1>4 DEF SendMode
  <2>2. connection \in Connections
    BY <1>4, LinkAssumption DEF SendMode, LinkTypeOK, Connections
  <2> DEFINE e == [kind |-> "setMode", mode |-> m, connection |-> connection]
  <2>3. e \in Tasks /\ e.kind = "setMode" /\ e.connection = connection
    BY <2>2, TasksAre
  <2>4. UNCHANGED <<wire, link, stage>>
    BY <1>4 DEF SendMode
  <2> QED
    BY <2>1, <2>3, <2>4 DEF Appends
<1>5. ASSUME SendRequest PROVE \E e \in Tasks : Appends(e)
  <2> DEFINE e == [kind |-> "request", id |-> moves', connection |-> connection]
  <2>1. connection \in Connections /\ moves' \in Ids
    BY <1>5, LinkAssumption DEF SendRequest, Moves, LinkTypeOK, Connections, Ids
  <2>2. e \in Tasks /\ e.kind = "request" /\ e.connection = connection
    BY <2>1, TasksAre
  <2>3. queue' = Append(queue, e) /\ UNCHANGED <<wire, link, stage>>
    BY <1>5 DEF SendRequest
  <2> QED
    BY <2>2, <2>3 DEF Appends
<1>6. ASSUME RunEvent \/ DropMessage \/ SetMode \/ RequestPlay PROVE Takes
  BY <1>6 DEF RunEvent, DropMessage, SetMode, RequestPlay, Takes, Runs, EndsTask
<1>7. ASSUME ReadSettings \/ AnnounceMode \/ EditSettings \/ CompareMode \/ Receive
             \/ UNCHANGED vars
      PROVE  Goes
  BY <1>7 DEF ReadSettings, AnnounceMode, EditSettings, CompareMode, Receive, vars,
              Goes, Constructing
<1>8. ASSUME InitialSync PROVE Goes
  BY <1>8 DEF InitialSync, Goes, Constructing
<1> QED
  BY <1>1, <1>2, <1>3, <1>4, <1>5, <1>6, <1>7, <1>8 DEF Next, Scheduler, Game, Rider

LEMMA AppendIs ==
    ASSUME queue \in Seq(Tasks), NEW e \in Tasks, queue' = Append(queue, e)
    PROVE  /\ Len(queue) \in Nat /\ Len(queue') = Len(queue) + 1
           /\ \A k \in 1 .. Len(queue) : queue'[k] = queue[k] /\ k \in 1 .. Len(queue')
           /\ queue'[Len(queue) + 1] = e /\ Len(queue) + 1 \in 1 .. Len(queue')
           /\ \A k \in 1 .. Len(queue') : k \in 1 .. Len(queue) \/ k = Len(queue) + 1
OBVIOUS

LEMMA TailIs ==
    ASSUME queue \in Seq(Tasks), queue # <<>>, queue' = Tail(queue)
    PROVE  /\ Len(queue) \in Nat \ {0} /\ Len(queue') = Len(queue) - 1
           /\ \A k \in 1 .. Len(queue') :
                queue'[k] = queue[k + 1] /\ k + 1 \in 1 .. Len(queue)
           /\ Head(queue) = queue[1] /\ 1 \in 1 .. Len(queue)
           /\ \A k \in 1 .. Len(queue) : k = 1 \/ (k - 1 \in 1 .. Len(queue')
                                                   /\ queue'[k - 1] = queue[k])
OBVIOUS

Core == ModelAndControl /\ QueueOrdered /\ SoundEvents

LEMMA AppendsKeeps ==
    ASSUME LinkTypeOK, Core, NEW e \in Tasks, Appends(e)
    PROVE  Core'
<1> USE DEF IsLost, IsConnected
<1>1. /\ queue \in Seq(Tasks) /\ queue' = Append(queue, e)
      /\ UNCHANGED <<connection, connections, hooked, alive, model, control, delegates,
                     stage>>
  BY DEF Appends, LinkTypeOK, wire, link
<1>2. e.kind \in {"event", "setMode", "request"}
  BY DEF Appends
<1>3. Lost' <=> Lost
  BY <1>1, <1>2, AppendIs DEF Lost
<1>4. ModelAndControl'
  BY <1>1, <1>3 DEF Core, ModelAndControl
<1>5. QueueOrdered'
  BY <1>1, <1>2, AppendIs DEF Core, QueueOrdered
<1>6. ASSUME e.kind = "event", e.sound
      PROVE  e.control = control /\ ~Constructing /\ ~Lost
  <2>1. connection = e.control /\ e.control <= model /\ ~Constructing
    BY <1>6 DEF Appends
  <2>2. e.control \in Connections
    BY <1>6, TaskFields
  <2>3. connection = model /\ connection # 0
    BY <2>1, <2>2 DEF LinkTypeOK, Core, ModelAndControl, Connections
  <2>4. hooked
    BY <2>3 DEF Core, ModelAndControl
  <2> QED
    BY <2>1, <2>3, <2>4 DEF Core, ModelAndControl, QueueOrdered, Lost
<1>7. SoundEvents'
  <2>1. Constructing' = Constructing
    BY <1>1 DEF Constructing
  <2> QED
    BY <1>1, <1>6, <2>1, AppendIs DEF Core, SoundEvents, Lost
<1> QED
  BY <1>4, <1>5, <1>7 DEF Core

LEMMA TakesKeeps ==
    ASSUME LinkTypeOK, Core, Takes
    PROVE  Core'
<1> USE DEF IsLost, IsConnected
<1>1. /\ queue \in Seq(Tasks) /\ queue # <<>> /\ queue' = Tail(queue)
      /\ UNCHANGED <<connection, connections, hooked, alive, model, control, delegates>>
      /\ ~Constructing /\ ~Constructing'
  BY DEF Takes, LinkTypeOK, wire, link, Constructing
<1>2. queue[1].kind \in {"event", "setMode", "request"}
  BY <1>1, TailIs DEF Takes
<1>3. Lost' <=> Lost
  BY <1>1, <1>2, TailIs DEF Lost
<1>4. ModelAndControl'
  BY <1>1, <1>3 DEF Core, ModelAndControl
<1>5. QueueOrdered'
  BY <1>1, TailIs DEF Core, QueueOrdered
<1>6. SoundEvents'
  BY <1>1, TailIs DEF Core, SoundEvents
<1> QED
  BY <1>4, <1>5, <1>6 DEF Core

LEMMA GoesKeeps ==
    ASSUME LinkTypeOK, Core, Goes
    PROVE  Core'
<1>1. /\ UNCHANGED <<connection, connections, hooked, queue, alive, model, delegates>>
      /\ control' = control \/ (control' = 0 /\ connection # model /\ Constructing)
      /\ Constructing' => Constructing
  BY DEF Goes, wire
<1>2. ModelAndControl' /\ QueueOrdered'
  BY <1>1 DEF Core, ModelAndControl, QueueOrdered, Lost
<1>3. SoundEvents'
  BY <1>1 DEF Core, SoundEvents
<1> QED
  BY <1>2, <1>3 DEF Core

LEMMA ConnectsKeeps ==
    ASSUME LinkTypeOK, Core, Connects
    PROVE  Core'
<1> USE DEF IsLost, IsConnected
<1> DEFINE e == [kind |-> "connected", connection |-> connections + 1]
<1>1. /\ connection = 0 /\ connections \in Nat
      /\ connections + 1 \in Connections
      /\ connections' = connections + 1 /\ connection' = connections + 1
      /\ queue \in Seq(Tasks) /\ queue' = Append(queue, e)
      /\ UNCHANGED <<hooked, alive, model, control, delegates, stage>>
  BY LinkAssumption DEF Connects, LinkTypeOK, link, Connections
<1>2. e \in Tasks /\ e.kind = "connected" /\ e.connection = connections + 1
  BY <1>1, TasksAre
<1> HIDE DEF e
<1>3. ~hooked
  BY <1>1 DEF LinkTypeOK
<1>4. Lost' <=> Lost
  BY <1>1, <1>2, AppendIs DEF Lost
<1>5. model \in Nat /\ model <= connections
  BY DEF Core, ModelAndControl, LinkTypeOK
<1>6. ModelAndControl'
  BY <1>1, <1>3, <1>4, <1>5 DEF Core, ModelAndControl
<1>7. QueueOrdered'
  BY <1>1, <1>2, <1>3, <1>5, AppendIs DEF Core, QueueOrdered
<1>8. SoundEvents'
  <2>1. Constructing' = Constructing
    BY <1>1 DEF Constructing
  <2> QED
    BY <1>1, <1>2, <2>1, AppendIs DEF Core, SoundEvents
<1> QED
  BY <1>6, <1>7, <1>8 DEF Core

LEMMA DisconnectsKeeps ==
    ASSUME LinkTypeOK, Core, Disconnects
    PROVE  Core'
<1> USE DEF IsLost, IsConnected
<1> DEFINE e == [kind |-> "lost"]
<1>1. /\ connection # 0 /\ connection' = 0 /\ hooked' = FALSE
      /\ queue \in Seq(Tasks)
      /\ UNCHANGED <<connections, alive, model, control, delegates, stage>>
  BY DEF Disconnects, LinkTypeOK, link
<1>2. Constructing' = Constructing
  BY <1>1 DEF Constructing
<1>3. CASE ~hooked
  <2>1. queue' = queue
    BY <1>3 DEF Disconnects
  <2> QED
    BY <1>1, <1>2, <1>3, <2>1
       DEF Core, ModelAndControl, QueueOrdered, SoundEvents, Lost
<1>4. CASE hooked
  <2>1. queue' = Append(queue, e)
    BY <1>4 DEF Disconnects
  <2>2. e \in Tasks /\ e.kind = "lost"
    BY TasksAre
  <2> HIDE DEF e
  <2>3. Lost'
    BY <1>1, <2>1, <2>2, AppendIs DEF Lost
  <2>4. ModelAndControl'
    BY <1>1, <1>4, <2>3 DEF Core, ModelAndControl
  <2>5. \A k \in 1 .. Len(queue) : ~IsLost(queue[k]) /\ ~IsConnected(queue[k])
    BY <1>4 DEF Core, ModelAndControl, QueueOrdered, LinkTypeOK
  <2>6. QueueOrdered'
    BY <1>1, <2>1, <2>2, <2>5, AppendIs DEF QueueOrdered
  <2>7. SoundEvents'
    BY <1>1, <1>2, <2>1, <2>2, AppendIs DEF Core, SoundEvents
  <2> QED
    BY <2>4, <2>6, <2>7 DEF Core
<1> QED
  BY <1>3, <1>4

\* When the turn of a connection comes the model before it is dead already.
LEMMA DeadWhenConnecting ==
    ASSUME LinkTypeOK, Core, Runs("connected")
    PROVE  /\ ~alive /\ ~hooked /\ ~Lost /\ control = 0
           /\ Head(queue).connection \in model + 1 .. connections
<1> USE DEF IsLost, IsConnected
<1>1. queue \in Seq(Tasks) /\ queue # <<>> /\ Head(queue).kind = "connected"
  BY DEF Runs, LinkTypeOK
<1>2. 1 \in 1 .. Len(queue) /\ Head(queue) = queue[1] /\ Len(queue) \in Nat
  BY <1>1
<1>3. Head(queue).connection \in model + 1 .. connections
  BY <1>1, <1>2 DEF Core, QueueOrdered
<1>4. ~hooked
  BY <1>3 DEF Core, ModelAndControl, LinkTypeOK
<1>5. ~Lost
  BY <1>1, <1>2 DEF Core, QueueOrdered, Lost
<1> QED
  BY <1>3, <1>4, <1>5 DEF Core, ModelAndControl

LEMMA MakeModelKeeps ==
    ASSUME LinkTypeOK, Core, MakeModel
    PROVE  Core'
<1> USE DEF IsLost, IsConnected
<1>1. /\ queue \in Seq(Tasks) /\ queue # <<>> /\ queue' = Tail(queue)
      /\ Runs("connected")
      /\ model' = Head(queue).connection
      /\ UNCHANGED <<connection, connections>>
  BY DEF MakeModel, Runs, EndsTask, LinkTypeOK
<1>2. /\ ~alive /\ ~hooked /\ ~Lost /\ control = 0
      /\ model' \in model + 1 .. connections
  BY <1>1, DeadWhenConnecting
<1>3. IF connection = model'
      THEN hooked' = TRUE /\ alive' = TRUE /\ control' = model'
      ELSE UNCHANGED <<hooked, alive, control>>
  BY DEF MakeModel
<1>4. ~Lost'
  BY <1>1, <1>2, TailIs DEF Lost
<1>5. model \in Nat /\ connections \in Nat /\ connection \in {0, connections}
  BY DEF LinkTypeOK
<1>6. ModelAndControl'
  <2>1. CASE connection = model'
    BY <1>1, <1>2, <1>3, <1>4, <1>5, <2>1 DEF ModelAndControl
  <2>2. CASE connection # model'
    BY <1>1, <1>2, <1>3, <1>4, <1>5, <2>2 DEF ModelAndControl
  <2> QED
    BY <2>1, <2>2
<1>7. \A k \in 1 .. Len(queue') : ~IsLost(queue'[k])
  BY <1>4 DEF Lost
<1>8. QueueOrdered'
  <2>1. 1 \in 1 .. Len(queue) /\ queue[1].kind = "connected" /\ model' = queue[1].connection
    BY <1>1, TailIs DEF Runs
  <2>2. \A k \in 1 .. Len(queue') :
          IsConnected(queue'[k]) => queue'[k].connection \in model' + 1 .. connections
    BY <1>1, <1>5, <2>1, TailIs DEF Core, QueueOrdered
  <2>3. \A j, k \in 1 .. Len(queue') :
          j < k /\ IsConnected(queue'[j]) /\ IsConnected(queue'[k])
            => queue'[j].connection < queue'[k].connection
    BY <1>1, TailIs DEF Core, QueueOrdered
  <2> QED
    BY <1>1, <1>7, <2>2, <2>3 DEF QueueOrdered
<1>9. SoundEvents'
  <2>1. \A k \in 1 .. Len(queue) :
          queue[k] \in Tasks /\ (queue[k].kind = "event" => queue[k].control # 0)
    BY <1>1, TaskFields DEF Connections
  <2>2. \A k \in 1 .. Len(queue) : ~(queue[k].kind = "event" /\ queue[k].sound)
    BY <1>2, <2>1 DEF Core, SoundEvents
  <2> QED
    BY <1>1, <2>2, TailIs DEF SoundEvents
<1> QED
  BY <1>6, <1>8, <1>9 DEF Core

LEMMA LoseModelKeeps ==
    ASSUME LinkTypeOK, Core, LoseModel
    PROVE  Core'
<1> USE DEF IsLost, IsConnected
<1>1. /\ queue \in Seq(Tasks) /\ queue # <<>> /\ queue' = Tail(queue)
      /\ Head(queue).kind = "lost"
      /\ alive' = FALSE /\ control' = 0
      /\ UNCHANGED <<connection, connections, hooked, model>>
  BY DEF LoseModel, Runs, EndsTask, LinkTypeOK, wire
<1>2. 1 \in 1 .. Len(queue) /\ queue[1].kind = "lost" /\ Len(queue) \in Nat
  BY <1>1, TailIs
<1>3. ~hooked
  BY <1>2 DEF Core, QueueOrdered
<1>4. \A k \in 1 .. Len(queue') : ~IsLost(queue'[k])
  BY <1>1, <1>2, TailIs DEF Core, QueueOrdered
<1>5. ~Lost'
  BY <1>4 DEF Lost
<1>6. ModelAndControl'
  BY <1>1, <1>3, <1>5 DEF Core, ModelAndControl
<1>7. QueueOrdered'
  BY <1>1, TailIs DEF Core, QueueOrdered
<1>8. \A k \in 1 .. Len(queue) : ~(queue[k].kind = "event" /\ queue[k].sound)
  BY <1>2 DEF Core, SoundEvents
<1>9. SoundEvents'
  BY <1>1, <1>8, TailIs DEF SoundEvents
<1> QED
  BY <1>6, <1>7, <1>9 DEF Core

LEMMA GameBehindStep ==
    ASSUME LinkTypeOK, Core, GameBehind, [Next]_vars
    PROVE  GameBehind'
<1> USE DEF wire, scheduler, link, game, rider, history
<1>1. model \in Nat /\ edited.control \in Nat /\ delegates \in Nat /\ control \in Nat
  BY DEF LinkTypeOK
<1> DEFINE T == [control : Connections, id : Ids]
<1>2. gameTasks \in Seq(T) /\ \A k \in 1 .. Len(gameTasks) : gameTasks[k].control \in Nat
  <2>1. gameTasks \in Seq(T)
    BY DEF LinkTypeOK
  <2>2. \A g \in T : g.control \in Nat
    BY DEF Connections
  <2> HIDE DEF T
  <2>3. \A k \in 1 .. Len(gameTasks) : gameTasks[k] \in T
    BY <2>1
  <2> QED
    BY <2>1, <2>2, <2>3
<1>3. ASSUME MakeModel PROVE GameBehind'
  <2>1. model' \in model + 1 .. connections
    BY <1>3, DeadWhenConnecting DEF MakeModel
  <2>2. delegates' \in {delegates, model'} /\ UNCHANGED <<edited, gameTasks>>
    BY <1>3 DEF MakeModel
  <2>3. model' \in Nat /\ model < model'
    BY <1>1, <2>1 DEF LinkTypeOK
  <2> QED
    BY <1>1, <1>2, <2>2, <2>3 DEF GameBehind
<1>4. ASSUME LoseModel PROVE GameBehind'
  BY <1>1, <1>4 DEF LoseModel, GameBehind
<1>5. ASSUME EditSettings PROVE GameBehind'
  <2>1. edited'.control = delegates /\ UNCHANGED <<delegates, gameTasks, model>>
    BY <1>5 DEF EditSettings
  <2> QED
    BY <2>1 DEF GameBehind
<1>6. ASSUME RequestPlay PROVE GameBehind'
  <2>1. UNCHANGED <<delegates, edited, model>>
    BY <1>6 DEF RequestPlay
  <2>2. control <= model
    BY <1>1 DEF Core, ModelAndControl
  <2>3. CASE gameTasks' = gameTasks
    BY <2>1, <2>3 DEF GameBehind
  <2>4. CASE gameTasks' = Append(gameTasks, [control |-> control, id |-> Head(queue).id])
    <3> DEFINE g == [control |-> control, id |-> Head(queue).id]
    <3>1. control \in Connections /\ Head(queue).id \in Ids
      <4>1. Head(queue) \in Tasks /\ Head(queue).kind = "request" /\ control # 0
        BY <1>6 DEF RequestPlay, Runs, Handled, LinkTypeOK
      <4> QED
        BY <4>1, TaskFields, LinkAssumption DEF LinkTypeOK, Connections
    <3>2. g \in T /\ g.control = control
      BY <3>1
    <3> HIDE DEF g, T
    <3>3. \A k \in 1 .. Len(gameTasks') :
            (k \in 1 .. Len(gameTasks) /\ gameTasks'[k] = gameTasks[k]) \/ gameTasks'[k] = g
      BY <1>2, <2>4, <3>2 DEF g
    <3> QED
      BY <2>1, <2>2, <3>2, <3>3 DEF GameBehind
  <2> QED
    BY <1>6, <2>3, <2>4 DEF RequestPlay
<1>7. ASSUME ExecuteCommand PROVE GameBehind'
  <2>1. gameTasks # <<>> /\ gameTasks' = Tail(gameTasks)
        /\ UNCHANGED <<delegates, edited, model>>
    BY <1>7 DEF ExecuteCommand
  <2> HIDE DEF T
  <2>2. \A k \in 1 .. Len(gameTasks') :
          k + 1 \in 1 .. Len(gameTasks) /\ gameTasks'[k] = gameTasks[k + 1]
    BY <1>2, <2>1
  <2> QED
    BY <2>1, <2>2 DEF GameBehind
<1>8. ASSUME \/ Connects \/ Disconnects \/ ReadSettings \/ InitialSync \/ RunEvent
             \/ DropMessage \/ SetMode \/ AnnounceMode \/ PlayEvent \/ CompareMode
             \/ QueueMode \/ SendMode \/ SendRequest \/ Receive \/ UNCHANGED vars
      PROVE  GameBehind'
  <2>1. UNCHANGED <<delegates, edited, gameTasks, model>>
    BY <1>8 DEF Connects, Disconnects, ReadSettings, InitialSync, RunEvent,
       DropMessage, SetMode, AnnounceMode, PlayEvent, CompareMode, QueueMode,
       SendMode, SendRequest, Receive, vars
  <2> QED
    BY <2>1 DEF GameBehind
<1> QED
  BY <1>3, <1>4, <1>5, <1>6, <1>7, <1>8 DEF Next, Scheduler, Game, Rider

-----------------------------------------------------------------------------
(* Theorems *)

\* The inductive invariant: types, the order of the tasks, and what the order is
\* for.
THEOREM LinkInvariant == Spec => []LinkInv
<1>1. Init => LinkInv
  <2> SUFFICES ASSUME Init PROVE LinkInv
    OBVIOUS
  <2>1. LinkTypeOK
    BY LinkInitTypes
  <2>2. queue = <<>> /\ gameTasks = <<>> /\ ~hooked /\ ~alive
        /\ connection = 0 /\ connections = 0 /\ model = 0 /\ control = 0
        /\ delegates = 0 /\ edited.control = 0
    BY DEF Init
  <2>3. Len(queue) = 0 /\ Len(gameTasks) = 0
    BY <2>2
  <2>4. ~Lost
    BY <2>3 DEF Lost
  <2>5. ModelAndControl
    BY <2>2, <2>4 DEF ModelAndControl
  <2>6. QueueOrdered /\ SoundEvents
    BY <2>3 DEF QueueOrdered, SoundEvents
  <2>7. GameBehind
    BY <2>2, <2>3 DEF GameBehind
  <2> QED
    BY <2>1, <2>5, <2>6, <2>7 DEF LinkInv
<1>2. LinkInv /\ [Next]_vars => LinkInv'
  <2> SUFFICES ASSUME LinkInv, [Next]_vars PROVE LinkInv'
    OBVIOUS
  <2>1. LinkTypeOK /\ Core /\ GameBehind
    BY DEF LinkInv, Core
  <2>2. LinkTypeOK'
    BY <2>1, LinkTypeStep
  <2>3. GameBehind'
    BY <2>1, GameBehindStep
  <2>4. Core'
    BY <2>1, LinkStep, AppendsKeeps, TakesKeeps, GoesKeeps, ConnectsKeeps,
       DisconnectsKeeps, MakeModelKeeps, LoseModelKeeps
  <2> QED
    BY <2>2, <2>3, <2>4 DEF LinkInv, Core
<1> QED
  BY <1>1, <1>2, PTL DEF Spec

\* Type correctness of the link, its queue and both of its threads.
THEOREM LinkTyped == Spec => []LinkTypeOK
<1>1. LinkInv => LinkTypeOK
  BY DEF LinkInv
<1> QED
  BY <1>1, LinkInvariant, PTL

\* The model is alive just while its connection goes on or its end is queued.
THEOREM LinkAliveWhileConnected == Spec => []AliveWhileConnected
<1>1. LinkInv => AliveWhileConnected
  BY DEF LinkInv, LinkTypeOK, ModelAndControl, AliveWhileConnected
<1> QED
  BY <1>1, LinkInvariant, PTL

\* A control never has a reference to a freed model.
THEOREM LinkControlHasModel == Spec => []ControlHasModel
<1>1. LinkInv => ControlHasModel
  BY DEF LinkInv, ModelAndControl, ControlHasModel
<1> QED
  BY <1>1, LinkInvariant, PTL

\* The model is replaced only while it is dead, as RiderLink.cpp:101-102 says.
THEOREM LinkNewModelWhileDead == Spec => NewModelWhileDead
<1>1. LinkInv /\ [Next]_vars => [model' # model => ~alive]_vars
  <2> SUFFICES ASSUME LinkInv, [Next]_vars, model' # model PROVE ~alive
    OBVIOUS
  <2>1. LinkTypeOK /\ Core /\ GameBehind
    BY DEF LinkInv, Core
  <2>2. MakeModel
    BY <2>1, LinkStep DEF Connects, Disconnects, LoseModel, Appends, Takes, Goes, link
  <2> QED
    BY <2>1, <2>2, DeadWhenConnecting DEF MakeModel
<1> QED
  BY <1>1, LinkInvariant, PTL DEF Spec, NewModelWhileDead

\* No event that was queued while its control was complete and its connection
\* went on is ever run on a deleted control.
THEOREM LinkOnlyUnsoundDangles == Spec => OnlyUnsoundDangles
<1> DEFINE Step == stale' => \/ Runs("event") /\ ~Head(queue).sound
                             \/ editing = "comparing"
<1>1. LinkInv /\ [Next]_vars => [Step]_vars
  <2> SUFFICES ASSUME LinkInv, Next, stale' PROVE Step
    OBVIOUS
  <2>1. ~stale
    BY DEF Next
  <2>2. CASE RunEvent
    <3>1. Runs("event") /\ control # Head(queue).control
      BY <2>1, <2>2 DEF RunEvent
    <3>2. queue \in Seq(Tasks) /\ queue # <<>> /\ Head(queue).kind = "event"
      BY <3>1 DEF Runs, LinkInv, LinkTypeOK
    <3>3. 1 \in 1 .. Len(queue) /\ Head(queue) = queue[1]
      BY <3>2
    <3>4. ~Head(queue).sound
      BY <3>1, <3>2, <3>3 DEF LinkInv, SoundEvents
    <3> QED
      BY <3>1, <3>4
  <2>3. CASE CompareMode
    BY <2>3 DEF CompareMode
  <2>4. CASE ~RunEvent /\ ~CompareMode
    <3>1. stale' = stale
      BY <2>4 DEF Next, Scheduler, Game, Rider, Connects, Disconnects, MakeModel,
         ReadSettings, InitialSync, LoseModel, DropMessage, SetMode, AnnounceMode,
         RequestPlay, PlayEvent, EditSettings, QueueMode, ExecuteCommand, SendMode,
         SendRequest, Receive, history
    <3> QED
      BY <2>1, <3>1
  <2> QED
    BY <2>2, <2>3, <2>4
<1> QED
  BY <1>1, LinkInvariant, PTL DEF Spec, OnlyUnsoundDangles
-----------------------------------------------------------------------------
(* The conversation with the IDE *)

\* The task that makes the model of this connection is queued, before all that
\* the IDE has sent on it.
Announced ==
    \E j \in 1 .. Len(queue) :
        /\ IsConnected(queue[j]) /\ queue[j].connection = connection
        /\ \A k \in 1 .. Len(queue) :
             IsMessage(queue[k]) /\ queue[k].connection = connection => j < k

\* What is queued is of connections and controls there have been.
Posted ==
    /\ \A k \in 1 .. Len(queue) :
         /\ IsMessage(queue[k]) => queue[k].connection <= connections
         /\ queue[k].kind = "event" => queue[k].control <= model
    /\ connection # 0 /\ model # connection => Announced

\* Without a connection nothing is said; with a control its delegates report.
Spoken ==
    /\ toRider \in Seq(Told)
    /\ control # 0 => delegates = control
    /\ stage # "idle" => model # 0
    /\ connection = 0 => toRider = <<>> /\ open = {} /\ shownPlay = "Unknown"

Talk == Posted /\ Spoken

LEMMA PostedStep ==
    ASSUME LinkInv, Posted, [Next]_vars
    PROVE  Posted'
<1> USE DEF IsConnected, IsMessage
<1>1. /\ queue \in Seq(Tasks) /\ connections \in Nat /\ model \in Nat
      /\ connection \in {0, connections} /\ model <= connections
      /\ LinkTypeOK /\ Core /\ GameBehind
  BY LinkAssumption DEF LinkInv, LinkTypeOK, ModelAndControl, Core
<1>2. CASE Connects
  <2> DEFINE e == [kind |-> "connected", connection |-> connections + 1]
  <2>1. /\ connections' = connections + 1 /\ connection' = connections + 1
        /\ queue' = Append(queue, e) /\ model' = model
        /\ e \in Tasks /\ e.kind = "connected" /\ e.connection = connections + 1
    <3>1. connections + 1 \in Connections
      BY <1>1, <1>2, LinkAssumption DEF Connects, Connections
    <3> QED
      BY <1>2, <3>1, TasksAre DEF Connects, link
  <2> HIDE DEF e
  <2>2. \A k \in 1 .. Len(queue') :
          \/ k \in 1 .. Len(queue) /\ queue'[k] = queue[k]
          \/ k = Len(queue) + 1 /\ queue'[k] = e
    BY <1>1, <2>1, AppendIs
  <2>3. \A k \in 1 .. Len(queue') :
          /\ IsMessage(queue'[k]) =>
               k \in 1 .. Len(queue) /\ queue'[k].connection <= connections
          /\ queue'[k].kind = "event" => queue'[k].control <= model
    BY <2>1, <2>2 DEF Posted
  <2>4. \A k \in 1 .. Len(queue') :
          IsMessage(queue'[k]) => queue'[k].connection \in Nat
    <3>1. \A k \in 1 .. Len(queue) :
            IsMessage(queue[k]) => queue[k].connection \in Nat
      BY <1>1, TaskFields DEF Connections
    <3> QED
      BY <2>1, <2>2, <3>1
  <2>5. /\ Len(queue) + 1 \in 1 .. Len(queue') /\ queue'[Len(queue) + 1] = e
    BY <1>1, <2>1, AppendIs
  <2>6. Announced'
    BY <1>1, <2>1, <2>3, <2>4, <2>5 DEF Announced
  <2> QED
    BY <1>1, <2>1, <2>3, <2>4, <2>6 DEF Posted
<1>3. CASE Disconnects
  <2> DEFINE e == [kind |-> "lost"]
  <2>1. /\ connection' = 0 /\ connections' = connections /\ model' = model
        /\ queue' = queue \/ queue' = Append(queue, e)
        /\ e \in Tasks /\ e.kind = "lost"
    BY <1>3, TasksAre DEF Disconnects, link
  <2> HIDE DEF e
  <2>2. \A k \in 1 .. Len(queue') :
          \/ k \in 1 .. Len(queue) /\ queue'[k] = queue[k]
          \/ queue'[k] = e
    BY <1>1, <2>1, AppendIs
  <2> QED
    BY <2>1, <2>2 DEF Posted
<1>4. CASE MakeModel
  <2>1. /\ queue # <<>> /\ queue' = Tail(queue) /\ Runs("connected")
        /\ model' = Head(queue).connection
        /\ UNCHANGED <<connection, connections>>
    BY <1>4 DEF MakeModel, Runs, EndsTask
  <2>2. model' \in model + 1 .. connections
    BY <1>1, <2>1, DeadWhenConnecting
  <2>3. \A k \in 1 .. Len(queue) : queue[k].kind = "event" => queue[k].control \in Nat
    BY <1>1, TaskFields DEF Connections
  <2>4. \A k \in 1 .. Len(queue') :
          /\ IsMessage(queue'[k]) => queue'[k].connection <= connections
          /\ queue'[k].kind = "event" => queue'[k].control <= model'
    BY <1>1, <2>1, <2>2, <2>3, TailIs DEF Posted
  <2>5. ASSUME connection # 0, model' # connection PROVE Announced'
    <3>1. model # connection
      BY <1>1, <2>2, <2>5
    <3>2. PICK j \in 1 .. Len(queue) :
            /\ IsConnected(queue[j]) /\ queue[j].connection = connection
            /\ \A k \in 1 .. Len(queue) :
                 IsMessage(queue[k]) /\ queue[k].connection = connection => j < k
      BY <2>5, <3>1 DEF Posted, Announced
    <3>3. j # 1
      BY <1>1, <2>1, <2>5, <3>2, TailIs
    <3>4. j - 1 \in 1 .. Len(queue') /\ queue'[j - 1] = queue[j]
      BY <1>1, <2>1, <3>3, TailIs
    <3>5. \A k \in 1 .. Len(queue') :
            IsMessage(queue'[k]) /\ queue'[k].connection = connection => j - 1 < k
      BY <1>1, <2>1, <3>2, TailIs
    <3> QED
      BY <2>1, <3>2, <3>4, <3>5 DEF Announced
  <2> QED
    BY <2>1, <2>4, <2>5 DEF Posted
<1>5. CASE LoseModel \/ Takes
  <2>1. /\ queue # <<>> /\ queue' = Tail(queue) /\ ~IsConnected(Head(queue))
        /\ UNCHANGED <<connection, connections, model>>
    BY <1>5 DEF LoseModel, Takes, Runs, EndsTask, wire, link
  <2>2. \A k \in 1 .. Len(queue') :
          /\ IsMessage(queue'[k]) => queue'[k].connection <= connections
          /\ queue'[k].kind = "event" => queue'[k].control <= model
    BY <1>1, <2>1, TailIs DEF Posted
  <2>3. ASSUME Announced PROVE Announced'
    <3>1. PICK j \in 1 .. Len(queue) :
            /\ IsConnected(queue[j]) /\ queue[j].connection = connection
            /\ \A k \in 1 .. Len(queue) :
                 IsMessage(queue[k]) /\ queue[k].connection = connection => j < k
      BY <2>3 DEF Announced
    <3>2. j - 1 \in 1 .. Len(queue') /\ queue'[j - 1] = queue[j]
      BY <1>1, <2>1, <3>1, TailIs
    <3>3. \A k \in 1 .. Len(queue') :
            IsMessage(queue'[k]) /\ queue'[k].connection = connection => j - 1 < k
      BY <1>1, <2>1, <3>1, TailIs
    <3> QED
      BY <2>1, <3>1, <3>2, <3>3 DEF Announced
  <2> QED
    BY <2>1, <2>2, <2>3 DEF Posted
<1>6. ASSUME NEW e \in Tasks, Appends(e) PROVE Posted'
  <2>1. /\ queue' = Append(queue, e) /\ UNCHANGED <<connection, connections, model>>
        /\ e.kind = "event" => e.control <= model
        /\ IsMessage(e) => e.connection = connection
    BY <1>6 DEF Appends, wire, link
  <2>2. \A k \in 1 .. Len(queue') :
          /\ IsMessage(queue'[k]) => queue'[k].connection <= connections
          /\ queue'[k].kind = "event" => queue'[k].control <= model
    BY <1>1, <2>1, AppendIs DEF Posted
  <2>3. ASSUME Announced PROVE Announced'
    BY <1>1, <2>1, <2>3, AppendIs DEF Announced
  <2> QED
    BY <2>1, <2>2, <2>3 DEF Posted
<1>7. CASE Goes
  BY <1>7 DEF Goes, Posted, Announced, wire
<1> QED
  BY <1>1, <1>2, <1>3, <1>4, <1>5, <1>6, <1>7, LinkStep

\* What a handler says goes out on the connection of its model.
LEMMA FireIs ==
    ASSUME NEW x \in Told, Fire(x), toRider \in Seq(Told)
    PROVE  /\ toRider' \in Seq(Told)
           /\ connection = model => toRider' = Append(toRider, x)
           /\ connection # model => toRider' = toRider
BY DEF Fire

\* The steps that say something to the IDE.
Speaks == InitialSync \/ RunEvent \/ AnnounceMode \/ RequestPlay

Says(x) ==
    /\ x \in Told /\ toRider' = Append(toRider, x)
    /\ connection = model /\ model # 0

LEMMA HeadIs ==
    ASSUME LinkInv, queue # <<>>
    PROVE  /\ Head(queue) \in Tasks /\ Head(queue) = queue[1]
           /\ 1 \in 1 .. Len(queue)
BY DEF LinkInv, LinkTypeOK

LEMMA EventFields ==
    ASSUME NEW t \in Tasks, t.kind = "event"
    PROVE  t.control \in Connections /\ t.what \in Told
BY DEF Tasks

LEMMA SpeaksIs ==
    ASSUME LinkInv, Spoken, Speaks
    PROVE  toRider' = toRider \/ \E x \in Told : Says(x)
<1>0. /\ toRider \in Seq(Told) /\ (control # 0 => control = model)
      /\ (stage # "idle" => model # 0)
      /\ Mode(retrieved) \in Told
  BY ToldAre DEF Spoken, LinkInv, LinkTypeOK, ModelAndControl
<1>1. CASE InitialSync
  BY <1>0, <1>1, FireIs DEF InitialSync, Says
<1>2. CASE AnnounceMode
  <2>1. toRider' = toRider \/ Fire(Mode(retrieved))
    BY <1>2 DEF AnnounceMode
  <2> QED
    BY <1>0, <1>2, <2>1, FireIs DEF AnnounceMode, Says
<1>3. CASE RunEvent
  <2> DEFINE x == Head(queue).what
  <2>1. Head(queue) \in Tasks /\ Head(queue).kind = "event"
    BY <1>3, HeadIs DEF RunEvent, Runs
  <2>2. x \in Told /\ Head(queue).control # 0
    BY <2>1, EventFields DEF Connections
  <2>3. toRider' = toRider \/ (control = Head(queue).control /\ Fire(x))
    BY <1>3 DEF RunEvent
  <2> HIDE DEF x
  <2> QED
    BY <1>0, <2>2, <2>3, FireIs DEF Says
<1>4. CASE RequestPlay
  <2> DEFINE x == Reply(Head(queue).id)
  <2>1. Head(queue) \in Tasks /\ Head(queue).kind = "request" /\ control # 0
    BY <1>4, HeadIs DEF RequestPlay, Runs, Handled
  <2>2. x \in Told
    BY <2>1, TaskFields, ToldAre
  <2>3. toRider' = toRider \/ Fire(x)
    BY <1>4 DEF RequestPlay
  <2> HIDE DEF x
  <2> QED
    BY <1>0, <2>1, <2>2, <2>3, FireIs DEF Says
<1> QED
  BY <1>1, <1>2, <1>3, <1>4 DEF Speaks

\* The steps that leave the IDE's side alone, what is under way to it included.
Apart ==
    \/ Connects \/ MakeModel \/ ReadSettings \/ LoseModel \/ DropMessage
    \/ SetMode \/ PlayEvent \/ EditSettings \/ CompareMode \/ QueueMode
    \/ ExecuteCommand \/ UNCHANGED vars

LEMMA ApartIs ==
    ASSUME Apart
    PROVE  UNCHANGED <<toRider, shownMode, shownPlay, open>>
BY DEF Apart, Connects, MakeModel, ReadSettings, LoseModel, DropMessage, SetMode,
   PlayEvent, EditSettings, CompareMode, QueueMode, ExecuteCommand, vars, rider

LEMMA TalkStepIs ==
    ASSUME [Next]_vars
    PROVE  Apart \/ Speaks \/ Disconnects \/ SendMode \/ SendRequest \/ Receive
BY DEF Next, Scheduler, Game, Rider, Apart, Speaks

LEMMA SpokenStep ==
    ASSUME LinkInv, Spoken, [Next]_vars
    PROVE  Spoken'
<1> USE DEF wire, scheduler, link, game, rider, history
<1>0. LinkTypeOK /\ ModelAndControl /\ LinkTypeOK' /\ Core /\ GameBehind
  BY LinkTypeStep DEF LinkInv, Core
<1>1. toRider' \in Seq(Told)
  <2>1. CASE Apart \/ SendMode \/ SendRequest
    BY <2>1, ApartIs DEF Spoken, SendMode, SendRequest
  <2>2. CASE Speaks
    BY <2>2, SpeaksIs DEF Spoken, Says
  <2>3. CASE Disconnects
    BY <2>3 DEF Disconnects
  <2>4. CASE Receive
    <3>1. toRider \in Seq(Told) /\ toRider # <<>> /\ toRider' = Tail(toRider)
      BY <2>4 DEF Receive, Spoken
    <3> HIDE DEF Told
    <3> QED
      BY <3>1
  <2> QED
    BY <2>1, <2>2, <2>3, <2>4, TalkStepIs
<1>2. control' # 0 => delegates' = control'
  <2>1. CASE MakeModel \/ InitialSync \/ LoseModel
    BY <2>1 DEF MakeModel, InitialSync, LoseModel, Spoken
  <2>2. CASE ~MakeModel /\ ~InitialSync /\ ~LoseModel
    <3>1. UNCHANGED <<control, delegates>>
      BY <2>2 DEF Next, Scheduler, Game, Rider, Connects, Disconnects,
         ReadSettings, RunEvent, DropMessage, SetMode, AnnounceMode, RequestPlay,
         PlayEvent, EditSettings, CompareMode, QueueMode, ExecuteCommand, SendMode,
         SendRequest, Receive, vars
    <3> QED
      BY <3>1 DEF Spoken
  <2> QED
    BY <2>1, <2>2
<1>3. stage' # "idle" => model' # 0
  <2>1. CASE MakeModel
    <3>1. model' \in model + 1 .. connections /\ model \in Nat
      BY <1>0, <2>1, DeadWhenConnecting DEF MakeModel, LinkTypeOK
    <3> QED
      BY <3>1
  <2>2. CASE SetMode
    BY <1>0, <2>2 DEF SetMode, Handled, ModelAndControl
  <2>3. CASE InitialSync \/ AnnounceMode
    BY <2>3 DEF InitialSync, AnnounceMode
  <2>4. CASE ReadSettings
    BY <2>4 DEF ReadSettings, Spoken
  <2>5. CASE ~MakeModel /\ ~SetMode /\ ~InitialSync /\ ~AnnounceMode /\ ~ReadSettings
    <3>1. UNCHANGED <<stage, model>>
      BY <2>5 DEF Next, Scheduler, Game, Rider, Connects, Disconnects, LoseModel,
         RunEvent, DropMessage, RequestPlay, PlayEvent, EditSettings, CompareMode,
         QueueMode, ExecuteCommand, SendMode, SendRequest, Receive, vars
    <3> QED
      BY <3>1 DEF Spoken
  <2> QED
    BY <2>1, <2>2, <2>3, <2>4, <2>5
<1>4. connection' = 0 => toRider' = <<>> /\ open' = {} /\ shownPlay' = "Unknown"
  <2> SUFFICES ASSUME connection' = 0
               PROVE  toRider' = <<>> /\ open' = {} /\ shownPlay' = "Unknown"
    OBVIOUS
  <2>1. CASE Disconnects
    BY <2>1 DEF Disconnects
  <2>2. CASE ~Disconnects
    <3>1. connection = 0
      <4>1. CASE Connects
        BY <1>0, <4>1 DEF Connects, LinkTypeOK
      <4>2. CASE ~Connects
        <5>1. connection' = connection
          BY <2>2, <4>2 DEF Next, Scheduler, Game, Rider, MakeModel, LoseModel,
             ReadSettings, InitialSync, AnnounceMode, SetMode,
             RunEvent, DropMessage, RequestPlay, PlayEvent, EditSettings,
             CompareMode, QueueMode, ExecuteCommand, SendMode, SendRequest,
             Receive, vars
        <5> QED
          BY <5>1
      <4> QED
        BY <4>1, <4>2
    <3>2. toRider = <<>> /\ open = {} /\ shownPlay = "Unknown"
      BY <3>1 DEF Spoken
    <3>3. CASE Apart
      BY <3>2, <3>3, ApartIs
    <3>4. CASE Speaks
      <4>1. ~\E x \in Told : Says(x)
        BY <3>1 DEF Says
      <4>2. UNCHANGED <<open, shownPlay>>
        BY <3>4 DEF Speaks, InitialSync, RunEvent, AnnounceMode, RequestPlay
      <4> QED
        BY <3>2, <3>4, <4>1, <4>2, SpeaksIs
    <3> QED
      BY <2>2, <3>1, <3>2, <3>3, <3>4, TalkStepIs DEF SendMode, SendRequest, Receive
  <2> QED
    BY <2>1, <2>2
<1> QED
  BY <1>1, <1>2, <1>3, <1>4 DEF Spoken

LEMMA LinkTalk == Spec => [](LinkInv /\ Talk)
<1>1. ASSUME Init PROVE Talk
  <2>1. /\ queue = <<>> /\ toRider = <<>> /\ connection = 0 /\ control = 0
        /\ stage = "idle" /\ open = {} /\ shownPlay = "Unknown"
    BY <1>1 DEF Init
  <2>2. Posted
    BY <2>1 DEF Posted
  <2>3. toRider \in Seq(Told)
    BY <2>1
  <2> QED
    BY <2>1, <2>2, <2>3 DEF Talk, Spoken
<1>2. LinkInv /\ Talk /\ [Next]_vars => Talk'
  BY PostedStep, SpokenStep DEF Talk
<1> QED
  BY <1>1, <1>2, LinkInvariant, PTL DEF Spec
-----------------------------------------------------------------------------
(* Requests *)

\* A task that leads to the answer of request r on this connection.
Answers(t, r) ==
    \/ t.kind = "request" /\ t.id = r /\ t.connection = connection
    \/ t.kind = "event" /\ t.what = Reply(r) /\ t.control = connection

\* A request is queued, with the game's thread, or its answer is under way.
InQueue(r) == \E k \in 1 .. Len(queue) : Answers(queue[k], r)
InGame(r) ==
    \E k \in 1 .. Len(gameTasks) :
        gameTasks[k].id = r /\ gameTasks[k].control = connection
InRider(r) == \E k \in 1 .. Len(toRider) : toRider[k] = Reply(r)

Answerable ==
    ~stale => \A r \in open : InQueue(r) \/ InGame(r) \/ InRider(r)

GameTask == [control : Connections, id : Ids]

LEMMA AppendHas ==
    ASSUME NEW S, NEW s \in Seq(S), NEW e \in S
    PROVE  /\ \A k \in 1 .. Len(s) : k \in 1 .. Len(Append(s, e)) /\ Append(s, e)[k] = s[k]
           /\ \E k \in 1 .. Len(Append(s, e)) : Append(s, e)[k] = e
<1>1. /\ Len(s) \in Nat /\ Len(Append(s, e)) = Len(s) + 1
      /\ Append(s, e)[Len(s) + 1] = e
      /\ \A k \in 1 .. Len(s) : Append(s, e)[k] = s[k]
  OBVIOUS
<1> QED
  BY <1>1

LEMMA TailHas ==
    ASSUME NEW S, NEW s \in Seq(S), s # <<>>
    PROVE  /\ Head(s) \in S
           /\ \A k \in 1 .. Len(s) :
                s[k] = Head(s) \/ \E i \in 1 .. Len(Tail(s)) : Tail(s)[i] = s[k]
<1>1. /\ Len(s) \in Nat /\ Len(Tail(s)) = Len(s) - 1 /\ Head(s) = s[1]
      /\ Head(s) \in S
      /\ \A k \in 1 .. Len(s) - 1 : Tail(s)[k] = s[k + 1]
  OBVIOUS
<1>2. ASSUME NEW k \in 1 .. Len(s), k # 1
      PROVE  k - 1 \in 1 .. Len(Tail(s)) /\ Tail(s)[k - 1] = s[k]
  BY <1>1, <1>2
<1> QED
  BY <1>1, <1>2

\* What is queued stays queued until its turn comes.
LEMMA InQueueStays ==
    ASSUME queue \in Seq(Tasks), NEW r, InQueue(r), connection' = connection,
           \/ queue' = queue
           \/ \E e \in Tasks : queue' = Append(queue, e)
           \/ queue # <<>> /\ queue' = Tail(queue) /\ ~Answers(Head(queue), r)
    PROVE  InQueue(r)'
<1>1. PICK k \in 1 .. Len(queue) : Answers(queue[k], r)
  BY DEF InQueue
<1>2. \E i \in 1 .. Len(queue') : queue'[i] = queue[k]
  <2>1. CASE queue' = queue
    BY <2>1
  <2>2. ASSUME NEW e \in Tasks, queue' = Append(queue, e)
        PROVE  \E i \in 1 .. Len(queue') : queue'[i] = queue[k]
    BY <2>2, AppendHas
  <2>3. CASE queue # <<>> /\ queue' = Tail(queue) /\ ~Answers(Head(queue), r)
    <3>1. queue[k] # Head(queue)
      BY <1>1, <2>3
    <3> QED
      BY <2>3, <3>1, TailHas
  <2> QED
    BY <2>1, <2>2, <2>3
<1> QED
  BY <1>1, <1>2 DEF InQueue, Answers

LEMMA InGameStays ==
    ASSUME gameTasks \in Seq(GameTask), NEW r, InGame(r), connection' = connection,
           \/ gameTasks' = gameTasks
           \/ \E g \in GameTask : gameTasks' = Append(gameTasks, g)
    PROVE  InGame(r)'
<1>1. PICK k \in 1 .. Len(gameTasks) :
        gameTasks[k].id = r /\ gameTasks[k].control = connection
  BY DEF InGame
<1>2. \E i \in 1 .. Len(gameTasks') : gameTasks'[i] = gameTasks[k]
  <2> HIDE DEF GameTask
  <2> QED
    BY AppendHas
<1> QED
  BY <1>1, <1>2 DEF InGame

LEMMA InRiderStays ==
    ASSUME toRider \in Seq(Told), NEW r, InRider(r),
           toRider' = toRider \/ \E x \in Told : toRider' = Append(toRider, x)
    PROVE  InRider(r)'
<1>1. PICK k \in 1 .. Len(toRider) : toRider[k] = Reply(r)
  BY DEF InRider
<1>2. \E i \in 1 .. Len(toRider') : toRider'[i] = toRider[k]
  BY AppendHas
<1> QED
  BY <1>1, <1>2 DEF InRider

LEMMA EventAnswers ==
    ASSUME NEW c, NEW x, NEW r
    PROVE  /\ Event(c, x).kind = "event" /\ Event(c, x).control = c
           /\ Event(c, x).what = x
           /\ Reply(r).kind = "reply" /\ Reply(r).value = r
BY DEF Event, Reply

\* A message of this connection finds its handler when its turn comes.
LEMMA MessageHandled ==
    ASSUME LinkInv, Talk, queue # <<>>, IsMessage(Head(queue)),
           Head(queue).connection = connection
    PROVE  Handled
<1>1. Head(queue) \in Tasks /\ Head(queue) = queue[1] /\ 1 \in 1 .. Len(queue)
  BY HeadIs
<1>2. connection # 0
  BY <1>1, TaskFields DEF IsMessage, Connections
<1>3. ~Announced
  BY <1>1 DEF Announced
<1>4. connection = model
  BY <1>2, <1>3 DEF Talk, Posted
<1> QED
  BY <1>2, <1>4 DEF Handled, LinkInv, ModelAndControl

LEMMA AnswerableStep ==
    ASSUME LinkInv, Talk, Answerable, [Next]_vars
    PROVE  Answerable'
<1> SUFFICES ASSUME ~stale', NEW r \in open'
             PROVE  (InQueue(r) \/ InGame(r) \/ InRider(r))'
  BY DEF Answerable
<1> USE DEF wire, scheduler, link, game, rider, history
<1>0. /\ queue \in Seq(Tasks) /\ gameTasks \in Seq(GameTask) /\ toRider \in Seq(Told)
      /\ (control # 0 => control = model)
      /\ LinkTypeOK /\ LinkTypeOK' /\ Core /\ GameBehind
  BY LinkTypeStep DEF LinkInv, LinkTypeOK, Talk, Spoken, GameTask, ModelAndControl,
     Core
<1>1. CASE UNCHANGED vars
  <2>1. UNCHANGED <<stale, open, queue, connection, gameTasks, toRider>>
    BY <1>1 DEF vars
  <2> QED
    BY <2>1 DEF Answerable, InQueue, InGame, InRider, Answers
<1> SUFFICES ASSUME Next
             PROVE  (InQueue(r) \/ InGame(r) \/ InRider(r))'
  BY <1>1
<1>2. \A s \in open : InQueue(s) \/ InGame(s) \/ InRider(s)
  BY DEF Next, Answerable
<1>3. CASE Connects \/ Disconnects
  <2>1. open' = {}
    BY <1>0, <1>3 DEF Connects, Disconnects, Talk, Spoken
  <2> QED
    BY <2>1
<1>4. CASE MakeModel \/ LoseModel \/ SetMode \/ DropMessage
  <2>1. /\ queue # <<>> /\ queue' = Tail(queue)
        /\ UNCHANGED <<open, connection, gameTasks, toRider>>
    BY <1>4 DEF MakeModel, LoseModel, SetMode, DropMessage, Runs, EndsTask
  <2>2. ~Answers(Head(queue), r)
    <3>1. CASE MakeModel \/ LoseModel \/ SetMode
      BY <3>1 DEF MakeModel, LoseModel, SetMode, Runs, Answers
    <3>2. CASE DropMessage
      <4>1. IsMessage(Head(queue)) /\ ~Handled
        BY <3>2 DEF DropMessage, Runs, IsMessage
      <4>2. Head(queue).connection # connection
        BY <2>1, <4>1, MessageHandled
      <4> QED
        BY <4>1, <4>2 DEF Answers, IsMessage
    <3> QED
      BY <1>4, <3>1, <3>2
  <2> QED
    BY <1>0, <1>2, <2>1, <2>2, InQueueStays, InGameStays, InRiderStays
<1>5. CASE ReadSettings \/ EditSettings \/ CompareMode
  <2>1. UNCHANGED <<open, connection, queue, gameTasks, toRider>>
    BY <1>5 DEF ReadSettings, EditSettings, CompareMode
  <2> QED
    BY <1>0, <1>2, <2>1, InQueueStays, InGameStays, InRiderStays
<1>6. CASE InitialSync \/ AnnounceMode
  <2>1. UNCHANGED <<open, connection, queue, gameTasks>>
    BY <1>6 DEF InitialSync, AnnounceMode
  <2>2. toRider' = toRider \/ \E x \in Told : toRider' = Append(toRider, x)
    BY <1>6, SpeaksIs DEF Speaks, Says, Talk
  <2> QED
    BY <1>0, <1>2, <2>1, <2>2, InQueueStays, InGameStays, InRiderStays
<1>7. CASE RunEvent
  <2>1. /\ queue # <<>> /\ queue' = Tail(queue)
        /\ UNCHANGED <<open, connection, gameTasks>>
        /\ Head(queue).kind = "event"
    BY <1>7 DEF RunEvent, Runs, EndsTask
  <2>2. control = Head(queue).control /\ Fire(Head(queue).what)
    BY <1>7 DEF RunEvent
  <2>3. /\ Head(queue).what \in Told /\ control # 0
    BY <2>1, <2>2, HeadIs, EventFields DEF Connections
  <2>4. toRider' = toRider \/ \E x \in Told : toRider' = Append(toRider, x)
    BY <1>7, SpeaksIs DEF Speaks, Says, Talk
  <2>5. CASE Answers(Head(queue), r)
    <3>1. Head(queue).what = Reply(r) /\ connection = control
      BY <2>1, <2>2, <2>5 DEF Answers
    <3>2. toRider' = Append(toRider, Reply(r)) /\ Reply(r) \in Told
      BY <1>0, <2>2, <2>3, <3>1, FireIs
    <3>3. InRider(r)'
      BY <1>0, <3>2, AppendHas DEF InRider
    <3> QED
      BY <3>3
  <2>6. CASE ~Answers(Head(queue), r)
    BY <1>0, <1>2, <2>1, <2>4, <2>6, InQueueStays, InGameStays, InRiderStays
  <2> QED
    BY <2>5, <2>6
<1>8. CASE RequestPlay
  <2>1. /\ queue # <<>> /\ queue' = Tail(queue)
        /\ UNCHANGED <<open, connection>>
        /\ Head(queue).kind = "request" /\ Handled
    BY <1>8 DEF RequestPlay, Runs, EndsTask
  <2> DEFINE i == Head(queue).id
             g == [control |-> control, id |-> i]
  <2>2. /\ i \in Ids /\ control \in Connections
        /\ control = connection /\ connection = model
    <3>1. Head(queue) \in Tasks /\ Head(queue).connection = control
      BY <2>1, HeadIs DEF Handled
    <3> QED
      BY <1>0, <2>1, <3>1, TaskFields DEF Handled
  <2>3. g \in GameTask /\ g.id = i /\ g.control = control
    BY <2>2 DEF GameTask
  <2>4. \/ Fire(Reply(i)) /\ gameTasks' = gameTasks
        \/ gameTasks' = Append(gameTasks, g) /\ toRider' = toRider
    BY <1>8 DEF RequestPlay
  <2>5. toRider' = toRider \/ \E x \in Told : toRider' = Append(toRider, x)
    BY <1>8, SpeaksIs DEF Speaks, Says, Talk
  <2> HIDE DEF g, i
  <2>6. CASE r = i
    <3>1. CASE Fire(Reply(i)) /\ gameTasks' = gameTasks
      <4>1. Reply(i) \in Told
        BY <2>2, ToldAre
      <4>2. toRider' = Append(toRider, Reply(i))
        BY <1>0, <2>2, <3>1, <4>1, FireIs
      <4>3. InRider(r)'
        BY <1>0, <2>6, <4>1, <4>2, AppendHas DEF InRider
      <4> QED
        BY <4>3
    <3>2. CASE gameTasks' = Append(gameTasks, g)
      <4>1. \E k \in 1 .. Len(gameTasks') : gameTasks'[k] = g
        <5> HIDE DEF GameTask
        <5> QED
          BY <1>0, <2>3, <3>2, AppendHas
      <4>2. InGame(r)'
        BY <2>1, <2>2, <2>3, <2>6, <4>1 DEF InGame
      <4> QED
        BY <4>2
    <3> QED
      BY <2>4, <3>1, <3>2
  <2>7. CASE r # i
    <3>1. ~Answers(Head(queue), r)
      BY <2>1, <2>7 DEF Answers, i
    <3>2. gameTasks' = gameTasks \/ \E h \in GameTask : gameTasks' = Append(gameTasks, h)
      BY <2>3, <2>4
    <3> QED
      BY <1>0, <1>2, <2>1, <2>5, <3>1, <3>2, InQueueStays, InGameStays, InRiderStays
  <2> QED
    BY <2>6, <2>7
<1>9. CASE PlayEvent \/ QueueMode \/ SendMode
  <2>1. UNCHANGED <<open, connection, gameTasks, toRider>>
    BY <1>9 DEF PlayEvent, QueueMode, SendMode
  <2>2. queue' = queue \/ \E e \in Tasks : queue' = Append(queue, e)
    <3>3. CASE PlayEvent
      <4>1. delegates # 0 => Event(delegates, Play(playing')) \in Tasks
        <5>1. playing' \in {"Idle", "Play", "Pause"} /\ delegates \in 0 .. MaxConnections
          BY <1>0, <3>3 DEF PlayEvent, LinkTypeOK
        <5> QED
          BY <5>1, TasksAre, ToldAre, LinkAssumption DEF Connections
      <4> QED
        BY <3>3, <4>1 DEF PlayEvent
    <3>4. CASE QueueMode
      <4>1. Event(edited.control, Mode(edited.mode)) \in Tasks
        <5>1. edited.control \in Connections /\ edited.mode \in ModeNumbers
          BY <1>0, <3>4, LinkAssumption DEF QueueMode, LinkTypeOK, Connections
        <5> QED
          BY <5>1, TasksAre, ToldAre
      <4> QED
        BY <3>4, <4>1 DEF QueueMode
    <3>5. CASE SendMode
      <4>1. connection \in Connections
        BY <1>0, <3>5, LinkAssumption DEF SendMode, LinkTypeOK, Connections
      <4> QED
        BY <3>5, <4>1, TasksAre DEF SendMode
    <3> QED
      BY <1>9, <3>3, <3>4, <3>5
  <2> QED
    BY <1>0, <1>2, <2>1, <2>2, InQueueStays, InGameStays, InRiderStays
<1>10. CASE SendRequest
  <2> DEFINE e == [kind |-> "request", id |-> moves', connection |-> connection]
  <2>1. /\ queue' = Append(queue, e) /\ open' = open \cup {moves'}
        /\ UNCHANGED <<connection, gameTasks, toRider>>
    BY <1>10 DEF SendRequest
  <2>2. e \in Tasks /\ e.kind = "request" /\ e.id = moves' /\ e.connection = connection
    <3>1. connection \in Connections /\ moves' \in Ids
      BY <1>0, <1>10, LinkAssumption
         DEF SendRequest, Moves, LinkTypeOK, Connections, Ids
    <3> QED
      BY <3>1, TasksAre
  <2> HIDE DEF e
  <2>3. CASE r = moves'
    <3>1. \E k \in 1 .. Len(queue') : queue'[k] = e
      BY <1>0, <2>1, <2>2, AppendHas
    <3>2. InQueue(r)'
      BY <2>1, <2>2, <2>3, <3>1 DEF InQueue, Answers
    <3> QED
      BY <3>2
  <2>4. CASE r # moves'
    BY <1>0, <1>2, <2>1, <2>2, <2>4, InQueueStays, InGameStays, InRiderStays
  <2> QED
    BY <2>3, <2>4
<1>11. CASE ExecuteCommand
  <2> DEFINE g == Head(gameTasks)
             e == Event(g.control, Reply(g.id))
  <2>1. /\ gameTasks # <<>> /\ gameTasks' = Tail(gameTasks)
        /\ queue' = Append(queue, e)
        /\ UNCHANGED <<open, connection, toRider>>
    BY <1>11 DEF ExecuteCommand
  <2>2. /\ g \in GameTask
        /\ \A k \in 1 .. Len(gameTasks) :
             \/ gameTasks[k] = g
             \/ \E i \in 1 .. Len(gameTasks') : gameTasks'[i] = gameTasks[k]
    <3> HIDE DEF GameTask
    <3> QED
      BY <1>0, <2>1, TailHas
  <2>3. /\ e \in Tasks /\ e.kind = "event" /\ e.control = g.control
        /\ e.what = Reply(g.id)
    BY <2>2, TasksAre, ToldAre, EventAnswers DEF GameTask
  <2> HIDE DEF g, e
  <2>4. InQueue(r) \/ InGame(r) \/ InRider(r)
    BY <1>2, <2>1
  <2>5. CASE InQueue(r) \/ InRider(r)
    BY <1>0, <2>1, <2>3, <2>5, InQueueStays, InRiderStays
  <2>6. CASE InGame(r)
    <3>1. PICK k \in 1 .. Len(gameTasks) :
            gameTasks[k].id = r /\ gameTasks[k].control = connection
      BY <2>6 DEF InGame
    <3>2. CASE gameTasks[k] = g
      <4>1. \E n \in 1 .. Len(queue') : queue'[n] = e
        BY <1>0, <2>1, <2>3, AppendHas
      <4>2. InQueue(r)'
        BY <2>1, <2>3, <3>1, <3>2, <4>1 DEF InQueue, Answers
      <4> QED
        BY <4>2
    <3>3. CASE gameTasks[k] # g
      <4>1. InGame(r)'
        BY <2>1, <2>2, <3>1, <3>3 DEF InGame
      <4> QED
        BY <4>1
    <3> QED
      BY <3>2, <3>3
  <2> QED
    BY <2>4, <2>5, <2>6
<1>12. CASE Receive
  <2> DEFINE x == Head(toRider)
  <2>1. /\ toRider # <<>> /\ toRider' = Tail(toRider)
        /\ open' = IF x.kind = "reply" THEN open \ {x.value} ELSE open
        /\ UNCHANGED <<connection, queue, gameTasks>>
    BY <1>12 DEF Receive
  <2>2. \A k \in 1 .. Len(toRider) :
          \/ toRider[k] = x
          \/ \E i \in 1 .. Len(toRider') : toRider'[i] = toRider[k]
    BY <1>0, <2>1, TailHas
  <2> HIDE DEF x
  <2>3. r \in open /\ x # Reply(r)
    BY <2>1, EventAnswers
  <2>4. CASE InQueue(r) \/ InGame(r)
    BY <1>0, <2>1, <2>4, InQueueStays, InGameStays
  <2>5. CASE InRider(r)
    <3>1. PICK k \in 1 .. Len(toRider) : toRider[k] = Reply(r)
      BY <2>5 DEF InRider
    <3>2. InRider(r)'
      BY <2>2, <2>3, <3>1 DEF InRider
    <3> QED
      BY <3>2
  <2> QED
    BY <1>2, <2>3, <2>4, <2>5
<1> QED
  BY <1>3, <1>4, <1>5, <1>6, <1>7, <1>8, <1>9, <1>10, <1>11, <1>12
     DEF Next, Scheduler, Game, Rider

\* Every request of a connection that goes on is answered once all is quiet: it
\* is queued, with the game's thread or answered, and never given up.
THEOREM LinkRequestsAnswered == Spec => []RequestsAnswered
<1>1. Init => Answerable
  BY DEF Init, Answerable
<1>2. LinkInv /\ Talk /\ Answerable /\ [Next]_vars => Answerable'
  BY AnswerableStep
<1>3. ASSUME Answerable PROVE RequestsAnswered
  <2> SUFFICES ASSUME Quiet PROVE open = {}
    BY DEF RequestsAnswered
  <2>1. Len(queue) = 0 /\ Len(gameTasks) = 0 /\ Len(toRider) = 0 /\ ~stale
    BY DEF Quiet
  <2> QED
    BY <1>3, <2>1 DEF Answerable, InQueue, InGame, InRider
<1> QED
  BY <1>1, <1>2, <1>3, LinkTalk, PTL DEF Spec
-----------------------------------------------------------------------------
(* The last word on its way to the IDE *)

\* The last element of s that is in S, if there is one, is in T.
LastIn(s, S, T) ==
    \A k \in 1 .. Len(s) :
        s[k] \in S /\ (\A j \in k + 1 .. Len(s) : s[j] \notin S) => s[k] \in T

NoneIn(s, S) == \A k \in 1 .. Len(s) : s[k] \notin S

LEMMA LastOfAppend ==
    ASSUME NEW U, NEW s \in Seq(U), NEW e \in U, NEW S, NEW T
    PROVE  /\ e \notin S => /\ LastIn(s, S, T) => LastIn(Append(s, e), S, T)
                            /\ NoneIn(Append(s, e), S) <=> NoneIn(s, S)
           /\ e \in S => /\ e \in T => LastIn(Append(s, e), S, T)
                         /\ ~NoneIn(Append(s, e), S)
<1> DEFINE t == Append(s, e)
<1>1. /\ Len(s) \in Nat /\ Len(t) = Len(s) + 1 /\ t[Len(s) + 1] = e
      /\ \A k \in 1 .. Len(s) : t[k] = s[k]
  OBVIOUS
<1> HIDE DEF t
<1>2. ASSUME e \notin S, LastIn(s, S, T) PROVE LastIn(t, S, T)
  <2> SUFFICES ASSUME NEW k \in 1 .. Len(t), t[k] \in S,
                      \A j \in k + 1 .. Len(t) : t[j] \notin S
               PROVE  t[k] \in T
    BY DEF LastIn
  <2>1. k \in 1 .. Len(s) /\ t[k] = s[k]
    BY <1>1, <1>2
  <2>2. \A j \in k + 1 .. Len(s) : s[j] \notin S
    BY <1>1, <2>1
  <2> QED
    BY <1>2, <2>1, <2>2 DEF LastIn
<1>3. ASSUME e \notin S PROVE NoneIn(t, S) <=> NoneIn(s, S)
  BY <1>1, <1>3 DEF NoneIn
<1>4. ASSUME e \in S, e \in T PROVE LastIn(t, S, T)
  <2> SUFFICES ASSUME NEW k \in 1 .. Len(t), t[k] \in S,
                      \A j \in k + 1 .. Len(t) : t[j] \notin S
               PROVE  t[k] \in T
    BY DEF LastIn
  <2>1. k = Len(s) + 1
    BY <1>1, <1>4
  <2> QED
    BY <1>1, <1>4, <2>1
<1>5. ASSUME e \in S PROVE ~NoneIn(t, S)
  BY <1>1, <1>5 DEF NoneIn
<1> QED
  BY <1>2, <1>3, <1>4, <1>5 DEF t

LEMMA LastOfTail ==
    ASSUME NEW U, NEW s \in Seq(U), s # <<>>, NEW S, NEW T
    PROVE  /\ LastIn(s, S, T) => LastIn(Tail(s), S, T)
           /\ NoneIn(s, S) => NoneIn(Tail(s), S)
           /\ Head(s) \notin S /\ NoneIn(Tail(s), S) => NoneIn(s, S)
           /\ Head(s) \in S => ~NoneIn(s, S)
           /\ Head(s) \in S /\ NoneIn(Tail(s), S) /\ LastIn(s, S, T) => Head(s) \in T
<1> DEFINE t == Tail(s)
<1>1. /\ Len(s) \in Nat /\ Len(s) > 0 /\ Len(t) = Len(s) - 1 /\ Head(s) = s[1]
      /\ \A k \in 1 .. Len(s) - 1 : t[k] = s[k + 1]
  OBVIOUS
<1> HIDE DEF t
<1>2. ASSUME LastIn(s, S, T) PROVE LastIn(t, S, T)
  <2> SUFFICES ASSUME NEW k \in 1 .. Len(t), t[k] \in S,
                      \A j \in k + 1 .. Len(t) : t[j] \notin S
               PROVE  t[k] \in T
    BY DEF LastIn
  <2>1. k + 1 \in 1 .. Len(s) /\ t[k] = s[k + 1]
    BY <1>1
  <2>2. ASSUME NEW j \in k + 1 + 1 .. Len(s) PROVE s[j] \notin S
    <3>1. j - 1 \in k + 1 .. Len(t) /\ t[j - 1] = s[j]
      BY <1>1
    <3> QED
      BY <3>1
  <2> QED
    BY <1>2, <2>1, <2>2 DEF LastIn
<1>3. ASSUME NoneIn(s, S) PROVE NoneIn(t, S)
  BY <1>1, <1>3 DEF NoneIn
<1>4. ASSUME NoneIn(t, S)
      PROVE  \A k \in 2 .. Len(s) : s[k] \notin S
  <2> TAKE k \in 2 .. Len(s)
  <2>1. k - 1 \in 1 .. Len(t) /\ t[k - 1] = s[k]
    BY <1>1
  <2> QED
    BY <1>4, <2>1 DEF NoneIn
<1>5. ASSUME Head(s) \notin S, NoneIn(t, S) PROVE NoneIn(s, S)
  BY <1>1, <1>4, <1>5 DEF NoneIn
<1>6. ASSUME Head(s) \in S PROVE ~NoneIn(s, S)
  BY <1>1, <1>6 DEF NoneIn
<1>7. ASSUME Head(s) \in S, NoneIn(t, S), LastIn(s, S, T) PROVE Head(s) \in T
  <2>1. 1 \in 1 .. Len(s) /\ \A j \in 1 + 1 .. Len(s) : s[j] \notin S
    BY <1>1, <1>4, <1>7
  <2> QED
    BY <1>1, <1>7, <2>1 DEF LastIn
<1> QED
  BY <1>2, <1>3, <1>5, <1>6, <1>7 DEF t

\* What is queued for the IDE by control c, and what is said to it, of a kind and
\* with a value.
EventsOf(c, kind) ==
    {t \in Tasks : t.kind = "event" /\ t.control = c /\ t.what.kind = kind}
EventsWith(c, kind, v) == {t \in EventsOf(c, kind) : t.what.value = v}
ToldOf(kind) == {x \in Told : x.kind = kind}
ToldWith(kind, v) == {x \in ToldOf(kind) : x.value = v}

\* The last that is under way to the IDE, queued in q or said in w, is v.
Tells(q, w, c, kind, v) ==
    /\ LastIn(q, EventsOf(c, kind), EventsWith(c, kind, v))
    /\ NoneIn(q, EventsOf(c, kind)) => LastIn(w, ToldOf(kind), ToldWith(kind, v))

\* Nothing is under way to it.
Clear(q, w, c, kind) == NoneIn(q, EventsOf(c, kind)) /\ NoneIn(w, ToldOf(kind))

LEMMA ClearTells ==
    ASSUME NEW q, NEW w, NEW c, NEW kind, NEW v, Clear(q, w, c, kind)
    PROVE  Tells(q, w, c, kind, v)
BY DEF Clear, Tells, LastIn, NoneIn

\* Another task is queued or run, or something else is said.
LEMMA TellsOther ==
    ASSUME NEW q \in Seq(Tasks), NEW w \in Seq(Told), NEW c, NEW kind, NEW v
    PROVE  /\ \A e \in Tasks \ EventsOf(c, kind) :
                /\ Tells(q, w, c, kind, v) => Tells(Append(q, e), w, c, kind, v)
                /\ Clear(Append(q, e), w, c, kind) <=> Clear(q, w, c, kind)
           /\ q # <<>> /\ Head(q) \notin EventsOf(c, kind) =>
                /\ Tells(q, w, c, kind, v) => Tells(Tail(q), w, c, kind, v)
                /\ Clear(Tail(q), w, c, kind) <=> Clear(q, w, c, kind)
           /\ \A x \in Told \ ToldOf(kind) :
                /\ Tells(q, w, c, kind, v) => Tells(q, Append(w, x), c, kind, v)
                /\ Clear(q, Append(w, x), c, kind) <=> Clear(q, w, c, kind)
<1> DEFINE S == EventsOf(c, kind)
           T == EventsWith(c, kind, v)
           M == ToldOf(kind)
           N == ToldWith(kind, v)
<1>0. /\ \A p, u : Tells(p, u, c, kind, v) <=>
             LastIn(p, S, T) /\ (NoneIn(p, S) => LastIn(u, M, N))
      /\ \A p, u : Clear(p, u, c, kind) <=> NoneIn(p, S) /\ NoneIn(u, M)
  BY DEF Tells, Clear
<1> HIDE DEF S, T, M, N
<1>1. ASSUME NEW e \in Tasks \ S
      PROVE  /\ Tells(q, w, c, kind, v) => Tells(Append(q, e), w, c, kind, v)
             /\ Clear(Append(q, e), w, c, kind) <=> Clear(q, w, c, kind)
  <2>1. /\ LastIn(q, S, T) => LastIn(Append(q, e), S, T)
        /\ NoneIn(Append(q, e), S) <=> NoneIn(q, S)
    BY <1>1, LastOfAppend
  <2> QED
    BY <1>0, <2>1
<1>2. ASSUME q # <<>>, Head(q) \notin S
      PROVE  /\ Tells(q, w, c, kind, v) => Tells(Tail(q), w, c, kind, v)
             /\ Clear(Tail(q), w, c, kind) <=> Clear(q, w, c, kind)
  <2>1. /\ LastIn(q, S, T) => LastIn(Tail(q), S, T)
        /\ NoneIn(Tail(q), S) <=> NoneIn(q, S)
    BY <1>2, LastOfTail
  <2> QED
    BY <1>0, <2>1
<1>3. ASSUME NEW x \in Told \ M
      PROVE  /\ Tells(q, w, c, kind, v) => Tells(q, Append(w, x), c, kind, v)
             /\ Clear(q, Append(w, x), c, kind) <=> Clear(q, w, c, kind)
  <2>1. /\ LastIn(w, M, N) => LastIn(Append(w, x), M, N)
        /\ NoneIn(Append(w, x), M) <=> NoneIn(w, M)
    BY <1>3, LastOfAppend
  <2> QED
    BY <1>0, <2>1
<1> QED
  BY <1>1, <1>2, <1>3 DEF S, M

\* A word is queued, its event is run, it is said at once, or it is received.
LEMMA TellsWord ==
    ASSUME NEW q \in Seq(Tasks), NEW w \in Seq(Told), NEW c, NEW kind, NEW v
    PROVE  /\ \A e \in EventsWith(c, kind, v) :
                /\ Tells(Append(q, e), w, c, kind, v)
                /\ ~Clear(Append(q, e), w, c, kind)
           /\ /\ q # <<>> /\ Head(q) \in EventsOf(c, kind)
              /\ Tells(q, w, c, kind, v)
              => /\ Tells(Tail(q), Append(w, Head(q).what), c, kind, v)
                 /\ ~Clear(Tail(q), Append(w, Head(q).what), c, kind)
           /\ NoneIn(q, EventsOf(c, kind)) =>
                \A x \in ToldWith(kind, v) :
                    /\ Tells(q, Append(w, x), c, kind, v)
                    /\ ~Clear(q, Append(w, x), c, kind)
           /\ w # <<>> /\ Tells(q, w, c, kind, v) =>
                /\ Tells(q, Tail(w), c, kind, v)
                /\ Clear(q, Tail(w), c, kind) =>
                     IF Head(w).kind = kind THEN Head(w).value = v
                                            ELSE Clear(q, w, c, kind)
<1> DEFINE S == EventsOf(c, kind)
           T == EventsWith(c, kind, v)
           M == ToldOf(kind)
           N == ToldWith(kind, v)
<1>0. /\ \A p, u : Tells(p, u, c, kind, v) <=>
             LastIn(p, S, T) /\ (NoneIn(p, S) => LastIn(u, M, N))
      /\ \A p, u : Clear(p, u, c, kind) <=> NoneIn(p, S) /\ NoneIn(u, M)
  BY DEF Tells, Clear
<1>1. /\ T \subseteq S /\ S \subseteq Tasks /\ N \subseteq M /\ M \subseteq Told
      /\ \A e \in S : e.what \in M
      /\ \A e \in T : e.what \in N
      /\ \A x \in N : x.value = v
      /\ \A x \in Told : x \in M <=> x.kind = kind
  BY EventFields DEF EventsOf, EventsWith, ToldOf, ToldWith
<1> HIDE DEF S, T, M, N
<1>2. ASSUME NEW e \in T
      PROVE  Tells(Append(q, e), w, c, kind, v) /\ ~Clear(Append(q, e), w, c, kind)
  <2>1. LastIn(Append(q, e), S, T) /\ ~NoneIn(Append(q, e), S)
    BY <1>1, <1>2, LastOfAppend
  <2> QED
    BY <1>0, <2>1
<1>3. ASSUME q # <<>>, Head(q) \in S, Tells(q, w, c, kind, v)
      PROVE  /\ Tells(Tail(q), Append(w, Head(q).what), c, kind, v)
             /\ ~Clear(Tail(q), Append(w, Head(q).what), c, kind)
  <2> DEFINE x == Head(q).what
  <2>1. x \in M /\ (Head(q) \in T => x \in N)
    BY <1>1, <1>3
  <2>2. /\ LastIn(Tail(q), S, T)
        /\ NoneIn(Tail(q), S) => Head(q) \in T
    BY <1>0, <1>3, LastOfTail
  <2> HIDE DEF x
  <2>3. /\ x \in N => LastIn(Append(w, x), M, N)
        /\ ~NoneIn(Append(w, x), M)
    BY <1>1, <2>1, LastOfAppend
  <2>4. Tells(Tail(q), Append(w, x), c, kind, v) /\ ~Clear(Tail(q), Append(w, x), c, kind)
    BY <1>0, <2>1, <2>2, <2>3
  <2> QED
    BY <2>4 DEF x
<1>4. ASSUME NoneIn(q, S), NEW x \in N
      PROVE  Tells(q, Append(w, x), c, kind, v) /\ ~Clear(q, Append(w, x), c, kind)
  <2>1. LastIn(Append(w, x), M, N) /\ ~NoneIn(Append(w, x), M)
    BY <1>1, <1>4, LastOfAppend
  <2>2. LastIn(q, S, T)
    BY <1>4 DEF NoneIn, LastIn
  <2> QED
    BY <1>0, <2>1, <2>2
<1>5. ASSUME w # <<>>, Tells(q, w, c, kind, v)
      PROVE  /\ Tells(q, Tail(w), c, kind, v)
             /\ Clear(q, Tail(w), c, kind) =>
                  IF Head(w).kind = kind THEN Head(w).value = v
                                         ELSE Clear(q, w, c, kind)
  <2>1. Head(w) \in Told
    BY <1>5, TailHas
  <2>2. /\ LastIn(w, M, N) => LastIn(Tail(w), M, N)
        /\ Head(w) \notin M /\ NoneIn(Tail(w), M) => NoneIn(w, M)
        /\ Head(w) \in M /\ NoneIn(Tail(w), M) /\ LastIn(w, M, N) => Head(w) \in N
    BY <1>5, LastOfTail
  <2>3. Tells(q, Tail(w), c, kind, v)
    BY <1>0, <1>5, <2>2
  <2>4. ASSUME Clear(q, Tail(w), c, kind), Head(w).kind = kind
        PROVE  Head(w).value = v
    BY <1>0, <1>1, <1>5, <2>1, <2>2, <2>4
  <2>5. ASSUME Clear(q, Tail(w), c, kind), Head(w).kind # kind
        PROVE  Clear(q, w, c, kind)
    BY <1>0, <1>1, <2>1, <2>2, <2>5
  <2> QED
    BY <2>3, <2>4, <2>5
<1> QED
  BY <1>2, <1>3, <1>4, <1>5 DEF S, T, N
-----------------------------------------------------------------------------
(* What the steps do to what is under way *)

QueuesOther(kind) ==
    \/ queue' = queue
    \/ \E e \in Tasks : /\ queue' = Append(queue, e)
                        /\ e.kind = "event" => e.what.kind # kind
    \/ queue # <<>> /\ queue' = Tail(queue) /\ Head(queue).kind # "event"

SaysOther(kind) ==
    \/ toRider' = toRider
    \/ \E x \in Told : x.kind # kind /\ toRider' = Append(toRider, x)

\* What is under way of a kind stays so, and nothing is added to it.
Carries(kind) ==
    /\ \A v : Tells(queue, toRider, connection, kind, v)
                => Tells(queue', toRider', connection, kind, v)
    /\ Clear(queue', toRider', connection, kind)
         <=> Clear(queue, toRider, connection, kind)

LEMMA OtherCarries ==
    ASSUME queue \in Seq(Tasks), toRider \in Seq(Told), NEW kind,
           QueuesOther(kind), SaysOther(kind)
    PROVE  Carries(kind)
<1> DEFINE c == connection
<1>1. /\ queue' \in Seq(Tasks)
      /\ \A v : Tells(queue, toRider, c, kind, v) => Tells(queue', toRider, c, kind, v)
      /\ Clear(queue', toRider, c, kind) <=> Clear(queue, toRider, c, kind)
  <2>1. CASE queue' = queue
    BY <2>1
  <2>2. ASSUME NEW e \in Tasks, queue' = Append(queue, e),
               e.kind = "event" => e.what.kind # kind
        PROVE  /\ queue' \in Seq(Tasks)
               /\ \A v : Tells(queue, toRider, c, kind, v) => Tells(queue', toRider, c, kind, v)
               /\ Clear(queue', toRider, c, kind) <=> Clear(queue, toRider, c, kind)
    <3>1. e \in Tasks \ EventsOf(c, kind)
      BY <2>2 DEF EventsOf
    <3>2. /\ \A v : Tells(queue, toRider, c, kind, v)
                      => Tells(Append(queue, e), toRider, c, kind, v)
          /\ Clear(Append(queue, e), toRider, c, kind)
               <=> Clear(queue, toRider, c, kind)
      BY <3>1, TellsOther
    <3>3. Append(queue, e) \in Seq(Tasks)
      OBVIOUS
    <3> QED
      BY <2>2, <3>2, <3>3
  <2>3. CASE queue # <<>> /\ queue' = Tail(queue) /\ Head(queue).kind # "event"
    <3>1. Head(queue) \notin EventsOf(c, kind)
      BY <2>3 DEF EventsOf
    <3> QED
      BY <2>3, <3>1, TellsOther
  <2> QED
    BY <2>1, <2>2, <2>3 DEF QueuesOther
<1>2. /\ \A v : Tells(queue', toRider, c, kind, v) => Tells(queue', toRider', c, kind, v)
      /\ Clear(queue', toRider', c, kind) <=> Clear(queue', toRider, c, kind)
  <2>1. CASE toRider' = toRider
    BY <2>1
  <2>2. ASSUME NEW x \in Told, x.kind # kind, toRider' = Append(toRider, x)
        PROVE  /\ \A v : Tells(queue', toRider, c, kind, v) => Tells(queue', toRider', c, kind, v)
               /\ Clear(queue', toRider', c, kind) <=> Clear(queue', toRider, c, kind)
    <3>1. x \in Told \ ToldOf(kind)
      BY <2>2 DEF ToldOf
    <3> QED
      BY <1>1, <2>2, <3>1, TellsOther
  <2> QED
    BY <2>1, <2>2 DEF SaysOther
<1> QED
  BY <1>1, <1>2 DEF Carries

\* A step that queues a task queues one of these.
LEMMA QueuedTasks ==
    ASSUME LinkInv
    PROVE  /\ PlayEvent /\ delegates # 0 =>
                /\ Event(delegates, Play(playing')) \in Tasks
                /\ Play(playing') \in Told
           /\ QueueMode =>
                /\ Event(edited.control, Mode(edited.mode)) \in Tasks
                /\ Mode(edited.mode) \in Told
           /\ ExecuteCommand =>
                \E e \in Tasks : e.kind = "event" /\ e.what.kind = "reply"
                                 /\ queue' = Append(queue, e)
           /\ SendMode => \E m \in RiderModes :
                LET e == [kind |-> "setMode", mode |-> m, connection |-> connection]
                IN  e \in Tasks /\ queue' = Append(queue, e) /\ shownMode' = m
           /\ SendRequest =>
                \E e \in Tasks : e.kind = "request" /\ queue' = Append(queue, e)
<1> USE DEF LinkInv
<1>1. ASSUME PlayEvent, delegates # 0
      PROVE  Event(delegates, Play(playing')) \in Tasks /\ Play(playing') \in Told
  <2>1. playing' \in {"Idle", "Play", "Pause"} /\ delegates \in 0 .. MaxConnections
    BY <1>1 DEF PlayEvent, LinkTypeOK
  <2> QED
    BY <1>1, <2>1, TasksAre, ToldAre, LinkAssumption DEF Connections
<1>2. ASSUME QueueMode
      PROVE  /\ Event(edited.control, Mode(edited.mode)) \in Tasks
             /\ Mode(edited.mode) \in Told
  <2>1. edited.control \in Connections /\ edited.mode \in ModeNumbers
    BY <1>2, LinkAssumption DEF QueueMode, LinkTypeOK, Connections
  <2> QED
    BY <2>1, TasksAre, ToldAre
<1>3. ASSUME ExecuteCommand
      PROVE  \E e \in Tasks : e.kind = "event" /\ e.what.kind = "reply"
                              /\ queue' = Append(queue, e)
  <2> DEFINE g == Head(gameTasks)
             e == Event(g.control, Reply(g.id))
  <2>1. g \in GameTask
    <3>1. gameTasks \in Seq(GameTask) /\ gameTasks # <<>>
      BY <1>3 DEF ExecuteCommand, LinkTypeOK, GameTask
    <3> HIDE DEF GameTask
    <3> QED
      BY <3>1
  <2>2. e \in Tasks /\ e.kind = "event" /\ e.what = Reply(g.id)
    BY <2>1, TasksAre, ToldAre, EventAnswers DEF GameTask
  <2>3. queue' = Append(queue, e)
    BY <1>3 DEF ExecuteCommand
  <2> HIDE DEF e
  <2> QED
    BY <2>2, <2>3, EventAnswers
<1>4. ASSUME SendMode
      PROVE  \E m \in RiderModes :
               LET e == [kind |-> "setMode", mode |-> m, connection |-> connection]
               IN  e \in Tasks /\ queue' = Append(queue, e) /\ shownMode' = m
  <2>1. connection \in Connections
    BY <1>4, LinkAssumption DEF SendMode, LinkTypeOK, Connections
  <2> QED
    BY <1>4, <2>1, TasksAre DEF SendMode
<1>5. ASSUME SendRequest
      PROVE  \E e \in Tasks : e.kind = "request" /\ queue' = Append(queue, e)
  <2>1. connection \in Connections /\ moves' \in Ids
    BY <1>5, LinkAssumption
       DEF SendRequest, Moves, LinkTypeOK, Connections, Ids
  <2> DEFINE e == [kind |-> "request", id |-> moves', connection |-> connection]
  <2>2. e \in Tasks /\ e.kind = "request" /\ queue' = Append(queue, e)
    BY <1>5, <2>1, TasksAre DEF SendRequest
  <2> QED
    BY <2>2
<1> QED
  BY <1>1, <1>2, <1>3, <1>4, <1>5

LEMMA WordFields ==
    ASSUME NEW c, NEW p, NEW m, NEW r, NEW x
    PROVE  /\ Play(p).kind = "play" /\ Play(p).value = p
           /\ Mode(m).kind = "mode" /\ Mode(m).value = m
           /\ Reply(r).kind = "reply"
           /\ Event(c, x).kind = "event" /\ Event(c, x).control = c
           /\ Event(c, x).what = x
BY DEF Play, Mode, Reply, Event

\* The steps that neither queue nor say a play state or a mode.
NoWord ==
    \/ MakeModel \/ LoseModel \/ SetMode \/ DropMessage \/ ReadSettings
    \/ EditSettings \/ CompareMode \/ ExecuteCommand \/ SendMode \/ SendRequest
    \/ RequestPlay \/ UNCHANGED vars

LEMMA NoWordCarries ==
    ASSUME LinkInv, Talk, NoWord, NEW kind \in {"play", "mode"}
    PROVE  Carries(kind)
<1> USE DEF wire, scheduler, link, game, rider, history
<1>0. queue \in Seq(Tasks) /\ toRider \in Seq(Told)
  BY DEF LinkInv, LinkTypeOK, Talk, Spoken
<1>1. CASE MakeModel \/ LoseModel \/ SetMode \/ DropMessage
  <2>1. /\ queue # <<>> /\ queue' = Tail(queue) /\ Head(queue).kind # "event"
        /\ toRider' = toRider
    BY <1>1 DEF MakeModel, LoseModel, SetMode, DropMessage, Runs, EndsTask
  <2> QED
    BY <1>0, <2>1, OtherCarries DEF QueuesOther, SaysOther
<1>2. CASE ReadSettings \/ EditSettings \/ CompareMode \/ UNCHANGED vars
  <2>1. queue' = queue /\ toRider' = toRider
    BY <1>2 DEF ReadSettings, EditSettings, CompareMode, vars
  <2> QED
    BY <1>0, <2>1, OtherCarries DEF QueuesOther, SaysOther
<1>3. CASE ExecuteCommand \/ SendMode \/ SendRequest
  <2>1. toRider' = toRider
    BY <1>3 DEF ExecuteCommand, SendMode, SendRequest
  <2>2. \E e \in Tasks : /\ queue' = Append(queue, e)
                         /\ e.kind = "event" => e.what.kind # kind
    <3>1. CASE ExecuteCommand
      <4>1. PICK e \in Tasks : e.kind = "event" /\ e.what.kind = "reply"
                               /\ queue' = Append(queue, e)
        BY <3>1, QueuedTasks
      <4> QED
        BY <4>1
    <3>2. CASE SendMode
      <4>1. PICK m \in RiderModes :
              LET e == [kind |-> "setMode", mode |-> m, connection |-> connection]
              IN  e \in Tasks /\ queue' = Append(queue, e)
        BY <3>2, QueuedTasks
      <4> QED
        BY <4>1
    <3>3. CASE SendRequest
      <4>1. PICK e \in Tasks : e.kind = "request" /\ queue' = Append(queue, e)
        BY <3>3, QueuedTasks
      <4> QED
        BY <4>1
    <3> QED
      BY <1>3, <3>1, <3>2, <3>3
  <2> QED
    BY <1>0, <2>1, <2>2, OtherCarries DEF QueuesOther, SaysOther
<1>4. CASE RequestPlay
  <2>1. queue # <<>> /\ queue' = Tail(queue) /\ Head(queue).kind = "request"
    BY <1>4 DEF RequestPlay, Runs, EndsTask
  <2> DEFINE x == Reply(Head(queue).id)
  <2>2. x \in Told /\ x.kind = "reply"
    BY <2>1, HeadIs, TaskFields, ToldAre, WordFields
  <2>3. toRider' = toRider \/ Fire(x)
    BY <1>4 DEF RequestPlay
  <2> HIDE DEF x
  <2>4. SaysOther(kind)
    BY <1>0, <2>2, <2>3, FireIs DEF SaysOther
  <2> QED
    BY <1>0, <2>1, <2>4, OtherCarries DEF QueuesOther
<1> QED
  BY <1>1, <1>2, <1>3, <1>4 DEF NoWord

\* A word that was queued is said in its turn, unless its control is deleted.
LEMMA RunEventCarries ==
    ASSUME LinkInv, Talk, RunEvent, ~stale', NEW kind
    PROVE  Carries(kind)
<1>0. queue \in Seq(Tasks) /\ toRider \in Seq(Told)
  BY DEF LinkInv, LinkTypeOK, Talk, Spoken
<1> DEFINE x == Head(queue).what
<1>1. /\ queue # <<>> /\ queue' = Tail(queue) /\ Head(queue).kind = "event"
      /\ control = Head(queue).control /\ Fire(x)
  BY DEF RunEvent, Runs, EndsTask
<1>2. Head(queue) \in Tasks /\ x \in Told /\ control # 0 /\ control = model
  <2>1. Head(queue) \in Tasks
    BY <1>1, HeadIs
  <2>2. x \in Told /\ control \in Connections
    BY <1>1, <2>1, EventFields
  <2> QED
    BY <2>1, <2>2 DEF Connections, LinkInv, ModelAndControl
<1>3. /\ connection = model => toRider' = Append(toRider, x)
      /\ connection # model => toRider' = toRider
  BY <1>0, <1>1, <1>2, FireIs
<1>4. Head(queue) \in EventsOf(connection, kind) <=> connection = model /\ x.kind = kind
  BY <1>1, <1>2 DEF EventsOf
<1>5. CASE connection = model /\ x.kind = kind
  <2>1. ~Clear(queue, toRider, connection, kind)
    BY <1>0, <1>1, <1>4, <1>5, LastOfTail DEF Clear
  <2>2. \A v : Tells(queue, toRider, connection, kind, v)
                 => Tells(queue', toRider', connection, kind, v)
    <3>1. Head(queue) \in EventsOf(connection, kind)
      BY <1>4, <1>5
    <3>2. \A v : Tells(queue, toRider, connection, kind, v)
                   => Tells(Tail(queue), Append(toRider, x), connection, kind, v)
      BY <1>0, <1>1, <3>1, TellsWord
    <3> QED
      BY <1>1, <1>3, <1>5, <3>2
  <2>3. ~Clear(queue', toRider', connection, kind)
    <3>1. x \in ToldOf(kind)
      BY <1>2, <1>5 DEF ToldOf
    <3> HIDE DEF x
    <3>2. ~NoneIn(Append(toRider, x), ToldOf(kind))
      BY <1>0, <1>2, <3>1, LastOfAppend
    <3> QED
      BY <1>3, <1>5, <3>2 DEF Clear
  <2> QED
    BY <2>1, <2>2, <2>3 DEF Carries
<1>6. CASE ~(connection = model /\ x.kind = kind)
  <2>1. /\ \A v : Tells(queue, toRider, connection, kind, v)
                    => Tells(queue', toRider, connection, kind, v)
        /\ Clear(queue', toRider, connection, kind)
             <=> Clear(queue, toRider, connection, kind)
    BY <1>0, <1>1, <1>4, <1>6, TellsOther
  <2>2. CASE connection # model
    BY <1>3, <2>1, <2>2 DEF Carries
  <2>3. CASE x.kind # kind /\ connection = model
    <3>1. x \in Told \ ToldOf(kind) /\ queue' \in Seq(Tasks)
      BY <1>0, <1>1, <1>2, <2>3 DEF ToldOf
    <3> HIDE DEF x
    <3>2. /\ \A v : Tells(queue', toRider, connection, kind, v)
                      => Tells(queue', Append(toRider, x), connection, kind, v)
          /\ Clear(queue', Append(toRider, x), connection, kind)
               <=> Clear(queue', toRider, connection, kind)
      BY <1>0, <3>1, TellsOther
    <3> QED
      BY <1>3, <2>1, <2>3, <3>2 DEF Carries
  <2> QED
    BY <1>6, <2>2, <2>3
<1> QED
  BY <1>5, <1>6

\* What is said of the mode does not disturb what is said of the play state.
LEMMA ModeCarriesPlay ==
    ASSUME LinkInv, Talk, InitialSync \/ AnnounceMode \/ QueueMode
    PROVE  Carries("play")
<1>0. queue \in Seq(Tasks) /\ toRider \in Seq(Told) /\ Mode(retrieved) \in Told
  BY ToldAre DEF LinkInv, LinkTypeOK, Talk, Spoken
<1>1. CASE InitialSync \/ AnnounceMode
  <2>1. queue' = queue /\ (toRider' = toRider \/ Fire(Mode(retrieved)))
    BY <1>1 DEF InitialSync, AnnounceMode
  <2> QED
    BY <1>0, <2>1, FireIs, WordFields, OtherCarries DEF QueuesOther, SaysOther
<1>2. CASE QueueMode
  <2> DEFINE e == Event(edited.control, Mode(edited.mode))
  <2>1. toRider' = toRider /\ queue' = Append(queue, e)
    BY <1>2 DEF QueueMode
  <2>2. e \in Tasks /\ e.what.kind # "play"
    BY <1>2, QueuedTasks, WordFields
  <2> HIDE DEF e
  <2> QED
    BY <1>0, <2>1, <2>2, OtherCarries DEF QueuesOther, SaysOther
<1> QED
  BY <1>1, <1>2

LEMMA PlayCarriesMode ==
    ASSUME LinkInv, Talk, PlayEvent
    PROVE  Carries("mode")
<1>0. queue \in Seq(Tasks) /\ toRider \in Seq(Told) /\ toRider' = toRider
  BY DEF LinkInv, LinkTypeOK, Talk, Spoken, PlayEvent
<1>1. CASE delegates = 0
  <2>1. queue' = queue
    BY <1>1 DEF PlayEvent
  <2> QED
    BY <1>0, <2>1, OtherCarries DEF QueuesOther, SaysOther
<1>2. CASE delegates # 0
  <2> DEFINE e == Event(delegates, Play(playing'))
  <2>1. queue' = Append(queue, e)
    BY <1>2 DEF PlayEvent
  <2>2. e \in Tasks /\ e.what.kind # "mode"
    BY <1>2, QueuedTasks, WordFields
  <2> HIDE DEF e
  <2> QED
    BY <1>0, <2>1, <2>2, OtherCarries DEF QueuesOther, SaysOther
<1> QED
  BY <1>1, <1>2
-----------------------------------------------------------------------------
(* The play state the IDE shows *)

\* With the delegates of this connection registered, the last play state under
\* way or, when there is none, the one shown is the editor's; before that no
\* play state of this connection exists.
PlayTold ==
    ~stale =>
        IF connection # 0 /\ delegates = connection
        THEN /\ Tells(queue, toRider, connection, "play", playing)
             /\ Clear(queue, toRider, connection, "play")
                  => shownPlay \in {"Unknown", playing}
        ELSE /\ Clear(queue, toRider, connection, "play")
             /\ shownPlay = "Unknown"

\* Nothing is under way of a connection that has not been, nor without one.
LEMMA ClearOutside ==
    ASSUME queue \in Seq(Tasks), toRider = <<>>, NEW kind, NEW c,
           c = 0 \/ \A k \in 1 .. Len(queue) :
                      queue[k].kind = "event" => queue[k].control # c
    PROVE  Clear(queue, toRider, c, kind)
<1>1. \A k \in 1 .. Len(queue) : queue[k] \in Tasks
  OBVIOUS
<1>2. \A t \in Tasks : t.kind = "event" => t.control # 0
  BY EventFields DEF Connections
<1>3. NoneIn(queue, EventsOf(c, kind))
  BY <1>1, <1>2 DEF NoneIn, EventsOf
<1>4. Len(toRider) = 0
  OBVIOUS
<1> QED
  BY <1>3, <1>4 DEF Clear, NoneIn

\* Delegates of this connection are those of its model, which is hooked.
LEMMA DelegatesHooked ==
    ASSUME LinkInv, connection # 0, delegates = connection
    PROVE  /\ hooked /\ model = connection /\ control = connection
           /\ ~Runs("lost") /\ ~Runs("connected")
<1>1. /\ connection \in {0, connections} /\ connections \in Nat /\ model \in Nat
      /\ delegates <= model /\ model <= connections
  BY LinkAssumption DEF LinkInv, LinkTypeOK, ModelAndControl, GameBehind
<1>2. model = connection
  BY <1>1
<1>3. hooked /\ control = connection
  BY <1>2 DEF LinkInv, ModelAndControl
<1>4. ASSUME Runs("lost") \/ Runs("connected") PROVE FALSE
  <2>1. queue # <<>> /\ Head(queue).kind \in {"lost", "connected"}
    BY <1>4 DEF Runs
  <2>2. Head(queue) = queue[1] /\ 1 \in 1 .. Len(queue)
    BY <2>1, HeadIs
  <2>3. CASE Head(queue).kind = "lost"
    BY <1>3, <2>2, <2>3 DEF LinkInv, QueueOrdered, IsLost
  <2>4. CASE Head(queue).kind = "connected"
    <3>1. queue[1].connection \in model + 1 .. connections
      BY <2>2, <2>4 DEF LinkInv, QueueOrdered, IsConnected
    <3> QED
      BY <1>1, <1>2, <3>1
  <2> QED
    BY <2>1, <2>3, <2>4
<1> QED
  BY <1>2, <1>3, <1>4

LEMMA NewConnectionClear ==
    ASSUME LinkInv, Talk, Connects, NEW kind
    PROVE  /\ Clear(queue, toRider, connection, kind)'
           /\ connection' # 0 /\ connection' > model /\ model' = model
           /\ control' = control /\ delegates' = delegates
<1>1. /\ connections \in Nat /\ model \in Nat /\ model <= connections
      /\ connection' = connections + 1 /\ toRider' = <<>>
      /\ model' = model /\ control' = control /\ delegates' = delegates
      /\ queue' = Append(queue, [kind |-> "connected", connection |-> connections + 1])
  BY LinkAssumption DEF LinkInv, LinkTypeOK, ModelAndControl, Talk, Spoken,
     Connects, link
<1>2. queue' \in Seq(Tasks) /\ queue \in Seq(Tasks)
      /\ [kind |-> "connected", connection |-> connections + 1] \in Tasks
  <2>1. connections + 1 \in Connections
    BY <1>1, LinkAssumption DEF Connects, Connections
  <2> QED
    BY <1>1, <2>1, TasksAre DEF LinkInv, LinkTypeOK
<1>3. ASSUME NEW k \in 1 .. Len(queue'), queue'[k].kind = "event"
      PROVE  queue'[k].control # connections + 1
  <2>1. k \in 1 .. Len(queue) /\ queue'[k] = queue[k]
    BY <1>1, <1>2, <1>3, AppendIs
  <2>2. queue[k].control <= model
    BY <1>3, <2>1 DEF Talk, Posted
  <2>3. queue[k].control \in Nat
    BY <1>2, <1>3, <2>1, EventFields DEF Connections
  <2> QED
    BY <1>1, <2>1, <2>2, <2>3
<1>4. NoneIn(queue', EventsOf(connections + 1, kind))
  BY <1>3 DEF NoneIn, EventsOf
<1>5. Len(toRider') = 0
  BY <1>1
<1>6. Clear(queue', toRider', connections + 1, kind)
  BY <1>4, <1>5 DEF Clear, NoneIn
<1> QED
  BY <1>1, <1>6 DEF Clear, NoneIn, EventsOf, ToldOf

LEMMA PlayToldStep ==
    ASSUME LinkInv, LinkTypeOK', Talk, Talk', PlayTold, Next, ~stale'
    PROVE  PlayTold'
<1> USE DEF wire, scheduler, link, game, rider, history
<1> DEFINE c == connection
<1>0. /\ queue \in Seq(Tasks) /\ toRider \in Seq(Told) /\ queue' \in Seq(Tasks)
      /\ ~stale
  BY DEF LinkInv, LinkTypeOK, Talk, Spoken, Next
<1>1. CASE Connects
  <2>1. /\ Clear(queue, toRider, connection, "play")'
        /\ connection' > model /\ delegates' = delegates
    BY <1>1, NewConnectionClear
  <2>2. connection' # delegates'
    BY <2>1 DEF LinkInv, LinkTypeOK, GameBehind
  <2>3. shownPlay' = "Unknown"
    BY <1>1 DEF Connects, Talk, Spoken
  <2> QED
    BY <2>1, <2>2, <2>3 DEF PlayTold
<1>2. CASE Disconnects
  <2>1. connection' = 0 /\ toRider' = <<>> /\ shownPlay' = "Unknown"
    BY <1>2 DEF Disconnects
  <2>2. Clear(queue, toRider, connection, "play")'
    <3>1. \A k \in 1 .. Len(queue') : queue'[k] \notin EventsOf(0, "play")
      BY <1>0, EventFields DEF EventsOf, Connections
    <3>2. Len(toRider') = 0
      BY <2>1
    <3> QED
      BY <2>1, <3>1, <3>2 DEF Clear, NoneIn, EventsOf
  <2> QED
    BY <2>1, <2>2 DEF PlayTold
\* The steps that leave the play state, its delegates and what is shown of it.
<1>3. ASSUME UNCHANGED <<connection, delegates, playing, shownPlay>>, Carries("play")
      PROVE  PlayTold'
  <2>1. /\ \A v : Tells(queue, toRider, c, "play", v)
                    => Tells(queue', toRider', c, "play", v)
        /\ Clear(queue', toRider', c, "play") <=> Clear(queue, toRider, c, "play")
    BY <1>3 DEF Carries
  <2>2. IF c # 0 /\ delegates = c
        THEN /\ Tells(queue', toRider', c, "play", playing)
             /\ Clear(queue', toRider', c, "play") => shownPlay \in {"Unknown", playing}
        ELSE /\ Clear(queue', toRider', c, "play")
             /\ shownPlay = "Unknown"
    BY <1>0, <2>1 DEF PlayTold
  <2> QED
    BY <1>3, <2>2 DEF PlayTold, Tells, Clear
<1>4. CASE \/ SetMode \/ DropMessage \/ ReadSettings \/ EditSettings \/ CompareMode
           \/ ExecuteCommand \/ SendMode \/ SendRequest \/ RequestPlay
  <2>1. Carries("play")
    BY <1>4, NoWordCarries DEF NoWord
  <2>2. UNCHANGED <<connection, delegates, playing, shownPlay>>
    BY <1>4 DEF SetMode, DropMessage, ReadSettings, EditSettings, CompareMode,
       ExecuteCommand, SendMode, SendRequest, RequestPlay
  <2> QED
    BY <1>3, <2>1, <2>2
<1>5. CASE RunEvent \/ InitialSync \/ AnnounceMode \/ QueueMode
  <2>1. Carries("play")
    BY <1>5, RunEventCarries, ModeCarriesPlay
  <2>2. UNCHANGED <<connection, delegates, playing, shownPlay>>
    BY <1>5 DEF RunEvent, InitialSync, AnnounceMode, QueueMode
  <2> QED
    BY <1>3, <2>1, <2>2
<1>6. CASE MakeModel \/ LoseModel
  <2>1. Runs("connected") \/ Runs("lost")
    BY <1>6 DEF MakeModel, LoseModel
  <2>2. ~(c # 0 /\ delegates = c)
    BY <2>1, DelegatesHooked
  <2>3. Clear(queue, toRider, c, "play") /\ shownPlay = "Unknown"
    BY <1>0, <2>2 DEF PlayTold
  <2>4. Clear(queue', toRider', c, "play")
    BY <1>6, <2>3, NoWordCarries DEF NoWord, Carries
  <2>5. Tells(queue', toRider', c, "play", playing)
    BY <2>4, ClearTells
  <2>6. UNCHANGED <<connection, playing, shownPlay>>
    BY <1>6 DEF MakeModel, LoseModel
  <2> QED
    BY <2>3, <2>4, <2>5, <2>6 DEF PlayTold, Tells, Clear
<1>7. CASE PlayEvent
  <2> DEFINE e == Event(delegates, Play(playing'))
  <2>1. /\ toRider' = toRider /\ UNCHANGED <<connection, delegates, shownPlay>>
        /\ queue' = IF delegates = 0 THEN queue ELSE Append(queue, e)
    BY <1>7 DEF PlayEvent
  <2>2. delegates # 0 => e \in Tasks /\ Play(playing') \in Told
    BY <1>7, QueuedTasks
  <2>3. /\ e.kind = "event" /\ e.control = delegates
        /\ e.what.kind = "play" /\ e.what.value = playing'
    BY WordFields
  <2> HIDE DEF e
  <2>4. CASE c # 0 /\ delegates = c
    <3>1. e \in EventsWith(c, "play", playing')
      BY <2>2, <2>3, <2>4 DEF EventsWith, EventsOf
    <3>2. /\ Tells(Append(queue, e), toRider, c, "play", playing')
          /\ ~Clear(Append(queue, e), toRider, c, "play")
      BY <1>0, <3>1, TellsWord
    <3>3. /\ Tells(queue', toRider', c, "play", playing')
          /\ ~Clear(queue', toRider', c, "play")
      BY <2>1, <2>4, <3>2
    <3> QED
      BY <2>1, <2>4, <3>3 DEF PlayTold, Tells, Clear
  <2>5. CASE ~(c # 0 /\ delegates = c)
    <3>1. Clear(queue, toRider, c, "play") /\ shownPlay = "Unknown"
      BY <1>0, <2>5 DEF PlayTold
    <3>2. Clear(queue', toRider', c, "play")
      <4>1. CASE delegates = 0
        BY <2>1, <3>1, <4>1
      <4>2. CASE delegates # 0
        <5>1. e \in Tasks \ EventsOf(c, "play")
          <6>1. e.control # c
            BY <2>3, <2>5, <4>2
          <6> QED
            BY <2>2, <4>2, <6>1 DEF EventsOf
        <5>2. Clear(Append(queue, e), toRider, c, "play")
          BY <1>0, <3>1, <5>1, TellsOther
        <5> QED
          BY <2>1, <4>2, <5>2
      <4> QED
        BY <4>1, <4>2
    <3> QED
      BY <2>1, <2>5, <3>1, <3>2 DEF PlayTold, Tells, Clear
  <2> QED
    BY <2>4, <2>5
<1>8. CASE Receive
  <2> DEFINE x == Head(toRider)
  <2>1. /\ toRider # <<>> /\ toRider' = Tail(toRider)
        /\ shownPlay' = IF x.kind = "play" THEN x.value ELSE shownPlay
        /\ UNCHANGED <<connection, delegates, queue, playing>>
    BY <1>8 DEF Receive
  <2>2. \A v : Tells(queue, toRider, c, "play", v) =>
          /\ Tells(queue, Tail(toRider), c, "play", v)
          /\ Clear(queue, Tail(toRider), c, "play") =>
               IF x.kind = "play" THEN x.value = v ELSE Clear(queue, toRider, c, "play")
    BY <1>0, <2>1, TellsWord
  <2>3. x \in Told
    BY <1>0, <2>1, TailHas
  <2>4. CASE c # 0 /\ delegates = c
    <3>1. /\ Tells(queue, toRider, c, "play", playing)
          /\ Clear(queue, toRider, c, "play") => shownPlay \in {"Unknown", playing}
      BY <1>0, <2>4 DEF PlayTold
    <3>2. /\ Tells(queue', toRider', c, "play", playing)
          /\ Clear(queue', toRider', c, "play") => shownPlay' \in {"Unknown", playing}
      BY <2>1, <2>2, <3>1
    <3> QED
      BY <2>1, <2>4, <3>2 DEF PlayTold, Tells, Clear
  <2>5. CASE ~(c # 0 /\ delegates = c)
    <3>1. Clear(queue, toRider, c, "play") /\ shownPlay = "Unknown"
      BY <1>0, <2>5 DEF PlayTold
    <3>2. NoneIn(toRider, ToldOf("play")) /\ NoneIn(queue, EventsOf(c, "play"))
      BY <3>1 DEF Clear
    <3>3. x \notin ToldOf("play") /\ NoneIn(Tail(toRider), ToldOf("play"))
      BY <1>0, <2>1, <3>2, LastOfTail
    <3>4. x.kind # "play"
      BY <2>3, <3>3 DEF ToldOf
    <3>5. Clear(queue', toRider', c, "play") /\ shownPlay' = "Unknown"
      BY <2>1, <3>1, <3>2, <3>3, <3>4 DEF Clear
    <3> QED
      BY <2>1, <2>5, <3>5 DEF PlayTold, Tells, Clear
  <2> QED
    BY <2>4, <2>5
<1> QED
  BY <1>1, <1>2, <1>4, <1>5, <1>6, <1>7, <1>8
     DEF Next, Scheduler, Game, Rider

\* When nothing is under way the play state that the IDE was last told on this
\* connection is the editor's, through any number of connections.
THEOREM LinkShownPlay == Spec => []ShownPlay
<1>1. ASSUME Init PROVE PlayTold
  <2>1. /\ queue = <<>> /\ toRider = <<>> /\ connection = 0 /\ shownPlay = "Unknown"
    BY <1>1 DEF Init
  <2>2. queue \in Seq(Tasks)
    BY <2>1
  <2>3. Clear(queue, toRider, connection, "play")
    BY <2>1, <2>2, ClearOutside
  <2> QED
    BY <2>1, <2>3 DEF PlayTold
<1>2. ASSUME LinkInv, LinkInv', Talk, Talk', PlayTold, [Next]_vars PROVE PlayTold'
  <2>1. CASE UNCHANGED vars
    <3>1. UNCHANGED <<stale, connection, delegates, queue, toRider, playing, shownPlay>>
      BY <2>1 DEF vars, wire, scheduler, link, game, rider, history
    <3> QED
      BY <1>2, <3>1 DEF PlayTold, Tells, Clear
  <2>2. CASE Next /\ stale'
    BY <2>2 DEF PlayTold
  <2>3. CASE Next /\ ~stale'
    BY <1>2, <2>3, PlayToldStep DEF LinkInv
  <2> QED
    BY <1>2, <2>1, <2>2, <2>3
<1>3. ASSUME LinkInv, Talk, PlayTold PROVE ShownPlay
  <2> SUFFICES ASSUME Quiet, control # 0 PROVE shownPlay \in {"Unknown", playing}
    BY DEF ShownPlay
  <2>1. Len(queue) = 0 /\ Len(toRider) = 0 /\ ~stale
    BY DEF Quiet
  <2>2. connection = control /\ delegates = control
    <3>1. ~Lost
      BY <2>1 DEF Lost
    <3> QED
      BY <1>3, <3>1 DEF LinkInv, ModelAndControl, Talk, Spoken
  <2>3. Clear(queue, toRider, connection, "play")
    BY <2>1 DEF Clear, NoneIn
  <2> QED
    BY <1>3, <2>1, <2>2, <2>3 DEF PlayTold
<1> QED
  BY <1>1, <1>2, <1>3, LinkTalk, PTL DEF Spec
-----------------------------------------------------------------------------
(* The mode the IDE shows *)

Here == control = connection /\ control # 0
Settled == stage \in {"idle", "applied", "announcing"}

\* While the threads are not at the mode at once: what the scheduler's has read
\* there, what the game's has read there, and what the control last told the IDE
\* are the mode of the settings.
AtMode ==
    /\ stage \in {"syncing", "announcing"} => retrieved = PackToMode(settings)
    /\ editing # "idle" /\ stage = "idle" => edited.mode = PackToMode(settings)
    /\ editing = "queueing" /\ Settled => playMode = edited.mode
    /\ Here /\ stage = "idle" /\ editing = "idle" => playMode = PackToMode(settings)
    /\ Here /\ Settled /\ editing # "idle" => edited.control = control

SetsOf(c) == {t \in Tasks : t.kind = "setMode" /\ t.connection = c}
SetsWith(c, m) == {t \in SetsOf(c) : t.mode = m}

\* The IDE shows what it asked for, and its last request is queued or applied.
Asked ==
    /\ LastIn(queue, SetsOf(connection), SetsWith(connection, shownMode))
    /\ NoneIn(queue, SetsOf(connection)) =>
         stage \in {"applied", "announcing"} /\ shownMode = PackToMode(settings)

\* The last mode under way is the one the control last told; when there is none
\* the IDE shows it, or shows what it has asked for since.
ModeTold ==
    Here /\ Settled /\ editing # "queueing" =>
        /\ Tells(queue, toRider, connection, "mode", playMode)
        /\ Clear(queue, toRider, connection, "mode") => shownMode = playMode \/ Asked

ModeKept == ~stale /\ ~crossed => AtMode /\ ModeTold

LEMMA AtModeStep ==
    ASSUME LinkInv, Talk, AtMode, Next, ~crossed'
    PROVE  AtMode'
<1> USE DEF wire, scheduler, link, game, rider, history
<1>0. control # 0 => control = model /\ delegates = control
  BY DEF LinkInv, ModelAndControl, Talk, Spoken
\* The steps that leave what both threads are at.
<1>1. ASSUME UNCHANGED <<stage, retrieved, settings, editing, edited, playMode>>,
             UNCHANGED <<connection, control>> \/ ~Here'
      PROVE  AtMode'
  BY <1>1 DEF AtMode, Here, Settled
<1>2. CASE Connects
  <2>1. connection' > model /\ connection' # 0 /\ control' = control
    BY <1>2, NewConnectionClear
  <2>2. ~Here'
    BY <1>0, <2>1 DEF Here, LinkInv, LinkTypeOK
  <2> QED
    BY <1>1, <1>2, <2>2 DEF Connects
<1>3. CASE Disconnects \/ LoseModel
  <2>1. ~Here'
    BY <1>3 DEF Disconnects, LoseModel, Here
  <2> QED
    BY <1>1, <1>3, <2>1 DEF Disconnects, LoseModel
<1>4. CASE MakeModel
  <2>1. CASE stage' = "subscribed"
    BY <2>1 DEF AtMode, Settled
  <2>2. CASE stage' # "subscribed"
    BY <1>1, <1>4, <2>2 DEF MakeModel
  <2> QED
    BY <2>1, <2>2
<1>5. CASE ReadSettings
  <2>1. /\ stage' \in {"syncing", "announcing"} /\ retrieved' = PackToMode(settings)
        /\ stage' = "announcing" => stage = "applied"
        /\ UNCHANGED <<connection, control, settings, editing, edited, playMode>>
    BY <1>5 DEF ReadSettings
  <2> QED
    BY <2>1 DEF AtMode, Here, Settled
<1>6. CASE InitialSync \/ AnnounceMode
  <2>1. /\ stage \in {"syncing", "announcing"} /\ stage' = "idle"
        /\ playMode' = retrieved /\ editing = "idle"
        /\ UNCHANGED <<settings, editing>>
    BY <1>6 DEF InitialSync, AnnounceMode, Crosses
  <2> QED
    BY <2>1 DEF AtMode
<1>7. CASE \/ RunEvent \/ DropMessage \/ RequestPlay \/ PlayEvent \/ ExecuteCommand
           \/ SendMode \/ SendRequest \/ Receive
  BY <1>1, <1>7 DEF RunEvent, DropMessage, RequestPlay, PlayEvent, ExecuteCommand,
     SendMode, SendRequest, Receive
<1>8. CASE SetMode
  <2>1. /\ stage = "idle" /\ stage' = "applied"
        /\ UNCHANGED <<connection, control, editing, edited, playMode>>
    BY <1>8 DEF SetMode, Runs
  <2> QED
    BY <2>1 DEF AtMode, Here, Settled
<1>9. CASE EditSettings
  <2>1. /\ stage = "idle" /\ editing' = IF delegates = 0 THEN "idle" ELSE "comparing"
        /\ edited' = [control |-> delegates, mode |-> PackToMode(settings')]
        /\ UNCHANGED <<connection, control, stage>>
    BY <1>9 DEF EditSettings
  <2>2. edited'.control = delegates /\ edited'.mode = PackToMode(settings')
    BY <2>1
  <2>3. PackToMode(settings') = PackToMode(settings)'
    BY DEF PackToMode
  <2> QED
    BY <1>0, <2>1, <2>2, <2>3 DEF AtMode, Here
<1>10. CASE CompareMode
  <2>1. /\ editing = "comparing" /\ editing' \in {"idle", "queueing"}
        /\ playMode' = edited.mode
        /\ UNCHANGED <<connection, control, stage, retrieved, settings, edited>>
    BY <1>10 DEF CompareMode
  <2> QED
    BY <2>1 DEF AtMode, Here, Settled
<1>11. CASE QueueMode
  <2>1. /\ editing = "queueing" /\ editing' = "idle"
        /\ UNCHANGED <<connection, control, stage, retrieved, settings, playMode>>
    BY <1>11 DEF QueueMode
  <2> QED
    BY <2>1 DEF AtMode, Here, Settled
<1> QED
  BY <1>2, <1>3, <1>4, <1>5, <1>6, <1>7, <1>8, <1>9, <1>10, <1>11
     DEF Next, Scheduler, Game, Rider
\* What the IDE asked for stays so while no request of its is queued or taken.
LEMMA AskedStays ==
    ASSUME queue \in Seq(Tasks), Asked, UNCHANGED <<connection, shownMode>>,
           \/ queue' = queue
           \/ \E e \in Tasks : e.kind # "setMode" /\ queue' = Append(queue, e)
           \/ queue # <<>> /\ queue' = Tail(queue) /\ Head(queue) \notin SetsOf(connection),
           stage \in {"applied", "announcing"} =>
               stage' \in {"applied", "announcing"} /\ settings' = settings
    PROVE  Asked'
<1> DEFINE S == SetsOf(connection)
           T == SetsWith(connection, shownMode)
<1>1. \A e \in Tasks : e.kind # "setMode" => e \notin S
  BY DEF SetsOf
<1>2. /\ LastIn(queue, S, T)
      /\ NoneIn(queue, S) =>
           stage \in {"applied", "announcing"} /\ shownMode = PackToMode(settings)
  BY DEF Asked
<1> HIDE DEF S, T
<1>3. LastIn(queue', S, T) /\ (NoneIn(queue', S) => NoneIn(queue, S))
  <2>1. CASE queue' = queue
    BY <1>2, <2>1
  <2>2. ASSUME NEW e \in Tasks, e.kind # "setMode", queue' = Append(queue, e)
        PROVE  LastIn(queue', S, T) /\ (NoneIn(queue', S) => NoneIn(queue, S))
    <3>1. /\ LastIn(Append(queue, e), S, T)
          /\ NoneIn(Append(queue, e), S) => NoneIn(queue, S)
      BY <1>1, <1>2, <2>2, LastOfAppend
    <3> QED
      BY <2>2, <3>1
  <2>3. CASE queue # <<>> /\ queue' = Tail(queue) /\ Head(queue) \notin S
    <3>1. /\ LastIn(Tail(queue), S, T)
          /\ NoneIn(Tail(queue), S) => NoneIn(queue, S)
      BY <1>2, <2>3, LastOfTail
    <3> QED
      BY <2>3, <3>1
  <2> QED
    BY <2>1, <2>2, <2>3 DEF S
<1>4. NoneIn(queue', S) => /\ stage' \in {"applied", "announcing"}
                           /\ shownMode = PackToMode(settings) /\ settings' = settings
  BY <1>2, <1>3
<1>5. SetsOf(connection)' = S /\ SetsWith(connection, shownMode)' = T
  BY DEF S, T, SetsOf, SetsWith
<1> QED
  BY <1>3, <1>4, <1>5 DEF Asked, LastIn, NoneIn

\* The IDE asks for a mode and shows it.
LEMMA SendModeAsks ==
    ASSUME LinkInv, SendMode
    PROVE  Asked'
<1>1. PICK m \in RiderModes :
        LET e == [kind |-> "setMode", mode |-> m, connection |-> connection]
        IN  e \in Tasks /\ queue' = Append(queue, e) /\ shownMode' = m
  BY QueuedTasks
<1> DEFINE e == [kind |-> "setMode", mode |-> m, connection |-> connection]
           S == SetsOf(connection)
           T == SetsWith(connection, m)
<1>2. e \in S /\ e \in T /\ queue \in Seq(Tasks) /\ e \in Tasks
  BY <1>1 DEF SetsOf, SetsWith, LinkInv, LinkTypeOK
<1>3. connection' = connection /\ queue' = Append(queue, e)
  BY <1>1 DEF SendMode, wire
<1> HIDE DEF e, S, T
<1>4. LastIn(queue', S, T) /\ ~NoneIn(queue', S)
  BY <1>2, <1>3, LastOfAppend
<1>5. SetsOf(connection)' = S /\ SetsWith(connection, shownMode)' = T
  BY <1>1, <1>3 DEF S, T, SetsOf, SetsWith
<1> QED
  BY <1>4, <1>5 DEF Asked, LastIn, NoneIn

\* The mode the IDE asked for last is the one of the settings it leads to.
LEMMA SetModeAsks ==
    ASSUME LinkInv, SetMode, Asked
    PROVE  Asked'
<1> DEFINE t == Head(queue)
           S == SetsOf(connection)
           T == SetsWith(connection, shownMode)
<1>1. /\ queue # <<>> /\ queue \in Seq(Tasks) /\ queue' = Tail(queue)
      /\ t \in Tasks /\ t.kind = "setMode" /\ t.connection = connection
      /\ settings' = UnpackFromMode(t.mode) /\ stage' = "applied"
      /\ UNCHANGED <<connection, shownMode>>
  BY HeadIs DEF SetMode, Runs, Handled, EndsTask, LinkInv, LinkTypeOK, wire, rider
<1>2. t \in S /\ t.mode \in 0 .. 111 /\ (t \in T => t.mode = shownMode)
  BY <1>1, LinkAssumption DEF SetsOf, SetsWith, Tasks
<1>3. PackToMode(UnpackFromMode(t.mode)) = t.mode
  BY <1>2, ModeComesBack
<1> HIDE DEF S, T
<1>4. LastIn(Tail(queue), S, T) /\ (NoneIn(Tail(queue), S) => t \in T)
  BY <1>1, <1>2, LastOfTail DEF Asked, S, T
<1>5. PackToMode(settings)' = PackToMode(settings')
  BY DEF PackToMode
<1>6. SetsOf(connection)' = S /\ SetsWith(connection, shownMode)' = T
  BY <1>1 DEF S, T, SetsOf, SetsWith
<1>7. PackToMode(settings)' = t.mode
  BY <1>1, <1>3, <1>5
<1> HIDE DEF t
<1> QED
  BY <1>1, <1>2, <1>4, <1>6, <1>7 DEF Asked, LastIn, NoneIn
LEMMA ModeToldStep ==
    ASSUME LinkInv, Talk, AtMode, ModeTold, Next, ~stale', ~crossed'
    PROVE  ModeTold'
<1> USE DEF wire, scheduler, link, game, rider, history
<1> DEFINE c == connection
<1>0. /\ queue \in Seq(Tasks) /\ toRider \in Seq(Told)
      /\ control # 0 => control = model /\ delegates = control
      /\ Here => connection # 0 /\ delegates = connection /\ connection = model
  BY DEF LinkInv, LinkTypeOK, ModelAndControl, Talk, Spoken, Here
<1>1. ASSUME ~Here' PROVE ModeTold'
  BY <1>1 DEF ModeTold
\* The steps that leave the mode the control told and the one the IDE shows.
<1>2. ASSUME UNCHANGED <<connection, control, playMode, shownMode>>,
             Settled' => Settled, editing' # "queueing" => editing # "queueing",
             Carries("mode"), Asked => Asked'
      PROVE  ModeTold'
  <2> SUFFICES ASSUME Here, Settled, editing # "queueing"
               PROVE  /\ Tells(queue', toRider', c, "mode", playMode)
                      /\ Clear(queue', toRider', c, "mode")
                           => shownMode = playMode \/ Asked'
    BY <1>2 DEF ModeTold, Here, Settled, Tells, Clear
  <2> QED
    BY <1>2 DEF ModeTold, Carries
<1>3. CASE Connects
  <2>1. connection' > model /\ connection' # 0 /\ control' = control
    BY <1>3, NewConnectionClear
  <2> QED
    BY <1>0, <1>1, <2>1 DEF Here, LinkInv, LinkTypeOK
<1>4. CASE Disconnects \/ LoseModel
  BY <1>1, <1>4 DEF Disconnects, LoseModel, Here
<1>5. CASE MakeModel
  <2>1. ~Here
    <3>1. Runs("connected")
      BY <1>5 DEF MakeModel
    <3> QED
      BY <1>0, <3>1, DelegatesHooked
  <2>2. CASE stage' = "subscribed"
    BY <2>2 DEF ModeTold, Settled
  <2>3. CASE stage' # "subscribed"
    BY <1>1, <1>5, <2>1, <2>3 DEF MakeModel, Here
  <2> QED
    BY <2>2, <2>3
<1>6. CASE ReadSettings
  <2>1. /\ stage \in {"subscribed", "applied"} /\ (stage = "subscribed" => stage' = "syncing")
        /\ stage = "applied" => stage' = "announcing"
        /\ UNCHANGED <<connection, control, playMode, shownMode, editing, queue, settings>>
    BY <1>6 DEF ReadSettings
  <2>2. Carries("mode")
    BY <1>6, NoWordCarries DEF NoWord
  <2>3. Asked => Asked'
    BY <1>0, <2>1, AskedStays
  <2> QED
    BY <1>2, <2>1, <2>2, <2>3 DEF Settled
<1>7. CASE \/ RunEvent \/ DropMessage \/ RequestPlay \/ PlayEvent \/ ExecuteCommand
           \/ SendRequest
  <2>1. Carries("mode")
    BY <1>7, NoWordCarries, RunEventCarries, PlayCarriesMode DEF NoWord
  <2>2. UNCHANGED <<connection, control, playMode, shownMode, stage, settings, editing>>
    BY <1>7 DEF RunEvent, DropMessage, RequestPlay, PlayEvent, ExecuteCommand,
       SendRequest
  <2>3. Asked => Asked'
    <3>1. CASE RunEvent \/ DropMessage \/ RequestPlay
      <4>1. queue # <<>> /\ queue' = Tail(queue)
        BY <3>1 DEF RunEvent, DropMessage, RequestPlay, Runs, EndsTask
      <4>2. Head(queue) \notin SetsOf(connection)
        <5>1. CASE RunEvent \/ RequestPlay
          BY <5>1 DEF RunEvent, RequestPlay, Runs, SetsOf
        <5>2. CASE DropMessage
          <6>1. IsMessage(Head(queue)) /\ ~Handled
            BY <5>2 DEF DropMessage, Runs, IsMessage
          <6> QED
            BY <4>1, <6>1, MessageHandled DEF SetsOf
        <5> QED
          BY <3>1, <5>1, <5>2
      <4> QED
        BY <1>0, <2>2, <4>1, <4>2, AskedStays
    <3>2. CASE ExecuteCommand
      <4>1. PICK e \in Tasks : e.kind = "event" /\ queue' = Append(queue, e)
        BY <3>2, QueuedTasks
      <4> QED
        BY <1>0, <2>2, <4>1, AskedStays
    <3>3. CASE SendRequest
      <4>1. PICK e \in Tasks : e.kind = "request" /\ queue' = Append(queue, e)
        BY <3>3, QueuedTasks
      <4> QED
        BY <1>0, <2>2, <4>1, AskedStays
    <3>4. CASE PlayEvent
      <4> DEFINE e == Event(delegates, Play(playing'))
      <4>1. queue' = IF delegates = 0 THEN queue ELSE Append(queue, e)
        BY <3>4 DEF PlayEvent
      <4>2. delegates # 0 => e \in Tasks /\ e.kind = "event"
        BY <3>4, QueuedTasks, WordFields
      <4> HIDE DEF e
      <4> QED
        BY <1>0, <2>2, <4>1, <4>2, AskedStays
    <3> QED
      BY <1>7, <3>1, <3>2, <3>3, <3>4
  <2> QED
    BY <1>2, <2>1, <2>2, <2>3 DEF Settled
<1>8. CASE InitialSync \/ AnnounceMode
  <2> DEFINE x == Mode(retrieved)
  <2>1. /\ stage \in {"syncing", "announcing"} /\ stage' = "idle"
        /\ playMode' = retrieved /\ editing = "idle" /\ QueuedModes = {}
        /\ UNCHANGED <<connection, editing, settings, queue, shownMode>>
        /\ control' \in {control, 0}
        /\ Fire(x) \/ (stage = "announcing" /\ retrieved = playMode /\ toRider' = toRider)
    BY <1>8 DEF InitialSync, AnnounceMode, Crosses
  <2>2. CASE ~Here'
    BY <1>1, <2>2
  <2>3. CASE Here'
    <3>1. Here /\ connection = model /\ retrieved = PackToMode(settings)
      BY <1>0, <2>1, <2>3 DEF Here, AtMode
    <3>2. CASE Fire(x)
      <4>1. x \in ToldWith("mode", retrieved) /\ x \in Told
        BY ToldAre, WordFields DEF ToldWith, ToldOf, LinkInv, LinkTypeOK
      <4>2. NoneIn(queue, EventsOf(c, "mode"))
        BY <2>1 DEF QueuedModes, NoneIn, EventsOf
      <4>3. /\ Tells(queue, Append(toRider, x), c, "mode", retrieved)
            /\ ~Clear(queue, Append(toRider, x), c, "mode")
        BY <1>0, <4>1, <4>2, TellsWord
      <4> HIDE DEF x
      <4>4. toRider' = Append(toRider, x)
        BY <1>0, <3>1, <3>2, <4>1, FireIs
      <4>5. Tells(queue', toRider', c, "mode", retrieved) /\ ~Clear(queue', toRider', c, "mode")
        BY <2>1, <4>3, <4>4
      <4> QED
        BY <2>1, <4>5 DEF ModeTold, Tells, Clear
    <3>3. CASE stage = "announcing" /\ retrieved = playMode /\ toRider' = toRider
      <4>1. /\ Tells(queue, toRider, c, "mode", playMode)
            /\ Clear(queue, toRider, c, "mode") => shownMode = playMode \/ Asked
        BY <2>1, <3>1, <3>3 DEF ModeTold, Settled
      <4>2. Asked => shownMode = playMode \/ Asked'
        <5>1. CASE NoneIn(queue, SetsOf(connection))
          BY <3>1, <3>3, <5>1 DEF Asked
        <5>2. CASE ~NoneIn(queue, SetsOf(connection))
          <6> SUFFICES ASSUME Asked PROVE Asked'
            OBVIOUS
          <6>1. ~NoneIn(queue, SetsOf(connection))'
            BY <2>1, <5>2 DEF NoneIn, SetsOf
          <6> QED
            BY <2>1, <6>1 DEF Asked, LastIn, SetsOf, SetsWith
        <5> QED
          BY <5>1, <5>2
      <4>3. /\ Tells(queue', toRider', c, "mode", playMode)
            /\ Clear(queue', toRider', c, "mode") => shownMode = playMode \/ Asked'
        BY <2>1, <3>3, <4>1, <4>2
      <4> QED
        BY <2>1, <3>3, <4>3 DEF ModeTold, Tells, Clear
    <3> QED
      BY <2>1, <3>2, <3>3
  <2> QED
    BY <2>2, <2>3
<1>9. CASE SetMode
  <2>1. /\ UNCHANGED <<connection, control, playMode, shownMode, editing>>
        /\ stage = "idle"
    BY <1>9 DEF SetMode, Runs
  <2>2. Carries("mode")
    BY <1>9, NoWordCarries DEF NoWord
  <2>3. Asked => Asked'
    BY <1>9, SetModeAsks
  <2> QED
    BY <1>2, <2>1, <2>2, <2>3 DEF Settled
<1>10. CASE SendMode
  <2>1. UNCHANGED <<connection, control, playMode, stage, editing>>
    BY <1>10 DEF SendMode
  <2>2. Carries("mode") /\ Asked'
    BY <1>10, NoWordCarries, SendModeAsks DEF NoWord
  <2>3. Here /\ Settled /\ editing # "queueing" => Tells(queue', toRider', c, "mode", playMode)
    BY <2>2 DEF Carries, ModeTold
  <2> QED
    BY <2>1, <2>2, <2>3 DEF ModeTold, Here, Settled, Tells
<1>11. CASE EditSettings
  <2>1. /\ UNCHANGED <<connection, control, playMode, shownMode, queue, stage>>
        /\ editing = "idle" /\ stage = "idle"
    BY <1>11 DEF EditSettings
  <2>2. Carries("mode")
    BY <1>11, NoWordCarries DEF NoWord
  <2>3. Asked => Asked'
    BY <1>0, <2>1, AskedStays
  <2> QED
    BY <1>2, <2>1, <2>2, <2>3 DEF Settled
<1>12. CASE CompareMode
  <2>1. /\ UNCHANGED <<connection, control, shownMode, queue, stage, settings>>
        /\ editing = "comparing"
        /\ editing' # "queueing" => playMode' = playMode
    BY <1>12 DEF CompareMode
  <2>2. Carries("mode")
    BY <1>12, NoWordCarries DEF NoWord
  <2>3. Asked => Asked'
    BY <1>0, <2>1, AskedStays
  <2>4. CASE editing' = "queueing"
    BY <2>4 DEF ModeTold
  <2>5. CASE editing' # "queueing"
    BY <1>2, <2>1, <2>2, <2>3, <2>5 DEF Settled
  <2> QED
    BY <2>4, <2>5
<1>13. CASE QueueMode
  <2> DEFINE e == Event(edited.control, Mode(edited.mode))
  <2>1. /\ UNCHANGED <<connection, control, playMode, shownMode, stage, settings, toRider>>
        /\ editing = "queueing" /\ queue' = Append(queue, e)
    BY <1>13 DEF QueueMode
  <2>2. e \in Tasks
    BY <1>13, QueuedTasks
  <2>3. /\ e.kind = "event" /\ e.control = edited.control
        /\ e.what.kind = "mode" /\ e.what.value = edited.mode
    BY WordFields
  <2> HIDE DEF e
  <2>4. CASE ~(Here /\ Settled)
    BY <2>1, <2>4 DEF ModeTold, Here, Settled
  <2>5. CASE Here /\ Settled
    <3>1. edited.control = c /\ edited.mode = playMode
      BY <2>1, <2>5 DEF AtMode, Here
    <3>2. e \in EventsWith(c, "mode", playMode)
      BY <2>2, <2>3, <3>1 DEF EventsWith, EventsOf
    <3>3. /\ Tells(Append(queue, e), toRider, c, "mode", playMode)
          /\ ~Clear(Append(queue, e), toRider, c, "mode")
      BY <1>0, <3>2, TellsWord
    <3>4. /\ Tells(queue', toRider', c, "mode", playMode)
          /\ ~Clear(queue', toRider', c, "mode")
      BY <2>1, <3>3
    <3> QED
      BY <2>1, <3>4 DEF ModeTold, Tells, Clear
  <2> QED
    BY <2>4, <2>5
<1>14. CASE Receive
  <2> DEFINE x == Head(toRider)
  <2>1. /\ toRider # <<>> /\ toRider' = Tail(toRider)
        /\ shownMode' = IF x.kind = "mode" THEN x.value ELSE shownMode
        /\ UNCHANGED <<connection, control, playMode, queue, stage, settings, editing>>
    BY <1>14 DEF Receive
  <2>2. \A v : Tells(queue, toRider, c, "mode", v) =>
          /\ Tells(queue, Tail(toRider), c, "mode", v)
          /\ Clear(queue, Tail(toRider), c, "mode") =>
               IF x.kind = "mode" THEN x.value = v ELSE Clear(queue, toRider, c, "mode")
    BY <1>0, <2>1, TellsWord
  <2> SUFFICES ASSUME Here, Settled, editing # "queueing"
               PROVE  /\ Tells(queue, toRider', c, "mode", playMode)
                      /\ Clear(queue, toRider', c, "mode")
                           => shownMode' = playMode \/ Asked'
    BY <2>1 DEF ModeTold, Here, Settled, Tells, Clear
  <2>3. /\ Tells(queue, toRider, c, "mode", playMode)
        /\ Clear(queue, toRider, c, "mode") => shownMode = playMode \/ Asked
    BY DEF ModeTold
  <2>4. x.kind # "mode" => (Asked => Asked')
    BY <1>0, <2>1, AskedStays
  <2> HIDE DEF x
  <2> QED
    BY <2>1, <2>2, <2>3, <2>4
<1> QED
  BY <1>3, <1>4, <1>5, <1>6, <1>7, <1>8, <1>9, <1>10, <1>11, <1>12, <1>13, <1>14
     DEF Next, Scheduler, Game, Rider

\* When nothing is under way the IDE shows the mode of the editor's settings,
\* whoever changed them last and through any number of connections, as long as
\* both threads were never at the mode at once; and the settings can be read
\* back from it when a number can stand for them.
THEOREM LinkShownMode == Spec => []ShownMode
<1>1. ASSUME Init PROVE ModeKept
  BY <1>1 DEF Init, ModeKept, AtMode, ModeTold, Here
<1>2. ASSUME LinkInv, Talk, ModeKept, [Next]_vars PROVE ModeKept'
  <2>1. CASE UNCHANGED vars
    <3>1. /\ UNCHANGED <<stale, crossed, connection, control, stage, retrieved, settings>>
          /\ UNCHANGED <<editing, edited, playMode, shownMode, queue, toRider>>
      BY <2>1 DEF vars, wire, scheduler, link, game, rider, history
    <3>2. AtMode => AtMode'
      BY <3>1 DEF AtMode, Here, Settled
    <3>3. Asked => Asked'
      BY <3>1 DEF Asked, LastIn, NoneIn, SetsOf, SetsWith
    <3>4. ModeTold => ModeTold'
      BY <3>1, <3>3 DEF ModeTold, Here, Settled, Tells, Clear
    <3> QED
      BY <1>2, <3>1, <3>2, <3>4 DEF ModeKept
  <2>2. CASE Next
    <3>1. ~crossed' => ~crossed
      <4>1. crossed' = (crossed \/ editing # "idle" \/ QueuedModes # {})
            \/ crossed' = (crossed \/ stage # "idle") \/ crossed' = crossed
        BY <2>2 DEF Next, Scheduler, Game, Rider, Connects, Disconnects, MakeModel,
           ReadSettings, InitialSync, LoseModel, RunEvent, DropMessage, SetMode,
           AnnounceMode, RequestPlay, PlayEvent, EditSettings, CompareMode, QueueMode,
           ExecuteCommand, SendMode, SendRequest, Receive, Crosses, history
      <4> QED
        BY <4>1
    <3>2. ~stale
      BY <2>2 DEF Next
    <3> QED
      BY <1>2, <2>2, <3>1, <3>2, AtModeStep, ModeToldStep DEF ModeKept
  <2> QED
    BY <1>2, <2>1, <2>2
<1>3. ASSUME LinkInv, Talk, ModeKept PROVE ShownMode
  <2> SUFFICES ASSUME Quiet, control # 0, ~crossed
               PROVE  /\ shownMode = PackToMode(settings)
                      /\ Packable(settings) => UnpackFromMode(shownMode) = settings
    BY DEF ShownMode
  <2>1. Len(queue) = 0 /\ Len(toRider) = 0 /\ ~stale /\ stage = "idle" /\ editing = "idle"
    BY DEF Quiet
  <2>2. Here
    <3>1. ~Lost
      BY <2>1 DEF Lost
    <3> QED
      BY <1>3, <3>1 DEF LinkInv, ModelAndControl, Here
  <2>3. Clear(queue, toRider, connection, "mode") /\ ~Asked
    BY <2>1 DEF Clear, NoneIn, Asked
  <2>4. shownMode = PackToMode(settings)
    BY <1>3, <2>1, <2>2, <2>3 DEF ModeKept, AtMode, ModeTold, Settled
  <2> QED
    BY <1>3, <2>4, SettingsComeBack DEF LinkInv, LinkTypeOK
<1> QED
  BY <1>1, <1>2, <1>3, LinkTalk, PTL DEF Spec
-----------------------------------------------------------------------------
(* The state the model settles in *)

\* With no task left the model counts as alive just if there is a connection.
Settles == queue = <<>> => (alive <=> connection # 0)

\* Whenever the scheduler has caught up, a connection has its model and a model
\* its connection, however many came and went meanwhile: AliveSettles needs only
\* that the scheduler does catch up.
THEOREM LinkSettles == Spec => []Settles
<1>1. ASSUME LinkInv, Talk PROVE Settles
  <2> SUFFICES ASSUME queue = <<>> PROVE alive <=> connection # 0
    BY DEF Settles
  <2>1. ~Lost /\ ~Announced
    BY DEF Lost, Announced
  <2>2. hooked => connection # 0
    BY <1>1 DEF LinkInv, LinkTypeOK
  <2> QED
    BY <1>1, <2>1, <2>2 DEF LinkInv, ModelAndControl, Talk, Posted
<1> QED
  BY <1>1, LinkTalk, PTL
=============================================================================
