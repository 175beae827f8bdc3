----------------------------- MODULE EditorLink -----------------------------
(***************************************************************************)
(* The editor's side of the link to the IDE: the connection's model        *)
(* (FRiderLinkModule) and the control of the play session through it       *)
(* (FRiderGameControl).                                                    *)
(*                                                                         *)
(* Threads: the wire's, which sees connections come and go; the scheduler's*)
(* single one, which runs queue and handles what the IDE sends; the game's,*)
(* where the user plays and edits the settings.  What the scheduler's own  *)
(* thread does with the model it does at once, the others queue it.        *)
(***************************************************************************)
EXTENDS Naturals, Sequences

CONSTANTS
    UserSettings,       \* the play settings the user may choose
    RiderModes,         \* the modes the IDE may send
    MaxConnections,     \* bound: connections
    MaxMoves            \* bound: what the user and the IDE do

-----------------------------------------------------------------------------
(* Play settings and the number that stands for them *)

PlayModes ==
    {"InViewport", "InMobilePreview", "InTargetedMobilePreview",
     "InEditorFloating", "InVR", "InNewProcess", "Simulate", "InVulkanPreview"}

PlayModeToInt(m) ==
    CASE m = "InMobilePreview" \/ m = "InTargetedMobilePreview" -> 1
      [] m = "InEditorFloating" -> 2
      [] m = "InVR" -> 3
      [] m = "InNewProcess" -> 4
      [] m = "Simulate" -> 5
      [] m = "InVulkanPreview" -> 6
      [] OTHER -> 0

PlayModeFromInt(n) ==
    CASE n = 1 -> "InMobilePreview"
      [] n = 2 -> "InEditorFloating"
      [] n = 3 -> "InVR"
      [] n = 4 -> "InNewProcess"
      [] n = 5 -> "Simulate"
      [] n = 6 -> "InVulkanPreview"
      [] OTHER -> "InViewport"

\* The editor's own setting takes up to 64 players.
PlaySettings ==
    [PlayMode : PlayModes, NumberOfClients : 1 .. 64,
     bNetDedicated : BOOLEAN, bSpawnAtPlayerStart : BOOLEAN]

Bit(b, weight) == IF b THEN weight ELSE 0
HasBit(mode, weight) == (mode \div weight) % 2 = 1

PackWithoutSpawn(s) ==                                        \* mutant
    s.NumberOfClients - 1 + Bit(s.bNetDedicated, 8)
    + 16 * PlayModeToInt(s.PlayMode)

PackToMode(s) ==
    s.NumberOfClients - 1 + Bit(s.bSpawnAtPlayerStart, 4)
    + Bit(s.bNetDedicated, 8) + 16 * PlayModeToInt(s.PlayMode)

UnpackFromMode(mode) ==
    [PlayMode            |-> PlayModeFromInt((mode \div 16) % 8),
     NumberOfClients     |-> (mode % 4) + 1,
     bNetDedicated       |-> HasBit(mode, 8),
     bSpawnAtPlayerStart |-> HasBit(mode, 4)]

\* The settings a number can stand for.
Packable(s) == s.NumberOfClients <= 4 /\ s.PlayMode # "InTargetedMobilePreview"

ASSUME LinkAssumption ==
    /\ UserSettings \subseteq PlaySettings
    /\ RiderModes \subseteq 0 .. 111
    /\ {MaxConnections, MaxMoves} \subseteq Nat

-----------------------------------------------------------------------------

None == 1000        \* no mode: the IDE was told none

VARIABLES
    connection,     \* the connection the wire has, 0 without one
    connections,    \* how many there were
    hooked,         \* its end will be queued
    queue,          \* the scheduler's tasks
    stage,          \* where its thread is in a constructor or a handler
    retrieved,      \* the mode of the settings it read there
    alive,          \* RdIsModelAlive
    model,          \* the connection EditorModel was made for, or 0
    control,        \* the connection GameControl was made for, or 0
    delegates,      \* the one whose delegates are registered, or 0
    playMode,       \* GameControl's playMode
    settings,       \* the editor's play settings
    playing,        \* the state of the play session
    editing,        \* where the game's thread is in OnObjectPropertyChanged
    edited,         \* the mode it read there, and the control it is for
    gameTasks,      \* AsyncTasks for the game's thread
    toRider,        \* what was fired on the connection and not received
    shownMode,      \* the mode the IDE knows
    shownPlay,      \* the play state the IDE was told
    open,           \* the requests the IDE waits for
    moves,          \* how often the user or the IDE did something
    crossed,        \* history: both threads were at the mode at once
    stale           \* history: a deleted control was used

wire      == <<connection, connections, hooked>>
scheduler == <<queue, stage, retrieved>>
link      == <<alive, model, control, delegates>>
game      == <<playing, editing, edited, gameTasks>>
rider     == <<shownMode, shownPlay, open>>
history   == <<crossed, stale>>
vars == <<wire, scheduler, link, playMode, settings, game, toRider, rider,
          moves, history>>

Init ==
    /\ connection = 0 /\ connections = 0 /\ hooked = FALSE
    /\ queue = <<>> /\ stage = "idle" /\ retrieved = 0
    /\ alive = FALSE /\ model = 0 /\ control = 0 /\ delegates = 0
    /\ playMode = 0
    /\ settings \in UserSettings
    /\ playing = "Idle"
    /\ editing = "idle" /\ edited = [control |-> 0, mode |-> 0]
    /\ gameTasks = <<>>
    /\ toRider = <<>>
    /\ shownMode = None /\ shownPlay = "Unknown" /\ open = {} /\ moves = 0
    /\ crossed = FALSE /\ stale = FALSE

Moves == moves < MaxMoves /\ moves' = moves + 1

Mode(m)  == [kind |-> "mode", value |-> m]
Play(p)  == [kind |-> "play", value |-> p]
Reply(r) == [kind |-> "reply", value |-> r]

\* A signal of a model whose connection has ended throws: nothing is sent.
Fire(what) ==
    toRider' = IF connection = model THEN Append(toRider, what) ELSE toRider

\* ScheduleModelAction from another thread than the scheduler's.  The control c
\* is sound while it is complete and its connection goes on.
Event(c, what) ==
    [kind |-> "event", control |-> c, what |-> what,
     sound |-> connection = c /\ stage \notin {"subscribed", "syncing"}]

QueuedModes == {k \in 1 .. Len(queue) :
              queue[k].kind = "event" /\ queue[k].what.kind = "mode"}

-----------------------------------------------------------------------------
(* The wire's thread *)

Connects ==
    /\ connection = 0
    /\ connections < MaxConnections
    /\ connections' = connections + 1
    /\ connection' = connections'
    /\ queue' = Append(queue, [kind |-> "connected",
                               connection |-> connection'])
    /\ UNCHANGED <<hooked, stage, retrieved, link, playMode, settings, game,
                   toRider, rider, moves, history>>

EndsUnseen ==                                                 \* mutant
    /\ connection # 0
    /\ connection' = 0
    /\ toRider' = <<>>
    /\ shownMode' = None /\ shownPlay' = "Unknown" /\ open' = {}
    /\ UNCHANGED <<connections, hooked, scheduler, link, playMode, settings,
                   game, moves, history>>

EndOvertakes ==                                               \* mutant
    /\ connection # 0
    /\ connection' = 0
    /\ hooked' = FALSE
    /\ queue' = IF hooked THEN <<[kind |-> "lost"]>> \o queue ELSE queue
    /\ toRider' = <<>>
    /\ shownMode' = None /\ shownPlay' = "Unknown" /\ open' = {}
    /\ UNCHANGED <<connections, stage, retrieved, link, playMode, settings,
                   game, moves, history>>

\* The lifetime of the connection ends, with the actions added to it.
Disconnects ==
    /\ connection # 0
    /\ connection' = 0
    /\ hooked' = FALSE
    /\ queue' = IF hooked THEN Append(queue, [kind |-> "lost"]) ELSE queue
    /\ toRider' = <<>>
    /\ shownMode' = None /\ shownPlay' = "Unknown" /\ open' = {}
    /\ UNCHANGED <<connections, stage, retrieved, link, playMode, settings,
                   game, moves, history>>

-----------------------------------------------------------------------------
(* The scheduler's thread *)

Runs(kind) == stage = "idle" /\ queue # <<>> /\ Head(queue).kind = kind
EndsTask == queue' = Tail(queue)

MakesDespiteEnd ==                                            \* mutant
    /\ Runs("connected")
    /\ model' = Head(queue).connection
    /\ hooked' = (connection = model')
    /\ alive' = TRUE
    /\ control' = model' /\ delegates' = model'
    /\ stage' = "subscribed"
    /\ EndsTask
    /\ UNCHANGED <<connection, connections, retrieved, playMode, settings,
                   game, toRider, rider, moves, history>>

\* A new EditorModel.  On a lifetime that has ended connect() or add_action
\* throws, and the task ends there.  RdIsModelAlive makes a GameControl, which
\* adds its delegates while its playMode is not initialised.
MakeModel ==
    /\ Runs("connected")
    /\ model' = Head(queue).connection
    /\ IF connection = model'
       THEN /\ hooked' = TRUE
            /\ alive' = TRUE
            /\ control' = model' /\ delegates' = model'
            /\ playMode' \in {PackToMode(s) : s \in UserSettings}
            /\ stage' = "subscribed"
       ELSE UNCHANGED <<hooked, alive, control, delegates, playMode, stage>>
    /\ EndsTask
    /\ UNCHANGED <<connection, connections, retrieved, settings, game, toRider,
                   rider, moves, history>>

ReadSettings ==
    /\ stage \in {"subscribed", "applied"}
    /\ retrieved' = PackToMode(settings)
    /\ stage' = IF stage = "subscribed" THEN "syncing" ELSE "announcing"
    /\ UNCHANGED <<wire, queue, link, playMode, settings, game, toRider, rider,
                   moves, history>>

Crosses == crossed' = (crossed \/ editing # "idle" \/ QueuedModes # {})

\* Initial sync.  When the connection has ended meanwhile fire() throws out of
\* the constructor, whose object is freed and whose delegates stay.
InitialSync ==
    /\ stage = "syncing"
    /\ stage' = "idle"
    /\ playMode' = retrieved
    /\ Fire(Mode(retrieved))
    /\ control' = IF connection = model THEN control ELSE 0
    /\ Crosses
    /\ UNCHANGED <<wire, queue, retrieved, alive, model, delegates, settings,
                   game, rider, moves, stale>>

LosesAtOnce ==                                                \* mutant
    /\ Runs("lost")
    /\ control' = 0
    /\ EndsTask
    /\ UNCHANGED <<wire, stage, retrieved, alive, model, delegates, playMode,
                   settings, game, toRider, rider, moves, history>>

\* RdIsModelAlive.set(false): the delegates are removed, the control deleted.
LoseModel ==
    /\ Runs("lost")
    /\ alive' = FALSE
    /\ control' = 0 /\ delegates' = 0
    /\ EndsTask
    /\ UNCHANGED <<wire, stage, retrieved, model, playMode, settings, game,
                   toRider, rider, moves, history>>

\* An action of GameControl queued by the game's thread.
RunEvent ==
    /\ Runs("event")
    /\ LET e == Head(queue)
       IN  IF control = e.control
           THEN Fire(e.what) /\ UNCHANGED stale
           ELSE stale' = TRUE /\ UNCHANGED toRider
    /\ EndsTask
    /\ UNCHANGED <<wire, stage, retrieved, link, playMode, settings, game,
                   rider, moves, crossed>>

\* A message of a connection that has ended finds no handler any more.
Handled == control # 0 /\ Head(queue).connection = control
           /\ connection = control

DropMessage ==
    /\ Runs("setMode") \/ Runs("request")
    /\ ~Handled
    /\ EndsTask
    /\ UNCHANGED <<wire, stage, retrieved, link, playMode, settings, game,
                   toRider, rider, moves, history>>

\* playModeFromRider: UpdateSettings.
SetMode ==
    /\ Runs("setMode") /\ Handled
    /\ settings' = UnpackFromMode(Head(queue).mode)
    /\ stage' = "applied"
    /\ EndsTask
    /\ UNCHANGED <<wire, retrieved, link, playMode, game, toRider, rider,
                   moves, history>>

\* Its PostEditChange reaches OnObjectPropertyChanged on this thread.
AnnounceMode ==
    /\ stage = "announcing"
    /\ stage' = "idle"
    /\ playMode' = retrieved
    /\ IF retrieved = playMode THEN UNCHANGED toRider
       ELSE Fire(Mode(retrieved))
    /\ Crosses
    /\ UNCHANGED <<wire, queue, retrieved, link, settings, game, rider, moves,
                   stale>>

RefusesSilently ==                                            \* mutant
    /\ Runs("request") /\ Handled
    /\ \/ UNCHANGED gameTasks
       \/ gameTasks' = Append(gameTasks, [control |-> control,
                                          id |-> Head(queue).id])
    /\ EndsTask
    /\ UNCHANGED <<wire, stage, retrieved, link, playMode, settings, playing,
                   editing, edited, toRider, rider, moves, history>>

\* RequestPlayWorldCommand: refuse at once, or ask the game's thread.
RequestPlay ==
    /\ Runs("request") /\ Handled
    /\ \/ /\ Fire(Reply(Head(queue).id))
          /\ UNCHANGED gameTasks
       \/ /\ gameTasks' = Append(gameTasks, [control |-> control,
                                             id |-> Head(queue).id])
          /\ UNCHANGED toRider
    /\ EndsTask
    /\ UNCHANGED <<wire, stage, retrieved, link, playMode, settings, playing,
                   editing, edited, rider, moves, history>>

Scheduler ==
    \/ MakeModel \/ ReadSettings \/ InitialSync \/ LoseModel
    \/ RunEvent \/ DropMessage \/ SetMode \/ AnnounceMode \/ RequestPlay

-----------------------------------------------------------------------------
(* The game's thread *)

PlayFirst ==                                                  \* mutant
    /\ editing = "idle"
    /\ Moves
    /\ playing' \in {"Idle", "Play", "Pause"} \ {playing}
    /\ queue' = IF delegates = 0 THEN queue
                ELSE <<Event(delegates, Play(playing'))>> \o queue
    /\ UNCHANGED <<wire, stage, retrieved, link, playMode, settings, editing,
                   edited, gameTasks, toRider, rider, history>>

PlayEvent ==
    /\ editing = "idle"
    /\ Moves
    /\ playing' \in {"Idle", "Play", "Pause"} \ {playing}
    /\ queue' = IF delegates = 0 THEN queue
                ELSE Append(queue, Event(delegates, Play(playing')))
    /\ UNCHANGED <<wire, stage, retrieved, link, playMode, settings, editing,
                   edited, gameTasks, toRider, rider, history>>

EditSettings ==
    /\ editing = "idle"
    /\ Moves
    /\ settings' \in UserSettings
    /\ edited' = [control |-> delegates, mode |-> PackToMode(settings')]
    /\ editing' = IF delegates = 0 THEN "idle" ELSE "comparing"
    /\ crossed' = (crossed \/ stage # "idle")
    /\ UNCHANGED <<wire, scheduler, link, playMode, playing, gameTasks,
                   toRider, rider, stale>>

\* OnObjectPropertyChanged compares with the mode it last told the IDE.
CompareMode ==
    /\ editing = "comparing"
    /\ editing' = IF edited.mode = playMode THEN "idle" ELSE "queueing"
    /\ playMode' = edited.mode
    /\ stale' = (control # edited.control)
    /\ UNCHANGED <<wire, scheduler, link, settings, playing, edited, gameTasks,
                   toRider, rider, moves, crossed>>

QueueMode ==
    /\ editing = "queueing"
    /\ editing' = "idle"
    /\ queue' = Append(queue, Event(edited.control, Mode(edited.mode)))
    /\ UNCHANGED <<wire, stage, retrieved, link, playMode, settings, playing,
                   edited, gameTasks, toRider, rider, moves, history>>

\* The AsyncTask of a request: run the command and send the result.
ExecuteCommand ==
    /\ editing = "idle"
    /\ gameTasks # <<>>
    /\ gameTasks' = Tail(gameTasks)
    /\ queue' = Append(queue, Event(Head(gameTasks).control,
                                   Reply(Head(gameTasks).id)))
    /\ UNCHANGED <<wire, stage, retrieved, link, playMode, settings, playing,
                   editing, edited, toRider, rider, moves, history>>

Game == PlayEvent \/ EditSettings \/ CompareMode \/ QueueMode \/ ExecuteCommand

-----------------------------------------------------------------------------
(* The IDE *)

SendMode ==
    /\ connection # 0
    /\ Moves
    /\ \E m \in RiderModes :
         /\ queue' = Append(queue, [kind |-> "setMode", mode |-> m,
                                    connection |-> connection])
         /\ shownMode' = m
    /\ UNCHANGED <<wire, stage, retrieved, link, playMode, settings, game,
                   toRider, shownPlay, open, history>>

SendRequest ==
    /\ connection # 0
    /\ Moves
    /\ queue' = Append(queue, [kind |-> "request", id |-> moves',
                               connection |-> connection])
    /\ open' = open \cup {moves'}
    /\ UNCHANGED <<wire, stage, retrieved, link, playMode, settings, game,
                   toRider, shownMode, shownPlay, history>>

Receive ==
    /\ toRider # <<>>
    /\ toRider' = Tail(toRider)
    /\ LET what == Head(toRider)
       IN  /\ shownMode' = IF what.kind = "mode" THEN what.value ELSE shownMode
           /\ shownPlay' = IF what.kind = "play" THEN what.value ELSE shownPlay
           /\ open' = IF what.kind = "reply" THEN open \ {what.value} ELSE open
    /\ UNCHANGED <<wire, scheduler, link, playMode, settings, game, moves,
                   history>>

Rider == SendMode \/ SendRequest \/ Receive

\* Nothing is said of what follows the use of a deleted control.
Next ==
    /\ ~stale
    /\ Connects \/ Disconnects \/ Scheduler \/ Game \/ Rider

Spec == Init /\ [][Next]_vars

\* Every thread goes on while it can.
Fairness ==
    /\ WF_vars(~stale /\ Scheduler)
    /\ WF_vars(~stale /\ (CompareMode \/ QueueMode \/ ExecuteCommand))
    /\ WF_vars(~stale /\ Receive)

FairSpec == Spec /\ Fairness

-----------------------------------------------------------------------------
(* Properties *)

Connections == 1 .. MaxConnections
Ids == 1 .. MaxMoves
ModeNumbers == 0 .. 255

Told ==
    [kind : {"mode"}, value : ModeNumbers]
    \cup [kind : {"play"}, value : {"Idle", "Play", "Pause"}]
    \cup [kind : {"reply"}, value : Ids]

Tasks ==
    [kind : {"connected"}, connection : Connections]
    \cup [kind : {"lost"}]
    \cup [kind : {"setMode"}, mode : RiderModes, connection : Connections]
    \cup [kind : {"request"}, id : Ids, connection : Connections]
    \cup [kind : {"event"}, control : Connections, what : Told, sound : BOOLEAN]

\* The type invariant: of RiderLink.cpp:49-95 and RiderGameControl.cpp:316-470,
\* what each task carries and which numbers each variable holds.
LinkTypeOK ==
    /\ connections \in 0 .. MaxConnections /\ connection \in {0, connections}
    /\ hooked \in BOOLEAN /\ (hooked => connection # 0)
    /\ queue \in Seq(Tasks)
    /\ stage \in {"idle", "subscribed", "syncing", "applied", "announcing"}
    /\ {retrieved, playMode} \subseteq ModeNumbers
    /\ alive \in BOOLEAN
    /\ {model, control, delegates} \subseteq 0 .. MaxConnections
    /\ settings \in PlaySettings
    /\ playing \in {"Idle", "Play", "Pause"}
    /\ editing \in {"idle", "comparing", "queueing"}
    /\ edited \in [control : 0 .. MaxConnections, mode : ModeNumbers]
    /\ editing # "idle" => edited.control # 0
    /\ gameTasks \in Seq([control : Connections, id : Ids])
    /\ moves \in 0 .. MaxMoves
    /\ stale \in BOOLEAN

Lost == \E k \in 1 .. Len(queue) : queue[k].kind = "lost"

\* The model counts as alive just while its connection goes on or the task that
\* ends it is queued (RiderLink.cpp:76-84): no way out of a connection leaves
\* it alive for ever, and no task of an old connection ends a new model.
AliveWhileConnected ==
    alive <=> model # 0 /\ (Lost \/ (hooked /\ connection = model))

\* A control that exists is the one of the model that exists, and both are
\* alive: its reference Model is never one to a freed EditorModel.
ControlHasModel == control # 0 => alive /\ control = model

\* RiderLink.cpp:101-102: "RdProperty<bool> and change it before creating new
\* RdEditorModel": a model is replaced only after it stopped to be alive.
NewModelWhileDead == [][model' # model => ~alive]_vars

Quiet ==
    /\ queue = <<>> /\ stage = "idle" /\ editing = "idle"
    /\ gameTasks = <<>> /\ toRider = <<>>
    /\ ~stale

\* When nothing is under way the IDE knows the mode of the editor's settings,
\* whoever changed them last and however often the connection was lost; unless
\* both threads were at the mode at once, RiderGameControl.cpp:362-378.
ShownMode ==
    Quiet /\ control # 0 /\ ~crossed =>
        /\ shownMode = PackToMode(settings)
        /\ Packable(settings) => UnpackFromMode(shownMode) = settings

\* When nothing is under way the play state that the IDE was last told on this
\* connection is the editor's, RiderGameControl.cpp:325-360.
ShownPlay ==
    Quiet /\ control # 0 => shownPlay \in {"Unknown", playing}

\* When nothing is under way every request of this connection was answered,
\* RiderGameControl.cpp:282-305.
RequestsAnswered == Quiet /\ control # 0 => open = {}

\* A deleted control is used only by an event that came when its connection had
\* ended or its constructor was not done, or by a comparison its end overtook:
\* an action queued before the end is run before the control is deleted.
OnlyUnsoundDangles ==
    [][stale' => \/ Runs("event") /\ ~Head(queue).sound
                 \/ editing = "comparing"]_vars

\* The model is alive again and again just when there is a connection:
\* connections that follow each other at once leave it neither dead nor stale.
AliveSettles == []<>(stale \/ (alive <=> connection # 0))
=============================================================================
