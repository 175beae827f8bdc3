------------------------------- MODULE World -------------------------------
(***************************************************************************)
(* The listen-server session every other module runs in: the machines, the *)
(* connections, and the kinds of values the game logic tells apart.        *)
(*                                                                         *)
(* A machine and the one character it plays share a name.  Host is the     *)
(* listen server: its copy of an actor is the one with authority.          *)
(***************************************************************************)
EXTENDS Naturals, Sequences, FiniteSets

CONSTANTS
    Players,    \* the machines of the session, each playing one character
    Host,       \* the machine that is the listen server
    Items,      \* the items the tables can ever spawn
    Tables,     \* the chipping tables of the level
    Colors,     \* the orderable colours
    Shapes,     \* the orderable shapes
    Silver,     \* FColor::Silver, the colour of an unpainted item
    NoItem,     \* a null AItem*
    NoTable     \* no delegate bound

ItemInfo == [color : Colors \cup {Silver}, shape : Shapes]

ASSUME WorldAssumption ==
    /\ Host \in Players
    /\ NoItem \notin Items \cup ItemInfo
    /\ NoTable \notin Tables
    /\ Silver \notin Colors

Clients == Players \ {Host}

VARIABLES
    serverUp,   \* FALSE once the server process has died
    connected   \* the machines in the session, Host among them

worldVars == <<serverUp, connected>>

WorldInit ==
    /\ serverUp = TRUE
    /\ connected = {Host}

\* A client logs in; its copies of the actors are those of a fresh process.
Login(c) ==
    /\ serverUp
    /\ c \notin connected
    /\ connected' = connected \cup {c}
    /\ UNCHANGED serverUp

\* The connection of a client closes: it quit, or the server closed it.
Logout(c) ==
    /\ serverUp
    /\ c \in connected \ {Host}
    /\ connected' = connected \ {c}
    /\ UNCHANGED serverUp

\* An access through null or out of range ends the server process.
ServerDies ==
    /\ serverUp' = FALSE
    /\ UNCHANGED connected

WorldTypeOK ==
    /\ serverUp \in BOOLEAN
    /\ connected \subseteq Players
    /\ Host \in connected
=============================================================================
