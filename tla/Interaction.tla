---------------------------- MODULE Interaction ----------------------------
(***************************************************************************)
(* The interaction half of ACarpenterDemoCharacter on one machine: which   *)
(* actor a press of the Interact key goes to, and the interactions with    *)
(* chipping tables it begins and overlaps end.  Every character on the     *)
(* machine runs the overlap handlers; only the local one has a player.     *)
(***************************************************************************)
EXTENDS FiniteSets

CONSTANTS
    Characters,
    LocalChar,  \* the character played on this machine
    Tables,     \* the chipping tables
    Others,     \* interactable actors in which nothing begins or ends here
    NoActor,    \* a null AActor*
    NoChar      \* a null character

ASSUME InteractionAssumption ==
    /\ LocalChar \in Characters
    /\ NoChar \notin Characters
    /\ NoActor \notin Tables \cup Others

Actors == Tables \cup Others

VARIABLES
    overlapping,                \* [character -> the actors it overlaps]
    currentInteractable,        \* [character -> CurrentInteractableActor]
    latestInteracted,           \* [table -> its LatestInteractedLocalTPSChar]
    filled,                     \* the tables whose ConstructedItem is valid here
    widgets,                    \* the tables whose construct widget is shown
    uiOnly                      \* the player's input mode is UI only

tableVars == <<latestInteracted, widgets, uiOnly>>
vars == <<overlapping, currentInteractable, filled, tableVars>>

Init ==
    /\ overlapping = [p \in Characters |-> {}]
    /\ currentInteractable = [p \in Characters |-> NoActor]
    /\ latestInteracted = [t \in Tables |-> NoChar]
    /\ filled = {}
    /\ widgets = {}
    /\ uiOnly = FALSE

NotifyActorBeginOverlap(p, a) ==
    /\ a \notin overlapping[p]
    /\ overlapping' = [overlapping EXCEPT ![p] = @ \cup {a}]
    /\ currentInteractable' = [currentInteractable EXCEPT ![p] = a]
    /\ UNCHANGED <<filled, tableVars>>

EndInteractionKeepsInput(t) ==                                \* mutant
    /\ widgets' = widgets \ {t}
    /\ UNCHANGED <<latestInteracted, uiOnly>>

\* The widget is hidden and the input goes back to the game.
EndInteraction(t) ==
    /\ widgets' = widgets \ {t}
    /\ uiOnly' = FALSE
    /\ UNCHANGED latestInteracted

EndForAnybody(a, p) ==                                        \* mutant
    IF a \in Tables THEN EndInteraction(a) ELSE UNCHANGED tableVars

\* Only reset interaction if interaction ender is the starter.
OnInteractEnd(a, p) ==
    IF a \in Tables /\ latestInteracted[a] = p
    THEN EndInteraction(a)
    ELSE UNCHANGED tableVars

EndOverlapKeepsCurrent(p, a) ==                               \* mutant
    /\ a \in overlapping[p]
    /\ overlapping' = [overlapping EXCEPT ![p] = @ \ {a}]
    /\ IF a = currentInteractable[p] THEN OnInteractEnd(a, p)
                                     ELSE UNCHANGED tableVars
    /\ UNCHANGED <<filled, currentInteractable>>

NotifyActorEndOverlap(p, a) ==
    /\ a \in overlapping[p]
    /\ overlapping' = [overlapping EXCEPT ![p] = @ \ {a}]
    /\ IF a = currentInteractable[p]
       THEN /\ OnInteractEnd(a, p)
            /\ currentInteractable' = [currentInteractable EXCEPT ![p] = NoActor]
       ELSE UNCHANGED <<currentInteractable, tableVars>>
    /\ UNCHANGED filled

\* A table begins an interaction only if there is no constructed item.
OnInteract(a) ==
    IF a \in Tables \ filled
    THEN /\ latestInteracted' = [latestInteracted EXCEPT ![a] = LocalChar]
         /\ widgets' = widgets \cup {a}
         /\ uiOnly' = TRUE
    ELSE UNCHANGED tableVars

\* The Interact key: the game hears it unless the input is UI only.
CheckInteract ==
    /\ ~uiOnly
    /\ currentInteractable[LocalChar] # NoActor
    /\ OnInteract(currentInteractable[LocalChar])
    /\ UNCHANGED <<overlapping, currentInteractable, filled>>

\* A click on a shape of a shown widget: the interaction ends, whatever becomes
\* of the item.
OnConstructItem(t) ==
    /\ t \in widgets
    /\ EndInteraction(t)
    /\ UNCHANGED <<overlapping, currentInteractable, filled>>

\* A table's item is constructed or picked up by anybody.
ConstructedItemChanges(t) ==
    /\ filled' = IF t \in filled THEN filled \ {t} ELSE filled \cup {t}
    /\ UNCHANGED <<overlapping, currentInteractable, tableVars>>

Next ==
    \/ \E p \in Characters, a \in Actors :
         NotifyActorBeginOverlap(p, a) \/ NotifyActorEndOverlap(p, a)
    \/ CheckInteract
    \/ \E t \in Tables : OnConstructItem(t) \/ ConstructedItemChanges(t)

Spec == Init /\ [][Next]_vars

-----------------------------------------------------------------------------
(* Properties *)

\* Every variable has its type.
TypeOK ==
    /\ overlapping \in [Characters -> SUBSET Actors]
    /\ currentInteractable \in [Characters -> Actors \cup {NoActor}]
    /\ latestInteracted \in [Tables -> Characters \cup {NoChar}]
    /\ filled \subseteq Tables
    /\ widgets \subseteq Tables
    /\ uiOnly \in BOOLEAN

\* The Interact key never reaches an actor the character has left.
CurrentIsOverlapped ==
    \A p \in Characters :
        currentInteractable[p] \in overlapping[p] \cup {NoActor}

\* The player is never left without game input and without a widget to get it
\* back with, although every table sets the one input mode of the machine.
NeverLockedOut == uiOnly => widgets # {}

\* Another character that comes or goes never closes the player's widget, on
\* the host least of all, whose machine runs everybody's overlap handlers.
OnlyStarterEnds ==
    [][ \A p \in Characters \ {LocalChar}, a \in Actors :
          NotifyActorEndOverlap(p, a) => widgets' = widgets /\ uiOnly' = uiOnly ]_vars
=============================================================================
