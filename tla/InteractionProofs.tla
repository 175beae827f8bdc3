------------------------- MODULE InteractionProofs -------------------------
(***************************************************************************)
(* Theorems about interactions on one machine, for any characters, tables  *)
(* and other actors.                                                       *)
(***************************************************************************)
EXTENDS Interaction, TLAPS

\* Only the local player starts interactions: the other characters' overlap
\* handlers, which run here as well, find nobody else's mark on a table.
StartedLocally == \A t \in Tables : latestInteracted[t] \in {LocalChar, NoChar}

InteractionInv ==
    /\ TypeOK
    /\ CurrentIsOverlapped
    /\ NeverLockedOut
    /\ StartedLocally

\* What may become of the widgets, the input and the marks of the tables.
TablesMove ==
    \/ UNCHANGED tableVars
    \/ \E t \in Tables : EndInteraction(t)
    \/ \E t \in Tables : /\ latestInteracted' = [latestInteracted EXCEPT ![t] = LocalChar]
                         /\ widgets' = widgets \cup {t}
                         /\ uiOnly' = TRUE

LEMMA TablesStep ==
    ASSUME [Next]_vars
    PROVE  TablesMove
<1>1. ASSUME NEW p \in Characters, NEW a \in Actors,
             NotifyActorBeginOverlap(p, a) \/ NotifyActorEndOverlap(p, a)
      PROVE  TablesMove
  BY <1>1 DEF NotifyActorBeginOverlap, NotifyActorEndOverlap, OnInteractEnd, TablesMove
<1>2. CASE CheckInteract
  BY <1>2 DEF CheckInteract, OnInteract, TablesMove
<1>3. ASSUME NEW t \in Tables, OnConstructItem(t) \/ ConstructedItemChanges(t)
      PROVE  TablesMove
  BY <1>3 DEF OnConstructItem, ConstructedItemChanges, TablesMove
<1>4. CASE UNCHANGED vars
  BY <1>4 DEF vars, TablesMove
<1> QED
  BY <1>1, <1>2, <1>3, <1>4 DEF Next

LEMMA TablesKeep ==
    ASSUME InteractionInv, TablesMove
    PROVE  /\ latestInteracted' \in [Tables -> Characters \cup {NoChar}]
           /\ widgets' \subseteq Tables /\ uiOnly' \in BOOLEAN
           /\ NeverLockedOut' /\ StartedLocally'
<1> USE InteractionAssumption
<1> USE DEF InteractionInv, TypeOK, NeverLockedOut, StartedLocally
<1>1. CASE UNCHANGED tableVars
  BY <1>1 DEF tableVars
<1>2. ASSUME NEW t \in Tables, EndInteraction(t)
      PROVE  /\ latestInteracted' = latestInteracted
             /\ widgets' \subseteq Tables /\ uiOnly' = FALSE
  BY <1>2 DEF EndInteraction
<1>3. ASSUME NEW t \in Tables,
             latestInteracted' = [latestInteracted EXCEPT ![t] = LocalChar],
             widgets' = widgets \cup {t}, uiOnly' = TRUE
      PROVE  /\ latestInteracted' \in [Tables -> Characters \cup {NoChar}]
             /\ widgets' \subseteq Tables /\ widgets' # {} /\ StartedLocally'
  BY <1>3
<1> QED
  BY <1>1, <1>2, <1>3 DEF TablesMove

LEMMA OverlapsKeep ==
    ASSUME TypeOK, CurrentIsOverlapped, [Next]_vars
    PROVE  /\ overlapping' \in [Characters -> SUBSET Actors]
           /\ currentInteractable' \in [Characters -> Actors \cup {NoActor}]
           /\ filled' \subseteq Tables
           /\ CurrentIsOverlapped'
<1> USE DEF TypeOK, CurrentIsOverlapped
<1>1. ASSUME NEW p \in Characters, NEW a \in Actors, NotifyActorBeginOverlap(p, a)
      PROVE  /\ overlapping' = [overlapping EXCEPT ![p] = @ \cup {a}]
             /\ currentInteractable' = [currentInteractable EXCEPT ![p] = a]
             /\ filled' = filled
  BY <1>1 DEF NotifyActorBeginOverlap
<1>2. ASSUME NEW p \in Characters, NEW a \in Actors, NotifyActorEndOverlap(p, a)
      PROVE  /\ overlapping' = [overlapping EXCEPT ![p] = @ \ {a}]
             /\ currentInteractable' =
                  IF a = currentInteractable[p]
                  THEN [currentInteractable EXCEPT ![p] = NoActor]
                  ELSE currentInteractable
             /\ filled' = filled
  BY <1>2 DEF NotifyActorEndOverlap
<1>3. ASSUME CheckInteract \/ (\E t \in Tables : OnConstructItem(t))
             \/ (\E t \in Tables : ConstructedItemChanges(t)) \/ UNCHANGED vars
      PROVE  /\ UNCHANGED <<overlapping, currentInteractable>>
             /\ filled' \subseteq Tables
  BY <1>3 DEF CheckInteract, OnConstructItem, ConstructedItemChanges, vars
<1>4. CASE \E p \in Characters, a \in Actors : NotifyActorBeginOverlap(p, a)
  BY <1>1, <1>4
<1>5. CASE \E p \in Characters, a \in Actors : NotifyActorEndOverlap(p, a)
  <2>1. PICK p \in Characters, a \in Actors : NotifyActorEndOverlap(p, a)
    BY <1>5
  <2>2. CASE a = currentInteractable[p]
    BY <1>2, <2>1, <2>2
  <2>3. CASE a # currentInteractable[p]
    BY <1>2, <2>1, <2>3
  <2> QED
    BY <2>2, <2>3
<1>6. CASE ~(\E p \in Characters, a \in Actors :
               NotifyActorBeginOverlap(p, a) \/ NotifyActorEndOverlap(p, a))
  BY <1>3, <1>6 DEF Next
<1> QED
  BY <1>4, <1>5, <1>6

\* The inductive invariant of one machine's interactions.
THEOREM InteractionInvariant == Spec => []InteractionInv
<1>1. Init => InteractionInv
  BY InteractionAssumption
     DEF Init, InteractionInv, TypeOK, CurrentIsOverlapped, NeverLockedOut, StartedLocally
<1>2. InteractionInv /\ [Next]_vars => InteractionInv'
  <2> SUFFICES ASSUME InteractionInv, [Next]_vars PROVE InteractionInv'
    OBVIOUS
  <2>1. TypeOK /\ CurrentIsOverlapped
    BY DEF InteractionInv
  <2>2. /\ latestInteracted' \in [Tables -> Characters \cup {NoChar}]
        /\ widgets' \subseteq Tables /\ uiOnly' \in BOOLEAN
        /\ NeverLockedOut' /\ StartedLocally'
    BY TablesStep, TablesKeep
  <2>3. /\ overlapping' \in [Characters -> SUBSET Actors]
        /\ currentInteractable' \in [Characters -> Actors \cup {NoActor}]
        /\ filled' \subseteq Tables
        /\ CurrentIsOverlapped'
    BY <2>1, OverlapsKeep
  <2> QED
    BY <2>2, <2>3 DEF InteractionInv, TypeOK
<1> QED
  BY <1>1, <1>2, PTL DEF Spec

\* Type correctness of the interactions.
THEOREM InteractionTyped == Spec => []TypeOK
<1>1. InteractionInv => TypeOK
  BY DEF InteractionInv
<1> QED
  BY <1>1, InteractionInvariant, PTL

\* The Interact key never reaches an actor that the character has left.
THEOREM InteractionCurrentIsOverlapped == Spec => []CurrentIsOverlapped
<1>1. InteractionInv => CurrentIsOverlapped
  BY DEF InteractionInv
<1> QED
  BY <1>1, InteractionInvariant, PTL

\* The player always has game input or a widget to get it back with.
THEOREM InteractionNeverLockedOut == Spec => []NeverLockedOut
<1>1. InteractionInv => NeverLockedOut
  BY DEF InteractionInv
<1> QED
  BY <1>1, InteractionInvariant, PTL

\* The overlaps of other characters never close the local player's widget.
THEOREM InteractionOnlyStarterEnds == Spec => OnlyStarterEnds
<1> DEFINE Step ==
      \A p \in Characters \ {LocalChar}, a \in Actors :
        NotifyActorEndOverlap(p, a) => widgets' = widgets /\ uiOnly' = uiOnly
<1>1. InteractionInv => Step
  <2> SUFFICES ASSUME InteractionInv,
                      NEW p \in Characters \ {LocalChar}, NEW a \in Actors,
                      NotifyActorEndOverlap(p, a)
               PROVE  widgets' = widgets /\ uiOnly' = uiOnly
    OBVIOUS
  <2>1. ~(a \in Tables /\ latestInteracted[a] = p)
    BY InteractionAssumption DEF InteractionInv, StartedLocally
  <2> QED
    BY <2>1 DEF NotifyActorEndOverlap, OnInteractEnd, tableVars
<1>2. InteractionInv => [Step]_vars
  BY <1>1
<1> QED
  BY <1>2, InteractionInvariant, PTL DEF Spec, OnlyStarterEnds
=============================================================================
