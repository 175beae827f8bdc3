----------------------------- MODULE GameProofs -----------------------------
(***************************************************************************)
(* The game is made of the store and the carrying of items and nothing     *)
(* else touches them, so every theorem about either holds in the game; and *)
(* a table always hears of the item it holds.                              *)
(***************************************************************************)
EXTENDS CarpenterDemo, StoreProofs, CarryProofs

CallTypeOK ==
    /\ calls \in [Clients -> Seq(Call)]
    /\ delivers \in [Clients -> Nat]

\* What a step of the game does to the store, the items and the tables.
ActorStep ==
    \/ \E p \in Players, i \in Items : PickUp(p, i)
    \/ \E p \in Players, color \in Colors : ChangeColorItem(p, color)
    \/ \E p \in Players : DeliverItem(p)
    \/ \E t \in Tables, shape \in Shapes : ConstructItem(t, shape)
    \/ \E c \in Clients : Disconnect(c)
    \/ \E c \in Clients : StoreLogin(c) /\ UNCHANGED <<carryOwn, tableOwn>>
    \/ StoreSteps
    \/ ActorSteps
    \/ UNCHANGED <<worldVars, storeOwn, carryOwn, tableOwn>>

LEMMA CallsStep ==
    ASSUME CallTypeOK, [Next]_vars
    PROVE  CallTypeOK'
<1> USE DEF CallTypeOK
<1>1. ASSUME NEW c \in Clients, NEW call \in Call, Send(c, call)
      PROVE  CallTypeOK'
  BY <1>1 DEF Send
<1>2. ASSUME NEW c \in Clients, SendDeliver(c)
      PROVE  CallTypeOK'
  BY <1>2 DEF SendDeliver
<1>3. ASSUME NEW c \in Clients, calls[c] # <<>>,
             calls' = [calls EXCEPT ![c] = Tail(@)], UNCHANGED delivers
      PROVE  CallTypeOK'
  BY <1>3
<1>4. ASSUME NEW c \in Clients, Hangup(c)
      PROVE  CallTypeOK'
  <2>1. <<>> \in Seq(Call)
    OBVIOUS
  <2> QED
    BY <1>4, <2>1 DEF Hangup
<1>5. ASSUME NEW c \in Clients, Receive(c)
      PROVE  CallTypeOK'
  BY <1>3, <1>4, <1>5 DEF Receive
<1>6. ASSUME NEW c \in Clients, Lose(c)
      PROVE  CallTypeOK'
  BY <1>3, <1>6 DEF Lose
<1>7. ASSUME NEW c \in Clients, ReceiveDeliver(c)
      PROVE  CallTypeOK'
  BY <1>7 DEF ReceiveDeliver
<1>8. ASSUME UNCHANGED callVars
      PROVE  CallTypeOK'
  BY <1>8 DEF callVars
<1>9. CASE UNCHANGED vars
  BY <1>8, <1>9 DEF vars
<1>10. CASE Next
  BY <1>1, <1>2, <1>4, <1>5, <1>6, <1>7, <1>8, <1>10
     DEF Next, HostCalls, Join, Leave, StoreSteps, ActorSteps
<1> QED
  BY <1>9, <1>10

\* The fields of a call under way are those its sender put there.
LEMMA CallFields ==
    ASSUME NEW call \in Call
    PROVE  /\ call.rpc = "Server_PickupItem" => call.item \in Items
           /\ call.rpc = "Server_ChangeColorItem" => call.color \in Colors
           /\ call.rpc = "Server_ChippingTable_ConstructItem"
                => call.table \in Tables /\ call.shape \in Shapes
BY DEF Call

LEMMA NextIsActorStep ==
    ASSUME CallTypeOK, [Next]_vars
    PROVE  ActorStep
<1> USE WorldAssumption
<1>1. CASE HostCalls
  BY <1>1 DEF HostCalls, ActorStep
<1>2. ASSUME NEW c \in Clients, Receive(c)
      PROVE  ActorStep
  <2> DEFINE call == Head(calls[c])
  <2>1. call \in Call
    BY <1>2 DEF Receive, CallTypeOK
  <2> HIDE DEF call
  <2>2. c \in Players
    BY DEF Clients
  <2>3. \/ call.rpc = "Server_PickupItem"
             /\ (PickUp(c, call.item) \/ Disconnect(c))
        \/ call.rpc = "Server_ChangeColorItem" /\ ChangeColorItem(c, call.color)
        \/ call.rpc = "Server_ChippingTable_ConstructItem"
             /\ ConstructItem(call.table, call.shape)
    BY <1>2 DEF Receive, call
  <2> QED
    BY <2>1, <2>2, <2>3, CallFields DEF ActorStep
<1>3. ASSUME NEW c \in Clients,
             ReceiveDeliver(c) \/ Join(c) \/ Leave(c)
      PROVE  ActorStep
  BY <1>3 DEF ReceiveDeliver, Join, Leave, ActorStep, Clients
<1>4. ASSUME NEW c \in Clients,
             (\E call \in Call : Send(c, call)) \/ SendDeliver(c) \/ Lose(c)
      PROVE  ActorStep
  BY <1>4 DEF Send, SendDeliver, Lose, storeVars, ActorStep
<1>5. CASE StoreSteps \/ ActorSteps \/ UNCHANGED vars
  BY <1>5 DEF ActorStep, vars
<1> QED
  BY <1>1, <1>2, <1>3, <1>4, <1>5 DEF Next

LEMMA ActorStepIsCarryStep ==
    ASSUME ActorStep
    PROVE  [CarryNext]_carryVars
<1> USE DEF carryVars
<1>1. ASSUME NEW p \in Players, NEW i \in Items, PickUp(p, i)
      PROVE  CarryNext
  BY <1>1 DEF PickUp, CarryNext
<1>2. ASSUME NEW p \in Players, NEW color \in Colors, ChangeColorItem(p, color)
      PROVE  [CarryNext]_carryVars
  BY <1>2 DEF ChangeColorItem, CarryNext
<1>3. ASSUME NEW p \in Players, DeliverItem(p)
      PROVE  [CarryNext]_carryVars
  <2>1. CASE serverUp'
    BY <1>3, <2>1 DEF DeliverItem, CarryNext
  <2>2. CASE ~serverUp'
    <3>1. UNCHANGED carryOwn /\ serverUp
      BY <1>3, <2>2 DEF DeliverItem, CollectOrder
    <3>2. ServerDies
      BY <1>3, <2>2, <3>1 DEF DeliverItem, CollectOrder, CollectFromEmpty,
                              CollectNoItem, CollectItem, worldVars
    <3> QED
      BY <3>1, <3>2 DEF CarryServerDies, CarryNext
  <2> QED
    BY <2>1, <2>2
<1>4. ASSUME NEW t \in Tables, NEW shape \in Shapes, ConstructItem(t, shape)
      PROVE  CarryNext
  BY <1>4 DEF ConstructItem, CarryNext
<1>5. ASSUME NEW c \in Clients, Disconnect(c)
      PROVE  CarryNext
  BY <1>5 DEF Disconnect, StoreLogout, CarryLogout, CarryNext
<1>6. ASSUME NEW c \in Clients, StoreLogin(c), UNCHANGED carryOwn
      PROVE  CarryNext
  BY <1>6 DEF StoreLogin, CarryLogin, CarryNext
<1>7. ASSUME StoreSteps
      PROVE  UNCHANGED carryVars
  BY <1>7 DEF StoreSteps, BeginPlay, ConstructOrderBox, RequestOrder, ReplicateStore
<1>8. ASSUME ActorSteps
      PROVE  [CarryNext]_carryVars
  BY <1>8 DEF ActorSteps, CarryNext
<1> QED
  BY <1>1, <1>2, <1>3, <1>4, <1>5, <1>6, <1>7, <1>8 DEF ActorStep

LEMMA ActorStepIsStoreStep ==
    ASSUME CarryInv, ActorStep
    PROVE  [StoreNext]_storeVars
<1> USE DEF storeVars
<1>1. ASSUME NEW p \in Players, NEW i \in Items, PickUp(p, i)
      PROVE  [StoreNext]_storeVars
  BY <1>1 DEF PickUp, Server_PickupItem, StoreNext
<1>2. ASSUME NEW p \in Players, NEW color \in Colors, ChangeColorItem(p, color)
      PROVE  UNCHANGED storeVars
  BY <1>2 DEF ChangeColorItem, SetColor, carryVars
<1>3. ASSUME NEW p \in Players, DeliverItem(p)
      PROVE  StoreNext
  <2>1. HasItem(p) => itemInfo[carriedItem[p]] \in ItemInfo
    BY DEF CarryInv, CarryTypeOK, CarriedIsTaken
  <2> QED
    BY <1>3, <2>1 DEF DeliverItem, StoreNext
<1>4. ASSUME NEW t \in Tables, NEW shape \in Shapes, ConstructItem(t, shape)
      PROVE  StoreNext
  BY <1>4 DEF ConstructItem, StoreNext
<1>5. ASSUME NEW c \in Clients, Disconnect(c) \/ StoreLogin(c)
      PROVE  StoreNext
  BY <1>5 DEF Disconnect, StoreNext
<1>6. CASE StoreSteps
  BY <1>6 DEF StoreSteps, StoreNext
<1>7. ASSUME ActorSteps
      PROVE  UNCHANGED storeVars
  BY <1>7 DEF ActorSteps, ReplicateItem, ReplicateDestroyed, ReplicateCarried,
              carryVars
<1> QED
  BY <1>1, <1>2, <1>3, <1>4, <1>5, <1>6, <1>7 DEF ActorStep

LEMMA CallsTyped == Spec => []CallTypeOK
<1>1. Init => CallTypeOK
  <2>1. <<>> \in Seq(Call)
    OBVIOUS
  <2> QED
    BY <2>1 DEF Init, CallTypeOK
<1> QED
  BY <1>1, CallsStep, PTL DEF Spec

\* Whatever players do, and however their calls travel, items and characters
\* are only touched the way the module Carry says.
THEOREM GameImplementsCarry == Spec => CarrySpec
<1>1. Init => CarryInit
  BY DEF Init
<1>2. CallTypeOK /\ [Next]_vars => [CarryNext]_carryVars
  BY NextIsActorStep, ActorStepIsCarryStep
<1> QED
  BY <1>1, <1>2, CallsTyped, PTL DEF Spec, CarrySpec

\* And the store only the way the module Store says.
THEOREM GameImplementsStore == Spec => StoreSpec
<1>1. Init => StoreInit
  BY DEF Init
<1>2. CarryInv /\ CallTypeOK /\ [Next]_vars => [StoreNext]_storeVars
  BY NextIsActorStep, ActorStepIsStoreStep
<1> QED
  BY <1>1, <1>2, CallsTyped, GameImplementsCarry, CarryInvariant, PTL
     DEF Spec, StoreSpec

-----------------------------------------------------------------------------
(* The tables *)

TableInv == TableTypeOK /\ TableHearsItsItem

\* Only construction, pickup, delivery and the end of a session concern what a
\* table holds; everything else leaves the tables and their items alone.
LEMMA TableStep ==
    ASSUME CarryInv, TableInv, ActorStep
    PROVE  TableInv'
<1> USE WorldAssumption
<1> USE DEF TableInv, TableTypeOK, TableHearsItsItem
<1>1. ASSUME NEW p \in Players, NEW i \in Items, PickUp(p, i)
      PROVE  TableInv'
  <2> DEFINE t == boundTable[i]
  <2>1. /\ constructedItem' = [u \in Tables |->
                                 IF u = t THEN NoItem ELSE constructedItem[u]]
        /\ boundTable' = [j \in Items |->
                            IF t # NoTable /\ constructedItem[t] = j
                            THEN NoTable ELSE boundTable[j]]
        /\ UNCHANGED <<seenConstructed, items>>
        /\ pickedUp' = pickedUp \cup {i}
    BY <1>1 DEF PickUp, Server_PickupItem, OnItemPickedUp
  <2>2. TableTypeOK'
    BY <2>1
  <2>3. ASSUME NEW u \in Tables, constructedItem'[u] # NoItem
        PROVE  /\ constructedItem'[u] \in items' \ pickedUp'
               /\ boundTable'[constructedItem'[u]] = u
    <3>1. u # t /\ constructedItem'[u] = constructedItem[u]
      BY <2>1, <2>3
    <3>2. constructedItem[u] \in items \ pickedUp
            /\ boundTable[constructedItem[u]] = u
      BY <2>3, <3>1
    <3>3. constructedItem[u] # i
      BY <3>1, <3>2
    <3>4. t # NoTable => constructedItem[t] # constructedItem[u]
      BY <2>3, <3>1, <3>2
    <3>5. constructedItem[u] \in Items
      BY <2>3, <3>1
    <3> HIDE DEF t
    <3> QED
      BY <2>1, <3>1, <3>2, <3>3, <3>4, <3>5
  <2> QED
    BY <2>2, <2>3
<1>2. ASSUME NEW p \in Players, DeliverItem(p)
      PROVE  TableInv'
  <2>1. /\ UNCHANGED tableOwn
        /\ UNCHANGED pickedUp
        /\ \/ items' = items
           \/ items' = items \ {carriedItem[p]} /\ HasItem(p)
    <3>1. UNCHANGED tableOwn /\ (DeliveredItem(p) \/ UNCHANGED carryOwn)
      BY <1>2 DEF DeliverItem
    <3> QED
      BY <3>1 DEF DeliveredItem, carryOwn, carryServer
  <2>2. HasItem(p) => carriedItem[p] \in pickedUp
    BY DEF CarryInv, CarriedIsTaken
  <2> QED
    BY <2>1, <2>2 DEF tableOwn, tableServer
<1>3. ASSUME NEW s \in Tables, NEW shape \in Shapes, ConstructItem(s, shape)
      PROVE  TableInv'
  <2>1. PICK i \in Items : SpawnItem(i, shape) /\ OnConstructedItemSpawned(s, i)
    BY <1>3 DEF ConstructItem
  <2>2. i \notin items /\ i \notin pickedUp
    BY <2>1 DEF SpawnItem, CarryInv, CarryTypeOK
  <2> QED
    BY <2>1, <2>2 DEF SpawnItem, OnConstructedItemSpawned
<1>4. ASSUME UNCHANGED <<items, pickedUp, constructedItem, boundTable>>,
             seenConstructed' \in [Clients -> [Tables -> Items \cup {NoItem}]]
      PROVE  TableInv'
  BY <1>4
<1>5. ASSUME NEW c \in Clients, Disconnect(c)
      PROVE  TableInv'
  BY <1>4, <1>5 DEF Disconnect, CarryForget, TableForget, tableServer, EmptyTables
<1>6. ASSUME NEW c \in Clients, NEW t \in Tables,
             ReplicateTable(c, t, knownItems[c]), UNCHANGED carryVars
      PROVE  TableInv'
  BY <1>4, <1>6 DEF ReplicateTable, tableServer, carryVars, carryOwn, carryServer
<1>7. ASSUME UNCHANGED tableOwn, UNCHANGED <<items, pickedUp>>
      PROVE  TableInv'
  BY <1>4, <1>7 DEF tableOwn, tableServer
<1>8. ASSUME NEW p \in Players, NEW color \in Colors, ChangeColorItem(p, color)
      PROVE  TableInv'
  BY <1>7, <1>8 DEF ChangeColorItem, SetColor, carryVars, carryOwn, carryServer
<1>9. CASE ActorSteps
  BY <1>6, <1>7, <1>9 DEF ActorSteps, ReplicateItem, ReplicateDestroyed,
                          ReplicateCarried, carryServer
<1>10. CASE StoreSteps \/ UNCHANGED <<carryOwn, tableOwn>>
  BY <1>7, <1>10 DEF StoreSteps, carryOwn, carryServer
<1> QED
  BY <1>1, <1>2, <1>3, <1>5, <1>8, <1>9, <1>10 DEF ActorStep

LEMMA TableInvariant == Spec => []TableInv
<1>1. Init => TableInv
  BY WorldAssumption
     DEF Init, TableInit, EmptyTables, TableInv, TableTypeOK, TableHearsItsItem
<1>2. CarryInv /\ CallTypeOK /\ TableInv /\ [Next]_vars => TableInv'
  BY NextIsActorStep, TableStep
<1> QED
  BY <1>1, <1>2, CallsTyped, GameImplementsCarry, CarryInvariant, PTL DEF Spec

\* The item a table holds is free, and its pickup reaches the store.
THEOREM GameTableHearsItsItem == Spec => []TableHearsItsItem
<1>1. TableInv => TableHearsItsItem
  BY DEF TableInv
<1> QED
  BY <1>1, TableInvariant, PTL

\* Type correctness of the whole game.
THEOREM GameTyped == Spec => []TypeOK
<1>1. StoreTypeOK /\ CarryTypeOK /\ TableInv /\ CallTypeOK => TypeOK
  BY DEF TypeOK, TableInv, CallTypeOK
<1> QED
  BY <1>1, GameImplementsStore, StoreTyped, GameImplementsCarry, CarryTyped,
     TableInvariant, CallsTyped, PTL
-----------------------------------------------------------------------------
(* What the parts promise *)

\* What is proved of the store and of the carrying of items, open to any caller,
\* holds of them between the tables, calls and connections of the game.
PartsHold ==
    /\ OneCarrier /\ CarriedIsTaken /\ ViewsNeverAhead
    /\ SeenOneCarrier /\ HandsAreDue
    /\ HostBoardExact /\ BoxCountInStep /\ BudgetSentOrStarting /\ LagIsDue

\* In the game an item has one carrier, on the server and on every screen, the
\* boards are in step, and whoever lags is due an update, whatever calls race,
\* are lost or come twice and whoever leaves.
THEOREM GamePartsHold == Spec => []PartsHold
<1>1. Spec => /\ []OneCarrier /\ []CarriedIsTaken /\ []ViewsNeverAhead
              /\ []SeenOneCarrier /\ []HandsAreDue
  BY GameImplementsCarry, CarryOneCarrier, CarryCarriedIsTaken, CarryViewsNeverAhead,
     CarrySeenOneCarrier, CarryHandsAreDue, PTL
<1>2. Spec => /\ []HostBoardExact /\ []BoxCountInStep
              /\ []BudgetSentOrStarting /\ []LagIsDue
  BY GameImplementsStore, StoreHostBoardExact, StoreBoxCountInStep,
     StoreBudgetSentOrStarting, StoreLagIsDue, PTL
<1>3. OneCarrier /\ CarriedIsTaken /\ ViewsNeverAhead /\ SeenOneCarrier /\ HandsAreDue
        /\ HostBoardExact /\ BoxCountInStep /\ BudgetSentOrStarting /\ LagIsDue
      => PartsHold
  BY DEF PartsHold
<1> QED
  BY <1>1, <1>2, <1>3, PTL

\* What becomes of an item in the game is what Custody says: it is made and taken
\* once, then delivered once or stranded.
THEOREM GameItemsInCustody == Spec => ItemsInCustody
BY GameImplementsCarry, CarryInCustody, PTL
=============================================================================
