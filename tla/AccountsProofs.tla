--------------------------- MODULE AccountsProofs ---------------------------
(***************************************************************************)
(* The books of the store are right whatever the players do: no order is   *)
(* invented and no money appears or vanishes, for any number of players,   *)
(* tables and items, calls that race or are lost, and machines that leave. *)
(***************************************************************************)
EXTENDS GameProofs, FiniteSetTheorems

-----------------------------------------------------------------------------
(* What a step enters into the books *)

Opened == Host \in begunPlay
Due    == Len(activeOrders[Host]) + orderTimers
Money  == currentBudget[Host]

Things == <<spawned, items, pickedUp>>

Nothing ==
    /\ UNCHANGED <<Things, Opened, Due, Money>>
    /\ serverUp' => serverUp

Opens ==
    /\ ~Opened /\ Opened'
    /\ Due' = Due + 1
    /\ Money' = StartingBudget
    /\ UNCHANGED Things
    /\ serverUp

\* Whether or not the pickup is heard.
TakesItem ==
    /\ \E i \in items \ pickedUp : pickedUp' = pickedUp \cup {i}
    /\ Due' \in {Due, Due + 1}
    /\ UNCHANGED <<spawned, items, Opened, Money>>
    /\ serverUp
    /\ Due' # Due => Opened

Constructs ==
    /\ \E i \in Items \ spawned :
         spawned' = spawned \cup {i} /\ items' = items \cup {i}
    /\ Money' = Spent(Money, ConstructCost)
    /\ UNCHANGED <<pickedUp, Opened, Due>>
    /\ serverUp
    /\ Opened

Collects ==
    /\ \E i \in items : items' = items \ {i}
    /\ Due' = Due - 1
    /\ \E reward \in 0 .. OrderReward : Money' = Money + reward
    /\ UNCHANGED <<spawned, pickedUp, Opened>>
    /\ serverUp
    /\ Opened

Dies ==
    /\ ~serverUp'
    /\ UNCHANGED <<Things, Opened, Money>>
    /\ Opened

Entry == Nothing \/ Opens \/ TakesItem \/ Constructs \/ Collects \/ Dies

\* A notification on a client does not touch the server's orders, one on the
\* server gives it the new ones.
LEMMA HostOrders ==
    ASSUME StoreTypeOK, NEW m \in Players, NEW active, OnRep_ActiveOrders(m, active)
    PROVE  /\ m # Host => activeOrders'[Host] = activeOrders[Host]
           /\ m = Host => activeOrders'[Host] = active
BY WorldAssumption DEF StoreTypeOK, OnRep_ActiveOrders

LEMMA PickUpEntry ==
    ASSUME StoreTypeOK, NEW p \in Players, NEW i \in Items, PickUp(p, i)
    PROVE  TakesItem
<1>1. /\ i \in items \ pickedUp /\ pickedUp' = pickedUp \cup {i}
      /\ UNCHANGED <<items, itemInfo>> /\ serverUp
  BY DEF PickUp, Server_PickupItem, Server_PickupItem_Validate
<1>2. \/ OnConstructedItemPickedUp
      \/ UNCHANGED storeOwn
  BY DEF PickUp
<1>3. UNCHANGED <<activeOrders, currentBudget, begunPlay>>
  BY <1>2 DEF OnConstructedItemPickedUp, boardVars, storeOwn
<1>4. orderTimers' = orderTimers \/ (orderTimers' = orderTimers + 1 /\ Opened)
  BY <1>2 DEF OnConstructedItemPickedUp, storeOwn, Opened
<1>5. Len(activeOrders[Host]) \in Nat /\ orderTimers \in Nat
  BY WorldAssumption DEF StoreTypeOK
<1>6. Due' \in {Due, Due + 1} /\ (Due' # Due => Opened)
  BY <1>3, <1>4, <1>5 DEF Due
<1> QED
  BY <1>1, <1>3, <1>6 DEF TakesItem, Opened, Money, spawned

LEMMA DeliverEntry ==
    ASSUME StoreTypeOK, CarryInv, NEW p \in Players, DeliverItem(p)
    PROVE  Collects \/ Dies
<1> DEFINE info == IF HasItem(p) THEN itemInfo[carriedItem[p]] ELSE NoItem
<1>1. serverUp /\ Opened /\ CollectOrder(info)
  BY DEF DeliverItem, CollectOrder, Opened
<1>2. HasItem(p) => info \in ItemInfo /\ carriedItem[p] \in items
  BY DEF CarryInv, CarryTypeOK, CarriedIsTaken
<1>3. CASE CollectFromEmpty \/ CollectNoItem
  <2>1. ~serverUp' /\ UNCHANGED <<currentBudget, begunPlay>>
    BY <1>3 DEF CollectFromEmpty, CollectNoItem, ServerDies, storeOwn
  <2>2. UNCHANGED <<items, itemInfo, pickedUp>>
    BY <2>1 DEF DeliverItem, carryOwn, carryServer
  <2> QED
    BY <1>1, <2>1, <2>2 DEF Dies, Things, Opened, Money, spawned
<1>4. CASE info # NoItem /\ CollectItem(info)
  <2> DEFINE orders == activeOrders[Host]
             reward == Reward(info, Head(orders))
  <2>1. HasItem(p)
    BY <1>4
  <2>2. serverUp'
    BY <1>1, <1>4 DEF CollectItem, worldVars
  <2>3. /\ items' = items \ {carriedItem[p]}
        /\ UNCHANGED <<itemInfo, pickedUp>>
    BY <2>2 DEF DeliverItem, DeliveredItem
  <2>4. orders # <<>> /\ OnRep_ActiveOrders(Host, Tail(orders))
        /\ UNCHANGED <<begunPlay, orderTimers>>
        /\ currentBudget' = [currentBudget EXCEPT ![Host] = @ + reward]
    BY <1>4 DEF CollectItem, WithoutOldest
  <2>5. orders \in Seq(Order) /\ orderTimers \in Nat /\ Money \in Nat
        /\ currentBudget \in [Players -> Nat] /\ Host \in Players
    BY WorldAssumption DEF StoreTypeOK, Money
  <2>6. activeOrders'[Host] = Tail(orders)
    BY <2>4, <2>5, HostOrders
  <2>7. Due' = Due - 1
    <3>1. Len(Tail(orders)) = Len(orders) - 1 /\ Len(orders) \in Nat
      BY <2>4, <2>5
    <3> QED
      BY <2>4, <2>5, <2>6, <3>1 DEF Due
  <2>8. reward \in 0 .. OrderReward
    BY StoreAssumption DEF Reward
  <2> HIDE DEF reward
  <2>9. Money' = Money + reward
    BY <2>4, <2>5 DEF Money
  <2> QED
    BY <1>1, <1>2, <2>1, <2>3, <2>4, <2>7, <2>8, <2>9
       DEF Collects, Opened, spawned
<1> QED
  BY <1>1, <1>3, <1>4 DEF CollectOrder

LEMMA ConstructEntry ==
    ASSUME StoreTypeOK, NEW t \in Tables, NEW shape \in Shapes, ConstructItem(t, shape)
    PROVE  Constructs
<1>1. PICK i \in Items : SpawnItem(i, shape)
  BY DEF ConstructItem
<1>2. i \in Items \ spawned /\ spawned' = spawned \cup {i} /\ items' = items \cup {i}
      /\ UNCHANGED pickedUp /\ serverUp
  BY <1>1 DEF SpawnItem, spawned
<1>3. /\ Opened /\ UNCHANGED <<begunPlay, activeOrders, orderTimers>>
      /\ currentBudget' = [currentBudget EXCEPT ![Host] = Spent(@, ConstructCost)]
  BY DEF ConstructItem, SpendBudget, Opened, boardVars
<1>4. currentBudget \in [Players -> Nat] /\ Host \in Players
  BY WorldAssumption DEF StoreTypeOK
<1>5. Money' = Spent(Money, ConstructCost)
  BY <1>3, <1>4 DEF Money
<1> QED
  BY <1>2, <1>3, <1>5 DEF Constructs, Opened, Due

LEMMA StoreEntry ==
    ASSUME StoreTypeOK, StoreSteps
    PROVE  Nothing \/ Opens
<1> USE WorldAssumption
<1>1. UNCHANGED <<items, itemInfo, pickedUp>>
  BY DEF StoreSteps, carryOwn, carryServer
<1>2. UNCHANGED Things
  BY <1>1 DEF Things, spawned
<1>3. /\ currentBudget \in [Players -> Nat] /\ activeOrders \in [Players -> Seq(Order)]
      /\ orderTimers \in Nat
  BY DEF StoreTypeOK
<1>4. ASSUME BeginPlay(Host)
      PROVE  Opens
  <2>1. /\ Host \notin begunPlay /\ begunPlay' = begunPlay \cup {Host} /\ serverUp
        /\ currentBudget' = [currentBudget EXCEPT ![Host] = StartingBudget]
        /\ orderTimers' = orderTimers + 1 /\ activeOrders' = activeOrders
    BY <1>4 DEF BeginPlay, boardVars
  <2>2. Len(activeOrders[Host]) \in Nat
    BY <1>3
  <2> QED
    BY <1>2, <1>3, <2>1, <2>2 DEF Opens, Opened, Due, Money
<1>5. ASSUME NEW m \in Players, m # Host, BeginPlay(m)
      PROVE  Nothing
  <2>1. /\ begunPlay' = begunPlay \cup {m} /\ UNCHANGED <<activeOrders, orderTimers>>
        /\ currentBudget' = [currentBudget EXCEPT ![m] = StartingBudget] /\ serverUp
    BY <1>5 DEF BeginPlay, boardVars
  <2> QED
    BY <1>2, <1>3, <1>5, <2>1 DEF Nothing, Opened, Due, Money
<1>6. ASSUME NEW m \in Players, ConstructOrderBox(m)
      PROVE  Nothing
  BY <1>2, <1>6 DEF ConstructOrderBox, Nothing, Opened, Due, Money
<1>7. ASSUME NEW order \in Order, RequestOrder(order)
      PROVE  Nothing
  <2> DEFINE orders == activeOrders[Host]
  <2>1. orders \in Seq(Order)
    BY <1>3
  <2>2. /\ UNCHANGED <<currentBudget, begunPlay>> /\ serverUp
        /\ orderTimers > 0 /\ orderTimers' = orderTimers - 1
        /\ OnRep_ActiveOrders(Host, Append(orders, order))
    BY <1>7 DEF RequestOrder, AfterFiring, WithRequested
  <2>3. activeOrders'[Host] = Append(orders, order)
    BY <2>2, HostOrders
  <2>4. Len(Append(orders, order)) = Len(orders) + 1 /\ Len(orders) \in Nat
    BY <2>1
  <2>5. Due' = Due
    BY <1>3, <2>2, <2>3, <2>4 DEF Due
  <2> QED
    BY <1>2, <2>2, <2>5 DEF Nothing, Opened, Money
<1>8. ASSUME NEW c \in Clients, ReplicateStore(c)
      PROVE  Nothing
  <2>1. c \in Players /\ c # Host
    BY DEF Clients
  <2>2. /\ UNCHANGED <<begunPlay, orderTimers>> /\ serverUp
        /\ currentBudget' = [currentBudget EXCEPT ![c] = ReceivedBudget(c)]
        /\ \/ OnRep_ActiveOrders(c, activeOrders[Host])
           \/ UNCHANGED activeOrders
    BY <1>8 DEF ReplicateStore, boardVars
  <2>3. activeOrders'[Host] = activeOrders[Host]
    BY <2>1, <2>2, HostOrders
  <2>4. Money' = Money
    BY <1>3, <2>1, <2>2 DEF Money
  <2> QED
    BY <1>2, <2>2, <2>3, <2>4 DEF Nothing, Opened, Due
<1>9. \/ \E m \in Players : BeginPlay(m) \/ ConstructOrderBox(m)
      \/ \E order \in Order : RequestOrder(order)
      \/ \E c \in Clients : ReplicateStore(c)
  BY DEF StoreSteps
<1> QED
  BY <1>4, <1>5, <1>6, <1>7, <1>8, <1>9

LEMMA EveryEntry ==
    ASSUME StoreTypeOK, CarryInv, ActorStep
    PROVE  Entry
<1> USE WorldAssumption
<1>1. ASSUME NEW p \in Players, NEW color \in Colors, ChangeColorItem(p, color)
      PROVE  Nothing
  <2>1. /\ UNCHANGED <<items, pickedUp>> /\ spawned' = spawned
        /\ (serverUp' => serverUp)
    BY <1>1 DEF ChangeColorItem, SetColor, carryVars, carryOwn, carryServer,
                worldVars, spawned
  <2>2. UNCHANGED <<activeOrders, currentBudget, begunPlay, orderTimers>>
    BY <1>1 DEF ChangeColorItem, storeOwn, boardVars
  <2> QED
    BY <2>1, <2>2 DEF Nothing, Things, Opened, Due, Money
<1>2. ASSUME NEW c \in Clients, Disconnect(c)
      PROVE  Nothing
  <2>1. c # Host /\ c \in Players
    BY DEF Clients
  <2>2. /\ UNCHANGED <<items, itemInfo, pickedUp, orderTimers, serverUp>>
        /\ activeOrders' = [activeOrders EXCEPT ![c] = <<>>]
        /\ currentBudget' = [currentBudget EXCEPT ![c] = 0]
        /\ begunPlay' = begunPlay \ {c}
    BY <1>2 DEF Disconnect, StoreLogout, StoreForget, CarryForget, Logout
  <2>3. activeOrders'[Host] = activeOrders[Host] /\ Money' = Money
    BY <2>1, <2>2 DEF StoreTypeOK, Money
  <2> QED
    BY <2>1, <2>2, <2>3 DEF Nothing, Things, Opened, Due, spawned
<1>3. ASSUME NEW c \in Clients, StoreLogin(c), UNCHANGED carryOwn
      PROVE  Nothing
  BY <1>3 DEF StoreLogin, Login, carryOwn, carryServer, storeOwn, boardVars, Nothing,
              Things, Opened, Due, Money, spawned
<1>4. ASSUME ActorSteps
      PROVE  Nothing
  <2>1. UNCHANGED carryServer /\ UNCHANGED storeOwn /\ UNCHANGED serverUp
    BY <1>4 DEF ActorSteps, ReplicateItem, ReplicateDestroyed, ReplicateCarried,
                carryVars, carryOwn, worldVars
  <2> QED
    BY <2>1 DEF carryServer, storeOwn, boardVars, Nothing, Things, Opened, Due,
                Money, spawned
<1>5. ASSUME UNCHANGED <<worldVars, storeOwn, carryOwn, tableOwn>>
      PROVE  Nothing
  BY <1>5 DEF worldVars, carryOwn, carryServer, storeOwn, boardVars, Nothing,
              Things, Opened, Due, Money, spawned
<1> QED
  BY <1>1, <1>2, <1>3, <1>4, <1>5, PickUpEntry, DeliverEntry, ConstructEntry,
     StoreEntry DEF ActorStep, Entry

-----------------------------------------------------------------------------
(* The books balance *)

Booked ==
    /\ IsFiniteSet(spawned)
    /\ ~Opened => Due = 0 /\ spawned = {}
    /\ serverUp /\ Opened =>
         Due + Cardinality(Destroyed) <= 1 + Cardinality(pickedUp)
    /\ Opened =>
         /\ Money + ConstructCost * Cardinality(spawned) >= StartingBudget
         /\ Money <= StartingBudget + OrderReward * Cardinality(Destroyed)

Within == items \subseteq spawned /\ pickedUp \subseteq spawned

LEMMA Counted ==
    ASSUME IsFiniteSet(spawned), Within
    PROVE  /\ IsFiniteSet(Destroyed) /\ IsFiniteSet(pickedUp)
           /\ Cardinality(Destroyed) \in Nat /\ Cardinality(pickedUp) \in Nat
           /\ Cardinality(spawned) \in Nat
<1>1. Destroyed \subseteq spawned /\ pickedUp \subseteq spawned
  BY DEF Destroyed, Within
<1>2. IsFiniteSet(Destroyed) /\ IsFiniteSet(pickedUp)
  BY <1>1, FS_Subset
<1> QED
  BY <1>2, FS_CardinalityType

LEMMA BookedStep ==
    ASSUME StoreTypeOK, StoreTypeOK', Within, Within', Booked, Entry
    PROVE  Booked'
<1>1. Due \in Nat /\ Money \in Nat /\ Due' \in Nat /\ Money' \in Nat
      /\ StartingBudget \in Nat /\ ConstructCost \in Nat /\ OrderReward \in Nat
  BY StoreAssumption, WorldAssumption DEF StoreTypeOK, Due, Money
<1>2. /\ IsFiniteSet(spawned) /\ IsFiniteSet(Destroyed) /\ IsFiniteSet(pickedUp)
      /\ Cardinality(Destroyed) \in Nat /\ Cardinality(pickedUp) \in Nat
      /\ Cardinality(spawned) \in Nat
  BY Counted DEF Booked
<1>3. CASE Nothing
  BY <1>3 DEF Nothing, Things, Booked, Destroyed
<1>4. CASE Opens
  <2>1. Due = 0 /\ spawned = {} /\ spawned' = spawned /\ Due' = 1
        /\ Money' = StartingBudget
    BY <1>4 DEF Opens, Things, Booked
  <2>2. Destroyed = {} /\ Destroyed' = {} /\ pickedUp' = pickedUp /\ pickedUp = {}
    BY <1>4, <2>1 DEF Opens, Things, Destroyed, Within
  <2>3. Cardinality({}) = 0
    BY FS_EmptySet
  <2> QED
    BY <1>1, <1>2, <1>4, <2>1, <2>2, <2>3 DEF Opens, Booked
<1>5. CASE TakesItem
  <2>1. PICK i \in items \ pickedUp : pickedUp' = pickedUp \cup {i}
    BY <1>5 DEF TakesItem
  <2>2. Cardinality(pickedUp') = Cardinality(pickedUp) + 1
    BY <1>2, <2>1, FS_AddElement
  <2>3. Opened
    BY <2>1 DEF Booked, Within
  <2>4. Destroyed' = Destroyed /\ spawned' = spawned /\ Opened' = Opened
        /\ Money' = Money /\ Due' \in {Due, Due + 1} /\ serverUp
    BY <1>5 DEF TakesItem, Destroyed
  <2> QED
    BY <1>1, <1>2, <2>2, <2>3, <2>4 DEF Booked
<1>6. CASE Constructs
  <2>1. PICK i \in Items \ spawned :
          spawned' = spawned \cup {i} /\ items' = items \cup {i}
    BY <1>6 DEF Constructs
  <2>2. IsFiniteSet(spawned') /\ Cardinality(spawned') = Cardinality(spawned) + 1
    BY <1>2, <2>1, FS_AddElement
  <2>3. Destroyed' = Destroyed
    BY <2>1 DEF Destroyed, Within
  <2>4. Opened /\ Opened' /\ Due' = Due /\ pickedUp' = pickedUp /\ serverUp
        /\ Money' = Spent(Money, ConstructCost)
    BY <1>6 DEF Constructs
  <2>5. Money' + ConstructCost >= Money /\ Money' <= Money
    BY <1>1, <2>4 DEF Spent
  <2>6. ConstructCost * Cardinality(spawned')
          = ConstructCost * Cardinality(spawned) + ConstructCost
    BY <1>1, <1>2, <2>2
  <2>7. ConstructCost * Cardinality(spawned) \in Nat
        /\ OrderReward * Cardinality(Destroyed) \in Nat
    BY <1>1, <1>2
  <2> QED
    BY <1>1, <1>2, <2>2, <2>3, <2>4, <2>5, <2>6, <2>7 DEF Booked
<1>7. CASE Collects
  <2>1. PICK i \in items : items' = items \ {i}
    BY <1>7 DEF Collects
  <2>2. PICK reward \in 0 .. OrderReward : Money' = Money + reward
    BY <1>7 DEF Collects
  <2>3. spawned' = spawned /\ pickedUp' = pickedUp /\ Opened /\ Opened' /\ serverUp
        /\ Due' = Due - 1
    BY <1>7 DEF Collects
  <2>4. Destroyed' = Destroyed \cup {i} /\ i \notin Destroyed
    BY <2>1, <2>3 DEF Destroyed, Within
  <2>5. Cardinality(Destroyed') = Cardinality(Destroyed) + 1
    BY <1>2, <2>4, FS_AddElement
  <2>6. OrderReward * Cardinality(Destroyed')
          = OrderReward * Cardinality(Destroyed) + OrderReward
    BY <1>1, <1>2, <2>5
  <2>7. ConstructCost * Cardinality(spawned) \in Nat
        /\ OrderReward * Cardinality(Destroyed) \in Nat
    BY <1>1, <1>2
  <2> QED
    BY <1>1, <1>2, <2>2, <2>3, <2>5, <2>6, <2>7 DEF Booked
<1>8. CASE Dies
  BY <1>8 DEF Dies, Things, Booked, Destroyed
<1> QED
  BY <1>3, <1>4, <1>5, <1>6, <1>7, <1>8 DEF Entry

LEMMA BookedInit ==
    ASSUME Init
    PROVE  Booked
<1>1. spawned = {} /\ Due = 0 /\ ~Opened
  BY WorldAssumption DEF Init, StoreInit, CarryInit, spawned, Due, Opened
<1> QED
  BY <1>1, FS_EmptySet DEF Booked

\* The inductive invariant of the books.
THEOREM BooksInvariant == Spec => []Booked
<1>1. ASSUME CallTypeOK, CarryInv, StoreTypeOK, StoreTypeOK', CarryTypeOK,
             CarryTypeOK', Booked, [Next]_vars
      PROVE  Booked'
  <2>1. Entry
    BY <1>1, NextIsActorStep, EveryEntry
  <2>2. Within /\ Within'
    BY <1>1 DEF CarryTypeOK, Within
  <2> QED
    BY <1>1, <2>1, <2>2, BookedStep
<1> QED
  BY <1>1, BookedInit, CallsTyped, GameImplementsCarry, CarryInvariant, CarryTyped,
     GameImplementsStore, StoreTyped, PTL DEF Spec

\* Orders active, awaited or collected are the first one and at most one per
\* item ever picked up.
THEOREM GameOrdersAccounted == Spec => []OrdersAccounted
<1>1. StoreTypeOK /\ Booked => OrdersAccounted
  BY WorldAssumption DEF StoreTypeOK, Booked, OrdersAccounted, Opened, Due
<1> QED
  BY <1>1, BooksInvariant, GameImplementsStore, StoreTyped, PTL

\* The budget is what the game started with, less at most the cost of each item
\* spawned, plus at most a reward for each destroyed.
THEOREM GameBudgetAccounted == Spec => []BudgetAccounted
<1>1. Booked => BudgetAccounted
  BY DEF Booked, BudgetAccounted, Opened, Money
<1> QED
  BY <1>1, BooksInvariant, PTL
=============================================================================
