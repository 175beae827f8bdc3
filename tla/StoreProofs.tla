---------------------------- MODULE StoreProofs ----------------------------
(***************************************************************************)
(* Theorems about the store and the boards, for every number of clients,   *)
(* every set of orders and every way of scheduling calls and replication.  *)
(***************************************************************************)
EXTENDS Store, TLAPS

\* Between two steps the array OnRep_ActiveOrders compares with is up to date.
LocalIsActive == localActiveOrders = activeOrders

StoreInv ==
    /\ StoreTypeOK
    /\ LocalIsActive
    /\ HostBoardExact
    /\ BoxCountInStep
    /\ \A c \in Clients : \/ currentBudget[c] = sentBudget[c]
                          \/ c \in begunPlay /\ currentBudget[c] = StartingBudget

-----------------------------------------------------------------------------
(* Sequences without their first elements *)

LEMMA DropType ==
    ASSUME NEW S, NEW s \in Seq(S), NEW n \in 0 .. Len(s)
    PROVE  Drop(s, n) \in Seq(S) /\ Len(Drop(s, n)) = Len(s) - n
BY DEF Drop

LEMMA DropNothing ==
    ASSUME NEW S, NEW s \in Seq(S)
    PROVE  Drop(s, 0) = s
BY DEF Drop

LEMMA DropAll ==
    ASSUME NEW S, NEW s \in Seq(S), NEW n \in Nat, Len(s) <= n
    PROVE  Drop(s, n) = <<>>
BY DEF Drop

LEMMA DropHead ==
    ASSUME NEW S, NEW s \in Seq(S), s # <<>>
    PROVE  Drop(s, 1) = Tail(s)
BY DEF Drop

LEMMA DropBeforeLast ==
    ASSUME NEW S, NEW s \in Seq(S), NEW e \in S
    PROVE  Drop(Append(s, e), Len(s)) = <<e>>
<1> DEFINE n == Len(s)
           t == Append(s, e)
           d == Drop(t, n)
<1>1. n \in Nat /\ t \in Seq(S) /\ Len(t) = n + 1 /\ t[n + 1] = e
  OBVIOUS
<1> HIDE DEF n, t
<1>2. d = SubSeq(t, n + 1, n + 1)
  BY <1>1 DEF Drop
<1>3. d \in Seq(S) /\ Len(d) = 1 /\ d[1] = e
  BY <1>1, <1>2
<1>4. d = <<e>>
  BY <1>3
<1> QED
  BY <1>4 DEF n, t

-----------------------------------------------------------------------------
(* The boards *)

\* The boxes of a board that had as many as there were orders, after a
\* notification, are as many as there are orders.
LEMMA BoxesAfter ==
    ASSUME NEW S, NEW boxes \in Seq(S), NEW local \in Seq(S), NEW active \in Seq(S)
    PROVE  LET after == Drop(boxes \o Requested(active, local),
                             Collected(active, local))
           IN  Len(boxes) = Len(local)
                 => after \in Seq(S) /\ Len(after) = Len(active)
<1> SUFFICES ASSUME Len(boxes) = Len(local)
             PROVE  LET after == Drop(boxes \o Requested(active, local),
                                      Collected(active, local))
                    IN  after \in Seq(S) /\ Len(after) = Len(active)
  OBVIOUS
<1>1. CASE Len(local) <= Len(active)
  <2> DEFINE requested == Requested(active, local)
             shown == boxes \o requested
  <2>1. Len(local) \in 0 .. Len(active)
    BY <1>1
  <2>2. requested \in Seq(S) /\ Len(requested) = Len(active) - Len(local)
    BY <2>1, DropType DEF Requested
  <2>3. Collected(active, local) = 0
    BY <1>1 DEF Collected
  <2> HIDE DEF requested
  <2>4. shown \in Seq(S) /\ Len(shown) = Len(active)
    BY <2>2
  <2> HIDE DEF shown
  <2>5. Drop(shown, 0) = shown
    BY <2>4, DropNothing
  <2> QED
    BY <2>3, <2>4, <2>5 DEF shown, requested
<1>2. CASE Len(local) > Len(active)
  <2> DEFINE collected == Len(local) - Len(active)
  <2>1. Requested(active, local) = <<>>
    BY <1>2, DropAll DEF Requested
  <2>2. boxes \o <<>> = boxes
    OBVIOUS
  <2>3. Collected(active, local) = collected
    BY <1>2 DEF Collected
  <2>4. collected \in 0 .. Len(boxes) /\ Len(boxes) - collected = Len(active)
    BY <1>2
  <2> HIDE DEF collected
  <2>5. Drop(boxes, collected) \in Seq(S)
          /\ Len(Drop(boxes, collected)) = Len(boxes) - collected
    BY <2>4, DropType
  <2> QED
    BY <2>1, <2>2, <2>3, <2>4, <2>5
<1> QED
  BY <1>1, <1>2

\* A board that shows the orders shows them after one more has been requested.
LEMMA BoxesAfterRequest ==
    ASSUME NEW S, NEW s \in Seq(S), NEW e \in S
    PROVE  Drop(s \o Requested(Append(s, e), s), Collected(Append(s, e), s))
             = Append(s, e)
<1>1. Requested(Append(s, e), s) = <<e>>
  BY DropBeforeLast DEF Requested
<1>2. Collected(Append(s, e), s) = 0
  BY DEF Collected
<1>3. s \o <<e>> = Append(s, e) /\ Append(s, e) \in Seq(S)
  OBVIOUS
<1>4. Drop(Append(s, e), 0) = Append(s, e)
  BY <1>3, DropNothing
<1> QED
  BY <1>1, <1>2, <1>3, <1>4

\* And after the oldest has been collected.
LEMMA BoxesAfterCollect ==
    ASSUME NEW S, NEW s \in Seq(S), s # <<>>
    PROVE  Drop(s \o Requested(Tail(s), s), Collected(Tail(s), s)) = Tail(s)
<1> DEFINE rest == Tail(s)
<1>1. rest \in Seq(S) /\ Len(rest) = Len(s) - 1 /\ Len(s) \in Nat \ {0}
  OBVIOUS
<1>2. s \o <<>> = s /\ Drop(s, 1) = rest
  BY DropHead
<1> HIDE DEF rest
<1>3. Drop(rest, Len(s)) = <<>>
  BY <1>1, DropAll
<1>4. Requested(rest, s) = <<>> /\ Collected(rest, s) = 1
  BY <1>1, <1>3 DEF Requested, Collected
<1>5. Drop(s \o Requested(rest, s), Collected(rest, s)) = rest
  BY <1>2, <1>4
<1> QED
  BY <1>5 DEF rest

\* What a notification does to the boards, whatever the new orders are.
LEMMA OnRepStep ==
    ASSUME StoreInv, NEW m \in Players, NEW active \in Seq(Order),
           OnRep_ActiveOrders(m, active), UNCHANGED boxesBound
    PROVE  /\ activeOrders' \in [Players -> Seq(Order)]
           /\ localActiveOrders' \in [Players -> Seq(Order)]
           /\ orderBoxes' \in [Players -> Seq(Order)]
           /\ LocalIsActive'
           /\ BoxCountInStep'
<1> USE DEF StoreInv, StoreTypeOK
<1>1. /\ activeOrders' \in [Players -> Seq(Order)]
      /\ localActiveOrders' \in [Players -> Seq(Order)]
      /\ LocalIsActive'
  BY DEF OnRep_ActiveOrders, LocalIsActive
<1>2. CASE m \notin boxesBound
  BY <1>1, <1>2 DEF OnRep_ActiveOrders, BoxCountInStep
<1>3. CASE m \in boxesBound
  <2> DEFINE local == localActiveOrders[m]
             after == Drop(orderBoxes[m] \o Requested(active, local),
                           Collected(active, local))
  <2>1. Len(orderBoxes[m]) = Len(local)
    BY <1>3 DEF BoxCountInStep, LocalIsActive
  <2>2. after \in Seq(Order) /\ Len(after) = Len(active)
    BY <2>1, BoxesAfter
  <2>3. /\ orderBoxes' = [orderBoxes EXCEPT ![m] = after]
        /\ activeOrders' = [activeOrders EXCEPT ![m] = active]
    BY <1>3 DEF OnRep_ActiveOrders
  <2> HIDE DEF after
  <2> QED
    BY <1>1, <2>2, <2>3 DEF BoxCountInStep
<1> QED
  BY <1>2, <1>3

\* On the server every notification follows one request or one collection.
LEMMA HostBoardStep ==
    ASSUME StoreInv, NEW active \in Seq(Order),
           OnRep_ActiveOrders(Host, active), UNCHANGED boxesBound,
           \/ \E order \in Order : active = Append(activeOrders[Host], order)
           \/ activeOrders[Host] # <<>> /\ active = Tail(activeOrders[Host])
    PROVE  HostBoardExact'
<1> USE WorldAssumption DEF StoreInv, StoreTypeOK
<1> SUFFICES ASSUME Host \in boxesBound
             PROVE  orderBoxes'[Host] = active
  BY DEF OnRep_ActiveOrders, HostBoardExact
<1> DEFINE old == activeOrders[Host]
<1>1. old \in Seq(Order) /\ orderBoxes[Host] = old /\ localActiveOrders[Host] = old
  BY DEF HostBoardExact, LocalIsActive
<1>2. orderBoxes'[Host] = Drop(old \o Requested(active, old), Collected(active, old))
  BY <1>1 DEF OnRep_ActiveOrders
<1>3. CASE \E order \in Order : active = Append(old, order)
  BY <1>1, <1>2, <1>3, BoxesAfterRequest
<1>4. CASE old # <<>> /\ active = Tail(old)
  BY <1>1, <1>2, <1>4, BoxesAfterCollect
<1> QED
  BY <1>3, <1>4

\* A notification on a client leaves the server's board alone.
LEMMA ClientRepStep ==
    ASSUME StoreInv, NEW c \in Clients, NEW active \in Seq(Order),
           OnRep_ActiveOrders(c, active), UNCHANGED boxesBound
    PROVE  HostBoardExact'
BY WorldAssumption
   DEF StoreInv, StoreTypeOK, OnRep_ActiveOrders, HostBoardExact, Clients

-----------------------------------------------------------------------------
(* The invariant *)

LEMMA StoreInitInv ==
    ASSUME StoreInit
    PROVE  StoreInv
<1>1. StoreTypeOK
  BY WorldAssumption DEF StoreInit, StoreTypeOK, WorldInit, WorldTypeOK
<1> QED
  BY <1>1, WorldAssumption
     DEF StoreInit, StoreInv, LocalIsActive, HostBoardExact, BoxCountInStep, Clients

\* A login, a logout or the end of the server keeps the machines in order.
LEMMA SessionStep ==
    ASSUME WorldTypeOK, NEW c \in Clients, Login(c) \/ Logout(c) \/ ServerDies
    PROVE  WorldTypeOK'
BY WorldAssumption DEF WorldTypeOK, Clients, Login, Logout, ServerDies

\* Every step of the store keeps the invariant.
LEMMA StoreInvStep ==
    ASSUME StoreInv, [StoreNext]_storeVars
    PROVE  StoreInv'
<1> DEFINE SentOrStarting ==
             \A c \in Clients : \/ currentBudget[c] = sentBudget[c]
                                \/ c \in begunPlay
                                     /\ currentBudget[c] = StartingBudget
<1> USE WorldAssumption, StoreAssumption
<1> USE DEF StoreInv, StoreTypeOK
<1>1. ASSUME NEW m \in Players, BeginPlay(m)
      PROVE  StoreInv'
  <2>1. StoreTypeOK' /\ SentOrStarting'
    BY <1>1 DEF BeginPlay, WorldTypeOK, worldVars, boardVars, sentVars
  <2> QED
    BY <1>1, <2>1 DEF BeginPlay, LocalIsActive, HostBoardExact, BoxCountInStep,
                      boardVars
<1>2. ASSUME NEW m \in Players, ConstructOrderBox(m)
      PROVE  StoreInv'
  <2>1. StoreTypeOK' /\ SentOrStarting'
    BY <1>2 DEF ConstructOrderBox, WorldTypeOK, worldVars, sentVars
  <2> QED
    BY <1>2, <2>1 DEF ConstructOrderBox, LocalIsActive, HostBoardExact,
                      BoxCountInStep
<1>3. ASSUME NEW order \in Order, RequestOrder(order)
      PROVE  StoreInv'
  <2> DEFINE active == Append(activeOrders[Host], order)
  <2>1. active \in Seq(Order)
    OBVIOUS
  <2>2. OnRep_ActiveOrders(Host, active) /\ UNCHANGED boxesBound
    BY <1>3 DEF RequestOrder, WithRequested
  <2>3. HostBoardExact'
    BY <2>1, <2>2, HostBoardStep
  <2> HIDE DEF active
  <2>4. StoreTypeOK' /\ LocalIsActive' /\ BoxCountInStep'
    BY <1>3, <2>1, <2>2, OnRepStep
       DEF RequestOrder, AfterFiring, WorldTypeOK, worldVars, sentVars
  <2>5. SentOrStarting'
    BY <1>3 DEF RequestOrder, sentVars
  <2> QED
    BY <2>3, <2>4, <2>5
<1>4. ASSUME OnConstructedItemPickedUp
      PROVE  StoreInv'
  BY <1>4 DEF OnConstructedItemPickedUp, WorldTypeOK, worldVars, boardVars, sentVars,
              LocalIsActive, HostBoardExact, BoxCountInStep
<1>5. ASSUME NEW info \in ItemInfo \cup {NoItem}, CollectOrder(info)
      PROVE  StoreInv'
  <2>1. CASE CollectFromEmpty
    BY <2>1 DEF CollectFromEmpty, ServerDies, storeOwn, WorldTypeOK, boardVars,
                sentVars, LocalIsActive, HostBoardExact, BoxCountInStep
  <2>2. ASSUME NEW budget \in Nat,
               currentBudget' = [currentBudget EXCEPT ![Host] = budget],
               activeOrders[Host] # <<>>,
               OnRep_ActiveOrders(Host, Tail(activeOrders[Host])),
               WorldTypeOK',
               UNCHANGED <<begunPlay, boxesBound, orderTimers, sentVars>>
        PROVE  StoreInv'
    <3> DEFINE active == Tail(activeOrders[Host])
    <3>1. active \in Seq(Order)
      BY <2>2
    <3>2. HostBoardExact'
      BY <2>2, <3>1, HostBoardStep
    <3> HIDE DEF active
    <3>3. StoreTypeOK' /\ LocalIsActive' /\ BoxCountInStep'
      BY <2>2, <3>1, OnRepStep DEF sentVars, active
    <3>4. SentOrStarting'
      BY <2>2 DEF sentVars, Clients
    <3> QED
      BY <3>2, <3>3, <3>4
  <2>3. CASE CollectNoItem
    <3>1. currentBudget' = [currentBudget EXCEPT ![Host] = currentBudget[Host]]
      BY <2>3 DEF CollectNoItem
    <3> QED
      BY <2>2, <2>3, <3>1 DEF CollectNoItem, WithoutOldest, ServerDies, WorldTypeOK
  <2>4. CASE info \in ItemInfo /\ CollectItem(info)
    <3> DEFINE budget ==
                 currentBudget[Host] + Reward(info, Head(activeOrders[Host]))
    <3>1. budget \in Nat
      BY DEF Reward
    <3>2. currentBudget' = [currentBudget EXCEPT ![Host] = budget]
      BY <2>4 DEF CollectItem
    <3> HIDE DEF budget
    <3> QED
      BY <2>2, <2>4, <3>1, <3>2 DEF CollectItem, WithoutOldest, WorldTypeOK, worldVars
  <2> QED
    BY <1>5, <2>1, <2>3, <2>4 DEF CollectOrder
<1>6. ASSUME SpendBudget(ConstructCost)
      PROVE  StoreInv'
  <2>1. StoreTypeOK' /\ SentOrStarting'
    BY <1>6 DEF SpendBudget, Spent, WorldTypeOK, worldVars, boardVars, sentVars, Clients
  <2> QED
    BY <1>6, <2>1 DEF SpendBudget, boardVars, LocalIsActive, HostBoardExact,
                      BoxCountInStep
<1>7. ASSUME NEW c \in Clients, ReplicateStore(c)
      PROVE  StoreInv'
  <2>1. /\ activeOrders' \in [Players -> Seq(Order)]
        /\ localActiveOrders' \in [Players -> Seq(Order)]
        /\ orderBoxes' \in [Players -> Seq(Order)]
        /\ LocalIsActive' /\ BoxCountInStep' /\ HostBoardExact'
    <3>1. CASE OnRep_ActiveOrders(c, activeOrders[Host])
      BY <1>7, <3>1, OnRepStep, ClientRepStep DEF ReplicateStore, Clients
    <3>2. CASE UNCHANGED boardVars
      BY <1>7, <3>2 DEF ReplicateStore, boardVars, LocalIsActive, HostBoardExact,
                        BoxCountInStep
    <3> QED
      BY <1>7, <3>1, <3>2 DEF ReplicateStore
  <2>2. StoreTypeOK' /\ SentOrStarting'
    BY <1>7, <2>1 DEF ReplicateStore, ReceivedBudget, WorldTypeOK, worldVars, Clients
  <2> QED
    BY <2>1, <2>2
<1>8. ASSUME NEW c \in Clients, StoreLogin(c)
      PROVE  StoreInv'
  BY <1>8, SessionStep DEF StoreLogin, storeOwn, boardVars, sentVars, LocalIsActive,
                           HostBoardExact, BoxCountInStep
<1>9. ASSUME NEW c \in Clients, StoreLogout(c)
      PROVE  StoreInv'
  <2>1. WorldTypeOK'
    BY <1>9, SessionStep DEF StoreLogout
  <2>2. StoreTypeOK' /\ SentOrStarting'
    BY <1>9, <2>1 DEF StoreLogout, StoreForget, Clients
  <2>3. LocalIsActive' /\ HostBoardExact' /\ BoxCountInStep'
    BY <1>9 DEF StoreLogout, StoreForget, Clients, LocalIsActive, HostBoardExact,
                BoxCountInStep
  <2> QED
    BY <2>2, <2>3
<1>10. CASE UNCHANGED storeVars
  BY <1>10 DEF storeVars, storeOwn, worldVars, boardVars, sentVars, WorldTypeOK,
               LocalIsActive, HostBoardExact, BoxCountInStep
<1> QED
  BY <1>1, <1>2, <1>3, <1>4, <1>5, <1>6, <1>7, <1>8, <1>9, <1>10 DEF StoreNext

\* The inductive invariant holds in every state of every session.
THEOREM StoreInvariant == StoreSpec => []StoreInv
BY StoreInitInv, StoreInvStep, PTL DEF StoreSpec

\* Type correctness of the store on every machine.
THEOREM StoreTyped == StoreSpec => []StoreTypeOK
<1>1. StoreInv => StoreTypeOK
  BY DEF StoreInv
<1> QED
  BY <1>1, StoreInvariant, PTL

\* The server's board shows exactly the active orders.
THEOREM StoreHostBoardExact == StoreSpec => []HostBoardExact
<1>1. StoreInv => HostBoardExact
  BY DEF StoreInv
<1> QED
  BY <1>1, StoreInvariant, PTL

\* Every board has as many boxes as there are orders on its machine.
THEOREM StoreBoxCountInStep == StoreSpec => []BoxCountInStep
<1>1. StoreInv => BoxCountInStep
  BY DEF StoreInv
<1> QED
  BY <1>1, StoreInvariant, PTL

\* A client's budget is the one last sent to it, or the start of the game's.
THEOREM StoreBudgetSentOrStarting == StoreSpec => []BudgetSentOrStarting
<1>1. StoreInv => BudgetSentOrStarting
  BY DEF StoreInv, BudgetSentOrStarting
<1> QED
  BY <1>1, StoreInvariant, PTL
-----------------------------------------------------------------------------
(* The orders a client lacks *)

\* A client has just the orders that were last sent to it: what OnRep_ActiveOrders
\* skips because its copy already was so is no difference.
SentIsActive == \A c \in Clients : sentOrders[c] = activeOrders[c]

\* The server never takes a client for up to date that is not: as long as a
\* connected client has other orders than the server an update is due to it,
\* which is what OrdersCatchUp rests on.
LagIsDue ==
    \A c \in connected \cap Clients :
        activeOrders[c] # activeOrders[Host] => StoreDiffers(c)

LEMMA SentIsActiveStep ==
    ASSUME StoreInv, SentIsActive, [StoreNext]_storeVars
    PROVE  SentIsActive'
<1> USE WorldAssumption
<1> USE DEF SentIsActive, StoreInv, StoreTypeOK, Clients
<1>1. ASSUME UNCHANGED <<activeOrders, sentOrders>>
      PROVE  SentIsActive'
  BY <1>1
\* The server's own copy changes.
<1>2. ASSUME NEW active, OnRep_ActiveOrders(Host, active), UNCHANGED sentOrders
      PROVE  SentIsActive'
  BY <1>2 DEF OnRep_ActiveOrders
<1>3. ASSUME NEW m \in Players, BeginPlay(m) \/ ConstructOrderBox(m)
      PROVE  SentIsActive'
  BY <1>1, <1>3 DEF BeginPlay, ConstructOrderBox, boardVars, sentVars
<1>4. ASSUME NEW order \in Order, RequestOrder(order)
      PROVE  SentIsActive'
  BY <1>2, <1>4 DEF RequestOrder, sentVars
<1>5. ASSUME OnConstructedItemPickedUp \/ SpendBudget(ConstructCost)
      PROVE  SentIsActive'
  BY <1>1, <1>5 DEF OnConstructedItemPickedUp, SpendBudget, boardVars, sentVars
<1>6. ASSUME NEW info \in ItemInfo \cup {NoItem}, CollectOrder(info)
      PROVE  SentIsActive'
  BY <1>1, <1>2, <1>6 DEF CollectOrder, CollectFromEmpty, CollectNoItem, CollectItem,
                          storeOwn, boardVars, sentVars
<1>7. ASSUME NEW c \in Clients, ReplicateStore(c)
      PROVE  SentIsActive'
  <2>1. sentOrders' = [sentOrders EXCEPT ![c] = activeOrders[Host]]
    BY <1>7 DEF ReplicateStore
  <2>2. \/ activeOrders' = [activeOrders EXCEPT ![c] = activeOrders[Host]]
        \/ activeOrders' = activeOrders /\ activeOrders[Host] = activeOrders[c]
    BY <1>7 DEF ReplicateStore, OnRep_ActiveOrders, boardVars
  <2> QED
    BY <2>1, <2>2
<1>8. ASSUME NEW c \in Clients, StoreLogin(c) \/ StoreLogout(c)
      PROVE  SentIsActive'
  <2>1. CASE StoreLogin(c)
    BY <1>1, <2>1 DEF StoreLogin, storeOwn, boardVars, sentVars
  <2>2. CASE StoreLogout(c)
    BY <2>2 DEF StoreLogout, StoreForget
  <2> QED
    BY <1>8, <2>1, <2>2
<1>9. CASE UNCHANGED storeVars
  BY <1>1, <1>9 DEF storeVars, storeOwn, boardVars, sentVars
<1> QED
  BY <1>3, <1>4, <1>5, <1>6, <1>7, <1>8, <1>9 DEF StoreNext

\* No client that lags is forgotten: while its orders are not the server's the
\* server has something to send to it.
THEOREM StoreLagIsDue == StoreSpec => []LagIsDue
<1>1. StoreInit => SentIsActive
  BY DEF StoreInit, SentIsActive, Clients
<1>2. SentIsActive => LagIsDue
  BY DEF SentIsActive, LagIsDue, StoreDiffers
<1> QED
  BY <1>1, <1>2, StoreInvariant, SentIsActiveStep, PTL DEF StoreSpec
=============================================================================
