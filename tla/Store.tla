------------------------------- MODULE Store -------------------------------
(***************************************************************************)
(* AStore: the orders, the budget, and the copies of both that replication *)
(* keeps on every machine, down to the order boxes a machine displays      *)
(* (the WBP_ChippingTable_OrderBox widget bound to the store's delegates). *)
(*                                                                         *)
(* The server part accepts any call at any time: who calls it, and when,   *)
(* is the business of the module CarpenterDemo.                            *)
(***************************************************************************)
EXTENDS World

CONSTANTS
    StartingBudget,
    OrderReward,
    ConstructCost,  \* the one amount SpendBudget is called with
    Boards,         \* bound: the machines whose order box is ever constructed
    MaxOrders,      \* bound: orders active or awaited at a time
    MaxBudget       \* bound: no reward is collected that could exceed it

ASSUME StoreAssumption ==
    /\ {StartingBudget, OrderReward, ConstructCost, MaxOrders} \subseteq Nat
    /\ MaxBudget \in Nat
    /\ Boards \subseteq Players
    /\ StartingBudget <= MaxBudget

VARIABLES
    activeOrders,       \* [machine -> ActiveOrders of its AStore]
    localActiveOrders,  \* [machine -> LocalActiveOrders of its AStore]
    currentBudget,      \* [machine -> CurrentBudget of its AStore]
    begunPlay,          \* the machines whose AStore has run BeginPlay
    boxesBound,         \* the machines whose order box widget is constructed
    orderBoxes,         \* [machine -> the orders it displays, oldest first]
    orderTimers,        \* pending RequestOrder timers of the server
    sentOrders,         \* [client -> ActiveOrders as last sent to it]
    sentBudget          \* [client -> CurrentBudget as last sent to it]

boardVars  == <<activeOrders, localActiveOrders, orderBoxes>>
sentVars   == <<sentOrders, sentBudget>>
storeOwn   == <<boardVars, currentBudget, begunPlay, boxesBound, orderTimers,
                sentVars>>
storeVars  == <<worldVars, storeOwn>>

Order == [color : Colors, shape : Shapes]

Drop(s, n) == SubSeq(s, n + 1, Len(s))

StoreInit ==
    /\ WorldInit
    /\ activeOrders = [m \in Players |-> <<>>]
    /\ localActiveOrders = [m \in Players |-> <<>>]
    /\ orderBoxes = [m \in Players |-> <<>>]
    /\ currentBudget = [m \in Players |-> 0]
    /\ begunPlay = {}
    /\ boxesBound = {}
    /\ orderTimers = 0
    /\ sentOrders = [c \in Clients |-> <<>>]
    /\ sentBudget = [c \in Clients |-> 0]

-----------------------------------------------------------------------------
(* Order notifications *)

\* What OnOrderRequested is broadcast for, and how often OnOrderCollected is:
\* the code compares the two arrays by index, not by content.
Requested(active, local) == Drop(active, Len(local))

CollectedOnce(active, local) == IF Len(local) > Len(active) THEN 1 ELSE 0  \* mutant

Collected(active, local) ==
    IF Len(local) > Len(active) THEN Len(local) - Len(active) ELSE 0

\* ActiveOrders of machine m becomes active and OnRep_ActiveOrders runs.  The
\* bound widget appends a box per request and removes the first per collection.
OnRep_ActiveOrders(m, active) ==
    /\ activeOrders' = [activeOrders EXCEPT ![m] = active]
    /\ localActiveOrders' = [localActiveOrders EXCEPT ![m] = active]
    /\ orderBoxes' =
         IF m \in boxesBound
         THEN [orderBoxes EXCEPT ![m] =
                 Drop(@ \o Requested(active, localActiveOrders[m]),
                      Collected(active, localActiveOrders[m]))]
         ELSE orderBoxes

\* Construct of the order box: show the orders there are, then bind.
ConstructOrderBox(m) ==
    /\ serverUp
    /\ m \in Boards \ boxesBound
    /\ m \in connected \cap begunPlay
    /\ boxesBound' = boxesBound \cup {m}
    /\ orderBoxes' = [orderBoxes EXCEPT ![m] = activeOrders[m]]
    /\ UNCHANGED <<worldVars, activeOrders, localActiveOrders, currentBudget,
                   begunPlay, orderTimers, sentVars>>

-----------------------------------------------------------------------------
(* The server's store *)

\* BeginPlay runs on every machine; only the one with authority goes on to
\* set the next-tick timer of the first order.
BeginPlay(m) ==
    /\ serverUp
    /\ m \in connected \ begunPlay
    /\ m = Host \/ Host \in begunPlay
    /\ begunPlay' = begunPlay \cup {m}
    /\ currentBudget' = [currentBudget EXCEPT ![m] = StartingBudget]
    /\ orderTimers' = IF m = Host THEN orderTimers + 1 ELSE orderTimers
    /\ UNCHANGED <<worldVars, boardVars, boxesBound, sentVars>>

WithoutNewest(orders) == SubSeq(orders, 1, Len(orders) - 1)  \* mutant
WithoutOldest(orders) == Tail(orders)

NotAdded(orders, order) == orders                            \* mutant
WithRequested(orders, order) == Append(orders, order)

\* The timers left when one has fired: none of them loops.
Looping(timers) == timers                                    \* mutant
AfterFiring(timers) == timers - 1

\* A timer of the store fires with a random order.
RequestOrder(order) ==
    /\ serverUp
    /\ orderTimers > 0
    /\ orderTimers' = AfterFiring(orderTimers)
    /\ OnRep_ActiveOrders(Host, WithRequested(activeOrders[Host], order))
    /\ UNCHANGED <<worldVars, currentBudget, begunPlay, boxesBound, sentVars>>

\* Each call sets a one-shot timer of its own.
OnConstructedItemPickedUp ==
    /\ serverUp
    /\ Host \in begunPlay
    /\ Len(activeOrders[Host]) + orderTimers < MaxOrders
    /\ orderTimers' = orderTimers + 1
    /\ UNCHANGED <<worldVars, boardVars, currentBudget, begunPlay, boxesBound,
                   sentVars>>

RewardDoubled(info, order) ==                                \* mutant
    IF info.shape # order.shape THEN 0
    ELSE IF info.color # order.color THEN OrderReward * 2 ELSE OrderReward

Reward(info, order) ==
    CASE info.shape # order.shape -> 0
      [] info.shape = order.shape /\ info.color # order.color
           -> OrderReward \div 2
      [] OTHER -> OrderReward

\* CollectOrder with no active order: ActiveOrders[0] is out of range.
CollectFromEmpty ==
    /\ activeOrders[Host] = <<>>
    /\ ServerDies
    /\ UNCHANGED storeOwn

\* CollectOrder of a null item: the oldest order is already removed, and
\* announced, when Item->GetItemInfo() is reached.
CollectNoItem ==
    /\ activeOrders[Host] # <<>>
    /\ OnRep_ActiveOrders(Host, WithoutOldest(activeOrders[Host]))
    /\ ServerDies
    /\ UNCHANGED <<currentBudget, begunPlay, boxesBound, orderTimers, sentVars>>

CollectItem(info) ==
    /\ activeOrders[Host] # <<>>
    /\ currentBudget[Host] + OrderReward <= MaxBudget
    /\ OnRep_ActiveOrders(Host, WithoutOldest(activeOrders[Host]))
    /\ currentBudget' = [currentBudget EXCEPT ![Host] =
                           @ + Reward(info, Head(activeOrders[Host]))]
    /\ UNCHANGED <<worldVars, begunPlay, boxesBound, orderTimers, sentVars>>

CollectOrder(info) ==
    /\ serverUp
    /\ Host \in begunPlay
    /\ \/ CollectFromEmpty
       \/ info = NoItem /\ CollectNoItem
       \/ info # NoItem /\ CollectItem(info)

Unclamped(budget, amount) == budget - amount                 \* mutant
Spent(budget, amount) == IF budget > amount THEN budget - amount ELSE 0

SpendBudget(amount) ==
    /\ serverUp
    /\ Host \in begunPlay
    /\ currentBudget' = [currentBudget EXCEPT ![Host] =
                           Spent(@, amount)]
    /\ UNCHANGED <<worldVars, boardVars, begunPlay, boxesBound, orderTimers,
                   sentVars>>

-----------------------------------------------------------------------------
(* Replication to the clients *)

OnlyBudgetDiffers(c) == sentBudget[c] # currentBudget[Host]  \* mutant
StoreDiffers(c) == <<sentOrders[c], sentBudget[c]>>
                     # <<activeOrders[Host], currentBudget[Host]>>

BudgetNotReceived(c) == currentBudget[c]                     \* mutant
ReceivedBudget(c) ==
    IF sentBudget[c] # currentBudget[Host] THEN currentBudget[Host]
                                           ELSE currentBudget[c]

\* The server sends the properties that differ from what it last sent; the
\* client runs the notification of ActiveOrders if its own copy changes.
ReplicateStore(c) ==
    /\ serverUp
    /\ c \in connected \ {Host}
    /\ StoreDiffers(c)
    /\ IF activeOrders[Host] \notin {sentOrders[c], activeOrders[c]}
       THEN OnRep_ActiveOrders(c, activeOrders[Host])
       ELSE UNCHANGED boardVars
    /\ currentBudget' = [currentBudget EXCEPT ![c] = ReceivedBudget(c)]
    /\ sentOrders' = [sentOrders EXCEPT ![c] = activeOrders[Host]]
    /\ sentBudget' = [sentBudget EXCEPT ![c] = currentBudget[Host]]
    /\ UNCHANGED <<worldVars, begunPlay, boxesBound, orderTimers>>

\* With its process, a client that leaves loses its copy of the store.
StoreForget(c) ==
    /\ activeOrders' = [activeOrders EXCEPT ![c] = <<>>]
    /\ localActiveOrders' = [localActiveOrders EXCEPT ![c] = <<>>]
    /\ orderBoxes' = [orderBoxes EXCEPT ![c] = <<>>]
    /\ currentBudget' = [currentBudget EXCEPT ![c] = 0]
    /\ begunPlay' = begunPlay \ {c}
    /\ boxesBound' = boxesBound \ {c}
    /\ sentOrders' = [sentOrders EXCEPT ![c] = <<>>]
    /\ sentBudget' = [sentBudget EXCEPT ![c] = 0]
    /\ UNCHANGED orderTimers

StoreLogin(c) == Host \in begunPlay /\ Login(c) /\ UNCHANGED storeOwn
StoreLogout(c) == Logout(c) /\ StoreForget(c)

StoreNext ==
    \/ \E m \in Players : BeginPlay(m) \/ ConstructOrderBox(m)
    \/ \E order \in Order : RequestOrder(order)
    \/ OnConstructedItemPickedUp
    \/ \E info \in ItemInfo \cup {NoItem} : CollectOrder(info)
    \/ SpendBudget(ConstructCost)
    \/ \E c \in Clients :
         ReplicateStore(c) \/ StoreLogin(c) \/ StoreLogout(c)

StoreSpec == StoreInit /\ [][StoreNext]_storeVars

\* Timers fire, and the server goes on sending what has changed.
StoreFairness ==
    /\ WF_storeVars(\E order \in Order : RequestOrder(order))
    /\ \A c \in Clients : WF_storeVars(ReplicateStore(c))

FairStoreSpec == StoreSpec /\ StoreFairness

-----------------------------------------------------------------------------
(* Properties *)

\* Every variable of the store has its type.
StoreTypeOK ==
    /\ WorldTypeOK
    /\ activeOrders \in [Players -> Seq(Order)]
    /\ localActiveOrders \in [Players -> Seq(Order)]
    /\ orderBoxes \in [Players -> Seq(Order)]
    /\ currentBudget \in [Players -> Nat]
    /\ begunPlay \subseteq Players
    /\ boxesBound \subseteq Players
    /\ orderTimers \in Nat
    /\ sentOrders \in [Clients -> Seq(Order)]
    /\ sentBudget \in [Clients -> Nat]

\* What the server displays is what is ordered: although OnRep_ActiveOrders
\* compares by index, on the server it runs after every single change, and its
\* widget may be constructed at any point between two of them.
HostBoardExact ==
    Host \in boxesBound => orderBoxes[Host] = activeOrders[Host]

\* On every machine the number of boxes is the number of orders, whichever
\* states replication skips and whenever the widget came to be.
BoxCountInStep ==
    \A m \in boxesBound : Len(orderBoxes[m]) = Len(activeOrders[m])

\* A client shows a budget other than the one last sent to it only if its own
\* BeginPlay has put StartingBudget over it.
BudgetSentOrStarting ==
    \A c \in connected \cap Clients :
        \/ currentBudget[c] = sentBudget[c]
        \/ c \in begunPlay /\ currentBudget[c] = StartingBudget

\* A connected client keeps catching up with the server's orders, however
\* often they change, and never settles on an old list.
OrdersCatchUp ==
    \A c \in Clients :
        []<>( \/ activeOrders[c] = activeOrders[Host]
              \/ c \notin connected
              \/ ~serverUp )

\* Once an order is awaited by an empty store, an order comes.
AwaitedOrderComes ==
    (orderTimers > 0 /\ activeOrders[Host] = <<>>)
        ~> (activeOrders[Host] # <<>> \/ ~serverUp)

\* What the comments of OnRep_ActiveOrders claim, that it finds the orders that
\* are new and the orders that are gone: a machine displays its own orders.
BoxesAreOrders ==
    \A m \in boxesBound : orderBoxes[m] = activeOrders[m]
=============================================================================
