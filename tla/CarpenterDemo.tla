--------------------------- MODULE CarpenterDemo ---------------------------
(***************************************************************************)
(* The game: players at the tables of the level, the server RPCs their     *)
(* characters send, and what the handlers do to the store, the items and   *)
(* the tables.  The host's RPCs run where they are called; a client's      *)
(* travel, the unreliable ones in order or not at all, the reliable ones   *)
(* in order, and either kind may overtake the other.                       *)
(***************************************************************************)
EXTENDS Store, Carry, ChippingTable

CONSTANTS
    MaxCalls,       \* bound: unreliable calls of a client under way
    MaxDelivers     \* bound: reliable calls of a client under way

ASSUME DemoAssumption == {MaxCalls, MaxDelivers} \subseteq Nat

VARIABLES
    calls,          \* [client -> its unreliable calls under way]
    delivers        \* [client -> number of its Server_DeliverItem under way]

callVars == <<calls, delivers>>
vars     == <<worldVars, storeOwn, carryOwn, tableOwn, callVars>>

Call ==
    [rpc : {"Server_PickupItem"}, item : Items]
      \cup [rpc : {"Server_ChangeColorItem"}, color : Colors]
      \cup [rpc : {"Server_ChippingTable_ConstructItem"},
            table : Tables, shape : Shapes]

Init ==
    /\ StoreInit
    /\ CarryInit
    /\ TableInit
    /\ calls = [c \in Clients |-> <<>>]
    /\ delivers = [c \in Clients |-> 0]

-----------------------------------------------------------------------------
(* What a player's machine checks before it calls the server.  The host looks *)
(* at the server's state, a client at its own copy of it.                     *)

ItemOffered(p, i) ==
    IF p = Host
    THEN i \in items \ pickedUp /\ ~HasItem(Host)
    ELSE i \in knownItems[p] \ seenPickedUp[p] /\ seenCarried[p][p] = NoItem

HandsFull(p) ==
    IF p = Host THEN HasItem(Host) ELSE seenCarried[p][p] # NoItem

TableOffered(p, t) ==
    /\ currentBudget[p] >= ConstructCost
    /\ IF p = Host THEN constructedItem[t] = NoItem
                   ELSE seenConstructed[p][t] \notin knownItems[p]

MayCall(p, call) ==
    CASE call.rpc = "Server_PickupItem" -> ItemOffered(p, call.item)
      [] call.rpc = "Server_ChangeColorItem" -> HandsFull(p)
      [] OTHER -> TableOffered(p, call.table)

-----------------------------------------------------------------------------
(* The handlers on the server *)

\* A picked up item is announced to the table bound to it, which tells the
\* store; an item no table is bound to is picked up unheard.
PickUp(p, i) ==
    /\ Server_PickupItem(p, i)
    /\ OnItemPickedUp(i)
    /\ IF boundTable[i] # NoTable THEN OnConstructedItemPickedUp
                                  ELSE UNCHANGED storeOwn

DisconnectKeepsStore(c) ==                                    \* mutant
    /\ Logout(c) /\ UNCHANGED storeOwn
    /\ CarryForget(c)
    /\ TableForget(c)

DisconnectKeepsCharacter(c) ==                                \* mutant
    /\ StoreLogout(c)
    /\ UNCHANGED carryOwn
    /\ TableForget(c)

\* A call of a client that fails validation costs it its connection.
Disconnect(c) ==
    /\ StoreLogout(c)
    /\ CarryForget(c)
    /\ TableForget(c)

\* The first order comes a tick after BeginPlay, before a player could have
\* walked to a table; until an item exists there is no other timer.
FirstOrderPlaced == spawned # {} \/ orderTimers = 0

\* Server_ChippingTable_ConstructItem looks at neither budget nor table.
ConstructItem(t, shape) ==
    /\ FirstOrderPlaced
    /\ \E i \in Items :
         /\ SpawnItem(i, shape)
         /\ OnConstructedItemSpawned(t, i)
    /\ SpendBudget(ConstructCost)

\* Server_DeliverItem: Store.CollectOrder(GetItem()), then DeliveredItem.
DeliverItem(p) ==
    /\ p \in connected
    /\ CollectOrder(IF HasItem(p) THEN itemInfo[carriedItem[p]] ELSE NoItem)
    /\ IF serverUp' THEN DeliveredItem(p) ELSE UNCHANGED carryOwn
    /\ UNCHANGED tableOwn

\* A painter's colour for what the character carries, if it carries anything.
ChangeColorItem(p, color) ==
    /\ IF HasItem(p) THEN SetColor(p, color) ELSE UNCHANGED carryVars
    /\ UNCHANGED <<storeOwn, tableOwn>>

-----------------------------------------------------------------------------
(* The host *)

HostCalls ==
    /\ \/ \E i \in Items : ItemOffered(Host, i) /\ PickUp(Host, i)
       \/ \E color \in Colors : HandsFull(Host) /\ ChangeColorItem(Host, color)
       \/ HandsFull(Host) /\ DeliverItem(Host)
       \/ \E t \in Tables, shape \in Shapes :
            TableOffered(Host, t) /\ ConstructItem(t, shape)
    /\ UNCHANGED callVars

-----------------------------------------------------------------------------
(* A client *)

Send(c, call) ==
    /\ serverUp
    /\ c \in connected
    /\ Len(calls[c]) < MaxCalls
    /\ MayCall(c, call)
    /\ calls' = [calls EXCEPT ![c] = Append(@, call)]
    /\ UNCHANGED <<storeVars, carryOwn, tableOwn, delivers>>

SendDeliver(c) ==
    /\ serverUp
    /\ c \in connected
    /\ delivers[c] < MaxDelivers
    /\ HandsFull(c)
    /\ delivers' = [delivers EXCEPT ![c] = @ + 1]
    /\ UNCHANGED <<storeVars, carryOwn, tableOwn, calls>>

Hangup(c) ==
    /\ calls' = [calls EXCEPT ![c] = <<>>]
    /\ delivers' = [delivers EXCEPT ![c] = 0]

Receive(c) ==
    /\ serverUp
    /\ calls[c] # <<>>
    /\ LET call == Head(calls[c])
       IN  \/ /\ call.rpc = "Server_PickupItem"
              /\ IF Server_PickupItem_Validate(c, call.item)
                 THEN /\ PickUp(c, call.item)
                      /\ calls' = [calls EXCEPT ![c] = Tail(@)]
                      /\ UNCHANGED delivers
                 ELSE Disconnect(c) /\ Hangup(c)
           \/ /\ call.rpc = "Server_ChangeColorItem"
              /\ ChangeColorItem(c, call.color)
              /\ calls' = [calls EXCEPT ![c] = Tail(@)]
              /\ UNCHANGED delivers
           \/ /\ call.rpc = "Server_ChippingTable_ConstructItem"
              /\ ConstructItem(call.table, call.shape)
              /\ calls' = [calls EXCEPT ![c] = Tail(@)]
              /\ UNCHANGED delivers

\* An unreliable call is lost.
Lose(c) ==
    /\ serverUp
    /\ calls[c] # <<>>
    /\ calls' = [calls EXCEPT ![c] = Tail(@)]
    /\ UNCHANGED <<storeVars, carryOwn, tableOwn, delivers>>

ReceiveDeliver(c) ==
    /\ delivers[c] > 0
    /\ DeliverItem(c)
    /\ delivers' = [delivers EXCEPT ![c] = @ - 1]
    /\ UNCHANGED calls

Join(c) ==
    /\ StoreLogin(c)
    /\ UNCHANGED <<carryOwn, tableOwn, callVars>>

Leave(c) == Disconnect(c) /\ Hangup(c)

-----------------------------------------------------------------------------
(* The store and the engine on their own *)

StoreSteps ==
    /\ \/ \E m \in Players : BeginPlay(m) \/ ConstructOrderBox(m)
       \/ \E order \in Order : RequestOrder(order)
       \/ \E c \in Clients : ReplicateStore(c)
    /\ UNCHANGED <<carryOwn, tableOwn, callVars>>

ActorSteps ==
    /\ \E c \in Clients :
         \/ /\ \/ \E i \in Items : ReplicateItem(c, i)
               \/ \E i \in Items : ReplicateDestroyed(c, i)
               \/ \E p \in Players : ReplicateCarried(c, p)
            /\ UNCHANGED tableOwn
         \/ /\ serverUp
            /\ c \in connected
            /\ \E t \in Tables : ReplicateTable(c, t, knownItems[c])
            /\ UNCHANGED carryVars
    /\ UNCHANGED <<storeOwn, callVars>>

Next ==
    \/ HostCalls
    \/ \E c \in Clients :
         \/ \E call \in Call : Send(c, call)
         \/ SendDeliver(c)
         \/ Receive(c)
         \/ Lose(c)
         \/ ReceiveDeliver(c)
         \/ Join(c)
         \/ Leave(c)
    \/ StoreSteps
    \/ ActorSteps

Spec == Init /\ [][Next]_vars

-----------------------------------------------------------------------------
(* Properties *)

\* Every variable has its type.
TypeOK ==
    /\ StoreTypeOK
    /\ CarryTypeOK
    /\ TableTypeOK
    /\ calls \in [Clients -> Seq(Call)]
    /\ delivers \in [Clients -> Nat]

Destroyed == spawned \ items

\* The item a table holds lies there free and is the one it listens to, so that
\* picking it up always clears the table and reaches the store.
TableHearsItsItem ==
    \A t \in Tables :
        constructedItem[t] # NoItem =>
            /\ constructedItem[t] \in items \ pickedUp
            /\ boundTable[constructedItem[t]] = t

\* Orders are accounted for: all that are active, awaited or collected are the
\* first one and at most one per item ever picked up.  Nothing double-clicked,
\* lost, raced or disconnected makes the store invent an order.
OrdersAccounted ==
    serverUp /\ Host \in begunPlay =>
        Len(activeOrders[Host]) + orderTimers + Cardinality(Destroyed)
            <= 1 + Cardinality(pickedUp)

\* Money is accounted for: the budget is what the game started with, less at
\* most the cost of each item spawned, plus at most a reward for each destroyed.
BudgetAccounted ==
    Host \in begunPlay =>
        /\ currentBudget[Host] + ConstructCost * Cardinality(spawned)
             >= StartingBudget
        /\ currentBudget[Host]
             <= StartingBudget + OrderReward * Cardinality(Destroyed)

\* What AStore::OnConstructedItemPickedUp is said to be called for: every item
\* constructed at a table and picked up has made the store request an order.
PickupRequestsOrder ==
    serverUp /\ Host \in begunPlay =>
        Len(activeOrders[Host]) + orderTimers + Cardinality(Destroyed)
            >= 1 + Cardinality(pickedUp)

\* What CollectOrder is said to be called for, an item that was delivered: a
\* Server_DeliverItem of a client finds an item in its character's hands.
DeliversAnItem ==
    [][ \A c \in Clients :
          c \in connected' /\ delivers'[c] < delivers[c] => HasItem(c) ]_vars
=============================================================================
