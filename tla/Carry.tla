------------------------------- MODULE Carry -------------------------------
(***************************************************************************)
(* AItem and the carrying half of ACarpenterDemoCharacter: which items     *)
(* exist, what they are, whether they have been picked up, who carries     *)
(* them, and the copies of all this on the clients.                        *)
(*                                                                         *)
(* Like Store, the server part accepts any call at any time.               *)
(***************************************************************************)
EXTENDS World

VARIABLES
    items,          \* the items that exist on the server
    itemInfo,       \* [item ever spawned -> ItemInfo, on the server]
    pickedUp,       \* the items whose bPickedUp is set on the server
    carriedItem,    \* [player -> CarriedItem of its character, on the server]
    knownItems,     \* [client -> the items that exist on it]
    seenPickedUp,   \* [client -> the items whose bPickedUp is set on it]
    seenCarried     \* [client -> [player -> CarriedItem, on that client]]

carryServer == <<items, itemInfo, pickedUp, carriedItem>>
carryViews  == <<knownItems, seenPickedUp, seenCarried>>
carryOwn    == <<carryServer, carryViews>>
carryVars   == <<worldVars, carryOwn>>

spawned == DOMAIN itemInfo

NobodyCarries == [p \in Players |-> NoItem]

CarryInit ==
    /\ WorldInit
    /\ items = {}
    /\ itemInfo = [i \in {} |-> NoItem]
    /\ pickedUp = {}
    /\ carriedItem = NobodyCarries
    /\ knownItems = [c \in Clients |-> {}]
    /\ seenPickedUp = [c \in Clients |-> {}]
    /\ seenCarried = [c \in Clients |-> NobodyCarries]

-----------------------------------------------------------------------------
(* The server's items and characters *)

HasItem(p) == carriedItem[p] # NoItem

\* A new item, given its shape and FColor::Silver by SetItemInfo.
SpawnItem(i, shape) ==
    /\ serverUp
    /\ i \in Items \ spawned
    /\ itemInfo' = [j \in spawned \cup {i} |->
                      IF j = i THEN [color |-> Silver, shape |-> shape]
                               ELSE itemInfo[j]]
    /\ items' = items \cup {i}
    /\ UNCHANGED <<worldVars, pickedUp, carriedItem, carryViews>>

ValidateAnyItem(p, i) == i \in items /\ ~HasItem(p)            \* mutant

Server_PickupItem_Validate(p, i) ==
    /\ i \in items
    /\ i \notin pickedUp
    /\ ~HasItem(p)

\* The implementation, with OnRep_CarriedItem and PickedUp called by hand.
Server_PickupItem(p, i) ==
    /\ serverUp
    /\ p \in connected
    /\ Server_PickupItem_Validate(p, i)
    /\ carriedItem' = [carriedItem EXCEPT ![p] = i]
    /\ pickedUp' = pickedUp \cup {i}
    /\ UNCHANGED <<worldVars, items, itemInfo, carryViews>>

WrongField(info, color) == [info EXCEPT !.shape = color]      \* mutant
Coloured(info, color) == [info EXCEPT !.color = color]

\* Server_ChangeColorItem: a painter colours what the character carries.
SetColor(p, color) ==
    /\ serverUp
    /\ p \in connected
    /\ HasItem(p)
    /\ itemInfo' = [itemInfo EXCEPT ![carriedItem[p]] = Coloured(@, color)]
    /\ UNCHANGED <<worldVars, items, pickedUp, carriedItem, carryViews>>

DeliveredKept(p) ==                                           \* mutant
    /\ serverUp
    /\ p \in connected
    /\ HasItem(p)
    /\ items' = items \ {carriedItem[p]}
    /\ UNCHANGED <<worldVars, itemInfo, pickedUp, carriedItem, carryViews>>

DeliveredItem(p) ==
    /\ serverUp
    /\ p \in connected
    /\ HasItem(p)
    /\ items' = items \ {carriedItem[p]}
    /\ carriedItem' = [carriedItem EXCEPT ![p] = NoItem]
    /\ UNCHANGED <<worldVars, itemInfo, pickedUp, carryViews>>

-----------------------------------------------------------------------------
(* Replication to the clients, one actor at a time *)

\* The item's actor channel opens, or brings a changed bPickedUp.
ReplicateItem(c, i) ==
    /\ serverUp
    /\ c \in connected
    /\ i \in items
    /\ i \notin knownItems[c] \/ i \in pickedUp \ seenPickedUp[c]
    /\ knownItems' = [knownItems EXCEPT ![c] = @ \cup {i}]
    /\ seenPickedUp' = [seenPickedUp EXCEPT ![c] = @ \cup ({i} \cap pickedUp)]
    /\ UNCHANGED <<worldVars, carryServer, seenCarried>>

\* The channel of an item destroyed on the server closes.
ReplicateDestroyed(c, i) ==
    /\ serverUp
    /\ c \in connected
    /\ i \in knownItems[c] \ items
    /\ knownItems' = [knownItems EXCEPT ![c] = @ \ {i}]
    /\ UNCHANGED <<worldVars, carryServer, seenPickedUp, seenCarried>>

\* The CarriedItem of a character as client c receives it: a reference to an
\* item the client does not have reads as null.
NullNotSent(c, p) ==                                          \* mutant
    IF carriedItem[p] \in knownItems[c] THEN carriedItem[p] ELSE seenCarried[c][p]

CarriedOn(c, p) ==
    IF carriedItem[p] \in knownItems[c] THEN carriedItem[p] ELSE NoItem

\* OnRep_CarriedItem calls PickedUp on the client's copy of the item.
ReplicateCarried(c, p) ==
    /\ serverUp
    /\ c \in connected
    /\ seenCarried[c][p] # CarriedOn(c, p)
    /\ seenCarried' = [seenCarried EXCEPT ![c][p] = CarriedOn(c, p)]
    /\ seenPickedUp' =
         [seenPickedUp EXCEPT ![c] = @ \cup ({CarriedOn(c, p)} \ {NoItem})]
    /\ UNCHANGED <<worldVars, carryServer, knownItems>>

ForgetFreesItem(c) ==                                         \* mutant
    /\ carriedItem' = [carriedItem EXCEPT ![c] = NoItem]
    /\ pickedUp' = pickedUp \ {carriedItem[c]}
    /\ knownItems' = [knownItems EXCEPT ![c] = {}]
    /\ seenPickedUp' = [seenPickedUp EXCEPT ![c] = {}]
    /\ seenCarried' = [seenCarried EXCEPT ![c] = NobodyCarries]
    /\ UNCHANGED <<items, itemInfo>>

\* The character of a client that leaves is destroyed, and not what it carries.
CarryForget(c) ==
    /\ carriedItem' = [carriedItem EXCEPT ![c] = NoItem]
    /\ knownItems' = [knownItems EXCEPT ![c] = {}]
    /\ seenPickedUp' = [seenPickedUp EXCEPT ![c] = {}]
    /\ seenCarried' = [seenCarried EXCEPT ![c] = NobodyCarries]
    /\ UNCHANGED <<items, itemInfo, pickedUp>>

CarryLogin(c) == Login(c) /\ UNCHANGED carryOwn
CarryLogout(c) == Logout(c) /\ CarryForget(c)
CarryServerDies == serverUp /\ ServerDies /\ UNCHANGED carryOwn

CarryNext ==
    \/ \E i \in Items, shape \in Shapes : SpawnItem(i, shape)
    \/ \E p \in Players, i \in Items : Server_PickupItem(p, i)
    \/ \E p \in Players, color \in Colors : SetColor(p, color)
    \/ \E p \in Players : DeliveredItem(p)
    \/ \E c \in Clients, i \in Items : ReplicateItem(c, i)
    \/ \E c \in Clients, i \in Items : ReplicateDestroyed(c, i)
    \/ \E c \in Clients, p \in Players : ReplicateCarried(c, p)
    \/ \E c \in Clients : CarryLogin(c) \/ CarryLogout(c)
    \/ CarryServerDies

CarrySpec == CarryInit /\ [][CarryNext]_carryVars

\* The server goes on replicating every actor that differs on a client.
CarryFairness ==
    /\ \A c \in Clients, i \in Items :
         WF_carryVars(ReplicateItem(c, i)) /\ WF_carryVars(ReplicateDestroyed(c, i))
    /\ \A c \in Clients, p \in Players : WF_carryVars(ReplicateCarried(c, p))

FairCarrySpec == CarrySpec /\ CarryFairness

-----------------------------------------------------------------------------
(* Properties *)

\* Every variable of items and characters has its type.
CarryTypeOK ==
    /\ WorldTypeOK
    /\ spawned \subseteq Items
    /\ itemInfo \in [spawned -> ItemInfo]
    /\ items \subseteq spawned
    /\ pickedUp \subseteq spawned
    /\ carriedItem \in [Players -> Items \cup {NoItem}]
    /\ knownItems \in [Clients -> SUBSET spawned]
    /\ seenPickedUp \in [Clients -> SUBSET spawned]
    /\ seenCarried \in [Clients -> [Players -> Items \cup {NoItem}]]

\* Two characters never carry the same item, however their unreliable
\* Server_PickupItem calls race.
OneCarrier ==
    \A p, q \in Players : p # q /\ HasItem(p) => carriedItem[p] # carriedItem[q]

\* What a character carries exists and is marked as picked up, so that no other
\* player's OnInteract is offered it; a character without a machine carries
\* nothing.
CarriedIsTaken ==
    \A p \in Players :
        HasItem(p) => p \in connected /\ carriedItem[p] \in items \cap pickedUp

\* A client never takes for picked up what the server does not: it never loses
\* the use of an item that is free.
ViewsNeverAhead ==
    \A c \in Clients :
        /\ seenPickedUp[c] \subseteq pickedUp
        /\ \A p \in Players : seenCarried[c][p] \in pickedUp \cup {NoItem}

\* No screen ever shows an item in the hands of two characters, although the
\* characters replicate independently and may be shown as of different times.
SeenOneCarrier ==
    \A c \in Clients : \A p, q \in Players :
        p # q /\ seenCarried[c][p] # NoItem => seenCarried[c][p] # seenCarried[c][q]

\* An item changes hands at most once: who takes it takes it from nobody, and
\* once let go it is never taken again.
TakenOnce ==
    [][ \A p \in Players :
          carriedItem'[p] \notin {NoItem, carriedItem[p]}
            => carriedItem'[p] \notin pickedUp ]_carryVars

\* An item leaves the hands of its carrier and goes on existing only because the
\* carrier's machine has left: a delivered item is destroyed with the hand-over.
DroppedOnlyByLogout ==
    [][ \A p \in Players :
          carriedItem[p] \in items' /\ carriedItem'[p] # carriedItem[p]
            => p \notin connected' ]_carryVars

\* A connected client comes to know what its own character carries, which its
\* next interactions depend on, unless that keeps changing.
OwnHandsSeen ==
    \A c \in Clients :
        []<>( \/ seenCarried[c][c] = carriedItem[c]
              \/ c \notin connected
              \/ ~serverUp )

Holders(i) == {p \in Players : carriedItem[p] = i}

\* Where an item is, as its two flags and the carriers' references say together.
Stage(i) ==
    IF i \notin spawned THEN "unmade"
    ELSE IF i \notin items THEN "delivered"
    ELSE IF i \notin pickedUp THEN "free"
    ELSE IF Holders(i) = {} THEN "stranded"
    ELSE "held"

WhereIs(i) == [at |-> Stage(i), by |-> Holders(i)]

places == INSTANCE Custody WITH where <- [i \in Items |-> WhereIs(i)]

\* Items and characters keep the promise of Custody, although being spawned, the
\* taken flag and the carrier are kept by different actors, AItem's destruction,
\* Item.h's bPickedUp and ACarpenterDemoCharacter's CarriedItem.
ItemsInCustody == places!Spec
=============================================================================
