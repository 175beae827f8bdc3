--------------------------- MODULE ChippingTable ---------------------------
(***************************************************************************)
(* BP_ChippingTable, the Blueprint between AItem::OnPickedUp and           *)
(* AStore::OnConstructedItemPickedUp: the item that lies on each table, and *)
(* the delegates through which a table hears that one was picked up.       *)
(***************************************************************************)
EXTENDS World

VARIABLES
    constructedItem,    \* [table -> its ConstructedItem, on the server]
    boundTable,         \* [item -> the table bound to its OnPickedUp]
    seenConstructed     \* [client -> [table -> ConstructedItem there]]

tableServer == <<constructedItem, boundTable>>
tableOwn    == <<tableServer, seenConstructed>>

EmptyTables == [t \in Tables |-> NoItem]

TableInit ==
    /\ constructedItem = EmptyTables
    /\ boundTable = [i \in Items |-> NoTable]
    /\ seenConstructed = [c \in Clients |-> EmptyTables]

NotBound(t, i) ==                                             \* mutant
    /\ constructedItem' = [constructedItem EXCEPT ![t] = i]
    /\ UNCHANGED <<boundTable, seenConstructed>>

\* OnConstructedItemSpawnedByServer: the table takes the new item, whatever it
\* held, and binds to its OnPickedUp.
OnConstructedItemSpawned(t, i) ==
    /\ constructedItem' = [constructedItem EXCEPT ![t] = i]
    /\ boundTable' = [boundTable EXCEPT ![i] = t]
    /\ UNCHANGED seenConstructed

\* OnPickedUp of item i is broadcast.  The bound table unbinds from the item it
\* holds now, which need not be i, and is empty.
OnItemPickedUp(i) ==
    LET t == boundTable[i]
    IN  /\ constructedItem' = [u \in Tables |->
                                 IF u = t THEN NoItem ELSE constructedItem[u]]
        /\ boundTable' = [j \in Items |->
                            IF t # NoTable /\ constructedItem[t] = j
                            THEN NoTable ELSE boundTable[j]]
        /\ UNCHANGED seenConstructed

\* The ConstructedItem of a table reaches a client on which the items known
\* exist; a reference to any other reads as null.
ReplicateTable(c, t, known) ==
    LET constructed == IF constructedItem[t] \in known THEN constructedItem[t]
                                                       ELSE NoItem
    IN  /\ seenConstructed[c][t] # constructed
        /\ seenConstructed' = [seenConstructed EXCEPT ![c][t] = constructed]
        /\ UNCHANGED tableServer

TableForget(c) ==
    /\ seenConstructed' = [seenConstructed EXCEPT ![c] = EmptyTables]
    /\ UNCHANGED tableServer

TableTypeOK ==
    /\ constructedItem \in [Tables -> Items \cup {NoItem}]
    /\ boundTable \in [Items -> Tables \cup {NoTable}]
    /\ seenConstructed \in [Clients -> [Tables -> Items \cup {NoItem}]]
=============================================================================
