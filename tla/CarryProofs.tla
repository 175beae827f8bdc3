---------------------------- MODULE CarryProofs ----------------------------
(***************************************************************************)
(* Theorems about items and carriers, for every set of players and items.  *)
(***************************************************************************)
EXTENDS Carry, TLAPS

USE DEF spawned

\* The parts of the inductive invariant: types, that what is carried is taken
\* and carried once, and that the clients lag behind.
CarryInv ==
    /\ CarryTypeOK
    /\ OneCarrier
    /\ CarriedIsTaken
    /\ ViewsNeverAhead

LEMMA ClientsConnect ==
    ASSUME WorldTypeOK, NEW c \in Clients, Login(c) \/ Logout(c) \/ ServerDies
    PROVE  WorldTypeOK'
BY WorldAssumption DEF WorldTypeOK, Clients, Login, Logout, ServerDies

\* A fresh session satisfies the invariant.
LEMMA CarryInitInv ==
    ASSUME CarryInit
    PROVE  CarryInv
<1>1. CarryTypeOK
  BY WorldAssumption DEF CarryInit, CarryTypeOK, WorldInit, WorldTypeOK, NobodyCarries
<1>2. OneCarrier /\ CarriedIsTaken /\ ViewsNeverAhead
  BY DEF CarryInit, OneCarrier, CarriedIsTaken, ViewsNeverAhead, HasItem,
         NobodyCarries
<1> QED
  BY <1>1, <1>2 DEF CarryInv

\* Every step of the specification keeps the types.
LEMMA CarryTypeStep ==
    ASSUME CarryTypeOK, [CarryNext]_carryVars
    PROVE  CarryTypeOK'
<1> USE WorldAssumption
<1> USE DEF CarryTypeOK, WorldTypeOK
<1>1. ASSUME NEW i \in Items, NEW shape \in Shapes, SpawnItem(i, shape)
      PROVE  CarryTypeOK'
  BY <1>1 DEF SpawnItem, ItemInfo, carryViews, worldVars
<1>2. ASSUME NEW p \in Players, NEW i \in Items, Server_PickupItem(p, i)
      PROVE  CarryTypeOK'
  BY <1>2 DEF Server_PickupItem, Server_PickupItem_Validate, carryViews, worldVars
<1>3. ASSUME NEW p \in Players, NEW color \in Colors, SetColor(p, color)
      PROVE  CarryTypeOK'
  BY <1>3 DEF SetColor, Coloured, ItemInfo, HasItem, carryViews, worldVars
<1>4. ASSUME NEW p \in Players, DeliveredItem(p)
      PROVE  CarryTypeOK'
  BY <1>4 DEF DeliveredItem, carryViews, worldVars
<1>5. ASSUME NEW c \in Clients, NEW i \in Items, ReplicateItem(c, i)
      PROVE  CarryTypeOK'
  BY <1>5 DEF ReplicateItem, carryServer, worldVars
<1>6. ASSUME NEW c \in Clients, NEW i \in Items, ReplicateDestroyed(c, i)
      PROVE  CarryTypeOK'
  BY <1>6 DEF ReplicateDestroyed, carryServer, worldVars
<1>7. ASSUME NEW c \in Clients, NEW p \in Players, ReplicateCarried(c, p)
      PROVE  CarryTypeOK'
  BY <1>7 DEF ReplicateCarried, CarriedOn, carryServer, worldVars
<1>8. ASSUME NEW c \in Clients, CarryLogin(c) \/ CarryLogout(c)
      PROVE  CarryTypeOK'
  BY <1>8, ClientsConnect
     DEF CarryLogin, CarryLogout, CarryForget, NobodyCarries, Clients,
         carryOwn, carryServer, carryViews
<1>9. CASE CarryServerDies \/ UNCHANGED carryVars
  BY <1>9 DEF CarryServerDies, ServerDies, carryVars, carryOwn, carryServer,
              carryViews, worldVars
<1> QED
  BY <1>1, <1>2, <1>3, <1>4, <1>5, <1>6, <1>7, <1>8, <1>9 DEF CarryNext

\* The hands of a server character change in three ways only: it takes an item
\* that is free, it delivers the one it has, or it goes with its machine.
LEMMA HandsStep ==
    ASSUME CarryTypeOK, [CarryNext]_carryVars
    PROVE  \/ \E p \in connected, i \in items \ pickedUp :
                /\ ~HasItem(p)
                /\ carriedItem' = [carriedItem EXCEPT ![p] = i]
                /\ pickedUp' = pickedUp \cup {i}
                /\ UNCHANGED <<items, connected>>
           \/ \E p \in connected :
                /\ HasItem(p)
                /\ carriedItem' = [carriedItem EXCEPT ![p] = NoItem]
                /\ items' = items \ {carriedItem[p]}
                /\ UNCHANGED <<pickedUp, connected>>
           \/ \E p \in connected :
                /\ carriedItem' = [carriedItem EXCEPT ![p] = NoItem]
                /\ connected' = connected \ {p}
                /\ UNCHANGED <<items, pickedUp>>
           \/ /\ items \subseteq items'
              /\ connected \subseteq connected'
              /\ UNCHANGED <<carriedItem, pickedUp>>
<1> DEFINE Kept == /\ items \subseteq items'
                   /\ connected \subseteq connected'
                   /\ UNCHANGED <<carriedItem, pickedUp>>
<1>1. ASSUME NEW i \in Items, NEW shape \in Shapes, SpawnItem(i, shape)
      PROVE  Kept
  BY <1>1 DEF SpawnItem, worldVars
<1>2. ASSUME NEW p \in Players, NEW i \in Items, Server_PickupItem(p, i)
      PROVE  /\ p \in connected
             /\ i \in items \ pickedUp
             /\ ~HasItem(p)
             /\ carriedItem' = [carriedItem EXCEPT ![p] = i]
             /\ pickedUp' = pickedUp \cup {i}
             /\ UNCHANGED <<items, connected>>
  BY <1>2 DEF Server_PickupItem, Server_PickupItem_Validate, worldVars
<1>3. ASSUME NEW p \in Players, NEW color \in Colors, SetColor(p, color)
      PROVE  Kept
  BY <1>3 DEF SetColor, worldVars
<1>4. ASSUME NEW p \in Players, DeliveredItem(p)
      PROVE  /\ p \in connected
             /\ HasItem(p)
             /\ carriedItem' = [carriedItem EXCEPT ![p] = NoItem]
             /\ items' = items \ {carriedItem[p]}
             /\ UNCHANGED <<pickedUp, connected>>
  BY <1>4 DEF DeliveredItem, worldVars
<1>5. ASSUME NEW c \in Clients, NEW i \in Items,
             ReplicateItem(c, i) \/ ReplicateDestroyed(c, i)
      PROVE  Kept
  BY <1>5 DEF ReplicateItem, ReplicateDestroyed, carryServer, worldVars
<1>6. ASSUME NEW c \in Clients, NEW p \in Players, ReplicateCarried(c, p)
      PROVE  Kept
  BY <1>6 DEF ReplicateCarried, carryServer, worldVars
<1>7. ASSUME NEW c \in Clients, CarryLogin(c)
      PROVE  Kept
  BY <1>7 DEF CarryLogin, Login, carryOwn, carryServer
<1>8. ASSUME NEW c \in Clients, CarryLogout(c)
      PROVE  /\ c \in connected
             /\ carriedItem' = [carriedItem EXCEPT ![c] = NoItem]
             /\ connected' = connected \ {c}
             /\ UNCHANGED <<items, pickedUp>>
  BY <1>8 DEF CarryLogout, Logout, CarryForget
<1>9. ASSUME CarryServerDies \/ UNCHANGED carryVars
      PROVE  Kept
  BY <1>9 DEF CarryServerDies, ServerDies, carryVars, carryOwn, carryServer, worldVars
<1> HIDE DEF Kept
<1>10. CASE Kept
  BY <1>10 DEF Kept
<1>11. CASE \E p \in Players, i \in Items : Server_PickupItem(p, i)
  BY <1>2, <1>11
<1>12. CASE \E p \in Players : DeliveredItem(p)
  BY <1>4, <1>12
<1>13. CASE \E c \in Clients : CarryLogout(c)
  BY <1>8, <1>13
<1>14. Kept \/ (\E p \in Players, i \in Items : Server_PickupItem(p, i))
            \/ (\E p \in Players : DeliveredItem(p))
            \/ (\E c \in Clients : CarryLogout(c))
  <2>1. CASE UNCHANGED carryVars
    BY <2>1, <1>9 DEF Kept
  <2>2. CASE CarryNext
    BY <2>2, <1>1, <1>3, <1>5, <1>6, <1>7, <1>9 DEF CarryNext, Kept
  <2> QED
    BY <2>1, <2>2
<1> QED
  BY <1>10, <1>11, <1>12, <1>13, <1>14

\* Custody: an item in hand stays taken, and taken by one.
LEMMA CustodyStep ==
    ASSUME CarryInv, [CarryNext]_carryVars
    PROVE  OneCarrier' /\ CarriedIsTaken'
<1> USE DEF CarryInv, CarryTypeOK, WorldTypeOK, OneCarrier, CarriedIsTaken, HasItem
<1> USE WorldAssumption
<1>1. ASSUME NEW p \in connected, NEW i \in items \ pickedUp,
             carriedItem' = [carriedItem EXCEPT ![p] = i],
             pickedUp' = pickedUp \cup {i},
             UNCHANGED <<items, connected>>
      PROVE  OneCarrier' /\ CarriedIsTaken'
  BY <1>1
<1>2. ASSUME NEW p \in connected,
             HasItem(p),
             carriedItem' = [carriedItem EXCEPT ![p] = NoItem],
             items' = items \ {carriedItem[p]},
             UNCHANGED <<pickedUp, connected>>
      PROVE  OneCarrier' /\ CarriedIsTaken'
  BY <1>2
<1>3. ASSUME NEW p \in connected,
             carriedItem' = [carriedItem EXCEPT ![p] = NoItem],
             connected' = connected \ {p},
             UNCHANGED <<items, pickedUp>>
      PROVE  OneCarrier' /\ CarriedIsTaken'
  BY <1>3
<1>4. CASE /\ items \subseteq items'
           /\ connected \subseteq connected'
           /\ UNCHANGED <<carriedItem, pickedUp>>
  BY <1>4
<1> QED
  BY <1>1, <1>2, <1>3, <1>4, HandsStep

\* Replication hands a client the server's present state, and bPickedUp is never
\* reset, so what a client has been shown as taken stays taken.
LEMMA ViewsStep ==
    ASSUME CarryInv, [CarryNext]_carryVars
    PROVE  ViewsNeverAhead'
<1> USE DEF CarryInv, CarryTypeOK, ViewsNeverAhead
<1>0. pickedUp \subseteq pickedUp'
  BY HandsStep
<1>1. ASSUME UNCHANGED <<seenPickedUp, seenCarried>>
      PROVE  ViewsNeverAhead'
  BY <1>0, <1>1
<1>2. ASSUME NEW c \in Clients, NEW i \in Items, ReplicateItem(c, i)
      PROVE  ViewsNeverAhead'
  BY <1>0, <1>2 DEF ReplicateItem
<1>3. ASSUME NEW c \in Clients, NEW p \in Players, ReplicateCarried(c, p)
      PROVE  ViewsNeverAhead'
  <2> DEFINE carried == CarriedOn(c, p)
  <2>1. carried \in pickedUp \cup {NoItem}
    BY DEF CarriedOn, CarriedIsTaken, HasItem
  <2>2. /\ seenCarried' = [seenCarried EXCEPT ![c][p] = carried]
        /\ seenPickedUp' =
             [seenPickedUp EXCEPT ![c] = @ \cup ({carried} \ {NoItem})]
    BY <1>3 DEF ReplicateCarried
  <2> HIDE DEF carried
  <2> QED
    BY <1>0, <2>1, <2>2
<1>4. ASSUME NEW c \in Clients, CarryLogout(c)
      PROVE  ViewsNeverAhead'
  BY <1>0, <1>4 DEF CarryLogout, CarryForget, NobodyCarries
<1>5. CASE UNCHANGED carryVars
  BY <1>1, <1>5 DEF carryVars, carryOwn, carryViews
<1>6. CASE CarryNext
  BY <1>1, <1>2, <1>3, <1>4, <1>6
     DEF CarryNext, SpawnItem, Server_PickupItem, SetColor, DeliveredItem,
         ReplicateDestroyed, CarryLogin, CarryServerDies, carryOwn, carryViews
<1> QED
  BY <1>5, <1>6

\* The inductive invariant holds in every state of every session.
THEOREM CarryInvariant == CarrySpec => []CarryInv
<1>1. CarryInit => CarryInv
  BY CarryInitInv
<1>2. CarryInv /\ [CarryNext]_carryVars => CarryInv'
  BY CarryTypeStep, CustodyStep, ViewsStep DEF CarryInv
<1> QED
  BY <1>1, <1>2, PTL DEF CarrySpec

\* Type correctness of items, characters and the clients' copies of them.
THEOREM CarryTyped == CarrySpec => []CarryTypeOK
<1>1. CarryInv => CarryTypeOK
  BY DEF CarryInv
<1> QED
  BY <1>1, CarryInvariant, PTL

\* However their unreliable calls race, no two characters carry the same item.
THEOREM CarryOneCarrier == CarrySpec => []OneCarrier
<1>1. CarryInv => OneCarrier
  BY DEF CarryInv
<1> QED
  BY <1>1, CarryInvariant, PTL

\* What is carried exists, is marked picked up, and has a connected carrier.
THEOREM CarryCarriedIsTaken == CarrySpec => []CarriedIsTaken
<1>1. CarryInv => CarriedIsTaken
  BY DEF CarryInv
<1> QED
  BY <1>1, CarryInvariant, PTL

\* No client believes an item taken that the server still offers.
THEOREM CarryViewsNeverAhead == CarrySpec => []ViewsNeverAhead
<1>1. CarryInv => ViewsNeverAhead
  BY DEF CarryInv
<1> QED
  BY <1>1, CarryInvariant, PTL

\* An item that anybody has ever held is not picked up again by anybody.
THEOREM CarryTakenOnce == CarrySpec => TakenOnce
<1> DEFINE Step == \A p \in Players :
                     carriedItem'[p] \notin {NoItem, carriedItem[p]}
                       => carriedItem'[p] \notin pickedUp
<1>1. CarryInv /\ [CarryNext]_carryVars => Step
  BY HandsStep DEF CarryInv, CarryTypeOK, HasItem
<1>2. CarryInv /\ [CarryNext]_carryVars => [Step]_carryVars
  BY <1>1
<1> QED
  BY <1>2, CarryInvariant, PTL DEF CarrySpec, TakenOnce

\* Only a character whose machine leaves lets go of an item that goes on
\* existing.
THEOREM CarryDroppedOnlyByLogout == CarrySpec => DroppedOnlyByLogout
<1> DEFINE Step == \A p \in Players :
                     carriedItem[p] \in items' /\ carriedItem'[p] # carriedItem[p]
                       => p \notin connected'
<1>1. CarryInv /\ [CarryNext]_carryVars => Step
  BY HandsStep, WorldAssumption
     DEF CarryInv, CarryTypeOK, WorldTypeOK, HasItem
<1>2. CarryInv /\ [CarryNext]_carryVars => [Step]_carryVars
  BY <1>1
<1> QED
  BY <1>2, CarryInvariant, PTL DEF CarrySpec, DroppedOnlyByLogout

-----------------------------------------------------------------------------
(* What a client sees in the hands of others *)

\* What a client saw in a character's hands, now or earlier, is in no other's: not
\* on the server, where an item is taken once, and not on that client.
SeenInNoOthers ==
    \A c \in Clients : \A p, q \in Players :
        p # q /\ seenCarried[c][p] # NoItem =>
            /\ carriedItem[q] # seenCarried[c][p]
            /\ seenCarried[c][q] # seenCarried[c][p]

LEMMA SeenStep ==
    ASSUME CarryInv, SeenInNoOthers, [CarryNext]_carryVars
    PROVE  SeenInNoOthers'
<1> USE DEF CarryInv, CarryTypeOK, SeenInNoOthers
\* Who takes an item takes one that no client has seen in any hands.
<1>1. \A q \in Players : carriedItem'[q] \notin {NoItem, carriedItem[q]}
                           => carriedItem'[q] \notin pickedUp
  BY HandsStep DEF HasItem
<1>2. \A c \in Clients, p \in Players : seenCarried[c][p] \in pickedUp \cup {NoItem}
  BY DEF ViewsNeverAhead
<1>3. CASE UNCHANGED seenCarried
  BY <1>1, <1>2, <1>3
<1>4. ASSUME NEW c \in Clients, NEW p \in Players, ReplicateCarried(c, p)
      PROVE  SeenInNoOthers'
  <2> DEFINE carried == CarriedOn(c, p)
  <2>1. /\ carried \in {carriedItem[p], NoItem}
        /\ seenCarried' = [seenCarried EXCEPT ![c][p] = carried]
        /\ UNCHANGED carriedItem
    BY <1>4 DEF ReplicateCarried, CarriedOn, carryServer
  <2> HIDE DEF carried
  <2>2. \A d \in Clients, q \in Players :
          seenCarried'[d][q] = IF d = c /\ q = p THEN carried ELSE seenCarried[d][q]
    BY <2>1
  <2>3. \A q \in Players \ {p} : carried # NoItem =>
          carriedItem[q] # carried /\ seenCarried[c][q] # carried
    BY <2>1 DEF OneCarrier, HasItem
  <2> QED
    BY <2>1, <2>2, <2>3
<1>5. ASSUME NEW c \in Clients, CarryLogout(c)
      PROVE  SeenInNoOthers'
  <2>1. seenCarried' = [seenCarried EXCEPT ![c] = NobodyCarries]
    BY <1>5 DEF CarryLogout, CarryForget
  <2>2. \A d \in Clients, q \in Players :
          seenCarried'[d][q] \in {NoItem, seenCarried[d][q]}
    BY <2>1 DEF NobodyCarries
  <2>3. \A d \in Clients, q \in Players :
          d # c => seenCarried'[d][q] = seenCarried[d][q]
    BY <2>1
  <2>4. \A q \in Players : seenCarried'[c][q] = NoItem
    BY <2>1 DEF NobodyCarries
  <2> QED
    BY <1>1, <1>2, <2>3, <2>4
<1>6. UNCHANGED seenCarried \/ (\E c \in Clients, p \in Players : ReplicateCarried(c, p))
        \/ (\E c \in Clients : CarryLogout(c))
  <2>1. CASE UNCHANGED carryVars
    BY <2>1 DEF carryVars, carryOwn, carryViews
  <2>2. CASE CarryNext
    BY <2>2
       DEF CarryNext, SpawnItem, Server_PickupItem, SetColor, DeliveredItem,
           ReplicateItem, ReplicateDestroyed, CarryLogin, CarryServerDies, carryOwn,
           carryViews
  <2> QED
    BY <2>1, <2>2
<1> QED
  BY <1>3, <1>4, <1>5, <1>6

\* No client ever shows one item in two characters' hands, although it may show
\* each as of another time.
THEOREM CarrySeenOneCarrier == CarrySpec => []SeenOneCarrier
<1>1. CarryInit => SeenInNoOthers
  BY DEF CarryInit, SeenInNoOthers, NobodyCarries
<1>2. CarryInv /\ SeenInNoOthers /\ [CarryNext]_carryVars => SeenInNoOthers'
  BY SeenStep
<1>3. SeenInNoOthers => SeenOneCarrier
  BY DEF SeenInNoOthers, SeenOneCarrier
<1> QED
  BY <1>1, <1>2, <1>3, CarryInvariant, PTL DEF CarrySpec

-----------------------------------------------------------------------------
(* The refinement of Custody *)

wheres == [i \in Items |-> WhereIs(i)]

\* What decides the place of an item changes in five ways only.
LEMMA PlacesStep ==
    ASSUME CarryTypeOK, [CarryNext]_carryVars
    PROVE  \/ \E i \in Items \ spawned :
                /\ items' = items \cup {i}
                /\ spawned' = spawned \cup {i}
                /\ UNCHANGED <<pickedUp, carriedItem>>
           \/ \E p \in Players, i \in items \ pickedUp :
                /\ ~HasItem(p)
                /\ carriedItem' = [carriedItem EXCEPT ![p] = i]
                /\ pickedUp' = pickedUp \cup {i}
                /\ UNCHANGED <<items, spawned>>
           \/ \E p \in Players :
                /\ HasItem(p)
                /\ carriedItem' = [carriedItem EXCEPT ![p] = NoItem]
                /\ items' = items \ {carriedItem[p]}
                /\ UNCHANGED <<pickedUp, spawned>>
           \/ \E p \in Players :
                /\ carriedItem' = [carriedItem EXCEPT ![p] = NoItem]
                /\ UNCHANGED <<items, pickedUp, spawned>>
           \/ UNCHANGED <<items, pickedUp, carriedItem, spawned>>
<1> DEFINE Same == UNCHANGED <<items, pickedUp, carriedItem, spawned>>
<1>1. ASSUME NEW i \in Items, NEW shape \in Shapes, SpawnItem(i, shape)
      PROVE  /\ i \notin spawned
             /\ items' = items \cup {i}
             /\ spawned' = spawned \cup {i}
             /\ UNCHANGED <<pickedUp, carriedItem>>
  BY <1>1 DEF SpawnItem, carryViews, worldVars
<1>2. ASSUME NEW p \in Players, NEW i \in Items, Server_PickupItem(p, i)
      PROVE  /\ i \in items \ pickedUp
             /\ ~HasItem(p)
             /\ carriedItem' = [carriedItem EXCEPT ![p] = i]
             /\ pickedUp' = pickedUp \cup {i}
             /\ UNCHANGED <<items, spawned>>
  BY <1>2 DEF Server_PickupItem, Server_PickupItem_Validate
<1>3. ASSUME NEW p \in Players, NEW color \in Colors, SetColor(p, color)
      PROVE  Same
  BY <1>3 DEF SetColor, CarryTypeOK
<1>4. ASSUME NEW p \in Players, DeliveredItem(p)
      PROVE  /\ HasItem(p)
             /\ carriedItem' = [carriedItem EXCEPT ![p] = NoItem]
             /\ items' = items \ {carriedItem[p]}
             /\ UNCHANGED <<pickedUp, spawned>>
  BY <1>4 DEF DeliveredItem
<1>5. ASSUME NEW c \in Clients, NEW i \in Items,
             ReplicateItem(c, i) \/ ReplicateDestroyed(c, i)
      PROVE  Same
  BY <1>5 DEF ReplicateItem, ReplicateDestroyed, carryServer
<1>6. ASSUME NEW c \in Clients, NEW p \in Players, ReplicateCarried(c, p)
      PROVE  Same
  BY <1>6 DEF ReplicateCarried, carryServer
<1>7. ASSUME NEW c \in Clients, CarryLogout(c)
      PROVE  /\ c \in Players
             /\ carriedItem' = [carriedItem EXCEPT ![c] = NoItem]
             /\ UNCHANGED <<items, pickedUp, spawned>>
  BY <1>7 DEF CarryLogout, CarryForget, Clients
<1>8. ASSUME \/ \E c \in Clients : CarryLogin(c)
             \/ CarryServerDies
             \/ UNCHANGED carryVars
      PROVE  Same
  BY <1>8 DEF CarryLogin, CarryServerDies, carryVars, carryOwn, carryServer
<1> HIDE DEF Same
<1>9. \/ \E i \in Items, shape \in Shapes : SpawnItem(i, shape)
      \/ \E p \in Players, i \in Items : Server_PickupItem(p, i)
      \/ \E p \in Players : DeliveredItem(p)
      \/ \E c \in Clients : CarryLogout(c)
      \/ Same
  <2>1. CASE UNCHANGED carryVars
    BY <2>1, <1>8
  <2>2. CASE CarryNext
    BY <2>2, <1>3, <1>5, <1>6, <1>8 DEF CarryNext
  <2> QED
    BY <2>1, <2>2
<1>10. CASE \E i \in Items, shape \in Shapes : SpawnItem(i, shape)
  BY <1>1, <1>10
<1>11. CASE \E p \in Players, i \in Items : Server_PickupItem(p, i)
  BY <1>2, <1>11
<1>12. CASE \E p \in Players : DeliveredItem(p)
  BY <1>4, <1>12
<1>13. CASE \E c \in Clients : CarryLogout(c)
  BY <1>7, <1>13
<1>14. CASE Same
  BY <1>14 DEF Same
<1> QED
  BY <1>9, <1>10, <1>11, <1>12, <1>13, <1>14

\* Who carries nothing holds nothing, and who carries an item holds it alone.
LEMMA HoldersAre ==
    ASSUME CarryInv
    PROVE  /\ \A p \in Players, i \in Items : p \in Holders(i) <=> carriedItem[p] = i
           /\ \A p \in Players :
                HasItem(p) => /\ carriedItem[p] \in Items \cap items \cap pickedUp
                              /\ Holders(carriedItem[p]) = {p}
           /\ \A i \in Items : i \notin items \cap pickedUp => Holders(i) = {}
           /\ items \subseteq spawned /\ pickedUp \subseteq spawned
           /\ spawned \subseteq Items
BY WorldAssumption
   DEF CarryInv, CarryTypeOK, OneCarrier, CarriedIsTaken, HasItem, Holders

\* One item's place changes: its stage and its holders do, and no other's.
LEMMA OneMoves ==
    ASSUME NEW i \in Items, NEW a, NEW h,
           Stage(i)' = a, Holders(i)' = h,
           \A j \in Items \ {i} : Stage(j)' = Stage(j) /\ Holders(j)' = Holders(j)
    PROVE  wheres' = [wheres EXCEPT ![i] = [at |-> a, by |-> h]]
BY DEF wheres, WhereIs

LEMMA ItsPlace ==
    ASSUME NEW i \in Items
    PROVE  wheres[i] = [at |-> Stage(i), by |-> Holders(i)]
BY DEF wheres, WhereIs

LEMMA OtherHolders ==
    ASSUME NEW a, NEW h, NEW g, h # g
    PROVE  [at |-> a, by |-> h] # [at |-> "held", by |-> g]
<1>1. [at |-> a, by |-> h].by = h
  OBVIOUS
<1>2. [at |-> "held", by |-> g].by = g
  OBVIOUS
<1> QED
  BY <1>1, <1>2

\* A step of items and characters is a step of Custody or changes no place.
LEMMA CustodyRefined ==
    ASSUME CarryInv, [CarryNext]_carryVars
    PROVE  places!Next \/ wheres' = wheres
<1> USE HoldersAre, WorldAssumption
<1> USE DEF places!Moves, places!Place
<1>0. carriedItem \in [Players -> Items \cup {NoItem}] /\ NoItem \notin Items
  BY DEF CarryInv, CarryTypeOK
<1>1. ASSUME NEW i \in Items \ spawned,
             items' = items \cup {i},
             spawned' = spawned \cup {i},
             UNCHANGED <<pickedUp, carriedItem>>
      PROVE  places!Make(i)
  <2>1. Stage(i) = "unmade" /\ Holders(i) = {}
    BY DEF Stage
  <2>2. \A j \in Items : Holders(j)' = Holders(j)
    BY <1>1 DEF Holders
  <2>3. Stage(i)' = "free" /\ \A j \in Items \ {i} : Stage(j)' = Stage(j)
    BY <1>1, <2>2 DEF Stage
  <2>4. wheres' = [wheres EXCEPT ![i] = places!Free]
    BY <2>1, <2>2, <2>3, OneMoves DEF places!Free
  <2>5. wheres[i] = places!Unmade
    BY <2>1, ItsPlace DEF places!Unmade
  <2> QED
    BY <2>4, <2>5 DEF places!Make, wheres
<1>2. ASSUME NEW p \in Players, NEW i \in items \ pickedUp,
             ~HasItem(p),
             carriedItem' = [carriedItem EXCEPT ![p] = i],
             pickedUp' = pickedUp \cup {i},
             UNCHANGED <<items, spawned>>
      PROVE  i \in Items /\ places!Take(p, i)
  <2>0. i \in Items /\ carriedItem[p] = NoItem
    BY <1>2 DEF HasItem
  <2>1. Stage(i) = "free" /\ Holders(i) = {}
    BY <2>0 DEF Stage
  <2>2. Holders(i)' = {p} /\ \A j \in Items \ {i} : Holders(j)' = Holders(j)
    BY <1>0, <1>2, <2>0, <2>1 DEF Holders
  <2>3. Stage(i)' = "held" /\ \A j \in Items \ {i} : Stage(j)' = Stage(j)
    BY <1>2, <2>2 DEF Stage
  <2>4. \A j \in Items : p \notin Holders(j)
    BY <1>0, <2>0
  <2>5. wheres' = [wheres EXCEPT ![i] = places!Held(p)]
    BY <2>0, <2>2, <2>3, OneMoves DEF places!Held
  <2>6. \A j \in Items : wheres[j] # places!Held(p)
    <3>1. \A j \in Items : Holders(j) # {p}
      BY <2>4
    <3> TAKE j \in Items
    <3>2. wheres[j] = [at |-> Stage(j), by |-> Holders(j)]
      BY ItsPlace
    <3>3. [at |-> Stage(j), by |-> Holders(j)] # [at |-> "held", by |-> {p}]
      BY <3>1, OtherHolders
    <3> QED
      BY ONLY <3>2, <3>3 DEF places!Held
  <2>7. wheres[i] = places!Free
    BY <2>0, <2>1, ItsPlace DEF places!Free
  <2> QED
    BY <2>0, <2>5, <2>6, <2>7 DEF places!Take, wheres
<1>3. ASSUME NEW p \in Players, NEW i \in Items,
             HasItem(p), i = carriedItem[p],
             carriedItem' = [carriedItem EXCEPT ![p] = NoItem],
             items' = items \ {i},
             UNCHANGED <<pickedUp, spawned>>
      PROVE  places!Deliver(p, i)
  <2>1. Stage(i) = "held" /\ Holders(i) = {p}
    BY <1>3 DEF Stage
  <2>2. Holders(i)' = {} /\ \A j \in Items \ {i} : Holders(j)' = Holders(j)
    BY <1>0, <1>3, <2>1 DEF Holders
  <2>3. Stage(i)' = "delivered" /\ \A j \in Items \ {i} : Stage(j)' = Stage(j)
    BY <1>3, <2>1, <2>2 DEF Stage
  <2>4. wheres' = [wheres EXCEPT ![i] = places!Delivered]
    BY <2>1, <2>2, <2>3, OneMoves DEF places!Delivered
  <2>5. wheres[i] = places!Held(p)
    BY <2>1, ItsPlace DEF places!Held
  <2> QED
    BY <2>4, <2>5 DEF places!Deliver, wheres
<1>4. ASSUME NEW p \in Players, NEW i \in Items,
             HasItem(p), i = carriedItem[p],
             carriedItem' = [carriedItem EXCEPT ![p] = NoItem],
             UNCHANGED <<items, pickedUp, spawned>>
      PROVE  places!Strand(p, i)
  <2>1. Stage(i) = "held" /\ Holders(i) = {p}
    BY <1>4 DEF Stage
  <2>2. Holders(i)' = {} /\ \A j \in Items \ {i} : Holders(j)' = Holders(j)
    BY <1>0, <1>4, <2>1 DEF Holders
  <2>3. Stage(i)' = "stranded" /\ \A j \in Items \ {i} : Stage(j)' = Stage(j)
    BY <1>4, <2>2 DEF Stage
  <2>4. wheres' = [wheres EXCEPT ![i] = places!Stranded]
    BY <2>1, <2>2, <2>3, OneMoves DEF places!Stranded
  <2>5. wheres[i] = places!Held(p)
    BY <2>1, ItsPlace DEF places!Held
  <2> QED
    BY <2>4, <2>5 DEF places!Strand, wheres
<1>5. CASE UNCHANGED <<items, pickedUp, carriedItem, spawned>>
  BY <1>5 DEF wheres, WhereIs, Stage, Holders
<1>6. ASSUME NEW p \in Players, ~HasItem(p),
             carriedItem' = [carriedItem EXCEPT ![p] = NoItem],
             UNCHANGED <<items, pickedUp, spawned>>
      PROVE  wheres' = wheres
  <2>1. UNCHANGED carriedItem
    BY <1>0, <1>6 DEF HasItem
  <2> QED
    BY <1>6, <2>1 DEF wheres, WhereIs, Stage, Holders
<1>7. CarryTypeOK
  BY DEF CarryInv
<1> QED
  BY <1>1, <1>2, <1>3, <1>4, <1>5, <1>6, <1>7, PlacesStep DEF places!Next

\* Items and characters implement Custody, for any number of players and items:
\* an item is made, taken and delivered at most once each, by one player.
THEOREM CarryInCustody == CarrySpec => ItemsInCustody
<1>1. CarryInit => places!Init
  <2> SUFFICES ASSUME CarryInit PROVE places!Init
    OBVIOUS
  <2>1. spawned = {} /\ \A i \in Items, p \in Players : carriedItem[p] # i
    BY WorldAssumption DEF CarryInit, NobodyCarries
  <2>2. \A i \in Items : WhereIs(i) = [at |-> "unmade", by |-> {}]
    BY <2>1 DEF WhereIs, Stage, Holders
  <2> QED
    BY <2>2 DEF places!Init, places!Unmade, places!Place
<1>2. CarryInv /\ [CarryNext]_carryVars => [places!Next]_wheres
  BY CustodyRefined
<1> QED
  BY <1>1, <1>2, CarryInvariant, PTL DEF CarrySpec, ItemsInCustody, places!Spec, wheres
-----------------------------------------------------------------------------
(* The own hands a client lacks *)

\* While a client does not see what its own character carries an update is due
\* to it, of the character or of the item itself, which a reference that arrives
\* before the item cannot replace: OwnHandsSeen rests on it.
HandsAreDue ==
    \A c \in connected \cap Clients :
        seenCarried[c][c] # carriedItem[c] =>
            \/ seenCarried[c][c] # CarriedOn(c, c)
            \/ carriedItem[c] \in items \ knownItems[c]

\* No client is left with a wrong view of its own hands that no update corrects.
THEOREM CarryHandsAreDue == CarrySpec => []HandsAreDue
<1>1. ASSUME CarryInv PROVE HandsAreDue
  <2> SUFFICES ASSUME NEW c \in Clients, seenCarried[c][c] = CarriedOn(c, c),
                      seenCarried[c][c] # carriedItem[c]
               PROVE  carriedItem[c] \in items \ knownItems[c]
    BY DEF HandsAreDue
  <2>1. carriedItem[c] \notin knownItems[c] /\ carriedItem[c] # NoItem
    BY DEF CarriedOn
  <2>2. carriedItem[c] \in items
    BY <1>1, <2>1 DEF CarryInv, CarriedIsTaken, HasItem, Clients
  <2> QED
    BY <2>1, <2>2
<1> QED
  BY <1>1, CarryInvariant, PTL
=============================================================================
