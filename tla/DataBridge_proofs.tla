-------------------------- MODULE DataBridge_proofs -------------------------
(* Proofs about DataBridge, for any set of connections, symbols and kinds. *)
EXTENDS DataBridge, TLAPS

CastType == {NoCast} \cup Broadcast

LEMMA KindFacts == /\ Kinds \subseteq Nat \ {0}
                   /\ 1 \in Kinds
                   /\ \A i \in 1 .. LastKind + 1 : Ahead(i) \subseteq Kinds
                   /\ \A i \in 1 .. LastKind + 1 : \A k \in Ahead(i) : i <= k /\ k + 1 \in 1 .. LastKind + 1
  BY KindAssumption DEF Kinds, Ahead

LEMMA NoCastType == NoCast \in CastType
  BY DEF CastType

\* What a started broadcast leaves typed.
LEMMA StartCastType ==
  ASSUME BridgeTypeOK, NEW t \in Tasks, NEW k \in Kinds, symbol' \in Symbols, StartCast(t, k)
  PROVE  /\ connected' \subseteq Clients
         /\ cast' \in [Tasks -> CastType]
         /\ view' \in [Clients -> [Kinds -> Symbols \cup {None}]]
         /\ disturbed' \subseteq Kinds
  <1>1. cast \in [Tasks -> CastType] BY DEF BridgeTypeOK, CastType
  <1>2. Registry(t) \subseteq Clients BY DEF BridgeTypeOK, Registry
  <1>3. connected' \subseteq Clients BY <1>2 DEF StartCast
  <1>4. disturbed' \subseteq Kinds BY DEF StartCast, BridgeTypeOK
  <1>5. CASE Registry(t) = {}
    <2>1. cast' = [cast EXCEPT ![t] = NoCast] /\ view' = view BY <1>5 DEF StartCast
    <2> QED BY <2>1, <1>1, <1>3, <1>4, NoCastType DEF BridgeTypeOK
  <1>6. CASE Registry(t) # {}
    <2>1. PICK c \in Registry(t) :
            /\ cast' = [cast EXCEPT ![t] =
                         [kind |-> k, sym |-> symbol', members |-> Registry(t),
                          seen |-> {c}, dead |-> {c} \ Open]]
            /\ Write(c, k, symbol')
      BY <1>6 DEF StartCast, Current
    <2>2. [kind |-> k, sym |-> symbol', members |-> Registry(t),
           seen |-> {c}, dead |-> {c} \ Open] \in CastType
      BY <1>2 DEF CastType, Broadcast
    <2>3. cast' \in [Tasks -> CastType] BY <2>1, <2>2, <1>1
    <2>4. view' \in [Clients -> [Kinds -> Symbols \cup {None}]]
      BY <2>1, <1>2 DEF Write, BridgeTypeOK
    <2> QED BY <2>3, <2>4, <1>3, <1>4
  <1> QED BY <1>5, <1>6

\* Which kind a refresh picks and what it does with it.
LEMMA RefreshFacts ==
  ASSUME BridgeTypeOK, NEW t \in Tasks, NEW i \in 1 .. LastKind + 1, NEW sk \in SUBSET Kinds,
         symbol' \in Symbols, Refresh(t, i, sk)
  PROVE  \E k \in Kinds :
           /\ i <= k
           /\ latest' = [latest EXCEPT ![k] = symbol']
           /\ StartCast(t, k)
           /\ kpos' = [kpos EXCEPT ![t] = k + 1]
           /\ k + 1 \in 1 .. LastKind + 1
           /\ behind' \subseteq Kinds
           /\ \A j \in Kinds : j \in sk /\ j # k => j \in behind'
           /\ t # Loop => \A j \in Kinds : i <= j /\ j < k => j \in behind'
           /\ fails' \in 0 .. MaxFails
  <1>1. PICK k \in Ahead(i), down \in BOOLEAN :
          /\ Outage(down)
          /\ latest' = [latest EXCEPT ![k] = symbol']
          /\ StartCast(t, k)
          /\ kpos' = [kpos EXCEPT ![t] = k + 1]
          /\ behind' = (IF t = Loop THEN sk ELSE sk \cup (i .. k - 1)) \ {k}
    BY DEF Refresh, Current
  <1>2. k \in Kinds /\ i <= k /\ k + 1 \in 1 .. LastKind + 1 BY KindFacts
  <1>3. behind' \subseteq Kinds /\ \A j \in Kinds : j \in sk /\ j # k => j \in behind'
    BY <1>1, <1>2, KindAssumption DEF Kinds
  <1>4. t # Loop => \A j \in Kinds : i <= j /\ j < k => j \in behind'
    BY <1>1, <1>2, KindAssumption DEF Kinds
  <1>5. fails' \in 0 .. MaxFails BY <1>1, BoundAssumption DEF Outage, BridgeTypeOK
  <1> QED BY <1>1, <1>2, <1>3, <1>4, <1>5

LEMMA UnregisterType ==
  ASSUME BridgeTypeOK, NEW c \in Clients, NEW R \in SUBSET Clients, Unregister(c, R)
  PROVE  /\ connected' \subseteq Clients
         /\ sock' \in [Clients -> {"new", "open", "closed"}]
         /\ pc' \in [Tasks -> {"new", "hydrate", "listen", "switch", "done", "round", "sleep"}]
         /\ kpos' \in [Tasks -> 1 .. LastKind + 1]
         /\ view' \in [Clients -> [Kinds -> Symbols \cup {None}]]
  BY KindAssumption DEF BridgeTypeOK, Unregister, Unseen, Tasks

LEMMA AcknowledgeType ==
  ASSUME BridgeTypeOK, NEW c \in Clients, NEW R \in SUBSET Clients, Acknowledge(c, R)
  PROVE  /\ connected' \subseteq Clients
         /\ sock' \in [Clients -> {"new", "open", "closed"}]
         /\ pc' \in [Tasks -> {"new", "hydrate", "listen", "switch", "done", "round", "sleep"}]
         /\ kpos' \in [Tasks -> 1 .. LastKind + 1]
         /\ view' \in [Clients -> [Kinds -> Symbols \cup {None}]]
  <1>1. CASE c \in Open
    BY <1>1, KindAssumption DEF Acknowledge, BridgeTypeOK, Tasks
  <1>2. CASE c \notin Open
    BY <1>2, UnregisterType DEF Acknowledge
  <1> QED BY <1>1, <1>2

LEMMA HydrateType ==
  ASSUME BridgeTypeOK, NEW c \in Clients, NEW i \in 1 .. LastKind + 1, Hydrate(c, i)
  PROVE  /\ pc' \in [Tasks -> {"new", "hydrate", "listen", "switch", "done", "round", "sleep"}]
         /\ kpos' \in [Tasks -> 1 .. LastKind + 1]
         /\ view' \in [Clients -> [Kinds -> Symbols \cup {None}]]
  <1>1. CASE \E k \in i .. LastKind :
               /\ view' = [view EXCEPT ![c][k] = latest[k]]
               /\ kpos' = [kpos EXCEPT ![c] = k + 1]
               /\ pc' = [pc EXCEPT ![c] = "hydrate"]
    <2>1. PICK k \in i .. LastKind :
               /\ view' = [view EXCEPT ![c][k] = latest[k]]
               /\ kpos' = [kpos EXCEPT ![c] = k + 1]
               /\ pc' = [pc EXCEPT ![c] = "hydrate"]
      BY <1>1
    <2>2. k \in Kinds /\ k + 1 \in 1 .. LastKind + 1 BY KindAssumption DEF Kinds
    <2> QED BY <2>1, <2>2 DEF BridgeTypeOK, Tasks
  <1>2. CASE /\ pc' = [pc EXCEPT ![c] = "listen"]
             /\ kpos' = [kpos EXCEPT ![c] = 1]
             /\ UNCHANGED view
    BY <1>2, KindAssumption DEF BridgeTypeOK, Tasks
  <1> QED BY <1>1, <1>2 DEF Hydrate

LEMMA LaterKinds ==
  ASSUME BridgeTypeOK, NEW c \in Clients
  PROVE  kpos[c] .. LastKind \subseteq Kinds
  <1>1. kpos[c] \in 1 .. LastKind + 1 BY DEF BridgeTypeOK, Tasks
  <1> QED BY <1>1, KindAssumption DEF Kinds

LEMMA OutageType ==
  ASSUME BridgeTypeOK, NEW t, NEW i, NothingLeft(t, i)
  PROVE  fails' \in 0 .. MaxFails
  BY BoundAssumption DEF BridgeTypeOK, NothingLeft, Outage

LEMMA TypeInit == BridgeInit => BridgeTypeOK
  <1> SUFFICES ASSUME BridgeInit PROVE BridgeTypeOK OBVIOUS
  <1>1. latest \in [Kinds -> Symbols \cup {None}] /\ fails \in 0 .. MaxFails /\ symbol \in Symbols
    <2>1. PICK lost \in SUBSET (Fallible \cap Kinds) :
            /\ fails \in 0 .. MaxFails
            /\ latest = [k \in Kinds |-> IF k \in lost THEN None ELSE Home]
      BY DEF BridgeInit
    <2> QED BY <2>1, SymbolAssumption DEF BridgeInit
  <1>2. cast \in [Tasks -> CastType] BY NoCastType DEF BridgeInit
  <1>3. kpos \in [Tasks -> 1 .. LastKind + 1] BY KindAssumption DEF BridgeInit
  <1>4. switches \in 0 .. MaxSwitches BY BoundAssumption DEF BridgeInit
  <1> QED BY <1>1, <1>2, <1>3, <1>4 DEF BridgeInit, BridgeTypeOK, CastType, Unseen, Tasks

LEMMA TypeStep == BridgeTypeOK /\ [BridgeNext]_bridgeVars => BridgeTypeOK'
  <1> SUFFICES ASSUME BridgeTypeOK, [BridgeNext]_bridgeVars PROVE BridgeTypeOK' OBVIOUS
  <1> USE DEF CastType
  <1>1. CASE UNCHANGED bridgeVars BY <1>1 DEF BridgeTypeOK, bridgeVars
  <1>2. CASE LoopRefresh
    <2>1. Loop \in Tasks /\ kpos[Loop] \in 1 .. LastKind + 1 /\ behind \in SUBSET Kinds
      BY DEF BridgeTypeOK, Tasks
    <2>2. symbol' = symbol /\ symbol' \in Symbols BY <1>2 DEF LoopRefresh, BridgeTypeOK
    <2>3. PICK k \in Kinds :
            /\ latest' = [latest EXCEPT ![k] = symbol']
            /\ StartCast(Loop, k)
            /\ kpos' = [kpos EXCEPT ![Loop] = k + 1]
            /\ k + 1 \in 1 .. LastKind + 1
            /\ behind' \subseteq Kinds
            /\ fails' \in 0 .. MaxFails
      BY <1>2, <2>1, <2>2, RefreshFacts DEF LoopRefresh
    <2>4. /\ connected' \subseteq Clients
          /\ cast' \in [Tasks -> CastType]
          /\ view' \in [Clients -> [Kinds -> Symbols \cup {None}]]
          /\ disturbed' \subseteq Kinds
      BY <2>1, <2>2, <2>3, StartCastType
    <2> QED BY <1>2, <2>1, <2>2, <2>3, <2>4 DEF LoopRefresh, BridgeTypeOK
  <1>3. CASE LoopSleep
    <2>1. fails' \in 0 .. MaxFails BY <1>3, OutageType DEF LoopSleep
    <2>2. cast' \in [Tasks -> CastType] BY <1>3, NoCastType DEF LoopSleep, BridgeTypeOK
    <2>3. connected' \subseteq Clients BY <1>3 DEF LoopSleep, Registry, BridgeTypeOK
    <2> QED BY <1>3, <2>1, <2>2, <2>3, KindAssumption DEF LoopSleep, BridgeTypeOK
  <1>4. CASE LoopWake BY <1>4 DEF LoopWake, BridgeTypeOK
  <1>5. CASE LoopFalls
    <2>1. cast' \in [Tasks -> CastType] BY <1>5, NoCastType DEF LoopFalls
    <2>2. disturbed' \subseteq Kinds
      BY <1>5 DEF LoopFalls, Broken, Breaks, BridgeTypeOK, Broadcast, Tasks
    <2>3. sock' \in [Clients -> {"new", "open", "closed"}]
      BY <1>5 DEF LoopFalls, BridgeTypeOK
    <2>4. pc' \in [Tasks -> {"new", "hydrate", "listen", "switch", "done", "round", "sleep"}]
      BY <1>5 DEF LoopFalls
    <2>5. 1 \in 1 .. LastKind + 1 BY KindAssumption
    <2>6. kpos' \in [Tasks -> 1 .. LastKind + 1] BY <1>5, <2>5 DEF LoopFalls
    <2>7. view' \in [Clients -> [Kinds -> Symbols \cup {None}]]
      BY <1>5 DEF LoopFalls, Unseen
    <2>8. alive' = FALSE /\ connected' = {} /\ UNCHANGED <<symbol, latest, switches, fails, behind>>
      BY <1>5 DEF LoopFalls
    <2> QED BY <2>1, <2>2, <2>3, <2>4, <2>6, <2>7, <2>8 DEF BridgeTypeOK
  <1>6. ASSUME NEW t \in Tasks, CastOn(t) PROVE BridgeTypeOK'
    <2>1. PICK c \in connected \ cast[t].seen :
            /\ cast' = [cast EXCEPT ![t].seen = @ \cup {c},
                                    ![t].dead = @ \cup ({c} \ Open)]
            /\ Write(c, cast[t].kind, cast[t].sym)
      BY <1>6 DEF CastOn
    <2>2. cast[t] \in Broadcast /\ c \in Clients BY <1>6 DEF CastOn, BridgeTypeOK
    <2>3. [cast[t] EXCEPT !.seen = @ \cup {c}, !.dead = @ \cup ({c} \ Open)] \in Broadcast
      BY <2>2 DEF Broadcast
    <2>4. cast' = [cast EXCEPT ![t] = [cast[t] EXCEPT !.seen = @ \cup {c},
                                                      !.dead = @ \cup ({c} \ Open)]]
      BY <2>1 DEF BridgeTypeOK
    <2>5. cast' \in [Tasks -> CastType] BY <2>3, <2>4 DEF BridgeTypeOK
    <2>6. view' \in [Clients -> [Kinds -> Symbols \cup {None}]]
      BY <2>1, <2>2 DEF BridgeTypeOK, Write, Broadcast
    <2> QED BY <1>6, <2>5, <2>6 DEF CastOn, BridgeTypeOK
  <1>7. ASSUME NEW c \in Clients, HydrateOn(c) PROVE BridgeTypeOK'
    <2>1. kpos[c] \in 1 .. LastKind + 1 BY DEF BridgeTypeOK, Tasks
    <2> QED BY <1>7, <2>1, HydrateType DEF HydrateOn, BridgeTypeOK
  <1>8. ASSUME NEW c \in Clients, Leave(c) \/ BadRequest(c) PROVE BridgeTypeOK'
    <2>1. connected \in SUBSET Clients /\ Unregister(c, connected)
      BY <1>8 DEF Leave, BadRequest, BridgeTypeOK
    <2>2. UNCHANGED <<alive, symbol, latest, cast, switches, fails, behind, disturbed>>
      BY <1>8 DEF Leave, BadRequest
    <2> QED BY <2>1, <2>2, UnregisterType DEF BridgeTypeOK
  <1>9. ASSUME NEW c \in Clients, SwitchOn(c) PROVE BridgeTypeOK'
    <2>1. c \in Tasks /\ kpos[c] \in 1 .. LastKind + 1 /\ behind \in SUBSET Kinds
      BY DEF BridgeTypeOK, Tasks
    <2>2. symbol' = symbol /\ symbol' \in Symbols BY <1>9 DEF SwitchOn, BridgeTypeOK
    <2>3. PICK k \in Kinds :
            /\ latest' = [latest EXCEPT ![k] = symbol']
            /\ StartCast(c, k)
            /\ kpos' = [kpos EXCEPT ![c] = k + 1]
            /\ k + 1 \in 1 .. LastKind + 1
            /\ behind' \subseteq Kinds
            /\ fails' \in 0 .. MaxFails
      BY <1>9, <2>1, <2>2, RefreshFacts DEF SwitchOn
    <2>4. /\ connected' \subseteq Clients
          /\ cast' \in [Tasks -> CastType]
          /\ view' \in [Clients -> [Kinds -> Symbols \cup {None}]]
          /\ disturbed' \subseteq Kinds
      BY <2>1, <2>2, <2>3, StartCastType
    <2> QED BY <1>9, <2>1, <2>2, <2>3, <2>4 DEF SwitchOn, BridgeTypeOK
  <1>10. ASSUME NEW c \in Clients, SwitchAck(c) PROVE BridgeTypeOK'
    <2>1. fails' \in 0 .. MaxFails BY <1>10, OutageType DEF SwitchAck
    <2>2. cast' \in [Tasks -> CastType] BY <1>10, NoCastType DEF SwitchAck, BridgeTypeOK
    <2>3. Registry(c) \in SUBSET Clients BY DEF Registry, BridgeTypeOK
    <2>4. behind' \subseteq Kinds
      BY <1>10, LaterKinds DEF SwitchAck, BridgeTypeOK
    <2>5. Acknowledge(c, Registry(c)) BY <1>10 DEF SwitchAck
    <2> QED BY <1>10, <2>1, <2>2, <2>3, <2>4, <2>5, AcknowledgeType DEF SwitchAck, BridgeTypeOK
  <1>11. ASSUME NEW c \in Clients, SwitchFalls(c) PROVE BridgeTypeOK'
    <2>1. connected \in SUBSET Clients /\ Unregister(c, connected)
      BY <1>11 DEF SwitchFalls, BridgeTypeOK
    <2>2. cast' \in [Tasks -> CastType] BY <1>11, NoCastType DEF SwitchFalls, BridgeTypeOK
    <2>3. behind' \subseteq Kinds
      BY <1>11, LaterKinds DEF SwitchFalls, BridgeTypeOK
    <2>4. disturbed' \subseteq Kinds
      BY <1>11 DEF SwitchFalls, Broken, BridgeTypeOK, Tasks, Breaks, Broadcast
    <2> QED BY <1>11, <2>1, <2>2, <2>3, <2>4, UnregisterType DEF SwitchFalls, BridgeTypeOK
  <1>12. ASSUME NEW c \in Clients, Connect(c) PROVE BridgeTypeOK'
    <2>1. 1 \in 1 .. LastKind + 1 /\ Hydrate(c, 1) BY <1>12, KindAssumption DEF Connect
    <2> QED BY <1>12, <2>1, HydrateType DEF Connect, BridgeTypeOK
  <1>13. ASSUME NEW c \in Clients, Close(c) PROVE BridgeTypeOK'
    BY <1>13 DEF Close, BridgeTypeOK, Unseen
  <1>14. ASSUME NEW c \in Clients, NEW s \in Symbols, Switch(c, s) PROVE BridgeTypeOK'
    <2>1. symbol' = s /\ symbol' \in Symbols /\ switches' \in 0 .. MaxSwitches /\ alive' = alive
      BY <1>14, BoundAssumption DEF Switch, BridgeTypeOK
    <2>2. CASE /\ Refresh(c, 1, {})
               /\ pc' = [pc EXCEPT ![c] = "switch"]
               /\ UNCHANGED sock
      <3>1. c \in Tasks /\ 1 \in 1 .. LastKind + 1 /\ {} \in SUBSET Kinds
        BY KindAssumption DEF Tasks
      <3>2. PICK k \in Kinds :
              /\ latest' = [latest EXCEPT ![k] = symbol']
              /\ StartCast(c, k)
              /\ kpos' = [kpos EXCEPT ![c] = k + 1]
              /\ k + 1 \in 1 .. LastKind + 1
              /\ behind' \subseteq Kinds
              /\ fails' \in 0 .. MaxFails
        BY <2>1, <2>2, <3>1, RefreshFacts
      <3>3. /\ connected' \subseteq Clients
            /\ cast' \in [Tasks -> CastType]
            /\ view' \in [Clients -> [Kinds -> Symbols \cup {None}]]
            /\ disturbed' \subseteq Kinds
        BY <2>1, <3>1, <3>2, StartCastType
      <3> QED BY <2>1, <2>2, <3>1, <3>2, <3>3 DEF BridgeTypeOK
    <2>3. CASE /\ NothingLeft(c, 1)
               /\ behind' = Kinds
               /\ Acknowledge(c, connected)
               /\ UNCHANGED <<latest, cast, disturbed>>
      <3>1. fails' \in 0 .. MaxFails /\ connected \in SUBSET Clients
        BY <2>3, OutageType DEF BridgeTypeOK
      <3> QED BY <2>1, <2>3, <3>1, AcknowledgeType DEF BridgeTypeOK
    <2>4. CASE /\ behind' = Kinds
               /\ Acknowledge(c, connected)
               /\ UNCHANGED <<latest, cast, fails, disturbed>>
      <3>1. connected \in SUBSET Clients BY DEF BridgeTypeOK
      <3> QED BY <2>1, <2>4, <3>1, AcknowledgeType DEF BridgeTypeOK
    <2> QED BY <1>14, <2>2, <2>3, <2>4 DEF Switch
  <1> QED
    <2>1. Loop \in Tasks /\ \A c \in Clients : c \in Tasks BY DEF Tasks
    <2> QED BY <2>1, <1>1, <1>2, <1>3, <1>4, <1>5, <1>6, <1>7, <1>8, <1>9, <1>10, <1>11,
               <1>12, <1>13, <1>14 DEF BridgeNext, LoopStep, HandlerStep, Peer

\* The bridge's variables keep their types, for any number of connections.
THEOREM BridgeTypeCorrect == BridgeSpec => []BridgeTypeOK
  BY TypeInit, TypeStep, PTL DEF BridgeSpec

-----------------------------------------------------------------------------
(* The registry *)

\* RegistryExact is not inductive: a finished broadcast takes its dead members
\* out, so those must be closed, and a connection with a handler must not be
\* one that can still connect.
RegistryInv ==
    /\ RegistryExact
    /\ \A t \in Tasks : \A c \in cast[t].dead : c \in Clients /\ sock[c] = "closed"
    /\ \A c \in Live : sock[c] # "new"

LEMMA RegistryLess ==
  ASSUME BridgeTypeOK, RegistryInv, NEW t \in Tasks
  PROVE  /\ Registry(t) \subseteq Live
         /\ Live \cap Open \subseteq Registry(t)
         /\ Registry(t) \subseteq connected
  BY DEF RegistryInv, RegistryExact, Registry, Open

\* A started broadcast: who is registered and who is found dead.
LEMMA StartCastRegistry ==
  ASSUME BridgeTypeOK, RegistryInv, NEW t \in Tasks, NEW k \in Kinds, StartCast(t, k),
         sock' = sock,
         NEW x, pc' = [pc EXCEPT ![t] = x], t = Loop \/ (t \in Live /\ x = "switch")
  PROVE  RegistryInv'
  <1>1. /\ Registry(t) \subseteq Live
        /\ Live \cap Open \subseteq Registry(t)
    BY RegistryLess
  <1>2. Live' = Live /\ Open' = Open
    BY LoopAssumption DEF Live, Open, BridgeTypeOK, Tasks
  <1>3. connected' = Registry(t) BY DEF StartCast
  <1>4. ASSUME NEW u \in Tasks, NEW c \in cast'[u].dead PROVE c \in Clients /\ sock[c] = "closed"
    <2>1. CASE Registry(t) = {}
      <3>1. cast' = [cast EXCEPT ![t] = NoCast] BY <2>1 DEF StartCast
      <3> QED BY <3>1, <1>4 DEF BridgeTypeOK, RegistryInv, NoCast
    <2>2. CASE Registry(t) # {}
      <3>1. PICK d \in Registry(t) :
              cast' = [cast EXCEPT ![t] =
                        [kind |-> k, sym |-> Current(t), members |-> Registry(t),
                         seen |-> {d}, dead |-> {d} \ Open]]
        BY <2>2 DEF StartCast
      <3>2. d \in Clients /\ (d \notin Open => sock[d] = "closed")
        BY <1>1 DEF RegistryInv, Live, Open, BridgeTypeOK
      <3>3. CASE u = t BY <3>1, <3>2, <3>3, <1>4 DEF BridgeTypeOK
      <3>4. CASE u # t BY <3>1, <3>4, <1>4 DEF BridgeTypeOK, RegistryInv
      <3> QED BY <3>3, <3>4
    <2> QED BY <2>1, <2>2
  <1> QED BY <1>1, <1>2, <1>3, <1>4 DEF RegistryInv, RegistryExact

\* A handler that ends takes its client with it.
LEMMA UnregisterRegistry ==
  ASSUME BridgeTypeOK, RegistryInv, NEW c \in Clients, NEW R \in SUBSET connected,
         Live \cap Open \subseteq R, Unregister(c, R),
         \A t \in Tasks : \A d \in cast'[t].dead : d \in Clients /\ sock[d] = "closed"
  PROVE  RegistryInv'
  <1>1. Live' = Live \ {c} /\ Open' = Open \ {c}
    BY DEF Unregister, Live, Open, BridgeTypeOK, Tasks
  <1>2. RegistryExact'
    BY <1>1 DEF RegistryInv, RegistryExact, Unregister
  <1>3. \A d \in Clients : sock[d] = "closed" => sock'[d] = "closed"
    BY DEF Unregister, BridgeTypeOK
  <1>4. \A d \in Live' : sock'[d] # "new"
    BY <1>1 DEF RegistryInv, Unregister, BridgeTypeOK, Live
  <1> QED BY <1>2, <1>3, <1>4 DEF RegistryInv

LEMMA AcknowledgeRegistry ==
  ASSUME BridgeTypeOK, RegistryInv, NEW c \in Clients, NEW R \in SUBSET connected,
         Live \cap Open \subseteq R, Acknowledge(c, R), c \in Live,
         \A t \in Tasks : \A d \in cast'[t].dead : d \in Clients /\ sock[d] = "closed"
  PROVE  RegistryInv'
  <1>1. CASE c \in Open
    <2>1. Live' = Live /\ Open' = Open /\ connected' = R /\ sock' = sock
      BY <1>1 DEF Acknowledge, Live, Open, BridgeTypeOK, Tasks
    <2> QED BY <2>1 DEF RegistryInv, RegistryExact
  <1>2. CASE c \notin Open BY <1>2, UnregisterRegistry DEF Acknowledge
  <1> QED BY <1>1, <1>2

LEMMA RegistryInit == BridgeInit => RegistryInv
  BY DEF BridgeInit, RegistryInv, RegistryExact, Live, Open, NoCast, Tasks

\* Steps that leave registry, sockets, dead members and the set of handlers alone.
LEMMA RegistryQuiet ==
  ASSUME RegistryInv, connected' = connected, sock' = sock, Live' = Live,
         \A t \in Tasks : cast'[t].dead \subseteq cast[t].dead
  PROVE  RegistryInv'
  <1>1. Open' = Open BY DEF Open
  <1> QED BY <1>1 DEF RegistryInv, RegistryExact

LEMMA RegistryStep == BridgeTypeOK /\ RegistryInv /\ [BridgeNext]_bridgeVars => RegistryInv'
  <1> SUFFICES ASSUME BridgeTypeOK, RegistryInv, [BridgeNext]_bridgeVars PROVE RegistryInv' OBVIOUS
  <1>0. /\ Loop \in Tasks /\ Loop \notin Clients
        /\ \A c \in Clients : c \in Tasks
        /\ connected \in SUBSET connected /\ Live \cap Open \subseteq connected
        /\ \A t \in Tasks : \A d \in cast[t].dead : d \in Clients /\ sock[d] = "closed"
    BY LoopAssumption DEF Tasks, RegistryInv, RegistryExact
  <1>1. CASE UNCHANGED bridgeVars
    BY <1>1, RegistryQuiet DEF bridgeVars, Live
  <1>2. CASE LoopRefresh
    <2>1. symbol' \in Symbols /\ kpos[Loop] \in 1 .. LastKind + 1 /\ behind \in SUBSET Kinds
      BY <1>2, <1>0 DEF LoopRefresh, BridgeTypeOK
    <2>2. PICK k \in Kinds : StartCast(Loop, k)
      BY <1>2, <1>0, <2>1, RefreshFacts DEF LoopRefresh
    <2>3. pc' = [pc EXCEPT ![Loop] = pc[Loop]] /\ sock' = sock
      BY <1>2 DEF LoopRefresh, BridgeTypeOK
    <2> QED BY <1>0, <2>2, <2>3, StartCastRegistry
  <1>3. CASE LoopSleep
    <2>1. /\ Registry(Loop) \subseteq Live
          /\ Live \cap Open \subseteq Registry(Loop)
      BY <1>0, RegistryLess
    <2>2. Live' = Live /\ Open' = Open /\ connected' = Registry(Loop) /\ sock' = sock
      BY <1>3, <1>0 DEF LoopSleep, Live, Open, BridgeTypeOK
    <2>3. \A t \in Tasks : cast'[t].dead \subseteq cast[t].dead
      BY <1>3 DEF LoopSleep, BridgeTypeOK, NoCast
    <2> QED BY <2>1, <2>2, <2>3 DEF RegistryInv, RegistryExact
  <1>4. CASE LoopWake
    <2>1. Live' = Live BY <1>4, <1>0 DEF LoopWake, Live, BridgeTypeOK
    <2> QED BY <1>4, <2>1, RegistryQuiet DEF LoopWake
  <1>5. CASE LoopFalls
    <2>1. Live' = {} /\ connected' = {} BY <1>5 DEF LoopFalls, Live, Tasks
    <2>2. \A t \in Tasks : cast'[t].dead = {} BY <1>5 DEF LoopFalls, NoCast
    <2> QED BY <2>1, <2>2 DEF RegistryInv, RegistryExact
  <1>6. ASSUME NEW t \in Tasks, CastOn(t) PROVE RegistryInv'
    <2>1. PICK c \in connected \ cast[t].seen :
            cast' = [cast EXCEPT ![t].seen = @ \cup {c},
                                 ![t].dead = @ \cup ({c} \ Open)]
      BY <1>6 DEF CastOn
    <2>2. c \in Clients /\ (c \notin Open => sock[c] = "closed")
      BY DEF RegistryInv, RegistryExact, Live, Open, BridgeTypeOK
    <2>3. cast[t] \in Broadcast BY <1>6 DEF CastOn, BridgeTypeOK
    <2>4. cast' = [cast EXCEPT ![t] = [cast[t] EXCEPT !.seen = @ \cup {c},
                                                      !.dead = @ \cup ({c} \ Open)]]
      BY <2>1 DEF BridgeTypeOK
    <2>5. ASSUME NEW u \in Tasks, NEW d \in cast'[u].dead PROVE d \in Clients /\ sock[d] = "closed"
      <3>1. CASE u = t
        <4>1. cast'[u].dead = cast[t].dead \cup ({c} \ Open)
          BY <3>1, <2>3, <2>4 DEF BridgeTypeOK, Broadcast
        <4> QED BY <4>1, <2>2, <2>5, <1>0
      <3>2. CASE u # t BY <3>2, <2>4, <2>5, <1>0 DEF BridgeTypeOK
      <3> QED BY <3>1, <3>2
    <2>6. Live' = Live /\ Open' = Open /\ connected' = connected /\ sock' = sock
      BY <1>6 DEF CastOn, Live, Open
    <2> QED BY <2>5, <2>6 DEF RegistryInv, RegistryExact
  <1>7. ASSUME NEW c \in Clients, HydrateOn(c) PROVE RegistryInv'
    <2>1. Live' = Live BY <1>7, <1>0 DEF HydrateOn, Hydrate, Live, BridgeTypeOK
    <2> QED BY <1>7, <2>1, RegistryQuiet DEF HydrateOn
  <1>8. ASSUME NEW c \in Clients, Leave(c) \/ BadRequest(c) PROVE RegistryInv'
    <2>1. Unregister(c, connected) /\ cast' = cast BY <1>8 DEF Leave, BadRequest
    <2> QED BY <2>1, <1>0, UnregisterRegistry
  <1>9. ASSUME NEW c \in Clients, SwitchOn(c) PROVE RegistryInv'
    <2>1. symbol' \in Symbols /\ kpos[c] \in 1 .. LastKind + 1 /\ behind \in SUBSET Kinds
      BY <1>9, <1>0 DEF SwitchOn, BridgeTypeOK
    <2>2. PICK k \in Kinds : StartCast(c, k)
      BY <1>9, <1>0, <2>1, RefreshFacts DEF SwitchOn
    <2>3. pc' = [pc EXCEPT ![c] = "switch"] /\ sock' = sock /\ c \in Live
      BY <1>9 DEF SwitchOn, BridgeTypeOK, Live
    <2> QED BY <1>0, <2>2, <2>3, StartCastRegistry
  <1>10. ASSUME NEW c \in Clients, SwitchAck(c) PROVE RegistryInv'
    <2>1. /\ Registry(c) \in SUBSET connected
          /\ Live \cap Open \subseteq Registry(c)
      BY <1>0, RegistryLess
    <2>2. c \in Live /\ Acknowledge(c, Registry(c)) BY <1>10 DEF SwitchAck, Live
    <2>3. \A t \in Tasks : \A d \in cast'[t].dead : d \in Clients /\ sock[d] = "closed"
      BY <1>10, <1>0 DEF SwitchAck, BridgeTypeOK, NoCast
    <2> QED BY <2>1, <2>2, <2>3, AcknowledgeRegistry
  <1>11. ASSUME NEW c \in Clients, SwitchFalls(c) PROVE RegistryInv'
    <2>1. \A t \in Tasks : \A d \in cast'[t].dead : d \in Clients /\ sock[d] = "closed"
      BY <1>11, <1>0 DEF SwitchFalls, BridgeTypeOK, NoCast
    <2> QED BY <1>11, <1>0, <2>1, UnregisterRegistry DEF SwitchFalls
  <1>12. ASSUME NEW c \in Clients, Connect(c) PROVE RegistryInv'
    <2>1. /\ connected' = connected \cup {c} /\ sock[c] = "new"
          /\ sock' = [sock EXCEPT ![c] = "open"] /\ cast' = cast
      BY <1>12 DEF Connect
    <2>2. Live' = Live \cup {c} BY <1>12, <1>0 DEF Connect, Hydrate, Live, BridgeTypeOK
    <2>3. Open' = Open \cup {c} BY <2>1 DEF Open, BridgeTypeOK
    <2>4. \A d \in Clients : sock[d] = "closed" => sock'[d] = "closed" BY <2>1 DEF BridgeTypeOK
    <2>5. \A d \in Live' : sock'[d] # "new" BY <2>1, <2>2 DEF BridgeTypeOK, RegistryInv, Live
    <2>6. c \notin Live BY <2>1 DEF RegistryInv
    <2>7. RegistryExact' BY <2>1, <2>2, <2>3, <1>0 DEF RegistryInv, RegistryExact
    <2> QED BY <2>1, <2>4, <2>5, <2>7 DEF RegistryInv
  <1>13. ASSUME NEW c \in Clients, Close(c) PROVE RegistryInv'
    <2>1. /\ Live' = Live /\ Open' = Open \ {c} /\ connected' = connected /\ cast' = cast
          /\ \A d \in Clients : sock[d] = "closed" => sock'[d] = "closed"
          /\ \A d \in Clients : sock[d] # "new" => sock'[d] # "new"
      BY <1>13 DEF Close, Live, Open, BridgeTypeOK
    <2>2. Live \subseteq Clients BY DEF Live
    <2> QED BY <2>1, <2>2 DEF RegistryInv, RegistryExact
  <1>14. ASSUME NEW c \in Clients, NEW s \in Symbols, Switch(c, s) PROVE RegistryInv'
    <2>1. symbol' \in Symbols /\ c \in Live BY <1>14 DEF Switch, Live
    <2>2. CASE /\ Refresh(c, 1, {})
               /\ pc' = [pc EXCEPT ![c] = "switch"]
               /\ UNCHANGED sock
      <3>1. 1 \in 1 .. LastKind + 1 /\ {} \in SUBSET Kinds BY KindAssumption
      <3>2. PICK k \in Kinds : StartCast(c, k)
        BY <1>0, <2>1, <2>2, <3>1, RefreshFacts
      <3> QED BY <1>0, <2>1, <2>2, <3>2, StartCastRegistry
    <2>3. CASE Acknowledge(c, connected) /\ cast' = cast
      BY <1>0, <2>1, <2>3, AcknowledgeRegistry
    <2> QED BY <1>14, <2>2, <2>3 DEF Switch
  <1> QED BY <1>0, <1>1, <1>2, <1>3, <1>4, <1>5, <1>6, <1>7, <1>8, <1>9, <1>10, <1>11,
             <1>12, <1>13, <1>14 DEF BridgeNext, LoopStep, HandlerStep, Peer

\* Whoever is registered has a handler and every client with a handler and an
\* open socket is registered, for any number of connections.
THEOREM RegistryKept == BridgeSpec => []RegistryExact
  <1>1. BridgeSpec => [](BridgeTypeOK /\ RegistryInv)
    <2>1. BridgeInit => BridgeTypeOK /\ RegistryInv BY TypeInit, RegistryInit
    <2>2. BridgeTypeOK /\ RegistryInv /\ [BridgeNext]_bridgeVars => BridgeTypeOK' /\ RegistryInv'
      BY TypeStep, RegistryStep
    <2> QED BY <2>1, <2>2, PTL DEF BridgeSpec
  <1>2. RegistryInv => RegistryExact BY DEF RegistryInv
  <1> QED BY <1>1, <1>2, PTL

-----------------------------------------------------------------------------
(* What is stale in the cache *)

\* Why a cached kind need not worry anyone: it is StaleOnItsWay for one kind.
Settled(k) ==
    \/ latest[k] \in {symbol, None}
    \/ k \in behind
    \/ \E c \in Clients : pc[c] = "switch" /\ kpos[c] <= k

\* Steps that fetch nothing and end no switch.
LEMMA StaleQuiet ==
  ASSUME StaleOnItsWay, alive, symbol' = symbol, latest' = latest, behind' = behind,
         \A c \in Clients : pc[c] = "switch" => pc'[c] = "switch" /\ kpos'[c] = kpos[c]
  PROVE  StaleOnItsWay'
  BY DEF StaleOnItsWay

\* Steps that end the switch of c without refreshing its remaining kinds.
LEMMA StaleEnd ==
  ASSUME BridgeTypeOK, StaleOnItsWay, alive, symbol' = symbol, latest' = latest,
         NEW c \in Clients, behind' = behind \cup (kpos[c] .. LastKind),
         \A d \in Clients \ {c} : pc'[d] = pc[d] /\ kpos'[d] = kpos[d]
  PROVE  StaleOnItsWay'
  <1> SUFFICES ASSUME NEW k \in Kinds PROVE Settled(k)' BY DEF StaleOnItsWay, Settled
  <1>1. Settled(k) BY DEF StaleOnItsWay, Settled
  <1>2. CASE \E d \in Clients : pc[d] = "switch" /\ kpos[d] <= k
    <2>1. PICK d \in Clients : pc[d] = "switch" /\ kpos[d] <= k BY <1>2
    <2>2. CASE d = c
      <3>1. kpos[c] \in 1 .. LastKind + 1 BY DEF BridgeTypeOK, Tasks
      <3>2. k \in kpos[c] .. LastKind BY <2>1, <2>2, <3>1, KindAssumption DEF Kinds
      <3> QED BY <3>2 DEF Settled
    <2>3. CASE d # c BY <2>1, <2>3 DEF Settled
    <2> QED BY <2>2, <2>3
  <1> QED BY <1>1, <1>2 DEF Settled

LEMMA StaleInit == BridgeInit => StaleOnItsWay
  BY DEF BridgeInit, StaleOnItsWay

LEMMA StaleStep == BridgeTypeOK /\ RegistryInv /\ StaleOnItsWay /\ [BridgeNext]_bridgeVars => StaleOnItsWay'
  <1> SUFFICES ASSUME BridgeTypeOK, RegistryInv, StaleOnItsWay, [BridgeNext]_bridgeVars PROVE StaleOnItsWay' OBVIOUS
  <1>0. Loop \notin Clients /\ Loop \in Tasks /\ \A c \in Clients : c \in Tasks
    BY LoopAssumption DEF Tasks
  <1>1. CASE UNCHANGED bridgeVars BY <1>1 DEF bridgeVars, StaleOnItsWay
  <1>2. CASE LoopRefresh
    <2>1. /\ symbol' = symbol /\ symbol' \in Symbols /\ pc' = pc /\ alive
          /\ kpos[Loop] \in 1 .. LastKind + 1 /\ behind \in SUBSET Kinds
      BY <1>2, <1>0 DEF LoopRefresh, BridgeTypeOK
    <2>2. PICK k \in Kinds :
            /\ latest' = [latest EXCEPT ![k] = symbol']
            /\ kpos' = [kpos EXCEPT ![Loop] = k + 1]
            /\ \A j \in Kinds : j \in behind /\ j # k => j \in behind'
      BY <1>2, <1>0, <2>1, RefreshFacts DEF LoopRefresh
    <2>3. \A c \in Clients : kpos'[c] = kpos[c] BY <1>0, <2>2 DEF BridgeTypeOK
    <2> QED BY <2>1, <2>2, <2>3 DEF StaleOnItsWay, BridgeTypeOK
  <1>3. CASE LoopSleep
    <2>1. \A c \in Clients : pc'[c] = pc[c] /\ kpos'[c] = kpos[c]
      BY <1>3, <1>0 DEF LoopSleep, BridgeTypeOK
    <2> QED BY <1>3, <2>1, StaleQuiet DEF LoopSleep
  <1>4. CASE LoopWake
    <2>1. \A c \in Clients : pc'[c] = pc[c] BY <1>4, <1>0 DEF LoopWake, BridgeTypeOK
    <2> QED BY <1>4, <2>1, StaleQuiet DEF LoopWake
  <1>5. CASE LoopFalls BY <1>5 DEF LoopFalls, StaleOnItsWay
  <1>6. ASSUME NEW t \in Tasks, CastOn(t) PROVE StaleOnItsWay'
    BY <1>6, StaleQuiet DEF CastOn
  <1>7. ASSUME NEW c \in Clients, HydrateOn(c) PROVE StaleOnItsWay'
    <2>1. pc[c] = "hydrate" /\ \A d \in Clients \ {c} : pc'[d] = pc[d] /\ kpos'[d] = kpos[d]
      BY <1>7, <1>0 DEF HydrateOn, Hydrate, BridgeTypeOK
    <2> QED BY <1>7, <2>1, StaleQuiet DEF HydrateOn
  <1>8. ASSUME NEW c \in Clients, Leave(c) \/ BadRequest(c) PROVE StaleOnItsWay'
    <2>1. pc[c] # "switch" /\ \A d \in Clients \ {c} : pc'[d] = pc[d] /\ kpos'[d] = kpos[d]
      BY <1>8, <1>0 DEF Leave, BadRequest, Unregister, BridgeTypeOK
    <2> QED BY <1>8, <2>1, StaleQuiet DEF Leave, BadRequest
  <1>9. ASSUME NEW c \in Clients, SwitchOn(c) PROVE StaleOnItsWay'
    <2>1. /\ symbol' = symbol /\ symbol' \in Symbols /\ pc' = pc /\ alive
          /\ pc[c] = "switch" /\ kpos[c] \in 1 .. LastKind + 1 /\ behind \in SUBSET Kinds
      BY <1>9, <1>0 DEF SwitchOn, BridgeTypeOK
    <2>2. PICK k \in Kinds :
            /\ latest' = [latest EXCEPT ![k] = symbol']
            /\ kpos' = [kpos EXCEPT ![c] = k + 1]
            /\ \A j \in Kinds : j \in behind /\ j # k => j \in behind'
            /\ \A j \in Kinds : kpos[c] <= j /\ j < k => j \in behind'
      BY <1>9, <1>0, <2>1, RefreshFacts DEF SwitchOn
    <2>3. ASSUME NEW j \in Kinds PROVE Settled(j)'
      <3>1. Settled(j) BY <2>1 DEF StaleOnItsWay, Settled
      <3>2. CASE j = k BY <2>1, <2>2, <3>2 DEF Settled, BridgeTypeOK
      <3>3. CASE j < k /\ kpos[c] <= j BY <2>2, <3>3 DEF Settled
      <3>4. CASE j > k
        <4>1. kpos'[c] <= j BY <2>2, <3>4, <1>0, KindAssumption DEF BridgeTypeOK, Kinds
        <4> QED BY <2>1, <4>1 DEF Settled
      <3>5. CASE j < k /\ ~(kpos[c] <= j)
        <4>1. \A d \in Clients \ {c} : kpos'[d] = kpos[d] BY <2>2, <1>0 DEF BridgeTypeOK
        <4>2. latest'[j] = latest[j] BY <2>2, <3>5, KindAssumption DEF BridgeTypeOK, Kinds
        <4> QED BY <2>1, <2>2, <3>1, <3>5, <4>1, <4>2, KindAssumption DEF Settled, Kinds
      <3> QED BY <3>2, <3>3, <3>4, <3>5, KindAssumption DEF Kinds
    <2> QED BY <2>3 DEF StaleOnItsWay, Settled
  <1>10. ASSUME NEW c \in Clients, SwitchAck(c) PROVE StaleOnItsWay'
    <2>1. \A d \in Clients \ {c} : pc'[d] = pc[d] /\ kpos'[d] = kpos[d]
      BY <1>10, <1>0 DEF SwitchAck, Acknowledge, Unregister, BridgeTypeOK
    <2> QED BY <1>10, <2>1, StaleEnd DEF SwitchAck
  <1>11. ASSUME NEW c \in Clients, SwitchFalls(c) PROVE StaleOnItsWay'
    <2>1. \A d \in Clients \ {c} : pc'[d] = pc[d] /\ kpos'[d] = kpos[d]
      BY <1>11, <1>0 DEF SwitchFalls, Unregister, BridgeTypeOK
    <2> QED BY <1>11, <2>1, StaleEnd DEF SwitchFalls, Breaks
  <1>12. ASSUME NEW c \in Clients, Connect(c) PROVE StaleOnItsWay'
    <2>1. pc[c] # "switch" BY <1>12 DEF Connect, RegistryInv, Live
    <2>2. \A d \in Clients \ {c} : pc'[d] = pc[d] /\ kpos'[d] = kpos[d]
      BY <1>12, <1>0 DEF Connect, Hydrate, BridgeTypeOK
    <2> QED BY <1>12, <2>1, <2>2, StaleQuiet DEF Connect
  <1>13. ASSUME NEW c \in Clients, Close(c) PROVE StaleOnItsWay'
    BY <1>13, StaleQuiet DEF Close
  <1>14. ASSUME NEW c \in Clients, NEW s \in Symbols, Switch(c, s) PROVE StaleOnItsWay'
    <2>1. symbol' \in Symbols BY <1>14 DEF Switch
    <2>2. CASE Refresh(c, 1, {}) /\ pc' = [pc EXCEPT ![c] = "switch"]
      <3>1. 1 \in 1 .. LastKind + 1 /\ {} \in SUBSET Kinds BY KindAssumption
      <3>2. PICK k \in Kinds :
              /\ latest' = [latest EXCEPT ![k] = symbol']
              /\ kpos' = [kpos EXCEPT ![c] = k + 1]
              /\ \A j \in Kinds : 1 <= j /\ j < k => j \in behind'
        BY <1>0, <2>1, <2>2, <3>1, RefreshFacts
      <3>3. ASSUME NEW j \in Kinds PROVE Settled(j)'
        <4>1. CASE j = k BY <3>2, <4>1 DEF Settled, BridgeTypeOK
        <4>2. CASE j < k BY <3>2, <4>2, KindAssumption DEF Settled, Kinds
        <4>3. CASE j > k
          <5>1. kpos'[c] <= j BY <3>2, <4>3, <1>0, KindAssumption DEF BridgeTypeOK, Kinds
          <5>2. pc'[c] = "switch" BY <2>2, <1>0 DEF BridgeTypeOK
          <5> QED BY <5>1, <5>2 DEF Settled
        <4> QED BY <4>1, <4>2, <4>3, KindAssumption DEF Kinds
      <3> QED BY <3>3 DEF StaleOnItsWay, Settled
    <2>3. CASE behind' = Kinds BY <2>3 DEF StaleOnItsWay
    <2> QED BY <1>14, <2>2, <2>3 DEF Switch
  <1> QED BY <1>0, <1>1, <1>2, <1>3, <1>4, <1>5, <1>6, <1>7, <1>8, <1>9, <1>10, <1>11,
             <1>12, <1>13, <1>14 DEF BridgeNext, LoopStep, HandlerStep, Peer

\* However the switches of any number of clients interleave, a cached message of
\* another symbol is about to be replaced, or its kind could not be refreshed.
THEOREM StaleCaught == BridgeSpec => []StaleOnItsWay
  <1>1. BridgeInit => BridgeTypeOK /\ RegistryInv /\ StaleOnItsWay
    BY TypeInit, RegistryInit, StaleInit
  <1>2. BridgeTypeOK /\ RegistryInv /\ StaleOnItsWay /\ [BridgeNext]_bridgeVars
          => BridgeTypeOK' /\ RegistryInv' /\ StaleOnItsWay'
    BY TypeStep, RegistryStep, StaleStep
  <1> QED BY <1>1, <1>2, PTL DEF BridgeSpec

-----------------------------------------------------------------------------
(* What the clients were last sent *)

\* The message of kind k is still to be sent to c.
Due(c, k) ==
    \/ pc[c] = "hydrate" /\ kpos[c] <= k
    \/ \E t \in Tasks : Running(t, k) /\ c \in cast[t].members \ cast[t].seen

\* ViewsAgree speaks of kinds that nobody broadcasts; in between, a client has
\* the cached message or it is due, and the one broadcast there is carries it.
KindInv(k) ==
    /\ \A t, u \in Tasks : Running(t, k) /\ Running(u, k) => t = u
    /\ \A t \in Tasks : Running(t, k) => cast[t].sym = latest[k]
    /\ \A c \in Live \cap Open : view[c][k] = latest[k] \/ Due(c, k)

\* A kind that was never fetched was never sent.
EmptyInv ==
    \A k \in Kinds : latest[k] = None =>
        /\ \A c \in Clients : view[c][k] = None
        /\ \A t \in Tasks : ~Running(t, k)

IdleInv == \A c \in Clients : pc[c] # "switch" => cast[c] = NoCast

ViewInv == EmptyInv /\ IdleInv /\ \A k \in Kinds \ disturbed : KindInv(k)

LEMMA NothingUnseen ==
  ASSUME RegistryInv, NEW t \in Tasks, NEW c \in Live \cap Open, AllSeen(t)
  PROVE  c \notin cast[t].members \ cast[t].seen
  BY DEF RegistryInv, RegistryExact, AllSeen

LEMMA ThroughSeen ==
  ASSUME NEW t \in Tasks, Through(t)
  PROVE  AllSeen(t)
  BY DEF Through, AllSeen, NoCast

\* Steps that fetch and send nothing: broadcasts go on, end when all members
\* have seen the message, or break off.
LEMMA ViewSettle ==
  ASSUME BridgeTypeOK, RegistryInv, ViewInv, latest' = latest, disturbed \subseteq disturbed',
         \A t \in Tasks : \/ cast'[t] = cast[t]
                          \/ cast'[t] = NoCast /\ (AllSeen(t) \/ cast[t].kind \in disturbed'),
         Live' \cap Open' \subseteq Live \cap Open,
         \A c \in Live' \cap Open' :
            view'[c] = view[c] /\ (pc[c] = "hydrate" => pc'[c] = "hydrate" /\ kpos'[c] = kpos[c]),
         \A c \in Clients : view'[c] = view[c] \/ view'[c] = Unseen,
         IdleInv'
  PROVE  ViewInv'
  <1>1. \A t \in Tasks, k \in Kinds : Running(t, k)' => Running(t, k) /\ cast'[t] = cast[t]
    BY KindAssumption DEF Running, NoCast, Kinds
  <1>2. EmptyInv' BY <1>1 DEF ViewInv, EmptyInv, Unseen
  <1>3. ASSUME NEW k \in Kinds \ disturbed' PROVE KindInv(k)'
    <2>1. KindInv(k) BY <1>3 DEF ViewInv
    <2>2. ASSUME NEW c \in Live' \cap Open' PROVE view'[c][k] = latest'[k] \/ Due(c, k)'
      <3>1. c \in Live \cap Open /\ view'[c] = view[c] OBVIOUS
      <3>2. CASE view[c][k] = latest[k] BY <3>1, <3>2
      <3>3. CASE pc[c] = "hydrate" /\ kpos[c] <= k BY <3>3 DEF Due
      <3>4. ASSUME NEW t \in Tasks, Running(t, k), c \in cast[t].members \ cast[t].seen
            PROVE  Due(c, k)'
        <4>1. ~AllSeen(t) BY <3>1, <3>4, NothingUnseen
        <4>2. cast[t].kind \notin disturbed' BY <1>3, <3>4 DEF Running
        <4>3. cast'[t] = cast[t] BY <4>1, <4>2
        <4> QED BY <3>4, <4>3 DEF Due, Running
      <3> QED BY <2>1, <3>1, <3>2, <3>3, <3>4 DEF KindInv, Due
    <2> QED BY <1>1, <1>3, <2>1, <2>2 DEF KindInv
  <1> QED BY <1>2, <1>3 DEF ViewInv

\* A fetch of kind k, with the broadcast that follows it.
LEMMA ViewStart ==
  ASSUME BridgeTypeOK, RegistryInv, ViewInv, NEW t \in Tasks, NEW k \in Kinds, symbol' \in Symbols,
         StartCast(t, k), latest' = [latest EXCEPT ![k] = symbol'], AllSeen(t), sock' = sock,
         NEW x, pc' = [pc EXCEPT ![t] = x], t = Loop \/ (t \in Live /\ x = "switch"),
         kpos' = [kpos EXCEPT ![t] = k + 1],
         t \in Clients => pc[t] # "hydrate"
  PROVE  ViewInv'
  <1>1. Live' = Live /\ Open' = Open BY LoopAssumption DEF Live, Open, BridgeTypeOK, Tasks
  <1>2. Live \cap Open \subseteq Registry(t) BY RegistryLess
  <1>3. \A c \in Clients : pc[c] = "hydrate" => pc'[c] = "hydrate" /\ kpos'[c] = kpos[c]
    BY LoopAssumption DEF BridgeTypeOK, Tasks
  <1>4. \A u \in Tasks \ {t} : cast'[u] = cast[u] BY DEF StartCast, BridgeTypeOK
  <1>5. \A j \in Kinds \ {k} : ~Running(t, j)'
    BY KindAssumption DEF StartCast, Running, BridgeTypeOK, NoCast, Kinds
  <1>6. \A c \in Clients, j \in Kinds \ {k} : view'[c][j] = view[c][j]
    BY DEF StartCast, Write, BridgeTypeOK
  <1>7. latest'[k] = symbol' /\ symbol' # None /\ \A j \in Kinds \ {k} : latest'[j] = latest[j]
    BY SymbolAssumption DEF BridgeTypeOK
  <1>8. EmptyInv'
    BY <1>4, <1>5, <1>6, <1>7 DEF ViewInv, EmptyInv, Running
  <1>9. IdleInv'
    BY <1>4, LoopAssumption DEF ViewInv, IdleInv, BridgeTypeOK, Tasks
  <1>10. ASSUME NEW j \in Kinds \ disturbed', j # k PROVE KindInv(j)'
    <2>1. KindInv(j) BY <1>10 DEF ViewInv, StartCast
    <2>2. ASSUME NEW c \in Live' \cap Open' PROVE view'[c][j] = latest'[j] \/ Due(c, j)'
      <3>1. c \in Live \cap Open /\ c \in Clients BY <1>1 DEF Live
      <3>2. CASE view[c][j] = latest[j] BY <3>1, <3>2, <1>6, <1>7, <1>10
      <3>3. CASE pc[c] = "hydrate" /\ kpos[c] <= j BY <3>1, <3>3, <1>3 DEF Due
      <3>4. ASSUME NEW u \in Tasks, Running(u, j), c \in cast[u].members \ cast[u].seen
            PROVE  Due(c, j)'
        <4>1. u # t BY <3>1, <3>4, NothingUnseen
        <4> QED BY <1>4, <3>4, <4>1 DEF Due, Running
      <3> QED BY <2>1, <3>1, <3>2, <3>3, <3>4 DEF KindInv, Due
    <2>3. \A u \in Tasks : Running(u, j)' => Running(u, j) /\ cast'[u] = cast[u]
      BY <1>4, <1>5, <1>10 DEF Running
    <2> QED BY <2>1, <2>2, <2>3, <1>7, <1>10 DEF KindInv
  <1>11. ASSUME k \notin disturbed' PROVE KindInv(k)'
    <2>1. \A u \in Tasks \ {t} : ~Running(u, k) BY <1>11 DEF StartCast
    <2>2. \A u \in Tasks : Running(u, k)' => u = t BY <2>1, <1>4 DEF Running
    <2>3. CASE Registry(t) = {}
      <3>1. cast'[t] = NoCast BY <2>3 DEF StartCast, BridgeTypeOK
      <3>2. ~Running(t, k)' BY <3>1, KindAssumption DEF Running, NoCast, Kinds
      <3>3. Live' \cap Open' = {} BY <2>3, <1>1, <1>2
      <3> QED BY <2>2, <3>2, <3>3 DEF KindInv
    <2>4. CASE Registry(t) # {}
      <3>1. PICK d \in Registry(t) :
              /\ cast' = [cast EXCEPT ![t] =
                           [kind |-> k, sym |-> symbol', members |-> Registry(t),
                            seen |-> {d}, dead |-> {d} \ Open]]
              /\ Write(d, k, symbol')
        BY <2>4 DEF StartCast, Current
      <3>2. cast'[t] = [kind |-> k, sym |-> symbol', members |-> Registry(t),
                        seen |-> {d}, dead |-> {d} \ Open]
        BY <3>1 DEF BridgeTypeOK
      <3>3. ASSUME NEW c \in Live' \cap Open' PROVE view'[c][k] = latest'[k] \/ Due(c, k)'
        <4>1. c \in Registry(t) /\ c \in Open /\ c \in Clients BY <1>1, <1>2 DEF Live
        <4>2. CASE c = d BY <3>1, <4>1, <4>2, <1>7 DEF Write, BridgeTypeOK
        <4>3. CASE c # d BY <3>2, <4>1, <4>3 DEF Due, Running
        <4> QED BY <4>2, <4>3
      <3> QED BY <2>2, <3>2, <3>3, <1>7 DEF KindInv
    <2> QED BY <2>3, <2>4
  <1> QED BY <1>8, <1>9, <1>10, <1>11 DEF ViewInv

\* A handler sends the cached kinds from i on to its client.
LEMMA ViewHydrate ==
  ASSUME BridgeTypeOK, ViewInv, NEW c \in Clients, NEW i \in 1 .. LastKind + 1, Hydrate(c, i),
         latest' = latest, cast' = cast, disturbed' = disturbed, pc[c] # "switch",
         \A d \in Clients \ {c} : d \in Live' \cap Open' => d \in Live \cap Open,
         \A k \in Kinds \ disturbed : k < i =>
            \/ view[c][k] = latest[k]
            \/ \E t \in Tasks : Running(t, k) /\ c \in cast[t].members \ cast[t].seen
  PROVE  ViewInv'
  <1>1. \A d \in Clients \ {c} : pc'[d] = pc[d] /\ kpos'[d] = kpos[d] /\ view'[d] = view[d]
    BY DEF Hydrate, BridgeTypeOK, Tasks
  <1>2. \A k \in Kinds : \/ k < i /\ view'[c][k] = view[c][k]
                         \/ view'[c][k] = latest[k]
                         \/ pc'[c] = "hydrate" /\ kpos'[c] <= k
    <2>1. CASE \E k \in i .. LastKind :
                 /\ \A j \in i .. k - 1 : latest[j] = None
                 /\ view' = [view EXCEPT ![c][k] = latest[k]]
                 /\ kpos' = [kpos EXCEPT ![c] = k + 1]
                 /\ pc' = [pc EXCEPT ![c] = "hydrate"]
      <3>1. PICK k \in i .. LastKind :
                 /\ \A j \in i .. k - 1 : latest[j] = None
                 /\ view' = [view EXCEPT ![c][k] = latest[k]]
                 /\ kpos' = [kpos EXCEPT ![c] = k + 1]
                 /\ pc' = [pc EXCEPT ![c] = "hydrate"]
        BY <2>1
      <3>2. k \in Kinds /\ c \in Tasks BY KindAssumption DEF Kinds, Tasks
      <3>3. /\ view'[c][k] = latest[k]
            /\ \A j \in Kinds \ {k} : view'[c][j] = view[c][j]
            /\ kpos'[c] = k + 1 /\ pc'[c] = "hydrate"
        BY <3>1, <3>2 DEF BridgeTypeOK
      <3>4. ASSUME NEW j \in Kinds, j # k, i <= j
            PROVE  \/ view'[c][j] = latest[j]
                   \/ pc'[c] = "hydrate" /\ kpos'[c] <= j
        <4>1. CASE j < k
          <5>1. latest[j] = None BY <3>1, <3>4, <4>1, KindAssumption DEF Kinds
          <5> QED BY <5>1, <3>3, <3>4 DEF ViewInv, EmptyInv
        <4>2. CASE ~(j < k)
          <5>1. k + 1 <= j BY <3>2, <3>4, <4>2, KindAssumption DEF Kinds
          <5> QED BY <5>1, <3>3
        <4> QED BY <4>1, <4>2
      <3>5. \A j \in Kinds : j < i \/ i <= j BY KindAssumption DEF Kinds
      <3> QED BY <3>3, <3>4, <3>5
    <2>2. CASE (\A j \in i .. LastKind : latest[j] = None) /\ UNCHANGED view
      <3>1. ASSUME NEW j \in Kinds, ~(j < i) PROVE view'[c][j] = latest[j]
        <4>1. latest[j] = None BY <2>2, <3>1, KindAssumption DEF Kinds
        <4> QED BY <2>2, <4>1 DEF ViewInv, EmptyInv
      <3> QED BY <2>2, <3>1
    <2> QED BY <2>1, <2>2 DEF Hydrate
  <1>3. EmptyInv'
    <2>1. \A k \in Kinds : latest[k] = None => view'[c][k] = None
      BY DEF Hydrate, ViewInv, EmptyInv, BridgeTypeOK
    <2> QED BY <2>1, <1>1 DEF ViewInv, EmptyInv, Running
  <1>4. IdleInv' BY <1>1 DEF ViewInv, IdleInv
  <1>5. ASSUME NEW k \in Kinds \ disturbed PROVE KindInv(k)'
    <2>1. KindInv(k) BY DEF ViewInv
    <2>2. ASSUME NEW d \in Live' \cap Open', d # c PROVE view'[d][k] = latest'[k] \/ Due(d, k)'
      <3>1. d \in Clients BY DEF Live
      <3>2. d \in Live \cap Open BY <2>2, <3>1
      <3> QED BY <2>1, <2>2, <3>1, <3>2, <1>1 DEF KindInv, Due, Running
    <2>3. view'[c][k] = latest'[k] \/ Due(c, k)' BY <1>2 DEF Due, Running
    <2> QED BY <2>1, <2>2, <2>3 DEF KindInv, Running
  <1> QED BY <1>3, <1>4, <1>5 DEF ViewInv

LEMMA ViewInit == BridgeInit => ViewInv
  <1> SUFFICES ASSUME BridgeInit PROVE ViewInv OBVIOUS
  <1>1. \A t \in Tasks, k \in Kinds : ~Running(t, k)
    BY KindAssumption DEF BridgeInit, Running, NoCast, Kinds
  <1>2. EmptyInv BY <1>1 DEF BridgeInit, EmptyInv, Unseen
  <1>3. IdleInv BY DEF BridgeInit, IdleInv, Tasks
  <1>4. Live = {} BY LoopAssumption DEF BridgeInit, Live, Tasks
  <1> QED BY <1>1, <1>2, <1>3, <1>4 DEF ViewInv, KindInv

LEMMA ViewStep == BridgeTypeOK /\ RegistryInv /\ ViewInv /\ [BridgeNext]_bridgeVars => ViewInv'
  <1> SUFFICES ASSUME BridgeTypeOK, RegistryInv, ViewInv, [BridgeNext]_bridgeVars PROVE ViewInv' OBVIOUS
  <1>0. /\ Loop \notin Clients /\ Loop \in Tasks /\ Live \subseteq Clients
        /\ \A c \in Clients : c \in Tasks
        /\ \A c \in Clients : pc[c] # "switch" => cast[c] = NoCast
    BY LoopAssumption DEF Tasks, Live, ViewInv, IdleInv
  <1>1. CASE UNCHANGED bridgeVars
    BY <1>1 DEF bridgeVars, ViewInv, EmptyInv, IdleInv, KindInv, Due, Live, Open, Running
  <1>2. CASE LoopRefresh
    <2>1. symbol' \in Symbols /\ kpos[Loop] \in 1 .. LastKind + 1 /\ behind \in SUBSET Kinds
      BY <1>2, <1>0 DEF LoopRefresh, BridgeTypeOK
    <2>2. PICK k \in Kinds :
            /\ latest' = [latest EXCEPT ![k] = symbol']
            /\ StartCast(Loop, k)
            /\ kpos' = [kpos EXCEPT ![Loop] = k + 1]
      BY <1>2, <1>0, <2>1, RefreshFacts DEF LoopRefresh
    <2>3. pc' = [pc EXCEPT ![Loop] = pc[Loop]] /\ sock' = sock
      BY <1>2 DEF LoopRefresh, BridgeTypeOK
    <2>4. AllSeen(Loop) BY <1>2, <1>0, ThroughSeen DEF LoopRefresh
    <2> QED BY <1>0, <2>1, <2>2, <2>3, <2>4, ViewStart
  <1>3. CASE LoopSleep
    <2>1. AllSeen(Loop) BY <1>3, <1>0, ThroughSeen DEF LoopSleep
    <2>2. /\ latest' = latest /\ disturbed' = disturbed /\ view' = view /\ sock' = sock
          /\ \A t \in Tasks \ {Loop} : cast'[t] = cast[t]
          /\ cast'[Loop] = NoCast
      BY <1>3, <1>0 DEF LoopSleep, BridgeTypeOK
    <2>3. \A c \in Clients : pc'[c] = pc[c] /\ kpos'[c] = kpos[c]
      BY <1>3, <1>0 DEF LoopSleep, BridgeTypeOK
    <2>4. Live' = Live /\ Open' = Open BY <2>2, <2>3 DEF Live, Open
    <2>5. IdleInv' BY <1>0, <2>2, <2>3 DEF IdleInv
    <2> QED BY <1>0, <2>1, <2>2, <2>3, <2>4, <2>5, ViewSettle
  <1>4. CASE LoopWake
    <2>1. /\ latest' = latest /\ disturbed' = disturbed /\ view' = view /\ sock' = sock
          /\ cast' = cast /\ kpos' = kpos /\ \A c \in Clients : pc'[c] = pc[c]
      BY <1>4, <1>0 DEF LoopWake, BridgeTypeOK
    <2>2. Live' = Live /\ Open' = Open /\ IdleInv'
      BY <1>0, <2>1 DEF Live, Open, IdleInv
    <2> QED BY <1>0, <2>1, <2>2, ViewSettle
  <1>5. CASE LoopFalls
    <2>1. /\ latest' = latest /\ Live' = {} /\ \A t \in Tasks : cast'[t] = NoCast
          /\ \A c \in Clients : view'[c] = Unseen
      BY <1>5 DEF LoopFalls, Live, Tasks
    <2>2. \A t \in Tasks, k \in Kinds : ~Running(t, k)'
      BY <2>1, KindAssumption DEF Running, NoCast, Kinds
    <2>3. EmptyInv' BY <2>1, <2>2 DEF EmptyInv, Unseen
    <2>4. IdleInv' BY <2>1, <1>0 DEF IdleInv
    <2> QED BY <2>1, <2>2, <2>3, <2>4 DEF ViewInv, KindInv
  <1>6. ASSUME NEW t \in Tasks, CastOn(t) PROVE ViewInv'
    <2>1. PICK c \in connected \ cast[t].seen :
            /\ cast' = [cast EXCEPT ![t].seen = @ \cup {c},
                                    ![t].dead = @ \cup ({c} \ Open)]
            /\ Write(c, cast[t].kind, cast[t].sym)
      BY <1>6 DEF CastOn
    <2>2. cast[t] \in Broadcast /\ c \in Clients BY <1>6 DEF CastOn, BridgeTypeOK
    <2>3. cast' = [cast EXCEPT ![t] = [cast[t] EXCEPT !.seen = @ \cup {c},
                                                      !.dead = @ \cup ({c} \ Open)]]
      BY <2>1 DEF BridgeTypeOK
    <2>4. /\ cast'[t].kind = cast[t].kind /\ cast'[t].sym = cast[t].sym
          /\ cast'[t].members = cast[t].members /\ cast'[t].seen = cast[t].seen \cup {c}
          /\ \A u \in Tasks \ {t} : cast'[u] = cast[u]
      BY <2>2, <2>3 DEF BridgeTypeOK, Broadcast
    <2>5. /\ UNCHANGED <<latest, disturbed, pc, kpos, sock>> /\ Live' = Live /\ Open' = Open
      BY <1>6 DEF CastOn, Live, Open
    <2>6. \A u \in Tasks, k \in Kinds : Running(u, k)' <=> Running(u, k)
      BY <2>4 DEF Running
    <2>7. cast[t].kind \in Kinds BY <2>2 DEF Broadcast
    <2>8. \A d \in Clients, k \in Kinds :
            ~(d = c /\ k = cast[t].kind /\ c \in Open) => view'[d][k] = view[d][k]
      BY <2>1, <2>2, <2>7 DEF Write, BridgeTypeOK
    <2>9. c \in Open => view'[c][cast[t].kind] = cast[t].sym
      BY <2>1, <2>2, <2>7 DEF Write, BridgeTypeOK
    <2>10. EmptyInv'
      <3>1. latest[cast[t].kind] # None BY <2>7 DEF ViewInv, EmptyInv, Running
      <3> QED BY <3>1, <2>5, <2>6, <2>8 DEF ViewInv, EmptyInv
    <2>11. IdleInv' BY <1>0, <1>6, <2>4, <2>5 DEF IdleInv, CastOn
    <2>12. ASSUME NEW k \in Kinds \ disturbed PROVE KindInv(k)'
      <3>1. KindInv(k) BY DEF ViewInv
      <3>2. \A u \in Tasks : Running(u, k)' => cast'[u].sym = latest'[k]
        BY <3>1, <2>4, <2>5, <2>6 DEF KindInv
      <3>3. ASSUME NEW d \in Live \cap Open PROVE view'[d][k] = latest[k] \/ Due(d, k)'
        <4>1. d \in Clients BY <1>0
        <4>2. CASE d = c /\ k = cast[t].kind
          BY <3>1, <4>2, <2>9 DEF KindInv, Running
        <4>3. CASE ~(d = c /\ k = cast[t].kind)
          <5>1. view'[d][k] = view[d][k] BY <4>1, <4>3, <2>8
          <5>2. ASSUME NEW u \in Tasks, Running(u, k), d \in cast[u].members \ cast[u].seen
                PROVE  Running(u, k)' /\ d \in cast'[u].members \ cast'[u].seen
            BY <5>2, <4>3, <2>4, <2>6 DEF Running
          <5> QED BY <3>1, <5>1, <5>2, <2>5 DEF KindInv, Due
        <4> QED BY <4>2, <4>3
      <3> QED BY <3>1, <3>2, <3>3, <2>5, <2>6 DEF KindInv
    <2> QED BY <2>5, <2>10, <2>11, <2>12 DEF ViewInv
  <1>7. ASSUME NEW c \in Clients, HydrateOn(c) PROVE ViewInv'
    <2>1. /\ kpos[c] \in 1 .. LastKind + 1 /\ Hydrate(c, kpos[c]) /\ pc[c] = "hydrate"
          /\ latest' = latest /\ cast' = cast /\ disturbed' = disturbed /\ sock' = sock
          /\ c \in Live \cap Open
      BY <1>7, <1>0 DEF HydrateOn, BridgeTypeOK, Live
    <2>2. \A d \in Clients \ {c} : d \in Live' \cap Open' => d \in Live \cap Open
      BY <2>1, <1>0 DEF Hydrate, Live, Open, BridgeTypeOK
    <2>3. \A k \in Kinds \ disturbed : k < kpos[c] =>
            \/ view[c][k] = latest[k]
            \/ \E t \in Tasks : Running(t, k) /\ c \in cast[t].members \ cast[t].seen
      <3>1. \A k \in Kinds : k < kpos[c] => ~(kpos[c] <= k)
        BY <2>1, KindAssumption DEF Kinds
      <3> QED BY <2>1, <3>1 DEF ViewInv, KindInv, Due
    <2> QED BY <2>1, <2>2, <2>3, ViewHydrate
  <1>8. ASSUME NEW c \in Clients, Leave(c) \/ BadRequest(c) PROVE ViewInv'
    <2>1. /\ Unregister(c, connected) /\ cast' = cast /\ latest' = latest
          /\ disturbed' = disturbed /\ pc[c] # "switch"
      BY <1>8 DEF Leave, BadRequest
    <2>2. /\ pc'[c] = "done" /\ Open' \subseteq Open \ {c}
          /\ \A d \in Clients \ {c} : pc'[d] = pc[d] /\ kpos'[d] = kpos[d] /\ view'[d] = view[d]
          /\ view'[c] = Unseen
      BY <2>1, <1>0 DEF Unregister, BridgeTypeOK, Open
    <2>3. Live' \cap Open' \subseteq (Live \cap Open) \ {c} BY <2>2 DEF Live
    <2>4. IdleInv' BY <1>0, <2>1, <2>2 DEF IdleInv
    <2> QED BY <1>0, <2>1, <2>2, <2>3, <2>4, ViewSettle
  <1>9. ASSUME NEW c \in Clients, SwitchOn(c) PROVE ViewInv'
    <2>1. symbol' \in Symbols /\ kpos[c] \in 1 .. LastKind + 1 /\ behind \in SUBSET Kinds
      BY <1>9, <1>0 DEF SwitchOn, BridgeTypeOK
    <2>2. PICK k \in Kinds :
            /\ latest' = [latest EXCEPT ![k] = symbol']
            /\ StartCast(c, k)
            /\ kpos' = [kpos EXCEPT ![c] = k + 1]
      BY <1>9, <1>0, <2>1, RefreshFacts DEF SwitchOn
    <2>3. /\ pc' = [pc EXCEPT ![c] = "switch"] /\ sock' = sock /\ c \in Live /\ pc[c] # "hydrate"
      BY <1>9 DEF SwitchOn, BridgeTypeOK, Live
    <2>4. AllSeen(c) BY <1>9, <1>0, ThroughSeen DEF SwitchOn
    <2> QED BY <1>0, <2>1, <2>2, <2>3, <2>4, ViewStart
  <1>10. ASSUME NEW c \in Clients, SwitchAck(c) PROVE ViewInv'
    <2>1. AllSeen(c) BY <1>10, <1>0, ThroughSeen DEF SwitchAck
    <2>2. /\ latest' = latest /\ disturbed' = disturbed /\ pc[c] = "switch"
          /\ \A t \in Tasks \ {c} : cast'[t] = cast[t]
          /\ cast'[c] = NoCast
      BY <1>10, <1>0 DEF SwitchAck, BridgeTypeOK
    <2>3. /\ \A d \in Clients \ {c} : pc'[d] = pc[d] /\ kpos'[d] = kpos[d] /\ view'[d] = view[d]
          /\ Open' \subseteq Open
          /\ view'[c] = view[c] \/ (view'[c] = Unseen /\ c \notin Open')
      BY <1>10, <1>0 DEF SwitchAck, Acknowledge, Unregister, BridgeTypeOK, Open
    <2>4. Live' \cap Open' \subseteq Live \cap Open BY <2>2, <2>3 DEF Live
    <2>5. IdleInv' BY <1>0, <2>2, <2>3 DEF IdleInv
    <2>6. \A d \in Live' \cap Open' :
            view'[d] = view[d] /\ (pc[d] = "hydrate" => pc'[d] = "hydrate" /\ kpos'[d] = kpos[d])
      BY <1>0, <2>2, <2>3, <2>4
    <2> QED BY <1>0, <2>1, <2>2, <2>3, <2>4, <2>5, <2>6, ViewSettle
  <1>11. ASSUME NEW c \in Clients, SwitchFalls(c) PROVE ViewInv'
    <2>1. /\ Unregister(c, connected) /\ latest' = latest /\ disturbed' = Broken(c)
          /\ \A t \in Tasks \ {c} : cast'[t] = cast[t]
          /\ cast'[c] = NoCast
      BY <1>11, <1>0 DEF SwitchFalls, BridgeTypeOK
    <2>2. disturbed \subseteq disturbed' /\ (AllSeen(c) \/ cast[c].kind \in disturbed')
      BY <2>1 DEF Broken
    <2>3. /\ pc'[c] = "done" /\ Open' \subseteq Open \ {c}
          /\ \A d \in Clients \ {c} : pc'[d] = pc[d] /\ kpos'[d] = kpos[d] /\ view'[d] = view[d]
          /\ view'[c] = Unseen
      BY <2>1, <1>0 DEF Unregister, BridgeTypeOK, Open
    <2>4. Live' \cap Open' \subseteq (Live \cap Open) \ {c} BY <2>3 DEF Live
    <2>5. IdleInv' BY <1>0, <2>1, <2>3 DEF IdleInv
    <2> QED BY <1>0, <2>1, <2>2, <2>3, <2>4, <2>5, ViewSettle
  <1>12. ASSUME NEW c \in Clients, Connect(c) PROVE ViewInv'
    <2>1. /\ 1 \in 1 .. LastKind + 1 /\ Hydrate(c, 1)
          /\ latest' = latest /\ cast' = cast /\ disturbed' = disturbed
          /\ sock' = [sock EXCEPT ![c] = "open"] /\ pc[c] # "switch"
      BY <1>12, KindAssumption DEF Connect, RegistryInv, Live
    <2>2. \A d \in Clients \ {c} : d \in Live' \cap Open' => d \in Live \cap Open
      BY <2>1, <1>0 DEF Hydrate, Live, Open, BridgeTypeOK
    <2>3. \A k \in Kinds : ~(k < 1) BY KindAssumption DEF Kinds
    <2> QED BY <2>1, <2>2, <2>3, ViewHydrate
  <1>13. ASSUME NEW c \in Clients, Close(c) PROVE ViewInv'
    <2>1. /\ UNCHANGED <<latest, cast, disturbed, pc, kpos>> /\ Open' = Open \ {c}
          /\ \A d \in Clients \ {c} : view'[d] = view[d]
          /\ view'[c] = Unseen
      BY <1>13 DEF Close, BridgeTypeOK, Open
    <2>2. Live' = Live BY <2>1 DEF Live
    <2>3. IdleInv' BY <1>0, <2>1 DEF IdleInv
    <2> QED BY <1>0, <2>1, <2>2, <2>3, ViewSettle
  <1>14. ASSUME NEW c \in Clients, NEW s \in Symbols, Switch(c, s) PROVE ViewInv'
    <2>1. symbol' \in Symbols /\ pc[c] = "listen" /\ c \in Live BY <1>14 DEF Switch, Live
    <2>2. CASE /\ Refresh(c, 1, {})
               /\ pc' = [pc EXCEPT ![c] = "switch"]
               /\ UNCHANGED sock
      <3>1. 1 \in 1 .. LastKind + 1 /\ {} \in SUBSET Kinds BY KindAssumption
      <3>2. PICK k \in Kinds :
              /\ latest' = [latest EXCEPT ![k] = symbol']
              /\ StartCast(c, k)
              /\ kpos' = [kpos EXCEPT ![c] = k + 1]
        BY <1>0, <2>1, <2>2, <3>1, RefreshFacts
      <3>3. AllSeen(c) BY <1>0, <2>1 DEF AllSeen, NoCast
      <3> QED BY <1>0, <2>1, <2>2, <3>2, <3>3, ViewStart
    <2>3. CASE Acknowledge(c, connected) /\ UNCHANGED <<latest, cast, disturbed>>
      <3>1. /\ \A d \in Clients \ {c} : pc'[d] = pc[d] /\ kpos'[d] = kpos[d] /\ view'[d] = view[d]
            /\ Open' \subseteq Open
            /\ view'[c] = view[c] \/ (view'[c] = Unseen /\ c \notin Open')
        BY <2>3, <1>0 DEF Acknowledge, Unregister, BridgeTypeOK, Open
      <3>2. Live' \cap Open' \subseteq Live \cap Open BY <2>1, <3>1 DEF Live
      <3>3. IdleInv' BY <1>0, <2>1, <2>3, <3>1 DEF IdleInv
      <3>4. \A d \in Live' \cap Open' :
              view'[d] = view[d] /\ (pc[d] = "hydrate" => pc'[d] = "hydrate" /\ kpos'[d] = kpos[d])
        BY <1>0, <2>1, <3>1, <3>2
      <3> QED BY <1>0, <2>3, <3>1, <3>2, <3>3, <3>4, ViewSettle
    <2> QED BY <1>14, <2>2, <2>3 DEF Switch
  <1> QED BY <1>0, <1>1, <1>2, <1>3, <1>4, <1>5, <1>6, <1>7, <1>8, <1>9, <1>10, <1>11,
             <1>12, <1>13, <1>14 DEF BridgeNext, LoopStep, HandlerStep, Peer

\* Where no broadcast overlapped another or broke off, every client has last seen
\* of each kind what the cache holds, for any number of connections and kinds.
THEOREM ViewsKept == BridgeSpec => []ViewsAgree
  <1>1. BridgeInit => BridgeTypeOK /\ RegistryInv /\ ViewInv
    BY TypeInit, RegistryInit, ViewInit
  <1>2. BridgeTypeOK /\ RegistryInv /\ ViewInv /\ [BridgeNext]_bridgeVars => BridgeTypeOK' /\ RegistryInv' /\ ViewInv'
    BY TypeStep, RegistryStep, ViewStep
  <1>3. ViewInv => ViewsAgree
    BY DEF ViewInv, KindInv, Due, ViewsAgree
  <1> QED BY <1>1, <1>2, <1>3, PTL DEF BridgeSpec
=============================================================================
