------------------------- MODULE ContractStateProofs --------------------------
(***************************************************************************)
(* The inductive invariant of ContractState for any nodes, states and any  *)
(* number of events, and what it says of a node with no event under way.   *)
(***************************************************************************)
EXTENDS ContractState, TLAPS

\* Every entry has one kind, and the kinds are read one behind the other.
LEMMA KindFacts ==
  /\ \A x \in Entries : KindOf(x) \in Kinds
  /\ \A k \in Kinds : Place(k) \in 1..3
  /\ Place(Params) = 1 /\ Place("VNode") = 2 /\ Place("SNode") = 3
  /\ KindOf(Params) = Params
  /\ \A x \in VNodes : KindOf(x) = "VNode"
  /\ \A x \in SNodes : KindOf(x) = "SNode"
  /\ \A x \in Entries : KindOf(x) = Params => x = Params
  /\ \A x \in Entries : KindOf(x) = "VNode" => x \in VNodes
  /\ \A x \in Entries : KindOf(x) = "SNode" => x \in SNodes
PROOF BY NodesAssumption DEF KindOf, Kinds, Place, Entries, Nodes, Params

\* Storing an entry adds it to its map, or replaces its value, and nothing else.
LEMMA StoreFacts ==
  ASSUME TypeOK, NEW k \in Kinds, NEW x \in Entries, NEW v, Store(k, x, v)
  PROVE  /\ DOMAIN maps' = Kinds
         /\ DOMAIN maps'[k] = DOMAIN maps[k] \cup {x}
         /\ maps'[k][x] = v
         /\ \A y \in DOMAIN maps[k] : y # x => maps'[k][y] = maps[k][y]
         /\ \A j \in Kinds : j # k => maps'[j] = maps[j]
         /\ \A j \in Kinds : /\ maps'[j] = [y \in DOMAIN maps'[j] |-> maps'[j][y]]
                             /\ DOMAIN maps'[j] \subseteq Entries
PROOF
<1>1. maps' = [maps EXCEPT ![k] = Put(maps[k], x, v)] BY DEF Store
<1>2. DOMAIN maps = Kinds BY DEF TypeOK
<1>3. maps'[k] = Put(maps[k], x, v) /\ DOMAIN maps' = Kinds BY <1>1, <1>2
<1>4. \A j \in Kinds : j # k => maps'[j] = maps[j] BY <1>1, <1>2
<1>5. /\ DOMAIN maps'[k] = DOMAIN maps[k] \cup {x}
      /\ maps'[k][x] = v
      /\ \A y \in DOMAIN maps[k] : y # x => maps'[k][y] = maps[k][y]
      /\ maps'[k] = [y \in DOMAIN maps'[k] |-> maps'[k][y]]
  BY <1>3 DEF Put
<1> QED BY <1>3, <1>4, <1>5 DEF TypeOK

\* The program starts in the invariant.
LEMMA InitCInv == Init => CInv
PROOF
<1> SUFFICES ASSUME Init PROVE CInv OBVIOUS
<1>1. TypeOK
  BY ContractBoundsAssumption, StatesAssumption
  DEF Init, TypeOK, NoMaps, ClientStates, Kinds, Entries
<1>2. EventsTrue BY DEF Init, EventsTrue, Pending, Additions
<1>3. MapsReal BY DEF Init, MapsReal, NoMaps
<1>4. MapsTrue BY DEF Init, MapsTrue, Taken
<1>5. DueHeard BY DEF Init, DueHeard
<1> QED BY <1>1, <1>2, <1>3, <1>4, <1>5 DEF CInv

\* The steps of connect() that touch neither contract nor events.
LEMMA ClientKeepsEvents ==
  ASSUME EventsTrue, UNCHANGED <<world, recent, due, overtaken>>
  PROVE  EventsTrue'
PROOF BY DEF EventsTrue, world, Pending, Additions, Changes

LEMMA ConnectCInv == CInv /\ Connect => CInv'
PROOF
<1> SUFFICES ASSUME CInv, Connect PROVE CInv' OBVIOUS
<1>1. TypeOK' BY DEF CInv, Connect, TypeOK, Goto, ClientStates, world, past, Kinds
<1>2. EventsTrue' BY ClientKeepsEvents DEF CInv, Connect, past
<1>3. MapsReal' BY DEF CInv, Connect, MapsReal, world
<1>4. MapsTrue'
  <2>1. \A x \in Entries : ~ Taken(x)'
    BY KindFacts DEF Taken, Connect, Goto
  <2> QED BY <2>1 DEF MapsTrue
<1>5. DueHeard'
  BY DEF CInv, Connect, DueHeard, Subscribed
<1> QED BY <1>1, <1>2, <1>3, <1>4, <1>5 DEF CInv

\* MapsTrue survives a step that changes nothing but the client, as long as what is
\* newly behind it is no entry of the contract.
LEMMA ClientKeepsMaps ==
  ASSUME MapsTrue, UNCHANGED <<world, recent, due, maps, past>>,
         \A x \in Entries : Taken(x)' /\ contract[x] # Absent => Taken(x)
  PROVE  MapsTrue'
PROOF
<1> USE DEF world, past
<1>1. \A x : Additions(x)' = Additions(x) /\ Changes(x)' = Changes(x)
  BY DEF Additions, Changes, Pending
<1>2. \A x : Known(x)' <=> Known(x) BY DEF Known
<1> QED BY <1>1, <1>2 DEF MapsTrue

LEMMA ListCInv == CInv /\ List => CInv'
PROOF
<1> SUFFICES ASSUME CInv, List PROVE CInv' OBVIOUS
<1>0. client.kind \in Kinds BY DEF CInv, TypeOK, ClientStates, List
<1> DEFINE T == {x \in Entries : KindOf(x) = client.kind /\ contract[x] # Absent}
<1>a. client' = [pc |-> "read", kind |-> client.kind, todo |-> T]
  BY DEF List, Goto
<1>1. TypeOK'
  BY <1>0, <1>a DEF CInv, List, TypeOK, ClientStates, world, past
<1>2. EventsTrue' BY ClientKeepsEvents DEF CInv, List, past
<1>3. MapsReal' BY DEF CInv, List, MapsReal, world
<1>4. MapsTrue'
  <2>1. \A x \in Entries : Taken(x)' /\ contract[x] # Absent => Taken(x)
    BY <1>a DEF List, Taken
  <2> QED BY <2>1, ClientKeepsMaps DEF CInv, List
<1>5. DueHeard'
  BY <1>a DEF CInv, List, DueHeard, Subscribed
<1> QED BY <1>1, <1>2, <1>3, <1>4, <1>5 DEF CInv

LEMMA AdvanceCInv == CInv /\ Advance => CInv'
PROOF
<1> SUFFICES ASSUME CInv, Advance PROVE CInv' OBVIOUS
<1>0. client.kind \in Kinds BY DEF CInv, TypeOK, ClientStates, Advance
<1>a. \/ client.kind = Params /\ client' = [pc |-> "list", kind |-> "VNode"]
      \/ client.kind = "VNode" /\ client' = [pc |-> "list", kind |-> "SNode"]
      \/ client.kind = "SNode" /\ client' = [pc |-> "ready"]
  BY <1>0 DEF Advance, Goto, Kinds, Params
<1>1. TypeOK'
  BY <1>a DEF CInv, Advance, TypeOK, ClientStates, world, past, Kinds
<1>2. EventsTrue' BY ClientKeepsEvents DEF CInv, Advance, past
<1>3. MapsReal' BY DEF CInv, Advance, MapsReal, world
<1>4. MapsTrue'
  <2>1. ASSUME NEW x \in Entries, Taken(x)' PROVE Taken(x)
    <3>1. KindOf(x) \in Kinds BY KindFacts
    <3>2. KindOf(x) = client.kind \/ Place(KindOf(x)) < Place(client.kind)
      <4>1. CASE client.kind = Params
        BY <1>a, <2>1, <3>1, <4>1, KindFacts DEF Taken, Kinds, Params
      <4>2. CASE client.kind = "VNode"
        BY <1>a, <2>1, <3>1, <4>2, KindFacts DEF Taken, Kinds, Params
      <4>3. CASE client.kind = "SNode"
        BY <3>1, <4>3, KindFacts DEF Kinds
      <4> QED BY <1>0, <4>1, <4>2, <4>3 DEF Kinds
    <3> QED BY <3>2 DEF Taken, Advance
  <2> QED BY <2>1, ClientKeepsMaps DEF CInv, Advance
<1>5. DueHeard'
  BY <1>a DEF CInv, Advance, DueHeard, Subscribed, Params
<1> QED BY <1>1, <1>2, <1>3, <1>4, <1>5 DEF CInv

LEMMA ReadCInv ==
  ASSUME CInv, client.pc = "read", NEW y \in client.todo, Read(y)
  PROVE  CInv'
PROOF
<1>0. /\ client.kind \in Kinds /\ client.todo \subseteq Entries
      /\ KindOf(y) = client.kind /\ y \in Entries
  BY DEF CInv, TypeOK, ClientStates
<1>a. client' = [client EXCEPT !.todo = client.todo \ {y}] BY DEF Read, Goto
<1>b. client'.pc = "read" /\ client'.kind = client.kind /\ client'.todo = client.todo \ {y}
  BY <1>a DEF CInv, TypeOK, ClientStates
<1>c. Store(client.kind, y, contract[y]) BY DEF Read, ReadValue
<1>d. /\ DOMAIN maps' = Kinds
      /\ DOMAIN maps'[client.kind] = DOMAIN maps[client.kind] \cup {y}
      /\ maps'[client.kind][y] = contract[y]
      /\ \A z \in DOMAIN maps[client.kind] : z # y => maps'[client.kind][z] = maps[client.kind][z]
      /\ \A j \in Kinds : j # client.kind => maps'[j] = maps[j]
      /\ \A j \in Kinds : /\ maps'[j] = [z \in DOMAIN maps'[j] |-> maps'[j][z]]
                          /\ DOMAIN maps'[j] \subseteq Entries
  BY <1>0, <1>c, StoreFacts DEF CInv
<1>1. TypeOK'
  <2>1. client' \in ClientStates
    BY <1>0, <1>a DEF CInv, TypeOK, ClientStates
  <2> QED BY <1>b, <1>d, <2>1 DEF CInv, Read, TypeOK, world, past
<1>2. EventsTrue' BY ClientKeepsEvents DEF CInv, Read, past
<1>3. MapsReal'
  <2>1. contract[y] # Absent BY DEF CInv, TypeOK
  <2> QED BY <1>0, <1>d, <2>1 DEF CInv, Read, MapsReal, world
<1>4. MapsTrue'
  <2>1. \A x : Additions(x)' = Additions(x) /\ Changes(x)' = Changes(x)
    BY DEF Additions, Changes, Pending, Read
  <2>2. \A x \in Entries : x # y /\ Taken(x)' => Taken(x)
    BY <1>b DEF Taken
  <2>3. \A x \in Entries : Known(x) => Known(x)'
    BY <1>d, KindFacts DEF Known
  <2>4. Known(y)' BY <1>0, <1>d DEF Known
  <2>5. \A x \in Entries : Known(x) /\ x # y => maps'[KindOf(x)][x] = maps[KindOf(x)][x]
    BY <1>d, KindFacts DEF Known
  <2>6. UNCHANGED <<contract, missed, overtaken>> BY DEF Read, world, past
  <2>7. ASSUME NEW x \in Entries \ missed, Taken(x)', contract[x] # Absent
        PROVE  /\ Additions(x) = {} => Known(x)'
               /\ x \notin overtaken /\ Additions(x) \cup Changes(x) = {} =>
                    maps'[KindOf(x)][x] = contract[x]
    <3>1. CASE x = y BY <1>0, <1>d, <2>4, <3>1
    <3>2. CASE x # y
      <4>1. Taken(x) BY <2>2, <2>7, <3>2
      <4>2. /\ Additions(x) = {} => Known(x)
            /\ x \notin overtaken /\ Additions(x) \cup Changes(x) = {} =>
                 maps[KindOf(x)][x] = contract[x]
        BY <2>7, <4>1 DEF CInv, MapsTrue
      <4> QED BY <2>3, <2>5, <3>2, <4>2
    <3> QED BY <3>1, <3>2
  <2> QED BY <2>1, <2>6, <2>7 DEF MapsTrue
<1>5. DueHeard'
  BY <1>b DEF CInv, Read, DueHeard, Subscribed
<1> QED BY <1>1, <1>2, <1>3, <1>4, <1>5 DEF CInv

LEMMA GoDownCInv == CInv /\ GoDown => CInv'
PROOF
<1> SUFFICES ASSUME CInv, GoDown PROVE CInv' OBVIOUS
<1>a. /\ client' = [pc |-> "down"] /\ maps' = [k \in Kinds |-> <<>>]
      /\ due' = {} /\ missed' = {} /\ recent' = recent
      /\ contract' = contract /\ emitted' = emitted
      /\ overtaken' = {n \in overtaken : \E e \in recent : e.about = n /\ e.on = "NodeAdded"}
  BY DEF GoDown, Goto, NoMaps, world
<1>1. TypeOK'
  BY <1>a, ContractBoundsAssumption DEF CInv, TypeOK, GoDown, ClientStates, Entries, Kinds
<1>2. EventsTrue'
  <2>1. Pending' = recent /\ Pending' \subseteq Pending BY <1>a DEF Pending
  <2>2. \A x : Changes(x)' \subseteq Changes(x) /\ Additions(x)' \subseteq Additions(x)
    BY <2>1 DEF Changes, Additions
  <2>3. ASSUME NEW e \in Pending', e.on # "NodeAdded",
               \A g \in Changes(e.about)' : g.no <= e.no
        PROVE  e.value = contract[e.about]
    <3>1. e \in recent /\ e \in Pending BY <2>1
    <3>2. ASSUME NEW g \in Changes(e.about) PROVE g.no <= e.no
      <4>1. CASE g \in recent
        <5>1. g \in Changes(e.about)' BY <2>1, <3>2, <4>1 DEF Changes
        <5> QED BY <2>3, <5>1
      <4>2. CASE g \in due
        BY <3>1, <4>2 DEF CInv, EventsTrue, TypeOK, Events
      <4> QED BY <3>2, <4>1, <4>2 DEF Changes, Pending
    <3> QED BY <2>3, <3>1, <3>2 DEF CInv, EventsTrue
  <2>4. ASSUME NEW n \in Nodes \ overtaken', Additions(n)' # {}
        PROVE  contract[n] = OK /\ Changes(n)' = {}
    <3>1. n \notin overtaken
      BY <1>a, <2>1, <2>4 DEF Additions
    <3>2. Additions(n) # {} BY <2>2, <2>4
    <3> QED BY <2>2, <3>1, <3>2 DEF CInv, EventsTrue
  <2> QED BY <1>a, <2>1, <2>3, <2>4 DEF CInv, EventsTrue
<1>3. MapsReal' BY <1>a DEF MapsReal
<1>4. MapsTrue'
  <2>1. \A x \in Entries : ~ Taken(x)' BY <1>a DEF Taken
  <2> QED BY <2>1 DEF MapsTrue
<1>5. DueHeard'
  BY <1>a DEF DueHeard
<1> QED BY <1>1, <1>2, <1>3, <1>4, <1>5 DEF CInv

LEMMA PollCInv == CInv /\ Poll => CInv'
PROOF
<1> SUFFICES ASSUME CInv, Poll PROVE CInv' OBVIOUS
<1> DEFINE heard == {e \in recent : Subscribed(e.on)}
<1>a. /\ due' = due \cup heard /\ recent' = {}
      /\ missed' = missed \cup {x \in Entries : InWindow(x) /\ \E e \in recent \ heard : e.about = x}
      /\ UNCHANGED <<contract, emitted, client, maps, crashes, overtaken>>
  BY DEF Poll, world
<1>b. heard \subseteq recent /\ Pending' = due \cup heard /\ Pending' \subseteq Pending
  BY <1>a DEF Pending
<1>c. \A x : Changes(x)' \subseteq Changes(x) /\ Additions(x)' \subseteq Additions(x)
  BY <1>b DEF Changes, Additions
<1>1. TypeOK' BY <1>a, <1>b DEF CInv, TypeOK
<1>2. EventsTrue'
  <2>1. ASSUME NEW e \in Pending', e.on # "NodeAdded",
               \A g \in Changes(e.about)' : g.no <= e.no
        PROVE  e.value = contract[e.about]
    <3>1. e \in Pending BY <1>b
    <3>2. ASSUME NEW g \in Changes(e.about) PROVE g.no <= e.no
      <4>1. g \in due \/ g \in heard \/ g \in recent \ heard
        BY DEF Changes, Pending
      <4>2. CASE g \in due \cup heard
        BY <1>b, <2>1, <4>2 DEF Changes
      <4>3. CASE g \in recent \ heard
        <5>1. g.on = e.on
          BY <2>1, <3>1, <3>2 DEF CInv, EventsTrue, TypeOK, Events, Changes, Filters, Pending
        <5>2. e \notin heard BY <4>3, <5>1
        <5>3. e \in due BY <1>b, <5>2
        <5>4. Subscribed(g.on) BY <5>1, <5>3 DEF CInv, DueHeard
        <5> QED BY <4>3, <5>4
      <4> QED BY <4>1, <4>2, <4>3
    <3> QED BY <2>1, <3>1, <3>2 DEF CInv, EventsTrue
  <2>2. \A e \in due' : \A g \in recent' : e.no < g.no BY <1>a
  <2>3. \A n \in Nodes \ overtaken' :
          Additions(n)' # {} => contract'[n] = OK /\ Changes(n)' = {}
    BY <1>a, <1>c DEF CInv, EventsTrue
  <2> QED BY <1>a, <1>b, <2>1, <2>2, <2>3 DEF CInv, EventsTrue
<1>3. MapsReal' BY <1>a DEF CInv, MapsReal
<1>4. MapsTrue'
  <2>1. ASSUME NEW x \in Entries \ missed', Taken(x)', contract[x] # Absent
        PROVE  Taken(x) /\ Additions(x)' = Additions(x) /\ Changes(x)' = Changes(x)
    <3>1. Taken(x) BY <1>a, <2>1 DEF Taken
    <3>2. ASSUME NEW e \in recent \ heard, e.about = x PROVE FALSE
      <4>1. ~ Subscribed(e.on) BY <3>2
      <4>2. client.pc # "ready" BY <4>1 DEF Subscribed
      <4>3. x = Params => client.kind = Params
        BY <3>1, <3>2, <4>1, <4>2 DEF CInv, EventsTrue, Pending, Subscribed, Taken
      <4>4. InWindow(x) BY <3>1, <4>2, <4>3 DEF InWindow
      <4> QED BY <1>a, <2>1, <3>2, <4>4
    <3>3. \A e \in Pending : e.about = x => e \in Pending'
      BY <1>b, <3>2 DEF Pending
    <3> QED BY <1>b, <3>1, <3>3 DEF Additions, Changes
  <2>2. \A x : Known(x)' <=> Known(x) BY <1>a DEF Known
  <2> QED BY <1>a, <2>1, <2>2 DEF CInv, MapsTrue
<1>5. DueHeard'
  BY <1>a DEF CInv, DueHeard, Subscribed
<1> QED BY <1>1, <1>2, <1>3, <1>4, <1>5 DEF CInv

\* A listener stores the value of its event, or drops a change of an unknown node.
LEMMA HandleCases ==
  ASSUME CInv, NEW e \in due, Handle(e)
  PROVE  /\ e \in Events /\ e \in Pending /\ e.about \in Entries
         /\ \/ e.on = "NodeAdded" /\ Store(KindOf(e.about), e.about, OK)
            \/ e.on # "NodeAdded" /\ Store(KindOf(e.about), e.about, e.value)
            \/ e.on # "NodeAdded" /\ UNCHANGED maps /\ ~ Known(e.about)
PROOF
<1>1. e \in Events /\ e \in Pending /\ e.about \in Entries
  BY DEF CInv, TypeOK, Pending, Events
<1>2. (e.about = Params) <=> (e.on = "BlockParamsUpdated")
  BY <1>1 DEF CInv, EventsTrue
<1>3. CASE e.on = "NodeAdded"
  BY <1>1, <1>3 DEF Handle, MapByType
<1>4. CASE e.on = "BlockParamsUpdated"
  BY <1>1, <1>2, <1>4, KindFacts DEF Handle
<1>5. CASE e.on = "NodeStatusChanged"
  <2>1. ApplyStatus(e.about, e.value) BY <1>5 DEF Handle
  <2>2. KindOf(e.about) = "VNode" \/ KindOf(e.about) = "SNode"
    BY <1>1, <1>2, <1>5, KindFacts DEF Kinds
  <2>3. CASE e.about \in DOMAIN maps["VNode"]
    <3>1. KindOf(e.about) = "VNode" BY <2>3 DEF CInv, MapsReal, Kinds
    <3> QED BY <1>1, <1>5, <2>1, <2>3, <3>1 DEF ApplyStatus
  <2>4. CASE e.about \notin DOMAIN maps["VNode"] /\ e.about \in DOMAIN maps["SNode"]
    <3>1. KindOf(e.about) = "SNode" BY <2>4 DEF CInv, MapsReal, Kinds
    <3> QED BY <1>1, <1>5, <2>1, <2>4, <3>1 DEF ApplyStatus
  <2>5. CASE e.about \notin DOMAIN maps["VNode"] /\ e.about \notin DOMAIN maps["SNode"]
    BY <1>1, <1>5, <2>1, <2>2, <2>5 DEF ApplyStatus, Known
  <2> QED BY <2>3, <2>4, <2>5
<1> QED BY <1>1, <1>3, <1>4, <1>5 DEF Handle

LEMMA HandleCInv ==
  ASSUME CInv, NEW e \in due, Handle(e)
  PROVE  CInv'
PROOF
<1> DEFINE x == e.about
           k == KindOf(e.about)
<1>a. /\ due' = due \ {e} /\ FirstDue(e)
      /\ UNCHANGED <<contract, emitted, recent, client, crashes, missed, overtaken>>
  BY DEF Handle, world, past
<1>b. e \in Events /\ e \in Pending /\ x \in Entries /\ k \in Kinds
  BY HandleCases, KindFacts
<1>c. e \notin recent BY DEF CInv, EventsTrue, TypeOK, Events
<1>d. Pending' = Pending \ {e} BY <1>a, <1>c DEF Pending
<1>e. \A y \in Entries : y # x => Additions(y)' = Additions(y) /\ Changes(y)' = Changes(y)
  BY <1>d DEF Additions, Changes
<1>f. \/ /\ DOMAIN maps' = Kinds
         /\ DOMAIN maps'[k] = DOMAIN maps[k] \cup {x}
         /\ \A y \in DOMAIN maps[k] : y # x => maps'[k][y] = maps[k][y]
         /\ \A j \in Kinds : j # k => maps'[j] = maps[j]
         /\ \A j \in Kinds : /\ maps'[j] = [y \in DOMAIN maps'[j] |-> maps'[j][y]]
                             /\ DOMAIN maps'[j] \subseteq Entries
         /\ \/ e.on = "NodeAdded" /\ maps'[k][x] = OK
            \/ e.on # "NodeAdded" /\ maps'[k][x] = e.value
      \/ e.on # "NodeAdded" /\ UNCHANGED maps /\ ~ Known(x)
  <2>1. CASE e.on = "NodeAdded" /\ Store(k, x, OK)
    BY <1>b, <2>1, StoreFacts DEF CInv
  <2>2. CASE e.on # "NodeAdded" /\ Store(k, x, e.value)
    BY <1>b, <2>2, StoreFacts DEF CInv
  <2>3. CASE e.on # "NodeAdded" /\ UNCHANGED maps /\ ~ Known(x)
    BY <2>3
  <2> QED BY <2>1, <2>2, <2>3, HandleCases
<1>1. TypeOK'
  <2>1. /\ DOMAIN maps' = Kinds
        /\ \A j \in Kinds : /\ maps'[j] = [y \in DOMAIN maps'[j] |-> maps'[j][y]]
                            /\ DOMAIN maps'[j] \subseteq Entries
    BY <1>f DEF CInv, TypeOK
  <2> QED BY <1>a, <2>1 DEF CInv, TypeOK
<1>2. EventsTrue'
  <2>1. ASSUME NEW f \in Pending', f.on # "NodeAdded",
               \A g \in Changes(f.about)' : g.no <= f.no
        PROVE  f.value = contract[f.about]
    <3>1. f \in Pending /\ f # e BY <1>d, <2>1
    <3>2. ASSUME NEW g \in Changes(f.about) PROVE g.no <= f.no
      <4>1. CASE g # e
        BY <1>d, <2>1, <3>2, <4>1 DEF Changes
      <4>2. CASE g = e
        <5>1. f.on = e.on
          BY <2>1, <3>1, <3>2, <4>2 DEF CInv, EventsTrue, TypeOK, Events, Changes, Filters, Pending
        <5>2. CASE f \in due BY <1>a, <4>2, <5>1, <5>2 DEF FirstDue
        <5>3. CASE f \in recent
          BY <4>2, <5>3 DEF CInv, EventsTrue, TypeOK, Events
        <5> QED BY <3>1, <5>2, <5>3 DEF Pending
      <4> QED BY <4>1, <4>2
    <3> QED BY <2>1, <3>1, <3>2 DEF CInv, EventsTrue
  <2>2. \A n : Additions(n)' \subseteq Additions(n) /\ Changes(n)' \subseteq Changes(n)
    BY <1>d DEF Additions, Changes
  <2>3. \A n \in Nodes \ overtaken' :
          Additions(n)' # {} => contract'[n] = OK /\ Changes(n)' = {}
    BY <1>a, <2>2 DEF CInv, EventsTrue
  <2> QED BY <1>a, <1>d, <2>1, <2>3 DEF CInv, EventsTrue
<1>3. MapsReal'
  <2>1. contract[x] # Absent BY <1>b DEF CInv, EventsTrue
  <2> QED BY <1>a, <1>f, <2>1 DEF CInv, MapsReal
<1>4. MapsTrue'
  <2>1. \A y \in Entries : Taken(y)' <=> Taken(y) BY <1>a DEF Taken
  <2>2. ASSUME NEW y \in Entries \ missed, Taken(y), contract[y] # Absent
        PROVE  /\ Additions(y)' = {} => Known(y)'
               /\ y \notin overtaken /\ Additions(y)' \cup Changes(y)' = {} =>
                    maps'[KindOf(y)][y] = contract[y]
    <3>1. /\ Additions(y) = {} => Known(y)
          /\ y \notin overtaken /\ Additions(y) \cup Changes(y) = {} =>
               maps[KindOf(y)][y] = contract[y]
      BY <2>2 DEF CInv, MapsTrue
    <3>2. CASE y # x
      <4>1. Known(y)' <=> Known(y) BY <1>b, <1>f, <2>2, <3>2, KindFacts DEF Known
      <4>2. Known(y) => maps'[KindOf(y)][y] = maps[KindOf(y)][y]
        BY <1>f, <2>2, <3>2, KindFacts DEF Known
      <4> QED BY <1>e, <2>2, <3>1, <3>2, <4>1, <4>2
    <3>3. CASE y = x
      <4>1. CASE e.on = "NodeAdded"
        <5>1. Known(y)' /\ maps'[KindOf(y)][y] = OK BY <1>f, <3>3, <4>1 DEF Known
        <5>2. y \in Nodes
          BY <1>b, <3>3, <4>1 DEF CInv, EventsTrue, Entries
        <5>3. Additions(y) # {} BY <1>b, <3>3, <4>1 DEF Additions
        <5>4. y \notin overtaken => contract[y] = OK
          BY <5>2, <5>3 DEF CInv, EventsTrue
        <5> QED BY <5>1, <5>4
      <4>2. CASE e.on # "NodeAdded"
        <5>1. Additions(y)' = Additions(y) BY <1>d, <4>2 DEF Additions
        <5>2. e \in Changes(y) BY <1>b, <3>3, <4>2 DEF Changes
        <5>3. Changes(y)' = {} => e.value = contract[y]
          <6>1. ASSUME Changes(y)' = {} PROVE \A g \in Changes(e.about) : g = e
            BY <1>d, <3>3, <6>1 DEF Changes
          <6>2. e.no <= e.no BY <1>b DEF Events
          <6> QED BY <1>b, <3>3, <4>2, <6>1, <6>2 DEF CInv, EventsTrue
        <5>4. Additions(y) = {} => Known(y)' /\ maps'[KindOf(y)][y] = e.value
          BY <1>f, <3>1, <3>3, <4>2 DEF Known
        <5> QED BY <5>1, <5>3, <5>4
      <4> QED BY <4>1, <4>2
    <3> QED BY <3>2, <3>3
  <2> QED BY <1>a, <2>1, <2>2 DEF MapsTrue
<1>5. DueHeard' BY <1>a DEF CInv, DueHeard, Subscribed
<1> QED BY <1>1, <1>2, <1>3, <1>4, <1>5 DEF CInv

\* A change of the contract, whichever it is.
LEMMA EmitCInv ==
  ASSUME CInv, NEW f \in Filters, NEW x \in Entries, NEW v \in Values, Emit(f, x, v),
         (x = Params) <=> (f = "BlockParamsUpdated"),
         v # Absent, missed' = missed,
         overtaken \subseteq overtaken', overtaken' \subseteq Nodes,
         f = "NodeAdded" => v = OK /\ contract[x] = Absent,
         f # "NodeAdded" => contract[x] # Absent /\ (Additions(x) # {} => x \in overtaken')
  PROVE  CInv'
PROOF
<1> DEFINE e == [on |-> f, about |-> x, value |-> v, no |-> emitted + 1]
<1>a. /\ emitted < MaxEvents /\ emitted' = emitted + 1
      /\ contract' = [contract EXCEPT ![x] = v]
      /\ recent' = recent \cup {e}
      /\ UNCHANGED <<due, client, maps, crashes>>
  BY DEF Emit
<1>b. emitted \in Nat /\ emitted + 1 \in 0..MaxEvents
  BY <1>a, ContractBoundsAssumption DEF CInv, TypeOK
<1>c. e \in Events BY <1>b DEF Events
<1>d. Pending' = Pending \cup {e} BY <1>a DEF Pending
<1>e. /\ contract'[x] = v
      /\ \A y \in Entries : y # x => contract'[y] = contract[y]
      /\ \A y \in Entries : contract[y] # Absent => contract'[y] # Absent
      /\ contract' \in [Entries -> Values \cup {Absent}]
  BY <1>a DEF CInv, TypeOK
<1>f. \A y : y # x => Additions(y)' = Additions(y) /\ Changes(y)' = Changes(y)
  BY <1>d DEF Additions, Changes
<1>g. /\ f = "NodeAdded" => e \in Additions(x)' /\ Changes(x)' = Changes(x)
      /\ f # "NodeAdded" => e \in Changes(x)' /\ Additions(x)' = Additions(x)
  BY <1>d DEF Additions, Changes
<1>h. \A g \in Pending : g \in Events /\ g.no \in Nat /\ g.no < emitted + 1 /\ g.about \in Entries
  BY <1>b DEF CInv, TypeOK, EventsTrue, Events, Pending
<1> HIDE DEF e
<1>i. e.on = f /\ e.about = x /\ e.value = v /\ e.no = emitted + 1 BY DEF e
<1>1. TypeOK'
  <2>1. Params \in Entries BY DEF Entries
  <2>2. recent' \subseteq Events /\ due' \subseteq Events
    BY <1>a, <1>c DEF CInv, TypeOK
  <2>3. client'.pc = "read" =>
          \A y \in client'.todo : KindOf(y) = client'.kind /\ contract'[y] # Absent
    BY <1>a, <1>e DEF CInv, TypeOK, ClientStates
  <2> QED BY <1>a, <1>b, <1>e, <2>1, <2>2, <2>3 DEF CInv, TypeOK
<1>2. EventsTrue'
  <2>1. ASSUME NEW g \in Pending'
        PROVE  /\ g.no <= emitted'
               /\ (g.about = Params) <=> (g.on = "BlockParamsUpdated")
               /\ contract'[g.about] # Absent
               /\ \A h \in Pending' : h.no = g.no => h = g
    <3>1. CASE g = e
      <4>1. \A h \in Pending' : h.no = g.no => h = g
        BY <1>b, <1>d, <1>h, <1>i, <3>1
      <4> QED BY <1>a, <1>b, <1>e, <1>i, <3>1, <4>1
    <3>2. CASE g \in Pending
      <4>1. \A h \in Pending' : h.no = g.no => h = g
        BY <1>b, <1>d, <1>h, <1>i, <3>2 DEF CInv, EventsTrue
      <4>2. g.no <= emitted' BY <1>a, <1>b, <1>h, <3>2
      <4> QED BY <1>e, <1>h, <3>2, <4>1, <4>2 DEF CInv, EventsTrue
    <3> QED BY <1>d, <3>1, <3>2
  <2>2. ASSUME NEW g \in Pending', g.on # "NodeAdded",
               \A h \in Changes(g.about)' : h.no <= g.no
        PROVE  g.value = contract'[g.about]
    <3>1. CASE g = e BY <1>e, <1>i, <3>1
    <3>2. CASE g # e /\ g.about = x
      <4>1. g \in Pending BY <1>d, <3>2
      <4>2. f # "NodeAdded"
        BY <3>2, <4>1 DEF CInv, EventsTrue
      <4>3. e \in Changes(g.about)' BY <1>g, <3>2, <4>2
      <4> QED BY <1>b, <1>h, <1>i, <2>2, <4>1, <4>3
    <3>3. CASE g # e /\ g.about # x
      <4>1. g \in Pending BY <1>d, <3>3
      <4>2. \A h \in Changes(g.about) : h.no <= g.no BY <1>f, <2>2, <3>3
      <4>3. g.value = contract[g.about] BY <2>2, <4>1, <4>2 DEF CInv, EventsTrue
      <4> QED BY <1>e, <1>h, <3>3, <4>1, <4>3
    <3> QED BY <3>1, <3>2, <3>3
  <2>3. ASSUME NEW g \in due', NEW h \in recent' PROVE g.no < h.no
    <3>1. g \in due /\ g \in Pending BY <1>a, <2>3 DEF Pending
    <3>2. CASE h = e BY <1>h, <1>i, <3>1, <3>2
    <3>3. CASE h \in recent BY <3>1, <3>3 DEF CInv, EventsTrue
    <3> QED BY <1>a, <3>2, <3>3
  <2>4. ASSUME NEW n \in Nodes \ overtaken', Additions(n)' # {}
        PROVE  contract'[n] = OK /\ Changes(n)' = {}
    <3>1. n \in Entries BY DEF Entries
    <3>2. CASE n # x BY <1>e, <1>f, <2>4, <3>1, <3>2 DEF CInv, EventsTrue
    <3>3. CASE n = x /\ f = "NodeAdded"
      <4>1. Changes(x) = {} BY <3>3 DEF CInv, EventsTrue, Changes
      <4> QED BY <1>e, <1>g, <3>3, <4>1
    <3>4. CASE n = x /\ f # "NodeAdded" BY <1>g, <2>4, <3>4
    <3> QED BY <3>2, <3>3, <3>4
  <2> QED BY <2>1, <2>2, <2>3, <2>4 DEF EventsTrue
<1>3. MapsReal'
  <2>1. \A k \in Kinds : DOMAIN maps[k] \subseteq Entries BY DEF CInv, TypeOK
  <2> QED BY <1>a, <1>e, <2>1 DEF CInv, MapsReal
<1>4. MapsTrue'
  <2>1. ASSUME NEW y \in Entries \ missed, Taken(y)', contract'[y] # Absent
        PROVE  /\ Additions(y)' = {} => Known(y)'
               /\ y \notin overtaken' /\ Additions(y)' \cup Changes(y)' = {} =>
                    maps'[KindOf(y)][y] = contract'[y]
    <3>1. Taken(y) /\ (Known(y)' <=> Known(y)) BY <1>a, <2>1 DEF Taken, Known
    <3>2. CASE y # x
      <4>1. contract'[y] = contract[y] BY <1>e, <3>2
      <4>2. /\ Additions(y) = {} => Known(y)
            /\ y \notin overtaken /\ Additions(y) \cup Changes(y) = {} =>
                 maps[KindOf(y)][y] = contract[y]
        BY <2>1, <3>1, <4>1 DEF CInv, MapsTrue
      <4> QED BY <1>a, <1>f, <3>1, <3>2, <4>1, <4>2
    <3>3. CASE y = x /\ f = "NodeAdded" BY <1>g, <3>3
    <3>4. CASE y = x /\ f # "NodeAdded"
      <4>1. Additions(y) = {} => Known(y)
        BY <2>1, <3>1, <3>4 DEF CInv, MapsTrue
      <4> QED BY <1>g, <3>1, <3>4, <4>1
    <3> QED BY <3>2, <3>3, <3>4
  <2> QED BY <2>1 DEF MapsTrue
<1>5. DueHeard' BY <1>a DEF CInv, DueHeard, Subscribed
<1> QED BY <1>1, <1>2, <1>3, <1>4, <1>5 DEF CInv

LEMMA RegisterCInv ==
  ASSUME CInv, NEW n \in Nodes, Register(n)
  PROVE  CInv'
PROOF
<1>1. n \in Entries /\ n # Params BY NodesAssumption DEF Entries, Nodes
<1>2. OK \in Values /\ OK # Absent BY DEF Values, OK, Absent
<1>3. overtaken \subseteq Nodes BY DEF CInv, TypeOK
<1>4. Emit("NodeAdded", n, OK) /\ contract[n] = Absent /\ UNCHANGED <<missed, overtaken>>
  BY DEF Register, past
<1>5. "NodeAdded" \in Filters BY DEF Filters
<1> QED BY <1>1, <1>2, <1>3, <1>4, <1>5, EmitCInv

LEMMA ChangeStatusCInv ==
  ASSUME CInv, NEW n \in Nodes, NEW s \in {OK} \cup LaterStates, ChangeStatus(n, s)
  PROVE  CInv'
PROOF
<1>1. n \in Entries /\ n # Params BY NodesAssumption DEF Entries, Nodes
<1>2. s \in Values /\ s # Absent BY StatesAssumption DEF Values, OK, Absent
<1>3. overtaken \subseteq Nodes BY DEF CInv, TypeOK
<1>4. /\ Emit("NodeStatusChanged", n, s) /\ contract[n] # Absent /\ missed' = missed
      /\ overtaken' = IF Additions(n) = {} THEN overtaken ELSE overtaken \cup {n}
  BY DEF ChangeStatus
<1>5. "NodeStatusChanged" \in Filters BY DEF Filters
<1>6. /\ overtaken \subseteq overtaken' /\ overtaken' \subseteq Nodes
      /\ Additions(n) # {} => n \in overtaken'
  BY <1>3, <1>4
<1> QED BY <1>1, <1>2, <1>4, <1>5, <1>6, EmitCInv

LEMMA ChangeParamsCInv ==
  ASSUME CInv, NEW v \in Sizes, ChangeParams(v)
  PROVE  CInv'
PROOF
<1>1. Params \in Entries BY DEF Entries
<1>2. v \in Values /\ v # Absent BY StatesAssumption DEF Values
<1>3. overtaken \subseteq Nodes /\ contract[Params] # Absent BY DEF CInv, TypeOK
<1>4. Emit("BlockParamsUpdated", Params, v) /\ UNCHANGED <<missed, overtaken>>
  BY DEF ChangeParams, past
<1>5. "BlockParamsUpdated" \in Filters BY DEF Filters
<1>6. Additions(Params) = {}
  BY DEF CInv, EventsTrue, Additions
<1> QED BY <1>1, <1>2, <1>3, <1>4, <1>5, <1>6, EmitCInv

\* Every step of the contract, the client and the provider keeps the invariant.
LEMMA NextCInv == CInv /\ [Next]_vars => CInv'
PROOF
<1> SUFFICES ASSUME CInv, [Next]_vars PROVE CInv' OBVIOUS
<1>1. CASE \E n \in Nodes : Register(n) BY <1>1, RegisterCInv
<1>2. CASE \E n \in Nodes : \E s \in {OK} \cup LaterStates : ChangeStatus(n, s)
  BY <1>2, ChangeStatusCInv
<1>3. CASE \E v \in Sizes : ChangeParams(v) BY <1>3, ChangeParamsCInv
<1>4. CASE Connect BY <1>4, ConnectCInv
<1>5. CASE List BY <1>5, ListCInv
<1>6. CASE Advance BY <1>6, AdvanceCInv
<1>7. CASE GoDown BY <1>7, GoDownCInv
<1>8. CASE client.pc = "read" /\ \E x \in client.todo : Read(x) BY <1>8, ReadCInv
<1>9. CASE Poll BY <1>9, PollCInv
<1>10. CASE HandleSome BY <1>10, HandleCInv DEF HandleSome
<1>11. CASE UNCHANGED vars
  <2>1. /\ UNCHANGED <<contract, emitted, recent, due, client, maps, crashes, missed, overtaken>>
    BY <1>11 DEF vars, world, past
  <2>2. TypeOK' BY <2>1 DEF CInv, TypeOK
  <2>3. EventsTrue' BY <2>1 DEF CInv, EventsTrue, Pending, Additions, Changes
  <2>4. DueHeard' BY <2>1 DEF CInv, DueHeard, Subscribed
  <2>5. MapsReal' BY <2>1 DEF CInv, MapsReal
  <2>6. MapsTrue' BY <2>1 DEF CInv, MapsTrue, Taken, Additions, Changes, Pending, Known
  <2> QED BY <2>2, <2>3, <2>4, <2>5, <2>6 DEF CInv
<1> QED
  BY <1>1, <1>2, <1>3, <1>4, <1>5, <1>6, <1>7, <1>8, <1>9, <1>10, <1>11 DEF Next

\* Start-up and events keep the inductive invariant: maps and events under way
\* together always give the contract, except for what "missed" and "overtaken" name.
THEOREM ContractInvariant == Spec => []CInv
PROOF BY InitCInv, NextCInv, PTL DEF Spec

\* With no event under way a started node knows the nodes of the contract, and no
\* others, but for those added in the window of the start-up.
THEOREM NodesAreKnown == Spec => []AddedAreKnown
PROOF
<1>1. CInv => AddedAreKnown
  <2> SUFFICES ASSUME CInv, client.pc = "ready", Pending = {}, NEW n \in Nodes \ missed
               PROVE  Known(n) <=> contract[n] # Absent
    BY DEF AddedAreKnown
  <2>1. n \in Entries /\ KindOf(n) \in Kinds BY KindFacts DEF Entries
  <2>2. Known(n) => contract[n] # Absent BY <2>1 DEF CInv, MapsReal, Known
  <2>3. contract[n] # Absent => Known(n)
    BY <2>1 DEF CInv, MapsTrue, Taken, Additions
  <2> QED BY <2>2, <2>3
<1> QED BY <1>1, ContractInvariant, PTL

\* With no event under way the states and parameters of a started node are the
\* contract's, but for what the window of the start-up hid and for overtaken nodes.
THEOREM QuietNodesAgree == Spec => []QuietAgrees
PROOF
<1>1. CInv => QuietAgrees
  BY DEF CInv, MapsTrue, Taken, Additions, Changes, QuietAgrees
<1> QED BY <1>1, ContractInvariant, PTL
==============================================================================
