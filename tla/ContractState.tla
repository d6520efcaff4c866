---------------------------- MODULE ContractState -----------------------------
(***************************************************************************)
(* What a storage node knows of the validator contract.  ValidatorCtClient *)
(* reads the block parameters, the validators and the storage nodes one    *)
(* call at a time while the contract goes on changing, subscribes to its   *)
(* events only behind the reads, and from then on applies the events of    *)
(* three subscriptions, each in its order but not in the order of the      *)
(* others.                                                                 *)
(***************************************************************************)
EXTENDS Integers, FiniteSets

CONSTANTS
  VNodes,       \* the validators the contract may come to have
  SNodes,       \* the storage nodes
  LaterStates,  \* the NodeStatus values a node may get after "OK"
  Sizes,        \* the values of valPerBlock
  MaxEvents,    \* bound: changes of the contract
  MaxCrashes    \* bound: ends of the process

Params == "params"
OK == "OK"
Absent == "absent"

ASSUME NodesAssumption ==
  VNodes \cap SNodes = {} /\ Params \notin VNodes \cup SNodes
ASSUME StatesAssumption == Absent \notin LaterStates \cup Sizes
ASSUME ContractBoundsAssumption == MaxEvents \in Nat /\ MaxCrashes \in Nat

VARIABLES
  contract,  \* entry -> its value in the contract
  recent,    \* events the provider has not polled yet
  due,       \* events it has polled and not yet emitted
  client,    \* where ValidatorCtClient.connect() stands
  maps,      \* vnodes, snodes and the block parameters in memory
  emitted,   \* events so far: the number of the last one
  crashes,
  missed,    \* history: entries changed behind their read, unseen
  overtaken  \* history: nodes whose status changed while their NodeAdded was under way

world == <<contract, emitted>>
past  == <<missed, overtaken>>
vars  == <<world, recent, due, client, maps, crashes, past>>

Nodes == VNodes \cup SNodes

Entries == Nodes \cup {Params}

\* NodeType, and one more kind for the parameters.
KindOf(x) == IF x \in VNodes THEN "VNode" ELSE IF x \in SNodes THEN "SNode" ELSE Params

\* The order in which connect() reads the kinds.
Kinds == {Params, "VNode", "SNode"}
Place(k) == IF k = Params THEN 1 ELSE IF k = "VNode" THEN 2 ELSE 3

Values == {OK} \cup LaterStates \cup Sizes

ValuesOf(x) == IF x = Params THEN Sizes ELSE {OK} \cup LaterStates

Filters == {"BlockParamsUpdated", "NodeAdded", "NodeStatusChanged"}

Events == [on : Filters, about : Entries, value : Values, no : Nat]

ClientStates ==
  [pc : {"down", "ready"}]
    \cup [pc : {"list"}, kind : Kinds]
    \cup [pc : {"read"}, kind : Kinds, todo : SUBSET Entries]

NoMaps == [k \in Kinds |-> <<>>]

Init ==
  /\ contract \in {c \in [Entries -> Values \cup {Absent}] :
                     /\ c[Params] \in Sizes
                     /\ \A n \in Nodes : c[n] \in ValuesOf(n) \cup {Absent}}
  /\ recent = {} /\ due = {} /\ emitted = 0 /\ crashes = 0
  /\ client = [pc |-> "down"]
  /\ maps = NoMaps
  /\ missed = {} /\ overtaken = {}

Pending == recent \cup due

Additions(x) == {e \in Pending : e.about = x /\ e.on = "NodeAdded"}

Changes(x) == {e \in Pending : e.about = x /\ e.on # "NodeAdded"}

------------------------------------------------------------------------------
(* The contract. *)

Emit(f, x, v) ==
  /\ emitted < MaxEvents
  /\ emitted' = emitted + 1
  /\ contract' = [contract EXCEPT ![x] = v]
  /\ recent' = recent \cup {[on |-> f, about |-> x, value |-> v, no |-> emitted + 1]}
  /\ UNCHANGED <<due, client, maps, crashes>>

Register(n) ==
  /\ contract[n] = Absent
  /\ Emit("NodeAdded", n, OK)
  /\ UNCHANGED past

ChangeStatus(n, s) ==
  /\ contract[n] \notin {Absent, s}
  /\ Emit("NodeStatusChanged", n, s)
  /\ overtaken' = IF Additions(n) = {} THEN overtaken ELSE overtaken \cup {n}
  /\ UNCHANGED missed

ChangeParams(v) ==
  /\ contract[Params] # v
  /\ Emit("BlockParamsUpdated", Params, v)
  /\ UNCHANGED past

------------------------------------------------------------------------------
(* ValidatorCtClient.connect(). *)

Known(x) == x \in DOMAIN maps[KindOf(x)]

\* Map.set(): a new key or a new value.
Put(f, x, v) == [y \in DOMAIN f \cup {x} |-> IF y = x THEN v ELSE f[y]]

Store(k, x, v) == maps' = [maps EXCEPT ![k] = Put(@, x, v)]

Goto(state) == client' = state

Connect ==
  /\ client.pc = "down"
  /\ Goto([pc |-> "list", kind |-> Params])
  /\ UNCHANGED <<world, recent, due, maps, crashes, past>>

\* getVNodes(), getSNodes(): the nodes of this moment; the parameters are there.
List ==
  /\ client.pc = "list"
  /\ Goto([pc |-> "read", kind |-> client.kind,
           todo |-> {x \in Entries : KindOf(x) = client.kind /\ contract[x] # Absent}])
  /\ UNCHANGED <<world, recent, due, maps, crashes, past>>

\* Mutant of ReadValue: a node is taken over as NodeAdded would.
ReadAsNew(x) == IF x = Params THEN contract[x] ELSE OK

\* getNodeInfo() of a listed node, valPerBlock().
ReadValue(x) == contract[x]

Read(x) ==
  /\ client.pc = "read" /\ x \in client.todo
  /\ Store(client.kind, x, ReadValue(x))
  /\ Goto([client EXCEPT !.todo = @ \ {x}])
  /\ UNCHANGED <<world, recent, due, crashes, past>>

\* The next kind.  contract.on() for the parameters stands behind their read, for
\* the nodes behind the read of all nodes.
Advance ==
  /\ client.pc = "read" /\ client.todo = {}
  /\ \/ client.kind = Params /\ Goto([pc |-> "list", kind |-> "VNode"])
     \/ client.kind = "VNode" /\ Goto([pc |-> "list", kind |-> "SNode"])
     \/ client.kind = "SNode" /\ Goto([pc |-> "ready"])
  /\ UNCHANGED <<world, recent, due, maps, crashes, past>>

\* A call of connect() throws, which ends the start-up, or the process ends.
GoDown ==
  /\ client.pc # "down" /\ crashes < MaxCrashes
  /\ crashes' = crashes + 1
  /\ Goto([pc |-> "down"])
  /\ maps' = NoMaps /\ due' = {} /\ missed' = {}
  /\ overtaken' = {n \in overtaken : \E e \in recent : e.about = n /\ e.on = "NodeAdded"}
  /\ UNCHANGED <<world, recent>>

------------------------------------------------------------------------------
(* Events. *)

\* The kind is behind the client, the entry read or found missing from the list.
Taken(x) ==
  \/ client.pc = "ready"
  \/ client.pc \in {"list", "read"} /\ Place(KindOf(x)) < Place(client.kind)
  \/ client.pc = "read" /\ KindOf(x) = client.kind /\ x \notin client.todo

\* Mutant of Subscribed: the subscription to status changes is forgotten.
SubscribedToAdditions(f) ==
  \/ client.pc = "ready" /\ f # "NodeStatusChanged"
  \/ f = "BlockParamsUpdated" /\ client.pc \in {"list", "read"} /\ client.kind # Params

\* contract.on() has been called for the filter.
Subscribed(f) ==
  \/ client.pc = "ready"
  \/ f = "BlockParamsUpdated" /\ client.pc \in {"list", "read"} /\ client.kind # Params

\* Behind the read, before the subscription.
InWindow(x) ==
  /\ Taken(x) /\ client.pc # "ready"
  /\ x = Params => client.kind = Params

\* The provider asks for the logs since its last poll, once per subscription; what
\* nobody has subscribed to is gone.
Poll ==
  /\ recent # {}
  /\ LET heard == {e \in recent : Subscribed(e.on)}
     IN /\ due' = due \cup heard
        /\ missed' = missed \cup {x \in Entries :
                                 InWindow(x) /\ \E e \in recent \ heard : e.about = x}
  /\ recent' = {}
  /\ UNCHANGED <<world, client, maps, crashes, overtaken>>

\* Events of one subscription are emitted in their order.
FirstDue(e) == \A g \in due : g.on = e.on => e.no <= g.no

\* Mutant of MapByType: validators and storage nodes are swapped.
MapByTypeSwapped(x) == IF x \in SNodes THEN "VNode" ELSE "SNode"

\* getNodeMapByType().
MapByType(x) == KindOf(x)

\* Mutant of ApplyStatus: only the validators are looked up.
ApplyStatusToVNodes(x, v) ==
  IF x \in DOMAIN maps["VNode"] THEN Store("VNode", x, v) ELSE UNCHANGED maps

\* The node is looked up among the validators, then among the storage nodes; that it
\* is unknown is logged.
ApplyStatus(x, v) ==
  IF x \in DOMAIN maps["VNode"] THEN Store("VNode", x, v)
  ELSE IF x \in DOMAIN maps["SNode"] THEN Store("SNode", x, v)
  ELSE UNCHANGED maps

\* The listener of the event's subscription runs.
Handle(e) ==
  /\ e \in due /\ FirstDue(e)
  /\ due' = due \ {e}
  /\ \/ e.on = "NodeAdded" /\ Store(MapByType(e.about), e.about, OK)
     \/ e.on = "NodeStatusChanged" /\ ApplyStatus(e.about, e.value)
     \/ e.on = "BlockParamsUpdated" /\ Store(Params, Params, e.value)
  /\ UNCHANGED <<world, recent, client, crashes, past>>

HandleSome == \E e \in due : Handle(e)

Next ==
  \/ \E n \in Nodes : Register(n) \/ \E s \in {OK} \cup LaterStates : ChangeStatus(n, s)
  \/ \E v \in Sizes : ChangeParams(v)
  \/ Connect \/ List \/ Advance \/ GoDown
  \/ client.pc = "read" /\ \E x \in client.todo : Read(x)
  \/ Poll \/ HandleSome

Spec == Init /\ [][Next]_vars

\* The provider polls on a timer and emits what it has polled.
FairSpec == Spec /\ WF_vars(Poll) /\ WF_vars(HandleSome)

------------------------------------------------------------------------------
(* Properties. *)

\* Type invariant, with what belongs together in an event and in a map.
TypeOK ==
  /\ contract \in [Entries -> Values \cup {Absent}]
  /\ contract[Params] # Absent
  /\ emitted \in 0..MaxEvents /\ crashes \in 0..MaxCrashes
  /\ recent \subseteq Events /\ due \subseteq Events
  /\ client \in ClientStates
  /\ client.pc = "read" =>
       \A x \in client.todo : KindOf(x) = client.kind /\ contract[x] # Absent
  /\ DOMAIN maps = Kinds
  /\ \A k \in Kinds : /\ maps[k] = [x \in DOMAIN maps[k] |-> maps[k][x]]
                       /\ DOMAIN maps[k] \subseteq Entries
  /\ missed \subseteq Entries /\ overtaken \subseteq Nodes

\* Events carry rising numbers, the polled ones below the others, and name an entry
\* of the right sort; the latest change of an entry under way holds what the contract
\* has, and an addition that nothing overtook stands alone.
EventsTrue ==
  /\ \A e \in Pending :
       /\ e.no <= emitted
       /\ (e.about = Params) <=> (e.on = "BlockParamsUpdated")
       /\ contract[e.about] # Absent
       /\ \A g \in Pending : g.no = e.no => g = e
       /\ e.on # "NodeAdded" /\ (\A g \in Changes(e.about) : g.no <= e.no)
            => e.value = contract[e.about]
  /\ \A e \in due : \A g \in recent : e.no < g.no
  /\ \A n \in Nodes \ overtaken :
       Additions(n) # {} => contract[n] = OK /\ Changes(n) = {}

\* Only what has a listener is polled.
DueHeard == \A e \in due : Subscribed(e.on)

\* The maps hold entries of the contract, under their kind.
MapsReal ==
  \A k \in Kinds : \A x \in DOMAIN maps[k] : KindOf(x) = k /\ contract[x] # Absent

\* What the client has taken it knows, and knows as the contract has it, up to the
\* events under way.
MapsTrue ==
  \A x \in Entries \ missed :
    Taken(x) /\ contract[x] # Absent =>
      /\ Additions(x) = {} => Known(x)
      /\ x \notin overtaken /\ Additions(x) \cup Changes(x) = {} =>
           maps[KindOf(x)][x] = contract[x]

\* The inductive invariant of start-up and events.
CInv == TypeOK /\ EventsTrue /\ DueHeard /\ MapsReal /\ MapsTrue

\* isActiveValidator(), getStorageNodesMap(): once no event is under way, a node that
\* was started knows exactly the nodes of the contract, but for those that were added
\* between the reading of the list and the first poll that has a listener.
AddedAreKnown ==
  client.pc = "ready" /\ Pending = {} =>
    \A n \in Nodes \ missed : Known(n) <=> contract[n] # Absent

\* "reads on start, updates on events": with no event under way, states and
\* parameters in memory are the contract's, whatever changed before, during or after
\* the start, but for what no listener was told and for the nodes whose addition was
\* emitted behind a later change of their status.
QuietAgrees ==
  client.pc = "ready" /\ Pending = {} =>
    \A x \in Entries \ (missed \cup overtaken) :
      contract[x] # Absent => Known(x) /\ maps[KindOf(x)][x] = contract[x]

\* A node that stays up comes to rest on the contract's entries.
SettlesOnContract ==
  <>[](client.pc = "ready") =>
    <>[](\A x \in Entries \ (missed \cup overtaken) :
           contract[x] # Absent => Known(x) /\ maps[KindOf(x)][x] = contract[x])
==============================================================================
