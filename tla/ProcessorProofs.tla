-------------------------- MODULE ProcessorProofs --------------------------
(***************************************************************************)
(* Proofs about Processor, for every number of lanes, every set of flows   *)
(* and packets, every capacity and every sequence of updates; and about    *)
(* the TunWriter of LocalWriter, which writes the packets for a local TUN  *)
(* interface, for every flow that fits into half of the sequence space.    *)
(***************************************************************************)
EXTENDS Processor, LocalWriter, FiniteSetTheorems, SequenceTheorems,
        NaturalsInduction, WellFoundedInduction, TLAPS

USE LocalAssumption, StrideAssumption, ChannelAssumption, PacketAssumption

-----------------------------------------------------------------------------
(* Maps *)

LEMMA DropFacts ==
    ASSUME NEW f, NEW S
    PROVE  /\ \A x : x \in DOMAIN Drop(f, S) <=> x \in DOMAIN f /\ x \notin S
           /\ \A x : x \in DOMAIN f /\ x \notin S => Drop(f, S)[x] = f[x]
BY DEF Drop

LEMMA ExtendFacts ==
    ASSUME NEW f, NEW g
    PROVE  /\ \A x : x \in DOMAIN Extend(f, g) <=> x \in DOMAIN f \/ x \in DOMAIN g
           /\ \A x : x \in DOMAIN g => Extend(f, g)[x] = g[x]
           /\ \A x : x \in DOMAIN f /\ x \notin DOMAIN g => Extend(f, g)[x] = f[x]
BY DEF Extend

\* Some keys are removed and others written, as an installation does.
LEMMA ReplaceFacts ==
    ASSUME NEW f, NEW S, NEW g, NEW h, h = Extend(Drop(f, S), g)
    PROVE  /\ \A x : x \in DOMAIN h <=> (x \in DOMAIN f /\ x \notin S) \/ x \in DOMAIN g
           /\ \A x : x \in DOMAIN g => h[x] = g[x]
           /\ \A x : x \in DOMAIN f /\ x \notin S /\ x \notin DOMAIN g => h[x] = f[x]
BY DropFacts, ExtendFacts

LEMMA InsertFacts ==
    ASSUME NEW f, NEW a, NEW v
    PROVE  /\ \A x : x \in DOMAIN Insert(f, a, v) <=> x \in DOMAIN f \/ x = a
           /\ Insert(f, a, v)[a] = v
           /\ \A x : x \in DOMAIN f /\ x # a => Insert(f, a, v)[x] = f[x]
BY DEF Insert

-----------------------------------------------------------------------------
(* Route ids of trees *)

\* Different trees have different route ids.
LEMMA TreeIdsUnique ==
    ASSUME NEW g \in Nat, NEW h \in Nat, NEW a \in 0 .. (Stride - 1), NEW b \in 0 .. (Stride - 1),
           g * Stride + a = h * Stride + b
    PROVE  g = h /\ a = b
<1>1. ASSUME NEW x \in Nat, NEW y \in Nat, NEW c \in 0 .. (Stride - 1), NEW d \in 0 .. (Stride - 1),
             x * Stride + c = y * Stride + d, x < y
      PROVE  FALSE
  <2>1. \A k \in Nat : k * Stride >= 0
    BY SMT
  <2>2. (y - x - 1) * Stride >= 0
    BY <1>1, <2>1
  <2>3. y * Stride - x * Stride = (y - x - 1) * Stride + Stride
    BY <1>1, SMT
  <2>4. y * Stride \in Int /\ x * Stride \in Int
    OBVIOUS
  <2> QED
    BY <1>1, <2>2, <2>3, <2>4
<1>2. g = h
  BY <1>1
<1> QED
  BY <1>2, SMT

\* The id an accepted entry of install_group_routes has.
LEMMA TreeOfRoute ==
    ASSUME NEW group \in Nat, NEW r, r.id \in Nat, ValidTreeRoute(group, r)
    PROVE  LET tree == TreeIdFromRouteId(group, r.id) IN
           /\ tree \in 0 .. (Stride - 1)
           /\ DeterministicMulticastRouteId(group, tree) = r.id
           /\ r.id # NoRoute
BY SMT DEF ValidTreeRoute, TreeIdFromRouteId, DeterministicMulticastRouteId, NoTree, NoRoute

LEMMA TreeRouteIds ==
    ASSUME NEW group \in Nat, NEW tree \in Nat,
           DeterministicMulticastRouteId(group, tree) # NoRoute
    PROVE  /\ tree \in 0 .. (Stride - 1)
           /\ TreeRouteId(group, tree) = Flag + (group * Stride + tree)
           /\ TreeRouteId(group, tree) \in Nat /\ TreeRouteId(group, tree) >= Flag
<1>1. group * Stride \in Nat
  BY SMT
<1>2. tree < Stride /\ DeterministicMulticastRouteId(group, tree) = group * Stride + tree
  BY DEF DeterministicMulticastRouteId
<1> QED
  BY <1>1, <1>2 DEF TreeRouteId, EncodeMulticastRouteId

\* Two trees with the same route id are the same tree.
LEMMA SameIdSameTree ==
    ASSUME NEW g \in Nat, NEW h \in Nat, NEW a \in Nat, NEW b \in Nat,
           DeterministicMulticastRouteId(g, a) # NoRoute,
           DeterministicMulticastRouteId(h, b) # NoRoute,
           TreeRouteId(g, a) = TreeRouteId(h, b)
    PROVE  g = h /\ a = b
<1>1. /\ a \in 0 .. (Stride - 1) /\ b \in 0 .. (Stride - 1)
      /\ Flag + (g * Stride + a) = Flag + (h * Stride + b)
  BY TreeRouteIds
<1>2. g * Stride \in Nat /\ h * Stride \in Nat
  BY SMT
<1>3. g * Stride + a = h * Stride + b
  BY <1>1, <1>2
<1> QED
  BY <1>1, <1>3, TreeIdsUnique

-----------------------------------------------------------------------------
(* Updates of a table, field by field *)

LEMMA InstallRoutesFields ==
    ASSUME NEW t, DOMAIN t = Fields, NEW routes
    PROVE  LET u == InstallRoutes(t, routes)
               keys == {KeyOf(routes[i]) : i \in DOMAIN routes}
               ids == {routes[i].id : i \in DOMAIN routes}
           IN /\ DOMAIN u = Fields
              /\ u.available_routes = Extend(Drop(t.available_routes, UnicastKeys(t)),
                                             [k \in keys |-> IdsFor(routes, k)])
              /\ u.route_next_hop = Extend(Drop(t.route_next_hop, RouteIds(t, UnicastKeys(t))),
                                           [id \in ids |-> HopsFor(routes, id)])
              /\ u.group_dir = t.group_dir
              /\ u.cache = << >>
              /\ u.multicast_tree_cache = t.multicast_tree_cache
BY DEF InstallRoutes, ReplaceUnicast, Fields

LEMMA PinFields ==
    ASSUME NEW t, DOMAIN t = Fields, NEW flow, NEW id
    PROVE  LET u == PinRouteForFlow(t, flow, id)
           IN /\ DOMAIN u = Fields
              /\ u.available_routes = t.available_routes
              /\ u.route_next_hop = t.route_next_hop
              /\ u.group_dir = t.group_dir
              /\ u.multicast_tree_cache = t.multicast_tree_cache
              /\ \/ u.cache = t.cache
                 \/ u.cache = Insert(t.cache, flow, id)
BY DEF PinRouteForFlow, Fields

-----------------------------------------------------------------------------
(* Every update keeps a table in order *)

\* The unicast routes of a list
ListedRoutes(routes) ==
    [k \in {KeyOf(routes[i]) : i \in DOMAIN routes} |->
        [id \in IdsFor(routes, k) |-> HopsFor(routes, id)]]

\* install_routes; the unicast routes are then those of the list.
LEMMA InstallRoutesOK ==
    ASSUME NEW t, TableOK(t), NEW routes,
           \A i \in DOMAIN routes : routes[i].id \in 0 .. (Flag - 1)
    PROVE  /\ TableOK(InstallRoutes(t, routes))
           /\ UnicastRoutes(InstallRoutes(t, routes)) = ListedRoutes(routes)
<1> DEFINE u == InstallRoutes(t, routes)
           old == UnicastKeys(t)
           keys == {KeyOf(routes[i]) : i \in DOMAIN routes}
           ids == {routes[i].id : i \in DOMAIN routes}
           avail == [k \in keys |-> IdsFor(routes, k)]
           hops == [id \in ids |-> HopsFor(routes, id)]
<1>1. DOMAIN t = Fields
  BY DEF TableOK
<1>2. /\ DOMAIN u = Fields
      /\ u.available_routes = Extend(Drop(t.available_routes, old), avail)
      /\ u.route_next_hop = Extend(Drop(t.route_next_hop, RouteIds(t, old)), hops)
      /\ u.group_dir = t.group_dir
      /\ u.multicast_tree_cache = t.multicast_tree_cache
  BY <1>1, InstallRoutesFields
<1>a. DOMAIN avail = keys /\ \A k \in keys : avail[k] = IdsFor(routes, k)
  OBVIOUS
<1>b. DOMAIN hops = ids /\ \A id \in ids : hops[id] = HopsFor(routes, id)
  OBVIOUS
<1> HIDE DEF u, avail, hops, old, keys, ids
<1>3. /\ \A k : k \in DOMAIN u.available_routes
                 <=> (k \in DOMAIN t.available_routes /\ k \notin old) \/ k \in keys
      /\ \A k : k \in keys => u.available_routes[k] = IdsFor(routes, k)
      /\ \A k : k \in DOMAIN t.available_routes /\ k \notin old /\ k \notin keys
                  => u.available_routes[k] = t.available_routes[k]
  BY <1>2, <1>a, ReplaceFacts
<1>4. \A id : id \in DOMAIN u.route_next_hop
               <=> (id \in DOMAIN t.route_next_hop /\ id \notin RouteIds(t, old)) \/ id \in ids
  BY <1>2, <1>b, ReplaceFacts
<1> USE DEF old, keys, ids
<1>5. \A k \in keys : k.kind = "Unicast" /\ IdsFor(routes, k) \subseteq ids
  BY DEF KeyOf, Unicast, IdsFor
<1>6. \A k \in DOMAIN t.available_routes \ old : k.kind = "Multicast" /\ k \notin keys
  BY <1>5 DEF TableOK, UnicastKeys
<1>7. ids \subseteq 0 .. (Flag - 1)
  OBVIOUS
<1> HIDE DEF keys, ids
<1>8. \A k \in DOMAIN u.available_routes :
          /\ k.kind \in {"Unicast", "Multicast"}
          /\ k.kind = "Unicast" =>
                u.available_routes[k] \subseteq DOMAIN u.route_next_hop \cap (0 .. (Flag - 1))
          /\ k.kind = "Multicast" =>
                TreeKeyOK(k) /\ u.available_routes[k] = {TreeRouteId(k.group, k.tree)}
  <2> TAKE k \in DOMAIN u.available_routes
  <2>1. CASE k \in keys
    BY <2>1, <1>3, <1>4, <1>5, <1>7
  <2>2. CASE k \in DOMAIN t.available_routes \ old
    BY <2>2, <1>3, <1>6 DEF TableOK
  <2> QED
    BY <2>1, <2>2, <1>3
<1>9. ASSUME NEW id \in DOMAIN u.route_next_hop
      PROVE  \/ id \in 0 .. (Flag - 1)
             \/ \E k \in DOMAIN u.available_routes :
                   k.kind = "Multicast" /\ id \in u.available_routes[k]
  <2>1. CASE id \in ids
    BY <2>1, <1>7
  <2>2. CASE id \in DOMAIN t.route_next_hop /\ id \notin 0 .. (Flag - 1)
    <3>1. PICK k \in DOMAIN t.available_routes :
              k.kind = "Multicast" /\ id \in t.available_routes[k]
      BY <2>2 DEF TableOK
    <3>2. k \in DOMAIN t.available_routes \ old
      BY <3>1 DEF UnicastKeys
    <3> QED
      BY <3>1, <3>2, <1>3, <1>6
  <2> QED
    BY <2>1, <2>2, <1>4
<1> HIDE DEF old
<1>10. TableOK(u)
  BY <1>2, <1>8, <1>9 DEF TableOK
<1>11. \A k : k \in UnicastKeys(u) <=> k \in keys
  BY <1>3, <1>5, <1>6 DEF UnicastKeys
<1>12. \A id : id \in ids => u.route_next_hop[id] = HopsFor(routes, id)
  BY <1>2, <1>b, ReplaceFacts
<1>13. ASSUME NEW k \in keys
       PROVE  [id \in u.available_routes[k] |-> u.route_next_hop[id]]
                 = [id \in IdsFor(routes, k) |-> HopsFor(routes, id)]
  BY <1>3, <1>5, <1>12
<1>14. UnicastRoutes(u)
          = [k \in keys |-> [id \in u.available_routes[k] |-> u.route_next_hop[id]]]
  <2>1. UnicastKeys(u) = keys
    BY <1>11
  <2> QED
    BY <2>1 DEF UnicastRoutes
<1>15. UnicastRoutes(u) = [k \in keys |-> [id \in IdsFor(routes, k) |-> HopsFor(routes, id)]]
  BY <1>13, <1>14
<1> QED
  BY <1>10, <1>15 DEF u, ListedRoutes, keys

\* install_group_directory
LEMMA InstallGroupDirectoryOK ==
    ASSUME NEW t, TableOK(t), NEW groups,
           \A a \in DOMAIN groups : groups[a] \in Nat, TreesFromSource(groups)
    PROVE  /\ TableOK(InstallGroupDirectory(t, groups))
           /\ UnicastRoutes(InstallGroupDirectory(t, groups)) = UnicastRoutes(t)
<1> DEFINE u == InstallGroupDirectory(t, groups)
<1>1. /\ DOMAIN u = Fields
      /\ u.available_routes = t.available_routes
      /\ u.route_next_hop = t.route_next_hop
      /\ u.group_dir = groups
      /\ u.multicast_tree_cache = t.multicast_tree_cache
  BY DEF TableOK, InstallGroupDirectory, Fields
<1> HIDE DEF u
<1>2. TableOK(u)
  BY <1>1 DEF TableOK
<1>3. UnicastRoutes(u) = UnicastRoutes(t)
  BY <1>1 DEF UnicastRoutes, UnicastKeys
<1> QED
  BY <1>2, <1>3 DEF u

\* pin_route_for_flow
LEMMA PinOK ==
    ASSUME NEW t, TableOK(t), NEW flow, NEW id
    PROVE  /\ TableOK(PinRouteForFlow(t, flow, id))
           /\ UnicastRoutes(PinRouteForFlow(t, flow, id)) = UnicastRoutes(t)
<1> DEFINE u == PinRouteForFlow(t, flow, id)
<1>1. /\ DOMAIN u = Fields
      /\ u.available_routes = t.available_routes
      /\ u.route_next_hop = t.route_next_hop
      /\ u.group_dir = t.group_dir
      /\ u.multicast_tree_cache = t.multicast_tree_cache
  BY PinFields DEF TableOK
<1> HIDE DEF u
<1>2. TableOK(u)
  BY <1>1 DEF TableOK
<1>3. UnicastRoutes(u) = UnicastRoutes(t)
  BY <1>1 DEF UnicastRoutes, UnicastKeys
<1> QED
  BY <1>2, <1>3 DEF u

\* install_group_routes: the ids of the trees it replaces are not those of
\* unicast routes, which keep their next hops.
LEMMA InstallGroupRoutesOK ==
    ASSUME NEW t, TableOK(t), NEW group \in Nat, NEW routes,
           \A i \in DOMAIN routes : routes[i].id \in Nat
    PROVE  LET u == InstallGroupRoutes(t, group, GroupSource[group], routes)
           IN TableOK(u) /\ UnicastRoutes(u) = UnicastRoutes(t)
<1> DEFINE src == GroupSource[group]
           u == InstallGroupRoutes(t, group, src, routes)
           old == {k \in DOMAIN t.available_routes :
                      k.kind = "Multicast" /\ k.src = src /\ k.group = group}
           ids == {routes[i].id : i \in {i \in DOMAIN routes : ValidTreeRoute(group, routes[i])}}
           keys == {Multicast(src, group, TreeIdFromRouteId(group, id)) : id \in ids}
           codes == {EncodeMulticastRouteId(id) : id \in ids}
           avail == [k \in keys |-> {TreeRouteId(group, k.tree)}]
           hops == [e \in codes |-> HopsFor(routes, e - Flag)]
           forgotten == {k \in DOMAIN t.multicast_tree_cache : k.src = src /\ k.group = group}
<1>1. DOMAIN t = Fields
  BY DEF TableOK
<1>2. /\ DOMAIN u = Fields
      /\ u.available_routes = Extend(Drop(t.available_routes, old), avail)
      /\ u.route_next_hop = Extend(Drop(t.route_next_hop, RouteIds(t, old)), hops)
      /\ u.group_dir = t.group_dir
      /\ u.multicast_tree_cache = Drop(t.multicast_tree_cache, forgotten)
  BY <1>1 DEF InstallGroupRoutes, Fields, TreeRouteId
<1>3. DOMAIN avail = keys /\ \A k \in keys : avail[k] = {TreeRouteId(group, k.tree)}
  OBVIOUS
<1>4. DOMAIN hops = codes
  OBVIOUS
<1> HIDE DEF u, avail, hops, old, keys, ids, codes, forgotten
<1>5. /\ \A k : k \in DOMAIN u.available_routes
                 <=> (k \in DOMAIN t.available_routes /\ k \notin old) \/ k \in keys
      /\ \A k : k \in keys => u.available_routes[k] = {TreeRouteId(group, k.tree)}
      /\ \A k : k \in DOMAIN t.available_routes /\ k \notin old /\ k \notin keys
                  => u.available_routes[k] = t.available_routes[k]
  BY <1>2, <1>3, ReplaceFacts
<1>6. /\ \A id : id \in DOMAIN u.route_next_hop
               <=> (id \in DOMAIN t.route_next_hop /\ id \notin RouteIds(t, old)) \/ id \in codes
      /\ \A id : id \in DOMAIN t.route_next_hop /\ id \notin RouteIds(t, old) /\ id \notin codes
                  => u.route_next_hop[id] = t.route_next_hop[id]
  BY <1>2, <1>4, ReplaceFacts
<1>7. \A id \in ids :
          LET tree == TreeIdFromRouteId(group, id) IN
          /\ id \in Nat
          /\ tree \in 0 .. (Stride - 1)
          /\ DeterministicMulticastRouteId(group, tree) = id
          /\ id # NoRoute
  <2> TAKE id \in ids
  <2>1. PICK i \in DOMAIN routes : ValidTreeRoute(group, routes[i]) /\ routes[i].id = id
    BY DEF ids
  <2> QED
    BY <2>1, TreeOfRoute
<1>8. ASSUME NEW k \in keys
      PROVE  /\ k.kind = "Multicast" /\ k.src = src /\ k.group = group
             /\ TreeKeyOK(k)
  <2>1. PICK id \in ids : k = Multicast(src, group, TreeIdFromRouteId(group, id))
    BY DEF keys
  <2>2. k.tree = TreeIdFromRouteId(group, id) /\ k.kind = "Multicast" /\ k.src = src
        /\ k.group = group
    BY <2>1 DEF Multicast
  <2> QED
    BY <2>1, <2>2, <1>7 DEF TreeKeyOK
<1>9. ASSUME NEW e \in codes
      PROVE  e >= Flag /\ e \in Nat /\ \E k \in keys : e \in u.available_routes[k]
  <2>1. PICK id \in ids : e = EncodeMulticastRouteId(id)
    BY DEF codes
  <2> DEFINE k == Multicast(src, group, TreeIdFromRouteId(group, id))
  <2>2. k \in keys /\ k.tree = TreeIdFromRouteId(group, id)
    BY DEF keys, Multicast
  <2>3. TreeRouteId(group, k.tree) = e
    BY <2>1, <2>2, <1>7 DEF TreeRouteId
  <2>4. e \in Nat /\ e >= Flag
    BY <2>1, <1>7 DEF EncodeMulticastRouteId
  <2> QED
    BY <2>2, <2>3, <2>4, <1>5
<1>10. \A k \in old : t.available_routes[k] = {TreeRouteId(k.group, k.tree)}
                      /\ TreeRouteId(k.group, k.tree) \in Nat /\ TreeRouteId(k.group, k.tree) >= Flag
  <2> TAKE k \in old
  <2>1. k \in DOMAIN t.available_routes /\ k.kind = "Multicast"
    BY DEF old
  <2>2. TreeKeyOK(k) /\ t.available_routes[k] = {TreeRouteId(k.group, k.tree)}
    BY <2>1 DEF TableOK
  <2>3. k.group \in Nat /\ k.tree \in Nat /\ DeterministicMulticastRouteId(k.group, k.tree) # NoRoute
    BY <2>2 DEF TreeKeyOK
  <2> QED
    BY <2>2, <2>3, TreeRouteIds
<1>11. \A id \in RouteIds(t, old) : id \in Nat /\ id >= Flag
  BY <1>10 DEF RouteIds
<1>12. \A k \in DOMAIN t.available_routes : k.kind = "Unicast" => k \notin old /\ k \notin keys
  BY <1>8 DEF old
<1>13. ASSUME NEW id \in DOMAIN t.route_next_hop, id \in 0 .. (Flag - 1)
       PROVE  id \in DOMAIN u.route_next_hop /\ u.route_next_hop[id] = t.route_next_hop[id]
  BY <1>13, <1>6, <1>9, <1>11
<1>14. \A k \in DOMAIN u.available_routes :
          /\ k.kind \in {"Unicast", "Multicast"}
          /\ k.kind = "Unicast" =>
                u.available_routes[k] \subseteq DOMAIN u.route_next_hop \cap (0 .. (Flag - 1))
          /\ k.kind = "Multicast" =>
                TreeKeyOK(k) /\ u.available_routes[k] = {TreeRouteId(k.group, k.tree)}
  <2> TAKE k \in DOMAIN u.available_routes
  <2>1. CASE k \in keys
    BY <2>1, <1>5, <1>8
  <2>2. CASE k \in DOMAIN t.available_routes /\ k \notin old /\ k \notin keys
    <3>1. u.available_routes[k] = t.available_routes[k]
      BY <2>2, <1>5
    <3>2. k.kind \in {"Unicast", "Multicast"}
      BY <2>2 DEF TableOK
    <3>3. CASE k.kind = "Unicast"
      BY <2>2, <3>1, <3>3, <1>13 DEF TableOK
    <3>4. CASE k.kind = "Multicast"
      BY <2>2, <3>1, <3>4 DEF TableOK
    <3> QED
      BY <3>2, <3>3, <3>4
  <2> QED
    BY <2>1, <2>2, <1>5
<1>15. ASSUME NEW id \in DOMAIN u.route_next_hop
       PROVE  \/ id \in 0 .. (Flag - 1)
              \/ \E k \in DOMAIN u.available_routes :
                    k.kind = "Multicast" /\ id \in u.available_routes[k]
  <2>1. CASE id \in codes
    BY <2>1, <1>5, <1>8, <1>9
  <2>2. CASE id \in DOMAIN t.route_next_hop /\ id \notin RouteIds(t, old) /\ id \notin 0 .. (Flag - 1)
    <3>1. PICK k \in DOMAIN t.available_routes :
              k.kind = "Multicast" /\ id \in t.available_routes[k]
      BY <2>2 DEF TableOK
    <3>2. k \notin old
      BY <2>2, <3>1 DEF RouteIds
    <3>3. k \notin keys
      BY <3>1, <3>2, <1>8 DEF old
    <3> QED
      BY <3>1, <3>2, <3>3, <1>5
  <2> QED
    BY <2>1, <2>2, <1>6
<1>16. \A k \in DOMAIN u.multicast_tree_cache :
          /\ DeterministicMulticastRouteId(k.group, k.tree) # NoRoute
          /\ u.multicast_tree_cache[k] = TreeRouteId(k.group, k.tree)
  BY <1>2, DropFacts DEF TableOK
<1>17. TableOK(u)
  BY <1>2, <1>14, <1>15, <1>16 DEF TableOK
<1>18. UnicastKeys(u) = UnicastKeys(t)
  BY <1>5, <1>8, <1>12 DEF UnicastKeys
<1>19. ASSUME NEW k \in UnicastKeys(t)
       PROVE  [id \in u.available_routes[k] |-> u.route_next_hop[id]]
                 = [id \in t.available_routes[k] |-> t.route_next_hop[id]]
  <2>1. k \in DOMAIN t.available_routes /\ k.kind = "Unicast"
    BY DEF UnicastKeys
  <2>2. u.available_routes[k] = t.available_routes[k]
    BY <2>1, <1>5, <1>12
  <2>3. \A id \in t.available_routes[k] : u.route_next_hop[id] = t.route_next_hop[id]
    BY <2>1, <1>13 DEF TableOK
  <2> QED
    BY <2>2, <2>3
<1>20. UnicastRoutes(u) = UnicastRoutes(t)
  BY <1>18, <1>19 DEF UnicastRoutes
<1> QED
  BY <1>17, <1>20 DEF u

-----------------------------------------------------------------------------
(* Messages *)

LEMMA MessageTypes ==
    ASSUME NEW m \in ProcessorMessages
    PROVE  \/ m \in Updates
           \/ m.type \in {"ConnectUserSpaceSender", "DisconnectUserSpaceSender"}
BY DEF ProcessorMessages, ConnectUserSpaceSender, DisconnectUserSpaceSender

\* Which update a message is.
LEMMA ApplyCases ==
    ASSUME NEW t, NEW m
    PROVE  /\ m.type = "UpdateRoutingTable" => Apply(t, m) = InstallRoutes(t, m.routes)
           /\ m.type = "UpdateGroupDirectory" => Apply(t, m) = InstallGroupDirectory(t, m.groups)
           /\ m.type = "UpdateGroupRoutes"
                => Apply(t, m) = InstallGroupRoutes(t, m.group, m.src, m.routes)
           /\ m.type = "PinRouteForFlow" => Apply(t, m) = PinRouteForFlow(t, m.flow, m.id)
           /\ m.type \notin {"UpdateRoutingTable", "UpdateGroupDirectory", "UpdateGroupRoutes",
                             "PinRouteForFlow"} => Apply(t, m) = t
BY DEF Apply

\* No message makes a table inconsistent, and only a new table changes the
\* unicast routes, to those it lists.
LEMMA ApplyOK ==
    ASSUME NEW t, TableOK(t), NEW m \in ProcessorMessages
    PROVE  /\ TableOK(Apply(t, m))
           /\ m.type = "UpdateRoutingTable" => UnicastRoutes(Apply(t, m)) = ListedRoutes(m.routes)
           /\ m.type # "UpdateRoutingTable" => UnicastRoutes(Apply(t, m)) = UnicastRoutes(t)
<1>1. CASE m.type = "UpdateRoutingTable"
  <2>1. \A i \in DOMAIN m.routes : m.routes[i].id \in 0 .. (Flag - 1)
    BY <1>1, MessageTypes, UpdatesAssumption
  <2> QED
    BY <1>1, <2>1, ApplyCases, InstallRoutesOK
<1>2. CASE m.type = "UpdateGroupDirectory"
  <2>1. (\A a \in DOMAIN m.groups : m.groups[a] \in Nat) /\ TreesFromSource(m.groups)
    BY <1>2, MessageTypes, UpdatesAssumption
  <2> QED
    BY <1>2, <2>1, ApplyCases, InstallGroupDirectoryOK
<1>3. CASE m.type = "UpdateGroupRoutes"
  <2>1. /\ m.group \in Nat /\ m.src = GroupSource[m.group]
        /\ \A i \in DOMAIN m.routes : m.routes[i].id \in Nat
    BY <1>3, MessageTypes, UpdatesAssumption
  <2>2. Apply(t, m) = InstallGroupRoutes(t, m.group, GroupSource[m.group], m.routes)
    BY <1>3, <2>1, ApplyCases
  <2>3. LET u == InstallGroupRoutes(t, m.group, GroupSource[m.group], m.routes)
        IN TableOK(u) /\ UnicastRoutes(u) = UnicastRoutes(t)
    BY <2>1, InstallGroupRoutesOK
  <2> QED
    BY <1>3, <2>2, <2>3
<1>4. CASE m.type = "PinRouteForFlow"
  BY <1>4, ApplyCases, PinOK
<1>5. CASE m.type \notin {"UpdateRoutingTable", "UpdateGroupDirectory", "UpdateGroupRoutes",
                          "PinRouteForFlow"}
  BY <1>5, ApplyCases
<1> QED
  BY <1>1, <1>2, <1>3, <1>4, <1>5

\* The routes after an update follow from the routes before, whatever the
\* caches hold.
LEMMA ApplyToRoutes ==
    ASSUME NEW t, TableOK(t), NEW u, TableOK(u), NEW m, Routes(t) = Routes(u)
    PROVE  Routes(Apply(t, m)) = Routes(Apply(u, m))
<1>1. /\ DOMAIN t = Fields /\ DOMAIN u = Fields
      /\ t.available_routes = u.available_routes
      /\ t.route_next_hop = u.route_next_hop
      /\ t.group_dir = u.group_dir
  BY DEF TableOK, Routes
<1>2. UnicastKeys(t) = UnicastKeys(u)
  BY <1>1 DEF UnicastKeys
<1>3. \A keys : RouteIds(t, keys) = RouteIds(u, keys)
  BY <1>1 DEF RouteIds
<1>4. CASE m.type = "UpdateRoutingTable"
  <2>1. Routes(InstallRoutes(t, m.routes)) = Routes(InstallRoutes(u, m.routes))
    BY <1>1, <1>2, <1>3 DEF Routes, InstallRoutes, ReplaceUnicast, Fields
  <2> QED
    BY <2>1, <1>4, ApplyCases
<1>5. CASE m.type = "UpdateGroupDirectory"
  <2>1. Routes(InstallGroupDirectory(t, m.groups)) = Routes(InstallGroupDirectory(u, m.groups))
    BY <1>1 DEF Routes, InstallGroupDirectory, Fields
  <2> QED
    BY <2>1, <1>5, ApplyCases
<1>6. CASE m.type = "UpdateGroupRoutes"
  <2>1. Routes(InstallGroupRoutes(t, m.group, m.src, m.routes))
           = Routes(InstallGroupRoutes(u, m.group, m.src, m.routes))
    BY <1>1, <1>3 DEF Routes, InstallGroupRoutes, Fields
  <2> QED
    BY <2>1, <1>6, ApplyCases
<1>7. CASE m.type = "PinRouteForFlow"
  <2>1. /\ Routes(PinRouteForFlow(t, m.flow, m.id)) = Routes(t)
        /\ Routes(PinRouteForFlow(u, m.flow, m.id)) = Routes(u)
    BY <1>1, PinFields DEF Routes
  <2> QED
    BY <2>1, <1>7, ApplyCases
<1>8. CASE m.type \notin {"UpdateRoutingTable", "UpdateGroupDirectory", "UpdateGroupRoutes",
                          "PinRouteForFlow"}
  BY <1>8, ApplyCases
<1> QED
  BY <1>4, <1>5, <1>6, <1>7, <1>8

\* The selections after an update: none after an installation, one more after a
\* pin, else the same, with the same routes to choose from.
LEMMA ApplyToCache ==
    ASSUME NEW t, TableOK(t), NEW m
    PROVE  LET u == Apply(t, m) IN
           \/ m.type \in {"UpdateRoutingTable", "UpdateGroupRoutes"} /\ u.cache = << >>
           \/ /\ m.type \notin {"UpdateRoutingTable", "UpdateGroupRoutes"}
              /\ u.available_routes = t.available_routes
              /\ \/ u.cache = t.cache
                 \/ m.type = "PinRouteForFlow" /\ u.cache = Insert(t.cache, m.flow, m.id)
<1>1. DOMAIN t = Fields
  BY DEF TableOK
<1>2. CASE m.type = "UpdateRoutingTable"
  <2>1. InstallRoutes(t, m.routes).cache = << >>
    BY <1>1 DEF InstallRoutes, ReplaceUnicast, Fields
  <2> QED
    BY <1>2, <2>1, ApplyCases
<1>3. CASE m.type = "UpdateGroupDirectory"
  BY <1>1, <1>3, ApplyCases DEF InstallGroupDirectory, Fields
<1>4. CASE m.type = "UpdateGroupRoutes"
  <2>1. InstallGroupRoutes(t, m.group, m.src, m.routes).cache = << >>
    BY <1>1 DEF InstallGroupRoutes, Fields
  <2> QED
    BY <1>4, <2>1, ApplyCases
<1>5. CASE m.type = "PinRouteForFlow"
  BY <1>1, <1>5, ApplyCases, PinFields
<1>6. CASE m.type \notin {"UpdateRoutingTable", "UpdateGroupDirectory", "UpdateGroupRoutes",
                          "PinRouteForFlow"}
  BY <1>6, ApplyCases
<1> QED
  BY <1>2, <1>3, <1>4, <1>5, <1>6

-----------------------------------------------------------------------------
(* Lookups *)

\* A set of natural numbers has a least element.
LEMMA LeastExists ==
    ASSUME NEW S \in SUBSET Nat, S # {}
    PROVE  \E n \in S : \A m \in S : n <= m
<1>1. IsWellFoundedOn(OpToRel(<, Nat), Nat)
  BY NatLessThanWellFounded
<1>2. PICK n \in S : \A m \in Nat : <<m, n>> \in OpToRel(<, Nat) => m \notin S
  BY <1>1, WFMin
<1>3. \A m \in S : ~(m < n)
  BY <1>2 DEF OpToRel
<1> QED
  BY <1>3

\* The control tree is one that is installed.
LEMMA ControlTreeInstalled ==
    ASSUME NEW t, TableOK(t), NEW src, NEW group, ControlTree(t, src, group) # NoTree
    PROVE  Multicast(src, group, ControlTree(t, src, group)) \in DOMAIN t.available_routes
<1> DEFINE trees == {k \in DOMAIN t.available_routes :
                        k.kind = "Multicast" /\ k.src = src /\ k.group = group}
           installed == {k.tree : k \in trees}
           remembered == {t.multicast_control_tree_cache[k] :
                              k \in {<<src, group>>} \cap DOMAIN t.multicast_control_tree_cache}
           control == ControlTree(t, src, group)
<1>1. control = IF remembered \cap installed # {} THEN CHOOSE n \in remembered : TRUE
                ELSE IF installed = {} THEN NoTree
                ELSE CHOOSE n \in installed : \A m \in installed : n <= m
  BY DEF ControlTree
<1>2. \A a, b \in remembered : a = b
  OBVIOUS
<1>3. installed \subseteq Nat
  BY DEF TableOK, TreeKeyOK
<1>4. \A n \in installed : Multicast(src, group, n) \in DOMAIN t.available_routes
  <2> TAKE n \in installed
  <2>1. PICK k \in trees : k.tree = n
    OBVIOUS
  <2> QED
    BY <2>1 DEF TableOK, TreeKeyOK
<1> HIDE DEF installed, remembered, control
<1>5. control \in installed
  <2>1. CASE remembered \cap installed # {}
    BY <2>1, <1>1, <1>2
  <2>2. CASE remembered \cap installed = {}
    <3>1. installed # {}
      BY <2>2, <1>1 DEF control
    <3>2. \E n \in installed : \A m \in installed : n <= m
      BY <1>3, <3>1, LeastExists
    <3> QED
      BY <2>2, <3>1, <3>2, <1>1
  <2> QED
    BY <2>1, <2>2
<1> QED
  BY <1>4, <1>5 DEF control

\* What a lookup works with: a pair of nodes, or a tree of the group that is
\* installed or that a packet of the group's source names.
LEMMA LookupKeys ==
    ASSUME NEW t, TableOK(t), NEW p \in Packets
    PROVE  LET key == LookupKey(t, p.flow, p.tree) IN
           \/ key.kind = "None"
           \/ key = Unicast(p.flow.src, p.flow.dst)
           \/ /\ key = Multicast(key.src, key.group, key.tree)
              /\ key.group \in Nat /\ key.tree \in Nat
              /\ key.src = GroupSource[key.group]
<1> DEFINE key == LookupKey(t, p.flow, p.tree)
           plain == KeyForFlow(t, p.flow, p.tree)
<1>1. p.tree \in Nat \cup {NoTree}
  OBVIOUS
<1>2. CASE plain = NoKey
  BY <1>2 DEF LookupKey, NoKey
<1>3. CASE plain = Unicast(p.flow.src, p.flow.dst)
  BY <1>3 DEF LookupKey, Unicast
<1>4. CASE /\ p.flow.dst \in DOMAIN t.group_dir
           /\ plain = Multicast(p.flow.src, t.group_dir[p.flow.dst],
                                IF p.tree = NoTree THEN 0 ELSE p.tree)
  <2> DEFINE g == t.group_dir[p.flow.dst]
  <2>1. g \in Nat
    BY <1>4 DEF TableOK
  <2>2. CASE p.tree # NoTree
    <3>1. key = Multicast(p.flow.src, g, p.tree)
      BY <1>4, <2>2 DEF LookupKey, Multicast
    <3>2. p.flow.src = GroupSource[g]
      BY <1>4, <2>2 DEF TableOK, TreesFromSource
    <3> QED
      BY <3>1, <3>2, <2>1, <2>2, <1>1 DEF Multicast
  <2>3. CASE p.tree = NoTree
    <3> DEFINE control == ControlTree(t, p.flow.src, g)
    <3>1. plain.kind = "Multicast" /\ plain.src = p.flow.src /\ plain.group = g
      BY <1>4 DEF Multicast
    <3>2. key = IF control = NoTree THEN NoKey ELSE [plain EXCEPT !.tree = control]
      BY <3>1, <2>3 DEF LookupKey
    <3>3. CASE control = NoTree
      BY <3>2, <3>3 DEF NoKey
    <3>4. CASE control # NoTree
      <4>1. key = Multicast(p.flow.src, g, control)
        BY <3>2, <3>4, <1>4 DEF Multicast
      <4>2. key \in DOMAIN t.available_routes
        BY <4>1, <3>4, ControlTreeInstalled
      <4>3. key.kind = "Multicast"
        BY <4>1 DEF Multicast
      <4> QED
        BY <4>2, <4>3 DEF TableOK, TreeKeyOK
    <3> QED
      BY <3>3, <3>4
  <2> QED
    BY <2>2, <2>3
<1> QED
  BY <1>2, <1>3, <1>4 DEF KeyForFlow

\* A route with the id of a tree is listed under that tree of that source.
LEMMA TreeIsListed ==
    ASSUME NEW t, TableOK(t), NEW group \in Nat, NEW tree \in Nat,
           DeterministicMulticastRouteId(group, tree) # NoRoute,
           TreeRouteId(group, tree) \in DOMAIN t.route_next_hop
    PROVE  LET key == Multicast(GroupSource[group], group, tree) IN
           key \in DOMAIN t.available_routes /\ TreeRouteId(group, tree) \in t.available_routes[key]
<1>1. TreeRouteId(group, tree) \in Nat /\ TreeRouteId(group, tree) >= Flag
  BY TreeRouteIds
<1>2. PICK k \in DOMAIN t.available_routes :
          k.kind = "Multicast" /\ TreeRouteId(group, tree) \in t.available_routes[k]
  BY <1>1 DEF TableOK
<1>3. TreeKeyOK(k) /\ TreeRouteId(group, tree) = TreeRouteId(k.group, k.tree)
  BY <1>2 DEF TableOK
<1>4. k.group = group /\ k.tree = tree
  BY <1>3, SameIdSameTree DEF TreeKeyOK
<1>5. k = Multicast(GroupSource[group], group, tree)
  BY <1>3, <1>4 DEF TreeKeyOK
<1> QED
  BY <1>2, <1>5

\* A lookup answers with a listed route or with the selection of the flow.
LEMMA LookupAnswers ==
    ASSUME NEW t, TableOK(t), NEW p \in Packets,
           NEW id \in LookupRoutes(t, p.flow, p.tree)
    PROVE  LET key == LookupKey(t, p.flow, p.tree) IN
           /\ \/ key \in DOMAIN t.available_routes /\ id \in t.available_routes[key]
              \/ /\ key = Unicast(p.flow.src, p.flow.dst)
                 /\ p.flow \in DOMAIN t.cache /\ id = t.cache[p.flow]
           /\ key.kind = "Multicast" =>
                /\ DeterministicMulticastRouteId(key.group, key.tree) # NoRoute
                /\ id = TreeRouteId(key.group, key.tree)
<1> DEFINE key == LookupKey(t, p.flow, p.tree)
<1>0. LookupRoutes(t, p.flow, p.tree)
         = IF /\ key.kind = "Unicast"
              /\ p.flow \in DOMAIN t.cache
              /\ t.cache[p.flow] \in DOMAIN t.route_next_hop
           THEN {t.cache[p.flow]}
           ELSE SelectableRoutes(t, key)
  BY DEF LookupRoutes
<1>1. \/ key.kind = "None"
      \/ key = Unicast(p.flow.src, p.flow.dst)
      \/ /\ key = Multicast(key.src, key.group, key.tree)
         /\ key.group \in Nat /\ key.tree \in Nat
         /\ key.src = GroupSource[key.group]
  BY LookupKeys
<1> HIDE DEF key
<1>2. CASE key.kind = "None"
  BY <1>0, <1>2 DEF SelectableRoutes
<1>3. CASE key = Unicast(p.flow.src, p.flow.dst)
  <2>1. key.kind = "Unicast"
    BY <1>3 DEF Unicast
  <2>2. SelectableRoutes(t, key)
           = IF key \in DOMAIN t.available_routes THEN t.available_routes[key] ELSE {}
    BY <2>1 DEF SelectableRoutes
  <2> QED
    BY <1>0, <1>3, <2>1, <2>2 DEF key
<1>4. CASE /\ key = Multicast(key.src, key.group, key.tree)
           /\ key.group \in Nat /\ key.tree \in Nat
           /\ key.src = GroupSource[key.group]
  <2> DEFINE nr == DeterministicMulticastRouteId(key.group, key.tree)
             cached == {t.multicast_tree_cache[k] :
                            k \in {key} \cap DOMAIN t.multicast_tree_cache}
                       \cap DOMAIN t.route_next_hop
  <2>1. key.kind = "Multicast"
    BY <1>4 DEF Multicast
  <2>2. id \in IF cached # {} THEN cached
               ELSE IF nr = NoRoute THEN {}
               ELSE {EncodeMulticastRouteId(nr)} \cap DOMAIN t.route_next_hop
    BY <1>0, <2>1 DEF SelectableRoutes
  <2>3. /\ nr # NoRoute /\ id = TreeRouteId(key.group, key.tree)
        /\ id \in DOMAIN t.route_next_hop
    <3>1. CASE id \in cached
      BY <3>1 DEF TableOK
    <3>2. CASE id \notin cached
      BY <3>2, <2>2 DEF TreeRouteId
    <3> QED
      BY <3>1, <3>2
  <2>4. key \in DOMAIN t.available_routes /\ id \in t.available_routes[key]
    BY <2>3, <1>4, TreeIsListed
  <2> QED
    BY <2>3, <2>4 DEF key
<1> QED
  BY <1>1, <1>2, <1>3, <1>4

\* A lookup changes nothing but the caches, and fills them with what it found.
LEMMA RememberOK ==
    ASSUME NEW t, TableOK(t), NEW p \in Packets, NEW id,
           id = NoRoute \/ id \in LookupRoutes(t, p.flow, p.tree)
    PROVE  LET u == Remember(t, p.flow, p.tree, id) IN
           /\ TableOK(u)
           /\ u.available_routes = t.available_routes
           /\ u.route_next_hop = t.route_next_hop
           /\ u.group_dir = t.group_dir
           /\ \/ u.cache = t.cache
              \/ /\ id \in LookupRoutes(t, p.flow, p.tree)
                 /\ LookupKey(t, p.flow, p.tree) = Unicast(p.flow.src, p.flow.dst)
                 /\ u.cache = Insert(t.cache, p.flow, id)
<1> DEFINE key == LookupKey(t, p.flow, p.tree)
           u == Remember(t, p.flow, p.tree, id)
<1>1. DOMAIN t = Fields
  BY DEF TableOK
<1>2. \/ key.kind = "None"
      \/ key = Unicast(p.flow.src, p.flow.dst)
      \/ /\ key = Multicast(key.src, key.group, key.tree)
         /\ key.group \in Nat /\ key.tree \in Nat
         /\ key.src = GroupSource[key.group]
  BY LookupKeys
<1>3. u = CASE key.kind = "Unicast" /\ id # NoRoute -> [t EXCEPT !.cache = Insert(@, p.flow, id)]
            [] key.kind = "Multicast" ->
                  [t EXCEPT !.multicast_control_tree_cache =
                                IF p.tree = NoTree THEN Insert(@, <<key.src, key.group>>, key.tree) ELSE @,
                            !.multicast_tree_cache =
                                IF id # NoRoute THEN Insert(@, key, id) ELSE @]
            [] OTHER -> t
  BY DEF Remember
<1>4. id # NoRoute /\ key.kind = "Multicast" =>
         /\ DeterministicMulticastRouteId(key.group, key.tree) # NoRoute
         /\ id = TreeRouteId(key.group, key.tree)
  BY LookupAnswers
<1> HIDE DEF key, u
<1>5. CASE key.kind = "None"
  <2>1. u = t
    BY <1>3, <1>5
  <2> QED
    BY <2>1 DEF u
<1>6. CASE key = Unicast(p.flow.src, p.flow.dst)
  <2>1. key.kind = "Unicast"
    BY <1>6 DEF Unicast
  <2>2. CASE id # NoRoute
    <3>1. u = [t EXCEPT !.cache = Insert(@, p.flow, id)]
      BY <1>3, <2>1, <2>2
    <3>2. /\ DOMAIN u = Fields
          /\ u.available_routes = t.available_routes
          /\ u.route_next_hop = t.route_next_hop
          /\ u.group_dir = t.group_dir
          /\ u.multicast_tree_cache = t.multicast_tree_cache
          /\ u.cache = Insert(t.cache, p.flow, id)
      BY <3>1, <1>1 DEF Fields
    <3>3. TableOK(u)
      BY <3>2 DEF TableOK
    <3> QED
      BY <3>2, <3>3, <2>2, <1>6 DEF u, key
  <2>3. CASE id = NoRoute
    <3>1. u = t
      BY <1>3, <2>1, <2>3
    <3> QED
      BY <3>1 DEF u
  <2> QED
    BY <2>2, <2>3
<1>7. CASE key.kind = "Multicast"
  <2>1. u = [t EXCEPT !.multicast_control_tree_cache =
                          IF p.tree = NoTree THEN Insert(@, <<key.src, key.group>>, key.tree) ELSE @,
                      !.multicast_tree_cache =
                          IF id # NoRoute THEN Insert(@, key, id) ELSE @]
    BY <1>3, <1>7
  <2>2. /\ DOMAIN u = Fields
        /\ u.available_routes = t.available_routes
        /\ u.route_next_hop = t.route_next_hop
        /\ u.group_dir = t.group_dir
        /\ u.cache = t.cache
        /\ u.multicast_tree_cache = IF id # NoRoute THEN Insert(t.multicast_tree_cache, key, id)
                                    ELSE t.multicast_tree_cache
    BY <2>1, <1>1 DEF Fields
  <2>3. \A k \in DOMAIN u.multicast_tree_cache :
            /\ DeterministicMulticastRouteId(k.group, k.tree) # NoRoute
            /\ u.multicast_tree_cache[k] = TreeRouteId(k.group, k.tree)
    <3>1. CASE id = NoRoute
      BY <3>1, <2>2 DEF TableOK
    <3>2. CASE id # NoRoute
      <4>1. /\ DeterministicMulticastRouteId(key.group, key.tree) # NoRoute
            /\ id = TreeRouteId(key.group, key.tree)
        BY <1>4, <1>7, <3>2
      <4>2. u.multicast_tree_cache = Insert(t.multicast_tree_cache, key, id)
        BY <2>2, <3>2
      <4> QED
        BY <4>1, <4>2, InsertFacts DEF TableOK
    <3> QED
      BY <3>1, <3>2
  <2>4. TableOK(u)
    BY <2>2, <2>3 DEF TableOK
  <2> QED
    BY <2>2, <2>4 DEF u
<1>8. key.kind = "Multicast" \/ key.kind = "None" \/ key = Unicast(p.flow.src, p.flow.dst)
  BY <1>2 DEF Multicast
<1> QED
  BY <1>5, <1>6, <1>7, <1>8

-----------------------------------------------------------------------------
(* The log *)

\* The log only grows, and the tables of its prefixes stay.
LogGrows ==
    /\ log' \in Seq(ProcessorMessages) /\ Len(log') >= Len(log)
    /\ \A i \in 1 .. Len(log) : log'[i] = log[i]
    /\ \A n \in 0 .. Len(log) : published'[n] = published[n]

LEMMA LogStays ==
    ASSUME ProcTypeOK, UNCHANGED logVars, PublishedInOrder
    PROVE  LogGrows /\ PublishedInOrder'
<1>1. log' = log /\ published' = published
  BY DEF logVars
<1>2. Len(log) \in Nat
  BY DEF ProcTypeOK
<1>3. LogGrows
  BY <1>1, <1>2 DEF LogGrows, ProcTypeOK
<1>4. PublishedInOrder'
  <2>1. \A i : IsTable(i)' <=> IsTable(i)
    BY <1>1 DEF IsTable
  <2> QED
    BY <1>1, <2>1, Zenon DEF PublishedInOrder
<1> QED
  BY <1>3, <1>4

\* A message is broadcast.
LEMMA BroadcastGrows ==
    ASSUME ProcTypeOK, PublishedInOrder, NEW m \in ProcessorMessages, Broadcast(m)
    PROVE  LogGrows /\ PublishedInOrder'
<1> DEFINE len == Len(log)
           u == Apply(published[len], m)
<1>1. len \in Nat /\ log \in Seq(ProcessorMessages)
  BY DEF ProcTypeOK
<1>2. /\ log' \in Seq(ProcessorMessages) /\ Len(log') = len + 1
      /\ \A i \in 1 .. len : log'[i] = log[i]
      /\ log'[len + 1] = m
  BY <1>1 DEF Broadcast
<1>3. published' = Insert(published, len + 1, u)
  BY DEF Broadcast
<1> HIDE DEF u
<1>4. DOMAIN published = 0 .. len
  BY DEF PublishedInOrder
<1>5. /\ DOMAIN published' = 0 .. (len + 1)
      /\ \A n \in 0 .. len : published'[n] = published[n]
      /\ published'[len + 1] = u
  <2> HIDE DEF len
  <2>1. /\ \A n : n \in DOMAIN published' <=> n \in DOMAIN published \/ n = len + 1
        /\ published'[len + 1] = u
        /\ \A n : n \in DOMAIN published /\ n # len + 1 => published'[n] = published[n]
    BY <1>3, InsertFacts
  <2>2. \A n : n \in DOMAIN published <=> n \in 0 .. len
    BY <1>4
  <2>3. \A n : n \in 0 .. (len + 1) <=> n \in 0 .. len \/ n = len + 1
    BY <1>1
  <2>4. \A n : n \in DOMAIN published' <=> n \in 0 .. (len + 1)
    BY <2>1, <2>2, <2>3, Zenon
  <2>5. DOMAIN published' = 0 .. (len + 1)
    BY <2>4, Zenon
  <2>6. \A n \in 0 .. len : n # len + 1
    BY <1>1
  <2> QED
    BY <2>1, <2>2, <2>5, <2>6, Zenon
<1>6. LogGrows
  BY <1>1, <1>2, <1>5 DEF LogGrows
<1>7. TableOK(published[len])
  BY <1>1 DEF PublishedInOrder
<1>8. /\ TableOK(u)
      /\ m.type # "UpdateRoutingTable" => UnicastRoutes(u) = UnicastRoutes(published[len])
  BY <1>7, ApplyOK DEF u
<1> HIDE DEF len
<1>9. \A n \in 0 .. (len + 1) : TableOK(published'[n])
  BY <1>1, <1>5, <1>8 DEF PublishedInOrder, len
<1>10. \A n \in 1 .. (len + 1) : published'[n] = Apply(published'[n - 1], log'[n])
  <2> TAKE n \in 1 .. (len + 1)
  <2>1. CASE n = len + 1
    BY <2>1, <1>1, <1>2, <1>5 DEF u
  <2>2. CASE n \in 1 .. len
    <3>1. published[n] = Apply(published[n - 1], log[n])
      BY <2>2 DEF PublishedInOrder, len
    <3> QED
      BY <3>1, <2>2, <1>1, <1>2, <1>5
  <2> QED
    BY <2>1, <2>2, <1>1
<1>11. ASSUME NEW a \in 0 .. (len + 1), NEW b \in 0 .. (len + 1), a <= b,
              \A i \in (a + 1) .. b : ~(log'[i].type = "UpdateRoutingTable")
       PROVE  UnicastRoutes(published'[a]) = UnicastRoutes(published'[b])
  <2>1. CASE b \in 0 .. len
    <3>1. \A i \in (a + 1) .. b : ~IsTable(i)
      BY <2>1, <1>1, <1>2, <1>11 DEF IsTable
    <3>2. a \in 0 .. len
      BY <2>1, <1>1, <1>11
    <3>3. UnicastRoutes(published[a]) = UnicastRoutes(published[b])
      BY <2>1, <3>1, <3>2, <1>11 DEF PublishedInOrder, len
    <3> QED
      BY <2>1, <3>2, <3>3, <1>5
  <2>2. CASE b = len + 1 /\ a \in 0 .. len
    <3>1. \A i \in (a + 1) .. len : ~IsTable(i)
      BY <2>2, <1>1, <1>2, <1>11 DEF IsTable
    <3>2. UnicastRoutes(published[a]) = UnicastRoutes(published[len])
      BY <2>2, <3>1, <1>1 DEF PublishedInOrder, len
    <3>3. m.type # "UpdateRoutingTable"
      BY <2>2, <1>1, <1>2, <1>11
    <3> QED
      BY <2>2, <3>2, <3>3, <1>5, <1>8
  <2>3. CASE a = len + 1 /\ b = len + 1
    BY <2>3
  <2> QED
    BY <2>1, <2>2, <2>3, <1>1, <1>11
<1>12. PublishedInOrder'
  BY <1>2, <1>5, <1>9, <1>10, <1>11 DEF PublishedInOrder, IsTable
<1> QED
  BY <1>6, <1>12

-----------------------------------------------------------------------------
(* The lanes *)

LaneOK(l) == TableOK(routing_table[l]) /\ SelectionsListed(l) /\ FollowsPublished(l)

\* A pin that a lane has read stays read.
LEMMA PinStays ==
    ASSUME ProcTypeOK, LogGrows, NEW l \in Lanes, pos'[l] = pos[l], missed'[l] = missed[l],
           NEW flow, NEW id, PinnedTo(l, flow, id)
    PROVE  PinnedTo(l, flow, id)'
<1>1. pos[l] \in Nat /\ pos[l] <= Len(log) /\ Len(log) \in Nat
  BY DEF ProcTypeOK
<1>2. \A i \in ReadBy(l) : i \in 1 .. Len(log) /\ log'[i] = log[i]
  BY <1>1 DEF ReadBy, LogGrows
<1>3. ReadBy(l)' = ReadBy(l)
  BY DEF ReadBy
<1> HIDE DEF ReadBy
<1> QED
  BY <1>2, <1>3 DEF PinnedTo

\* A lane that reads no message: packets may have filled its caches, with
\* listed routes or with what was there.
LEMMA LaneKept ==
    ASSUME ProcTypeOK, LogGrows, NEW l \in Lanes, LaneOK(l),
           pos'[l] = pos[l], missed'[l] = missed[l],
           TableOK(routing_table'[l]),
           routing_table'[l].available_routes = routing_table[l].available_routes,
           routing_table'[l].route_next_hop = routing_table[l].route_next_hop,
           routing_table'[l].group_dir = routing_table[l].group_dir,
           \A flow \in DOMAIN routing_table'[l].cache :
               LET key == Unicast(flow.src, flow.dst) IN
               \/ /\ key \in DOMAIN routing_table[l].available_routes
                  /\ routing_table'[l].cache[flow] \in routing_table[l].available_routes[key]
               \/ /\ flow \in DOMAIN routing_table[l].cache
                  /\ routing_table'[l].cache[flow] = routing_table[l].cache[flow]
    PROVE  LaneOK(l)'
<1> DEFINE t == routing_table[l]
           u == routing_table'[l]
<1>1. pos[l] \in Nat /\ pos[l] <= Len(log) /\ Len(log) \in Nat
  BY DEF ProcTypeOK
<1>2. SelectionsListed(l)'
  <2> SUFFICES ASSUME NEW flow \in DOMAIN u.cache, NEW id, id = u.cache[flow]
               PROVE  LET key == Unicast(flow.src, flow.dst) IN
                      \/ key \in DOMAIN u.available_routes /\ id \in u.available_routes[key]
                      \/ PinnedTo(l, flow, id)'
    BY DEF SelectionsListed, PinnedTo
  <2> DEFINE key == Unicast(flow.src, flow.dst)
  <2>1. CASE key \in DOMAIN t.available_routes /\ id \in t.available_routes[key]
    BY <2>1
  <2>2. CASE flow \in DOMAIN t.cache /\ id = t.cache[flow]
    <3>1. \/ key \in DOMAIN t.available_routes /\ id \in t.available_routes[key]
          \/ PinnedTo(l, flow, id)
      BY <2>2 DEF LaneOK, SelectionsListed
    <3>2. CASE PinnedTo(l, flow, id)
      <4>1. PinnedTo(l, flow, id)'
        BY <3>2, PinStays
      <4> QED
        BY <4>1
    <3> QED
      BY <3>1, <3>2, <2>1
  <2> QED
    BY <2>1, <2>2
<1>3. /\ published'[pos'[l]] = published[pos[l]]
      /\ \A i \in 1 .. pos[l] : log'[i] = log[i]
  BY <1>1 DEF LogGrows
<1>4. Routes(u) = Routes(t) /\ UnicastRoutes(u) = UnicastRoutes(t)
  BY DEF Routes, UnicastRoutes, UnicastKeys
<1>5. FollowsPublished(l)'
  <2> DEFINE tables == {i \in 1 .. pos[l] : IsTable(i)}
             newer == {i \in 1 .. pos'[l] : log'[i].type = "UpdateRoutingTable"}
  <2>1. tables = newer
    BY <1>3 DEF IsTable
  <2>2. /\ missed[l] = {} => Routes(t) = Routes(published[pos[l]])
        /\ (\A i \in tables : (\A j \in tables : j <= i) => i \notin missed[l])
               => UnicastRoutes(t) = UnicastRoutes(published[pos[l]])
    BY DEF LaneOK, FollowsPublished
  <2> HIDE DEF tables
  <2>3. /\ missed'[l] = {} => Routes(u) = Routes(published'[pos'[l]])
        /\ (\A i \in newer : (\A j \in newer : j <= i) => i \notin missed'[l])
               => UnicastRoutes(u) = UnicastRoutes(published'[pos'[l]])
    BY <1>3, <1>4, <2>1, <2>2
  <2> QED
    BY <2>3 DEF FollowsPublished, IsTable
<1> QED
  BY <1>2, <1>5 DEF LaneOK

\* A lane handles the next message of the log.
LEMMA LaneReads ==
    ASSUME ProcTypeOK, PublishedInOrder, UNCHANGED logVars, NEW l \in Lanes, LaneOK(l),
           pos[l] < Len(log), pos'[l] = pos[l] + 1, missed'[l] = missed[l],
           routing_table'[l] = Apply(routing_table[l], log[pos[l] + 1])
    PROVE  LaneOK(l)'
<1> DEFINE n == pos[l]
           t == routing_table[l]
           m == log[n + 1]
           u == Apply(t, m)
<1>1. n \in Nat /\ Len(log) \in Nat /\ n + 1 \in 1 .. Len(log) /\ m \in ProcessorMessages
  BY DEF ProcTypeOK
<1>2. log' = log /\ published' = published /\ routing_table'[l] = u
  BY DEF logVars
<1>3. TableOK(t)
  BY DEF LaneOK
<1>4. /\ TableOK(u)
      /\ m.type = "UpdateRoutingTable" => UnicastRoutes(u) = ListedRoutes(m.routes)
      /\ m.type # "UpdateRoutingTable" => UnicastRoutes(u) = UnicastRoutes(t)
  BY <1>1, <1>3, ApplyOK
<1>5. ReadBy(l) \subseteq 1 .. n /\ ReadBy(l)' = ReadBy(l) \cup {n + 1}
  <2>1. missed[l] \subseteq 1 .. n
    BY DEF ProcTypeOK
  <2> QED
    BY <2>1, <1>1 DEF ReadBy
<1>6. SelectionsListed(l)'
  <2> SUFFICES ASSUME NEW flow \in DOMAIN u.cache, NEW id, id = u.cache[flow]
               PROVE  LET key == Unicast(flow.src, flow.dst) IN
                      \/ key \in DOMAIN u.available_routes /\ id \in u.available_routes[key]
                      \/ PinnedTo(l, flow, id)'
    BY <1>2 DEF SelectionsListed, PinnedTo
  <2> DEFINE key == Unicast(flow.src, flow.dst)
  <2>1. \/ m.type \in {"UpdateRoutingTable", "UpdateGroupRoutes"} /\ u.cache = << >>
        \/ /\ m.type \notin {"UpdateRoutingTable", "UpdateGroupRoutes"}
           /\ u.available_routes = t.available_routes
           /\ \/ u.cache = t.cache
              \/ m.type = "PinRouteForFlow" /\ u.cache = Insert(t.cache, m.flow, m.id)
    BY <1>3, ApplyToCache
  <2> HIDE DEF u
  <2>2. u.cache # << >>
    OBVIOUS
  <2>3. CASE m.type = "PinRouteForFlow" /\ m.flow = flow /\ m.id = id
    <3>1. PinnedTo(l, flow, id)'
      <4>1. n + 1 \in ReadBy(l)' /\ \A j \in ReadBy(l)' : ~(j > n + 1)
        BY <1>1, <1>5
      <4> HIDE DEF ReadBy
      <4> QED
        BY <4>1, <2>3, <1>2 DEF PinnedTo
    <3> QED
      BY <3>1
  <2>4. CASE flow \in DOMAIN t.cache /\ id = t.cache[flow]
    <3>1. \/ key \in DOMAIN t.available_routes /\ id \in t.available_routes[key]
          \/ PinnedTo(l, flow, id)
      BY <2>4 DEF LaneOK, SelectionsListed
    <3>2. CASE PinnedTo(l, flow, id)
      <4>1. PICK i \in ReadBy(l) :
                /\ log[i].type = "PinRouteForFlow" /\ log[i].flow = flow /\ log[i].id = id
                /\ \A j \in ReadBy(l) :
                      j > i => log[j].type \notin {"UpdateRoutingTable", "UpdateGroupRoutes"}
        BY <3>2 DEF PinnedTo
      <4>2. m.type \notin {"UpdateRoutingTable", "UpdateGroupRoutes"}
        BY <2>1, <2>2
      <4>3. PinnedTo(l, flow, id)'
        BY <4>1, <4>2, <1>2, <1>5 DEF PinnedTo
      <4> QED
        BY <4>3
    <3> QED
      BY <3>1, <3>2, <2>1, <2>2
  <2>5. \/ m.type = "PinRouteForFlow" /\ m.flow = flow /\ m.id = id
        \/ flow \in DOMAIN t.cache /\ id = t.cache[flow]
    BY <2>1, <2>2, InsertFacts
  <2> QED
    BY <2>3, <2>4, <2>5
<1>7. /\ published[n + 1] = Apply(published[n], m)
      /\ TableOK(published[n])
  <2>1. (n + 1) - 1 = n
    BY <1>1
  <2> QED
    BY <1>1, <2>1 DEF PublishedInOrder
<1>8. missed[l] = {} => Routes(u) = Routes(published[n + 1])
  <2>1. missed[l] = {} => Routes(t) = Routes(published[n])
    BY DEF LaneOK, FollowsPublished
  <2> QED
    BY <2>1, <1>3, <1>7, ApplyToRoutes
<1> DEFINE tables == {i \in 1 .. n : log[i].type = "UpdateRoutingTable"}
           newer == {i \in 1 .. (n + 1) : log[i].type = "UpdateRoutingTable"}
<1>9. (\A i \in newer : (\A j \in newer : j <= i) => i \notin missed[l])
          => UnicastRoutes(u) = UnicastRoutes(published[n + 1])
  <2>1. CASE m.type = "UpdateRoutingTable"
    <3>1. UnicastRoutes(published[n + 1]) = ListedRoutes(m.routes)
      BY <2>1, <1>1, <1>7, ApplyOK
    <3> QED
      BY <3>1, <2>1, <1>4
  <2>2. CASE m.type # "UpdateRoutingTable"
    <3>1. newer = tables
      BY <2>2, <1>1
    <3>2. (\A i \in tables : (\A j \in tables : j <= i) => i \notin missed[l])
              => UnicastRoutes(t) = UnicastRoutes(published[n])
      BY DEF LaneOK, FollowsPublished, IsTable
    <3>3. UnicastRoutes(published[n + 1]) = UnicastRoutes(published[n])
      BY <2>2, <1>1, <1>7, ApplyOK
    <3> HIDE DEF newer, tables
    <3> QED
      BY <3>1, <3>2, <3>3, <2>2, <1>4
  <2> QED
    BY <2>1, <2>2
<1>10. FollowsPublished(l)'
  BY <1>2, <1>8, <1>9 DEF FollowsPublished, IsTable
<1> QED
  BY <1>2, <1>4, <1>6, <1>10 DEF LaneOK

\* A bounded set of natural numbers has a greatest element.
LEMMA GreatestExists ==
    ASSUME NEW n \in Nat, NEW S \in SUBSET (0 .. n), S # {}
    PROVE  \E i \in S : \A j \in S : j <= i
<1> DEFINE T == {n - i : i \in S}
<1>1. T \in SUBSET Nat /\ T # {}
  <2>1. \A i \in S : n - i \in Nat
    OBVIOUS
  <2>2. \E i : i \in S
    OBVIOUS
  <2> QED
    BY <2>1, <2>2
<1>2. PICK k \in T : \A j \in T : k <= j
  <2> HIDE DEF T
  <2> QED
    BY <1>1, LeastExists
<1>3. PICK i \in S : k = n - i
  OBVIOUS
<1>4. \A j \in S : n - i <= n - j
  BY <1>2, <1>3
<1> QED
  BY <1>3, <1>4

\* A lane that fell behind skips messages.
LEMMA LaneLags ==
    ASSUME ProcTypeOK, PublishedInOrder, UNCHANGED logVars, NEW l \in Lanes, LaneOK(l),
           NEW n \in Nat, pos[l] < n, n <= Len(log), pos'[l] = n,
           missed'[l] = missed[l] \cup ((pos[l] + 1) .. n),
           routing_table'[l] = routing_table[l]
    PROVE  LaneOK(l)'
<1> DEFINE t == routing_table[l]
           tables == {i \in 1 .. pos[l] : log[i].type = "UpdateRoutingTable"}
           newer == {i \in 1 .. n : log[i].type = "UpdateRoutingTable"}
           skipped == {i \in (pos[l] + 1) .. n : log[i].type = "UpdateRoutingTable"}
<1>1. pos[l] \in Nat /\ Len(log) \in Nat /\ missed[l] \subseteq 1 .. pos[l]
  BY DEF ProcTypeOK
<1>2. log' = log /\ published' = published
  BY DEF logVars
<1>3. ReadBy(l)' = ReadBy(l)
  BY <1>1 DEF ReadBy
<1>4. SelectionsListed(l)'
  <2> HIDE DEF ReadBy
  <2> QED
    BY <1>2, <1>3 DEF LaneOK, SelectionsListed, PinnedTo
<1>5. missed'[l] # {}
  BY <1>1
<1>6. ASSUME \A i \in newer : (\A j \in newer : j <= i) => i \notin missed'[l]
      PROVE  UnicastRoutes(t) = UnicastRoutes(published[n])
  <2>1. skipped = {}
    <3> SUFFICES ASSUME skipped # {}
                 PROVE  FALSE
      OBVIOUS
    <3>1. PICK i \in skipped : \A j \in skipped : j <= i
      <4>1. skipped \in SUBSET (0 .. n)
        BY <1>1
      <4> HIDE DEF skipped
      <4> QED
        BY <4>1, GreatestExists
    <3>2. i \in newer /\ \A j \in newer : j <= i
      BY <3>1, <1>1
    <3> QED
      BY <3>2, <1>6
  <2>2. newer = tables
    BY <2>1, <1>1
  <2>3. UnicastRoutes(t) = UnicastRoutes(published[pos[l]])
    <3>1. (\A i \in tables : (\A j \in tables : j <= i) => i \notin missed[l])
              => UnicastRoutes(t) = UnicastRoutes(published[pos[l]])
      BY DEF LaneOK, FollowsPublished, IsTable
    <3> HIDE DEF tables, newer
    <3> QED
      BY <3>1, <2>2, <1>6
  <2>4. UnicastRoutes(published[pos[l]]) = UnicastRoutes(published[n])
    <3>1. \A i \in (pos[l] + 1) .. n : ~IsTable(i)
      BY <2>1 DEF IsTable
    <3>2. pos[l] \in 0 .. Len(log) /\ n \in 0 .. Len(log) /\ pos[l] <= n
      BY <1>1
    <3> QED
      BY <3>1, <3>2 DEF PublishedInOrder
  <2> QED
    BY <2>3, <2>4
<1>7. FollowsPublished(l)'
  BY <1>2, <1>5, <1>6 DEF FollowsPublished, IsTable
<1> QED
  BY <1>4, <1>7 DEF LaneOK

-----------------------------------------------------------------------------
(* The packets of a lane *)

LEMMA SeqFacts ==
    ASSUME NEW S, NEW s \in Seq(S)
    PROVE  /\ Len(s) \in Nat
           /\ \A i \in DOMAIN s : s[i] \in S /\ i \in Nat /\ 1 <= i /\ i <= Len(s)
OBVIOUS

LEMMA AppendFacts ==
    ASSUME NEW S, NEW s \in Seq(S), NEW e \in S
    PROVE  /\ Append(s, e) \in Seq(S)
           /\ \A i \in DOMAIN Append(s, e) :
                 \/ i \in DOMAIN s /\ Append(s, e)[i] = s[i]
                 \/ i = Len(s) + 1 /\ Append(s, e)[i] = e
OBVIOUS

\* A packet is submitted: it is younger than all others, and its lane is its own.
LEMMA SubmitInOrder ==
    ASSUME ProcTypeOK, LanesInOrder, LaneOrder, NEW p \in Packets, Submit(p)
    PROVE  ProcTypeOK' /\ LanesInOrder' /\ LaneOrder'
<1> DEFINE q == Stamped(p, submitted + 1)
           c == ChannelFor(p)
<1>1. /\ q \in StampedPackets /\ PacketOf(q) = p /\ q.nr = submitted + 1
      /\ submitted \in Nat /\ submitted' = submitted + 1
  <2>1. p \in [flow : Flows, tree : Nat \cup {NoTree}]
    OBVIOUS
  <2> QED
    BY <2>1 DEF ProcTypeOK, Submit, Stamped, StampedPackets, PacketOf
<1>2. /\ c \in Lanes \cup {Shared}
      /\ feature = "Sequential" => c = Slot[p]
  BY DEF ChannelFor, ProcTypeOK
<1>3. /\ channel' = [channel EXCEPT ![c] = Append(channel[c], q)]
      /\ sent' = sent /\ feature' = feature /\ log' = log /\ pos' = pos /\ missed' = missed
      /\ routing_table' = routing_table /\ packet_senders' = packet_senders /\ started' = started
  BY DEF Submit, laneVars, logVars, serverVars
<1> HIDE DEF q, c
<1>4. channel \in [Lanes \cup {Shared} -> Seq(StampedPackets)]
  BY DEF ProcTypeOK
<1>5. /\ channel' \in [Lanes \cup {Shared} -> Seq(StampedPackets)]
      /\ \A d \in Lanes \cup {Shared} : \A j \in DOMAIN channel'[d] :
            \/ j \in DOMAIN channel[d] /\ channel'[d][j] = channel[d][j]
            \/ d = c /\ j = Len(channel[c]) + 1 /\ channel'[d][j] = q
  <2>1. channel[c] \in Seq(StampedPackets)
    BY <1>2, <1>4
  <2>2. /\ Append(channel[c], q) \in Seq(StampedPackets)
        /\ \A j \in DOMAIN Append(channel[c], q) :
              \/ j \in DOMAIN channel[c] /\ Append(channel[c], q)[j] = channel[c][j]
              \/ j = Len(channel[c]) + 1 /\ Append(channel[c], q)[j] = q
    BY <2>1, <1>1
  <2> QED
    BY <2>2, <1>2, <1>3, <1>4
<1>6. ProcTypeOK'
  <2>1. \A d \in Lanes \cup {Shared} : \A j \in DOMAIN channel'[d] : PacketOf(channel'[d][j]) \in Packets
    BY <1>1, <1>5 DEF ProcTypeOK
  <2>2. submitted' \in Nat /\ channel' \in [Lanes \cup {Shared} -> Seq(StampedPackets)]
    BY <1>1, <1>5
  <2> QED
    BY <2>1, <2>2, <1>3 DEF ProcTypeOK
<1>7. ASSUME feature = "Sequential"
      PROVE  LanesInOrder'
  <2>1. c = Slot[p] /\ c \in Lanes
    BY <1>2, <1>7
  <2>2. ASSUME NEW l \in Lanes, NEW i \in DOMAIN channel'[l]
        PROVE  /\ Slot[PacketOf(channel'[l][i])] = l
               /\ channel'[l][i].nr <= submitted + 1
               /\ \A j \in DOMAIN channel'[l] : i < j => channel'[l][i].nr < channel'[l][j].nr
    <3>1. \A j \in DOMAIN channel[l] : channel[l][j].nr \in Nat /\ j \in Nat /\ j <= Len(channel[l])
      <4>1. channel[l] \in Seq(StampedPackets)
        BY <1>4
      <4>2. \A q1 \in StampedPackets : q1.nr \in Nat
        BY DEF StampedPackets
      <4> QED
        BY <4>1, <4>2, SeqFacts
    <3>2. \A j \in DOMAIN channel'[l] :
              \/ j \in DOMAIN channel[l] /\ channel'[l][j] = channel[l][j]
              \/ l = c /\ j = Len(channel[l]) + 1 /\ channel'[l][j] = q
      BY <1>5
    <3>3. Len(channel[l]) \in Nat
      BY <1>4
    <3>4. \A j \in DOMAIN channel[l] :
              /\ Slot[PacketOf(channel[l][j])] = l
              /\ channel[l][j].nr <= submitted
              /\ \A k \in DOMAIN channel[l] : j < k => channel[l][j].nr < channel[l][k].nr
      BY <1>7 DEF LanesInOrder
    <3>5. CASE i \in DOMAIN channel[l] /\ channel'[l][i] = channel[l][i]
      <4>1. \A j \in DOMAIN channel'[l] : i < j => channel'[l][i].nr < channel'[l][j].nr
        BY <3>1, <3>2, <3>4, <3>5, <1>1
      <4> QED
        BY <4>1, <3>1, <3>4, <3>5, <1>1
    <3>6. CASE l = c /\ i = Len(channel[l]) + 1 /\ channel'[l][i] = q
      <4>1. \A j \in DOMAIN channel'[l] : ~(i < j)
        BY <3>1, <3>2, <3>3, <3>6
      <4> QED
        BY <4>1, <3>6, <2>1, <1>1
    <3> QED
      BY <3>2, <3>5, <3>6
  <2>3. ASSUME NEW n \in Peers, NEW i \in DOMAIN sent[n]
        PROVE  /\ PacketOf(sent[n][i]) \in Packets
               /\ sent[n][i].nr <= submitted + 1
               /\ \A j \in DOMAIN channel'[Slot[PacketOf(sent[n][i])]] :
                     sent[n][i].nr < channel'[Slot[PacketOf(sent[n][i])]][j].nr
    <3> DEFINE l == Slot[PacketOf(sent[n][i])]
    <3>1. sent[n][i].nr \in Nat
      <4>1. sent[n] \in Seq(StampedPackets)
        BY DEF ProcTypeOK
      <4>2. sent[n][i] \in StampedPackets
        BY <4>1, SeqFacts
      <4> QED
        BY <4>2 DEF StampedPackets
    <3>2. /\ PacketOf(sent[n][i]) \in Packets
          /\ sent[n][i].nr <= submitted
          /\ \A j \in DOMAIN channel[l] : sent[n][i].nr < channel[l][j].nr
      BY <1>7 DEF LanesInOrder
    <3>3. l \in Lanes
      BY <3>2
    <3> HIDE DEF l
    <3>4. \A j \in DOMAIN channel'[l] : sent[n][i].nr < channel'[l][j].nr
      BY <3>1, <3>2, <3>3, <1>1, <1>5
    <3> QED
      BY <3>1, <3>2, <3>4, <1>1 DEF l
  <2> QED
    <3>1. \A l \in Lanes : \A i \in DOMAIN channel'[l] :
              /\ Slot[PacketOf(channel'[l][i])] = l
              /\ channel'[l][i].nr <= submitted'
              /\ \A j \in DOMAIN channel'[l] : i < j => channel'[l][i].nr < channel'[l][j].nr
      BY <2>2, <1>1, Zenon
    <3>2. \A n \in Peers : \A i \in DOMAIN sent'[n] :
              /\ PacketOf(sent'[n][i]) \in Packets
              /\ sent'[n][i].nr <= submitted'
              /\ \A j \in DOMAIN channel'[Slot[PacketOf(sent'[n][i])]] :
                    sent'[n][i].nr < channel'[Slot[PacketOf(sent'[n][i])]][j].nr
      BY <2>3, <1>1, <1>3, Zenon
    <3> QED
      BY <3>1, <3>2, Zenon DEF LanesInOrder, PacketOf
<1>8. LaneOrder'
  BY <1>3 DEF LaneOrder
<1> QED
  BY <1>3, <1>6, <1>7, <1>8 DEF LanesInOrder

\* A lane takes its oldest packet and hands it to some schedulers: what it has
\* sent of the same flow and tree came from the same channel, earlier.
LEMMA TakeInOrder ==
    ASSUME ProcTypeOK, LanesInOrder, LaneOrder, NEW l \in Lanes, TakePacket(l)
    PROVE  /\ channel' \in [Lanes \cup {Shared} -> Seq(StampedPackets)]
           /\ \A c \in Lanes \cup {Shared} : \A i \in DOMAIN channel'[c] :
                 PacketOf(channel'[c][i]) \in Packets
           /\ sent' \in [Peers -> Seq(StampedPackets)]
           /\ PacketOf(Head(channel[ReadsFrom(l)])) \in Packets
           /\ LanesInOrder' /\ LaneOrder'
<1> DEFINE c == ReadsFrom(l)
           q == Head(channel[c])
<1>1. /\ c \in Lanes \cup {Shared}
      /\ feature = "Sequential" => c = l
  BY DEF ReadsFrom, ProcTypeOK
<1>2. channel[c] # << >> /\ channel' = [channel EXCEPT ![c] = Tail(channel[c])]
      /\ submitted' = submitted /\ feature' = feature /\ submitted \in Nat
  BY DEF TakePacket, ProcTypeOK
<1>3. PICK to : sent' = [n \in Peers |-> IF n \in to THEN Append(sent[n], q) ELSE sent[n]]
  BY DEF TakePacket, ProcessPacket
<1> HIDE DEF c
<1>4. channel \in [Lanes \cup {Shared} -> Seq(StampedPackets)] /\ sent \in [Peers -> Seq(StampedPackets)]
  BY DEF ProcTypeOK
<1>5. /\ channel[c] \in Seq(StampedPackets)
      /\ 1 \in DOMAIN channel[c] /\ q = channel[c][1] /\ q \in StampedPackets
  <2>1. channel[c] \in Seq(StampedPackets)
    BY <1>1, <1>4
  <2> QED
    BY <2>1, <1>2
<1>6. PacketOf(q) \in Packets
  BY <1>1, <1>5 DEF ProcTypeOK
<1>7. /\ channel' \in [Lanes \cup {Shared} -> Seq(StampedPackets)]
      /\ \A d \in Lanes \cup {Shared} : \A j \in DOMAIN channel'[d] :
            IF d = c THEN j + 1 \in DOMAIN channel[d] /\ channel'[d][j] = channel[d][j + 1]
            ELSE j \in DOMAIN channel[d] /\ channel'[d][j] = channel[d][j]
  <2>1. /\ Tail(channel[c]) \in Seq(StampedPackets)
        /\ \A j \in DOMAIN Tail(channel[c]) :
              j + 1 \in DOMAIN channel[c] /\ Tail(channel[c])[j] = channel[c][j + 1]
    BY <1>2, <1>5
  <2> QED
    BY <2>1, <1>1, <1>2, <1>4
<1>8. \A d \in Lanes \cup {Shared} : \A j \in DOMAIN channel'[d] : PacketOf(channel'[d][j]) \in Packets
  BY <1>7 DEF ProcTypeOK
<1> HIDE DEF q
<1>9. /\ sent' \in [Peers -> Seq(StampedPackets)]
      /\ \A n \in Peers : \A i \in DOMAIN sent'[n] :
            \/ i \in DOMAIN sent[n] /\ sent'[n][i] = sent[n][i]
            \/ i = Len(sent[n]) + 1 /\ sent'[n][i] = q
  <2>1. ASSUME NEW n \in Peers
        PROVE  /\ sent'[n] \in Seq(StampedPackets)
               /\ \A i \in DOMAIN sent'[n] :
                     \/ i \in DOMAIN sent[n] /\ sent'[n][i] = sent[n][i]
                     \/ i = Len(sent[n]) + 1 /\ sent'[n][i] = q
    <3>1. sent[n] \in Seq(StampedPackets)
      BY <1>4
    <3>2. sent'[n] = sent[n] \/ sent'[n] = Append(sent[n], q)
      BY <1>3
    <3>3. /\ Append(sent[n], q) \in Seq(StampedPackets)
          /\ \A i \in DOMAIN Append(sent[n], q) :
                \/ i \in DOMAIN sent[n] /\ Append(sent[n], q)[i] = sent[n][i]
                \/ i = Len(sent[n]) + 1 /\ Append(sent[n], q)[i] = q
      BY <3>1, <1>5, AppendFacts, Zenon
    <3> QED
      BY <3>1, <3>2, <3>3, Zenon
  <2> QED
    BY <2>1, <1>3
<1>10. ASSUME feature = "Sequential"
       PROVE  LanesInOrder' /\ LaneOrder'
  <2>1. c = l
    BY <1>1, <1>10
  <2>2. \A d \in Lanes : \A i \in DOMAIN channel[d] :
            /\ Slot[PacketOf(channel[d][i])] = d
            /\ channel[d][i].nr <= submitted
            /\ \A j \in DOMAIN channel[d] : i < j => channel[d][i].nr < channel[d][j].nr
    BY <1>10 DEF LanesInOrder
  <2>3. \A n \in Peers : \A i \in DOMAIN sent[n] :
            /\ PacketOf(sent[n][i]) \in Packets
            /\ sent[n][i].nr <= submitted
            /\ \A j \in DOMAIN channel[Slot[PacketOf(sent[n][i])]] :
                  sent[n][i].nr < channel[Slot[PacketOf(sent[n][i])]][j].nr
    BY <1>10 DEF LanesInOrder
  <2>4. ASSUME NEW d \in Lanes, NEW i \in DOMAIN channel'[d]
        PROVE  /\ Slot[PacketOf(channel'[d][i])] = d
               /\ channel'[d][i].nr <= submitted
               /\ \A j \in DOMAIN channel'[d] : i < j => channel'[d][i].nr < channel'[d][j].nr
    <3>1. \A j \in DOMAIN channel'[d] : j \in Nat
      BY <1>7
    <3>2. \A j \in DOMAIN channel'[d] : \A k \in DOMAIN channel'[d] : j < k => j + 1 < k + 1
      BY <3>1
    <3>3. CASE d = c
      <4>1. \A j \in DOMAIN channel'[d] :
               j + 1 \in DOMAIN channel[d] /\ channel'[d][j] = channel[d][j + 1]
        BY <3>3, <1>7
      <4>2. /\ Slot[PacketOf(channel'[d][i])] = d
            /\ channel'[d][i].nr <= submitted
        BY <4>1, <2>2
      <4>3. ASSUME NEW j \in DOMAIN channel'[d], i < j
            PROVE  channel'[d][i].nr < channel'[d][j].nr
        BY <4>1, <4>3, <3>2, <2>2
      <4> QED
        BY <4>2, <4>3
    <3>4. CASE d # c
      BY <3>4, <2>2, <1>7
    <3> QED
      BY <3>3, <3>4
  <2>5. /\ Slot[PacketOf(q)] = l /\ q.nr <= submitted
        /\ \A j \in DOMAIN channel'[l] : q.nr < channel'[l][j].nr
    <3>1. \A j \in DOMAIN channel'[l] : j \in Nat /\ 1 < j + 1
      BY <1>7
    <3> QED
      BY <3>1, <2>1, <2>2, <1>5, <1>7
  <2>6. ASSUME NEW n \in Peers, NEW i \in DOMAIN sent'[n]
        PROVE  /\ PacketOf(sent'[n][i]) \in Packets
               /\ sent'[n][i].nr <= submitted
               /\ \A j \in DOMAIN channel'[Slot[PacketOf(sent'[n][i])]] :
                     sent'[n][i].nr < channel'[Slot[PacketOf(sent'[n][i])]][j].nr
    <3>1. CASE sent'[n][i] = q
      BY <3>1, <2>5, <1>6
    <3>2. CASE i \in DOMAIN sent[n] /\ sent'[n][i] = sent[n][i]
      <4> DEFINE d == Slot[PacketOf(sent[n][i])]
      <4>1. d \in Lanes /\ \A j \in DOMAIN channel[d] : sent[n][i].nr < channel[d][j].nr
        BY <3>2, <2>3
      <4> HIDE DEF d
      <4>2. \A j \in DOMAIN channel'[d] : sent[n][i].nr < channel'[d][j].nr
        BY <4>1, <1>7
      <4> QED
        BY <4>2, <3>2, <2>3 DEF d
    <3> QED
      BY <3>1, <3>2, <1>9
  <2>7. LanesInOrder'
    <3>0. submitted' = submitted
      BY <1>2
    <3>1. \A d \in Lanes : \A i \in DOMAIN channel'[d] :
              /\ Slot[PacketOf(channel'[d][i])] = d
              /\ channel'[d][i].nr <= submitted'
              /\ \A j \in DOMAIN channel'[d] : i < j => channel'[d][i].nr < channel'[d][j].nr
      BY <2>4, <3>0, Zenon
    <3>2. \A n \in Peers : \A i \in DOMAIN sent'[n] :
              /\ PacketOf(sent'[n][i]) \in Packets
              /\ sent'[n][i].nr <= submitted'
              /\ \A j \in DOMAIN channel'[Slot[PacketOf(sent'[n][i])]] :
                    sent'[n][i].nr < channel'[Slot[PacketOf(sent'[n][i])]][j].nr
      BY <2>6, <3>0, Zenon
    <3> QED
      BY <3>1, <3>2, Zenon DEF LanesInOrder, PacketOf
  <2>8. ASSUME NEW n \in Peers, NEW i \in DOMAIN sent'[n], NEW j \in DOMAIN sent'[n], i < j,
               sent'[n][i].flow = sent'[n][j].flow, sent'[n][i].tree = sent'[n][j].tree
        PROVE  sent'[n][i].nr < sent'[n][j].nr
    <3>1. Len(sent[n]) \in Nat /\ \A k \in DOMAIN sent[n] : k \in Nat /\ k <= Len(sent[n])
      BY <1>4
    <3>2. i \in DOMAIN sent[n] /\ sent'[n][i] = sent[n][i]
      BY <3>1, <2>8, <1>9
    <3>3. CASE j \in DOMAIN sent[n] /\ sent'[n][j] = sent[n][j]
      BY <3>2, <3>3, <2>8, <1>10 DEF LaneOrder
    <3>4. CASE sent'[n][j] = q
      <4>1. PacketOf(sent[n][i]) = PacketOf(q)
        BY <3>2, <3>4, <2>8 DEF PacketOf
      <4>2. Slot[PacketOf(sent[n][i])] = l
        BY <4>1, <2>5
      <4>3. sent[n][i].nr < channel[l][1].nr
        BY <4>2, <3>2, <2>1, <2>3, <1>5
      <4> QED
        BY <4>3, <3>2, <3>4, <2>1, <1>5
    <3> QED
      BY <3>3, <3>4, <1>9
  <2>9. LaneOrder'
    BY <2>8, <1>2 DEF LaneOrder
  <2> QED
    BY <2>7, <2>9
<1>11. LanesInOrder' /\ LaneOrder'
  BY <1>2, <1>10 DEF LanesInOrder, LaneOrder
<1> QED
  BY <1>6, <1>7, <1>8, <1>9, <1>11 DEF q, c

-----------------------------------------------------------------------------
(* Every step keeps ProcInv *)

LEMMA InitOK ==
    ASSUME ProcInit
    PROVE  ProcInv
<1>1. ProcTypeOK
  BY SMT DEF ProcInit, ProcTypeOK
<1>2. ServersCounted
  BY DEF ProcInit, ServersCounted
<1>3. LanesInOrder /\ LaneOrder
  BY DEF ProcInit, LanesInOrder, LaneOrder
<1>4. Len(log) = 0 /\ published = [n \in {0} |-> StartTable]
  BY DEF ProcInit
<1>5. PublishedInOrder
  <2>1. \A n \in 0 .. Len(log) : n = 0
    BY <1>4
  <2>2. DOMAIN published = 0 .. Len(log)
    BY <1>4, <2>1
  <2>3. \A n \in 1 .. Len(log) : FALSE
    BY <1>4
  <2>4. \A n \in 0 .. Len(log) : TableOK(published[n])
    BY <1>4, <2>1, StartAssumption
  <2>5. \A m, n \in 0 .. Len(log) : UnicastRoutes(published[m]) = UnicastRoutes(published[n])
    BY <2>1
  <2> QED
    BY <2>2, <2>3, <2>4, <2>5 DEF PublishedInOrder
<1>6. ASSUME NEW l \in Lanes
      PROVE  LaneOK(l)
  <2>1. routing_table[l] = StartTable /\ pos[l] = 0 /\ published[pos[l]] = StartTable
    BY <1>4 DEF ProcInit
  <2> QED
    BY <2>1, StartAssumption DEF LaneOK, SelectionsListed, FollowsPublished
<1> QED
  BY <1>1, <1>2, <1>3, <1>5, <1>6 DEF ProcInv, LaneOK

LEMMA LanesUntouched ==
    ASSUME ProcTypeOK, LogGrows, \A l \in Lanes : LaneOK(l),
           pos' = pos, missed' = missed, routing_table' = routing_table
    PROVE  \A l \in Lanes : LaneOK(l)'
<1> SUFFICES ASSUME NEW l \in Lanes
             PROVE  LaneOK(l)'
  OBVIOUS
<1>1. TableOK(routing_table'[l])
  BY DEF LaneOK
<1> QED
  BY <1>1, LaneKept

\* TakePacket as far as the routes and the servers are concerned
LEMMA TakeKeepsRoutes ==
    ASSUME ProcTypeOK, ServersCounted, PublishedInOrder, \A k \in Lanes : LaneOK(k),
           NEW l \in Lanes, TakePacket(l), NEW q, q = Head(channel[ReadsFrom(l)]),
           PacketOf(q) \in Packets
    PROVE  /\ LogGrows /\ PublishedInOrder'
           /\ DOMAIN routing_table' = Lanes
           /\ packet_senders' \subseteq Flows /\ started' \in [Flows -> Nat]
           /\ ServersCounted'
           /\ \A k \in Lanes : LaneOK(k)'
<1> DEFINE p == PacketOf(q)
           t == routing_table[l]
           found == LookupRoutes(t, p.flow, p.tree)
<1>1. p.flow = q.flow /\ p.tree = q.tree /\ p.flow \in Flows
  BY DEF PacketOf
<1>2. PICK id :
          /\ id = NoRoute \/ id \in found
          /\ routing_table' = [routing_table EXCEPT ![l] = Remember(t, p.flow, p.tree, id)]
          /\ \/ DeliverToUserSpace(l, p.flow)
             \/ UNCHANGED <<user_space_senders, packet_senders, started, logVars>>
  <2>1. ProcessPacket(l, q)
    BY DEF TakePacket
  <2>2. PICK id \in IF LookupRoutes(t, q.flow, q.tree) = {} THEN {NoRoute}
                    ELSE LookupRoutes(t, q.flow, q.tree) :
            /\ routing_table' = [routing_table EXCEPT ![l] = Remember(t, q.flow, q.tree, id)]
            /\ \/ DeliverToUserSpace(l, q.flow)
               \/ UNCHANGED <<user_space_senders, packet_senders, started, logVars>>
    BY <2>1 DEF ProcessPacket
  <2> QED
    BY <2>2, <1>1
<1> HIDE DEF p
<1>3. \/ UNCHANGED <<packet_senders, started, logVars>>
      \/ /\ p.flow \notin packet_senders
         /\ packet_senders' = packet_senders \cup {p.flow}
         /\ started' = [started EXCEPT ![p.flow] = @ + 1]
         /\ Broadcast(ConnectUserSpaceSender(p.flow))
  BY <1>2 DEF DeliverToUserSpace, AddServer
<1>4. LogGrows /\ PublishedInOrder'
  <2>1. ConnectUserSpaceSender(p.flow) \in ProcessorMessages
    BY <1>1 DEF ProcessorMessages
  <2> QED
    BY <2>1, <1>3, LogStays, BroadcastGrows
<1>5. /\ packet_senders' \subseteq Flows /\ started' \in [Flows -> Nat]
      /\ ServersCounted'
  <2>1. packet_senders \subseteq Flows /\ started \in [Flows -> Nat]
    BY DEF ProcTypeOK
  <2>2. CASE UNCHANGED <<packet_senders, started, logVars>>
    BY <2>1, <2>2 DEF ServersCounted
  <2>3. CASE /\ p.flow \notin packet_senders
             /\ packet_senders' = packet_senders \cup {p.flow}
             /\ started' = [started EXCEPT ![p.flow] = @ + 1]
    <3>1. started[p.flow] = 0
      BY <2>3, <1>1 DEF ServersCounted
    <3> QED
      BY <2>1, <2>3, <3>1, <1>1 DEF ServersCounted
  <2> QED
    BY <2>2, <2>3, <1>3
<1>6. DOMAIN routing_table = Lanes
  BY DEF ProcTypeOK
<1>7. /\ DOMAIN routing_table' = Lanes
      /\ routing_table'[l] = Remember(t, p.flow, p.tree, id)
      /\ \A k \in Lanes : k # l => routing_table'[k] = routing_table[k]
  BY <1>2, <1>6
<1>8. pos' = pos /\ missed' = missed
  BY DEF TakePacket
<1>9. ASSUME NEW k \in Lanes
      PROVE  LaneOK(k)'
  <2>1. CASE k # l
    <3>1. routing_table'[k] = routing_table[k] /\ TableOK(routing_table'[k])
      BY <2>1, <1>7 DEF LaneOK
    <3> QED
      BY <3>1, <1>4, <1>8, LaneKept
  <2>2. CASE k = l
    <3> DEFINE u == routing_table'[l]
    <3>0. TableOK(t) /\ LaneOK(l) /\ p \in Packets
      BY DEF LaneOK, p
    <3>1. /\ TableOK(u)
          /\ u.available_routes = t.available_routes
          /\ u.route_next_hop = t.route_next_hop
          /\ u.group_dir = t.group_dir
          /\ \/ u.cache = t.cache
             \/ /\ id \in found
                /\ LookupKey(t, p.flow, p.tree) = Unicast(p.flow.src, p.flow.dst)
                /\ u.cache = Insert(t.cache, p.flow, id)
      BY <3>0, <1>2, <1>7, RememberOK
    <3>2. id \in found => LET key == LookupKey(t, p.flow, p.tree) IN
                          \/ key \in DOMAIN t.available_routes /\ id \in t.available_routes[key]
                          \/ p.flow \in DOMAIN t.cache /\ id = t.cache[p.flow]
      BY <3>0, LookupAnswers
    <3> HIDE DEF t, u, found
    <3>3. ASSUME NEW flow \in DOMAIN u.cache
          PROVE  LET key == Unicast(flow.src, flow.dst) IN
                 \/ key \in DOMAIN t.available_routes /\ u.cache[flow] \in t.available_routes[key]
                 \/ flow \in DOMAIN t.cache /\ u.cache[flow] = t.cache[flow]
      <4>1. CASE u.cache = t.cache
        BY <4>1
      <4>2. CASE /\ id \in found
                 /\ LookupKey(t, p.flow, p.tree) = Unicast(p.flow.src, p.flow.dst)
                 /\ u.cache = Insert(t.cache, p.flow, id)
        <5>1. \/ flow = p.flow /\ u.cache[flow] = id
              \/ flow # p.flow /\ flow \in DOMAIN t.cache /\ u.cache[flow] = t.cache[flow]
          BY <4>2, InsertFacts
        <5> QED
          BY <5>1, <4>2, <3>2
      <4> QED
        BY <4>1, <4>2, <3>1
    <3>4. LaneOK(l)'
      BY <3>0, <3>1, <3>3, <1>4, <1>8, LaneKept DEF t, u
    <3> QED
      BY <3>4, <2>2
  <2> QED
    BY <2>1, <2>2
<1> QED
  BY <1>4, <1>5, <1>7, <1>9

\* A packet leaves a lane's channel.
LEMMA TakeOK ==
    ASSUME ProcInv, NEW l \in Lanes, TakePacket(l)
    PROVE  ProcInv'
<1> DEFINE q == Head(channel[ReadsFrom(l)])
<1>1. /\ ProcTypeOK /\ ServersCounted /\ LanesInOrder /\ LaneOrder /\ PublishedInOrder
      /\ \A k \in Lanes : LaneOK(k)
  BY DEF ProcInv, LaneOK
<1>2. /\ channel' \in [Lanes \cup {Shared} -> Seq(StampedPackets)]
      /\ \A c \in Lanes \cup {Shared} : \A i \in DOMAIN channel'[c] :
            PacketOf(channel'[c][i]) \in Packets
      /\ sent' \in [Peers -> Seq(StampedPackets)]
      /\ PacketOf(q) \in Packets
      /\ LanesInOrder' /\ LaneOrder'
  BY <1>1, TakeInOrder
<1>3. /\ LogGrows /\ PublishedInOrder'
      /\ DOMAIN routing_table' = Lanes
      /\ packet_senders' \subseteq Flows /\ started' \in [Flows -> Nat]
      /\ ServersCounted'
      /\ \A k \in Lanes : LaneOK(k)'
  BY <1>1, <1>2, TakeKeepsRoutes
<1>4. pos' = pos /\ missed' = missed /\ feature' = feature /\ submitted' = submitted
  BY DEF TakePacket
<1>5. \A k \in Lanes : pos'[k] <= Len(log')
  BY <1>1, <1>3, <1>4 DEF ProcTypeOK, LogGrows
<1>6. log' \in Seq(ProcessorMessages)
  BY <1>3 DEF LogGrows
<1>7. ProcTypeOK'
  BY <1>1, <1>2, <1>3, <1>4, <1>5, <1>6, Zenon DEF ProcTypeOK, PacketOf
<1> QED
  BY <1>2, <1>3, <1>7 DEF ProcInv, LaneOK

\* Steps that move no packet and start no server
LEMMA OrderKept ==
    ASSUME ServersCounted, LanesInOrder, LaneOrder,
           feature' = feature, submitted' = submitted, channel' = channel, sent' = sent,
           packet_senders' = packet_senders, started' = started
    PROVE  ServersCounted' /\ LanesInOrder' /\ LaneOrder'
<1>1. ServersCounted'
  BY DEF ServersCounted
<1>2. LanesInOrder'
  <2>1. CASE feature = "Sequential"
    <3>1. \A l \in Lanes : \A i \in DOMAIN channel'[l] :
              /\ Slot[PacketOf(channel'[l][i])] = l
              /\ channel'[l][i].nr <= submitted'
              /\ \A j \in DOMAIN channel'[l] : i < j => channel'[l][i].nr < channel'[l][j].nr
      BY <2>1, Zenon DEF LanesInOrder
    <3>2. \A n \in Peers : \A i \in DOMAIN sent'[n] :
              /\ PacketOf(sent'[n][i]) \in Packets
              /\ sent'[n][i].nr <= submitted'
              /\ \A j \in DOMAIN channel'[Slot[PacketOf(sent'[n][i])]] :
                    sent'[n][i].nr < channel'[Slot[PacketOf(sent'[n][i])]][j].nr
      BY <2>1, Zenon DEF LanesInOrder
    <3> QED
      BY <3>1, <3>2, Zenon DEF LanesInOrder, PacketOf
  <2> QED
    BY <2>1 DEF LanesInOrder
<1>3. LaneOrder'
  BY Zenon DEF LaneOrder
<1> QED
  BY <1>1, <1>2, <1>3

\* A message is broadcast, or nothing that ProcInv speaks of happens.
LEMMA OnlyTheLogGrows ==
    ASSUME ProcInv, UNCHANGED logVars \/ \E m \in ProcessorMessages : Broadcast(m),
           pos' = pos, missed' = missed, feature' = feature, submitted' = submitted,
           channel' = channel, sent' = sent, routing_table' = routing_table,
           packet_senders' = packet_senders, started' = started
    PROVE  ProcInv'
<1>1. ProcTypeOK /\ PublishedInOrder /\ \A k \in Lanes : LaneOK(k)
  BY DEF ProcInv, LaneOK
<1>2. LogGrows /\ PublishedInOrder'
  BY <1>1, LogStays, BroadcastGrows
<1>3. \A k \in Lanes : LaneOK(k)'
  BY <1>1, <1>2, LanesUntouched
<1>4. \A k \in Lanes : pos'[k] <= Len(log')
  BY <1>1, <1>2 DEF ProcTypeOK, LogGrows
<1>5. log' \in Seq(ProcessorMessages)
  BY <1>2 DEF LogGrows
<1>6. ProcTypeOK'
  BY <1>1, <1>4, <1>5, Zenon DEF ProcTypeOK
<1>7. ServersCounted' /\ LanesInOrder' /\ LaneOrder'
  BY OrderKept DEF ProcInv
<1> QED
  BY <1>2, <1>3, <1>6, <1>7 DEF ProcInv, LaneOK

\* Lane l reads or skips messages.
LEMMA OneLaneMoves ==
    ASSUME ProcInv, NEW l \in Lanes, LaneOK(l)', UNCHANGED logVars,
           feature' = feature, submitted' = submitted, channel' = channel, sent' = sent,
           packet_senders' = packet_senders, started' = started,
           NEW n \in Nat, pos' = [pos EXCEPT ![l] = n], n <= Len(log),
           missed' \in [Lanes -> SUBSET Nat], missed'[l] \subseteq 1 .. n,
           DOMAIN routing_table' = Lanes,
           \A k \in Lanes : k # l => missed'[k] = missed[k] /\ routing_table'[k] = routing_table[k]
    PROVE  ProcInv'
<1>1. ProcTypeOK /\ PublishedInOrder /\ \A k \in Lanes : LaneOK(k)
  BY DEF ProcInv, LaneOK
<1>2. LogGrows /\ PublishedInOrder' /\ log' = log
  BY <1>1, LogStays DEF logVars
<1>3. pos' \in [Lanes -> Nat] /\ pos'[l] = n /\ \A k \in Lanes : k # l => pos'[k] = pos[k]
  BY <1>1 DEF ProcTypeOK
<1>4. ASSUME NEW k \in Lanes
      PROVE  LaneOK(k)'
  <2>1. CASE k = l
    BY <2>1
  <2>2. CASE k # l
    <3>1. /\ pos'[k] = pos[k] /\ missed'[k] = missed[k] /\ routing_table'[k] = routing_table[k]
          /\ TableOK(routing_table'[k])
      BY <2>2, <1>1, <1>3 DEF LaneOK
    <3> QED
      BY <3>1, <1>1, <1>2, LaneKept
  <2> QED
    BY <2>1, <2>2
<1>5. \A k \in Lanes : pos'[k] <= Len(log') /\ missed'[k] \subseteq 1 .. pos'[k]
  BY <1>1, <1>2, <1>3 DEF ProcTypeOK
<1>6. ProcTypeOK'
  BY <1>1, <1>2, <1>3, <1>5, Zenon DEF ProcTypeOK
<1>7. ServersCounted' /\ LanesInOrder' /\ LaneOrder'
  BY OrderKept DEF ProcInv
<1> QED
  BY <1>2, <1>4, <1>6, <1>7 DEF ProcInv, LaneOK

LEMMA ReceiveOK ==
    ASSUME ProcInv, NEW l \in Lanes, Receive(l)
    PROVE  ProcInv'
<1>1. ProcTypeOK /\ PublishedInOrder /\ LaneOK(l)
  BY DEF ProcInv, LaneOK
<1>2. /\ UNCHANGED logVars /\ pos' = [pos EXCEPT ![l] = pos[l] + 1] /\ pos[l] < Len(log)
      /\ missed' = missed
      /\ feature' = feature /\ submitted' = submitted /\ channel' = channel /\ sent' = sent
      /\ packet_senders' = packet_senders /\ started' = started
      /\ routing_table' = [routing_table EXCEPT ![l] = Apply(routing_table[l], log[pos[l] + 1])]
  BY DEF Receive, HandleMessage, serverVars
<1>3. /\ pos[l] \in Nat /\ Len(log) \in Nat /\ pos'[l] = pos[l] + 1
      /\ DOMAIN routing_table' = Lanes
      /\ routing_table'[l] = Apply(routing_table[l], log[pos[l] + 1])
      /\ \A k \in Lanes : k # l => routing_table'[k] = routing_table[k]
      /\ missed'[l] \subseteq 1 .. (pos[l] + 1) /\ missed' \in [Lanes -> SUBSET Nat]
  BY <1>1, <1>2 DEF ProcTypeOK
<1>4. LaneOK(l)'
  BY <1>1, <1>2, <1>3, LaneReads
<1>5. pos[l] + 1 \in Nat /\ pos[l] + 1 <= Len(log)
  BY <1>2, <1>3
<1> DEFINE n == pos[l] + 1
<1> HIDE DEF n
<1>6. n \in Nat /\ n <= Len(log) /\ pos' = [pos EXCEPT ![l] = n] /\ missed'[l] \subseteq 1 .. n
  BY <1>2, <1>3, <1>5 DEF n
<1> QED
  BY <1>2, <1>3, <1>4, <1>6, OneLaneMoves, Zenon

LEMMA LagOK ==
    ASSUME ProcInv, NEW l \in Lanes, Lag(l)
    PROVE  ProcInv'
<1> DEFINE n == Len(log) - ChannelCapacity
<1>1. ProcTypeOK /\ PublishedInOrder /\ LaneOK(l)
  BY DEF ProcInv, LaneOK
<1>2. /\ UNCHANGED logVars /\ pos' = [pos EXCEPT ![l] = n]
      /\ missed' = [missed EXCEPT ![l] = missed[l] \cup (pos[l] + 1 .. n)]
      /\ feature' = feature /\ submitted' = submitted /\ channel' = channel /\ sent' = sent
      /\ packet_senders' = packet_senders /\ started' = started
      /\ routing_table' = routing_table
  BY DEF Lag, serverVars
<1>3. pos[l] \in Nat /\ n \in Nat /\ pos[l] < n /\ n <= Len(log)
  BY <1>1 DEF Lag, Kept, ProcTypeOK
<1> HIDE DEF n
<1>4. /\ pos'[l] = n
      /\ missed'[l] = missed[l] \cup ((pos[l] + 1) .. n)
      /\ missed' \in [Lanes -> SUBSET Nat] /\ missed'[l] \subseteq 1 .. n
      /\ \A k \in Lanes : k # l => missed'[k] = missed[k]
      /\ DOMAIN routing_table' = Lanes
  <2>1. /\ missed \in [Lanes -> SUBSET Nat] /\ pos \in [Lanes -> Nat]
        /\ missed[l] \subseteq 1 .. pos[l] /\ DOMAIN routing_table = Lanes
    BY <1>1 DEF ProcTypeOK
  <2>2. missed[l] \cup ((pos[l] + 1) .. n) \in SUBSET Nat
    BY <2>1, <1>3
  <2>3. missed[l] \cup ((pos[l] + 1) .. n) \subseteq 1 .. n
    BY <2>1, <1>3
  <2> QED
    BY <2>1, <2>2, <2>3, <1>2
<1>5. LaneOK(l)'
  BY <1>1, <1>2, <1>3, <1>4, LaneLags
<1> QED
  BY <1>2, <1>3, <1>4, <1>5, OneLaneMoves

LEMMA NextOK ==
    ASSUME ProcInv, [ProcNext]_procVars
    PROVE  ProcInv'
<1>1. ASSUME NEW p \in Packets, Submit(p)
      PROVE  ProcInv'
  <2>1. /\ ProcTypeOK /\ LanesInOrder /\ LaneOrder /\ PublishedInOrder
        /\ \A k \in Lanes : LaneOK(k)
    BY DEF ProcInv, LaneOK
  <2>2. ProcTypeOK' /\ LanesInOrder' /\ LaneOrder'
    BY <2>1, <1>1, SubmitInOrder
  <2>3. /\ UNCHANGED logVars /\ pos' = pos /\ missed' = missed /\ routing_table' = routing_table
        /\ packet_senders' = packet_senders /\ started' = started
    BY <1>1 DEF Submit, laneVars, serverVars
  <2>4. LogGrows /\ PublishedInOrder'
    BY <2>1, <2>3, LogStays
  <2>5. \A k \in Lanes : LaneOK(k)'
    BY <2>1, <2>3, <2>4, LanesUntouched
  <2>6. ServersCounted'
    BY <2>3 DEF ProcInv, ServersCounted
  <2> QED
    BY <2>2, <2>4, <2>5, <2>6 DEF ProcInv, LaneOK
<1>2. ASSUME NEW m \in Updates, Publish(m)
      PROVE  ProcInv'
  <2>1. m \in ProcessorMessages
    BY DEF ProcessorMessages
  <2> QED
    BY <2>1, <1>2, OnlyTheLogGrows DEF Publish, laneVars, serverVars
<1>3. ASSUME NEW f \in Flows, ServerEnds(f)
      PROVE  ProcInv'
  <2>1. DisconnectUserSpaceSender(f) \in ProcessorMessages
    BY DEF ProcessorMessages
  <2> QED
    BY <2>1, <1>3, OnlyTheLogGrows DEF ServerEnds, laneVars
<1>4. ASSUME NEW l \in Lanes, BatchEnds(l)
      PROVE  ProcInv'
  BY <1>4, OnlyTheLogGrows DEF BatchEnds, serverVars
<1>5. ASSUME UNCHANGED procVars
      PROVE  ProcInv'
  BY <1>5, OnlyTheLogGrows DEF procVars, laneVars, serverVars
<1> QED
  BY <1>1, <1>2, <1>3, <1>4, <1>5, TakeOK, ReceiveOK, LagOK DEF ProcNext, LaneNext

-----------------------------------------------------------------------------
(* Theorems *)

\* The table a node starts with is in order, so that there are models of the
\* assumptions (RoutingTable::new).
THEOREM NewTableOK == TableOK(NewTable) /\ NewTable.cache = << >>
BY DEF TableOK, NewTable, Fields, TreesFromSource

\* In every reachable state the tables of the lanes and the published ones are
\* in order, every remembered selection is listed or pinned, every lane follows
\* the tables published as far as it has read, and channels hold packets in the
\* order of submission (processor.rs, route.rs).
THEOREM ProcInductive == ProcSpec => []ProcInv
<1>1. ProcInit => ProcInv
  BY InitOK
<1>2. ProcInv /\ [ProcNext]_procVars => ProcInv'
  BY NextOK
<1> QED
  BY <1>1, <1>2, PTL DEF ProcSpec

\* With one channel for each lane the packets of a flow and tree reach a peer in
\* the order of submission, for any number of lanes and any assignment of flows
\* to them (ProcessorHandle::process_packet, Processor::run).
THEOREM PacketsStayInOrder == ProcSpec => []LaneOrder
<1>1. ProcInv => LaneOrder
  BY DEF ProcInv
<1> QED
  BY <1>1, ProcInductive, PTL

\* No lookup answers with a route that its lane no longer lists, unless the flow
\* was pinned to it since the last installation: install_routes and
\* install_group_routes drop every cached answer they might make stale
\* (route.rs, get_next_hops_by_flow_and_tree).
THEOREM LookupsAlwaysFollowTable == ProcSpec => []LookupsFollowTable
<1>1. ASSUME ProcInv
      PROVE  LookupsFollowTable
  <2> SUFFICES ASSUME NEW l \in Lanes, NEW p \in Packets,
                      NEW id \in LookupRoutes(routing_table[l], p.flow, p.tree)
               PROVE  LET t == routing_table[l]
                          key == LookupKey(t, p.flow, p.tree)
                      IN \/ key \in DOMAIN t.available_routes /\ id \in t.available_routes[key]
                         \/ PinnedTo(l, p.flow, id)
    BY DEF LookupsFollowTable
  <2> DEFINE t == routing_table[l]
             key == LookupKey(t, p.flow, p.tree)
  <2>1. TableOK(t) /\ SelectionsListed(l)
    BY <1>1 DEF ProcInv
  <2>2. \/ key \in DOMAIN t.available_routes /\ id \in t.available_routes[key]
        \/ /\ key = Unicast(p.flow.src, p.flow.dst)
           /\ p.flow \in DOMAIN t.cache /\ id = t.cache[p.flow]
    BY <2>1, LookupAnswers
  <2>3. CASE /\ key = Unicast(p.flow.src, p.flow.dst)
             /\ p.flow \in DOMAIN t.cache /\ id = t.cache[p.flow]
    BY <2>1, <2>3 DEF SelectionsListed
  <2> QED
    BY <2>2, <2>3
<1>2. ProcInv => LookupsFollowTable
  BY <1>1
<1> QED
  BY <1>2, ProcInductive, PTL

\* Lanes that have read all updates route alike, even when they skipped some but
\* not the last table, and no flow has two servers, however many lanes ask for
\* one at once (Processor::run, UserSpaceServerHandle::add_server).
THEOREM LanesAlwaysAgree == ProcSpec => []LanesAgree
<1>1. ASSUME ProcInv
      PROVE  LanesAgree
  <2>1. OneServerPerFlow
    BY <1>1 DEF ProcInv, ServersCounted, OneServerPerFlow
  <2>2. ASSUME NEW l \in Lanes, pos[l] = Len(log)
        PROVE  LET newest == published[Len(log)]
                   tables == {i \in DOMAIN log : log[i].type = "UpdateRoutingTable"}
               IN /\ missed[l] = {} => Routes(routing_table[l]) = Routes(newest)
                  /\ (\A i \in tables : (\A j \in tables : j <= i) => i \notin missed[l])
                         => UnicastRoutes(routing_table[l]) = UnicastRoutes(newest)
    <3>1. FollowsPublished(l)
      BY <1>1 DEF ProcInv
    <3>2. DOMAIN log = 1 .. pos[l]
      BY <1>1, <2>2 DEF ProcInv, ProcTypeOK
    <3> QED
      BY <3>1, <3>2, <2>2, Zenon DEF FollowsPublished, IsTable
  <2>3. LanesConverge
    BY <2>2, Zenon DEF LanesConverge
  <2> QED
    BY <2>1, <2>3 DEF LanesAgree
<1>2. ProcInv => LanesAgree
  BY <1>1
<1> QED
  BY <1>2, ProcInductive, PTL

-----------------------------------------------------------------------------
(* The writer of the local TUN interface *)

\* A packet by itself.
LEMMA SingleMessage ==
    ASSUME NEW S, NEW m \in S
    PROVE  <<m>> \in Seq(S) /\ Len(<<m>>) = 1 /\ <<m>>[1] = m
OBVIOUS

\* Multiplication by a positive number preserves the order.
LEMMA TimesMonotone ==
    ASSUME NEW a \in Int, NEW b \in Int, NEW n \in Nat, n > 0, a < b
    PROVE  (a + 1) * n <= b * n
<1>1. \A k \in Nat : k * n >= 0
  BY SMT
<1>2. b - (a + 1) \in Nat
  OBVIOUS
<1>3. (b - (a + 1)) * n >= 0
  BY <1>1, <1>2
<1> QED
  BY <1>3, SMT

\* A number and its place in the flow
LEMMA ModuloIs ==
    ASSUME NEW n \in Nat, n > 0, NEW q \in Int, NEW r \in 0 .. (n - 1)
    PROVE  (q * n + r) % n = r
<1>1. PICK z, k, m : z = q * n + r /\ k = z \div n /\ m = z % n
  OBVIOUS
<1>2. \A x, y \in Int : x * y \in Int
  BY SMT
<1>3. z \in Int
  BY <1>1, <1>2
<1>4. k \in Int /\ m \in 0 .. (n - 1) /\ z = k * n + m
  BY <1>1, <1>3, SMT
<1>5. q * n \in Int /\ k * n \in Int
  BY <1>2, <1>4
<1>6. CASE k < q
  <2>1. (k + 1) * n <= q * n
    BY <1>4, <1>6, TimesMonotone
  <2>2. (k + 1) * n = k * n + n
    BY <1>4, SMT
  <2> QED
    BY <1>1, <1>4, <1>5, <2>1, <2>2
<1>7. CASE q < k
  <2>1. (q + 1) * n <= k * n
    BY <1>4, <1>7, TimesMonotone
  <2>2. (q + 1) * n = q * n + n
    BY SMT
  <2> QED
    BY <1>1, <1>4, <1>5, <2>1, <2>2
<1>8. CASE k = q
  BY <1>1, <1>4, <1>5, <1>8
<1> QED
  BY <1>4, <1>6, <1>7, <1>8

LEMMA PlaceParts ==
    ASSUME Space \in Nat \ {0}, NEW a \in Int
    PROVE  \E q \in Int : a % Space \in 0 .. (Space - 1) /\ a = q * Space + (a % Space)
<1>1. PICK q : q = a \div Space
  OBVIOUS
<1>2. q \in Int /\ a % Space \in 0 .. (Space - 1) /\ a = q * Space + (a % Space)
  BY <1>1, SMT
<1> QED
  BY <1>2

\* wrapping_sub: the difference of two numbers is that of their places.
LEMMA DifferenceOfPlaces ==
    ASSUME Space \in Nat \ {0}, NEW a \in Int, NEW b \in Int
    PROVE  ((a % Space) - (b % Space)) % Space = (a - b) % Space
<1>1. PICK p \in Int : a % Space \in 0 .. (Space - 1) /\ a = p * Space + (a % Space)
  BY PlaceParts
<1>2. PICK q \in Int : b % Space \in 0 .. (Space - 1) /\ b = q * Space + (b % Space)
  BY PlaceParts
<1>3. PICK x, y, z, r : x = a % Space /\ y = b % Space /\ z = x - y /\ r = z % Space
  OBVIOUS
<1>4. x \in Int /\ y \in Int /\ z \in Int
  BY <1>1, <1>2, <1>3
<1>5. PICK k \in Int : r \in 0 .. (Space - 1) /\ z = k * Space + r
  BY <1>3, <1>4, PlaceParts
<1>6. PICK j : j = (p - q) + k
  OBVIOUS
<1>7. j \in Int /\ j * Space = p * Space - q * Space + k * Space
  BY <1>6, SMT
<1>8. \A i \in Int : i * Space \in Int
  BY SMT
<1>9. a - b = j * Space + r
  <2>1. PICK P \in Int, Q \in Int, K \in Int, J \in Int :
            P = p * Space /\ Q = q * Space /\ K = k * Space /\ J = j * Space
    BY <1>7, <1>8
  <2>2. a = P + x /\ b = Q + y /\ z = K + r /\ J = P - Q + K /\ r \in Int
    BY <1>1, <1>2, <1>3, <1>5, <1>7, <2>1
  <2>3. a - b = J + r
    BY <1>3, <1>4, <2>2
  <2> QED
    BY <2>1, <2>3
<1>10. (j * Space + r) % Space = r
  BY <1>5, <1>7, ModuloIs
<1> QED
  BY <1>3, <1>9, <1>10

\* The sum of a number and a length is the number of the place behind.
LEMMA SumOfPlaces ==
    ASSUME Space \in Nat \ {0}, NEW a \in Int, NEW n \in Int
    PROVE  ((a % Space) + n) % Space = (a + n) % Space
<1>1. PICK p \in Int : a % Space \in 0 .. (Space - 1) /\ a = p * Space + (a % Space)
  BY PlaceParts
<1>2. PICK x, z, r : x = a % Space /\ z = x + n /\ r = z % Space
  OBVIOUS
<1>3. x \in Int /\ z \in Int
  BY <1>1, <1>2
<1>4. PICK k \in Int : r \in 0 .. (Space - 1) /\ z = k * Space + r
  BY <1>2, <1>3, PlaceParts
<1>5. PICK j : j = p + k
  OBVIOUS
<1>6. j \in Int /\ j * Space = p * Space + k * Space
  BY <1>5, SMT
<1>7. \A i \in Int : i * Space \in Int
  BY SMT
<1>8. a + n = j * Space + r
  <2>1. PICK P \in Int, K \in Int, J \in Int : P = p * Space /\ K = k * Space /\ J = j * Space
    BY <1>6, <1>7
  <2>2. a = P + x /\ z = x + n /\ z = K + r /\ J = P + K /\ r \in Int
    BY <1>1, <1>2, <1>4, <1>6, <2>1
  <2>3. a + n = J + r
    BY <1>3, <2>2
  <2> QED
    BY <2>1, <2>3
<1>9. (j * Space + r) % Space = r
  BY <1>4, <1>6, ModuloIs
<1> QED
  BY <1>2, <1>8, <1>9

At(e, k) == k \in Nat /\ e = (Start + k) % Space

\* SeqLess tells the order of two places of the flow.
LEMMA SeqLessIs ==
    ASSUME Space \in Nat \ {0}, Start \in Nat, NEW a \in 1 .. Half, NEW b \in 1 .. Half,
           NEW d, NEW e, At(d, a), At(e, b)
    PROVE  TW!SeqLess(d, e) <=> a < b
<1>1. Half \in Nat /\ 2 * Half <= Space
  BY SMT DEF Half
<1>2. (d - e) % Space = (a - b) % Space
  <2>1. PICK i, j : i = Start + a /\ j = Start + b
    OBVIOUS
  <2>2. i \in Int /\ j \in Int /\ i - j = a - b
    BY <1>1, <2>1
  <2>3. ((i % Space) - (j % Space)) % Space = (i - j) % Space
    BY <2>2, DifferenceOfPlaces
  <2> QED
    BY <2>1, <2>2, <2>3 DEF At
<1>3. CASE a >= b
  <2>1. PICK r : r = a - b
    OBVIOUS
  <2>2. r \in 0 .. (Space - 1) /\ r < Half
    BY <1>1, <1>3, <2>1
  <2>3. (0 * Space + r) % Space = r
    BY <2>2, ModuloIs
  <2>4. 0 * Space + r = r
    BY <2>2
  <2>5. (d - e) % Space = r
    BY <1>2, <2>1, <2>3, <2>4
  <2> QED
    BY <1>1, <1>3, <2>2, <2>5 DEF TW!SeqLess, Half
<1>4. CASE a < b
  <2>1. PICK r : r = Space + (a - b)
    OBVIOUS
  <2>2. r \in 0 .. (Space - 1) /\ r >= Half
    BY <1>1, <1>4, <2>1
  <2>3. ((-1) * Space + r) % Space = r
    BY <2>2, ModuloIs
  <2>4. (-1) * Space + r = a - b
    BY <1>1, <2>1
  <2>5. (d - e) % Space = r
    BY <1>2, <2>3, <2>4
  <2> QED
    BY <1>1, <1>4, <2>2, <2>5 DEF TW!SeqLess, Half
<1> QED
  BY <1>1, <1>3, <1>4

\* g adds up the payloads in front of each of the first n packets.
Adding(g, n) ==
    /\ g \in [1 .. n -> Nat] /\ g[1] = 1
    /\ \A p \in 2 .. n : g[p] = g[p - 1] + Sizes[p - 1]

LEMMA AddingExists ==
    ASSUME Sizes \in Seq(Nat \ {0})
    PROVE  \E g : Adding(g, TW!FIN)
<1> DEFINE Bad == {n \in 1 .. TW!FIN : ~\E g : Adding(g, n)}
<1>1. TW!FIN = Len(Sizes) + 1 /\ Len(Sizes) \in Nat
  BY LenProperties DEF TW!FIN
<1>2. SUFFICES Bad = {}
  <2>1. TW!FIN \in 1 .. TW!FIN
    BY <1>1
  <2> QED
    BY <2>1
<1>3. SUFFICES ASSUME Bad # {} PROVE FALSE
  OBVIOUS
<1>4. Bad \subseteq Nat
  BY <1>1
<1> HIDE DEF Bad
<1>5. PICK n \in Bad : \A m \in Bad : n <= m
  BY <1>3, <1>4, LeastExists
<1>6. n \in 1 .. TW!FIN /\ ~\E g : Adding(g, n)
  BY <1>5 DEF Bad
<1>7. n # 1
  <2>1. Adding([p \in 1 .. 1 |-> 1], 1)
    BY DEF Adding
  <2> QED
    BY <1>6, <2>1
<1>8. PICK m : m = n - 1
  OBVIOUS
<1>9. m \in 1 .. Len(Sizes) /\ n = m + 1 /\ m \in 1 .. TW!FIN
  BY <1>1, <1>6, <1>7, <1>8
<1>10. m \notin Bad
  BY <1>5, <1>9
<1>11. PICK g : Adding(g, m)
  BY <1>9, <1>10 DEF Bad
<1>12. PICK h : h = [p \in 1 .. n |-> IF p = n THEN g[m] + Sizes[m] ELSE g[p]]
  OBVIOUS
<1>13. Sizes[m] \in Nat
  BY <1>9, ElementOfSeq
<1>14. /\ g \in [1 .. m -> Nat] /\ g[1] = 1
       /\ \A p \in 2 .. m : g[p] = g[p - 1] + Sizes[p - 1]
  BY <1>11 DEF Adding
<1>15. g[m] \in Nat /\ g[m] + Sizes[m] \in Nat
  BY <1>9, <1>13, <1>14
<1>16. h[n] = g[m] + Sizes[m] /\ \A p \in 1 .. m : h[p] = g[p]
  BY <1>9, <1>12
<1>17. h \in [1 .. n -> Nat]
  BY <1>9, <1>12, <1>14, <1>15
<1>18. ASSUME NEW p \in 2 .. n PROVE h[p] = h[p - 1] + Sizes[p - 1]
  <2>1. CASE p = n
    BY <1>9, <1>16, <2>1
  <2>2. CASE p # n
    <3>1. p \in 2 .. m /\ p \in 1 .. m /\ p - 1 \in 1 .. m
      BY <1>9, <2>2
    <3> QED
      BY <1>14, <1>16, <3>1
  <2> QED
    BY <2>1, <2>2
<1>19. Adding(h, n)
  BY <1>9, <1>14, <1>16, <1>17, <1>18 DEF Adding
<1> QED
  BY <1>6, <1>19

\* Where a packet lies in the flow
LEMMA OffsetIs ==
    ASSUME Sizes \in Seq(Nat \ {0})
    PROVE  Adding(TW!Offset, TW!FIN)
<1> DEFINE Follows(f) == f = [p \in 1 .. TW!FIN |->
                                IF p = 1 THEN 1 ELSE f[p - 1] + Sizes[p - 1]]
           F == CHOOSE f : Follows(f)
<1>1. TW!Offset = F
  BY Zenon DEF TW!Offset
<1>2. PICK g : Adding(g, TW!FIN)
  BY AddingExists
<1>3. TW!FIN \in Nat /\ TW!FIN >= 1
  BY LenProperties DEF TW!FIN
<1>4. Follows(g)
  <2>1. ASSUME NEW p \in 1 .. TW!FIN
        PROVE  g[p] = IF p = 1 THEN 1 ELSE g[p - 1] + Sizes[p - 1]
    <3>1. p # 1 => p \in 2 .. TW!FIN
      BY <1>3
    <3> QED
      BY <1>2, <3>1 DEF Adding
  <2>2. g = [p \in 1 .. TW!FIN |-> g[p]]
    BY <1>2 DEF Adding
  <2> QED
    BY <2>1, <2>2, Zenon
<1>5. Follows(F)
  BY <1>4, Zenon
<1> HIDE DEF F
<1>6. \A p \in 1 .. TW!FIN : F[p] = IF p = 1 THEN 1 ELSE F[p - 1] + Sizes[p - 1]
  BY <1>5, Zenon
<1>7. F = [p \in 1 .. TW!FIN |-> F[p]]
  BY <1>5, Zenon
<1> HIDE DEF Follows
<1> DEFINE Bad == {p \in 1 .. TW!FIN : F[p] # g[p]}
<1>8. Bad = {}
  <2>1. SUFFICES ASSUME Bad # {} PROVE FALSE
    OBVIOUS
  <2>2. Bad \subseteq Nat
    BY <1>3
  <2> HIDE DEF Bad
  <2>3. PICK n \in Bad : \A m \in Bad : n <= m
    BY <2>1, <2>2, LeastExists
  <2>4. n \in 1 .. TW!FIN /\ F[n] # g[n]
    BY <2>3 DEF Bad
  <2>5. CASE n = 1
    BY <1>2, <1>6, <2>4, <2>5 DEF Adding
  <2>6. CASE n # 1
    <3>1. PICK m : m = n - 1
      OBVIOUS
    <3>2. m \in 1 .. TW!FIN /\ ~(n <= m) /\ n \in 2 .. TW!FIN
      BY <1>3, <2>4, <2>6, <3>1
    <3>3. F[m] = g[m]
      <4>1. m \notin Bad
        BY <2>3, <3>2
      <4> QED
        BY <3>2, <4>1 DEF Bad
    <3>4. F[n] = F[m] + Sizes[m]
      BY <1>6, <2>4, <2>6, <3>1
    <3>5. g[n] = g[m] + Sizes[m]
      BY <1>2, <3>1, <3>2 DEF Adding
    <3> QED
      BY <2>4, <3>3, <3>4, <3>5
  <2> QED
    BY <2>5, <2>6
<1>9. \A p \in 1 .. TW!FIN : F[p] = g[p]
  BY <1>8
<1>10. g = [p \in 1 .. TW!FIN |-> g[p]]
  BY <1>2 DEF Adding
<1>11. F = g
  BY <1>7, <1>9, <1>10, Zenon
<1> QED
  BY <1>1, <1>2, <1>11

\* The places of the packets: FlowFits keeps them all within Half.

LEMMA PlacesGrow ==
    ASSUME Sizes \in Seq(Nat \ {0}), NEW p \in 1 .. TW!FIN, NEW q \in 1 .. TW!FIN, p < q
    PROVE  TW!Offset[p] + Sizes[p] <= TW!Offset[q]
<1>1. PICK f, n : f = TW!Offset /\ n = TW!FIN
  OBVIOUS
<1>2. n \in Nat /\ Len(Sizes) \in Nat /\ n = Len(Sizes) + 1
  BY <1>1, LenProperties DEF TW!FIN
<1>3. f \in [1 .. n -> Nat] /\ \A i \in 2 .. n : f[i] = f[i - 1] + Sizes[i - 1]
  BY <1>1, OffsetIs DEF Adding
<1>4. \A i \in 1 .. Len(Sizes) : Sizes[i] \in Nat
  BY ElementOfSeq
<1> DEFINE Bad == {i \in (p + 1) .. n : ~(f[p] + Sizes[p] <= f[i])}
<1>5. Bad = {}
  <2>1. SUFFICES ASSUME Bad # {} PROVE FALSE
    OBVIOUS
  <2>2. Bad \subseteq Nat
    BY <1>1, <1>2
  <2> HIDE DEF Bad
  <2>3. PICK k \in Bad : \A m \in Bad : k <= m
    BY <2>1, <2>2, LeastExists
  <2>4. k \in (p + 1) .. n /\ ~(f[p] + Sizes[p] <= f[k])
    BY <2>3 DEF Bad
  <2>5. PICK m : m = k - 1
    OBVIOUS
  <2>6. p \in 1 .. n
    BY <1>1
  <2>7. m \in p .. Len(Sizes) /\ m \in 1 .. n /\ k \in 2 .. n /\ ~(k <= m) /\ m \in 1 .. Len(Sizes)
    BY <1>2, <2>4, <2>5, <2>6
  <2>8. f[k] = f[m] + Sizes[m]
    BY <1>3, <2>5, <2>7
  <2>9. CASE m = p
    <3>1. f[p] \in Nat /\ Sizes[p] \in Nat
      BY <1>3, <1>4, <2>6, <2>7, <2>9
    <3> QED
      BY <2>4, <2>8, <2>9, <3>1
  <2>10. CASE m # p
    <3>1. m \in (p + 1) .. n /\ m \notin Bad
      BY <1>2, <2>3, <2>6, <2>7, <2>10
    <3>2. f[p] + Sizes[p] <= f[m]
      BY <3>1 DEF Bad
    <3>3. p \in 1 .. Len(Sizes)
      BY <1>2, <2>4, <2>6
    <3>4. k \in 1 .. n
      BY <1>2, <2>7
    <3>5. f[p] \in Nat /\ f[m] \in Nat /\ f[k] \in Nat
      BY <1>3, <2>6, <2>7, <3>4
    <3>6. Sizes[p] \in Nat /\ Sizes[m] \in Nat
      BY <1>4, <2>7, <3>3
    <3> QED
      BY <2>4, <2>8, <3>2, <3>5, <3>6, SMTT(30)
  <2> QED
    BY <2>9, <2>10
<1>6. q \in (p + 1) .. n
  BY <1>1, <1>2
<1> QED
  BY <1>1, <1>5, <1>6

Inside == TW!Offset[TW!FIN] + 1
Located(e, n) == \E k \in 1 .. n : At(e, k)

\* What FlowFits says of the packets and their places
LEMMA PlacesFit ==
    ASSUME FlowFits
    PROVE  /\ TW!FIN = Len(Sizes) + 1 /\ Len(Sizes) \in Nat
           /\ Half \in Nat /\ Inside \in 1 .. Half
           /\ \A p \in TW!Data : /\ TW!Offset[p] \in 1 .. Half /\ TW!Offset[p] < Inside
                                 /\ TW!SeqNum(p) = (Start + TW!Offset[p]) % Space
                                 /\ Sizes[p] \in Nat /\ Inside + Sizes[p] <= Half
           /\ \A p, q \in TW!Data : p < q => TW!Offset[p] < TW!Offset[q]
           /\ TW!SeqNum(TW!SYN) = (Start + 0) % Space
           /\ TW!SeqNum(TW!FIN) = (Start + TW!Offset[TW!FIN]) % Space
<1>1. Space \in Nat \ {0} /\ Start \in Nat /\ Sizes \in Seq(Nat \ {0}) /\ Inside <= Half
  BY DEF FlowFits, Inside
<1>2. TW!FIN = Len(Sizes) + 1 /\ Len(Sizes) \in Nat
  BY <1>1, LenProperties DEF TW!FIN
<1>3. Half \in Nat
  BY <1>1, SMT DEF Half
<1>4. Adding(TW!Offset, TW!FIN)
  BY <1>1, OffsetIs
<1>5. \A p \in 1 .. Len(Sizes) : Sizes[p] \in Nat /\ Sizes[p] > 0
  <2>1. \A p \in 1 .. Len(Sizes) : Sizes[p] \in Nat \ {0}
    BY <1>1, ElementOfSeq
  <2> QED
    BY <2>1
<1>6. PICK f, n, l : f = TW!Offset /\ n = TW!FIN /\ l = Len(Sizes)
  OBVIOUS
<1>7. f \in [1 .. n -> Nat] /\ f[1] = 1 /\ n = l + 1 /\ l \in Nat
  BY <1>2, <1>4, <1>6 DEF Adding
<1>8. \A p, q \in 1 .. n : p < q => f[p] + Sizes[p] <= f[q]
  BY <1>1, <1>6, PlacesGrow
<1>9. \A p, q \in 1 .. n : p < q => f[p] < f[q]
  <2>1. ASSUME NEW p \in 1 .. n, NEW q \in 1 .. n, p < q PROVE f[p] < f[q]
    <3>1. f[p] + Sizes[p] <= f[q]
      BY <1>8, <2>1
    <3>2. p \in 1 .. l
      BY <1>7, <2>1
    <3>3. Sizes[p] \in Nat /\ Sizes[p] > 0
      BY <1>5, <1>6, <3>2
    <3>4. f[p] \in Nat /\ f[q] \in Nat
      BY <1>7
    <3> QED
      BY <3>1, <3>3, <3>4
  <2> QED
    BY <2>1
<1>10. \A p \in 1 .. n : f[p] >= 1
  <2>1. ASSUME NEW p \in 1 .. n PROVE f[p] >= 1
    <3>1. p # 1 => f[1] < f[p]
      BY <1>7, <1>9
    <3>2. f[p] \in Nat
      BY <1>7
    <3> QED
      BY <1>7, <3>1, <3>2
  <2> QED
    BY <2>1
<1>11. Inside = f[n] + 1 /\ n \in 1 .. n
  BY <1>6, <1>7 DEF Inside
<1>12. f[n] \in Nat /\ f[n] >= 1
  BY <1>7, <1>10, <1>11
<1>13. Inside \in 1 .. Half
  BY <1>1, <1>3, <1>11, <1>12
<1>14. TW!Data = 1 .. l
  BY <1>6 DEF TW!Data
<1>15. ASSUME NEW p \in TW!Data
       PROVE  /\ TW!Offset[p] \in 1 .. Half /\ TW!Offset[p] < Inside
              /\ TW!SeqNum(p) = (Start + TW!Offset[p]) % Space
              /\ Sizes[p] \in Nat /\ Inside + Sizes[p] <= Half
  <2>1. p \in 1 .. l /\ p \in 1 .. n /\ p < n /\ p # 0
    BY <1>7, <1>14
  <2>2. f[p] < f[n] /\ f[p] \in Nat /\ f[p] >= 1
    BY <1>7, <1>9, <1>10, <1>11, <2>1
  <2>3. TW!SeqNum(p) = (Start + TW!Offset[p]) % Space
    BY <2>1 DEF TW!SeqNum, TW!SYN
  <2>4. Sizes[p] \in Nat /\ Inside + Sizes[p] <= Half
    BY <1>5, <1>6, <2>1 DEF FlowFits, Inside
  <2>5. f[p] \in 1 .. Half /\ f[p] < Inside
    BY <1>3, <1>11, <1>12, <1>13, <2>2
  <2> QED
    BY <1>6, <2>3, <2>4, <2>5
<1>16. \A p, q \in TW!Data : p < q => TW!Offset[p] < TW!Offset[q]
  <2>1. 1 .. l \subseteq 1 .. n
    BY <1>7
  <2> QED
    BY <1>6, <1>9, <1>14, <2>1
<1>17. TW!SeqNum(TW!SYN) = (Start + 0) % Space /\ TW!SeqNum(TW!FIN) = (Start + TW!Offset[TW!FIN]) % Space
  <2>1. TW!FIN # 0
    BY <1>2
  <2> QED
    BY <2>1 DEF TW!SeqNum, TW!SYN
<1> QED
  BY <1>2, <1>3, <1>13, <1>15, <1>16, <1>17

LEMMA DataLocated ==
    ASSUME FlowFits, NEW p \in TW!Data
    PROVE  /\ At(TW!SeqNum(p), TW!Offset[p]) /\ TW!Offset[p] \in 1 .. Half
           /\ Located(TW!SeqNum(p), Inside)
<1>1. /\ TW!Offset[p] \in 1 .. Half /\ TW!Offset[p] < Inside /\ Inside \in 1 .. Half /\ Half \in Nat
      /\ TW!SeqNum(p) = (Start + TW!Offset[p]) % Space
  BY PlacesFit
<1>2. PICK k : k = TW!Offset[p]
  OBVIOUS
<1>3. k \in 1 .. Inside /\ At(TW!SeqNum(p), k)
  BY <1>1, <1>2 DEF At
<1> QED
  BY <1>1, <1>2, <1>3 DEF Located

\* The numbers behind the SYN and behind the FIN
LEMMA EndsLocated ==
    ASSUME FlowFits
    PROVE  /\ Located((TW!SeqNum(TW!SYN) + 1) % Space, Inside)
           /\ Located((TW!SeqNum(TW!FIN) + 1) % Space, Inside)
<1>1. /\ TW!SeqNum(TW!SYN) = (Start + 0) % Space /\ Inside \in 1 .. Half /\ Half \in Nat
      /\ TW!SeqNum(TW!FIN) = (Start + TW!Offset[TW!FIN]) % Space
  BY PlacesFit
<1>2. Space \in Nat \ {0} /\ Start \in Nat
  BY DEF FlowFits
<1>3. PICK o : o = TW!Offset[TW!FIN]
  OBVIOUS
<1>4. o \in Nat /\ Inside = o + 1
  <2>1. Adding(TW!Offset, TW!FIN) /\ TW!FIN = Len(Sizes) + 1 /\ Len(Sizes) \in Nat
    BY OffsetIs, PlacesFit DEF FlowFits
  <2>2. TW!Offset \in [1 .. TW!FIN -> Nat] /\ TW!FIN \in 1 .. TW!FIN
    BY <2>1 DEF Adding
  <2> QED
    BY <1>3, <2>2 DEF Inside
<1>5. ASSUME NEW k \in Nat, k < Inside, NEW e, e = (Start + k) % Space
      PROVE  Located((e + 1) % Space, Inside)
  <2>1. PICK a : a = Start + k
    OBVIOUS
  <2>2. a \in Int /\ a + 1 = Start + (k + 1) /\ k + 1 \in 1 .. Inside
    <3>1. PICK i : i = Inside
      OBVIOUS
    <3>2. i \in Int /\ k < i
      BY <1>1, <1>5, <3>1
    <3>3. k + 1 \in 1 .. i
      BY <3>2
    <3>4. a \in Int /\ a + 1 = Start + (k + 1)
      BY <1>2, <2>1
    <3> QED
      BY <3>1, <3>3, <3>4
  <2>3. ((a % Space) + 1) % Space = (a + 1) % Space
    <3>1. 1 \in Int /\ a \in Int
      BY <2>2
    <3> QED
      BY <1>2, <3>1, SumOfPlaces, Zenon
  <2>4. (e + 1) % Space = (Start + (k + 1)) % Space
    BY <1>5, <2>1, <2>2, <2>3
  <2>5. At((e + 1) % Space, k + 1)
    BY <2>2, <2>4 DEF At
  <2> QED
    BY <2>2, <2>5 DEF Located
<1>6. 0 \in Nat /\ 0 < Inside /\ o < Inside
  BY <1>1, <1>4
<1> QED
  BY <1>1, <1>3, <1>4, <1>5, <1>6

LEMMA LocatedMore ==
    ASSUME FlowFits, NEW e, Located(e, Inside)
    PROVE  Located(e, Half)
<1>1. Inside \in 1 .. Half /\ Half \in Nat
  BY PlacesFit
<1>2. 1 .. Inside \subseteq 1 .. Half
  BY <1>1
<1> QED
  BY <1>2 DEF Located

\* None is no number of the flow.
LEMMA LocatedIsNumber ==
    ASSUME FlowFits, NEW e, NEW n, Located(e, n)
    PROVE  e # TW!None
<1>1. PICK k \in 1 .. n : At(e, k)
  BY DEF Located
<1>2. Space \in Nat \ {0} /\ Start \in Nat /\ k \in Nat /\ e = (Start + k) % Space
  BY <1>1 DEF At, FlowFits
<1>3. PICK a : a = Start + k
  OBVIOUS
<1>4. a \in Int /\ e = a % Space
  BY <1>2, <1>3
<1>5. a % Space \in 0 .. (Space - 1)
  BY <1>2, <1>4, SMT
<1> QED
  BY <1>2, <1>4, <1>5 DEF TW!None

\* Of the packets in the heap one is in front of all others.
LEMMA DataInOrder ==
    ASSUME FlowFits, NEW p \in TW!Data, NEW q \in TW!Data
    PROVE  /\ TW!SeqLess(TW!SeqNum(p), TW!SeqNum(q)) <=> TW!Offset[p] < TW!Offset[q]
           /\ p < q => TW!Offset[p] < TW!Offset[q]
<1>1. Space \in Nat \ {0} /\ Start \in Nat
  BY DEF FlowFits
<1>2. /\ At(TW!SeqNum(p), TW!Offset[p]) /\ TW!Offset[p] \in 1 .. Half
      /\ At(TW!SeqNum(q), TW!Offset[q]) /\ TW!Offset[q] \in 1 .. Half
  BY DataLocated
<1>3. TW!SeqLess(TW!SeqNum(p), TW!SeqNum(q)) <=> TW!Offset[p] < TW!Offset[q]
  BY <1>1, <1>2, SeqLessIs
<1> QED
  BY <1>3, PlacesFit

LEMMA SmallestExists ==
    ASSUME FlowFits, TW!Queued # {}
    PROVE  \E p \in TW!Data : TW!Smallest(p)
<1>1. TW!Queued \subseteq TW!Data
  BY DEF TW!Queued
<1>2. TW!Data \subseteq Nat
  BY PlacesFit DEF TW!Data
<1>3. PICK p \in TW!Queued : \A q \in TW!Queued : p <= q
  <2>1. TW!Queued \subseteq Nat
    BY <1>1, <1>2
  <2> QED
    BY <2>1, LeastExists
<1>4. ASSUME NEW q \in TW!Queued, q # p PROVE TW!SeqLess(TW!SeqNum(p), TW!SeqNum(q))
  <2>1. p \in TW!Data /\ q \in TW!Data /\ p < q
    BY <1>1, <1>2, <1>3, <1>4
  <2> QED
    BY <2>1, DataInOrder
<1> QED
  BY <1>1, <1>3, <1>4 DEF TW!Smallest

\* Judge: if the top of the heap is not stale, no packet of it is.
LEMMA NothingStale ==
    ASSUME FlowFits, NEW e, Located(e, Half),
           \A p \in TW!Data : TW!Smallest(p) => ~TW!SeqLess(TW!SeqNum(p), e),
           NEW q \in TW!Queued
    PROVE  ~TW!SeqLess(TW!SeqNum(q), e)
<1>1. PICK p \in TW!Data : TW!Smallest(p)
  BY SmallestExists
<1>2. q \in TW!Data /\ p \in TW!Data
  BY DEF TW!Queued
<1>3. PICK k \in 1 .. Half : At(e, k)
  BY DEF Located
<1>4. Space \in Nat \ {0} /\ Start \in Nat
  BY DEF FlowFits
<1>5. PICK a, b : a = TW!Offset[p] /\ b = TW!Offset[q]
  OBVIOUS
<1>6. a \in 1 .. Half /\ b \in 1 .. Half /\ At(TW!SeqNum(p), a) /\ At(TW!SeqNum(q), b)
  BY <1>2, <1>5, DataLocated
<1>7. ~(a < k)
  <2>1. TW!SeqLess(TW!SeqNum(p), e) <=> a < k
    BY <1>3, <1>4, <1>6, SeqLessIs
  <2> QED
    BY <1>1, <2>1
<1>8. a <= b
  <2>1. q # p => TW!SeqLess(TW!SeqNum(p), TW!SeqNum(q))
    BY <1>1 DEF TW!Smallest
  <2>2. TW!SeqLess(TW!SeqNum(p), TW!SeqNum(q)) <=> a < b
    BY <1>2, <1>5, DataInOrder
  <2>3. p = q => a = b
    BY <1>5
  <2>4. Half \in Nat
    BY PlacesFit
  <2> QED
    BY <1>6, <2>1, <2>2, <2>3, <2>4
<1>9. TW!SeqLess(TW!SeqNum(q), e) <=> b < k
  BY <1>3, <1>4, <1>6, SeqLessIs
<1>10. Half \in Nat
  BY PlacesFit
<1> QED
  BY <1>6, <1>7, <1>8, <1>9, <1>10

\* How often a packet occurs in what is batched or written
LEMMA OccurrencesIs ==
    ASSUME NEW p, NEW s
    PROVE  TW!Occurrences(p, s) = Cardinality({i \in 1 .. Len(s) : s[i] = p})
BY DEF TW!Occurrences, TW!Cardinality, Cardinality

LEMMA OccurrencesType ==
    ASSUME NEW S, NEW s \in Seq(S), NEW p
    PROVE  /\ IsFiniteSet({i \in 1 .. Len(s) : s[i] = p})
           /\ TW!Occurrences(p, s) \in Nat
<1>1. Len(s) \in Nat
  BY LenProperties
<1>2. IsFiniteSet(1 .. Len(s))
  BY <1>1, FS_Interval
<1>3. {i \in 1 .. Len(s) : s[i] = p} \subseteq 1 .. Len(s)
  OBVIOUS
<1>4. IsFiniteSet({i \in 1 .. Len(s) : s[i] = p})
  BY <1>2, <1>3, FS_Subset
<1> QED
  BY <1>4, FS_CardinalityType, OccurrencesIs

LEMMA OccurrencesNone ==
    ASSUME NEW p
    PROVE  TW!Occurrences(p, << >>) = 0
<1>1. {i \in 1 .. Len(<< >>) : << >>[i] = p} = {}
  OBVIOUS
<1> QED
  BY <1>1, FS_EmptySet, OccurrencesIs

LEMMA OccurrencesConcat ==
    ASSUME NEW S, NEW s \in Seq(S), NEW t \in Seq(S), NEW p
    PROVE  TW!Occurrences(p, s \o t) = TW!Occurrences(p, s) + TW!Occurrences(p, t)
<1>1. PICK u, n, m : u = s \o t /\ n = Len(s) /\ m = Len(t)
  OBVIOUS
<1>2. /\ n \in Nat /\ m \in Nat /\ Len(u) = n + m
      /\ \A i \in 1 .. n : u[i] = s[i]
      /\ \A i \in 1 .. m : u[n + i] = t[i]
  <2>1. /\ Len(s \o t) = Len(s) + Len(t)
        /\ \A i \in 1 .. (Len(s) + Len(t)) :
              (s \o t)[i] = IF i <= Len(s) THEN s[i] ELSE t[i - Len(s)]
    BY ConcatProperties
  <2>2. n \in Nat /\ m \in Nat
    BY <1>1, LenProperties
  <2>3. Len(u) = n + m /\ \A i \in 1 .. (n + m) : u[i] = IF i <= n THEN s[i] ELSE t[i - n]
    BY <1>1, <2>1
  <2>4. \A i \in 1 .. n : i \in 1 .. (n + m) /\ i <= n
    BY <2>2
  <2>5. ASSUME NEW i \in 1 .. m PROVE u[n + i] = t[i]
    <3>1. n + i \in 1 .. (n + m) /\ ~(n + i <= n) /\ (n + i) - n = i
      BY <2>2
    <3> QED
      BY <2>3, <3>1
  <2> QED
    BY <2>2, <2>3, <2>4, <2>5
<1> DEFINE A == {i \in 1 .. n : s[i] = p}
           B == {i \in 1 .. m : t[i] = p}
           C == {i \in 1 .. (n + m) : u[i] = p}
           D == {n + i : i \in B}
<1>3. C = A \cup D
  <2>1. ASSUME NEW i \in C PROVE i \in A \cup D
    <3>1. CASE i <= n
      <4>1. i \in 1 .. n
        BY <1>2, <3>1
      <4> QED
        BY <1>2, <4>1
    <3>2. CASE ~(i <= n)
      <4>1. PICK j : j = i - n
        OBVIOUS
      <4>2. j \in 1 .. m /\ i = n + j
        BY <1>2, <3>2, <4>1
      <4>3. t[j] = p
        BY <1>2, <4>2
      <4> QED
        BY <4>2, <4>3
    <3> QED
      BY <3>1, <3>2
  <2>2. ASSUME NEW i \in A PROVE i \in C
    <3>1. i \in 1 .. (n + m)
      BY <1>2
    <3> QED
      BY <1>2, <3>1
  <2>3. ASSUME NEW i \in B PROVE n + i \in C
    <3>1. n + i \in 1 .. (n + m)
      BY <1>2
    <3> QED
      BY <1>2, <3>1
  <2> QED
    BY <2>1, <2>2, <2>3
<1>4. A \cap D = {}
  BY <1>2
<1>5. IsFiniteSet(A) /\ IsFiniteSet(B)
  BY <1>1, OccurrencesType
<1>6. IsFiniteSet(D) /\ Cardinality(D) = Cardinality(B)
  <2> DEFINE f == [i \in B |-> n + i]
  <2>1. f \in Bijection(B, D)
    <3>1. f \in [B -> D]
      OBVIOUS
    <3>2. \A i, j \in B : f[i] = f[j] => i = j
      BY <1>2
    <3>3. \A d \in D : \E i \in B : f[i] = d
      OBVIOUS
    <3> HIDE DEF f, B, D
    <3> QED
      BY <3>1, <3>2, <3>3 DEF Bijection, Injection, IsInjective, Surjection
  <2>2. ExistsBijection(B, D)
    BY <2>1 DEF ExistsBijection
  <2> HIDE DEF B, D
  <2> QED
    BY <1>5, <2>2, FS_Bijection
<1> HIDE DEF A, B, C, D
<1>7. Cardinality(C) = Cardinality(A) + Cardinality(B)
  <2>1. /\ Cardinality(A \cup D) = Cardinality(A) + Cardinality(D) - Cardinality(A \cap D)
    BY <1>5, <1>6, FS_Union
  <2>2. Cardinality(A \cap D) = 0
    BY <1>4, FS_EmptySet
  <2>3. Cardinality(A) \in Nat /\ Cardinality(B) \in Nat
    BY <1>5, FS_CardinalityType
  <2> QED
    BY <1>3, <1>6, <2>1, <2>2, <2>3
<1>8. /\ TW!Occurrences(p, s) = Cardinality(A) /\ TW!Occurrences(p, t) = Cardinality(B)
      /\ TW!Occurrences(p, u) = Cardinality(C)
  BY <1>1, <1>2, OccurrencesIs DEF A, B, C
<1> QED
  BY <1>1, <1>7, <1>8

Found(p, q) == IF p = q THEN 1 ELSE 0

LEMMA OccurrencesAppend ==
    ASSUME NEW S, NEW s \in Seq(S), NEW x \in S, NEW p
    PROVE  TW!Occurrences(p, Append(s, x)) = TW!Occurrences(p, s) + Found(p, x)
<1>1. <<x>> \in Seq(S) /\ Len(<<x>>) = 1 /\ <<x>>[1] = x
  BY SingleMessage
<1>2. Append(s, x) = s \o <<x>>
  BY AppendIsConcat
<1>3. TW!Occurrences(p, s \o <<x>>) = TW!Occurrences(p, s) + TW!Occurrences(p, <<x>>)
  BY <1>1, OccurrencesConcat
<1>4. TW!Occurrences(p, <<x>>) = Found(p, x)
  <2>1. CASE p = x
    <3>1. {i \in 1 .. Len(<<x>>) : <<x>>[i] = p} = {1}
      BY <1>1, <2>1
    <3> QED
      BY <2>1, <3>1, FS_Singleton, OccurrencesIs DEF Found
  <2>2. CASE p # x
    <3>1. {i \in 1 .. Len(<<x>>) : <<x>>[i] = p} = {}
      BY <1>1, <2>2
    <3> QED
      BY <2>2, <3>1, FS_EmptySet, OccurrencesIs DEF Found
  <2> QED
    BY <2>1, <2>2
<1> QED
  BY <1>2, <1>3, <1>4

\* What a packet of the flow counts behind the heap
Behind(p, c, b, w) == Found(p, c.held) + TW!Occurrences(p, b) + TW!Occurrences(p, w)
Balanced(arr, hp, c, b, w) == \A p \in TW!Data : arr[p] = hp[p] + Behind(p, c, b, w)

LEMMA FlushCounts ==
    ASSUME NEW b \in Seq(TW!Data), NEW w \in Seq(TW!Data), NEW p
    PROVE  /\ TW!Occurrences(p, << >>) + TW!Occurrences(p, w \o b)
                = TW!Occurrences(p, b) + TW!Occurrences(p, w)
           /\ w \o b \in Seq(TW!Data)
<1>1. TW!Occurrences(p, << >>) = 0
  BY OccurrencesNone
<1>2. TW!Occurrences(p, w \o b) = TW!Occurrences(p, w) + TW!Occurrences(p, b)
  BY OccurrencesConcat
<1>3. TW!Occurrences(p, w) \in Nat /\ TW!Occurrences(p, b) \in Nat
  BY OccurrencesType
<1>4. w \o b \in Seq(TW!Data)
  BY ConcatProperties
<1> QED
  BY <1>1, <1>2, <1>3, <1>4

\* Emit: the packet is batched, and with a full batch written.
LEMMA EmitCounts ==
    ASSUME batch \in Seq(TW!Data), written \in Seq(TW!Data), NEW q \in TW!Data, TW!Emit(q)
    PROVE  /\ batch' \in Seq(TW!Data) /\ written' \in Seq(TW!Data)
           /\ \A p \in TW!Data : TW!Occurrences(p, batch') + TW!Occurrences(p, written')
                  = Found(p, q) + TW!Occurrences(p, batch) + TW!Occurrences(p, written)
<1>1. PICK b : b = Append(batch, q)
  OBVIOUS
<1>2. \/ written' = written \o b /\ batch' = << >>
      \/ written' = written /\ batch' = b
  BY <1>1 DEF TW!Emit
<1>3. b \in Seq(TW!Data)
  BY <1>1, AppendProperties
<1>4. << >> \in Seq(TW!Data) /\ written \o b \in Seq(TW!Data)
  BY <1>3, FlushCounts
<1>5. ASSUME NEW p \in TW!Data
      PROVE  TW!Occurrences(p, batch') + TW!Occurrences(p, written')
                  = Found(p, q) + TW!Occurrences(p, batch) + TW!Occurrences(p, written)
  <2>1. TW!Occurrences(p, b) = TW!Occurrences(p, batch) + Found(p, q)
    BY <1>1, OccurrencesAppend
  <2>2. TW!Occurrences(p, batch) \in Nat /\ TW!Occurrences(p, written) \in Nat /\ Found(p, q) \in Nat
    BY OccurrencesType DEF Found
  <2>3. CASE written' = written \o b /\ batch' = << >>
    <3>1. TW!Occurrences(p, << >>) + TW!Occurrences(p, written \o b)
            = TW!Occurrences(p, b) + TW!Occurrences(p, written)
      BY <1>3, FlushCounts
    <3> QED
      BY <2>1, <2>2, <2>3, <3>1
  <2>4. CASE written' = written /\ batch' = b
    BY <2>1, <2>2, <2>4
  <2> QED
    BY <1>2, <2>3, <2>4
<1> QED
  BY <1>2, <1>3, <1>4, <1>5

TunSteps == {"wait", "snapshot", "peek", "retire", "expected", "stale", "backlog", "overflow",
             "pop", "next", "advance", "empty", "deactivate", "old", "gap", "expire", "done"}
ConsumerType ==
    [step : TunSteps, top : TW!Data \cup {TW!None}, expected : Int,
     held : TW!Data \cup {TW!None}, progressed : BOOLEAN]

TunShape ==
    /\ arrived \in [TW!Packets -> Nat] /\ heap \in [TW!Data -> Nat]
    /\ batch \in Seq(TW!Data) /\ written \in Seq(TW!Data)
    /\ consumer \in ConsumerType

\* What the consumer knows at each step: of the packet it looked at, which only
\* it can take out of the heap, and of the number it expects, which the
\* producer may move to the start or to the end of the flow.
TunPlaces(c, e, hp) ==
    /\ c.step \in {"next", "advance"} <=> c.held # TW!None
    /\ c.step \in {"expected", "stale", "backlog", "overflow", "pop", "old", "gap", "expire"} =>
          c.top \in TW!Data
    /\ c.step \in {"expected", "stale", "backlog", "overflow", "pop", "old"} => hp[c.top] > 0
    /\ e = TW!None \/ Located(e, Half)
    /\ c.step = "stale" => Located(c.expected, Half) /\ (e = c.expected \/ Located(e, Inside))
    /\ c.step \in {"pop", "next"} => Located(e, Inside)
    /\ c.step = "advance" => Located(e, Half) /\ Located(c.expected, Half)
    /\ c.step \in {"backlog", "overflow", "old"} =>
          ~TW!SeqLess(TW!SeqNum(c.top), c.expected)

TunInv ==
    /\ TunShape
    /\ Balanced(arrived, heap, consumer, batch, written)
    /\ TunPlaces(consumer, expected, heap)

LEMMA LaterIsOne ==
    ASSUME NEW a, NEW b
    PROVE  TW!Later(a, b) = a \/ TW!Later(a, b) = b
BY DEF TW!Later

\* Where the consumer goes on
LEMMA GotoFields ==
    ASSUME consumer \in ConsumerType, NEW s \in TunSteps, TW!Goto(s)
    PROVE  /\ consumer' \in ConsumerType /\ consumer'.step = s
           /\ consumer'.top = consumer.top /\ consumer'.expected = consumer.expected
           /\ consumer'.held = consumer.held
BY DEF TW!Goto, ConsumerType

LEMMA ProgressFields ==
    ASSUME consumer \in ConsumerType, NEW s \in TunSteps, TW!Progress(s)
    PROVE  /\ consumer' \in ConsumerType /\ consumer'.step = s
           /\ consumer'.top = consumer.top /\ consumer'.expected = consumer.expected
           /\ consumer'.held = TW!None
BY DEF TW!Progress, ConsumerType

LEMMA BalancedKept ==
    ASSUME TunShape, Balanced(arrived, heap, consumer, batch, written),
           UNCHANGED <<arrived, heap, batch, written>>,
           consumer' \in ConsumerType, consumer'.held = consumer.held
    PROVE  TunShape' /\ Balanced(arrived, heap, consumer, batch, written)'
BY DEF TunShape, Balanced, Behind

\* Nothing but what the consumer does not look at changes.
LEMMA TunQuietStep ==
    ASSUME FlowFits, TunInv, UNCHANGED <<arrived, heap, batch, written, consumer, expected>>
    PROVE  TunInv'
<1>1. TunShape' /\ Balanced(arrived, heap, consumer, batch, written)'
  BY BalancedKept DEF TunInv, TunShape
<1>2. TunPlaces(consumer, expected, heap)'
  BY DEF TunInv, TunPlaces
<1> QED
  BY <1>1, <1>2 DEF TunInv

\* The producer: expected is left alone, or moved.
LEMMA PlacesMoved ==
    ASSUME FlowFits, TunPlaces(consumer, expected, heap), NEW e,
           \/ Located(e, Inside)
           \/ e = expected
    PROVE  TunPlaces(consumer, e, heap)
<1>1. CASE e = expected
  BY <1>1
<1>2. CASE Located(e, Inside)
  <2>1. Located(e, Half)
    BY <1>2, LocatedMore
  <2> QED
    BY <1>2, <2>1 DEF TunPlaces
<1> QED
  BY <1>1, <1>2

LEMMA TunReceiveStep ==
    ASSUME FlowFits, TunInv, NEW q \in TW!Packets, TW!Receive(q)
    PROVE  TunInv'
<1>1. TunShape /\ Balanced(arrived, heap, consumer, batch, written) /\ TunPlaces(consumer, expected, heap)
  BY DEF TunInv
<1>2. arrived' = [arrived EXCEPT ![q] = @ + 1] /\ consumer' = consumer /\ batch' = batch
  BY DEF TW!Receive
<1>3. TW!Data \subseteq TW!Packets /\ TW!SYN \notin TW!Data /\ TW!FIN \notin TW!Data
  BY PlacesFit DEF TW!Data, TW!Packets, TW!SYN, TW!FIN
<1>4. arrived' \in [TW!Packets -> Nat]
      /\ \A p \in TW!Packets : arrived'[p] = arrived[p] + Found(p, q)
  BY <1>1, <1>2 DEF TunShape, Found
<1>5. \A p \in TW!Data : /\ arrived[p] \in Nat /\ heap[p] \in Nat
                         /\ Found(p, consumer.held) \in Nat /\ Found(p, q) \in Nat
                         /\ TW!Occurrences(p, batch) \in Nat /\ TW!Occurrences(p, written) \in Nat
  BY <1>1, <1>3, OccurrencesType DEF TunShape, Found
<1>6. CASE UNCHANGED <<heap, written>> /\ q \notin TW!Data
           /\ (Located(expected', Inside) \/ expected' = expected)
  <2>1. \A p \in TW!Data : Found(p, q) = 0
    BY <1>6 DEF Found
  <2>2. \A p \in TW!Data : arrived'[p] = arrived[p]
    BY <1>3, <1>4, <1>5, <2>1
  <2>3. Balanced(arrived, heap, consumer, batch, written)'
    BY <1>1, <1>2, <1>6, <2>2 DEF Balanced, Behind
  <2>4. TunShape'
    BY <1>1, <1>2, <1>4, <1>6 DEF TunShape
  <2>5. PICK e : e = expected'
    OBVIOUS
  <2>6. TunPlaces(consumer, e, heap)
    BY <1>1, <1>6, <2>5, PlacesMoved
  <2>7. TunPlaces(consumer, expected, heap)'
    BY <1>2, <1>6, <2>5, <2>6 DEF TunPlaces
  <2> QED
    BY <2>3, <2>4, <2>7 DEF TunInv
<1>7. CASE q = TW!SYN /\ TW!ReceiveSyn
  <2>1. UNCHANGED <<heap, written>> /\ Located(expected', Inside)
    BY <1>7, EndsLocated DEF TW!ReceiveSyn
  <2> QED
    BY <1>3, <1>6, <1>7, <2>1
<1>8. CASE q = TW!FIN /\ TW!ReceiveFin
  <2>1. UNCHANGED <<heap, written>>
    BY <1>8 DEF TW!ReceiveFin
  <2>2. PICK n : n = (TW!SeqNum(TW!FIN) + 1) % Space
    OBVIOUS
  <2>3. expected' = n \/ expected' = TW!Later(expected, n)
    BY <1>8, <2>2 DEF TW!ReceiveFin
  <2>4. Located(n, Inside)
    BY <2>2, EndsLocated
  <2>5. Located(expected', Inside) \/ expected' = expected
    BY <2>3, <2>4, LaterIsOne
  <2> QED
    BY <1>3, <1>6, <1>8, <2>1, <2>5
<1>9. CASE q \in TW!Data /\ TW!PushData(q)
  <2>1. heap' = [heap EXCEPT ![q] = @ + 1] /\ UNCHANGED <<expected, written>>
    BY <1>9 DEF TW!PushData
  <2>2. heap' \in [TW!Data -> Nat] /\ \A p \in TW!Data : heap'[p] = heap[p] + Found(p, q)
    BY <1>1, <1>9, <2>1 DEF TunShape, Found
  <2>3. Balanced(arrived, heap, consumer, batch, written)'
    <3>1. ASSUME NEW p \in TW!Data PROVE arrived'[p] = heap'[p] + Behind(p, consumer, batch, written)
      <4>1. arrived[p] = heap[p] + Behind(p, consumer, batch, written)
        BY <1>1 DEF Balanced
      <4>2. Behind(p, consumer, batch, written) \in Nat
        BY <1>5 DEF Behind
      <4>3. arrived'[p] = arrived[p] + Found(p, q) /\ heap'[p] = heap[p] + Found(p, q)
        BY <1>3, <1>4, <2>2
      <4> QED
        BY <1>5, <4>1, <4>2, <4>3
    <3> QED
      BY <1>2, <2>1, <3>1 DEF Balanced, Behind
  <2>4. TunShape'
    BY <1>1, <1>2, <1>4, <2>1, <2>2 DEF TunShape
  <2>5. \A p \in TW!Data : heap[p] > 0 => heap'[p] > 0
    BY <1>5, <2>2
  <2>6. TunPlaces(consumer, expected, heap)'
    BY <1>1, <1>2, <2>1, <2>5 DEF TunPlaces
  <2> QED
    BY <2>3, <2>4, <2>6 DEF TunInv
<1>10. CASE TW!WriteThrough(q)
  <2>1. UNCHANGED <<heap, expected>>
        /\ written' = IF q \in TW!Data THEN Append(written, q) ELSE written
    BY <1>10 DEF TW!WriteThrough
  <2>2. CASE q \notin TW!Data
    BY <1>6, <2>1, <2>2
  <2>3. CASE q \in TW!Data
    <3>1. written' = Append(written, q) /\ written' \in Seq(TW!Data)
      BY <1>1, <2>1, <2>3, AppendProperties DEF TunShape
    <3>2. Balanced(arrived, heap, consumer, batch, written)'
      <4>1. ASSUME NEW p \in TW!Data
            PROVE  arrived'[p] = heap[p] + Behind(p, consumer, batch, written')
        <5>1. TW!Occurrences(p, written') = TW!Occurrences(p, written) + Found(p, q)
          BY <1>1, <2>3, <3>1, OccurrencesAppend DEF TunShape
        <5>2. arrived[p] = heap[p] + Behind(p, consumer, batch, written)
          BY <1>1 DEF Balanced
        <5>3. arrived'[p] = arrived[p] + Found(p, q)
          BY <1>3, <1>4
        <5> QED
          BY <1>5, <5>1, <5>2, <5>3 DEF Behind
      <4> QED
        BY <1>2, <2>1, <4>1 DEF Balanced, Behind
    <3>3. TunShape'
      BY <1>1, <1>2, <1>4, <2>1, <3>1 DEF TunShape
    <3>4. TunPlaces(consumer, expected, heap)'
      BY <1>1, <1>2, <2>1 DEF TunPlaces
    <3> QED
      BY <3>2, <3>3, <3>4 DEF TunInv
  <2> QED
    BY <2>2, <2>3
<1> QED
  BY <1>7, <1>8, <1>9, <1>10 DEF TW!Receive

\* The consumer moves on and leaves the packets where they are.
LEMMA TunMove ==
    ASSUME FlowFits, TunInv, UNCHANGED <<arrived, heap, batch, written>>,
           consumer' \in ConsumerType, consumer'.held = consumer.held,
           TunPlaces(consumer', expected', heap)
    PROVE  TunInv'
<1>1. TunShape' /\ Balanced(arrived, heap, consumer, batch, written)'
  BY BalancedKept DEF TunInv
<1>2. TunPlaces(consumer, expected, heap)'
  BY DEF TunPlaces
<1> QED
  BY <1>1, <1>2 DEF TunInv

\* pending_packets is written out.
LEMMA TunFlush ==
    ASSUME FlowFits, TunInv, UNCHANGED <<arrived, heap, expected>>, TW!EndRound,
           consumer.held = TW!None
    PROVE  TunInv'
<1>1. /\ consumer' = TW!Waiting /\ consumer' \in ConsumerType
      /\ consumer'.step = "wait" /\ consumer'.held = TW!None
  BY DEF TW!EndRound, TW!Waiting, ConsumerType, TunSteps, TW!None
<1>2. batch' = << >> /\ written' = written \o batch
  BY DEF TW!EndRound
<1>3. TunShape /\ Balanced(arrived, heap, consumer, batch, written)
  BY DEF TunInv
<1>4. batch' \in Seq(TW!Data) /\ written' \in Seq(TW!Data)
  BY <1>2, <1>3, FlushCounts DEF TunShape
<1>5. TunShape'
  BY <1>1, <1>3, <1>4 DEF TunShape
<1>6. ASSUME NEW p \in TW!Data
      PROVE  Behind(p, consumer', batch', written') = Behind(p, consumer, batch, written)
  <2>1. TW!Occurrences(p, batch') + TW!Occurrences(p, written')
          = TW!Occurrences(p, batch) + TW!Occurrences(p, written)
    BY <1>2, <1>3, FlushCounts DEF TunShape
  <2>2. /\ TW!Occurrences(p, batch) \in Nat /\ TW!Occurrences(p, written) \in Nat
        /\ TW!Occurrences(p, batch') \in Nat /\ TW!Occurrences(p, written') \in Nat
        /\ Found(p, consumer.held) \in Nat /\ Found(p, consumer'.held) = Found(p, consumer.held)
    BY <1>1, <1>3, <1>4, OccurrencesType DEF TunShape, Found
  <2> QED
    BY <2>1, <2>2 DEF Behind
<1>7. Balanced(arrived, heap, consumer, batch, written)'
  BY <1>3, <1>6 DEF Balanced
<1>8. TunPlaces(consumer, expected, heap)'
  BY <1>1 DEF TunInv, TunPlaces
<1> QED
  BY <1>5, <1>7, <1>8 DEF TunInv

\* A packet leaves the heap.
LEMMA HeapTaken ==
    ASSUME TunShape, NEW q \in TW!Data, TW!Smallest(q), heap' = [heap EXCEPT ![q] = @ - 1]
    PROVE  /\ heap' \in [TW!Data -> Nat]
           /\ \A p \in TW!Data : heap[p] = heap'[p] + Found(p, q)
<1>1. heap \in [TW!Data -> Nat] /\ heap[q] > 0
  BY DEF TunShape, TW!Smallest, TW!Queued
<1> QED
  BY <1>1 DEF Found

LEMMA TunWriteStale ==
    ASSUME FlowFits, TunInv, TW!WriteStale
    PROVE  TunInv'
<1>1. PICK q \in TW!Data : TW!Smallest(q) /\ heap' = [heap EXCEPT ![q] = @ - 1] /\ TW!Emit(q)
  BY DEF TW!WriteStale
<1>2. /\ consumer.step = "stale" /\ TW!Progress("peek")
      /\ arrived' = arrived /\ expected' = expected
  BY DEF TW!WriteStale, TW!At
<1>3. TunShape /\ Balanced(arrived, heap, consumer, batch, written) /\ TunPlaces(consumer, expected, heap)
  BY DEF TunInv
<1>4. consumer' \in ConsumerType /\ consumer'.step = "peek" /\ consumer'.held = TW!None
  BY <1>2, <1>3, ProgressFields DEF TunSteps, TunShape
<1>5. consumer.held = TW!None
  BY <1>2, <1>3 DEF TunPlaces
<1>6. /\ batch' \in Seq(TW!Data) /\ written' \in Seq(TW!Data)
      /\ \A p \in TW!Data : TW!Occurrences(p, batch') + TW!Occurrences(p, written')
             = Found(p, q) + TW!Occurrences(p, batch) + TW!Occurrences(p, written)
  BY <1>1, <1>3, EmitCounts DEF TunShape
<1>7. /\ heap' \in [TW!Data -> Nat]
      /\ \A p \in TW!Data : heap[p] = heap'[p] + Found(p, q)
  BY <1>1, <1>3, HeapTaken
<1>8. TunShape'
  BY <1>2, <1>3, <1>4, <1>6, <1>7 DEF TunShape
<1>9. ASSUME NEW p \in TW!Data
      PROVE  arrived[p] = heap'[p] + Behind(p, consumer', batch', written')
  <2>1. arrived[p] = heap[p] + Behind(p, consumer, batch, written)
    BY <1>3 DEF Balanced
  <2>2. /\ TW!Occurrences(p, batch) \in Nat /\ TW!Occurrences(p, written) \in Nat
        /\ TW!Occurrences(p, batch') \in Nat /\ TW!Occurrences(p, written') \in Nat
        /\ Found(p, q) \in Nat
        /\ Found(p, TW!None) \in Nat /\ heap'[p] \in Nat
    BY <1>3, <1>6, <1>7, OccurrencesType DEF TunShape, Found
  <2>3. /\ heap[p] = heap'[p] + Found(p, q)
        /\ TW!Occurrences(p, batch') + TW!Occurrences(p, written')
             = Found(p, q) + TW!Occurrences(p, batch) + TW!Occurrences(p, written)
    BY <1>6, <1>7
  <2>4. /\ Behind(p, consumer, batch, written)
             = Found(p, TW!None) + TW!Occurrences(p, batch) + TW!Occurrences(p, written)
        /\ Behind(p, consumer', batch', written')
             = Found(p, TW!None) + TW!Occurrences(p, batch') + TW!Occurrences(p, written')
    BY <1>4, <1>5 DEF Behind
  <2> QED
    BY <2>1, <2>2, <2>3, <2>4
<1>10. Balanced(arrived, heap, consumer, batch, written)'
  BY <1>2, <1>9 DEF Balanced
<1>11. TunPlaces(consumer, expected, heap)'
  BY <1>2, <1>3, <1>4 DEF TunPlaces
<1> QED
  BY <1>8, <1>10, <1>11 DEF TunInv

LEMMA TunPopDue ==
    ASSUME FlowFits, TunInv, TW!PopDue
    PROVE  TunInv'
<1>1. PICK q \in TW!Data : /\ TW!Smallest(q) /\ heap' = [heap EXCEPT ![q] = @ - 1]
                           /\ consumer' = [consumer EXCEPT !.step = "next", !.held = q]
  BY DEF TW!PopDue
<1>2. /\ consumer.step = "pop"
      /\ UNCHANGED <<arrived, expected, batch, written>>
  BY DEF TW!PopDue, TW!At
<1>3. TunShape /\ Balanced(arrived, heap, consumer, batch, written) /\ TunPlaces(consumer, expected, heap)
  BY DEF TunInv
<1>4. consumer' \in ConsumerType /\ consumer'.step = "next" /\ consumer'.held = q
  BY <1>1, <1>3 DEF TunSteps, TunShape, ConsumerType
<1>5. consumer.held = TW!None /\ q # TW!None
  <2>1. TW!None \notin TW!Data
    BY PlacesFit DEF TW!Data, TW!None
  <2> QED
    BY <1>2, <1>3, <2>1 DEF TunPlaces
<1>6. /\ heap' \in [TW!Data -> Nat]
      /\ \A p \in TW!Data : heap[p] = heap'[p] + Found(p, q)
  BY <1>1, <1>3, HeapTaken
<1>7. TunShape'
  BY <1>2, <1>3, <1>4, <1>6 DEF TunShape
<1>8. ASSUME NEW p \in TW!Data
      PROVE  arrived[p] = heap'[p] + Behind(p, consumer', batch, written)
  <2>1. arrived[p] = heap[p] + Behind(p, consumer, batch, written)
    BY <1>3 DEF Balanced
  <2>2. /\ TW!Occurrences(p, batch) \in Nat /\ TW!Occurrences(p, written) \in Nat
        /\ Found(p, q) \in Nat /\ heap'[p] \in Nat
    BY <1>3, <1>6, OccurrencesType DEF TunShape, Found
  <2>3. heap[p] = heap'[p] + Found(p, q)
    BY <1>6
  <2>4. TW!None \notin TW!Data
    BY PlacesFit DEF TW!Data, TW!None
  <2>5. /\ Behind(p, consumer, batch, written)
             = 0 + TW!Occurrences(p, batch) + TW!Occurrences(p, written)
        /\ Behind(p, consumer', batch, written)
             = Found(p, q) + TW!Occurrences(p, batch) + TW!Occurrences(p, written)
    BY <1>4, <1>5, <2>4 DEF Behind, Found
  <2> QED
    BY <2>1, <2>2, <2>3, <2>5
<1>9. Balanced(arrived, heap, consumer, batch, written)'
  BY <1>2, <1>8 DEF Balanced
<1>10. TunPlaces(consumer, expected, heap)'
  BY <1>2, <1>3, <1>4, <1>5 DEF TunPlaces
<1> QED
  BY <1>7, <1>9, <1>10 DEF TunInv

LEMMA TunWriteDue ==
    ASSUME FlowFits, TunInv, TW!WriteDue
    PROVE  TunInv'
<1>1. /\ consumer.step = "advance" /\ UNCHANGED <<arrived, heap>>
      /\ expected' = TW!Later(expected, consumer.expected)
      /\ TW!Emit(consumer.held) /\ TW!Progress("empty")
  BY DEF TW!WriteDue, TW!At
<1>2. TunShape /\ Balanced(arrived, heap, consumer, batch, written) /\ TunPlaces(consumer, expected, heap)
  BY DEF TunInv
<1>3. consumer' \in ConsumerType /\ consumer'.step = "empty" /\ consumer'.held = TW!None
  BY <1>1, <1>2, ProgressFields DEF TunSteps, TunShape
<1>4. PICK q : q = consumer.held
  OBVIOUS
<1>5. q \in TW!Data /\ TW!None \notin TW!Data
  <2>1. q # TW!None /\ q \in TW!Data \cup {TW!None}
    BY <1>1, <1>2, <1>4 DEF TunPlaces, TunShape, ConsumerType
  <2>2. TW!None \notin TW!Data
    BY PlacesFit DEF TW!Data, TW!None
  <2> QED
    BY <2>1, <2>2
<1>6. /\ batch' \in Seq(TW!Data) /\ written' \in Seq(TW!Data)
      /\ \A p \in TW!Data : TW!Occurrences(p, batch') + TW!Occurrences(p, written')
             = Found(p, q) + TW!Occurrences(p, batch) + TW!Occurrences(p, written)
  BY <1>1, <1>2, <1>4, <1>5, EmitCounts DEF TunShape
<1>7. TunShape'
  BY <1>1, <1>2, <1>3, <1>6 DEF TunShape
<1>8. ASSUME NEW p \in TW!Data
      PROVE  Behind(p, consumer', batch', written') = Behind(p, consumer, batch, written)
  <2>1. /\ TW!Occurrences(p, batch) \in Nat /\ TW!Occurrences(p, written) \in Nat
        /\ TW!Occurrences(p, batch') \in Nat /\ TW!Occurrences(p, written') \in Nat
        /\ Found(p, q) \in Nat
    BY <1>2, <1>6, OccurrencesType DEF TunShape, Found
  <2>2. TW!Occurrences(p, batch') + TW!Occurrences(p, written')
             = Found(p, q) + TW!Occurrences(p, batch) + TW!Occurrences(p, written)
    BY <1>6
  <2>3. Found(p, consumer'.held) = 0 /\ Found(p, consumer.held) = Found(p, q)
    BY <1>3, <1>4, <1>5 DEF Found
  <2> QED
    BY <2>1, <2>2, <2>3 DEF Behind
<1>9. Balanced(arrived, heap, consumer, batch, written)'
  BY <1>1, <1>2, <1>8 DEF Balanced
<1>10. Located(expected', Half)
  BY <1>1, <1>2, LaterIsOne DEF TunPlaces
<1>11. TunPlaces(consumer, expected, heap)'
  BY <1>1, <1>3, <1>10 DEF TunPlaces
<1> QED
  BY <1>7, <1>9, <1>11 DEF TunInv

\* A gap given up moves the expectation to the packet looked at.
LEMMA GapGivenUp ==
    ASSUME FlowFits, TunInv, TW!GiveUpGap, consumer.top \in TW!Data
    PROVE  Located(expected', Half)
<1>1. Located(TW!SeqNum(consumer.top), Half)
  BY DataLocated, LocatedMore
<1>2. expected = TW!None \/ Located(expected, Half)
  BY DEF TunInv, TunPlaces
<1>3. IF expected = TW!None THEN expected' = TW!SeqNum(consumer.top)
      ELSE expected' = TW!Later(expected, TW!SeqNum(consumer.top))
  BY DEF TW!GiveUpGap
<1>4. CASE expected = TW!None
  BY <1>1, <1>3, <1>4
<1>5. CASE expected # TW!None
  <2>1. expected' = expected \/ expected' = TW!SeqNum(consumer.top)
    BY <1>3, <1>5, LaterIsOne
  <2> QED
    BY <1>1, <1>2, <1>5, <2>1
<1> QED
  BY <1>4, <1>5

LEMMA TunReadExpected ==
    ASSUME FlowFits, TunInv, TW!ReadExpected
    PROVE  TunInv'
<1>1. /\ consumer.step = "expected" /\ UNCHANGED <<arrived, heap, batch, written>>
      /\ expected' = IF expected = TW!None THEN TW!SeqNum(consumer.top) ELSE expected
      /\ consumer' = [consumer EXCEPT !.step = "stale", !.expected = expected']
  BY DEF TW!ReadExpected, TW!At
<1>2. TunShape /\ TunPlaces(consumer, expected, heap)
  BY DEF TunInv
<1>3. consumer.top \in TW!Data /\ heap[consumer.top] > 0 /\ consumer.held = TW!None
  BY <1>1, <1>2 DEF TunPlaces
<1>4. Located(TW!SeqNum(consumer.top), Half)
  BY <1>3, DataLocated, LocatedMore
<1>5. Located(expected', Half)
  BY <1>1, <1>2, <1>4 DEF TunPlaces
<1>6. expected' \in Int
  <2>1. PICK k \in 1 .. Half : At(expected', k)
    BY <1>5 DEF Located
  <2>2. PICK a : a = Start + k
    OBVIOUS
  <2>3. a \in Int /\ expected' = a % Space /\ Space \in Nat \ {0}
    BY <2>1, <2>2 DEF At, FlowFits
  <2> QED
    BY <2>3, SMT
<1>7. /\ consumer' \in ConsumerType /\ consumer'.step = "stale" /\ consumer'.top = consumer.top
      /\ consumer'.expected = expected' /\ consumer'.held = consumer.held
  BY <1>1, <1>2, <1>6 DEF TunSteps, TunShape, ConsumerType
<1>8. TunPlaces(consumer', expected', heap)
  BY <1>3, <1>5, <1>7 DEF TunPlaces
<1> QED
  BY <1>1, <1>7, <1>8, TunMove

LEMMA TunJudge ==
    ASSUME FlowFits, TunInv, TW!Judge
    PROVE  TunInv'
<1>1. /\ consumer.step = "stale" /\ UNCHANGED <<arrived, heap, batch, written, expected>>
      /\ \A p \in TW!Data : TW!Smallest(p) => ~TW!SeqLess(TW!SeqNum(p), consumer.expected)
      /\ TW!Goto(IF TW!SeqNum(consumer.top) = consumer.expected THEN "pop" ELSE "backlog")
  BY DEF TW!Judge, TW!At
<1>2. TunShape /\ TunPlaces(consumer, expected, heap)
  BY DEF TunInv
<1>3. /\ consumer.top \in TW!Data /\ heap[consumer.top] > 0 /\ consumer.held = TW!None
      /\ Located(consumer.expected, Half)
      /\ expected = consumer.expected \/ Located(expected, Inside)
  BY <1>1, <1>2 DEF TunPlaces
<1>4. ~TW!SeqLess(TW!SeqNum(consumer.top), consumer.expected)
  <2>1. consumer.top \in TW!Queued
    BY <1>3 DEF TW!Queued
  <2> QED
    BY <1>1, <1>3, <2>1, NothingStale
<1>5. CASE TW!SeqNum(consumer.top) = consumer.expected
  <2>1. TW!Goto("pop")
    BY <1>1, <1>5
  <2>2. /\ consumer' \in ConsumerType /\ consumer'.step = "pop" /\ consumer'.top = consumer.top
        /\ consumer'.held = consumer.held
    BY <1>2, <2>1, GotoFields DEF TunSteps, TunShape
  <2>3. Located(expected, Inside)
    BY <1>3, <1>5, DataLocated
  <2>4. TunPlaces(consumer', expected', heap)
    BY <1>1, <1>2, <1>3, <2>2, <2>3 DEF TunPlaces
  <2> QED
    BY <1>1, <2>2, <2>4, TunMove
<1>6. CASE TW!SeqNum(consumer.top) # consumer.expected
  <2>1. TW!Goto("backlog")
    BY <1>1, <1>6
  <2>2. /\ consumer' \in ConsumerType /\ consumer'.step = "backlog" /\ consumer'.top = consumer.top
        /\ consumer'.held = consumer.held /\ consumer'.expected = consumer.expected
    BY <1>2, <2>1, GotoFields DEF TunSteps, TunShape
  <2>3. TunPlaces(consumer', expected', heap)
    BY <1>1, <1>2, <1>3, <1>4, <2>2 DEF TunPlaces
  <2> QED
    BY <1>1, <2>2, <2>3, TunMove
<1> QED
  BY <1>5, <1>6

LEMMA TunReadNext ==
    ASSUME FlowFits, TunInv, TW!ReadNext
    PROVE  TunInv'
<1>1. /\ consumer.step = "next" /\ UNCHANGED <<arrived, heap, batch, written, expected>>
      /\ consumer' = [consumer EXCEPT !.step = "advance",
                        !.expected = (expected + TW!PayloadLen(consumer.held)) % Space]
  BY DEF TW!ReadNext, TW!At
<1>2. TunShape /\ TunPlaces(consumer, expected, heap)
  BY DEF TunInv
<1>3. PICK q : q = consumer.held
  OBVIOUS
<1>4. q \in TW!Data /\ q # TW!None /\ Located(expected, Inside)
  BY <1>1, <1>2, <1>3 DEF TunPlaces, TunShape, ConsumerType
<1>5. PICK k \in 1 .. Inside : At(expected, k)
  BY <1>4 DEF Located
<1>6. PICK n : n = TW!PayloadLen(q)
  OBVIOUS
<1>7. /\ n \in Nat /\ Inside + n <= Half /\ Inside \in 1 .. Half /\ Half \in Nat
      /\ Space \in Nat \ {0} /\ Start \in Nat
  <2>1. n = Sizes[q]
    BY <1>4, <1>6 DEF TW!PayloadLen
  <2> QED
    BY <1>4, <2>1, PlacesFit DEF FlowFits
<1>8. PICK a, x : a = Start + k /\ x = (expected + n) % Space
  OBVIOUS
<1>9. a \in Int /\ k \in Nat /\ expected = a % Space /\ n \in Int
  BY <1>5, <1>7, <1>8 DEF At
<1>10. ((a % Space) + n) % Space = (a + n) % Space
  BY <1>7, <1>9, SumOfPlaces
<1>11. k + n \in 1 .. Half /\ a + n = Start + (k + n)
  <2>1. PICK i : i = Inside
    OBVIOUS
  <2>2. i \in Nat /\ k \in 1 .. i /\ i + n <= Half
    BY <1>5, <1>7, <2>1
  <2>3. k + n \in 1 .. Half
    BY <1>7, <2>2
  <2>4. a + n = Start + (k + n)
    BY <1>7, <1>8, <1>9
  <2> QED
    BY <2>3, <2>4
<1>12. x = (Start + (k + n)) % Space
  BY <1>8, <1>9, <1>10, <1>11
<1>13. Located(x, Half)
  <2>1. PICK j : j = k + n
    OBVIOUS
  <2>2. At(x, j) /\ j \in 1 .. Half
    BY <1>7, <1>11, <1>12, <2>1 DEF At
  <2> QED
    BY <2>2 DEF Located
<1>14. x \in Int
  <2>1. expected + n \in Int
    <3>1. a % Space \in Int
      BY <1>7, <1>9, SMT
    <3> QED
      BY <1>9, <3>1
  <2> QED
    BY <1>7, <1>8, <2>1, SMT
<1>15. /\ consumer' \in ConsumerType /\ consumer'.step = "advance"
       /\ consumer'.expected = x /\ consumer'.held = consumer.held
  BY <1>1, <1>2, <1>3, <1>6, <1>8, <1>14 DEF TunSteps, TunShape, ConsumerType
<1>16. Located(expected, Half)
  BY <1>4, LocatedMore
<1>17. TunPlaces(consumer', expected', heap)
  BY <1>1, <1>3, <1>4, <1>13, <1>15, <1>16 DEF TunPlaces
<1> QED
  BY <1>1, <1>15, <1>17, TunMove

\* GiveUpGap at the limit of the backlog and at the deadline
LEMMA TunGiveUp ==
    ASSUME FlowFits, TunInv, TW!ForceBacklog \/ TW!ExpireGap
    PROVE  TunInv'
<1>1. PICK s \in {"old", "peek"} :
          /\ s = "old" => consumer.step = "overflow"
          /\ s = "peek" => consumer.step = "expire"
          /\ TW!GiveUpGap /\ TW!Progress(s) /\ UNCHANGED <<arrived, heap, batch, written>>
  BY DEF TW!ForceBacklog, TW!ExpireGap, TW!At
<1>2. TunShape /\ TunPlaces(consumer, expected, heap)
  BY DEF TunInv
<1>3. consumer.top \in TW!Data /\ consumer.held = TW!None
  BY <1>1, <1>2 DEF TunPlaces
<1>4. Located(expected', Half)
  BY <1>1, <1>3, GapGivenUp
<1>5. /\ consumer' \in ConsumerType /\ consumer'.step = s /\ consumer'.top = consumer.top
      /\ consumer'.held = consumer.held /\ consumer'.expected = consumer.expected
  <2>1. s \in TunSteps
    BY <1>1 DEF TunSteps
  <2> QED
    BY <1>1, <1>2, <1>3, <2>1, ProgressFields DEF TunShape
<1>6. TunPlaces(consumer', expected', heap)
  BY <1>1, <1>2, <1>3, <1>4, <1>5 DEF TunPlaces
<1> QED
  BY <1>1, <1>5, <1>6, TunMove

LEMMA TunDiscardOld ==
    ASSUME FlowFits, TunInv, TW!DiscardOld
    PROVE  TunInv'
<1>1. consumer.step = "old" /\ TunShape /\ TunPlaces(consumer, expected, heap)
  BY DEF TW!DiscardOld, TW!At, TunInv
<1>2. ~TW!SeqLess(TW!SeqNum(consumer.top), consumer.expected)
  BY <1>1 DEF TunPlaces
<1>3. TW!Goto("gap") /\ UNCHANGED <<arrived, heap, batch, written, expected>>
  BY <1>2 DEF TW!DiscardOld
<1>4. /\ consumer' \in ConsumerType /\ consumer'.step = "gap" /\ consumer'.top = consumer.top
      /\ consumer'.held = consumer.held
  BY <1>1, <1>3, GotoFields DEF TunSteps, TunShape
<1>5. TunPlaces(consumer', expected', heap)
  BY <1>1, <1>3, <1>4 DEF TunPlaces
<1> QED
  BY <1>3, <1>4, <1>5, TunMove

\* The steps that only go on
LEMMA TunGoOn ==
    ASSUME FlowFits, TunInv, NEW s \in TunSteps, TW!Goto(s),
           UNCHANGED <<arrived, heap, batch, written, expected>>,
           \/ s \in {"snapshot", "peek", "retire", "deactivate", "done"}
              /\ consumer.step \notin {"next", "advance"}
           \/ consumer.step = "backlog" /\ s \in {"overflow", "old"}
           \/ consumer.step = "gap" /\ s = "expire"
    PROVE  TunInv'
<1>1. TunShape /\ TunPlaces(consumer, expected, heap)
  BY DEF TunInv
<1>2. /\ consumer' \in ConsumerType /\ consumer'.step = s /\ consumer'.top = consumer.top
      /\ consumer'.held = consumer.held /\ consumer'.expected = consumer.expected
  BY <1>1, GotoFields DEF TunShape
<1>3. TunPlaces(consumer', expected', heap)
  BY <1>1, <1>2 DEF TunPlaces
<1> QED
  BY <1>2, <1>3, TunMove

LEMMA TunSnapshot ==
    ASSUME FlowFits, TunInv, TW!Snapshot \/ TW!Peek
    PROVE  TunInv'
<1>1. TunShape /\ TunPlaces(consumer, expected, heap)
  BY DEF TunInv
<1>2. CASE TW!Snapshot
  <2>1. consumer.step = "snapshot" /\ UNCHANGED <<arrived, heap, expected>>
    BY <1>2 DEF TW!Snapshot, TW!At
  <2>2. consumer.held = TW!None
    BY <1>1, <2>1 DEF TunPlaces
  <2>3. CASE TW!EndRound
    BY <2>1, <2>2, <2>3, TunFlush
  <2>4. CASE /\ consumer' = [consumer EXCEPT !.step = "peek", !.progressed = FALSE]
             /\ UNCHANGED <<batch, written>>
    <3>1. /\ consumer' \in ConsumerType /\ consumer'.step = "peek"
          /\ consumer'.held = consumer.held
      BY <1>1, <2>4 DEF TunSteps, TunShape, ConsumerType
    <3>2. TunPlaces(consumer', expected', heap)
      BY <1>1, <2>1, <2>2, <3>1 DEF TunPlaces
    <3> QED
      BY <2>1, <2>4, <3>1, <3>2, TunMove
  <2> QED
    BY <1>2, <2>3, <2>4 DEF TW!Snapshot
<1>3. CASE TW!Peek
  <2>1. consumer.step = "peek" /\ UNCHANGED <<arrived, heap, expected, batch, written>>
    BY <1>3 DEF TW!Peek, TW!At
  <2>2. consumer.held = TW!None
    BY <1>1, <2>1 DEF TunPlaces
  <2>3. CASE consumer' = [consumer EXCEPT !.step = "retire"]
    <3>1. TW!Goto("retire") /\ "retire" \in TunSteps
      BY <2>3 DEF TW!Goto, TunSteps
    <3> QED
      BY <2>1, <3>1, TunGoOn
  <2>4. CASE \E p \in TW!Data :
                TW!Smallest(p) /\ consumer' = [consumer EXCEPT !.step = "expected", !.top = p]
    <3>1. PICK p \in TW!Data :
              TW!Smallest(p) /\ consumer' = [consumer EXCEPT !.step = "expected", !.top = p]
      BY <2>4
    <3>2. /\ consumer' \in ConsumerType /\ consumer'.step = "expected" /\ consumer'.top = p
          /\ consumer'.held = consumer.held
      BY <1>1, <3>1 DEF TunSteps, TunShape, ConsumerType
    <3>3. heap[p] > 0
      BY <3>1 DEF TW!Smallest, TW!Queued
    <3>4. TunPlaces(consumer', expected', heap)
      BY <1>1, <2>1, <2>2, <3>2, <3>3 DEF TunPlaces
    <3> QED
      BY <2>1, <3>2, <3>4, TunMove
  <2> QED
    BY <1>3, <2>3, <2>4 DEF TW!Peek
<1> QED
  BY <1>2, <1>3

LEMMA TunConsume ==
    ASSUME FlowFits, TunInv, TW!Consume
    PROVE  TunInv'
<1>1. {"snapshot", "peek", "retire", "deactivate", "done", "overflow", "old", "expire"}
         \subseteq TunSteps
  BY DEF TunSteps
<1>2. CASE TW!Notified
  <2>1. /\ consumer.step = "wait" /\ TW!Goto("snapshot")
        /\ UNCHANGED <<arrived, heap, batch, written, expected>>
    BY <1>2 DEF TW!Notified, TW!At
  <2> QED
    BY <1>1, <2>1, TunGoOn
<1>3. ASSUME NEW s \in {"retire", "deactivate"}, NEW to \in {"done", "peek"},
             TW!At(s), TW!Retire(to)
      PROVE  TunInv'
  <2>1. /\ consumer.step \in {"retire", "deactivate"} /\ TW!Goto(to)
        /\ UNCHANGED <<arrived, heap, batch, written, expected>>
    BY <1>3 DEF TW!Retire, TW!At
  <2> QED
    BY <1>1, <2>1, TunGoOn
<1>4. CASE TW!CheckBacklog
  <2>1. PICK s \in {"overflow", "old"} :
            /\ consumer.step = "backlog" /\ TW!Goto(s)
            /\ UNCHANGED <<arrived, heap, batch, written, expected>>
    BY <1>4 DEF TW!CheckBacklog, TW!At
  <2> QED
    BY <1>1, <2>1, TunGoOn
<1>5. CASE TW!CheckEmpty
  <2>1. PICK s \in {"deactivate", "peek"} :
            /\ consumer.step = "empty" /\ TW!Goto(s)
            /\ UNCHANGED <<arrived, heap, batch, written, expected>>
    BY <1>5 DEF TW!CheckEmpty, TW!At
  <2> QED
    BY <1>1, <2>1, TunGoOn
<1>6. CASE TW!ConsultDeadline
  <2>1. PICK s \in {"expire", "done"} :
            /\ consumer.step = "gap" /\ TW!Goto(s)
            /\ UNCHANGED <<arrived, heap, batch, written, expected>>
    BY <1>6 DEF TW!ConsultDeadline, TW!At
  <2> QED
    BY <1>1, <2>1, TunGoOn
<1>7. CASE TW!FlowDone
  <2>1. consumer.step = "done" /\ UNCHANGED <<arrived, heap, expected>>
    BY <1>7 DEF TW!FlowDone, TW!At
  <2>2. CASE TW!Goto("snapshot") /\ UNCHANGED <<batch, written>>
    BY <1>1, <2>1, <2>2, TunGoOn
  <2>3. CASE TW!EndRound
    <3>1. consumer.held = TW!None
      BY <2>1 DEF TunInv, TunPlaces
    <3> QED
      BY <2>1, <2>3, <3>1, TunFlush
  <2> QED
    BY <1>7, <2>2, <2>3 DEF TW!FlowDone
<1> QED
  BY <1>2, <1>3, <1>4, <1>5, <1>6, <1>7, TunSnapshot, TunReadExpected, TunWriteStale, TunJudge,
     TunGiveUp, TunPopDue, TunReadNext, TunWriteDue, TunDiscardOld DEF TW!Consume

LEMMA TunInit ==
    ASSUME FlowFits, TW!Init
    PROVE  TunInv
<1>1. /\ arrived = [p \in TW!Packets |-> 0] /\ heap = [p \in TW!Data |-> 0]
      /\ batch = << >> /\ written = << >> /\ expected = TW!None
      /\ consumer = TW!Waiting
  BY DEF TW!Init
<1>2. consumer \in ConsumerType /\ consumer.step = "wait" /\ consumer.held = TW!None
  BY <1>1 DEF TW!Waiting, ConsumerType, TunSteps, TW!None
<1>3. TW!None \notin TW!Data /\ TW!Data \subseteq TW!Packets
  BY PlacesFit DEF TW!Data, TW!Packets, TW!SYN, TW!FIN, TW!None
<1>4. TunShape
  BY <1>1, <1>2 DEF TunShape
<1>5. ASSUME NEW p \in TW!Data PROVE arrived[p] = heap[p] + Behind(p, consumer, batch, written)
  <2>1. arrived[p] = 0 /\ heap[p] = 0 /\ Found(p, consumer.held) = 0
    BY <1>1, <1>2, <1>3 DEF Found
  <2>2. TW!Occurrences(p, batch) = 0 /\ TW!Occurrences(p, written) = 0
    BY <1>1, OccurrencesNone
  <2> QED
    BY <2>1, <2>2 DEF Behind
<1>6. TunPlaces(consumer, expected, heap)
  BY <1>1, <1>2 DEF TunPlaces
<1> QED
  BY <1>4, <1>5, <1>6 DEF TunInv, Balanced

LEMMA TunStep ==
    ASSUME FlowFits, TunInv, [TW!Next]_(TW!vars)
    PROVE  TunInv'
<1>1. CASE UNCHANGED TW!vars
  BY <1>1, TunQuietStep DEF TW!vars
<1>2. CASE \E p \in TW!Packets : TW!Receive(p)
  BY <1>2, TunReceiveStep
<1>3. CASE TW!Activate \/ TW!NotifyOne \/ TW!DeadlinePasses \/ TW!TimerFires
  <2>1. UNCHANGED <<arrived, heap, batch, written, consumer, expected>>
    BY <1>3 DEF TW!Activate, TW!NotifyOne, TW!DeadlinePasses, TW!TimerFires
  <2> QED
    BY <2>1, TunQuietStep
<1>4. CASE TW!Consume
  BY <1>4, TunConsume
<1> QED
  BY <1>1, <1>2, <1>3, <1>4 DEF TW!Next

\* The producer and the consumer of writer.rs: whatever is retransmitted, however
\* the sequence numbers wrap and whoever moves the expectation in between, each
\* data packet that arrived is in the heap, in hand, batched, or written, as often
\* as it arrived.
THEOREM NothingIsDropped ==
    ASSUME FlowFits
    PROVE  TW!Spec => []TW!NothingDropped
<1>1. TW!Init => TunInv
  BY TunInit
<1>2. TunInv /\ [TW!Next]_(TW!vars) => TunInv'
  BY TunStep
<1>3. TunInv => TW!NothingDropped
  <2>1. ASSUME TunInv, NEW p \in TW!Data
        PROVE  arrived[p] = heap[p] + (IF consumer.held = p THEN 1 ELSE 0)
                     + TW!Occurrences(p, batch) + TW!Occurrences(p, written)
    <3>1. arrived[p] = heap[p] + Behind(p, consumer, batch, written)
      BY <2>1 DEF TunInv, Balanced
    <3>2. /\ TW!Occurrences(p, batch) \in Nat /\ TW!Occurrences(p, written) \in Nat
          /\ heap[p] \in Nat /\ Found(p, consumer.held) \in Nat
          /\ Found(p, consumer.held) = IF consumer.held = p THEN 1 ELSE 0
      BY <2>1, OccurrencesType DEF TunInv, TunShape, Found
    <3> QED
      BY <3>1, <3>2 DEF Behind
  <2> QED
    BY <2>1 DEF TW!NothingDropped
<1> QED
  BY <1>1, <1>2, <1>3, PTL DEF TW!Spec

-----------------------------------------------------------------------------
(* In order, until a gap is given up *)

\* The order is promised as long as nothing of this happens.
Clean == tolerances.enforce /\ ~forced /\ ~TW!Resent /\ arrived[TW!FIN] = 0

\* What was written and batched is the beginning of the flow, and the
\* expectation lies right behind it.
OrderPlaces(c, e, out, syn) ==
    LET n == Len(out) IN
    /\ n <= Len(Sizes) /\ \A i \in 1 .. n : out[i] = i
    /\ syn = 0 <=> e = TW!None
    /\ e = TW!None =>
          /\ n = 0
          /\ c.step \notin {"stale", "backlog", "overflow", "pop", "next", "advance", "old", "gap", "expire"}
    /\ e # TW!None => At(e, TW!Offset[n + 1])
    /\ c.step \in {"stale", "pop"} => c.expected = e
    /\ c.step = "pop" => c.top = n + 1
    /\ c.step \in {"next", "advance"} => c.held = n + 1
    /\ c.step = "advance" => At(c.expected, TW!Offset[n + 2])

OrderInv == Clean => OrderPlaces(consumer, expected, written \o batch, arrived[TW!SYN])

LEMMA CleanBefore ==
    ASSUME FlowFits, TunShape, TunShape', tolerances' = tolerances, forced => forced',
           \A p \in TW!Packets : arrived[p] <= arrived'[p],
           Clean'
    PROVE  Clean /\ arrived'[TW!FIN] = 0 /\ \A p \in TW!Packets : arrived'[p] <= 1
<1>1. TW!FIN \in TW!Packets /\ arrived[TW!FIN] \in Nat
  <2>1. TW!FIN \in TW!Packets
    BY PlacesFit DEF TW!Packets, TW!SYN
  <2> QED
    BY <2>1 DEF TunShape
<1>2. arrived'[TW!FIN] = 0 /\ \A p \in TW!Packets : ~(arrived'[p] > 1)
  BY DEF Clean, TW!Resent
<1>3. \A p \in TW!Packets : arrived[p] \in Nat /\ arrived'[p] \in Nat
  BY DEF TunShape
<1>4. arrived[TW!FIN] = 0
  BY <1>1, <1>2
<1>5. \A p \in TW!Packets : ~(arrived[p] > 1)
  BY <1>2, <1>3
<1>6. \A p \in TW!Packets : arrived'[p] <= 1
  BY <1>2, <1>3
<1> QED
  BY <1>2, <1>4, <1>5, <1>6 DEF Clean, TW!Resent

\* The places of all packets but the SYN
LEMMA OffsetsFit ==
    ASSUME FlowFits
    PROVE  /\ TW!FIN = Len(Sizes) + 1 /\ Len(Sizes) \in Nat /\ Half \in Nat
           /\ TW!Offset[1] = 1
           /\ \A p \in 1 .. TW!FIN : TW!Offset[p] \in 1 .. Half
           /\ \A p, q \in 1 .. TW!FIN : p < q => TW!Offset[p] < TW!Offset[q]
           /\ \A p \in TW!Data : TW!Offset[p + 1] = TW!Offset[p] + Sizes[p]
<1>1. Sizes \in Seq(Nat \ {0}) /\ TW!FIN = Len(Sizes) + 1 /\ Len(Sizes) \in Nat /\ Half \in Nat
      /\ Inside \in 1 .. Half
  BY PlacesFit DEF FlowFits
<1>2. Adding(TW!Offset, TW!FIN)
  BY <1>1, OffsetIs
<1>3. PICK f, n, l : f = TW!Offset /\ n = TW!FIN /\ l = Len(Sizes)
  OBVIOUS
<1>4. /\ f \in [1 .. n -> Nat] /\ f[1] = 1 /\ n = l + 1 /\ l \in Nat
      /\ \A p \in 2 .. n : f[p] = f[p - 1] + Sizes[p - 1]
  BY <1>1, <1>2, <1>3 DEF Adding
<1>5. \A p \in 1 .. l : Sizes[p] \in Nat /\ Sizes[p] > 0
  <2>1. \A p \in 1 .. Len(Sizes) : Sizes[p] \in Nat \ {0}
    BY <1>1, ElementOfSeq
  <2> QED
    BY <1>3, <2>1
<1>6. \A p, q \in 1 .. n : p < q => f[p] + Sizes[p] <= f[q]
  BY <1>1, <1>3, PlacesGrow
<1>7. ASSUME NEW p \in 1 .. n, NEW q \in 1 .. n, p < q PROVE f[p] < f[q]
  <2>1. f[p] + Sizes[p] <= f[q]
    BY <1>6, <1>7
  <2>2. p \in 1 .. l
    BY <1>4, <1>7
  <2>3. Sizes[p] \in Nat /\ Sizes[p] > 0 /\ f[p] \in Nat /\ f[q] \in Nat
    BY <1>4, <1>5, <2>2
  <2> QED
    BY <2>1, <2>3
<1>8. f[n] + 1 = Inside
  BY <1>3 DEF Inside
<1>9. ASSUME NEW p \in 1 .. n PROVE f[p] \in 1 .. Half
  <2>1. 1 \in 1 .. n /\ n \in 1 .. n
    BY <1>4
  <2>2. p # 1 => f[1] < f[p]
    BY <1>4, <1>7, <2>1
  <2>3. p # n => f[p] < f[n]
    BY <1>4, <1>7, <2>1
  <2>4. f[p] \in Nat /\ f[n] \in Nat /\ f[1] = 1
    BY <1>4, <2>1
  <2>5. f[p] >= 1
    BY <2>2, <2>4
  <2>6. f[p] <= f[n]
    BY <2>3, <2>4
  <2>7. f[n] + 1 <= Half
    BY <1>1, <1>8
  <2> QED
    BY <1>1, <2>4, <2>5, <2>6, <2>7
<1>10. ASSUME NEW p \in TW!Data PROVE f[p + 1] = f[p] + Sizes[p]
  <2>1. PICK q : q = p + 1
    OBVIOUS
  <2>2. q \in 2 .. n /\ q - 1 = p
    BY <1>3, <1>4, <2>1 DEF TW!Data
  <2> QED
    BY <1>4, <2>1, <2>2
<1> QED
  BY <1>1, <1>3, <1>4, <1>7, <1>9, <1>10

\* A number has one place.
LEMMA OnePlace ==
    ASSUME FlowFits, NEW e, NEW a \in 1 .. Half, NEW b \in 1 .. Half, At(e, a), At(e, b)
    PROVE  a = b
<1>1. Space \in Nat \ {0} /\ Start \in Nat /\ Half \in Nat
  BY PlacesFit DEF FlowFits
<1>2. TW!SeqLess(e, e) <=> a < b
  BY <1>1, SeqLessIs
<1>3. TW!SeqLess(e, e) <=> b < a
  BY <1>1, SeqLessIs
<1> QED
  BY <1>1, <1>2, <1>3

\* What was written has arrived, and only once.
LEMMA QueuedBehind ==
    ASSUME FlowFits, TunShape, Balanced(arrived, heap, consumer, batch, written),
           \A p \in TW!Packets : arrived[p] <= 1,
           NEW n \in Nat, n = Len(written \o batch), n <= Len(Sizes),
           \A i \in 1 .. n : (written \o batch)[i] = i,
           NEW p \in TW!Queued
    PROVE  p > n /\ p \in TW!Data
<1>1. p \in TW!Data /\ heap[p] > 0 /\ TW!Data \subseteq TW!Packets
  BY PlacesFit DEF TW!Queued, TW!Data, TW!Packets, TW!SYN, TW!FIN
<1>2. p \in Nat
  BY <1>1, PlacesFit DEF TW!Data
<1>3. SUFFICES ASSUME p <= n PROVE FALSE
  BY <1>1, <1>2
<1>4. p \in 1 .. n
  BY <1>1, <1>2, <1>3 DEF TW!Data
<1>5. PICK out : out = written \o batch
  OBVIOUS
<1>6. out \in Seq(TW!Data)
  BY <1>5, ConcatProperties DEF TunShape
<1>7. TW!Occurrences(p, out) # 0
  <2>1. p \in {i \in 1 .. Len(out) : out[i] = p}
    BY <1>4, <1>5
  <2>2. IsFiniteSet({i \in 1 .. Len(out) : out[i] = p})
    <3>1. IsFiniteSet(1 .. Len(out))
      <4>1. Len(out) \in Nat
        BY <1>6, LenProperties
      <4> QED
        BY <4>1, FS_Interval
    <3>2. {i \in 1 .. Len(out) : out[i] = p} \subseteq 1 .. Len(out)
      OBVIOUS
    <3> QED
      BY <3>1, <3>2, FS_Subset
  <2>3. {i \in 1 .. Len(out) : out[i] = p} # {}
    BY <2>1
  <2>4. Cardinality({i \in 1 .. Len(out) : out[i] = p}) # 0
    BY <2>2, <2>3, FS_EmptySet
  <2> QED
    BY <2>4, OccurrencesIs
<1>8. TW!Occurrences(p, out) = TW!Occurrences(p, written) + TW!Occurrences(p, batch)
  BY <1>5, OccurrencesConcat DEF TunShape
<1>9. /\ TW!Occurrences(p, written) \in Nat /\ TW!Occurrences(p, batch) \in Nat
      /\ Found(p, consumer.held) \in Nat /\ heap[p] \in Nat /\ arrived[p] \in Nat
  BY <1>1, OccurrencesType DEF TunShape, Found
<1>10. arrived[p] = heap[p] + Behind(p, consumer, batch, written) /\ arrived[p] <= 1
  BY <1>1 DEF Balanced
<1> QED
  BY <1>1, <1>7, <1>8, <1>9, <1>10 DEF Behind

LEMMA PacketsRegrouped ==
    ASSUME NEW x \in Seq(TW!Data), NEW y \in Seq(TW!Data), NEW z \in Seq(TW!Data)
    PROVE  (x \o y) \o z = x \o (y \o z)
BY ConcatAssociative, SMTT(30)

LEMMA EmitAppends ==
    ASSUME batch \in Seq(TW!Data), written \in Seq(TW!Data), NEW q \in TW!Data, TW!Emit(q)
    PROVE  written' \o batch' = Append(written \o batch, q)
<1>1. PICK b : b = Append(batch, q)
  OBVIOUS
<1>2. \/ written' = written \o b /\ batch' = << >>
      \/ written' = written /\ batch' = b
  BY <1>1 DEF TW!Emit
<1>3. /\ <<q>> \in Seq(TW!Data) /\ b \in Seq(TW!Data) /\ written \o b \in Seq(TW!Data)
      /\ written \o batch \in Seq(TW!Data)
  BY <1>1, SingleMessage, AppendProperties, ConcatProperties
<1>4. b = batch \o <<q>> /\ Append(written \o batch, q) = (written \o batch) \o <<q>>
  BY <1>1, <1>3, AppendIsConcat
<1>5. (written \o batch) \o <<q>> = written \o (batch \o <<q>>)
  BY <1>3, PacketsRegrouped, SMTT(30)
<1>6. (written \o b) \o << >> = written \o b
  BY <1>3, ConcatEmptySeq
<1> QED
  BY <1>2, <1>4, <1>5, <1>6

LEMMA FlushKeeps ==
    ASSUME batch \in Seq(TW!Data), written \in Seq(TW!Data), TW!EndRound
    PROVE  written' \o batch' = written \o batch
<1>1. written' = written \o batch /\ batch' = << >>
  BY DEF TW!EndRound
<1>2. written \o batch \in Seq(TW!Data)
  BY ConcatProperties
<1>3. (written \o batch) \o << >> = written \o batch
  BY <1>2, ConcatEmptySeq
<1> QED
  BY <1>1, <1>3

LateSteps == {"backlog", "overflow", "old", "gap", "expire"}

\* Steps that neither write nor move the expectation
LEMMA WriteOrderKept ==
    ASSUME FlowFits, TunShape, TunShape', OrderInv,
           UNCHANGED <<tolerances, arrived, expected>>, forced => forced',
           written' \o batch' = written \o batch,
           \/ consumer' = consumer
           \/ /\ consumer'.step \notin {"stale", "pop", "next", "advance"}
              /\ consumer'.step \in LateSteps => consumer.step \in LateSteps
    PROVE  OrderInv'
<1>1. SUFFICES ASSUME Clean'
               PROVE  OrderPlaces(consumer', expected', written' \o batch', arrived'[TW!SYN])
  BY DEF OrderInv
<1>2. \A p \in TW!Packets : arrived[p] <= arrived'[p]
  BY DEF TunShape
<1>3. Clean
  BY <1>1, <1>2, CleanBefore
<1>4. PICK out : out = written \o batch
  OBVIOUS
<1>5. OrderPlaces(consumer, expected, out, arrived[TW!SYN])
  BY <1>3, <1>4 DEF OrderInv
<1>6. OrderPlaces(consumer', expected, out, arrived[TW!SYN])
  BY <1>5 DEF OrderPlaces, LateSteps
<1> QED
  BY <1>4, <1>6

LEMMA OrderReceive ==
    ASSUME FlowFits, TunShape, TunShape', OrderInv, NEW q \in TW!Packets, TW!Receive(q)
    PROVE  OrderInv'
<1>1. SUFFICES ASSUME Clean'
               PROVE  OrderPlaces(consumer', expected', written' \o batch', arrived'[TW!SYN])
  BY DEF OrderInv
<1>2. /\ arrived' = [arrived EXCEPT ![q] = @ + 1]
      /\ UNCHANGED <<tolerances, consumer, batch, forced>>
  BY DEF TW!Receive
<1>3. \A p \in TW!Packets : arrived[p] \in Nat
  BY DEF TunShape
<1>4. /\ arrived'[q] = arrived[q] + 1 /\ \A p \in TW!Packets : p # q => arrived'[p] = arrived[p]
      /\ \A p \in TW!Packets : arrived[p] <= arrived'[p]
  BY <1>2, <1>3 DEF TunShape
<1>5. Clean /\ arrived'[TW!FIN] = 0 /\ arrived'[q] <= 1 /\ tolerances.enforce
  BY <1>1, <1>2, <1>4, CleanBefore DEF Clean
<1>6. q # TW!FIN /\ arrived[q] = 0 /\ ~TW!WriteThrough(q)
  BY <1>3, <1>4, <1>5 DEF TW!WriteThrough
<1>7. PICK out : out = written \o batch
  OBVIOUS
<1>8. OrderPlaces(consumer, expected, out, arrived[TW!SYN])
  BY <1>5, <1>7 DEF OrderInv
<1>9. TW!SYN \in TW!Packets /\ TW!SYN \notin TW!Data
  BY PlacesFit DEF TW!Packets, TW!Data, TW!SYN, TW!FIN
<1>10. CASE q = TW!SYN /\ TW!ReceiveSyn
  <2>1. /\ expected = TW!None /\ Len(out) = 0
        /\ consumer.step \notin {"stale", "backlog", "overflow", "pop", "next", "advance", "old", "gap", "expire"}
    BY <1>6, <1>8, <1>10 DEF OrderPlaces
  <2>2. expected' = (TW!SeqNum(TW!SYN) + 1) % Space /\ written' = written
    BY <1>10 DEF TW!ReceiveSyn
  <2>3. At(expected', 1)
    <3>1. TW!SeqNum(TW!SYN) = (Start + 0) % Space /\ Space \in Nat \ {0} /\ Start \in Nat
      BY PlacesFit DEF FlowFits
    <3>2. Start + 0 \in Int /\ 1 \in Int
      BY <3>1
    <3>3. (((Start + 0) % Space) + 1) % Space = ((Start + 0) + 1) % Space
      BY <3>1, <3>2, SumOfPlaces, Zenon
    <3>4. (Start + 0) + 1 = Start + 1
      BY <3>1
    <3>5. expected' = (Start + 1) % Space
      BY <2>2, <3>1, <3>3, <3>4
    <3> QED
      BY <3>5 DEF At
  <2>4. expected' # TW!None
    <3>1. Located(expected', 1)
      BY <2>3 DEF Located
    <3> QED
      BY <3>1, LocatedIsNumber
  <2>5. arrived'[TW!SYN] # 0
    BY <1>3, <1>4, <1>10
  <2>6. TW!Offset[1] = 1 /\ Len(Sizes) \in Nat
    BY OffsetsFit
  <2>7. Len(out) + 1 = 1
    BY <2>1
  <2>8. At(expected', TW!Offset[Len(out) + 1])
    BY <2>3, <2>6, <2>7
  <2>9. OrderPlaces(consumer, expected', out, arrived'[TW!SYN])
    BY <1>8, <2>1, <2>4, <2>5, <2>8 DEF OrderPlaces
  <2> QED
    BY <1>2, <1>7, <2>2, <2>9
<1>11. CASE q \in TW!Data /\ TW!PushData(q)
  <2>1. expected' = expected /\ written' = written /\ arrived'[TW!SYN] = arrived[TW!SYN]
    BY <1>4, <1>9, <1>11 DEF TW!PushData
  <2> QED
    BY <1>2, <1>7, <1>8, <2>1
<1> QED
  BY <1>6, <1>10, <1>11 DEF TW!Receive

LEMMA OrderReadExpected ==
    ASSUME FlowFits, TunShape, TunShape', OrderInv, TW!ReadExpected
    PROVE  OrderInv'
<1>1. SUFFICES ASSUME Clean'
               PROVE  OrderPlaces(consumer', expected', written' \o batch', arrived'[TW!SYN])
  BY DEF OrderInv
<1>2. /\ UNCHANGED <<tolerances, arrived, batch, written>>
      /\ forced' = (forced \/ expected = TW!None)
      /\ expected' = IF expected = TW!None THEN TW!SeqNum(consumer.top) ELSE expected
      /\ consumer' = [consumer EXCEPT !.step = "stale", !.expected = expected']
  BY DEF TW!ReadExpected
<1>3. \A p \in TW!Packets : arrived[p] <= arrived'[p]
  BY <1>2 DEF TunShape
<1>4. Clean /\ expected # TW!None /\ expected' = expected
  BY <1>1, <1>2, <1>3, CleanBefore DEF Clean
<1>5. consumer'.step = "stale" /\ consumer'.expected = expected
  BY <1>2, <1>4 DEF TunShape, ConsumerType
<1>6. PICK out : out = written \o batch
  OBVIOUS
<1>7. OrderPlaces(consumer, expected, out, arrived[TW!SYN])
  BY <1>4, <1>6 DEF OrderInv
<1>8. OrderPlaces(consumer', expected, out, arrived[TW!SYN])
  BY <1>4, <1>5, <1>7 DEF OrderPlaces
<1> QED
  BY <1>2, <1>4, <1>6, <1>8

\* What the invariants say of a clean flow at a step that waits for a number
LEMMA CleanFacts ==
    ASSUME FlowFits, TunInv, OrderInv, Clean
    PROVE  LET n == Len(written \o batch) IN
           /\ n \in Nat /\ n <= Len(Sizes) /\ n + 1 \in 1 .. TW!FIN
           /\ \A p \in TW!Queued : p > n /\ p \in TW!Data
           /\ OrderPlaces(consumer, expected, written \o batch, arrived[TW!SYN])
<1>1. TunShape /\ Balanced(arrived, heap, consumer, batch, written)
  BY DEF TunInv
<1>2. PICK out, n : out = written \o batch /\ n = Len(out)
  OBVIOUS
<1>3. OrderPlaces(consumer, expected, out, arrived[TW!SYN])
  BY <1>2 DEF OrderInv
<1>4. out \in Seq(TW!Data) /\ n \in Nat
  BY <1>1, <1>2, ConcatProperties, LenProperties DEF TunShape
<1>5. n <= Len(Sizes) /\ \A i \in 1 .. n : out[i] = i
  BY <1>2, <1>3 DEF OrderPlaces
<1>6. \A p \in TW!Packets : arrived[p] <= 1
  BY <1>1 DEF Clean, TW!Resent, TunShape
<1>7. \A p \in TW!Queued : p > n /\ p \in TW!Data
  BY <1>1, <1>2, <1>4, <1>5, <1>6, QueuedBehind
<1>8. n + 1 \in 1 .. TW!FIN
  BY <1>4, <1>5, PlacesFit
<1> QED
  BY <1>2, <1>3, <1>4, <1>5, <1>7, <1>8

\* In a clean flow no packet in the heap is stale.
LEMMA NeverStale ==
    ASSUME FlowFits, TunInv, OrderInv, Clean, TW!WriteStale
    PROVE  FALSE
<1>1. PICK p \in TW!Data : TW!Smallest(p) /\ TW!SeqLess(TW!SeqNum(p), consumer.expected)
  BY DEF TW!WriteStale
<1>2. consumer.step = "stale"
  BY DEF TW!WriteStale, TW!At
<1>3. PICK n : n = Len(written \o batch)
  OBVIOUS
<1>4. /\ n \in Nat /\ n + 1 \in 1 .. TW!FIN
      /\ \A q \in TW!Queued : q > n /\ q \in TW!Data
      /\ OrderPlaces(consumer, expected, written \o batch, arrived[TW!SYN])
  BY <1>3, CleanFacts
<1>5. At(consumer.expected, TW!Offset[n + 1])
  BY <1>2, <1>3, <1>4 DEF OrderPlaces
<1>6. p \in TW!Queued
  BY <1>1 DEF TW!Smallest
<1>7. p > n /\ p \in 1 .. TW!FIN /\ p \in Nat
  BY <1>1, <1>4, <1>6, PlacesFit DEF TW!Data
<1>8. PICK m : m = n + 1
  OBVIOUS
<1>9. p = m \/ m < p
  BY <1>4, <1>7, <1>8
<1>10. /\ TW!Offset[m] \in 1 .. Half /\ Half \in Nat /\ TW!Offset[p] \in 1 .. Half
       /\ m < p => TW!Offset[m] < TW!Offset[p]
  BY <1>4, <1>7, <1>8, OffsetsFit
<1>11. TW!SeqLess(TW!SeqNum(p), consumer.expected) <=> TW!Offset[p] < TW!Offset[m]
  <2>1. At(TW!SeqNum(p), TW!Offset[p])
    BY <1>1, DataLocated
  <2>2. At(consumer.expected, TW!Offset[m])
    BY <1>5, <1>8
  <2>3. Space \in Nat \ {0} /\ Start \in Nat
    BY DEF FlowFits
  <2> QED
    BY <1>10, <2>1, <2>2, <2>3, SeqLessIs
<1>12. TW!Offset[p] < TW!Offset[m]
  BY <1>1, <1>11
<1>13. PICK a, b : a = TW!Offset[p] /\ b = TW!Offset[m]
  OBVIOUS
<1>14. a \in Nat /\ b \in Nat /\ a < b /\ (p = m => a = b) /\ (m < p => b < a)
  BY <1>10, <1>12, <1>13
<1> QED
  BY <1>9, <1>14

\* A step of the consumer leaves the environment's promises alone.
LEMMA OrderJudge ==
    ASSUME FlowFits, TunInv, TunShape', OrderInv, TW!Judge
    PROVE  OrderInv'
<1>1. SUFFICES ASSUME Clean'
               PROVE  OrderPlaces(consumer', expected', written' \o batch', arrived'[TW!SYN])
  BY DEF OrderInv
<1>2. /\ UNCHANGED <<tolerances, arrived, batch, written, expected, forced>>
      /\ consumer.step = "stale"
      /\ TW!Goto(IF TW!SeqNum(consumer.top) = consumer.expected THEN "pop" ELSE "backlog")
  BY DEF TW!Judge, TW!At
<1>3. TunShape /\ TunPlaces(consumer, expected, heap)
  BY DEF TunInv
<1>4. Clean
  BY <1>1, <1>2 DEF Clean, TW!Resent
<1>5. PICK out, n : out = written \o batch /\ n = Len(out)
  OBVIOUS
<1>6. n \in Nat /\ n + 1 \in 1 .. TW!FIN /\ OrderPlaces(consumer, expected, out, arrived[TW!SYN])
  BY <1>4, <1>5, CleanFacts
<1>7. /\ consumer.expected = expected /\ expected # TW!None /\ At(expected, TW!Offset[n + 1])
      /\ consumer.top \in TW!Data
  BY <1>2, <1>3, <1>5, <1>6 DEF OrderPlaces, TunPlaces
<1>8. CASE TW!SeqNum(consumer.top) = consumer.expected
  <2>1. TW!Goto("pop")
    BY <1>2, <1>8
  <2>2. /\ consumer'.step = "pop" /\ consumer'.top = consumer.top
        /\ consumer'.held = consumer.held /\ consumer'.expected = consumer.expected
    BY <1>3, <2>1, GotoFields DEF TunSteps, TunShape
  <2>3. PICK t, m : t = consumer.top /\ m = n + 1
    OBVIOUS
  <2>4. t \in 1 .. TW!FIN /\ m \in 1 .. TW!FIN
    BY <1>6, <1>7, <2>3, PlacesFit DEF TW!Data
  <2>5. At(expected, TW!Offset[t]) /\ At(expected, TW!Offset[m])
    BY <1>7, <1>8, <2>3, DataLocated
  <2>6. /\ TW!Offset[t] \in 1 .. Half /\ TW!Offset[m] \in 1 .. Half /\ Half \in Nat
        /\ t < m => TW!Offset[t] < TW!Offset[m]
        /\ m < t => TW!Offset[m] < TW!Offset[t]
    BY <2>4, OffsetsFit
  <2>7. TW!Offset[t] = TW!Offset[m]
    BY <2>5, <2>6, OnePlace
  <2>8. PICK a : a = TW!Offset[t]
    OBVIOUS
  <2>9. a \in Nat /\ ~(t < m) /\ ~(m < t)
    BY <2>6, <2>7, <2>8
  <2>10. t = m
    BY <1>6, <2>4, <2>9, PlacesFit
  <2>11. OrderPlaces(consumer', expected, out, arrived[TW!SYN])
    BY <1>5, <1>6, <1>7, <2>2, <2>3, <2>10 DEF OrderPlaces
  <2> QED
    BY <1>2, <1>5, <2>11
<1>9. CASE TW!SeqNum(consumer.top) # consumer.expected
  <2>1. TW!Goto("backlog")
    BY <1>2, <1>9
  <2>2. consumer'.step = "backlog"
    BY <1>3, <2>1, GotoFields DEF TunSteps, TunShape
  <2>3. OrderPlaces(consumer', expected, out, arrived[TW!SYN])
    BY <1>6, <1>7, <2>2 DEF OrderPlaces
  <2> QED
    BY <1>2, <1>5, <2>3
<1> QED
  BY <1>8, <1>9

LEMMA OrderPopDue ==
    ASSUME FlowFits, TunInv, OrderInv, TW!PopDue
    PROVE  OrderInv'
<1>1. SUFFICES ASSUME Clean'
               PROVE  OrderPlaces(consumer', expected', written' \o batch', arrived'[TW!SYN])
  BY DEF OrderInv
<1>2. /\ UNCHANGED <<tolerances, arrived, batch, written, expected, forced>>
      /\ consumer.step = "pop"
  BY DEF TW!PopDue, TW!At
<1>3. TunShape /\ TunPlaces(consumer, expected, heap)
  BY DEF TunInv
<1>4. Clean
  BY <1>1, <1>2 DEF Clean, TW!Resent
<1>5. PICK out, n : out = written \o batch /\ n = Len(out)
  OBVIOUS
<1>6. /\ n \in Nat /\ OrderPlaces(consumer, expected, out, arrived[TW!SYN])
      /\ \A p \in TW!Queued : p > n /\ p \in TW!Data
  BY <1>4, <1>5, CleanFacts
<1>7. PICK q \in TW!Data : TW!Smallest(q) /\ consumer' = [consumer EXCEPT !.step = "next", !.held = q]
  BY DEF TW!PopDue
<1>8. PICK t : t = consumer.top
  OBVIOUS
<1>9. t = n + 1 /\ t \in TW!Queued
  BY <1>2, <1>3, <1>5, <1>6, <1>8 DEF OrderPlaces, TunPlaces, TW!Queued
<1>10. q = t
  <2>1. SUFFICES ASSUME q # t PROVE FALSE
    OBVIOUS
  <2>2. q \in TW!Queued /\ TW!SeqLess(TW!SeqNum(q), TW!SeqNum(t)) /\ t \in TW!Data
    BY <1>6, <1>7, <1>9, <2>1 DEF TW!Smallest
  <2>3. q > n /\ q \in Nat /\ t \in Nat
    BY <1>6, <2>2, PlacesFit DEF TW!Data
  <2>4. t < q
    BY <1>6, <1>9, <2>1, <2>3
  <2>5. TW!Offset[q] < TW!Offset[t] /\ TW!Offset[t] < TW!Offset[q]
    BY <2>2, <2>4, DataInOrder
  <2>6. TW!Offset[q] \in 1 .. Half /\ TW!Offset[t] \in 1 .. Half /\ Half \in Nat
    BY <2>2, PlacesFit
  <2> QED
    BY <2>5, <2>6
<1>11. consumer'.step = "next" /\ consumer'.held = t
  BY <1>3, <1>7, <1>10 DEF TunShape, ConsumerType
<1>12. OrderPlaces(consumer', expected, out, arrived[TW!SYN])
  BY <1>2, <1>5, <1>6, <1>9, <1>11 DEF OrderPlaces
<1> QED
  BY <1>2, <1>5, <1>12

LEMMA OrderReadNext ==
    ASSUME FlowFits, TunInv, OrderInv, TW!ReadNext
    PROVE  OrderInv'
<1>1. SUFFICES ASSUME Clean'
               PROVE  OrderPlaces(consumer', expected', written' \o batch', arrived'[TW!SYN])
  BY DEF OrderInv
<1>2. /\ UNCHANGED <<tolerances, arrived, batch, written, expected, forced>>
      /\ consumer.step = "next"
      /\ consumer' = [consumer EXCEPT !.step = "advance",
                        !.expected = (expected + TW!PayloadLen(consumer.held)) % Space]
  BY DEF TW!ReadNext, TW!At
<1>3. TunShape /\ TunPlaces(consumer, expected, heap)
  BY DEF TunInv
<1>4. Clean
  BY <1>1, <1>2 DEF Clean, TW!Resent
<1>5. PICK out, n : out = written \o batch /\ n = Len(out)
  OBVIOUS
<1>6. n \in Nat /\ OrderPlaces(consumer, expected, out, arrived[TW!SYN])
  BY <1>4, <1>5, CleanFacts
<1>7. PICK q : q = n + 1
  OBVIOUS
<1>8. /\ consumer.held = q /\ q \in TW!Data /\ expected # TW!None
      /\ At(expected, TW!Offset[q])
  <2>1. consumer.held = q /\ expected # TW!None /\ At(expected, TW!Offset[n + 1])
    BY <1>2, <1>5, <1>6, <1>7 DEF OrderPlaces
  <2>2. consumer.held # TW!None /\ consumer.held \in TW!Data \cup {TW!None}
    BY <1>2, <1>3 DEF TunPlaces, TunShape, ConsumerType
  <2> QED
    BY <1>7, <2>1, <2>2
<1>9. PICK k, l, m : k = TW!Offset[q] /\ l = Sizes[q] /\ m = TW!Offset[q + 1]
  OBVIOUS
<1>10. /\ k \in Nat /\ l \in Nat /\ m = k + l /\ TW!PayloadLen(q) = l
       /\ Space \in Nat \ {0} /\ Start \in Nat
  <2>1. TW!Offset[q] \in 1 .. Half /\ Half \in Nat /\ Sizes[q] \in Nat
    BY <1>8, PlacesFit
  <2>2. TW!Offset[q + 1] = TW!Offset[q] + Sizes[q]
    BY <1>8, OffsetsFit
  <2> QED
    BY <1>8, <1>9, <2>1, <2>2 DEF TW!PayloadLen, FlowFits
<1>11. PICK a, x : a = Start + k /\ x = (expected + l) % Space
  OBVIOUS
<1>12. a \in Int /\ l \in Int /\ expected = a % Space /\ a + l = Start + m
  <2>1. a \in Int /\ l \in Int /\ a + l = Start + m
    BY <1>10, <1>11
  <2>2. expected = a % Space
    BY <1>8, <1>9, <1>11 DEF At
  <2> QED
    BY <2>1, <2>2
<1>13. ((a % Space) + l) % Space = (a + l) % Space
  BY <1>10, <1>12, SumOfPlaces
<1>14. At(x, m)
  <2>1. m \in Nat
    BY <1>10
  <2>2. x = (Start + m) % Space
    BY <1>11, <1>12, <1>13
  <2> QED
    BY <2>1, <2>2 DEF At
<1>15. consumer'.step = "advance" /\ consumer'.expected = x /\ consumer'.held = q
  BY <1>2, <1>3, <1>8, <1>10, <1>11 DEF TunShape, ConsumerType
<1>16. q + 1 = n + 2
  BY <1>6, <1>7
<1>17. At(consumer'.expected, TW!Offset[n + 2])
  BY <1>9, <1>14, <1>15, <1>16
<1>18. OrderPlaces(consumer', expected, out, arrived[TW!SYN])
  BY <1>5, <1>6, <1>7, <1>8, <1>15, <1>17 DEF OrderPlaces
<1> QED
  BY <1>2, <1>5, <1>18

LEMMA OrderWriteDue ==
    ASSUME FlowFits, TunInv, OrderInv, TW!WriteDue
    PROVE  OrderInv'
<1>1. SUFFICES ASSUME Clean'
               PROVE  OrderPlaces(consumer', expected', written' \o batch', arrived'[TW!SYN])
  BY DEF OrderInv
<1>2. /\ UNCHANGED <<tolerances, arrived, forced>> /\ consumer.step = "advance"
      /\ expected' = TW!Later(expected, consumer.expected)
      /\ TW!Emit(consumer.held) /\ TW!Progress("empty")
  BY DEF TW!WriteDue, TW!At
<1>3. TunShape /\ TunPlaces(consumer, expected, heap)
  BY DEF TunInv
<1>4. Clean
  BY <1>1, <1>2 DEF Clean, TW!Resent
<1>5. PICK out, n : out = written \o batch /\ n = Len(out)
  OBVIOUS
<1>6. n \in Nat /\ OrderPlaces(consumer, expected, out, arrived[TW!SYN])
  BY <1>4, <1>5, CleanFacts
<1>7. PICK q : q = n + 1
  OBVIOUS
<1>8. /\ consumer.held = q /\ q \in TW!Data /\ expected # TW!None
      /\ At(expected, TW!Offset[q]) /\ At(consumer.expected, TW!Offset[n + 2])
  <2>1. /\ consumer.held = q /\ expected # TW!None /\ At(expected, TW!Offset[n + 1])
        /\ At(consumer.expected, TW!Offset[n + 2])
    BY <1>2, <1>5, <1>6, <1>7 DEF OrderPlaces
  <2>2. consumer.held # TW!None /\ consumer.held \in TW!Data \cup {TW!None}
    BY <1>2, <1>3 DEF TunPlaces, TunShape, ConsumerType
  <2> QED
    BY <1>7, <2>1, <2>2
<1>9. PICK r : r = n + 2
  OBVIOUS
<1>10. q \in 1 .. TW!FIN /\ r \in 1 .. TW!FIN /\ q < r /\ q <= Len(Sizes)
  BY <1>6, <1>7, <1>8, <1>9, PlacesFit DEF TW!Data
<1>11. /\ TW!Offset[q] \in 1 .. Half /\ TW!Offset[r] \in 1 .. Half
       /\ TW!Offset[q] < TW!Offset[r]
  BY <1>10, OffsetsFit
<1>12. TW!SeqLess(expected, consumer.expected)
  <2>1. Space \in Nat \ {0} /\ Start \in Nat
    BY DEF FlowFits
  <2>2. At(consumer.expected, TW!Offset[r])
    BY <1>8, <1>9
  <2>3. TW!SeqLess(expected, consumer.expected) <=> TW!Offset[q] < TW!Offset[r]
    BY <1>8, <1>11, <2>1, <2>2, SeqLessIs
  <2> QED
    BY <1>11, <2>3
<1>13. expected' = consumer.expected
  BY <1>2, <1>12 DEF TW!Later
<1>14. PICK outs : outs = written' \o batch'
  OBVIOUS
<1>15. outs = Append(out, q) /\ out \in Seq(TW!Data)
  <2>1. written' \o batch' = Append(written \o batch, consumer.held)
    BY <1>2, <1>3, <1>8, EmitAppends DEF TunShape
  <2>2. written \o batch \in Seq(TW!Data)
    BY <1>3, ConcatProperties DEF TunShape
  <2> QED
    BY <1>5, <1>8, <1>14, <2>1, <2>2
<1>16. Len(outs) = n + 1 /\ outs[n + 1] = q /\ \A i \in 1 .. n : outs[i] = out[i]
  BY <1>5, <1>8, <1>15, AppendProperties
<1>17. \A i \in 1 .. (n + 1) : outs[i] = i
  <2>1. \A i \in 1 .. n : out[i] = i
    BY <1>5, <1>6 DEF OrderPlaces
  <2>2. 1 .. (n + 1) = (1 .. n) \cup {n + 1}
    BY <1>6
  <2> QED
    BY <1>7, <1>16, <2>1, <2>2
<1>18. consumer'.step = "empty"
  BY <1>2, <1>3, ProgressFields DEF TunSteps, TunShape
<1>19. expected' # TW!None /\ At(expected', TW!Offset[n + 2])
  <2>1. Located(consumer.expected, Half)
    BY <1>2, <1>3 DEF TunPlaces
  <2> QED
    BY <1>8, <1>13, <2>1, LocatedIsNumber
<1>20. (n + 1) + 1 = n + 2 /\ n + 1 <= Len(Sizes)
  BY <1>6, <1>7, <1>10
<1>21. arrived[TW!SYN] # 0
  BY <1>6, <1>8 DEF OrderPlaces
<1>22. PICK j : j = n + 1
  OBVIOUS
<1>23. /\ Len(outs) = j /\ j <= Len(Sizes) /\ (\A i \in 1 .. j : outs[i] = i)
       /\ At(expected', TW!Offset[j + 1])
  BY <1>16, <1>17, <1>19, <1>20, <1>22
<1>24. OrderPlaces(consumer', expected', outs, arrived'[TW!SYN])
  BY <1>2, <1>18, <1>19, <1>21, <1>23 DEF OrderPlaces
<1> QED
  BY <1>14, <1>24

LEMMA OrderGoOn ==
    ASSUME FlowFits, TunShape, TunShape', OrderInv, NEW s \in TunSteps, TW!Goto(s),
           UNCHANGED <<tolerances, arrived, expected, batch, written, forced>>,
           s \notin {"stale", "pop", "next", "advance"},
           s \in LateSteps => consumer.step \in LateSteps
    PROVE  OrderInv'
<1>1. consumer'.step = s
  BY GotoFields DEF TunShape
<1> QED
  BY <1>1, WriteOrderKept

LEMMA OrderConsume ==
    ASSUME FlowFits, TunInv, TunInv', OrderInv, TW!Consume
    PROVE  OrderInv'
<1>1. TunShape /\ TunShape'
  BY DEF TunInv
<1>2. {"snapshot", "peek", "retire", "deactivate", "done", "overflow", "old", "gap", "expire"}
         \subseteq TunSteps
  BY DEF TunSteps
<1>3. CASE TW!Notified
  <2>1. TW!Goto("snapshot") /\ UNCHANGED <<tolerances, arrived, expected, batch, written, forced>>
    BY <1>3 DEF TW!Notified
  <2> QED
    BY <1>1, <1>2, <2>1, OrderGoOn DEF LateSteps
<1>4. CASE TW!Snapshot \/ TW!FlowDone
  <2>1. UNCHANGED <<tolerances, arrived, expected, forced>>
    BY <1>4 DEF TW!Snapshot, TW!FlowDone
  <2>2. CASE TW!EndRound
    <3>1. consumer'.step = "wait"
      BY <2>2 DEF TW!EndRound, TW!Waiting
    <3>2. written' \o batch' = written \o batch
      BY <1>1, <2>2, FlushKeeps DEF TunShape
    <3> QED
      BY <1>1, <2>1, <3>1, <3>2, WriteOrderKept DEF LateSteps
  <2>3. CASE UNCHANGED <<batch, written>> /\ consumer'.step \in {"peek", "snapshot"}
    BY <1>1, <2>1, <2>3, WriteOrderKept DEF LateSteps
  <2>4. ASSUME ~TW!EndRound PROVE UNCHANGED <<batch, written>> /\ consumer'.step \in {"peek", "snapshot"}
    BY <1>1, <1>4, <2>4 DEF TW!Snapshot, TW!FlowDone, TW!Goto, TunShape, ConsumerType
  <2> QED
    BY <2>2, <2>3, <2>4
<1>5. CASE TW!Peek
  <2>1. /\ UNCHANGED <<tolerances, arrived, expected, batch, written, forced>>
        /\ consumer'.step \in {"retire", "expected"}
    BY <1>1, <1>5 DEF TW!Peek, TunShape, ConsumerType
  <2> QED
    BY <1>1, <2>1, WriteOrderKept DEF LateSteps
<1>6. ASSUME NEW to \in {"done", "peek"}, TW!Retire(to)
      PROVE  OrderInv'
  <2>1. TW!Goto(to) /\ UNCHANGED <<tolerances, arrived, expected, batch, written, forced>>
    BY <1>6 DEF TW!Retire
  <2> QED
    BY <1>1, <1>2, <2>1, OrderGoOn DEF LateSteps
<1>7. CASE TW!CheckBacklog
  <2>1. PICK s \in {"overflow", "old"} :
            /\ consumer.step = "backlog" /\ TW!Goto(s)
            /\ UNCHANGED <<tolerances, arrived, expected, batch, written, forced>>
    BY <1>7 DEF TW!CheckBacklog, TW!At
  <2> QED
    BY <1>1, <1>2, <2>1, OrderGoOn DEF LateSteps
<1>8. CASE TW!CheckEmpty
  <2>1. PICK s \in {"deactivate", "peek"} :
            TW!Goto(s) /\ UNCHANGED <<tolerances, arrived, expected, batch, written, forced>>
    BY <1>8 DEF TW!CheckEmpty
  <2> QED
    BY <1>1, <1>2, <2>1, OrderGoOn DEF LateSteps
<1>9. CASE TW!ConsultDeadline
  <2>1. PICK s \in {"expire", "done"} :
            /\ consumer.step = "gap" /\ TW!Goto(s)
            /\ UNCHANGED <<tolerances, arrived, expected, batch, written, forced>>
    BY <1>9 DEF TW!ConsultDeadline, TW!At
  <2> QED
    BY <1>1, <1>2, <2>1, OrderGoOn DEF LateSteps
<1>10. CASE TW!DiscardOld
  <2>1. consumer.step = "old" /\ ~TW!SeqLess(TW!SeqNum(consumer.top), consumer.expected)
    BY <1>10 DEF TW!DiscardOld, TW!At, TunInv, TunPlaces
  <2>2. TW!Goto("gap") /\ UNCHANGED <<tolerances, arrived, expected, batch, written, forced>>
    BY <1>10, <2>1 DEF TW!DiscardOld
  <2> QED
    BY <1>1, <1>2, <2>1, <2>2, OrderGoOn DEF LateSteps
<1>11. CASE TW!ForceBacklog \/ TW!ExpireGap
  BY <1>11 DEF TW!ForceBacklog, TW!ExpireGap, TW!GiveUpGap, OrderInv, Clean
<1>12. CASE TW!WriteStale
  <2>1. ~Clean
    BY <1>12, NeverStale
  <2>2. UNCHANGED <<tolerances, arrived, forced>>
    BY <1>12 DEF TW!WriteStale
  <2>3. ~Clean'
    BY <2>1, <2>2 DEF Clean, TW!Resent
  <2> QED
    BY <2>3 DEF OrderInv
<1> QED
  BY <1>1, <1>3, <1>4, <1>5, <1>6, <1>7, <1>8, <1>9, <1>10, <1>11, <1>12, OrderReadExpected,
     OrderJudge, OrderPopDue, OrderReadNext, OrderWriteDue DEF TW!Consume

\* The consumer of writer.rs: a flow that began with its SYN and is not finished,
\* of which nothing was sent twice and no gap given up, is written in the order of
\* its sequence numbers and without a hole, also over the end of the sequence space.
THEOREM FlowsWrittenInOrder ==
    ASSUME FlowFits
    PROVE  TW!Spec => []TW!InOrderUnlessForced
<1>1. TW!Init => TunInv /\ OrderInv
  <2>1. SUFFICES ASSUME TW!Init PROVE TunInv /\ OrderInv
    OBVIOUS
  <2>2. TunInv
    BY <2>1, TunInit
  <2>3. /\ arrived = [p \in TW!Packets |-> 0] /\ batch = << >> /\ written = << >>
        /\ expected = TW!None /\ consumer = TW!Waiting
    BY <2>1 DEF TW!Init
  <2>4. TW!SYN \in TW!Packets /\ Len(Sizes) \in Nat
    BY PlacesFit DEF TW!Packets, TW!SYN
  <2>5. consumer.step = "wait"
    BY <2>3 DEF TW!Waiting
  <2>6. PICK out : out = written \o batch
    OBVIOUS
  <2>7. out = << >> /\ Len(out) = 0
    <3>1. << >> \o << >> = << >>
      OBVIOUS
    <3> QED
      BY <2>3, <2>6, <3>1
  <2>8. arrived[TW!SYN] = 0
    BY <2>3, <2>4
  <2>9. OrderPlaces(consumer, expected, out, arrived[TW!SYN])
    BY <2>3, <2>4, <2>5, <2>7, <2>8 DEF OrderPlaces
  <2> QED
    BY <2>2, <2>6, <2>9 DEF OrderInv
<1>2. ASSUME TunInv, OrderInv, [TW!Next]_(TW!vars) PROVE TunInv' /\ OrderInv'
  <2>1. TunInv'
    BY <1>2, TunStep
  <2>2. TunShape /\ TunShape'
    BY <1>2, <2>1 DEF TunInv
  <2>3. CASE UNCHANGED TW!vars
    <3>1. UNCHANGED <<tolerances, arrived, expected, batch, written, forced, consumer>>
      BY <2>3 DEF TW!vars
    <3> QED
      BY <1>2, <2>1, <2>2, <3>1, WriteOrderKept
  <2>4. CASE \E p \in TW!Packets : TW!Receive(p)
    BY <1>2, <2>1, <2>2, <2>4, OrderReceive
  <2>5. CASE TW!Activate \/ TW!NotifyOne \/ TW!DeadlinePasses \/ TW!TimerFires
    <3>1. UNCHANGED <<tolerances, arrived, expected, batch, written, forced, consumer>>
      BY <2>5 DEF TW!Activate, TW!NotifyOne, TW!DeadlinePasses, TW!TimerFires
    <3> QED
      BY <1>2, <2>1, <2>2, <3>1, WriteOrderKept
  <2>6. CASE TW!Consume
    BY <1>2, <2>1, <2>6, OrderConsume
  <2> QED
    BY <1>2, <2>1, <2>3, <2>4, <2>5, <2>6 DEF TW!Next
<1>3. TunInv /\ OrderInv => TW!InOrderUnlessForced
  BY DEF TW!InOrderUnlessForced, OrderInv, OrderPlaces, Clean
<1> QED
  BY <1>1, <1>2, <1>3, PTL DEF TW!Spec

-----------------------------------------------------------------------------
(* What waits in the heap at rest *)

\* Nobody has pushed since the consumer took the permit.
Quiet == producer.step = "recv" /\ ~permit
Ahead(e, Q) == \E k \in 1 .. Half : At(e, k) /\ \A p \in Q : k < TW!Offset[p]
Front(p, Q) == p \in Q /\ \A q \in Q : q # p => TW!SeqLess(TW!SeqNum(p), TW!SeqNum(q))
\* The round has ended without progress.
Resting(c) == c.step = "wait" \/ (c.step = "done" /\ ~c.progressed)
Timed == tolerances.gap => timers.own + timers.old > 0

\* Deadline and timer, and the set of active flows
WakeInv ==
    /\ timers \in [own : Nat, old : Nat]
    /\ deadline \in {"none", "armed", "passed"}
    /\ deadline = "armed" => timers.own > 0
    /\ ~active /\ TW!Queued # {} => overtaken \/ producer.step = "activate"

\* While it stays quiet, what the consumer looked at is the first packet in the
\* heap; behind Judge all of them lie in front of the expectation, and when the
\* round ends they wait for a timer.
RestPlaces(c, e, Q, fin, over, live) ==
    /\ c.step \in {"expected", "stale"} => Front(c.top, Q)
    /\ c.step = "stale" /\ fin = 0 => e = c.expected \/ At(e, 1)
    /\ c.step \in {"backlog", "overflow", "old", "gap"} /\ ~c.progressed /\ fin = 0 => Ahead(e, Q)
    /\ Resting(c) /\ Q # {} /\ fin = 0 /\ ~over =>
          Ahead(e, Q)
    /\ Resting(c) /\ Q # {} /\ ~over => live

Live == active /\ Timed
RestInv ==
    /\ WakeInv
    /\ Quiet => RestPlaces(consumer, expected, TW!Queued, arrived[TW!FIN], overtaken, Live)

LEMMA QuietActive ==
    ASSUME WakeInv, Quiet, TW!Queued # {}, ~overtaken
    PROVE  active
BY DEF WakeInv, Quiet

\* A SYN moves the expectation to the first place, in front of all data.
LEMMA AheadOfFirst ==
    ASSUME FlowFits, NEW e, NEW d, NEW Q, Ahead(e, Q), At(d, 1), Q \subseteq TW!Data
    PROVE  Ahead(d, Q)
<1>1. PICK k \in 1 .. Half : At(e, k) /\ \A p \in Q : k < TW!Offset[p]
  BY DEF Ahead
<1>2. Half \in Nat /\ 1 \in 1 .. Half
  BY <1>1, PlacesFit
<1>3. ASSUME NEW p \in Q PROVE 1 < TW!Offset[p]
  <2>1. PICK o : o = TW!Offset[p]
    OBVIOUS
  <2>2. o \in 1 .. Half /\ k < o
    BY <1>1, <1>3, <2>1, PlacesFit
  <2> QED
    BY <1>1, <1>2, <2>1, <2>2
<1> QED
  BY <1>2, <1>3 DEF Ahead

LEMMA RemoveKeepsTimers ==
    ASSUME WakeInv, TW!RemoveDeadline
    PROVE  /\ timers' \in [own : Nat, old : Nat] /\ deadline' = "none"
           /\ timers'.own + timers'.old = timers.own + timers.old
BY DEF WakeInv, TW!RemoveDeadline

\* What the consumer and its surroundings leave as it is
LEMMA RestSame ==
    ASSUME RestInv, WakeInv', UNCHANGED <<heap, overtaken, expected, consumer>>,
           arrived'[TW!FIN] = 0 => arrived[TW!FIN] = 0, Live => Live', Quiet' => Quiet
    PROVE  RestInv'
<1>1. TW!Queued' = TW!Queued
  BY DEF TW!Queued
<1>2. ASSUME Quiet'
      PROVE  RestPlaces(consumer', expected', TW!Queued', arrived'[TW!FIN], overtaken', Live')
  <2>1. RestPlaces(consumer, expected, TW!Queued, arrived[TW!FIN], overtaken, Live)
    BY <1>2 DEF RestInv
  <2> QED
    BY <1>1, <2>1 DEF RestPlaces, Resting
<1> QED
  BY <1>2 DEF RestInv

LEMMA RestLoud ==
    ASSUME WakeInv', ~Quiet'
    PROVE  RestInv'
BY DEF RestInv

LEMMA RestReceive ==
    ASSUME FlowFits, TunShape, TunShape', RestInv, NEW q \in TW!Packets, TW!Receive(q)
    PROVE  RestInv'
<1>1. /\ arrived' = [arrived EXCEPT ![q] = @ + 1]
      /\ UNCHANGED <<tolerances, permit, consumer, overtaken>>
  BY DEF TW!Receive
<1>2. TW!FIN \in TW!Packets /\ TW!SYN \in TW!Packets /\ TW!FIN # TW!SYN /\ TW!SYN \notin TW!Data
      /\ TW!FIN \notin TW!Data
  BY PlacesFit DEF TW!Packets, TW!SYN, TW!FIN, TW!Data
<1>3. arrived[TW!FIN] \in Nat
  BY <1>2 DEF TunShape
<1>4. /\ q # TW!FIN => arrived'[TW!FIN] = arrived[TW!FIN]
      /\ q = TW!FIN => arrived'[TW!FIN] = arrived[TW!FIN] + 1
  BY <1>1, <1>2 DEF TunShape
<1>5. arrived'[TW!FIN] = 0 => arrived[TW!FIN] = 0 /\ q # TW!FIN
  BY <1>3, <1>4
<1>6. WakeInv
  BY DEF RestInv
<1>7. TW!Queued \subseteq TW!Data
  BY DEF TW!Queued
<1>8. CASE q = TW!SYN /\ TW!ReceiveSyn
  <2>1. /\ UNCHANGED <<producer, heap>> /\ TW!RemoveDeadline /\ active' = TRUE
        /\ expected' = (TW!SeqNum(TW!SYN) + 1) % Space
    BY <1>8 DEF TW!ReceiveSyn
  <2>2. At(expected', 1)
    <3>1. TW!SeqNum(TW!SYN) = (Start + 0) % Space /\ Space \in Nat \ {0} /\ Start \in Nat
      BY PlacesFit DEF FlowFits
    <3>2. Start + 0 \in Int /\ 1 \in Int
      BY <3>1
    <3>3. (((Start + 0) % Space) + 1) % Space = ((Start + 0) + 1) % Space
      BY <3>1, <3>2, SumOfPlaces, Zenon
    <3>4. (Start + 0) + 1 = Start + 1
      BY <3>1
    <3>5. expected' = (Start + 1) % Space
      BY <2>1, <3>1, <3>3, <3>4
    <3> QED
      BY <3>5 DEF At
  <2>3. PICK Q, e : Q = TW!Queued /\ e = expected'
    OBVIOUS
  <2>4. TW!Queued' = Q
    BY <2>1, <2>3 DEF TW!Queued
  <2>5. Ahead(expected, Q) => Ahead(e, Q)
    BY <1>7, <2>2, <2>3, AheadOfFirst
  <2>6. WakeInv' /\ (Live => Live')
    BY <1>1, <1>6, <2>1, RemoveKeepsTimers DEF WakeInv, Timed, Live
  <2>7. ASSUME Quiet' PROVE RestPlaces(consumer', e, Q, arrived'[TW!FIN], overtaken', Live')
    <3>1. RestPlaces(consumer, expected, Q, arrived[TW!FIN], overtaken, Live)
      BY <1>1, <2>1, <2>3, <2>7 DEF RestInv, Quiet
    <3> QED
      BY <1>1, <1>5, <2>1, <2>2, <2>3, <2>5, <2>6, <3>1 DEF RestPlaces, Resting
  <2> QED
    BY <2>3, <2>4, <2>6, <2>7 DEF RestInv
<1>9. CASE q = TW!FIN /\ TW!ReceiveFin
  <2>1. UNCHANGED <<producer, heap, active>> /\ TW!RemoveDeadline
    BY <1>9 DEF TW!ReceiveFin
  <2>2. TW!Queued' = TW!Queued
    BY <2>1 DEF TW!Queued
  <2>3. WakeInv' /\ (Live => Live')
    BY <1>1, <1>6, <2>1, <2>2, RemoveKeepsTimers DEF WakeInv, Timed, Live
  <2>4. PICK n : n = arrived'[TW!FIN]
    OBVIOUS
  <2>5. n # 0
    BY <1>3, <1>4, <1>9, <2>4
  <2>6. ASSUME Quiet'
        PROVE  RestPlaces(consumer', expected', TW!Queued', n, overtaken', Live')
    <3>1. RestPlaces(consumer, expected, TW!Queued, arrived[TW!FIN], overtaken, Live)
      BY <1>1, <2>1, <2>6 DEF RestInv, Quiet
    <3> QED
      BY <1>1, <2>2, <2>3, <2>5, <3>1 DEF RestPlaces, Resting
  <2> QED
    BY <2>3, <2>4, <2>6 DEF RestInv
<1>10. CASE q \in TW!Data /\ TW!PushData(q)
  <2>1. /\ producer'.step = "activate" /\ UNCHANGED <<active, deadline, timers>>
    BY <1>10 DEF TW!PushData
  <2>2. WakeInv' /\ ~Quiet'
    BY <1>6, <2>1 DEF WakeInv, Quiet
  <2> QED
    BY <2>2, RestLoud
<1>11. CASE TW!WriteThrough(q)
  <2>1. UNCHANGED <<producer, heap, active, expected, deadline, timers>>
    BY <1>11 DEF TW!WriteThrough
  <2>2. WakeInv' /\ (Live => Live') /\ (Quiet' => Quiet)
    BY <1>1, <1>6, <2>1 DEF WakeInv, TW!Queued, Quiet, Timed, Live
  <2> QED
    BY <1>1, <1>5, <2>1, <2>2, RestSame
<1> QED
  BY <1>8, <1>9, <1>10, <1>11 DEF TW!Receive

\* The other steps of the producer, and the timer
LEMMA RestProducer ==
    ASSUME RestInv, TW!Activate \/ TW!NotifyOne \/ TW!DeadlinePasses \/ TW!TimerFires
    PROVE  RestInv'
<1>1. WakeInv
  BY DEF RestInv
<1>2. UNCHANGED <<arrived, heap, overtaken, expected, consumer, tolerances>>
  BY DEF TW!Activate, TW!NotifyOne, TW!DeadlinePasses, TW!TimerFires
<1>3. TW!Queued' = TW!Queued
  BY <1>2 DEF TW!Queued
<1>4. CASE TW!Activate
  <2>1. /\ producer' = [producer EXCEPT !.step = "notify"] /\ producer.step = "activate"
        /\ active' = TRUE /\ UNCHANGED <<deadline, timers, permit>>
    BY <1>4 DEF TW!Activate
  <2>2. WakeInv'
    BY <1>1, <1>2, <1>3, <2>1 DEF WakeInv
  <2>3. Quiet' => Quiet \/ producer'.step = "recv"
    BY DEF Quiet
  <2>4. producer'.step # "recv"
    BY <2>1 DEF TW!Activate
  <2> QED
    BY <2>2, <2>4, RestLoud DEF Quiet
<1>5. CASE TW!NotifyOne
  <2>1. permit' = TRUE /\ UNCHANGED <<active, deadline, timers>> /\ producer.step = "notify"
    BY <1>5 DEF TW!NotifyOne
  <2>2. WakeInv'
    BY <1>1, <1>2, <1>3, <2>1 DEF WakeInv
  <2> QED
    BY <2>1, <2>2, RestLoud DEF Quiet
<1>6. CASE TW!DeadlinePasses
  <2>1. deadline' = "passed" /\ UNCHANGED <<active, timers, permit, producer>>
    BY <1>6 DEF TW!DeadlinePasses
  <2>2. WakeInv' /\ (Live => Live') /\ (Quiet' => Quiet)
    BY <1>1, <1>2, <1>3, <2>1 DEF WakeInv, Timed, Live, Quiet
  <2> QED
    BY <1>2, <2>2, RestSame
<1>7. CASE TW!TimerFires
  <2>1. permit' = TRUE /\ UNCHANGED <<active, deadline, producer>>
    BY <1>7 DEF TW!TimerFires
  <2>2. /\ timers' \in [own : Nat, old : Nat]
        /\ deadline = "armed" => timers'.own = timers.own
    BY <1>1, <1>7 DEF TW!TimerFires, WakeInv
  <2>3. WakeInv'
    BY <1>1, <1>2, <1>3, <2>1, <2>2 DEF WakeInv
  <2> QED
    BY <2>1, <2>3, RestLoud DEF Quiet
<1> QED
  BY <1>4, <1>5, <1>6, <1>7

\* The consumer goes on to a step for which RestPlaces is shown.
LEMMA RestGoOn ==
    ASSUME RestInv, WakeInv', arrived' = arrived,
           Quiet' => RestPlaces(consumer', expected', TW!Queued', arrived[TW!FIN], overtaken', Live')
    PROVE  RestInv'
BY DEF RestInv

\* Steps of which nothing is said
Easy(c) ==
    \/ c.step \in {"snapshot", "peek", "retire", "pop", "next", "advance", "empty",
                   "deactivate", "expire"}
    \/ c.step \in {"old", "done"} /\ c.progressed

LEMMA RestEasy ==
    ASSUME RestInv, WakeInv', arrived' = arrived, Easy(consumer')
    PROVE  RestInv'
<1>1. RestPlaces(consumer', expected', TW!Queued', arrived[TW!FIN], overtaken', Live')
  BY DEF RestPlaces, Resting, Easy
<1> QED
  BY <1>1, RestGoOn

LEMMA WakeKept ==
    ASSUME WakeInv, UNCHANGED <<timers, deadline, active, overtaken, producer>>,
           TW!Queued' \subseteq TW!Queued
    PROVE  WakeInv'
BY DEF WakeInv

LEMMA WakeRemoved ==
    ASSUME WakeInv, TW!RemoveDeadline, UNCHANGED <<active, overtaken, producer>>,
           TW!Queued' \subseteq TW!Queued
    PROVE  WakeInv'
BY RemoveKeepsTimers DEF WakeInv

LEMMA RestJudge ==
    ASSUME FlowFits, TunInv, RestInv, TW!Judge
    PROVE  RestInv'
<1>1. /\ UNCHANGED <<tolerances, arrived, heap, expected, timers, deadline, active, overtaken,
                     producer, permit>>
      /\ consumer.step = "stale"
      /\ \A p \in TW!Data : TW!Smallest(p) => ~TW!SeqLess(TW!SeqNum(p), consumer.expected)
      /\ TW!Goto(IF TW!SeqNum(consumer.top) = consumer.expected THEN "pop" ELSE "backlog")
  BY DEF TW!Judge, TW!At
<1>2. TunShape /\ TunPlaces(consumer, expected, heap)
  BY DEF TunInv
<1>3. WakeInv' /\ TW!Queued' = TW!Queued /\ (Quiet' => Quiet)
  BY <1>1, WakeKept DEF TW!Queued, RestInv, Quiet
<1>4. CASE TW!SeqNum(consumer.top) = consumer.expected
  <2>1. TW!Goto("pop")
    BY <1>1, <1>4
  <2>2. consumer'.step = "pop"
    BY <1>2, <2>1, GotoFields DEF TunSteps, TunShape
  <2>3. Easy(consumer')
    BY <2>2 DEF Easy
  <2> QED
    BY <1>1, <1>3, <2>3, RestEasy
<1>5. CASE TW!SeqNum(consumer.top) # consumer.expected
  <2>1. TW!Goto("backlog")
    BY <1>1, <1>5
  <2>2. consumer'.step = "backlog"
    BY <1>2, <2>1, GotoFields DEF TunSteps, TunShape
  <2>3. ASSUME Quiet', arrived[TW!FIN] = 0
        PROVE  Ahead(expected, TW!Queued)
    <3>1. PICK t, c : t = consumer.top /\ c = consumer.expected
      OBVIOUS
    <3>2. RestPlaces(consumer, expected, TW!Queued, arrived[TW!FIN], overtaken, Live)
      BY <1>3, <2>3 DEF RestInv
    <3>3. /\ Front(t, TW!Queued)
          /\ expected = c \/ At(expected, 1)
          /\ t \in TW!Data /\ Located(c, Half)
      BY <1>1, <1>2, <2>3, <3>1, <3>2 DEF RestPlaces, Resting, TunPlaces
    <3>4. PICK k \in 1 .. Half : At(c, k)
      BY <3>3 DEF Located
    <3>5. PICK b : b = TW!Offset[t]
      OBVIOUS
    <3>6. b \in 1 .. Half /\ At(TW!SeqNum(t), b) /\ Half \in Nat /\ Space \in Nat \ {0} /\ Start \in Nat
      <4>1. t \in TW!Data
        BY <3>3
      <4>2. At(TW!SeqNum(t), TW!Offset[t]) /\ TW!Offset[t] \in 1 .. Half
        BY <4>1, DataLocated, PlacesFit
      <4>3. Half \in Nat /\ Space \in Nat \ {0} /\ Start \in Nat
        BY PlacesFit DEF FlowFits
      <4> QED
        BY <3>5, <4>2, <4>3
    <3>7. ~(b < k)
      <4>1. ~TW!SeqLess(TW!SeqNum(t), c)
        BY <1>1, <3>1, <3>3 DEF Front, TW!Smallest
      <4> QED
        BY <3>4, <3>6, <4>1, SeqLessIs
    <3>8. b # k
      <4>1. TW!SeqNum(t) # c
        BY <1>5, <3>1
      <4> QED
        BY <3>4, <3>6, <4>1 DEF At
    <3>9. \A p \in TW!Queued : k < TW!Offset[p]
      <4>1. ASSUME NEW p \in TW!Queued PROVE k < TW!Offset[p]
        <5>1. PICK o : o = TW!Offset[p]
          OBVIOUS
        <5>2. p \in TW!Data /\ o \in 1 .. Half
          <6>1. p \in TW!Data
            BY <4>1 DEF TW!Queued
          <6>2. TW!Offset[p] \in 1 .. Half
            BY <6>1, DataLocated
          <6> QED
            BY <5>1, <6>1, <6>2
        <5>3. p # t => b < o
          BY <3>3, <3>5, <5>1, <5>2, DataInOrder DEF Front
        <5>4. p = t => b = o
          BY <3>5, <5>1
        <5> QED
          BY <3>4, <3>6, <3>7, <3>8, <5>1, <5>2, <5>3, <5>4
      <4> QED
        BY <4>1
    <3>10. Ahead(c, TW!Queued)
      BY <3>4, <3>9 DEF Ahead
    <3>11. TW!Queued \subseteq TW!Data
      BY DEF TW!Queued
    <3> QED
      BY <3>3, <3>10, <3>11, AheadOfFirst
  <2>4. Quiet' => RestPlaces(consumer', expected', TW!Queued', arrived[TW!FIN], overtaken', Live')
    BY <1>1, <1>3, <2>2, <2>3 DEF RestPlaces, Resting
  <2> QED
    BY <1>1, <1>3, <2>4, RestGoOn
<1> QED
  BY <1>4, <1>5

LEMMA RestSnapshot ==
    ASSUME FlowFits, TunInv, RestInv, TW!Snapshot \/ TW!Peek \/ TW!ReadExpected
    PROVE  RestInv'
<1>1. TunShape /\ WakeInv
  BY DEF TunInv, RestInv
<1>2. UNCHANGED <<tolerances, arrived, heap, timers, deadline, active, overtaken, producer, permit>>
  BY DEF TW!Snapshot, TW!Peek, TW!ReadExpected
<1>3. WakeInv' /\ TW!Queued' = TW!Queued /\ (Quiet' => Quiet)
  BY <1>1, <1>2, WakeKept DEF TW!Queued, Quiet
<1>4. CASE TW!Snapshot
  <2>1. CASE active
    <3>1. consumer'.step = "peek"
      BY <1>1, <1>4, <2>1 DEF TW!Snapshot, TunShape, ConsumerType
    <3>2. Easy(consumer')
      BY <3>1 DEF Easy
    <3> QED
      BY <1>2, <1>3, <3>2, RestEasy
  <2>2. CASE ~active
    <3>1. consumer'.step = "wait"
      BY <1>4, <2>2 DEF TW!Snapshot, TW!EndRound, TW!Waiting
    <3>2. Quiet' => TW!Queued' = {} \/ overtaken'
      BY <1>1, <1>2, <1>3, <2>2, QuietActive
    <3>3. Quiet' => RestPlaces(consumer', expected', TW!Queued', arrived[TW!FIN], overtaken', Live')
      BY <3>1, <3>2 DEF RestPlaces, Resting
    <3> QED
      BY <1>2, <1>3, <3>3, RestGoOn
  <2> QED
    BY <2>1, <2>2
<1>5. CASE TW!Peek
  <2>1. CASE consumer' = [consumer EXCEPT !.step = "retire"]
    <3>1. consumer'.step = "retire"
      BY <1>1, <2>1 DEF TunShape, ConsumerType
    <3>2. Easy(consumer')
      BY <3>1 DEF Easy
    <3> QED
      BY <1>2, <1>3, <3>2, RestEasy
  <2>2. CASE \E p \in TW!Data :
                TW!Smallest(p) /\ consumer' = [consumer EXCEPT !.step = "expected", !.top = p]
    <3>1. PICK p \in TW!Data :
              TW!Smallest(p) /\ consumer' = [consumer EXCEPT !.step = "expected", !.top = p]
      BY <2>2
    <3>2. consumer'.step = "expected" /\ consumer'.top = p
      BY <1>1, <3>1 DEF TunShape, ConsumerType
    <3>3. Front(p, TW!Queued')
      BY <1>3, <3>1 DEF TW!Smallest, Front
    <3>4. RestPlaces(consumer', expected', TW!Queued', arrived[TW!FIN], overtaken', Live')
      BY <3>2, <3>3 DEF RestPlaces, Resting
    <3> QED
      BY <1>2, <1>3, <3>4, RestGoOn
  <2> QED
    BY <1>5, <2>1, <2>2 DEF TW!Peek
<1>6. CASE TW!ReadExpected
  <2>1. /\ consumer.step = "expected"
        /\ consumer' = [consumer EXCEPT !.step = "stale", !.expected = expected']
    BY <1>6 DEF TW!ReadExpected, TW!At
  <2>2. consumer'.step = "stale" /\ consumer'.top = consumer.top /\ consumer'.expected = expected'
    BY <1>1, <2>1 DEF TunShape, ConsumerType
  <2>3. ASSUME Quiet' PROVE RestPlaces(consumer', expected', TW!Queued', arrived[TW!FIN], overtaken', Live')
    <3>1. RestPlaces(consumer, expected, TW!Queued, arrived[TW!FIN], overtaken, Live)
      BY <1>3, <2>3 DEF RestInv
    <3>2. Front(consumer.top, TW!Queued)
      BY <2>1, <3>1 DEF RestPlaces, Resting
    <3> QED
      BY <1>3, <2>2, <3>2 DEF RestPlaces, Resting
  <2> QED
    BY <1>2, <1>3, <2>3, RestGoOn
<1> QED
  BY <1>4, <1>5, <1>6

\* The packets that are popped leave fewer in the heap.
LEMMA RestPop ==
    ASSUME FlowFits, TunInv, RestInv, TW!WriteStale \/ TW!PopDue \/ TW!ReadNext \/ TW!WriteDue \/ TW!CheckEmpty
    PROVE  RestInv'
<1>1. TunShape /\ WakeInv
  BY DEF TunInv, RestInv
<1>2. UNCHANGED <<tolerances, arrived, active, overtaken, producer, permit>>
  BY DEF TW!WriteStale, TW!PopDue, TW!ReadNext, TW!WriteDue, TW!CheckEmpty
<1>3. TW!Queued' \subseteq TW!Queued
  <2>1. CASE TW!WriteStale \/ TW!PopDue
    <3>1. PICK q \in TW!Data : TW!Smallest(q) /\ heap' = [heap EXCEPT ![q] = @ - 1]
      BY <2>1 DEF TW!WriteStale, TW!PopDue
    <3>2. \A p \in TW!Data : heap'[p] > 0 => heap[p] > 0
      BY <1>1, <3>1 DEF TunShape
    <3> QED
      BY <3>2 DEF TW!Queued
  <2>2. CASE TW!ReadNext \/ TW!WriteDue \/ TW!CheckEmpty
    BY <2>2 DEF TW!ReadNext, TW!WriteDue, TW!CheckEmpty, TW!Queued
  <2> QED
    BY <2>1, <2>2
<1>4. WakeInv'
  <2>1. TW!RemoveDeadline \/ UNCHANGED <<timers, deadline>>
    BY DEF TW!WriteStale, TW!PopDue, TW!ReadNext, TW!WriteDue, TW!CheckEmpty
  <2> QED
    BY <1>1, <1>2, <1>3, <2>1, WakeKept, WakeRemoved
<1>5. Easy(consumer')
  BY <1>1 DEF TW!WriteStale, TW!PopDue, TW!ReadNext, TW!WriteDue, TW!CheckEmpty, TW!Goto, TW!Progress,
              TunShape, ConsumerType, Easy
<1> QED
  BY <1>2, <1>4, <1>5, RestEasy

\* The steps after Judge
LEMMA RestBacklog ==
    ASSUME TunInv, RestInv, TW!CheckBacklog \/ TW!ForceBacklog \/ TW!ExpireGap
    PROVE  RestInv'
<1>1. TunShape /\ WakeInv
  BY DEF TunInv, RestInv
<1>2. UNCHANGED <<tolerances, arrived, heap, active, overtaken, producer, permit>>
  BY DEF TW!CheckBacklog, TW!ForceBacklog, TW!ExpireGap
<1>3. TW!Queued' = TW!Queued /\ (Quiet' => Quiet)
  BY <1>2 DEF TW!Queued, Quiet
<1>4. CASE TW!CheckBacklog
  <2>1. /\ UNCHANGED <<timers, deadline, expected>> /\ consumer.step = "backlog"
        /\ \/ consumer' = [consumer EXCEPT !.step = "overflow"]
           \/ consumer' = [consumer EXCEPT !.step = "old"]
    BY <1>4 DEF TW!CheckBacklog, TW!At, TW!Goto
  <2>2. consumer'.step \in {"overflow", "old"} /\ consumer'.progressed = consumer.progressed
    BY <1>1, <2>1 DEF TunShape, ConsumerType
  <2>3. WakeInv'
    BY <1>1, <1>2, <1>3, <2>1, WakeKept
  <2>4. ASSUME Quiet'
        PROVE  RestPlaces(consumer', expected', TW!Queued', arrived[TW!FIN], overtaken', Live')
    <3>1. RestPlaces(consumer, expected, TW!Queued, arrived[TW!FIN], overtaken, Live)
      BY <1>3, <2>4 DEF RestInv
    <3> QED
      BY <1>3, <2>1, <2>2, <3>1 DEF RestPlaces, Resting
  <2> QED
    BY <1>2, <2>3, <2>4, RestGoOn
<1>5. CASE TW!ForceBacklog
  <2>1. TW!RemoveDeadline /\ consumer' = [consumer EXCEPT !.step = "old", !.held = TW!None, !.progressed = TRUE]
    BY <1>5 DEF TW!ForceBacklog, TW!Progress
  <2>2. Easy(consumer')
    BY <1>1, <2>1 DEF TunShape, ConsumerType, Easy
  <2>3. WakeInv'
    BY <1>1, <1>2, <1>3, <2>1, WakeRemoved
  <2> QED
    BY <1>2, <2>2, <2>3, RestEasy
<1>6. CASE TW!ExpireGap
  <2>1. UNCHANGED <<timers, deadline>> /\ consumer' = [consumer EXCEPT !.step = "peek", !.held = TW!None, !.progressed = TRUE]
    BY <1>6 DEF TW!ExpireGap, TW!Progress
  <2>2. Easy(consumer')
    BY <1>1, <2>1 DEF TunShape, ConsumerType, Easy
  <2>3. WakeInv'
    BY <1>1, <1>2, <1>3, <2>1, WakeKept
  <2> QED
    BY <1>2, <2>2, <2>3, RestEasy
<1> QED
  BY <1>4, <1>5, <1>6

LEMMA RestDiscard ==
    ASSUME TunInv, RestInv, TW!DiscardOld
    PROVE  RestInv'
<1>1. TunShape /\ WakeInv /\ TunPlaces(consumer, expected, heap)
  BY DEF TunInv, RestInv
<1>2. UNCHANGED <<tolerances, arrived, active, overtaken, producer, permit, timers, deadline, expected>>
      /\ consumer.step = "old"
  BY DEF TW!DiscardOld, TW!At
<1>3. ~TW!SeqLess(TW!SeqNum(consumer.top), consumer.expected)
  BY <1>1, <1>2 DEF TunPlaces
<1>4. heap' = heap /\ consumer' = [consumer EXCEPT !.step = "gap"]
  BY <1>3 DEF TW!DiscardOld, TW!Goto
<1>5. consumer'.step = "gap" /\ consumer'.progressed = consumer.progressed
  BY <1>1, <1>4 DEF TunShape, ConsumerType
<1>6. TW!Queued' = TW!Queued /\ (Quiet' => Quiet)
  BY <1>2, <1>4 DEF TW!Queued, Quiet
<1>7. WakeInv'
  BY <1>1, <1>2, <1>6, WakeKept
<1>8. ASSUME Quiet'
      PROVE  RestPlaces(consumer', expected', TW!Queued', arrived[TW!FIN], overtaken', Live')
  <2>1. RestPlaces(consumer, expected, TW!Queued, arrived[TW!FIN], overtaken, Live)
    BY <1>6, <1>8 DEF RestInv
  <2> QED
    BY <1>2, <1>5, <1>6, <2>1 DEF RestPlaces, Resting
<1> QED
  BY <1>2, <1>7, <1>8, RestGoOn

\* Whatever is pushed before the flow is retired has overtaken the consumer.
LEMMA RestRetire ==
    ASSUME TunInv, RestInv, NEW to \in {"done", "peek"}, TW!Retire(to)
    PROVE  RestInv'
<1>1. TunShape /\ WakeInv
  BY DEF TunInv, RestInv
<1>2. /\ UNCHANGED <<arrived, heap>> /\ TW!RemoveDeadline
      /\ overtaken' = (overtaken \/ TW!Queued # {})
      /\ consumer' = [consumer EXCEPT !.step = to]
  BY DEF TW!Retire, TW!Goto
<1>3. TW!Queued' = TW!Queued
  BY <1>2 DEF TW!Queued
<1>4. WakeInv'
  <2>1. timers' \in [own : Nat, old : Nat] /\ deadline' = "none"
    BY <1>1, <1>2, RemoveKeepsTimers
  <2>2. TW!Queued' # {} => overtaken'
    BY <1>2, <1>3
  <2> QED
    BY <2>1, <2>2 DEF WakeInv
<1>5. consumer'.step = to
  BY <1>1, <1>2 DEF TunShape, ConsumerType
<1>6. RestPlaces(consumer', expected', TW!Queued', arrived[TW!FIN], overtaken', Live')
  <2>1. TW!Queued' = {} \/ overtaken'
    BY <1>2, <1>3
  <2> QED
    BY <1>5, <2>1 DEF RestPlaces, Resting
<1> QED
  BY <1>2, <1>4, <1>6, RestGoOn

LEMMA RestNotified ==
    ASSUME TunInv, RestInv, TW!Notified
    PROVE  RestInv'
<1>1. TunShape /\ WakeInv
  BY DEF TunInv, RestInv
<1>2. /\ UNCHANGED <<tolerances, arrived, heap, timers, deadline, active, overtaken, producer>>
      /\ consumer' = [consumer EXCEPT !.step = "snapshot"]
  BY DEF TW!Notified, TW!Goto
<1>3. TW!Queued' \subseteq TW!Queued
  BY <1>2 DEF TW!Queued
<1>4. Easy(consumer')
  BY <1>1, <1>2 DEF TunShape, ConsumerType, Easy
<1>5. WakeInv'
  BY <1>1, <1>2, <1>3, WakeKept
<1> QED
  BY <1>2, <1>4, <1>5, RestEasy

\* A gap that is waited for leaves a timer behind.
LEMMA RestDeadline ==
    ASSUME TunInv, RestInv, TW!ConsultDeadline
    PROVE  RestInv'
<1>1. TunShape /\ WakeInv
  BY DEF TunInv, RestInv
<1>2. UNCHANGED <<tolerances, arrived, heap, active, overtaken, producer, permit, expected>>
      /\ consumer.step = "gap"
  BY DEF TW!ConsultDeadline, TW!At
<1>3. TW!Queued' = TW!Queued /\ (Quiet' => Quiet)
  BY <1>2 DEF TW!Queued, Quiet
<1>4. CASE deadline = "passed" /\ TW!RemoveDeadline /\ TW!Goto("expire")
  <2>1. Easy(consumer')
    BY <1>1, <1>4 DEF TW!Goto, TunShape, ConsumerType, Easy
  <2>2. WakeInv'
    BY <1>1, <1>2, <1>3, <1>4, WakeRemoved
  <2> QED
    BY <1>2, <2>1, <2>2, RestEasy
<1>5. ASSUME TW!Goto("done"), WakeInv', Timed'
      PROVE  RestInv'
  <2>1. consumer'.step = "done" /\ consumer'.progressed = consumer.progressed
    BY <1>1, <1>5 DEF TW!Goto, TunShape, ConsumerType
  <2>2. ASSUME Quiet'
        PROVE  RestPlaces(consumer', expected', TW!Queued', arrived[TW!FIN], overtaken', Live')
    <3>1. RestPlaces(consumer, expected, TW!Queued, arrived[TW!FIN], overtaken, Live)
      BY <1>3, <2>2 DEF RestInv
    <3>2. TW!Queued # {} /\ ~overtaken => Live'
      BY <1>1, <1>2, <1>3, <1>5, <2>2, QuietActive DEF Live
    <3> QED
      BY <1>2, <1>3, <2>1, <3>1, <3>2 DEF RestPlaces, Resting
  <2> QED
    BY <1>2, <1>5, <2>2, RestGoOn
<1>6. CASE deadline = "armed" /\ UNCHANGED <<deadline, timers>> /\ TW!Goto("done")
  <2>1. WakeInv'
    BY <1>1, <1>2, <1>3, <1>6, WakeKept
  <2>2. Timed'
    BY <1>1, <1>6 DEF WakeInv, Timed
  <2> QED
    BY <1>5, <1>6, <2>1, <2>2
<1>7. CASE /\ deadline = "none"
           /\ deadline' = IF tolerances.gap THEN "armed" ELSE "none"
           /\ timers' = [timers EXCEPT !.own = IF tolerances.gap THEN 1 ELSE 0]
           /\ TW!Goto("done")
  <2>1. /\ timers' \in [own : Nat, old : Nat]
        /\ tolerances.gap => timers'.own = 1
    BY <1>1, <1>7 DEF WakeInv
  <2>2. deadline' \in {"none", "armed"} /\ (deadline' = "armed" => tolerances.gap)
    BY <1>7
  <2>3. ~active' /\ TW!Queued' # {} => overtaken' \/ producer'.step = "activate"
    BY <1>1, <1>2, <1>3 DEF WakeInv
  <2>4. deadline' = "armed" => timers'.own > 0
    BY <2>1, <2>2
  <2>5. WakeInv'
    BY <2>1, <2>2, <2>3, <2>4 DEF WakeInv
  <2>6. Timed'
    BY <1>2, <2>1 DEF Timed
  <2> QED
    BY <1>5, <1>7, <2>5, <2>6
<1> QED
  BY <1>4, <1>6, <1>7 DEF TW!ConsultDeadline

LEMMA RestFlowDone ==
    ASSUME TunInv, RestInv, TW!FlowDone
    PROVE  RestInv'
<1>1. TunShape /\ WakeInv
  BY DEF TunInv, RestInv
<1>2. UNCHANGED <<tolerances, arrived, heap, timers, deadline, active, overtaken, producer, permit, expected>>
      /\ consumer.step = "done"
  BY DEF TW!FlowDone, TW!At
<1>3. TW!Queued' = TW!Queued /\ (Quiet' => Quiet) /\ (Live' <=> Live)
  BY <1>2 DEF TW!Queued, Quiet, Live, Timed
<1>4. WakeInv'
  BY <1>1, <1>2, <1>3, WakeKept
<1>5. CASE consumer.progressed
  <2>1. Easy(consumer')
    BY <1>1, <1>5 DEF TW!FlowDone, TW!Goto, TunShape, ConsumerType, Easy
  <2> QED
    BY <1>2, <1>4, <2>1, RestEasy
<1>6. CASE ~consumer.progressed
  <2>1. consumer'.step = "wait"
    BY <1>6 DEF TW!FlowDone, TW!EndRound, TW!Waiting
  <2>2. ASSUME Quiet'
        PROVE  RestPlaces(consumer', expected', TW!Queued', arrived[TW!FIN], overtaken', Live')
    <3>1. RestPlaces(consumer, expected, TW!Queued, arrived[TW!FIN], overtaken, Live)
      BY <1>3, <2>2 DEF RestInv
    <3> QED
      BY <1>2, <1>3, <1>6, <2>1, <3>1 DEF RestPlaces, Resting
  <2> QED
    BY <1>2, <1>4, <2>2, RestGoOn
<1> QED
  BY <1>5, <1>6

LEMMA RestStep ==
    ASSUME FlowFits, TunInv, TunInv', RestInv, [TW!Next]_(TW!vars)
    PROVE  RestInv'
<1>1. TunShape /\ TunShape'
  BY DEF TunInv
<1>2. CASE TW!Consume
  <2>1. CASE \/ (TW!At("retire") /\ TW!Retire("done"))
              \/ (TW!At("deactivate") /\ TW!Retire("peek"))
    <3>1. PICK to \in {"done", "peek"} : TW!Retire(to)
      BY <2>1
    <3> QED
      BY <3>1, RestRetire
  <2>2. CASE TW!Notified \/ TW!Judge \/ TW!DiscardOld \/ TW!ConsultDeadline \/ TW!FlowDone
    BY <2>2, RestNotified, RestJudge, RestDiscard, RestDeadline, RestFlowDone
  <2>3. CASE TW!Snapshot \/ TW!Peek \/ TW!ReadExpected
    BY <2>3, RestSnapshot
  <2>4. CASE TW!WriteStale \/ TW!PopDue \/ TW!ReadNext \/ TW!WriteDue \/ TW!CheckEmpty
    BY <2>4, RestPop
  <2>5. CASE TW!CheckBacklog \/ TW!ForceBacklog \/ TW!ExpireGap
    BY <2>5, RestBacklog
  <2> QED
    BY <1>2, <2>1, <2>2, <2>3, <2>4, <2>5 DEF TW!Consume
<1>3. CASE UNCHANGED TW!vars
  <2>1. WakeInv
    BY DEF RestInv
  <2>2. UNCHANGED <<arrived, heap, overtaken, expected, consumer, tolerances, timers, active,
                    deadline, producer, permit>>
    BY <1>3 DEF TW!vars
  <2>3. TW!Queued' \subseteq TW!Queued
    BY <2>2 DEF TW!Queued
  <2>4. WakeInv' /\ (Live => Live') /\ (Quiet' => Quiet)
    BY <2>1, <2>2, <2>3, WakeKept DEF Live, Timed, Quiet
  <2> QED
    BY <2>2, <2>4, RestSame
<1> QED
  BY <1>1, <1>2, <1>3, RestReceive, RestProducer DEF TW!Next

LEMMA RestInit ==
    ASSUME TW!Init
    PROVE  RestInv
<1>1. /\ heap = [p \in TW!Data |-> 0] /\ deadline = "none" /\ timers = [own |-> 0, old |-> 0]
      /\ consumer = TW!Waiting
  BY DEF TW!Init
<1>2. TW!Queued = {}
  BY <1>1 DEF TW!Queued
<1>3. WakeInv
  BY <1>1, <1>2 DEF WakeInv
<1>4. RestPlaces(consumer, expected, TW!Queued, arrived[TW!FIN], overtaken, Live)
  BY <1>1, <1>2 DEF RestPlaces, Resting, TW!Waiting
<1> QED
  BY <1>3, <1>4 DEF RestInv

LEMMA RestIsGap ==
    ASSUME FlowFits, TunInv, RestInv
    PROVE  TW!HeldOnlyForGaps
<1>1. SUFFICES ASSUME TW!AtRest, TW!Queued # {}, ~overtaken
               PROVE  /\ active
                      /\ tolerances.gap => timers.own + timers.old > 0
                      /\ \/ arrived[TW!FIN] > 0
                         \/ \A p \in TW!Queued : TW!SeqLess(expected, TW!SeqNum(p))
  BY DEF TW!HeldOnlyForGaps
<1>2. Quiet /\ consumer.step = "wait"
  BY <1>1 DEF TW!AtRest, TW!At, Quiet
<1>3. RestPlaces(consumer, expected, TW!Queued, arrived[TW!FIN], overtaken, Live)
  BY <1>2 DEF RestInv
<1>4. Live
  BY <1>1, <1>2, <1>3 DEF RestPlaces, Resting
<1>5. ASSUME arrived[TW!FIN] = 0
      PROVE  \A p \in TW!Queued : TW!SeqLess(expected, TW!SeqNum(p))
  <2>1. Ahead(expected, TW!Queued)
    BY <1>1, <1>2, <1>3, <1>5 DEF RestPlaces, Resting
  <2>2. PICK k \in 1 .. Half : At(expected, k) /\ \A p \in TW!Queued : k < TW!Offset[p]
    BY <2>1 DEF Ahead
  <2>3. Space \in Nat \ {0} /\ Start \in Nat
    BY DEF FlowFits
  <2>4. ASSUME NEW p \in TW!Queued PROVE TW!SeqLess(expected, TW!SeqNum(p))
    <3>1. p \in TW!Data
      BY <2>4 DEF TW!Queued
    <3>2. At(TW!SeqNum(p), TW!Offset[p]) /\ TW!Offset[p] \in 1 .. Half
      BY <3>1, DataLocated
    <3>3. k < TW!Offset[p]
      BY <2>2, <2>4
    <3> QED
      BY <2>2, <2>3, <3>2, <3>3, SeqLessIs
  <2> QED
    BY <2>4
<1>6. arrived[TW!FIN] \in Nat
  <2>1. TW!FIN \in TW!Packets
    BY PlacesFit DEF TW!Packets, TW!SYN
  <2> QED
    BY <2>1 DEF TunInv, TunShape
<1> QED
  BY <1>4, <1>5, <1>6 DEF Live, Timed

\* Data waits in the heap only for a gap: when the producer and the consumer of
\* the TUN writer are both at rest, the flow is active, the timer of the gap
\* runs where gaps are given up, and every packet held lies behind the
\* expectation, unless a push overtook the retirement of the flow.
THEOREM HeldPacketsAwaitGaps ==
    ASSUME FlowFits
    PROVE  TW!Spec => []TW!HeldOnlyForGaps
<1>1. TW!Init => TunInv /\ RestInv
  BY TunInit, RestInit
<1>2. TunInv /\ RestInv /\ [TW!Next]_(TW!vars) => TunInv' /\ RestInv'
  BY TunStep, RestStep
<1>3. TunInv /\ RestInv => TW!HeldOnlyForGaps
  BY RestIsGap
<1> QED
  BY <1>1, <1>2, <1>3, PTL DEF TW!Spec

-----------------------------------------------------------------------------
(* LocalWriter: what its writer promises *)

\* writer.rs: the TUN writer neither loses nor duplicates a packet.
THEOREM TunDropsNothing == TW!Spec => []NothingDropped
  BY NothingIsDropped, LocalWriterAssumption, PTL DEF NothingDropped

\* writer.rs: a stream whose gaps close in time is written in order.
THEOREM TunKeepsOrder == TW!Spec => []InOrderUnlessForced
  BY FlowsWrittenInOrder, LocalWriterAssumption, PTL DEF InOrderUnlessForced

\* writer.rs: at rest, the TUN writer holds a packet only for a gap.
THEOREM TunHoldsOnlyForGaps == TW!Spec => []HeldOnlyForGaps
  BY HeldPacketsAwaitGaps, LocalWriterAssumption, PTL DEF HeldOnlyForGaps
=============================================================================
