------------------------------- MODULE Topology -------------------------------
(***************************************************************************)
(* The inter-device link graph and the per-device cache of LLDP rows built *)
(* from it: Topology's links and adjacency index, the generation every     *)
(* mutation bumps, and lldpServedOIDs, which reads the generation, builds  *)
(* over the links, the fleet and the ports' oper-status one lock at a      *)
(* time, and keeps the result under the generation it read first.          *)
(* A port is <<device, ifIndex>>; a served row is <<local ifIndex, peer    *)
(* port, live>>, where live says the remote row is served too.             *)
(***************************************************************************)
EXTENDS Integers, Sequences, FiniteSets, FiniteSetsExt, SequencesExt

CONSTANTS
  LldpDevices,  \* the addresses
  Walkers,      \* the devices whose agents are walked
  TopoPorts,    \* their ports
  MaxGen        \* bound on the generations of a behaviour

VARIABLES
  links,    \* Topology.links: a sequence of pairs of ports
  adj,      \* Topology.adj: address -> its local links <<ifIndex, peer port>>
  gen,      \* Topology.gen
  owed,     \* changes made whose bump is still to come
  present,  \* devicesByIP
  operOf,   \* port -> its oper-status is up
  cached,   \* device -> lldpServedCache: [gen, served], gen 0 for none
  build     \* device -> its walk's build: [pc, gen, found, served]

topoVars == <<links, adj, gen, owed, present, operOf, cached, build>>

NoBuild == [pc |-> "idle", gen |-> 0, found |-> {}, served |-> {}]
NoSnapshot == [gen |-> 0, served |-> {}]

\* indexLink
IndexLink(a, l) ==
  [d \in LldpDevices |-> a[d] \cup (IF l[1][1] = d THEN {<<l[1][2], l[2]>>} ELSE {})
                              \cup (IF l[2][1] = d THEN {<<l[2][2], l[1]>>} ELSE {})]
RebuildAdj(ls) == FoldLeft(IndexLink, [d \in LldpDevices |-> {}], ls)

\* validateAgainstLinks: no duplicate, and no port in two links.
ValidateAgainstLinks(nl, ls) == \A i \in 1..Len(ls) : {ls[i][1], ls[i][2]} \cap {nl[1], nl[2]} = {}

\* The batch of AddLinks up to its first refusal, or all of it.
RECURSIVE Admitted(_, _)
Admitted(batch, ls) ==
  IF batch = <<>> THEN TRUE
  ELSE ValidateAgainstLinks(Head(batch), ls) /\ Admitted(Tail(batch), Append(ls, Head(batch)))

TopoInit ==
  /\ links = <<>> /\ adj = [d \in LldpDevices |-> {}] /\ gen = 1 /\ owed = 0
  /\ present \in {LldpDevices, LldpDevices \ {CHOOSE d \in LldpDevices : TRUE}}
  /\ operOf = [p \in TopoPorts |-> TRUE]
  /\ cached = [d \in LldpDevices |-> NoSnapshot] /\ build = [d \in LldpDevices |-> NoBuild]

\* AddLinks: a batch enters whole or not at all; a self-loop is refused before the lock.
AddLinks(batch) ==
  /\ gen < MaxGen
  /\ \A i \in 1..Len(batch) : batch[i][1] # batch[i][2]
  /\ Admitted(batch, links)
  /\ links' = links \o batch /\ adj' = FoldLeft(IndexLink, adj, batch)
  /\ gen' = gen + 1
  /\ UNCHANGED <<owed, present, operOf, cached, build>>

\* RemoveLink, the endpoints in either order.
RemoveLink(i) ==
  /\ gen < MaxGen
  /\ links' = RemoveAt(links, i) /\ adj' = RebuildAdj(links')
  /\ gen' = gen + 1
  /\ UNCHANGED <<owed, present, operOf, cached, build>>

\* DeleteDevice: out of the fleet's maps, then PruneDevice before the lock is let go.
DropDevice(d) ==
  /\ gen < MaxGen /\ d \in present
  /\ present' = present \ {d}
  /\ links' = SelectSeq(links, LAMBDA l : l[1][1] # d /\ l[2][1] # d)
  /\ adj' = RebuildAdj(links') /\ gen' = gen + 1
  /\ cached' = [cached EXCEPT ![d] = NoSnapshot] /\ build' = [build EXCEPT ![d] = NoBuild]
  /\ UNCHANGED <<owed, operOf>>

\* DeleteAllDevices: the maps are emptied and the graph cleared.
ClearTopology ==
  /\ gen < MaxGen /\ present # {}
  /\ present' = {} /\ links' = <<>> /\ adj' = [d \in LldpDevices |-> {}] /\ gen' = gen + 1
  /\ cached' = [d \in LldpDevices |-> NoSnapshot] /\ build' = [d \in LldpDevices |-> NoBuild]
  /\ UNCHANGED <<owed, operOf>>

\* Creation publishes the device; the invalidation comes after the lock.
PublishDevice(d) ==
  /\ gen + owed < MaxGen /\ d \notin present
  /\ present' = present \cup {d} /\ owed' = owed + 1
  /\ operOf' = [p \in TopoPorts |-> p[1] = d \/ operOf[p]]
  /\ UNCHANGED <<links, adj, gen, cached, build>>

\* SetLinkState and ApplyAdminStatus: the slot moves, then the invalidation.
OperMoves(p) ==
  /\ gen + owed < MaxGen /\ p[1] \in present
  /\ operOf' = [operOf EXCEPT ![p] = ~@] /\ owed' = owed + 1
  /\ UNCHANGED <<links, adj, gen, present, cached, build>>

\* invalidateLLDPServedCache
Invalidate ==
  /\ owed > 0 /\ owed' = owed - 1 /\ gen' = gen + 1
  /\ UNCHANGED <<links, adj, present, operOf, cached, build>>

\* LinksFor and the rows made of them: local rows always, the alias once the peer is in
\* the fleet, the remote row while both ends are up.
LldpRow(d, l) == <<l[1], l[2], operOf[<<d, l[1]>>] /\ operOf[l[2]]>>
Resolved(d, ls) ==
  {LldpRow(d, l) : l \in {x \in ls : x[2][1] \in present}}
    \cup {<<l[1], <<>>, FALSE>> : l \in {x \in ls : x[2][1] \notin present}}

\* lldpServedOIDs: the generation first; a snapshot of that generation is served as it is.
ReadGen(d) ==
  /\ d \in present /\ build[d].pc = "idle" /\ cached[d].gen # gen
  /\ build' = [build EXCEPT ![d] = [NoBuild EXCEPT !.pc = "links", !.gen = gen]]
  /\ UNCHANGED <<links, adj, gen, owed, present, operOf, cached>>

\* buildLLDPServedOIDs: the links under the graph's lock, then the peers and the ports.
ReadLinks(d) ==
  /\ build[d].pc = "links"
  /\ build' = [build EXCEPT ![d] = [@ EXCEPT !.pc = "resolve", !.found = adj[d]]]
  /\ UNCHANGED <<links, adj, gen, owed, present, operOf, cached>>

ResolvePeers(d) ==
  /\ build[d].pc = "resolve"
  /\ build' = [build EXCEPT ![d] = [@ EXCEPT !.pc = "store", !.found = {}, !.served = Resolved(d, build[d].found)]]
  /\ UNCHANGED <<links, adj, gen, owed, present, operOf, cached>>

\* A slip: the snapshot is kept under the generation of the moment it is stored.
StoreLate(d) ==
  /\ build[d].pc = "store"
  /\ cached' = [cached EXCEPT ![d] = [gen |-> gen, served |-> build[d].served]]
  /\ build' = [build EXCEPT ![d] = NoBuild]
  /\ UNCHANGED <<links, adj, gen, owed, present, operOf>>

StoreServed(d) ==
  /\ build[d].pc = "store"
  /\ cached' = [cached EXCEPT ![d] = [gen |-> build[d].gen, served |-> build[d].served]]
  /\ build' = [build EXCEPT ![d] = NoBuild]
  /\ UNCHANGED <<links, adj, gen, owed, present, operOf>>

Batches == {<< <<p, q>> >> : p \in TopoPorts, q \in TopoPorts}
             \cup {<< <<p, q>>, <<r, p>> >> : p \in TopoPorts, q \in TopoPorts, r \in TopoPorts}

TopoNext ==
  \/ \E b \in Batches : AddLinks(b)
  \/ \E i \in 1..Len(links) : RemoveLink(i)
  \/ \E d \in LldpDevices : DropDevice(d) \/ PublishDevice(d)
  \/ ClearTopology
  \/ \E p \in TopoPorts : OperMoves(p)
  \/ Invalidate
  \/ \E d \in Walkers : ReadGen(d) \/ ReadLinks(d) \/ ResolvePeers(d) \/ StoreServed(d)

-------------------------------------------------------------------------------
\* Properties.

\* Once every change has been followed by its bump, a snapshot a walk would be served is
\* the one a fresh build would give: no interleaving of a build with link, fleet and
\* oper changes leaves stale neighbours behind the current generation.
ServedIsCurrent ==
  owed = 0 => \A d \in present : cached[d].gen = gen => cached[d].served = Resolved(d, adj[d])

\* The index answers as the list of links does, from both ends, and a port has one link:
\* a refused batch leaves nothing behind in either.
AdjacencyMirrors ==
  /\ adj = RebuildAdj(links)
  /\ \A i, j \in 1..Len(links) : i # j => {links[i][1], links[i][2]} \cap {links[j][1], links[j][2]} = {}

-------------------------------------------------------------------------------
(***************************************************************************)
(* How a device's interfaces stack (interface_hierarchy.go) and which      *)
(* counters add up (buildRollup in if_counter_rollup.go): a name           *)
(* <parent>.<unit> or a single ifStackTable row gives an interface a       *)
(* parent, two or more rows make it an aggregate.  A name is the sequence  *)
(* of its dotted parts; a unit is a number, anything else a string.        *)
(* stack holds one profile, which every property is evaluated on.          *)
(***************************************************************************)
CONSTANTS
  IfNames,    \* the names an interface may have
  MaxIfIndex, \* interfaces 1..MaxIfIndex exist
  StackRows   \* the ifStackTable rows <<higher, lower>> a profile may have

VARIABLE stack  \* [names, rows]: the profile at hand

Indexes == 1..MaxIfIndex
Least(S) == CHOOSE x \in S : \A y \in S : x <= y

\* splitSubinterfaceName: the parent name when the last part is a unit.
ParentName(name) == IF Len(name) > 1 /\ Last(name).unit THEN Front(name) ELSE <<>>

\* readStackLayers: rows naming 0, the interface itself or an unknown higher layer do
\* not count; a row naming an unknown lower layer counts and does not resolve.
RowsOf(h) == {r \in stack.rows : r[1] = h /\ r[2] # 0 /\ r[2] # h}
Lower(h) == {r[2] : r \in RowsOf(h)} \cap Indexes
StackMembers(h) == IF Cardinality(Lower(h)) >= 2 THEN Lower(h) ELSE {}

StackParent(h) == IF Cardinality(RowsOf(h)) = 1 /\ Lower(h) # {} THEN Least(Lower(h)) ELSE 0

\* interfaceParents: the name rule decides first, the stack gives a parent to what the
\* name rule leaves; of two interfaces with the parent's name the lower index wins.
NameParent(i) ==
  LET named == {j \in Indexes : stack.names[j] = ParentName(stack.names[i])} IN
  IF ParentName(stack.names[i]) = <<>> \/ named = {} \/ Least(named) = i THEN 0 ELSE Least(named)

AnyParent(i) == IF NameParent(i) # 0 THEN NameParent(i) ELSE StackParent(i)

\* A child of a child is dropped, all of them in one pass over the full table.
ParentOf(i) ==
  LET p == AnyParent(i) IN IF p # 0 /\ AnyParent(p) # 0 THEN 0 ELSE p

\* buildRollup: aggregates in index order claim the members that have no parent, are no
\* aggregates and were not claimed; one with fewer than two serves its own dial.
Aggregates == {a \in Indexes : StackMembers(a) # {} /\ ParentOf(a) = 0}
Usable(m) == ParentOf(m) = 0 /\ StackMembers(m) = {}

\* The aggregate with index a sums what the ones before it left.
summed[a \in 0..MaxIfIndex] ==
  IF a = 0 THEN {}
  ELSE LET claimed == UNION {summed[b] : b \in 0..(a - 1)}
           ms == {m \in StackMembers(a) : Usable(m) /\ m \notin claimed} IN
       IF a \in Aggregates /\ Cardinality(ms) >= 2 THEN ms ELSE {}

Summed(a) == summed[a]
-------------------------------------------------------------------------------
HierarchyInit ==
  stack \in [names : [Indexes -> IfNames], rows : {R \in SUBSET StackRows : Cardinality(R) <= 4}]

-------------------------------------------------------------------------------
\* The state engine derives a child from its parent's own word alone and cascades one
\* level, so no parent may have a parent, whatever the names and the stack table say.
OneLevel == \A i \in Indexes : ParentOf(i) # 0 => ParentOf(i) # i /\ ParentOf(ParentOf(i)) = 0

\* An interface whose stack rows name two lower layers never follows one of them, even
\* when the other row names an interface that does not exist.
BundleFollowsNobody ==
  \A i \in Indexes : Cardinality(RowsOf(i)) >= 2 /\ NameParent(i) = 0 => ParentOf(i) = 0

\* Reading a counter recurses at most child, aggregate, member: what an aggregate sums is
\* neither a child nor an aggregate, and no octet is counted in two aggregates.
RollupBounded ==
  /\ \A a \in Indexes : \A m \in Summed(a) : ParentOf(m) = 0 /\ Summed(m) = {} /\ m # a
  /\ \A a, b \in Indexes : a # b => Summed(a) \cap Summed(b) = {}

\* Cached LLDP rows of the current generation are those of the links, the two ends of
\* a link agree, and interfaces stack one level deep with no octet rolled up twice
\* (topology.go, lldp_table.go, interface_hierarchy.go, if_counter_rollup.go).
TopologyKept ==
  /\ ServedIsCurrent /\ AdjacencyMirrors /\ OneLevel
  /\ BundleFollowsNobody /\ RollupBounded
===============================================================================
