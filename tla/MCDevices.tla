------------------------------- MODULE MCDevices ------------------------------
(* The devices for TLC, one part per behaviour: how they are created and        *)
(* deleted; the tables the agent serves, its security checks and SET, the link  *)
(* graph and its cache, and how interfaces stack.                               *)
(* Profiles come with and without interfaces, with rows before, between and     *)
(* after the live columns, with and without links.                              *)
EXTENDS DeviceBatch, SnmpAgent, SnmpSecurity, Topology

CONSTANTS n1, n2

VARIABLE part

IfRows(i) == {OID(2, 1, i, 0), OID(4, 1, i, 0), OID(4, 3, i, 0)}

MCMibs ==
  {[static |-> s \cup UNION {IfRows(i) : i \in f}, ifs |-> f, metrics |-> m, cycler |-> c, lldp |-> l] :
     s \in {{}, {SysDescr, OID(1, 4, 0, 0), OID(1, 7, 0, 0)},
            {SysDescr, OID(1, 4, 0, 0), OID(2, 2, 1, 0), OID(3, 1, 0, 0), OID(5, 1, 0, 0)},
            {SysDescr, OID(3, 1, 0, 0), OID(5, 1, 0, 0), OID(5, 3, 0, 0), OID(5, 4, 0, 0)}},
     f \in {{}, {1}, {1, 3}},
     m \in {{}, {OID(5, 2, 0, 0), OID(5, 3, 0, 0)}},
     c \in BOOLEAN,
     l \in {{}, {OID(0, 1, 1, 0), OID(0, 2, 1, 0), OID(4, 4, 1, 0)}}}

\* Rows of a profile without interfaces are those of storage profiles.
Shipped ==
  {m \in MCMibs : (m.ifs = {} => OID(2, 2, 1, 0) \notin m.static) /\ (m.ifs # {} => m.cycler) /\ (m.static = {} => m.metrics = {} /\ ~m.cycler)}

Names ==
  {OID(0, 0, 0, 0), OID(0, 1, 1, 0), SysDescr, OID(1, 4, 0, 0), SysName, OID(1, 7, 0, 0), OID(2, 0, 0, 0), OID(2, 1, 1, 0), OID(2, 1, 3, 0),
   OID(2, 2, 0, 0), OID(2, 2, 1, 0), OID(2, 2, 1, 1), OID(2, 2, 9, 0), OID(2, 3, 3, 0), OID(3, 0, 0, 0),
   OID(3, 1, 0, 0), OID(4, 0, 0, 0), OID(4, 1, 3, 0), OID(4, 2, 2, 1), OID(4, 3, 1, 0), OID(4, 3, 9, 0),
   OID(5, 0, 0, 0), OID(5, 1, 0, 0), OID(5, 2, 0, 0), OID(5, 9, 0, 0), OID(6, 0, 0, 0)}

\* A GETBULK past the end under a short name, alone and beside a column that goes on.
Bulk == [version : {"v1", "v2c", "v3"}, kind : {"getbulk"}, list : {"ok"},
         names : {<<OID(1, 1, 0, 0)>>, <<OID(0, 0, 0, 0), OID(4, 1, 3, 0)>>, <<OID(1, 4, 0, 0), OID(4, 2, 2, 1), OID(5, 1, 0, 0)>>,
                  <<OID(6, 0, 0, 0)>>, <<OID(6, 0, 0, 0), OID(6, 0, 0, 0), OID(1, 1, 0, 0)>>},
         nonRep : {-1, 1, 4}, maxRep : {-1, 0, 3, 18}, maxSize : {0, 130}]

Single == [version : {"v1", "v2c", "v3"}, kind : {"get", "getnext", "other"}, list : {"ok", "malformed", "absent"},
           names : {<<o>> : o \in Names}, nonRep : {0}, maxRep : {0}, maxSize : {0}]

Several == [version : {"v1", "v2c"}, kind : {"get", "getnext"}, list : {"ok"},
            names : {<<>>, <<OID(4, 2, 9, 0), OID(4, 2, 9, 0)>>, <<SysDescr, OID(5, 9, 0, 0), OID(4, 3, 1, 0)>>,
                     <<SysName, SysDescr>>, [i \in 1..5 |-> SysName], [i \in 1..10 |-> SysName], [i \in 1..15 |-> OID(0, 0, 0, 0)]},
            nonRep : {0}, maxRep : {0}, maxSize : {0}]

MCRequests == {r \in Bulk \cup Single \cup Several : r.version # "v3" => r.maxSize = 0}

Binding(o, t, e, v, i) == [object |-> o, type |-> t, enc |-> e, value |-> v, inst |-> i]
Good == Binding("ifAdminStatus", "integer", TRUE, 2, 1)

MCSetLists ==
  {<<>>, <<Good>>, <<Good, Binding("ifAdminStatus", "integer", TRUE, 3, 2)>>,
   <<Good, Binding("ifAdminStatus", "integer", TRUE, 1, 9)>>, <<Binding("ifAdminStatus", "octets", FALSE, 4, 9)>>,
   <<Binding("sysName", "integer", TRUE, 1, 1)>>, <<Binding("ifAdminStatus", "integer", FALSE, 1, 1)>>,
   <<Binding("ifAdminStatus", "integer", TRUE, 4, 9)>>}

\* Privacy needs authentication (Validate).
MCAgents ==
  {g \in [v3 : BOOLEAN, auth : BOOLEAN, priv : BOOLEAN, minLevel : 0..3, writeCommunity : {"", "write"}] :
     (g.priv => g.auth) /\ (~g.v3 => ~g.auth /\ g.minLevel = 0) /\ (g.writeCommunity = "" <=> g.minLevel = 0)}

MCPorts == {<<n1, 1>>, <<n1, 2>>, <<n2, 1>>}

Text(s) == [unit |-> FALSE, v |-> s]
Unit(n) == [unit |-> TRUE, v |-> n]
MCIfNames == {<<Text("xe")>>, <<Text("xe"), Unit("0")>>, <<Text("xe"), Unit("0"), Unit("1")>>, <<Text("ae"), Text("x")>>}
MCStackRows == {1, 4} \X {2, 3} \cup {<<1, 9>>, <<3, 2>>, <<3, 0>>, <<3, 1>>}

\* Where the parts that are not looked at rest.
AgentRest == /\ mib = [static |-> {}, ifs |-> {}, metrics |-> {}, cycler |-> FALSE, lldp |-> {}]
             /\ req = [version |-> "v2c", kind |-> "get", list |-> "ok", names |-> <<>>, nonRep |-> 0, maxRep |-> 0, maxSize |-> 0]
             /\ answer = Pending
SecRest == /\ agent = [v3 |-> FALSE, auth |-> FALSE, priv |-> FALSE, minLevel |-> 0, writeCommunity |-> ""]
           /\ adminOf = [i \in SetIfs |-> 1] /\ clock = 0 /\ bootedAt = -1
           /\ notion = [known |-> FALSE, offset |-> 0] /\ last = NoExchange
StackRest == stack = [names |-> [i \in Indexes |-> <<Text("xe")>>], rows |-> {}]

LinkRest == TopoInit /\ present = LldpDevices

MCInit ==
  /\ part \in {"batch", "tables", "security", "links", "stack"}
  /\ BatchInit
  /\ IF part = "tables" THEN AgentInit ELSE AgentRest
  /\ IF part = "security" THEN SecInit ELSE SecRest
  /\ IF part = "links" THEN TopoInit ELSE LinkRest
  /\ IF part = "stack" THEN HierarchyInit ELSE StackRest

\* A reload begins while there is no link, the second batch has one device fewer and is
\* not rejected once it has reserved, and only the second subnet's route can fail.
BatchBound == /\ (reload = "out" /\ reload' # "out") => netdevs = {}
              /\ \A n \in Numbers : batch'[n].count \in {0, 3 - n}
              /\ batch[2].pc = "waiting" => batch'[2].pc # "ending"
              /\ routes'.failed \subseteq {1}

MCNext ==
  /\ UNCHANGED <<part, stack>>
  /\ \/ part = "batch" /\ BatchNext /\ BatchBound /\ UNCHANGED <<agentVars, secVars, topoVars>>
     \/ part = "tables" /\ AgentNext /\ UNCHANGED <<batchVars, secVars, topoVars>>
     \/ part = "security" /\ SecNext /\ UNCHANGED <<batchVars, agentVars, topoVars>>
     \/ part = "links" /\ TopoNext /\ UNCHANGED <<batchVars, agentVars, secVars>>

\* The goroutines of a request go on.
MCFairness == /\ \A n \in Numbers : WF_batchVars(part = "batch" /\ BatchGoesOn(n))
              /\ WF_batchVars(part = "batch" /\ \E c \in creators : CreatorGoesOn(c))
              /\ WF_batchVars(part = "batch" /\ reload # "out" /\ ReloadResources)

mcVars == <<part, batchVars, agentVars, secVars, topoVars, stack>>

MCSpec == MCInit /\ [][MCNext]_mcVars /\ MCFairness
===============================================================================
