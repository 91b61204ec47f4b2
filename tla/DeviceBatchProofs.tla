------------------------- MODULE DeviceBatchProofs -------------------------
(***************************************************************************)
(* What creation and deletion of devices keep, for any number of batches,  *)
(* any range of addresses, any pools and host names.                       *)
(*                                                                         *)
(* The invariant follows the gate's token to the batch that holds it,      *)
(* ties each batch's cursor to the addresses it has visited (Walk, by      *)
(* induction over the number of steps), and accounts for every link name   *)
(* by the one place that holds it: numbered ahead of nextTun, with a       *)
(* worker, in the pool, with a device being made or with a device. From    *)
(* that no two devices share an address, a link or a host name, and what   *)
(* a batch reports is what it made.                                        *)
(***************************************************************************)
EXTENDS DeviceBatch, FiniteSetTheorems, TLAPS

Held == {"in", "waiting", "launching", "walking", "ending"}
Inside == Held \cup {"locked", "hidden"}
Making == {"launching", "walking"}
Links == Nat \cup {NoLink}
SysNames == {<<>>} \cup {<<x>> : x \in SysDraws} \cup {<<x, ip>> : x \in SysDraws, ip \in Addresses}

Batches == [pc : Inside \cup {"out", "done"}, start : Int, count : Nat, left : Nat, pre : BOOLEAN,
            made : Nat, seen : SUBSET Addresses]
WorkerRec == [by : Numbers, ip : Addresses, tun : Nat, made : BOOLEAN]
CreatorRec == [by : Numbers, ip : Addresses, pc : {"link", "make", "name", "start"}, tun : Links,
               pre : BOOLEAN, name : SysNames]
DeviceRec == [tun : Links, pre : BOOLEAN, name : SysNames]

BatchTypes ==
  /\ gate \in Numbers \cup {0, Reloading} /\ token \in Numbers \cup {0}
  /\ reload \in {"out", "locked", "shown", "hidden", "done"}
  /\ batch \in [Numbers -> Batches]
  /\ cursor \in Int /\ nextTun \in Nat /\ pooled \in BOOLEAN
  /\ pool \in [Addresses -> Links]
  /\ workers \subseteq WorkerRec
  /\ creators \subseteq CreatorRec /\ IsFiniteSet(creators)
  /\ device \in [Addresses -> DeviceRec]

\* One batch is inside the gate, and the devices on their way are its own.
GateHeld ==
  /\ \A n \in Numbers : /\ batch[n].pc \in Inside <=> gate = n
                        /\ token = n <=> batch[n].pc \in Held
                        /\ batch[n].pc \in Inside => batch[n].start \in Starts
                           /\ batch[n].count \in Counts
  /\ reload \in {"locked", "shown", "hidden"} <=> gate = Reloading
  /\ \A c \in creators : batch[c.by].pc \in Making

\* A batch has visited the first addresses of its walk, and each device on its way
\* stands for one of them that had no device.
Visited(b) == {Walk(b.start, b.count)[i] : i \in 0..(b.count - b.left - 1)}
OnCourse(b, own, at) ==
  /\ b.pc \in {"locked", "in", "waiting"} => b.left = b.count /\ b.seen = {}
  /\ b.pc \in Making => b.left \in 0..b.count /\ b.seen = Visited(b)
  /\ b.pc = "walking" =>
       IF own = {}
       THEN at = Walk(b.start, b.count)[b.count - b.left]
       ELSE b.left < b.count /\ at = Walk(b.start, b.count)[b.count - b.left - 1]
  /\ b.pc = "walking" => \A c, d \in own : c = d
WalkKept ==
  /\ \A n \in Numbers : OnCourse(batch[n], Own(creators, n), cursor)
  /\ \A c \in creators : c.ip \in batch[c.by].seen /\ device[c.ip] = NoDevice
  /\ \A c, d \in creators : c.ip = d.ip => c = d

\* Every link has one holder; only the pool may hold, besides, the link that the
\* device of the same address took from it.
NumberedLinks ==
  /\ netdevs \subseteq 0..(nextTun - 1) /\ teardown \subseteq 0..(nextTun - 1)
  /\ \A w \in workers : w.tun < nextTun
  /\ \A ip \in Addresses : pool[ip] < nextTun /\ device[ip].tun < nextTun
  /\ \A c \in creators : c.tun < nextTun
WorkerLinks ==
  \A w \in workers : /\ w.tun \in netdevs <=> w.made
                     /\ \A v \in workers : v.tun = w.tun => v = w
                     /\ \A ip \in Addresses : pool[ip] # w.tun /\ device[ip].tun # w.tun
                     /\ \A c \in creators : c.tun # w.tun
                     /\ w.tun \notin teardown
PoolLinks ==
  \A ip \in Addresses : pool[ip] # NoLink =>
    /\ pool[ip] \in netdevs \ teardown
    /\ \A other \in Addresses : pool[other] = pool[ip] => other = ip
CreatorLinks ==
  \A c \in creators :
    /\ c.pc = "link" <=> c.tun = NoLink
    /\ c.pc = "make" => c.tun \notin netdevs
    /\ c.pc \in {"name", "start"} => c.tun \in netdevs
    /\ c.tun \notin teardown
    /\ c.tun # NoLink => /\ \A ip \in Addresses : pool[ip] = c.tun => ip = c.ip /\ c.pre
                         /\ \A d \in creators : d.tun = c.tun => d = c
DeviceLinks ==
  \A ip \in Addresses :
    /\ device[ip].tun = NoLink <=> device[ip] = NoDevice
    /\ device[ip] # NoDevice =>
         /\ device[ip].tun \in netdevs \ teardown
         /\ \A other \in Addresses : /\ device[other].tun = device[ip].tun => other = ip
                                     /\ pool[other] = device[ip].tun => other = ip /\ device[ip].pre
         /\ \A c \in creators : c.tun # device[ip].tun

\* Every name in use has one holder, at the address the name ends in if it has one.
NameAt(name, ip) == \E x \in SysDraws : name = <<x>> \/ name = <<x, ip>>
Waiting == {c \in creators : c.pc = "start"}
NamesHeld ==
  /\ inUse = {device[ip].name : ip \in Live} \cup {c.name : c \in Waiting}
  /\ \A ip \in Live : /\ NameAt(device[ip].name, ip)
                      /\ \A other \in Live : device[other].name = device[ip].name => other = ip
                      /\ \A c \in Waiting : c.name # device[ip].name
  /\ \A c \in Waiting : /\ NameAt(c.name, c.ip)
                        /\ \A d \in Waiting : d.name = c.name => d = c

\* A device whose route was not asked for is one that the batch inside has counted.
RoutesComing ==
  (\E n \in Numbers : batch[n].pc \in Making
  /\ batch[n].made > 0) \/ \A ip \in Live : networkCIDR(ip) \in routes.up \cup routes.failed

BatchInv == /\ BatchTypes /\ GateHeld /\ WalkKept
            /\ NumberedLinks /\ WorkerLinks /\ PoolLinks /\ CreatorLinks /\ DeviceLinks
            /\ NamesHeld /\ RoutesComing
--------------------------------------------------------------------------------
(* Numbers and walks. *)

\* Division leaves a remainder,
LEMMA Divided ==
  ASSUME NEW b \in Nat, b > 0, NEW n \in Int
  PROVE  \E q \in Int, r \in 0..(b - 1) : r = n % b /\ n = b * q + r
<1>1. n \div b \in Int
  OBVIOUS
<1>2. n % b = n - b * (n \div b)
  OBVIOUS
<1>3. n % b \in 0..(b - 1)
  OBVIOUS
<1>4. PICK q \in Int, r \in 0..(b - 1) : q = n \div b /\ r = n % b
  BY <1>1, <1>3, Zenon
<1>5. r = n - b * q
  BY <1>2, <1>4, Zenon
<1>6. n = b * q + r
  BY <1>5
<1>7. QED
  BY <1>4, <1>6, Zenon

\* and the remainders of successive numbers follow one another.
LEMMA Remainder ==
  ASSUME NEW b \in Nat, b > 0, NEW n \in Int
  PROVE  /\ n % b \in 0..(b - 1)
         /\ (n + 1) % b = IF n % b = b - 1 THEN 0 ELSE (n % b) + 1
<1>1. n % b \in 0..(b - 1) /\ (n + 1) % b \in 0..(b - 1)
  OBVIOUS
<1>2. PICK q \in Int, r \in 0..(b - 1) : r = n % b /\ n = b * q + r
  BY Divided, Zenon
<1>3. PICK p \in Int, t \in 0..(b - 1) : t = (n + 1) % b /\ n + 1 = b * p + t
  <2>1. n + 1 \in Int
    OBVIOUS
  <2>2. QED
    BY <2>1, Divided, Zenon
<1>4. PICK k \in Int : k = p - q
  OBVIOUS
<1>5. b * k = r + 1 - t
  <2>1. b * p = b * q + b * k
    BY <1>4
  <2>2. n = b * q + r /\ n + 1 = b * p + t
    BY <1>2, <1>3, Zenon
  <2>3. b * q \in Int /\ b * p \in Int /\ b * k \in Int
    OBVIOUS
  <2>4. QED
    BY <2>1, <2>2, <2>3
<1>6. k \in {0, 1}
  <2>1. k >= 2 => b * k >= 2 * b
    OBVIOUS
  <2>2. k <= -1 => b * k <= -b
    OBVIOUS
  <2>3. b * k \in Int
    OBVIOUS
  <2>4. QED
    BY <1>5, <2>1, <2>2, <2>3
<1>7. (k = 0 => t = r + 1) /\ (k = 1 => t = r + 1 - b)
  BY <1>5
<1>8. t = IF r = b - 1 THEN 0 ELSE r + 1
  BY <1>6, <1>7
<1>9. QED
  BY <1>1, <1>2, <1>3, <1>8, Zenon

\* nextHost returns a later, assignable address: at most two of three neighbours of a
\* block are not.
LEMMA NextHost ==
  ASSUME NEW n \in Int
  PROVE  nextHost(n) \in Int /\ nextHost(n) > n /\ assignableHost(nextHost(n))
<1>0. Block \in Nat /\ Block >= 4
  BY BatchAssumption, Zenon DEF BatchAssumption
<1> DEFINE Next3(m) == assignableHost(m) /\ \A k \in (n + 1)..(m - 1) : ~assignableHost(k)
<1>1. \E m \in (n + 1)..(n + 3) : Next3(m)
  <2>1. assignableHost(n + 1) \/ assignableHost(n + 2) \/ assignableHost(n + 3)
    <3>0. n + 1 \in Int /\ n + 2 \in Int /\ Block > 0
      BY <1>0
    <3>1. /\ (n + 1) % Block \in 0..(Block - 1)
          /\ ((n + 1) + 1) % Block = IF (n + 1) % Block = Block - 1 THEN 0 ELSE ((n + 1) % Block) + 1
          /\ ((n + 2) + 1) % Block = IF (n + 2) % Block = Block - 1 THEN 0 ELSE ((n + 2) % Block) + 1
      BY <1>0, <3>0, Remainder, Zenon
    <3>2. (n + 1) + 1 = n + 2 /\ (n + 2) + 1 = n + 3
      OBVIOUS
    <3>3. QED
      BY <1>0, <3>1, <3>2 DEF assignableHost
  <2>2. CASE assignableHost(n + 1)
    <3>1. (n + 1)..((n + 1) - 1) = {}
      OBVIOUS
    <3>2. QED
      BY <2>2, <3>1
  <2>3. CASE ~assignableHost(n + 1) /\ assignableHost(n + 2)
    <3>1. \A k \in (n + 1)..((n + 2) - 1) : k = n + 1
      OBVIOUS
    <3>2. QED
      BY <2>3, <3>1
  <2>4. CASE ~assignableHost(n + 1) /\ ~assignableHost(n + 2) /\ assignableHost(n + 3)
    <3>1. \A k \in (n + 1)..((n + 3) - 1) : k = n + 1 \/ k = n + 2
      OBVIOUS
    <3>2. QED
      BY <2>4, <3>1
  <2>5. QED
    BY <2>1, <2>2, <2>3, <2>4, Zenon
<1>2. nextHost(n) \in (n + 1)..(n + 3) /\ Next3(nextHost(n))
  BY <1>1, Zenon DEF nextHost
<1>3. QED
  BY <1>2

\* A set of naturals that is not empty has a least element.
LEMMA LeastNat ==
  ASSUME NEW T, T \subseteq Nat, T # {}
  PROVE  \E n \in T : \A m \in T : n <= m
<1>1. \E x \in T : \A y \in T : ~ (<<y, x>> \in OpToRel(<, Nat))
  BY NatLessThanWellFounded, WFMin, Zenon
<1>2. PICK x \in T : \A y \in T : ~ (<<y, x>> \in OpToRel(<, Nat))
  BY <1>1, Zenon
<1>3. \A y \in T : ~(y < x)
  BY <1>2, Zenon DEF OpToRel
<1>4. QED
  BY <1>3

\* Induction over the naturals, for sets.
LEMMA InductiveSet ==
  ASSUME NEW S, 0 \in S, \A n \in Nat : n \in S => n + 1 \in S
  PROVE  Nat \subseteq S
<1>1. SUFFICES ASSUME Nat \ S # {} PROVE FALSE
  BY Zenon
<1>2. PICK n \in Nat \ S : \A m \in Nat \ S : n <= m
  BY <1>1, LeastNat, Zenon
<1>3. n - 1 \in Nat /\ n - 1 \in S
  BY <1>2
<1>4. QED
  BY <1>2, <1>3

\* The walk is what its recursion says.
LEMMA WalkUnfolds ==
  ASSUME NEW s \in Int, NEW n \in Nat
  PROVE  /\ Walk(s, n) \in [0..n -> Int] /\ Walk(s, n)[0] = s
         /\ \A i \in 1..n : Walk(s, n)[i] = nextHost(Walk(s, n)[i - 1])
<1> DEFINE D(f, m) == f = [i \in 0..m |-> IF i = 0 THEN s ELSE nextHost(f[i - 1])]
           Good == {m \in Nat : \E f : D(f, m) /\ f \in [0..m -> Int]}
<1>1. 0 \in Good
  <2> DEFINE f == [i \in 0..0 |-> s]
  <2>0. \A i \in 0..0 : i = 0
    OBVIOUS
  <2>1. D(f, 0) /\ f \in [0..0 -> Int]
    BY <2>0, Zenon
  <2>2. QED
    BY <2>1, Zenon
<1>2. \A m \in Nat : m \in Good => m + 1 \in Good
  <2>0. SUFFICES ASSUME NEW m \in Nat, m \in Good PROVE m + 1 \in Good
    BY Zenon
  <2>1. PICK f : D(f, m) /\ f \in [0..m -> Int]
    BY <2>0, Zenon
  <2> DEFINE g == [i \in 0..(m + 1) |-> IF i = m + 1 THEN nextHost(f[m]) ELSE f[i]]
  <2>2. nextHost(f[m]) \in Int
    BY <2>1, NextHost
  <2>3. g \in [0..(m + 1) -> Int]
    BY <2>1, <2>2
  <2>4. \A i \in 0..(m + 1) : g[i] = IF i = 0 THEN s ELSE nextHost(g[i - 1])
    <3>1. SUFFICES ASSUME NEW i \in 0..(m + 1) PROVE g[i] = IF i = 0 THEN s ELSE nextHost(g[i - 1])
      BY Zenon
    <3>2. CASE i = m + 1
      <4>1. g[i - 1] = f[m] /\ g[i] = nextHost(f[m]) /\ i # 0
        BY <3>2
      <4>2. QED
        BY <4>1, Zenon
    <3>3. CASE i \in 0..m
      <4>1. g[i] = f[i] /\ f[i] = IF i = 0 THEN s ELSE nextHost(f[i - 1])
        BY <2>1, <3>3
      <4>2. i # 0 => g[i - 1] = f[i - 1]
        BY <3>3
      <4>3. QED
        BY <4>1, <4>2, Zenon
    <3>4. QED
      BY <3>2, <3>3
  <2>5. D(g, m + 1)
    BY <2>4, Zenon
  <2>6. m + 1 \in Nat /\ \E h : D(h, m + 1) /\ h \in [0..(m + 1) -> Int]
    <3>1. \E h : D(h, m + 1) /\ h \in [0..(m + 1) -> Int]
      <4> HIDE DEF g
      <4>1. QED
        BY <2>3, <2>5, Zenon
    <3>2. QED
      BY <3>1
  <2>7. QED
    BY <2>6, Zenon
<1>3. n \in Good
  <2> HIDE DEF Good
  <2>1. QED
    BY <1>1, <1>2, InductiveSet, Zenon
<1>4. PICK f : D(f, n) /\ f \in [0..n -> Int]
  BY <1>3, Zenon
<1>5. Walk(s, n) = CHOOSE g : D(g, n)
  BY Zenon DEF Walk
<1>6. D(CHOOSE g : D(g, n), n)
  BY <1>4, Zenon
<1>7. \A g : D(g, n) => g = f
  <2>1. SUFFICES ASSUME NEW g, D(g, n) PROVE g = f
    BY Zenon
  <2> DEFINE Same == {i \in Nat : i \in 0..n => g[i] = f[i]}
  <2>2. 0 \in Same
    BY <1>4, <2>1, Zenon
  <2>3. \A i \in Nat : i \in Same => i + 1 \in Same
    <3>1. SUFFICES ASSUME NEW i \in Nat, i \in Same, i + 1 \in 0..n PROVE g[i + 1] = f[i + 1]
      OBVIOUS
    <3>2. g[i] = f[i] /\ i + 1 # 0 /\ (i + 1) - 1 = i
      BY <3>1
    <3>3. g[i + 1] = nextHost(g[i]) /\ f[i + 1] = nextHost(f[i])
      BY <1>4, <2>1, <3>1, <3>2, Zenon
    <3>4. QED
      BY <3>2, <3>3, Zenon
  <2>4. Nat \subseteq Same
    <3> HIDE DEF Same
    <3>1. QED
      BY <2>2, <2>3, InductiveSet, Zenon
  <2>5. \A i \in 0..n : g[i] = f[i]
    BY <2>4
  <2>6. QED
    BY <1>4, <2>1, <2>5, Zenon
<1>8. Walk(s, n) = f
  BY <1>5, <1>6, <1>7, Zenon
<1>9. QED
  BY <1>4, <1>8

\* A walk goes up, so it visits no address twice, and after its start only hosts.
LEMMA WalkAscends ==
  ASSUME NEW s \in Int, NEW n \in Nat
  PROVE  /\ \A i, j \in 0..n : i < j => Walk(s, n)[i] < Walk(s, n)[j]
         /\ \A i \in 1..n : assignableHost(Walk(s, n)[i])
<1> DEFINE w == Walk(s, n)
<1>0. w \in [0..n -> Int] /\ \A i \in 1..n : w[i] = nextHost(w[i - 1])
  BY WalkUnfolds, Zenon
<1> HIDE DEF w
<1>1. \A i \in 1..n : w[i] > w[i - 1] /\ assignableHost(w[i])
  <2>1. SUFFICES ASSUME NEW i \in 1..n PROVE w[i] > w[i - 1] /\ assignableHost(w[i])
    BY Zenon
  <2>2. w[i - 1] \in Int /\ w[i] = nextHost(w[i - 1])
    BY <1>0
  <2>3. QED
    BY <2>2, NextHost, Zenon
<1>2. ASSUME NEW i \in 0..n
      PROVE  \A j \in Nat : j > i /\ j <= n => w[i] < w[j]
  <2> DEFINE Above == {j \in Nat : j > i /\ j <= n => w[i] < w[j]}
  <2>1. 0 \in Above
    OBVIOUS
  <2>2. \A j \in Nat : j \in Above => j + 1 \in Above
    <3>1. SUFFICES ASSUME NEW j \in Nat, j \in Above, j + 1 > i, j + 1 <= n PROVE w[i] < w[j + 1]
      OBVIOUS
    <3>2. w[j + 1] > w[j] /\ w[j] \in Int /\ w[j + 1] \in Int /\ w[i] \in Int
      <4>1. j + 1 \in 1..n /\ (j + 1) - 1 = j /\ j \in 0..n /\ j + 1 \in 0..n
        BY <3>1
      <4>2. w[j + 1] > w[(j + 1) - 1]
        BY <1>1, <4>1, Zenon
      <4>3. QED
        BY <1>0, <4>1, <4>2, Zenon
    <3>3. CASE j = i
      BY <3>2, <3>3, Zenon
    <3>4. CASE j > i
      BY <3>1, <3>2, <3>4
    <3>5. QED
      BY <3>1, <3>3, <3>4
  <2>3. Nat \subseteq Above
    <3> HIDE DEF Above
    <3>1. QED
      BY <2>1, <2>2, InductiveSet, Zenon
  <2>4. QED
    BY <2>3, Zenon
<1>3. QED
  BY <1>1, <1>2 DEF w
--------------------------------------------------------------------------------
(* The gate. *)

\* The conjuncts of the invariant.
LEMMA BatchFacts ==
  ASSUME BatchInv
  PROVE  /\ BatchTypes /\ GateHeld /\ WalkKept
         /\ NumberedLinks /\ WorkerLinks /\ PoolLinks /\ CreatorLinks /\ DeviceLinks
         /\ NamesHeld /\ RoutesComing
BY Zenon DEF BatchInv

\* A batch that moves on keeps its request and what it has visited.
LEMMA PcMoves ==
  ASSUME BatchTypes, NEW n \in Numbers, NEW place \in Inside, To(n, place)
  PROVE  /\ batch' \in [Numbers -> Batches]
         /\ batch'[n].pc = place
         /\ \A m \in Numbers : /\ m # n => batch'[m] = batch[m]
                               /\ batch'[m].start = batch[m].start /\ batch'[m].count = batch[m].count
                               /\ batch'[m].left = batch[m].left /\ batch'[m].seen = batch[m].seen
                               /\ batch'[m].made = batch[m].made /\ batch'[m].pre = batch[m].pre
<1>1. batch \in [Numbers -> Batches] /\ batch' = [batch EXCEPT ![n].pc = place]
  BY Zenon DEF BatchTypes, To
<1>2. batch'[n] = [batch[n] EXCEPT !.pc = place] /\ \A m \in Numbers : m # n => batch'[m] = batch[m]
  BY <1>1, Zenon
<1>3. batch[n] \in Batches
  BY <1>1, Zenon
<1>4. batch'[n] \in Batches
  BY <1>2, <1>3, Zenon DEF Batches
<1>5. batch' \in [Numbers -> Batches]
  BY <1>1, <1>2, <1>4, Zenon
<1>6. /\ batch'[n].pc = place
      /\ batch'[n].start = batch[n].start /\ batch'[n].count = batch[n].count
      /\ batch'[n].left = batch[n].left /\ batch'[n].seen = batch[n].seen
      /\ batch'[n].made = batch[n].made /\ batch'[n].pre = batch[n].pre
  BY <1>2, <1>3, Zenon DEF Batches
<1>7. QED
  BY <1>2, <1>5, <1>6, Zenon

\* A step that touches neither a link nor a device leaves their invariants alone.
LEMMA LinksLeft ==
  ASSUME BatchInv, UNCHANGED <<linkVars, creators, device>>
  PROVE  NumberedLinks' /\ WorkerLinks' /\ PoolLinks' /\ CreatorLinks' /\ DeviceLinks'
<1>1. UNCHANGED <<nextTun, pool, workers, netdevs, teardown, creators, device>>
  BY Zenon DEF linkVars
<1>2. NumberedLinks' /\ WorkerLinks'
  BY <1>1, BatchFacts, Zenon DEF NumberedLinks, WorkerLinks
<1>3. PoolLinks' /\ CreatorLinks' /\ DeviceLinks'
  BY <1>1, BatchFacts DEF PoolLinks, CreatorLinks, DeviceLinks
<1>4. QED
  BY <1>2, <1>3, Zenon

\* A step that leaves the walks alone keeps their part of the invariant.
LEMMA WalkLeft ==
  ASSUME BatchInv, UNCHANGED <<batch, cursor, creators, device>>
  PROVE  WalkKept'
BY BatchFacts, Zenon DEF WalkKept

\* A step that leaves the fleet alone keeps the host names.
LEMMA NamesLeft ==
  ASSUME BatchInv, UNCHANGED fleetVars
  PROVE  NamesHeld'
BY BatchFacts DEF fleetVars, NamesHeld, Live, Waiting

\* The holder is the only batch inside.
LEMMA OneInside ==
  ASSUME BatchInv, NEW n \in Numbers, NEW m \in Numbers, batch[n].pc \in Inside,
         batch[m].pc \in Inside
  PROVE  m = n
BY BatchFacts, Zenon DEF GateHeld

\* The token that a reload takes is no batch number and not zero.
LEMMA NumbersPositive == 0 \notin Numbers /\ Reloading \notin Numbers /\ Reloading # 0
BY BatchAssumption DEF Numbers, Reloading, BatchAssumption

\* TryEnter keeps the invariant.
LEMMA TryEnterKeeps ==
  ASSUME BatchInv, NEW n \in Numbers, NEW start \in Starts, NEW count \in Counts, NEW pre \in BOOLEAN,
         TryEnter(n, start, count, pre)
  PROVE  BatchInv'
<1> DEFINE b == [NoBatch EXCEPT !.pc = "locked", !.start = start, !.count = count, !.left = count,
    !.pre = pre]
<1>1. /\ UNCHANGED <<token, reload, cursor, linkVars, creators, device, inUse, routes>>
      /\ gate = 0 /\ gate' = n /\ batch[n] = NoBatch /\ batch' = [batch EXCEPT ![n] = b]
  BY Zenon DEF TryEnter, fleetVars
<1>2. /\ b \in Batches /\ b.pc = "locked" /\ b.start = start /\ b.count = count /\ b.left = count
         /\ b.seen = {}
      /\ b.made = 0
  <2>1. start \in Int /\ count \in Nat
    BY BatchAssumption DEF Addresses, BatchAssumption
  <2>2. NoBatch \in Batches /\ NoBatch.seen = {} /\ NoBatch.made = 0
    BY DEF NoBatch, Batches
  <2>3. QED
    BY <2>1, <2>2, Zenon DEF Batches, Inside
<1> HIDE DEF b
<1>3. batch' \in [Numbers -> Batches] /\ batch'[n] = b /\ \A m \in Numbers : m # n
      => batch'[m] = batch[m]
  BY <1>1, <1>2, BatchFacts, Zenon DEF BatchTypes
<1>4. BatchTypes'
  BY <1>1, <1>3, BatchFacts, Zenon DEF BatchTypes, linkVars
<1>5. \A m \in Numbers : batch[m].pc \notin Inside
  BY <1>1, BatchFacts, NumbersPositive, Zenon DEF GateHeld
<1>6. creators = {}
  BY <1>5, BatchFacts, Zenon DEF GateHeld, Making, Inside, Held, BatchTypes, CreatorRec
<1>7. GateHeld'
  BY <1>1, <1>2, <1>3, <1>5, <1>6, BatchFacts, NumbersPositive DEF GateHeld, Inside, Held
<1>8. WalkKept'
  BY <1>1, <1>2, <1>3, <1>5, <1>6, Zenon DEF WalkKept, OnCourse, Inside, Held, Making, Own
<1>9. RoutesComing'
  <2>1. \A ip \in Live : networkCIDR(ip) \in routes.up \cup routes.failed
    BY <1>5, BatchFacts, Zenon DEF RoutesComing, Inside, Held, Making
  <2>2. Live' = Live
    BY <1>1, Zenon DEF Live
  <2>3. QED
    BY <1>1, <2>1, <2>2, Zenon DEF RoutesComing
<1>10. QED
  BY <1>1, <1>4, <1>7, <1>8, <1>9, LinksLeft, NamesLeft, Zenon DEF BatchInv, fleetVars

\* The token is shown and taken back inside the gate.
LEMMA MovesKeep ==
  ASSUME BatchInv, NEW n \in Numbers, ShowToken(n) \/ HideToken(n) \/ Reject(n)
  PROVE  BatchInv'
<1>1. PICK place \in Inside :
        /\ To(n, place) /\ place \notin Making /\ batch[n].pc \in Inside \ Making
        /\ place \in {"locked", "in", "waiting"} => batch[n].pc \in {"locked", "in", "waiting"}
        /\ token' = IF place \in Held THEN n ELSE 0
  <2>1. CASE ShowToken(n)
    BY <2>1, Zenon DEF ShowToken, Inside, Held, Making
  <2>2. CASE HideToken(n)
    BY <2>2 DEF HideToken, Inside, Held, Making
  <2>3. CASE Reject(n)
    BY <2>3, BatchFacts, Zenon DEF Reject, Inside, Held, Making, gateVars, GateHeld
  <2>4. QED
    BY <2>1, <2>2, <2>3, Zenon
<1>2. UNCHANGED <<gate, reload, cursor, linkVars, creators, device, inUse, routes>>
  BY Zenon DEF ShowToken, HideToken, Reject, fleetVars, gateVars
<1>3. /\ batch' \in [Numbers -> Batches] /\ batch'[n].pc = place
      /\ \A m \in Numbers : /\ m # n => batch'[m] = batch[m]
                            /\ batch'[m].start = batch[m].start /\ batch'[m].count = batch[m].count
                            /\ batch'[m].left = batch[m].left /\ batch'[m].seen = batch[m].seen
  BY <1>1, BatchFacts, PcMoves, Zenon
<1>4. BatchTypes'
  BY <1>1, <1>2, <1>3, BatchFacts, Zenon DEF BatchTypes, linkVars
<1>5. creators = {}
  BY <1>1, OneInside, BatchFacts DEF GateHeld, BatchTypes, CreatorRec, Making, Inside, Held
<1>6. GateHeld'
  <2>1. \A m \in Numbers : m # n => batch[m].pc \notin Inside
    BY <1>1, OneInside, Zenon
  <2>2. QED
    BY <1>1, <1>2, <1>3, <1>5, <2>1, BatchFacts, NumbersPositive, Zenon DEF GateHeld, Inside, Held
<1>7. WalkKept'
  BY <1>1, <1>2, <1>3, <1>5, BatchFacts DEF WalkKept, OnCourse, Making, Own, Visited
<1>8. RoutesComing'
  <2>1. \A m \in Numbers : batch[m].pc \notin Making
    BY <1>1, OneInside, Zenon DEF Making, Inside, Held
  <2>2. Live' = Live
    BY <1>2, Zenon DEF Live
  <2>3. QED
    BY <1>2, <2>1, <2>2, BatchFacts, Zenon DEF RoutesComing
<1>9. QED
  BY <1>2, <1>4, <1>6, <1>7, <1>8, LinksLeft, NamesLeft, Zenon DEF BatchInv, fleetVars

\* Unlock keeps the invariant.
LEMMA UnlockKeeps ==
  ASSUME BatchInv, NEW n \in Numbers, Unlock(n)
  PROVE  BatchInv'
<1> DEFINE b == [NoBatch EXCEPT !.pc = "done"]
<1>1. /\ UNCHANGED <<token, reload, cursor, linkVars, creators, device, inUse, routes>>
      /\ gate' = 0 /\ batch[n].pc = "hidden" /\ batch' = [batch EXCEPT ![n] = b]
  BY Zenon DEF Unlock, fleetVars
<1>2. b \in Batches /\ b.pc = "done"
  <2>1. NoBatch \in Batches
    BY DEF NoBatch, Batches
  <2>2. QED
    BY <2>1, Zenon DEF Batches
<1> HIDE DEF b
<1>3. batch' \in [Numbers -> Batches] /\ batch'[n] = b /\ \A m \in Numbers : m # n
      => batch'[m] = batch[m]
  BY <1>1, <1>2, BatchFacts, Zenon DEF BatchTypes
<1>4. BatchTypes'
  BY <1>1, <1>3, BatchFacts, Zenon DEF BatchTypes, linkVars
<1>5. \A m \in Numbers : m # n => batch[m].pc \notin Inside
  BY <1>1, OneInside, Zenon DEF Inside
<1>6. creators = {}
  BY <1>1, <1>5, BatchFacts, Zenon DEF GateHeld, BatchTypes, CreatorRec, Making, Inside, Held
<1>7. GateHeld'
  BY <1>1, <1>2, <1>3, <1>5, <1>6, BatchFacts, NumbersPositive, Zenon DEF GateHeld, Inside, Held
<1>8. WalkKept'
  BY <1>1, <1>2, <1>3, <1>5, <1>6, BatchFacts DEF WalkKept, OnCourse, Making, Own, Visited
<1>9. RoutesComing'
  <2>1. \A m \in Numbers : batch[m].pc \notin Making
    BY <1>1, <1>5, Zenon DEF Making, Inside, Held
  <2>2. Live' = Live
    BY <1>1, Zenon DEF Live
  <2>3. QED
    BY <1>1, <2>1, <2>2, BatchFacts, Zenon DEF RoutesComing
<1>10. QED
  BY <1>1, <1>4, <1>7, <1>8, <1>9, LinksLeft, NamesLeft, Zenon DEF BatchInv, fleetVars

\* Reload keeps the invariant.
LEMMA ReloadKeeps ==
  ASSUME BatchInv, ReloadResources
  PROVE  BatchInv'
<1>1. UNCHANGED <<token, batch, cursor, linkVars, creators, device, inUse, routes>>
  BY Zenon DEF ReloadResources, fleetVars
<1>2. BatchTypes'
  BY <1>1, BatchFacts, Zenon DEF BatchTypes, linkVars, ReloadResources
<1>3. GateHeld'
  <2>1. \A m \in Numbers : (gate = m) <=> (gate' = m)
    BY BatchFacts, NumbersPositive, Zenon DEF ReloadResources, GateHeld
  <2>2. reload' \in {"locked", "shown", "hidden"} <=> gate' = Reloading
    BY BatchFacts, NumbersPositive, Zenon DEF ReloadResources, GateHeld
  <2>3. QED
    BY <1>1, <2>1, <2>2, BatchFacts, Zenon DEF GateHeld
<1>4. WalkKept' /\ RoutesComing'
  <2>1. Live' = Live
    BY <1>1, Zenon DEF Live
  <2>2. WalkKept'
    BY <1>1, WalkLeft, Zenon
  <2>3. RoutesComing'
    BY <1>1, <2>1, BatchFacts, Zenon DEF RoutesComing
  <2>4. QED
    BY <2>2, <2>3
<1>5. QED
  BY <1>1, <1>2, <1>3, <1>4, LinksLeft, NamesLeft, Zenon DEF BatchInv, fleetVars

--------------------------------------------------------------------------------
(* The course of a batch. *)

\* The walk of a batch inside the gate.
LEMMA WalkOf ==
  ASSUME BatchInv, NEW n \in Numbers, batch[n].pc \in Inside
  PROVE  LET b == batch[n]  w == Walk(b.start, b.count) IN
         /\ b.start \in Int /\ b.count \in Nat /\ b.count > 0
         /\ w \in [0..b.count -> Int] /\ w[0] = b.start
         /\ \A i \in 1..b.count : w[i] = nextHost(w[i - 1])
         /\ \A i, j \in 0..b.count : w[i] = w[j] => i = j
         /\ \A i \in 1..b.count : assignableHost(w[i])
         /\ \A i \in 0..(b.count - 1) : w[i] \in Addresses
<1> DEFINE b == batch[n]
           w == Walk(b.start, b.count)
<1>1. b.start \in Starts /\ b.count \in Counts
  BY BatchFacts, Zenon DEF GateHeld
<1>2. b.start \in Int /\ b.count \in Nat /\ b.count > 0
  <2>1. b.start \in Addresses /\ b.count \in Nat \ {0} /\ MaxAddress \in Nat
    BY <1>1, BatchAssumption, Zenon DEF BatchAssumption
  <2>2. QED
    BY <2>1 DEF Addresses
<1>3. \A i \in 0..(b.count - 1) : w[i] \in Addresses
  BY <1>1, BatchAssumption, Zenon DEF BatchAssumption
<1>4. w \in [0..b.count -> Int] /\ w[0] = b.start /\ \A i \in 1..b.count : w[i] = nextHost(w[i - 1])
  BY <1>2, WalkUnfolds, Zenon
<1>5. /\ \A i, j \in 0..b.count : i < j => w[i] < w[j]
      /\ \A i \in 1..b.count : assignableHost(w[i])
  BY <1>2, WalkAscends, Zenon
<1> HIDE DEF w, b
<1>6. \A i, j \in 0..b.count : w[i] = w[j] => i = j
  <2>1. SUFFICES ASSUME NEW i \in 0..b.count, NEW j \in 0..b.count, w[i] = w[j], i # j PROVE FALSE
    BY Zenon
  <2>2. w[i] \in Int /\ w[j] \in Int /\ (i < j \/ j < i)
    BY <1>2, <1>4, <2>1
  <2>3. QED
    BY <1>5, <2>1, <2>2
<1>7. QED
  BY <1>2, <1>3, <1>4, <1>5, <1>6, Zenon DEF b, w

\* No device is being made for a batch that has not begun to make any.
LEMMA NoCreators ==
  ASSUME BatchInv, NEW n \in Numbers, batch[n].pc \in Inside \ Making
  PROVE  creators = {} /\ \A m \in Numbers : batch[m].pc \notin Making
<1>1. \A m \in Numbers : batch[m].pc \notin Making
  BY OneInside, Zenon DEF Making, Inside, Held
<1>2. QED
  BY <1>1, BatchFacts, Zenon DEF GateHeld, BatchTypes, CreatorRec

\* PreAllocate keeps the invariant.
LEMMA PreAllocateKeeps ==
  ASSUME BatchInv, NEW n \in Numbers, PreAllocate(n)
  PROVE  BatchInv'
<1> DEFINE b == batch[n]
           ip == Walk(b.start, b.count)
           new == {[by |-> n, ip |-> ip[i], tun |-> nextTun + i,
           made |-> FALSE] : i \in 0..(b.count - 1)}
<1>1. /\ b.pc = "in" /\ To(n, "waiting") /\ nextTun' = nextTun + b.count /\ pooled' = TRUE
      /\ cursor' = ip[b.count] /\ workers' = workers \cup new
      /\ UNCHANGED <<gate, token, reload, pool, netdevs, teardown, creators, device, inUse, routes>>
  BY Zenon DEF PreAllocate, IndexAfter, gateVars, fleetVars
<1>2. /\ b.count \in Nat /\ ip \in [0..b.count -> Int]
         /\ \A i \in 0..(b.count - 1) : ip[i] \in Addresses
  BY <1>1, WalkOf, Zenon DEF Inside, Held
<1>3. /\ batch' \in [Numbers -> Batches] /\ batch'[n].pc = "waiting"
      /\ \A m \in Numbers : /\ m # n => batch'[m] = batch[m]
                            /\ batch'[m].start = batch[m].start /\ batch'[m].count = batch[m].count
                            /\ batch'[m].left = batch[m].left /\ batch'[m].seen = batch[m].seen
  BY <1>1, BatchFacts, PcMoves, Zenon DEF Inside, Held
<1>4. creators = {} /\ \A m \in Numbers : batch[m].pc \notin Making
  BY <1>1, NoCreators, Zenon DEF Inside, Held, Making
<1>5. nextTun \in Nat /\ nextTun' \in Nat /\ nextTun <= nextTun' /\ cursor' \in Int
  BY <1>1, <1>2, BatchFacts DEF BatchTypes
<1>6. \A v \in new : v \in WorkerRec /\ v.made = FALSE /\ v.tun >= nextTun /\ v.tun < nextTun'
  <2>1. SUFFICES ASSUME NEW v \in new
                 PROVE  v \in WorkerRec /\ v.made = FALSE /\ v.tun >= nextTun /\ v.tun < nextTun'
    BY Zenon
  <2>2. PICK i \in 0..(b.count - 1) : v = [by |-> n, ip |-> ip[i], tun |-> nextTun + i,
        made |-> FALSE]
    BY Zenon
  <2>3. nextTun + i \in Nat /\ nextTun + i >= nextTun /\ nextTun + i < nextTun + b.count
    BY <1>2, <1>5
  <2>4. QED
    BY <1>1, <1>2, <2>2, <2>3, Zenon DEF WorkerRec
<1>7. \A v, w \in new : v.tun = w.tun => v = w
  <2>1. SUFFICES ASSUME NEW v \in new, NEW w \in new, v.tun = w.tun PROVE v = w
    BY Zenon
  <2>2. PICK i \in 0..(b.count - 1) : v = [by |-> n, ip |-> ip[i], tun |-> nextTun + i,
        made |-> FALSE]
    BY Zenon
  <2>3. PICK j \in 0..(b.count - 1) : w = [by |-> n, ip |-> ip[j], tun |-> nextTun + j,
        made |-> FALSE]
    BY Zenon
  <2>4. nextTun + i = nextTun + j
    BY <2>1, <2>2, <2>3, Zenon
  <2>5. i = j
    BY <1>2, <1>5, <2>4
  <2>6. QED
    BY <2>2, <2>3, <2>5, Zenon
<1> HIDE DEF new, ip
<1>8. BatchTypes'
  <2>1. workers' \subseteq WorkerRec
    BY <1>1, <1>6, BatchFacts, Zenon DEF BatchTypes
  <2>2. QED
    BY <1>1, <1>3, <1>5, <2>1, BatchFacts, Zenon DEF BatchTypes
<1>9. GateHeld'
  BY <1>1, <1>3, <1>4, BatchFacts, Zenon DEF GateHeld, Inside, Held
<1>10. WalkKept'
  BY <1>1, <1>3, <1>4, BatchFacts DEF WalkKept, OnCourse, Making
<1>11. NumberedLinks'
  <2>1. netdevs \subseteq 0..(nextTun' - 1) /\ teardown \subseteq 0..(nextTun' - 1)
    BY <1>5, BatchFacts DEF NumberedLinks
  <2>2. \A w \in workers' : w.tun < nextTun'
    BY <1>1, <1>5, <1>6, BatchFacts DEF NumberedLinks, BatchTypes, WorkerRec
  <2>3. \A x \in Addresses : pool[x] < nextTun' /\ device[x].tun < nextTun'
    BY <1>5, BatchFacts DEF NumberedLinks, BatchTypes, DeviceRec, Links, NoLink
  <2>4. QED
    BY <1>1, <1>4, <2>1, <2>2, <2>3, Zenon DEF NumberedLinks
<1>12. WorkerLinks'
  <2>1. \A v \in new : /\ v.tun \notin netdevs /\ v.tun \notin teardown
                       /\ \A w \in workers : w.tun # v.tun
                       /\ \A x \in Addresses : pool[x] # v.tun /\ device[x].tun # v.tun
    <3>1. SUFFICES ASSUME NEW v \in new
                   PROVE  /\ v.tun \notin netdevs /\ v.tun \notin teardown
                          /\ \A w \in workers : w.tun # v.tun
                          /\ \A x \in Addresses : pool[x] # v.tun /\ device[x].tun # v.tun
      BY Zenon
    <3>2. v.tun \in Nat /\ ~(v.tun < nextTun)
      BY <1>5, <1>6 DEF WorkerRec
    <3>3. v.tun \notin netdevs /\ v.tun \notin teardown
      BY <1>5, <3>2, BatchFacts DEF NumberedLinks
    <3>4. QED
      BY <3>2, <3>3, BatchFacts, Zenon DEF NumberedLinks
  <2>2. QED
    BY <1>1, <1>4, <1>6, <1>7, <2>1, BatchFacts, Zenon DEF WorkerLinks
<1>13. PoolLinks' /\ CreatorLinks' /\ DeviceLinks'
  BY <1>1, BatchFacts DEF PoolLinks, CreatorLinks, DeviceLinks
<1>14. RoutesComing'
  <2>1. Live' = Live
    BY <1>1, Zenon DEF Live
  <2>2. QED
    BY <1>1, <1>4, <2>1, BatchFacts, Zenon DEF RoutesComing
<1>15. QED
  BY <1>1, <1>8, <1>9, <1>10, <1>11, <1>12, <1>13, <1>14, NamesLeft, Zenon DEF BatchInv, fleetVars

\* Rewind keeps the invariant.
LEMMA RewindKeeps ==
  ASSUME BatchInv, NEW n \in Numbers, Rewind(n)
  PROVE  BatchInv'
<1> DEFINE b == batch[n]
           place == IF pooled THEN "launching" ELSE "walking"
<1>1. /\ b.pc \in {"in", "waiting"} /\ cursor' = b.start /\ To(n, place) /\ place \in Making
      /\ UNCHANGED <<gate, token, reload, linkVars, creators, device, inUse, routes>>
  BY Zenon DEF Rewind, gateVars, fleetVars, Making
<1> HIDE DEF place
<1>2. /\ batch' \in [Numbers -> Batches] /\ batch'[n].pc = place
      /\ \A m \in Numbers : /\ m # n => batch'[m] = batch[m]
                            /\ batch'[m].start = batch[m].start /\ batch'[m].count = batch[m].count
                            /\ batch'[m].left = batch[m].left /\ batch'[m].seen = batch[m].seen
  <2>1. place \in Inside
    BY <1>1, Zenon DEF Making, Inside, Held
  <2>2. QED
    BY <1>1, <2>1, BatchFacts, PcMoves, Zenon
<1>3. creators = {} /\ \A m \in Numbers : batch[m].pc \notin Making
  BY <1>1, NoCreators, Zenon DEF Inside, Held, Making
<1>4. b.count \in Nat /\ b.start \in Int /\ Walk(b.start, b.count)[0] = b.start
  BY <1>1, WalkOf, Zenon DEF Inside, Held
<1>5. BatchTypes'
  BY <1>1, <1>2, <1>4, BatchFacts, Zenon DEF BatchTypes, linkVars
<1>6. GateHeld'
  BY <1>1, <1>2, <1>3, BatchFacts, Zenon DEF GateHeld, Inside, Held, Making
<1>7. WalkKept'
  <2>1. b.left = b.count /\ b.seen = {}
    BY <1>1, BatchFacts, Zenon DEF WalkKept, OnCourse
  <2>2. Visited(b) = {} /\ b.count - b.left = 0 /\ b.left \in 0..b.count
    BY <1>4, <2>1 DEF Visited
  <2>3. Visited(batch'[n]) = {}
    BY <1>2, <2>2 DEF Visited
  <2>4. batch'[n].pc \notin {"locked", "in", "waiting"}
    BY <1>1, <1>2, Zenon DEF Making
  <2>5. \A m \in Numbers : Own(creators', m) = {}
    BY <1>1, <1>3, Zenon DEF Own
  <2>6. ASSUME NEW m \in Numbers, m # n
        PROVE  /\ batch'[m] = batch[m] /\ batch'[m].pc \notin Making
               /\ batch'[m].pc \in {"locked", "in", "waiting"} => batch'[m].left = batch'[m].count
                  /\ batch'[m].seen = {}
    BY <1>2, <1>3, <2>6, BatchFacts, Zenon DEF WalkKept, OnCourse
  <2>7. cursor' = Walk(batch'[n].start, batch'[n].count)[batch'[n].count - batch'[n].left]
    BY <1>1, <1>2, <1>4, <2>2, Zenon
  <2>8. /\ batch'[n].left \in 0..batch'[n].count /\ batch'[n].seen = Visited(batch'[n])
    BY <1>2, <2>1, <2>2, <2>3, Zenon
  <2>9. creators' = {}
    BY <1>1, <1>3, Zenon
  <2>10. QED
    BY <2>4, <2>5, <2>6, <2>7, <2>8, <2>9, Zenon DEF WalkKept, OnCourse, Making
<1>8. RoutesComing'
  <2>1. Live' = Live
    BY <1>1, Zenon DEF Live
  <2>2. QED
    BY <1>1, <1>3, <2>1, BatchFacts, Zenon DEF RoutesComing
<1>9. QED
  BY <1>1, <1>5, <1>6, <1>7, <1>8, LinksLeft, NamesLeft, Zenon DEF BatchInv, fleetVars

\* Finish keeps the invariant.
LEMMA FinishKeeps ==
  ASSUME BatchInv, NEW n \in Numbers, Finish(n)
  PROVE  BatchInv'
<1>1. /\ batch[n].pc \in Making /\ Own(creators, n) = {} /\ To(n, "ending")
      /\ batch[n].made > 0 => \E added : routes' = RoutesAfter(RoutesFor(batch[n]), added)
      /\ ~(batch[n].made > 0) => routes' = routes
      /\ UNCHANGED <<gate, token, reload, cursor, linkVars, creators, device, inUse>>
  BY Zenon DEF Finish, gateVars, fleetVars, Making
<1>2. /\ batch' \in [Numbers -> Batches] /\ batch'[n].pc = "ending"
      /\ \A m \in Numbers : /\ m # n => batch'[m] = batch[m]
                            /\ batch'[m].start = batch[m].start /\ batch'[m].count = batch[m].count
                            /\ batch'[m].left = batch[m].left /\ batch'[m].seen = batch[m].seen
  BY <1>1, BatchFacts, PcMoves, Zenon DEF Inside, Held
<1>3. \A m \in Numbers : m # n => batch[m].pc \notin Inside
  BY <1>1, OneInside, Zenon DEF Making, Inside, Held
<1>4. creators = {}
  BY <1>1, <1>3, BatchFacts, Zenon DEF Own, GateHeld, BatchTypes, CreatorRec, Making, Inside, Held
<1>5. BatchTypes'
  BY <1>1, <1>2, BatchFacts, Zenon DEF BatchTypes, linkVars
<1>6. GateHeld'
  BY <1>1, <1>2, <1>4, BatchFacts, Zenon DEF GateHeld, Inside, Held, Making
<1>7. WalkKept'
  BY <1>1, <1>2, <1>3, <1>4, BatchFacts DEF WalkKept, OnCourse, Making, Inside, Held, Own
<1>8. RoutesComing'
  <2>1. Live' = Live /\ \A ip \in Live : networkCIDR(ip) \in RoutesFor(batch[n])
    BY <1>1, Zenon DEF Live, RoutesFor
  <2>2. ~(batch[n].made > 0) => \A ip \in Live : networkCIDR(ip) \in routes.up \cup routes.failed
    BY <1>3, BatchFacts, Zenon DEF RoutesComing, Making, Inside, Held
  <2>3. batch[n].made > 0 => RoutesFor(batch[n]) \subseteq routes'.up \cup routes'.failed
    BY <1>1 DEF RoutesAfter
  <2>4. \A ip \in Live : networkCIDR(ip) \in routes'.up \cup routes'.failed
    BY <1>1, <2>1, <2>2, <2>3, Zenon
  <2>5. QED
    BY <2>1, <2>4, Zenon DEF RoutesComing
<1>9. QED
  BY <1>1, <1>5, <1>6, <1>7, <1>8, LinksLeft, NamesLeft, Zenon DEF BatchInv, fleetVars

\* A visit to the next address of the walk: it had no visit before, so the device that
\* is started for it is the only one on its way to that address.
LEMMA VisitKeeps ==
  ASSUME BatchInv, NEW n \in Numbers, NEW ip,
         batch[n].pc \in Making, batch[n].left > 0,
         ip = Walk(batch[n].start, batch[n].count)[batch[n].count - batch[n].left],
         Visit(n, ip),
         batch[n].pc = "walking" => /\ Own(creators, n) = {}
                                    /\ cursor' = IF device[ip] # NoDevice THEN nextHost(cursor) ELSE cursor,
         batch[n].pc = "launching" => cursor' = cursor,
         UNCHANGED <<gateVars, linkVars, device, inUse, routes>>
  PROVE  BatchInv'
<1> DEFINE b == batch[n]
           w == Walk(b.start, b.count)
           i == b.count - b.left
           made == device[ip] # NoDevice
           c == Creator(n, ip)
<1>0. UNCHANGED <<gate, token, reload, nextTun, pooled, pool, workers, netdevs, teardown>>
  BY Zenon DEF gateVars, linkVars
<1>1. /\ b.start \in Int /\ b.count \in Nat /\ b.count > 0 /\ w \in [0..b.count -> Int]
      /\ \A k \in 1..b.count : w[k] = nextHost(w[k - 1])
      /\ \A k, j \in 0..b.count : w[k] = w[j] => k = j
      /\ \A k \in 0..(b.count - 1) : w[k] \in Addresses
  BY WalkOf, Zenon DEF Making, Inside, Held
<1>2. b \in Batches /\ b.left \in 0..b.count /\ b.seen = Visited(b)
  BY BatchFacts, Zenon DEF BatchTypes, WalkKept, OnCourse
<1>3. i \in 0..(b.count - 1) /\ i + 1 \in 1..b.count /\ ip = w[i] /\ ip \in Addresses
  BY <1>1, <1>2, SMTT(20)
<1>4. b.seen = {w[k] : k \in 0..(i - 1)} /\ ip \notin b.seen
  <2>1. b.seen = {w[k] : k \in 0..(i - 1)}
    BY <1>2, Zenon DEF Visited
  <2>2. ASSUME NEW k \in 0..(i - 1) PROVE w[k] # ip
    <3>1. k \in 0..b.count /\ i \in 0..b.count /\ k # i
      BY <1>1, <1>3
    <3>2. QED
      BY <1>1, <1>3, <3>1, Zenon
  <2>3. QED
    BY <2>1, <2>2, Zenon
<1>5. /\ batch' \in [Numbers -> Batches]
      /\ \A m \in Numbers : m # n => batch'[m] = batch[m]
      /\ batch'[n].pc = b.pc /\ batch'[n].start = b.start /\ batch'[n].count = b.count
      /\ batch'[n].left = b.left - 1 /\ batch'[n].seen = b.seen \cup {ip}
      /\ batch'[n].made = b.made + (IF made THEN 1 ELSE 0)
  <2>1. batch \in [Numbers -> Batches]
        /\ batch' = [batch EXCEPT ![n].left = @ - 1, ![n].seen = @ \cup {ip},
           ![n].made = @ + IF made THEN 1 ELSE 0]
    BY BatchFacts, Zenon DEF BatchTypes, Visit
  <2>2. /\ batch'[n] = [b EXCEPT !.left = @ - 1, !.seen = @ \cup {ip},
           !.made = @ + IF made THEN 1 ELSE 0]
        /\ \A m \in Numbers : m # n => batch'[m] = batch[m]
    BY <2>1, Zenon
  <2>3. b.left - 1 \in Nat /\ b.made + (IF made THEN 1 ELSE 0) \in Nat
        /\ b.seen \cup {ip} \in SUBSET Addresses
    BY <1>2, <1>3 DEF Batches
  <2>4. /\ batch'[n] \in Batches
        /\ batch'[n].pc = b.pc /\ batch'[n].start = b.start /\ batch'[n].count = b.count
        /\ batch'[n].left = b.left - 1 /\ batch'[n].seen = b.seen \cup {ip}
        /\ batch'[n].made = b.made + (IF made THEN 1 ELSE 0)
    BY <1>2, <2>2, <2>3, Zenon DEF Batches
  <2>5. batch' \in [Numbers -> Batches]
    BY <2>1, <2>2, <2>4, Zenon
  <2>6. QED
    BY <2>2, <2>4, <2>5, Zenon
<1>6. creators' = IF made THEN creators ELSE creators \cup {c}
  BY Zenon DEF Visit
<1>7. /\ c \in CreatorRec /\ c.by = n /\ c.ip = ip /\ c.pc = "link" /\ c.tun = NoLink
  BY <1>3 DEF Creator, CreatorRec, Links, SysNames
<1> HIDE DEF w, i, c, made
<1>8. cursor' \in Int
  <2>1. cursor \in Int
    BY BatchFacts, Zenon DEF BatchTypes
  <2>2. QED
    BY <2>1, NextHost, Zenon DEF Making
<1>9. BatchTypes'
  <2>1. creators' \subseteq CreatorRec /\ IsFiniteSet(creators')
    BY <1>6, <1>7, BatchFacts, FS_AddElement, Zenon DEF BatchTypes
  <2>2. QED
    BY <1>0, <1>5, <1>8, <2>1, BatchFacts, Zenon DEF BatchTypes
<1>10. GateHeld'
  <2>1. \A m \in Numbers : /\ batch'[m].pc = batch[m].pc
                           /\ batch'[m].start = batch[m].start /\ batch'[m].count = batch[m].count
    BY <1>5, Zenon
  <2>2. \A d \in creators' : batch'[d.by].pc \in Making
    BY <1>5, <1>6, <1>7, <2>1, BatchFacts, Zenon DEF GateHeld, BatchTypes, CreatorRec
  <2>3. QED
    BY <1>0, <2>1, <2>2, BatchFacts, Zenon DEF GateHeld
<1>11. \A d \in creators : d.by = n /\ d.ip # ip
  <2>1. \A d \in creators : d.by = n
    BY OneInside, BatchFacts, Zenon DEF GateHeld, BatchTypes, CreatorRec, Making, Inside, Held
  <2>2. QED
    BY <1>4, <2>1, BatchFacts, Zenon DEF WalkKept, OnCourse
<1>12. WalkKept'
  <2>1. \A m \in Numbers : m # n => batch[m].pc \notin Making
    BY OneInside, Zenon DEF Making, Inside, Held
  <2>2. batch'[n].left \in 0..batch'[n].count /\ batch'[n].seen = Visited(batch'[n])
    <3>1. batch'[n].left \in 0..batch'[n].count
      BY <1>1, <1>2, <1>5
    <3>2. batch'[n].count - batch'[n].left - 1 = i /\ Walk(batch'[n].start, batch'[n].count) = w
      BY <1>1, <1>2, <1>5 DEF i, w
    <3>3. {w[k] : k \in 0..i} = {w[k] : k \in 0..(i - 1)} \cup {w[i]}
      BY <1>1, <1>3
    <3>4. Visited(batch'[n]) = {w[k] : k \in 0..i}
      BY <3>2, Zenon DEF Visited
    <3>5. QED
      BY <1>3, <1>4, <1>5, <3>1, <3>3, <3>4, Zenon
  <2>3. batch'[n].pc = "walking" =>
          /\ IF Own(creators', n) = {}
             THEN cursor' = Walk(batch'[n].start, batch'[n].count)[batch'[n].count - batch'[n].left]
             ELSE batch'[n].left < batch'[n].count
                  /\ cursor' = Walk(batch'[n].start,
                     batch'[n].count)[batch'[n].count - batch'[n].left - 1]
          /\ \A d, e \in Own(creators', n) : d = e
    <3>1. SUFFICES ASSUME batch'[n].pc = "walking"
                   PROVE  /\ IF Own(creators', n) = {}
                             THEN cursor' = Walk(batch'[n].start,
                             batch'[n].count)[batch'[n].count - batch'[n].left]
                             ELSE batch'[n].left < batch'[n].count
                                  /\ cursor' = Walk(batch'[n].start,
                                     batch'[n].count)[batch'[n].count - batch'[n].left - 1]
                          /\ \A d, e \in Own(creators', n) : d = e
      BY Zenon
    <3>2. Own(creators, n) = {} /\ cursor' = (IF made THEN nextHost(cursor) ELSE cursor)
          /\ b.pc = "walking"
      BY <1>5, <3>1, Zenon DEF made
    <3>3. cursor = w[i]
      BY <3>2, BatchFacts, Zenon DEF WalkKept, OnCourse, w, i
    <3>4. /\ batch'[n].count - batch'[n].left = i + 1 /\ batch'[n].count - batch'[n].left - 1 = i
          /\ Walk(batch'[n].start, batch'[n].count) = w /\ batch'[n].left < batch'[n].count
      BY <1>1, <1>2, <1>5 DEF i, w
    <3>5. CASE made
      <4>1. Own(creators', n) = {}
        BY <1>6, <3>2, <3>5, Zenon
      <4>2. w[i + 1] = nextHost(w[(i + 1) - 1]) /\ (i + 1) - 1 = i
        BY <1>1, <1>3
      <4>3. QED
        BY <3>2, <3>3, <3>4, <3>5, <4>1, <4>2, Zenon
    <3>6. CASE ~made
      <4>1. Own(creators', n) = {c}
        BY <1>6, <1>7, <3>2, <3>6, Zenon DEF Own
      <4>2. QED
        BY <3>2, <3>3, <3>4, <3>6, <4>1, Zenon
    <3>7. QED
      BY <3>5, <3>6, Zenon
  <2>4. \A d \in creators' : d.ip \in batch'[d.by].seen /\ device'[d.ip] = NoDevice
    BY <1>5, <1>6, <1>7, <1>11, BatchFacts, SMTT(20) DEF WalkKept, OnCourse, made
  <2>5. \A d, e \in creators' : d.ip = e.ip => d = e
    BY <1>6, <1>7, <1>11, BatchFacts, SMTT(20) DEF WalkKept, OnCourse
  <2>6. batch'[n].pc \in Making /\ batch'[n].pc \notin {"locked", "in", "waiting"}
    BY <1>5, Zenon DEF Making
  <2>7. \A m \in Numbers : m # n => /\ batch'[m].pc \notin Making /\ batch'[m].pc # "walking"
                                    /\ batch'[m].pc \in {"locked", "in", "waiting"}
                                         => batch'[m].left = batch'[m].count /\ batch'[m].seen = {}
    BY <1>5, <2>1, BatchFacts, SMTT(20) DEF WalkKept, OnCourse, Making
  <2>8. \A m \in Numbers :
          /\ batch'[m].pc \in {"locked", "in", "waiting"} => batch'[m].left = batch'[m].count
             /\ batch'[m].seen = {}
          /\ batch'[m].pc \in Making => batch'[m].left \in 0..batch'[m].count
             /\ batch'[m].seen = Visited(batch'[m])
    <3>1. ASSUME NEW m \in Numbers, m # n
          PROVE  /\ batch'[m].pc \in {"locked", "in", "waiting"} => batch'[m].left = batch'[m].count
                    /\ batch'[m].seen = {}
                 /\ batch'[m].pc \in Making => batch'[m].left \in 0..batch'[m].count
                    /\ batch'[m].seen = Visited(batch'[m])
      BY <2>7, <3>1, Zenon
    <3>2. QED
      BY <2>2, <2>6, <3>1, Zenon
  <2>9. \A m \in Numbers : batch'[m].pc = "walking" =>
          /\ IF Own(creators', m) = {}
             THEN cursor' = Walk(batch'[m].start, batch'[m].count)[batch'[m].count - batch'[m].left]
             ELSE batch'[m].left < batch'[m].count
                  /\ cursor' = Walk(batch'[m].start,
                     batch'[m].count)[batch'[m].count - batch'[m].left - 1]
          /\ \A d, e \in Own(creators', m) : d = e
    BY <2>3, <2>7, Zenon
  <2>10. QED
    BY <2>4, <2>5, <2>8, <2>9, Zenon DEF WalkKept, OnCourse
<1>13. NumberedLinks' /\ WorkerLinks' /\ PoolLinks'
  <2>0. \A x \in workers : x.tun \in Nat
    BY BatchFacts, Zenon DEF BatchTypes, WorkerRec
  <2>1. NumberedLinks'
    BY <1>0, <1>6, <1>7, BatchFacts DEF NumberedLinks, BatchTypes, NoLink
  <2>2. WorkerLinks'
    BY <1>0, <1>6, <1>7, <2>0, BatchFacts DEF WorkerLinks, NoLink
  <2>3. PoolLinks'
    BY <1>0, BatchFacts, Zenon DEF PoolLinks
  <2>4. QED
    BY <2>1, <2>2, <2>3, Zenon
<1>14. CreatorLinks' /\ DeviceLinks'
  <2>1. NoLink \notin teardown /\ NoLink \notin netdevs
    BY BatchFacts DEF NumberedLinks, BatchTypes, NoLink
  <2>2. CreatorLinks'
    BY <1>0, <1>6, <1>7, <2>1, BatchFacts, Zenon DEF CreatorLinks
  <2>3. DeviceLinks'
    BY <1>0, <1>6, <1>7, BatchFacts, Zenon DEF DeviceLinks
  <2>4. QED
    BY <2>2, <2>3, Zenon
<1>15. NamesHeld'
  <2>1. Waiting' = Waiting /\ Live' = Live
    BY <1>6, <1>7, Zenon DEF Waiting, Live
  <2>2. QED
    BY <2>1, BatchFacts DEF NamesHeld
<1>16. RoutesComing'
  <2>1. Live' = Live /\ b.made \in Nat
    BY <1>2, Zenon DEF Live, Batches
  <2>2. \A m \in Numbers : batch[m].pc \in Making /\ batch[m].made > 0
                           => batch'[m].pc \in Making /\ batch'[m].made > 0
    BY <1>5, <2>1
  <2>3. QED
    BY <2>1, <2>2, BatchFacts, Zenon DEF RoutesComing
<1>17. QED
  BY <1>9, <1>10, <1>12, <1>13, <1>14, <1>15, <1>16, Zenon DEF BatchInv

\* Launch keeps the invariant.
LEMMA LaunchKeeps ==
  ASSUME BatchInv, NEW n \in Numbers, Launch(n) \/ Step(n)
  PROVE  BatchInv'
<1> DEFINE b == batch[n]
           ip == Walk(b.start, b.count)[b.count - b.left]
<1>1. CASE Launch(n)
  BY <1>1, VisitKeeps DEF Launch, Making
<1>2. CASE Step(n)
  <2>1. cursor = ip
    BY <1>2, BatchFacts, Zenon DEF Step, WalkKept, OnCourse
  <2>2. /\ b.pc \in Making /\ b.left > 0 /\ Visit(n, ip) /\ b.pc # "launching" /\ Own(creators,
           n) = {}
        /\ cursor' = IF device[ip] # NoDevice THEN nextHost(cursor) ELSE cursor
        /\ UNCHANGED <<gateVars, linkVars, device, inUse, routes>>
    BY <1>2, <2>1, Zenon DEF Step, Making
  <2>3. QED
    BY <2>2, VisitKeeps, Zenon
<1>3. QED
  BY <1>1, <1>2, Zenon
--------------------------------------------------------------------------------
(* The workers that fill the pool. *)

\* A step that moves no batch keeps the gate, the walks, the names and the routes.
LEMMA CourseLeft ==
  ASSUME BatchInv, UNCHANGED <<gateVars, batch, cursor, fleetVars, routes>>
  PROVE  GateHeld' /\ WalkKept' /\ NamesHeld' /\ RoutesComing'
<1>1. UNCHANGED <<gate, token, reload, batch, cursor, creators, device, inUse, routes>>
  BY Zenon DEF gateVars, fleetVars
<1>2. GateHeld'
  BY <1>1, BatchFacts, Zenon DEF GateHeld
<1>3. WalkKept'
  BY <1>1, WalkLeft, Zenon
<1>4. RoutesComing'
  BY <1>1, BatchFacts, Zenon DEF RoutesComing, Live
<1>5. QED
  BY <1>2, <1>3, <1>4, NamesLeft, Zenon

\* WorkerMakes keeps the invariant.
LEMMA WorkerMakesKeeps ==
  ASSUME BatchInv, NEW w \in workers, WorkerMakes(w)
  PROVE  BatchInv'
<1> DEFINE v == [w EXCEPT !.made = TRUE]
<1>1. /\ ~w.made
      /\ UNCHANGED <<gateVars, batch, cursor, nextTun, pooled, pool, teardown, refused, fleetVars,
         routes>>
  BY Zenon DEF WorkerMakes
<1>2. UNCHANGED <<gate, token, reload, creators, device>>
  BY <1>1, Zenon DEF gateVars, fleetVars
<1>3. w \in WorkerRec /\ v \in WorkerRec /\ v.tun = w.tun /\ v.made = TRUE
  BY BatchFacts, Zenon DEF BatchTypes, WorkerRec
<1> HIDE DEF v
<1>4. CASE netdevs' = netdevs \cup {w.tun} /\ workers' = (workers \ {w}) \cup {v}
  <2>1. BatchTypes'
    BY <1>1, <1>2, <1>3, <1>4, BatchFacts, Zenon DEF BatchTypes
  <2>2. NumberedLinks'
    <3>1. w.tun \in 0..(nextTun - 1)
      BY <1>3, BatchFacts DEF NumberedLinks, WorkerRec, BatchTypes
    <3>2. QED
      BY <1>1, <1>2, <1>3, <1>4, <3>1, BatchFacts, Zenon DEF NumberedLinks
  <2>3. WorkerLinks'
    BY <1>1, <1>2, <1>3, <1>4, BatchFacts DEF WorkerLinks
  <2>4. PoolLinks'
    BY <1>1, <1>4, BatchFacts, Zenon DEF PoolLinks
  <2>5. CreatorLinks'
    BY <1>1, <1>2, <1>4, BatchFacts, Zenon DEF CreatorLinks, WorkerLinks
  <2>6. DeviceLinks'
    BY <1>1, <1>2, <1>4, BatchFacts, Zenon DEF DeviceLinks
  <2>7. QED
    BY <1>1, <2>1, <2>2, <2>3, <2>4, <2>5, <2>6, CourseLeft, Zenon DEF BatchInv
<1>5. CASE workers' = workers \ {w} /\ UNCHANGED netdevs
  <2>1. BatchTypes'
    BY <1>1, <1>2, <1>5, BatchFacts, Zenon DEF BatchTypes
  <2>2. NumberedLinks' /\ WorkerLinks'
    BY <1>1, <1>2, <1>5, BatchFacts, Zenon DEF NumberedLinks, WorkerLinks
  <2>3. PoolLinks' /\ CreatorLinks' /\ DeviceLinks'
    BY <1>1, <1>2, <1>5, BatchFacts, Zenon DEF PoolLinks, CreatorLinks, DeviceLinks
  <2>4. QED
    BY <1>1, <2>1, <2>2, <2>3, CourseLeft, Zenon DEF BatchInv
<1>6. QED
  BY <1>4, <1>5, Zenon DEF WorkerMakes, v

\* WorkerStores keeps the invariant.
LEMMA WorkerStoresKeeps ==
  ASSUME BatchInv, NEW w \in workers, WorkerStores(w)
  PROVE  BatchInv'
<1>1. /\ w.made /\ pool' = [pool EXCEPT ![w.ip] = w.tun] /\ workers' = workers \ {w}
      /\ UNCHANGED <<gateVars, batch, cursor, nextTun, pooled, netdevs, teardown, refused, fleetVars,
         routes>>
  BY Zenon DEF WorkerStores
<1>2. UNCHANGED <<gate, token, reload, creators, device>>
  BY <1>1, Zenon DEF gateVars, fleetVars
<1>3. w.ip \in Addresses /\ w.tun \in Nat /\ pool \in [Addresses -> Links]
  BY BatchFacts, Zenon DEF BatchTypes, WorkerRec
<1>4. /\ pool' \in [Addresses -> Links] /\ pool'[w.ip] = w.tun
      /\ \A ip \in Addresses : ip # w.ip => pool'[ip] = pool[ip]
  BY <1>1, <1>3, Zenon DEF Links
<1>5. w.tun \in netdevs \ teardown /\ w.tun < nextTun
  BY <1>1, BatchFacts, Zenon DEF WorkerLinks, NumberedLinks
<1>6. BatchTypes'
  BY <1>1, <1>2, <1>4, BatchFacts, Zenon DEF BatchTypes
<1>7. NumberedLinks'
  BY <1>1, <1>2, <1>4, <1>5, BatchFacts, Zenon DEF NumberedLinks
<1>8. WorkerLinks'
  BY <1>1, <1>2, <1>4, BatchFacts, Zenon DEF WorkerLinks
<1>9. PoolLinks'
  BY <1>1, <1>4, <1>5, BatchFacts, Zenon DEF PoolLinks, WorkerLinks
<1>10. CreatorLinks'
  BY <1>1, <1>2, <1>4, BatchFacts, Zenon DEF CreatorLinks, WorkerLinks
<1>11. DeviceLinks'
  BY <1>1, <1>2, <1>4, BatchFacts DEF DeviceLinks, WorkerLinks
<1>12. QED
  BY <1>1, <1>6, <1>7, <1>8, <1>9, <1>10, <1>11, CourseLeft, Zenon DEF BatchInv
--------------------------------------------------------------------------------
(* The devices on their way. *)

\* A creator that moves on stays where it is in the batch.
LEMMA BecomesKeeps ==
  ASSUME BatchInv, NEW c \in creators, NEW d \in CreatorRec, d.by = c.by, d.ip = c.ip, Becomes(c, d),
         UNCHANGED <<gateVars, batch, cursor, device>>
  PROVE  GateHeld' /\ WalkKept' /\ creators' \subseteq CreatorRec /\ IsFiniteSet(creators')
<1>0. UNCHANGED <<gate, token, reload, batch, cursor, device>> /\ creators' = (creators \ {c}) \cup {d}
  BY Zenon DEF gateVars, Becomes
<1>1. creators' \subseteq CreatorRec /\ IsFiniteSet(creators')
  BY <1>0, BatchFacts, FS_RemoveElement, FS_AddElement, Zenon DEF BatchTypes
<1>2. GateHeld'
  BY <1>0, BatchFacts, Zenon DEF GateHeld
<1>3. \A n \in Numbers : /\ Own(creators', n) = {} <=> Own(creators, n) = {}
                         /\ (\A e, f \in Own(creators, n) : e = f) => \A e, f \in Own(creators',
                            n) : e = f
  BY <1>0, Zenon DEF Own
<1>4. \A e \in creators' : e.ip \in batch[e.by].seen /\ device[e.ip] = NoDevice
  BY <1>0, BatchFacts DEF WalkKept, OnCourse
<1>5. \A e, f \in creators' : e.ip = f.ip => e = f
  BY <1>0, BatchFacts DEF WalkKept, OnCourse
<1>6. \A n \in Numbers : OnCourse(batch[n], Own(creators', n), cursor)
  BY <1>3, BatchFacts, Zenon DEF WalkKept, OnCourse
<1>7. WalkKept'
  BY <1>0, <1>4, <1>5, <1>6, Zenon DEF WalkKept
<1>8. QED
  BY <1>1, <1>2, <1>7, Zenon

\* What the invariant says of one device being made.
LEMMA CreatorFacts ==
  ASSUME BatchInv, NEW c \in creators
  PROVE  /\ c \in CreatorRec /\ c.by \in Numbers /\ c.ip \in Addresses /\ c.tun \in Links
         /\ batch[c.by].pc \in Making /\ device[c.ip] = NoDevice /\ c.ip \notin Live
         /\ \A d \in creators : d.by = c.by /\ (d.ip = c.ip => d = c)
<1>1. c \in CreatorRec /\ c.by \in Numbers /\ c.ip \in Addresses /\ c.tun \in Links
  BY BatchFacts, Zenon DEF BatchTypes, CreatorRec
<1>2. batch[c.by].pc \in Making /\ device[c.ip] = NoDevice /\ c.ip \notin Live
  BY BatchFacts, Zenon DEF GateHeld, WalkKept, OnCourse, Live
<1>3. \A d \in creators : d.by = c.by
  BY <1>1, <1>2, BatchFacts, OneInside DEF GateHeld, BatchTypes, CreatorRec, Making, Inside, Held
<1>4. QED
  BY <1>1, <1>2, <1>3, BatchFacts, Zenon DEF WalkKept, OnCourse

\* A creator that is gone lets the sequential loop go on to the next address.
LEMMA GoneKeeps ==
  ASSUME BatchInv, NEW c \in creators, Gone(c), UNCHANGED gateVars,
         batch' \in [Numbers -> Batches],
         \A n \in Numbers : /\ batch'[n].pc = batch[n].pc /\ batch'[n].left = batch[n].left
                            /\ batch'[n].start = batch[n].start /\ batch'[n].count = batch[n].count
                            /\ batch'[n].seen = batch[n].seen,
         \A ip \in Addresses : ip # c.ip => device'[ip] = device[ip]
  PROVE  /\ GateHeld' /\ WalkKept' /\ cursor' \in Int
         /\ creators' \subseteq CreatorRec /\ IsFiniteSet(creators')
<1>0. /\ UNCHANGED <<gate, token, reload>> /\ creators' = creators \ {c}
      /\ cursor' = IF batch[c.by].pc = "walking" THEN nextHost(cursor) ELSE cursor
  BY Zenon DEF gateVars, Gone
<1>1. creators' \subseteq CreatorRec /\ IsFiniteSet(creators')
  BY <1>0, BatchFacts, FS_RemoveElement, Zenon DEF BatchTypes
<1>2. cursor' \in Int
  BY <1>0, BatchFacts, NextHost, Zenon DEF BatchTypes
<1>3. GateHeld'
  BY <1>0, BatchFacts, Zenon DEF GateHeld, BatchTypes, CreatorRec
<1>4. \A e \in creators' : e.ip \in batch'[e.by].seen /\ device'[e.ip] = NoDevice
  BY <1>0, BatchFacts, CreatorFacts DEF WalkKept, OnCourse
<1>5. \A e, f \in creators' : e.ip = f.ip => e = f
  BY <1>0, BatchFacts, Zenon DEF WalkKept, OnCourse
<1>6. ASSUME NEW n \in Numbers PROVE OnCourse(batch'[n], Own(creators', n), cursor')
  <2> DEFINE b == batch[n]
             w == Walk(b.start, b.count)
  <2>1. /\ b.pc \in {"locked", "in", "waiting"} => b.left = b.count /\ b.seen = {}
        /\ b.pc \in Making => b.left \in 0..b.count /\ b.seen = Visited(b)
    BY BatchFacts, Zenon DEF WalkKept, OnCourse
  <2>2. Visited(batch'[n]) = Visited(b)
    BY DEF Visited
  <2>3. ASSUME b.pc = "walking"
        PROVE  Own(creators', n) = {} /\ cursor' = w[b.count - b.left]
    <3>1. c.by = n
      BY <2>3, CreatorFacts, OneInside, Zenon DEF Making, Inside, Held
    <3>2. c \in Own(creators, n)
      BY <3>1, Zenon DEF Own
    <3>3. /\ \A d, e \in Own(creators, n) : d = e
          /\ b.left < b.count /\ cursor = w[b.count - b.left - 1] /\ b.left \in 0..b.count
      BY <2>3, <3>2, BatchFacts, Zenon DEF WalkKept, OnCourse, Making
    <3>4. Own(creators', n) = {}
      BY <1>0, <3>2, <3>3, Zenon DEF Own
    <3>5. b.count \in Nat /\ \A i \in 1..b.count : w[i] = nextHost(w[i - 1])
      BY <2>3, WalkOf, Zenon DEF Inside, Held
    <3>6. b.count - b.left \in 1..b.count
      BY <3>3, <3>5
    <3>7. QED
      BY <1>0, <2>3, <3>1, <3>3, <3>4, <3>5, <3>6, Zenon
  <2>4. QED
    BY <2>1, <2>2, <2>3, Zenon DEF OnCourse
<1>7. WalkKept'
  BY <1>4, <1>5, <1>6, Zenon DEF WalkKept
<1>8. QED
  BY <1>1, <1>2, <1>3, <1>7, Zenon

\* TakeLink keeps the invariant.
LEMMA TakeLinkKeeps ==
  ASSUME BatchInv, NEW c \in creators, TakeLink(c)
  PROVE  BatchInv'
<1>1. /\ c.pc = "link"
      /\ UNCHANGED <<gateVars, batch, cursor, pooled, pool, workers, netdevs, teardown, device, inUse,
         routes>>
  BY Zenon DEF TakeLink
<1>2. /\ c \in CreatorRec /\ c.ip \in Addresses /\ c.tun = NoLink /\ c.ip \notin Live
      /\ \A e \in creators : e.ip = c.ip => e = c
  BY <1>1, CreatorFacts, BatchFacts, Zenon DEF CreatorLinks
<1>3. PICK d \in CreatorRec : /\ Becomes(c, d) /\ d.by = c.by /\ d.ip = c.ip /\ d.pc \in {"name",
                                 "make"}
                              /\ \/ /\ d.tun = pool[c.ip] /\ d.tun # NoLink /\ d.pre /\ d.pc = "name"
                                       /\ nextTun' = nextTun
                                 \/ /\ d.tun = nextTun /\ d.pc = "make" /\ nextTun' = nextTun + 1
  <2>1. CASE pool[c.ip] # NoLink
    <3> DEFINE d == [c EXCEPT !.pc = "name", !.tun = pool[c.ip], !.pre = TRUE]
    <3>1. pool[c.ip] \in Links
      BY <1>2, BatchFacts, Zenon DEF BatchTypes
    <3>2. /\ d \in CreatorRec /\ d.by = c.by /\ d.ip = c.ip /\ d.pc = "name" /\ d.tun = pool[c.ip]
             /\ d.pre
      BY <1>2, <3>1, Zenon DEF CreatorRec
    <3>3. Becomes(c, d) /\ nextTun' = nextTun
      BY <2>1, Zenon DEF TakeLink
    <3> HIDE DEF d
    <3>4. QED
      BY <2>1, <3>2, <3>3, Zenon
  <2>2. CASE pool[c.ip] = NoLink
    <3> DEFINE d == [c EXCEPT !.pc = "make", !.tun = nextTun]
    <3>1. nextTun \in Links
      BY BatchFacts, Zenon DEF BatchTypes, Links
    <3>2. /\ d \in CreatorRec /\ d.by = c.by /\ d.ip = c.ip /\ d.pc = "make" /\ d.tun = nextTun
      BY <1>2, <3>1, Zenon DEF CreatorRec
    <3>3. Becomes(c, d) /\ nextTun' = nextTun + 1
      BY <2>2, Zenon DEF TakeLink
    <3> HIDE DEF d
    <3>4. QED
      BY <3>2, <3>3, Zenon
  <2>3. QED
    BY <2>1, <2>2, Zenon
<1>4. GateHeld' /\ WalkKept' /\ creators' \subseteq CreatorRec /\ IsFiniteSet(creators')
  BY <1>1, <1>3, BecomesKeeps, Zenon
<1>5. creators' = (creators \ {c}) \cup {d}
  BY <1>3, Zenon DEF Becomes
<1>6. nextTun \in Nat /\ nextTun' \in Nat /\ nextTun <= nextTun' /\ d.tun # NoLink /\ d.tun \in Nat
      /\ d.tun < nextTun'
  <2>1. nextTun \in Nat
    BY BatchFacts, Zenon DEF BatchTypes
  <2>2. pool[c.ip] \in Links /\ pool[c.ip] < nextTun
    BY <1>2, BatchFacts, Zenon DEF BatchTypes, NumberedLinks
  <2>3. QED
    BY <1>3, <2>1, <2>2 DEF Links, NoLink
<1>7. BatchTypes'
  BY <1>1, <1>4, <1>6, BatchFacts, Zenon DEF BatchTypes, gateVars
<1>8. /\ \A w \in workers : w.tun # d.tun
      /\ \A e \in creators : e.tun # d.tun
      /\ \A ip \in Addresses : /\ pool[ip] = d.tun => ip = d.ip /\ d.pre
                               /\ device[ip].tun # d.tun
      /\ d.tun \notin teardown /\ (d.tun \in netdevs <=> d.pc = "name")
  <2>1. CASE d.tun = pool[c.ip] /\ d.pre /\ d.pc = "name"
    <3>1. \A w \in workers : w.tun # d.tun
      BY <1>2, <2>1, BatchFacts, Zenon DEF WorkerLinks
    <3>2. \A e \in creators : e.tun # d.tun
      BY <1>2, <1>6, <2>1, BatchFacts, Zenon DEF CreatorLinks
    <3>3. d.tun \in netdevs \ teardown /\ \A ip \in Addresses : pool[ip] = d.tun => ip = d.ip /\ d.pre
      BY <1>2, <1>3, <1>6, <2>1, BatchFacts, Zenon DEF PoolLinks
    <3>4. \A ip \in Addresses : device[ip].tun # d.tun
      BY <1>2, <1>6, <2>1, BatchFacts, Zenon DEF DeviceLinks, Live
    <3>5. QED
      BY <2>1, <3>1, <3>2, <3>3, <3>4, Zenon
  <2>2. CASE d.tun = nextTun /\ d.pc = "make"
    <3>1. nextTun \notin netdevs /\ nextTun \notin teardown
      BY <1>6, BatchFacts DEF NumberedLinks
    <3>2. /\ \A w \in workers : w.tun # nextTun
          /\ \A e \in creators : e.tun # nextTun
          /\ \A ip \in Addresses : pool[ip] # nextTun /\ device[ip].tun # nextTun
      BY <1>6, BatchFacts DEF NumberedLinks
    <3>3. QED
      BY <2>2, <3>1, <3>2, Zenon
  <2>3. QED
    BY <1>3, <2>1, <2>2, Zenon
<1>9. NumberedLinks'
  <2>1. netdevs \subseteq 0..(nextTun' - 1) /\ teardown \subseteq 0..(nextTun' - 1)
    BY <1>6, BatchFacts DEF NumberedLinks
  <2>2. \A x : x \in Links /\ x < nextTun => x < nextTun'
    BY <1>6 DEF Links, NoLink
  <2>3. \A w \in workers : w.tun < nextTun'
    BY <2>2, BatchFacts, Zenon DEF NumberedLinks, BatchTypes, WorkerRec, Links
  <2>4. \A ip \in Addresses : pool[ip] < nextTun' /\ device[ip].tun < nextTun'
    BY <2>2, BatchFacts, Zenon DEF NumberedLinks, BatchTypes, DeviceRec
  <2>5. \A e \in creators' : e.tun < nextTun'
    BY <1>5, <1>6, <2>2, BatchFacts, Zenon DEF NumberedLinks, BatchTypes, CreatorRec
  <2>6. QED
    BY <1>1, <2>1, <2>3, <2>4, <2>5, Zenon DEF NumberedLinks
<1>10. WorkerLinks' /\ PoolLinks'
  BY <1>1, <1>5, <1>8, BatchFacts, Zenon DEF WorkerLinks, PoolLinks
<1>11. CreatorLinks'
  BY <1>1, <1>3, <1>5, <1>6, <1>8, BatchFacts DEF CreatorLinks
<1>12. DeviceLinks'
  BY <1>1, <1>5, <1>8, BatchFacts, Zenon DEF DeviceLinks
<1>13. NamesHeld' /\ RoutesComing'
  <2>1. Waiting' = Waiting /\ Live' = Live
    BY <1>1, <1>3, <1>5, Zenon DEF Waiting, Live
  <2>2. QED
    BY <1>1, <2>1, BatchFacts DEF NamesHeld, RoutesComing
<1>14. QED
  BY <1>4, <1>7, <1>9, <1>10, <1>11, <1>12, <1>13, Zenon DEF BatchInv

\* MakeLink keeps the invariant.
LEMMA MakeLinkKeeps ==
  ASSUME BatchInv, NEW c \in creators, MakeLink(c)
  PROVE  BatchInv'
<1> DEFINE d == [c EXCEPT !.pc = "name"]
<1>1. /\ c.pc = "make" /\ netdevs' = netdevs \cup {c.tun} /\ Becomes(c, d)
      /\ UNCHANGED <<gateVars, batch, cursor, nextTun, pooled, pool, workers, teardown, device, inUse,
         routes>>
  BY Zenon DEF MakeLink
<1>2. /\ d \in CreatorRec /\ d.by = c.by /\ d.ip = c.ip /\ d.pc = "name" /\ d.tun = c.tun
         /\ d.pre = c.pre
  BY CreatorFacts, Zenon DEF CreatorRec
<1> HIDE DEF d
<1>3. GateHeld' /\ WalkKept' /\ creators' \subseteq CreatorRec /\ IsFiniteSet(creators')
  BY <1>1, <1>2, BecomesKeeps, Zenon
<1>4. creators' = (creators \ {c}) \cup {d}
  BY <1>1, Zenon DEF Becomes
<1>5. c.tun # NoLink /\ c.tun \notin netdevs /\ c.tun \in 0..(nextTun - 1)
  BY <1>1, CreatorFacts, BatchFacts DEF CreatorLinks, NumberedLinks, BatchTypes, Links, NoLink
<1>6. BatchTypes'
  BY <1>1, <1>3, BatchFacts, Zenon DEF BatchTypes, gateVars
<1>7. NumberedLinks'
  BY <1>1, <1>2, <1>4, <1>5, BatchFacts, Zenon DEF NumberedLinks
<1>8. WorkerLinks' /\ PoolLinks'
  BY <1>1, <1>2, <1>4, BatchFacts DEF WorkerLinks, PoolLinks
<1>9. CreatorLinks'
  BY <1>1, <1>2, <1>4, <1>5, BatchFacts DEF CreatorLinks
<1>10. DeviceLinks'
  BY <1>1, <1>2, <1>4, BatchFacts DEF DeviceLinks
<1>11. NamesHeld' /\ RoutesComing'
  <2>1. Waiting' = Waiting /\ Live' = Live
    BY <1>1, <1>2, <1>4, Zenon DEF Waiting, Live
  <2>2. QED
    BY <1>1, <2>1, BatchFacts DEF NamesHeld, RoutesComing
<1>12. QED
  BY <1>3, <1>6, <1>7, <1>8, <1>9, <1>10, <1>11, Zenon DEF BatchInv

\* A drawn name is free: a name that ends in an address is only held there.
LEMMA DrawnIsFree ==
  ASSUME BatchInv, NEW c \in creators, c.pc = "name", NEW name \in Draws(c.ip)
  PROVE  name \notin inUse /\ NameAt(name, c.ip) /\ name \in SysNames
<1>0. c.ip \in Addresses /\ c.ip \notin Live /\ \A e \in creators : e.ip = c.ip => e = c
  BY CreatorFacts, Zenon
<1>1. CASE name \in {<<x>> : x \in {y \in SysDraws : <<y>> \notin inUse}}
  <2>1. PICK x \in SysDraws : name = <<x>> /\ <<x>> \notin inUse
    BY <1>1, Zenon
  <2>2. NameAt(name, c.ip)
    BY <2>1, Zenon DEF NameAt
  <2>3. name \in SysNames
    BY <2>1 DEF SysNames
  <2>4. QED
    BY <2>1, <2>2, <2>3, Zenon
<1>2. CASE name \in {<<x, c.ip>> : x \in {y \in SysDraws : <<y>> \in inUse}}
  <2>1. PICK x \in SysDraws : name = <<x, c.ip>>
    BY <1>2, Zenon
  <2>2. \A ip : NameAt(name, ip) => ip = c.ip
    BY <2>1, Zenon DEF NameAt
  <2>3. \A ip \in Live : device[ip].name # name
    BY <1>0, <2>2, BatchFacts DEF NamesHeld
  <2>4. \A e \in Waiting : e.name # name
    BY <1>0, <2>2, BatchFacts DEF NamesHeld, Waiting
  <2>5. name \notin inUse
    BY <2>3, <2>4, BatchFacts DEF NamesHeld
  <2>6. QED
    BY <1>0, <2>1, <2>5 DEF NameAt, SysNames
<1>3. QED
  BY <1>1, <1>2, Zenon DEF Draws

\* ReserveName keeps the invariant.
LEMMA ReserveNameKeeps ==
  ASSUME BatchInv, NEW c \in creators, ReserveName(c)
  PROVE  BatchInv'
<1>1. PICK name \in Draws(c.ip) : inUse' = inUse \cup {name} /\ Becomes(c, [c EXCEPT !.pc = "start",
      !.name = name])
  BY Zenon DEF ReserveName
<1> DEFINE d == [c EXCEPT !.pc = "start", !.name = name]
<1>2. c.pc = "name" /\ UNCHANGED <<gateVars, batch, cursor, linkVars, device, routes>>
  BY Zenon DEF ReserveName
<1>3. name \notin inUse /\ NameAt(name, c.ip) /\ name \in SysNames
  BY <1>2, DrawnIsFree, Zenon
<1>4. /\ d \in CreatorRec /\ d.by = c.by /\ d.ip = c.ip /\ d.pc = "start" /\ d.tun = c.tun
         /\ d.pre = c.pre /\ d.name = name
  BY <1>3, CreatorFacts, Zenon DEF CreatorRec
<1>5. Becomes(c, d)
  BY <1>1, Zenon
<1> HIDE DEF d
<1>6. GateHeld' /\ WalkKept' /\ creators' \subseteq CreatorRec /\ IsFiniteSet(creators')
  BY <1>2, <1>4, <1>5, BecomesKeeps, Zenon
<1>7. creators' = (creators \ {c}) \cup {d} /\ UNCHANGED <<nextTun, pooled, pool, workers, netdevs,
      teardown>>
  BY <1>2, <1>5, Zenon DEF Becomes, linkVars
<1>8. BatchTypes'
  BY <1>2, <1>6, <1>7, BatchFacts, Zenon DEF BatchTypes, gateVars
<1>9. NumberedLinks' /\ WorkerLinks' /\ PoolLinks'
  BY <1>2, <1>4, <1>7, BatchFacts DEF NumberedLinks, WorkerLinks, PoolLinks
<1>10. CreatorLinks'
  BY <1>2, <1>4, <1>7, BatchFacts DEF CreatorLinks
<1>11. DeviceLinks'
  BY <1>2, <1>4, <1>7, BatchFacts DEF DeviceLinks
<1>12. NamesHeld'
  <2>1. Waiting' = Waiting \cup {d} /\ d \notin Waiting /\ Live' = Live
    <3>1. d \notin creators
      BY <1>2, <1>4, CreatorFacts, Zenon
    <3>2. QED
      BY <1>2, <1>4, <1>7, <3>1, Zenon DEF Waiting, Live
  <2>2. \A e \in Waiting : e.name # name
    BY <1>3, BatchFacts, Zenon DEF NamesHeld
  <2>3. \A ip \in Live : device[ip].name # name
    BY <1>3, BatchFacts, Zenon DEF NamesHeld
  <2>4. inUse' = {device'[ip].name : ip \in Live'} \cup {e.name : e \in Waiting'}
    BY <1>1, <1>2, <1>4, <2>1, BatchFacts, Zenon DEF NamesHeld
  <2>5. QED
    BY <1>2, <1>3, <1>4, <2>1, <2>2, <2>3, <2>4, BatchFacts, Zenon DEF NamesHeld
<1>13. RoutesComing'
  BY <1>2, BatchFacts, Zenon DEF RoutesComing, Live
<1>14. QED
  BY <1>6, <1>8, <1>9, <1>10, <1>11, <1>12, <1>13, Zenon DEF BatchInv

\* MakeFails keeps the invariant.
LEMMA MakeFailsKeeps ==
  ASSUME BatchInv, NEW c \in creators, MakeFails(c)
  PROVE  BatchInv'
<1>1. /\ c.pc = "make" /\ Gone(c) /\ creators' = creators \ {c}
      /\ UNCHANGED <<gateVars, batch, nextTun, pooled, pool, workers, netdevs, teardown, device,
         inUse, routes>>
  BY Zenon DEF MakeFails, linkVars, Gone
<1>2. /\ GateHeld' /\ WalkKept' /\ cursor' \in Int
      /\ creators' \subseteq CreatorRec /\ IsFiniteSet(creators')
  <2>1. batch' \in [Numbers -> Batches]
    BY <1>1, BatchFacts, Zenon DEF BatchTypes
  <2>2. QED
    BY <1>1, <2>1, GoneKeeps, Zenon
<1>3. BatchTypes'
  BY <1>1, <1>2, BatchFacts, Zenon DEF BatchTypes, gateVars
<1>4. NumberedLinks' /\ WorkerLinks' /\ PoolLinks' /\ CreatorLinks' /\ DeviceLinks'
  <2>1. NumberedLinks' /\ WorkerLinks' /\ PoolLinks'
    BY <1>1, BatchFacts, Zenon DEF NumberedLinks, WorkerLinks, PoolLinks
  <2>2. CreatorLinks' /\ DeviceLinks'
    BY <1>1, BatchFacts, Zenon DEF CreatorLinks, DeviceLinks
  <2>3. QED
    BY <2>1, <2>2, Zenon
<1>5. NamesHeld' /\ RoutesComing'
  <2>1. Waiting' = Waiting /\ Live' = Live
    BY <1>1, Zenon DEF Waiting, Live
  <2>2. QED
    BY <1>1, <2>1, BatchFacts DEF NamesHeld, RoutesComing
<1>6. QED
  BY <1>2, <1>3, <1>4, <1>5, Zenon DEF BatchInv

\* StartFails keeps the invariant.
LEMMA StartFailsKeeps ==
  ASSUME BatchInv, NEW c \in creators, StartFails(c)
  PROVE  BatchInv'
<1>1. /\ c.pc = "start" /\ Gone(c) /\ creators' = creators \ {c} /\ inUse' = inUse \ {c.name}
      /\ UNCHANGED <<gateVars, batch, nextTun, pooled, pool, workers, netdevs, teardown, device,
         routes>>
  BY Zenon DEF StartFails, linkVars, Gone
<1>2. /\ GateHeld' /\ WalkKept' /\ cursor' \in Int
      /\ creators' \subseteq CreatorRec /\ IsFiniteSet(creators')
  <2>1. batch' \in [Numbers -> Batches]
    BY <1>1, BatchFacts, Zenon DEF BatchTypes
  <2>2. QED
    BY <1>1, <2>1, GoneKeeps, Zenon
<1>3. BatchTypes'
  BY <1>1, <1>2, BatchFacts, Zenon DEF BatchTypes, gateVars
<1>4. NumberedLinks' /\ WorkerLinks' /\ PoolLinks' /\ CreatorLinks' /\ DeviceLinks'
  <2>1. NumberedLinks' /\ WorkerLinks' /\ PoolLinks'
    BY <1>1, BatchFacts, Zenon DEF NumberedLinks, WorkerLinks, PoolLinks
  <2>2. CreatorLinks' /\ DeviceLinks'
    BY <1>1, BatchFacts, Zenon DEF CreatorLinks, DeviceLinks
  <2>3. QED
    BY <2>1, <2>2, Zenon
<1>5. Waiting' = Waiting \ {c} /\ Live' = Live /\ c \in Waiting
  BY <1>1, Zenon DEF Waiting, Live
<1>6. NamesHeld'
  <2>1. \A ip \in Live : device[ip].name # c.name
    BY <1>5, BatchFacts, Zenon DEF NamesHeld
  <2>2. \A e \in Waiting \ {c} : e.name # c.name
    BY <1>5, BatchFacts, Zenon DEF NamesHeld
  <2>3. inUse' = {device'[ip].name : ip \in Live'} \cup {e.name : e \in Waiting'}
    BY <1>1, <1>5, <2>1, <2>2, BatchFacts DEF NamesHeld
  <2>4. QED
    BY <1>1, <1>5, <2>3, BatchFacts, Zenon DEF NamesHeld
<1>7. RoutesComing'
  BY <1>1, <1>5, BatchFacts, Zenon DEF RoutesComing
<1>8. QED
  BY <1>2, <1>3, <1>4, <1>6, <1>7, Zenon DEF BatchInv

\* The device takes over what its creator held.
LEMMA PublishKeeps ==
  ASSUME BatchInv, NEW c \in creators, Publish(c)
  PROVE  BatchInv'
<1> DEFINE new == [tun |-> c.tun, pre |-> c.pre, name |-> c.name]
<1>1. /\ c.pc = "start" /\ Gone(c) /\ creators' = creators \ {c}
      /\ device' = [device EXCEPT ![c.ip] = new]
      /\ batch' = [batch EXCEPT ![c.by].made = @ + 1]
      /\ UNCHANGED <<gateVars, nextTun, pooled, pool, workers, netdevs, teardown, inUse, routes>>
  BY Zenon DEF Publish, linkVars, Gone
<1>2. /\ c \in CreatorRec /\ c.ip \in Addresses /\ c.by \in Numbers /\ c.tun \in Links
         /\ c.tun # NoLink
      /\ c.ip \notin Live /\ device[c.ip] = NoDevice
      /\ c.tun \in netdevs \ teardown
  BY <1>1, CreatorFacts, BatchFacts, Zenon DEF CreatorLinks
<1>3. new \in DeviceRec /\ new.tun = c.tun /\ new.pre = c.pre /\ new.name = c.name
  BY <1>2, Zenon DEF DeviceRec, CreatorRec
<1>4. new # NoDevice
  BY <1>2, <1>3, Zenon DEF NoDevice
<1> HIDE DEF new
<1>5. /\ device' \in [Addresses -> DeviceRec] /\ device'[c.ip] = new
      /\ \A ip \in Addresses : ip # c.ip => device'[ip] = device[ip]
  BY <1>1, <1>2, <1>3, BatchFacts, Zenon DEF BatchTypes
<1>6. /\ batch' \in [Numbers -> Batches] /\ batch'[c.by].made > 0
      /\ \A n \in Numbers : /\ batch'[n].pc = batch[n].pc /\ batch'[n].left = batch[n].left
                            /\ batch'[n].start = batch[n].start /\ batch'[n].count = batch[n].count
                            /\ batch'[n].seen = batch[n].seen
  <2>1. batch \in [Numbers -> Batches] /\ batch[c.by].made \in Nat
    BY <1>2, BatchFacts, Zenon DEF BatchTypes, Batches
  <2>2. PICK k \in Nat : k = batch[c.by].made + 1 /\ k > 0
    BY <2>1
  <2> DEFINE b == [batch[c.by] EXCEPT !.made = k]
  <2>3. /\ b \in Batches /\ b.made = k /\ b.pc = batch[c.by].pc /\ b.left = batch[c.by].left
        /\ b.start = batch[c.by].start /\ b.count = batch[c.by].count /\ b.seen = batch[c.by].seen
    BY <1>2, <2>1, Zenon DEF Batches
  <2>4. batch' = [batch EXCEPT ![c.by] = b]
    BY <1>1, <2>2, Zenon
  <2> HIDE DEF b
  <2>5. QED
    BY <1>2, <2>1, <2>2, <2>3, <2>4, Zenon
<1>7. /\ GateHeld' /\ WalkKept' /\ cursor' \in Int
      /\ creators' \subseteq CreatorRec /\ IsFiniteSet(creators')
  BY <1>1, <1>5, <1>6, GoneKeeps, Zenon
<1>8. BatchTypes'
  BY <1>1, <1>5, <1>6, <1>7, BatchFacts, Zenon DEF BatchTypes, gateVars
<1>9. NumberedLinks' /\ WorkerLinks' /\ PoolLinks'
  <2>1. NumberedLinks'
    BY <1>1, <1>3, <1>5, BatchFacts, Zenon DEF NumberedLinks
  <2>2. WorkerLinks'
    BY <1>1, <1>3, <1>5, BatchFacts DEF WorkerLinks
  <2>3. PoolLinks'
    BY <1>1, BatchFacts, Zenon DEF PoolLinks
  <2>4. QED
    BY <2>1, <2>2, <2>3, Zenon
<1>10. CreatorLinks'
  BY <1>1, BatchFacts, Zenon DEF CreatorLinks
<1>11. DeviceLinks'
  <2>1. \A ip \in Addresses : device[ip].tun # c.tun
    BY <1>2, BatchFacts, Zenon DEF DeviceLinks
  <2>2. \A e \in creators' : e.tun # c.tun
    BY <1>1, <1>2, BatchFacts, Zenon DEF CreatorLinks
  <2>3. \A ip \in Addresses : pool[ip] = c.tun => ip = c.ip /\ c.pre
    BY <1>2, BatchFacts, Zenon DEF CreatorLinks
  <2>4. QED
    BY <1>1, <1>2, <1>3, <1>4, <1>5, <2>1, <2>2, <2>3, BatchFacts DEF DeviceLinks
<1>12. /\ Waiting' = Waiting \ {c} /\ c \in Waiting
       /\ Live' = Live \cup {c.ip}
       /\ \A ip \in Live : device'[ip] = device[ip] /\ ip # c.ip
  BY <1>1, <1>2, <1>4, <1>5, Zenon DEF Waiting, Live
<1>13. NamesHeld'
  <2>1. \A ip \in Live : device[ip].name # c.name
    BY <1>12, BatchFacts, Zenon DEF NamesHeld
  <2>2. \A e \in Waiting \ {c} : e.name # c.name
    BY <1>12, BatchFacts, Zenon DEF NamesHeld
  <2>3. {device'[ip].name : ip \in Live'} = {device[ip].name : ip \in Live} \cup {c.name}
    BY <1>3, <1>5, <1>12
  <2>4. {e.name : e \in Waiting} = {e.name : e \in Waiting'} \cup {c.name}
    BY <1>12, Zenon
  <2>5. inUse' = {device'[ip].name : ip \in Live'} \cup {e.name : e \in Waiting'}
    BY <1>1, <2>3, <2>4, BatchFacts, Zenon DEF NamesHeld
  <2>6. NameAt(c.name, c.ip)
    BY <1>12, BatchFacts, Zenon DEF NamesHeld
  <2>7. ASSUME NEW ip \in Live'
        PROVE  /\ NameAt(device'[ip].name, ip)
               /\ \A other \in Live' : device'[other].name = device'[ip].name => other = ip
               /\ \A e \in Waiting' : e.name # device'[ip].name
    BY <1>3, <1>5, <1>12, <2>1, <2>2, <2>6, BatchFacts DEF NamesHeld
  <2>8. QED
    BY <1>12, <2>5, <2>7, BatchFacts, Zenon DEF NamesHeld
<1>14. RoutesComing'
  <2>1. batch'[c.by].pc \in Making
    BY <1>2, <1>6, CreatorFacts, Zenon
  <2>2. QED
    BY <1>2, <1>6, <2>1, Zenon DEF RoutesComing
<1>15. QED
  BY <1>7, <1>8, <1>9, <1>10, <1>11, <1>13, <1>14, Zenon DEF BatchInv
--------------------------------------------------------------------------------
(* Deletions. *)

\* Devices that go leave the batch inside its walk.
LEMMA CourseAfterDeletion ==
  ASSUME BatchInv, UNCHANGED <<gateVars, batch, cursor, creators>>,
         \A ip \in Addresses : device'[ip] \in {device[ip], NoDevice}
  PROVE  GateHeld' /\ WalkKept'
<1>1. UNCHANGED <<gate, token, reload, batch, cursor, creators>>
  BY Zenon DEF gateVars
<1>2. GateHeld'
  BY <1>1, BatchFacts, Zenon DEF GateHeld
<1>3. \A c \in creators' : c.ip \in batch'[c.by].seen /\ device'[c.ip] = NoDevice
  BY <1>1, CreatorFacts, BatchFacts, Zenon DEF WalkKept
<1>4. \A n \in Numbers : OnCourse(batch'[n], Own(creators', n), cursor')
  BY <1>1, BatchFacts, Zenon DEF WalkKept
<1>5. QED
  BY <1>1, <1>2, <1>3, <1>4, BatchFacts, Zenon DEF WalkKept

\* DeleteDevice keeps the invariant.
LEMMA DeleteDeviceKeeps ==
  ASSUME BatchInv, NEW ip \in Addresses, DeleteDevice(ip)
  PROVE  BatchInv'
<1> DEFINE d == device[ip]
<1>1. /\ d # NoDevice /\ device' = [device EXCEPT ![ip] = NoDevice] /\ inUse' = inUse \ {d.name}
      /\ netdevs' = netdevs \/ netdevs' = netdevs \ {d.tun}
      /\ pool' = IF d.pre THEN [pool EXCEPT ![ip] = NoLink] ELSE pool
      /\ UNCHANGED <<gateVars, batch, cursor, nextTun, pooled, workers, teardown, creators, routes>>
  BY Zenon DEF DeleteDevice, PoolWithout
<1>2. NoDevice \in DeviceRec /\ NoDevice.tun = NoLink
  BY DEF NoDevice, DeviceRec, Links, SysNames
<1>3. /\ device' \in [Addresses -> DeviceRec] /\ device'[ip] = NoDevice
      /\ \A other \in Addresses : other # ip => device'[other] = device[other]
  BY <1>1, <1>2, BatchFacts, Zenon DEF BatchTypes
<1>4. pool' \in [Addresses -> Links]
      /\ \A other \in Addresses : pool'[other] = pool[other] \/ pool'[other] = NoLink
  BY <1>1, BatchFacts, Zenon DEF BatchTypes, Links
<1>5. \A other \in Addresses : pool'[other] # NoLink => pool'[other] = pool[other]
      /\ pool[other] # d.tun
  <2>1. \A other \in Addresses : pool[other] = d.tun => other = ip /\ d.pre
    BY <1>1, BatchFacts, Zenon DEF DeviceLinks
  <2>2. CASE d.pre
    <3>1. pool'[ip] = NoLink /\ \A other \in Addresses : other # ip => pool'[other] = pool[other]
      BY <1>1, <2>2, BatchFacts, Zenon DEF BatchTypes
    <3>2. QED
      BY <2>1, <3>1, Zenon
  <2>3. CASE ~d.pre
    BY <1>1, <2>1, <2>3, Zenon
  <2>4. QED
    BY <2>2, <2>3, Zenon
<1>6. d.tun \in Nat /\ d.tun # NoLink
  BY <1>1, BatchFacts, Zenon DEF DeviceLinks, BatchTypes, DeviceRec, Links
<1>7. NoLink < nextTun /\ \A w \in workers : w.tun # NoLink
  BY BatchFacts DEF BatchTypes, WorkerRec, NoLink
<1>8. BatchTypes'
  BY <1>1, <1>3, <1>4, BatchFacts, Zenon DEF BatchTypes, gateVars
<1>9. GateHeld' /\ WalkKept'
  BY <1>1, <1>3, CourseAfterDeletion, Zenon
<1>10. NumberedLinks'
  <2>1. netdevs' \subseteq 0..(nextTun' - 1) /\ teardown' \subseteq 0..(nextTun' - 1)
    BY <1>1, BatchFacts, Zenon DEF NumberedLinks
  <2>2. \A other \in Addresses : pool'[other] < nextTun' /\ device'[other].tun < nextTun'
    BY <1>1, <1>2, <1>3, <1>4, <1>7, BatchFacts, Zenon DEF NumberedLinks
  <2>3. QED
    BY <1>1, <2>1, <2>2, BatchFacts, Zenon DEF NumberedLinks
<1>11. WorkerLinks'
  <2>1. \A w \in workers : w.tun \in netdevs' <=> w.tun \in netdevs
    BY <1>1, BatchFacts, Zenon DEF WorkerLinks
  <2>2. \A w \in workers : \A other \in Addresses : pool'[other] # w.tun /\ device'[other].tun # w.tun
    BY <1>2, <1>3, <1>4, <1>7, BatchFacts, Zenon DEF WorkerLinks
  <2>3. QED
    BY <1>1, <2>1, <2>2, BatchFacts, Zenon DEF WorkerLinks
<1>12. PoolLinks'
  BY <1>1, <1>5, BatchFacts DEF PoolLinks
<1>13. CreatorLinks'
  <2>1. \A c \in creators : c.tun # d.tun
    BY <1>1, BatchFacts, Zenon DEF DeviceLinks
  <2>2. \A c \in creators : c.tun \in netdevs' <=> c.tun \in netdevs
    BY <1>1, <2>1, Zenon
  <2>3. QED
    BY <1>1, <1>4, <2>2, BatchFacts, Zenon DEF CreatorLinks
<1>14. DeviceLinks'
  <2>1. ASSUME NEW x \in Addresses, x # ip, device[x] # NoDevice
        PROVE  device[x].tun # d.tun /\ device[x].tun \in netdevs' \ teardown'
    BY <1>1, <2>1, BatchFacts, Zenon DEF DeviceLinks
  <2>2. ASSUME NEW x \in Addresses, x # ip, device[x] # NoDevice
        PROVE  /\ device[x].tun # NoLink
               /\ \A other \in Addresses : /\ device'[other].tun = device[x].tun => other = x
                                           /\ pool'[other] = device[x].tun => other = x
                                              /\ device[x].pre
    BY <1>2, <1>3, <1>4, <2>2, BatchFacts DEF DeviceLinks
  <2>3. QED
    BY <1>1, <1>2, <1>3, <2>1, <2>2, BatchFacts DEF DeviceLinks
<1>15. /\ Waiting' = Waiting /\ Live' = Live \ {ip} /\ ip \in Live
       /\ \A x \in Live' : device'[x] = device[x] /\ x # ip
  BY <1>1, <1>3, Zenon DEF Waiting, Live
<1>16. NamesHeld'
  <2>1. \A x \in Live \ {ip} : device[x].name # d.name
    BY <1>15, BatchFacts, Zenon DEF NamesHeld
  <2>2. \A e \in Waiting : e.name # d.name
    BY <1>15, BatchFacts, Zenon DEF NamesHeld
  <2>3. {device[x].name : x \in Live} = {device'[x].name : x \in Live'} \cup {d.name}
    BY <1>15, Zenon
  <2>4. d.name \notin {device'[x].name : x \in Live'} \cup {e.name : e \in Waiting'}
    BY <1>15, <2>1, <2>2, Zenon
  <2>5. inUse' = {device'[x].name : x \in Live'} \cup {e.name : e \in Waiting'}
    BY <1>1, <1>15, <2>3, <2>4, BatchFacts, Zenon DEF NamesHeld
  <2>6. QED
    BY <1>15, <2>5, BatchFacts DEF NamesHeld
<1>17. RoutesComing'
  BY <1>1, <1>15, BatchFacts, Zenon DEF RoutesComing
<1>18. QED
  BY <1>8, <1>9, <1>10, <1>11, <1>12, <1>13, <1>14, <1>16, <1>17, Zenon DEF BatchInv

\* DeleteAll keeps the invariant.
LEMMA DeleteAllKeeps ==
  ASSUME BatchInv, DeleteAllDevices
  PROVE  BatchInv'
<1>1. /\ device' = [ip \in Addresses |-> NoDevice] /\ pool' = [ip \in Addresses |-> NoLink]
      /\ inUse' = inUse \ {device[ip].name : ip \in Live}
      /\ teardown' = teardown \cup {device[ip].tun : ip \in {x \in Live : device[x].pre}}
      /\ UNCHANGED <<gateVars, batch, cursor, nextTun, pooled, workers, netdevs, creators, routes>>
  BY Zenon DEF DeleteAllDevices, NamesAfterWipe
<1>2. NoDevice \in DeviceRec /\ NoDevice.tun = NoLink /\ NoLink \in Links
  BY DEF NoDevice, DeviceRec, Links, SysNames
<1>3. /\ device' \in [Addresses -> DeviceRec] /\ pool' \in [Addresses -> Links]
      /\ \A ip \in Addresses : device'[ip] = NoDevice /\ pool'[ip] = NoLink
  BY <1>1, <1>2, Zenon
<1>4. NoLink < nextTun /\ \A w \in workers : w.tun # NoLink
  BY BatchFacts DEF BatchTypes, WorkerRec, NoLink
<1>5. \A x \in teardown' \ teardown : \E ip \in Addresses : device[ip] # NoDevice
      /\ x = device[ip].tun
  BY <1>1, Zenon DEF Live
<1>6. BatchTypes'
  BY <1>1, <1>3, BatchFacts, Zenon DEF BatchTypes, gateVars
<1>7. GateHeld' /\ WalkKept'
  BY <1>1, <1>3, CourseAfterDeletion, Zenon
<1>8. NumberedLinks'
  <2>1. teardown' \subseteq 0..(nextTun - 1)
    BY <1>5, BatchFacts DEF NumberedLinks, DeviceLinks
  <2>2. QED
    BY <1>1, <1>2, <1>3, <1>4, <2>1, BatchFacts, Zenon DEF NumberedLinks
<1>9. WorkerLinks'
  <2>1. \A w \in workers : w.tun \notin teardown'
    BY <1>5, BatchFacts DEF WorkerLinks
  <2>2. QED
    BY <1>1, <1>2, <1>3, <1>4, <2>1, BatchFacts, Zenon DEF WorkerLinks
<1>10. PoolLinks'
  BY <1>3, Zenon DEF PoolLinks
<1>11. CreatorLinks'
  <2>1. \A c \in creators : c.tun \notin teardown'
    BY <1>5, BatchFacts DEF CreatorLinks, DeviceLinks
  <2>2. QED
    BY <1>1, <1>3, <2>1, BatchFacts, Zenon DEF CreatorLinks
<1>12. DeviceLinks'
  BY <1>2, <1>3, Zenon DEF DeviceLinks
<1>13. Live' = {} /\ Waiting' = Waiting
  BY <1>1, <1>3, Zenon DEF Live, Waiting
<1>14. NamesHeld'
  <2>1. \A e \in Waiting : \A ip \in Live : e.name # device[ip].name
    BY BatchFacts, Zenon DEF NamesHeld
  <2>2. inUse' = {e.name : e \in Waiting}
    BY <1>1, <2>1, BatchFacts, Zenon DEF NamesHeld
  <2>3. QED
    BY <1>13, <2>2, BatchFacts, Zenon DEF NamesHeld
<1>15. RoutesComing'
  BY <1>13, Zenon DEF RoutesComing
<1>16. QED
  BY <1>6, <1>7, <1>8, <1>9, <1>10, <1>11, <1>12, <1>14, <1>15, Zenon DEF BatchInv

\* BulkDelete keeps the invariant.
LEMMA BulkDeleteKeeps ==
  ASSUME BatchInv, BulkDelete
  PROVE  BatchInv'
<1>1. /\ teardown' = {} /\ (netdevs' = netdevs \/ netdevs' = netdevs \ teardown)
      /\ UNCHANGED <<gateVars, batch, cursor, nextTun, pooled, pool, workers, creators, device, inUse,
         fleetVars, routes>>
  BY Zenon DEF BulkDelete, fleetVars
<1>2. GateHeld' /\ WalkKept' /\ NamesHeld' /\ RoutesComing'
  BY <1>1, CourseLeft, Zenon
<1>3. BatchTypes'
  BY <1>1, BatchFacts, Zenon DEF BatchTypes, gateVars
<1>4. NumberedLinks'
  BY <1>1, BatchFacts, Zenon DEF NumberedLinks
<1>5. WorkerLinks'
  BY <1>1, BatchFacts, Zenon DEF WorkerLinks
<1>6. PoolLinks'
  BY <1>1, BatchFacts, Zenon DEF PoolLinks
<1>7. CreatorLinks'
  BY <1>1, BatchFacts, Zenon DEF CreatorLinks
<1>8. DeviceLinks'
  BY <1>1, BatchFacts, Zenon DEF DeviceLinks
<1>9. QED
  BY <1>2, <1>3, <1>4, <1>5, <1>6, <1>7, <1>8, Zenon DEF BatchInv
--------------------------------------------------------------------------------
(* The invariant holds, and says what DevicesKept says. *)

\* The simulator starts in the invariant.
LEMMA BatchStarts ==
  ASSUME BatchInit
  PROVE  BatchInv
<1>0. /\ gate = 0 /\ token = 0 /\ reload = "out" /\ batch = [n \in Numbers |-> NoBatch]
      /\ cursor = 0 /\ nextTun = 0 /\ pooled = FALSE
      /\ pool = [ip \in Addresses |-> NoLink] /\ device = [ip \in Addresses |-> NoDevice]
      /\ workers = {} /\ creators = {} /\ inUse = {} /\ netdevs = {} /\ teardown = {}
  BY Zenon DEF BatchInit
<1>1. NoBatch \in Batches /\ NoBatch.pc = "out" /\ "out" \notin Inside /\ "out" \notin Held
      /\ "out" \notin Making
  BY DEF NoBatch, Batches, Inside, Held, Making
<1>2. NoDevice \in DeviceRec /\ NoDevice.tun = NoLink /\ NoLink \in Links /\ NoLink < 0
  BY DEF NoDevice, DeviceRec, Links, SysNames, NoLink
<1>3. BatchTypes
  <2>1. /\ batch \in [Numbers -> Batches] /\ pool \in [Addresses -> Links]
        /\ device \in [Addresses -> DeviceRec]
    BY <1>0, <1>1, <1>2, Zenon
  <2>2. /\ gate \in Numbers \cup {0, Reloading} /\ token \in Numbers \cup {0}
        /\ reload \in {"out", "locked", "shown", "hidden", "done"}
        /\ pooled \in BOOLEAN
    BY <1>0, Zenon
  <2>3. cursor \in Int /\ nextTun \in Nat
    BY <1>0
  <2>4. workers \subseteq WorkerRec /\ creators \subseteq CreatorRec /\ IsFiniteSet(creators)
    BY <1>0, FS_EmptySet, Zenon
  <2>5. QED
    BY <2>1, <2>2, <2>3, <2>4, Zenon DEF BatchTypes
<1>4. GateHeld
  BY <1>0, <1>1, NumbersPositive, Zenon DEF GateHeld
<1>5. WalkKept
  BY <1>0, <1>1, Zenon DEF WalkKept, OnCourse, Making
<1>6. NumberedLinks
  BY <1>0, <1>2, Zenon DEF NumberedLinks
<1>7. WorkerLinks /\ PoolLinks /\ CreatorLinks /\ DeviceLinks
  BY <1>0, <1>2, Zenon DEF WorkerLinks, PoolLinks, CreatorLinks, DeviceLinks
<1>8. Live = {} /\ Waiting = {}
  BY <1>0, Zenon DEF Live, Waiting
<1>9. NamesHeld /\ RoutesComing
  BY <1>0, <1>8, Zenon DEF NamesHeld, RoutesComing
<1>10. QED
  BY <1>3, <1>4, <1>5, <1>6, <1>7, <1>9, Zenon DEF BatchInv

\* Every step, of whoever runs, keeps the invariant.
LEMMA BatchStepKeeps ==
  ASSUME BatchInv, [BatchNext]_batchVars
  PROVE  BatchInv'
<1>1. ASSUME NEW n \in Numbers, NEW start \in Starts, NEW count \in Counts, NEW pre \in BOOLEAN,
             TryEnter(n, start, count, pre)
      PROVE  BatchInv'
  BY <1>1, TryEnterKeeps, Zenon
<1>2. ASSUME NEW n \in Numbers, BatchGoesOn(n) PROVE BatchInv'
  <2>1. CASE ShowToken(n) \/ HideToken(n) \/ Reject(n)
    BY <2>1, MovesKeep, Zenon
  <2>2. CASE Unlock(n)
    BY <2>2, UnlockKeeps, Zenon
  <2>3. CASE PreAllocate(n)
    BY <2>3, PreAllocateKeeps, Zenon
  <2>4. CASE Rewind(n)
    BY <2>4, RewindKeeps, Zenon
  <2>5. CASE Launch(n) \/ Step(n)
    BY <2>5, LaunchKeeps, Zenon
  <2>6. CASE Finish(n)
    BY <2>6, FinishKeeps, Zenon
  <2>7. QED
    BY <1>2, <2>1, <2>2, <2>3, <2>4, <2>5, <2>6, Zenon DEF BatchGoesOn
<1>3. CASE ReloadResources
  BY <1>3, ReloadKeeps, Zenon
<1>4. ASSUME NEW w \in workers, WorkerMakes(w) \/ WorkerStores(w) PROVE BatchInv'
  BY <1>4, WorkerMakesKeeps, WorkerStoresKeeps, Zenon
<1>5. ASSUME NEW c \in creators, CreatorGoesOn(c) PROVE BatchInv'
  <2>1. CASE TakeLink(c)
    BY <2>1, TakeLinkKeeps, Zenon
  <2>2. CASE MakeLink(c)
    BY <2>2, MakeLinkKeeps, Zenon
  <2>3. CASE MakeFails(c)
    BY <2>3, MakeFailsKeeps, Zenon
  <2>4. CASE ReserveName(c)
    BY <2>4, ReserveNameKeeps, Zenon
  <2>5. CASE StartFails(c)
    BY <2>5, StartFailsKeeps, Zenon
  <2>6. CASE Publish(c)
    BY <2>6, PublishKeeps, Zenon
  <2>7. QED
    BY <1>5, <2>1, <2>2, <2>3, <2>4, <2>5, <2>6, Zenon DEF CreatorGoesOn
<1>6. ASSUME NEW ip \in Addresses, DeleteDevice(ip) PROVE BatchInv'
  BY <1>6, DeleteDeviceKeeps, Zenon
<1>7. CASE DeleteAllDevices
  BY <1>7, DeleteAllKeeps, Zenon
<1>8. CASE BulkDelete
  BY <1>8, BulkDeleteKeeps, Zenon
<1>9. CASE UNCHANGED batchVars
  <2>1. UNCHANGED <<gateVars, batch, cursor, linkVars, fleetVars, creators, device, routes>>
    BY <1>9, Zenon DEF batchVars, fleetVars
  <2>2. GateHeld' /\ WalkKept' /\ NamesHeld' /\ RoutesComing'
    BY <2>1, CourseLeft, Zenon
  <2>3. NumberedLinks' /\ WorkerLinks' /\ PoolLinks' /\ CreatorLinks' /\ DeviceLinks'
    BY <2>1, LinksLeft, Zenon
  <2>4. BatchTypes'
    BY <2>1, BatchFacts, Zenon DEF BatchTypes, gateVars, linkVars
  <2>5. QED
    BY <2>2, <2>3, <2>4, Zenon DEF BatchInv
<1>10. QED
  BY <1>1, <1>2, <1>3, <1>4, <1>5, <1>6, <1>7, <1>8, <1>9, Zenon DEF BatchNext

\* As many names as holders.
LEMMA NamesCounted ==
  ASSUME BatchInv
  PROVE  SysNamesExact
<1> DEFINE devs == {device[ip].name : ip \in Live}
           wait == {c.name : c \in Waiting}
           f == [ip \in Live |-> device[ip].name]
           g == [c \in Waiting |-> c.name]
<1>1. IsFiniteSet(Live)
  <2>1. IsFiniteSet(Addresses)
    BY BatchAssumption, FS_Interval DEF BatchAssumption, Addresses
  <2>2. Live \in SUBSET Addresses
    BY Zenon DEF Live
  <2>3. QED
    BY <2>1, <2>2, FS_Subset, Zenon
<1>2. IsFiniteSet(Waiting)
  <2>1. Waiting \in SUBSET creators
    BY Zenon DEF Waiting
  <2>2. QED
    BY <2>1, BatchFacts, FS_Subset, Zenon DEF BatchTypes
<1>3. ExistsBijection(Live, devs)
  <2>1. f \in [Live -> devs]
    BY Zenon
  <2>2. \A x, y \in Live : f[x] = f[y] => x = y
    BY BatchFacts, Zenon DEF NamesHeld
  <2>3. \A t \in devs : \E x \in Live : f[x] = t
    BY Zenon
  <2>4. f \in Bijection(Live, devs)
    BY <2>1, <2>2, <2>3, Zenon DEF Bijection, Injection, Surjection, IsInjective
  <2>5. QED
    BY <2>4, Zenon DEF ExistsBijection
<1>4. ExistsBijection(Waiting, wait)
  <2>1. g \in [Waiting -> wait]
    BY Zenon
  <2>2. \A x, y \in Waiting : g[x] = g[y] => x = y
    BY BatchFacts, Zenon DEF NamesHeld
  <2>3. \A t \in wait : \E x \in Waiting : g[x] = t
    BY Zenon
  <2>4. g \in Bijection(Waiting, wait)
    BY <2>1, <2>2, <2>3, Zenon DEF Bijection, Injection, Surjection, IsInjective
  <2>5. QED
    BY <2>4, Zenon DEF ExistsBijection
<1>5. inUse = devs \cup wait /\ devs \cap wait = {}
  BY BatchFacts DEF NamesHeld
<1> HIDE DEF devs, wait, f, g
<1>6. IsFiniteSet(devs) /\ IsFiniteSet(wait) /\ Cardinality(devs) = Cardinality(Live)
      /\ Cardinality(wait) = Cardinality(Waiting)
  BY <1>1, <1>2, <1>3, <1>4, FS_Bijection, Zenon
<1>7. Cardinality(devs \cup wait) = Cardinality(devs) + Cardinality(wait) - Cardinality({})
  BY <1>5, <1>6, FS_Union
<1>8. Cardinality({}) = 0 /\ Cardinality(devs) \in Nat /\ Cardinality(wait) \in Nat
  BY <1>6, FS_EmptySet, FS_CardinalityType, Zenon
<1>9. Cardinality(inUse) = Cardinality(Live) + Cardinality(Waiting)
  BY <1>5, <1>6, <1>7, <1>8
<1>10. QED
  BY <1>5, <1>9, Zenon DEF SysNamesExact, Waiting, devs, wait

\* The invariant gives every part of DevicesKept.
LEMMA BatchImplies ==
  ASSUME BatchInv
  PROVE  DevicesKept
<1>1. TokenIsHolder
  BY BatchFacts, Zenon DEF BatchTypes, GateHeld, TokenIsHolder, Inside
<1>2. NamesFresh
  <2>1. \A w \in workers : ~w.made => w.tun \notin netdevs
    BY BatchFacts, Zenon DEF WorkerLinks
  <2>2. \A c \in creators : c.pc = "make" => c.tun \notin netdevs /\ c.tun # NoLink
    BY BatchFacts, Zenon DEF CreatorLinks
  <2>3. \A w, v \in workers : v # w => v.tun # w.tun
    BY BatchFacts, Zenon DEF WorkerLinks
  <2>4. \A w \in workers : \A c \in creators : c.tun # w.tun
    BY BatchFacts, Zenon DEF WorkerLinks
  <2>5. \A c, d \in creators : c.tun # NoLink /\ d # c => d.tun # c.tun
    BY BatchFacts, Zenon DEF CreatorLinks
  <2>6. QED
    BY <2>1, <2>2, <2>3, <2>4, <2>5, Zenon DEF NamesFresh
<1>3. DeviceLinksLive
  BY BatchFacts, Zenon DEF DeviceLinks, DeviceLinksLive, Live
<1>4. SysNamesExact
  BY NamesCounted, Zenon
<1>5. WalksOwnRange
  <2>1. SUFFICES ASSUME NEW n \in Numbers, batch[n].pc \in Making, batch[n].left = 0
                 PROVE  LET b == batch[n] IN
                        /\ b.seen = {Walk(b.start, b.count)[i] : i \in 0..(b.count - 1)}
                        /\ \A ip \in b.seen \ {b.start} : assignableHost(ip)
    BY Zenon DEF WalksOwnRange, Making
  <2> DEFINE b == batch[n]
             w == Walk(b.start, b.count)
  <2>2. /\ b.count \in Nat /\ w[0] = b.start
        /\ \A i \in 1..b.count : assignableHost(w[i])
    BY <2>1, WalkOf, Zenon DEF Making, Inside, Held
  <2>3. b.seen = {w[i] : i \in 0..(b.count - b.left - 1)}
    BY <2>1, BatchFacts, Zenon DEF WalkKept, OnCourse, Visited
  <2>4. b.count - b.left - 1 = b.count - 1
    BY <2>1, <2>2
  <2>5. b.seen = {w[i] : i \in 0..(b.count - 1)}
    BY <2>3, <2>4, Zenon
  <2> HIDE DEF w, b
  <2>6. ASSUME NEW ip \in b.seen \ {b.start} PROVE assignableHost(ip)
    <3>1. PICK i \in 0..(b.count - 1) : ip = w[i]
      BY <2>5, <2>6, Zenon
    <3>2. i # 0
      BY <2>2, <2>6, <3>1, Zenon
    <3>3. i \in 1..b.count
      BY <2>2, <3>2
    <3>4. QED
      BY <2>2, <3>1, <3>3, Zenon
  <2>7. QED
    BY <2>5, <2>6, Zenon DEF w, b
<1>6. DevicesRouted
  <2>1. SUFFICES ASSUME gate = 0 PROVE \A ip \in Live : networkCIDR(ip) \in routes.up \cup routes.failed
    BY Zenon DEF DevicesRouted
  <2>2. \A n \in Numbers : batch[n].pc \notin Making
    BY <2>1, NumbersPositive, BatchFacts, Zenon DEF GateHeld, Making, Inside, Held
  <2>3. QED
    BY <2>2, BatchFacts, Zenon DEF RoutesComing
<1>7. QED
  BY <1>1, <1>2, <1>3, <1>4, <1>5, <1>6, Zenon DEF DevicesKept

\* Whatever the batches, the workers they gave up waiting for, the deletions and a
\* reload do, in whatever order: a refusal names the holder of the creation gate;
\* no link name is taken twice and no live device loses its link (prealloc.go,
\* DeleteDevice, DeleteAllDevices); the names in use are exactly those of the
\* devices there and on their way; a batch visits the range it was asked for; and
\* once the gate is free every device's subnet has a route, unless adding it failed
\* (addHostRoute, whose failure is only logged).
THEOREM DevicesAlwaysKept == BatchSpec => []DevicesKept
<1>1. BatchInit => BatchInv
  BY BatchStarts, Zenon
<1>2. BatchInv /\ [BatchNext]_batchVars => BatchInv'
  BY BatchStepKeeps, Zenon
<1>3. BatchInv => DevicesKept
  BY BatchImplies, Zenon
<1>4. QED
  BY <1>1, <1>2, <1>3, PTL DEF BatchSpec
================================================================================
