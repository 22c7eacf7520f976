----------------------------- MODULE Directory -----------------------------
(***************************************************************************)
(* How nodes find each other. A block producer keeps the nodes it knows in *)
(* the public key store, on disk, and on a hash ring in memory. A node     *)
(* pings the block producers until each has taken it, asks them for the    *)
(* keys and the addresses of the nodes it dials, and caches what it learns.*)
(*                                                                         *)
(* A node id stands for its public key, which never changes; an address is *)
(* the number of times its node has moved. The hashes are an order of the  *)
(* replicas of all ids and, for each node, how many of them are not above  *)
(* the hash of its own id.                                                 *)
(***************************************************************************)
EXTENDS Integers, Sequences, FiniteSets, Functions

CONSTANTS BPs, Nodes,
          NumberOfReplicas

ASSUME DirectoryAssumption ==
  /\ BPs # {} /\ BPs \cap Nodes = {} /\ "none" \notin BPs \union Nodes
  /\ NumberOfReplicas \in Nat \ {0}

VARIABLES
  order,      \* the ids, each NumberOfReplicas times, in the order of the hashes
  spot,       \* where the hash of a node id is
  up,         \* the block producers that run
  store,      \* the kms table of a block producer: the addresses of ids
  circle,     \* Consistent.circle: the same, of the ids on the ring
  adding,     \* the node of a Consistent.add between its two halves
  stuck,      \* the block producers with a read lock of the ring held for ever
  addr,       \* the address of a node
  ping,       \* the goroutines of RegisterNodeToBP
  reg,        \* RegisterNodeToBP of a node
  cache,      \* route.Resolver.cache of a node
  kms,        \* the keys in the public key store of a node
  currentBP,  \* mux.currentBP of a node
  dial,       \* the DialEx of a node
  upsets      \* bound: how many more crashes and moves there may be

dirVars == <<order, spot, up, store, circle, adding, stuck, addr, ping, reg, cache, kms,
             currentBP, dial, upsets>>
bpVars == <<up, store, circle, adding, stuck>>
nodeVars == <<addr, ping, reg, cache, kms, currentBP, dial>>

NoNode == [node |-> "none", addr |-> 0]
NoDial == [to |-> "none", at |-> "none", left |-> {}, able |-> {}]

\* initBPNodeIDs, and SeedBPNodes: everybody knows the block producers.
Seeds == [b \in BPs |-> 0]

DirInit ==
  /\ up = BPs /\ stuck = {}
  /\ store = [b \in BPs |-> Seeds] /\ circle = store
  /\ adding = [b \in BPs |-> NoNode]
  /\ addr = [n \in Nodes |-> 0]
  /\ ping = [n \in Nodes |-> [b \in BPs |-> "none"]]
  /\ reg = [n \in Nodes |-> "no"]
  /\ cache = [n \in Nodes |-> Seeds]
  /\ kms = [n \in Nodes |-> {n}]
  /\ currentBP = [n \in Nodes |-> "none"]
  /\ dial = [n \in Nodes |-> NoDial]

--------------------------------------------------------------------------
(* The ring *)

\* updateSortedHashes.
sortedHashes(known) ==
  SelectSeq([p \in 1..Len(order) |-> p], LAMBDA p : order[p] \in DOMAIN known)

\* Mutant: the first hash that is not below the key.
searchFrom(ring, key) ==
  LET above == {i \in 1..Len(ring) : ring[i] >= key} IN
  IF above = {} THEN 0 ELSE (CHOOSE i \in above : \A j \in above : i <= j) - 1

\* search: the index of the first hash above the key, or else of the first of all.
search(ring, key) ==
  LET above == {i \in 1..Len(ring) : ring[i] > key} IN
  IF above = {} THEN 0 ELSE (CHOOSE i \in above : \A j \in above : i <= j) - 1

Forever == <<"forever">>

\* GetNeighborsEx: the index i goes on from the first hit until it is back or there are n
\* nodes. Going over the end it is 0 inside the loop and 1 when it is compared.
GetNeighborsEx(known, key, n, roles) ==
  LET ring     == sortedHashes(known)
      count    == Len(ring) \div NumberOfReplicas
      wanted   == IF count < n THEN count ELSE n
      noFilter == roles = {}
      start    == search(ring, key)
      Elem(i)  == order[ring[i + 1]]
      Take(res, i) == IF (noFilter \/ Elem(i) \in roles) /\ Elem(i) \notin Range(res)
                      THEN Append(res, Elem(i)) ELSE res
      first == Take(<<>>, start)
      Turn(w) == LET at  == IF w.i >= Len(ring) THEN 0 ELSE w.i
                     now == Take(w.res, at)
                 IN IF w.end \/ w.i = start THEN [w EXCEPT !.end = TRUE]
                    ELSE [i |-> at + 1, res |-> now, end |-> Len(now) = wanted]
      walk[k \in 0..(2 * Len(ring) + 1)] ==
        IF k = 0 THEN [i |-> start + 1, res |-> first, end |-> FALSE] ELSE Turn(walk[k - 1])
      last == walk[2 * Len(ring) + 1]
  IN IF noFilter /\ Len(first) = wanted THEN first
     ELSE IF last.end THEN last.res ELSE Forever

--------------------------------------------------------------------------
(* The block producers *)

\* kms.SetNode: the row of an id is inserted or replaced.
SetNode(known, id, a) ==
  [x \in DOMAIN known \union {id} |-> IF x = id THEN a ELSE known[x]]

\* IsPermitted, of the functions of the directory: an anonymous caller may only ping.
IsPermitted(caller, func) ==
  caller = "anonymous" => func = "DHT.Ping"

Upset == upsets > 0 /\ upsets' = upsets - 1
Calm == UNCHANGED upsets
DirRigid == UNCHANGED <<order, spot>>

\* The ring is locked by nobody who would keep b from changing it.
Unlocked(b) == adding[b] = NoNode /\ b \notin stuck

\* DHTService.Ping, to the first half of Consistent.add: kms.SetNode. A ping is anonymous.
Ping(n, b) ==
  /\ ping[n][b] = "calling" /\ b \in up /\ Unlocked(b)
  /\ IsPermitted("anonymous", "DHT.Ping")
  /\ store' = [store EXCEPT ![b] = SetNode(@, n, addr[n])]
  /\ adding' = [adding EXCEPT ![b] = [node |-> n, addr |-> addr[n]]]
  /\ Calm /\ DirRigid /\ UNCHANGED <<up, circle, stuck, nodeVars>>

\* AddCache.
AddCache(b) == circle' = [circle EXCEPT ![b] = SetNode(@, adding[b].node, adding[b].addr)]

\* Of the goroutine whose ping of b is answered, RegisterNodeToBP hears if it is waiting.
Pinged(n, b) ==
  /\ ping' = [ping EXCEPT ![n][b] = "done"]
  /\ reg' = IF reg[n] = "waiting" THEN [reg EXCEPT ![n] = "ok"] ELSE reg

\* The second half of the add, and the answer: unless its node has moved.
AddEnds(b) ==
  LET n == adding[b].node IN
  /\ b \in up /\ adding[b] # NoNode
  /\ AddCache(b) /\ adding' = [adding EXCEPT ![b] = NoNode]
  /\ IF ping[n][b] = "calling" /\ addr[n] = adding[b].addr THEN Pinged(n, b)
     ELSE UNCHANGED <<ping, reg>>
  /\ Calm /\ DirRigid
  /\ UNCHANGED <<up, store, stuck, addr, cache, kms, currentBP, dial>>

\* Dials of which b cannot answer for certain any more.
Unable(b) == dial' = [n \in Nodes |-> [dial[n] EXCEPT !.able = @ \ {b}]]

\* A block producer crashes, and everything in its memory is gone.
CrashBP(b) ==
  /\ b \in up /\ Upset /\ up' = up \ {b}
  /\ circle' = [circle EXCEPT ![b] = <<>>]
  /\ adding' = [adding EXCEPT ![b] = NoNode]
  /\ stuck' = stuck \ {b}
  /\ Unable(b)
  /\ DirRigid /\ UNCHANGED <<store, addr, ping, reg, cache, kms, currentBP>>

\* InitPublicKeyStore: the table as it was, with the seeds.
InitPublicKeyStore(b) ==
  [x \in DOMAIN store[b] \union BPs |-> IF x \in BPs THEN Seeds[x] ELSE store[b][x]]

\* InitConsistent: all that is stored goes onto the ring.
InitConsistent(b) ==
  /\ b \notin up /\ up' = up \union {b}
  /\ store' = [store EXCEPT ![b] = InitPublicKeyStore(b)]
  /\ circle' = [circle EXCEPT ![b] = InitPublicKeyStore(b)]
  /\ Calm /\ DirRigid /\ UNCHANGED <<adding, stuck, nodeVars>>

\* b answers calls of n: it runs, and serverHandshake finds the key of n.
Accepts(b, n) == b \in up /\ n \in DOMAIN store[b]

\* Consistent.GetNode finds t.
Has(b, t) == t \in DOMAIN circle[b]

\* DHTService.FindNode has an answer for m.
FindNode(b, m, t) == Accepts(b, m) /\ IsPermitted(m, "DHT.FindNode") /\ Has(b, t)

\* DHTService.FindNeighbor, of the block producers.
FindNeighbor(b, n) == GetNeighborsEx(circle[b], spot[n], 1, BPs)

\* GetCurrentBP, by a call to b of FindNeighbor.
GetCurrentBP(n, b) ==
  LET near == FindNeighbor(b, n) IN
  /\ currentBP[n] = "none" /\ Accepts(b, n) /\ Unlocked(b)
  /\ IsPermitted(n, "DHT.FindNeighbor")
  /\ currentBP' = [currentBP EXCEPT ![n] = IF near = Forever THEN "hangs" ELSE near[1]]
  /\ stuck' = IF near = Forever THEN stuck \union {b} ELSE stuck
  /\ Calm /\ DirRigid
  /\ UNCHANGED <<up, store, circle, adding, addr, ping, reg, cache, kms, dial>>

--------------------------------------------------------------------------
(* Registration *)

\* RegisterNodeToBP starts its goroutines, and then waits for the first that is through.
RegisterNodeToBP(n) ==
  /\ \/ /\ reg[n] = "no" /\ reg' = [reg EXCEPT ![n] = "started"]
        /\ ping' = [ping EXCEPT ![n] = [b \in BPs |-> "calling"]]
     \/ reg[n] = "started" /\ reg' = [reg EXCEPT ![n] = "waiting"] /\ UNCHANGED ping
     \/ reg[n] = "waiting" /\ reg' = [reg EXCEPT ![n] = "timeout"] /\ UNCHANGED ping
  /\ Calm /\ DirRigid /\ UNCHANGED <<bpVars, addr, cache, kms, currentBP, dial>>

\* registerNode of the driver, in Init: one ping, of the block producer in its configuration.
registerNode(n, b) ==
  /\ reg[n] = "no" /\ reg' = [reg EXCEPT ![n] = "client"]
  /\ ping' = [ping EXCEPT ![n][b] = "calling"]
  /\ Calm /\ DirRigid /\ UNCHANGED <<bpVars, addr, cache, kms, currentBP, dial>>

\* A goroutine whose ping failed sleeps and tries again.
AfterFailure == "sleeping"

\* A ping fails, and in the driver so does Init, for good.
PingFails(n, b) ==
  /\ \/ ping[n][b] = "calling" /\ b \notin up
        /\ ping' = [ping EXCEPT ![n][b] = IF reg[n] = "client" THEN "failed" ELSE AfterFailure]
     \/ ping[n][b] = "sleeping"
        /\ ping' = [ping EXCEPT ![n][b] = "calling"]
  /\ Calm /\ DirRigid /\ UNCHANGED <<bpVars, addr, reg, cache, kms, currentBP, dial>>

\* A node moves: it is started again with another address. Its key store is on disk.
Move(n) ==
  /\ reg[n] # "no" /\ Upset
  /\ addr' = [addr EXCEPT ![n] = @ + 1]
  /\ ping' = [ping EXCEPT ![n] = [b \in BPs |-> "none"]]
  /\ reg' = [reg EXCEPT ![n] = "no"]
  /\ cache' = [cache EXCEPT ![n] = Seeds]
  /\ currentBP' = [currentBP EXCEPT ![n] = "none"]
  /\ dial' = [dial EXCEPT ![n] = NoDial]
  /\ DirRigid /\ UNCHANGED <<bpVars, kms>>

--------------------------------------------------------------------------
(* Dialling *)

\* The block producers that would tell m about t.
Able(m, t) == {b \in BPs : FindNode(b, m, t)}

\* m asks all block producers for t, in any order.
Ask(m, t, at) == [to |-> t, at |-> at, left |-> BPs, able |-> Able(m, t)]

\* kms.GetNodeInfo finds the key of t.
GetPublicKey(m, t) == t \in kms[m]

\* GetNodeAddrCache finds an address of t.
GetNodeAddrCache(m, t) == t \in DOMAIN cache[m]

\* GetNodeAddr: the address in the cache, or else ask.
GetNodeAddr(m, t) ==
  IF GetNodeAddrCache(m, t) THEN [NoDial EXCEPT !.to = t, !.at = "connect"]
  ELSE Ask(m, t, "addr")

\* GetSharedSecretWith: with the key in the store, or else ask for it; then the address.
GetSharedSecretWith(m, t) == IF GetPublicKey(m, t) THEN GetNodeAddr(m, t) ELSE Ask(m, t, "key")

\* DialEx of a node, when it has not dialled or that has ended.
DialEx(n, t) ==
  /\ n # t /\ dial[n].at \in {"none", "failed", "connected"}
  /\ dial' = [dial EXCEPT ![n] = GetSharedSecretWith(n, t)]
  /\ Calm /\ DirRigid /\ UNCHANGED <<bpVars, addr, ping, reg, cache, kms, currentBP>>

\* Who asks for whom: the node dialled asks for the key of the one that dials.
Asker(n) == IF dial[n].at = "accept" THEN dial[n].to ELSE n
Asked(n) == IF dial[n].at = "accept" THEN n ELSE dial[n].to

\* Mutant: the first failure is final.
GiveUpNow(left) == TRUE

\* FindNodeInBP has tried all block producers.
GiveUp(left) == left = {}

\* SetNodeAddrCache, and kms.SetNode of GetNodeInfo if it was the key that was asked for.
Learn(m, t, a, at) ==
  /\ cache' = [cache EXCEPT ![m] = SetNode(@, t, a)]
  /\ kms' = IF at = "addr" THEN kms ELSE [kms EXCEPT ![m] = @ \union {t}]

\* A call to b fails: it does not know one of the two, or the call is lost.
Refused(n, b) ==
  \/ ~FindNode(b, Asker(n), Asked(n)) /\ Calm /\ dial[n].able = dial'[n].able
  \/ Upset /\ dial'[n].able = dial[n].able \ {b}

\* FindNodeInBP: the call to b. The first answer ends it.
FindNodeInBP(n, b) ==
  LET m  == Asker(n)
      t  == Asked(n)
      at == dial[n].at
  IN /\ at \in {"key", "addr", "accept"} /\ b \in dial[n].left
     /\ \/ /\ FindNode(b, m, t) /\ adding[b] = NoNode
           /\ Learn(m, t, circle[b][t], at)
           /\ dial' = [dial EXCEPT ![n] =
                [NoDial EXCEPT !.to = dial[n].to,
                               !.at = IF at = "accept" THEN "connected" ELSE "connect"]]
           /\ Calm
        \/ /\ \E able \in {dial[n].able, dial[n].able \ {b}} :
                dial' = [dial EXCEPT ![n].left = @ \ {b}, ![n].able = able,
                           ![n].at = IF GiveUp(dial[n].left \ {b}) THEN "failed" ELSE at]
           /\ Refused(n, b)
           /\ UNCHANGED <<cache, kms>>
     /\ DirRigid /\ UNCHANGED <<bpVars, addr, ping, reg, currentBP>>

\* The TCP connection and the handshakes. The server asks for the key of its client, if it
\* does not have it.
Connect(n) ==
  LET t == dial[n].to IN
  /\ dial[n].at = "connect"
  /\ dial' = [dial EXCEPT ![n] =
       IF cache[n][t] # addr[t] THEN [NoDial EXCEPT !.to = t, !.at = "failed"]
       ELSE IF GetPublicKey(t, n) THEN [NoDial EXCEPT !.to = t, !.at = "connected"]
       ELSE [Ask(t, n, "accept") EXCEPT !.to = t]]
  /\ Calm /\ DirRigid /\ UNCHANGED <<bpVars, addr, ping, reg, cache, kms, currentBP>>

BPStep(b) == AddEnds(b) \/ CrashBP(b) \/ InitConsistent(b)
Member(n) == RegisterNodeToBP(n) \/ Move(n) \/ \E b \in BPs : Ping(n, b) \/ PingFails(n, b)
DriverNode(n) == \E b \in BPs : registerNode(n, b) \/ Ping(n, b) \/ PingFails(n, b)
Dialler(n) ==
  \/ Connect(n)
  \/ \E t \in Nodes : DialEx(n, t)
  \/ \E b \in BPs : FindNodeInBP(n, b)
=============================================================================
