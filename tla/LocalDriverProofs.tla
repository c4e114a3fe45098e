------------------------- MODULE LocalDriverProofs -------------------------
(***************************************************************************)
(* The single-process driver finds exactly the prefixes that enough        *)
(* clients start with, and drops no honest key, for every number of        *)
(* clients, string length and threshold.                                   *)
(*                                                                         *)
(* LocalInv is the inductive invariant.  After the load both collections   *)
(* hold the same keys, all in, whatever happens; between the steps of a    *)
(* level both frontiers are at the same prefixes, none twice, and no       *)
(* prefix that enough clients start with is missing; and before a prune    *)
(* the values of the last crawl are shares of the counts, whatever the     *)
(* sketch did since.                                                       *)
(***************************************************************************)
EXTENDS LocalDriver, KeyCollectionProofs

Clients == ClientKeys(0)

\* Where both frontiers are.
Places == Paths(col[0].frontier)

\* Both frontiers are at the distinct prefixes P of level l, and miss none
\* that enough clients start with.
FrontiersAt(P, l) ==
    /\ P \in Seq(BitPath(l)) /\ IsInjective(P)
    /\ \A q \in BitPath(l) : Count(ClientStrings, q) >= Threshold => q \in Range(P)
    /\ \A s \in Server : IsFrontier(col[s].frontier, P, NClients)

\* The values of the last crawl are shares of the counts of P.
SharesOf(P) ==
    /\ \A s \in Server : DOMAIN vals[s] = 1..Len(P)
    /\ \A i \in 1..Len(P) : Reconstruct(vals[0][i], vals[1][i]) = Count(ClientStrings, P[i])

DriverTyped == /\ strings \in [Site -> Key]
               /\ col \in [Server -> Collection]
               /\ pc \in {"load", "crawl", "sketch", "prune", "panicked"}
               /\ level \in 0..(DataLen - 1)

Loaded == IF pc = "load"
          THEN level = 0 /\ \A s \in Server : col[s] = NewCollection
          ELSE \A s \in Server : col[s].keys = AliveKeys(Clients)

LocalInv ==
    /\ DriverTyped
    /\ Loaded
    /\ pc = "crawl" =>
          /\ FrontiersAt(Places, level)
          /\ level > 0 => \A p \in Range(Places) : Count(ClientStrings, p) >= Threshold
    /\ pc \in {"sketch", "prune"} => FrontiersAt(Places, level + 1) /\ SharesOf(Places)
    /\ pc = "prune" => level < DataLen - 1

-----------------------------------------------------------------------------

(* Client i's key is key i mod the number of generated keys, which is there
   (main's keys[i % keys.len()]). *)
LEMMA ClientsTyped ==
    ASSUME strings \in [Site -> Key]
    PROVE  /\ \A s : ClientKeys(s) = Clients
           /\ Clients \in Seq(Key) /\ Len(Clients) = NClients /\ DOMAIN Clients = 1..NClients
           /\ ClientStrings = Bits(Clients)
           /\ ClientStrings \in Seq(BitString) /\ Len(ClientStrings) = NClients
<1> USE DriverAssumption
<1>1. PICK n \in Nat \ {0} : n = Cardinality(Site) /\ Site = 1..n
  OBVIOUS
<1>2. ASSUME NEW i \in 1..NClients PROVE ((i - 1) % n) + 1 \in Site
  <2>1. PICK x \in Int : x = i - 1
    OBVIOUS
  <2>2. n \in Int /\ n > 0
    OBVIOUS
  <2>3. PICK y \in 0..(n - 1) : y = x % n
    BY <2>2
  <2>4. y + 1 \in 1..n
    BY <2>2
  <2> QED BY <1>1, <2>1, <2>3, <2>4
<1>3. PICK ks : ks = Clients
  OBVIOUS
<1>4. ks = [i \in 1..NClients |-> strings[((i - 1) % n) + 1]]
  BY <1>1, <1>3 DEF Clients, ClientKeys
<1>5. ks \in [1..NClients -> Key]
  BY <1>2, <1>4
<1>6. ks \in Seq(Key) /\ Len(ks) = NClients /\ DOMAIN ks = 1..NClients
  BY <1>5
<1>7. PICK vs : vs = [i \in 1..NClients |-> ks[i].bits]
  OBVIOUS
<1>8. ClientStrings = vs /\ Bits(Clients) = vs
  BY <1>3, <1>6, <1>7 DEF ClientStrings, Bits, Clients
<1>9. vs \in [1..NClients -> BitString]
  <2>1. \A i \in 1..NClients : ks[i] \in Key
    BY <1>5
  <2> QED BY <1>7, <2>1 DEF Key
<1>10. vs \in Seq(BitString) /\ Len(vs) = NClients
  BY <1>9
<1>11. \A s : ClientKeys(s) = Clients
  BY DEF Clients, ClientKeys
<1> QED BY <1>3, <1>6, <1>8, <1>10, <1>11

LEMMA InitHolds == Init => LocalInv
<1> USE DataLenAssumption
<1> SUFFICES ASSUME Init PROVE LocalInv
  OBVIOUS
<1>1. NewCollection \in Collection
  BY DEF NewCollection, Collection
<1>2. /\ strings \in [Site -> Key] /\ pc = "load" /\ level = 0
      /\ col = [s \in Server |-> NewCollection]
  BY DEF Init
<1>3. DriverTyped
  BY <1>1, <1>2 DEF DriverTyped
<1>4. Loaded
  BY <1>2 DEF Loaded
<1> QED BY <1>2, <1>3, <1>4 DEF LocalInv

(* Every client's key is stored once at either server, and both trees are at
   the root (add_key, tree_init). *)
LEMMA LoadedCollection ==
    ASSUME NEW ks \in Seq(Key), NEW c, c = TreeInit(AddKeys(NewCollection, ks))
    PROVE  /\ c \in Collection /\ c.keys = AliveKeys(ks)
           /\ IsFrontier(c.frontier, << << >> >>, Len(ks))
<1>1. PICK m : m = AliveKeys(ks)
  OBVIOUS
<1>2. Len(m) = Len(ks) /\ DOMAIN m = 1..Len(ks) /\ Len(ks) \in Nat
  BY <1>1, AliveLength
<1>3. m \in Seq(StoredKey)
  <2>1. PICK n \in Nat : n = Len(ks) /\ DOMAIN ks = 1..n
    BY LenProperties
  <2>2. \A i \in 1..n : ks[i] \in Key
    BY <2>1, ElementOfSeq
  <2>3. m = [i \in 1..n |-> [alive |-> TRUE, key |-> ks[i]]]
    BY <1>1, <2>1 DEF AliveKeys
  <2>4. m \in [1..n -> StoredKey]
    BY <2>2, <2>3 DEF StoredKey
  <2> QED BY <2>4
<1>4. << >> \o m = m
  BY <1>3
<1>5. PICK a : a = AddKeys(NewCollection, ks)
  OBVIOUS
<1>6. a = [keys |-> m, frontier |-> << >>, frontierLast |-> << >>]
  <2>1. NewCollection = [keys |-> << >>, frontier |-> << >>, frontierLast |-> << >>]
    BY DEF NewCollection
  <2>2. a = [NewCollection EXCEPT !.keys = << >> \o m]
    BY <1>1, <1>5, <2>1 DEF AddKeys, AliveKeys
  <2> QED BY <1>4, <2>1, <2>2
<1>7. PICK w \in Nat : w = Len(ks)
  BY <1>2
<1>8. PICK root : root = <<[path |-> << >>, value |-> 0, width |-> w]>>
  OBVIOUS
<1>9. IsFrontier(root, << << >> >>, w)
  BY <1>8, RootFrontier
<1>10. root \in Seq(TreeNode)
  BY <1>9 DEF IsFrontier
<1>11. c = [keys |-> m, frontier |-> root, frontierLast |-> << >>]
  <2>1. a.keys = m /\ Len(a.keys) = w
    BY <1>2, <1>6, <1>7
  <2>2. c = [a EXCEPT !.frontier = root, !.frontierLast = << >>]
    BY <1>5, <1>8, <2>1 DEF TreeInit
  <2> QED BY <1>6, <2>2
<1>12. c \in Collection
  BY <1>3, <1>10, <1>11 DEF Collection
<1> QED BY <1>1, <1>7, <1>9, <1>11, <1>12

LEMMA LoadKeeps ==
    ASSUME LocalInv, Load
    PROVE  LocalInv'
<1> USE DataLenAssumption
<1>1. /\ pc = "load" /\ pc' = "crawl" /\ strings' = strings /\ level' = level
      /\ col' = [s \in Server |-> TreeInit(AddKeys(col[s], ClientKeys(s)))]
  BY DEF Load
<1>2. /\ strings \in [Site -> Key] /\ level = 0 /\ level \in 0..(DataLen - 1)
      /\ \A s \in Server : col[s] = NewCollection
  BY <1>1 DEF LocalInv, DriverTyped, Loaded
<1>3. PICK ks : ks = Clients /\ ks \in Seq(Key) /\ Len(ks) = NClients
  BY <1>2, ClientsTyped
<1>4. ClientStrings' = ClientStrings /\ Clients' = ks
  BY <1>1, <1>3 DEF ClientStrings, Clients, ClientKeys
<1>5. ASSUME NEW s \in Server
      PROVE  /\ col'[s] \in Collection /\ col'[s].keys = AliveKeys(ks)
             /\ IsFrontier(col'[s].frontier, << << >> >>, NClients)
  <2>1. ClientKeys(s) = ks
    BY <1>2, <1>3, ClientsTyped
  <2>2. col'[s] = TreeInit(AddKeys(NewCollection, ks))
    BY <1>1, <1>2, <2>1
  <2> QED BY <1>3, <2>2, LoadedCollection
<1>6. << << >> >> \in Seq(BitPath(0)) /\ IsInjective(<< << >> >>) /\ Range(<< << >> >>) = {<< >>}
  BY RootFrontier
<1>7. Places' = << << >> >>
  <2>1. 0 \in Server
    BY DEF Server
  <2>2. Paths(col'[0].frontier) = << << >> >>
    BY <1>5, <1>6, <2>1, FrontierParts
  <2> QED BY <2>2 DEF Places
<1>8. PICK P : P = << << >> >>
  OBVIOUS
<1>9. FrontiersAt(P, 0)'
  <2>1. P \in Seq(BitPath(0)) /\ IsInjective(P) /\ \A q \in BitPath(0) : q \in Range(P)
    BY <1>6, <1>8, RootPath
  <2>2. \A s \in Server : IsFrontier(col'[s].frontier, P, NClients)
    BY <1>5, <1>8
  <2> QED BY <2>1, <2>2 DEF FrontiersAt
<1>10. FrontiersAt(Places, level)'
  <2>1. Places' = P /\ level' = 0
    BY <1>1, <1>2, <1>7, <1>8
  <2> QED BY <1>9, <2>1 DEF FrontiersAt
<1>11. DriverTyped'
  BY <1>1, <1>2, <1>5 DEF DriverTyped
<1>12. Loaded'
  BY <1>1, <1>4, <1>5 DEF Loaded
<1> QED BY <1>1, <1>2, <1>10, <1>11, <1>12 DEF LocalInv

(* The crawl takes both frontiers to the children, and its values are shares
   of their counts; when it panics nothing has changed. *)
LEMMA CrawlKeeps ==
    ASSUME LocalInv, Crawl
    PROVE  LocalInv'
<1> USE DataLenAssumption
<1>1. pc = "crawl" /\ strings' = strings /\ level' = level
  BY DEF Crawl
<1>2. /\ strings \in [Site -> Key] /\ level \in 0..(DataLen - 1)
      /\ col \in [Server -> Collection]
      /\ \A s \in Server : col[s].keys = AliveKeys(Clients)
  BY <1>1 DEF LocalInv, DriverTyped, Loaded
<1>3. PICK ks : ks = Clients /\ ks \in Seq(Key) /\ Len(ks) = NClients
  BY <1>2, ClientsTyped
<1>4. ClientStrings' = ClientStrings /\ Clients' = ks
  BY <1>1, <1>3 DEF ClientStrings, Clients, ClientKeys
<1>5. CASE pc' = "panicked" /\ UNCHANGED <<col, vals>>
  BY <1>1, <1>2, <1>3, <1>4, <1>5 DEF LocalInv, DriverTyped, Loaded
<1>6. CASE /\ pc' = "sketch"
           /\ col' = [s \in Server |-> TreeCrawl(s, col[s], FALSE)]
           /\ vals' = [s \in Server |-> Values(col'[s].frontier)]
  <2>1. PICK P : P = Places /\ FrontiersAt(P, level)
    BY <1>1 DEF LocalInv
  <2>2. P \in Seq(BitPath(level)) /\ IsInjective(P)
    BY <2>1 DEF FrontiersAt
  <2>3. PICK C : C = ChildPaths(P)
    OBVIOUS
  <2>4. C \in Seq(BitPath(level + 1)) /\ IsInjective(C)
    BY <1>2, <2>2, <2>3, ChildPathsAreChildren
  <2>5. ASSUME NEW s \in Server
        PROVE  /\ col'[s] \in Collection /\ col'[s].keys = AliveKeys(ks)
               /\ IsFrontier(col'[s].frontier, C, NClients)
               /\ \A i \in 1..Len(C) : col'[s].frontier[i].value = NodeValue(s, col[s], C[i])
    <3>1. PICK c : c = col[s] /\ c \in Collection /\ c.keys = AliveKeys(ks)
      BY <1>2, <1>3
    <3>2. c.keys \in Seq(StoredKey) /\ Len(c.keys) = NClients
      BY <1>3, <3>1, CollectionFields, AliveLength
    <3>3. IsFrontier(c.frontier, P, NClients)
      BY <2>1, <3>1 DEF FrontiersAt
    <3>4. PICK N : N = NextFrontier(s, c)
      OBVIOUS
    <3>5. /\ IsFrontier(N, C, NClients)
          /\ \A i \in 1..Len(C) : N[i].value = NodeValue(s, c, C[i])
      BY <1>2, <2>2, <2>3, <3>2, <3>3, <3>4, NextFrontierIs
    <3>6. col'[s] = [c EXCEPT !.frontier = N]
      BY <1>6, <3>1, <3>4 DEF TreeCrawl
    <3>7. N \in Seq(TreeNode)
      BY <3>5 DEF IsFrontier
    <3>8. col'[s] \in Collection /\ col'[s].keys = c.keys /\ col'[s].frontier = N
      BY <3>1, <3>6, <3>7 DEF Collection
    <3> QED BY <3>1, <3>5, <3>8
  <2>6. 0 \in Server /\ 1 \in Server
    BY DEF Server
  <2>7. Places' = C
    BY <2>4, <2>5, <2>6, FrontierParts DEF Places
  <2>8. \A q \in BitPath(level + 1) : Count(ClientStrings, q) >= Threshold => q \in Range(C)
    <3>1. PICK vs, th : vs = ClientStrings /\ th = Threshold
      OBVIOUS
    <3>2. vs \in Seq(BitString) /\ th \in Nat /\ level \in Nat
      BY <1>2, <3>1, ClientsTyped, DriverAssumption
    <3>3. \A q \in BitPath(level) : Count(vs, q) >= th => q \in Range(P)
      BY <2>1, <3>1 DEF FrontiersAt
    <3> QED BY <2>2, <2>3, <3>1, <3>2, <3>3, ChildrenOfHeavy
  <2>9. FrontiersAt(Places, level + 1)'
    BY <1>1, <1>4, <2>4, <2>5, <2>7, <2>8 DEF FrontiersAt
  <2>10. SharesOf(Places)'
    <3>1. ASSUME NEW s \in Server
          PROVE  /\ DOMAIN vals'[s] = 1..Len(C)
                 /\ \A i \in 1..Len(C) : vals'[s][i] = NodeValue(s, col[s], C[i])
      <4>1. PICK N : N = col'[s].frontier
        OBVIOUS
      <4>2. vals'[s] = Values(N)
        BY <1>6, <4>1
      <4>3. IsFrontier(N, C, NClients) /\ \A i \in 1..Len(C) : N[i].value = NodeValue(s, col[s], C[i])
        BY <2>5, <4>1
      <4>4. DOMAIN Values(N) = 1..Len(C) /\ \A i \in 1..Len(C) : Values(N)[i] = N[i].value
        BY <2>4, <4>3, FrontierParts
      <4> QED BY <4>2, <4>3, <4>4
    <3>2. ASSUME NEW i \in 1..Len(C)
          PROVE  Reconstruct(vals'[0][i], vals'[1][i]) = Count(ClientStrings, C[i])
      <4>1. PICK c, d : c = col[0] /\ d = col[1]
        OBVIOUS
      <4>2. c.keys = AliveKeys(ks) /\ d.keys = AliveKeys(ks)
        BY <1>2, <1>3, <2>6, <4>1
      <4>3. level + 1 \in 0..DataLen /\ C[i] \in BitPath(level + 1)
        BY <1>2, <2>4, ElementOfSeq
      <4>4. PICK l \in 0..DataLen : l = level + 1
        BY <4>3
      <4>5. Len(ks) < Modulus
        BY <1>3, DriverAssumption
      <4>6. Reconstruct(NodeValue(0, c, C[i]), NodeValue(1, d, C[i])) = Count(Bits(ks), C[i])
        BY <1>3, <4>2, <4>3, <4>4, <4>5, CountsOpen
      <4>7. ClientStrings = Bits(ks)
        BY <1>2, <1>3, ClientsTyped
      <4> QED BY <2>6, <3>1, <4>1, <4>6, <4>7
    <3> QED BY <1>4, <2>7, <3>1, <3>2 DEF SharesOf
  <2>11. DriverTyped'
    <3>1. col' \in [Server -> Collection]
      BY <1>6, <2>5
    <3> QED BY <1>1, <1>2, <1>6, <3>1 DEF DriverTyped
  <2>12. Loaded'
    BY <1>4, <1>6, <2>5 DEF Loaded
  <2> QED BY <1>6, <2>9, <2>10, <2>11, <2>12 DEF LocalInv
<1> QED BY <1>5, <1>6 DEF Crawl

(* The joint check accepts every key: both servers sketch the same keys at the
   same prefixes, and a string is at one of them at most. *)
LEMMA EverybodyPasses ==
    ASSUME NEW ks \in Seq(Key), Len(ks) = NClients,
           \A s \in Server : col[s].keys = AliveKeys(ks),
           NEW n \in 0..DataLen, NEW P \in Seq(BitPath(n)), IsInjective(P),
           \A s \in Server : Paths(col[s].frontier) = P
    PROVE  \A i \in 1..NClients : Outcome[i]
<1> USE DriverAssumption
<1>1. 0 \in Server /\ 1 \in Server
  BY DEF Server
<1>2. PICK st : st = [i \in 1..NClients |->
                        [sketch |-> [key |-> ks[i], paths |-> P], level |-> level]]
  OBVIOUS
<1>3. ASSUME NEW s \in Server PROVE Sketched(s) = st
  <2>1. Len(col[0].keys) = NClients
    BY <1>1, AliveLength
  <2>2. PICK sk : sk = TreeSketchFrontier(col[s], 0, Len(col[0].keys), FALSE)
    OBVIOUS
  <2>3. sk = [i \in 1..NClients |-> [key |-> ks[i], paths |-> P]]
    <3>1. DOMAIN ks = 1..NClients
      BY LenProperties
    <3>2. ASSUME NEW i \in 1..NClients PROVE col[s].keys[0 + i].key = ks[i]
      <4>1. PICK m : m = [j \in 1..NClients |-> [alive |-> TRUE, key |-> ks[j]]]
        OBVIOUS
      <4>2. col[s].keys = m
        BY <3>1, <4>1 DEF AliveKeys
      <4>3. 0 + i = i /\ m[i].key = ks[i]
        BY <4>1
      <4> QED BY <4>2, <4>3
    <3>3. NClients - 0 = NClients
      OBVIOUS
    <3>4. FrontierOf(col[s], FALSE) = col[s].frontier
      BY DEF FrontierOf
    <3> QED BY <2>1, <2>2, <3>2, <3>3, <3>4 DEF TreeSketchFrontier
  <2>4. Sketched(s) = MulStates(sk, level)
    BY <2>2 DEF Sketched
  <2> QED BY <1>2, <2>3, <2>4 DEF MulStates
<1>4. PICK outs : outs = [i \in 1..NClients |->
                             [state |-> st[i], cor |-> <<st[i], st[i]>>]]
  OBVIOUS
<1>5. OutShares(0) = outs /\ OutShares(1) = outs
  <2>1. Sketched(0) = st /\ Sketched(1) = st /\ DOMAIN st = 1..NClients
    BY <1>1, <1>2, <1>3
  <2>2. Cors(st, st) = [i \in 1..NClients |-> <<st[i], st[i]>>]
    BY <2>1 DEF Cors
  <2> QED BY <1>4, <2>1, <2>2 DEF OutShares
<1>6. ASSUME NEW i \in 1..NClients PROVE Outcome[i]
  <2>1. st[i].sketch = [key |-> ks[i], paths |-> P]
    BY <1>2
  <2>2. outs[i].state = st[i] /\ outs[i].cor = <<st[i], st[i]>>
    BY <1>4
  <2>3. PICK k : k = ks[i]
    OBVIOUS
  <2>4. \A x, y \in DOMAIN P : Holds(k.bits, P[x]) /\ Holds(k.bits, P[y]) => x = y
    BY HeldOnce
  <2>5. IsUnit(st[i].sketch)
    BY <2>1, <2>3, <2>4 DEF IsUnit
  <2>6. Accepts(outs[i], outs[i])
    BY <2>2, <2>5 DEF Accepts
  <2>7. Outcome = Verify(outs, outs) /\ DOMAIN outs = 1..NClients
    BY <1>4, <1>5 DEF Outcome
  <2>8. Verify(outs, outs)[i] = Accepts(outs[i], outs[i])
    BY <2>7 DEF Verify
  <2> QED BY <2>6, <2>7, <2>8
<1> QED BY <1>6

(* Results that are all true leave a collection as it was
   (apply_sketch_results). *)
LEMMA PassedKeep ==
    ASSUME NEW ks \in Seq(Key), NEW c \in Collection, c.keys = AliveKeys(ks),
           NEW res, \A i \in 1..Len(ks) : res[i]
    PROVE  ApplySketchResults(c, res) = c
<1>1. PICK n \in Nat : n = Len(ks) /\ DOMAIN ks = 1..n
  BY LenProperties
<1>2. PICK m : m = [i \in 1..n |-> [alive |-> TRUE, key |-> ks[i]]]
  OBVIOUS
<1>3. c.keys = m /\ DOMAIN m = 1..n
  BY <1>1, <1>2 DEF AliveKeys
<1>4. PICK r : r = [i \in 1..n |-> [alive |-> m[i].alive /\ res[i], key |-> m[i].key]]
  OBVIOUS
<1>5. r = m
  <2>1. ASSUME NEW i \in 1..n PROVE [alive |-> m[i].alive /\ res[i], key |-> m[i].key] = m[i]
    <3>1. m[i].alive = TRUE /\ m[i].key = ks[i] /\ m[i] = [alive |-> TRUE, key |-> ks[i]]
      BY <1>2
    <3>2. (TRUE /\ res[i]) = TRUE
      BY <1>1
    <3> QED BY <3>1, <3>2
  <2> QED BY <1>2, <1>4, <2>1
<1>6. ApplySketchResults(c, res) = [c EXCEPT !.keys = r]
  BY <1>3, <1>4 DEF ApplySketchResults
<1>7. c = [keys |-> m, frontier |-> c.frontier, frontierLast |-> c.frontierLast]
  BY <1>3, CollectionFields
<1> QED BY <1>5, <1>6, <1>7

LEMMA SketchKeeps ==
    ASSUME LocalInv, Sketch
    PROVE  LocalInv'
<1> USE DataLenAssumption
<1>1. pc = "sketch" /\ strings' = strings /\ level' = level /\ vals' = vals
  BY DEF Sketch
<1>2. /\ strings \in [Site -> Key] /\ level \in 0..(DataLen - 1)
      /\ col \in [Server -> Collection]
      /\ \A s \in Server : col[s].keys = AliveKeys(Clients)
      /\ FrontiersAt(Places, level + 1) /\ SharesOf(Places)
  BY <1>1 DEF LocalInv, DriverTyped, Loaded
<1>3. PICK ks : ks = Clients /\ ks \in Seq(Key) /\ Len(ks) = NClients
  BY <1>2, ClientsTyped
<1>4. ClientStrings' = ClientStrings /\ Clients' = ks
  BY <1>1, <1>3 DEF ClientStrings, Clients, ClientKeys
<1>5. CASE pc' = "panicked" /\ UNCHANGED col
  BY <1>1, <1>2, <1>3, <1>4, <1>5 DEF LocalInv, DriverTyped, Loaded
<1>6. CASE /\ pc' = "prune" /\ ~(level >= DataLen - 1)
           /\ col' = [s \in Server |-> ApplySketchResults(col[s], Outcome)]
  <2>1. PICK P : P = Places
    OBVIOUS
  <2>2. PICK n \in 0..DataLen : n = level + 1
    BY <1>2
  <2>3. P \in Seq(BitPath(n)) /\ IsInjective(P)
    BY <1>2, <2>1, <2>2 DEF FrontiersAt
  <2>4. \A s \in Server : Paths(col[s].frontier) = P
    BY <1>2, <2>1, <2>3, FrontierParts DEF FrontiersAt
  <2>5. PICK res : res = Outcome
    OBVIOUS
  <2>6. \A i \in 1..NClients : res[i]
    BY <1>2, <1>3, <2>3, <2>4, <2>5, EverybodyPasses
  <2>7. \A s \in Server : ApplySketchResults(col[s], res) = col[s]
    BY <1>2, <1>3, <2>6, PassedKeep
  <2>8. col' = col
    BY <1>2, <1>6, <2>5, <2>7
  <2>9. level < DataLen - 1
    BY <1>2, <1>6
  <2>10. FrontiersAt(Places, level + 1)' /\ SharesOf(Places)'
    BY <1>1, <1>2, <1>4, <2>8 DEF FrontiersAt, SharesOf, Places
  <2> QED BY <1>1, <1>2, <1>3, <1>4, <1>6, <2>8, <2>9, <2>10 DEF LocalInv, DriverTyped, Loaded
<1> QED BY <1>5, <1>6 DEF Sketch

(* The prune leaves, in both collections, the prefixes that enough clients
   start with and no other (keep_values, tree_prune). *)
LEMMA PruneKeeps ==
    ASSUME LocalInv, Prune
    PROVE  LocalInv'
<1> USE DataLenAssumption
<1>1. PICK keep : keep = KeepValues(Threshold, vals[0], vals[1])
  OBVIOUS
<1>2. /\ pc = "prune" /\ strings' = strings /\ vals' = vals /\ level' = level + 1
      /\ col' = [s \in Server |-> TreePrune(col[s], keep, FALSE)]
      /\ pc' = IF level + 1 < DataLen THEN "crawl" ELSE "done"
  BY <1>1 DEF Prune
<1>3. /\ strings \in [Site -> Key] /\ level \in 0..(DataLen - 1)
      /\ col \in [Server -> Collection]
      /\ \A s \in Server : col[s].keys = AliveKeys(Clients)
      /\ FrontiersAt(Places, level + 1) /\ SharesOf(Places)
      /\ level < DataLen - 1
  BY <1>2 DEF LocalInv, DriverTyped, Loaded
<1>4. pc' = "crawl" /\ level' \in 0..(DataLen - 1) /\ level + 1 \in Nat
  BY <1>2, <1>3
<1>5. PICK ks : ks = Clients /\ ks \in Seq(Key) /\ Len(ks) = NClients
  BY <1>3, ClientsTyped
<1>6. ClientStrings' = ClientStrings /\ Clients' = ks
  BY <1>2, <1>5 DEF ClientStrings, Clients, ClientKeys
<1>7. PICK P : P = Places
  OBVIOUS
<1>8. P \in Seq(BitPath(level + 1)) /\ IsInjective(P)
  BY <1>3, <1>7 DEF FrontiersAt
<1>9. PICK n \in Nat : n = Len(P) /\ DOMAIN P = 1..n
  BY <1>8, LenProperties
<1>10. 0 \in Server /\ 1 \in Server
  BY DEF Server
<1>11. /\ DOMAIN keep = 1..n
       /\ \A i \in 1..n : keep[i] <=> Count(ClientStrings, P[i]) >= Threshold
  <2>1. DOMAIN vals[0] = 1..n
    BY <1>3, <1>7, <1>9, <1>10 DEF SharesOf
  <2>2. keep = [i \in 1..n |-> Reconstruct(vals[0][i], vals[1][i]) >= Threshold]
    BY <1>1, <2>1 DEF KeepValues
  <2>3. \A i \in 1..n : Reconstruct(vals[0][i], vals[1][i]) = Count(ClientStrings, P[i])
    BY <1>3, <1>7, <1>9 DEF SharesOf
  <2>4. ASSUME NEW i \in 1..n PROVE keep[i] <=> Count(ClientStrings, P[i]) >= Threshold
    <3>1. keep[i] = (Reconstruct(vals[0][i], vals[1][i]) >= Threshold)
      BY <2>2
    <3>2. Reconstruct(vals[0][i], vals[1][i]) = Count(ClientStrings, P[i])
      BY <2>3
    <3> QED BY <3>1, <3>2
  <2> QED BY <2>2, <2>4
<1>12. PICK e : e = Kept(keep)
  OBVIOUS
<1>13. /\ Lists(e, keep, 0, n) /\ e \in Seq(1..n)
       /\ \A T : \A nodes \in Seq(T) : Len(nodes) = n => Pruned(nodes, keep) = Picked(nodes, e)
  BY <1>11, <1>12, PrunedSelects DEF Lists
<1>14. PICK R : R = Picked(P, e)
  OBVIOUS
<1>15. /\ R \in Seq(BitPath(level + 1)) /\ IsInjective(R)
       /\ Range(R) = {P[i] : i \in {j \in 1..n : keep[j]}}
  BY <1>8, <1>9, <1>13, <1>14, PickedPaths
<1>16. ASSUME NEW s \in Server
       PROVE  /\ col'[s] \in Collection /\ col'[s].keys = AliveKeys(ks)
              /\ IsFrontier(col'[s].frontier, R, NClients)
  <2>1. PICK c : c = col[s] /\ c \in Collection /\ c.keys = AliveKeys(ks)
    BY <1>3, <1>5
  <2>2. PICK nodes : nodes = c.frontier /\ IsFrontier(nodes, P, NClients)
    BY <1>3, <1>7, <2>1 DEF FrontiersAt
  <2>3. nodes \in Seq(TreeNode) /\ Len(nodes) = n
    BY <1>9, <2>2 DEF IsFrontier
  <2>4. Pruned(nodes, keep) = Picked(nodes, e)
    BY <1>13, <2>3
  <2>5. IsFrontier(Picked(nodes, e), R, NClients)
    BY <1>9, <1>13, <1>14, <2>2, PickedFrontier
  <2>6. PICK N : N = Picked(nodes, e) /\ N \in Seq(TreeNode)
    BY <2>5 DEF IsFrontier
  <2>7. col'[s] = [c EXCEPT !.frontier = N]
    BY <1>2, <2>1, <2>2, <2>4, <2>6 DEF TreePrune
  <2>8. col'[s] \in Collection /\ col'[s].keys = c.keys /\ col'[s].frontier = N
    BY <2>1, <2>6, <2>7 DEF Collection
  <2> QED BY <2>1, <2>5, <2>6, <2>8
<1>17. Places' = R
  BY <1>10, <1>15, <1>16, FrontierParts DEF Places
<1>18. \A q \in BitPath(level + 1) : Count(ClientStrings, q) >= Threshold => q \in Range(R)
  <2> SUFFICES ASSUME NEW q \in BitPath(level + 1), Count(ClientStrings, q) >= Threshold
               PROVE  q \in Range(R)
    OBVIOUS
  <2>1. q \in Range(P)
    BY <1>3, <1>7 DEF FrontiersAt
  <2>2. PICK i \in 1..n : q = P[i]
    BY <1>9, <2>1 DEF Range
  <2>3. keep[i]
    BY <1>11, <2>2
  <2> QED BY <1>15, <2>2, <2>3
<1>19. FrontiersAt(Places, level)'
  BY <1>2, <1>6, <1>15, <1>16, <1>17, <1>18 DEF FrontiersAt
<1>20. \A p \in Range(R) : Count(ClientStrings, p) >= Threshold
  <2> SUFFICES ASSUME NEW p \in Range(R)
               PROVE  Count(ClientStrings, p) >= Threshold
    OBVIOUS
  <2>1. PICK i \in 1..n : p = P[i] /\ keep[i]
    BY <1>15
  <2> QED BY <1>11, <2>1
<1>21. DriverTyped'
  <2>1. col' \in [Server -> Collection]
    BY <1>2, <1>16
  <2> QED BY <1>2, <1>3, <1>4, <2>1 DEF DriverTyped
<1>22. Loaded'
  BY <1>4, <1>6, <1>16 DEF Loaded
<1> QED BY <1>4, <1>6, <1>17, <1>19, <1>20, <1>21, <1>22 DEF LocalInv

LEMMA StepKeeps ==
    ASSUME LocalInv, [Next]_vars
    PROVE  LocalInv'
<1>1. CASE UNCHANGED vars
  BY <1>1 DEF vars, LocalInv, DriverTyped, Loaded, FrontiersAt, SharesOf, Places, ClientStrings,
              Clients, ClientKeys
<1>2. CASE Stopped
  BY <1>1, <1>2 DEF Stopped
<1>3. CASE Next
  BY <1>2, <1>3, LoadKeeps, CrawlKeeps, SketchKeeps, PruneKeeps DEF Next
<1> QED BY <1>1, <1>3

(* The invariant holds in every state of the driver. *)
THEOREM Inductive == Spec => []LocalInv
<1>1. LocalInv /\ [Next]_vars => LocalInv'
  BY StepKeeps
<1> QED BY InitHolds, <1>1, PTL DEF Spec

-----------------------------------------------------------------------------

LEMMA NobodyDroppedFromInv == LocalInv => NobodyDropped
<1> SUFFICES ASSUME LocalInv, NEW s \in Server
             PROVE  /\ Len(col[s].keys) = Len(col[0].keys)
                    /\ \A i \in DOMAIN col[s].keys : col[s].keys[i].alive
  BY DEF NobodyDropped
<1>1. 0 \in Server
  BY DEF Server
<1>2. CASE pc = "load"
  <2>1. col[s].keys = << >> /\ col[0].keys = << >>
    BY <1>1, <1>2 DEF LocalInv, Loaded, NewCollection
  <2> QED BY <2>1
<1>3. CASE pc # "load"
  <2>1. col[s].keys = AliveKeys(Clients) /\ col[0].keys = AliveKeys(Clients)
    BY <1>1, <1>3 DEF LocalInv, Loaded
  <2> QED BY <2>1 DEF AliveKeys
<1> QED BY <1>2, <1>3

LEMMA LocalSearchFromInv == LocalInv => LocalSearchExact
<1> SUFFICES ASSUME LocalInv, pc = "crawl", level > 0, NEW s \in Server
             PROVE  Range(Paths(col[s].frontier))
                      = {p \in BitPath(level) : Count(ClientStrings, p) >= Threshold}
  BY DEF LocalSearchExact
<1>1. PICK P : P = Places /\ FrontiersAt(P, level)
  BY DEF LocalInv
<1>2. P \in Seq(BitPath(level)) /\ Paths(col[s].frontier) = P
  BY <1>1, FrontierParts DEF FrontiersAt
<1>3. \A p \in Range(P) : p \in BitPath(level) /\ Count(ClientStrings, p) >= Threshold
  <2>1. \A p \in Range(P) : Count(ClientStrings, p) >= Threshold
    BY <1>1 DEF LocalInv
  <2>2. \A p \in Range(P) : p \in BitPath(level)
    BY <1>2, ElementOfSeq, LenProperties DEF Range
  <2> QED BY <2>1, <2>2
<1>4. \A p \in BitPath(level) : Count(ClientStrings, p) >= Threshold => p \in Range(P)
  BY <1>1 DEF FrontiersAt
<1> QED BY <1>2, <1>3, <1>4

(* Both collections keep every client's key, alive, through every check
   (apply_sketch_results, by index and twice). *)
THEOREM ClientsStay == Spec => []NobodyDropped
<1> QED BY Inductive, NobodyDroppedFromInv, PTL

(* While there are inner levels both collections' frontiers are exactly the
   prefixes that enough clients start with (main's loop). *)
THEOREM LocalSearchCorrect == Spec => []LocalSearchExact
<1> QED BY Inductive, LocalSearchFromInv, PTL
=============================================================================
