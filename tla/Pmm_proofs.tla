----------------------------- MODULE Pmm_proofs -----------------------------
(***************************************************************************)
(* Proofs about Pmm, for every size of the memory and every set of         *)
(* requests, empty ones included.  Until a block is given back that its    *)
(* caller was not given, or idle0 is overtaken inside a call, the free     *)
(* list is sound, the blocks tile the memory, the marks tell free_pages    *)
(* what it asks of them, and the allocator implements PageAllocator.       *)
(***************************************************************************)
EXTENDS Pmm, FiniteSetTheorems, WellFoundedInduction, TLAPS

-----------------------------------------------------------------------------
(***************************************************************************)
(* The links nx and pr thread the blocks of G in ascending order, from     *)
(* Head to Nil: each link leads up and back, none skips a block of G, and  *)
(* every block of G is linked to.                                          *)
(***************************************************************************)
Threaded(nx, pr, G) ==
  /\ \A r \in G \cup {Head} :
       nx[r] = Nil \/ (nx[r] \in G /\ r < nx[r] /\ pr[nx[r]] = r)
  /\ \A r \in G \cup {Head}, b \in G : r < b => nx[r] # Nil /\ nx[r] <= b
  /\ \A b \in G : pr[b] \in G \cup {Head} /\ nx[pr[b]] = b

(***************************************************************************)
(* The blocks B, of lengths n, cover the memory and do not overlap.        *)
(***************************************************************************)
Tiles(B, n) ==
  /\ \A b \in B : n[b] > 0 /\ b + n[b] <= PageTotal
  /\ \A b \in B, c \in B : b < c => b + n[b] <= c
  /\ \A p \in Page : \E b \in B : b <= p /\ p < b + n[b]

(***************************************************************************)
(* The inductive invariant.  Blocks are the blocks BlocksTile speaks of;   *)
(* Owned are the pages in the callers' hands, Avail the others that may be *)
(* handed out.                                                             *)
(***************************************************************************)
Blocks  == {0} \cup held \cup FreeList
Managed == HeaderPages .. PageTotal - 1
Runs    == {BlockAt(b) : b \in held}
Owned   == UNION Runs
Avail   == Managed \ Owned

ListInv == Threaded(nxt, pre, FreeList)

TileInv ==
  /\ 0 \notin FreeList /\ held \cap FreeList = {}
  /\ num[0] = HeaderPages
  /\ Tiles(Blocks, num)

MarksInv ==
  /\ \A b \in held : \A p \in BlockAt(b) : flags[p] = 1
  /\ \A t \in stale : flags[t] = 0 \/ t \in empties \cap FreeList

CountInv == PageCount = Cardinality(Avail)

PmmInv == Sound /\ Typed /\ ListInv /\ TileInv /\ MarksInv /\ CountInv

-----------------------------------------------------------------------------
(***************************************************************************)
(* Numbers and addresses.                                                  *)
(***************************************************************************)
LEMMA PageFacts ==
  /\ PageTotal \in Nat /\ HeaderPages \in Nat
  /\ 0 < HeaderPages /\ HeaderPages < PageTotal
  /\ Page \subseteq Nat /\ 0 \in Page /\ HeaderPages \in Page
  /\ Head \in Int /\ Nil \in Int /\ Head # Nil
  /\ Head \notin Page /\ Nil \notin Page /\ Nil \notin Node
  /\ \A p \in Page : p \in Nat /\ p < PageTotal /\ Head < p
  /\ Node \subseteq Int
BY TotalAssumption, HeaderAssumption DEF Page, Head, Nil, Node

LEMMA LeastExists ==
  ASSUME NEW S \in SUBSET Nat, S # {}
  PROVE  \E m \in S : \A n \in S : m <= n
<1>1. IsWellFoundedOn(OpToRel(<, Nat), Nat)
  BY NatLessThanWellFounded
<1>2. PICK m \in S : \A n \in S : ~(<<n, m>> \in OpToRel(<, Nat))
  BY <1>1, WFMin
<1>3. \A n \in S : n < m => <<n, m>> \in OpToRel(<, Nat)
  BY DEF OpToRel
<1>4. \A n \in S : ~(n < m)
  BY <1>2, <1>3, Zenon
<1> QED  BY <1>4

LEMMA IntervalSize ==
  ASSUME NEW a \in Int, NEW n \in Nat \ {0}
  PROVE  IsFiniteSet(a .. a + n - 1) /\ Cardinality(a .. a + n - 1) = n
<1> DEFINE e == a + n - 1
<1>1. e \in Int /\ ~(a > e) /\ e - a + 1 = n
  OBVIOUS
<1> HIDE DEF e
<1>2. IsFiniteSet(a .. e) /\ Cardinality(a .. e) = IF a > e THEN 0 ELSE e - a + 1
  BY <1>1, FS_Interval
<1>3. IsFiniteSet(a .. e) /\ Cardinality(a .. e) = n
  BY <1>1, <1>2
<1> QED  BY <1>3 DEF e

-----------------------------------------------------------------------------
(***************************************************************************)
(* What the links thread is what a walk from Head reaches: FreeList.       *)
(***************************************************************************)
LEMMA ThreadedIsReached ==
  ASSUME NEW nx \in [Node -> Page \cup {Nil}], NEW pr, NEW G \in SUBSET Page,
         Threaded(nx, pr, G)
  PROVE  {q \in Node : \A S \in SUBSET Node :
             (Head \in S /\ \A r \in S \cap Node : nx[r] \in S \cup {Nil})
               => q \in S} \ {Head} = G
<1> DEFINE Closed(S) == /\ Head \in S
                        /\ \A r \in S \cap Node : nx[r] \in S \cup {Nil}
           R == {q \in Node : \A S \in SUBSET Node : Closed(S) => q \in S}
<1>1. G \cup {Head} \in SUBSET Node
  BY DEF Node
<1>2. Closed(G \cup {Head})
  BY DEF Threaded
<1>3. R \ {Head} \subseteq G
  BY <1>1, <1>2
<1>4. ASSUME NEW S \in SUBSET Node, Closed(S)
      PROVE  G \subseteq S
  <2> SUFFICES ASSUME G \ S # {} PROVE FALSE
    OBVIOUS
  <2>1. G \ S \in SUBSET Nat
    BY PageFacts
  <2>2. PICK m \in G \ S : \A n \in G \ S : m <= n
    BY <2>1, LeastExists
  <2>3. pr[m] \in G \cup {Head} /\ nx[pr[m]] = m
    BY <2>2 DEF Threaded
  <2>4. pr[m] < m
    <3>1. m \in Page /\ m # Nil
      BY <2>2, PageFacts
    <3> QED  BY <2>3, <3>1 DEF Threaded
  <2>5. pr[m] \in S
    BY <1>4, <2>1, <2>2, <2>3, <2>4
  <2> QED  BY <1>4, <2>2, <2>3, <2>5, PageFacts
<1>5. G \subseteq R \ {Head}
  BY <1>4, PageFacts DEF Node
<1> QED  BY <1>3, <1>5

(***************************************************************************)
(* The free list is given by what the links thread, before and after a     *)
(* step.                                                                   *)
(***************************************************************************)
LEMMA FreeListIs ==
  ASSUME NEW G \in SUBSET Page
  PROVE  /\ nxt \in [Node -> Page \cup {Nil}] /\ Threaded(nxt, pre, G)
              => FreeList = G
         /\ nxt' \in [Node -> Page \cup {Nil}] /\ Threaded(nxt', pre', G)
              => FreeList' = G
BY ThreadedIsReached DEF FreeList, Reach

-----------------------------------------------------------------------------
(***************************************************************************)
(* The three edits of the list: a block gives way to one behind it, a      *)
(* block is taken off, a block is put in behind the last one below it.     *)
(***************************************************************************)
LEMMA ReplaceThreads ==
  ASSUME NEW G \in SUBSET Page, NEW p \in G, NEW np \in Page \ G,
         NEW nx \in [Node -> Page \cup {Nil}], NEW pr \in [Page -> Node \cup {Nil}],
         NEW nx2 \in [Node -> Page \cup {Nil}], NEW pr2 \in [Page -> Node \cup {Nil}],
         Threaded(nx, pr, G),
         p < np, \A b \in G : p < b => np < b,
         nx2 = [nx EXCEPT ![pr[p]] = np, ![np] = nx[p]],
         pr2 = [q \in Page |-> IF q = np THEN pr[p]
                                 ELSE IF q = nx[p] THEN np ELSE pr[q]]
  PROVE  Threaded(nx2, pr2, (G \ {p}) \cup {np})
<1> DEFINE G2 == (G \ {p}) \cup {np}
<1>1. /\ pr[p] \in G \cup {Head} /\ nx[pr[p]] = p /\ pr[p] < p
      /\ nx[p] = Nil \/ (nx[p] \in G /\ p < nx[p] /\ pr[nx[p]] = p)
  <2>1. p \in Int /\ p # Nil /\ p \in G \cup {Head} /\ Head \in Int /\ G \subseteq Int
    BY PageFacts
  <2>2. pr[p] \in G \cup {Head} /\ nx[pr[p]] = p
    BY DEF Threaded
  <2>3. pr[p] < p
    <3>1. \A q \in G \cup {Head} : nx[q] # Nil => q < nx[q]
      BY DEF Threaded
    <3>2. nx[pr[p]] # Nil
      BY <2>1, <2>2
    <3> QED  BY <2>2, <3>1, <3>2, Zenon
  <2>4. nx[p] = Nil \/ (nx[p] \in G /\ p < nx[p] /\ pr[nx[p]] = p)
    BY <2>1, Zenon DEF Threaded
  <2> QED  BY <2>2, <2>3, <2>4
<1>2. /\ nx2[pr[p]] = np /\ nx2[np] = nx[p]
      /\ \A r \in (G \cup {Head}) \ {pr[p]} : nx2[r] = nx[r]
  BY <1>1, PageFacts DEF Node
<1>3. /\ pr2[np] = pr[p]
      /\ nx[p] # Nil => pr2[nx[p]] = np
      /\ \A b \in G \ {nx[p]} : pr2[b] = pr[b]
  BY <1>1, PageFacts
<1>4. G2 \subseteq Page /\ G2 \subseteq Int /\ G \subseteq Int
  BY PageFacts
<1>5. ASSUME NEW r \in G2 \cup {Head}
      PROVE  nx2[r] = Nil \/ (nx2[r] \in G2 /\ r < nx2[r] /\ pr2[nx2[r]] = r)
  <2>1. CASE r = np
    <3>1. np \in Int /\ p \in Int /\ np \notin G /\ np # Nil
      BY PageFacts
    <3>2. nx2[r] = nx[p]
      BY <1>2, <2>1
    <3>3. nx[p] # Nil => nx[p] \in G /\ p < nx[p] /\ pr2[nx[p]] = np
      BY <1>1, <1>3
    <3>4. nx[p] # Nil => np < nx[p] /\ nx[p] # p
      BY <3>1, <3>3
    <3> QED  BY <2>1, <3>2, <3>3, <3>4
  <2>2. CASE r = pr[p] /\ r # np
    BY <1>1, <1>2, <1>3, <2>2, PageFacts
  <2>3. CASE r # pr[p] /\ r # np
    <3>1. nx2[r] = nx[r] /\ r \in G \cup {Head} /\ r # p
      BY <1>2, <2>3, PageFacts
    <3>2. nx[r] = Nil \/ (nx[r] \in G /\ r < nx[r] /\ pr[nx[r]] = r)
      BY <3>1 DEF Threaded
    <3>3. nx[r] # Nil => nx[r] # p /\ nx[r] # nx[p] /\ nx[r] # np
      BY <1>1, <2>3, <3>1, <3>2, PageFacts
    <3> QED  BY <1>3, <3>1, <3>2, <3>3
  <2> QED  BY <2>1, <2>2, <2>3
<1>6. ASSUME NEW r \in G2 \cup {Head}, NEW b \in G2, r < b
      PROVE  nx2[r] # Nil /\ nx2[r] <= b
  <2>1. CASE r = np
    <3>1. b \in G /\ p < b
      BY <1>4, <1>6, <2>1, PageFacts
    <3> QED  BY <1>2, <2>1, <3>1 DEF Threaded
  <2>2. CASE r = pr[p] /\ r # np
    <3>1. b = np \/ (b \in G /\ b # p)
      OBVIOUS
    <3>2. b # np => p <= b
      BY <1>1, <1>6, <2>2, <3>1 DEF Threaded
    <3> QED  BY <1>2, <1>4, <2>2, <3>1, <3>2, PageFacts
  <2>3. CASE r # pr[p] /\ r # np
    <3>1. nx2[r] = nx[r] /\ r \in G \cup {Head} /\ r # p
      BY <1>2, <2>3, PageFacts
    <3>2. CASE b = np
      <4>1. r <= p
        BY <1>4, <1>6, <3>1, <3>2, PageFacts
      <4>2. r < p
        BY <1>4, <3>1, <4>1, PageFacts
      <4>3. nx[r] # Nil /\ nx[r] <= p
        BY <3>1, <4>2 DEF Threaded
      <4>4. nx[r] \in G
        BY <3>1, <4>3 DEF Threaded
      <4>5. nx2[r] # Nil /\ nx2[r] \in Int /\ nx2[r] <= p
        BY <1>4, <3>1, <4>3, <4>4
      <4> QED  BY <1>4, <3>2, <4>5
    <3>3. CASE b # np
      BY <1>6, <3>1, <3>3 DEF Threaded
    <3> QED  BY <3>2, <3>3
  <2> QED  BY <2>1, <2>2, <2>3
<1>7. ASSUME NEW b \in G2
      PROVE  pr2[b] \in G2 \cup {Head} /\ nx2[pr2[b]] = b
  <2>1. CASE b = np
    BY <1>1, <1>2, <1>3, <1>4, <2>1, PageFacts
  <2>2. CASE b = nx[p] /\ b # np
    <3>1. nx[p] # Nil /\ pr2[b] = np
      BY <1>3, <2>2, PageFacts
    <3> QED  BY <1>2, <2>2, <3>1
  <2>3. CASE b # nx[p] /\ b # np
    <3>1. pr2[b] = pr[b] /\ b \in G /\ b # p
      BY <1>3, <2>3
    <3>2. pr[b] \in G \cup {Head} /\ nx[pr[b]] = b
      BY <3>1 DEF Threaded
    <3>3. pr[b] # p /\ pr[b] # pr[p]
      BY <1>1, <2>3, <3>1, <3>2
    <3>4. nx2[pr[b]] = nx[pr[b]]
      BY <1>2, <3>2, <3>3
    <3>5. pr[b] \in G2 \cup {Head}
      BY <3>2, <3>3
    <3> QED  BY <3>1, <3>2, <3>4, <3>5
  <2> QED  BY <2>1, <2>2, <2>3
<1> HIDE DEF G2
<1>8. Threaded(nx2, pr2, G2)
  BY <1>5, <1>6, <1>7 DEF Threaded
<1> QED  BY <1>8 DEF G2

LEMMA RemoveThreads ==
  ASSUME NEW G \in SUBSET Page, NEW m \in G,
         NEW nx \in [Node -> Page \cup {Nil}], NEW pr \in [Page -> Node \cup {Nil}],
         NEW nx2 \in [Node -> Page \cup {Nil}], NEW pr2 \in [Page -> Node \cup {Nil}],
         Threaded(nx, pr, G),
         \A r \in (G \cup {Head}) \ {m} :
           nx2[r] = IF r = pr[m] THEN nx[m] ELSE nx[r],
         \A b \in G \ {m} : pr2[b] = IF b = nx[m] THEN pr[m] ELSE pr[b]
  PROVE  Threaded(nx2, pr2, G \ {m})
<1> DEFINE G2 == G \ {m}
<1>1. /\ pr[m] \in G2 \cup {Head} /\ nx[pr[m]] = m /\ pr[m] < m
      /\ nx[m] = Nil \/ (nx[m] \in G2 /\ m < nx[m] /\ pr[nx[m]] = m)
  <2>1. m \in Page /\ m \in Int /\ m # Nil
    BY PageFacts
  <2>2. pr[m] \in G \cup {Head} /\ nx[pr[m]] = m /\ pr[m] < m
    BY <2>1 DEF Threaded
  <2>3. pr[m] \in Int
    BY <2>2, PageFacts
  <2>4. nx[m] = Nil \/ (nx[m] \in G /\ m < nx[m] /\ pr[nx[m]] = m)
    BY DEF Threaded
  <2> QED  BY <2>1, <2>2, <2>3, <2>4
<1>2. /\ nx2[pr[m]] = nx[m]
      /\ \A r \in (G2 \cup {Head}) \ {pr[m]} : nx2[r] = nx[r]
  BY <1>1, PageFacts
<1>3. /\ nx[m] # Nil => pr2[nx[m]] = pr[m]
      /\ \A b \in G2 \ {nx[m]} : pr2[b] = pr[b]
  BY <1>1
<1>4. G \subseteq Int /\ Head \in Int /\ Head \notin G /\ Nil \notin G
  BY PageFacts
<1>5. ASSUME NEW r \in G2 \cup {Head}
      PROVE  nx2[r] = Nil \/ (nx2[r] \in G2 /\ r < nx2[r] /\ pr2[nx2[r]] = r)
  <2>1. CASE r = pr[m]
    <3>1. nx2[r] = nx[m]
      BY <1>2, <2>1
    <3>2. nx[m] # Nil => nx[m] \in Int /\ m \in Int /\ r \in Int
      BY <1>1, <1>4
    <3> QED  BY <1>1, <1>3, <2>1, <3>1, <3>2
  <2>2. CASE r # pr[m]
    <3>1. nx2[r] = nx[r]
      BY <1>2, <2>2
    <3>2. nx[r] = Nil \/ (nx[r] \in G /\ r < nx[r] /\ pr[nx[r]] = r)
      BY DEF Threaded
    <3>3. nx[r] # Nil => nx[r] # m /\ nx[r] # nx[m]
      BY <1>1, <2>2, <3>2, PageFacts
    <3> QED  BY <1>3, <3>1, <3>2, <3>3
  <2> QED  BY <2>1, <2>2
<1>6. ASSUME NEW r \in G2 \cup {Head}, NEW b \in G2, r < b
      PROVE  nx2[r] # Nil /\ nx2[r] <= b
  <2>1. CASE r = pr[m]
    <3>1. m <= b
      BY <1>1, <1>6, <2>1 DEF Threaded
    <3>2. m < b
      BY <1>4, <3>1
    <3> QED  BY <1>2, <2>1, <3>2 DEF Threaded
  <2>2. CASE r # pr[m]
    BY <1>2, <1>6, <2>2 DEF Threaded
  <2> QED  BY <2>1, <2>2
<1>7. ASSUME NEW b \in G2
      PROVE  pr2[b] \in G2 \cup {Head} /\ nx2[pr2[b]] = b
  <2>1. CASE b = nx[m]
    <3>1. nx[m] # Nil /\ pr2[b] = pr[m]
      BY <1>3, <1>4, <2>1
    <3> QED  BY <1>1, <1>2, <2>1, <3>1
  <2>2. CASE b # nx[m]
    <3>1. pr2[b] = pr[b]
      BY <1>3, <2>2
    <3>2. pr[b] \in G \cup {Head} /\ nx[pr[b]] = b
      BY DEF Threaded
    <3>3. pr[b] # m /\ pr[b] # pr[m]
      BY <1>1, <2>2, <3>2
    <3>4. nx2[pr[b]] = nx[pr[b]]
      BY <1>2, <3>2, <3>3
    <3> QED  BY <3>1, <3>2, <3>3, <3>4
  <2> QED  BY <2>1, <2>2
<1> HIDE DEF G2
<1>8. Threaded(nx2, pr2, G2)
  BY <1>5, <1>6, <1>7 DEF Threaded
<1> QED  BY <1>8 DEF G2

LEMMA InsertThreads ==
  ASSUME NEW G \in SUBSET Page, NEW t \in Page \ G, NEW q \in G \cup {Head},
         NEW nx \in [Node -> Page \cup {Nil}], NEW pr \in [Page -> Node \cup {Nil}],
         NEW nx2 \in [Node -> Page \cup {Nil}], NEW pr2 \in [Page -> Node \cup {Nil}],
         Threaded(nx, pr, G),
         q < t, nx[q] = Nil \/ t < nx[q],
         nx2 = [nx EXCEPT ![q] = t, ![t] = nx[q]],
         pr2 = [r \in Page |-> CASE r = t     -> q
                                 [] r = nx[q] -> t
                                 [] OTHER     -> pr[r]]
  PROVE  Threaded(nx2, pr2, G \cup {t})
<1> DEFINE G2 == G \cup {t}
<1>1. /\ nx[q] = Nil \/ (nx[q] \in G /\ pr[nx[q]] = q)
      /\ q # t /\ nx[q] # t
  BY PageFacts DEF Threaded
<1>2. /\ nx2[q] = t /\ nx2[t] = nx[q]
      /\ \A r \in (G \cup {Head}) \ {q} : nx2[r] = nx[r]
  BY <1>1, PageFacts DEF Node
<1>3. /\ pr2[t] = q
      /\ nx[q] # Nil => pr2[nx[q]] = t
      /\ \A b \in G \ {nx[q]} : pr2[b] = pr[b]
  BY <1>1, PageFacts
<1>4. G \subseteq Int /\ t \in Int /\ Head \in Int /\ Nil \notin G2 /\ Head \notin G2
  BY PageFacts
<1>5. ASSUME NEW r \in G2 \cup {Head}
      PROVE  nx2[r] = Nil \/ (nx2[r] \in G2 /\ r < nx2[r] /\ pr2[nx2[r]] = r)
  <2>1. CASE r = t
    BY <1>1, <1>2, <1>3, <1>4, <2>1
  <2>2. CASE r = q
    BY <1>2, <1>3, <2>2
  <2>3. CASE r # q /\ r # t
    <3>1. nx2[r] = nx[r] /\ r \in G \cup {Head}
      BY <1>2, <2>3
    <3>2. nx[r] = Nil \/ (nx[r] \in G /\ r < nx[r] /\ pr[nx[r]] = r)
      BY <3>1 DEF Threaded
    <3>3. nx[r] # Nil => nx[r] # nx[q]
      BY <1>1, <2>3, <3>2
    <3> QED  BY <1>3, <3>1, <3>2, <3>3
  <2> QED  BY <2>1, <2>2, <2>3
<1>6. \A b \in G : q < b => t < b
  <2> SUFFICES ASSUME NEW b \in G, q < b PROVE t < b
    OBVIOUS
  <2>1. nx[q] # Nil /\ nx[q] <= b
    BY DEF Threaded
  <2>2. nx[q] \in G
    BY <1>1, <2>1
  <2> QED  BY <1>4, <2>1, <2>2
<1>7. ASSUME NEW r \in G2 \cup {Head}, NEW b \in G2, r < b
      PROVE  nx2[r] # Nil /\ nx2[r] <= b
  <2>1. CASE r = t
    <3>1. b \in G /\ q < b
      BY <1>4, <1>7, <2>1
    <3> QED  BY <1>2, <2>1, <3>1 DEF Threaded
  <2>2. CASE r = q
    <3>1. b = t \/ (b \in G /\ q < b)
      BY <1>7, <2>2
    <3>2. t <= b
      BY <1>4, <1>6, <3>1
    <3>3. nx2[r] = t
      BY <1>2, <2>2
    <3>4. t # Nil
      BY <1>4
    <3> QED  BY <3>2, <3>3, <3>4
  <2>3. CASE r # q /\ r # t
    <3>1. nx2[r] = nx[r] /\ r \in G \cup {Head}
      BY <1>2, <2>3
    <3>2. CASE b = t
      <4>1. r < q
        BY <1>4, <1>6, <1>7, <2>3, <3>1, <3>2, PageFacts
      <4>2. q \in G
        BY <1>4, <3>1, <4>1, PageFacts
      <4>3. nx[r] # Nil /\ nx[r] <= q
        BY <3>1, <4>1, <4>2 DEF Threaded
      <4>4. nx[r] \in G
        BY <3>1, <4>3 DEF Threaded
      <4> QED  BY <1>4, <3>1, <3>2, <4>2, <4>3, <4>4
    <3>3. CASE b # t
      BY <1>7, <3>1, <3>3 DEF Threaded
    <3> QED  BY <3>2, <3>3
  <2> QED  BY <2>1, <2>2, <2>3
<1>8. ASSUME NEW b \in G2
      PROVE  pr2[b] \in G2 \cup {Head} /\ nx2[pr2[b]] = b
  <2>1. CASE b = t
    BY <1>2, <1>3, <2>1
  <2>2. CASE b = nx[q] /\ b # t
    <3>1. nx[q] # Nil /\ pr2[b] = t
      BY <1>3, <1>4, <2>2
    <3> QED  BY <1>2, <2>2, <3>1
  <2>3. CASE b # nx[q] /\ b # t
    <3>1. pr2[b] = pr[b] /\ b \in G
      BY <1>3, <2>3
    <3>2. pr[b] \in G \cup {Head} /\ nx[pr[b]] = b
      BY <3>1 DEF Threaded
    <3>3. nx2[pr[b]] = nx[pr[b]]
      BY <1>2, <2>3, <3>2
    <3> QED  BY <3>1, <3>2, <3>3
  <2> QED  BY <2>1, <2>2, <2>3
<1> HIDE DEF G2
<1>9. Threaded(nx2, pr2, G2)
  BY <1>5, <1>7, <1>8 DEF Threaded
<1> QED  BY <1>9 DEF G2

-----------------------------------------------------------------------------
(***************************************************************************)
(* What a split and a merge do to a tiling.                                *)
(***************************************************************************)
LEMMA SplitPlace ==
  ASSUME NEW B \in SUBSET Page, NEW p \in B, NEW count \in Nat \ {0},
         NEW n \in [Page -> 0 .. PageTotal], Tiles(B, n), count < n[p]
  PROVE  /\ p + count \in Page \ B
         /\ p < p + count /\ p + count < p + n[p] /\ p + n[p] <= PageTotal
<1>1. B \subseteq Nat /\ p \in Nat /\ PageTotal \in Nat /\ \A b \in B : n[b] \in Nat
  BY PageFacts
<1>2. p + n[p] <= PageTotal
  BY DEF Tiles
<1>3. p + count \in Page /\ p < p + count /\ p + count < p + n[p]
  BY <1>1, <1>2 DEF Page
<1>4. p + count \notin B
  BY <1>1, <1>3 DEF Tiles
<1> QED  BY <1>2, <1>3, <1>4

LEMMA SplitTiles ==
  ASSUME NEW B \in SUBSET Page, NEW p \in B, NEW count \in Nat \ {0},
         NEW n \in [Page -> 0 .. PageTotal], NEW n2,
         Tiles(B, n), count < n[p],
         n2[p] = count, n2[p + count] = n[p] - count,
         \A b \in B \ {p} : n2[b] = n[b]
  PROVE  Tiles(B \cup {p + count}, n2)
<1> DEFINE np == p + count
<1>1. B \subseteq Nat /\ p \in Nat /\ PageTotal \in Nat /\ \A b \in B : n[b] \in Nat
  BY PageFacts
<1>2. p + n[p] <= PageTotal
  BY SplitPlace
<1>3. np \in Page /\ p < np /\ np < p + n[p]
  BY SplitPlace
<1>4. np \notin B
  BY SplitPlace
<1>5. /\ n2[p] = count /\ n2[np] = n[p] - count
      /\ \A b \in B \ {p} : n2[b] = n[b]
  OBVIOUS
<1>6. n[p] \in Nat /\ count \in Nat /\ count > 0 /\ np + (n[p] - count) = p + n[p]
  BY <1>1
<1>7. ASSUME NEW b \in B \cup {np} PROVE n2[b] > 0 /\ b + n2[b] <= PageTotal
  <2>1. CASE b = p
    BY <1>1, <1>2, <1>3, <1>5, <1>6, <2>1
  <2>2. CASE b = np
    BY <1>1, <1>2, <1>5, <1>6, <2>2
  <2>3. CASE b \in B \ {p}
    BY <1>5, <2>3 DEF Tiles
  <2> QED  BY <2>1, <2>2, <2>3
<1>8. ASSUME NEW b \in B \cup {np}, NEW c \in B \cup {np}, b < c
      PROVE  b + n2[b] <= c
  <2>1. ASSUME NEW d \in B PROVE /\ d < p => d + n[d] <= p
                                 /\ p < d => p + n[p] <= d
    BY DEF Tiles
  <2>2. CASE b = p
    <3>1. c \in B \ {p} => np <= c
      BY <1>1, <1>3, <1>8, <2>1, <2>2
    <3> QED  BY <1>1, <1>3, <1>5, <1>8, <2>2, <3>1
  <2>3. CASE b = np
    <3>1. c \in B /\ c # p /\ p < c
      BY <1>1, <1>3, <1>8, <2>3
    <3> QED  BY <1>1, <1>5, <1>6, <2>1, <2>3, <3>1
  <2>4. CASE b \in B \ {p}
    <3>1. n2[b] = n[b]
      BY <1>5, <2>4
    <3>2. CASE c = np
      <4>1. b < p
        BY <1>1, <1>3, <1>8, <2>1, <2>4, <3>2
      <4> QED  BY <1>1, <1>3, <2>1, <2>4, <3>1, <3>2, <4>1
    <3>3. CASE c \in B
      BY <1>8, <2>4, <3>1, <3>3 DEF Tiles
    <3> QED  BY <3>2, <3>3
  <2> QED  BY <2>2, <2>3, <2>4
<1>9. ASSUME NEW x \in Page
      PROVE  \E b \in B \cup {np} : b <= x /\ x < b + n2[b]
  <2>1. PICK b \in B : b <= x /\ x < b + n[b]
    BY DEF Tiles
  <2>2. CASE b # p
    BY <1>5, <2>1, <2>2
  <2>3. CASE b = p
    <3>1. x \in Nat
      BY PageFacts
    <3>2. CASE x < np
      BY <1>5, <2>1, <2>3, <3>2
    <3>3. CASE ~(x < np)
      BY <1>1, <1>3, <1>5, <1>6, <2>1, <2>3, <3>1, <3>3
    <3> QED  BY <3>2, <3>3
  <2> QED  BY <2>2, <2>3
<1> HIDE DEF np
<1>10. Tiles(B \cup {np}, n2)
  BY <1>7, <1>8, <1>9 DEF Tiles
<1> QED  BY <1>10 DEF np

LEMMA MergeTiles ==
  ASSUME NEW B \in SUBSET Page, NEW t \in B, NEW m \in B,
         NEW n \in [Page -> 0 .. PageTotal], NEW n2,
         Tiles(B, n), m = t + n[t],
         n2[t] = n[t] + n[m], \A b \in B \ {t, m} : n2[b] = n[b]
  PROVE  n[t] + n[m] \in 0 .. PageTotal /\ Tiles(B \ {m}, n2)
<1>1. /\ B \subseteq Nat /\ t \in Nat /\ m \in Nat /\ PageTotal \in Nat
      /\ \A b \in B : n[b] \in Nat
  BY PageFacts
<1>2. n[t] > 0 /\ n[m] > 0 /\ m + n[m] <= PageTotal
  BY DEF Tiles
<1>3. t # m /\ t < m /\ t + (n[t] + n[m]) = m + n[m]
  BY <1>1, <1>2
<1>4. n[t] + n[m] \in 0 .. PageTotal
  BY <1>1, <1>2
<1>6. n2[t] = n[t] + n[m] /\ \A b \in B \ {t, m} : n2[b] = n[b]
  OBVIOUS
<1>7. ASSUME NEW b \in B \ {m} PROVE n2[b] > 0 /\ b + n2[b] <= PageTotal
  <2>1. CASE b = t
    BY <1>1, <1>2, <1>3, <1>6, <2>1
  <2>2. CASE b # t
    BY <1>6, <2>2 DEF Tiles
  <2> QED  BY <2>1, <2>2
<1>8. ASSUME NEW b \in B \ {m}, NEW c \in B \ {m}, b < c
      PROVE  b + n2[b] <= c
  <2>1. CASE b = t
    <3>1. m <= c
      BY <1>8, <2>1 DEF Tiles
    <3>2. m < c
      BY <1>1, <3>1
    <3>3. m + n[m] <= c
      BY <3>2 DEF Tiles
    <3> QED  BY <1>3, <1>6, <2>1, <3>3
  <2>2. CASE b # t
    BY <1>6, <1>8, <2>2 DEF Tiles
  <2> QED  BY <2>1, <2>2
<1>9. ASSUME NEW x \in Page
      PROVE  \E b \in B \ {m} : b <= x /\ x < b + n2[b]
  <2>1. PICK b \in B : b <= x /\ x < b + n[b]
    BY DEF Tiles
  <2>2. x \in Nat
    BY PageFacts
  <2>3. CASE b \notin {t, m}
    BY <1>6, <2>1, <2>3
  <2>4. CASE b \in {t, m}
    <3>1. t <= x /\ x < t + n2[t]
      BY <1>1, <1>2, <1>3, <1>6, <2>1, <2>2, <2>4
    <3> QED  BY <1>3, <3>1
  <2> QED  BY <2>3, <2>4
<1>10. Tiles(B \ {m}, n2)
  BY <1>7, <1>8, <1>9 DEF Tiles
<1> QED  BY <1>4, <1>10

(***************************************************************************)
(* The block behind a block begins where that one ends; two blocks of a    *)
(* tiling have no page in common.                                          *)
(***************************************************************************)
LEMMA NextBlock ==
  ASSUME NEW B \in SUBSET Page, NEW t \in B, NEW n \in [Page -> 0 .. PageTotal],
         Tiles(B, n), t + n[t] < PageTotal
  PROVE  t + n[t] \in B
<1>1. B \subseteq Nat /\ PageTotal \in Nat /\ \A b \in B : n[b] \in Nat
  BY PageFacts
<1>2. t + n[t] \in Page
  BY <1>1 DEF Page
<1>3. PICK b \in B : b <= t + n[t] /\ t + n[t] < b + n[b]
  BY <1>2 DEF Tiles
<1>4. /\ b < t => b + n[b] <= t
      /\ t < b => t + n[t] <= b
  BY DEF Tiles
<1> QED  BY <1>1, <1>3, <1>4

LEMMA BlocksDisjoint ==
  ASSUME NEW B \in SUBSET Page, NEW n \in [Page -> 0 .. PageTotal], Tiles(B, n),
         NEW b \in B, NEW c \in B, b # c, NEW x \in b .. b + n[b] - 1
  PROVE  x \notin c .. c + n[c] - 1
<1>1. /\ b \in Nat /\ c \in Nat /\ n[b] \in Nat /\ n[c] \in Nat /\ x \in Int
      /\ b <= x /\ x <= b + n[b] - 1
  BY PageFacts
<1>2. /\ b < c => b + n[b] <= c
      /\ c < b => c + n[c] <= b
  BY DEF Tiles
<1> QED  BY <1>1, <1>2

-----------------------------------------------------------------------------
(***************************************************************************)
(* What the invariant says of a state, and where the two walks stop.       *)
(***************************************************************************)
LEMMA StateFacts ==
  ASSUME PmmInv
  PROVE  /\ FreeList \subseteq Page /\ held \subseteq Page \ {0}
         /\ Blocks \subseteq Page /\ Tiles(Blocks, num)
         /\ flags \in [Page -> 0 .. 1] /\ num \in [Page -> 0 .. PageTotal]
         /\ pre \in [Page -> Node \cup {Nil}] /\ nxt \in [Node -> Page \cup {Nil}]
         /\ Threaded(nxt, pre, FreeList)
         /\ \A b \in Blocks \ {0} : HeaderPages <= b
         /\ \A b \in Blocks : num[b] \in Nat \ {0}
<1>1. FreeList \subseteq Page
  BY PageFacts DEF FreeList, Reach, Node
<1>2. Blocks \subseteq Page
  BY <1>1, PageFacts DEF PmmInv, Typed, Blocks
<1>3. \A b \in Blocks \ {0} : 0 < b /\ 0 \in Blocks
  BY <1>2, PageFacts DEF Blocks
<1>4. \A b \in Blocks \ {0} : HeaderPages <= b
  BY <1>3, PageFacts DEF PmmInv, TileInv, Tiles
<1>5. \A b \in Blocks : num[b] \in Nat \ {0}
  BY <1>2, PageFacts DEF PmmInv, TileInv, Tiles, Typed
<1> QED  BY <1>1, <1>2, <1>4, <1>5 DEF PmmInv, Typed, ListInv, TileInv

LEMMA FirstFitFits ==
  ASSUME PmmInv, NEW count \in Nat, NEW p \in FirstFit(count)
  PROVE  p \in FreeList /\ count <= num[p]
<1> DEFINE small == {q \in Page : num[q] < count}
           S == FreeList \cup {Head}
<1>1. p \in Reach(Head, small \cup {Head}) /\ p \notin small /\ p # Head
  BY DEF FirstFit
<1>2. S \in SUBSET Node
  BY StateFacts DEF Node
<1>3. \A r \in S : nxt[r] \in S \cup {Nil}
  BY StateFacts DEF Threaded
<1>4. p \in S
  BY <1>1, <1>2, <1>3 DEF Reach
<1>5. p \in FreeList /\ p \in Page
  BY <1>1, <1>4, StateFacts
<1>6. num[p] \in Nat
  BY <1>5, StateFacts, PageFacts
<1> QED  BY <1>1, <1>5, <1>6

LEMMA InsertAfterFinds ==
  ASSUME PmmInv, NEW t \in Page \ FreeList, NEW q \in InsertAfter(t)
  PROVE  /\ q \in FreeList \cup {Head} /\ q < t
         /\ nxt[q] = Nil \/ t < nxt[q]
<1> DEFINE start == IF nxt[Head] = Nil \/ nxt[Head] > t THEN Head ELSE nxt[Head]
           below == {r \in Node : nxt[r] # Nil /\ nxt[r] < t}
           S == {r \in FreeList \cup {Head} : r < t}
<1>1. q \in Reach(start, below) /\ q \notin below
  BY DEF InsertAfter
<1>2. S \in SUBSET Node /\ FreeList \subseteq Int /\ t \in Int /\ Head < t /\ q \in Node
  BY <1>1, StateFacts, PageFacts DEF Node, Reach
<1>3. \A r \in FreeList \cup {Head} : nxt[r] = Nil \/ nxt[r] \in FreeList
  BY StateFacts DEF Threaded
<1>4. start \in S
  <2>1. CASE nxt[Head] = Nil \/ nxt[Head] > t
    BY <1>2, <2>1
  <2>2. CASE ~(nxt[Head] = Nil \/ nxt[Head] > t)
    <3>1. nxt[Head] \in FreeList /\ nxt[Head] # t
      BY <1>3, <2>2
    <3>2. nxt[Head] \in Int /\ t \in Int
      BY <1>2, <3>1
    <3>3. nxt[Head] < t
      BY <2>2, <3>1, <3>2
    <3> QED  BY <2>2, <3>1, <3>3
  <2> QED  BY <2>1, <2>2
<1>5. \A r \in S \cap below : nxt[r] \in S \cup {Nil}
  BY <1>3
<1>6. q \in S
  BY <1>1, <1>2, <1>4, <1>5 DEF Reach
<1>7. nxt[q] = Nil \/ ~(nxt[q] < t)
  BY <1>1, <1>2
<1>8. q \in FreeList \cup {Head} /\ q < t
  BY <1>6
<1>9. nxt[q] # Nil => nxt[q] \in Int /\ nxt[q] # t
  BY <1>2, <1>3, <1>8
<1> QED  BY <1>2, <1>7, <1>8, <1>9

(***************************************************************************)
(* A request that is served: the block p found on the list becomes a block *)
(* of the callers, and if it was longer the rest of it takes its place.    *)
(***************************************************************************)
LEMMA SplitLinks ==
  ASSUME PmmInv, NEW p \in FreeList, NEW count \in Nat, Split(p, count)
  PROVE  LET np == p + count IN
         /\ num[p] > count
         /\ num' = [num EXCEPT ![p] = count, ![np] = num[p] - count]
         /\ nxt' = [nxt EXCEPT ![pre[p]] = np, ![np] = nxt[p]]
         /\ pre' = [q \in Page |-> IF q = np THEN pre[p]
                                     ELSE IF q = nxt[p] THEN np ELSE pre[q]]
<1> DEFINE np == p + count
           nxt1 == [nxt EXCEPT ![pre[p]] = np]
           pre1 == [q \in Page |-> IF q = nxt1[p] THEN np ELSE pre[q]]
<1>1. /\ num[p] > count
      /\ num' = [num EXCEPT ![p] = count, ![np] = num[p] - count]
      /\ nxt' = [nxt1 EXCEPT ![np] = nxt1[p]]
      /\ pre' = [pre1 EXCEPT ![np] = pre1[p]]
  BY DEF Split, Remainder
<1>2. p \in Page /\ p \in Node /\ p # Nil
  BY StateFacts, PageFacts DEF Node
<1>3. pre[p] # p /\ nxt[p] # p
  <2>1. pre[p] \in FreeList \cup {Head} /\ nxt[pre[p]] = p
    BY StateFacts DEF Threaded
  <2>2. pre[p] < p
    BY <1>2, <2>1, StateFacts DEF Threaded
  <2>3. nxt[p] # Nil => p < nxt[p]
    BY StateFacts DEF Threaded
  <2>4. p \in Int
    BY <1>2, PageFacts
  <2> QED  BY <1>2, <2>2, <2>3, <2>4
<1>4. nxt1[p] = nxt[p]
  BY <1>2, <1>3, StateFacts
<1>5. pre1[p] = pre[p]
  BY <1>2, <1>3, <1>4
<1>6. nxt' = [nxt EXCEPT ![pre[p]] = np, ![np] = nxt[p]]
  BY <1>1, <1>4
<1>7. pre1 = [q \in Page |-> IF q = nxt[p] THEN np ELSE pre[q]]
  BY <1>4
<1> HIDE DEF np, nxt1, pre1
<1>8. pre' = [q \in Page |-> IF q = np THEN pre[p]
                               ELSE IF q = nxt[p] THEN np ELSE pre[q]]
  BY <1>1, <1>5, <1>7
<1> QED  BY <1>1, <1>6, <1>8 DEF np

LEMMA SplitEffect ==
  ASSUME PmmInv, NEW p \in FreeList, NEW count \in Nat \ {0}, Split(p, count)
  PROVE  /\ p + count \in Page \ Blocks
         /\ num' \in [Page -> 0 .. PageTotal]
         /\ pre' \in [Page -> Node \cup {Nil}] /\ nxt' \in [Node -> Page \cup {Nil}]
         /\ FreeList' = (FreeList \ {p}) \cup {p + count}
         /\ Threaded(nxt', pre', FreeList')
         /\ Tiles(Blocks \cup {p + count}, num')
         /\ num'[p] = count
         /\ \A b \in Blocks \ {p} : num'[b] = num[b]
<1> DEFINE np == p + count
<1>1. /\ num[p] > count
      /\ num' = [num EXCEPT ![p] = count, ![np] = num[p] - count]
      /\ nxt' = [nxt EXCEPT ![pre[p]] = np, ![np] = nxt[p]]
      /\ pre' = [q \in Page |-> IF q = np THEN pre[p]
                                  ELSE IF q = nxt[p] THEN np ELSE pre[q]]
  BY SplitLinks
<1>2. p \in Blocks /\ p \in Page /\ p \in Nat /\ num[p] \in 0 .. PageTotal
  BY StateFacts, PageFacts DEF Blocks
<1>3. num[p] - count \in 0 .. PageTotal /\ count \in 0 .. PageTotal
  BY <1>1, <1>2, PageFacts
<1>4. num' \in [Page -> 0 .. PageTotal]
  BY <1>1, <1>3, StateFacts
<1>5. /\ count < num[p] /\ Blocks \in SUBSET Page
      /\ Tiles(Blocks, num) /\ num \in [Page -> 0 .. PageTotal]
  BY <1>1, <1>2, StateFacts
<1>6. np \in Page \ Blocks
  BY <1>2, <1>5, SplitPlace
<1>7. np \notin FreeList /\ np # p /\ p < np
  BY <1>2, <1>6 DEF Blocks
<1>8. num'[p] = count /\ \A b \in Blocks \ {p} : num'[b] = num[b]
  BY <1>1, <1>2, <1>6, <1>7, StateFacts
<1>9. Tiles(Blocks \cup {np}, num')
  <2>1. num'[p + count] = num[p] - count
    BY <1>1, <1>6, <1>5
  <2> QED  BY <1>2, <1>8, <1>5, <2>1, SplitTiles
<1>10. nxt[p] \in Page \cup {Nil} /\ pre[p] \in Node \cup {Nil}
  BY <1>2, StateFacts DEF Node
<1>11. nxt' \in [Node -> Page \cup {Nil}]
  BY <1>1, <1>6, <1>10, StateFacts
<1>12. pre' \in [Page -> Node \cup {Nil}]
  BY <1>1, <1>6, <1>10, StateFacts DEF Node
<1>13. ASSUME NEW b \in FreeList, p < b PROVE np < b
  <2>1. p + num[p] <= b
    BY <1>2, <1>13, StateFacts DEF Tiles, Blocks
  <2>2. b \in Nat
    BY StateFacts, PageFacts
  <2> QED  BY <1>1, <1>2, <2>1, <2>2
<1> HIDE DEF np
<1>14. Threaded(nxt', pre', (FreeList \ {p}) \cup {np})
  BY <1>1, <1>6, <1>7, <1>11, <1>12, <1>13, StateFacts, ReplaceThreads
<1>15. FreeList' = (FreeList \ {p}) \cup {np}
  BY <1>6, <1>11, <1>14, StateFacts, FreeListIs
<1> QED  BY <1>4, <1>6, <1>8, <1>11, <1>12, <1>14, <1>15, <1>9 DEF np

LEMMA UnlinkEffect ==
  ASSUME PmmInv, NEW p \in FreeList, NEW count \in Nat \ {0}, Unlink(p, count)
  PROVE  /\ num' = num /\ num[p] = count
         /\ pre' \in [Page -> Node \cup {Nil}] /\ nxt' \in [Node -> Page \cup {Nil}]
         /\ FreeList' = FreeList \ {p}
         /\ Threaded(nxt', pre', FreeList')
<1>1. /\ num[p] = count /\ num' = num
      /\ nxt' = [nxt EXCEPT ![pre[p]] = nxt[p]]
      /\ pre' = [q \in Page |-> IF q = nxt[p] THEN pre[p] ELSE pre[q]]
  BY DEF Unlink
<1>2. p \in Page /\ p \in Node
  BY StateFacts DEF Node
<1>3. nxt[p] \in Page \cup {Nil} /\ pre[p] \in Node \cup {Nil}
  BY <1>2, StateFacts
<1>4. nxt' \in [Node -> Page \cup {Nil}]
  BY <1>1, <1>3, StateFacts
<1>5. pre' \in [Page -> Node \cup {Nil}]
  BY <1>1, <1>3, StateFacts
<1>6. /\ \A r \in (FreeList \cup {Head}) \ {p} :
           nxt'[r] = IF r = pre[p] THEN nxt[p] ELSE nxt[r]
      /\ \A b \in FreeList \ {p} :
           pre'[b] = IF b = nxt[p] THEN pre[p] ELSE pre[b]
  BY <1>1, StateFacts DEF Node
<1>7. Threaded(nxt', pre', FreeList \ {p})
  BY <1>4, <1>5, <1>6, StateFacts, RemoveThreads
<1>8. FreeList' = FreeList \ {p}
  BY <1>4, <1>7, StateFacts, FreeListIs
<1> QED  BY <1>1, <1>4, <1>5, <1>7, <1>8

LEMMA MallocEffect ==
  ASSUME PmmInv, NEW count \in Requests \ {0}, Malloc(count)
  PROVE  \E p \in FreeList :
           /\ count \in 1 .. num[p]
           /\ num' \in [Page -> 0 .. PageTotal]
           /\ pre' \in [Page -> Node \cup {Nil}] /\ nxt' \in [Node -> Page \cup {Nil}]
           /\ Threaded(nxt', pre', FreeList') /\ FreeList \ {p} \subseteq FreeList'
           /\ 0 \notin FreeList' /\ held' \cap FreeList' = {}
           /\ Tiles(Blocks', num')
           /\ num'[p] = count /\ \A b \in {0} \cup held : num'[b] = num[b]
           /\ flags' = Marked(p, count) /\ held' = held \cup {p}
           /\ stale' = stale \ (p .. p + count - 1)
<1>1. count \in Nat \ {0}
  BY RequestAssumption
<1>2. PICK p \in FirstFit(count) :
        /\ Split(p, count) \/ Unlink(p, count)
        /\ flags' = Marked(p, count)
        /\ held' = held \cup {p}
        /\ stale' = stale \ (p .. p + count - 1)
  BY DEF Malloc
<1>3. p \in FreeList /\ count <= num[p]
  BY <1>1, <1>2, FirstFitFits
<1>4. p \in Blocks /\ num[p] \in Nat
  BY <1>3, StateFacts DEF Blocks
<1>5. count \in 1 .. num[p]
  BY <1>1, <1>3, <1>4
<1>6. 0 \notin FreeList /\ held \cap FreeList = {} /\ {0} \cup held \subseteq Blocks \ {p}
  BY <1>3 DEF PmmInv, TileInv, Blocks
<1>7. CASE Split(p, count)
  <2>1. /\ p + count \in Page \ Blocks
        /\ num' \in [Page -> 0 .. PageTotal]
        /\ pre' \in [Page -> Node \cup {Nil}] /\ nxt' \in [Node -> Page \cup {Nil}]
        /\ FreeList' = (FreeList \ {p}) \cup {p + count}
        /\ Threaded(nxt', pre', FreeList')
        /\ Tiles(Blocks \cup {p + count}, num')
        /\ num'[p] = count /\ \A b \in Blocks \ {p} : num'[b] = num[b]
    BY <1>1, <1>3, <1>7, SplitEffect
  <2>2. 0 \notin FreeList' /\ held' \cap FreeList' = {} /\ FreeList \ {p} \subseteq FreeList'
    BY <1>2, <1>4, <1>6, <2>1 DEF Blocks
  <2>3. Blocks' = Blocks \cup {p + count}
    BY <1>2, <1>3, <2>1 DEF Blocks
  <2>4. Tiles(Blocks', num') /\ \A b \in {0} \cup held : num'[b] = num[b]
    BY <1>6, <2>1, <2>3
  <2> QED  BY <1>2, <1>3, <1>5, <2>1, <2>2, <2>4
<1>8. CASE Unlink(p, count)
  <2>1. /\ num' = num /\ num[p] = count
        /\ pre' \in [Page -> Node \cup {Nil}] /\ nxt' \in [Node -> Page \cup {Nil}]
        /\ FreeList' = FreeList \ {p}
        /\ Threaded(nxt', pre', FreeList')
    BY <1>1, <1>3, <1>8, UnlinkEffect
  <2>2. 0 \notin FreeList' /\ held' \cap FreeList' = {} /\ FreeList \ {p} \subseteq FreeList'
    BY <1>2, <1>6, <2>1
  <2>3. Blocks' = Blocks
    BY <1>2, <1>3, <2>1 DEF Blocks
  <2>4. /\ Tiles(Blocks', num') /\ \A b \in {0} \cup held : num'[b] = num[b]
        /\ num' \in [Page -> 0 .. PageTotal] /\ num'[p] = count
    BY <2>1, <2>3, StateFacts
  <2> QED  BY <1>2, <1>3, <1>5, <2>1, <2>2, <2>4
<1> QED  BY <1>2, <1>7, <1>8

(***************************************************************************)
(* A request of no pages marks the first block of the list and moves       *)
(* nothing.                                                                *)
(***************************************************************************)
LEMMA EmptyEffect ==
  ASSUME PmmInv, 0 \in Requests, Malloc(0)
  PROVE  \E p \in FreeList :
           /\ UNCHANGED <<num, pre, nxt, PageCount, held, stale>>
           /\ flags' = [flags EXCEPT ![p] = 1]
           /\ empties' = empties \cup {p}
<1>1. PICK p \in FirstFit(0) :
        /\ Split(p, 0) \/ Unlink(p, 0)
        /\ flags' = Marked(p, 0)
        /\ stale' = stale \ (p .. p + 0 - 1)
        /\ empties' = empties \cup {p} /\ held' = held
  BY DEF Malloc
<1>2. p \in FreeList
  BY <1>1, FirstFitFits
<1>3. p \in Page /\ p \in Node /\ p \in Nat /\ num[p] \in Nat \ {0}
  BY <1>2, StateFacts, PageFacts DEF Blocks, Node
<1>4. Split(p, 0)
  BY <1>1, <1>3 DEF Unlink
<1>5. /\ pre[p] \in FreeList \cup {Head} /\ nxt[pre[p]] = p
      /\ nxt[p] # Nil => pre[nxt[p]] = p
  BY <1>2, StateFacts DEF Threaded
<1>6. p + 0 = p /\ num[p] - 0 = num[p]
  BY <1>3
<1>7. /\ num' = [num EXCEPT ![p] = 0, ![p] = num[p]]
      /\ nxt' = [nxt EXCEPT ![pre[p]] = p, ![p] = nxt[p]]
      /\ pre' = [q \in Page |-> IF q = p THEN pre[p]
                                  ELSE IF q = nxt[p] THEN p ELSE pre[q]]
  BY <1>2, <1>4, <1>6, SplitLinks
<1>8. num' = num
  BY <1>3, <1>7, StateFacts
<1>9. nxt' = nxt
  BY <1>3, <1>5, <1>7, StateFacts
<1>10. pre' = pre
  <2>1. ASSUME NEW q \in Page PROVE pre'[q] = pre[q]
    <3>1. q = nxt[p] => pre[q] = p
      BY <1>5, PageFacts
    <3> QED  BY <1>7, <3>1
  <2> QED  BY <1>7, <2>1, StateFacts
<1>11. p .. p + 0 - 1 = {}
  BY <1>3
<1>12. flags' = [flags EXCEPT ![p] = 1]
  <2>1. flags' = [q \in Page |-> IF q = p \/ q \in {} THEN 1 ELSE flags[q]]
    BY <1>1, <1>11 DEF Marked
  <2> QED  BY <1>3, <2>1, StateFacts
<1>13. stale' = stale
  BY <1>1, <1>11
<1>14. PageCount' = PageCount
  BY DEF Malloc, PmmInv, Typed
<1> QED  BY <1>1, <1>2, <1>8, <1>9, <1>10, <1>12, <1>13, <1>14

(***************************************************************************)
(* A block t that comes back: it is put on the list, and the block behind  *)
(* it, if it is free, is taken off and becomes a part of it.               *)
(***************************************************************************)
LEMMA LinkEffect ==
  ASSUME PmmInv, NEW t \in held, NEW q \in InsertAfter(t), LinkAndMerge(q, t)
  PROVE  \E gone \in SUBSET FreeList :
           /\ num' \in [Page -> 0 .. PageTotal]
           /\ pre' \in [Page -> Node \cup {Nil}] /\ nxt' \in [Node -> Page \cup {Nil}]
           /\ FreeList' = (FreeList \ gone) \cup {t}
           /\ Threaded(nxt', pre', FreeList')
           /\ Tiles(Blocks \ gone, num')
           /\ \A b \in Blocks \ (gone \cup {t}) : num'[b] = num[b]
           /\ \A b \in gone : flags[b] = 0
<1> DEFINE m == t + num[t]
           nxt1 == [nxt EXCEPT ![q] = t, ![t] = nxt[q]]
           pre1 == [r \in Page |-> CASE r = t      -> q
                                     [] r = nxt[q] -> t
                                     [] OTHER      -> pre[r]]
           G == FreeList \cup {t}
<1>1. /\ t \in Page \ FreeList /\ t \in Blocks \ {0} /\ t \in Node /\ t \in Nat
      /\ num[t] \in Nat \ {0}
  BY StateFacts, PageFacts DEF PmmInv, TileInv, Blocks, Node
<1>2. q \in FreeList \cup {Head} /\ q < t /\ (nxt[q] = Nil \/ t < nxt[q])
  BY <1>1, InsertAfterFinds
<1>3. q \in Node /\ nxt[q] \in Page \cup {Nil}
  BY <1>2, StateFacts DEF Node
<1>4. nxt1 \in [Node -> Page \cup {Nil}] /\ pre1 \in [Page -> Node \cup {Nil}]
  BY <1>1, <1>3, StateFacts DEF Node
<1>5. Threaded(nxt1, pre1, G)
  <2> HIDE DEF G
  <2> QED  BY <1>1, <1>2, <1>4, StateFacts, InsertThreads DEF G
<1>6. G \in SUBSET Page
  BY <1>1, StateFacts
<1>7. CASE ~Merges(t)
  <2>1. nxt' = nxt1 /\ pre' = pre1 /\ num' = num
    BY <1>7 DEF LinkAndMerge
  <2>2. FreeList' = G
    BY <1>4, <1>5, <1>6, <2>1, FreeListIs
  <2>3. Blocks \ {} = Blocks /\ FreeList' = (FreeList \ {}) \cup {t}
    BY <2>2
  <2> HIDE DEF nxt1, pre1, G
  <2>4. {} \in SUBSET FreeList
    OBVIOUS
  <2> WITNESS {} \in SUBSET FreeList
  <2> QED  BY <1>4, <1>5, <2>1, <2>2, <2>3, StateFacts
<1>8. CASE Merges(t)
  <2>1. /\ num' = [num EXCEPT ![t] = @ + num[m], ![m] = 0]
        /\ nxt' = [nxt1 EXCEPT ![t] = nxt1[m], ![m] = Nil]
        /\ pre' = [r \in Page |-> CASE r = m       -> Nil
                                    [] r = nxt1[m] -> t
                                    [] OTHER       -> pre1[r]]
    BY <1>8 DEF LinkAndMerge
  <2>2. m < PageTotal /\ flags[m] = 0
    BY <1>8 DEF Merges
  <2>3. m \in Blocks
    BY <1>1, <2>2, StateFacts, NextBlock
  <2>4. t < m /\ m \in Nat /\ m # 0 /\ m \in Page
    BY <1>1, <2>3, StateFacts
  <2>5. m \notin held
    <3> SUFFICES ASSUME m \in held PROVE FALSE
      OBVIOUS
    <3>1. num[m] \in Nat \ {0}
      BY <2>3, StateFacts
    <3>2. m \in BlockAt(m)
      BY <2>4, <3>1 DEF BlockAt
    <3> QED  BY <2>2, <3>2 DEF PmmInv, MarksInv
  <2>6. m \in FreeList
    BY <2>3, <2>4, <2>5 DEF Blocks
  <2>7. nxt[q] = m
    <3>1. nxt[q] # Nil /\ nxt[q] <= m
      <4>1. q < m
        BY <1>1, <1>2, <1>3, <2>4, PageFacts
      <4> QED  BY <1>2, <2>6, <4>1, StateFacts DEF Threaded
    <3>2. nxt[q] \in FreeList /\ t < nxt[q]
      BY <1>2, <3>1, StateFacts DEF Threaded
    <3>3. t + num[t] <= nxt[q]
      BY <1>1, <3>2, StateFacts DEF Tiles, Blocks
    <3>4. nxt[q] \in Nat
      BY <3>2, StateFacts, PageFacts
    <3> QED  BY <2>4, <3>1, <3>3, <3>4
  <2>8. nxt1[m] \in Page \cup {Nil} /\ m # t /\ m \in G /\ pre1[m] = t
    BY <1>4, <2>4, <2>6, <2>7 DEF Node
  <2> HIDE DEF nxt1, pre1
  <2>9. nxt' \in [Node -> Page \cup {Nil}] /\ pre' \in [Page -> Node \cup {Nil}]
    BY <1>1, <1>4, <2>1, <2>8 DEF Node
  <2>10. /\ \A r \in (G \cup {Head}) \ {m} :
              nxt'[r] = IF r = pre1[m] THEN nxt1[m] ELSE nxt1[r]
         /\ \A b \in G \ {m} :
              pre'[b] = IF b = nxt1[m] THEN pre1[m] ELSE pre1[b]
    BY <1>1, <1>4, <1>6, <2>1, <2>8, PageFacts DEF Node
  <2>11. Threaded(nxt', pre', G \ {m})
    <3> HIDE DEF G, m
    <3> QED  BY <1>4, <1>5, <1>6, <2>8, <2>9, <2>10, RemoveThreads
  <2>12. G \ {m} = (FreeList \ {m}) \cup {t}
    BY <2>8
  <2>13. FreeList' = (FreeList \ {m}) \cup {t}
    BY <1>6, <2>9, <2>11, <2>12, FreeListIs
  <2>14. /\ num'[t] = num[t] + num[m]
         /\ \A b \in Blocks \ {t, m} : num'[b] = num[b]
    BY <1>1, <2>1, <2>4, StateFacts
  <2>15. num[t] + num[m] \in 0 .. PageTotal /\ Tiles(Blocks \ {m}, num')
    <3> HIDE DEF m
    <3> QED  BY <1>1, <2>3, <2>14, StateFacts, MergeTiles DEF m
  <2>16. num' \in [Page -> 0 .. PageTotal]
    <3>1. 0 \in 0 .. PageTotal /\ num[t] + num[m] \in 0 .. PageTotal
      BY <2>15, PageFacts
    <3> HIDE DEF m
    <3> QED  BY <2>1, <3>1, StateFacts
  <2> HIDE DEF m, G
  <2>17. {m} \in SUBSET FreeList
    BY <2>6
  <2>18. \A b \in Blocks \ ({m} \cup {t}) : num'[b] = num[b]
    BY <2>14
  <2>19. Threaded(nxt', pre', FreeList')
    BY <2>11, <2>12, <2>13
  <2> WITNESS {m} \in SUBSET FreeList
  <2> QED  BY <2>2, <2>9, <2>13, <2>15, <2>16, <2>18, <2>19
<1> QED  BY <1>7, <1>8

LEMMA FreeEffect ==
  ASSUME PmmInv, NEW t \in held, FreeHeld(t)
  PROVE  /\ num' \in [Page -> 0 .. PageTotal]
         /\ pre' \in [Page -> Node \cup {Nil}] /\ nxt' \in [Node -> Page \cup {Nil}]
         /\ Threaded(nxt', pre', FreeList')
         /\ 0 \notin FreeList' /\ held' \cap FreeList' = {}
         /\ Tiles(Blocks', num')
         /\ \A b \in {0} \cup (held \ {t}) : num'[b] = num[b]
         /\ \A b \in FreeList \ FreeList' : flags[b] = 0
<1>2. t \in held
  OBVIOUS
<1>3. PICK q \in InsertAfter(t) : LinkAndMerge(q, t)
  BY DEF Free, FreeHeld
<1>4. held' = held \ {t}
  BY DEF FreeHeld
<1>5. PICK gone \in SUBSET FreeList :
           /\ num' \in [Page -> 0 .. PageTotal]
           /\ pre' \in [Page -> Node \cup {Nil}] /\ nxt' \in [Node -> Page \cup {Nil}]
           /\ FreeList' = (FreeList \ gone) \cup {t}
           /\ Threaded(nxt', pre', FreeList')
           /\ Tiles(Blocks \ gone, num')
           /\ \A b \in Blocks \ (gone \cup {t}) : num'[b] = num[b]
           /\ \A b \in gone : flags[b] = 0
  BY <1>2, <1>3, LinkEffect
<1>6. 0 \notin FreeList /\ held \cap FreeList = {} /\ t # 0
  BY <1>2, StateFacts DEF PmmInv, TileInv
<1>7. 0 \notin FreeList' /\ held' \cap FreeList' = {}
  BY <1>4, <1>5, <1>6
<1>8. Blocks' = Blocks \ gone
  BY <1>2, <1>4, <1>5, <1>6 DEF Blocks
<1>9. \A b \in {0} \cup (held \ {t}) : num'[b] = num[b]
  BY <1>5, <1>6 DEF Blocks
<1>10. Tiles(Blocks', num')
  BY <1>5, <1>8
<1>11. \A b \in FreeList \ FreeList' : flags[b] = 0
  BY <1>5
<1> QED  BY <1>5, <1>7, <1>9, <1>10, <1>11

-----------------------------------------------------------------------------
(***************************************************************************)
(* The pages in the callers' hands, and the number of the others.          *)
(***************************************************************************)
LEMMA ManagedFacts ==
  IsFiniteSet(Managed) /\ Cardinality(Managed) = PageTotal - HeaderPages
<1> DEFINE n == PageTotal - HeaderPages
<1>1. HeaderPages + n - 1 = PageTotal - 1 /\ n \in Nat \ {0} /\ HeaderPages \in Int
  BY PageFacts
<1> HIDE DEF n
<1>2. /\ IsFiniteSet(HeaderPages .. HeaderPages + n - 1)
      /\ Cardinality(HeaderPages .. HeaderPages + n - 1) = n
  BY <1>1, IntervalSize
<1> QED  BY <1>1, <1>2 DEF Managed, n

LEMMA PartFacts ==
  ASSUME NEW S \in SUBSET Managed
  PROVE  IsFiniteSet(S) /\ Cardinality(S) \in 0 .. PageTotal
<1>1. IsFiniteSet(S) /\ Cardinality(S) <= Cardinality(Managed)
  BY ManagedFacts, FS_Subset
<1>2. Cardinality(S) \in Nat
  BY <1>1, FS_CardinalityType
<1> QED  BY <1>1, <1>2, ManagedFacts, PageFacts

LEMMA AvailFacts ==
  /\ IsFiniteSet(Avail) /\ Cardinality(Avail) \in 0 .. PageTotal
  /\ Cardinality(Avail') \in 0 .. PageTotal
<1>1. Avail \in SUBSET Managed
  BY DEF Avail
<1>2. Avail' \in SUBSET Managed
  BY DEF Avail, Managed
<1> QED  BY <1>1, <1>2, PartFacts

LEMMA RunFacts ==
  ASSUME PmmInv, NEW b \in Blocks \ {0}
  PROVE  /\ BlockAt(b) \subseteq Managed /\ b \in BlockAt(b)
         /\ IsFiniteSet(BlockAt(b)) /\ Cardinality(BlockAt(b)) = num[b]
         /\ \A c \in held \ {b} : BlockAt(b) \cap BlockAt(c) = {}
         /\ b \notin held => BlockAt(b) \subseteq Avail
<1>1. b \in Nat /\ num[b] \in Nat \ {0} /\ HeaderPages <= b /\ b + num[b] <= PageTotal
  BY StateFacts, PageFacts DEF Tiles
<1>2. BlockAt(b) \subseteq Managed /\ b \in BlockAt(b)
  BY <1>1, PageFacts DEF BlockAt, Managed
<1>3. IsFiniteSet(BlockAt(b)) /\ Cardinality(BlockAt(b)) = num[b]
  <2>1. b \in Int /\ num[b] \in Nat \ {0}
    BY <1>1
  <2> QED  BY <2>1, IntervalSize, Zenon DEF BlockAt
<1>4. ASSUME NEW c \in held \ {b} PROVE BlockAt(b) \cap BlockAt(c) = {}
  <2>1. c \in Blocks
    BY DEF Blocks
  <2> QED  BY <2>1, StateFacts, BlocksDisjoint DEF BlockAt
<1>5. ASSUME b \notin held PROVE BlockAt(b) \subseteq Avail
  BY <1>2, <1>4, <1>5 DEF Avail, Owned, Runs
<1> QED  BY <1>2, <1>3, <1>4, <1>5

LEMMA MallocRuns ==
  ASSUME PmmInv, NEW p \in FreeList, NEW count \in 1 .. num[p],
         held' = held \cup {p}, num'[p] = count, \A b \in held : num'[b] = num[b]
  PROVE  LET run == p .. p + count - 1
         IN  /\ run \subseteq Avail /\ run # {} /\ p \in Managed
             /\ Runs' = Runs \cup {run}
             /\ Cardinality(Avail') = Cardinality(Avail) - count
<1> DEFINE run == p .. p + count - 1
<1>1. /\ p \in Blocks \ {0} /\ p \notin held /\ p \in Nat
      /\ num[p] \in Nat \ {0} /\ count \in Nat \ {0} /\ count <= num[p]
  <2>1. p \in Blocks \ {0} /\ p \notin held
    BY DEF Blocks, PmmInv, TileInv
  <2>2. p \in Nat /\ num[p] \in Nat \ {0}
    BY <2>1, StateFacts, PageFacts
  <2> QED  BY <2>1, <2>2
<1>2. run \subseteq BlockAt(p) /\ p \in run
  BY <1>1 DEF BlockAt
<1>3. BlockAt(p) \subseteq Avail
  BY <1>1, RunFacts
<1>4. run \subseteq Avail /\ p \in Managed
  BY <1>2, <1>3 DEF Avail
<1>5. IsFiniteSet(run) /\ Cardinality(run) = count
  <2>1. p \in Int /\ count \in Nat \ {0}
    BY <1>1
  <2> QED  BY <2>1, IntervalSize, Zenon
<1>6. BlockAt(p)' = run /\ \A b \in held : BlockAt(b)' = BlockAt(b)
  BY <1>1 DEF BlockAt
<1> HIDE DEF run
<1>7. Runs' = Runs \cup {run}
  BY <1>6 DEF Runs
<1>8. Avail' = Avail \ run
  BY <1>7 DEF Avail, Owned, Managed
<1>9. Avail \cap run = run
  BY <1>4
<1>10. Cardinality(Avail') = Cardinality(Avail) - count
  <2>1. Cardinality(Avail \ run) = Cardinality(Avail) - Cardinality(Avail \cap run)
    BY AvailFacts, FS_Difference
  <2> QED  BY <1>5, <1>8, <1>9, <2>1
<1> QED  BY <1>2, <1>4, <1>7, <1>10 DEF run

LEMMA FreeRuns ==
  ASSUME PmmInv, NEW t \in held,
         held' = held \ {t}, \A b \in held \ {t} : num'[b] = num[b]
  PROVE  /\ BlockAt(t) \in Runs /\ Cardinality(BlockAt(t)) = num[t]
         /\ Runs' = Runs \ {BlockAt(t)}
         /\ Cardinality(Avail') = Cardinality(Avail) + num[t]
<1>1. t \in Blocks \ {0}
  BY StateFacts DEF Blocks
<1>2. /\ BlockAt(t) \subseteq Managed /\ t \in BlockAt(t) /\ BlockAt(t) \in Runs
      /\ IsFiniteSet(BlockAt(t)) /\ Cardinality(BlockAt(t)) = num[t]
      /\ \A c \in held \ {t} : BlockAt(t) \cap BlockAt(c) = {}
  BY <1>1, RunFacts DEF Runs
<1>3. \A b \in held \ {t} : BlockAt(b)' = BlockAt(b)
  BY DEF BlockAt
<1>4. Runs' = {BlockAt(b) : b \in held \ {t}}
  BY <1>3 DEF Runs
<1>5. Runs' = Runs \ {BlockAt(t)}
  BY <1>2, <1>4 DEF Runs
<1>6. \A r \in Runs' : r \cap BlockAt(t) = {}
  BY <1>2, <1>4
<1>7. Avail' = Avail \cup BlockAt(t)
  <2>1. Owned' = Owned \ BlockAt(t)
    BY <1>2, <1>5, <1>6 DEF Owned
  <2>2. Managed' = Managed
    BY DEF Managed
  <2> QED  BY <1>2, <2>1, <2>2 DEF Avail
<1>8. Avail \cap BlockAt(t) = {}
  BY <1>2 DEF Avail, Owned
<1>9. Cardinality({}) = 0
  BY FS_EmptySet
<1>10. Cardinality(Avail') = Cardinality(Avail) + num[t]
  <2>1. Cardinality(Avail \cup BlockAt(t)) =
          Cardinality(Avail) + Cardinality(BlockAt(t)) - Cardinality(Avail \cap BlockAt(t))
    BY <1>2, AvailFacts, FS_Union
  <2>2. Cardinality(Avail') = Cardinality(Avail) + num[t] - 0
    BY <1>2, <1>7, <1>8, <1>9, <2>1
  <2>3. num[t] \in Nat
    BY <1>1, StateFacts
  <2> QED  BY <2>2, <2>3, AvailFacts
<1> QED  BY <1>2, <1>5, <1>10

-----------------------------------------------------------------------------
(***************************************************************************)
(* The invariant holds at the start, and every step keeps it.              *)
(***************************************************************************)
LEMMA PmmInitial == Init => PmmInv
<1> SUFFICES ASSUME Init PROVE PmmInv
  OBVIOUS
<1> USE PageFacts
<1>1. /\ flags = [p \in Page |-> IF p = 0 THEN 1 ELSE 0]
      /\ num = [p \in Page |-> CASE p = 0 -> HeaderPages
                                 [] p = HeaderPages -> PageTotal - HeaderPages
                                 [] OTHER -> 0]
      /\ pre = [p \in Page |-> IF p = HeaderPages THEN Head ELSE Nil]
      /\ nxt = [p \in Node |-> IF p = Head THEN HeaderPages ELSE Nil]
      /\ PageCount = PageTotal - HeaderPages /\ held = {} /\ stale = {}
      /\ empties = {} /\ idle = FALSE /\ failed = None /\ Sound
  BY DEF Init
<1>2. HeaderPages \in 0 .. PageTotal /\ PageTotal - HeaderPages \in 0 .. PageTotal
  OBVIOUS
<1>3. num \in [Page -> 0 .. PageTotal]
  BY <1>1, <1>2
<1>4. /\ num[0] = HeaderPages /\ num[HeaderPages] = PageTotal - HeaderPages
      /\ nxt[Head] = HeaderPages /\ nxt[HeaderPages] = Nil /\ pre[HeaderPages] = Head
  BY <1>1 DEF Node
<1>5. pre \in [Page -> Node \cup {Nil}] /\ nxt \in [Node -> Page \cup {Nil}]
  BY <1>1 DEF Node
<1>6. Typed
  <2>1. flags \in [Page -> 0 .. 1] /\ PageCount \in 0 .. PageTotal
    BY <1>1, <1>2
  <2>2. /\ held \subseteq Page \ {0} /\ empties \subseteq Page \ {0}
        /\ stale \subseteq Page \ {0} /\ idle \in BOOLEAN
        /\ failed \in Requests \cup {None}
    BY <1>1
  <2> QED  BY <1>3, <1>5, <2>1, <2>2 DEF Typed
<1>7. Threaded(nxt, pre, {HeaderPages})
  BY <1>4 DEF Threaded
<1>8. FreeList = {HeaderPages}
  BY <1>5, <1>7, FreeListIs
<1>9. Blocks = {0, HeaderPages}
  BY <1>1, <1>8 DEF Blocks
<1>10. Tiles({0, HeaderPages}, num)
  <2>1. ASSUME NEW x \in Page
        PROVE  \E b \in {0, HeaderPages} : b <= x /\ x < b + num[b]
    <3>1. x \in Nat /\ x < PageTotal
      OBVIOUS
    <3>2. CASE x < HeaderPages
      BY <1>4, <3>1, <3>2
    <3>3. CASE ~(x < HeaderPages)
      BY <1>4, <3>1, <3>3
    <3> QED  BY <3>2, <3>3
  <2>2. \A b \in {0, HeaderPages} : num[b] > 0 /\ b + num[b] <= PageTotal
    BY <1>4
  <2>3. \A b \in {0, HeaderPages}, c \in {0, HeaderPages} : b < c => b + num[b] <= c
    BY <1>4
  <2> QED  BY <2>1, <2>2, <2>3 DEF Tiles
<1>11. TileInv
  BY <1>1, <1>4, <1>8, <1>9, <1>10 DEF TileInv
<1>12. Avail = Managed
  BY <1>1 DEF Avail, Owned, Runs
<1>13. CountInv
  BY <1>1, <1>12, ManagedFacts DEF CountInv
<1> QED  BY <1>1, <1>6, <1>7, <1>8, <1>11, <1>13 DEF PmmInv, ListInv, MarksInv

(***************************************************************************)
(* The number of elements means the same in the abstract specification.    *)
(***************************************************************************)
LEMMA SameCardinality ==
  ASSUME NEW S PROVE Allocator!Cardinality(S) = Cardinality(S)
BY DEF Cardinality, Allocator!Cardinality

LEMMA MallocStep ==
  ASSUME PmmInv, NEW count \in Requests \ {0}, Malloc(count)
  PROVE  PmmInv' /\ Allocator!Next
<1>1. PICK p \in FreeList :
           /\ count \in 1 .. num[p]
           /\ num' \in [Page -> 0 .. PageTotal]
           /\ pre' \in [Page -> Node \cup {Nil}] /\ nxt' \in [Node -> Page \cup {Nil}]
           /\ Threaded(nxt', pre', FreeList') /\ FreeList \ {p} \subseteq FreeList'
           /\ 0 \notin FreeList' /\ held' \cap FreeList' = {}
           /\ Tiles(Blocks', num')
           /\ num'[p] = count /\ \A b \in {0} \cup held : num'[b] = num[b]
           /\ flags' = Marked(p, count) /\ held' = held \cup {p}
           /\ stale' = stale \ (p .. p + count - 1)
  BY MallocEffect
<1> DEFINE run == p .. p + count - 1
<1>2. /\ run \subseteq Avail /\ run # {} /\ p \in Managed
      /\ Runs' = Runs \cup {run}
      /\ Cardinality(Avail') = Cardinality(Avail) - count
  BY <1>1, MallocRuns
<1>0. p \in run
  <2>1. p \in Nat /\ num[p] \in Nat
    BY StateFacts, PageFacts DEF Blocks
  <2> QED  BY <1>1, <2>1
<1>3. /\ PageCount' = PageCount - count /\ failed' = failed /\ idle' = FALSE
      /\ empties' = empties /\ Sound'
  BY DEF Malloc, PmmInv, Sound
<1>4. flags' \in [Page -> 0 .. 1] /\ \A x \in run \cap Page : flags'[x] = 1
  BY <1>1, StateFacts DEF Marked
<1>5. \A x \in Page \ run : flags'[x] = flags[x]
  BY <1>0, <1>1 DEF Marked
<1>6. /\ p \in Page \ {0} /\ stale \subseteq Page \ {0}
      /\ empties \subseteq Page \ {0} /\ failed \in Requests \cup {None}
  BY StateFacts DEF PmmInv, Typed, TileInv
<1>7. CountInv' /\ PageCount' \in 0 .. PageTotal
  BY <1>2, <1>3, AvailFacts DEF CountInv, PmmInv
<1>8. Typed'
  BY <1>1, <1>3, <1>4, <1>6, <1>7, StateFacts DEF Typed
<1>9. ListInv' /\ TileInv'
  BY <1>1 DEF ListInv, TileInv, PmmInv
<1>10. ASSUME NEW b \in held', NEW x \in BlockAt(b)' PROVE flags'[x] = 1
  <2>1. CASE b = p
    <3>1. x \in run
      BY <1>1, <2>1 DEF BlockAt
    <3>2. x \in Page
      BY <1>2, <3>1, PageFacts DEF Avail, Managed, Page
    <3> QED  BY <1>4, <3>1, <3>2
  <2>2. CASE b # p
    <3>1. b \in held /\ x \in BlockAt(b) /\ b \in Blocks \ {0}
      BY <1>1, <2>2, StateFacts DEF BlockAt, Blocks
    <3>2. flags[x] = 1 /\ x \in Managed
      BY <3>1, RunFacts DEF PmmInv, MarksInv
    <3>3. x \in Page
      BY <3>2, PageFacts DEF Managed, Page
    <3> HIDE DEF run
    <3> QED  BY <1>4, <1>5, <3>2, <3>3
  <2> QED  BY <2>1, <2>2
<1>11. ASSUME NEW t \in stale' PROVE flags'[t] = 0 \/ t \in empties' \cap FreeList'
  <2>1. t \in stale /\ t \notin run /\ t \in Page /\ t # p
    BY <1>0, <1>1, <1>6
  <2>2. flags'[t] = flags[t]
    BY <1>5, <2>1
  <2> QED  BY <1>1, <1>3, <2>1, <2>2 DEF PmmInv, MarksInv
<1>12. MarksInv'
  BY <1>10, <1>11 DEF MarksInv
<1>13. Allocator!Allocate(p, count)
  BY <1>2, <1>3 DEF Allocator!Allocate, Avail, Owned, Runs, Managed
<1>14. count \in 1 .. PageCount
  BY <1>1, <1>2, AvailFacts, RequestAssumption DEF PmmInv, CountInv
<1>15. Allocator!Next
  BY <1>2, <1>13, <1>14 DEF Allocator!Next, Managed
<1> QED  BY <1>3, <1>7, <1>8, <1>9, <1>12, <1>15 DEF PmmInv

LEMMA EmptyStep ==
  ASSUME PmmInv, 0 \in Requests, Malloc(0)
  PROVE  PmmInv' /\ UNCHANGED <<{BlockAt(b) : b \in held}, PageCount>>
<1>1. PICK p \in FreeList :
        /\ UNCHANGED <<num, pre, nxt, PageCount, held, stale>>
        /\ flags' = [flags EXCEPT ![p] = 1]
        /\ empties' = empties \cup {p}
  BY EmptyEffect
<1>2. failed' = failed /\ idle' = FALSE /\ Sound'
  BY DEF Malloc, PmmInv, Sound
<1>3. p \in Page \ {0} /\ FreeList' = FreeList
  BY <1>1, StateFacts DEF PmmInv, TileInv, FreeList, Reach
<1>4. Blocks' = Blocks /\ Runs' = Runs /\ Avail' = Avail
  BY <1>1, <1>3 DEF Blocks, Runs, Avail, Owned, Managed, BlockAt
<1>5. flags' \in [Page -> 0 .. 1] /\ \A x \in Page : x = p \/ flags'[x] = flags[x]
  BY <1>1, <1>3, StateFacts
<1>6. flags'[p] = 1
  BY <1>1, <1>3, StateFacts
<1>7. Typed'
  BY <1>1, <1>2, <1>3, <1>5 DEF PmmInv, Typed
<1>8. ListInv' /\ TileInv' /\ CountInv'
  BY <1>1, <1>3, <1>4 DEF PmmInv, ListInv, TileInv, CountInv
<1>9. ASSUME NEW b \in held', NEW x \in BlockAt(b)' PROVE flags'[x] = 1
  <2>1. b \in held /\ x \in BlockAt(b) /\ b \in Blocks \ {0}
    BY <1>1, StateFacts DEF BlockAt, Blocks
  <2>2. flags[x] = 1 /\ x \in Managed
    BY <2>1, RunFacts DEF PmmInv, MarksInv
  <2>3. x \in Page
    BY <2>2, PageFacts DEF Managed, Page
  <2> QED  BY <1>5, <1>6, <2>2, <2>3
<1>10. ASSUME NEW t \in stale' PROVE flags'[t] = 0 \/ t \in empties' \cap FreeList'
  <2>1. t \in stale /\ t \in Page
    BY <1>1 DEF PmmInv, Typed
  <2> QED  BY <1>1, <1>3, <1>5, <2>1 DEF PmmInv, MarksInv
<1>11. MarksInv'
  BY <1>9, <1>10 DEF MarksInv
<1> QED  BY <1>1, <1>2, <1>4, <1>7, <1>8, <1>11 DEF PmmInv, Runs

LEMMA FreeStep ==
  ASSUME PmmInv, NEW t \in held, FreeHeld(t)
  PROVE  PmmInv' /\ Allocator!Next
<1>1. /\ num' \in [Page -> 0 .. PageTotal]
      /\ pre' \in [Page -> Node \cup {Nil}] /\ nxt' \in [Node -> Page \cup {Nil}]
      /\ Threaded(nxt', pre', FreeList')
      /\ 0 \notin FreeList' /\ held' \cap FreeList' = {}
      /\ Tiles(Blocks', num')
      /\ \A b \in {0} \cup (held \ {t}) : num'[b] = num[b]
      /\ \A b \in FreeList \ FreeList' : flags[b] = 0
  BY FreeEffect
<1>2. /\ flags' = [flags EXCEPT ![t] = 0] /\ PageCount' = PageCount + num[t]
      /\ held' = held \ {t} /\ stale' = stale \cup {t} /\ failed' = failed
      /\ empties' = empties /\ idle' = FALSE /\ Sound'
  BY DEF Free, FreeHeld, PmmInv, Sound
<1>3. /\ BlockAt(t) \in Runs /\ Cardinality(BlockAt(t)) = num[t]
      /\ Runs' = Runs \ {BlockAt(t)}
      /\ Cardinality(Avail') = Cardinality(Avail) + num[t]
  BY <1>1, <1>2, FreeRuns
<1>4. /\ t \in Page \ {0} /\ stale \subseteq Page \ {0}
      /\ empties \subseteq Page \ {0} /\ failed \in Requests \cup {None}
  BY <1>1, StateFacts DEF PmmInv, Typed
<1>5. flags' \in [Page -> 0 .. 1] /\ flags'[t] = 0 /\ \A x \in Page \ {t} : flags'[x] = flags[x]
  BY <1>2, <1>4, StateFacts
<1>6. CountInv' /\ PageCount' \in 0 .. PageTotal
  BY <1>2, <1>3, AvailFacts DEF CountInv, PmmInv
<1>7. Typed'
  BY <1>1, <1>2, <1>4, <1>5, <1>6, StateFacts DEF Typed
<1>8. ListInv' /\ TileInv'
  BY <1>1 DEF ListInv, TileInv, PmmInv
<1>9. ASSUME NEW b \in held', NEW x \in BlockAt(b)' PROVE flags'[x] = 1
  <2>1. b \in held \ {t} /\ x \in BlockAt(b) /\ b \in Blocks \ {0} /\ t \in Blocks \ {0}
    BY <1>1, <1>2, StateFacts DEF BlockAt, Blocks
  <2>2. flags[x] = 1 /\ x \in Managed
    BY <2>1, RunFacts DEF PmmInv, MarksInv
  <2>3. x # t
    BY <1>1, <2>1, RunFacts
  <2>4. x \in Page
    BY <2>2, PageFacts DEF Managed, Page
  <2> QED  BY <1>5, <2>2, <2>3, <2>4
<1>10. ASSUME NEW s \in stale' PROVE flags'[s] = 0 \/ s \in empties' \cap FreeList'
  <2>1. CASE s = t
    BY <1>5, <2>1
  <2>2. CASE s # t
    <3>1. s \in stale /\ s \in Page /\ flags'[s] = flags[s]
      BY <1>2, <1>4, <1>5, <2>2
    <3> QED  BY <1>1, <1>2, <3>1 DEF PmmInv, MarksInv
  <2> QED  BY <2>1, <2>2
<1>11. MarksInv'
  BY <1>9, <1>10 DEF MarksInv
<1>12. Allocator!Release(BlockAt(t))
  <2>1. PageCount' = PageCount + Cardinality(BlockAt(t))
    BY <1>2, <1>3
  <2>2. /\ BlockAt(t) \in {BlockAt(b) : b \in held}
        /\ {BlockAt(b) : b \in held}' = {BlockAt(b) : b \in held} \ {BlockAt(t)}
    BY <1>3 DEF Runs
  <2> QED  BY <2>1, <2>2, SameCardinality DEF Allocator!Release
<1>13. Allocator!Next
  BY <1>3, <1>12 DEF Allocator!Next, Runs
<1> QED  BY <1>2, <1>6, <1>7, <1>8, <1>11, <1>13 DEF PmmInv

(***************************************************************************)
(* A call that is refused, or fails, changes none of this.                 *)
(***************************************************************************)
LEMMA QuietStep ==
  ASSUME PmmInv, UNCHANGED <<flags, num, pre, nxt, PageCount, held, stale>>,
         failed' \in Requests \cup {None}, idle' \in BOOLEAN, Sound',
         empties' \subseteq empties,
         \A t \in empties \ empties' : t \in stale => flags[t] = 0
  PROVE  PmmInv' /\ UNCHANGED <<{BlockAt(b) : b \in held}, PageCount>>
<1>1. FreeList' = FreeList
  BY DEF FreeList, Reach
<1>2. Blocks' = Blocks /\ Runs' = Runs /\ Avail' = Avail
  BY <1>1 DEF Blocks, Runs, Avail, Owned, Managed, BlockAt
<1>3. Typed'
  BY DEF PmmInv, Typed
<1>4. ListInv' /\ TileInv' /\ CountInv'
  BY <1>1, <1>2 DEF PmmInv, ListInv, TileInv, CountInv
<1>5. MarksInv'
  BY <1>1 DEF PmmInv, MarksInv, BlockAt
<1> QED  BY <1>2, <1>3, <1>4, <1>5 DEF PmmInv, Runs

(***************************************************************************)
(* A block of the list is not refused for its length, only for its mark.   *)
(***************************************************************************)
LEMMA RefusedStep ==
  ASSUME PmmInv, NEW t \in held \cup empties \cup stale, FreeRefused(t)
  PROVE  PmmInv' /\ UNCHANGED <<{BlockAt(b) : b \in held}, PageCount>>
<1>1. /\ UNCHANGED <<flags, num, pre, nxt, PageCount, held, stale>>
      /\ failed' = failed /\ idle' = FALSE /\ Sound'
      /\ empties' \in {empties, empties \ {t}} /\ Refused(t)
  BY DEF FreeRefused, list, PmmInv, Sound
<1>2. t \in stale => flags[t] = 0
  <2> SUFFICES ASSUME t \in stale, flags[t] # 0 PROVE FALSE
    OBVIOUS
  <2>1. t \in FreeList
    BY DEF PmmInv, MarksInv
  <2>2. num[t] # 0
    BY <2>1, StateFacts DEF Blocks
  <2> QED  BY <1>1, <2>2 DEF Refused
<1>3. failed' \in Requests \cup {None} /\ idle' \in BOOLEAN
  BY <1>1 DEF PmmInv, Typed
<1>4. empties' \subseteq empties /\ \A s \in empties \ empties' : s = t
  BY <1>1
<1> QED  BY <1>1, <1>2, <1>3, <1>4, QuietStep

LEMMA PmmStep ==
  ASSUME PmmInv, [Next]_vars, Sound'
  PROVE  PmmInv' /\ Allocator!Step
<1>1. ASSUME NEW count \in Requests, Malloc(count)
      PROVE  PmmInv' /\ Allocator!Step
  <2>1. CASE count = 0
    BY <1>1, <2>1, EmptyStep DEF Allocator!Step
  <2>2. CASE count # 0
    BY <1>1, <2>2, MallocStep DEF Allocator!Step
  <2> QED  BY <2>1, <2>2
<1>2. ASSUME NEW count \in Requests, MallocFails(count)
      PROVE  PmmInv' /\ Allocator!Step
  <2>1. /\ UNCHANGED <<flags, num, pre, nxt, PageCount, held, stale, empties>>
        /\ failed' = count /\ idle' = FALSE
    BY <1>2 DEF MallocFails, list
  <2>2. PmmInv' /\ UNCHANGED <<{BlockAt(b) : b \in held}, PageCount>>
    BY <2>1, QuietStep
  <2> QED  BY <2>2 DEF Allocator!Step
<1>3. ASSUME NEW t \in held, FreeHeld(t)
      PROVE  PmmInv' /\ Allocator!Step
  BY <1>3, FreeStep DEF Allocator!Step
<1>4. ASSUME NEW t \in empties \cup stale, FreeEmpty(t)
      PROVE  FALSE
  BY <1>4 DEF FreeEmpty, Sound
<1>5. ASSUME NEW t \in held \cup empties \cup stale, FreeRefused(t)
      PROVE  PmmInv' /\ Allocator!Step
  BY <1>5, RefusedStep DEF Allocator!Step
<1>6. ASSUME Overtaken
      PROVE  FALSE
  BY <1>6 DEF Overtaken, Sound
<1>7. ASSUME IdleCalls \/ UNCHANGED vars
      PROVE  PmmInv' /\ Allocator!Step
  <2>1. /\ UNCHANGED <<flags, num, pre, nxt, PageCount, held, stale, empties>>
        /\ failed' \in Requests \cup {None} /\ idle' \in BOOLEAN
    BY <1>7 DEF IdleCalls, vars, list, PmmInv, Typed
  <2>2. PmmInv' /\ UNCHANGED <<{BlockAt(b) : b \in held}, PageCount>>
    BY <2>1, QuietStep
  <2> QED  BY <2>2 DEF Allocator!Step
<1> QED  BY <1>1, <1>2, <1>3, <1>4, <1>5, <1>6, <1>7 DEF Next, Halted

(***************************************************************************)
(* A list that is spoiled stays so; the invariant holds until then.        *)
(***************************************************************************)
LEMMA SpoiledStays ==
  ASSUME [Next]_vars, ~Sound, spoiled \in {"no", "empty", "overtaken"}
  PROVE  ~Sound' /\ spoiled' \in {"no", "empty", "overtaken"}
BY DEF Next, vars, Halted, IdleCalls, Overtaken, Malloc, MallocFails,
       FreeHeld, FreeEmpty, FreeRefused, Sound

SoundInv == spoiled \in {"no", "empty", "overtaken"} /\ (Sound => PmmInv)

LEMMA PmmInvariance == Spec => []SoundInv
<1>1. Init => SoundInv
  BY PmmInitial DEF SoundInv, PmmInv, Sound
<1>2. ASSUME SoundInv, [Next]_vars PROVE SoundInv'
  <2>1. CASE ~Sound
    BY <1>2, <2>1, SpoiledStays DEF SoundInv
  <2>2. CASE Sound /\ Sound'
    BY <1>2, <2>2, PmmStep DEF SoundInv, Sound
  <2>3. CASE Sound /\ ~Sound'
    BY <1>2, <2>3 DEF SoundInv, Sound, Next, vars, Halted, IdleCalls, Overtaken,
                      Malloc, MallocFails, FreeHeld, FreeEmpty, FreeRefused
  <2> QED  BY <2>1, <2>2, <2>3
<1> QED  BY <1>1, <1>2, PTL DEF Spec

-----------------------------------------------------------------------------
(***************************************************************************)
(* The headers, the links and the count have their types as long as the    *)
(* list is sound, whatever is asked for, nothing included: no walk or edit *)
(* of the list leaves the array of headers.                                *)
(***************************************************************************)
THEOREM PmmTyped == Spec => []TypeOK
<1>1. SoundInv => TypeOK
  BY DEF SoundInv, PmmInv, TypeOK
<1> QED  BY <1>1, PmmInvariance, PTL

(***************************************************************************)
(* Whatever is requested, no pages included, and whatever is given back by *)
(* those who were given it, in whatever order, every page stays in exactly *)
(* one block, and no block leaves the memory.                              *)
(***************************************************************************)
THEOREM BlocksAlwaysTile == Spec => []BlocksTile
<1>1. SoundInv => BlocksTile
  <2> SUFFICES ASSUME PmmInv PROVE BlocksTile
    BY DEF SoundInv, BlocksTile
  <2>1. ASSUME NEW b \in Blocks
        PROVE  BlockAt(b) \subseteq Page
    <3>1. b \in Nat /\ num[b] \in Nat /\ b + num[b] <= PageTotal
      BY StateFacts, PageFacts DEF Tiles
    <3> QED  BY <3>1, PageFacts DEF BlockAt, Page
  <2>2. ASSUME NEW p \in Page
        PROVE  Cardinality({b \in Blocks : p \in BlockAt(b)}) = 1
    <3>1. PICK b \in Blocks : b <= p /\ p < b + num[b]
      BY StateFacts DEF Tiles
    <3>2. b \in Nat /\ num[b] \in Nat /\ p \in Nat
      BY StateFacts, PageFacts
    <3>3. p \in BlockAt(b)
      BY <3>1, <3>2 DEF BlockAt
    <3>4. ASSUME NEW c \in Blocks, p \in BlockAt(c) PROVE c = b
      BY <3>3, <3>4, StateFacts, BlocksDisjoint DEF BlockAt
    <3>5. {c \in Blocks : p \in BlockAt(c)} = {b}
      BY <3>3, <3>4
    <3> QED  BY <3>5, FS_Singleton
  <2> QED  BY <2>1, <2>2 DEF BlocksTile, Blocks
<1> QED  BY <1>1, PmmInvariance, PTL

(***************************************************************************)
(* The list that the code edits link by link stays doubly linked and in    *)
(* ascending order, and holds no empty block, until a block is given back  *)
(* that a request of no pages was answered with, or idle0 is overtaken.    *)
(***************************************************************************)
THEOREM FreeListStaysSound == Spec => []FreeListSound
<1>1. SoundInv => FreeListSound
  <2> SUFFICES ASSUME PmmInv, NEW b \in FreeList
               PROVE  /\ num[b] > 0
                      /\ pre[b] \in FreeList \cup {Head} /\ nxt[pre[b]] = b
                      /\ nxt[b] # Nil => b + num[b] <= nxt[b]
    BY DEF SoundInv, FreeListSound
  <2>1. num[b] > 0
    BY StateFacts DEF Tiles, Blocks
  <2>2. pre[b] \in FreeList \cup {Head} /\ nxt[pre[b]] = b
    BY StateFacts DEF Threaded
  <2>3. nxt[b] # Nil => nxt[b] \in FreeList /\ b < nxt[b]
    BY StateFacts DEF Threaded
  <2>4. nxt[b] # Nil => b + num[b] <= nxt[b]
    BY <2>3, StateFacts DEF Tiles, Blocks
  <2> QED  BY <2>1, <2>2, <2>4
<1> QED  BY <1>1, PmmInvariance, PTL

(***************************************************************************)
(* Until then the marks let a caller give back what it holds, and betray a *)
(* block that is given back twice, unless a request of no pages was        *)
(* answered with it in between.                                            *)
(***************************************************************************)
THEOREM MarksAlwaysTell == Spec => []MarksTell
<1>1. SoundInv => MarksTell
  <2> SUFFICES ASSUME PmmInv PROVE MarksTell
    BY DEF SoundInv, MarksTell
  <2>1. ASSUME NEW t \in held PROVE ~Refused(t)
    <3>1. t \in Blocks \ {0}
      BY StateFacts DEF Blocks
    <3>2. num[t] # 0 /\ flags[t] = 1
      BY <3>1, StateFacts, RunFacts DEF PmmInv, MarksInv
    <3> QED  BY <3>2 DEF Refused
  <2>2. \A t \in stale : Refused(t) \/ t \in empties
    BY DEF PmmInv, MarksInv, Refused
  <2> QED  BY <2>1, <2>2 DEF MarksTell
<1> QED  BY <1>1, PmmInvariance, PTL

(***************************************************************************)
(* Every step up to the one that spoils the list is a step of              *)
(* PageAllocator or none: a request gets a run of pages nobody holds, a    *)
(* block comes back as the run that was given, PageCount counts the        *)
(* others.  A request of no pages is no step of it.                        *)
(***************************************************************************)
THEOREM AllocatorImplemented == Spec => ImplementsAllocator
<1>1. Init => Allocator!Init
  <2> SUFFICES ASSUME Init PROVE Allocator!Init
    OBVIOUS
  <2>1. {BlockAt(b) : b \in held} = {}
    BY DEF Init
  <2>2. PageCount = Cardinality(HeaderPages .. PageTotal - 1)
    BY ManagedFacts DEF Init, Managed
  <2> QED  BY <2>1, <2>2, SameCardinality DEF Allocator!Init
<1>2. ASSUME SoundInv, [Next]_vars
      PROVE  [Sound' => Allocator!Step]_vars
  <2>1. CASE Sound /\ Sound'
    BY <1>2, <2>1, PmmStep DEF SoundInv
  <2>2. CASE ~Sound
    BY <1>2, <2>2, SpoiledStays DEF SoundInv
  <2> QED  BY <2>1, <2>2
<1> QED  BY <1>1, <1>2, PmmInvariance, PTL DEF Spec, ImplementsAllocator
=============================================================================
