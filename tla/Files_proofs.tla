---------------------------- MODULE Files_proofs ----------------------------
(***************************************************************************)
(* Proofs about Files, for every number of processes, descriptors and      *)
(* files: the numbers of descriptors, the links of the nodes, and that the *)
(* counts of the nodes are the uses there are.                             *)
(***************************************************************************)
EXTENDS Files, FiniteSetTheorems, SequenceTheorems, WellFoundedInduction, TLAPS

-----------------------------------------------------------------------------
(***************************************************************************)
(* A set of naturals that is not empty has a least element, and Min is it. *)
(***************************************************************************)
LEMMA MinIsLeast ==
  ASSUME NEW S \in SUBSET Nat, S # {}
  PROVE  Min(S) \in S /\ \A n \in S : Min(S) <= n
<1>1. IsWellFoundedOn(OpToRel(<, Nat), Nat)
  BY NatLessThanWellFounded
<1>2. PICK m \in S : \A n \in S : ~(<<n, m>> \in OpToRel(<, Nat))
  BY <1>1, WFMin
<1>3. \A n \in S : n < m => <<n, m>> \in OpToRel(<, Nat)
  BY DEF OpToRel
<1>4. \A n \in S : ~(n < m)
  BY <1>2, <1>3, Zenon
<1>5. \A n \in S : m <= n
  BY <1>4
<1> QED  BY <1>5 DEF Min

(***************************************************************************)
(* A list of n descriptors leaves one of the numbers 0 .. n free.          *)
(***************************************************************************)
LEMMA OneIsFree ==
  ASSUME NEW list \in Seq(Fo)
  PROVE  \E n \in 0 .. Len(list) : n \notin Fds(list)
<1> DEFINE len == Len(list)
           fd == [i \in 1 .. len |-> list[i].fd]
<1>1. len \in Nat /\ DOMAIN list = 1 .. len
  OBVIOUS
<1>2. Fds(list) = {fd[i] : i \in 1 .. len}
  BY <1>1 DEF Fds
<1>3. fd \in Surjection(1 .. len, Fds(list))
  BY <1>2 DEF Surjection
<1>4. IsFiniteSet(1 .. len) /\ Cardinality(1 .. len) <= len
  BY <1>1, FS_Interval
<1>5. IsFiniteSet(Fds(list)) /\ Cardinality(Fds(list)) <= Cardinality(1 .. len)
  BY <1>3, <1>4, FS_Surjection
<1>6. Cardinality(0 .. len) = len + 1
  BY <1>1, FS_Interval
<1>7. SUFFICES ASSUME 0 .. len \subseteq Fds(list) PROVE FALSE
  OBVIOUS
<1>8. Cardinality(0 .. len) <= Cardinality(Fds(list))
  BY <1>5, <1>7, FS_Subset
<1>9. /\ Cardinality(1 .. len) \in Nat /\ Cardinality(Fds(list)) \in Nat
      /\ Cardinality(0 .. len) \in Nat
  BY <1>1, <1>4, <1>5, <1>6, FS_CardinalityType
<1> HIDE DEF len, fd
<1> QED  BY <1>1, <1>4, <1>5, <1>6, <1>8, <1>9

(***************************************************************************)
(* find_sui_fd returns the smallest number that is free, although it marks *)
(* only the numbers up to the length of the list.                          *)
(***************************************************************************)
LEMMA SuitableIsSmallest ==
  ASSUME NEW list \in Seq(Fo)
  PROVE  /\ FindSuiFd(list) \in Nat
         /\ FindSuiFd(list) \notin Fds(list)
         /\ FindSuiFd(list) = Min(0 .. Len(list) \ Fds(list))
<1> DEFINE len   == Len(list)
           free  == 0 .. len + 3 \ Marked(list)
           small == 0 .. len \ Fds(list)
<1>1. len \in Nat
  OBVIOUS
<1>2. PICK n \in 0 .. len : n \notin Fds(list)
  BY OneIsFree
<1>3. small \subseteq Nat /\ small # {} /\ free \subseteq Nat /\ free # {}
  BY <1>1, <1>2 DEF Marked
<1>4. Min(small) \in small /\ \A k \in small : Min(small) <= k
  BY <1>3, MinIsLeast
<1>5. Min(free) \in free /\ \A k \in free : Min(free) <= k
  BY <1>3, MinIsLeast
<1>6. small \subseteq free
  BY <1>1 DEF Marked
<1>7. Min(free) <= Min(small)
  BY <1>4, <1>5, <1>6
<1>8. Min(free) \in small
  BY <1>1, <1>3, <1>4, <1>5, <1>7 DEF Marked
<1>9. Min(free) = Min(small)
  <2>1. Min(small) <= Min(free) /\ Min(free) \in Nat /\ Min(small) \in Nat
    BY <1>3, <1>4, <1>8
  <2> HIDE DEF free, small
  <2> QED  BY <1>7, <2>1
<1> QED  BY <1>3, <1>8, <1>9 DEF FindSuiFd

-----------------------------------------------------------------------------
(***************************************************************************)
(* What the calls do to a list of descriptors keeps its type, and the      *)
(* numbers in it different.                                                *)
(***************************************************************************)
LEMMA WithNewKeeps ==
  ASSUME NEW list \in Seq(Fo), NumbersDiffer(list), NEW f \in File
  PROVE  WithNew(list, f) \in Seq(Fo) /\ NumbersDiffer(WithNew(list, f))
<1> DEFINE fo == [fd |-> FindSuiFd(list), file |-> f]
           new == Append(list, fo)
<1>1. FindSuiFd(list) \in Nat /\ FindSuiFd(list) \notin Fds(list)
  BY SuitableIsSmallest
<1>2. fo \in Fo
  BY <1>1 DEF Fo
<1>3. \A i \in DOMAIN list : list[i].fd # fo.fd
  BY <1>1 DEF Fds
<1> HIDE DEF fo
<1>4. /\ new \in Seq(Fo) /\ DOMAIN new = 1 .. Len(list) + 1
      /\ DOMAIN list = 1 .. Len(list) /\ Len(list) \in Nat
      /\ \A i \in 1 .. Len(list) : new[i] = list[i]
      /\ new[Len(list) + 1] = fo
  BY <1>2, AppendProperties
<1> HIDE DEF new
<1>5. NumbersDiffer(new)
  BY <1>3, <1>4 DEF NumbersDiffer
<1> QED  BY <1>4, <1>5 DEF WithNew, new, fo

LEMMA WithNumberedKeeps ==
  ASSUME NEW list \in Seq(Fo), NumbersDiffer(list), NEW n \in Nat, NEW f \in File
  PROVE  /\ WithNumbered(list, n, f) \in Seq(Fo)
         /\ NumbersDiffer(WithNumbered(list, n, f))
<1>1. CASE n \in Fds(list)
  BY <1>1, WithNewKeeps DEF WithNumbered
<1>2. CASE n \notin Fds(list)
  <2> DEFINE fo == [fd |-> n, file |-> f]
             new == Append(list, fo)
  <2>1. fo \in Fo
    BY DEF Fo
  <2>2. \A i \in DOMAIN list : list[i].fd # fo.fd
    BY <1>2 DEF Fds
  <2> HIDE DEF fo
  <2>3. /\ new \in Seq(Fo) /\ DOMAIN new = 1 .. Len(list) + 1
        /\ DOMAIN list = 1 .. Len(list) /\ Len(list) \in Nat
        /\ \A i \in 1 .. Len(list) : new[i] = list[i]
        /\ new[Len(list) + 1] = fo
    BY <2>1, AppendProperties
  <2> HIDE DEF new
  <2>4. NumbersDiffer(new)
    BY <2>2, <2>3 DEF NumbersDiffer
  <2> QED  BY <1>2, <2>3, <2>4 DEF WithNumbered, new, fo
<1> QED  BY <1>1, <1>2

LEMMA RemoveAtIs ==
  ASSUME NEW list \in Seq(Fo), NEW k \in DOMAIN list
  PROVE  /\ RemoveAt(list, k) \in Seq(Fo) /\ DOMAIN RemoveAt(list, k) = 1 .. Len(list) - 1
         /\ \A i \in 1 .. Len(list) - 1 :
              RemoveAt(list, k)[i] = IF i < k THEN list[i] ELSE list[i + 1]
<1> DEFINE len == Len(list)
           front == SubSeq(list, 1, k - 1)
           back == SubSeq(list, k + 1, len)
           new == front \o back
<1>1. /\ len \in Nat /\ DOMAIN list = 1 .. len /\ k \in 1 .. len
      /\ \A i \in 1 .. len : list[i] \in Fo
  OBVIOUS
<1>2. /\ front \in Seq(Fo) /\ Len(front) = k - 1
      /\ \A i \in 1 .. k - 1 : front[i] = list[i]
  <2>1. \A i \in 1 .. k - 1 : list[i] \in Fo
    BY <1>1
  <2> QED  BY <1>1, <2>1, SubSeqProperties
<1>3. /\ back \in Seq(Fo) /\ Len(back) = len - k
      /\ \A i \in 1 .. len - k : back[i] = list[k + i]
  <2>1. \A i \in k + 1 .. len : list[i] \in Fo
    BY <1>1
  <2>2. /\ back \in Seq(Fo)
        /\ Len(back) = IF k + 1 <= len THEN len - (k + 1) + 1 ELSE 0
        /\ \A i \in 1 .. len - (k + 1) + 1 : back[i] = list[(k + 1) + i - 1]
    BY <1>1, <2>1, SubSeqProperties
  <2> HIDE DEF back, len
  <2>3. Len(back) = len - k
    BY <1>1, <2>2
  <2>4. ASSUME NEW i \in 1 .. len - k
        PROVE  back[i] = list[k + i]
    <3>1. i \in 1 .. len - (k + 1) + 1 /\ (k + 1) + i - 1 = k + i
      BY <1>1
    <3> QED  BY <2>2, <3>1
  <2> QED  BY <2>2, <2>3, <2>4
<1> HIDE DEF front, back
<1>4. /\ new \in Seq(Fo) /\ Len(new) = Len(front) + Len(back)
      /\ \A i \in 1 .. Len(front) + Len(back) :
           new[i] = IF i <= Len(front) THEN front[i] ELSE back[i - Len(front)]
  BY <1>2, <1>3, ConcatProperties
<1> HIDE DEF new, len
<1>5. Len(front) + Len(back) = len - 1 /\ DOMAIN new = 1 .. len - 1
  BY <1>1, <1>2, <1>3, <1>4
<1>6. ASSUME NEW i \in 1 .. len - 1
      PROVE  new[i] = IF i < k THEN list[i] ELSE list[i + 1]
  <2>1. CASE i < k
    BY <1>1, <1>2, <1>4, <1>5, <2>1
  <2>2. CASE ~(i < k)
    <3>1. new[i] = back[i - (k - 1)]
      BY <1>1, <1>2, <1>4, <1>5, <2>2
    <3>2. i - (k - 1) \in 1 .. len - k /\ k + (i - (k - 1)) = i + 1
      BY <1>1, <2>2
    <3> QED  BY <1>3, <2>2, <3>1, <3>2
  <2> QED  BY <2>1, <2>2
<1> QED  BY <1>4, <1>5, <1>6 DEF RemoveAt, new, front, back, len

LEMMA RemoveAtKeeps ==
  ASSUME NEW list \in Seq(Fo), NumbersDiffer(list), NEW k \in DOMAIN list
  PROVE  RemoveAt(list, k) \in Seq(Fo) /\ NumbersDiffer(RemoveAt(list, k))
<1> DEFINE len == Len(list)
           new == RemoveAt(list, k)
<1>1. len \in Nat /\ DOMAIN list = 1 .. len /\ k \in 1 .. len
  OBVIOUS
<1>2. /\ new \in Seq(Fo) /\ DOMAIN new = 1 .. len - 1
      /\ \A i \in 1 .. len - 1 : new[i] = IF i < k THEN list[i] ELSE list[i + 1]
  BY RemoveAtIs
<1> HIDE DEF new, len
<1>3. NumbersDiffer(new)
  <2> SUFFICES ASSUME NEW i \in 1 .. len - 1, NEW j \in 1 .. len - 1,
                      new[i].fd = new[j].fd
               PROVE  i = j
    BY <1>2 DEF NumbersDiffer
  <2> DEFINE At(n) == IF n < k THEN n ELSE n + 1
  <2>1. /\ At(i) \in 1 .. len /\ At(j) \in 1 .. len
        /\ new[i] = list[At(i)] /\ new[j] = list[At(j)]
    BY <1>1, <1>2
  <2>2. At(i) = At(j)
    BY <1>1, <2>1 DEF NumbersDiffer
  <2> QED  BY <1>1, <2>2
<1> QED  BY <1>2, <1>3 DEF new

-----------------------------------------------------------------------------
(***************************************************************************)
(* The part of the type invariant that concerns the lists, and the         *)
(* difference of the numbers in them: together they are inductive.         *)
(***************************************************************************)
TableInv ==
  /\ table \in [Proc -> Seq(Fo)]
  /\ opened \in 0 .. MaxOpens
  /\ FdsDiffer

LEMMA TableInit == Init => TableInv
<1> SUFFICES ASSUME Init PROVE TableInv
  OBVIOUS
<1>1. Kept \in Nat /\ 0 \in 0 .. MaxOpens /\ Device \in File
  BY FilesAssumption DEF File, Device, Node
<1>2. Standard \in Seq(Fo) /\ DOMAIN Standard = 1 .. Kept
  <2>1. \A i \in 1 .. Kept : [fd |-> i - 1, file |-> Device] \in Fo
    BY <1>1 DEF Fo
  <2>2. Standard \in [1 .. Kept -> Fo]
    BY <2>1 DEF Standard
  <2> QED  BY <1>1, <2>2, SeqDef
<1>3. NumbersDiffer(Standard)
  BY <1>1, <1>2 DEF NumbersDiffer, Standard
<1>4. <<>> \in Seq(Fo) /\ NumbersDiffer(<<>>)
  BY DEF NumbersDiffer
<1>5. table = [p \in Proc |-> IF p = First THEN Standard ELSE <<>>] /\ opened = 0
  BY DEF Init
<1> QED  BY <1>1, <1>2, <1>3, <1>4, <1>5 DEF TableInv, FdsDiffer

(***************************************************************************)
(* A step that replaces one process's list by a sound one keeps TableInv.  *)
(***************************************************************************)
LEMMA OneListChanges ==
  ASSUME TableInv, NEW p \in Proc, NEW list \in Seq(Fo), NumbersDiffer(list),
         table' = [table EXCEPT ![p] = list], opened' \in 0 .. MaxOpens
  PROVE  TableInv'
<1>1. table' \in [Proc -> Seq(Fo)]
  BY DEF TableInv
<1>2. ASSUME NEW q \in Proc PROVE NumbersDiffer(table'[q])
  BY DEF TableInv, FdsDiffer
<1>3. FdsDiffer'
  BY <1>2 DEF FdsDiffer, NumbersDiffer
<1> QED  BY <1>1, <1>3 DEF TableInv

LEMMA ListFacts ==
  ASSUME TableInv, NEW p \in Proc
  PROVE  /\ table[p] \in Seq(Fo) /\ NumbersDiffer(table[p])
         /\ \A i \in DOMAIN table[p] : Of(p, i) \in File
         /\ Nil \in File /\ Device \in File
<1>1. table[p] \in Seq(Fo) /\ NumbersDiffer(table[p])
  BY DEF TableInv, FdsDiffer
<1>2. \A i \in DOMAIN table[p] : table[p][i] \in Fo
  BY <1>1
<1> QED  BY <1>1, <1>2 DEF Of, Fo, File

LEMMA TableStep == TableInv /\ [Next]_vars => TableInv'
<1> SUFFICES ASSUME TableInv, [Next]_vars PROVE TableInv'
  OBVIOUS
<1>u. opened \in 0 .. MaxOpens /\ MaxOpens \in Nat
  BY FilesAssumption DEF TableInv
<1>o. ASSUME NEW f \in File, OpenNode(f)
      PROVE  opened' \in 0 .. MaxOpens
  BY <1>o, <1>u DEF OpenNode
<1>1. ASSUME NEW p \in Proc, NEW f \in File, Open(p, f)
      PROVE  TableInv'
  <2>1. /\ opened' \in 0 .. MaxOpens
        /\ table' = [table EXCEPT ![p] = WithNew(table[p], f)]
    BY <1>1, <1>o DEF Open
  <2> QED  BY <2>1, ListFacts, WithNewKeeps, OneListChanges
<1>2. ASSUME NEW p \in Proc, NEW f \in File, OpenNoDirectory(p, f)
      PROVE  TableInv'
  <2>1. /\ opened' \in 0 .. MaxOpens
        /\ table' = [table EXCEPT ![p] = WithNew(table[p], Nil)]
    BY <1>2, <1>o DEF OpenNoDirectory, Lose
  <2> QED  BY <2>1, ListFacts, WithNewKeeps, OneListChanges
<1>3. ASSUME NEW p \in Proc, NEW f \in File, OpenForNothing(p, f)
      PROVE  TableInv'
  <2>1. opened' \in 0 .. MaxOpens /\ table' = table
    BY <1>3, <1>o DEF OpenForNothing, Lose
  <2> QED  BY <2>1 DEF TableInv, FdsDiffer, NumbersDiffer
<1>4. ASSUME NEW p \in Proc, OpenPipe(p)
      PROVE  TableInv'
  <2>1. /\ opened' \in 0 .. MaxOpens
        /\ table' = [table EXCEPT ![p] = WithNew(WithNew(table[p], Device), Device)]
    BY <1>4, <1>u DEF OpenPipe
  <2>2. /\ WithNew(table[p], Device) \in Seq(Fo)
        /\ NumbersDiffer(WithNew(table[p], Device))
    BY ListFacts, WithNewKeeps
  <2> QED  BY <2>1, <2>2, ListFacts, WithNewKeeps, OneListChanges
<1>5. ASSUME NEW p \in Proc, NEW i \in DOMAIN table[p], Close(p, i)
      PROVE  TableInv'
  <2>1. /\ opened' \in 0 .. MaxOpens
        /\ table' = [table EXCEPT ![p] = RemoveAt(table[p], i)]
    BY <1>5, <1>u DEF Close
  <2> QED  BY <2>1, ListFacts, RemoveAtKeeps, OneListChanges
<1>6. ASSUME NEW p \in Proc, NEW i \in DOMAIN table[p], Dup(p, i)
      PROVE  TableInv'
  <2>1. /\ opened' \in 0 .. MaxOpens
        /\ table' = [table EXCEPT ![p] = WithNew(table[p], Of(p, i))]
    BY <1>6, <1>u DEF Dup
  <2> QED  BY <2>1, ListFacts, WithNewKeeps, OneListChanges
<1>7. ASSUME NEW p \in Proc, NEW i \in DOMAIN table[p], NEW n \in Targets,
             Dup3(p, i, n)
      PROVE  TableInv'
  <2> DEFINE same == {j \in DOMAIN table[p] : table[p][j].fd = n}
  <2>1. n \in Nat /\ opened' \in 0 .. MaxOpens
    BY <1>7, <1>u, FilesAssumption DEF Dup3
  <2>2. CASE same = {}
    <3>1. table' = [table EXCEPT ![p] = WithNumbered(table[p], n, Of(p, i))]
      BY <1>7, <2>2 DEF Dup3
    <3> QED  BY <2>1, <3>1, ListFacts, WithNumberedKeeps, OneListChanges
  <2>3. CASE same # {}
    <3> DEFINE list == RemoveAt(table[p], Min(same))
    <3>1. table' = [table EXCEPT ![p] = WithNumbered(list, n, Of(p, i))]
      BY <1>7, <2>3 DEF Dup3
    <3>2. same \subseteq Nat
      BY ListFacts
    <3>3. Min(same) \in DOMAIN table[p]
      BY <2>3, <3>2, MinIsLeast
    <3>4. list \in Seq(Fo) /\ NumbersDiffer(list)
      BY <3>3, ListFacts, RemoveAtKeeps
    <3> HIDE DEF list, same
    <3> QED  BY <2>1, <3>1, <3>4, ListFacts, WithNumberedKeeps, OneListChanges
  <2> QED  BY <2>2, <2>3
<1>8. ASSUME NEW p \in Proc, NEW q \in Proc, Clone(p, q)
      PROVE  TableInv'
  <2>1. opened' \in 0 .. MaxOpens /\ table' = [table EXCEPT ![q] = table[p]]
    BY <1>8, <1>u DEF Clone
  <2> QED  BY <2>1, ListFacts, OneListChanges
<1>9. ASSUME NEW p \in Proc, Destroy(p)
      PROVE  TableInv'
  <2>1. opened' \in 0 .. MaxOpens /\ table' = [table EXCEPT ![p] = <<>>]
    BY <1>9, <1>u DEF Destroy
  <2>2. <<>> \in Seq(Fo) /\ NumbersDiffer(<<>>)
    BY DEF NumbersDiffer
  <2> QED  BY <2>1, <2>2, OneListChanges
<1>10. ASSUME UNCHANGED <<table, opened>>
       PROVE  TableInv'
  BY <1>10 DEF TableInv, FdsDiffer, NumbersDiffer
<1>11. ASSUME NEW p \in Proc, NEW i \in DOMAIN table[p], Mmap(p, i)
       PROVE  TableInv'
  BY <1>10, <1>11 DEF Mmap
<1>12. ASSUME NEW p \in Proc, NEW i \in DOMAIN table[p], MmapRefused(p, i)
       PROVE  TableInv'
  BY <1>10, <1>12 DEF MmapRefused
<1>13. ASSUME NEW p \in Proc, NEW c \in Node, Munmap(p, c)
       PROVE  TableInv'
  BY <1>10, <1>13 DEF Munmap
<1>15. ASSUME NEW p \in Proc, NEW i \in DOMAIN table[p], NoParent(p, i)
       PROVE  TableInv'
  BY <1>10, <1>15 DEF NoParent
<1>14. ASSUME UNCHANGED vars
       PROVE  TableInv'
  BY <1>10, <1>14 DEF vars
<1> QED
  BY <1>1, <1>2, <1>3, <1>4, <1>5, <1>6, <1>7, <1>8, <1>9, <1>11, <1>12, <1>13,
     <1>14, <1>15 DEF Next

LEMMA TableInvariance == Spec => []TableInv
<1> QED  BY TableInit, TableStep, PTL DEF Spec

(***************************************************************************)
(* No process ever has two descriptors of one number: create_flobj and     *)
(* add_fo_tolist, with find_sui_fd, give a number that is free whatever    *)
(* closes, duplicates, dup3s and clones came before.                       *)
(***************************************************************************)
THEOREM DescriptorsDiffer == Spec => []FdsDiffer
<1>1. TableInv => FdsDiffer
  BY DEF TableInv
<1> QED  BY <1>1, TableInvariance, PTL

(***************************************************************************)
(* find_sui_fd always returns the smallest number that is free, although   *)
(* its array of marks may be shorter than the numbers in use.              *)
(***************************************************************************)
THEOREM SmallestIsFound == Spec => []SmallestFd
<1>1. TableInv => SmallestFd
  <2> SUFFICES ASSUME TableInv, NEW p \in Proc
               PROVE  FindSuiFd(table[p]) = Min(0 .. Len(table[p]) \ Fds(table[p]))
    BY DEF SmallestFd
  <2>1. table[p] \in Seq(Fo)
    BY DEF TableInv
  <2> QED  BY <2>1, SuitableIsSmallest
<1> QED  BY <1>1, TableInvariance, PTL

-----------------------------------------------------------------------------
(***************************************************************************)
(* The nodes.  Older and Newer say of a link that it goes to the next      *)
(* older, or the next newer, of the nodes there are.                       *)
(***************************************************************************)
Older(S, c, x) == /\ x \in S \cup {Nil} /\ x < c
                  /\ \A d \in S : d < c => d <= x

Newer(S, c, x) == /\ x \in S \cup {Nil}
                  /\ x = Nil => \A d \in S : d <= c
                  /\ x # Nil => x > c /\ \A d \in S : d > c => x <= d

Linked(S, child, next, pre) ==
  /\ Older(S, Device, child)
  /\ \A c \in S : Older(S, c, next[c]) /\ Newer(S, c, pre[c])

\* the chain a node is of
Owner(n) == IF n \in Chain THEN n ELSE n - MaxOpens

Positive(t) == \A n \in t.files : t.count[n] >= 1

NodeInv(t, o) ==
  /\ t \in Tree
  /\ \A n \in t.files : Owner(n) <= o
  /\ \A c \in Chain : /\ c \in t.files => Top(t, c) \in t.files
                      /\ Folder(c) \in t.files => t.nested[c]
                      /\ c > o => t.pre[c] = Nil /\ t.copied[c] = 0
  /\ t.broken # "no" => t.files = {}
  /\ Positive(t)
  /\ Linked(Tops(t), t.child, t.next, t.pre)

LEMMA TreeIs ==
  ASSUME NEW t \in Tree
  PROVE  /\ t.nested \in [Chain -> BOOLEAN] /\ t.count \in [Node -> Nat]
         /\ t.copied \in [Chain -> Nat] /\ t.files \subseteq Node /\ Tops(t) \subseteq Chain
         /\ t.child \in Chain \cup {Nil} /\ t.next \in [Chain -> Chain \cup {Nil}]
         /\ t.pre \in [Chain -> Chain \cup {Nil}] /\ t.broken \in {"no", "freed", "null"}
BY DEF Tree, Tops

LEMMA ChainIs ==
  /\ MaxOpens \in Nat /\ Device = 2 * MaxOpens + 1 /\ Nil = 0 /\ Device \notin Chain
  /\ Nil \notin Chain /\ Device # Nil
  /\ \A c : c \in Chain <=> c \in Nat /\ 1 <= c /\ c <= MaxOpens
BY FilesAssumption DEF Chain, Device, Nil

LEMMA NodeIs ==
  /\ Chain \subseteq Node /\ Node \subseteq Nat /\ Device \notin Node /\ Nil \notin Node
  /\ \A c \in Chain : /\ Folder(c) \in Node \ Chain /\ Folder(c) # c
                      /\ Owner(c) = c /\ Owner(Folder(c)) = c
                      /\ \A d \in Chain : Folder(c) = Folder(d) => c = d
  /\ \A n \in Node : /\ Owner(n) \in Chain
                     /\ n = Owner(n) \/ n = Folder(Owner(n))
                     /\ n \notin Chain => n = Folder(Owner(n))
BY FilesAssumption DEF Chain, Node, Device, Nil, Folder, Owner

LEMMA UncountedIs ==
  /\ Uncounted \in [Node -> Nat] /\ \A n \in Node : Uncounted[n] = 0
  /\ Unlinks \in [Chain -> Chain \cup {Nil}] /\ \A c \in Chain : Unlinks[c] = Nil
BY DEF Uncounted, Unlinks, Nil

HasBroken(u, t) ==
  /\ u.files = {} /\ u.copied = t.copied /\ u.nested = t.nested
  /\ u.broken # "no" /\ (t.broken # "no" => u.broken = t.broken)

LEMMA BrokenIs ==
  ASSUME NEW t, NEW o, NodeInv(t, o), NEW why \in {"freed", "null"}
  PROVE  /\ NodeInv(Broken(t, why), o) /\ HasBroken(Broken(t, why), t)
         /\ t.broken = "no" => Broken(t, why).broken = why
<1> DEFINE u == Broken(t, why)
<1>0. t \in Tree /\ \A c \in Chain : c > o => t.copied[c] = 0
  BY DEF NodeInv
<1>1. /\ u.nested = t.nested /\ u.count = Uncounted /\ u.copied = t.copied
      /\ u.files = {} /\ u.child = Nil /\ u.next = Unlinks
      /\ u.pre = Unlinks /\ u.broken = IF t.broken = "no" THEN why ELSE t.broken
  BY <1>0 DEF Broken, Tree
<1>2. u \in Tree
  <2> DEFINE b == IF t.broken = "no" THEN why ELSE t.broken
  <2>1. b \in {"no", "freed", "null"}
    BY <1>0, TreeIs
  <2>2. u = [t EXCEPT !.files = {}, !.count = Uncounted, !.child = Nil, !.next = Unlinks,
                      !.pre = Unlinks, !.broken = b]
    BY DEF Broken
  <2> HIDE DEF b, u
  <2> QED  BY <1>0, <2>1, <2>2, UncountedIs DEF Tree
<1> HIDE DEF u
<1>3. Linked(Tops(u), u.child, u.next, u.pre)
  <2>1. Older({}, Device, Nil)
    BY ChainIs DEF Older
  <2>2. Tops(u) = {}
    BY <1>1 DEF Tops
  <2> QED  BY <1>1, <2>1, <2>2 DEF Linked
<1>4. \A c \in Chain : u.pre[c] = Nil
  BY <1>1, UncountedIs
<1>5. NodeInv(u, o)
  BY <1>0, <1>1, <1>2, <1>3, <1>4 DEF NodeInv, Positive
<1>6. HasBroken(u, t) /\ (t.broken = "no" => u.broken = why)
  BY <1>1 DEF HasBroken
<1> QED  BY <1>5, <1>6 DEF u

(***************************************************************************)
(* EXT4::open puts the newest node in front of its brothers.               *)
(***************************************************************************)
LEMMA NewLink ==
  ASSUME NEW S \in SUBSET Chain, NEW child, NEW next, NEW pre, NEW c \in Chain,
         Linked(S, child, next, pre), \A d \in S : d < c, pre[c] = Nil,
         NEW Next1, NEW Pre1, Next1[c] = child, \A d \in S : Next1[d] = next[d],
         Pre1[c] = Nil, \A d \in S : Pre1[d] = IF d = child THEN c ELSE pre[d]
  PROVE  Linked(S \cup {c}, c, Next1, Pre1)
<1> DEFINE T == S \cup {c}
<1>1. c \in Nat /\ c < Device /\ Device \in Nat /\ c # Nil
  BY ChainIs
<1>2. \A d \in S : d \in Nat /\ d < c /\ d < Device /\ d # Nil
  BY ChainIs
<1>3. /\ child \in S \cup {Nil} /\ child < c /\ child \in Nat
      /\ \A d \in S : d <= child
  BY <1>1, <1>2, ChainIs DEF Linked, Older
<1>4. Older(T, Device, c)
  BY <1>1, <1>2 DEF Older
<1>5. Older(T, c, Next1[c]) /\ Newer(T, c, Pre1[c])
  BY <1>1, <1>2, <1>3 DEF Older, Newer
<1>6. ASSUME NEW d \in S PROVE Older(T, d, Next1[d]) /\ Newer(T, d, Pre1[d])
  <2>1. Older(S, d, next[d]) /\ Newer(S, d, pre[d]) /\ child # Nil /\ child \in S
    BY <1>2, <1>3, ChainIs DEF Linked
  <2>2. Older(T, d, Next1[d])
    BY <1>1, <1>2, <2>1 DEF Older
  <2>3. CASE d = child
    <3>1. Pre1[d] = c
      BY <2>3
    <3> QED  BY <1>1, <1>2, <1>3, <2>2, <2>3, <3>1 DEF Newer
  <2>4. CASE d # child
    <3> DEFINE x == pre[d]
    <3>1. Pre1[d] = x
      BY <2>4
    <3>2. Newer(S, d, x)
      BY <2>1
    <3> HIDE DEF x
    <3>3. x # Nil
      BY <1>2, <1>3, <2>1, <2>4, <3>2 DEF Newer
    <3>4. x \in S /\ x > d /\ \A e \in S : e > d => x <= e
      BY <3>2, <3>3 DEF Newer
    <3>5. x \in Nat /\ x < c
      BY <1>2, <3>4
    <3>6. Newer(T, d, x)
      BY <1>1, <3>3, <3>4, <3>5 DEF Newer
    <3> QED  BY <2>2, <3>1, <3>6
  <2> QED  BY <2>3, <2>4
<1> QED  BY <1>4, <1>5, <1>6 DEF Linked

HasNew(u, t, c, nested) ==
  /\ u \in Tree
  /\ u.nested = [t.nested EXCEPT ![c] = nested]
  /\ u.files = t.files \cup (IF nested THEN {c, Folder(c)} ELSE {c})
  /\ \A n \in Node : u.count[n] = IF n = c \/ (nested /\ n = Folder(c)) THEN 1 ELSE t.count[n]
  /\ u.copied = t.copied
  /\ u.child = c /\ u.next = [t.next EXCEPT ![c] = t.child]
  /\ u.pre = [d \in Chain |-> IF d = t.child THEN c ELSE t.pre[d]]
  /\ u.broken = t.broken

LEMMA OpenedIs ==
  ASSUME NEW t \in Tree, NEW c \in Chain, NEW nested \in BOOLEAN
  PROVE  HasNew(Opened(t, c, nested), t, c, nested)
<1> DEFINE w == [t EXCEPT !.nested[c] = nested]
           path == Path(w, c)
           files == t.files \cup path
           count == [n \in Node |-> IF n \in path THEN 1 ELSE t.count[n]]
           back == [d \in Chain |-> IF d = t.child THEN c ELSE t.pre[d]]
           child == t.child
           u == [w EXCEPT !.files = files, !.count = count, !.child = c,
                          !.next[c] = child, !.pre = back]
<1>1. /\ w \in Tree /\ w.nested = [t.nested EXCEPT ![c] = nested] /\ w.nested[c] = nested
      /\ w.files = t.files /\ w.count = t.count /\ w.copied = t.copied /\ w.child = t.child
      /\ w.next = t.next /\ w.pre = t.pre /\ w.broken = t.broken
  BY DEF Tree
<1> HIDE DEF w
<1>2. Opened(t, c, nested) = u
  <2>1. [w EXCEPT !.files = @ \cup Path(w, c),
                  !.count = [n \in Node |-> IF n \in Path(w, c) THEN 1 ELSE @[n]],
                  !.child = c, !.next[c] = t.child,
                  !.pre = [d \in Chain |-> IF d = t.child THEN c ELSE @[d]]] = u
    BY <1>1
  <2> HIDE DEF u
  <2> QED  BY <2>1 DEF Opened, w
<1>3. path = IF nested THEN {c, Folder(c)} ELSE {c}
  BY <1>1 DEF Path, Top
<1> HIDE DEF path
<1>4. files \subseteq Node /\ path \subseteq Node
  BY <1>3, NodeIs, TreeIs
<1>5. count \in [Node -> Nat] /\ back \in [Chain -> Chain \cup {Nil}] /\ child \in Chain \cup {Nil}
  BY TreeIs
<1>6. \A n \in Node : count[n] = IF n = c \/ (nested /\ n = Folder(c)) THEN 1 ELSE t.count[n]
  BY <1>3
<1> HIDE DEF files, count, back, child
<1>7. /\ u \in Tree
      /\ u.nested = w.nested /\ u.files = files /\ u.count = count /\ u.copied = w.copied
      /\ u.child = c /\ u.next = [w.next EXCEPT ![c] = child] /\ u.pre = back
      /\ u.broken = w.broken
  BY <1>1, <1>4, <1>5 DEF Tree
<1> HIDE DEF u
<1>8. u.files = t.files \cup (IF nested THEN {c, Folder(c)} ELSE {c})
  BY <1>3, <1>7 DEF files
<1>9. u.next = [t.next EXCEPT ![c] = t.child]
      /\ u.pre = [d \in Chain |-> IF d = t.child THEN c ELSE t.pre[d]]
  BY <1>1, <1>7 DEF child, back
<1>10. HasNew(u, t, c, nested)
  BY <1>1, <1>6, <1>7, <1>8, <1>9 DEF HasNew
<1> QED  BY <1>2, <1>10

LEMMA OpenedKeeps ==
  ASSUME NEW t, NEW o \in Nat, NEW nested \in BOOLEAN, NodeInv(t, o), t.broken = "no",
         o + 1 \in Chain
  PROVE  NodeInv(Opened(t, o + 1, nested), o + 1)
<1> DEFINE c == o + 1
           u == Opened(t, c, nested)
<1>1. /\ t \in Tree /\ Positive(t) /\ Linked(Tops(t), t.child, t.next, t.pre)
      /\ \A n \in t.files : Owner(n) <= o
      /\ \A d \in Chain : /\ d \in t.files => Top(t, d) \in t.files
                          /\ Folder(d) \in t.files => t.nested[d]
                          /\ d > o => t.pre[d] = Nil /\ t.copied[d] = 0
  BY DEF NodeInv
<1>2. c \in Chain /\ c \in Nat /\ c = o + 1 /\ c > o /\ ~(c <= o)
  OBVIOUS
<1>3. HasNew(u, t, c, nested)
  BY <1>1, <1>2, OpenedIs
<1> HIDE DEF c, u
<1>4. /\ u \in Tree
      /\ u.nested = [t.nested EXCEPT ![c] = nested]
      /\ u.files = t.files \cup (IF nested THEN {c, Folder(c)} ELSE {c})
      /\ \A n \in Node : u.count[n] = IF n = c \/ (nested /\ n = Folder(c)) THEN 1 ELSE t.count[n]
      /\ u.copied = t.copied
      /\ u.child = c /\ u.next = [t.next EXCEPT ![c] = t.child]
      /\ u.pre = [d \in Chain |-> IF d = t.child THEN c ELSE t.pre[d]]
      /\ u.broken = t.broken
  BY <1>3 DEF HasNew
<1>5. c \notin t.files /\ Folder(c) \notin t.files
  BY <1>1, <1>2, NodeIs
<1>6. ASSUME NEW d \in Chain, d # c
      PROVE  /\ u.nested[d] = t.nested[d] /\ Top(u, d) = Top(t, d)
             /\ d \in u.files <=> d \in t.files
             /\ Folder(d) \in u.files <=> Folder(d) \in t.files
  <2>1. u.nested[d] = t.nested[d]
    BY <1>1, <1>2, <1>4, <1>6, TreeIs
  <2> QED  BY <1>2, <1>4, <1>6, <2>1, NodeIs DEF Top
<1>7. u.nested[c] = nested /\ Top(u, c) \in u.files
  <2>1. u.nested[c] = nested
    BY <1>1, <1>2, <1>4, TreeIs
  <2> QED  BY <1>4, <2>1 DEF Top
<1>8. Tops(u) = Tops(t) \cup {c} /\ Tops(t) \subseteq Chain /\ c \notin Tops(t)
  <2>1. c \notin Tops(t)
    BY <1>5 DEF Tops, Top
  <2>2. ASSUME NEW d \in Chain, d # c PROVE d \in Tops(u) <=> d \in Tops(t)
    BY <1>6, <2>2 DEF Tops, Top
  <2> QED  BY <1>2, <1>7, <2>1, <2>2 DEF Tops
<1>9. \A d \in Tops(t) : d <= o /\ d < c /\ d # c /\ d \in Chain
  <2> SUFFICES ASSUME NEW d \in Tops(t) PROVE d <= o
    BY <1>2, <1>8, ChainIs
  <2>1. d \in Chain /\ Top(t, d) \in t.files
    BY DEF Tops
  <2>2. Owner(Top(t, d)) = d
    BY <2>1, NodeIs DEF Top
  <2> QED  BY <1>1, <2>1, <2>2
<1>10. t.child # c /\ t.child <= o
  <2>1. t.child \in Tops(t) \cup {Nil}
    BY <1>1 DEF Linked, Older
  <2> QED  BY <1>2, <1>9, <2>1, ChainIs
<1>11. Linked(Tops(u), u.child, u.next, u.pre)
  <2>1. u.next[c] = t.child /\ \A d \in Tops(t) : u.next[d] = t.next[d]
    BY <1>1, <1>2, <1>4, <1>9, TreeIs
  <2>2. u.pre[c] = Nil /\ t.pre[c] = Nil
        /\ \A d \in Tops(t) : u.pre[d] = IF d = t.child THEN c ELSE t.pre[d]
    BY <1>1, <1>2, <1>4, <1>9, <1>10
  <2>3. Linked(Tops(t) \cup {c}, c, u.next, u.pre)
    BY <1>1, <1>2, <1>8, <1>9, <2>1, <2>2, NewLink
  <2> QED  BY <1>4, <1>8, <2>3
<1>12. Positive(u)
  <2> SUFFICES ASSUME NEW n \in u.files PROVE u.count[n] >= 1
    BY DEF Positive
  <2>1. n \in Node
    BY <1>4, TreeIs
  <2>2. CASE n \in t.files
    <3>1. n # c /\ n # Folder(c) /\ t.count[n] >= 1
      BY <1>1, <1>5, <2>2 DEF Positive
    <3> QED  BY <1>4, <2>1, <3>1
  <2>3. CASE n \notin t.files
    <3>1. n = c \/ (nested /\ n = Folder(c))
      BY <1>4, <2>3
    <3> QED  BY <1>4, <2>1, <3>1
  <2> QED  BY <2>2, <2>3
<1>13. \A n \in u.files : Owner(n) <= c
  <2> SUFFICES ASSUME NEW n \in u.files PROVE Owner(n) <= c
    OBVIOUS
  <2>1. CASE n \in t.files
    <3>1. Owner(n) <= o /\ Owner(n) \in Chain
      BY <1>1, <2>1, NodeIs, TreeIs
    <3> QED  BY <1>2, <3>1, ChainIs
  <2>2. CASE n \notin t.files
    <3>1. n = c \/ n = Folder(c)
      BY <1>4, <2>2
    <3>2. Owner(n) = c
      BY <1>2, <3>1, NodeIs
    <3> QED  BY <1>2, <3>2
  <2> QED  BY <2>1, <2>2
<1>14. ASSUME NEW d \in Chain
       PROVE  /\ d \in u.files => Top(u, d) \in u.files
              /\ Folder(d) \in u.files => u.nested[d]
  <2>1. CASE d = c
    BY <1>4, <1>5, <1>7, <2>1, NodeIs
  <2>2. CASE d # c
    <3>1. Top(u, d) \in u.files <=> Top(t, d) \in t.files
      BY <1>6, <2>2 DEF Top
    <3> QED  BY <1>1, <1>6, <2>2, <3>1
  <2> QED  BY <2>1, <2>2
<1>15. \A d \in Chain : d > c => u.pre[d] = Nil /\ u.copied[d] = 0
  <2> SUFFICES ASSUME NEW d \in Chain, d > c PROVE u.pre[d] = Nil /\ u.copied[d] = 0
    OBVIOUS
  <2>1. d > o /\ d # t.child
    BY <1>2, <1>10, ChainIs
  <2> QED  BY <1>1, <1>4, <2>1
<1>16. u.broken = "no"
  BY <1>4
<1> QED  BY <1>4, <1>11, <1>12, <1>13, <1>14, <1>15, <1>16 DEF NodeInv, u, c

(***************************************************************************)
(* duplicate_fo and VFSM::open count up.                                   *)
(***************************************************************************)
LEMMA SameNodes ==
  ASSUME NEW t, NEW o, NodeInv(t, o), NEW u \in Tree,
         u.nested = t.nested, u.files = t.files, u.child = t.child, u.next = t.next,
         u.pre = t.pre, u.broken = t.broken, Positive(u),
         \A c \in Chain : c > o => u.copied[c] = 0
  PROVE  NodeInv(u, o)
<1>1. \A c \in Chain : Top(u, c) = Top(t, c)
  BY DEF Top
<1>2. Tops(u) = Tops(t)
  BY <1>1 DEF Tops
<1> QED  BY <1>1, <1>2 DEF NodeInv

HasDuplicated(u, t, o, f) ==
  /\ NodeInv(u, o)
  /\ f = Device => u = t
  /\ f # Device /\ f \notin t.files => HasBroken(u, t)
  /\ f \in Node /\ f \notin t.files /\ t.broken = "no" => u.broken = "freed"
  /\ f \notin Node /\ f # Device /\ t.broken = "no" => u.broken = "null"
  /\ f \in t.files =>
       /\ u.nested = t.nested /\ u.broken = t.broken /\ u.files = t.files
       /\ \A n \in Node : u.count[n] = IF n = f THEN t.count[n] + 1 ELSE t.count[n]
       /\ \A c \in Chain : u.copied[c] = IF c = f /\ t.nested[c] THEN t.copied[c] + 1
                                                                 ELSE t.copied[c]

LEMMA DuplicatedIs ==
  ASSUME NEW t, NEW o \in Nat, NEW f \in File, NodeInv(t, o)
  PROVE  HasDuplicated(Duplicated(t, f), t, o, f)
<1> DEFINE u == Duplicated(t, f)
<1>1. t \in Tree /\ t.files \subseteq Node /\ f \in Node \cup {Nil, Device}
  BY TreeIs DEF NodeInv, File
<1>2. ASSUME f = Device PROVE HasDuplicated(u, t, o, f)
  <2>1. u = t /\ f \notin t.files /\ f \notin Node
    BY <1>1, <1>2, NodeIs DEF Duplicated
  <2> QED  BY <1>2, <2>1 DEF HasDuplicated
<1>3. ASSUME f = Nil PROVE HasDuplicated(u, t, o, f)
  <2>1. f \notin Node /\ f # Device /\ f \notin t.files /\ u = Broken(t, "null")
    BY <1>1, <1>3, NodeIs, ChainIs DEF Duplicated
  <2> HIDE DEF u
  <2> QED  BY <2>1, BrokenIs DEF HasDuplicated
<1>4. ASSUME f \in Node, f \notin t.files PROVE HasDuplicated(u, t, o, f)
  <2>1. f # Device /\ f # Nil /\ u = Broken(t, "freed")
    BY <1>4, NodeIs DEF Duplicated
  <2> HIDE DEF u
  <2> QED  BY <1>4, <2>1, BrokenIs DEF HasDuplicated
<1>5. ASSUME f \in t.files PROVE HasDuplicated(u, t, o, f)
  <2> DEFINE n == t.count[f] + 1
             v == [t EXCEPT !.count[f] = n]
             k == t.copied[f] + 1
             w == [v EXCEPT !.copied[f] = k]
  <2>1. f \in Node /\ f # Device /\ f # Nil /\ t.count[f] \in Nat /\ n \in Nat
        /\ t.count \in [Node -> Nat] /\ t.copied \in [Chain -> Nat]
    BY <1>1, <1>5, TreeIs, NodeIs
  <2>2. u = IF f \in Chain /\ t.nested[f] THEN w ELSE v
    <3>1. v.copied = t.copied /\ v = [t EXCEPT !.count[f] = @ + 1]
      BY <1>1, <2>1 DEF Tree
    <3>2. w = [v EXCEPT !.copied[f] = @ + 1]
      BY <3>1, <2>1 DEF Tree
    <3> HIDE DEF v, w
    <3> QED  BY <1>5, <2>1, <3>1, <3>2 DEF Duplicated
  <2> HIDE DEF u
  <2>3. /\ v \in Tree /\ v.nested = t.nested /\ v.files = t.files /\ v.child = t.child
        /\ v.next = t.next /\ v.pre = t.pre /\ v.broken = t.broken
        /\ v.count = [t.count EXCEPT ![f] = n] /\ v.copied = t.copied
    BY <1>1, <2>1 DEF Tree
  <2> HIDE DEF v, n
  <2>4. ASSUME f \in Chain
        PROVE  /\ w \in Tree /\ w.nested = t.nested /\ w.files = t.files /\ w.child = t.child
               /\ w.next = t.next /\ w.pre = t.pre /\ w.broken = t.broken
               /\ w.count = v.count /\ w.copied = [t.copied EXCEPT ![f] = k]
    <3>1. k \in Nat
      BY <2>1, <2>4
    <3> HIDE DEF k
    <3> QED  BY <2>3, <2>4, <3>1 DEF Tree
  <2> HIDE DEF w
  <2>5. /\ u \in Tree /\ u.nested = t.nested /\ u.files = t.files /\ u.child = t.child
        /\ u.next = t.next /\ u.pre = t.pre /\ u.broken = t.broken
        /\ u.count = [t.count EXCEPT ![f] = n]
        /\ u.copied = IF f \in Chain /\ t.nested[f] THEN [t.copied EXCEPT ![f] = k] ELSE t.copied
    BY <2>2, <2>3, <2>4
  <2>6. \A m \in Node : u.count[m] = IF m = f THEN t.count[m] + 1 ELSE t.count[m]
    BY <2>1, <2>5 DEF n
  <2>7. \A c \in Chain : u.copied[c] = IF c = f /\ t.nested[c] THEN t.copied[c] + 1
                                                              ELSE t.copied[c]
    BY <2>1, <2>5 DEF k
  <2>8. Positive(u)
    <3> SUFFICES ASSUME NEW m \in t.files PROVE u.count[m] >= 1
      BY <2>5 DEF Positive
    <3>1. m \in Node /\ t.count[m] >= 1 /\ t.count[m] \in Nat
      BY <1>1, <2>1 DEF NodeInv, Positive
    <3> QED  BY <2>6, <3>1
  <2>9. \A c \in Chain : c > o => u.copied[c] = 0
    <3> SUFFICES ASSUME NEW c \in Chain, c > o PROVE u.copied[c] = 0
      OBVIOUS
    <3>1. c # f
      <4> SUFFICES ASSUME c = f PROVE FALSE
        OBVIOUS
      <4>1. Owner(f) = c /\ Owner(f) <= o
        BY <1>5, NodeIs DEF NodeInv
      <4> QED  BY <4>1, ChainIs
    <3> QED  BY <2>7, <3>1 DEF NodeInv
  <2>10. NodeInv(u, o)
    BY <2>5, <2>8, <2>9, SameNodes
  <2> QED  BY <1>5, <2>1, <2>5, <2>6, <2>7, <2>10 DEF HasDuplicated
<1> QED  BY <1>1, <1>2, <1>3, <1>4, <1>5

LEMMA PathIs ==
  ASSUME NEW t \in Tree, NEW f \in Node
  PROVE  /\ Path(t, f) \subseteq Node /\ f \in Path(t, f)
         /\ f \in Chain => Path(t, f) = IF t.nested[f] THEN {f, Folder(f)} ELSE {f}
         /\ f \notin Chain => Path(t, f) = {f}
BY NodeIs DEF Path, Top

HasReopened(u, t, o, f) ==
  /\ NodeInv(u, o)
  /\ f \notin t.files => HasBroken(u, t) /\ (t.broken = "no" => u.broken = "freed")
  /\ f \in t.files =>
       /\ u.nested = t.nested /\ u.broken = t.broken /\ u.files = t.files
       /\ u.copied = t.copied
       /\ \A n \in Node : u.count[n] = IF n \in Path(t, f) THEN t.count[n] + 1 ELSE t.count[n]

LEMMA ReopenedIs ==
  ASSUME NEW t, NEW o \in Nat, NEW f \in Node, NodeInv(t, o)
  PROVE  HasReopened(Reopened(t, f), t, o, f)
<1> DEFINE u == Reopened(t, f)
<1>1. t \in Tree /\ t.files \subseteq Node /\ t.count \in [Node -> Nat]
  BY TreeIs DEF NodeInv
<1>2. ASSUME f \notin t.files PROVE HasReopened(u, t, o, f)
  <2>1. u = Broken(t, "freed")
    BY <1>2 DEF Reopened
  <2> HIDE DEF u
  <2> QED  BY <1>2, <2>1, BrokenIs DEF HasReopened
<1>3. ASSUME f \in t.files PROVE HasReopened(u, t, o, f)
  <2> DEFINE p == Path(t, f)
             count == [n \in Node |-> IF n \in p THEN t.count[n] + 1 ELSE t.count[n]]
             v == [t EXCEPT !.count = count]
  <2>1. u = v
    BY <1>1, <1>3 DEF Reopened, Tree
  <2>2. count \in [Node -> Nat]
        /\ \A n \in Node : count[n] = IF n \in p THEN t.count[n] + 1 ELSE t.count[n]
    BY <1>1
  <2> HIDE DEF u, count, p
  <2>3. /\ v \in Tree /\ v.nested = t.nested /\ v.files = t.files /\ v.child = t.child
        /\ v.next = t.next /\ v.pre = t.pre /\ v.broken = t.broken
        /\ v.count = count /\ v.copied = t.copied
    BY <1>1, <2>2 DEF Tree
  <2> HIDE DEF v
  <2>4. Positive(v)
    <3> SUFFICES ASSUME NEW m \in t.files PROVE v.count[m] >= 1
      BY <2>3 DEF Positive
    <3>1. m \in Node /\ t.count[m] >= 1 /\ t.count[m] \in Nat
      BY <1>1 DEF NodeInv, Positive
    <3> QED  BY <2>2, <2>3, <3>1
  <2>5. NodeInv(v, o)
    <3>1. \A c \in Chain : c > o => v.copied[c] = 0
      BY <2>3 DEF NodeInv
    <3> QED  BY <2>3, <2>4, <3>1, SameNodes
  <2> QED  BY <1>3, <2>1, <2>2, <2>3, <2>5 DEF HasReopened, p
<1> QED  BY <1>2, <1>3

(***************************************************************************)
(* VFSM::close mends the links of the brothers of a node it takes away.    *)
(***************************************************************************)
IsMended(S, child, next, pre, c, Child1, Next1, Pre1) ==
  /\ Child1 = IF child = c THEN next[c] ELSE child
  /\ \A d \in S \ {c} : Next1[d] = IF child # c /\ d = pre[c] THEN next[c] ELSE next[d]
  /\ \A d \in S \ {c} : Pre1[d] = IF next[c] # Nil /\ d = next[c] THEN pre[c] ELSE pre[d]

LEMMA CutLink ==
  ASSUME NEW S \in SUBSET Chain, NEW child, NEW next, NEW pre, NEW c \in S,
         Linked(S, child, next, pre), NEW Child1, NEW Next1, NEW Pre1,
         IsMended(S, child, next, pre, c, Child1, Next1, Pre1)
  PROVE  Linked(S \ {c}, Child1, Next1, Pre1)
<1>i. /\ Child1 = IF child = c THEN next[c] ELSE child
      /\ \A d \in S \ {c} : Next1[d] = IF child # c /\ d = pre[c] THEN next[c] ELSE next[d]
      /\ \A d \in S \ {c} : Pre1[d] = IF next[c] # Nil /\ d = next[c] THEN pre[c] ELSE pre[d]
  BY DEF IsMended
<1> DEFINE T == S \ {c}
           below == next[c]
           above == pre[c]
<1>1. \A d \in S : d \in Nat /\ d # Nil /\ d < Device
  BY ChainIs
<1>2. Device \in Nat /\ Nil \in Nat /\ Nil = 0
  BY ChainIs
<1>3. child \in S \cup {Nil} /\ (\A d \in S : d <= child) /\ child \in Nat
  BY <1>1, <1>2 DEF Linked, Older
<1>4. Older(S, c, below) /\ Newer(S, c, above)
  BY DEF Linked
<1> HIDE DEF below, above
<1>5. below \in S \cup {Nil} /\ below < c /\ below \in Nat /\ \A d \in S : d < c => d <= below
  BY <1>1, <1>2, <1>4 DEF Older
<1>6. /\ above \in S \cup {Nil} /\ above \in Nat /\ (above = Nil => \A d \in S : d <= c)
      /\ above # Nil => above > c /\ \A d \in S : d > c => above <= d
  BY <1>1, <1>2, <1>4 DEF Newer
<1>7. c \in Nat /\ child # Nil /\ child \in S
  <2>1. c \in Nat /\ c >= 1 /\ c <= child
    BY <1>3, ChainIs
  <2> QED  BY <1>2, <1>3, <2>1
<1>8. Older(T, Device, Child1)
  <2>1. CASE child = c
    <3>1. Child1 = below
      BY <1>i, <2>1 DEF below
    <3> QED  BY <1>1, <1>2, <1>3, <1>5, <1>7, <2>1, <3>1 DEF Older
  <2>2. CASE child # c
    BY <1>1, <1>3, <1>7, <1>i, <2>2 DEF Older
  <2> QED  BY <2>1, <2>2
<1>9. child = c <=> above = Nil
  BY <1>1, <1>3, <1>6, <1>7
<1>10. ASSUME NEW d \in T PROVE Older(T, d, Next1[d])
  <2> DEFINE x == next[d]
  <2>1. Older(S, d, x) /\ d \in S /\ d # c /\ d \in Nat
    BY <1>1 DEF Linked
  <2>2. Next1[d] = IF child # c /\ d = above THEN below ELSE x
    BY <1>i, <2>1 DEF above, below
  <2> HIDE DEF x
  <2>3. x \in S \cup {Nil} /\ x < d /\ x \in Nat /\ \A e \in S : e < d => e <= x
    BY <1>1, <1>2, <2>1 DEF Older
  <2>4. CASE d = above
    <3>1. d > c /\ d # Nil /\ \A e \in S : e > c => d <= e
      BY <1>1, <1>6, <2>1, <2>4
    <3>2. x = c
      <4>1. c <= x /\ x # Nil
        BY <1>1, <1>2, <1>7, <2>3, <3>1
      <4>2. ~(x > c)
        BY <2>1, <2>3, <3>1, <4>1
      <4> QED  BY <1>7, <2>3, <4>1, <4>2
    <3>3. Next1[d] = below
      BY <1>9, <2>2, <2>4, <3>1
    <3>4. below \in T \cup {Nil} /\ below < d
      BY <1>5, <1>7, <2>1, <3>1
    <3>5. ASSUME NEW e \in T, e < d PROVE e <= below
      <4>1. e <= c /\ e \in Nat /\ e # c /\ e \in S
        BY <1>1, <2>3, <3>2, <3>5
      <4> QED  BY <1>5, <1>7, <4>1
    <3> QED  BY <3>3, <3>4, <3>5 DEF Older
  <2>5. CASE d # above
    <3>1. Next1[d] = x
      BY <2>2, <2>5
    <3>2. x # c
      <4> SUFFICES ASSUME x = c PROVE FALSE
        OBVIOUS
      <4>1. d > c /\ above # Nil
        BY <1>6, <1>7, <2>1, <2>3
      <4>2. above \in S /\ above > c /\ above <= d
        BY <1>6, <2>1, <4>1
      <4>3. above < d
        BY <1>6, <2>1, <2>5, <4>2
      <4> QED  BY <1>6, <1>7, <2>3, <4>2, <4>3
    <3> QED  BY <2>3, <3>1, <3>2 DEF Older
  <2> QED  BY <2>4, <2>5
<1>11. ASSUME NEW d \in T PROVE Newer(T, d, Pre1[d])
  <2> DEFINE x == pre[d]
  <2>1. Newer(S, d, x) /\ d \in S /\ d # c /\ d \in Nat /\ d # Nil
    BY <1>1 DEF Linked
  <2>2. Pre1[d] = IF d = below THEN above ELSE x
    BY <1>i, <2>1 DEF above, below
  <2> HIDE DEF x
  <2>3. /\ x \in S \cup {Nil} /\ x \in Nat /\ (x = Nil => \A e \in S : e <= d)
        /\ x # Nil => x > d /\ \A e \in S : e > d => x <= e
    BY <1>1, <1>2, <2>1 DEF Newer
  <2>4. CASE d = below
    <3>1. Pre1[d] = above /\ d < c /\ \A e \in S : e < c => e <= d
      BY <1>5, <2>2, <2>4
    <3>2. above \in T \cup {Nil}
      BY <1>6, <1>7
    <3>3. CASE above = Nil
      <4>1. \A e \in T : e <= d
        BY <1>1, <1>6, <1>7, <3>1, <3>3
      <4> QED  BY <3>1, <3>2, <3>3, <4>1 DEF Newer
    <3>4. CASE above # Nil
      <4>1. above > d
        BY <1>6, <1>7, <2>1, <3>1, <3>4
      <4>2. ASSUME NEW e \in T, e > d PROVE above <= e
        <5>1. e \in S /\ e \in Nat /\ e # c /\ ~(e < c)
          BY <1>1, <2>1, <3>1, <4>2
        <5>2. e > c
          BY <1>7, <5>1
        <5> QED  BY <1>6, <3>4, <5>1, <5>2
      <4> QED  BY <3>1, <3>2, <3>4, <4>1, <4>2 DEF Newer
    <3> QED  BY <3>3, <3>4
  <2>5. CASE d # below
    <3>1. Pre1[d] = x
      BY <2>2, <2>5
    <3>2. x # c
      <4> SUFFICES ASSUME x = c PROVE FALSE
        OBVIOUS
      <4>1. d < c /\ \A e \in S : e > d => c <= e
        BY <1>1, <1>7, <2>3
      <4>2. d <= below /\ d < below /\ below \in S
        BY <1>2, <1>5, <2>1, <2>5, <4>1
      <4> QED  BY <1>5, <1>7, <4>1, <4>2
    <3> QED  BY <2>3, <3>1, <3>2 DEF Newer
  <2> QED  BY <2>4, <2>5
<1> QED  BY <1>8, <1>10, <1>11 DEF Linked

HasCut(u, v, c) ==
  /\ u \in Tree
  /\ u.nested = v.nested /\ u.count = v.count /\ u.copied = v.copied
  /\ u.files = v.files /\ u.broken = v.broken
  /\ u.child = IF v.child = c THEN v.next[c] ELSE v.child
  /\ \A d \in Chain \ {c} :
       /\ u.next[d] = IF v.child # c /\ d = v.pre[c] THEN v.next[c] ELSE v.next[d]
       /\ u.pre[d] = IF v.next[c] # Nil /\ d = v.next[c] THEN v.pre[c] ELSE v.pre[d]
  /\ u.pre[c] = Nil

LEMMA UnlinkedIs ==
  ASSUME NEW v \in Tree, NEW c \in Chain
  PROVE  HasCut(Unlinked(v, c), v, c)
<1> DEFINE below == v.next[c]
           above == v.pre[c]
           next == IF v.child = c THEN v.next ELSE [v.next EXCEPT ![above] = below]
           pre == IF below = Nil THEN v.pre ELSE [v.pre EXCEPT ![below] = above]
           w == IF v.child = c THEN [v EXCEPT !.child = below]
                               ELSE [v EXCEPT !.next[above] = below]
           x == IF below = Nil THEN w ELSE [w EXCEPT !.pre[below] = above]
           u == [x EXCEPT !.next[c] = Nil, !.pre[c] = Nil]
<1>1. Unlinked(v, c) = u
  BY DEF Unlinked
<1>2. /\ below \in Chain \cup {Nil} /\ above \in Chain \cup {Nil}
      /\ v.next \in [Chain -> Chain \cup {Nil}] /\ v.pre \in [Chain -> Chain \cup {Nil}]
  BY TreeIs
<1>3. next \in [Chain -> Chain \cup {Nil}] /\ pre \in [Chain -> Chain \cup {Nil}]
  BY <1>2
<1>4. /\ w \in Tree
      /\ w.nested = v.nested /\ w.count = v.count /\ w.copied = v.copied
      /\ w.files = v.files /\ w.broken = v.broken /\ w.pre = v.pre
      /\ w.child = IF v.child = c THEN below ELSE v.child
      /\ w.next = next
  <2> HIDE DEF below, above
  <2>1. CASE v.child = c
    BY <1>2, <2>1 DEF Tree
  <2>2. CASE v.child # c
    BY <1>2, <2>2 DEF Tree
  <2> QED  BY <2>1, <2>2
<1> HIDE DEF w
<1>5. /\ x \in Tree
      /\ x.nested = w.nested /\ x.count = w.count /\ x.copied = w.copied
      /\ x.files = w.files /\ x.broken = w.broken
      /\ x.child = w.child /\ x.next = next /\ x.pre = pre
  <2> HIDE DEF below, above, next
  <2>1. CASE below = Nil
    BY <1>4, <2>1
  <2>2. CASE below # Nil
    BY <1>2, <1>4, <2>2 DEF Tree
  <2> QED  BY <2>1, <2>2
<1> HIDE DEF x, next, pre
<1>6. /\ u \in Tree
      /\ u.nested = x.nested /\ u.count = x.count /\ u.copied = x.copied
      /\ u.files = x.files /\ u.broken = x.broken /\ u.child = x.child
      /\ u.next = [next EXCEPT ![c] = Nil] /\ u.pre = [pre EXCEPT ![c] = Nil]
  BY <1>5 DEF Tree
<1> HIDE DEF u
<1>7. ASSUME NEW d \in Chain, d # c
      PROVE  /\ u.next[d] = IF v.child # c /\ d = above THEN below ELSE v.next[d]
             /\ u.pre[d] = IF below # Nil /\ d = below THEN above ELSE v.pre[d]
  <2>1. u.next[d] = next[d] /\ u.pre[d] = pre[d]
    BY <1>3, <1>6, <1>7
  <2> HIDE DEF below, above
  <2>2. next[d] = IF v.child # c /\ d = above THEN below ELSE v.next[d]
    BY <1>2 DEF next
  <2>3. pre[d] = IF below # Nil /\ d = below THEN above ELSE v.pre[d]
    BY <1>2 DEF pre
  <2> QED  BY <2>1, <2>2, <2>3
<1>8. u.pre[c] = Nil
  BY <1>3, <1>6
<1> QED  BY <1>1, <1>4, <1>5, <1>6, <1>7, <1>8 DEF HasCut

(***************************************************************************)
(* VFSM::close counts down all the path; the file goes with its last       *)
(* count, and with the last one of the directory.                          *)
(***************************************************************************)
HasClosed(u, t, o, f) ==
  /\ NodeInv(u, o)
  /\ f = Device => u = t
  /\ f # Device /\ f \notin t.files => HasBroken(u, t)
  /\ f \in Node /\ f \notin t.files /\ t.broken = "no" => u.broken = "freed"
  /\ f \notin Node /\ f # Device /\ t.broken = "no" => u.broken = "null"
  /\ f \in t.files =>
       /\ u.nested = t.nested /\ u.broken = t.broken /\ u.copied = t.copied
       /\ \A n \in Node : u.count[n] = IF n \in Path(t, f) THEN t.count[n] - 1 ELSE t.count[n]
       /\ u.files = IF t.count[Top(t, Owner(f))] = 1
                    THEN t.files \ {Owner(f), Folder(Owner(f))}
                    ELSE t.files \ {n \in Path(t, f) : t.count[n] = 1}

LEMMA ClosedIs ==
  ASSUME NEW t, NEW o \in Nat, NEW f \in File, NodeInv(t, o)
  PROVE  HasClosed(Closed(t, f), t, o, f)
<1> DEFINE r == Closed(t, f)
<1>1. t \in Tree /\ t.files \subseteq Node /\ f \in Node \cup {Nil, Device}
  BY TreeIs DEF NodeInv, File
<1>2. ASSUME f = Device PROVE HasClosed(r, t, o, f)
  <2>1. r = t /\ f \notin t.files /\ f \notin Node
    BY <1>1, <1>2, NodeIs DEF Closed
  <2> QED  BY <1>2, <2>1 DEF HasClosed
<1>3. ASSUME f = Nil PROVE HasClosed(r, t, o, f)
  <2>1. f \notin Node /\ f # Device /\ f \notin t.files /\ r = Broken(t, "null")
    BY <1>1, <1>3, NodeIs, ChainIs DEF Closed
  <2> HIDE DEF r
  <2> QED  BY <2>1, BrokenIs DEF HasClosed
<1>4. ASSUME f \in Node, f \notin t.files PROVE HasClosed(r, t, o, f)
  <2>1. f # Device /\ f # Nil /\ r = Broken(t, "freed")
    BY <1>4, NodeIs DEF Closed
  <2> HIDE DEF r
  <2> QED  BY <1>4, <2>1, BrokenIs DEF HasClosed
<1>5. ASSUME f \in t.files PROVE HasClosed(r, t, o, f)
  <2> DEFINE path == Path(t, f)
             count == [n \in Node |-> IF n \in path THEN t.count[n] - 1 ELSE t.count[n]]
             u == [t EXCEPT !.count = count]
             gone == {n \in path : Unreferenced(u.count[n])}
             c == CHOOSE d \in Chain : f \in {d, Folder(d)}
             both == t.files \ {c, Folder(c)}
             some == t.files \ gone
             w == [u EXCEPT !.files = both]
             v == [u EXCEPT !.files = some]
             top == Top(t, c)
  <2>1. /\ f \in Node /\ f # Device /\ f # Nil
        /\ t.count \in [Node -> Nat] /\ t.nested \in [Chain -> BOOLEAN]
    BY <1>1, <1>5, TreeIs, NodeIs
  <2>2. c = Owner(f) /\ c \in Chain /\ f \in {c, Folder(c)} /\ c \in Node /\ Folder(c) \in Node
    <3>1. Owner(f) \in Chain /\ f \in {Owner(f), Folder(Owner(f))}
      BY <2>1, NodeIs
    <3>2. c \in Chain /\ f \in {c, Folder(c)}
      BY <3>1
    <3> HIDE DEF c
    <3> QED  BY <3>1, <3>2, NodeIs
  <2>3. path \subseteq Node /\ f \in path /\ path \subseteq {c, Folder(c)}
        /\ top \in path /\ top \in Node /\ top \in t.files /\ path \subseteq t.files
    <3> HIDE DEF c
    <3>1. CASE f = c
      <4>1. top \in t.files /\ path = {c, top} /\ top \in {c, Folder(c)}
        BY <1>5, <2>2, <3>1 DEF NodeInv, Path, Top
      <4> QED  BY <1>5, <2>2, <3>1, <4>1
    <3>2. CASE f = Folder(c)
      <4>1. t.nested[c] /\ f \notin Chain
        BY <1>5, <2>2, <3>2, NodeIs DEF NodeInv
      <4>2. top = f /\ path = {f}
        BY <3>2, <4>1 DEF Top, Path
      <4> QED  BY <1>5, <2>1, <2>2, <3>2, <4>2
    <3> QED  BY <2>2, <3>1, <3>2
  <2>4. \A n \in path : t.count[n] \in Nat /\ t.count[n] >= 1
    BY <1>1, <2>1, <2>3 DEF NodeInv, Positive
  <2>5. count \in [Node -> Nat]
    BY <2>1, <2>4
  <2>6. \A n \in Node : count[n] = IF n \in path THEN t.count[n] - 1 ELSE t.count[n]
    OBVIOUS
  <2>7. /\ u \in Tree /\ u.nested = t.nested /\ u.count = count /\ u.copied = t.copied
        /\ u.files = t.files /\ u.child = t.child /\ u.next = t.next /\ u.pre = t.pre
        /\ u.broken = t.broken
    <3> HIDE DEF count
    <3> QED  BY <1>1, <2>5 DEF Tree
  <2>8. r = IF top \in gone THEN Unlinked(w, c) ELSE v
    <3>1. u = [t EXCEPT !.count = [n \in Node |-> IF n \in Path(t, f) THEN @[n] - 1 ELSE @[n]]]
      BY <1>1 DEF Tree
    <3>2. w = [u EXCEPT !.files = @ \ {c, Folder(c)}] /\ v = [u EXCEPT !.files = @ \ gone]
      BY <2>7
    <3> HIDE DEF u, w, v
    <3> QED  BY <1>5, <2>1, <3>1, <3>2 DEF Closed
  <2>9. gone = {n \in path : t.count[n] = 1}
    <3>1. \A n \in path : u.count[n] = t.count[n] - 1
      BY <2>3, <2>6, <2>7
    <3> HIDE DEF u, path
    <3> QED  BY <2>4, <3>1 DEF Unreferenced
  <2>10. top \in gone <=> t.count[top] = 1
    <3> HIDE DEF gone, top
    <3> QED  BY <2>3, <2>9
  <2> HIDE DEF r, u, count, c, gone, path, top
  <2>11. /\ w \in Tree /\ w.nested = t.nested /\ w.count = count /\ w.copied = t.copied
         /\ w.files = both /\ w.child = t.child /\ w.next = t.next /\ w.pre = t.pre
         /\ w.broken = t.broken
    <3>1. both \subseteq Node
      BY <1>1
    <3> HIDE DEF both
    <3> QED  BY <2>7, <3>1 DEF Tree
  <2>12. /\ v \in Tree /\ v.nested = t.nested /\ v.count = count /\ v.copied = t.copied
         /\ v.files = some /\ v.child = t.child /\ v.next = t.next /\ v.pre = t.pre
         /\ v.broken = t.broken
    <3>1. some \subseteq Node
      BY <1>1
    <3> HIDE DEF some
    <3> QED  BY <2>7, <3>1 DEF Tree
  <2> HIDE DEF w, v
  <2>13. ASSUME NEW n \in t.files, n \notin gone
         PROVE  count[n] >= 1
    <3>1. n \in Node /\ t.count[n] \in Nat /\ t.count[n] >= 1
      BY <1>1, <2>1 DEF NodeInv, Positive
    <3> QED  BY <2>6, <2>9, <2>13, <3>1
  <2>14. gone \subseteq {c, Folder(c)}
    BY <2>3, <2>9
  <2>15. \A d \in Chain : d > o => t.pre[d] = Nil /\ t.copied[d] = 0
    BY DEF NodeInv
  <2>16. \A n \in t.files : Owner(n) <= o
    BY DEF NodeInv
  <2>17. \A d \in Chain : /\ d \in t.files => Top(t, d) \in t.files
                          /\ Folder(d) \in t.files => t.nested[d]
    BY DEF NodeInv
  <2>18. t.broken = "no"
    BY <1>5 DEF NodeInv
  <2>19. ASSUME top \notin gone PROVE HasClosed(r, t, o, f)
    <3>1. r = v
      BY <2>8, <2>19
    <3>2. Positive(v)
      BY <2>12, <2>13 DEF Positive
    <3>3. \A d \in Chain : Top(v, d) = Top(t, d)
      BY <2>12 DEF Top
    <3>4. ASSUME NEW d \in Chain
          PROVE  Top(t, d) \in some <=> Top(t, d) \in t.files
      <4>1. CASE d = c
        BY <2>3, <2>19, <4>1 DEF top
      <4>2. CASE d # c
        <5>1. Top(t, d) \notin {c, Folder(c)}
          BY <2>2, <4>2, NodeIs DEF Top
        <5> QED  BY <2>14, <5>1
      <4> QED  BY <4>1, <4>2
    <3>5. Tops(v) = Tops(t)
      BY <2>12, <3>3, <3>4 DEF Tops
    <3>6. \A d \in Chain : /\ d \in v.files => Top(v, d) \in v.files
                           /\ Folder(d) \in v.files => v.nested[d]
                           /\ d > o => v.pre[d] = Nil /\ v.copied[d] = 0
      BY <2>12, <2>15, <2>17, <3>3, <3>4
    <3>7. \A n \in v.files : Owner(n) <= o
      BY <2>12, <2>16
    <3>8. NodeInv(v, o)
      BY <2>12, <2>18, <3>2, <3>5, <3>6, <3>7 DEF NodeInv
    <3>9. v.files = t.files \ {n \in path : t.count[n] = 1}
      BY <2>9, <2>12
    <3>10. t.count[top] # 1
      BY <2>10, <2>19
    <3> QED  BY <1>5, <2>1, <2>2, <2>6, <2>12, <3>1, <3>8, <3>9, <3>10 DEF HasClosed, path, top
  <2>20. ASSUME top \in gone PROVE HasClosed(r, t, o, f)
    <3>1. HasCut(r, w, c)
      BY <2>2, <2>8, <2>11, <2>20, UnlinkedIs
    <3>2. /\ r \in Tree
          /\ r.nested = t.nested /\ r.count = count /\ r.copied = t.copied
          /\ r.files = both /\ r.broken = t.broken
          /\ r.child = IF t.child = c THEN t.next[c] ELSE t.child
          /\ r.pre[c] = Nil
      BY <2>11, <3>1 DEF HasCut
    <3>3. \A d \in Chain \ {c} :
             /\ r.next[d] = IF t.child # c /\ d = t.pre[c] THEN t.next[c] ELSE t.next[d]
             /\ r.pre[d] = IF t.next[c] # Nil /\ d = t.next[c] THEN t.pre[c] ELSE t.pre[d]
      BY <2>11, <3>1 DEF HasCut
    <3>4. Positive(r)
      BY <2>13, <2>14, <3>2 DEF Positive
    <3>5. \A d \in Chain : Top(r, d) = Top(t, d)
      BY <3>2 DEF Top
    <3>6. ASSUME NEW d \in Chain
          PROVE  Top(t, d) \in both <=> d # c /\ Top(t, d) \in t.files
      <4>1. CASE d = c
        BY <4>1 DEF Top
      <4>2. CASE d # c
        BY <2>2, <4>2, NodeIs DEF Top
      <4> QED  BY <4>1, <4>2
    <3>7. Tops(r) = Tops(t) \ {c}
      BY <3>2, <3>5, <3>6 DEF Tops
    <3>8. Linked(Tops(t), t.child, t.next, t.pre) /\ Tops(t) \in SUBSET Chain /\ c \in Tops(t)
      BY <1>1, <2>2, <2>3, TreeIs DEF NodeInv, Tops, top
    <3>9. Linked(Tops(r), r.child, r.next, r.pre)
      <4>1. IsMended(Tops(t), t.child, t.next, t.pre, c, r.child, r.next, r.pre)
        BY <3>2, <3>3, <3>8 DEF IsMended
      <4> QED  BY <3>7, <3>8, <4>1, CutLink
    <3>10. ASSUME NEW d \in Chain, d > o PROVE r.pre[d] = Nil
      <4>1. CASE d = c
        BY <3>2, <4>1
      <4>2. CASE d # c
        <5>1. t.pre[d] = Nil /\ d # Nil
          BY <2>15, <3>10, ChainIs
        <5>2. t.next[c] \in Tops(t) \cup {Nil}
          BY <3>8 DEF Linked, Older
        <5>3. d \notin Tops(t)
          <6> SUFFICES ASSUME d \in Tops(t) PROVE FALSE
            OBVIOUS
          <6>1. Top(t, d) \in t.files /\ Owner(Top(t, d)) = d
            BY NodeIs DEF Tops, Top
          <6>2. d <= o
            BY <2>16, <6>1
          <6> QED  BY <3>10, <6>2, ChainIs
        <5> QED  BY <3>3, <4>2, <5>1, <5>2, <5>3
      <4> QED  BY <4>1, <4>2
    <3>11. \A d \in Chain : /\ d \in r.files => Top(r, d) \in r.files
                            /\ Folder(d) \in r.files => r.nested[d]
                            /\ d > o => r.pre[d] = Nil /\ r.copied[d] = 0
      BY <2>15, <2>17, <3>2, <3>5, <3>6, <3>10
    <3>12. \A n \in r.files : Owner(n) <= o
      BY <2>16, <3>2
    <3>13. NodeInv(r, o)
      BY <2>18, <3>2, <3>4, <3>9, <3>11, <3>12 DEF NodeInv
    <3>14. t.count[top] = 1
      BY <2>10, <2>20
    <3> QED  BY <1>5, <2>1, <2>2, <2>6, <3>2, <3>13, <3>14 DEF HasClosed, path, top
  <2> QED  BY <2>19, <2>20
<1> QED  BY <1>1, <1>2, <1>3, <1>4, <1>5

-----------------------------------------------------------------------------
(***************************************************************************)
(* A function that is defined step by step exists.                         *)
(***************************************************************************)
Stepwise(f, n, d, step) == f[0] = d /\ \A i \in 1 .. n : f[i] = step[i][f[i - 1]]

LEMMA StepwiseExists ==
  ASSUME NEW n \in Nat, NEW D, NEW d \in D, NEW step \in [1 .. n -> [D -> D]]
  PROVE  \E f \in [0 .. n -> D] : Stepwise(f, n, d, step)
<1> DEFINE Good(k) == \E f \in [0 .. k -> D] : Stepwise(f, k, d, step)
           S == {k \in 0 .. n : ~Good(k)}
<1> SUFFICES ASSUME S # {} PROVE FALSE
  <2>1. n \in 0 .. n
    OBVIOUS
  <2> QED  BY <2>1
<1>0. S \in SUBSET Nat
  OBVIOUS
<1>1. PICK m \in S : \A k \in S : m <= k
  <2> HIDE DEF S
  <2> QED  BY <1>0, MinIsLeast
<1>2. m \in 0 .. n /\ ~Good(m)
  BY <1>1
<1>3. m # 0
  <2>1. SUFFICES ASSUME m = 0 PROVE FALSE
    OBVIOUS
  <2> DEFINE f == [i \in 0 .. 0 |-> d]
  <2>2. f \in [0 .. m -> D] /\ Stepwise(f, m, d, step)
    BY <2>1 DEF Stepwise
  <2> QED  BY <1>2, <2>2
<1>4. m - 1 \in 0 .. n /\ ~(m <= m - 1) /\ m \in 1 .. n
  BY <1>2, <1>3
<1>5. PICK f \in [0 .. m - 1 -> D] : Stepwise(f, m - 1, d, step)
  BY <1>1, <1>4
<1> DEFINE last == step[m][f[m - 1]]
           g == [i \in 0 .. m |-> IF i < m THEN f[i] ELSE last]
<1>6. last \in D
  <2>1. f[m - 1] \in D
    BY <1>4
  <2> QED  BY <1>4, <2>1
<1>7. g \in [0 .. m -> D]
  BY <1>4, <1>6
<1>8. \A i \in 0 .. m - 1 : g[i] = f[i]
  BY <1>4
<1>9. g[m] = last
  BY <1>4
<1> HIDE DEF g
<1>10. ASSUME NEW i \in 1 .. m PROVE g[i] = step[i][g[i - 1]]
  <2>1. CASE i < m
    <3>1. i \in 1 .. m - 1 /\ i \in 0 .. m - 1 /\ i - 1 \in 0 .. m - 1
      BY <1>4, <2>1
    <3> QED  BY <1>5, <1>8, <3>1 DEF Stepwise
  <2>2. CASE i = m
    <3>1. m - 1 \in 0 .. m - 1
      BY <1>4
    <3> QED  BY <1>8, <1>9, <2>2, <3>1
  <2> QED  BY <1>4, <2>1, <2>2
<1>11. g[0] = d
  BY <1>4, <1>5, <1>8 DEF Stepwise
<1>12. Stepwise(g, m, d, step)
  BY <1>10, <1>11 DEF Stepwise
<1> QED  BY <1>2, <1>7, <1>12

(***************************************************************************)
(* copyFds and destroy handle the objects one by one.                      *)
(***************************************************************************)
IsDuplicating(after, t, o, list) ==
  /\ after[0] = t /\ DuplicateAll(t, list) = after[Len(list)]
  /\ \A i \in 0 .. Len(list) : NodeInv(after[i], o)
  /\ \A i \in 1 .. Len(list) : after[i] = Duplicated(after[i - 1], list[i].file)

LEMMA DuplicateAllIs ==
  ASSUME NEW list \in Seq(Fo), NEW t, NEW o \in Nat, NodeInv(t, o)
  PROVE  \E after : IsDuplicating(after, t, o, list)
<1> DEFINE n == Len(list)
           D == {u \in Tree : NodeInv(u, o)}
           step == [i \in 1 .. n |-> [u \in D |-> Duplicated(u, list[i].file)]]
           Rule(f) == [i \in 0 .. n |-> IF i = 0 THEN t ELSE Duplicated(f[i - 1], list[i].file)]
           after == CHOOSE f : f = Rule(f)
<1>1. n \in Nat
  OBVIOUS
<1>f. \A i \in 1 .. n : list[i].file \in File
  <2>1. \A i \in 1 .. n : list[i] \in Fo
    OBVIOUS
  <2> QED  BY <2>1 DEF Fo
<1>2. DuplicateAll(t, list) = after[n]
  BY DEF DuplicateAll
<1> HIDE DEF n
<1>3. t \in D
  BY DEF NodeInv
<1>4. ASSUME NEW i \in 1 .. n, NEW u \in D PROVE Duplicated(u, list[i].file) \in D
  <2>0. NodeInv(u, o) /\ list[i].file \in File
    BY <1>f
  <2>1. HasDuplicated(Duplicated(u, list[i].file), u, o, list[i].file)
    BY <2>0, DuplicatedIs
  <2> QED  BY <2>0, <2>1 DEF HasDuplicated, NodeInv
<1>5. step \in [1 .. n -> [D -> D]]
  BY <1>4
<1>6. PICK f \in [0 .. n -> D] : Stepwise(f, n, t, step)
  <2> HIDE DEF D, step
  <2> QED  BY <1>1, <1>3, <1>5, StepwiseExists
<1>7. f = Rule(f)
  <2>1. ASSUME NEW i \in 0 .. n
        PROVE  f[i] = IF i = 0 THEN t ELSE Duplicated(f[i - 1], list[i].file)
    <3>1. CASE i = 0
      BY <1>6, <3>1 DEF Stepwise
    <3>2. CASE i # 0
      <4>1. i \in 1 .. n /\ i - 1 \in 0 .. n
        BY <1>1, <3>2
      <4>2. f[i] = step[i][f[i - 1]] /\ f[i - 1] \in D
        BY <1>6, <4>1 DEF Stepwise
      <4> HIDE DEF D
      <4>3. step[i][f[i - 1]] = Duplicated(f[i - 1], list[i].file)
        BY <4>1, <4>2
      <4> QED  BY <3>2, <4>2, <4>3
    <3> QED  BY <3>1, <3>2
  <2>2. Rule(f) = [i \in 0 .. n |-> f[i]]
    BY <2>1
  <2> QED  BY <2>2
<1>8. after = Rule(after)
  BY <1>7
<1> HIDE DEF after
<1>9. /\ after[0] = t
      /\ \A i \in 1 .. n : after[i] = Duplicated(after[i - 1], list[i].file)
  <2>1. \A i \in 0 .. n : after[i] = IF i = 0 THEN t ELSE Duplicated(after[i - 1], list[i].file)
    BY <1>8
  <2>2. 0 \in 0 .. n /\ \A i \in 1 .. n : i \in 0 .. n /\ i # 0
    BY <1>1
  <2> QED  BY <2>1, <2>2
<1>10. \A i \in 0 .. n : after[i] \in D
  <2> DEFINE S == {k \in 0 .. n : after[k] \notin D}
  <2> SUFFICES ASSUME S # {} PROVE FALSE
    OBVIOUS
  <2>0. S \in SUBSET Nat
    BY <1>1
  <2>1. PICK m \in S : \A k \in S : m <= k
    <3> HIDE DEF S
    <3> QED  BY <2>0, MinIsLeast
  <2> HIDE DEF D
  <2>2. m \in 0 .. n /\ after[m] \notin D
    BY <2>1
  <2>3. m \in 1 .. n /\ m - 1 \in 0 .. n /\ ~(m <= m - 1)
    BY <1>1, <1>3, <1>9, <2>2
  <2>4. after[m - 1] \in D
    BY <2>1, <2>3
  <2> QED  BY <1>4, <1>9, <2>2, <2>3, <2>4
<1>11. \A i \in 0 .. n : NodeInv(after[i], o)
  BY <1>1, <1>10
<1>12. IsDuplicating(after, t, o, list)
  BY <1>2, <1>9, <1>11 DEF IsDuplicating, n
<1> QED  BY <1>12

IsClosing(after, t, o, list) ==
  /\ after[0] = t /\ CloseAll(t, list) = after[Len(list)]
  /\ \A i \in 0 .. Len(list) : NodeInv(after[i], o)
  /\ \A i \in 1 .. Len(list) : after[i] = Closed(after[i - 1], list[i].file)

LEMMA CloseAllIs ==
  ASSUME NEW list \in Seq(Fo), NEW t, NEW o \in Nat, NodeInv(t, o)
  PROVE  \E after : IsClosing(after, t, o, list)
<1> DEFINE n == Len(list)
           D == {u \in Tree : NodeInv(u, o)}
           step == [i \in 1 .. n |-> [u \in D |-> Closed(u, list[i].file)]]
           Rule(f) == [i \in 0 .. n |-> IF i = 0 THEN t ELSE Closed(f[i - 1], list[i].file)]
           after == CHOOSE f : f = Rule(f)
<1>1. n \in Nat
  OBVIOUS
<1>f. \A i \in 1 .. n : list[i].file \in File
  <2>1. \A i \in 1 .. n : list[i] \in Fo
    OBVIOUS
  <2> QED  BY <2>1 DEF Fo
<1>2. CloseAll(t, list) = after[n]
  BY DEF CloseAll
<1> HIDE DEF n
<1>3. t \in D
  BY DEF NodeInv
<1>4. ASSUME NEW i \in 1 .. n, NEW u \in D PROVE Closed(u, list[i].file) \in D
  <2>0. NodeInv(u, o) /\ list[i].file \in File
    BY <1>f
  <2>1. HasClosed(Closed(u, list[i].file), u, o, list[i].file)
    BY <2>0, ClosedIs
  <2> QED  BY <2>0, <2>1 DEF HasClosed, NodeInv
<1>5. step \in [1 .. n -> [D -> D]]
  BY <1>4
<1>6. PICK f \in [0 .. n -> D] : Stepwise(f, n, t, step)
  <2> HIDE DEF D, step
  <2> QED  BY <1>1, <1>3, <1>5, StepwiseExists
<1>7. f = Rule(f)
  <2>1. ASSUME NEW i \in 0 .. n
        PROVE  f[i] = IF i = 0 THEN t ELSE Closed(f[i - 1], list[i].file)
    <3>1. CASE i = 0
      BY <1>6, <3>1 DEF Stepwise
    <3>2. CASE i # 0
      <4>1. i \in 1 .. n /\ i - 1 \in 0 .. n
        BY <1>1, <3>2
      <4>2. f[i] = step[i][f[i - 1]] /\ f[i - 1] \in D
        BY <1>6, <4>1 DEF Stepwise
      <4> HIDE DEF D
      <4>3. step[i][f[i - 1]] = Closed(f[i - 1], list[i].file)
        BY <4>1, <4>2
      <4> QED  BY <3>2, <4>2, <4>3
    <3> QED  BY <3>1, <3>2
  <2>2. Rule(f) = [i \in 0 .. n |-> f[i]]
    BY <2>1
  <2> QED  BY <2>2
<1>8. after = Rule(after)
  BY <1>7
<1> HIDE DEF after
<1>9. /\ after[0] = t
      /\ \A i \in 1 .. n : after[i] = Closed(after[i - 1], list[i].file)
  <2>1. \A i \in 0 .. n : after[i] = IF i = 0 THEN t ELSE Closed(after[i - 1], list[i].file)
    BY <1>8
  <2>2. 0 \in 0 .. n /\ \A i \in 1 .. n : i \in 0 .. n /\ i # 0
    BY <1>1
  <2> QED  BY <2>1, <2>2
<1>10. \A i \in 0 .. n : after[i] \in D
  <2> DEFINE S == {k \in 0 .. n : after[k] \notin D}
  <2> SUFFICES ASSUME S # {} PROVE FALSE
    OBVIOUS
  <2>0. S \in SUBSET Nat
    BY <1>1
  <2>1. PICK m \in S : \A k \in S : m <= k
    <3> HIDE DEF S
    <3> QED  BY <2>0, MinIsLeast
  <2> HIDE DEF D
  <2>2. m \in 0 .. n /\ after[m] \notin D
    BY <2>1
  <2>3. m \in 1 .. n /\ m - 1 \in 0 .. n /\ ~(m <= m - 1)
    BY <1>1, <1>3, <1>9, <2>2
  <2>4. after[m - 1] \in D
    BY <2>1, <2>3
  <2> QED  BY <1>4, <1>9, <2>2, <2>3, <2>4
<1>11. \A i \in 0 .. n : NodeInv(after[i], o)
  BY <1>1, <1>10
<1>12. IsClosing(after, t, o, list)
  BY <1>2, <1>9, <1>11 DEF IsClosing, n
<1> QED  BY <1>12

-----------------------------------------------------------------------------
(***************************************************************************)
(* How many descriptors of a list are of a file, and what the calls change *)
(* in that.                                                                *)
(***************************************************************************)
Names(list) == {list[i].file : i \in DOMAIN list}

Added(new, list, f) ==
  /\ new \in Seq(Fo) /\ NumbersDiffer(new) /\ Names(new) \subseteq Names(list) \cup {f}
  /\ \A c \in Node : Cardinality(Numbers(new, c))
                        = Cardinality(Numbers(list, c)) + (IF c = f THEN 1 ELSE 0)

Removed(new, list, f) ==
  /\ new \in Seq(Fo) /\ NumbersDiffer(new) /\ Names(new) \subseteq Names(list)
  /\ \A c \in Node : Cardinality(Numbers(list, c))
                        = Cardinality(Numbers(new, c)) + (IF c = f THEN 1 ELSE 0)

LEMMA NumbersFinite ==
  ASSUME NEW list \in Seq(Fo), NEW c
  PROVE  /\ IsFiniteSet(Numbers(list, c)) /\ Cardinality(Numbers(list, c)) \in Nat
         /\ Numbers(list, c) \subseteq Fds(list)
<1> DEFINE dom == {j \in DOMAIN list : list[j].file = c}
           fd == [j \in dom |-> list[j].fd]
<1>1. Len(list) \in Nat /\ DOMAIN list = 1 .. Len(list)
  OBVIOUS
<1>2. IsFiniteSet(1 .. Len(list))
  BY <1>1, FS_Interval
<1>3. IsFiniteSet(dom)
  BY <1>1, <1>2, FS_Subset
<1>4. Numbers(list, c) = {fd[j] : j \in dom}
  BY DEF Numbers
<1>5. fd \in Surjection(dom, Numbers(list, c))
  BY <1>4 DEF Surjection
<1>6. IsFiniteSet(Numbers(list, c))
  BY <1>3, <1>5, FS_Surjection
<1>7. Numbers(list, c) \subseteq Fds(list)
  BY DEF Numbers, Fds
<1> QED  BY <1>6, <1>7, FS_CardinalityType

LEMMA AppendAdds ==
  ASSUME NEW list \in Seq(Fo), NumbersDiffer(list), NEW n \in Nat, n \notin Fds(list),
         NEW f \in File
  PROVE  Added(Append(list, [fd |-> n, file |-> f]), list, f)
<1> DEFINE fo == [fd |-> n, file |-> f]
           new == Append(list, fo)
<1>1. fo \in Fo /\ fo.fd = n /\ fo.file = f
  BY DEF Fo
<1>2. \A i \in DOMAIN list : list[i].fd # n
  BY DEF Fds
<1> HIDE DEF fo
<1>3. /\ new \in Seq(Fo) /\ DOMAIN new = 1 .. Len(list) + 1
      /\ DOMAIN list = 1 .. Len(list) /\ Len(list) \in Nat
      /\ \A i \in 1 .. Len(list) : new[i] = list[i]
      /\ new[Len(list) + 1] = fo
  BY <1>1, AppendProperties
<1> HIDE DEF new
<1>4. NumbersDiffer(new)
  BY <1>1, <1>2, <1>3 DEF NumbersDiffer
<1>5. Names(new) \subseteq Names(list) \cup {f}
  BY <1>1, <1>3 DEF Names
<1>6. ASSUME NEW c \in Node
      PROVE  Cardinality(Numbers(new, c))
               = Cardinality(Numbers(list, c)) + (IF c = f THEN 1 ELSE 0)
  <2>1. IsFiniteSet(Numbers(list, c)) /\ n \notin Numbers(list, c)
        /\ Cardinality(Numbers(list, c)) \in Nat
    BY NumbersFinite
  <2>2. CASE c = f
    <3>1. Numbers(new, c) = Numbers(list, c) \cup {n}
      BY <1>1, <1>3, <2>2 DEF Numbers
    <3> QED  BY <2>1, <2>2, <3>1, FS_AddElement
  <2>3. CASE c # f
    <3>1. Numbers(new, c) = Numbers(list, c)
      BY <1>1, <1>3, <2>3 DEF Numbers
    <3> QED  BY <2>1, <2>3, <3>1
  <2> QED  BY <2>2, <2>3
<1>7. Added(new, list, f)
  BY <1>3, <1>4, <1>5, <1>6 DEF Added
<1> QED  BY <1>7 DEF new, fo

LEMMA WithNewAdds ==
  ASSUME NEW list \in Seq(Fo), NumbersDiffer(list), NEW f \in File
  PROVE  Added(WithNew(list, f), list, f)
<1>1. FindSuiFd(list) \in Nat /\ FindSuiFd(list) \notin Fds(list)
  BY SuitableIsSmallest
<1> QED  BY <1>1, AppendAdds DEF WithNew

LEMMA WithNumberedAdds ==
  ASSUME NEW list \in Seq(Fo), NumbersDiffer(list), NEW n \in Nat, NEW f \in File
  PROVE  Added(WithNumbered(list, n, f), list, f)
<1>1. CASE n \in Fds(list)
  BY <1>1, WithNewAdds DEF WithNumbered
<1>2. CASE n \notin Fds(list)
  BY <1>2, AppendAdds DEF WithNumbered
<1> QED  BY <1>1, <1>2

LEMMA RemoveAtRemoves ==
  ASSUME NEW list \in Seq(Fo), NumbersDiffer(list), NEW k \in DOMAIN list
  PROVE  Removed(RemoveAt(list, k), list, list[k].file)
<1> DEFINE len == Len(list)
           new == RemoveAt(list, k)
           f == list[k].file
<1>1. len \in Nat /\ DOMAIN list = 1 .. len /\ k \in 1 .. len
  OBVIOUS
<1>2. /\ new \in Seq(Fo) /\ DOMAIN new = 1 .. len - 1
      /\ \A i \in 1 .. len - 1 : new[i] = IF i < k THEN list[i] ELSE list[i + 1]
  BY RemoveAtIs
<1>3. NumbersDiffer(new)
  BY RemoveAtKeeps
<1> HIDE DEF new, len
<1>4. ASSUME NEW i \in 1 .. len - 1
      PROVE  \E j \in 1 .. len : j # k /\ new[i] = list[j]
  <2>1. CASE i < k
    <3>1. i \in 1 .. len /\ i # k
      BY <1>1, <2>1
    <3> QED  BY <1>2, <2>1, <3>1
  <2>2. CASE ~(i < k)
    <3>1. i + 1 \in 1 .. len /\ i + 1 # k
      BY <1>1, <2>2
    <3> QED  BY <1>2, <2>2, <3>1
  <2> QED  BY <2>1, <2>2
<1>5. ASSUME NEW j \in 1 .. len, j # k
      PROVE  \E i \in 1 .. len - 1 : new[i] = list[j]
  <2>1. CASE j < k
    <3>1. j \in 1 .. len - 1
      BY <1>1, <2>1
    <3> QED  BY <1>2, <2>1, <3>1
  <2>2. CASE ~(j < k)
    <3>1. j - 1 \in 1 .. len - 1 /\ ~(j - 1 < k) /\ (j - 1) + 1 = j
      BY <1>1, <1>5, <2>2
    <3> QED  BY <1>2, <3>1
  <2> QED  BY <2>1, <2>2
<1>6. Names(new) \subseteq Names(list)
  <2>1. ASSUME NEW i \in 1 .. len - 1 PROVE new[i].file \in Names(list)
    <3>1. PICK j \in 1 .. len : new[i] = list[j]
      BY <1>4
    <3> QED  BY <1>1, <3>1 DEF Names
  <2> QED  BY <1>2, <2>1 DEF Names
<1>7. ASSUME NEW c \in Node
      PROVE  Cardinality(Numbers(list, c))
               = Cardinality(Numbers(new, c)) + (IF c = f THEN 1 ELSE 0)
  <2> DEFINE n == list[k].fd
             old == Numbers(list, c)
  <2>1. IsFiniteSet(old) /\ Cardinality(old) \in Nat
        /\ IsFiniteSet(Numbers(new, c)) /\ Cardinality(Numbers(new, c)) \in Nat
    BY <1>2, NumbersFinite
  <2>2. Numbers(new, c) = {list[j].fd : j \in {i \in 1 .. len : i # k /\ list[i].file = c}}
    <3>1. ASSUME NEW x \in Numbers(new, c)
          PROVE  \E j \in 1 .. len : j # k /\ list[j].file = c /\ x = list[j].fd
      <4>1. PICK i \in 1 .. len - 1 : new[i].file = c /\ x = new[i].fd
        BY <1>2 DEF Numbers
      <4> QED  BY <1>4, <4>1
    <3>2. ASSUME NEW j \in 1 .. len, j # k, list[j].file = c
          PROVE  list[j].fd \in Numbers(new, c)
      <4>1. PICK i \in 1 .. len - 1 : new[i] = list[j]
        BY <1>5, <3>2
      <4> QED  BY <1>2, <3>2, <4>1 DEF Numbers
    <3> QED  BY <3>1, <3>2
  <2>3. \A j \in 1 .. len : j # k => list[j].fd # n
    BY <1>1 DEF NumbersDiffer
  <2>4. CASE c = f
    <3>1. n \in old /\ Numbers(new, c) = old \ {n}
      BY <1>1, <2>2, <2>3, <2>4 DEF Numbers
    <3> QED  BY <2>1, <2>4, <3>1, FS_RemoveElement
  <2>5. CASE c # f
    <3>1. Numbers(new, c) = old
      BY <1>1, <2>2, <2>5 DEF Numbers
    <3> QED  BY <2>1, <2>5, <3>1
  <2> QED  BY <2>4, <2>5
<1>8. Removed(new, list, f)
  BY <1>2, <1>3, <1>6, <1>7 DEF Removed
<1> QED  BY <1>8 DEF new

(***************************************************************************)
(* The descriptors of a file among the first i of a list.                  *)
(***************************************************************************)
Upto(list, i, c) == {list[j].fd : j \in {k \in 1 .. i : list[k].file = c}}

LEMMA UptoIs ==
  ASSUME NEW list \in Seq(Fo), NumbersDiffer(list), NEW c
  PROVE  /\ Upto(list, 0, c) = {} /\ Upto(list, Len(list), c) = Numbers(list, c)
         /\ \A i \in 0 .. Len(list) :
              /\ Upto(list, i, c) \subseteq Numbers(list, c)
              /\ IsFiniteSet(Upto(list, i, c)) /\ Cardinality(Upto(list, i, c)) \in Nat
              /\ Cardinality(Upto(list, i, c)) <= Cardinality(Numbers(list, c))
         /\ \A i \in 1 .. Len(list) :
              Cardinality(Upto(list, i, c)) = Cardinality(Upto(list, i - 1, c))
                                                + (IF c = list[i].file THEN 1 ELSE 0)
<1> DEFINE len == Len(list)
<1>1. len \in Nat /\ DOMAIN list = 1 .. len
  OBVIOUS
<1> HIDE DEF len
<1>2. Upto(list, 0, c) = {} /\ Upto(list, len, c) = Numbers(list, c)
  <2>1. 1 .. 0 = {}
    OBVIOUS
  <2> QED  BY <1>1, <2>1 DEF Upto, Numbers
<1>3. ASSUME NEW i \in 0 .. len
      PROVE  /\ Upto(list, i, c) \subseteq Numbers(list, c)
             /\ IsFiniteSet(Upto(list, i, c)) /\ Cardinality(Upto(list, i, c)) \in Nat
             /\ Cardinality(Upto(list, i, c)) <= Cardinality(Numbers(list, c))
  <2>1. Upto(list, i, c) \subseteq Numbers(list, c)
    <3>1. 1 .. i \subseteq 1 .. len
      BY <1>1
    <3> QED  BY <1>1, <3>1 DEF Upto, Numbers
  <2> QED  BY <2>1, NumbersFinite, FS_Subset, FS_CardinalityType
<1>4. ASSUME NEW i \in 1 .. len
      PROVE  Cardinality(Upto(list, i, c)) = Cardinality(Upto(list, i - 1, c))
                                               + (IF c = list[i].file THEN 1 ELSE 0)
  <2> DEFINE old == Upto(list, i - 1, c)
             n == list[i].fd
  <2>1. i - 1 \in 0 .. len /\ 1 .. i = (1 .. i - 1) \cup {i} /\ i \notin 1 .. i - 1
        /\ 1 .. i - 1 \subseteq 1 .. len
    BY <1>1
  <2>2. IsFiniteSet(old) /\ Cardinality(old) \in Nat
    BY <1>3, <2>1
  <2>3. n \notin old
    BY <1>1, <2>1 DEF Upto, NumbersDiffer
  <2>4. CASE c = list[i].file
    <3>1. Upto(list, i, c) = old \cup {n}
      BY <2>1, <2>4 DEF Upto
    <3> QED  BY <2>2, <2>3, <2>4, <3>1, FS_AddElement
  <2>5. CASE c # list[i].file
    <3>1. Upto(list, i, c) = old
      BY <2>1, <2>5 DEF Upto
    <3> QED  BY <2>2, <2>5, <3>1
  <2> QED  BY <2>4, <2>5
<1> QED  BY <1>2, <1>3, <1>4 DEF len

-----------------------------------------------------------------------------
(***************************************************************************)
(* A total over the processes changes by what changes for one of them.     *)
(***************************************************************************)
LEMMA OneChanges ==
  ASSUME NEW S, NEW T, NEW p \in Proc, \A q \in Proc : q # p => T[q] = S[q],
         IsFiniteSet(S[p]), IsFiniteSet(T[p]), IsFiniteSet(Pairs(S))
  PROVE  /\ IsFiniteSet(Pairs(T))
         /\ Cardinality(Pairs(S)) \in Nat /\ Cardinality(Pairs(T)) \in Nat
         /\ Cardinality(S[p]) \in Nat /\ Cardinality(T[p]) \in Nat
         /\ Cardinality(S[p]) <= Cardinality(Pairs(S))
         /\ Cardinality(Pairs(T)) + Cardinality(S[p]) = Cardinality(Pairs(S)) + Cardinality(T[p])
<1> DEFINE rest == UNION {{q} \X S[q] : q \in Proc \ {p}}
           A == {p} \X S[p]
           B == {p} \X T[p]
<1>1. Pairs(S) = rest \cup A /\ rest \cap A = {}
  BY DEF Pairs
<1>2. Pairs(T) = rest \cup B /\ rest \cap B = {}
  BY DEF Pairs
<1>3. IsFiniteSet({p}) /\ Cardinality({p}) = 1
  BY FS_Singleton
<1>4. IsFiniteSet(A) /\ Cardinality(A) = Cardinality(S[p]) /\ Cardinality(S[p]) \in Nat
  BY <1>3, FS_Product, FS_CardinalityType
<1>5. IsFiniteSet(B) /\ Cardinality(B) = Cardinality(T[p]) /\ Cardinality(T[p]) \in Nat
  BY <1>3, FS_Product, FS_CardinalityType
<1> HIDE DEF A, B, rest
<1>6. IsFiniteSet(rest) /\ Cardinality(rest) \in Nat
  <2>1. rest \in SUBSET Pairs(S)
    BY <1>1
  <2> QED  BY <2>1, FS_Subset, FS_CardinalityType
<1>7. Cardinality({}) = 0
  BY FS_EmptySet
<1>8. Cardinality(Pairs(S)) = Cardinality(rest) + Cardinality(A)
  <2>1. Cardinality(rest \cup A) = Cardinality(rest) + Cardinality(A) - Cardinality(rest \cap A)
    BY <1>4, <1>6, FS_Union
  <2>2. Cardinality(rest \cup A) = Cardinality(Pairs(S)) /\ Cardinality(rest \cap A) = 0
    BY <1>1, <1>7, Zenon
  <2> QED  BY <1>4, <1>6, <2>1, <2>2
<1>9. IsFiniteSet(Pairs(T)) /\ Cardinality(Pairs(T)) = Cardinality(rest) + Cardinality(B)
  <2>1. IsFiniteSet(rest \cup B)
        /\ Cardinality(rest \cup B) = Cardinality(rest) + Cardinality(B) - Cardinality(rest \cap B)
    BY <1>5, <1>6, FS_Union
  <2>2. rest \cup B = Pairs(T) /\ Cardinality(rest \cap B) = 0
    BY <1>2, <1>7, Zenon
  <2>3. IsFiniteSet(Pairs(T))
    BY <2>1, <2>2, Zenon
  <2>4. Cardinality(Pairs(T)) = Cardinality(rest) + Cardinality(B) - Cardinality(rest \cap B)
    BY <2>1, <2>2, Zenon
  <2> QED  BY <1>5, <1>6, <2>2, <2>3, <2>4
<1> QED  BY <1>4, <1>5, <1>6, <1>8, <1>9

-----------------------------------------------------------------------------
(***************************************************************************)
(* The counts of the nodes t agree with the numbers n of their uses, where *)
(* no mmap of the chains in R was refused: those are not freed too early.  *)
(***************************************************************************)
Matches(t, n, c) ==
  /\ c \in t.files => t.count[c] = n[c]
  /\ Folder(c) \in t.files => t.count[Folder(c)] = n[Folder(c)] + n[c] - t.copied[c]

Present(t, n, c) ==
  /\ c \notin t.files => n[c] = 0
  /\ Folder(c) \notin t.files => n[Folder(c)] = 0

Guarded(t, R, c) == c \in R /\ t.copied[c] = 0

Agree(t, o, n, R) ==
  /\ NodeInv(t, o) /\ R \subseteq Chain
  /\ \A x \in Node : n[x] \in Int
  /\ \A c \in R : n[c] >= 0 /\ n[Folder(c)] >= 0
  /\ t.broken = "no" => \A c \in Chain : /\ Matches(t, n, c)
                                         /\ Guarded(t, R, c) => Present(t, n, c)
  /\ t.broken = "freed" => \E c \in Chain : ~Guarded(t, R, c)

\* what is closed or duplicated is in use
Known(f, n, R) ==
  /\ f \in File
  /\ f \in Node /\ Owner(f) \in R => n[f] >= 1

More(m, n, f) == \A x \in Node : m[x] = n[x] + (IF x = f THEN 1 ELSE 0)

LEMMA AgreeIs ==
  ASSUME NEW t, NEW o, NEW n, NEW R, Agree(t, o, n, R)
  PROVE  /\ t \in Tree /\ NodeInv(t, o) /\ t.files \subseteq Node
         /\ R \subseteq Chain /\ \A x \in Node : n[x] \in Int
         /\ t.count \in [Node -> Nat] /\ t.copied \in [Chain -> Nat]
BY TreeIs DEF Agree, NodeInv

LEMMA MoreIs ==
  ASSUME NEW m, NEW n, NEW f, More(m, n, f), \A x \in Node : n[x] \in Int
  PROVE  /\ \A x \in Node : m[x] \in Int
         /\ \A x \in Node : x # f => m[x] = n[x]
         /\ f \in Node => m[f] = n[f] + 1
BY DEF More

(***************************************************************************)
(* Nobody asks for a node that is not there in a chain that is guarded.    *)
(***************************************************************************)
LEMMA MissingIsUnguarded ==
  ASSUME NEW t, NEW o, NEW n, NEW R, NEW f, Agree(t, o, n, R), Known(f, n, R),
         f \in Node, f \notin t.files, t.broken # "null"
  PROVE  \E c \in Chain : ~Guarded(t, R, c)
<1>1. CASE t.broken = "freed"
  BY <1>1 DEF Agree
<1>2. CASE t.broken = "no"
  <2> DEFINE c == Owner(f)
  <2>1. c \in Chain /\ f \in {c, Folder(c)}
    BY NodeIs
  <2> HIDE DEF c
  <2>2. SUFFICES ASSUME Guarded(t, R, c) PROVE FALSE
    BY <2>1
  <2>3. n[f] = 0
    BY <1>2, <2>1, <2>2 DEF Agree, Present
  <2>4. n[f] >= 1
    BY <2>2 DEF Known, Guarded, c
  <2> QED  BY <2>3, <2>4
<1>3. t.broken \in {"no", "freed", "null"}
  BY AgreeIs, TreeIs
<1> QED  BY <1>1, <1>2, <1>3

LEMMA AgreeSame ==
  ASSUME NEW t, NEW o, NEW n, NEW m, NEW R, Agree(t, o, n, R), \A x \in Node : m[x] = n[x]
  PROVE  Agree(t, o, m, R)
<1>1. R \subseteq Chain /\ \A c \in Chain : m[c] = n[c] /\ m[Folder(c)] = n[Folder(c)]
  BY AgreeIs, NodeIs
<1>2. \A c \in Chain : /\ Matches(t, n, c) <=> Matches(t, m, c)
                       /\ Present(t, n, c) <=> Present(t, m, c)
  BY <1>1 DEF Matches, Present
<1>3. \A c \in R : m[c] >= 0 /\ m[Folder(c)] >= 0
  BY <1>1 DEF Agree
<1> QED  BY <1>2, <1>3 DEF Agree

(***************************************************************************)
(* When a call breaks the nodes.                                           *)
(***************************************************************************)
LEMMA BrokenAgrees ==
  ASSUME NEW t, NEW o, NEW n, NEW m, NEW R, NEW u, Agree(t, o, n, R),
         NodeInv(u, o), HasBroken(u, t), \A x \in Node : m[x] \in Int,
         \A c \in R : m[c] >= 0 /\ m[Folder(c)] >= 0,
         u.broken = "freed" => \E c \in Chain : ~Guarded(t, R, c)
  PROVE  Agree(u, o, m, R)
<1>1. \A c : Guarded(u, R, c) <=> Guarded(t, R, c)
  BY DEF HasBroken, Guarded
<1> QED  BY <1>1 DEF Agree, HasBroken

LEMMA DuplicatedAgrees ==
  ASSUME NEW t, NEW o \in Nat, NEW n, NEW m, NEW R, NEW f,
         Agree(t, o, n, R), Known(f, n, R), More(m, n, f)
  PROVE  Agree(Duplicated(t, f), o, m, R)
<1> DEFINE u == Duplicated(t, f)
<1>1. NodeInv(t, o) /\ f \in File
  BY DEF Agree, Known
<1>2. HasDuplicated(u, t, o, f)
  BY <1>1, DuplicatedIs
<1> HIDE DEF u
<1>3. NodeInv(u, o) /\ t.broken \in {"no", "freed", "null"}
  BY <1>2, AgreeIs, TreeIs DEF HasDuplicated
<1>4. /\ \A x \in Node : n[x] \in Int /\ m[x] \in Int
      /\ \A x \in Node : x # f => m[x] = n[x]
      /\ f \in Node => m[f] = n[f] + 1
  BY MoreIs, AgreeIs
<1>5. \A c \in R : m[c] >= 0 /\ m[Folder(c)] >= 0
  <2> SUFFICES ASSUME NEW c \in R PROVE m[c] >= 0 /\ m[Folder(c)] >= 0
    OBVIOUS
  <2>1. n[c] >= 0 /\ n[Folder(c)] >= 0 /\ c \in Node /\ Folder(c) \in Node
    BY NodeIs DEF Agree
  <2> QED  BY <1>4, <2>1
<1>6. CASE f = Device
  <2>1. u = t /\ \A x \in Node : m[x] = n[x]
    BY <1>2, <1>4, <1>6, NodeIs DEF HasDuplicated
  <2>2. Agree(t, o, m, R)
    BY <2>1, AgreeSame
  <2> QED  BY <2>1, <2>2 DEF u
<1>7. CASE f # Device /\ f \notin t.files
  <2>1. HasBroken(u, t)
    BY <1>2, <1>7 DEF HasDuplicated
  <2>2. ASSUME u.broken = "freed" PROVE \E c \in Chain : ~Guarded(t, R, c)
    <3>1. CASE t.broken = "no"
      <4>1. f \in Node
        BY <1>2, <1>7, <2>2, <3>1 DEF HasDuplicated
      <4> QED  BY <1>7, <3>1, <4>1, MissingIsUnguarded
    <3>2. CASE t.broken # "no"
      <4>1. t.broken = "freed"
        BY <2>1, <2>2, <3>2 DEF HasBroken
      <4> QED  BY <4>1 DEF Agree
    <3> QED  BY <3>1, <3>2
  <2> QED  BY <1>3, <1>4, <1>5, <2>1, <2>2, BrokenAgrees DEF u
<1>8. CASE f \in t.files
  <2>1. /\ f \in Node /\ t.count \in [Node -> Nat] /\ t.copied \in [Chain -> Nat]
        /\ t.broken = "no"
    BY <1>8, AgreeIs DEF Agree, NodeInv
  <2>2. /\ u.broken = "no" /\ u.files = t.files
        /\ \A x \in Node : u.count[x] = IF x = f THEN t.count[x] + 1 ELSE t.count[x]
        /\ \A c \in Chain : u.copied[c] = IF c = f /\ t.nested[c] THEN t.copied[c] + 1
                                                                  ELSE t.copied[c]
    BY <1>2, <1>8, <2>1 DEF HasDuplicated
  <2>3. ASSUME NEW c \in Chain
        PROVE  Matches(u, m, c) /\ (Guarded(u, R, c) => Present(u, m, c))
    <3>1. /\ c \in Node /\ Folder(c) \in Node /\ c # Folder(c)
          /\ t.count[c] \in Nat /\ t.count[Folder(c)] \in Nat /\ t.copied[c] \in Nat
          /\ n[c] \in Int /\ n[Folder(c)] \in Int
      BY <1>4, <2>1, NodeIs
    <3>2. Matches(t, n, c) /\ (Guarded(t, R, c) => Present(t, n, c))
          /\ (Folder(c) \in t.files => t.nested[c])
      BY <2>1 DEF Agree, NodeInv
    <3>3. Guarded(u, R, c) => Guarded(t, R, c)
      BY <2>2, <3>1 DEF Guarded
    <3>4. CASE f = c
      <4>1. /\ u.count[c] = t.count[c] + 1 /\ u.count[Folder(c)] = t.count[Folder(c)]
            /\ m[c] = n[c] + 1 /\ m[Folder(c)] = n[Folder(c)]
            /\ t.nested[c] => u.copied[c] = t.copied[c] + 1
        BY <1>4, <2>2, <3>1, <3>4
      <4>2. Matches(u, m, c)
        BY <2>2, <3>1, <3>2, <4>1 DEF Matches
      <4>3. Guarded(u, R, c) => Present(u, m, c)
        BY <1>8, <2>2, <3>2, <3>3, <3>4, <4>1 DEF Present
      <4> QED  BY <4>2, <4>3
    <3>5. CASE f = Folder(c)
      <4>1. /\ u.count[c] = t.count[c] /\ u.count[Folder(c)] = t.count[Folder(c)] + 1
            /\ m[c] = n[c] /\ m[Folder(c)] = n[Folder(c)] + 1
            /\ u.copied[c] = t.copied[c]
        BY <1>4, <2>2, <3>1, <3>5
      <4>2. Matches(u, m, c)
        BY <2>2, <3>1, <3>2, <4>1 DEF Matches
      <4>3. Guarded(u, R, c) => Present(u, m, c)
        BY <1>8, <2>2, <3>2, <3>3, <3>5, <4>1 DEF Present
      <4> QED  BY <4>2, <4>3
    <3>6. CASE f # c /\ f # Folder(c)
      <4>1. /\ u.count[c] = t.count[c] /\ u.count[Folder(c)] = t.count[Folder(c)]
            /\ m[c] = n[c] /\ m[Folder(c)] = n[Folder(c)]
            /\ u.copied[c] = t.copied[c]
        BY <1>4, <2>2, <3>1, <3>6
      <4> QED  BY <2>2, <3>2, <3>3, <4>1 DEF Matches, Present
    <3> QED  BY <3>4, <3>5, <3>6
  <2> QED  BY <1>3, <1>4, <1>5, <2>2, <2>3, AgreeIs DEF Agree, u
<1> QED  BY <1>6, <1>7, <1>8

LEMMA ReopenedAgrees ==
  ASSUME NEW t, NEW o \in Nat, NEW n, NEW m, NEW R, NEW f \in Node,
         Agree(t, o, n, R), f \in t.files \/ Known(f, n, R), More(m, n, f)
  PROVE  Agree(Reopened(t, f), o, m, R)
<1> DEFINE u == Reopened(t, f)
<1>1. NodeInv(t, o) /\ t \in Tree
  BY AgreeIs
<1>2. HasReopened(u, t, o, f)
  BY <1>1, ReopenedIs
<1> HIDE DEF u
<1>3. NodeInv(u, o) /\ t.broken \in {"no", "freed", "null"}
  BY <1>1, <1>2, TreeIs DEF HasReopened
<1>4. /\ \A x \in Node : n[x] \in Int /\ m[x] \in Int
      /\ \A x \in Node : x # f => m[x] = n[x]
      /\ m[f] = n[f] + 1
  BY MoreIs, AgreeIs
<1>5. \A c \in R : m[c] >= 0 /\ m[Folder(c)] >= 0
  <2> SUFFICES ASSUME NEW c \in R PROVE m[c] >= 0 /\ m[Folder(c)] >= 0
    OBVIOUS
  <2>1. n[c] >= 0 /\ n[Folder(c)] >= 0 /\ c \in Node /\ Folder(c) \in Node
    BY NodeIs DEF Agree
  <2> QED  BY <1>4, <2>1
<1>7. CASE f \notin t.files
  <2>1. HasBroken(u, t)
    BY <1>2, <1>7 DEF HasReopened
  <2>2. ASSUME u.broken = "freed" PROVE \E c \in Chain : ~Guarded(t, R, c)
    <3>1. CASE t.broken = "no"
      BY <1>7, <3>1, MissingIsUnguarded
    <3>2. CASE t.broken # "no"
      <4>1. t.broken = "freed"
        BY <2>1, <2>2, <3>2 DEF HasBroken
      <4> QED  BY <4>1 DEF Agree
    <3> QED  BY <3>1, <3>2
  <2> QED  BY <1>3, <1>4, <1>5, <2>1, <2>2, BrokenAgrees DEF u
<1>8. CASE f \in t.files
  <2>1. t.count \in [Node -> Nat] /\ t.copied \in [Chain -> Nat] /\ t.broken = "no"
    BY <1>8, AgreeIs DEF Agree, NodeInv
  <2>2. /\ u.broken = "no" /\ u.files = t.files /\ u.copied = t.copied
        /\ \A x \in Node : u.count[x] = IF x \in Path(t, f) THEN t.count[x] + 1 ELSE t.count[x]
    BY <1>2, <1>8, <2>1 DEF HasReopened
  <2>3. ASSUME NEW c \in Chain
        PROVE  Matches(u, m, c) /\ (Guarded(u, R, c) => Present(u, m, c))
    <3>1. /\ c \in Node /\ Folder(c) \in Node /\ c # Folder(c)
          /\ t.count[c] \in Nat /\ t.count[Folder(c)] \in Nat /\ t.copied[c] \in Nat
          /\ n[c] \in Int /\ n[Folder(c)] \in Int
      BY <1>4, <2>1, NodeIs
    <3>2. Matches(t, n, c) /\ (Guarded(t, R, c) => Present(t, n, c))
          /\ (Folder(c) \in t.files => t.nested[c])
      BY <2>1 DEF Agree, NodeInv
    <3>3. Guarded(u, R, c) => Guarded(t, R, c)
      BY <2>2 DEF Guarded
    <3>4. CASE f = c
      <4>1. Path(t, f) = IF t.nested[c] THEN {c, Folder(c)} ELSE {c}
        BY <1>1, <3>4, PathIs
      <4>2. /\ u.count[c] = t.count[c] + 1 /\ m[c] = n[c] + 1 /\ m[Folder(c)] = n[Folder(c)]
            /\ t.nested[c] => u.count[Folder(c)] = t.count[Folder(c)] + 1
        BY <1>4, <2>2, <3>1, <3>4, <4>1
      <4>3. Matches(u, m, c)
        BY <2>2, <3>1, <3>2, <4>2 DEF Matches
      <4>4. Guarded(u, R, c) => Present(u, m, c)
        BY <1>8, <2>2, <3>2, <3>3, <3>4, <4>2 DEF Present
      <4> QED  BY <4>3, <4>4
    <3>5. CASE f = Folder(c)
      <4>1. Path(t, f) = {f}
        BY <1>1, <3>5, PathIs, NodeIs
      <4>2. /\ u.count[c] = t.count[c] /\ u.count[Folder(c)] = t.count[Folder(c)] + 1
            /\ m[c] = n[c] /\ m[Folder(c)] = n[Folder(c)] + 1
        BY <1>4, <2>2, <3>1, <3>5, <4>1
      <4>3. Matches(u, m, c)
        BY <2>2, <3>1, <3>2, <4>2 DEF Matches
      <4>4. Guarded(u, R, c) => Present(u, m, c)
        BY <1>8, <2>2, <3>2, <3>3, <3>5, <4>2 DEF Present
      <4> QED  BY <4>3, <4>4
    <3>6. CASE f # c /\ f # Folder(c)
      <4>1. c \notin Path(t, f) /\ Folder(c) \notin Path(t, f)
        BY <1>1, <3>1, <3>6, PathIs, NodeIs
      <4>2. /\ u.count[c] = t.count[c] /\ u.count[Folder(c)] = t.count[Folder(c)]
            /\ m[c] = n[c] /\ m[Folder(c)] = n[Folder(c)]
        BY <1>4, <2>2, <3>1, <3>6, <4>1
      <4> QED  BY <2>2, <3>2, <3>3, <4>2 DEF Matches, Present
    <3> QED  BY <3>4, <3>5, <3>6
  <2> QED  BY <1>3, <1>4, <1>5, <2>2, <2>3, AgreeIs DEF Agree, u
<1> QED  BY <1>7, <1>8

LEMMA ClosedAgrees ==
  ASSUME NEW t, NEW o \in Nat, NEW n, NEW m, NEW R, NEW f,
         Agree(t, o, n, R), Known(f, n, R), More(n, m, f), \A x \in Node : m[x] \in Int
  PROVE  Agree(Closed(t, f), o, m, R)
<1> DEFINE u == Closed(t, f)
<1>1. NodeInv(t, o) /\ f \in File /\ t \in Tree
  BY AgreeIs DEF Known
<1>2. HasClosed(u, t, o, f)
  BY <1>1, ClosedIs
<1> HIDE DEF u
<1>3. NodeInv(u, o) /\ t.broken \in {"no", "freed", "null"}
  BY <1>1, <1>2, TreeIs DEF HasClosed
<1>4. /\ \A x \in Node : n[x] \in Int /\ m[x] \in Int
      /\ \A x \in Node : x # f => m[x] = n[x]
      /\ f \in Node => m[f] = n[f] - 1
  <2>1. /\ \A x \in Node : n[x] \in Int
        /\ \A x \in Node : x # f => n[x] = m[x]
        /\ f \in Node => n[f] = m[f] + 1
    BY MoreIs
  <2> QED  BY <2>1
<1>5. \A c \in R : m[c] >= 0 /\ m[Folder(c)] >= 0
  <2> SUFFICES ASSUME NEW c \in R PROVE m[c] >= 0 /\ m[Folder(c)] >= 0
    OBVIOUS
  <2>1. /\ n[c] >= 0 /\ n[Folder(c)] >= 0 /\ c \in Node /\ Folder(c) \in Node
        /\ Owner(c) = c /\ Owner(Folder(c)) = c
    BY NodeIs DEF Agree
  <2>2. f \in {c, Folder(c)} => n[f] >= 1
    BY <2>1 DEF Known
  <2> QED  BY <1>4, <2>1, <2>2
<1>6. CASE f = Device
  <2>1. u = t /\ \A x \in Node : m[x] = n[x]
    BY <1>2, <1>4, <1>6, NodeIs DEF HasClosed
  <2>2. Agree(t, o, m, R)
    BY <2>1, AgreeSame
  <2> QED  BY <2>1, <2>2 DEF u
<1>7. CASE f # Device /\ f \notin t.files
  <2>1. HasBroken(u, t)
    BY <1>2, <1>7 DEF HasClosed
  <2>2. ASSUME u.broken = "freed" PROVE \E c \in Chain : ~Guarded(t, R, c)
    <3>1. CASE t.broken = "no"
      <4>1. f \in Node
        BY <1>2, <1>7, <2>2, <3>1 DEF HasClosed
      <4> QED  BY <1>7, <3>1, <4>1, MissingIsUnguarded
    <3>2. CASE t.broken # "no"
      <4>1. t.broken = "freed"
        BY <2>1, <2>2, <3>2 DEF HasBroken
      <4> QED  BY <4>1 DEF Agree
    <3> QED  BY <3>1, <3>2
  <2> QED  BY <1>3, <1>4, <1>5, <2>1, <2>2, BrokenAgrees DEF u
<1>8. CASE f \in t.files
  <2>1. /\ f \in Node /\ t.count \in [Node -> Nat] /\ t.copied \in [Chain -> Nat]
        /\ t.broken = "no"
    BY <1>8, AgreeIs DEF Agree, NodeInv
  <2>2. /\ u.broken = "no" /\ u.copied = t.copied
        /\ \A x \in Node : u.count[x] = IF x \in Path(t, f) THEN t.count[x] - 1 ELSE t.count[x]
        /\ u.files = IF t.count[Top(t, Owner(f))] = 1
                     THEN t.files \ {Owner(f), Folder(Owner(f))}
                     ELSE t.files \ {x \in Path(t, f) : t.count[x] = 1}
    BY <1>2, <1>8, <2>1 DEF HasClosed
  <2>3. ASSUME NEW c \in Chain
        PROVE  Matches(u, m, c) /\ (Guarded(u, R, c) => Present(u, m, c))
    <3>1. /\ c \in Node /\ Folder(c) \in Node /\ c # Folder(c)
          /\ t.count[c] \in Nat /\ t.count[Folder(c)] \in Nat /\ t.copied[c] \in Nat
          /\ n[c] \in Int /\ n[Folder(c)] \in Int
          /\ Owner(c) = c /\ Owner(Folder(c)) = c
      BY <1>4, <2>1, NodeIs
    <3>2. /\ Matches(t, n, c) /\ (Guarded(t, R, c) => Present(t, n, c))
          /\ c \in t.files => Top(t, c) \in t.files
          /\ Folder(c) \in t.files => t.nested[c]
      BY <2>1 DEF Agree, NodeInv
    <3>3. Guarded(u, R, c) => Guarded(t, R, c) /\ c \in R /\ t.copied[c] = 0
      BY <2>2 DEF Guarded
    <3>4. c \in R => /\ n[c] >= 0 /\ n[Folder(c)] >= 0
                     /\ f \in {c, Folder(c)} => n[f] >= 1
      BY <2>1, <3>1 DEF Agree, Known
    <3>5. \A x \in t.files : t.count[x] >= 1
      BY <1>1 DEF NodeInv, Positive
    <3>6. CASE f = c /\ ~t.nested[c]
      <4>1. Path(t, f) = {c} /\ Top(t, c) = c /\ Folder(c) \notin t.files
        <5>1. Path(t, c) = {c}
          BY <1>1, <3>1, <3>6, PathIs
        <5> QED  BY <3>2, <3>6, <5>1 DEF Top
      <4>2. /\ u.count[c] = t.count[c] - 1 /\ m[c] = n[c] - 1 /\ m[Folder(c)] = n[Folder(c)]
            /\ Folder(c) \notin u.files
            /\ c \in u.files <=> t.count[c] # 1
        BY <1>4, <1>8, <2>2, <3>1, <3>6, <4>1
      <4>3. Matches(u, m, c)
        BY <1>8, <3>1, <3>2, <3>6, <4>2 DEF Matches
      <4>4. Guarded(u, R, c) => Present(u, m, c)
        BY <1>8, <3>1, <3>2, <3>3, <3>6, <4>1, <4>2 DEF Present, Matches
      <4> QED  BY <4>3, <4>4
    <3>7. CASE f = c /\ t.nested[c]
      <4>1. Path(t, f) = {c, Folder(c)} /\ Top(t, c) = Folder(c) /\ Folder(c) \in t.files
        <5>1. Path(t, c) = {c, Folder(c)}
          BY <1>1, <3>1, <3>7, PathIs
        <5> QED  BY <1>8, <3>2, <3>7, <5>1 DEF Top
      <4>2. /\ u.count[c] = t.count[c] - 1 /\ u.count[Folder(c)] = t.count[Folder(c)] - 1
            /\ m[c] = n[c] - 1 /\ m[Folder(c)] = n[Folder(c)]
            /\ t.count[c] = n[c]
            /\ t.count[Folder(c)] = n[Folder(c)] + n[c] - t.copied[c]
        BY <1>4, <1>8, <2>2, <3>1, <3>2, <3>7, <4>1 DEF Matches
      <4>3. /\ Folder(c) \in u.files <=> t.count[Folder(c)] # 1
            /\ c \in u.files <=> t.count[Folder(c)] # 1 /\ t.count[c] # 1
        BY <1>8, <2>2, <3>1, <3>7, <4>1
      <4>4. t.count[c] >= 1
        BY <1>8, <3>5, <3>7
      <4>5. Matches(u, m, c)
        BY <2>2, <3>1, <4>2 DEF Matches
      <4>6. ASSUME Guarded(u, R, c) PROVE Present(u, m, c)
        <5>1. t.copied[c] = 0 /\ n[Folder(c)] >= 0 /\ n[c] >= 1
          BY <3>3, <3>4, <3>7, <4>6
        <5>2. t.count[Folder(c)] = 1 => m[c] = 0 /\ m[Folder(c)] = 0
          BY <3>1, <4>2, <5>1
        <5>3. t.count[c] = 1 => m[c] = 0
          BY <3>1, <4>2
        <5> QED  BY <4>3, <5>2, <5>3 DEF Present
      <4> QED  BY <4>5, <4>6
    <3>8. CASE f = Folder(c)
      <4>1. /\ Path(t, f) = {f} /\ t.nested[c] /\ Top(t, c) = Folder(c) /\ Owner(f) = c
            /\ Folder(c) \in t.files
        BY <1>1, <1>8, <3>1, <3>2, <3>8, PathIs, NodeIs DEF Top
      <4>2. /\ u.count[c] = t.count[c] /\ u.count[Folder(c)] = t.count[Folder(c)] - 1
            /\ m[c] = n[c] /\ m[Folder(c)] = n[Folder(c)] - 1
            /\ c \in t.files => t.count[c] = n[c]
            /\ t.count[Folder(c)] = n[Folder(c)] + n[c] - t.copied[c]
        BY <1>4, <2>2, <3>1, <3>2, <3>8, <4>1 DEF Matches
      <4>3. /\ Folder(c) \in u.files <=> t.count[Folder(c)] # 1
            /\ c \in u.files <=> t.count[Folder(c)] # 1 /\ c \in t.files
        BY <2>2, <3>1, <3>8, <4>1
      <4>4. Matches(u, m, c)
        BY <2>2, <3>1, <4>2, <4>3 DEF Matches
      <4>5. ASSUME Guarded(u, R, c) PROVE Present(u, m, c)
        <5>1. t.copied[c] = 0 /\ n[Folder(c)] >= 1 /\ n[c] >= 0 /\ Present(t, n, c)
          BY <3>2, <3>3, <3>4, <3>8, <4>5
        <5>2. t.count[Folder(c)] = 1 => m[c] = 0 /\ m[Folder(c)] = 0
          BY <3>1, <4>2, <5>1
        <5>3. c \notin t.files => m[c] = 0
          BY <4>2, <5>1 DEF Present
        <5> QED  BY <4>3, <5>2, <5>3 DEF Present
      <4> QED  BY <4>4, <4>5
    <3>9. CASE f # c /\ f # Folder(c)
      <4>1. c \notin Path(t, f) /\ Folder(c) \notin Path(t, f) /\ Path(t, f) \subseteq Node
        BY <1>1, <2>1, <3>1, <3>9, PathIs, NodeIs
      <4>2. c \notin {Owner(f), Folder(Owner(f))} /\ Folder(c) \notin {Owner(f), Folder(Owner(f))}
        BY <2>1, <3>1, <3>9, NodeIs
      <4>3. /\ u.count[c] = t.count[c] /\ u.count[Folder(c)] = t.count[Folder(c)]
            /\ m[c] = n[c] /\ m[Folder(c)] = n[Folder(c)]
        BY <1>4, <2>2, <3>1, <3>9, <4>1
      <4>4. (c \in u.files <=> c \in t.files) /\ (Folder(c) \in u.files <=> Folder(c) \in t.files)
        BY <2>2, <4>1, <4>2
      <4> QED  BY <2>2, <3>2, <3>3, <4>3, <4>4 DEF Matches, Present
    <3> QED  BY <3>6, <3>7, <3>8, <3>9
  <2> QED  BY <1>3, <1>4, <1>5, <2>2, <2>3, AgreeIs DEF Agree, u
<1> QED  BY <1>6, <1>7, <1>8

LEMMA DuplicateAllAgrees ==
  ASSUME NEW list \in Seq(Fo), NumbersDiffer(list), NEW t, NEW o \in Nat,
         NEW n, NEW m, NEW R, Agree(t, o, n, R),
         \A i \in DOMAIN list : Known(list[i].file, n, R),
         \A c \in Node : m[c] = n[c] + Cardinality(Numbers(list, c))
  PROVE  Agree(DuplicateAll(t, list), o, m, R)
<1> DEFINE len == Len(list)
           card(i, c) == Cardinality(Upto(list, i, c))
           at(i) == [c \in Node |-> n[c] + card(i, c)]
<1>1. len \in Nat /\ DOMAIN list = 1 .. len /\ NodeInv(t, o)
      /\ \A c \in Node : n[c] \in Int
  BY DEF Agree
<1>2. PICK after : IsDuplicating(after, t, o, list)
  BY <1>1, DuplicateAllIs
<1> HIDE DEF len
<1>3. /\ after[0] = t /\ DuplicateAll(t, list) = after[len]
      /\ \A i \in 1 .. len : after[i] = Duplicated(after[i - 1], list[i].file)
  BY <1>2 DEF IsDuplicating, len
<1>4. ASSUME NEW c \in Node
      PROVE  /\ card(0, c) = 0 /\ card(len, c) = Cardinality(Numbers(list, c))
             /\ \A i \in 0 .. len : card(i, c) \in Nat
             /\ \A i \in 1 .. len :
                  card(i, c) = card(i - 1, c) + (IF c = list[i].file THEN 1 ELSE 0)
  BY UptoIs, FS_EmptySet DEF len
<1> HIDE DEF card
<1>5. \A i \in 0 .. len : Agree(after[i], o, at(i), R)
  <2> DEFINE Bad == {i \in 0 .. len : ~Agree(after[i], o, at(i), R)}
  <2> SUFFICES ASSUME Bad # {} PROVE FALSE
    OBVIOUS
  <2>1. Bad \in SUBSET Nat
    BY <1>1
  <2>2. PICK k \in Bad : \A i \in Bad : k <= i
    <3> HIDE DEF Bad
    <3> QED  BY <2>1, MinIsLeast
  <2>3. k \in 0 .. len /\ ~Agree(after[k], o, at(k), R)
    BY <2>2
  <2>4. CASE k = 0
    <3>1. \A c \in Node : at(0)[c] = n[c]
      BY <1>1, <1>4
    <3> HIDE DEF at
    <3> QED  BY <1>3, <2>3, <2>4, <3>1, AgreeSame
  <2>5. CASE k # 0
    <3> DEFINE f == list[k].file
               j == k - 1
    <3>1. k \in 1 .. len /\ j \in 0 .. len /\ ~(k <= j)
      BY <1>1, <2>3, <2>5
    <3>2. Agree(after[j], o, at(j), R)
      BY <2>2, <3>1
    <3>3. Known(f, n, R) /\ after[k] = Duplicated(after[j], f)
      BY <1>1, <1>3, <3>1
    <3>4. \A c \in Node : /\ at(j)[c] = n[c] + card(j, c) /\ card(j, c) \in Nat
                           /\ at(k)[c] = n[c] + card(k, c)
                           /\ card(k, c) = card(j, c) + (IF c = f THEN 1 ELSE 0)
      BY <1>4, <3>1
    <3> HIDE DEF at, f, j
    <3>5. Known(f, at(j), R)
      <4>1. ASSUME f \in Node, n[f] >= 1 PROVE at(j)[f] >= 1
        BY <1>1, <3>4, <4>1
      <4> QED  BY <3>3, <4>1 DEF Known
    <3>6. More(at(k), at(j), f)
      BY <1>1, <3>4 DEF More
    <3>7. Agree(Duplicated(after[j], f), o, at(k), R)
      BY <3>2, <3>5, <3>6, DuplicatedAgrees
    <3> QED  BY <2>3, <3>3, <3>7
  <2> QED  BY <2>4, <2>5
<1>6. \A c \in Node : m[c] = at(len)[c]
  BY <1>4
<1>7. Agree(after[len], o, at(len), R)
  BY <1>1, <1>5
<1> HIDE DEF at
<1> QED  BY <1>3, <1>6, <1>7, AgreeSame

LEMMA CloseAllAgrees ==
  ASSUME NEW list \in Seq(Fo), NumbersDiffer(list), NEW t, NEW o \in Nat,
         NEW n, NEW m, NEW R, Agree(t, o, n, R),
         \A i \in DOMAIN list : Known(list[i].file, n, R),
         \A c \in Node : n[c] = m[c] + Cardinality(Numbers(list, c)) /\ m[c] \in Int,
         \A c \in Node : Owner(c) \in R => m[c] >= 0
  PROVE  Agree(CloseAll(t, list), o, m, R)
<1> DEFINE len == Len(list)
           card(i, c) == Cardinality(Upto(list, i, c))
           at(i) == [c \in Node |-> n[c] - card(i, c)]
<1>1. len \in Nat /\ DOMAIN list = 1 .. len /\ NodeInv(t, o)
      /\ \A c \in Node : n[c] \in Int
  BY DEF Agree
<1>2. PICK after : IsClosing(after, t, o, list)
  BY <1>1, CloseAllIs
<1> HIDE DEF len
<1>3. /\ after[0] = t /\ CloseAll(t, list) = after[len]
      /\ \A i \in 1 .. len : after[i] = Closed(after[i - 1], list[i].file)
  BY <1>2 DEF IsClosing, len
<1>4. ASSUME NEW c \in Node
      PROVE  /\ card(0, c) = 0 /\ card(len, c) = Cardinality(Numbers(list, c))
             /\ \A i \in 0 .. len : card(i, c) \in Nat
                                    /\ card(i, c) <= Cardinality(Numbers(list, c))
             /\ \A i \in 1 .. len :
                  card(i, c) = card(i - 1, c) + (IF c = list[i].file THEN 1 ELSE 0)
  BY UptoIs, FS_EmptySet DEF len
<1> HIDE DEF card
<1>5. \A i \in 0 .. len : Agree(after[i], o, at(i), R)
  <2> DEFINE Bad == {i \in 0 .. len : ~Agree(after[i], o, at(i), R)}
  <2> SUFFICES ASSUME Bad # {} PROVE FALSE
    OBVIOUS
  <2>1. Bad \in SUBSET Nat
    BY <1>1
  <2>2. PICK k \in Bad : \A i \in Bad : k <= i
    <3> HIDE DEF Bad
    <3> QED  BY <2>1, MinIsLeast
  <2>3. k \in 0 .. len /\ ~Agree(after[k], o, at(k), R)
    BY <2>2
  <2>4. CASE k = 0
    <3>1. \A c \in Node : at(0)[c] = n[c]
      BY <1>1, <1>4
    <3> HIDE DEF at
    <3> QED  BY <1>3, <2>3, <2>4, <3>1, AgreeSame
  <2>5. CASE k # 0
    <3> DEFINE f == list[k].file
               j == k - 1
    <3>1. k \in 1 .. len /\ j \in 0 .. len /\ k \in 0 .. len /\ ~(k <= j)
      BY <1>1, <2>3, <2>5
    <3>2. Agree(after[j], o, at(j), R)
      BY <2>2, <3>1
    <3>3. Known(f, n, R) /\ after[k] = Closed(after[j], f)
      BY <1>1, <1>3, <3>1
    <3>4. \A c \in Node : /\ at(j)[c] = n[c] - card(j, c) /\ card(j, c) \in Nat
                           /\ at(k)[c] = n[c] - card(k, c) /\ card(k, c) \in Nat
                           /\ card(k, c) = card(j, c) + (IF c = f THEN 1 ELSE 0)
                           /\ card(k, c) <= Cardinality(Numbers(list, c))
      BY <1>4, <3>1
    <3> HIDE DEF at, f, j
    <3>5. Known(f, at(j), R)
      <4>1. ASSUME f \in Node, Owner(f) \in R PROVE at(j)[f] >= 1
        <5>1. n[f] = m[f] + Cardinality(Numbers(list, f)) /\ m[f] \in Int /\ m[f] >= 0
          BY <4>1
        <5>2. Cardinality(Numbers(list, f)) \in Nat
          BY NumbersFinite
        <5> QED  BY <3>4, <4>1, <5>1, <5>2
      <4> QED  BY <3>3, <4>1 DEF Known
    <3>6. More(at(j), at(k), f) /\ \A c \in Node : at(k)[c] \in Int
      BY <1>1, <3>4 DEF More
    <3>7. Agree(Closed(after[j], f), o, at(k), R)
      BY <3>2, <3>5, <3>6, ClosedAgrees
    <3> QED  BY <2>3, <3>3, <3>7
  <2> QED  BY <2>4, <2>5
<1>6. \A c \in Node : m[c] = at(len)[c]
  <2>1. \A c \in Node : Cardinality(Numbers(list, c)) \in Nat
    BY NumbersFinite
  <2> QED  BY <1>4, <2>1
<1>7. Agree(after[len], o, at(len), R)
  BY <1>1, <1>5
<1> HIDE DEF at
<1> QED  BY <1>3, <1>6, <1>7, AgreeSame

(***************************************************************************)
(* VFSM::open, of a new chain or of nodes that are there, is one more use. *)
(***************************************************************************)
LEMMA OpenedAgrees ==
  ASSUME NEW t, NEW o \in Nat, NEW n, NEW m, NEW R, NEW nested \in BOOLEAN,
         Agree(t, o, n, R), t.broken = "no", o + 1 \in Chain,
         More(m, n, o + 1), n[o + 1] = 0, n[Folder(o + 1)] = 0
  PROVE  Agree(Opened(t, o + 1, nested), o + 1, m, R)
<1> DEFINE f == o + 1
           u == Opened(t, f, nested)
<1>1. NodeInv(t, o) /\ t \in Tree /\ f \in Chain
  BY AgreeIs
<1>2. NodeInv(u, f)
  BY <1>1, OpenedKeeps
<1>3. HasNew(u, t, f, nested)
  BY <1>1, OpenedIs
<1>f. f > o /\ ~(f <= o) /\ n[f] = 0 /\ n[Folder(f)] = 0
  OBVIOUS
<1>m. More(m, n, f)
  OBVIOUS
<1> HIDE DEF f, u
<1>4. /\ \A x \in Node : n[x] \in Int /\ m[x] \in Int
      /\ \A x \in Node : x # f => m[x] = n[x]
      /\ m[f] = n[f] + 1
  BY <1>1, <1>m, MoreIs, AgreeIs, NodeIs
<1>5. \A c \in R : m[c] >= 0 /\ m[Folder(c)] >= 0
  <2> SUFFICES ASSUME NEW c \in R PROVE m[c] >= 0 /\ m[Folder(c)] >= 0
    OBVIOUS
  <2>1. n[c] >= 0 /\ n[Folder(c)] >= 0 /\ c \in Node /\ Folder(c) \in Node
    BY NodeIs DEF Agree
  <2> QED  BY <1>4, <2>1
<1>6. /\ u.nested = [t.nested EXCEPT ![f] = nested]
      /\ u.files = t.files \cup (IF nested THEN {f, Folder(f)} ELSE {f})
      /\ \A x \in Node : u.count[x] = IF x = f \/ (nested /\ x = Folder(f)) THEN 1 ELSE t.count[x]
      /\ u.copied = t.copied /\ u.broken = "no"
  BY <1>3 DEF HasNew
<1>7. f \notin t.files /\ Folder(f) \notin t.files /\ t.copied[f] = 0
  BY <1>1, <1>f, NodeIs DEF NodeInv
<1>8. ASSUME NEW c \in Chain
      PROVE  Matches(u, m, c) /\ (Guarded(u, R, c) => Present(u, m, c))
  <2>1. /\ c \in Node /\ Folder(c) \in Node /\ c # Folder(c)
        /\ n[c] \in Int /\ n[Folder(c)] \in Int
    BY <1>4, NodeIs
  <2>2. CASE c = f
    <3>1. /\ m[c] = 1 /\ m[Folder(c)] = 0 /\ u.count[c] = 1 /\ u.copied[c] = 0
          /\ c \in u.files
          /\ Folder(c) \in u.files => u.count[Folder(c)] = 1
      BY <1>4, <1>6, <1>7, <1>f, <2>1, <2>2
    <3> QED  BY <3>1 DEF Matches, Present
  <2>3. CASE c # f
    <3>1. /\ c \notin {f, Folder(f)} /\ Folder(c) \notin {f, Folder(f)}
      BY <1>1, <2>3, NodeIs
    <3>2. /\ u.count[c] = t.count[c] /\ u.count[Folder(c)] = t.count[Folder(c)]
          /\ m[c] = n[c] /\ m[Folder(c)] = n[Folder(c)] /\ u.copied[c] = t.copied[c]
          /\ c \in u.files <=> c \in t.files
          /\ Folder(c) \in u.files <=> Folder(c) \in t.files
      BY <1>4, <1>6, <2>1, <3>1
    <3>3. Matches(t, n, c) /\ (Guarded(t, R, c) => Present(t, n, c))
      BY DEF Agree
    <3> QED  BY <3>2, <3>3 DEF Matches, Present, Guarded
  <2> QED  BY <2>2, <2>3
<1>9. Agree(u, f, m, R)
  BY <1>2, <1>4, <1>5, <1>6, <1>8 DEF Agree
<1> QED  BY <1>9 DEF u, f

LEMMA AgreeShrinks ==
  ASSUME NEW t, NEW o, NEW n, NEW R, NEW S \in SUBSET R, Agree(t, o, n, R)
  PROVE  Agree(t, o, n, S)
<1>1. \A c \in Chain : Guarded(t, S, c) => Guarded(t, R, c)
  BY DEF Guarded
<1> QED  BY <1>1 DEF Agree

-----------------------------------------------------------------------------
(***************************************************************************)
(* The inductive invariant.  Count is what the counts of the open nodes    *)
(* should be, Unrefused the chains whose counts were not taken away.       *)
(***************************************************************************)
Count == [x \in Node |-> Counted(x)]

Unrefused == {c \in Chain : refused[c] = 0 /\ refused[Folder(c)] = 0}

NamesKnown(list) == \A f \in Names(list) : f \in Node => Owner(f) <= opened

RecordInv ==
  /\ alive \subseteq Proc /\ \A q \in Proc \ alive : table[q] = <<>>
  /\ maps \in [Proc -> [Node -> Nat]]
  /\ left \in [Node -> Nat] /\ refused \in [Node -> Nat] /\ lost \in [Node -> Nat]
  /\ \A x \in Node : Owner(x) > opened =>
       /\ left[x] = 0 /\ refused[x] = 0 /\ lost[x] = 0
       /\ \A p \in Proc : maps[p][x] = 0
  /\ \A p \in Proc : NamesKnown(table[p])
  /\ \A x \in Node : IsFiniteSet(Pairs(Named(x))) /\ IsFiniteSet(Pairs(Mapped(x)))

FilesInv ==
  /\ TableInv
  /\ RecordInv
  /\ Agree(tree, opened, Count, Unrefused)

LEMMA FirstNumbers == \A k \in Nat : IsFiniteSet(1 .. k) /\ Cardinality(1 .. k) = k
<1> SUFFICES ASSUME NEW k \in Nat PROVE IsFiniteSet(1 .. k) /\ Cardinality(1 .. k) = k
  OBVIOUS
<1>1. IsFiniteSet(1 .. k) /\ Cardinality(1 .. k) = IF 1 > k THEN 0 ELSE k - 1 + 1
  BY FS_Interval
<1> QED  BY <1>1

LEMMA CountIs ==
  ASSUME TableInv, RecordInv, NEW x \in Node
  PROVE  /\ References(x) \in Nat /\ Mappings(x) \in Nat /\ refused[x] \in Nat
         /\ left[x] \in Nat /\ Cardinality(Pairs(Mapped(x))) \in Nat
         /\ lost[x] \in Nat /\ Uses(x) \in Nat /\ Uses(x) = References(x) + Mappings(x) + lost[x]
         /\ Count[x] = Uses(x) - refused[x] /\ Count[x] \in Int
         /\ \A p \in Proc : /\ Cardinality(Numbers(table[p], x)) \in Nat
                            /\ Cardinality(Numbers(table[p], x)) <= References(x)
                            /\ maps[p][x] \in Nat /\ maps[p][x] <= Mappings(x)
<1>1. /\ IsFiniteSet(Pairs(Named(x))) /\ IsFiniteSet(Pairs(Mapped(x)))
      /\ refused[x] \in Nat /\ left[x] \in Nat /\ lost[x] \in Nat /\ \A p \in Proc : maps[p][x] \in Nat
  BY DEF RecordInv
<1>2. References(x) \in Nat /\ Cardinality(Pairs(Mapped(x))) \in Nat /\ Mappings(x) \in Nat
  <2>1. References(x) \in Nat /\ Cardinality(Pairs(Mapped(x))) \in Nat
    BY <1>1, FS_CardinalityType DEF References
  <2> QED  BY <1>1, <2>1 DEF Mappings
<1>3. Count[x] = Uses(x) - refused[x] /\ Uses(x) = References(x) + Mappings(x) + lost[x]
  BY DEF Count, Counted, Uses
<1>4. ASSUME NEW p \in Proc
      PROVE  /\ Cardinality(Numbers(table[p], x)) \in Nat
             /\ Cardinality(Numbers(table[p], x)) <= References(x)
  <2>1. table[p] \in Seq(Fo) /\ Named(x)[p] = Numbers(table[p], x)
    BY DEF TableInv, Named
  <2>2. IsFiniteSet(Named(x)[p]) /\ Cardinality(Numbers(table[p], x)) \in Nat
    BY <2>1, NumbersFinite
  <2>3. Cardinality(Named(x)[p]) <= Cardinality(Pairs(Named(x)))
    BY <1>1, <2>2, OneChanges
  <2> QED  BY <2>1, <2>2, <2>3 DEF References
<1>5. ASSUME NEW p \in Proc PROVE maps[p][x] <= Mappings(x)
  <2>1. Mapped(x)[p] = 1 .. maps[p][x] /\ maps[p][x] \in Nat
    BY <1>1 DEF Mapped
  <2>2. IsFiniteSet(Mapped(x)[p]) /\ Cardinality(Mapped(x)[p]) = maps[p][x]
    BY <2>1, FirstNumbers
  <2>3. Cardinality(Mapped(x)[p]) <= Cardinality(Pairs(Mapped(x)))
    BY <1>1, <2>2, OneChanges
  <2> QED  BY <1>1, <1>2, <2>1, <2>2, <2>3 DEF Mappings
<1> QED  BY <1>1, <1>2, <1>3, <1>4, <1>5

(***************************************************************************)
(* Closing and duplicating a descriptor's file is closing and duplicating  *)
(* a known one.                                                            *)
(***************************************************************************)
LEMMA DescriptorKnown ==
  ASSUME FilesInv, NEW p \in Proc, NEW i \in DOMAIN table[p]
  PROVE  /\ Known(Of(p, i), Count, Unrefused)
         /\ Of(p, i) \in Node => Owner(Of(p, i)) <= opened
<1> DEFINE f == Of(p, i)
<1>1. TableInv /\ RecordInv
  BY DEF FilesInv
<1>2. f \in File
  BY <1>1, ListFacts
<1>3. f \in Names(table[p])
  BY DEF Names, Of
<1>4. f \in Node => Owner(f) <= opened
  BY <1>1, <1>3 DEF RecordInv, NamesKnown
<1>5. ASSUME f \in Node, Owner(f) \in Unrefused PROVE Count[f] >= 1
  <2>1. refused[f] = 0
    <3>1. f \in {Owner(f), Folder(Owner(f))}
      BY <1>5, NodeIs
    <3> QED  BY <1>5, <3>1 DEF Unrefused
  <2>2. table[p][i].fd \in Numbers(table[p], f)
    BY DEF Numbers, Of
  <2>3. IsFiniteSet(Numbers(table[p], f))
    BY <1>1, NumbersFinite DEF TableInv
  <2>4. Cardinality(Numbers(table[p], f)) # 0
    BY <2>2, <2>3, FS_EmptySet
  <2> HIDE DEF f
  <2> QED  BY <1>1, <1>5, <2>1, <2>4, CountIs
<1> QED  BY <1>2, <1>4, <1>5 DEF Known

(***************************************************************************)
(* A step that gives process p another list changes the references by what *)
(* the lists differ in.                                                    *)
(***************************************************************************)
Relisted(p, list) ==
  /\ table' = [table EXCEPT ![p] = list]
  /\ \A c \in Node :
       /\ IsFiniteSet(Pairs(Named(c)))' /\ References(c)' \in Nat
       /\ References(c)' + Cardinality(Numbers(table[p], c))
            = References(c) + Cardinality(Numbers(list, c))

LEMMA ReferencesChange ==
  ASSUME TableInv, RecordInv, NEW p \in Proc, NEW list \in Seq(Fo),
         table' = [table EXCEPT ![p] = list]
  PROVE  Relisted(p, list)
<1> SUFFICES ASSUME NEW c \in Node
             PROVE  /\ IsFiniteSet(Pairs(Named(c)')) /\ Cardinality(Pairs(Named(c)')) \in Nat
                    /\ Cardinality(Pairs(Named(c)')) + Cardinality(Numbers(table[p], c))
                         = Cardinality(Pairs(Named(c))) + Cardinality(Numbers(list, c))
  BY DEF Relisted, References, Pairs
<1>1. table \in [Proc -> Seq(Fo)] /\ table[p] \in Seq(Fo)
  BY DEF TableInv
<1>2. Named(c)' = [q \in Proc |-> Numbers(table'[q], c)]
  BY DEF Named, Numbers
<1>3. Named(c)[p] = Numbers(table[p], c) /\ Named(c)'[p] = Numbers(list, c)
  BY <1>1, <1>2 DEF Named
<1>4. \A q \in Proc : q # p => Named(c)'[q] = Named(c)[q]
  BY <1>1, <1>2 DEF Named
<1>5. IsFiniteSet(Named(c)[p]) /\ IsFiniteSet(Named(c)'[p])
  BY <1>1, <1>3, NumbersFinite
<1>6. IsFiniteSet(Pairs(Named(c)))
  BY DEF RecordInv
<1> DEFINE S == Named(c)
           T == Named(c)'
<1>7. /\ \A q \in Proc : q # p => T[q] = S[q]
      /\ IsFiniteSet(S[p]) /\ IsFiniteSet(T[p]) /\ IsFiniteSet(Pairs(S))
      /\ S[p] = Numbers(table[p], c) /\ T[p] = Numbers(list, c)
  BY <1>3, <1>4, <1>5, <1>6
<1> HIDE DEF S, T
<1>8. /\ IsFiniteSet(Pairs(T)) /\ Cardinality(Pairs(T)) \in Nat
      /\ Cardinality(Pairs(T)) + Cardinality(S[p]) = Cardinality(Pairs(S)) + Cardinality(T[p])
  BY <1>7, OneChanges
<1> QED  BY <1>7, <1>8 DEF S, T

(***************************************************************************)
(* So for the mappings of a process.                                       *)
(***************************************************************************)
LEMMA MappedChange ==
  ASSUME TableInv, RecordInv, NEW p \in Proc, NEW c \in Node,
         maps' \in [Proc -> [Node -> Nat]],
         \A q \in Proc : q # p => maps'[q][c] = maps[q][c]
  PROVE  /\ IsFiniteSet(Pairs(Mapped(c)))' /\ Cardinality(Pairs(Mapped(c)))' \in Nat
         /\ Cardinality(Pairs(Mapped(c)))' + maps[p][c]
              = Cardinality(Pairs(Mapped(c))) + maps'[p][c]
<1> SUFFICES /\ IsFiniteSet(Pairs(Mapped(c)')) /\ Cardinality(Pairs(Mapped(c)')) \in Nat
             /\ Cardinality(Pairs(Mapped(c)')) + maps[p][c]
                  = Cardinality(Pairs(Mapped(c))) + maps'[p][c]
  BY DEF Pairs
<1>1. maps[p][c] \in Nat /\ maps'[p][c] \in Nat
  BY DEF RecordInv
<1>2. Mapped(c)' = [q \in Proc |-> 1 .. maps'[q][c]]
  BY DEF Mapped
<1>3. Mapped(c)[p] = 1 .. maps[p][c] /\ Mapped(c)'[p] = 1 .. maps'[p][c]
  BY <1>2 DEF Mapped
<1>4. \A q \in Proc : q # p => Mapped(c)'[q] = Mapped(c)[q]
  BY <1>2 DEF Mapped
<1>5. IsFiniteSet(Pairs(Mapped(c)))
  BY DEF RecordInv
<1> DEFINE S == Mapped(c)
           T == Mapped(c)'
<1>7. /\ \A q \in Proc : q # p => T[q] = S[q]
      /\ IsFiniteSet(S[p]) /\ IsFiniteSet(T[p]) /\ IsFiniteSet(Pairs(S))
      /\ Cardinality(S[p]) = maps[p][c] /\ Cardinality(T[p]) = maps'[p][c]
  BY <1>1, <1>3, <1>4, <1>5, FirstNumbers
<1> HIDE DEF S, T
<1>8. /\ IsFiniteSet(Pairs(T)) /\ Cardinality(Pairs(T)) \in Nat
      /\ Cardinality(Pairs(T)) + Cardinality(S[p]) = Cardinality(Pairs(S)) + Cardinality(T[p])
  BY <1>7, OneChanges
<1> QED  BY <1>7, <1>8 DEF S, T

Recounted(p, list) ==
  \A x \in Node : /\ Count'[x] \in Int
                  /\ Count'[x] + Cardinality(Numbers(table[p], x)) + lost[x]
                       = Count[x] + Cardinality(Numbers(list, x)) + lost'[x]

LEMMA TableChange ==
  ASSUME TableInv, RecordInv, NEW p \in Proc, NEW list \in Seq(Fo), NumbersDiffer(list),
         table' = [table EXCEPT ![p] = list],
         opened' \in 0 .. MaxOpens, opened <= opened', lost' \in [Node -> Nat],
         \A x \in Node : Owner(x) > opened' => lost'[x] = 0,
         UNCHANGED <<maps, left, refused>>,
         alive \subseteq alive', p \in alive', alive' \subseteq Proc,
         \A f \in Names(list) : f \in Node => Owner(f) <= opened'
  PROVE  TableInv' /\ RecordInv' /\ Recounted(p, list)
<1>1. TableInv'
  BY OneListChanges
<1>2. Relisted(p, list)
  BY ReferencesChange
<1>3. table \in [Proc -> Seq(Fo)] /\ opened \in Nat /\ opened' \in Nat
  BY ChainIs DEF TableInv
<1>k. \A x \in Node : Owner(x) \in Nat
  BY NodeIs, ChainIs
<1>4. \A x : Mapped(x)' = Mapped(x) /\ Pairs(Mapped(x))' = Pairs(Mapped(x))
             /\ Mappings(x)' = Mappings(x)
  BY DEF Mapped, Pairs, Mappings
<1>5. RecordInv'
  <2>1. ASSUME NEW q \in Proc \ alive' PROVE table'[q] = <<>>
    <3>1. q # p /\ q \in Proc \ alive
      OBVIOUS
    <3> QED  BY <1>3, <3>1 DEF RecordInv
  <2>2. \A x \in Node : Owner(x) > opened' => /\ left'[x] = 0 /\ refused'[x] = 0
                                              /\ lost'[x] = 0 /\ \A q \in Proc : maps'[q][x] = 0
    <3>1. \A x \in Node : Owner(x) > opened' => Owner(x) > opened
      BY <1>3, <1>k
    <3> QED  BY <3>1 DEF RecordInv
  <2>3. ASSUME NEW q \in Proc
        PROVE  \A f \in Names(table'[q]) : f \in Node => Owner(f) <= opened'
    <3>1. CASE q = p
      BY <1>3, <3>1
    <3>2. CASE q # p
      <4>1. table'[q] = table[q]
        BY <1>3, <3>2
      <4>2. \A f \in Names(table[q]) : f \in Node => Owner(f) <= opened
        BY DEF RecordInv, NamesKnown
      <4>3. \A f \in Node : Owner(f) <= opened => Owner(f) <= opened'
        BY <1>3, <1>k
      <4> QED  BY <4>1, <4>2, <4>3
    <3> QED  BY <3>1, <3>2
  <2>4. \A x \in Node : IsFiniteSet(Pairs(Named(x)))' /\ IsFiniteSet(Pairs(Mapped(x)))'
    BY <1>2, <1>4 DEF Relisted, RecordInv
  <2>5. \A q \in Proc : NamesKnown(table[q])'
    BY <2>3 DEF NamesKnown, Names
  <2> QED  BY <2>1, <2>2, <2>4, <2>5 DEF RecordInv
<1>6. ASSUME NEW x \in Node
      PROVE  /\ Count'[x] \in Int
             /\ Count'[x] + Cardinality(Numbers(table[p], x)) + lost[x]
                  = Count[x] + Cardinality(Numbers(list, x)) + lost'[x]
  <2>1. Count'[x] = Uses(x)' - refused[x] /\ Uses(x)' = References(x)' + Mappings(x) + lost'[x]
    <3>1. Count'[x] = Uses(x)' - refused[x]
      BY DEF Count, Counted
    <3>2. Uses(x)' = References(x)' + Mappings(x) + lost'[x]
      BY <1>4 DEF Uses
    <3> QED  BY <3>1, <3>2
  <2>2. /\ References(x) \in Nat /\ Mappings(x) \in Nat /\ refused[x] \in Nat /\ lost[x] \in Nat
        /\ Count[x] = References(x) + Mappings(x) + lost[x] - refused[x]
        /\ Cardinality(Numbers(table[p], x)) \in Nat
    <3>1. Count[x] = Uses(x) - refused[x] /\ Uses(x) = References(x) + Mappings(x) + lost[x]
      BY CountIs
    <3>2. /\ References(x) \in Nat /\ Mappings(x) \in Nat /\ refused[x] \in Nat /\ lost[x] \in Nat
          /\ Cardinality(Numbers(table[p], x)) \in Nat
      BY CountIs
    <3> QED  BY <3>1, <3>2
  <2>3. References(x)' \in Nat /\ References(x)' + Cardinality(Numbers(table[p], x))
                                  = References(x) + Cardinality(Numbers(list, x))
    BY <1>2 DEF Relisted
  <2>4. Cardinality(Numbers(list, x)) \in Nat /\ lost'[x] \in Nat
    BY NumbersFinite
  <2> DEFINE n == Count[x]
             m == Count'[x]
             r == References(x)
             s == References(x)'
             k == Cardinality(Numbers(table[p], x))
             l == Cardinality(Numbers(list, x))
             a == Mappings(x)
             y == refused[x]
             z == lost[x]
             w == lost'[x]
             v == Uses(x)'
  <2>5. /\ m = v - y /\ v = s + a + w /\ n = r + a + z - y /\ s + k = r + l
        /\ r \in Nat /\ s \in Nat /\ k \in Nat /\ l \in Nat /\ a \in Nat /\ y \in Nat
        /\ z \in Nat /\ w \in Nat
    BY <2>1, <2>2, <2>3, <2>4
  <2> HIDE DEF n, m, r, s, k, l, a, y, z, w, v
  <2>6. m \in Int /\ m + k + z = n + l + w
    BY <2>5
  <2> QED  BY <2>6 DEF n, m, k, l, z, w
<1> QED  BY <1>1, <1>5, <1>6 DEF Recounted

(***************************************************************************)
(* Nothing uses a node of a chain that has not been made yet.              *)
(***************************************************************************)
LEMMA FreshIs ==
  ASSUME TableInv, RecordInv, NEW x \in Node, Owner(x) > opened
  PROVE  Count[x] = 0
<1>1. \A p \in Proc : Named(x)[p] = {}
  <2> SUFFICES ASSUME NEW p \in Proc, NEW i \in DOMAIN table[p], table[p][i].file = x
               PROVE  FALSE
    BY DEF Named, Numbers
  <2>1. x \in Names(table[p])
    BY DEF Names
  <2>2. Owner(x) <= opened
    BY <2>1 DEF RecordInv, NamesKnown
  <2> QED  BY <2>2, NodeIs, ChainIs DEF TableInv
<1>2. \A p \in Proc : Mapped(x)[p] = {}
  <2>1. \A p \in Proc : maps[p][x] = 0
    BY DEF RecordInv
  <2> QED  BY <2>1 DEF Mapped
<1>3. Pairs(Named(x)) = {} /\ Pairs(Mapped(x)) = {}
  BY <1>1, <1>2 DEF Pairs
<1>4. References(x) = 0 /\ Cardinality(Pairs(Mapped(x))) = 0
  BY <1>3, FS_EmptySet DEF References
<1>5. left[x] = 0 /\ refused[x] = 0 /\ lost[x] = 0
  BY DEF RecordInv
<1> QED  BY <1>4, <1>5 DEF Count, Counted, Uses, Mappings

-----------------------------------------------------------------------------
(***************************************************************************)
(* The invariant holds at the beginning and every call keeps it.           *)
(***************************************************************************)
LEMMA FilesInit == Init => FilesInv
<1> SUFFICES ASSUME Init PROVE FilesInv
  OBVIOUS
<1>1. TableInv
  BY TableInit
<1>2. /\ table = [p \in Proc |-> IF p = First THEN Standard ELSE <<>>]
      /\ alive = {First} /\ opened = 0
      /\ tree = [nested |-> [c \in Chain |-> FALSE], files |-> {}, count |-> Uncounted,
                 copied |-> [c \in Chain |-> 0],
                 child |-> Nil, next |-> Unlinks, pre |-> Unlinks, broken |-> "no"]
      /\ maps = [p \in Proc |-> Uncounted]
      /\ left = Uncounted /\ refused = Uncounted /\ lost = Uncounted
  BY DEF Init
<1>3. ASSUME NEW p \in Proc, NEW f \in Names(table[p]) PROVE f = Device
  <2>1. PICK i \in DOMAIN table[p] : f = table[p][i].file
    BY DEF Names
  <2>2. CASE p = First
    <3>1. table[p] = Standard
      BY <1>2, <2>2
    <3>2. i \in DOMAIN Standard /\ f = Standard[i].file
      BY <2>1, <3>1
    <3> QED  BY <3>2 DEF Standard
  <2>3. CASE p # First
    <3>1. table[p] = <<>>
      BY <1>2, <2>3
    <3> QED  BY <3>1
  <2> QED  BY <2>2, <2>3
<1>4. \A x \in Node : Pairs(Named(x)) = {} /\ Pairs(Mapped(x)) = {}
  <2> SUFFICES ASSUME NEW x \in Node, NEW p \in Proc
               PROVE  Named(x)[p] = {} /\ Mapped(x)[p] = {}
    BY DEF Pairs
  <2>1. \A i \in DOMAIN table[p] : table[p][i].file # x
    BY <1>3, NodeIs DEF Names
  <2>2. maps[p][x] = 0
    BY <1>2, UncountedIs
  <2> QED  BY <2>1, <2>2 DEF Named, Numbers, Mapped
<1>5. RecordInv
  <2>1. alive \subseteq Proc /\ \A q \in Proc \ alive : table[q] = <<>>
    BY <1>2, FilesAssumption
  <2>2. /\ maps \in [Proc -> [Node -> Nat]]
        /\ left \in [Node -> Nat] /\ refused \in [Node -> Nat] /\ lost \in [Node -> Nat]
        /\ \A x \in Node : /\ left[x] = 0 /\ refused[x] = 0 /\ lost[x] = 0
                           /\ \A p \in Proc : maps[p][x] = 0
    BY <1>2, UncountedIs
  <2>3. \A p \in Proc : NamesKnown(table[p])
    BY <1>3, NodeIs DEF NamesKnown
  <2>4. \A x \in Node : IsFiniteSet(Pairs(Named(x))) /\ IsFiniteSet(Pairs(Mapped(x)))
    BY <1>4, FS_EmptySet
  <2> QED  BY <2>1, <2>2, <2>3, <2>4 DEF RecordInv
<1>6. Agree(tree, opened, Count, Unrefused)
  <2>1. /\ tree.files = {} /\ tree.child = Nil /\ tree.next = Unlinks /\ tree.pre = Unlinks
        /\ tree.copied = [c \in Chain |-> 0] /\ tree.broken = "no"
    BY <1>2
  <2>2. tree \in Tree
    BY <1>2, UncountedIs DEF Tree
  <2>3. Linked(Tops(tree), tree.child, tree.next, tree.pre)
    <3>1. Older({}, Device, Nil)
      BY ChainIs DEF Older
    <3>2. Tops(tree) = {}
      BY <2>1 DEF Tops
    <3> QED  BY <2>1, <3>1, <3>2 DEF Linked
  <2>4. \A c \in Chain : tree.pre[c] = Nil /\ tree.copied[c] = 0
    BY <2>1, UncountedIs
  <2>5. NodeInv(tree, opened)
    BY <2>1, <2>2, <2>3, <2>4 DEF NodeInv, Positive
  <2>6. \A x \in Node : Count[x] \in Int
    BY <1>1, <1>5, CountIs
  <2>7. \A x \in Node : Count[x] = 0
    <3>1. opened = 0 /\ \A x \in Node : Owner(x) > 0
      BY <1>2, NodeIs, ChainIs
    <3> QED  BY <1>1, <1>5, <3>1, FreshIs
  <2>8. \A c \in Chain : Matches(tree, Count, c) /\ Present(tree, Count, c)
    BY <2>1, <2>7, NodeIs DEF Matches, Present
  <2>9. ASSUME NEW c \in Unrefused PROVE Count[c] >= 0 /\ Count[Folder(c)] >= 0
    <3>1. c \in Node /\ Folder(c) \in Node
      BY NodeIs DEF Unrefused
    <3>2. Count[c] = 0 /\ Count[Folder(c)] = 0
      BY <2>7, <3>1
    <3> QED  BY <3>2
  <2> QED  BY <2>1, <2>5, <2>6, <2>8, <2>9 DEF Agree, Unrefused
<1> QED  BY <1>1, <1>5, <1>6 DEF FilesInv

LEMMA Parts ==
  ASSUME FilesInv
  PROVE  /\ TableInv /\ RecordInv /\ Agree(tree, opened, Count, Unrefused)
         /\ opened \in 0 .. MaxOpens /\ opened \in Nat /\ tree \in Tree
         /\ NodeInv(tree, opened) /\ alive \subseteq Proc
         /\ \A x \in Node : Count[x] \in Int /\ Owner(x) \in Nat
<1>1. TableInv /\ RecordInv /\ Agree(tree, opened, Count, Unrefused)
      /\ opened \in 0 .. MaxOpens
  BY DEF FilesInv, TableInv
<1>2. opened \in Nat
  BY <1>1, ChainIs
<1>3. \A x \in Node : Owner(x) \in Nat
  BY NodeIs, ChainIs
<1> QED  BY <1>1, <1>2, <1>3, AgreeIs DEF RecordInv

LEMMA NamesOf ==
  ASSUME FilesInv, NEW p \in Proc
  PROVE  /\ \A f \in Names(table[p]) : f \in Node => Owner(f) <= opened
         /\ table[p] \in Seq(Fo) /\ NumbersDiffer(table[p])
BY ListFacts, Parts DEF RecordInv, NamesKnown

LEMMA AddedCount ==
  ASSUME TableInv, RecordInv, NEW p \in Proc, NEW list, NEW f,
         Recounted(p, list), Added(list, table[p], f), lost' = lost
  PROVE  More(Count', Count, f)
<1> SUFFICES ASSUME NEW c \in Node PROVE Count'[c] = Count[c] + (IF c = f THEN 1 ELSE 0)
  BY DEF More
<1> DEFINE n == Count[c]
           m == Count'[c]
           k == Cardinality(Numbers(table[p], c))
           l == Cardinality(Numbers(list, c))
           z == lost[c]
<1>1. m \in Int /\ m + k + z = n + l + lost'[c] /\ lost'[c] = z
  BY DEF Recounted
<1>2. n \in Int /\ k \in Nat /\ z \in Nat
  BY CountIs
<1>3. l = k + (IF c = f THEN 1 ELSE 0)
  BY DEF Added
<1> HIDE DEF n, m, k, l, z
<1>4. m + k + z = n + l + z
  BY <1>1
<1>5. m = n + (IF c = f THEN 1 ELSE 0)
  BY <1>1, <1>2, <1>3, <1>4
<1> QED  BY <1>5 DEF n, m

LEMMA RemovedCount ==
  ASSUME TableInv, RecordInv, NEW p \in Proc, NEW list, NEW f,
         Recounted(p, list), Removed(list, table[p], f), lost' = lost
  PROVE  More(Count, Count', f)
<1> SUFFICES ASSUME NEW c \in Node PROVE Count[c] = Count'[c] + (IF c = f THEN 1 ELSE 0)
  BY DEF More
<1> DEFINE n == Count[c]
           m == Count'[c]
           k == Cardinality(Numbers(table[p], c))
           l == Cardinality(Numbers(list, c))
           z == lost[c]
<1>1. m \in Int /\ m + k + z = n + l + lost'[c] /\ lost'[c] = z
  BY DEF Recounted
<1>2. n \in Int /\ k \in Nat /\ z \in Nat
  BY CountIs
<1>3. k = l + (IF c = f THEN 1 ELSE 0) /\ l \in Nat
  BY NumbersFinite DEF Removed
<1> HIDE DEF n, m, k, l, z
<1>4. m + k + z = n + l + z
  BY <1>1
<1>5. n = m + (IF c = f THEN 1 ELSE 0)
  BY <1>1, <1>2, <1>3, <1>4
<1> QED  BY <1>5 DEF n, m

(***************************************************************************)
(* What the calls that change one list have in common.                     *)
(***************************************************************************)
LEMMA ListStep ==
  ASSUME FilesInv, NEW p \in Proc, NEW list \in Seq(Fo), NumbersDiffer(list),
         p \in alive', alive \subseteq alive', alive' \subseteq Proc,
         table' = [table EXCEPT ![p] = list],
         opened' \in 0 .. MaxOpens, opened <= opened', lost' \in [Node -> Nat],
         \A x \in Node : Owner(x) > opened' => lost'[x] = 0,
         UNCHANGED <<maps, left, refused>>,
         \A f \in Names(list) \ Names(table[p]) : f \in Node => Owner(f) <= opened'
  PROVE  /\ Recounted(p, list)
         /\ Agree(tree', opened', Count', Unrefused) => FilesInv'
<1>1. \A f \in Names(list) : f \in Node => Owner(f) <= opened'
  <2> SUFFICES ASSUME NEW f \in Names(list) \cap Names(table[p]), f \in Node
               PROVE  Owner(f) <= opened'
    OBVIOUS
  <2>1. Owner(f) <= opened /\ Owner(f) \in Nat /\ opened \in Nat /\ opened' \in Nat
    BY NamesOf, Parts, ChainIs
  <2> QED  BY <2>1
<1>2. TableInv' /\ RecordInv' /\ Recounted(p, list)
  BY <1>1, Parts, TableChange
<1>3. Unrefused' = Unrefused
  BY DEF Unrefused
<1> QED  BY <1>2, <1>3 DEF FilesInv

LEMMA SameFiles ==
  ASSUME FilesInv, UNCHANGED <<opened, lost>>
  PROVE  /\ opened' \in 0 .. MaxOpens /\ opened <= opened' /\ lost' \in [Node -> Nat]
         /\ \A x \in Node : Owner(x) > opened' => lost'[x] = 0
BY Parts DEF RecordInv

(***************************************************************************)
(* VFSM::open of a path makes a chain or finds a node that is open.        *)
(***************************************************************************)
LEMMA OpenNodeNames ==
  ASSUME FilesInv, NEW f \in File, OpenNode(f)
  PROVE  /\ opened' \in 0 .. MaxOpens /\ opened <= opened'
         /\ f \in Node => Owner(f) <= opened'
<1>1. opened \in 0 .. MaxOpens /\ opened \in Nat /\ NodeInv(tree, opened)
  BY Parts
<1>2. CASE opened < MaxOpens /\ f = opened + 1 /\ opened' = f
  <2>1. f \in Chain
    BY <1>1, <1>2, ChainIs
  <2> QED  BY <1>1, <1>2, <2>1, NodeIs, ChainIs
<1>3. CASE f \in tree.files /\ UNCHANGED opened
  BY <1>1, <1>3 DEF NodeInv
<1>4. CASE f = Device /\ UNCHANGED opened
  BY <1>1, <1>4, NodeIs
<1> QED  BY <1>2, <1>3, <1>4 DEF OpenNode

LEMMA OpenNodeAgrees ==
  ASSUME FilesInv, tree.broken = "no", NEW f \in File, OpenNode(f),
         NEW m, More(m, Count, f)
  PROVE  Agree(tree', opened', m, Unrefused)
<1>1. /\ opened \in 0 .. MaxOpens /\ opened \in Nat
      /\ Agree(tree, opened, Count, Unrefused)
  BY Parts
<1>2. ASSUME opened < MaxOpens, f = opened + 1, opened' = f, NEW nested \in BOOLEAN,
             tree' = Opened(tree, f, nested)
      PROVE  Agree(tree', opened', m, Unrefused)
  <2>1. f \in Chain
    BY <1>1, <1>2, ChainIs
  <2>2. /\ f \in Node /\ Folder(f) \in Node /\ Owner(f) > opened
        /\ Owner(Folder(f)) > opened
    BY <1>1, <1>2, <2>1, NodeIs
  <2>3. Count[f] = 0 /\ Count[Folder(f)] = 0
    BY <2>2, FreshIs, Parts
  <2> QED  BY <1>1, <1>2, <2>1, <2>3, OpenedAgrees
<1>3. ASSUME f \in tree.files, tree' = Reopened(tree, f), opened' = opened
      PROVE  Agree(tree', opened', m, Unrefused)
  <2>1. f \in Node
    BY <1>1, <1>3, AgreeIs
  <2> QED  BY <1>1, <1>3, <2>1, ReopenedAgrees
<1>4. ASSUME f = Device, tree' = tree, opened' = opened
      PROVE  Agree(tree', opened', m, Unrefused)
  <2>1. \A x \in Node : m[x] = Count[x]
    <3> SUFFICES ASSUME NEW x \in Node PROVE m[x] = Count[x]
      OBVIOUS
    <3>1. x # f /\ \A y \in Node : Count[y] \in Int
      BY <1>4, NodeIs, Parts
    <3> QED  BY <3>1, MoreIs
  <2> QED  BY <1>1, <1>4, <2>1, AgreeSame
<1> QED  BY <1>2, <1>3, <1>4 DEF OpenNode

LEMMA OpenStep ==
  ASSUME FilesInv, NEW p \in Proc, NEW f \in File, Open(p, f)
  PROVE  FilesInv'
<1> DEFINE list == WithNew(table[p], f)
<1>1. /\ p \in alive' /\ alive' \subseteq Proc /\ alive \subseteq alive'
      /\ tree.broken = "no" /\ OpenNode(f)
      /\ table' = [table EXCEPT ![p] = list]
      /\ UNCHANGED <<maps, left, refused, lost>>
  BY Parts DEF Open, Runs
<1>2. Added(list, table[p], f)
  BY NamesOf, WithNewAdds
<1> HIDE DEF list
<1>3. /\ opened' \in 0 .. MaxOpens /\ opened <= opened'
      /\ f \in Node => Owner(f) <= opened'
  BY <1>1, OpenNodeNames
<1>4. list \in Seq(Fo) /\ NumbersDiffer(list)
      /\ \A g \in Names(list) \ Names(table[p]) : g \in Node => Owner(g) <= opened'
  BY <1>2, <1>3 DEF Added
<1>5. lost' \in [Node -> Nat] /\ \A x \in Node : Owner(x) > opened' => lost'[x] = 0
  <2>1. \A x \in Node : Owner(x) > opened' => Owner(x) > opened
    BY <1>3, Parts, ChainIs
  <2> QED  BY <1>1, <2>1, Parts DEF RecordInv
<1>6. /\ Recounted(p, list)
      /\ Agree(tree', opened', Count', Unrefused) => FilesInv'
  BY <1>1, <1>3, <1>4, <1>5, ListStep
<1>7. More(Count', Count, f)
  BY <1>1, <1>2, <1>6, AddedCount, Parts
<1> QED  BY <1>1, <1>6, <1>7, OpenNodeAgrees

(***************************************************************************)
(* An open that nobody closes counts in lost what it lacks in descriptors. *)
(***************************************************************************)
LEMMA LoseKeeps ==
  ASSUME FilesInv, NEW p \in Proc, NEW f \in Node, Runs(p), Lose(f),
         NEW list \in Seq(Fo), NumbersDiffer(list), table' = [table EXCEPT ![p] = list],
         Names(list) \subseteq Names(table[p]) \cup {Nil},
         \A x \in Node : Cardinality(Numbers(list, x)) = Cardinality(Numbers(table[p], x))
  PROVE  FilesInv'
<1>1. /\ p \in alive' /\ alive' \subseteq Proc /\ alive \subseteq alive'
      /\ tree.broken = "no" /\ OpenNode(f) /\ f \in File
      /\ lost' = [lost EXCEPT ![f] = lost[f] + 1]
      /\ UNCHANGED <<maps, left, refused>>
  BY Parts DEF Lose, Runs, File
<1>2. /\ opened' \in 0 .. MaxOpens /\ opened <= opened' /\ Owner(f) <= opened'
      /\ \A x \in Node : Owner(x) \in Nat
  BY <1>1, OpenNodeNames, Parts
<1>3. lost \in [Node -> Nat]
  BY Parts DEF RecordInv
<1>4. /\ lost' \in [Node -> Nat]
      /\ \A x \in Node : lost'[x] = lost[x] + (IF x = f THEN 1 ELSE 0)
  BY <1>1, <1>3
<1>5. \A x \in Node : Owner(x) > opened' => lost'[x] = 0
  <2> SUFFICES ASSUME NEW x \in Node, Owner(x) > opened' PROVE lost'[x] = 0
    OBVIOUS
  <2>1. x # f /\ Owner(x) > opened
    BY <1>2, Parts, ChainIs
  <2>2. lost[x] = 0
    BY <2>1, Parts DEF RecordInv
  <2> QED  BY <1>4, <2>1, <2>2
<1>6. \A g \in Names(list) \ Names(table[p]) : g \in Node => Owner(g) <= opened'
  BY NodeIs
<1>7. /\ Recounted(p, list)
      /\ Agree(tree', opened', Count', Unrefused) => FilesInv'
  BY <1>1, <1>2, <1>4, <1>5, <1>6, ListStep
<1>8. More(Count', Count, f)
  <2> SUFFICES ASSUME NEW x \in Node PROVE Count'[x] = Count[x] + (IF x = f THEN 1 ELSE 0)
    BY DEF More
  <2> DEFINE n == Count[x]
             m == Count'[x]
             k == Cardinality(Numbers(table[p], x))
             l == Cardinality(Numbers(list, x))
             z == lost[x]
             w == lost'[x]
  <2>1. m \in Int /\ m + k + z = n + l + w
    BY <1>7 DEF Recounted
  <2>2. n \in Int /\ k \in Nat /\ z \in Nat /\ l = k
    BY CountIs, Parts
  <2>3. w = z + (IF x = f THEN 1 ELSE 0)
    BY <1>4
  <2> HIDE DEF n, m, k, l, z, w
  <2>4. m = n + (IF x = f THEN 1 ELSE 0)
    BY <2>1, <2>2, <2>3
  <2> QED  BY <2>4 DEF n, m
<1> QED  BY <1>1, <1>7, <1>8, OpenNodeAgrees

LEMMA OpenNoDirectoryStep ==
  ASSUME FilesInv, NEW p \in Proc, NEW f \in File, OpenNoDirectory(p, f)
  PROVE  FilesInv'
<1> DEFINE list == WithNew(table[p], Nil)
<1>1. /\ f \in Node /\ Runs(p) /\ Lose(f) /\ table' = [table EXCEPT ![p] = list]
  BY NodeIs DEF OpenNoDirectory
<1>2. Added(list, table[p], Nil)
  BY NamesOf, ListFacts, Parts, WithNewAdds
<1> HIDE DEF list
<1>3. /\ list \in Seq(Fo) /\ NumbersDiffer(list)
      /\ Names(list) \subseteq Names(table[p]) \cup {Nil}
  BY <1>2 DEF Added
<1>4. \A x \in Node : Cardinality(Numbers(list, x)) = Cardinality(Numbers(table[p], x))
  <2> SUFFICES ASSUME NEW x \in Node
               PROVE  Cardinality(Numbers(list, x)) = Cardinality(Numbers(table[p], x))
    OBVIOUS
  <2>1. x # Nil /\ Cardinality(Numbers(table[p], x)) \in Nat
    BY NodeIs, CountIs, Parts
  <2> QED  BY <1>2, <2>1 DEF Added
<1> QED  BY <1>1, <1>3, <1>4, LoseKeeps

LEMMA OpenForNothingStep ==
  ASSUME FilesInv, NEW p \in Proc, NEW f \in File, OpenForNothing(p, f)
  PROVE  FilesInv'
<1>1. f \in Node /\ Runs(p) /\ Lose(f) /\ table' = table
  BY DEF OpenForNothing
<1>2. table' = [table EXCEPT ![p] = table[p]]
  BY <1>1, Parts DEF TableInv
<1> QED  BY <1>1, <1>2, NamesOf, LoseKeeps

LEMMA NoParentStep ==
  ASSUME FilesInv, NEW p \in Proc, NEW i \in DOMAIN table[p], NoParent(p, i)
  PROVE  FilesInv'
<1>1. /\ tree' = Broken(tree, "null") /\ tree.broken = "no"
      /\ UNCHANGED <<table, alive, opened, maps, left, refused, lost>>
  BY DEF NoParent, Runs
<1>2. TableInv'
  BY <1>1, Parts DEF TableInv, FdsDiffer, NumbersDiffer
<1>3. \A c : /\ Named(c)' = Named(c) /\ Pairs(Named(c))' = Pairs(Named(c))
             /\ Mapped(c)' = Mapped(c) /\ Pairs(Mapped(c))' = Pairs(Mapped(c))
             /\ References(c)' = References(c) /\ Mappings(c)' = Mappings(c)
  BY <1>1 DEF Named, Numbers, Mapped, Pairs, References, Mappings
<1>4. RecordInv'
  BY <1>1, <1>3, Parts DEF RecordInv, NamesKnown, Names
<1>5. Count' = Count /\ Unrefused' = Unrefused
  BY <1>1, <1>3 DEF Count, Counted, Uses, Unrefused
<1>6. /\ NodeInv(tree', opened) /\ HasBroken(tree', tree) /\ tree'.broken = "null"
  BY <1>1, BrokenIs, Parts
<1>7. Agree(tree', opened, Count, Unrefused)
  <2>1. \A c \in Unrefused : Count[c] >= 0 /\ Count[Folder(c)] >= 0
    BY Parts DEF Agree
  <2> QED  BY <1>6, <2>1, BrokenAgrees, Parts
<1> QED  BY <1>1, <1>2, <1>4, <1>5, <1>7 DEF FilesInv

LEMMA OpenPipeStep ==
  ASSUME FilesInv, NEW p \in Proc, OpenPipe(p)
  PROVE  FilesInv'
<1> DEFINE one == WithNew(table[p], Device)
           list == WithNew(one, Device)
<1>1. /\ p \in alive' /\ alive' \subseteq Proc /\ alive \subseteq alive'
      /\ table' = [table EXCEPT ![p] = list]
      /\ UNCHANGED <<opened, maps, left, refused, lost, tree>>
  BY Parts DEF OpenPipe, Runs
<1>2. Device \in File /\ Device \notin Node
  BY NodeIs DEF File
<1>3. Added(one, table[p], Device)
  BY <1>2, NamesOf, WithNewAdds
<1> HIDE DEF one
<1>4. one \in Seq(Fo) /\ NumbersDiffer(one)
  BY <1>3 DEF Added
<1>5. Added(list, one, Device)
  BY <1>2, <1>4, WithNewAdds
<1> HIDE DEF list
<1>6. list \in Seq(Fo) /\ NumbersDiffer(list)
      /\ \A f \in Names(list) \ Names(table[p]) : f \in Node => Owner(f) <= opened'
  BY <1>2, <1>3, <1>5 DEF Added
<1>7. /\ Recounted(p, list)
      /\ Agree(tree', opened', Count', Unrefused) => FilesInv'
  BY <1>1, <1>6, SameFiles, ListStep
<1>8. ASSUME NEW c \in Node PROVE Count'[c] = Count[c]
  <2> DEFINE n == Count[c]
             m == Count'[c]
             k == Cardinality(Numbers(table[p], c))
             j == Cardinality(Numbers(one, c))
             l == Cardinality(Numbers(list, c))
             z == lost[c]
  <2>1. c # Device
    BY <1>2
  <2>2. /\ m \in Int /\ m + k + z = n + l + z
    BY <1>1, <1>7 DEF Recounted
  <2>3. n \in Int /\ k \in Nat /\ z \in Nat
    BY CountIs, Parts
  <2>4. j = k + 0 /\ l = j + 0
    BY <1>3, <1>5, <2>1 DEF Added
  <2> HIDE DEF n, m, k, j, l, z
  <2>5. m = n
    BY <2>2, <2>3, <2>4
  <2> QED  BY <2>5 DEF n, m
<1>9. Agree(tree, opened, Count', Unrefused)
  BY <1>8, AgreeSame, Parts
<1> QED  BY <1>1, <1>7, <1>9

LEMMA CloseStep ==
  ASSUME FilesInv, NEW p \in Proc, NEW i \in DOMAIN table[p], Close(p, i)
  PROVE  FilesInv'
<1> DEFINE f == Of(p, i)
           list == RemoveAt(table[p], i)
<1>1. /\ p \in alive' /\ alive' \subseteq Proc /\ alive \subseteq alive'
      /\ table' = [table EXCEPT ![p] = list] /\ tree' = Closed(tree, f)
      /\ UNCHANGED <<opened, maps, left, refused, lost>>
  BY Parts DEF Close, Runs
<1>2. Removed(list, table[p], f)
  BY NamesOf, RemoveAtRemoves DEF Of
<1>3. Known(f, Count, Unrefused)
  BY DescriptorKnown
<1> HIDE DEF f, list
<1>4. list \in Seq(Fo) /\ NumbersDiffer(list) /\ Names(list) \ Names(table[p]) = {}
  BY <1>2 DEF Removed
<1>5. /\ Recounted(p, list)
      /\ Agree(tree', opened', Count', Unrefused) => FilesInv'
  BY <1>1, <1>4, SameFiles, ListStep
<1>6. More(Count, Count', f) /\ \A x \in Node : Count'[x] \in Int
  BY <1>1, <1>2, <1>5, RemovedCount, Parts DEF Recounted
<1>7. Agree(Closed(tree, f), opened, Count', Unrefused)
  BY <1>3, <1>6, ClosedAgrees, Parts
<1> QED  BY <1>1, <1>5, <1>7

(***************************************************************************)
(* dup, and dup3 to a number that is free.                                 *)
(***************************************************************************)
LEMMA DuplicateKeeps ==
  ASSUME FilesInv, NEW p \in Proc, NEW i \in DOMAIN table[p], NEW list,
         Added(list, table[p], Of(p, i)), Runs(p),
         table' = [table EXCEPT ![p] = list], tree' = Duplicated(tree, Of(p, i)),
         UNCHANGED <<alive, opened, maps, left, refused, lost>>
  PROVE  FilesInv'
<1> DEFINE f == Of(p, i)
<1>1. p \in alive' /\ alive' \subseteq Proc /\ alive \subseteq alive'
  BY Parts DEF Runs
<1>2. Known(f, Count, Unrefused) /\ (f \in Node => Owner(f) <= opened)
  BY DescriptorKnown
<1>3. list \in Seq(Fo) /\ NumbersDiffer(list)
      /\ \A g \in Names(list) \ Names(table[p]) : g \in Node => Owner(g) <= opened
  BY <1>2 DEF Added
<1> HIDE DEF f
<1>4. /\ Recounted(p, list)
      /\ Agree(tree', opened', Count', Unrefused) => FilesInv'
  BY <1>1, <1>3, SameFiles, ListStep
<1>5. More(Count', Count, f)
  BY <1>4, AddedCount, Parts DEF f
<1>6. Agree(Duplicated(tree, f), opened, Count', Unrefused)
  BY <1>2, <1>5, DuplicatedAgrees, Parts
<1> QED  BY <1>4, <1>6 DEF f

LEMMA DupStep ==
  ASSUME FilesInv, NEW p \in Proc, NEW i \in DOMAIN table[p], Dup(p, i)
  PROVE  FilesInv'
<1> DEFINE list == WithNew(table[p], Of(p, i))
<1>1. Added(list, table[p], Of(p, i))
  BY NamesOf, ListFacts, Parts, WithNewAdds
<1>2. /\ Runs(p) /\ table' = [table EXCEPT ![p] = list] /\ tree' = Duplicated(tree, Of(p, i))
      /\ UNCHANGED <<alive, opened, maps, left, refused, lost>>
  BY DEF Dup
<1> HIDE DEF list
<1> QED  BY <1>1, <1>2, DuplicateKeeps

LEMMA Dup3Step ==
  ASSUME FilesInv, NEW p \in Proc, NEW i \in DOMAIN table[p], NEW n \in Targets,
         Dup3(p, i, n)
  PROVE  FilesInv'
<1> DEFINE same == {j \in DOMAIN table[p] : table[p][j].fd = n}
           k == Min(same)
           f == Of(p, i)
<1>1. n \in Nat /\ Runs(p) /\ UNCHANGED <<alive, opened, maps, left, refused, lost>>
  BY FilesAssumption DEF Dup3
<1>2. table[p] \in Seq(Fo) /\ NumbersDiffer(table[p]) /\ f \in File
  BY NamesOf, ListFacts, Parts
<1>3. CASE same = {}
  <2> DEFINE list == WithNumbered(table[p], n, f)
  <2>1. tree' = Duplicated(tree, f) /\ table' = [table EXCEPT ![p] = list]
    BY <1>3 DEF Dup3
  <2>2. Added(list, table[p], f)
    BY <1>1, <1>2, WithNumberedAdds
  <2> HIDE DEF list, same
  <2> QED  BY <1>1, <2>1, <2>2, DuplicateKeeps
<1>4. CASE same # {}
  <2> DEFINE g == Of(p, k)
             rest == RemoveAt(table[p], k)
             list == WithNumbered(rest, n, f)
             t == Duplicated(tree, f)
             mid == [c \in Node |-> Count[c] + (IF c = f THEN 1 ELSE 0)]
  <2>1. tree' = Closed(t, g) /\ table' = [table EXCEPT ![p] = list]
    BY <1>4 DEF Dup3
  <2>2. same \subseteq Nat
    BY <1>2
  <2>3. k \in DOMAIN table[p]
    BY <1>4, <2>2, MinIsLeast
  <2> HIDE DEF k, same
  <2>4. Removed(rest, table[p], g)
    BY <1>2, <2>3, RemoveAtRemoves DEF Of
  <2>5. /\ Known(f, Count, Unrefused) /\ Known(g, Count, Unrefused)
        /\ f \in Node => Owner(f) <= opened
    BY <2>3, DescriptorKnown
  <2> HIDE DEF f, g, rest
  <2>6. Added(list, rest, f)
    BY <1>1, <1>2, <2>4, WithNumberedAdds DEF Removed
  <2> HIDE DEF list
  <2>7. list \in Seq(Fo) /\ NumbersDiffer(list)
        /\ \A h \in Names(list) \ Names(table[p]) : h \in Node => Owner(h) <= opened
    BY <2>4, <2>5, <2>6 DEF Added, Removed
  <2>8. p \in alive' /\ alive' \subseteq Proc /\ alive \subseteq alive'
    BY <1>1, Parts DEF Runs
  <2>10. /\ Recounted(p, list)
         /\ Agree(tree', opened', Count', Unrefused) => FilesInv'
    BY <1>1, <2>1, <2>7, <2>8, SameFiles, ListStep
  <2>11. \A c \in Node : Count[c] \in Int /\ Count'[c] \in Int
    BY <2>10, Parts DEF Recounted
  <2>12. More(mid, Count, f)
    BY DEF More
  <2>13. Agree(t, opened, mid, Unrefused)
    <3> HIDE DEF mid
    <3> QED  BY <2>5, <2>12, DuplicatedAgrees, Parts
  <2>14. Known(g, mid, Unrefused)
    <3>1. ASSUME g \in Node, Owner(g) \in Unrefused PROVE mid[g] >= 1
      <4>1. Count[g] >= 1 /\ Count[g] \in Int
        BY <2>5, <2>11, <3>1 DEF Known
      <4> QED  BY <3>1, <4>1
    <3> HIDE DEF mid
    <3> QED  BY <2>5, <3>1 DEF Known
  <2>15. More(mid, Count', g)
    <3> SUFFICES ASSUME NEW c \in Node
                 PROVE  Count[c] + (IF c = f THEN 1 ELSE 0) = Count'[c] + (IF c = g THEN 1 ELSE 0)
      BY DEF More
    <3> DEFINE a == Count[c]
               b == Count'[c]
               x == Cardinality(Numbers(table[p], c))
               y == Cardinality(Numbers(rest, c))
               z == Cardinality(Numbers(list, c))
               w == lost[c]
    <3>1. a \in Int /\ b \in Int /\ b + x + w = a + z + w
      BY <1>1, <2>10, <2>11 DEF Recounted
    <3>2. x \in Nat /\ w \in Nat
      BY CountIs, Parts
    <3>3. x = y + (IF c = g THEN 1 ELSE 0) /\ z = y + (IF c = f THEN 1 ELSE 0)
      BY <2>4, <2>6 DEF Added, Removed
    <3>4. y \in Nat
      BY <2>4, NumbersFinite DEF Removed
    <3> HIDE DEF a, b, x, y, z, w
    <3>5. a + (IF c = f THEN 1 ELSE 0) = b + (IF c = g THEN 1 ELSE 0)
      BY <3>1, <3>2, <3>3, <3>4
    <3> QED  BY <3>5 DEF a, b
  <2> HIDE DEF mid, t
  <2>16. Agree(Closed(t, g), opened, Count', Unrefused)
    BY <2>11, <2>13, <2>14, <2>15, ClosedAgrees, Parts
  <2> QED  BY <1>1, <2>1, <2>10, <2>16
<1> QED  BY <1>3, <1>4

LEMMA AllKnown ==
  ASSUME FilesInv, NEW p \in Proc
  PROVE  \A i \in DOMAIN table[p] : Known(table[p][i].file, Count, Unrefused)
BY DescriptorKnown DEF Of

LEMMA EmptyList ==
  /\ <<>> \in Seq(Fo) /\ NumbersDiffer(<<>>) /\ Names(<<>>) = {}
  /\ \A c : Numbers(<<>>, c) = {} /\ Cardinality(Numbers(<<>>, c)) = 0
<1>1. \A c : Numbers(<<>>, c) = {}
  BY DEF Numbers
<1>2. \A c : Cardinality(Numbers(<<>>, c)) = 0
  BY <1>1, FS_EmptySet
<1> QED  BY <1>1, <1>2 DEF NumbersDiffer, Names

LEMMA CloneStep ==
  ASSUME FilesInv, NEW p \in Proc, NEW q \in Proc, Clone(p, q)
  PROVE  FilesInv'
<1> DEFINE list == table[p]
<1>1. /\ q \in alive' /\ alive' \subseteq Proc /\ alive \subseteq alive' /\ q \notin alive
      /\ table' = [table EXCEPT ![q] = list] /\ tree' = DuplicateAll(tree, list)
      /\ UNCHANGED <<opened, maps, left, refused, lost>>
  BY Parts DEF Clone
<1>2. /\ list \in Seq(Fo) /\ NumbersDiffer(list)
      /\ \A f \in Names(list) : f \in Node => Owner(f) <= opened
  BY NamesOf
<1>3. table[q] = <<>>
  BY <1>1, Parts DEF RecordInv
<1>4. \A i \in DOMAIN list : Known(list[i].file, Count, Unrefused)
  BY AllKnown
<1> HIDE DEF list
<1>6. /\ Recounted(q, list)
      /\ Agree(tree', opened', Count', Unrefused) => FilesInv'
  BY <1>1, <1>2, SameFiles, ListStep
<1>7. ASSUME NEW c \in Node PROVE Count'[c] = Count[c] + Cardinality(Numbers(list, c))
  <2> DEFINE n == Count[c]
             m == Count'[c]
             l == Cardinality(Numbers(list, c))
             z == lost[c]
  <2>1. Cardinality(Numbers(table[q], c)) = 0
    BY <1>3, EmptyList
  <2>2. m \in Int /\ m + 0 + z = n + l + z
    BY <1>1, <1>6, <2>1 DEF Recounted
  <2>3. n \in Int /\ z \in Nat /\ l \in Nat
    BY <1>2, NumbersFinite, CountIs, Parts
  <2> HIDE DEF n, m, l, z
  <2>4. m = n + l
    BY <2>2, <2>3
  <2> QED  BY <2>4 DEF n, m, l
<1>8. Agree(DuplicateAll(tree, list), opened, Count', Unrefused)
  BY <1>2, <1>4, <1>7, DuplicateAllAgrees, Parts
<1> QED  BY <1>1, <1>6, <1>8

(***************************************************************************)
(* destroy: the mappings of the process stay counted.                      *)
(***************************************************************************)
LEMMA DestroyStep ==
  ASSUME FilesInv, NEW p \in Proc, Destroy(p)
  PROVE  FilesInv'
<1> DEFINE list == table[p]
<1>1. /\ alive' = alive \ {p} /\ table' = [table EXCEPT ![p] = <<>>]
      /\ tree' = CloseAll(tree, list)
      /\ maps' = [maps EXCEPT ![p] = Uncounted]
      /\ left' = [x \in Node |-> left[x] + maps[p][x]]
      /\ UNCHANGED <<opened, refused, lost>>
  BY DEF Destroy
<1>2. /\ list \in Seq(Fo) /\ NumbersDiffer(list) /\ table \in [Proc -> Seq(Fo)]
      /\ \A i \in DOMAIN list : Known(list[i].file, Count, Unrefused)
  BY NamesOf, AllKnown, Parts DEF TableInv
<1>3. /\ maps \in [Proc -> [Node -> Nat]] /\ left \in [Node -> Nat]
      /\ refused \in [Node -> Nat] /\ lost \in [Node -> Nat]
  BY Parts DEF RecordInv
<1>4. /\ maps' \in [Proc -> [Node -> Nat]] /\ left' \in [Node -> Nat]
      /\ \A c \in Node : /\ maps'[p][c] = 0 /\ left'[c] = left[c] + maps[p][c]
                         /\ \A q \in Proc : q # p => maps'[q][c] = maps[q][c]
  BY <1>1, <1>3, UncountedIs
<1>5. TableInv'
  BY <1>1, OneListChanges, EmptyList, Parts
<1>6. Relisted(p, <<>>)
  BY <1>1, ReferencesChange, EmptyList, Parts
<1>7. ASSUME NEW c \in Node
      PROVE  /\ IsFiniteSet(Pairs(Mapped(c)))' /\ Cardinality(Pairs(Mapped(c)))' \in Nat
             /\ Cardinality(Pairs(Mapped(c)))' + maps[p][c] = Cardinality(Pairs(Mapped(c))) + 0
  BY <1>4, MappedChange, Parts
<1>8. RecordInv'
  <2>1. alive' \subseteq Proc /\ \A q \in Proc \ alive' : table'[q] = <<>>
    BY <1>1, <1>2, Parts DEF RecordInv
  <2>2. \A c \in Node : Owner(c) > opened' => /\ left'[c] = 0 /\ refused'[c] = 0 /\ lost'[c] = 0
                                              /\ \A q \in Proc : maps'[q][c] = 0
    <3> SUFFICES ASSUME NEW c \in Node, Owner(c) > opened
                 PROVE  /\ left'[c] = 0 /\ refused[c] = 0 /\ lost[c] = 0
                        /\ \A q \in Proc : maps'[q][c] = 0
      BY <1>1
    <3>1. left[c] = 0 /\ refused[c] = 0 /\ lost[c] = 0 /\ \A q \in Proc : maps[q][c] = 0
      BY Parts DEF RecordInv
    <3>2. left'[c] = 0
      BY <1>4, <3>1
    <3>3. \A q \in Proc : maps'[q][c] = 0
      BY <1>4, <3>1
    <3> QED  BY <3>1, <3>2, <3>3
  <2>3. ASSUME NEW q \in Proc
        PROVE  \A f \in Names(table'[q]) : f \in Node => Owner(f) <= opened'
    <3>1. CASE q = p
      <4>1. table'[q] = <<>>
        BY <1>1, <1>2, <3>1
      <4> QED  BY <4>1, EmptyList
    <3>2. CASE q # p
      <4>1. table'[q] = table[q]
        BY <1>1, <1>2, <3>2
      <4> QED  BY <1>1, <4>1, NamesOf
    <3> QED  BY <3>1, <3>2
  <2>4. \A q \in Proc : NamesKnown(table[q])'
    BY <2>3 DEF NamesKnown, Names
  <2>5. \A c \in Node : IsFiniteSet(Pairs(Named(c)))' /\ IsFiniteSet(Pairs(Mapped(c)))'
    BY <1>6, <1>7 DEF Relisted
  <2> QED  BY <1>1, <1>3, <1>4, <2>1, <2>2, <2>4, <2>5 DEF RecordInv
<1>9. ASSUME NEW c \in Node
      PROVE  /\ Count[c] = Count'[c] + Cardinality(Numbers(list, c)) /\ Count'[c] \in Int
             /\ Owner(c) \in Unrefused => Count'[c] >= 0
  <2> DEFINE n == Count[c]
             m == Count'[c]
             r == References(c)
             s == References(c)'
             k == Cardinality(Numbers(list, c))
             x == Cardinality(Pairs(Mapped(c)))
             z == Cardinality(Pairs(Mapped(c)))'
             w == maps[p][c]
             l == left[c]
             y == refused[c]
             v == lost[c]
  <2>1. m = (s + (z + left'[c]) + lost'[c]) - refused'[c]
    BY DEF Count, Counted, Uses, Mappings
  <2>2. n = (r + (x + l) + v) - y
    BY DEF Count, Counted, Uses, Mappings
  <2>3. m = (s + (z + (l + w)) + v) - y
    BY <1>1, <1>4, <2>1
  <2>4. /\ r \in Nat /\ x \in Nat /\ y \in Nat /\ l \in Nat /\ k \in Nat /\ w \in Nat /\ v \in Nat
    BY CountIs, Parts
  <2>5. s \in Nat /\ s + k = r + 0
    BY <1>6, EmptyList DEF Relisted
  <2>6. z \in Nat /\ z + w = x + 0
    BY <1>7
  <2>7. Owner(c) \in Unrefused => y = 0
    <3>1. c \in {Owner(c), Folder(Owner(c))}
      BY NodeIs
    <3> QED  BY <3>1 DEF Unrefused
  <2> HIDE DEF n, m, r, s, k, x, z, w, l, y, v
  <2>8. n = m + k /\ m \in Int
    BY <2>2, <2>3, <2>4, <2>5, <2>6
  <2>9. y = 0 => m >= 0
    BY <2>3, <2>4, <2>5, <2>6
  <2> QED  BY <2>7, <2>8, <2>9 DEF n, m, k, y
<1> HIDE DEF list
<1>10. Agree(CloseAll(tree, list), opened, Count', Unrefused)
  BY <1>2, <1>9, CloseAllAgrees, Parts
<1>11. Unrefused' = Unrefused
  BY <1>1 DEF Unrefused
<1>12. Agree(tree, opened, Count, Unrefused)'
  BY <1>1, <1>10, <1>11
<1> QED  BY <1>5, <1>8, <1>12 DEF FilesInv

(***************************************************************************)
(* mmap and munmap change one number of mappings.                          *)
(***************************************************************************)
LEMMA MapsChange ==
  ASSUME FilesInv, NEW p \in Proc, NEW c \in Node, Owner(c) <= opened, NEW k \in Nat,
         maps' = [maps EXCEPT ![p][c] = k],
         UNCHANGED <<table, alive, opened, left, refused, lost>>
  PROVE  /\ Agree(tree', opened, Count', Unrefused) => FilesInv'
         /\ \A d \in Node : Count'[d] \in Int /\ (d # c => Count'[d] = Count[d])
         /\ Count'[c] + maps[p][c] = Count[c] + k
<1>1. maps \in [Proc -> [Node -> Nat]] /\ opened \in Nat
  BY Parts DEF RecordInv
<1>2. /\ maps' \in [Proc -> [Node -> Nat]] /\ maps'[p][c] = k
      /\ \A q \in Proc : \A d \in Node : q # p \/ d # c => maps'[q][d] = maps[q][d]
  BY <1>1
<1>3. ASSUME NEW d \in Node
      PROVE  /\ IsFiniteSet(Pairs(Mapped(d)))' /\ Cardinality(Pairs(Mapped(d)))' \in Nat
             /\ Cardinality(Pairs(Mapped(d)))' + maps[p][d]
                  = Cardinality(Pairs(Mapped(d))) + maps'[p][d]
  BY <1>2, MappedChange, Parts
<1>4. \A d : Named(d)' = Named(d) /\ Pairs(Named(d))' = Pairs(Named(d))
             /\ References(d)' = References(d)
  BY DEF Named, Numbers, Pairs, References
<1>5. TableInv'
  BY Parts DEF TableInv, FdsDiffer, NumbersDiffer
<1>6. RecordInv'
  <2>1. \A d \in Node : Owner(d) > opened => \A q \in Proc : maps'[q][d] = 0
    <3> SUFFICES ASSUME NEW d \in Node, Owner(d) > opened, NEW q \in Proc PROVE maps'[q][d] = 0
      OBVIOUS
    <3>1. d # c
      BY <1>1, Parts
    <3> QED  BY <1>2, <3>1, Parts DEF RecordInv
  <2>2. \A d \in Node : IsFiniteSet(Pairs(Named(d)))' /\ IsFiniteSet(Pairs(Mapped(d)))'
    BY <1>3, <1>4, Parts DEF RecordInv
  <2>3. \A q \in Proc : NamesKnown(table[q])'
    BY Parts DEF RecordInv, NamesKnown, Names
  <2> QED  BY <1>2, <2>1, <2>2, <2>3, Parts DEF RecordInv
<1>7. ASSUME NEW d \in Node
      PROVE  Count'[d] \in Int /\ Count'[d] + maps[p][d] = Count[d] + maps'[p][d]
  <2> DEFINE n == Count[d]
             m == Count'[d]
             r == References(d)
             x == Cardinality(Pairs(Mapped(d)))
             z == Cardinality(Pairs(Mapped(d)))'
             w == maps[p][d]
             v == maps'[p][d]
             l == left[d]
             y == refused[d]
             u == lost[d]
  <2>1. n = (r + (x + l) + u) - y
    BY DEF Count, Counted, Uses, Mappings
  <2>2. m = (References(d)' + (z + left'[d]) + lost'[d]) - refused'[d]
    BY DEF Count, Counted, Uses, Mappings
  <2>3. m = (r + (z + l) + u) - y
    BY <1>4, <2>2
  <2>4. r \in Nat /\ x \in Nat /\ y \in Nat /\ l \in Nat /\ w \in Nat /\ u \in Nat
    BY CountIs, Parts
  <2>5. z \in Nat /\ z + w = x + v /\ v \in Nat
    BY <1>2, <1>3
  <2> HIDE DEF n, m, r, x, z, w, v, l, y, u
  <2>6. m \in Int /\ m + w = n + v
    BY <2>1, <2>3, <2>4, <2>5
  <2> QED  BY <2>6 DEF n, m, w, v
<1>8. ASSUME NEW d \in Node, d # c PROVE Count'[d] = Count[d]
  <2>1. Count[d] \in Int /\ maps[p][d] \in Nat /\ maps'[p][d] = maps[p][d]
    BY <1>1, <1>2, <1>8, CountIs, Parts
  <2> DEFINE n == Count[d]
             m == Count'[d]
             w == maps[p][d]
  <2>2. m \in Int /\ n \in Int /\ w \in Nat /\ m + w = n + w
    BY <1>7, <2>1
  <2> HIDE DEF n, m, w
  <2>3. m = n
    BY <2>2
  <2> QED  BY <2>3 DEF n, m
<1>9. Count'[c] + maps[p][c] = Count[c] + k
  BY <1>2, <1>7
<1>10. Agree(tree', opened, Count', Unrefused) => FilesInv'
  <2>1. Unrefused' = Unrefused
    BY DEF Unrefused
  <2> QED  BY <1>5, <1>6, <2>1 DEF FilesInv
<1> QED  BY <1>7, <1>8, <1>9, <1>10

LEMMA MmapStep ==
  ASSUME FilesInv, NEW p \in Proc, NEW i \in DOMAIN table[p], Mmap(p, i)
  PROVE  FilesInv'
<1> DEFINE f == Of(p, i)
<1>1. /\ f \in Node /\ tree' = Reopened(tree, f)
      /\ maps' = [maps EXCEPT ![p][f] = maps[p][f] + 1]
      /\ UNCHANGED <<table, alive, opened, left, refused, lost>>
  BY DEF Mmap
<1>2. Known(f, Count, Unrefused) /\ (f \in Node => Owner(f) <= opened)
  BY DescriptorKnown
<1> HIDE DEF f
<1>3. Owner(f) <= opened /\ maps[p][f] \in Nat
  BY <1>1, <1>2, CountIs, Parts
<1> DEFINE k == maps[p][f] + 1
<1>5. /\ k \in Nat /\ maps' = [maps EXCEPT ![p][f] = k]
      /\ f \in Node /\ Owner(f) <= opened
      /\ UNCHANGED <<table, alive, opened, left, refused, lost>>
  BY <1>1, <1>3
<1> HIDE DEF k
<1>6. /\ Agree(tree', opened, Count', Unrefused) => FilesInv'
      /\ \A d \in Node : Count'[d] \in Int /\ (d # f => Count'[d] = Count[d])
      /\ Count'[f] + maps[p][f] = Count[f] + k
  BY <1>5, MapsChange
<1>7. More(Count', Count, f)
  <2>1. Count[f] \in Int /\ Count'[f] \in Int /\ \A d \in Node : Count[d] \in Int
    BY <1>1, <1>6, CountIs, Parts
  <2>2. Count'[f] = Count[f] + 1
    <3> DEFINE n == Count[f]
               m == Count'[f]
               w == maps[p][f]
    <3>1. m + w = n + (w + 1) /\ n \in Int /\ m \in Int /\ w \in Nat
      BY <1>3, <1>6, <2>1 DEF k
    <3> HIDE DEF n, m, w
    <3>2. m = n + 1
      BY <3>1
    <3> QED  BY <3>2 DEF n, m
  <2>3. ASSUME NEW d \in Node PROVE Count'[d] = Count[d] + (IF d = f THEN 1 ELSE 0)
    <3>1. CASE d = f
      BY <2>2, <3>1
    <3>2. CASE d # f
      <4>1. Count'[d] = Count[d] /\ Count[d] \in Int
        BY <1>6, <2>1, <3>2
      <4> QED  BY <3>2, <4>1
    <3> QED  BY <3>1, <3>2
  <2> QED  BY <2>3 DEF More
<1>8. Agree(Reopened(tree, f), opened, Count', Unrefused)
  BY <1>1, <1>2, <1>7, ReopenedAgrees, Parts
<1> QED  BY <1>1, <1>6, <1>8

LEMMA MunmapStep ==
  ASSUME FilesInv, NEW p \in Proc, NEW c \in Node, Munmap(p, c)
  PROVE  FilesInv'
<1>1. /\ maps[p][c] > 0 /\ tree' = Closed(tree, c)
      /\ maps' = [maps EXCEPT ![p][c] = maps[p][c] - 1]
      /\ UNCHANGED <<table, alive, opened, left, refused, lost>>
  BY DEF Munmap
<1>2. /\ maps[p][c] \in Nat /\ maps[p][c] <= Mappings(c) /\ Count[c] \in Int
      /\ Count[c] = Uses(c) - refused[c] /\ Uses(c) = References(c) + Mappings(c) + lost[c]
      /\ References(c) \in Nat /\ Mappings(c) \in Nat /\ refused[c] \in Nat /\ lost[c] \in Nat
  BY CountIs, Parts
<1>3. Owner(c) <= opened
  <2>1. ~(Owner(c) > opened)
    BY <1>1, Parts DEF RecordInv
  <2> QED  BY <2>1, Parts
<1> DEFINE k == maps[p][c] - 1
<1>4. /\ k \in Nat /\ maps' = [maps EXCEPT ![p][c] = k]
      /\ UNCHANGED <<table, alive, opened, left, refused, lost>>
  BY <1>1, <1>2
<1> HIDE DEF k
<1>6. /\ Agree(tree', opened, Count', Unrefused) => FilesInv'
      /\ \A d \in Node : Count'[d] \in Int /\ (d # c => Count'[d] = Count[d])
      /\ Count'[c] + maps[p][c] = Count[c] + k
  BY <1>3, <1>4, MapsChange
<1>7. Known(c, Count, Unrefused)
  <2>1. ASSUME Owner(c) \in Unrefused PROVE Count[c] >= 1
    <3>1. refused[c] = 0
      <4>1. c \in {Owner(c), Folder(Owner(c))}
        BY NodeIs
      <4> QED  BY <2>1, <4>1 DEF Unrefused
    <3> DEFINE a == Count[c]
               u == Uses(c)
               b == Mappings(c)
               d == maps[p][c]
               e == References(c)
               g == lost[c]
    <3>2. a = u - 0 /\ u = e + b + g /\ e \in Nat /\ b \in Nat /\ g \in Nat /\ d \in Nat
          /\ d <= b /\ d > 0
      BY <1>1, <1>2, <3>1
    <3> HIDE DEF a, u, b, d, e, g
    <3>3. a >= 1
      BY <3>2
    <3> QED  BY <3>3 DEF a
  <2> QED  BY <2>1 DEF Known, File
<1>8. More(Count, Count', c)
  <2>1. \A d \in Node : Count[d] \in Int /\ Count'[d] \in Int
    BY <1>6, CountIs, Parts
  <2>2. Count[c] = Count'[c] + 1
    <3> DEFINE n == Count[c]
               m == Count'[c]
               w == maps[p][c]
    <3>1. m + w = n + (w - 1) /\ n \in Int /\ m \in Int /\ w \in Nat
      BY <1>2, <1>6, <2>1 DEF k
    <3> HIDE DEF n, m, w
    <3>2. n = m + 1
      BY <3>1
    <3> QED  BY <3>2 DEF n, m
  <2>3. ASSUME NEW d \in Node PROVE Count[d] = Count'[d] + (IF d = c THEN 1 ELSE 0)
    <3>1. CASE d = c
      BY <2>2, <3>1
    <3>2. CASE d # c
      <4>1. Count'[d] = Count[d] /\ Count[d] \in Int
        BY <1>6, <2>1, <3>2
      <4> QED  BY <3>2, <4>1
    <3> QED  BY <3>1, <3>2
  <2> QED  BY <2>3 DEF More
<1>9. Agree(Closed(tree, c), opened, Count', Unrefused)
  BY <1>6, <1>7, <1>8, ClosedAgrees, Parts
<1> QED  BY <1>1, <1>6, <1>9

(***************************************************************************)
(* An mmap that is refused takes a count away that stands for a descriptor *)
(* or a mapping: the file is not guarded any more.                         *)
(***************************************************************************)
LEMMA MmapRefusedStep ==
  ASSUME FilesInv, NEW p \in Proc, NEW i \in DOMAIN table[p], MmapRefused(p, i)
  PROVE  FilesInv'
<1> DEFINE f == Of(p, i)
<1>1. /\ f \in Node /\ tree' = Closed(tree, f)
      /\ refused' = [refused EXCEPT ![f] = refused[f] + 1]
      /\ UNCHANGED <<table, alive, opened, maps, left, lost>>
  BY DEF MmapRefused
<1>2. Known(f, Count, Unrefused) /\ (f \in Node => Owner(f) <= opened)
  BY DescriptorKnown
<1> HIDE DEF f
<1>3. /\ refused \in [Node -> Nat] /\ opened \in Nat /\ Owner(f) <= opened
  BY <1>1, <1>2, Parts DEF RecordInv
<1>4. /\ refused' \in [Node -> Nat] /\ refused'[f] = refused[f] + 1
      /\ \A c \in Node : c # f => refused'[c] = refused[c]
  BY <1>1, <1>3
<1>5. TableInv'
  BY <1>1, Parts DEF TableInv, FdsDiffer, NumbersDiffer
<1>6. \A c : /\ Named(c)' = Named(c) /\ Pairs(Named(c))' = Pairs(Named(c))
             /\ Mapped(c)' = Mapped(c) /\ Pairs(Mapped(c))' = Pairs(Mapped(c))
             /\ References(c)' = References(c) /\ Mappings(c)' = Mappings(c)
             /\ Uses(c)' = Uses(c)
  BY <1>1 DEF Named, Numbers, Mapped, Pairs, References, Mappings, Uses
<1>7. RecordInv'
  <2>1. \A c \in Node : Owner(c) > opened => refused'[c] = 0
    <3> SUFFICES ASSUME NEW c \in Node, Owner(c) > opened PROVE refused'[c] = 0
      OBVIOUS
    <3>1. c # f
      BY <1>3, Parts
    <3> QED  BY <1>4, <3>1, Parts DEF RecordInv
  <2>2. \A c \in Node : IsFiniteSet(Pairs(Named(c)))' /\ IsFiniteSet(Pairs(Mapped(c)))'
    BY <1>6, Parts DEF RecordInv
  <2>3. \A q \in Proc : NamesKnown(table[q])'
    BY <1>1, Parts DEF RecordInv, NamesKnown, Names
  <2> QED  BY <1>1, <1>4, <2>1, <2>2, <2>3, Parts DEF RecordInv
<1>8. ASSUME NEW c \in Node
      PROVE  Count'[c] \in Int /\ Count[c] = Count'[c] + (IF c = f THEN 1 ELSE 0)
  <2> DEFINE n == Count[c]
             m == Count'[c]
             r == Uses(c)
             y == refused[c]
             z == refused'[c]
  <2>1. n = r - y /\ r \in Nat /\ y \in Nat
    BY CountIs, Parts
  <2>2. m = Uses(c)' - refused'[c]
    BY DEF Count, Counted
  <2>3. m = r - z
    BY <1>6, <2>2
  <2>4. z = y + (IF c = f THEN 1 ELSE 0)
    BY <1>4, <2>1
  <2> HIDE DEF n, m, r, y, z
  <2>5. m \in Int /\ n = m + (IF c = f THEN 1 ELSE 0)
    BY <2>1, <2>3, <2>4
  <2> QED  BY <2>5 DEF n, m
<1>9. More(Count, Count', f) /\ \A c \in Node : Count'[c] \in Int
  BY <1>8 DEF More
<1>10. Agree(Closed(tree, f), opened, Count', Unrefused)
  BY <1>2, <1>9, ClosedAgrees, Parts
<1>11. Unrefused' \in SUBSET Unrefused
  <2> SUFFICES ASSUME NEW c \in Unrefused' PROVE c \in Unrefused
    OBVIOUS
  <2>1. c \in Chain /\ refused'[c] = 0 /\ refused'[Folder(c)] = 0
    BY DEF Unrefused
  <2>2. c \in Node /\ Folder(c) \in Node
    BY <2>1, NodeIs
  <2>3. c # f /\ Folder(c) # f
    BY <1>1, <1>3, <1>4, <2>1
  <2> QED  BY <1>4, <2>1, <2>2, <2>3 DEF Unrefused
<1>12. Agree(tree', opened, Count', Unrefused')
  BY <1>1, <1>10, <1>11, AgreeShrinks
<1> QED  BY <1>1, <1>5, <1>7, <1>12 DEF FilesInv

LEMMA FilesStep == FilesInv /\ [Next]_vars => FilesInv'
<1> SUFFICES ASSUME FilesInv, [Next]_vars PROVE FilesInv'
  OBVIOUS
<1>1. ASSUME UNCHANGED vars PROVE FilesInv'
  <2>1. TableInv'
    BY <1>1, TableStep, Parts
  <2>2. \A c : /\ Named(c)' = Named(c) /\ Pairs(Named(c))' = Pairs(Named(c))
               /\ Mapped(c)' = Mapped(c) /\ Pairs(Mapped(c))' = Pairs(Mapped(c))
               /\ References(c)' = References(c) /\ Mappings(c)' = Mappings(c)
    BY <1>1 DEF vars, Named, Numbers, Mapped, Pairs, References, Mappings
  <2>3. RecordInv'
    BY <1>1, <2>2, Parts DEF vars, RecordInv, NamesKnown, Names
  <2>4. Count' = Count /\ Unrefused' = Unrefused
    BY <1>1, <2>2 DEF vars, Count, Counted, Uses, Unrefused
  <2>5. Agree(tree, opened, Count, Unrefused)'
    BY <1>1, <2>4, Parts DEF vars
  <2> QED  BY <2>1, <2>3, <2>5 DEF FilesInv
<1>2. ASSUME NEW p \in Proc, NEW i \in DOMAIN table[p],
             \/ Close(p, i) \/ Dup(p, i) \/ Mmap(p, i) \/ MmapRefused(p, i) \/ NoParent(p, i)
             \/ \E n \in Targets : Dup3(p, i, n)
      PROVE  FilesInv'
  BY <1>2, CloseStep, DupStep, MmapStep, MmapRefusedStep, NoParentStep, Dup3Step
<1>3. ASSUME NEW p \in Proc, NEW f \in File,
             Open(p, f) \/ OpenNoDirectory(p, f) \/ OpenForNothing(p, f)
      PROVE  FilesInv'
  BY <1>3, OpenStep, OpenNoDirectoryStep, OpenForNothingStep
<1>4. ASSUME NEW p \in Proc,
             \/ OpenPipe(p) \/ Destroy(p)
             \/ (\E q \in Proc : Clone(p, q)) \/ (\E n \in Node : Munmap(p, n))
      PROVE  FilesInv'
  BY <1>4, OpenPipeStep, CloneStep, DestroyStep, MunmapStep
<1> QED  BY <1>1, <1>2, <1>3, <1>4 DEF Next

LEMMA FilesInvariance == Spec => []FilesInv
<1> QED  BY FilesInit, FilesStep, PTL DEF Spec

-----------------------------------------------------------------------------
(***************************************************************************)
(* The tables, the nodes and the counts keep their types: no count of a    *)
(* node that is there ever goes below 0.                                   *)
(***************************************************************************)
THEOREM FilesTyped == Spec => []TypeOK
<1>1. FilesInv => TypeOK
  BY Parts DEF TypeOK, TableInv, RecordInv
<1> QED  BY <1>1, FilesInvariance, PTL

(***************************************************************************)
(* Whatever is opened by whatever path, duplicated, copied by clone,       *)
(* mapped, closed and destroyed: as long as no node was used after it was  *)
(* freed, the count of an open file is the number of its descriptors in    *)
(* all processes, of its mappings and of the opens nobody closes, less the *)
(* mmaps that were refused; that of its directory has the file's too, less *)
(* the file's duplicates.                                                  *)
(***************************************************************************)
THEOREM CountsAreReferences == Spec => []CountsReferences
<1>1. FilesInv => CountsReferences
  <2> SUFFICES ASSUME FilesInv, tree.broken = "no", NEW c \in Chain
               PROVE  /\ c \in tree.files => tree.count[c] = Counted(c)
                      /\ Folder(c) \in tree.files =>
                           tree.count[Folder(c)]
                             = Counted(Folder(c)) + Counted(c) - tree.copied[c]
    BY DEF CountsReferences
  <2>1. Matches(tree, Count, c)
    BY Parts DEF Agree
  <2>2. Count[c] = Counted(c) /\ Count[Folder(c)] = Counted(Folder(c))
    BY NodeIs DEF Count
  <2> QED  BY <2>1, <2>2 DEF Matches
<1> QED  BY <1>1, FilesInvariance, PTL

(***************************************************************************)
(* A node is not freed while it is used, and not used after it was freed,  *)
(* unless an mmap in its chain was refused or the file in its directory    *)
(* was duplicated.                                                         *)
(***************************************************************************)
THEOREM ReferencedStaysOpen == Spec => []ReferencedIsOpen
<1>1. FilesInv => ReferencedIsOpen
  <2> SUFFICES ASSUME FilesInv PROVE ReferencedIsOpen
    OBVIOUS
  <2>1. \A c \in Chain : Sound(c) <=> Guarded(tree, Unrefused, c)
    BY DEF Sound, Guarded, Unrefused
  <2>2. ASSUME tree.broken = "no", NEW c \in Chain, Sound(c),
               NEW n \in {c, Folder(c)}, Uses(n) > 0
        PROVE  n \in tree.files
    <3>1. Present(tree, Count, c)
      BY <2>1, <2>2, Parts DEF Agree
    <3>2. n \in Node /\ refused[n] = 0
      BY <2>2, NodeIs DEF Sound
    <3>3. Count[n] = Uses(n) - 0 /\ Uses(n) \in Nat
      BY <3>2, CountIs, Parts
    <3>4. Count[n] # 0
      BY <2>2, <3>3
    <3> QED  BY <2>2, <3>1, <3>4 DEF Present
  <2>3. tree.broken = "freed" => \E c \in Chain : ~Sound(c)
    BY <2>1, Parts DEF Agree
  <2> QED  BY <2>2, <2>3 DEF ReferencedIsOpen
<1> QED  BY <1>1, FilesInvariance, PTL

(***************************************************************************)
(* A node that is open is in use, or the file below it is, counting as     *)
(* uses the opens that nobody closes and the mappings left behind.         *)
(***************************************************************************)
THEOREM NothingStaysOpen == Spec => []NothingLeaks
<1>1. FilesInv => NothingLeaks
  <2> SUFFICES ASSUME FilesInv, tree.broken = "no", NEW n \in tree.files
               PROVE  \E m \in Below(n) : Uses(m) > 0
    BY DEF NothingLeaks
  <2>1. /\ n \in Node /\ tree.count[n] \in Nat /\ tree.count[n] >= 1
        /\ tree.copied \in [Chain -> Nat]
    BY Parts, AgreeIs DEF NodeInv, Positive
  <2>2. \A x \in Node : /\ Count[x] = Uses(x) - refused[x]
                        /\ Uses(x) \in Nat /\ refused[x] \in Nat
    BY CountIs, Parts
  <2>3. CASE n \in Chain
    <3>1. Matches(tree, Count, n)
      BY <2>3, Parts DEF Agree
    <3>2. tree.count[n] = Count[n]
      BY <3>1 DEF Matches
    <3>3. Uses(n) > 0
      BY <2>1, <2>2, <3>2
    <3> QED  BY <3>3 DEF Below
  <2>4. CASE n \notin Chain
    <3> DEFINE c == Owner(n)
    <3>1. c \in Chain /\ n = Folder(c) /\ c \in Node
      BY <2>1, <2>4, NodeIs
    <3>2. Matches(tree, Count, c)
      BY <3>1, Parts DEF Agree
    <3> HIDE DEF c
    <3>3. tree.count[n] = Count[n] + Count[c] - tree.copied[c]
      BY <3>1, <3>2 DEF Matches
    <3>4. Uses(n) > 0 \/ Uses(c) > 0
      <4> DEFINE u == Uses(n)
                 v == Uses(c)
                 a == Count[n]
                 b == Count[c]
                 d == tree.copied[c]
                 k == tree.count[n]
      <4>1. /\ k = a + b - d /\ k >= 1 /\ k \in Nat /\ d \in Nat
            /\ a = u - refused[n] /\ b = v - refused[c]
            /\ u \in Nat /\ v \in Nat /\ refused[n] \in Nat /\ refused[c] \in Nat
        BY <2>1, <2>2, <3>1, <3>3
      <4> HIDE DEF u, v, a, b, d, k
      <4>2. u > 0 \/ v > 0
        BY <4>1
      <4> QED  BY <4>2 DEF u, v
    <3> QED  BY <3>1, <3>4 DEF Below
  <2> QED  BY <2>3, <2>4
<1> QED  BY <1>1, FilesInvariance, PTL

(***************************************************************************)
(* The links of the nodes under the root stay those of a list, from the    *)
(* newest to the oldest, wherever VFSM::close takes a node out.            *)
(***************************************************************************)
LEMMA NewestIs ==
  ASSUME NEW S \in SUBSET Chain, NEW c \in Nat, NEW x, Older(S, c, x)
  PROVE  x = NewestBelow({d \in S : d < c})
<1> DEFINE T == {d \in S : d < c}
<1>1. T \subseteq Nat /\ \A d \in T : d # Nil
  BY ChainIs
<1>2. x \in S \cup {Nil} /\ x < c /\ \A d \in T : d <= x
  BY DEF Older
<1>3. CASE T = {}
  <2>1. x = Nil
    BY <1>2, <1>3
  <2> QED  BY <1>3, <2>1 DEF NewestBelow
<1>4. CASE T # {}
  <2>1. x \in T
    <3>1. PICK d \in T : TRUE
      BY <1>4
    <3>2. d <= x /\ d \in Chain
      BY <1>2, <3>1
    <3>3. x # Nil
      BY <3>2, ChainIs
    <3> QED  BY <1>2, <3>3
  <2>2. ASSUME NEW y \in T, \A d \in T : y >= d PROVE y = x
    <3>1. y >= x /\ y <= x /\ x \in Nat /\ y \in Nat
      BY <1>1, <1>2, <2>1, <2>2
    <3> QED  BY <3>1
  <2>3. \A d \in T : x >= d
    BY <1>1, <1>2, <2>1
  <2>4. Max(T) = x
    <3> HIDE DEF T
    <3> QED  BY <2>1, <2>2, <2>3 DEF Max
  <2> QED  BY <1>4, <2>4 DEF NewestBelow
<1> QED  BY <1>3, <1>4

LEMMA OldestIs ==
  ASSUME NEW S \in SUBSET Chain, NEW c \in Nat, NEW x, Newer(S, c, x)
  PROVE  x = OldestAbove({d \in S : d > c})
<1> DEFINE T == {d \in S : d > c}
<1>1. T \subseteq Nat /\ S \subseteq Nat
  BY ChainIs
<1>2. CASE x = Nil
  <2>1. T = {}
    <3>1. \A d \in S : d <= c
      BY <1>2 DEF Newer
    <3> QED  BY <1>1, <3>1
  <2> QED  BY <1>2, <2>1 DEF OldestAbove
<1>3. CASE x # Nil
  <2>1. x \in T /\ \A d \in T : x <= d
    BY <1>3 DEF Newer
  <2>2. Min(T) \in T /\ \A d \in T : Min(T) <= d
    <3> HIDE DEF T
    <3> QED  BY <1>1, <2>1, MinIsLeast
  <2>3. Min(T) = x
    <3>1. Min(T) <= x /\ x <= Min(T) /\ x \in Nat /\ Min(T) \in Nat
      BY <1>1, <2>1, <2>2
    <3> HIDE DEF T
    <3> QED  BY <3>1
  <2> QED  BY <2>1, <2>3 DEF OldestAbove
<1> QED  BY <1>2, <1>3

THEOREM BrothersStayLinked == Spec => []BrothersLinked
<1>1. FilesInv => BrothersLinked
  <2> SUFFICES ASSUME FilesInv PROVE BrothersLinked
    OBVIOUS
  <2> DEFINE S == Tops(tree)
  <2>1. /\ Linked(S, tree.child, tree.next, tree.pre) /\ S \in SUBSET Chain
        /\ Device \in Nat
    BY Parts, TreeIs, ChainIs DEF NodeInv
  <2> HIDE DEF S
  <2>2. tree.child = NewestBelow(S)
    <3>1. tree.child = NewestBelow({d \in S : d < Device})
      BY <2>1, NewestIs DEF Linked
    <3>2. {d \in S : d < Device} = S
      BY <2>1, ChainIs
    <3> QED  BY <3>1, <3>2
  <2>3. ASSUME NEW c \in S
        PROVE  /\ tree.next[c] = NewestBelow({d \in S : d < c})
               /\ tree.pre[c] = OldestAbove({d \in S : d > c})
    <3>1. c \in Nat
      BY <2>1, ChainIs
    <3>2. Older(S, c, tree.next[c]) /\ Newer(S, c, tree.pre[c])
      BY <2>1 DEF Linked
    <3> QED  BY <2>1, <3>1, <3>2, NewestIs, OldestIs
  <2> QED  BY <2>2, <2>3 DEF BrothersLinked, S
<1> QED  BY <1>1, FilesInvariance, PTL
=============================================================================
