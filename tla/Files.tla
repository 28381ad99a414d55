-------------------------------- MODULE Files --------------------------------
(***************************************************************************)
(* The descriptor tables of the processes, and the nodes of the files that *)
(* are open with their reference counts.                                   *)
(*                                                                         *)
(* Source: src/Kernel/File/FileObject.cpp, src/Kernel/File/vfsm.cpp,       *)
(* EXT4::open in src/Kernel/File/myext4.cpp, the calls that take or give   *)
(* back descriptors in src/Kernel/Trap/Syscall/Syscall.cpp, and copyFds    *)
(* and destroy in src/Kernel/Process/Process.cpp.                          *)
(*                                                                         *)
(* VFSM::open looks for the names of a path among the nodes that are open. *)
(* A path that begins with "/" has an empty first name, which none of them *)
(* has, and EXT4::open makes a chain of nodes of its own: one for the file *)
(* and, when it is not in the root directory, one for each directory       *)
(* above; here for one directory at most.  A path that does not, after a   *)
(* relative chdir or a "..", may find all its names and share their nodes. *)
(* Names are left out: such a path may find any node.                      *)
(* Every call runs to its end.                                             *)
(***************************************************************************)
EXTENDS Integers, Sequences, FiniteSets, FiniteSetsExt, SequencesExt

CONSTANTS
  Proc,
  First,        \* the process that is there from the beginning
  Kept,         \* it has closed the standard descriptors but this many
  MaxOpens,     \* bound: chains made in one behaviour
  MaxNested,    \* bound: those with a directory
  MaxFds,       \* bound: descriptors of a process
  MaxAll,       \* bound: descriptors of all processes, before a clone
  Targets,      \* the numbers programs give dup3
  MaxExtra      \* bound: mappings at a time, refused mmaps, and opens that
                \* nobody closes, together

ASSUME FilesAssumption == /\ First \in Proc /\ Kept \in 0 .. 3
                          /\ Targets \subseteq Nat
                          /\ MaxOpens \in Nat /\ MaxExtra \in Nat
                          /\ MaxNested \in Nat /\ MaxAll \in Nat
                          /\ MaxFds \in Nat /\ MaxFds >= Kept

Chain     == 1 .. MaxOpens    \* in the order they are made; the node of the
                              \* file has the number of the chain
Folder(c) == MaxOpens + c     \* the node of its directory
Node      == 1 .. 2 * MaxOpens
Nil       == 0                \* nullptr
Device    == 2 * MaxOpens + 1 \* the terminal, pipes and the root directory:
                              \* vfsm.close leaves them alone
File      == Node \cup {Nil, Device}

VARIABLES
  table,      \* the descriptors of each process, in the order of its list
  alive,      \* the processes
  opened,     \* number of chains so far
  tree,       \* the nodes, see Tree
  maps,       \* mappings of each node by each process
  left,       \* those that were there when their process was destroyed
  refused,    \* mmaps of each node that were refused
  lost        \* opens of each node that no descriptor was made for

vars == <<table, alive, opened, tree, maps, left, refused, lost>>

(***************************************************************************)
(* The nodes: which chains have a directory; the nodes that exist, and     *)
(* their counts; how often a file in a directory was duplicated, which     *)
(* does not count the directory; root->child and the brothers of the first *)
(* nodes of the chains; whether a node that was freed, or nullptr, has     *)
(* been used, after which anything can happen.                             *)
(***************************************************************************)
Tree == [nested : [Chain -> BOOLEAN], files : SUBSET Node, count : [Node -> Nat],
         copied : [Chain -> Nat],
         child : Chain \cup {Nil},
         next : [Chain -> Chain \cup {Nil}], pre : [Chain -> Chain \cup {Nil}],
         broken : {"no", "freed", "null"}]

Fo == [fd : Nat, file : File]

TypeOK ==
  /\ table \in [Proc -> Seq(Fo)]
  /\ alive \subseteq Proc
  /\ opened \in 0 .. MaxOpens
  /\ tree \in Tree
  /\ maps \in [Proc -> [Node -> Nat]]
  /\ left \in [Node -> Nat] /\ refused \in [Node -> Nat] /\ lost \in [Node -> Nat]

Uncounted == [n \in Node |-> 0]
Unlinks   == [c \in Chain |-> Nil]

\* initFds
Standard == [i \in 1 .. Kept |-> [fd |-> i - 1, file |-> Device]]

Init ==
  /\ table = [p \in Proc |-> IF p = First THEN Standard ELSE <<>>]
  /\ alive = {First}
  /\ opened = 0
  /\ tree = [nested |-> [c \in Chain |-> FALSE], files |-> {}, count |-> Uncounted,
             copied |-> [c \in Chain |-> 0],
             child |-> Nil, next |-> Unlinks, pre |-> Unlinks, broken |-> "no"]
  /\ maps = [p \in Proc |-> Uncounted]
  /\ left = Uncounted /\ refused = Uncounted /\ lost = Uncounted

-----------------------------------------------------------------------------
\* the first node of a chain, a child of the root
Top(t, c) == IF t.nested[c] THEN Folder(c) ELSE c

Tops(t) == {c \in Chain : Top(t, c) \in t.files}

\* a node and those above it, the root left out
Path(t, f) == IF f \in Chain THEN {f, Top(t, f)} ELSE {f}

(***************************************************************************)
(* EXT4::open: the new chain goes before its brothers.                     *)
(***************************************************************************)
Opened(t, c, nested) ==
  LET u == [t EXCEPT !.nested[c] = nested] IN
  [u EXCEPT !.files = @ \cup Path(u, c),
            !.count = [n \in Node |-> IF n \in Path(u, c) THEN 1 ELSE @[n]],
            !.child = c, !.next[c] = t.child,
            !.pre = [d \in Chain |-> IF d = t.child THEN c ELSE @[d]]]

(***************************************************************************)
(* duplicate_fo counts the reference on the node, VFSM::open of a node on  *)
(* all the path.                                                           *)
(***************************************************************************)
Broken(t, why) ==
  [t EXCEPT !.files = {}, !.count = Uncounted,
            !.child = Nil, !.next = Unlinks, !.pre = Unlinks,
            !.broken = IF @ = "no" THEN why ELSE @]

BugNotCounted(t, f) == t

Duplicated(t, f) ==
  IF f = Device THEN t
  ELSE IF f = Nil THEN Broken(t, "null")
  ELSE IF f \notin t.files THEN Broken(t, "freed")
  ELSE LET u == [t EXCEPT !.count[f] = @ + 1] IN
       IF f \in Chain /\ t.nested[f] THEN [u EXCEPT !.copied[f] = @ + 1] ELSE u

Reopened(t, f) ==
  IF f \notin t.files THEN Broken(t, "freed")
  ELSE [t EXCEPT !.count = [n \in Node |-> IF n \in Path(t, f) THEN @[n] + 1 ELSE @[n]]]

(***************************************************************************)
(* VFSM::close counts down all the path, and deletes what gets to 0; the   *)
(* destructor of a directory deletes what is below it.                     *)
(***************************************************************************)
BugNoBackLink(t, c) ==
  LET u == IF t.child = c THEN [t EXCEPT !.child = t.next[c]]
                          ELSE [t EXCEPT !.next[t.pre[c]] = t.next[c]]
  IN  [u EXCEPT !.next[c] = Nil, !.pre[c] = Nil]

Unlinked(t, c) ==
  LET u == IF t.child = c THEN [t EXCEPT !.child = t.next[c]]
                          ELSE [t EXCEPT !.next[t.pre[c]] = t.next[c]]
      v == IF t.next[c] = Nil THEN u ELSE [u EXCEPT !.pre[t.next[c]] = t.pre[c]]
  IN  [v EXCEPT !.next[c] = Nil, !.pre[c] = Nil]

BugBelowZero(n) == n < 0

Unreferenced(n) == n = 0

Closed(t, f) ==
  LET u == [t EXCEPT !.count = [n \in Node |-> IF n \in Path(t, f) THEN @[n] - 1 ELSE @[n]]]
      gone == {n \in Path(t, f) : Unreferenced(u.count[n])}
      c == CHOOSE d \in Chain : f \in {d, Folder(d)}
  IN
  IF f = Device THEN t
  ELSE IF f = Nil THEN Broken(t, "null")
  ELSE IF f \notin t.files THEN Broken(t, "freed")
  ELSE IF Top(t, c) \in gone
       THEN Unlinked([u EXCEPT !.files = @ \ {c, Folder(c)}], c)
       ELSE [u EXCEPT !.files = @ \ gone]

-----------------------------------------------------------------------------
(***************************************************************************)
(* find_sui_fd marks the descriptors that are not above the length of the  *)
(* list, and takes the first of four more that is not marked.              *)
(***************************************************************************)
Fds(list) == {list[i].fd : i \in DOMAIN list}

BugCountsOneLess(list) == Fds(list) \cap 0 .. Len(list) - 2

Marked(list) == Fds(list) \cap 0 .. Len(list)

FindSuiFd(list) == Min(0 .. Len(list) + 3 \ Marked(list))

\* create_flobj, and add_fo_tolist of an object without a number
WithNew(list, f) == Append(list, [fd |-> FindSuiFd(list), file |-> f])

\* add_fo_tolist of an object with a number
WithNumbered(list, n, f) ==
  IF n \in Fds(list) THEN WithNew(list, f) ELSE Append(list, [fd |-> n, file |-> f])

Of(p, i) == table[p][i].file
Runs(p) == p \in alive /\ tree.broken = "no"

\* for n new descriptors
HasRoom(p, n) ==
  /\ Len(table[p]) + n <= MaxFds
  /\ MapThenSumSet(LAMBDA q : Len(table[q]), Proc) + n <= MaxAll

-----------------------------------------------------------------------------
(***************************************************************************)
(* VFSM::open of a path, when there is one: of a new chain, of a node that *)
(* is open already, or of the root.                                        *)
(***************************************************************************)
OpenNode(f) ==
  \/ /\ opened < MaxOpens /\ f = opened + 1
     /\ opened' = f
     /\ \E nested \in BOOLEAN :
          /\ nested => Cardinality({c \in Chain : tree.nested[c]}) < MaxNested
          /\ tree' = Opened(tree, f, nested)
  \/ /\ f \in tree.files
     /\ tree' = Reopened(tree, f) /\ UNCHANGED opened
  \/ f = Device /\ UNCHANGED <<tree, opened>>

\* openat
Open(p, f) ==
  /\ Runs(p) /\ HasRoom(p, 1)
  /\ OpenNode(f)
  /\ table' = [table EXCEPT ![p] = WithNew(@, f)]
  /\ UNCHANGED <<alive, maps, left, refused, lost>>

\* what each process has, the processes told apart
Pairs(S) == UNION {{p} \X S[p] : p \in Proc}

Mapped(n) == [p \in Proc |-> 1 .. maps[p][n]]
Mappings(n) == Cardinality(Pairs(Mapped(n))) + left[n]

MayAdd == MapThenSumSet(LAMBDA n : Mappings(n) + refused[n] + lost[n], Node) < MaxExtra

(***************************************************************************)
(* Opens that nobody closes.  openat of a file that is not the directory   *)
(* that was asked for makes a descriptor of nullptr; execve keeps nothing  *)
(* of what it opens, nor openat of the directory it cannot make a file in. *)
(* (The other calls close what they open.)                                 *)
(***************************************************************************)
Lose(f) ==
  /\ MayAdd /\ OpenNode(f)
  /\ lost' = [lost EXCEPT ![f] = @ + 1]
  /\ UNCHANGED <<alive, maps, left, refused>>

OpenNoDirectory(p, f) ==
  /\ Runs(p) /\ HasRoom(p, 1) /\ f \in Chain
  /\ Lose(f)
  /\ table' = [table EXCEPT ![p] = WithNew(@, Nil)]

OpenForNothing(p, f) ==
  /\ Runs(p) /\ f \in Node
  /\ Lose(f)
  /\ UNCHANGED table

(***************************************************************************)
(* openat relative to the terminal, a pipe or the root, and mmap of the    *)
(* terminal or a pipe, follow a parent that is nullptr; openat relative to *)
(* nullptr follows that.                                                   *)
(***************************************************************************)
NoParent(p, i) ==
  /\ Runs(p) /\ Of(p, i) \in {Nil, Device}
  /\ tree' = Broken(tree, "null")
  /\ UNCHANGED <<table, alive, opened, maps, left, refused, lost>>

\* pipe2
OpenPipe(p) ==
  /\ Runs(p) /\ HasRoom(p, 2)
  /\ table' = [table EXCEPT ![p] = WithNew(WithNew(@, Device), Device)]
  /\ UNCHANGED <<alive, opened, tree, maps, left, refused, lost>>

\* close
Close(p, i) ==
  /\ Runs(p)
  /\ tree' = Closed(tree, Of(p, i))
  /\ table' = [table EXCEPT ![p] = RemoveAt(@, i)]
  /\ UNCHANGED <<alive, opened, maps, left, refused, lost>>

\* dup, and F_DUPFD_CLOEXEC of fcntl
Dup(p, i) ==
  /\ Runs(p) /\ HasRoom(p, 1)
  /\ tree' = Duplicated(tree, Of(p, i))
  /\ table' = [table EXCEPT ![p] = WithNew(@, Of(p, i))]
  /\ UNCHANGED <<alive, opened, maps, left, refused, lost>>

(***************************************************************************)
(* dup3: the object under the new number is closed and taken off the list. *)
(***************************************************************************)
Dup3(p, i, n) ==
  LET t == Duplicated(tree, Of(p, i))
      same == {j \in DOMAIN table[p] : table[p][j].fd = n}
  IN
  /\ Runs(p) /\ table[p][i].fd # n
  /\ IF same = {}
     THEN /\ HasRoom(p, 1)
          /\ tree' = t
          /\ table' = [table EXCEPT ![p] = WithNumbered(@, n, Of(p, i))]
     ELSE /\ tree' = Closed(t, Of(p, Min(same)))
          /\ table' = [table EXCEPT ![p] =
                         WithNumbered(RemoveAt(@, Min(same)), n, Of(p, i))]
  /\ UNCHANGED <<alive, opened, maps, left, refused, lost>>

(***************************************************************************)
(* clone, and the new process of execve: copyFds duplicates each object.   *)
(* The copy of a file mapping has no part in the file (see VmSpace).       *)
(***************************************************************************)
DuplicateAll(t, list) ==
  LET after[i \in 0 .. Len(list)] ==
        IF i = 0 THEN t ELSE Duplicated(after[i - 1], list[i].file)
  IN  after[Len(list)]

Clone(p, q) ==
  /\ Runs(p) /\ q \notin alive
  /\ alive' = alive \cup {q}
  /\ table' = [table EXCEPT ![q] = table[p]]
  /\ tree' = DuplicateAll(tree, table[p])
  /\ UNCHANGED <<opened, maps, left, refused, lost>>

(***************************************************************************)
(* destroy closes each object; VirtualMemorySpace::Destroy does not close  *)
(* the files of mappings, for it deletes them as plain regions.            *)
(***************************************************************************)
CloseAll(t, list) ==
  LET after[i \in 0 .. Len(list)] ==
        IF i = 0 THEN t ELSE Closed(after[i - 1], list[i].file)
  IN  after[Len(list)]

Destroy(p) ==
  /\ Runs(p) /\ p # First
  /\ alive' = alive \ {p}
  /\ table' = [table EXCEPT ![p] = <<>>]
  /\ tree' = CloseAll(tree, table[p])
  /\ maps' = [maps EXCEPT ![p] = Uncounted]
  /\ left' = [n \in Node |-> left[n] + maps[p][n]]
  /\ UNCHANGED <<opened, refused, lost>>

(***************************************************************************)
(* mmap of a file opens its node once more, until munmap.  An mmap that is *)
(* refused closes it.                                                      *)
(***************************************************************************)
Mmap(p, i) ==
  /\ Runs(p) /\ Of(p, i) \in Node /\ MayAdd
  /\ tree' = Reopened(tree, Of(p, i))
  /\ maps' = [maps EXCEPT ![p][Of(p, i)] = @ + 1]
  /\ UNCHANGED <<table, alive, opened, left, refused, lost>>

MmapRefused(p, i) ==
  /\ Runs(p) /\ Of(p, i) \in Node /\ MayAdd
  /\ tree' = Closed(tree, Of(p, i))
  /\ refused' = [refused EXCEPT ![Of(p, i)] = @ + 1]
  /\ UNCHANGED <<table, alive, opened, maps, left, lost>>

Munmap(p, n) ==
  /\ Runs(p) /\ maps[p][n] > 0
  /\ tree' = Closed(tree, n)
  /\ maps' = [maps EXCEPT ![p][n] = @ - 1]
  /\ UNCHANGED <<table, alive, opened, left, refused, lost>>

-----------------------------------------------------------------------------
Next ==
  \E p \in Proc :
    \/ \E f \in File : Open(p, f) \/ OpenNoDirectory(p, f) \/ OpenForNothing(p, f)
    \/ OpenPipe(p)
    \/ \E i \in DOMAIN table[p] :
         \/ Close(p, i) \/ Dup(p, i) \/ Mmap(p, i) \/ MmapRefused(p, i) \/ NoParent(p, i)
         \/ \E n \in Targets : Dup3(p, i, n)
    \/ \E q \in Proc : Clone(p, q)
    \/ Destroy(p)
    \/ \E n \in Node : Munmap(p, n)

Spec == Init /\ [][Next]_vars

-----------------------------------------------------------------------------
Numbers(list, f) == {list[i].fd : i \in {j \in DOMAIN list : list[j].file = f}}
Named(f) == [p \in Proc |-> Numbers(table[p], f)]
References(f) == Cardinality(Pairs(Named(f)))

\* the opens of a node that were not closed
Uses(n) == References(n) + Mappings(n) + lost[n]

(***************************************************************************)
(* No process has two descriptors of one number.                           *)
(***************************************************************************)
NumbersDiffer(list) ==
  \A i, j \in DOMAIN list : list[i].fd = list[j].fd => i = j

FdsDiffer == \A p \in Proc : NumbersDiffer(table[p])

(***************************************************************************)
(* A new descriptor gets the smallest number that is free, although        *)
(* find_sui_fd looks at an array that may be shorter than the numbers.     *)
(***************************************************************************)
SmallestFd ==
  \A p \in Proc :
    FindSuiFd(table[p]) = Min(0 .. Len(table[p]) \ Fds(table[p]))

(***************************************************************************)
(* The count of an open file is the number of its descriptors in all       *)
(* processes, of its mappings and of the opens nobody closes, less the     *)
(* mmaps that were refused; that of a directory has those of the file      *)
(* below too, less the duplicates, which were not counted there.           *)
(***************************************************************************)
Counted(n) == Uses(n) - refused[n]

CountsReferences ==
  tree.broken = "no" =>
  \A c \in Chain :
    /\ c \in tree.files => tree.count[c] = Counted(c)
    /\ Folder(c) \in tree.files =>
         tree.count[Folder(c)] = Counted(Folder(c)) + Counted(c) - tree.copied[c]

(***************************************************************************)
(* A node stays open as long as it is in use, unless an mmap of its chain  *)
(* was refused or the file in its directory was duplicated; and a node     *)
(* that was freed is used in such a chain only.                            *)
(***************************************************************************)
Sound(c) == refused[c] = 0 /\ refused[Folder(c)] = 0 /\ tree.copied[c] = 0

ReferencedIsOpen ==
  /\ tree.broken = "no" =>
       \A c \in Chain : Sound(c) =>
         \A n \in {c, Folder(c)} : Uses(n) > 0 => n \in tree.files
  /\ tree.broken = "freed" => \E c \in Chain : ~Sound(c)

(***************************************************************************)
(* A node goes with the last use of it and of what is below.  Uses are     *)
(* also the opens that nobody closes and the mappings that processes left  *)
(* behind, so nothing else is left open.                                   *)
(***************************************************************************)
Below(n) == {n} \cup {c \in Chain : Folder(c) = n}

NothingLeaks ==
  tree.broken = "no" =>
    \A n \in tree.files : \E m \in Below(n) : Uses(m) > 0

(***************************************************************************)
(* The nodes under the root are linked both ways, the newest first.        *)
(***************************************************************************)
NewestBelow(S) == IF S = {} THEN Nil ELSE Max(S)
OldestAbove(S) == IF S = {} THEN Nil ELSE Min(S)

BrothersLinked ==
  /\ tree.child = NewestBelow(Tops(tree))
  /\ \A c \in Tops(tree) :
       /\ tree.next[c] = NewestBelow({d \in Tops(tree) : d < c})
       /\ tree.pre[c] = OldestAbove({d \in Tops(tree) : d > c})

(***************************************************************************)
(* What the comments in close_fo and VFSM::open promise: the counts see to *)
(* it that a node a descriptor refers to is there.                         *)
(***************************************************************************)
NoDanglingFd ==
  tree.broken = "no" =>
    \A p \in Proc : \A i \in DOMAIN table[p] :
      Of(p, i) \in tree.files \cup {Device, Nil}
=============================================================================
