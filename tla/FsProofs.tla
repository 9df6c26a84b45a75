------------------------------ MODULE FsProofs ------------------------------
(***************************************************************************)
(* The shell is where the user believes to be, for every volume: proofs    *)
(* about Fs.                                                               *)
(***************************************************************************)
EXTENDS Fs, SequenceTheorems, FiniteSetTheorems, TLAPS

(* The way the user has gone: from the root of vfs.c to the mount point,   *)
(* to the root of the volume, and on from directory to directory.          *)
Way(p) ==
    /\ p \in Seq({0, 1} \cup Dir) /\ Len(p) >= 1
    /\ p[1] = 0
    /\ Len(p) >= 2 => p[2] = 1
    /\ Len(p) >= 3 => p[3] = Root
    /\ \A i \in 4..Len(p) : p[i] \in Dir /\ p[i - 1] \in Dir /\ Lists(p[i - 1], p[i])

RootNode == Node(0, "dir", "root", "root", Mini(0, "none"))
MntNode  == Node(1, "dir", "root", "root", Mini(0, "root"))
CdNode   == Node(Root, "dir", "iso", "root", Mini(1, "root"))
BareNode == Node(0, "none", "none", "root", Mini(0, "none"))

(* The static nodes are as vfs_init and the mount have made them.          *)
StaticOK(m) ==
    /\ m["fs_root"] = RootNode /\ m["fs_mnt"] = MntNode
    /\ m["fs_cdrom_mnt"] \in {CdNode, BareNode}

(* The node the shell stands on, at the end of way p.  Only the last       *)
(* conjunct leaves the parent's recreate open: below the root of the       *)
(* volume it is the wrong one at first.                                    *)
Stands(c, m, p) ==
    /\ Len(p) = 1 => c = "fs_root"
    /\ Len(p) = 2 => c = "fs_mnt"
    /\ Len(p) = 3 => \/ c = "fs_cdrom_mnt" /\ m[c] = CdNode
                     \/ c \in Addr /\ m[c] = Node(Root, "dir", "iso", "iso", Mini(1, "root"))
    /\ Len(p) > 3 => /\ c \in Addr
                     /\ \E r \in {"root", "iso"} :
                            m[c] = Node(p[Len(p)], "dir", "iso", "iso", Mini(p[Len(p) - 1], r))

CatOK == cat.on \in BOOLEAN /\ cat.fileLeft \in Nat /\ cat.offset \in Nat

IInv ==
    /\ node \in [Static \cup Addr -> NodeType]
    /\ StaticOK(node)
    /\ Way(path)
    /\ CatOK
    /\ current_dir # NULL => Stands(current_dir, node, path)

(* A node built from its parts has its type.                               *)
LEMMA NodeHasType ==
    ASSUME NEW i \in Nat, NEW f \in {"free", "raw", "none", "file", "dir"},
           NEW o \in {"none", "root", "iso"}, NEW r \in {"none", "root", "iso"},
           NEW j \in Nat, NEW s \in {"none", "root", "iso"}
    PROVE  Node(i, f, o, r, Mini(j, s)) \in NodeType
BY DEF Node, Mini, NodeType, MiniType

LEMMA InodesAreNat == {0, 1} \cup Dir \subseteq Nat /\ File \subseteq Nat
BY VolumeAssumption

(* The entries of the path table, and the directories that list them.      *)
LEMMA TableEntries ==
    /\ Len(PathTable) \in Nat /\ Len(PathTable) >= 1
    /\ \A i \in 1..Len(PathTable) : PathTable[i].lba \in Dir
<1>1. PathTable \in Seq([lba: Dir, parent: Nat \ {0}])
  BY TableAssumption
<1>2. /\ Len(PathTable) \in Nat
      /\ \A i \in 1..Len(PathTable) : PathTable[i].lba \in Dir
  <2> DEFINE E == [lba: Dir, parent: Nat \ {0}]
  <2>1. PathTable \in Seq(E)
    BY <1>1
  <2> HIDE DEF E
  <2>2. Len(PathTable) \in Nat /\ \A i \in 1..Len(PathTable) : PathTable[i] \in E
    BY <2>1
  <2>3. \A x \in E : x.lba \in Dir
    BY DEF E
  <2> QED BY <2>2, <2>3
<1>3. \E i \in 1..Len(PathTable) : PathTable[i].lba = Root
  BY TableAssumption, VolumeAssumption
<1> QED BY <1>2, <1>3

LEMMA TableParent ==
    ASSUME NEW i \in 2..Len(PathTable)
    PROVE  /\ PathTable[i].lba \in Dir
           /\ PathTable[PathTable[i].parent].lba \in Dir
           /\ Lists(PathTable[PathTable[i].parent].lba, PathTable[i].lba)
<1>1. /\ PathTable[i].parent \in 1..Len(PathTable)
      /\ Lists(PathTable[PathTable[i].parent].lba, PathTable[i].lba)
  BY TableAssumption
<1>2. i \in 1..Len(PathTable)
  BY TableEntries
<1> QED BY <1>1, <1>2, TableEntries

(* The root has the first entry of the path table, and no other one.       *)
LEMMA IndexRoot == Index(Root) = 1
<1>1. \A i \in 2..Len(PathTable) : PathTable[i].lba # Root
  BY TableParent, TreeAssumption
<1>2. 1 \in 1..Len(PathTable) /\ PathTable[1].lba = Root
  BY TableEntries, TableAssumption
<1>3. \A i \in 1..Len(PathTable) : PathTable[i].lba = Root => i = 1
  BY <1>1, TableEntries
<1> QED BY <1>2, <1>3 DEF Index

(* What iso9660_recreate finds in the path table is the directory that     *)
(* lists d.                                                                *)
LEMMA ParentMiniOK ==
    ASSUME NEW d \in Dir, NEW c \in Dir, Lists(c, d)
    PROVE  ParentMini(d) = Mini(c, "iso")
<1>1. Index(d) \in 1..Len(PathTable) /\ PathTable[Index(d)].lba = d
  BY TableAssumption DEF Index
<1>2. Index(d) # 1
  <2>1. PathTable[1].lba = Root
    BY TableAssumption
  <2>2. d # Root
    BY TreeAssumption
  <2> QED BY <1>1, <2>1, <2>2
<1>3. Index(d) \in 2..Len(PathTable)
  BY <1>1, <1>2, TableEntries
<1>4. /\ PathTable[PathTable[Index(d)].parent].lba \in Dir
      /\ Lists(PathTable[PathTable[Index(d)].parent].lba, d)
  BY <1>1, <1>3, TableParent
<1>5. PathTable[PathTable[Index(d)].parent].lba = c
  BY <1>4, TreeAssumption
<1> QED BY <1>2, <1>5 DEF ParentMini

(* Going on, and going back.                                               *)
LEMMA WayOn ==
    ASSUME NEW p, Way(p), NEW e \in {0, 1} \cup Dir,
           \/ Len(p) = 1 /\ e = 1
           \/ Len(p) = 2 /\ e = Root
           \/ Len(p) >= 3 /\ e \in Dir /\ p[Len(p)] \in Dir /\ Lists(p[Len(p)], e)
    PROVE  Way(Append(p, e)) /\ Len(Append(p, e)) = Len(p) + 1
           /\ Append(p, e)[Len(p) + 1] = e /\ Append(p, e)[Len(p)] = p[Len(p)]
<1> DEFINE q == Append(p, e)
<1>1. /\ q \in Seq({0, 1} \cup Dir) /\ Len(q) = Len(p) + 1 /\ Len(p) \in Nat
      /\ \A i \in 1..Len(p) : q[i] = p[i]
      /\ q[Len(p) + 1] = e
  BY DEF Way
<1> HIDE DEF q
<1>2. Way(q)
  BY <1>1 DEF Way
<1> QED BY <1>1, <1>2 DEF q, Way

LEMMA WayBack ==
    ASSUME NEW p, Way(p), Len(p) > 1
    PROVE  LET q == SubSeq(p, 1, Len(p) - 1)
           IN  /\ Way(q) /\ Len(q) = Len(p) - 1
               /\ \A i \in 1..Len(q) : q[i] = p[i]
<1> DEFINE q == SubSeq(p, 1, Len(p) - 1)
<1>1. Len(p) \in Nat /\ p \in Seq({0, 1} \cup Dir)
  BY DEF Way
<1>2. \A i \in 1..(Len(p) - 1) : p[i] \in {0, 1} \cup Dir
  BY <1>1
<1>3. /\ q \in Seq({0, 1} \cup Dir)
      /\ Len(q) = IF 1 <= Len(p) - 1 THEN Len(p) - 1 - 1 + 1 ELSE 0
      /\ \A i \in 1..(Len(p) - 1 - 1 + 1) : q[i] = p[1 + i - 1]
  <2> DEFINE n == Len(p) - 1
  <2>1. n \in Int /\ 1 \in Int /\ \A i \in 1..n : p[i] \in {0, 1} \cup Dir
    BY <1>1, <1>2
  <2> HIDE DEF n
  <2> SUFFICES /\ SubSeq(p, 1, n) \in Seq({0, 1} \cup Dir)
               /\ Len(SubSeq(p, 1, n)) = IF 1 <= n THEN n - 1 + 1 ELSE 0
               /\ \A i \in 1..(n - 1 + 1) : SubSeq(p, 1, n)[i] = p[1 + i - 1]
    BY DEF n
  <2> QED BY <2>1, SubSeqProperties
<1> HIDE DEF q
<1>4. /\ Len(q) = Len(p) - 1
      /\ \A i \in 1..Len(q) : q[i] = p[i]
  BY <1>1, <1>3
<1>5. Way(q)
  BY <1>1, <1>3, <1>4 DEF Way
<1> QED BY <1>4, <1>5 DEF q

------------------------------------------------------------------------------
(* Where the shell stands, by the length of the way.                       *)
LEMMA StandsFacts ==
    ASSUME IInv, current_dir # NULL
    PROVE  /\ current_dir \in Static \cup Addr
           /\ node[current_dir].flags = "dir"
           /\ node[current_dir].recreate \in {"root", "iso"}
           /\ node[current_dir].inode = path[Len(path)]
           /\ Len(path) > 1 => node[current_dir].parent.inode = path[Len(path) - 1]
           /\ Len(path) \in Nat /\ Len(path) >= 1
           /\ node[current_dir].ops = "iso" <=> Len(path) >= 3
           /\ Len(path) >= 3 => path[Len(path)] \in Dir
<1>0. /\ Len(path) \in Nat /\ Len(path) >= 1 /\ Way(path)
      /\ StaticOK(node) /\ Stands(current_dir, node, path)
  BY DEF IInv, Way
<1>1. CASE Len(path) = 1
  BY <1>0, <1>1 DEF Stands, StaticOK, RootNode, Node, Mini, Way, Static
<1>2. CASE Len(path) = 2
  BY <1>0, <1>2 DEF Stands, StaticOK, MntNode, Node, Mini, Way, Static
<1>3. CASE Len(path) = 3
  <2>1. path[3] = Root /\ path[2] = 1
    BY <1>0, <1>3 DEF Way
  <2> QED BY <1>0, <1>3, <2>1, VolumeAssumption DEF Stands, CdNode, Node, Mini, Static
<1>4. CASE Len(path) > 3
  <2>1. path[Len(path)] \in Dir
    BY <1>0, <1>4 DEF Way
  <2>2. PICK r \in {"root", "iso"} :
            /\ current_dir \in Addr
            /\ node[current_dir] = Node(path[Len(path)], "dir", "iso", "iso",
                                        Mini(path[Len(path) - 1], r))
    BY <1>0, <1>4 DEF Stands
  <2>3. /\ node[current_dir].flags = "dir" /\ node[current_dir].recreate = "iso"
        /\ node[current_dir].inode = path[Len(path)] /\ node[current_dir].ops = "iso"
        /\ node[current_dir].parent.inode = path[Len(path) - 1]
    BY <2>2 DEF Node, Mini
  <2>4. node[current_dir].ops = "iso" <=> Len(path) >= 3
    BY <1>0, <1>4, <2>3
  <2>5. node[current_dir].recreate \in {"root", "iso"}
    BY <2>3
  <2>6. current_dir \in Static \cup Addr
    BY <2>2
  <2> QED BY <1>0, <2>1, <2>3, <2>4, <2>5, <2>6
<1>5. Len(path) = 1 \/ Len(path) = 2 \/ Len(path) = 3 \/ Len(path) > 3
  <2>1. \A n \in Nat : n >= 1 => n = 1 \/ n = 2 \/ n = 3 \/ n > 3
    OBVIOUS
  <2> QED BY <1>0, <2>1, Zenon
<1> QED BY <1>1, <1>2, <1>3, <1>4, <1>5, Zenon

(* Writing the node at a heap address keeps the nodes well typed and       *)
(* leaves the static ones alone.                                           *)
LEMMA HeapWrite ==
    ASSUME NEW m \in [Static \cup Addr -> NodeType], StaticOK(m),
           NEW a \in Addr, NEW n \in NodeType
    PROVE  /\ [m EXCEPT ![a] = n] \in [Static \cup Addr -> NodeType]
           /\ StaticOK([m EXCEPT ![a] = n])
BY AddrAssumption DEF StaticOK, Static

(* The shell stands where it stood as long as its node is not written.     *)
LEMMA StandsKept ==
    ASSUME NEW c, NEW p, NEW m, NEW n, Stands(c, m, p), n[c] = m[c]
    PROVE  Stands(c, n, p)
BY DEF Stands

(* A free node is not the one the shell stands on.                         *)
LEMMA FreeIsElsewhere ==
    ASSUME IInv, current_dir # NULL, NEW a \in FreeAddr
    PROVE  a \in Addr /\ a # current_dir
BY StandsFacts DEF FreeAddr, Free, Node

(* What finddir finds is listed, and its node has its type.                *)
LEMMA FoundNode ==
    ASSUME IInv, Ready, NEW e \in Dir \cup File, Finds(e)
    PROVE  /\ Len(path) >= 3 /\ path[Len(path)] \in Dir
           /\ Lists(path[Len(path)], e)
           /\ iso9660_entry_to_node(e, current_dir) \in NodeType
<1>1. current_dir # NULL
  BY DEF Ready
<1>2. Len(path) >= 3 /\ path[Len(path)] \in Dir /\ node[current_dir].inode = path[Len(path)]
  BY <1>1, StandsFacts DEF Finds
<1>3. Lists(path[Len(path)], e)
  BY <1>2 DEF Finds, iso9660_finddir, Lists
<1>4. /\ e \in Nat /\ node[current_dir].inode \in Nat
      /\ node[current_dir].recreate \in {"none", "root", "iso"}
  BY <1>1, <1>2, StandsFacts, InodesAreNat
<1>5. iso9660_entry_to_node(e, current_dir) \in NodeType
  BY <1>4, NodeHasType DEF iso9660_entry_to_node
<1> QED BY <1>2, <1>3, <1>5

LEMMA InitIInv == Init => IInv
<1> SUFFICES ASSUME Init PROVE IInv
  OBVIOUS
<1>1. node \in [Static \cup Addr -> NodeType] /\ StaticOK(node)
  <2>1. /\ RootNode \in NodeType /\ MntNode \in NodeType /\ BareNode \in NodeType
        /\ Free \in NodeType
    BY NodeHasType DEF RootNode, MntNode, BareNode, Free
  <2>2. node = [a \in Static \cup Addr |->
                  CASE a = "fs_root" -> RootNode
                    [] a = "fs_mnt"  -> MntNode
                    [] a = "fs_cdrom_mnt" -> BareNode
                    [] OTHER -> Free]
    BY DEF Init, RootNode, MntNode, BareNode
  <2> QED BY <2>1, <2>2 DEF StaticOK, Static
<1>2. Way(path)
  BY DEF Init, Way
<1>3. CatOK
  BY DEF Init, CatOK, Idle
<1>4. Stands(current_dir, node, path)
  BY DEF Init, Stands
<1> QED BY <1>1, <1>2, <1>3, <1>4 DEF IInv

(* A node is allocated and nothing else changes but the locals of cat.     *)
LEMMA AllocateIInv ==
    ASSUME IInv, Ready, NEW e \in Dir \cup File, NEW a \in FreeAddr, Finds(e),
           Allocate(e, a), UNCHANGED <<current_dir, path>>, CatOK'
    PROVE  IInv'
<1>1. current_dir # NULL /\ a \in Addr /\ a # current_dir
  BY FreeIsElsewhere DEF Ready
<1>2. iso9660_entry_to_node(e, current_dir) \in NodeType
  BY FoundNode
<1>3. node \in [Static \cup Addr -> NodeType] /\ StaticOK(node)
  BY DEF IInv
<1>4. node' \in [Static \cup Addr -> NodeType] /\ StaticOK(node')
  BY <1>1, <1>2, <1>3, HeapWrite DEF Allocate
<1>5. node'[current_dir] = node[current_dir]
  BY <1>1, <1>3 DEF Allocate
<1>6. Stands(current_dir, node', path)
  BY <1>1, <1>5, StandsKept DEF IInv
<1>7. Way(path)
  BY DEF IInv
<1> QED BY <1>4, <1>6, <1>7 DEF IInv

LEMMA InitVolumeIInv == ASSUME IInv, iso9660_init_volume PROVE IInv'
<1>1. node \in [Static \cup Addr -> NodeType] /\ StaticOK(node) /\ Way(path) /\ CatOK
  BY DEF IInv
<1>2. node["fs_cdrom_mnt"] = BareNode
  BY <1>1 DEF iso9660_init_volume, Mounted, StaticOK, CdNode, Node
<1>3. CdNode \in NodeType
  BY NodeHasType, InodesAreNat, VolumeAssumption DEF CdNode
<1>4. node' = [node EXCEPT !["fs_cdrom_mnt"] = CdNode]
  <2>1. BareNode.recreate = "root"
    BY DEF BareNode, Node
  <2>2. node' = [node EXCEPT !["fs_cdrom_mnt"] =
                    Node(Root, "dir", "iso", node["fs_cdrom_mnt"].recreate, Mini(1, "root"))]
    BY DEF iso9660_init_volume
  <2> QED BY <1>2, <2>1, <2>2 DEF CdNode
<1>5. node' \in [Static \cup Addr -> NodeType] /\ StaticOK(node')
  BY <1>1, <1>3, <1>4 DEF StaticOK, Static
<1>6. ASSUME current_dir # NULL PROVE Stands(current_dir, node', path)
  <2>1. Stands(current_dir, node, path) /\ current_dir \in Static \cup Addr
        /\ node[current_dir].flags = "dir"
    BY <1>6, StandsFacts DEF IInv
  <2>2. current_dir # "fs_cdrom_mnt"
    BY <1>2, <2>1 DEF BareNode, Node
  <2>3. node'[current_dir] = node[current_dir]
    BY <1>1, <1>4, <2>1, <2>2
  <2> QED BY <2>1, <2>3, StandsKept
<1>7. current_dir' = current_dir /\ path' = path /\ cat' = cat
  BY DEF iso9660_init_volume
<1>8. CatOK'
  BY <1>1, <1>7 DEF CatOK
<1> QED BY <1>1, <1>5, <1>6, <1>7, <1>8 DEF IInv

LEMMA CdStaticIInv ==
    ASSUME IInv, NEW name \in {"mnt", "cdrom0"}, CdStatic(name)
    PROVE  IInv'
<1> DEFINE dest == root_finddir(current_dir, name)
<1>0. /\ current_dir # NULL /\ node[current_dir].ops = "root"
      /\ dest # NULL /\ node[dest].flags = "dir"
      /\ current_dir' = dest /\ path' = Append(path, node[dest].inode)
      /\ node' = node /\ cat' = cat
  BY DEF CdStatic, Ready
<1>1. /\ node \in [Static \cup Addr -> NodeType] /\ StaticOK(node) /\ Way(path)
      /\ CatOK /\ Stands(current_dir, node, path)
  BY <1>0 DEF IInv
<1>2. Len(path) = 1 \/ Len(path) = 2
  <2>1. Len(path) \in Nat /\ Len(path) >= 1 /\ ~(Len(path) >= 3)
    BY <1>0, StandsFacts
  <2>2. \A n \in Nat : n >= 1 /\ ~(n >= 3) => n = 1 \/ n = 2
    OBVIOUS
  <2> QED BY <2>1, <2>2, Zenon
<1>3. CASE Len(path) = 1
  <2>1. dest = "fs_mnt" /\ node[dest] = MntNode /\ node[dest].inode = 1
    BY <1>0, <1>1, <1>3 DEF Stands, root_finddir, StaticOK, MntNode, Node
  <2>2. Way(path') /\ Len(path') = 2
    BY <1>0, <1>1, <1>3, <2>1, WayOn
  <2>3. Stands(current_dir', node', path')
    BY <1>0, <2>1, <2>2 DEF Stands
  <2> QED BY <1>0, <1>1, <2>2, <2>3 DEF IInv, CatOK
<1>4. CASE Len(path) = 2
  <2>1. dest = "fs_cdrom_mnt"
    BY <1>0, <1>1, <1>4 DEF Stands, root_finddir
  <2>2. node[dest] = CdNode /\ node[dest].inode = Root
    BY <1>0, <1>1, <2>1 DEF StaticOK, CdNode, BareNode, Node
  <2>3. Way(path') /\ Len(path') = 3
    <3>1. path' = Append(path, Root) /\ Root \in {0, 1} \cup Dir
      BY <1>0, <2>2, VolumeAssumption
    <3>2. Way(Append(path, Root)) /\ Len(Append(path, Root)) = Len(path) + 1
      BY <1>1, <1>4, <3>1, WayOn
    <3> QED BY <1>4, <3>1, <3>2
  <2>4. Stands(current_dir', node', path')
    BY <1>0, <2>1, <2>2, <2>3 DEF Stands
  <2> QED BY <1>0, <1>1, <2>3, <2>4 DEF IInv, CatOK
<1> QED BY <1>2, <1>3, <1>4

LEMMA CdIInv ==
    ASSUME IInv, NEW e \in Dir \cup File, NEW a \in Addr, Cd(e, a)
    PROVE  IInv'
<1>1. /\ Ready /\ Finds(e) /\ a \in FreeAddr /\ Allocate(e, a) /\ cat' = cat
      /\ CatOK /\ current_dir # NULL
  BY DEF Cd, IInv, Ready
<1>2. CatOK'
  BY <1>1 DEF CatOK
<1>3. CASE e \notin Dir
  <2>1. UNCHANGED <<current_dir, path>>
    BY <1>3 DEF Cd
  <2> QED BY <1>1, <1>2, <2>1, AllocateIInv
<1>4. CASE e \in Dir
  <2>1. current_dir' = a /\ path' = Append(path, e)
    BY <1>4 DEF Cd
  <2>2. /\ Len(path) >= 3 /\ path[Len(path)] \in Dir /\ Lists(path[Len(path)], e)
        /\ iso9660_entry_to_node(e, current_dir) \in NodeType
    BY <1>1, FoundNode
  <2>3. node \in [Static \cup Addr -> NodeType] /\ StaticOK(node) /\ Way(path)
    BY DEF IInv
  <2>4. node' \in [Static \cup Addr -> NodeType] /\ StaticOK(node')
    BY <1>1, <2>2, <2>3, HeapWrite DEF Allocate
  <2>5. /\ Way(path') /\ Len(path') = Len(path) + 1
        /\ path'[Len(path) + 1] = e /\ path'[Len(path)] = path[Len(path)]
    BY <1>4, <2>1, <2>2, <2>3, WayOn
  <2>6. /\ node[current_dir].inode = path[Len(path)] /\ Len(path) \in Nat
        /\ node[current_dir].recreate \in {"root", "iso"}
    BY <1>1, StandsFacts
  <2>7. node'[a] = Node(e, "dir", "iso", "iso",
                        Mini(path[Len(path)], node[current_dir].recreate))
    BY <1>1, <1>4, <2>3, <2>6 DEF Allocate, iso9660_entry_to_node
  <2>8. Stands(a, node', path')
    <3>1. Len(path') > 3 /\ Len(path') - 1 = Len(path)
      BY <2>2, <2>5, <2>6
    <3>2. node'[a] = Node(path'[Len(path')], "dir", "iso", "iso",
                          Mini(path'[Len(path') - 1], node[current_dir].recreate))
      BY <2>5, <2>7, <3>1
    <3> QED BY <2>6, <3>1, <3>2 DEF Stands
  <2> QED BY <1>2, <2>1, <2>4, <2>5, <2>8 DEF IInv
<1> QED BY <1>3, <1>4

(* Giving a node back.                                                     *)
LEMMA FreeWrite ==
    ASSUME NEW m \in [Static \cup Addr -> NodeType], StaticOK(m), NEW a
    PROVE  /\ Freed(m, a) \in [Static \cup Addr -> NodeType] /\ StaticOK(Freed(m, a))
           /\ \A b \in Static \cup Addr : b # a => Freed(m, a)[b] = m[b]
<1>1. Free \in NodeType
  BY NodeHasType DEF Free
<1>2. CASE a \in Addr
  <2>1. Freed(m, a) = [m EXCEPT ![a] = Free]
    BY <1>2 DEF Freed
  <2>2. [m EXCEPT ![a] = Free] \in [Static \cup Addr -> NodeType]
        /\ StaticOK([m EXCEPT ![a] = Free])
    BY <1>1, <1>2, HeapWrite
  <2> QED BY <1>2, <2>1, <2>2
<1>3. CASE a \notin Addr
  BY <1>3 DEF Freed
<1> QED BY <1>2, <1>3

LEMMA CdUpRootIInv == ASSUME IInv, CdUpRoot PROVE IInv'
<1>0. /\ current_dir # NULL /\ node[current_dir].parent.recreate = "root"
      /\ current_dir' = root_recreate(node[current_dir].parent)
      /\ node' = Freed(node, current_dir) /\ path' = Up /\ cat' = cat
  BY DEF CdUpRoot, Ready
<1>1. /\ node \in [Static \cup Addr -> NodeType] /\ StaticOK(node) /\ Way(path)
      /\ CatOK /\ Stands(current_dir, node, path)
  BY <1>0 DEF IInv
<1>2. node' \in [Static \cup Addr -> NodeType] /\ StaticOK(node') /\ CatOK'
  BY <1>0, <1>1, FreeWrite DEF CatOK
<1>3. /\ Len(path) \in Nat /\ Len(path) > 1
      /\ node[current_dir].parent.inode = path[Len(path) - 1]
  <2>1. /\ Len(path) \in Nat /\ Len(path) >= 1
        /\ Len(path) > 1 => node[current_dir].parent.inode = path[Len(path) - 1]
    BY <1>0, StandsFacts
  <2>2. Len(path) # 1
    BY <1>0, <1>1 DEF Stands, StaticOK, RootNode, Node, Mini, Static
  <2>3. Len(path) > 1
    <3>1. \A n \in Nat : n >= 1 /\ n # 1 => n > 1
      OBVIOUS
    <3> QED BY <2>1, <2>2, <3>1, Zenon
  <2> QED BY <2>1, <2>3
<1> DEFINE q == SubSeq(path, 1, Len(path) - 1)
<1>4. /\ path' = q /\ Way(q) /\ Len(q) = Len(path) - 1
      /\ \A i \in 1..Len(q) : q[i] = path[i]
  BY <1>0, <1>1, <1>3, WayBack DEF Up
<1> HIDE DEF q
<1>5. ASSUME current_dir' # NULL PROVE Stands(current_dir', node', path')
  <2> DEFINE x == path[Len(path) - 1]
  <2>1. current_dir' = CASE x = 0 -> "fs_root" [] x = 1 -> "fs_mnt" [] OTHER -> NULL
    BY <1>0, <1>3 DEF root_recreate
  <2>2. \/ x = 0 /\ current_dir' = "fs_root"
        \/ x = 1 /\ current_dir' = "fs_mnt"
    BY <1>5, <2>1
  <2>3. \A i \in 3..Len(path) : path[i] # 0 /\ path[i] # 1
    BY <1>1, <1>3, VolumeAssumption DEF Way
  <2>4. path[1] = 0 /\ (Len(path) >= 2 => path[2] = 1)
    BY <1>1 DEF Way
  <2> HIDE DEF x
  <2>5. Len(path) <= 3
    BY <1>3, <2>2, <2>3 DEF x
  <2>6. CASE Len(path) = 2
    BY <1>4, <2>2, <2>4, <2>6 DEF x, Stands
  <2>7. CASE Len(path) = 3
    BY <1>4, <2>2, <2>4, <2>7 DEF x, Stands
  <2>8. Len(path) = 2 \/ Len(path) = 3
    <3>1. \A n \in Nat : n > 1 /\ n <= 3 => n = 2 \/ n = 3
      OBVIOUS
    <3> QED BY <1>3, <2>5, <3>1, Zenon
  <2> QED BY <2>6, <2>7, <2>8
<1>6. Way(path')
  BY <1>4
<1> QED BY <1>2, <1>5, <1>6 DEF IInv

LEMMA CdUpIsoIInv ==
    ASSUME IInv, NEW raw \in Addr, NEW a \in Addr, CdUpIso(raw, a)
    PROVE  IInv'
<1> DEFINE d == node[current_dir].parent.inode
           N == Node(d, "dir", "iso", "iso", ParentMini(d))
           m1 == [node EXCEPT ![raw] = Raw]
           m2 == [m1 EXCEPT ![a] = N]
           q == SubSeq(path, 1, Len(path) - 1)
<1>0. /\ Ready /\ current_dir # NULL /\ node[current_dir].parent.recreate = "iso"
      /\ raw \in FreeAddr /\ a \in FreeAddr /\ raw # a
      /\ node' = Freed(m2, current_dir)
      /\ current_dir' = a /\ path' = Up /\ cat' = cat
  BY DEF CdUpIso, Ready
<1>1. /\ node \in [Static \cup Addr -> NodeType] /\ StaticOK(node) /\ Way(path)
      /\ CatOK /\ Stands(current_dir, node, path)
  BY <1>0 DEF IInv
<1>2. Len(path) \in Nat /\ Len(path) > 3 /\ d = path[Len(path) - 1]
  <2>1. /\ Len(path) \in Nat /\ Len(path) >= 1
        /\ Len(path) > 1 => d = path[Len(path) - 1]
    BY <1>0, StandsFacts
  <2>2. Len(path) # 1
    BY <1>0, <1>1 DEF Stands, StaticOK, RootNode, Node, Mini, Static
  <2>3. Len(path) # 2
    BY <1>0, <1>1 DEF Stands, StaticOK, MntNode, Node, Mini, Static
  <2>4. Len(path) # 3
    BY <1>0, <1>1 DEF Stands, StaticOK, CdNode, Node, Mini, Static
  <2> HIDE DEF d
  <2>5. Len(path) > 3
    <3>1. \A n \in Nat : n >= 1 /\ n # 1 /\ n # 2 /\ n # 3 => n > 3
      OBVIOUS
    <3> QED BY <2>1, <2>2, <2>3, <2>4, <3>1, Zenon
  <2> QED BY <2>1, <2>5
<1>3. d \in Dir /\ d \in Nat
  BY <1>1, <1>2, InodesAreNat DEF Way
<1>4. /\ path' = q /\ Way(q) /\ Len(q) = Len(path) - 1
      /\ \A i \in 1..Len(q) : q[i] = path[i]
  BY <1>0, <1>1, <1>2, WayBack DEF Up
<1> HIDE DEF q
<1>5. /\ Len(q) = 3 => ParentMini(d) = Mini(1, "root") /\ d = Root
      /\ Len(q) > 3 => ParentMini(d) = Mini(q[Len(q) - 1], "iso")
      /\ d = q[Len(q)]
  <2> HIDE DEF d
  <2>1. d = q[Len(q)] /\ Len(q) \in Nat /\ Len(q) >= 3
    BY <1>2, <1>4
  <2>2. ASSUME Len(q) = 3 PROVE ParentMini(d) = Mini(1, "root") /\ d = Root
    <3>1. d = Root
      BY <1>4, <2>1, <2>2 DEF Way
    <3> QED BY <3>1, IndexRoot DEF ParentMini
  <2>3. ASSUME Len(q) > 3 PROVE ParentMini(d) = Mini(q[Len(q) - 1], "iso")
    <3>1. q[Len(q) - 1] \in Dir /\ Lists(q[Len(q) - 1], d)
      BY <1>4, <2>1, <2>3 DEF Way
    <3> QED BY <1>3, <3>1, ParentMiniOK
  <2> QED BY <2>1, <2>2, <2>3
<1>6. N \in NodeType
  <2>1. \E j \in Nat, s \in {"none", "root", "iso"} : ParentMini(d) = Mini(j, s)
    <3> HIDE DEF d
    <3>1. CASE Len(q) = 3
      BY <1>5, <3>1
    <3>2. CASE Len(q) > 3
      <4>1. q[Len(q) - 1] \in Dir
        BY <1>4, <3>2 DEF Way
      <4> QED BY <1>5, <3>2, <4>1, InodesAreNat
    <3>3. Len(q) = 3 \/ Len(q) > 3
      BY <1>2, <1>4
    <3> QED BY <3>1, <3>2, <3>3
  <2> HIDE DEF d
  <2> QED BY <1>3, <2>1, NodeHasType
<1>7. a # current_dir /\ raw # current_dir
  BY <1>0, FreeIsElsewhere
<1>8. Raw \in NodeType
  BY NodeHasType DEF Raw
<1> HIDE DEF N
<1>9. /\ m2 \in [Static \cup Addr -> NodeType] /\ StaticOK(m2) /\ m2[a] = N
  <2>1. m1 \in [Static \cup Addr -> NodeType] /\ StaticOK(m1)
    BY <1>1, <1>8, HeapWrite
  <2> HIDE DEF m1
  <2>2. m2 \in [Static \cup Addr -> NodeType] /\ StaticOK(m2)
    BY <1>6, <2>1, HeapWrite
  <2> QED BY <2>1, <2>2
<1> HIDE DEF m2
<1>10. /\ node' \in [Static \cup Addr -> NodeType] /\ StaticOK(node')
       /\ node'[a] = N
  BY <1>0, <1>7, <1>9, FreeWrite
<1>11. Stands(a, node', q)
  <2> HIDE DEF d
  <2>1. ASSUME Len(q) > 3
        PROVE  node'[a] = Node(q[Len(q)], "dir", "iso", "iso", Mini(q[Len(q) - 1], "iso"))
    BY <1>5, <1>10, <2>1 DEF N
  <2>2. ASSUME Len(q) = 3
        PROVE  node'[a] = Node(Root, "dir", "iso", "iso", Mini(1, "root"))
    BY <1>5, <1>10, <2>2 DEF N
  <2>3. Len(q) >= 3
    BY <1>2, <1>4
  <2> QED BY <1>4, <1>2, <2>1, <2>2, <2>3 DEF Stands
<1>12. CatOK' /\ Way(path')
  BY <1>0, <1>1, <1>4 DEF CatOK
<1> QED BY <1>0, <1>4, <1>10, <1>11, <1>12 DEF IInv

LEMMA CatIInv ==
    ASSUME IInv, CatRead \/ CatDone
    PROVE  IInv'
<1>1. UNCHANGED <<current_dir, node, path>> /\ CatOK
  BY DEF CatRead, CatDone, IInv
<1>2. CASE CatDone
  <2>1. CatOK'
    BY <1>2 DEF CatDone, CatOK, Idle
  <2> QED BY <1>1, <2>1 DEF IInv
<1>3. CASE CatRead
  <2>1. toRead \in Nat /\ toRead <= cat.fileLeft
    BY <1>1, FileAssumption DEF toRead, CatOK
  <2> HIDE DEF toRead
  <2>2. CatOK'
    BY <1>1, <1>3, <2>1 DEF CatRead, CatOK
  <2> QED BY <1>1, <2>2 DEF IInv
<1> QED BY <1>2, <1>3

LEMMA NextIInv == ASSUME IInv, [Next]_vars PROVE IInv'
<1>1. ASSUME NEW name \in {"mnt", "cdrom0"}, CdStatic(name) PROVE IInv'
  BY <1>1, CdStaticIInv
<1>2. ASSUME NEW e \in Dir \cup File, NEW a \in Addr, Cd(e, a) PROVE IInv'
  BY <1>2, CdIInv
<1>3. ASSUME NEW e \in Dir \cup File, NEW a \in Addr, Look(e, a) PROVE IInv'
  <2>1. CatOK'
    BY <1>3 DEF Look, IInv, CatOK
  <2> QED BY <1>3, <2>1, AllocateIInv DEF Look
<1>4. ASSUME NEW e \in Dir \cup File, NEW a \in Addr, CatOpen(e, a) PROVE IInv'
  <2>1. CatOK'
    BY <1>4, FileAssumption DEF CatOpen, CatOK
  <2> QED BY <1>4, <2>1, AllocateIInv DEF CatOpen
<1>5. ASSUME NEW raw \in Addr, NEW a \in Addr, CdUpIso(raw, a) PROVE IInv'
  BY <1>5, CdUpIsoIInv
<1>6. CASE UNCHANGED vars
  BY <1>6 DEF vars, IInv, CatOK
<1>7. CASE LsBegin \/ LsNext \/ LsEnd
  <2>1. UNCHANGED <<current_dir, node, path, cat>>
    BY <1>7 DEF LsBegin, LsNext, LsEnd
  <2> QED BY <2>1 DEF IInv, CatOK
<1> QED BY <1>1, <1>2, <1>3, <1>4, <1>5, <1>6, <1>7, InitVolumeIInv, CdUpRootIInv, CatIInv
        DEF Next

LEMMA Invariance == Spec => []IInv
BY InitIInv, NextIInv, PTL DEF Spec

(* For every volume whose path table is right and whatever names are       *)
(* tight, the shell stands at the directory the user's commands lead to,   *)
(* and its parent record names the one before it: the two walks of         *)
(* iso9660_recreate and the static nodes of vfs.c agree.                   *)
THEOREM CurrentIsPathTheorem == Spec => []CurrentIsPath
<1>1. IInv => CurrentIsPath
  BY StandsFacts DEF CurrentIsPath
<1> QED BY <1>1, Invariance, PTL

(* The node of the current directory has not been given back by "cd ..".   *)
THEOREM NoDanglingTheorem == Spec => []NoDangling
<1>1. IInv => NoDangling
  <2> SUFFICES ASSUME IInv, current_dir \in Addr PROVE node[current_dir] \notin {Free, Raw}
    BY DEF NoDangling
  <2>1. node[current_dir].flags = "dir"
    BY AddrAssumption, StandsFacts
  <2> QED BY <2>1 DEF Free, Raw, Node
<1> QED BY <1>1, Invariance, PTL

(* Nodes keep their type, and the current directory is a directory.        *)
THEOREM TypeTheorem == Spec => []TypeOK
<1>1. IInv => TypeOK
  BY StandsFacts DEF TypeOK, IInv, CatOK, Way
<1> QED BY <1>1, Invariance, PTL
------------------------------------------------------------------------------
(* The loop of cat.  CatExact says nothing of a read that is not the last  *)
(* one: then the bytes printed are whole blocks, and the offset is a       *)
(* multiple of the block size, so that the next block is the next one.     *)
Row == [block: Nat, n: Nat, room: Nat]

CatInv ==
    cat.on =>
        /\ cat.inode \in File
        /\ cat.out \in Seq(Row)
        /\ cat.out = <<>> => cat.offset = 0
        /\ cat.fileLeft > 0 =>
               /\ cat.offset = Len(cat.out) * Block
               /\ cat.out # <<>> => cat.out[Len(cat.out)].n = Block

(* The block behind the first n ones.                                      *)
LEMMA WholeBlocks ==
    ASSUME NEW n \in Nat, NEW b \in Nat \ {0}
    PROVE  n * b \in Nat /\ (n * b) \div b = n /\ (n + 1) * b = n * b + b
OBVIOUS

(* A read of up to one block has room for a block.                         *)
LEMMA RoomForBlock ==
    ASSUME NEW n \in Nat, n <= Block
    PROVE  blocksize(n) \in Nat /\ (n > 0 => blocksize(n) >= Block)
<1>1. Block \in Nat \ {0}
  BY FileAssumption
<1>2. CASE n = 0
  BY <1>1, <1>2 DEF blocksize
<1>3. CASE n = Block
  BY <1>1, <1>3 DEF blocksize
<1>4. CASE n > 0 /\ n < Block
  <2>1. n % Block = n /\ n \div Block = 0
    BY <1>1, <1>4
  <2> QED BY <1>1, <1>4, <2>1 DEF blocksize
<1> QED BY <1>1, <1>2, <1>3, <1>4

LEMMA CatReadExact ==
    ASSUME IInv, CatInv, CatExact, CatRead
    PROVE  CatInv' /\ CatExact'
<1> DEFINE N == Len(cat.out)
           L == Length[cat.inode]
           r == [block |-> cat.offset \div Block, n |-> toRead, room |-> blocksize(toRead)]
<1>1. /\ cat.on /\ cat.inode \in File /\ cat.out \in Seq(Row) /\ N \in Nat
      /\ cat.fileLeft \in Nat /\ cat.offset \in Nat /\ Block \in Nat \ {0} /\ L \in Nat
      /\ cat.fileLeft + cat.offset = L
      /\ cat.out = <<>> \/ cat.fileLeft > 0
  BY FileAssumption DEF CatRead, CatInv, CatExact, IInv, CatOK
<1>2. cat.out = <<>> <=> N = 0
  BY <1>1
<1>3. cat.offset = N * Block
  BY <1>1, <1>2 DEF CatInv
<1>4. N * Block \in Nat /\ cat.offset \div Block = N /\ (N + 1) * Block = N * Block + Block
  BY <1>1, <1>3, WholeBlocks
<1>5. /\ toRead \in Nat /\ toRead <= Block /\ toRead <= cat.fileLeft
      /\ cat.fileLeft - toRead > 0 => toRead = Block
      /\ cat.fileLeft > 0 => toRead > 0
  BY <1>1 DEF toRead
<1>6. blocksize(toRead) \in Nat /\ (toRead > 0 => blocksize(toRead) >= Block)
  BY <1>5, RoomForBlock
<1> HIDE DEF toRead, blocksize
<1>7. r \in Row /\ r.block = N /\ r.n = toRead /\ r.room = blocksize(toRead)
  BY <1>4, <1>5, <1>6 DEF Row
<1>8. /\ cat'.on /\ cat'.inode = cat.inode
      /\ cat'.fileLeft = cat.fileLeft - toRead /\ cat'.offset = cat.offset + toRead
      /\ cat'.out = Append(cat.out, r)
  BY DEF CatRead
<1> HIDE DEF r
<1>9. /\ cat'.out \in Seq(Row) /\ Len(cat'.out) = N + 1 /\ cat'.out # <<>>
      /\ \A k \in 1..N : cat'.out[k] = cat.out[k]
      /\ cat'.out[N + 1] = r
  BY <1>1, <1>7, <1>8
<1>10. L > 0 => toRead > 0
  BY <1>1, <1>2, <1>3, <1>5
<1>11. cat.fileLeft > 0 /\ N > 0 => cat.out[N].n = Block
  BY <1>1, <1>2 DEF CatInv
<1>12. \A k \in 1..N : /\ cat.out[k].block = k - 1
                       /\ (k < N => cat.out[k].n = Block)
                       /\ (L > 0 => cat.out[k].room >= Block)
  BY <1>1 DEF CatExact
<1>13. cat.fileLeft - toRead > 0 => cat.offset + toRead = (N + 1) * Block
  BY <1>1, <1>3, <1>4, <1>5
<1>14. cat.fileLeft - toRead = 0 => N * Block + toRead = L
  BY <1>1, <1>3, <1>4, <1>5
<1> HIDE DEF L
<1>15. CatInv'
  BY <1>1, <1>5, <1>7, <1>8, <1>9, <1>13 DEF CatInv
<1>16. ASSUME NEW k \in 1..(N + 1)
       PROVE  /\ cat'.out[k].block = k - 1
              /\ k < N + 1 => cat'.out[k].n = Block
              /\ L > 0 => cat'.out[k].room >= Block
  <2>1. CASE k = N + 1
    BY <1>1, <1>6, <1>7, <1>9, <1>10, <2>1
  <2>2. CASE k \in 1..N
    <3>1. k = N => cat.out[k].n = Block
      BY <1>1, <1>2, <1>11, <2>2
    <3> QED BY <1>1, <1>9, <1>12, <2>2, <3>1
  <2> QED BY <1>1, <2>1, <2>2
<1>17. Length[cat'.inode] = L
  BY <1>8 DEF L
<1>18. cat'.fileLeft + cat'.offset = L
  BY <1>1, <1>5, <1>8
<1>19. cat'.fileLeft = 0 => (Len(cat'.out) - 1) * Block + cat'.out[Len(cat'.out)].n = L
  <2>1. Len(cat'.out) - 1 = N /\ cat'.out[Len(cat'.out)].n = toRead
    BY <1>1, <1>7, <1>9
  <2> QED BY <1>8, <1>14, <2>1
<1> QED BY <1>9, <1>15, <1>16, <1>17, <1>18, <1>19 DEF CatExact

LEMMA CatNext == ASSUME IInv, CatInv, CatExact, [Next]_vars PROVE CatInv' /\ CatExact'
<1>1. ASSUME NEW e \in Dir \cup File, NEW a \in Addr, CatOpen(e, a)
      PROVE  CatInv' /\ CatExact'
  <2>1. /\ e \in File /\ Length[e] \in Nat
        /\ cat'.inode = e /\ cat'.fileLeft = Length[e] /\ cat'.offset = 0
        /\ cat'.out = <<>> /\ cat'.on
    BY <1>1, FileAssumption DEF CatOpen
  <2>2. cat'.out \in Seq(Row) /\ Len(cat'.out) = 0 /\ 0 * Block = 0
    BY <2>1, FileAssumption
  <2> QED BY <2>1, <2>2 DEF CatInv, CatExact
<1>2. CASE CatDone
  BY <1>2 DEF CatDone, Idle, CatInv, CatExact
<1>3. ASSUME cat' = cat PROVE CatInv' /\ CatExact'
  BY <1>3 DEF CatInv, CatExact
<1>4. ASSUME NEW name \in {"mnt", "cdrom0"}, CdStatic(name) PROVE cat' = cat
  BY <1>4 DEF CdStatic
<1>5. ASSUME NEW e \in Dir \cup File, NEW a \in Addr, Cd(e, a) \/ Look(e, a)
      PROVE  cat' = cat
  BY <1>5 DEF Cd, Look
<1>6. ASSUME NEW raw \in Addr, NEW a \in Addr, CdUpIso(raw, a) PROVE cat' = cat
  BY <1>6 DEF CdUpIso
<1>7. ASSUME \/ LsBegin \/ LsNext \/ LsEnd \/ iso9660_init_volume \/ CdUpRoot
             \/ UNCHANGED vars
      PROVE  cat' = cat
  BY <1>7 DEF LsBegin, LsNext, LsEnd, iso9660_init_volume, CdUpRoot, vars
<1> QED BY <1>1, <1>2, <1>3, <1>4, <1>5, <1>6, <1>7, CatReadExact DEF Next

(* For every block size and every file, cat prints each byte once and in   *)
(* order, and no block of a file that is not empty runs over the buffer it *)
(* is read into.  The block of an empty file does (iso9660_read asks for 0 *)
(* bytes and reads a block), and CatExact excepts it.                      *)
THEOREM CatTheorem == Spec => []CatExact
<1>1. Init => CatInv /\ CatExact
  BY DEF Init, Idle, CatInv, CatExact
<1> QED BY <1>1, CatNext, Invariance, PTL DEF Spec
------------------------------------------------------------------------------
(* What the current directory holds.                                       *)
Held ==
    LET here == path[Len(path)]
    IN  CASE here = 0 -> <<1>> [] here = 1 -> <<Root>> [] OTHER -> Entries[here]

(* The loop of ls.  The path does not change below it, and a call of       *)
(* readdir_fs has its answer by the number of entries shown.               *)
LsInv ==
    ls.at # "idle" =>
        /\ current_dir # NULL
        /\ ls.out \in Seq(Nat) /\ Len(ls.out) <= Len(Held)
        /\ \A k \in 1..Len(ls.out) : ls.out[k] = Held[k]
        /\ ls.at = "end" => Len(ls.out) = Len(Held)

LEMMA SeqWider ==
    ASSUME NEW S, NEW T, S \subseteq T, NEW s \in Seq(S)
    PROVE  s \in Seq(T)
BY LenProperties, SeqDef

(* The walk along ".." and L entries, counted from behind "..".            *)
LEMMA CountedWalk ==
    ASSUME NEW R, NEW L \in Nat, NEW i \in Nat,
           DOMAIN R = 1..(L + 1), R[1].name = "..",
           \A k \in 2..(L + 1) : R[k].name # ".."
    PROVE  Numbered(R, i) = IF i < L THEN R[i + 2].lba ELSE 0
<1> DEFINE C == {k \in DOMAIN R : R[k].name # ".."}
           H == {k \in C : Cardinality({j \in C : j < k}) = i}
<1>1. C = 2..(L + 1)
  OBVIOUS
<1>2. ASSUME NEW k \in C PROVE Cardinality({j \in C : j < k}) = k - 2
  <2>1. k \in 2..(L + 1) /\ {j \in C : j < k} = 2..(k - 1)
    BY <1>1
  <2>2. 2 \in Int /\ k - 1 \in Int
    BY <2>1
  <2>3. Cardinality(2..(k - 1)) = IF 2 > k - 1 THEN 0 ELSE (k - 1) - 2 + 1
    BY <2>2, FS_Interval, Zenon
  <2>4. (IF 2 > k - 1 THEN 0 ELSE (k - 1) - 2 + 1) = k - 2
    BY <2>1
  <2> QED BY <2>1, <2>3, <2>4, Zenon
<1>3. H = {k \in 2..(L + 1) : k - 2 = i}
  BY <1>1, <1>2
<1>4. CASE i < L
  <2>1. H = {i + 2}
    BY <1>3, <1>4
  <2> HIDE DEF H
  <2>2. H # {} /\ (CHOOSE k \in H : TRUE) = i + 2
    BY <2>1
  <2> QED BY <1>4, <2>2 DEF Numbered, H
<1>5. CASE ~(i < L)
  <2>1. H = {}
    BY <1>3, <1>5
  <2> QED BY <1>5, <2>1 DEF Numbered
<1> QED BY <1>4, <1>5

(* Record number i of a directory is its entry number i.                   *)
LEMMA ReadDirIs ==
    ASSUME NEW d \in Dir, NEW i \in Nat
    PROVE  iso9660_readdir(d, i) = IF i < Len(Entries[d]) THEN Entries[d][i + 1] ELSE 0
<1> DEFINE L == Len(Entries[d])
           E == [k \in 1..L |-> [name |-> "entry", lba |-> Entries[d][k]]]
           P == <<[name |-> ".", lba |-> d], [name |-> "..", lba |-> d]>>
           R == Tail(Records(d))
           S == [name: {".", "..", "entry"}, lba: Dir \cup File]
<1>1. Entries[d] \in Seq(Dir \cup File) /\ L \in Nat
  BY VolumeAssumption
<1>2. E \in Seq(S) /\ Len(E) = L
      /\ \A k \in 1..L : E[k].name = "entry" /\ E[k].lba = Entries[d][k]
  BY <1>1
<1>3. P \in Seq(S) /\ Len(P) = 2 /\ P[2].name = ".."
  OBVIOUS
<1>4. Records(d) = P \o E
  BY DEF Records
<1> HIDE DEF E, P, S, L
<1>5. /\ Records(d) \in Seq(S) /\ Len(Records(d)) = L + 2
      /\ Records(d)[2] = P[2] /\ \A k \in 1..L : Records(d)[k + 2] = E[k]
  <2>0. P \in Seq(S) /\ E \in Seq(S)
    BY <1>2, <1>3
  <2>1. /\ P \o E \in Seq(S) /\ Len(P \o E) = Len(P) + Len(E)
        /\ \A k \in 1..(Len(P) + Len(E)) : (P \o E)[k] =
               IF k <= Len(P) THEN P[k] ELSE E[k - Len(P)]
    BY <2>0, ConcatProperties, Zenon
  <2>2. \A k \in 1..L : k + 2 \in 1..(2 + L) /\ ~(k + 2 <= 2) /\ (k + 2) - 2 = k
    BY <1>1
  <2>3. 2 \in 1..(2 + L) /\ 2 <= 2 /\ 2 + L = L + 2
    BY <1>1
  <2> QED BY <1>2, <1>3, <1>4, <2>1, <2>2, <2>3
<1>6. /\ DOMAIN R = 1..(L + 1)
      /\ \A k \in 1..(L + 1) : R[k] = Records(d)[k + 1]
  BY <1>1, <1>5
<1> HIDE DEF R
<1>7. R[1].name = ".."
  BY <1>1, <1>3, <1>5, <1>6
<1>8. \A k \in 1..L : R[k + 1] = E[k]
  BY <1>1, <1>5, <1>6
<1>9. \A k \in 2..(L + 1) : R[k].name # ".."
  <2> SUFFICES ASSUME NEW k \in 2..(L + 1) PROVE R[k].name # ".."
    OBVIOUS
  <2>1. k - 1 \in 1..L /\ R[(k - 1) + 1] = R[k]
    BY <1>1
  <2> QED BY <1>2, <1>8, <2>1
<1>10. Numbered(R, i) = IF i < L THEN R[i + 2].lba ELSE 0
  BY <1>1, <1>6, <1>7, <1>9, CountedWalk
<1>11. i < L => R[i + 2].lba = Entries[d][i + 1]
  <2> SUFFICES ASSUME i < L PROVE R[i + 2].lba = Entries[d][i + 1]
    OBVIOUS
  <2>1. i + 1 \in 1..L /\ R[(i + 1) + 1] = R[i + 2]
    BY <1>1
  <2> QED BY <1>2, <1>8, <2>1
<1> QED BY <1>10, <1>11 DEF iso9660_readdir, R, L

(* What the shell is shown of the directory it stands in.                  *)
LEMMA ReadDirHeld ==
    ASSUME IInv, current_dir # NULL, NEW i \in Nat
    PROVE  /\ Held \in Seq(Nat \ {0})
           /\ readdir_fs(i) = IF i < Len(Held) THEN Held[i + 1] ELSE 0
<1>1. /\ node[current_dir].inode = path[Len(path)]
      /\ Len(path) \in Nat /\ Len(path) >= 1
      /\ node[current_dir].ops = "iso" <=> Len(path) >= 3
      /\ Len(path) >= 3 => path[Len(path)] \in Dir
  BY StandsFacts
<1>2. (Len(path) = 1 => path[Len(path)] = 0) /\ (Len(path) = 2 => path[Len(path)] = 1)
  <2>1. Way(path)
    BY DEF IInv
  <2> QED BY <1>1, <2>1 DEF Way
<1>3. CASE Len(path) = 1
  <2>1. Held = <<1>>
    BY <1>2, <1>3 DEF Held
  <2> QED BY <1>1, <1>2, <1>3, <2>1 DEF readdir_fs, root_readdir
<1>4. CASE Len(path) = 2
  <2>1. Held = <<Root>> /\ Root \in Nat \ {0}
    BY <1>2, <1>4, VolumeAssumption DEF Held
  <2> QED BY <1>1, <1>2, <1>4, <2>1 DEF readdir_fs, root_readdir
<1>5. CASE Len(path) >= 3
  <2> DEFINE d == path[Len(path)]
  <2>1. d \in Dir /\ d # 0 /\ d # 1
    BY <1>1, <1>5, VolumeAssumption
  <2>2. Held = Entries[d] /\ Entries[d] \in Seq(Dir \cup File)
    BY <2>1, VolumeAssumption DEF Held
  <2>3. readdir_fs(i) = iso9660_readdir(d, i)
    BY <1>1, <1>5 DEF readdir_fs
  <2>4. Entries[d] \in Seq(Nat \ {0})
    <3>1. Dir \cup File \subseteq Nat \ {0}
      BY VolumeAssumption
    <3> QED BY <2>2, <3>1, SeqWider, Zenon
  <2> HIDE DEF d
  <2>5. iso9660_readdir(d, i) = IF i < Len(Entries[d]) THEN Entries[d][i + 1] ELSE 0
    BY <2>1, ReadDirIs
  <2>6. Held \in Seq(Nat \ {0})
    BY <2>2, <2>4
  <2>7. readdir_fs(i) = IF i < Len(Held) THEN Held[i + 1] ELSE 0
    BY <2>2, <2>3, <2>5
  <2> QED BY <2>6, <2>7
<1>6. Len(path) = 1 \/ Len(path) = 2 \/ Len(path) >= 3
  <2>1. \A n \in Nat : n >= 1 => n = 1 \/ n = 2 \/ n >= 3
    OBVIOUS
  <2> QED BY <1>1, <2>1, Zenon
<1> QED BY <1>3, <1>4, <1>5, <1>6, Zenon

LEMMA LsNextInv == ASSUME IInv, LsInv, LsNext PROVE LsInv'
<1> DEFINE n == Len(ls.out)
           entry == readdir_fs(n)
<1>1. /\ ls.at = "next" /\ current_dir # NULL /\ ls.out \in Seq(Nat) /\ n \in Nat
      /\ n <= Len(Held) /\ \A k \in 1..n : ls.out[k] = Held[k]
  BY DEF LsNext, LsInv
<1>2. /\ Held \in Seq(Nat \ {0}) /\ entry = IF n < Len(Held) THEN Held[n + 1] ELSE 0
  BY <1>1, ReadDirHeld
<1>3. Held' = Held /\ current_dir' = current_dir
  BY DEF LsNext, Held
<1>4. ls' = IF entry = 0 THEN [at |-> "end", out |-> ls.out]
            ELSE [at |-> "next", out |-> Append(ls.out, entry)]
  BY DEF LsNext
<1> HIDE DEF entry
<1>5. CASE n < Len(Held)
  <2>1. entry = Held[n + 1] /\ entry \in Nat /\ entry # 0
    BY <1>1, <1>2, <1>5
  <2>2. ls'.at = "next" /\ ls'.out = Append(ls.out, entry)
    BY <1>4, <2>1
  <2>3. /\ ls'.out \in Seq(Nat) /\ Len(ls'.out) = n + 1 /\ ls'.out[n + 1] = entry
        /\ \A k \in 1..n : ls'.out[k] = ls.out[k]
    BY <1>1, <2>1, <2>2
  <2>4. \A k \in 1..(n + 1) : ls'.out[k] = Held[k]
    <3>1. \A k \in 1..(n + 1) : k \in 1..n \/ k = n + 1
      BY <1>1
    <3> QED BY <1>1, <2>1, <2>3, <3>1, Zenon
  <2> QED BY <1>1, <1>2, <1>3, <1>5, <2>2, <2>3, <2>4 DEF LsInv
<1>6. CASE ~(n < Len(Held))
  <2>1. entry = 0 /\ n = Len(Held)
    BY <1>1, <1>2, <1>6
  <2>2. ls'.at = "end" /\ ls'.out = ls.out
    BY <1>4, <2>1
  <2> QED BY <1>1, <1>3, <2>1, <2>2 DEF LsInv
<1> QED BY <1>5, <1>6

LEMMA LsInvNext == ASSUME IInv, LsInv, [Next]_vars PROVE LsInv'
<1>1. CASE LsBegin
  <2>1. /\ current_dir' = current_dir /\ current_dir # NULL /\ Held' = Held
        /\ ls'.at = "next" /\ ls'.out = <<>>
    BY <1>1 DEF LsBegin, Ready, Held
  <2>2. Len(Held) \in Nat
    BY <2>1, ReadDirHeld
  <2>3. ls'.out \in Seq(Nat) /\ Len(ls'.out) = 0
    BY <2>1
  <2> QED BY <2>1, <2>2, <2>3 DEF LsInv
<1>2. CASE LsEnd
  BY <1>2 DEF LsEnd, LsInv
<1>3. ASSUME UNCHANGED <<current_dir, path, ls>> PROVE LsInv'
  BY <1>3 DEF LsInv, Held
<1>4. ASSUME Ready, ls' = ls PROVE LsInv'
  BY <1>4 DEF Ready, LsInv
<1>5. ASSUME NEW name \in {"mnt", "cdrom0"}, CdStatic(name) PROVE LsInv'
  BY <1>4, <1>5 DEF CdStatic
<1>6. ASSUME NEW e \in Dir \cup File, NEW a \in Addr, Cd(e, a) \/ Look(e, a) \/ CatOpen(e, a)
      PROVE  LsInv'
  BY <1>4, <1>6 DEF Cd, Look, CatOpen
<1>7. ASSUME NEW raw \in Addr, NEW a \in Addr, CdUpIso(raw, a) PROVE LsInv'
  BY <1>4, <1>7 DEF CdUpIso
<1>8. CASE CdUpRoot
  BY <1>4, <1>8 DEF CdUpRoot
<1>9. CASE iso9660_init_volume \/ CatRead \/ CatDone \/ UNCHANGED vars
  BY <1>3, <1>9 DEF iso9660_init_volume, CatRead, CatDone, vars
<1> QED BY <1>1, <1>2, <1>5, <1>6, <1>7, <1>8, <1>9, LsNextInv DEF Next

(* For every volume, ls shows each record of the directory the user        *)
(* believes to be in once and in order, neither "." nor "..", and stops    *)
(* behind the last one.                                                    *)
THEOREM LsTheorem == Spec => []LsExact
<1>1. Init => LsInv
  BY DEF Init, LsInv
<1>2. ASSUME IInv, LsInv PROVE LsExact
  <2> SUFFICES ASSUME ls.at # "idle"
               PROVE  /\ ls.out = SubSeq(Held, 1, Len(ls.out))
                      /\ ls.at = "end" => ls.out = Held
    BY DEF LsExact, Held
  <2> DEFINE s == SubSeq(Held, 1, Len(ls.out))
  <2>1. /\ current_dir # NULL /\ ls.out \in Seq(Nat) /\ Len(ls.out) <= Len(Held)
        /\ \A k \in 1..Len(ls.out) : ls.out[k] = Held[k]
        /\ ls.at = "end" => Len(ls.out) = Len(Held)
    BY <1>2 DEF LsInv
  <2>2. Held \in Seq(Nat \ {0}) /\ Held \in Seq(Nat)
    <3>1. Held \in Seq(Nat \ {0}) /\ Nat \ {0} \subseteq Nat
      BY <1>2, <2>1, ReadDirHeld
    <3> QED BY <3>1, SeqWider, Zenon
  <2>3. /\ s \in Seq(Nat \ {0}) /\ Len(s) = Len(ls.out)
        /\ \A k \in 1..Len(ls.out) : s[k] = Held[k]
    BY <2>1, <2>2
  <2>4. ls.out = s
    BY <2>1, <2>3, SeqEqual
  <2>5. ls.at = "end" => ls.out = Held
    BY <2>1, <2>2, SeqEqual
  <2> QED BY <2>4, <2>5
<1> QED BY <1>1, <1>2, LsInvNext, Invariance, PTL DEF Spec
==============================================================================
