--------------------------------- MODULE Fs ---------------------------------
(***************************************************************************)
(* The directory tree as the shell walks it: the three static nodes of     *)
(* vfs.c, the volume of fs/iso9660.c below them, and the commands of       *)
(* shell.c that look names up.  A node is an fs_node_t; those of the       *)
(* volume are allocated at every look-up and remember their parent by a    *)
(* record of three fields from which "cd .." builds the parent's node.     *)
(*                                                                         *)
(* A command runs inside the keyboard interrupt, so it is one step, but    *)
(* for the loops of cat and ls.  A directory and the path table fit one    *)
(* block, reads succeed, and the block buffers, freed before the command   *)
(* returns, are left out; the heap is Addr, one address per node, and the  *)
(* behaviours considered end where it is full (kalloc panics).             *)
(***************************************************************************)
EXTENDS Integers, Sequences, FiniteSets

CONSTANTS
    Dir, File,   \* directories and files of the volume, by their block number
    Root,        \* its root directory
    Entries,     \* the records of every directory, after "." and ".."
    PathTable,   \* its path table: block number and number of the parent
    Tight,       \* records whose name ends where the next record starts
    Length,      \* of every file
    Block,       \* bytes in a block: 2048
    Addr,        \* heap addresses for nodes
    NULL         \* the null pointer

Static == {"fs_root", "fs_mnt", "fs_cdrom_mnt"}

Lists(d, e) == \E k \in 1..Len(Entries[d]) : Entries[d][k] = e

(* Block numbers are past the volume descriptors.                          *)
ASSUME VolumeAssumption ==
    /\ Dir \subseteq Nat \ {0, 1} /\ File \subseteq Nat \ {0, 1} /\ Dir \cap File = {}
    /\ Root \in Dir
    /\ Entries \in [Dir -> Seq(Dir \cup File)]

(* The directories form a tree.                                            *)
ASSUME TreeAssumption ==
    /\ \A e \in Dir \cup File, c, d \in Dir : Lists(c, e) /\ Lists(d, e) => c = d
    /\ \A d \in Dir : ~Lists(d, Root)

(* The path table has every directory, the root first, and names as its    *)
(* parent the one that lists it.                                           *)
ASSUME TableAssumption ==
    /\ PathTable \in Seq([lba: Dir, parent: Nat \ {0}]) /\ PathTable[1].lba = Root
    /\ \A d \in Dir : \E i \in 1..Len(PathTable) : PathTable[i].lba = d
    /\ \A i \in 2..Len(PathTable) :
           /\ PathTable[i].parent \in 1..Len(PathTable)
           /\ Lists(PathTable[PathTable[i].parent].lba, PathTable[i].lba)

ASSUME FileAssumption == Block \in Nat \ {0} /\ Length \in [File -> Nat]

ASSUME AddrAssumption == NULL \notin Addr \cup Static /\ Addr \cap Static = {}

VARIABLES
    current_dir,   \* the shell's
    node,          \* the fs_node_t at every address
    path,          \* inodes on the way the user has gone
    cat,           \* the locals of the cat command, or Idle
    ls             \* what the ls command has printed

vars == <<current_dir, node, path, cat, ls>>

Idle == [inode |-> 0, fileLeft |-> 0, offset |-> 0, out |-> <<>>, on |-> FALSE]

(* ops stands for readdir and finddir, recreate and parent.recreate for    *)
(* the function they point to.                                             *)
Node(inode, flags, ops, recreate, parent) ==
    [inode |-> inode, flags |-> flags, ops |-> ops, recreate |-> recreate,
     parent |-> parent]
Mini(inode, recreate) == [inode |-> inode, recreate |-> recreate]

Free == Node(0, "free", "none", "none", Mini(0, "none"))
Raw  == Node(0, "raw", "none", "none", Mini(0, "none"))
FreeAddr == {a \in Addr : node[a] = Free}

(* vfs_init and shell_init.                                                *)
Init ==
    /\ current_dir = "fs_root"
    /\ node = [a \in Static \cup Addr |->
           CASE a = "fs_root" -> Node(0, "dir", "root", "root", Mini(0, "none"))
             [] a = "fs_mnt"  -> Node(1, "dir", "root", "root", Mini(0, "root"))
             [] a = "fs_cdrom_mnt" -> Node(0, "none", "none", "root", Mini(0, "none"))
             [] OTHER -> Free]
    /\ path = <<0>>
    /\ cat = Idle
    /\ ls = [at |-> "idle", out |-> <<>>]

(* iso9660_init_volume as kernel_main calls it.  It sets neither recreate  *)
(* nor free_node.                                                          *)
Mounted == node["fs_cdrom_mnt"].flags = "dir"
iso9660_init_volume ==
    /\ ~Mounted
    /\ node' = [node EXCEPT !["fs_cdrom_mnt"] =
                    Node(Root, "dir", "iso", @.recreate, Mini(1, "root"))]
    /\ UNCHANGED <<current_dir, path, cat, ls>>

Ready == current_dir # NULL /\ ~cat.on /\ ls.at = "idle"
------------------------------------------------------------------------------
(* root_finddir: the address of a static node, by name.                    *)
root_finddir(dir, name) ==
    CASE dir = "fs_root" /\ name = "mnt"   -> "fs_mnt"
      [] dir = "fs_mnt" /\ name = "cdrom0" -> "fs_cdrom_mnt"
      [] OTHER                             -> NULL

(* iso9660_finddir compares record after record.  It ends every name with  *)
(* a null byte, which after a tight record is the length of the next one,  *)
(* and a length of 0 ends the search.                                      *)
iso9660_finddir(d, e) ==
    \E k \in 1..Len(Entries[d]) :
        Entries[d][k] = e /\ \A j \in 1..(k - 1) : Entries[d][j] \notin Tight

(* The node of record e of the directory at dir.                           *)
iso9660_entry_to_node(e, dir) ==
    Node(e, IF e \in Dir THEN "dir" ELSE "file", "iso", "iso",
         Mini(node[dir].inode, node[dir].recreate))

(* finddir_fs of a name on the volume: a fresh node at a.                  *)
Finds(e) == node[current_dir].ops = "iso" /\ iso9660_finddir(node[current_dir].inode, e)
Allocate(e, a) == node' = [node EXCEPT ![a] = iso9660_entry_to_node(e, current_dir)]

(* "cd name" above the volume.                                             *)
CdStatic(name) ==
    /\ Ready /\ node[current_dir].ops = "root"
    /\ LET dest == root_finddir(current_dir, name)
       IN  /\ dest # NULL /\ node[dest].flags = "dir"
           /\ current_dir' = dest
           /\ path' = Append(path, node[dest].inode)
    /\ UNCHANGED <<node, cat, ls>>

(* "cd name" on the volume.  The node of a file, and that of the directory *)
(* left behind, stay allocated.                                            *)
Cd(e, a) ==
    /\ Ready /\ Finds(e) /\ a \in FreeAddr
    /\ Allocate(e, a)
    /\ IF e \in Dir THEN current_dir' = a /\ path' = Append(path, e)
                    ELSE UNCHANGED <<current_dir, path>>
    /\ UNCHANGED <<cat, ls>>

(* "filesize name", and "cat name" of a directory.                         *)
Look(e, a) ==
    /\ Ready /\ Finds(e) /\ a \in FreeAddr
    /\ Allocate(e, a)
    /\ UNCHANGED <<current_dir, path, cat, ls>>
------------------------------------------------------------------------------
root_recreate(mini) ==
    CASE mini.inode = 0 -> "fs_root"
      [] mini.inode = 1 -> "fs_mnt"
      [] OTHER          -> NULL

Index(d) == CHOOSE i \in 1..Len(PathTable) : PathTable[i].lba = d

(* Mutant: the second walk of the path table goes one entry too far.       *)
ParentMini_OneTooFar(d) ==
    IF Index(d) = 1 THEN Mini(1, "root")
    ELSE Mini(PathTable[PathTable[Index(d)].parent + 1].lba, "iso")

(* The two walks of iso9660_recreate along the path table; the parent of   *)
(* the root is the mount point.                                            *)
ParentMini(d) ==
    IF Index(d) = 1 THEN Mini(1, "root")
    ELSE Mini(PathTable[PathTable[Index(d)].parent].lba, "iso")

(* free_node: root_free_node does nothing.                                 *)
Freed(m, a) == IF a \in Addr THEN [m EXCEPT ![a] = Free] ELSE m

Up == IF Len(path) > 1 THEN SubSeq(path, 1, Len(path) - 1) ELSE path

(* "cd ..", when the parent is recreated by root_recreate ...              *)
CdUpRoot ==
    /\ Ready /\ node[current_dir].parent.recreate = "root"
    /\ current_dir' = root_recreate(node[current_dir].parent)
    /\ node' = Freed(node, current_dir)
    /\ path' = Up
    /\ UNCHANGED <<cat, ls>>

(* Mutant: the node is freed after current_dir has been assigned to it.    *)
CdUpIso_FreesNew(raw, a) ==
    /\ Ready /\ node[current_dir].parent.recreate = "iso"
    /\ {raw, a} \subseteq FreeAddr /\ raw # a
    /\ LET d == node[current_dir].parent.inode
       IN  node' = Freed([node EXCEPT ![raw] = Raw,
                              ![a] = Node(d, "dir", "iso", "iso", ParentMini(d))], a)
    /\ current_dir' = a
    /\ path' = Up
    /\ UNCHANGED <<cat, ls>>

(* ... and by iso9660_recreate, whose first allocation is never used, and  *)
(* which makes a node of the directory's own record.  The record is read   *)
(* from entry_buffer just after that was freed; addresses here hold one    *)
(* object each, so that the new node does not lie over it is assumed.      *)
CdUpIso(raw, a) ==
    /\ Ready /\ node[current_dir].parent.recreate = "iso"
    /\ {raw, a} \subseteq FreeAddr /\ raw # a
    /\ LET d == node[current_dir].parent.inode
       IN  node' = Freed([node EXCEPT ![raw] = Raw,
                              ![a] = Node(d, "dir", "iso", "iso", ParentMini(d))],
                         current_dir)
    /\ current_dir' = a
    /\ path' = Up
    /\ UNCHANGED <<cat, ls>>
------------------------------------------------------------------------------
(* "cat name" of a file, up to the loop.                                   *)
CatOpen(e, a) ==
    /\ Ready /\ Finds(e) /\ e \in File /\ a \in FreeAddr
    /\ Allocate(e, a)
    /\ cat' = [inode |-> e, fileLeft |-> Length[e], offset |-> 0, out |-> <<>>,
               on |-> TRUE]
    /\ UNCHANGED <<current_dir, path, ls>>

toRead == IF cat.fileLeft >= Block THEN Block ELSE cat.fileLeft

(* The buffer of iso9660_read, in whole blocks.                            *)
blocksize(size) == IF size % Block = 0 THEN size ELSE (size \div Block + 1) * Block

(* Mutant: the offset counts calls by bytes left.                          *)
CatRead_ByLeft ==
    /\ cat.on /\ (cat.out = <<>> \/ cat.fileLeft > 0)
    /\ cat' = [cat EXCEPT
                 !.out = Append(@, [block |-> cat.fileLeft \div Block, n |-> toRead,
                                    room |-> blocksize(toRead)]),
                 !.fileLeft = @ - toRead, !.offset = @ + toRead]
    /\ UNCHANGED <<current_dir, node, path, ls>>

(* One round of the loop, iso9660_read included: the block it reads, the   *)
(* bytes it prints and the room it has for the block.  A read is never     *)
(* longer than the file.                                                   *)
CatRead ==
    /\ cat.on /\ (cat.out = <<>> \/ cat.fileLeft > 0)
    /\ cat' = [inode |-> cat.inode, on |-> TRUE,
               fileLeft |-> cat.fileLeft - toRead, offset |-> cat.offset + toRead,
               out |-> Append(cat.out, [block |-> cat.offset \div Block, n |-> toRead,
                                        room |-> blocksize(toRead)])]
    /\ UNCHANGED <<current_dir, node, path, ls>>

CatDone ==
    /\ cat.on /\ cat.out # <<>> /\ cat.fileLeft <= 0
    /\ cat' = Idle
    /\ UNCHANGED <<current_dir, node, path, ls>>

------------------------------------------------------------------------------
(* The records of a directory on the volume, its own and its parent's      *)
(* first.                                                                  *)
Records(d) ==
    <<[name |-> ".", lba |-> d], [name |-> "..", lba |-> d]>>
        \o [k \in 1..Len(Entries[d]) |-> [name |-> "entry", lba |-> Entries[d][k]]]

(* The walk counts the records that are not the parent's and stops at the  *)
(* one that count i comes to, or behind the last one.                      *)
Numbered(records, i) ==
    LET counted == {k \in DOMAIN records : records[k].name # ".."}
        hits    == {k \in counted : Cardinality({j \in counted : j < k}) = i}
    IN  IF hits = {} THEN 0 ELSE records[CHOOSE k \in hits : TRUE].lba

(* Mutant: the first record is not skipped.                                *)
iso9660_readdir_First(d, i) == Numbered(Records(d), i)

(* Record number i, but for the first one and the parent's, or 0.          *)
iso9660_readdir(d, i) == Numbered(Tail(Records(d)), i)

root_readdir(inode, i) ==
    CASE inode = 0 /\ i = 0 -> 1
      [] inode = 1 /\ i = 0 -> Root
      [] OTHER -> 0

(* readdir_fs of the current directory.                                    *)
readdir_fs(i) ==
    IF node[current_dir].ops = "iso" THEN iso9660_readdir(node[current_dir].inode, i)
                                     ELSE root_readdir(node[current_dir].inode, i)

(* "ls", a call of readdir_fs after the other until there is no entry.     *)
LsBegin ==
    /\ Ready
    /\ ls' = [at |-> "next", out |-> <<>>]
    /\ UNCHANGED <<current_dir, node, path, cat>>
LsNext ==
    /\ ls.at = "next"
    /\ LET entry == readdir_fs(Len(ls.out))
       IN  ls' = IF entry = 0 THEN [at |-> "end", out |-> ls.out]
                 ELSE [at |-> "next", out |-> Append(ls.out, entry)]
    /\ UNCHANGED <<current_dir, node, path, cat>>
LsEnd ==
    /\ ls.at = "end"
    /\ ls' = [at |-> "idle", out |-> <<>>]
    /\ UNCHANGED <<current_dir, node, path, cat>>

Next ==
    \/ LsBegin \/ LsNext \/ LsEnd
    \/ iso9660_init_volume
    \/ \E name \in {"mnt", "cdrom0"} : CdStatic(name)
    \/ \E e \in Dir \cup File, a \in Addr : Cd(e, a) \/ Look(e, a) \/ CatOpen(e, a)
    \/ CdUpRoot
    \/ \E raw, a \in Addr : CdUpIso(raw, a)
    \/ CatRead \/ CatDone

Spec == Init /\ [][Next]_vars
------------------------------------------------------------------------------
MiniType == [inode: Nat, recreate: {"none", "root", "iso"}]
NodeType == [inode: Nat, flags: {"free", "raw", "none", "file", "dir"},
             ops: {"none", "root", "iso"}, recreate: {"none", "root", "iso"},
             parent: MiniType]

(* Nodes have their fields, and the current directory is a directory node  *)
(* or null.                                                                *)
TypeOK ==
    /\ node \in [Static \cup Addr -> NodeType]
    /\ current_dir \in Static \cup Addr \cup {NULL}
    /\ current_dir # NULL => node[current_dir].flags = "dir"
    /\ path \in Seq({0, 1} \cup Dir)
    /\ cat.on \in BOOLEAN /\ cat.fileLeft \in Nat /\ cat.offset \in Nat

(* However the shell got to a directory, by names or by "cd ..", it is the *)
(* one where the user believes to be, and its parent record names the one  *)
(* before it on the way.                                                   *)
CurrentIsPath ==
    current_dir # NULL =>
        /\ node[current_dir].inode = path[Len(path)]
        /\ Len(path) > 1 => node[current_dir].parent.inode = path[Len(path) - 1]

(* The current directory is never a node that "cd .." has given back.      *)
NoDangling == current_dir \in Addr => node[current_dir] \notin {Free, Raw}

(* cat prints every byte of the file once and in order: block after block, *)
(* all but the last one whole.  The device writes whole blocks, and the    *)
(* buffer of a read of a file that is not empty has room for one.          *)
CatExact ==
    cat.on =>
        /\ cat.fileLeft + cat.offset = Length[cat.inode]
        /\ \A k \in 1..Len(cat.out) :
               /\ cat.out[k].block = k - 1
               /\ k < Len(cat.out) => cat.out[k].n = Block
               /\ Length[cat.inode] > 0 => cat.out[k].room >= Block
        /\ cat.fileLeft = 0 /\ cat.out # <<>> =>
               (Len(cat.out) - 1) * Block + cat.out[Len(cat.out)].n = Length[cat.inode]

(* ls shows the records of the directory the user believes to be in, each  *)
(* once and in order, neither "." nor "..", and stops behind the last one: *)
(* also where a look-up stops earlier, at a tight record.                  *)
LsExact ==
    ls.at # "idle" =>
        LET here == path[Len(path)]
            held == CASE here = 0 -> <<1>> [] here = 1 -> <<Root>> [] OTHER -> Entries[here]
        IN  /\ ls.out = SubSeq(held, 1, Len(ls.out))
            /\ ls.at = "end" => ls.out = held

(* "cd .." below the root leads to a directory: the parent record of a     *)
(* node ("used to store information about parent directories", vfs.h) is   *)
(* good enough to build it again.                                          *)
ParentRecreates == current_dir # NULL
==============================================================================
