---------------------------- MODULE Shmem_proofs ----------------------------
(****************************************************************************)
(* That every inode of a limited mount is accounted for, whatever creations *)
(* fail, whatever is renamed over, and whatever remounts say; and that the  *)
(* dentries form one tree, whose directories' link counts and sizes are     *)
(* right.                                                                   *)
(****************************************************************************)
EXTENDS Shmem, FiniteSetTheorems, TLAPS

InodeType == [i_mode : {"special", "dir", "symlink"}, i_nlink : Int, i_size : Int]

Typed ==
    /\ state \in {"absent", "registered", "mounted", "undefined"}
    /\ sbinfo \in SbinfoType \cup {None}
    /\ DOMAIN inode \subseteq Inos /\ inode \in [DOMAIN inode -> InodeType]
    /\ entries \subseteq [dir : Inos, name : Names, ino : Inos]
    /\ at \in [Tasks -> CreationType \cup {None}]
    /\ granted \in Nat /\ gone \in Nat
    /\ stray \subseteq Inos \ {Root}

\* Entries are in directories, of inodes that exist, and share neither place nor inode.
Hung ==
    /\ \A e \in entries : e.dir \in Dirs /\ e.ino \in DOMAIN inode
    /\ \A e, f \in entries : e.ino = f.ino \/ (e.dir = f.dir /\ e.name = f.name) => e = f

\* The inodes there are: of the mount, and of the ones before it.
Alive == DOMAIN inode \cup stray

\* A creation has its directory to itself with the name free, and there is room for its inode.
Reserved ==
    /\ \A t \in Creating : at[t].dir \in Dirs
    /\ \A t, u \in Creating : at[t].dir = at[u].dir => t = u
    /\ \A t \in Creating, e \in entries : e.dir = at[t].dir => e.name # at[t].name
    /\ Cardinality(Alive) + Cardinality(Creating) <= Cardinality(Inos)

Quiet == state # "mounted" => Creating = {} /\ entries = {} /\ gone = 0

Balanced ==
    state = "mounted" /\ sbinfo # None =>
        sbinfo.free_inodes + Cardinality(Creating) + Cardinality(DOMAIN inode) + gone = granted

IInv == Typed /\ Hung /\ Reserved /\ Quiet /\ Balanced
-----------------------------------------------------------------------------
\* Creations are of tasks, inodes of Inos, and both are finitely many (at, inode).
LEMMA Finite ==
    ASSUME Typed
    PROVE  /\ IsFiniteSet(Creating) /\ Cardinality(Creating) \in Nat
           /\ IsFiniteSet(DOMAIN inode) /\ Cardinality(DOMAIN inode) \in Nat
           /\ IsFiniteSet(Alive) /\ Cardinality(Alive) \in Nat
           /\ Cardinality(Inos) \in Nat
<1>1. Creating \subseteq Tasks /\ Alive \subseteq Inos
  BY DEF Creating, Typed, Alive
<1>2. IsFiniteSet(Creating) /\ IsFiniteSet(DOMAIN inode) /\ IsFiniteSet(Alive) /\ IsFiniteSet(Inos)
  BY <1>1, FS_Subset, ShmemAssumption DEF Typed
<1> QED
  BY <1>2, FS_CardinalityType

\* g is f with l links and n entries more in d.
Grown(f, g, d, l, n) ==
    /\ DOMAIN g = DOMAIN f /\ g \in [DOMAIN f -> InodeType]
    /\ \A i \in DOMAIN f : g[i].i_mode = f[i].i_mode /\ (i # d => g[i] = f[i])
    /\ g[d].i_nlink = f[d].i_nlink + l
    /\ g[d].i_size = f[d].i_size + n * Dirent

\* Link counts and sizes are all that a change of a directory's entries changes (BOGO_DIRENT_SIZE,
\* inc_nlink, drop_nlink).
LEMMA AdjustedKeeps ==
    ASSUME NEW f, f \in [DOMAIN f -> InodeType], NEW d \in DOMAIN f, NEW l \in Int, NEW n \in Int
    PROVE  Grown(f, Adjusted(f, d, l, n), d, l, n)
<1> DEFINE r == [f[d] EXCEPT !.i_nlink = f[d].i_nlink + l, !.i_size = f[d].i_size + n * Dirent]
<1>1. f[d] \in InodeType /\ f[d].i_nlink + l \in Int /\ f[d].i_size + n * Dirent \in Int
  BY DEF InodeType, Dirent
<1>2. /\ r \in InodeType /\ r.i_mode = f[d].i_mode
      /\ r.i_nlink = f[d].i_nlink + l /\ r.i_size = f[d].i_size + n * Dirent
  BY <1>1 DEF InodeType
<1>3. Adjusted(f, d, l, n) = [f EXCEPT ![d] = r]
  BY DEF Adjusted, InodeType
<1> HIDE DEF r
<1>4. \A i \in DOMAIN f : [f EXCEPT ![d] = r][i] = IF i = d THEN r ELSE f[i]
  OBVIOUS
<1>5. DOMAIN [f EXCEPT ![d] = r] = DOMAIN f /\ [f EXCEPT ![d] = r] \in [DOMAIN f -> InodeType]
  BY <1>2
<1> QED
  BY <1>2, <1>3, <1>4, <1>5 DEF Grown
-----------------------------------------------------------------------------
LEMMA InitInv == Init => IInv
<1> SUFFICES ASSUME Init PROVE IInv
  OBVIOUS
<1>1. DOMAIN inode = {} /\ Creating = {} /\ Alive = {}
  BY DEF Init, Creating, Alive
<1>2. /\ Cardinality(DOMAIN inode) = 0 /\ Cardinality(Creating) = 0 /\ Cardinality(Alive) = 0
      /\ Cardinality(Inos) \in Nat
  BY <1>1, FS_EmptySet, FS_CardinalityType, ShmemAssumption
<1> QED
  BY <1>1, <1>2 DEF Init, IInv, Typed, Hung, Reserved, Quiet, Balanced

\* shmem_fill_super takes the root's inode of those it grants.
LEMMA MountInv ==
    ASSUME IInv, Mount
    PROVE  IInv'
<1>1. PICK blocks \in Parsed(DefaultBlocks, Blocks), inodes \in Parsed(DefaultInodes, Limits) :
        /\ (blocks # 0 \/ inodes # 0) => inodes # 0
        /\ sbinfo' = IF blocks = 0 /\ inodes = 0 THEN None
                     ELSE [Sbinfo(blocks, inodes) EXCEPT !.free_inodes = @ - 1]
        /\ granted' = inodes
  BY DEF Mount
<1>2. blocks \in Nat /\ inodes \in Nat
  <2>1. DefaultBlocks \in Nat /\ DefaultInodes \in Nat
    BY ShmemAssumption DEF DefaultBlocks, DefaultInodes
  <2> QED
    BY <2>1, ShmemAssumption DEF Parsed
<1>3. Creating' = {} /\ entries' = {} /\ gone' = 0 /\ state' = "mounted"
  BY DEF Mount, IInv, Quiet, Creating
<1>4. DOMAIN inode' = {Root} /\ inode' \in [{Root} -> InodeType] /\ Root \in Inos
  BY ShmemAssumption DEF Mount, NewInode, InodeType, Dirent, Root
<1>5. /\ Cardinality(DOMAIN inode') = 1 /\ Cardinality(Creating') = 0
      /\ Cardinality(Alive') \in Nat /\ Cardinality(Alive') <= Cardinality(Inos)
  <2>1. Cardinality({Root}) = 1
    BY FS_Singleton
  <2>2. Alive' \subseteq Inos
    BY <1>4 DEF Mount, IInv, Typed, Alive
  <2>3. Cardinality(Alive') \in Nat /\ Cardinality(Alive') <= Cardinality(Inos)
    BY <2>2, FS_Subset, FS_CardinalityType, ShmemAssumption
  <2> QED
    BY <1>3, <1>4, <2>1, <2>3, FS_EmptySet
<1>6. sbinfo' # None => /\ sbinfo' \in SbinfoType
                        /\ sbinfo'.free_inodes = inodes - 1
  BY <1>1, <1>2 DEF Sbinfo, SbinfoType
<1>7. Typed'
  BY <1>1, <1>2, <1>3, <1>4, <1>6 DEF IInv, Typed, Mount
<1>8. Hung' /\ Reserved' /\ Quiet'
  BY <1>3, <1>5 DEF Hung, Reserved, Quiet
<1>9. Balanced'
  BY <1>1, <1>2, <1>3, <1>5, <1>6 DEF Balanced
<1> QED
  BY <1>7, <1>8, <1>9 DEF IInv

\* kill_litter_super leaves the inodes that symlink made, which no dentry holds; never the root.
LEMMA UnmountInv ==
    ASSUME IInv, Unmount
    PROVE  IInv'
<1>1. /\ state' = "registered" /\ sbinfo' = None /\ DOMAIN inode' = {} /\ entries' = {}
      /\ granted' = 0 /\ gone' = 0 /\ Creating' = {} /\ at' = at
  BY DEF Unmount, Creating
<1>2. stray' \subseteq Inos \ {Root} /\ Alive' \subseteq Inos
  BY <1>1 DEF Unmount, Busy, IInv, Typed, Alive
<1>3. Cardinality({}) = 0 /\ Cardinality(Alive') \in Nat /\ Cardinality(Alive') <= Cardinality(Inos)
  BY <1>2, FS_EmptySet, FS_Subset, FS_CardinalityType, ShmemAssumption
<1> QED
  BY <1>1, <1>2, <1>3 DEF IInv, Typed, Hung, Reserved, Quiet, Balanced, Unmount

\* shmem_set_size changes the maxima only.
LEMMA RemountInv ==
    ASSUME IInv, Remount
    PROVE  IInv'
<1>1. PICK blocks \in Parsed(sbinfo.max_blocks, Blocks), inodes \in Parsed(sbinfo.max_inodes, Limits) :
        sbinfo' = [sbinfo EXCEPT !.max_blocks = blocks, !.max_inodes = inodes]
  BY DEF Remount
<1>2. sbinfo \in SbinfoType
  BY DEF Remount, IInv, Typed
<1>3. blocks \in Nat /\ inodes \in Nat
  BY <1>2, ShmemAssumption DEF Parsed, SbinfoType
<1>4. sbinfo' \in SbinfoType /\ sbinfo'.free_inodes = sbinfo.free_inodes
  BY <1>1, <1>2, <1>3 DEF SbinfoType
<1>5. /\ UNCHANGED <<state, inode, entries, at, granted, gone, stray>> /\ sbinfo # None
      /\ UNCHANGED <<Creating, Dirs, Alive>>
  BY DEF Remount, Creating, Dirs, Alive
<1> QED
  BY <1>4, <1>5 DEF IInv, Typed, Hung, Reserved, Quiet, Balanced

\* shmem_get_inode: what is taken off the count is a creation's.
LEMMA ReserveInv ==
    ASSUME IInv, NEW t \in Tasks, Reserve(t)
    PROVE  IInv'
<1>1. PICK op \in DOMAIN Kind, d \in Dirs \ Locked, n \in Names :
        Free(d, n) /\ at' = [at EXCEPT ![t] = [op |-> op, dir |-> d, name |-> n]]
  BY DEF Reserve
<1>2. Typed /\ d \in Inos
  BY DEF IInv, Typed, Dirs
<1>3. at'[t] = [op |-> op, dir |-> d, name |-> n] /\ at'[t] \in CreationType /\ at'[t] # None
  BY <1>1, <1>2, ShmemAssumption DEF CreationType, Typed
<1>4. Creating' = Creating \cup {t} /\ t \notin Creating
  BY <1>1, <1>2, <1>3 DEF Reserve, Creating, Typed
<1>5. /\ Cardinality(Creating') = Cardinality(Creating) + 1
      /\ Cardinality(Creating) \in Nat /\ Cardinality(DOMAIN inode) \in Nat
      /\ Cardinality(Alive) \in Nat /\ Cardinality(Inos) \in Nat
  BY <1>2, <1>4, Finite, FS_AddElement
<1>6. sbinfo # None => /\ sbinfo' \in SbinfoType
                       /\ sbinfo'.free_inodes = sbinfo.free_inodes - 1
  BY <1>2 DEF Reserve, Typed, SbinfoType
<1>7. UNCHANGED <<state, inode, entries, granted, gone, stray, Dirs, Alive>> /\ state = "mounted"
      /\ (sbinfo = None => sbinfo' = None) /\ Cardinality(Alive) + Cardinality(Creating) < Cardinality(Inos)
  BY DEF Reserve, Dirs, Alive
<1>8. Typed'
  BY <1>1, <1>2, <1>3, <1>6, <1>7 DEF Typed
<1>9. Hung' /\ Quiet'
  BY <1>7 DEF IInv, Hung, Quiet
<1>10. Reserved'
  <2>1. \A u \in Creating : at'[u] = at[u] /\ at[u].dir \in Dirs /\ at[u].dir # d
    BY <1>1, <1>2, <1>4 DEF IInv, Reserved, Typed, Creating, Locked
  <2>2. \A e \in entries : e.dir = d => e.name # n
    BY <1>1 DEF Free
  <2> QED
    BY <2>1, <2>2, <1>3, <1>4, <1>5, <1>7 DEF IInv, Reserved
<1>11. Balanced'
  <2> SUFFICES ASSUME state' = "mounted", sbinfo' # None
               PROVE  sbinfo'.free_inodes + Cardinality(Creating') + Cardinality(DOMAIN inode') + gone' = granted'
    BY DEF Balanced
  <2>1. /\ sbinfo # None /\ sbinfo \in SbinfoType
        /\ sbinfo.free_inodes + Cardinality(Creating) + Cardinality(DOMAIN inode) + gone = granted
    BY <1>2, <1>7 DEF IInv, Balanced, Typed
  <2> QED
    BY <2>1, <1>2, <1>5, <1>6, <1>7 DEF Typed, SbinfoType
<1> QED
  BY <1>8, <1>9, <1>10, <1>11 DEF IInv

\* A creation that ends, with or without its inode.
LEMMA CreatingEnds ==
    ASSUME Typed, NEW t \in Tasks, at[t] # None, at' = [at EXCEPT ![t] = None]
    PROVE  /\ Creating' = Creating \ {t} /\ \A u \in Creating' : at'[u] = at[u]
           /\ Cardinality(Creating') = Cardinality(Creating) - 1
           /\ at' \in [Tasks -> CreationType \cup {None}]
<1>1. Creating' = Creating \ {t} /\ t \in Creating /\ \A u \in Creating' : at'[u] = at[u]
  BY DEF Typed, Creating
<1> QED
  BY <1>1, Finite, FS_RemoveElement DEF Typed

\* new_inode fails: the inode is given back to the count.
LEMMA NoInodeInv ==
    ASSUME IInv, NEW t \in Tasks, NoInode(t)
    PROVE  IInv'
<1>1. Typed /\ UNCHANGED <<state, inode, entries, granted, gone, stray, Dirs, Alive>>
  BY DEF IInv, NoInode, Dirs, Alive
<1>2. /\ Creating' = Creating \ {t} /\ \A u \in Creating' : at'[u] = at[u]
      /\ Cardinality(Creating') = Cardinality(Creating) - 1
      /\ at' \in [Tasks -> CreationType \cup {None}]
  BY <1>1, CreatingEnds DEF NoInode
<1>3. /\ sbinfo # None => sbinfo' \in SbinfoType /\ sbinfo'.free_inodes = sbinfo.free_inodes + 1
      /\ sbinfo = None => sbinfo' = None
  BY <1>1 DEF NoInode, Typed, SbinfoType
<1>4. Typed'
  BY <1>1, <1>2, <1>3 DEF Typed
<1>5. Hung' /\ Quiet'
  BY <1>1, <1>2 DEF IInv, Hung, Quiet
<1>6. /\ Cardinality(Creating) \in Nat /\ Cardinality(DOMAIN inode) \in Nat
      /\ Cardinality(Alive) \in Nat /\ Cardinality(Inos) \in Nat
  BY <1>1, Finite
<1>7. Reserved'
  BY <1>1, <1>2, <1>6 DEF IInv, Reserved
<1>8. Balanced'
  <2> SUFFICES ASSUME state' = "mounted", sbinfo' # None
               PROVE  sbinfo'.free_inodes + Cardinality(Creating') + Cardinality(DOMAIN inode') + gone' = granted'
    BY DEF Balanced
  <2>1. /\ sbinfo # None /\ sbinfo \in SbinfoType
        /\ sbinfo.free_inodes + Cardinality(Creating) + Cardinality(DOMAIN inode) + gone = granted
    BY <1>1, <1>3 DEF IInv, Balanced, Typed
  <2> QED
    BY <2>1, <1>1, <1>2, <1>3, <1>6 DEF Typed, SbinfoType
<1> QED
  BY <1>4, <1>5, <1>7, <1>8 DEF IInv

\* shmem_mknod, shmem_mkdir, shmem_symlink: the reservation becomes an inode.
LEMMA CreateInv ==
    ASSUME IInv, NEW t \in Tasks, Create(t)
    PROVE  IInv'
<1> DEFINE c == at[t]
           new == CHOOSE i \in Inos \ (DOMAIN inode \cup stray) : TRUE
           with == [i \in DOMAIN inode \cup {new} |-> IF i = new THEN NewInode(Kind[c.op]) ELSE inode[i]]
           links == IF c.op = "mkdir" THEN 1 ELSE 0
<1>1. Typed /\ UNCHANGED <<state, sbinfo, granted, gone, stray>> /\ c # None /\ c \in CreationType
  BY DEF IInv, Create, Typed
<1>2. /\ Creating' = Creating \ {t} /\ \A u \in Creating' : at'[u] = at[u]
      /\ Cardinality(Creating') = Cardinality(Creating) - 1
      /\ at' \in [Tasks -> CreationType \cup {None}] /\ t \in Creating
  BY <1>1, CreatingEnds DEF Create, Creating
<1>3. /\ Cardinality(Creating) \in Nat /\ Cardinality(DOMAIN inode) \in Nat /\ Cardinality(Inos) \in Nat
      /\ IsFiniteSet(DOMAIN inode) /\ IsFiniteSet(Alive) /\ Cardinality(Alive) \in Nat
      /\ Cardinality(Creating) # 0
  BY <1>1, <1>2, Finite, FS_EmptySet
<1>4. new \in Inos \ DOMAIN inode /\ new \notin Alive
  <2>1. Alive # Inos
    BY <1>3 DEF IInv, Reserved
  <2> QED
    BY <1>1, <2>1 DEF Typed, Alive
<1>5. state = "mounted"
  BY <1>2 DEF IInv, Quiet
<1>6. c.dir \in Dirs
  BY <1>2 DEF IInv, Reserved
<1>7. c.op \in DOMAIN Kind /\ c.name \in Names /\ NewInode(Kind[c.op]) \in InodeType
  BY <1>1 DEF CreationType, Kind, NewInode, InodeType, Dirent
<1> HIDE DEF new
<1>8. DOMAIN with = DOMAIN inode \cup {new} /\ with \in [DOMAIN with -> InodeType]
      /\ \A i \in DOMAIN inode : with[i] = inode[i]
  BY <1>1, <1>4, <1>7 DEF Typed
<1>9. /\ DOMAIN inode' = DOMAIN inode \cup {new} /\ inode' \in [DOMAIN inode' -> InodeType]
      /\ \A i \in DOMAIN inode : inode'[i].i_mode = inode[i].i_mode
      /\ entries' \in {entries, entries \cup {Entry(c.dir, c.name, new)}}
  <2>1. CASE c.op = "symlink"
    <3>1. inode' = with /\ entries' = entries
      BY <2>1 DEF Create, new
    <3> QED
      BY <3>1, <1>8
  <2>2. CASE c.op # "symlink"
    <3>1. inode' = Adjusted(with, c.dir, links, 1) /\ entries' = entries \cup {Entry(c.dir, c.name, new)}
      BY <2>2 DEF Create, new
    <3>2. links \in Int /\ 1 \in Int /\ c.dir \in DOMAIN with
      BY <1>6, <1>8 DEF Dirs
    <3> HIDE DEF with, links, c
    <3>3. Grown(with, inode', c.dir, links, 1)
      BY <3>1, <3>2, <1>8, AdjustedKeeps
    <3> QED
      BY <3>1, <3>3, <1>8 DEF Grown
  <2> QED
    BY <2>1, <2>2
<1> HIDE DEF with
<1>10. /\ Dirs \subseteq Dirs' /\ Cardinality(DOMAIN inode') = Cardinality(DOMAIN inode) + 1
       /\ Cardinality(Alive') = Cardinality(Alive) + 1
  <2>1. Dirs \subseteq Dirs'
    BY <1>9 DEF Dirs
  <2>2. Cardinality(DOMAIN inode \cup {new}) = Cardinality(DOMAIN inode) + 1
    BY <1>3, <1>4, FS_AddElement
  <2>3. Alive' = Alive \cup {new}
    BY <1>1, <1>9 DEF Alive
  <2>4. Cardinality(Alive \cup {new}) = Cardinality(Alive) + 1
    BY <1>3, <1>4, FS_AddElement
  <2> QED
    BY <2>1, <2>2, <2>3, <2>4, <1>9
<1>11. \A e \in entries' : e \in entries \/ (e.dir = c.dir /\ e.name = c.name /\ e.ino = new)
  BY <1>9 DEF Entry
<1>12. \A e \in entries : e.dir \in Dirs /\ e.ino \in DOMAIN inode /\ (e.dir = c.dir => e.name # c.name)
  BY <1>2 DEF IInv, Hung, Reserved
<1>13. Typed'
  <2>1. Entry(c.dir, c.name, new) \in [dir : Inos, name : Names, ino : Inos]
    BY <1>1, <1>4, <1>6, <1>7 DEF Entry, Typed, Dirs
  <2> QED
    BY <2>1, <1>1, <1>2, <1>4, <1>9 DEF Typed
<1>14. Hung'
  <2>1. \A e \in entries' : e.dir \in Dirs' /\ e.ino \in DOMAIN inode'
    BY <1>6, <1>9, <1>10, <1>11, <1>12
  <2>2. ASSUME NEW e \in entries', NEW f \in entries', e.ino = f.ino \/ (e.dir = f.dir /\ e.name = f.name)
        PROVE  e = f
    <3>1. CASE e \in entries /\ f \in entries
      BY <2>2, <3>1 DEF IInv, Hung
    <3>2. CASE e \notin entries /\ f \notin entries
      BY <3>2, <1>9
    <3>3. CASE ~ (e \in entries <=> f \in entries)
      BY <2>2, <3>3, <1>4, <1>11, <1>12
    <3> QED
      BY <3>1, <3>2, <3>3
  <2> QED
    BY <2>1, <2>2 DEF Hung
<1>15. Reserved'
  <2>1. \A u \in Creating' : u \in Creating /\ at'[u] = at[u] /\ at[u].dir # c.dir
    BY <1>2 DEF IInv, Reserved
  <2>2. \A u \in Creating', e \in entries' : e.dir = at'[u].dir => e.name # at'[u].name
    BY <2>1, <1>11 DEF IInv, Reserved
  <2>3. Cardinality(Alive') + Cardinality(Creating') <= Cardinality(Inos)
    BY <1>2, <1>3, <1>10 DEF IInv, Reserved
  <2> QED
    BY <2>1, <2>2, <2>3, <1>10 DEF IInv, Reserved
<1>16. Quiet' /\ Balanced'
  <2>1. Quiet'
    BY <1>1, <1>5 DEF Quiet
  <2>2. sbinfo # None => sbinfo.free_inodes \in Nat /\ gone \in Nat /\ granted \in Nat
    BY <1>1 DEF Typed, SbinfoType
  <2> QED
    BY <2>1, <2>2, <1>1, <1>2, <1>3, <1>5, <1>10 DEF IInv, Balanced
<1> QED
  BY <1>13, <1>14, <1>15, <1>16 DEF IInv
-----------------------------------------------------------------------------
\* An inode goes with the entry that named it: what unlink, rmdir and rename have in common.
LEMMA GoneInv ==
    ASSUME IInv, state = "mounted", NEW i \in DOMAIN inode,
           DOMAIN inode' = DOMAIN inode \ {i}, gone' = gone + 1, UNCHANGED <<state, sbinfo, at, granted, stray>>
    PROVE  /\ Balanced' /\ gone' \in Nat
           /\ Cardinality(Alive') + Cardinality(Creating') <= Cardinality(Inos)
<1>1. Typed /\ Creating' = Creating /\ gone \in Nat /\ granted \in Nat
  BY DEF IInv, Creating, Typed
<1>2. /\ Cardinality(Creating) \in Nat /\ Cardinality(DOMAIN inode) \in Nat /\ Cardinality(Inos) \in Nat
      /\ IsFiniteSet(DOMAIN inode) /\ IsFiniteSet(Alive) /\ Cardinality(Alive) \in Nat
  BY <1>1, Finite
<1>3. /\ Cardinality(DOMAIN inode') = Cardinality(DOMAIN inode) - 1
      /\ Cardinality(Alive') \in Nat /\ Cardinality(Alive') <= Cardinality(Alive)
  <2>1. Cardinality(DOMAIN inode \ {i}) = Cardinality(DOMAIN inode) - 1
    BY <1>2, FS_RemoveElement
  <2>2. Alive' \subseteq Alive
    BY DEF Alive
  <2>3. Cardinality(Alive') \in Nat /\ Cardinality(Alive') <= Cardinality(Alive)
    BY <1>2, <2>2, FS_Subset, FS_CardinalityType
  <2> QED
    BY <2>1, <2>3
<1>4. sbinfo # None => sbinfo.free_inodes \in Nat
  BY <1>1 DEF Typed, SbinfoType
<1> QED
  BY <1>1, <1>2, <1>3, <1>4 DEF IInv, Balanced, Reserved

\* shmem_unlink and shmem_rmdir: e goes with its inode, which nothing hangs from.
LEMMA RemoveInv ==
    ASSUME IInv, state = "mounted", NEW e \in entries, NEW l \in Int,
           \A f \in entries : f.dir # e.ino, \A t \in Creating : at[t].dir # e.ino,
           inode' = Without(Adjusted(inode, e.dir, l, -1), e.ino), entries' = entries \ {e},
           gone' = gone + 1, UNCHANGED <<state, sbinfo, at, granted, stray>>
    PROVE  IInv'
<1>1. Typed /\ e.dir \in DOMAIN inode /\ e.ino \in DOMAIN inode
  BY DEF IInv, Hung, Dirs
<1>2. /\ DOMAIN inode' = DOMAIN inode \ {e.ino} /\ inode' \in [DOMAIN inode' -> InodeType]
      /\ \A i \in DOMAIN inode' : inode'[i].i_mode = inode[i].i_mode
  <2>1. Grown(inode, Adjusted(inode, e.dir, l, -1), e.dir, l, -1)
    <3>1. -1 \in Int /\ inode \in [DOMAIN inode -> InodeType]
      BY <1>1 DEF Typed
    <3> QED
      BY <1>1, <3>1, AdjustedKeeps
  <2> QED
    BY <2>1 DEF Without, Grown
<1>3. /\ Balanced' /\ gone' \in Nat
      /\ Cardinality(Alive') + Cardinality(Creating') <= Cardinality(Inos)
  BY <1>1, <1>2, GoneInv
<1>4. Typed' /\ Quiet'
  BY <1>1, <1>2, <1>3 DEF Typed, Quiet
<1>5. Dirs \ {e.ino} \subseteq Dirs'
  BY <1>2 DEF Dirs
<1>6. Hung'
  BY <1>2, <1>5 DEF IInv, Hung
<1>7. Reserved'
  <2>1. Creating' = Creating
    BY DEF Creating
  <2> QED
    BY <2>1, <1>3, <1>5 DEF IInv, Reserved
<1> QED
  BY <1>3, <1>4, <1>6, <1>7 DEF IInv

LEMMA UnlinkInv ==
    ASSUME IInv, Unlink
    PROVE  IInv'
<1>1. PICK e \in entries :
        /\ inode[e.ino].i_mode # "dir"
        /\ inode' = Without(Adjusted(inode, e.dir, 0, -1), e.ino)
        /\ entries' = entries \ {e}
  BY DEF Unlink
<1>2. e.ino \notin Dirs
  BY <1>1 DEF Dirs
<1>3. (\A f \in entries : f.dir # e.ino) /\ (\A t \in Creating : at[t].dir # e.ino)
  BY <1>2 DEF IInv, Hung, Reserved
<1>4. state = "mounted" /\ gone' = gone + 1 /\ UNCHANGED <<state, sbinfo, at, granted, stray>>
  BY DEF Unlink
<1> QED
  BY <1>1, <1>3, <1>4, RemoveInv

LEMMA RmdirInv ==
    ASSUME IInv, Rmdir
    PROVE  IInv'
<1>1. PICK e \in entries :
        /\ {e.dir, e.ino} \cap Locked = {} /\ Empty(e.ino)
        /\ inode' = Without(Adjusted(inode, e.dir, -1, -1), e.ino)
        /\ entries' = entries \ {e}
  BY DEF Rmdir
<1>2. (\A f \in entries : f.dir # e.ino) /\ (\A t \in Creating : at[t].dir # e.ino)
  BY <1>1 DEF Empty, Locked
<1>3. state = "mounted" /\ gone' = gone + 1 /\ UNCHANGED <<state, sbinfo, at, granted, stray>>
  BY DEF Rmdir
<1> QED
  BY <1>1, <1>2, <1>3, RemoveInv

\* shmem_rename: what was at the new place goes as by unlink; nothing hangs from it.
LEMMA RenameInv ==
    ASSUME IInv, Rename
    PROVE  IInv'
<1>1. PICK e \in entries, d \in Dirs, n \in Names :
        /\ MayRename(e, d, n) /\ (\A x \in Target(d, n) : Empty(x.ino))
        /\ inode' = [i \in DOMAIN inode \ {x.ino : x \in Target(d, n)} |->
                       Adjusted(Adjusted(inode, e.dir, Links(e, Target(d, n))[1], -1),
                                d, Links(e, Target(d, n))[2], 1 - Cardinality(Target(d, n)))[i]]
        /\ entries' = (entries \ (Target(d, n) \cup {e})) \cup {Entry(d, n, e.ino)}
        /\ gone' = gone + Cardinality(Target(d, n))
  BY DEF Rename
<1> DEFINE target == Target(d, n)
           lost == {x.ino : x \in target}
           old == Adjusted(inode, e.dir, Links(e, target)[1], -1)
           moved == Adjusted(old, d, Links(e, target)[2], 1 - Cardinality(target))
<1>2. Typed /\ state = "mounted" /\ UNCHANGED <<state, sbinfo, at, granted, stray>> /\ Creating' = Creating
  BY DEF IInv, Rename, Creating
<1>3. /\ e.dir \in DOMAIN inode /\ e.ino \in DOMAIN inode /\ d \in DOMAIN inode
  BY DEF IInv, Hung, Dirs
<1>4. target = {} \/ \E x \in entries : target = {x}
  BY DEF Target, IInv, Hung
<1>5. Cardinality(target) \in {0, 1}
  BY <1>4, FS_EmptySet, FS_Singleton
<1>6. /\ DOMAIN inode' = DOMAIN inode \ lost /\ inode' \in [DOMAIN inode' -> InodeType]
      /\ \A i \in DOMAIN inode' : inode'[i].i_mode = inode[i].i_mode
  <2>1. /\ Links(e, target)[1] \in Int /\ Links(e, target)[2] \in Int /\ 1 - Cardinality(target) \in Int
        /\ -1 \in Int /\ inode \in [DOMAIN inode -> InodeType]
    BY <1>2, <1>5 DEF Links, Typed
  <2> HIDE DEF target
  <2>2. /\ DOMAIN old = DOMAIN inode /\ old \in [DOMAIN old -> InodeType]
        /\ \A i \in DOMAIN inode : old[i].i_mode = inode[i].i_mode
    BY <1>3, <2>1, AdjustedKeeps DEF Grown
  <2> HIDE DEF old
  <2>3. /\ DOMAIN moved = DOMAIN inode /\ moved \in [DOMAIN moved -> InodeType]
        /\ \A i \in DOMAIN inode : moved[i].i_mode = inode[i].i_mode
    BY <1>3, <2>1, <2>2, AdjustedKeeps DEF Grown
  <2>4. inode' = [i \in DOMAIN inode \ lost |-> moved[i]]
    BY <1>1 DEF target, old
  <2> HIDE DEF moved, lost
  <2> QED
    BY <2>3, <2>4
<1>7. \A i \in lost : /\ i # e.ino /\ i # d
                      /\ \A f \in entries : f.dir # i
                      /\ \A t \in Creating : at[t].dir # i
  <2> SUFFICES ASSUME NEW x \in target
               PROVE  /\ x.ino # e.ino /\ x.ino # d
                      /\ \A f \in entries : f.dir # x.ino
                      /\ \A t \in Creating : at[t].dir # x.ino
    OBVIOUS
  <2>1. x \in entries /\ x.dir = d /\ x # e /\ x.ino \notin Locked /\ Empty(x.ino)
    BY <1>1 DEF MayRename, Target
  <2> QED
    BY <2>1 DEF Empty, Locked, IInv, Hung
<1>8. /\ Balanced' /\ gone' \in Nat
      /\ Cardinality(Alive') + Cardinality(Creating') <= Cardinality(Inos)
  <2>1. CASE target = {}
    <3>1. DOMAIN inode' = DOMAIN inode /\ gone' = gone /\ Alive' = Alive
      BY <2>1, <1>1, <1>2, <1>6, FS_EmptySet DEF Typed, Alive
    <3> QED
      BY <3>1, <1>2 DEF IInv, Balanced, Reserved, Typed
  <2>2. CASE target # {}
    <3>1. PICK x \in entries : target = {x}
      BY <2>2, <1>4
    <3>2. DOMAIN inode' = DOMAIN inode \ {x.ino} /\ gone' = gone + 1 /\ x.ino \in DOMAIN inode
      <4>1. Cardinality({x}) = 1 /\ lost = {x.ino}
        BY <3>1, FS_Singleton
      <4> QED
        BY <3>1, <4>1, <1>1, <1>6 DEF IInv, Hung
    <3> QED
      BY <3>2, <1>2, GoneInv
  <2> QED
    BY <2>1, <2>2
<1>9. \A f \in entries' : \/ f \in entries /\ f # e /\ f \notin target
                          \/ f = Entry(d, n, e.ino)
  BY <1>1
<1>10. \A f \in entries : f \notin target => ~ (f.dir = d /\ f.name = n) /\ f.ino \notin lost
  BY DEF Target, IInv, Hung
<1>11. Dirs \ lost \subseteq Dirs'
  BY <1>6 DEF Dirs
<1> HIDE DEF target, lost, old, moved
<1>12. Typed' /\ Quiet'
  <2>1. Entry(d, n, e.ino) \in [dir : Inos, name : Names, ino : Inos]
    BY <1>2, <1>3 DEF Entry, Typed
  <2> QED
    BY <2>1, <1>2, <1>6, <1>8, <1>9 DEF Typed, Quiet
<1>13. Hung'
  <2>1. \A f \in entries' : f.dir \in Dirs' /\ f.ino \in DOMAIN inode'
    BY <1>3, <1>6, <1>7, <1>9, <1>10, <1>11 DEF Entry, IInv, Hung
  <2>2. \A f, g \in entries' : f.ino = g.ino \/ (f.dir = g.dir /\ f.name = g.name) => f = g
    BY <1>9, <1>10 DEF Entry, IInv, Hung
  <2> QED
    BY <2>1, <2>2 DEF Hung
<1>14. Reserved'
  <2>1. \A t \in Creating : at[t].dir # d /\ at[t].dir \in Dirs'
    BY <1>1, <1>7, <1>11 DEF MayRename, Locked, IInv, Reserved
  <2>2. \A t \in Creating, f \in entries' : f.dir = at[t].dir => f.name # at[t].name
    BY <2>1, <1>9 DEF Entry, IInv, Reserved
  <2> QED
    BY <2>1, <2>2, <1>2, <1>8 DEF IInv, Reserved
<1> QED
  BY <1>8, <1>12, <1>13, <1>14 DEF IInv
-----------------------------------------------------------------------------
\* Registering, and the error path that leaves the mount undefined, touch none of it.
LEMMA StateInv ==
    ASSUME IInv, InitTmpfs \/ MountPutsTwice
    PROVE  IInv'
<1>1. /\ state \in {"absent", "registered"} /\ state' \in {"registered", "undefined"}
      /\ UNCHANGED <<sbinfo, inode, entries, at, granted, gone, stray, Creating, Dirs, Alive>>
  BY DEF InitTmpfs, MountPutsTwice, Creating, Dirs, Alive
<1> QED
  BY <1>1 DEF IInv, Typed, Hung, Reserved, Quiet, Balanced

LEMMA NextInv == IInv /\ [Next]_vars => IInv'
<1> SUFFICES ASSUME IInv, [Next]_vars PROVE IInv'
  OBVIOUS
<1>1. CASE UNCHANGED vars
  <2>1. UNCHANGED <<Creating, Dirs, Alive>>
    BY <1>1 DEF vars, Creating, Dirs, Alive
  <2> QED
    BY <2>1, <1>1 DEF vars, IInv, Typed, Hung, Reserved, Quiet, Balanced
<1>2. CASE InitTmpfs \/ MountPutsTwice
  BY <1>2, StateInv
<1>3. CASE Mount
  BY <1>3, MountInv
<1>4. CASE Unmount
  BY <1>4, UnmountInv
<1>5. CASE Remount
  BY <1>5, RemountInv
<1>6. CASE Unlink
  BY <1>6, UnlinkInv
<1>7. CASE Rmdir
  BY <1>7, RmdirInv
<1>8. CASE Rename
  BY <1>8, RenameInv
<1>9. CASE \E t \in Tasks : Reserve(t) \/ NoInode(t) \/ Create(t)
  BY <1>9, ReserveInv, NoInodeInv, CreateInv
<1> QED
  BY <1>1, <1>2, <1>3, <1>4, <1>5, <1>6, <1>7, <1>8, <1>9 DEF Next

\* Entries share neither place nor inode and hang from directories, a creation has its directory
\* to itself and an inode left for it, and when nothing is mounted nothing is being made; what a
\* mount leaves behind, the inodes that shmem_symlink made, are never its root (shmem_mknod,
\* shmem_rename, shmem_get_inode, shmem_symlink).
THEOREM IInvHolds == Spec => []IInv
<1>1. Init => IInv
  BY InitInv
<1>2. IInv /\ [Next]_vars => IInv'
  BY NextInv
<1> QED
  BY <1>1, <1>2, PTL DEF Spec

\* Every inode that a limited mount granted is free, reserved by a creation, in use, or was
\* removed (shmem_get_inode, shmem_set_size, shmem_unlink).
THEOREM InodesBalance == Spec => []InodesAccounted
<1>1. IInv => InodesAccounted
  <2> SUFFICES ASSUME IInv, state = "mounted", sbinfo # None
               PROVE  /\ sbinfo.free_inodes >= 0
                      /\ sbinfo.free_inodes + Cardinality(Creating) + Cardinality(DOMAIN inode) + gone = granted
    BY DEF InodesAccounted
  <2>1. sbinfo.free_inodes \in Nat
    BY DEF IInv, Typed, SbinfoType
  <2> QED
    BY <2>1 DEF IInv, Balanced
<1> QED
  BY <1>1, IInvHolds, PTL
-----------------------------------------------------------------------------
\* The entries of E in a directory, and those that are directories themselves.
Within(E, d) == {e \in E : e.dir = d}
Subdirs(E, f, d) == {e \in E : e.dir = d /\ f[e.ino].i_mode = "dir"}

\* Link counts and sizes count the entries.
Tallied ==
    \A d \in Dirs :
        /\ inode[d].i_nlink = 2 + Cardinality(Subdirs(entries, inode, d))
        /\ inode[d].i_size = (2 + Cardinality(Within(entries, d))) * Dirent

\* Whoever goes up from a directory, one entry at a time, comes to the root: no cycle.
Rooted == \A S \in SUBSET DOMAIN inode : S \cap Dirs # {} /\ Upward(S) => Root \in S

\* All inodes but the root's have an entry, symlinks excepted.
Named ==
    /\ Root \in Dirs
    /\ \A e \in entries : e.ino # Root /\ inode[e.ino].i_mode # "symlink"
    /\ \A i \in DOMAIN inode : \/ inode[i].i_mode = "symlink" \/ i = Root
                               \/ \E e \in entries : e.ino = i

Tree == IsFiniteSet(entries) /\ (state = "mounted" => Tallied /\ Rooted /\ Named)
-----------------------------------------------------------------------------
\* F counts one entry more than E does: e.
OneMore(E, F, e, f, d) ==
    /\ Cardinality(Within(E, d)) \in Nat /\ Cardinality(Subdirs(E, f, d)) \in Nat
    /\ Cardinality(Within(F, d)) = Cardinality(Within(E, d)) + IF e.dir = d THEN 1 ELSE 0
    /\ Cardinality(Subdirs(F, f, d)) =
         Cardinality(Subdirs(E, f, d)) + IF e.dir = d /\ f[e.ino].i_mode = "dir" THEN 1 ELSE 0

\* An entry more is one more in its directory, and one more subdirectory if it is a directory.
LEMMA OneEntry ==
    ASSUME NEW E, IsFiniteSet(E), NEW e, e \notin E, NEW F, F = E \cup {e}, NEW f, NEW d
    PROVE  OneMore(E, F, e, f, d)
<1>1. /\ IsFiniteSet(Within(E, d)) /\ e \notin Within(E, d)
      /\ IsFiniteSet(Subdirs(E, f, d)) /\ e \notin Subdirs(E, f, d)
  BY FS_Subset DEF Within, Subdirs
<1>2. Within(E \cup {e}, d) = IF e.dir = d THEN Within(E, d) \cup {e} ELSE Within(E, d)
  BY DEF Within
<1>3. Subdirs(E \cup {e}, f, d) =
        IF e.dir = d /\ f[e.ino].i_mode = "dir" THEN Subdirs(E, f, d) \cup {e} ELSE Subdirs(E, f, d)
  BY DEF Subdirs
<1>4. /\ Cardinality(Within(E, d)) \in Nat /\ Cardinality(Subdirs(E, f, d)) \in Nat
      /\ Cardinality(Within(E, d) \cup {e}) = Cardinality(Within(E, d)) + 1
      /\ Cardinality(Subdirs(E, f, d) \cup {e}) = Cardinality(Subdirs(E, f, d)) + 1
  BY <1>1, FS_CardinalityType, FS_AddElement
<1> QED
  BY <1>2, <1>3, <1>4 DEF OneMore

\* Only the modes of the inodes tell which entries are directories.
LEMMA SameModes ==
    ASSUME NEW E, NEW f, NEW g, \A e \in E : g[e.ino].i_mode = f[e.ino].i_mode, NEW d
    PROVE  Subdirs(E, g, d) = Subdirs(E, f, d)
  BY DEF Subdirs

\* Nothing is in a directory that no entry is in.
LEMMA NoEntries ==
    ASSUME NEW E, NEW f, NEW d, \A e \in E : e.dir # d
    PROVE  Cardinality(Within(E, d)) = 0 /\ Cardinality(Subdirs(E, f, d)) = 0
<1>1. Within(E, d) = {} /\ Subdirs(E, f, d) = {}
  BY DEF Within, Subdirs
<1> QED
  BY <1>1, FS_EmptySet

\* The path of a directory goes up from it (lock_rename).
LEMMA PathUpward ==
    ASSUME Hung, NEW d \in DOMAIN inode
    PROVE  Path(d) \subseteq DOMAIN inode /\ d \in Path(d) /\ Upward(Path(d))
<1>1. Path(d) \subseteq DOMAIN inode /\ d \in Path(d)
  BY DEF Path
<1>2. ASSUME NEW e \in entries, e.ino \in Path(d)
      PROVE  e.dir \in Path(d)
  <2>1. e.dir \in DOMAIN inode
    BY DEF Hung, Dirs
  <2>2. \A S \in SUBSET DOMAIN inode : d \in S /\ Upward(S) => e.dir \in S
    BY <1>2 DEF Path, Upward
  <2> QED
    BY <2>1, <2>2 DEF Path
<1> QED
  BY <1>1, <1>2 DEF Upward
-----------------------------------------------------------------------------
\* shmem_fill_super makes a root with nothing in it.
LEMMA MountTree ==
    ASSUME IInv, Tree, Mount
    PROVE  Tree'
<1>1. /\ entries' = {} /\ DOMAIN inode' = {Root} /\ state' = "mounted"
      /\ inode'[Root].i_mode = "dir" /\ inode'[Root].i_nlink = 2 /\ inode'[Root].i_size = 2 * Dirent
  BY DEF Mount, IInv, Quiet, NewInode
<1>2. Dirs' = {Root} /\ IsFiniteSet(entries')
  BY <1>1, FS_EmptySet DEF Dirs
<1>3. Tallied'
  <2>1. /\ Cardinality(Within(entries', Root)) = 0
        /\ Cardinality(Subdirs(entries', inode', Root)) = 0
    BY <1>1, NoEntries
  <2> QED
    BY <1>1, <1>2, <2>1 DEF Tallied, Dirent
<1>4. Rooted' /\ Named'
  BY <1>1, <1>2 DEF Rooted, Named
<1> QED
  BY <1>2, <1>3, <1>4 DEF Tree

\* shmem_mknod, shmem_mkdir and shmem_symlink: what is new hangs from a directory, or is a
\* symlink, and nothing is in it.
LEMMA CreateTree ==
    ASSUME IInv, Tree, NEW t \in Tasks, Create(t)
    PROVE  Tree'
<1> DEFINE c == at[t]
           new == CHOOSE i \in Inos \ (DOMAIN inode \cup stray) : TRUE
           with == [i \in DOMAIN inode \cup {new} |-> IF i = new THEN NewInode(Kind[c.op]) ELSE inode[i]]
           links == IF c.op = "mkdir" THEN 1 ELSE 0
<1>1. /\ Typed /\ Hung /\ c \in CreationType /\ t \in Creating /\ state = "mounted" /\ state' = state
      /\ c.dir \in Dirs
  BY DEF IInv, Create, Typed, Creating, Quiet, Reserved
<1>2. new \in Inos \ DOMAIN inode
  <2>1. /\ Cardinality(Creating) \in Nat /\ Cardinality(Alive) \in Nat /\ Cardinality(Inos) \in Nat
        /\ Cardinality(Creating) # 0
    BY <1>1, Finite, FS_EmptySet
  <2>2. Alive # Inos
    BY <2>1 DEF IInv, Reserved
  <2> QED
    BY <1>1, <2>2 DEF Typed, Alive
<1> HIDE DEF new
<1>3. /\ DOMAIN with = DOMAIN inode \cup {new} /\ with[new] = NewInode(Kind[c.op])
      /\ \A i \in DOMAIN inode : with[i] = inode[i]
      /\ with \in [DOMAIN with -> InodeType]
  BY <1>1, <1>2 DEF CreationType, Kind, NewInode, InodeType, Dirent, Typed
<1>4. /\ Kind[c.op] = "symlink" <=> c.op = "symlink"
      /\ Kind[c.op] = "dir" <=> c.op = "mkdir"
  BY <1>1 DEF CreationType, Kind
<1>5. /\ NewInode(Kind[c.op]).i_mode = Kind[c.op]
      /\ c.op = "mkdir" => NewInode(Kind[c.op]).i_nlink = 2 /\ NewInode(Kind[c.op]).i_size = 2 * Dirent
  BY <1>4 DEF NewInode
<1>6. Tallied /\ Rooted /\ Named /\ IsFiniteSet(entries)
  BY <1>1 DEF Tree
<1>7. \A e \in entries : e.dir \in DOMAIN inode /\ e.ino \in DOMAIN inode
  BY <1>1 DEF Hung, Dirs
<1>8. CASE c.op = "symlink"
  <2>1. inode' = with /\ entries' = entries
    BY <1>8 DEF Create, new
  <2> HIDE DEF with, c
  <2>2. Dirs' = Dirs
    BY <1>2, <1>3, <1>4, <1>5, <1>8, <2>1 DEF Dirs
  <2>3. Tallied'
    <3> SUFFICES ASSUME NEW d \in Dirs
                 PROVE  /\ inode'[d].i_nlink = 2 + Cardinality(Subdirs(entries', inode', d))
                        /\ inode'[d].i_size = (2 + Cardinality(Within(entries', d))) * Dirent
      BY <2>2 DEF Tallied
    <3>1. Subdirs(entries, with, d) = Subdirs(entries, inode, d)
      BY <1>3, <1>7, SameModes
    <3>2. with[d] = inode[d]
      BY <1>3 DEF Dirs
    <3> QED
      BY <1>6, <2>1, <3>1, <3>2 DEF Tallied
  <2>4. Rooted'
    <3> SUFFICES ASSUME NEW S \in SUBSET DOMAIN inode', S \cap Dirs' # {}, Upward(S)'
                 PROVE  Root \in S
      BY DEF Rooted
    <3>1. Upward(S \cap DOMAIN inode) /\ (S \cap DOMAIN inode) \cap Dirs # {}
      BY <1>7, <2>1, <2>2 DEF Upward, Dirs
    <3> QED
      BY <1>6, <3>1 DEF Rooted
  <2>5. Named'
    BY <1>3, <1>4, <1>5, <1>6, <1>7, <1>8, <2>1, <2>2 DEF Named
  <2> QED
    BY <1>6, <2>1, <2>3, <2>4, <2>5 DEF Tree
<1>9. CASE c.op # "symlink"
  <2> DEFINE g == Adjusted(with, c.dir, links, 1)
             entry == Entry(c.dir, c.name, new)
  <2>1. inode' = g /\ entries' = entries \cup {entry}
    BY <1>9 DEF Create, new
  <2>2. links \in Int /\ 1 \in Int /\ c.dir \in DOMAIN with /\ c.dir \in DOMAIN inode
    BY <1>1, <1>3 DEF Dirs
  <2>3. links = (IF Kind[c.op] = "dir" THEN 1 ELSE 0)
    BY <1>4
  <2> HIDE DEF with, links, c
  <2>4. Grown(with, g, c.dir, links, 1)
    BY <1>3, <2>2, AdjustedKeeps
  <2>5. entry.dir = c.dir /\ entry.ino = new /\ entry \notin entries
    BY <1>2, <1>7 DEF Entry
  <2> HIDE DEF g, entry
  <2>6. \A e \in entries : g[e.ino].i_mode = inode[e.ino].i_mode
    BY <1>3, <1>7, <2>4 DEF Grown
  <2>7. g[new].i_mode = Kind[c.op]
    BY <1>3, <1>5, <2>4 DEF Grown
  <2>8. Dirs' = IF Kind[c.op] = "dir" THEN Dirs \cup {new} ELSE Dirs
    BY <1>2, <1>3, <2>1, <2>4, <2>7 DEF Dirs, Grown
  <2>9. Tallied'
    <3> SUFFICES ASSUME NEW d \in Dirs'
                 PROVE  /\ g[d].i_nlink = 2 + Cardinality(Subdirs(entries', g, d))
                        /\ g[d].i_size = (2 + Cardinality(Within(entries', d))) * Dirent
      BY <2>1 DEF Tallied
    <3>1. CASE d = new
      <4>1. \A e \in entries' : e.dir # d
        BY <1>2, <1>7, <2>1, <2>2, <2>5, <3>1
      <4>2. Cardinality(Within(entries', d)) = 0 /\ Cardinality(Subdirs(entries', g, d)) = 0
        BY <4>1, NoEntries
      <4>3. Kind[c.op] = "dir" /\ new # c.dir
        BY <1>2, <2>2, <2>8, <3>1 DEF Dirs
      <4>4. g[d].i_nlink = 2 /\ g[d].i_size = 2 * Dirent
        BY <1>3, <1>4, <1>5, <2>4, <3>1, <4>3 DEF Grown
      <4> QED
        BY <4>2, <4>4 DEF Dirent
    <3>2. CASE d # new
      <4>1. d \in Dirs /\ d \in DOMAIN inode /\ with[d] = inode[d]
        BY <1>3, <2>8, <3>2 DEF Dirs
      <4>2. Subdirs(entries, g, d) = Subdirs(entries, inode, d)
        BY <2>6, SameModes
      <4>3. /\ Cardinality(Within(entries, d)) \in Nat /\ Cardinality(Subdirs(entries, g, d)) \in Nat
            /\ Cardinality(Within(entries', d)) =
                 Cardinality(Within(entries, d)) + IF entry.dir = d THEN 1 ELSE 0
            /\ Cardinality(Subdirs(entries', g, d)) =
                 Cardinality(Subdirs(entries, g, d)) +
                   IF entry.dir = d /\ g[entry.ino].i_mode = "dir" THEN 1 ELSE 0
        BY <1>6, <2>1, <2>5, OneEntry DEF OneMore
      <4>4. /\ inode[d].i_nlink = 2 + Cardinality(Subdirs(entries, g, d))
            /\ inode[d].i_size = (2 + Cardinality(Within(entries, d))) * Dirent
        BY <1>6, <4>1, <4>2 DEF Tallied
      <4>5. /\ g[d].i_nlink = inode[d].i_nlink + IF c.dir = d THEN links ELSE 0
            /\ g[d].i_size = inode[d].i_size + (IF c.dir = d THEN 1 ELSE 0) * Dirent
        BY <1>3, <2>4, <4>1, <4>4, <4>3 DEF Dirent, Grown
      <4> QED
        BY <2>3, <2>5, <2>7, <4>3, <4>4, <4>5 DEF Dirent
    <3> QED
      BY <3>1, <3>2
  <2>10. Rooted'
    <3> SUFFICES ASSUME NEW S \in SUBSET DOMAIN inode', S \cap Dirs' # {}, Upward(S)'
                 PROVE  Root \in S
      BY DEF Rooted
    <3>1. Upward(S \cap DOMAIN inode)
      BY <1>7, <2>1 DEF Upward
    <3>2. new \in S => c.dir \in S
      BY <2>1, <2>5 DEF Upward
    <3>3. (S \cap DOMAIN inode) \cap Dirs # {}
      BY <1>1, <2>2, <2>8, <3>2 DEF Dirs
    <3> QED
      BY <1>6, <3>1, <3>3 DEF Rooted
  <2>11. Named'
    <3>1. Kind[c.op] # "symlink" /\ new # Root
      BY <1>2, <1>4, <1>6, <1>9 DEF Named, Dirs
    <3>2. \A e \in entries' : e.ino # Root /\ g[e.ino].i_mode # "symlink"
      BY <1>6, <2>1, <2>5, <2>6, <2>7, <3>1 DEF Named
    <3>3. \A i \in DOMAIN g : g[i].i_mode = "symlink" \/ i = Root \/ \E e \in entries' : e.ino = i
      BY <1>3, <1>6, <2>1, <2>4, <2>5 DEF Named, Grown
    <3> QED
      BY <1>6, <2>1, <2>8, <3>2, <3>3 DEF Named
  <2>12. IsFiniteSet(entries')
    BY <1>6, <2>1, FS_AddElement
  <2> QED
    BY <2>9, <2>10, <2>11, <2>12 DEF Tree
<1> QED
  BY <1>8, <1>9

\* shmem_unlink and shmem_rmdir: an entry goes with its inode, which nothing is in.
LEMMA RemoveTree ==
    ASSUME IInv, Tree, state = "mounted", state' = "mounted", NEW e \in entries, NEW l \in Int,
           l = (IF IsDir(e) THEN -1 ELSE 0), \A f \in entries : f.dir # e.ino,
           inode' = Without(Adjusted(inode, e.dir, l, -1), e.ino), entries' = entries \ {e}
    PROVE  Tree'
<1> DEFINE g == Adjusted(inode, e.dir, l, -1)
<1>1. /\ Typed /\ Hung /\ Tallied /\ Rooted /\ Named /\ IsFiniteSet(entries)
  BY DEF IInv, Tree
<1>2. e.dir \in DOMAIN inode /\ e.ino \in DOMAIN inode /\ e.dir # e.ino
  BY <1>1 DEF Hung, Dirs
<1>3. Grown(inode, g, e.dir, l, -1)
  <2>1. -1 \in Int /\ inode \in [DOMAIN inode -> InodeType]
    BY <1>1 DEF Typed
  <2> QED
    BY <1>2, <2>1, AdjustedKeeps
<1> HIDE DEF g
<1>4. DOMAIN inode' = DOMAIN inode \ {e.ino} /\ \A i \in DOMAIN inode' : inode'[i] = g[i]
  BY <1>3 DEF Without, g, Grown
<1>5. Dirs' = Dirs \ {e.ino}
  BY <1>3, <1>4 DEF Dirs, Grown
<1>6. \A f \in entries' : f \in entries /\ f.ino # e.ino /\ f.ino \in DOMAIN inode'
  BY <1>1, <1>4 DEF Hung
<1>7. Tallied'
  <2> SUFFICES ASSUME NEW d \in Dirs'
               PROVE  /\ inode'[d].i_nlink = 2 + Cardinality(Subdirs(entries', inode', d))
                      /\ inode'[d].i_size = (2 + Cardinality(Within(entries', d))) * Dirent
    BY DEF Tallied
  <2>1. d \in Dirs /\ d \in DOMAIN inode /\ d \in DOMAIN inode'
    BY <1>5 DEF Dirs
  <2>2. Subdirs(entries', inode', d) = Subdirs(entries', inode, d)
    BY <1>3, <1>4, <1>6, SameModes DEF Grown
  <2>3. /\ Cardinality(Within(entries', d)) \in Nat /\ Cardinality(Subdirs(entries', inode, d)) \in Nat
        /\ Cardinality(Within(entries, d)) =
             Cardinality(Within(entries', d)) + IF e.dir = d THEN 1 ELSE 0
        /\ Cardinality(Subdirs(entries, inode, d)) =
             Cardinality(Subdirs(entries', inode, d)) +
               IF e.dir = d /\ inode[e.ino].i_mode = "dir" THEN 1 ELSE 0
    <3>1. entries = entries' \cup {e} /\ e \notin entries' /\ IsFiniteSet(entries')
      BY <1>1, FS_Subset
    <3> QED
      BY <3>1, OneEntry DEF OneMore
  <2>4. /\ inode[d].i_nlink = 2 + Cardinality(Subdirs(entries, inode, d))
        /\ inode[d].i_size = (2 + Cardinality(Within(entries, d))) * Dirent
    BY <1>1, <2>1 DEF Tallied
  <2>5. /\ inode'[d].i_nlink = inode[d].i_nlink + IF e.dir = d THEN l ELSE 0
        /\ inode'[d].i_size = inode[d].i_size - (IF e.dir = d THEN 1 ELSE 0) * Dirent
    BY <1>3, <1>4, <2>1, <2>3, <2>4 DEF Dirent, Grown
  <2> QED
    BY <2>2, <2>3, <2>4, <2>5 DEF Dirent, IsDir
<1>8. Rooted'
  <2> SUFFICES ASSUME NEW S \in SUBSET DOMAIN inode', S \cap Dirs' # {}, Upward(S)'
               PROVE  Root \in S
    BY DEF Rooted
  <2>1. S \in SUBSET DOMAIN inode /\ S \cap Dirs # {} /\ Upward(S)
    BY <1>4, <1>5 DEF Upward
  <2> QED
    BY <1>1, <2>1 DEF Rooted
<1>9. Named'
  <2>1. Root \in Dirs'
    BY <1>1, <1>5 DEF Named
  <2>2. \A f \in entries' : f.ino # Root /\ inode'[f.ino].i_mode # "symlink"
    BY <1>1, <1>3, <1>4, <1>6 DEF Named, Grown
  <2>3. \A i \in DOMAIN inode' : inode'[i].i_mode = "symlink" \/ i = Root \/ \E f \in entries' : f.ino = i
    BY <1>1, <1>3, <1>4 DEF Named, Grown
  <2> QED
    BY <2>1, <2>2, <2>3 DEF Named
<1>10. IsFiniteSet(entries')
  BY <1>1, FS_Subset
<1> QED
  BY <1>7, <1>8, <1>9, <1>10 DEF Tree

LEMMA UnlinkTree ==
    ASSUME IInv, Tree, Unlink
    PROVE  Tree'
<1>1. PICK e \in entries :
        /\ inode[e.ino].i_mode # "dir"
        /\ inode' = Without(Adjusted(inode, e.dir, 0, -1), e.ino)
        /\ entries' = entries \ {e}
  BY DEF Unlink
<1>2. (\A f \in entries : f.dir # e.ino) /\ 0 \in Int /\ 0 = (IF IsDir(e) THEN -1 ELSE 0)
  BY <1>1 DEF IInv, Hung, Dirs, IsDir
<1>3. state = "mounted" /\ state' = "mounted"
  BY DEF Unlink
<1> QED
  BY <1>1, <1>2, <1>3, RemoveTree

LEMMA RmdirTree ==
    ASSUME IInv, Tree, Rmdir
    PROVE  Tree'
<1>1. PICK e \in entries :
        /\ inode[e.ino].i_mode = "dir" /\ Empty(e.ino)
        /\ inode' = Without(Adjusted(inode, e.dir, -1, -1), e.ino)
        /\ entries' = entries \ {e}
  BY DEF Rmdir
<1>2. (\A f \in entries : f.dir # e.ino) /\ -1 \in Int /\ -1 = (IF IsDir(e) THEN -1 ELSE 0)
  BY <1>1 DEF Empty, IsDir
<1>3. state = "mounted" /\ state' = "mounted"
  BY DEF Rmdir
<1> QED
  BY <1>1, <1>2, <1>3, RemoveTree

\* shmem_rename: what moves out of one directory into another counts there instead of what it
\* replaces; a directory does not move below itself (vfs_rename).
LEMMA RenameTree ==
    ASSUME IInv, Tree, Rename
    PROVE  Tree'
<1>1. PICK e \in entries, d \in Dirs, n \in Names :
        /\ MayRename(e, d, n) /\ (\A x \in Target(d, n) : Empty(x.ino))
        /\ inode' = [i \in DOMAIN inode \ {x.ino : x \in Target(d, n)} |->
                       Adjusted(Adjusted(inode, e.dir, Links(e, Target(d, n))[1], -1),
                                d, Links(e, Target(d, n))[2], 1 - Cardinality(Target(d, n)))[i]]
        /\ entries' = (entries \ (Target(d, n) \cup {e})) \cup {Entry(d, n, e.ino)}
  BY DEF Rename
<1> DEFINE target == Target(d, n)
           lost == {x.ino : x \in target}
           l == Links(e, target)[1]
           m == Links(e, target)[2]
           k == Cardinality(target)
           old == Adjusted(inode, e.dir, l, -1)
           moved == Adjusted(old, d, m, 1 - k)
           entry == Entry(d, n, e.ino)
           kept == entries \ (target \cup {e})
<1>2. /\ Typed /\ Hung /\ Tallied /\ Rooted /\ Named /\ IsFiniteSet(entries)
      /\ state = "mounted" /\ state' = "mounted"
  BY DEF IInv, Rename, Tree
<1>3. e.dir \in DOMAIN inode /\ e.ino \in DOMAIN inode /\ d \in DOMAIN inode
  BY <1>2 DEF Hung, Dirs
<1>4. \/ target = {} /\ k = 0
      \/ \E x \in entries : target = {x} /\ k = 1 /\ x.dir = d
  <2>1. target = {} \/ \E x \in entries : target = {x} /\ x.dir = d
    BY <1>2 DEF Target, Hung
  <2> HIDE DEF target
  <2> QED
    BY <2>1, FS_EmptySet, FS_Singleton
<1>5. \A x \in target : /\ x \in entries /\ x # e /\ x.dir = d /\ x.name = n
                        /\ IsDir(x) <=> IsDir(e)
                        /\ Empty(x.ino) /\ x.ino # d /\ x.ino # e.ino /\ x.ino # Root
  BY <1>1, <1>2 DEF MayRename, Target, Empty, Hung, Named
<1>6. /\ l = (IF IsDir(e) THEN -1 ELSE 0)
      /\ m = (IF IsDir(e) THEN 1 - k ELSE 0)
      /\ l \in Int /\ m \in Int /\ k \in Nat /\ 1 - k \in Int
  <2>1. k \in Nat
    BY <1>4
  <2>2. /\ Links(e, target)[1] = (IF IsDir(e) THEN -1 ELSE 0)
        /\ Links(e, target)[2] = (IF IsDir(e) /\ target = {} THEN 1 ELSE 0)
    BY DEF Links
  <2>3. target = {} <=> k = 0
    BY <1>4
  <2> HIDE DEF target, k
  <2> QED
    BY <1>4, <2>1, <2>2, <2>3
<1>7. /\ inode' = [i \in DOMAIN inode \ lost |-> moved[i]]
      /\ entries' = kept \cup {entry}
  BY <1>1
<1>8. entry.dir = d /\ entry.ino = e.ino /\ entry.name = n
  BY DEF Entry
<1> HIDE DEF l, m, k, entry
<1>9. Grown(inode, old, e.dir, l, -1)
  <2>1. -1 \in Int /\ inode \in [DOMAIN inode -> InodeType]
    BY <1>2 DEF Typed
  <2> QED
    BY <1>3, <1>6, <2>1, AdjustedKeeps
<1> HIDE DEF old
<1>10. Grown(old, moved, d, m, 1 - k)
  <2>1. old \in [DOMAIN old -> InodeType] /\ d \in DOMAIN old
    BY <1>3, <1>9 DEF Grown
  <2> QED
    BY <1>6, <2>1, AdjustedKeeps
<1> HIDE DEF moved
<1>11. /\ DOMAIN inode' = DOMAIN inode \ lost
       /\ \A i \in DOMAIN inode' : inode'[i] = moved[i] /\ inode'[i].i_mode = inode[i].i_mode
  BY <1>7, <1>9, <1>10 DEF Grown
<1>12. Dirs' = Dirs \ lost
  BY <1>11 DEF Dirs
<1>13. \A f \in kept : f \in entries /\ f # e /\ f \notin target /\ f.ino # e.ino /\ f.ino \notin lost
  BY <1>2, <1>5 DEF Hung
<1>14. d \notin lost /\ e.ino \notin lost /\ Root \notin lost
  BY <1>5
<1>15. entry \notin kept
  BY <1>8, <1>13
<1>16. \A f \in entries : f \in kept \/ f = e \/ f \in target
  OBVIOUS
<1>17. IsFiniteSet(kept) /\ IsFiniteSet(entries')
  <2>1. IsFiniteSet(kept)
    BY <1>2, FS_Subset
  <2> HIDE DEF kept
  <2> QED
    BY <2>1, <1>7, FS_AddElement
<1>18. e \notin kept /\ kept \cup {e} = entries \ target
  BY <1>5
<1> HIDE DEF target, lost, kept
<1>19. Tallied'
  <2> SUFFICES ASSUME NEW i \in Dirs'
               PROVE  /\ inode'[i].i_nlink = 2 + Cardinality(Subdirs(entries', inode', i))
                      /\ inode'[i].i_size = (2 + Cardinality(Within(entries', i))) * Dirent
    BY DEF Tallied
  <2>1. i \in Dirs /\ i \in DOMAIN inode /\ i \in DOMAIN inode'
    BY <1>12 DEF Dirs
  <2>2. Subdirs(entries', inode', i) = Subdirs(entries', inode, i)
    <3>1. \A f \in entries' : f.ino \in DOMAIN inode'
      BY <1>2, <1>3, <1>7, <1>8, <1>11, <1>13, <1>14 DEF Hung
    <3> QED
      BY <3>1, <1>11, SameModes
  <2> DEFINE w == Cardinality(Within(kept, i))
             s == Cardinality(Subdirs(kept, inode, i))
             one(b) == IF b THEN 1 ELSE 0
  <2>3. /\ w \in Nat /\ s \in Nat
        /\ Cardinality(Within(entries', i)) = w + one(d = i)
        /\ Cardinality(Subdirs(entries', inode, i)) = s + one(d = i /\ IsDir(e))
    BY <1>7, <1>8, <1>15, <1>17, OneEntry DEF IsDir, OneMore
  <2>4. /\ Cardinality(Within(kept \cup {e}, i)) = w + one(e.dir = i)
        /\ Cardinality(Subdirs(kept \cup {e}, inode, i)) = s + one(e.dir = i /\ IsDir(e))
    BY <1>17, <1>18, OneEntry DEF IsDir, OneMore
  <2>5. /\ Cardinality(Within(entries, i)) = w + one(e.dir = i) + IF d = i THEN k ELSE 0
        /\ Cardinality(Subdirs(entries, inode, i)) =
             s + one(e.dir = i /\ IsDir(e)) + IF d = i /\ IsDir(e) THEN k ELSE 0
    <3>1. CASE target = {} /\ k = 0
      <4>1. kept \cup {e} = entries
        BY <1>18, <3>1
      <4> HIDE DEF w, s
      <4> QED
        BY <4>1, <3>1, <2>3, <2>4
    <3>2. CASE target # {}
      <4>1. PICK x \in entries : target = {x} /\ k = 1 /\ x.dir = d
        BY <1>4, <3>2
      <4>2. entries = (kept \cup {e}) \cup {x} /\ x \notin kept \cup {e} /\ IsFiniteSet(kept \cup {e})
        BY <1>17, <1>18, <4>1, FS_AddElement
      <4>3. IsDir(x) <=> IsDir(e)
        BY <1>5, <4>1
      <4>4. /\ Cardinality(Within(entries, i)) = Cardinality(Within(kept \cup {e}, i)) + one(d = i)
            /\ Cardinality(Subdirs(entries, inode, i)) =
                 Cardinality(Subdirs(kept \cup {e}, inode, i)) + one(d = i /\ IsDir(e))
        BY <4>1, <4>2, <4>3, OneEntry DEF IsDir, OneMore
      <4> HIDE DEF w, s
      <4> QED
        BY <4>1, <4>4, <2>3, <2>4
    <3> QED
      BY <1>4, <3>1, <3>2
  <2>6. /\ inode[i].i_nlink = 2 + Cardinality(Subdirs(entries, inode, i))
        /\ inode[i].i_size = (2 + Cardinality(Within(entries, i))) * Dirent
    BY <1>2, <2>1 DEF Tallied
  <2> HIDE DEF w, s
  <2>7. /\ old[i].i_nlink = inode[i].i_nlink + IF e.dir = i THEN l ELSE 0
        /\ old[i].i_size = inode[i].i_size - one(e.dir = i) * Dirent
        /\ inode[i].i_nlink \in Int /\ inode[i].i_size \in Int
    BY <1>6, <1>9, <2>1, <2>3, <2>5, <2>6 DEF Dirent, Grown
  <2>8. /\ inode'[i].i_nlink = old[i].i_nlink + IF d = i THEN m ELSE 0
        /\ inode'[i].i_size = old[i].i_size + (IF d = i THEN 1 - k ELSE 0) * Dirent
    BY <1>6, <1>9, <1>10, <1>11, <2>1, <2>7 DEF Dirent, Grown
  <2>9. inode'[i].i_nlink = 2 + s + one(d = i /\ IsDir(e))
    BY <1>6, <2>3, <2>5, <2>6, <2>7, <2>8
  <2>10. inode'[i].i_size = (2 + w + one(d = i)) * Dirent
    BY <1>6, <2>3, <2>5, <2>6, <2>7, <2>8 DEF Dirent
  <2> QED
    BY <2>2, <2>3, <2>9, <2>10 DEF Dirent
<1>20. Rooted'
  <2> SUFFICES ASSUME NEW S \in SUBSET DOMAIN inode', S \cap Dirs' # {}, Upward(S)'
               PROVE  Root \in S
    BY DEF Rooted
  <2>1. S \in SUBSET DOMAIN inode /\ S \cap Dirs # {} /\ (\A f \in kept : f.ino \in S => f.dir \in S)
        /\ \A x \in target : x.ino \notin S
    BY <1>7, <1>11, <1>12 DEF Upward, lost
  <2>2. CASE e.ino \notin S
    <3>1. Upward(S)
      BY <1>16, <2>1, <2>2 DEF Upward
    <3> QED
      BY <1>2, <2>1, <3>1 DEF Rooted
  <2>3. CASE e.ino \in S
    <3>1. d \in S
      BY <1>7, <1>8, <2>3 DEF Upward
    <3>2. Path(d) \subseteq DOMAIN inode /\ d \in Path(d) /\ Upward(Path(d)) /\ e.ino \notin Path(d)
      BY <1>1, <1>2, <1>3, PathUpward DEF MayRename
    <3>3. Upward(S \cap Path(d)) /\ (S \cap Path(d)) \cap Dirs # {}
      BY <1>16, <2>1, <3>1, <3>2 DEF Upward
    <3> QED
      BY <1>2, <2>1, <3>3 DEF Rooted
  <2> QED
    BY <2>2, <2>3
<1>21. Named'
  <2>1. Root \in Dirs'
    BY <1>2, <1>12, <1>14 DEF Named
  <2>2. \A f \in entries' : f.ino # Root /\ inode'[f.ino].i_mode # "symlink"
    BY <1>2, <1>3, <1>7, <1>8, <1>11, <1>13, <1>14 DEF Named, Hung
  <2>3. \A i \in DOMAIN inode' : inode'[i].i_mode = "symlink" \/ i = Root \/ \E f \in entries' : f.ino = i
    <3> SUFFICES ASSUME NEW i \in DOMAIN inode', inode'[i].i_mode # "symlink", i # Root
                 PROVE  \E f \in entries' : f.ino = i
      OBVIOUS
    <3>1. PICK f \in entries : f.ino = i
      BY <1>2, <1>11 DEF Named
    <3>2. f \notin target
      BY <1>11, <3>1 DEF lost
    <3> QED
      BY <1>7, <1>8, <1>16, <3>1, <3>2
  <2> QED
    BY <2>1, <2>2, <2>3 DEF Named
<1> QED
  BY <1>2, <1>17, <1>19, <1>20, <1>21 DEF Tree
-----------------------------------------------------------------------------
\* Nothing else touches the tree of a mount.
LEMMA OtherTree ==
    ASSUME IInv, Tree, UNCHANGED <<inode, entries>>, state' = "mounted" => state = "mounted"
    PROVE  Tree'
<1>1. UNCHANGED Dirs /\ \A S : Upward(S)' = Upward(S)
  BY DEF Dirs, Upward
<1> QED
  BY <1>1 DEF Tree, Tallied, Rooted, Named

LEMMA TreeNext == IInv /\ Tree /\ [Next]_vars => Tree'
<1> SUFFICES ASSUME IInv, Tree, [Next]_vars PROVE Tree'
  OBVIOUS
<1>1. CASE Mount
  BY <1>1, MountTree
<1>2. CASE Unmount
  BY <1>2, FS_EmptySet DEF Unmount, Tree
<1>3. CASE Unlink
  BY <1>3, UnlinkTree
<1>4. CASE Rmdir
  BY <1>4, RmdirTree
<1>5. CASE Rename
  BY <1>5, RenameTree
<1>6. CASE \E t \in Tasks : Create(t)
  BY <1>6, CreateTree
<1>7. CASE InitTmpfs \/ MountPutsTwice \/ Remount \/ (\E t \in Tasks : Reserve(t) \/ NoInode(t)) \/ UNCHANGED vars
  <2>1. UNCHANGED <<inode, entries>> /\ (state' = "mounted" => state = "mounted")
    BY <1>7 DEF InitTmpfs, MountPutsTwice, Remount, Reserve, NoInode, vars
  <2> QED
    BY <2>1, OtherTree
<1> QED
  BY <1>1, <1>2, <1>3, <1>4, <1>5, <1>6, <1>7 DEF Next

\* The dentries of a mount form one tree under the root, of all inodes but symlinks', and link
\* counts and sizes count them, whatever is made, removed, moved or replaced (shmem_mknod,
\* shmem_mkdir, shmem_unlink, shmem_rmdir, shmem_rename).
THEOREM DirectoriesStaySound == Spec => []DirectoriesSound
<1>1. Init => Tree
  BY FS_EmptySet DEF Init, Tree
<1>2. IInv /\ Tree => DirectoriesSound
  <2> SUFFICES ASSUME IInv, Tree, state = "mounted" PROVE DirectoriesSound
    BY DEF DirectoriesSound
  <2>1. Hung /\ Tallied /\ Rooted /\ Named
    BY DEF IInv, Tree
  <2>2. ASSUME NEW d \in Dirs
        PROVE  /\ inode[d].i_nlink = 2 + Cardinality({e \in entries : e.dir = d /\ IsDir(e)})
               /\ inode[d].i_size = (2 + Cardinality({e \in entries : e.dir = d})) * Dirent
    BY <2>1 DEF Tallied, Within, Subdirs, IsDir
  <2>3. ASSUME NEW d \in Dirs
        PROVE  Root \in Path(d)
    BY <2>1 DEF Rooted, Path, Named, Dirs
  <2>4. \A e, f \in entries : (e.ino = f.ino \/ <<e.dir, e.name>> = <<f.dir, f.name>>) => e = f
    BY <2>1 DEF Hung
  <2>5. {e.ino : e \in entries} \cup {Root} = {i \in DOMAIN inode : inode[i].i_mode # "symlink"}
    BY <2>1 DEF Named, Hung, Dirs
  <2>6. Root \in Dirs
    BY <2>1 DEF Named
  <2> QED
    BY <2>2, <2>3, <2>4, <2>5, <2>6 DEF DirectoriesSound
<1>3. Spec => [](IInv /\ Tree)
  BY <1>1, TreeNext, IInvHolds, InitInv, NextInv, PTL DEF Spec
<1> QED
  BY <1>2, <1>3, PTL
=============================================================================
