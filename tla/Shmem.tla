-------------------------------- MODULE Shmem --------------------------------
(****************************************************************************)
(* tmpfs, mm/shmem.c as configured (CONFIG_BISCUITOS_5): mounting, the      *)
(* limits of a mount, and the operations on directories.  Files have no     *)
(* content: create, link and everything about their pages are stubs.        *)
(*                                                                          *)
(* The kernel's VFS calls these operations.  It holds the lock of the       *)
(* directories that it changes, and of a directory that goes; creations in  *)
(* different directories meet in the counts under stat_lock.                *)
(****************************************************************************)
EXTENDS Integers, FiniteSets

CONSTANTS Tasks,
          Inos,         \* bound: the inodes there may be at a time
          Names,        \* the names in a directory
          Limits,       \* the values of nr_inodes on the command line, 0 among them
          Blocks,       \* the values of nr_blocks, or of size in pages
          TotalRam,     \* totalram_pages
          TotalHigh,    \* totalhigh_pages
          Word,         \* 2^w, for the unsigned counts
          MaxGone,      \* bound on the inodes that go, where no limit bounds them
          None

VARIABLES
    state,      \* of the file system: "absent", "registered", "mounted", or "undefined"
    sbinfo,     \* the counts of the mount; None where it is unlimited
    inode,      \* the inodes of the mount, by number
    entries,    \* its positive dentries but the root's
    at,         \* the creation each task is in, from the reservation of its inode on
    granted,    \* (history) nr_inodes when it was mounted
    gone,       \* (history) inodes that were removed
    stray       \* the inodes that mounts which are gone have left behind

vars == <<state, sbinfo, inode, entries, at, granted, gone, stray>>

Entry(dir, name, ino) == [dir |-> dir, name |-> name, ino |-> ino]
Dirent == 20                       \* BOGO_DIRENT_SIZE
Root == CHOOSE i \in Inos : TRUE

Kind == [mknod |-> "special", mkdir |-> "dir", symlink |-> "symlink"]

SbinfoType == [max_blocks : Nat, free_blocks : Nat, max_inodes : Nat, free_inodes : Nat]
CreationType == [op : DOMAIN Kind, dir : Inos, name : Names]

ASSUME ShmemAssumption ==
    /\ IsFiniteSet(Tasks) /\ IsFiniteSet(Inos) /\ Inos # {}
    /\ Limits \cup Blocks \subseteq Nat
    /\ {TotalRam, TotalHigh} \subseteq Nat /\ TotalHigh <= TotalRam
    /\ Word \in Nat \ {0} /\ MaxGone \in Nat
    /\ None \notin SbinfoType \cup CreationType

\* shmem_get_inode, once new_inode gave one: nlink is 1, and a directory's 2.
NewInode(kind) ==
    [i_mode |-> kind, i_nlink |-> IF kind = "dir" THEN 2 ELSE 1,
     i_size |-> IF kind = "dir" THEN 2 * Dirent ELSE 0]

Init ==
    /\ state = "absent" /\ sbinfo = None /\ inode = <<>> /\ entries = {}
    /\ at = [t \in Tasks |-> None] /\ granted = 0 /\ gone = 0 /\ stray = {}

\* init_tmpfs: both steps; what an error undoes leaves nothing behind.
InitTmpfs ==
    /\ state = "absent"
    /\ state' = "registered"
    /\ UNCHANGED <<sbinfo, inode, entries, at, granted, gone, stray>>

(****************************************************************************)
(* shmem_fill_super                                                         *)
(****************************************************************************)
Sbinfo(blocks, inodes) ==
    [max_blocks |-> blocks, free_blocks |-> blocks, max_inodes |-> inodes, free_inodes |-> inodes]

\* shmem_parse_options: an option that is not given leaves its value; one that cannot
\* be read fails the call before anything changed.
Parsed(value, options) == {value} \cup options

\* Half of the memory, and an inode for a page of lowmem if that is less.
DefaultBlocks == TotalRam \div 2
DefaultInodes == IF TotalRam - TotalHigh > DefaultBlocks THEN DefaultBlocks ELSE TotalRam - TotalHigh

\* No limits at all make an unlimited mount; no inodes for the root, or no memory, fail it.
Mount ==
    /\ state = "registered"
    /\ \E blocks \in Parsed(DefaultBlocks, Blocks), inodes \in Parsed(DefaultInodes, Limits) :
        /\ (blocks # 0 \/ inodes # 0) => inodes # 0
        /\ sbinfo' = IF blocks = 0 /\ inodes = 0 THEN None
                     ELSE [Sbinfo(blocks, inodes) EXCEPT !.free_inodes = @ - 1]
        /\ granted' = inodes
    /\ inode' = [i \in {Root} |-> NewInode("dir")]
    /\ state' = "mounted"
    /\ UNCHANGED <<entries, at, gone, stray>>

\* d_make_root fails: it has put the inode, and failed_iput puts it again.
MountPutsTwice ==
    /\ state = "registered"
    /\ state' = "undefined"
    /\ UNCHANGED <<sbinfo, inode, entries, at, granted, gone, stray>>

\* shmem_symlink neither makes a dentry of its inode nor puts it: nothing refers to it, and
\* its count stays 1.
Busy == DOMAIN inode \ ({Root} \cup {e.ino : e \in entries})

\* kill_litter_super, put_super, when nobody is in the mount: an inode goes with its dentry;
\* one that is busy stays, without a super block.
Unmount ==
    /\ state = "mounted" /\ \A t \in Tasks : at[t] = None
    /\ state' = "registered"
    /\ stray' = stray \cup Busy
    /\ sbinfo' = None /\ inode' = <<>> /\ entries' = {} /\ granted' = 0 /\ gone' = 0
    /\ UNCHANGED at

(****************************************************************************)
(* shmem_remount_fs, shmem_set_size: the maxima change and the free counts  *)
(* do not; what is in use is their difference, unsigned.                    *)
(****************************************************************************)
Used(max, free) == (max - free) % Word

Remount ==
    /\ state = "mounted" /\ sbinfo # None
    /\ \E blocks \in Parsed(sbinfo.max_blocks, Blocks), inodes \in Parsed(sbinfo.max_inodes, Limits) :
        /\ blocks # 0 \/ inodes # 0
        /\ blocks >= Used(sbinfo.max_blocks, sbinfo.free_blocks)
        /\ inodes >= Used(sbinfo.max_inodes, sbinfo.free_inodes)
        /\ sbinfo' = [sbinfo EXCEPT !.max_blocks = blocks, !.max_inodes = inodes]
    /\ UNCHANGED <<state, inode, entries, at, granted, gone, stray>>

(****************************************************************************)
(* Directories                                                              *)
(****************************************************************************)
Dirs == {i \in DOMAIN inode : inode[i].i_mode = "dir"}
Free(d, n) == d \in Dirs /\ \A e \in entries : <<e.dir, e.name>> # <<d, n>>
Creating == {t \in Tasks : at[t] # None}
Locked == {at[t].dir : t \in Creating}

\* simple_empty: also true of what is not a directory.
Empty(i) == \A e \in entries : e.dir # i

Adjusted(f, d, links, dirents) ==
    [f EXCEPT ![d].i_nlink = @ + links, ![d].i_size = @ + dirents * Dirent]

Without(f, i) == [j \in DOMAIN f \ {i} |-> f[j]]

\* mknod, mkdir and symlink: shmem_get_inode takes an inode off the count, if there is one.
Reserve(t) ==
    /\ state = "mounted" /\ at[t] = None
    /\ Cardinality(DOMAIN inode \cup stray) + Cardinality(Creating) < Cardinality(Inos)
    /\ \E op \in DOMAIN Kind, d \in Dirs \ Locked, n \in Names :
        /\ Free(d, n)
        /\ at' = [at EXCEPT ![t] = [op |-> op, dir |-> d, name |-> n]]
    /\ sbinfo # None => sbinfo.free_inodes > 0
    /\ sbinfo' = IF sbinfo = None THEN None ELSE [sbinfo EXCEPT !.free_inodes = @ - 1]
    /\ UNCHANGED <<state, inode, entries, granted, gone, stray>>

\* (Slip: without memory, the inode taken off the count is not given back.)
NoInodeKept(t) ==
    /\ at[t] # None
    /\ at' = [at EXCEPT ![t] = None]
    /\ UNCHANGED <<state, sbinfo, inode, entries, granted, gone, stray>>

\* new_inode fails: -ENOSPC.
NoInode(t) ==
    /\ at[t] # None
    /\ sbinfo' = IF sbinfo = None THEN None ELSE [sbinfo EXCEPT !.free_inodes = @ + 1]
    /\ at' = [at EXCEPT ![t] = None]
    /\ UNCHANGED <<state, inode, entries, granted, gone, stray>>

\* shmem_mknod and shmem_mkdir: the entry counts in the directory's size, a
\* directory in its links.  A symlink gets an inode, but no entry is made of it.
Create(t) ==
    /\ at[t] # None
    /\ LET c    == at[t]
           new  == CHOOSE i \in Inos \ (DOMAIN inode \cup stray) : TRUE
           with == [i \in DOMAIN inode \cup {new} |->
                       IF i = new THEN NewInode(Kind[c.op]) ELSE inode[i]]
       IN  IF c.op = "symlink"
           THEN /\ inode' = with
                /\ UNCHANGED entries
           ELSE /\ inode' = Adjusted(with, c.dir, IF c.op = "mkdir" THEN 1 ELSE 0, 1)
                /\ entries' = entries \cup {Entry(c.dir, c.name, new)}
    /\ at' = [at EXCEPT ![t] = None]
    /\ UNCHANGED <<state, sbinfo, granted, gone, stray>>

\* shmem_unlink.  No file has a second link, so no inode goes back to the count.
Unlink ==
    /\ state = "mounted" /\ gone < MaxGone
    /\ \E e \in entries :
        /\ inode[e.ino].i_mode # "dir" /\ e.dir \notin Locked
        /\ inode' = Without(Adjusted(inode, e.dir, 0, -1), e.ino)
        /\ entries' = entries \ {e}
    /\ gone' = gone + 1
    /\ UNCHANGED <<state, sbinfo, at, granted, stray>>

\* shmem_rmdir
Rmdir ==
    /\ state = "mounted" /\ gone < MaxGone
    /\ \E e \in entries :
        /\ inode[e.ino].i_mode = "dir" /\ {e.dir, e.ino} \cap Locked = {}
        /\ Empty(e.ino)
        /\ inode' = Without(Adjusted(inode, e.dir, -1, -1), e.ino)
        /\ entries' = entries \ {e}
    /\ gone' = gone + 1
    /\ UNCHANGED <<state, sbinfo, at, granted, stray>>

\* The directories on the way from d to the root, d among them: the least set with d in it and,
\* with an inode, the directory that it is in.
Upward(S) == \A e \in entries : e.ino \in S => e.dir \in S
Path(d) == {i \in DOMAIN inode : \A S \in SUBSET DOMAIN inode : d \in S /\ Upward(S) => i \in S}

Target(d, n) == {e \in entries : e.dir = d /\ e.name = n}
IsDir(e) == inode[e.ino].i_mode = "dir"

\* The VFS lets a directory replace only a directory, and move only out of itself.
MayRename(e, d, n) ==
    /\ {e.dir, d} \cap Locked = {}
    /\ e.ino \notin Path(d)
    /\ \A x \in Target(d, n) : x # e /\ (IsDir(x) <=> IsDir(e)) /\ x.ino \notin Locked \cup Path(e.dir)

\* (Slip: a directory that moves is counted in its new parent, replaced or not.)
LinksCounted(e, target) == IF IsDir(e) THEN <<-1, 1>> ELSE <<0, 0>>

\* What the links of the old and of the new directory change by.
Links(e, target) ==
    IF ~ IsDir(e) THEN <<0, 0>> ELSE IF target = {} THEN <<-1, 1>> ELSE <<-1, 0>>

\* shmem_rename without flags: the target goes as by unlink.
Rename ==
    /\ state = "mounted"
    /\ \E e \in entries, d \in Dirs, n \in Names :
        LET target == Target(d, n)
        IN  /\ MayRename(e, d, n) /\ (\A x \in target : Empty(x.ino))
            /\ target # {} => gone < MaxGone
            /\ LET moved == Adjusted(Adjusted(inode, e.dir, Links(e, target)[1], -1),
                                     d, Links(e, target)[2], 1 - Cardinality(target))
               IN  inode' = [i \in DOMAIN inode \ {x.ino : x \in target} |-> moved[i]]
            /\ entries' = (entries \ (target \cup {e})) \cup {Entry(d, n, e.ino)}
            /\ gone' = gone + Cardinality(target)
    /\ UNCHANGED <<state, sbinfo, at, granted, stray>>

Next ==
    \/ InitTmpfs \/ Mount \/ MountPutsTwice \/ Unmount \/ Remount
    \/ Unlink \/ Rmdir \/ Rename
    \/ \E t \in Tasks : Reserve(t) \/ NoInode(t) \/ Create(t)

Spec == Init /\ [][Next]_vars

(****************************************************************************)
(* Properties                                                               *)
(****************************************************************************)

\* A directory's link count and size tell its subdirectories and its entries, the
\* dentries form one tree under the root, and its inodes are those of the mount but for
\* the ones that symlink makes and leaves without an entry (shmem_mknod, rmdir, rename).
DirectoriesSound ==
    state = "mounted" =>
        /\ Root \in Dirs
        /\ \A d \in Dirs :
            /\ inode[d].i_nlink = 2 + Cardinality({e \in entries : e.dir = d /\ IsDir(e)})
            /\ inode[d].i_size = (2 + Cardinality({e \in entries : e.dir = d})) * Dirent
            /\ Root \in Path(d)
        /\ \A e, f \in entries : (e.ino = f.ino \/ <<e.dir, e.name>> = <<f.dir, f.name>>) => e = f
        /\ {e.ino : e \in entries} \cup {Root} = {i \in DOMAIN inode : inode[i].i_mode # "symlink"}

\* Every inode that a limited mount granted is free, reserved by a creation, in use, or
\* was removed: failures give theirs back, and no more inodes exist than were granted,
\* whatever remounts do to the maxima (shmem_get_inode, shmem_set_size).
InodesAccounted ==
    state = "mounted" /\ sbinfo # None =>
        /\ sbinfo.free_inodes >= 0
        /\ sbinfo.free_inodes + Cardinality(Creating) + Cardinality(DOMAIN inode) + gone = granted
=============================================================================
