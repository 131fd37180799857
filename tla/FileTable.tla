----------------------------- MODULE FileTable -----------------------------
(***************************************************************************)
(* Descriptors, inodes and one mount point: opening, duplicating, closing  *)
(* and unmounting in third_party/nuttx/fs, with the FAT file system that   *)
(* is mounted, third_party/FatFs/source/fs_fat32.c.  The mutex of the      *)
(* inodes and the one of the descriptors cover parts of the calls only;    *)
(* what lies between is done by each task at its own pace.  A task closes  *)
(* and duplicates descriptors it was given, which no two tasks share, onto *)
(* another of them or onto a number that is free.                          *)
(***************************************************************************)
EXTENDS Naturals, FiniteSets

CONSTANTS
  NULL, Tasks,
  Fds,        \* descriptors for which there is memory, numbers
  Inodes,     \* inodes for which there is memory
  MaxAbandoned  \* bound: no calls are begun once more files than that are abandoned

VARIABLES
  node,       \* the inode at the path of the mount point, NULL if there is none
  alive,      \* inodes that are allocated
  crefs, deleted,
  mops,       \* u.i_mops and the type in i_flags are those of a mount point
  fs,         \* fs_mounted of the file system bound to it, "none" if there is none
  files,      \* how many files are on the list __files of it
  drv,        \* references of mounts to the inode of the block driver
  f_inode, f_priv,
  sem,        \* g_inode_sem.holder, while it is kept from step to step
  at_file, ino, fd, from,
              \* per task: its place, the inode and the descriptor it works with, the
              \* inode that its file_close found
  mine,       \* per descriptor: who was given it
  abandoned,  \* history, per inode: files on its list whose descriptor was cleared by a
              \* task that was closing the one in it before
  clobbered,  \* history: a dup2 closed or overwrote what somebody else was given
  pulled      \* history: an unmount was through while a call relied on the file system

tree == <<node, alive, crefs, deleted, mops, fs, files, drv>>
table == <<f_inode, f_priv, mine, abandoned>>
vars == <<tree, table, sem, at_file, ino, fd, from, clobbered, pulled>>

Places ==
  {"idle", "open_check", "open_enter", "open_add", "allocate", "release", "close_release",
   "close_inode", "close_priv", "dup", "dup2", "dup2_close", "then_release", "then_inode",
   "then_priv", "copy", "umount_check", "umount_take", "umount_unbind"}

TypeOK ==
  /\ node \in Inodes \cup {NULL} /\ alive \subseteq Inodes
  /\ crefs \in [Inodes -> Nat] /\ deleted \in [Inodes -> BOOLEAN]
  /\ mops \in [Inodes -> BOOLEAN] /\ fs \in [Inodes -> {"none", "mounted", "stopped"}]
  /\ files \in [Inodes -> Nat] /\ drv \in Nat
  /\ f_inode \in [Fds -> Inodes \cup {NULL}] /\ f_priv \in [Fds -> BOOLEAN]
  /\ sem \in Tasks \cup {NULL}
  /\ at_file \in [Tasks -> Places] /\ ino \in [Tasks -> Inodes \cup {NULL}]
  /\ fd \in [Tasks -> Fds \cup {NULL}] /\ from \in [Tasks -> Inodes \cup {NULL}]
  /\ mine \in [Fds -> Tasks \cup {NULL}] /\ abandoned \in [Inodes -> Nat]
  /\ clobbered \in BOOLEAN /\ pulled \in BOOLEAN

Init ==
  /\ node = NULL /\ alive = {} /\ crefs = [i \in Inodes |-> 0]
  /\ deleted = [i \in Inodes |-> FALSE] /\ mops = [i \in Inodes |-> FALSE]
  /\ fs = [i \in Inodes |-> "none"] /\ files = [i \in Inodes |-> 0] /\ drv = 0
  /\ f_inode = [f \in Fds |-> NULL] /\ f_priv = [f \in Fds |-> FALSE]
  /\ mine = [f \in Fds |-> NULL] /\ abandoned = [i \in Inodes |-> 0]
  /\ sem = NULL /\ at_file = [t \in Tasks |-> "idle"]
  /\ ino = [t \in Tasks |-> NULL] /\ fd = [t \in Tasks |-> NULL]
  /\ from = [t \in Tasks |-> NULL]
  /\ clobbered = FALSE /\ pulled = FALSE

-----------------------------------------------------------------------------
(* Inodes: what is done under their mutex.                                 *)

\* t may start a call.  None is begun after a mishap of the last two kinds.
Idle(t) ==
  at_file[t] = "idle" /\ ~clobbered /\ ~pulled /\ \A i \in Inodes : abandoned[i] <= MaxAbandoned

Goto(t, p) == at_file' = [at_file EXCEPT ![t] = p]

\* Done: t is back in its caller, and what its locals hold is forgotten.
Return(t) ==
  /\ Goto(t, "idle")
  /\ ino' = [ino EXCEPT ![t] = NULL] /\ fd' = [fd EXCEPT ![t] = NULL]
  /\ from' = [from EXCEPT ![t] = NULL]

\* inode_find and inode_addref
AddRef(i) ==
  /\ sem = NULL
  /\ crefs' = [crefs EXCEPT ![i] = @ + 1]
  /\ UNCHANGED <<node, alive, deleted, mops, fs, files, drv>>

\* inode_release: whoever has the last reference to an inode that was removed frees it.
DropRef(i) ==
  LET n == IF crefs[i] > 0 THEN crefs[i] - 1 ELSE 0
      freed == n = 0 /\ deleted[i]
  IN /\ sem = NULL
     /\ crefs' = [crefs EXCEPT ![i] = n]
     /\ alive' = IF freed THEN alive \ {i} ELSE alive
     /\ deleted' = [deleted EXCEPT ![i] = @ /\ ~freed]
     /\ UNCHANGED <<node, mops, fs, files, drv>>

\* Fault: an inode that was removed is freed whatever its references.
DropRefAndFree(i) ==
  /\ sem = NULL
  /\ crefs' = [crefs EXCEPT ![i] = @ - 1]
  /\ alive' = IF deleted[i] THEN alive \ {i} ELSE alive
  /\ UNCHANGED <<node, deleted, mops, fs, files, drv>>

\* The way out of a call that keeps nothing: inode_release.
Release(t) ==
  /\ at_file[t] = "release"
  /\ DropRef(ino[t])
  /\ Return(t)
  /\ UNCHANGED <<table, sem, clobbered, pulled>>

-----------------------------------------------------------------------------
(* The FAT file system.                                                    *)

\* fat_checkmount may find the medium gone, and then says so from now on.
CheckMount(i) == fs' \in {fs, [fs EXCEPT ![i] = IF @ = "none" THEN @ ELSE "stopped"]}

\* A file is put on the list, or taken off it.
Listed(i, by) ==
  /\ files' = [files EXCEPT ![i] = @ + by]
  /\ UNCHANGED <<node, alive, crefs, deleted, mops, drv>>

Unlisted(i) ==
  /\ files' = [files EXCEPT ![i] = IF @ > 0 THEN @ - 1 ELSE 0]
  /\ UNCHANGED <<node, alive, crefs, deleted, mops, drv>>

-----------------------------------------------------------------------------
(* open                                                                    *)

\* file_vopen up to inode_find.
OpenFind(t) ==
  /\ Idle(t) /\ node # NULL
  /\ AddRef(node)
  /\ ino' = [ino EXCEPT ![t] = node]
  /\ Goto(t, "open_check")
  /\ UNCHANGED <<table, sem, fd, from, clobbered, pulled>>

\* The type and the operations of the inode, looked at with no mutex.
OpenCheck(t) ==
  /\ at_file[t] = "open_check"
  /\ Goto(t, IF mops[ino[t]] THEN "open_enter" ELSE "release")
  /\ UNCHANGED <<tree, table, sem, ino, fd, from, clobbered, pulled>>

\* The open method: fat_open up to f_open.  If the mount point was unmounted since, the
\* method is called through NULL; here it fails.
OpenEnter(t) ==
  /\ at_file[t] = "open_enter"
  /\ CheckMount(ino[t])
  /\ Goto(t, IF mops[ino[t]] /\ fs'[ino[t]] = "mounted" THEN "open_add" ELSE "release")
  /\ UNCHANGED <<node, alive, crefs, deleted, mops, files, drv, table, sem, ino, fd, from,
                 clobbered, pulled>>

\* The rest of fat_open: f_open, which may fail, and the list.  If the mount point was
\* unmounted since, the list has been freed; here this fails.
OpenAdd(t) ==
  /\ at_file[t] = "open_add"
  /\ \/ mops[ino[t]] /\ Listed(ino[t], 1) /\ Goto(t, "allocate") /\ UNCHANGED fs
     \/ UNCHANGED tree /\ Goto(t, "release")
  /\ UNCHANGED <<table, sem, ino, fd, from, clobbered, pulled>>

Free == {f \in Fds : f_inode[f] = NULL}

\* Fault: a descriptor is taken without looking whether it is in use.
AllocateAny(t) ==
  /\ at_file[t] = "allocate" /\ Fds # {}
  /\ LET f == CHOOSE f \in Fds : \A g \in Fds : f <= g
     IN /\ f_inode' = [f_inode EXCEPT ![f] = ino[t]]
        /\ f_priv' = [f_priv EXCEPT ![f] = TRUE]
        /\ mine' = [mine EXCEPT ![f] = t]
  /\ Return(t)
  /\ UNCHANGED <<tree, sem, abandoned, clobbered, pulled>>

\* files_allocate: the first free descriptor.  If there is none and no memory for more,
\* the caller closes the file it has.
Allocate(t) ==
  /\ at_file[t] = "allocate"
  /\ \/ /\ \E f \in Free :
             /\ \A g \in Free : f <= g
             /\ f_inode' = [f_inode EXCEPT ![f] = ino[t]]
             /\ f_priv' = [f_priv EXCEPT ![f] = TRUE]
             /\ mine' = [mine EXCEPT ![f] = t]
        /\ Return(t)
        /\ UNCHANGED <<tree, abandoned>>
     \/ /\ Free = {}
        /\ CheckMount(ino[t]) /\ Unlisted(ino[t])
        /\ Goto(t, "release")
        /\ UNCHANGED <<table, ino, fd, from>>
  /\ UNCHANGED <<sem, clobbered, pulled>>

-----------------------------------------------------------------------------
(* close, with no mutex but that of inode_release; dup2 closes in the same *)
(* way the file it replaces.                                               *)

\* The close method: fat_close.  A descriptor that has lost its file makes it read through
\* NULL; here it does nothing.
CloseFile(t, f, p) ==
  /\ from' = [from EXCEPT ![t] = f_inode[f]]
  /\ IF f_priv[f]
     THEN CheckMount(f_inode[f]) /\ Unlisted(f_inode[f])
     ELSE UNCHANGED tree
  /\ f_priv' = [f_priv EXCEPT ![f] = FALSE]
  /\ Goto(t, p)

\* nx_close: fs_getfilep and file_close up to the close method.
Close(t, f) ==
  /\ Idle(t) /\ mine[f] = t /\ f_inode[f] # NULL
  /\ CloseFile(t, f, "close_release")
  /\ fd' = [fd EXCEPT ![t] = f]
  /\ mine' = [mine EXCEPT ![f] = NULL]
  /\ UNCHANGED <<sem, f_inode, abandoned, ino, clobbered, pulled>>

\* The rest of file_close.  From the moment f_inode is NULL the descriptor is free, and
\* f_priv is still to be cleared.
CloseRelease(t) ==
  /\ at_file[t] \in {"close_release", "then_release"}
  /\ DropRef(from[t])
  /\ Goto(t, IF at_file[t] = "close_release" THEN "close_inode" ELSE "then_inode")
  /\ UNCHANGED <<table, sem, ino, fd, from, clobbered, pulled>>

CloseInode(t) ==
  /\ at_file[t] \in {"close_inode", "then_inode"}
  /\ f_inode' = [f_inode EXCEPT ![fd[t]] = NULL]
  /\ Goto(t, IF at_file[t] = "close_inode" THEN "close_priv" ELSE "then_priv")
  /\ UNCHANGED <<tree, f_priv, mine, abandoned, sem, ino, fd, from, clobbered, pulled>>

\* If the descriptor has a file by now, that is nobody's any more.
ClosePriv(t) ==
  /\ at_file[t] \in {"close_priv", "then_priv"}
  /\ f_priv' = [f_priv EXCEPT ![fd[t]] = FALSE]
  /\ abandoned' = IF f_inode[fd[t]] # NULL /\ f_priv[fd[t]]
                  THEN [abandoned EXCEPT ![f_inode[fd[t]]] = @ + 1] ELSE abandoned
  /\ IF at_file[t] = "close_priv" THEN Return(t)
     ELSE Goto(t, "copy") /\ UNCHANGED <<ino, fd, from>>
  /\ UNCHANGED <<tree, f_inode, mine, sem, clobbered, pulled>>

-----------------------------------------------------------------------------
(* dup and dup2                                                            *)

\* file_dup2 up to inode_addref, of descriptor f onto g, for dup onto a file of its own.  A
\* descriptor that has lost its file makes fat_dup read through NULL, and is left out.
Duplicate(t, f, g) ==
  /\ Idle(t) /\ mine[f] = t /\ f_inode[f] # NULL /\ f_priv[f]
  /\ g # NULL => g # f /\ (f_inode[g] # NULL => mine[g] = t)
  /\ AddRef(f_inode[f])
  /\ ino' = [ino EXCEPT ![t] = f_inode[f]] /\ fd' = [fd EXCEPT ![t] = g]
  /\ Goto(t, IF g = NULL THEN "dup" ELSE "dup2")
  /\ UNCHANGED <<table, sem, from, clobbered, pulled>>

\* The dup method: fat_dup, which fails on a medium that is gone or for want of memory.
DuplicateFile(t) ==
  /\ at_file[t] \in {"dup", "dup2"}
  /\ CheckMount(ino[t])
  /\ \/ /\ fs'[ino[t]] = "mounted" /\ Listed(ino[t], 1)
        /\ Goto(t, IF at_file[t] = "dup" THEN "allocate" ELSE "dup2_close")
     \/ Goto(t, "release") /\ UNCHANGED <<node, alive, crefs, deleted, mops, files, drv>>
  /\ UNCHANGED <<table, sem, ino, fd, from, clobbered, pulled>>

\* file_close on the descriptor it replaces, and, when that is through, the copy.
ReplaceClose(t) ==
  /\ at_file[t] = "dup2_close"
  /\ IF f_inode[fd[t]] = NULL
     THEN Goto(t, "copy") /\ UNCHANGED <<tree, f_priv, from>>
     ELSE CloseFile(t, fd[t], "then_release")
  /\ clobbered' = (clobbered \/ (f_inode[fd[t]] # NULL /\ mine[fd[t]] # t))
  /\ UNCHANGED <<f_inode, mine, abandoned, sem, ino, fd, pulled>>

Copy(t) ==
  /\ at_file[t] = "copy"
  /\ clobbered' = (clobbered \/ f_inode[fd[t]] # NULL)
  /\ f_inode' = [f_inode EXCEPT ![fd[t]] = ino[t]]
  /\ f_priv' = [f_priv EXCEPT ![fd[t]] = TRUE]
  /\ mine' = [mine EXCEPT ![fd[t]] = t]
  /\ Return(t)
  /\ UNCHANGED <<tree, abandoned, sem, pulled>>

-----------------------------------------------------------------------------
(* mount and umount                                                        *)

\* nx_mount, the whole of which but the search for the block driver is under the mutex.
\* A file system that cannot be bound leaves nothing behind.
Mount(t) ==
  /\ Idle(t) /\ sem = NULL /\ node = NULL
  /\ \E i \in Inodes \ alive :
       /\ node' = i /\ alive' = alive \cup {i}
       /\ crefs' = [crefs EXCEPT ![i] = 0] /\ deleted' = [deleted EXCEPT ![i] = FALSE]
       /\ mops' = [mops EXCEPT ![i] = TRUE] /\ fs' = [fs EXCEPT ![i] = "mounted"]
       /\ files' = [files EXCEPT ![i] = 0] /\ abandoned' = [abandoned EXCEPT ![i] = 0]
  /\ drv' = drv + 1
  /\ UNCHANGED <<f_inode, f_priv, mine, sem, at_file, ino, fd, from, clobbered, pulled>>

\* nx_umount2 up to inode_find.
UmountFind(t) ==
  /\ Idle(t) /\ node # NULL
  /\ AddRef(node)
  /\ ino' = [ino EXCEPT ![t] = node]
  /\ Goto(t, "umount_check")
  /\ UNCHANGED <<table, sem, fd, from, clobbered, pulled>>

\* The type and the unbind method, looked at with no mutex.
UmountCheck(t) ==
  /\ at_file[t] = "umount_check"
  /\ Goto(t, IF mops[ino[t]] THEN "umount_take" ELSE "release")
  /\ UNCHANGED <<tree, table, sem, ino, fd, from, clobbered, pulled>>

\* The mutex, and fat_unbind up to f_unmount, which comes before the list is looked at.
\* If somebody else unmounted it since, the method is called through NULL; here it fails.
UmountTake(t) ==
  /\ at_file[t] = "umount_take" /\ sem = NULL
  /\ IF mops[ino[t]]
     THEN /\ sem' = t /\ fs' = [fs EXCEPT ![ino[t]] = "stopped"]
          /\ Goto(t, "umount_unbind")
     ELSE UNCHANGED <<sem, fs>> /\ Goto(t, "release")
  /\ UNCHANGED <<node, alive, crefs, deleted, mops, files, drv, table, ino, fd, from,
                 clobbered, pulled>>

\* Who has looked at the operations of inode i and is about to use them.
Relying(i) ==
  {t \in Tasks : ino[t] = i /\ at_file[t] \in {"open_enter", "open_add", "umount_take"}}

\* Fault: the list of open files is not looked at.
UmountUnbindAnyway(t) ==
  /\ at_file[t] = "umount_unbind"
  /\ node' = NULL /\ deleted' = [deleted EXCEPT ![ino[t]] = TRUE]
  /\ mops' = [mops EXCEPT ![ino[t]] = FALSE] /\ fs' = [fs EXCEPT ![ino[t]] = "none"]
  /\ drv' = drv - 1
  /\ pulled' = (pulled \/ Relying(ino[t]) # {})
  /\ UNCHANGED <<alive, crefs, files>>
  /\ sem' = NULL
  /\ Goto(t, "release")
  /\ UNCHANGED <<table, ino, fd, from, clobbered>>

\* The rest of fat_unbind and of what is done under the mutex: with files open it is
\* busy; otherwise the mount point is taken out of the tree by inode_remove, and freed
\* with its last reference.
UmountUnbind(t) ==
  /\ at_file[t] = "umount_unbind"
  /\ \/ files[ino[t]] > 0 /\ UNCHANGED <<tree, pulled>>
     \/ /\ files[ino[t]] = 0
        /\ node' = NULL /\ deleted' = [deleted EXCEPT ![ino[t]] = TRUE]
        /\ mops' = [mops EXCEPT ![ino[t]] = FALSE] /\ fs' = [fs EXCEPT ![ino[t]] = "none"]
        /\ drv' = drv - 1
        /\ pulled' = (pulled \/ Relying(ino[t]) # {})
        /\ UNCHANGED <<alive, crefs, files>>
  /\ sem' = NULL
  /\ Goto(t, "release")
  /\ UNCHANGED <<table, ino, fd, from, clobbered>>

\* After such a mishap and the end of the calls under way nothing more is followed.
Ended ==
  /\ clobbered \/ pulled \/ \E i \in Inodes : abandoned[i] > MaxAbandoned
  /\ UNCHANGED vars

Next ==
  \/ Ended
  \/ \E t \in Tasks :
       \/ OpenFind(t) \/ OpenCheck(t) \/ OpenEnter(t) \/ OpenAdd(t) \/ Allocate(t) \/ Release(t)
       \/ \E f \in Fds : Close(t, f) \/ \E g \in Fds \cup {NULL} : Duplicate(t, f, g)
       \/ CloseRelease(t) \/ CloseInode(t) \/ ClosePriv(t)
       \/ DuplicateFile(t) \/ ReplaceClose(t) \/ Copy(t)
       \/ Mount(t) \/ UmountFind(t) \/ UmountCheck(t) \/ UmountTake(t) \/ UmountUnbind(t)

Spec == Init /\ [][Next]_vars

-----------------------------------------------------------------------------

\* Descriptors that have a reference to inode i: f_inode is cleared after it is dropped.
Open(i) ==
  {f \in Fds : f_inode[f] = i /\
     \A t \in Tasks : ~(fd[t] = f /\ at_file[t] \in {"close_inode", "then_inode"})}

\* Tasks that have a reference to inode i of their own.
Holding(i) == {t \in Tasks : ino[t] = i}

\* Tasks with a file of inode i that is in no descriptor yet.
Carrying(i) ==
  {t \in Tasks : ino[t] = i /\ at_file[t] \in
     {"allocate", "dup2_close", "then_release", "then_inode", "then_priv", "copy"}}

\* The references of an inode are those of its descriptors and of the calls under way, so
\* that none is freed in use and none is kept that nobody can find
\* (fs_inodefind.c:75, fs_inoderelease.c:68-91, fs_inoderemove.c:118-156).
RefsCounted ==
  /\ \A i \in alive :
       /\ crefs[i] = Cardinality(Open(i)) + Cardinality(Holding(i))
       /\ i = node \/ crefs[i] > 0
  /\ \A i \in Inodes \ alive : Open(i) = {} /\ Holding(i) = {}

\* A file system is bound as long as one of its files is open, its list has exactly
\* those and the ones abandoned, and its mount has a reference to the block driver
\* (fs_close.c:60-85, fs_fat32.c:308-397, 566-610, 912-966).
FilesListed ==
  /\ \A i \in Inodes :
       /\ files[i] = Cardinality({f \in Fds : f_inode[f] = i /\ f_priv[f]})
                     + Cardinality(Carrying(i)) + abandoned[i]
       /\ files[i] > 0 => mops[i]
  /\ drv = Cardinality({i \in alive : mops[i]})

\* Both, also after a close has cleared a descriptor that an open was given meanwhile;
\* unless a dup2 came upon what somebody else was given, or the file system was unmounted
\* under a call that had found it.
FilesHeld == ~clobbered /\ ~pulled => RefsCounted /\ FilesListed

\* "Caller holds the list semaphore because the file descriptor will be freed."
\* (fs_files.c:471-473): a close then never writes a descriptor that has been given to
\* somebody since it freed it (fs_close.c:60-85, fs_files.c:477-489, 514-522).
ClosesItsOwn ==
  [][\A t \in Tasks :
       at_file[t] = "close_priv" /\ at_file'[t] = "idle" => f_inode[fd[t]] = NULL]_vars
=============================================================================
