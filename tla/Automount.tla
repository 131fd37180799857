----------------------------- MODULE Automount -----------------------------
(***************************************************************************)
(* The automounter, fs/mount/fs_automount.c, for one disk: connect and     *)
(* disconnect come from the task of the bus driver, retries of mount and   *)
(* umount run on the thread of the low-priority queue, and no lock is      *)
(* taken.  A retry's delay is left open: a work that is queued may start.  *)
(* The file system is held by open files, those of the log among them,     *)
(* which opens on MOUNT and closes on UMOUNT (FileUart!ClosedWhenItMust).  *)
(***************************************************************************)
EXTENDS Naturals

CONSTANTS
  States,       \* what malloc can return for an automounter_state_s
  MaxRetries,   \* AUTOMOUNT_MAX_RETRIES
  NULL

VARIABLES
  plugged,     \* the disk is there
  mounted,     \* its file system is mounted on /media
  held,        \* files of it are open
  listed,      \* the state on __mounters, NULL if none; the others are free
  st,          \* fields of each state
  dwork,       \* works queued on LPWORK: <<state, "mount">> or <<state, "umount">>
  pc, arg,     \* where the driver and the worker thread are, and with which state
  told,        \* the last of MOUNT and UMOUNT announced
  raced,       \* history: an event came while a retry was being run
  again        \* history: a connect came while an umount was to be retried

disk == <<plugged, mounted, held>>
vars == <<disk, listed, st, dwork, pc, arg, told, raced, again>>

Drv == "driver"
Lp == "lpwork"
Contexts == {Drv, Lp}
Fresh == [mounted |-> FALSE, announced |-> FALSE, attempts |-> 0]

TypeOK ==
  /\ plugged \in BOOLEAN /\ mounted \in BOOLEAN /\ held \in BOOLEAN
  /\ listed \in States \cup {NULL}
  /\ st \in [States -> [mounted : BOOLEAN, announced : BOOLEAN, attempts : 0..MaxRetries]]
  /\ dwork \subseteq States \X {"mount", "umount"}
  /\ pc \in [Contexts -> {"idle", "mount", "mounted", "failed", "umount", "busy", "free"}]
  /\ arg \in [Contexts -> States \cup {NULL}]
  /\ told \in {"MOUNT", "UMOUNT"}
  /\ raced \in BOOLEAN /\ again \in BOOLEAN

Init ==
  /\ plugged = FALSE /\ mounted = FALSE /\ held = FALSE
  /\ listed = NULL /\ st = [s \in States |-> Fresh]
  /\ dwork = {}
  /\ pc = [x \in Contexts |-> "idle"] /\ arg = [x \in Contexts |-> NULL]
  /\ told = "UMOUNT" /\ raced = FALSE /\ again = FALSE

At(x, place) == pc[x] = place
Go(x, place) == pc' = [pc EXCEPT ![x] = place]
Enter(x, place, s) == Go(x, place) /\ arg' = [arg EXCEPT ![x] = s]
Return(x) == Enter(x, "idle", NULL)

\* The fields of the state a context works on, and no work but the one w queued
\* unless it is on the queue already.
Set(x, field, v) == st' = [st EXCEPT ![arg[x]] = [@ EXCEPT ![field] = v]]
InRetry(s) == arg[Lp] = s /\ s # NULL
Referred(s) == (\E x \in Contexts : arg[x] = s) \/ \E k \in {"mount", "umount"} : <<s, k>> \in dwork

-----------------------------------------------------------------------------
(* automount_try_mount, from a connect or a retry.                         *)

\* EBUSY counts as success; a failure has tried vfat and ntfs.
TryMount(x) ==
  /\ At(x, "mount")
  /\ \/ (plugged \/ mounted) /\ mounted' = TRUE /\ Go(x, "mounted")
     \/ ~mounted /\ Go(x, "failed") /\ UNCHANGED mounted
  /\ st' = [st EXCEPT ![arg[x]].attempts = IF @ < MaxRetries THEN @ + 1 ELSE @]
  /\ UNCHANGED <<plugged, held, listed, dwork, arg, told, raced, again>>

Mounted(x) ==
  /\ At(x, "mounted")
  /\ st' = [st EXCEPT ![arg[x]] = [mounted |-> TRUE, announced |-> FALSE, attempts |-> 0]]
  /\ told' = "MOUNT"
  /\ Return(x)
  /\ UNCHANGED <<disk, listed, dwork, raced, again>>

\* Fault: a mount that failed is not tried again.
MountFailedGivesUp(x) ==
  /\ At(x, "failed")
  /\ Return(x)
  /\ UNCHANGED <<disk, listed, st, told, raced, again, dwork>>

\* automount_schedule_retry
MountFailed(x) ==
  /\ At(x, "failed")
  /\ dwork' = IF ~st[arg[x]].mounted /\ st[arg[x]].attempts < MaxRetries
              THEN dwork \cup {<<arg[x], "mount">>} ELSE dwork
  /\ Return(x)
  /\ UNCHANGED <<disk, listed, st, told, raced, again>>

-----------------------------------------------------------------------------
(* autoumount_fs, from a disconnect or a retry.                            *)

\* Fault: the umount is not announced.
UmountQuiet(x) ==
  /\ At(x, "umount")
  /\ Go(x, "busy")
  /\ UNCHANGED <<disk, listed, st, dwork, arg, raced, again, told>>

\* Announced once.
UmountAnnounce(x) ==
  /\ At(x, "umount")
  /\ told' = IF st[arg[x]].announced THEN told ELSE "UMOUNT"
  /\ st' = [st EXCEPT ![arg[x]].announced = TRUE]
  /\ Go(x, "busy")
  /\ UNCHANGED <<disk, listed, dwork, arg, raced, again>>

\* Fault: an umount that failed is not tried again.
UmountGivesUp(x) ==
  /\ At(x, "busy")
  /\ IF mounted /\ ~held
     THEN mounted' = FALSE /\ Go(x, "free") /\ UNCHANGED arg
     ELSE Return(x) /\ UNCHANGED mounted
  /\ UNCHANGED <<plugged, held, listed, st, dwork, told, raced, again>>

Umount(x) ==
  /\ At(x, "busy")
  /\ IF mounted /\ ~held
     THEN mounted' = FALSE /\ Go(x, "free") /\ UNCHANGED <<dwork, arg>>
     ELSE /\ dwork' = dwork \cup {<<arg[x], "umount">>}
          /\ Return(x)
          /\ UNCHANGED mounted
  /\ UNCHANGED <<plugged, held, listed, st, told, raced, again>>

Free(x) ==
  /\ At(x, "free")
  /\ listed' = IF listed = arg[x] THEN NULL ELSE listed
  /\ Return(x)
  /\ UNCHANGED <<disk, st, dwork, told, raced, again>>

-----------------------------------------------------------------------------
(* Events of the bus driver.                                               *)

\* What the event meets: the worker inside a retry, or an umount to be retried.
Meets == raced' = (raced \/ InRetry(listed))

\* automount_fs, no state yet
ConnectNew ==
  /\ At(Drv, "idle") /\ listed = NULL
  /\ plugged' = TRUE
  /\ \E s \in States :
       /\ ~Referred(s)
       /\ listed' = s
       /\ st' = [st EXCEPT ![s] = Fresh]
       /\ Enter(Drv, "mount", s)
  /\ UNCHANGED <<mounted, held, dwork, told, raced, again>>

\* automount_fs, no memory
ConnectNoMemory ==
  /\ At(Drv, "idle") /\ listed = NULL
  /\ plugged' = TRUE
  /\ UNCHANGED <<mounted, held, listed, st, dwork, pc, arg, told, raced, again>>

\* Connected again: announced again, or tried again.
ConnectAgain ==
  /\ At(Drv, "idle") /\ listed # NULL
  /\ plugged' = TRUE
  /\ Meets
  /\ again' = (again \/ <<listed, "umount">> \in dwork)
  /\ IF st[listed].mounted
     THEN told' = "MOUNT" /\ UNCHANGED <<pc, arg>>
     ELSE Enter(Drv, "mount", listed) /\ UNCHANGED told
  /\ UNCHANGED <<mounted, held, listed, st, dwork>>

\* Fault: the queued retry is not cancelled.
DisconnectKeepsRetry ==
  /\ At(Drv, "idle") /\ plugged /\ listed # NULL
  /\ plugged' = FALSE
  /\ Meets
  /\ IF st[listed].mounted
     THEN Enter(Drv, "umount", listed) /\ UNCHANGED listed
     ELSE listed' = NULL /\ UNCHANGED <<pc, arg>>
  /\ UNCHANGED <<mounted, held, st, told, again, dwork>>

\* automount_disconnect
Disconnect ==
  /\ At(Drv, "idle") /\ plugged /\ listed # NULL
  /\ plugged' = FALSE
  /\ Meets
  /\ dwork' = dwork \ {<<listed, "mount">>}
  /\ IF st[listed].mounted
     THEN Enter(Drv, "umount", listed) /\ UNCHANGED listed
     ELSE listed' = NULL /\ UNCHANGED <<pc, arg>>
  /\ UNCHANGED <<mounted, held, st, told, again>>

\* automount_disconnect of a disk with no state
DisconnectUnknown ==
  /\ At(Drv, "idle") /\ plugged /\ listed = NULL
  /\ plugged' = FALSE
  /\ UNCHANGED <<mounted, held, listed, st, dwork, pc, arg, told, raced, again>>

-----------------------------------------------------------------------------
(* The low-priority queue runs a work.                                     *)

\* automount_mount_retry
RetryMount(s) ==
  /\ At(Lp, "idle") /\ <<s, "mount">> \in dwork
  /\ dwork' = dwork \ {<<s, "mount">>}
  /\ IF st[s].mounted THEN UNCHANGED <<pc, arg>> ELSE Enter(Lp, "mount", s)
  /\ UNCHANGED <<disk, listed, st, told, raced, again>>

RetryUmount(s) ==
  /\ At(Lp, "idle") /\ <<s, "umount">> \in dwork
  /\ dwork' = dwork \ {<<s, "umount">>}
  /\ Enter(Lp, "umount", s)
  /\ UNCHANGED <<disk, listed, st, told, raced, again>>

-----------------------------------------------------------------------------
(* The users of the file system, told by the announcements.                *)

OpenFile ==
  /\ mounted /\ told = "MOUNT" /\ ~held
  /\ held' = TRUE
  /\ UNCHANGED <<plugged, mounted, listed, st, dwork, pc, arg, told, raced, again>>

CloseFile ==
  /\ held
  /\ held' = FALSE
  /\ UNCHANGED <<plugged, mounted, listed, st, dwork, pc, arg, told, raced, again>>

-----------------------------------------------------------------------------

Step(x) ==
  \/ TryMount(x) \/ Mounted(x) \/ MountFailed(x)
  \/ UmountAnnounce(x) \/ Umount(x) \/ Free(x)

Retry == \E s \in States : RetryMount(s) \/ RetryUmount(s)

Next ==
  \/ \E x \in Contexts : Step(x)
  \/ ConnectNew \/ ConnectNoMemory \/ ConnectAgain \/ Disconnect \/ DisconnectUnknown
  \/ Retry \/ OpenFile \/ CloseFile

Spec == Init /\ [][Next]_vars

\* The driver and the worker thread go on; who was told UMOUNT closes.
Fairness ==
  /\ \A x \in Contexts : WF_vars(Step(x))
  /\ WF_vars(Retry)
  /\ WF_vars(told = "UMOUNT" /\ CloseFile)

FairSpec == Spec /\ Fairness

-----------------------------------------------------------------------------
(* What the automounter is asked.                                          *)

Plain == ~raced /\ ~again

\* Neither the driver nor the worker thread, nor a work it will run, refers to
\* a state that was freed; except after a device came or went in the middle of
\* a retry, or came back while its umount was to be retried
\* (fs_automount.c:94-116, 133-142, 189-196).
NoStaleState == Plain => \A s \in States : Referred(s) => s = listed

\* Who was last told MOUNT has a file system under it, with the same exceptions
\* (fs_automount.c:85-91, 125-128, 159-161).
ToldTruth ==
  Plain /\ told = "MOUNT" => mounted

\* A disk that is there gets mounted, or its retries run out
\* (fs_automount.c:76-116).
PluggedIsMounted ==
  plugged /\ listed # NULL ~>
    mounted \/ ~plugged \/ raced \/ again
    \/ (listed # NULL /\ st[listed].attempts = MaxRetries)

\* A disk that went away is unmounted and forgotten in the end
\* (fs_automount.c:118-145, 181-197).
GoneIsForgotten ==
  []<>(plugged \/ (listed = NULL /\ ~mounted) \/ raced \/ again)
=============================================================================
