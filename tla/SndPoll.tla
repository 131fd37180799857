------------------------------ MODULE SndPoll ------------------------------
(***************************************************************************)
(* The poll method of the sound core, sound/snd_core.c, over the work      *)
(* notifiers it arms and the poll call that sleeps on it.  Each open file  *)
(* has one polling task; the platform driver, in a binary archive, makes   *)
(* frames available and signals SND_EVENT_AVAIL, and transfers use them up. *)
(* snd_poll holds the mutex of the file, which excludes ioctl and close;   *)
(* the driver and the callback of the notifier take no lock.               *)
(***************************************************************************)
EXTENDS Naturals

CONSTANTS
  Devices,    \* open files on one platform
  Entries,    \* notifier entries
  Keys,       \* notifier keys
  NULL

VARIABLES
  heap, free, pending, info, claimed, queued, running, oneshot, calls,  \* Notifier
  open,        \* files that are open
  ntkey,       \* ntkey of each; NULL for -1 and for an errno
  got,         \* the key setup returned, on its way to ntkey
  at,          \* where the polling task is
  hooked,      \* files whose wait queue has the entry of their poller
  notified,    \* pollers with a notification pending
  avail,       \* get_avail() >= avail_min
  signalling,  \* the driver is about to signal
  cb,          \* where snd_wakeup_poll is
  unarmed,     \* history: pollers asleep for which no notifier could be allocated
  missed,      \* history: pollers asleep that trusted the key of a notifier gone by
  late         \* history: files closed while their notifier had been signalled

notifier == <<heap, free, pending, info, claimed, queued, running, oneshot, calls>>
poller == <<at, got, unarmed, missed>>
driver == <<avail, signalling>>
vars == <<notifier, poller, driver, open, ntkey, hooked, notified, cb, late>>

Avail == "SND_EVENT_AVAIL"
N == INSTANCE Notifier WITH Clients <- Devices, Events <- {Avail}

Places == {"idle", "hook", "avail", "armed", "claim", "publish", "store", "sleep"}

TypeOK ==
  /\ open \subseteq Devices /\ hooked \subseteq open /\ notified \subseteq Devices
  /\ ntkey \in [Devices -> Keys \cup {NULL}] /\ got \in [Devices -> Keys \cup {NULL}]
  /\ at \in [Devices -> Places]
  /\ avail \in BOOLEAN /\ signalling \in BOOLEAN
  /\ cb \in {"off", "wake", "clear", "return"}
  /\ unarmed \subseteq Devices /\ missed \subseteq Devices /\ late \subseteq Devices

\* No file is open and the driver is silent.
Quiet ==
  /\ open = {} /\ hooked = {} /\ notified = {}
  /\ ntkey = [d \in Devices |-> NULL] /\ got = [d \in Devices |-> NULL]
  /\ at = [d \in Devices |-> "idle"]
  /\ avail = FALSE /\ signalling = FALSE
  /\ cb = "off"
  /\ unarmed = {} /\ missed = {} /\ late = {}

Init == Quiet /\ N!Init /\ oneshot = TRUE

At(d, place) == at[d] = place
Go(d, place) == at' = [at EXCEPT ![d] = place]

\* The device a callback under way was set up with.
Arg == info[running].client

\* Something will still wake the poller of d.
Armed(d) ==
  \/ \E e \in pending \cup queued : info[e].client = d
  \/ cb = "wake" /\ Arg = d

-----------------------------------------------------------------------------
(* Open, poll and close.                                                   *)

\* snd_open, of a device no callback still refers to.
Open(d) ==
  /\ d \notin open /\ ~Armed(d) /\ (cb = "clear" => Arg # d)
  /\ open' = open \cup {d}
  /\ ntkey' = [ntkey EXCEPT ![d] = NULL]
  /\ late' = late \ {d}
  /\ UNCHANGED <<notifier, poller, driver, hooked, notified, cb>>

\* poll with no timeout reaches snd_poll.
Poll(d) ==
  /\ At(d, "idle") /\ d \in open
  /\ Go(d, "hook")
  /\ UNCHANGED <<notifier, driver, open, ntkey, hooked, notified, cb, late, got,
                 unarmed, missed>>

\* poll_wait
Hook(d) ==
  /\ At(d, "hook")
  /\ hooked' = hooked \cup {d}
  /\ Go(d, "avail")
  /\ UNCHANGED <<notifier, driver, open, ntkey, notified, cb, late, got, unarmed, missed>>

\* get_avail: with frames, poll returns and takes its entry off.
GetAvail(d) ==
  /\ At(d, "avail")
  /\ IF avail
     THEN Go(d, "idle") /\ hooked' = hooked \ {d} /\ notified' = notified \ {d}
     ELSE Go(d, "armed") /\ UNCHANGED <<hooked, notified>>
  /\ UNCHANGED <<notifier, driver, open, ntkey, cb, late, got, unarmed, missed>>

\* Fault: a notifier is set up only for the first poll of a file.
TestKeyOnce(d) ==
  /\ At(d, "armed")
  /\ Go(d, IF ntkey[d] = NULL /\ got[d] = NULL THEN "claim" ELSE "sleep")
  /\ missed' = IF ntkey[d] # NULL /\ ~Armed(d) THEN missed \cup {d} ELSE missed
  /\ UNCHANGED <<notifier, driver, open, ntkey, hooked, notified, cb, late, got, unarmed>>

\* No notifier is set up while the key of one is held.
TestKey(d) ==
  /\ At(d, "armed")
  /\ Go(d, IF ntkey[d] = NULL THEN "claim" ELSE "sleep")
  /\ missed' = IF ntkey[d] # NULL /\ ~Armed(d) THEN missed \cup {d} ELSE missed
  /\ UNCHANGED <<notifier, driver, open, ntkey, hooked, notified, cb, late, got, unarmed>>

\* work_notifier_setup: an entry, or none and an errno in ntkey,
Claim(d) ==
  /\ At(d, "claim")
  /\ \/ /\ \E e \in Entries : N!Claim(d, e)
        /\ Go(d, "publish")
        /\ UNCHANGED unarmed
     \/ /\ UNCHANGED notifier
        /\ free \subseteq queued
        /\ Go(d, "sleep")
        /\ unarmed' = unarmed \cup {d}
  /\ UNCHANGED <<driver, open, ntkey, hooked, notified, cb, late, got, missed>>

\* linked on the pending list under a key nobody holds (the counter is of 32 bits),
Publish(d) ==
  /\ At(d, "publish")
  /\ \E k \in Keys :
       /\ \A c \in Devices : k \notin {ntkey[c], got[c]}
       /\ N!Publish(d, k, Avail)
       /\ got' = [got EXCEPT ![d] = k]
  /\ Go(d, "store")
  /\ UNCHANGED <<driver, open, ntkey, hooked, notified, cb, late, unarmed, missed>>

\* and the key kept.
StoreKey(d) ==
  /\ At(d, "store")
  /\ ntkey' = [ntkey EXCEPT ![d] = got[d]]
  /\ got' = [got EXCEPT ![d] = NULL]
  /\ Go(d, "sleep")
  /\ UNCHANGED <<notifier, driver, open, hooked, notified, cb, late, unarmed, missed>>

\* ulTaskNotifyTakeIndexed returns and poll queries again.
Wake(d) ==
  /\ At(d, "sleep") /\ d \in notified
  /\ notified' = notified \ {d}
  /\ unarmed' = unarmed \ {d} /\ missed' = missed \ {d}
  /\ Go(d, "avail")
  /\ UNCHANGED <<notifier, driver, open, ntkey, hooked, cb, late, got>>

\* Fault: the notifier is left armed.
CloseKeepsNotifier(d) ==
  /\ At(d, "idle") /\ d \in open
  /\ open' = open \ {d}
  /\ UNCHANGED <<notifier, late, poller, driver, ntkey, hooked, notified, cb>>

\* snd_close; its wake_up finds no poller of this file.  A notifier that was
\* signalled before is not torn down.  The device is freed, and its key with it.
Close(d) ==
  /\ At(d, "idle") /\ d \in open
  /\ IF ntkey[d] # NULL THEN N!Teardown(ntkey[d]) ELSE UNCHANGED notifier
  /\ late' = IF ntkey[d] # NULL /\ N!Find(ntkey[d]) = {} THEN late \cup {d} ELSE late
  /\ open' = open \ {d}
  /\ ntkey' = [ntkey EXCEPT ![d] = NULL]
  /\ UNCHANGED <<poller, driver, hooked, notified, cb>>

\* SND_IOCTL_XFER
Xfer(d) ==
  /\ d \in open /\ at[d] \in {"idle", "sleep"} /\ avail
  /\ avail' = FALSE
  /\ UNCHANGED <<notifier, poller, signalling, open, ntkey, hooked, notified, cb, late>>

-----------------------------------------------------------------------------
(* The platform driver and the callback of the notifier.                   *)

Period ==
  /\ ~signalling
  /\ signalling' = TRUE /\ avail' = TRUE
  /\ UNCHANGED <<notifier, poller, open, ntkey, hooked, notified, cb, late>>

SignalAvail ==
  /\ signalling
  /\ signalling' = FALSE
  /\ N!Signal(Avail)
  /\ UNCHANGED <<poller, avail, open, ntkey, hooked, notified, cb, late>>

\* work_notifier_worker calls snd_wakeup_poll.
Call ==
  /\ cb = "off"
  /\ \E e \in Entries : N!Call(e)
  /\ cb' = "wake"
  /\ UNCHANGED <<poller, driver, open, ntkey, hooked, notified, late>>

\* Fault: the key is cleared and nobody is woken.
CallbackForgets ==
  /\ cb = "wake"
  /\ cb' = "clear"
  /\ UNCHANGED <<notifier, poller, driver, open, ntkey, hooked, late, notified>>

CallbackWakes ==
  /\ cb = "wake"
  /\ notified' = IF Arg \in hooked THEN notified \cup {Arg} ELSE notified
  /\ cb' = "clear"
  /\ UNCHANGED <<notifier, poller, driver, open, ntkey, hooked, late>>

CallbackClears ==
  /\ cb = "clear"
  /\ ntkey' = [ntkey EXCEPT ![Arg] = NULL]
  /\ cb' = "return"
  /\ UNCHANGED <<notifier, poller, driver, open, hooked, notified, late>>

CallbackReturns ==
  /\ cb = "return"
  /\ N!Finish
  /\ cb' = "off"
  /\ UNCHANGED <<poller, driver, open, ntkey, hooked, notified, late>>

-----------------------------------------------------------------------------

PollStep(d) ==
  \/ Hook(d) \/ GetAvail(d) \/ TestKey(d) \/ Claim(d) \/ Publish(d) \/ StoreKey(d)
  \/ Wake(d)

Callback == Call \/ CallbackWakes \/ CallbackClears \/ CallbackReturns

Next ==
  \/ \E d \in Devices : Open(d) \/ Poll(d) \/ PollStep(d) \/ Close(d) \/ Xfer(d)
  \/ Period \/ SignalAvail \/ Callback

Spec == Init /\ [][Next]_vars

\* Tasks that can run do, the stream goes on and each period is signalled, and
\* the worker thread runs what is queued.
Fairness ==
  /\ \A d \in Devices : WF_vars(PollStep(d))
  /\ WF_vars(Period \/ SignalAvail) /\ WF_vars(Callback)

FairSpec == Spec /\ Fairness

-----------------------------------------------------------------------------
(* What a poller is promised.                                              *)

\* poll sleeps only while something will wake it, or frames have yet to come;
\* unless no notifier could be allocated, or its key was of one gone by
\* (snd_core.c:493-498, 524-533, kwork_notifier.c:217-297, 381-439).
SleeperIsArmed ==
  \A d \in Devices : At(d, "sleep") /\ d \notin notified =>
    Armed(d) \/ d \in unarmed \/ d \in missed

\* What fs_poll.c:289-291 says of poll: with frames there and the signal given
\* nobody sleeps whom nothing is going to wake.
SleepsUntilFrames ==
  \A d \in Devices :
    At(d, "sleep") /\ avail /\ ~signalling => d \in notified \/ Armed(d) \/ d \in unarmed

\* The callback finds its device open, unless close came after the signal, and
\* then its teardown failed (snd_core.c:113-122, kwork_notifier.c:331-336).
CallbackFindsDevice ==
  cb \in {"wake", "clear"} => Arg \in open \/ Arg \in late

\* Frames end the poll of a task that is armed for them: it does not sleep on for ever
\* with frames there.
FramesEndPoll ==
  \A d \in Devices :
    []<>(~At(d, "sleep") \/ ~avail \/ d \in unarmed \/ d \in missed)
=============================================================================
