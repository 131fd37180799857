------------------------------ MODULE Drivers ------------------------------
(***************************************************************************)
(* The drivers of one board side by side.  Apart from the sound core and   *)
(* the work notifiers, which share the variables of the notifiers, they    *)
(* share no state, so that one of them at a time takes steps: which one is *)
(* chosen in the beginning, and the others stay as they are after start.   *)
(***************************************************************************)
EXTENDS Integers, FiniteSets

CONSTANTS
  NULL,
  NEntries, NEvents, NKeys, SndKeys, Files,       \* Notifier and SndPoll
  Mounters, MaxRetries,                           \* Automount
  InputKeys, FifoSize,                            \* Input
  RcMessages, Keycodes, RcTimeout,                \* RemoteKeys
  Scancodes, MaxTable, MinSize, MaxSize,          \* Keymap
  Classes, Devs, MaxId,                           \* InputIds
  IrqEntries, MaxIsr,                             \* GpioIrq
  FifoMax, MaxText,                               \* UartTx
  RxSize, RxBytes, MaxRef,                        \* UartRx
  MaxOpens,                                       \* AdcOpen
  Tasks, Short, Long, FifoDepth,                  \* I2cRead
  Count, Groups,                                  \* ModuleStart
  Fds, Inodes, MaxAbandoned,                      \* FileTable
  SectSize, NSectors, BlockBytes, MaxFiles, MayFail,  \* Bch
  Per, NErase,                                    \* Ftl
  ByteLen, Codes, Skew, MaxSample, HwTimeout, RawTimeout, RawSize  \* IrReceiver

VARIABLES
  which,
  heap, free, pending, info, claimed, queued, running, oneshot, calls,
  open, ntkey, got, at, hooked, notified, avail, signalling, cb, unarmed, missed, late,
  plugged, mounted, held, listed, st, dwork, pc, arg, told, raced, again,
  key, buf, in, out, src, ev, old, repeat_key, timer, firing, seen, odd, dropped, trampled,
  rmap, looked, keypressed, last_keycode, last, left, due, late_up, down, quiet, remapped,
  scan, size, toload, failed, loaded, doubled, request,
  class, bitmap, devid, at_id, id_dev, id_image, withdrawn, exhausted, crossed,
  chain, isrs, ier, orphaned,
  text, std, at_tx, sent, add_cr, fifo_n, tx_done, level, wire, lost, early,
  refcnt, rx_buf, rx_wt, rx_rd, rx_ring, rx_isr, at_rx, rx_cnt, rx_open, unread, overrun,
  leftover, misread, stray, collided, dangling,
  ad_ocount, adc_on, opens, twice,
  eddc_flag, owner, at_i2c, rlen, eddc, wants, ridx, trig, i2c_done, rfifo, came, rdata, idx,
  result, flagged, gave_up, cut,
  initialized, up, walk, begun, wrong,
  node, alive, crefs, deleted, mops, fs, files, drv, f_inode, f_priv, sem, at_file, ino, fd,
  from, mine, abandoned, clobbered, pulled,
  medium, sector, buffer, dirty, refs, unlinked, there, wanted, behind, spoiled,
  flash, eblock, phase, startblock, nblocks, current, remaining, source, wiped,
  runs, frame, silent, idle, this_ev, kfifo, nec, at_raw, runnable, owed, repeatable,
  overflowed, mistaken

N == INSTANCE Notifier WITH Entries <- NEntries, Clients <- Files, Events <- NEvents,
                            Keys <- NKeys
S == INSTANCE SndPoll WITH Entries <- NEntries, Devices <- Files, Keys <- SndKeys
A == INSTANCE Automount WITH States <- Mounters
I == INSTANCE Input WITH Keys <- InputKeys
R == INSTANCE RemoteKeys WITH Messages <- RcMessages, Timeout <- RcTimeout
K == INSTANCE Keymap
D == INSTANCE InputIds
G == INSTANCE GpioIrq WITH Entries <- IrqEntries
T == INSTANCE UartTx
U == INSTANCE UartRx
C == INSTANCE AdcOpen
B == INSTANCE I2cRead
M == INSTANCE ModuleStart
F == INSTANCE FileTable
H == INSTANCE Bch WITH Bytes <- BlockBytes, Junk <- NULL, PerBlock <- Per
L == INSTANCE Ftl
X == INSTANCE IrReceiver WITH Timeout <- RawTimeout

ASSUME DriversAssumption ==
  /\ MaxId \in Nat /\ NULL \notin D!Ids \cup {D!None} /\ NULL \notin Devs
  /\ Count \in Nat \ {0} /\ Groups \subseteq M!Mods \X M!Mods /\ NULL \notin M!Walk
  /\ Short \in Nat /\ Long \in Nat /\ Short <= Long
  /\ NULL \notin Tasks /\ NULL \notin B!Kinds
  /\ MaxRetries \in Nat /\ NULL \notin Mounters /\ FifoDepth \in Nat
  /\ MaxIsr \in Nat /\ MaxOpens \in Nat \ {0}

\* NULL is none of them, and the sound core is one of the users of the notifiers.
ASSUME NotifierAssumption ==
  /\ NULL \notin NEntries /\ NULL \notin Files /\ NULL \notin NKeys /\ NULL \notin N!Info
  /\ SndKeys \subseteq NKeys /\ S!Avail \in NEvents

\* The sizes of buffers and devices; a device with sectors of no bytes has none.
ASSUME LineAssumption ==
  FifoMax \in Nat \ {0} /\ MaxText \in Nat /\ RxSize \in Nat \ {0} /\ MaxRef \in Nat
ASSUME BlockAssumption ==
  /\ SectSize \in Nat \ {0} /\ NSectors \in Nat /\ BlockBytes # {}
  /\ MaxFiles \in Nat /\ MayFail \in BOOLEAN
ASSUME FlashAssumption == Per \in Nat \ {0} /\ NErase \in Nat \ {0}

\* Times and sizes of the input drivers; scancodes are numbers, and the table of a remote
\* control is given with no more entries than a table can have.
ASSUME InputAssumption ==
  /\ FifoSize \in Nat \ {0} /\ NULL \notin InputKeys /\ RcTimeout \in Nat
  /\ Scancodes \subseteq Nat
  /\ MinSize \in Nat \ {0} /\ MaxSize \in K!Powers
  /\ MaxTable \in Nat \ {0} /\ MaxTable <= MaxSize

\* Infrared runs differ from their lengths by less than the decoder forgives.  The receiver
\* waits longer than any space of a frame, MAX_SYMB_TIME (hc_rc.c:59, 126), and rc-ir-raw.c
\* longer still, IR_DEFAULT_TIMEOUT (hc_rc.c:189), as no driver sets max_timeout.  What is
\* sent is a code of its variant.
ASSUME InfraredAssumption ==
  /\ ByteLen \in Nat \ {0} /\ RawSize \in Nat /\ MaxSample \in Nat \ {0}
  /\ HwTimeout \in Nat /\ RawTimeout \in Nat /\ Skew \subseteq -1..1
  /\ 10 * X!Unit <= HwTimeout /\ HwTimeout < RawTimeout
  /\ Codes \subseteq X!NecCodes /\ NULL \notin X!Reports

\* Descriptors and tasks are finite in number, so that they can be counted.
ASSUME FilesAssumption ==
  /\ IsFiniteSet(Fds) /\ IsFiniteSet(Tasks)
  /\ NULL \notin Fds /\ NULL \notin Inodes /\ NULL \notin Tasks

Names == {"notifier", "snd", "automount", "input", "rc", "keymap", "ids", "gpio", "uart_tx",
          "uart_rx", "adc", "i2c", "modules", "files", "bch", "ftl", "ir"}

NotifierVars ==
  <<heap, free, pending, info, claimed, queued, running, oneshot, calls>>
SndVars ==
  <<open, ntkey, got, at, hooked, notified, avail, signalling, cb, unarmed, missed,
    late>>
AutomountVars ==
  <<plugged, mounted, held, listed, st, dwork, pc, arg, told, raced, again>>
InputVars ==
  <<key, buf, in, out, src, ev, old, repeat_key, timer, firing, seen, odd, dropped,
    trampled>>
RcVars ==
  <<rmap, looked, keypressed, last_keycode, last, left, due, late_up, down, quiet,
    remapped>>
KeymapVars == <<scan, size, toload, failed, loaded, doubled, request>>
IdsVars ==
  <<class, bitmap, devid, at_id, id_dev, id_image, withdrawn, exhausted, crossed>>
GpioVars == <<chain, isrs, ier, orphaned>>
UartTxVars ==
  <<text, std, at_tx, sent, add_cr, fifo_n, tx_done, level, wire, lost, early>>
UartRxVars ==
  <<rx_buf, rx_wt, rx_rd, refcnt, rx_ring, rx_isr, at_rx, rx_cnt, rx_open, collided,
    dangling, unread, overrun, misread, stray, leftover>>
AdcVars == <<ad_ocount, adc_on, opens, twice>>
I2cVars ==
  <<eddc_flag, owner, at_i2c, rlen, eddc, wants, ridx, trig, i2c_done, rfifo, came,
    rdata, idx, result, flagged, gave_up, cut>>
ModulesVars == <<initialized, up, walk, begun, wrong>>
FilesVars ==
  <<node, alive, crefs, deleted, mops, fs, files, drv, f_inode, f_priv, sem, at_file, ino,
    fd, from, mine, abandoned, clobbered, pulled>>
BchVars ==
  <<medium, sector, buffer, dirty, refs, unlinked, there, wanted, behind, spoiled>>
FtlVars == <<flash, eblock, phase, startblock, nblocks, current, remaining, source, wiped>>
IrVars ==
  <<runs, frame, silent, idle, this_ev, kfifo, nec, at_raw, runnable, owed, repeatable,
    overflowed, mistaken>>

Still(d) ==
  CASE d = "notifier" -> IF which = "snd" THEN TRUE ELSE UNCHANGED NotifierVars
    [] d = "snd" -> UNCHANGED SndVars
    [] d = "automount" -> UNCHANGED AutomountVars
    [] d = "input" -> UNCHANGED InputVars
    [] d = "rc" -> UNCHANGED RcVars
    [] d = "keymap" -> UNCHANGED KeymapVars
    [] d = "ids" -> UNCHANGED IdsVars
    [] d = "gpio" -> UNCHANGED GpioVars
    [] d = "uart_tx" -> UNCHANGED UartTxVars
    [] d = "uart_rx" -> UNCHANGED UartRxVars
    [] d = "adc" -> UNCHANGED AdcVars
    [] d = "i2c" -> UNCHANGED I2cVars
    [] d = "modules" -> UNCHANGED ModulesVars
    [] d = "files" -> UNCHANGED FilesVars
    [] d = "bch" -> UNCHANGED BchVars
    [] d = "ftl" -> UNCHANGED FtlVars
    [] d = "ir" -> UNCHANGED IrVars

\* Only d takes a step.
Only(d) == which = d /\ UNCHANGED which /\ \A e \in Names \ {d} : Still(e)

Init ==
  /\ which \in Names
  /\ N!Init /\ S!Quiet
  /\ A!Init /\ I!Init /\ R!Init /\ K!Init /\ D!Init /\ G!Init /\ T!Init /\ U!Init
  /\ C!Init /\ B!Init /\ M!Init /\ F!Init /\ H!Init /\ L!Init /\ X!Init
  /\ which = "notifier" \/ oneshot
  /\ which = "keymap" \/ toload = 1
  /\ which = "ids" \/ class = CHOOSE c \in Classes : TRUE

Next ==
  \/ Only("notifier") /\ N!Next
  \/ Only("snd") /\ S!Next
  \/ Only("automount") /\ A!Next
  \/ Only("input") /\ I!Next
  \/ Only("rc") /\ R!Next
  \/ Only("keymap") /\ K!Next
  \/ Only("ids") /\ D!Next
  \/ Only("gpio") /\ G!Next
  \/ Only("uart_tx") /\ T!Next
  \/ Only("uart_rx") /\ U!Next
  \/ Only("adc") /\ C!Next
  \/ Only("i2c") /\ B!Next
  \/ Only("modules") /\ M!Next
  \/ Only("files") /\ F!Next
  \/ Only("bch") /\ H!Next
  \/ Only("ftl") /\ L!Next
  \/ Only("ir") /\ X!Next

\* Fairness is asked only of the one that takes steps.
Fairness ==
  /\ \A f \in Files : WF_SndVars(which = "snd" /\ S!PollStep(f))
  /\ WF_SndVars(which = "snd" /\ (S!Period \/ S!SignalAvail))
  /\ WF_SndVars(which = "snd" /\ S!Callback)
  /\ \A x \in A!Contexts : WF_AutomountVars(which = "automount" /\ A!Step(x))
  /\ WF_AutomountVars(which = "automount" /\ A!Retry)
  /\ WF_AutomountVars(which = "automount" /\ told = "UMOUNT" /\ A!CloseFile)
  /\ WF_RcVars(which = "rc" /\ R!Timer)
  /\ WF_UartTxVars(which = "uart_tx" /\ (T!Writer \/ T!Drain))

vars ==
  <<which, NotifierVars, SndVars, AutomountVars, InputVars, RcVars, KeymapVars,
    IdsVars, GpioVars, UartTxVars, UartRxVars, AdcVars, I2cVars, ModulesVars, FilesVars,
    BchVars, FtlVars, IrVars>>

Spec == Init /\ [][Next]_vars
FairSpec == Spec /\ Fairness

-----------------------------------------------------------------------------
(* The properties are those of the modules, where each conjunct has its    *)
(* comment.                                                                *)

\* Every variable of every driver has its type.
TypeOK ==
  /\ which \in Names
  /\ N!TypeOK /\ S!TypeOK /\ A!TypeOK /\ I!TypeOK /\ R!TypeOK /\ K!TypeOK /\ D!TypeOK
  /\ G!TypeOK /\ T!TypeOK /\ U!TypeOK /\ C!TypeOK /\ B!TypeOK /\ M!TypeOK
  /\ F!TypeOK /\ H!TypeOK /\ L!TypeOK /\ X!TypeOK

\* An entry of the notifiers is in one hand, is not set up while it is queued, and
\* calls back once at most, with its device there; a poller of the sound core that
\* sleeps has one armed (kwork_notifier.c:217-439, snd_core.c:92-125, 493-537).
CallbacksSafe ==
  /\ N!OneHand /\ N!QueueNotWiped /\ N!CalledOnce
  /\ S!CallbackFindsDevice /\ S!SleeperIsArmed

\* No work of the automounter refers to a state that was freed, and who was told
\* MOUNT has a file system (fs_automount.c:85-145, 154-197).
AutomountSafe == A!NoStaleState /\ A!ToldTruth

\* Who reads an input device has the keys that are pressed and sees none repeat
\* that is not; the key a remote control holds is the one to be released; and its
\* table of scancodes stays within its allocation, and one given whole is taken whole
\* (input.c:177-204, 578-600, rc-main.c:207-226, 255-401, 461-488, 626-791).
KeysAgree ==
  /\ I!ReaderAgrees /\ I!RepeatsPressed /\ R!PressedIsReleased
  /\ K!EntriesFit /\ K!GivenTableFits

\* The infrared frames reported are those sent, all of them once the decoder sleeps
\* (rc-ir-raw.c:32-179, ir-nec-decoder.c:41-171).
FramesReported == X!ReportsWhatIsSent /\ X!SentIsReported

\* The UART sends the text whole, puts no byte into a full FIFO, and hands out the
\* bytes that came (uart.c:306-396, 448-597).
LinesWhole ==
  T!WireIsText /\ T!FifoTakesAll /\ U!ReadsWhatCame /\ U!OpenReceives

\* An I2C read that succeeds is whole, and once it is over no interrupt stores into
\* its buffer (hc-i2c.c:250-380, 505-518).
TransfersWhole == B!ReadIsWhole /\ B!QuietWhenFree

\* What is registered is what is there: numbers of input devices are unique, the
\* GPIO interrupt has the handler requested first, the ADC runs while it is open,
\* modules marked are up and so are those before them (input.c:298-402,
\* gpioirq.c:75-198, adc.c:129-228, module.c:63-151).
RegistriesAgree ==
  /\ D!UniqueIds /\ G!FirstIsServed /\ C!RunsWhileOpen
  /\ M!MarkedIsUp /\ M!EarlierAreUp

\* The references of an inode are those of its descriptors and of the calls under way,
\* and a file system that is bound lists the files open on it
\* (fs_open.c:48-218, fs_files.c:196-478, fs_umount.c:56-207, fs_fat32.c:308-966).
FilesHeld == F!FilesHeld

\* Buffer and medium of a block device read as a character device hold what was
\* written, the medium alone once it is closed, and it is what a read returns; a write
\* to a flash device changes no block but those it names
\* (bchlib_cache.c:112-191, bchlib_read.c:71-190, bchlib_write.c:58-188, ftl.c:244-432).
BlocksHeld ==
  /\ H!HoldsWritten /\ H!ClosedIsWritten /\ H!ReadsWritten
  /\ L!NeighboursKept /\ L!ReturnsAllWritten

\* Frames end a poll of the sound device, and a write to the UART comes to an end
\* (snd_core.c:493-537, uart.c:448-495).
CallsEnd == S!FramesEndPoll /\ T!WriteEnds

\* A disk that is there gets mounted, and one that went is unmounted and forgotten
\* (fs_automount.c:76-145, 181-197).
DisksSettle == A!PluggedIsMounted /\ A!GoneIsForgotten

\* A key of the remote control is released in the end, and by the timer not before
\* its time (rc-main.c:663-720, 784-788).
KeysReleased == R!NoEarlyRelease /\ R!PressEnds

\* The search in the table of scancodes finds for each the key it was given last, and no
\* request changes another (rc-main.c:306-401, 416-484, 511-525).
ImplementsKeyTable == K!ImplementsKeyTable
=============================================================================
