# Verification of the HCRTOS kernel

TLA+ models, TLC runs and TLAPS proofs for the HCRTOS SDK: the part of
`kernel/source` that decides which task, timer or interrupt handler may touch
what, and when. Paths below are relative to `kernel/source`; `NX` stands for
`third_party/nuttx`.

Contents: 1 the system, 2 the modules, 3 the runs, 4 fairness, 5 the proofs,
6 what is only model-checked, 7 what is not modelled, 8 findings, 9 the plan.

## 1. The system

The kernel runs on one MIPS core under FreeRTOS: preemptive tasks, a 1000 Hz
tick, interrupt handlers that nest over tasks, `taskENTER_CRITICAL` (interrupts
off) as the only lock most of this code uses. Tasks block on task notifications
(one index for completions, one for poll), event groups and mutexes.
`lib/` holds binary archives that call into the kernel.

| component | state | operations | hard behaviour | correct when |
|---|---|---|---|---|
| work queues `NX/sched/wqueue` | list of `work_s`, `worker`/`doing` marks, event bit, completions | `work_queue`, `work_cancel`, `work_process` | callbacks and interrupts requeue what is being run; event bit set outside the critical section, from an interrupt by the timer daemon; relative timeouts | list and marks agree; a job runs once per submission, on time, not after cancel; no oversleep but for a refused bit |
| completions `sched/completion.c` | `done`, list of waiters on their stacks | `wait_for_completion(_timeout)`, `complete`, `complete_all` | unlocked reads and a plain decrement; timeout against wakeup | no lost wakeup, no dangling stack entry, no return without a completion |
| kshm ring `drivers/kshm/kshm.c` | two rings of `rd`/`wt`/`reserved`, current index, record counters | `kshm_read`, `kshm_write`, `kshm_reset`, `kshm_special_reset` | reader and writer share the descriptor with no lock; records never split | records whole, once, in order, never overwritten while readable |
| log file `drivers/fileuart/fileuart.c` | byte ring, file, mount name, suspend depth, delayed work | write, flush work, mount notifications, suspend | interrupts write without the mutex; file operations fail; medium goes away | bytes in order, flush never forgotten, log closed when the medium may go |
| poll `NX/fs/vfs/fs_poll.c` | wait-queue entries, notifications | `poll`, `poll_wait`, `wake_up` | driver changes state between query and sleep; entries on the stack | no lost event, no dangling entry |
| work notifiers `NX/sched/wqueue/kwork_notifier.c` | pending and free lists of keyed entries | setup, teardown, signal | entry reused while its work runs | callback at most once, device still there, entry in one hand |
| automounter `fs/mount/fs_automount.c` | one state per disk, two delayed works | connect, disconnect, retries | no lock; state freed with a work in flight | no use after free; mounted iff connected, in the end |
| sound core `sound/snd_core.c` | device, notifier key, wait queue | open, close, poll, start/stop | poll against wakeup callback; close against callback | poller woken when frames are available |
| UART `drivers/uart/uart.c` | receive ring, transmit FIFO, completion | read, write, interrupt, open, close | interrupt against task, a wait that times out; open and close under no lock | text whole and once; bytes read are those that came |
| GPIO interrupts `drivers/gpio/gpioirq.c` | chain of handlers per pad | request, free | the interrupt keeps a pointer to one entry | handlers on the chain get called |
| I2C `drivers/i2c/hc-i2c.c` | transfer index, FIFO, flag, completion | transfer, interrupt | late interrupt after a timeout; flag set before the lock | a read that succeeds is whole |
| input core `drivers/input/input.c` | key bits, kfifo, autorepeat timer, free numbers | events, timer, read, register | timer against event; two registrations at once | no stuck key, unique numbers |
| remote control `drivers/input/rc` | scancode table, key pressed, release timer; receiver, FIFO of samples, decoder | message, repeat, timer, ioctl; interrupt, decoder thread | late timer; table changed under a key; thread going to sleep as a sample comes | the key pressed is released, once; frames reported are those sent |
| virtual file system `NX/fs`, `third_party/FatFs/source/fs_fat32.c` | descriptors, inodes and their counts, mount, list of open files | open, close, dup, dup2, mount, umount | two mutexes that cover parts of each call | counts are those of the users; no file system goes with a file open |
| block device as characters `NX/drivers/bch` | buffer of one sector, dirty mark, references | open, close, read, write, unlink | whole sectors go past the buffer; the device fails | what was written is what is read, and on the medium after close |
| flash translation `NX/drivers/mtd/ftl.c` | buffer of one erase block | read, write | part of an erase block rewritten; failure or power loss in between | no block changes but those written |
| modules, notifier chain, system data `drivers/base`; ADC `drivers/adc` | init marks, callback list; reference count | start by level, notify; open, close | a module that fails | each module started once, in order; ADC on while open |

They interact so: drivers complete and wait on completions; a delayed work is
how the log file, the automounter, the notifiers and the poll of the sound core
get off interrupt level; the automounter's notifications open and close the log
file, which holds a file of the file system the automounter wants to unmount;
poll is woken by drivers, in the sound core through a notifier and its work; the
decoder thread of the remote control reports scancodes to the key logic, which
looks them up in the table and reports keys to the input core.
`PROJECT.json` lists every component with its files, and under `hazards` each
place where this code can go wrong in a way a test would hardly reach.

## 2. The modules

| module | models | module | models |
|---|---|---|---|
| `Lists` | intrusive lists as sequences | `RemoteKeys` | key press, repeat and release of a remote control |
| `CompletionOps` | a `struct completion` and its critical sections | `Keymap` | the sorted table of scancodes |
| `WorkQueue` | one work queue with its worker thread | `KeyTable` | abstract: a function from scancodes to keys, changed by requests |
| `WorkSlots` | abstract: each work a slot with at most one job | `IrReceiver` | from light to scancodes: receiver, FIFO, decoder thread, NEC decoder |
| `Completion` | one completion, waiters step by step | `GpioIrq` | the handlers of one pad |
| `Kshm` | one kshm channel, reader and writer step by step | `UartTx`, `UartRx` | writing to and reading from the UART |
| `RecordFifo` | abstract: a queue of records | `AdcOpen` | references of the ADC |
| `FileUart` | the log file and its flush work | `I2cRead` | an I2C read, polled or by interrupt |
| `ByteLog` | abstract: a bounded buffer that drops its oldest byte | `ModuleStart` | starting and stopping modules |
| `PollWait` | `poll` and `wake_up` over abstract drivers | `FileTable` | descriptors, inodes, one mount point with FAT |
| `Notifier` | work notifiers | `Bch` | a block device as a character device |
| `SndPoll` | the sound core's poll, over `Notifier` | `Ftl` | a flash device as a block device |
| `Automount` | one disk of the automounter | `Drivers` | all the drivers from `Notifier` on, side by side |
| `Input`, `InputIds` | key events of a device; numbers of devices | `MC*`, `*_proofs` | TLC instances; theorems and lemmas |

State variables keep the names of the fields and locals they stand for (`done`,
`tx_count` as `count`, `_qproc != NULL` as `hooking`); every action says in its
comment which statement or function it is. Operators whose comment begins
"Fault:" are not part of a model: each is one definition as a plausible mistake
would have it, used to confirm that a property notices that mistake. Variables
whose comment begins "history" are read by properties only.

**Granularity.** What a critical section does is one action. Outside critical
sections an action has at most one access to shared state that another context
could observe: `done--`, `refcnt++` and `bitmap &= ...` are a load and a store,
`xEventGroupSetBits` is apart from the queueing before it. Where a mutex excludes every other user the split
is as fine as those it does not exclude (interrupt handlers) can tell.

**The board.** `Drivers` instantiates the seventeen driver modules under their own
variables. But for the sound core, whose module has the variables of the
notifiers it arms, no two share state, and in the code none of these drivers
waits for another; so a behaviour of the board is one of each driver, and it is
enough to let one of them take steps. `which` chooses it in the beginning.
This is a composition without interaction: its use is that a theorem or run
about the board is one about every driver. The compositions with interaction
are `SndPoll` (poller, notifier, work and callback) and `Automount` (disk
driver, thread of the works, holder of files).

**WorkQueue.** `work_process` is `StartPass`, `WorkDone` (each a scan up to the
next ready entry or to the end, in one critical section), `PassComplete`, and
the wait (`Block`, `WaitReturns`). The clock is replaced by the time every
entry has left; `next` counts down while the thread waits. `slip` counts the
ticks between scan and wait, during which the timeout in hand gets stale.
A caller may be a task, an interrupt handler (which sees the thread-local
"own work" pointer of whatever it interrupts) or the worker thread itself from
a callback. A task sets the event bit itself. An interrupt handler calls
`xEventGroupSetBitsFromISR`, which puts a command in the queue of the timer
daemon: `DaemonSets` is the daemon, taking one, and when that queue is full the
call returns pdFAIL, which `work_queue` does not look at. `wake` is a history
variable: it says of each work queued since the scan whether its wakeup is due
or was refused.

**Completion.** `pc` names the place in `wait_for_completion_timeout`. `credit`
is a history variable: the calls of `complete` no wait has answered.
`init_completion` is taken only while nobody waits, as the drivers use it.

**Kshm.** The buffer is a function from cache lines to the record each belongs
to; a record's content is the size of the next one, which is how a reader comes
to ask for the right size. The locals `index`, `wt`, `rd` of
`kshm_request_read` are loaded one at a time; the writer's accesses are split
where it stores.

**FileUart.** A write is of one byte. `Settled` is the refinement mapping: the
ring as it will be once the step under way is through.

**PollWait.** `Arrive` and `WakeUp` are the two halves of a driver; other files
and their events are sets. `Inline` is the number of entries kept on the stack,
beyond which the allocation may fail.

**Notifier, SndPoll.** A notifier is on the heap, free, held by its client,
pending, queued or running. `SndPoll` adds to it one polling task per open file,
which arms a notifier and sleeps, a driver that makes frames available and then
signals, and the callback, split at its `wake_up` and its store of `ntkey`.

**Automount.** Two contexts, the task of the bus driver and the thread of the
works, each at a place in mount or umount with the state it works on. `held`
stands for all files open on the disk.

**Input, RemoteKeys.** A timer that expires and its handler are two steps, so
that a handler may run after its timer was stopped. `kfifo_put` is split at its
load of `in`; an ioctl may change the table at any time. Time is in ticks. A
driver reports any key with any value, a press of a pressed key, a release of a
released one and repeats of its own among them, as `input_get_disposition` passes
all of them on.

**InputIds.** Two tasks, each somewhere in registering or unregistering a device:
the number is found, then the bitmap loaded, then stored; so it is on the way
back. When no bit is set the number is `ffs(0) - 1 = -1` and the device is
registered with it. The three bitmaps (event, mouse, kbd) are independent; `class`
chooses the one followed, as only that of the event devices is given back inverted.

**Keymap, KeyTable.** `KeyTable` promises that a request that is granted gives the
one scancode it names the one key it names and leaves all others, and that one
refused leaves the table as it is. The request is part of its state, and in
`Keymap` a history variable set from the arguments of the call (for a change by
index, from the scancode of the entry at that index).

**IrReceiver.** The sender is external: whole or cut frames, a pulse a little too
long or a space a little too short. The receiver cuts what it sees into samples;
`rc-ir-raw.c` merges them and queues them; the thread takes one at a time or goes to
sleep in its three steps (finds nothing, declares itself asleep, looks again);
the NEC decoder is its state machine. A byte has `ByteLen` bits.

**UartTx, UartRx, I2cRead.** The hardware FIFOs are external: a level that drains
or fills. Every interrupt may come between any two steps of the task. In `UartRx`
two tasks open and close: the test of `refcnt`, the ring, the reset with the
handler, and `refcnt++` as a load and a store are steps of their own, and so are
`refcnt--`, the removal of the handler and the freeing of the ring. `collided`
says that a call began while another was under way.

**FileTable.** One mount point on one block driver, tasks that open, close,
duplicate (dup2 also onto a free number), mount and unmount; fat_dup fails on a
medium that is gone and for want of memory. What the inode mutex covers is one
step, except unmount, in whose middle other calls go on. `FilesHeld` compares each
count with those who could name a reference of theirs; `abandoned` counts the files
whose descriptor somebody else's close cleared, which nobody can name any more.
`ClosesItsOwn`, checked by itself in `MCFileTable`, says that this does not happen.

**Bch, Ftl.** Calls to `Bch` hold its semaphore and are one action; the device
below may fail. When a write to it fails, the sectors written and the others of
their erase blocks may hold anything (`Ruin`), since `ftl.c` erases a block before it
rewrites it; when a read fails, so may the buffer, which has the new number all the
same. In `Ftl` each access to the flash is one step after which it may
fail, or the power may go.

## 3. The runs

| run | bounds | checks |
|---|---|---|
| `workqueue` | 2 works, 1 job, the worker thread, a task and an interrupt handler as callers, delays up to 2, room for 1 command of the timer daemon | types, `QueueMatchesWorker`, `DoingIsRunning`, `NoOversleep`, `ImplementsSlots`, `QueuedWorkRuns` |
| `completion` | 1 waiter, `done` up to 4, 3 unanswered completes | types, `AssertHolds`, `SleeperReachable`, `NoSpuriousReturn`, `NoDanglingWaiter`, `WaiterReturns` |
| `completion_assert` | 2 waiters | expected violation of `AssertHolds` |
| `kshm` | 5 lines of 2 bytes, records of 1 and 5 bytes (1 and 3 lines, so rounding shows) | types, `NoOverwrite`, `ParityAgrees`, `ImplementsFifo`, `WriterProgress` |
| `fileuart` | ring of 2, 2 byte values, 2 tasks and interrupt handlers, 2 mounts, suspended once | types, `ClosedWhenItMust`, `NotForgotten`, `ImplementsLog`, `FlushTried` |
| `poll` | 2 pollers, 2 files, 1 inline entry, timeouts 0 and infinite | types, `NoLostEvent`, `NoDanglingEntry` |
| `poll_live` | 2 pollers, 1 file, 1 closed descriptor, timeouts 0, 1 and infinite | `PollEnds` |
| `poll_timeout` | 1 poller | expected violation of `BlocksAtMostTimeout` |
| `files_close` | 2 tasks, 2 descriptors | expected violation of `ClosesItsOwn` |
| `drivers` | see below | the properties of the board, below |
| `snd_hang` | 1 file, 2 notifier entries | expected violation of `SleepsUntilFrames` |
| `gpio_free` | 2 handlers | expected violation of `NoMoreIrq` |

The properties of the board name those of its drivers:

| property | drivers | what it says |
|---|---|---|
| `CallbacksSafe` | notifiers, sound | an entry is in one hand, is not wiped while queued, calls back once at most with its device there; a sleeping poller has one armed |
| `AutomountSafe`, `DisksSettle` | automounter | no work refers to a freed state, who was told MOUNT has a file system; a disk gets mounted, one that went is forgotten |
| `KeysAgree`, `KeysReleased` | input, remote, key table | readers know the keys pressed; the key released is the one pressed, in the end and not early; the table of scancodes stays in its allocation, and one given whole is taken whole |
| `FramesReported` | receiver | the scancodes reported are those sent, all of them once the thread sleeps |
| `ImplementsKeyTable` | key table | a search of the sorted array finds what the last request granted for the scancode gave it; no request touches another |
| `LinesWhole`, `CallsEnd` | UART, sound | text on the wire once and in order, ring read in order; an open file has its ring and handler, and the last close leaves neither; writes end, frames end a poll |
| `TransfersWhole` | I2C | a read that succeeds has every byte in place, and no interrupt is left that could store into its buffer |
| `RegistriesAgree` | device numbers, GPIO, ADC, modules | what is registered is what is there |
| `FilesHeld` | descriptors, inodes, mount | each count is the number of those who hold a reference, also after a close has cleared what an open was given; a file system stays bound while a file is open |
| `BlocksHeld` | bch, ftl | buffer and medium hold what was written but where a write failed, and a read returns it; a write to flash changes the blocks it names only |

Many of these have an exception, written as a history variable in the
property (`raced`, `flagged`, `cut`, `pulled`, `clobbered`, `trampled`, `collided`,
`crossed`, `refused`, ...): each is a defect or a limit of the code that section 8
notes, and the property says that there is no other.

`CallsEnd` and the second half of `DisksSettle` have the form "again and again this is
over" instead of "whenever it begins it ends": it implies the latter, and TLC checks it
with less work.

Why the bounds suffice to meet the cases of interest:

- *workqueue*: two works are needed for one to requeue while the other runs and
  for the order of the list to matter; a delay of 2 lets one delay run out during
  a callback and another not. An interrupt handler has every choice a task has
  (it may see the own-work pointer or not) but sets the bit through the daemon, so
  there is one caller of each kind. With room for one command a second submission
  finds the queue of the daemon full before the daemon has run.
- *completion*: saturation (`DoneMax`) is reached, by `complete` and by
  `complete_all`; two waiters are what the assertion needs to fail.
- *kshm*: with 5 lines and records of 1 and 3 a record can end exactly at the
  end of the buffer, leave a gap there, fill the head, and force the switch to the
  second ring.
- *fileuart*: the ring wraps and overflows; a flush takes two chunks when it has
  wrapped. `SyncBytes` is small enough that fsync happens. `ImplementsLog` follows
  the contents until an interrupt handler has written, after which the log may
  lose bytes; the others hold on.
- *poll*: the second of two files is queried after the first had an event (so that
  no entry is left), and one file more than fits inline lets an allocation fail.
  Pollers and files are interchangeable, so `poll`, which has no temporal
  property, uses symmetry.
- *drivers*: two of everything that can race: files of the sound core over two
  entries, so that entries are reused; automounter states, so that a freed one is
  told from a new one; handlers (three: one freed between two); tasks for I2C and
  for files, with two inodes, so that a mount point comes back on another inode.
  The transmit FIFO is shorter than the text plus its carriage returns; the
  receive ring of two wraps and overruns, and of two tasks that open and close each
  may meet the other at every step (once they have, an open is begun only with no
  other call under way); two devices over two numbers use them up; one I2C read is shorter than the FIFO, the other
  fills it (the theorem is for any lengths).
  The key table starts at its least size and must double twice. A file of two
  sectors has a first, a whole and a last part. Two erase blocks of four blocks
  let a write begin and end inside one. A remote control sends two scancodes, one of
  them with either toggle bit. A byte of two bits keeps the three
  variants of NEC apart, with each complement right and wrong; a raw FIFO of
  two is often full. The erase block under `Bch` is both sectors, so that a failed
  write of one spoils the other; of the accesses a call makes at most one kind
  (flush, first part, whole sectors, last part) fails.
- *files_close*: a close, and an open between its two stores, are all it takes.

All bounds on counters are in guards or saturating: `MaxDelay`, `DoneMax`
(`UINT_MAX`), `MaxCredit`, `MaxDepth`, `SyncBytes`, `MaxTimeout`, `MaxRetries`,
`MaxIsr`, `MaxText`, `MaxRef`, `MaxOpens`, `MaxId`, `MaxFiles`, `MaxAbandoned`,
`TimerQueueLength` (a configured length); the calls of a
notifier are counted to 2; `Ftl` loses at most one erase block at a time (`Lose`).
No run disables the deadlock check: where a model follows a history no further
(`FileTable` after a mishap) it says so by an explicit stutter.

## 4. Fairness

FreeRTOS schedules by priority; a ready task runs once those above it block.
The liveness properties assume no more than that each gets its turn:

- the worker thread (`Thread`), a task inside `work_queue`, a waiter or poller
  that is not blocked, a reader or writer that retries: weak fairness;
- the tick interrupt, and the timer daemon while its queue has commands: weak
  fairness;
- the return of a callback (`WorkDone`): strong, because it is disabled while
  the callback is inside `work_queue` itself; this says that callbacks return;
- the flush work taking its mutex: strong, since others take and give it again
  and again and FreeRTOS queues waiters by priority and arrival;
- a driver that changed its state calls `wake_up`: weak;
- on the board, weak, each for its own driver: the poller of the sound core, the
  period interrupt and its signal, the callback of the work; the two contexts of
  the automounter, the thread that takes a retry, and the closing of files by
  those told of an unmount (`FileUart!ClosedWhenItMust` shows it of the log);
  the ticks and timer of the remote control; the writer of the UART and the
  draining of its FIFO.

No fairness is assumed of callers, `complete`, arrivals, mounts, presses, events
of the bus, or failures. Where progress depends on those, the property says so
("unless it is queued again and again").

## 5. The proofs

For all values of the constants under their named assumptions:

- `WorkQueue_proofs`. `IInv` conjoins `TypeOK`, `QueueMatchesWorker`,
  `DoingIsRunning` and "a running callback has a work". Neither half is
  inductive alone: taking an entry off by `dq_rem` is only right if it is on the
  list, which the worker field tells only if the marks are right, and the marks
  stay right only because what is picked leaves the list. `NoOversleep` is
  strengthened to `SleepBound`, which holds from the end of the scan on: an entry has
  been counted into `next`, or its wakeup was refused, or it is due, and then the bit is
  set or somebody (a caller, the timer daemon) is about to set it.
  `SpecImplementsSlots` is the refinement: slots are the worker fields, a
  running job is the callback under way; each step is a slot step or a stutter.
- `Completion_proofs`. `SpecTypeOK` and `SpecNoDanglingWaiter` for any number of
  waiters, from the list being without repetition. `SpecAssertHolds`,
  `SpecSleeperReachable` and `SpecNoSpuriousReturn` for one waiter (the use the
  drivers make of completions): `SInv` says that it is on the list exactly while
  there is no token it has seen, and notified of any that came after it looked;
  `Tokens` that the value loaded by the decrement is still covered by `credit`
  whatever posts before the store. `completion_assert` shows that with two waiters
  the claim is false.
- `PollWait_proofs`. `SpecTypeOK`, `SpecNoDanglingEntry` and `SpecNoLostEvent`. The
  invariant has three parts: locals are what their place in `poll` makes them
  (`LocalsOK`); entries are on queues of files that a call under way has
  already visited (`Hooked`); and an event at a file with an entry in place is
  either going to be announced or has left a notification (`Announced`).
- `FileUart_proofs`. `SpecTypeOK`, `SpecClosedWhenItMust` and `SpecNotForgotten`, with
  interrupt handlers that write between any two steps. Who may be where under
  the mutex (`Mutex`), what the flush has in hand is not more than the ring can
  hold (`Amounts`), and an open log has its mount and is not suspended (`OpenAwake`).
  `SpecImplementsLog` is the refinement, while no handler writes: `RingCounted` says
  how far each index is ahead of the others in the middle of a step (`wt` lies
  `count` behind `rd`, one more once a byte is stored, `written` less once `rd` is);
  it is what makes storing the byte the one step that adds to `Settled`, the write
  to the file the one that takes from it, and the stores of the indices stutters.
  The contents need no induction: four lemmas (`HeldPut`, `HeldPush`, `HeldFirst`,
  `HeldRest`) say what a store or a move of an index does to the bytes held.
- `Drivers_proofs` and `Input_proofs`: the board, one inductive invariant per
  driver; the second has the input devices, from `SpecKeysAgree` on. `OneMoves` says
  that a step of the board is a step of one driver.
  - `SpecRegistriesAgree`. `IdsInv`: while calls do not overlap, number and bitmap are
    complements but for the one whose bit the call under way is about to take or give;
    `AdcInv`;
    `GpioInv`: the entry the interrupt starts from is on the chain, with nothing but
    newer ones before it; `ModulesInv`: the walk has marked what lies behind it.
  - `SpecAutomountSafe`, for any number of states and retries: until an event meets
    a retry, only one context works on a disk that is leaving, what is queued refers
    to the state on the list, and the marks of a state are those of the disk
    (`Leaving`, `RefsListed`, `OneLeaves`, `MarksTrue`).
  - `SpecCallbacksSafe`. `NotifierInv`: each entry is in one hand (`Hands`), and what is
    on its way to a callback has a key no other has (`OnTheWay`). `SndInv` ties the key
    an open device remembers to the entry it armed, at every place between arming,
    signal, callback and close (`KeysApart`, `PollInv`), until the device is closed
    with its callback under way.
  - `SpecFilesHeld`, for any finite sets of descriptors and tasks. A count is a
    cardinality, so the invariant says which descriptors and which calls hold each
    inode (`FilesOwned`), where each call under way is (`FilesCalls`) and which inodes
    are in the tree (`FilesTree`); a step adds one holder or takes one away, and
    `OneMore` turns that into one more or less. A close that clears a descriptor an
    open was given turns its file from one held into one abandoned.
  - `SpecNoEarlyRelease`, an action property: the timer releases a key only when no
    message of it came within the timeout (`RcInv`).
  - `SpecTransfersWhole`, for any lengths, FIFO depth and number of tasks: what the
    buffer and the FIFO hold is, in order, what the device sent (`Behind`, `Stored`),
    whoever of task and interrupt handler took it, as long as the flag is that of the
    transfer (`FlagKept`, `BytesKept`).
  - `SpecLinesWhole`. `TxInv`: wire and FIFO together are a prefix of the text with its
    carriage returns, and the place in the text is the length of that prefix
    (`TxText`, `TxSent`, `TxFifo`). `RxInv`: the ring from `rd` to `wt` is what came and
    was not read, whoever opens and closes; and, until two calls meet (`RxLife`), `refcnt`,
    ring and handler are what the files open and the place of the one call under way
    make them (`Stage`).
  - `SpecBlocksHeld`. `BchInv`: buffer and medium together are what was written
    (`Caches`), but for the places of each that are known to have gone wrong (`behind`,
    `spoiled`), through the first part, whole sectors and the last part of a call, any
    of which may fail (`BchPieces`); that a read returns it is the same argument
    (`BchReads`). `FtlInv`: the buffer of the erase block is that block with what is
    written laid over it (`Underway`, `Buffered`).
  - `SpecKeysAgree`. `InputInv`: replaying the events of the FIFO from where the reader
    stands gives the keys pressed, also between the load and the store of `in`
    (`Replay...`), with events repeated at will; `RcInv`; `KeymapInv`: length,
    allocation and loading of the table.
  - `SpecImplementsKeyTable` is a refinement: the search by halving is a function from
    scancodes to keys, which each step changes as the request it carries out says. The
    invariant is the order of the entries (`KeymapOrdered`); `Keyed` relates them to the
    one function that has their keys. What halving finds needs no induction over data:
    the entry between two bounds is a solution of its recursion (`FoundInHalves`), and
    there is one solution, as the bounds where two differ would have a least interval
    (`HalvingOnce`, from the order of finite sets by inclusion being well-founded).
  - `SpecFramesReported`, for any codes, samples and length of a byte. `IrInv`: every
    event in the FIFO, in the hand of the thread or still to come from the runs on the
    air carries a label, the frame it belongs to, its place in it and whether it is a
    pulse or a space (`Marked`, `Labels`); the frame on the air is numbered from its end
    (`Flying`); the decoder's state is the place of the first of them (`DecoderAt`,
    `Heard`), so that what is still to be reported are the frames that are whole among
    them; and the thread is awake while the FIFO has any (`Awake`).
  - `SpecTypeOK`: the types of all the drivers. For those whose invariant ends at a
    mishap of the code (`FilesTyped`, `I2cBounds`, ...) the bounds are proved apart,
    and hold after it as well. `IrTyped` is the receiver, its FIFO and its decoder.
- `Kshm_proofs`. `SpecTypeOK`, `SpecNoOverwrite`, `SpecParityAgrees` and the refinement
  `SpecImplementsFifo`, for any buffer, rounding and record sizes. The inductive
  invariant says where the unread records are: one after the other, each on a
  boundary of lines, from `rd` to `wt`, with at most one gap, at the end of the
  buffer, which the reader will skip because the next record does not fit there
  (`Placed`, `Linked`); that the lines of each hold it (`Stored`); that the place the
  writer was given is free until it stores `wt` (`Writing`), although the reader
  goes on meanwhile; what the reader's stale copies of `index`, `wt` and `rd` are still
  worth (`Reading`); and that the parities alternate along the records (`Parity`).
  `NoOverwrite` alone is not inductive: it does not say where the gap is, and
  so not which lines become free when `rd` moves. Contents are not an induction
  here: copying out takes the head of a sequence, storing `wt` appends to it.
- `Lists_proofs`. What removing and appending do to membership and repetition.

The assumptions: `DoneMaxAssumption`, `CompletionAssumption`,
`FileUartAssumption` and `PollAssumption` (bounds are numbers, sizes positive,
NULL nothing else), `WorkQueueAssumption` (the worker thread is no interrupt
handler), `KshmAssumption` (a record with its rounding is shorter than the
buffer); and of the board, `DriversAssumption`, `LineAssumption`, `BlockAssumption`
and `FlashAssumption` (numbers, sizes positive, NULL none of the values it could be
taken for), `NotifierAssumption` (the sound core uses some of the keys and one of
the events), `InputAssumption` (scancodes are numbers, a table of them is given with
no more entries than one can have, and the largest size is a power of two),
`InfraredAssumption` (a pulse or a space differs from its length by at most one
sample's resolution; the receiver waits longer than any space within a frame and
less than `rc-ir-raw.c` does, 24 ms against 125 ms in `hc_rc.c`; what is sent is a code
of its variant, not one whose bytes make it a code of another), `FilesAssumption`
(finitely many descriptors and tasks).

## 6. Only model-checked

- Liveness (`QueuedWorkRuns`, `WaiterReturns`, `WriterProgress`, `FlushTried`,
  `PollEnds`, `CallsEnd`, `DisksSettle`, and of `KeysReleased` that a press ends):
  fairness and ENABLED are beyond the prover.

## 7. Not modelled

Of the components that are modelled:

- *work queues*: `flush_work`, `alloc_workqueue` and timers are in the binary
  `liblnx.a`, so a task that waits for a work is only modelled as the completion it
  waits on; pools of more than one thread (the configuration has one).
- *kshm*: allocation, a DMA channel that is not found, records as large as
  the buffer, and a reset while a side is inside a call. Cache contents: only the
  parity that decides flush and invalidate.
- *poll*: negative timeouts other than -1; `wait_event_timeout` and the wait-queue
  users that sleep by suspension.
- *notifiers*: keys that wrap within the life of one notifier.
- *sound core*: the transfers themselves and the platform driver (a binary archive).
- *base drivers*: two tasks in `module_init` at once (nothing is locked, and the
  boot calls it from one); the notifier chain, whose use is one critical section;
  system data.
- *UART*: output through a GPIO, ioctl; the list of instances and their wait queues
  (after an open has left a freed one in it, `dangling`, nothing more is opened). *I2C*: writes of more than an address.
  *SPI*: transfers of the same form as those of I2C.
- *input core*: absolute and multi-touch axes, other event types; two tasks that report
  to one device; what comes after an event was lost or trampled on.
- *remote control*: the decoders of other protocols (each a state machine of the
  same form as NEC's), raw handlers that come and go, `change_protocol`, the software
  timeout (`dev->timeout` is longer than any space of a frame).
- *files*: what a dup does through a descriptor that a close has cleared (it reads
  through NULL); directories, links, rename, pseudo-files, a descriptor table that grows,
  forced unmount, file systems other than FAT, contents and offsets.
- *bch, ftl*: positions, ioctl; a device that reads or writes fewer sectors than asked
  for without saying so, two kinds of access that fail in one call; the write buffer of ftl, two writers at once (the
  block layer that would serialise them is not in the sources), unlink.

Whole components: epoll (a table of descriptors over `poll`, whose state is that table and
whose defects section 8 notes; left for later); hardware spinlocks
(one device register, shared with a processor this configuration does not start);
the SMBR partition reader (sequential parsing); video framebuffer, LCD, touch panels,
PWM, pins, clocks, audio platforms, graphics engine (register programming);
memory-technology devices, FreeRTOS, FatFs, zlib, lzma, easylogger and Linux
headers (vendored); the console, the C library glue and heap; binary archives.
`PROJECT.json` gives the reason for each.

Most lines of the repository are of these kinds: the vendored kernels and
headers alone are far more than the drivers modelled here.

## 8. Findings

1. `sched/completion.c:59`: two waiters on one completion can make the assertion
   fail; with assertions off `done` wraps to the `complete_all` mark.
   Run `completion_assert`.
2. `NX/fs/vfs/fs_poll.c:274`: wakeups without an event restart the full timeout; the
   documentation at 297 calls it an upper limit. Run `poll_timeout`.
3. `NX/fs/vfs/fs_files.c:514-522`: `nx_close` assumes that "Caller holds the list semaphore
   because the file descriptor will be freed" (471-473); `close` does not take it. It
   clears `f_inode`, which frees the descriptor, before `f_priv` (`fs_close.c:82`), so that
   it can clear the file an open was given meanwhile. Run `files_close`. `FilesHeld`
   goes on after it, with the file counted as abandoned.
4. `sound/snd_core.c:497`: the callback wakes the poller before it clears `ntkey`; a
   poller that runs at once takes the spent notifier for an armed one and sleeps
   with nobody to wake it. Run `snd_hang`.
5. `drivers/gpio/gpioirq.c:186`: once a handler is freed, the interrupt that was
   installed with its entry is served from freed memory, or not at all.
   Run `gpio_free`.

Noted, against what a comment says, with no run of their own; the properties name
them as exceptions or the models show them:

- *Works.* "All queued work will be performed" (`kwork_queue.c:112-114`), after a delay
  where zero "means to perform the work immediately" (131-132): a submission from an
  interrupt whose bit the timer daemon's queue has no room for returns OK, and the
  thread sleeps on until something else wakes it (`refused`).
- *Input.* The handler of the timer takes `event_lock` "to avoid racing with input_event
  which may cause keys get "stuck"" (`input.c:573-577`); `input_event` does not take it,
  so that the handler may run inside a `kfifo_put`, which needs "only one concurrent
  reader and one concurrent writer" (`kfifo.h:401-403`), or between the bit of a press
  and its event (`trampled`).
- *ADC.* "Increment the count of references to the device" (`adc.c:132-135`): only the
  first open does, so that with a second one the first close turns the ADC off (`twice`).
- *bch.* A read is "as if it were a character device" (`bchlib_read.c:66-67`): one of whole
  sectors goes past a dirty buffer (149) and returns what was there before (`Past`), where
  the partial paths flush first. "The sector is now in sync with the media"
  (`bchlib_cache.c:147`): also when the flush failed, so that close returns with the data
  in no place but the buffer (`spoiled`).
- *poll.* EBADF for a bad descriptor (`fs_poll.c:306`): `nx_poll` returns -1 already, and 328
  makes errno 1 of it.

Noted, with no document to contradict:

- *Completions, works.* A `complete` between the load and the store of `done--` is
  lost. A work requeued from its own callback completes `done` and initialises it
  again at once (`kwork_queue.c:102`); a work cancelled in the queue never completes
  it (`kwork_cancel.c:87`): a task that flushes either may sleep on.
- *kshm.* An empty ring refuses for ever a record exactly as long as its head when
  the tail is shorter (`Hole`); the parities part when the rings are switched between
  the two stores of `kshm_update_read`; `kshm_write` returns the size when no DMA
  channel was found (480).
- *Log file.* Its indices drift apart when interrupts write.
- *Automounter.* A connect or disconnect during a retry (`raced`), or a connect
  while an unmount is to be retried (`again`), leaves a work with a freed state or a
  MOUNT announced for a file system that then goes.
- *Sound.* `snd_close` after the signal frees the device under its callback.
- *UART.* Open and close are under no lock: two first opens allocate two rings and lose
  one, a close that meets an open frees the ring under it, and the count may lose either
  (`collided`); an open that fails for want of the ring leaves freed memory on the list of
  instances (`uart.c:556-561`, `dangling`); ring indices survive a reopen, and bytes unread
  are then others (`leftover`); a read may return 1 without a byte.
- *I2C.* `eddc_flag` is set before the lock (`flagged`); after ten failed attempts the
  interrupt stays enabled (`gave_up`); a polled read that ends for want of bytes
  reports success (`hc-i2c.c:369-377`, `cut`).
- *GPIO.* Handlers requested later are put in front of the entry from which the
  interrupt starts, and are not reached.
- *Input.* `bitmap |= ~BIT(id)` (`input.c:379`) frees every number but the one given
  back (`withdrawn`); with no number left a device is registered as -1 (`exhausted`); a number
  is found, taken and given back with no lock, so that two devices may get one
  (`crossed`).
- *Remote control.* A scancode remapped while held releases the wrong key; a table with
  a scancode twice may fail to register; a frame cut after its first bit looks like a
  repeat of the extended variant; `hc_rc_init` leaks on failure.
- *Files.* dup2 writes to a slot that may have been given away meanwhile (`clobbered`);
  open and umount call through operations that an unmount may have cleared (`pulled`);
  fat_unbind stops the file system before it finds it busy (`fs_fat32.c:906-938`);
  `files_extend` frees the table it has just published when a later row cannot be
  allocated (`fs_files.c`); a bind that fails reads an inode already freed
  (`fs_mount.c:510`).
- *bch.* A write of whole sectors past the buffer leaves it valid with the old bytes
  (`bchlib_write.c:146`, `behind`); a read that fails leaves old bytes under a new number
  (`bchlib_cache.c:184`); two opens of a device by path have two buffers.
- *ftl.* Failure or power loss between erase and rewrite loses the neighbours
  of what was written; the buffer of the erase block is shared without a lock.
- *epoll.* `poll[0].fd` is never set; with timeout 0 the result is uninitialised
  (`fs_epoll.c:407-412`); the reference count is tested after the semaphore is posted.

## 9. The plan

What would add most next:

1. `Automount`, `FileUart` and `FileTable` composed: the log holds the file that the
   unmount waits for.
2. Tasks in `flush_work` over `WorkQueue`'s operators, once `liblnx.a` has a source.
3. The write buffer of `Ftl`, and two callers at once over a block layer.
4. I2C writes and the rest of the UART (ioctl, GPIO output).
