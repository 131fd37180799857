------------------------------ MODULE InputIds ------------------------------
(***************************************************************************)
(* The numbers of the /dev/input nodes, drivers/input/input.c: one bitmap  *)
(* of free numbers for each class of devices, the lowest of which a new    *)
(* device gets.  The bitmaps are under no lock and have nothing to do with *)
(* each other: the class that is followed is chosen in the beginning.      *)
(***************************************************************************)
EXTENDS Integers, FiniteSets

CONSTANTS
  Classes,    \* with a bitmap each: event, mouse, kbd
  Devs,       \* devices of a class
  Tasks,      \* that register and unregister them
  MaxId,      \* 31
  NULL

EventClass == "event"

VARIABLES
  class,      \* the class followed
  bitmap,     \* the numbers whose bit is set
  devid,      \* dev->id while registered, else NULL
  at_id,      \* where each task is in registering or unregistering
  id_dev,     \* with which device, else NULL
  id_image,   \* the bitmap as it loaded it
  withdrawn,  \* history: a device was unregistered while others stayed
  exhausted,  \* history: a device was registered with no number left
  crossed     \* history: a call began while another was under way

vars == <<class, bitmap, devid, at_id, id_dev, id_image, withdrawn, exhausted, crossed>>

Ids == 0..MaxId
None == -1

TypeOK ==
  /\ class \in Classes
  /\ bitmap \in SUBSET Ids
  /\ devid \in [Devs -> Ids \cup {None, NULL}]
  /\ at_id \in [Tasks -> {"idle", "take", "taking", "giving"}]
  /\ id_dev \in [Tasks -> Devs \cup {NULL}]
  /\ id_image \in [Tasks -> SUBSET Ids]
  /\ withdrawn \in BOOLEAN /\ exhausted \in BOOLEAN /\ crossed \in BOOLEAN

Init ==
  /\ class \in Classes
  /\ bitmap = Ids
  /\ devid = [d \in Devs |-> NULL]
  /\ at_id = [t \in Tasks |-> "idle"]
  /\ id_dev = [t \in Tasks |-> NULL]
  /\ id_image = [t \in Tasks |-> {}]
  /\ withdrawn = FALSE /\ exhausted = FALSE /\ crossed = FALSE

\* ffs(bitmap) - 1, in a set by itself
Lowest(S) == IF S = {} THEN {None} ELSE {i \in S : \A j \in S : i <= j}

\* The bit of BIT(i); a shift by -1 goes round, as the processor shifts.
Bit(i) == IF i = None THEN MaxId ELSE i

Begins(t, d, a) ==
  /\ at_id[t] = "idle" /\ \A u \in Tasks : id_dev[u] # d
  /\ at_id' = [at_id EXCEPT ![t] = a]
  /\ id_dev' = [id_dev EXCEPT ![t] = d]
  /\ crossed' = (crossed \/ \E u \in Tasks : at_id[u] # "idle")

Ends(t) ==
  /\ at_id' = [at_id EXCEPT ![t] = "idle"]
  /\ id_dev' = [id_dev EXCEPT ![t] = NULL]
  /\ id_image' = [id_image EXCEPT ![t] = {}]
  /\ UNCHANGED <<class, withdrawn, exhausted, crossed>>

\* input_register_device, _mouse_device and _kbd_device look for a number.
Find(t, d) ==
  /\ devid[d] = NULL
  /\ Begins(t, d, "take")
  /\ \E i \in Lowest(bitmap) : devid' = [devid EXCEPT ![d] = i]
  /\ exhausted' = (exhausted \/ bitmap = {})
  /\ UNCHANGED <<class, bitmap, id_image, withdrawn>>

\* And take it: &= is a load and a store.
TakeLoad(t) ==
  /\ at_id[t] = "take"
  /\ at_id' = [at_id EXCEPT ![t] = "taking"]
  /\ id_image' = [id_image EXCEPT ![t] = bitmap]
  /\ UNCHANGED <<class, bitmap, devid, id_dev, withdrawn, exhausted, crossed>>

TakeStore(t) ==
  /\ at_id[t] = "taking"
  /\ bitmap' = id_image[t] \ {Bit(devid[id_dev[t]])}
  /\ Ends(t)
  /\ UNCHANGED devid

Others(d) == {x \in Devs \ {d} : devid[x] # NULL}

\* Fault: as input_unregister_device has it, for every class.
GivenBackInverted(S, i) == S \cup (Ids \ {Bit(i)})

\* input_unregister_device puts back every number but its own.
GivenBack(S, i) == S \cup (IF class = EventClass THEN Ids \ {Bit(i)} ELSE {Bit(i)})

\* The node is gone, and the bitmap loaded.
GiveLoad(t, d) ==
  /\ devid[d] # NULL
  /\ Begins(t, d, "giving")
  /\ id_image' = [id_image EXCEPT ![t] = bitmap]
  /\ withdrawn' = (withdrawn \/ Others(d) # {})
  /\ UNCHANGED <<class, bitmap, devid, exhausted>>

GiveStore(t) ==
  /\ at_id[t] = "giving"
  /\ bitmap' = GivenBack(id_image[t], devid[id_dev[t]])
  /\ devid' = [devid EXCEPT ![id_dev[t]] = NULL]
  /\ Ends(t)

Next ==
  \E t \in Tasks :
    \/ \E d \in Devs : Find(t, d) \/ GiveLoad(t, d)
    \/ TakeLoad(t) \/ TakeStore(t) \/ GiveStore(t)

Spec == Init /\ [][Next]_vars

\* No two devices of a class have one node, whatever came and went, as long as there
\* was a number for each and calls did not overlap; for event devices only until one
\* went while others stayed (input.c:300-304, 323-327, 348-352, 371-402).
UniqueIds ==
  ~exhausted /\ ~crossed /\ ~(withdrawn /\ class = EventClass) =>
    \A d, e \in Devs : d # e /\ devid[d] # NULL => devid[d] # devid[e]
=============================================================================
