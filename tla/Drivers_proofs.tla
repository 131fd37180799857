--------------------------- MODULE Drivers_proofs ---------------------------
(***************************************************************************)
(* Proofs about a board of any size.  A step of the board is a step of one *)
(* driver and leaves the variables of the others alone, so that each has   *)
(* an invariant of its own.  What is registered is what is there; the      *)
(* automounter refers to no state that was freed, and who was told MOUNT   *)
(* has a file system; the callbacks of the notifiers find their device     *)
(* open, called once, and wake whom they were set up for; the timer of the *)
(* remote control releases no key early; and references to inodes and open *)
(* files are counted as they are held.  What is transferred is whole: an   *)
(* I2C read that succeeds, the texts a UART sends and the bytes it         *)
(* receives, and what is written to a block device, read as a character    *)
(* device and through the translation layer of a flash.  Bounds that       *)
(* outlast a mishap of the code are apart, at the end.                     *)
(***************************************************************************)
EXTENDS Drivers, Lists_proofs, SequenceTheorems, FiniteSetTheorems

-----------------------------------------------------------------------------
(* The board.                                                              *)

\* A step of the board is one of a single driver, and leaves the others as they are.
LEMMA OneMoves ==
  ASSUME [Next]_vars
  PROVE  /\ which' = which
         /\ \/ which = "notifier" /\ N!Next /\ UNCHANGED SndVars
            \/ which = "snd" /\ S!Next
            \/ UNCHANGED <<NotifierVars, SndVars>>
         /\ [A!Next]_AutomountVars /\ [I!Next]_InputVars /\ [R!Next]_RcVars
         /\ [K!Next]_KeymapVars /\ [D!Next]_IdsVars /\ [G!Next]_GpioVars
         /\ [T!Next]_UartTxVars /\ [U!Next]_UartRxVars /\ [C!Next]_AdcVars
         /\ [B!Next]_I2cVars /\ [M!Next]_ModulesVars /\ [F!Next]_FilesVars
         /\ [H!Next]_BchVars /\ [L!Next]_FtlVars /\ [X!Next]_IrVars
<1>1. ASSUME NEW d \in Names, Only(d)
      PROVE  \A e \in Names \ {d} : Still(e)
  BY <1>1 DEF Only
<1>2. ASSUME Still("notifier"), which # "snd"
      PROVE  UNCHANGED NotifierVars
  BY <1>2 DEF Still
<1>3. ASSUME NEW d \in Names, Only(d), d \notin {"notifier", "snd"}
      PROVE  UNCHANGED <<NotifierVars, SndVars>>
  <2>1. Still("notifier") /\ Still("snd") /\ which # "snd"
    BY <1>3 DEF Only, Names
  <2> QED BY <2>1 DEF Still
<1>4. ASSUME Only("notifier")
      PROVE  UNCHANGED SndVars
  <2>1. Still("snd")
    BY <1>4 DEF Only, Names
  <2> QED BY <2>1 DEF Still
<1>5. ASSUME NEW d \in Names, Only(d)
      PROVE  /\ d # "automount" => UNCHANGED AutomountVars
             /\ d # "input" => UNCHANGED InputVars
             /\ d # "rc" => UNCHANGED RcVars
             /\ d # "keymap" => UNCHANGED KeymapVars
             /\ d # "ids" => UNCHANGED IdsVars
             /\ d # "gpio" => UNCHANGED GpioVars
             /\ d # "uart_tx" => UNCHANGED UartTxVars
             /\ d # "uart_rx" => UNCHANGED UartRxVars
  <2>1. \A e \in Names \ {d} : Still(e)
    BY <1>5 DEF Only
  <2>2. {"automount", "input", "rc", "keymap", "ids", "gpio", "uart_tx", "uart_rx"}
          \subseteq Names
    BY DEF Names
  <2> QED BY <2>1, <2>2 DEF Still
<1>6. ASSUME NEW d \in Names, Only(d)
      PROVE  /\ d # "adc" => UNCHANGED AdcVars
             /\ d # "i2c" => UNCHANGED I2cVars
             /\ d # "modules" => UNCHANGED ModulesVars
             /\ d # "files" => UNCHANGED FilesVars
             /\ d # "bch" => UNCHANGED BchVars
             /\ d # "ftl" => UNCHANGED FtlVars
             /\ d # "ir" => UNCHANGED IrVars
  <2>1. \A e \in Names \ {d} : Still(e)
    BY <1>6 DEF Only
  <2>2. {"adc", "i2c", "modules", "files", "bch", "ftl", "ir"} \subseteq Names
    BY DEF Names
  <2> QED BY <2>1, <2>2 DEF Still
<1>7. ASSUME NEW d \in Names, Only(d)
      PROVE  which = d /\ which' = which
  BY <1>7 DEF Only
<1>8. CASE UNCHANGED vars
  BY <1>8 DEF vars
<1>9. CASE Next
  <2> USE <1>3, <1>4, <1>5, <1>6, <1>7
  <2>1. {"notifier", "snd", "automount", "input", "rc", "keymap", "ids", "gpio", "uart_tx",
         "uart_rx", "adc", "i2c", "modules", "files", "bch", "ftl", "ir"} \subseteq Names
    BY DEF Names
  <2>2. CASE Only("notifier") /\ N!Next
    BY <2>1, <2>2
  <2>3. CASE Only("snd") /\ S!Next
    BY <2>1, <2>3
  <2>4. CASE Only("automount") /\ A!Next
    BY <2>1, <2>4
  <2>5. CASE Only("input") /\ I!Next
    BY <2>1, <2>5
  <2>6. CASE Only("rc") /\ R!Next
    BY <2>1, <2>6
  <2>7. CASE Only("keymap") /\ K!Next
    BY <2>1, <2>7
  <2>8. CASE Only("ids") /\ D!Next
    BY <2>1, <2>8
  <2>9. CASE Only("gpio") /\ G!Next
    BY <2>1, <2>9
  <2>10. CASE Only("uart_tx") /\ T!Next
    BY <2>1, <2>10
  <2>11. CASE Only("uart_rx") /\ U!Next
    BY <2>1, <2>11
  <2>12. CASE Only("adc") /\ C!Next
    BY <2>1, <2>12
  <2>13. CASE Only("i2c") /\ B!Next
    BY <2>1, <2>13
  <2>14. CASE Only("modules") /\ M!Next
    BY <2>1, <2>14
  <2>15. CASE Only("files") /\ F!Next
    BY <2>1, <2>15
  <2>16. CASE Only("bch") /\ H!Next
    BY <2>1, <2>16
  <2>17. CASE Only("ftl") /\ L!Next
    BY <2>1, <2>17
  <2>18. CASE Only("ir") /\ X!Next
    BY <2>1, <2>18
  <2> QED
    BY <1>9, <2>2, <2>3, <2>4, <2>5, <2>6, <2>7, <2>8, <2>9, <2>10, <2>11, <2>12, <2>13, <2>14,
       <2>15, <2>16, <2>17, <2>18
    DEF Next
<1> QED
  BY <1>8, <1>9

-----------------------------------------------------------------------------
(* The numbers of input devices.                                           *)

IdsTypes ==
  /\ class \in Classes
  /\ bitmap \in SUBSET D!Ids
  /\ devid \in [Devs -> D!Ids \cup {D!None, NULL}]
  /\ at_id \in [Tasks -> {"idle", "take", "taking", "giving"}]
  /\ id_dev \in [Tasks -> Devs \cup {NULL}]
  /\ id_image \in [Tasks -> SUBSET D!Ids]
  /\ withdrawn \in BOOLEAN /\ exhausted \in BOOLEAN /\ crossed \in BOOLEAN

\* A task under way has a device of its own, which has a number.
IdsHands ==
  /\ \A t \in Tasks : at_id[t] = "idle" <=> id_dev[t] = NULL
  /\ \A t \in Tasks : id_dev[t] # NULL => devid[id_dev[t]] # NULL
  /\ \A t, u \in Tasks : id_dev[t] # NULL /\ id_dev[t] = id_dev[u] => t = u

\* Until the history excuses it: one call at a time, which loaded the bitmap as it is, and
\* an event device goes as the only one.
IdsAlone ==
  /\ \A t, u \in Tasks : at_id[t] # "idle" /\ at_id[u] # "idle" => t = u
  /\ \A t \in Tasks : at_id[t] \in {"taking", "giving"} => id_image[t] = bitmap
  /\ \A t \in Tasks : at_id[t] = "giving" /\ class = D!EventClass =>
       \A x \in Devs : x # id_dev[t] => devid[x] = NULL

\* Numbers are unique and, but for the one being taken, none of them is free.
Numbered ==
  /\ \A d \in Devs : devid[d] # NULL => devid[d] \in D!Ids
  /\ \A d \in Devs : devid[d] # NULL /\ devid[d] \in bitmap =>
       \E t \in Tasks : id_dev[t] = d /\ at_id[t] \in {"take", "taking"}
  /\ \A d, e \in Devs : d # e /\ devid[d] # NULL => devid[d] # devid[e]

IdsFine == exhausted = FALSE /\ crossed = FALSE /\ ~(withdrawn = TRUE /\ class = D!EventClass)

IdsInv == IdsTypes /\ IdsHands /\ (IdsFine => IdsAlone /\ Numbered)

\* At first every number is free (input.c:17-19).
LEMMA IdsInit == D!Init => IdsInv
BY DriversAssumption DEF D!Init, IdsInv, IdsTypes, IdsHands, IdsAlone, Numbered

\* A number is looked for (input.c:300-303).
LEMMA IdsFind ==
  ASSUME IdsInv, NEW t \in Tasks, NEW d \in Devs, D!Find(t, d)
  PROVE  IdsInv'
<1> USE DriversAssumption DEF IdsInv
<1>1. PICK i \in D!Lowest(bitmap) : devid' = [devid EXCEPT ![d] = i]
  BY DEF D!Find
<1>2. /\ at_id[t] = "idle" /\ devid[d] = NULL /\ \A u \in Tasks : id_dev[u] # d
      /\ at_id' = [at_id EXCEPT ![t] = "take"] /\ id_dev' = [id_dev EXCEPT ![t] = d]
      /\ crossed' = (crossed \/ \E u \in Tasks : at_id[u] # "idle")
      /\ exhausted' = (exhausted \/ bitmap = {})
      /\ UNCHANGED <<class, bitmap, id_image, withdrawn>>
  BY DEF D!Find, D!Begins
<1>3. i \in D!Ids \cup {D!None} /\ i # NULL /\ (bitmap # {} => i \in bitmap)
  BY DEF D!Lowest, IdsTypes
<1>4. IdsTypes'
  BY <1>1, <1>2, <1>3 DEF IdsTypes
<1>5. IdsHands'
  BY <1>1, <1>2, <1>3 DEF IdsTypes, IdsHands
<1>6. ASSUME IdsFine' PROVE IdsAlone' /\ Numbered'
  <2>1. IdsFine /\ bitmap # {} /\ \A u \in Tasks : at_id[u] = "idle"
    BY <1>2, <1>6 DEF IdsFine, IdsTypes
  <2>2. IdsAlone /\ Numbered
    BY <2>1
  <2>3. \A x \in Devs : devid[x] # NULL => devid[x] \notin bitmap
    BY <2>1, <2>2 DEF Numbered
  <2>4. IdsAlone'
    BY <1>2, <2>1 DEF IdsAlone, IdsTypes
  <2>5. Numbered'
    BY <1>1, <1>2, <1>3, <2>1, <2>2, <2>3 DEF Numbered, IdsTypes
  <2> QED BY <2>4, <2>5
<1> QED BY <1>4, <1>5, <1>6

\* And taken, with the bitmap loaded anew (input.c:304).
LEMMA IdsTake ==
  ASSUME IdsInv, NEW t \in Tasks, D!TakeLoad(t) \/ D!TakeStore(t)
  PROVE  IdsInv'
<1> USE DEF IdsInv
<1>1. CASE D!TakeLoad(t)
  <2>1. /\ at_id[t] = "take" /\ at_id' = [at_id EXCEPT ![t] = "taking"]
        /\ id_image' = [id_image EXCEPT ![t] = bitmap]
        /\ UNCHANGED <<class, bitmap, devid, id_dev, withdrawn, exhausted, crossed>>
    BY <1>1 DEF D!TakeLoad
  <2>2. IdsTypes' /\ IdsHands'
    BY <2>1 DEF IdsTypes, IdsHands
  <2>3. ASSUME IdsAlone, Numbered PROVE IdsAlone' /\ Numbered'
    BY <2>1, <2>3 DEF IdsAlone, Numbered, IdsTypes
  <2> QED BY <2>1, <2>2, <2>3 DEF IdsFine
<1>2. CASE D!TakeStore(t)
  <2> DEFINE d == id_dev[t]
  <2>1. /\ at_id[t] = "taking" /\ bitmap' = id_image[t] \ {D!Bit(devid[d])}
        /\ at_id' = [at_id EXCEPT ![t] = "idle"] /\ id_dev' = [id_dev EXCEPT ![t] = NULL]
        /\ id_image' = [id_image EXCEPT ![t] = {}]
        /\ UNCHANGED <<class, devid, withdrawn, exhausted, crossed>>
    BY <1>2 DEF D!TakeStore, D!Ends
  <2>2. IdsTypes' /\ IdsHands'
    BY <2>1 DEF IdsTypes, IdsHands
  <2>3. ASSUME IdsAlone, Numbered PROVE IdsAlone' /\ Numbered'
    <3>1. \A u \in Tasks : u # t => at_id[u] = "idle"
      BY <2>1, <2>3 DEF IdsAlone
    <3>2. d \in Devs /\ devid[d] # NULL /\ devid[d] \in D!Ids
      BY <2>1, <2>3 DEF IdsTypes, IdsHands, Numbered
    <3>3. bitmap' = bitmap \ {devid[d]}
      BY <2>1, <2>3, <3>2 DEF IdsAlone, D!Bit, D!Ids, D!None
    <3>4. \A x \in Devs : devid[x] # NULL => devid[x] \notin bitmap'
      <4>1. ASSUME NEW x \in Devs, devid[x] # NULL, devid[x] \in bitmap PROVE x = d
        <5>1. PICK u \in Tasks : id_dev[u] = x /\ at_id[u] \in {"take", "taking"}
          BY <2>3, <4>1 DEF Numbered
        <5> QED BY <3>1, <5>1
      <4> QED BY <3>3, <4>1
    <3>5. IdsAlone'
      BY <2>1, <3>1 DEF IdsAlone, IdsTypes
    <3> HIDE DEF d
    <3>6. Numbered'
      BY <2>1, <2>3, <3>4 DEF Numbered
    <3> QED BY <3>5, <3>6
  <2> QED BY <2>1, <2>2, <2>3 DEF IdsFine
<1> QED BY <1>1, <1>2

\* For all but event devices unregistering gives back that number and no other
\* (input.c:371-402).
LEMMA IdsGive ==
  ASSUME IdsInv, NEW t \in Tasks,
         (\E d \in Devs : D!GiveLoad(t, d)) \/ D!GiveStore(t)
  PROVE  IdsInv'
<1> USE DriversAssumption DEF IdsInv
<1>1. ASSUME NEW d \in Devs, D!GiveLoad(t, d) PROVE IdsInv'
  <2>1. /\ at_id[t] = "idle" /\ devid[d] # NULL /\ \A u \in Tasks : id_dev[u] # d
        /\ at_id' = [at_id EXCEPT ![t] = "giving"] /\ id_dev' = [id_dev EXCEPT ![t] = d]
        /\ crossed' = (crossed \/ \E u \in Tasks : at_id[u] # "idle")
        /\ id_image' = [id_image EXCEPT ![t] = bitmap]
        /\ withdrawn' = (withdrawn \/ D!Others(d) # {})
        /\ UNCHANGED <<class, bitmap, devid, exhausted>>
    BY <1>1 DEF D!GiveLoad, D!Begins
  <2>2. IdsTypes' /\ IdsHands'
    BY <2>1 DEF IdsTypes, IdsHands
  <2>3. ASSUME IdsFine' PROVE IdsAlone' /\ Numbered'
    <3>1. IdsFine /\ (\A u \in Tasks : at_id[u] = "idle")
          /\ (class = D!EventClass => D!Others(d) = {})
      BY <2>1, <2>3 DEF IdsFine, IdsTypes
    <3>2. IdsAlone'
      BY <2>1, <3>1 DEF IdsAlone, IdsTypes, D!Others
    <3>3. Numbered'
      BY <2>1, <3>1 DEF Numbered, IdsTypes
    <3> QED BY <3>2, <3>3
  <2> QED BY <2>2, <2>3
<1>2. CASE D!GiveStore(t)
  <2> DEFINE d == id_dev[t]
  <2>1. /\ at_id[t] = "giving" /\ bitmap' = D!GivenBack(id_image[t], devid[d])
        /\ devid' = [devid EXCEPT ![d] = NULL]
        /\ at_id' = [at_id EXCEPT ![t] = "idle"] /\ id_dev' = [id_dev EXCEPT ![t] = NULL]
        /\ id_image' = [id_image EXCEPT ![t] = {}]
        /\ UNCHANGED <<class, withdrawn, exhausted, crossed>>
    BY <1>2 DEF D!GiveStore, D!Ends
  <2>2. d \in Devs /\ devid[d] # NULL /\ D!Bit(devid[d]) \in D!Ids
    BY <2>1 DEF IdsTypes, IdsHands, D!Bit, D!Ids
  <2>3. IdsTypes'
    BY <2>1, <2>2 DEF IdsTypes, D!GivenBack
  <2>4. IdsHands'
    BY <2>1, <2>2 DEF IdsTypes, IdsHands
  <2>5. ASSUME IdsAlone, Numbered PROVE IdsAlone' /\ Numbered'
    <3>1. \A u \in Tasks : u # t => at_id[u] = "idle"
      BY <2>1, <2>5 DEF IdsAlone
    <3>2. \A x \in Devs : devid[x] # NULL => devid[x] \notin bitmap
      <4>1. ASSUME NEW x \in Devs, devid[x] # NULL, devid[x] \in bitmap PROVE FALSE
        <5>1. PICK u \in Tasks : id_dev[u] = x /\ at_id[u] \in {"take", "taking"}
          BY <2>5, <4>1 DEF Numbered
        <5> QED BY <2>1, <3>1, <5>1
      <4> QED BY <4>1
    <3>3. IdsAlone'
      BY <2>1, <3>1 DEF IdsAlone, IdsTypes
    <3>4. CASE class = D!EventClass
      <4>1. \A x \in Devs : devid'[x] = NULL
        BY <2>1, <2>2, <2>5, <3>4 DEF IdsAlone, IdsTypes
      <4> QED BY <3>3, <4>1 DEF Numbered
    <3>5. CASE class # D!EventClass
      <4>1. bitmap' = bitmap \cup {devid[d]}
        BY <2>1, <2>2, <2>5, <3>5 DEF IdsAlone, Numbered, D!GivenBack, D!Bit, D!Ids, D!None
      <4>2. /\ devid'[d] = NULL /\ \A x \in Devs : x # d => devid'[x] = devid[x]
        BY <2>1, <2>2 DEF IdsTypes
      <4> HIDE DEF d
      <4>3. \A x \in Devs : devid'[x] # NULL => x # d /\ devid'[x] = devid[x]
        BY <4>2
      <4>4. \A x \in Devs : devid'[x] # NULL => devid'[x] \notin bitmap'
        BY <2>2, <2>5, <3>2, <4>1, <4>3 DEF Numbered
      <4>5. Numbered'
        BY <2>5, <4>3, <4>4 DEF Numbered
      <4> QED BY <3>3, <4>5
    <3> QED BY <3>4, <3>5
  <2> QED BY <2>1, <2>3, <2>4, <2>5 DEF IdsFine
<1> QED BY <1>1, <1>2

\* Each step keeps the numbers.
LEMMA IdsNext ==
  ASSUME IdsInv, D!Next
  PROVE  IdsInv'
BY IdsFind, IdsTake, IdsGive DEF D!Next

-----------------------------------------------------------------------------
(* The ADC and the interrupt of a GPIO pad.                                *)

\* Until it is opened beside another file, the count is that of the files open.
AdcInv ==
  /\ adc_on \in BOOLEAN /\ twice \in BOOLEAN /\ opens \in Nat /\ ad_ocount \in Nat
  /\ ~twice => ad_ocount = opens /\ opens <= 1 /\ (adc_on <=> opens > 0)

\* Opened once and closed once, the converter is on in between (adc.c:129-228).
LEMMA AdcNext ==
  ASSUME AdcInv, C!Next
  PROVE  AdcInv'
<1>1. CASE C!Close
  <2>0. /\ opens > 0
       /\ opens' = opens - 1
       /\ twice' = twice
       /\ (ad_ocount > 1 => ad_ocount' = ad_ocount - 1 /\ adc_on' = adc_on)
       /\ (~(ad_ocount > 1) => ad_ocount' = 0 /\ adc_on' = FALSE)
       /\ AdcInv
    BY <1>1 DEF C!Close
  <2>1. opens' \in Nat /\ ad_ocount' \in Nat
    BY <2>0 DEF AdcInv
  <2>2. adc_on' \in BOOLEAN /\ twice' \in BOOLEAN
    BY <2>0 DEF AdcInv
  <2>3. ASSUME ~twice' PROVE ad_ocount' = opens' /\ opens' = 0
    BY <2>0, <2>3 DEF AdcInv
  <2>4. ASSUME ~twice' PROVE ~adc_on'
    BY <2>0, <2>4 DEF AdcInv
  <2> QED BY <2>1, <2>2, <2>3, <2>4 DEF AdcInv
<1>2. CASE C!Open
  <2>1. CASE UNCHANGED C!vars
    BY <2>1 DEF C!vars, AdcInv
  <2>2. CASE /\ ad_ocount = 0 /\ adc_on' = TRUE /\ ad_ocount' = 1
             /\ opens' = opens + 1 /\ twice' = (twice \/ opens > 0)
    BY <2>2 DEF AdcInv
  <2>3. CASE /\ ad_ocount > 0 /\ UNCHANGED <<ad_ocount, adc_on>>
             /\ opens' = opens + 1 /\ twice' = (twice \/ opens > 0)
    <3>1. twice'
      BY <2>3 DEF AdcInv
    <3> QED BY <2>3, <3>1 DEF AdcInv
  <2> QED BY <1>2, <2>1, <2>2, <2>3 DEF C!Open
<1> QED BY <1>1, <1>2 DEF C!Next

\* The list of the pad has no entry twice, and until the handler requested first is
\* freed it is the one the interrupt starts from.
GpioInv ==
  /\ chain \in Seq(IrqEntries) /\ isrs \in Seq(IrqEntries)
  /\ ier \in BOOLEAN /\ orphaned \in BOOLEAN
  /\ NoRepeat(chain)
  /\ ~orphaned => \/ chain = <<>> /\ isrs = <<>>
                  \/ chain # <<>> /\ ier /\ isrs = <<chain[Len(chain)]>>

\* The lists of GpioIrq are those of Lists.
LEMMA GpioLists ==
  ASSUME NEW s, NEW e
  PROVE  /\ G!Without(s, e) = Without(s, e)
         /\ G!OnList(e, s) <=> OnList(e, s)
BY DEF G!Without, Without, G!OnList, OnList, G!TakenOut, TakenOut

\* A new handler goes to the front; only the first one gets an ISR
\* (gpioirq.c:112-168).
LEMMA GpioRequest ==
  ASSUME GpioInv, NEW e \in IrqEntries, G!Request(e)
  PROVE  GpioInv'
<1> USE DEF GpioInv
<1>1. ~OnList(e, chain) /\ chain' = <<e>> \o chain
  BY GpioLists DEF G!Request
<1>2. /\ chain' \in Seq(IrqEntries) /\ Len(chain') = 1 + Len(chain)
      /\ \A k \in 1..(1 + Len(chain)) : chain'[k] = IF k <= 1 THEN e ELSE chain[k - 1]
  BY <1>1, ConcatProperties, <<e>> \in Seq(IrqEntries), Len(<<e>>) = 1, <<e>>[1] = e
<1>3. NoRepeat(chain')
  BY <1>1, <1>2 DEF NoRepeat, OnList
<1>4. CASE chain = <<>>
  <2>1. chain'[Len(chain')] = e /\ chain' # <<>> /\ ier' = TRUE
    BY <1>2, <1>4 DEF G!Request
  <2>2. CASE isrs' = Append(isrs, e) /\ UNCHANGED orphaned
    <3>1. isrs' \in Seq(IrqEntries)
      BY <2>2, AppendProperties
    <3>2. ASSUME ~orphaned' PROVE isrs' = <<chain'[Len(chain')]>>
      BY <1>4, <2>1, <2>2, <3>2
    <3> QED BY <1>2, <1>3, <2>1, <2>2, <3>1, <3>2
  <2>3. CASE UNCHANGED isrs /\ orphaned' = TRUE
    BY <1>2, <1>3, <2>1, <2>3
  <2> QED BY <1>4, <2>2, <2>3 DEF G!Request, G!Install
<1>5. CASE chain # <<>>
  <2>1. UNCHANGED <<isrs, ier, orphaned>>
    BY <1>5 DEF G!Request
  <2>2. chain' # <<>> /\ chain'[Len(chain')] = chain[Len(chain)]
    BY <1>2, <1>5
  <2> QED BY <1>2, <1>3, <1>5, <2>1, <2>2
<1> QED BY <1>4, <1>5

\* Freeing a handler that is not the one the ISR starts from leaves that one last
\* (gpioirq.c:170-198).
LEMMA GpioFree ==
  ASSUME GpioInv, NEW e \in IrqEntries, G!Free(e)
  PROVE  GpioInv'
<1> USE DEF GpioInv
<1>1. /\ OnList(e, chain) /\ chain' = Without(chain, e)
      /\ ier' = (ier /\ chain' # <<>>)
      /\ orphaned' = (orphaned \/ OnList(e, isrs))
      /\ isrs' = isrs
  BY GpioLists DEF G!Free
<1>2. chain' \in Seq(IrqEntries) /\ IsWithout(chain', chain, e)
  BY <1>1, WithoutRemoves
<1>3. ASSUME ~orphaned'
      PROVE  chain' # <<>> /\ ier' /\ isrs' = <<chain'[Len(chain')]>>
  <2>0. ~orphaned /\ ~OnList(e, isrs)
    BY <1>1, <1>3
  <2>1. chain # <<>> /\ ier /\ isrs = <<chain[Len(chain)]>> /\ e # chain[Len(chain)]
    BY <1>1, <2>0, <<chain[Len(chain)]>>[1] = chain[Len(chain)] DEF OnList
  <2>2. PICK p \in 1..Len(chain) : p = CHOOSE i \in DOMAIN chain : chain[i] = e
    BY <1>1 DEF OnList
  <2>3. chain[p] = e /\ p # Len(chain)
    BY <1>1, <2>1, <2>2 DEF OnList
  <2>4. /\ Len(chain') = Len(chain) - 1
        /\ \A k \in 1..(Len(chain) - 1) :
             chain'[k] = IF k < p THEN chain[k] ELSE chain[k + 1]
    BY <1>1, <2>2, TakenOutIsShift DEF Without, OnList
  <2>5. Len(chain) \in Nat /\ p < Len(chain)
    BY <2>2, <2>3
  <2>6. chain'[Len(chain')] = chain[Len(chain)]
    <3>1. PICK k \in 1..(Len(chain) - 1) : k = Len(chain) - 1
      BY <2>2, <2>5
    <3>2. k + 1 = Len(chain) /\ ~(k < p)
      BY <2>2, <2>5, <3>1
    <3>3. chain'[k] = chain[k + 1]
      BY <2>4, <3>2
    <3> QED BY <2>4, <3>1, <3>2, <3>3
  <2>7. chain' # <<>>
    BY <1>2, <2>4, <2>5, <2>2
  <2> QED BY <1>1, <2>1, <2>6, <2>7
<1> QED BY <1>1, <1>2, <1>3 DEF IsWithout

\* From the last entry the interrupt gets to that one only.
LEMMA GpioServed == GpioInv => G!FirstIsServed
<1> SUFFICES ASSUME GpioInv, ~orphaned, chain # <<>>
             PROVE  /\ isrs = <<chain[Len(chain)]>>
                    /\ G!From(isrs[1]) = {chain[Len(chain)]}
  BY DEF GpioInv, G!FirstIsServed
<1>1. isrs = <<chain[Len(chain)]>> /\ isrs[1] = chain[Len(chain)]
  BY DEF GpioInv
<1>2. Len(chain) \in DOMAIN chain /\ DOMAIN chain = 1..Len(chain)
  BY DEF GpioInv
<1>3. \A j \in DOMAIN chain :
        (\E k \in 1..j : chain[k] = chain[Len(chain)]) <=> j = Len(chain)
  BY <1>2 DEF GpioInv, NoRepeat
<1> QED BY <1>1, <1>2, <1>3 DEF G!From

-----------------------------------------------------------------------------
(* Starting and stopping modules.                                          *)

\* The module the walk is at is the one that may be neither marked nor up.
Between == ~begun /\ up = initialized
InTheMiddle ==
  /\ begun /\ walk # NULL /\ walk.at <= walk.last /\ walk.at \notin up
  /\ walk.start => up = initialized
  /\ ~walk.start => initialized = up \cup {walk.at}
ModulesInv ==
  M!TypeOK /\ ~wrong /\ (Between \/ InTheMiddle) /\ M!EarlierAreUp

\* A call starts behind no module (module.c:63-111, 164-190).
LEMMA ModulesBegin ==
  ASSUME ModulesInv, NEW start \in BOOLEAN, NEW range \in M!Mods \X M!Mods,
         NEW exclude \in SUBSET M!Mods, M!Begin(start, range, exclude)
  PROVE  ModulesInv'
<1>1. /\ walk = NULL /\ ~begun /\ UNCHANGED <<initialized, up, begun, wrong>>
      /\ walk' = [start |-> start, first |-> range[1], at |-> range[1],
                  last |-> range[2], exclude |-> exclude]
  BY DEF M!Begin, ModulesInv, InTheMiddle, Between
<1>2. range[1] \in 1..Count /\ range[2] \in 1..Count /\ Count \in Nat
  BY DriversAssumption DEF M!Mods
<1>3. walk' \in M!Walk
  BY <1>1, <1>2 DEF M!Walk, M!Mods
<1>4. walk'.first..(walk'.at - 1) = {}
  BY <1>1, <1>2
<1> QED
  BY <1>1, <1>3, <1>4 DEF ModulesInv, Between, InTheMiddle, M!TypeOK, M!EarlierAreUp

\* The walk moves behind a module that is up, or was left out.
LEMMA ModulesMove ==
  ASSUME NEW w \in M!Walk, w.at <= w.last
  PROVE  LET moved == [w EXCEPT !.at = @ + 1]
         IN  /\ moved \in M!Walk /\ moved.start = w.start /\ moved.exclude = w.exclude
             /\ w.at \in M!Mods
             /\ moved.first..(moved.at - 1) \subseteq w.first..(w.at - 1) \cup {w.at}
<1>1. w.at \in 1..(Count + 1) /\ w.last \in 1..Count /\ w.first \in 1..Count
  BY DEF M!Walk, M!Mods
<1>2. w.at \in 1..Count /\ w.at + 1 \in 1..(Count + 1)
  BY <1>1, DriversAssumption
<1> QED BY <1>1, <1>2 DEF M!Walk, M!Mods

\* Whatever init and exit return, marks and modules agree between two modules
\* (module.c:113-155, 195-240).
LEMMA ModulesNext ==
  ASSUME ModulesInv, M!Next
  PROVE  ModulesInv'
<1>1. CASE M!InitGroup \/ M!ExitAll \/ M!ByName
  <2>1. CASE M!InitGroup
    BY <2>1, ModulesBegin, DriversAssumption DEF M!InitGroup
  <2>2. CASE M!ExitAll
    <3>1. M!All \in M!Mods \X M!Mods
      BY DriversAssumption DEF M!All, M!Mods
    <3> QED BY <2>2, <3>1, ModulesBegin DEF M!ExitAll
  <2>3. CASE M!ByName
    BY <2>3, ModulesBegin DEF M!ByName
  <2> QED BY <1>1, <2>1, <2>2, <2>3
<1>2. ASSUME M!Walking
      PROVE  walk # NULL /\ walk \in M!Walk /\ walk.at <= walk.last
  BY <1>2 DEF M!Walking, ModulesInv, M!TypeOK
<1>3. ASSUME begun
      PROVE  InTheMiddle /\ M!Walking
  BY <1>3 DEF ModulesInv, Between, InTheMiddle, M!Walking
<1> DEFINE moved == [walk EXCEPT !.at = @ + 1]
<1>4. CASE M!Skip
  <2>1. /\ Between /\ walk' = moved /\ UNCHANGED <<initialized, up, begun, wrong>>
    BY <1>4 DEF M!Skip, M!Move, ModulesInv, Between, InTheMiddle
  <2>2. walk # NULL /\ walk \in M!Walk /\ walk.at <= walk.last
    BY <1>2, <1>4 DEF M!Skip
  <2>3. walk.start => walk.at \in up \cup walk.exclude
    BY <1>4, <2>1, <2>2 DEF M!Skip, M!Skipped, Between, M!Walk
  <2>4. M!EarlierAreUp'
    BY <2>1, <2>2, <2>3, ModulesMove DEF ModulesInv, M!EarlierAreUp
  <2> QED
    BY <2>1, <2>2, <2>4, ModulesMove DEF ModulesInv, Between, M!TypeOK
<1>5. CASE M!Call
  <2>1. /\ Between /\ walk' = walk /\ initialized' = initialized /\ begun' = TRUE
        /\ wrong' = (wrong \/ (walk.start <=> walk.at \in up))
        /\ up' = IF walk.start THEN up ELSE up \ {walk.at}
    BY <1>5 DEF M!Call, ModulesInv, Between, InTheMiddle
  <2>2. walk # NULL /\ walk \in M!Walk /\ walk.at <= walk.last
    BY <1>2, <1>5 DEF M!Call
  <2>3. ~M!Skipped(walk.at) /\ walk.start \in BOOLEAN
    BY <1>5, <2>2 DEF M!Call, M!Walk
  <2>4. CASE walk.start
    <3>1. walk.at \notin up /\ up' = up
      BY <2>1, <2>3, <2>4 DEF M!Skipped, Between
    <3>2. ~wrong'
      BY <2>1, <2>4, <3>1 DEF ModulesInv
    <3>3. InTheMiddle'
      BY <2>1, <2>2, <2>4, <3>1 DEF InTheMiddle, Between
    <3> QED
      BY <2>1, <2>2, <3>1, <3>2, <3>3 DEF ModulesInv, M!TypeOK, M!EarlierAreUp
  <2>5. CASE ~walk.start
    <3>1. walk.at \in up /\ up' = up \ {walk.at}
      BY <2>1, <2>3, <2>5 DEF M!Skipped, Between
    <3>2. ~wrong'
      BY <2>1, <2>5, <3>1 DEF ModulesInv
    <3>3. InTheMiddle'
      BY <2>1, <2>2, <2>5, <3>1 DEF InTheMiddle, Between
    <3> QED
      BY <2>1, <2>2, <2>5, <3>1, <3>2, <3>3 DEF ModulesInv, M!TypeOK, M!EarlierAreUp
  <2> QED BY <2>4, <2>5
<1>6. CASE M!InitOk
  <2>1. /\ InTheMiddle /\ walk.start /\ walk' = moved /\ wrong' = wrong /\ ~begun'
        /\ up' = up \cup {walk.at} /\ initialized' = initialized \cup {walk.at}
    BY <1>3, <1>6 DEF M!InitOk, M!Move
  <2>2. walk # NULL /\ walk \in M!Walk /\ walk.at <= walk.last
    BY <1>2, <1>3, <1>6 DEF M!InitOk
  <2>3. M!EarlierAreUp'
    BY <2>1, <2>2, ModulesMove DEF ModulesInv, M!EarlierAreUp
  <2>4. M!TypeOK' /\ Between'
    BY <1>6, <2>1, <2>2, ModulesMove
    DEF ModulesInv, Between, InTheMiddle, M!TypeOK, M!InitOk
  <2> QED BY <2>1, <2>3, <2>4 DEF ModulesInv
<1>7. CASE M!InitFails
  <2>1. /\ InTheMiddle /\ walk.start /\ walk' = NULL /\ begun' = FALSE
        /\ UNCHANGED <<initialized, up, wrong>>
    BY <1>3, <1>7 DEF M!InitFails
  <2>2. Between'
    BY <2>1 DEF InTheMiddle, Between
  <2>3. M!TypeOK' /\ ~wrong' /\ M!EarlierAreUp'
    BY <2>1 DEF ModulesInv, M!TypeOK, M!EarlierAreUp
  <2> QED BY <2>2, <2>3 DEF ModulesInv
<1>8. CASE M!ExitDone
  <2>1. /\ InTheMiddle /\ ~walk.start /\ walk' = moved /\ UNCHANGED <<up, wrong>>
        /\ ~begun' /\ initialized' = initialized \ {walk.at}
    BY <1>3, <1>8 DEF M!ExitDone, M!Move
  <2>2. walk # NULL /\ walk \in M!Walk /\ walk.at <= walk.last
    BY <1>2, <1>3, <1>8 DEF M!ExitDone
  <2>3. M!TypeOK' /\ Between' /\ ~walk'.start
    BY <1>8, <2>1, <2>2, ModulesMove
    DEF ModulesInv, Between, InTheMiddle, M!TypeOK, M!ExitDone
  <2> QED BY <2>1, <2>3 DEF ModulesInv, M!EarlierAreUp
<1>9. CASE M!ReturnZero
  BY <1>9
  DEF M!ReturnZero, M!Walking, ModulesInv, Between, InTheMiddle, M!TypeOK, M!EarlierAreUp
<1> QED
  BY <1>1, <1>4, <1>5, <1>6, <1>7, <1>8, <1>9 DEF M!Next

-----------------------------------------------------------------------------
(* All that is registered.                                                 *)

Inv == IdsInv /\ AdcInv /\ GpioInv /\ ModulesInv

\* At first nothing is registered.
LEMMA RegistriesInit == Init => Inv
<1> SUFFICES ASSUME Init PROVE Inv
  OBVIOUS
<1>1. IdsInv
  BY IdsInit DEF Init
<1>2. AdcInv
  <2>1. ad_ocount = 0 /\ adc_on = FALSE /\ opens = 0 /\ twice = FALSE
    BY DEF Init, C!Init
  <2>2. opens \in Nat /\ ad_ocount \in Nat /\ ad_ocount = opens /\ opens <= 1
        /\ ~(opens > 0)
    BY <2>1
  <2>3. adc_on \in BOOLEAN /\ twice \in BOOLEAN /\ ~adc_on
    BY <2>1
  <2> QED BY <2>2, <2>3 DEF AdcInv
<1>3. GpioInv
  <2>1. chain = <<>> /\ isrs = <<>> /\ ier = FALSE /\ orphaned = FALSE
    BY DEF Init, G!Init
  <2>2. NoRepeat(<<>>) /\ <<>> \in Seq(IrqEntries)
    BY DEF NoRepeat
  <2> QED BY <2>1, <2>2 DEF GpioInv
<1>4. ModulesInv
  BY DEF Init, M!Init, ModulesInv, Between, M!TypeOK, M!EarlierAreUp
<1> QED BY <1>1, <1>2, <1>3, <1>4 DEF Inv

\* Every step of the board keeps the registries.
LEMMA RegistriesNext == Inv /\ [Next]_vars => Inv'
<1> SUFFICES ASSUME Inv, [Next]_vars PROVE Inv'
  OBVIOUS
<1>1. IdsInv'
  <2>1. CASE D!Next
    BY <2>1, IdsNext DEF Inv
  <2>2. CASE UNCHANGED IdsVars
    BY <2>2 DEF Inv, IdsVars, IdsInv, IdsTypes, IdsHands, IdsFine, IdsAlone, Numbered
  <2> QED BY <2>1, <2>2, OneMoves
<1>2. AdcInv'
  <2>1. CASE C!Next
    BY <2>1, AdcNext DEF Inv
  <2>2. CASE UNCHANGED AdcVars
    BY <2>2 DEF Inv, AdcVars, AdcInv
  <2> QED BY <2>1, <2>2, OneMoves
<1>3. GpioInv'
  <2>1. CASE G!Next
    BY <2>1, GpioRequest, GpioFree DEF Inv, G!Next
  <2>2. CASE UNCHANGED GpioVars
    BY <2>2 DEF Inv, GpioVars, GpioInv
  <2> QED BY <2>1, <2>2, OneMoves
<1>4. ModulesInv'
  <2>1. CASE M!Next
    BY <2>1, ModulesNext DEF Inv
  <2>2. CASE UNCHANGED ModulesVars
    BY <2>2
    DEF Inv, ModulesVars, ModulesInv, Between, InTheMiddle, M!TypeOK, M!EarlierAreUp
  <2> QED BY <2>1, <2>2, OneMoves
<1> QED BY <1>1, <1>2, <1>3, <1>4 DEF Inv

\* What is registered is what is there, however many devices, handlers, opens and
\* modules there are (input.c:298-402, gpioirq.c:75-198, adc.c:129-228,
\* module.c:63-151).
THEOREM SpecRegistriesAgree == Spec => []RegistriesAgree
<1>1. Inv => RegistriesAgree
  <2> SUFFICES ASSUME Inv PROVE RegistriesAgree
    OBVIOUS
  <2>1. D!UniqueIds
    BY DEF Inv, IdsInv, IdsTypes, IdsFine, Numbered, D!UniqueIds
  <2>2. G!FirstIsServed
    BY GpioServed DEF Inv
  <2>3. C!RunsWhileOpen
    BY DEF Inv, AdcInv, C!RunsWhileOpen
  <2>4. M!MarkedIsUp /\ M!EarlierAreUp
    BY DEF Inv, ModulesInv, Between, InTheMiddle, M!MarkedIsUp
  <2> QED BY <2>1, <2>2, <2>3, <2>4 DEF RegistriesAgree
<1> QED
  BY RegistriesInit, RegistriesNext, <1>1, PTL DEF Spec

-----------------------------------------------------------------------------
(* The automounter.  A disk is leaving while an umount runs or is to be    *)
(* retried; until a device comes back in the middle, only one context is   *)
(* at it and nothing mounts.                                               *)

LeavingAt == {"umount", "busy", "free"}
Leaving ==
  \/ \E x \in A!Contexts : pc[x] \in LeavingAt
  \/ \E s \in Mounters : <<s, "umount">> \in dwork

\* All that is referred to is the state on the list.
RefsListed ==
  /\ \A x \in A!Contexts : arg[x] # NULL => arg[x] = listed
  /\ \A s \in Mounters : \A k \in {"mount", "umount"} : <<s, k>> \in dwork => s = listed

OneLeaves ==
  /\ Leaving => plugged = FALSE /\ \A s \in Mounters : <<s, "mount">> \notin dwork
  /\ \A s \in Mounters : <<s, "umount">> \in dwork => \A x \in A!Contexts : pc[x] = "idle"
  /\ \A x, y \in A!Contexts : pc[x] \in LeavingAt /\ y # x => pc[y] = "idle"

MarksTrue ==
  /\ \A x \in A!Contexts :
       /\ pc[x] = "mounted" => mounted = TRUE
       /\ pc[x] \in {"busy", "free"} => told = "UMOUNT"
  /\ listed # NULL /\ st[listed].mounted = TRUE => mounted = TRUE \/ Leaving
  /\ listed # NULL /\ st[listed].announced = TRUE => Leaving /\ told = "UMOUNT"
  /\ told = "MOUNT" => mounted = TRUE

States == [Mounters -> [mounted : BOOLEAN, announced : BOOLEAN, attempts : 0..MaxRetries]]
Places == {"idle", "mount", "mounted", "failed", "umount", "busy", "free"}

DiskType ==
  A!TypeOK /\ \A x \in A!Contexts : pc[x] = "idle" <=> arg[x] = NULL

Alone == raced = FALSE /\ again = FALSE

DiskInv == DiskType /\ (Alone => RefsListed /\ OneLeaves /\ MarksTrue)

\* Mounting goes on only while nothing leaves (fs_automount.c:76-116).
LEMMA DiskMounts ==
  ASSUME DiskInv, NEW x \in A!Contexts, A!TryMount(x) \/ A!Mounted(x) \/ A!MountFailed(x)
  PROVE  DiskInv'
<1> USE DEF DiskInv, A!disk, A!Go, A!At, A!Enter, A!Return
<1>1. /\ pc[x] \in {"mount", "mounted", "failed"} /\ arg[x] \in Mounters
      /\ pc \in [A!Contexts -> Places]
      /\ arg \in [A!Contexts -> Mounters \cup {NULL}]
      /\ st \in States
  BY DEF A!TryMount, A!Mounted, A!MountFailed, DiskType, A!TypeOK, States, Places
<1>2. ASSUME Alone
      PROVE  ~Leaving /\ arg[x] = listed /\ listed # NULL
  <2>1. RefsListed /\ OneLeaves
    BY <1>2
  <2>2. arg[x] = listed /\ listed # NULL
    BY <1>1, <2>1, DriversAssumption DEF RefsListed
  <2>3. \A y \in A!Contexts : pc[y] \notin LeavingAt
    BY <1>1, <2>1 DEF OneLeaves, LeavingAt
  <2>4. \A s \in Mounters : <<s, "umount">> \notin dwork
    BY <1>1, <2>1 DEF OneLeaves
  <2> QED BY <2>2, <2>3, <2>4 DEF Leaving
<1>3. CASE A!TryMount(x)
  <2>1. /\ pc[x] = "mount"
        /\ \/ mounted' = TRUE /\ pc' = [pc EXCEPT ![x] = "mounted"]
           \/ mounted' = mounted /\ pc' = [pc EXCEPT ![x] = "failed"]
        /\ st' = [st EXCEPT ![arg[x]].attempts = IF @ < MaxRetries THEN @ + 1 ELSE @]
        /\ UNCHANGED <<plugged, held, listed, dwork, arg, told, raced, again>>
    BY <1>3 DEF A!TryMount
  <2>2. /\ st' \in States
        /\ \A s \in Mounters : /\ st'[s].mounted = st[s].mounted
                               /\ st'[s].announced = st[s].announced
    BY <1>1, <2>1, DriversAssumption DEF States
  <2>3. DiskType'
    BY <1>1, <2>1, <2>2, DriversAssumption DEF DiskType, A!TypeOK, States
  <2>4. ASSUME Alone' PROVE RefsListed' /\ OneLeaves' /\ MarksTrue'
    <3>1. Alone /\ ~Leaving /\ RefsListed /\ OneLeaves /\ MarksTrue
      BY <1>2, <2>1, <2>4 DEF Alone
    <3>2. ~Leaving' /\ pc'[x] \notin LeavingAt
      BY <1>1, <2>1, <3>1 DEF Leaving, LeavingAt
    <3>3. listed # NULL => listed \in Mounters
      BY DEF DiskType, A!TypeOK
    <3>4. RefsListed' /\ OneLeaves'
      BY <1>1, <2>1, <3>1, <3>2 DEF RefsListed, OneLeaves, Leaving
    <3>5. MarksTrue'
      BY <1>1, <2>1, <2>2, <3>1, <3>2, <3>3 DEF MarksTrue, LeavingAt, Leaving
    <3> QED BY <3>4, <3>5
  <2> QED BY <2>3, <2>4
<1>4. CASE A!Mounted(x)
  <2>1. /\ pc[x] = "mounted" /\ pc' = [pc EXCEPT ![x] = "idle"]
        /\ arg' = [arg EXCEPT ![x] = NULL]
        /\ st' = [st EXCEPT ![arg[x]] = [mounted |-> TRUE, announced |-> FALSE, attempts |-> 0]]
        /\ told' = "MOUNT"
        /\ UNCHANGED <<plugged, mounted, held, listed, dwork, raced, again>>
    BY <1>4 DEF A!Mounted
  <2>2. /\ st' \in States /\ st'[arg[x]].announced = FALSE
        /\ \A s \in Mounters \ {arg[x]} : st'[s] = st[s]
    BY <1>1, <2>1, DriversAssumption DEF States
  <2>3. DiskType'
    BY <1>1, <2>1, <2>2, DriversAssumption DEF DiskType, A!TypeOK, States
  <2>4. ASSUME Alone' PROVE RefsListed' /\ OneLeaves' /\ MarksTrue'
    <3>1. Alone /\ ~Leaving /\ RefsListed /\ OneLeaves /\ MarksTrue /\ arg[x] = listed
      BY <1>2, <2>1, <2>4 DEF Alone
    <3>2. ~Leaving'
      BY <1>1, <2>1, <3>1 DEF Leaving, LeavingAt
    <3>3. RefsListed'
      BY <1>1, <2>1, <3>1 DEF RefsListed
    <3>4. OneLeaves'
      BY <1>1, <2>1, <3>1, <3>2 DEF OneLeaves, Leaving
    <3>5. MarksTrue'
      BY <1>1, <2>1, <2>2, <3>1, <3>2 DEF MarksTrue, LeavingAt, Leaving
    <3> QED BY <3>3, <3>4, <3>5
  <2> QED BY <2>3, <2>4
<1>5. CASE A!MountFailed(x)
  <2>1. /\ pc' = [pc EXCEPT ![x] = "idle"] /\ arg' = [arg EXCEPT ![x] = NULL]
        /\ dwork' = dwork \/ dwork' = dwork \cup {<<arg[x], "mount">>}
        /\ UNCHANGED <<plugged, mounted, held, listed, st, told, raced, again>>
    BY <1>5 DEF A!MountFailed
  <2>2. DiskType'
    BY <1>1, <2>1, DriversAssumption DEF DiskType, A!TypeOK
  <2>3. ASSUME Alone' PROVE RefsListed' /\ OneLeaves' /\ MarksTrue'
    <3>1. Alone /\ ~Leaving /\ RefsListed /\ OneLeaves /\ MarksTrue /\ arg[x] = listed
      BY <1>2, <2>1, <2>3 DEF Alone
    <3>2. ~Leaving'
      BY <1>1, <2>1, <3>1 DEF Leaving, LeavingAt
    <3>3. RefsListed'
      BY <1>1, <2>1, <3>1 DEF RefsListed
    <3>4. OneLeaves'
      BY <1>1, <2>1, <3>1, <3>2 DEF OneLeaves, Leaving
    <3>5. MarksTrue'
      BY <1>1, <2>1, <3>1, <3>2 DEF MarksTrue, LeavingAt, Leaving
    <3> QED BY <3>3, <3>4, <3>5
  <2> QED BY <2>2, <2>3
<1> QED BY <1>3, <1>4, <1>5

\* A disk that leaves is unmounted by one context, and forgotten when nothing refers
\* to its state (fs_automount.c:118-145).
LEMMA DiskLeaves ==
  ASSUME DiskInv, NEW x \in A!Contexts, A!UmountAnnounce(x) \/ A!Umount(x) \/ A!Free(x)
  PROVE  DiskInv'
<1> USE DEF DiskInv, A!disk, A!Go, A!At, A!Enter, A!Return
<1>1. /\ pc[x] \in LeavingAt /\ arg[x] \in Mounters
      /\ pc \in [A!Contexts -> Places] /\ arg \in [A!Contexts -> Mounters \cup {NULL}]
      /\ st \in States
  BY DEF A!UmountAnnounce, A!Umount, A!Free, DiskType, A!TypeOK, States, Places, LeavingAt
<1>2. ASSUME Alone
      PROVE  /\ Leaving /\ RefsListed /\ OneLeaves /\ MarksTrue /\ arg[x] = listed
             /\ listed # NULL /\ plugged = FALSE
             /\ \A y \in A!Contexts \ {x} : pc[y] = "idle" /\ arg[y] = NULL
             /\ \A s \in Mounters : <<s, "umount">> \notin dwork /\ <<s, "mount">> \notin dwork
  <2>1. RefsListed /\ OneLeaves /\ MarksTrue /\ Leaving
    BY <1>1, <1>2 DEF Leaving
  <2>2. arg[x] = listed /\ listed # NULL
    BY <1>1, <2>1, DriversAssumption DEF RefsListed
  <2>3. \A y \in A!Contexts \ {x} : pc[y] = "idle" /\ arg[y] = NULL
    BY <1>1, <2>1 DEF OneLeaves, DiskType
  <2>4. \A s \in Mounters : <<s, "umount">> \notin dwork
    BY <1>1, <2>1 DEF OneLeaves, LeavingAt
  <2> QED BY <2>1, <2>2, <2>3, <2>4 DEF OneLeaves
<1>3. CASE A!UmountAnnounce(x)
  <2>1. /\ pc' = [pc EXCEPT ![x] = "busy"]
        /\ told' = IF st[arg[x]].announced = TRUE THEN told ELSE "UMOUNT"
        /\ st' = [st EXCEPT ![arg[x]].announced = TRUE]
        /\ UNCHANGED <<plugged, mounted, held, listed, dwork, arg, raced, again>>
    BY <1>1, <1>3 DEF A!UmountAnnounce, States
  <2>2. st' \in States /\ \A s \in Mounters : st'[s].mounted = st[s].mounted
    BY <1>1, <2>1 DEF States
  <2>3. DiskType'
    BY <1>1, <2>1, <2>2, DriversAssumption DEF DiskType, A!TypeOK, States, LeavingAt
  <2>4. ASSUME Alone' PROVE RefsListed' /\ OneLeaves' /\ MarksTrue'
    <3>1. Alone
      BY <2>1, <2>4 DEF Alone
    <3>2. Leaving' /\ told' = "UMOUNT"
      BY <1>1, <1>2, <2>1, <3>1 DEF Leaving, LeavingAt, MarksTrue
    <3>3. RefsListed'
      BY <1>2, <2>1, <3>1 DEF RefsListed
    <3>4. OneLeaves'
      BY <1>1, <1>2, <2>1, <3>1 DEF OneLeaves, LeavingAt
    <3>5. MarksTrue'
      BY <1>1, <1>2, <2>1, <2>2, <3>1, <3>2 DEF MarksTrue
    <3> QED BY <3>3, <3>4, <3>5
  <2> QED BY <2>3, <2>4
<1>4. CASE A!Umount(x)
  <2>1. /\ pc[x] = "busy"
        /\ \/ /\ mounted' = FALSE /\ pc' = [pc EXCEPT ![x] = "free"]
              /\ UNCHANGED <<dwork, arg>>
           \/ /\ dwork' = dwork \cup {<<arg[x], "umount">>} /\ mounted' = mounted
              /\ pc' = [pc EXCEPT ![x] = "idle"] /\ arg' = [arg EXCEPT ![x] = NULL]
        /\ UNCHANGED <<plugged, held, listed, st, told, raced, again>>
    BY <1>4 DEF A!Umount
  <2>2. DiskType'
    <3>1. /\ dwork' \subseteq Mounters \X {"mount", "umount"}
          /\ mounted' = FALSE \/ mounted' = mounted
      BY <1>1, <2>1 DEF DiskType, A!TypeOK
    <3>2. /\ pc' \in [A!Contexts -> Places] /\ arg' \in [A!Contexts -> Mounters \cup {NULL}]
          /\ \A y \in A!Contexts : pc'[y] = "idle" <=> arg'[y] = NULL
      BY <1>1, <2>1, DriversAssumption DEF DiskType, Places
    <3> QED BY <2>1, <3>1, <3>2 DEF DiskType, A!TypeOK, Places
  <2>3. ASSUME Alone' PROVE RefsListed' /\ OneLeaves' /\ MarksTrue'
    <3>1. Alone /\ told = "UMOUNT"
      BY <1>2, <2>1, <2>3 DEF Alone, MarksTrue
    <3>2. Leaving'
      BY <1>1, <2>1 DEF Leaving, LeavingAt
    <3>3. RefsListed'
      BY <1>1, <1>2, <2>1, <3>1 DEF RefsListed
    <3>4. OneLeaves'
      BY <1>1, <1>2, <2>1, <3>1 DEF OneLeaves, LeavingAt
    <3>5. MarksTrue'
      BY <1>1, <1>2, <2>1, <3>1, <3>2 DEF MarksTrue
    <3> QED BY <3>3, <3>4, <3>5
  <2> QED BY <2>2, <2>3
<1>5. CASE A!Free(x)
  <2>1. /\ pc[x] = "free" /\ pc' = [pc EXCEPT ![x] = "idle"]
        /\ arg' = [arg EXCEPT ![x] = NULL]
        /\ listed' = IF listed = arg[x] THEN NULL ELSE listed
        /\ UNCHANGED <<plugged, mounted, held, st, dwork, told, raced, again>>
    BY <1>5 DEF A!Free
  <2>2. DiskType'
    BY <1>1, <2>1, DriversAssumption DEF DiskType, A!TypeOK
  <2>3. ASSUME Alone' PROVE RefsListed' /\ OneLeaves' /\ MarksTrue'
    <3>1. Alone /\ told = "UMOUNT"
      BY <1>2, <2>1, <2>3 DEF Alone, MarksTrue
    <3>2. \A y \in A!Contexts : pc'[y] = "idle" /\ arg'[y] = NULL
      BY <1>1, <1>2, <2>1, <3>1
    <3>3. listed' = NULL
      BY <1>2, <2>1, <3>1
    <3> QED
      BY <1>2, <2>1, <3>1, <3>2, <3>3
      DEF RefsListed, OneLeaves, MarksTrue, Leaving, LeavingAt
  <2> QED BY <2>2, <2>3
<1> QED BY <1>3, <1>4, <1>5

\* A bus driver's event finds nobody at the state, unless it is noted as an exception
\* (fs_automount.c:147-197).
LEMMA DiskEvents ==
  ASSUME DiskInv,
         \/ A!ConnectNew \/ A!ConnectNoMemory \/ A!ConnectAgain
         \/ A!Disconnect \/ A!DisconnectUnknown
  PROVE  DiskInv'
<1> USE DEF DiskInv, A!disk, A!Go, A!At, A!Enter, A!Return
<1>1. /\ pc["driver"] = "idle" /\ arg["driver"] = NULL
      /\ A!Drv = "driver" /\ A!Lp = "lpwork" /\ A!Contexts = {"driver", "lpwork"}
      /\ pc \in [A!Contexts -> Places] /\ arg \in [A!Contexts -> Mounters \cup {NULL}]
      /\ st \in States /\ listed \in Mounters \cup {NULL}
      /\ dwork \subseteq Mounters \X {"mount", "umount"}
      /\ plugged \in BOOLEAN /\ raced \in BOOLEAN /\ again \in BOOLEAN
  BY DEF A!ConnectNew, A!ConnectNoMemory, A!ConnectAgain, A!Disconnect,
         A!DisconnectUnknown, DiskType, A!TypeOK, States, Places, A!Drv, A!Lp, A!Contexts
\* Nobody is at a state when there is none on the list.
<1>2. ASSUME Alone, listed = NULL
      PROVE  /\ ~Leaving /\ dwork = {}
             /\ \A x \in A!Contexts : pc[x] = "idle" /\ arg[x] = NULL
  <2>1. RefsListed
    BY <1>2
  <2>2. \A x \in A!Contexts : pc[x] = "idle" /\ arg[x] = NULL
    BY <1>2, <2>1 DEF RefsListed, DiskType
  <2>3. dwork = {}
    <3> SUFFICES ASSUME NEW w \in dwork PROVE FALSE
      OBVIOUS
    <3>1. PICK s \in Mounters, k \in {"mount", "umount"} : w = <<s, k>>
      BY <1>1
    <3> QED BY <1>2, <2>1, <3>1, DriversAssumption DEF RefsListed
  <2> QED BY <2>2, <2>3 DEF Leaving, LeavingAt
\* Nor when the event is no exception.
<1>3. ASSUME Alone, listed # NULL, ~A!InRetry(listed)
      PROVE  \A x \in A!Contexts : pc[x] = "idle" /\ arg[x] = NULL
  <2>1. RefsListed
    BY <1>3
  <2>2. arg["lpwork"] = NULL
    BY <1>1, <1>3, <2>1 DEF RefsListed, A!InRetry
  <2> QED BY <1>1, <2>2 DEF DiskType
<1>4. CASE A!ConnectNew
  <2>1. PICK s \in Mounters :
          /\ listed' = s /\ st' = [st EXCEPT ![s] = A!Fresh]
          /\ pc' = [pc EXCEPT !["driver"] = "mount"]
          /\ arg' = [arg EXCEPT !["driver"] = s]
    BY <1>1, <1>4 DEF A!ConnectNew
  <2>2. /\ listed = NULL /\ plugged' = TRUE
        /\ UNCHANGED <<mounted, held, dwork, told, raced, again>>
    BY <1>4 DEF A!ConnectNew
  <2>3. st' \in States /\ st'[s].mounted = FALSE /\ st'[s].announced = FALSE
    <3>1. A!Fresh \in [mounted : BOOLEAN, announced : BOOLEAN, attempts : 0..MaxRetries]
      BY DriversAssumption DEF A!Fresh
    <3> QED BY <1>1, <2>1, <3>1 DEF States, A!Fresh
  <2>4. DiskType'
    BY <1>1, <2>1, <2>2, <2>3, DriversAssumption DEF DiskType, A!TypeOK, States
  <2>5. ASSUME Alone' PROVE RefsListed' /\ OneLeaves' /\ MarksTrue'
    <3>1. Alone
      BY <2>2, <2>5 DEF Alone
    <3>2. ~Leaving'
      BY <1>1, <1>2, <2>1, <2>2, <3>1 DEF Leaving, LeavingAt
    <3>3. RefsListed' /\ OneLeaves'
      BY <1>1, <1>2, <2>1, <2>2, <3>1, <3>2 DEF RefsListed, OneLeaves, Leaving
    <3>4. MarksTrue'
      BY <1>1, <1>2, <2>1, <2>2, <2>3, <3>1 DEF MarksTrue
    <3> QED BY <3>3, <3>4
  <2> QED BY <2>4, <2>5
<1>5. CASE A!ConnectNoMemory \/ A!DisconnectUnknown
  <2>1. /\ listed = NULL /\ plugged' \in BOOLEAN
        /\ UNCHANGED <<mounted, held, listed, st, dwork, pc, arg, told, raced, again>>
    BY <1>5 DEF A!ConnectNoMemory, A!DisconnectUnknown
  <2>2. DiskType'
    BY <2>1 DEF DiskType, A!TypeOK
  <2>3. ASSUME Alone' PROVE RefsListed' /\ OneLeaves' /\ MarksTrue'
    <3>1. Alone
      BY <2>1, <2>3 DEF Alone
    <3> QED
      BY <1>2, <2>1, <3>1 DEF RefsListed, OneLeaves, MarksTrue, Leaving, LeavingAt
  <2> QED BY <2>2, <2>3
<1>6. CASE A!ConnectAgain
  <2>1. /\ listed # NULL /\ plugged' = TRUE
        /\ UNCHANGED <<mounted, held, listed, st, dwork>>
        /\ \/ st[listed].mounted = TRUE /\ told' = "MOUNT" /\ UNCHANGED <<pc, arg>>
           \/ /\ pc' = [pc EXCEPT !["driver"] = "mount"]
              /\ arg' = [arg EXCEPT !["driver"] = listed] /\ told' = told
    BY <1>1, <1>6 DEF A!ConnectAgain, States
  <2>2. /\ raced' \in BOOLEAN /\ again' \in BOOLEAN
        /\ Alone' => Alone /\ ~A!InRetry(listed) /\ <<listed, "umount">> \notin dwork
    BY <1>1, <1>6 DEF A!ConnectAgain, A!Meets, Alone
  <2>3. DiskType'
    BY <1>1, <2>1, <2>2, DriversAssumption DEF DiskType, A!TypeOK
  <2>4. ASSUME Alone' PROVE RefsListed' /\ OneLeaves' /\ MarksTrue'
    <3>1. RefsListed /\ OneLeaves /\ MarksTrue
      BY <2>2, <2>4
    <3>2. \A x \in A!Contexts : pc[x] = "idle" /\ arg[x] = NULL
      BY <1>3, <2>1, <2>2, <2>4
    <3>3. ~Leaving /\ ~Leaving'
      BY <1>1, <2>1, <2>2, <2>4, <3>1, <3>2 DEF Leaving, LeavingAt, RefsListed
    <3>4. RefsListed' /\ OneLeaves'
      BY <1>1, <2>1, <3>1, <3>2, <3>3 DEF RefsListed, OneLeaves, Leaving
    <3>5. MarksTrue'
      BY <1>1, <2>1, <3>1, <3>2, <3>3 DEF MarksTrue
    <3> QED BY <3>4, <3>5
  <2> QED BY <2>3, <2>4
<1>7. CASE A!Disconnect
  <2>1. /\ listed # NULL /\ plugged = TRUE /\ plugged' = FALSE
        /\ dwork' = dwork \ {<<listed, "mount">>}
        /\ \/ /\ pc' = [pc EXCEPT !["driver"] = "umount"]
              /\ arg' = [arg EXCEPT !["driver"] = listed] /\ listed' = listed
           \/ listed' = NULL /\ UNCHANGED <<pc, arg>>
        /\ UNCHANGED <<mounted, held, st, told, again>>
    BY <1>1, <1>7 DEF A!Disconnect
  <2>2. raced' \in BOOLEAN /\ (Alone' => Alone /\ ~A!InRetry(listed))
    BY <1>1, <1>7 DEF A!Disconnect, A!Meets, Alone
  <2>3. DiskType'
    <3>1. plugged' \in BOOLEAN /\ listed' \in Mounters \cup {NULL}
          /\ dwork' \subseteq Mounters \X {"mount", "umount"}
      BY <1>1, <2>1
    <3>2. /\ mounted' \in BOOLEAN /\ held' \in BOOLEAN /\ told' \in {"MOUNT", "UMOUNT"}
          /\ again' \in BOOLEAN /\ st' = st
      BY <2>1 DEF DiskType, A!TypeOK
    <3>3. pc' \in [A!Contexts -> Places] /\ arg' \in [A!Contexts -> Mounters \cup {NULL}]
          /\ \A x \in A!Contexts : pc'[x] = "idle" <=> arg'[x] = NULL
      <4>1. \A x \in A!Contexts : pc[x] = "idle" <=> arg[x] = NULL
        BY DEF DiskType
      <4>2. CASE UNCHANGED <<pc, arg>>
        BY <1>1, <4>1, <4>2
      <4>3. CASE /\ pc' = [pc EXCEPT !["driver"] = "umount"]
                 /\ arg' = [arg EXCEPT !["driver"] = listed]
        <5>1. pc' \in [A!Contexts -> Places] /\ arg' \in [A!Contexts -> Mounters \cup {NULL}]
          BY <1>1, <4>3 DEF Places
        <5>2. pc'["driver"] = "umount" /\ arg'["driver"] # NULL
          BY <1>1, <2>1, <4>3
        <5>3. pc'["lpwork"] = pc["lpwork"] /\ arg'["lpwork"] = arg["lpwork"]
          BY <1>1, <4>3
        <5> QED BY <1>1, <4>1, <5>1, <5>2, <5>3
      <4> QED BY <2>1, <4>2, <4>3
    <3> QED BY <1>1, <2>2, <3>1, <3>2, <3>3 DEF DiskType, A!TypeOK, States, Places
  <2>4. ASSUME Alone' PROVE RefsListed' /\ OneLeaves' /\ MarksTrue'
    <3>1. RefsListed /\ OneLeaves /\ MarksTrue
      BY <2>2, <2>4
    <3>2. \A x \in A!Contexts : pc[x] = "idle" /\ arg[x] = NULL
      BY <1>3, <2>1, <2>2, <2>4
    <3>3. ~Leaving
      BY <2>1, <3>1 DEF OneLeaves
    <3>4. dwork' = {}
      BY <1>1, <2>1, <3>1, <3>3 DEF RefsListed, Leaving
    <3>5. listed' # NULL => Leaving'
      BY <1>1, <2>1 DEF Leaving, LeavingAt
    <3>6. RefsListed' /\ OneLeaves'
      <4>1. arg'["lpwork"] = NULL /\ pc'["lpwork"] = "idle"
        BY <1>1, <2>1, <3>2
      <4>2. arg'["driver"] = NULL \/ arg'["driver"] = listed'
        BY <1>1, <2>1, <3>2
      <4>3. RefsListed'
        BY <1>1, <3>4, <4>1, <4>2 DEF RefsListed
      <4>4. OneLeaves'
        BY <1>1, <2>1, <3>4, <4>1 DEF OneLeaves, LeavingAt
      <4> QED BY <4>3, <4>4
    <3>7. MarksTrue'
      BY <1>1, <2>1, <3>1, <3>2, <3>3, <3>5 DEF MarksTrue
    <3> QED BY <3>6, <3>7
  <2> QED BY <2>3, <2>4
<1> QED BY <1>4, <1>5, <1>6, <1>7

\* A retry finds the state it was queued for on the list (fs_automount.c:76-145).
LEMMA DiskRetries ==
  ASSUME DiskInv, NEW s \in Mounters, A!RetryMount(s) \/ A!RetryUmount(s)
  PROVE  DiskInv'
<1> USE DEF DiskInv, A!disk, A!Go, A!At, A!Enter, A!Return
<1>1. /\ pc["lpwork"] = "idle" /\ A!Lp = "lpwork" /\ "lpwork" \in A!Contexts
      /\ pc \in [A!Contexts -> Places] /\ arg \in [A!Contexts -> Mounters \cup {NULL}]
      /\ listed \in Mounters \cup {NULL} /\ s # NULL
  BY DriversAssumption
  DEF A!RetryMount, A!RetryUmount, DiskType, A!TypeOK, Places, A!Lp, A!Contexts
<1>2. CASE A!RetryMount(s)
  <2>1. /\ <<s, "mount">> \in dwork /\ dwork' = dwork \ {<<s, "mount">>}
        /\ \/ UNCHANGED <<pc, arg>>
           \/ /\ pc' = [pc EXCEPT !["lpwork"] = "mount"]
              /\ arg' = [arg EXCEPT !["lpwork"] = s]
        /\ UNCHANGED <<plugged, mounted, held, listed, st, told, raced, again>>
    BY <1>1, <1>2 DEF A!RetryMount
  <2>2. DiskType'
    BY <1>1, <2>1 DEF DiskType, A!TypeOK
  <2>3. ASSUME Alone' PROVE RefsListed' /\ OneLeaves' /\ MarksTrue'
    <3>1. RefsListed /\ OneLeaves /\ MarksTrue
      BY <2>1, <2>3 DEF Alone
    <3>2. s = listed /\ ~Leaving
      BY <2>1, <3>1 DEF RefsListed, OneLeaves
    <3>3. ~Leaving'
      BY <1>1, <2>1, <3>2 DEF Leaving, LeavingAt
    <3>4. RefsListed'
      BY <1>1, <2>1, <3>1, <3>2 DEF RefsListed
    <3>5. OneLeaves'
      BY <1>1, <2>1, <3>3 DEF OneLeaves, Leaving
    <3>6. MarksTrue'
      BY <1>1, <2>1, <3>1, <3>2, <3>3 DEF MarksTrue
    <3> QED BY <3>4, <3>5, <3>6
  <2> QED BY <2>2, <2>3
<1>3. CASE A!RetryUmount(s)
  <2>1. /\ <<s, "umount">> \in dwork /\ dwork' = dwork \ {<<s, "umount">>}
        /\ pc' = [pc EXCEPT !["lpwork"] = "umount"]
        /\ arg' = [arg EXCEPT !["lpwork"] = s]
        /\ UNCHANGED <<plugged, mounted, held, listed, st, told, raced, again>>
    BY <1>1, <1>3 DEF A!RetryUmount
  <2>2. DiskType'
    BY <1>1, <2>1 DEF DiskType, A!TypeOK
  <2>3. ASSUME Alone' PROVE RefsListed' /\ OneLeaves' /\ MarksTrue'
    <3>1. RefsListed /\ OneLeaves /\ MarksTrue
      BY <2>1, <2>3 DEF Alone
    <3>2. s = listed /\ Leaving /\ plugged = FALSE
      BY <2>1, <3>1 DEF RefsListed, OneLeaves, Leaving
    <3>3. \A x \in A!Contexts : pc[x] = "idle" /\ arg[x] = NULL
      BY <2>1, <3>1 DEF OneLeaves, DiskType
    <3>4. \A r \in Mounters : <<r, "umount">> \notin dwork' /\ <<r, "mount">> \notin dwork'
      BY <2>1, <3>1, <3>2 DEF RefsListed, OneLeaves
    <3>5. Leaving'
      BY <1>1, <2>1 DEF Leaving, LeavingAt
    <3>6. RefsListed'
      BY <1>1, <2>1, <3>2, <3>3, <3>4 DEF RefsListed
    <3>7. OneLeaves'
      BY <1>1, <2>1, <3>2, <3>3, <3>4 DEF OneLeaves, LeavingAt
    <3>8. MarksTrue'
      BY <1>1, <2>1, <3>1, <3>3, <3>5 DEF MarksTrue
    <3> QED BY <3>6, <3>7, <3>8
  <2> QED BY <2>2, <2>3
<1> QED BY <1>2, <1>3

\* Files come and go.
LEMMA DiskFiles ==
  ASSUME DiskInv, A!OpenFile \/ A!CloseFile
  PROVE  DiskInv'
BY DEF A!OpenFile, A!CloseFile, DiskInv, DiskType, A!TypeOK, Alone, RefsListed, OneLeaves,
       MarksTrue, Leaving

\* At first there is no disk.
LEMMA DiskInit == Init => DiskInv
<1> SUFFICES ASSUME Init PROVE DiskInv
  OBVIOUS
<1>1. /\ plugged = FALSE /\ mounted = FALSE /\ held = FALSE /\ listed = NULL
      /\ st = [s \in Mounters |-> A!Fresh] /\ dwork = {} /\ told = "UMOUNT"
      /\ pc = [x \in A!Contexts |-> "idle"] /\ arg = [x \in A!Contexts |-> NULL]
      /\ raced = FALSE /\ again = FALSE
  BY DEF Init, A!Init
<1>2. A!Fresh \in [mounted : BOOLEAN, announced : BOOLEAN, attempts : 0..MaxRetries]
  BY DriversAssumption DEF A!Fresh
<1>3. st \in States
  BY <1>1, <1>2 DEF States
<1>4. DiskType
  BY <1>1, <1>3 DEF DiskType, A!TypeOK, States
<1>5. RefsListed /\ OneLeaves /\ MarksTrue
  BY <1>1 DEF RefsListed, OneLeaves, MarksTrue, Leaving, LeavingAt
<1> QED BY <1>4, <1>5 DEF DiskInv

\* Every step of the board keeps what the automounter rests on.
LEMMA DiskNext == DiskInv /\ [Next]_vars => DiskInv'
<1> SUFFICES ASSUME DiskInv, [Next]_vars PROVE DiskInv'
  OBVIOUS
<1>1. CASE UNCHANGED AutomountVars
  BY <1>1
  DEF AutomountVars, DiskInv, DiskType, A!TypeOK, Alone, RefsListed, OneLeaves, MarksTrue,
      Leaving
<1>2. CASE A!Next
  BY <1>2, DiskMounts, DiskLeaves, DiskEvents, DiskRetries, DiskFiles
  DEF A!Next, A!Step, A!Retry
<1> QED BY <1>1, <1>2, OneMoves

\* Whatever the bus driver and the low-priority queue do to each other short of the
\* exceptions, no state is used after it was freed and no MOUNT outlives its file
\* system (fs_automount.c:76-197).
THEOREM SpecAutomountSafe == Spec => []AutomountSafe
<1>1. DiskInv => AutomountSafe
  <2> SUFFICES ASSUME DiskInv PROVE AutomountSafe
    OBVIOUS
  <2>1. ASSUME A!Plain PROVE RefsListed /\ MarksTrue
    BY <2>1 DEF DiskInv, DiskType, A!TypeOK, Alone, A!Plain
  <2>2. A!NoStaleState
    BY <2>1, DriversAssumption DEF A!NoStaleState, A!Referred, RefsListed
  <2>3. A!ToldTruth
    BY <2>1 DEF A!ToldTruth, MarksTrue
  <2> QED BY <2>2, <2>3 DEF AutomountSafe
<1> QED
  BY DiskInit, DiskNext, <1>1, PTL DEF Spec

-----------------------------------------------------------------------------
(* The notifiers.                                                          *)

\* Every entry is in one hand.
Hands ==
  /\ \A e \in free : e \notin pending
  /\ \A c \in Files : claimed[c] \notin free /\ claimed[c] \notin pending /\ claimed[c] \notin queued
  /\ \A b, c \in Files : claimed[b] = claimed[c] /\ claimed[b] # NULL => b = c
  /\ \A e \in heap :
       \/ e \in free \/ e \in pending \/ \E c \in Files : claimed[c] = e
       \/ oneshot = TRUE /\ (e \in queued \/ e = running)

\* On its way through the work queue a one-shot entry is in no other hand, and has not
\* called back while it is queued or pending.
OnTheWay ==
  /\ \A e \in queued : e \notin free /\ e \notin pending /\ e # running
  /\ running \notin free /\ running \notin pending
  /\ \A c \in Files : claimed[c] # NULL => claimed[c] # running
  /\ \A e \in NEntries : calls[e] <= 1
  /\ \A e \in pending \cup queued : calls[e] = 0

NotifierInv ==
  /\ N!TypeOK
  /\ \A e \in queued : info[e] # NULL
  /\ running # NULL => info[running] # NULL
  /\ Hands
  /\ oneshot = TRUE => OnTheWay

\* No entry is allocated at first and the lists are empty (kwork_notifier.c:79-91).
LEMMA NotifierInit == N!Init => NotifierInv
BY NotifierAssumption DEF N!Init, NotifierInv, N!TypeOK, Hands, OnTheWay

\* A free entry, or one from the heap, goes to the caller alone (kwork_notifier.c:229-258).
LEMMA NotifierClaim ==
  ASSUME NotifierInv, NEW c \in Files, NEW e \in NEntries, N!Claim(c, e)
  PROVE  NotifierInv'
<1>1. /\ claimed[c] = NULL /\ claimed' = [claimed EXCEPT ![c] = e]
      /\ UNCHANGED <<pending, info, queued, running, calls, oneshot>>
      /\ heap' = heap \cup {e} /\ free' = free \ {e}
      /\ e \in free \/ e \notin heap
      /\ e \notin queued
  <2>1. CASE e \in N!Usable /\ free' = free \ {e} /\ UNCHANGED heap
    <3>1. e \in free /\ e \notin queued /\ e \in heap
      BY <2>1 DEF N!Usable, NotifierInv, N!TypeOK
    <3> QED BY <2>1, <3>1 DEF N!Claim, N!work
  <2>2. CASE e \notin heap /\ heap' = heap \cup {e} /\ UNCHANGED free
    <3>1. e \notin free /\ e \notin queued
      BY <2>2 DEF NotifierInv, N!TypeOK
    <3> QED BY <2>2, <3>1 DEF N!Claim, N!work
  <2> QED BY <2>1, <2>2 DEF N!Claim
<1>2. /\ e \notin pending /\ e # NULL /\ \A b \in Files : claimed[b] # e
  BY <1>1, NotifierAssumption DEF NotifierInv, N!TypeOK, Hands
<1>3. ASSUME oneshot = TRUE PROVE e # running
  BY <1>1, <1>2, <1>3 DEF NotifierInv, N!TypeOK, OnTheWay
<1>4. \A b \in Files : claimed'[b] = IF b = c THEN e ELSE claimed[b]
  BY <1>1 DEF NotifierInv, N!TypeOK
<1>5. N!TypeOK'
  BY <1>1, <1>4 DEF NotifierInv, N!TypeOK
<1>6. Hands'
  <2>1. ASSUME NEW x \in heap'
        PROVE  \/ x \in free' \/ x \in pending' \/ \E b \in Files : claimed'[b] = x
               \/ oneshot' = TRUE /\ (x \in queued' \/ x = running')
    <3>1. CASE x = e
      BY <1>4, <3>1
    <3>2. CASE x # e
      <4>1. x \in heap /\ x # NULL
        BY <1>1, <3>2, NotifierAssumption DEF NotifierInv, N!TypeOK
      <4>2. \A b \in Files : claimed[b] = x => claimed'[b] = x
        BY <1>1, <1>4, <4>1
      <4> QED BY <1>1, <3>2, <4>1, <4>2 DEF NotifierInv, Hands
    <3> QED BY <3>1, <3>2
  <2>2. /\ \A x \in free' : x \notin pending'
        /\ \A b \in Files : claimed'[b] \notin free' /\ claimed'[b] \notin pending' /\ claimed'[b] \notin queued'
        /\ \A b, d \in Files : claimed'[b] = claimed'[d] /\ claimed'[b] # NULL => b = d
    BY <1>1, <1>2, <1>4 DEF NotifierInv, Hands
  <2> QED BY <2>1, <2>2 DEF Hands
<1>7. ASSUME oneshot = TRUE PROVE OnTheWay'
  BY <1>1, <1>2, <1>3, <1>4, <1>7 DEF NotifierInv, OnTheWay
<1>8. (\A x \in queued' : info'[x] # NULL) /\ (running' # NULL => info'[running'] # NULL)
  BY <1>1 DEF NotifierInv
<1> QED BY <1>1, <1>5, <1>6, <1>7, <1>8 DEF NotifierInv

\* An entry set up goes to the pending list, under its key (kwork_notifier.c:265-294).
LEMMA NotifierPublish ==
  ASSUME NotifierInv, NEW c \in Files, NEW k \in NKeys, NEW v \in NEvents, N!Publish(c, k, v)
  PROVE  NotifierInv'
<1> DEFINE e == claimed[c]
<1>1. /\ e # NULL
      /\ info' = [info EXCEPT ![e] = [key |-> k, event |-> v, client |-> c]]
      /\ pending' = pending \cup {e} /\ calls' = [calls EXCEPT ![e] = 0]
      /\ claimed' = [claimed EXCEPT ![c] = NULL]
      /\ UNCHANGED <<heap, free, queued, running, oneshot>>
  BY DEF N!Publish
<1>2. /\ e \in heap /\ e \in NEntries /\ e \notin free /\ e \notin pending /\ e \notin queued
      /\ \A b \in Files : b # c => claimed[b] # e
      /\ NULL \notin pending /\ NULL \notin free /\ NULL \notin queued
  BY <1>1, NotifierAssumption DEF NotifierInv, N!TypeOK, Hands
<1>3. \A b \in Files : claimed'[b] = IF b = c THEN NULL ELSE claimed[b]
  BY <1>1 DEF NotifierInv, N!TypeOK
<1>4. /\ info'[e] \in N!Info /\ info'[e] # NULL /\ calls'[e] = 0
      /\ \A x \in NEntries : x # e => info'[x] = info[x] /\ calls'[x] = calls[x]
  <2>1. [key |-> k, event |-> v, client |-> c] \in N!Info
    BY DEF N!Info
  <2> QED BY <1>1, <1>2, <2>1, NotifierAssumption DEF NotifierInv, N!TypeOK
<1>5. /\ info' \in [NEntries -> N!Info \cup {NULL}] /\ calls' \in [NEntries -> 0..2]
      /\ claimed' \in [Files -> heap \cup {NULL}]
  BY <1>1, <1>2, <1>4 DEF NotifierInv, N!TypeOK
<1> HIDE DEF e
<1>6. \A x \in heap : x \in NEntries
  BY DEF NotifierInv, N!TypeOK
<1>7. N!TypeOK'
  BY <1>1, <1>2, <1>4, <1>5, <1>6 DEF NotifierInv, N!TypeOK
<1>8. Hands'
  BY <1>1, <1>2, <1>3 DEF NotifierInv, Hands, e
<1>9. ASSUME oneshot = TRUE PROVE OnTheWay'
  <2>1. OnTheWay
    BY <1>9 DEF NotifierInv
  <2>2. e # running
    BY <1>1, <2>1 DEF OnTheWay, e
  <2>3. \A x \in pending \cup queued : x \in NEntries
    BY <1>6 DEF NotifierInv, N!TypeOK
  <2>4. \A b \in Files : claimed'[b] # NULL => claimed'[b] # running
    BY <1>3, <2>1 DEF OnTheWay
  <2> QED BY <1>1, <1>2, <1>4, <2>1, <2>2, <2>3, <2>4 DEF OnTheWay
<1>10. (\A x \in queued' : info'[x] # NULL) /\ (running' # NULL => info'[running'] # NULL)
  <2>1. \A x \in heap : info[x] # NULL => info'[x] # NULL
    BY <1>4, <1>6
  <2> QED BY <1>1, <2>1 DEF NotifierInv, N!TypeOK
<1> QED BY <1>1, <1>7, <1>8, <1>9, <1>10 DEF NotifierInv

\* Teardown takes an entry off the pending list and frees it (kwork_notifier.c:318-352).
LEMMA NotifierTeardown ==
  ASSUME NotifierInv, NEW k \in NKeys, N!Teardown(k)
  PROVE  NotifierInv'
<1>1. /\ pending' = pending \ N!Find(k) /\ free' = free \cup N!Find(k)
      /\ info' = [e \in NEntries |-> IF e \in N!Find(k) /\ oneshot THEN NULL ELSE info[e]]
      /\ UNCHANGED <<heap, claimed, queued, running, calls, oneshot>>
  BY DEF N!Teardown, N!work
<1>2. N!Find(k) \subseteq pending
  BY DEF N!Find
<1> DEFINE P == N!Find(k)
<1> HIDE DEF P
<1>3. info' \in [NEntries -> N!Info \cup {NULL}]
  BY <1>1 DEF NotifierInv, N!TypeOK
<1>4. \A x \in NEntries : x \notin P => info'[x] = info[x]
  BY <1>1 DEF P
<1>4a. ASSUME oneshot # TRUE, NEW x \in NEntries PROVE info'[x] = info[x]
  <2>1. ~oneshot
    BY <1>4a DEF NotifierInv, N!TypeOK
  <2> QED BY <1>1, <2>1
<1>5. N!TypeOK'
  BY <1>1, <1>2, <1>3, <1>4 DEF NotifierInv, N!TypeOK, P
<1>6. Hands'
  BY <1>1, <1>2 DEF NotifierInv, Hands, P
<1>7. ASSUME oneshot = TRUE PROVE OnTheWay'
  BY <1>1, <1>2, <1>7 DEF NotifierInv, OnTheWay, P
<1>8. (\A x \in queued' : info'[x] # NULL) /\ (running' # NULL => info'[running'] # NULL)
  <2>1. CASE oneshot = TRUE
    <3>1. \A x \in queued \cup {running} : x \notin P
      BY <1>2, <2>1 DEF NotifierInv, OnTheWay, P
    <3> QED BY <1>1, <1>4, <3>1 DEF NotifierInv, N!TypeOK
  <2>2. CASE oneshot # TRUE
    BY <1>1, <1>4a, <2>2 DEF NotifierInv, N!TypeOK
  <2> QED BY <2>1, <2>2
<1> QED BY <1>1, <1>5, <1>6, <1>7, <1>8 DEF NotifierInv

\* A signal takes all that match off the pending list at once, and queues them
\* (kwork_notifier.c:381-439).
LEMMA NotifierSignal ==
  ASSUME NotifierInv, NEW v \in NEvents, N!Signal(v)
  PROVE  NotifierInv'
<1> DEFINE P == N!Matching(v)
<1>1. /\ queued' = queued \cup P
      /\ UNCHANGED <<heap, free, info, claimed, running, calls, oneshot>>
  BY DEF N!Signal
<1>2. P \subseteq pending
  BY DEF N!Matching
<1>3. ASSUME oneshot = TRUE PROVE pending' = pending \ P
  BY <1>3 DEF N!Signal
<1>4. ASSUME oneshot # TRUE PROVE pending' = pending
  <2>1. ~oneshot
    BY <1>4 DEF NotifierInv, N!TypeOK
  <2> QED BY <2>1 DEF N!Signal
<1> HIDE DEF P
<1>5. N!TypeOK'
  BY <1>1, <1>2, <1>3, <1>4 DEF NotifierInv, N!TypeOK
<1>6. Hands'
  <2>1. CASE oneshot = TRUE
    BY <1>1, <1>2, <1>3, <2>1 DEF NotifierInv, Hands
  <2>2. CASE oneshot # TRUE
    BY <1>1, <1>2, <1>4, <2>2 DEF NotifierInv, Hands
  <2> QED BY <2>1, <2>2
<1>7. ASSUME oneshot = TRUE PROVE OnTheWay'
  <2>1. OnTheWay /\ Hands
    BY <1>7 DEF NotifierInv
  <2> QED BY <1>1, <1>2, <1>3, <1>7, <2>1 DEF OnTheWay, Hands
<1>8. (\A x \in queued' : info'[x] # NULL) /\ (running' # NULL => info'[running'] # NULL)
  BY <1>1, <1>2 DEF NotifierInv, N!TypeOK
<1> QED BY <1>1, <1>5, <1>6, <1>7, <1>8 DEF NotifierInv

\* The worker takes an entry off the queue before it calls back (kwork_notifier.c:163-180).
LEMMA NotifierCall ==
  ASSUME NotifierInv, NEW e \in NEntries, N!Call(e)
  PROVE  NotifierInv'
<1>1. /\ running = NULL /\ e \in queued /\ queued' = queued \ {e} /\ running' = e
      /\ calls' = [calls EXCEPT ![e] = IF @ = 0 THEN 1 ELSE 2]
      /\ UNCHANGED <<heap, free, pending, info, claimed, oneshot>>
  BY DEF N!Call, N!lists
<1>2. /\ e \in heap /\ info[e] # NULL /\ calls' \in [NEntries -> 0..2]
      /\ \A x \in NEntries : x # e => calls'[x] = calls[x]
      /\ calls[e] = 0 => calls'[e] = 1
  BY <1>1 DEF NotifierInv, N!TypeOK
<1>3. N!TypeOK'
  BY <1>1, <1>2 DEF NotifierInv, N!TypeOK
<1>4. Hands'
  <2>1. \A x \in heap : x # running
    BY <1>1, NotifierAssumption DEF NotifierInv, N!TypeOK
  <2> QED BY <1>1, <2>1 DEF NotifierInv, Hands
<1>5. ASSUME oneshot = TRUE PROVE OnTheWay'
  <2>1. OnTheWay /\ Hands
    BY <1>5 DEF NotifierInv
  <2>2. calls'[e] = 1 /\ e \notin free /\ e \notin pending /\ \A c \in Files : claimed[c] # e
    BY <1>1, <1>2, <2>1 DEF OnTheWay, Hands
  <2>3. \A x \in pending \cup queued : x \in NEntries
    BY DEF NotifierInv, N!TypeOK
  <2> QED BY <1>1, <1>2, <2>1, <2>2, <2>3 DEF OnTheWay
<1>6. (\A x \in queued' : info'[x] # NULL) /\ (running' # NULL => info'[running'] # NULL)
  BY <1>1, <1>2 DEF NotifierInv
<1> QED BY <1>1, <1>3, <1>4, <1>5, <1>6 DEF NotifierInv

\* After the callback a one-shot entry is freed (kwork_notifier.c:182-191).
LEMMA NotifierFinish ==
  ASSUME NotifierInv, N!Finish
  PROVE  NotifierInv'
<1>1. /\ running # NULL /\ running' = NULL /\ running \in heap
      /\ UNCHANGED <<heap, pending, claimed, queued, calls, oneshot>>
  BY DEF N!Finish, NotifierInv, N!TypeOK
<1>2. CASE oneshot = TRUE
  <2>1. free' = free \cup {running} /\ info' = [info EXCEPT ![running] = NULL]
    BY <1>2 DEF N!Finish
  <2>2. OnTheWay /\ Hands
    BY <1>2 DEF NotifierInv
  <2>3. /\ info' \in [NEntries -> N!Info \cup {NULL}]
        /\ \A x \in NEntries : x # running => info'[x] = info[x]
    BY <2>1 DEF NotifierInv, N!TypeOK
  <2>4. \A x \in pending \cup queued : x # running /\ x \in NEntries
    BY <2>2 DEF NotifierInv, N!TypeOK, OnTheWay
  <2>5. N!TypeOK'
    BY <1>1, <2>1, <2>3, <2>4 DEF NotifierInv, N!TypeOK
  <2>6. NULL \notin pending /\ NULL \notin queued /\ NULL \notin free
        /\ \A c \in Files : claimed[c] # running
    <3>1. NULL \notin pending /\ NULL \notin queued /\ NULL \notin free
      BY NotifierAssumption DEF NotifierInv, N!TypeOK
    <3> QED BY <1>1, <2>2, <3>1 DEF OnTheWay
  <2>7. Hands'
    BY <1>1, <1>2, <2>1, <2>2, <2>4, <2>6 DEF Hands
  <2>8. OnTheWay'
    BY <1>1, <2>1, <2>2, <2>4, <2>6 DEF OnTheWay
  <2>9. \A x \in queued' : info'[x] # NULL
    BY <1>1, <2>3, <2>4 DEF NotifierInv
  <2> QED BY <1>1, <2>5, <2>7, <2>8, <2>9 DEF NotifierInv
<1>3. CASE oneshot # TRUE
  <2>1. free' = free /\ info' = info
    <3>1. ~oneshot
      BY <1>3 DEF NotifierInv, N!TypeOK
    <3> QED BY <3>1 DEF N!Finish
  <2>2. N!TypeOK'
    BY <1>1, <2>1 DEF NotifierInv, N!TypeOK
  <2>3. Hands'
    BY <1>1, <1>3, <2>1 DEF NotifierInv, Hands
  <2> QED BY <1>1, <1>3, <2>1, <2>2, <2>3 DEF NotifierInv
<1> QED BY <1>2, <1>3

\* Every operation on the notifiers leaves each entry in one hand.
LEMMA NotifierNext == NotifierInv /\ [N!Next]_NotifierVars => NotifierInv'
<1> SUFFICES ASSUME NotifierInv, [N!Next]_NotifierVars PROVE NotifierInv'
  OBVIOUS
<1>1. CASE UNCHANGED NotifierVars
  BY <1>1 DEF NotifierVars, NotifierInv, N!TypeOK, Hands, OnTheWay
<1> QED
  BY <1>1, NotifierClaim, NotifierPublish, NotifierTeardown, NotifierSignal, NotifierCall,
     NotifierFinish
  DEF N!Next

\* What the invariant of the notifiers promises.
LEMMA NotifierHolds == NotifierInv => N!TypeOK /\ N!OneHand /\ N!QueueNotWiped /\ N!CalledOnce
<1> SUFFICES ASSUME NotifierInv PROVE N!TypeOK /\ N!OneHand /\ N!QueueNotWiped /\ N!CalledOnce
  OBVIOUS
<1>1. heap \subseteq NEntries /\ NULL \notin heap /\ queued \subseteq heap
  BY NotifierAssumption DEF NotifierInv, N!TypeOK
<1>2. \A e : N!Firing(e) <=> oneshot = TRUE /\ (e \in queued \/ running = e)
  BY DEF N!Firing, NotifierInv, N!TypeOK
<1>3. \A e : N!Held(e) <=> \E c \in Files : claimed[c] = e
  BY DEF N!Held
<1>4. N!OneHand
  <2>1. CASE oneshot = TRUE
    BY <1>1, <1>2, <1>3, <2>1 DEF NotifierInv, Hands, OnTheWay, N!OneHand
  <2>2. CASE oneshot # TRUE
    BY <1>1, <1>2, <1>3, <2>2 DEF NotifierInv, Hands, N!OneHand
  <2> QED BY <2>1, <2>2
<1>5. N!QueueNotWiped
  BY <1>3 DEF NotifierInv, Hands, N!QueueNotWiped
<1>6. N!CalledOnce
  <2>1. ASSUME oneshot PROVE OnTheWay
    BY <2>1 DEF NotifierInv
  <2> QED BY <1>1, <2>1 DEF OnTheWay, N!CalledOnce
<1> QED BY <1>4, <1>5, <1>6 DEF NotifierInv

-----------------------------------------------------------------------------
(* The poll of the sound core.                                             *)

\* Notifiers on their way to the callback's last touch of the device.
Live == pending \cup queued \cup (IF cb \in {"wake", "clear"} THEN {running} ELSE {})

\* A file that is open is where its poller is.
AtPlace(d) ==
  /\ d \notin open => at[d] = "idle" /\ ntkey[d] = NULL
  /\ (d \in hooked) <=> (at[d] \notin {"idle", "hook"})
  /\ got[d] # NULL => at[d] = "store"
  /\ at[d] \in {"claim", "publish", "store"} => ntkey[d] = NULL

\* From before it stores the key on, a poller has something that wakes it.
Woken(d) ==
  at[d] \in {"store", "sleep"} /\ d \notin notified =>
    S!Armed(d) \/ d \in unarmed \/ d \in missed

\* An open file knows the key of its notifier, and a closed one was closed late.
Known(e) ==
  \/ info[e].client \in open /\ info[e].key \in {ntkey[info[e].client], got[info[e].client]}
  \/ info[e].client \notin open /\ info[e].client \in late /\ e \notin pending

KeysApart ==
  \A c, d \in Files : c # d =>
    \A k \in {ntkey[c], got[c]} : k # NULL => k # ntkey[d] /\ k # got[d]

PollInv ==
  /\ oneshot = TRUE
  /\ (cb = "off") <=> (running = NULL)
  /\ \A d \in Files : AtPlace(d) /\ Woken(d)
  /\ \A e \in Live : Known(e)
  /\ \A e, f \in Live : info[e].client = info[f].client => e = f
  /\ KeysApart

\* The operations of the notifiers are those of Notifier.
LEMMA SndOperations ==
  /\ \A d, e : S!N!Claim(d, e) <=> N!Claim(d, e)
  /\ \A d, k, v : S!N!Publish(d, k, v) <=> N!Publish(d, k, v)
  /\ \A k : (S!N!Teardown(k) <=> N!Teardown(k)) /\ S!N!Find(k) = N!Find(k)
  /\ \A v : S!N!Signal(v) <=> N!Signal(v)
  /\ \A e : S!N!Call(e) <=> N!Call(e)
  /\ S!N!Finish <=> N!Finish
<1>1. S!N!Usable = N!Usable /\ (\A k : S!N!InUse(k) <=> N!InUse(k)) /\ (\A k : S!N!Find(k) = N!Find(k))
      /\ (\A v : S!N!Matching(v) = N!Matching(v))
  BY DEF S!N!Usable, N!Usable, S!N!InUse, N!InUse, S!N!Find, N!Find, S!N!Matching, N!Matching
<1>2. \A d, e : S!N!Claim(d, e) <=> N!Claim(d, e)
  BY <1>1 DEF S!N!Claim, N!Claim, S!N!work, N!work
<1>3. \A d, k, v : S!N!Publish(d, k, v) <=> N!Publish(d, k, v)
  BY <1>1 DEF S!N!Publish, N!Publish
<1>4. \A k : S!N!Teardown(k) <=> N!Teardown(k)
  BY <1>1 DEF S!N!Teardown, N!Teardown, S!N!work, N!work
<1>5. \A v : S!N!Signal(v) <=> N!Signal(v)
  BY <1>1 DEF S!N!Signal, N!Signal
<1>6. \A e : S!N!Call(e) <=> N!Call(e)
  BY DEF S!N!Call, N!Call, S!N!lists, N!lists
<1>7. S!N!Finish <=> N!Finish
  BY DEF S!N!Finish, N!Finish
<1> QED BY <1>1, <1>2, <1>3, <1>4, <1>5, <1>6, <1>7

\* The sound core touches the lists of the notifiers by their operations only
\* (snd_core.c:113-122, 529-531).
LEMMA SndUses ==
  ASSUME S!TypeOK, S!Next
  PROVE  [N!Next]_NotifierVars
<1> USE DEF NotifierVars, S!notifier
<1>1. ASSUME NEW d \in Files, S!Open(d) \/ S!Poll(d) \/ S!PollStep(d) \/ S!Close(d) \/ S!Xfer(d)
      PROVE  [N!Next]_NotifierVars
  <2>1. CASE S!Open(d)
    BY <2>1 DEF S!Open
  <2>2. CASE S!Poll(d)
    BY <2>2 DEF S!Poll
  <2>3. CASE S!Hook(d)
    BY <2>3 DEF S!Hook
  <2>4. CASE S!GetAvail(d)
    BY <2>4 DEF S!GetAvail
  <2>5. CASE S!TestKey(d)
    BY <2>5 DEF S!TestKey
  <2>6. CASE S!Claim(d)
    BY <2>6, SndOperations DEF S!Claim, N!Next
  <2>7. CASE S!Publish(d)
    <3>1. PICK k \in SndKeys : S!N!Publish(d, k, S!Avail)
      BY <2>7 DEF S!Publish
    <3>2. N!Publish(d, k, S!Avail) /\ k \in NKeys /\ S!Avail \in NEvents
      BY <3>1, SndOperations, NotifierAssumption
    <3> QED BY <3>2 DEF N!Next
  <2>8. CASE S!StoreKey(d)
    BY <2>8 DEF S!StoreKey
  <2>9. CASE S!Wake(d)
    BY <2>9 DEF S!Wake
  <2>10. CASE S!Close(d)
    <3>1. CASE ntkey[d] # NULL
      <4>1. ntkey[d] \in NKeys
        BY <3>1, NotifierAssumption DEF S!TypeOK
      <4> QED BY <2>10, <3>1, <4>1, SndOperations DEF S!Close, N!Next
    <3>2. CASE ntkey[d] = NULL
      BY <2>10, <3>2 DEF S!Close
    <3> QED BY <3>1, <3>2
  <2>11. CASE S!Xfer(d)
    BY <2>11 DEF S!Xfer
  <2> QED
    BY <1>1, <2>1, <2>2, <2>3, <2>4, <2>5, <2>6, <2>7, <2>8, <2>9, <2>10, <2>11 DEF S!PollStep
<1>2. CASE S!Period
  BY <1>2 DEF S!Period
<1>3. CASE S!SignalAvail
  BY <1>3, SndOperations, NotifierAssumption DEF S!SignalAvail, N!Next
<1>4. CASE S!Call
  BY <1>4, SndOperations DEF S!Call, N!Next
<1>5. CASE S!CallbackWakes
  BY <1>5 DEF S!CallbackWakes
<1>6. CASE S!CallbackClears
  BY <1>6 DEF S!CallbackClears
<1>7. CASE S!CallbackReturns
  BY <1>7, SndOperations DEF S!CallbackReturns, N!Next
<1> QED
  BY <1>1, <1>2, <1>3, <1>4, <1>5, <1>6, <1>7 DEF S!Next, S!Callback

\* What is known of notifiers that are live.
LEMMA LiveEntries ==
  ASSUME NotifierInv, PollInv
  PROVE  /\ OnTheWay /\ Hands
         /\ \A e \in Live : e \in NEntries /\ info[e].client \in Files /\ info[e].key \in NKeys /\ info[e].key # NULL
         /\ cb # "off" => running \in NEntries /\ running # NULL
         /\ NULL \notin Live
<1>1. OnTheWay /\ Hands
  BY DEF NotifierInv, PollInv
<1>2. cb # "off" => running \in heap /\ running # NULL
  BY DEF NotifierInv, N!TypeOK, PollInv
<1>3. \A e \in Live : e \in heap /\ info[e] # NULL
  BY <1>2 DEF Live, NotifierInv, N!TypeOK
<1>4. \A e \in heap : e \in NEntries /\ e # NULL
  BY NotifierAssumption DEF NotifierInv, N!TypeOK
<1>5. \A e \in Live : info[e] \in N!Info
  BY <1>3, <1>4 DEF NotifierInv, N!TypeOK
<1>6. \A i \in N!Info : i.client \in Files /\ i.key \in NKeys /\ i.key # NULL
  BY NotifierAssumption DEF N!Info
<1> QED BY <1>1, <1>2, <1>3, <1>4, <1>5, <1>6

\* Steps that touch neither the notifiers that are live nor what is known of them.
LEMMA SndQuiet ==
  ASSUME PollInv,
         UNCHANGED <<pending, queued, running, info, oneshot, cb, open, ntkey, got, late>>,
         NEW d \in Files,
         \A x \in Files \ {d} :
           /\ at'[x] = at[x] /\ ((x \in hooked') <=> (x \in hooked))
           /\ x \in notified => x \in notified'
           /\ x \in unarmed => x \in unarmed'
           /\ x \in missed => x \in missed',
         AtPlace(d)', Woken(d)'
  PROVE  PollInv'
<1>1. Live' = Live
  BY DEF Live
<1>2. \A x : S!Armed(x)' <=> S!Armed(x)
  BY DEF S!Armed, S!Arg
<1>3. \A e \in Live : Known(e)'
  BY DEF PollInv, Known
<1>4. KeysApart'
  BY DEF PollInv, KeysApart
<1>5. \A x \in Files \ {d} : AtPlace(x)' /\ Woken(x)'
  BY <1>2 DEF PollInv, AtPlace, Woken
<1>6. \A x \in Files : AtPlace(x)' /\ Woken(x)'
  BY <1>5
<1>7. oneshot' = TRUE /\ ((cb' = "off") <=> (running' = NULL))
  BY DEF PollInv
<1>8. \A e, f \in Live' : info'[e].client = info'[f].client => e = f
  BY <1>1 DEF PollInv
<1> HIDE DEF Live
<1> QED BY <1>1, <1>3, <1>4, <1>6, <1>7, <1>8 DEF PollInv

\* The steps of a poller that is on its way to sleep or back (snd_core.c:500-537).
LEMMA SndPollerMoves ==
  ASSUME S!TypeOK, PollInv, NEW d \in Files,
         S!Poll(d) \/ S!Hook(d) \/ S!GetAvail(d) \/ S!TestKey(d) \/ S!Wake(d) \/ S!Xfer(d)
  PROVE  S!TypeOK' /\ PollInv'
<1>1. UNCHANGED <<pending, queued, running, info, oneshot, cb, open, ntkey, got, late>>
  BY DEF S!Poll, S!Hook, S!GetAvail, S!TestKey, S!Wake, S!Xfer, S!notifier, S!poller
<1>2. AtPlace(d) /\ Woken(d)
  BY DEF PollInv
<1>3. at \in [Files -> S!Places] /\ hooked \subseteq open
  BY DEF S!TypeOK
<1>4. \A x : S!Armed(x)' <=> S!Armed(x)
  BY <1>1 DEF S!Armed, S!Arg
<1> USE DEF S!At, S!Go, S!driver
<1> DEFINE Others ==
      \A x \in Files \ {d} :
        /\ at'[x] = at[x] /\ ((x \in hooked') <=> (x \in hooked))
        /\ x \in notified => x \in notified'
        /\ x \in unarmed => x \in unarmed'
        /\ x \in missed => x \in missed'
<1> SUFFICES S!TypeOK' /\ Others /\ AtPlace(d)' /\ Woken(d)'
  <2>1. Others /\ AtPlace(d)' /\ Woken(d)' => PollInv'
    BY <1>1, SndQuiet
  <2> QED BY <2>1
<1>5. CASE S!Poll(d)
  <2>1. at' = [at EXCEPT ![d] = "hook"] /\ at[d] = "idle" /\ d \in open
        /\ UNCHANGED <<hooked, notified, unarmed, missed, avail, signalling>>
    BY <1>5 DEF S!Poll
  <2>2. at'[d] = "hook" /\ \A x \in Files \ {d} : at'[x] = at[x]
    BY <1>3, <2>1
  <2>3. S!TypeOK'
    BY <1>1, <2>1 DEF S!TypeOK, S!Places
  <2> QED BY <1>1, <1>2, <2>1, <2>2, <2>3 DEF AtPlace, Woken
<1>6. CASE S!Hook(d)
  <2>1. at' = [at EXCEPT ![d] = "avail"] /\ at[d] = "hook" /\ hooked' = hooked \cup {d}
        /\ UNCHANGED <<notified, unarmed, missed, avail, signalling>>
    BY <1>6 DEF S!Hook
  <2>2. at'[d] = "avail" /\ \A x \in Files \ {d} : at'[x] = at[x]
    BY <1>3, <2>1
  <2>3. d \in open
    BY <1>2, <2>1 DEF AtPlace
  <2>4. S!TypeOK'
    BY <1>1, <2>1, <2>3 DEF S!TypeOK, S!Places
  <2> QED BY <1>1, <1>2, <2>1, <2>2, <2>3, <2>4 DEF AtPlace, Woken
<1>7. CASE S!GetAvail(d)
  <2>1. at[d] = "avail" /\ UNCHANGED <<unarmed, missed, avail, signalling>>
    BY <1>7 DEF S!GetAvail
  <2>2. CASE avail
    <3>1. at' = [at EXCEPT ![d] = "idle"] /\ hooked' = hooked \ {d} /\ notified' = notified \ {d}
      BY <1>7, <2>2 DEF S!GetAvail
    <3>2. at'[d] = "idle" /\ \A x \in Files \ {d} : at'[x] = at[x]
      BY <1>3, <3>1
    <3>3. S!TypeOK'
      BY <1>1, <2>1, <3>1 DEF S!TypeOK, S!Places
    <3> QED BY <1>1, <1>2, <2>1, <3>1, <3>2, <3>3 DEF AtPlace, Woken
  <2>3. CASE ~avail
    <3>1. at' = [at EXCEPT ![d] = "armed"] /\ UNCHANGED <<hooked, notified>>
      BY <1>7, <2>3 DEF S!GetAvail
    <3>2. at'[d] = "armed" /\ \A x \in Files \ {d} : at'[x] = at[x]
      BY <1>3, <3>1
    <3>3. S!TypeOK'
      BY <1>1, <2>1, <3>1 DEF S!TypeOK, S!Places
    <3> QED BY <1>1, <1>2, <2>1, <3>1, <3>2, <3>3 DEF AtPlace, Woken
  <2> QED BY <2>2, <2>3
<1>8. CASE S!TestKey(d)
  <2>1. /\ at[d] = "armed" /\ at' = [at EXCEPT ![d] = IF ntkey[d] = NULL THEN "claim" ELSE "sleep"]
        /\ missed' = IF ntkey[d] # NULL /\ ~S!Armed(d) THEN missed \cup {d} ELSE missed
        /\ UNCHANGED <<hooked, notified, unarmed, avail, signalling>>
    BY <1>8 DEF S!TestKey
  <2>2. at'[d] = (IF ntkey[d] = NULL THEN "claim" ELSE "sleep")
        /\ \A x \in Files \ {d} : at'[x] = at[x]
    BY <1>3, <2>1
  <2>3. S!TypeOK'
    BY <1>1, <2>1 DEF S!TypeOK, S!Places
  <2>4. missed \subseteq missed'
    BY <2>1
  <2>5. AtPlace(d)'
    BY <1>1, <1>2, <2>1, <2>2 DEF AtPlace
  <2>6. Woken(d)'
    BY <1>4, <2>1, <2>2 DEF Woken
  <2> QED BY <1>1, <2>1, <2>2, <2>3, <2>4, <2>5, <2>6
<1>9. CASE S!Wake(d)
  <2>1. /\ at[d] = "sleep" /\ at' = [at EXCEPT ![d] = "avail"] /\ notified' = notified \ {d}
        /\ unarmed' = unarmed \ {d} /\ missed' = missed \ {d}
        /\ UNCHANGED <<hooked, avail, signalling>>
    BY <1>9 DEF S!Wake
  <2>2. at'[d] = "avail" /\ \A x \in Files \ {d} : at'[x] = at[x]
    BY <1>3, <2>1
  <2>3. S!TypeOK'
    BY <1>1, <2>1 DEF S!TypeOK, S!Places
  <2> QED BY <1>1, <1>2, <2>1, <2>2, <2>3 DEF AtPlace, Woken
<1>10. CASE S!Xfer(d)
  <2>1. UNCHANGED <<at, hooked, notified, unarmed, missed, signalling>> /\ avail' = FALSE
    BY <1>10 DEF S!Xfer, S!poller
  <2>2. S!TypeOK'
    BY <1>1, <2>1 DEF S!TypeOK
  <2> QED BY <1>1, <1>2, <1>4, <2>1, <2>2 DEF AtPlace, Woken
<1> QED BY <1>5, <1>6, <1>7, <1>8, <1>9, <1>10

\* Setting up a notifier: an entry is claimed, or there is none (kwork_notifier.c:217-261).
LEMMA SndClaim ==
  ASSUME S!TypeOK, PollInv, NEW d \in Files, S!Claim(d)
  PROVE  S!TypeOK' /\ PollInv'
<1>1. /\ at[d] = "claim" /\ UNCHANGED <<cb, open, ntkey, got, late, hooked, notified, missed, avail, signalling>>
  BY DEF S!Claim, S!At, S!driver
<1>2. UNCHANGED <<pending, queued, running, info, oneshot>>
  BY SndOperations DEF S!Claim, S!notifier, N!Claim, N!work
<1>3. \/ at' = [at EXCEPT ![d] = "publish"] /\ unarmed' = unarmed
      \/ at' = [at EXCEPT ![d] = "sleep"] /\ unarmed' = unarmed \cup {d}
  BY DEF S!Claim, S!Go
<1>4. at \in [Files -> S!Places] /\ AtPlace(d)
  BY DEF S!TypeOK, PollInv
<1>5. /\ at'[d] = "publish" \/ (at'[d] = "sleep" /\ d \in unarmed')
      /\ \A x \in Files \ {d} : at'[x] = at[x]
      /\ unarmed \subseteq unarmed'
  BY <1>3, <1>4
<1>6. S!TypeOK'
  BY <1>1, <1>3 DEF S!TypeOK, S!Places
<1>7. AtPlace(d)' /\ Woken(d)'
  BY <1>1, <1>4, <1>5 DEF AtPlace, Woken
<1> QED BY <1>1, <1>2, <1>5, <1>6, <1>7, SndQuiet

\* The notifier is linked under a key nobody holds (kwork_notifier.c:263-294).
LEMMA SndPublish ==
  ASSUME S!TypeOK, NotifierInv, PollInv, NEW d \in Files, S!Publish(d)
  PROVE  S!TypeOK' /\ PollInv'
<1>1. PICK k \in SndKeys :
        /\ \A c \in Files : k \notin {ntkey[c], got[c]}
        /\ N!Publish(d, k, S!Avail)
        /\ got' = [got EXCEPT ![d] = k]
  BY SndOperations DEF S!Publish
<1>2. /\ at[d] = "publish" /\ at' = [at EXCEPT ![d] = "store"]
      /\ UNCHANGED <<cb, open, ntkey, late, hooked, notified, unarmed, missed, avail, signalling>>
  BY DEF S!Publish, S!At, S!Go, S!driver
<1>0. PICK n : n = claimed[d]
  OBVIOUS
<1>3. /\ n # NULL /\ pending' = pending \cup {n} /\ UNCHANGED <<queued, running, oneshot>>
      /\ info' = [info EXCEPT ![n] = [key |-> k, event |-> S!Avail, client |-> d]]
  BY <1>0, <1>1 DEF N!Publish
<1>4. k # NULL /\ k \in NKeys
  BY NotifierAssumption
<1>5. /\ n \in NEntries /\ n \notin Live
  <2>1. n \notin pending /\ n \notin queued /\ n # running /\ n \in NEntries
    BY <1>0, <1>3, LiveEntries DEF Hands, OnTheWay, NotifierInv, N!TypeOK
  <2> QED BY <2>1 DEF Live
<1>6. /\ info'[n].key = k /\ info'[n].client = d
      /\ \A e \in NEntries : e # n => info'[e] = info[e]
  BY <1>3, <1>5 DEF NotifierInv, N!TypeOK
<1>7. Live' = Live \cup {n}
  BY <1>2, <1>3 DEF Live
<1>8. at \in [Files -> S!Places] /\ got \in [Files -> SndKeys \cup {NULL}]
      /\ ntkey \in [Files -> SndKeys \cup {NULL}]
  BY DEF S!TypeOK
<1>9. /\ at'[d] = "store" /\ got'[d] = k
      /\ \A x \in Files : x # d => at'[x] = at[x] /\ got'[x] = got[x]
  BY <1>1, <1>2, <1>8
<1>10. AtPlace(d) /\ ntkey[d] = NULL /\ got[d] = NULL /\ d \in open /\ d \in hooked
  BY <1>2 DEF PollInv, AtPlace
<1>11. S!TypeOK'
  BY <1>1, <1>2 DEF S!TypeOK, S!Places
<1>12. \A x \in Files : AtPlace(x)'
  BY <1>2, <1>9, <1>10 DEF PollInv, AtPlace
<1>13. \A e \in Live : /\ e # n /\ info'[e] = info[e]
                       /\ info[e].key # NULL /\ info[e].client \in Files
  BY <1>5, <1>6, LiveEntries
<1>14. \A e \in Live : info[e].client # d
  BY <1>10, <1>13 DEF PollInv, Known
<1>15. \A e \in Live' : Known(e)'
  <2>1. Known(n)'
    BY <1>2, <1>6, <1>9, <1>10 DEF Known
  <2>2. ASSUME NEW e \in Live PROVE Known(e)'
    <3>1. Known(e) /\ e # n /\ info'[e] = info[e] /\ info[e].client # d /\ info[e].client \in Files
      BY <1>13, <1>14 DEF PollInv
    <3>2. got'[info[e].client] = got[info[e].client]
      BY <1>9, <3>1
    <3> QED BY <1>2, <1>3, <3>1, <3>2 DEF Known
  <2> QED BY <1>7, <2>1, <2>2
<1>16. \A e, f \in Live' : info'[e].client = info'[f].client => e = f
  BY <1>6, <1>7, <1>13, <1>14 DEF PollInv
<1>17. KeysApart'
  <2>1. KeysApart
    BY DEF PollInv
  <2> QED BY <1>1, <1>2, <1>9, <1>10, <2>1 DEF KeysApart
<1>18. ASSUME NEW x \in Files PROVE Woken(x)'
  <2>1. CASE x = d
    <3>1. S!Armed(d)'
      BY <1>3, <1>6 DEF S!Armed
    <3> QED BY <2>1, <3>1 DEF Woken
  <2>2. CASE x # d
    <3>1. S!Armed(x) => S!Armed(x)'
      <4>1. \A e \in pending \cup queued : e \in pending' \cup queued' /\ info'[e] = info[e]
        BY <1>3, <1>13 DEF Live
      <4>2. cb = "wake" => info'[running'] = info[running] /\ cb' = "wake"
        BY <1>2, <1>3, <1>13 DEF Live
      <4> QED BY <4>1, <4>2 DEF S!Armed, S!Arg
    <3> QED BY <1>2, <1>9, <2>2, <3>1 DEF PollInv, Woken
  <2> QED BY <2>1, <2>2
<1> HIDE DEF Live
<1> QED BY <1>2, <1>3, <1>11, <1>12, <1>15, <1>16, <1>17, <1>18 DEF PollInv

\* The key is stored, even if the notifier was signalled meanwhile (snd_core.c:529-533).
LEMMA SndStoreKey ==
  ASSUME S!TypeOK, NotifierInv, PollInv, NEW d \in Files, S!StoreKey(d)
  PROVE  S!TypeOK' /\ PollInv'
<1>1. /\ at[d] = "store" /\ at' = [at EXCEPT ![d] = "sleep"]
      /\ ntkey' = [ntkey EXCEPT ![d] = got[d]] /\ got' = [got EXCEPT ![d] = NULL]
      /\ UNCHANGED <<pending, queued, running, info, oneshot, cb, open, late, hooked, notified,
                     unarmed, missed, avail, signalling>>
  BY DEF S!StoreKey, S!At, S!Go, S!driver, S!notifier
<1>2. at \in [Files -> S!Places] /\ got \in [Files -> SndKeys \cup {NULL}]
      /\ ntkey \in [Files -> SndKeys \cup {NULL}]
  BY DEF S!TypeOK
<1>3. /\ at'[d] = "sleep" /\ got'[d] = NULL /\ ntkey'[d] = got[d]
      /\ \A x \in Files : x # d => at'[x] = at[x] /\ got'[x] = got[x] /\ ntkey'[x] = ntkey[x]
  BY <1>1, <1>2
<1>4. AtPlace(d) /\ Woken(d) /\ ntkey[d] = NULL /\ d \in open /\ d \in hooked
  BY <1>1 DEF PollInv, AtPlace
<1>5. S!TypeOK'
  BY <1>1, <1>2 DEF S!TypeOK, S!Places
<1>6. \A x \in Files : AtPlace(x)'
  BY <1>1, <1>3, <1>4 DEF PollInv, AtPlace
<1>7. \A x : S!Armed(x)' <=> S!Armed(x)
  BY <1>1 DEF S!Armed, S!Arg
<1>8. \A x \in Files : Woken(x)'
  BY <1>1, <1>3, <1>4, <1>7 DEF PollInv, Woken
<1>9. Live' = Live
  BY <1>1 DEF Live
<1>10. \A x \in Files : {ntkey'[x], got'[x]} \subseteq {ntkey[x], got[x], NULL}
                        /\ \A k \in {ntkey[x], got[x]} : k # NULL => k \in {ntkey'[x], got'[x]}
  BY <1>3, <1>4
<1>11. KeysApart'
  BY <1>10 DEF PollInv, KeysApart
<1>12. ASSUME NEW e \in Live, info[e].client \in Files, info[e].key # NULL PROVE Known(e)'
  BY <1>1, <1>10, <1>12 DEF PollInv, Known
<1>13. \A e, f \in Live' : info'[e].client = info'[f].client => e = f
  BY <1>1, <1>9 DEF PollInv
<1>14. \A e \in Live' : Known(e)'
  BY <1>9, <1>12, LiveEntries
<1> HIDE DEF Live
<1> QED BY <1>1, <1>5, <1>6, <1>8, <1>11, <1>13, <1>14 DEF PollInv

\* A file is opened that no callback refers to.
LEMMA SndOpen ==
  ASSUME S!TypeOK, NotifierInv, PollInv, NEW d \in Files, S!Open(d)
  PROVE  S!TypeOK' /\ PollInv'
<1>1. /\ d \notin open /\ ~S!Armed(d) /\ (cb = "clear" => S!Arg # d)
      /\ open' = open \cup {d} /\ ntkey' = [ntkey EXCEPT ![d] = NULL] /\ late' = late \ {d}
      /\ UNCHANGED <<pending, queued, running, info, oneshot, cb, at, got, hooked, notified,
                     unarmed, missed, avail, signalling>>
  BY DEF S!Open, S!driver, S!poller, S!notifier
<1>2. AtPlace(d) /\ at[d] = "idle" /\ ntkey[d] = NULL /\ got[d] = NULL /\ d \notin hooked
  BY <1>1 DEF PollInv, AtPlace
<1>3. ntkey' = ntkey
  BY <1>1, <1>2 DEF S!TypeOK
<1>4. S!TypeOK'
  BY <1>1, <1>3 DEF S!TypeOK
<1>5. \A x : S!Armed(x)' <=> S!Armed(x)
  BY <1>1 DEF S!Armed, S!Arg
<1>6. \A x \in Files : AtPlace(x)' /\ Woken(x)'
  BY <1>1, <1>2, <1>3, <1>5 DEF PollInv, AtPlace, Woken
<1>7. \A e \in Live : info[e].client # d
  BY <1>1 DEF Live, S!Armed, S!Arg
<1>8. Live' = Live
  BY <1>1 DEF Live
<1>9. \A e \in Live : Known(e)'
  BY <1>1, <1>3, <1>7 DEF PollInv, Known
<1>10. KeysApart'
  BY <1>1, <1>3 DEF PollInv, KeysApart
<1>11. \A e, f \in Live' : info'[e].client = info'[f].client => e = f
  BY <1>1, <1>8 DEF PollInv
<1> HIDE DEF Live
<1> QED BY <1>1, <1>4, <1>6, <1>8, <1>9, <1>10, <1>11 DEF PollInv

\* Closing tears the notifier down, or finds it signalled (snd_core.c:113-122).
LEMMA SndClose ==
  ASSUME S!TypeOK, NotifierInv, PollInv, NEW d \in Files, S!Close(d)
  PROVE  S!TypeOK' /\ PollInv'
<1>1. /\ at[d] = "idle" /\ d \in open /\ open' = open \ {d}
      /\ ntkey' = [ntkey EXCEPT ![d] = NULL]
      /\ UNCHANGED <<cb, at, got, hooked, notified, unarmed, missed, avail, signalling>>
  BY DEF S!Close, S!At, S!driver, S!poller
<1>2. AtPlace(d) /\ got[d] = NULL /\ d \notin hooked
  BY <1>1 DEF PollInv, AtPlace
<1>3. ntkey'[d] = NULL /\ \A x \in Files : x # d => ntkey'[x] = ntkey[x]
  BY <1>1 DEF S!TypeOK
<1>4. late' = late \/ late' = late \cup {d}
  BY DEF S!Close
<1>5. S!TypeOK'
  BY <1>1, <1>2, <1>4 DEF S!TypeOK
<1>6. \A x \in Files : AtPlace(x)'
  BY <1>1, <1>2, <1>3 DEF PollInv, AtPlace
<1>7. KeysApart'
  BY <1>1, <1>3 DEF PollInv, KeysApart
<1>8. CASE ntkey[d] = NULL
  <2>1. UNCHANGED <<pending, queued, running, info, oneshot, late>>
    BY <1>8 DEF S!Close, S!notifier
  <2>2. Live' = Live
    BY <1>1, <2>1 DEF Live
  <2>3. \A x : S!Armed(x)' <=> S!Armed(x)
    BY <1>1, <2>1 DEF S!Armed, S!Arg
  <2>4. \A x \in Files : Woken(x)'
    BY <1>1, <2>1, <2>3 DEF PollInv, Woken
  <2>5. ASSUME NEW e \in Live PROVE info[e].client # d
    <3>1. Known(e) /\ info[e].key # NULL
      BY LiveEntries DEF PollInv
    <3> QED BY <1>1, <1>2, <1>8, <3>1 DEF Known
  <2>6. ASSUME NEW e \in Live PROVE Known(e)'
    <3>1. Known(e) /\ info[e].client \in Files /\ info[e].client # d
      BY <2>5, LiveEntries DEF PollInv
    <3> QED BY <1>1, <1>3, <2>1, <3>1 DEF Known
  <2>7. \A e, f \in Live' : info'[e].client = info'[f].client => e = f
    BY <2>1, <2>2 DEF PollInv
  <2>8. oneshot' = TRUE /\ ((cb' = "off") <=> (running' = NULL))
    BY <1>1, <2>1 DEF PollInv
  <2> HIDE DEF Live
  <2> QED BY <1>5, <1>6, <1>7, <2>2, <2>4, <2>6, <2>7, <2>8 DEF PollInv
<1>9. CASE ntkey[d] # NULL
  <2>0. PICK P : P = N!Find(ntkey[d])
    OBVIOUS
  <2>1. /\ pending' = pending \ P /\ UNCHANGED <<queued, running, oneshot>>
        /\ info' = [e \in NEntries |-> IF e \in P /\ oneshot THEN NULL ELSE info[e]]
        /\ late' = IF P = {} THEN late \cup {d} ELSE late
    BY <1>9, <2>0, SndOperations DEF S!Close, N!Teardown, N!work
  <2>2. P = {e \in pending : info[e].key = ntkey[d]}
    BY <2>0 DEF N!Find
  <2>3. \A e \in Live : /\ Known(e) /\ e \in NEntries /\ info[e].client \in Files
                        /\ info[e].key # NULL
    BY LiveEntries DEF PollInv
  <2>4. \A e \in pending : e \in Live
    BY DEF Live
  <2>5. ASSUME NEW e \in Live, info[e].client = d PROVE info[e].key = ntkey[d]
    BY <1>1, <1>2, <2>3, <2>5 DEF Known
  <2>6. ASSUME NEW e \in P PROVE info[e].client = d
    <3>1. e \in Live /\ e \in pending /\ info[e].key = ntkey[d] /\ info[e].key # NULL
          /\ info[e].client \in Files
      BY <2>2, <2>3, <2>4
    <3>2. info[e].key \in {ntkey[info[e].client], got[info[e].client]}
      BY <2>3, <3>1 DEF Known
    <3> QED BY <1>9, <3>1, <3>2 DEF PollInv, KeysApart
  <2>7. \A e \in queued \cup {running} : e \notin P
    BY <2>2, LiveEntries DEF OnTheWay
  <2>8. Live' = Live \ P
    BY <1>1, <2>1, <2>2, <2>7 DEF Live
  <2>9. \A e \in Live' : info'[e] = info[e]
    BY <2>1, <2>3, <2>8
  <2>10. ASSUME NEW e \in Live' PROVE Known(e)'
    <3>1. e \in Live /\ e \notin P /\ info'[e] = info[e] /\ info[e].client \in Files
      BY <2>3, <2>8, <2>9
    <3>2. CASE info[e].client = d
      <4>1. e \notin pending
        BY <2>2, <2>5, <3>1, <3>2
      <4>2. P = {}
        <5> SUFFICES ASSUME NEW f \in P PROVE FALSE
          OBVIOUS
        <5>1. f \in Live /\ info[f].client = d
          BY <2>2, <2>4, <2>6
        <5> QED BY <3>1, <3>2, <5>1 DEF PollInv
      <4> QED BY <1>1, <2>1, <3>1, <3>2, <4>1, <4>2 DEF Known
    <3>3. CASE info[e].client # d
      <4>1. Known(e)
        BY <2>3, <3>1
      <4> QED BY <1>1, <1>3, <1>4, <2>1, <3>1, <3>3, <4>1 DEF Known
    <3> QED BY <3>2, <3>3
  <2>11. \A e, f \in Live' : info'[e].client = info'[f].client => e = f
    BY <2>8, <2>9 DEF PollInv
  <2>12. ASSUME NEW x \in Files, x # d, S!Armed(x) PROVE S!Armed(x)'
    <3>1. CASE cb = "wake" /\ S!Arg = x
      <4>1. running \in Live'
        BY <1>1, <2>1, <3>1 DEF Live
      <4> QED BY <1>1, <2>1, <2>9, <3>1, <4>1 DEF S!Armed, S!Arg
    <3>2. CASE \E e \in pending \cup queued : info[e].client = x
      <4>1. PICK e \in pending \cup queued : info[e].client = x
        BY <3>2
      <4>2. e \notin P
        BY <2>6, <2>12, <4>1
      <4>3. e \in pending' \cup queued' /\ e \in Live'
        BY <2>1, <4>2 DEF Live
      <4> QED BY <2>9, <4>1, <4>3 DEF S!Armed
    <3> QED BY <2>12, <3>1, <3>2 DEF S!Armed
  <2>13. \A x \in Files : Woken(x)'
    BY <1>1, <2>12 DEF PollInv, Woken
  <2>14. oneshot' = TRUE /\ ((cb' = "off") <=> (running' = NULL))
    BY <1>1, <2>1 DEF PollInv
  <2> HIDE DEF Live
  <2> QED BY <1>5, <1>6, <1>7, <2>10, <2>11, <2>13, <2>14 DEF PollInv
<1> QED BY <1>8, <1>9

\* Frames and their signal (kwork_notifier.c:381-439).
LEMMA SndSignal ==
  ASSUME S!TypeOK, NotifierInv, PollInv, S!Period \/ S!SignalAvail
  PROVE  S!TypeOK' /\ PollInv'
<1>1. UNCHANGED <<running, info, oneshot, cb, open, ntkey, got, late, at, hooked, notified, unarmed, missed>>
  BY SndOperations DEF S!Period, S!SignalAvail, S!notifier, S!poller, N!Signal
<1>2. pending' \cup queued' = pending \cup queued /\ pending' \subseteq pending
  <2>1. CASE S!Period
    BY <2>1 DEF S!Period, S!notifier
  <2>2. CASE S!SignalAvail
    <3>1. N!Signal(S!Avail) /\ oneshot = TRUE
      BY <2>2, SndOperations DEF S!SignalAvail, PollInv
    <3>2. /\ pending' = pending \ N!Matching(S!Avail) /\ queued' = queued \cup N!Matching(S!Avail)
          /\ N!Matching(S!Avail) \subseteq pending
      BY <3>1 DEF N!Signal, N!Matching
    <3> QED BY <3>2
  <2> QED BY <2>1, <2>2
<1>3. S!TypeOK'
  BY <1>1 DEF S!TypeOK, S!Period, S!SignalAvail
<1>4. Live' = Live
  BY <1>1, <1>2 DEF Live
<1>5. \A x : S!Armed(x)' <=> S!Armed(x)
  BY <1>1, <1>2 DEF S!Armed, S!Arg
<1>6. \A x \in Files : AtPlace(x)' /\ Woken(x)'
  BY <1>1, <1>5 DEF PollInv, AtPlace, Woken
<1>7. \A e \in Live : Known(e)'
  BY <1>1, <1>2 DEF PollInv, Known
<1>8. KeysApart'
  BY <1>1 DEF PollInv, KeysApart
<1>9. \A e, f \in Live' : info'[e].client = info'[f].client => e = f
  BY <1>1, <1>4 DEF PollInv
<1>10. oneshot' = TRUE /\ ((cb' = "off") <=> (running' = NULL))
  BY <1>1 DEF PollInv
<1> HIDE DEF Live
<1> QED BY <1>3, <1>4, <1>6, <1>7, <1>8, <1>9, <1>10 DEF PollInv

\* The callback wakes its poller, clears its key and returns (snd_core.c:92-101).
LEMMA SndCallback ==
  ASSUME S!TypeOK, NotifierInv, PollInv, S!Callback
  PROVE  S!TypeOK' /\ PollInv'
<1>1. UNCHANGED <<pending, oneshot, open, got, late, at, hooked, unarmed, missed, avail, signalling>>
  BY SndOperations
  DEF S!Callback, S!Call, S!CallbackWakes, S!CallbackClears, S!CallbackReturns, S!notifier,
      S!poller, S!driver, N!Call, N!Finish, N!lists
<1>2. OnTheWay /\ \A e \in Live : e \in NEntries /\ info[e].client \in Files /\ Known(e)
  BY LiveEntries DEF PollInv
<1>3. CASE S!Call
  <2>1. PICK e \in NEntries : N!Call(e)
    BY <1>3, SndOperations DEF S!Call
  <2>2. /\ cb = "off" /\ cb' = "wake" /\ running = NULL /\ running' = e /\ e \in queued
        /\ queued' = queued \ {e} /\ UNCHANGED <<info, ntkey, notified>> /\ e # NULL
    BY <1>3, <2>1, NotifierAssumption DEF S!Call, N!Call, N!lists
  <2>3. S!TypeOK'
    BY <1>1, <2>2 DEF S!TypeOK
  <2>4. Live' = Live
    BY <1>1, <2>2 DEF Live
  <2>5. \A x : S!Armed(x) => S!Armed(x)'
    BY <1>1, <2>2 DEF S!Armed, S!Arg
  <2>6. \A x \in Files : AtPlace(x)' /\ Woken(x)'
    BY <1>1, <2>2, <2>5 DEF PollInv, AtPlace, Woken
  <2>7. \A f \in Live : Known(f)'
    BY <1>1, <2>2 DEF PollInv, Known
  <2>8. KeysApart'
    BY <1>1, <2>2 DEF PollInv, KeysApart
  <2>9. \A f, g \in Live' : info'[f].client = info'[g].client => f = g
    BY <2>2, <2>4 DEF PollInv
  <2>10. oneshot' = TRUE /\ ((cb' = "off") <=> (running' = NULL))
    BY <1>1, <2>2 DEF PollInv
  <2> HIDE DEF Live
  <2> QED BY <2>3, <2>4, <2>6, <2>7, <2>8, <2>9, <2>10 DEF PollInv
<1>4. CASE S!CallbackWakes
  <2>1. /\ cb = "wake" /\ cb' = "clear" /\ UNCHANGED <<info, queued, running, ntkey>>
        /\ notified' = IF S!Arg \in hooked THEN notified \cup {S!Arg} ELSE notified
    BY <1>4 DEF S!CallbackWakes, S!notifier
  <2>2. S!TypeOK'
    BY <1>1, <2>1 DEF S!TypeOK
  <2>3. Live' = Live
    BY <1>1, <2>1 DEF Live
  <2>4. \A x : S!Armed(x) => S!Armed(x)' \/ x = S!Arg
    BY <1>1, <2>1 DEF S!Armed, S!Arg
  <2>5. \A x \in Files : AtPlace(x)'
    BY <1>1, <2>1 DEF PollInv, AtPlace
  <2>6. \A x \in Files : Woken(x)'
    <3> SUFFICES ASSUME NEW x \in Files PROVE Woken(x)'
      OBVIOUS
    <3>1. AtPlace(x) /\ Woken(x)
      BY DEF PollInv
    <3>2. CASE x = S!Arg
      <4>1. at[x] \in {"store", "sleep"} => x \in hooked
        BY <3>1 DEF AtPlace
      <4> QED BY <1>1, <2>1, <3>2, <4>1 DEF Woken
    <3>3. CASE x # S!Arg
      BY <1>1, <2>1, <2>4, <3>1, <3>3 DEF Woken
    <3> QED BY <3>2, <3>3
  <2>7. \A f \in Live : Known(f)'
    BY <1>1, <2>1 DEF PollInv, Known
  <2>8. KeysApart'
    BY <1>1, <2>1 DEF PollInv, KeysApart
  <2>9. \A f, g \in Live' : info'[f].client = info'[g].client => f = g
    BY <2>1, <2>3 DEF PollInv
  <2>10. oneshot' = TRUE /\ ((cb' = "off") <=> (running' = NULL))
    BY <1>1, <2>1 DEF PollInv
  <2> HIDE DEF Live
  <2> QED BY <2>2, <2>3, <2>5, <2>6, <2>7, <2>8, <2>9, <2>10 DEF PollInv
<1>5. CASE S!CallbackClears
  <2>1. /\ cb = "clear" /\ cb' = "return" /\ UNCHANGED <<info, queued, running, notified>>
        /\ ntkey' = [ntkey EXCEPT ![S!Arg] = NULL]
    BY <1>5 DEF S!CallbackClears, S!notifier
  <2>2. running \in Live /\ S!Arg = info[running].client
    BY <2>1 DEF Live, S!Arg
  <2>3. \A x \in Files : ntkey'[x] = IF x = S!Arg THEN NULL ELSE ntkey[x]
    BY <2>1 DEF S!TypeOK
  <2>4. S!TypeOK'
    BY <1>1, <2>1 DEF S!TypeOK
  <2>5. Live' = pending \cup queued /\ Live' \subseteq Live /\ running \notin Live'
    BY <1>1, <1>2, <2>1 DEF Live, OnTheWay
  <2>6. \A x : S!Armed(x)' <=> S!Armed(x)
    BY <1>1, <2>1 DEF S!Armed, S!Arg
  <2>7. \A x \in Files : AtPlace(x)' /\ Woken(x)'
    BY <1>1, <2>1, <2>3, <2>6 DEF PollInv, AtPlace, Woken
  <2>8. ASSUME NEW f \in Live' PROVE Known(f)'
    <3>1. f \in Live /\ info[f].client # S!Arg /\ info[f].client \in Files /\ Known(f)
      BY <1>2, <2>2, <2>5 DEF PollInv
    <3> QED BY <1>1, <2>1, <2>3, <3>1 DEF Known
  <2>9. KeysApart'
    BY <1>1, <2>3 DEF PollInv, KeysApart
  <2>10. \A f, g \in Live' : info'[f].client = info'[g].client => f = g
    BY <2>1, <2>5 DEF PollInv
  <2>11. oneshot' = TRUE /\ ((cb' = "off") <=> (running' = NULL))
    BY <1>1, <2>1 DEF PollInv
  <2> HIDE DEF Live
  <2> QED BY <2>4, <2>7, <2>8, <2>9, <2>10, <2>11 DEF PollInv
<1>6. CASE S!CallbackReturns
  <2>1. /\ cb = "return" /\ cb' = "off" /\ UNCHANGED <<queued, ntkey, notified>>
        /\ running' = NULL /\ running # NULL /\ oneshot = TRUE
        /\ info' = [info EXCEPT ![running] = NULL]
    BY <1>6, SndOperations DEF S!CallbackReturns, N!Finish, PollInv
  <2>2. S!TypeOK'
    BY <1>1, <2>1 DEF S!TypeOK
  <2>3. Live' = Live /\ \A e \in Live : e # running /\ e \in pending \cup queued
    BY <1>1, <1>2, <2>1 DEF Live, OnTheWay
  <2>4. \A e \in Live : info'[e] = info[e]
    BY <1>2, <2>1, <2>3 DEF NotifierInv, N!TypeOK
  <2>5. \A e \in pending \cup queued : e \in Live
    BY DEF Live
  <2>6. \A x : S!Armed(x)' <=> S!Armed(x)
    BY <1>1, <2>1, <2>4, <2>5 DEF S!Armed, S!Arg
  <2>7. \A x \in Files : AtPlace(x)' /\ Woken(x)'
    BY <1>1, <2>1, <2>6 DEF PollInv, AtPlace, Woken
  <2>8. \A f \in Live : Known(f)'
    BY <1>1, <1>2, <2>1, <2>4 DEF Known
  <2>9. KeysApart'
    BY <1>1, <2>1 DEF PollInv, KeysApart
  <2>10. \A f, g \in Live' : info'[f].client = info'[g].client => f = g
    BY <2>3, <2>4 DEF PollInv
  <2>11. oneshot' = TRUE /\ ((cb' = "off") <=> (running' = NULL))
    BY <1>1, <2>1
  <2> HIDE DEF Live
  <2> QED BY <2>2, <2>3, <2>7, <2>8, <2>9, <2>10, <2>11 DEF PollInv
<1> QED BY <1>3, <1>4, <1>5, <1>6 DEF S!Callback

\* The sound core takes a step only on a board where the driver of the notifiers takes
\* none of its own, which has then no file open.
SndInv ==
  /\ S!TypeOK
  /\ which = "notifier" => cb = "off" /\ \A d \in Files : at[d] = "idle"
  /\ which # "notifier" => PollInv

\* What the invariant of the sound core promises.
LEMMA SndHolds == NotifierInv /\ SndInv => S!CallbackFindsDevice /\ S!SleeperIsArmed
<1> SUFFICES ASSUME NotifierInv, SndInv PROVE S!CallbackFindsDevice /\ S!SleeperIsArmed
  OBVIOUS
<1>1. CASE which = "notifier"
  BY <1>1 DEF SndInv, S!CallbackFindsDevice, S!SleeperIsArmed, S!At
<1>2. CASE which # "notifier"
  <2>1. PollInv
    BY <1>2 DEF SndInv
  <2>2. S!SleeperIsArmed
    BY <2>1 DEF PollInv, Woken, S!SleeperIsArmed, S!At
  <2>3. ASSUME cb \in {"wake", "clear"} PROVE S!Arg \in open \/ S!Arg \in late
    <3>1. running \in Live
      BY <2>3 DEF Live
    <3> QED BY <2>1, <3>1 DEF PollInv, Known, S!Arg
  <2> QED BY <2>2, <2>3 DEF S!CallbackFindsDevice
<1> QED BY <1>1, <1>2

\* Every step of the sound core keeps what its polls rest on.
LEMMA SndNext ==
  ASSUME S!TypeOK, NotifierInv, PollInv, S!Next
  PROVE  S!TypeOK' /\ PollInv'
<1>1. ASSUME NEW d \in Files, S!Open(d) \/ S!Poll(d) \/ S!PollStep(d) \/ S!Close(d) \/ S!Xfer(d)
      PROVE  S!TypeOK' /\ PollInv'
  <2>1. CASE S!Open(d)
    BY <2>1, SndOpen
  <2>2. CASE S!Claim(d)
    BY <2>2, SndClaim
  <2>3. CASE S!Publish(d)
    BY <2>3, SndPublish
  <2>4. CASE S!StoreKey(d)
    BY <2>4, SndStoreKey
  <2>5. CASE S!Close(d)
    BY <2>5, SndClose
  <2>6. CASE S!Poll(d) \/ S!Hook(d) \/ S!GetAvail(d) \/ S!TestKey(d) \/ S!Wake(d) \/ S!Xfer(d)
    BY <2>6, SndPollerMoves
  <2> QED
    BY <1>1, <2>1, <2>2, <2>3, <2>4, <2>5, <2>6 DEF S!PollStep
<1> QED
  BY <1>1, SndSignal, SndCallback DEF S!Next

\* No file is open at first, and the notifiers a sound core uses are one-shot.
LEMMA SndInit ==
  ASSUME N!Init, S!Quiet, which = "notifier" \/ oneshot
  PROVE  SndInv
<1>1. S!TypeOK
  BY DEF S!Quiet, S!TypeOK, S!Places
<1>2. cb = "off" /\ \A d \in Files : at[d] = "idle"
  BY DEF S!Quiet
<1>3. ASSUME which # "notifier" PROVE PollInv
  <2>1. oneshot = TRUE
    BY <1>3, NotifierInit DEF NotifierInv, N!TypeOK
  <2>2. pending = {} /\ queued = {} /\ running = NULL /\ Live = {}
    BY <1>2 DEF N!Init, Live
  <2>3. \A d \in Files : AtPlace(d) /\ Woken(d)
    BY DEF S!Quiet, AtPlace, Woken
  <2>4. KeysApart
    BY DEF S!Quiet, KeysApart
  <2> HIDE DEF Live
  <2> QED BY <1>2, <2>1, <2>2, <2>3, <2>4 DEF PollInv
<1> QED BY <1>1, <1>2, <1>3 DEF SndInv

\* A step of the board, for the callbacks.
LEMMA CallbacksNext == NotifierInv /\ SndInv /\ [Next]_vars => NotifierInv' /\ SndInv'
<1> SUFFICES ASSUME NotifierInv, SndInv, [Next]_vars
             PROVE  NotifierInv' /\ SndInv'
  OBVIOUS
<1>1. /\ which' = which
      /\ \/ which = "notifier" /\ N!Next /\ UNCHANGED SndVars
         \/ which = "snd" /\ S!Next
         \/ UNCHANGED <<NotifierVars, SndVars>>
  BY OneMoves
<1>2. CASE which = "notifier" /\ N!Next /\ UNCHANGED SndVars
  <2>1. NotifierInv'
    BY <1>2, NotifierNext
  <2>2. SndInv'
    BY <1>1, <1>2 DEF SndInv, SndVars, S!TypeOK
  <2> QED BY <2>1, <2>2
<1>3. CASE which = "snd" /\ S!Next
  <2>1. S!TypeOK /\ PollInv
    BY <1>3 DEF SndInv
  <2>2. NotifierInv'
    BY <1>3, <2>1, SndUses, NotifierNext
  <2>3. SndInv'
    BY <1>1, <1>3, <2>1, SndNext DEF SndInv
  <2> QED BY <2>2, <2>3
<1>4. CASE UNCHANGED <<NotifierVars, SndVars>>
  <2>1. NotifierInv'
    BY <1>4, NotifierNext
  <2>2. S!TypeOK' /\ (PollInv => PollInv')
    BY <1>4 DEF SndInv, SndVars, NotifierVars, S!TypeOK, PollInv, AtPlace, Woken, Live, Known,
                KeysApart, S!Armed, S!Arg
  <2>3. cb' = cb /\ at' = at
    BY <1>4 DEF SndVars
  <2> QED BY <1>1, <2>1, <2>2, <2>3 DEF SndInv
<1> QED BY <1>1, <1>2, <1>3, <1>4

\* However many files, entries and keys there are, an entry is in one hand, calls back
\* once at most and finds its device, and a poller that sleeps has one armed, unless
\* none could be allocated or it trusted one gone by (kwork_notifier.c:217-439,
\* snd_core.c:92-125, 493-537).
THEOREM SpecCallbacksSafe == Spec => []CallbacksSafe
<1>1. Init => NotifierInv /\ SndInv
  BY NotifierInit, SndInit DEF Init
<1>2. NotifierInv /\ SndInv => CallbacksSafe
  BY NotifierHolds, SndHolds DEF CallbacksSafe
<1> QED BY <1>1, <1>2, CallbacksNext, PTL DEF Spec

-----------------------------------------------------------------------------
(* The remote control.                                                     *)

\* Until a key is mapped anew while it is held, the one that is down is the one that is
\* to be released, and the time it is to be released is that of its last message.
RcInv ==
  /\ R!TypeOK
  /\ R!PressedIsReleased
  /\ keypressed /\ ~remapped => last_keycode # NULL
  /\ keypressed => left + quiet = RcTimeout

\* At first nothing is pressed.
LEMMA RcInit == R!Init => RcInv
<1> SUFFICES ASSUME R!Init PROVE RcInv
  OBVIOUS
<1>1. 0 \in R!Ticks
  BY InputAssumption DEF R!Ticks
<1>2. R!TypeOK
  BY <1>1 DEF R!Init, R!TypeOK
<1>3. keypressed = FALSE /\ down = {}
  BY DEF R!Init
<1> QED BY <1>2, <1>3 DEF RcInv, R!PressedIsReleased

\* A message presses its key, and releases another one (rc-main.c:737-791).
LEMMA RcKeyDown ==
  ASSUME RcInv, R!KeyDown
  PROVE  RcInv'
<1>1. PICK m \in RcMessages, k \in Keycodes \cup {NULL} :
        R!DoKeydown(m, k) /\ (IF keypressed' THEN R!Restart ELSE UNCHANGED R!keyup)
        /\ looked' = NULL /\ UNCHANGED rmap
  <2>1. looked \in RcMessages \X (Keycodes \cup {NULL})
    BY DEF RcInv, R!TypeOK, R!KeyDown
  <2> QED BY <2>1 DEF R!KeyDown
<1>2. /\ last' = m /\ last_keycode' = k
      /\ remapped' \in BOOLEAN /\ down' \subseteq Keycodes /\ keypressed' \in BOOLEAN
      /\ ~remapped' => ~remapped
  BY <1>1 DEF R!DoKeydown, RcInv, R!TypeOK
<1>3. /\ left' \in R!Ticks /\ due' \in R!Ticks \cup {NULL} /\ late_up' \in BOOLEAN
      /\ quiet' \in R!Ticks /\ (keypressed' => left' + quiet' = RcTimeout)
  <2>1. CASE keypressed'
    BY <1>1, <2>1, InputAssumption DEF R!Restart, R!Ticks, RcInv, R!TypeOK
  <2>2. CASE ~keypressed'
    BY <1>1, <2>2 DEF R!keyup, RcInv, R!TypeOK
  <2> QED BY <2>1, <2>2
<1>4. R!TypeOK'
  BY <1>1, <1>2, <1>3 DEF RcInv, R!TypeOK
<1>5. ASSUME ~remapped'
      PROVE  /\ down' = IF keypressed' THEN {last_keycode'} ELSE {}
             /\ keypressed' => last_keycode' # NULL
  <2>1. ~remapped /\ down = IF keypressed THEN {last_keycode} ELSE {}
    BY <1>2, <1>5 DEF RcInv, R!PressedIsReleased
  <2>2. CASE ~keypressed \/ last # m
    <3>1. keypressed' = (k # NULL) /\ down' = {k} \ {NULL}
      BY <1>1, <2>1, <2>2 DEF R!DoKeydown
    <3> QED BY <1>2, <3>1
  <2>3. CASE ~(~keypressed \/ last # m)
    <3>1. keypressed' = keypressed /\ down' = down /\ k = last_keycode
      BY <1>1, <1>5, <2>3 DEF R!DoKeydown
    <3>2. keypressed => last_keycode # NULL
      BY <2>1 DEF RcInv
    <3> QED BY <1>2, <2>1, <3>1, <3>2
  <2> QED BY <2>2, <2>3
<1> QED BY <1>3, <1>4, <1>5 DEF RcInv, R!PressedIsReleased

\* A release releases it (rc-main.c:626-636, 663-720).
LEMMA RcDoKeyup ==
  ASSUME RcInv, R!DoKeyup
  PROVE  /\ ~keypressed' /\ last_keycode' \in Keycodes \cup {NULL}
         /\ last' \in RcMessages \cup {NULL} /\ down' \subseteq Keycodes
         /\ keypressed' \in BOOLEAN /\ remapped' \in BOOLEAN
         /\ ~remapped' => down' = {}
BY DEF RcInv, R!TypeOK, R!PressedIsReleased, R!DoKeyup

\* The other steps press nothing (rc-main.c:255-401, 626-720).
LEMMA RcOthers ==
  ASSUME RcInv,
         \/ \E m \in RcMessages : R!LookUp(m)
         \/ R!Repeat \/ R!KeyUp \/ R!Timer
         \/ \E s \in R!Mapped, k \in Keycodes \cup {NULL} : R!Remap(s, k)
  PROVE  RcInv'
<1> USE DEF RcInv
<1>1. ASSUME NEW m \in RcMessages, R!LookUp(m) PROVE RcInv'
  <2>1. m[1] \in R!Mapped
    BY DEF R!Mapped
  <2>2. looked' \in (RcMessages \X (Keycodes \cup {NULL})) \cup {NULL}
    BY <1>1, <2>1 DEF R!LookUp, R!TypeOK
  <2> QED BY <1>1, <2>2 DEF R!LookUp, R!press, R!keyup, R!TypeOK, R!PressedIsReleased
<1>2. CASE R!Repeat
  BY <1>2, InputAssumption DEF R!Repeat, R!Restart, R!press, R!TypeOK, R!Ticks, R!PressedIsReleased
<1>3. CASE R!KeyUp
  BY <1>3, RcDoKeyup DEF R!KeyUp, R!keyup, R!TypeOK, R!PressedIsReleased
<1>4. CASE R!Tick
  <2>1. left' \in R!Ticks /\ quiet' \in R!Ticks /\ (left + quiet = RcTimeout => left' + quiet' = RcTimeout)
    BY <1>4, InputAssumption DEF R!Tick, R!TypeOK, R!Ticks
  <2>2. due' \in R!Ticks \cup {NULL}
    <3>1. CASE due = NULL
      BY <1>4, <3>1 DEF R!Tick
    <3>2. CASE due # NULL
      BY <1>4, <3>2, InputAssumption DEF R!Tick, R!TypeOK, R!Ticks
    <3> QED BY <3>1, <3>2
  <2> QED BY <1>4, <2>1, <2>2 DEF R!Tick, R!press, R!TypeOK, R!PressedIsReleased
<1>5. CASE R!Expire
  BY <1>5 DEF R!Expire, R!press, R!TypeOK, R!PressedIsReleased
<1>6. CASE R!TimerKeyup
  <2>1. CASE left = 0
    BY <1>6, <2>1, RcDoKeyup DEF R!TimerKeyup, R!TypeOK, R!PressedIsReleased
  <2>2. CASE left # 0
    BY <1>6, <2>2 DEF R!TimerKeyup, R!press, R!TypeOK, R!PressedIsReleased
  <2> QED BY <2>1, <2>2
<1>7. ASSUME NEW s \in R!Mapped, NEW k \in Keycodes \cup {NULL}, R!Remap(s, k) PROVE RcInv'
  BY <1>7 DEF R!Remap, R!press, R!keyup, R!TypeOK, R!PressedIsReleased
<1> QED BY <1>1, <1>2, <1>3, <1>4, <1>5, <1>6, <1>7 DEF R!Timer

\* Every step of the decoders, the timer and the user.
LEMMA RcNext == RcInv /\ [R!Next]_RcVars => RcInv'
<1>1. RcInv /\ UNCHANGED RcVars => RcInv'
  BY DEF RcVars, RcInv, R!TypeOK, R!PressedIsReleased
<1> QED BY <1>1, RcKeyDown, RcOthers DEF R!Next

\* Only the timer releases with its handler at work, and it looks at the time
\* (rc-main.c:663-720).
LEMMA RcNotEarly ==
  ASSUME RcInv, [R!Next]_RcVars, keypressed, ~keypressed', late_up, ~late_up'
  PROVE  quiet = RcTimeout
<1>1. ~UNCHANGED RcVars
  BY DEF RcVars
<1>2. R!TimerKeyup
  BY <1>1 DEF R!Next, R!LookUp, R!KeyDown, R!Restart, R!Repeat, R!KeyUp, R!Timer, R!Tick, R!Expire,
     R!Remap, R!keyup, R!press
<1>3. left = 0
  BY <1>2 DEF R!TimerKeyup, R!press
<1> QED BY <1>3 DEF RcInv, R!TypeOK, R!Ticks

\* The timer releases no key of the remote control early, whatever its time
\* (rc-main.c:663-720, 784-788).
THEOREM SpecNoEarlyRelease == Spec => R!NoEarlyRelease
<1>1. Init => RcInv
  BY RcInit DEF Init
<1>2. RcInv /\ [Next]_vars => RcInv'
  BY OneMoves, RcNext
<1>3. RcInv /\ [Next]_vars => [keypressed /\ ~keypressed' /\ late_up /\ ~late_up' => quiet = RcTimeout]_R!vars
  BY OneMoves, RcNotEarly
<1> QED BY <1>1, <1>2, <1>3, PTL DEF Spec, R!NoEarlyRelease

-----------------------------------------------------------------------------
(* Descriptors, inodes and the mount point.                                *)

\* Descriptors with an open file of the mount point i.
WithFile(i) == {f \in Fds : f_inode[f] = i /\ f_priv[f]}

\* Places of file_close before the descriptor is free, in close and in dup2.
Closing == {"close_release", "close_inode"}
Replacing == {"then_release", "then_inode"}

\* The inode in the tree is the one mounted, and one that is not is to be freed.
FilesTree ==
  /\ node \in alive \cup {NULL}
  /\ drv = IF node = NULL THEN 0 ELSE 1
  /\ \A i \in Inodes :
       /\ mops[i] = (i = node)
       /\ deleted[i] = (i \in alive /\ i # node)
       /\ fs[i] = "mounted" => i = node

\* What the calls under way hold.
FilesCalls ==
  \A t \in Tasks :
    /\ ino[t] = NULL <=> at_file[t] \in {"idle", "close_release", "close_inode", "close_priv"}
    /\ at_file[t] \in Closing \cup Replacing
                      \cup {"dup2", "dup2_close", "close_priv", "then_priv", "copy"}
         => fd[t] \in Fds
    /\ at_file[t] = "umount_unbind" => sem = t /\ ino[t] = node

\* A descriptor that is being closed is nobody's and is closed by one task; one that is
\* being replaced belongs to who replaces it.
FilesOwned ==
  \A t \in Tasks :
    /\ at_file[t] \in Closing =>
         /\ mine[fd[t]] = NULL
         /\ \A u \in Tasks : at_file[u] \in Closing /\ fd[u] = fd[t] => u = t
    /\ at_file[t] \in Replacing => mine[fd[t]] = t
    /\ at_file[t] \in Closing \cup Replacing => f_inode[fd[t]] # NULL /\ ~f_priv[fd[t]]
    /\ at_file[t] \in {"close_release", "then_release"} => from[t] = f_inode[fd[t]]

\* References and files are counted.
FilesCountedAt(i) ==
  /\ i \in alive => /\ crefs[i] = Cardinality(F!Open(i)) + Cardinality(F!Holding(i))
                    /\ i = node \/ crefs[i] > 0
  /\ i \notin alive => F!Open(i) = {} /\ F!Holding(i) = {}
  /\ files[i] = Cardinality(WithFile(i)) + Cardinality(F!Carrying(i)) + abandoned[i]
  /\ files[i] > 0 => i = node
FilesCounted == \A i \in Inodes : FilesCountedAt(i)

FilesSound == F!TypeOK /\ FilesTree /\ FilesCalls /\ FilesOwned /\ FilesCounted

FilesInv == ~clobbered /\ ~pulled => FilesSound

\* The sets are finite, and one more or one less is counted as one.
LEMMA OneMore ==
  ASSUME NEW Z, IsFiniteSet(Z), NEW x
  PROVE  /\ Cardinality(Z) \in Nat
         /\ x \notin Z => Cardinality(Z \cup {x}) = Cardinality(Z) + 1
         /\ x \in Z => Cardinality(Z) > 0 /\ Cardinality(Z \ {x}) = Cardinality(Z) - 1
<1>1. Cardinality(Z) \in Nat /\ (Cardinality(Z) = 0 <=> Z = {})
  BY FS_CardinalityType, FS_EmptySet
<1> QED BY <1>1, FS_AddElement, FS_RemoveElement

LEMMA FilesFinite ==
  ASSUME NEW i
  PROVE  /\ IsFiniteSet(F!Open(i)) /\ IsFiniteSet(F!Holding(i))
         /\ IsFiniteSet(WithFile(i)) /\ IsFiniteSet(F!Carrying(i))
         /\ Cardinality(F!Open(i)) \in Nat /\ Cardinality(F!Holding(i)) \in Nat
         /\ Cardinality(WithFile(i)) \in Nat /\ Cardinality(F!Carrying(i)) \in Nat
<1>1. /\ F!Open(i) \subseteq Fds /\ WithFile(i) \subseteq Fds
      /\ F!Holding(i) \subseteq Tasks /\ F!Carrying(i) \subseteq Tasks
  BY DEF F!Open, F!Holding, WithFile, F!Carrying
<1>2. /\ IsFiniteSet(F!Open(i)) /\ IsFiniteSet(F!Holding(i))
      /\ IsFiniteSet(WithFile(i)) /\ IsFiniteSet(F!Carrying(i))
  BY <1>1, FilesAssumption, FS_Subset
<1> QED BY <1>2, FS_CardinalityType

\* At first there is nothing.
LEMMA FilesInit == F!Init => FilesInv
<1> SUFFICES ASSUME F!Init PROVE FilesSound
  BY DEF FilesInv
<1>1. F!TypeOK /\ FilesTree /\ FilesCalls /\ FilesOwned
  BY FilesAssumption DEF F!Init, F!TypeOK, F!Places, FilesTree, FilesCalls, FilesOwned, Closing, Replacing
<1>2. ASSUME NEW i \in Inodes
      PROVE  F!Open(i) = {} /\ F!Holding(i) = {} /\ WithFile(i) = {} /\ F!Carrying(i) = {}
  BY FilesAssumption DEF F!Init, F!Open, F!Holding, WithFile, F!Carrying
<1>3. FilesCounted
  BY <1>2, FS_EmptySet DEF F!Init, FilesCounted, FilesCountedAt
<1> QED BY <1>1, <1>3 DEF FilesSound

\* Nothing is counted anew.
LEMMA FilesSameCounts ==
  ASSUME FilesCounted, \A i \in Inodes : mops[i] = (i = node), 
         \A i \in Inodes : /\ F!Open(i)' = F!Open(i) /\ F!Holding(i)' = F!Holding(i)
                           /\ WithFile(i)' = WithFile(i) /\ F!Carrying(i)' = F!Carrying(i),
         UNCHANGED <<node, alive, crefs, files, abandoned>>
  PROVE  FilesCounted'
BY DEF FilesCounted, FilesCountedAt

\* Who looks at an inode, or takes the mutex for an unmount, counts nothing.
LEMMA FilesLook ==
  ASSUME FilesSound, NEW t \in Tasks,
         F!OpenCheck(t) \/ F!OpenEnter(t) \/ F!UmountCheck(t) \/ F!UmountTake(t)
  PROVE  FilesSound'
<1> USE DEF FilesSound
<1>0. ino[t] \in Inodes
  BY FilesAssumption DEF FilesCalls, F!TypeOK, F!OpenCheck, F!OpenEnter, F!UmountCheck, F!UmountTake
<1>1. F!TypeOK'
  BY <1>0 DEF F!TypeOK, F!Places, F!OpenCheck, F!OpenEnter, F!UmountCheck, F!UmountTake, F!CheckMount, F!Goto, F!tree, F!table
<1>2. FilesTree'
  BY <1>0 DEF FilesTree, F!TypeOK, F!OpenCheck, F!OpenEnter, F!UmountCheck, F!UmountTake, F!CheckMount, F!tree
<1>3. FilesCalls'
  BY <1>0, FilesAssumption DEF FilesCalls, FilesTree, F!TypeOK, Closing, Replacing, F!OpenCheck, F!OpenEnter, F!UmountCheck,
     F!UmountTake, F!Goto, F!tree
<1>4. FilesOwned'
  BY DEF FilesOwned, F!TypeOK, Closing, Replacing, F!OpenCheck, F!OpenEnter, F!UmountCheck, F!UmountTake, F!Goto, F!table
<1>5. ASSUME NEW i \in Inodes
      PROVE  F!Open(i)' = F!Open(i) /\ F!Holding(i)' = F!Holding(i) /\ WithFile(i)' = WithFile(i)
             /\ F!Carrying(i)' = F!Carrying(i)
  BY DEF F!TypeOK, F!Open, F!Holding, WithFile, F!Carrying, F!OpenCheck, F!OpenEnter, F!UmountCheck, F!UmountTake, F!Goto, F!table
<1>6. FilesCounted'
  BY <1>5, FilesSameCounts
  DEF FilesTree, F!OpenCheck, F!OpenEnter, F!UmountCheck, F!UmountTake, F!tree, F!table
<1> QED BY <1>1, <1>2, <1>3, <1>4, <1>6

\* A reference more is counted with who has it.
LEMMA FilesAddRef ==
  ASSUME FilesSound, NEW t \in Tasks, ino[t] = NULL, NEW i \in alive, F!AddRef(i),
         abandoned' = abandoned,
         \A j \in Inodes : /\ F!Open(j)' = F!Open(j)
                           /\ F!Holding(j)' = IF j = i THEN F!Holding(j) \cup {t} ELSE F!Holding(j)
                           /\ WithFile(j)' = WithFile(j) /\ F!Carrying(j)' = F!Carrying(j)
  PROVE  FilesCounted' /\ FilesTree'
<1> USE DEF FilesSound
<1>1. i \in Inodes /\ t \notin F!Holding(i)
  BY FilesAssumption DEF F!TypeOK, F!Holding
<1>2. Cardinality(F!Holding(i) \cup {t}) = Cardinality(F!Holding(i)) + 1
  BY <1>1, FilesFinite, OneMore
<1>3. ASSUME NEW j \in Inodes PROVE FilesCountedAt(j)'
  <2>1. CASE j = i
    <3>1. /\ F!Open(i)' = F!Open(i) /\ F!Holding(i)' = F!Holding(i) \cup {t}
          /\ WithFile(i)' = WithFile(i) /\ F!Carrying(i)' = F!Carrying(i)
      BY <1>1
    <3>2. crefs'[i] = crefs[i] + 1 /\ crefs[i] \in Nat /\ UNCHANGED <<node, alive, files>>
      BY <1>1 DEF F!AddRef, F!TypeOK
    <3>3. Cardinality(F!Open(i)) \in Nat /\ Cardinality(F!Holding(i)) \in Nat
      BY FilesFinite
    <3>4. FilesCountedAt(i)
      BY <1>1 DEF FilesCounted
    <3> QED BY <1>2, <2>1, <3>1, <3>2, <3>3, <3>4 DEF FilesCountedAt
  <2>2. CASE j # i
    BY <2>2 DEF FilesCounted, FilesCountedAt, F!AddRef, F!TypeOK
  <2> QED BY <2>1, <2>2
<1> QED BY <1>3 DEF FilesCounted, FilesCountedAt, FilesTree, F!AddRef

\* A reference less is counted with who had it, and none is left when an inode is freed.
LEMMA FilesDropRef ==
  ASSUME FilesSound, NEW i \in Inodes, F!DropRef(i), Cardinality(F!Open(i)) + Cardinality(F!Holding(i)) > 0,
         abandoned' = abandoned,
         Cardinality(F!Open(i)') + Cardinality(F!Holding(i)')
           = Cardinality(F!Open(i)) + Cardinality(F!Holding(i)) - 1,
         \A j \in Inodes :
           /\ Cardinality(F!Open(j)') \in Nat /\ Cardinality(F!Holding(j)') \in Nat
           /\ Cardinality(F!Open(j)') = 0 => F!Open(j)' = {}
           /\ Cardinality(F!Holding(j)') = 0 => F!Holding(j)' = {}
           /\ j # i => F!Open(j)' = F!Open(j) /\ F!Holding(j)' = F!Holding(j)
           /\ WithFile(j)' = WithFile(j) /\ F!Carrying(j)' = F!Carrying(j)
  PROVE  FilesCounted' /\ FilesTree'
<1> USE DEF FilesSound
<1>1. i \in alive
  <2>1. FilesCountedAt(i)
    BY DEF FilesCounted
  <2>2. Cardinality({}) = 0
    BY FS_EmptySet
  <2>3. ASSUME F!Open(i) = {} /\ F!Holding(i) = {} PROVE FALSE
    <3>1. Cardinality(F!Open(i)) = 0 /\ Cardinality(F!Holding(i)) = 0
      BY <2>2, <2>3
    <3>2. Cardinality(F!Open(i)) + Cardinality(F!Holding(i)) > 0
      OBVIOUS
    <3> QED BY <3>1, <3>2
  <2>4. i \notin alive => F!Open(i) = {} /\ F!Holding(i) = {}
    BY <2>1, Zenon DEF FilesCountedAt
  <2> QED BY <2>3, <2>4
<1>2. crefs[i] > 0 /\ crefs[i] = Cardinality(F!Open(i)) + Cardinality(F!Holding(i))
  BY <1>1, FilesFinite DEF FilesCounted, FilesCountedAt
<1>3. crefs'[i] = crefs[i] - 1 /\ crefs' \in [Inodes -> Nat]
      /\ \A j \in Inodes \ {i} : crefs'[j] = crefs[j]
  BY <1>2 DEF F!DropRef, F!TypeOK
<1>4. alive' = IF crefs'[i] = 0 /\ deleted[i] THEN alive \ {i} ELSE alive
  BY <1>2, <1>3 DEF F!DropRef
<1>5. deleted' = [deleted EXCEPT ![i] = @ /\ ~(crefs'[i] = 0 /\ deleted[i])]
  BY <1>2, <1>3 DEF F!DropRef
<1>6. UNCHANGED <<node, mops, fs, files, drv>>
  BY DEF F!DropRef
<1>7. FilesTree'
  BY <1>1, <1>4, <1>5, <1>6 DEF FilesTree, F!TypeOK
<1>8. ASSUME NEW j \in Inodes PROVE FilesCountedAt(j)'
  <2>1. CASE j = i
    <3>1. crefs'[i] = Cardinality(F!Open(i)') + Cardinality(F!Holding(i)')
      <4>1. Cardinality(F!Open(i)') + Cardinality(F!Holding(i)') = Cardinality(F!Open(i)) + Cardinality(F!Holding(i)) - 1
        OBVIOUS
      <4>2. crefs'[i] = crefs[i] - 1
        BY <1>3
      <4>3. crefs[i] = Cardinality(F!Open(i)) + Cardinality(F!Holding(i))
        BY <1>2
      <4>4. Cardinality(F!Open(i)) \in Nat /\ Cardinality(F!Holding(i)) \in Nat
        BY FilesFinite
      <4>5. Cardinality(F!Open(i)') \in Nat /\ Cardinality(F!Holding(i)') \in Nat
        OBVIOUS
      <4> QED BY <4>1, <4>2, <4>3, <4>4, <4>5
    <3>2. CASE crefs'[i] = 0 /\ deleted[i]
      <4>1. F!Open(i)' = {} /\ F!Holding(i)' = {}
        BY <3>1, <3>2
      <4> QED BY <1>4, <1>6, <2>1, <3>2, <4>1 DEF FilesCounted, FilesCountedAt
    <3>3. CASE ~(crefs'[i] = 0 /\ deleted[i])
      <4>1. /\ WithFile(i)' = WithFile(i) /\ F!Carrying(i)' = F!Carrying(i)
            /\ files[i] = Cardinality(WithFile(i)) + Cardinality(F!Carrying(i)) + abandoned[i]
            /\ files[i] > 0 => i = node
        BY DEF FilesCounted, FilesCountedAt
      <4>2. i = node \/ deleted[i]
        BY <1>1 DEF FilesTree
      <4>3. crefs'[i] \in Nat
        BY <1>3
      <4> QED BY <1>1, <1>4, <1>6, <2>1, <3>1, <3>3, <4>1, <4>2, <4>3 DEF FilesCountedAt
    <3> QED BY <3>2, <3>3
  <2>2. CASE j # i
    BY <1>3, <1>4, <1>6, <2>2 DEF FilesCounted, FilesCountedAt
  <2> QED BY <2>1, <2>2
<1> QED BY <1>7, <1>8 DEF FilesCounted, FilesCountedAt

\* open, umount and dup begin with a reference (fs_inodefind.c:75, fs_dupfd2.c).
LEMMA FilesBegin ==
  ASSUME FilesSound, ~clobbered', ~pulled', NEW t \in Tasks, NEW i,
         \/ F!OpenFind(t) /\ i = node
         \/ F!UmountFind(t) /\ i = node
         \/ \E f \in Fds, g \in Fds \cup {NULL} : F!Duplicate(t, f, g) /\ i = f_inode[f]
  PROVE  FilesSound'
<1> USE DEF FilesSound
<1>1. at_file[t] = "idle" /\ ino[t] = NULL
  BY DEF FilesCalls, F!OpenFind, F!UmountFind, F!Duplicate, F!Idle
<1>2. i \in alive /\ i \in Inodes
  <2>1. CASE \E f \in Fds, g \in Fds \cup {NULL} : F!Duplicate(t, f, g) /\ i = f_inode[f]
    <3>1. PICK f \in Fds, g \in Fds \cup {NULL} : F!Duplicate(t, f, g) /\ i = f_inode[f]
      BY <2>1
    <3>2. mine[f] = t /\ f_inode[f] # NULL
      BY <3>1 DEF F!Duplicate
    <3>3. f \in F!Open(i) /\ i \in Inodes
      BY <1>1, <3>1, <3>2, FilesAssumption DEF F!Open, FilesOwned, Closing, Replacing, F!TypeOK
    <3> QED BY <3>3 DEF FilesCounted, FilesCountedAt
  <2> QED BY <2>1 DEF F!OpenFind, F!UmountFind, FilesTree, F!TypeOK
<1>3. F!AddRef(i) /\ ino' = [ino EXCEPT ![t] = i] /\ UNCHANGED <<F!table, sem, from>>
  BY DEF F!OpenFind, F!UmountFind, F!Duplicate
<1>5. at_file' = [at_file EXCEPT ![t] = at_file'[t]]
      /\ at_file'[t] \in {"open_check", "umount_check", "dup", "dup2"}
  BY DEF F!TypeOK, F!OpenFind, F!UmountFind, F!Duplicate, F!Goto
<1>6. fd' = [fd EXCEPT ![t] = fd'[t]]
      /\ (at_file'[t] = "dup2" => fd'[t] \in Fds)
  BY FilesAssumption DEF F!TypeOK, F!OpenFind, F!UmountFind, F!Duplicate, F!Goto
<1>4. F!TypeOK'
  <2>1. clobbered' = clobbered /\ pulled' = pulled
    BY DEF F!OpenFind, F!UmountFind, F!Duplicate
  <2>2. crefs' \in [Inodes -> Nat] /\ UNCHANGED <<node, alive, deleted, mops, fs, files, drv>>
    BY <1>2, <1>3 DEF F!TypeOK, F!AddRef
  <2>3. at_file' \in [Tasks -> F!Places] /\ fd' \in [Tasks -> Fds \cup {NULL}]
    BY DEF F!TypeOK, F!Places, F!OpenFind, F!UmountFind, F!Duplicate, F!Goto
  <2> QED BY <1>2, <1>3, <2>1, <2>2, <2>3 DEF F!TypeOK, F!table
<1>7. FilesCalls'
  BY <1>1, <1>2, <1>3, <1>5, <1>6, FilesAssumption DEF FilesCalls, F!TypeOK, Closing, Replacing, F!AddRef
<1>8. FilesOwned'
  BY <1>1, <1>3, <1>5, <1>6 DEF FilesOwned, F!TypeOK, Closing, Replacing, F!table
<1>9. ASSUME NEW j \in Inodes
      PROVE  /\ F!Open(j)' = F!Open(j)
             /\ F!Holding(j)' = IF j = i THEN F!Holding(j) \cup {t} ELSE F!Holding(j)
             /\ WithFile(j)' = WithFile(j) /\ F!Carrying(j)' = F!Carrying(j)
  <2>1. F!Open(j)' = F!Open(j)
    BY <1>1, <1>3, <1>5, <1>6 DEF F!Open, F!TypeOK, F!table
  <2>2. F!Holding(j)' = IF j = i THEN F!Holding(j) \cup {t} ELSE F!Holding(j)
    BY <1>1, <1>3, FilesAssumption DEF F!Holding, F!TypeOK
  <2>3. WithFile(j)' = WithFile(j)
    BY <1>3 DEF WithFile, F!table
  <2>4. F!Carrying(j)' = F!Carrying(j)
    BY <1>1, <1>3, <1>5, FilesAssumption DEF F!Carrying, F!TypeOK
  <2> QED BY <2>1, <2>2, <2>3, <2>4
<1>10. FilesCounted' /\ FilesTree'
  BY <1>1, <1>2, <1>3, <1>9, FilesAddRef DEF F!table
<1> QED BY <1>4, <1>7, <1>8, <1>10


\* A call that keeps nothing drops its reference (fs_inoderelease.c:68-91).
LEMMA FilesRelease ==
  ASSUME FilesSound, NEW t \in Tasks, F!Release(t)
  PROVE  FilesSound'
<1> USE DEF FilesSound
<1>0. PICK i \in Inodes : i = ino[t]
  BY FilesAssumption DEF FilesCalls, F!TypeOK, F!Release
<1>1. at_file[t] = "release" /\ i \in Inodes /\ F!DropRef(i) /\ F!Return(t)
      /\ UNCHANGED <<F!table, sem, clobbered, pulled>>
  BY <1>0 DEF F!Release
<1>2. /\ at_file' = [at_file EXCEPT ![t] = "idle"] /\ ino' = [ino EXCEPT ![t] = NULL]
      /\ fd' = [fd EXCEPT ![t] = NULL] /\ from' = [from EXCEPT ![t] = NULL]
  BY <1>1 DEF F!Return, F!Goto
<1>3. F!TypeOK'
  <2>1. /\ crefs' \in [Inodes -> Nat] /\ alive' \subseteq Inodes /\ deleted' \in [Inodes -> BOOLEAN]
        /\ UNCHANGED <<node, mops, fs, files, drv>>
    BY <1>1 DEF F!TypeOK, F!DropRef
  <2> QED BY <1>1, <1>2, <2>1 DEF F!TypeOK, F!Places, F!table
<1>4. FilesCalls' /\ FilesOwned'
  <2>1. node' = node
    BY <1>1 DEF F!DropRef
  <2>2. FilesCalls'
    BY <1>1, <1>2, <2>1 DEF FilesCalls, Closing, Replacing, F!TypeOK
  <2>3. FilesOwned'
    BY <1>1, <1>2 DEF FilesOwned, Closing, Replacing, F!TypeOK, F!table
  <2> QED BY <2>2, <2>3
<1>5. ASSUME NEW j \in Inodes
      PROVE  /\ F!Open(j)' = F!Open(j)
             /\ F!Holding(j)' = IF j = i THEN F!Holding(j) \ {t} ELSE F!Holding(j)
             /\ WithFile(j)' = WithFile(j) /\ F!Carrying(j)' = F!Carrying(j)
  <2>1. F!Open(j)' = F!Open(j)
    BY <1>1, <1>2 DEF F!Open, F!TypeOK, F!table
  <2>2. F!Holding(j)' = IF j = i THEN F!Holding(j) \ {t} ELSE F!Holding(j)
    BY <1>0, <1>1, <1>2, FilesAssumption DEF F!Holding, F!TypeOK
  <2>3. WithFile(j)' = WithFile(j)
    BY <1>1 DEF WithFile, F!table
  <2>4. F!Carrying(j)' = F!Carrying(j)
    BY <1>1, <1>2, FilesAssumption DEF F!Carrying, F!TypeOK
  <2> QED BY <2>1, <2>2, <2>3, <2>4
<1>6. t \in F!Holding(i)
  BY <1>0 DEF F!Holding
<1>7. /\ F!Open(i)' = F!Open(i) /\ F!Holding(i)' = F!Holding(i) \ {t}
      /\ Cardinality(F!Holding(i)) > 0 /\ Cardinality(F!Holding(i) \ {t}) = Cardinality(F!Holding(i)) - 1
  BY <1>1, <1>5, <1>6, FilesFinite, OneMore
<1>8. Cardinality(F!Open(i)) \in Nat /\ Cardinality(F!Holding(i)) \in Nat
  BY FilesFinite
<1>9. FilesCounted' /\ FilesTree'
  <2>1. ASSUME NEW j \in Inodes
        PROVE /\ IsFiniteSet(F!Open(j)') /\ IsFiniteSet(F!Holding(j)')
    <3>1. IsFiniteSet(F!Holding(j) \ {t})
      BY FilesFinite, FS_RemoveElement
    <3> QED BY <1>5, <3>1, FilesFinite
  <2>2. \A Z : IsFiniteSet(Z) => Cardinality(Z) \in Nat /\ (Cardinality(Z) = 0 => Z = {})
    BY FS_CardinalityType, FS_EmptySet
  <2>3. \A j \in Inodes : j # i => F!Open(j)' = F!Open(j) /\ F!Holding(j)' = F!Holding(j)
    BY <1>5
  <2>4. Cardinality(F!Open(i)) + Cardinality(F!Holding(i)) > 0
    BY <1>7, <1>8
  <2>5. Cardinality(F!Open(i)') + Cardinality(F!Holding(i)') = Cardinality(F!Open(i)) + Cardinality(F!Holding(i)) - 1
    BY <1>7, <1>8
  <2>6. \A j \in Inodes : /\ Cardinality(F!Open(j)') \in Nat /\ Cardinality(F!Holding(j)') \in Nat
                          /\ Cardinality(F!Open(j)') = 0 => F!Open(j)' = {}
                          /\ Cardinality(F!Holding(j)') = 0 => F!Holding(j)' = {}
    BY <2>1, <2>2
  <2>7. abandoned' = abandoned
    BY <1>1 DEF F!table
  <2> QED BY <1>1, <1>5, <2>3, <2>4, <2>5, <2>6, <2>7, FilesDropRef
<1> QED BY <1>3, <1>4, <1>9

\* The files of one mount point are counted anew.
LEMMA FilesRelisted ==
  ASSUME FilesSound, NEW i \in Inodes,
         files'[i] = Cardinality(WithFile(i)') + Cardinality(F!Carrying(i)') + abandoned'[i],
         files'[i] > 0 => i = node,
         \A j \in Inodes :
           /\ F!Open(j)' = F!Open(j) /\ F!Holding(j)' = F!Holding(j)
           /\ j # i => /\ WithFile(j)' = WithFile(j) /\ F!Carrying(j)' = F!Carrying(j)
                       /\ files'[j] = files[j] /\ abandoned'[j] = abandoned[j],
         UNCHANGED <<node, alive, crefs>>
  PROVE  FilesCounted'
<1>1. ASSUME NEW j \in Inodes PROVE FilesCountedAt(j)'
  <2>1. FilesCountedAt(j)
    BY DEF FilesSound, FilesCounted
  <2>2. CASE j = i
    BY <2>1, <2>2 DEF FilesCountedAt
  <2>3. CASE j # i
    BY <2>1, <2>3 DEF FilesCountedAt
  <2> QED BY <2>2, <2>3
<1> QED BY <1>1 DEF FilesCounted

\* open and dup put a file on the list (fs_fat32.c:308-397, 566-610).
LEMMA FilesAdd ==
  ASSUME FilesSound, NEW t \in Tasks, F!OpenAdd(t) \/ F!DuplicateFile(t)
  PROVE  FilesSound'
<1> USE DEF FilesSound
<1>0. PICK i \in Inodes : i = ino[t]
  BY FilesAssumption DEF FilesCalls, F!TypeOK, F!OpenAdd, F!DuplicateFile
<1>1. /\ at_file[t] \in {"open_add", "dup", "dup2"} /\ i \in Inodes
      /\ UNCHANGED <<F!table, sem, ino, fd, from, clobbered, pulled>>
      /\ UNCHANGED <<node, alive, crefs, deleted, mops, drv>>
  BY DEF F!OpenAdd, F!DuplicateFile, F!Listed, F!tree
<1>2. /\ at_file' = [at_file EXCEPT ![t] = at_file'[t]]
      /\ \/ at_file'[t] = "release" /\ files' = files
         \/ /\ at_file'[t] = IF at_file[t] = "dup2" THEN "dup2_close" ELSE "allocate"
            /\ files' = [files EXCEPT ![i] = @ + 1] /\ i = node
  BY <1>0, <1>1 DEF FilesTree, F!TypeOK, F!OpenAdd, F!DuplicateFile, F!Listed, F!tree, F!CheckMount, F!Goto
<1>3. fs' \in [Inodes -> {"none", "mounted", "stopped"}] /\ \A j \in Inodes : fs'[j] = "mounted" => fs[j] = "mounted"
  BY <1>0, <1>1 DEF F!TypeOK, F!OpenAdd, F!DuplicateFile, F!tree, F!CheckMount
<1>4. F!TypeOK'
  BY <1>1, <1>2, <1>3 DEF F!TypeOK, F!Places, F!table
<1>5. FilesTree'
  BY <1>1, <1>3 DEF FilesTree
<1>6. FilesCalls'
  BY <1>1, <1>2 DEF FilesCalls, F!TypeOK, Closing, Replacing
<1>7. FilesOwned'
  BY <1>1, <1>2 DEF FilesOwned, F!TypeOK, Closing, Replacing, F!table
<1>8. ASSUME NEW j \in Inodes
      PROVE  F!Open(j)' = F!Open(j) /\ F!Holding(j)' = F!Holding(j) /\ WithFile(j)' = WithFile(j)
  BY <1>1, <1>2 DEF F!Open, F!Holding, WithFile, F!TypeOK, F!table
<1>9. ASSUME NEW j \in Inodes
      PROVE  F!Carrying(j)' = IF j = i /\ files' # files THEN F!Carrying(j) \cup {t} ELSE F!Carrying(j)
  <2>1. CASE at_file'[t] = "release"
    BY <1>0, <1>1, <1>2, <2>1 DEF F!Carrying, F!TypeOK
  <2>2. CASE at_file'[t] # "release"
    <3>1. files[i] \in Nat /\ files'[i] = files[i] + 1
      BY <1>1, <1>2, <2>2 DEF F!TypeOK
    <3> QED BY <1>0, <1>1, <1>2, <2>2, <3>1 DEF F!Carrying, F!TypeOK
  <2> QED BY <2>1, <2>2
<1>10. FilesCounted'
  <2>1. CASE files' = files
    BY <1>1, <1>8, <1>9, <2>1, FilesSameCounts DEF FilesTree, F!table
  <2>2. CASE files' # files
    <3>1. t \notin F!Carrying(i) /\ F!Carrying(i)' = F!Carrying(i) \cup {t}
      BY <1>1, <1>9, <2>2 DEF F!Carrying
    <3>2. Cardinality(F!Carrying(i)') = Cardinality(F!Carrying(i)) + 1
      BY <3>1, FilesFinite, OneMore
    <3>3. files[i] = Cardinality(WithFile(i)) + Cardinality(F!Carrying(i)) + abandoned[i]
      BY <1>1 DEF FilesCounted, FilesCountedAt
    <3>4. Cardinality(WithFile(i)) \in Nat /\ Cardinality(F!Carrying(i)) \in Nat /\ abandoned[i] \in Nat
      BY <1>1, FilesFinite DEF F!TypeOK
    <3>5. WithFile(i)' = WithFile(i) /\ abandoned' = abandoned
      BY <1>1, <1>8 DEF F!table
    <3>6. files[i] + 1 = Cardinality(WithFile(i)') + Cardinality(F!Carrying(i)') + abandoned'[i]
      BY <3>2, <3>3, <3>4, <3>5
    <3>7. /\ files'[i] = Cardinality(WithFile(i)') + Cardinality(F!Carrying(i)') + abandoned'[i]
          /\ i = node /\ \A j \in Inodes : j # i => files'[j] = files[j]
      BY <1>1, <1>2, <2>2, <3>6 DEF F!TypeOK
    <3> QED BY <1>1, <1>8, <1>9, <3>5, <3>7, FilesRelisted
  <2> QED BY <2>1, <2>2
<1> QED BY <1>4, <1>5, <1>6, <1>7, <1>10

\* A file that is in no descriptor yet is put into one that is free: the reference and
\* the file go with it (fs_files.c, fs_dupfd2.c).
LEMMA FilesInstalled ==
  ASSUME FilesSound, NEW t \in Tasks, NEW f \in Fds,
         at_file[t] \in {"allocate", "copy"}, f_inode[f] = NULL,
         f_inode' = [f_inode EXCEPT ![f] = ino[t]], f_priv' = [f_priv EXCEPT ![f] = TRUE],
         mine' = [mine EXCEPT ![f] = t], F!Return(t), UNCHANGED <<F!tree, sem, abandoned>>,
         clobbered' \in BOOLEAN, pulled' = pulled
  PROVE  FilesSound'
<1> USE DEF FilesSound
<1>1. PICK i \in Inodes : i = ino[t]
  BY FilesAssumption DEF FilesCalls, F!TypeOK
<1>2. /\ at_file' = [at_file EXCEPT ![t] = "idle"] /\ ino' = [ino EXCEPT ![t] = NULL]
      /\ fd' = [fd EXCEPT ![t] = NULL] /\ from' = [from EXCEPT ![t] = NULL]
      /\ f_inode' = [f_inode EXCEPT ![f] = i]
  BY <1>1 DEF F!Return, F!Goto
<1>3. \A u \in Tasks : at_file[u] \in Closing \cup Replacing => fd[u] # f
  BY DEF FilesOwned
<1>4. \A u \in Tasks : u # t => /\ at_file'[u] = at_file[u] /\ ino'[u] = ino[u] /\ fd'[u] = fd[u]
                                /\ from'[u] = from[u]
  BY <1>2 DEF F!TypeOK
<1>5. at_file'[t] = "idle" /\ ino'[t] = NULL
  BY <1>2 DEF F!TypeOK
<1>6. \A g \in Fds : g # f => f_inode'[g] = f_inode[g] /\ f_priv'[g] = f_priv[g] /\ mine'[g] = mine[g]
  BY DEF F!TypeOK
<1>7. f_inode'[f] = i /\ f_priv'[f] = TRUE /\ mine'[f] = t
  BY <1>2 DEF F!TypeOK
<1>8. F!TypeOK'
  BY <1>1, <1>2 DEF F!TypeOK, F!Places, F!tree
<1>9. FilesTree'
  BY DEF FilesTree, F!tree
<1>10. FilesCalls'
  BY <1>4, <1>5, <1>8 DEF FilesCalls, Closing, Replacing, F!tree
<1>11. FilesOwned'
  <2>1. \A u \in Tasks : at_file'[u] \in Closing \cup Replacing => u # t /\ fd[u] \in Fds /\ fd[u] # f
    BY <1>3, <1>4, <1>5 DEF FilesCalls, Closing, Replacing
  <2> QED BY <1>4, <1>5, <1>6, <2>1 DEF FilesOwned, Closing, Replacing
<1>12. ASSUME NEW j \in Inodes
       PROVE  /\ F!Open(j)' = IF j = i THEN F!Open(j) \cup {f} ELSE F!Open(j)
              /\ F!Holding(j)' = IF j = i THEN F!Holding(j) \ {t} ELSE F!Holding(j)
              /\ WithFile(j)' = IF j = i THEN WithFile(j) \cup {f} ELSE WithFile(j)
              /\ F!Carrying(j)' = IF j = i THEN F!Carrying(j) \ {t} ELSE F!Carrying(j)
  <2>1. \A g \in Fds : (\A u \in Tasks : ~(fd'[u] = g /\ at_file'[u] \in {"close_inode", "then_inode"}))
                      <=> (\A u \in Tasks : ~(fd[u] = g /\ at_file[u] \in {"close_inode", "then_inode"}))
    BY <1>4, <1>5
  <2>2. \A u \in Tasks : ~(fd[u] = f /\ at_file[u] \in {"close_inode", "then_inode"})
    BY <1>3 DEF Closing, Replacing
  <2>3. F!Open(j)' = IF j = i THEN F!Open(j) \cup {f} ELSE F!Open(j)
    BY <1>1, <1>6, <1>7, <2>1, <2>2, FilesAssumption DEF F!Open
  <2>4. F!Holding(j)' = IF j = i THEN F!Holding(j) \ {t} ELSE F!Holding(j)
    BY <1>1, <1>4, <1>5, FilesAssumption DEF F!Holding
  <2>5. WithFile(j)' = IF j = i THEN WithFile(j) \cup {f} ELSE WithFile(j)
    BY <1>1, <1>6, <1>7, FilesAssumption DEF WithFile
  <2>6. F!Carrying(j)' = IF j = i THEN F!Carrying(j) \ {t} ELSE F!Carrying(j)
    BY <1>1, <1>4, <1>5, FilesAssumption DEF F!Carrying
  <2> QED BY <2>3, <2>4, <2>5, <2>6
<1>13. FilesCounted'
  <2>1. f \notin F!Open(i) /\ t \in F!Holding(i) /\ f \notin WithFile(i) /\ t \in F!Carrying(i)
    BY <1>1, FilesAssumption DEF F!Open, F!Holding, WithFile, F!Carrying
  <2>2. /\ F!Open(i)' = F!Open(i) \cup {f} /\ F!Holding(i)' = F!Holding(i) \ {t}
        /\ WithFile(i)' = WithFile(i) \cup {f} /\ F!Carrying(i)' = F!Carrying(i) \ {t}
    BY <1>1, <1>12
  <2>3. /\ Cardinality(F!Open(i)) \in Nat /\ Cardinality(F!Holding(i)) \in Nat
        /\ Cardinality(WithFile(i)) \in Nat /\ Cardinality(F!Carrying(i)) \in Nat
    BY FilesFinite
  <2>4. /\ Cardinality(F!Open(i) \cup {f}) = Cardinality(F!Open(i)) + 1
        /\ Cardinality(WithFile(i) \cup {f}) = Cardinality(WithFile(i)) + 1
    BY <2>1, FilesFinite, OneMore
  <2>5. /\ Cardinality(F!Holding(i) \ {t}) = Cardinality(F!Holding(i)) - 1
        /\ Cardinality(F!Carrying(i) \ {t}) = Cardinality(F!Carrying(i)) - 1
    BY <2>1, FilesFinite, OneMore
  <2>6. FilesCountedAt(i) /\ i \in alive
    BY <1>1, <2>1 DEF FilesCounted, FilesCountedAt
  <2>7. UNCHANGED <<crefs, files, node, alive>>
    BY DEF F!tree
  <2>8. /\ Cardinality(F!Open(i)') + Cardinality(F!Holding(i)') = Cardinality(F!Open(i)) + Cardinality(F!Holding(i))
        /\ Cardinality(WithFile(i)') + Cardinality(F!Carrying(i)') = Cardinality(WithFile(i)) + Cardinality(F!Carrying(i))
    BY <2>2, <2>3, <2>4, <2>5
  <2>9. FilesCountedAt(i)'
    BY <2>6, <2>7, <2>8 DEF FilesCountedAt
  <2>10. ASSUME NEW j \in Inodes, j # i PROVE FilesCountedAt(j)'
    BY <1>12, <2>7, <2>10 DEF FilesCounted, FilesCountedAt
  <2> QED BY <2>9, <2>10 DEF FilesCounted
<1> QED BY <1>8, <1>9, <1>10, <1>11, <1>13

\* A free descriptor is allocated, or the file is closed again (fs_files.c:295-352).
LEMMA FilesAllocate ==
  ASSUME FilesSound, NEW t \in Tasks, F!Allocate(t)
  PROVE  FilesSound'
<1> USE DEF FilesSound
<1>1. CASE F!Free # {}
  <2>1. PICK f \in F!Free :
          /\ f_inode' = [f_inode EXCEPT ![f] = ino[t]]
          /\ f_priv' = [f_priv EXCEPT ![f] = TRUE]
          /\ mine' = [mine EXCEPT ![f] = t]
    BY <1>1 DEF F!Allocate
  <2>2. f \in Fds /\ f_inode[f] = NULL
    BY DEF F!Free
  <2>3. /\ at_file[t] \in {"allocate", "copy"} /\ F!Return(t) /\ UNCHANGED <<F!tree, sem, abandoned>>
        /\ clobbered' \in BOOLEAN /\ pulled' = pulled
    BY <1>1, <2>1, FilesAssumption DEF F!Allocate, F!TypeOK, F!Free
  <2> QED BY <2>1, <2>2, <2>3, FilesInstalled
<1>2. CASE F!Free = {}
  <2>1. PICK i \in Inodes : i = ino[t]
    BY FilesAssumption DEF FilesCalls, F!TypeOK, F!Allocate
  <2>2. /\ at_file[t] = "allocate" /\ F!CheckMount(i) /\ F!Unlisted(i) /\ F!Goto(t, "release")
        /\ UNCHANGED <<F!table, ino, fd, from, sem, clobbered, pulled>>
    BY <1>2, <2>1 DEF F!Allocate
  <2>3. /\ at_file' = [at_file EXCEPT ![t] = "release"]
        /\ files' = [files EXCEPT ![i] = IF @ > 0 THEN @ - 1 ELSE 0]
        /\ UNCHANGED <<node, alive, crefs, deleted, mops, drv>>
    BY <2>2 DEF F!Goto, F!Unlisted
  <2>4. fs' \in [Inodes -> {"none", "mounted", "stopped"}] /\ \A j \in Inodes : fs'[j] = "mounted" => fs[j] = "mounted"
    BY <2>2 DEF F!TypeOK, F!CheckMount
  <2>5. F!TypeOK'
    <3>1. files' \in [Inodes -> Nat]
      BY <2>3 DEF F!TypeOK
    <3> QED BY <2>2, <2>3, <2>4, <3>1 DEF F!TypeOK, F!Places, F!table
  <2>6. FilesTree' /\ FilesCalls' /\ FilesOwned'
    <3>1. FilesTree'
      BY <2>3, <2>4 DEF FilesTree
    <3>2. FilesCalls'
      BY <2>2, <2>3 DEF FilesCalls, F!TypeOK, Closing, Replacing
    <3>3. FilesOwned'
      BY <2>2, <2>3 DEF FilesOwned, F!TypeOK, Closing, Replacing, F!table
    <3> QED BY <3>1, <3>2, <3>3
  <2>7. ASSUME NEW j \in Inodes
        PROVE  /\ F!Open(j)' = F!Open(j) /\ F!Holding(j)' = F!Holding(j) /\ WithFile(j)' = WithFile(j)
               /\ F!Carrying(j)' = IF j = i THEN F!Carrying(j) \ {t} ELSE F!Carrying(j)
    <3>1. F!Open(j)' = F!Open(j) /\ F!Holding(j)' = F!Holding(j) /\ WithFile(j)' = WithFile(j)
      BY <2>2, <2>3 DEF F!Open, F!Holding, WithFile, F!TypeOK, F!table
    <3>2. F!Carrying(j)' = IF j = i THEN F!Carrying(j) \ {t} ELSE F!Carrying(j)
      BY <2>1, <2>2, <2>3 DEF F!Carrying, F!TypeOK
    <3> QED BY <3>1, <3>2
  <2>8. FilesCounted'
    <3>1. t \in F!Carrying(i) /\ F!Carrying(i)' = F!Carrying(i) \ {t} /\ WithFile(i)' = WithFile(i)
      BY <2>1, <2>2, <2>7 DEF F!Carrying
    <3>2. Cardinality(F!Carrying(i)) > 0 /\ Cardinality(F!Carrying(i) \ {t}) = Cardinality(F!Carrying(i)) - 1
      BY <3>1, FilesFinite, OneMore
    <3>3. Cardinality(WithFile(i)) \in Nat /\ Cardinality(F!Carrying(i)) \in Nat /\ abandoned[i] \in Nat
      BY FilesFinite DEF F!TypeOK
    <3>4. /\ files[i] = Cardinality(WithFile(i)) + Cardinality(F!Carrying(i)) + abandoned[i]
          /\ files[i] > 0 => i = node
      BY DEF FilesCounted, FilesCountedAt
    <3>7. abandoned' = abandoned
      BY <2>2 DEF F!table
    <3>5. files[i] > 0 /\ files[i] - 1 = Cardinality(WithFile(i)') + Cardinality(F!Carrying(i)') + abandoned'[i]
      BY <3>1, <3>2, <3>3, <3>4, <3>7
    <3>6. /\ files'[i] = Cardinality(WithFile(i)') + Cardinality(F!Carrying(i)') + abandoned'[i]
          /\ i = node /\ \A j \in Inodes : j # i => files'[j] = files[j]
      BY <2>3, <3>4, <3>5 DEF F!TypeOK
    <3> QED BY <2>3, <2>7, <3>6, <3>7, FilesRelisted
  <2> QED BY <2>5, <2>6, <2>8
<1> QED BY <1>1, <1>2

\* The descriptor dup2 replaced is given the file, unless somebody has got it
\* (fs_dupfd2.c).
LEMMA FilesCopy ==
  ASSUME FilesSound, NEW t \in Tasks, F!Copy(t), ~clobbered'
  PROVE  FilesSound'
<1>1. fd[t] \in Fds
  BY DEF FilesSound, FilesCalls, F!Copy
<1>2. PICK f \in Fds : f = fd[t]
  BY <1>1
<1>3. f_inode[f] = NULL
  BY <1>2 DEF F!Copy
<1> QED BY <1>2, <1>3, FilesInstalled DEF F!Copy, FilesSound, F!TypeOK

\* The close method takes the file of the descriptor, if it has one, off the list
\* (fs_fat32.c:308-397).
LEMMA FilesCloseFile ==
  ASSUME FilesSound, NEW t \in Tasks, NEW f \in Fds, NEW i \in Inodes, i = f_inode[f],
         NEW p \in {"close_release", "then_release"}, F!CloseFile(t, f, p),
         at_file[t] = IF p = "close_release" THEN "idle" ELSE "dup2_close",
         fd' = [fd EXCEPT ![t] = f], mine[f] = t,
         mine' = IF p = "close_release" THEN [mine EXCEPT ![f] = NULL] ELSE mine,
         UNCHANGED <<sem, f_inode, abandoned, ino, pulled>>, clobbered' \in BOOLEAN
  PROVE  FilesSound'
<1> USE DEF FilesSound
<1>1. /\ at_file' = [at_file EXCEPT ![t] = p] /\ from' = [from EXCEPT ![t] = i]
      /\ f_priv' = [f_priv EXCEPT ![f] = FALSE]
      /\ UNCHANGED <<node, alive, crefs, deleted, mops, drv>>
  BY DEF F!CloseFile, F!Goto, F!Unlisted, F!tree
<1>2. files' = IF f_priv[f] THEN [files EXCEPT ![i] = IF @ > 0 THEN @ - 1 ELSE 0] ELSE files
  BY DEF F!CloseFile, F!Unlisted, F!tree
<1>3. fs' \in [Inodes -> {"none", "mounted", "stopped"}] /\ \A j \in Inodes : fs'[j] = "mounted" => fs[j] = "mounted"
  BY DEF F!TypeOK, F!CloseFile, F!CheckMount, F!tree
<1>4. F!TypeOK'
  BY <1>1, <1>2, <1>3, FilesAssumption DEF F!TypeOK, F!Places
<1>5. FilesTree'
  BY <1>1, <1>3 DEF FilesTree
<1>6. FilesCalls'
  BY <1>1 DEF FilesCalls, F!TypeOK, Closing, Replacing
<1>7. \A u \in Tasks : u # t /\ at_file[u] \in Closing \cup Replacing => fd[u] # f
  BY FilesAssumption DEF FilesOwned
<1>8. FilesOwned'
  <2>1. \A u \in Tasks : u # t => /\ at_file'[u] = at_file[u] /\ fd'[u] = fd[u] /\ from'[u] = from[u]
    BY <1>1 DEF F!TypeOK
  <2>2. /\ at_file'[t] = p /\ fd'[t] = f /\ from'[t] = i
    BY <1>1 DEF F!TypeOK
  <2>3. \A g \in Fds : g # f => mine'[g] = mine[g] /\ f_priv'[g] = f_priv[g]
    BY <1>1 DEF F!TypeOK
  <2>4. f_priv'[f] = FALSE /\ mine'[f] = IF p = "close_release" THEN NULL ELSE t
    BY <1>1 DEF F!TypeOK
  <2>5. \A u \in Tasks : u # t /\ at_file[u] \in Closing \cup Replacing => fd[u] \in Fds \ {f}
    BY <1>7 DEF FilesCalls
  <2> QED BY <2>1, <2>2, <2>3, <2>4, <2>5, FilesAssumption DEF FilesOwned, Closing, Replacing
<1>9. ASSUME NEW j \in Inodes
      PROVE  /\ F!Open(j)' = F!Open(j) /\ F!Holding(j)' = F!Holding(j) /\ F!Carrying(j)' = F!Carrying(j)
             /\ WithFile(j)' = IF j = i THEN WithFile(j) \ {f} ELSE WithFile(j)
  <2>1. F!Open(j)' = F!Open(j)
    <3>1. \A g \in Fds, u \in Tasks : (fd'[u] = g /\ at_file'[u] \in {"close_inode", "then_inode"})
                                      <=> (fd[u] = g /\ at_file[u] \in {"close_inode", "then_inode"})
      BY <1>1 DEF F!TypeOK
    <3> QED BY <3>1 DEF F!Open
  <2>2. F!Holding(j)' = F!Holding(j)
    BY DEF F!Holding
  <2>3. F!Carrying(j)' = F!Carrying(j)
    <3>1. ino[t] # NULL <=> p # "close_release"
      BY DEF FilesCalls
    <3> QED BY <1>1, <3>1, FilesAssumption DEF F!Carrying, F!TypeOK
  <2>4. WithFile(j)' = IF j = i THEN WithFile(j) \ {f} ELSE WithFile(j)
    BY <1>1 DEF WithFile, F!TypeOK
  <2> QED BY <2>1, <2>2, <2>3, <2>4
<1>10. FilesCounted'
  <2>1. CASE f_priv[f]
    <3>1. f \in WithFile(i) /\ WithFile(i)' = WithFile(i) \ {f} /\ F!Carrying(i)' = F!Carrying(i)
      BY <1>9, <2>1 DEF WithFile
    <3>2. Cardinality(WithFile(i)) > 0 /\ Cardinality(WithFile(i) \ {f}) = Cardinality(WithFile(i)) - 1
      BY <3>1, FilesFinite, OneMore
    <3>3. Cardinality(WithFile(i)) \in Nat /\ Cardinality(F!Carrying(i)) \in Nat /\ abandoned[i] \in Nat
      BY FilesFinite DEF F!TypeOK
    <3>4. /\ files[i] = Cardinality(WithFile(i)) + Cardinality(F!Carrying(i)) + abandoned[i]
          /\ files[i] > 0 => i = node
      BY DEF FilesCounted, FilesCountedAt
    <3>7. abandoned' = abandoned
      BY DEF F!table
    <3>5. files[i] > 0 /\ files[i] - 1 = Cardinality(WithFile(i)') + Cardinality(F!Carrying(i)') + abandoned'[i]
      BY <3>1, <3>2, <3>3, <3>4, <3>7
    <3>6. /\ files'[i] = Cardinality(WithFile(i)') + Cardinality(F!Carrying(i)') + abandoned'[i]
          /\ i = node /\ \A j \in Inodes : j # i => files'[j] = files[j]
      BY <1>2, <2>1, <3>4, <3>5 DEF F!TypeOK
    <3> QED BY <1>1, <1>9, <3>6, <3>7, FilesRelisted
  <2>2. CASE ~f_priv[f]
    <3>1. f \notin WithFile(i)
      BY <2>2 DEF WithFile
    <3>2. \A j \in Inodes : WithFile(j)' = WithFile(j)
      BY <1>9, <3>1
    <3>3. files' = files /\ \A j \in Inodes : mops[j] = (j = node)
      BY <1>2, <2>2 DEF FilesTree
    <3> QED BY <1>1, <1>9, <3>2, <3>3, FilesSameCounts
  <2> QED BY <2>1, <2>2
<1> QED BY <1>4, <1>5, <1>6, <1>8, <1>10

\* A dup2 onto a number that is free goes on to the copy.
LEMMA FilesToCopy ==
  ASSUME FilesSound, NEW t \in Tasks, at_file[t] = "dup2_close",
         at_file' = [at_file EXCEPT ![t] = "copy"],
         UNCHANGED <<F!tree, F!table, sem, ino, fd, from, pulled>>, clobbered' \in BOOLEAN
  PROVE  FilesSound'
<1> USE DEF FilesSound
<1>1. F!TypeOK' /\ FilesTree'
  BY DEF F!TypeOK, F!Places, FilesTree, F!tree, F!table
<1>2. FilesCalls'
  BY DEF FilesCalls, Closing, Replacing, F!TypeOK, F!tree
<1>3. FilesOwned'
  BY DEF FilesOwned, Closing, Replacing, F!TypeOK, F!table
<1>4. ASSUME NEW i \in Inodes
      PROVE  F!Open(i)' = F!Open(i) /\ F!Holding(i)' = F!Holding(i) /\ WithFile(i)' = WithFile(i)
             /\ F!Carrying(i)' = F!Carrying(i)
  BY DEF F!TypeOK, F!Open, F!Holding, WithFile, F!Carrying, F!table
<1>5. FilesCounted'
  BY <1>4, FilesSameCounts DEF FilesTree, F!tree, F!table
<1> QED BY <1>1, <1>2, <1>3, <1>5

\* close and dup2 close a descriptor of their own.
LEMMA FilesClose ==
  ASSUME FilesSound, NEW t \in Tasks, ~clobbered',
         (\E f \in Fds : F!Close(t, f)) \/ F!ReplaceClose(t)
  PROVE  FilesSound'
<1>1. ASSUME NEW f \in Fds, F!Close(t, f) PROVE FilesSound'
  <2>1. PICK i \in Inodes : i = f_inode[f]
    BY <1>1 DEF F!Close, FilesSound, F!TypeOK
  <2>2. /\ F!CloseFile(t, f, "close_release") /\ at_file[t] = "idle" /\ fd' = [fd EXCEPT ![t] = f]
        /\ mine[f] = t /\ mine' = [mine EXCEPT ![f] = NULL]
        /\ UNCHANGED <<sem, f_inode, abandoned, ino, pulled>> /\ clobbered' \in BOOLEAN
    BY <1>1 DEF F!Close, F!Idle, FilesSound, F!TypeOK
  <2> QED BY <2>1, <2>2, FilesCloseFile
<1>2. CASE F!ReplaceClose(t)
  <2>1. at_file[t] = "dup2_close" /\ clobbered' \in BOOLEAN /\ fd[t] \in Fds
    BY <1>2 DEF F!ReplaceClose, FilesSound, FilesCalls
  <2>2. CASE f_inode[fd[t]] # NULL
    <3>1. mine[fd[t]] = t
      BY <1>2, <2>2 DEF F!ReplaceClose
    <3>2. PICK f \in Fds, i \in Inodes : f = fd[t] /\ i = f_inode[f]
      BY <2>1, <2>2 DEF FilesSound, F!TypeOK
    <3>3. F!CloseFile(t, f, "then_release") /\ UNCHANGED <<f_inode, mine, abandoned, sem, ino, fd, pulled>>
      BY <1>2, <2>2, <3>2 DEF F!ReplaceClose
    <3>4. fd' = [fd EXCEPT ![t] = f]
      BY <3>2, <3>3 DEF FilesSound, F!TypeOK
    <3> QED BY <2>1, <3>1, <3>2, <3>3, <3>4, FilesCloseFile
  <2>3. CASE f_inode[fd[t]] = NULL
    <3>1. /\ at_file' = [at_file EXCEPT ![t] = "copy"]
          /\ UNCHANGED <<F!tree, F!table, sem, ino, fd, from, pulled>>
      BY <1>2, <2>3 DEF F!ReplaceClose, F!Goto, F!table
    <3> QED BY <2>1, <3>1, FilesToCopy
  <2> QED BY <2>2, <2>3
<1> QED BY <1>1, <1>2

\* file_close drops the reference, and its descriptor is no longer counted although it
\* still names the inode (fs_closefile.c, fs_inoderelease.c:68-91).
LEMMA FilesCloseRelease ==
  ASSUME FilesSound, NEW t \in Tasks, F!CloseRelease(t)
  PROVE  FilesSound'
<1> USE DEF FilesSound
<1>1. at_file[t] \in {"close_release", "then_release"} /\ fd[t] \in Fds
      /\ f_inode[fd[t]] # NULL /\ from[t] = f_inode[fd[t]]
  BY DEF F!CloseRelease, FilesCalls, FilesOwned, Closing, Replacing
<1>2. PICK f \in Fds, i \in Inodes : f = fd[t] /\ i = f_inode[f]
  BY <1>1 DEF F!TypeOK
<1>3. F!DropRef(i) /\ UNCHANGED <<F!table, sem, ino, fd, from, clobbered, pulled>>
  BY <1>1, <1>2 DEF F!CloseRelease
<1>4. at_file' = [at_file EXCEPT ![t] = IF at_file[t] = "close_release" THEN "close_inode" ELSE "then_inode"]
  BY DEF F!CloseRelease, F!Goto
<1>5. F!TypeOK'
  <2>1. /\ crefs' \in [Inodes -> Nat] /\ alive' \subseteq Inodes /\ deleted' \in [Inodes -> BOOLEAN]
        /\ UNCHANGED <<node, mops, fs, files, drv>>
    BY <1>3 DEF F!TypeOK, F!DropRef
  <2> QED BY <1>3, <1>4, <2>1 DEF F!TypeOK, F!Places, F!table
<1>6. FilesCalls' /\ FilesOwned'
  <2>1. node' = node
    BY <1>3 DEF F!DropRef
  <2>2. FilesCalls'
    BY <1>1, <1>3, <1>4, <2>1 DEF FilesCalls, Closing, Replacing, F!TypeOK
  <2>3. FilesOwned'
    BY <1>1, <1>3, <1>4 DEF FilesOwned, Closing, Replacing, F!TypeOK, F!table
  <2> QED BY <2>2, <2>3
<1>7. \A u \in Tasks : at_file[u] \in Closing \cup Replacing /\ fd[u] = f => u = t
  BY <1>1, <1>2, FilesAssumption DEF FilesOwned, Closing, Replacing
<1>8. ASSUME NEW j \in Inodes
      PROVE  /\ F!Open(j)' = IF j = i THEN F!Open(j) \ {f} ELSE F!Open(j)
             /\ F!Holding(j)' = F!Holding(j) /\ WithFile(j)' = WithFile(j) /\ F!Carrying(j)' = F!Carrying(j)
  <2>1. \A g \in Fds : (\E u \in Tasks : fd'[u] = g /\ at_file'[u] \in {"close_inode", "then_inode"})
                        <=> g = f \/ \E u \in Tasks : fd[u] = g /\ at_file[u] \in {"close_inode", "then_inode"}
    BY <1>1, <1>2, <1>3, <1>4 DEF F!TypeOK
  <2>2. F!Open(j)' = IF j = i THEN F!Open(j) \ {f} ELSE F!Open(j)
    BY <1>2, <1>3, <2>1 DEF F!Open, F!table
  <2>3. F!Holding(j)' = F!Holding(j) /\ WithFile(j)' = WithFile(j)
    BY <1>3 DEF F!Holding, WithFile, F!table
  <2>4. F!Carrying(j)' = F!Carrying(j)
    BY <1>1, <1>3, <1>4 DEF F!Carrying, F!TypeOK
  <2> QED BY <2>2, <2>3, <2>4
<1>9. f \in F!Open(i)
  BY <1>1, <1>2, <1>7 DEF F!Open, Closing, Replacing
<1>10. FilesCounted' /\ FilesTree'
  <2>1. /\ F!Open(i)' = F!Open(i) \ {f} /\ F!Holding(i)' = F!Holding(i)
        /\ Cardinality(F!Open(i)) > 0 /\ Cardinality(F!Open(i) \ {f}) = Cardinality(F!Open(i)) - 1
    BY <1>8, <1>9, FilesFinite, OneMore
  <2>2. Cardinality(F!Open(i)) \in Nat /\ Cardinality(F!Holding(i)) \in Nat
    BY FilesFinite
  <2>3. ASSUME NEW j \in Inodes
        PROVE /\ IsFiniteSet(F!Open(j)') /\ IsFiniteSet(F!Holding(j)')
    <3>1. IsFiniteSet(F!Open(j) \ {f})
      BY FilesFinite, FS_RemoveElement
    <3> QED BY <1>8, <3>1, FilesFinite
  <2>4. \A Z : IsFiniteSet(Z) => Cardinality(Z) \in Nat /\ (Cardinality(Z) = 0 => Z = {})
    BY FS_CardinalityType, FS_EmptySet
  <2>5. \A j \in Inodes : j # i => F!Open(j)' = F!Open(j) /\ F!Holding(j)' = F!Holding(j)
    BY <1>8
  <2>6. Cardinality(F!Open(i)) + Cardinality(F!Holding(i)) > 0
    BY <2>1, <2>2
  <2>7. Cardinality(F!Open(i)') + Cardinality(F!Holding(i)') = Cardinality(F!Open(i)) + Cardinality(F!Holding(i)) - 1
    BY <2>1, <2>2
  <2>8. \A j \in Inodes : /\ Cardinality(F!Open(j)') \in Nat /\ Cardinality(F!Holding(j)') \in Nat
                          /\ Cardinality(F!Open(j)') = 0 => F!Open(j)' = {}
                          /\ Cardinality(F!Holding(j)') = 0 => F!Holding(j)' = {}
    BY <2>3, <2>4
  <2>9. abandoned' = abandoned
    BY <1>3 DEF F!table
  <2> QED BY <1>3, <1>8, <2>5, <2>6, <2>7, <2>8, <2>9, FilesDropRef
<1> QED BY <1>5, <1>6, <1>10

\* file_close clears the descriptor in two steps; if somebody has got it before the second,
\* a file is abandoned (fs_close.c:60-85).
LEMMA FilesCloseEnd ==
  ASSUME FilesSound, NEW t \in Tasks, F!CloseInode(t) \/ F!ClosePriv(t)
  PROVE  FilesSound'
<1> USE DEF FilesSound
<1>1. at_file[t] \in {"close_inode", "then_inode", "close_priv", "then_priv"} /\ fd[t] \in Fds
  BY DEF F!CloseInode, F!ClosePriv, FilesCalls, Closing, Replacing
<1>2. PICK f \in Fds : f = fd[t]
  BY <1>1
<1>3. /\ UNCHANGED <<F!tree, mine, sem>>
      /\ at_file' = [at_file EXCEPT ![t] = at_file'[t]]
      /\ at_file'[t] = CASE at_file[t] = "close_inode" -> "close_priv"
                         [] at_file[t] = "then_inode" -> "then_priv"
                         [] at_file[t] = "close_priv" -> "idle"
                         [] at_file[t] = "then_priv" -> "copy"
  BY <1>1 DEF F!CloseInode, F!ClosePriv, F!Return, F!Goto, F!TypeOK
<1>4. ino' = ino
  BY DEF F!CloseInode, F!ClosePriv, F!Return, FilesCalls, F!TypeOK
<1>5. /\ fd' \in [Tasks -> Fds \cup {NULL}] /\ from' \in [Tasks -> Inodes \cup {NULL}]
      /\ \A u \in Tasks : u # t \/ at_file'[t] # "idle" => fd'[u] = fd[u] /\ from'[u] = from[u]
  BY <1>1 DEF F!CloseInode, F!ClosePriv, F!Return, F!Goto, F!TypeOK
<1>6. /\ f_inode' = IF at_file[t] \in {"close_inode", "then_inode"} THEN [f_inode EXCEPT ![f] = NULL] ELSE f_inode
      /\ f_priv' = IF at_file[t] \in {"close_inode", "then_inode"} THEN f_priv ELSE [f_priv EXCEPT ![f] = FALSE]
      /\ clobbered' = clobbered /\ pulled' = pulled
  BY <1>1, <1>2 DEF F!CloseInode, F!ClosePriv, F!TypeOK
<1>7. at_file[t] \in {"close_inode", "then_inode"} => f_inode[f] # NULL /\ ~f_priv[f]
  BY <1>1, <1>2 DEF FilesOwned, Closing, Replacing
<1> DEFINE strayed == at_file[t] \in {"close_priv", "then_priv"} /\ f_inode[f] # NULL /\ f_priv[f]
<1>17. PICK i \in Inodes \cup {NULL} : i = f_inode[f]
  BY DEF F!TypeOK
<1>18. /\ strayed => abandoned' = [abandoned EXCEPT ![i] = @ + 1]
       /\ ~strayed => abandoned' = abandoned
  BY <1>1, <1>2, <1>17 DEF F!CloseInode, F!ClosePriv
<1>19. abandoned' \in [Inodes -> Nat]
  <2>1. CASE strayed
    <3>1. i \in Inodes /\ abandoned \in [Inodes -> Nat]
      BY <1>17, <2>1 DEF F!TypeOK
    <3>2. abandoned' = [abandoned EXCEPT ![i] = @ + 1]
      BY <1>18, <2>1
    <3> QED BY <3>1, <3>2
  <2>2. CASE ~strayed
    BY <1>18, <2>2 DEF F!TypeOK
  <2> QED BY <2>1, <2>2
<1>8. F!TypeOK'
  BY <1>1, <1>3, <1>4, <1>5, <1>6, <1>19 DEF F!TypeOK, F!Places, F!tree
<1>9. FilesTree'
  BY <1>3 DEF FilesTree, F!tree
<1>10. \A u \in Tasks : u # t => at_file'[u] = at_file[u]
  BY <1>3 DEF F!TypeOK
<1>11. FilesCalls'
  BY <1>1, <1>3, <1>4, <1>5, <1>10 DEF FilesCalls, Closing, Replacing, F!tree
<1>12. \A u \in Tasks : u # t /\ at_file[u] \in Closing \cup Replacing =>
         /\ fd[u] \in Fds
         /\ at_file[t] \in {"close_inode", "then_inode"} => fd[u] # f
  BY <1>1, <1>2, FilesAssumption DEF FilesCalls, FilesOwned, Closing, Replacing
<1>13. \A g \in Fds : g # f => f_inode'[g] = f_inode[g] /\ f_priv'[g] = f_priv[g]
  BY <1>6 DEF F!TypeOK
<1>14. FilesOwned'
  <2>1. \A u \in Tasks : at_file'[u] \in Closing \cup Replacing =>
           /\ u # t /\ at_file'[u] = at_file[u] /\ fd'[u] = fd[u] /\ from'[u] = from[u]
           /\ fd[u] \in Fds /\ f_inode'[fd[u]] = f_inode[fd[u]]
           /\ f_priv'[fd[u]] \in {FALSE, f_priv[fd[u]]}
    <3> SUFFICES ASSUME NEW u \in Tasks, at_file'[u] \in Closing \cup Replacing
                 PROVE  /\ u # t /\ at_file'[u] = at_file[u] /\ fd'[u] = fd[u] /\ from'[u] = from[u]
                        /\ fd[u] \in Fds /\ f_inode'[fd[u]] = f_inode[fd[u]]
                        /\ f_priv'[fd[u]] \in {FALSE, f_priv[fd[u]]}
      OBVIOUS
    <3>1. u # t
      BY <1>1, <1>3 DEF Closing, Replacing
    <3>2. at_file'[u] = at_file[u] /\ fd'[u] = fd[u] /\ from'[u] = from[u]
      BY <1>5, <1>10, <3>1
    <3>3. fd[u] \in Fds /\ (at_file[t] \in {"close_inode", "then_inode"} => fd[u] # f)
      BY <1>12, <3>1, <3>2
    <3>4. f_inode'[fd[u]] = f_inode[fd[u]] /\ f_priv'[fd[u]] \in {FALSE, f_priv[fd[u]]}
      BY <1>6, <1>13, <3>3 DEF F!TypeOK
    <3> QED BY <3>1, <3>2, <3>3, <3>4
  <2>2. mine' = mine
    BY <1>3
  <2>3. ASSUME NEW u \in Tasks, at_file'[u] \in Closing
        PROVE  mine'[fd'[u]] = NULL /\ \A v \in Tasks : at_file'[v] \in Closing /\ fd'[v] = fd'[u] => v = u
    <3>1. \A v \in Tasks : at_file'[v] \in Closing => at_file[v] \in Closing /\ fd'[v] = fd[v]
      BY <2>1
    <3>2. mine[fd[u]] = NULL /\ \A v \in Tasks : at_file[v] \in Closing /\ fd[v] = fd[u] => v = u
      BY <2>3, <3>1 DEF FilesOwned
    <3>3. fd'[u] = fd[u]
      BY <2>3, <3>1
    <3> QED BY <2>2, <3>1, <3>2, <3>3
  <2>4. ASSUME NEW u \in Tasks, at_file'[u] \in Replacing PROVE mine'[fd'[u]] = u
    <3>1. at_file'[u] = at_file[u] /\ fd'[u] = fd[u]
      BY <2>1, <2>4
    <3> QED BY <2>2, <2>4, <3>1 DEF FilesOwned
  <2>5. ASSUME NEW u \in Tasks, at_file'[u] \in Closing \cup Replacing
        PROVE  f_inode'[fd'[u]] # NULL /\ ~f_priv'[fd'[u]]
    <3>1. /\ at_file'[u] = at_file[u] /\ fd'[u] = fd[u] /\ f_inode'[fd[u]] = f_inode[fd[u]]
          /\ f_priv'[fd[u]] \in {FALSE, f_priv[fd[u]]}
      BY <2>1, <2>5
    <3>2. f_inode[fd[u]] # NULL /\ ~f_priv[fd[u]]
      BY <2>5, <3>1 DEF FilesOwned
    <3> QED BY <3>1, <3>2
  <2>6. ASSUME NEW u \in Tasks, at_file'[u] \in {"close_release", "then_release"}
        PROVE  from'[u] = f_inode'[fd'[u]]
    <3>1. at_file'[u] \in Closing \cup Replacing
      BY <2>6 DEF Closing, Replacing
    <3>2. at_file'[u] = at_file[u] /\ fd'[u] = fd[u] /\ from'[u] = from[u] /\ f_inode'[fd[u]] = f_inode[fd[u]]
      BY <2>1, <3>1
    <3>3. from[u] = f_inode[fd[u]]
      BY <2>6, <3>2 DEF FilesOwned
    <3> QED BY <3>2, <3>3
  <2> QED BY <2>3, <2>4, <2>5, <2>6 DEF FilesOwned
<1>15. ASSUME NEW j \in Inodes
       PROVE  /\ F!Open(j)' = F!Open(j) /\ F!Holding(j)' = F!Holding(j)
              /\ WithFile(j)' = (IF strayed /\ j = i THEN WithFile(j) \ {f} ELSE WithFile(j))
              /\ F!Carrying(j)' = F!Carrying(j)
  <2>1. \A g \in Fds \ {f} : (\E u \in Tasks : fd'[u] = g /\ at_file'[u] \in {"close_inode", "then_inode"})
                        <=> (\E u \in Tasks : fd[u] = g /\ at_file[u] \in {"close_inode", "then_inode"})
    BY <1>1, <1>2, <1>3, <1>5, <1>10
  <2>3. F!Open(j)' = F!Open(j)
    <3>1. CASE at_file[t] \in {"close_inode", "then_inode"}
      <4>1. f \notin F!Open(j) /\ f \notin F!Open(j)'
        BY <1>2, <1>6, <3>1, FilesAssumption DEF F!Open, F!TypeOK
      <4> QED BY <1>13, <2>1, <4>1 DEF F!Open
    <3>2. CASE at_file[t] \notin {"close_inode", "then_inode"}
      <4>1. f_inode' = f_inode
        BY <1>6, <3>2
      <4>2. \A g \in Fds : (\E u \in Tasks : fd'[u] = g /\ at_file'[u] \in {"close_inode", "then_inode"})
                        <=> (\E u \in Tasks : fd[u] = g /\ at_file[u] \in {"close_inode", "then_inode"})
        BY <1>1, <1>3, <1>5, <1>10, <3>2
      <4> QED BY <4>1, <4>2 DEF F!Open
    <3> QED BY <3>1, <3>2
  <2>4. F!Holding(j)' = F!Holding(j)
    BY <1>4 DEF F!Holding
  <2>5. f \notin WithFile(j)' /\ (f \in WithFile(j) <=> strayed /\ j = i)
    <3>1. CASE at_file[t] \in {"close_inode", "then_inode"}
      BY <1>6, <1>7, <3>1, FilesAssumption DEF WithFile, F!TypeOK
    <3>2. CASE at_file[t] \notin {"close_inode", "then_inode"}
      BY <1>1, <1>6, <1>17, <3>2, FilesAssumption DEF WithFile, F!TypeOK
    <3> QED BY <3>1, <3>2
  <2>6. WithFile(j)' = IF strayed /\ j = i THEN WithFile(j) \ {f} ELSE WithFile(j)
    BY <1>13, <2>5 DEF WithFile
  <2>7. F!Carrying(j)' = F!Carrying(j)
    <3>1. at_file[t] \in {"close_inode", "close_priv"} => ino[t] = NULL
      BY DEF FilesCalls
    <3> QED BY <1>1, <1>3, <1>4, <1>10, <3>1, FilesAssumption DEF F!Carrying
  <2> QED BY <2>3, <2>4, <2>6, <2>7
<1>16. FilesCounted'
  <2>1. CASE ~strayed
    BY <1>3, <1>15, <1>18, <2>1, FilesSameCounts DEF FilesTree, F!tree
  <2>2. CASE strayed
    <3>1. i \in Inodes /\ f \in WithFile(i)
      BY <1>17, <2>2 DEF WithFile
    <3>2. abandoned'[i] = abandoned[i] + 1 /\ \A j \in Inodes : j # i => abandoned'[j] = abandoned[j]
      BY <1>18, <2>2, <3>1 DEF F!TypeOK
    <3>3. Cardinality(WithFile(i)) > 0 /\ Cardinality(WithFile(i) \ {f}) = Cardinality(WithFile(i)) - 1
      BY <3>1, FilesFinite, OneMore
    <3>4. WithFile(i)' = WithFile(i) \ {f} /\ F!Carrying(i)' = F!Carrying(i) /\ files' = files
      BY <1>3, <1>15, <2>2, <3>1 DEF F!tree
    <3>5. /\ Cardinality(WithFile(i)) \in Nat /\ Cardinality(F!Carrying(i)) \in Nat
          /\ abandoned[i] \in Nat
      BY <3>1, FilesFinite DEF F!TypeOK
    <3>6. /\ files[i] = Cardinality(WithFile(i)) + Cardinality(F!Carrying(i)) + abandoned[i]
          /\ files[i] > 0 => i = node
      BY <3>1 DEF FilesCounted, FilesCountedAt
    <3>7. files'[i] = Cardinality(WithFile(i)') + Cardinality(F!Carrying(i)') + abandoned'[i]
      BY <3>2, <3>3, <3>4, <3>5, <3>6
    <3>8. UNCHANGED <<node, alive, crefs>>
      BY <1>3 DEF F!tree
    <3> QED BY <1>15, <3>1, <3>2, <3>4, <3>6, <3>7, <3>8, FilesRelisted
  <2> QED BY <2>1, <2>2
<1> QED BY <1>8, <1>9, <1>11, <1>14, <1>16

\* A mount point is new, and nothing refers to it (fs_mount.c:245-484).
LEMMA FilesMount ==
  ASSUME FilesSound, NEW t \in Tasks, F!Mount(t)
  PROVE  FilesSound'
<1> USE DEF FilesSound
<1>1. PICK i \in Inodes \ alive :
        /\ node' = i /\ alive' = alive \cup {i}
        /\ crefs' = [crefs EXCEPT ![i] = 0] /\ deleted' = [deleted EXCEPT ![i] = FALSE]
        /\ mops' = [mops EXCEPT ![i] = TRUE] /\ fs' = [fs EXCEPT ![i] = "mounted"]
        /\ files' = [files EXCEPT ![i] = 0] /\ abandoned' = [abandoned EXCEPT ![i] = 0]
  BY DEF F!Mount
<1>2. /\ node = NULL /\ sem = NULL /\ drv' = drv + 1
      /\ UNCHANGED <<f_inode, f_priv, mine, sem, at_file, ino, fd, from, clobbered, pulled>>
  BY DEF F!Mount
<1>3. F!TypeOK'
  BY <1>1, <1>2 DEF F!TypeOK, F!table
<1>4. FilesTree'
  <2>1. node' \in alive' \cup {NULL} /\ drv' = IF node' = NULL THEN 0 ELSE 1
    BY <1>1, <1>2, FilesAssumption DEF FilesTree
  <2>2. ASSUME NEW j \in Inodes
        PROVE  /\ mops'[j] = (j = node') /\ deleted'[j] = (j \in alive' /\ j # node')
               /\ fs'[j] = "mounted" => j = node'
    <3>1. CASE j = i
      BY <1>1, <3>1 DEF F!TypeOK
    <3>2. CASE j # i
      BY <1>1, <1>2, <3>2, FilesAssumption DEF FilesTree, F!TypeOK
    <3> QED BY <3>1, <3>2
  <2> QED BY <2>1, <2>2 DEF FilesTree
<1>5. FilesCalls'
  BY <1>2, FilesAssumption DEF FilesCalls
<1>6. FilesOwned'
  BY <1>2 DEF FilesOwned, F!table
<1>7. ASSUME NEW j \in Inodes
      PROVE  /\ F!Open(j)' = F!Open(j) /\ F!Holding(j)' = F!Holding(j)
             /\ WithFile(j)' = WithFile(j) /\ F!Carrying(j)' = F!Carrying(j)
  BY <1>2 DEF F!Open, F!Holding, WithFile, F!Carrying, F!table
<1>8. F!Open(i) = {} /\ F!Holding(i) = {}
  BY <1>1 DEF FilesCounted, FilesCountedAt
<1>9. F!Carrying(i) = {} /\ WithFile(i) = {}
  <2>1. F!Carrying(i) = {}
    BY <1>8 DEF F!Carrying, F!Holding
  <2>2. ASSUME NEW f \in WithFile(i) PROVE FALSE
    <3>1. f \in Fds /\ f_inode[f] = i /\ f_priv[f]
      BY <2>2 DEF WithFile
    <3>2. PICK u \in Tasks : fd[u] = f /\ at_file[u] \in {"close_inode", "then_inode"}
      BY <1>8, <3>1 DEF F!Open
    <3> QED BY <3>1, <3>2 DEF FilesOwned, Closing, Replacing
  <2> QED BY <2>1, <2>2
<1>10. FilesCounted'
  <2>1. FilesCountedAt(i)'
    <3>1. crefs'[i] = 0 /\ files'[i] = 0 /\ abandoned'[i] = 0 /\ i \in alive' /\ i = node'
      BY <1>1 DEF F!TypeOK
    <3>2. /\ Cardinality(F!Open(i)') = 0 /\ Cardinality(F!Holding(i)') = 0
          /\ Cardinality(WithFile(i)') = 0 /\ Cardinality(F!Carrying(i)') = 0
      BY <1>7, <1>8, <1>9, FS_EmptySet
    <3> QED BY <3>1, <3>2 DEF FilesCountedAt
  <2>2. ASSUME NEW j \in Inodes, j # i PROVE FilesCountedAt(j)'
    <3>1. FilesCountedAt(j) /\ j # node
      BY <1>2, FilesAssumption DEF FilesCounted
    <3>2. /\ crefs'[j] = crefs[j] /\ files'[j] = files[j] /\ abandoned'[j] = abandoned[j]
          /\ j \in alive' <=> j \in alive
      BY <1>1, <2>2 DEF F!TypeOK
    <3> QED BY <1>7, <3>1, <3>2 DEF FilesCountedAt
  <2> QED BY <2>1, <2>2 DEF FilesCounted
<1> QED BY <1>3, <1>4, <1>5, <1>6, <1>10

\* A mount point with no file open is taken out of the tree, and the call that does so
\* still has its reference (fs_umount.c, fs_fat32.c:912-966).
LEMMA FilesUnbind ==
  ASSUME FilesSound, NEW t \in Tasks, F!UmountUnbind(t)
  PROVE  FilesSound'
<1> USE DEF FilesSound
<1>1. at_file[t] = "umount_unbind" /\ sem = t /\ ino[t] = node /\ ino[t] \in Inodes
  BY FilesAssumption DEF F!UmountUnbind, FilesCalls, F!TypeOK
<1>2. PICK i \in Inodes : i = ino[t] /\ i = node
  BY <1>1
<1>3. /\ at_file' = [at_file EXCEPT ![t] = "release"] /\ sem' = NULL
      /\ UNCHANGED <<alive, crefs, files, F!table, ino, fd, from, clobbered>>
  BY DEF F!UmountUnbind, F!Goto, F!tree
<1>4. \/ UNCHANGED <<node, deleted, mops, fs, drv, pulled>>
      \/ /\ files[i] = 0 /\ node' = NULL /\ deleted' = [deleted EXCEPT ![i] = TRUE]
         /\ mops' = [mops EXCEPT ![i] = FALSE] /\ fs' = [fs EXCEPT ![i] = "none"]
         /\ drv' = drv - 1 /\ pulled' \in BOOLEAN
  BY <1>2 DEF F!UmountUnbind, F!tree, F!TypeOK
<1>5. i \in alive /\ drv = 1
  BY <1>2, FilesAssumption DEF FilesTree
<1>6. F!TypeOK'
  <2>1. at_file' \in [Tasks -> F!Places] /\ sem' \in Tasks \cup {NULL}
    BY <1>3 DEF F!TypeOK, F!Places
  <2>2. /\ node' \in Inodes \cup {NULL} /\ deleted' \in [Inodes -> BOOLEAN] /\ mops' \in [Inodes -> BOOLEAN]
        /\ fs' \in [Inodes -> {"none", "mounted", "stopped"}] /\ drv' \in Nat /\ pulled' \in BOOLEAN
    <3>1. CASE UNCHANGED <<node, deleted, mops, fs, drv, pulled>>
      BY <3>1 DEF F!TypeOK
    <3>2. CASE ~UNCHANGED <<node, deleted, mops, fs, drv, pulled>>
      <4>1. node' = NULL /\ drv' = 0 /\ pulled' \in BOOLEAN
        BY <1>4, <1>5, <3>2
      <4>2. deleted' = [deleted EXCEPT ![i] = TRUE] /\ mops' = [mops EXCEPT ![i] = FALSE]
            /\ fs' = [fs EXCEPT ![i] = "none"]
        BY <1>4, <3>2
      <4>3. deleted' \in [Inodes -> BOOLEAN] /\ mops' \in [Inodes -> BOOLEAN]
            /\ fs' \in [Inodes -> {"none", "mounted", "stopped"}]
        BY <4>2 DEF F!TypeOK
      <4> QED BY <4>1, <4>3
    <3> QED BY <3>1, <3>2
  <2> QED BY <1>3, <2>1, <2>2 DEF F!TypeOK, F!table
<1>7. FilesTree'
  <2>1. CASE UNCHANGED <<node, deleted, mops, fs, drv, pulled>>
    BY <1>3, <2>1 DEF FilesTree
  <2>2. CASE ~UNCHANGED <<node, deleted, mops, fs, drv, pulled>>
    <3>1. node' = NULL /\ drv' = 0
      BY <1>4, <1>5, <2>2
    <3>2. ASSUME NEW j \in Inodes
          PROVE  /\ mops'[j] = (j = node') /\ deleted'[j] = (j \in alive' /\ j # node')
                 /\ fs'[j] = "mounted" => j = node'
      <4>1. j # node'
        BY <3>1, FilesAssumption
      <4>2. CASE j = i
        BY <1>3, <1>4, <1>5, <2>2, <4>1, <4>2 DEF F!TypeOK
      <4>3. CASE j # i
        BY <1>2, <1>3, <1>4, <2>2, <4>1, <4>3 DEF FilesTree, F!TypeOK
      <4> QED BY <4>2, <4>3
    <3> QED BY <3>1, <3>2 DEF FilesTree
  <2> QED BY <2>1, <2>2
<1>8. FilesCalls'
  <2>1. \A u \in Tasks : u # t => at_file[u] # "umount_unbind"
    BY <1>1 DEF FilesCalls
  <2> QED BY <1>1, <1>2, <1>3, <2>1, FilesAssumption DEF FilesCalls, F!TypeOK, Closing, Replacing
<1>9. FilesOwned'
  BY <1>1, <1>3 DEF FilesOwned, F!TypeOK, Closing, Replacing, F!table
<1>10. ASSUME NEW j \in Inodes
       PROVE  /\ F!Open(j)' = F!Open(j) /\ F!Holding(j)' = F!Holding(j)
              /\ WithFile(j)' = WithFile(j) /\ F!Carrying(j)' = F!Carrying(j)
  BY <1>1, <1>3 DEF F!Open, F!Holding, WithFile, F!Carrying, F!TypeOK, F!table
<1>11. Cardinality(F!Holding(i)) > 0
  BY <1>2, FilesFinite, OneMore DEF F!Holding
<1>12. FilesCounted'
  <2>1. FilesCountedAt(i)'
    <3>1. FilesCountedAt(i) /\ crefs[i] > 0
      <4>1. FilesCountedAt(i)
        BY DEF FilesCounted
      <4>2. Cardinality(F!Open(i)) \in Nat /\ Cardinality(F!Holding(i)) \in Nat
        BY FilesFinite
      <4> QED BY <1>5, <1>11, <4>1, <4>2 DEF FilesCountedAt
    <3>2. files[i] > 0 => i = node'
      BY <1>2, <1>4
    <3> QED BY <1>3, <1>10, <3>1, <3>2 DEF FilesCountedAt, F!table
  <2>2. ASSUME NEW j \in Inodes, j # i PROVE FilesCountedAt(j)'
    <3>1. FilesCountedAt(j) /\ j # node
      BY <1>2, <2>2 DEF FilesCounted
    <3> QED BY <1>3, <1>10, <3>1 DEF FilesCountedAt, F!table
  <2> QED BY <2>1, <2>2 DEF FilesCounted
<1> QED BY <1>6, <1>7, <1>8, <1>9, <1>12

\* Every step of the tasks.
LEMMA FilesNext == FilesInv /\ [F!Next]_FilesVars => FilesInv'
<1> SUFFICES ASSUME FilesInv, [F!Next]_FilesVars, ~clobbered', ~pulled'
             PROVE  FilesSound'
  BY DEF FilesInv
<1>1. CASE UNCHANGED FilesVars
  <2>1. FilesSound
    BY <1>1 DEF FilesInv, FilesVars
  <2>2. UNCHANGED <<F!tree, F!table, sem, at_file, ino, fd, from, clobbered, pulled>>
    BY <1>1 DEF FilesVars, F!tree, F!table
  <2>3. F!TypeOK' /\ FilesTree' /\ FilesCalls' /\ FilesOwned'
    BY <2>1, <2>2 DEF FilesSound, F!TypeOK, FilesTree, FilesCalls, FilesOwned, F!tree, F!table
  <2>4. \A i \in Inodes : /\ F!Open(i)' = F!Open(i) /\ F!Holding(i)' = F!Holding(i)
                          /\ WithFile(i)' = WithFile(i) /\ F!Carrying(i)' = F!Carrying(i)
    BY <2>2 DEF F!Open, F!Holding, WithFile, F!Carrying, F!table
  <2>5. FilesCounted'
    BY <2>1, <2>2, <2>4, FilesSameCounts DEF FilesSound, FilesTree, F!tree, F!table
  <2> QED BY <2>3, <2>5 DEF FilesSound
<1>2. CASE F!Next /\ ~UNCHANGED FilesVars
  <2>1. PICK t \in Tasks :
          \/ F!OpenFind(t) \/ F!OpenCheck(t) \/ F!OpenEnter(t) \/ F!OpenAdd(t) \/ F!Allocate(t) \/ F!Release(t)
          \/ \E f \in Fds : F!Close(t, f) \/ \E g \in Fds \cup {NULL} : F!Duplicate(t, f, g)
          \/ F!CloseRelease(t) \/ F!CloseInode(t) \/ F!ClosePriv(t)
          \/ F!DuplicateFile(t) \/ F!ReplaceClose(t) \/ F!Copy(t)
          \/ F!Mount(t) \/ F!UmountFind(t) \/ F!UmountCheck(t) \/ F!UmountTake(t) \/ F!UmountUnbind(t)
    BY <1>2 DEF F!Next, F!Ended, FilesVars, F!vars, F!tree, F!table
  <2>2. ~clobbered /\ ~pulled
    <3>1. ~clobbered
      BY <2>1 DEF F!OpenFind, F!OpenCheck, F!OpenEnter, F!OpenAdd, F!Allocate, F!Release, F!Close, F!Duplicate, F!CloseRelease,
         F!CloseInode, F!ClosePriv, F!DuplicateFile, F!ReplaceClose, F!Copy, F!Mount, F!UmountFind, F!UmountCheck, F!UmountTake,
         F!UmountUnbind
    <3>2. ~pulled
      BY <2>1 DEF F!OpenFind, F!OpenCheck, F!OpenEnter, F!OpenAdd, F!Allocate, F!Release, F!Close, F!Duplicate, F!CloseRelease,
         F!CloseInode, F!ClosePriv, F!DuplicateFile, F!ReplaceClose, F!Copy, F!Mount, F!UmountFind, F!UmountCheck, F!UmountTake,
         F!UmountUnbind
    <3> QED BY <3>1, <3>2
  <2>3. FilesSound
    BY <2>2 DEF FilesInv
  <2>4. CASE F!OpenFind(t) \/ F!UmountFind(t)
    BY <2>3, <2>4, FilesBegin
  <2>5. CASE \E f \in Fds : \E g \in Fds \cup {NULL} : F!Duplicate(t, f, g)
    BY <2>3, <2>5, FilesBegin
  <2>6. CASE F!OpenAdd(t) \/ F!DuplicateFile(t)
    BY <2>3, <2>6, FilesAdd
  <2>7. CASE F!OpenCheck(t) \/ F!OpenEnter(t) \/ F!UmountCheck(t) \/ F!UmountTake(t)
    BY <2>3, <2>7, FilesLook
  <2>8. CASE F!Allocate(t)
    BY <2>3, <2>8, FilesAllocate
  <2>9. CASE F!Release(t)
    BY <2>3, <2>9, FilesRelease
  <2>10. CASE (\E f \in Fds : F!Close(t, f)) \/ F!ReplaceClose(t)
    BY <2>3, <2>10, FilesClose
  <2>11. CASE F!CloseRelease(t)
    BY <2>3, <2>11, FilesCloseRelease
  <2>12. CASE F!CloseInode(t) \/ F!ClosePriv(t)
    BY <2>3, <2>12, FilesCloseEnd
  <2>13. CASE F!Copy(t)
    BY <2>3, <2>13, FilesCopy
  <2>14. CASE F!Mount(t)
    BY <2>3, <2>14, FilesMount
  <2>15. CASE F!UmountUnbind(t)
    BY <2>3, <2>15, FilesUnbind
  <2> QED BY <2>1, <2>4, <2>5, <2>6, <2>7, <2>8, <2>9, <2>10, <2>11, <2>12, <2>13, <2>14, <2>15
<1> QED BY <1>1, <1>2

\* What the model of the descriptors calls a cardinality is one.
LEMMA FilesCardinality == \A Z : F!Cardinality(Z) = Cardinality(Z)
BY DEF F!Cardinality, Cardinality

\* Counted as they are, the references and the files are those that are there.
LEMMA FilesHolds == FilesInv => FilesHeld
<1> SUFFICES ASSUME FilesSound PROVE F!RefsCounted /\ F!FilesListed
  BY DEF FilesInv, FilesHeld, F!FilesHeld
<1> USE DEF FilesSound
<1>1. F!RefsCounted
  <2>1. \A i \in Inodes : FilesCountedAt(i)
    BY DEF FilesCounted
  <2>2. alive \subseteq Inodes
    BY DEF F!TypeOK
  <2> QED BY ONLY <2>1, <2>2, FilesCardinality DEF F!RefsCounted, FilesCountedAt
<1>2. \A i \in Inodes :
       /\ files[i] = Cardinality({f \in Fds : f_inode[f] = i /\ f_priv[f]})
                     + Cardinality(F!Carrying(i)) + abandoned[i]
       /\ files[i] > 0 => mops[i]
  BY DEF FilesCounted, FilesCountedAt, FilesTree, WithFile
<1>3. {i \in alive : mops[i]} = IF node = NULL THEN {} ELSE {node}
  BY FilesAssumption DEF FilesTree, F!TypeOK
<1>4. drv = Cardinality({i \in alive : mops[i]})
  BY <1>3, FS_EmptySet, FS_Singleton DEF FilesTree
<1>5. F!FilesListed
  BY ONLY <1>2, <1>4, FilesCardinality DEF F!FilesListed
<1> QED BY <1>1, <1>5

\* However many tasks, descriptors and inodes there are, references and files are counted
\* as they are held, also after a close has cleared a descriptor that an open was given
\* meanwhile: the file is then on the list and nobody's (fs_inodefind.c:75,
\* fs_inoderelease.c:68-91, fs_inoderemove.c:118-156, fs_close.c:60-85,
\* fs_fat32.c:308-397, 566-610, 912-966).
THEOREM SpecFilesHeld == Spec => []FilesHeld
<1>1. Init => FilesInv
  BY FilesInit DEF Init
<1>2. FilesInv /\ [Next]_vars => FilesInv'
  BY OneMoves, FilesNext
<1> QED BY <1>1, <1>2, FilesHolds, PTL DEF Spec

-----------------------------------------------------------------------------
(* I2C.                                                                    *)

\* n bytes were taken and the FIFO has those behind; what was taken is stored.
Behind(n, c, q) == c = n + Len(q) /\ \A j \in 1..Len(q) : q[j] = n + j
Stored(n, b) == \A i \in 1..n : b[i] = i

\* The transfer under way uses the interrupt, and what it has taken.
ByIrq == rlen = Long \/ eddc = TRUE
Taken == IF ByIrq THEN ridx ELSE idx

I2cType ==
  /\ eddc_flag \in BOOLEAN /\ eddc \in BOOLEAN /\ trig \in BOOLEAN /\ cut \in BOOLEAN
  /\ flagged \in BOOLEAN /\ gave_up \in BOOLEAN
  /\ owner \in Tasks \cup {NULL} /\ rlen \in B!Lens \cup {0}
  /\ wants \in [Tasks -> B!Kinds \cup {NULL}]
  /\ rfifo \in Seq(1..Long) /\ came \in 0..Long
  /\ ridx \in 0..Long /\ idx \in 0..Long
  /\ rdata \in [1..Long -> (1..Long) \cup {NULL}]
  /\ at_i2c \in {"free", "start", "ready", "wait", "rest", "poll"}
  /\ owner = NULL <=> at_i2c = "free"
  /\ at_i2c # "free" => result = "none"

\* The flag is the one of the transfer, and the interrupt is enabled for no other.
FlagKept ==
  /\ owner # NULL => eddc_flag = eddc
  /\ trig = TRUE => at_i2c \in {"start", "ready", "wait"} /\ ByIrq
  /\ at_i2c \in {"wait", "rest"} => ByIrq
  /\ at_i2c = "poll" => ~ByIrq

\* No byte is lost or stored elsewhere.
BytesKept ==
  /\ at_i2c \in {"start", "ready"} /\ ~ByIrq => idx = 0
  /\ at_i2c \in {"ready", "wait", "rest", "poll"} =>
       came <= rlen /\ Behind(Taken, came, rfifo) /\ Stored(Taken, rdata)
  /\ result = "ok" /\ cut = FALSE => Stored(rlen, rdata)

Clean == flagged = FALSE /\ gave_up = FALSE

I2cInv == I2cType /\ (Clean => FlagKept /\ BytesKept)

\* Another caller moves only the flag; a transfer begins with nothing stored
\* (hc-i2c.c:505-518).
LEMMA I2cLock ==
  ASSUME I2cInv, NEW t \in Tasks,
         B!Lock(t) \/ B!HostBusy(t) \/ \E k \in B!Kinds : B!SetFlag(t, k)
  PROVE  I2cInv'
<1> USE DEF I2cInv, B!call, B!hw, B!buffer, B!history
<1>1. CASE B!Lock(t)
  <2>1. wants[t] \in B!Kinds /\ owner = NULL /\ at_i2c = "free" /\ owner' = t /\ t # NULL
    BY <1>1, DriversAssumption DEF B!Lock, I2cType
  <2>2. rlen' \in B!Lens /\ eddc' \in BOOLEAN
    BY <1>1, <2>1 DEF B!Lock, B!Kinds
  <2>3. rdata' \in [1..Long -> (1..Long) \cup {NULL}] /\ idx' = 0 /\ 0 \in 0..Long
    BY <1>1, DriversAssumption DEF B!Lock, B!Empty
  <2>4. wants' \in [Tasks -> B!Kinds \cup {NULL}]
    BY <1>1 DEF B!Lock, I2cType
  <2>5. flagged' \in BOOLEAN /\ (flagged' = FALSE => flagged = FALSE /\ eddc_flag' = eddc')
    BY <1>1 DEF B!Lock, I2cType
  <2>6. I2cType'
    BY <1>1, <2>1, <2>2, <2>3, <2>4, <2>5 DEF B!Lock, I2cType
  <2>7. ASSUME Clean' PROVE FlagKept' /\ BytesKept'
    <3>1. Clean /\ trig = FALSE
      BY <1>1, <2>1, <2>5, <2>7 DEF Clean, FlagKept, B!Lock, I2cType
    <3> QED
      BY <1>1, <2>3, <2>5, <2>7, <3>1 DEF Clean, FlagKept, BytesKept, B!Lock
  <2> QED BY <2>6, <2>7
<1>2. CASE B!HostBusy(t)
  <2>1. I2cType'
    BY <1>2 DEF B!HostBusy, I2cType
  <2>2. Clean' => FlagKept' /\ BytesKept'
    BY <1>2
    DEF B!HostBusy, Clean, FlagKept, BytesKept, ByIrq, Taken, Behind, Stored
  <2> QED BY <2>1, <2>2
<1>3. ASSUME NEW k \in B!Kinds, B!SetFlag(t, k)
      PROVE  I2cInv'
  <2>1. /\ eddc_flag' = k.eddc /\ k.eddc \in BOOLEAN
        /\ flagged' \in BOOLEAN
        /\ flagged' = FALSE => flagged = FALSE /\ (owner = NULL \/ k.eddc = eddc)
        /\ UNCHANGED <<owner, rlen, eddc, at_i2c, trig, i2c_done, rfifo, came, rdata, idx,
                       ridx, result, gave_up, cut>>
    BY <1>3 DEF B!SetFlag, I2cType, B!Kinds
  <2>2. I2cType'
    BY <1>3, <2>1 DEF B!SetFlag, I2cType
  <2>3. Clean' => FlagKept' /\ BytesKept'
    BY <2>1
    DEF Clean, FlagKept, BytesKept, ByIrq, Taken, Behind, Stored, I2cType
  <2> QED BY <2>2, <2>3
<1> QED BY <1>1, <1>2, <1>3

\* An attempt begins with an empty FIFO and nothing taken (hc-i2c.c:299-347).
LEMMA I2cStart ==
  ASSUME I2cInv, B!Start \/ B!Ready \/ B!TryAgain \/ B!GiveUp
  PROVE  I2cInv'
<1> USE DEF I2cInv, B!call, B!hw, B!buffer, B!history
<1>1. CASE B!Start
  <2>1. rfifo' = <<>> /\ came' = 0 /\ <<>> \in Seq(1..Long) /\ 0 \in 0..Long
    BY <1>1, DriversAssumption DEF B!Start
  <2>2. /\ rlen = Long \/ eddc_flag => ridx' = 0 /\ trig' = TRUE
        /\ ~(rlen = Long \/ eddc_flag) => ridx' = ridx /\ trig' = trig
        /\ at_i2c' = "ready" /\ at_i2c = "start"
        /\ UNCHANGED <<eddc_flag, owner, rlen, eddc, wants, rdata, idx, result, flagged,
                       gave_up, cut>>
    BY <1>1 DEF B!Start
  <2>3. I2cType'
    BY <2>1, <2>2 DEF I2cType
  <2>4. ASSUME Clean' PROVE FlagKept' /\ BytesKept'
    <3>1. FlagKept /\ BytesKept /\ eddc_flag = eddc
      BY <2>2, <2>4 DEF Clean, FlagKept, I2cType
    <3>2. FlagKept'
      <4>1. CASE ByIrq
        BY <2>2, <3>1, <4>1 DEF FlagKept, ByIrq
      <4>2. CASE ~ByIrq
        BY <2>2, <3>1, <4>2 DEF FlagKept, ByIrq, I2cType
      <4> QED BY <4>1, <4>2
    <3>3. Taken' = 0
      <4>1. CASE ByIrq
        BY <2>2, <3>1, <4>1 DEF ByIrq, Taken
      <4>2. CASE ~ByIrq
        BY <2>2, <3>1, <4>2 DEF ByIrq, Taken, BytesKept
      <4> QED BY <4>1, <4>2
    <3>4. Len(<<>>) = 0 /\ 0 <= rlen /\ result = "none"
      BY <2>2, DriversAssumption DEF I2cType, B!Lens
    <3>5. Behind(Taken, came, rfifo)' /\ Stored(Taken, rdata)'
      BY <2>1, <3>3, <3>4 DEF Behind, Stored
    <3> QED
      BY <2>1, <2>2, <3>1, <3>2, <3>4, <3>5 DEF BytesKept, ByIrq
  <2> QED BY <2>3, <2>4
<1>2. CASE B!Ready
  <2>1. I2cType'
    BY <1>2 DEF B!Ready, I2cType
  <2>2. ASSUME Clean' PROVE FlagKept' /\ BytesKept'
    <3>1. FlagKept /\ BytesKept /\ eddc_flag = eddc
      BY <1>2, <2>2 DEF B!Ready, Clean, FlagKept, I2cType
    <3>2. at_i2c' = (IF ByIrq THEN "wait" ELSE "poll")
      BY <1>2, <3>1 DEF B!Ready, ByIrq, I2cType
    <3> QED
      BY <1>2, <3>1, <3>2
      DEF B!Ready, FlagKept, BytesKept, ByIrq, Taken, Behind, Stored, I2cType
  <2> QED BY <2>1, <2>2
<1>3. CASE B!TryAgain
  BY <1>3
  DEF B!TryAgain, I2cType, Clean, FlagKept, BytesKept, ByIrq, Taken, Behind, Stored
<1>4. CASE B!GiveUp
  BY <1>4 DEF B!GiveUp, B!Return, I2cType, Clean
<1> QED BY <1>1, <1>2, <1>3, <1>4

\* The next byte of the FIFO is stored behind the others.
LEMMA NextByte ==
  ASSUME I2cType, NEW n \in 0..Long, n < rlen, rfifo # <<>>, B!Take(n + 1)
  PROVE  /\ rfifo' \in Seq(1..Long) /\ came' = came /\ n + 1 \in 1..Long
         /\ rdata' \in [1..Long -> (1..Long) \cup {NULL}]
         /\ Behind(n, came, rfifo) /\ Stored(n, rdata) => Behind(n + 1, came', rfifo') /\ Stored(n + 1, rdata')
<1>1. /\ rdata' = [rdata EXCEPT ![n + 1] = Head(rfifo)]
      /\ rfifo' = Tail(rfifo) /\ came' = came
  BY DEF B!Take
<1>2. rfifo \in Seq(1..Long) /\ rdata \in [1..Long -> (1..Long) \cup {NULL}]
  BY DEF I2cType
<1>3. rlen <= Long /\ Long \in Nat /\ rlen \in Nat
  BY DriversAssumption DEF I2cType, B!Lens
<1>4. n + 1 \in 1..Long
  BY <1>3
<1>5. /\ Head(rfifo) = rfifo[1] /\ rfifo[1] \in 1..Long /\ Len(rfifo) \in Nat
      /\ Tail(rfifo) \in Seq(1..Long) /\ Len(Tail(rfifo)) = Len(rfifo) - 1
      /\ Len(rfifo) > 0 /\ \A j \in 1..Len(Tail(rfifo)) : Tail(rfifo)[j] = rfifo[j + 1]
  <2>1. Len(rfifo) \in Nat /\ Len(rfifo) > 0 /\ Len(rfifo) # 0
    BY <1>2, EmptySeq
  <2>2. Head(rfifo) = rfifo[1] /\ rfifo[1] \in 1..Long
    <3>1. 1 \in 1..Len(rfifo)
      BY <2>1
    <3>2. rfifo[1] \in 1..Long
      BY <1>2, <3>1, ElementOfSeq
    <3> QED BY <1>2, <3>2
  <2>3. /\ Tail(rfifo) \in Seq(1..Long) /\ Len(Tail(rfifo)) = Len(rfifo) - 1
        /\ \A j \in 1..Len(Tail(rfifo)) : Tail(rfifo)[j] = rfifo[j + 1]
    BY <1>2, HeadTailProperties
  <2> QED BY <2>1, <2>2, <2>3
<1>6. ASSUME Behind(n, came, rfifo), Stored(n, rdata)
      PROVE  Behind(n + 1, came', rfifo') /\ Stored(n + 1, rdata')
  <2>1. rfifo[1] = n + 1
    BY <1>5, <1>6 DEF Behind
  <2>2. Stored(n + 1, rdata')
    BY <1>1, <1>2, <1>4, <1>5, <1>6, <2>1 DEF Stored
  <2>3. came' = (n + 1) + Len(rfifo')
    BY <1>1, <1>5, <1>6 DEF Behind
  <2>4. \A j \in 1..Len(rfifo') : rfifo'[j] = (n + 1) + j
    BY <1>1, <1>5, <1>6 DEF Behind
  <2> QED BY <2>2, <2>3, <2>4 DEF Behind
<1> QED BY <1>1, <1>2, <1>4, <1>5, <1>6

\* The task takes bytes as they come, and ends with success only when it has them
\* all (hc-i2c.c:350-380).
LEMMA I2cTask ==
  ASSUME I2cInv, B!Waited \/ B!Rest \/ B!RestEnds \/ B!Poll \/ B!PollEnds
  PROVE  I2cInv'
<1> USE DEF I2cInv, B!call, B!hw, B!buffer, B!history
<1>1. CASE B!Waited
  BY <1>1
  DEF B!Waited, I2cType, Clean, FlagKept, BytesKept, ByIrq, Taken, Behind, Stored
<1>2. CASE B!Rest
  <2>1. /\ ridx \in 0..Long /\ ridx < rlen /\ rfifo # <<>> /\ B!Take(ridx + 1)
        /\ ridx' = ridx + 1 /\ at_i2c = "rest"
        /\ UNCHANGED <<eddc_flag, owner, rlen, eddc, wants, at_i2c, trig, idx, result,
                       flagged, gave_up, cut>>
    BY <1>2 DEF B!Rest, I2cType
  <2>2. I2cType'
    BY <2>1, NextByte DEF I2cType
  <2>3. ASSUME Clean' PROVE FlagKept' /\ BytesKept'
    <3>1. FlagKept /\ BytesKept /\ ByIrq /\ result = "none"
      BY <2>1, <2>3 DEF Clean, FlagKept, I2cType
    <3>2. Behind(ridx, came, rfifo) /\ Stored(ridx, rdata) /\ came <= rlen
      BY <2>1, <3>1 DEF BytesKept, Taken
    <3>3. Behind(ridx + 1, came', rfifo') /\ Stored(ridx + 1, rdata') /\ came' = came
      BY <2>1, <3>2, NextByte
    <3>4. Taken' = ridx + 1 /\ ByIrq'
      BY <2>1, <3>1 DEF Taken, ByIrq
    <3>5. Behind(Taken, came, rfifo)' /\ Stored(Taken, rdata)'
      BY <3>3, <3>4, <2>1
    <3> QED BY <2>1, <3>1, <3>2, <3>3, <3>4, <3>5 DEF FlagKept, BytesKept
  <2> QED BY <2>2, <2>3
<1>3. CASE B!Poll
  <2>1. /\ idx \in 0..Long /\ idx < rlen /\ rfifo # <<>> /\ B!Take(idx + 1)
        /\ idx' = idx + 1 /\ at_i2c = "poll"
        /\ UNCHANGED <<eddc_flag, owner, rlen, eddc, wants, at_i2c, trig, ridx, result,
                       flagged, gave_up, cut>>
    BY <1>3 DEF B!Poll, I2cType
  <2>2. I2cType'
    BY <2>1, NextByte DEF I2cType
  <2>3. ASSUME Clean' PROVE FlagKept' /\ BytesKept'
    <3>1. FlagKept /\ BytesKept /\ ~ByIrq /\ result = "none"
      BY <2>1, <2>3 DEF Clean, FlagKept, I2cType
    <3>2. Behind(idx, came, rfifo) /\ Stored(idx, rdata) /\ came <= rlen
      BY <2>1, <3>1 DEF BytesKept, Taken
    <3>3. Behind(idx + 1, came', rfifo') /\ Stored(idx + 1, rdata') /\ came' = came
      BY <2>1, <3>2, NextByte
    <3>4. Taken' = idx + 1 /\ ~ByIrq'
      BY <2>1, <3>1 DEF Taken, ByIrq
    <3>5. Behind(Taken, came, rfifo)' /\ Stored(Taken, rdata)'
      BY <3>3, <3>4, <2>1
    <3> QED BY <2>1, <3>1, <3>2, <3>3, <3>4, <3>5 DEF FlagKept, BytesKept
  <2> QED BY <2>2, <2>3
<1>4. CASE B!RestEnds
  <2>1. /\ at_i2c = "rest" /\ at_i2c' = "free" /\ owner' = NULL
        /\ result' = (IF ridx < rlen THEN "error" ELSE "ok")
        /\ UNCHANGED <<eddc_flag, rlen, eddc, wants, trig, rfifo, came, rdata, idx, ridx,
                       flagged, gave_up, cut>>
    BY <1>4 DEF B!RestEnds, B!Return
  <2>2. I2cType'
    BY <2>1 DEF I2cType
  <2>3. ASSUME Clean' PROVE FlagKept' /\ BytesKept'
    <3>1. FlagKept /\ BytesKept /\ ByIrq /\ Stored(ridx, rdata)
      BY <2>1, <2>3 DEF Clean, FlagKept, BytesKept, Taken
    <3>2. ASSUME result' = "ok" PROVE Stored(rlen, rdata)'
      <4>1. \A i \in 1..rlen : i \in 1..ridx
        BY <2>1, <3>2, DriversAssumption DEF I2cType, B!Lens
      <4> QED BY <2>1, <3>1, <4>1 DEF Stored
    <3> QED BY <2>1, <3>1, <3>2 DEF FlagKept, BytesKept
  <2> QED BY <2>2, <2>3
<1>5. CASE B!PollEnds
  <2>1. /\ at_i2c = "poll" /\ at_i2c' = "free" /\ owner' = NULL /\ result' = "ok"
        /\ cut' = (idx < rlen)
        /\ UNCHANGED <<eddc_flag, rlen, eddc, wants, trig, rfifo, came, rdata, idx, ridx,
                       flagged, gave_up>>
    BY <1>5 DEF B!PollEnds, B!Return
  <2>2. I2cType'
    BY <2>1 DEF I2cType
  <2>3. ASSUME Clean' PROVE FlagKept' /\ BytesKept'
    <3>1. FlagKept /\ BytesKept /\ ~ByIrq /\ Stored(idx, rdata)
      BY <2>1, <2>3 DEF Clean, FlagKept, BytesKept, Taken
    <3>2. ASSUME cut' = FALSE PROVE Stored(rlen, rdata)'
      <4>1. ~(idx < rlen)
        BY <2>1, <3>2
      <4>2. \A i \in 1..rlen : i \in 1..idx
        BY <4>1, DriversAssumption DEF I2cType, B!Lens
      <4> QED BY <2>1, <3>1, <4>2 DEF Stored
    <3> QED BY <2>1, <3>1, <3>2 DEF FlagKept, BytesKept
  <2> QED BY <2>2, <2>3
<1> QED BY <1>1, <1>2, <1>3, <1>4, <1>5

\* The device sends the byte behind those it has sent.
LEMMA I2cArrive ==
  ASSUME I2cInv, B!Arrive
  PROVE  I2cInv'
<1> USE DEF I2cInv, B!call, B!hw, B!buffer, B!history
<1>1. /\ at_i2c \notin {"free", "start"} /\ came < rlen
      /\ came' = came + 1 /\ rfifo' = Append(rfifo, came + 1)
      /\ UNCHANGED <<eddc_flag, owner, rlen, eddc, wants, at_i2c, trig, rdata, idx, ridx,
                     result, flagged, gave_up, cut>>
  BY DEF B!Arrive
<1>2. came + 1 \in 1..Long
  BY <1>1, DriversAssumption DEF I2cType, B!Lens
<1>3. /\ rfifo' \in Seq(1..Long) /\ Len(rfifo') = Len(rfifo) + 1 /\ Len(rfifo) \in Nat
      /\ \A j \in 1..Len(rfifo) : rfifo'[j] = rfifo[j]
      /\ rfifo'[Len(rfifo) + 1] = came + 1
  BY <1>1, <1>2, AppendProperties DEF I2cType
<1>4. I2cType'
  BY <1>1, <1>2, <1>3 DEF I2cType
<1>5. ASSUME Clean' PROVE FlagKept' /\ BytesKept'
  <2>1. FlagKept /\ BytesKept /\ result = "none"
    BY <1>1, <1>5 DEF Clean, I2cType
  <2>2. Behind(Taken, came, rfifo) /\ Stored(Taken, rdata)
    BY <1>1, <2>1 DEF BytesKept, I2cType
  <2>3. Taken' = Taken /\ Taken \in Nat
    BY <1>1, DriversAssumption DEF Taken, ByIrq, I2cType
  <2>4. Behind(Taken, came', rfifo')
    BY <1>1, <1>3, <2>2, <2>3 DEF Behind
  <2>5. came' <= rlen'
    BY <1>1, DriversAssumption DEF I2cType, B!Lens
  <2> QED
    BY <1>1, <2>1, <2>2, <2>3, <2>4, <2>5 DEF FlagKept, BytesKept, ByIrq
<1> QED BY <1>4, <1>5

\* The interrupt handler stores what the FIFO has, while it is the transfer's own
\* interrupt (hc-i2c.c:250-270).
LEMMA I2cIsr ==
  ASSUME I2cInv, B!Isr
  PROVE  I2cInv'
<1> USE DEF I2cInv, B!call, B!hw, B!buffer, B!history
<1> DEFINE n == IF Len(rfifo) < rlen - ridx THEN Len(rfifo) ELSE rlen - ridx
<1>1. /\ trig = TRUE /\ ridx <= rlen
      /\ rdata' = [i \in 1..Long |-> IF i \in (ridx + 1)..(ridx + n) THEN rfifo[i - ridx]
                                     ELSE rdata[i]]
      /\ rfifo' = SubSeq(rfifo, n + 1, Len(rfifo))
      /\ ridx' = ridx + n
      /\ UNCHANGED <<eddc_flag, owner, rlen, eddc, wants, at_i2c, trig, came, idx, result,
                     flagged, gave_up, cut>>
  BY DEF B!Isr, I2cType
<1>2. /\ Len(rfifo) \in Nat /\ rfifo \in Seq(1..Long) /\ ridx \in Nat /\ Long \in Nat
      /\ rlen \in Nat /\ rlen <= Long
  BY DriversAssumption DEF I2cType, B!Lens
<1>3. n \in Nat /\ n <= Len(rfifo) /\ ridx + n <= rlen
  BY <1>1, <1>2
<1> HIDE DEF n
<1>4. /\ rfifo' \in Seq(1..Long) /\ Len(rfifo') = Len(rfifo) - n
      /\ \A j \in 1..(Len(rfifo) - n) : rfifo'[j] = rfifo[n + j]
  <2>1. \A i \in (n + 1)..Len(rfifo) : rfifo[i] \in 1..Long
    BY <1>2, <1>3, ElementOfSeq
  <2>2. n + 1 \in Int /\ Len(rfifo) \in Int
    BY <1>2, <1>3
  <2>3. /\ SubSeq(rfifo, n + 1, Len(rfifo)) \in Seq(1..Long)
        /\ Len(SubSeq(rfifo, n + 1, Len(rfifo)))
             = IF n + 1 <= Len(rfifo) THEN Len(rfifo) - (n + 1) + 1 ELSE 0
        /\ \A i \in 1..(Len(rfifo) - (n + 1) + 1) :
             SubSeq(rfifo, n + 1, Len(rfifo))[i] = rfifo[(n + 1) + i - 1]
    BY <2>1, <2>2, SubSeqProperties
  <2>4. Len(rfifo') = Len(rfifo) - n
    BY <1>1, <1>2, <1>3, <2>3
  <2>5. ASSUME NEW j \in 1..(Len(rfifo) - n) PROVE rfifo'[j] = rfifo[n + j]
    <3>1. Len(rfifo) - (n + 1) + 1 = Len(rfifo) - n /\ (n + 1) + j - 1 = n + j
      BY <1>2, <1>3
    <3> QED BY <1>1, <2>3, <3>1
  <2> QED BY <1>1, <2>3, <2>4, <2>5
<1>5. \A i \in (ridx + 1)..(ridx + n) : i - ridx \in 1..Len(rfifo) /\ rfifo[i - ridx] \in 1..Long
  BY <1>2, <1>3, ElementOfSeq
<1>6. rdata' \in [1..Long -> (1..Long) \cup {NULL}]
  BY <1>1, <1>5 DEF I2cType
<1>7. I2cType'
  BY <1>1, <1>2, <1>3, <1>4, <1>6 DEF I2cType
<1>8. ASSUME Clean' PROVE FlagKept' /\ BytesKept'
  <2>1. FlagKept /\ BytesKept
    BY <1>1, <1>8 DEF Clean
  <2>2. at_i2c \in {"start", "ready", "wait"} /\ ByIrq /\ result = "none"
    BY <1>1, <2>1 DEF FlagKept, I2cType
  <2>3. ByIrq' /\ Taken = ridx /\ Taken' = ridx + n
    BY <1>1, <2>2 DEF ByIrq, Taken
  <2>4. ASSUME Behind(ridx, came, rfifo), Stored(ridx, rdata)
        PROVE  Behind(ridx + n, came', rfifo') /\ Stored(ridx + n, rdata')
    <3>1. Behind(ridx + n, came', rfifo')
      <4>1. came' = (ridx + n) + Len(rfifo')
        <5>1. came' = came /\ came = ridx + Len(rfifo)
          BY <1>1, <2>4 DEF Behind
        <5>2. Len(rfifo') = Len(rfifo) - n
          BY <1>4
        <5> QED BY <1>2, <1>3, <5>1, <5>2
      <4>2. ASSUME NEW j \in 1..Len(rfifo') PROVE rfifo'[j] = (ridx + n) + j
        <5>1. n + j \in 1..Len(rfifo)
          BY <1>2, <1>3, <1>4
        <5>2. rfifo'[j] = rfifo[n + j]
          BY <1>4
        <5>3. rfifo[n + j] = ridx + (n + j)
          BY <2>4, <5>1 DEF Behind
        <5> QED BY <1>2, <1>3, <5>2, <5>3
      <4> QED BY <4>1, <4>2 DEF Behind
    <3>2. ASSUME NEW i \in 1..(ridx + n) PROVE rdata'[i] = i
      <4>1. i \in 1..Long
        BY <1>2, <1>3
      <4>2. CASE i \in (ridx + 1)..(ridx + n)
        <5>1. rdata'[i] = rfifo[i - ridx]
          BY <1>1, <4>1, <4>2
        <5>2. rfifo[i - ridx] = ridx + (i - ridx)
          BY <1>5, <2>4, <4>2 DEF Behind
        <5> QED BY <1>2, <5>1, <5>2
      <4>3. CASE i \notin (ridx + 1)..(ridx + n)
        <5>1. i \in 1..ridx
          BY <1>2, <1>3, <4>3
        <5> QED BY <1>1, <2>4, <4>1, <4>3, <5>1 DEF Stored
      <4> QED BY <4>2, <4>3
    <3> QED BY <3>1, <3>2 DEF Stored
  <2>5. FlagKept'
    BY <1>1, <2>1, <2>3 DEF FlagKept, ByIrq
  <2> QED
    BY <1>1, <2>1, <2>2, <2>3, <2>4, <2>5 DEF BytesKept
<1> QED BY <1>7, <1>8

\* At first no transfer is under way.
LEMMA I2cInit == Init => I2cInv
<1> SUFFICES ASSUME Init PROVE I2cInv
  OBVIOUS
<1>1. B!Init
  BY DEF Init
<1>2. rdata \in [1..Long -> (1..Long) \cup {NULL}] /\ 0 \in 0..Long /\ <<>> \in Seq(1..Long)
  BY <1>1, DriversAssumption DEF B!Init, B!Empty
<1>3. I2cType
  BY <1>1, <1>2 DEF B!Init, I2cType
<1>4. FlagKept /\ BytesKept
  BY <1>1 DEF B!Init, FlagKept, BytesKept
<1> QED BY <1>3, <1>4 DEF I2cInv

\* Every step of the board keeps what a transfer rests on.
LEMMA I2cNext == I2cInv /\ [Next]_vars => I2cInv'
<1> SUFFICES ASSUME I2cInv, [Next]_vars PROVE I2cInv'
  OBVIOUS
<1>1. CASE UNCHANGED I2cVars
  BY <1>1
  DEF I2cVars, I2cInv, I2cType, Clean, FlagKept, BytesKept, ByIrq, Taken, Behind, Stored
<1>2. CASE B!Next
  BY <1>2, I2cLock, I2cStart, I2cTask, I2cArrive, I2cIsr DEF B!Next, B!Reader
<1> QED BY <1>1, <1>2, OneMoves

\* A read of any length, with any interleaving of task, handler and other callers,
\* that succeeds is whole, and leaves no interrupt behind (hc-i2c.c:250-380,
\* 505-518).
THEOREM SpecTransfersWhole == Spec => []TransfersWhole
<1>1. I2cInv => TransfersWhole
  <2> SUFFICES ASSUME I2cInv PROVE TransfersWhole
    OBVIOUS
  <2>1. B!ReadIsWhole
    BY DEF I2cInv, I2cType, Clean, BytesKept, Stored, B!ReadIsWhole
  <2>2. B!QuietWhenFree
    BY DEF I2cInv, I2cType, Clean, FlagKept, B!QuietWhenFree
  <2> QED BY <2>1, <2>2 DEF TransfersWhole
<1> QED
  BY I2cInit, I2cNext, <1>1, PTL DEF Spec

-----------------------------------------------------------------------------
(* The lines of a UART.                                                    *)

\* The texts are those of 1 to MaxText characters.
LEMMA TxTexts ==
  ASSUME NEW t
  PROVE  t \in T!Texts <=> t \in Seq({"x", "nl"}) /\ t # <<>> /\ Len(t) <= MaxText
<1>1. ASSUME NEW m \in 1..MaxText, NEW u \in [1..m -> {"x", "nl"}]
      PROVE  u \in Seq({"x", "nl"}) /\ Len(u) = m /\ u # <<>>
  <2>1. u \in Seq({"x", "nl"}) /\ Len(u) = m /\ m # 0
    BY <1>1, LineAssumption
  <2> QED BY <2>1
<1>2. ASSUME t \in Seq({"x", "nl"}), t # <<>>, Len(t) <= MaxText
      PROVE  Len(t) \in 1..MaxText /\ t \in [1..Len(t) -> {"x", "nl"}]
  BY <1>2, LineAssumption
<1> QED BY <1>1, <1>2 DEF T!Texts

\* The cardinality that UartTx counts with is the one of FiniteSets.
LEMMA TxCardinality == \A Z : T!Cardinality(Z) = Cardinality(Z)
BY DEF T!Cardinality, Cardinality

\* How many carriage returns the first n characters bring (uart.c:476-486).
LEMMA TxReturns ==
  ASSUME text \in Seq({"x", "nl"})
  PROVE  /\ T!Returns(0) = 0
         /\ \A n \in Nat : T!Returns(n) \in Nat
         /\ \A n \in 0..Len(text) - 1 :
              T!Returns(n + 1) = IF std /\ text[n + 1] = "nl" THEN T!Returns(n) + 1 ELSE T!Returns(n)
<1> DEFINE Ends(n) == {i \in 1..n : text[i] = "nl"}
<1>1. \A n : T!Returns(n) = IF std THEN Cardinality(Ends(n)) ELSE 0
  BY TxCardinality DEF T!Returns
<1>2. \A n \in Nat : IsFiniteSet(Ends(n)) /\ Cardinality(Ends(n)) \in Nat
  <2> SUFFICES ASSUME NEW n \in Nat PROVE IsFiniteSet(Ends(n)) /\ Cardinality(Ends(n)) \in Nat
    OBVIOUS
  <2>1. IsFiniteSet(1..n) /\ Ends(n) \in SUBSET (1..n)
    BY FS_Interval
  <2>2. IsFiniteSet(Ends(n))
    BY <2>1, FS_Subset
  <2> QED BY <2>2, FS_CardinalityType
<1>3. Ends(0) = {}
  OBVIOUS
<1>4. ASSUME NEW n \in 0..Len(text) - 1
      PROVE  Cardinality(Ends(n + 1)) = IF text[n + 1] = "nl" THEN Cardinality(Ends(n)) + 1
                                     ELSE Cardinality(Ends(n))
  <2>1. n \in Nat /\ \A i : i \in 1..(n + 1) <=> i \in 1..n \/ i = n + 1
    OBVIOUS
  <2>2. CASE text[n + 1] = "nl"
    <3>1. Ends(n + 1) = Ends(n) \cup {n + 1} /\ n + 1 \notin Ends(n)
      BY <2>1, <2>2
    <3> HIDE DEF Ends
    <3>2. IsFiniteSet(Ends(n))
      BY <1>2, <2>1
    <3>3. Cardinality(Ends(n) \cup {n + 1}) = IF n + 1 \in Ends(n) THEN Cardinality(Ends(n)) ELSE Cardinality(Ends(n)) + 1
      BY <3>2, FS_AddElement
    <3> QED BY <2>2, <3>1, <3>3
  <2>3. CASE text[n + 1] # "nl"
    <3>1. Ends(n + 1) = Ends(n)
      BY <2>1, <2>3
    <3> HIDE DEF Ends
    <3> QED BY <2>3, <3>1
  <2> QED BY <2>2, <2>3
<1> HIDE DEF Ends
<1>5. Cardinality(Ends(0)) = 0
  BY <1>3, FS_EmptySet
<1>6. \A n \in 0..Len(text) - 1 : n + 1 \in Nat
  OBVIOUS
<1> QED BY <1>1, <1>2, <1>4, <1>5, <1>6

\* Places on the wire grow with those in the text.
LEMMA TxGrows ==
  ASSUME text \in Seq({"x", "nl"}), NEW n \in 0..Len(text), NEW i \in 1..n
  PROVE  /\ i + T!Returns(i) \in 1..n + T!Returns(n)
         /\ std /\ text[i] = "nl" => i + T!Returns(i) - 1 \in 1..n + T!Returns(n)
<1> DEFINE Ends(m) == {j \in 1..m : text[j] = "nl"}
<1>1. \A m : T!Returns(m) = IF std THEN Cardinality(Ends(m)) ELSE 0
  BY TxCardinality DEF T!Returns
<1>2. i \in Nat /\ n \in Nat /\ 1 <= i /\ i <= n
  OBVIOUS
<1>3. T!Returns(i) \in Nat /\ T!Returns(n) \in Nat
  BY <1>2, TxReturns
<1>4. IsFiniteSet(Ends(n)) /\ IsFiniteSet(Ends(i))
  <2>1. IsFiniteSet(1..n) /\ Ends(n) \in SUBSET (1..n) /\ IsFiniteSet(1..i) /\ Ends(i) \in SUBSET (1..i)
    BY <1>2, FS_Interval
  <2> QED BY <2>1, FS_Subset
<1>5. Ends(i) \in SUBSET Ends(n)
  BY <1>2
<1>6. ASSUME text[i] = "nl" PROVE Ends(i) # {}
  <2>1. i \in Ends(i)
    BY <1>2, <1>6
  <2> QED BY <2>1
<1> HIDE DEF Ends
<1>7. Cardinality(Ends(i)) <= Cardinality(Ends(n))
  BY <1>4, <1>5, FS_Subset
<1>8. ASSUME text[i] = "nl" PROVE Cardinality(Ends(i)) # 0
  BY <1>4, <1>6, <1>8, FS_EmptySet
<1>9. CASE std
  <2>1. T!Returns(i) = Cardinality(Ends(i)) /\ T!Returns(n) = Cardinality(Ends(n))
    BY <1>1, <1>9
  <2>2. T!Returns(i) <= T!Returns(n) /\ (text[i] = "nl" => T!Returns(i) # 0)
    BY <1>7, <1>8, <2>1
  <2> QED BY <1>2, <1>3, <2>2
<1>10. CASE ~std
  <2>1. T!Returns(i) = 0 /\ T!Returns(n) = 0
    BY <1>1, <1>10
  <2> QED BY <1>2, <1>10, <2>1
<1> QED BY <1>9, <1>10

TxText ==
  /\ text \in T!Texts \cup {<<>>} /\ std \in BOOLEAN
  /\ at_tx \in {"idle", "chunk", "cr", "char", "wait", "poll"}
  /\ sent \in 0..Len(text) /\ add_cr \in BOOLEAN
  /\ wire \in Seq({"x", "nl", "cr"})
  /\ at_tx \in {"chunk", "cr", "char"} => sent < Len(text)
  /\ at_tx = "idle" => sent = Len(text)
  /\ add_cr = FALSE => sent < Len(text) /\ std = TRUE /\ text[sent + 1] = "nl"

\* A return was sent whose newline was not.
Ahead == add_cr = FALSE \/ (at_tx = "char" /\ std = TRUE /\ text[sent + 1] = "nl")

\* The characters sent are on the wire, newlines behind their returns.
OnWire(n, t, w) ==
  \A i \in 1..n :
    /\ w[i + T!Returns(i)] = t[i]
    /\ std /\ t[i] = "nl" => w[i + T!Returns(i) - 1] = "cr"

TxSent ==
  /\ Len(wire) = sent + T!Returns(sent) + (IF Ahead THEN 1 ELSE 0)
  /\ Ahead => wire[Len(wire)] = "cr"
  /\ OnWire(sent, text, wire)

\* As long as the FIFO has not run empty too early, it is empty between two chunks, and
\* in a chunk it holds no more than what was put into it.
TxFifo ==
  /\ tx_done \in BOOLEAN /\ early \in BOOLEAN /\ lost \in BOOLEAN
  /\ fifo_n \in 0..FifoMax /\ level \in 0..FifoMax
  /\ T!Filling => fifo_n < FifoMax
  /\ early = FALSE =>
       /\ lost = FALSE
       /\ at_tx \in {"idle", "chunk"} => level = 0
       /\ T!Filling => level <= fifo_n /\ tx_done = FALSE
       /\ at_tx = "wait" /\ tx_done = TRUE => level = 0

TxInv == TxText /\ TxSent /\ TxFifo

\* Texts and what is on the line have lengths.
LEMMA TxLengths ==
  ASSUME TxInv
  PROVE  /\ text \in Seq({"x", "nl"}) /\ Len(text) \in Nat /\ Len(text) <= MaxText
         /\ sent \in Nat /\ sent <= Len(text)
<1>1. text \in Seq({"x", "nl"}) /\ Len(text) \in Nat /\ Len(text) <= MaxText
  <2>1. CASE text = <<>>
    <3>1. <<>> \in Seq({"x", "nl"}) /\ Len(<<>>) = 0
      OBVIOUS
    <3> QED BY <2>1, <3>1, LineAssumption
  <2>2. CASE text # <<>>
    <3>1. text \in T!Texts
      BY <2>2 DEF TxInv, TxText
    <3>2. text \in Seq({"x", "nl"}) /\ Len(text) <= MaxText
      BY <3>1, TxTexts
    <3> QED BY <3>2
  <2> QED BY <2>1, <2>2
<1>2. sent \in 0..Len(text)
  BY DEF TxInv, TxText
<1> QED BY <1>1, <1>2

\* Nothing is written at first, and the FIFO is empty.
LEMMA TxInit == T!Init => TxInv
<1> SUFFICES ASSUME T!Init PROVE TxInv
  OBVIOUS
<1>1. /\ text = <<>> /\ std = FALSE /\ sent = 0 /\ add_cr = TRUE /\ fifo_n = 0
      /\ at_tx = "idle" /\ tx_done = FALSE /\ level = 0
      /\ wire = <<>> /\ lost = FALSE /\ early = FALSE
  BY DEF T!Init
<1>2. Len(<<>>) = 0 /\ <<>> \in Seq({"x", "nl", "cr"}) /\ 0 \in 0..0
  OBVIOUS
<1>3. TxText
  BY <1>1, <1>2 DEF TxText
<1>4. T!Returns(0) = 0
  BY <1>1 DEF T!Returns
<1>5. TxSent
  BY <1>1, <1>2, <1>4 DEF TxSent, Ahead, OnWire
<1>6. TxFifo
  <2>1. 0 \in 0..FifoMax
    BY LineAssumption
  <2> QED BY <1>1, <2>1 DEF TxFifo, T!Filling
<1> QED BY <1>3, <1>5, <1>6 DEF TxInv

\* A write takes a text from its start (uart.c:448-495).
LEMMA TxWrite ==
  ASSUME TxInv, NEW t \in T!Texts, NEW s \in BOOLEAN, T!Write(t, s)
  PROVE  TxInv'
<1>1. /\ at_tx = "idle" /\ text' = t /\ std' = s /\ sent' = 0 /\ add_cr' = TRUE /\ fifo_n' = 0
      /\ wire' = <<>> /\ at_tx' = "chunk" /\ UNCHANGED <<tx_done, level, lost, early>>
  BY DEF T!Write
<1>2. t \in Seq({"x", "nl"}) /\ Len(t) \in Nat /\ Len(t) > 0 /\ Len(<<>>) = 0
  BY TxTexts, EmptySeq
<1>3. TxText'
  BY <1>1, <1>2 DEF TxText
<1>4. T!Returns(0)' = 0
  <2>1. Cardinality({i \in 1..0 : text'[i] = "nl"}) = 0
    <3>1. {i \in 1..0 : text'[i] = "nl"} = {}
      OBVIOUS
    <3> QED BY <3>1, FS_EmptySet
  <2> QED BY <2>1, TxCardinality DEF T!Returns
<1>5. TxSent'
  BY <1>1, <1>2, <1>4 DEF TxSent, Ahead, OnWire
<1>6. TxFifo'
  BY <1>1, LineAssumption DEF TxInv, TxFifo, T!Filling
<1> QED BY <1>3, <1>5, <1>6 DEF TxInv

\* Steps that put nothing into the FIFO leave what was sent as it is.
LEMMA TxSame ==
  ASSUME TxInv, UNCHANGED <<text, std, sent, add_cr, wire>>,
         ~(at_tx = "char") \/ at_tx' = "char",
         at_tx' = "char" => at_tx = "char" \/ (at_tx = "cr" /\ ~(std = TRUE /\ text[sent + 1] = "nl" /\ add_cr = TRUE)),
         at_tx' \in {"idle", "chunk", "cr", "char", "wait", "poll"},
         at_tx' \in {"chunk", "cr", "char"} => sent < Len(text),
         at_tx' = "idle" => sent = Len(text)
  PROVE  TxText' /\ TxSent'
<1>1. TxText'
  BY DEF TxInv, TxText
<1>2. \A n : T!Returns(n)' = T!Returns(n)
  BY DEF T!Returns
<1>3. Ahead' <=> Ahead
  BY DEF Ahead, TxInv, TxText
<1>4. TxSent'
  BY <1>2, <1>3 DEF TxSent, OnWire, TxInv
<1> QED BY <1>1, <1>4

\* init_completion, and the waits (uart.c:462-463, 485-491).
LEMMA TxWaits ==
  ASSUME TxInv, T!Chunk \/ T!Completed \/ T!TimedOut \/ T!PollThre
  PROVE  TxInv'
<1> USE DEF T!local
<1>1. CASE T!Chunk
  <2>1. TxText' /\ TxSent'
    BY <1>1, TxSame DEF T!Chunk, TxInv, TxText
  <2>2. TxFifo'
    <3>1. /\ at_tx = "chunk" /\ tx_done' = FALSE /\ fifo_n' = 0 /\ at_tx' = "cr"
          /\ UNCHANGED <<level, lost, early>>
      BY <1>1 DEF T!Chunk
    <3>2. fifo_n' \in 0..FifoMax /\ fifo_n' < FifoMax
      BY <3>1, LineAssumption
    <3>3. ASSUME early = FALSE PROVE lost = FALSE /\ level = 0
      BY <3>1, <3>3 DEF TxInv, TxFifo
    <3>4. level' \in 0..FifoMax /\ lost' \in BOOLEAN /\ early' \in BOOLEAN /\ tx_done' \in BOOLEAN
      BY <3>1 DEF TxInv, TxFifo
    <3>5. ASSUME early' = FALSE PROVE lost' = FALSE /\ level' <= fifo_n' /\ tx_done' = FALSE
      <4>1. lost = FALSE /\ level = 0
        BY <3>1, <3>3, <3>5
      <4> QED BY <3>1, <4>1
    <3>6. at_tx' \notin {"idle", "chunk", "wait"}
      BY <3>1
    <3> QED BY <3>2, <3>4, <3>5, <3>6 DEF TxFifo
  <2> QED BY <2>1, <2>2 DEF TxInv
<1>2. ASSUME at_tx \in {"wait", "poll"}, T!NextChunk, UNCHANGED <<text, std, sent, add_cr, wire>>
      PROVE  TxText' /\ TxSent'
  <2>1. sent \in Nat /\ Len(text) \in Nat /\ sent <= Len(text)
    BY TxLengths
  <2>2. at_tx' = IF sent < Len(text) THEN "chunk" ELSE "idle"
    BY <1>2 DEF T!NextChunk
  <2> QED BY <1>2, <2>1, <2>2, TxSame
<1>3. CASE T!Completed
  <2>1. TxText' /\ TxSent'
    BY <1>2, <1>3 DEF T!Completed
  <2>2. TxFifo'
    <3>1. at_tx = "wait" /\ tx_done = TRUE /\ tx_done' = FALSE /\ UNCHANGED <<fifo_n, level, lost, early>>
      BY <1>3 DEF T!Completed, TxInv, TxFifo
    <3>2. at_tx' \in {"chunk", "idle"}
      BY <1>3 DEF T!Completed, T!NextChunk
    <3> QED BY <3>1, <3>2 DEF TxInv, TxFifo, T!Filling
  <2> QED BY <2>1, <2>2 DEF TxInv
<1>4. CASE T!TimedOut
  <2>1. TxText' /\ TxSent'
    BY <1>4, TxSame DEF T!TimedOut
  <2>2. TxFifo'
    BY <1>4 DEF T!TimedOut, TxInv, TxFifo, T!Filling
  <2> QED BY <2>1, <2>2 DEF TxInv
<1>5. CASE T!PollThre
  <2>1. TxText' /\ TxSent'
    BY <1>2, <1>5 DEF T!PollThre
  <2>2. TxFifo'
    <3>1. level = 0 /\ UNCHANGED <<fifo_n, level, lost, early, tx_done>>
      BY <1>5 DEF T!PollThre
    <3>2. at_tx' \in {"chunk", "idle"}
      BY <1>5 DEF T!PollThre, T!NextChunk
    <3> QED BY <3>1, <3>2 DEF TxInv, TxFifo, T!Filling
  <2> QED BY <2>1, <2>2 DEF TxInv
<1> QED BY <1>1, <1>3, <1>4, <1>5

\* A byte put in while filling finds room, unless the FIFO ran empty too early.
LEMMA TxOut ==
  ASSUME TxInv, NEW b \in {"x", "nl", "cr"}, T!Filling, T!Out(b),
         UNCHANGED <<tx_done, early>>, at_tx' \in {"cr", "char", "wait"},
         at_tx' # "wait" => fifo_n' # FifoMax
  PROVE  TxFifo'
<1>1. fifo_n' = fifo_n + 1 /\ fifo_n' \in 0..FifoMax /\ fifo_n < FifoMax /\ level \in 0..FifoMax
      /\ fifo_n \in Nat
  BY LineAssumption DEF T!Out, TxInv, TxFifo
<1>2. level' = IF level < FifoMax THEN level + 1 ELSE level
  BY DEF T!Out
<1>3. lost' = (lost \/ level = FifoMax)
  BY DEF T!Out
<1>4. lost' \in BOOLEAN
  BY <1>3
<1>5. level' \in 0..FifoMax
  BY <1>1, <1>2, LineAssumption
<1>6. ASSUME early = FALSE PROVE level <= fifo_n /\ lost = FALSE /\ tx_done = FALSE
  BY <1>6 DEF TxInv, TxFifo
<1>7. ASSUME early = FALSE PROVE lost' = FALSE /\ level' <= fifo_n'
  <2>1. level <= fifo_n /\ lost = FALSE
    BY <1>6, <1>7
  <2>2. level < FifoMax /\ level' = level + 1
    BY <1>1, <1>2, <2>1, LineAssumption
  <2>3. (level = FifoMax) = FALSE
    BY <1>1, <2>2, LineAssumption
  <2>4. lost' = FALSE
    BY <1>3, <2>1, <2>3
  <2> QED BY <1>1, <2>1, <2>2, <2>4
<1>8. tx_done' \in BOOLEAN /\ early' \in BOOLEAN /\ (early' = FALSE => tx_done' = FALSE /\ early = FALSE)
  BY <1>6 DEF TxInv, TxFifo
<1>9. ASSUME T!Filling' PROVE fifo_n' < FifoMax
  BY <1>1, <1>9, LineAssumption DEF T!Filling
<1>10. at_tx' \notin {"idle", "chunk"}
  OBVIOUS
<1>11. ASSUME early' = FALSE
       PROVE  lost' = FALSE /\ level' <= fifo_n' /\ tx_done' = FALSE
  BY <1>7, <1>8, <1>11
<1> QED
  BY <1>1, <1>4, <1>5, <1>8, <1>9, <1>10, <1>11 DEF TxFifo

\* A newline of stdout is led by a return, which is not sent again if the chunk ends
\* with it (uart.c:464-475).
LEMMA TxPutCr ==
  ASSUME TxInv, T!PutCr
  PROVE  TxInv'
<1>1. at_tx = "cr" /\ UNCHANGED <<text, std, sent, tx_done, early>>
  BY DEF T!PutCr
<1>2. CASE ~(std /\ text[sent + 1] = "nl" /\ add_cr)
  <2>1. at_tx' = "char" /\ UNCHANGED <<wire, level, lost, fifo_n, add_cr>>
    BY <1>2 DEF T!PutCr
  <2>2. ~(std = TRUE /\ text[sent + 1] = "nl" /\ add_cr = TRUE)
    BY <1>2
  <2>3. TxText' /\ TxSent'
    BY <1>1, <2>1, <2>2, TxSame DEF TxInv, TxText
  <2>4. TxFifo'
    BY <1>1, <2>1 DEF TxInv, TxFifo, T!Filling
  <2> QED BY <2>3, <2>4 DEF TxInv
<1>3. CASE std /\ text[sent + 1] = "nl" /\ add_cr
  <2>0. std = TRUE /\ text[sent + 1] = "nl" /\ add_cr = TRUE
    BY <1>3 DEF TxInv, TxText
  <2>1. T!Out("cr") /\ add_cr' = (fifo_n' # FifoMax)
        /\ at_tx' = IF fifo_n' = FifoMax THEN "wait" ELSE "char"
    BY <1>3 DEF T!PutCr
  <2>2. TxFifo'
    BY <1>1, <2>1, TxOut DEF T!Filling
  <2>3. wire' = Append(wire, "cr") /\ wire \in Seq({"x", "nl", "cr"}) /\ sent < Len(text)
    BY <1>1, <2>1 DEF T!Out, TxInv, TxText
  <2>4. /\ wire' \in Seq({"x", "nl", "cr"}) /\ Len(wire') = Len(wire) + 1 /\ Len(wire) \in Nat
        /\ wire'[Len(wire) + 1] = "cr" /\ \A i \in 1..Len(wire) : wire'[i] = wire[i]
    BY <2>3, AppendProperties
  <2>5. TxText'
    <3>1. add_cr' \in BOOLEAN
      BY <2>1
    <3> QED BY <1>1, <2>0, <2>1, <2>3, <2>4, <3>1 DEF TxInv, TxText
  <2>6. \A n : T!Returns(n)' = T!Returns(n)
    BY <1>1 DEF T!Returns
  <2>7. Ahead' /\ ~Ahead
    <3>1. ~Ahead
      BY <1>1, <2>0 DEF Ahead
    <3>2. ASSUME fifo_n' = FifoMax PROVE add_cr' = FALSE
      <4>1. (fifo_n' # FifoMax) = FALSE
        BY <3>2
      <4> QED BY <2>1, <4>1
    <3>3. ASSUME fifo_n' # FifoMax PROVE at_tx' = "char" /\ std' = TRUE /\ text'[sent' + 1] = "nl"
      BY <1>1, <2>0, <2>1, <3>3
    <3>4. Ahead'
      BY <3>2, <3>3 DEF Ahead
    <3> QED BY <3>1, <3>4
  <2>8. text \in Seq({"x", "nl"}) /\ sent \in 0..Len(text)
    BY TxLengths
  <2>9. Len(wire) = sent + T!Returns(sent) /\ OnWire(sent, text, wire)
    BY <2>7, <2>8, TxReturns DEF TxInv, TxSent
  <2>10. OnWire(sent, text, wire)'
    <3> SUFFICES ASSUME NEW i \in 1..sent
                 PROVE  /\ wire'[i + T!Returns(i)] = text[i]
                        /\ std /\ text[i] = "nl" => wire'[i + T!Returns(i) - 1] = "cr"
      BY <1>1, <2>6 DEF OnWire
    <3>1. /\ i + T!Returns(i) \in 1..Len(wire)
          /\ std /\ text[i] = "nl" => i + T!Returns(i) - 1 \in 1..Len(wire)
      BY <2>8, <2>9, TxGrows
    <3> QED BY <2>4, <2>9, <3>1 DEF OnWire
  <2>11. TxSent'
    BY <1>1, <2>4, <2>6, <2>7, <2>9, <2>10 DEF TxSent
  <2> QED BY <2>2, <2>5, <2>11 DEF TxInv
<1> QED BY <1>2, <1>3

\* The next character follows what is on the wire (uart.c:476-483).
LEMMA TxPutChar ==
  ASSUME TxInv, T!PutChar
  PROVE  TxInv'
<1>1. /\ at_tx = "char" /\ UNCHANGED <<text, std, tx_done, early>>
      /\ T!Out(text[sent + 1]) /\ sent' = sent + 1 /\ add_cr' = TRUE
      /\ at_tx' = IF fifo_n' < FifoMax /\ sent' < Len(text) THEN "cr" ELSE "wait"
  BY DEF T!PutChar
<1>2. /\ text \in Seq({"x", "nl"}) /\ sent \in 0..Len(text) - 1 /\ Len(text) \in Nat
      /\ sent + 1 \in 1..Len(text)
  <2>1. sent < Len(text)
    BY <1>1 DEF TxInv, TxText
  <2> QED BY <2>1, TxLengths
<1>3. text[sent + 1] \in {"x", "nl", "cr"}
  BY <1>2
<1>4. TxFifo'
  <2>1. ASSUME at_tx' # "wait" PROVE fifo_n' # FifoMax
    <3>1. fifo_n' < FifoMax /\ FifoMax \in Nat
      BY <1>1, <2>1, LineAssumption
    <3> QED BY <3>1
  <2>2. at_tx' \in {"cr", "char", "wait"}
    BY <1>1
  <2> QED BY <1>1, <1>3, <2>1, <2>2, TxOut DEF T!Filling
<1>5. wire' = Append(wire, text[sent + 1]) /\ wire \in Seq({"x", "nl", "cr"})
  BY <1>1 DEF T!Out, TxInv, TxText
<1>6. /\ wire' \in Seq({"x", "nl", "cr"}) /\ Len(wire') = Len(wire) + 1 /\ Len(wire) \in Nat
      /\ wire'[Len(wire) + 1] = text[sent + 1] /\ \A i \in 1..Len(wire) : wire'[i] = wire[i]
  BY <1>3, <1>5, AppendProperties
<1>7. TxText'
  BY <1>1, <1>2, <1>6 DEF TxInv, TxText
<1>8. \A n : T!Returns(n)' = T!Returns(n)
  BY <1>1 DEF T!Returns
<1>9. Ahead <=> std = TRUE /\ text[sent + 1] = "nl"
  BY <1>1 DEF TxInv, TxText, Ahead
<1>10. /\ T!Returns(sent) \in Nat
       /\ T!Returns(sent + 1) = IF std /\ text[sent + 1] = "nl" THEN T!Returns(sent) + 1
                                ELSE T!Returns(sent)
  BY <1>2, TxReturns
<1>11. /\ Len(wire) = sent + T!Returns(sent) + (IF Ahead THEN 1 ELSE 0)
       /\ Ahead => wire[Len(wire)] = "cr"
       /\ OnWire(sent, text, wire)
  BY DEF TxInv, TxSent
<1>12. std <=> std = TRUE
  BY DEF TxInv, TxText
<1>13. Len(wire) + 1 = (sent + 1) + T!Returns(sent + 1)
  BY <1>2, <1>9, <1>10, <1>11, <1>12
<1>14. ASSUME NEW i \in 1..sent + 1
       PROVE  /\ wire'[i + T!Returns(i)] = text[i]
              /\ std /\ text[i] = "nl" => wire'[i + T!Returns(i) - 1] = "cr"
  <2>1. CASE i = sent + 1
    <3>1. wire'[i + T!Returns(i)] = text[i]
      BY <1>6, <1>13, <2>1
    <3>2. ASSUME std, text[i] = "nl" PROVE wire'[i + T!Returns(i) - 1] = "cr"
      <4>1. std = TRUE /\ text[sent + 1] = "nl"
        BY <1>12, <2>1, <3>2
      <4>2. Ahead
        BY <1>9, <4>1
      <4>3. Len(wire) = sent + T!Returns(sent) + 1 /\ wire[Len(wire)] = "cr"
        BY <1>11, <4>2
      <4>4. i + T!Returns(i) - 1 = Len(wire)
        <5>1. T!Returns(sent + 1) \in Nat /\ sent \in Nat
          BY <1>2, TxReturns
        <5> QED BY <1>6, <1>13, <2>1, <5>1
      <4>5. Len(wire) \in 1..Len(wire)
        BY <1>2, <1>10, <4>3
      <4> QED BY <1>6, <4>3, <4>4, <4>5
    <3> QED BY <3>1, <3>2
  <2>2. CASE i # sent + 1
    <3>1. i \in 1..sent /\ sent \in 0..Len(text)
      BY <1>2, <2>2
    <3>2. /\ i + T!Returns(i) \in 1..sent + T!Returns(sent)
          /\ std /\ text[i] = "nl" => i + T!Returns(i) - 1 \in 1..sent + T!Returns(sent)
      BY <1>2, <3>1, TxGrows
    <3>3. \A j \in 1..sent + T!Returns(sent) : wire'[j] = wire[j]
      BY <1>2, <1>6, <1>10, <1>11
    <3> QED BY <1>11, <3>1, <3>2, <3>3 DEF OnWire
  <2> QED BY <2>1, <2>2
<1>15. OnWire(sent, text, wire)'
  BY <1>1, <1>8, <1>14 DEF OnWire
<1>16. ~Ahead'
  BY <1>1 DEF Ahead
<1>17. TxSent'
  BY <1>1, <1>2, <1>6, <1>8, <1>10, <1>13, <1>15, <1>16 DEF TxSent
<1> QED BY <1>4, <1>7, <1>17 DEF TxInv

\* The transmitter takes the bytes in its own time, and a handler may write meanwhile
\* (uart.c:332-363).
LEMMA TxDrain ==
  ASSUME TxInv, T!Drain \/ T!WriteFromIsr
  PROVE  TxInv'
<1> USE DEF T!local
<1>1. UNCHANGED <<text, std, sent, add_cr, fifo_n, at_tx, wire, lost>>
  BY DEF T!Drain, T!WriteFromIsr
<1>2. TxText'
  BY <1>1 DEF TxInv, TxText
<1>3. TxSent'
  BY <1>1 DEF TxInv, TxSent, Ahead, OnWire, T!Returns
<1>4. level \in Nat /\ level <= FifoMax /\ fifo_n \in Nat /\ FifoMax \in Nat
  BY LineAssumption DEF TxInv, TxFifo
<1>5. CASE T!Drain
  <2>1. /\ level > 0 /\ level' = level - 1 /\ tx_done' = (tx_done \/ level = 1)
        /\ early' = (early \/ (level = 1 /\ T!Filling))
    BY <1>5 DEF T!Drain
  <2>2. tx_done' \in BOOLEAN /\ early' \in BOOLEAN /\ level' \in 0..FifoMax
    BY <1>4, <2>1
  <2>3. ASSUME early' = FALSE PROVE early = FALSE /\ ~(level = 1 /\ T!Filling)
    BY <2>1, <2>3 DEF TxInv, TxFifo
  <2>4. ASSUME level # 1 PROVE tx_done' = tx_done
    BY <2>1, <2>4 DEF TxInv, TxFifo
  <2>5. ASSUME early' = FALSE, T!Filling PROVE level' <= fifo_n /\ tx_done' = FALSE
    BY <1>4, <2>1, <2>3, <2>4, <2>5 DEF TxInv, TxFifo
  <2>6. ASSUME early' = FALSE, at_tx = "wait", tx_done' = TRUE PROVE level' = 0
    BY <1>4, <2>1, <2>3, <2>4, <2>6 DEF TxInv, TxFifo
  <2>7. ASSUME early' = FALSE PROVE at_tx \notin {"idle", "chunk"} /\ lost = FALSE
    BY <1>4, <2>1, <2>3, <2>7 DEF TxInv, TxFifo
  <2>8. (T!Filling' <=> T!Filling) /\ (T!Filling => fifo_n < FifoMax) /\ lost \in BOOLEAN /\ fifo_n \in 0..FifoMax
    BY <1>1 DEF T!Filling, TxInv, TxFifo
  <2>9. TxFifo'
    BY <1>1, <2>2, <2>5, <2>6, <2>7, <2>8 DEF TxFifo
  <2> QED BY <1>2, <1>3, <2>9 DEF TxInv
<1>6. CASE T!WriteFromIsr
  <2>1. /\ level' = 0 /\ tx_done' = TRUE /\ early' = (early \/ T!Filling)
    BY <1>6 DEF T!WriteFromIsr
  <2>2. early' \in BOOLEAN /\ level' \in 0..FifoMax
    BY <1>4, <2>1
  <2>3. ASSUME early' = FALSE PROVE early = FALSE /\ ~T!Filling
    BY <2>1, <2>3 DEF TxInv, TxFifo
  <2>8. (T!Filling' <=> T!Filling) /\ (T!Filling => fifo_n < FifoMax) /\ lost \in BOOLEAN /\ fifo_n \in 0..FifoMax
    BY <1>1 DEF T!Filling, TxInv, TxFifo
  <2>9. TxFifo'
    BY <1>1, <2>1, <2>2, <2>3, <2>8 DEF TxInv, TxFifo
  <2> QED BY <1>2, <1>3, <2>9 DEF TxInv
<1> QED BY <1>5, <1>6

\* Every step of the writer and of the line keeps the bytes in order.
LEMMA TxNext == TxInv /\ [T!Next]_UartTxVars => TxInv'
<1> SUFFICES ASSUME TxInv, [T!Next]_UartTxVars PROVE TxInv'
  OBVIOUS
<1>1. CASE UNCHANGED UartTxVars
  BY <1>1 DEF UartTxVars, TxInv, TxText, TxSent, TxFifo, Ahead, OnWire, T!Returns, T!Filling
<1> QED
  BY <1>1, TxWrite, TxWaits, TxPutCr, TxPutChar, TxDrain DEF T!Next, T!Writer

\* What the invariant of the sender promises.
LEMMA TxHolds == TxInv => T!TypeOK /\ T!WireIsText /\ T!FifoTakesAll
<1> SUFFICES ASSUME TxInv PROVE T!TypeOK /\ T!WireIsText /\ T!FifoTakesAll
  OBVIOUS
<1>1. /\ text \in Seq({"x", "nl"}) /\ Len(text) \in Nat /\ Len(text) <= MaxText
      /\ sent \in Nat /\ sent <= Len(text)
  BY TxLengths
<1>2. T!TypeOK
  <2>1. sent \in 0..MaxText
    BY <1>1, LineAssumption
  <2> QED BY <2>1 DEF TxInv, TxText, TxFifo, T!TypeOK
<1>3. T!FifoTakesAll
  BY DEF TxInv, TxFifo, T!FifoTakesAll
<1>4. ASSUME at_tx = "idle" PROVE sent = Len(text) /\ ~Ahead
  <2>1. sent = Len(text)
    BY <1>4 DEF TxInv, TxText
  <2>2. ASSUME add_cr = FALSE PROVE FALSE
    <3>1. sent < Len(text)
      BY <2>2 DEF TxInv, TxText
    <3> QED BY <1>1, <2>1, <3>1
  <2> QED BY <1>4, <2>1, <2>2 DEF Ahead
<1>5. T!WireIsText
  <2>1. T!Returns(Len(text)) \in Nat
    BY <1>1, TxReturns
  <2> QED BY <1>1, <1>4, <2>1 DEF TxInv, TxSent, OnWire, T!WireIsText
<1> QED BY <1>2, <1>3, <1>5

-----------------------------------------------------------------------------
(* UartRx.                                                                 *)

\* The k-th place from the read index on.
Place(k) == IF rx_rd + k < RxSize THEN rx_rd + k ELSE rx_rd + k - RxSize

RxTypes ==
  /\ rx_buf \in [U!Index -> RxBytes \cup {NULL}] /\ rx_wt \in U!Index /\ rx_rd \in U!Index
  /\ unread \in Seq(RxBytes)
  /\ overrun \in BOOLEAN /\ leftover \in BOOLEAN /\ misread \in BOOLEAN /\ stray \in BOOLEAN

\* The bytes not yet read are those from the read index up to the write index, which
\* meet when there are none; but an overrun makes them meet when the ring is full.
RxInv ==
  /\ RxTypes
  /\ overrun = TRUE => rx_wt = rx_rd
  /\ overrun = FALSE => Len(unread) < RxSize /\ rx_wt = Place(Len(unread))
  /\ overrun = FALSE /\ leftover = FALSE /\ stray = FALSE =>
       misread = FALSE /\ \A i \in 1..Len(unread) : rx_buf[Place(i - 1)] = unread[i]

\* The index is folded back at the end of the ring.
LEMMA RxNext1 == \A i \in U!Index : U!Next1(i) = IF i + 1 = RxSize THEN 0 ELSE i + 1
<1> SUFFICES ASSUME NEW i \in U!Index
             PROVE  U!Next1(i) = IF i + 1 = RxSize THEN 0 ELSE i + 1
  OBVIOUS
<1> QED BY LineAssumption DEF U!Next1, U!Index

\* The ring is empty at first.
LEMMA RxInit == U!Init => RxInv
<1> SUFFICES ASSUME U!Init PROVE RxInv
  OBVIOUS
<1>1. /\ rx_buf = [i \in U!Index |-> NULL] /\ rx_wt = 0 /\ rx_rd = 0
      /\ unread = <<>> /\ overrun = FALSE /\ leftover = FALSE /\ misread = FALSE
      /\ stray = FALSE
  BY DEF U!Init, U!Unknown
<1>2. 0 \in U!Index
  BY LineAssumption DEF U!Index
<1>3. <<>> \in Seq(RxBytes) /\ Len(<<>>) = 0
  OBVIOUS
<1>4. Place(0) = 0
  BY <1>1, LineAssumption DEF Place
<1> QED BY <1>1, <1>2, <1>3, <1>4, LineAssumption DEF RxInv, RxTypes

\* A byte taken is the next one, and the others move up.
LEMMA RxRead ==
  ASSUME RxInv, U!Read
  PROVE  RxInv'
<1>1. /\ rx_wt # rx_rd /\ unread' = Tail(unread) /\ rx_rd' = U!Next1(rx_rd)
      /\ misread' = (misread \/ ~rx_ring \/ rx_buf[rx_rd] # Head(unread))
      /\ stray' = (stray \/ ~rx_ring)
      /\ UNCHANGED <<rx_buf, rx_wt, overrun, leftover>>
  BY DEF U!Read, U!Take
<1>2. /\ rx_rd \in 0..RxSize - 1 /\ rx_rd' \in 0..RxSize - 1 /\ RxSize \in Nat
      /\ rx_rd' = IF rx_rd + 1 = RxSize THEN 0 ELSE rx_rd + 1
  <2>1. rx_rd \in U!Index
    BY DEF RxInv, RxTypes
  <2>2. rx_rd' = IF rx_rd + 1 = RxSize THEN 0 ELSE rx_rd + 1
    BY <1>1, <2>1, RxNext1
  <2> QED BY <2>1, <2>2, LineAssumption DEF U!Index
<1>3. overrun = FALSE /\ Len(unread) < RxSize /\ rx_wt = Place(Len(unread)) /\ unread \in Seq(RxBytes)
  BY <1>1 DEF RxInv, RxTypes
<1>4. unread # <<>>
  <2>1. ASSUME unread = <<>> PROVE FALSE
    <3>1. Len(unread) = 0
      BY <2>1
    <3>2. Place(0) = rx_rd
      BY <1>2 DEF Place
    <3> QED BY <1>1, <1>3, <3>1, <3>2
  <2> QED BY <2>1
<1>5. /\ unread' \in Seq(RxBytes) /\ Len(unread') = Len(unread) - 1 /\ Len(unread) \in Nat \ {0}
      /\ \A i \in 1..Len(unread') : unread'[i] = unread[i + 1]
      /\ Head(unread) = unread[1]
  BY <1>1, <1>3, <1>4
<1>6. \A k \in 0..RxSize - 2 : Place(k)' = Place(k + 1)
  BY <1>2 DEF Place
<1>7. rx_wt' = Place(Len(unread))'
  <2>1. Len(unread') \in 0..RxSize - 2 /\ Len(unread') + 1 = Len(unread)
    BY <1>2, <1>3, <1>5
  <2>2. Place(Len(unread))' = Place(Len(unread') + 1)
    BY <1>6, <2>1 DEF Place
  <2> QED BY <1>1, <1>3, <2>1, <2>2
<1>8. misread' \in BOOLEAN /\ stray' \in BOOLEAN
  BY <1>1
<1>9. RxTypes'
  BY <1>1, <1>2, <1>5, <1>8 DEF RxInv, RxTypes, U!Index
<1>10. ASSUME leftover = FALSE, stray' = FALSE
       PROVE  misread' = FALSE /\ \A i \in 1..Len(unread') : (rx_buf[Place(i - 1)] = unread[i])'
  <2>0. stray = FALSE /\ rx_ring
    BY <1>1, <1>10 DEF RxInv, RxTypes
  <2>1. misread = FALSE /\ \A i \in 1..Len(unread) : rx_buf[Place(i - 1)] = unread[i]
    BY <1>3, <1>10, <2>0 DEF RxInv
  <2>2. Place(0) = rx_rd
    BY <1>2 DEF Place
  <2>3. rx_buf[rx_rd] = Head(unread)
    <3>1. 1 \in 1..Len(unread) /\ 1 - 1 = 0
      BY <1>5
    <3>2. rx_buf[Place(1 - 1)] = unread[1]
      BY <2>1, <3>1
    <3> QED BY <1>5, <2>2, <3>1, <3>2
  <2>4. misread' = FALSE
    BY <1>1, <2>0, <2>1, <2>3
  <2>5. ASSUME NEW i \in 1..Len(unread') PROVE (rx_buf[Place(i - 1)] = unread[i])'
    <3>1. i + 1 \in 1..Len(unread) /\ i - 1 \in 0..RxSize - 2 /\ (i - 1) + 1 = i /\ (i + 1) - 1 = i
      BY <1>2, <1>3, <1>5
    <3>2. Place(i - 1)' = Place(i)
      BY <1>6, <3>1
    <3>3. rx_buf[Place(i)] = unread[i + 1]
      BY <2>1, <3>1
    <3> QED BY <1>1, <1>5, <3>2, <3>3
  <2> QED BY <2>4, <2>5
<1>11. overrun' = FALSE /\ Len(unread') < RxSize
  BY <1>1, <1>2, <1>3, <1>5
<1> HIDE DEF Place
<1> QED BY <1>1, <1>7, <1>9, <1>10, <1>11 DEF RxInv

\* A byte received goes behind those that are there, unless the ring is full.
LEMMA RxReceive ==
  ASSUME RxInv, NEW b \in RxBytes, U!Receive(b)
  PROVE  RxInv'
<1>1. /\ rx_buf' = [rx_buf EXCEPT ![rx_wt] = b] /\ rx_wt' = U!Next1(rx_wt)
      /\ unread' = Append(unread, b) /\ overrun' = (U!Next1(rx_wt) = rx_rd)
      /\ stray' = (stray \/ ~rx_ring)
      /\ UNCHANGED <<rx_rd, leftover, misread>>
  BY DEF U!Receive
<1>2. overrun = FALSE
  BY DEF U!Receive, RxInv, RxTypes
<1>3. Len(unread) < RxSize /\ rx_wt = Place(Len(unread)) /\ unread \in Seq(RxBytes)
      /\ Len(unread) \in Nat
  BY <1>2 DEF RxInv, RxTypes
<1>4. /\ rx_wt \in 0..RxSize - 1 /\ rx_rd \in 0..RxSize - 1 /\ RxSize \in Nat \ {0}
      /\ U!Next1(rx_wt) = IF rx_wt + 1 = RxSize THEN 0 ELSE rx_wt + 1
      /\ U!Next1(rx_wt) \in 0..RxSize - 1
  <2>1. rx_wt \in U!Index /\ rx_rd \in U!Index
    BY DEF RxInv, RxTypes
  <2>2. U!Next1(rx_wt) = IF rx_wt + 1 = RxSize THEN 0 ELSE rx_wt + 1
    BY <2>1, RxNext1
  <2> QED BY <2>1, <2>2, LineAssumption DEF U!Index
<1>5. /\ unread' \in Seq(RxBytes) /\ Len(unread') = Len(unread) + 1
      /\ unread'[Len(unread) + 1] = b
      /\ \A i \in 1..Len(unread) : unread'[i] = unread[i]
  BY <1>1, <1>3, AppendProperties
<1>6. rx_buf' \in [U!Index -> RxBytes \cup {NULL}] /\ rx_buf'[rx_wt] = b
      /\ \A j \in U!Index : j # rx_wt => rx_buf'[j] = rx_buf[j]
  BY <1>1, <1>4 DEF RxInv, RxTypes, U!Index
<1>7. overrun' \in BOOLEAN /\ stray' \in BOOLEAN
  BY <1>1
<1>8. RxTypes'
  BY <1>1, <1>4, <1>5, <1>6, <1>7 DEF RxInv, RxTypes, U!Index
<1>9. \A k : Place(k)' = Place(k)
  BY <1>1 DEF Place
<1>10. ASSUME U!Next1(rx_wt) # rx_rd
       PROVE  Len(unread') < RxSize /\ rx_wt' = Place(Len(unread))'
  BY <1>1, <1>3, <1>4, <1>5, <1>10 DEF Place
<1>11. \A i \in 1..Len(unread) : Place(i - 1) \in U!Index /\ Place(i - 1) # rx_wt
  BY <1>3, <1>4 DEF Place, U!Index
<1> HIDE DEF Place
<1>12. ASSUME overrun' = FALSE PROVE U!Next1(rx_wt) # rx_rd
  BY <1>1, <1>12
<1>13. ASSUME overrun' = TRUE PROVE U!Next1(rx_wt) = rx_rd
  BY <1>1, <1>13
<1>14. ASSUME leftover = FALSE, stray' = FALSE
       PROVE  misread' = FALSE /\ \A i \in 1..Len(unread') : (rx_buf[Place(i - 1)] = unread[i])'
  <2>1. misread = FALSE /\ \A i \in 1..Len(unread) : rx_buf[Place(i - 1)] = unread[i]
    <3>1. stray = FALSE
      BY <1>1, <1>14 DEF RxInv, RxTypes
    <3> QED BY <1>2, <1>14, <3>1 DEF RxInv
  <2>2. ASSUME NEW i \in 1..Len(unread') PROVE rx_buf'[Place(i - 1)] = unread'[i]
    <3>1. CASE i = Len(unread) + 1
      <4>1. i - 1 = Len(unread)
        BY <1>3, <3>1
      <4> QED BY <1>3, <1>5, <1>6, <3>1, <4>1
    <3>2. CASE i # Len(unread) + 1
      <4>1. i \in 1..Len(unread)
        BY <1>3, <1>5, <3>2
      <4> QED BY <1>5, <1>6, <1>11, <2>1, <4>1
    <3> QED BY <3>1, <3>2
  <2> QED BY <1>1, <1>9, <2>1, <2>2
<1> QED BY <1>1, <1>8, <1>9, <1>10, <1>12, <1>13, <1>14 DEF RxInv

\* The ring is freed or replaced: what was unread is gone, and that is known.
LEMMA RxGone ==
  ASSUME RxInv, U!RingGone, UNCHANGED <<rx_wt, rx_rd, unread, overrun, misread, stray>>
  PROVE  RxInv'
<1>1. rx_buf' = [i \in U!Index |-> NULL] /\ leftover' = (leftover \/ rx_wt # rx_rd)
  BY DEF U!RingGone, U!Unknown
<1>2. leftover' \in BOOLEAN /\ rx_buf' \in [U!Index -> RxBytes \cup {NULL}]
  BY <1>1
<1>3. RxTypes'
  BY <1>1, <1>2 DEF RxInv, RxTypes
<1>4. \A k : Place(k)' = Place(k)
  BY DEF Place
<1>5. ASSUME leftover' = FALSE PROVE leftover = FALSE /\ rx_wt = rx_rd
  BY <1>1, <1>5 DEF RxInv, RxTypes
<1>6. ASSUME rx_wt = rx_rd, overrun = FALSE PROVE Len(unread) = 0
  <2>1. rx_wt = Place(Len(unread)) /\ Len(unread) < RxSize /\ Len(unread) \in Nat
        /\ rx_rd \in 0..RxSize - 1 /\ RxSize \in Nat
    BY <1>6, LineAssumption DEF RxInv, RxTypes, U!Index
  <2> QED BY <1>6, <2>1 DEF Place
<1>7. ASSUME overrun' = FALSE, leftover' = FALSE, stray' = FALSE
      PROVE  misread' = FALSE /\ Len(unread') = 0
  BY <1>5, <1>6, <1>7 DEF RxInv
<1> HIDE DEF Place
<1>8. (overrun' = TRUE => rx_wt' = rx_rd')
      /\ (overrun' = FALSE => Len(unread') < RxSize /\ rx_wt' = Place(Len(unread))')
  BY <1>4 DEF RxInv
<1>9. 1..0 = {}
  OBVIOUS
<1> QED BY <1>3, <1>7, <1>8, <1>9 DEF RxInv

\* The other steps of opening and closing leave ring and bytes alone.
LEMMA RxOpenClose ==
  ASSUME RxInv, NEW t \in Tasks,
         \/ U!NoInstance(t) \/ U!OpenTest(t) \/ U!InstallIsr(t)
         \/ U!OpenLoad(t) \/ U!OpenStore(t)
         \/ U!CloseLoad(t) \/ U!CloseStore(t) \/ U!RemoveIsr(t)
  PROVE  RxInv'
<1>1. UNCHANGED <<rx_buf, rx_wt, rx_rd, unread, overrun, misread, stray, leftover>>
  BY DEF U!NoInstance, U!OpenTest, U!InstallIsr, U!OpenLoad, U!OpenStore, U!CloseLoad,
         U!CloseStore, U!RemoveIsr, U!vars, U!ring, U!bytes
<1> QED BY <1>1 DEF RxInv, RxTypes, Place

\* Every step of a reader, of who opens or closes and of the interrupt keeps the ring.
LEMMA RxNext == RxInv /\ [U!Next]_UartRxVars => RxInv'
<1> SUFFICES ASSUME RxInv, [U!Next]_UartRxVars PROVE RxInv'
  OBVIOUS
<1>1. CASE UNCHANGED UartRxVars
  BY <1>1 DEF UartRxVars, RxInv, RxTypes, Place
<1>2. ASSUME NEW t \in Tasks, U!GetRing(t) \/ U!NoRing(t) \/ U!FreeRing(t)
      PROVE  U!RingGone /\ UNCHANGED <<rx_wt, rx_rd, unread, overrun, misread, stray>>
  BY <1>2 DEF U!GetRing, U!NoRing, U!FreeRing, U!bytes
<1> QED BY <1>1, <1>2, RxRead, RxReceive, RxGone, RxOpenClose DEF U!Next

\* Files, ring and handler as they are while task stage a, having loaded refcnt c, is the
\* only one under way, or none is.
Stage(a, c) ==
  CASE a = "idle" -> refcnt = rx_open /\ (rx_ring <=> rx_open > 0) /\ (rx_isr <=> rx_open > 0)
    [] a = "ring" -> refcnt = 0 /\ rx_open = 0 /\ ~rx_ring /\ ~rx_isr
    [] a = "hook" -> refcnt = 0 /\ rx_open = 0 /\ rx_ring /\ ~rx_isr
    [] a = "load" -> refcnt = rx_open /\ rx_ring /\ rx_isr
    [] a = "store" -> refcnt = rx_open /\ c = refcnt /\ rx_ring /\ rx_isr
    [] a = "drop" -> refcnt = rx_open + 1 /\ c = refcnt /\ rx_ring /\ rx_isr
    [] a = "unhook" -> rx_open = 0 /\ refcnt = 0 /\ rx_ring /\ rx_isr
    [] a = "free" -> rx_open = 0 /\ refcnt = 0 /\ rx_ring /\ ~rx_isr

RxPlaces == {"idle", "ring", "hook", "load", "store", "drop", "unhook", "free"}

RxLifeTypes ==
  /\ refcnt \in Int /\ rx_cnt \in [Tasks -> Int] /\ rx_open \in 0..MaxRef
  /\ at_rx \in [Tasks -> RxPlaces]
  /\ rx_ring \in BOOLEAN /\ rx_isr \in BOOLEAN /\ collided \in BOOLEAN /\ dangling \in BOOLEAN

\* One opens or closes at a time, until an open or a close began while another was
\* under way.
RxAlone ==
  \/ (\A t \in Tasks : at_rx[t] = "idle") /\ Stage("idle", 0)
  \/ \E t \in Tasks :
       /\ at_rx[t] # "idle" /\ \A u \in Tasks \ {t} : at_rx[u] = "idle"
       /\ Stage(at_rx[t], rx_cnt[t])

RxLife == RxLifeTypes /\ (collided = FALSE => RxAlone)

\* At first nothing is open.
LEMMA RxLifeInit == U!Init => RxLife
<1> SUFFICES ASSUME U!Init PROVE RxLife
  OBVIOUS
<1>1. RxLifeTypes
  <2>1. refcnt \in Int /\ rx_open \in 0..MaxRef
    BY LineAssumption DEF U!Init
  <2>2. rx_cnt \in [Tasks -> Int] /\ at_rx \in [Tasks -> RxPlaces]
    BY DEF U!Init, RxPlaces
  <2>3. rx_ring \in BOOLEAN /\ rx_isr \in BOOLEAN /\ collided \in BOOLEAN /\ dangling \in BOOLEAN
    BY DEF U!Init
  <2> QED BY <2>1, <2>2, <2>3 DEF RxLifeTypes
<1>2. (\A t \in Tasks : at_rx[t] = "idle") /\ refcnt = 0 /\ rx_open = 0 /\ ~rx_ring /\ ~rx_isr
  BY DEF U!Init
<1>3. Stage("idle", 0)
  BY <1>2 DEF Stage
<1> QED BY <1>1, <1>2, <1>3 DEF RxLife, RxAlone

\* Every step of opening and closing keeps the types.
LEMMA RxLifeKeepsTypes ==
  ASSUME RxLifeTypes, U!Next
  PROVE  RxLifeTypes'
<1> USE DEF RxLifeTypes, U!Goes, U!Loads, RxPlaces
<1>1. ASSUME NEW t \in Tasks, U!NoInstance(t) PROVE RxLifeTypes'
  BY <1>1 DEF U!NoInstance, U!vars, U!life
<1>2. ASSUME NEW t \in Tasks, U!OpenTest(t) PROVE RxLifeTypes'
  BY <1>2 DEF U!OpenTest
<1>3. ASSUME NEW t \in Tasks, U!GetRing(t) PROVE RxLifeTypes'
  BY <1>3 DEF U!GetRing
<1>4. ASSUME NEW t \in Tasks, U!NoRing(t) PROVE RxLifeTypes'
  BY <1>4 DEF U!NoRing
<1>5. ASSUME NEW t \in Tasks, U!InstallIsr(t) PROVE RxLifeTypes'
  BY <1>5 DEF U!InstallIsr
<1>6. ASSUME NEW t \in Tasks, U!OpenLoad(t) PROVE RxLifeTypes'
  BY <1>6 DEF U!OpenLoad
<1>7. ASSUME NEW t \in Tasks, U!OpenStore(t) PROVE RxLifeTypes'
  BY <1>7, LineAssumption DEF U!OpenStore
<1>8. ASSUME NEW t \in Tasks, U!CloseLoad(t) PROVE RxLifeTypes'
  BY <1>8, LineAssumption DEF U!CloseLoad
<1>9. ASSUME NEW t \in Tasks, U!CloseStore(t) PROVE RxLifeTypes'
  BY <1>9 DEF U!CloseStore
<1>10. ASSUME NEW t \in Tasks, U!RemoveIsr(t) PROVE RxLifeTypes'
  BY <1>10 DEF U!RemoveIsr
<1>11. ASSUME NEW t \in Tasks, U!FreeRing(t) PROVE RxLifeTypes'
  BY <1>11 DEF U!FreeRing
<1>12. ASSUME U!Read PROVE RxLifeTypes'
  BY <1>12 DEF U!Read, U!Take, U!life
<1>13. ASSUME NEW b \in RxBytes, U!Receive(b) PROVE RxLifeTypes'
  BY <1>13 DEF U!Receive, U!life
<1> QED
  BY <1>1, <1>2, <1>3, <1>4, <1>5, <1>6, <1>7, <1>8, <1>9, <1>10, <1>11, <1>12, <1>13
  DEF U!Next

\* Who is under way alone takes files, ring and handler from one stage to the next.
LEMMA RxStep ==
  ASSUME RxLife, RxLifeTypes', collided' = FALSE, NEW t \in Tasks, NEW a, NEW b,
         U!Goes(t, a, b),
         collided' = collided \/ collided' = (collided \/ U!Busy(t)),
         a = "idle" => collided' = (collided \/ U!Busy(t)),
         Stage(a, rx_cnt[t]) => Stage(b, rx_cnt[t])',
         b = "idle" => Stage(b, 0)' = Stage(b, rx_cnt[t])'
  PROVE  RxAlone'
<1> USE DEF RxLife, RxLifeTypes
<1>1. /\ at_rx[t] = a /\ at_rx'[t] = b /\ a \in RxPlaces /\ b \in RxPlaces
      /\ \A u \in Tasks \ {t} : at_rx'[u] = at_rx[u]
  BY DEF U!Goes
<1>2. collided = FALSE
  OBVIOUS
<1>3. \A u \in Tasks \ {t} : at_rx[u] = "idle"
  BY <1>1, <1>2 DEF RxAlone, U!Busy
<1>4. Stage(a, rx_cnt[t])
  BY <1>1, <1>2, <1>3 DEF RxAlone, Stage
<1>5. CASE b = "idle"
  BY <1>1, <1>3, <1>4, <1>5 DEF RxAlone
<1>6. CASE b # "idle"
  BY <1>1, <1>3, <1>4, <1>6 DEF RxAlone
<1> QED BY <1>5, <1>6

\* Every step keeps the stages of opening and closing.
LEMMA RxLifeNext == RxLife /\ [U!Next]_UartRxVars => RxLife'
<1> SUFFICES ASSUME RxLife, [U!Next]_UartRxVars PROVE RxLife'
  OBVIOUS
<1>1. CASE UNCHANGED UartRxVars
  BY <1>1 DEF UartRxVars, RxLife, RxLifeTypes, RxAlone, Stage
<1>2. CASE U!Next
  <2>1. RxLifeTypes /\ RxLifeTypes'
    BY <1>2, RxLifeKeepsTypes DEF RxLife
  <2>2. SUFFICES ASSUME collided' = FALSE PROVE RxAlone'
    BY <2>1 DEF RxLife
  <2> USE <2>1, <2>2 DEF U!Loads, RxLifeTypes
  <2>3. ASSUME NEW t \in Tasks, U!NoInstance(t) PROVE RxAlone'
    BY <2>3 DEF U!NoInstance, U!vars, U!life, RxLife, RxAlone, Stage
  <2>4. ASSUME NEW t \in Tasks, U!OpenTest(t) PROVE RxAlone'
    <3>1. CASE refcnt = 0
      <4>1. Stage("idle", rx_cnt[t]) => Stage("ring", rx_cnt[t])'
        BY <2>4, <3>1 DEF U!OpenTest, Stage
      <4> QED BY <2>4, <3>1, <4>1, RxStep DEF U!OpenTest
    <3>2. CASE refcnt # 0
      <4>1. Stage("idle", rx_cnt[t]) => Stage("load", rx_cnt[t])'
        BY <2>4, <3>2 DEF U!OpenTest, Stage
      <4> QED BY <2>4, <3>2, <4>1, RxStep DEF U!OpenTest
    <3> QED BY <3>1, <3>2
  <2>5. ASSUME NEW t \in Tasks, U!GetRing(t) PROVE RxAlone'
    <3>1. Stage("ring", rx_cnt[t]) => Stage("hook", rx_cnt[t])'
      BY <2>5 DEF U!GetRing, Stage
    <3> QED BY <2>5, <3>1, RxStep DEF U!GetRing
  <2>6. ASSUME NEW t \in Tasks, U!NoRing(t) PROVE RxAlone'
    <3>1. Stage("ring", rx_cnt[t]) => Stage("idle", rx_cnt[t])'
      BY <2>6 DEF U!NoRing, Stage
    <3>2. Stage("idle", 0)' = Stage("idle", rx_cnt[t])'
      BY DEF Stage
    <3> QED BY <2>6, <3>1, <3>2, RxStep DEF U!NoRing
  <2>7. ASSUME NEW t \in Tasks, U!InstallIsr(t) PROVE RxAlone'
    <3>1. Stage("hook", rx_cnt[t]) => Stage("load", rx_cnt[t])'
      BY <2>7 DEF U!InstallIsr, Stage
    <3> QED BY <2>7, <3>1, RxStep DEF U!InstallIsr
  <2>8. ASSUME NEW t \in Tasks, U!OpenLoad(t) PROVE RxAlone'
    <3>1. Stage("load", rx_cnt[t]) => Stage("store", rx_cnt[t])'
      BY <2>8 DEF U!OpenLoad, Stage
    <3> QED BY <2>8, <3>1, RxStep DEF U!OpenLoad
  <2>9. ASSUME NEW t \in Tasks, U!OpenStore(t) PROVE RxAlone'
    <3>1. Stage("store", rx_cnt[t]) => Stage("idle", rx_cnt[t])'
      BY <2>9 DEF U!OpenStore, Stage
    <3>2. Stage("idle", 0)' = Stage("idle", rx_cnt[t])'
      BY DEF Stage
    <3> QED BY <2>9, <3>1, <3>2, RxStep DEF U!OpenStore
  <2>10. ASSUME NEW t \in Tasks, U!CloseLoad(t) PROVE RxAlone'
    <3>1. Stage("idle", rx_cnt[t]) => Stage("drop", rx_cnt[t])'
      BY <2>10, LineAssumption DEF U!CloseLoad, Stage
    <3> QED BY <2>10, <3>1, RxStep DEF U!CloseLoad
  <2>11. ASSUME NEW t \in Tasks, U!CloseStore(t) PROVE RxAlone'
    <3>1. CASE rx_cnt[t] = 1
      <4>1. Stage("drop", rx_cnt[t]) => Stage("unhook", rx_cnt[t])'
        BY <2>11, <3>1, LineAssumption DEF U!CloseStore, Stage
      <4> QED BY <2>11, <3>1, <4>1, RxStep DEF U!CloseStore
    <3>2. CASE rx_cnt[t] # 1
      <4>1. Stage("drop", rx_cnt[t]) => Stage("idle", rx_cnt[t])'
        BY <2>11, <3>2, LineAssumption DEF U!CloseStore, Stage
      <4>2. Stage("idle", 0)' = Stage("idle", rx_cnt[t])'
        BY DEF Stage
      <4> QED BY <2>11, <3>2, <4>1, <4>2, RxStep DEF U!CloseStore
    <3> QED BY <3>1, <3>2
  <2>12. ASSUME NEW t \in Tasks, U!RemoveIsr(t) PROVE RxAlone'
    <3>1. Stage("unhook", rx_cnt[t]) => Stage("free", rx_cnt[t])'
      BY <2>12 DEF U!RemoveIsr, Stage
    <3> QED BY <2>12, <3>1, RxStep DEF U!RemoveIsr
  <2>13. ASSUME NEW t \in Tasks, U!FreeRing(t) PROVE RxAlone'
    <3>1. Stage("free", rx_cnt[t]) => Stage("idle", rx_cnt[t])'
      BY <2>13 DEF U!FreeRing, Stage
    <3>2. Stage("idle", 0)' = Stage("idle", rx_cnt[t])'
      BY DEF Stage
    <3> QED BY <2>13, <3>1, <3>2, RxStep DEF U!FreeRing
  <2>14. ASSUME UNCHANGED <<refcnt, rx_ring, rx_isr, at_rx, rx_cnt, rx_open, collided>>
         PROVE  RxAlone'
    BY <2>14 DEF RxLife, RxAlone, Stage
  <2>15. ASSUME U!Read \/ \E b \in RxBytes : U!Receive(b)
         PROVE  UNCHANGED <<refcnt, rx_ring, rx_isr, at_rx, rx_cnt, rx_open, collided>>
    BY <2>15 DEF U!Read, U!Take, U!Receive, U!life
  <2> QED
    BY <1>2, <2>3, <2>4, <2>5, <2>6, <2>7, <2>8, <2>9, <2>10, <2>11, <2>12, <2>13, <2>14, <2>15
    DEF U!Next
<1> QED BY <1>1, <1>2

\* What the invariants of the receiver promise.
LEMMA RxHolds == RxInv /\ RxLife => U!TypeOK /\ U!ReadsWhatCame /\ U!OpenReceives
<1> SUFFICES ASSUME RxInv, RxLife PROVE U!TypeOK /\ U!ReadsWhatCame /\ U!OpenReceives
  OBVIOUS
<1>1. U!TypeOK
  BY DEF RxInv, RxTypes, RxLife, RxLifeTypes, RxPlaces, U!TypeOK
<1>2. ASSUME overrun = FALSE PROVE (rx_wt = rx_rd) <=> (unread = <<>>)
  <2>1. /\ rx_wt = Place(Len(unread)) /\ Len(unread) < RxSize /\ Len(unread) \in Nat
        /\ rx_rd \in 0..RxSize - 1 /\ RxSize \in Nat /\ unread \in Seq(RxBytes)
    BY <1>2, LineAssumption DEF RxInv, RxTypes, U!Index
  <2>2. (rx_wt = rx_rd) <=> (Len(unread) = 0)
    BY <2>1 DEF Place
  <2>3. (Len(unread) = 0) <=> (unread = <<>>)
    BY <2>1
  <2> QED BY <2>2, <2>3
<1>3. ASSUME ~overrun, ~leftover, ~stray PROVE overrun = FALSE /\ ~misread
  BY <1>3 DEF RxInv, RxTypes
<1>4. U!ReadsWhatCame
  BY <1>2, <1>3 DEF U!ReadsWhatCame
<1>5. ASSUME ~collided
      PROVE  /\ rx_open > 0 => rx_ring /\ rx_isr
             /\ rx_open = 0 /\ (\A t \in Tasks : at_rx[t] = "idle") => ~rx_ring /\ ~rx_isr
  <2>1. RxAlone /\ RxLifeTypes
    BY <1>5 DEF RxLife, RxLifeTypes
  <2>2. CASE (\A t \in Tasks : at_rx[t] = "idle") /\ Stage("idle", 0)
    BY <2>2 DEF Stage
  <2>3. ASSUME NEW t \in Tasks, at_rx[t] # "idle", Stage(at_rx[t], rx_cnt[t])
        PROVE  /\ rx_open > 0 => rx_ring /\ rx_isr
               /\ ~\A u \in Tasks : at_rx[u] = "idle"
    <3>1. at_rx[t] \in RxPlaces
      BY <2>1 DEF RxLifeTypes
    <3>2. at_rx[t] \in {"ring", "hook", "unhook", "free"} => rx_open = 0
      BY <2>3 DEF Stage
    <3>3. at_rx[t] \in {"load", "store", "drop"} => rx_ring /\ rx_isr
      BY <2>3 DEF Stage
    <3>4. rx_open > 0 => rx_ring /\ rx_isr
      BY <2>3, <3>1, <3>2, <3>3 DEF RxPlaces
    <3> QED BY <2>3, <3>4
  <2> QED BY <2>1, <2>2, <2>3 DEF RxAlone
<1> QED BY <1>1, <1>4, <1>5 DEF U!OpenReceives

\* A text of any length goes out whole, through a FIFO of any depth that is never
\* overrun, and the bytes that come are handed out in order
\* (uart.c:306-396, 448-573).
THEOREM SpecLinesWhole == Spec => []LinesWhole
<1>1. Init => TxInv /\ RxInv /\ RxLife
  BY TxInit, RxInit, RxLifeInit DEF Init
<1>2. TxInv /\ RxInv /\ RxLife /\ [Next]_vars => TxInv' /\ RxInv' /\ RxLife'
  BY OneMoves, TxNext, RxNext, RxLifeNext
<1>3. TxInv /\ RxInv /\ RxLife => LinesWhole
  BY TxHolds, RxHolds DEF LinesWhole
<1> QED
  BY <1>1, <1>2, <1>3, PTL DEF Spec

-----------------------------------------------------------------------------
(* Blocks.                                                                 *)

\* What the calls work on: the buffer, the medium and what they should hold.
Wanted == [H!Offsets -> BlockBytes]
Caches ==
  [medium : [H!Sectors -> H!Contents], sector : H!Sectors \cup {-1}, buffer : H!Contents,
   dirty : BOOLEAN, wanted : [H!Sectors -> Wanted], behind : SUBSET H!Offsets,
   spoiled : SUBSET (H!Sectors \X H!Offsets)]

\* The buffer and the medium of c hold what was written (as HoldsWritten says).
HoldsAt(c, s, k) ==
  /\ c.sector = s /\ k \notin c.behind => c.buffer[k] = c.wanted[s][k]
  /\ (c.sector = s /\ c.dirty) \/ <<s, k>> \in c.spoiled \/ c.medium[s][k] = c.wanted[s][k]
HoldsIn(c) == \A s \in H!Sectors, k \in H!Offsets : HoldsAt(c, s, k)

Sound(c) == c \in Caches /\ (c.dirty => c.sector # -1) /\ HoldsIn(c)

\* An erased sector is one, and so is one of which nothing is known.
LEMMA BchBlank ==
  /\ H!Blank \in Wanted /\ Wanted \subseteq H!Contents
  /\ [i \in H!Offsets |-> NULL] \in H!Contents
BY BlockAssumption DEF H!Blank, H!Contents, Wanted

\* (blkcnt_t)-1 is no sector (bchlib_setup.c:117).
LEMMA BchSectors == -1 \notin H!Sectors
BY BlockAssumption DEF H!Sectors

\* A write that fails gives up the sectors it is of, and of the others only such as lie
\* around them (ftl.c:348-372).
LEMMA BchRuin ==
  ASSUME NEW c \in Caches, NEW Z \in SUBSET H!Sectors
  PROVE  LET d == H!Ruin(c, Z)
         IN  /\ d \in Caches
             /\ d.sector = c.sector /\ d.buffer = c.buffer /\ d.dirty = c.dirty
             /\ d.wanted = c.wanted /\ d.behind = c.behind
             /\ \A s \in Z, k \in H!Offsets : <<s, k>> \in d.spoiled
             /\ \A s \in H!Sectors, k \in H!Offsets : <<s, k>> \notin d.spoiled =>
                  <<s, k>> \notin c.spoiled /\ d.medium[s] = c.medium[s]
<1> DEFINE near == H!Around(Z)
           m == [s \in H!Sectors |-> IF s \in near THEN [i \in H!Offsets |-> NULL] ELSE c.medium[s]]
           x == c.spoiled \cup H!Places(near)
           d == [c EXCEPT !.medium = m, !.spoiled = x]
<1>1. H!Ruin(c, Z) = d
  BY DEF H!Ruin
<1>2. near \in SUBSET H!Sectors /\ Z \subseteq near
  BY DEF H!Around
<1> HIDE DEF near
<1>3. c.medium \in [H!Sectors -> H!Contents] /\ c.spoiled \in SUBSET (H!Sectors \X H!Offsets)
  BY DEF Caches
<1>4. m \in [H!Sectors -> H!Contents] /\ x \in SUBSET (H!Sectors \X H!Offsets)
  BY <1>2, <1>3, BchBlank DEF H!Places
<1>5. \A s \in H!Sectors \ near : m[s] = c.medium[s]
  OBVIOUS
<1>6. \A s \in H!Sectors, k \in H!Offsets : <<s, k>> \in x <=> <<s, k>> \in c.spoiled \/ s \in near
  BY DEF H!Places
<1> HIDE DEF m, x
<1>7. /\ d \in Caches /\ d.medium = m /\ d.spoiled = x
      /\ d.sector = c.sector /\ d.buffer = c.buffer /\ d.dirty = c.dirty
      /\ d.wanted = c.wanted /\ d.behind = c.behind
  BY <1>4 DEF Caches
<1> HIDE DEF d
<1> QED BY <1>1, <1>2, <1>5, <1>6, <1>7

\* Whether the write fails or not (bchlib_cache.c:112-151).
LEMMA BchFlush ==
  ASSUME NEW c, Sound(c), NEW fails \in BOOLEAN
  PROVE  /\ Sound(H!Flush(c, fails)) /\ H!Flush(c, fails).dirty = FALSE
         /\ H!Flush(c, fails).sector = c.sector
<1> DEFINE k == [c EXCEPT !.dirty = FALSE]
           r == H!Ruin(k, {c.sector})
<1>0. c \in Caches /\ HoldsIn(c) /\ c.dirty \in BOOLEAN
  BY DEF Sound, Caches
<1>1. CASE ~c.dirty
  BY <1>0, <1>1 DEF H!Flush, Sound
<1>2. CASE c.dirty
  <2>1. c.sector \in H!Sectors
    BY <1>0, <1>2 DEF Caches, Sound
  <2>2. PICK y : y = (c.spoiled \ H!Places({c.sector})) \cup ({c.sector} \X c.behind)
    OBVIOUS
  <2>3. PICK x : x = [c.medium EXCEPT ![c.sector] = c.buffer]
    OBVIOUS
  <2> DEFINE m == [c EXCEPT !.dirty = FALSE, !.medium = x, !.spoiled = y]
  <2>4. H!Flush(c, fails) = IF fails THEN r ELSE m
    BY <1>2, <2>2, <2>3 DEF H!Flush
  <2>5. /\ k \in Caches /\ k.medium = c.medium /\ k.sector = c.sector /\ k.wanted = c.wanted
        /\ k.spoiled = c.spoiled /\ k.buffer = c.buffer /\ k.behind = c.behind /\ k.dirty = FALSE
    BY <1>0 DEF Caches
  <2> HIDE DEF k
  <2>6. /\ r \in Caches /\ r.sector = c.sector /\ r.buffer = c.buffer /\ r.dirty = FALSE
        /\ r.wanted = c.wanted /\ r.behind = c.behind
        /\ \A i \in H!Offsets : <<c.sector, i>> \in r.spoiled
        /\ \A s \in H!Sectors, i \in H!Offsets : <<s, i>> \notin r.spoiled =>
             <<s, i>> \notin c.spoiled /\ r.medium[s] = c.medium[s]
    BY <2>1, <2>5, BchRuin
  <2> HIDE DEF r
  <2>7. HoldsIn(r)
    <3> SUFFICES ASSUME NEW s \in H!Sectors, NEW i \in H!Offsets PROVE HoldsAt(r, s, i)
      BY DEF HoldsIn
    <3>1. HoldsAt(c, s, i)
      BY <1>0 DEF HoldsIn
    <3> QED BY <2>6, <3>1 DEF HoldsAt
  <2>8. c.medium \in [H!Sectors -> H!Contents] /\ c.buffer \in H!Contents
        /\ c.spoiled \in SUBSET (H!Sectors \X H!Offsets) /\ c.behind \in SUBSET H!Offsets
    BY <1>0 DEF Caches
  <2>9. /\ x \in [H!Sectors -> H!Contents] /\ y \in SUBSET (H!Sectors \X H!Offsets)
        /\ x[c.sector] = c.buffer /\ \A s \in H!Sectors \ {c.sector} : x[s] = c.medium[s]
        /\ \A i \in H!Offsets : <<c.sector, i>> \in y <=> i \in c.behind
        /\ \A s \in H!Sectors \ {c.sector}, i \in H!Offsets : <<s, i>> \in y <=> <<s, i>> \in c.spoiled
    BY <2>1, <2>2, <2>3, <2>8 DEF H!Places
  <2>10. /\ m \in Caches /\ m.sector = c.sector /\ m.wanted = c.wanted /\ m.medium = x
         /\ m.spoiled = y /\ m.buffer = c.buffer /\ m.behind = c.behind /\ m.dirty = FALSE
    BY <1>0, <2>9 DEF Caches
  <2> HIDE DEF m
  <2>11. HoldsIn(m)
    <3> SUFFICES ASSUME NEW s \in H!Sectors, NEW i \in H!Offsets PROVE HoldsAt(m, s, i)
      BY DEF HoldsIn
    <3>1. HoldsAt(c, s, i)
      BY <1>0 DEF HoldsIn
    <3>2. CASE s = c.sector
      BY <2>9, <2>10, <3>1, <3>2 DEF HoldsAt
    <3>3. CASE s # c.sector
      BY <2>9, <2>10, <3>1, <3>3 DEF HoldsAt
    <3> QED BY <3>2, <3>3
  <2> QED BY <2>1, <2>4, <2>6, <2>7, <2>10, <2>11 DEF Sound
<1> QED BY <1>1, <1>2

\* Whatever fails, the buffer is that of the sector asked for (bchlib_cache.c:153-191).
LEMMA BchReadSector ==
  ASSUME NEW c, Sound(c), NEW s \in H!Sectors, NEW fails, NEW part
  PROVE  Sound(H!ReadSector(c, s, fails, part)) /\ H!ReadSector(c, s, fails, part).sector = s
<1>1. CASE c.sector = s
  BY <1>1 DEF H!ReadSector
<1>2. CASE c.sector # s
  <2> DEFINE f == H!Flush(c, fails = "flush")
  <2>1. f \in Caches /\ HoldsIn(f) /\ f.dirty = FALSE
    BY BchFlush, (fails = "flush") \in BOOLEAN DEF Sound
  <2>2. PICK z : z = [i \in H!Offsets |-> NULL]
    OBVIOUS
  <2>3. PICK b : b = {k \in H!Offsets : <<s, k>> \in f.spoiled}
    OBVIOUS
  <2> DEFINE g == [f EXCEPT !.sector = s, !.buffer = z, !.behind = H!Offsets]
             h == [f EXCEPT !.sector = s, !.buffer = f.medium[s], !.behind = b]
  <2>4. H!ReadSector(c, s, fails, part) = IF fails = part THEN g ELSE h
    BY <1>2, <2>2, <2>3 DEF H!ReadSector
  <2> HIDE DEF f
  <2>5. z \in H!Contents /\ b \in SUBSET H!Offsets /\ f.medium[s] \in H!Contents
    BY <2>1, <2>2, <2>3, BchBlank DEF Caches
  <2>6. /\ g \in Caches /\ g.medium = f.medium /\ g.sector = s /\ g.wanted = f.wanted
        /\ g.spoiled = f.spoiled /\ g.dirty = FALSE /\ g.behind = H!Offsets
    BY <2>1, <2>5 DEF Caches
  <2>7. /\ h \in Caches /\ h.medium = f.medium /\ h.sector = s /\ h.wanted = f.wanted
        /\ h.spoiled = f.spoiled /\ h.dirty = FALSE /\ h.buffer = f.medium[s] /\ h.behind = b
    BY <2>1, <2>5 DEF Caches
  <2> HIDE DEF g, h
  <2>8. HoldsIn(g) /\ HoldsIn(h)
    <3> SUFFICES ASSUME NEW t \in H!Sectors, NEW i \in H!Offsets
                 PROVE  HoldsAt(g, t, i) /\ HoldsAt(h, t, i)
      BY DEF HoldsIn
    <3>1. HoldsAt(f, t, i)
      BY <2>1 DEF HoldsIn
    <3> QED BY <2>1, <2>3, <2>6, <2>7, <3>1 DEF HoldsAt
  <2> QED BY <2>4, <2>6, <2>7, <2>8 DEF Sound
<1> QED BY <1>1, <1>2

\* A part of a sector (bchlib_write.c:89-121, 157-180).
LEMMA BchWritePart ==
  ASSUME NEW c, Sound(c), NEW s \in H!Sectors, NEW i \in Int, NEW j \in Int,
         NEW v \in BlockBytes, NEW fails, NEW part
  PROVE  Sound(H!WritePart(c, s, i, j, v, fails, part))
<1> DEFINE r == H!ReadSector(c, s, fails, part)
           b == H!Put(r.buffer, i, j, v)
           x == [r.wanted EXCEPT ![s] = H!Put(r.wanted[s], i, j, v)]
           h == r.behind \ (i..j - 1)
           w == [r EXCEPT !.buffer = b, !.dirty = TRUE, !.wanted = x, !.behind = h]
<1>1. r \in Caches /\ HoldsIn(r) /\ r.sector = s
  BY BchReadSector DEF Sound
<1>2. H!WritePart(c, s, i, j, v, fails, part) = w
  BY DEF H!WritePart
<1> HIDE DEF r
<1>3. r.buffer \in H!Contents /\ r.wanted \in [H!Sectors -> Wanted] /\ r.behind \in SUBSET H!Offsets
  BY <1>1 DEF Caches
<1>4. b \in H!Contents /\ \A k \in H!Offsets : b[k] = IF i <= k /\ k < j THEN v ELSE r.buffer[k]
  BY <1>3 DEF H!Put, H!Contents
<1>5. PICK p : p = H!Put(r.wanted[s], i, j, v)
  OBVIOUS
<1>6. p \in Wanted /\ \A k \in H!Offsets : p[k] = IF i <= k /\ k < j THEN v ELSE r.wanted[s][k]
  <2>1. r.wanted[s] \in Wanted
    BY <1>3
  <2> QED BY <1>5, <2>1 DEF H!Put, Wanted
<1>7. /\ x \in [H!Sectors -> Wanted] /\ x[s] = p
      /\ \A t \in H!Sectors \ {s} : x[t] = r.wanted[t]
  BY <1>3, <1>5, <1>6
<1>8. h \in SUBSET H!Offsets /\ \A k \in H!Offsets : k \notin h => k \notin r.behind \/ k \in i..j - 1
  BY <1>3
<1> HIDE DEF b, x, h
<1>9. /\ w \in Caches /\ w.medium = r.medium /\ w.sector = s /\ w.buffer = b /\ w.dirty = TRUE
      /\ w.spoiled = r.spoiled /\ w.wanted = x /\ w.behind = h
  BY <1>1, <1>4, <1>7, <1>8 DEF Caches
<1> HIDE DEF w
<1>10. HoldsIn(w)
  <2> SUFFICES ASSUME NEW t \in H!Sectors, NEW k \in H!Offsets PROVE HoldsAt(w, t, k)
    BY DEF HoldsIn
  <2>1. HoldsAt(r, t, k)
    BY <1>1 DEF HoldsIn
  <2>2. CASE t = s
    <3>1. k \in i..j - 1 => i <= k /\ k < j
      OBVIOUS
    <3>2. b[k] = p[k] \/ (b[k] = r.buffer[k] /\ p[k] = r.wanted[s][k] /\ ~(i <= k /\ k < j))
      BY <1>4, <1>6
    <3>3. k \notin h => b[k] = p[k]
      BY <1>1, <1>8, <2>1, <2>2, <3>1, <3>2 DEF HoldsAt
    <3> QED BY <1>7, <1>9, <2>2, <3>3 DEF HoldsAt
  <2>3. CASE t # s
    BY <1>1, <1>7, <1>9, <2>1, <2>3 DEF HoldsAt
  <2> QED BY <2>2, <2>3
<1> QED BY <1>2, <1>9, <1>10, BchSectors DEF Sound

\* Whole sectors go past the buffer, and what of them it holds is behind
\* (bchlib_write.c:123-155).
LEMMA BchWriteWhole ==
  ASSUME NEW c, Sound(c), c.dirty = FALSE, NEW s, NEW e, s..e-1 \subseteq H!Sectors,
         NEW v \in BlockBytes
  PROVE  Sound(H!WriteWhole(c, s, e, v))
<1> DEFINE Z == s..e - 1
           whole == [i \in H!Offsets |-> v]
           Over(m) == [t \in H!Sectors |-> IF t \in Z THEN whole ELSE m[t]]
           x == Over(c.medium)
           y == Over(c.wanted)
           q == c.spoiled \ H!Places(Z)
           h == IF c.sector \in Z THEN H!Offsets ELSE c.behind
           w == [c EXCEPT !.medium = x, !.wanted = y, !.spoiled = q, !.behind = h]
<1>1. H!WriteWhole(c, s, e, v) = w
  BY DEF H!WriteWhole
<1>2. c \in Caches /\ HoldsIn(c)
  BY DEF Sound
<1> HIDE DEF Z
<1>3. /\ c.medium \in [H!Sectors -> H!Contents] /\ c.wanted \in [H!Sectors -> Wanted]
      /\ c.spoiled \in SUBSET (H!Sectors \X H!Offsets) /\ c.behind \in SUBSET H!Offsets
  BY <1>2 DEF Caches
<1>4. whole \in H!Contents /\ whole \in Wanted
  BY DEF H!Contents, Wanted
<1> HIDE DEF whole
<1>5. x \in [H!Sectors -> H!Contents] /\ y \in [H!Sectors -> Wanted]
  BY <1>3, <1>4
<1>6. \A t \in H!Sectors : /\ x[t] = IF t \in Z THEN whole ELSE c.medium[t]
                          /\ y[t] = IF t \in Z THEN whole ELSE c.wanted[t]
  OBVIOUS
<1>7. /\ q \in SUBSET (H!Sectors \X H!Offsets) /\ h \in SUBSET H!Offsets
      /\ \A t \in H!Sectors, k \in H!Offsets : t \notin Z => (<<t, k>> \in q <=> <<t, k>> \in c.spoiled)
      /\ c.sector \in Z => h = H!Offsets
      /\ c.sector \notin Z => h = c.behind
  BY <1>3 DEF H!Places
<1> HIDE DEF x, y, q, h
<1>8. /\ w \in Caches /\ w.medium = x /\ w.sector = c.sector /\ w.buffer = c.buffer
      /\ w.dirty = FALSE /\ w.spoiled = q /\ w.wanted = y /\ w.behind = h
  BY <1>2, <1>5, <1>7 DEF Caches
<1> HIDE DEF w
<1>9. HoldsIn(w)
  <2> SUFFICES ASSUME NEW t \in H!Sectors, NEW k \in H!Offsets PROVE HoldsAt(w, t, k)
    BY DEF HoldsIn
  <2>1. HoldsAt(c, t, k)
    BY <1>2 DEF HoldsIn
  <2>2. CASE t \in Z
    BY <1>6, <1>7, <1>8, <2>2 DEF HoldsAt
  <2>3. CASE t \notin Z
    BY <1>6, <1>7, <1>8, <2>1, <2>3 DEF HoldsAt
  <2> QED BY <2>2, <2>3
<1> QED BY <1>1, <1>8, <1>9 DEF Sound

\* And if they cannot be written they are given up (bchlib_write.c:146-152).
LEMMA BchRuined ==
  ASSUME NEW c, Sound(c), c.dirty = FALSE, NEW Z \in SUBSET H!Sectors
  PROVE  Sound(H!Ruin(c, Z))
<1> DEFINE d == H!Ruin(c, Z)
<1>1. c \in Caches /\ HoldsIn(c)
  BY DEF Sound
<1>2. /\ d \in Caches /\ d.sector = c.sector /\ d.buffer = c.buffer /\ d.dirty = FALSE
      /\ d.wanted = c.wanted /\ d.behind = c.behind
      /\ \A s \in H!Sectors, k \in H!Offsets : <<s, k>> \notin d.spoiled =>
           <<s, k>> \notin c.spoiled /\ d.medium[s] = c.medium[s]
  BY <1>1, BchRuin
<1> HIDE DEF d
<1>3. HoldsIn(d)
  <2> SUFFICES ASSUME NEW s \in H!Sectors, NEW i \in H!Offsets PROVE HoldsAt(d, s, i)
    BY DEF HoldsIn
  <2>1. HoldsAt(c, s, i)
    BY <1>1 DEF HoldsIn
  <2> QED BY <1>2, <2>1 DEF HoldsAt
<1> QED BY <1>2, <1>3 DEF Sound, d

\* How a number is cut by a divisor.
LEMMA Divides ==
  ASSUME NEW n \in Nat, NEW d \in Nat \ {0}
  PROVE  /\ n \div d \in Nat /\ n % d \in 0..d-1 /\ n = d * (n \div d) + (n % d)
OBVIOUS

\* And less than k times the divisor it goes less than k times.
LEMMA DividesBelow ==
  ASSUME NEW n \in Nat, NEW d \in Nat \ {0}, NEW k \in Nat, n < k * d
  PROVE  n \div d < k
<1> DEFINE q == n \div d
           r == n % d
<1>1. q \in Nat /\ r \in Nat /\ n = d * q + r
  BY Divides
<1> HIDE DEF q, r
<1>2. ASSUME q >= k PROVE FALSE
  <2>1. PICK x \in Nat : q = k + x
    <3>1. q - k \in Nat /\ q = k + (q - k)
      BY <1>1, <1>2
    <3> QED BY <3>1
  <2>2. d * q = d * k + d * x
    BY <2>1
  <2>3. d * x \in Nat /\ d * k = k * d /\ d * k \in Nat
    BY <2>1
  <2>4. n >= k * d
    BY <1>1, <2>2, <2>3
  <2> QED BY <2>3, <2>4
<1> QED BY <1>1, <1>2 DEF q

\* No piece of a request lies outside the device (bchlib_read.c:83-170,
\* bchlib_write.c:71-157).
LEMMA BchPieces ==
  ASSUME NEW r \in H!Requests
  PROVE  LET p == H!Pieces(r[1], r[2])
         IN  /\ p.head # 0 => p.first - 1 \in H!Sectors
             /\ p.head > 0 <=> p.head # 0
             /\ p.first..p.end - 1 \subseteq H!Sectors
             /\ p.tail # 0 => p.end \in H!Sectors /\ p.end \notin p.first..p.end-1
             /\ p.tail > 0 <=> p.tail # 0
             /\ p.at \in Int /\ p.at + p.head \in Int /\ p.tail \in Int
             /\ p.head # 0 => 0 <= p.at /\ p.at + p.head <= SectSize
             /\ p.tail # 0 => p.tail <= SectSize
<1> DEFINE o == r[1]
           n == r[2]
           off == o % SectSize
           head == IF off > 0 THEN H!Smaller(SectSize - off, n) ELSE 0
           s == o \div SectSize + (IF off > 0 THEN 1 ELSE 0)
           e == H!Smaller(s + (n - head) \div SectSize, NSectors)
           tail == IF e >= NSectors THEN 0 ELSE n - head - (e - s) * SectSize
<1>1. o \in Nat /\ n \in Nat /\ n >= 1 /\ o < NSectors * SectSize
  <2>1. NSectors * SectSize \in Nat
    BY BlockAssumption
  <2>2. r \in (0..NSectors * SectSize - 1) \X (1..NSectors * SectSize)
    BY DEF H!Requests
  <2> QED BY <2>1, <2>2
<1>2. /\ H!Pieces(o, n).head = head /\ H!Pieces(o, n).first = s /\ H!Pieces(o, n).end = e
      /\ H!Pieces(o, n).tail = tail /\ H!Pieces(o, n).at = off
  BY DEF H!Pieces
<1>3. off \in 0..SectSize - 1 /\ o \div SectSize \in Nat /\ o = SectSize * (o \div SectSize) + off
  BY <1>1, BlockAssumption, Divides
<1>4. o \div SectSize < NSectors
  BY <1>1, BlockAssumption, DividesBelow
<1> HIDE DEF off
<1>5. head \in Nat /\ head <= n /\ (head # 0 <=> off > 0)
  BY <1>1, <1>3, BlockAssumption DEF H!Smaller
<1>15. head # 0 => head <= SectSize - off
  BY <1>1, <1>3, BlockAssumption DEF H!Smaller
<1>6. s \in Nat /\ (off > 0 => s - 1 = o \div SectSize)
  BY <1>3
<1>7. (n - head) \div SectSize \in Nat
  <2> HIDE DEF head
  <2>1. n - head \in Nat
    BY <1>1, <1>5
  <2> QED BY <2>1, Divides, BlockAssumption
<1> HIDE DEF s, head
<1>8. e \in Nat /\ e <= NSectors
  BY <1>6, <1>7, BlockAssumption DEF H!Smaller
<1>9. ASSUME tail # 0
      PROVE  e \in H!Sectors
  BY <1>8, <1>9, BlockAssumption DEF H!Sectors
<1>10. tail \in Nat /\ tail <= SectSize
  <2>1. CASE e >= NSectors
    BY <2>1, BlockAssumption
  <2>2. CASE ~(e >= NSectors)
    <3> DEFINE m == n - head
               q == m \div SectSize
    <3>1. m \in Nat /\ e = s + q /\ q \in Nat
      BY <1>1, <1>5, <1>6, <1>7, <2>2, BlockAssumption DEF H!Smaller
    <3>7. m \in Nat
      BY <3>1
    <3>2. m = SectSize * q + (m % SectSize) /\ m % SectSize \in Nat /\ m % SectSize <= SectSize
      <4> HIDE DEF m, e, tail, head
      <4>1. m % SectSize \in 0..SectSize - 1 /\ m = SectSize * (m \div SectSize) + (m % SectSize)
        BY <3>7, Divides, BlockAssumption
      <4> QED BY <4>1, BlockAssumption
    <3>3. tail = m - (e - s) * SectSize /\ e - s = q
      BY <2>2, <3>1, <1>6, <1>8, BlockAssumption
    <3> HIDE DEF q, m, e, tail
    <3>4. tail = m - q * SectSize
      BY <3>3
    <3>5. q * SectSize = SectSize * q /\ q * SectSize \in Nat
      BY <3>1, BlockAssumption
    <3>6. \A a, b, c \in Nat : a = b + c => a - b = c
      OBVIOUS
    <3> QED BY <3>1, <3>2, <3>4, <3>5, <3>6
  <2> QED BY <2>1, <2>2
<1> HIDE DEF tail
<1>11. s..e - 1 \subseteq H!Sectors
  BY <1>6, <1>8, BlockAssumption DEF H!Sectors
<1>12. e \notin s..e-1
  BY <1>6, <1>8
<1>13. head # 0 => s - 1 \in H!Sectors
  BY <1>3, <1>4, <1>5, <1>6, BlockAssumption DEF H!Sectors
<1>14. off \in Int /\ off + head \in Int /\ 0 <= off /\ (head # 0 => off + head <= SectSize)
  BY <1>1, <1>3, <1>5, <1>15, BlockAssumption
<1> HIDE DEF e
<1> QED BY <1>2, <1>5, <1>9, <1>10, <1>11, <1>12, <1>13, <1>14

BchInv ==
  /\ Sound(H!Cache)
  /\ refs \in 0..MaxFiles /\ unlinked \in BOOLEAN /\ there \in BOOLEAN
  /\ refs = 0 => dirty = FALSE
  /\ there = FALSE => refs = 0

\* What is copied out of the buffer is right (bchlib_read.c:100-126, 166-180).
LEMMA BchRightPart ==
  ASSUME NEW c, Sound(c), c.sector \in H!Sectors, NEW i \in Int, NEW j \in Int,
         0 <= i, j <= SectSize
  PROVE  H!RightPart(c, i, j)
<1> SUFFICES ASSUME NEW k \in (i..j - 1) \ c.behind PROVE c.buffer[k] = c.wanted[c.sector][k]
  BY DEF H!RightPart
<1>1. k \in H!Offsets
  BY BlockAssumption DEF H!Offsets
<1> QED BY <1>1 DEF Sound, HoldsIn, HoldsAt

\* What a call leaves is what the caches of the record say, but for what should be at
\* places that are right nowhere.
LEMMA BchBecome ==
  ASSUME NEW c, Sound(c), H!Become(c)
  PROVE  Sound(H!Cache)' /\ dirty' = c.dirty
<1>1. /\ c \in Caches /\ (c.dirty => c.sector # -1) /\ HoldsIn(c)
  BY DEF Sound
<1>2. PICK x : x = H!StillWanted(c)
  OBVIOUS
<1>3. /\ H!Cache'.medium = c.medium /\ H!Cache'.sector = c.sector /\ H!Cache'.buffer = c.buffer
      /\ H!Cache'.dirty = c.dirty /\ H!Cache'.wanted = x /\ H!Cache'.spoiled = c.spoiled
      /\ H!Cache'.behind = c.behind /\ dirty' = c.dirty
  BY <1>2 DEF H!Become, H!Cache
<1>4. /\ x \in [H!Sectors -> Wanted]
      /\ \A s \in H!Sectors, k \in H!Offsets :
           \/ x[s][k] = c.wanted[s][k]
           \/ <<s, k>> \in c.spoiled /\ (c.sector # s \/ k \in c.behind)
  <2>1. c.wanted \in [H!Sectors -> Wanted]
    BY <1>1 DEF Caches
  <2>2. ASSUME NEW s \in H!Sectors, NEW k \in H!Offsets
        PROVE  H!Blank[k] \in BlockBytes /\ c.wanted[s][k] \in BlockBytes
    BY <2>1, BchBlank DEF Wanted
  <2> QED BY <1>2, <2>2 DEF H!StillWanted, Wanted
<1>5. H!Cache' \in Caches
  <2>1. /\ c.medium \in [H!Sectors -> H!Contents] /\ c.sector \in H!Sectors \cup {-1}
        /\ c.buffer \in H!Contents /\ c.dirty \in BOOLEAN /\ c.behind \in SUBSET H!Offsets
        /\ c.spoiled \in SUBSET (H!Sectors \X H!Offsets)
    BY <1>1 DEF Caches
  <2>2. H!Cache' = [medium |-> c.medium, sector |-> c.sector, buffer |-> c.buffer,
                    dirty |-> c.dirty, wanted |-> x, behind |-> c.behind, spoiled |-> c.spoiled]
    BY <1>2 DEF H!Become, H!Cache
  <2> QED BY <1>4, <2>1, <2>2 DEF Caches
<1>6. HoldsIn(H!Cache')
  <2> SUFFICES ASSUME NEW s \in H!Sectors, NEW k \in H!Offsets PROVE HoldsAt(H!Cache', s, k)
    BY DEF HoldsIn
  <2>1. HoldsAt(c, s, k)
    BY <1>1 DEF HoldsIn
  <2> QED BY <1>3, <1>4, <2>1 DEF HoldsAt
<1> QED BY <1>1, <1>3, <1>5, <1>6 DEF Sound

\* A write of any length at any offset, whichever access fails (bchlib_write.c:58-188).
LEMMA BchWrite ==
  ASSUME BchInv, H!Write
  PROVE  BchInv'
<1>0. UNCHANGED <<refs, unlinked, there>> /\ refs > 0
  BY DEF H!Write, H!life
<1>1. PICK r \in H!Requests :
        \E x \in {H!Written(H!Pieces(r[1], r[2]), v, fails) :
                    v \in BlockBytes, fails \in H!Failures(H!Pieces(r[1], r[2]))} :
          H!Become(x)
  BY DEF H!Write
<1>8. PICK v \in BlockBytes, fails \in H!Failures(H!Pieces(r[1], r[2])) :
        H!Become(H!Written(H!Pieces(r[1], r[2]), v, fails))
  BY <1>1
<1> DEFINE p == H!Pieces(r[1], r[2])
           c == H!HeadWritten(p, v, fails)
           f == H!Flush(c, fails = "flush")
           w == H!WholeWritten(p, c, v, fails)
<1>2. /\ p.head # 0 => p.first - 1 \in H!Sectors
      /\ p.first..p.end - 1 \subseteq H!Sectors
      /\ p.tail # 0 => p.end \in H!Sectors
      /\ p.at \in Int /\ p.at + p.head \in Int /\ p.tail \in Int
  BY BchPieces
<1> HIDE DEF p
<1>3. Sound(c)
  BY <1>2, BchWritePart DEF BchInv, H!HeadWritten
<1> HIDE DEF c
<1>4. Sound(f) /\ f.dirty = FALSE
  BY <1>3, BchFlush, (fails = "flush") \in BOOLEAN
<1>5. Sound(w)
  <2>1. w \in {c, f, H!WriteWhole(f, p.first, p.end, v), H!Ruin(f, p.first..p.end - 1)}
    BY DEF H!WholeWritten
  <2> HIDE DEF f, w
  <2>2. Sound(H!WriteWhole(f, p.first, p.end, v))
    BY <1>2, <1>4, BchWriteWhole
  <2>3. Sound(H!Ruin(f, p.first..p.end - 1))
    BY <1>2, <1>4, BchRuined
  <2> QED BY <1>3, <1>4, <2>1, <2>2, <2>3
<1>6. Sound(H!Written(p, v, fails))
  <2>1. H!Written(p, v, fails) =
          IF p.tail = 0 \/ H!WholeFails(p, c, fails) THEN w
          ELSE H!WritePart(w, p.end, 0, p.tail, v, fails, "tail")
    BY DEF H!Written, c
  <2> HIDE DEF w
  <2> QED BY <1>2, <1>5, <2>1, BchWritePart
<1>7. Sound(H!Cache)' /\ refs # 0
  BY <1>0, <1>6, <1>8, BchBecome DEF p
<1> QED BY <1>0, <1>7 DEF BchInv

\* What a read of any length at any offset finds, whichever access fails, is right
\* (bchlib_read.c:71-190).
LEMMA BchReads ==
  ASSUME Sound(H!Cache), NEW r \in H!Requests, NEW fails,
         NEW p, p = H!Pieces(r[1], r[2])
  PROVE  LET c == H!HeadRead(p, fails)
             d == H!TailRead(p, fails)
         IN  /\ Sound(d)
             /\ p.head > 0 => H!RightPart(c, p.at, p.at + p.head)
             /\ H!RightWhole(c, (p.first..p.end - 1) \ H!Past(p, c))
             /\ p.tail > 0 /\ ~H!ReadFails(p, fails) => H!RightPart(d, 0, p.tail)
<1> DEFINE c == H!HeadRead(p, fails)
           d == H!TailRead(p, fails)
<1>3. /\ p.head # 0 => p.first - 1 \in H!Sectors
      /\ p.head > 0 <=> p.head # 0
      /\ p.first..p.end - 1 \subseteq H!Sectors
      /\ p.tail # 0 => p.end \in H!Sectors
      /\ p.tail > 0 <=> p.tail # 0
      /\ p.at \in Int /\ p.at + p.head \in Int /\ p.tail \in Int
      /\ p.head # 0 => 0 <= p.at /\ p.at + p.head <= SectSize
      /\ p.tail # 0 => p.tail <= SectSize
  BY BchPieces
<1>4. Sound(c) /\ (p.head # 0 => c.sector = p.first - 1)
  BY <1>3, BchReadSector DEF H!HeadRead
<1>5. d = IF p.tail = 0 \/ H!ReadFails(p, fails) THEN c
          ELSE H!ReadSector(c, p.end, fails, "tail")
  BY DEF H!TailRead
<1> HIDE DEF c, d
<1>6. Sound(d) /\ (p.tail # 0 /\ ~H!ReadFails(p, fails) => d.sector = p.end)
  BY <1>3, <1>4, <1>5, BchReadSector
<1>7. /\ p.head # 0 => H!RightPart(c, p.at, p.at + p.head)
      /\ p.tail # 0 /\ ~H!ReadFails(p, fails) => H!RightPart(d, 0, p.tail)
  BY <1>3, <1>4, <1>6, BchRightPart
<1>8. H!RightWhole(c, (p.first..p.end - 1) \ H!Past(p, c))
  <2>1. ASSUME NEW s \in (p.first..p.end - 1) \ H!Past(p, c), NEW k \in H!Offsets,
               <<s, k>> \notin c.spoiled
        PROVE  c.medium[s][k] = c.wanted[s][k]
    <3>1. s \in H!Sectors /\ ~(c.sector = s /\ c.dirty)
      BY <1>3, <2>1 DEF H!Past
    <3> QED BY <1>4, <2>1, <3>1 DEF Sound, HoldsIn, HoldsAt
  <2> QED BY <2>1 DEF H!RightWhole
<1> QED BY <1>3, <1>6, <1>7, <1>8 DEF c, d

\* A read leaves the buffer and the medium so.
LEMMA BchRead ==
  ASSUME BchInv, H!Read
  PROVE  BchInv'
<1>0. UNCHANGED <<refs, unlinked, there>> /\ refs > 0
  BY DEF H!Read, H!life
<1>1. PICK r \in H!Requests :
        \E x \in {H!TailRead(H!Pieces(r[1], r[2]), fails) :
                    fails \in H!Failures(H!Pieces(r[1], r[2]))} :
          H!Become(x)
  BY DEF H!Read
<1>2. PICK fails \in H!Failures(H!Pieces(r[1], r[2])) :
        H!Become(H!TailRead(H!Pieces(r[1], r[2]), fails))
  BY <1>1
<1>3. Sound(H!TailRead(H!Pieces(r[1], r[2]), fails))
  BY BchReads DEF BchInv
<1>4. Sound(H!Cache)' /\ refs # 0
  BY <1>0, <1>2, <1>3, BchBecome
<1> QED BY <1>0, <1>4 DEF BchInv

\* bchdev_driver.c:120-271.
LEMMA BchLife ==
  ASSUME BchInv, H!Setup \/ H!Open \/ H!Close \/ H!Unlink
  PROVE  BchInv'
<1> USE DEF H!cache
<1>0. Sound(H!Cache) /\ refs \in 0..MaxFiles /\ MaxFiles \in Nat
  BY BlockAssumption DEF BchInv
<1>1. ASSUME UNCHANGED H!cache PROVE Sound(H!Cache)' /\ dirty' = dirty
  BY <1>0, <1>1 DEF H!Cache
<1>2. ASSUME NEW fails \in BOOLEAN, H!Become(H!Flush(H!Cache, fails))
      PROVE  Sound(H!Cache)' /\ dirty' = FALSE
  BY <1>0, <1>2, BchFlush, BchBecome
<1>3. CASE H!Setup
  <2> DEFINE k == H!Cache'
  <2>0. H!Cache \in Caches /\ HoldsIn(H!Cache)
    BY <1>0 DEF Sound
  <2>1. dirty = FALSE /\ refs' = 0 /\ dirty' = FALSE /\ sector' = -1
    BY <1>3 DEF BchInv, H!Setup
  <2>2. /\ H!Cache.medium = medium /\ H!Cache.sector = sector /\ H!Cache.buffer = buffer
        /\ H!Cache.dirty = dirty /\ H!Cache.wanted = wanted /\ H!Cache.spoiled = spoiled
        /\ H!Cache.behind = behind
    BY DEF H!Cache
  <2>3. /\ k.medium = medium /\ k.sector = -1 /\ k.buffer = [i \in H!Offsets |-> NULL]
        /\ k.dirty = FALSE /\ k.wanted = wanted /\ k.spoiled = spoiled /\ k.behind = {}
    BY <1>3, <2>1 DEF H!Cache, H!Setup
  <2>4. k \in Caches
    BY <1>3, <2>0, <2>1, <2>2, BchBlank DEF Caches, H!Cache, H!Setup
  <2> HIDE DEF k
  <2>5. HoldsIn(k)
    <3> SUFFICES ASSUME NEW s \in H!Sectors, NEW i \in H!Offsets PROVE HoldsAt(k, s, i)
      BY DEF HoldsIn
    <3>1. HoldsAt(H!Cache, s, i)
      BY <2>0 DEF HoldsIn
    <3> QED BY <2>1, <2>2, <2>3, <3>1, BchSectors DEF HoldsAt
  <2>6. Sound(k)
    BY <2>3, <2>4, <2>5 DEF Sound
  <2> QED BY <1>0, <1>3, <2>1, <2>6 DEF BchInv, H!Setup, k
<1>4. CASE H!Open
  BY <1>0, <1>1, <1>4 DEF BchInv, H!Open
<1>5. CASE H!Close
  <2>1. PICK fails \in {FALSE, MayFail} : H!Become(H!Flush(H!Cache, fails))
    BY <1>5 DEF H!Close
  <2>2. Sound(H!Cache)' /\ dirty' = FALSE
    BY <1>2, <2>1, BlockAssumption
  <2> QED BY <1>0, <1>5, <2>2 DEF BchInv, H!Close
<1>6. CASE H!Unlink
  <2>1. CASE refs = 0
    <3>1. PICK fails \in {FALSE, MayFail} : H!Become(H!Flush(H!Cache, fails))
      BY <1>6, <2>1 DEF H!Unlink
    <3>2. Sound(H!Cache)' /\ dirty' = FALSE
      BY <1>2, <3>1, BlockAssumption
    <3> QED BY <1>0, <1>6, <2>1, <3>2 DEF BchInv, H!Unlink
  <2>2. CASE refs # 0
    <3>0. there' = (refs > 0) /\ unlinked' = TRUE /\ UNCHANGED refs /\ UNCHANGED H!cache
      BY <1>6, <2>2 DEF H!Unlink
    <3>1. (refs > 0) = TRUE
      BY <1>0, <2>2
    <3> QED BY <1>1, <2>2, <3>0, <3>1 DEF BchInv
  <2> QED BY <2>1, <2>2
<1> QED BY <1>3, <1>4, <1>5, <1>6

\* A device that was set up has nothing in its buffer (bchlib_setup.c:71-131).
LEMMA BchInit == H!Init => BchInv
<1> SUFFICES ASSUME H!Init PROVE BchInv
  OBVIOUS
<1>1. /\ medium = [s \in H!Sectors |-> H!Blank] /\ wanted = medium /\ sector = -1
      /\ dirty = FALSE /\ buffer = H!Blank /\ behind = {} /\ spoiled = {}
  BY DEF H!Init
<1>2. H!Cache \in Caches
  BY <1>1, BchBlank DEF Caches, H!Cache
<1>3. HoldsIn(H!Cache)
  BY <1>1, BchSectors DEF HoldsIn, HoldsAt, H!Cache
<1>4. Sound(H!Cache)
  BY <1>1, <1>2, <1>3 DEF Sound, H!Cache
<1>5. refs = 0 /\ unlinked = FALSE /\ there = FALSE
  BY DEF H!Init
<1>6. 0 \in 0..MaxFiles
  BY BlockAssumption
<1> QED BY <1>1, <1>4, <1>5, <1>6 DEF BchInv

\* Every call keeps buffer and medium together what was written.
LEMMA BchNext == BchInv /\ [H!Next]_BchVars => BchInv'
<1> SUFFICES ASSUME BchInv, [H!Next]_BchVars PROVE BchInv'
  OBVIOUS
<1>1. CASE UNCHANGED BchVars
  <2>1. H!Cache' = H!Cache /\ UNCHANGED <<refs, unlinked, there, dirty>>
    BY <1>1 DEF BchVars, H!Cache
  <2> QED BY <2>1 DEF BchInv
<1> QED BY <1>1, BchLife, BchWrite, BchRead DEF H!Next

\* What the invariant of the block cache promises.
LEMMA BchHolds ==
  BchInv => H!TypeOK /\ H!HoldsWritten /\ H!ClosedIsWritten /\ H!ReadsWritten
<1> SUFFICES ASSUME BchInv PROVE H!TypeOK /\ H!HoldsWritten /\ H!ClosedIsWritten /\ H!ReadsWritten
  OBVIOUS
<1>1. H!Cache \in Caches /\ HoldsIn(H!Cache)
  BY DEF BchInv, Sound
<1>2. /\ H!Cache.medium = medium /\ H!Cache.sector = sector /\ H!Cache.buffer = buffer
      /\ H!Cache.dirty = dirty /\ H!Cache.wanted = wanted /\ H!Cache.spoiled = spoiled
      /\ H!Cache.behind = behind
  BY DEF H!Cache
<1>3. H!HoldsWritten
  BY <1>1, <1>2 DEF HoldsIn, HoldsAt, H!HoldsWritten
<1>4. H!TypeOK
  BY <1>1, <1>2 DEF Caches, Wanted, H!TypeOK, BchInv
<1>5. H!ClosedIsWritten
  <2> SUFFICES ASSUME refs = 0, NEW s \in H!Sectors, NEW k \in H!Offsets, <<s, k>> \notin spoiled
               PROVE  medium[s][k] = wanted[s][k]
    BY <1>2 DEF H!ClosedIsWritten, H!RightWhole
  <2> QED BY <1>3 DEF BchInv, H!HoldsWritten
<1>6. H!ReadsWritten
  <2> SUFFICES ASSUME NEW r \in H!Requests, NEW fails,
                      NEW p, p = H!Pieces(r[1], r[2])
               PROVE  /\ p.head > 0 =>
                           H!RightPart(H!HeadRead(p, fails), p.at, p.at + p.head)
                      /\ ~H!ReadFails(p, fails) =>
                           H!RightWhole(H!HeadRead(p, fails),
                             (p.first..p.end - 1) \ H!Past(p, H!HeadRead(p, fails)))
                      /\ p.tail > 0 /\ ~H!ReadFails(p, fails) =>
                           H!RightPart(H!TailRead(p, fails), 0, p.tail)
    BY DEF H!ReadsWritten
  <2> QED BY BchReads DEF BchInv
<1> QED BY <1>3, <1>4, <1>5, <1>6

\* The call under way has come to current, and source with it.
Underway ==
  phase # "idle" =>
    /\ startblock + nblocks <= L!Size /\ current + remaining = startblock + nblocks
    /\ startblock <= current /\ source = current - startblock
    /\ phase \in {"erase", "write"} => remaining > 0

\* The erase block in memory is the one of the flash, when it is to be written again.
Buffered ==
  phase = "erase" \/ (phase = "write" /\ L!Partial) =>
    \A i \in L!Offsets :
      L!First(current) + i \notin wiped =>
        eblock[i] = [of |-> L!First(current) + i, new |-> L!First(current) + i \in L!Passed]

FtlInv == L!TypeOK /\ Underway /\ Buffered /\ L!NeighboursKept

\* The erase blocks cut the device whole.
LEMMA FtlBlocks ==
  /\ L!Size \in Nat \ {0} /\ 0 \in L!Blocks
  /\ \A b \in L!Blocks :
       /\ L!First(b) \in Nat /\ b % Per \in L!Offsets /\ L!First(b) + (b % Per) = b
       /\ L!EraseBlock(b) \subseteq L!Blocks
<1>1. L!Size \in Nat \ {0} /\ 0 \in L!Blocks
  BY FlashAssumption DEF L!Size, L!Blocks
<1>2. ASSUME NEW b \in L!Blocks
      PROVE  /\ L!First(b) \in Nat /\ b % Per \in L!Offsets /\ L!First(b) + (b % Per) = b
             /\ L!EraseBlock(b) \subseteq L!Blocks
  <2> DEFINE q == b \div Per
             r == b % Per
  <2>1. b \in Nat /\ b < NErase * Per
    BY <1>1, FlashAssumption DEF L!Blocks, L!Size
  <2>2. q \in Nat /\ r \in 0..Per - 1 /\ b = Per * q + r
    BY <2>1, FlashAssumption, Divides
  <2>3. q < NErase
    BY <2>1, FlashAssumption, DividesBelow
  <2>4. L!First(b) = b - r /\ r \in L!Offsets
    BY <2>2 DEF L!First, L!Offsets
  <2> HIDE DEF q, r
  <2>5. PICK x \in Nat : NErase = q + 1 + x
    <3>1. NErase - q - 1 \in Nat /\ NErase = q + 1 + (NErase - q - 1)
      BY <2>2, <2>3, FlashAssumption
    <3> QED BY <3>1
  <2>6. Per * NErase = Per * q + Per + Per * x
    BY <2>2, <2>5, FlashAssumption
  <2>7. Per * q \in Nat /\ Per * x \in Nat
    BY <2>2, <2>5, FlashAssumption
  <2>8. L!First(b) = Per * q /\ L!First(b) + Per <= L!Size
    BY <2>2, <2>4, <2>6, <2>7, FlashAssumption DEF L!Size
  <2>9. L!EraseBlock(b) \subseteq L!Blocks
    BY <1>1, <2>7, <2>8, FlashAssumption DEF L!EraseBlock, L!Blocks
  <2> QED BY <2>1, <2>2, <2>4, <2>7, <2>8, <2>9 DEF r
<1> QED BY <1>1, <1>2

\* A piece ends within its erase block and within the call.
LEMMA FtlPiece ==
  ASSUME FtlInv, phase # "idle", remaining > 0
  PROVE  /\ current \in L!Blocks /\ L!Piece \in Nat /\ L!Piece > 0 /\ L!Piece <= remaining
         /\ (current % Per) + L!Piece <= Per
         /\ ~L!Partial => L!Piece = Per /\ current % Per = 0
<1>1. current \in L!Blocks
  BY FtlBlocks DEF FtlInv, Underway, L!TypeOK, L!Blocks
<1>2. current % Per \in 0..Per-1 /\ remaining \in Nat
  BY <1>1, FtlBlocks DEF FtlInv, L!TypeOK, L!Offsets
<1> QED BY <1>1, <1>2, FlashAssumption DEF L!Piece, L!Smaller, L!Partial

\* A call that returns leaves its data as old ones, but in the erase block it loses.
LEMMA FtlReturn ==
  ASSUME FtlInv, wiped' \subseteq L!Blocks, L!Return(flash),
         \A b \in L!Blocks \ wiped' :
           b \notin wiped /\ ~(phase = "write" /\ b \in L!EraseBlock(current))
  PROVE  FtlInv'
<1>1. /\ flash' = [b \in L!Blocks |-> IF b \in wiped' THEN L!Erased
                                      ELSE L!Old(flash[b].of)]
      /\ eblock' = [i \in L!Offsets |-> L!Erased]
      /\ phase' = "idle" /\ startblock' = 0 /\ nblocks' = 0 /\ current' = 0 /\ remaining' = 0
      /\ source' = 0
  BY DEF L!Return
<1>2. ASSUME NEW b \in L!Blocks \ wiped' PROVE flash'[b] = [of |-> b, new |-> FALSE]
  <2>1. flash[b] = [of |-> b, new |-> phase # "idle" /\ b \in L!Passed]
    BY <1>2 DEF FtlInv, L!NeighboursKept
  <2>2. flash'[b] = L!Old(flash[b].of)
    BY <1>1, <1>2
  <2> QED BY <2>1, <2>2 DEF L!Old
<1>3. \A b \in L!Blocks : flash'[b] \in L!Values
  <2>1. L!Erased \in L!Values
    BY DEF L!Values
  <2>2. \A b \in L!Blocks : [of |-> b, new |-> FALSE] \in L!Values
    BY DEF L!Values
  <2> QED BY <1>1, <1>2, <2>1, <2>2
<1>4. eblock' \in [L!Offsets -> L!Values]
  BY <1>1 DEF L!Values
<1>5. L!TypeOK'
  BY <1>1, <1>3, <1>4, FtlBlocks DEF L!TypeOK
<1> QED
  BY <1>1, <1>2, <1>5 DEF FtlInv, Underway, Buffered, L!NeighboursKept

\* What is lost is the erase block under way.
LEMMA FtlLose ==
  ASSUME FtlInv, phase # "idle", remaining > 0, L!Lose, L!Return(flash)
  PROVE  FtlInv'
BY FtlReturn, FtlPiece, FtlBlocks DEF L!Lose

\* ftl.c:244-291, 431.
LEMMA FtlReads ==
  ASSUME FtlInv, L!Write \/ L!ReadErase \/ L!Done
  PROVE  FtlInv'
<1>1. CASE L!Write
  <2>1. PICK s \in L!Blocks, n \in 1..L!Size :
          /\ s + n <= L!Size
          /\ startblock' = s /\ nblocks' = n /\ current' = s /\ remaining' = n /\ source' = 0
    BY <1>1 DEF L!Write
  <2>2. phase = "idle" /\ phase' = "go" /\ UNCHANGED <<flash, eblock, wiped>>
    BY <1>1 DEF L!Write, L!flashed
  <2>3. s \in Nat /\ s \in 0..L!Size /\ n \in 0..L!Size /\ 0 \in 0..L!Size
    BY <2>1, FtlBlocks DEF L!Blocks
  <2>4. L!TypeOK'
    BY <2>1, <2>2, <2>3 DEF FtlInv, L!TypeOK
  <2>5. Underway' /\ Buffered'
    BY <2>1, <2>2, <2>3 DEF Underway, Buffered
  <2>6. L!Passed' = {}
    BY <2>1, <2>3 DEF L!Passed
  <2>7. L!NeighboursKept'
    BY <2>2, <2>6 DEF FtlInv, L!NeighboursKept
  <2> QED BY <2>4, <2>5, <2>7 DEF FtlInv
<1>2. CASE L!ReadErase
  <2>1. phase = "go" /\ remaining > 0 /\ L!Partial /\ wiped' = wiped
    BY <1>2 DEF L!ReadErase
  <2>2. CASE L!Return(flash)
    BY <2>1, <2>2, FtlReturn DEF FtlInv, L!TypeOK
  <2>3. CASE /\ eblock' = [i \in L!Offsets |-> flash[L!First(current) + i]]
             /\ phase' = "erase"
             /\ UNCHANGED <<flash, startblock, nblocks, current, remaining, source>>
    <3>1. \A i \in L!Offsets : L!First(current) + i \in L!Blocks
      <4>1. current \in L!Blocks
        BY <2>1, FtlPiece
      <4>2. \A i \in L!Offsets : L!First(current) + i \in L!EraseBlock(current)
        <5> SUFFICES ASSUME NEW i \in L!Offsets
                     PROVE  L!First(current) + i \in L!EraseBlock(current)
          OBVIOUS
        <5>1. L!First(current) \in Nat /\ i \in 0..Per - 1
          BY <4>1, FtlBlocks DEF L!Offsets
        <5> QED BY <5>1, FlashAssumption DEF L!EraseBlock
      <4> QED BY <4>1, <4>2, FtlBlocks
    <3>2. L!TypeOK'
      BY <2>1, <2>3, <3>1 DEF FtlInv, L!TypeOK
    <3>3. Underway'
      BY <2>1, <2>3 DEF FtlInv, Underway
    <3>4. Buffered'
      BY <2>1, <2>3, <3>1 DEF FtlInv, Buffered, L!NeighboursKept, L!Passed, L!First
    <3>5. L!NeighboursKept'
      BY <2>1, <2>3 DEF FtlInv, L!NeighboursKept, L!Passed
    <3> QED BY <3>2, <3>3, <3>4, <3>5 DEF FtlInv
  <2> QED BY <1>2, <2>2, <2>3 DEF L!ReadErase
<1>3. CASE L!Done
  BY <1>3, FtlReturn DEF L!Done, FtlInv, L!TypeOK
<1> QED BY <1>1, <1>2, <1>3

\* ftl.c:293-302, 350-378.
LEMMA FtlErases ==
  ASSUME FtlInv, L!Erase \/ L!PowerCut
  PROVE  FtlInv'
<1>1. CASE L!Erase
  <2>1. /\ phase \in {"go", "erase"} /\ remaining > 0
        /\ phase = "erase" \/ ~L!Partial
    BY <1>1 DEF L!Erase, FtlInv, Underway
  <2>2. CASE L!Lose /\ L!Return(flash)
    BY <2>1, <2>2, FtlLose
  <2>3. CASE /\ flash' = [b \in L!Blocks |->
                            IF b \in L!EraseBlock(current) THEN L!Erased ELSE flash[b]]
             /\ phase' = "write"
             /\ UNCHANGED <<eblock, wiped, startblock, nblocks, current, remaining, source>>
    <3>1. L!TypeOK'
      BY <2>1, <2>3 DEF FtlInv, L!TypeOK, L!Values
    <3>2. Underway'
      BY <2>1, <2>3 DEF FtlInv, Underway
    <3>3. Buffered'
      BY <2>1, <2>3 DEF FtlInv, Buffered, L!Passed, L!First, L!Partial
    <3>4. L!NeighboursKept'
      BY <2>1, <2>3 DEF FtlInv, L!NeighboursKept, L!Passed, L!EraseBlock, L!First
    <3> QED BY <3>1, <3>2, <3>3, <3>4 DEF FtlInv
  <2> QED BY <1>1, <2>2, <2>3 DEF L!Erase
<1>2. CASE L!PowerCut
  <2>1. phase # "idle" /\ L!Return(flash)
    BY <1>2 DEF L!PowerCut
  <2>2. CASE phase = "write"
    BY <1>2, <2>1, <2>2, FtlLose DEF L!PowerCut, FtlInv, Underway
  <2>3. CASE phase # "write"
    BY <1>2, <2>1, <2>3, FtlReturn DEF L!PowerCut, FtlInv, L!TypeOK
  <2> QED BY <2>2, <2>3
<1> QED BY <1>1, <1>2

\* The erase block is written with the piece in its place and the rest as it was
\* (ftl.c:304-346, 379-428).
LEMMA FtlWrites ==
  ASSUME FtlInv, L!WriteErase
  PROVE  FtlInv'
<1>1. phase = "write" /\ remaining > 0
  BY DEF L!WriteErase, FtlInv, Underway
<1>2. CASE L!Lose /\ L!Return(flash)
  BY <1>1, <1>2, FtlLose
<1>3. CASE /\ flash' = [b \in L!Blocks |->
                          IF b \in L!EraseBlock(current) THEN L!Changed[b - L!First(current)]
                          ELSE flash[b]]
           /\ current' = current + L!Piece /\ remaining' = remaining - L!Piece
           /\ source' = source + L!Piece
           /\ phase' = "go"
           /\ wiped' = wiped \ (current..current + L!Piece - 1)
           /\ UNCHANGED <<eblock, startblock, nblocks>>
  <2> DEFINE o == current % Per
             f == L!First(current)
  <2>1. /\ current \in L!Blocks /\ L!Piece \in Nat /\ L!Piece > 0 /\ L!Piece <= remaining
        /\ o + L!Piece <= Per
        /\ ~L!Partial => L!Piece = Per /\ o = 0
    BY <1>1, FtlPiece
  <2>2. /\ f \in Nat /\ o \in Nat /\ current = f + o /\ current \in Nat /\ L!Size \in Nat
        /\ L!EraseBlock(current) = f..f + Per - 1 /\ L!EraseBlock(current) \subseteq L!Blocks
    BY <2>1, FtlBlocks DEF L!EraseBlock, L!Offsets, L!Blocks
  <2>3. /\ startblock \in Nat /\ nblocks \in Nat /\ remaining \in Nat /\ source \in Nat
        /\ startblock + nblocks <= L!Size /\ current + remaining = startblock + nblocks
        /\ startblock <= current /\ source = current - startblock
    BY <1>1, <2>2 DEF FtlInv, Underway, L!TypeOK, L!Blocks
  <2>4. /\ L!Changed = [i \in L!Offsets |->
            IF o <= i /\ i < o + L!Piece
            THEN [of |-> startblock + source + i - o, new |-> TRUE] ELSE eblock[i]]
    BY DEF L!Changed
  <2> HIDE DEF o, f
  <2>5. /\ current' \in 0..L!Size /\ remaining' \in 0..L!Size /\ source' \in 0..L!Size
        /\ current' + remaining' = startblock + nblocks /\ startblock <= current'
        /\ source' = current' - startblock
    BY <1>3, <2>1, <2>2, <2>3
  <2>6. ASSUME NEW b \in L!EraseBlock(current), b \notin wiped'
        PROVE  flash'[b] = [of |-> b, new |-> b \in startblock..current' - 1]
    <3> DEFINE i == b - f
    <3>1. i \in L!Offsets /\ b = f + i /\ b \in Nat /\ b \in L!Blocks
      BY <2>2, <2>6, FlashAssumption DEF L!Offsets
    <3>2. flash'[b] = L!Changed[i]
      BY <1>3, <2>6, <3>1 DEF f
    <3> HIDE DEF i
    <3>6. i \in Nat
      BY <3>1 DEF L!Offsets
    <3>3. CASE o <= i /\ i < o + L!Piece
      <4>1. startblock + source + i - o = b
        BY <2>2, <2>3, <3>1, <3>6
      <4>2. b \in startblock..current' - 1
        BY <1>3, <2>1, <2>2, <2>3, <3>1, <3>3, <3>6
      <4> QED BY <2>4, <3>1, <3>2, <3>3, <4>1, <4>2
    <3>4. CASE ~(o <= i /\ i < o + L!Piece)
      <4>1. L!Partial
        BY <2>1, <3>1, <3>4, FlashAssumption DEF L!Offsets
      <4>2. b \notin current..current + L!Piece - 1
        BY <2>1, <2>2, <3>1, <3>4, <3>6
      <4>3. b \notin wiped /\ (b \in L!Passed <=> b \in startblock..current' - 1)
        BY <1>3, <2>1, <2>2, <2>3, <2>6, <3>1, <4>2 DEF L!Passed
      <4>4. eblock[i] = [of |-> b, new |-> b \in L!Passed]
        BY <1>1, <3>1, <4>1, <4>3 DEF FtlInv, Buffered, f
      <4> QED BY <2>4, <3>1, <3>2, <3>4, <4>3, <4>4
    <3> QED BY <3>3, <3>4
  <2>7. ASSUME NEW b \in L!Blocks \ L!EraseBlock(current), b \notin wiped'
        PROVE  flash'[b] = [of |-> b, new |-> b \in startblock..current' - 1]
    <3>1. flash'[b] = flash[b] /\ b \in Nat
      BY <1>3, <2>7 DEF L!Blocks
    <3>2. b \notin current..current + L!Piece - 1
      <4>1. b < f \/ b > f + Per - 1
        BY <2>2, <2>7, <3>1, FlashAssumption
      <4> QED BY <2>1, <2>2, <3>1, <4>1, FlashAssumption
    <3>3. b \notin wiped /\ (b \in L!Passed <=> b \in startblock..current' - 1)
      BY <1>3, <2>1, <2>2, <2>3, <2>7, <3>1, <3>2 DEF L!Passed
    <3> QED BY <1>1, <2>7, <3>1, <3>3 DEF FtlInv, L!NeighboursKept
  <2>8. L!NeighboursKept'
    BY <1>3, <2>6, <2>7 DEF L!NeighboursKept, L!Passed
  <2>9. flash' \in [L!Blocks -> L!Values]
    <3>1. \A i \in L!Offsets : L!Changed[i] \in L!Values
      <4> SUFFICES ASSUME NEW i \in L!Offsets PROVE L!Changed[i] \in L!Values
        OBVIOUS
      <4>1. i \in Nat
        BY DEF L!Offsets
      <4>2. CASE o <= i /\ i < o + L!Piece
        <5>1. startblock + source + i - o \in L!Blocks
          BY <2>1, <2>2, <2>3, <4>1, <4>2 DEF L!Blocks
        <5> QED BY <2>4, <4>2, <5>1 DEF L!Values
      <4>3. CASE ~(o <= i /\ i < o + L!Piece)
        BY <2>4, <4>3 DEF FtlInv, L!TypeOK
      <4> QED BY <4>2, <4>3
    <3>2. \A b \in L!EraseBlock(current) : b - f \in L!Offsets
      BY <2>2, FlashAssumption DEF L!Offsets
    <3>3. \A b \in L!Blocks : flash[b] \in L!Values
      BY DEF FtlInv, L!TypeOK
    <3> QED BY <1>3, <3>1, <3>2, <3>3 DEF f
  <2>10. L!TypeOK'
    BY <1>3, <2>5, <2>9 DEF FtlInv, L!TypeOK
  <2>11. Underway' /\ Buffered'
    BY <1>3, <2>3, <2>5 DEF Underway, Buffered
  <2> QED BY <2>8, <2>10, <2>11 DEF FtlInv
<1> QED BY <1>2, <1>3 DEF L!WriteErase

\* No write is under way at first.
LEMMA FtlInit == L!Init => FtlInv
<1> SUFFICES ASSUME L!Init PROVE FtlInv
  OBVIOUS
<1>1. /\ flash = [b \in L!Blocks |-> L!Old(b)] /\ eblock = [i \in L!Offsets |-> L!Erased]
      /\ wiped = {} /\ phase = "idle" /\ startblock = 0 /\ nblocks = 0
      /\ current = 0 /\ remaining = 0 /\ source = 0
  BY DEF L!Init
<1>2. L!TypeOK
  BY <1>1, FtlBlocks DEF L!TypeOK, L!Values, L!Old
<1> QED
  BY <1>1, <1>2 DEF FtlInv, Underway, Buffered, L!NeighboursKept, L!Old

\* Every step of a write keeps the blocks it does not name.
LEMMA FtlNext == FtlInv /\ [L!Next]_FtlVars => FtlInv'
<1> SUFFICES ASSUME FtlInv, [L!Next]_FtlVars PROVE FtlInv'
  OBVIOUS
<1>1. CASE UNCHANGED FtlVars
  BY <1>1 DEF FtlVars, FtlInv, L!TypeOK, Underway, Buffered, L!NeighboursKept, L!Passed,
              L!First, L!EraseBlock, L!Partial
<1> QED BY <1>1, FtlReads, FtlErases, FtlWrites DEF L!Next

\* What the invariant of the flash translation layer promises.
LEMMA FtlHolds == FtlInv => L!TypeOK /\ L!NeighboursKept /\ L!ReturnsAllWritten
BY DEF FtlInv, Underway, L!ReturnsAllWritten

\* Whatever is written to a block device and in whatever pieces, buffer and medium hold
\* it and a read returns it; and a write to a flash device changes no block but those
\* it names (bchlib_cache.c:112-191, bchlib_read.c:71-190, bchlib_write.c:58-188,
\* ftl.c:244-432).
THEOREM SpecBlocksHeld == Spec => []BlocksHeld
<1>1. Init => BchInv /\ FtlInv
  BY BchInit, FtlInit DEF Init
<1>2. BchInv /\ FtlInv /\ [Next]_vars => BchInv' /\ FtlInv'
  BY OneMoves, BchNext, FtlNext
<1>3. BchInv /\ FtlInv => BlocksHeld
  BY BchHolds, FtlHolds DEF BlocksHeld
<1> QED
  BY <1>1, <1>2, <1>3, PTL DEF Spec

-----------------------------------------------------------------------------
(* Bounds that hold after a mishap as well.                                *)

\* adc_open counts only the first file, so that the count is within that of the files.
AdcBounds == opens \in 0..MaxOpens /\ ad_ocount \in 0..MaxOpens

LEMMA AdcBounded == AdcBounds /\ [C!Next]_AdcVars => AdcBounds'
<1> SUFFICES ASSUME AdcBounds, [C!Next]_AdcVars PROVE AdcBounds'
  OBVIOUS
<1>1. MaxOpens \in Nat \ {0}
  BY DriversAssumption
<1>2. CASE UNCHANGED AdcVars
  BY <1>2 DEF AdcBounds, AdcVars
<1>3. CASE C!Close
  <2>1. opens' \in 0..MaxOpens
    BY <1>1, <1>3 DEF AdcBounds, C!Close
  <2>2. ad_ocount' \in 0..MaxOpens
    BY <1>1, <1>3 DEF AdcBounds, C!Close
  <2> QED BY <2>1, <2>2 DEF AdcBounds
<1>4. CASE C!Open
  BY <1>1, <1>4 DEF AdcBounds, C!Open, C!vars
<1> QED BY <1>2, <1>3, <1>4 DEF C!Next

\* No more handlers are installed than there is memory for.
LEMMA GpioBounded ==
  GpioInv /\ Len(isrs) <= MaxIsr /\ [G!Next]_GpioVars => (Len(isrs) <= MaxIsr)'
<1> SUFFICES ASSUME GpioInv, Len(isrs) <= MaxIsr, [G!Next]_GpioVars PROVE Len(isrs') <= MaxIsr
  OBVIOUS
<1>1. isrs \in Seq(IrqEntries) /\ MaxIsr \in Nat /\ Len(isrs) \in Nat
  BY DriversAssumption DEF GpioInv
<1>2. isrs' = isrs \/ \E e \in IrqEntries : Len(isrs) < MaxIsr /\ isrs' = Append(isrs, e)
  BY DEF GpioVars, G!Next, G!Request, G!Free, G!Install
<1> QED BY <1>1, <1>2

\* Descriptors after a mishap: only a mount that is there is unmounted, and once.
FilesTyped ==
  /\ F!TypeOK
  /\ drv = IF node = NULL THEN 0 ELSE 1
  /\ \A i \in Inodes : mops[i] => i = node
  /\ \A t \in Tasks :
       /\ at_file[t] = "umount_unbind" => sem = t /\ ino[t] = node /\ node # NULL
       /\ at_file[t] \in {"umount_check", "umount_take"} => ino[t] # NULL
       /\ at_file[t] \in {"dup2", "dup2_close"} => fd[t] # NULL

LEMMA FilesTypedInit == F!Init => FilesTyped
<1> SUFFICES ASSUME F!Init PROVE FilesTyped
  OBVIOUS
<1>1. F!TypeOK
  BY FilesAssumption DEF F!Init, F!TypeOK, F!Places
<1> QED BY <1>1, FilesAssumption DEF F!Init, FilesTyped

\* A reference, a file on the list and the state of the file system keep their types
\* whichever inode they are of.
LEMMA FilesDropTyped ==
  ASSUME F!TypeOK, NEW i, F!DropRef(i)
  PROVE  /\ crefs' \in [Inodes -> Nat] /\ alive' \subseteq Inodes
         /\ deleted' \in [Inodes -> BOOLEAN]
         /\ UNCHANGED <<node, mops, fs, files, drv>>
<1> DEFINE n == IF crefs[i] > 0 THEN crefs[i] - 1 ELSE 0
<1>1. crefs' = [crefs EXCEPT ![i] = n]
  BY DEF F!DropRef
<1>2. i \in Inodes => n \in Nat
  BY DEF F!TypeOK
<1> HIDE DEF n
<1>3. crefs' \in [Inodes -> Nat]
  BY <1>1, <1>2 DEF F!TypeOK
<1> QED BY <1>3 DEF F!DropRef, F!TypeOK

LEMMA FilesAbandonTyped ==
  ASSUME F!TypeOK, NEW i, abandoned' = [abandoned EXCEPT ![i] = @ + 1] \/ abandoned' = abandoned
  PROVE  abandoned' \in [Inodes -> Nat]
<1>1. i \in Inodes => abandoned[i] + 1 \in Nat
  BY DEF F!TypeOK
<1>2. PICK n : n = abandoned[i] + 1
  OBVIOUS
<1>3. abandoned' = [abandoned EXCEPT ![i] = n] \/ abandoned' = abandoned
  BY <1>2
<1> QED BY <1>1, <1>2, <1>3 DEF F!TypeOK

LEMMA FilesUnlistTyped ==
  ASSUME F!TypeOK, NEW i, F!CheckMount(i), F!Unlisted(i)
  PROVE  /\ files' \in [Inodes -> Nat] /\ fs' \in [Inodes -> {"none", "mounted", "stopped"}]
         /\ UNCHANGED <<node, alive, crefs, deleted, mops, drv>>
<1> DEFINE n == IF files[i] > 0 THEN files[i] - 1 ELSE 0
<1>1. files' = [files EXCEPT ![i] = n]
  BY DEF F!Unlisted
<1>2. i \in Inodes => n \in Nat
  BY DEF F!TypeOK
<1> HIDE DEF n
<1>3. files' \in [Inodes -> Nat]
  BY <1>1, <1>2 DEF F!TypeOK
<1>4. fs' \in [Inodes -> {"none", "mounted", "stopped"}]
  BY DEF F!TypeOK, F!CheckMount
<1> QED BY <1>3, <1>4 DEF F!Unlisted

\* A task that goes elsewhere than on with an unmount or with dup2 leaves the mounts as
\* they are.
Plain == F!Places \ {"umount_check", "umount_take", "umount_unbind", "dup2", "dup2_close"}
LEMMA FilesElsewhere ==
  ASSUME FilesTyped, F!TypeOK', NEW t \in Tasks, NEW p \in Plain,
         at_file' = [at_file EXCEPT ![t] = p], UNCHANGED <<node, mops, drv, sem>>,
         \A u \in Tasks \ {t} : ino'[u] = ino[u] /\ fd'[u] = fd[u]
  PROVE  FilesTyped'
BY DEF FilesTyped, F!TypeOK, Plain

LEMMA FilesTypedNext == FilesTyped /\ [F!Next]_FilesVars => FilesTyped'
<1> SUFFICES ASSUME FilesTyped, [F!Next]_FilesVars PROVE FilesTyped'
  OBVIOUS
<1> USE FilesAssumption DEF F!tree, F!table, F!Goto, F!Return
<1>1. CASE UNCHANGED FilesVars \/ F!Ended
  BY <1>1 DEF FilesVars, F!Ended, F!vars, FilesTyped, F!TypeOK
<1> SUFFICES ASSUME NEW t \in Tasks,
       \/ F!OpenFind(t) \/ F!OpenCheck(t) \/ F!OpenEnter(t) \/ F!OpenAdd(t) \/ F!Allocate(t) \/ F!Release(t)
       \/ \E f \in Fds : F!Close(t, f) \/ \E g \in Fds \cup {NULL} : F!Duplicate(t, f, g)
       \/ F!CloseRelease(t) \/ F!CloseInode(t) \/ F!ClosePriv(t)
       \/ F!DuplicateFile(t) \/ F!ReplaceClose(t) \/ F!Copy(t)
       \/ F!Mount(t) \/ F!UmountFind(t) \/ F!UmountCheck(t) \/ F!UmountTake(t) \/ F!UmountUnbind(t)
             PROVE  FilesTyped'
  BY <1>1 DEF F!Next
<1>0. F!TypeOK
  BY DEF FilesTyped
<1>2. CASE F!OpenFind(t) \/ F!UmountFind(t)
  BY <1>2 DEF F!OpenFind, F!UmountFind, F!AddRef, F!Places, FilesTyped, F!TypeOK
<1>3. CASE F!OpenCheck(t) \/ F!UmountCheck(t)
  BY <1>3 DEF F!OpenCheck, F!UmountCheck, F!Places, FilesTyped, F!TypeOK
<1>4. CASE F!OpenEnter(t)
  <2>1. PICK p \in {"open_add", "release"} : at_file' = [at_file EXCEPT ![t] = p]
    BY <1>4 DEF F!OpenEnter
  <2>2. F!TypeOK'
    BY <1>0, <1>4, <2>1 DEF F!OpenEnter, F!CheckMount, F!Places, F!TypeOK
  <2> QED BY <1>0, <1>4, <2>1, <2>2, FilesElsewhere DEF F!OpenEnter, F!Places, F!TypeOK, Plain
<1>5. CASE F!UmountTake(t)
  <2>1. F!TypeOK'
    BY <1>0, <1>5 DEF F!UmountTake, F!Places, F!TypeOK
  <2>2. CASE mops[ino[t]] /\ ino[t] \in Inodes
    BY <1>5, <2>1, <2>2 DEF F!UmountTake, FilesTyped, F!TypeOK
  <2>3. CASE ~mops[ino[t]]
    BY <1>0, <1>5, <2>1, <2>3, FilesElsewhere DEF F!UmountTake, F!Places, F!TypeOK, Plain
  <2> QED BY <1>0, <1>5, <2>2, <2>3 DEF F!UmountTake, FilesTyped, F!TypeOK
<1>6. CASE F!OpenAdd(t) \/ F!DuplicateFile(t)
  BY <1>6 DEF F!OpenAdd, F!DuplicateFile, F!CheckMount, F!Listed, F!Places, FilesTyped, F!TypeOK
<1>7. CASE F!Allocate(t)
  <2>1. CASE UNCHANGED F!tree /\ F!Return(t)
    <3>0. /\ f_inode' \in [Fds -> Inodes \cup {NULL}] /\ f_priv' \in [Fds -> BOOLEAN]
          /\ mine' \in [Fds -> Tasks \cup {NULL}]
      <4>1. CASE UNCHANGED F!table
        BY <1>0, <4>1 DEF F!TypeOK
      <4>2. CASE \E f \in F!Free : /\ f_inode' = [f_inode EXCEPT ![f] = ino[t]]
                                  /\ f_priv' = [f_priv EXCEPT ![f] = TRUE]
                                  /\ mine' = [mine EXCEPT ![f] = t]
        BY <1>0, <4>2 DEF F!TypeOK, F!Free
      <4> QED BY <1>7, <4>1, <4>2 DEF F!Allocate
    <3>1. F!TypeOK'
      BY <1>0, <1>7, <2>1, <3>0 DEF F!Allocate, F!Places, F!TypeOK
    <3> QED BY <1>0, <1>7, <2>1, <3>1, FilesElsewhere DEF F!Allocate, F!Places, F!TypeOK, Plain
  <2>2. CASE F!CheckMount(ino[t]) /\ F!Unlisted(ino[t]) /\ F!Goto(t, "release")
              /\ UNCHANGED <<F!table, ino, fd, from>>
    <3>1. F!TypeOK'
      BY <1>0, <1>7, <2>2, FilesUnlistTyped DEF F!Allocate, F!Places, F!TypeOK
    <3> QED BY <1>0, <1>7, <2>2, <3>1, FilesUnlistTyped, FilesElsewhere DEF F!Allocate, F!Places, F!TypeOK, Plain
  <2> QED BY <1>7, <2>1, <2>2 DEF F!Allocate
<1>8. CASE F!Release(t)
  <2>1. F!TypeOK'
    BY <1>0, <1>8, FilesDropTyped DEF F!Release, F!Places, F!TypeOK
  <2> QED BY <1>0, <1>8, <2>1, FilesDropTyped, FilesElsewhere DEF F!Release, F!Places, F!TypeOK, Plain
<1>9. CASE F!CloseRelease(t)
  <2>1. PICK p \in {"close_inode", "then_inode"} : at_file' = [at_file EXCEPT ![t] = p]
    BY <1>9 DEF F!CloseRelease
  <2>2. F!TypeOK'
    BY <1>0, <1>9, <2>1, FilesDropTyped DEF F!CloseRelease, F!Places, F!TypeOK
  <2> QED BY <1>0, <1>9, <2>1, <2>2, FilesDropTyped, FilesElsewhere DEF F!CloseRelease, F!Places, F!TypeOK, Plain
<1>10. ASSUME NEW f \in Fds, F!Close(t, f)
       PROVE  FilesTyped'
  BY <1>10 DEF F!Close, F!CloseFile, F!CheckMount, F!Unlisted, F!Places, FilesTyped, F!TypeOK
<1>11. ASSUME NEW f \in Fds, NEW g \in Fds \cup {NULL}, F!Duplicate(t, f, g)
       PROVE  FilesTyped'
  BY <1>11 DEF F!Duplicate, F!AddRef, F!Places, FilesTyped, F!TypeOK
<1>12. CASE F!CloseInode(t) \/ F!ClosePriv(t) \/ F!Copy(t)
  <2>1. PICK p \in {"close_priv", "then_priv", "idle", "copy"} : at_file' = [at_file EXCEPT ![t] = p]
    BY <1>12 DEF F!CloseInode, F!ClosePriv, F!Copy
  <2>2. F!TypeOK'
    <3>1. CASE F!CloseInode(t)
      BY <1>0, <2>1, <3>1 DEF F!CloseInode, F!Places, F!TypeOK
    <3>2. CASE F!ClosePriv(t)
      <4>1. abandoned' \in [Inodes -> Nat]
        BY <1>0, <3>2, FilesAbandonTyped DEF F!ClosePriv
      <4> QED BY <1>0, <2>1, <3>2, <4>1 DEF F!ClosePriv, F!Places, F!TypeOK
    <3>3. CASE F!Copy(t)
      <4>1. clobbered' \in BOOLEAN
        BY <3>3 DEF F!Copy
      <4> QED BY <1>0, <2>1, <3>3, <4>1 DEF F!Copy, F!Places, F!TypeOK
    <3> QED BY <1>12, <3>1, <3>2, <3>3
  <2>3. /\ UNCHANGED <<node, mops, drv, sem>>
        /\ \A u \in Tasks \ {t} : ino'[u] = ino[u] /\ fd'[u] = fd[u]
    <3>1. UNCHANGED <<node, mops, drv, sem>>
      BY <1>12 DEF F!CloseInode, F!ClosePriv, F!Copy
    <3>2. \/ UNCHANGED <<ino, fd>>
          \/ ino' = [ino EXCEPT ![t] = NULL] /\ fd' = [fd EXCEPT ![t] = NULL]
      BY <1>12 DEF F!CloseInode, F!ClosePriv, F!Copy
    <3> QED BY <1>0, <3>1, <3>2 DEF F!TypeOK
  <2> QED BY <2>1, <2>2, <2>3, FilesElsewhere DEF F!Places, Plain
<1>13. CASE F!ReplaceClose(t)
  <2>1. PICK p \in {"copy", "then_release"} : at_file' = [at_file EXCEPT ![t] = p]
    BY <1>13 DEF F!ReplaceClose, F!CloseFile
  <2>2. /\ files' \in [Inodes -> Nat] /\ fs' \in [Inodes -> {"none", "mounted", "stopped"}]
        /\ UNCHANGED <<node, alive, crefs, deleted, mops, drv>>
    <3>1. CASE F!CheckMount(f_inode[fd[t]]) /\ F!Unlisted(f_inode[fd[t]])
      BY <1>0, <3>1, FilesUnlistTyped
    <3>2. CASE UNCHANGED F!tree
      BY <1>0, <3>2 DEF F!TypeOK
    <3> QED BY <1>13, <3>1, <3>2 DEF F!ReplaceClose, F!CloseFile
  <2>3. f_priv' \in [Fds -> BOOLEAN] /\ from' \in [Tasks -> Inodes \cup {NULL}]
    <3>1. CASE f_inode[fd[t]] = NULL
      BY <1>0, <1>13, <3>1 DEF F!ReplaceClose, F!TypeOK
    <3>2. CASE f_inode[fd[t]] # NULL
      <4>1. fd[t] \in Fds /\ f_inode[fd[t]] \in Inodes
        BY <1>0, <1>13, <3>2 DEF F!ReplaceClose, FilesTyped, F!TypeOK
      <4> QED BY <1>0, <1>13, <3>2, <4>1 DEF F!ReplaceClose, F!CloseFile, F!TypeOK
    <3> QED BY <3>1, <3>2
  <2>4. F!TypeOK'
    BY <1>0, <1>13, <2>1, <2>2, <2>3 DEF F!ReplaceClose, F!Places, F!TypeOK
  <2> QED BY <1>0, <1>13, <2>1, <2>2, <2>4, FilesElsewhere DEF F!ReplaceClose, F!Places, F!TypeOK, Plain
<1>14. CASE F!Mount(t)
  BY <1>14 DEF F!Mount, FilesTyped, F!TypeOK
<1>15. CASE F!UmountUnbind(t)
  <2>0. sem = t /\ ino[t] = node /\ node # NULL /\ node \in Inodes /\ drv = 1
    BY <1>0, <1>15 DEF F!UmountUnbind, FilesTyped, F!TypeOK
  <2>5. /\ at_file' = [at_file EXCEPT ![t] = "release"] /\ sem' = NULL
        /\ UNCHANGED <<alive, crefs, files, f_inode, f_priv, mine, abandoned, ino, fd, from, clobbered>>
    BY <1>15 DEF F!UmountUnbind
  <2>6. \A u \in Tasks : /\ at_file'[u] # "umount_unbind"
                         /\ at_file'[u] \in {at_file[u], "release"}
    BY <1>0, <2>0, <2>5 DEF FilesTyped, F!TypeOK
  <2>7. \/ UNCHANGED <<node, deleted, mops, fs, drv, pulled>>
        \/ /\ node' = NULL /\ mops' = [mops EXCEPT ![node] = FALSE]
           /\ deleted' = [deleted EXCEPT ![node] = TRUE] /\ fs' = [fs EXCEPT ![node] = "none"]
           /\ drv' = 0 /\ pulled' \in BOOLEAN
    <3>1. CASE UNCHANGED F!tree /\ UNCHANGED pulled
      BY <3>1
    <3>2. CASE /\ node' = NULL /\ deleted' = [deleted EXCEPT ![ino[t]] = TRUE]
               /\ mops' = [mops EXCEPT ![ino[t]] = FALSE] /\ fs' = [fs EXCEPT ![ino[t]] = "none"]
               /\ drv' = drv - 1
               /\ pulled' = (pulled \/ F!Relying(ino[t]) # {})
      <4>1. drv' = 0 /\ pulled' \in BOOLEAN
        BY <2>0, <3>2
      <4>2. ino[t] = node
        BY <2>0
      <4> QED BY ONLY <3>2, <4>1, <4>2
    <3> QED BY <1>15, <3>1, <3>2 DEF F!UmountUnbind
  <2>1. F!TypeOK'
    <3>1. at_file' \in [Tasks -> F!Places]
      BY <1>0, <2>5 DEF F!Places, F!TypeOK
    <3>2. /\ deleted' \in [Inodes -> BOOLEAN] /\ mops' \in [Inodes -> BOOLEAN]
          /\ fs' \in [Inodes -> {"none", "mounted", "stopped"}]
          /\ node' \in Inodes \cup {NULL} /\ drv' \in Nat /\ pulled' \in BOOLEAN
      <4>1. CASE UNCHANGED <<node, deleted, mops, fs, drv, pulled>>
        BY <1>0, <4>1 DEF F!TypeOK
      <4>2. CASE /\ node' = NULL /\ mops' = [mops EXCEPT ![node] = FALSE]
                 /\ deleted' = [deleted EXCEPT ![node] = TRUE] /\ fs' = [fs EXCEPT ![node] = "none"]
                 /\ drv' = 0 /\ pulled' \in BOOLEAN
        BY <1>0, <4>2 DEF F!TypeOK
      <4> QED BY <2>7, <4>1, <4>2
    <3> QED BY <1>0, <2>5, <3>1, <3>2 DEF F!TypeOK
  <2>3. (drv = IF node = NULL THEN 0 ELSE 1)' /\ \A i \in Inodes : mops'[i] => i = node'
    BY <1>0, <2>0, <2>7 DEF FilesTyped, F!TypeOK
  <2> QED BY <2>1, <2>3, <2>5, <2>6 DEF FilesTyped
<1> QED BY <1>2, <1>3, <1>4, <1>5, <1>6, <1>7, <1>8, <1>9, <1>10, <1>11, <1>12, <1>13, <1>14, <1>15
=============================================================================
