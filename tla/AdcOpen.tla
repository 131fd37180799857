------------------------------ MODULE AdcOpen ------------------------------
(***************************************************************************)
(* Opening and closing the ADC, drivers/adc/adc.c: under ad_closesem a     *)
(* count of references is kept, and the hardware is set up for the first   *)
(* and shut down after the last.                                           *)
(***************************************************************************)
EXTENDS Naturals

CONSTANT MaxOpens    \* 255, where the count would overflow

VARIABLES
  ad_ocount,
  adc_on,     \* ao_setup was called, and no ao_shutdown since
  opens,      \* history: files open
  twice       \* history: it was opened while it was open

vars == <<ad_ocount, adc_on, opens, twice>>

TypeOK ==
  /\ ad_ocount \in 0..MaxOpens /\ adc_on \in BOOLEAN
  /\ opens \in 0..MaxOpens /\ twice \in BOOLEAN

Init == ad_ocount = 0 /\ adc_on = FALSE /\ opens = 0 /\ twice = FALSE

\* Fault: as for the first, always.
OpenUncounted ==
  /\ opens < MaxOpens
  /\ opens' = opens + 1 /\ twice' = (twice \/ opens > 0)
  /\ adc_on' = TRUE
  /\ UNCHANGED ad_ocount

\* adc_open stores the count only for the first, and ao_setup may fail.
Open ==
  /\ opens < MaxOpens
  /\ \/ /\ ad_ocount = 0
        /\ adc_on' = TRUE /\ ad_ocount' = 1
        /\ opens' = opens + 1 /\ twice' = (twice \/ opens > 0)
     \/ ad_ocount = 0 /\ UNCHANGED vars
     \/ /\ ad_ocount > 0
        /\ opens' = opens + 1 /\ twice' = (twice \/ opens > 0)
        /\ UNCHANGED <<ad_ocount, adc_on>>

\* adc_close
Close ==
  /\ opens > 0
  /\ opens' = opens - 1
  /\ IF ad_ocount > 1
     THEN ad_ocount' = ad_ocount - 1 /\ UNCHANGED adc_on
     ELSE ad_ocount' = 0 /\ adc_on' = FALSE
  /\ UNCHANGED twice

Next == Open \/ Close

Spec == Init /\ [][Next]_vars

\* The converter runs exactly while some file is open, until one is opened beside
\* another: that one is not counted (adc.c:129-176, 200-224).
RunsWhileOpen == ~twice => (adc_on <=> opens > 0)
=============================================================================
