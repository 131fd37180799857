------------------------------ MODULE GpioIrq ------------------------------
(***************************************************************************)
(* Interrupt handlers of one GPIO pad, drivers/gpio/gpioirq.c, and the     *)
(* handler that xPortInterruptInstallISR puts on the list of the GPIO      *)
(* interrupt for it.  Requests and frees are critical sections, and the    *)
(* interrupt itself cannot be interrupted by either.                       *)
(***************************************************************************)
EXTENDS Naturals, Lists

CONSTANTS
  Entries,    \* what malloc can return for a gpio_irq_param_s
  MaxIsr      \* bound on the handlers installed

VARIABLES
  chain,      \* __gpio_isr_head[padctl]: entries, the newest first
  isrs,       \* the list of the GPIO interrupt: the entry each starts from
  ier,        \* the pad's interrupt is enabled
  orphaned    \* history: the entry an ISR starts from was freed, or there was
              \* no memory to install one

vars == <<chain, isrs, ier, orphaned>>

TypeOK ==
  /\ chain \in Seq(Entries) /\ NoRepeat(chain)
  /\ isrs \in Seq(Entries) /\ Len(isrs) <= MaxIsr
  /\ ier \in BOOLEAN /\ orphaned \in BOOLEAN

Init == chain = <<>> /\ isrs = <<>> /\ ier = FALSE /\ orphaned = FALSE

\* xPortInterruptInstallISR, whose failure nobody looks at.
Install(e) ==
  \/ Len(isrs) < MaxIsr /\ isrs' = Append(isrs, e) /\ UNCHANGED orphaned
  \/ UNCHANGED isrs /\ orphaned' = TRUE

\* Fault: every request installs an ISR.
RequestInstalls(e) ==
  /\ ~OnList(e, chain)
  /\ chain' = <<e>> \o chain
  /\ Install(e)
  /\ ier' = TRUE

\* __gpio_irq_request: the first installs the ISR, later ones are put in front.
Request(e) ==
  /\ ~OnList(e, chain)
  /\ chain' = <<e>> \o chain
  /\ IF chain = <<>>
     THEN Install(e) /\ ier' = TRUE
     ELSE UNCHANGED <<isrs, ier, orphaned>>

\* gpio_irq_free: after the last, xPortInterruptRemoveISR is asked to remove the
\* handler NULL, asserts that it is not and, assertions off, finds none.
Free(e) ==
  /\ OnList(e, chain)
  /\ chain' = Without(chain, e)
  /\ ier' = (ier /\ chain' # <<>>)
  /\ orphaned' = (orphaned \/ OnList(e, isrs))
  /\ UNCHANGED isrs

Next == \E e \in Entries : Request(e) \/ Free(e)

Spec == Init /\ [][Next]_vars

\* Entries the interrupt gets to from the one an ISR starts from.
From(e) == {chain[i] : i \in {j \in DOMAIN chain : \E k \in 1..j : chain[k] = e}}

\* Until the handler requested first is freed the interrupt calls it, once, and
\* none that was freed; those requested later are in front of it and are not
\* reached (gpioirq.c:75-110, 128-137, 176-193).
FirstIsServed ==
  ~orphaned =>
    \/ chain = <<>> /\ isrs = <<>>
    \/ chain # <<>> /\ ier /\ isrs = <<chain[Len(chain)]>>
       /\ From(isrs[1]) = {chain[Len(chain)]}

\* What the comment at gpioirq.c:185 says: with the last handler freed the pad has
\* no interrupt.
NoMoreIrq == chain = <<>> => isrs = <<>>
=============================================================================
