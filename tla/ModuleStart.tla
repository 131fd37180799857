---------------------------- MODULE ModuleStart ----------------------------
(***************************************************************************)
(* Starting and stopping driver modules, drivers/base/module.c: a call     *)
(* walks the modules of a group in link order, leaves out those excluded   *)
(* and those already in the state asked for, calls init or exit of each    *)
(* and marks it.  One module by name is a group of one.  Calls come one    *)
(* after another: nothing is locked, and two tasks in calls at once could  *)
(* start a module twice.                                                   *)
(***************************************************************************)
EXTENDS Naturals

CONSTANTS
  Count,      \* modules, numbered in link order
  Groups,     \* the groups, <<first, last>>
  NULL

Mods == 1..Count
All == <<1, Count>>

VARIABLES
  initialized,  \* modules that are marked
  up,           \* modules whose init succeeded and whose exit was not called since
  walk,         \* the call under way, NULL if none
  begun,        \* the module it is at has been called
  wrong         \* history: init was called on a module that is up, or exit on one that is not

vars == <<initialized, up, walk, begun, wrong>>

Walk == [start : BOOLEAN, first : Mods, at : 1..(Count + 1), last : Mods, exclude : SUBSET Mods]

TypeOK ==
  /\ initialized \subseteq Mods /\ up \subseteq Mods
  /\ walk \in Walk \cup {NULL}
  /\ begun \in BOOLEAN /\ wrong \in BOOLEAN

Init ==
  initialized = {} /\ up = {} /\ walk = NULL /\ begun = FALSE /\ wrong = FALSE

Begin(start, range, exclude) ==
  /\ walk = NULL
  /\ walk' = [start |-> start, first |-> range[1], at |-> range[1], last |-> range[2],
              exclude |-> exclude]
  /\ UNCHANGED <<initialized, up, begun, wrong>>

\* module_init2 of a group, module_exit2 of all, and either of one module.
InitGroup == \E g \in Groups, exclude \in SUBSET Mods : Begin(TRUE, g, exclude)
ExitAll == \E exclude \in SUBSET Mods : Begin(FALSE, All, exclude)
ByName == \E m \in Mods, start \in BOOLEAN : Begin(start, <<m, m>>, {})

Walking == walk # NULL /\ walk.at <= walk.last
Move == walk' = [walk EXCEPT !.at = @ + 1]

\* Fault: a module that is initialized is initialized again.
SkippedExcluded(m) == m \in walk.exclude

Skipped(m) == m \in walk.exclude \/ (walk.start <=> m \in initialized)

Skip ==
  /\ Walking /\ ~begun /\ Skipped(walk.at)
  /\ Move
  /\ UNCHANGED <<initialized, up, begun, wrong>>

\* p->init() or p->exit()
Call ==
  /\ Walking /\ ~begun /\ ~Skipped(walk.at)
  /\ wrong' = (wrong \/ (walk.start <=> walk.at \in up))
  /\ up' = IF walk.start THEN up ELSE up \ {walk.at}
  /\ begun' = TRUE
  /\ UNCHANGED <<initialized, walk>>

InitOk ==
  /\ begun /\ walk.start
  /\ up' = up \cup {walk.at}
  /\ initialized' = initialized \cup {walk.at}
  /\ begun' = FALSE
  /\ Move
  /\ UNCHANGED wrong

\* Fault: the walk goes on behind a module that failed.
InitFailsOn ==
  /\ begun /\ walk.start
  /\ begun' = FALSE
  /\ Move
  /\ UNCHANGED <<initialized, up, wrong>>

\* The walk ends with the error; the modules behind stay as they were.
InitFails ==
  /\ begun /\ walk.start
  /\ begun' = FALSE
  /\ walk' = NULL
  /\ UNCHANGED <<initialized, up, wrong>>

ExitDone ==
  /\ begun /\ ~walk.start
  /\ initialized' = initialized \ {walk.at}
  /\ begun' = FALSE
  /\ Move
  /\ UNCHANGED <<up, wrong>>

\* return 0
ReturnZero ==
  /\ walk # NULL /\ ~Walking
  /\ walk' = NULL
  /\ UNCHANGED <<initialized, up, begun, wrong>>

Next ==
  \/ InitGroup \/ ExitAll \/ ByName
  \/ Skip \/ Call \/ InitOk \/ InitFails \/ ExitDone \/ ReturnZero

Spec == Init /\ [][Next]_vars

-----------------------------------------------------------------------------
(* What the caller is promised.                                            *)

\* Between two modules the marks are what the modules are, whatever failed, was
\* left out or was asked for before: init is called on no module that is up, exit
\* on none that is down (module.c:115-143, 164-190, 206-236).
MarkedIsUp == ~wrong /\ (~begun => up = initialized)

\* A module is started only with all those of its group before it up that were
\* not left out, and a walk that ends well has brought all of them up
\* (module.c:113-155).
EarlierAreUp ==
  walk # NULL /\ walk.start => walk.first..(walk.at - 1) \subseteq up \cup walk.exclude
=============================================================================
