---------------------------- MODULE PageManager ----------------------------
(***************************************************************************)
(* The page scheduler of the UI demo, PageManager.c: a stack of page       *)
(* numbers and a state machine, PM_Running, that tears the old page down   *)
(* (its Exit callback), then builds the new one (its Setup callback).      *)
(*                                                                         *)
(* Setup and Exit block in PageDelay, which keeps LVGL running, so the     *)
(* event and timer callbacks of LVGL are called in the middle of           *)
(* PM_Running and may call PM_Push and PM_Pop there.  PM_Running is        *)
(* therefore cut at the two callbacks, and a client may call the other     *)
(* functions in each of the three resulting places.                        *)
(***************************************************************************)
EXTENDS Naturals

CONSTANTS
  MaxPage,         \* pageMax of PM_PageManagerInit, a uint8_t
  PageStackSize,   \* pageStackSize of PM_PageManagerInit, a uint8_t
  Imported,        \* the pages registered before the UI starts
  PageIds          \* the page numbers clients pass, valid or not

ASSUME MaxPageAssumption == MaxPage \in 1..255
ASSUME PageStackSizeAssumption == PageStackSize \in 1..255
ASSUME PageIdsAssumption == PageIds \subseteq 0..255
(* PAGE_NONE, number 0, is reserved: no page registers under it. *)
ASSUME ImportedAssumption == Imported \subseteq 1..(MaxPage - 1)

VARIABLES
  PageList,        \* the pages whose Callback is not NULL
  NewPage,         \* the page to switch to
  OldPage,         \* the page set up last
  NowPage,         \* the page that gets events
  NextPage,
  LastPage,
  IsPageBusy,
  PageStack,
  PageStackTop,
  running,         \* where PM_Running is: outside, in Exit, in Setup
  live             \* the pages whose Setup began and whose Exit did not

switchVars == <<NewPage, NextPage, IsPageBusy>>
stackVars == <<PageStack, PageStackTop>>
shownVars == <<OldPage, NowPage, LastPage, running, live>>
vars == <<PageList, switchVars, stackVars, shownVars>>

Page == 0..(MaxPage - 1)
Slot == 0..(PageStackSize - 1)

IS_PAGE(p) == p < MaxPage

(***************************************************************************)
(* PM_PageManagerInit, and the registration of the imported pages.  The    *)
(* manager is a global, so the fields Init does not set are 0.             *)
(***************************************************************************)
Init ==
  /\ PageList = Imported
  /\ NewPage = 0 /\ OldPage = 0 /\ NowPage = 0
  /\ NextPage = 0 /\ LastPage = 0
  /\ IsPageBusy = FALSE
  /\ PageStack = [s \in Slot |-> 0]
  /\ PageStackTop = 0
  /\ running = "idle"
  /\ live = {}

(* The part of PM_ChangeTo behind its two guards. *)
Schedule(p) ==
  /\ NewPage' = p
  /\ NextPage' = p
  /\ IsPageBusy' = TRUE

(* The mutants, here and below, are what a bug in the code would make of   *)
(* the definition that follows.                                            *)
PM_ChangeTo_WhileBusy(p) ==
  /\ IS_PAGE(p)
  /\ Schedule(p)
  /\ UNCHANGED <<PageList, stackVars, shownVars>>

PM_ChangeTo(p) ==
  /\ IS_PAGE(p)
  /\ ~IsPageBusy
  /\ Schedule(p)
  /\ UNCHANGED <<PageList, stackVars, shownVars>>

PushAllowed_SamePage(p) ==
  IS_PAGE(p) /\ ~IsPageBusy /\ PageStackTop + 1 < PageStackSize

PushAllowed_OneMore(p) ==
  /\ IS_PAGE(p) /\ ~IsPageBusy
  /\ PageStackTop < PageStackSize
  /\ p # PageStack[PageStackTop]

PushAllowed_WhileBusy(p) ==
  /\ IS_PAGE(p)
  /\ PageStackTop + 1 < PageStackSize
  /\ p # PageStack[PageStackTop]

(* The checks of PM_Push and PM_Pop; a refused call (return 0) changes     *)
(* nothing.                                                                *)
PushAllowed(p) ==
  /\ IS_PAGE(p)
  /\ ~IsPageBusy
  /\ PageStackTop + 1 < PageStackSize
  /\ p # PageStack[PageStackTop]

PopAllowed_WhileBusy == PageStackTop # 0

PopAllowed ==
  /\ ~IsPageBusy
  /\ PageStackTop # 0

PM_Push(p) ==
  /\ PushAllowed(p)
  /\ PageStackTop' = PageStackTop + 1
  /\ PageStack' = [PageStack EXCEPT ![PageStackTop + 1] = p]
  /\ Schedule(p)
  /\ UNCHANGED <<PageList, shownVars>>

PM_Pop_KeepsSlot ==
  /\ PopAllowed
  /\ PageStackTop' = PageStackTop - 1
  /\ Schedule(PageStack[PageStackTop - 1])
  /\ UNCHANGED <<PageStack, PageList, shownVars>>

PM_Pop_ToTheTop ==
  /\ PopAllowed
  /\ PageStack' = [PageStack EXCEPT ![PageStackTop] = 0]
  /\ PageStackTop' = PageStackTop - 1
  /\ Schedule(PageStack[PageStackTop])
  /\ UNCHANGED <<PageList, shownVars>>

PM_Pop ==
  /\ PopAllowed
  /\ PageStack' = [PageStack EXCEPT ![PageStackTop] = 0]
  /\ PageStackTop' = PageStackTop - 1
  /\ Schedule(PageStack[PageStackTop - 1])
  /\ UNCHANGED <<PageList, shownVars>>

(***************************************************************************)
(* PM_Running.  With NewPage = OldPage it only sends PM_MSG_Loop, which    *)
(* every page ignores.                                                     *)
(***************************************************************************)
PM_Running_Exit_OfTheNew ==
  /\ running = "idle"
  /\ NewPage # OldPage
  /\ IsPageBusy' = TRUE
  /\ live' = live \ ({NewPage} \cap PageList)
  /\ running' = "exit"
  /\ UNCHANGED <<PageList, NewPage, NextPage, stackVars,
                 OldPage, NowPage, LastPage>>

PM_Running_Exit ==
  /\ running = "idle"
  /\ NewPage # OldPage
  /\ IsPageBusy' = TRUE
  /\ live' = live \ ({OldPage} \cap PageList)
  /\ running' = "exit"
  /\ UNCHANGED <<PageList, NewPage, NextPage, stackVars,
                 OldPage, NowPage, LastPage>>

PM_Running_Setup ==
  /\ running = "exit"
  /\ LastPage' = OldPage
  /\ NowPage' = NewPage
  /\ live' = live \cup ({NewPage} \cap PageList)
  /\ running' = "setup"
  /\ UNCHANGED <<PageList, switchVars, stackVars, OldPage>>

PM_Running_Done ==
  /\ running = "setup"
  /\ OldPage' = NewPage
  /\ IsPageBusy' = FALSE
  /\ running' = "idle"
  /\ UNCHANGED <<PageList, NewPage, NextPage, stackVars,
                 NowPage, LastPage, live>>

PM_Running == PM_Running_Exit \/ PM_Running_Setup \/ PM_Running_Done

(***************************************************************************)
(* Functions of the interface that nothing in the application calls once   *)
(* the pages are registered.                                               *)
(***************************************************************************)
PM_Register(p) ==
  /\ IS_PAGE(p)
  /\ PageList' = PageList \cup {p}
  /\ UNCHANGED <<switchVars, stackVars, shownVars>>

PM_Clear(p) ==
  /\ IS_PAGE(p)
  /\ PageList' = PageList \ {p}
  /\ UNCHANGED <<switchVars, stackVars, shownVars>>

PM_StackClear ==
  /\ ~IsPageBusy
  /\ PageStack' = [s \in Slot |-> 0]
  /\ PageStackTop' = 0
  /\ UNCHANGED <<PageList, switchVars, shownVars>>

-----------------------------------------------------------------------------
(* The application's use: pages push and pop, the display thread runs. *)
Next ==
  \/ \E p \in PageIds : PM_Push(p)
  \/ PM_Pop
  \/ PM_Running

Spec == Init /\ [][Next]_vars

(* The display thread calls PM_Running in an endless loop, and every Setup *)
(* and Exit callback returns (PageDelay is bounded).                       *)
FairSpec == Spec /\ WF_vars(PM_Running)

(* Any client, calling any function of the interface. *)
ApiNext ==
  \/ Next
  \/ \E p \in PageIds : PM_ChangeTo(p) \/ PM_Register(p) \/ PM_Clear(p)
  \/ PM_StackClear

ApiSpec == Init /\ [][ApiNext]_vars

-----------------------------------------------------------------------------
TypeOK ==
  /\ PageList \subseteq Page
  /\ NewPage \in Page /\ OldPage \in Page /\ NowPage \in Page
  /\ NextPage \in Page /\ LastPage \in Page
  /\ IsPageBusy \in BOOLEAN
  /\ PageStack \in [Slot -> Page]
  /\ PageStackTop \in Slot
  /\ running \in {"idle", "exit", "setup"}
  /\ live \subseteq Page

(* Whatever is called, the slots above the top are clear, the bottom is    *)
(* PAGE_NONE, and no two neighbours are equal, so that PM_Pop never        *)
(* schedules the page it leaves (PM_Push's duplicate check, PM_Pop's       *)
(* clearing of the slot).                                                  *)
StackShape ==
  /\ PageStack[0] = 0
  /\ \A s \in Slot : s > PageStackTop => PageStack[s] = 0
  /\ \A s \in 1..PageStackTop : PageStack[s] # PageStack[s - 1]

(* A busy manager has a switch to make.  PM_Running clears IsPageBusy only *)
(* when NewPage and OldPage differ, so a busy manager without one would    *)
(* refuse every page change for ever.                                      *)
BusyHasWork == IsPageBusy <=> NewPage # OldPage

(* When no switch is under way, the page that gets events is the top of    *)
(* the stack: PM_Pop returns to the page below the one on the screen.      *)
ShownIsTop ==
  /\ NewPage = PageStack[PageStackTop]
  /\ ~IsPageBusy => NowPage = PageStack[PageStackTop]

(* Pages share the screen, the LVGL heap and the sensors: a page is set up *)
(* only after the one before has been torn down, and nothing is torn down  *)
(* that was not set up (the threads an Exit deletes exist).                *)
OnePageLive ==
  live = IF running = "exit" THEN {} ELSE {NowPage} \cap PageList

(* PageManager.h v1.3, "fixed the page switch bug when Setup and Exit      *)
(* block": whatever is called from inside a blocking callback, the switch  *)
(* goes to the page it began with and the stack is not touched.            *)
SwitchIsAtomic ==
  [][running # "idle" => UNCHANGED <<NewPage, stackVars>>]_vars

(* Every page switch completes: the manager accepts page changes again. *)
SwitchCompletes == IsPageBusy ~> ~IsPageBusy

(* What PM_Running's place says of the page fields; with it the invariants *)
(* above are inductive.                                                    *)
Phase ==
  /\ running # "idle" => IsPageBusy
  /\ running # "setup" => NowPage = OldPage
  /\ running = "setup" => NowPage = NewPage

-----------------------------------------------------------------------------
(* The abstract navigator this implements. *)
path == [s \in 1..PageStackTop |-> PageStack[s]]

Nav == INSTANCE Navigation
         WITH Depth <- PageStackSize - 1, None <- 0, shown <- NowPage

(* The manager, with its blocking callbacks and its busy flag, is a        *)
(* navigator: no page change is lost, none is made before the last one is  *)
(* on the screen, and going back shows the page below.                     *)
NavSpec == Nav!Spec

(* Every page the stack calls for comes on the screen. *)
NavReaches == Nav!Reaches
=============================================================================
