------------------------- MODULE PageManagerProofs -------------------------
(***************************************************************************)
(* Proofs about the page scheduler, for every number of pages, every depth *)
(* of the stack, every set of registered pages and every client.           *)
(***************************************************************************)
EXTENDS PageManager, SequenceTheorems, TLAPS

(* The inductive invariant.  ShownIsTop needs BusyHasWork (an idle manager *)
(* has shown what was scheduled) and BusyHasWork needs both ShownIsTop     *)
(* (PM_Push compares with the top of the stack, not with OldPage) and      *)
(* StackShape (PM_Pop does not compare at all).                            *)
IInv == TypeOK /\ StackShape /\ BusyHasWork /\ ShownIsTop /\ OnePageLive /\ Phase

USE MaxPageAssumption, PageStackSizeAssumption, PageIdsAssumption, ImportedAssumption

(* The scheduler starts in a state of the invariant. *)
LEMMA InitIInv == Init => IInv
<1> SUFFICES ASSUME Init PROVE IInv
  OBVIOUS
<1> USE DEF Init, Page, Slot
<1>1. TypeOK
  <2>1. 0 \in Page /\ 0 \in Slot /\ Imported \subseteq Page
    OBVIOUS
  <2>2. PageStack \in [Slot -> Page]
    BY <2>1
  <2> QED BY <2>1, <2>2, Zenon DEF TypeOK
<1>2. StackShape
  BY DEF StackShape
<1>3. BusyHasWork /\ ShownIsTop /\ Phase
  BY DEF BusyHasWork, ShownIsTop, Phase
<1>4. OnePageLive
  BY DEF OnePageLive
<1> QED BY <1>1, <1>2, <1>3, <1>4 DEF IInv

(* PM_Push keeps the invariant: the page it stacks differs from the top,   *)
(* which is the page on the screen.                                        *)
LEMMA PushIInv == ASSUME IInv, NEW p \in 0..255, PM_Push(p) PROVE IInv'
<1> USE DEF PM_Push, PushAllowed, Schedule, IS_PAGE, shownVars
<1>t. /\ PageStackTop \in Slot /\ PageStackTop + 1 \in Slot
      /\ PageStack \in [Slot -> Page]
      /\ p \in Page
  BY DEF IInv, TypeOK, Slot, Page
<1>s. /\ PageStack'[PageStackTop'] = p
      /\ \A s \in Slot : s # PageStackTop' => PageStack'[s] = PageStack[s]
  BY <1>t
<1>1. TypeOK'
  BY <1>t DEF IInv, TypeOK
<1>2. StackShape'
  <2>1. PageStack'[0] = 0
    BY <1>s, <1>t DEF IInv, StackShape, Slot
  <2>2. \A s \in Slot : s > PageStackTop' => PageStack'[s] = 0
    BY <1>s, <1>t DEF IInv, StackShape, Slot
  <2>3. ASSUME NEW s \in 1..PageStackTop' PROVE PageStack'[s] # PageStack'[s - 1]
    <3>1. s \in Slot /\ s - 1 \in Slot /\ s - 1 # PageStackTop'
      BY <1>t DEF Slot
    <3>2. CASE s = PageStackTop'
      BY <1>s, <1>t, <3>1, <3>2 DEF Slot
    <3>3. CASE s # PageStackTop'
      BY <1>s, <1>t, <3>1, <3>3 DEF IInv, StackShape, Slot
    <3> QED BY <3>2, <3>3
  <2> QED BY <2>1, <2>2, <2>3 DEF StackShape
<1>3. BusyHasWork' /\ ShownIsTop'
  BY <1>s, <1>t DEF IInv, BusyHasWork, ShownIsTop, Phase
<1>4. OnePageLive' /\ Phase'
  BY DEF IInv, OnePageLive, Phase, BusyHasWork
<1> QED BY <1>1, <1>2, <1>3, <1>4 DEF IInv

(* PM_Pop keeps the invariant: neighbours on the stack differ, so the page *)
(* below the top is not the one on the screen.                             *)
LEMMA PopIInv == ASSUME IInv, PM_Pop PROVE IInv'
<1> USE DEF PM_Pop, PopAllowed, Schedule, shownVars
<1>t. /\ PageStackTop \in Slot /\ PageStackTop - 1 \in Slot
      /\ PageStack \in [Slot -> Page]
  BY DEF IInv, TypeOK, Slot
<1>s. /\ PageStack'[PageStackTop] = 0
      /\ \A s \in Slot : s # PageStackTop => PageStack'[s] = PageStack[s]
  BY <1>t
<1>1. TypeOK'
  BY <1>t DEF IInv, TypeOK, Page
<1>2. StackShape'
  BY <1>s, <1>t DEF IInv, StackShape, Slot
<1>3. PageStack[PageStackTop] # PageStack[PageStackTop - 1]
  BY <1>t DEF IInv, StackShape, Slot
<1>4. BusyHasWork' /\ ShownIsTop'
  BY <1>s, <1>t, <1>3 DEF IInv, BusyHasWork, ShownIsTop, Phase, Slot
<1>5. OnePageLive' /\ Phase'
  BY DEF IInv, OnePageLive, Phase, BusyHasWork
<1> QED BY <1>1, <1>2, <1>4, <1>5 DEF IInv

(* PM_Running keeps the invariant, at each of its three places. *)
LEMMA RunningIInv == ASSUME IInv, PM_Running PROVE IInv'
<1> USE DEF IInv, switchVars, stackVars
<1>1. CASE PM_Running_Exit
  BY <1>1 DEF PM_Running_Exit, TypeOK, StackShape, BusyHasWork, ShownIsTop,
              OnePageLive, Phase
<1>2. CASE PM_Running_Setup
  BY <1>2 DEF PM_Running_Setup, TypeOK, StackShape, BusyHasWork, ShownIsTop,
              OnePageLive, Phase
<1>3. CASE PM_Running_Done
  BY <1>3 DEF PM_Running_Done, TypeOK, StackShape, BusyHasWork, ShownIsTop,
              OnePageLive, Phase
<1> QED BY <1>1, <1>2, <1>3 DEF PM_Running

(* Every step of the application keeps the invariant. *)
LEMMA NextIInv == IInv /\ [Next]_vars => IInv'
<1> SUFFICES ASSUME IInv, [Next]_vars PROVE IInv'
  OBVIOUS
<1>1. CASE \E p \in PageIds : PM_Push(p)
  BY <1>1, PushIInv
<1>2. CASE PM_Pop
  BY <1>2, PopIInv
<1>3. CASE PM_Running
  BY <1>3, RunningIInv
<1>4. CASE UNCHANGED vars
  BY <1>4 DEF vars, switchVars, stackVars, shownVars, IInv, TypeOK, StackShape,
              BusyHasWork, ShownIsTop, OnePageLive, Phase
<1> QED BY <1>1, <1>2, <1>3, <1>4 DEF Next

(* The invariant holds in every state of the application. *)
LEMMA IInvInvariant == Spec => []IInv
  BY InitIInv, NextIInv, PTL DEF Spec

(* Every field keeps its type: no index runs off the page list or stack. *)
THEOREM TypeCorrect == Spec => []TypeOK
  BY IInvInvariant, PTL DEF IInv

(* Clear slots above the top, PAGE_NONE at the bottom, no equal neighbours: *)
(* PM_Pop never schedules the page it leaves.                              *)
THEOREM WellFormedStack == Spec => []StackShape
  BY IInvInvariant, PTL DEF IInv

(* A busy scheduler always has a switch to make: it cannot wedge. *)
THEOREM NeverWedged == Spec => []BusyHasWork
  BY IInvInvariant, PTL DEF IInv

(* The page that gets events is the top of the stack between switches. *)
THEOREM ScreenFollowsStack == Spec => []ShownIsTop
  BY IInvInvariant, PTL DEF IInv

(* No two pages are set up at once, and none is torn down twice. *)
THEOREM OneLivePage == Spec => []OnePageLive
  BY IInvInvariant, PTL DEF IInv

-----------------------------------------------------------------------------
(* The refinement. *)

(* The path is a sequence of pages as long as the stack is high. *)
LEMMA PathShape ==
  ASSUME TypeOK
  PROVE  /\ path \in Seq(Page) /\ Len(path) = PageStackTop
         /\ \A s \in 1..PageStackTop : path[s] = PageStack[s]
<1>1. PageStackTop \in Nat /\ \A s \in 1..PageStackTop : PageStack[s] \in Page
  BY DEF TypeOK, Slot
<1>2. path \in [1..PageStackTop -> Page]
  BY <1>1 DEF path
<1> QED BY <1>1, <1>2 DEF path

(* The navigator is at the page on top of the stack. *)
LEMMA HereIsTop == ASSUME TypeOK, StackShape PROVE Nav!Here = PageStack[PageStackTop]
<1>1. PageStackTop \in Nat
  BY DEF TypeOK, Slot
<1>2. CASE PageStackTop = 0
  BY <1>2, PathShape DEF Nav!Here, StackShape
<1>3. CASE PageStackTop # 0
  <2>1. path # <<>> /\ PageStackTop \in 1..PageStackTop
    BY <1>1, <1>3, PathShape
  <2> QED BY <2>1, PathShape DEF Nav!Here
<1> QED BY <1>2, <1>3

(* A push is a step forward on the path. *)
LEMMA PushIsForward ==
  ASSUME IInv, IInv', NEW p \in 0..255, PM_Push(p) PROVE p \in Page /\ Nav!Forward(p)
<1> USE DEF PM_Push, PushAllowed, IS_PAGE
<1>0. p \in Page
  BY DEF Page
<1>1. PageStackTop \in Nat /\ Len(path) < PageStackSize - 1
  BY PathShape DEF IInv, TypeOK, Slot
<1>2. NowPage = Nav!Here /\ p # Nav!Here
  BY HereIsTop DEF IInv, ShownIsTop
<1>3. path' = Append(path, p)
  <2>1. /\ path' \in Seq(Page) /\ Len(path') = PageStackTop + 1
        /\ \A s \in 1..(PageStackTop + 1) : path'[s] = PageStack'[s]
    <3>1. path' = [s \in 1..(PageStackTop + 1) |-> PageStack'[s]]
      BY DEF path
    <3>2. \A s \in 1..(PageStackTop + 1) : PageStack'[s] \in Page
      BY <1>1 DEF IInv, TypeOK, Slot
    <3>3. path' \in [1..(PageStackTop + 1) -> Page]
      BY <3>1, <3>2
    <3> QED BY <1>1, <3>1, <3>3
  <2>2. /\ Append(path, p) \in Seq(Page) /\ Len(Append(path, p)) = PageStackTop + 1
        /\ \A s \in 1..PageStackTop : Append(path, p)[s] = PageStack[s]
        /\ Append(path, p)[PageStackTop + 1] = p
    BY <1>0, <1>1, PathShape, AppendProperties DEF IInv
  <2>3. \A s \in 1..(PageStackTop + 1) : path'[s] = Append(path, p)[s]
    BY <1>1, <2>1, <2>2 DEF IInv, TypeOK, Slot
  <2> QED BY <2>1, <2>2, <2>3, SeqEqual
<1> QED BY <1>0, <1>1, <1>2, <1>3 DEF Nav!Forward, shownVars

(* A pop is a step back on the path. *)
LEMMA PopIsBack == ASSUME IInv, IInv', PM_Pop PROVE Nav!Back
<1> USE DEF PM_Pop, PopAllowed, PopAllowed
<1>1. PageStackTop \in Nat \ {0} /\ path # <<>>
  BY PathShape DEF IInv, TypeOK, Slot
<1>2. NowPage = Nav!Here
  BY HereIsTop DEF IInv, ShownIsTop
<1>3. path' = SubSeq(path, 1, Len(path) - 1)
  <2>1. path' = [s \in 1..(PageStackTop - 1) |-> PageStack'[s]]
    BY DEF path
  <2>2. SubSeq(path, 1, Len(path) - 1)
          = [s \in 1..(PageStackTop - 1) |-> path[s]]
    BY <1>1, PathShape DEF IInv
  <2>3. \A s \in 1..(PageStackTop - 1) : PageStack'[s] = path[s]
    BY <1>1, PathShape DEF IInv, TypeOK, Slot
  <2> QED BY <2>1, <2>2, <2>3
<1> QED BY <1>1, <1>2, <1>3 DEF Nav!Back, shownVars

(* Of PM_Running, only the change of NowPage is a step of the navigator. *)
LEMMA RunningIsShow ==
  ASSUME IInv, IInv', PM_Running PROVE Nav!Show \/ UNCHANGED <<path, NowPage>>
<1>1. UNCHANGED path
  BY DEF PM_Running, PM_Running_Exit, PM_Running_Setup, PM_Running_Done,
         stackVars, path
<1>2. CASE PM_Running_Setup
  <2>1. NowPage' = Nav!Here
    BY <1>2, HereIsTop DEF PM_Running_Setup, IInv, ShownIsTop
  <2>2. NowPage # NewPage
    BY <1>2 DEF PM_Running_Setup, IInv, Phase, BusyHasWork
  <2> QED BY <1>1, <1>2, <2>1, <2>2 DEF Nav!Show, PM_Running_Setup
<1>3. CASE PM_Running_Exit \/ PM_Running_Done
  BY <1>1, <1>3 DEF PM_Running_Exit, PM_Running_Done
<1> QED BY <1>2, <1>3 DEF PM_Running

(* The page scheduler implements the navigator: page changes are neither   *)
(* lost nor overtaken, whatever is called from the blocking callbacks.     *)
THEOREM Refinement == Spec => NavSpec
<1>1. Init => Nav!Init
  <2> SUFFICES ASSUME Init PROVE Nav!Init
    OBVIOUS
  <2>1. path = <<>>
    BY DEF Init, path
  <2> QED BY <2>1 DEF Init, Nav!Init
<1>2. IInv /\ IInv' /\ [Next]_vars => [Nav!Next]_(Nav!vars)
  <2> SUFFICES ASSUME IInv, IInv', [Next]_vars PROVE [Nav!Next]_(Nav!vars)
    OBVIOUS
  <2>1. CASE \E p \in PageIds : PM_Push(p)
    BY <2>1, PushIsForward DEF Nav!Next
  <2>2. CASE PM_Pop
    BY <2>2, PopIsBack DEF Nav!Next
  <2>3. CASE PM_Running
    BY <2>3, RunningIsShow DEF Nav!Next, Nav!vars
  <2>4. CASE UNCHANGED vars
    BY <2>4 DEF vars, stackVars, shownVars, Nav!vars, path
  <2> QED BY <2>1, <2>2, <2>3, <2>4 DEF Next
<1> QED BY <1>1, <1>2, IInvInvariant, PTL DEF Spec, NavSpec, Nav!Spec

-----------------------------------------------------------------------------
(* The whole interface, called by any client. *)

(* A blocking callback runs only while the manager is busy. *)
BlockedIsBusy == running # "idle" => IsPageBusy

(* No function of the interface frees a manager that is in a callback. *)
LEMMA BlockedIsBusyInvariant == ApiSpec => []BlockedIsBusy
<1>1. Init => BlockedIsBusy
  BY DEF Init, BlockedIsBusy
<1>2. BlockedIsBusy /\ [ApiNext]_vars => BlockedIsBusy'
  BY DEF BlockedIsBusy, ApiNext, Next, PM_Push, PushAllowed,
         PM_Pop, PopAllowed, PM_Running,
         PM_Running_Exit, PM_Running_Setup, PM_Running_Done, PM_ChangeTo,
         PM_Register, PM_Clear, PM_StackClear, Schedule,
         vars, switchVars, stackVars, shownVars
<1> QED BY <1>1, <1>2, PTL DEF ApiSpec

(* PageManager.h v1.3: no call from inside a blocking Setup or Exit, of    *)
(* whatever function, changes the target of the switch or the stack.       *)
THEOREM BlockedSwitchAtomic == ApiSpec => SwitchIsAtomic
<1>1. BlockedIsBusy /\ [ApiNext]_vars
        => [running # "idle" => UNCHANGED <<NewPage, stackVars>>]_vars
  BY DEF BlockedIsBusy, ApiNext, Next, PM_Push, PushAllowed,
         PM_Pop, PopAllowed, PM_Running,
         PM_Running_Exit, PM_Running_Setup, PM_Running_Done, PM_ChangeTo,
         PM_Register, PM_Clear, PM_StackClear, vars, switchVars, stackVars
<1> QED BY <1>1, BlockedIsBusyInvariant, PTL DEF ApiSpec, SwitchIsAtomic
=============================================================================
