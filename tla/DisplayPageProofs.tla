------------------------- MODULE DisplayPageProofs -------------------------
(***************************************************************************)
(* Theorems about the imported pages on the page scheduler: where the user *)
(* can get, and what outlives a page.  They use what PageManagerProofs     *)
(* says of each function of the scheduler.                                 *)
(***************************************************************************)
EXTENDS DisplayPage, PageManagerProofs

USE MaxPageAssumption, PageStackSizeAssumption, DisplayAssumption

USE DEF PAGE_MainMenu, PAGE_SysInfo, PAGE_Dial, PAGE_Main, PAGE_HitPlant,
        PAGE_RGBLed, PAGE_alarm, PAGE_Setting, PAGE_TimeSet, PAGE_MAX

(* The pages by their depth in the menus: StackIsMenuPath says it of each  *)
(* pair of neighbours, this of the whole stack, and so bounds it.          *)
Level(s) ==
  CASE s = 0 -> {0}
    [] s = 1 -> {PAGE_Main}
    [] s = 2 -> {PAGE_MainMenu}
    [] s = 3 -> {PAGE_HitPlant, PAGE_RGBLed, PAGE_alarm, PAGE_Setting}
    [] s = 4 -> {PAGE_TimeSet, PAGE_SysInfo}
    [] OTHER -> {}

MenuPath ==
  /\ PageStackTop <= 4
  /\ \A s \in 0..PageStackTop : PageStack[s] \in Level(s)
  /\ \A s \in 1..PageStackTop : PageStack[s] \in Leads(PageStack[s - 1])

(* The display thread switches pages in one place; while the timers of the *)
(* game exist, or a field is changed, no switch is pending.                *)
Quiet ==
  /\ running # "idle" => place = "PM_Running"
  /\ running = "setup" /\ NowPage = PAGE_HitPlant => blood_num = 3
  /\ gameTimers => /\ ~IsPageBusy /\ NowPage = PAGE_HitPlant
                   /\ blood_num # 0
  /\ is_setting => ~IsPageBusy /\ NowPage = PAGE_TimeSet
  /\ PageList = PAGE_IMPORT

DInv == IInv /\ DisplayTypeOK /\ KeyMeetsIdleManager /\ MenuPath /\ Quiet

(* The main page, shown by PM_Init, is a way down the menus of length one. *)
LEMMA InitDInv == DisplayPage_Init => DInv
<1> SUFFICES ASSUME DisplayPage_Init PROVE DInv
  OBVIOUS
<1> USE DEF DisplayPage_Init
<1>s. 0 \in Slot /\ 1 \in Slot /\ PAGE_Main \in Page /\ 0 \in Page
  BY DEF Slot, Page
<1>1. TypeOK
  <2>1. PageStack \in [Slot -> Page]
    BY <1>s
  <2>2. PageList \subseteq Page
    BY DEF Page, PAGE_IMPORT
  <2> QED BY <1>s, <2>1, <2>2 DEF TypeOK
<1>2. PageStack[0] = 0 /\ PageStack[1] = PAGE_Main
      /\ \A s \in Slot : s # 1 => PageStack[s] = 0
  BY <1>s DEF Slot
<1>3. StackShape
  BY <1>2 DEF StackShape, Slot
<1>4. BusyHasWork /\ ShownIsTop /\ Phase
  BY <1>2 DEF BusyHasWork, ShownIsTop, Phase
<1>5. OnePageLive
  BY DEF OnePageLive, PAGE_IMPORT
<1>6. DisplayTypeOK /\ KeyMeetsIdleManager /\ Quiet
  <2>1. KeyMeetsIdleManager
    BY DEF KeyMeetsIdleManager
  <2>2. ICON_NowSelIndex \in 0..3 /\ focus \in 0..1 /\ blood_num \in 0..255
    OBVIOUS
  <2>3. ~is_setting /\ ~gameTimers /\ is_setting \in BOOLEAN /\ gameTimers \in BOOLEAN
    OBVIOUS
  <2>4. DisplayTypeOK
    BY <2>2, <2>3, Zenon DEF DisplayTypeOK
  <2>5. Quiet
    BY <2>3 DEF Quiet
  <2> QED BY <2>1, <2>4, <2>5
<1>7. MenuPath
  BY <1>2 DEF MenuPath, Level, Leads
<1> QED BY <1>1, <1>3, <1>4, <1>5, <1>6, <1>7 DEF DInv, IInv

(* What the pages do to the scheduler: go down the menus, or back.         *)
MenuMove ==
  \/ UNCHANGED vars
  \/ NowPage # PAGE_Main /\ PM_Pop
  \/ \E p \in Leads(NowPage) : PM_Push(p)

(* Such a move keeps the stack a way down the menus.                       *)
LEMMA MovesKeep ==
  ASSUME IInv, MenuPath, MenuMove
  PROVE  IInv' /\ MenuPath' /\ UNCHANGED <<PageList, shownVars>>
<1>0. PageStackTop \in Slot /\ PageStack \in [Slot -> Page]
  BY DEF IInv, TypeOK
<1>1. CASE UNCHANGED vars
  BY <1>1 DEF vars, switchVars, stackVars, shownVars, IInv, TypeOK, StackShape,
              BusyHasWork, ShownIsTop, OnePageLive, Phase, MenuPath
<1>2. CASE PM_Pop
  <2>1. IInv' /\ UNCHANGED <<PageList, shownVars>>
    BY <1>2, PopIInv DEF PM_Pop
  <2>2. /\ PageStackTop' = PageStackTop - 1
        /\ \A s \in Slot : s # PageStackTop => PageStack'[s] = PageStack[s]
    BY <1>0, <1>2 DEF PM_Pop
  <2>3. MenuPath'
    BY <1>0, <2>2 DEF MenuPath, Slot
  <2> QED BY <2>1, <2>3
<1>3. CASE \E p \in Leads(NowPage) : PM_Push(p)
  <2> PICK p \in Leads(NowPage) : PM_Push(p)
    BY <1>3
  <2>1. p \in 0..255
    BY DEF Leads
  <2>2. IInv' /\ UNCHANGED <<PageList, shownVars>>
    BY <2>1, PushIInv DEF PM_Push
  <2>3. /\ PageStackTop' = PageStackTop + 1 /\ PageStackTop' \in Slot
        /\ PageStack'[PageStackTop + 1] = p
        /\ \A s \in Slot : s # PageStackTop' => PageStack'[s] = PageStack[s]
    BY <1>0 DEF PM_Push, PushAllowed, Slot
  <2>4. NowPage = PageStack[PageStackTop]
    BY DEF PM_Push, PushAllowed, IInv, ShownIsTop
  <2>5. PageStackTop <= 3 /\ p \in Level(PageStackTop + 1)
    <3>1. NowPage \in Level(PageStackTop) /\ PageStackTop \in 0..4
      BY <1>0, <2>4 DEF MenuPath, Slot
    <3> QED BY <3>1 DEF Level, Leads
  <2>6. \A s \in 0..PageStackTop' : PageStack'[s] \in Level(s)
    BY <1>0, <2>3, <2>5 DEF MenuPath, Slot
  <2>7. \A s \in 1..PageStackTop' : PageStack'[s] \in Leads(PageStack'[s - 1])
    BY <1>0, <2>3, <2>4 DEF MenuPath, Slot
  <2> QED BY <1>0, <2>2, <2>3, <2>5, <2>6, <2>7 DEF MenuPath, Slot
<1> QED BY <1>1, <1>2, <1>3 DEF MenuMove

(* A key moves along the menus, and not at all while the game lasts or a   *)
(* field is changed.                                                       *)
LEMMA KeyMoves ==
  ASSUME DInv, place = "KeyScan", NEW key \in Key, Send(key)
  PROVE  /\ MenuMove /\ UNCHANGED gameVars
         /\ ICON_NowSelIndex' \in 0..3 /\ focus' \in 0..1 /\ is_setting' \in BOOLEAN
         /\ gameTimers => UNCHANGED <<vars, is_setting>>
         /\ is_setting' => UNCHANGED vars /\ NowPage = PAGE_TimeSet
<1> USE DEF DInv, Quiet, DisplayTypeOK, Push, Pop, uiVars, gameVars, MenuMove
<1>1. CASE NowPage = PAGE_Main /\ Main_Event(key)
  BY <1>1 DEF Main_Event, Leads
<1>2. CASE NowPage = PAGE_MainMenu /\ MainMenu_Event(key)
  <2>1. AppICON_Grp[ICON_NowSelIndex + 1] \in Leads(NowPage)
    BY <1>2 DEF AppICON_Grp, Leads
  <2>2. ICON_NowSelIndex' \in 0..3
    BY <1>2 DEF MainMenu_Event, Wrap, Key
  <2> QED BY <1>2, <2>1, <2>2 DEF MainMenu_Event
<1>3. CASE NowPage = PAGE_Setting /\ Setting_Event(key)
  <2>1. Setttings[focus + 1] \in Leads(NowPage)
    BY <1>3 DEF Setttings, Leads
  <2>2. focus' \in 0..1
    BY <1>3 DEF Setting_Event, Wrap, Key
  <2> QED BY <1>3, <2>1, <2>2 DEF Setting_Event
<1>4. CASE NowPage = PAGE_TimeSet /\ TimeSet_Event(key)
  <2>1. UNCHANGED <<ICON_NowSelIndex, focus>> /\ UNCHANGED gameVars
    BY <1>4 DEF TimeSet_Event
  <2>2. ~gameTimers
    BY <1>4
  <2>3. \/ UNCHANGED vars /\ is_setting' \in BOOLEAN
        \/ Pop /\ is_setting' = FALSE
    <3>1. CASE key = "LEFT"
      <4>1. TimeSet_Event(key) => /\ IF is_setting THEN UNCHANGED vars ELSE Pop
                                  /\ is_setting' = FALSE
        BY <3>1, Zenon DEF TimeSet_Event
      <4> QED BY <1>4, <4>1, Zenon
    <3>2. CASE key = "RIGHT"
      BY <1>4, <3>2 DEF TimeSet_Event
    <3>3. CASE key # "LEFT" /\ key # "RIGHT"
      BY <1>4, <3>3 DEF TimeSet_Event
    <3> QED BY <3>1, <3>2, <3>3
  <2>4. MenuMove
    BY <1>4, <2>3
  <2> QED BY <1>4, <2>1, <2>2, <2>3, <2>4
<1>5. CASE NowPage = PAGE_HitPlant /\ HitPlant_Event(key)
  BY <1>5 DEF HitPlant_Event
<1>6. CASE NowPage \in {PAGE_alarm, PAGE_RGBLed} /\ Sensor_Event(key)
  BY <1>6 DEF Sensor_Event
<1>7. CASE NowPage \notin PageList /\ UNCHANGED <<vars, uiVars, gameVars>>
  BY <1>7 DEF PAGE_IMPORT
<1> QED BY <1>1, <1>2, <1>3, <1>4, <1>5, <1>6, <1>7 DEF Send

(* PM_Running leaves the stack alone. *)
LEMMA RunningKeepsMenu ==
  ASSUME MenuPath, PM_Running PROVE MenuPath' /\ UNCHANGED PageList
BY DEF PM_Running, PM_Running_Exit, PM_Running_Setup, PM_Running_Done,
       stackVars, MenuPath

(* Every step of the display thread, and of LVGL's timers, keeps DInv.     *)
LEMMA NextDInv == DInv /\ [DisplayNext]_displayVars => DInv'
<1> SUFFICES ASSUME DInv, [DisplayNext]_displayVars PROVE DInv'
  OBVIOUS
<1> USE DEF uiVars, gameVars
<1>1. CASE SwitchExit
  <2>1. IInv' /\ MenuPath' /\ UNCHANGED PageList
    BY <1>1, RunningIInv, RunningKeepsMenu DEF SwitchExit, PM_Running, DInv
  <2>2. DisplayTypeOK' /\ KeyMeetsIdleManager'
    BY <1>1 DEF SwitchExit, DInv, DisplayTypeOK, KeyMeetsIdleManager
  <2>3. ~gameTimers /\ ~is_setting
    BY <1>1 DEF SwitchExit, PM_Running_Exit, DInv, Quiet, IInv, BusyHasWork
  <2>4. Quiet'
    BY <1>1, <2>1, <2>3 DEF SwitchExit, PM_Running_Exit, DInv, Quiet
  <2> QED BY <2>1, <2>2, <2>4 DEF DInv
<1>2. CASE SwitchSetup
  <2>1. IInv' /\ MenuPath' /\ UNCHANGED PageList
    BY <1>2, RunningIInv, RunningKeepsMenu DEF SwitchSetup, PM_Running, DInv
  <2>2. DisplayTypeOK' /\ KeyMeetsIdleManager'
    <3>1. is_setting' \in BOOLEAN
      BY <1>2, Zenon DEF SwitchSetup, DInv, DisplayTypeOK
    <3>2. focus' \in 0..1 /\ blood_num' \in 0..255
      BY <1>2 DEF SwitchSetup, DInv, DisplayTypeOK
    <3> QED BY <1>2, <3>1, <3>2 DEF SwitchSetup, DInv, DisplayTypeOK, KeyMeetsIdleManager
  <2>3. ~gameTimers /\ ~is_setting
    BY <1>2 DEF SwitchSetup, PM_Running_Setup, DInv, Quiet, IInv, Phase
  <2>4. Quiet'
    BY <1>2, <2>1, <2>3 DEF SwitchSetup, PM_Running_Setup, switchVars, DInv, Quiet
  <2> QED BY <2>1, <2>2, <2>4 DEF DInv
<1>3. CASE SwitchDone
  <2>1. IInv' /\ MenuPath' /\ UNCHANGED PageList
    BY <1>3, RunningIInv, RunningKeepsMenu DEF SwitchDone, PM_Running, DInv
  <2>2. DisplayTypeOK' /\ KeyMeetsIdleManager'
    BY <1>3 DEF SwitchDone, PM_Running_Done, DInv, DisplayTypeOK, KeyMeetsIdleManager
  <2>3. ~gameTimers /\ ~is_setting
    BY <1>3 DEF SwitchDone, PM_Running_Done, DInv, Quiet, IInv, Phase
  <2>4. Quiet'
    BY <1>3, <2>1, <2>3 DEF SwitchDone, PM_Running_Done, DInv, Quiet
  <2> QED BY <2>1, <2>2, <2>4 DEF DInv
<1>4. CASE NoSwitch
  <2>1. IInv' /\ MenuPath'
    BY <1>4, MovesKeep DEF NoSwitch, MenuMove, DInv
  <2>2. ~IsPageBusy
    BY <1>4 DEF NoSwitch, DInv, IInv, BusyHasWork
  <2> QED BY <1>4, <2>1, <2>2
          DEF NoSwitch, DInv, DisplayTypeOK, KeyMeetsIdleManager, Quiet, vars,
              switchVars, shownVars
<1>5. CASE KeyScan
  <2>1. CASE UNCHANGED <<vars, uiVars, gameVars>>
    <3>1. IInv' /\ MenuPath'
      BY <2>1, MovesKeep DEF MenuMove, DInv
    <3> QED BY <1>5, <2>1, <3>1
            DEF KeyScan, DInv, DisplayTypeOK, KeyMeetsIdleManager, Quiet, vars,
                switchVars, shownVars
  <2>2. CASE \E key \in Key : Send(key)
    <3> PICK key \in Key : Send(key)
      BY <2>2
    <3>0. place = "KeyScan" /\ place' = "lvgl" /\ running = "idle" /\ ~IsPageBusy
      BY <1>5 DEF KeyScan, DInv, KeyMeetsIdleManager
    <3>1. /\ MenuMove /\ UNCHANGED gameVars
          /\ ICON_NowSelIndex' \in 0..3 /\ focus' \in 0..1 /\ is_setting' \in BOOLEAN
          /\ gameTimers => UNCHANGED <<vars, is_setting>>
          /\ is_setting' => UNCHANGED vars /\ NowPage = PAGE_TimeSet
      BY <3>0, KeyMoves
    <3>2. IInv' /\ MenuPath' /\ UNCHANGED <<PageList, shownVars>>
      BY <3>1, MovesKeep DEF DInv
    <3>3. DisplayTypeOK' /\ KeyMeetsIdleManager'
      BY <3>0, <3>1 DEF DInv, DisplayTypeOK, KeyMeetsIdleManager
    <3>4. Quiet'
      BY <3>0, <3>1, <3>2 DEF DInv, Quiet, shownVars, vars, switchVars
    <3> QED BY <3>2, <3>3, <3>4 DEF DInv
  <2> QED BY <1>5, <2>1, <2>2 DEF KeyScan
<1>6. CASE LvTaskHandler
  <2>1. IInv' /\ MenuPath'
    BY <1>6, MovesKeep DEF LvTaskHandler, MenuMove, DInv
  <2> QED BY <1>6, <2>1
          DEF LvTaskHandler, DInv, DisplayTypeOK, KeyMeetsIdleManager, Quiet, vars,
              switchVars, shownVars
<1>7. CASE Collision
  <2>1. IInv' /\ MenuPath'
    BY <1>7, MovesKeep DEF Collision, MenuMove, DInv
  <2>2. DisplayTypeOK' /\ KeyMeetsIdleManager'
    BY <1>7 DEF Collision, DInv, DisplayTypeOK, KeyMeetsIdleManager, vars,
                switchVars, shownVars
  <2>3. running = "idle"
    BY <1>7 DEF Collision, DInv, Quiet, IInv, Phase
  <2>4. Quiet'
    BY <1>7, <2>2, <2>3 DEF Collision, DInv, Quiet, DisplayTypeOK, vars,
                            switchVars, shownVars
  <2> QED BY <2>1, <2>2, <2>4 DEF DInv
<1>8. CASE UNCHANGED displayVars
  <2>1. IInv' /\ MenuPath'
    BY <1>8, MovesKeep DEF displayVars, MenuMove, DInv
  <2> QED BY <1>8, <2>1
          DEF displayVars, DInv, DisplayTypeOK, KeyMeetsIdleManager, Quiet, vars,
              switchVars, shownVars
<1> QED BY <1>1, <1>2, <1>3, <1>4, <1>5, <1>6, <1>7, <1>8 DEF DisplayNext

(* DInv holds in every state.                                              *)
LEMMA DInvInvariant == DisplaySpec => []DInv
  BY InitDInv, NextDInv, PTL DEF DisplaySpec

(* The walk on the menus: what the pages do to the scheduler is what the   *)
(* user may do, and the rest of the display loop shows where that led.     *)
Walk ==
  \/ \E p \in Leads(Nav!Here) : Nav!Forward(p)
  \/ Nav!Back /\ path' # <<>>
  \/ Nav!Show

(* A page's move is the user's: down a menu, or back but for PAGE_Main.    *)
LEMMA MoveWalks ==
  ASSUME IInv, IInv', MenuPath, MenuMove PROVE [Walk]_(Nav!vars)
<1>1. CASE UNCHANGED vars
  BY <1>1 DEF vars, stackVars, shownVars, Nav!vars, path
<1>2. CASE NowPage # PAGE_Main /\ PM_Pop
  <2>1. Nav!Back
    BY <1>2, PopIsBack
  <2>2. PageStackTop \in Nat /\ NowPage = PageStack[PageStackTop]
    BY <1>2 DEF PM_Pop, PopAllowed, IInv, TypeOK, ShownIsTop, Slot
  <2>3. PageStackTop > 1
    <3>1. PageStackTop # 0
      BY <1>2 DEF PM_Pop, PopAllowed
    <3>2. PageStackTop # 1
      BY <1>2, <2>2 DEF MenuPath, Level
    <3> QED BY <2>2, <3>1, <3>2
  <2>4. PageStackTop' = PageStackTop - 1
    BY <1>2 DEF PM_Pop
  <2>5. path' = [s \in 1..PageStackTop' |-> PageStack'[s]]
    BY DEF path
  <2>6. path' # <<>>
    <3>1. 1 \in DOMAIN path'
      BY <2>2, <2>3, <2>4, <2>5
    <3> QED BY <3>1
  <2> QED BY <2>1, <2>6 DEF Walk
<1>3. CASE \E p \in Leads(NowPage) : PM_Push(p)
  <2> PICK p \in Leads(NowPage) : PM_Push(p)
    BY <1>3
  <2>1. p \in 0..255
    BY DEF Leads
  <2>2. Nav!Forward(p)
    BY <2>1, PushIsForward
  <2>3. NowPage = Nav!Here
    BY <2>2 DEF Nav!Forward
  <2> QED BY <2>2, <2>3 DEF Walk
<1> QED BY <1>1, <1>2, <1>3 DEF MenuMove

(* What PM_Running does is seen as showing the page the walk led to.       *)
LEMMA RunningWalks ==
  ASSUME IInv, IInv', PM_Running PROVE [Walk]_(Nav!vars)
BY RunningIsShow DEF Walk, Nav!vars

(* Every step of the display loop is a step of the walk, or none.          *)
LEMMA StepWalks ==
  ASSUME DInv, DInv', [DisplayNext]_displayVars PROVE [Walk]_(Nav!vars)
<1> USE DEF DInv
<1>1. CASE SwitchExit \/ SwitchSetup \/ SwitchDone
  <2>1. PM_Running
    BY <1>1 DEF SwitchExit, SwitchSetup, SwitchDone, PM_Running
  <2> QED BY <2>1, RunningWalks
<1>2. CASE UNCHANGED vars
  BY <1>2, MoveWalks DEF MenuMove
<1>3. CASE KeyScan
  <2>1. CASE \E key \in Key : Send(key)
    <3>1. MenuMove
      BY <1>3, <2>1, KeyMoves DEF KeyScan
    <3> QED BY <3>1, MoveWalks
  <2>2. CASE UNCHANGED <<vars, uiVars, gameVars>>
    BY <1>2, <2>2
  <2> QED BY <1>3, <2>1, <2>2 DEF KeyScan
<1>4. CASE NoSwitch \/ LvTaskHandler \/ Collision
  BY <1>2, <1>4 DEF NoSwitch, LvTaskHandler, Collision
<1>5. CASE UNCHANGED displayVars
  BY <1>2, <1>5 DEF displayVars
<1> QED BY <1>1, <1>3, <1>4, <1>5 DEF DisplayNext

(* The pages, their key handlers and the page manager together are a walk  *)
(* on the menus: every page is entered from the one it is listed in, every *)
(* page but PAGE_Main can only be left for where it was entered from.      *)
THEOREM MenusWalked == DisplaySpec => WalksMenus
<1>1. DisplayPage_Init => path = <<PAGE_Main>> /\ NowPage = 0
  <2> SUFFICES ASSUME DisplayPage_Init PROVE path = <<PAGE_Main>> /\ NowPage = 0
    OBVIOUS
  <2>1. PageStackTop = 1 /\ PageStack[1] = PAGE_Main /\ NowPage = 0
    BY DEF DisplayPage_Init, Slot
  <2>2. path = [s \in 1..1 |-> PAGE_Main]
    BY <2>1 DEF path
  <2> QED BY <2>1, <2>2
<1>2. DInv /\ DInv' /\ [DisplayNext]_displayVars => [Walk]_(Nav!vars)
  BY StepWalks
<1> QED BY <1>1, <1>2, DInvInvariant, PTL DEF DisplaySpec, WalksMenus, Walk

(* The selections stay within their menus and the life count in its byte.  *)
THEOREM DisplayTypeCorrect == DisplaySpec => []DisplayTypeOK
  BY DInvInvariant, PTL DEF DInv

(* A key never meets a busy manager: no page change a key asks for is      *)
(* refused or overtaken.                                                   *)
THEOREM KeysMeetIdleManager == DisplaySpec => []KeyMeetsIdleManager
  BY DInvInvariant, PTL DEF DInv

(* The stack is a way down the menus and never full.                       *)
THEOREM BackTheWayOneCame == DisplaySpec => []StackIsMenuPath
<1>1. DInv => StackIsMenuPath
  BY DEF DInv, MenuPath, StackIsMenuPath, IInv, TypeOK, Slot
<1> QED BY <1>1, DInvInvariant, PTL

(* The timers of the game exist only while its page is set up.             *)
THEOREM TimersGoWithThePage == DisplaySpec => []TimersOnlyInGame
<1>1. DInv => TimersOnlyInGame
  BY DEF DInv, Quiet, TimersOnlyInGame, IInv, Phase, OnePageLive, PAGE_IMPORT
<1> QED BY <1>1, DInvInvariant, PTL

(* The time page is never entered or left while a field is changed.        *)
THEOREM SettingEndsOnThePage == DisplaySpec => []NotLeftSetting
<1>1. DInv => NotLeftSetting
  BY DEF DInv, Quiet, NotLeftSetting
<1> QED BY <1>1, DInvInvariant, PTL
=============================================================================
