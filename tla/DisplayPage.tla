---------------------------- MODULE DisplayPage ----------------------------
(***************************************************************************)
(* The UI of the board: the pages imported by DisplayPage.c, their key     *)
(* handlers, and the display thread that runs the page manager, scans the  *)
(* keys and runs LVGL, in that order, for ever.                            *)
(*                                                                         *)
(* KeyScan.tla says when a scan reports a key; here any scan may report    *)
(* any key.  HitPlant.tla has the game itself; here its lives only go      *)
(* down, one collision at a time.                                          *)
(***************************************************************************)
EXTENDS PageManager

(* Page_Type and Key_Enum, DisplayPrivate.h. *)
PAGE_MainMenu == 1
PAGE_SysInfo == 3
PAGE_Dial == 4
PAGE_Main == 5
PAGE_HitPlant == 9
PAGE_RGBLed == 10
PAGE_alarm == 11
PAGE_Setting == 12
PAGE_TimeSet == 13
PAGE_MAX == 16

Key == {"LEFT", "RIGHT", "UP", "DOWN"}

(* The pages of the PAGE_IMPORT list. *)
PAGE_IMPORT == {PAGE_MainMenu, PAGE_Dial, PAGE_Main, PAGE_HitPlant,
                PAGE_alarm, PAGE_RGBLed, PAGE_Setting, PAGE_TimeSet}

(* The pages behind the icons of the menu and the lines of the settings. *)
AppICON_Grp == <<PAGE_HitPlant, PAGE_RGBLed, PAGE_alarm, PAGE_Setting>>
Setttings == <<PAGE_TimeSet, PAGE_SysInfo>>

(* What PM_PageManagerInit gets, PAGE_MAX and ten slots, is enough.         *)
ASSUME DisplayAssumption == MaxPage >= PAGE_MAX /\ PageStackSize >= 6

VARIABLES
  place,             \* the display thread: PM_Running, KeyScan or lvgl
  ICON_NowSelIndex,  \* the selected icon of the menu, kept between visits
  focus,             \* the focused line of the settings
  is_setting,        \* the time page: a field is being changed
  blood_num,         \* the game: lives left
  gameTimers         \* the game: its three LVGL timers exist

uiVars == <<ICON_NowSelIndex, focus, is_setting>>
gameVars == <<blood_num, gameTimers>>
displayVars == <<vars, place, uiVars, gameVars>>

(***************************************************************************)
(* DisplayPage_Init: the pages are imported and PAGE_Main is pushed.       *)
(***************************************************************************)
DisplayPage_Init ==
  /\ PageList = PAGE_IMPORT
  /\ NewPage = PAGE_Main /\ NextPage = PAGE_Main /\ IsPageBusy = TRUE
  /\ OldPage = 0 /\ NowPage = 0 /\ LastPage = 0
  /\ PageStack = [s \in Slot |-> IF s = 1 THEN PAGE_Main ELSE 0]
  /\ PageStackTop = 1
  /\ running = "idle" /\ live = {}
  /\ place = "PM_Running"
  /\ ICON_NowSelIndex = 0 /\ focus = 0 /\ is_setting = FALSE
  /\ blood_num = 3 /\ gameTimers = FALSE

(* A page's use of PM_Push and PM_Pop, whose result no page looks at. *)
Push(p) == PM_Push(p) \/ (~PushAllowed(p) /\ UNCHANGED vars)
Pop == PM_Pop \/ (~PopAllowed /\ UNCHANGED vars)

Wrap_Late(i, key, n) ==
  CASE key = "UP" -> IF i = 0 THEN n - 1 ELSE i - 1
    [] key = "DOWN" -> IF i = n THEN 0 ELSE i + 1

(* __ValuePlus and LVGL's focus both wrap round the ends of the list. *)
Wrap(i, key, n) ==
  CASE key = "UP" -> IF i = 0 THEN n - 1 ELSE i - 1
    [] key = "DOWN" -> IF i = n - 1 THEN 0 ELSE i + 1

-----------------------------------------------------------------------------
(* The Event handlers of the pages. *)
Main_Event_LeftLeaves(key) ==
  /\ CASE key = "LEFT" -> Pop
       [] key = "RIGHT" -> Push(PAGE_MainMenu)
       [] OTHER -> UNCHANGED vars
  /\ UNCHANGED <<uiVars, gameVars>>

Main_Event(key) ==
  /\ IF key \in {"LEFT", "RIGHT"} THEN Push(PAGE_MainMenu) ELSE UNCHANGED vars
  /\ UNCHANGED <<uiVars, gameVars>>

MainMenu_Event(key) ==
  /\ CASE key = "LEFT" -> Pop /\ UNCHANGED ICON_NowSelIndex
       [] key = "RIGHT" -> /\ Push(AppICON_Grp[ICON_NowSelIndex + 1])
                           /\ UNCHANGED ICON_NowSelIndex
       [] OTHER -> /\ ICON_NowSelIndex' = Wrap(ICON_NowSelIndex, key, 4)
                   /\ UNCHANGED vars
  /\ UNCHANGED <<focus, is_setting, gameVars>>

Setting_Event(key) ==
  /\ CASE key = "LEFT" -> Pop /\ UNCHANGED focus
       [] key = "RIGHT" -> Push(Setttings[focus + 1]) /\ UNCHANGED focus
       [] OTHER -> focus' = Wrap(focus, key, 2) /\ UNCHANGED vars
  /\ UNCHANGED <<ICON_NowSelIndex, is_setting, gameVars>>

TimeSet_Event_PushesBack(key) ==
  /\ CASE key = "LEFT" -> /\ IF is_setting THEN UNCHANGED vars
                             ELSE Push(PAGE_Setting)
                          /\ is_setting' = FALSE
       [] key = "RIGHT" -> is_setting' = TRUE /\ UNCHANGED vars
       [] OTHER -> UNCHANGED <<vars, is_setting>>
  /\ UNCHANGED <<ICON_NowSelIndex, focus, gameVars>>

TimeSet_Event_LeavesAtOnce(key) ==
  /\ CASE key = "LEFT" -> Pop /\ UNCHANGED is_setting
       [] key = "RIGHT" -> is_setting' = TRUE /\ UNCHANGED vars
       [] OTHER -> UNCHANGED <<vars, is_setting>>
  /\ UNCHANGED <<ICON_NowSelIndex, focus, gameVars>>

TimeSet_Event(key) ==
  /\ CASE key = "LEFT" -> /\ IF is_setting THEN UNCHANGED vars ELSE Pop
                          /\ is_setting' = FALSE
       [] key = "RIGHT" -> is_setting' = TRUE /\ UNCHANGED vars
       [] OTHER -> UNCHANGED <<vars, is_setting>>
  /\ UNCHANGED <<ICON_NowSelIndex, focus, gameVars>>

HitPlant_Event_OnTheLastLife(key) ==
  /\ IF blood_num > 1 THEN UNCHANGED vars ELSE Pop
  /\ UNCHANGED <<uiVars, gameVars>>

(* The game is left by any key, once it is lost. *)
HitPlant_Event(key) ==
  /\ IF blood_num > 0 THEN UNCHANGED vars ELSE Pop
  /\ UNCHANGED <<uiVars, gameVars>>

(* Page_alarm.c and Page_RGBLed.c have the same handler. *)
Sensor_Event(key) ==
  /\ IF key = "LEFT" THEN Pop ELSE UNCHANGED vars
  /\ UNCHANGED <<uiVars, gameVars>>

(* lv_event_send to the window of NowPage: the window of a page that was   *)
(* not imported has no handler.                                            *)
Send(key) ==
  \/ NowPage = PAGE_Main /\ Main_Event(key)
  \/ NowPage = PAGE_MainMenu /\ MainMenu_Event(key)
  \/ NowPage = PAGE_Setting /\ Setting_Event(key)
  \/ NowPage = PAGE_TimeSet /\ TimeSet_Event(key)
  \/ NowPage = PAGE_HitPlant /\ HitPlant_Event(key)
  \/ NowPage \in {PAGE_alarm, PAGE_RGBLed} /\ Sensor_Event(key)
  \/ NowPage \notin PageList /\ UNCHANGED <<vars, uiVars, gameVars>>

-----------------------------------------------------------------------------
(***************************************************************************)
(* Display_Update: PM_Running, which first makes the pending switch, with  *)
(* the part of each Setup that later steps depend on, then the key scan.   *)
(***************************************************************************)
SwitchExit ==
  /\ place = "PM_Running"
  /\ PM_Running_Exit
  /\ UNCHANGED <<place, uiVars, gameVars>>

SwitchSetup ==
  /\ place = "PM_Running"
  /\ PM_Running_Setup
  /\ focus' = IF NewPage = PAGE_Setting THEN 0 ELSE focus
  /\ is_setting' = IF NewPage = PAGE_TimeSet THEN FALSE ELSE is_setting
  /\ blood_num' = IF NewPage = PAGE_HitPlant THEN 3 ELSE blood_num
  /\ UNCHANGED <<place, ICON_NowSelIndex, gameTimers>>

(* The game creates its timers at the end of its Setup. *)
SwitchDone ==
  /\ place = "PM_Running"
  /\ PM_Running_Done
  /\ gameTimers' = IF NowPage = PAGE_HitPlant THEN TRUE ELSE gameTimers
  /\ place' = "KeyScan"
  /\ UNCHANGED <<uiVars, blood_num>>

NoSwitch_Always ==
  /\ place = "PM_Running" /\ running = "idle"
  /\ place' = "KeyScan"
  /\ UNCHANGED <<vars, uiVars, gameVars>>

NoSwitch ==
  /\ place = "PM_Running" /\ running = "idle"
  /\ NewPage = OldPage
  /\ place' = "KeyScan"
  /\ UNCHANGED <<vars, uiVars, gameVars>>

KeyScan ==
  /\ place = "KeyScan"
  /\ place' = "lvgl"
  /\ \/ \E key \in Key : Send(key)
     \/ UNCHANGED <<vars, uiVars, gameVars>>

(* lv_task_handler and the delay of the display thread. *)
LvTaskHandler ==
  /\ place = "lvgl"
  /\ place' = "PM_Running"
  /\ UNCHANGED <<vars, uiVars, gameVars>>

(* A game timer, run by lv_task_handler from the display loop or from the  *)
(* PageDelay of a Setup or Exit: a collision takes a life, the last one    *)
(* ends the game, which deletes the timers.                                *)
Collision ==
  /\ gameTimers
  /\ place = "lvgl" \/ running # "idle"
  /\ blood_num' = (blood_num + 255) % 256
  /\ gameTimers' = (blood_num' # 0)
  /\ UNCHANGED <<vars, place, uiVars>>

DisplayNext ==
  SwitchExit \/ SwitchSetup \/ SwitchDone \/ NoSwitch
    \/ KeyScan \/ LvTaskHandler \/ Collision

DisplaySpec == DisplayPage_Init /\ [][DisplayNext]_displayVars

-----------------------------------------------------------------------------
DisplayTypeOK ==
  /\ place \in {"PM_Running", "KeyScan", "lvgl"}
  /\ ICON_NowSelIndex \in 0..3 /\ focus \in 0..1
  /\ is_setting \in BOOLEAN /\ gameTimers \in BOOLEAN
  /\ blood_num \in 0..255

(* A key never meets a busy manager: PM_Running completes the switch a key *)
(* asked for before the next scan, so that no page change is refused.      *)
KeyMeetsIdleManager == place = "KeyScan" => ~IsPageBusy /\ running = "idle"

(* The pages that lead to one another. *)
Leads(p) ==
  CASE p = 0 -> {PAGE_Main}
    [] p = PAGE_Main -> {PAGE_MainMenu}
    [] p = PAGE_MainMenu -> {PAGE_HitPlant, PAGE_RGBLed, PAGE_alarm, PAGE_Setting}
    [] p = PAGE_Setting -> {PAGE_TimeSet, PAGE_SysInfo}
    [] OTHER -> {}

(* The stack is always a way from PAGE_Main down the menus, so going back  *)
(* from a page returns to the menu it was entered from, and the ten slots  *)
(* are never used up.                                                      *)
StackIsMenuPath ==
  /\ \A s \in 1..PageStackTop : PageStack[s] \in Leads(PageStack[s - 1])
  /\ PageStackTop < PageStackSize - 1

(* The timers of the game, which use the objects of its page, exist only   *)
(* while that page is set up: it is not left before they are deleted.      *)
TimersOnlyInGame == gameTimers => live = {PAGE_HitPlant}

(* Coming back to a page by going back shows it as its Setup left it: the  *)
(* time page is never entered or left in the middle of changing a field.   *)
NotLeftSetting == is_setting => NowPage = PAGE_TimeSet

(* The user walks the menus: a key goes down to a page that the page on    *)
(* the screen leads to, or back up, and no further than PAGE_Main; either  *)
(* is shown before the next key counts.                                    *)
WalksMenus ==
  /\ path = <<PAGE_Main>> /\ NowPage = 0
  /\ [][\/ \E p \in Leads(Nav!Here) : Nav!Forward(p)
        \/ Nav!Back /\ path' # <<>>
        \/ Nav!Show]_(Nav!vars)

(* The current page handles the keys when they are scanned (the menu       *)
(* offers available pages: DisplayPage.c imports "all available pages").   *)
ShownPageAnswers == place = "KeyScan" => NowPage \in PageList
=============================================================================
