# Verification of the LVGL user interface of last_week_project

The repository is firmware for an STM32F407 board under RT-Thread. Its own code
is the user interface in `src/code/applications/lvgl/UIDemo`: a page scheduler,
a dozen pages, a key scanner, a small plane game and pages that show a sensor.
Everything else under `src/code` is vendored (RT-Thread, the STM32 HAL, board
drivers) or generated. Paths below are relative to `UIDemo/` unless they begin
with `src/`.

## The system

| Component | State | Operations | Where |
|---|---|---|---|
| Page scheduler | page list, page stack, current / old / new page, busy flag | `PM_Register`, `PM_Clear`, `PM_ChangeTo`, `PM_Push`, `PM_Pop`, `PM_StackClear`, `PM_Running` | `PageManager.c` |
| Pages | a selection, a mode, timers or threads each | `Setup`, `Exit`, `Event` | `Page/*.c` |
| Display loop | the order of scheduler, key scan and LVGL | `Display_Update`, `PageDelay` | `DisplayPage.c` |
| Key scan | last key, time of the last press | `KeyScan_ThreadEntry` | `DisplayPage.c` |
| Plane game | bullets, enemies, lives, hearts, three LVGL timers, LVGL objects | three timer callbacks, key event, `Setup`, `Exit` | `Page/Page_HitPlant.c` |
| Main page clock | one RT-Thread thread | `time_update` | `Page/Page_Main.c` |
| Time setting | six fields, one being changed | `Setup`, `btn_change_val`, `Event` | `Page/Page_TimeSet.c` |
| Date and time | the clock of the chip, in UTC | `set_time`, `set_date`, `gmtime_r`, `timegm`, `localtime_r`, `mktime` | `src/code/rt-thread/components/` (`drivers/rtc/rtc.c`, `libc/.../ctime.c`), `drv_rtc.c` |
| Alarm and RGB pages | two threads and a mailbox each, buzzer pin, LED strip, I2C bus | thread entries, `Setup`, `Exit` | `Page/Page_alarm.c`, `Page/Page_RGBLed.c`, `src/code/board/ports/led_matrix/drv_matrix_led.c` |

How they interact. One thread, the display thread (started by the LVGL package,
which is not in the repository), calls `Display_Update` and LVGL's task handler
in turn. `Display_Update` calls `PM_Running`, which calls `Exit` of the page it
leaves and `Setup` of the page it enters, then the key scan, which sends a key
event to the window of the current page; the page's `Event` calls `PM_Push` or
`PM_Pop`, which only record the change for the next `PM_Running`. LVGL's task
handler runs the timers of the game. The page threads run beside all this. The
time page reads the clock when it is set up and writes it from its `Event`.

What is hard:

- `Setup` and `Exit` call `PageDelay`, which runs LVGL's task handler again: any
  LVGL callback may call the scheduler in the middle of `PM_Running`
  (`PageManager.h` v1.3 mentions a bug fixed there).
- The busy flag is cleared only when a switch is made; a call that sets it
  without a switch to make would freeze the interface.
- Keys bounce, hide one another and are read once per round of a loop whose
  rounds last from 80 ms to nearly a second.
- The game's objects belong to the window of its page and are deleted with it,
  while the arrays that point to them are static, and three timers use them.
- Several things may happen to the game in one round of its loops.
- `Exit` of the main page and of the sensor pages deletes threads wherever they
  are: in a transfer on the bus the pages share, in the driver of the LED strip,
  about to use a label or an image.
- The fields of the time page take values no clock shows (hour 24, minute 60,
  February 31). They go to the clock in two calls, the second of which starts
  from what the first has made of the date.

What makes each component correct: the scheduler shows the top of its stack,
never wedges, tears down exactly what it set up; the menus are left the way they
were entered; one touch is one press and no lasting key is lost; the game uses
no deleted object, ends, and can be left only when its timers are gone; a page
with threads leaves nothing lit, locked, waited for or used; the clock shows what
was confirmed.

## The modules

| Module | Models | State and actions |
|---|---|---|
| `Navigation` | what the scheduler promises | a path of pages and the page shown; `Forward`, `Back`, `Show` |
| `PageManager` | `PageManager.c` | the fields of `PageManager_t` under their names, `running` for the place where `PM_Running` is, `live` for the pages that are set up; one action per function, three for `PM_Running` (before `Exit`, between `Exit` and `Setup`, after `Setup`) |
| `MCPageManager` | the instance for TLC | |
| `DisplayPage` | `DisplayPage.c` and the `Event` handlers of the imported pages | extends `PageManager` with the menus' selections, the modes of the pages and the place of the display thread; one action per part of the loop |
| `KeyScan`, `MCKeyScan` | `KeyScan_ThreadEntry` | pins, the two readings, the last key, the time since the last press; one action per branch, two that sleep |
| `HitPlant` | `Page_HitPlant.c` | the arrays `Bullet` and `Enemy` with exact coordinates, `obj` for whether the LVGL object of a slot exists; one action per timer callback, key event, `Setup` and `Exit` |
| `PageThreads` | the threads of `Page_Main.c`, `Page_RGBLed.c`, `Page_alarm.c`, and `drv_matrix_led.c` | the place of the display thread and of up to two page threads, the mailbox, the owner of the bus lock, the LED buffer with its transfer, labels, image and buzzer; one action per stretch of a thread that another thread or the interrupt can tell apart |
| `Calendar` | `ctime.c` | pure operators and recursive functions: seconds to date and back; last, the rules of the calendar to compare them with |
| `TimeSet`, `MCTimeSet` | `Page_TimeSet.c`, `set_time`, `set_date`, `drv_rtc.c` | extends `Calendar` with the clock, the fields and their modes; one action per key, `Setup`, and the tick of the clock |
| `PageManagerProofs`, `DisplayPageProofs`, `KeyScanProofs`, `HitPlantProofs`, `PageThreadsProofs`, `CalendarProofs`, `TimeSetProofs` | | the theorems about the module they are named after |

`DisplayPage` composes the scheduler with its clients: it uses the actions of
`PageManager` unchanged and adds who calls them when, and it implements a stricter
`Navigation`, whose user stays on the menus (`WalksMenus`). `KeyScan` says when a scan
reports a key, `DisplayPage` lets any scan report any key. `HitPlant` has the
game; `DisplayPage` keeps only its lives and whether its timers exist.
`PageThreads` has the pages with threads from one visit to the next; that
`Setup` and `Exit` alternate is what `PageManager` promises (`OnePageLive`).
`TimeSet` has one page and the clock; `DisplayPage` keeps only whether a field is
being changed.

Definitions whose name ends in an underscore and a word or two
(`PushAllowed_SamePage`, `Press_Forgets`, ...) are mutants: what a plausible bug
would make of the definition that follows them. They are used by nothing; each
breaks one of the properties when it takes that definition's place.

### Abstractions

- An identifier of a page is its number, as in the code. `PM_Register` keeps
  only whether the callback is NULL; names, `PM_EventTransmit` and the
  destructor hold no state.
- An `Exit` or `Setup` callback is the moment it begins: the part that
  matters to others (clearing a mode, creating timers) is in the same action, or,
  where the code does it after the blocking delay, in the next one.
- Touch and gestures are left out: the input device is registered, but its data
  function is never called by anyone, so LVGL produces no such event.
- In `KeyScan` time is counted in units of 10 ms and the pins change only while
  the thread sleeps; `pressed` is a history variable: the key that was pressed
  last, until a scan begins without it.
- In `PageThreads` a frame for the strip is the set of readings it shows: one
  if the frame was sent undisturbed, several if the buffer was refilled on its
  way, none if it is dark. Sleeps have no length. The sensor's driver is not in
  the repository: it is a transfer on the bus (`rt_i2c_transfer` takes the lock
  of the bus) that yields any of the readings. The HAL's `State` of the
  transfer and of the timer channel are kept, since an unfinished start leaves
  them behind; the timer itself runs from the first transfer on. The kernel's
  behaviour the module relies on: a thread of lower priority runs only when
  the display thread sleeps or waits, `alarm_update` and `time_update` have the
  same priority and get turns, and deleting a thread does not release its mutexes
  (`_thread_detach_from_mutex` in `thread.c`, the owner check of
  `rt_mutex_release` in `ipc.c`).
- In `Calendar` a `time_t` is a pair of days and seconds of the day: TLC's
  integers have 32 bits, and the code's 64 do not overflow here. In `TimeSet` the
  clock does not tick between `set_time` and `set_date`: the first restarts its
  second. The register of the year is eight bits in BCD, and that is how it is
  read back: it holds 0 to 159 (`RtcDays`). The chip counts to 2099 and goes on with 2000; what its
  calendar makes of a larger year, which the page can write, at the end of a day
  is not documented, and the model lets it become any of the dates in `Clocks` (`NextSecond`). `focused` is LVGL's focus, whose buttons are created in the order of
  `setter_btns`.
- In `HitPlant` time is counted in rounds of the 200 ms timer; the others are
  due after seven and twelve rounds. The animation of an explosion, the score
  and the popup are left out. `rand()` is any member of a small set, mapped by
  the formulas of the code. A deleted slot's coordinates are forgotten, they
  are written before they are read again.

## The runs

| Run | Module, cfg | Question |
|---|---|---|
| `scheduler` | `MCPageManager`, `PageManager.cfg` | pages push and pop at any time, in blocking callbacks too: does the scheduler do what `Navigation` says, keep one page up, complete every switch? |
| `scheduler_api` | `MCPageManager`, `PageManagerApi.cfg` | the same for clients that call all of the interface: is the stack well formed, is a switch under way left alone? |
| `pages` | `DisplayPage`, `Display.cfg` | the real pages: is the stack a menu path, is every page shown one step down the menus or back, does a key ever meet a busy scheduler, what survives a page? |
| `keys` | `MCKeyScan`, `KeyScan.cfg` | is a key that was pressed not pressed again before a scan begins without it, is no lasting key missed? |
| `game` | `HitPlant`, `HitPlant.cfg` | one game: no deleted object used, no timer after the page, no bullet through an enemy, every slot given back? |
| `sensors` | `PageThreads`, `PageThreads.cfg` | the pages with threads, entered and left at any moment, inside a driver call too: does the strip go dark, are labels and image used only while they exist, does the display thread come back but from the two waits that a deleted thread leaves behind, is every reading received shown? |
| `time_set` | `MCTimeSet`, `TimeSet.cfg` | the fields, changed in any order by any key: does the page show the time of the board, and does a confirmed change arrive in the clock? |
| `dead_end` | `DisplayPage`, `DisplayDeadEnd.cfg` | violated: the settings lead to a page that is not imported |
| `game_lives` | `HitPlant`, `HitPlantLives.cfg` | violated: two crashes in one round with one life left make 255 lives, and the page cannot be left any more |
| `game_again` | `HitPlant`, `HitPlantAgain.cfg` | violated: a second game moves enemies whose objects went with the first |
| `sensors_lock` | `PageThreads`, `PageThreadsLock.cfg` | violated: a reader deleted in a transfer leaves the bus locked; the next `Setup` of the RGB page then hangs the display thread, and the alarm page stays silent |
| `sensors_colour` | `PageThreads`, `PageThreadsColour.cfg` | violated: between readings 2000 and 4000 the blue channel wraps, and the LEDs get brighter with the light |

What else the models show, without a run of its own:

- The clock is in UTC and its driver refuses years before 2000
  (`drv_rtc.c:90`). On the first day after power was lost, `set_time` of an hour
  before eight is a time in 1999 and is refused without a word, while the
  `set_date` that follows is taken (`ConfirmedTime`, with `Refused`).
- `set_time` of hour 24 changes the date, although the comment on it
  says "date not modify"; `set_date` puts it right (`ConfirmedDate`, which fails if the two calls are
  swapped).
- The clock keeps two digits of the year in BCD: the page goes up to 2400, which
  comes back as 2144, and one step up from a year before 2020 is 2400 too.
- The fields are read once. Confirming one sets the clock back to the time the
  page was entered.
- A held key repeats after 200 ms, not after the second that the comment of
  `DisplayPage.c:106` names.
- A release is not debounced: a bounce that meets the first reading of a scan
  (`DisplayPage.c:118`) makes a second press of one touch.
- Two crashes in one round leave a heart too many on the screen: `blood_update`
  hides the one that goes with the number of lives left.
- `Exit` may delete `RGB_Con` in the few instructions between marking a transfer to
  the strip and starting it; it then spins for ever. If only the channel was
  marked, the dark frame and all later ones are refused.

Bounds, and why they suffice:

- `scheduler`: four page numbers (the reserved one, two registered, one that is
  not), page numbers up to one past the end, a stack of five slots, so that the
  limit is reached and a page may occur twice. The theorems cover all sizes.
  `scheduler_api` has one page and one slot fewer, for the sake of its size.
- `pages`: the constants of the code, no bound.
- `keys`: two keys, one of which hides the other when both are down; rounds of
  30 ms and of 300 ms (a page switch), times counted up to 250 ms, beyond the
  200 ms the code compares with.
- `game`: two bullets and two enemies of five and three, enemies in line with
  the plane (shot down) and beside it (they crash), at eight pixels a round, the
  fastest, which is the hard case for the hit window; one move of the plane
  (`MaxMoves`) at any moment, left or down. A second game is played only
  when no enemy survived (`StaleEnemies = FALSE`), since `game_again` shows what
  happens otherwise; the model stops there, hence `CHECK_DEADLOCK FALSE`.
  The enemies that share a round in the violation runs have speeds five and
  seven and come 12 or 13 rounds apart (`BulletEvery`, `EnemyEvery`: 1500 and
  2500 ms in rounds of 200 ms, to the nearest runs of LVGL's timer handler).
- `sensors`: two readings for each sensor, on both sides of what the code
  compares with, and a mailbox of two of the ten places, so that it fills up.
  `Exit` may find the threads anywhere, in a driver call too; the history
  variable `cut` records the calls in which it has deleted one. The
  properties hold whatever was cut, with the exceptions they name: after the
  lock of the bus is lost, or the start of a transfer was cut between its mark
  and its start, the display thread hangs (`Trapped`), and the model stops,
  hence `CHECK_DEADLOCK FALSE`; after the channel alone was marked no frame is sent.
- `time_set`: the clock starts at the last second of a day on the board: the end
  of a year, of January (from where hour 24 and the 31st lead through February)
  and of February 28 in a leap year, the end of 2099; the last second of 2099 of the chip itself; and at the beginning of
  2000 in UTC, where it stands without a battery. One tick (`MaxTicks`) takes the
  others past their midnight; three steps of a field (`MaxChanges`) reach hour 24, minute 60,
  the 31st of a short month, and, from eight in the morning, an hour the driver
  refuses together with a change of something else.

Fairness. `PageManager`: the display thread calls `PM_Running` for ever and the
callbacks return, since `PageDelay` is bounded: weak fairness of `PM_Running`;
none for the clients. (The callbacks of the pages with threads return but for the two cases of
`Trapped` in `PageThreads`.) `KeyScan`: the thread keeps scanning. `HitPlant`: LVGL
runs a timer that is due; none for the player. `PageThreads`: a thread that can
run gets its turn, as the display thread sleeps in every round, and a transfer
that runs ends; none for the player, who may never enter or leave. `DisplayPage`
and `TimeSet` state safety only.

## What is proved

`PageManagerProofs` proves, for every number of pages and size of stack up to
255 (the fields are `uint8_t`; at least one of each), every set of registered
pages that leaves out the reserved one, and every set of page numbers the
clients pass:

- `TypeCorrect`, `NeverWedged`, `ScreenFollowsStack`, `OneLivePage`:
  `Spec => []TypeOK`, `[]BusyHasWork`, `[]ShownIsTop`, `[]OnePageLive`;
- `WellFormedStack`: `Spec => []StackShape`;
- `Refinement`: `Spec => NavSpec`, the scheduler implements `Navigation`;
- `BlockedSwitchAtomic`: `ApiSpec => SwitchIsAtomic`, for any client.

The argument. None of the invariants is inductive alone. `PM_Push` compares the
page with the top of the stack and not with the page shown, so that a busy
manager has work only if the page shown is the top (`ShownIsTop`); `PM_Pop`
does not compare at all and relies on neighbours of the stack being different
(`StackShape`), which is `PM_Push`'s check again; `ShownIsTop` after a switch
follows from the manager being busy with a switch to that page
(`BusyHasWork`) and from what each place in `PM_Running` says of the page fields
(`Phase`). `IInv` is the conjunction, and each function keeps it. The refinement
maps the path to the used slots of the stack and the page shown to `NowPage`: a
push appends, a pop drops the last (lemmas on `Append` and `SubSeq` of the
mapped sequence), `PM_Running` shows the top in its second step and stutters in
the other two. `SwitchIsAtomic` needs only that a blocked manager is busy.

`DisplayPageProofs` proves all five invariants of the run `pages` and its
refinement, for any page list that has room for the pages of the code and any stack of at least six slots
(`DisplayAssumption`; the code has 10): `DisplayTypeCorrect`,
`KeysMeetIdleManager`, `BackTheWayOneCame`, `TimersGoWithThePage`,
`SettingEndsOnThePage`. The argument reuses `PageManagerProofs`: a key handler is a
push, a pop or nothing, so `IInv` is kept by its lemmas. `DInv` adds the
facts that depend on each other here: `MenuPath`, that the used slots of the stack
are a walk down the menus, which bounds the stack and so excludes a refused push;
`KeyMeetsIdleManager`, since the loop runs `PM_Running` before the scan and no
callback of a page changes the page; and `Quiet`, that timers and a field
being changed belong to the page that is shown while nothing is pending, because
their handlers neither push nor pop until they are gone.

`MenusWalked`, `DisplaySpec => WalksMenus`, is a refinement: scheduler, pages and
loop together implement `Navigation` with a user who goes only where the menus
lead. `PopIsBack` and `PushIsForward` of `PageManagerProofs` map a handler's call
to a step of the navigator; that the page it names is a page the shown
one leads to, and that back is never pressed away on `PAGE_Main`, comes from the
handlers, with `KeyMeetsIdleManager` (the page that gets the key is the top) and
`MenuPath` (only the bottom is `PAGE_Main`).

`KeyScanProofs` proves, for any number of keys in any order of priority, any
rounds of the loop and any tick: `TypeCorrect`, and `OneTouchOnePress`,
`Spec => OnePressPerHold`. The invariant `PressedIsLast` says why: a key that was
pressed stays `last_key` until a scan begins with another or none, so that the
comparison fails the second time, however the pins bounced meanwhile.

`HitPlantProofs` proves, for any number of bullets and enemies, any periods of
the timers and whatever `rand()` returns:

- `TypeCorrect`, `TimersGoFirst`: `Spec => []TypeOK`, `[]TimersOnlyOnPage`;
- `NoDeletedObjectUsed`: with `StaleEnemies = FALSE`, `Spec => []NoMisuse`: what
  `game_again` shows is the only way to use a deleted object;
- `NothingPasses`: `Spec => NoTunnelling`.

A page may be left when no life is left, so `TimersOnlyOnPage` needs that
existing timers mean a life left (`TimersWithLives`), for every state inside the loop
over the enemies too, as the count goes on past `Game_over` (`Fit`).
`NoMisuse` needs that an alive slot has its object from `Setup` to `Exit`
(`CInv`, and `Clean` inside the loops). `NoTunnelling` follows a bullet and an
enemy through both loops (`Meeting`, `Passing`): both alive after the round, the
enemy has not moved when the bullet's turn comes, is not in its window, hence at
least ten above it, and then comes down eight at most. The loops are recursive
functions; that what each step hands to the next holds at the end
(`BulletMoveReaches`, `EnemyMoveReaches`) is proved by the least step where it fails,
as the provers have no induction over an operator.

`PageThreadsProofs` proves, for any readings, any size of the mailbox and
wherever `Exit` finds the threads:

- `TypeCorrect`, `WidgetsSafe`: `Spec => []TypeOK`, `[]WidgetsLive`;
- `LeftDark`: `Spec => []DarkWhenLeft`;
- `OnlyCutsBlock`: `Spec => [](Blocked <=> Trapped)`: the display thread waits for
  a lock nobody gives back or a transfer nobody has started exactly
  where a thread was deleted inside that call;
- `TrappedForGood`: `Spec => [][Trapped => Trapped']_vars`: it never gets away.

That every other wait ends is liveness (`ReturnsUnlessTrapped`) and checked by
TLC; the two theorems make its exceptions exact.

The argument: `Places` says which places of the three threads occur together,
`Mail` that the RGB page receives only light levels, since its mailbox is new.
For the strip, `StripState` ties HAL's two states to the place of `RGB_Con`, or to
the one where it was deleted, so that `Exit`, once the last transfer is done, finds the
channel ready and its frame is not refused, unless the channel was left marked; `BusOwner` ties the
lock to the place of the reader, or to the deletion that lost it.

`CalendarProofs` proves what the conversions of `ctime.c` compute, for every time
from 1970 on:

- `TimegmOfGmtime`: `timegm(gmtime_r(t)) = t`;
- `GmtimeCounts`: the year, month and day of `gmtime_r` are those that the rules
  of the calendar (`DaysBefore`, `DaysBeforeMonth`) count that many days to.

The two loops, over the years and over the months, are recursive functions; in
TLA+ such a definition is a choice of some solution of its equation, and that
there is one is the first thing to prove. `LoopExists` does it for any loop
that has a measure going down: the loop computes something from the
places below each bound (by the least bound where it would not), the
pieces agree where they overlap, and together they are the function.
`LoopInduction`, again by a least counterexample, then carries what a round keeps
to the end: `YearAndDay` keeps the day counted from 1970 and ends within its
year. `YearDaysCounts` shows that the closed formula of `timegm`, with its
corrections for centuries, agrees with the rules in every year. Of the loop of
`timegm`, which compares the day of the month with the days of all months so far,
`MonthsCarry` says what it does to days up to the 32nd (the carry of an hour 24):
nothing, but for the 32nd of January, which it makes the 32nd of February, a
month late.

`TimeSetProofs` proves, for every time the clock's registers may hold, any ticks and any
changes, every property the run `time_set` checks:

- `TypesCorrect`, `ChangesSaved`: `Spec => []TypeOK`, `[]NothingUnsaved`;
- `LocalRead`: `Spec => []SetupReadsLocal`;
- `TimeConfirmed`, `DateConfirmed`: `Spec => ConfirmedTime`, `ConfirmedDate`.

`Inv` says that the clock is a time from 2000 to 2159 and that the fields are in
the ranges of their buttons, but for a year from 2000 on. Neither is kept
without the other: a confirmed date is a day from 2000 on only because the
fields are those of a date, and Setup finds such fields only because the clock
holds one; a year above 2099 is kept in the registers' range by what
`RTC_ByteToBcd2` does to its tens. `ConfirmedTime` rests on the time of day alone: `gmtime_r`
splits it, `timegm` joins it again, for hour 24 and minute 60 too, and adding
whole days or the time zone twice leaves it alone. `ConfirmedDate` rests on
the round trip: `set_date` takes only the time of day from what `set_time` left,
its date is read back as the day the calendar rules count, and from 2001 on the
driver does not refuse it. Hour 24 never makes a date earlier (`DayCarried`), so
that the driver refuses `set_time` on the clock's first day only.

Assumptions: those on the constants, and that the functions run on one thread
(no page thread calls the scheduler). The proofs cover the specification; that
the specification is the code is by reading.

Only model-checked: all liveness (`SwitchCompletes`, `NavReaches`,
`HeldKeyIsReported`, `EnemyGoes`, `ReturnsUnlessTrapped`, `ReadingShown`), which TLAPS
does not prove, nor `ENABLED`. The five violations are counterexamples of TLC.

## Not modelled

- The score, the explosions and the popup of the game. The popup is created on
  the screen and never deleted, one per game: memory of LVGL, which is not in the
  models.
- What threads do inside LVGL at the same time: `time_update` and `alarm_update`
  call it without a lock, but its code is not in the repository.
- Dial and the pages outside the import list, which cannot be reached. Layout,
  fonts, images, animations.
- The drivers and the LVGL ports are device I/O; of the real-time clock's the
  registers are modelled. Of `ctime.c` and `rtc.c` what the application calls.
- RT-Thread, the HAL, CherryUSB and the rest of `src/code/rt-thread` and
  `src/code/libraries` are third-party products that fill almost all of the
  repository's lines, most of them headers, generated tables and data (images,
  sound samples) or modules that this firmware does not build. The models cover
  the application, which is a small share of the lines; where it relies on the
  kernel, the behaviour is stated above.

## Plan

1. Done: the scheduler, the pages, the keys, the game, the pages with threads,
   the time page with the clock; theorems about each.
2. Done: what `ctime.c` makes of a date, with the loops it uses, the date of
   `TimeSet` and the types that depend on it, and the pages as a refinement of
   the navigator.
3. Left: what makes the violated properties hold (`LivesInRange` when no two
   enemies crash in one round, `DarkerIsBrighter` outside the readings whose
   blue wraps); the readers' delays in milliseconds, if the driver of the sensor
   is added to the repository.
