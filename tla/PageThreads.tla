---------------------------- MODULE PageThreads ----------------------------
(***************************************************************************)
(* The pages with threads of their own, Page_Main.c, Page_RGBLed.c and     *)
(* Page_alarm.c.  The thread of Main writes the time into two labels.  The *)
(* others have two threads, one that reads the sensor on the I2C bus and   *)
(* sends what it reads to a mailbox, one that receives from it and drives  *)
(* the LED strip (drv_matrix_led.c) or the buzzer.  Exit deletes the       *)
(* threads, wherever they are.                                             *)
(*                                                                         *)
(* Priorities: the display thread, time_update and alarm_update have 10,   *)
(* the threads of RGBLed 20, the beeper 25.  A thread of lower priority    *)
(* runs only while the display thread sleeps, which it does in its loop.   *)
(***************************************************************************)
EXTENDS Integers, Sequences

CONSTANTS
  Lights,       \* what ap3216c_read_ambient_light returns, as an int
  Proximities,  \* what ap3216c_read_ps_data returns
  MailboxSize

ASSUME ReadingsAssumption == Lights \subseteq Nat /\ Proximities \subseteq Nat
ASSUME MailboxAssumption == MailboxSize \in Nat \ {0}

VARIABLES
  page,       \* the page that is set up
  display,    \* the place of the display thread: its loop, or where it is busy
  reader,     \* the place of time_update, Read_ap3216c or alarm_update
  worker,     \* the place of RGB_Con or of Beeper
  value,      \* the reading the reader holds
  mailbox,    \* readings, or beep times
  bus,        \* the owner of the I2C bus lock; "deleted" is a deleted thread
  led_buffer, \* a frame for the strip, as the set of readings it shows
  flight,     \* the frame being sent, a mixture if the buffer is refilled
  strip,      \* the frame the LEDs show, {} if they are dark
  dma,        \* HAL's state of the transfer, "running" for BUSY when it runs
  channel,    \* the state of the timer channel
  labels,     \* labelTime and labelDate exist
  alarm_img,  \* the image exists
  buzzer,     \* the level of the buzzer pin
  cut         \* history: where Exit has deleted a thread inside a driver call

threads == <<reader, worker, value, mailbox, bus, cut>>
leds == <<led_buffer, flight, strip, dma, channel>>
widgets == <<labels, alarm_img>>
vars == <<page, display, reader, worker, value, mailbox, bus, led_buffer,
          flight, strip, dma, channel, labels, alarm_img, buzzer, cut>>

(* matrix_init has sent a dark frame. *)
Init ==
  /\ page = "none" /\ display = "loop"
  /\ reader = "none" /\ worker = "none"
  /\ value = 0 /\ mailbox = <<>> /\ bus = "free"
  /\ led_buffer = {} /\ flight = {} /\ strip = {}
  /\ dma = "READY" /\ channel = "READY"
  /\ labels = FALSE /\ alarm_img = FALSE /\ buzzer = FALSE
  /\ cut = {}

-----------------------------------------------------------------------------
(* The LED strip. *)

(* One channel of the colour of RGB_Con, a uint8_t. *)
Level(light, limit) ==
  IF light \div 10 < limit THEN (200 - light \div 10) % 256 ELSE 0

CUR_COLOR(light) ==
  [R |-> Level(light, 200), G |-> Level(light, 200), B |-> Level(light, 400)]

(* RGB_Reflash writes the buffer before it asks whether it is being sent.  *)
Fill(frame) ==
  /\ led_buffer' = frame
  /\ flight' = IF dma = "running" THEN flight \cup frame ELSE flight

(* HAL_TIM_PWM_Start_DMA returns HAL_BUSY if the channel is BUSY; here it  *)
(* is not interrupted.                                                     *)
Start_DMA ==
  IF channel = "BUSY"
  THEN UNCHANGED <<flight, dma, channel>>
  ELSE channel' = "BUSY" /\ dma' = "running" /\ flight' = led_buffer

TransferDone_KeepsState ==
  /\ dma = "running"
  /\ strip' = flight /\ flight' = {}
  /\ channel' = "READY"
  /\ dma' = "BUSY"
  /\ UNCHANGED <<page, display, threads, led_buffer, widgets, buzzer>>

TransferDone_KeepsChannel ==
  /\ dma = "running"
  /\ strip' = flight /\ flight' = {}
  /\ dma' = "READY"
  /\ UNCHANGED <<page, display, threads, led_buffer, channel, widgets, buzzer>>

(* DMA1_Stream5_IRQHandler *)
TransferDone ==
  /\ dma = "running"
  /\ strip' = flight /\ flight' = {}
  /\ dma' = "READY" /\ channel' = "READY"
  /\ UNCHANGED <<page, display, threads, led_buffer, widgets, buzzer>>

-----------------------------------------------------------------------------
(* The display thread. *)

(* Setup of Main, as far as PageDelay(300); the labels are there.          *)
Main_Setup ==
  /\ page = "none" /\ display = "loop"
  /\ page' = "Main" /\ display' = "PageDelay"
  /\ labels' = TRUE
  /\ UNCHANGED <<threads, leds, alarm_img, buzzer>>

data_thread_init ==
  /\ display = "PageDelay"
  /\ reader' = "time" /\ display' = "loop"
  /\ UNCHANGED <<page, worker, value, mailbox, bus, leds, widgets, buzzer, cut>>

Main_Exit_CleansFirst ==
  /\ page = "Main" /\ display = "loop"
  /\ labels' = FALSE /\ display' = "clock_deleted"
  /\ UNCHANGED <<page, threads, leds, alarm_img, buzzer>>

(* Exit of Main: the thread goes before the labels. *)
Main_Exit ==
  /\ page = "Main" /\ display = "loop"
  /\ reader' = "none" /\ display' = "clock_deleted"
  /\ UNCHANGED <<page, worker, value, mailbox, bus, leds, widgets, buzzer, cut>>

Main_Left ==
  /\ display = "clock_deleted"
  /\ labels' = FALSE
  /\ page' = "none" /\ display' = "loop"
  /\ UNCHANGED <<threads, leds, alarm_img, buzzer>>

(* Setup of RGBLed, as far as ap3216c_init, which uses the bus. *)
RGBLed_Setup ==
  /\ page = "none" /\ display = "loop"
  /\ page' = "RGBLed" /\ display' = "hardship_init"
  /\ mailbox' = <<>>
  /\ UNCHANGED <<reader, worker, value, bus, leds, widgets, buzzer, cut>>

(* The rest of it: the threads start, PageDelay lets them run.             *)
thread_init ==
  /\ display = "hardship_init"
  /\ bus = "free"
  /\ reader' = "read" /\ worker' = "recv" /\ display' = "loop"
  /\ UNCHANGED <<page, value, mailbox, bus, leds, widgets, buzzer, cut>>

alarm_Setup ==
  /\ page = "none" /\ display = "loop"
  /\ page' = "alarm"
  /\ mailbox' = <<>>
  /\ alarm_img' = TRUE
  /\ reader' = "init" /\ worker' = "recv"
  /\ UNCHANGED <<display, value, bus, leds, labels, buzzer, cut>>

(* rt_thread_delete of the reader.  The lock of the bus is not released:   *)
(* _thread_detach_from_mutex calls rt_mutex_release, which refuses, as the *)
(* caller is not the owner.                                                *)
DeleteReader ==
  /\ reader' = "none"
  /\ bus' = IF bus = "reader" THEN "deleted" ELSE bus

(* The driver calls in which the two threads of the page are.              *)
ReaderCut == IF bus = "reader" THEN {"bus"} ELSE {}
WorkerCut == {worker} \cap {"channel", "dma"}

(* Exit of RGBLed, as far as it does not wait.  Its threads cannot run.    *)
RGBLed_Exit ==
  /\ page = "RGBLed" /\ display = "loop"
  /\ worker' = "none" /\ DeleteReader
  /\ cut' = cut \cup ReaderCut \cup WorkerCut
  /\ Fill({})
  /\ display' = "RGB_Reflash"
  /\ UNCHANGED <<page, value, mailbox, strip, dma, channel, widgets, buzzer>>

RGBLed_Left_NoWait ==
  /\ display = "RGB_Reflash"
  /\ Start_DMA
  /\ page' = "none" /\ display' = "loop"
  /\ UNCHANGED <<threads, led_buffer, strip, widgets, buzzer>>

(* The end of it: TIM_Send_WS2812 spins until the last transfer is done.   *)
RGBLed_Left ==
  /\ display = "RGB_Reflash"
  /\ dma = "READY"
  /\ Start_DMA
  /\ page' = "none" /\ display' = "loop"
  /\ UNCHANGED <<threads, led_buffer, strip, widgets, buzzer>>

(* Exit of alarm, in three steps: alarm_update has the priority of the     *)
(* display thread and may get its turn between them.                       *)
alarm_Exit_CleansFirst ==
  /\ page = "alarm" /\ display = "loop"
  /\ worker' = "none"
  /\ alarm_img' = FALSE
  /\ display' = "beep_deleted"
  /\ UNCHANGED <<page, reader, value, mailbox, bus, leds, labels, buzzer, cut>>

alarm_Exit ==
  /\ page = "alarm" /\ display = "loop"
  /\ worker' = "none"
  /\ display' = "beep_deleted"
  /\ UNCHANGED <<page, reader, value, mailbox, bus, leds, widgets, buzzer, cut>>

alarm_Exit_Alarm ==
  /\ display = "beep_deleted"
  /\ DeleteReader
  /\ cut' = cut \cup ReaderCut
  /\ display' = "alarm_deleted"
  /\ UNCHANGED <<page, worker, value, mailbox, leds, widgets, buzzer>>

alarm_Left ==
  /\ display = "alarm_deleted"
  /\ alarm_img' = FALSE
  /\ page' = "none" /\ display' = "loop"
  /\ UNCHANGED <<threads, leds, labels, buzzer>>

-----------------------------------------------------------------------------
(* The reader: time_update, Read_ap3216c_thread_entry, alarm_update. *)

ReaderRuns == page \in {"Main", "alarm"} \/ display = "loop"

(* time_update reads the clock and writes one label and then the other. *)
SetTime ==
  /\ reader = "time" /\ ReaderRuns
  /\ reader' = "date"
  /\ UNCHANGED <<page, display, worker, value, mailbox, bus, leds, widgets, buzzer, cut>>

SetDate ==
  /\ reader = "date" /\ ReaderRuns
  /\ reader' = "sleep"
  /\ UNCHANGED <<page, display, worker, value, mailbox, bus, leds, widgets, buzzer, cut>>

Readings == IF page = "RGBLed" THEN Lights ELSE Proximities

(* A transfer of ap3216c_init or ap3216c_read_... waits for the lock.      *)
Take ==
  /\ reader \in {"init", "read"} /\ ReaderRuns
  /\ bus = "free"
  /\ bus' = "reader"
  /\ reader' = IF reader = "init" THEN "init_sent" ELSE "read_sent"
  /\ UNCHANGED <<page, display, worker, value, mailbox, leds, widgets, buzzer, cut>>

InitDone ==
  /\ reader = "init_sent" /\ ReaderRuns
  /\ bus' = "free"
  /\ reader' = "read"
  /\ UNCHANGED <<page, display, worker, value, mailbox, leds, widgets, buzzer, cut>>

ReadDone ==
  /\ reader = "read_sent" /\ ReaderRuns
  /\ bus' = "free"
  /\ value' \in Readings
  /\ reader' = "send"
  /\ UNCHANGED <<page, display, worker, mailbox, leds, widgets, buzzer, cut>>

rt_mb_send_NoLimit(m) == mailbox' = Append(mailbox, m)

(* A full mailbox loses the message; nobody looks at the result.           *)
rt_mb_send(m) ==
  mailbox' = IF Len(mailbox) < MailboxSize THEN Append(mailbox, m) ELSE mailbox

SendLight ==
  /\ page = "RGBLed" /\ reader = "send" /\ ReaderRuns
  /\ rt_mb_send(value)
  /\ reader' = "sleep"
  /\ UNCHANGED <<page, display, worker, value, bus, leds, widgets, buzzer, cut>>

(* The time of a beep is always 10. *)
SendBeep ==
  /\ page = "alarm" /\ reader = "send" /\ ReaderRuns
  /\ IF value > 50 THEN rt_mb_send(10) ELSE UNCHANGED mailbox
  /\ reader' = "image"
  /\ UNCHANGED <<page, display, worker, value, bus, leds, widgets, buzzer, cut>>

(* Shows or hides alarm_img, then sleeps. *)
Image ==
  /\ reader = "image" /\ ReaderRuns
  /\ reader' = "sleep"
  /\ UNCHANGED <<page, display, worker, value, mailbox, bus, leds, widgets, buzzer, cut>>

Wake ==
  /\ reader = "sleep" /\ ReaderRuns
  /\ reader' = IF page = "Main" THEN "time" ELSE "read"
  /\ UNCHANGED <<page, display, worker, value, mailbox, bus, leds, widgets, buzzer, cut>>

Reader ==
  SetTime \/ SetDate \/ Take \/ InitDone \/ ReadDone \/ SendLight \/ SendBeep
    \/ Image \/ Wake

-----------------------------------------------------------------------------
(* RGB_Con_thread_entry. *)

(* Receives a reading, sets the LEDs' colour and fills the buffer.         *)
RGB_Con ==
  /\ page = "RGBLed" /\ worker = "recv" /\ display = "loop"
  /\ mailbox # <<>>
  /\ mailbox' = Tail(mailbox)
  /\ Fill({Head(mailbox)})
  /\ worker' = "send"
  /\ UNCHANGED <<page, display, reader, value, bus, strip, dma, channel,
                 widgets, buzzer, cut>>

(* TIM_Send_WS2812, cut where the thread may be deleted in it: it waits    *)
(* for the last transfer and marks the channel,                            *)
MarkChannel ==
  /\ worker = "send" /\ display = "loop"
  /\ dma = "READY"
  /\ IF channel = "BUSY"
     THEN worker' = "recv" /\ UNCHANGED channel
     ELSE worker' = "channel" /\ channel' = "BUSY"
  /\ UNCHANGED <<page, display, reader, value, mailbox, bus, led_buffer,
                 flight, strip, dma, widgets, buzzer, cut>>

(* then the transfer,                                                      *)
MarkTransfer ==
  /\ worker = "channel" /\ display = "loop"
  /\ dma' = "BUSY" /\ worker' = "dma"
  /\ UNCHANGED <<page, display, reader, value, mailbox, bus, led_buffer,
                 flight, strip, channel, widgets, buzzer, cut>>

(* and then starts it.                                                     *)
StartTransfer ==
  /\ worker = "dma" /\ display = "loop"
  /\ dma' = "running" /\ flight' = led_buffer /\ worker' = "recv"
  /\ UNCHANGED <<page, display, reader, value, mailbox, bus, led_buffer,
                 strip, channel, widgets, buzzer, cut>>

(* Beep_thread_entry, which runs when the display thread and alarm_update  *)
(* do not.                                                                 *)
BeeperRuns == page = "alarm" /\ display = "loop" /\ (reader = "sleep" \/ bus = "deleted")

BeepOn ==
  /\ worker = "recv" /\ BeeperRuns
  /\ mailbox # <<>>
  /\ mailbox' = Tail(mailbox)
  /\ buzzer' = TRUE /\ worker' = "beep"
  /\ UNCHANGED <<page, display, reader, value, bus, leds, widgets, cut>>

BeepOff ==
  /\ worker = "beep" /\ BeeperRuns
  /\ buzzer' = FALSE /\ worker' = "recv"
  /\ UNCHANGED <<page, display, reader, value, mailbox, bus, leds, widgets, cut>>

Worker == RGB_Con \/ MarkChannel \/ MarkTransfer \/ StartTransfer \/ BeepOn \/ BeepOff

-----------------------------------------------------------------------------
Setup == Main_Setup \/ RGBLed_Setup \/ alarm_Setup

Exit == Main_Exit \/ RGBLed_Exit \/ alarm_Exit

(* What the display thread does once it has begun, if nothing blocks it.   *)
Display ==
  data_thread_init \/ Main_Left \/ thread_init \/ RGBLed_Left
    \/ alarm_Exit_Alarm \/ alarm_Left

Next == Setup \/ Exit \/ Display \/ TransferDone \/ Reader \/ Worker

Spec == Init /\ [][Next]_vars

(* Threads get their turns and transfers end; the player need not come.    *)
FairSpec ==
  /\ Spec
  /\ WF_vars(Display) /\ WF_vars(TransferDone)
  /\ WF_vars(Reader) /\ WF_vars(Worker)

-----------------------------------------------------------------------------
Readable == Lights \cup Proximities \cup {0}

(* Every field has its type, and no mailbox holds more than its size.      *)
TypeOK ==
  /\ page \in {"none", "Main", "RGBLed", "alarm"}
  /\ display \in {"loop", "PageDelay", "clock_deleted", "hardship_init",
                  "RGB_Reflash", "beep_deleted", "alarm_deleted"}
  /\ reader \in {"none", "time", "date", "init", "init_sent", "read",
                 "read_sent", "send", "image", "sleep"}
  /\ worker \in {"none", "recv", "send", "channel", "dma", "beep"}
  /\ value \in Readable
  /\ mailbox \in Seq(Lights \cup {10}) /\ Len(mailbox) <= MailboxSize
  /\ bus \in {"free", "reader", "deleted"}
  /\ led_buffer \in SUBSET Lights /\ flight \in SUBSET Lights
  /\ strip \in SUBSET Lights
  /\ dma \in {"READY", "BUSY", "running"} /\ channel \in {"READY", "BUSY"}
  /\ labels \in BOOLEAN /\ alarm_img \in BOOLEAN /\ buzzer \in BOOLEAN
  /\ cut \subseteq {"bus", "channel", "dma"}

(* When no page is set up and no transfer runs, the strip is dark: the     *)
(* frame Exit sends arrives, though Exit refills a buffer that may be on   *)
(* its way (Page_RGBLed.c:150-154), unless RGB_Con was deleted with the    *)
(* channel marked: then no frame is sent any more.                         *)
DarkWhenLeft ==
  page = "none" /\ dma = "READY" /\ "channel" \notin cut => strip = {}

(* No thread uses a widget that is not there yet or not any more: Setup    *)
(* creates the widget before its thread (Page_Main.c:334, 341), and Exit   *)
(* deletes the thread first (Page_Main.c:366-367, Page_alarm.c:126-127).   *)
WidgetsLive ==
  /\ reader \in {"time", "date"} => labels
  /\ reader = "image" => alarm_img

(* The display thread comes back from every Setup and Exit, but for two    *)
(* waits: ap3216c_init for the lock of a reader deleted in its transfer,   *)
(* and TIM_Send_WS2812 for a transfer whose start was cut off.  Every      *)
(* other wait, for a transfer that runs or for a delay, ends.              *)
Trapped ==
  \/ display = "hardship_init" /\ "bus" \in cut
  \/ display = "RGB_Reflash" /\ "dma" \in cut

ReturnsUnlessTrapped == display # "loop" ~> display = "loop" \/ Trapped

(* A reading that RGB_Con has received gets to the LEDs, unless the page   *)
(* is left or the channel has been marked for good.                        *)
ReadingShown ==
  \A l \in Lights :
    worker = "send" /\ led_buffer = {l} /\ "channel" \notin cut
      ~> l \in strip \/ page # "RGBLed" \/ display # "loop"

(* A thread that is deleted gives back the mutexes it has taken            *)
(* (rt-thread/src/thread.c:156): a deleted thread does not own the bus.    *)
DeletedOwnsNothing == bus # "deleted"

(* The lower the light, the brighter the LEDs (README.md:63): a frame for  *)
(* a lower reading is at least as bright as the frame it replaces.         *)
Brightness(c) == c.R + c.G + c.B

DarkerIsBrighter ==
  [][\A a \in strip, b \in strip' :
       b < a => Brightness(CUR_COLOR(b)) >= Brightness(CUR_COLOR(a))]_strip

=============================================================================
