------------------------ MODULE PageThreadsProofs --------------------------
(***************************************************************************)
(* Theorems about the pages with threads: types, the widgets the threads   *)
(* use, the strip, and where the display thread may hang.                  *)
(***************************************************************************)
EXTENDS PageThreads, SequenceTheorems, TLAPS

(* Which places go with which page.                                        *)
Places ==
  /\ page = "none" => reader = "none" /\ worker = "none" /\ display = "loop"
  /\ page = "Main" => /\ display \in {"loop", "PageDelay", "clock_deleted"}
                      /\ reader \in {"none", "time", "date", "sleep"}
                      /\ worker = "none" /\ labels
  /\ page = "RGBLed" => /\ display \in {"loop", "hardship_init", "RGB_Reflash"}
                        /\ reader \in {"none", "read", "read_sent", "send", "sleep"}
                        /\ worker \in {"none", "recv", "send", "channel", "dma"}
  /\ page = "alarm" => /\ display \in {"loop", "beep_deleted", "alarm_deleted"}
                       /\ reader \notin {"time", "date"}
                       /\ worker \in {"none", "recv", "beep"}
                       /\ alarm_img
  /\ display \in {"PageDelay", "clock_deleted", "hardship_init", "RGB_Reflash",
                  "alarm_deleted"} => reader = "none"
  /\ display # "loop" => worker = "none"

(* What RGB_Con receives is light: the mailbox is new with every page.     *)
Mail == page = "RGBLed" => /\ mailbox \in Seq(Lights)
                           /\ reader = "send" => value \in Lights

IInv == TypeOK /\ Places /\ Mail

(* The mailbox after a send, and what is left and received.                *)
LEMMA Sent ==
  ASSUME NEW S, NEW m \in S, mailbox \in Seq(S), Len(mailbox) <= MailboxSize,
         rt_mb_send(m)
  PROVE  mailbox' \in Seq(S) /\ Len(mailbox') <= MailboxSize
<1>1. /\ Append(mailbox, m) \in Seq(S)
      /\ Len(Append(mailbox, m)) = Len(mailbox) + 1
      /\ Len(mailbox) \in Nat
  BY AppendProperties, LenProperties
<1> QED BY <1>1, MailboxAssumption DEF rt_mb_send

LEMMA Received ==
  ASSUME NEW S, mailbox \in Seq(S), mailbox # <<>>, Len(mailbox) <= MailboxSize,
         mailbox' = Tail(mailbox)
  PROVE  Head(mailbox) \in S /\ mailbox' \in Seq(S) /\ Len(mailbox') <= MailboxSize
<1>1. /\ Head(mailbox) \in S /\ Tail(mailbox) \in Seq(S)
      /\ Len(Tail(mailbox)) = Len(mailbox) - 1 /\ Len(mailbox) \in Nat
  BY HeadTailProperties, LenProperties
<1> QED BY <1>1, MailboxAssumption

LEMMA Initially == Init => IInv
<1> SUFFICES ASSUME Init PROVE IInv OBVIOUS
<1>1. mailbox \in Seq(Lights \cup {10}) /\ Len(mailbox) <= MailboxSize
  <2>1. <<>> \in Seq(Lights \cup {10}) /\ Len(<<>>) = 0 BY EmptySeq
  <2> QED BY <2>1, MailboxAssumption DEF Init
<1>2. TypeOK BY <1>1 DEF Init, TypeOK, Readable
<1>3. Places /\ Mail BY DEF Init, Places, Mail
<1> QED BY <1>2, <1>3 DEF IInv

(* One step for each action.                                               *)
LEMMA Inductive == IInv /\ [Next]_vars => IInv'
<1> SUFFICES ASSUME IInv, [Next]_vars PROVE IInv' OBVIOUS
<1> USE DEF IInv, TypeOK, Places, Mail, leds, threads, widgets
<1>e. <<>> \in Seq(Lights) /\ <<>> \in Seq(Lights \cup {10}) /\ Len(<<>>) = 0
  BY EmptySeq
<1>1. CASE RGBLed_Setup BY <1>1, <1>e, MailboxAssumption DEF RGBLed_Setup
<1>2. CASE alarm_Setup BY <1>2, <1>e, MailboxAssumption DEF alarm_Setup
<1>3. CASE thread_init BY <1>3 DEF thread_init
<1>4. CASE RGBLed_Exit BY <1>4 DEF RGBLed_Exit, DeleteReader, Fill, ReaderCut, WorkerCut
<1>5. CASE RGBLed_Left BY <1>5 DEF RGBLed_Left, Start_DMA
<1>6. CASE alarm_Exit BY <1>6 DEF alarm_Exit
<1>7. CASE alarm_Exit_Alarm BY <1>7 DEF alarm_Exit_Alarm, DeleteReader, ReaderCut
<1>8. CASE alarm_Left BY <1>8 DEF alarm_Left
<1>9. CASE TransferDone BY <1>9 DEF TransferDone
<1>10. CASE Take BY <1>10 DEF Take
<1>11. CASE InitDone BY <1>11 DEF InitDone
<1>12. CASE ReadDone BY <1>12 DEF ReadDone, Readings, Readable
<1>13. CASE SendLight
  <2>1. mailbox' \in Seq(Lights) /\ Len(mailbox') <= MailboxSize
    BY <1>13, Sent DEF SendLight
  <2>2. mailbox' \in Seq(Lights \cup {10})
    BY <1>13, Sent DEF SendLight
  <2> QED BY <1>13, <2>1, <2>2 DEF SendLight
<1>14. CASE SendBeep
  <2>1. mailbox' \in Seq(Lights \cup {10}) /\ Len(mailbox') <= MailboxSize
    BY <1>14, Sent DEF SendBeep
  <2> QED BY <1>14, <2>1 DEF SendBeep
<1>15. CASE Image BY <1>15 DEF Image
<1>16. CASE Wake BY <1>16 DEF Wake
<1>17. CASE RGB_Con
  <2>1. /\ Head(mailbox) \in Lights /\ mailbox' \in Seq(Lights)
        /\ Len(mailbox') <= MailboxSize
    BY <1>17, Received DEF RGB_Con
  <2>2. mailbox' \in Seq(Lights \cup {10})
    BY <1>17, Received DEF RGB_Con
  <2> QED BY <1>17, <2>1, <2>2 DEF RGB_Con, Fill
<1>18. CASE MarkChannel BY <1>18 DEF MarkChannel
<1>19. CASE MarkTransfer BY <1>19 DEF MarkTransfer
<1>20. CASE StartTransfer BY <1>20 DEF StartTransfer
<1>21. CASE BeepOn
  <2>1. mailbox' \in Seq(Lights \cup {10}) /\ Len(mailbox') <= MailboxSize
    BY <1>21, Received DEF BeepOn
  <2> QED BY <1>21, <2>1 DEF BeepOn, BeeperRuns
<1>22. CASE BeepOff BY <1>22 DEF BeepOff, BeeperRuns
<1>23. CASE Main_Setup BY <1>23 DEF Main_Setup
<1>24. CASE data_thread_init BY <1>24 DEF data_thread_init
<1>25. CASE Main_Exit BY <1>25 DEF Main_Exit
<1>26. CASE Main_Left BY <1>26 DEF Main_Left
<1>27. CASE SetTime BY <1>27 DEF SetTime
<1>28. CASE SetDate BY <1>28 DEF SetDate
<1>29. CASE UNCHANGED vars BY <1>29 DEF vars
<1> QED BY <1>1, <1>2, <1>3, <1>4, <1>5, <1>6, <1>7, <1>8, <1>9, <1>10, <1>11,
           <1>12, <1>13, <1>14, <1>15, <1>16, <1>17, <1>18, <1>19, <1>20,
           <1>21, <1>22, <1>23, <1>24, <1>25, <1>26, <1>27, <1>28, <1>29
        DEF Next, Setup, Exit, Display, Reader, Worker

(* The types of the fields, for any readings and any size of the mailbox,  *)
(* and wherever Exit finds the threads.                                    *)
THEOREM TypeCorrect == Spec => []TypeOK
<1>1. IInv => TypeOK BY DEF IInv
<1> QED BY Initially, Inductive, <1>1, PTL DEF Spec

(* time_update and alarm_update use their widgets only while they exist.   *)
THEOREM WidgetsSafe == Spec => []WidgetsLive
<1>1. IInv => WidgetsLive BY DEF IInv, TypeOK, Places, WidgetsLive
<1> QED BY Initially, Inductive, <1>1, PTL DEF Spec

-----------------------------------------------------------------------------
(* Who owns the bus: a reader in its transfer, or one that was deleted     *)
(* there, ...                                                              *)
BusOwner ==
  /\ bus = "reader" <=> reader \in {"init_sent", "read_sent"}
  /\ bus = "deleted" <=> "bus" \in cut

(* ... and what the places of RGB_Con, and where it was deleted, say of    *)
(* the transfer and the strip.  Outside the page the strip is dark or      *)
(* about to be, unless the channel is marked for good.                     *)
StripState ==
  /\ channel = "BUSY" <=> dma # "READY" \/ worker = "channel" \/ "channel" \in cut
  /\ dma = "BUSY" <=> worker = "dma" \/ "dma" \in cut
  /\ worker = "channel" \/ "channel" \in cut => dma = "READY"
  /\ worker = "channel" => "channel" \notin cut
  /\ "dma" \in cut => display = "RGB_Reflash"
  /\ display = "RGB_Reflash" => page = "RGBLed" /\ led_buffer = {}
  /\ page # "RGBLed" \/ display = "hardship_init"
       => \/ "channel" \in cut
          \/ IF dma = "running" THEN flight = {} ELSE strip = {}

DInv == IInv /\ BusOwner /\ StripState

LEMMA DriverInitially == Init => DInv
BY Initially DEF Init, DInv, BusOwner, StripState

LEMMA DriverInductive == DInv /\ [Next]_vars => DInv'
<1> SUFFICES ASSUME DInv, [Next]_vars PROVE BusOwner' /\ StripState'
  BY Inductive DEF DInv
<1> USE DEF DInv, IInv, TypeOK, Places, BusOwner, StripState, leds, threads, widgets,
            ReaderCut, WorkerCut
<1>1. CASE RGBLed_Setup BY <1>1 DEF RGBLed_Setup
<1>2. CASE alarm_Setup BY <1>2 DEF alarm_Setup
<1>3. CASE thread_init BY <1>3 DEF thread_init
<1>4. CASE RGBLed_Exit BY <1>4 DEF RGBLed_Exit, DeleteReader, Fill
<1>5. CASE RGBLed_Left BY <1>5 DEF RGBLed_Left, Start_DMA
<1>6. CASE alarm_Exit BY <1>6 DEF alarm_Exit
<1>7. CASE alarm_Exit_Alarm BY <1>7 DEF alarm_Exit_Alarm, DeleteReader
<1>8. CASE alarm_Left BY <1>8 DEF alarm_Left
<1>9. CASE TransferDone BY <1>9 DEF TransferDone
<1>10. CASE Take BY <1>10 DEF Take
<1>11. CASE InitDone BY <1>11 DEF InitDone
<1>12. CASE ReadDone BY <1>12 DEF ReadDone
<1>13. CASE SendLight BY <1>13 DEF SendLight
<1>14. CASE SendBeep BY <1>14 DEF SendBeep
<1>15. CASE Image BY <1>15 DEF Image
<1>16. CASE Wake BY <1>16 DEF Wake
<1>17. CASE RGB_Con BY <1>17 DEF RGB_Con, Fill
<1>18. CASE MarkChannel
  <2>1. page = "RGBLed" /\ display = "loop" /\ worker = "send" /\ dma = "READY"
    BY <1>18 DEF MarkChannel
  <2>2. CASE channel = "BUSY"
    BY <1>18, <2>1, <2>2 DEF MarkChannel
  <2>3. CASE channel # "BUSY"
    BY <1>18, <2>1, <2>3 DEF MarkChannel
  <2> QED BY <2>2, <2>3
<1>19. CASE MarkTransfer BY <1>19 DEF MarkTransfer
<1>20. CASE StartTransfer BY <1>20 DEF StartTransfer
<1>21. CASE BeepOn BY <1>21 DEF BeepOn, BeeperRuns
<1>22. CASE BeepOff BY <1>22 DEF BeepOff, BeeperRuns
<1>23. CASE Main_Setup BY <1>23 DEF Main_Setup
<1>24. CASE data_thread_init BY <1>24 DEF data_thread_init
<1>25. CASE Main_Exit BY <1>25 DEF Main_Exit
<1>26. CASE Main_Left BY <1>26 DEF Main_Left
<1>27. CASE SetTime BY <1>27 DEF SetTime
<1>28. CASE SetDate BY <1>28 DEF SetDate
<1>29. CASE UNCHANGED vars BY <1>29 DEF vars
<1> QED BY <1>1, <1>2, <1>3, <1>4, <1>5, <1>6, <1>7, <1>8, <1>9, <1>10, <1>11,
           <1>12, <1>13, <1>14, <1>15, <1>16, <1>17, <1>18, <1>19, <1>20,
           <1>21, <1>22, <1>23, <1>24, <1>25, <1>26, <1>27, <1>28, <1>29
        DEF Next, Setup, Exit, Display, Reader, Worker

(* A page leaves no light behind, for any sequence of visits and wherever  *)
(* Exit finds the threads, but with the channel marked.                    *)
THEOREM LeftDark == Spec => []DarkWhenLeft
<1>1. DInv => DarkWhenLeft
  BY DEF DInv, IInv, StripState, DarkWhenLeft
<1> QED BY DriverInitially, DriverInductive, <1>1, PTL DEF Spec

(* The display thread waits for what nobody will give it: the lock of the  *)
(* bus, which no thread of the page before can hold any more, or a         *)
(* transfer marked and not started, whose thread is gone.                  *)
Blocked ==
  \/ display = "hardship_init" /\ bus # "free"
  \/ display = "RGB_Reflash" /\ dma = "BUSY"

(* The display thread is blocked exactly where a thread was deleted inside *)
(* the call it waits for: every way to hang it begins with such a deletion *)
(* (Page_RGBLed.c:148-149, Page_alarm.c:126), and both do hang it.         *)
THEOREM OnlyCutsBlock == Spec => [](Blocked <=> Trapped)
<1>1. DInv => (Blocked <=> Trapped)
  BY DEF DInv, IInv, TypeOK, Places, BusOwner, StripState, Blocked, Trapped
<1> QED BY DriverInitially, DriverInductive, <1>1, PTL DEF Spec

(* There is no way out: nothing the threads, the interrupt or the user do  *)
(* frees the display thread again.                                         *)
THEOREM TrappedForGood == Spec => [][Trapped => Trapped']_vars
<1>1. DInv /\ [Next]_vars => [Trapped => Trapped']_vars
  <2> SUFFICES ASSUME DInv, Next, Trapped PROVE Trapped'
    OBVIOUS
  <2> USE DEF DInv, IInv, TypeOK, Places, BusOwner, StripState, Trapped
  <2>1. ~Setup /\ ~Exit
    BY DEF Setup, Exit, Main_Setup, RGBLed_Setup, alarm_Setup,
           Main_Exit, RGBLed_Exit, alarm_Exit
  <2>2. ~Display
    BY DEF Display, data_thread_init, Main_Left, thread_init, RGBLed_Left,
           alarm_Exit_Alarm, alarm_Left
  <2>3. CASE TransferDone
    BY <2>3 DEF TransferDone, threads
  <2>4. CASE Reader
    BY <2>4 DEF Reader, SetTime, SetDate, Take, InitDone, ReadDone, SendLight,
                SendBeep, Image, Wake
  <2>5. CASE Worker
    BY <2>5 DEF Worker, RGB_Con, MarkChannel, MarkTransfer, StartTransfer,
                BeepOn, BeepOff
  <2> QED BY <2>1, <2>2, <2>3, <2>4, <2>5 DEF Next
<1> QED BY <1>1, DriverInitially, DriverInductive, PTL DEF Spec
=============================================================================
