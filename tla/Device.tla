------------------------------- MODULE Device -------------------------------
(***************************************************************************)
(* A person's operation of an account's device: the rescue bar's buttons,  *)
(* the question the destructive ones ask first, their tickets and          *)
(* cooldowns (workbench/rescue.rs), beside the other two works of a device *)
(* that go out from the window, a refresh of its picture                   *)
(* (workbench/picture.rs) and a switch of its backends (Writes; only when  *)
(* it is out, here), which keep each other from going out                  *)
(* (`Model::device_busy`).                                                 *)
(*                                                                         *)
(* A handler of the event loop is one step.  A work's thread, the thread   *)
(* that reads `Status` and the Runtime step between any two of them.       *)
(***************************************************************************)
EXTENDS Naturals, FiniteSets

CONSTANTS
  Devices,    \* in the order `Status` lists them: numbers
  Nobody,     \* no account, no operation, no question
  Bars        \* what a behaviour goes through: see `bar`

ASSUME DeviceAssumption == Nobody \notin Devices

VARIABLES
  bar,        \* [ops, works, accounts, readings, others, presses, turns, epochs]: its buttons,
              \* what is read of its devices first and later, and its bounds
  look,       \* [page, shown, picked]: what a person looks at
  link,       \* [at, epoch]: what the newest `Status` said of the Runtime
  listed,     \* per account of the newest `Status`, its reading
  seen,       \* every account a `Status` has listed
  slots,      \* per account, the ticket of its operation out, or of the one that cools down
  pictures,   \* per account, the same of its refresh
  switch,     \* [of, at]: the switch of backends, out or its answer lost
  asked,      \* [of, op]: the question a destructive operation asks first
  since,      \* what has happened since the question asked was
  sent,       \* what had happened since its question when a destructive one was last sent
  issued,     \* tickets given
  works,      \* the threads of works that have not landed
  read,       \* [at, gen, epoch, says]: the `Status` read under way
  writes,     \* the generation of writes
  outside     \* [epoch, device, turns]: the Runtime, and each account's reading there

deviceVars ==
  <<bar, look, link, listed, seen, slots, pictures, switch, asked, since, sent, issued, works, read,
    writes, outside>>

Destructive == {"EmulatorStop", "EmulatorRestart", "GameRestart"}
Controls == {"EmulatorStart", "EmulatorStop", "EmulatorRestart"}
Games == {"GameLaunch", "GameRestart"}

(* What `Status` says of one account's device; Absent: it does not list it. *)
Absent == Nobody
Reading(emulator, doing, fence) == [emulator |-> emulator, doing |-> doing, fence |-> fence]

Rest == [out |-> 0, cooling |-> 0]
NoQuestion == [of |-> Nobody, op |-> Nobody]
NoSwitchOut == [of |-> Nobody, at |-> "none"]
NoRead == [at |-> "none", gen |-> 0, epoch |-> 0, says |-> Nobody]

-----------------------------------------------------------------------------
(* What the window offers.                                                 *)

Online == link.at = "online"
Cards == IF Online THEN DOMAIN listed ELSE seen
First(accounts) == CHOOSE a \in accounts : \A b \in accounts : a <= b

\* The account whose picture shows (`Pictures::account`).
Picture ==
  IF Cards = {} THEN Nobody ELSE IF look.picked \in Cards THEN look.picked ELSE First(Cards)

\* device_busy: what of its device is out from here, said in this order.
Busy(a) ==
  CASE slots[a].out # 0 -> "rescue"
    [] slots[a].out = 0 /\ switch.of = a /\ a \in DOMAIN listed -> "switch"
    [] slots[a].out = 0 /\ ~(switch.of = a /\ a \in DOMAIN listed) /\ pictures[a].out # 0 -> "refresh"
    [] OTHER -> "free"

\* rescue_hold: nothing holds every button of the account's.
Free(a) == Busy(a) = "free" /\ slots[a].cooling = 0 /\ listed[a].doing = "nothing"

\* A button's own reading (`Rescue::view`): an instance whose emulator is controlled here is
\* checked and its game operated only when that was not last read off; a game not under a fence.
Fits(op, reading) ==
  LET discovered == Controls \cap bar.ops # {}
      off == reading.emulator = "off"
  IN CASE op = "EmulatorStart" -> reading.emulator # "on"
       [] op \in {"EmulatorStop", "EmulatorRestart"} -> ~off
       [] op = "SelfCheck" -> ~(off /\ discovered)
       [] op \in Games -> ~(off /\ discovered) /\ ~reading.fence

BarShows == look.page = "main" /\ look.shown /\ Online

Offers(a, op) == BarShows /\ a \in DOMAIN listed /\ op \in bar.ops /\ Free(a) /\ Fits(op, listed[a])

\* Pictures::refresh_view: none is out, none cools down.
RefreshView(a) == pictures[a] = Rest

\* refresh_hold, refresh_view: the picture is followed, no operation and no switch is out, the
\* account does nothing, its emulator was not last read off and no fault holds it.
Refreshable(a) ==
  /\ BarShows /\ a = Picture /\ a \in DOMAIN listed
  /\ Busy(a) \notin {"rescue", "switch"} /\ RefreshView(a)
  /\ listed[a].doing = "nothing" /\ listed[a].emulator # "off" /\ ~listed[a].fence

\* The settings page's group of the device's backends (`group_state`).
Switchable(a) ==
  /\ look.page = "settings" /\ Online /\ a \in DOMAIN listed
  /\ switch = NoSwitchOut /\ Busy(a) \notin {"rescue", "refresh"}

\* The question asked goes, for good.
Unconfirm == asked' = NoQuestion

\* What happens while a question stays asked.
Notes(event) == since' = IF asked' = NoQuestion THEN {} ELSE since \cup {event}

-----------------------------------------------------------------------------
(* A person.                                                               *)

Thread(kind, a, op) ==
  [kind |-> kind, of |-> a, op |-> op, ticket |-> issued + 1, word |-> Nobody, letGo |-> FALSE]

\* Rescue::begin: a ticket, and the question asked goes.
BeginWork(a) == slots[a] = Rest /\ issued' = issued + 1 /\ Unconfirm

\* send: once, under a ticket; the system may refuse the thread, which is its answer.
SendOut(a, op) ==
  /\ BeginWork(a)
  /\ \/ /\ slots' = [slots EXCEPT ![a] = [out |-> issued + 1, cooling |-> 0]]
        /\ works' = works \cup {Thread("rescue", a, op)}
        /\ UNCHANGED writes
     \/ /\ slots' = [slots EXCEPT ![a] = [out |-> 0, cooling |-> issued + 1]]
        /\ writes' = writes + 1
        /\ UNCHANGED works

Pressing == issued < bar.presses

\* press: one that takes two presses asks, whatever was asked before; another goes out.
PressBar(op) ==
  /\ Pressing /\ Picture # Nobody /\ Offers(Picture, op)
  /\ IF op \in Destructive
       THEN /\ asked' = [of |-> Picture, op |-> op] /\ since' = {}
            /\ UNCHANGED <<slots, sent, issued, works, writes>>
       ELSE SendOut(Picture, op) /\ since' = {} /\ UNCHANGED sent
  /\ UNCHANGED <<bar, look, link, listed, seen, pictures, switch, read, outside>>

\* confirmed: it goes out if its button can still be pressed; the question goes either way.
Confirm ==
  /\ Pressing /\ asked # NoQuestion
  /\ IF Offers(asked.of, asked.op)
       THEN SendOut(asked.of, asked.op) /\ sent' = since
       ELSE Unconfirm /\ UNCHANGED <<slots, sent, issued, works, writes>>
  /\ since' = {}
  /\ UNCHANGED <<bar, look, link, listed, seen, pictures, switch, read, outside>>

Cancel ==
  /\ asked # NoQuestion /\ Unconfirm /\ since' = {}
  /\ UNCHANGED <<bar, look, link, listed, seen, slots, pictures, switch, sent, issued,
                 works, read, writes, outside>>

\* Pictures::refresh_begin: under a ticket too.
RefreshBegin(a) ==
  /\ RefreshView(a)
  /\ issued' = issued + 1
  /\ pictures' = [pictures EXCEPT ![a].out = issued + 1]

\* refresh::pressed: the question asked stays.
Refresh(a) ==
  /\ Pressing /\ "refresh" \in bar.works /\ Refreshable(a)
  /\ RefreshBegin(a)
  /\ works' = works \cup {Thread("refresh", a, Nobody)}
  /\ UNCHANGED <<bar, look, link, listed, seen, slots, switch, asked, since, sent, read, writes,
                 outside>>

\* A switch of the device's backends goes out, from the settings page.
Switch(a) ==
  /\ Pressing /\ "switch" \in bar.works /\ Switchable(a)
  /\ issued' = issued + 1 /\ switch' = [of |-> a, at |-> "out"]
  /\ works' = works \cup {Thread("switch", a, Nobody)}
  /\ UNCHANGED <<bar, look, link, listed, seen, slots, pictures, asked, since, sent, read,
                 writes, outside>>

\* Mutant: another page is gone to and the question stays.
TurnKeeping(page) == look' = [look EXCEPT !.page = page] /\ UNCHANGED asked

\* set_page: the question goes with the page.
Turn(page) == look' = [look EXCEPT !.page = page] /\ Unconfirm

\* pick_account: and with the account shown, when another one is picked.
Pick(a) == look' = [look EXCEPT !.picked = a] /\ Unconfirm

\* The window is minimized or comes back: the next `Status` looks, nothing here does.
Minimize == look' = [look EXCEPT !.shown = ~@] /\ UNCHANGED <<asked, since>>

Look ==
  /\ \/ \E page \in {"main", "settings"} \ {look.page} : Turn(page) /\ Notes("page")
     \/ \E a \in Cards \ {look.picked} : Pick(a) /\ Notes("account")
     \/ Minimize
  /\ UNCHANGED <<bar, link, listed, seen, slots, pictures, switch, sent, issued, works, read,
                 writes, outside>>

\* A cooldown's timer runs out.
Cooled(a) ==
  slots[a].cooling # 0 /\ slots' = [slots EXCEPT ![a].cooling = 0] /\ UNCHANGED pictures
RefreshCooled(a) ==
  pictures[a].cooling # 0 /\ pictures' = [pictures EXCEPT ![a].cooling = 0] /\ UNCHANGED slots

Cool(a) ==
  /\ Cooled(a) \/ RefreshCooled(a)
  /\ UNCHANGED <<bar, look, link, listed, seen, switch, asked, since, sent, issued, works, read,
                 writes, outside>>

-----------------------------------------------------------------------------
(* The threads of works, and the Runtime they ask.                         *)

\* What an operation the Runtime did leaves of the device.
After(op, reading) ==
  CASE op = "EmulatorStop" -> [reading EXCEPT !.emulator = "off"]
    [] op \in {"EmulatorStart", "EmulatorRestart"} -> [reading EXCEPT !.emulator = "on", !.fence = FALSE]
    [] op = "SelfCheck" -> [reading EXCEPT !.fence = FALSE]
    [] OTHER -> reading

\* operate, failed: done, refused, not sent for want of a connection, or lost, a panic of the
\* thread included, when nothing says whether it was done.
Operate(w) ==
  /\ w.word = Nobody
  /\ \E word \in {"answered", "lost"} : works' = (works \ {w}) \cup {[w EXCEPT !.word = word]}
  /\ \/ /\ outside.device[w.of] # Absent
        /\ outside' = [outside EXCEPT !.device[w.of] = After(w.op, @)]
     \/ UNCHANGED outside
  /\ UNCHANGED <<bar, look, link, listed, seen, slots, pictures, switch, asked, since, sent,
                 issued, read, writes>>

\* Mutant: an answer counts whatever ticket is out.
SettleAny(a, ticket) == slots[a].out # 0

\* settle: an answer counts only under the ticket still out.
Settle(a, ticket) == slots[a].out = ticket

Lands(w) == w.word # Nobody

\* landed: its cooldown runs from now, whatever it came to, and it counts as a write; a late
\* one changes nothing shown.
LandRescue(w) ==
  /\ w.kind = "rescue" /\ Lands(w)
  /\ IF Settle(w.of, w.ticket)
       THEN /\ slots' = [slots EXCEPT ![w.of] = [out |-> 0, cooling |-> w.ticket]]
            /\ writes' = writes + 1
       ELSE UNCHANGED <<slots, writes>>
  /\ UNCHANGED <<pictures, switch>>

\* Pictures::refresh_settle.
RefreshSettle(a, ticket) ==
  IF pictures[a].out = ticket
    THEN [pictures EXCEPT ![a] = [out |-> 0, cooling |-> ticket]]
    ELSE pictures

\* refresh::landed: no write for the reads.
LandRefresh(w) ==
  /\ w.kind = "refresh" /\ Lands(w)
  /\ pictures' = RefreshSettle(w.of, w.ticket)
  /\ UNCHANGED <<slots, switch, writes>>

\* The switch's answer: one that was lost leaves it to be seen over (Writes).
LandSwitch(w) ==
  /\ w.kind = "switch" /\ Lands(w)
  /\ IF w.letGo THEN UNCHANGED <<switch, writes>>
     ELSE /\ switch' = IF w.word = "lost" THEN [switch EXCEPT !.at = "unconfirmed"]
                       ELSE NoSwitchOut
          /\ writes' = writes + 1
  /\ UNCHANGED <<slots, pictures>>

LandWork ==
  \E w \in works :
    /\ LandRescue(w) \/ LandRefresh(w) \/ LandSwitch(w)
    /\ works' = works \ {w}
    /\ UNCHANGED <<bar, look, link, listed, seen, asked, since, sent, issued, read, outside>>

\* The device's own changes: a person at it, a task, the watch, another account's Runtime.
Others ==
  /\ outside.turns < bar.turns
  /\ \/ \E a \in bar.accounts, reading \in bar.others :
          /\ reading # outside.device[a]
          /\ outside' = [outside EXCEPT !.device[a] = reading, !.turns = @ + 1]
     \/ /\ outside.epoch < bar.epochs
        /\ outside' = [outside EXCEPT !.epoch = @ + 1, !.turns = @ + 1]
  /\ UNCHANGED <<bar, look, link, listed, seen, slots, pictures, switch, asked, since, sent,
                 issued, works, read, writes>>

-----------------------------------------------------------------------------
(* `Status`, read by the live lane's thread, one at a time.                *)

BeginStatus ==
  /\ read = NoRead /\ read' = [NoRead EXCEPT !.at = "begun", !.gen = writes]
  /\ UNCHANGED <<bar, look, link, listed, seen, slots, pictures, switch, asked, since, sent,
                 issued, works, writes, outside>>

\* It answers with what holds, or not at all.
AnswerRead ==
  /\ read.at = "begun"
  /\ \/ read' = [read EXCEPT !.at = "online", !.epoch = outside.epoch,
                             !.says = [a \in {b \in Devices : outside.device[b] # Absent} |->
                                         outside.device[a]]]
        /\ UNCHANGED outside
     \/ /\ outside.turns < bar.turns /\ outside' = [outside EXCEPT !.turns = @ + 1]
        /\ read' = [read EXCEPT !.at = "down"]
  /\ UNCHANGED <<bar, look, link, listed, seen, slots, pictures, switch, asked, since, sent,
                 issued, works, writes>>

\* landed: a read begun before the last write is let go.
ReadOld ==
  /\ read.at \in {"online", "down"} /\ read.gen < writes /\ read' = NoRead
  /\ UNCHANGED <<bar, look, link, listed, seen, slots, pictures, switch, asked, since, sent,
                 issued, works, writes, outside>>

\* leave_online: no device can be operated, so the question goes.
ReadDown ==
  /\ read.at = "down" /\ read.gen = writes /\ read' = NoRead
  /\ link' = [link EXCEPT !.at = "down"] /\ listed' = <<>>
  /\ Unconfirm /\ Notes("down")
  /\ UNCHANGED <<bar, look, seen, slots, pictures, switch, sent, issued, works, writes,
                 outside>>

\* What is out is let go, says so, and cools down.
LetGo(held) ==
  [a \in Devices |->
     IF held[a].out = 0 THEN held[a] ELSE [out |-> 0, cooling |-> held[a].out]]

RescueRestarted == slots' = LetGo(slots)
RefreshRestarted == pictures' = LetGo(pictures)

\* The question's button as this `Status` leaves it (`rescue_reviewed`).
ReviewedBar ==
  IF \E q \in {asked} \ {NoQuestion} : Offers(q.of, q.op)'
    THEN UNCHANGED <<asked, since>>
    ELSE Unconfirm /\ Notes("off")

\* Pictures::settle: a pick that is not listed goes to the first.
SettledPick ==
  IF DOMAIN read.says = {} \/ look.picked \in DOMAIN read.says THEN look.picked
  ELSE First(DOMAIN read.says)

\* `Status` of the Runtime known, or of the first (`online`, `live_landed`).
ReadSame ==
  /\ read.at = "online" /\ read.gen = writes /\ link.epoch \in {0, read.epoch}
  /\ read' = NoRead /\ link' = [at |-> "online", epoch |-> read.epoch]
  /\ listed' = read.says /\ seen' = seen \cup DOMAIN read.says
  /\ look' = [look EXCEPT !.picked = SettledPick]
  /\ UNCHANGED <<bar, slots, pictures, sent, issued, works, outside>>
  /\ \/ switch.at = "unconfirmed" /\ switch' = NoSwitchOut /\ writes' = writes + 1
     \/ UNCHANGED <<switch, writes>>
  /\ ReviewedBar

\* Of a Runtime started again: nothing out holds across it, nor the question.
ReadAnother ==
  /\ read.at = "online" /\ read.gen = writes /\ read.epoch # link.epoch /\ link.epoch # 0
  /\ read' = NoRead /\ link' = [at |-> "online", epoch |-> read.epoch]
  /\ listed' = read.says /\ seen' = seen \cup DOMAIN read.says
  /\ look' = [look EXCEPT !.picked = SettledPick]
  /\ RescueRestarted /\ RefreshRestarted
  /\ switch' = NoSwitchOut
  /\ works' = {[w EXCEPT !.letGo = TRUE] : w \in works}
  /\ Unconfirm /\ Notes("restart")
  /\ UNCHANGED <<bar, sent, issued, writes, outside>>

-----------------------------------------------------------------------------
DeviceInit ==
  /\ bar \in Bars
  /\ look = [page |-> "main", shown |-> TRUE, picked |-> Nobody]
  /\ link = [at |-> "unknown", epoch |-> 0] /\ listed = <<>> /\ seen = {}
  /\ slots = [a \in Devices |-> Rest] /\ pictures = [a \in Devices |-> Rest]
  /\ switch = NoSwitchOut /\ asked = NoQuestion /\ since = {} /\ sent = {}
  /\ issued = 0 /\ works = {} /\ read = NoRead /\ writes = 0
  /\ \E readings \in [Devices -> bar.readings \cup {Absent}] :
       /\ \A a \in Devices : readings[a] = Absent <=> a \notin bar.accounts
       /\ outside = [epoch |-> 1, device |-> readings, turns |-> 0]

DeskStep == (\E op \in bar.ops : PressBar(op)) \/ Confirm \/ Cancel \/ Look
                \/ \E a \in Devices : Refresh(a) \/ Switch(a)
CoolStep == \E a \in Devices : Cool(a)
WorkStep == (\E w \in works : Operate(w)) \/ LandWork
StatusStep == BeginStatus \/ AnswerRead \/ ReadOld \/ ReadDown \/ ReadSame \/ ReadAnother

DeviceNext == DeskStep \/ CoolStep \/ WorkStep \/ StatusStep \/ Others

DeviceSpec == DeviceInit /\ [][DeviceNext]_deviceVars

-----------------------------------------------------------------------------
(* What must hold.                                                         *)

\* One work of a device goes out from here at a time, of the three kinds that operate it: an
\* operation, a refresh of its picture, a switch of its backends, one whose answer was lost
\* until it is seen over; only a restart of the Runtime lets a second out while the thread of
\* one it let go still runs (`Model::device_busy`, `begin`, `settle`, `restarted`).
OneWorkPerDevice ==
  \A a \in Devices :
    LET out == {w \in works : w.of = a /\ ~w.letGo}
    IN /\ Cardinality(out) <= 1
       /\ (switch.of = a /\ switch.at = "unconfirmed") => out = {}

\* A destructive operation goes out only on the question it asked, and since then the page and the
\* account stayed, the Runtime answered and did not start again, and no `Status` left the button
\* off (`press`, `confirmed`, `set_page`, `pick_account`, `leave_online`, `rescue_reviewed`).
SentAsAsked == sent = {}
=============================================================================
