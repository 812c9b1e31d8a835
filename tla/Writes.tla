------------------------------- MODULE Writes -------------------------------
(***************************************************************************)
(* The workbench's writes (workbench/actions.rs): pausing and resuming the *)
(* scheduling, and the changes of settings asked from the top bar, the     *)
(* settings page and an account's rules panel, with the requests they send *)
(* (acui-source workbench.rs, workbench/backends.rs) and the reads that    *)
(* show what came of them (workbench/model.rs).                            *)
(*                                                                         *)
(* A press sends one request on a thread of its own, under a ticket.  Its  *)
(* answer may be lost, and the request given up may come to the Runtime    *)
(* only then; the Runtime may restart meanwhile; other tools change the    *)
(* same settings and the same pause; and the reads of `Status` and of the  *)
(* fact snapshot go on all the time.  A read is in its thread's hands from *)
(* its begin to its landing: how it is asked and queued is the module      *)
(* Reads'.                                                                 *)
(*                                                                         *)
(* A setting is a key <<field, owner>>, its value 0 when the configuration *)
(* file's is in effect; an account's quiet times are a set.                *)
(***************************************************************************)
EXTENDS Naturals, FiniteSets

CONSTANTS Desks,    \* the desks checked
          Accounts, \* the accounts, and their devices
          Times,    \* the quiet times there are
          Texts,    \* what the person types in a field, or picks in a box
          Host,     \* the owner of what is no account's
          Nothing   \* no value

HostFields == {"TopBar", "EvidenceDays"}
RuleFields == {"Quiet", "Idle", "Start"}
DraftFields == HostFields \cup {"Backends"}
Fields == DraftFields \cup RuleFields
Scheduling == {"PauseAll", "ResumeAll"}
Slots == {"Scheduling", "Settings"}

\* What a request is answered, and what else a line says of one.
Answers == {"Applied", "Unconfirmed", "NotSent", "Refused", "Conflict", "PauseApplied",
            "AlreadyPaused", "Resumed", "PauseMoved"}
Words == Answers \cup {"Sending", "NoThread", "NotWhole", "TooBig", "Rereading", "Restarted",
                       "ConflictRefreshed", "NotApplied", "UnconfirmedSeeNow",
                       "UnconfirmedChanged"}

\* What an answer that did not settle it waits for.
Whys == {"Conflict", "Switch", "Unconfirmed"}

\* A desk: the fields used, whether the scheduling is paused and resumed, whether the Runtime
\* names a settings' version, the accounts its panel shows, whether every setting has an online
\* value at first or none; and its bounds: the requests sent, the newest owner epoch, the newest
\* version of the settings and of the pause, the newest version others make of the settings, the
\* failed reads.
DeskTypes == [fields : SUBSET Fields, scheduling : BOOLEAN, versioned : BOOLEAN,
              accounts : SUBSET Accounts, online : SUBSET BOOLEAN, presses : Nat,
              epochs : Nat \ {0}, versions : Nat \ {0}, others : Nat, outages : Nat]

ASSUME WritesAssumption ==
    /\ Desks \subseteq {d \in DeskTypes : d.others <= d.versions} /\ Texts \subseteq 0 .. 3
    /\ Nothing \notin Accounts \cup Times \cup Words \cup Whys \cup Fields \cup {Host}
    /\ Host \notin Accounts

VARIABLES desk,     \* the desk of this behaviour, for good
          runtime,  \* [epoch, version, rows, pause, pauses, switch, away, late, missed]: the
                    \* Runtime; late: the requests given up that may still come to it; missed:
                    \* the tickets of those that the read that judges them did not show (history)
          taken,    \* the tickets whose change the Runtime took (history)
          calls,    \* the requests whose answer has not come
          reads,    \* the reads of `Status` and of the fact snapshot under way
          view,     \* the Model: what is shown, on the event loop only
          actions,  \* the Actions, on the event loop only
          panel     \* the account whose rules panel shows

vars == <<desk, runtime, taken, calls, reads, view, actions, panel>>

Lines == desk.fields \cup {"Scheduling"}
Owners(field) == IF field \in HostFields THEN {Host} ELSE desk.accounts
Keys == {key \in desk.fields \X (Accounts \cup {Host}) : key[2] \in Owners(key[1])}
FileValue(field) == IF field = "Quiet" THEN {} ELSE 0
OnlineValue(field) == IF field = "Quiet" THEN Times ELSE 2
Values(field) == IF field = "Quiet" THEN SUBSET Times ELSE 0 .. 2

\* A field's text that is no whole number.
Odd == 3

\* An idle action of 2 stops the emulator; a start of 2 is off.
StopsEmulator(rows, account) == <<"Idle", account>> \in DOMAIN rows /\ rows[<<"Idle", account>>] = 2

SlotOf(what) == IF what \in Scheduling THEN "Scheduling" ELSE "Settings"
LineOf(what) == IF what \in Scheduling THEN "Scheduling" ELSE what

----------------------------------------------------------------------------
(* Where a change of settings stands. *)

Idle == [at |-> "Idle", field |-> Nothing, why |-> Nothing, arg |-> 0]
Confirming(preset) == [Idle EXCEPT !.at = "Confirming", !.arg = preset]
InFlight(field) == [Idle EXCEPT !.at = "InFlight", !.field = field]
Rereading(field, why, based) ==
    [at |-> "Rereading", field |-> field, why |-> why, arg |-> based]
Open(flow) == flow.at \in {"Idle", "Confirming"}

NoSaid == [word |-> Nothing, ticket |-> 0, of |-> Nothing]
NoDraft == [text |-> Nothing, applied |-> FALSE]
NoForm == [owner |-> Nothing, typed |-> Nothing, adding |-> FALSE, ticket |-> 0]
NoPause == [rev |-> 0, ours |-> FALSE]

----------------------------------------------------------------------------
(* The reads under way. *)

NotBegun == [at |-> "none", stale |-> FALSE, found |-> Nothing]

\* A write's answer landed: a read begun before this no longer counts, whatever it finds.
Wrote(slots) ==
    [read \in DOMAIN slots |->
        IF slots[read].at = "none" THEN slots[read]
        ELSE [slots[read] EXCEPT !.stale = TRUE, !.found = Nothing]]

----------------------------------------------------------------------------
(* The Actions: each operator is one of its methods, on the record. *)

\* A new ticket; its slot's confirmation ends here.
Begun(a, call) ==
    LET b == [a EXCEPT !.issued = call.ticket, !.out[SlotOf(call.what)] = call.ticket,
                       !.said[LineOf(call.what)] =
                            [word |-> "Sending", ticket |-> call.ticket, of |-> call.of]]
    IN IF call.what \in Scheduling THEN [b EXCEPT !.confirming = 0]
       ELSE [b EXCEPT !.flow = InFlight(call.what), !.asked = Nothing]

\* What an answer that says nothing, or that the settings had moved on, leaves awaited.
RereadOf(call, word) ==
    IF word = "Conflict" THEN "Conflict"
    ELSE IF word # "Unconfirmed" THEN Nothing
    ELSE IF call.what = "Backends" THEN "Switch" ELSE "Unconfirmed"

\* A mutant: a time added that was taken stays in the form.
QuietKept(form, word) == [form EXCEPT !.adding = FALSE]

\* A change of the quiet times answered: a time that was taken leaves the form.
QuietSettled(form, word) ==
    IF ~form.adding \/ word \in {"Unconfirmed", "Conflict"} THEN form
    ELSE IF word = "Applied" THEN NoForm ELSE [form EXCEPT !.adding = FALSE]

DraftApplied(drafts, call) ==
    [key \in DOMAIN drafts |->
        IF key = <<call.what, call.of>> /\ drafts[key] # NoDraft
        THEN [drafts[key] EXCEPT !.applied = TRUE] ELSE drafts[key]]

SettingsSettled(a, call, word) ==
    LET why == RereadOf(call, word)
    IN [a EXCEPT
          !.out["Settings"] = 0,
          !.flow = IF why = Nothing THEN Idle ELSE Rereading(call.what, why, call.based),
          !.pending = IF why = "Switch"
                      THEN [of |-> call.of, based |-> call.based, ticket |-> call.ticket,
                            waited |-> FALSE, over |-> FALSE]
                      ELSE @,
          !.drafts = IF word = "Applied" THEN DraftApplied(@, call) ELSE @,
          !.behind = @ \/ word = "Applied",
          !.form = IF call.what = "Quiet" THEN QuietSettled(@, word) ELSE @,
          !.said[call.what] = [word |-> IF why = Nothing THEN word ELSE "Rereading",
                               ticket |-> call.ticket, of |-> call.of]]

Settled(a, call, word) ==
    IF call.what \notin Scheduling THEN SettingsSettled(a, call, word)
    ELSE [a EXCEPT !.out["Scheduling"] = 0,
                   !.said["Scheduling"] = [word |-> word, ticket |-> call.ticket,
                                           of |-> call.now]]

\* Another owner epoch: no ticket holds across it, no line says anything of the old one but
\* that a write was out, and the drafts, the form and what they waited for go.
NewEpoch(a) ==
    LET restarted == (IF a.out["Scheduling"] # 0 THEN {"Scheduling"} ELSE {})
                     \cup (IF a.flow.field # Nothing THEN {a.flow.field} ELSE {})
    IN [a EXCEPT
          !.out = [slot \in Slots |-> 0], !.confirming = 0, !.flow = Idle,
          !.drafts = [key \in DOMAIN @ |-> NoDraft], !.pending = Nothing,
          !.said = [at \in Lines |->
                       IF at \in restarted
                       THEN [word |-> "Restarted", ticket |-> 0, of |-> a.said[at].of]
                       ELSE NoSaid],
          !.target = IF restarted \cap RuleFields = {} THEN Nothing ELSE @,
          !.form = NoForm, !.asked = Nothing, !.behind = FALSE]

\* The rules' lines speak of this account: what they said of another goes.
SpeakOf(a, account) ==
    IF a.target = account THEN a
    ELSE [a EXCEPT !.said = [at \in Lines |-> IF at \in RuleFields THEN NoSaid ELSE @[at]],
                   !.target = account]

RulesReset(a) == [a EXCEPT !.form = NoForm, !.asked = Nothing]

RulesFollow(a, account) ==
    [a EXCEPT !.form = IF @.owner \in {Nothing, account} THEN @ ELSE NoForm,
              !.asked = IF @ = account THEN @ ELSE Nothing]

\* What the version of the snapshot that came says of the change based on `based`.
Verdict(version, based) ==
    IF version = 0 THEN "UnconfirmedSeeNow"
    ELSE IF version = based THEN "NotApplied" ELSE "UnconfirmedChanged"

----------------------------------------------------------------------------
(* What a snapshot and a `Status` that count make of the Actions. *)

\* A snapshot read after the answer of the write asked from the flow's field.
Judged(a, read) ==
    LET field == a.flow.field
        word == IF a.flow.why = "Conflict" THEN "ConflictRefreshed"
                ELSE Verdict(read.version, a.flow.arg)
        changed == word = "UnconfirmedChanged"
    IN [a EXCEPT !.flow = Idle,
                 !.drafts = IF changed THEN [key \in DOMAIN @ |->
                                IF key[1] = field THEN NoDraft ELSE @[key]] ELSE @,
                 !.form = IF field # "Quiet" THEN @
                          ELSE IF changed /\ @.adding THEN NoForm
                          ELSE [@ EXCEPT !.adding = FALSE],
                 !.said[field].word = word]

\* A switch is judged only once a `Status` has shown it over: the settings' version moves
\* at its end.
SwitchJudged(a, read) ==
    IF ~a.pending.over THEN a
    ELSE LET word == Verdict(read.version, a.pending.based)
         IN [a EXCEPT !.flow = Idle, !.pending = Nothing,
                      !.drafts = IF word = "UnconfirmedChanged"
                                 THEN [@ EXCEPT ![<<"Backends", a.pending.of>>] = NoDraft]
                                 ELSE @,
                      !.said["Backends"].word = word]

\* A mutant: the rows stay behind until the next epoch.
SnapshotReadOnly(a, read) == a

SnapshotRead(a, read) ==
    LET b == [a EXCEPT
                !.behind = FALSE,
                !.said = [at \in Lines |->
                            IF at \in RuleFields /\ @[at].word = "Applied" THEN NoSaid ELSE @[at]],
                !.drafts = [key \in DOMAIN @ |->
                              IF @[key].applied THEN NoDraft ELSE @[key]]]
    IN IF b.flow.at = "Rereading"
       THEN IF b.flow.why = "Switch" THEN SwitchJudged(b, read) ELSE Judged(b, read)
       ELSE IF b.flow.at = "Confirming" /\ read.rows[<<"TopBar", Host>>] # 0
       THEN [b EXCEPT !.flow = Idle]
       ELSE b

\* A mutant: the wait does not matter.
SwitchSeenEarly(a, checking) ==
    a.flow.why = "Switch" /\ ~a.pending.over /\ checking # a.pending.of

\* Past the wait, a `Status` that does not show the device checking shows the switch over.
SwitchSeen(a, checking) ==
    /\ a.flow.why = "Switch" /\ ~a.pending.over
    /\ a.pending.waited /\ checking # a.pending.of

\* A confirmation is of one pause and goes with it; a line goes once `Status` says otherwise.
StatusRead(a, read) ==
    LET word == a.said["Scheduling"].word
        overtaken == \/ word = "PauseApplied" /\ read.pause = NoPause
                     \/ word = "Resumed" /\ read.pause # NoPause
    IN [a EXCEPT !.confirming = IF @ = read.pause.rev THEN @ ELSE 0,
                 !.said["Scheduling"] = IF overtaken THEN NoSaid ELSE @,
                 !.pending = IF SwitchSeen(a, read.checking) THEN [@ EXCEPT !.over = TRUE]
                             ELSE @]

StatusLost(a) ==
    [a EXCEPT !.confirming = 0, !.asked = Nothing,
              !.flow = IF @.at = "Confirming" THEN Idle ELSE @]

----------------------------------------------------------------------------
(* What can be pressed. *)

SettingsShown(v) == v.online /\ v.slice # Nothing /\ ~v.failed
CanWrite == SettingsShown(view) /\ Open(actions.flow)
CanPause == view.online /\ actions.out["Scheduling"] = 0 /\ view.pause = NoPause
CanResume == view.online /\ actions.out["Scheduling"] = 0 /\ view.pause # NoPause

\* A mutant: rows behind a change taken hold nothing back.
RulesFreeBehind(a) == Open(a.flow)

\* Why no rule can be changed: a change is out or awaited, or the rows are behind one taken.
RulesFree(a) == Open(a.flow) /\ ~a.behind

CanRule == SettingsShown(view) /\ panel # Nothing /\ RulesFree(actions)
Row(key) == view.slice.rows[key]

\* "Delete all" asked stays only while it can still be pressed.
Reviewed(a, v, account) ==
    LET followed == RulesFollow(a, account)
    IN IF /\ followed.asked # Nothing
          /\ ~(SettingsShown(v) /\ RulesFree(followed)
               /\ v.slice.rows[<<"Quiet", account>>] # {})
       THEN [followed EXCEPT !.asked = Nothing] ELSE followed

----------------------------------------------------------------------------
(* Sending. *)

Call(what, of, value, item) ==
    [ticket |-> actions.issued + 1, what |-> what, of |-> of, value |-> value, item |-> item,
     based |-> IF what \in Scheduling THEN 0 ELSE view.slice.version,
     word |-> Nothing, now |-> 0]

\* One request, once, on a thread of its own; a thread the system refuses is its answer.
Send(a, call) ==
    /\ a.out[SlotOf(call.what)] = 0
    /\ a.issued < desk.presses
    /\ \/ /\ actions' = Begun(a, call)
          /\ calls' = calls \cup {call}
          /\ UNCHANGED reads
       \/ /\ actions' = Settled(Begun(a, call), call, "NoThread")
          /\ reads' = Wrote(reads)
          /\ UNCHANGED calls
    /\ UNCHANGED <<desk, runtime, taken, view, panel>>

\* A rule's change: the confirmation goes first, and the lines speak of its account.
SendRule(a, field, value, item) ==
    Send(SpeakOf([a EXCEPT !.asked = Nothing], panel), Call(field, panel, value, item))

Pressed(a) == actions' = a /\ UNCHANGED <<desk, runtime, taken, calls, reads, view, panel>>

PausePressed == desk.scheduling /\ CanPause /\ Send(actions, Call("PauseAll", Nothing, 0, {}))

\* One press lifts the console's own pause; another's is asked about first.
ResumePressed ==
    /\ CanResume /\ actions.confirming # view.pause.rev
    /\ IF view.pause.ours
       THEN Send(actions, Call("ResumeAll", Nothing, view.pause.rev, {}))
       ELSE Pressed([actions EXCEPT !.confirming = view.pause.rev])

ResumeConfirmed ==
    /\ CanResume /\ actions.confirming = view.pause.rev
    /\ Send(actions, Call("ResumeAll", Nothing, view.pause.rev, {}))

\* A preset: at once, or, leaving the learning mode the file holds, asked about first.
PresetPressed(preset) ==
    /\ "TopBar" \in desk.fields /\ CanWrite /\ Row(<<"TopBar", Host>>) # preset
    /\ IF Row(<<"TopBar", Host>>) = 0 THEN Pressed([actions EXCEPT !.flow = Confirming(preset)])
       ELSE Send(actions, Call("TopBar", Host, preset, {}))

PresetConfirmed ==
    /\ actions.flow.at = "Confirming" /\ CanWrite
    /\ Send(actions, Call("TopBar", Host, actions.flow.arg, {}))

\* A field's text or a device's box changed: the draft, whatever it says.  A box has no text
\* that is no value, and changes only while its group is open.
EditDraft(key, text) ==
    /\ key[1] = "Backends" => CanWrite /\ text \notin {0, Odd}
    /\ actions.drafts[key] # [text |-> text, applied |-> FALSE]
    /\ Pressed([actions EXCEPT !.drafts[key] = [text |-> text, applied |-> FALSE]])

\* "Apply": what the draft asks for, once, if it changes anything and was not applied.
ApplyDraft(key) ==
    LET draft == actions.drafts[key]
    IN /\ CanWrite /\ draft # NoDraft /\ ~draft.applied
       /\ IF draft.text = Odd
          THEN Pressed([actions EXCEPT !.said[key[1]] =
                           [word |-> "NotWhole", ticket |-> 0, of |-> key[2]]])
          ELSE Row(key) # draft.text /\ Send(actions, Call(key[1], key[2], draft.text, {}))

BackToFile(key) ==
    /\ key[1] \in {"TopBar", "Backends"} /\ CanWrite /\ Row(key) # 0
    /\ Send(actions, Call(key[1], key[2], 0, {}))

FormOpened ==
    /\ SettingsShown(view) /\ panel # Nothing /\ "Quiet" \in desk.fields
    /\ actions.form.owner # panel
    /\ Pressed([actions EXCEPT !.asked = Nothing, !.form = [NoForm EXCEPT !.owner = panel]])

FormChanged(time) ==
    /\ SettingsShown(view) /\ panel # Nothing
    /\ actions.form.owner = panel /\ actions.form.typed # time
    /\ Pressed([actions EXCEPT !.asked = Nothing, !.form.typed = time, !.form.ticket = 0])

\* "Add" sends the account's whole list as read, with the form's time.
QuietAdd ==
    LET form == actions.form
    IN /\ CanRule /\ form.owner = panel /\ form.typed # Nothing
       /\ SendRule([actions EXCEPT !.form.adding = TRUE, !.form.ticket = actions.issued + 1],
                   "Quiet", Row(<<"Quiet", panel>>) \cup {form.typed}, {form.typed})

\* "Delete" sends it without one; a list still too long for one value is not sent.
QuietDelete(time) ==
    /\ "Quiet" \in desk.fields /\ CanRule /\ time \in Row(<<"Quiet", panel>>)
    /\ \/ SendRule(actions, "Quiet", Row(<<"Quiet", panel>>) \ {time}, {time})
       \/ Pressed([SpeakOf([actions EXCEPT !.asked = Nothing], panel) EXCEPT
                      !.said["Quiet"] = [word |-> "TooBig", ticket |-> 0, of |-> panel]])

QuietClear ==
    /\ "Quiet" \in desk.fields /\ CanRule /\ Row(<<"Quiet", panel>>) # {}
    /\ actions.asked # panel
    /\ Pressed([actions EXCEPT !.asked = panel])

QuietClearConfirmed ==
    /\ actions.asked = panel /\ CanRule /\ Row(<<"Quiet", panel>>) # {}
    /\ SendRule(actions, "Quiet", {}, Times)

\* "Cancel", or any other press on the panel: the question goes.
QuietUnconfirmed == actions.asked # Nothing /\ Pressed([actions EXCEPT !.asked = Nothing])

\* Turning the start off, or leaving it to the file, waits for another idle action.
HeldOn(field) == field = "Start" /\ StopsEmulator(view.slice.rows, panel)

RulePicked(field, value) ==
    /\ field \in desk.fields /\ CanRule /\ Row(<<field, panel>>) # value
    /\ (value = 2 => ~HeldOn(field))
    /\ SendRule(actions, field, value, {})

RuleToFile(field) ==
    /\ field \in desk.fields /\ CanRule /\ Row(<<field, panel>>) # FileValue(field)
    /\ ~HeldOn(field)
    /\ SendRule(actions, field, FileValue(field), Times)

\* Another account picked, another page gone to, the panel opened or closed.
ShowPanel(account) ==
    /\ panel # account /\ RuleFields \cap desk.fields # {}
    /\ panel' = account
    /\ actions' = RulesReset(actions)
    /\ UNCHANGED <<desk, runtime, taken, calls, reads, view>>

----------------------------------------------------------------------------
(* The Runtime takes the requests. *)

Answered(call, word, now) ==
    calls' = (calls \ {call}) \cup {[call EXCEPT !.word = word, !.now = now]}

Version == IF desk.versioned THEN runtime.version ELSE 0
MovedOn(call) == desk.versioned /\ call.based # runtime.version

Change(call, rt) == [rt EXCEPT !.rows[<<call.what, call.of>>] = call.value, !.version = @ + 1]

\* No connection; or no answer of what went out, which the Runtime, unless it is on it
\* already, may come to later or never.
Fail(call) ==
    /\ call.word = Nothing
    /\ \/ /\ runtime.switch.ticket # call.ticket
          /\ Answered(call, "NotSent", 0)
          /\ UNCHANGED runtime
       \/ /\ Answered(call, "Unconfirmed", 0)
          /\ runtime' = IF runtime.switch.ticket = call.ticket THEN runtime
                        ELSE [runtime EXCEPT !.late = @ \cup {call}]
    /\ UNCHANGED <<desk, taken, reads, view, actions, panel>>

Refuse(call) ==
    /\ call.word = Nothing /\ runtime.switch.ticket # call.ticket
    /\ Answered(call, IF call.what \notin Scheduling /\ MovedOn(call) THEN "Conflict" ELSE "Refused", 0)
    /\ UNCHANGED <<desk, runtime, taken, reads, view, actions, panel>>

\* What the Runtime, `rt` as it comes to the request, makes of it.  A change of settings other
\* than a switch is taken at once; a switch waits for the device first.
ChangeTaken(call, rt) ==
    /\ call.what \in Fields \ {"Backends"}
    /\ ~MovedOn(call) /\ runtime.version < desk.versions
    /\ runtime' = Change(call, rt)
    /\ taken' = taken \cup {call.ticket}

PauseTaken(call, rt) ==
    /\ call.what = "PauseAll" /\ runtime.pauses < desk.versions
    /\ runtime' = IF rt.pause # NoPause THEN rt
                  ELSE [rt EXCEPT !.pause = [rev |-> rt.pauses + 1, ours |-> TRUE],
                                  !.pauses = rt.pauses + 1]

ResumeTaken(call, rt) ==
    /\ call.what = "ResumeAll"
    /\ runtime' = IF rt.pause.rev = call.value THEN [rt EXCEPT !.pause = NoPause] ELSE rt

NoSwitch == [ticket |-> 0, of |-> Nothing, value |-> 0, at |-> "none", late |-> FALSE]

SwitchBegun(call, rt) ==
    /\ call.what = "Backends"
    /\ ~MovedOn(call) /\ runtime.switch = NoSwitch
    /\ runtime' = [rt EXCEPT !.switch =
                      [ticket |-> call.ticket, of |-> call.of, value |-> call.value,
                       at |-> "claim", late |-> call \in runtime.late]]

\* A request answered, its answer perhaps lost.
TakeChange(call) ==
    /\ call.word = Nothing /\ ChangeTaken(call, runtime)
    /\ \E word \in {"Applied", "Unconfirmed"} :
          Answered(call, word, runtime.version + 1)
    /\ UNCHANGED <<desk, reads, view, actions, panel>>

TakePause(call) ==
    /\ call.word = Nothing /\ PauseTaken(call, runtime)
    /\ \E word \in {IF runtime.pause = NoPause THEN "PauseApplied" ELSE "AlreadyPaused",
                    "Unconfirmed"} :
          Answered(call, word, runtime.pauses + 1)
    /\ UNCHANGED <<desk, taken, reads, view, actions, panel>>

TakeResume(call) ==
    /\ call.word = Nothing /\ ResumeTaken(call, runtime)
    /\ \E word \in {IF runtime.pause.rev = call.value THEN "Resumed" ELSE "PauseMoved",
                    "Unconfirmed"} :
          Answered(call, word, call.value)
    /\ UNCHANGED <<desk, taken, reads, view, actions, panel>>

\* A switch of backends waits for the device, checks it, and commits at its very end or
\* puts the previous backends back; its caller may have given up meanwhile.
BeginSwitch(call) ==
    /\ call.word = Nothing /\ SwitchBegun(call, runtime)
    /\ UNCHANGED <<desk, taken, calls, reads, view, actions, panel>>

\* A request given up comes to the Runtime after all; nobody waits for its answer.
ComeLate(call) ==
    /\ call \in runtime.late
    /\ LET rt == [runtime EXCEPT !.late = @ \ {call}]
       IN \/ ChangeTaken(call, rt)
          \/ (PauseTaken(call, rt) \/ ResumeTaken(call, rt) \/ SwitchBegun(call, rt)) /\ UNCHANGED taken
    /\ UNCHANGED <<desk, calls, reads, view, actions, panel>>

GrantSwitch ==
    /\ runtime.switch.at = "claim"
    /\ runtime' = [runtime EXCEPT !.switch.at = "check"]
    /\ UNCHANGED <<desk, taken, calls, reads, view, actions, panel>>

EndSwitch(commits) ==
    LET switch == runtime.switch
        waiting == {call \in calls : call.ticket = switch.ticket /\ call.word = Nothing}
    IN /\ switch # NoSwitch
       /\ commits => switch.at = "check" /\ runtime.version < desk.versions
       /\ runtime' = IF commits
                     THEN [runtime EXCEPT !.rows[<<"Backends", switch.of>>] = switch.value,
                                          !.version = @ + 1, !.switch = NoSwitch]
                     ELSE [runtime EXCEPT !.switch = NoSwitch]
       /\ taken' = IF commits THEN taken \cup {switch.ticket} ELSE taken
       /\ IF waiting = {} THEN UNCHANGED calls
          ELSE \E call \in waiting :
                  Answered(call, IF commits THEN "Applied" ELSE "Refused", runtime'.version)
       /\ UNCHANGED <<desk, reads, view, actions, panel>>

\* A switch that came before its sender gave up waits for its device.
Claiming == runtime.switch.at = "claim" /\ ~runtime.switch.late

\* switch_wait has passed since the switch was sent: its claim is over by then, unless it
\* came late, and so is a `Status` that was answered while it waited.
WaitPasses ==
    /\ actions.pending # Nothing
    /\ ~actions.pending.waited
    /\ ~Claiming
    /\ reads["status"].found # Nothing => ~reads["status"].found.claim
    /\ actions' = [actions EXCEPT !.pending.waited = TRUE]
    /\ UNCHANGED <<desk, runtime, taken, calls, reads, view, panel>>

\* An answer lands: it counts under the ticket still out.
Counts(call) == actions.out[SlotOf(call.what)] = call.ticket

\* What is sent next is based on the version the answer named; the rows stay as read.
ConfigApplied(version) ==
    [view EXCEPT !.slice = IF @ # Nothing /\ desk.versioned THEN [@ EXCEPT !.version = version]
                           ELSE @,
                 !.answered = version]

Land(call) ==
    /\ call.word # Nothing
    /\ calls' = calls \ {call}
    /\ IF Counts(call)
       THEN /\ actions' = Settled(actions, call, call.word)
            /\ view' = IF call.word = "Applied" THEN ConfigApplied(call.now) ELSE view
            /\ reads' = Wrote(reads)
       ELSE UNCHANGED <<actions, view, reads>>
    /\ UNCHANGED <<desk, runtime, taken, panel>>

----------------------------------------------------------------------------
(* The reads. *)

Kinds == {"status"} \cup (IF desk.fields # {} THEN {"config"} ELSE {})

BeginRead(read) ==
    /\ reads[read].at = "none"
    /\ reads' = [reads EXCEPT ![read].at = "begun"]
    /\ UNCHANGED <<desk, runtime, taken, calls, view, actions, panel>>

StatusNow == [epoch |-> runtime.epoch, pause |-> runtime.pause,
              claim |-> Claiming,
              checking |-> IF runtime.switch.at = "check" THEN runtime.switch.of ELSE Nothing]
ConfigNow == [epoch |-> runtime.epoch, version |-> Version, rows |-> runtime.rows,
              read |-> runtime.version]

\* The requests given up that this read is to judge and does not show: they have not come, or
\* wait for their device still.
Missing(read) ==
    LET coming == {call \in runtime.late :
                      read = IF call.what = "Backends" THEN "status" ELSE "config"}
        claiming == IF read = "status" /\ runtime.switch.at = "claim" /\ runtime.switch.late
                    THEN {runtime.switch.ticket} ELSE {}
    IN IF reads[read].stale THEN {}
       ELSE ({call.ticket : call \in coming} \cup claiming) \ {call.ticket : call \in calls}

SampleRead(read) ==
    /\ reads[read].at = "begun"
    /\ reads' = [reads EXCEPT ![read].at = "read",
                              ![read].found = IF reads[read].stale THEN Nothing
                                              ELSE IF read = "status" THEN StatusNow
                                              ELSE ConfigNow]
    /\ runtime' = [runtime EXCEPT !.missed = @ \cup Missing(read)]
    /\ UNCHANGED <<desk, taken, calls, view, actions, panel>>

\* A read fails, as often as the Runtime is away at most.
FailRead(read) ==
    /\ reads[read].at = "begun" /\ runtime.away < desk.outages
    /\ reads' = [reads EXCEPT ![read].at = "read"]
    /\ runtime' = [runtime EXCEPT !.away = @ + 1]
    /\ UNCHANGED <<desk, taken, calls, view, actions, panel>>

\* A `Status` that counts.  One that shows an unconfirmed switch over counts as a write, so
\* that the snapshot that judges it is read after this.
StatusLanded(found) ==
    LET changed == view.epoch # found.epoch
        first == IF changed THEN NewEpoch(actions) ELSE actions
        over == SwitchSeen(first, found.checking)
        shown == [view EXCEPT !.online = TRUE, !.epoch = found.epoch, !.pause = found.pause,
                              !.since = IF changed THEN actions.issued ELSE @,
                              !.slice = IF changed THEN Nothing ELSE @,
                              !.answered = IF changed THEN 0 ELSE @,
                              !.failed = @ /\ ~changed]
        rest == [reads EXCEPT !["status"] = NotBegun]
    IN \E account \in IF changed /\ panel # Nothing THEN desk.accounts ELSE {panel} :
          /\ panel' = account
          /\ view' = shown
          /\ actions' = Reviewed(StatusRead(first, found), shown, account)
          /\ reads' = IF over THEN Wrote(rest) ELSE rest

ConfigLanded(found) ==
    /\ reads' = [reads EXCEPT !["config"] = NotBegun]
    /\ UNCHANGED panel
    /\ IF ~view.online \/ (found # Nothing /\ found.epoch # view.epoch)
       THEN UNCHANGED <<view, actions>>
       ELSE /\ view' = IF found = Nothing THEN [view EXCEPT !.failed = TRUE]
                       ELSE [view EXCEPT !.failed = FALSE,
                                         !.slice = [version |-> found.version, rows |-> found.rows,
                                                    read |-> found.read]]
            /\ actions' = Reviewed(IF found = Nothing THEN actions
                                   ELSE SnapshotRead(actions, found), view', panel)

LandRead(read) ==
    LET found == reads[read].found
    IN /\ reads[read].at = "read"
       /\ IF reads[read].stale
          THEN reads' = [reads EXCEPT ![read] = NotBegun] /\ UNCHANGED <<view, actions, panel>>
          ELSE IF read = "config" THEN ConfigLanded(found)
          ELSE IF found # Nothing THEN StatusLanded(found)
          ELSE /\ reads' = [reads EXCEPT ![read] = NotBegun]
               /\ view' = [view EXCEPT !.online = FALSE, !.pause = NoPause, !.failed = FALSE]
               /\ actions' = StatusLost(actions)
               /\ UNCHANGED panel
       /\ UNCHANGED <<desk, runtime, taken, calls>>

----------------------------------------------------------------------------
(* Others, and the Runtime, outside. *)

OthersChange(key, value) ==
    /\ runtime.version < desk.others /\ runtime.rows[key] # value
    /\ runtime' = [runtime EXCEPT !.rows[key] = value, !.version = @ + 1]
    /\ UNCHANGED <<desk, taken, calls, reads, view, actions, panel>>

OthersPause(ours) ==
    /\ desk.scheduling /\ runtime.pause = NoPause /\ runtime.pauses < desk.versions
    /\ runtime' = [runtime EXCEPT !.pause = [rev |-> runtime.pauses + 1, ours |-> ours],
                                  !.pauses = @ + 1]
    /\ UNCHANGED <<desk, taken, calls, reads, view, actions, panel>>

OthersResume ==
    /\ runtime.pause # NoPause
    /\ runtime' = [runtime EXCEPT !.pause = NoPause]
    /\ UNCHANGED <<desk, taken, calls, reads, view, actions, panel>>

\* What the Runtime holds of settings and pauses outlives it; a switch under way does not, nor
\* what was on its way to it.
Restart ==
    /\ runtime.epoch < desk.epochs
    /\ runtime' = [runtime EXCEPT !.epoch = @ + 1, !.switch = NoSwitch, !.late = {}]
    /\ UNCHANGED <<desk, taken, calls, reads, view, actions, panel>>

----------------------------------------------------------------------------
Init ==
    /\ desk \in Desks
    /\ \E online \in desk.online :
          runtime = [epoch |-> 1, version |-> 1,
                     rows |-> [key \in Keys |-> IF online THEN OnlineValue(key[1])
                                              ELSE FileValue(key[1])],
                     pause |-> NoPause, pauses |-> 0, switch |-> NoSwitch, away |-> 0,
                     late |-> {}, missed |-> {}]
    /\ taken = {} /\ calls = {}
    /\ reads = [read \in Kinds |-> NotBegun]
    /\ view = [online |-> FALSE, epoch |-> 0, pause |-> NoPause, slice |-> Nothing,
               failed |-> FALSE, since |-> 0, answered |-> 0]
    /\ actions = [issued |-> 0, out |-> [slot \in Slots |-> 0], confirming |-> 0, flow |-> Idle,
                  drafts |-> [key \in {k \in Keys : k[1] \in DraftFields} |-> NoDraft],
                  pending |-> Nothing, said |-> [at \in Lines |-> NoSaid], target |-> Nothing,
                  form |-> NoForm, asked |-> Nothing, behind |-> FALSE]
    /\ panel = Nothing

SchedulingPress == PausePressed \/ ResumePressed \/ ResumeConfirmed
TopBarPress == PresetConfirmed \/ \E preset \in {1, 2} : PresetPressed(preset)
DraftPress == \E key \in DOMAIN actions.drafts :
                 ApplyDraft(key) \/ BackToFile(key) \/ \E text \in Texts : EditDraft(key, text)
QuietPress == \/ FormOpened \/ QuietAdd \/ QuietClear \/ QuietClearConfirmed \/ QuietUnconfirmed
              \/ \E time \in Times : FormChanged(time) \/ QuietDelete(time)
RulePress == \/ \E field \in RuleFields : RuleToFile(field)
             \/ RulePicked("Idle", 1) \/ \E value \in {1, 2} : RulePicked("Start", value)
             \/ \E account \in desk.accounts \cup {Nothing} : ShowPanel(account)
Press == SchedulingPress \/ TopBarPress \/ DraftPress \/ QuietPress \/ RulePress

CallStep == \E call \in calls : \/ Fail(call) \/ Refuse(call) \/ TakeChange(call)
                                \/ TakePause(call) \/ TakeResume(call) \/ BeginSwitch(call)
SwitchStep == GrantSwitch \/ \E commits \in BOOLEAN : EndSwitch(commits)
LandCall == \E call \in calls : Land(call)
ReadStep(read) == BeginRead(read) \/ SampleRead(read) \/ FailRead(read) \/ LandRead(read)
OthersStep == \/ OthersResume \/ Restart \/ \E ours \in BOOLEAN : OthersPause(ours)
              \/ \E key \in Keys : \E value \in Values(key[1]) : OthersChange(key, value)

Next == \/ Press \/ CallStep \/ SwitchStep \/ WaitPasses \/ LandCall \/ OthersStep
        \/ \E call \in runtime.late : ComeLate(call)
        \/ \E read \in Kinds : ReadStep(read)

\* The threads, the Runtime and the event loop go on.
Fairness ==
    /\ WF_vars(CallStep \/ SwitchStep \/ WaitPasses \/ LandCall)
    /\ WF_vars(ReadStep("status"))
    /\ WF_vars("config" \in Kinds /\ ReadStep("config"))

Spec == Init /\ [][Next]_vars /\ Fairness
----------------------------------------------------------------------------
(* Properties. *)

\* What the records are made of; a settings' row has its field's values.
Everyone == Accounts \cup {Host, Nothing}
Pauses == [rev : Nat, ours : BOOLEAN]
IsRows(rows) == DOMAIN rows = Keys /\ \A key \in Keys : rows[key] \in Values(key[1])
CallTypes(what) ==
    [ticket : 1 .. actions.issued, what : {what}, of : Everyone,
     value : IF what \in Scheduling THEN Nat ELSE Values(what), item : SUBSET Times, based : Nat,
     word : Answers \cup {Nothing}, now : Nat]
Switches ==
    [ticket : 1 .. actions.issued, of : {of \in Accounts : <<"Backends", of>> \in Keys},
     value : 0 .. 2, at : {"claim", "check"}, late : BOOLEAN]
StatusFound == [epoch : Nat, pause : Pauses, claim : BOOLEAN, checking : Accounts \cup {Nothing}]
Flows ==
    [at : {"Idle", "Confirming", "InFlight", "Rereading"}, field : desk.fields \cup {Nothing},
     why : Whys \cup {Nothing}, arg : Nat]
Forms == [owner : Accounts \cup {Nothing}, typed : Times \cup {Nothing}, adding : BOOLEAN, ticket : Nat]
Pendings(issued) ==
    [of : Accounts, based : Nat, ticket : 1 .. issued, waited : BOOLEAN, over : BOOLEAN]
Saids(issued) == [word : Words \cup {Nothing}, ticket : 0 .. issued, of : Everyone]
IsActions(a) ==
    /\ a \in [issued : 0 .. desk.presses, out : [Slots -> 0 .. a.issued], confirming : Nat,
              flow : Flows,
              drafts : [{key \in Keys : key[1] \in DraftFields} ->
                           {NoDraft} \cup [text : Texts, applied : BOOLEAN]],
              pending : Pendings(a.issued) \cup {Nothing}, said : {a.said},
              target : Accounts \cup {Nothing}, form : Forms,
              asked : Accounts \cup {Nothing}, behind : BOOLEAN]
    /\ DOMAIN a.said = Lines /\ \A at \in desk.fields : a.said[at] \in Saids(a.issued)

IsRuntime(rt) ==
    /\ rt \in [epoch : 1 .. desk.epochs, version : 1 .. desk.versions, rows : {rt.rows},
               pause : Pauses, pauses : Nat, switch : Switches \cup {NoSwitch}, away : Nat,
               late : {rt.late}, missed : SUBSET (1 .. actions.issued)]
    /\ IsRows(rt.rows)
RuntimeOK == IsRuntime(runtime)
IsCall(call) ==
    /\ call.what \in desk.fields \cup Scheduling /\ call \in CallTypes(call.what)
    /\ call.what \in Fields => <<call.what, call.of>> \in Keys
CallsOK == \A call \in calls : IsCall(call)
LateOK == \A call \in runtime.late : IsCall(call)
ReadsOK ==
    /\ DOMAIN reads = Kinds
    /\ \A read \in Kinds :
        /\ reads[read] \in [at : {"none", "begun", "read"}, stale : BOOLEAN, found : {reads[read].found}]
        /\ reads[read].at # "read" \/ reads[read].stale => reads[read].found = Nothing
    /\ reads["status"].found \in StatusFound \cup {Nothing}
    /\ "config" \in Kinds /\ reads["config"].found # Nothing =>
           /\ reads["config"].found \in [epoch : Nat, version : Nat,
                                         rows : {reads["config"].found.rows}, read : Nat]
           /\ IsRows(reads["config"].found.rows)
ViewOK ==
    /\ view \in [online : BOOLEAN, epoch : Nat, pause : Pauses, slice : {view.slice},
                 failed : BOOLEAN, since : Nat, answered : Nat]
    /\ view.slice # Nothing =>
           view.slice \in [version : Nat, rows : {view.slice.rows}, read : Nat] /\ IsRows(view.slice.rows)
\* Every variable has its type.
TypeOK ==
    /\ desk \in Desks /\ taken \subseteq 1 .. actions.issued /\ panel \in desk.accounts \cup {Nothing}
    /\ RuntimeOK /\ CallsOK /\ LateOK /\ ReadsOK /\ ViewOK /\ IsActions(actions)

\* A rule the Runtime takes from the panel changes what the press was on, and nothing else:
\* the list of quiet times sent undoes nobody's change of another time, this window's own
\* included, and the start is never turned off under an idle action that stops the emulator
\* (actions.rs, `rows_behind`, `rules_hold`, and the version each request is based on).
RulesTakenAsPressed ==
    [][\A call \in calls \cup runtime.late :
          desk.versioned /\ call.ticket \in taken' \ taken =>
             LET before == runtime.rows[<<call.what, call.of>>]
             IN /\ call.what = "Quiet" =>
                      (before \ call.value) \cup (call.value \ before) \subseteq call.item
                /\ call.what = "Start" /\ call.value # 1 => ~StopsEmulator(runtime.rows, call.of)]_vars

\* What a line says was refused, or never sent, is taken neither then nor later.  And what a
\* snapshot says did not take effect did not: it is judged only once it can no more be taken,
\* a switch's check included, unless it came to the Runtime only after the read it is judged
\* by (`snapshot_read`, `switch_judged`, UnconfirmedSwitch).
SaidNotDoneIsNotDone ==
    \A at \in desk.fields :
        LET line == actions.said[at]
        IN /\ line.word \in {"ConflictRefreshed", "NotSent", "NoThread", "Refused"}
                  => line.ticket \notin taken
           /\ line.word = "NotApplied" => line.ticket \notin taken \ runtime.missed

\* A change of settings out or awaited comes to an end, and the writes are on again: no press,
\* and no answer lost, leaves them off for good (`send`, `Rereading`, `switch_seen`).
WritesComeBack == ~Open(actions.flow) ~> Open(actions.flow)
=============================================================================
