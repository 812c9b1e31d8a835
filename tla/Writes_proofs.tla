------------------------------ MODULE Writes_proofs ------------------------------
(***************************************************************************)
(* What a line of the workbench says did not happen did not, and a rule    *)
(* taken changes what its press was on and nothing else: for any set of    *)
(* desks, whoever else changes the settings, whichever answers are lost    *)
(* and however often the Runtime restarts.                                 *)
(***************************************************************************)
EXTENDS Writes, TLAPS

\* What a line says of a change that did not happen.
Undone == {"NotApplied", "ConflictRefreshed", "NotSent", "NoThread", "Refused"}
\* The answers of a request the Runtime did not take, and will not take.
Untaken == {"NotSent", "Refused", "Conflict"}

\* A request has its ticket alone, and the switch under way is of the request with its ticket.
TicketsApart == \A call, other \in calls : call.ticket = other.ticket => call = other
SwitchOfItsCall ==
    \A call \in calls : call.ticket = runtime.switch.ticket =>
        /\ call.what = "Backends" /\ call.of = runtime.switch.of /\ call.word \notin Untaken
        /\ desk.versioned => call.based <= runtime.version

\* What an answer, or none yet, says of whether the change was taken.
AnswersRight ==
    \A call \in calls :
        /\ call.word \in Untaken \cup {Nothing} => call.ticket \notin taken
        /\ call.word = "Unconfirmed" /\ call.ticket \in taken /\ desk.versioned =>
               call.based < runtime.version
        /\ call.word = "Applied" =>
               call.what \in Fields /\ (desk.versioned => call.now <= runtime.version)

SameRequest(call, other) ==
    /\ call.ticket = other.ticket /\ call.what = other.what /\ call.of = other.of
    /\ call.value = other.value /\ call.item = other.item /\ call.based = other.based

\* A request given up that may still come was not taken and is not under way, and its answer,
\* while it has not landed, says nothing of it.
LateApart ==
    \A call \in runtime.late :
        /\ call.ticket \notin taken /\ call.ticket # runtime.switch.ticket
        /\ \A other \in runtime.late : other.ticket = call.ticket => other = call
        /\ \A other \in calls : other.ticket = call.ticket =>
               other.word = "Unconfirmed" /\ SameRequest(other, call)

\* A line speaks of its own field's requests.
LinesOwn ==
    \A at \in desk.fields :
        /\ \A call \in calls : actions.said[at].ticket = call.ticket => call.what = at
        /\ \A call \in runtime.late : actions.said[at].ticket = call.ticket => call.what = at
        /\ actions.said[at].ticket # 0 /\ actions.said[at].ticket = runtime.switch.ticket =>
               at = "Backends"

\* A ticket whose change was not taken and can be no more.
Gone(ticket) == \A call \in calls : call.ticket # ticket
Coming(ticket) == \E call \in runtime.late : call.ticket = ticket
Dead(ticket) == /\ ticket \notin taken /\ Gone(ticket) /\ ~Coming(ticket)
                /\ ticket # 0 => runtime.switch.ticket # ticket
Missed(ticket) == ticket \in runtime.missed
LinesRight ==
    \A at \in desk.fields :
        LET line == actions.said[at]
        IN line.word \in Undone =>
               Dead(line.ticket) \/ (line.word = "NotApplied" /\ Missed(line.ticket))

\* What a read of the settings brings: their version, and the rows of it.
ReadRight ==
    "config" \in Kinds /\ reads["config"].found # Nothing =>
        LET found == reads["config"].found
        IN IF desk.versioned
           THEN /\ found.version <= runtime.version
                /\ found.version = runtime.version => found.rows = runtime.rows
           ELSE found.version = 0
ReadPast(based) ==
    "config" \in Kinds /\ reads["config"].found # Nothing => based < reads["config"].found.version
ReadNone == "config" \in Kinds => reads["config"].found = Nothing

\* The change whose outcome the reads are to tell.
FlowRight ==
    /\ actions.flow.at = "Confirming" => "TopBar" \in desk.fields /\ actions.flow.arg \in {1, 2}
    /\ actions.flow.at = "Rereading" <=> actions.flow.why # Nothing
    /\ actions.flow.at = "Rereading" => actions.flow.field # Nothing
    /\ actions.form.owner # Nothing \/ actions.asked # Nothing => "Quiet" \in desk.fields
Awaited == actions.said[actions.flow.field].ticket
ConflictRight == actions.flow.why = "Conflict" => Dead(Awaited)
UnconfirmedRight ==
    actions.flow.why = "Unconfirmed" =>
        /\ actions.flow.field # "Backends" /\ Gone(Awaited)
        /\ desk.versioned => actions.flow.arg <= runtime.version
        /\ ~Missed(Awaited) =>
              /\ Awaited \in taken /\ desk.versioned =>
                     actions.flow.arg < runtime.version /\ ReadPast(actions.flow.arg)
              /\ Coming(Awaited) => ReadNone

\* The switch whose outcome is awaited, unless the `Status` that shows it over missed it: the
\* wait outlasts its claim, a `Status` of after it shows its check, and once it is over the
\* settings are read after it.
SwitchUnderWay == runtime.switch.ticket = actions.pending.ticket
SwitchSeenRight ==
    /\ actions.pending.ticket \in taken /\ desk.versioned =>
          /\ actions.pending.based < runtime.version
          /\ actions.pending.over => ReadPast(actions.pending.based)
    /\ SwitchUnderWay =>
          /\ ~actions.pending.over /\ runtime.switch.of = actions.pending.of
          /\ actions.pending.waited => ~Claiming
          /\ reads["status"].found # Nothing =>
                \/ (reads["status"].found.claim /\ ~actions.pending.waited)
                \/ reads["status"].found.checking = actions.pending.of
    /\ Coming(actions.pending.ticket) =>
          ~actions.pending.over /\ reads["status"].found = Nothing
SwitchRight ==
    actions.flow.why = "Switch" =>
        /\ actions.pending \in Pendings(actions.issued)
        /\ actions.flow.field = "Backends" /\ Gone(actions.pending.ticket)
        /\ Awaited = actions.pending.ticket
        /\ desk.versioned => actions.pending.based <= runtime.version
        /\ \A call \in runtime.late : call.ticket = actions.pending.ticket =>
               call.of = actions.pending.of
        /\ ~Missed(actions.pending.ticket) => SwitchSeenRight

\* The rows shown are those of the version the next request is based on, unless they are behind.
SliceRight ==
    view.slice # Nothing /\ desk.versioned =>
        /\ view.slice.version <= runtime.version
        /\ view.slice.version = runtime.version /\ ~actions.behind => view.slice.rows = runtime.rows

\* What a rule's change does to the settings it is based on.
AsPressed(call, rows) ==
    LET before == rows[<<call.what, call.of>>]
    IN /\ call.what = "Quiet" =>
             (before \ call.value) \cup (call.value \ before) \subseteq call.item
       /\ call.what = "Start" /\ call.value # 1 => ~StopsEmulator(rows, call.of)
RulesRight ==
    \A call \in calls \cup runtime.late :
        call.what \in Fields /\ desk.versioned =>
            /\ call.based <= runtime.version
            /\ call.based = runtime.version => AsPressed(call, runtime.rows)

IInv ==
    /\ TypeOK /\ TicketsApart /\ SwitchOfItsCall /\ AnswersRight /\ LateApart /\ LinesOwn
    /\ LinesRight
    /\ ReadRight /\ FlowRight /\ ConflictRight /\ UnconfirmedRight /\ SwitchRight /\ SliceRight
    /\ RulesRight

-----------------------------------------------------------------------------
(* The constants.                                                          *)
LEMMA NothingSaid ==
  /\ Nothing \notin Answers /\ Nothing \notin Words /\ Nothing \notin Whys
  /\ Nothing \notin Fields
BY WritesAssumption DEF Words

\* What a desk is made of.
LEMMA DeskFacts ==
  ASSUME desk \in Desks
  PROVE  /\ desk.fields \subseteq Fields /\ desk.accounts \subseteq Accounts /\ desk.presses \in Nat
         /\ Lines = desk.fields \cup {"Scheduling"} /\ "Scheduling" \notin desk.fields
         /\ \A what \in Scheduling : what \notin desk.fields /\ what \notin Fields
BY WritesAssumption DEF DeskTypes, Lines, Fields, DraftFields, HostFields, RuleFields, Scheduling

LEMMA Updated ==
  ASSUME NEW S, NEW T, NEW f \in [S -> T], NEW x, NEW y \in T
  PROVE  [f EXCEPT ![x] = y] \in [S -> T]
OBVIOUS


\* A request stays one while more are sent.
LEMMA IsCallStays ==
  ASSUME desk' = desk, actions.issued \in Nat, actions'.issued \in Nat,
         actions.issued <= actions'.issued, NEW call, IsCall(call)
  PROVE  IsCall(call)'
<1>1. Keys' = Keys
  BY DEF Keys, Owners
<1>2. 1 .. actions.issued \subseteq 1 .. actions'.issued
  OBVIOUS
<1>3. call \in CallTypes(call.what) => call \in CallTypes(call.what)'
  BY <1>2 DEF CallTypes
<1> QED BY <1>1, <1>3 DEF IsCall

LEMMA IssuedNat ==
  ASSUME TypeOK
  PROVE  actions.issued \in Nat /\ desk.presses \in Nat
BY WritesAssumption DEF TypeOK, IsActions, DeskTypes

-----------------------------------------------------------------------------
(* What is answered, and what the Runtime does of itself.                  *)
\* A request answered is the request it was, with its answer; the others stay.
LEMMA AnsweredCalls ==
  ASSUME TypeOK, NEW call \in calls, NEW word \in Answers, NEW now \in Nat,
         Answered(call, word, now), UNCHANGED <<desk, actions>>
  PROVE  /\ CallsOK'
         /\ \A c \in calls' : \E d \in calls :
                /\ SameRequest(c, d)
                /\ ((c = d /\ d # call) \/ (d = call /\ c.word = word /\ c.now = now))
<1> DEFINE answer == [call EXCEPT !.word = word, !.now = now]
<1>1. /\ call.what \in desk.fields \cup Scheduling /\ call \in CallTypes(call.what)
      /\ call.what \in Fields => <<call.what, call.of>> \in Keys
  BY DEF TypeOK, CallsOK, IsCall
<1>2. /\ answer \in CallTypes(call.what) /\ SameRequest(answer, call)
      /\ answer.word = word /\ answer.now = now
  BY <1>1 DEF CallTypes, SameRequest
<1> HIDE DEF answer
<1>3. calls' = (calls \ {call}) \cup {answer}
  BY DEF Answered, answer
<1>4. \A c \in calls' : (c \in calls /\ c # call) \/ c = answer
  BY <1>3
<1>5. ASSUME NEW c \in calls'
      PROVE  IsCall(c)
  <2>1. CASE c \in calls
    BY <2>1 DEF TypeOK, CallsOK
  <2>2. CASE c = answer
    BY <2>2, <1>1, <1>2 DEF SameRequest, IsCall
  <2> QED BY <2>1, <2>2, <1>4
<1>6. CallsOK'
  BY <1>5, IsCallStays, IssuedNat DEF CallsOK
<1>7. \A c \in calls' : \E d \in calls :
          /\ SameRequest(c, d)
          /\ ((c = d /\ d # call) \/ (d = call /\ c.word = word /\ c.now = now))
  BY <1>2, <1>4 DEF SameRequest
<1> QED BY <1>6, <1>7

LEMMA AnsweredApart ==
  ASSUME TicketsApart, NEW call \in calls, NEW word, NEW now, Answered(call, word, now),
         \A c \in calls' : \E d \in calls :
             /\ SameRequest(c, d)
             /\ ((c = d /\ d # call) \/ (d = call /\ c.word = word /\ c.now = now))
  PROVE  TicketsApart'
<1> DEFINE answer == [call EXCEPT !.word = word, !.now = now]
<1>1. \A c \in calls' : (c \in calls /\ c # call) \/ c = answer
  BY DEF Answered
<1> HIDE DEF answer
<1> SUFFICES ASSUME NEW c \in calls', NEW d \in calls', c.ticket = d.ticket PROVE c = d
  BY DEF TicketsApart
<1>2. PICK x \in calls : SameRequest(c, x) /\ ((c = x /\ x # call) \/ (x = call))
  OBVIOUS
<1>3. PICK y \in calls : SameRequest(d, y) /\ ((d = y /\ y # call) \/ (y = call))
  OBVIOUS
<1>4. x = y
  <2>1. x.ticket = y.ticket
    BY <1>2, <1>3 DEF SameRequest
  <2> QED BY <2>1 DEF TicketsApart
<1>5. CASE x = call
  <2>1. c.ticket = call.ticket /\ d.ticket = call.ticket
    BY <1>2, <1>3, <1>4, <1>5 DEF SameRequest
  <2>2. \A e \in calls : e.ticket = call.ticket => e = call
    BY DEF TicketsApart
  <2> QED BY <1>1, <2>1, <2>2
<1> QED BY <1>2, <1>3, <1>4, <1>5

\* A step of the Runtime, or of the requests out with it.
Moves ==
    /\ UNCHANGED <<desk, reads, view, actions, panel>>
    /\ \A c \in calls' : \E d \in calls : SameRequest(c, d)
    /\ \A l \in runtime'.late : l \in runtime.late \/ l \in calls
    /\ runtime'.missed = runtime.missed
    /\ taken \subseteq taken'
    /\ \A t \in taken' \ taken : \/ \E c \in calls : c.ticket = t
                                 \/ \E l \in runtime.late : l.ticket = t /\ l.what # "Backends"
                                 \/ t # 0 /\ t = runtime.switch.ticket
    /\ runtime.version <= runtime'.version
    /\ taken' # taken => runtime.version < runtime'.version
    /\ runtime'.version = runtime.version => runtime'.rows = runtime.rows
    /\ \/ runtime'.switch.ticket = 0
       \/ /\ runtime'.switch.ticket = runtime.switch.ticket
          /\ runtime'.switch.of = runtime.switch.of
          /\ runtime'.switch.at \in {runtime.switch.at, "check"}
          /\ runtime'.switch.late = runtime.switch.late
       \/ \E c \in calls : c.ticket = runtime'.switch.ticket /\ c.what = "Backends"
       \/ \E l \in runtime.late : /\ l.ticket = runtime'.switch.ticket /\ l.what = "Backends"
                                  /\ l.of = runtime'.switch.of /\ runtime'.switch.late

LEMMA DeadStays ==
  ASSUME Moves, NEW ticket, Dead(ticket)
  PROVE  Dead(ticket)'
<1>1. Gone(ticket)'
  BY DEF Moves, Dead, Gone, SameRequest
<1>2. ticket \notin taken'
  BY DEF Moves, Dead, Gone, Coming
<1>3. ticket # 0 => runtime'.switch.ticket # ticket
  BY DEF Moves, Dead, Gone, Coming
<1>4. ~Coming(ticket)'
  BY DEF Moves, Dead, Gone, Coming
<1> QED BY <1>1, <1>2, <1>3, <1>4 DEF Dead

\* What such a step leaves to prove: the types, and what is known of the requests themselves.
LEMMA MovesKeep ==
  ASSUME IInv, Moves, RuntimeOK', CallsOK', TicketsApart', SwitchOfItsCall', AnswersRight', LateApart'
  PROVE  TypeOK' /\ IInv'
<1> USE DEF Moves
<1>0. /\ desk' = desk /\ reads' = reads /\ view' = view /\ actions' = actions /\ panel' = panel
      /\ Keys' = Keys /\ Kinds' = Kinds
  BY DEF Keys, Owners, Kinds
<1>t. /\ TypeOK /\ runtime.version \in Nat /\ runtime'.version \in Nat
      /\ actions.pending \in Pendings(actions.issued) \cup {Nothing}
  BY <1>0 DEF IInv, TypeOK, RuntimeOK, IsRuntime, IsActions
<1>1. TypeOK'
  <2>1. taken' \subseteq 1 .. actions.issued
    <3>1. /\ \A c \in calls : c.ticket \in 1 .. actions.issued
          /\ \A l \in runtime.late : l.ticket \in 1 .. actions.issued
      BY <1>t DEF TypeOK, CallsOK, LateOK, IsCall, CallTypes
    <3>2. runtime.switch.ticket \in 0 .. actions.issued
      BY <1>t DEF TypeOK, RuntimeOK, IsRuntime, Switches, NoSwitch, IsActions
    <3>3. taken \subseteq 1 .. actions.issued /\ actions.issued \in Nat
      BY <1>t DEF TypeOK, IsActions
    <3>4. \A t \in taken' : t \in taken \/ (\E c \in calls : c.ticket = t)
                               \/ (\E l \in runtime.late : l.ticket = t)
                               \/ (t # 0 /\ t = runtime.switch.ticket)
      OBVIOUS
    <3> HIDE DEF Moves
    <3> SUFFICES ASSUME NEW t \in taken' PROVE t \in 1 .. actions.issued
      OBVIOUS
    <3>5. CASE t \in taken
      BY <3>3, <3>5
    <3>6. CASE \E c \in calls : c.ticket = t
      BY <3>1, <3>6
    <3>7. CASE t # 0 /\ t = runtime.switch.ticket
      BY <3>2, <3>3, <3>7
    <3>8. CASE \E l \in runtime.late : l.ticket = t
      BY <3>1, <3>8
    <3> QED BY <3>4, <3>5, <3>6, <3>7, <3>8
  <2>2. ReadsOK' /\ ViewOK' /\ IsActions(actions)'
    BY <1>0, <1>t DEF TypeOK, ReadsOK, ViewOK, IsActions, Flows, Forms, Pendings, Saids, Lines,
          StatusFound, IsRows
  <2>3. LateOK'
    <3> SUFFICES ASSUME NEW l \in runtime'.late PROVE IsCall(l)'
      BY DEF LateOK
    <3>1. IsCall(l)
      BY <1>t DEF TypeOK, CallsOK, LateOK
    <3> QED BY <1>0, <3>1 DEF IsCall, CallTypes
  <2> QED BY <1>0, <1>t, <2>1, <2>2, <2>3 DEF TypeOK
<1>2. LinesOwn'
  <2>1. LinesOwn
    BY DEF IInv
  <2>2. ASSUME NEW at \in desk.fields, actions.said[at].ticket # 0,
               actions.said[at].ticket = runtime'.switch.ticket
        PROVE  at = "Backends"
    BY <2>1, <2>2 DEF LinesOwn
  <2> QED BY <1>0, <2>1, <2>2 DEF LinesOwn, SameRequest
<1>3. LinesRight'
  BY <1>0, DeadStays DEF IInv, LinesRight, Missed
<1>4. ReadRight'
  <2>1. reads["config"].found # Nothing /\ "config" \in Kinds =>
            reads["config"].found.version \in Nat
    BY <1>t DEF TypeOK, ReadsOK
  <2> QED BY <1>0, <1>t, <2>1 DEF IInv, ReadRight
<1>5. FlowRight'
  BY <1>0 DEF IInv, FlowRight
<1>6. ConflictRight'
  BY <1>0, DeadStays DEF IInv, ConflictRight, Awaited
<1>7. UnconfirmedRight'
  <2> SUFFICES ASSUME actions.flow.why = "Unconfirmed"
               PROVE  /\ actions.flow.field # "Backends" /\ Gone(Awaited)'
                      /\ desk.versioned => actions.flow.arg <= runtime'.version
                      /\ ~Missed(Awaited) =>
                            /\ Awaited \in taken' /\ desk.versioned =>
                                   actions.flow.arg < runtime'.version /\ ReadPast(actions.flow.arg)
                            /\ Coming(Awaited)' => ReadNone
    <3>1. Awaited' = Awaited /\ Missed(Awaited)' = Missed(Awaited) /\ ReadNone' = ReadNone
      BY <1>0 DEF Awaited, Missed, ReadNone
    <3>2. ReadPast(actions.flow.arg)' = ReadPast(actions.flow.arg)
      BY <1>0 DEF ReadPast
    <3>3. Gone(Awaited)' <=> (\A c \in calls' : c.ticket # Awaited)
      BY <3>1 DEF Gone
    <3>4. Coming(Awaited)' <=> (\E l \in runtime'.late : l.ticket = Awaited)
      BY <3>1 DEF Coming
    <3> QED BY <1>0, <3>1, <3>2, <3>3, <3>4 DEF UnconfirmedRight
  <2>1. /\ actions.flow.field # "Backends" /\ Gone(Awaited)
        /\ desk.versioned => actions.flow.arg <= runtime.version
        /\ ~Missed(Awaited) =>
              /\ Awaited \in taken /\ desk.versioned =>
                     actions.flow.arg < runtime.version /\ ReadPast(actions.flow.arg)
              /\ Coming(Awaited) => ReadNone
    BY DEF IInv, UnconfirmedRight
  <2>2. Gone(Awaited)'
    BY <2>1, <1>0 DEF Gone, SameRequest, Awaited
  <2>3. actions.flow.field \in desk.fields /\ actions.flow.arg \in Nat
    BY <1>t, <2>1, WritesAssumption DEF IInv, FlowRight, TypeOK, IsActions, Flows, Words, Answers, Whys
  <2>4. Awaited \in taken' \ taken => Coming(Awaited) /\ runtime.version < runtime'.version
    BY <2>1, <2>3 DEF Gone, IInv, LinesOwn, Awaited, Coming
  <2>5. Coming(Awaited)' => Coming(Awaited)
    BY <1>0, <2>1 DEF Gone, Coming, Awaited
  <2>6. ReadNone => ReadPast(actions.flow.arg)
    BY DEF ReadNone, ReadPast
  <2> QED BY <1>t, <2>1, <2>2, <2>3, <2>4, <2>5, <2>6
<1>8. SwitchRight'
  <2>1. CASE actions.flow.why # "Switch"
    BY <1>0, <2>1 DEF SwitchRight
  <2>2. CASE actions.flow.why = "Switch"
    <3> DEFINE p == actions.pending
    <3>1. /\ p \in Pendings(actions.issued) /\ actions.flow.field = "Backends"
          /\ Gone(p.ticket) /\ Awaited = p.ticket
          /\ desk.versioned => p.based <= runtime.version
          /\ \A call \in runtime.late : call.ticket = p.ticket => call.of = p.of
          /\ ~Missed(p.ticket) => SwitchSeenRight
      BY <2>2 DEF IInv, SwitchRight
    <3>2. p.ticket \in Nat \ {0} /\ p.based \in Nat
      BY <3>1, <1>t DEF Pendings, TypeOK, IsActions
    <3>3. "Backends" \in desk.fields
      BY <1>t, <3>1, WritesAssumption DEF TypeOK, IsActions, Flows, Fields, DraftFields
    <3>4. \A call \in runtime.late : call.ticket = p.ticket => call.what = "Backends"
      BY <3>1, <3>3 DEF IInv, LinesOwn, Awaited
    <3>5. p' = p /\ Awaited' = Awaited /\ Missed(p.ticket)' = Missed(p.ticket)
      BY <1>0 DEF Awaited, Missed
    <3>6. Gone(p.ticket)' /\ (Coming(p.ticket)' => Coming(p.ticket))
      BY <1>0, <3>1 DEF Gone, Coming, SameRequest
    <3>7. \A call \in runtime'.late : call.ticket = p.ticket => call.of = p.of
      BY <3>1 DEF Gone
    <3>8. ASSUME ~Missed(p.ticket) PROVE SwitchSeenRight'
      <4>1. SwitchSeenRight
        BY <3>1, <3>8
      <4>2. p.ticket \in taken' \ taken => SwitchUnderWay /\ runtime.version < runtime'.version
        BY <3>1, <3>4 DEF SwitchUnderWay, Gone
      <4>3. ReadPast(p.based)' = ReadPast(p.based)
        BY <1>0 DEF ReadPast
      <4>4. /\ p.ticket \in taken' /\ desk.versioned =>
                  /\ p.based < runtime'.version
                  /\ p.over => ReadPast(p.based)
        BY <1>t, <3>1, <3>2, <4>1, <4>2 DEF SwitchSeenRight
      <4>5. ASSUME runtime'.switch.ticket = p.ticket
            PROVE  /\ ~p.over /\ runtime'.switch.of = p.of
                   /\ p.waited => ~Claiming'
                   /\ reads["status"].found # Nothing =>
                         \/ (reads["status"].found.claim /\ ~p.waited)
                         \/ reads["status"].found.checking = p.of
        <5>1. CASE SwitchUnderWay /\ runtime'.switch.of = runtime.switch.of
                   /\ runtime'.switch.at \in {runtime.switch.at, "check"}
                   /\ runtime'.switch.late = runtime.switch.late
          <6>1. Claiming' => Claiming
            BY <5>1 DEF Claiming
          <6> QED BY <4>1, <5>1, <6>1 DEF SwitchSeenRight
        <5>2. CASE \E l \in runtime.late : /\ l.ticket = p.ticket /\ l.of = runtime'.switch.of
                                           /\ runtime'.switch.late
          <6>1. Coming(p.ticket) /\ ~Claiming' /\ runtime'.switch.of = p.of
            BY <3>1, <5>2 DEF Coming, Claiming
          <6> QED BY <4>1, <6>1 DEF SwitchSeenRight
        <5> QED BY <3>1, <3>2, <4>5, <5>1, <5>2 DEF SwitchUnderWay, Gone
      <4>6. Coming(p.ticket)' => ~p.over /\ reads["status"].found = Nothing
        BY <3>6, <4>1 DEF SwitchSeenRight
      <4>7. SwitchUnderWay' <=> runtime'.switch.ticket = p.ticket
        BY <3>5 DEF SwitchUnderWay
      <4> QED BY <1>0, <3>5, <4>3, <4>4, <4>5, <4>6, <4>7 DEF SwitchSeenRight
    <3>9. desk.versioned => p.based <= runtime'.version
      BY <1>t, <3>1, <3>2
    <3> QED BY <1>0, <3>1, <3>5, <3>6, <3>7, <3>8, <3>9 DEF SwitchRight, Pendings
  <2> QED BY <2>1, <2>2
<1>9. SliceRight'
  <2>1. view.slice # Nothing => view.slice.version \in Nat
    BY <1>t DEF TypeOK, ViewOK
  <2> QED BY <1>0, <1>t, <2>1 DEF IInv, SliceRight
<1>10. RulesRight'
  <2> SUFFICES ASSUME NEW c \in (calls \cup runtime.late)', c.what \in Fields, desk.versioned
               PROVE  /\ c.based <= runtime'.version
                      /\ c.based = runtime'.version => AsPressed(c, runtime'.rows)
    BY <1>0 DEF RulesRight, AsPressed
  <2>1. PICK d \in calls \cup runtime.late : SameRequest(c, d)
    BY DEF SameRequest
  <2>2. d.based \in Nat
    BY <1>t DEF TypeOK, CallsOK, LateOK, IsCall, CallTypes
  <2>3. /\ d.based <= runtime.version
        /\ d.based = runtime.version => AsPressed(d, runtime.rows)
    BY <2>1 DEF IInv, RulesRight, SameRequest
  <2> QED BY <2>1, <2>2, <2>3, <1>t DEF AsPressed, SameRequest
<1> QED BY <1>1, <1>2, <1>3, <1>4, <1>5, <1>6, <1>7, <1>8, <1>9, <1>10 DEF IInv


-----------------------------------------------------------------------------
(* The steps of the Runtime and of the requests it has.                    *)

\* What an answer leaves as it was: the Runtime, and what it took.
LEMMA OnlyAnswered ==
  ASSUME IInv, NEW call \in calls, NEW word \in Answers, NEW now \in Nat,
         Answered(call, word, now), call.word = Nothing, call.word \notin Answers,
         word # "Applied", word \in Untaken => call.ticket # runtime.switch.ticket,
         UNCHANGED <<desk, taken, reads, view, actions, panel>>,
         runtime'.switch = runtime.switch, runtime'.version = runtime.version,
         runtime'.rows = runtime.rows, runtime'.missed = runtime.missed, RuntimeOK',
         \/ runtime'.late = runtime.late
         \/ /\ runtime'.late = runtime.late \cup {call}
            /\ word = "Unconfirmed" /\ call.ticket # runtime.switch.ticket
  PROVE  IInv'
<1>1. TypeOK /\ CallsOK /\ TicketsApart
  BY DEF IInv, TypeOK
<1>2. /\ CallsOK'
      /\ \A c \in calls' : \E d \in calls :
                /\ SameRequest(c, d)
                /\ ((c = d /\ d # call) \/ (d = call /\ c.word = word /\ c.now = now))
  <2> HIDE DEF Answered
  <2> QED BY <1>1, AnsweredCalls
<1>3. TicketsApart'
  BY <1>1, <1>2, AnsweredApart
<1>4. Moves
  BY <1>1, <1>2 DEF Moves, TypeOK, RuntimeOK, IsRuntime
<1>5. SwitchOfItsCall'
  BY <1>2 DEF IInv, SwitchOfItsCall, SameRequest
<1>6. AnswersRight'
  <2> SUFFICES ASSUME NEW c \in calls'
               PROVE  /\ c.word \in Untaken \cup {Nothing} => c.ticket \notin taken
                      /\ c.word = "Unconfirmed" /\ c.ticket \in taken /\ desk.versioned =>
                             c.based < runtime.version
                      /\ c.word = "Applied" =>
                             c.what \in Fields /\ (desk.versioned => c.now <= runtime.version)
    BY DEF AnswersRight
  <2>1. PICK d \in calls :
                /\ SameRequest(c, d)
                /\ ((c = d /\ d # call) \/ (d = call /\ c.word = word /\ c.now = now))
    BY <1>2
  <2>2. call.ticket \notin taken
    BY DEF IInv, AnswersRight
  <2>3. CASE d = call /\ c.word = word /\ c.now = now
    BY <2>1, <2>2, <2>3 DEF SameRequest
  <2>4. CASE c = d
    BY <2>1, <2>4 DEF IInv, AnswersRight
  <2> QED BY <2>1, <2>3, <2>4
<1>7. LateApart'
  <2>1. LateApart /\ \A l \in runtime.late : l.ticket # call.ticket
    BY DEF IInv, LateApart, Answers
  <2>2. call.ticket \notin taken
    BY DEF IInv, AnswersRight
  <2>3. ASSUME NEW l \in runtime'.late, NEW c \in calls', c.ticket = l.ticket
        PROVE  c.word = "Unconfirmed" /\ SameRequest(c, l)
    <3>1. PICK d \in calls :
                /\ SameRequest(c, d)
                /\ ((c = d /\ d # call) \/ (d = call /\ c.word = word /\ c.now = now))
      BY <1>2
    <3>2. d.ticket = l.ticket
      BY <2>3, <3>1 DEF SameRequest
    <3>3. CASE l \in runtime.late
      BY <2>1, <3>1, <3>2, <3>3 DEF LateApart
    <3>4. CASE l = call /\ word = "Unconfirmed"
      BY <1>1, <3>1, <3>2, <3>4 DEF TicketsApart
    <3> QED BY <3>3, <3>4
  <2>4. ASSUME NEW l \in runtime'.late, NEW m \in runtime'.late, m.ticket = l.ticket
        PROVE  m = l
    BY <2>1, <2>4 DEF LateApart
  <2>5. ASSUME NEW l \in runtime'.late
        PROVE  l.ticket \notin taken /\ l.ticket # runtime'.switch.ticket
    BY <2>1, <2>2 DEF LateApart
  <2> QED BY <2>3, <2>4, <2>5 DEF LateApart
<1> QED BY <1>2, <1>3, <1>4, <1>5, <1>6, <1>7, MovesKeep

LEMMA FailKeeps ==
  ASSUME IInv, NEW call \in calls, Fail(call)
  PROVE  IInv'
<1>1. PICK word \in {"Unconfirmed", "NotSent"} :
          /\ Answered(call, word, 0)
          /\ word = "NotSent" => call.ticket # runtime.switch.ticket
          /\ \/ runtime' = runtime
             \/ /\ runtime' = [runtime EXCEPT !.late = @ \cup {call}]
                /\ word = "Unconfirmed" /\ call.ticket # runtime.switch.ticket
  BY DEF Fail
<1>2. /\ word \in Answers /\ word # "Applied"
      /\ word \in Untaken => call.ticket # runtime.switch.ticket
  BY <1>1 DEF Answers, Untaken
<1>3. RuntimeOK /\ UNCHANGED <<desk, actions, taken, reads, view, panel>> /\ call.word = Nothing
  BY DEF Fail, IInv, TypeOK
<1>4. /\ runtime'.switch = runtime.switch /\ runtime'.version = runtime.version
      /\ runtime'.rows = runtime.rows /\ runtime'.missed = runtime.missed
      /\ RuntimeOK'
  <2>1. CASE runtime' = runtime
    BY <1>3, <2>1 DEF RuntimeOK, IsRuntime, Switches, IsRows, Keys, Owners
  <2>2. CASE runtime' = [runtime EXCEPT !.late = @ \cup {call}]
    BY <1>3, <2>2 DEF RuntimeOK, IsRuntime, Switches, IsRows, Keys, Owners
  <2> QED BY <1>1, <2>1, <2>2
<1>5. \/ runtime'.late = runtime.late
      \/ /\ runtime'.late = runtime.late \cup {call}
         /\ word = "Unconfirmed" /\ call.ticket # runtime.switch.ticket
  BY <1>1, <1>3 DEF RuntimeOK, IsRuntime
<1> QED BY <1>1, <1>2, <1>3, <1>4, <1>5, OnlyAnswered, NothingSaid

LEMMA RefuseKeeps ==
  ASSUME IInv, NEW call \in calls, Refuse(call)
  PROVE  IInv'
<1>1. PICK word \in {"Conflict", "Refused"} : Answered(call, word, 0)
  BY DEF Refuse
<1>2. /\ word \in Answers /\ word # "Applied" /\ call.ticket # runtime.switch.ticket
  BY <1>1 DEF Answers, Refuse
<1>3. RuntimeOK'
  BY DEF Refuse, IInv, TypeOK, RuntimeOK, IsRuntime, Switches, IsRows, Keys, Owners
<1>4. /\ UNCHANGED <<desk, taken, reads, view, actions, panel>>
      /\ runtime' = runtime /\ call.word = Nothing
  BY DEF Refuse
<1> QED BY <1>1, <1>2, <1>3, <1>4, OnlyAnswered, NothingSaid

\* What a pause and its lifting make of the Runtime.
LEMMA PauseIs ==
  ASSUME NEW rt, IsRuntime(rt), NEW call, PauseTaken(call, rt), UNCHANGED <<desk, actions>>
  PROVE  /\ RuntimeOK' /\ runtime'.switch = rt.switch /\ runtime'.version = rt.version
         /\ runtime'.rows = rt.rows /\ runtime'.late = rt.late /\ runtime'.missed = rt.missed
<1> DEFINE pause == [rev |-> rt.pauses + 1, ours |-> TRUE]
           rev == rt.pauses + 1
<1>1. rt.pauses \in Nat /\ rev \in Nat /\ pause \in Pauses
  BY DEF IsRuntime, Pauses
<1>2. runtime' = rt \/ runtime' = [rt EXCEPT !.pause = pause, !.pauses = rev]
  BY DEF PauseTaken
<1>3. (Switches \cup {NoSwitch})' = Switches \cup {NoSwitch} /\ desk' = desk /\ Keys' = Keys
  BY DEF Switches, Keys, Owners
<1> HIDE DEF pause, rev
<1>4. /\ runtime'.switch = rt.switch /\ runtime'.version = rt.version
      /\ runtime'.rows = rt.rows /\ runtime'.late = rt.late /\ runtime'.missed = rt.missed
  BY <1>1, <1>2 DEF IsRuntime
<1>5. IsRuntime(runtime')
  <2>1. CASE runtime' = rt
    BY <2>1
  <2>2. CASE runtime' = [rt EXCEPT !.pause = pause, !.pauses = rev]
    BY <1>1, <1>4, <2>2 DEF IsRuntime
  <2> QED BY <1>2, <2>1, <2>2
<1> QED BY <1>3, <1>4, <1>5 DEF RuntimeOK, IsRuntime, IsRows

LEMMA ResumeIs ==
  ASSUME NEW rt, IsRuntime(rt), NEW call, ResumeTaken(call, rt), UNCHANGED <<desk, actions>>
  PROVE  /\ RuntimeOK' /\ runtime'.switch = rt.switch /\ runtime'.version = rt.version
         /\ runtime'.rows = rt.rows /\ runtime'.late = rt.late /\ runtime'.missed = rt.missed
<1>1. NoPause \in Pauses
  BY DEF Pauses, NoPause
<1>2. runtime' = rt \/ runtime' = [rt EXCEPT !.pause = NoPause]
  BY DEF ResumeTaken
<1>3. (Switches \cup {NoSwitch})' = Switches \cup {NoSwitch} /\ desk' = desk /\ Keys' = Keys
  BY DEF Switches, Keys, Owners
<1>4. /\ runtime'.switch = rt.switch /\ runtime'.version = rt.version
      /\ runtime'.rows = rt.rows /\ runtime'.late = rt.late /\ runtime'.missed = rt.missed
  BY <1>1, <1>2 DEF IsRuntime
<1>5. IsRuntime(runtime')
  <2>1. CASE runtime' = rt
    BY <2>1
  <2>2. CASE runtime' = [rt EXCEPT !.pause = NoPause]
    BY <1>1, <1>4, <2>2 DEF IsRuntime
  <2> QED BY <1>2, <2>1, <2>2
<1> QED BY <1>3, <1>4, <1>5 DEF RuntimeOK, IsRuntime, IsRows

LEMMA TakePauseKeeps ==
  ASSUME IInv, NEW call \in calls, TakePause(call)
  PROVE  IInv'
<1> DEFINE rev == runtime.pauses + 1
<1>1. PICK word \in {"PauseApplied", "AlreadyPaused", "Unconfirmed"} : Answered(call, word, rev)
  BY DEF TakePause
<1>2. word \in Answers /\ word # "Applied" /\ word \notin Untaken
  BY <1>1 DEF Answers, Untaken
<1>3. /\ UNCHANGED <<desk, taken, reads, view, actions, panel>> /\ call.word = Nothing
      /\ PauseTaken(call, runtime)
  BY DEF TakePause
<1>4. IsRuntime(runtime) /\ rev \in Nat
  BY DEF IInv, TypeOK, RuntimeOK, IsRuntime
<1> HIDE DEF rev
<1>5. /\ RuntimeOK' /\ runtime'.switch = runtime.switch /\ runtime'.version = runtime.version
      /\ runtime'.rows = runtime.rows /\ runtime'.late = runtime.late
      /\ runtime'.missed = runtime.missed
  BY <1>3, <1>4, PauseIs
<1> QED BY <1>1, <1>2, <1>3, <1>4, <1>5, OnlyAnswered, NothingSaid

LEMMA TakeResumeKeeps ==
  ASSUME IInv, NEW call \in calls, TakeResume(call)
  PROVE  IInv'
<1>1. PICK word \in {"Resumed", "PauseMoved", "Unconfirmed"} : Answered(call, word, call.value)
  BY DEF TakeResume
<1>2. word \in Answers /\ word # "Applied" /\ word \notin Untaken
  BY <1>1 DEF Answers, Untaken
<1>3. /\ UNCHANGED <<desk, taken, reads, view, actions, panel>> /\ call.word = Nothing
      /\ ResumeTaken(call, runtime) /\ call.what \in Scheduling
  BY DEF TakeResume, ResumeTaken, Scheduling
<1>4. IsRuntime(runtime) /\ call.value \in Nat
  BY <1>3 DEF IInv, TypeOK, RuntimeOK, CallsOK, IsCall, CallTypes
<1>5. /\ RuntimeOK' /\ runtime'.switch = runtime.switch /\ runtime'.version = runtime.version
      /\ runtime'.rows = runtime.rows /\ runtime'.late = runtime.late
      /\ runtime'.missed = runtime.missed
  BY <1>3, <1>4, ResumeIs
<1> QED BY <1>1, <1>2, <1>3, <1>4, <1>5, OnlyAnswered, NothingSaid

\* A change of the settings: their version is the next one, and the rows are rows still.
Changed(rt, key, value, switch) ==
    runtime' = [rt EXCEPT !.rows[key] = value, !.version = @ + 1, !.switch = switch]

LEMMA RowsChanged ==
  ASSUME NEW rt, IsRuntime(rt), NEW key \in Keys, NEW value \in Values(key[1]),
         NEW switch \in Switches \cup {NoSwitch}, desk \in Desks,
         rt.version < desk.versions, UNCHANGED <<desk, actions>>,
         Changed(rt, key, value, switch)
  PROVE  /\ RuntimeOK' /\ runtime'.version = rt.version + 1 /\ runtime'.switch = switch
         /\ runtime'.late = rt.late /\ runtime'.missed = rt.missed
         /\ rt.version < runtime'.version /\ rt.version \in Nat
<1>1. rt.version \in Nat \ {0} /\ desk.versions \in Nat
  BY WritesAssumption DEF IsRuntime, DeskTypes
<1> DEFINE rows == [rt.rows EXCEPT ![key] = value]
           next == rt.version + 1
<1>2. IsRows(rows)
  BY <1>1 DEF IsRuntime, IsRows
<1>3. next \in 1 .. desk.versions /\ rt.version < next
  BY <1>1
<1>4. runtime' = [rt EXCEPT !.rows = rows, !.version = next, !.switch = switch]
  BY <1>1 DEF IsRuntime, Changed
<1> HIDE DEF rows, next
<1>5. runtime' \in [epoch : 1 .. desk.epochs, version : 1 .. desk.versions, rows : {rows},
                    pause : Pauses, pauses : Nat, switch : Switches \cup {NoSwitch}, away : Nat,
                    late : {runtime'.late}, missed : SUBSET (1 .. actions.issued)]
  BY <1>1, <1>3, <1>4 DEF IsRuntime
<1>6. /\ runtime'.rows = rows /\ runtime'.version = next /\ runtime'.switch = switch
      /\ runtime'.late = rt.late /\ runtime'.missed = rt.missed
  BY <1>1, <1>4 DEF IsRuntime
<1>8. /\ (Switches \cup {NoSwitch})' = Switches \cup {NoSwitch} /\ desk' = desk
      /\ Keys' = Keys
  BY DEF Switches, Keys, Owners
<1>9. RuntimeOK'
  BY <1>2, <1>5, <1>6, <1>8 DEF RuntimeOK, IsRuntime, IsRows
<1> QED BY <1>1, <1>3, <1>6, <1>9 DEF next

\* A change the Runtime takes of a request, as it comes to it.
LEMMA ChangeIs ==
  ASSUME TypeOK, NEW rt, IsRuntime(rt), NEW call, IsCall(call), ChangeTaken(call, rt),
         rt.version = runtime.version, UNCHANGED <<desk, actions>>
  PROVE  /\ RuntimeOK' /\ runtime'.version = runtime.version + 1 /\ runtime'.switch = rt.switch
         /\ runtime'.late = rt.late /\ runtime'.missed = rt.missed
         /\ runtime.version < runtime'.version /\ runtime.version \in Nat
         /\ call.based \in Nat /\ (desk.versioned => call.based = runtime.version)
<1>1. /\ call.what \in Fields \ {"Backends"} /\ ~MovedOn(call) /\ runtime.version < desk.versions
      /\ runtime' = Change(call, rt)
  BY DEF ChangeTaken
<1> DEFINE key == <<call.what, call.of>>
<1>2. key \in Keys /\ call.value \in Values(key[1]) /\ call.based \in Nat
  <2>1. call.what \notin Scheduling
    BY <1>1 DEF Scheduling, Fields, DraftFields, HostFields, RuleFields
  <2> QED BY <1>1, <2>1 DEF IsCall, CallTypes
<1>3. rt.switch \in Switches \cup {NoSwitch} /\ desk \in Desks
  BY DEF TypeOK, IsRuntime
<1>4. Changed(rt, key, call.value, rt.switch)
  BY <1>1 DEF Change, IsRuntime, Changed
<1>5. desk.versioned => call.based = runtime.version
  BY <1>1 DEF MovedOn
<1> HIDE DEF key
<1>6. /\ RuntimeOK' /\ runtime'.version = rt.version + 1 /\ runtime'.switch = rt.switch
      /\ runtime'.late = rt.late /\ runtime'.missed = rt.missed
      /\ rt.version < runtime'.version /\ rt.version \in Nat
  BY <1>1, <1>2, <1>3, <1>4, RowsChanged
<1> QED BY <1>2, <1>5, <1>6


LEMMA TakeChangeKeeps ==
  ASSUME IInv, NEW call \in calls, TakeChange(call)
  PROVE  IInv'
<1> DEFINE next == runtime.version + 1
<1>1. PICK word \in {"Applied", "Unconfirmed"} : Answered(call, word, next)
  BY DEF TakeChange
<1>2. word \in Answers /\ word \notin Untaken /\ word # Nothing
  BY <1>1, NothingSaid DEF Answers, Untaken
<1>3. /\ UNCHANGED <<desk, reads, view, actions, panel>> /\ call.word = Nothing
      /\ call.what \in Fields \ {"Backends"} /\ ~MovedOn(call) /\ runtime.version < desk.versions
      /\ ChangeTaken(call, runtime) /\ taken' = taken \cup {call.ticket}
  BY DEF TakeChange, ChangeTaken
<1>4. TypeOK /\ RuntimeOK /\ CallsOK /\ TicketsApart /\ SwitchOfItsCall /\ AnswersRight /\ LateApart
  BY DEF IInv, TypeOK
<1>5. call.based \in Nat /\ (desk.versioned => call.based = runtime.version)
  BY <1>3, <1>4, ChangeIs DEF RuntimeOK, CallsOK
<1>6. /\ RuntimeOK' /\ runtime'.version = next /\ runtime'.switch = runtime.switch
      /\ runtime'.late = runtime.late /\ runtime'.missed = runtime.missed
      /\ runtime.version < runtime'.version /\ runtime.version \in Nat /\ next \in Nat
  BY <1>3, <1>4, ChangeIs DEF RuntimeOK, CallsOK
<1> HIDE DEF next
<1>7. /\ CallsOK'
      /\ \A c \in calls' : \E d \in calls :
                /\ SameRequest(c, d)
                /\ ((c = d /\ d # call) \/ (d = call /\ c.word = word /\ c.now = next))
  BY <1>1, <1>2, <1>3, <1>4, <1>6, AnsweredCalls
<1>8. TicketsApart'
  BY <1>1, <1>4, <1>7, AnsweredApart
<1>9. Moves
  BY <1>3, <1>4, <1>6, <1>7 DEF Moves
<1>10. SwitchOfItsCall'
  <2> SUFFICES ASSUME NEW c \in calls', c.ticket = runtime.switch.ticket
               PROVE  /\ c.what = "Backends" /\ c.of = runtime.switch.of /\ c.word \notin Untaken
                      /\ desk.versioned => c.based <= runtime'.version
    BY <1>3, <1>6 DEF SwitchOfItsCall
  <2>1. PICK d \in calls : SameRequest(c, d) /\ (c = d \/ (d = call /\ c.word = word))
    BY <1>7
  <2>2. /\ d.what = "Backends" /\ d.of = runtime.switch.of /\ d.word \notin Untaken
        /\ desk.versioned => d.based <= runtime.version
    BY <1>4, <2>1 DEF SwitchOfItsCall, SameRequest
  <2>3. d.based \in Nat
    BY <1>4 DEF CallsOK, IsCall, CallTypes
  <2> QED BY <1>2, <1>6, <2>1, <2>2, <2>3 DEF SameRequest
<1>11. AnswersRight'
  <2> SUFFICES ASSUME NEW c \in calls'
               PROVE  /\ c.word \in Untaken \cup {Nothing} => c.ticket \notin taken'
                      /\ c.word = "Unconfirmed" /\ c.ticket \in taken' /\ desk.versioned =>
                             c.based < runtime'.version
                      /\ c.word = "Applied" =>
                             c.what \in Fields /\ (desk.versioned => c.now <= runtime'.version)
    BY <1>3 DEF AnswersRight
  <2>1. PICK d \in calls :
                /\ SameRequest(c, d)
                /\ ((c = d /\ d # call) \/ (d = call /\ c.word = word /\ c.now = next))
    BY <1>7
  <2>2. d.based \in Nat /\ d.now \in Nat
    BY <1>4 DEF CallsOK, IsCall, CallTypes
  <2>3. CASE d = call /\ c.word = word /\ c.now = next
    <3>1. desk.versioned => call.based = runtime.version
      BY <1>3 DEF MovedOn
    <3> QED BY <1>2, <1>3, <1>6, <2>1, <2>2, <2>3, <3>1 DEF SameRequest
  <2>4. CASE c = d /\ d # call
    <3>1. d.ticket # call.ticket
      BY <1>4, <2>4 DEF TicketsApart
    <3>2. d.ticket \in taken' => d.ticket \in taken
      BY <1>3, <3>1
    <3> QED BY <1>4, <1>6, <2>1, <2>2, <2>4, <3>2 DEF AnswersRight
  <2> QED BY <2>1, <2>3, <2>4
<1>12. LateApart'
  <2>1. \A l \in runtime.late : l.ticket # call.ticket
    BY <1>3, <1>4, NothingSaid DEF LateApart, Answers
  <2>2. ASSUME NEW l \in runtime.late, NEW c \in calls', c.ticket = l.ticket
        PROVE  c.word = "Unconfirmed" /\ SameRequest(c, l)
    <3>1. PICK d \in calls :
                /\ SameRequest(c, d)
                /\ ((c = d /\ d # call) \/ (d = call /\ c.word = word /\ c.now = next))
      BY <1>7
    <3>2. d.ticket = l.ticket
      BY <2>2, <3>1 DEF SameRequest
    <3> QED BY <1>4, <2>1, <3>1, <3>2 DEF LateApart
  <2> QED BY <1>3, <1>4, <1>6, <2>1, <2>2 DEF LateApart
<1> QED BY <1>6, <1>7, <1>8, <1>9, <1>10, <1>11, <1>12, MovesKeep

\* No request has the ticket 0.
LEMMA TicketsPositive ==
  ASSUME TypeOK
  PROVE  /\ \A c \in calls : c.ticket # 0 /\ c.ticket \in 1 .. actions.issued
         /\ \A l \in runtime.late : l.ticket # 0 /\ l.ticket \in 1 .. actions.issued
<1>1. actions.issued \in Nat
  BY IssuedNat
<1>2. \A ticket \in 1 .. actions.issued : ticket # 0
  BY <1>1
<1>3. ASSUME NEW c, IsCall(c) PROVE c.ticket \in 1 .. actions.issued
  BY <1>3 DEF IsCall, CallTypes
<1> QED BY <1>2, <1>3 DEF TypeOK, CallsOK, LateOK

\* A step of the Runtime alone that takes nothing.
LEMMA RuntimeAlone ==
  ASSUME IInv, RuntimeOK', UNCHANGED <<desk, taken, calls, reads, view, actions, panel>>,
         runtime.version <= runtime'.version,
         runtime'.version = runtime.version => runtime'.rows = runtime.rows,
         runtime'.late \subseteq runtime.late, runtime'.missed = runtime.missed,
         \/ runtime'.switch.ticket = 0
         \/ /\ runtime'.switch.ticket = runtime.switch.ticket
            /\ runtime'.switch.of = runtime.switch.of
            /\ runtime'.switch.at \in {runtime.switch.at, "check"}
            /\ runtime'.switch.late = runtime.switch.late
  PROVE  IInv'
<1>1. /\ TypeOK /\ CallsOK /\ TicketsApart /\ SwitchOfItsCall /\ AnswersRight /\ RuntimeOK
      /\ LateApart
  BY DEF IInv, TypeOK
<1>2. runtime.version \in Nat /\ runtime'.version \in Nat
  BY <1>1 DEF RuntimeOK, IsRuntime
<1>3. CallsOK' /\ TicketsApart'
  BY <1>1 DEF CallsOK, IsCall, CallTypes, TicketsApart, Keys, Owners
<1>4. \A c \in calls : c.based \in Nat /\ c.now \in Nat /\ c.ticket # 0
  <2>1. actions.issued \in Nat
    BY <1>1, WritesAssumption DEF TypeOK, IsActions, DeskTypes
  <2>2. ASSUME NEW c \in calls PROVE c.based \in Nat /\ c.now \in Nat /\ c.ticket # 0
    <3>1. c \in CallTypes(c.what)
      BY <1>1 DEF CallsOK, IsCall
    <3>2. c.ticket \in 1 .. actions.issued /\ c.based \in Nat /\ c.now \in Nat
      BY <3>1 DEF CallTypes
    <3> QED BY <2>1, <3>2
  <2> QED BY <2>2
<1>5. SwitchOfItsCall'
  BY <1>1, <1>2, <1>4 DEF SwitchOfItsCall
<1>6. AnswersRight'
  BY <1>1, <1>2, <1>4 DEF AnswersRight
<1>7. Moves
  BY <1>1, <1>2 DEF Moves, SameRequest
<1>8. LateApart'
  <2>1. \A l \in runtime.late : l.ticket # 0
    BY <1>1, TicketsPositive
  <2>2. \A l \in runtime'.late : l \in runtime.late /\ l.ticket # runtime'.switch.ticket
    BY <1>1, <2>1 DEF LateApart
  <2> QED BY <1>1, <2>2 DEF LateApart
<1> QED BY <1>3, <1>5, <1>6, <1>7, <1>8, MovesKeep

\* What a switch begun makes of the Runtime.
LEMMA SwitchIs ==
  ASSUME TypeOK, NEW rt, IsRuntime(rt), NEW call, IsCall(call), SwitchBegun(call, rt),
         UNCHANGED <<desk, actions>>
  PROVE  /\ RuntimeOK' /\ runtime'.version = rt.version /\ runtime'.rows = rt.rows
         /\ runtime'.late = rt.late /\ runtime'.missed = rt.missed
         /\ runtime'.switch.ticket = call.ticket /\ runtime'.switch.of = call.of
         /\ runtime'.switch.late = (call \in runtime.late)
<1> DEFINE late == call \in runtime.late
           switch == [ticket |-> call.ticket, of |-> call.of, value |-> call.value,
                      at |-> "claim", late |-> late]
<1>1. call.what = "Backends" /\ runtime' = [rt EXCEPT !.switch = switch]
  BY DEF SwitchBegun
<1>2. late \in BOOLEAN
  OBVIOUS
<1> HIDE DEF late
<1>3. switch \in Switches
  <2>1. call \in CallTypes("Backends") /\ <<"Backends", call.of>> \in Keys
    BY <1>1 DEF IsCall, Fields, DraftFields
  <2>2. call.value \in 0 .. 2
    BY <2>1 DEF CallTypes, Scheduling, Values
  <2>3. call.of \in Accounts
    <3>1. call.of \in Owners("Backends")
      BY <2>1 DEF Keys
    <3> QED BY <3>1, WritesAssumption DEF Owners, HostFields, TypeOK, DeskTypes
  <2> QED BY <1>2, <2>1, <2>2, <2>3 DEF Switches, CallTypes
<1>4. switch.ticket = call.ticket /\ switch.of = call.of /\ switch.late = late
  OBVIOUS
<1> HIDE DEF switch
<1>5. /\ runtime'.version = rt.version /\ runtime'.rows = rt.rows /\ runtime'.late = rt.late
      /\ runtime'.missed = rt.missed /\ runtime'.switch = switch
  BY <1>1 DEF IsRuntime
<1>6. IsRuntime(runtime')
  BY <1>1, <1>3, <1>5 DEF IsRuntime
<1>7. (Switches \cup {NoSwitch})' = Switches \cup {NoSwitch} /\ desk' = desk /\ Keys' = Keys
  BY DEF Switches, Keys, Owners
<1>8. RuntimeOK'
  BY <1>5, <1>6, <1>7 DEF RuntimeOK, IsRuntime, IsRows
<1> QED BY <1>4, <1>5, <1>8 DEF late

\* The same, the switch as it was.
LEMMA SameSwitch ==
  ASSUME IInv, RuntimeOK', UNCHANGED <<desk, taken, calls, reads, view, actions, panel>>,
         runtime.version <= runtime'.version, runtime'.version = runtime.version,
         runtime'.rows = runtime.rows, runtime'.switch = runtime.switch,
         NEW rest, rest \subseteq runtime.late, runtime'.late = rest,
         runtime'.missed = runtime.missed
  PROVE  IInv'
BY RuntimeAlone

LEMMA BeginSwitchKeeps ==
  ASSUME IInv, NEW call \in calls, BeginSwitch(call)
  PROVE  IInv'
<1>1. /\ UNCHANGED <<desk, taken, calls, reads, view, actions, panel>> /\ call.word = Nothing
      /\ call.what = "Backends" /\ ~MovedOn(call) /\ SwitchBegun(call, runtime)
  BY DEF BeginSwitch, SwitchBegun
<1>2. /\ TypeOK /\ CallsOK /\ TicketsApart /\ SwitchOfItsCall /\ AnswersRight /\ RuntimeOK
      /\ LateApart
  BY DEF IInv, TypeOK
<1>3. IsRuntime(runtime) /\ IsCall(call)
  BY <1>2 DEF RuntimeOK, CallsOK
<1>4. /\ RuntimeOK' /\ runtime'.version = runtime.version /\ runtime'.rows = runtime.rows
      /\ runtime'.late = runtime.late /\ runtime'.missed = runtime.missed
      /\ runtime'.switch.ticket = call.ticket /\ runtime'.switch.of = call.of
  BY <1>1, <1>2, <1>3, SwitchIs
<1>5. CallsOK' /\ TicketsApart' /\ AnswersRight'
  BY <1>1, <1>2, <1>4 DEF CallsOK, IsCall, CallTypes, TicketsApart, Keys, Owners, AnswersRight
<1>6. SwitchOfItsCall'
  <2> SUFFICES ASSUME NEW c \in calls, c.ticket = call.ticket
               PROVE  /\ c.what = "Backends" /\ c.of = call.of /\ c.word \notin Untaken
                      /\ desk.versioned => c.based <= runtime.version
    BY <1>1, <1>4 DEF SwitchOfItsCall
  <2>1. c = call
    BY <1>2 DEF TicketsApart
  <2>2. c.word \notin Untaken
    BY <1>1, <2>1, NothingSaid DEF Untaken, Answers
  <2>3. desk.versioned => c.based <= runtime.version
    BY <1>1, <1>2, <2>1 DEF MovedOn, CallsOK, IsCall, CallTypes, RuntimeOK, IsRuntime
  <2> QED BY <1>1, <2>1, <2>2, <2>3
<1>7. LateApart'
  <2>1. \A l \in runtime.late : l.ticket # call.ticket
    BY <1>1, <1>2, NothingSaid DEF LateApart, Answers
  <2> QED BY <1>1, <1>2, <1>4, <2>1 DEF LateApart
<1>8. Moves
  <2>1. runtime.version \in Nat
    BY <1>3 DEF IsRuntime
  <2> QED BY <1>1, <1>4, <2>1 DEF Moves, SameRequest
<1> QED BY <1>4, <1>5, <1>6, <1>7, <1>8, MovesKeep

LEMMA GrantSwitchKeeps == IInv /\ GrantSwitch => IInv'
<1> SUFFICES ASSUME IInv, GrantSwitch PROVE IInv'
  OBVIOUS
<1>1. RuntimeOK /\ TypeOK
  BY DEF IInv, TypeOK
<1>2. runtime.switch \in Switches
  BY <1>1 DEF RuntimeOK, IsRuntime, NoSwitch, GrantSwitch
<1>3. [runtime.switch EXCEPT !.at = "check"] \in Switches
  BY <1>2 DEF Switches, Keys, Owners
<1>4. /\ runtime' = [runtime EXCEPT !.switch = [runtime.switch EXCEPT !.at = "check"]]
      /\ UNCHANGED <<desk, taken, calls, reads, view, actions, panel>>
  BY <1>1 DEF GrantSwitch, RuntimeOK, IsRuntime
<1>5. /\ runtime'.version = runtime.version /\ runtime'.rows = runtime.rows
      /\ runtime'.switch = [runtime.switch EXCEPT !.at = "check"]
      /\ runtime'.late = runtime.late /\ runtime'.missed = runtime.missed
  BY <1>1, <1>4 DEF RuntimeOK, IsRuntime
<1>6. /\ runtime'.switch.ticket = runtime.switch.ticket
      /\ runtime'.switch.of = runtime.switch.of /\ runtime'.switch.at = "check"
      /\ runtime'.switch.late = runtime.switch.late
  BY <1>2, <1>5 DEF Switches, Keys, Owners
<1>7. RuntimeOK'
  <2>1. runtime' \in [epoch : 1 .. desk.epochs, version : 1 .. desk.versions, rows : {runtime.rows},
                    pause : Pauses, pauses : Nat, switch : Switches \cup {NoSwitch}, away : Nat,
                    late : {runtime'.late}, missed : SUBSET (1 .. actions.issued)]
    BY <1>1, <1>3, <1>4 DEF RuntimeOK, IsRuntime
  <2>2. /\ (Switches \cup {NoSwitch})' = Switches \cup {NoSwitch} /\ desk' = desk
        /\ Keys' = Keys
    BY <1>4 DEF Switches, Keys, Owners
  <2> QED BY <1>1, <1>4, <1>5, <2>1, <2>2 DEF RuntimeOK, IsRuntime, IsRows
<1>8. runtime.version \in Nat
  BY <1>1 DEF RuntimeOK, IsRuntime
<1> QED BY <1>4, <1>5, <1>6, <1>7, <1>8, RuntimeAlone


LEMMA EndSwitchKeeps ==
  ASSUME IInv, NEW commits \in BOOLEAN, EndSwitch(commits)
  PROVE  IInv'
<1> DEFINE switch == runtime.switch
           waiting == {call \in calls : call.ticket = switch.ticket /\ call.word = Nothing}
           word == IF commits THEN "Applied" ELSE "Refused"
           now == runtime'.version
<1>1. /\ switch # NoSwitch
      /\ commits => switch.at = "check" /\ runtime.version < desk.versions
      /\ runtime' = IF commits
                     THEN [runtime EXCEPT !.rows[<<"Backends", switch.of>>] = switch.value,
                                          !.version = @ + 1, !.switch = NoSwitch]
                     ELSE [runtime EXCEPT !.switch = NoSwitch]
      /\ taken' = IF commits THEN taken \cup {switch.ticket} ELSE taken
      /\ IF waiting = {} THEN UNCHANGED calls ELSE \E call \in waiting : Answered(call, word, now)
      /\ UNCHANGED <<desk, reads, view, actions, panel>>
  BY DEF EndSwitch
<1>2. /\ TypeOK /\ CallsOK /\ TicketsApart /\ SwitchOfItsCall /\ AnswersRight /\ RuntimeOK
      /\ LateApart
  BY DEF IInv, TypeOK
<1>3. switch \in Switches /\ runtime.version \in Nat
  BY <1>1, <1>2 DEF RuntimeOK, IsRuntime
<1>4. /\ RuntimeOK' /\ runtime'.switch = NoSwitch /\ now \in Nat
      /\ runtime'.late = runtime.late /\ runtime'.missed = runtime.missed
      /\ runtime'.version = runtime.version => runtime'.rows = runtime.rows
      /\ IF commits THEN runtime.version < runtime'.version ELSE runtime'.version = runtime.version
  <2>1. CASE commits
    <3> DEFINE key == <<"Backends", switch.of>>
    <3>1. key \in Keys /\ switch.value \in Values(key[1])
      BY <1>3, <1>1, <1>2, <2>1 DEF Switches, Values
    <3>2. Changed(runtime, key, switch.value, NoSwitch)
      BY <1>1, <2>1 DEF Changed
    <3>3. IsRuntime(runtime) /\ desk \in Desks
      BY <1>2 DEF TypeOK, RuntimeOK
    <3> HIDE DEF key, switch
    <3>4. /\ RuntimeOK' /\ runtime'.version = runtime.version + 1 /\ runtime'.switch = NoSwitch
          /\ runtime'.late = runtime.late /\ runtime'.missed = runtime.missed
          /\ runtime.version < runtime'.version /\ runtime.version \in Nat
      BY <1>1, <2>1, <3>1, <3>2, <3>3, RowsChanged
    <3> QED BY <2>1, <3>4
  <2>2. CASE ~commits
    <3>1. runtime' = [runtime EXCEPT !.switch = NoSwitch]
      BY <1>1, <2>2
    <3>2. /\ runtime'.version = runtime.version /\ runtime'.rows = runtime.rows
          /\ runtime'.switch = NoSwitch
          /\ runtime'.late = runtime.late /\ runtime'.missed = runtime.missed
      BY <1>2, <3>1 DEF RuntimeOK, IsRuntime
    <3>3. runtime' \in [epoch : 1 .. desk.epochs, version : 1 .. desk.versions, rows : {runtime.rows},
                    pause : Pauses, pauses : Nat, switch : Switches \cup {NoSwitch}, away : Nat,
                    late : {runtime'.late}, missed : SUBSET (1 .. actions.issued)]
      BY <1>2, <3>1 DEF RuntimeOK, IsRuntime
    <3>4. /\ (Switches \cup {NoSwitch})' = Switches \cup {NoSwitch} /\ desk' = desk
          /\ Keys' = Keys
      BY <1>1 DEF Switches, Keys, Owners
    <3>5. RuntimeOK'
      BY <1>1, <1>2, <3>2, <3>3, <3>4 DEF RuntimeOK, IsRuntime, IsRows
    <3> QED BY <2>2, <1>3, <3>2, <3>5
  <2> QED BY <2>1, <2>2
<1>5. \A c \in calls : c.word = Nothing /\ c.ticket = switch.ticket => waiting # {}
  OBVIOUS
<1>6. /\ switch.ticket # 0 /\ word \in Answers /\ word # "Unconfirmed" /\ word # Nothing
      /\ word \in Untaken => ~commits
  <2>1. switch.ticket # 0
    BY <1>2, <1>3, WritesAssumption DEF Switches, TypeOK, IsActions, DeskTypes
  <2> QED BY <2>1, NothingSaid DEF Answers, Untaken
<1> HIDE DEF word, now
\* Each request has its answer, or is as it was.
<1>7. /\ CallsOK' /\ TicketsApart'
      /\ \A c \in calls' : \E d \in calls :
            /\ SameRequest(c, d)
            /\ \/ c = d /\ (d.word = Nothing => d.ticket # switch.ticket)
               \/ d.ticket = switch.ticket /\ d.word = Nothing /\ c.word = word /\ c.now = now
  <2>1. CASE waiting = {}
    <3>1. calls' = calls
      BY <1>1, <2>1
    <3>2. CallsOK' /\ TicketsApart'
      BY <1>1, <1>2, <3>1 DEF CallsOK, IsCall, CallTypes, TicketsApart, Keys, Owners
    <3> QED BY <1>5, <2>1, <3>1, <3>2 DEF SameRequest
  <2>2. CASE waiting # {}
    <3>1. PICK call \in waiting : Answered(call, word, now)
      BY <1>1, <2>2
    <3>2. call \in calls /\ call.ticket = switch.ticket /\ call.word = Nothing
      OBVIOUS
    <3> HIDE DEF waiting, switch
    <3>3. /\ CallsOK'
          /\ \A c \in calls' : \E d \in calls :
                /\ SameRequest(c, d)
                /\ ((c = d /\ d # call) \/ (d = call /\ c.word = word /\ c.now = now))
      BY <1>1, <1>2, <1>4, <1>6, <3>1, <3>2, AnsweredCalls
    <3>4. TicketsApart'
      BY <1>2, <3>1, <3>2, <3>3, AnsweredApart
    <3>5. \A d \in calls : d # call => d.ticket # switch.ticket
      BY <1>2, <3>2 DEF TicketsApart
    <3>6. ASSUME NEW c \in calls'
          PROVE  \E d \in calls :
                   /\ SameRequest(c, d)
                   /\ \/ c = d /\ (d.word = Nothing => d.ticket # switch.ticket)
                      \/ d.ticket = switch.ticket /\ d.word = Nothing /\ c.word = word /\ c.now = now
      BY <3>2, <3>3, <3>5
    <3> QED BY <3>3, <3>4, <3>6
  <2> QED BY <2>1, <2>2
<1> HIDE DEF waiting
<1>8. Moves
  <2>1. runtime'.switch.ticket = 0
    BY <1>4 DEF NoSwitch
  <2> HIDE DEF switch
  <2>2. /\ \A t \in taken' \ taken : t # 0 /\ t = switch.ticket
        /\ taken \subseteq taken' /\ taken' # taken => commits
    BY <1>1, <1>6
  <2> QED BY <1>1, <1>3, <1>4, <1>7, <2>1, <2>2 DEF Moves, switch
<1>9. SwitchOfItsCall'
  <2>1. \A c \in calls' : c.ticket # 0
    <3>1. actions.issued \in Nat
      BY <1>2, WritesAssumption DEF TypeOK, IsActions, DeskTypes
    <3>2. ASSUME NEW d \in calls PROVE d.ticket # 0
      <4>1. d \in CallTypes(d.what)
        BY <1>2 DEF CallsOK, IsCall
      <4> QED BY <3>1, <4>1 DEF CallTypes
    <3> QED BY <1>7, <3>2 DEF SameRequest
  <2> QED BY <1>4, <2>1 DEF SwitchOfItsCall, NoSwitch
<1>10. AnswersRight'
  <2> SUFFICES ASSUME NEW c \in calls'
               PROVE  /\ c.word \in Untaken \cup {Nothing} => c.ticket \notin taken'
                      /\ c.word = "Unconfirmed" /\ c.ticket \in taken' /\ desk.versioned =>
                             c.based < runtime'.version
                      /\ c.word = "Applied" =>
                             c.what \in Fields /\ (desk.versioned => c.now <= runtime'.version)
    BY <1>1 DEF AnswersRight
  <2>1. PICK d \in calls :
            /\ SameRequest(c, d)
            /\ \/ c = d /\ (d.word = Nothing => d.ticket # switch.ticket)
               \/ d.ticket = switch.ticket /\ d.word = Nothing /\ c.word = word /\ c.now = now
    BY <1>7
  <2>2. d.based \in Nat /\ d.now \in Nat
    BY <1>2 DEF CallsOK, IsCall, CallTypes
  <2>3. /\ d.ticket = switch.ticket => d.what = "Backends" /\ d.word \notin Untaken
        /\ d.ticket = switch.ticket /\ desk.versioned => d.based <= runtime.version
        /\ d.word \in Untaken \cup {Nothing} => d.ticket \notin taken
        /\ d.word = "Unconfirmed" /\ d.ticket \in taken /\ desk.versioned =>
                d.based < runtime.version
        /\ d.word = "Applied" =>
                d.what \in Fields /\ (desk.versioned => d.now <= runtime.version)
    BY <1>2 DEF SwitchOfItsCall, AnswersRight
  <2> HIDE DEF switch
  <2>4. /\ ~commits => taken' = taken
        /\ commits => taken' = taken \cup {switch.ticket} /\ runtime.version < runtime'.version
        /\ runtime.version <= runtime'.version /\ runtime'.version \in Nat /\ runtime.version \in Nat
    BY <1>1, <1>3, <1>4 DEF now
  <2>5. CASE c = d /\ (d.word = Nothing => d.ticket # switch.ticket)
    <3>1. c.word \in Untaken \cup {Nothing} => c.ticket \notin taken'
      BY <2>3, <2>4, <2>5
    <3>2. c.word = "Unconfirmed" /\ c.ticket \in taken' /\ desk.versioned =>
                             c.based < runtime'.version
      BY <2>2, <2>3, <2>4, <2>5
    <3>3. c.word = "Applied" =>
                             c.what \in Fields /\ (desk.versioned => c.now <= runtime'.version)
      BY <2>2, <2>3, <2>4, <2>5
    <3> QED BY <3>1, <3>2, <3>3
  <2>6. CASE d.ticket = switch.ticket /\ d.word = Nothing /\ c.word = word /\ c.now = now
    <3>1. c.ticket \notin taken /\ c.ticket = switch.ticket /\ c.what = "Backends"
      BY <2>1, <2>3, <2>6 DEF SameRequest
    <3>2. c.word \in Untaken \cup {Nothing} => c.ticket \notin taken'
      BY <1>6, <2>4, <2>6, <3>1
    <3> QED BY <1>6, <2>4, <2>6, <3>1, <3>2 DEF now, Fields, DraftFields
  <2> QED BY <2>1, <2>5, <2>6
<1>11. LateApart'
  <2> HIDE DEF switch
  <2>1. ASSUME NEW l \in runtime.late, NEW c \in calls', c.ticket = l.ticket
        PROVE  c.word = "Unconfirmed" /\ SameRequest(c, l)
    <3>1. PICK d \in calls :
            /\ SameRequest(c, d)
            /\ \/ c = d /\ (d.word = Nothing => d.ticket # switch.ticket)
               \/ d.ticket = switch.ticket /\ d.word = Nothing /\ c.word = word /\ c.now = now
      BY <1>7
    <3>2. d.ticket = l.ticket
      BY <2>1, <3>1 DEF SameRequest
    <3>3. d.word # Nothing
      BY <1>2, <3>2, NothingSaid DEF LateApart, Answers
    <3> QED BY <1>2, <3>1, <3>2, <3>3 DEF LateApart
  <2>2. ASSUME NEW l \in runtime.late
        PROVE  l.ticket \notin taken' /\ l.ticket # runtime'.switch.ticket
    <3>1. l.ticket # 0
      BY <1>2, TicketsPositive
    <3> QED BY <1>1, <1>2, <1>4, <3>1 DEF LateApart, NoSwitch, switch
  <2> QED BY <1>2, <1>4, <2>1, <2>2 DEF LateApart
<1> QED BY <1>4, <1>7, <1>8, <1>9, <1>10, <1>11, MovesKeep

LEMMA OthersChangeKeeps ==
  ASSUME IInv, NEW key \in Keys, NEW value \in Values(key[1]), OthersChange(key, value)
  PROVE  IInv'
<1>1. /\ UNCHANGED <<desk, taken, calls, reads, view, actions, panel>>
      /\ runtime' = [runtime EXCEPT !.rows[key] = value, !.version = @ + 1]
      /\ runtime.version < desk.others
  BY DEF OthersChange
<1>2. TypeOK /\ RuntimeOK /\ IsRuntime(runtime) /\ desk \in Desks
  BY DEF IInv, TypeOK, RuntimeOK
<1>3. Changed(runtime, key, value, runtime.switch)
  BY <1>1, <1>2 DEF IsRuntime, Changed
<1>4. runtime.switch \in Switches \cup {NoSwitch} /\ runtime.version < desk.versions
  BY <1>1, <1>2, WritesAssumption DEF IsRuntime, DeskTypes
<1>5. /\ RuntimeOK' /\ runtime'.version = runtime.version + 1 /\ runtime'.switch = runtime.switch
      /\ runtime'.late = runtime.late /\ runtime'.missed = runtime.missed
      /\ runtime.version < runtime'.version /\ runtime.version \in Nat
  BY <1>1, <1>2, <1>3, <1>4, RowsChanged
<1> QED BY <1>1, <1>5, RuntimeAlone

\* A pause put, or lifted: the settings are as they were.
Paused(pause, pauses) == runtime' = [runtime EXCEPT !.pause = pause, !.pauses = pauses]

LEMMA SettingsApart ==
  ASSUME IInv, UNCHANGED <<desk, taken, calls, reads, view, actions, panel>>,
         NEW pause \in Pauses, NEW pauses \in Nat, Paused(pause, pauses)
  PROVE  IInv'
<1>1. RuntimeOK
  BY DEF IInv, TypeOK
<1>2. /\ runtime'.version = runtime.version /\ runtime'.rows = runtime.rows
      /\ runtime'.switch = runtime.switch /\ runtime'.late = runtime.late
      /\ runtime'.missed = runtime.missed
  BY <1>1 DEF RuntimeOK, IsRuntime, Paused
<1>3. RuntimeOK'
  <2>1. runtime' \in [epoch : 1 .. desk.epochs, version : 1 .. desk.versions, rows : {runtime.rows},
                    pause : Pauses, pauses : Nat, switch : Switches \cup {NoSwitch}, away : Nat,
                    late : {runtime'.late}, missed : SUBSET (1 .. actions.issued)]
    BY <1>1 DEF RuntimeOK, IsRuntime, Paused
  <2>2. /\ (Switches \cup {NoSwitch})' = Switches \cup {NoSwitch} /\ desk' = desk
        /\ Keys' = Keys
    BY DEF Switches, Keys, Owners
  <2> QED BY <1>1, <1>2, <2>1, <2>2 DEF RuntimeOK, IsRuntime, IsRows
<1>4. runtime.version \in Nat
  BY <1>1 DEF RuntimeOK, IsRuntime
<1> QED BY <1>2, <1>3, <1>4, RuntimeAlone

LEMMA OthersPauseKeeps ==
  ASSUME IInv, NEW ours \in BOOLEAN, OthersPause(ours)
  PROVE  IInv'
<1> DEFINE rev == runtime.pauses + 1
           pause == [rev |-> rev, ours |-> ours]
<1>1. RuntimeOK
  BY DEF IInv, TypeOK
<1>2. rev \in Nat /\ pause \in Pauses
  BY <1>1 DEF RuntimeOK, IsRuntime, Pauses
<1>3. Paused(pause, rev)
  BY <1>1 DEF OthersPause, RuntimeOK, IsRuntime, Paused
<1> HIDE DEF rev, pause
<1> QED BY <1>2, <1>3, SettingsApart DEF OthersPause

LEMMA OthersResumeKeeps == IInv /\ OthersResume => IInv'
<1> SUFFICES ASSUME IInv, OthersResume PROVE IInv'
  OBVIOUS
<1>1. RuntimeOK
  BY DEF IInv, TypeOK
<1>2. NoPause \in Pauses /\ runtime.pauses \in Nat
  BY <1>1 DEF RuntimeOK, IsRuntime, NoPause, Pauses
<1>3. Paused(NoPause, runtime.pauses)
  BY <1>1 DEF OthersResume, RuntimeOK, IsRuntime, Paused
<1> QED BY <1>2, <1>3, SettingsApart DEF OthersResume

LEMMA RestartKeeps == IInv /\ Restart => IInv'
<1> SUFFICES ASSUME IInv, Restart PROVE IInv'
  OBVIOUS
<1> DEFINE next == runtime.epoch + 1
<1>1. RuntimeOK /\ TypeOK
  BY DEF IInv, TypeOK
<1>2. next \in 1 .. desk.epochs
  BY <1>1, WritesAssumption DEF RuntimeOK, IsRuntime, Restart, TypeOK, DeskTypes
<1>3. /\ runtime' = [runtime EXCEPT !.epoch = next, !.switch = NoSwitch, !.late = {}]
      /\ UNCHANGED <<desk, taken, calls, reads, view, actions, panel>>
  BY <1>1 DEF Restart
<1> HIDE DEF next
<1>4. /\ runtime'.version = runtime.version /\ runtime'.rows = runtime.rows
      /\ runtime'.switch = NoSwitch /\ runtime'.late = {} /\ runtime'.missed = runtime.missed
  BY <1>1, <1>3 DEF RuntimeOK, IsRuntime
<1>5. RuntimeOK'
  <2>1. runtime' \in [epoch : 1 .. desk.epochs, version : 1 .. desk.versions, rows : {runtime.rows},
                    pause : Pauses, pauses : Nat, switch : Switches \cup {NoSwitch}, away : Nat,
                    late : {runtime'.late}, missed : SUBSET (1 .. actions.issued)]
    BY <1>1, <1>2, <1>3 DEF RuntimeOK, IsRuntime
  <2>2. /\ (Switches \cup {NoSwitch})' = Switches \cup {NoSwitch} /\ desk' = desk
        /\ Keys' = Keys
    BY <1>3 DEF Switches, Keys, Owners
  <2> QED BY <1>1, <1>3, <1>4, <2>1, <2>2 DEF RuntimeOK, IsRuntime, IsRows
<1>6. runtime.version \in Nat /\ runtime'.switch.ticket = 0
  BY <1>1, <1>4 DEF RuntimeOK, IsRuntime, NoSwitch
<1> QED BY <1>3, <1>4, <1>5, <1>6, RuntimeAlone

\* A request given up comes to the Runtime after all.
LEMMA ComeLateKeeps ==
  ASSUME IInv, NEW call \in runtime.late, ComeLate(call)
  PROVE  IInv'
<1> DEFINE rest == runtime.late \ {call}
           rt == [runtime EXCEPT !.late = rest]
<1>1. /\ TypeOK /\ CallsOK /\ TicketsApart /\ SwitchOfItsCall /\ AnswersRight /\ LateApart
      /\ IsRuntime(runtime) /\ IsCall(call)
  BY DEF IInv, TypeOK, RuntimeOK, LateOK
<1>2. /\ IsRuntime(rt) /\ rt.version = runtime.version /\ rt.rows = runtime.rows
      /\ rt.switch = runtime.switch /\ rt.late = rest /\ rt.missed = runtime.missed
  BY <1>1 DEF IsRuntime
<1>3. /\ UNCHANGED <<desk, calls, reads, view, actions, panel>>
      /\ \/ ChangeTaken(call, rt)
         \/ (PauseTaken(call, rt) \/ ResumeTaken(call, rt) \/ SwitchBegun(call, rt)) /\ UNCHANGED taken
  BY DEF ComeLate
<1> HIDE DEF rt
<1>4. runtime.version \in Nat /\ runtime.version = rt.version
  BY <1>1, <1>2 DEF IsRuntime
<1>5. /\ rest \subseteq runtime.late /\ \A l \in rest : l.ticket # call.ticket
      /\ \A c \in calls : c.ticket = call.ticket => c.word = "Unconfirmed" /\ SameRequest(c, call)
  BY <1>1 DEF LateApart
<1> HIDE DEF rest
<1>6. CallsOK' /\ TicketsApart'
  BY <1>1, <1>3 DEF CallsOK, IsCall, CallTypes, TicketsApart, Keys, Owners
<1>7. ASSUME NEW c \in calls
      PROVE  /\ c.based \in Nat /\ c.now \in Nat
  BY <1>1 DEF CallsOK, IsCall, CallTypes
<1>8. CASE ChangeTaken(call, rt)
  <2>1. /\ RuntimeOK' /\ runtime'.version = runtime.version + 1 /\ runtime'.switch = runtime.switch
        /\ runtime'.late = rest /\ runtime'.missed = runtime.missed
        /\ runtime.version < runtime'.version
        /\ call.based \in Nat /\ (desk.versioned => call.based = runtime.version)
    BY <1>1, <1>2, <1>3, <1>8, ChangeIs
  <2>2. taken' = taken \cup {call.ticket} /\ call.what # "Backends"
    BY <1>8 DEF ChangeTaken
  <2>3. SwitchOfItsCall'
    BY <1>1, <1>3, <1>4, <1>7, <2>1 DEF SwitchOfItsCall
  <2>4. AnswersRight'
    <3> SUFFICES ASSUME NEW c \in calls
                 PROVE  /\ c.word \in Untaken \cup {Nothing} => c.ticket \notin taken'
                        /\ c.word = "Unconfirmed" /\ c.ticket \in taken' /\ desk.versioned =>
                               c.based < runtime'.version
                        /\ c.word = "Applied" =>
                               c.what \in Fields /\ (desk.versioned => c.now <= runtime'.version)
      BY <1>3 DEF AnswersRight
    <3>1. /\ c.word \in Untaken \cup {Nothing} => c.ticket \notin taken
          /\ c.word = "Unconfirmed" /\ c.ticket \in taken /\ desk.versioned =>
                  c.based < runtime.version
          /\ c.word = "Applied" =>
                  c.what \in Fields /\ (desk.versioned => c.now <= runtime.version)
      BY <1>1 DEF AnswersRight
    <3>2. c.ticket = call.ticket =>
              c.word = "Unconfirmed" /\ (desk.versioned => c.based = runtime.version)
      BY <1>5, <2>1 DEF SameRequest
    <3>3. "Unconfirmed" \notin Untaken \cup {Nothing}
      BY NothingSaid DEF Untaken, Answers
    <3> QED BY <1>4, <1>7, <2>1, <2>2, <3>1, <3>2, <3>3
  <2>5. LateApart'
    BY <1>1, <1>3, <1>5, <2>1, <2>2 DEF LateApart
  <2>6. Moves
    BY <1>3, <1>4, <1>5, <2>1, <2>2 DEF Moves, SameRequest
  <2> QED BY <1>6, <2>1, <2>3, <2>4, <2>5, <2>6, MovesKeep
<1>9. CASE PauseTaken(call, rt) /\ UNCHANGED taken
  <2>1. /\ RuntimeOK' /\ runtime'.switch = runtime.switch /\ runtime'.version = runtime.version
        /\ runtime'.rows = runtime.rows /\ runtime'.late = rest
        /\ runtime'.missed = runtime.missed
    BY <1>2, <1>3, <1>9, PauseIs
  <2>2. IsRuntime(runtime) /\ runtime.version <= runtime'.version
    BY <1>1, <1>4, <2>1
  <2> QED BY <1>3, <1>5, <1>9, <2>1, <2>2, SameSwitch
<1>10. CASE ResumeTaken(call, rt) /\ UNCHANGED taken
  <2>1. /\ RuntimeOK' /\ runtime'.switch = runtime.switch /\ runtime'.version = runtime.version
        /\ runtime'.rows = runtime.rows /\ runtime'.late = rest
        /\ runtime'.missed = runtime.missed
    BY <1>2, <1>3, <1>10, ResumeIs
  <2>2. IsRuntime(runtime) /\ runtime.version <= runtime'.version
    BY <1>1, <1>4, <2>1
  <2> QED BY <1>3, <1>5, <1>10, <2>1, <2>2, SameSwitch
<1>11. CASE SwitchBegun(call, rt) /\ UNCHANGED taken
  <2>1. /\ RuntimeOK' /\ runtime'.version = runtime.version /\ runtime'.rows = runtime.rows
        /\ runtime'.late = rest /\ runtime'.missed = runtime.missed
        /\ runtime'.switch.ticket = call.ticket /\ runtime'.switch.of = call.of
        /\ runtime'.switch.late
    BY <1>1, <1>2, <1>3, <1>11, SwitchIs
  <2>2. call.what = "Backends" /\ ~MovedOn(call)
    BY <1>11 DEF SwitchBegun
  <2>3. SwitchOfItsCall'
    <3> SUFFICES ASSUME NEW c \in calls, c.ticket = call.ticket
                 PROVE  /\ c.what = "Backends" /\ c.of = call.of /\ c.word \notin Untaken
                        /\ desk.versioned => c.based <= runtime.version
      BY <1>3, <2>1 DEF SwitchOfItsCall
    <3>1. c.word = "Unconfirmed" /\ c.what = call.what /\ c.of = call.of /\ c.based = call.based
      BY <1>5 DEF SameRequest
    <3> QED BY <1>4, <2>2, <3>1 DEF MovedOn, Untaken
  <2>4. AnswersRight'
    BY <1>1, <1>3, <1>11, <2>1 DEF AnswersRight
  <2>5. LateApart'
    BY <1>1, <1>3, <1>5, <1>11, <2>1 DEF LateApart
  <2>6. Moves
    <3>1. \E l \in runtime.late : /\ l.ticket = runtime'.switch.ticket /\ l.what = "Backends"
                                  /\ l.of = runtime'.switch.of /\ runtime'.switch.late
      BY <2>1, <2>2
    <3>2. taken' = taken /\ calls' = calls
      BY <1>3, <1>11
    <3>3. \/ runtime'.switch.ticket = 0
          \/ /\ runtime'.switch.ticket = runtime.switch.ticket
             /\ runtime'.switch.of = runtime.switch.of
             /\ runtime'.switch.at \in {runtime.switch.at, "check"}
             /\ runtime'.switch.late = runtime.switch.late
          \/ \E c \in calls : c.ticket = runtime'.switch.ticket /\ c.what = "Backends"
          \/ \E l \in runtime.late : /\ l.ticket = runtime'.switch.ticket /\ l.what = "Backends"
                                     /\ l.of = runtime'.switch.of /\ runtime'.switch.late
      BY <3>1
    <3>4. \A c \in calls' : \E d \in calls : SameRequest(c, d)
      BY <3>2 DEF SameRequest
    <3>5. /\ taken \subseteq taken' /\ taken' \ taken = {} /\ runtime.version <= runtime'.version
          /\ runtime'.version = runtime.version => runtime'.rows = runtime.rows
          /\ \A l \in runtime'.late : l \in runtime.late \/ l \in calls
          /\ runtime'.missed = runtime.missed
      BY <1>4, <1>5, <2>1, <3>2
    <3> QED BY <1>3, <3>2, <3>3, <3>4, <3>5 DEF Moves
  <2> QED BY <1>6, <2>1, <2>3, <2>4, <2>5, <2>6, MovesKeep
<1> QED BY <1>3, <1>8, <1>9, <1>10, <1>11

-----------------------------------------------------------------------------
(* What the methods of the Actions make of the record.                     *)

\* A request begun: its line speaks of it, and the flow, if it changes a setting, is its own.
LEMMA BegunIs ==
  ASSUME desk \in Desks, NEW a, IsActions(a), NEW call, a.issued < desk.presses,
         call.ticket = a.issued + 1, call.what \in desk.fields \cup Scheduling,
         call.of \in Everyone
  PROVE  LET b == Begun(a, call)
         IN /\ IsActions(b) /\ b.issued = call.ticket /\ b.pending = a.pending
            /\ b.behind = a.behind /\ b.form = a.form
            /\ \A at \in desk.fields :
                   b.said[at] = IF at = call.what
                                THEN [word |-> "Sending", ticket |-> call.ticket, of |-> call.of]
                                ELSE a.said[at]
            /\ b.flow = IF call.what \in Scheduling THEN a.flow ELSE InFlight(call.what)
            /\ b.asked = IF call.what \in Scheduling THEN a.asked ELSE Nothing
<1> USE DeskFacts
<1>1. /\ a \in [issued : 0 .. desk.presses, out : [Slots -> 0 .. a.issued], confirming : Nat,
              flow : Flows,
              drafts : [{key \in Keys : key[1] \in DraftFields} ->
                           {NoDraft} \cup [text : Texts, applied : BOOLEAN]],
              pending : Pendings(a.issued) \cup {Nothing}, said : {a.said},
              target : Accounts \cup {Nothing}, form : Forms,
              asked : Accounts \cup {Nothing}, behind : BOOLEAN]
      /\ DOMAIN a.said = Lines /\ \A at \in desk.fields : a.said[at] \in Saids(a.issued)
  BY DEF IsActions
<1> DEFINE n == call.ticket
           word == [word |-> "Sending", ticket |-> n, of |-> call.of]
           out == [a.out EXCEPT ![SlotOf(call.what)] = n]
           said == [a.said EXCEPT ![LineOf(call.what)] = word]
           c == [a EXCEPT !.issued = n, !.out = out, !.said = said]
           d == IF call.what \in Scheduling THEN [c EXCEPT !.confirming = 0]
                ELSE [c EXCEPT !.flow = InFlight(call.what), !.asked = Nothing]
<1>2. Begun(a, call) = d
  <2>1. [a EXCEPT !.issued = call.ticket, !.out[SlotOf(call.what)] = call.ticket,
                       !.said[LineOf(call.what)] =
                            [word |-> "Sending", ticket |-> call.ticket, of |-> call.of]] = c
    BY <1>1
  <2> HIDE DEF c
  <2> QED BY <2>1 DEF Begun
<1>3. n \in 0 .. desk.presses /\ n \in Nat /\ a.issued \in Nat /\ a.issued <= n /\ n # 0
  BY <1>1
<1>4. out \in [Slots -> 0 .. n]
  <2>1. /\ a.out \in [Slots -> 0 .. a.issued] /\ n \in 0 .. n
        /\ \A x \in 0 .. a.issued : x \in 0 .. n
    BY <1>1, <1>3
  <2>2. a.out \in [Slots -> 0 .. n]
    BY <2>1
  <2> QED BY <2>1, <2>2, Updated
<1>5. /\ DOMAIN said = Lines
      /\ \A at \in desk.fields : said[at] = IF at = call.what THEN word ELSE a.said[at]
  BY <1>1 DEF LineOf
<1>6. word \in Saids(n)
  BY <1>3 DEF Saids, Words
<1>7. \A at \in desk.fields : said[at] \in Saids(n)
  <2>1. \A s \in Saids(a.issued) : s \in Saids(n)
    BY <1>3 DEF Saids
  <2> HIDE DEF said, word
  <2> QED BY <1>1, <1>5, <1>6, <2>1
<1>8. Pendings(a.issued) \subseteq Pendings(n)
  BY <1>3 DEF Pendings
<1>9. call.what \notin Scheduling => InFlight(call.what) \in Flows
  BY DEF InFlight, Idle, Flows
<1> HIDE DEF n, word, out, said
<1>10. /\ c \in [issued : 0 .. desk.presses, out : [Slots -> 0 .. n], confirming : Nat,
              flow : Flows,
              drafts : [{key \in Keys : key[1] \in DraftFields} ->
                           {NoDraft} \cup [text : Texts, applied : BOOLEAN]],
              pending : Pendings(n) \cup {Nothing}, said : {said},
              target : Accounts \cup {Nothing}, form : Forms,
              asked : Accounts \cup {Nothing}, behind : BOOLEAN]
       /\ c.issued = n /\ c.said = said /\ c.pending = a.pending /\ c.behind = a.behind
       /\ c.form = a.form /\ c.flow = a.flow /\ c.asked = a.asked
  BY <1>1, <1>3, <1>4, <1>8
<1> HIDE DEF c
<1>11. /\ d \in [issued : 0 .. desk.presses, out : [Slots -> 0 .. n], confirming : Nat,
              flow : Flows,
              drafts : [{key \in Keys : key[1] \in DraftFields} ->
                           {NoDraft} \cup [text : Texts, applied : BOOLEAN]],
              pending : Pendings(n) \cup {Nothing}, said : {said},
              target : Accounts \cup {Nothing}, form : Forms,
              asked : Accounts \cup {Nothing}, behind : BOOLEAN]
       /\ d.issued = n /\ d.said = said /\ d.pending = a.pending /\ d.behind = a.behind
       /\ d.form = a.form
       /\ d.flow = IF call.what \in Scheduling THEN a.flow ELSE InFlight(call.what)
       /\ d.asked = IF call.what \in Scheduling THEN a.asked ELSE Nothing
  BY <1>9, <1>10
<1> HIDE DEF d
<1>12. IsActions(d)
  BY <1>5, <1>7, <1>11 DEF IsActions
<1> QED BY <1>2, <1>5, <1>11, <1>12 DEF n, word

LEMMA FormsKept ==
  ASSUME NEW form \in Forms, NEW word
  PROVE  /\ QuietSettled(form, word) \in Forms /\ NoForm \in Forms
         /\ QuietSettled(form, word).owner \in {form.owner, Nothing}
         /\ [form EXCEPT !.adding = FALSE] \in Forms
         /\ [form EXCEPT !.adding = FALSE].owner = form.owner
BY DEF QuietSettled, Forms, NoForm

Drafts == [{key \in Keys : key[1] \in DraftFields} -> {NoDraft} \cup [text : Texts, applied : BOOLEAN]]

LEMMA DraftsKept ==
  ASSUME NEW drafts \in Drafts, NEW call
  PROVE  DraftApplied(drafts, call) \in Drafts
<1> SUFFICES ASSUME NEW key \in DOMAIN drafts
             PROVE  (IF key = <<call.what, call.of>> /\ drafts[key] # NoDraft
                     THEN [drafts[key] EXCEPT !.applied = TRUE] ELSE drafts[key])
                        \in {NoDraft} \cup [text : Texts, applied : BOOLEAN]
  BY DEF DraftApplied, Drafts
<1>1. drafts[key] \in {NoDraft} \cup [text : Texts, applied : BOOLEAN]
  BY DEF Drafts
<1> QED BY <1>1

\* What is awaited after an answer, and what the answer leaves of the rest.
SettledTo(a, b, call, word) ==
    LET why == RereadOf(call, word)
    IN /\ IsActions(b) /\ b.issued = a.issued /\ b.asked = a.asked
       /\ b.form.owner \in {a.form.owner, Nothing}
       /\ call.what \in Scheduling =>
             /\ b.flow = a.flow /\ b.pending = a.pending /\ b.behind = a.behind
             /\ \A at \in desk.fields : b.said[at] = a.said[at]
       /\ call.what \notin Scheduling =>
             /\ b.flow = IF why = Nothing THEN Idle ELSE Rereading(call.what, why, call.based)
             /\ why = "Switch" =>
                   b.pending = [of |-> call.of, based |-> call.based, ticket |-> call.ticket,
                                waited |-> FALSE, over |-> FALSE]
             /\ b.behind = (a.behind \/ word = "Applied")
             /\ \A at \in desk.fields :
                   b.said[at] = IF at = call.what
                                THEN [word |-> IF why = Nothing THEN word ELSE "Rereading",
                                      ticket |-> call.ticket, of |-> call.of]
                                ELSE a.said[at]

LEMMA SettledIs ==
  ASSUME desk \in Desks, NEW a, IsActions(a), NEW call, NEW word \in Answers \cup {"NoThread"},
         call.ticket \in 1 .. a.issued, call.what \in desk.fields \cup Scheduling,
         call.of \in Everyone, call.based \in Nat, call.what = "Backends" => call.of \in Accounts
  PROVE  SettledTo(a, Settled(a, call, word), call, word)
<1> USE DeskFacts
<1> DEFINE why == RereadOf(call, word)
<1>1. /\ a \in [issued : 0 .. desk.presses, out : [Slots -> 0 .. a.issued], confirming : Nat,
              flow : Flows, drafts : Drafts,
              pending : Pendings(a.issued) \cup {Nothing}, said : {a.said},
              target : Accounts \cup {Nothing}, form : Forms,
              asked : Accounts \cup {Nothing}, behind : BOOLEAN]
      /\ DOMAIN a.said = Lines /\ \A at \in desk.fields : a.said[at] \in Saids(a.issued)
      /\ a.issued \in Nat
  BY DEF IsActions, Drafts
<1>2. CASE call.what \in Scheduling
  <2> DEFINE out == [a.out EXCEPT !["Scheduling"] = 0]
             said == [a.said EXCEPT !["Scheduling"] =
                          [word |-> word, ticket |-> call.ticket, of |-> call.now]]
             d == [a EXCEPT !.out = out, !.said = said]
  <2>1. Settled(a, call, word) = d
    BY <1>1, <1>2 DEF Settled
  <2>2. out \in [Slots -> 0 .. a.issued]
    <3>1. a.out \in [Slots -> 0 .. a.issued] /\ 0 \in 0 .. a.issued
      BY <1>1
    <3> QED BY <3>1, Updated
  <2>3. DOMAIN said = Lines /\ \A at \in desk.fields : said[at] = a.said[at]
    BY <1>1
  <2> HIDE DEF out, said
  <2>4. /\ d \in [issued : 0 .. desk.presses, out : [Slots -> 0 .. a.issued], confirming : Nat,
              flow : Flows, drafts : Drafts,
              pending : Pendings(a.issued) \cup {Nothing}, said : {said},
              target : Accounts \cup {Nothing}, form : Forms,
              asked : Accounts \cup {Nothing}, behind : BOOLEAN]
        /\ d.issued = a.issued /\ d.said = said /\ d.flow = a.flow /\ d.pending = a.pending
        /\ d.behind = a.behind /\ d.form = a.form /\ d.asked = a.asked
    BY <1>1, <2>2
  <2> HIDE DEF d
  <2>5. IsActions(d)
    BY <1>1, <2>3, <2>4 DEF IsActions, Drafts
  <2> QED BY <1>2, <2>1, <2>3, <2>4, <2>5 DEF SettledTo
<1>3. CASE call.what \notin Scheduling
  <2> DEFINE out == [a.out EXCEPT !["Settings"] = 0]
             flow == IF why = Nothing THEN Idle ELSE Rereading(call.what, why, call.based)
             pending == IF why = "Switch"
                        THEN [of |-> call.of, based |-> call.based, ticket |-> call.ticket,
                              waited |-> FALSE, over |-> FALSE]
                        ELSE a.pending
             drafts == IF word = "Applied" THEN DraftApplied(a.drafts, call) ELSE a.drafts
             behind == a.behind \/ word = "Applied"
             form == IF call.what = "Quiet" THEN QuietSettled(a.form, word) ELSE a.form
             saying == [word |-> IF why = Nothing THEN word ELSE "Rereading",
                        ticket |-> call.ticket, of |-> call.of]
             said == [a.said EXCEPT ![call.what] = saying]
             d == [a EXCEPT !.out = out, !.flow = flow, !.pending = pending, !.drafts = drafts,
                            !.behind = behind, !.form = form, !.said = said]
  <2>1. Settled(a, call, word) = d
    BY <1>1, <1>3 DEF Settled, SettingsSettled
  <2>2. out \in [Slots -> 0 .. a.issued]
    <3>1. a.out \in [Slots -> 0 .. a.issued] /\ 0 \in 0 .. a.issued
      BY <1>1
    <3> QED BY <3>1, Updated
  <2>3. why \in Whys \cup {Nothing} /\ (why = "Switch" => call.what = "Backends")
    BY NothingSaid DEF RereadOf, Whys
  <2>4. flow \in Flows
    BY <1>3, <2>3 DEF Flows, Idle, Rereading
  <2>5. pending \in Pendings(a.issued) \cup {Nothing}
    BY <1>1, <2>3 DEF Pendings
  <2>6. drafts \in Drafts
    BY <1>1, DraftsKept
  <2>7. behind \in BOOLEAN
    BY <1>1
  <2>8. form \in Forms /\ form.owner \in {a.form.owner, Nothing}
    BY <1>1, FormsKept
  <2>9. saying \in Saids(a.issued)
    BY <1>1 DEF Saids, Words
  <2>10. /\ DOMAIN said = Lines
         /\ \A at \in desk.fields : said[at] = IF at = call.what THEN saying ELSE a.said[at]
    BY <1>1, <1>3
  <2> HIDE DEF out, flow, pending, drafts, behind, form, saying, said, why
  <2>11. \A at \in desk.fields : said[at] \in Saids(a.issued)
    BY <1>1, <2>9, <2>10
  <2>12. /\ d \in [issued : 0 .. desk.presses, out : [Slots -> 0 .. a.issued], confirming : Nat,
              flow : Flows, drafts : Drafts,
              pending : Pendings(a.issued) \cup {Nothing}, said : {said},
              target : Accounts \cup {Nothing}, form : Forms,
              asked : Accounts \cup {Nothing}, behind : BOOLEAN]
         /\ d.issued = a.issued /\ d.said = said /\ d.flow = flow /\ d.pending = pending
         /\ d.behind = behind /\ d.form = form /\ d.asked = a.asked
    BY <1>1, <2>2, <2>4, <2>5, <2>6, <2>7, <2>8
  <2> HIDE DEF d
  <2>13. IsActions(d)
    BY <1>1, <2>10, <2>11, <2>12 DEF IsActions, Drafts
  <2> QED BY <1>3, <2>1, <2>8, <2>10, <2>12, <2>13 DEF SettledTo, flow, pending, behind, saying, why
<1> QED BY <1>2, <1>3


-----------------------------------------------------------------------------
(* A press that sends nothing, and a request sent.                         *)

\* A line that says nothing of a request.
Silent(said) == said.ticket = 0 /\ said.word \notin Undone

\* What a press may do to the Actions short of sending.
PressOf(a, b) ==
    /\ b.issued = a.issued /\ b.pending = a.pending /\ b.behind = a.behind
    /\ b.flow = a.flow \/ (Open(a.flow) /\ Open(b.flow))
    /\ \A at \in desk.fields : b.said[at] = a.said[at] \/ (Open(a.flow) /\ Silent(b.said[at]))

\* A flow that is open awaits nothing.
LEMMA OpenAwaitsNothing ==
  ASSUME FlowRight, Open(actions.flow)
  PROVE  actions.flow.why = Nothing
BY DEF FlowRight, Open

LEMMA PressKeeps ==
  ASSUME IInv, UNCHANGED <<desk, runtime, taken, calls, reads, view>>,
         panel' \in desk.accounts \cup {Nothing}, IsActions(actions)', FlowRight',
         PressOf(actions, actions')
  PROVE  IInv'
<1> USE DEF PressOf
<1>0. /\ Keys' = Keys /\ Kinds' = Kinds /\ actions'.issued = actions.issued
      /\ Switches' = Switches
  BY DEF Keys, Owners, Kinds, Switches
<1>t. TypeOK /\ desk \in Desks
  BY DEF IInv, TypeOK
<1>1. TypeOK'
  <2>1. RuntimeOK' /\ CallsOK' /\ LateOK' /\ ReadsOK' /\ ViewOK'
    BY <1>0, <1>t DEF TypeOK, RuntimeOK, IsRuntime, CallsOK, LateOK, IsCall, CallTypes, ReadsOK,
                      ViewOK, IsRows
  <2> QED BY <1>0, <1>t, <2>1 DEF TypeOK
<1>2. /\ TicketsApart' /\ SwitchOfItsCall' /\ AnswersRight' /\ LateApart' /\ ReadRight'
      /\ SliceRight' /\ RulesRight'
  <2>1. TicketsApart' /\ SwitchOfItsCall' /\ AnswersRight' /\ LateApart'
    BY DEF IInv, TicketsApart, SwitchOfItsCall, AnswersRight, LateApart
  <2>2. ReadRight' /\ SliceRight' /\ RulesRight'
    BY <1>0 DEF IInv, ReadRight, SliceRight, RulesRight, AsPressed
  <2> QED BY <2>1, <2>2
<1>d. \A ticket : /\ Dead(ticket)' <=> Dead(ticket)
                  /\ Missed(ticket)' <=> Missed(ticket)
                  /\ Coming(ticket)' <=> Coming(ticket)
                  /\ Gone(ticket)' <=> Gone(ticket)
  BY DEF Dead, Gone, Coming, Missed
<1>z. \A call \in calls \cup runtime.late : call.ticket # 0
  BY <1>t, TicketsPositive
<1>3. LinesOwn'
  <2> SUFFICES ASSUME NEW at \in desk.fields
               PROVE  /\ \A call \in calls \cup runtime.late :
                             actions'.said[at].ticket = call.ticket => call.what = at
                      /\ actions'.said[at].ticket # 0 /\ actions'.said[at].ticket = runtime.switch.ticket =>
                             at = "Backends"
    BY DEF LinesOwn
  <2> QED BY <1>z DEF IInv, LinesOwn, Silent
<1>4. LinesRight'
  BY <1>d DEF IInv, LinesRight, Silent
<1>5. CASE ~Open(actions.flow)
  <2>1. actions'.flow = actions.flow /\ actions'.pending = actions.pending
        /\ \A at \in desk.fields : actions'.said[at] = actions.said[at]
    BY <1>5
  <2>2. FlowRight /\ actions.flow \in Flows
    BY <1>t DEF IInv, TypeOK, IsActions
  <2>3. actions.flow.why # Nothing => actions.flow.field \in desk.fields /\ Awaited' = Awaited
    BY <2>1, <2>2 DEF FlowRight, Flows, Awaited
  <2>4. \A based : ReadPast(based)' <=> ReadPast(based)
    BY <1>0 DEF ReadPast
  <2>5. ConflictRight' /\ UnconfirmedRight'
    <3>1. ConflictRight'
      BY <1>d, <2>1, <2>3, NothingSaid DEF IInv, ConflictRight, Whys
    <3> SUFFICES ASSUME actions.flow.why = "Unconfirmed" PROVE UnconfirmedRight'
      BY <2>1, <3>1 DEF UnconfirmedRight
    <3>2. UnconfirmedRight /\ actions.flow.why # Nothing
      BY NothingSaid DEF IInv, Whys
    <3>3. ReadNone' <=> ReadNone
      BY <1>0 DEF ReadNone
    <3> QED BY <1>d, <2>1, <2>3, <2>4, <3>2, <3>3 DEF UnconfirmedRight
  <2>6. SwitchRight'
    <3> SUFFICES ASSUME actions.flow.why = "Switch" PROVE SwitchRight'
      BY <2>1 DEF SwitchRight
    <3>1. SwitchRight /\ actions.flow.why # Nothing
      BY NothingSaid DEF IInv, Whys
    <3>2. SwitchSeenRight' <=> SwitchSeenRight
      BY <1>d, <2>1, <2>4 DEF SwitchSeenRight, SwitchUnderWay, Claiming
    <3> QED BY <1>0, <1>d, <2>1, <2>3, <3>1, <3>2 DEF SwitchRight
  <2> QED BY <1>1, <1>2, <1>3, <1>4, <2>5, <2>6 DEF IInv
<1>6. CASE Open(actions.flow)
  <2>1. actions'.flow.why = Nothing
    BY <1>6 DEF FlowRight, Open
  <2>2. ConflictRight' /\ UnconfirmedRight' /\ SwitchRight'
    BY <2>1, NothingSaid DEF ConflictRight, UnconfirmedRight, SwitchRight, Whys
  <2> QED BY <1>1, <1>2, <1>3, <1>4, <2>2 DEF IInv
<1> QED BY <1>5, <1>6

\* A request made as its press asks: its setting is one of the desk's, and its version the one
\* shown.
Asked(call) ==
    /\ call.what \in desk.fields \cup Scheduling /\ call.ticket = actions.issued + 1
    /\ call \in [ticket : {call.ticket}, what : {call.what}, of : Everyone,
                 value : IF call.what \in Scheduling THEN Nat ELSE Values(call.what),
                 item : SUBSET Times, based : Nat, word : {Nothing}, now : {0}]
    /\ call.what \in Fields =>
           /\ <<call.what, call.of>> \in Keys /\ Open(actions.flow)
           /\ desk.versioned =>
                 /\ call.based <= runtime.version
                 /\ call.based = runtime.version => AsPressed(call, runtime.rows)

\* The Actions a request is sent from: the press has let some lines go, and the form is kept.
SentFrom(a) ==
    /\ IsActions(a) /\ PressOf(actions, a) /\ a.flow = actions.flow
    /\ a.form.owner = actions.form.owner /\ a.asked \in {actions.asked, Nothing}


\* A write's answer leaves nothing of a read begun before it.
LEMMA WroteReads ==
  ASSUME ReadsOK, UNCHANGED desk, reads' = Wrote(reads)
  PROVE  /\ ReadsOK' /\ \A read \in Kinds : reads'[read].found = Nothing
         /\ "status" \in Kinds
<1>1. /\ DOMAIN reads = Kinds /\ "status" \in Kinds
      /\ \A read \in Kinds :
        /\ reads[read] \in [at : {"none", "begun", "read"}, stale : BOOLEAN, found : {reads[read].found}]
        /\ reads[read].at # "read" \/ reads[read].stale => reads[read].found = Nothing
  BY DEF ReadsOK, Kinds
<1>2. /\ DOMAIN reads' = Kinds
      /\ \A read \in Kinds :
           reads'[read] = IF reads[read].at = "none" THEN reads[read]
                          ELSE [reads[read] EXCEPT !.stale = TRUE, !.found = Nothing]
  BY <1>1 DEF Wrote
<1>3. \A read \in Kinds :
        /\ reads'[read] \in [at : {"none", "begun", "read"}, stale : BOOLEAN, found : {reads'[read].found}]
        /\ reads'[read].found = Nothing
  <2> SUFFICES ASSUME NEW read \in Kinds
               PROVE  /\ reads'[read] \in [at : {"none", "begun", "read"}, stale : BOOLEAN,
                                           found : {reads'[read].found}]
                      /\ reads'[read].found = Nothing
    OBVIOUS
  <2>1. CASE reads[read].at = "none"
    BY <1>1, <1>2, <2>1
  <2>2. CASE reads[read].at # "none"
    <3>1. reads'[read] = [reads[read] EXCEPT !.stale = TRUE, !.found = Nothing]
      BY <1>2, <2>2
    <3>2. reads'[read] \in [at : {"none", "begun", "read"}, stale : BOOLEAN, found : {Nothing}]
      BY <1>1, <3>1
    <3> QED BY <3>2
  <2> QED BY <2>1, <2>2
<1>4. Kinds' = Kinds /\ Keys' = Keys
  BY DEF Kinds, Keys, Owners
<1>5. ReadsOK'
  BY <1>1, <1>2, <1>3, <1>4 DEF ReadsOK
<1> QED BY <1>1, <1>3, <1>5

\* A request that has just been begun is nobody's yet.
LEMMA FreshTicket ==
  ASSUME IInv, NEW ticket, ticket = actions.issued + 1
  PROVE  /\ ticket \notin taken /\ Gone(ticket) /\ ~Coming(ticket) /\ ~Missed(ticket)
         /\ runtime.switch.ticket # ticket
         /\ \A at \in desk.fields : actions.said[at].ticket # ticket
         /\ ticket \in Nat \ {0} /\ actions.issued \in Nat
<1>1. TypeOK /\ desk \in Desks
  BY DEF IInv, TypeOK
<1>2. actions.issued \in Nat
  BY <1>1, DeskFacts DEF TypeOK, IsActions
<1>3. ticket \notin taken
  BY <1>1, <1>2 DEF TypeOK
<1>0. ticket \notin 1 .. actions.issued
  BY <1>2
<1>4. Gone(ticket) /\ ~Coming(ticket) /\ ~Missed(ticket)
  <2>1. runtime.missed \subseteq 1 .. actions.issued
    BY <1>1 DEF TypeOK, RuntimeOK, IsRuntime
  <2> QED BY <1>0, <1>1, <2>1, TicketsPositive DEF Gone, Coming, Missed
<1>5. runtime.switch.ticket # ticket
  <2>1. runtime.switch \in Switches \cup {NoSwitch}
    BY <1>1 DEF TypeOK, RuntimeOK, IsRuntime
  <2> QED BY <1>2, <2>1 DEF Switches, NoSwitch
<1>6. \A at \in desk.fields : actions.said[at].ticket # ticket
  <2>1. \A at \in desk.fields : actions.said[at].ticket \in 0 .. actions.issued
    BY <1>1 DEF TypeOK, IsActions, Saids
  <2> QED BY <1>2, <2>1
<1> QED BY <1>2, <1>3, <1>4, <1>5, <1>6

\* What stays when only the window's side moves on and no request with it.
LEMMA TypesStay ==
  ASSUME TypeOK, UNCHANGED <<desk, runtime, taken, view, panel>>, IsActions(actions)',
         actions.issued \in Nat, actions'.issued \in Nat, actions.issued <= actions'.issued,
         CallsOK', ReadsOK'
  PROVE  TypeOK'
<1>1. Keys' = Keys
  BY DEF Keys, Owners
<1>2. RuntimeOK'
  <2>1. \A switch \in Switches : switch \in Switches'
    BY <1>1 DEF Switches
  <2>2. SUBSET (1 .. actions.issued) \subseteq SUBSET (1 .. actions'.issued)
    OBVIOUS
  <2> QED BY <1>1, <2>1, <2>2 DEF TypeOK, RuntimeOK, IsRuntime, IsRows
<1>3. ViewOK'
  BY <1>1 DEF TypeOK, ViewOK, IsRows
<1>4. LateOK'
  BY IsCallStays DEF TypeOK, LateOK
<1> QED BY <1>1, <1>2, <1>3, <1>4 DEF TypeOK

LEMMA SendKeeps ==
  ASSUME IInv, NEW a, NEW call, SentFrom(a), Asked(call), Send(a, call)
  PROVE  IInv'
<1> DEFINE n == call.ticket
           b == Begun(a, call)
<1>1. TypeOK /\ desk \in Desks /\ IsActions(a) /\ a.issued = actions.issued /\ a.issued < desk.presses
  BY DEF IInv, TypeOK, SentFrom, PressOf, Send
<1>2. /\ n \notin taken /\ Gone(n) /\ ~Coming(n) /\ ~Missed(n) /\ runtime.switch.ticket # n
      /\ \A at \in desk.fields : actions.said[at].ticket # n
      /\ n \in Nat \ {0} /\ actions.issued \in Nat /\ n = actions.issued + 1
  BY FreshTicket DEF Asked
<1>3. /\ IsActions(b) /\ b.issued = call.ticket /\ b.pending = a.pending
      /\ b.behind = a.behind /\ b.form = a.form
      /\ \A at \in desk.fields :
             b.said[at] = IF at = call.what
                          THEN [word |-> "Sending", ticket |-> call.ticket, of |-> call.of]
                          ELSE a.said[at]
      /\ b.flow = IF call.what \in Scheduling THEN a.flow ELSE InFlight(call.what)
      /\ b.asked = IF call.what \in Scheduling THEN a.asked ELSE Nothing
  BY <1>1, BegunIs DEF Asked
<1>4. /\ UNCHANGED <<desk, runtime, taken, view, panel>>
      /\ \/ actions' = b /\ calls' = calls \cup {call} /\ reads' = reads
         \/ actions' = Settled(b, call, "NoThread") /\ reads' = Wrote(reads) /\ calls' = calls
  BY DEF Send
<1>5. /\ a.pending = actions.pending /\ a.behind = actions.behind /\ a.flow = actions.flow
      /\ \A at \in desk.fields :
             a.said[at] = actions.said[at] \/ (Open(actions.flow) /\ Silent(a.said[at]))
      /\ a.form.owner = actions.form.owner /\ a.asked \in {actions.asked, Nothing}
  BY DEF SentFrom, PressOf
<1>6. /\ call.what \in desk.fields \cup Scheduling /\ call.of \in Everyone /\ call.based \in Nat
      /\ call.what = "Backends" => call.of \in Accounts
      /\ call.what \in desk.fields => call.what \notin Scheduling /\ Open(actions.flow)
      /\ call.what \in Scheduling => call.what \notin desk.fields
  <2>1. call.what = "Backends" => call.of \in desk.accounts
    BY DEF Asked, Keys, Owners, HostFields, Fields, DraftFields
  <2> QED BY <1>1, <2>1, DeskFacts DEF Asked
<1> HIDE DEF b
<1>7. /\ Keys' = Keys /\ Kinds' = Kinds
  BY <1>4 DEF Keys, Owners, Kinds
\* Sent or refused by the system, the Actions have these in common.
<1>8. /\ IsActions(actions)' /\ actions'.issued = n
      /\ actions'.form.owner \in {a.form.owner, Nothing} /\ actions'.asked \in {a.asked, Nothing}
      /\ call.what \in Scheduling =>
            /\ actions'.flow = actions.flow /\ actions'.pending = actions.pending
            /\ \A at \in desk.fields : actions'.said[at] = a.said[at]
      /\ call.what \in desk.fields =>
            /\ actions'.flow.why = Nothing /\ actions'.flow.at \in {"InFlight", "Idle"}
            /\ actions'.said[call.what].ticket = n
            /\ actions'.said[call.what].word \in Undone => calls' = calls
            /\ \A at \in desk.fields \ {call.what} : actions'.said[at] = a.said[at]
      /\ actions'.behind = actions.behind
  <2>1. CASE actions' = b
    <3>1. IsActions(actions)'
      BY <1>3, <1>4, <1>7, <2>1 DEF IsActions, Flows, Lines
    <3>2. call.what \in Scheduling =>
            /\ b.flow = actions.flow /\ b.pending = actions.pending
            /\ \A at \in desk.fields : b.said[at] = a.said[at]
      BY <1>3, <1>5, <1>6
    <3>3. call.what \in desk.fields =>
            /\ b.flow.why = Nothing /\ b.flow.at = "InFlight"
            /\ b.said[call.what].ticket = n /\ b.said[call.what].word \notin Undone
            /\ \A at \in desk.fields \ {call.what} : b.said[at] = a.said[at]
      BY <1>3, <1>6 DEF InFlight, Idle, Undone
    <3>4. b.behind = actions.behind /\ b.issued = n /\ b.form = a.form /\ b.asked \in {a.asked, Nothing}
      BY <1>3, <1>5
    <3> QED BY <2>1, <3>1, <3>2, <3>3, <3>4
  <2>2. CASE actions' = Settled(b, call, "NoThread") /\ calls' = calls
    <3> DEFINE s == Settled(b, call, "NoThread")
    <3>1. n \in 1 .. b.issued /\ RereadOf(call, "NoThread") = Nothing
      BY <1>2, <1>3 DEF RereadOf
    <3>2. /\ IsActions(s) /\ s.issued = b.issued /\ s.asked = b.asked
          /\ s.form.owner \in {b.form.owner, Nothing}
          /\ call.what \in Scheduling =>
                /\ s.flow = b.flow /\ s.pending = b.pending /\ s.behind = b.behind
                /\ \A at \in desk.fields : s.said[at] = b.said[at]
          /\ call.what \notin Scheduling =>
                /\ s.flow = Idle
                /\ s.behind = (b.behind \/ "NoThread" = "Applied")
                /\ \A at \in desk.fields :
                      s.said[at] = IF at = call.what
                                   THEN [word |-> "NoThread",
                                         ticket |-> call.ticket, of |-> call.of]
                                   ELSE b.said[at]
      <4>1. SettledTo(b, s, call, "NoThread")
        <5>1. "NoThread" \in Answers \cup {"NoThread"}
          OBVIOUS
        <5>2. /\ desk \in Desks /\ IsActions(b) /\ call.ticket \in 1 .. b.issued
              /\ call.what \in desk.fields \cup Scheduling /\ call.of \in Everyone
              /\ call.based \in Nat /\ (call.what = "Backends" => call.of \in Accounts)
          BY <1>1, <1>3, <1>6, <3>1
        <5> QED BY <5>1, <5>2, SettledIs
      <4> HIDE DEF s
      <4> QED BY <3>1, <4>1 DEF SettledTo
    <3> HIDE DEF s
    <3>3. s.behind = actions.behind
      <4>1. actions.behind \in BOOLEAN
        BY <1>1 DEF TypeOK, IsActions
      <4>2. b.behind = actions.behind
        BY <1>3, <1>5
      <4>3. CASE call.what \in Scheduling
        BY <3>2, <4>2, <4>3
      <4>4. CASE call.what \notin Scheduling
        <5>1. s.behind = (b.behind \/ "NoThread" = "Applied")
          BY <3>2, <4>4
        <5> QED BY <5>1, <4>1, <4>2
      <4> QED BY <4>3, <4>4
    <3>4. actions' = s
      BY <2>2 DEF s
    <3>5. IsActions(actions)'
      BY <1>4, <1>7, <3>2, <3>4 DEF IsActions, Flows, Lines
    <3> QED BY <1>3, <1>5, <1>6, <2>2, <3>2, <3>3, <3>4, <3>5 DEF Idle
  <2> QED BY <1>4, <2>1, <2>2
<1>9. /\ CallsOK' /\ TicketsApart'
      /\ \A c \in calls' : c \in calls \/ c = call
  <2>1. \A c \in calls' : c \in calls \/ c = call
    BY <1>4
  <2>2. \A c \in calls : c.ticket # n
    BY <1>2 DEF Gone
  <2>3. TicketsApart'
    BY <2>1, <2>2 DEF IInv, TicketsApart
  <2>4. ASSUME NEW c \in calls'
        PROVE  /\ c.what \in desk.fields \cup Scheduling /\ c \in CallTypes(c.what)'
               /\ c.what \in Fields => <<c.what, c.of>> \in Keys
    <3>1. CASE c \in calls
      <4>1. /\ c.what \in desk.fields \cup Scheduling /\ c \in CallTypes(c.what)
            /\ c.what \in Fields => <<c.what, c.of>> \in Keys
        BY <1>1, <3>1 DEF TypeOK, CallsOK, IsCall
      <4>2. c \in CallTypes(c.what)'
        BY <1>2, <1>8, <4>1 DEF CallTypes
      <4> QED BY <4>1, <4>2
    <3>2. CASE c = call
      <4>1. c \in CallTypes(c.what)'
        BY <1>2, <1>8, <3>2 DEF CallTypes, Asked
      <4> QED BY <3>2, <4>1 DEF Asked
    <3> QED BY <2>1, <3>1, <3>2
  <2>5. CallsOK'
    BY <1>4, <1>7, <2>4 DEF CallsOK, IsCall
  <2> QED BY <2>1, <2>3, <2>5
<1>10. /\ ReadsOK' /\ reads'["status"].found \in {reads["status"].found, Nothing}
       /\ "config" \in Kinds => reads'["config"].found \in {reads["config"].found, Nothing}
  <2>1. CASE reads' = reads
    BY <1>1, <1>7, <2>1 DEF TypeOK, ReadsOK, StatusFound, IsRows
  <2>2. CASE reads' = Wrote(reads)
    BY <1>1, <1>4, <2>2, WroteReads DEF TypeOK
  <2> QED BY <1>4, <2>1, <2>2
<1>11. TypeOK'
  BY <1>1, <1>2, <1>4, <1>8, <1>9, <1>10, TypesStay
<1>12. call.word = Nothing
  BY DEF Asked
<1>13. SwitchOfItsCall'
  BY <1>2, <1>4, <1>9 DEF IInv, SwitchOfItsCall
<1>14. AnswersRight'
  BY <1>2, <1>4, <1>9, <1>12, NothingSaid DEF IInv, AnswersRight, Answers
<1>15. /\ \A ticket : Gone(ticket) /\ ticket # n => Gone(ticket)'
       /\ \A ticket : Coming(ticket)' <=> Coming(ticket)
       /\ \A ticket : Missed(ticket)' <=> Missed(ticket)
       /\ \A ticket : Dead(ticket) /\ ticket # n => Dead(ticket)'
  BY <1>4, <1>9 DEF Dead, Gone, Coming, Missed
<1>16. Dead(n) /\ (calls' = calls => Dead(n)')
  BY <1>2, <1>4 DEF Dead, Gone, Coming
<1>25. LateApart'
  <2>1. LateApart /\ \A l \in runtime.late : l.ticket # n
    BY <1>2 DEF IInv, Coming
  <2> QED BY <1>4, <1>9, <2>1 DEF LateApart
<1>17. LinesOwn'
  <2> SUFFICES ASSUME NEW at \in desk.fields
               PROVE  /\ \A c \in calls' : actions'.said[at].ticket = c.ticket => c.what = at
                      /\ \A l \in runtime.late : actions'.said[at].ticket = l.ticket => l.what = at
                      /\ actions'.said[at].ticket # 0 /\ actions'.said[at].ticket = runtime.switch.ticket =>
                             at = "Backends"
    BY <1>4 DEF LinesOwn
  <2>0. /\ \A c \in calls : c.ticket # n
        /\ \A l \in runtime.late : l.ticket # n /\ l.ticket # 0
    BY <1>1, <1>2, TicketsPositive DEF Gone, Coming
  <2>1. CASE at = call.what
    BY <1>2, <1>8, <1>9, <2>0, <2>1
  <2>2. CASE at # call.what
    <3>1. actions'.said[at] = a.said[at]
      BY <1>6, <1>8, <2>2
    <3>2. \A c \in calls' : c.ticket # 0
      <4>1. ASSUME NEW c \in calls' PROVE c.ticket # 0
        <5>1. c \in CallTypes(c.what)'
          BY <1>9 DEF CallsOK, IsCall
        <5> QED BY <1>2, <1>8, <5>1 DEF CallTypes
      <4> QED BY <4>1
    <3>3. CASE a.said[at] = actions.said[at]
      BY <1>2, <1>9, <2>0, <3>1, <3>3 DEF IInv, LinesOwn
    <3>4. CASE Silent(a.said[at])
      BY <2>0, <3>1, <3>2, <3>4 DEF Silent
    <3> QED BY <1>5, <3>3, <3>4
  <2> QED BY <2>1, <2>2
<1>18. LinesRight'
  <2> SUFFICES ASSUME NEW at \in desk.fields, actions'.said[at].word \in Undone
               PROVE  \/ Dead(actions.said[at].ticket)'
                      \/ (actions'.said[at].word = "NotApplied" /\ Missed(actions.said[at].ticket)')
    BY <1>4 DEF LinesRight
  <2>1. CASE at = call.what
    BY <1>8, <1>16, <2>1
  <2>2. CASE at # call.what
    <3>1. actions'.said[at] = a.said[at]
      BY <1>6, <1>8, <2>2
    <3>2. a.said[at] = actions.said[at]
      BY <1>5, <2>2, <3>1 DEF Silent
    <3>3. /\ \/ Dead(actions.said[at].ticket)
             \/ (actions.said[at].word = "NotApplied" /\ Missed(actions.said[at].ticket))
          /\ actions.said[at].ticket # n
      BY <1>2, <3>1, <3>2 DEF IInv, LinesRight
    <3> QED BY <1>15, <3>1, <3>2, <3>3
  <2> QED BY <2>1, <2>2
<1>19. ReadRight'
  BY <1>4, <1>7, <1>10 DEF IInv, ReadRight
<1>20. SliceRight'
  BY <1>4, <1>8 DEF IInv, SliceRight
<1>21. RulesRight'
  <2> SUFFICES ASSUME NEW c \in calls' \cup runtime.late, c.what \in Fields, desk.versioned
               PROVE  /\ c.based <= runtime.version
                      /\ c.based = runtime.version => AsPressed(c, runtime.rows)
    BY <1>4 DEF RulesRight, AsPressed
  <2> QED BY <1>9 DEF IInv, RulesRight, Asked
<1>22. FlowRight'
  <2>1. FlowRight
    BY DEF IInv
  <2>2. actions'.form.owner # Nothing \/ actions'.asked # Nothing => "Quiet" \in desk.fields
    BY <1>5, <1>8, <2>1 DEF FlowRight
  <2>3. CASE call.what \in Scheduling
    BY <1>4, <1>8, <2>1, <2>2, <2>3 DEF FlowRight
  <2>4. CASE call.what \in desk.fields
    BY <1>4, <1>8, <2>2, <2>4 DEF FlowRight
  <2> QED BY <1>6, <2>3, <2>4
<1>23. CASE call.what \in desk.fields
  <2>1. actions'.flow.why = Nothing
    BY <1>8, <1>23
  <2>2. ConflictRight' /\ UnconfirmedRight' /\ SwitchRight'
    BY <2>1, NothingSaid DEF ConflictRight, UnconfirmedRight, SwitchRight, Whys
  <2> QED BY <1>9, <1>11, <1>13, <1>14, <1>25, <1>17, <1>18, <1>19, <1>20, <1>21, <1>22, <2>2 DEF IInv
<1>24. CASE call.what \in Scheduling
  <2>1. actions'.flow = actions.flow /\ actions'.pending = actions.pending
    BY <1>8, <1>24
  <2>2. actions.flow.why # Nothing =>
            /\ actions.flow.field \in desk.fields /\ Awaited' = Awaited /\ Awaited # n
            /\ Gone(Awaited) => Gone(Awaited)'
            /\ (Coming(Awaited)' <=> Coming(Awaited)) /\ (Missed(Awaited)' <=> Missed(Awaited))
    <3>1. FlowRight /\ actions.flow \in Flows
      BY <1>1 DEF IInv, TypeOK, IsActions
    <3> SUFFICES ASSUME actions.flow.why # Nothing
                 PROVE  /\ actions.flow.field \in desk.fields /\ Awaited' = Awaited /\ Awaited # n
                        /\ Gone(Awaited) => Gone(Awaited)'
                        /\ (Coming(Awaited)' <=> Coming(Awaited))
                        /\ (Missed(Awaited)' <=> Missed(Awaited))
      OBVIOUS
    <3>2. actions.flow.field \in desk.fields /\ ~Open(actions.flow)
      BY <3>1 DEF FlowRight, Flows, Open
    <3>3. actions'.said[actions.flow.field] = actions.said[actions.flow.field]
      BY <1>5, <1>8, <1>24, <3>2
    <3>4. Awaited' = Awaited /\ Awaited # n
      BY <1>2, <2>1, <3>2, <3>3 DEF Awaited
    <3>5. /\ Gone(Awaited) => Gone(Awaited)'
          /\ (Coming(Awaited)' <=> Coming(Awaited)) /\ (Missed(Awaited)' <=> Missed(Awaited))
      BY <1>4, <1>9, <3>4 DEF Gone, Coming, Missed
    <3> QED BY <3>2, <3>4, <3>5
  <2>3. \A based : ReadPast(based) => ReadPast(based)'
    BY <1>7, <1>10 DEF ReadPast
  <2>7. ReadNone => ReadNone'
    BY <1>7, <1>10 DEF ReadNone
  <2>4. ConflictRight'
    BY <1>15, <2>1, <2>2, NothingSaid DEF IInv, ConflictRight, Whys
  <2>5. UnconfirmedRight'
    <3> SUFFICES ASSUME actions.flow.why = "Unconfirmed" PROVE UnconfirmedRight'
      BY <2>1 DEF UnconfirmedRight
    <3>1. UnconfirmedRight /\ actions.flow.why # Nothing
      BY NothingSaid DEF IInv, Whys
    <3> QED BY <1>4, <2>1, <2>2, <2>3, <2>7, <3>1 DEF UnconfirmedRight
  <2>6. SwitchRight'
    <3> SUFFICES ASSUME actions.flow.why = "Switch" PROVE SwitchRight'
      BY <2>1 DEF SwitchRight
    <3>1. SwitchRight /\ actions.flow.why # Nothing
      BY NothingSaid DEF IInv, Whys
    <3>2. actions'.pending \in Pendings(actions'.issued)
      BY <1>2, <1>8, <2>1, <3>1 DEF SwitchRight, Pendings
    <3>3. /\ Gone(actions.pending.ticket)' /\ actions.flow.field = "Backends"
          /\ Awaited = actions.pending.ticket
      BY <2>1, <2>2, <3>1 DEF SwitchRight
    <3>4. ASSUME ~Missed(actions.pending.ticket) PROVE SwitchSeenRight'
      <4>1. SwitchSeenRight
        BY <3>1, <3>4 DEF SwitchRight
      <4>2. actions.pending.over =>
                (ReadPast(actions.pending.based) => ReadPast(actions.pending.based)')
        BY <2>1, <2>3
      <4>3. Claiming' <=> Claiming
        BY <1>4 DEF Claiming
      <4>4. Coming(actions.pending.ticket)' <=> Coming(actions.pending.ticket)
        BY <1>15, <2>1
      <4> QED BY <1>4, <1>10, <2>1, <4>1, <4>2, <4>3, <4>4 DEF SwitchSeenRight, SwitchUnderWay
    <3>5. /\ desk.versioned => actions.pending.based <= runtime.version
          /\ \A l \in runtime.late : l.ticket = actions.pending.ticket =>
                 l.of = actions.pending.of
      BY <3>1 DEF SwitchRight
    <3>6. Missed(actions.pending.ticket)' <=> Missed(actions.pending.ticket)
      BY <1>15, <2>1
    <3>7. actions'.flow.field = "Backends" /\ Awaited' = actions'.pending.ticket
      BY <2>1, <2>2, <3>1, <3>3
    <3>8. /\ desk'.versioned => actions'.pending.based <= runtime'.version
          /\ \A l \in runtime'.late : l.ticket = actions'.pending.ticket =>
                 l.of = actions'.pending.of
          /\ Gone(actions.pending.ticket)'
      BY <1>4, <2>1, <3>3, <3>5
    <3> HIDE <1>4
    <3> QED BY <3>2, <3>4, <3>6, <3>7, <3>8 DEF SwitchRight
  <2> QED BY <1>9, <1>11, <1>13, <1>14, <1>25, <1>17, <1>18, <1>19, <1>20, <1>21, <1>22, <2>4, <2>5, <2>6 DEF IInv
<1> QED BY <1>6, <1>23, <1>24


-----------------------------------------------------------------------------
(* The person's presses.                                                   *)

LEMMA SchedulingAsked ==
  ASSUME IInv, NEW what \in Scheduling, NEW value \in Nat
  PROVE  Asked(Call(what, Nothing, value, {}))
<1>1. desk \in Desks
  BY DEF IInv, TypeOK
<1>2. what \notin Fields
  BY <1>1, DeskFacts
<1> QED BY <1>2 DEF Asked, Call, Everyone

LEMMA SettingAsked ==
  ASSUME IInv, NEW what \in desk.fields, NEW of, NEW value \in Values(what), NEW item \in SUBSET Times,
         <<what, of>> \in Keys, Open(actions.flow), view.slice # Nothing,
         desk.versioned /\ view.slice.version = runtime.version =>
             AsPressed([what |-> what, of |-> of, value |-> value, item |-> item], runtime.rows)
  PROVE  Asked(Call(what, of, value, item))
<1>1. desk \in Desks /\ ViewOK /\ SliceRight
  BY DEF IInv, TypeOK
<1>2. what \in Fields /\ what \notin Scheduling
  BY <1>1, DeskFacts
<1>3. view.slice.version \in Nat
  BY <1>1 DEF ViewOK
<1>4. of \in Everyone
  BY <1>1, DeskFacts DEF Keys, Owners, Everyone
<1> DEFINE call == Call(what, of, value, item)
<1>5. /\ call.ticket = actions.issued + 1 /\ call.what = what /\ call.of = of /\ call.value = value
      /\ call.item = item /\ call.based = view.slice.version
      /\ call \in [ticket : {call.ticket}, what : {call.what}, of : Everyone,
                 value : IF call.what \in Scheduling THEN Nat ELSE Values(call.what),
                 item : SUBSET Times, based : Nat, word : {Nothing}, now : {0}]
  BY <1>2, <1>3, <1>4 DEF Call
<1> HIDE DEF call
<1>6. desk.versioned =>
          /\ call.based <= runtime.version
          /\ call.based = runtime.version => AsPressed(call, runtime.rows)
  BY <1>1, <1>5 DEF SliceRight, AsPressed
<1>7. Asked(call)
  BY <1>5, <1>6 DEF Asked
<1> QED BY <1>7 DEF call

\* A change that is no rule's has nothing to be held against.
LEMMA NoRule ==
  ASSUME NEW call, NEW rows, call.what \notin {"Quiet", "Start"}
  PROVE  AsPressed(call, rows)
BY DEF AsPressed

LEMMA SentAsIs ==
  ASSUME IInv
  PROVE  SentFrom(actions)
BY DEF IInv, TypeOK, SentFrom, PressOf

LEMMA SpeakOfIs ==
  ASSUME desk \in Desks, NEW a, IsActions(a), NEW account \in Accounts
  PROVE  LET b == SpeakOf(a, account)
         IN /\ IsActions(b) /\ b.issued = a.issued /\ b.flow = a.flow /\ b.pending = a.pending
            /\ b.behind = a.behind /\ b.form = a.form /\ b.asked = a.asked /\ b.target = account
            /\ \A at \in desk.fields : b.said[at] \in {a.said[at], NoSaid}
<1> USE DeskFacts
<1>1. /\ a \in [issued : 0 .. desk.presses, out : [Slots -> 0 .. a.issued], confirming : Nat,
              flow : Flows, drafts : Drafts,
              pending : Pendings(a.issued) \cup {Nothing}, said : {a.said},
              target : Accounts \cup {Nothing}, form : Forms,
              asked : Accounts \cup {Nothing}, behind : BOOLEAN]
      /\ DOMAIN a.said = Lines /\ \A at \in desk.fields : a.said[at] \in Saids(a.issued)
      /\ a.issued \in Nat
  BY DEF IsActions, Drafts
<1>2. CASE a.target = account
  BY <1>2 DEF SpeakOf
<1>3. CASE a.target # account
  <2> DEFINE said == [at \in Lines |-> IF at \in RuleFields THEN NoSaid ELSE a.said[at]]
             d == [a EXCEPT !.said = said, !.target = account]
  <2>1. SpeakOf(a, account) = d
    BY <1>1, <1>3 DEF SpeakOf
  <2>2. /\ DOMAIN said = Lines /\ \A at \in desk.fields : said[at] \in {a.said[at], NoSaid}
    OBVIOUS
  <2>3. NoSaid \in Saids(a.issued)
    BY <1>1 DEF NoSaid, Saids, Everyone
  <2> HIDE DEF said
  <2>4. \A at \in desk.fields : said[at] \in Saids(a.issued)
    BY <1>1, <2>2, <2>3
  <2>5. /\ d \in [issued : 0 .. desk.presses, out : [Slots -> 0 .. a.issued], confirming : Nat,
              flow : Flows, drafts : Drafts,
              pending : Pendings(a.issued) \cup {Nothing}, said : {said},
              target : Accounts \cup {Nothing}, form : Forms,
              asked : Accounts \cup {Nothing}, behind : BOOLEAN]
        /\ d.issued = a.issued /\ d.flow = a.flow /\ d.pending = a.pending /\ d.said = said
        /\ d.behind = a.behind /\ d.form = a.form /\ d.asked = a.asked /\ d.target = account
    BY <1>1
  <2> HIDE DEF d
  <2>6. IsActions(d)
    BY <2>2, <2>4, <2>5 DEF IsActions, Drafts
  <2> QED BY <2>1, <2>2, <2>5, <2>6
<1> QED BY <1>2, <1>3

\* The Actions with another question, form, flow, draft, or pause to confirm.
Kept(a, b) ==
    /\ IsActions(b) /\ b.issued = a.issued /\ b.pending = a.pending /\ b.behind = a.behind
    /\ b.said = a.said

LEMMA PlainFields ==
  ASSUME NEW a, IsActions(a)
  PROVE  /\ \A asked \in Accounts \cup {Nothing} :
               LET b == [a EXCEPT !.asked = asked]
               IN Kept(a, b) /\ b.asked = asked /\ b.form = a.form /\ b.flow = a.flow
         /\ \A form \in Forms :
               LET b == [a EXCEPT !.form = form]
               IN Kept(a, b) /\ b.asked = a.asked /\ b.form = form /\ b.flow = a.flow
         /\ \A confirming \in Nat :
               LET b == [a EXCEPT !.confirming = confirming]
               IN Kept(a, b) /\ b.asked = a.asked /\ b.form = a.form /\ b.flow = a.flow
         /\ \A flow \in Flows :
               LET b == [a EXCEPT !.flow = flow]
               IN Kept(a, b) /\ b.asked = a.asked /\ b.form = a.form /\ b.flow = flow
         /\ \A drafts \in Drafts :
               LET b == [a EXCEPT !.drafts = drafts]
               IN Kept(a, b) /\ b.asked = a.asked /\ b.form = a.form /\ b.flow = a.flow
<1>1. /\ a \in [issued : 0 .. desk.presses, out : [Slots -> 0 .. a.issued], confirming : Nat,
              flow : Flows, drafts : Drafts,
              pending : Pendings(a.issued) \cup {Nothing}, said : {a.said},
              target : Accounts \cup {Nothing}, form : Forms,
              asked : Accounts \cup {Nothing}, behind : BOOLEAN]
      /\ DOMAIN a.said = Lines /\ \A at \in desk.fields : a.said[at] \in Saids(a.issued)
  BY DEF IsActions, Drafts
<1>2. ASSUME NEW b, b \in [issued : 0 .. desk.presses, out : [Slots -> 0 .. a.issued], confirming : Nat,
              flow : Flows, drafts : Drafts,
              pending : Pendings(a.issued) \cup {Nothing}, said : {a.said},
              target : Accounts \cup {Nothing}, form : Forms,
              asked : Accounts \cup {Nothing}, behind : BOOLEAN],
             b.issued = a.issued, b.pending = a.pending, b.behind = a.behind
      PROVE  Kept(a, b)
  BY <1>1, <1>2 DEF Kept, IsActions, Drafts
<1>3. ASSUME NEW asked \in Accounts \cup {Nothing}
      PROVE  LET b == [a EXCEPT !.asked = asked]
             IN Kept(a, b) /\ b.asked = asked /\ b.form = a.form /\ b.flow = a.flow
  BY <1>1, <1>2
<1>4. ASSUME NEW form \in Forms
      PROVE  LET b == [a EXCEPT !.form = form]
             IN Kept(a, b) /\ b.asked = a.asked /\ b.form = form /\ b.flow = a.flow
  BY <1>1, <1>2
<1>5. ASSUME NEW confirming \in Nat
      PROVE  LET b == [a EXCEPT !.confirming = confirming]
             IN Kept(a, b) /\ b.asked = a.asked /\ b.form = a.form /\ b.flow = a.flow
  BY <1>1, <1>2
<1>6. ASSUME NEW flow \in Flows
      PROVE  LET b == [a EXCEPT !.flow = flow]
             IN Kept(a, b) /\ b.asked = a.asked /\ b.form = a.form /\ b.flow = flow
  BY <1>1, <1>2
<1>7. ASSUME NEW drafts \in Drafts
      PROVE  LET b == [a EXCEPT !.drafts = drafts]
             IN Kept(a, b) /\ b.asked = a.asked /\ b.form = a.form /\ b.flow = a.flow
  BY <1>1, <1>2
<1> QED BY <1>3, <1>4, <1>5, <1>6, <1>7

\* The type of the Actions depends on the desk alone.
LEMMA ActionsMove ==
  ASSUME NEW b, IsActions(b), actions' = b, UNCHANGED desk
  PROVE  IsActions(actions)'
<1>1. Keys' = Keys /\ Lines' = Lines /\ Flows' = Flows /\ actions' = b
  BY DEF Keys, Owners, Lines, Flows
<1> QED BY <1>1 DEF IsActions

\* A press that changes the Actions in such a way, and no line of theirs.
LEMMA PlainPressKeeps ==
  ASSUME IInv, NEW b, Kept(actions, b), Pressed(b),
         b.flow = actions.flow \/ (Open(actions.flow) /\ b.flow.at = "Idle" /\ b.flow.why = Nothing)
             \/ (Open(actions.flow) /\ "TopBar" \in desk.fields
                 /\ \E preset \in {1, 2} : b.flow = Confirming(preset)),
         b.form.owner \in {actions.form.owner, Nothing} \/ "Quiet" \in desk.fields,
         b.asked \in {actions.asked, Nothing} \/ "Quiet" \in desk.fields
  PROVE  IInv'
<1>1. /\ actions' = b /\ UNCHANGED <<desk, runtime, taken, calls, reads, view, panel>>
      /\ FlowRight /\ panel \in desk.accounts \cup {Nothing}
  BY DEF Pressed, IInv, TypeOK
<1>2. IsActions(actions)'
  BY <1>1, ActionsMove DEF Kept
<1>3. PressOf(actions, b)
  BY DEF PressOf, Kept, Open, Confirming, Idle
<1>4. FlowRight'
  BY <1>1, <1>3 DEF FlowRight, Open, Confirming, Idle
<1> QED BY <1>1, <1>2, <1>3, <1>4, PressKeeps


LEMMA SchedulingPressKeeps == IInv /\ SchedulingPress => IInv'
<1> SUFFICES ASSUME IInv, SchedulingPress PROVE IInv'
  OBVIOUS
<1>1. IsActions(actions) /\ view.pause.rev \in Nat
  BY DEF IInv, TypeOK, ViewOK, Pauses
<1>2. CASE PausePressed
  <2>1. Asked(Call("PauseAll", Nothing, 0, {}))
    BY SchedulingAsked DEF Scheduling
  <2> QED BY <1>2, <2>1, SentAsIs, SendKeeps DEF PausePressed
<1>3. Asked(Call("ResumeAll", Nothing, view.pause.rev, {}))
  BY <1>1, SchedulingAsked DEF Scheduling
<1>4. CASE ResumePressed
  <2>1. CASE view.pause.ours
    BY <1>3, <1>4, <2>1, SentAsIs, SendKeeps DEF ResumePressed
  <2>2. CASE ~view.pause.ours
    <3> DEFINE b == [actions EXCEPT !.confirming = view.pause.rev]
    <3>1. Pressed(b)
      BY <1>4, <2>2 DEF ResumePressed
    <3>2. Kept(actions, b) /\ b.asked = actions.asked /\ b.form = actions.form /\ b.flow = actions.flow
      BY <1>1, PlainFields
    <3> HIDE DEF b
    <3> QED BY <3>1, <3>2, PlainPressKeeps
  <2> QED BY <2>1, <2>2
<1>5. CASE ResumeConfirmed
  BY <1>3, <1>5, SentAsIs, SendKeeps DEF ResumeConfirmed
<1> QED BY <1>2, <1>4, <1>5 DEF SchedulingPress

\* What can be pressed once settings show.
LEMMA WriteFacts ==
  ASSUME IInv, CanWrite
  PROVE  Open(actions.flow) /\ view.slice # Nothing /\ IsRows(view.slice.rows)
BY DEF IInv, TypeOK, ViewOK, CanWrite, SettingsShown

LEMMA ConfirmingIs ==
  ASSUME NEW preset \in {1, 2}
  PROVE  Confirming(preset) \in Flows
<1>1. Idle \in Flows /\ preset \in Nat
  BY DEF Idle, Flows
<1> QED BY <1>1 DEF Confirming, Flows

LEMMA TopBarPressKeeps == IInv /\ TopBarPress => IInv'
<1> SUFFICES ASSUME IInv, TopBarPress PROVE IInv'
  OBVIOUS
<1>1. IsActions(actions) /\ desk \in Desks /\ FlowRight
  BY DEF IInv, TypeOK
<1>2. ASSUME NEW preset \in {1, 2}, "TopBar" \in desk.fields, CanWrite
      PROVE  Asked(Call("TopBar", Host, preset, {}))
  <2>1. <<"TopBar", Host>> \in Keys
    BY <1>2 DEF Keys, Owners, HostFields
  <2>2. preset \in Values("TopBar")
    BY DEF Values
  <2>3. AsPressed([what |-> "TopBar", of |-> Host, value |-> preset, item |-> {}], runtime.rows)
    BY NoRule
  <2> QED BY <1>2, <2>1, <2>2, <2>3, WriteFacts, SettingAsked
<1>3. CASE PresetConfirmed
  <2>1. "TopBar" \in desk.fields /\ actions.flow.arg \in {1, 2}
    BY <1>1, <1>3 DEF PresetConfirmed, FlowRight
  <2> QED BY <1>2, <1>3, <2>1, SentAsIs, SendKeeps DEF PresetConfirmed
<1>4. ASSUME NEW preset \in {1, 2}, PresetPressed(preset) PROVE IInv'
  <2>1. "TopBar" \in desk.fields /\ CanWrite
    BY <1>4 DEF PresetPressed
  <2>2. CASE Row(<<"TopBar", Host>>) = 0
    <3> DEFINE b == [actions EXCEPT !.flow = Confirming(preset)]
    <3>1. Pressed(b)
      BY <1>4, <2>2 DEF PresetPressed
    <3>2. Confirming(preset) \in Flows
      BY ConfirmingIs
    <3>3. Kept(actions, b) /\ b.asked = actions.asked /\ b.form = actions.form /\ b.flow = Confirming(preset)
      BY <1>1, <3>2, PlainFields
    <3> HIDE DEF b
    <3> QED BY <2>1, <3>1, <3>3, PlainPressKeeps, WriteFacts
  <2>3. CASE Row(<<"TopBar", Host>>) # 0
    BY <1>2, <1>4, <2>1, <2>3, SentAsIs, SendKeeps DEF PresetPressed
  <2> QED BY <2>2, <2>3
<1> QED BY <1>3, <1>4 DEF TopBarPress

\* A line that is changed by a press that can be pressed.
LEMMA SilentPressKeeps ==
  ASSUME IInv, NEW a, SentFrom(a), Open(actions.flow), NEW at \in desk.fields,
         NEW said \in [word : {"NotWhole", "TooBig"}, ticket : {0}, of : Everyone],
         Pressed([a EXCEPT !.said[at] = said])
  PROVE  IInv'
<1> DEFINE all == [a.said EXCEPT ![at] = said]
           b == [a EXCEPT !.said = all]
<1>1. /\ a \in [issued : 0 .. desk.presses, out : [Slots -> 0 .. a.issued], confirming : Nat,
              flow : Flows, drafts : Drafts,
              pending : Pendings(a.issued) \cup {Nothing}, said : {a.said},
              target : Accounts \cup {Nothing}, form : Forms,
              asked : Accounts \cup {Nothing}, behind : BOOLEAN]
      /\ DOMAIN a.said = Lines /\ \A line \in desk.fields : a.said[line] \in Saids(a.issued)
      /\ FlowRight /\ TypeOK /\ desk \in Desks
  BY DEF SentFrom, IsActions, Drafts, IInv, TypeOK
<1>2. /\ actions' = b /\ UNCHANGED <<desk, runtime, taken, calls, reads, view, panel>>
  BY <1>1 DEF Pressed
<1>3. /\ said \in Saids(a.issued) /\ Silent(said)
  BY <1>1, DeskFacts DEF Saids, Words, Silent, Undone
<1>4. /\ DOMAIN all = Lines
      /\ \A line \in desk.fields : all[line] = IF line = at THEN said ELSE a.said[line]
  BY <1>1, DeskFacts
<1> HIDE DEF all
<1>5. /\ b \in [issued : 0 .. desk.presses, out : [Slots -> 0 .. a.issued], confirming : Nat,
              flow : Flows, drafts : Drafts,
              pending : Pendings(a.issued) \cup {Nothing}, said : {all},
              target : Accounts \cup {Nothing}, form : Forms,
              asked : Accounts \cup {Nothing}, behind : BOOLEAN]
      /\ b.issued = a.issued /\ b.said = all /\ b.flow = a.flow /\ b.pending = a.pending
      /\ b.behind = a.behind /\ b.form = a.form /\ b.asked = a.asked
  BY <1>1
<1> HIDE DEF b
<1>6. IsActions(b)
  BY <1>1, <1>3, <1>4, <1>5 DEF IsActions, Drafts
<1>7. IsActions(actions)'
  BY <1>2, <1>6, ActionsMove
<1>8. PressOf(actions, b)
  BY <1>3, <1>4, <1>5 DEF SentFrom, PressOf
<1>9. FlowRight'
  BY <1>1, <1>2, <1>5 DEF FlowRight, SentFrom
<1> QED BY <1>1, <1>2, <1>7, <1>8, <1>9, PressKeeps DEF TypeOK

LEMMA DraftPressKeeps == IInv /\ DraftPress => IInv'
<1> SUFFICES ASSUME IInv, NEW key \in DOMAIN actions.drafts,
                    \/ ApplyDraft(key) \/ BackToFile(key)
                    \/ \E text \in Texts : EditDraft(key, text)
             PROVE  IInv'
  BY DEF DraftPress
<1>1. /\ IsActions(actions) /\ desk \in Desks /\ actions.drafts \in Drafts
      /\ key \in Keys /\ key[1] \in DraftFields
      /\ actions.drafts[key] \in {NoDraft} \cup [text : Texts, applied : BOOLEAN]
  BY DEF IInv, TypeOK, IsActions, Drafts
<1>2. key = <<key[1], key[2]>> /\ key[1] \in desk.fields /\ key[2] \in Everyone
  BY <1>1, DeskFacts DEF Keys, Everyone
<1>3. ASSUME NEW value \in 0 .. 2, CanWrite
      PROVE  Asked(Call(key[1], key[2], value, {}))
  <2>1. value \in Values(key[1]) /\ key[1] \notin {"Quiet", "Start"}
    BY <1>1 DEF Values, DraftFields, HostFields
  <2>2. AsPressed([what |-> key[1], of |-> key[2], value |-> value, item |-> {}], runtime.rows)
    BY <2>1, NoRule
  <2> QED BY <1>1, <1>2, <1>3, <2>1, <2>2, WriteFacts, SettingAsked
<1>4. CASE ApplyDraft(key)
  <2>1. CanWrite /\ actions.drafts[key] # NoDraft
    BY <1>4 DEF ApplyDraft
  <2>2. actions.drafts[key].text \in 0 .. 3
    BY <1>1, <2>1, WritesAssumption
  <2>3. CASE actions.drafts[key].text = Odd
    <3>1. Pressed([actions EXCEPT !.said[key[1]] = [word |-> "NotWhole", ticket |-> 0, of |-> key[2]]])
      BY <1>4, <2>3 DEF ApplyDraft
    <3>2. [word |-> "NotWhole", ticket |-> 0, of |-> key[2]]
              \in [word : {"NotWhole", "TooBig"}, ticket : {0}, of : Everyone]
      BY <1>2
    <3> QED BY <1>2, <2>1, <3>1, <3>2, WriteFacts, SentAsIs, SilentPressKeeps
  <2>4. CASE actions.drafts[key].text # Odd
    <3>1. actions.drafts[key].text \in 0 .. 2
      BY <2>2, <2>4 DEF Odd
    <3>2. Send(actions, Call(key[1], key[2], actions.drafts[key].text, {}))
      BY <1>4, <2>4 DEF ApplyDraft
    <3>3. Asked(Call(key[1], key[2], actions.drafts[key].text, {}))
      BY <1>3, <2>1, <3>1
    <3> QED BY <3>2, <3>3, SentAsIs, SendKeeps
  <2> QED BY <2>3, <2>4
<1>5. CASE BackToFile(key)
  BY <1>3, <1>5, SentAsIs, SendKeeps DEF BackToFile
<1>6. ASSUME NEW text \in Texts, EditDraft(key, text) PROVE IInv'
  <2> DEFINE draft == [text |-> text, applied |-> FALSE]
             drafts == [actions.drafts EXCEPT ![key] = draft]
             b == [actions EXCEPT !.drafts = drafts]
  <2>1. drafts \in Drafts
    BY <1>1 DEF Drafts
  <2>2. Pressed(b)
    BY <1>1, <1>6 DEF EditDraft, IsActions
  <2> HIDE DEF drafts
  <2>3. Kept(actions, b) /\ b.asked = actions.asked /\ b.form = actions.form /\ b.flow = actions.flow
    BY <1>1, <2>1, PlainFields
  <2> HIDE DEF b
  <2> QED BY <2>2, <2>3, PlainPressKeeps
<1> QED BY <1>4, <1>5, <1>6



-----------------------------------------------------------------------------
(* The presses on an account's rules panel.                                *)

\* The panel that shows is an account's, and the rows of its rules are the desk's.
LEMMA PanelFacts ==
  ASSUME IInv, panel # Nothing, NEW field \in RuleFields \cap desk.fields
  PROVE  panel \in Accounts /\ <<field, panel>> \in Keys
<1>1. panel \in desk.accounts /\ desk \in Desks
  BY DEF IInv, TypeOK
<1>2. field \notin HostFields
  BY DEF RuleFields, HostFields
<1> QED BY <1>1, <1>2, DeskFacts DEF Keys, Owners

\* What is sent from the panel is sent from the Actions with another form, if any, and with no
\* question and no line of another account.
LEMMA RuleSentFrom ==
  ASSUME IInv, NEW form \in Forms, form.owner = actions.form.owner, panel \in Accounts,
         Open(actions.flow)
  PROVE  SentFrom(SpeakOf([[actions EXCEPT !.form = form] EXCEPT !.asked = Nothing], panel))
<1> DEFINE b == [actions EXCEPT !.form = form]
           c == [b EXCEPT !.asked = Nothing]
           d == SpeakOf(c, panel)
<1>1. IsActions(actions) /\ desk \in Desks
  BY DEF IInv, TypeOK
<1>2. Kept(actions, b) /\ b.form = form /\ b.flow = actions.flow
  BY <1>1, PlainFields
<1>3. IsActions(b)
  BY <1>2 DEF Kept
<1> HIDE DEF b
<1>4. Kept(b, c) /\ c.asked = Nothing /\ c.form = b.form /\ c.flow = b.flow
  BY <1>3, PlainFields
<1>5. IsActions(c)
  BY <1>4 DEF Kept
<1> HIDE DEF c
<1>6. /\ IsActions(d) /\ d.issued = c.issued /\ d.flow = c.flow /\ d.pending = c.pending
      /\ d.behind = c.behind /\ d.form = c.form /\ d.asked = c.asked
      /\ \A at \in desk.fields : d.said[at] \in {c.said[at], NoSaid}
  BY <1>1, <1>5, SpeakOfIs
<1> HIDE DEF d
<1>7. Silent(NoSaid)
  BY NothingSaid DEF Silent, NoSaid, Undone, Words, Answers
<1>8. PressOf(actions, d)
  BY <1>2, <1>4, <1>6, <1>7 DEF PressOf, Kept
<1>9. SentFrom(d)
  BY <1>2, <1>4, <1>6, <1>8 DEF SentFrom
<1> QED BY <1>9 DEF b, c, d

LEMMA SameFormSentFrom ==
  ASSUME IInv, panel \in Accounts, Open(actions.flow)
  PROVE  SentFrom(SpeakOf([actions EXCEPT !.asked = Nothing], panel))
<1>1. IsActions(actions)
  BY DEF IInv, TypeOK
<1>2. actions.form \in Forms /\ [actions EXCEPT !.form = actions.form] = actions
  BY <1>1 DEF IsActions
<1> QED BY <1>2, RuleSentFrom

\* What can be pressed on the panel.
LEMMA RuleFacts ==
  ASSUME IInv, CanRule
  PROVE  /\ Open(actions.flow) /\ ~actions.behind /\ view.slice # Nothing /\ panel \in Accounts
         /\ IsRows(view.slice.rows)
         /\ desk.versioned /\ view.slice.version = runtime.version => view.slice.rows = runtime.rows
<1>1. desk \in Desks /\ panel \in desk.accounts /\ SliceRight /\ ViewOK
  BY DEF IInv, TypeOK, CanRule
<1> QED BY <1>1, DeskFacts DEF CanRule, SettingsShown, RulesFree, SliceRight, ViewOK

LEMMA SendRuleKeeps ==
  ASSUME IInv, CanRule, NEW field \in RuleFields \cap desk.fields, NEW value \in Values(field),
         NEW item \in SUBSET Times, NEW form \in Forms, form.owner = actions.form.owner,
         AsPressed([what |-> field, of |-> panel, value |-> value, item |-> item], view.slice.rows),
         SendRule([actions EXCEPT !.form = form], field, value, item)
  PROVE  IInv'
<1> DEFINE a == SpeakOf([[actions EXCEPT !.form = form] EXCEPT !.asked = Nothing], panel)
           call == Call(field, panel, value, item)
<1>1. /\ Open(actions.flow) /\ view.slice # Nothing /\ panel \in Accounts /\ panel # Nothing
      /\ desk.versioned /\ view.slice.version = runtime.version => view.slice.rows = runtime.rows
  BY RuleFacts DEF CanRule
<1>2. <<field, panel>> \in Keys
  BY <1>1, PanelFacts
<1>3. SentFrom(a)
  BY <1>1, RuleSentFrom
<1>4. Asked(call)
  BY <1>1, <1>2, SettingAsked
<1>5. Send(a, call)
  BY DEF SendRule
<1> HIDE DEF a, call
<1> QED BY <1>3, <1>4, <1>5, SendKeeps

LEMMA SendSameFormKeeps ==
  ASSUME IInv, CanRule, NEW field \in RuleFields \cap desk.fields, NEW value \in Values(field),
         NEW item \in SUBSET Times,
         AsPressed([what |-> field, of |-> panel, value |-> value, item |-> item], view.slice.rows),
         SendRule(actions, field, value, item)
  PROVE  IInv'
<1>1. IsActions(actions)
  BY DEF IInv, TypeOK
<1>2. actions.form \in Forms /\ [actions EXCEPT !.form = actions.form] = actions
  BY <1>1 DEF IsActions
<1> QED BY <1>2, SendRuleKeeps

LEMMA FormPressKeeps == IInv /\ (FormOpened \/ \E time \in Times : FormChanged(time)) => IInv'
<1> SUFFICES ASSUME IInv, FormOpened \/ \E time \in Times : FormChanged(time) PROVE IInv'
  OBVIOUS
<1>1. IsActions(actions) /\ desk \in Desks /\ FlowRight /\ panel \in desk.accounts \cup {Nothing}
  BY DEF IInv, TypeOK
<1>2. ASSUME NEW form \in Forms, "Quiet" \in desk.fields,
             Pressed([actions EXCEPT !.asked = Nothing, !.form = form])
      PROVE  IInv'
  <2> DEFINE b == [actions EXCEPT !.asked = Nothing]
             c == [b EXCEPT !.form = form]
  <2>1. Kept(actions, b) /\ b.asked = Nothing /\ b.flow = actions.flow
    BY <1>1, PlainFields
  <2>2. Pressed(c)
    BY <1>2
  <2>3. IsActions(b)
    BY <2>1 DEF Kept
  <2> HIDE DEF b
  <2>4. Kept(b, c) /\ c.asked = b.asked /\ c.form = form /\ c.flow = b.flow
    BY <1>2, <2>3, PlainFields
  <2> HIDE DEF c
  <2>5. Kept(actions, c)
    BY <2>1, <2>4 DEF Kept
  <2> QED BY <1>2, <2>1, <2>2, <2>4, <2>5, PlainPressKeeps
<1>3. CASE FormOpened
  <2>1. [NoForm EXCEPT !.owner = panel] \in Forms
    BY <1>1, DeskFacts DEF NoForm, Forms
  <2> QED BY <1>2, <1>3, <2>1 DEF FormOpened
<1>4. ASSUME NEW time \in Times, FormChanged(time) PROVE IInv'
  <2> DEFINE form == [actions.form EXCEPT !.typed = time, !.ticket = 0]
  <2>1. actions.form \in Forms /\ actions.form.owner = panel /\ panel # Nothing
    BY <1>1, <1>4 DEF IsActions, FormChanged
  <2>2. form \in Forms
    BY <2>1 DEF Forms
  <2>3. "Quiet" \in desk.fields
    BY <1>1, <2>1 DEF FlowRight
  <2>4. Pressed([actions EXCEPT !.asked = Nothing, !.form = form])
    BY <1>1, <1>4 DEF FormChanged, IsActions
  <2> HIDE DEF form
  <2> QED BY <1>2, <2>2, <2>3, <2>4
<1> QED BY <1>3, <1>4


LEMMA QuietPressKeeps == IInv /\ QuietPress => IInv'
<1> SUFFICES ASSUME IInv, QuietPress PROVE IInv'
  OBVIOUS
<1>1. IsActions(actions) /\ FlowRight /\ actions.form \in Forms
  BY DEF IInv, TypeOK, IsActions
<1>2. ASSUME NEW asked \in Accounts \cup {Nothing}, asked = Nothing \/ "Quiet" \in desk.fields,
             Pressed([actions EXCEPT !.asked = asked])
      PROVE  IInv'
  <2> DEFINE b == [actions EXCEPT !.asked = asked]
  <2>1. Kept(actions, b) /\ b.asked = asked /\ b.form = actions.form /\ b.flow = actions.flow
    BY <1>1, PlainFields
  <2>2. Pressed(b)
    BY <1>2
  <2> HIDE DEF b
  <2> QED BY <1>2, <2>1, <2>2, PlainPressKeeps
<1>3. ASSUME NEW value \in SUBSET Times, NEW item \in SUBSET Times, CanRule, "Quiet" \in desk.fields,
             LET before == Row(<<"Quiet", panel>>)
             IN (before \ value) \cup (value \ before) \subseteq item
      PROVE  /\ "Quiet" \in RuleFields \cap desk.fields /\ value \in Values("Quiet")
             /\ AsPressed([what |-> "Quiet", of |-> panel, value |-> value, item |-> item],
                          view.slice.rows)
  BY <1>3 DEF RuleFields, Values, AsPressed, Row
<1>4. CanRule /\ "Quiet" \in desk.fields => Row(<<"Quiet", panel>>) \subseteq Times
  <2> SUFFICES ASSUME CanRule, "Quiet" \in desk.fields PROVE Row(<<"Quiet", panel>>) \subseteq Times
    OBVIOUS
  <2>1. <<"Quiet", panel>> \in Keys
    BY PanelFacts DEF CanRule, RuleFields
  <2>2. Row(<<"Quiet", panel>>) \in Values(<<"Quiet", panel>>[1])
    BY <2>1, RuleFacts DEF IsRows, Row
  <2> QED BY <2>2 DEF Values
<1>5. CASE QuietAdd
  <2> DEFINE n == actions.issued + 1
             form == [actions.form EXCEPT !.adding = TRUE, !.ticket = n]
             time == actions.form.typed
             value == Row(<<"Quiet", panel>>) \cup {time}
  <2>1. /\ CanRule /\ actions.form.owner = panel /\ panel # Nothing /\ time # Nothing
        /\ SendRule([actions EXCEPT !.form.adding = TRUE, !.form.ticket = n],
                    "Quiet", value, {time})
    BY <1>5 DEF QuietAdd, CanRule
  <2>2. n \in Nat /\ time \in Times
    BY <1>1, <2>1, FreshTicket DEF Forms
  <2>3. "Quiet" \in desk.fields
    BY <1>1, <2>1 DEF FlowRight
  <2>4. [actions EXCEPT !.form.adding = TRUE, !.form.ticket = n] = [actions EXCEPT !.form = form]
    BY <1>1 DEF IsActions
  <2> HIDE DEF n
  <2>5. form \in Forms /\ form.owner = actions.form.owner
    BY <1>1, <2>2 DEF Forms
  <2>6. SendRule([actions EXCEPT !.form = form], "Quiet", value, {time})
    BY <2>1, <2>4
  <2>7. value \in SUBSET Times /\ {time} \in SUBSET Times
    BY <1>4, <2>1, <2>2, <2>3
  <2>8. (Row(<<"Quiet", panel>>) \ value) \cup (value \ Row(<<"Quiet", panel>>)) \subseteq {time}
    OBVIOUS
  <2> DEFINE item == {time}
  <2> HIDE DEF form, value, item
  <2>9. /\ "Quiet" \in RuleFields \cap desk.fields /\ value \in Values("Quiet")
        /\ AsPressed([what |-> "Quiet", of |-> panel, value |-> value, item |-> item],
                     view.slice.rows)
    BY <1>3, <2>1, <2>3, <2>7, <2>8 DEF item
  <2>10. item \in SUBSET Times /\ SendRule([actions EXCEPT !.form = form], "Quiet", value, item)
    BY <2>6, <2>7 DEF item
  <2> QED BY <2>1, <2>5, <2>9, <2>10, SendRuleKeeps
<1>6. ASSUME NEW time \in Times, QuietDelete(time) PROVE IInv'
  <2> DEFINE value == Row(<<"Quiet", panel>>) \ {time}
             a == SpeakOf([actions EXCEPT !.asked = Nothing], panel)
  <2>1. "Quiet" \in desk.fields /\ CanRule
    BY <1>6 DEF QuietDelete
  <2>2. CASE SendRule(actions, "Quiet", value, {time})
    <3>1. value \in SUBSET Times /\ {time} \in SUBSET Times
      BY <1>4, <2>1
    <3>2. (Row(<<"Quiet", panel>>) \ value) \cup (value \ Row(<<"Quiet", panel>>)) \subseteq {time}
      OBVIOUS
    <3> HIDE DEF value
    <3> QED BY <1>3, <2>1, <2>2, <3>1, <3>2, SendSameFormKeeps
  <2>3. CASE Pressed([a EXCEPT !.said["Quiet"] = [word |-> "TooBig", ticket |-> 0, of |-> panel]])
    <3>1. panel \in Accounts /\ Open(actions.flow)
      BY <2>1, RuleFacts
    <3>2. SentFrom(a)
      BY <3>1, SameFormSentFrom
    <3>3. [word |-> "TooBig", ticket |-> 0, of |-> panel]
              \in [word : {"NotWhole", "TooBig"}, ticket : {0}, of : Everyone]
      BY <3>1 DEF Everyone
    <3> HIDE DEF a
    <3> QED BY <2>1, <2>3, <3>1, <3>2, <3>3, SilentPressKeeps
  <2> QED BY <1>6, <2>2, <2>3 DEF QuietDelete
<1>7. CASE QuietClear
  <2>1. "Quiet" \in desk.fields /\ CanRule /\ Pressed([actions EXCEPT !.asked = panel])
    BY <1>7 DEF QuietClear
  <2> QED BY <1>2, <2>1, RuleFacts
<1>8. CASE QuietClearConfirmed
  <2>1. actions.asked = panel /\ CanRule /\ SendRule(actions, "Quiet", {}, Times)
    BY <1>8 DEF QuietClearConfirmed
  <2>2. "Quiet" \in desk.fields
    BY <1>1, <2>1 DEF FlowRight, CanRule
  <2>3. (Row(<<"Quiet", panel>>) \ {}) \cup ({} \ Row(<<"Quiet", panel>>)) \subseteq Times
    BY <1>4, <2>1, <2>2
  <2>4. {} \in SUBSET Times /\ Times \in SUBSET Times
    OBVIOUS
  <2> QED BY <1>3, <2>1, <2>2, <2>3, <2>4, SendSameFormKeeps
<1>9. CASE QuietUnconfirmed
  BY <1>2, <1>9 DEF QuietUnconfirmed
<1> QED BY <1>5, <1>6, <1>7, <1>8, <1>9, FormPressKeeps DEF QuietPress

\* A rule held on is not turned off, nor left to the file.
LEMMA NotHeld ==
  ASSUME NEW field \in {"Idle", "Start"}, NEW value, NEW item, ~HeldOn(field) \/ value = 1
  PROVE  AsPressed([what |-> field, of |-> panel, value |-> value, item |-> item], view.slice.rows)
BY DEF AsPressed, HeldOn

LEMMA RulePickedKeeps ==
  ASSUME IInv, NEW field \in {"Idle", "Start"}, NEW value \in {1, 2}, RulePicked(field, value)
  PROVE  IInv'
<1>1. /\ field \in desk.fields /\ CanRule /\ (value = 2 => ~HeldOn(field))
      /\ SendRule(actions, field, value, {})
  BY DEF RulePicked
<1>2. field \in RuleFields \cap desk.fields /\ value \in Values(field)
  BY <1>1 DEF RuleFields, Values
<1>3. AsPressed([what |-> field, of |-> panel, value |-> value, item |-> {}], view.slice.rows)
  BY <1>1, NotHeld
<1>4. {} \in SUBSET Times
  OBVIOUS
<1> QED BY <1>1, <1>2, <1>3, <1>4, SendSameFormKeeps

LEMMA RuleToFileKeeps ==
  ASSUME IInv, NEW field \in RuleFields, RuleToFile(field)
  PROVE  IInv'
<1>1. /\ field \in desk.fields /\ CanRule /\ ~HeldOn(field)
      /\ SendRule(actions, field, FileValue(field), Times)
  BY DEF RuleToFile
<1>2. field \in RuleFields \cap desk.fields /\ FileValue(field) \in Values(field)
  BY <1>1 DEF FileValue, Values
<1>3. AsPressed([what |-> field, of |-> panel, value |-> FileValue(field), item |-> Times],
                view.slice.rows)
  <2>1. CASE field = "Quiet"
    <3>1. <<"Quiet", panel>> \in Keys /\ IsRows(view.slice.rows)
      BY <1>1, <1>2, <2>1, PanelFacts, RuleFacts DEF CanRule
    <3>2. view.slice.rows[<<"Quiet", panel>>] \in Values(<<"Quiet", panel>>[1])
      BY <3>1 DEF IsRows
    <3>3. view.slice.rows[<<"Quiet", panel>>] \subseteq Times
      BY <3>2 DEF Values
    <3> QED BY <2>1, <3>3 DEF AsPressed, FileValue
  <2>2. CASE field # "Quiet"
    BY <1>1, <2>2, NotHeld DEF RuleFields
  <2> QED BY <2>1, <2>2
<1>4. Times \in SUBSET Times
  OBVIOUS
<1> QED BY <1>1, <1>2, <1>3, <1>4, SendSameFormKeeps

LEMMA ShowPanelKeeps ==
  ASSUME IInv, NEW account \in desk.accounts \cup {Nothing}, ShowPanel(account)
  PROVE  IInv'
<1> DEFINE b == [actions EXCEPT !.form = NoForm]
           c == [b EXCEPT !.asked = Nothing]
<1>1. IsActions(actions) /\ FlowRight /\ NoForm \in Forms
  BY DEF IInv, TypeOK, NoForm, Forms
<1>2. Kept(actions, b) /\ b.form = NoForm /\ b.flow = actions.flow
  BY <1>1, PlainFields
<1>3. IsActions(b)
  BY <1>2 DEF Kept
<1>4. /\ UNCHANGED <<desk, runtime, taken, calls, reads, view>> /\ panel' = account /\ actions' = c
  BY DEF ShowPanel, RulesReset
<1> HIDE DEF b
<1>5. Kept(b, c) /\ c.asked = Nothing /\ c.form = NoForm /\ c.flow = actions.flow
  BY <1>2, <1>3, PlainFields
<1> HIDE DEF c
<1>6. IsActions(c) /\ PressOf(actions, c)
  BY <1>2, <1>5 DEF Kept, PressOf
<1>7. IsActions(actions)'
  BY <1>4, <1>6, ActionsMove
<1>8. FlowRight'
  BY <1>1, <1>4, <1>5 DEF FlowRight, NoForm
<1> QED BY <1>4, <1>6, <1>7, <1>8, PressKeeps

LEMMA PressesKeep == IInv /\ Press => IInv'
<1> SUFFICES ASSUME IInv, Press PROVE IInv'
  OBVIOUS
<1>1. CASE RulePress
  <2>1. ASSUME NEW field \in RuleFields, RuleToFile(field) PROVE IInv'
    BY <2>1, RuleToFileKeeps
  <2>2. CASE RulePicked("Idle", 1)
    BY <2>2, RulePickedKeeps
  <2>3. ASSUME NEW value \in {1, 2}, RulePicked("Start", value) PROVE IInv'
    BY <2>3, RulePickedKeeps
  <2>4. ASSUME NEW account \in desk.accounts \cup {Nothing}, ShowPanel(account) PROVE IInv'
    BY <2>4, ShowPanelKeeps
  <2> QED BY <1>1, <2>1, <2>2, <2>3, <2>4 DEF RulePress
<1> QED BY <1>1, SchedulingPressKeeps, TopBarPressKeeps, DraftPressKeeps, QuietPressKeeps DEF Press


-----------------------------------------------------------------------------
(* What lands in the window: an answer, the wait's end, a read.            *)

\* Neither the Runtime's settings nor a request move: what is known of them stays.
Lands ==
    /\ UNCHANGED <<desk, taken>> /\ calls' \subseteq calls
    /\ runtime'.version = runtime.version /\ runtime'.rows = runtime.rows
    /\ runtime'.switch = runtime.switch /\ runtime'.late = runtime.late
    /\ runtime.missed \subseteq runtime'.missed

LEMMA WindowKeeps ==
  ASSUME IInv, Lands, RuntimeOK', ReadsOK', ViewOK', IsActions(actions)',
         actions'.issued = actions.issued, panel' \in desk.accounts \cup {Nothing},
         LinesOwn', LinesRight', ReadRight', FlowRight', ConflictRight', UnconfirmedRight',
         SwitchRight', SliceRight'
  PROVE  IInv'
<1> USE DEF Lands
<1>1. TypeOK
  BY DEF IInv
<1>2. CallsOK'
  BY <1>1 DEF TypeOK, CallsOK, IsCall, CallTypes, Keys, Owners
<1>5. LateOK'
  BY <1>1 DEF TypeOK, LateOK, IsCall, CallTypes, Keys, Owners
<1>3. TypeOK'
  BY <1>1, <1>2, <1>5 DEF TypeOK
<1>4. TicketsApart' /\ SwitchOfItsCall' /\ AnswersRight'
  BY DEF IInv, TicketsApart, SwitchOfItsCall, AnswersRight
<1>6. LateApart'
  BY DEF IInv, LateApart
<1>7. RulesRight'
  BY DEF IInv, RulesRight, AsPressed
<1> QED BY <1>3, <1>4, <1>6, <1>7 DEF IInv

LEMMA DeadLands ==
  ASSUME Lands, NEW ticket
  PROVE  /\ (Dead(ticket) => Dead(ticket)') /\ (Gone(ticket) => Gone(ticket)')
         /\ Coming(ticket)' <=> Coming(ticket)
         /\ Missed(ticket) => Missed(ticket)'
BY DEF Lands, Dead, Gone, Coming, Missed

\* Nothing speaks of the ticket 0.
LEMMA NoTicket ==
  ASSUME IInv
  PROVE  /\ Dead(0) /\ \A call \in calls : call.ticket \in 1 .. actions.issued /\ call.ticket # 0
         /\ \A call \in runtime.late : call.ticket # 0
         /\ actions.issued \in Nat
<1>1. TypeOK /\ desk \in Desks
  BY DEF IInv, TypeOK
<1>2. actions.issued \in Nat
  BY <1>1, DeskFacts DEF TypeOK, IsActions
<1>3. /\ \A call \in calls : call.ticket \in 1 .. actions.issued /\ call.ticket # 0
      /\ \A call \in runtime.late : call.ticket # 0
  BY <1>1, TicketsPositive
<1>4. 0 \notin taken
  BY <1>1, <1>2 DEF TypeOK
<1> QED BY <1>2, <1>3, <1>4 DEF Dead, Gone, Coming

\* A line that says what it said of its request, or nothing of one, or what did become of it.
LEMMA LinesKeep ==
  ASSUME IInv, Lands,
         \A at \in desk.fields :
            /\ actions'.said[at].ticket \in {actions.said[at].ticket, 0}
            /\ actions'.said[at].word \in Undone =>
                  \/ actions'.said[at] = actions.said[at]
                  \/ Dead(actions'.said[at].ticket)
                  \/ actions'.said[at].word = "NotApplied" /\ Missed(actions'.said[at].ticket)
  PROVE  LinesOwn' /\ LinesRight'
<1>1. \A call \in calls \cup runtime.late : call.ticket # 0
  BY NoTicket
<1>2. LinesOwn'
  <2> SUFFICES ASSUME NEW at \in desk.fields
               PROVE  /\ \A call \in calls' \cup runtime.late :
                             actions'.said[at].ticket = call.ticket => call.what = at
                      /\ actions'.said[at].ticket # 0 /\ actions'.said[at].ticket = runtime'.switch.ticket =>
                             at = "Backends"
    BY DEF LinesOwn, Lands
  <2> QED BY <1>1 DEF IInv, LinesOwn, Lands
<1>3. LinesRight'
  <2> SUFFICES ASSUME NEW at \in desk.fields, actions'.said[at].word \in Undone
               PROVE  \/ Dead(actions.said[at].ticket)'
                      \/ (actions'.said[at].word = "NotApplied" /\ Missed(actions.said[at].ticket)')
    BY DEF LinesRight, Lands
  <2>1. \/ Dead(actions'.said[at].ticket)
        \/ (actions'.said[at].word = "NotApplied" /\ Missed(actions'.said[at].ticket))
    BY DEF IInv, LinesRight
  <2>2. CASE Dead(actions'.said[at].ticket)
    BY <2>2, DeadLands
  <2>3. CASE actions'.said[at].word = "NotApplied" /\ Missed(actions'.said[at].ticket)
    BY <2>3, DeadLands
  <2> QED BY <2>1, <2>2, <2>3
<1> QED BY <1>2, <1>3

\* What is awaited is awaited still, and the reads have nothing new of it.
LEMMA AwaitedKeep ==
  ASSUME IInv, Lands, actions'.flow = actions.flow, actions'.pending = actions.pending,
         actions'.issued = actions.issued,
         actions.flow.why # Nothing => Awaited' = Awaited,
         reads'["status"].found \in {reads["status"].found, Nothing},
         "config" \in Kinds => reads'["config"].found \in {reads["config"].found, Nothing}
  PROVE  ConflictRight' /\ UnconfirmedRight' /\ SwitchRight'
<1>1. ASSUME actions.flow.why = "Conflict" PROVE ConflictRight'
  BY <1>1, DeadLands, NothingSaid DEF IInv, ConflictRight, Whys
<1>2. \A based : ReadPast(based) => (ReadPast(based))'
  BY DEF ReadPast, Kinds, Lands
<1>8. ReadNone => ReadNone'
  BY DEF ReadNone, Kinds, Lands
<1>3. ASSUME actions.flow.why = "Unconfirmed" PROVE UnconfirmedRight'
  <2>1. UnconfirmedRight /\ Awaited' = Awaited
    BY <1>3, NothingSaid DEF IInv, Whys
  <2>2. /\ Gone(Awaited) => Gone(Awaited)'
        /\ Coming(Awaited)' <=> Coming(Awaited)
        /\ Missed(Awaited) => Missed(Awaited)'
    BY <2>1, DeadLands
  <2>3. ReadPast(actions.flow.arg) => ReadPast(actions.flow.arg)'
    BY <1>2
  <2> QED BY <1>3, <1>8, <2>1, <2>2, <2>3 DEF UnconfirmedRight, Lands
<1>4. ASSUME actions.flow.why = "Switch" PROVE SwitchRight'
  <2>1. SwitchRight /\ Awaited' = Awaited
    BY <1>4, NothingSaid DEF IInv, Whys
  <2>2. Gone(actions.pending.ticket)'
    BY <1>4, <2>1, DeadLands DEF SwitchRight
  <2>3. (SwitchUnderWay)' = SwitchUnderWay
    BY DEF SwitchUnderWay, Lands
  <2>4. Pendings(actions.issued)' = Pendings(actions.issued)
    BY DEF Pendings
  <2>5. ReadPast(actions.pending.based) => ReadPast(actions.pending.based)'
    BY <1>2
  <2>6. /\ Coming(actions.pending.ticket)' <=> Coming(actions.pending.ticket)
        /\ Missed(actions.pending.ticket) => Missed(actions.pending.ticket)'
    BY DeadLands
  <2>7. SwitchSeenRight => SwitchSeenRight'
    <3>1. Claiming' <=> Claiming
      BY DEF Claiming, Lands
    <3> QED BY <2>3, <2>5, <2>6, <3>1 DEF SwitchSeenRight, Lands
  <2>8. \A l \in runtime'.late : l \in runtime.late
    BY DEF Lands
  <2> QED BY <1>4, <2>1, <2>2, <2>4, <2>6, <2>7, <2>8 DEF SwitchRight, Lands
<1>5. actions.flow.why # "Conflict" => ConflictRight'
  BY DEF ConflictRight
<1>6. actions.flow.why # "Unconfirmed" => UnconfirmedRight'
  BY DEF UnconfirmedRight
<1>7. actions.flow.why # "Switch" => SwitchRight'
  BY DEF SwitchRight
<1> QED BY <1>1, <1>3, <1>4, <1>5, <1>6, <1>7

LEMMA NothingAwaited ==
  ASSUME actions'.flow.why = Nothing
  PROVE  ConflictRight' /\ UnconfirmedRight' /\ SwitchRight'
BY NothingSaid DEF ConflictRight, UnconfirmedRight, SwitchRight, Whys


\* What does not change keeps its type.
LEMMA PartsStay ==
  ASSUME IInv, UNCHANGED desk
  PROVE  /\ view' = view => ViewOK'
         /\ reads' = reads => ReadsOK'
         /\ runtime' = runtime /\ actions'.issued = actions.issued => RuntimeOK'
         /\ actions' = actions => IsActions(actions)'
         /\ panel' = panel => panel' \in desk.accounts \cup {Nothing}
<1>1. TypeOK
  BY DEF IInv
<1>2. Keys' = Keys /\ Kinds' = Kinds
  BY DEF Keys, Owners, Kinds
<1>3. view' = view => ViewOK'
  BY <1>1, <1>2 DEF TypeOK, ViewOK, IsRows
<1>4. reads' = reads => ReadsOK'
  BY <1>1, <1>2 DEF TypeOK, ReadsOK, IsRows
<1>5. runtime' = runtime /\ actions'.issued = actions.issued => RuntimeOK'
  BY <1>1, <1>2 DEF TypeOK, RuntimeOK, IsRuntime, IsRows, Switches
<1>6. actions' = actions => IsActions(actions)'
  BY <1>1, ActionsMove DEF TypeOK
<1> QED BY <1>1, <1>3, <1>4, <1>5, <1>6 DEF TypeOK

LEMMA WaitPassesKeeps == IInv /\ WaitPasses => IInv'
<1> SUFFICES ASSUME IInv, WaitPasses PROVE IInv'
  OBVIOUS
<1> DEFINE pending == [actions.pending EXCEPT !.waited = TRUE]
           b == [actions EXCEPT !.pending = pending]
<1>1. /\ IsActions(actions) /\ desk \in Desks /\ actions.pending \in Pendings(actions.issued)
      /\ ~Claiming
      /\ reads["status"].found # Nothing => ~reads["status"].found.claim
  BY DEF IInv, TypeOK, IsActions, WaitPasses
<1>2. UNCHANGED <<desk, runtime, taken, calls, reads, view, panel>> /\ actions' = b
  BY <1>1 DEF WaitPasses, IsActions
<1>3. /\ pending \in Pendings(actions.issued) /\ pending.of = actions.pending.of
      /\ pending.based = actions.pending.based /\ pending.ticket = actions.pending.ticket
      /\ pending.over = actions.pending.over
  BY <1>1 DEF Pendings
<1> HIDE DEF pending
<1>4. /\ IsActions(b) /\ b.issued = actions.issued /\ b.flow = actions.flow /\ b.said = actions.said
      /\ b.pending = pending /\ b.behind = actions.behind /\ b.form = actions.form
      /\ b.asked = actions.asked
  BY <1>1, <1>3 DEF IsActions
<1> HIDE DEF b
<1>5. Lands /\ IsActions(actions)'
  BY <1>2, <1>4, ActionsMove DEF Lands
<1>6. LinesOwn' /\ LinesRight'
  BY <1>2, <1>4, <1>5, LinesKeep
<1>7. ReadRight' /\ SliceRight' /\ FlowRight'
  BY <1>2, <1>4 DEF IInv, ReadRight, SliceRight, FlowRight, Kinds
<1>8. Awaited' = Awaited
  BY <1>2, <1>4 DEF Awaited
<1>9. ConflictRight' /\ UnconfirmedRight'
  <2>1. \A ticket : (Dead(ticket) => Dead(ticket)') /\ (Gone(ticket) => Gone(ticket)')
    BY <1>5, DeadLands
  <2>2. \A based : ReadPast(based) => (ReadPast(based))'
    BY <1>2 DEF ReadPast, Kinds
  <2>3. ConflictRight'
    BY <1>2, <1>4, <1>8, <2>1 DEF IInv, ConflictRight
  <2>4. /\ Coming(Awaited)' <=> Coming(Awaited)
        /\ Missed(Awaited)' <=> Missed(Awaited)
        /\ ReadNone' <=> ReadNone
    BY <1>2, <1>8 DEF Coming, Missed, ReadNone, Kinds
  <2> QED BY <1>2, <1>4, <1>8, <2>1, <2>2, <2>3, <2>4 DEF IInv, UnconfirmedRight
<1>10. SwitchRight'
  <2> SUFFICES ASSUME actions.flow.why = "Switch" PROVE SwitchRight'
    BY <1>2, <1>4 DEF SwitchRight
  <2>1. SwitchRight
    BY DEF IInv
  <2>2. Gone(actions.pending.ticket)'
    BY <1>2, <1>3, <1>4, <2>1 DEF SwitchRight, Gone
  <2>3. actions'.pending = pending /\ (Pendings(actions.issued))' = Pendings(actions.issued)
    BY <1>2, <1>4 DEF Pendings
  <2>4. SwitchUnderWay' <=> SwitchUnderWay
    BY <1>2, <1>3, <1>4 DEF SwitchUnderWay
  <2>5. ReadPast(actions.pending.based) => ReadPast(actions.pending.based)'
    BY <1>2, <1>3, <2>3 DEF ReadPast, Kinds
  <2>6. /\ Coming(actions.pending.ticket)' <=> Coming(actions.pending.ticket)
        /\ Missed(actions.pending.ticket)' <=> Missed(actions.pending.ticket)
    BY <1>2, <1>3, <2>3 DEF Coming, Missed
  <2>7. SwitchSeenRight => SwitchSeenRight'
    <3>1. Claiming' <=> Claiming
      BY <1>2 DEF Claiming
    <3> QED BY <1>1, <1>2, <1>3, <2>3, <2>4, <2>5, <2>6, <3>1 DEF SwitchSeenRight
  <2>8. /\ actions'.flow.field = "Backends" /\ Awaited' = actions'.pending.ticket
        /\ actions'.pending \in Pendings(actions'.issued)
        /\ desk'.versioned => actions'.pending.based <= runtime'.version
        /\ \A l \in runtime'.late : l.ticket = actions'.pending.ticket => l.of = actions'.pending.of
    BY <1>2, <1>3, <1>4, <1>8, <2>1, <2>3 DEF SwitchRight
  <2>9. ~Missed(actions.pending.ticket)' => SwitchSeenRight'
    BY <2>1, <2>6, <2>7 DEF SwitchRight
  <2> QED BY <2>2, <2>8, <2>9 DEF SwitchRight
<1> QED BY <1>2, <1>4, <1>5, <1>6, <1>7, <1>9, <1>10, PartsStay, WindowKeeps

\* An answer that counts no more changes nothing but the requests out.
LEMMA LandLateKeeps ==
  ASSUME IInv, NEW call \in calls, Land(call), ~Counts(call)
  PROVE  IInv'
<1>1. UNCHANGED <<desk, runtime, taken, panel, actions, view, reads>> /\ calls' \subseteq calls
  BY DEF Land
<1>2. Lands
  BY <1>1 DEF Lands
<1>3. LinesOwn' /\ LinesRight'
  BY <1>1, <1>2, LinesKeep
<1>4. ReadRight' /\ SliceRight' /\ FlowRight'
  BY <1>1 DEF IInv, ReadRight, SliceRight, FlowRight, Kinds
<1>5. Awaited' = Awaited
  BY <1>1 DEF Awaited
<1>6. ConflictRight' /\ UnconfirmedRight' /\ SwitchRight'
  BY <1>1, <1>2, <1>5, AwaitedKeep
<1> QED BY <1>1, <1>2, <1>3, <1>4, <1>6, PartsStay, WindowKeeps


\* What the answer of a change of settings is, once it counts.
LEMMA LandSettingKeeps ==
  ASSUME IInv, NEW call \in calls, Land(call), Counts(call), call.what \in Fields
  PROVE  IInv'
<1> DEFINE word == call.word
           why == RereadOf(call, word)
           s == Settled(actions, call, word)
<1>1. /\ UNCHANGED <<desk, runtime, taken, panel>> /\ calls' = calls \ {call} /\ word # Nothing
      /\ actions' = s /\ reads' = Wrote(reads)
      /\ view' = IF word = "Applied" THEN ConfigApplied(call.now) ELSE view
  BY DEF Land
<1>2. /\ TypeOK /\ IsActions(actions) /\ desk \in Desks /\ ReadsOK /\ ViewOK /\ FlowRight
      /\ TicketsApart /\ SwitchOfItsCall /\ AnswersRight /\ LateApart
  BY DEF IInv, TypeOK
<1>3. /\ call.what \in desk.fields /\ call.what \notin Scheduling /\ call.what # Nothing
      /\ word \in Answers /\ call.ticket \in 1 .. actions.issued /\ call.ticket # 0
      /\ call.of \in Everyone /\ call.based \in Nat /\ call.now \in Nat
      /\ call.what = "Backends" => call.of \in Accounts
  <2>1. /\ call.what \in desk.fields \cup Scheduling /\ call \in CallTypes(call.what)
        /\ <<call.what, call.of>> \in Keys
    BY <1>2 DEF TypeOK, CallsOK, IsCall
  <2>2. call.what \in desk.fields /\ call.what \notin Scheduling /\ call.what # Nothing
    BY <1>2, <2>1, DeskFacts, NothingSaid
  <2>3. call.what = "Backends" => call.of \in Accounts
    BY <1>2, <2>1, DeskFacts DEF Keys, Owners, HostFields
  <2> QED BY <1>1, <2>1, <2>2, <2>3, NoTicket DEF CallTypes
<1>4. /\ IsActions(s) /\ s.issued = actions.issued /\ s.asked = actions.asked
      /\ s.form.owner \in {actions.form.owner, Nothing}
      /\ s.flow = IF why = Nothing THEN Idle ELSE Rereading(call.what, why, call.based)
      /\ why = "Switch" =>
            s.pending = [of |-> call.of, based |-> call.based, ticket |-> call.ticket,
                         waited |-> FALSE, over |-> FALSE]
      /\ s.behind = (actions.behind \/ word = "Applied")
      /\ \A at \in desk.fields :
            s.said[at] = IF at = call.what
                         THEN [word |-> IF why = Nothing THEN word ELSE "Rereading",
                               ticket |-> call.ticket, of |-> call.of]
                         ELSE actions.said[at]
  <2>1. SettledTo(actions, s, call, word)
    <3> HIDE DEF s, word
    <3>1. word \in Answers \cup {"NoThread"}
      BY <1>3
    <3> QED BY <1>2, <1>3, <3>1, SettledIs DEF s
  <2> HIDE DEF s, word
  <2> QED BY <1>3, <2>1 DEF SettledTo
<1> HIDE DEF s
<1>5. /\ why \in Whys \cup {Nothing} /\ (why = "Conflict" <=> word = "Conflict")
      /\ why = "Switch" => word = "Unconfirmed" /\ call.what = "Backends"
      /\ why = "Unconfirmed" => word = "Unconfirmed" /\ call.what # "Backends"
  BY NothingSaid DEF RereadOf, Whys
<1> HIDE DEF why
<1>6. Lands /\ IsActions(actions)'
  BY <1>1, <1>4, ActionsMove DEF Lands
<1>7. /\ ReadsOK' /\ \A read \in Kinds : reads'[read].found = Nothing
      /\ "status" \in Kinds
  BY <1>1, <1>2, WroteReads
<1>8. Kinds' = Kinds
  BY <1>1 DEF Kinds
\* What is known of the request as it lands.
<1>9. Gone(call.ticket)'
  BY <1>1, <1>2 DEF TicketsApart, Gone
<1>23. \A l \in runtime.late : l.ticket = call.ticket =>
                word = "Unconfirmed" /\ l.what = call.what /\ l.of = call.of
  BY <1>2 DEF LateApart, SameRequest
<1>10. word \in Untaken => Dead(call.ticket)'
  <2>1. "Unconfirmed" \notin Untaken
    BY DEF Untaken
  <2> QED BY <1>1, <1>2, <1>9, <1>23, <2>1 DEF AnswersRight, SwitchOfItsCall, Dead, Gone, Coming
<1>11. LinesOwn'
  <2> SUFFICES ASSUME NEW at \in desk.fields
               PROVE  /\ \A c \in calls' : actions'.said[at].ticket = c.ticket => c.what = at
                      /\ \A l \in runtime.late : actions'.said[at].ticket = l.ticket => l.what = at
                      /\ actions'.said[at].ticket # 0 /\ actions'.said[at].ticket = runtime.switch.ticket =>
                             at = "Backends"
    BY <1>1 DEF LinesOwn
  <2>1. CASE at = call.what
    BY <1>1, <1>2, <1>4, <1>9, <1>23, <2>1 DEF SwitchOfItsCall, Gone
  <2>2. CASE at # call.what
    BY <1>1, <1>4, <2>2 DEF IInv, LinesOwn
  <2> QED BY <2>1, <2>2
<1>12. LinesRight'
  <2> SUFFICES ASSUME NEW at \in desk.fields, actions'.said[at].word \in Undone
               PROVE  \/ Dead(actions.said[at].ticket)'
                      \/ (actions'.said[at].word = "NotApplied" /\ Missed(actions.said[at].ticket)')
    BY <1>1 DEF LinesRight
  <2>1. CASE at = call.what
    <3>1. actions'.said[at].word = word /\ actions'.said[at].ticket = call.ticket
      BY <1>1, <1>4, <2>1 DEF Undone
    <3>2. word \in Untaken
      BY <1>3, <3>1 DEF Answers, Undone, Untaken
    <3> QED BY <1>10, <3>1, <3>2 DEF Dead, Gone, Coming
  <2>2. CASE at # call.what
    <3>1. actions'.said[at] = actions.said[at]
      BY <1>1, <1>4, <2>2
    <3>2. \/ Dead(actions.said[at].ticket)
          \/ (actions.said[at].word = "NotApplied" /\ Missed(actions.said[at].ticket))
      BY <3>1 DEF IInv, LinesRight
    <3> QED BY <1>6, <3>1, <3>2, DeadLands
  <2> QED BY <2>1, <2>2
<1>13. ReadRight'
  BY <1>7, <1>8 DEF ReadRight
<1>14. FlowRight'
  <2>1. actions'.form.owner # Nothing \/ actions'.asked # Nothing => "Quiet" \in desk.fields
    BY <1>1, <1>2, <1>4 DEF FlowRight
  <2>2. CASE why = Nothing
    BY <1>1, <1>4, <2>1, <2>2 DEF FlowRight, Idle
  <2>3. CASE why # Nothing
    BY <1>1, <1>3, <1>4, <2>1, <2>3 DEF FlowRight, Rereading
  <2> QED BY <2>2, <2>3
<1>15. /\ actions'.flow.why = why
       /\ why # Nothing =>
             actions'.flow.field = call.what /\ actions'.flow.arg = call.based
  BY <1>1, <1>4 DEF Idle, Rereading
<1>16. why # Nothing => Awaited' = call.ticket
  BY <1>1, <1>3, <1>4, <1>15 DEF Awaited
<1>17. \A based : "config" \in Kinds /\ reads'["config"].found # Nothing =>
                      based < reads'["config"].found.version
  BY <1>7
<1>18. ConflictRight'
  BY <1>5, <1>10, <1>15, <1>16, NothingSaid DEF ConflictRight, Untaken, Whys, Dead, Gone
<1>19. word = "Unconfirmed" /\ call.ticket \in taken /\ desk.versioned => call.based < runtime.version
  BY <1>2 DEF AnswersRight
<1>24. desk.versioned => call.based <= runtime.version
  BY <1>3 DEF IInv, RulesRight
<1>20. UnconfirmedRight'
  <2> SUFFICES ASSUME why = "Unconfirmed" PROVE UnconfirmedRight'
    BY <1>15 DEF UnconfirmedRight
  <2>1. Awaited' = call.ticket /\ Gone(Awaited)' /\ actions'.flow.arg = call.based
    BY <1>9, <1>15, <1>16, NothingSaid DEF Whys, Gone
  <2>2. ReadPast(actions.flow.arg)' /\ ReadNone'
    BY <1>7, <1>8 DEF ReadPast, ReadNone
  <2>3. Awaited' \in taken' /\ desk'.versioned => actions'.flow.arg < runtime'.version
    BY <1>1, <1>5, <1>19, <2>1
  <2>4. actions'.flow.field # "Backends" /\ (desk'.versioned => actions'.flow.arg <= runtime'.version)
    BY <1>1, <1>5, <1>15, <1>24, <2>1, NothingSaid DEF Whys
  <2> QED BY <2>1, <2>2, <2>3, <2>4 DEF UnconfirmedRight
<1>21. SwitchRight'
  <2> SUFFICES ASSUME why = "Switch" PROVE SwitchRight'
    BY <1>15 DEF SwitchRight
  <2>1. /\ actions'.pending.ticket = call.ticket /\ actions'.pending.of = call.of
        /\ actions'.pending.based = call.based /\ ~actions'.pending.waited
        /\ ~actions'.pending.over
        /\ actions'.pending \in Pendings(actions'.issued)
    <3>1. /\ actions'.pending = [of |-> call.of, based |-> call.based, ticket |-> call.ticket,
                                 waited |-> FALSE, over |-> FALSE]
          /\ actions'.issued = actions.issued
      BY <1>1, <1>4
    <3>2. call.of \in Accounts
      BY <1>3, <1>5, NothingSaid DEF Whys
    <3> QED BY <1>3, <3>1, <3>2 DEF Pendings
  <2>2. SwitchUnderWay' => runtime.switch.of = call.of
    BY <1>1, <1>2, <2>1 DEF SwitchUnderWay, SwitchOfItsCall
  <2>3. reads'["status"].found = Nothing
    BY <1>7
  <2>4. Gone(actions.pending.ticket)'
    BY <1>9, <2>1 DEF Gone
  <2>5. Awaited' = actions'.pending.ticket
    BY <1>16, <2>1, NothingSaid DEF Whys
  <2>6. actions'.flow.field = "Backends"
    BY <1>5, <1>15, NothingSaid DEF Whys
  <2>7. actions'.pending.ticket \in taken /\ desk.versioned => actions'.pending.based < runtime.version
    BY <1>5, <1>19, <2>1
  <2>8. /\ desk'.versioned => actions'.pending.based <= runtime'.version
        /\ \A l \in runtime'.late : l.ticket = actions'.pending.ticket => l.of = actions'.pending.of
    BY <1>1, <1>23, <1>24, <2>1
  <2> HIDE DEF word
  <2>9. SwitchSeenRight'
    BY <1>1, <2>1, <2>2, <2>3, <2>7 DEF SwitchSeenRight
  <2> QED BY <2>1, <2>4, <2>5, <2>6, <2>8, <2>9 DEF SwitchRight
<1>22. ViewOK' /\ SliceRight'
  <2>1. CASE word # "Applied"
    <3>1. view' = view /\ actions'.behind = actions.behind
      BY <1>1, <1>2, <1>4, <2>1 DEF IsActions
    <3> QED BY <1>1, <3>1, PartsStay DEF IInv, SliceRight
  <2>2. CASE word = "Applied"
    <3> DEFINE n == call.now
               slice == IF view.slice # Nothing /\ desk.versioned
                        THEN [view.slice EXCEPT !.version = n] ELSE view.slice
    <3>1. view' = [view EXCEPT !.slice = slice, !.answered = n]
      BY <1>1, <1>2, <2>2 DEF ConfigApplied, ViewOK
    <3>2. n \in Nat /\ (desk.versioned => n <= runtime.version)
      BY <1>2, <1>3, <2>2 DEF AnswersRight
    <3>3. /\ slice # Nothing => view.slice # Nothing
          /\ view.slice # Nothing =>
                /\ slice \in [version : Nat, rows : {slice.rows}, read : Nat]
                /\ slice.rows = view.slice.rows
                /\ desk.versioned => slice.version = n
      BY <1>2, <3>2 DEF ViewOK
    <3> HIDE DEF n, slice
    <3>4. /\ view' \in [online : BOOLEAN, epoch : Nat, pause : Pauses, slice : {slice},
                        failed : BOOLEAN, since : Nat, answered : Nat]
          /\ view'.slice = slice
      BY <1>2, <3>1, <3>2 DEF ViewOK
    <3>5. Keys' = Keys
      BY <1>1 DEF Keys, Owners
    <3>6. ViewOK'
      BY <1>2, <3>3, <3>4, <3>5 DEF ViewOK, IsRows
    <3>7. actions'.behind = TRUE
      BY <1>1, <1>4, <2>2
    <3>8. SliceRight'
      BY <1>1, <3>2, <3>3, <3>4, <3>7 DEF SliceRight
    <3> QED BY <3>6, <3>8
  <2> QED BY <2>1, <2>2
<1> QED BY <1>1, <1>4, <1>6, <1>7, <1>11, <1>12, <1>13, <1>14, <1>18, <1>20, <1>21, <1>22,
           PartsStay, WindowKeeps

\* A pause or a resume answered: a write, which changes no setting.
LEMMA LandSchedulingKeeps ==
  ASSUME IInv, NEW call \in calls, Land(call), Counts(call), call.what \in Scheduling
  PROVE  IInv'
<1> DEFINE word == call.word
           s == Settled(actions, call, word)
<1>1. /\ UNCHANGED <<desk, runtime, taken, panel>> /\ calls' = calls \ {call} /\ word # Nothing
      /\ actions' = s /\ reads' = Wrote(reads)
      /\ view' = IF word = "Applied" THEN ConfigApplied(call.now) ELSE view
  BY DEF Land
<1>2. /\ TypeOK /\ IsActions(actions) /\ desk \in Desks /\ ReadsOK /\ FlowRight
      /\ actions.flow \in Flows /\ AnswersRight
  BY DEF IInv, TypeOK, IsActions
<1>3. /\ word \in Answers /\ word # "Applied" /\ call.ticket \in 1 .. actions.issued
      /\ call.of \in Everyone /\ call.based \in Nat /\ call.what # "Backends"
  <2>1. call \in CallTypes(call.what) /\ call.what \notin Fields
    BY <1>2, DeskFacts DEF TypeOK, CallsOK, IsCall
  <2> QED BY <1>1, <1>2, <2>1 DEF CallTypes, AnswersRight, Scheduling
<1>4. /\ IsActions(s) /\ s.issued = actions.issued /\ s.asked = actions.asked
      /\ s.form.owner \in {actions.form.owner, Nothing}
      /\ s.flow = actions.flow /\ s.pending = actions.pending /\ s.behind = actions.behind
      /\ \A at \in desk.fields : s.said[at] = actions.said[at]
  <2>1. SettledTo(actions, s, call, word)
    <3> HIDE DEF s, word
    <3>1. word \in Answers \cup {"NoThread"}
      BY <1>3
    <3> QED BY <1>2, <1>3, <3>1, SettledIs DEF s
  <2> HIDE DEF s, word
  <2> QED BY <2>1 DEF SettledTo
<1> HIDE DEF s
<1>5. view' = view
  BY <1>1, <1>3
<1> HIDE DEF word
<1>6. Lands /\ IsActions(actions)'
  BY <1>1, <1>4, ActionsMove DEF Lands
<1>7. ReadsOK' /\ (\A read \in Kinds : reads'[read].found = Nothing) /\ "status" \in Kinds
  BY <1>1, <1>2, WroteReads
<1>8. LinesOwn' /\ LinesRight'
  BY <1>1, <1>4, <1>6, LinesKeep
<1>9. ReadRight' /\ SliceRight' /\ FlowRight'
  BY <1>1, <1>2, <1>4, <1>5, <1>7 DEF IInv, ReadRight, SliceRight, FlowRight, Kinds
<1>10. actions.flow.why # Nothing => Awaited' = Awaited
  BY <1>1, <1>2, <1>4 DEF FlowRight, Flows, Awaited
<1>11. ConflictRight' /\ UnconfirmedRight' /\ SwitchRight'
  BY <1>1, <1>4, <1>6, <1>7, <1>10, AwaitedKeep
<1> QED BY <1>1, <1>4, <1>5, <1>6, <1>7, <1>8, <1>9, <1>11, PartsStay, WindowKeeps


LEMMA LandCallKeeps == IInv /\ LandCall => IInv'
<1> SUFFICES ASSUME IInv, NEW call \in calls, Land(call) PROVE IInv'
  BY DEF LandCall
<1>1. call.what \in Fields \cup Scheduling
  BY DeskFacts DEF IInv, TypeOK, CallsOK, IsCall
<1> QED BY <1>1, LandLateKeeps, LandSettingKeeps, LandSchedulingKeeps

-----------------------------------------------------------------------------
(* The reads, up to their landing.                                         *)

\* What a read may find.
FoundOK(read, found) ==
    /\ read = "status" => found \in StatusFound \cup {Nothing}
    /\ read = "config" /\ found # Nothing =>
          /\ found \in [epoch : Nat, version : Nat, rows : {found.rows}, read : Nat]
          /\ IsRows(found.rows)
ReadAs(at, stale, found) == [at |-> at, stale |-> stale, found |-> found]
ReadGoes(read, at, stale, found) ==
    /\ reads' = [reads EXCEPT ![read] = ReadAs(at, stale, found)]
    /\ at \in {"none", "begun", "read"} /\ stale \in BOOLEAN
    /\ at # "read" \/ stale => found = Nothing

LEMMA NothingFound == \A read : FoundOK(read, Nothing)
BY DEF FoundOK

LEMMA AtMoved ==
  ASSUME NEW a, NEW s, NEW f, NEW b, NEW r, r = ReadAs(a, s, f)
  PROVE  [r EXCEPT !.at = b] = ReadAs(b, s, f)
BY DEF ReadAs

LEMMA FoundMoved ==
  ASSUME NEW a, NEW s, NEW f, NEW b, NEW r, r = ReadAs(a, s, f)
  PROVE  [r EXCEPT !.found = b] = ReadAs(a, s, b)
<1>1. r = [at |-> a, stale |-> s, found |-> f]
  BY DEF ReadAs
<1>2. [r EXCEPT !.found = b] = [at |-> a, stale |-> s, found |-> b]
  BY <1>1
<1> QED BY <1>2 DEF ReadAs

\* Where the reads stand changes, and one of them has found what there is, or nothing.
LEMMA ReadMoves ==
  ASSUME ReadsOK, UNCHANGED desk, NEW read \in Kinds, NEW at, NEW stale, NEW found,
         ReadGoes(read, at, stale, found), FoundOK(read, found)
  PROVE  /\ ReadsOK' /\ "status" \in Kinds
         /\ \A other \in Kinds :
               reads'[other].found = IF other = read THEN found ELSE reads[other].found
<1> USE DEF ReadGoes
<1>1. /\ Kinds' = Kinds /\ Keys' = Keys /\ "status" \in Kinds
      /\ DOMAIN reads = Kinds /\ DOMAIN reads' = Kinds
  BY DEF ReadsOK, Kinds, Keys, Owners
<1>2. \A other \in Kinds :
          reads'[other] = IF other = read THEN [at |-> at, stale |-> stale, found |-> found]
                          ELSE reads[other]
  BY <1>1 DEF ReadAs
<1>3. ASSUME NEW other \in Kinds
      PROVE  /\ reads'[other] \in [at : {"none", "begun", "read"}, stale : BOOLEAN,
                                   found : {reads'[other].found}]
             /\ reads'[other].at # "read" \/ reads'[other].stale => reads'[other].found = Nothing
  BY <1>2 DEF ReadsOK
<1>4. \A other \in Kinds :
          reads'[other].found = IF other = read THEN found ELSE reads[other].found
  BY <1>2
<1>5. reads'["status"].found \in StatusFound \cup {Nothing}
  BY <1>1, <1>4 DEF ReadsOK, FoundOK
<1>6. "config" \in Kinds /\ reads'["config"].found # Nothing =>
           /\ reads'["config"].found \in [epoch : Nat, version : Nat,
                                         rows : {reads'["config"].found.rows}, read : Nat]
           /\ IsRows(reads'["config"].found.rows)
  BY <1>4 DEF ReadsOK, FoundOK
<1>7. ReadsOK'
  BY <1>1, <1>3, <1>5, <1>6 DEF ReadsOK, IsRows, StatusFound
<1> QED BY <1>1, <1>4, <1>7

LEMMA ReadStands ==
  ASSUME ReadsOK, NEW read \in Kinds
  PROVE  /\ reads[read].at \in {"none", "begun", "read"} /\ reads[read].stale \in BOOLEAN
         /\ reads[read] = [at |-> reads[read].at, stale |-> reads[read].stale,
                           found |-> reads[read].found]
         /\ reads[read].at # "read" \/ reads[read].stale => reads[read].found = Nothing
         /\ DOMAIN reads = Kinds
BY DEF ReadsOK

\* A step of the reads that leaves what they found as it was, or gone.
LEMMA ReadsAloneKeep ==
  ASSUME IInv, UNCHANGED <<desk, taken, calls, view, actions, panel>>, RuntimeOK', ReadsOK',
         runtime'.version = runtime.version, runtime'.rows = runtime.rows,
         runtime'.switch = runtime.switch, runtime'.late = runtime.late,
         runtime'.missed = runtime.missed,
         \A read \in Kinds : reads'[read].found \in {reads[read].found, Nothing}
  PROVE  IInv'
<1>1. Lands /\ Awaited' = Awaited /\ "status" \in Kinds
  BY DEF Lands, Awaited, Kinds
<1>2. LinesOwn' /\ LinesRight'
  BY <1>1, LinesKeep
<1>3. ReadRight' /\ SliceRight' /\ FlowRight'
  BY DEF IInv, ReadRight, SliceRight, FlowRight, Kinds
<1>4. ConflictRight' /\ UnconfirmedRight' /\ SwitchRight'
  BY <1>1, AwaitedKeep
<1> QED BY <1>1, <1>2, <1>3, <1>4, PartsStay, WindowKeeps

LEMMA BeginReadKeeps ==
  ASSUME IInv, NEW read \in Kinds, BeginRead(read)
  PROVE  IInv'
<1>0. reads' = [reads EXCEPT ![read].at = "begun"]
  BY DEF BeginRead
<1>1. /\ reads[read].at = "none" /\ UNCHANGED <<desk, runtime, taken, calls, view, actions, panel>>
      /\ ReadsOK
  BY DEF BeginRead, IInv, TypeOK
<1>2. /\ reads[read].stale \in BOOLEAN /\ reads[read].found = Nothing
      /\ reads[read] = ReadAs("none", reads[read].stale, Nothing)
  BY <1>1, ReadStands DEF ReadAs
<1>3. reads' = [reads EXCEPT ![read] = ReadAs("begun", reads[read].stale, Nothing)]
  <2>1. [reads[read] EXCEPT !.at = "begun"] = ReadAs("begun", reads[read].stale, Nothing)
    BY <1>2, AtMoved
  <2>2. [reads EXCEPT ![read].at = "begun"] = [reads EXCEPT ![read] = [reads[read] EXCEPT !.at = "begun"]]
    OBVIOUS
  <2> QED BY <1>0, <2>1, <2>2
<1>4. ReadsOK' /\ \A other \in Kinds :
                      reads'[other].found = IF other = read THEN Nothing ELSE reads[other].found
  <2> DEFINE stale == reads[read].stale
  <2>1. /\ stale \in BOOLEAN /\ ReadsOK /\ UNCHANGED desk /\ FoundOK(read, Nothing)
        /\ ReadGoes(read, "begun", stale, Nothing)
    BY <1>1, <1>2, <1>3, NothingFound DEF ReadGoes
  <2> HIDE DEF stale
  <2> QED BY <2>1, ReadMoves
<1> QED BY <1>1, <1>4, PartsStay, ReadsAloneKeep

LEMMA FailReadKeeps ==
  ASSUME IInv, NEW read \in Kinds, FailRead(read)
  PROVE  IInv'
<1> DEFINE n == runtime.away + 1
<1>0. reads' = [reads EXCEPT ![read].at = "read"]
  BY DEF FailRead
<1>1. /\ reads[read].at = "begun" /\ UNCHANGED <<desk, taken, calls, view, actions, panel>>
      /\ runtime' = [runtime EXCEPT !.away = n]
      /\ ReadsOK /\ RuntimeOK
  BY DEF FailRead, IInv, TypeOK
<1>2. /\ reads[read].stale \in BOOLEAN /\ reads[read].found = Nothing
      /\ reads[read] = ReadAs("begun", reads[read].stale, Nothing)
  BY <1>1, ReadStands DEF ReadAs
<1>3. reads' = [reads EXCEPT ![read] = ReadAs("read", reads[read].stale, Nothing)]
  <2>1. [reads[read] EXCEPT !.at = "read"] = ReadAs("read", reads[read].stale, Nothing)
    BY <1>2, AtMoved
  <2>2. [reads EXCEPT ![read].at = "read"] = [reads EXCEPT ![read] = [reads[read] EXCEPT !.at = "read"]]
    OBVIOUS
  <2> QED BY <1>0, <2>1, <2>2
<1>4. ReadsOK' /\ \A other \in Kinds :
                      reads'[other].found = IF other = read THEN Nothing ELSE reads[other].found
  <2> DEFINE stale == reads[read].stale
  <2>1. /\ stale \in BOOLEAN /\ ReadsOK /\ UNCHANGED desk /\ FoundOK(read, Nothing)
        /\ ReadGoes(read, "read", stale, Nothing)
    BY <1>1, <1>2, <1>3, NothingFound DEF ReadGoes
  <2> HIDE DEF stale
  <2> QED BY <2>1, ReadMoves
<1>5. n \in Nat
  BY <1>1 DEF RuntimeOK, IsRuntime
<1> HIDE DEF n
<1>6. /\ RuntimeOK' /\ runtime'.version = runtime.version /\ runtime'.rows = runtime.rows
      /\ runtime'.switch = runtime.switch /\ runtime'.late = runtime.late
      /\ runtime'.missed = runtime.missed
  <2>1. /\ Keys' = Keys /\ (Switches \cup {NoSwitch})' = Switches \cup {NoSwitch}
    BY <1>1 DEF Keys, Owners, Switches
  <2>2. /\ runtime' \in [epoch : 1 .. desk.epochs, version : 1 .. desk.versions, rows : {runtime.rows},
                    pause : Pauses, pauses : Nat, switch : Switches \cup {NoSwitch}, away : Nat,
                    late : {runtime'.late}, missed : SUBSET (1 .. actions.issued)]
        /\ runtime'.version = runtime.version /\ runtime'.rows = runtime.rows
        /\ runtime'.switch = runtime.switch /\ runtime'.late = runtime.late
        /\ runtime'.missed = runtime.missed
    BY <1>1, <1>5 DEF RuntimeOK, IsRuntime
  <2> QED BY <1>1, <2>1, <2>2 DEF RuntimeOK, IsRuntime, IsRows
<1> QED BY <1>1, <1>4, <1>6, ReadsAloneKeep

LEMMA SampleReadKeeps ==
  ASSUME IInv, NEW read \in Kinds, SampleRead(read)
  PROVE  IInv'
<1> DEFINE found == IF reads[read].stale THEN Nothing
                    ELSE IF read = "status" THEN StatusNow ELSE ConfigNow
<1>0. reads' = [reads EXCEPT ![read].at = "read", ![read].found = found]
  BY DEF SampleRead
<1>1. /\ reads[read].at = "begun" /\ UNCHANGED <<desk, taken, calls, view, actions, panel>>
      /\ ReadsOK /\ RuntimeOK /\ desk \in Desks /\ read \in {"status", "config"}
      /\ TypeOK /\ runtime' = [runtime EXCEPT !.missed = @ \cup Missing(read)]
  BY DEF SampleRead, IInv, TypeOK, Kinds
\* What a read that counts does not show, it misses.
<1>a. runtime.switch.at = "claim" => runtime.switch.ticket \in 1 .. actions.issued
  BY <1>1 DEF RuntimeOK, IsRuntime, Switches, NoSwitch
<1>b. Missing(read) \subseteq 1 .. actions.issued
  BY <1>1, <1>a, TicketsPositive DEF Missing
<1>c. /\ RuntimeOK' /\ runtime'.missed = runtime.missed \cup Missing(read)
      /\ runtime'.version = runtime.version /\ runtime'.rows = runtime.rows
      /\ runtime'.switch = runtime.switch /\ runtime'.late = runtime.late
      /\ runtime'.pause = runtime.pause /\ runtime'.epoch = runtime.epoch
  <2> DEFINE missed == runtime.missed \cup Missing(read)
  <2>1. missed \in SUBSET (1 .. actions.issued)
    BY <1>1, <1>b DEF RuntimeOK, IsRuntime
  <2>2. runtime' = [runtime EXCEPT !.missed = missed]
    BY <1>1 DEF RuntimeOK, IsRuntime
  <2> HIDE DEF missed
  <2>3. /\ runtime'.version = runtime.version /\ runtime'.rows = runtime.rows
        /\ runtime'.switch = runtime.switch /\ runtime'.late = runtime.late
        /\ runtime'.pause = runtime.pause /\ runtime'.epoch = runtime.epoch
        /\ runtime'.missed = missed
        /\ IsRuntime(runtime')
    BY <1>1, <2>1, <2>2 DEF RuntimeOK, IsRuntime
  <2>4. Keys' = Keys /\ (Switches \cup {NoSwitch})' = Switches \cup {NoSwitch}
    BY <1>1 DEF Keys, Owners, Switches
  <2>5. RuntimeOK'
    BY <1>1, <2>3, <2>4 DEF RuntimeOK, IsRuntime, IsRows
  <2> QED BY <2>3, <2>5 DEF missed
<1>d. ASSUME ~reads[read].stale, NEW ticket, Gone(ticket), ticket \notin runtime'.missed
      PROVE  /\ \A l \in runtime.late : l.ticket = ticket =>
                    read # (IF l.what = "Backends" THEN "status" ELSE "config")
             /\ read = "status" /\ runtime.switch.at = "claim" /\ runtime.switch.ticket = ticket =>
                    ~runtime.switch.late
  <2>1. ticket \notin Missing(read)
    BY <1>c, <1>d
  <2>2. \A c \in calls : c.ticket # ticket
    BY <1>d DEF Gone
  <2> QED BY <1>d, <2>1, <2>2 DEF Missing
<1>2. /\ reads[read].stale \in BOOLEAN /\ DOMAIN reads = Kinds
      /\ reads[read] = ReadAs("begun", reads[read].stale, reads[read].found)
  BY <1>1, ReadStands DEF ReadAs
<1>3. reads' = [reads EXCEPT ![read] = ReadAs("read", reads[read].stale, found)]
  <2> DEFINE next == [reads EXCEPT ![read].at = "read"]
             stale == reads[read].stale
  <2> HIDE DEF found
  <2>1. reads' = [next EXCEPT ![read].found = found]
    BY <1>0
  <2>2. next = [reads EXCEPT ![read] = [reads[read] EXCEPT !.at = "read"]]
    OBVIOUS
  <2>3. reads[read] = ReadAs("begun", stale, reads[read].found)
    BY <1>2
  <2> HIDE DEF next, stale
  <2>4. [reads[read] EXCEPT !.at = "read"] = ReadAs("read", stale, reads[read].found)
    BY <2>3, AtMoved
  <2>5. /\ next[read] = ReadAs("read", stale, reads[read].found)
        /\ [next EXCEPT ![read] = ReadAs("read", stale, found)] =
              [reads EXCEPT ![read] = ReadAs("read", stale, found)]
    BY <1>2, <2>2, <2>4
  <2>6. [next EXCEPT ![read].found = found] = [next EXCEPT ![read] = [next[read] EXCEPT !.found = found]]
    OBVIOUS
  <2>7. [next[read] EXCEPT !.found = found] = ReadAs("read", stale, found)
    BY <2>5, FoundMoved
  <2> QED BY <2>1, <2>5, <2>6, <2>7 DEF stale
<1>4. runtime.switch.ticket # 0 => runtime.switch.at \in {"claim", "check"}
  BY <1>1 DEF RuntimeOK, IsRuntime, Switches, NoSwitch
<1>5. StatusNow \in StatusFound
  <2>1. runtime.epoch \in Nat /\ runtime.pause \in Pauses
    BY <1>1, WritesAssumption DEF RuntimeOK, IsRuntime, DeskTypes
  <2>2. runtime.switch.at = "check" => runtime.switch.of \in Accounts
    BY <1>1 DEF RuntimeOK, IsRuntime, Switches, NoSwitch
  <2> QED BY <2>1, <2>2 DEF StatusNow, StatusFound, Claiming
<1>6. ConfigNow \in [epoch : Nat, version : Nat, rows : {runtime.rows}, read : Nat] /\ IsRows(runtime.rows)
  BY <1>1, WritesAssumption DEF RuntimeOK, IsRuntime, DeskTypes, ConfigNow, Version
<1>7. /\ ReadsOK' /\ "status" \in Kinds
      /\ \A other \in Kinds :
             reads'[other].found = IF other = read THEN found ELSE reads[other].found
  <2>1. (reads[read].stale => found = Nothing) /\ FoundOK(read, found)
    BY <1>1, <1>5, <1>6, NothingFound DEF FoundOK, ConfigNow
  <2> DEFINE stale == reads[read].stale
  <2>2. /\ stale \in BOOLEAN /\ ReadsOK /\ UNCHANGED desk
        /\ ReadGoes(read, "read", stale, found)
    <3> HIDE DEF found
    <3> QED BY <1>1, <1>2, <1>3, <2>1 DEF ReadGoes
  <2> HIDE DEF stale, found
  <2> QED BY <2>1, <2>2, ReadMoves
<1>8. Lands /\ Awaited' = Awaited /\ Kinds' = Kinds
  BY <1>1, <1>c DEF Lands, Awaited, Kinds
<1>e. reads[read].stale => found = Nothing
  OBVIOUS
<1>9. LinesOwn' /\ LinesRight'
  BY <1>1, <1>8, LinesKeep
<1>10. SliceRight' /\ FlowRight'
  BY <1>1, <1>c DEF IInv, SliceRight, FlowRight
<1>11. /\ ReadRight'
       /\ (\A based : desk.versioned /\ based < runtime.version /\ ReadPast(based)
              => ReadPast(based)')
  <2>1. CASE read = "config"
    <3>1. reads'["config"].found \in {Nothing, ConfigNow}
      BY <1>7, <2>1
    <3>2. /\ runtime.version \in Nat /\ ConfigNow.rows = runtime.rows
          /\ ConfigNow.version = IF desk.versioned THEN runtime.version ELSE 0
      BY <1>1 DEF RuntimeOK, IsRuntime, ConfigNow, Version
    <3> HIDE DEF found
    <3> QED BY <1>1, <1>8, <1>c, <3>1, <3>2 DEF ReadRight, ReadPast
  <2>2. CASE read # "config"
    <3>1. "config" \in Kinds => reads'["config"].found = reads["config"].found
      BY <1>7, <2>2
    <3> QED BY <1>1, <1>8, <1>c, <3>1 DEF IInv, ReadRight, ReadPast
  <2> QED BY <2>1, <2>2
<1>12. ConflictRight'
  BY <1>1, <1>8, DeadLands DEF IInv, ConflictRight
<1>13. UnconfirmedRight'
  <2> SUFFICES ASSUME actions.flow.why = "Unconfirmed" PROVE UnconfirmedRight'
    BY <1>1 DEF UnconfirmedRight
  <2>1. UnconfirmedRight
    BY DEF IInv
  <2>2. Gone(Awaited)' /\ (Coming(Awaited)' <=> Coming(Awaited)) /\ (Missed(Awaited) => Missed(Awaited)')
    BY <1>8, <2>1, DeadLands DEF UnconfirmedRight
  <2>3. ASSUME ~Missed(Awaited)', Coming(Awaited) PROVE ReadNone'
    <3>1. ReadNone
      BY <2>1, <2>2, <2>3 DEF UnconfirmedRight
    <3>2. CASE read = "config" /\ ~reads[read].stale
      <4>1. PICK l \in runtime.late : l.ticket = Awaited
        BY <2>3 DEF Coming
      <4>2. actions.flow.field # "Backends" /\ actions.flow.field \in desk.fields /\ Gone(Awaited)
        BY <1>1, <2>1, NothingSaid DEF IInv, FlowRight, TypeOK, IsActions, Flows, UnconfirmedRight, Whys
      <4>3. l.what # "Backends"
        BY <4>1, <4>2 DEF IInv, LinesOwn, Awaited
      <4>4. Awaited \notin runtime'.missed
        BY <1>8, <2>3 DEF Missed
      <4> QED BY <1>d, <3>2, <4>1, <4>2, <4>3, <4>4, <1>8
    <3>3. CASE read # "config" \/ reads[read].stale
      <4> HIDE DEF found
      <4> QED BY <1>7, <1>8, <1>e, <3>1, <3>3 DEF ReadNone
    <3> QED BY <3>2, <3>3
  <2>4. actions'.flow = actions.flow /\ desk' = desk /\ taken' = taken
        /\ runtime'.version = runtime.version
    BY <1>1, <1>c
  <2>5. Awaited' \in taken' /\ desk'.versioned /\ ~Missed(Awaited)' =>
            actions'.flow.arg < runtime'.version /\ ReadPast(actions.flow.arg)'
    BY <1>8, <1>11, <2>1, <2>2, <2>4 DEF UnconfirmedRight
  <2> QED BY <1>8, <2>1, <2>2, <2>3, <2>4, <2>5 DEF UnconfirmedRight
<1>14. SwitchRight'
  <2> SUFFICES ASSUME actions.flow.why = "Switch" PROVE SwitchRight'
    BY <1>1 DEF SwitchRight
  <2>1. SwitchRight
    BY DEF IInv
  <2>2. (SwitchUnderWay)' = SwitchUnderWay /\ (Pendings(actions.issued))' = Pendings(actions.issued)
    BY <1>1, <1>c DEF SwitchUnderWay, Pendings
  <2>3. /\ Gone(actions.pending.ticket) /\ Gone(actions.pending.ticket)'
        /\ Coming(actions.pending.ticket)' <=> Coming(actions.pending.ticket)
        /\ Missed(actions.pending.ticket) => Missed(actions.pending.ticket)'
    BY <1>1, <1>8, <2>1, DeadLands DEF SwitchRight
  <2>4. ASSUME ~Missed(actions.pending.ticket)' PROVE SwitchSeenRight'
    <3>1. SwitchSeenRight
      BY <2>1, <2>3, <2>4 DEF SwitchRight
    <3>9. actions.pending.ticket \in taken /\ desk.versioned =>
              /\ actions.pending.based < runtime.version
              /\ actions.pending.over => ReadPast(actions.pending.based)'
      BY <1>1, <1>11, <3>1 DEF SwitchSeenRight
    <3>2. CASE read = "status" /\ ~reads[read].stale
      <4> DEFINE ticket == actions.pending.ticket
      <4>0. Gone(ticket) /\ ticket \notin runtime'.missed
        BY <1>1, <2>3, <2>4 DEF Missed
      <4>8. /\ \A l \in runtime.late : l.ticket = ticket => l.what # "Backends"
            /\ runtime.switch.at = "claim" /\ runtime.switch.ticket = ticket => ~runtime.switch.late
        <5> HIDE DEF ticket
        <5> QED BY <1>d, <3>2, <4>0
      <4>9. \A l \in runtime.late : l.ticket = ticket => l.what = "Backends"
        <5>1. "Backends" \in desk.fields /\ actions.flow.field = "Backends" /\ Awaited = ticket
          BY <1>1, <2>1, NothingSaid DEF SwitchRight, TypeOK, IsActions, Flows, Fields, DraftFields
        <5> QED BY <5>1 DEF IInv, LinesOwn, Awaited
      <4>1. reads'["status"].found \in {Nothing, StatusNow}
        BY <1>7, <3>2
      <4>2. SwitchUnderWay => runtime.switch.at \in {"claim", "check"}
        BY <1>4, <2>1 DEF SwitchUnderWay, SwitchRight, Pendings
      <4>3. SwitchUnderWay /\ runtime.switch.at = "claim" =>
                StatusNow.claim /\ ~actions.pending.waited
        BY <3>1, <4>8 DEF SwitchSeenRight, StatusNow, SwitchUnderWay, Claiming
      <4>4. SwitchUnderWay /\ runtime.switch.at = "check" => StatusNow.checking = actions.pending.of
        BY <3>1 DEF SwitchSeenRight, StatusNow
      <4>5. ~Coming(ticket)
        BY <4>8, <4>9 DEF Coming
      <4>6. ~Coming(actions.pending.ticket)'
        BY <2>3, <4>5
      <4> HIDE DEF found, ticket
      <4>7. SwitchUnderWay => /\ ~actions.pending.over /\ runtime.switch.of = actions.pending.of
                              /\ actions.pending.waited => ~Claiming
                              /\ reads'["status"].found # Nothing =>
                                    \/ (reads'["status"].found.claim /\ ~actions.pending.waited)
                                    \/ reads'["status"].found.checking = actions.pending.of
        BY <3>1, <4>1, <4>2, <4>3, <4>4 DEF SwitchSeenRight
      <4> QED BY <2>2, <3>9, <4>6, <4>7, <1>1, <1>c DEF SwitchSeenRight, Claiming
    <3>3. CASE read # "status" \/ reads[read].stale
      <4> HIDE DEF found
      <4>1. reads'["status"].found \in {reads["status"].found, Nothing}
        BY <1>7, <1>e, <3>3
      <4> QED BY <1>1, <1>c, <2>2, <2>3, <3>1, <3>9, <4>1 DEF SwitchSeenRight, Claiming
    <3> QED BY <3>2, <3>3
  <2>5. /\ actions'.flow.field = "Backends" /\ Awaited' = actions'.pending.ticket
        /\ actions'.pending \in Pendings(actions'.issued)
        /\ desk'.versioned => actions'.pending.based <= runtime'.version
        /\ \A l \in runtime'.late : l.ticket = actions'.pending.ticket => l.of = actions'.pending.of
    BY <1>1, <1>8, <1>c, <2>1 DEF SwitchRight
  <2> HIDE DEF found
  <2> QED BY <2>3, <2>4, <2>5 DEF SwitchRight
<1> HIDE DEF found
<1> QED BY <1>1, <1>7, <1>8, <1>9, <1>10, <1>11, <1>12, <1>13, <1>14, <1>c, PartsStay, WindowKeeps


-----------------------------------------------------------------------------
(* What a read that lands makes of the Actions.                            *)

\* Another form, if it goes, and another question, if it does: nothing else.
Followed(a, b) ==
    /\ Kept(a, b) /\ b.flow = a.flow
    /\ b.form.owner \in {a.form.owner, Nothing} /\ b.asked \in {a.asked, Nothing}

LEMMA ReviewedIs ==
  ASSUME NEW a, IsActions(a), NEW v, NEW account
  PROVE  Followed(a, Reviewed(a, v, account))
<1> DEFINE form == IF a.form.owner \in {Nothing, account} THEN a.form ELSE NoForm
           asked == IF a.asked = account THEN a.asked ELSE Nothing
           b == [a EXCEPT !.form = form]
           c == [b EXCEPT !.asked = asked]
           d == [c EXCEPT !.asked = Nothing]
<1>1. a.form \in Forms /\ a.asked \in Accounts \cup {Nothing} /\ NoForm \in Forms
  BY DEF IsActions, NoForm, Forms
<1>2. form \in Forms /\ form.owner \in {a.form.owner, Nothing}
  BY <1>1 DEF NoForm
<1>3. asked \in Accounts \cup {Nothing} /\ asked \in {a.asked, Nothing}
  BY <1>1
<1>4. RulesFollow(a, account) = c
  BY DEF RulesFollow
<1> HIDE DEF form, asked
<1>5. Kept(a, b) /\ b.asked = a.asked /\ b.form = form /\ b.flow = a.flow
  BY <1>2, PlainFields
<1>6. IsActions(b)
  BY <1>5 DEF Kept
<1> HIDE DEF b
<1>7. Kept(b, c) /\ c.asked = asked /\ c.form = b.form /\ c.flow = b.flow
  BY <1>3, <1>6, PlainFields
<1>8. IsActions(c)
  BY <1>7 DEF Kept
<1> HIDE DEF c
<1>9. Kept(c, d) /\ d.asked = Nothing /\ d.form = c.form /\ d.flow = c.flow
  BY <1>8, PlainFields
<1> HIDE DEF d
<1>10. Followed(a, c)
  BY <1>2, <1>3, <1>5, <1>7 DEF Followed, Kept
<1>11. Followed(a, d)
  BY <1>2, <1>5, <1>7, <1>9 DEF Followed, Kept
<1>12. Reviewed(a, v, account) = c \/ Reviewed(a, v, account) = d
  BY <1>4 DEF Reviewed, d
<1> QED BY <1>10, <1>11, <1>12

LEMMA StatusLostIs ==
  ASSUME NEW a, IsActions(a)
  PROVE  LET b == StatusLost(a)
         IN /\ Kept(a, b) /\ b.form = a.form /\ b.asked = Nothing
            /\ b.flow = IF a.flow.at = "Confirming" THEN Idle ELSE a.flow
<1> DEFINE flow == IF a.flow.at = "Confirming" THEN Idle ELSE a.flow
           b == [a EXCEPT !.confirming = 0]
           c == [b EXCEPT !.asked = Nothing]
           d == [c EXCEPT !.flow = flow]
<1>1. flow \in Flows /\ StatusLost(a) = d
  BY DEF IsActions, Idle, Flows, StatusLost
<1> HIDE DEF flow
<1>2. Kept(a, b) /\ b.asked = a.asked /\ b.form = a.form /\ b.flow = a.flow
  BY PlainFields
<1>3. IsActions(b)
  BY <1>2 DEF Kept
<1> HIDE DEF b
<1>4. Kept(b, c) /\ c.asked = Nothing /\ c.form = b.form /\ c.flow = b.flow
  BY <1>3, PlainFields
<1>5. IsActions(c)
  BY <1>4 DEF Kept
<1> HIDE DEF c
<1>6. Kept(c, d) /\ d.asked = c.asked /\ d.form = c.form /\ d.flow = flow
  BY <1>1, <1>5, PlainFields
<1> HIDE DEF d
<1> QED BY <1>1, <1>2, <1>4, <1>6 DEF Kept, flow

\* After another epoch nothing is awaited, and no line speaks of a request.
LEMMA NewEpochIs ==
  ASSUME desk \in Desks, NEW a, IsActions(a)
  PROVE  LET b == NewEpoch(a)
         IN /\ IsActions(b) /\ b.issued = a.issued /\ b.flow = Idle /\ b.form = NoForm
            /\ b.asked = Nothing
            /\ \A at \in desk.fields : b.said[at].ticket = 0 /\ b.said[at].word \notin Undone
<1> USE DeskFacts
<1> DEFINE restarted == (IF a.out["Scheduling"] # 0 THEN {"Scheduling"} ELSE {})
                        \cup (IF a.flow.field # Nothing THEN {a.flow.field} ELSE {})
           out == [slot \in Slots |-> 0]
           drafts == [key \in DOMAIN a.drafts |-> NoDraft]
           said == [at \in Lines |->
                       IF at \in restarted
                       THEN [word |-> "Restarted", ticket |-> 0, of |-> a.said[at].of]
                       ELSE NoSaid]
           target == IF restarted \cap RuleFields = {} THEN Nothing ELSE a.target
           b == [a EXCEPT !.out = out, !.confirming = 0, !.flow = Idle, !.drafts = drafts,
                          !.pending = Nothing, !.said = said, !.target = target, !.form = NoForm,
                          !.asked = Nothing, !.behind = FALSE]
<1>1. /\ a \in [issued : 0 .. desk.presses, out : [Slots -> 0 .. a.issued], confirming : Nat,
              flow : Flows, drafts : Drafts,
              pending : Pendings(a.issued) \cup {Nothing}, said : {a.said},
              target : Accounts \cup {Nothing}, form : Forms,
              asked : Accounts \cup {Nothing}, behind : BOOLEAN]
      /\ DOMAIN a.said = Lines /\ \A at \in desk.fields : a.said[at] \in Saids(a.issued)
      /\ a.issued \in Nat
  BY DEF IsActions, Drafts
<1>2. NewEpoch(a) = b
  BY <1>1 DEF NewEpoch
<1>3. out \in [Slots -> 0 .. a.issued] /\ drafts \in Drafts
  BY <1>1 DEF Drafts
<1>4. /\ DOMAIN said = Lines
      /\ \A at \in desk.fields :
            said[at] \in {[word |-> "Restarted", ticket |-> 0, of |-> a.said[at].of], NoSaid}
  OBVIOUS
<1>5. target \in Accounts \cup {Nothing} /\ NoForm \in Forms /\ Idle \in Flows
  BY <1>1 DEF NoForm, Forms, Idle, Flows
<1> HIDE DEF out, drafts, said, target
<1>6. /\ b \in [issued : 0 .. desk.presses, out : [Slots -> 0 .. a.issued], confirming : Nat,
              flow : Flows, drafts : Drafts,
              pending : Pendings(a.issued) \cup {Nothing}, said : {said},
              target : Accounts \cup {Nothing}, form : Forms,
              asked : Accounts \cup {Nothing}, behind : BOOLEAN]
      /\ b.issued = a.issued /\ b.flow = Idle /\ b.form = NoForm /\ b.asked = Nothing
      /\ b.said = said
  BY <1>1, <1>3, <1>5
<1> HIDE DEF b
<1>7. \A at \in desk.fields :
          said[at] \in Saids(a.issued) /\ said[at].ticket = 0 /\ said[at].word \notin Undone
  <2> SUFFICES ASSUME NEW at \in desk.fields
               PROVE  said[at] \in Saids(a.issued) /\ said[at].ticket = 0 /\ said[at].word \notin Undone
    OBVIOUS
  <2>1. 0 \in 0 .. a.issued /\ a.said[at].of \in Everyone
    BY <1>1 DEF Saids
  <2>2. CASE said[at] = NoSaid
    BY <2>1, <2>2, NothingSaid DEF NoSaid, Saids, Undone, Everyone, Words, Answers
  <2>3. CASE said[at] = [word |-> "Restarted", ticket |-> 0, of |-> a.said[at].of]
    BY <2>1, <2>3 DEF Saids, Undone, Words
  <2> QED BY <1>4, <2>2, <2>3
<1>8. IsActions(b)
  BY <1>4, <1>6, <1>7 DEF IsActions, Drafts
<1> QED BY <1>2, <1>6, <1>7, <1>8

\* Nothing is under way.
LEMMA IdleFlow == Idle.at = "Idle" /\ Idle.why = Nothing /\ Idle.field = Nothing
BY DEF Idle

LEMMA StatusReadIs ==
  ASSUME desk \in Desks, NEW a, IsActions(a), NEW read,
         a.flow.why = "Switch" => a.pending \in Pendings(a.issued)
  PROVE  LET b == StatusRead(a, read)
         IN /\ IsActions(b) /\ b.issued = a.issued /\ b.flow = a.flow /\ b.form = a.form
            /\ b.asked = a.asked /\ b.behind = a.behind
            /\ b.pending = IF SwitchSeen(a, read.checking) THEN [a.pending EXCEPT !.over = TRUE]
                           ELSE a.pending
            /\ \A at \in desk.fields : b.said[at] = a.said[at]
<1> USE DeskFacts
<1> DEFINE word == a.said["Scheduling"].word
           overtaken == \/ word = "PauseApplied" /\ read.pause = NoPause
                        \/ word = "Resumed" /\ read.pause # NoPause
           confirming == IF a.confirming = read.pause.rev THEN a.confirming ELSE 0
           line == IF overtaken THEN NoSaid ELSE a.said["Scheduling"]
           said == [a.said EXCEPT !["Scheduling"] = line]
           pending == IF SwitchSeen(a, read.checking) THEN [a.pending EXCEPT !.over = TRUE]
                      ELSE a.pending
           b == [a EXCEPT !.confirming = confirming, !.said = said, !.pending = pending]
<1>1. /\ a \in [issued : 0 .. desk.presses, out : [Slots -> 0 .. a.issued], confirming : Nat,
              flow : Flows, drafts : Drafts,
              pending : Pendings(a.issued) \cup {Nothing}, said : {a.said},
              target : Accounts \cup {Nothing}, form : Forms,
              asked : Accounts \cup {Nothing}, behind : BOOLEAN]
      /\ DOMAIN a.said = Lines /\ \A at \in desk.fields : a.said[at] \in Saids(a.issued)
      /\ a.issued \in Nat
  BY DEF IsActions, Drafts
<1>2. StatusRead(a, read) = b
  BY <1>1 DEF StatusRead
<1>3. confirming \in Nat /\ pending \in Pendings(a.issued) \cup {Nothing}
  BY <1>1 DEF SwitchSeen, Pendings
<1>4. DOMAIN said = Lines /\ \A at \in desk.fields : said[at] = a.said[at]
  BY <1>1
<1> HIDE DEF confirming, said, pending
<1>5. /\ b \in [issued : 0 .. desk.presses, out : [Slots -> 0 .. a.issued], confirming : Nat,
              flow : Flows, drafts : Drafts,
              pending : Pendings(a.issued) \cup {Nothing}, said : {said},
              target : Accounts \cup {Nothing}, form : Forms,
              asked : Accounts \cup {Nothing}, behind : BOOLEAN]
      /\ b.issued = a.issued /\ b.flow = a.flow /\ b.form = a.form /\ b.asked = a.asked
      /\ b.behind = a.behind /\ b.pending = pending /\ b.said = said
  BY <1>1, <1>3
<1> HIDE DEF b
<1>6. IsActions(b)
  BY <1>1, <1>4, <1>5 DEF IsActions, Drafts
<1> QED BY <1>2, <1>4, <1>5, <1>6 DEF pending


\* What a snapshot makes of the Actions before it judges anything: the lines of rules taken go,
\* and the drafts applied.
FirstRead(a) ==
    [a EXCEPT
       !.behind = FALSE,
       !.said = [at \in Lines |->
                   IF at \in RuleFields /\ a.said[at].word = "Applied" THEN NoSaid ELSE a.said[at]],
       !.drafts = [key \in DOMAIN a.drafts |->
                     IF a.drafts[key].applied THEN NoDraft ELSE a.drafts[key]]]

LEMMA FirstReadIs ==
  ASSUME desk \in Desks, NEW a, IsActions(a)
  PROVE  LET b == FirstRead(a)
         IN /\ IsActions(b) /\ b.issued = a.issued /\ b.flow = a.flow /\ b.pending = a.pending
            /\ b.form = a.form /\ b.asked = a.asked /\ b.behind = FALSE
            /\ \A at \in desk.fields :
                  /\ b.said[at] \in {a.said[at], NoSaid}
                  /\ at = "Backends" => b.said[at] = a.said[at]
<1> USE DeskFacts
<1> DEFINE said == [at \in Lines |->
                      IF at \in RuleFields /\ a.said[at].word = "Applied" THEN NoSaid ELSE a.said[at]]
           drafts == [key \in DOMAIN a.drafts |->
                        IF a.drafts[key].applied THEN NoDraft ELSE a.drafts[key]]
           b == [a EXCEPT !.behind = FALSE, !.said = said, !.drafts = drafts]
<1>1. /\ a \in [issued : 0 .. desk.presses, out : [Slots -> 0 .. a.issued], confirming : Nat,
              flow : Flows, drafts : Drafts,
              pending : Pendings(a.issued) \cup {Nothing}, said : {a.said},
              target : Accounts \cup {Nothing}, form : Forms,
              asked : Accounts \cup {Nothing}, behind : BOOLEAN]
      /\ DOMAIN a.said = Lines /\ \A at \in desk.fields : a.said[at] \in Saids(a.issued)
      /\ a.issued \in Nat
  BY DEF IsActions, Drafts
<1>2. FirstRead(a) = b
  BY DEF FirstRead
<1>3. drafts \in Drafts
  BY <1>1 DEF Drafts
<1>4. /\ DOMAIN said = Lines
      /\ \A at \in desk.fields :
            /\ said[at] \in {a.said[at], NoSaid}
            /\ at = "Backends" => said[at] = a.said[at]
  BY DEF RuleFields
<1>5. NoSaid \in Saids(a.issued)
  BY <1>1 DEF NoSaid, Saids, Everyone
<1> HIDE DEF said, drafts
<1>6. \A at \in desk.fields : said[at] \in Saids(a.issued)
  BY <1>1, <1>4, <1>5
<1>7. /\ b \in [issued : 0 .. desk.presses, out : [Slots -> 0 .. a.issued], confirming : Nat,
              flow : Flows, drafts : Drafts,
              pending : Pendings(a.issued) \cup {Nothing}, said : {said},
              target : Accounts \cup {Nothing}, form : Forms,
              asked : Accounts \cup {Nothing}, behind : BOOLEAN]
      /\ b.issued = a.issued /\ b.flow = a.flow /\ b.pending = a.pending /\ b.form = a.form
      /\ b.asked = a.asked /\ b.behind = FALSE /\ b.said = said
  BY <1>1, <1>3
<1> HIDE DEF b
<1>8. IsActions(b)
  BY <1>4, <1>6, <1>7 DEF IsActions, Drafts
<1> QED BY <1>2, <1>4, <1>7, <1>8

\* A verdict given: nothing is awaited, and the line of its field says what became of it.
Told(a, b, field, word) ==
    /\ IsActions(b) /\ b.issued = a.issued /\ b.flow = Idle /\ b.behind = a.behind
    /\ b.form.owner \in {a.form.owner, Nothing} /\ b.asked = a.asked
    /\ \A at \in desk.fields :
          /\ b.said[at].ticket = a.said[at].ticket
          /\ IF at = field THEN b.said[at].word = word ELSE b.said[at] = a.said[at]

Verdicts == {"ConflictRefreshed", "NotApplied", "UnconfirmedSeeNow", "UnconfirmedChanged"}

LEMMA WordChanged ==
  ASSUME NEW n \in Nat, NEW said \in Saids(n), NEW word \in Verdicts
  PROVE  /\ [said EXCEPT !.word = word] \in Saids(n)
         /\ [said EXCEPT !.word = word].word = word /\ [said EXCEPT !.word = word].ticket = said.ticket
BY DEF Saids, Verdicts, Words

LEMMA JudgedIs ==
  ASSUME desk \in Desks, NEW a, IsActions(a), NEW read, NEW field \in desk.fields,
         a.flow.field = field
  PROVE  Told(a, Judged(a, read), field,
              IF a.flow.why = "Conflict" THEN "ConflictRefreshed"
              ELSE Verdict(read.version, a.flow.arg))
<1> USE DeskFacts
<1> DEFINE word == IF a.flow.why = "Conflict" THEN "ConflictRefreshed"
                   ELSE Verdict(read.version, a.flow.arg)
           changed == word = "UnconfirmedChanged"
           drafts == IF changed THEN [key \in DOMAIN a.drafts |->
                                        IF key[1] = field THEN NoDraft ELSE a.drafts[key]]
                     ELSE a.drafts
           form == IF field # "Quiet" THEN a.form
                   ELSE IF changed /\ a.form.adding THEN NoForm
                   ELSE [a.form EXCEPT !.adding = FALSE]
           line == [a.said[field] EXCEPT !.word = word]
           said == [a.said EXCEPT ![field] = line]
           b == [a EXCEPT !.flow = Idle, !.drafts = drafts, !.form = form, !.said = said]
<1>1. /\ a \in [issued : 0 .. desk.presses, out : [Slots -> 0 .. a.issued], confirming : Nat,
              flow : Flows, drafts : Drafts,
              pending : Pendings(a.issued) \cup {Nothing}, said : {a.said},
              target : Accounts \cup {Nothing}, form : Forms,
              asked : Accounts \cup {Nothing}, behind : BOOLEAN]
      /\ DOMAIN a.said = Lines /\ \A at \in desk.fields : a.said[at] \in Saids(a.issued)
      /\ a.issued \in Nat
  BY DEF IsActions, Drafts
<1>2. Judged(a, read) = b
  BY <1>1 DEF Judged
<1>3. word \in Verdicts
  BY DEF Verdict, Verdicts
<1>4. drafts \in Drafts
  BY <1>1 DEF Drafts
<1>5. form \in Forms /\ form.owner \in {a.form.owner, Nothing}
  BY <1>1, FormsKept DEF NoForm
<1>6. Idle \in Flows
  BY DEF Idle, Flows
<1> HIDE DEF word, drafts, form
<1>7. line \in Saids(a.issued) /\ line.word = word /\ line.ticket = a.said[field].ticket
  <2> DEFINE old == a.said[field]
  <2>1. old \in Saids(a.issued)
    BY <1>1
  <2> HIDE DEF old
  <2>2. LET new == [old EXCEPT !.word = word]
        IN new \in Saids(a.issued) /\ new.word = word /\ new.ticket = old.ticket
    BY <1>1, <1>3, <2>1, WordChanged
  <2> QED BY <2>2 DEF old
<1> HIDE DEF line
<1>8. /\ DOMAIN said = Lines
      /\ \A at \in desk.fields : said[at] = IF at = field THEN line ELSE a.said[at]
  BY <1>1
<1> HIDE DEF said
<1>9. /\ b \in [issued : 0 .. desk.presses, out : [Slots -> 0 .. a.issued], confirming : Nat,
              flow : Flows, drafts : Drafts,
              pending : Pendings(a.issued) \cup {Nothing}, said : {said},
              target : Accounts \cup {Nothing}, form : Forms,
              asked : Accounts \cup {Nothing}, behind : BOOLEAN]
      /\ b.issued = a.issued /\ b.flow = Idle /\ b.behind = a.behind /\ b.form = form
      /\ b.asked = a.asked /\ b.said = said
  BY <1>1, <1>4, <1>5, <1>6
<1> HIDE DEF b
<1>10. IsActions(b)
  BY <1>1, <1>7, <1>8, <1>9 DEF IsActions, Drafts
<1>11. Told(a, b, field, word)
  BY <1>5, <1>7, <1>8, <1>9, <1>10 DEF Told
<1> QED BY <1>2, <1>11 DEF word

LEMMA SwitchJudgedIs ==
  ASSUME desk \in Desks, NEW a, IsActions(a), NEW read, "Backends" \in desk.fields,
         a.pending \in Pendings(a.issued)
  PROVE  /\ ~a.pending.over => SwitchJudged(a, read) = a
         /\ a.pending.over =>
               Told(a, SwitchJudged(a, read), "Backends", Verdict(read.version, a.pending.based))
<1> USE DeskFacts
<1> DEFINE word == Verdict(read.version, a.pending.based)
           drafts == IF word = "UnconfirmedChanged"
                     THEN [a.drafts EXCEPT ![<<"Backends", a.pending.of>>] = NoDraft] ELSE a.drafts
           line == [a.said["Backends"] EXCEPT !.word = word]
           said == [a.said EXCEPT !["Backends"] = line]
           b == [a EXCEPT !.flow = Idle, !.pending = Nothing, !.drafts = drafts, !.said = said]
<1>1. /\ a \in [issued : 0 .. desk.presses, out : [Slots -> 0 .. a.issued], confirming : Nat,
              flow : Flows, drafts : Drafts,
              pending : Pendings(a.issued) \cup {Nothing}, said : {a.said},
              target : Accounts \cup {Nothing}, form : Forms,
              asked : Accounts \cup {Nothing}, behind : BOOLEAN]
      /\ DOMAIN a.said = Lines /\ \A at \in desk.fields : a.said[at] \in Saids(a.issued)
      /\ a.issued \in Nat
  BY DEF IsActions, Drafts
<1>2. a.pending.over => SwitchJudged(a, read) = b
  BY <1>1 DEF SwitchJudged
<1>3. word \in Verdicts
  BY DEF Verdict, Verdicts
<1>4. drafts \in Drafts
  BY <1>1 DEF Drafts
<1>5. Idle \in Flows
  BY DEF Idle, Flows
<1> HIDE DEF word, drafts
<1>6. line \in Saids(a.issued) /\ line.word = word /\ line.ticket = a.said["Backends"].ticket
  <2> DEFINE old == a.said["Backends"]
  <2>1. old \in Saids(a.issued)
    BY <1>1
  <2> HIDE DEF old
  <2>2. LET new == [old EXCEPT !.word = word]
        IN new \in Saids(a.issued) /\ new.word = word /\ new.ticket = old.ticket
    BY <1>1, <1>3, <2>1, WordChanged
  <2> QED BY <2>2 DEF old
<1> HIDE DEF line
<1>7. /\ DOMAIN said = Lines
      /\ \A at \in desk.fields : said[at] = IF at = "Backends" THEN line ELSE a.said[at]
  BY <1>1
<1> HIDE DEF said
<1>8. /\ b \in [issued : 0 .. desk.presses, out : [Slots -> 0 .. a.issued], confirming : Nat,
              flow : Flows, drafts : Drafts,
              pending : Pendings(a.issued) \cup {Nothing}, said : {said},
              target : Accounts \cup {Nothing}, form : Forms,
              asked : Accounts \cup {Nothing}, behind : BOOLEAN]
      /\ b.issued = a.issued /\ b.flow = Idle /\ b.behind = a.behind /\ b.form = a.form
      /\ b.asked = a.asked /\ b.said = said
  BY <1>1, <1>4, <1>5
<1> HIDE DEF b
<1>9. IsActions(b)
  BY <1>1, <1>6, <1>7, <1>8 DEF IsActions, Drafts
<1>10. Told(a, b, "Backends", word)
  BY <1>6, <1>7, <1>8, <1>9 DEF Told
<1> QED BY <1>2, <1>10 DEF word, SwitchJudged


-----------------------------------------------------------------------------
(* The reads that land.                                                    *)

LEMMA Landed ==
  ASSUME ReadsOK, UNCHANGED desk, NEW read \in Kinds, reads' = [reads EXCEPT ![read] = NotBegun]
  PROVE  /\ ReadsOK' /\ "status" \in Kinds
         /\ \A other \in Kinds :
               reads'[other].found = IF other = read THEN Nothing ELSE reads[other].found
<1> DEFINE stale == FALSE
<1>1. ReadGoes(read, "none", stale, Nothing) /\ FoundOK(read, Nothing)
  BY NothingFound DEF ReadGoes, ReadAs, NotBegun
<1> HIDE DEF stale
<1> QED BY <1>1, ReadMoves

LEMMA LandAsideKeeps ==
  ASSUME IInv, NEW read \in Kinds, reads' = [reads EXCEPT ![read] = NotBegun],
         UNCHANGED <<desk, runtime, taken, calls, view, actions, panel>>
  PROVE  IInv'
<1>1. ReadsOK'
  BY Landed DEF IInv, TypeOK
<1>2. \A other \in Kinds :
          reads'[other].found = IF other = read THEN Nothing ELSE reads[other].found
  BY Landed DEF IInv, TypeOK
<1> QED BY <1>1, <1>2, PartsStay, ReadsAloneKeep

\* A snapshot of the version the change was based on is of before any change that was taken; what
\* it says did not happen can happen no more, or had not come when it was to be shown.
LEMMA NotAppliedIsDead ==
  ASSUME IInv, "config" \in Kinds, reads["config"].found # Nothing
  PROVE  LET version == reads["config"].found.version
         IN /\ actions.flow.why = "Unconfirmed" /\ Verdict(version, actions.flow.arg) = "NotApplied"
                  => Dead(Awaited) \/ Missed(Awaited)
            /\ actions.flow.why = "Switch" /\ actions.pending.over
               /\ Verdict(version, actions.pending.based) = "NotApplied" => Dead(Awaited) \/ Missed(Awaited)
<1> DEFINE version == reads["config"].found.version
<1>1. ReadRight /\ UnconfirmedRight /\ SwitchRight /\ LinesOwn /\ FlowRight /\ version \in Nat
  BY DEF IInv, TypeOK, ReadsOK
<1>2. version # 0 => desk.versioned
  BY <1>1 DEF ReadRight
<1>3. ASSUME actions.flow.why = "Unconfirmed", Verdict(version, actions.flow.arg) = "NotApplied"
      PROVE  Dead(Awaited) \/ Missed(Awaited)
  <2>1. version # 0 /\ version = actions.flow.arg
    BY <1>3 DEF Verdict
  <2> SUFFICES ASSUME ~Missed(Awaited) PROVE Dead(Awaited)
    OBVIOUS
  <2>2. /\ Awaited \notin taken /\ Gone(Awaited) /\ actions.flow.field # "Backends"
        /\ ~Coming(Awaited)
    BY <1>1, <1>2, <1>3, <2>1 DEF UnconfirmedRight, ReadPast, ReadNone
  <2>3. actions.flow.field \in desk.fields
    BY <1>1, <1>3, NothingSaid DEF FlowRight, Whys, IInv, TypeOK, IsActions, Flows
  <2>4. Awaited # 0 => runtime.switch.ticket # Awaited
    BY <1>1, <2>2, <2>3 DEF LinesOwn, Awaited
  <2> QED BY <2>2, <2>4 DEF Dead
<1>4. ASSUME actions.flow.why = "Switch", actions.pending.over,
             Verdict(version, actions.pending.based) = "NotApplied"
      PROVE  Dead(Awaited) \/ Missed(Awaited)
  <2>1. version # 0 /\ version = actions.pending.based
    BY <1>4 DEF Verdict
  <2> SUFFICES ASSUME ~Missed(Awaited) PROVE Dead(Awaited)
    OBVIOUS
  <2>3. /\ Awaited = actions.pending.ticket /\ Gone(actions.pending.ticket) /\ SwitchSeenRight
    BY <1>1, <1>4 DEF SwitchRight
  <2>2. /\ Awaited = actions.pending.ticket /\ Gone(actions.pending.ticket) /\ ~SwitchUnderWay
        /\ actions.pending.ticket \notin taken /\ ~Coming(actions.pending.ticket)
    BY <1>1, <1>2, <1>4, <2>1, <2>3 DEF SwitchSeenRight, ReadPast
  <2> QED BY <2>2 DEF Dead, SwitchUnderWay
<1> QED BY <1>3, <1>4

\* What a snapshot may make of the Actions: the change awaited is judged, or still awaited.
Judges(s) ==
    /\ IsActions(s) /\ s.issued = actions.issued /\ s.behind = FALSE
    /\ s.form.owner \in {actions.form.owner, Nothing} /\ s.asked = actions.asked
    /\ \A at \in desk.fields :
          /\ s.said[at].ticket \in {actions.said[at].ticket, 0}
          /\ s.said[at].word \in Undone =>
                \/ s.said[at] = actions.said[at] \/ Dead(s.said[at].ticket)
                \/ (s.said[at].word = "NotApplied" /\ Missed(s.said[at].ticket))
    /\ \/ s.flow = Idle
       \/ s.flow = actions.flow /\ actions.flow.at # "Rereading"
       \/ /\ s.flow = actions.flow /\ s.pending = actions.pending /\ actions.flow.why = "Switch"
          /\ s.said["Backends"] = actions.said["Backends"]

LEMMA ToldJudges ==
  ASSUME IInv, NEW b, NEW s, NEW field \in desk.fields, NEW word, Told(b, s, field, word),
         b.issued = actions.issued, b.behind = FALSE, b.form = actions.form, b.asked = actions.asked,
         \A at \in desk.fields : b.said[at] \in {actions.said[at], NoSaid},
         field = actions.flow.field,
         word \in Undone => Dead(Awaited) \/ (word = "NotApplied" /\ Missed(Awaited))
  PROVE  Judges(s)
<1>1. NoSaid.word \notin Undone /\ NoSaid.ticket = 0
  BY NothingSaid DEF NoSaid, Undone, Words, Answers
<1>2. ASSUME NEW at \in desk.fields
      PROVE  /\ s.said[at].ticket \in {actions.said[at].ticket, 0}
             /\ s.said[at].word \in Undone =>
                   \/ s.said[at] = actions.said[at] \/ Dead(s.said[at].ticket)
                   \/ (s.said[at].word = "NotApplied" /\ Missed(s.said[at].ticket))
  <2>1. s.said[at].ticket \in {actions.said[at].ticket, 0}
    BY <1>1 DEF Told
  <2>2. CASE at = field
    <3>1. s.said[at].word = word /\ actions.said[at].ticket = Awaited
      BY <2>2 DEF Told, Awaited
    <3> QED BY <2>1, <3>1, NoTicket
  <2>3. CASE at # field
    BY <1>1, <2>1, <2>3 DEF Told
  <2> QED BY <2>1, <2>2, <2>3
<1> QED BY <1>2 DEF Told, Judges

LEMMA SnapshotJudges ==
  ASSUME IInv, "config" \in Kinds, reads["config"].found # Nothing
  PROVE  Judges(SnapshotRead(actions, reads["config"].found))
<1> DEFINE found == reads["config"].found
           b == FirstRead(actions)
           s == SnapshotRead(actions, found)
<1>1. /\ IsActions(actions) /\ desk \in Desks /\ FlowRight /\ SwitchRight /\ ConflictRight
      /\ actions.flow \in Flows
  BY DEF IInv, TypeOK, IsActions
<1>2. /\ IsActions(b) /\ b.issued = actions.issued /\ b.flow = actions.flow
      /\ b.pending = actions.pending /\ b.form = actions.form /\ b.asked = actions.asked
      /\ b.behind = FALSE
      /\ \A at \in desk.fields :
            /\ b.said[at] \in {actions.said[at], NoSaid}
            /\ at = "Backends" => b.said[at] = actions.said[at]
  BY <1>1, FirstReadIs
<1>3. s = IF b.flow.at = "Rereading"
          THEN IF b.flow.why = "Switch" THEN SwitchJudged(b, found) ELSE Judged(b, found)
          ELSE IF b.flow.at = "Confirming" /\ found.rows[<<"TopBar", Host>>] # 0
          THEN [b EXCEPT !.flow = Idle]
          ELSE b
  BY DEF SnapshotRead, FirstRead
<1>4. NoSaid.word \notin Undone /\ NoSaid.ticket = 0
  BY NothingSaid DEF NoSaid, Undone, Words, Answers
<1> SUFFICES Judges(s)
  OBVIOUS
<1> HIDE DEF b, s
<1>a. \A at \in desk.fields : b.said[at] \in {actions.said[at], NoSaid}
  BY <1>2
<1>5. CASE b.flow.at = "Rereading" /\ b.flow.why = "Switch"
  <2>1. /\ actions.pending \in Pendings(actions.issued) /\ actions.flow.field = "Backends"
        /\ "Backends" \in desk.fields
    BY <1>1, <1>2, <1>5, NothingSaid DEF SwitchRight, FlowRight, Flows, Fields, DraftFields
  <2>2. s = SwitchJudged(b, found)
    BY <1>3, <1>5
  <2>3. CASE ~actions.pending.over
    <3>1. s = b
      BY <1>1, <1>2, <2>1, <2>2, <2>3, SwitchJudgedIs
    <3>2. \A at \in desk.fields :
             /\ b.said[at].ticket \in {actions.said[at].ticket, 0}
             /\ b.said[at].word \in Undone => b.said[at] = actions.said[at]
      BY <1>4, <1>a
    <3>3. b.said["Backends"] = actions.said["Backends"]
      BY <1>2, <2>1
    <3>4. Judges(b)
      BY <1>2, <1>5, <3>2, <3>3 DEF Judges
    <3> QED BY <3>1, <3>4
  <2>4. CASE actions.pending.over
    <3> DEFINE word == Verdict(found.version, b.pending.based)
    <3>1. Told(b, s, "Backends", word)
      BY <1>1, <1>2, <2>1, <2>2, <2>4, SwitchJudgedIs
    <3>2. word \in Undone => word = "NotApplied"
      BY DEF Verdict, Undone
    <3>3. word \in Undone => Dead(Awaited) \/ (word = "NotApplied" /\ Missed(Awaited))
      BY <1>2, <1>5, <2>4, <3>2, NotAppliedIsDead
    <3> HIDE DEF word
    <3> QED BY <1>2, <1>a, <2>1, <3>1, <3>3, ToldJudges
  <2> QED BY <2>3, <2>4
<1>6. CASE b.flow.at = "Rereading" /\ b.flow.why # "Switch"
  <2> DEFINE word == IF b.flow.why = "Conflict" THEN "ConflictRefreshed"
                     ELSE Verdict(found.version, b.flow.arg)
             field == b.flow.field
  <2>1. field \in desk.fields /\ field = actions.flow.field
    BY <1>1, <1>2, <1>6 DEF FlowRight, Flows
  <2>2. b.flow.why \in {"Conflict", "Unconfirmed"}
    BY <1>1, <1>2, <1>6 DEF FlowRight, Flows, Whys
  <2>3. s = Judged(b, found)
    BY <1>3, <1>6
  <2>4. Told(b, s, field, word)
    BY <1>1, <1>2, <2>1, <2>3, JudgedIs
  <2>5. word \in Undone => Dead(Awaited) \/ (word = "NotApplied" /\ Missed(Awaited))
    <3>1. CASE b.flow.why = "Conflict"
      BY <1>1, <1>2, <3>1 DEF ConflictRight
    <3>2. CASE b.flow.why = "Unconfirmed"
      <4>1. word \in Undone => Verdict(found.version, b.flow.arg) = "NotApplied"
        BY <3>2 DEF Verdict, Undone
      <4>2. word = Verdict(found.version, b.flow.arg)
        BY <3>2
      <4> QED BY <1>2, <3>2, <4>1, <4>2, NotAppliedIsDead
    <3> QED BY <2>2, <3>1, <3>2
  <2> HIDE DEF word, field
  <2> QED BY <1>2, <1>a, <2>1, <2>4, <2>5, ToldJudges
<1>7. CASE b.flow.at # "Rereading"
  <2> DEFINE c == [b EXCEPT !.flow = Idle]
  <2>1. Idle \in Flows
    BY DEF Idle, Flows
  <2>2. Kept(b, c) /\ c.asked = b.asked /\ c.form = b.form /\ c.flow = Idle
    BY <1>2, <2>1, PlainFields
  <2>3. s = b \/ s = c
    BY <1>3, <1>7
  <2> HIDE DEF c
  <2>4. Judges(b)
    BY <1>2, <1>4, <1>7 DEF Judges
  <2>5. Judges(c)
    BY <1>2, <1>4, <2>2 DEF Judges, Kept
  <2> QED BY <2>3, <2>4, <2>5
<1> QED BY <1>5, <1>6, <1>7


\* The Actions followed up are of the same flow, lines and switch.
LEMMA FollowedIs ==
  ASSUME NEW a, Followed(a, actions'), UNCHANGED desk
  PROVE  /\ IsActions(actions)' /\ actions'.issued = a.issued /\ actions'.flow = a.flow
         /\ actions'.pending = a.pending /\ actions'.said = a.said /\ actions'.behind = a.behind
         /\ actions'.form.owner \in {a.form.owner, Nothing} /\ actions'.asked \in {a.asked, Nothing}
<1>1. IsActions(actions')
  BY DEF Followed, Kept
<1>2. IsActions(actions)'
  BY <1>1, ActionsMove
<1> QED BY <1>2 DEF Followed, Kept

\* The settings could not be read: what was shown stays, and nothing of it can be pressed.
LEMMA ConfigMissedKeeps ==
  ASSUME IInv, "config" \in Kinds, reads' = [reads EXCEPT !["config"] = NotBegun],
         UNCHANGED <<desk, runtime, taken, calls, panel>>, view' = [view EXCEPT !.failed = TRUE],
         actions' = Reviewed(actions, view', panel)
  PROVE  IInv'
<1>1. IsActions(actions) /\ ReadsOK /\ ViewOK /\ FlowRight /\ actions.flow \in Flows
  BY DEF IInv, TypeOK, IsActions
<1>2. ReadsOK' /\ "status" \in Kinds
      /\ \A other \in Kinds :
             reads'[other].found = IF other = "config" THEN Nothing ELSE reads[other].found
  BY <1>1, Landed
<1>3. Followed(actions, actions')
  BY <1>1, ReviewedIs
<1>4. /\ IsActions(actions)' /\ actions'.issued = actions.issued /\ actions'.flow = actions.flow
      /\ actions'.pending = actions.pending /\ actions'.said = actions.said
      /\ actions'.behind = actions.behind
      /\ actions'.form.owner \in {actions.form.owner, Nothing}
      /\ actions'.asked \in {actions.asked, Nothing}
  BY <1>3, FollowedIs
<1>5. Lands
  BY DEF Lands
<1>6. LinesOwn' /\ LinesRight'
  BY <1>4, <1>5, LinesKeep
<1>7. ReadRight' /\ FlowRight'
  BY <1>1, <1>2, <1>4 DEF ReadRight, FlowRight, Kinds
<1>8. view'.slice = view.slice /\ ViewOK' /\ SliceRight'
  BY <1>1, <1>4 DEF ViewOK, IsRows, Keys, Owners, SliceRight, IInv
<1>9. Awaited' = Awaited
  BY <1>4 DEF Awaited
<1>10. ConflictRight' /\ UnconfirmedRight' /\ SwitchRight'
  BY <1>2, <1>4, <1>5, <1>9, AwaitedKeep
<1> QED BY <1>2, <1>4, <1>5, <1>6, <1>7, <1>8, <1>10, PartsStay, WindowKeeps

LEMMA ConfigReadKeeps ==
  ASSUME IInv, "config" \in Kinds, reads' = [reads EXCEPT !["config"] = NotBegun],
         UNCHANGED <<desk, runtime, taken, calls, panel>>, reads["config"].found # Nothing,
         view' = [view EXCEPT !.failed = FALSE,
                              !.slice = [version |-> reads["config"].found.version,
                                         rows |-> reads["config"].found.rows,
                                         read |-> reads["config"].found.read]],
         actions' = Reviewed(SnapshotRead(actions, reads["config"].found), view', panel)
  PROVE  IInv'
<1> DEFINE found == reads["config"].found
           s == SnapshotRead(actions, found)
           slice == [version |-> found.version, rows |-> found.rows, read |-> found.read]
<1>1. /\ ReadsOK /\ ViewOK /\ FlowRight /\ actions.flow \in Flows /\ SwitchRight /\ ReadRight
      /\ found.version \in Nat /\ found.read \in Nat /\ IsRows(found.rows)
  BY DEF IInv, TypeOK, IsActions, ReadsOK
<1>2. ReadsOK' /\ "status" \in Kinds
      /\ \A other \in Kinds :
             reads'[other].found = IF other = "config" THEN Nothing ELSE reads[other].found
  BY <1>1, Landed
<1>3. Judges(s)
  BY SnapshotJudges
<1>4. Followed(s, actions')
  BY <1>3, ReviewedIs DEF Judges
<1> HIDE DEF s
<1>5. /\ IsActions(actions)' /\ actions'.issued = s.issued /\ actions'.flow = s.flow
      /\ actions'.pending = s.pending /\ actions'.said = s.said
      /\ actions'.behind = s.behind
      /\ actions'.form.owner \in {s.form.owner, Nothing}
      /\ actions'.asked \in {s.asked, Nothing}
  BY <1>4, FollowedIs
<1>6. Lands
  BY DEF Lands
<1>7. LinesOwn' /\ LinesRight'
  BY <1>3, <1>5, <1>6, LinesKeep DEF Judges
<1>8. ReadRight'
  BY <1>2 DEF ReadRight, Kinds
<1>9. FlowRight'
  <2>1. /\ s.flow = Idle \/ s.flow = actions.flow
        /\ s.form.owner \in {actions.form.owner, Nothing} /\ s.asked = actions.asked
    BY <1>3 DEF Judges
  <2>2. actions'.form.owner # Nothing \/ actions'.asked # Nothing => "Quiet" \in desk.fields
    BY <1>1, <1>5, <2>1 DEF FlowRight
  <2>3. CASE s.flow = Idle
    <3>1. actions'.flow = Idle
      BY <1>5, <2>3
    <3> QED BY <2>2, <3>1, IdleFlow DEF FlowRight
  <2>4. CASE s.flow = actions.flow
    <3>1. actions'.flow = actions.flow
      BY <1>5, <2>4
    <3> QED BY <1>1, <2>2, <3>1 DEF FlowRight
  <2> QED BY <2>1, <2>3, <2>4
<1>10. view'.slice = slice /\ ViewOK'
  <2>1. slice \in [version : Nat, rows : {slice.rows}, read : Nat] /\ slice.rows = found.rows
    BY <1>1
  <2> HIDE DEF slice, found
  <2>2. /\ view' \in [online : BOOLEAN, epoch : Nat, pause : Pauses, slice : {slice},
                      failed : BOOLEAN, since : Nat, answered : Nat]
        /\ view'.slice = slice
    BY <1>1 DEF ViewOK, slice, found
  <2>3. Keys' = Keys
    BY DEF Keys, Owners
  <2> QED BY <1>1, <2>1, <2>2, <2>3 DEF ViewOK, IsRows
<1>11. SliceRight'
  <2>1. slice.version = found.version /\ slice.rows = found.rows
    OBVIOUS
  <2> HIDE DEF slice
  <2> QED BY <1>1, <1>10, <2>1 DEF SliceRight, ReadRight
<1> HIDE DEF slice, found
<1>12. ConflictRight' /\ UnconfirmedRight' /\ SwitchRight'
  <2>1. CASE s.flow = Idle \/ (s.flow = actions.flow /\ actions.flow.at # "Rereading")
    <3>1. actions'.flow.why = Nothing
      <4>1. CASE s.flow = Idle
        BY <1>5, <4>1, IdleFlow
      <4>2. CASE s.flow = actions.flow /\ actions.flow.at # "Rereading"
        BY <1>1, <1>5, <4>2 DEF FlowRight
      <4> QED BY <2>1, <4>1, <4>2
    <3> QED BY <3>1, NothingAwaited
  <2>2. CASE /\ s.flow = actions.flow /\ s.pending = actions.pending /\ actions.flow.why = "Switch"
             /\ s.said["Backends"] = actions.said["Backends"]
    <3>1. Awaited' = Awaited
      BY <1>1, <1>5, <2>2 DEF SwitchRight, Awaited
    <3>2. actions'.flow = actions.flow /\ actions'.pending = actions.pending
          /\ actions'.issued = actions.issued
      BY <1>3, <1>5, <2>2 DEF Judges
    <3> QED BY <1>2, <1>6, <3>1, <3>2, AwaitedKeep
  <2> QED BY <1>3, <2>1, <2>2 DEF Judges
<1>13. actions'.issued = actions.issued
  BY <1>3, <1>5 DEF Judges
<1> QED BY <1>2, <1>5, <1>6, <1>7, <1>8, <1>9, <1>10, <1>11, <1>12, <1>13, PartsStay, WindowKeeps

LEMMA ConfigLandedKeeps ==
  ASSUME IInv, "config" \in Kinds, ConfigLanded(reads["config"].found),
         UNCHANGED <<desk, runtime, taken, calls>>
  PROVE  IInv'
<1> DEFINE found == reads["config"].found
<1>1. reads' = [reads EXCEPT !["config"] = NotBegun] /\ panel' = panel
  BY DEF ConfigLanded
<1>2. CASE UNCHANGED <<view, actions>>
  BY <1>1, <1>2, LandAsideKeeps
<1>3. CASE found = Nothing /\ ~UNCHANGED <<view, actions>>
  <2>1. /\ view' = [view EXCEPT !.failed = TRUE] /\ actions' = Reviewed(actions, view', panel)
    BY <1>3 DEF ConfigLanded
  <2> QED BY <1>1, <2>1, ConfigMissedKeeps
<1>4. CASE found # Nothing /\ ~UNCHANGED <<view, actions>>
  <2>1. /\ view' = [view EXCEPT !.failed = FALSE,
                              !.slice = [version |-> found.version, rows |-> found.rows,
                                         read |-> found.read]]
        /\ actions' = Reviewed(SnapshotRead(actions, found), view', panel)
    BY <1>4 DEF ConfigLanded
  <2> QED BY <1>1, <1>4, <2>1, ConfigReadKeeps
<1> QED BY <1>2, <1>3, <1>4

\* No `Status`: no pause and no question stands, and what is awaited is awaited still.
LEMMA StatusLostKeeps ==
  ASSUME IInv, reads' = [reads EXCEPT !["status"] = NotBegun],
         UNCHANGED <<desk, runtime, taken, calls, panel>>,
         view' = [view EXCEPT !.online = FALSE, !.pause = NoPause, !.failed = FALSE],
         actions' = StatusLost(actions)
  PROVE  IInv'
<1>1. /\ IsActions(actions) /\ ReadsOK /\ ViewOK /\ FlowRight /\ actions.flow \in Flows
      /\ "status" \in Kinds
  BY DEF IInv, TypeOK, IsActions, Kinds
<1>2. ReadsOK'
      /\ \A other \in Kinds :
             reads'[other].found = IF other = "status" THEN Nothing ELSE reads[other].found
  BY <1>1, Landed
<1>3. /\ Kept(actions, actions') /\ actions'.form = actions.form /\ actions'.asked = Nothing
      /\ actions'.flow = IF actions.flow.at = "Confirming" THEN Idle ELSE actions.flow
  BY <1>1, StatusLostIs
<1>4. /\ IsActions(actions)' /\ actions'.issued = actions.issued
      /\ actions'.pending = actions.pending /\ actions'.said = actions.said
      /\ actions'.behind = actions.behind
  <2>1. IsActions(actions')
    BY <1>3 DEF Kept
  <2>2. IsActions(actions)'
    BY <2>1, ActionsMove
  <2> QED BY <1>3, <2>2 DEF Kept
<1>5. Lands
  BY DEF Lands
<1>6. LinesOwn' /\ LinesRight'
  BY <1>4, <1>5, LinesKeep
<1>7. FlowRight'
  BY <1>1, <1>3 DEF FlowRight, Idle
<1>8. ReadRight'
  <2>1. "config" \in Kinds => reads'["config"].found = reads["config"].found
    BY <1>2
  <2> QED BY <2>1 DEF IInv, ReadRight, Kinds
<1>9. view'.slice = view.slice /\ ViewOK' /\ SliceRight'
  <2>1. NoPause \in Pauses
    BY DEF NoPause, Pauses
  <2>2. view' \in [online : BOOLEAN, epoch : Nat, pause : Pauses, slice : {view.slice},
                   failed : BOOLEAN, since : Nat, answered : Nat] /\ view'.slice = view.slice
    BY <1>1, <2>1 DEF ViewOK
  <2> QED BY <1>1, <1>4, <2>2 DEF ViewOK, IsRows, Keys, Owners, SliceRight, IInv
<1>10. ConflictRight' /\ UnconfirmedRight' /\ SwitchRight'
  <2>1. CASE actions.flow.at = "Confirming"
    <3>1. actions'.flow.why = Nothing
      BY <1>3, <2>1 DEF Idle
    <3> QED BY <3>1, NothingAwaited
  <2>2. CASE actions.flow.at # "Confirming"
    <3>1. actions'.flow = actions.flow /\ Awaited' = Awaited
      BY <1>3, <1>4, <2>2 DEF Awaited
    <3> QED BY <1>1, <1>2, <1>4, <1>5, <3>1, AwaitedKeep
  <2> QED BY <2>1, <2>2
<1> QED BY <1>2, <1>4, <1>5, <1>6, <1>7, <1>8, <1>9, <1>10, PartsStay, WindowKeeps


\* A `Status` of another epoch: nothing is awaited of the old one.
LEMMA OtherEpochKeeps ==
  ASSUME IInv, UNCHANGED <<desk, runtime, taken, calls>>, panel' \in desk.accounts \cup {Nothing},
         reads' = [reads EXCEPT !["status"] = NotBegun], ViewOK', view'.slice = Nothing,
         NEW read, NEW v, NEW account,
         actions' = Reviewed(StatusRead(NewEpoch(actions), read), v, account)
  PROVE  IInv'
<1> DEFINE first == NewEpoch(actions)
           s == StatusRead(first, read)
<1>1. IsActions(actions) /\ desk \in Desks /\ ReadsOK /\ "status" \in Kinds
  BY DEF IInv, TypeOK, Kinds
<1>2. /\ IsActions(first) /\ first.issued = actions.issued /\ first.flow = Idle
      /\ first.form = NoForm /\ first.asked = Nothing
      /\ \A at \in desk.fields : first.said[at].ticket = 0 /\ first.said[at].word \notin Undone
  BY <1>1, NewEpochIs
<1>3. first.flow.why = Nothing /\ first.flow.why # "Switch"
  BY <1>2, NothingSaid DEF Idle, Whys
<1> HIDE DEF first
<1>4. /\ IsActions(s) /\ s.issued = first.issued /\ s.flow = first.flow /\ s.form = first.form
      /\ s.asked = first.asked /\ \A at \in desk.fields : s.said[at] = first.said[at]
  <2>1. /\ desk \in Desks /\ IsActions(first)
        /\ first.flow.why = "Switch" => first.pending \in Pendings(first.issued)
    BY <1>1, <1>2, <1>3
  <2> QED BY <2>1, StatusReadIs
<1>5. actions' = Reviewed(s, v, account)
  BY DEF first
<1> HIDE DEF s
<1>6. Followed(s, actions')
  BY <1>4, <1>5, ReviewedIs
<1>7. /\ IsActions(actions)' /\ actions'.issued = s.issued /\ actions'.flow = s.flow
      /\ actions'.said = s.said
      /\ actions'.form.owner \in {s.form.owner, Nothing} /\ actions'.asked \in {s.asked, Nothing}
  BY <1>6, FollowedIs
<1>8. Lands
  BY DEF Lands
<1>9. LinesOwn' /\ LinesRight'
  <2>1. \A at \in desk.fields :
            actions'.said[at].ticket = 0 /\ actions'.said[at].word \notin Undone
    BY <1>2, <1>4, <1>7
  <2> QED BY <1>8, <2>1, LinesKeep
<1>10. FlowRight'
  BY <1>2, <1>4, <1>7 DEF FlowRight, Idle, NoForm
<1>11. ReadsOK' /\ ReadRight'
  <2>1. ReadsOK'
        /\ \A other \in Kinds :
             reads'[other].found = IF other = "status" THEN Nothing ELSE reads[other].found
    BY <1>1, Landed
  <2>2. "config" \in Kinds => reads'["config"].found = reads["config"].found
    BY <2>1
  <2> QED BY <2>1, <2>2 DEF IInv, ReadRight, Kinds
<1>12. SliceRight'
  BY DEF SliceRight
<1>13. ConflictRight' /\ UnconfirmedRight' /\ SwitchRight'
  BY <1>2, <1>3, <1>4, <1>7, NothingAwaited
<1>14. actions'.issued = actions.issued
  BY <1>2, <1>4, <1>7
<1> QED BY <1>7, <1>8, <1>9, <1>10, <1>11, <1>12, <1>13, <1>14, PartsStay, WindowKeeps

\* A `Status` that shows a switch over counts as a write: nothing read before it is judged.
LEMMA OverReads ==
  ASSUME ReadsOK, UNCHANGED desk, NEW rest, DOMAIN rest = Kinds,
         \A read \in Kinds : rest[read] = IF read = "status" THEN NotBegun ELSE reads[read],
         reads' = Wrote(rest)
  PROVE  /\ ReadsOK' /\ \A read \in Kinds : reads'[read].found = Nothing
<1>1. /\ "status" \in Kinds
      /\ \A read \in Kinds :
        /\ rest[read] \in [at : {"none", "begun", "read"}, stale : BOOLEAN, found : {rest[read].found}]
        /\ rest[read].at # "read" \/ rest[read].stale => rest[read].found = Nothing
  <2>1. NotBegun \in [at : {"none", "begun", "read"}, stale : BOOLEAN, found : {NotBegun.found}]
        /\ NotBegun.found = Nothing
    BY DEF NotBegun
  <2>2. \A read \in Kinds :
          /\ reads[read] \in [at : {"none", "begun", "read"}, stale : BOOLEAN, found : {reads[read].found}]
          /\ reads[read].at # "read" \/ reads[read].stale => reads[read].found = Nothing
    BY DEF ReadsOK
  <2> QED BY <2>1, <2>2 DEF Kinds
<1>2. /\ DOMAIN reads' = Kinds
      /\ \A read \in Kinds :
           reads'[read] = IF rest[read].at = "none" THEN rest[read]
                          ELSE [rest[read] EXCEPT !.stale = TRUE, !.found = Nothing]
  BY <1>1 DEF Wrote
<1>3. \A read \in Kinds :
        /\ reads'[read] \in [at : {"none", "begun", "read"}, stale : BOOLEAN, found : {reads'[read].found}]
        /\ reads'[read].found = Nothing
  <2> SUFFICES ASSUME NEW read \in Kinds
               PROVE  /\ reads'[read] \in [at : {"none", "begun", "read"}, stale : BOOLEAN,
                                           found : {reads'[read].found}]
                      /\ reads'[read].found = Nothing
    OBVIOUS
  <2>1. CASE rest[read].at = "none"
    BY <1>1, <1>2, <2>1
  <2>2. CASE rest[read].at # "none"
    <3>1. reads'[read] = [rest[read] EXCEPT !.stale = TRUE, !.found = Nothing]
      BY <1>2, <2>2
    <3>2. reads'[read] \in [at : {"none", "begun", "read"}, stale : BOOLEAN, found : {Nothing}]
      BY <1>1, <3>1
    <3> QED BY <3>2
  <2> QED BY <2>1, <2>2
<1>4. Kinds' = Kinds /\ Keys' = Keys
  BY DEF Kinds, Keys, Owners
<1> QED BY <1>1, <1>2, <1>3, <1>4 DEF ReadsOK

\* A `Status` of the same epoch: a switch awaited past its wait is over once it does not show.
LEMMA SameEpochKeeps ==
  ASSUME IInv, UNCHANGED <<desk, runtime, taken, calls, panel>>,
         reads["status"].found # Nothing,
         LET rest == [reads EXCEPT !["status"] = NotBegun]
         IN reads' = IF SwitchSeen(actions, reads["status"].found.checking) THEN Wrote(rest) ELSE rest,
         ViewOK', view'.slice = view.slice, NEW v, NEW account,
         actions' = Reviewed(StatusRead(actions, reads["status"].found), v, account)
  PROVE  IInv'
<1> DEFINE found == reads["status"].found
           over == SwitchSeen(actions, found.checking)
           rest == [reads EXCEPT !["status"] = NotBegun]
           s == StatusRead(actions, found)
<1>1. /\ IsActions(actions) /\ desk \in Desks /\ ReadsOK /\ "status" \in Kinds /\ SwitchRight
      /\ FlowRight
  BY DEF IInv, TypeOK, Kinds
<1>2. /\ IsActions(s) /\ s.issued = actions.issued /\ s.flow = actions.flow /\ s.form = actions.form
      /\ s.asked = actions.asked /\ s.behind = actions.behind
      /\ s.pending = IF over THEN [actions.pending EXCEPT !.over = TRUE] ELSE actions.pending
      /\ \A at \in desk.fields : s.said[at] = actions.said[at]
  BY <1>1, StatusReadIs DEF SwitchRight
<1>3. reads' = IF over THEN Wrote(rest) ELSE rest
  OBVIOUS
<1>4. actions' = Reviewed(s, v, account)
  OBVIOUS
<1> HIDE DEF s
<1>5. Followed(s, actions')
  BY <1>2, <1>4, ReviewedIs
<1>6. /\ IsActions(actions)' /\ actions'.issued = s.issued /\ actions'.flow = s.flow
      /\ actions'.pending = s.pending /\ actions'.said = s.said /\ actions'.behind = s.behind
      /\ actions'.form.owner \in {s.form.owner, Nothing} /\ actions'.asked \in {s.asked, Nothing}
  BY <1>5, FollowedIs
<1>7. Lands
  BY DEF Lands
<1>8. LinesOwn' /\ LinesRight'
  BY <1>2, <1>6, <1>7, LinesKeep
<1>9. FlowRight'
  BY <1>1, <1>2, <1>6 DEF FlowRight
<1>10. SliceRight'
  BY <1>2, <1>6 DEF IInv, SliceRight
<1>11. actions'.issued = actions.issued /\ actions'.flow = actions.flow
  BY <1>2, <1>6
<1>12. actions.flow.why # Nothing => Awaited' = Awaited
  <2> SUFFICES ASSUME actions.flow.why # Nothing PROVE Awaited' = Awaited
    OBVIOUS
  <2>1. actions.flow.field \in desk.fields
    BY <1>1 DEF FlowRight, IsActions, Flows
  <2> QED BY <1>2, <1>6, <1>11, <2>1 DEF Awaited
<1>13. CASE ~over
  <2>1. ReadsOK'
        /\ \A other \in Kinds :
             reads'[other].found = IF other = "status" THEN Nothing ELSE reads[other].found
    BY <1>1, <1>3, <1>13, Landed
  <2>2. actions'.pending = actions.pending
    BY <1>2, <1>6, <1>13
  <2>3. ReadRight'
    <3>1. "config" \in Kinds => reads'["config"].found = reads["config"].found
      BY <2>1
    <3> QED BY <3>1 DEF IInv, ReadRight, Kinds
  <2>4. ConflictRight' /\ UnconfirmedRight' /\ SwitchRight'
    <3>1. /\ reads'["status"].found \in {reads["status"].found, Nothing}
          /\ "config" \in Kinds => reads'["config"].found \in {reads["config"].found, Nothing}
      BY <1>1, <2>1
    <3> QED BY <1>7, <1>11, <1>12, <2>2, <3>1, AwaitedKeep
  <2> HIDE DEF over, found
  <2> QED BY <1>6, <1>7, <1>8, <1>9, <1>10, <1>11, <2>1, <2>3, <2>4, PartsStay, WindowKeeps
<1>14. CASE over
  <2>1. /\ actions.flow.why = "Switch" /\ actions.pending.waited
        /\ found.checking # actions.pending.of
    BY <1>14 DEF SwitchSeen
  <2>2. ReadsOK' /\ \A read \in Kinds : reads'[read].found = Nothing
    <3>1. DOMAIN rest = Kinds
          /\ \A read \in Kinds : rest[read] = IF read = "status" THEN NotBegun ELSE reads[read]
      BY <1>1 DEF ReadsOK
    <3>2. reads' = Wrote(rest)
      BY <1>3, <1>14
    <3> HIDE DEF rest
    <3> QED BY <1>1, <3>1, <3>2, OverReads
  <2>3. /\ actions.pending \in Pendings(actions.issued)
        /\ actions.flow.field = "Backends" /\ Gone(actions.pending.ticket)
        /\ Awaited = actions.pending.ticket
        /\ desk.versioned => actions.pending.based <= runtime.version
        /\ \A call \in runtime.late : call.ticket = actions.pending.ticket =>
               call.of = actions.pending.of
        /\ ~Missed(actions.pending.ticket) => SwitchSeenRight
    BY <1>1, <2>1 DEF SwitchRight
  <2>4. /\ actions'.pending \in Pendings(actions.issued) /\ actions'.pending.over
        /\ actions'.pending.ticket = actions.pending.ticket
        /\ actions'.pending.based = actions.pending.based
        /\ actions'.pending.of = actions.pending.of
    <3>1. actions'.pending = [actions.pending EXCEPT !.over = TRUE]
      BY <1>2, <1>6, <1>14
    <3> QED BY <2>3, <3>1 DEF Pendings
  <2>5. ReadRight'
    BY <2>2 DEF ReadRight, Kinds
  <2>6. SwitchRight'
    <3>1. ASSUME ~Missed(actions.pending.ticket) PROVE SwitchSeenRight'
      <4>1. SwitchSeenRight /\ ~SwitchUnderWay
        <5>1. SwitchSeenRight
          BY <2>3, <3>1
        <5> QED BY <2>1, <5>1 DEF SwitchSeenRight
      <4>2. ~Coming(actions.pending.ticket)
        BY <4>1 DEF SwitchSeenRight
      <4>3. ~SwitchUnderWay'
        BY <2>4, <4>1 DEF SwitchUnderWay
      <4>4. ~Coming(actions.pending.ticket)'
        BY <2>4, <4>2 DEF Coming
      <4>5. ReadPast(actions.pending.based)'
        BY <2>2 DEF ReadPast, Kinds
      <4>6. actions'.pending.ticket \in taken' /\ desk'.versioned =>
              actions'.pending.based < runtime'.version
        BY <2>4, <4>1 DEF SwitchSeenRight
      <4> HIDE DEF over, found
      <4> QED BY <4>3, <4>4, <4>5, <4>6 DEF SwitchSeenRight
    <3>2. Awaited' = Awaited
      BY <1>12, <2>1, NothingSaid DEF Whys
    <3>3. Missed(actions.pending.ticket)' <=> Missed(actions.pending.ticket)
      BY <2>4 DEF Missed
    <3>4. Pendings(actions'.issued) = Pendings(actions.issued)
      BY <1>11
    <3>5. Gone(actions.pending.ticket)'
      BY <2>3, <2>4 DEF Gone
    <3> HIDE DEF over, found
    <3> QED BY <1>11, <2>3, <2>4, <3>1, <3>2, <3>3, <3>4, <3>5 DEF SwitchRight
  <2>7. ConflictRight' /\ UnconfirmedRight'
    BY <1>11, <2>1 DEF ConflictRight, UnconfirmedRight
  <2> HIDE DEF over, found
  <2> QED BY <1>6, <1>7, <1>8, <1>9, <1>10, <1>11, <2>2, <2>5, <2>6, <2>7, PartsStay, WindowKeeps
<1> QED BY <1>13, <1>14


\* What a `Status` that counts shows.
LEMMA StatusShown ==
  ASSUME IInv, UNCHANGED desk, NEW changed \in BOOLEAN, NEW found \in StatusFound,
         view' = [view EXCEPT !.online = TRUE, !.epoch = found.epoch, !.pause = found.pause,
                              !.since = IF changed THEN actions.issued ELSE @,
                              !.slice = IF changed THEN Nothing ELSE @,
                              !.answered = IF changed THEN 0 ELSE @,
                              !.failed = @ /\ ~changed]
  PROVE  ViewOK' /\ view'.slice = IF changed THEN Nothing ELSE view.slice
<1>1. ViewOK /\ IsActions(actions) /\ desk \in Desks
  BY DEF IInv, TypeOK
<1>2. actions.issued \in Nat /\ found.epoch \in Nat /\ found.pause \in Pauses
  BY <1>1, DeskFacts DEF IsActions, StatusFound
<1> DEFINE v == view'
           slice == v.slice
<1>3. slice = IF changed THEN Nothing ELSE view.slice
  BY <1>1 DEF ViewOK
<1>4. CASE changed
  <2>1. v \in [online : BOOLEAN, epoch : Nat, pause : Pauses, slice : {slice},
               failed : BOOLEAN, since : Nat, answered : Nat]
    BY <1>1, <1>2, <1>4 DEF ViewOK
  <2> QED BY <1>3, <1>4, <2>1 DEF ViewOK
<1>5. CASE ~changed
  <2>1. v \in [online : BOOLEAN, epoch : Nat, pause : Pauses, slice : {slice},
               failed : BOOLEAN, since : Nat, answered : Nat]
    BY <1>1, <1>2, <1>5 DEF ViewOK
  <2> QED BY <1>1, <1>3, <1>5, <2>1 DEF ViewOK, IsRows, Keys, Owners
<1> QED BY <1>4, <1>5

\* A `Status` that counts lands.
LEMMA StatusLandedKeeps ==
  ASSUME IInv, reads["status"].found # Nothing, StatusLanded(reads["status"].found),
         UNCHANGED <<desk, runtime, taken, calls>>
  PROVE  IInv'
<1> DEFINE found == reads["status"].found
           changed == view.epoch # found.epoch
           first == IF changed THEN NewEpoch(actions) ELSE actions
           over == SwitchSeen(first, found.checking)
           rest == [reads EXCEPT !["status"] = NotBegun]
           shown == [view EXCEPT !.online = TRUE, !.epoch = found.epoch, !.pause = found.pause,
                              !.since = IF changed THEN actions.issued ELSE @,
                              !.slice = IF changed THEN Nothing ELSE @,
                              !.answered = IF changed THEN 0 ELSE @,
                              !.failed = @ /\ ~changed]
<1>1. PICK account \in IF changed /\ panel # Nothing THEN desk.accounts ELSE {panel} :
        /\ panel' = account
        /\ view' = shown
        /\ actions' = Reviewed(StatusRead(first, found), shown, account)
        /\ reads' = IF over THEN Wrote(rest) ELSE rest
  BY DEF StatusLanded
<1>2. found \in StatusFound /\ panel \in desk.accounts \cup {Nothing}
  BY DEF IInv, TypeOK, ReadsOK
<1>3. ViewOK' /\ view'.slice = IF changed THEN Nothing ELSE view.slice
  <2> DEFINE c == changed
             f == found
  <2>1. c \in BOOLEAN /\ f \in StatusFound
    BY <1>2
  <2>2. view' = [view EXCEPT !.online = TRUE, !.epoch = f.epoch, !.pause = f.pause,
                              !.since = IF c THEN actions.issued ELSE @,
                              !.slice = IF c THEN Nothing ELSE @,
                              !.answered = IF c THEN 0 ELSE @,
                              !.failed = @ /\ ~c]
    BY <1>1
  <2> SUFFICES ViewOK' /\ view'.slice = IF c THEN Nothing ELSE view.slice
    OBVIOUS
  <2> HIDE DEF c, f
  <2> QED BY <2>1, <2>2, StatusShown
<1>4. CASE changed
  <2>1. first = NewEpoch(actions)
    BY <1>4
  <2>2. ~over
    <3>1. IsActions(actions) /\ desk \in Desks
      BY DEF IInv, TypeOK
    <3>2. first.flow = Idle
      BY <2>1, <3>1, NewEpochIs
    <3> QED BY <3>2, NothingSaid DEF SwitchSeen, Idle, Whys
  <2>3. /\ reads' = rest /\ panel' \in desk.accounts \cup {Nothing} /\ view'.slice = Nothing
        /\ actions' = Reviewed(StatusRead(NewEpoch(actions), found), shown, account)
    BY <1>1, <1>2, <1>3, <1>4, <2>1, <2>2
  <2> HIDE DEF shown
  <2> QED BY <1>3, <2>3, OtherEpochKeeps
<1>5. CASE ~changed
  <2>1. /\ panel' = panel /\ view'.slice = view.slice
        /\ actions' = Reviewed(StatusRead(actions, found), shown, account)
    BY <1>1, <1>3, <1>5
  <2>2. reads' = IF SwitchSeen(actions, found.checking) THEN Wrote(rest) ELSE rest
    BY <1>1, <1>5
  <2> HIDE DEF shown
  <2> QED BY <1>3, <2>1, <2>2, SameEpochKeeps
<1> QED BY <1>4, <1>5

LEMMA LandReadKeeps ==
  ASSUME IInv, NEW read \in Kinds, LandRead(read)
  PROVE  IInv'
<1> DEFINE found == reads[read].found
<1>1. UNCHANGED <<desk, runtime, taken, calls>>
  BY DEF LandRead
<1>2. CASE reads[read].stale
  <2>1. reads' = [reads EXCEPT ![read] = NotBegun] /\ UNCHANGED <<view, actions, panel>>
    BY <1>2 DEF LandRead
  <2> QED BY <1>1, <2>1, LandAsideKeeps
<1>3. CASE ~reads[read].stale /\ read = "config"
  <2>1. ConfigLanded(reads["config"].found) /\ "config" \in Kinds
    BY <1>3 DEF LandRead
  <2> QED BY <1>1, <2>1, ConfigLandedKeeps
<1>4. CASE ~reads[read].stale /\ read = "status" /\ found # Nothing
  <2>1. StatusLanded(reads["status"].found) /\ reads["status"].found # Nothing
    BY <1>4 DEF LandRead
  <2> QED BY <1>1, <2>1, StatusLandedKeeps
<1>5. CASE ~reads[read].stale /\ read = "status" /\ found = Nothing
  <2>1. /\ reads' = [reads EXCEPT !["status"] = NotBegun]
        /\ view' = [view EXCEPT !.online = FALSE, !.pause = NoPause, !.failed = FALSE]
        /\ actions' = StatusLost(actions)
        /\ UNCHANGED panel
    BY <1>5 DEF LandRead
  <2> QED BY <1>1, <2>1, StatusLostKeeps
<1>6. read \in {"status", "config"}
  BY DEF Kinds
<1> QED BY <1>2, <1>3, <1>4, <1>5, <1>6


-----------------------------------------------------------------------------
(* Every behaviour.                                                        *)
LEMMA InitRight == Init => IInv
<1> SUFFICES ASSUME Init PROVE IInv
  OBVIOUS
<1> DEFINE keys == {key \in Keys : key[1] \in DraftFields}
<1>1. /\ desk \in Desks /\ taken = {} /\ calls = {} /\ panel = Nothing
      /\ reads = [read \in Kinds |-> NotBegun]
      /\ view = [online |-> FALSE, epoch |-> 0, pause |-> NoPause, slice |-> Nothing,
                 failed |-> FALSE, since |-> 0, answered |-> 0]
      /\ actions = [issued |-> 0, out |-> [slot \in Slots |-> 0], confirming |-> 0, flow |-> Idle,
                    drafts |-> [key \in keys |-> NoDraft], pending |-> Nothing,
                    said |-> [at \in Lines |-> NoSaid], target |-> Nothing,
                    form |-> NoForm, asked |-> Nothing, behind |-> FALSE]
  BY DEF Init
<1>2. desk.presses \in Nat /\ desk.fields \subseteq Fields /\ Lines = desk.fields \cup {"Scheduling"}
      /\ desk.epochs \in Nat \ {0} /\ desk.versions \in Nat \ {0}
  BY <1>1, DeskFacts, WritesAssumption DEF DeskTypes
<1>3. NoPause \in Pauses
  BY DEF NoPause, Pauses
<1>4. RuntimeOK /\ runtime.switch.ticket = 0 /\ runtime.late = {}
  <2>1. PICK online \in desk.online :
          runtime = [epoch |-> 1, version |-> 1,
                     rows |-> [key \in Keys |-> IF online THEN OnlineValue(key[1])
                                              ELSE FileValue(key[1])],
                     pause |-> NoPause, pauses |-> 0, switch |-> NoSwitch, away |-> 0,
                     late |-> {}, missed |-> {}]
    BY DEF Init
  <2> DEFINE rows == [key \in Keys |-> IF online THEN OnlineValue(key[1]) ELSE FileValue(key[1])]
  <2>2. IsRows(rows)
    BY DEF IsRows, OnlineValue, FileValue, Values
  <2>3. runtime = [epoch |-> 1, version |-> 1, rows |-> rows, pause |-> NoPause, pauses |-> 0,
                   switch |-> NoSwitch, away |-> 0, late |-> {}, missed |-> {}]
    BY <2>1
  <2> HIDE DEF rows
  <2> QED BY <1>2, <1>3, <2>2, <2>3 DEF RuntimeOK, IsRuntime, NoSwitch
<1>5. IsActions(actions)
  <2> DEFINE said == [at \in Lines |-> NoSaid]
             drafts == [key \in keys |-> NoDraft]
             out == [slot \in Slots |-> 0]
  <2>1. DOMAIN said = Lines /\ \A at \in desk.fields : said[at] \in Saids(0)
    BY <1>2 DEF NoSaid, Saids, Everyone
  <2>2. /\ drafts \in [keys -> {NoDraft} \cup [text : Texts, applied : BOOLEAN]]
        /\ out \in [Slots -> 0 .. 0]
    OBVIOUS
  <2>3. Idle \in Flows /\ NoForm \in Forms
    BY DEF Idle, Flows, NoForm, Forms
  <2>4. actions = [issued |-> 0, out |-> out, confirming |-> 0, flow |-> Idle, drafts |-> drafts,
                   pending |-> Nothing, said |-> said, target |-> Nothing, form |-> NoForm,
                   asked |-> Nothing, behind |-> FALSE]
    BY <1>1
  <2> HIDE DEF said, drafts, out
  <2>5. actions \in [issued : 0 .. desk.presses, out : [Slots -> 0 .. 0], confirming : Nat,
              flow : Flows, drafts : [keys -> {NoDraft} \cup [text : Texts, applied : BOOLEAN]],
              pending : Pendings(0) \cup {Nothing}, said : {said},
              target : Accounts \cup {Nothing}, form : Forms,
              asked : Accounts \cup {Nothing}, behind : BOOLEAN]
    BY <1>2, <2>2, <2>3, <2>4
  <2>6. actions.issued = 0 /\ actions.said = said
    BY <2>4
  <2> QED BY <2>1, <2>5, <2>6 DEF IsActions
<1>6. ReadsOK /\ \A read \in Kinds : reads[read].found = Nothing
  <2>1. DOMAIN reads = Kinds /\ \A read \in Kinds : reads[read] = NotBegun
    BY <1>1
  <2>2. NotBegun \in [at : {"none", "begun", "read"}, stale : BOOLEAN, found : {NotBegun.found}]
        /\ NotBegun.found = Nothing
    BY DEF NotBegun
  <2>3. "status" \in Kinds
    BY DEF Kinds
  <2> QED BY <2>1, <2>2, <2>3 DEF ReadsOK
<1>7. ViewOK /\ CallsOK /\ LateOK
  BY <1>1, <1>3, <1>4 DEF ViewOK, CallsOK, LateOK, IsCall
<1>8. TypeOK
  BY <1>1, <1>4, <1>5, <1>6, <1>7 DEF TypeOK
<1>9. TicketsApart /\ SwitchOfItsCall /\ AnswersRight /\ LateApart /\ RulesRight
  BY <1>1, <1>4 DEF TicketsApart, SwitchOfItsCall, AnswersRight, LateApart, RulesRight
<1>10. LinesOwn /\ LinesRight
  <2>1. \A at \in desk.fields : actions.said[at] = NoSaid
    BY <1>1, <1>2
  <2>2. NoSaid.ticket = 0 /\ NoSaid.word = Nothing /\ Nothing \notin Undone
    BY NothingSaid DEF NoSaid, Undone, Words, Answers
  <2> QED BY <1>1, <1>4, <2>1, <2>2 DEF LinesOwn, LinesRight
<1>11. FlowRight /\ ConflictRight /\ UnconfirmedRight /\ SwitchRight
  BY <1>1, NothingSaid DEF FlowRight, ConflictRight, UnconfirmedRight, SwitchRight, Idle, NoForm, Whys
<1>12. ReadRight /\ SliceRight
  BY <1>1, <1>6 DEF ReadRight, SliceRight
<1> QED BY <1>8, <1>9, <1>10, <1>11, <1>12 DEF IInv

LEMMA StepKeeps == IInv /\ [Next]_vars => IInv'
<1> SUFFICES ASSUME IInv, [Next]_vars PROVE IInv'
  OBVIOUS
<1>1. CASE Press
  BY <1>1, PressesKeep
<1>2. CASE CallStep
  BY <1>2, FailKeeps, RefuseKeeps, TakeChangeKeeps, TakePauseKeeps, TakeResumeKeeps,
     BeginSwitchKeeps DEF CallStep
<1>3. CASE SwitchStep
  BY <1>3, GrantSwitchKeeps, EndSwitchKeeps DEF SwitchStep
<1>4. CASE WaitPasses \/ LandCall
  BY <1>4, WaitPassesKeeps, LandCallKeeps
<1>5. CASE OthersStep
  BY <1>5, OthersChangeKeeps, OthersPauseKeeps, OthersResumeKeeps, RestartKeeps DEF OthersStep
<1>6. CASE \E read \in Kinds : ReadStep(read)
  BY <1>6, BeginReadKeeps, SampleReadKeeps, FailReadKeeps, LandReadKeeps DEF ReadStep
<1>7. CASE UNCHANGED vars
  <2>1. UNCHANGED <<desk, runtime, taken, calls, reads, view, actions, panel>>
    BY <1>7 DEF vars
  <2>2. Lands /\ Awaited' = Awaited
    BY <2>1 DEF Lands, Awaited
  <2>3. LinesOwn' /\ LinesRight'
    BY <2>1, <2>2, LinesKeep
  <2>4. ReadRight' /\ FlowRight' /\ SliceRight'
    BY <2>1 DEF IInv, ReadRight, FlowRight, SliceRight, Kinds
  <2>5. ConflictRight' /\ UnconfirmedRight' /\ SwitchRight'
    BY <2>1, <2>2, AwaitedKeep
  <2> QED BY <2>1, <2>2, <2>3, <2>4, <2>5, PartsStay, WindowKeeps
<1>8. CASE \E call \in runtime.late : ComeLate(call)
  BY <1>8, ComeLateKeeps
<1> QED BY <1>1, <1>2, <1>3, <1>4, <1>5, <1>6, <1>7, <1>8 DEF Next

LEMMA Inductive == Spec => []IInv
BY InitRight, StepKeeps, PTL DEF Spec

\* Every variable of the writes has its type, and a line, a draft and a row their field's.
THEOREM TypesHold == Spec => []TypeOK
<1>1. IInv => TypeOK
  BY DEF IInv
<1> QED BY <1>1, Inductive, PTL

\* What a line says did not happen did not, then or later: whichever answer came or was lost,
\* however late a request given up still comes, whatever the others changed meanwhile and
\* however often the Runtime restarted; but for a change that takes no effect by a read the
\* request came only after.
THEOREM UndoneHolds == Spec => []SaidNotDoneIsNotDone
<1>1. IInv => SaidNotDoneIsNotDone
  BY DEF IInv, LinesRight, Dead, Undone, Missed, SaidNotDoneIsNotDone
<1> QED BY <1>1, Inductive, PTL


\* Only the Runtime takes a change: a press only sends.
LEMMA PressTakesNothing == Press => UNCHANGED taken
<1> SUFFICES ASSUME Press PROVE UNCHANGED taken
  OBVIOUS
<1> USE DEF Pressed, Send, SendRule
<1>1. CASE SchedulingPress
  BY <1>1 DEF SchedulingPress, PausePressed, ResumePressed, ResumeConfirmed
<1>2. CASE TopBarPress
  BY <1>2 DEF TopBarPress, PresetConfirmed, PresetPressed
<1>3. CASE DraftPress
  BY <1>3 DEF DraftPress, ApplyDraft, BackToFile, EditDraft
<1>4. CASE QuietPress
  BY <1>4 DEF QuietPress, FormOpened, QuietAdd, QuietClear, QuietClearConfirmed, QuietUnconfirmed,
              FormChanged, QuietDelete
<1>5. CASE RulePress
  BY <1>5 DEF RulePress, RuleToFile, RulePicked, ShowPanel
<1> QED BY <1>1, <1>2, <1>3, <1>4, <1>5 DEF Press

\* A ticket is taken when its own change is, in time or late, or when the switch it asked for
\* commits.
LEMMA TakenBy ==
  ASSUME [Next]_vars, NEW ticket, ticket \in taken' \ taken
  PROVE  \/ \E call \in calls : TakeChange(call) /\ ticket = call.ticket
         \/ \E call \in runtime.late :
              call.what \in Fields /\ ~MovedOn(call) /\ ticket = call.ticket
         \/ ticket = runtime.switch.ticket
<1>1. CASE Press
  BY <1>1, PressTakesNothing
<1>2. CASE CallStep
  BY <1>2 DEF CallStep, Fail, Refuse, TakeChange, ChangeTaken, TakePause, TakeResume, BeginSwitch
<1>3. CASE SwitchStep
  BY <1>3 DEF SwitchStep, GrantSwitch, EndSwitch
<1>4. CASE WaitPasses \/ LandCall
  BY <1>4 DEF WaitPasses, LandCall, Land
<1>5. CASE OthersStep
  BY <1>5 DEF OthersStep, OthersResume, Restart, OthersPause, OthersChange
<1>6. CASE \E read \in Kinds : ReadStep(read)
  BY <1>6 DEF ReadStep, BeginRead, SampleRead, FailRead, LandRead
<1>7. CASE UNCHANGED vars
  BY <1>7 DEF vars
<1>8. CASE \E call \in runtime.late : ComeLate(call)
  BY <1>8 DEF ComeLate, ChangeTaken
<1> QED BY <1>1, <1>2, <1>3, <1>4, <1>5, <1>6, <1>7, <1>8 DEF Next

\* A rule the Runtime takes changes what its press was on, and nothing else: nobody's other
\* quiet time goes, and no start goes off under an idle action that stops the emulator.
THEOREM TakenAsPressed == Spec => RulesTakenAsPressed
<1>1. ASSUME IInv, [Next]_vars, NEW call \in calls \cup runtime.late, desk.versioned,
             call.ticket \in taken' \ taken
      PROVE  AsPressed(call, runtime.rows)
  <2>1. CASE \E other \in calls : TakeChange(other) /\ call.ticket = other.ticket
    <3>1. PICK other \in calls : TakeChange(other) /\ call.ticket = other.ticket
      BY <2>1
    <3>2. /\ other.word = Nothing /\ other.what \in Fields /\ other.based = runtime.version
      BY <1>1, <3>1 DEF TakeChange, ChangeTaken, MovedOn
    <3>3. call \notin runtime.late
      BY <1>1, <3>1, <3>2, NothingSaid DEF IInv, LateApart, Words, Answers
    <3>4. call = other
      BY <1>1, <3>1, <3>3 DEF IInv, TicketsApart
    <3> QED BY <1>1, <3>2, <3>4 DEF IInv, RulesRight
  <2>2. CASE \E late \in runtime.late :
               late.what \in Fields /\ ~MovedOn(late) /\ call.ticket = late.ticket
    <3>1. PICK late \in runtime.late :
            late.what \in Fields /\ ~MovedOn(late) /\ call.ticket = late.ticket
      BY <2>2
    <3>2. AsPressed(late, runtime.rows)
      BY <1>1, <3>1 DEF IInv, RulesRight, MovedOn
    <3>3. call = late \/ SameRequest(call, late)
      BY <1>1, <3>1 DEF IInv, LateApart
    <3> QED BY <3>2, <3>3 DEF AsPressed, SameRequest
  <2>3. CASE call.ticket = runtime.switch.ticket
    <3>1. call \notin runtime.late
      BY <1>1, <2>3 DEF IInv, LateApart
    <3>2. call.what = "Backends"
      BY <1>1, <2>3, <3>1 DEF IInv, SwitchOfItsCall
    <3> QED BY <3>2 DEF AsPressed
  <2> QED BY <1>1, <2>1, <2>2, <2>3, TakenBy
<1>2. IInv /\ [Next]_vars =>
        [\A call \in calls \cup runtime.late :
          desk.versioned /\ call.ticket \in taken' \ taken =>
             LET before == runtime.rows[<<call.what, call.of>>]
             IN /\ call.what = "Quiet" =>
                      (before \ call.value) \cup (call.value \ before) \subseteq call.item
                /\ call.what = "Start" /\ call.value # 1 => ~StopsEmulator(runtime.rows, call.of)]_vars
  BY <1>1 DEF AsPressed
<1> QED BY <1>2, Inductive, PTL DEF Spec, RulesTakenAsPressed
=============================================================================
