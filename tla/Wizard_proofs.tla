---------------------------- MODULE Wizard_proofs ----------------------------
(***************************************************************************)
(* What the install wizard promises, for every desk: whatever it is run    *)
(* for, whatever fails, and whatever a person presses in between.          *)
(***************************************************************************)
EXTENDS Wizard, SequenceTheorems, TLAPS

\* What was left for the event loop and not yet run.
Items(q) == {q[i] : i \in 1..Len(q)}

-----------------------------------------------------------------------------
(* The inductive invariant.                                                *)

\* A worker's last closure; after it only an answer that found nobody is left.
Final(c) == c.do \notin {"show", "hide", "expired"}
Ordered(q) == \A i, j \in 1..Len(q) : i < j /\ Final(q[i]) => q[j].do = "expired"
OnlyExpired(q) == \A c \in Items(q) : c.do = "expired"
Shown(q) == \E c \in Items(q) : c.do = "show"
OneShow(q) == \A i, j \in 1..Len(q) : q[i].do = "show" /\ q[j].do = "show" => i = j

\* The worker is done, or has given up.
GivenUp == work.job = "none" \/ work.why # "ok"

\* The closures: a worker's last one is left when it is done, and a page neither busy nor failed
\* has nobody at work.
Closed ==
  /\ Ordered(posted)
  /\ (\E c \in Items(posted) : Final(c)) => work.job = "none"
  /\ (~page.busy /\ ~page.failed) \/ page.step = 4 => work.job = "none" /\ OnlyExpired(posted)

\* Only a worker that gave up leaves an answer without its reader, or works behind a failed page.
Abandoned ==
  /\ page.failed => GivenUp
  /\ (\E c \in Items(posted) : c.do = "expired") => GivenUp
  /\ hand.question \notin {0, work.question} => GivenUp
  /\ window = "letGo" => page.failed /\ GivenUp

\* What begins the next worker is left on a page that has not failed, with no question about.
Chained ==
  (\E c \in Items(posted) : c.do \in {"optionsDone", "applied"}) =>
    /\ ~page.failed /\ page.step \notin {5, 6} /\ hand = NoHand
    /\ \A c \in Items(posted) : c.do \notin {"show", "expired"}

\* The one question: whose it is, and where its answer is.
Asked ==
  /\ work.at \in {"wait", "over"} <=> work.question # 0
  /\ work.question <= count.asked /\ hand.question <= count.asked
  /\ work.mail # <<>> => work.question # 0 /\ work.mail[1] = work.question /\ st.slot = 0 /\ hand = NoHand
  /\ st.slot # 0 => st.slot = work.question /\ hand = NoHand
  /\ hand.question = 0 => hand = NoHand
  /\ hand.question # 0 => hand.answer # <<>> /\ hand.answer[1] = hand.question

\* A question the worker still waits on, unanswered.
Unanswered == work.at = "wait" /\ work.mail = <<>> /\ hand.question # work.question

\* The page of a question: shown once, for the question that waits.
Paged ==
  /\ page.step \in {5, 6} => page.back \in {0, 1, 2, 3, 7} /\ ~Shown(posted)
  /\ page.step \in {5, 6} /\ st.slot # 0 => page.question = st.slot
  /\ \A c \in Items(posted) : c.do = "show" => st.slot \in {0, c.question}
  /\ OneShow(posted)
  /\ work.job # "none" /\ work.why = "ok" /\ ~Unanswered => page.step \notin {5, 6} /\ ~Shown(posted)

\* Why a worker is where it is.  An apply of the instances asks no association.
Ending ==
  /\ work.job = "instances" => work.left = 0
  /\ work.why # "ok" => work.at \in {"over", "clean", "retry", "restore", "keep", "bundles", "told"}
  /\ work.why \in {"cancelled", "expired"} => work.at \in {"over", "clean", "retry"}
  /\ work.at = "over" => work.why = "expired"

\* A line lost while no bundle was unread, or before: the run stops.
Dropped == st.lost /\ ~st.problems

\* Such a loss is on its way to the failure page.
Stopping ==
  Dropped => \/ page.failed \/ page.step = 4
             \/ work.job # "none" /\ (work.why # "ok" \/ work.job = "settle")
             \/ \E c \in Items(posted) : c.do = "failed"

\* Until its questions are answered a worker changes nothing.
Early == {"begin", "fetch", "verify", "agree", "lock", "check", "prepare", "plan", "ask", "resolve",
          "wait", "over"}
Untouched == work.at \in Early \/ work.why \in {"cancelled", "expired"} => disk = work.was

\* A worker knows what the disk held when it began.
Begun == work.job # "none" => work.was \in Disks

\* The tick is under the note it was made under.
Ticked ==
  /\ page.downgradeOk => page.sworn = page.downgradeNote
  /\ work.job = "install" /\ Note(work.release) # NoRelease => page.sworn = work.release

IInv ==
  /\ TypeOK /\ Closed /\ Abandoned /\ Chained /\ Asked /\ Paged /\ Ending /\ Stopping /\ Untouched
  /\ Begun /\ Ticked
-----------------------------------------------------------------------------
(* The closures left, and the phases.                                      *)

LEMMA Added ==
  ASSUME NEW q \in Seq(Closures), NEW c \in Closures
  PROVE  LET r == q \o <<c>>
         IN /\ r \in Seq(Closures) /\ Items(r) = Items(q) \cup {c}
            /\ Ordered(q) /\ (c.do = "expired" \/ ~\E d \in Items(q) : Final(d)) => Ordered(r)
            /\ OneShow(q) /\ (c.do # "show" \/ ~Shown(q)) => OneShow(r)
<1> DEFINE r == q \o <<c>>
<1>1. /\ r \in Seq(Closures) /\ Len(r) = Len(q) + 1 /\ Len(q) \in Nat
      /\ \A i \in 1..Len(q) : r[i] = q[i]
      /\ r[Len(q) + 1] = c
  OBVIOUS
<1> HIDE DEF r
<1>2. 1..Len(r) = 1..Len(q) \cup {Len(q) + 1}
  BY <1>1
<1>3. Items(r) = Items(q) \cup {c}
  BY <1>1, <1>2 DEF Items
<1>4. ASSUME Ordered(q), c.do = "expired" \/ ~\E d \in Items(q) : Final(d) PROVE Ordered(r)
  <2> SUFFICES ASSUME NEW i \in 1..Len(r), NEW j \in 1..Len(r), i < j, Final(r[i]) PROVE r[j].do = "expired"
    BY DEF Ordered
  <2>1. i \in 1..Len(q)
    BY <1>1, <1>2
  <2>2. r[i] = q[i] /\ q[i] \in Items(q)
    BY <1>1, <2>1 DEF Items
  <2>3. CASE j \in 1..Len(q)
    BY <1>1, <1>4, <2>1, <2>2, <2>3 DEF Ordered
  <2>4. CASE j = Len(q) + 1
    BY <1>1, <1>4, <2>2, <2>4
  <2>5. QED
    BY <1>2, <2>3, <2>4
<1>5. ASSUME OneShow(q), c.do # "show" \/ ~Shown(q) PROVE OneShow(r)
  <2>1. \A i \in 1..Len(q) : q[i] \in Items(q)
    BY DEF Items
  <2>2. QED
    BY <1>1, <1>2, <1>5, <2>1 DEF OneShow, Shown
<1>6. QED
  BY <1>1, <1>3, <1>4, <1>5 DEF r

LEMMA Taken ==
  ASSUME NEW q \in Seq(Closures), q # <<>>
  PROVE  /\ Head(q) \in Closures /\ Tail(q) \in Seq(Closures)
         /\ Items(q) = {Head(q)} \cup Items(Tail(q))
         /\ Ordered(q) => Ordered(Tail(q)) /\ (Final(Head(q)) => OnlyExpired(Tail(q)))
         /\ OneShow(q) => OneShow(Tail(q)) /\ (Head(q).do = "show" => ~Shown(Tail(q)))
<1> DEFINE r == Tail(q)
<1>1. /\ Head(q) \in Closures /\ r \in Seq(Closures)
      /\ Head(q) = q[1] /\ Len(r) = Len(q) - 1 /\ Len(q) \in Nat \ {0}
      /\ \A i \in 1..Len(r) : r[i] = q[i + 1]
  OBVIOUS
<1> HIDE DEF r
<1>2. /\ \A i \in 1..Len(r) : i + 1 \in 1..Len(q)
      /\ \A i \in 1..Len(q) : i = 1 \/ i - 1 \in 1..Len(r)
      /\ 1 \in 1..Len(q)
  BY <1>1
<1>3. Items(q) = {Head(q)} \cup Items(r)
  <2>1. Items(r) \subseteq Items(q) /\ Head(q) \in Items(q)
    BY <1>1, <1>2 DEF Items
  <2>2. ASSUME NEW i \in 1..Len(q) PROVE q[i] \in {Head(q)} \cup Items(r)
    <3>1. CASE i = 1
      BY <1>1, <3>1
    <3>2. CASE i # 1
      <4>1. i - 1 \in 1..Len(r) /\ r[i - 1] = q[i]
        BY <1>1, <1>2, <3>2
      <4>2. QED
        BY <4>1 DEF Items
    <3>3. QED
      BY <3>1, <3>2
  <2>3. QED
    BY <2>1, <2>2 DEF Items
<1>4. ASSUME Ordered(q) PROVE Ordered(r) /\ (Final(Head(q)) => OnlyExpired(r))
  <2>1. Ordered(r)
    <3>1. \A j \in 1..Len(r) : j + 1 \in 1..Len(q) /\ r[j] = q[j + 1]
      BY <1>1, <1>2
    <3>2. QED
      BY <1>1, <1>4, <3>1 DEF Ordered
  <2>2. \A i \in 1..Len(r) : Final(Head(q)) => r[i].do = "expired"
    BY <1>1, <1>2, <1>4 DEF Ordered
  <2>3. QED
    BY <2>1, <2>2 DEF OnlyExpired, Items
<1>5. ASSUME OneShow(q) PROVE OneShow(r) /\ (Head(q).do = "show" => ~Shown(r))
  <2>1. OneShow(r)
    <3>1. \A j \in 1..Len(r) : j + 1 \in 1..Len(q) /\ r[j] = q[j + 1]
      BY <1>1, <1>2
    <3>2. QED
      BY <1>1, <1>5, <3>1 DEF OneShow
  <2>2. \A i \in 1..Len(r) : Head(q).do = "show" => r[i].do # "show"
    BY <1>1, <1>2, <1>5 DEF OneShow
  <2>3. QED
    BY <2>1, <2>2 DEF Shown, Items
<1>6. QED
  BY <1>1, <1>3, <1>4, <1>5 DEF r

\* The place of an item in a sequence without twins.
LEMMA PlaceOf ==
  ASSUME NEW s, NEW i \in DOMAIN s, \A j \in DOMAIN s : s[j] = s[i] => j = i
  PROVE  (CHOOSE j \in DOMAIN s : s[j] = s[i]) = i
OBVIOUS

(* The phases of each job, and what follows each.                          *)

LEMMA InstallUpStages ==
  ASSUME Upgrading
  PROVE  /\ Stages("install") = {"begin", "fetch", "verify", "agree", "ask", "resolve", "place",
                                 "switch", "clean", "wait", "over"}
         /\ After("install", "begin") = "fetch"
         /\ After("install", "fetch") = "verify"
         /\ After("install", "verify") = "agree"
         /\ After("install", "agree") = "ask"
         /\ After("install", "ask") = "resolve"
         /\ After("install", "resolve") = "place"
         /\ After("install", "place") = "switch"
         /\ After("install", "switch") = "clean"
<1> DEFINE s == <<"begin", "fetch", "verify", "agree", "ask", "resolve", "place", "switch", "clean">>
<1>1. InstallPhases = s /\ Script("install") = s
  BY DEF Script, InstallPhases
<1>2. DOMAIN s = 1..9
  OBVIOUS
<1>3. /\ s[1] = "begin" /\ s[2] = "fetch" /\ s[3] = "verify" /\ s[4] = "agree" /\ s[5] = "ask"
      /\ s[6] = "resolve" /\ s[7] = "place" /\ s[8] = "switch" /\ s[9] = "clean"
  OBVIOUS
<1>4. 1..9 = {1, 2, 3, 4, 5, 6, 7, 8, 9}
  OBVIOUS
<1> HIDE DEF s
<1>5. \A i, j \in 1..9 : s[i] = s[j] => i = j
  BY <1>3, <1>4
<1>6. \A i \in 1..9 : After("install", s[i]) = s[1 + i]
  BY <1>1, <1>2, <1>5, PlaceOf DEF After
<1>7. Range(s) = {s[1], s[2], s[3], s[4], s[5], s[6], s[7], s[8], s[9]}
  BY <1>2, <1>3, <1>4 DEF Range
<1>8. /\ After("install", s[1]) = s[2]
      /\ After("install", s[2]) = s[3]
      /\ After("install", s[3]) = s[4]
      /\ After("install", s[4]) = s[5]
      /\ After("install", s[5]) = s[6]
      /\ After("install", s[6]) = s[7]
      /\ After("install", s[7]) = s[8]
      /\ After("install", s[8]) = s[9]
  BY <1>4, <1>6
<1>9. QED
  BY <1>1, <1>3, <1>7, <1>8 DEF Stages, Script

LEMMA InstallNewStages ==
  ASSUME ~Upgrading
  PROVE  /\ Stages("install") = {"begin", "fetch", "verify", "agree", "lay", "configure", "clean"}
         /\ After("install", "begin") = "fetch"
         /\ After("install", "fetch") = "verify"
         /\ After("install", "verify") = "agree"
         /\ After("install", "agree") = "lay"
         /\ After("install", "lay") = "configure"
         /\ After("install", "configure") = "clean"
<1> DEFINE s == <<"begin", "fetch", "verify", "agree", "lay", "configure", "clean">>
<1>1. InstallPhases = s /\ Script("install") = s
  BY DEF Script, InstallPhases
<1>2. DOMAIN s = 1..7
  OBVIOUS
<1>3. /\ s[1] = "begin" /\ s[2] = "fetch" /\ s[3] = "verify" /\ s[4] = "agree" /\ s[5] = "lay"
      /\ s[6] = "configure" /\ s[7] = "clean"
  OBVIOUS
<1>4. 1..7 = {1, 2, 3, 4, 5, 6, 7}
  OBVIOUS
<1> HIDE DEF s
<1>5. \A i, j \in 1..7 : s[i] = s[j] => i = j
  BY <1>3, <1>4
<1>6. \A i \in 1..7 : After("install", s[i]) = s[1 + i]
  BY <1>1, <1>2, <1>5, PlaceOf DEF After
<1>7. Range(s) = {s[1], s[2], s[3], s[4], s[5], s[6], s[7]}
  BY <1>2, <1>3, <1>4 DEF Range
<1>8. /\ After("install", s[1]) = s[2]
      /\ After("install", s[2]) = s[3]
      /\ After("install", s[3]) = s[4]
      /\ After("install", s[4]) = s[5]
      /\ After("install", s[5]) = s[6]
      /\ After("install", s[6]) = s[7]
  BY <1>4, <1>6
<1>9. QED
  BY <1>1, <1>3, <1>7, <1>8 DEF Stages, Script

LEMMA ResourcesStages ==
  /\ Stages("resources") = {"begin", "lock", "check", "ask", "resolve", "place", "switch",
                            "clean", "wait", "over"}
  /\ After("resources", "begin") = "lock"
  /\ After("resources", "lock") = "check"
  /\ After("resources", "check") = "ask"
  /\ After("resources", "ask") = "resolve"
  /\ After("resources", "resolve") = "place"
  /\ After("resources", "place") = "switch"
  /\ After("resources", "switch") = "clean"
<1> DEFINE s == <<"begin", "lock", "check", "ask", "resolve", "place", "switch", "clean">>
<1>1. ResourcesPhases = s /\ Script("resources") = s
  BY DEF Script, ResourcesPhases
<1>2. DOMAIN s = 1..8
  OBVIOUS
<1>3. /\ s[1] = "begin" /\ s[2] = "lock" /\ s[3] = "check" /\ s[4] = "ask" /\ s[5] = "resolve"
      /\ s[6] = "place" /\ s[7] = "switch" /\ s[8] = "clean"
  OBVIOUS
<1>4. 1..8 = {1, 2, 3, 4, 5, 6, 7, 8}
  OBVIOUS
<1> HIDE DEF s
<1>5. \A i, j \in 1..8 : s[i] = s[j] => i = j
  BY <1>3, <1>4
<1>6. \A i \in 1..8 : After("resources", s[i]) = s[1 + i]
  BY <1>1, <1>2, <1>5, PlaceOf DEF After
<1>7. Range(s) = {s[1], s[2], s[3], s[4], s[5], s[6], s[7], s[8]}
  BY <1>2, <1>3, <1>4 DEF Range
<1>8. /\ After("resources", s[1]) = s[2]
      /\ After("resources", s[2]) = s[3]
      /\ After("resources", s[3]) = s[4]
      /\ After("resources", s[4]) = s[5]
      /\ After("resources", s[5]) = s[6]
      /\ After("resources", s[6]) = s[7]
      /\ After("resources", s[7]) = s[8]
  BY <1>4, <1>6
<1>9. QED
  BY <1>1, <1>3, <1>7, <1>8 DEF Stages, Script

LEMMA OptionsStages ==
  /\ Stages("options") = {"begin", "back", "launcher", "menu", "desktop", "keep", "retry"}
  /\ After("options", "begin") = "back"
  /\ After("options", "back") = "launcher"
  /\ After("options", "launcher") = "menu"
  /\ After("options", "menu") = "desktop"
  /\ After("options", "desktop") = "keep"
<1> DEFINE s == <<"begin", "back", "launcher", "menu", "desktop", "keep">>
<1>1. OptionsPhases = s /\ Script("options") = s
  BY DEF Script, OptionsPhases
<1>2. DOMAIN s = 1..6
  OBVIOUS
<1>3. /\ s[1] = "begin" /\ s[2] = "back" /\ s[3] = "launcher" /\ s[4] = "menu" /\ s[5] = "desktop"
      /\ s[6] = "keep"
  OBVIOUS
<1>4. 1..6 = {1, 2, 3, 4, 5, 6}
  OBVIOUS
<1> HIDE DEF s
<1>5. \A i, j \in 1..6 : s[i] = s[j] => i = j
  BY <1>3, <1>4
<1>6. \A i \in 1..6 : After("options", s[i]) = s[1 + i]
  BY <1>1, <1>2, <1>5, PlaceOf DEF After
<1>7. Range(s) = {s[1], s[2], s[3], s[4], s[5], s[6]}
  BY <1>2, <1>3, <1>4 DEF Range
<1>8. /\ After("options", s[1]) = s[2]
      /\ After("options", s[2]) = s[3]
      /\ After("options", s[3]) = s[4]
      /\ After("options", s[4]) = s[5]
      /\ After("options", s[5]) = s[6]
  BY <1>4, <1>6
<1>9. QED
  BY <1>1, <1>3, <1>7, <1>8 DEF Stages, Script

LEMMA DiscoverStages ==
  /\ Stages("discover") = {"begin", "pin", "start", "list", "bundles", "retry"}
  /\ After("discover", "begin") = "pin"
  /\ After("discover", "pin") = "start"
  /\ After("discover", "start") = "list"
  /\ After("discover", "list") = "bundles"
<1> DEFINE s == <<"begin", "pin", "start", "list", "bundles">>
<1>1. DiscoverPhases = s /\ Script("discover") = s
  BY DEF Script, DiscoverPhases
<1>2. DOMAIN s = 1..5
  OBVIOUS
<1>3. /\ s[1] = "begin" /\ s[2] = "pin" /\ s[3] = "start" /\ s[4] = "list" /\ s[5] = "bundles"
  OBVIOUS
<1>4. 1..5 = {1, 2, 3, 4, 5}
  OBVIOUS
<1> HIDE DEF s
<1>5. \A i, j \in 1..5 : s[i] = s[j] => i = j
  BY <1>3, <1>4
<1>6. \A i \in 1..5 : After("discover", s[i]) = s[1 + i]
  BY <1>1, <1>2, <1>5, PlaceOf DEF After
<1>7. Range(s) = {s[1], s[2], s[3], s[4], s[5]}
  BY <1>2, <1>3, <1>4 DEF Range
<1>8. /\ After("discover", s[1]) = s[2]
      /\ After("discover", s[2]) = s[3]
      /\ After("discover", s[3]) = s[4]
      /\ After("discover", s[4]) = s[5]
  BY <1>4, <1>6
<1>9. QED
  BY <1>1, <1>3, <1>7, <1>8 DEF Stages, Script

LEMMA InstancesStages ==
  /\ Stages("instances") = {"begin", "prepare", "plan", "resolve", "stop", "place",
                            "switch", "clean", "restart", "wait", "over", "restore", "retry"}
  /\ After("instances", "begin") = "prepare"
  /\ After("instances", "prepare") = "plan"
  /\ After("instances", "plan") = "resolve"
  /\ After("instances", "resolve") = "stop"
  /\ After("instances", "stop") = "place"
  /\ After("instances", "place") = "switch"
  /\ After("instances", "switch") = "clean"
  /\ After("instances", "clean") = "restart"
<1> DEFINE s == <<"begin", "prepare", "plan", "resolve", "stop", "place", "switch", "clean", "restart">>
<1>1. InstancesPhases = s /\ Script("instances") = s
  BY DEF Script, InstancesPhases
<1>2. DOMAIN s = 1..9
  OBVIOUS
<1>3. /\ s[1] = "begin" /\ s[2] = "prepare" /\ s[3] = "plan" /\ s[4] = "resolve" /\ s[5] = "stop"
      /\ s[6] = "place" /\ s[7] = "switch" /\ s[8] = "clean" /\ s[9] = "restart"
  OBVIOUS
<1>4. 1..9 = {1, 2, 3, 4, 5, 6, 7, 8, 9}
  OBVIOUS
<1> HIDE DEF s
<1>5. \A i, j \in 1..9 : s[i] = s[j] => i = j
  BY <1>3, <1>4
<1>6. \A i \in 1..9 : After("instances", s[i]) = s[1 + i]
  BY <1>1, <1>2, <1>5, PlaceOf DEF After
<1>7. Range(s) = {s[1], s[2], s[3], s[4], s[5], s[6], s[7], s[8], s[9]}
  BY <1>2, <1>3, <1>4 DEF Range
<1>8. /\ After("instances", s[1]) = s[2]
      /\ After("instances", s[2]) = s[3]
      /\ After("instances", s[3]) = s[4]
      /\ After("instances", s[4]) = s[5]
      /\ After("instances", s[5]) = s[6]
      /\ After("instances", s[6]) = s[7]
      /\ After("instances", s[7]) = s[8]
      /\ After("instances", s[8]) = s[9]
  BY <1>4, <1>6
<1>9. QED
  BY <1>1, <1>3, <1>7, <1>8 DEF Stages, Script

LEMMA ReleaseStages ==
  /\ Stages("release") = {"begin", "look"}
  /\ After("release", "begin") = "look"
<1> DEFINE s == <<"begin", "look">>
<1>1. Script("release") = s
  BY DEF Script
<1>2. DOMAIN s = 1..2
  OBVIOUS
<1>3. s[1] = "begin" /\ s[2] = "look"
  OBVIOUS
<1>4. 1..2 = {1, 2}
  OBVIOUS
<1> HIDE DEF s
<1>5. \A i, j \in 1..2 : s[i] = s[j] => i = j
  BY <1>3, <1>4
<1>6. \A i \in 1..2 : After("release", s[i]) = s[1 + i]
  BY <1>1, <1>2, <1>5, PlaceOf DEF After
<1>7. After("release", s[1]) = s[2]
  BY <1>4, <1>6
<1>8. QED
  BY <1>3, <1>7 DEF Stages

LEMMA BundleStages ==
  /\ Stages("bundle") = {"begin", "read", "retry"}
  /\ After("bundle", "begin") = "read"
<1> DEFINE s == <<"begin", "read">>
<1>1. Script("bundle") = s
  BY DEF Script
<1>2. DOMAIN s = 1..2
  OBVIOUS
<1>3. s[1] = "begin" /\ s[2] = "read"
  OBVIOUS
<1>4. 1..2 = {1, 2}
  OBVIOUS
<1> HIDE DEF s
<1>5. \A i, j \in 1..2 : s[i] = s[j] => i = j
  BY <1>3, <1>4
<1>6. \A i \in 1..2 : After("bundle", s[i]) = s[1 + i]
  BY <1>1, <1>2, <1>5, PlaceOf DEF After
<1>7. After("bundle", s[1]) = s[2]
  BY <1>4, <1>6
<1>8. QED
  BY <1>3, <1>7 DEF Stages

LEMMA SettleStages ==
  /\ Stages("settle") = {"begin", "settle", "told"}
  /\ After("settle", "begin") = "settle"
  /\ After("settle", "settle") = "told"
<1> DEFINE s == <<"begin", "settle", "told">>
<1>1. Script("settle") = s
  BY DEF Script
<1>2. DOMAIN s = 1..3
  OBVIOUS
<1>3. s[1] = "begin" /\ s[2] = "settle" /\ s[3] = "told"
  OBVIOUS
<1>4. 1..3 = {1, 2, 3}
  OBVIOUS
<1> HIDE DEF s
<1>5. \A i, j \in 1..3 : s[i] = s[j] => i = j
  BY <1>3, <1>4
<1>6. \A i \in 1..3 : After("settle", s[i]) = s[1 + i]
  BY <1>1, <1>2, <1>5, PlaceOf DEF After
<1>7. After("settle", s[1]) = s[2] /\ After("settle", s[2]) = s[3]
  BY <1>4, <1>6
<1>8. QED
  BY <1>3, <1>7 DEF Stages

LEMMA StagesArePhases == \A job \in Jobs : Stages(job) \subseteq Phases
<1> SUFFICES ASSUME NEW job \in Jobs PROVE Stages(job) \subseteq Phases
  OBVIOUS
<1>1. CASE job = "install"
  BY <1>1, InstallUpStages, InstallNewStages DEF Phases
<1>2. CASE job = "resources" \/ job = "instances"
  BY <1>2, ResourcesStages, InstancesStages DEF Phases
<1>3. CASE job = "options" \/ job = "discover"
  BY <1>3, OptionsStages, DiscoverStages DEF Phases
<1>4. CASE job = "release" \/ job = "bundle" \/ job = "settle"
  BY <1>4, ReleaseStages, BundleStages, SettleStages DEF Phases
<1>5. QED
  BY <1>1, <1>2, <1>3, <1>4 DEF Jobs

(* A phase that ends well goes on to another of its job, and past the      *)
(* questions to none before them.                                          *)
LEMMA PhaseAfter ==
  ASSUME NEW job \in Jobs, NEW at \in Stages(job), at \notin Special
  PROVE  /\ After(job, at) \in Stages(job) \ {"wait", "over"}
         /\ at \notin Early => After(job, at) \notin Early
<1>1. CASE job = "install" /\ Upgrading
  BY <1>1, InstallUpStages DEF Special, Early
<1>2. CASE job = "install" /\ ~Upgrading
  BY <1>2, InstallNewStages DEF Special, Early
<1>3. CASE job = "resources"
  BY <1>3, ResourcesStages DEF Special, Early
<1>4. CASE job = "options"
  BY <1>4, OptionsStages DEF Special, Early
<1>5. CASE job = "discover"
  BY <1>5, DiscoverStages DEF Special, Early
<1>6. CASE job = "instances"
  BY <1>6, InstancesStages DEF Special, Early
<1>7. CASE job = "release"
  BY <1>7, ReleaseStages DEF Special, Early
<1>8. CASE job = "bundle" \/ job = "settle"
  BY <1>8, BundleStages, SettleStages DEF Special, Early
<1>9. QED
  BY <1>1, <1>2, <1>3, <1>4, <1>5, <1>6, <1>7, <1>8 DEF Jobs
-----------------------------------------------------------------------------
(* The worker's steps.                                                     *)

LEMMA OtherClosures ==
  /\ \A do \in {"failed", "expired", "notDone", "installed", "discovered", "bundleAdded", "finished",
                "optionsDone", "applied"} : [do |-> do] \in Closures
  /\ \A step \in {5, 6}, q \in Nat : [do |-> "show", step |-> step, question |-> q] \in Closures
  /\ \A step \in {5, 6} : [do |-> "hide", step |-> step] \in Closures
  /\ \A r \in Releases : [do |-> "looked", release |-> r] \in Closures
BY DEF Closures

LEMMA NobodyAtWork == NoWork \in Workers /\ "none" \in Stages("none") /\ Stages("none") = {"none"}
<1>1. /\ <<>> \in Answers /\ "ok" \in Whys /\ NoRelease \in Releases /\ {} \in SUBSET Files
      /\ <<>> \in Disks \cup {<<>>} /\ "none" \in Phases
  BY DEF Answers, Whys, Releases, Phases
<1>2. NoWork \in Workers
  BY <1>1 DEF NoWork, Workers
<1>3. Stages("none") = {"none"}
  BY DEF Stages
<1>4. QED
  BY <1>2, <1>3

\* The types that lean on the desk are the same after every step.
LEMMA SameTypes ==
  ASSUME desk' = desk
  PROVE  /\ Upgrading' = Upgrading /\ Rows' = Rows /\ Pages' = Pages
         /\ \A job \in Jobs \cup {"none"} : Stages(job)' = Stages(job)
<1>1. Upgrading' = Upgrading /\ Rows' = Rows
  BY DEF Upgrading, Rows
<1>2. Pages' = Pages
  BY <1>1 DEF Pages
<1>3. ASSUME NEW job \in Jobs \cup {"none"} PROVE Stages(job)' = Stages(job)
  BY <1>1 DEF Stages, InstallPhases
<1>4. QED
  BY <1>1, <1>2, <1>3

\* What is left of a worker that does not wait for an answer: no question, and nobody's answer.
LEMMA NoQuestion ==
  ASSUME IInv, work.job = "none" \/ work.at \notin {"wait", "over"}
  PROVE  /\ work.question = 0 /\ work.mail = <<>> /\ st.slot = 0
         /\ hand.question # 0 => GivenUp
         /\ work.job # "none" /\ work.why = "ok" =>
               /\ ~page.failed /\ hand = NoHand /\ page.step \notin {5, 6}
               /\ \A c \in Items(posted) : c.do \notin {"show", "expired"} /\ ~Final(c)
<1>1. TypeOK /\ Closed /\ Abandoned /\ Asked /\ Paged
  BY DEF IInv
<1>2. work.at \notin {"wait", "over"}
  <2>1. CASE work.job = "none"
    BY <1>1, <2>1, NobodyAtWork DEF TypeOK, Stages
  <2>2. QED
    BY <2>1
<1>3. work.question = 0 /\ work.mail = <<>> /\ st.slot = 0
  BY <1>1, <1>2 DEF Asked
<1>4. hand.question # 0 => GivenUp
  BY <1>1, <1>3 DEF Abandoned
<1>5. ASSUME work.job # "none", work.why = "ok"
      PROVE  /\ ~page.failed /\ hand = NoHand /\ page.step \notin {5, 6}
             /\ \A c \in Items(posted) : c.do \notin {"show", "expired"} /\ ~Final(c)
  <2>1. ~GivenUp /\ ~Unanswered
    BY <1>2, <1>5 DEF GivenUp, Unanswered
  <2>2. ~page.failed /\ hand = NoHand
    BY <1>1, <1>4, <2>1 DEF Abandoned, Asked
  <2>3. page.step \notin {5, 6} /\ ~Shown(posted)
    BY <1>1, <1>5, <2>1 DEF Paged
  <2>4. QED
    BY <1>1, <1>5, <2>1, <2>2, <2>3 DEF Abandoned, Closed, Shown
<1>6. QED
  BY <1>3, <1>4, <1>5

\* A worker ends: its last closure is left, and where a line was lost it is the failure.
LEMMA EndInv ==
  ASSUME IInv, Alive, work.at \notin {"wait", "over"}, NEW c \in Closures, EndsWith(<<c>>), Final(c),
         c.do \in {"optionsDone", "applied"} => work.why = "ok",
         UNCHANGED <<desk, page, hand, window>>, disk' \in Disks,
         st' \in States, st'.slot = st.slot, count' \in Counts, count'.asked = count.asked,
         Dropped' => c.do = "failed"
  PROVE  IInv'
<1>1. TypeOK /\ Closed /\ Abandoned /\ Asked /\ Paged /\ work.job # "none"
  BY DEF IInv, Alive
<1>2. work' = NoWork /\ posted' = posted \o <<c>>
  BY DEF EndsWith, Post
<1>3. /\ posted' \in Seq(Closures) /\ Items(posted') = Items(posted) \cup {c}
      /\ Ordered(posted')
      /\ c.do # "show" /\ c.do # "expired"
      /\ OneShow(posted')
  <2>1. ~\E d \in Items(posted) : Final(d)
    BY <1>1 DEF Closed
  <2>2. c.do # "show" /\ c.do # "expired"
    BY DEF Final
  <2>3. Ordered(posted) /\ OneShow(posted) /\ posted \in Seq(Closures)
    BY <1>1 DEF Closed, Paged, TypeOK
  <2>4. QED
    BY <1>2, <2>1, <2>2, <2>3, Added
<1>4. TypeOK'
  <2>1. page' \in Pages' /\ \A job \in Jobs \cup {"none"} : work'.job = job => work'.at \in Stages(job)'
    BY <1>1, <1>2, SameTypes, NobodyAtWork DEF TypeOK, NoWork
  <2>2. QED
    BY <1>1, <1>2, <1>3, <2>1, NobodyAtWork DEF TypeOK
<1>5. work'.job = "none" /\ work'.why = "ok" /\ work'.at = "none" /\ work'.question = 0 /\ work'.mail = <<>>
  BY <1>2 DEF NoWork
<1>6. work.question = 0 /\ st.slot = 0
  BY NoQuestion
<1>7. Closed'
  <2>1. ~((~page.busy /\ ~page.failed) \/ page.step = 4)
    BY <1>1 DEF Closed
  <2>2. QED
    BY <1>3, <1>5, <2>1 DEF Closed
<1>8. Abandoned'
  BY <1>1, <1>5 DEF Abandoned, GivenUp
<1>9. Chained'
  <2>1. CASE c.do \in {"optionsDone", "applied"}
    BY <1>1, <1>3, <2>1, NoQuestion DEF Chained
  <2>2. CASE c.do \notin {"optionsDone", "applied"}
    <3>1. \A d \in Items(posted') : d.do \notin {"optionsDone", "applied"}
      BY <1>1, <1>3, <2>2 DEF Closed, Final
    <3>2. QED
      BY <3>1 DEF Chained
  <2>3. QED
    BY <2>1, <2>2
<1>10. Asked'
  BY <1>1, <1>5, <1>6 DEF Asked
<1>11. Paged'
  BY <1>1, <1>3, <1>5, <1>6 DEF Paged, Shown
<1>12. Ending' /\ Stopping' /\ Untouched' /\ Begun' /\ Ticked'
  <2>1. Stopping'
    BY <1>3 DEF Stopping
  <2>2. Ending' /\ Untouched'
    BY <1>5 DEF Ending, Untouched, Early
  <2>3. Begun' /\ Ticked'
    BY <1>5 DEF IInv, Begun, Ticked
  <2>4. QED
    BY <2>1, <2>2, <2>3
<1>13. QED
  BY <1>4, <1>7, <1>8, <1>9, <1>10, <1>11, <1>12 DEF IInv

\* A worker goes on, or gives up.
LEMMA GoOnInv ==
  ASSUME IInv, Alive, work.at \notin {"wait", "over"},
         UNCHANGED <<desk, page, posted, hand, window>>, disk' \in Disks,
         work' \in Workers, work'.job = work.job, work'.release = work.release /\ work'.was = work.was,
         work'.question = 0, work'.mail = <<>>, work'.at \in Stages(work.job) \ {"wait", "over"},
         work.why # "ok" => work'.why # "ok", Ending', Untouched',
         st' \in States, st'.slot = st.slot, count' \in Counts, count'.asked = count.asked,
         Dropped' => Dropped \/ work'.why # "ok" \/ work.job = "settle"
  PROVE  IInv'
<1>1. TypeOK /\ Closed /\ Abandoned /\ Asked /\ Paged /\ Chained /\ Stopping /\ Begun /\ Ticked /\ work.job # "none"
  BY DEF IInv, Alive
<1>2. work.question = 0 /\ st.slot = 0
  BY NoQuestion
<1>3. TypeOK'
  <2>1. page' \in Pages' /\ \A job \in Jobs \cup {"none"} : work'.job = job => work'.at \in Stages(job)'
    BY <1>1, SameTypes DEF TypeOK
  <2>2. QED
    BY <1>1, <2>1 DEF TypeOK
<1>4. Closed' /\ Chained'
  BY <1>1 DEF Closed, Chained
<1>5. Abandoned'
  BY <1>1, <1>2 DEF Abandoned, GivenUp
<1>6. Asked'
  BY <1>1, <1>2 DEF Asked
<1>7. Paged'
  BY <1>1, <1>2 DEF Paged, Unanswered
<1>8. Stopping'
  BY <1>1 DEF Stopping
<1>9. Begun' /\ Ticked'
  BY <1>1 DEF Begun, Ticked, Note, Upgrading
<1>10. QED
  BY <1>3, <1>4, <1>5, <1>6, <1>7, <1>8, <1>9 DEF IInv

\* A worker that waits is left by its answer, or gives its question up.
LEMMA LeaveInv ==
  ASSUME IInv, Alive, work.at \in {"wait", "over"}, NEW step \in {5, 6}, Post(<<[do |-> "hide", step |-> step]>>),
         UNCHANGED <<desk, page, hand, window, disk, count>>, st' = [st EXCEPT !.slot = 0],
         work' \in Workers, work'.job = work.job, work'.release = work.release /\ work'.was = work.was,
         work'.question = 0, work'.mail = <<>>, work'.at \in Stages(work.job) \ {"wait", "over"},
         work.why # "ok" => work'.why # "ok",
         work'.why # "ok" \/ (work.at = "wait" /\ work.mail # <<>>), Ending', Untouched'
  PROVE  IInv'
<1>1. TypeOK /\ Closed /\ Abandoned /\ Asked /\ Paged /\ Chained /\ Stopping /\ Begun /\ Ticked /\ work.job # "none"
  BY DEF IInv, Alive
<1> DEFINE c == [do |-> "hide", step |-> step]
<1>2. c \in Closures /\ c.do = "hide"
  BY OtherClosures
<1>3. posted' = posted \o <<c>>
  BY DEF Post
<1> HIDE DEF c
<1>4. /\ posted' \in Seq(Closures) /\ Items(posted') = Items(posted) \cup {c}
      /\ Ordered(posted') /\ OneShow(posted')
  <2>1. ~\E d \in Items(posted) : Final(d)
    BY <1>1 DEF Closed
  <2>2. Ordered(posted) /\ OneShow(posted) /\ posted \in Seq(Closures)
    BY <1>1 DEF Closed, Paged, TypeOK
  <2>3. QED
    BY <1>2, <1>3, <2>1, <2>2, Added
<1>5. st' \in States /\ st'.slot = 0 /\ (Dropped' => Dropped)
  BY <1>1 DEF TypeOK, States, Dropped
<1>6. TypeOK'
  <2>1. page' \in Pages' /\ \A job \in Jobs \cup {"none"} : work'.job = job => work'.at \in Stages(job)'
    BY <1>1, SameTypes DEF TypeOK
  <2>2. QED
    BY <1>1, <1>4, <1>5, <2>1 DEF TypeOK
<1>7. Closed'
  <2>1. ~((~page.busy /\ ~page.failed) \/ page.step = 4)
    BY <1>1 DEF Closed
  <2>2. ~\E d \in Items(posted') : Final(d)
    BY <1>1, <1>2, <1>4 DEF Closed, Final
  <2>3. QED
    BY <1>4, <2>1, <2>2 DEF Closed
<1>8. Chained'
  <2>1. \A d \in Items(posted') : d.do \notin {"optionsDone", "applied"}
    BY <1>1, <1>2, <1>4 DEF Closed, Final
  <2>2. QED
    BY <2>1 DEF Chained
<1>9. Abandoned'
  <2>1. GivenUp => GivenUp'
    BY <1>1 DEF GivenUp
  <2>2. hand.question # 0 => GivenUp'
    <3>1. CASE hand.question = work.question /\ work.mail # <<>>
      BY <1>1, <3>1 DEF Asked, NoHand
    <3>2. CASE work.mail = <<>>
      BY <3>2 DEF GivenUp
    <3>3. CASE hand.question # work.question
      BY <1>1, <2>1, <3>3 DEF Abandoned
    <3>4. QED
      BY <3>1, <3>2, <3>3
  <2>3. QED
    BY <1>1, <1>2, <1>4, <2>1, <2>2 DEF Abandoned
<1>10. Asked'
  <2>1. count.asked \in Nat
    BY <1>1 DEF TypeOK, Counts
  <2>2. QED
    BY <1>1, <1>5, <2>1 DEF Asked
<1>11. Paged'
  <2>1. Shown(posted') => Shown(posted)
    BY <1>2, <1>4 DEF Shown
  <2>2. work'.why = "ok" => page.step \notin {5, 6} /\ ~Shown(posted)
    BY <1>1 DEF Paged, Unanswered
  <2>3. QED
    BY <1>1, <1>4, <1>5, <2>1, <2>2 DEF Paged
<1>12. Stopping'
  BY <1>1, <1>4, <1>5 DEF Stopping
<1>13. Begun' /\ Ticked'
  BY <1>1 DEF Begun, Ticked, Note, Upgrading
<1>14. QED
  BY <1>6, <1>7, <1>8, <1>9, <1>10, <1>11, <1>12, <1>13 DEF IInv

\* A worker asks: nobody else's question is about, and nothing is left before it.
LEMMA AsksInv ==
  ASSUME IInv, Alive, work.at \in {"ask", "resolve"}, "wait" \in Stages(work.job), NEW step \in {5, 6},
         Asks(step), UNCHANGED <<desk, page, hand, window, disk>>
  PROVE  IInv'
<1>1. /\ TypeOK /\ Closed /\ Abandoned /\ Asked /\ Paged /\ Chained /\ Stopping /\ Begun /\ Ticked /\ Ending
      /\ Untouched /\ work.job # "none" /\ work.at \notin {"wait", "over"}
  BY DEF IInv, Alive
<1>2. work.why = "ok"
  BY <1>1 DEF Ending
<1>3. /\ work.question = 0 /\ work.mail = <<>> /\ st.slot = 0 /\ ~page.failed /\ hand = NoHand
      /\ page.step \notin {5, 6}
      /\ \A d \in Items(posted) : d.do \notin {"show", "expired"} /\ ~Final(d)
  BY <1>1, <1>2, NoQuestion
<1> DEFINE q == count.asked + 1
           c == [do |-> "show", step |-> step, question |-> q]
<1>4. q \in Nat /\ q # 0 /\ count.asked <= q
  BY <1>1 DEF TypeOK, Counts
<1>5. /\ count' = [count EXCEPT !.asked = q] /\ st' = [st EXCEPT !.slot = q]
      /\ work' = [work EXCEPT !.at = "wait", !.question = q] /\ posted' = posted \o <<c>>
  BY DEF Asks, Post
<1> HIDE DEF q
<1>6. c \in Closures /\ c.do = "show" /\ c.question = q
  BY <1>4, OtherClosures
<1> HIDE DEF c
<1>7. /\ posted' \in Seq(Closures) /\ Items(posted') = Items(posted) \cup {c}
      /\ Ordered(posted') /\ OneShow(posted')
  <2>1. ~Shown(posted)
    BY <1>3 DEF Shown
  <2>2. Ordered(posted) /\ OneShow(posted) /\ posted \in Seq(Closures)
    BY <1>1 DEF Closed, Paged, TypeOK
  <2>3. QED
    BY <1>3, <1>5, <1>6, <2>1, <2>2, Added
<1>8. st' \in States /\ st'.slot = q /\ (Dropped' => Dropped)
  BY <1>1, <1>4, <1>5 DEF TypeOK, States, Dropped
<1>9. count' \in Counts /\ count'.asked = q
  BY <1>1, <1>4, <1>5 DEF TypeOK, Counts
<1>10. /\ work' \in Workers /\ work'.job = work.job /\ work'.at = "wait" /\ work'.question = q
       /\ work'.mail = <<>> /\ work'.why = "ok" /\ work'.release = work.release /\ work'.was = work.was
       /\ work'.left = work.left
  <2>1. work \in Workers /\ "wait" \in Phases
    BY <1>1 DEF TypeOK, Phases
  <2>2. QED
    BY <1>2, <1>3, <1>4, <1>5, <2>1 DEF Workers
<1>11. TypeOK'
  <2>1. page' \in Pages' /\ \A job \in Jobs \cup {"none"} : work'.job = job => work'.at \in Stages(job)'
    BY <1>1, <1>10, SameTypes DEF TypeOK
  <2>2. QED
    BY <1>1, <1>7, <1>8, <1>9, <1>10, <2>1 DEF TypeOK
<1>12. Closed'
  <2>1. ~((~page.busy /\ ~page.failed) \/ page.step = 4)
    BY <1>1 DEF Closed
  <2>2. ~\E d \in Items(posted') : Final(d)
    BY <1>3, <1>6, <1>7 DEF Final
  <2>3. QED
    BY <1>7, <2>1, <2>2 DEF Closed
<1>13. Chained'
  <2>1. \A d \in Items(posted') : d.do \notin {"optionsDone", "applied"}
    BY <1>3, <1>6, <1>7 DEF Final
  <2>2. QED
    BY <2>1 DEF Chained
<1>14. Abandoned'
  <2>1. window # "letGo"
    BY <1>1, <1>3 DEF Abandoned
  <2>2. hand.question = 0
    BY <1>3 DEF NoHand
  <2>3. QED
    BY <1>3, <1>6, <1>7, <2>1, <2>2 DEF Abandoned
<1>15. Asked'
  BY <1>1, <1>3, <1>4, <1>8, <1>9, <1>10 DEF Asked, NoHand
<1>16. Paged'
  <2>1. Unanswered'
    BY <1>3, <1>4, <1>10 DEF Unanswered, NoHand
  <2>2. QED
    BY <1>3, <1>6, <1>7, <1>8, <2>1 DEF Paged
<1>17. Stopping'
  <2>1. Dropped => page.step = 4 \/ work.job = "settle"
    BY <1>1, <1>2, <1>3 DEF Stopping, Final
  <2>2. QED
    BY <1>1, <1>8, <1>10, <2>1 DEF Stopping
<1>18. Ending' /\ Untouched'
  BY <1>1, <1>10 DEF Ending, Untouched, Early
<1>19. Begun' /\ Ticked'
  BY <1>1, <1>10 DEF Begun, Ticked, Note, Upgrading
<1>20. QED
  BY <1>11, <1>12, <1>13, <1>14, <1>15, <1>16, <1>17, <1>18, <1>19 DEF IInv
-----------------------------------------------------------------------------
(* What the worker's actions share.                                        *)

LEMMA AtWork ==
  ASSUME IInv, Alive
  PROVE  /\ work \in Workers /\ work.job \in Jobs /\ work.at \in Stages(work.job) /\ work.at \in Phases
         /\ st \in States /\ disk \in Disks /\ count \in Counts
         /\ work.at \notin {"wait", "over"} /\ work.why = "ok" /\ work.job # "settle" => ~Dropped
<1>1. TypeOK /\ Closed /\ Stopping /\ work.job # "none"
  BY DEF IInv, Alive
<1>2. work \in Workers /\ work.job \in Jobs /\ work.at \in Stages(work.job)
  BY <1>1 DEF TypeOK, Workers
<1>3. st \in States /\ disk \in Disks /\ count \in Counts
  BY <1>1 DEF TypeOK
<1>4. ASSUME work.at \notin {"wait", "over"}, work.why = "ok", work.job # "settle" PROVE ~Dropped
  <2>1. /\ ~page.failed
        /\ \A c \in Items(posted) : ~Final(c)
    BY <1>1, <1>4, NoQuestion
  <2>2. page.step # 4
    BY <1>1 DEF Closed
  <2>3. QED
    BY <1>1, <1>4, <2>1, <2>2 DEF Stopping, Final
<1>5. QED
  BY <1>2, <1>3, <1>4, StagesArePhases

\* A job that asks anything has the phases of a question.
LEMMA AskingStages ==
  ASSUME NEW job \in Jobs, NEW at \in {"ask", "resolve", "wait", "over"}, at \in Stages(job)
  PROVE  /\ job \in {"install", "resources", "instances"}
         /\ {"resolve", "wait", "over", "clean"} \subseteq Stages(job)
         /\ job # "instances" => "ask" \in Stages(job)
         /\ at = "ask" => job # "instances"
         /\ After(job, "resolve") \in {"place", "stop"} \cap Stages(job)
<1>1. CASE job = "install" /\ Upgrading
  BY <1>1, InstallUpStages
<1>2. CASE job = "install" /\ ~Upgrading
  BY <1>2, InstallNewStages
<1>3. CASE job = "resources" \/ job = "instances"
  BY <1>3, ResourcesStages, InstancesStages
<1>4. CASE job \notin {"install", "resources", "instances"}
  BY <1>4, OptionsStages, DiscoverStages, ReleaseStages, BundleStages, SettleStages DEF Jobs
<1>5. QED
  BY <1>1, <1>2, <1>3, <1>4

\* Where an error leads: to the end of the run, past every question.
LEMMA ErrorStages ==
  ASSUME work.job \in {"install", "resources", "options", "discover", "instances"}
  PROVE  /\ ErrorTo \in Stages(work.job) /\ ErrorTo \in {"clean", "keep", "bundles", "restore"}
         /\ work.at \notin {"place", "switch"} /\ work.job \notin {"options", "discover"} => ErrorTo = "clean"
<1>1. CASE work.job = "install"
  BY <1>1, InstallUpStages, InstallNewStages DEF ErrorTo
<1>2. CASE work.job = "resources" \/ work.job = "instances"
  BY <1>2, ResourcesStages, InstancesStages DEF ErrorTo
<1>3. CASE work.job = "options" \/ work.job = "discover"
  BY <1>3, OptionsStages, DiscoverStages DEF ErrorTo
<1>4. QED
  BY <1>1, <1>2, <1>3

LEMMA FaultTypes ==
  ASSUME st \in States, count \in Counts, NEW why, Faults(why)
  PROVE  /\ st' \in States /\ st'.slot = st.slot /\ count' \in Counts /\ count'.asked = count.asked
         /\ why \in {"error", "lost"} /\ (Dropped' => Dropped \/ why = "lost")
<1>1. count' = [count EXCEPT !.mishaps = @ + 1] /\ why \in {"error", "lost"}
      /\ st' = [st EXCEPT !.lost = @ \/ why = "lost"]
  BY DEF Faults, Spend
<1> DEFINE n == count.mishaps + 1
           lost == st.lost \/ why = "lost"
<1>2. n \in Nat /\ lost \in BOOLEAN /\ (lost => st.lost \/ why = "lost")
  BY DEF Counts, States
<1>3. count' = [count EXCEPT !.mishaps = n] /\ st' = [st EXCEPT !.lost = lost]
  BY <1>1
<1> HIDE DEF n, lost
<1>4. count' \in Counts /\ count'.asked = count.asked
  BY <1>2, <1>3 DEF Counts
<1>5. st' \in States /\ st'.slot = st.slot /\ st'.lost = lost /\ st'.problems = st.problems
  BY <1>2, <1>3 DEF States
<1>6. QED
  BY <1>1, <1>2, <1>4, <1>5 DEF Dropped

LEMMA SpendTypes ==
  ASSUME count \in Counts, Spend(1)
  PROVE  count' \in Counts /\ count'.asked = count.asked /\ count'.begun = count.begun
<1> DEFINE n == count.mishaps + 1
<1>1. n \in Nat /\ count' = [count EXCEPT !.mishaps = n]
  BY DEF Counts, Spend
<1> HIDE DEF n
<1>2. QED
  BY <1>1 DEF Counts

LEMMA DiskTypes ==
  ASSUME disk \in Disks
  PROVE  /\ Changed(disk) \in Disks /\ Midway(disk) \subseteq Disks
         /\ \A files : Removed(files) \in Disks
         /\ [disk EXCEPT !.config = "pinned"] \in Disks
         /\ \A f \in Files, content \in {"stub", "ours"} : [disk EXCEPT !.files[f] = content] \in Disks
<1>1. Changed(disk) \in Disks
  BY DEF Disks, Changed
<1>2. \A d \in Disks : [d EXCEPT !.runtime = FALSE] \in Disks
  BY DEF Disks
<1>3. Midway(disk) \subseteq Disks
  BY <1>1, <1>2 DEF Midway
<1>4. \A files : Removed(files) \in Disks
  BY DEF Disks, Removed
<1>5. [disk EXCEPT !.config = "pinned"] \in Disks
  BY DEF Disks
<1>6. \A f \in Files, content \in {"stub", "ours"} : [disk EXCEPT !.files[f] = content] \in Disks
  BY DEF Disks
<1>7. QED
  BY <1>1, <1>3, <1>4, <1>5, <1>6
-----------------------------------------------------------------------------
(* The worker's actions, one by one.                                       *)

LEMMA WorksInv ==
  ASSUME IInv, Works
  PROVE  IInv'
<1>1. /\ Alive /\ work.at \notin Special /\ work' = [work EXCEPT !.at = After(work.job, work.at)]
      /\ disk' = Changed(disk) /\ st' = [st EXCEPT !.started = @ \/ work.at = "start"]
      /\ UNCHANGED <<desk, page, posted, hand, window, count>>
  BY DEF Works, Moves
<1>2. /\ work \in Workers /\ work.job \in Jobs /\ work.at \in Stages(work.job)
      /\ st \in States /\ disk \in Disks /\ count \in Counts /\ Ending /\ Untouched
  BY <1>1, AtWork DEF IInv
<1> DEFINE at == After(work.job, work.at)
           started == st.started \/ work.at = "start"
<1>3. at \in Stages(work.job) \ {"wait", "over"} /\ at \in Phases /\ (at \in Early => work.at \in Early)
  BY <1>1, <1>2, PhaseAfter, StagesArePhases
<1>4. work' = [work EXCEPT !.at = at] /\ st' = [st EXCEPT !.started = started] /\ started \in BOOLEAN
  BY <1>1, <1>2 DEF States
<1> HIDE DEF at, started
<1>5. work.at \notin {"wait", "over"} /\ work.why = "ok" /\ work.question = 0 /\ work.mail = <<>>
  <2>1. work.at \notin {"wait", "over"} /\ work.why = "ok"
    BY <1>1, <1>2 DEF Special, Ending
  <2>2. QED
    BY <1>1, <2>1, NoQuestion
<1>6. /\ work' \in Workers /\ work'.job = work.job
      /\ work'.release = work.release /\ work'.was = work.was /\ work'.question = 0
      /\ work'.mail = <<>> /\ work'.at = at /\ work'.why = "ok" /\ work'.left = work.left
  BY <1>2, <1>3, <1>4, <1>5 DEF Workers
<1>7. st' \in States /\ st'.slot = st.slot /\ (Dropped' => Dropped)
  BY <1>2, <1>4 DEF States, Dropped
<1>8. Ending'
  BY <1>2, <1>3, <1>6 DEF Ending
<1>9. Untouched'
  <2>1. work.at \in Early => Changed(disk) = disk
    BY <1>1 DEF Early, Special, Changed
  <2>2. QED
    BY <1>1, <1>2, <1>3, <1>6, <2>1 DEF Untouched
<1>10. disk' \in Disks
  BY <1>1, <1>2, DiskTypes
<1>11. QED
  BY <1>1, <1>2, <1>3, <1>5, <1>6, <1>7, <1>8, <1>9, <1>10, GoOnInv

\* A worker that gives up goes where its error leads.
LEMMA GivesUpInv ==
  ASSUME IInv, Alive, work.at \notin {"wait", "over"}, disk' \in Disks,
         UNCHANGED <<desk, page, posted, hand, window>>, NEW why, Faults(why),
         work' \in Workers, work'.job = work.job,
         work'.release = work.release /\ work'.was = work.was, work'.left = work.left,
         work'.question = 0, work'.mail = <<>>, work'.why = why,
         work'.at \in Stages(work.job), work'.at \in {"clean", "keep", "bundles", "restore", "retry", "told"}
  PROVE  IInv'
<1>1. st \in States /\ count \in Counts /\ Ending
  BY AtWork DEF IInv
<1>2. /\ st' \in States /\ st'.slot = st.slot /\ count' \in Counts /\ count'.asked = count.asked
      /\ why \in {"error", "lost"}
  BY <1>1, FaultTypes
<1>3. Ending' /\ Untouched'
  BY <1>1, <1>2 DEF Ending, Untouched, Early
<1>4. QED
  BY <1>2, <1>3, GoOnInv

LEMMA BreaksInv ==
  ASSUME IInv, Breaks
  PROVE  IInv'
<1>1. PICK why \in {"error", "lost"}, kept \in BOOLEAN :
         Faults(why) /\ work' = [work EXCEPT !.at = ErrorTo, !.why = why, !.kept = kept]
  BY DEF Breaks
<1>2. /\ Alive /\ work.at \notin Special \cup {"begin", "lock"} /\ disk' \in Midway(disk)
      /\ UNCHANGED <<desk, page, posted, hand, window>>
  BY DEF Breaks
<1>3. work \in Workers /\ work.job \in Jobs /\ work.at \in Stages(work.job) /\ disk \in Disks
  BY <1>2, AtWork
<1>4. work.job \in {"install", "resources", "options", "discover", "instances"}
  BY <1>2, <1>3, ReleaseStages, BundleStages, SettleStages DEF Jobs, Special
<1>5. ErrorTo \in Stages(work.job) /\ ErrorTo \in {"clean", "keep", "bundles", "restore"}
  BY <1>4, ErrorStages
<1>6. work.at \notin {"wait", "over"} /\ work.question = 0 /\ work.mail = <<>>
  <2>1. work.at \notin {"wait", "over"}
    BY <1>2 DEF Special
  <2>2. QED
    BY <1>2, <2>1, NoQuestion
<1>7. ErrorTo \in Phases /\ why \in Whys
  BY <1>3, <1>5, StagesArePhases DEF Whys
<1>8. /\ work' \in Workers /\ work'.job = work.job
      /\ work'.release = work.release /\ work'.was = work.was /\ work'.left = work.left
      /\ work'.question = 0 /\ work'.mail = <<>> /\ work'.why = why /\ work'.at = ErrorTo
  BY <1>1, <1>3, <1>6, <1>7 DEF Workers
<1>9. disk' \in Disks
  BY <1>2, <1>3, DiskTypes
<1>10. QED
  BY <1>1, <1>2, <1>5, <1>6, <1>8, <1>9, GivesUpInv

\* A worker that ends by a fault fails the run.
LEMMA FailsInv ==
  ASSUME IInv, Alive, work.at \notin {"wait", "over"}, EndsWith(<<Failed>>),
         UNCHANGED <<desk, page, hand, window>>, disk' \in Disks, st' \in States, st'.slot = st.slot,
         count' \in Counts, count'.asked = count.asked
  PROVE  IInv'
<1>1. Failed \in Closures /\ Final(Failed) /\ Failed.do = "failed"
  BY OtherClosures DEF Failed, Final
<1>2. QED
  BY <1>1, EndInv

\* A phase that ends the run well says so.
LEMMA DoneInv ==
  ASSUME IInv, Alive, work.at \notin {"wait", "over"},
         NEW do \in {"notDone", "installed", "discovered", "bundleAdded", "finished", "optionsDone", "applied"},
         EndsWith(<<[do |-> do]>>), do \in {"optionsDone", "applied"} => work.why = "ok",
         UNCHANGED <<desk, page, hand, window, disk>>, st' \in States, st'.slot = st.slot,
         UNCHANGED count, ~Dropped'
  PROVE  IInv'
<1> DEFINE c == [do |-> do]
<1>1. c \in Closures /\ Final(c) /\ c.do = do
  BY OtherClosures DEF Final
<1>2. EndsWith(<<c>>)
  OBVIOUS
<1> HIDE DEF c
<1>3. disk' \in Disks /\ count' \in Counts /\ count'.asked = count.asked
  BY AtWork
<1>4. QED
  BY <1>1, <1>2, <1>3, EndInv

LEMMA LockRefusedInv ==
  ASSUME IInv, LockRefused
  PROVE  IInv'
<1>1. PICK why \in {"error", "lost"} : Faults(why)
  BY DEF LockRefused
<1>2. Alive /\ work.at = "lock" /\ EndsWith(<<Failed>>) /\ UNCHANGED <<desk, page, hand, window, disk>>
  BY DEF LockRefused
<1>3. st \in States /\ disk \in Disks /\ count \in Counts
  BY <1>2, AtWork
<1>4. QED
  BY <1>1, <1>2, <1>3, FaultTypes, FailsInv

LEMMA PanicsInv ==
  ASSUME IInv, Panics
  PROVE  IInv'
<1>1. /\ Alive /\ work.at \notin {"wait", "over"} /\ Spend(1) /\ disk' \in Midway(disk)
      /\ EndsWith(<<Failed>>) /\ UNCHANGED <<desk, page, st, hand, window>>
  BY DEF Panics
<1>2. st \in States /\ disk \in Disks /\ count \in Counts
  BY <1>1, AtWork
<1>3. QED
  BY <1>1, <1>2, SpendTypes, DiskTypes, FailsInv

\* A worker moves to another phase, its reason kept.
LEMMA MovesInv ==
  ASSUME IInv, Alive, work.at \notin {"wait", "over"}, NEW at \in Stages(work.job) \ {"wait", "over"},
         Moves(at), disk' \in Disks, UNCHANGED <<desk, page, posted, hand, window, count>>,
         st' \in States, st'.slot = st.slot, Dropped' => Dropped,
         work.why # "ok" => at \in {"clean", "retry"},
         at \in Early \/ work.why \in {"cancelled", "expired"} => disk' = work.was
  PROVE  IInv'
<1>1. work \in Workers /\ work.job \in Jobs /\ count \in Counts /\ Ending
  BY AtWork DEF IInv
<1>2. work.question = 0 /\ work.mail = <<>>
  BY NoQuestion
<1>3. at \in Phases
  BY <1>1, StagesArePhases
<1>4. /\ work' \in Workers /\ work'.job = work.job /\ work'.release = work.release /\ work'.was = work.was
      /\ work'.question = 0 /\ work'.mail = <<>> /\ work'.at = at /\ work'.why = work.why
      /\ work'.left = work.left
  BY <1>1, <1>2, <1>3 DEF Moves, Workers
<1>5. Ending' /\ Untouched'
  BY <1>1, <1>4 DEF Ending, Untouched
<1>6. QED
  BY <1>1, <1>4, <1>5, GoOnInv

LEMMA LookInv ==
  ASSUME IInv, Look
  PROVE  IInv'
<1>1. Alive /\ work.at = "look" /\ UNCHANGED <<desk, page, hand, window, disk>>
  BY DEF Look
<1>2. st \in States /\ disk \in Disks /\ count \in Counts /\ ~Dropped
  <2>1. work.why = "ok" /\ work.job # "settle"
    BY <1>1, AtWork, SettleStages DEF IInv, Ending
  <2>2. QED
    BY <1>1, <2>1, AtWork
<1>3. ASSUME NEW release \in desk.online, st' = [st EXCEPT !.release = release],
             EndsWith(<<[do |-> "looked", release |-> release]>>), UNCHANGED count
      PROVE  IInv'
  <2> DEFINE c == [do |-> "looked", release |-> release]
  <2>1. release \in Releases
    BY WizardAssumption DEF IInv, TypeOK, DeskTypes, Releases
  <2>2. c \in Closures /\ Final(c) /\ c.do = "looked" /\ EndsWith(<<c>>)
    BY <1>3, <2>1, OtherClosures DEF Final
  <2> HIDE DEF c
  <2>3. st' \in States /\ st'.slot = st.slot /\ ~Dropped'
    BY <1>2, <1>3, <2>1 DEF States, Dropped
  <2>4. QED
    BY <1>1, <1>2, <1>3, <2>2, <2>3, EndInv
<1>4. ASSUME Faults("lost"), EndsWith(<<Failed>>) PROVE IInv'
  BY <1>1, <1>2, <1>4, FaultTypes, FailsInv
<1>5. QED
  BY <1>3, <1>4 DEF Look

LEMMA AskInv ==
  ASSUME IInv, Ask \/ Resolve
  PROVE  IInv'
<1>1. /\ Alive /\ work.at \in {"ask", "resolve"} /\ UNCHANGED <<desk, page, hand, window, disk>>
      /\ \/ \E step \in {5, 6} : Asks(step)
         \/ /\ Moves("resolve") \/ Moves(After(work.job, "resolve"))
            /\ UNCHANGED <<st, posted, count>>
  BY DEF Ask, Resolve
<1>2. /\ {"wait", "resolve"} \subseteq Stages(work.job) /\ After(work.job, "resolve") \in Stages(work.job)
      /\ After(work.job, "resolve") \in {"place", "stop"}
  BY <1>1, AtWork, AskingStages
<1>3. CASE \E step \in {5, 6} : Asks(step)
  BY <1>1, <1>2, <1>3, AsksInv
<1>4. ASSUME NEW at \in {"resolve", After(work.job, "resolve")}, Moves(at), UNCHANGED <<st, posted, count>>
      PROVE  IInv'
  <2>1. st \in States /\ disk \in Disks /\ disk = work.was /\ work.why = "ok"
    BY <1>1, AtWork DEF IInv, Untouched, Early, Ending
  <2>2. at \in Stages(work.job) \ {"wait", "over"}
    BY <1>2, <1>4
  <2>3. QED
    BY <1>1, <1>4, <2>1, <2>2, MovesInv DEF Dropped
<1>5. QED
  BY <1>1, <1>3, <1>4

LEMMA ReceiveInv ==
  ASSUME IInv, Receive
  PROVE  IInv'
<1>1. /\ Alive /\ work.at = "wait" /\ work.mail # <<>> /\ st' = [st EXCEPT !.slot = 0]
      /\ Post(<<[do |-> "hide", step |-> StepAsked]>>)
      /\ work' = IF ~work.mail[2] THEN [Answered EXCEPT !.at = ErrorTo, !.why = "cancelled"]
                 ELSE IF StepAsked = 5 THEN [Answered EXCEPT !.at = "ask", !.left = @ - 1]
                 ELSE [Answered EXCEPT !.at = After(work.job, "resolve")]
      /\ UNCHANGED <<desk, page, hand, window, disk, count>>
  BY DEF Receive
<1>2. /\ work \in Workers /\ work.job \in Jobs /\ "wait" \in Stages(work.job)
      /\ disk = work.was /\ work.why = "ok"
  BY <1>1, AtWork DEF IInv, Untouched, Early, Ending
<1>3. /\ work.job \in {"install", "resources", "instances"}
      /\ {"resolve", "clean"} \subseteq Stages(work.job)
      /\ work.job # "instances" => "ask" \in Stages(work.job)
      /\ After(work.job, "resolve") \in {"place", "stop"} \cap Stages(work.job)
  BY <1>2, AskingStages
<1>4. StepAsked \in {5, 6} /\ (StepAsked = 5 => work.left > 0)
  BY DEF StepAsked
<1>5. ErrorTo = "clean"
  BY <1>1, <1>3, ErrorStages
<1>6. work.left \in Nat /\ <<>> \in Answers /\ {"clean", "ask", "place", "stop"} \subseteq Phases /\ "cancelled" \in Whys
  BY <1>2 DEF Workers, Answers, Phases, Whys
<1>7. PICK at \in {"clean", "ask", "place", "stop"}, left \in Nat, why \in {"ok", "cancelled"} :
         /\ work' = [work EXCEPT !.question = 0, !.mail = <<>>, !.at = at, !.left = left, !.why = why]
         /\ at \in Stages(work.job) /\ (why = "cancelled" => at = "clean") /\ (left # work.left => work.left > 0)
  <2>1. CASE ~work.mail[2]
    <3>1. work' = [work EXCEPT !.question = 0, !.mail = <<>>, !.at = "clean", !.left = work.left, !.why = "cancelled"]
      BY <1>1, <1>2, <1>5, <2>1 DEF Answered, Workers
    <3>2. QED
      BY <1>3, <1>6, <3>1
  <2>2. CASE work.mail[2] /\ StepAsked = 5
    <3>1. work' = [work EXCEPT !.question = 0, !.mail = <<>>, !.at = "ask", !.left = work.left - 1, !.why = "ok"]
      BY <1>1, <1>2, <2>2 DEF Answered, Workers
    <3>2. "ask" \in Stages(work.job)
      <4>1. work.job # "instances"
        BY <1>4, <2>2 DEF IInv, Ending
      <4>2. QED
        BY <1>3, <4>1
    <3>3. work.left - 1 \in Nat
      BY <1>4, <1>6, <2>2
    <3>4. QED
      BY <1>4, <2>2, <3>1, <3>2, <3>3
  <2>3. CASE work.mail[2] /\ StepAsked # 5
    <3>1. work' = [work EXCEPT !.question = 0, !.mail = <<>>, !.at = After(work.job, "resolve"),
                               !.left = work.left, !.why = "ok"]
      BY <1>1, <1>2, <2>3 DEF Answered, Workers
    <3>2. QED
      BY <1>3, <1>6, <3>1
  <2>4. QED
    BY <2>1, <2>2, <2>3
<1>8. /\ work' \in Workers /\ work'.job = work.job
      /\ work'.release = work.release /\ work'.was = work.was /\ work'.question = 0
      /\ work'.mail = <<>> /\ work'.at = at /\ work'.why = why /\ work'.left = left
  BY <1>2, <1>6, <1>7 DEF Workers, Whys
<1>9. Ending' /\ Untouched'
  <2>1. work.job = "instances" => work.left = 0
    BY <1>2 DEF IInv, Ending
  <2>2. Ending'
    BY <1>7, <1>8, <2>1 DEF Ending
  <2>3. disk' = work'.was
    BY <1>1, <1>2, <1>8
  <2>4. QED
    BY <2>2, <2>3 DEF Untouched
<1>10. QED
  BY <1>1, <1>2, <1>4, <1>7, <1>8, <1>9, LeaveInv

LEMMA ExpireInv ==
  ASSUME IInv, Expire
  PROVE  IInv'
<1>0. work' = [Answered EXCEPT !.at = ErrorTo]
  BY DEF Expire
<1>1. /\ Alive /\ work.at = "over" /\ st' = [st EXCEPT !.slot = 0]
      /\ Post(<<[do |-> "hide", step |-> StepAsked]>>)
      /\ UNCHANGED <<desk, page, hand, window, disk, count>>
  BY DEF Expire
<1>2. /\ work \in Workers /\ work.job \in Jobs /\ "over" \in Stages(work.job)
      /\ disk = work.was /\ work.why = "expired"
  BY <1>1, AtWork DEF IInv, Untouched, Early, Ending
<1>3. work.job \in {"install", "resources", "instances"} /\ "clean" \in Stages(work.job)
  BY <1>2, AskingStages
<1>4. StepAsked \in {5, 6} /\ ErrorTo = "clean"
  BY <1>1, <1>3, ErrorStages DEF StepAsked
<1>5. <<>> \in Answers /\ "clean" \in Phases
  BY DEF Answers, Phases
<1>6. /\ work' \in Workers /\ work'.job = work.job
      /\ work'.release = work.release /\ work'.was = work.was /\ work'.question = 0
      /\ work'.mail = <<>> /\ work'.at = "clean" /\ work'.why = "expired" /\ work'.left = work.left
  BY <1>0, <1>2, <1>4, <1>5 DEF Workers, Answered
<1>7. Ending' /\ Untouched'
  BY <1>1, <1>2, <1>6 DEF IInv, Ending, Untouched
<1>8. QED
  BY <1>1, <1>2, <1>3, <1>4, <1>6, <1>7, LeaveInv

\* The half hour passes: from here on an answer finds nobody.
LEMMA TimesOutInv ==
  ASSUME IInv, TimesOut
  PROVE  IInv'
<1>1. /\ Alive /\ work.at = "wait" /\ work.mail = <<>> /\ work' = [work EXCEPT !.at = "over", !.why = "expired"]
      /\ UNCHANGED <<desk, page, st, posted, hand, window, disk, count>>
  BY DEF TimesOut
<1>2. /\ TypeOK /\ Closed /\ Abandoned /\ Asked /\ Paged /\ Chained /\ Stopping /\ Begun /\ Ticked /\ Ending /\ Untouched
      /\ work.job # "none"
  BY <1>1 DEF IInv, Alive
<1>3. work \in Workers /\ work.job \in Jobs /\ "over" \in Stages(work.job)
  BY <1>1, AtWork, AskingStages
<1>4. /\ work' \in Workers /\ work'.job = work.job /\ work'.release = work.release /\ work'.was = work.was
      /\ work'.question = work.question /\ work'.mail = work.mail /\ work'.at = "over"
      /\ work'.why = "expired" /\ work'.left = work.left
  BY <1>1, <1>3 DEF Workers, Phases, Whys
<1>5. TypeOK'
  <2>1. page' \in Pages' /\ \A job \in Jobs \cup {"none"} : work'.job = job => work'.at \in Stages(job)'
    BY <1>1, <1>2, <1>3, <1>4, SameTypes DEF TypeOK
  <2>2. QED
    BY <1>1, <1>2, <1>4, <2>1 DEF TypeOK
<1>6. Closed' /\ Chained' /\ Stopping'
  BY <1>1, <1>2, <1>4 DEF Closed, Chained, Stopping
<1>7. Abandoned'
  BY <1>1, <1>2, <1>4 DEF Abandoned, GivenUp
<1>8. Asked'
  BY <1>1, <1>2, <1>4 DEF Asked
<1>9. Paged'
  BY <1>1, <1>2, <1>4 DEF Paged
<1>10. Ending' /\ Untouched'
  BY <1>1, <1>2, <1>4 DEF Ending, Untouched, Early
<1>11. Begun' /\ Ticked'
  BY <1>1, <1>2, <1>4 DEF Begun, Ticked, Note, Upgrading
<1>12. QED
  BY <1>5, <1>6, <1>7, <1>8, <1>9, <1>10, <1>11 DEF IInv

(* The options.                                                            *)

\* A worker about to write the options is one of the options, and one about to end them too.
LEMMA OptionsOnly ==
  ASSUME NEW job \in Jobs, NEW at \in Stages(job), at \in Files \cup {"back", "keep"}
  PROVE  job = "options"
<1>1. CASE job = "install"
  BY <1>1, InstallUpStages, InstallNewStages DEF Files
<1>2. CASE job = "resources" \/ job = "instances"
  BY <1>2, ResourcesStages, InstancesStages DEF Files
<1>3. CASE job = "discover"
  BY <1>3, DiscoverStages DEF Files
<1>4. CASE job = "release" \/ job = "bundle" \/ job = "settle"
  BY <1>4, ReleaseStages, BundleStages, SettleStages DEF Files
<1>5. QED
  BY <1>1, <1>2, <1>3, <1>4 DEF Jobs

\* Where an error of the options leads.
LEMMA OptionsGiveUp ==
  ASSUME IInv, Alive, work.job = "options", work.at \notin {"wait", "over"}, disk' \in Disks,
         UNCHANGED <<desk, page, posted, hand, window>>, NEW why, Faults(why),
         NEW written \in SUBSET Files, work' = [work EXCEPT !.at = "keep", !.why = why, !.written = written]
  PROVE  IInv'
<1>1. work \in Workers /\ work.question = 0 /\ work.mail = <<>>
  BY AtWork, NoQuestion
<1>2. why \in Whys /\ "keep" \in Phases /\ "keep" \in Stages("options")
  BY OptionsStages DEF Faults, Whys, Phases
<1>3. /\ work' \in Workers /\ work'.job = work.job
      /\ work'.release = work.release /\ work'.was = work.was /\ work'.left = work.left
      /\ work'.question = 0 /\ work'.mail = <<>> /\ work'.why = why /\ work'.at = "keep"
  BY <1>1, <1>2 DEF Workers
<1>4. QED
  BY <1>2, <1>3, GivesUpInv

LEMMA TakeBackInv ==
  ASSUME IInv, TakeBack
  PROVE  IInv'
<1>1. /\ Alive /\ work.at = "back" /\ UNCHANGED <<desk, page, posted, hand, window>>
  BY DEF TakeBack
<1>2. /\ work \in Workers /\ work.job = "options" /\ disk \in Disks /\ st \in States /\ count \in Counts
      /\ work.why = "ok"
  BY <1>1, AtWork, OptionsOnly DEF IInv, Ending
<1>3. ASSUME Moves("launcher"), disk' = Removed(st.written), UNCHANGED <<st, count>> PROVE IInv'
  <2>1. "launcher" \in Stages(work.job) \ {"wait", "over"} /\ "launcher" \notin Early
    BY <1>2, OptionsStages DEF Early
  <2>2. disk' \in Disks
    BY <1>2, <1>3, DiskTypes
  <2>3. QED
    BY <1>1, <1>2, <1>3, <2>1, <2>2, MovesInv DEF Dropped
<1>4. ASSUME NEW why \in {"error", "lost"}, NEW files \in SUBSET st.written, Faults(why), Stops(why),
             disk' = Removed(files)
      PROVE  IInv'
  <2>1. work' = [work EXCEPT !.at = "keep", !.why = why, !.written = work.written]
    BY <1>2, <1>4 DEF Stops, ErrorTo, Workers
  <2>2. disk' \in Disks /\ work.written \in SUBSET Files
    BY <1>2, <1>4, DiskTypes DEF Workers
  <2>3. QED
    BY <1>1, <1>2, <1>4, <2>1, <2>2, OptionsGiveUp
<1>5. QED
  BY <1>3, <1>4 DEF TakeBack

LEMMA WriteOptionInv ==
  ASSUME IInv, WriteOption
  PROVE  IInv'
<1> DEFINE f == work.at
           next == After("options", f)
           puts(content) == disk' = [disk EXCEPT !.files[f] = content]
<1>1. Alive /\ f \in Files /\ UNCHANGED <<desk, page, posted, hand, window>>
  BY DEF WriteOption
<1>2. /\ work \in Workers /\ work.job = "options" /\ disk \in Disks /\ st \in States /\ count \in Counts
      /\ work.why = "ok" /\ f \notin {"wait", "over"}
  BY <1>1, AtWork, OptionsOnly DEF IInv, Ending, Files
<1>3. /\ next \in Stages(work.job) \ {"wait", "over"} /\ next \notin Early /\ next \in Phases
  BY <1>1, <1>2, OptionsStages DEF Files, Early, Phases
<1>4. /\ work.written \in SUBSET Files /\ work.written \cup {f} \in SUBSET Files
      /\ work.question = 0 /\ work.mail = <<>>
  BY <1>1, <1>2, NoQuestion DEF Workers
<1>5. \A content \in {"ours", "stub"} : puts(content) => disk' \in Disks
  BY <1>1, <1>2, DiskTypes
<1> HIDE DEF next
<1>6. ASSUME puts("ours"), UNCHANGED <<st, count>>,
             work' = [work EXCEPT !.at = next, !.written = work.written \cup {f}]
      PROVE  IInv'
  <2>1. /\ work' \in Workers /\ work'.job = work.job /\ work'.release = work.release /\ work'.was = work.was
        /\ work'.question = 0 /\ work'.mail = <<>> /\ work'.at = next /\ work'.why = "ok"
    BY <1>2, <1>3, <1>4, <1>6 DEF Workers
  <2>2. Ending' /\ Untouched'
    BY <1>2, <1>3, <2>1 DEF Ending, Untouched
  <2>3. QED
    BY <1>1, <1>2, <1>3, <1>5, <1>6, <2>1, <2>2, GoOnInv DEF Dropped
<1>7. ASSUME puts("ours"), Faults("lost"),
             work' = [work EXCEPT !.at = "keep", !.why = "lost", !.written = work.written \cup {f}]
      PROVE  IInv'
  BY <1>1, <1>2, <1>4, <1>5, <1>7, OptionsGiveUp
<1>8. ASSUME NEW why \in {"error", "lost"}, puts("ours") \/ puts("stub") \/ UNCHANGED disk, Faults(why), Stops(why)
      PROVE  IInv'
  <2>1. work' = [work EXCEPT !.at = "keep", !.why = why, !.written = work.written]
    BY <1>2, <1>8 DEF Stops, ErrorTo, Workers
  <2>2. disk' \in Disks
    BY <1>2, <1>5, <1>8
  <2>3. QED
    BY <1>1, <1>2, <1>4, <1>8, <2>1, <2>2, OptionsGiveUp
<1>9. ASSUME Moves(next), UNCHANGED <<disk, st, count>> PROVE IInv'
  BY <1>1, <1>2, <1>3, <1>9, MovesInv DEF Dropped
<1>10. QED
  BY <1>6, <1>7, <1>8, <1>9 DEF WriteOption, next

\* A worker that failed goes to tell it, what it read or wrote kept in mind.
LEMMA KeepOptionsInv ==
  ASSUME IInv, KeepOptions
  PROVE  IInv'
<1>1. /\ Alive /\ work.at = "keep" /\ UNCHANGED <<desk, page, hand, window, disk>>
      /\ st' = [st EXCEPT !.written = {f \in @ : disk.files[f] # "none"} \cup work.written]
  BY DEF KeepOptions
<1>2. /\ work \in Workers /\ work.job = "options" /\ disk \in Disks /\ st \in States /\ count \in Counts
      /\ (work.why = "ok" => ~Dropped) /\ work.why \notin {"cancelled", "expired"}
  BY <1>1, AtWork, OptionsOnly DEF IInv, Ending
<1> DEFINE written == {f \in st.written : disk.files[f] # "none"} \cup work.written
<1>3. written \in SUBSET Files /\ st' = [st EXCEPT !.written = written]
  BY <1>1, <1>2 DEF States, Workers
<1> HIDE DEF written
<1>4. st' \in States /\ st'.slot = st.slot /\ (Dropped' => Dropped)
  BY <1>2, <1>3 DEF States, Dropped
<1>5. CASE work.why = "ok" /\ EndsWith(<<[do |-> "optionsDone"]>>) /\ UNCHANGED count
  BY <1>1, <1>2, <1>4, <1>5, DoneInv
<1>6. CASE work' = [work EXCEPT !.at = "retry"] /\ UNCHANGED <<posted, count>>
  <2>1. "retry" \in Stages(work.job) \ {"wait", "over"} /\ "retry" \notin Early
    BY <1>2, OptionsStages DEF Early
  <2>2. QED
    BY <1>1, <1>2, <1>4, <1>6, <2>1, MovesInv DEF Moves
<1>7. QED
  BY <1>5, <1>6 DEF KeepOptions

(* Discovery, a bundle, and what may be tried again.                       *)

LEMMA DiscoverOnly ==
  ASSUME NEW job \in Jobs, NEW at \in Stages(job), at \in {"pin", "bundles"}
  PROVE  job = "discover"
<1>1. CASE job = "install"
  BY <1>1, InstallUpStages, InstallNewStages
<1>2. CASE job = "resources" \/ job = "instances"
  BY <1>2, ResourcesStages, InstancesStages
<1>3. CASE job = "options"
  BY <1>3, OptionsStages
<1>4. CASE job = "release" \/ job = "bundle" \/ job = "settle"
  BY <1>4, ReleaseStages, BundleStages, SettleStages
<1>5. QED
  BY <1>1, <1>2, <1>3, <1>4 DEF Jobs

LEMMA PinInv ==
  ASSUME IInv, Pin
  PROVE  IInv'
<1>1. Alive /\ work.at = "pin" /\ UNCHANGED <<desk, page, posted, hand, window>>
      /\ disk' \in {disk, [disk EXCEPT !.config = "pinned"]}
  BY DEF Pin
<1>2. /\ work \in Workers /\ work.job = "discover" /\ disk \in Disks /\ st \in States /\ count \in Counts
      /\ work.why = "ok" /\ work.question = 0 /\ work.mail = <<>>
  BY <1>1, AtWork, DiscoverOnly, NoQuestion DEF IInv, Ending
<1>3. disk' \in Disks
  BY <1>1, <1>2, DiskTypes
<1>4. ASSUME Moves("start"), UNCHANGED <<st, count>> PROVE IInv'
  <2>1. "start" \in Stages(work.job) \ {"wait", "over"} /\ "start" \notin Early
    BY <1>2, DiscoverStages DEF Early
  <2>2. QED
    BY <1>1, <1>2, <1>3, <1>4, <2>1, MovesInv DEF Dropped
<1>5. ASSUME NEW why \in {"error", "lost"}, Faults(why), Stops(why) PROVE IInv'
  <2>1. work' = [work EXCEPT !.at = "bundles", !.why = why]
    BY <1>2, <1>5 DEF Stops, ErrorTo
  <2>2. /\ work' \in Workers /\ work'.job = work.job /\ work'.release = work.release /\ work'.was = work.was
        /\ work'.left = work.left /\ work'.question = 0 /\ work'.mail = <<>> /\ work'.why = why
        /\ work'.at = "bundles"
    BY <1>2, <2>1 DEF Workers, Phases, Whys
  <2>3. "bundles" \in Stages(work.job)
    BY <1>2, DiscoverStages
  <2>4. QED
    BY <1>1, <1>3, <1>5, <2>2, <2>3, GivesUpInv
<1>6. QED
  BY <1>4, <1>5 DEF Pin

LEMMA ReadBundlesInv ==
  ASSUME IInv, ReadBundles
  PROVE  IInv'
<1>1. Alive /\ work.at = "bundles" /\ UNCHANGED <<desk, page, hand, window, disk>>
  BY DEF ReadBundles
<1>2. /\ work \in Workers /\ work.job = "discover" /\ disk \in Disks /\ st \in States /\ count \in Counts
      /\ (work.why = "ok" => ~Dropped) /\ work.why \notin {"cancelled", "expired"}
      /\ work.question = 0 /\ work.mail = <<>> /\ Ending
  BY <1>1, AtWork, DiscoverOnly, NoQuestion DEF IInv, Ending
<1>3. "retry" \in Stages(work.job) /\ "retry" \in Phases
  BY <1>2, DiscoverStages DEF Phases
<1>4. ASSUME count' \in Counts, count'.asked = count.asked, st' \in States, st'.slot = st.slot, (Dropped' => Dropped),
             IF work.why = "ok" THEN EndsWith(<<[do |-> "discovered"]>>)
             ELSE work' = [work EXCEPT !.at = "retry"] /\ UNCHANGED posted
      PROVE  IInv'
  <2>1. CASE work.why = "ok"
    <3> DEFINE c == [do |-> "discovered"]
    <3>1. c \in Closures /\ Final(c) /\ c.do = "discovered" /\ EndsWith(<<c>>)
      BY <1>4, <2>1, OtherClosures DEF Final
    <3> HIDE DEF c
    <3>2. QED
      BY <1>1, <1>2, <1>4, <2>1, <3>1, EndInv
  <2>2. CASE work.why # "ok"
    <3>1. /\ work' \in Workers /\ work'.job = work.job
          /\ work'.release = work.release /\ work'.was = work.was /\ work'.left = work.left
          /\ work'.question = 0 /\ work'.mail = <<>> /\ work'.why = work.why /\ work'.at = "retry"
      BY <1>2, <1>3, <1>4, <2>2 DEF Workers
    <3>2. Ending' /\ Untouched'
      BY <1>2, <3>1 DEF Ending, Untouched, Early
    <3>3. UNCHANGED posted
      BY <1>4, <2>2
    <3>4. QED
      BY <1>1, <1>2, <1>3, <1>4, <2>2, <3>1, <3>2, <3>3, GoOnInv
  <2>3. QED
    BY <2>1, <2>2
<1>5. CASE st' = [st EXCEPT !.bundlesRead = TRUE] /\ UNCHANGED count
           /\ IF work.why = "ok" THEN EndsWith(<<[do |-> "discovered"]>>)
              ELSE work' = [work EXCEPT !.at = "retry"] /\ UNCHANGED posted
  <2>1. st' \in States /\ st'.slot = st.slot /\ (Dropped' => Dropped)
    BY <1>2, <1>5 DEF States, Dropped
  <2>2. QED
    BY <1>2, <1>4, <1>5, <2>1
<1>6. ASSUME NEW lost \in BOOLEAN, Spend(1),
             st' = [st EXCEPT !.bundlesRead = TRUE, !.problems = TRUE, !.lost = @ \/ lost],
             IF work.why = "ok" THEN EndsWith(<<[do |-> "discovered"]>>)
             ELSE work' = [work EXCEPT !.at = "retry"] /\ UNCHANGED posted
      PROVE  IInv'
  <2> DEFINE gone == st.lost \/ lost
  <2>1. gone \in BOOLEAN /\ st' = [st EXCEPT !.bundlesRead = TRUE, !.problems = TRUE, !.lost = gone]
    BY <1>2, <1>6 DEF States
  <2> HIDE DEF gone
  <2>2. st' \in States /\ st'.slot = st.slot /\ st'.problems
    BY <1>2, <2>1 DEF States
  <2>3. count' \in Counts /\ count'.asked = count.asked
    BY <1>2, <1>6, SpendTypes
  <2>4. Dropped' => Dropped
    BY <2>2 DEF Dropped
  <2>5. QED
    BY <1>4, <1>6, <2>2, <2>3, <2>4
<1>7. CASE st' = [st EXCEPT !.bundlesRead = TRUE, !.lost = TRUE] /\ Spend(1) /\ EndsWith(<<Failed>>)
  <2>1. st' \in States /\ st'.slot = st.slot
    BY <1>2, <1>7 DEF States
  <2>2. QED
    BY <1>1, <1>2, <1>7, <2>1, SpendTypes, FailsInv
<1>8. QED
  BY <1>5, <1>6, <1>7 DEF ReadBundles

LEMMA ReadBundleInv ==
  ASSUME IInv, ReadBundle
  PROVE  IInv'
<1>1. Alive /\ work.at = "read" /\ UNCHANGED <<desk, page, hand, window, disk>>
  BY DEF ReadBundle
<1>2. /\ work \in Workers /\ work.job \in Jobs /\ work.at \in Stages(work.job)
      /\ disk \in Disks /\ st \in States /\ count \in Counts
      /\ work.question = 0 /\ work.mail = <<>> /\ work.why = "ok" /\ Ending
  BY <1>1, AtWork, NoQuestion DEF IInv, Ending
<1>3. work.job = "bundle"
  BY <1>1, <1>2, InstallUpStages, InstallNewStages, ResourcesStages, OptionsStages, DiscoverStages,
     InstancesStages, ReleaseStages, SettleStages DEF Jobs
<1>4. "retry" \in Stages(work.job) /\ "retry" \in Phases /\ {"refused", "lost"} \subseteq Whys /\ ~Dropped
  BY <1>1, <1>2, <1>3, BundleStages, AtWork DEF Phases, Whys
<1>5. CASE EndsWith(<<[do |-> "bundleAdded"]>>) /\ UNCHANGED <<st, count>>
  BY <1>1, <1>2, <1>4, <1>5, DoneInv DEF Dropped
<1>6. ASSUME NEW why \in {"refused", "lost"}, work' = [work EXCEPT !.at = "retry", !.why = why]
      PROVE  /\ work' \in Workers /\ work'.job = work.job /\ work'.release = work.release
             /\ work'.was = work.was /\ work'.left = work.left
             /\ work'.question = 0 /\ work'.mail = <<>> /\ work'.why = why /\ work'.at = "retry"
             /\ Ending' /\ Untouched'
  <2>1. /\ work' \in Workers /\ work'.job = work.job /\ work'.release = work.release
        /\ work'.was = work.was /\ work'.left = work.left
        /\ work'.question = 0 /\ work'.mail = <<>> /\ work'.why = why /\ work'.at = "retry"
    BY <1>2, <1>4, <1>6 DEF Workers
  <2>2. Ending' /\ Untouched'
    BY <1>2, <2>1 DEF Ending, Untouched, Early
  <2>3. QED
    BY <2>1, <2>2
<1>7. CASE work' = [work EXCEPT !.at = "retry", !.why = "refused"] /\ UNCHANGED <<st, posted, count>>
  BY <1>1, <1>2, <1>4, <1>6, <1>7, GoOnInv
<1>8. CASE Faults("lost") /\ work' = [work EXCEPT !.at = "retry", !.why = "lost"] /\ UNCHANGED posted
  BY <1>1, <1>2, <1>4, <1>6, <1>8, GivesUpInv
<1>9. QED
  BY <1>5, <1>7, <1>8 DEF ReadBundle

LEMMA RetryInv ==
  ASSUME IInv, Retry
  PROVE  IInv'
<1>1. Alive /\ work.at = "retry" /\ UNCHANGED <<desk, page, hand, window, disk>> /\ Retryable
  BY DEF Retry
<1>2. disk \in Disks /\ st \in States /\ count \in Counts
  BY <1>1, AtWork
<1>3. CASE ~st.lost /\ EndsWith(<<[do |-> "notDone"]>>) /\ UNCHANGED <<st, count>>
  BY <1>1, <1>2, <1>3, DoneInv DEF Dropped
<1>4. CASE EndsWith(<<Failed>>) /\ st' = [st EXCEPT !.lost = TRUE] /\ Spend(1)
  <2>1. st' \in States /\ st'.slot = st.slot
    BY <1>2, <1>4 DEF States
  <2>2. QED
    BY <1>1, <1>2, <1>4, <2>1, SpendTypes, FailsInv
<1>5. CASE EndsWith(<<Failed>>) /\ UNCHANGED <<st, count>>
  BY <1>1, <1>2, <1>5, FailsInv
<1>6. QED
  BY <1>1, <1>3, <1>4, <1>5 DEF Retryable

LEMMA RestoreInv ==
  ASSUME IInv, Restore
  PROVE  IInv'
<1>1. Alive /\ work.at = "restore" /\ UNCHANGED <<desk, page, posted, hand, window>>
  BY DEF Restore
<1>2. /\ work \in Workers /\ work.job \in Jobs /\ work.at \in Stages(work.job)
      /\ disk \in Disks /\ st \in States /\ count \in Counts
      /\ work.question = 0 /\ work.mail = <<>> /\ Ending
  BY <1>1, AtWork, NoQuestion DEF IInv
<1>3. work.job = "instances"
  BY <1>1, <1>2, InstallUpStages, InstallNewStages, ResourcesStages, OptionsStages, DiscoverStages,
     BundleStages, ReleaseStages, SettleStages DEF Jobs
<1>4. /\ "clean" \in Stages(work.job) /\ "clean" \notin Early /\ work.was \in Disks
      /\ work.why \notin {"cancelled", "expired"}
  BY <1>1, <1>2, <1>3, InstancesStages DEF IInv, Begun, Ending, Early, Alive
<1>5. ASSUME disk' = IF work.kept THEN [disk EXCEPT !.config = work.was.config] ELSE disk, Moves("clean"),
             UNCHANGED <<st, count>>
      PROVE  IInv'
  <2>1. disk' \in Disks
    BY <1>2, <1>4, <1>5 DEF Disks
  <2>2. QED
    BY <1>1, <1>2, <1>4, <1>5, <2>1, MovesInv DEF Dropped
<1>6. ASSUME work' = [work EXCEPT !.at = "clean", !.why = "torn"], Faults("error"), UNCHANGED disk PROVE IInv'
  <2>1. /\ work' \in Workers /\ work'.job = work.job /\ work'.release = work.release
        /\ work'.was = work.was /\ work'.left = work.left
        /\ work'.question = 0 /\ work'.mail = <<>> /\ work'.why = "torn" /\ work'.at = "clean"
    BY <1>2, <1>6 DEF Workers, Phases, Whys
  <2>2. Ending' /\ Untouched'
    BY <1>2, <2>1 DEF Ending, Untouched, Early
  <2>3. /\ st' \in States /\ st'.slot = st.slot /\ count' \in Counts /\ count'.asked = count.asked
    BY <1>2, <1>6, FaultTypes
  <2>4. QED
    BY <1>1, <1>2, <1>4, <1>6, <2>1, <2>2, <2>3, GoOnInv
<1>7. QED
  BY <1>5, <1>6 DEF Restore

LEMMA CleanInv ==
  ASSUME IInv, Clean
  PROVE  IInv'
<1>1. Alive /\ work.at = "clean" /\ UNCHANGED <<desk, page, hand, window, disk>>
  BY DEF Clean
<1>2. /\ work \in Workers /\ work.job \in Jobs /\ work.at \in Stages(work.job)
      /\ disk \in Disks /\ st \in States /\ count \in Counts
      /\ (work.why \in {"cancelled", "expired"} => disk = work.was)
  BY <1>1, AtWork DEF IInv, Untouched
<1>3. work.job # "settle" /\ (work.why = "ok" => ~Dropped)
  BY <1>1, <1>2, SettleStages, AtWork
<1>4. ASSUME work.job = "instances", NEW at \in {"restart", "retry"}, Moves(at), UNCHANGED <<st, posted, count>>,
             at = "restart" => work.why = "ok"
      PROVE  IInv'
  <2>1. at \in Stages(work.job) \ {"wait", "over"} /\ at \notin Early
    BY <1>4, InstancesStages DEF Early
  <2>2. QED
    BY <1>1, <1>2, <1>4, <2>1, MovesInv DEF Dropped
<1>5. ASSUME work.why = "ok", st' = [st EXCEPT !.laidOut = TRUE], UNCHANGED count,
             NEW do \in {"installed", "finished"}, EndsWith(<<[do |-> do]>>)
      PROVE  IInv'
  <2>1. st' \in States /\ st'.slot = st.slot /\ ~Dropped'
    BY <1>2, <1>3, <1>5 DEF States, Dropped
  <2>2. QED
    BY <1>1, <1>5, <2>1, DoneInv
<1>6. ASSUME EndsWith(<<Failed>>), UNCHANGED <<st, count>> PROVE IInv'
  BY <1>1, <1>2, <1>6, FailsInv
<1>7. ASSUME Faults("lost"), EndsWith(<<Failed>>) PROVE IInv'
  BY <1>1, <1>2, <1>7, FaultTypes, FailsInv
<1>8. QED
  BY <1>4, <1>5, <1>6, <1>7 DEF Clean

LEMMA RestartInv ==
  ASSUME IInv, Restart
  PROVE  IInv'
<1>1. Alive /\ work.at = "restart" /\ UNCHANGED <<desk, page, hand, window>>
  BY DEF Restart
<1>2. /\ disk \in Disks /\ st \in States /\ count \in Counts /\ work.job \in Jobs
      /\ work.at \in Stages(work.job) /\ work.why = "ok" /\ ~Dropped
  <2>1. work.why = "ok" /\ work.job # "settle"
    BY <1>1, AtWork, SettleStages DEF IInv, Ending
  <2>2. QED
    BY <1>1, <2>1, AtWork
<1>3. ASSUME disk' = Changed(disk), st' = [st EXCEPT !.started = TRUE], EndsWith(<<[do |-> "applied"]>>),
             UNCHANGED count
      PROVE  IInv'
  <2> DEFINE c == [do |-> "applied"]
  <2>1. c \in Closures /\ Final(c) /\ c.do = "applied" /\ EndsWith(<<c>>)
    BY <1>3, OtherClosures DEF Final
  <2> HIDE DEF c
  <2>2. st' \in States /\ st'.slot = st.slot /\ ~Dropped' /\ disk' \in Disks
    BY <1>2, <1>3, DiskTypes DEF States, Dropped
  <2>3. QED
    BY <1>1, <1>2, <1>3, <2>1, <2>2, EndInv
<1>4. ASSUME disk' \in Midway(disk), NEW why \in {"error", "lost"}, Faults(why), EndsWith(<<Failed>>) PROVE IInv'
  BY <1>1, <1>2, <1>4, FaultTypes, DiskTypes, FailsInv
<1>5. QED
  BY <1>3, <1>4 DEF Restart

LEMMA SettleInv ==
  ASSUME IInv, Settle \/ Told
  PROVE  IInv'
<1>1. Alive /\ work.at \in {"settle", "told"} /\ UNCHANGED <<desk, page, hand, window, disk>>
  BY DEF Settle, Told
<1>2. /\ work \in Workers /\ work.job \in Jobs /\ work.at \in Stages(work.job)
      /\ disk \in Disks /\ st \in States /\ count \in Counts
      /\ work.question = 0 /\ work.mail = <<>> /\ Ending
  BY <1>1, AtWork, NoQuestion DEF IInv
<1>3. work.job = "settle"
  BY <1>1, <1>2, InstallUpStages, InstallNewStages, ResourcesStages, OptionsStages, DiscoverStages,
     BundleStages, ReleaseStages, InstancesStages DEF Jobs
<1>4. "told" \in Stages(work.job) /\ "told" \notin Early
  BY <1>3, SettleStages DEF Early
<1>5. ASSUME work.at = "settle", NEW why \in {"ok", "error"}, work' = [work EXCEPT !.at = "told", !.why = why],
             UNCHANGED posted, st' \in States, st'.slot = st.slot, count' \in Counts, count'.asked = count.asked
      PROVE  IInv'
  <2>1. /\ work' \in Workers /\ work'.job = work.job /\ work'.release = work.release
        /\ work'.was = work.was /\ work'.left = work.left
        /\ work'.question = 0 /\ work'.mail = <<>> /\ work'.why = why /\ work'.at = "told"
    BY <1>2, <1>5 DEF Workers, Phases, Whys
  <2>2. Ending' /\ Untouched' /\ work.why = "ok"
    BY <1>2, <1>5, <2>1 DEF Ending, Untouched, Early
  <2>3. QED
    BY <1>1, <1>2, <1>3, <1>4, <1>5, <2>1, <2>2, GoOnInv
<1>6. ASSUME Settle PROVE IInv'
  <2>1. work.at = "settle" /\ work.why = "ok" /\ UNCHANGED posted
    BY <1>2, <1>6 DEF Settle, Ending
  <2>2. CASE UNCHANGED <<st, count>> /\ Moves("told")
    <3>1. work' = [work EXCEPT !.at = "told", !.why = "ok"]
      BY <1>2, <2>1, <2>2 DEF Moves, Workers
    <3>2. QED
      BY <1>2, <1>5, <2>1, <2>2, <3>1
  <2>3. CASE Faults("lost") /\ Moves("told")
    <3>1. work' = [work EXCEPT !.at = "told", !.why = "ok"]
      BY <1>2, <2>1, <2>3 DEF Moves, Workers
    <3>2. QED
      BY <1>2, <1>5, <2>1, <2>3, <3>1, FaultTypes
  <2>4. CASE Faults("error") /\ work' = [work EXCEPT !.at = "told", !.why = "error"]
    BY <1>2, <1>5, <2>1, <2>4, FaultTypes
  <2>5. QED
    BY <1>6, <2>2, <2>3, <2>4 DEF Settle
<1>7. ASSUME Told PROVE IInv'
  <2>1. CASE EndsWith(<<Failed>>) /\ UNCHANGED <<st, count>>
    BY <1>1, <1>2, <2>1, FailsInv
  <2>2. CASE st' = [st EXCEPT !.settled = TRUE] /\ EndsWith(<<[do |-> "finished"]>>) /\ UNCHANGED count /\ ~st.lost
    <3>1. st' \in States /\ st'.slot = st.slot /\ ~Dropped'
      BY <1>2, <2>2 DEF States, Dropped
    <3>2. QED
      BY <1>1, <2>2, <3>1, DoneInv
  <2>3. QED
    BY <1>7, <2>1, <2>2 DEF Told
<1>8. QED
  BY <1>6, <1>7

\* Every step of the worker.
LEMMA WorkerInv ==
  ASSUME IInv, WorkerSteps
  PROVE  IInv'
BY WorksInv, BreaksInv, LockRefusedInv, PanicsInv, LookInv, AskInv, ReceiveInv, TimesOutInv, ExpireInv,
   TakeBackInv, WriteOptionInv, KeepOptionsInv, PinInv, ReadBundlesInv, ReadBundleInv, RetryInv, RestoreInv,
   CleanInv, RestartInv, SettleInv DEF WorkerSteps
-----------------------------------------------------------------------------
(* The event loop: what changes the page alone.                            *)

\* Two pages that differ in neither place, question nor state.
SamePlace(p, q) ==
  p.step = q.step /\ p.back = q.back /\ p.question = q.question /\ p.busy = q.busy /\ p.failed = q.failed
\* The tick of a page is under its note.
Sworn(p) == p.downgradeOk => p.sworn = p.downgradeNote

LEMMA PageInv ==
  ASSUME IInv, UNCHANGED <<desk, work, posted, hand, disk>>, page' \in Pages, SamePlace(page', page),
         window' \in {window, "closing", "letGo", "gone"},
         window' = "letGo" => window = "letGo" \/ (page.failed /\ GivenUp),
         st' \in States, st'.slot = st.slot, Dropped' => Dropped \/ page.step = 4,
         count' \in Counts, count'.asked = count.asked, Ticked'
  PROVE  IInv'
<1>1. /\ TypeOK /\ Closed /\ Abandoned /\ Asked /\ Paged /\ Chained /\ Stopping /\ Ending /\ Untouched /\ Begun
  BY DEF IInv
<1>2. TypeOK'
  <2>1. page' \in Pages' /\ \A job \in Jobs \cup {"none"} : work'.job = job => work'.at \in Stages(job)'
    BY <1>1, SameTypes DEF TypeOK
  <2>2. QED
    BY <1>1, <2>1 DEF TypeOK
<1>3. Closed' /\ Chained'
  BY <1>1 DEF Closed, Chained, SamePlace
<1>4. Abandoned'
  BY <1>1 DEF Abandoned, SamePlace, GivenUp
<1>5. Asked' /\ Paged'
  BY <1>1 DEF Asked, Paged, SamePlace, Unanswered
<1>6. Stopping'
  BY <1>1 DEF Stopping, SamePlace
<1>7. Ending' /\ Untouched' /\ Begun'
  BY <1>1 DEF Ending, Untouched, Begun
<1>8. QED
  BY <1>2, <1>3, <1>4, <1>5, <1>6, <1>7 DEF IInv

\* The window's own steps.
LEMMA WindowInv ==
  ASSUME IInv, UNCHANGED <<desk, page, work, posted, hand, disk>>,
         window' \in {window, "closing", "letGo", "gone"},
         window' = "letGo" => window = "letGo" \/ (page.failed /\ GivenUp),
         st' \in States, st'.slot = st.slot, Dropped' => Dropped \/ page.step = 4,
         count' \in Counts, count'.asked = count.asked
  PROVE  IInv'
<1>1. page' \in Pages /\ SamePlace(page', page)
  BY DEF IInv, TypeOK, SamePlace
<1>2. Ticked'
  BY DEF IInv, Ticked, Note, Upgrading
<1>3. QED
  BY <1>1, <1>2, PageInv

\* A window goes with its worker held only behind a failed page.
LEMMA Leaving ==
  ASSUME IInv, Goes, page.failed \/ page.step = 4 \/ ~Guarded
  PROVE  window' \in {"closing", "letGo"} /\ (window' = "letGo" => page.failed /\ GivenUp)
<1>1. page.step = 4 => ~Guarded
  BY DEF IInv, Closed, Guarded
<1>2. page.failed => GivenUp
  BY DEF IInv, Abandoned
<1>3. QED
  BY <1>1, <1>2 DEF Goes

LEMMA ClosingInv ==
  ASSUME IInv, CloseRequested \/ CloseWizard \/ OpenConsole \/ Leaves
  PROVE  IInv'
<1>1. st \in States /\ count \in Counts /\ UNCHANGED <<desk, page, work, posted, hand, disk>>
  BY DEF IInv, TypeOK, CloseRequested, CloseWizard, OpenConsole, Leaves
<1>2. CASE CloseRequested
  <2>1. CASE st' = [st EXCEPT !.closeWarned = TRUE] /\ UNCHANGED window
    <3>1. st' \in States /\ st'.slot = st.slot /\ (Dropped' => Dropped)
      BY <1>1, <2>1 DEF States, Dropped
    <3>2. QED
      BY <1>1, <1>2, <2>1, <3>1, WindowInv DEF CloseRequested
  <2>2. CASE Goes /\ UNCHANGED st
    BY <1>1, <1>2, <2>2, Leaving, WindowInv DEF CloseRequested, Dropped
  <2>3. QED
    BY <1>2, <2>1, <2>2 DEF CloseRequested
<1>3. CASE CloseWizard
  BY <1>1, <1>3, Leaving, WindowInv DEF CloseWizard, Dropped
<1>4. CASE OpenConsole
  <2>1. CASE Goes /\ UNCHANGED <<st, count>>
    BY <1>1, <1>4, <2>1, Leaving, WindowInv DEF OpenConsole
  <2>2. CASE Spend(1) /\ st' = [st EXCEPT !.lost = TRUE] /\ UNCHANGED window
    <3>1. st' \in States /\ st'.slot = st.slot
      BY <1>1, <2>2 DEF States
    <3>2. page.step = 4
      BY <1>4 DEF OpenConsole
    <3>3. QED
      BY <1>1, <2>2, <3>1, <3>2, SpendTypes, WindowInv
  <2>3. QED
    BY <1>4, <2>1, <2>2 DEF OpenConsole
<1>5. CASE Leaves
  BY <1>1, <1>5, WindowInv DEF Leaves, Dropped
<1>6. QED
  BY <1>2, <1>3, <1>4, <1>5

\* The boxes of a question's page.
LEMMA BoxesInv ==
  ASSUME IInv, \/ \E choice \in 1 .. 2 : Choose(choice)
               \/ \E row \in Rows, side \in 1 .. 2 : ConflictToggle(row, side)
               \/ \E side \in 1 .. 2 : ConflictHeaderToggle(side)
  PROVE  IInv'
<1>1. page \in Pages /\ st \in States /\ count \in Counts
  BY DEF IInv, TypeOK
<1>2. UNCHANGED <<desk, st, work, posted, hand, window, disk, count>>
  BY DEF Choose, ConflictToggle, ConflictHeaderToggle
<1>3. PICK choice \in 0 .. 2, rows \in [Rows -> 0 .. 2] : page' = [page EXCEPT !.choice = choice, !.rows = rows]
  <2>1. CASE \E choice \in 1 .. 2 : Choose(choice)
    <3>1. PICK choice \in 1 .. 2 : page' = [page EXCEPT !.choice = choice]
      BY <2>1 DEF Choose
    <3>2. page' = [page EXCEPT !.choice = choice, !.rows = page.rows]
      BY <1>1, <3>1 DEF Pages
    <3>3. page.rows \in [Rows -> 0 .. 2] /\ choice \in 0 .. 2
      BY <1>1 DEF Pages
    <3>4. QED
      BY <3>2, <3>3
  <2>2. CASE \E row \in Rows, side \in 1 .. 2 : ConflictToggle(row, side)
    <3>1. PICK row \in Rows, side \in 1 .. 2 : page' = [page EXCEPT !.rows[row] = IF @ = side THEN 0 ELSE side]
      BY <2>2 DEF ConflictToggle
    <3> DEFINE box == IF page.rows[row] = side THEN 0 ELSE side
               rows == [page.rows EXCEPT ![row] = box]
    <3>2. box \in 0 .. 2 /\ page.rows \in [Rows -> 0 .. 2] /\ page.choice \in 0 .. 2
      BY <1>1 DEF Pages
    <3>3. page' = [page EXCEPT !.rows = rows]
      BY <3>1
    <3> HIDE DEF box
    <3>4. rows \in [Rows -> 0 .. 2]
      BY <3>2
    <3> HIDE DEF rows
    <3>5. page' = [page EXCEPT !.choice = page.choice, !.rows = rows]
      BY <1>1, <3>3 DEF Pages
    <3>6. QED
      BY <3>2, <3>4, <3>5
  <2>3. CASE \E side \in 1 .. 2 : ConflictHeaderToggle(side)
    <3>1. PICK side \in 1 .. 2 :
             page' = [page EXCEPT !.rows = [r \in Rows |-> IF \A q \in Rows : page.rows[q] = side THEN 0 ELSE side]]
      BY <2>3 DEF ConflictHeaderToggle
    <3> DEFINE rows == [r \in Rows |-> IF \A q \in Rows : page.rows[q] = side THEN 0 ELSE side]
    <3>2. rows \in [Rows -> 0 .. 2] /\ page.choice \in 0 .. 2
      BY <1>1 DEF Pages
    <3> HIDE DEF rows
    <3>3. page' = [page EXCEPT !.choice = page.choice, !.rows = rows]
      BY <1>1, <3>1 DEF Pages, rows
    <3>4. QED
      BY <3>2, <3>3
  <2>4. QED
    BY <2>1, <2>2, <2>3
<1>4. /\ page' \in Pages /\ SamePlace(page', page) /\ page'.downgradeOk = page.downgradeOk
      /\ page'.downgradeNote = page.downgradeNote /\ page'.sworn = page.sworn
  BY <1>1, <1>3 DEF Pages, SamePlace
<1>5. Ticked'
  BY <1>2, <1>4 DEF IInv, Ticked, Note, Upgrading
<1>6. QED
  BY <1>1, <1>2, <1>4, <1>5, PageInv DEF Dropped
-----------------------------------------------------------------------------
(* The question answered, and the answer sent.                             *)

LEMMA DecideInv ==
  ASSUME IInv, NEW accepted \in BOOLEAN, Decide(accepted)
  PROVE  IInv'
<1>1. /\ Person /\ page.step \in {5, 6} /\ st' = [st EXCEPT !.slot = 0]
      /\ page' = [page EXCEPT !.step = page.back, !.busy = TRUE]
      /\ UNCHANGED <<desk, work, posted, window, disk, count>>
  BY DEF Decide
<1>2. hand' = IF st.slot = 0 THEN NoHand ELSE [question |-> st.slot, answer |-> <<page.question, accepted>>]
  BY DEF Decide
<1>3. /\ TypeOK /\ Closed /\ Abandoned /\ Asked /\ Paged /\ Chained /\ Stopping /\ Ending /\ Untouched /\ Begun
      /\ Ticked
  BY DEF IInv
<1>4. page \in Pages /\ st \in States /\ count \in Counts /\ page.back \in {0, 1, 2, 3, 7} /\ ~Shown(posted)
  BY <1>1, <1>3 DEF TypeOK, Paged
<1>5. /\ page' \in Pages /\ page'.step = page.back /\ page'.busy /\ page'.failed = page.failed
      /\ page'.downgradeOk = page.downgradeOk /\ page'.downgradeNote = page.downgradeNote
      /\ page'.sworn = page.sworn
  BY <1>1, <1>4 DEF Pages
<1>6. st' \in States /\ st'.slot = 0 /\ (Dropped' => Dropped)
  BY <1>1, <1>4 DEF States, Dropped
<1>7. /\ hand' \in Hands /\ hand'.question \in {0, st.slot} /\ (hand'.question = 0 => hand' = NoHand)
      /\ (hand'.question # 0 => hand'.answer # <<>> /\ hand'.answer[1] = hand'.question)
  <2>1. CASE st.slot = 0
    <3>1. NoHand \in Hands /\ NoHand.question = 0
      BY DEF NoHand, Hands, Answers
    <3>2. QED
      BY <1>2, <2>1, <3>1
  <2>2. CASE st.slot # 0
    <3> DEFINE answer == <<page.question, accepted>>
    <3>1. answer \in Answers /\ answer # <<>> /\ answer[1] = page.question
      BY <1>4 DEF Pages, Answers
    <3> HIDE DEF answer
    <3>2. hand' = [question |-> st.slot, answer |-> answer] /\ st.slot \in Nat /\ page.question = st.slot
      BY <1>1, <1>2, <1>3, <1>4, <2>2 DEF answer, States, Paged
    <3>3. QED
      BY <2>2, <3>1, <3>2 DEF Hands
  <2>3. QED
    BY <2>1, <2>2
<1>8. TypeOK'
  <2>1. page' \in Pages' /\ \A job \in Jobs \cup {"none"} : work'.job = job => work'.at \in Stages(job)'
    BY <1>1, <1>3, <1>5, SameTypes DEF TypeOK
  <2>2. QED
    BY <1>1, <1>3, <1>6, <1>7, <2>1 DEF TypeOK
<1>9. Closed'
  BY <1>1, <1>3, <1>4, <1>5 DEF Closed
<1>10. Chained'
  BY <1>1, <1>3 DEF Chained
<1>11. Abandoned'
  <2>1. hand'.question \in {0, work.question}
    BY <1>3, <1>7 DEF Asked
  <2>2. QED
    BY <1>1, <1>3, <1>5, <2>1 DEF Abandoned, GivenUp
<1>12. Asked'
  <2>1. work.mail # <<>> => hand' = NoHand
    BY <1>2, <1>3 DEF Asked
  <2>2. hand'.question <= count.asked
    BY <1>3, <1>4, <1>7 DEF Asked, Counts
  <2>3. QED
    BY <1>1, <1>3, <1>6, <1>7, <2>1, <2>2 DEF Asked
<1>13. Paged'
  BY <1>1, <1>3, <1>4, <1>5, <1>6 DEF Paged, Shown
<1>14. Stopping'
  BY <1>1, <1>3, <1>5, <1>6 DEF Stopping
<1>15. Ending' /\ Untouched' /\ Begun' /\ Ticked'
  BY <1>1, <1>3, <1>5 DEF Ending, Untouched, Begun, Ticked, Note, Upgrading
<1>16. QED
  BY <1>8, <1>9, <1>10, <1>11, <1>12, <1>13, <1>14, <1>15 DEF IInv

LEMMA SendInv ==
  ASSUME IInv, Send
  PROVE  IInv'
<1>1. hand # NoHand /\ hand' = NoHand /\ UNCHANGED <<desk, page, st, window, disk, count>>
  BY DEF Send
<1>2. /\ TypeOK /\ Closed /\ Abandoned /\ Asked /\ Paged /\ Chained /\ Stopping /\ Ending /\ Untouched /\ Begun
      /\ Ticked
  BY DEF IInv
<1>3. /\ hand.question # 0 /\ hand.answer # <<>> /\ hand.answer[1] = hand.question /\ st.slot = 0
      /\ work.mail = <<>> /\ hand.answer \in Answers /\ work \in Workers /\ posted \in Seq(Closures)
  BY <1>1, <1>2 DEF Asked, TypeOK, Hands
<1>4. NoHand \in Hands /\ NoHand.question = 0
  BY DEF NoHand, Hands, Answers
<1>5. \A c \in Items(posted) : c.do \notin {"optionsDone", "applied"}
  BY <1>1, <1>2 DEF Chained
<1>6. ASSUME work.question = hand.question, work' = [work EXCEPT !.mail = hand.answer], UNCHANGED posted
      PROVE  IInv'
  <2>1. /\ work' \in Workers /\ work'.job = work.job /\ work'.release = work.release /\ work'.was = work.was
        /\ work'.at = work.at /\ work'.question = work.question /\ work'.mail = hand.answer
        /\ work'.why = work.why /\ work'.left = work.left
    BY <1>3, <1>6 DEF Workers
  <2>2. TypeOK'
    <3>1. page' \in Pages' /\ \A job \in Jobs \cup {"none"} : work'.job = job => work'.at \in Stages(job)'
      BY <1>1, <1>2, <2>1, SameTypes DEF TypeOK
    <3>2. QED
      BY <1>1, <1>2, <1>4, <1>6, <2>1, <3>1 DEF TypeOK
  <2>3. Closed' /\ Chained' /\ Stopping'
    BY <1>1, <1>2, <1>5, <1>6, <2>1 DEF Closed, Chained, Stopping, Dropped
  <2>4. Abandoned'
    BY <1>1, <1>2, <1>4, <1>6, <2>1 DEF Abandoned, GivenUp
  <2>5. Asked'
    BY <1>1, <1>2, <1>3, <1>4, <1>6, <2>1 DEF Asked, TypeOK, Counts
  <2>6. Paged'
    <3>1. ~Unanswered
      BY <1>6 DEF Unanswered
    <3>2. QED
      BY <1>1, <1>2, <1>6, <2>1, <3>1 DEF Paged
  <2>7. Ending' /\ Untouched' /\ Begun' /\ Ticked'
    BY <1>1, <1>2, <2>1 DEF Ending, Untouched, Begun, Ticked, Note, Upgrading
  <2>8. QED
    BY <2>2, <2>3, <2>4, <2>5, <2>6, <2>7 DEF IInv
<1>7. ASSUME work.question # hand.question, Post(<<[do |-> "expired"]>>), UNCHANGED work
      PROVE  IInv'
  <2> DEFINE c == [do |-> "expired"]
  <2>1. c \in Closures /\ c.do = "expired" /\ posted' = posted \o <<c>>
    BY <1>7, OtherClosures DEF Post
  <2> HIDE DEF c
  <2>2. GivenUp
    BY <1>2, <1>3, <1>7 DEF Abandoned
  <2>3. /\ posted' \in Seq(Closures) /\ Items(posted') = Items(posted) \cup {c}
        /\ Ordered(posted') /\ OneShow(posted')
    <3>1. Ordered(posted) /\ OneShow(posted)
      BY <1>2 DEF Closed, Paged
    <3>2. QED
      BY <1>3, <2>1, <3>1, Added
  <2>4. TypeOK'
    <3>1. page' \in Pages' /\ \A job \in Jobs \cup {"none"} : work'.job = job => work'.at \in Stages(job)'
      BY <1>1, <1>2, <1>7, SameTypes DEF TypeOK
    <3>2. QED
      BY <1>1, <1>2, <1>4, <1>7, <2>3, <3>1 DEF TypeOK
  <2>5. Closed'
    BY <1>1, <1>2, <1>7, <2>1, <2>3 DEF Closed, Final, OnlyExpired
  <2>6. Chained'
    BY <1>5, <2>1, <2>3 DEF Chained
  <2>7. Stopping'
    BY <1>1, <1>2, <1>7, <2>3 DEF Stopping, Dropped
  <2>8. Abandoned'
    BY <1>1, <1>2, <1>7, <2>2 DEF Abandoned, GivenUp
  <2>9. Asked'
    BY <1>1, <1>2, <1>3, <1>4, <1>7 DEF Asked, TypeOK, Counts
  <2>10. Paged'
    <3>1. Shown(posted') => Shown(posted)
      BY <2>1, <2>3 DEF Shown
    <3>2. QED
      BY <1>1, <1>2, <1>3, <1>7, <2>2, <2>3, <3>1 DEF Paged, GivenUp
  <2>11. Ending' /\ Untouched' /\ Begun' /\ Ticked'
    BY <1>1, <1>2, <1>7 DEF Ending, Untouched, Begun, Ticked, Note, Upgrading
  <2>12. QED
    BY <2>4, <2>5, <2>6, <2>7, <2>8, <2>9, <2>10, <2>11 DEF IInv
<1>8. QED
  BY <1>6, <1>7 DEF Send
-----------------------------------------------------------------------------
(* The closures run.                                                       *)

\* What the event loop's closures share: the first is taken, the rest is as it was.
LEMMA LandInv ==
  ASSUME IInv, Loop, posted # <<>>, posted' = Tail(posted), UNCHANGED <<desk, st, work, hand, window, disk, count>>,
         page' \in Pages, Sworn(page'), page'.sworn = page.sworn,
         page'.failed => page.failed \/ GivenUp,
         page'.step \in {5, 6} => page'.back \in {0, 1, 2, 3, 7} /\ ~Shown(Tail(posted)),
         page'.step \in {5, 6} /\ st.slot # 0 => page'.question = st.slot,
         page'.step \in {5, 6} => page.step \in {5, 6} \/ Shown(posted),
         (~page'.busy /\ ~page'.failed) \/ page'.step = 4 => work.job = "none" /\ OnlyExpired(Tail(posted)),
         (\E c \in Items(Tail(posted)) : c.do \in {"optionsDone", "applied"}) => ~page'.failed,
         \/ page'.failed = page.failed /\ Head(posted).do # "failed" /\ page.step # 4
         \/ page'.failed \/ page'.step = 4,
         window = "letGo" => page'.failed
  PROVE  IInv'
<1>1. /\ TypeOK /\ Closed /\ Abandoned /\ Asked /\ Paged /\ Chained /\ Stopping /\ Ending /\ Untouched /\ Begun
      /\ Ticked
  BY DEF IInv
<1>2. /\ Tail(posted) \in Seq(Closures) /\ Items(posted) = {Head(posted)} \cup Items(Tail(posted))
      /\ Ordered(Tail(posted)) /\ OneShow(Tail(posted))
  BY <1>1, Taken DEF TypeOK, Closed, Paged
<1>3. TypeOK'
  <2>1. page' \in Pages' /\ \A job \in Jobs \cup {"none"} : work'.job = job => work'.at \in Stages(job)'
    BY <1>1, SameTypes DEF TypeOK
  <2>2. QED
    BY <1>1, <1>2, <2>1 DEF TypeOK
<1>4. Closed'
  BY <1>1, <1>2 DEF Closed
<1>5. Abandoned'
  BY <1>1, <1>2 DEF Abandoned, GivenUp
<1>6. Chained'
  <2>1. ASSUME \E c \in Items(Tail(posted)) : c.do \in {"optionsDone", "applied"} PROVE page'.step \notin {5, 6}
    BY <1>1, <1>2, <2>1 DEF Chained, Shown
  <2>2. QED
    BY <1>1, <1>2, <2>1 DEF Chained
<1>7. Asked'
  BY <1>1 DEF Asked
<1>8. Paged'
  <2>1. Shown(Tail(posted)) => Shown(posted)
    BY <1>2 DEF Shown
  <2>2. \A c \in Items(Tail(posted)) : c.do = "show" => st.slot \in {0, c.question}
    BY <1>1, <1>2 DEF Paged
  <2>3. work.job # "none" /\ work.why = "ok" /\ ~Unanswered => page'.step \notin {5, 6} /\ ~Shown(Tail(posted))
    BY <1>1, <2>1 DEF Paged
  <2>4. QED
    BY <1>2, <2>2, <2>3 DEF Paged, Unanswered
<1>9. Stopping'
  BY <1>1, <1>2 DEF Stopping, Dropped
<1>10. Ending' /\ Untouched' /\ Begun'
  BY <1>1 DEF Ending, Untouched, Begun
<1>11. Ticked'
  BY <1>1 DEF Ticked, Sworn, Note, Upgrading
<1>12. QED
  BY <1>3, <1>4, <1>5, <1>6, <1>7, <1>8, <1>9, <1>10, <1>11 DEF IInv

\* What a note does to a page.
LEMMA ConfirmedPage ==
  ASSUME NEW p \in Pages, NEW note \in Releases
  PROVE  /\ Confirmed(p, note) \in Pages /\ SamePlace(Confirmed(p, note), p)
         /\ Confirmed(p, note).sworn = p.sworn /\ Confirmed(p, note).downgradeNote = note
         /\ Sworn(p) => Sworn(Confirmed(p, note))
<1>1. Confirmed(p, note) \in Pages
  BY DEF Confirmed, Pages
<1>2. SamePlace(Confirmed(p, note), p)
  BY DEF Confirmed, Pages, SamePlace
<1>3. /\ Confirmed(p, note).sworn = p.sworn /\ Confirmed(p, note).downgradeNote = note
      /\ Sworn(p) => Sworn(Confirmed(p, note))
  BY DEF Confirmed, Pages, Sworn
<1>4. QED
  BY <1>1, <1>2, <1>3

LEMMA NoteRelease ==
  ASSUME NEW release \in Releases
  PROVE  Note(release) \in Releases /\ Note(release) \in {release, NoRelease}
BY DEF Note, Releases

\* A page's type after the changes the closures make.
LEMMA PageFields ==
  ASSUME NEW p \in Pages, NEW step \in 0 .. 7, NEW canNext \in BOOLEAN, NEW failed \in BOOLEAN
  PROVE  /\ [p EXCEPT !.busy = FALSE, !.step = step, !.canNext = canNext] \in Pages
         /\ [p EXCEPT !.busy = FALSE, !.canNext = canNext, !.releaseFailed = failed] \in Pages
         /\ [p EXCEPT !.busy = FALSE, !.discovered = TRUE, !.ready = canNext] \in Pages
         /\ FailedPage(p) \in Pages
<1>1. [p EXCEPT !.busy = FALSE, !.step = step, !.canNext = canNext] \in Pages
  BY DEF Pages
<1>2. [p EXCEPT !.busy = FALSE, !.canNext = canNext, !.releaseFailed = failed] \in Pages
  BY DEF Pages
<1>3. [p EXCEPT !.busy = FALSE, !.discovered = TRUE, !.ready = canNext] \in Pages
  BY DEF Pages
<1>4. FailedPage(p) \in Pages
  BY DEF Pages, FailedPage
<1>5. QED
  BY <1>1, <1>2, <1>3, <1>4

\* A page that failed is where it was, under the same tick.
LEMMA FailedFields ==
  ASSUME NEW p \in Pages, Sworn(p)
  PROVE  /\ FailedPage(p) \in Pages /\ Sworn(FailedPage(p)) /\ FailedPage(p).failed
         /\ FailedPage(p).step = p.step
<1>1. FailedPage(p) \in Pages
  BY DEF Pages, FailedPage
<1>2. /\ FailedPage(p).downgradeOk = p.downgradeOk /\ FailedPage(p).sworn = p.sworn
      /\ FailedPage(p).downgradeNote = p.downgradeNote
      /\ FailedPage(p).failed /\ FailedPage(p).step = p.step
  BY DEF Pages, FailedPage
<1>3. QED
  BY <1>1, <1>2 DEF Sworn

\* A page on another step.
LEMMA StepFields ==
  ASSUME NEW p \in Pages, Sworn(p), NEW step \in {2, 3, 4, 7}, NEW canNext \in BOOLEAN
  PROVE  /\ [p EXCEPT !.step = step, !.canNext = canNext] \in Pages
         /\ Sworn([p EXCEPT !.step = step, !.canNext = canNext])
         /\ [p EXCEPT !.step = step, !.canNext = canNext].step = step
         /\ [Rest(p) EXCEPT !.step = step, !.canNext = canNext] \in Pages
         /\ Sworn([Rest(p) EXCEPT !.step = step, !.canNext = canNext])
         /\ [Rest(p) EXCEPT !.step = step, !.canNext = canNext].step = step
         /\ [Rest(p) EXCEPT !.step = step, !.canNext = canNext].failed = p.failed
<1>1. step \in 0 .. 7
  OBVIOUS
<1>2. [p EXCEPT !.step = step, !.canNext = canNext] \in Pages
  BY <1>1 DEF Pages
<1>3. /\ Sworn([p EXCEPT !.step = step, !.canNext = canNext])
      /\ [p EXCEPT !.step = step, !.canNext = canNext].step = step
  BY DEF Pages, Sworn
<1>4. [Rest(p) EXCEPT !.step = step, !.canNext = canNext] \in Pages
  BY <1>1, PageFields DEF Rest
<1>5. /\ Sworn([Rest(p) EXCEPT !.step = step, !.canNext = canNext])
      /\ [Rest(p) EXCEPT !.step = step, !.canNext = canNext].step = step
      /\ [Rest(p) EXCEPT !.step = step, !.canNext = canNext].failed = p.failed
  BY DEF Pages, Sworn, Rest
<1>6. QED
  BY <1>2, <1>3, <1>4, <1>5

LEMMA QuestionFields ==
  ASSUME NEW p \in Pages, NEW step \in 0 .. 7, NEW back \in 0 .. 7, NEW question \in Nat, NEW choice \in 0 .. 2,
         NEW rows \in [Rows -> 0 .. 2]
  PROVE  [p EXCEPT !.back = back, !.step = step, !.question = question, !.choice = choice, !.rows = rows] \in Pages
BY DEF Pages

\* A worker's last closure run: the page is the person's again, or the last one.
LEMMA LastInv ==
  ASSUME IInv, Loop, posted # <<>>, Final(Head(posted)), Head(posted).do # "failed", posted' = Tail(posted),
         UNCHANGED <<desk, st, work, hand, window, disk, count>>,
         page' \in Pages, Sworn(page'), page'.sworn = page.sworn, ~page'.busy, page'.failed = page.failed,
         page'.step \in {page.step, 2, 4}, page'.back = page.back, page'.question = page.question
  PROVE  IInv'
<1>1. TypeOK /\ Closed /\ Abandoned /\ Chained /\ Asked /\ Paged
  BY DEF IInv
<1>2. /\ Items(posted) = {Head(posted)} \cup Items(Tail(posted)) /\ OnlyExpired(Tail(posted))
  BY <1>1, Taken DEF TypeOK, Closed
<1>3. work.job = "none" /\ page.step # 4
  BY <1>1, <1>2 DEF Closed, OnlyExpired, Final
<1>4. \A c \in Items(Tail(posted)) : c.do = "expired"
  BY <1>2 DEF OnlyExpired
<1>5. page'.step \in {5, 6} => page'.step = page.step
  OBVIOUS
<1>6. page'.step \in {5, 6} => page'.back \in {0, 1, 2, 3, 7} /\ ~Shown(Tail(posted))
  BY <1>1, <1>4, <1>5 DEF Paged, Shown
<1>7. page'.step \in {5, 6} /\ st.slot # 0 => page'.question = st.slot
  BY <1>1, <1>5 DEF Paged
<1>8. window = "letGo" => page'.failed
  BY <1>1 DEF Abandoned
<1>9. (\E c \in Items(Tail(posted)) : c.do \in {"optionsDone", "applied"}) => ~page'.failed
  BY <1>4
<1>10. QED
  BY <1>2, <1>3, <1>5, <1>6, <1>7, <1>8, <1>9, LandInv

LEMMA LandsInv ==
  ASSUME IInv, Land
  PROVE  IInv'
<1> DEFINE c == Head(posted)
<1>1. Loop /\ posted # <<>> /\ posted' = Tail(posted) /\ UNCHANGED <<desk, st, work, hand, window, disk, count>>
  BY DEF Land, Shows
<1>2. /\ TypeOK /\ Closed /\ Abandoned /\ Asked /\ Paged /\ Chained /\ page \in Pages /\ Sworn(page) /\ c \in Closures
      /\ window # "letGo"
  BY <1>1, Taken DEF IInv, TypeOK, Ticked, Sworn, Loop
<1>3. /\ Items(posted) = {c} \cup Items(Tail(posted)) /\ (Final(c) => OnlyExpired(Tail(posted)))
      /\ (c.do = "show" => ~Shown(Tail(posted))) /\ (Shown(Tail(posted)) => Shown(posted))
  BY <1>1, <1>2, Taken DEF TypeOK, Closed, Paged, Shown
<1>4. (page.step = 4 => c.do = "expired") /\ (~page.busy /\ ~page.failed => c.do = "expired")
  BY <1>2, <1>3 DEF Closed, OnlyExpired
<1>5. CASE c.do \in {"failed", "expired"} /\ page' = FailedPage(page)
  <2>1. GivenUp
    BY <1>2, <1>3, <1>5 DEF Closed, Abandoned, GivenUp, Final
  <2>2. /\ page' \in Pages /\ Sworn(page') /\ page'.sworn = page.sworn /\ page'.failed /\ page'.step = page.step
        /\ page'.back = page.back /\ page'.question = page.question
    BY <1>2, <1>5 DEF FailedPage, Pages, Sworn
  <2>3. \A d \in Items(Tail(posted)) : d.do \notin {"optionsDone", "applied"}
    BY <1>2, <1>3, <1>5 DEF Chained, OnlyExpired, Final
  <2>4. page.step = 4 => work.job = "none" /\ OnlyExpired(Tail(posted))
    BY <1>2, <1>3 DEF Closed, OnlyExpired
  <2>5. page.step \in {5, 6} => page.back \in {0, 1, 2, 3, 7} /\ ~Shown(Tail(posted))
    BY <1>2, <1>3 DEF Paged
  <2>6. page.step \in {5, 6} /\ st.slot # 0 => page.question = st.slot
    BY <1>2 DEF Paged
  <2>7. QED
    BY <1>1, <2>1, <2>2, <2>3, <2>4, <2>5, <2>6, LandInv
<1>6. CASE c.do = "show" /\ page' = [page EXCEPT !.back = page.step, !.step = c.step, !.question = c.question,
                                                 !.choice = 0, !.rows = [r \in Rows |-> 0]]
  <2>1. c.step \in {5, 6} /\ c.question \in Nat
    BY <1>2, <1>6 DEF Closures
  <2> DEFINE rows == [r \in Rows |-> 0]
  <2>2. rows \in [Rows -> 0 .. 2] /\ page.step \in 0 .. 7 /\ c.step \in 0 .. 7 /\ 0 \in 0 .. 2
    BY <1>2, <2>1 DEF Pages
  <2> HIDE DEF rows
  <2>3. page' = [page EXCEPT !.back = page.step, !.step = c.step, !.question = c.question, !.choice = 0, !.rows = rows]
    BY <1>6 DEF rows
  <2>4. /\ page' \in Pages /\ Sworn(page') /\ page'.sworn = page.sworn /\ page'.failed = page.failed
        /\ page'.step = c.step /\ page'.back = page.step /\ page'.question = c.question /\ page'.busy = page.busy
    <3>1. page' \in Pages
      BY <1>2, <2>1, <2>2, <2>3, QuestionFields
    <3>2. /\ page'.sworn = page.sworn /\ page'.failed = page.failed /\ page'.downgradeOk = page.downgradeOk
          /\ page'.downgradeNote = page.downgradeNote
          /\ page'.step = c.step /\ page'.back = page.step /\ page'.question = c.question /\ page'.busy = page.busy
      BY <1>2, <2>3 DEF Pages
    <3>3. QED
      BY <1>2, <3>1, <3>2 DEF Sworn
  <2>5. Shown(posted) /\ c \in Items(posted)
    BY <1>3, <1>6 DEF Shown
  <2>6. page.step \in {0, 1, 2, 3, 7}
    BY <1>2, <1>4, <1>6, <2>2, <2>5 DEF Paged
  <2>7. st.slot \in {0, c.question}
    BY <1>2, <1>6, <2>5 DEF Paged
  <2>8. \A d \in Items(Tail(posted)) : d.do \notin {"optionsDone", "applied"}
    BY <1>2, <1>3, <1>6 DEF Chained
  <2>9. page'.busy \/ page'.failed
    BY <1>4, <1>6, <2>4
  <2>10. QED
    BY <1>1, <1>2, <1>3, <1>6, <2>1, <2>4, <2>5, <2>6, <2>7, <2>8, <2>9, LandInv
<1>7. CASE c.do = "hide" /\ page' = IF page.step = c.step THEN [page EXCEPT !.step = page.back] ELSE page
  <2>1. c.step \in {5, 6} /\ page.back \in 0 .. 7
    BY <1>2, <1>7 DEF Closures, Pages
  <2>2. /\ page' \in Pages /\ Sworn(page') /\ page'.sworn = page.sworn /\ page'.failed = page.failed
        /\ page'.back = page.back /\ page'.question = page.question /\ page'.busy = page.busy
        /\ page'.step = IF page.step = c.step THEN page.back ELSE page.step
    BY <1>2, <1>7, <2>1 DEF Pages, Sworn
  <2>3. page.step \in {5, 6} => page.back \in {0, 1, 2, 3, 7} /\ ~Shown(Tail(posted))
    BY <1>2, <1>3 DEF Paged
  <2>4. page'.step # 4 /\ (page'.step \in {5, 6} => page'.step = page.step)
    BY <1>4, <1>7, <2>1, <2>2, <2>3
  <2>5. page'.step \in {5, 6} /\ st.slot # 0 => page'.question = st.slot
    BY <1>2, <2>2, <2>4 DEF Paged
  <2>6. page'.busy \/ page'.failed
    BY <1>4, <1>7, <2>2
  <2>7. (\E d \in Items(Tail(posted)) : d.do \in {"optionsDone", "applied"}) => ~page'.failed
    BY <1>2, <1>3, <2>2 DEF Chained
  <2>8. page.step # 4
    BY <1>4, <1>7
  <2>9. QED
    BY <1>1, <1>2, <1>7, <2>2, <2>3, <2>4, <2>5, <2>6, <2>7, <2>8, LandInv
<1>8. ASSUME Final(c), c.do # "failed", NEW q \in Pages, Sworn(q), q.sworn = page.sworn, SamePlace(q, page),
             NEW step \in {page.step, 2, 4}, NEW b \in BOOLEAN, NEW d \in BOOLEAN,
             \/ page' = [q EXCEPT !.busy = FALSE, !.step = step, !.canNext = b]
             \/ page' = [q EXCEPT !.busy = FALSE, !.canNext = b, !.releaseFailed = d]
             \/ page' = [q EXCEPT !.busy = FALSE, !.discovered = TRUE, !.ready = b]
      PROVE  IInv'
  <2>1. page' \in Pages
    <3>1. step \in 0 .. 7
      BY <1>2 DEF Pages
    <3>2. /\ [q EXCEPT !.busy = FALSE, !.step = step, !.canNext = b] \in Pages
          /\ [q EXCEPT !.busy = FALSE, !.canNext = b, !.releaseFailed = d] \in Pages
          /\ [q EXCEPT !.busy = FALSE, !.discovered = TRUE, !.ready = b] \in Pages
      BY <3>1, PageFields
    <3>3. QED
      BY <1>8, <3>2
  <2>2. /\ Sworn(page') /\ page'.sworn = page.sworn /\ ~page'.busy /\ page'.failed = page.failed
        /\ page'.step \in {page.step, 2, 4} /\ page'.back = page.back /\ page'.question = page.question
    <3>1. /\ page'.downgradeOk = q.downgradeOk /\ page'.sworn = q.sworn /\ page'.downgradeNote = q.downgradeNote
          /\ page'.back = q.back /\ page'.question = q.question /\ page'.failed = q.failed
      BY <1>8 DEF Pages
    <3>2. ~page'.busy /\ page'.step \in {q.step, step}
      BY <1>8 DEF Pages
    <3>3. QED
      BY <1>2, <1>8, <3>1, <3>2 DEF Sworn, SamePlace
  <2>3. QED
    BY <1>1, <1>8, <2>1, <2>2, LastInv
<1>9. Sworn(page) /\ SamePlace(page, page) /\ page.canNext \in BOOLEAN
  BY <1>2 DEF SamePlace, Pages
<1>10. CASE c.do = "looked" /\ LET judged == IF page.offline THEN page ELSE Confirmed(page, Note(c.release))
                                  found == c.release # NoRelease
                              IN page' = [Rest(judged) EXCEPT !.canNext = found \/ page.offline,
                                                              !.releaseFailed = ~found]
  <2> DEFINE judged == IF page.offline THEN page ELSE Confirmed(page, Note(c.release))
             b == c.release # NoRelease \/ page.offline
             d == ~(c.release # NoRelease)
  <2>1. Final(c) /\ c.do # "failed" /\ c.release \in Releases
    BY <1>2, <1>10 DEF Final, Closures
  <2>2. judged \in Pages /\ Sworn(judged) /\ judged.sworn = page.sworn /\ SamePlace(judged, page)
    BY <1>2, <1>9, <2>1, NoteRelease, ConfirmedPage
  <2>3. b \in BOOLEAN /\ d \in BOOLEAN
    BY <1>2 DEF Pages
  <2>4. page' = [judged EXCEPT !.busy = FALSE, !.canNext = b, !.releaseFailed = d]
    BY <1>10 DEF Rest
  <2> HIDE DEF judged, b, d
  <2>5. QED
    BY <1>8, <2>1, <2>2, <2>3, <2>4
<1>11. CASE c.do = "installed" /\ page' = IF Upgrading THEN Finish(Rest(page))
                                          ELSE [Rest(page) EXCEPT !.step = 2, !.canNext = TRUE]
  <2>1. \/ page' = [page EXCEPT !.busy = FALSE, !.step = 4, !.canNext = FALSE]
        \/ page' = [page EXCEPT !.busy = FALSE, !.step = 2, !.canNext = TRUE]
    BY <1>11 DEF Finish, Rest
  <2>2. Final(c) /\ c.do # "failed"
    BY <1>11 DEF Final
  <2>3. QED
    BY <1>2, <1>8, <1>9, <2>1, <2>2
<1>12. CASE c.do = "discovered" /\ \E ready \in BOOLEAN : page' = [Rest(page) EXCEPT !.discovered = TRUE, !.ready = ready]
  <2>1. PICK ready \in BOOLEAN : page' = [page EXCEPT !.busy = FALSE, !.discovered = TRUE, !.ready = ready]
    BY <1>12 DEF Rest
  <2>2. Final(c) /\ c.do # "failed"
    BY <1>12 DEF Final
  <2>3. QED
    BY <1>2, <1>8, <1>9, <2>1, <2>2
<1>13. CASE c.do \in {"notDone", "bundleAdded"} /\ page' = Rest(page)
  <2>1. page' = [page EXCEPT !.busy = FALSE, !.step = page.step, !.canNext = page.canNext]
    BY <1>2, <1>13 DEF Rest, Pages
  <2>2. Final(c) /\ c.do # "failed"
    BY <1>13 DEF Final
  <2>3. QED
    BY <1>2, <1>8, <1>9, <2>1, <2>2
<1>14. CASE c.do = "finished" /\ page' = Finish(Rest(page))
  <2>1. page' = [page EXCEPT !.busy = FALSE, !.step = 4, !.canNext = FALSE]
    BY <1>14 DEF Finish, Rest
  <2>2. Final(c) /\ c.do # "failed"
    BY <1>14 DEF Final
  <2>3. QED
    BY <1>2, <1>8, <1>9, <2>1, <2>2
<1>15. QED
  BY <1>5, <1>6, <1>7, <1>10, <1>11, <1>12, <1>13, <1>14 DEF Land, Shows
-----------------------------------------------------------------------------
(* A worker begun.                                                         *)

\* The event loop where a press or a closure begins the next worker: nobody is at work, no question is
\* about, and no line of the log was lost.
Ready ==
  /\ IInv /\ work.job = "none" /\ hand = NoHand /\ st.slot = 0 /\ ~Dropped /\ ~page.failed
  /\ page.step \in {0, 1, 2, 3, 7} /\ window = "open"
  /\ page \in Pages /\ Sworn(page) /\ st \in States /\ count \in Counts /\ disk \in Disks
Quiet(q) == q \in Seq(Closures) /\ Items(q) = {}

\* A worker that has just begun.
Begins(w) ==
  /\ w \in Workers /\ w.job \in Jobs /\ w.at = "begin" /\ w.question = 0 /\ w.mail = <<>> /\ w.why = "ok"
  /\ w.was = disk /\ (w.job = "instances" => w.left = 0)

LEMMA BeginStage == \A job \in Jobs : "begin" \in Stages(job)
<1> SUFFICES ASSUME NEW job \in Jobs PROVE "begin" \in Stages(job)
  OBVIOUS
<1>1. CASE job = "install"
  BY <1>1, InstallUpStages, InstallNewStages
<1>2. CASE job # "install"
  BY <1>2, ResourcesStages, OptionsStages, DiscoverStages, InstancesStages, ReleaseStages, BundleStages,
     SettleStages DEF Jobs
<1>3. QED
  BY <1>1, <1>2

LEMMA FreshWorker ==
  ASSUME disk \in Disks, NEW job \in Jobs
  PROVE  Begins(Worker(job)) /\ Worker(job).job = job /\ Worker(job).left = 0
<1> DEFINE w == Worker(job)
<1>1. "begin" \in Phases
  BY DEF Phases
<1>2. w = [NoWork EXCEPT !.job = job, !.at = "begin", !.was = disk] /\ NoWork \in Workers
  BY NobodyAtWork DEF Worker
<1>3. NoWork.question = 0 /\ NoWork.mail = <<>> /\ NoWork.why = "ok" /\ NoWork.left = 0
  BY DEF NoWork
<1> HIDE DEF w
<1>4. /\ w \in Workers /\ w.job = job /\ w.at = "begin" /\ w.question = 0 /\ w.mail = <<>> /\ w.why = "ok"
      /\ w.was = disk /\ w.left = 0
  BY <1>1, <1>2, <1>3 DEF Workers
<1>5. QED
  BY <1>4 DEF Begins, w

\* The worker of the options, of the resources and of an install, with what was chosen for it.
LEMMA TickedWorker ==
  ASSUME NEW w, Begins(w), NEW ticks \in SUBSET Files
  PROVE  Begins([w EXCEPT !.ticks = ticks]) /\ [w EXCEPT !.ticks = ticks].job = w.job
BY DEF Begins, Workers

LEMMA AskingWorker ==
  ASSUME NEW w, Begins(w), w.job # "instances", NEW left \in Nat
  PROVE  Begins([w EXCEPT !.left = left]) /\ [w EXCEPT !.left = left].job = w.job
BY DEF Begins, Workers

LEMMA InstallWorker ==
  ASSUME NEW w, Begins(w), w.job = "install", NEW release \in Releases, NEW left \in Nat
  PROVE  /\ Begins([w EXCEPT !.release = release, !.left = left])
         /\ [w EXCEPT !.release = release, !.left = left].job = "install"
         /\ [w EXCEPT !.release = release, !.left = left].release = release
BY DEF Begins, Workers

LEMMA BeginInv ==
  ASSUME Ready, NEW q, Quiet(q), posted' = q, UNCHANGED <<desk, hand, window, disk>>,
         page' \in Pages, Sworn(page'), page'.step \in {0, 1, 2, 3, 4, 7}, st' \in States, st'.slot = 0,
         Dropped' => page'.failed, count' \in Counts, count'.asked = count.asked,
         \/ work' = work
         \/ /\ Begins(work') /\ page'.busy /\ ~page'.failed /\ page'.step # 4
            /\ work'.job = "install" /\ Note(work'.release) # NoRelease => page'.sworn = work'.release
  PROVE  IInv'
<1>1. TypeOK /\ Asked /\ Ending /\ Untouched /\ IInv
  BY DEF Ready, IInv
<1>2. /\ Ordered(q) /\ OneShow(q) /\ OnlyExpired(q) /\ ~Shown(q) /\ ~\E c \in Items(q) : TRUE
  <2>1. \A i \in 1..Len(q) : FALSE
    BY DEF Quiet, Items
  <2>2. QED
    BY <2>1 DEF Quiet, Ordered, OneShow, OnlyExpired, Shown
<1>3. hand.question = 0 /\ work.question = 0 /\ work.mail = <<>> /\ work.at = "none" /\ count.asked \in Nat
  BY <1>1, NoQuestion, NobodyAtWork DEF Ready, NoHand, TypeOK, Counts
<1>4. work' = work \/ (work'.job # "none" /\ work'.why = "ok" /\ work'.job \in Jobs)
  BY DEF Begins, Jobs
<1>5. TypeOK'
  <2>1. page' \in Pages' /\ \A job \in Jobs \cup {"none"} : work'.job = job => work'.at \in Stages(job)'
    <3>1. CASE work' = work
      BY <1>1, <3>1, SameTypes DEF TypeOK
    <3>2. CASE Begins(work')
      BY <1>1, <3>2, SameTypes, BeginStage DEF Begins, Jobs
    <3>3. QED
      BY <3>1, <3>2
  <2>2. work' \in Workers
    BY <1>1 DEF Begins, TypeOK
  <2>3. QED
    BY <1>1, <2>1, <2>2 DEF TypeOK, Quiet
<1>6. Closed'
  BY <1>2 DEF Closed, Ready
<1>7. Abandoned'
  BY <1>2, <1>3 DEF Abandoned, GivenUp, Ready
<1>8. Chained'
  BY <1>2 DEF Chained
<1>9. Asked'
  <2>1. work'.question = 0 /\ work'.mail = <<>> /\ work'.at \notin {"wait", "over"}
    BY <1>3 DEF Begins
  <2>2. QED
    BY <1>3, <2>1 DEF Asked, Ready
<1>10. Paged'
  BY <1>2 DEF Paged, Shown
<1>11. Stopping'
  BY DEF Stopping
<1>12. Ending' /\ Untouched' /\ Begun'
  <2>1. CASE work' = work
    BY <1>1, <2>1 DEF IInv, Ending, Untouched, Begun
  <2>2. CASE Begins(work')
    BY <2>2 DEF Begins, Ending, Untouched, Begun, Ready
  <2>3. QED
    BY <2>1, <2>2
<1>13. Ticked'
  BY DEF Ticked, Sworn, Ready, Note, Upgrading
<1>14. QED
  BY <1>5, <1>6, <1>7, <1>8, <1>9, <1>10, <1>11, <1>12, <1>13 DEF IInv

\* The thread spawned, or refused and the run failed.
LEMMA SpawnInv ==
  ASSUME Ready, NEW q, Quiet(q), NEW w, Begins(w), NEW p \in Pages, Sworn(p), p.step \in {0, 1, 2, 3, 7}, ~p.failed,
         Spawn(w, p, q), UNCHANGED <<desk, hand, window, disk>>, st' \in States, st'.slot = 0, ~Dropped',
         w.job = "install" /\ Note(w.release) # NoRelease => p.sworn = w.release
  PROVE  IInv'
<1>1. count \in Counts /\ posted' = q
  BY DEF Ready, Spawn
<1>2. CASE page' = [p EXCEPT !.busy = TRUE] /\ work' = w /\ count' = [count EXCEPT !.begun = @ + 1]
  <2> DEFINE n == count.begun + 1
  <2>1. n \in Nat /\ count' = [count EXCEPT !.begun = n]
    BY <1>1, <1>2 DEF Counts
  <2> HIDE DEF n
  <2>2. count' \in Counts /\ count'.asked = count.asked
    BY <1>1, <2>1 DEF Counts
  <2>3. /\ page' \in Pages /\ Sworn(page') /\ page'.step = p.step /\ page'.busy /\ ~page'.failed
        /\ page'.sworn = p.sworn
    <3>0. page' = [p EXCEPT !.busy = TRUE]
      BY <1>2
    <3>1. page' \in Pages
      <4>1. TRUE \in BOOLEAN
        OBVIOUS
      <4>2. QED
        BY ONLY <3>0, <4>1, p \in Pages DEF Pages
    <3>2. /\ page'.downgradeOk = p.downgradeOk /\ page'.sworn = p.sworn
          /\ page'.downgradeNote = p.downgradeNote /\ page'.step = p.step /\ page'.busy
          /\ page'.failed = p.failed
      BY <3>0 DEF Pages
    <3>3. QED
      BY <3>1, <3>2 DEF Sworn
  <2>4. Begins(work') /\ (work'.job = "install" /\ Note(work'.release) # NoRelease => page'.sworn = work'.release)
    BY <1>2, <2>3
  <2>5. page'.step \in {0, 1, 2, 3, 4, 7} /\ page'.step # 4
    BY <2>3
  <2>6. QED
    BY <1>1, <2>2, <2>3, <2>4, <2>5, BeginInv
<1>3. CASE page' = FailedPage(p) /\ Spend(1) /\ UNCHANGED work
  <2>1. page' \in Pages /\ Sworn(page') /\ page'.step = p.step
    BY <1>3, FailedFields
  <2>2. QED
    BY <1>1, <1>3, <2>1, SpendTypes, BeginInv
<1>4. QED
  BY <1>2, <1>3 DEF Spawn

\* A line of the log lost on the event loop.
LEMMA LogLostInv ==
  ASSUME Ready, Quiet(posted), Spend(1), st' = [st EXCEPT !.lost = TRUE], page' = FailedPage(page),
         UNCHANGED <<work, posted, desk, hand, window, disk>>
  PROVE  IInv'
<1>1. page' \in Pages /\ Sworn(page') /\ page'.step = page.step /\ page'.failed
  BY FailedFields DEF Ready
<1>2. st' \in States /\ st'.slot = 0
  BY DEF States, Ready
<1>3. count \in Counts /\ page.step \in {0, 1, 2, 3, 7}
  BY DEF Ready
<1>4. QED
  BY <1>1, <1>2, <1>3, SpendTypes, BeginInv

\* A page changed, and nothing else.
LEMMA EditInv ==
  ASSUME Ready, Quiet(posted), page' \in Pages, Sworn(page'), page'.step \in {0, 1, 2, 3, 7},
         UNCHANGED <<st, work, posted, count, desk, hand, window, disk>>
  PROVE  IInv'
<1>1. st' \in States /\ st'.slot = 0 /\ ~Dropped' /\ count' \in Counts
  BY DEF Ready, Dropped
<1>2. QED
  BY <1>1, BeginInv

\* A press at rest finds the event loop ready, and nothing posted.
LEMMA AtRestReady ==
  ASSUME IInv, AtRest, page.step \in {0, 1, 2, 3, 7}
  PROVE  Ready /\ Quiet(posted)
<1>1. /\ TypeOK /\ Closed /\ Stopping /\ Ticked /\ window = "open" /\ hand = NoHand /\ ~page.failed /\ ~page.busy
      /\ \A i \in DOMAIN posted : posted[i].do # "expired"
  BY DEF IInv, AtRest, Person, Loop
<1>2. work.job = "none" /\ OnlyExpired(posted) /\ posted \in Seq(Closures)
  BY <1>1 DEF Closed, TypeOK
<1>3. Items(posted) = {}
  BY <1>1, <1>2 DEF OnlyExpired, Items
<1>4. st.slot = 0
  BY <1>2, NoQuestion
<1>5. ~Dropped
  BY <1>1, <1>2, <1>3 DEF Stopping
<1>6. QED
  BY <1>1, <1>2, <1>3, <1>4, <1>5 DEF Ready, Quiet, TypeOK, Ticked, Sworn

\* A closure that begins the next worker finds it ready too.
LEMMA LandReady ==
  ASSUME IInv, Loop, posted # <<>>, Head(posted).do \in {"optionsDone", "applied"}
  PROVE  Ready /\ Quiet(Tail(posted))
<1>1. TypeOK /\ Closed /\ Stopping /\ Ticked /\ Chained /\ window = "open" /\ hand = NoHand
  BY DEF IInv, Loop
<1>2. /\ Items(posted) = {Head(posted)} \cup Items(Tail(posted)) /\ OnlyExpired(Tail(posted))
      /\ Tail(posted) \in Seq(Closures) /\ Final(Head(posted))
  BY <1>1, Taken DEF TypeOK, Closed, Final
<1>3. work.job = "none" /\ page.step # 4
  BY <1>1, <1>2 DEF Closed, OnlyExpired
<1>4. ~page.failed /\ page.step \notin {5, 6} /\ Items(Tail(posted)) = {}
  BY <1>1, <1>2 DEF Chained, OnlyExpired
<1>5. st.slot = 0
  BY <1>3, NoQuestion
<1>6. ~Dropped
  BY <1>1, <1>2, <1>3, <1>4 DEF Stopping
<1>7. page.step \in {0, 1, 2, 3, 7}
  BY <1>1, <1>3, <1>4 DEF TypeOK, Pages
<1>8. QED
  BY <1>1, <1>2, <1>3, <1>4, <1>5, <1>6, <1>7 DEF Ready, Quiet, TypeOK, Ticked, Sworn
-----------------------------------------------------------------------------
(* The presses.                                                            *)

\* The constants' side of the pages and workers.
LEMMA DeskTyped ==
  ASSUME IInv
  PROVE  /\ desk.carried \in Releases /\ desk.asks \in Nat /\ desk.folder \subseteq Releases
         /\ NoRelease \in Releases
BY WizardAssumption DEF IInv, TypeOK, DeskTypes, Releases

\* A press begins a worker with nothing chosen for it.
LEMMA PlainSpawn ==
  ASSUME Ready, NEW q, Quiet(q), NEW job \in Jobs, job # "install", NEW p \in Pages, Sworn(p),
         p.step \in {0, 1, 2, 3, 7}, ~p.failed, Spawn(Worker(job), p, q),
         UNCHANGED <<desk, hand, window, disk>>, st' \in States, st'.slot = 0, ~Dropped'
  PROVE  IInv'
<1>1. Begins(Worker(job)) /\ Worker(job).job = job
  <2>1. disk \in Disks
    BY DEF Ready
  <2>2. QED
    BY <2>1, FreshWorker
<1>2. QED
  BY <1>1, SpawnInv

LEMMA FindReleaseInv ==
  ASSUME Ready, Quiet(posted), NEW p \in Pages, Sworn(p), p.step \in {0, 1, 2, 3, 7}, ~p.failed, FindRelease(p),
         UNCHANGED <<desk, hand, window, disk>>
  PROVE  IInv'
<1> DEFINE r == [p EXCEPT !.canNext = FALSE, !.releaseFailed = FALSE]
<1>1. Spawn(Worker("release"), r, posted) /\ UNCHANGED st
  BY DEF FindRelease
<1>2. r \in Pages /\ Sworn(r) /\ r.step = p.step /\ ~r.failed
  BY DEF Pages, Sworn
<1> HIDE DEF r
<1>3. "release" \in Jobs /\ st' \in States /\ st'.slot = 0 /\ ~Dropped'
  BY <1>1 DEF Jobs, Ready, Dropped
<1>4. QED
  BY <1>1, <1>2, <1>3, PlainSpawn

LEMMA OfflineToggledInv ==
  ASSUME Ready, Quiet(posted), NEW p \in Pages, Sworn(p), p.step \in {0, 1, 2, 3, 7}, ~p.failed, OfflineToggled(p),
         UNCHANGED <<desk, hand, window, disk>>
  PROVE  IInv'
<1> DEFINE note == IF p.offline THEN NoRelease ELSE Note(st.release)
           judged == Confirmed(p, note)
<1>1. note \in Releases
  <2>1. st.release \in Releases /\ NoRelease \in Releases
    BY DeskTyped DEF Ready, States
  <2>2. QED
    BY <2>1, NoteRelease
<1>2. \/ page' = [judged EXCEPT !.canNext = TRUE] /\ UNCHANGED <<st, work, posted, count>>
      \/ FindRelease(judged)
  BY DEF OfflineToggled
<1> HIDE DEF note
<1>3. judged \in Pages /\ SamePlace(judged, p) /\ Sworn(judged)
  BY <1>1, ConfirmedPage
<1> HIDE DEF judged
<1>4. judged.step \in {0, 1, 2, 3, 7} /\ ~judged.failed
  BY <1>3 DEF SamePlace
<1>5. CASE FindRelease(judged)
  BY <1>3, <1>4, <1>5, FindReleaseInv
<1>6. CASE page' = [judged EXCEPT !.canNext = TRUE] /\ UNCHANGED <<st, work, posted, count>>
  <2>1. page' \in Pages /\ Sworn(page') /\ page'.step = judged.step
    BY <1>3, <1>6 DEF Pages, Sworn
  <2>2. QED
    BY <1>4, <1>6, <2>1, EditInv
<1>7. QED
  BY <1>2, <1>5, <1>6

\* The first page, and a press that logs before it begins.
LEMMA EnterInv ==
  ASSUME Ready, Quiet(posted), EnterGet \/ EnterResources, UNCHANGED <<desk, hand, window, disk>>
  PROVE  IInv'
<1>1. page \in Pages /\ Sworn(page) /\ ~page.failed
  BY DEF Ready
<1>2. CASE Spend(1) /\ st' = [st EXCEPT !.lost = TRUE] /\ page' = FailedPage(page) /\ UNCHANGED <<work, posted>>
  BY <1>2, LogLostInv
<1>3. CASE page' = [page EXCEPT !.step = 7, !.canNext = TRUE] /\ UNCHANGED <<st, work, posted, count>>
  <2>1. page' \in Pages /\ Sworn(page') /\ page'.step = 7
    BY <1>1, <1>3, StepFields
  <2>2. QED
    BY <1>3, <2>1, EditInv
<1> DEFINE p == [page EXCEPT !.step = 1]
<1>4. p \in Pages /\ Sworn(p) /\ p.step = 1 /\ ~p.failed
  BY <1>1 DEF Pages, Sworn
<1> HIDE DEF p
<1>5. CASE page' = [Confirmed(p, Note(desk.carried)) EXCEPT !.canNext = TRUE] /\ UNCHANGED <<st, work, posted, count>>
  <2> DEFINE judged == Confirmed(p, Note(desk.carried))
  <2>1. judged \in Pages /\ SamePlace(judged, p) /\ Sworn(judged)
    BY <1>4, DeskTyped, NoteRelease, ConfirmedPage DEF Ready
  <2>2. page' = [judged EXCEPT !.canNext = TRUE]
    BY <1>5
  <2> HIDE DEF judged
  <2>3. page' \in Pages /\ Sworn(page') /\ page'.step = 1
    BY <1>4, <2>1, <2>2 DEF Pages, Sworn, SamePlace
  <2>4. QED
    BY <1>5, <2>3, EditInv
<1>6. CASE OfflineToggled(p)
  BY <1>4, <1>6, OfflineToggledInv
<1>7. QED
  BY <1>2, <1>3, <1>5, <1>6 DEF EnterGet, EnterResources, Logs, p

LEMMA BeginInstallInv ==
  ASSUME Ready, Quiet(posted), BeginInstall, UNCHANGED <<desk, hand, window, disk>>
  PROVE  IInv'
<1> DEFINE release == IF desk.carried # NoRelease THEN desk.carried
                      ELSE IF page.offline THEN page.folder ELSE st.release
           judged == Confirmed(page, Note(release))
           r == [judged EXCEPT !.installing = TRUE, !.canNext = FALSE]
           w == [Worker("install") EXCEPT !.release = release, !.left = desk.asks]
           begins == Spawn(w, r, posted) /\ UNCHANGED st
<1>1. \/ page' = judged /\ UNCHANGED <<st, work, posted, count>>
      \/ MayGoOn(judged) /\ (begins \/ Logs(begins))
  BY DEF BeginInstall
<1>2. release \in Releases
  BY DeskTyped DEF Ready, Pages, States
<1> HIDE DEF release
<1>3. Note(release) \in Releases /\ Note(release) \in {release, NoRelease}
  BY <1>2, NoteRelease
<1>4. judged \in Pages /\ SamePlace(judged, page) /\ Sworn(judged) /\ judged.downgradeNote = Note(release)
  BY <1>3, ConfirmedPage DEF Ready
<1> HIDE DEF judged
<1>5. judged.step \in {0, 1, 2, 3, 7} /\ ~judged.failed
  BY <1>4 DEF SamePlace, Ready
<1>6. CASE page' = judged /\ UNCHANGED <<st, work, posted, count>>
  BY <1>4, <1>5, <1>6, EditInv
<1>7. Begins(w) /\ w.job = "install" /\ w.release = release
  <2>1. disk \in Disks /\ desk.asks \in Nat /\ "install" \in Jobs
    BY DeskTyped DEF Ready, Jobs
  <2>2. QED
    <3>1. Begins(Worker("install")) /\ Worker("install").job = "install"
      BY <2>1, FreshWorker
    <3>2. \A any \in Releases, left \in Nat :
             /\ Begins([Worker("install") EXCEPT !.release = any, !.left = left])
             /\ [Worker("install") EXCEPT !.release = any, !.left = left].job = "install"
             /\ [Worker("install") EXCEPT !.release = any, !.left = left].release = any
      BY <3>1, InstallWorker
    <3>3. QED
      BY <1>2, <2>1, <3>2
<1> HIDE DEF w
<1>8. r \in Pages /\ Sworn(r) /\ r.step = judged.step /\ r.sworn = judged.sworn /\ ~r.failed
  BY <1>4, <1>5 DEF Pages, Sworn
<1> HIDE DEF r
<1>9. ASSUME MayGoOn(judged), begins PROVE IInv'
  <2>1. Note(release) # NoRelease => r.sworn = release
    BY <1>3, <1>4, <1>8, <1>9 DEF MayGoOn, Sworn
  <2>2. st' \in States /\ st'.slot = 0 /\ ~Dropped'
    BY <1>9 DEF Ready, Dropped
  <2>3. QED
    BY <1>5, <1>7, <1>8, <1>9, <2>1, <2>2, SpawnInv
<1>10. CASE MayGoOn(judged) /\ Logs(begins)
  BY <1>9, <1>10, LogLostInv DEF Logs
<1>11. QED
  BY <1>1, <1>6, <1>9, <1>10

LEMMA SettleAndFinishInv ==
  ASSUME Ready, NEW q, Quiet(q), SettleAndFinish(page, q), UNCHANGED <<desk, hand, window, disk>>
  PROVE  IInv'
<1>1. page \in Pages /\ Sworn(page) /\ page.step \in {0, 1, 2, 3, 7} /\ ~page.failed /\ UNCHANGED st
      /\ st' \in States /\ st'.slot = 0 /\ ~Dropped' /\ count \in Counts
  BY DEF Ready, SettleAndFinish, Dropped
<1>2. CASE Spawn(Worker("settle"), page, q)
  BY <1>1, <1>2, PlainSpawn DEF Jobs
<1>3. CASE page' = Finish(page) /\ posted' = q /\ UNCHANGED <<work, count>>
  <2>1. page' \in Pages /\ Sworn(page') /\ page'.step = 4
    BY <1>1, <1>3, StepFields DEF Finish
  <2>2. QED
    BY <1>1, <1>3, <2>1, BeginInv
<1>4. QED
  BY <1>2, <1>3 DEF SettleAndFinish

LEMMA BeginDiscoverInv ==
  ASSUME Ready, NEW q, Quiet(q), NEW p \in Pages, Sworn(p), p.step \in {0, 1, 2, 3, 7}, ~p.failed, BeginDiscover(p, q),
         UNCHANGED <<desk, hand, window, disk>>
  PROVE  IInv'
<1> DEFINE r == [p EXCEPT !.discovered = FALSE, !.ready = FALSE]
<1>1. Spawn(Worker("discover"), r, q) /\ st' = [st EXCEPT !.discoverTried = TRUE]
  BY DEF BeginDiscover
<1>2. r \in Pages /\ Sworn(r) /\ r.step = p.step /\ ~r.failed
  BY DEF Pages, Sworn
<1> HIDE DEF r
<1>3. "discover" \in Jobs /\ st' \in States /\ st'.slot = 0 /\ ~Dropped'
  BY <1>1 DEF Jobs, Ready, States, Dropped
<1>4. QED
  BY <1>1, <1>2, <1>3, PlainSpawn

LEMMA NextPressedInv ==
  ASSUME IInv, NextPressed
  PROVE  IInv'
<1>1. /\ AtRest /\ page.step \in {0, 1, 2, 3, 7} /\ UNCHANGED <<desk, hand, window, disk>>
      /\ EnterGet \/ EnterResources \/ BeginInstall \/ ApplyOptions \/ BeginApply \/ BeginResources
  BY DEF NextPressed
<1>2. Ready /\ Quiet(posted)
  BY <1>1, AtRestReady
<1>3. page \in Pages /\ Sworn(page) /\ ~page.failed /\ disk \in Disks /\ st \in States /\ ~Dropped /\ st.slot = 0
  BY <1>2 DEF Ready
<1>4. desk.asks \in Nat /\ page.ticks \in SUBSET Files /\ NoRelease \in Releases
  BY <1>3, DeskTyped DEF Pages
<1>5. CASE EnterGet \/ EnterResources
  BY <1>1, <1>2, <1>5, EnterInv
<1>6. CASE BeginInstall
  BY <1>1, <1>2, <1>6, BeginInstallInv
<1>7. CASE ApplyOptions
  <2> DEFINE w == [Worker("options") EXCEPT !.ticks = page.ticks]
  <2>1. Begins(w) /\ w.job = "options"
    <3>1. Begins(Worker("options")) /\ Worker("options").job = "options"
      BY <1>3, FreshWorker DEF Jobs
    <3>2. QED
      BY <1>4, <3>1, TickedWorker
  <2>2. Spawn(w, page, posted) /\ UNCHANGED st
    BY <1>7 DEF ApplyOptions
  <2> HIDE DEF w
  <2>3. QED
    BY <1>1, <1>2, <1>3, <2>1, <2>2, SpawnInv DEF Dropped
<1>8. CASE BeginApply
  BY <1>1, <1>2, <1>3, <1>8, PlainSpawn DEF BeginApply, Jobs, Dropped
<1>9. CASE BeginResources
  <2> DEFINE w == [Worker("resources") EXCEPT !.left = desk.asks]
             r == [page EXCEPT !.canNext = FALSE]
  <2>1. Begins(w) /\ w.job = "resources"
    <3>1. Begins(Worker("resources")) /\ Worker("resources").job = "resources"
      BY <1>3, FreshWorker DEF Jobs
    <3>2. QED
      BY <1>4, <3>1, AskingWorker
  <2>2. r \in Pages /\ Sworn(r) /\ r.step = page.step /\ ~r.failed
    <3>1. page \in Pages
      BY <1>3
    <3>2. r \in Pages
      BY <3>1 DEF Pages
    <3>3. /\ r.downgradeOk = page.downgradeOk /\ r.sworn = page.sworn /\ r.downgradeNote = page.downgradeNote
          /\ r.step = page.step /\ r.failed = page.failed
      BY <3>1 DEF Pages
    <3>4. QED
      BY <1>3, <3>2, <3>3 DEF Sworn
  <2>3. Spawn(w, r, posted) /\ UNCHANGED st
    BY <1>9 DEF BeginResources
  <2> HIDE DEF w, r
  <2>4. QED
    BY <1>1, <1>2, <1>3, <2>1, <2>2, <2>3, SpawnInv DEF Dropped
<1>10. QED
  BY <1>1, <1>5, <1>6, <1>7, <1>8, <1>9

LEMMA EditsInv ==
  ASSUME IInv, Edits
  PROVE  IInv'
<1>1. AtRest /\ page.step \in {1, 2, 3} /\ UNCHANGED <<desk, hand, window, disk>>
  BY DEF Edits
<1>2. Ready /\ Quiet(posted)
  BY <1>1, AtRestReady
<1>3. page \in Pages /\ Sworn(page) /\ ~page.failed
  BY <1>2 DEF Ready
<1>4. ASSUME page' \in Pages, Sworn(page'), page'.step = page.step, UNCHANGED <<st, work, posted, count>> PROVE IInv'
  BY <1>1, <1>2, <1>4, EditInv
<1>5. CASE OfflineToggled([page EXCEPT !.offline = ~@])
  <2> DEFINE p == [page EXCEPT !.offline = ~@]
  <2>1. p \in Pages /\ Sworn(p) /\ p.step = page.step /\ ~p.failed
    BY <1>3 DEF Pages, Sworn
  <2>2. OfflineToggled(p)
    BY <1>5
  <2> HIDE DEF p
  <2>3. QED
    BY <1>1, <1>2, <2>1, <2>2, OfflineToggledInv
<1>6. ASSUME NEW release \in desk.folder, UNCHANGED <<st, work, posted, count>>,
             page' = [page EXCEPT !.folder = release, !.downgradeNote = NoRelease, !.downgradeOk = FALSE]
      PROVE  IInv'
  <2>1. release \in Releases /\ NoRelease \in Releases
    BY DeskTyped
  <2>2. page' \in Pages /\ Sworn(page') /\ page'.step = page.step
    BY <1>3, <1>6, <2>1 DEF Pages, Sworn
  <2>3. QED
    BY <1>4, <1>6, <2>2
<1>7. CASE /\ page' = [page EXCEPT !.downgradeOk = ~@,
                                   !.sworn = IF page.downgradeOk THEN NoRelease ELSE page.downgradeNote]
           /\ UNCHANGED <<st, work, posted, count>>
  <2> DEFINE sworn == IF page.downgradeOk THEN NoRelease ELSE page.downgradeNote
  <2>1. sworn \in Releases
    BY <1>3, DeskTyped DEF Pages
  <2>2. page' = [page EXCEPT !.downgradeOk = ~page.downgradeOk, !.sworn = sworn] /\ page.downgradeOk \in BOOLEAN
        /\ (~page.downgradeOk => sworn = page.downgradeNote)
    BY <1>3, <1>7 DEF Pages
  <2> HIDE DEF sworn
  <2>3. page' \in Pages /\ Sworn(page') /\ page'.step = page.step
    BY <1>3, <2>1, <2>2 DEF Pages, Sworn
  <2>4. QED
    BY <1>4, <1>7, <2>3
<1>8. ASSUME NEW f \in Files, page' = [page EXCEPT !.ticks = (@ \ {f}) \cup ({f} \ @)], UNCHANGED <<st, work, posted, count>>
      PROVE  IInv'
  <2> DEFINE ticks == (page.ticks \ {f}) \cup ({f} \ page.ticks)
  <2>1. ticks \in SUBSET Files /\ page' = [page EXCEPT !.ticks = ticks]
    BY <1>3, <1>8 DEF Pages
  <2> HIDE DEF ticks
  <2>2. page' \in Pages /\ Sworn(page') /\ page'.step = page.step
    BY <1>3, <2>1 DEF Pages, Sworn
  <2>3. QED
    BY <1>4, <1>8, <2>2
<1>9. CASE page' = [page EXCEPT !.ready = TRUE] /\ UNCHANGED <<st, work, posted, count>>
  <2>1. page' \in Pages /\ Sworn(page') /\ page'.step = page.step
    BY <1>3, <1>9 DEF Pages, Sworn
  <2>2. QED
    BY <1>4, <1>9, <2>1
<1>10. QED
  BY <1>5, <1>6, <1>7, <1>8, <1>9 DEF Edits

LEMMA PressInv ==
  ASSUME IInv, RetryRelease \/ Discover \/ AddBundle \/ SkipInstances
  PROVE  IInv'
<1>1. AtRest /\ page.step \in {1, 3} /\ UNCHANGED <<desk, hand, window, disk>>
  BY DEF RetryRelease, Discover, AddBundle, SkipInstances
<1>2. Ready /\ Quiet(posted)
  BY <1>1, AtRestReady
<1>3. page \in Pages /\ Sworn(page) /\ ~page.failed /\ st \in States /\ ~Dropped /\ st.slot = 0
  BY <1>2 DEF Ready
<1>4. CASE RetryRelease
  BY <1>1, <1>2, <1>3, <1>4, FindReleaseInv DEF RetryRelease
<1>5. CASE Discover
  BY <1>1, <1>2, <1>3, <1>5, BeginDiscoverInv DEF Discover
<1>6. CASE AddBundle
  BY <1>1, <1>2, <1>3, <1>6, PlainSpawn DEF AddBundle, BeginAddBundle, Jobs, Dropped
<1>7. CASE SkipInstances
  BY <1>1, <1>2, <1>7, SettleAndFinishInv, LogLostInv DEF SkipInstances, Logs
<1>8. QED
  BY <1>1, <1>4, <1>5, <1>6, <1>7

LEMMA LandAndBeginInv ==
  ASSUME IInv, LandAndBegin
  PROVE  IInv'
<1>1. /\ Loop /\ posted # <<>> /\ Head(posted).do \in {"optionsDone", "applied"}
      /\ UNCHANGED <<desk, hand, window, disk>>
  BY DEF LandAndBegin
<1>2. Ready /\ Quiet(Tail(posted))
  BY <1>1, LandReady
<1> DEFINE p == [Rest(page) EXCEPT !.step = 3, !.canNext = TRUE]
<1>3. p \in Pages /\ Sworn(p) /\ p.step = 3 /\ ~p.failed
  BY <1>2, StepFields DEF Ready
<1>4. BeginDiscover(p, Tail(posted)) \/ SettleAndFinish(page, Tail(posted))
  BY DEF LandAndBegin
<1> HIDE DEF p
<1>5. QED
  BY <1>1, <1>2, <1>3, <1>4, BeginDiscoverInv, SettleAndFinishInv
-----------------------------------------------------------------------------
(* The invariant of every behaviour, and what it says.                     *)

LEMMA InitInv == Init => IInv
<1> SUFFICES ASSUME Init PROVE IInv
  OBVIOUS
<1>1. /\ desk \in Desks /\ work = NoWork /\ posted = <<>> /\ hand = NoHand /\ window = "open"
      /\ count = [mishaps |-> 0, asked |-> 0, begun |-> 0]
  BY DEF Init
<1>2. /\ page \in Pages /\ page.step = 0 /\ ~page.failed /\ ~page.downgradeOk
  <2>1. NoRelease \in Releases /\ {"menu"} \in SUBSET Files
    BY DEF Releases, Files
  <2>2. QED
    BY <2>1 DEF Init, Pages
<1>3. st \in States /\ ~Dropped /\ st.slot = 0
  <2>1. NoRelease \in Releases /\ {} \in SUBSET Files
    BY DEF Releases
  <2>2. QED
    BY <2>1 DEF Init, States, Dropped
<1>4. disk \in Disks
  BY DEF Init, Disks
<1>5. NoHand \in Hands /\ NoHand.question = 0 /\ count \in Counts
  BY <1>1 DEF NoHand, Hands, Answers, Counts
<1>6. /\ work \in Workers /\ work.job = "none" /\ work.at = "none" /\ work.question = 0 /\ work.mail = <<>>
      /\ work.why = "ok"
  BY <1>1, NobodyAtWork DEF NoWork
<1>7. posted \in Seq(Closures) /\ ~\E c \in Items(posted) : TRUE
  BY <1>1 DEF Items
<1>8. Ordered(posted) /\ OneShow(posted)
  BY <1>1 DEF Ordered, OneShow
<1>9. TypeOK
  BY <1>1, <1>2, <1>3, <1>4, <1>5, <1>6, <1>7, NobodyAtWork DEF TypeOK
<1>10. Closed /\ Abandoned /\ Chained
  BY <1>1, <1>2, <1>5, <1>6, <1>7, <1>8 DEF Closed, Abandoned, Chained, OnlyExpired
<1>11. Asked /\ Paged
  BY <1>1, <1>2, <1>3, <1>5, <1>6, <1>7, <1>8 DEF Asked, Paged, Shown
<1>12. Ending /\ Stopping /\ Untouched /\ Begun /\ Ticked
  BY <1>2, <1>3, <1>6 DEF Ending, Stopping, Untouched, Begun, Ticked, Early
<1>13. QED
  BY <1>9, <1>10, <1>11, <1>12 DEF IInv

LEMMA NextInv == IInv /\ [Next]_vars => IInv'
<1> SUFFICES ASSUME IInv, [Next]_vars PROVE IInv'
  OBVIOUS
<1>1. CASE Presses
  <2>1. CASE NextPressed \/ Edits \/ RetryRelease \/ Discover \/ AddBundle \/ SkipInstances
    BY <2>1, NextPressedInv, EditsInv, PressInv
  <2>2. CASE \E accepted \in BOOLEAN : Decide(accepted)
    BY <2>2, DecideInv
  <2>3. CASE \/ \E choice \in 1 .. 2 : Choose(choice)
             \/ \E row \in Rows, side \in 1 .. 2 : ConflictToggle(row, side)
             \/ \E side \in 1 .. 2 : ConflictHeaderToggle(side)
    BY <2>3, BoxesInv
  <2>4. CASE CloseRequested \/ CloseWizard \/ OpenConsole
    BY <2>4, ClosingInv
  <2>5. QED
    BY <1>1, <2>1, <2>2, <2>3, <2>4 DEF Presses
<1>2. CASE LoopSteps
  BY <1>2, SendInv, LandsInv, LandAndBeginInv DEF LoopSteps
<1>3. CASE Leaves
  BY <1>3, ClosingInv
<1>4. CASE WorkerSteps
  BY <1>4, WorkerInv
<1>5. CASE UNCHANGED vars
  <2>1. page' \in Pages /\ SamePlace(page', page) /\ st' \in States /\ count' \in Counts
    BY <1>5 DEF IInv, TypeOK, vars, SamePlace
  <2>2. Ticked'
    BY <1>5 DEF IInv, vars, Ticked, Note, Upgrading
  <2>3. QED
    BY <1>5, <2>1, <2>2, PageInv DEF vars, Dropped
<1>6. QED
  BY <1>1, <1>2, <1>3, <1>4, <1>5 DEF Next

LEMMA Invariance == Spec => []IInv
<1>1. QED
  BY InitInv, NextInv, PTL DEF Spec

\* Whatever is pressed and whatever fails, the window, the worker and the closures between them hold
\* what they are meant to hold.
THEOREM TypesHold == Spec => []TypeOK
<1>1. IInv => TypeOK
  BY DEF IInv
<1>2. QED
  BY <1>1, Invariance, PTL

\* The answer a worker takes is the one given on the page of its own question (main.rs decide and ask),
\* for any number of questions.
THEOREM AnswersOfTheirQuestions == Spec => []AnswerIsOfItsQuestion
<1>1. IInv => AnswerIsOfItsQuestion
  BY DEF IInv, Asked, AnswerIsOfItsQuestion
<1>2. QED
  BY <1>1, Invariance, PTL

\* The window goes under a held worker only from the failure page, where the worker has given up
\* (close_requested and close_wizard).
THEOREM LetGoOnlyByTheFailed == Spec => []LetGoOnlyWhenGivenUp
<1>1. IInv => LetGoOnlyWhenGivenUp
  BY DEF IInv, Abandoned, GivenUp, LetGoOnlyWhenGivenUp
<1>2. QED
  BY <1>1, Invariance, PTL

\* A plan cancelled or left half an hour has changed nothing on the disk (setup.slint's Cancel).
THEOREM CancelledLeavesAll == Spec => []CancelChangesNothing
<1>1. IInv => CancelChangesNothing
  BY DEF IInv, Untouched, CancelChangesNothing
<1>2. QED
  BY <1>1, Invariance, PTL

-----------------------------------------------------------------------------
(* Where a loss leaves the run that no worker failed for.                  *)

\* What the workers of the instances page leave for the event loop.
Tellable == {"failed", "expired", "notDone", "discovered", "bundleAdded", "finished"}

\* A discovery, and what is known after it of the bundles, is of the instances page.
OnInstances ==
  work.job = "discover" \/ st.problems =>
    /\ page.step \in {3, 4} /\ work.job \in {"none", "discover", "bundle", "settle"}
    /\ \A c \in Items(posted) : c.do \in Tellable

LEMMA StillOn ==
  ASSUME OnInstances, page'.step = page.step, work'.job \in {work.job, "none"},
         st'.problems => st.problems \/ work.job = "discover",
         work.job \in {"none", "discover", "bundle", "settle"} =>
             \A c \in Items(posted') : c \in Items(posted) \/ c.do \in Tellable
  PROVE  OnInstances'
BY DEF OnInstances

\* What a worker leaves is added to what was left.
LEMMA LeftBehind ==
  ASSUME IInv, NEW c \in Closures, posted' = posted \o <<c>>
  PROVE  Items(posted') = Items(posted) \cup {c}
BY Added DEF IInv, TypeOK

\* The jobs of the instances page leave nothing else.
LEMMA WorkerLeaves ==
  ASSUME IInv, WorkerSteps, work.job \in {"discover", "bundle", "settle"}
  PROVE  \A c \in Items(posted') : c \in Items(posted) \/ c.do \in Tellable
<1>1. /\ work.job \in Jobs /\ work.at \in Stages(work.job) /\ work.at # "none" /\ work.job # "none"
      /\ work.at \notin {"look", "ask", "resolve", "wait", "over", "restart", "keep"}
  <2>1. work.job \in Jobs /\ work.at \in Stages(work.job)
    BY DEF IInv, TypeOK, Jobs
  <2>2. QED
    BY <2>1, DiscoverStages, BundleStages, SettleStages
<1>2. ASSUME NEW do \in Tellable, EndsWith(<<[do |-> do]>>)
      PROVE  \A c \in Items(posted') : c \in Items(posted) \/ c.do \in Tellable
  <2> DEFINE c == [do |-> do]
  <2>1. c \in Closures /\ c.do = do /\ posted' = posted \o <<c>>
    BY <1>2, OtherClosures DEF Tellable, EndsWith, Post
  <2> HIDE DEF c
  <2>2. Items(posted') = Items(posted) \cup {c}
    BY <2>1, LeftBehind
  <2>3. QED
    BY <2>1, <2>2
<1>3. ASSUME EndsWith(<<Failed>>)
      PROVE  \A c \in Items(posted') : c \in Items(posted) \/ c.do \in Tellable
  BY <1>2, <1>3 DEF Failed, Tellable
<1>4. CASE UNCHANGED posted
  BY <1>4
<1>5. CASE Works \/ Breaks \/ TimesOut \/ TakeBack \/ WriteOption \/ Pin \/ Restore \/ Settle
  BY <1>4, <1>5 DEF Works, Breaks, TimesOut, TakeBack, WriteOption, Pin, Restore, Settle
<1>6. CASE LockRefused \/ Panics
  BY <1>3, <1>6 DEF LockRefused, Panics
<1>7. CASE Look \/ Ask \/ Resolve \/ Receive \/ Expire \/ KeepOptions \/ Restart
  BY <1>1, <1>7 DEF Look, Ask, Resolve, Receive, Expire, KeepOptions, Restart
<1>8. CASE ReadBundles
  <2>1. EndsWith(<<[do |-> "discovered"]>>) \/ UNCHANGED posted \/ EndsWith(<<Failed>>)
    BY <1>8 DEF ReadBundles
  <2>2. QED
    BY <1>2, <1>3, <1>4, <2>1 DEF Tellable
<1>9. CASE ReadBundle
  <2>1. EndsWith(<<[do |-> "bundleAdded"]>>) \/ UNCHANGED posted
    BY <1>9 DEF ReadBundle
  <2>2. QED
    BY <1>2, <1>4, <2>1 DEF Tellable
<1>10. CASE Retry
  <2>1. EndsWith(<<[do |-> "notDone"]>>) \/ EndsWith(<<Failed>>)
    BY <1>10 DEF Retry, Retryable
  <2>2. QED
    BY <1>2, <1>3, <2>1 DEF Tellable
<1>11. CASE Clean
  <2>1. EndsWith(<<[do |-> "finished"]>>) \/ EndsWith(<<Failed>>) \/ UNCHANGED posted
    BY <1>1, <1>11 DEF Clean
  <2>2. QED
    BY <1>2, <1>3, <1>4, <2>1 DEF Tellable
<1>12. CASE Told
  <2>1. EndsWith(<<[do |-> "finished"]>>) \/ EndsWith(<<Failed>>)
    BY <1>12 DEF Told
  <2>2. QED
    BY <1>2, <1>3, <2>1 DEF Tellable
<1>13. QED
  BY <1>5, <1>6, <1>7, <1>8, <1>9, <1>10, <1>11, <1>12 DEF WorkerSteps

\* A worker's step keeps its page, its job or nobody at work, and what is known of the bundles but
\* where they are read.
LEMMA WorkerStays ==
  ASSUME IInv, WorkerSteps
  PROVE  /\ page' = page /\ work'.job \in {work.job, "none"} /\ work.job # "none"
         /\ st'.problems => st.problems \/ work.job = "discover"
<1>1. work \in Workers /\ st \in States /\ Alive /\ page' = page
  BY DEF IInv, TypeOK, WorkerSteps, Works, Breaks, LockRefused, Panics, Look, Ask, Resolve, Receive, TimesOut,
     Expire, TakeBack, WriteOption, KeepOptions, Pin, ReadBundles, ReadBundle, Retry, Restore, Clean, Restart,
     Settle, Told
<1>2. ASSUME NEW c, EndsWith(c) PROVE work'.job = "none"
  BY <1>2 DEF EndsWith, NoWork
<1>3. ASSUME NEW at, Moves(at) PROVE work'.job = work.job
  BY <1>1, <1>3 DEF Moves, Workers
<1>4. ASSUME NEW why, Stops(why) PROVE work'.job = work.job
  BY <1>1, <1>4 DEF Stops, Workers
<1>5. ASSUME NEW why, Faults(why) PROVE st'.problems = st.problems
  BY <1>1, <1>5 DEF Faults, States
<1>6. ASSUME NEW step, Asks(step) PROVE work'.job = work.job /\ st'.problems = st.problems
  BY <1>1, <1>6 DEF Asks, Workers, States
<1>7. CASE Works \/ Breaks \/ LockRefused \/ Panics
  <2>1. CASE Works
    BY <1>1, <1>3, <2>1 DEF Works, States, Alive
  <2>2. CASE Breaks
    <3>1. PICK why \in {"error", "lost"}, kept \in BOOLEAN :
             Faults(why) /\ work' = [work EXCEPT !.at = ErrorTo, !.why = why, !.kept = kept]
      BY <2>2 DEF Breaks
    <3>2. work'.job = work.job
      BY <1>1, <3>1 DEF Workers
    <3>3. QED
      BY <1>1, <1>5, <3>1, <3>2 DEF Alive
  <2>3. CASE LockRefused
    BY <1>1, <1>2, <1>5, <2>3 DEF LockRefused, Alive
  <2>4. CASE Panics
    BY <1>1, <1>2, <2>4 DEF Panics, Alive
  <2>5. QED
    BY <1>7, <2>1, <2>2, <2>3, <2>4
<1>8. CASE Look \/ Ask \/ Resolve
  <2>1. CASE Look
    BY <1>1, <1>2, <1>5, <2>1 DEF Look, Alive, States
  <2>2. CASE Ask
    BY <1>1, <1>3, <1>6, <2>2 DEF Ask, Alive
  <2>3. CASE Resolve
    BY <1>1, <1>3, <1>6, <2>3 DEF Resolve, Alive
  <2>4. QED
    BY <1>8, <2>1, <2>2, <2>3
<1>9. CASE Receive \/ TimesOut \/ Expire
  <2>1. CASE Receive
    <3>1. st' = [st EXCEPT !.slot = 0]
          /\ work' = IF ~work.mail[2] THEN [Answered EXCEPT !.at = ErrorTo, !.why = "cancelled"]
                     ELSE IF StepAsked = 5 THEN [Answered EXCEPT !.at = "ask", !.left = @ - 1]
                     ELSE [Answered EXCEPT !.at = After(work.job, "resolve")]
      BY <2>1 DEF Receive
    <3>2. Answered.job = work.job /\ st'.problems = st.problems
      BY <1>1, <3>1 DEF Answered, Workers, States
    <3>3. work'.job = Answered.job
      BY <1>1, <3>1 DEF Answered, Workers
    <3>4. QED
      BY <1>1, <3>2, <3>3 DEF Alive
  <2>2. CASE TimesOut
    BY <1>1, <2>2 DEF TimesOut, Alive, Workers
  <2>3. CASE Expire
    BY <1>1, <2>3 DEF Expire, Alive, Answered, Workers, States
  <2>4. QED
    BY <1>9, <2>1, <2>2, <2>3
<1>10. CASE TakeBack \/ WriteOption \/ KeepOptions \/ Pin
  <2>1. CASE TakeBack
    BY <1>1, <1>3, <1>4, <1>5, <2>1 DEF TakeBack, Alive
  <2>2. CASE WriteOption
    <3>1. /\ \/ UNCHANGED st
             \/ \E why : Faults(why)
          /\ \/ \E at : Moves(at)
             \/ \E why : Stops(why)
             \/ \E at, why, written : work' = [work EXCEPT !.at = at, !.why = why, !.written = written]
      <4>2. \A at, written : [work EXCEPT !.at = at, !.written = written]
                             = [work EXCEPT !.at = at, !.why = work.why, !.written = written]
        BY <1>1 DEF Workers
      <4> DEFINE next == After("options", work.at)
      <4>3. \/ UNCHANGED st /\ work' = [work EXCEPT !.at = next, !.written = @ \cup {work.at}]
            \/ Faults("lost") /\ work' = [work EXCEPT !.at = "keep", !.why = "lost", !.written = @ \cup {work.at}]
            \/ Faults("error") /\ Stops("error")
            \/ Moves(next) /\ UNCHANGED st
            \/ Faults("lost") /\ Stops("lost")
        BY <2>2 DEF WriteOption
      <4> HIDE DEF next
      <4>4. CASE UNCHANGED st /\ work' = [work EXCEPT !.at = next, !.written = @ \cup {work.at}]
        <5> DEFINE taken == work.written \cup {work.at}
        <5>1. work' = [work EXCEPT !.at = next, !.written = taken]
          BY <4>4
        <5> HIDE DEF taken
        <5>2. work' = [work EXCEPT !.at = next, !.why = work.why, !.written = taken]
          BY <4>2, <5>1
        <5>3. QED
          BY <4>4, <5>2
      <4>5. CASE Faults("lost") /\ work' = [work EXCEPT !.at = "keep", !.why = "lost", !.written = @ \cup {work.at}]
        BY <4>5
      <4>6. CASE \/ Faults("error") /\ Stops("error")
                 \/ Moves(next) /\ UNCHANGED st
                 \/ Faults("lost") /\ Stops("lost")
        BY <4>6
      <4>7. QED
        BY <4>3, <4>4, <4>5, <4>6
    <3>2. work'.job = work.job
      BY <1>1, <1>3, <1>4, <3>1 DEF Workers
    <3>3. st'.problems = st.problems
      BY <1>5, <3>1
    <3>4. QED
      BY <1>1, <3>2, <3>3 DEF Alive
  <2>3. CASE KeepOptions
    <3>1. st'.problems = st.problems
      BY <1>1, <2>3 DEF KeepOptions, States
    <3>2. work'.job \in {work.job, "none"}
      BY <1>1, <1>2, <2>3 DEF KeepOptions, Workers
    <3>3. QED
      BY <1>1, <3>1, <3>2 DEF Alive
  <2>4. CASE Pin
    BY <1>1, <1>3, <1>4, <1>5, <2>4 DEF Pin, Alive
  <2>5. QED
    BY <1>10, <2>1, <2>2, <2>3, <2>4
<1>11. CASE ReadBundles
  <2>1. work.job = "discover"
    BY <1>11, AtWork, DiscoverOnly DEF ReadBundles
  <2>2. EndsWith(<<[do |-> "discovered"]>>) \/ work' = [work EXCEPT !.at = "retry"] \/ EndsWith(<<Failed>>)
    BY <1>11 DEF ReadBundles
  <2>3. work'.job \in {work.job, "none"}
    BY <1>1, <1>2, <2>2 DEF Workers
  <2>4. QED
    BY <1>1, <2>1, <2>3
<1>12. CASE ReadBundle \/ Retry \/ Restore
  <2>1. CASE ReadBundle
    <3>1. (UNCHANGED st \/ Faults("lost"))
          /\ (EndsWith(<<[do |-> "bundleAdded"]>>) \/ \E why : work' = [work EXCEPT !.at = "retry", !.why = why])
      BY <2>1 DEF ReadBundle
    <3>2. work'.job \in {work.job, "none"}
      BY <1>1, <1>2, <3>1 DEF Workers
    <3>3. QED
      BY <1>1, <1>5, <3>1, <3>2 DEF Alive
  <2>2. CASE Retry
    <3>1. UNCHANGED st \/ st' = [st EXCEPT !.lost = TRUE]
      BY <2>2 DEF Retry, Retryable
    <3>2. st'.problems = st.problems
      BY <1>1, <3>1 DEF States
    <3>3. work'.job = "none"
      BY <1>2, <2>2 DEF Retry, Retryable
    <3>4. QED
      BY <1>1, <3>2, <3>3 DEF Alive
  <2>3. CASE Restore
    <3>1. (UNCHANGED st \/ Faults("error")) /\ (Moves("clean") \/ work' = [work EXCEPT !.at = "clean", !.why = "torn"])
      BY <2>3 DEF Restore
    <3>2. work'.job = work.job
      BY <1>1, <1>3, <3>1 DEF Workers
    <3>3. QED
      BY <1>1, <1>5, <3>1, <3>2 DEF Alive
  <2>4. QED
    BY <1>12, <2>1, <2>2, <2>3
<1>13. CASE Clean \/ Restart
  <2>1. CASE Clean
    <3>1. UNCHANGED st \/ st' = [st EXCEPT !.laidOut = TRUE] \/ Faults("lost")
      BY <2>1 DEF Clean
    <3>2. st'.problems = st.problems
      BY <1>1, <1>5, <3>1 DEF States
    <3>3. (\E c : EndsWith(c)) \/ \E at : Moves(at)
      BY <2>1 DEF Clean
    <3>4. work'.job \in {work.job, "none"}
      BY <1>2, <1>3, <3>3
    <3>5. QED
      BY <1>1, <3>2, <3>4 DEF Alive
  <2>2. CASE Restart
    <3>1. st' = [st EXCEPT !.started = TRUE] \/ \E why : Faults(why)
      BY <2>2 DEF Restart
    <3>2. st'.problems = st.problems
      BY <1>1, <1>5, <3>1 DEF States
    <3>3. work'.job = "none"
      BY <1>2, <2>2 DEF Restart
    <3>4. QED
      BY <1>1, <3>2, <3>3 DEF Alive
  <2>3. QED
    BY <1>13, <2>1, <2>2
<1>14. CASE Settle \/ Told
  <2>1. CASE Settle
    <3>1. (UNCHANGED st \/ \E why : Faults(why))
          /\ (Moves("told") \/ work' = [work EXCEPT !.at = "told", !.why = "error"])
      BY <2>1 DEF Settle
    <3>2. work'.job = work.job
      BY <1>1, <1>3, <3>1 DEF Workers
    <3>3. QED
      BY <1>1, <1>5, <3>1, <3>2 DEF Alive
  <2>2. CASE Told
    <3>1. UNCHANGED st \/ st' = [st EXCEPT !.settled = TRUE]
      BY <2>2 DEF Told
    <3>2. st'.problems = st.problems
      BY <1>1, <3>1 DEF States
    <3>3. work'.job = "none"
      BY <1>2, <2>2 DEF Told
    <3>4. QED
      BY <1>1, <3>2, <3>3 DEF Alive
  <2>3. QED
    BY <1>14, <2>1, <2>2
<1>15. QED
  BY <1>7, <1>8, <1>9, <1>10, <1>11, <1>12, <1>13, <1>14 DEF WorkerSteps

\* A worker begun, or its thread refused, on the page it was begun from.
LEMMA SpawnStays ==
  ASSUME NEW w, NEW p \in Pages, NEW q, Spawn(w, p, q)
  PROVE  work' \in {w, work} /\ page'.step = p.step /\ posted' = q
<1>1. CASE page' = [p EXCEPT !.busy = TRUE] /\ work' = w
  BY <1>1 DEF Spawn, Pages
<1>2. CASE page' = FailedPage(p) /\ UNCHANGED work
  BY <1>2 DEF Spawn, FailedPage, Pages
<1>3. QED
  BY <1>1, <1>2 DEF Spawn

LEMMA FreshJob ==
  ASSUME NEW job
  PROVE  Worker(job).job = job
BY DEF Worker, NoWork

\* A press or a closure of another page, before anything is known of the bundles.
LEMMA BeforeBundles ==
  ASSUME ~st'.problems, work'.job # "discover"
  PROVE  OnInstances'
BY DEF OnInstances

\* A look for a release, and what may begin one.
LEMMA LooksBefore ==
  ASSUME work.job = "none", ~st.problems, NEW p \in Pages, FindRelease(p) \/ OfflineToggled(p)
  PROVE  ~st'.problems /\ work'.job # "discover"
<1>1. ASSUME NEW r, FindRelease(r) PROVE UNCHANGED st /\ work' \in {Worker("release"), work}
  BY <1>1 DEF FindRelease, Spawn
<1>2. UNCHANGED st /\ work' \in {Worker("release"), work}
  BY <1>1 DEF OfflineToggled
<1>3. QED
  BY <1>2, FreshJob

\* A press of the button Next begins nothing once a bundle is known not to be readable.
LEMMA NextBefore ==
  ASSUME IInv, OnInstances, NextPressed
  PROVE  OnInstances'
<1>1. AtRest /\ page \in Pages /\ st \in States /\ work.job = "none"
  BY DEF NextPressed, IInv, TypeOK, Closed, AtRest, Person
<1>2. page.step = 3 => BeginApply
  BY DEF NextPressed
<1>3. page.step \in {0, 1, 2, 3, 7}
  BY DEF NextPressed
<1>4. ~st.problems
  BY <1>2, <1>3 DEF OnInstances, BeginApply
<1>5. EnterGet \/ EnterResources \/ BeginInstall \/ ApplyOptions \/ BeginApply \/ BeginResources
  BY DEF NextPressed
<1>6. ASSUME st' = [st EXCEPT !.lost = TRUE], UNCHANGED work PROVE ~st'.problems /\ work'.job # "discover"
  BY <1>1, <1>4, <1>6 DEF States
<1>7. ASSUME UNCHANGED <<st, work>> PROVE ~st'.problems /\ work'.job # "discover"
  BY <1>1, <1>4, <1>7
<1>8. ASSUME NEW w, NEW p, NEW q, Spawn(w, p, q), w.job # "discover", UNCHANGED st
      PROVE  ~st'.problems /\ work'.job # "discover"
  BY <1>1, <1>4, <1>8 DEF Spawn
<1>9. CASE EnterGet
  <2> DEFINE p == [page EXCEPT !.step = 1]
  <2>1. p \in Pages
    BY <1>1 DEF Pages
  <2>2. \/ st' = [st EXCEPT !.lost = TRUE] /\ UNCHANGED work
        \/ UNCHANGED <<st, work>>
        \/ OfflineToggled(p)
    BY <1>9 DEF EnterGet, Logs
  <2> HIDE DEF p
  <2>3. QED
    BY <1>1, <1>4, <1>6, <1>7, <2>1, <2>2, LooksBefore, BeforeBundles
<1>10. CASE EnterResources
  BY <1>6, <1>7, <1>10, BeforeBundles DEF EnterResources, Logs
<1>11. CASE BeginInstall
  <2>1. \A release, left : [Worker("install") EXCEPT !.release = release, !.left = left].job # "discover"
    BY DEF Worker, NoWork
  <2>2. \/ st' = [st EXCEPT !.lost = TRUE] /\ UNCHANGED work
        \/ UNCHANGED <<st, work>>
        \/ \E release, left, p : /\ Spawn([Worker("install") EXCEPT !.release = release, !.left = left], p, posted)
                                 /\ UNCHANGED st
    BY <1>11 DEF BeginInstall, Logs
  <2>3. QED
    BY <1>6, <1>7, <1>8, <2>1, <2>2, BeforeBundles
<1>12. CASE ApplyOptions
  <2>1. \A ticks : [Worker("options") EXCEPT !.ticks = ticks].job # "discover"
    BY DEF Worker, NoWork
  <2>2. QED
    BY <1>8, <1>12, <2>1, BeforeBundles DEF ApplyOptions
<1>13. CASE BeginApply
  BY <1>8, <1>13, FreshJob, BeforeBundles DEF BeginApply
<1>14. CASE BeginResources
  <2>1. \A left : [Worker("resources") EXCEPT !.left = left].job # "discover"
    BY DEF Worker, NoWork
  <2>2. QED
    BY <1>8, <1>14, <2>1, BeforeBundles DEF BeginResources
<1>15. QED
  BY <1>5, <1>9, <1>10, <1>11, <1>12, <1>13, <1>14

\* The discovery begun: from the page of the instances, with nothing left for the event loop.
LEMMA DiscoverOn ==
  ASSUME work.job = "none", NEW p \in Pages, p.step = 3, NEW q, Quiet(q), BeginDiscover(p, q)
  PROVE  OnInstances'
<1> DEFINE r == [p EXCEPT !.discovered = FALSE, !.ready = FALSE]
<1>1. r \in Pages /\ r.step = 3
  BY DEF Pages
<1>2. Spawn(Worker("discover"), r, q)
  BY DEF BeginDiscover
<1> HIDE DEF r
<1>3. work' \in {Worker("discover"), work} /\ page'.step = 3 /\ posted' = q
  BY <1>1, <1>2, SpawnStays
<1>4. work'.job \in {"discover", "none"} /\ ~\E c \in Items(posted') : TRUE
  BY <1>3, FreshJob DEF Quiet
<1>5. QED
  BY <1>3, <1>4 DEF OnInstances

\* The wizard settled or finished, from the page of the instances or from any page before.
LEMMA FinishOn ==
  ASSUME work.job = "none", page \in Pages, NEW q, Quiet(q), SettleAndFinish(page, q),
         st.problems => page.step \in {3, 4}
  PROVE  OnInstances'
<1>1. UNCHANGED st /\ posted' = q /\ work' \in {Worker("settle"), work} /\ page'.step \in {page.step, 4}
  <2>1. CASE Spawn(Worker("settle"), page, q)
    BY <2>1, SpawnStays DEF SettleAndFinish
  <2>2. CASE page' = Finish(page) /\ posted' = q /\ UNCHANGED <<work, count>>
    BY <2>2 DEF SettleAndFinish, Finish, Pages
  <2>3. QED
    BY <2>1, <2>2 DEF SettleAndFinish
<1>2. work'.job \in {"settle", "none"} /\ ~\E c \in Items(posted') : TRUE
  BY <1>1, FreshJob DEF Quiet
<1>3. QED
  BY <1>1, <1>2 DEF OnInstances

\* The other presses of the pages before a question.
LEMMA PressOn ==
  ASSUME IInv, OnInstances, RetryRelease \/ Discover \/ AddBundle \/ SkipInstances
  PROVE  OnInstances'
<1>1. AtRest /\ page.step \in {1, 3} /\ page \in Pages /\ st \in States
  BY DEF RetryRelease, Discover, AddBundle, SkipInstances, IInv, TypeOK
<1>2. Ready /\ Quiet(posted)
  BY <1>1, AtRestReady
<1>3. work.job = "none" /\ ~\E c \in Items(posted) : TRUE
  BY <1>2 DEF Ready, Quiet
<1>4. CASE RetryRelease
  BY <1>1, <1>3, <1>4, LooksBefore, BeforeBundles DEF RetryRelease, OnInstances
<1>5. CASE Discover
  BY <1>1, <1>2, <1>3, <1>5, DiscoverOn DEF Discover
<1>6. CASE AddBundle
  <2>1. page.step = 3 /\ Spawn(Worker("bundle"), page, posted) /\ UNCHANGED st
    BY <1>6 DEF AddBundle, BeginAddBundle
  <2>2. work' \in {Worker("bundle"), work} /\ page'.step = 3 /\ posted' = posted
    BY <1>1, <2>1, SpawnStays
  <2>3. work'.job \in {"bundle", "none"}
    BY <1>3, <2>2, FreshJob
  <2>4. QED
    BY <1>3, <2>2, <2>3 DEF OnInstances
<1>7. CASE SkipInstances
  <2>1. CASE SettleAndFinish(page, posted)
    BY <1>1, <1>2, <1>3, <2>1, FinishOn DEF OnInstances
  <2>2. CASE st' = [st EXCEPT !.lost = TRUE] /\ page' = FailedPage(page) /\ UNCHANGED <<work, posted>>
    <3>1. page'.step = page.step /\ st'.problems = st.problems
      BY <1>1, <2>2 DEF FailedPage, Pages, States
    <3>2. QED
      BY <2>2, <3>1, StillOn
  <2>3. QED
    BY <1>7, <2>1, <2>2 DEF SkipInstances, Logs
<1>8. QED
  BY <1>4, <1>5, <1>6, <1>7

LEMMA EditsOn ==
  ASSUME IInv, OnInstances, Edits
  PROVE  OnInstances'
<1>1. AtRest /\ page \in Pages /\ page.step \in {1, 2, 3} /\ work.job = "none"
  BY DEF Edits, IInv, TypeOK, Closed, AtRest, Person
<1>2. CASE OfflineToggled([page EXCEPT !.offline = ~@]) /\ page.step = 1
  <2> DEFINE p == [page EXCEPT !.offline = ~@]
  <2>1. p \in Pages
    BY <1>1 DEF Pages
  <2>2. OfflineToggled(p)
    BY <1>2
  <2> HIDE DEF p
  <2>3. QED
    BY <1>1, <1>2, <2>1, <2>2, LooksBefore, BeforeBundles DEF OnInstances
<1>3. CASE UNCHANGED <<st, work, posted>> /\ page.step # 3
  BY <1>1, <1>3, BeforeBundles DEF OnInstances
<1>4. CASE UNCHANGED <<st, work, posted>> /\ page' = [page EXCEPT !.ready = TRUE]
  <2>1. page'.step = page.step
    BY <1>1, <1>4 DEF Pages
  <2>2. QED
    BY <1>4, <2>1, StillOn
<1>5. \/ OfflineToggled([page EXCEPT !.offline = ~@]) /\ page.step = 1
      \/ UNCHANGED <<st, work, posted>> /\ page.step # 3
      \/ UNCHANGED <<st, work, posted>> /\ page' = [page EXCEPT !.ready = TRUE]
  <2>1. CASE page.step = 3
    BY <2>1 DEF Edits
  <2>2. CASE page.step = 2
    BY <2>2 DEF Edits
  <2>3. CASE page.step = 1
    <3>1. \/ OfflineToggled([page EXCEPT !.offline = ~@])
          \/ UNCHANGED <<st, work, posted>>
      BY <2>3 DEF Edits
    <3>2. QED
      BY <2>3, <3>1
  <2>4. QED
    BY <1>1, <2>1, <2>2, <2>3
<1>6. QED
  BY <1>2, <1>3, <1>4, <1>5

\* A question is of no page of the instances; its boxes and the window's buttons change nothing here.
LEMMA AnswersOn ==
  ASSUME IInv, OnInstances,
         \/ \E choice \in 1 .. 2 : Choose(choice)
         \/ \E row \in Rows, side \in 1 .. 2 : ConflictToggle(row, side)
         \/ \E side \in 1 .. 2 : ConflictHeaderToggle(side)
         \/ \E accepted \in BOOLEAN : Decide(accepted)
         \/ CloseRequested \/ CloseWizard \/ OpenConsole \/ Leaves
  PROVE  OnInstances'
<1>1. page \in Pages /\ st \in States
  BY DEF IInv, TypeOK
<1>2. CASE \/ \E choice \in 1 .. 2 : Choose(choice)
           \/ \E row \in Rows, side \in 1 .. 2 : ConflictToggle(row, side)
           \/ \E side \in 1 .. 2 : ConflictHeaderToggle(side)
  <2>1. UNCHANGED <<st, work, posted>> /\ \E choice, rows : page' \in {[page EXCEPT !.choice = choice], [page EXCEPT !.rows = rows]}
    BY <1>2 DEF Choose, ConflictToggle, ConflictHeaderToggle
  <2>2. page'.step = page.step
    BY <1>1, <2>1 DEF Pages
  <2>3. QED
    BY <2>1, <2>2, StillOn
<1>3. ASSUME NEW accepted \in BOOLEAN, Decide(accepted) PROVE OnInstances'
  <2>1. page.step \in {5, 6} /\ st' = [st EXCEPT !.slot = 0] /\ UNCHANGED work
    BY <1>3 DEF Decide
  <2>2. st'.problems = st.problems
    BY <1>1, <2>1 DEF States
  <2>3. QED
    BY <2>1, <2>2 DEF OnInstances
<1>4. CASE CloseRequested \/ CloseWizard \/ OpenConsole \/ Leaves
  <2>1. /\ UNCHANGED <<page, work, posted>>
        /\ UNCHANGED st \/ st' = [st EXCEPT !.closeWarned = TRUE] \/ st' = [st EXCEPT !.lost = TRUE]
    BY <1>4 DEF CloseRequested, CloseWizard, OpenConsole, Leaves
  <2>2. st'.problems = st.problems
    BY <1>1, <2>1 DEF States
  <2>3. QED
    BY <2>1, <2>2, StillOn
<1>5. QED
  BY <1>2, <1>3, <1>4

\* A closure of the instances page leaves that page, or takes the last one.
LEMMA LandOn ==
  ASSUME IInv, OnInstances, Land
  PROVE  OnInstances'
<1>1. page \in Pages /\ posted # <<>> /\ posted' = Tail(posted) /\ UNCHANGED <<st, work>>
  BY DEF Land, Shows, IInv, TypeOK
<1>2. Items(posted) = {Head(posted)} \cup Items(Tail(posted))
  BY <1>1, Taken DEF IInv, TypeOK
<1>3. ASSUME Head(posted).do \in Tellable PROVE page'.step \in {page.step, 4}
  <2>1. CASE Head(posted).do \in {"failed", "expired"}
    <3>1. page' = FailedPage(page)
      BY <2>1 DEF Land, Shows
    <3>2. QED
      BY <1>1, <3>1 DEF FailedPage, Pages
  <2>2. CASE Head(posted).do = "discovered"
    <3>1. \E ready \in BOOLEAN : page' = [Rest(page) EXCEPT !.discovered = TRUE, !.ready = ready]
      BY <2>2 DEF Land, Shows
    <3>2. QED
      BY <1>1, <3>1 DEF Rest, Pages
  <2>3. CASE Head(posted).do \in {"notDone", "bundleAdded"}
    <3>1. page' = Rest(page)
      BY <2>3 DEF Land, Shows
    <3>2. QED
      BY <1>1, <3>1 DEF Rest, Pages
  <2>4. CASE Head(posted).do = "finished"
    <3>1. page' = Finish(Rest(page))
      BY <2>4 DEF Land, Shows
    <3>2. QED
      BY <1>1, <3>1 DEF Rest, Finish, Pages
  <2>5. QED
    BY <1>3, <2>1, <2>2, <2>3, <2>4 DEF Tellable
<1>4. QED
  BY <1>1, <1>2, <1>3 DEF OnInstances

LEMMA LandAndBeginOn ==
  ASSUME IInv, OnInstances, LandAndBegin
  PROVE  OnInstances'
<1>1. Loop /\ posted # <<>> /\ Head(posted).do \in {"optionsDone", "applied"}
  BY DEF LandAndBegin
<1>2. Ready /\ Quiet(Tail(posted))
  BY <1>1, LandReady
<1>3. work.job = "none" /\ page \in Pages /\ Head(posted) \in Items(posted)
  BY <1>1, <1>2, Taken DEF Ready, IInv, TypeOK
<1>4. ~st.problems
  BY <1>1, <1>3 DEF OnInstances, Tellable
<1> DEFINE p == [Rest(page) EXCEPT !.step = 3, !.canNext = TRUE]
<1>5. p \in Pages /\ Sworn(p) /\ p.step = 3 /\ ~p.failed
  BY <1>2, StepFields DEF Ready
<1>6. BeginDiscover(p, Tail(posted)) \/ SettleAndFinish(page, Tail(posted))
  BY DEF LandAndBegin
<1> HIDE DEF p
<1>7. QED
  BY <1>2, <1>3, <1>4, <1>5, <1>6, DiscoverOn, FinishOn

LEMMA SendOn ==
  ASSUME IInv, OnInstances, Send
  PROVE  OnInstances'
<1>1. work \in Workers /\ UNCHANGED <<page, st>>
  BY DEF Send, IInv, TypeOK
<1>2. CASE work' = [work EXCEPT !.mail = hand.answer] /\ UNCHANGED posted
  <2>1. work'.job = work.job
    BY <1>1, <1>2 DEF Workers
  <2>2. QED
    BY <1>1, <1>2, <2>1, StillOn
<1>3. CASE Post(<<[do |-> "expired"]>>) /\ UNCHANGED work
  <2> DEFINE c == [do |-> "expired"]
  <2>1. c \in Closures /\ c.do \in Tellable /\ posted' = posted \o <<c>>
    BY <1>3, OtherClosures DEF Post, Tellable
  <2> HIDE DEF c
  <2>2. Items(posted') = Items(posted) \cup {c}
    BY <2>1, LeftBehind
  <2>3. QED
    BY <1>1, <1>3, <2>1, <2>2, StillOn
<1>4. QED
  BY <1>2, <1>3 DEF Send

LEMMA OnInstancesNext == IInv /\ OnInstances /\ [Next]_vars => OnInstances'
<1> SUFFICES ASSUME IInv, OnInstances, [Next]_vars PROVE OnInstances'
  OBVIOUS
<1>1. CASE WorkerSteps
  <2>1. /\ page'.step = page.step /\ work'.job \in {work.job, "none"} /\ work.job # "none"
        /\ st'.problems => st.problems \/ work.job = "discover"
    BY <1>1, WorkerStays
  <2>2. work.job \in {"none", "discover", "bundle", "settle"} =>
            \A c \in Items(posted') : c \in Items(posted) \/ c.do \in Tellable
    BY <1>1, <2>1, WorkerLeaves
  <2>3. QED
    BY <2>1, <2>2, StillOn
<1>2. CASE Presses
  BY <1>2, NextBefore, PressOn, EditsOn, AnswersOn DEF Presses
<1>3. CASE LoopSteps \/ Leaves
  BY <1>3, SendOn, LandOn, LandAndBeginOn, AnswersOn DEF LoopSteps
<1>4. CASE UNCHANGED vars
  BY <1>4, StillOn DEF vars
<1>5. QED
  BY <1>1, <1>2, <1>3, <1>4 DEF Next

\* Once a line of the log was lost, no worker that installs, updates or configures goes on, and the run
\* ends on the failure page - but for a line lost while the bundles were read, which leaves the instances
\* page with the bundles' problems (State.log_error, begin_discover).
THEOREM LostLineFails == Spec => []LostLineStops
<1>1. Init => OnInstances
  BY InitInv DEF Init, OnInstances, NoWork
<1>2. Spec => []OnInstances
  BY <1>1, Invariance, OnInstancesNext, PTL DEF Spec
<1>3. IInv /\ OnInstances => LostLineStops
  <2> SUFFICES ASSUME IInv, OnInstances, st.lost PROVE LostLineStops
    BY DEF LostLineStops
  <2>1. ASSUME work.job \notin {"none", "discover", "bundle", "settle"} PROVE work.why # "ok"
    <3>1. Dropped
      BY <2>1 DEF OnInstances, Dropped
    <3>2. page.failed \/ (\E c \in Items(posted) : c.do = "failed") => work.why # "ok"
      BY <2>1 DEF IInv, Abandoned, GivenUp, Closed, Final
    <3>3. page.step # 4
      BY <2>1 DEF IInv, Closed
    <3>4. QED
      BY <2>1, <3>1, <3>2, <3>3 DEF IInv, Stopping
  <2>2. ASSUME Settled, page.step # 4 PROVE page.failed \/ (page.step = 3 /\ st.problems)
    <3>1. CASE st.problems
      BY <2>2, <3>1 DEF OnInstances
    <3>2. CASE ~st.problems
      <4>1. ~\E c \in Items(posted) : TRUE
        BY <2>2 DEF Settled, Items
      <4>2. QED
        BY <2>2, <3>2, <4>1 DEF IInv, Stopping, Dropped, Settled
    <3>3. QED
      BY <3>1, <3>2
  <2>3. QED
    BY <2>1, <2>2 DEF LostLineStops
<1>4. QED
  BY <1>2, <1>3, Invariance, PTL

\* An older release is installed only under the tick made for that release (confirm_downgrade and
\* begin_install), for any releases.
THEOREM DowngradesAreSworn == Spec => []DowngradeConfirmed
<1>1. IInv => DowngradeConfirmed
  BY DEF IInv, Ticked, DowngradeConfirmed
<1>2. QED
  BY <1>1, Invariance, PTL
=============================================================================
