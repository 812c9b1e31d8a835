------------------------------ MODULE FrameSlot ------------------------------
(***************************************************************************)
(* The frame pane of one ledger window: the request its pane has made      *)
(* (crates/acui-app/src/ledger/frame.rs, paint.rs), the frame workers that *)
(* read one frame each, one at a time, and the material connection they    *)
(* share with the window's reader thread, which makes it anew after a read *)
(* latched it (ledger/worker.rs, acui-source `Rebuilding`).                *)
(*                                                                         *)
(* A handler of the event loop is one step, and a paint does all of        *)
(* `update_frame`.  What the workers hand to the event loop runs in the    *)
(* order it was handed over (handed).                                      *)
(***************************************************************************)
EXTENDS Naturals, Sequences, FiniteSets

CONSTANTS
  Events,          \* events whose frame the pane may be asked for
  NoEvent,         \* none: nothing selected, evicted, too large, no capture
  NoRequest,       \* the slot holds no request
  NoReader,        \* no material reader published
  Offline,         \* the material reader of an offline face
  Unavailable,     \* the reader of a rebuild that failed
  MaxSession, MaxGeneration,  \* bounds: reopens, requests and clears
  MaxConnection,   \* bound: material connections made in one session
  MaxReload,       \* bound: reloads, each of which forgets the frame
  FrameFaults      \* what a run lets go wrong

ASSUME FrameAssumption ==
  /\ NoEvent \notin Events
  /\ NoRequest \notin [event : Events, gen : Nat, said : BOOLEAN]
  /\ MaxSession \in Nat \ {0} /\ MaxGeneration \in Nat
  /\ MaxConnection \in Nat \ {0} /\ MaxReload \in Nat
  /\ FrameFaults \subseteq {"spawn", "fatal", "read", "connect", "panic"}

VARIABLES
  session,     \* the session of the window's tag
  open,        \* its read face is open
  target,      \* the event whose frame the pane is to show
  reloads,     \* reloads begun: what is shown must be read after the last
  forget,      \* the effect a reload left for the next paint
  repaint,     \* a repaint is handed over and has not run
  request,     \* the request the pane has made
  generation,  \* bumped per request and per clear
  shown,       \* the frame on the pane, while the pane is ready
  published,   \* the material reader the window's reader published
  workers,     \* the frame workers that have not ended
  handed,       \* what workers handed to the event loop, in order
  refreshes,   \* per session, the refreshes queued at its reader
  reader,      \* per session, what its reader thread does
  connection,  \* per session, the number of its material connection
  frameLatched, \* per session, the flag its material readers share
  dead         \* the material connections whose client latched

loopVars == <<session, target, request, generation, shown>>
stateVars == <<open, reloads, forget, repaint, published>>
linkVars == <<connection, frameLatched, dead>>
threadVars == <<refreshes, reader>>
frameVars == <<loopVars, stateVars, workers, handed, threadVars, linkVars>>

Sessions == 1..MaxSession
Connections == Sessions \X (1..MaxConnection)
Readers == Connections \cup {Offline, Unavailable}
(* said: the pane's note is the answer, no longer "reading".               *)
Requests == [event : Events, gen : Nat, said : BOOLEAN]
(* A frame read: the request it is for, what it was asked under, the reader *)
(* cloned for it, and how far it is.                                       *)
Reads == [event : Events, gen : Nat, session : Sessions, reload : Nat, reader : Readers,
          stage : {"waiting", "reading", "done"}, frame : BOOLEAN, wanted : BOOLEAN]
Posts == [what : {"rebuild", "result"}, read : Reads]
ReaderPCs == {"opening", "idle", "connecting", "publishing", "ended"}
NoFrame == NoRequest

FrameTypes ==
  /\ session \in Sessions /\ open \in BOOLEAN
  /\ target \in Events \cup {NoEvent} /\ reloads \in Nat
  /\ forget \in BOOLEAN /\ repaint \in BOOLEAN
  /\ request \in Requests \cup {NoRequest} /\ generation \in Nat
  /\ shown \in Reads \cup {NoFrame}
  /\ published \in Readers \cup {NoReader}
  /\ workers \subseteq Reads /\ handed \in Seq(Posts)
  /\ refreshes \in [Sessions -> Nat] /\ reader \in [Sessions -> ReaderPCs]
  /\ connection \in [Sessions -> 1..MaxConnection]
  /\ frameLatched \in [Sessions -> BOOLEAN] /\ dead \subseteq Connections

FrameInit ==
  /\ session = 1 /\ open = FALSE /\ target = NoEvent /\ reloads = 0
  /\ forget = FALSE /\ repaint = FALSE
  /\ request = NoRequest /\ generation = 0 /\ shown = NoFrame
  /\ published = NoReader /\ workers = {} /\ handed = <<>>
  /\ refreshes = [s \in Sessions |-> 0]
  /\ reader = [s \in Sessions |-> IF s = 1 THEN "opening" ELSE "ended"]
  /\ connection = [s \in Sessions |-> 1]
  /\ frameLatched = [s \in Sessions |-> FALSE]
  /\ dead = {}

-----------------------------------------------------------------------------
(* The event loop.                                                         *)

\* Mutant: a superseded read is wanted still.
WantedStill(w) == w.gen <= generation

(* A read is wanted while no request or clear came after its own.          *)
Wanted(w) == w.gen = generation

(* clear_frame: no request, and no read in flight still wanted.            *)
Cleared ==
  /\ request' = NoRequest
  /\ generation' = generation + 1
  /\ shown' = NoFrame
  /\ UNCHANGED workers

Asked(e) ==
  [event |-> e, gen |-> generation + 1, session |-> session, reload |-> reloads,
   reader |-> published, stage |-> "waiting", frame |-> FALSE, wanted |-> TRUE]

(* refresh: what the reader left, then update_frame for the event e.  A    *)
(* request held for that event only has its note said again.               *)
Painted(e) ==
  LET held == IF forget THEN NoRequest ELSE request
  IN /\ generation < MaxGeneration
     /\ forget' = FALSE
     /\ IF e = NoEvent \/ ~open \/ published = NoReader THEN Cleared
        ELSE IF held # NoRequest /\ held.event = e
          THEN request' = held /\ UNCHANGED <<generation, shown, workers>>
        ELSE \/ /\ request' = [event |-> e, gen |-> generation + 1, said |-> FALSE]
                /\ generation' = generation + 1
                /\ shown' = NoFrame
                /\ workers' = workers \cup {Asked(e)}
             \/ /\ "spawn" \in FrameFaults     \* the system refuses the thread
                /\ request' = NoRequest
                /\ generation' = generation + 2
                /\ shown' = NoFrame
                /\ UNCHANGED workers

(* The person picks an event, or what the pane is to show changes with it. *)
Select ==
  /\ open
  /\ \E e \in (Events \cup {NoEvent}) \ {target} : target' = e /\ Painted(e)
  /\ UNCHANGED <<session, open, reloads, repaint, published, handed, threadVars, linkVars>>

Repaint ==
  /\ repaint
  /\ repaint' = FALSE
  /\ Painted(target)
  /\ UNCHANGED <<session, target, open, reloads, published, handed, threadVars, linkVars>>

(* reopen: the slot is cleared, the state made anew, and painted.          *)
Reopen ==
  /\ session < MaxSession /\ generation + 1 < MaxGeneration
  /\ session' = session + 1
  /\ open' = FALSE /\ target' = NoEvent /\ published' = NoReader /\ forget' = FALSE
  /\ request' = NoRequest /\ generation' = generation + 2 /\ shown' = NoFrame
  /\ reader' = [reader EXCEPT ![session + 1] = "opening"]
  /\ UNCHANGED <<reloads, repaint, workers, handed, refreshes, linkVars>>

(* refresh_reader: a worker asks for a new reader; its session's, while    *)
(* the window has it and its face is open.                                 *)
HandRebuild ==
  /\ handed # <<>> /\ Head(handed).what = "rebuild"
  /\ handed' = Tail(handed)
  /\ LET s == Head(handed).read.session
     IN IF s # session \/ ~open THEN UNCHANGED <<refreshes, stateVars>>
        ELSE IF reader[s] # "ended"
          THEN refreshes' = [refreshes EXCEPT ![s] = @ + 1] /\ UNCHANGED stateVars
        ELSE /\ open' = FALSE /\ repaint' = TRUE
             /\ UNCHANGED <<refreshes, reloads, forget, published>>
  /\ UNCHANGED <<loopVars, workers, reader, linkVars>>

(* frame_read: a read come back is painted while its request is current.   *)
PaintRead ==
  /\ handed # <<>> /\ Head(handed).what = "result"
  /\ handed' = Tail(handed)
  /\ LET read == Head(handed).read
     IN IF Wanted(read)
          THEN /\ request' = IF request = NoRequest THEN request
                             ELSE [request EXCEPT !.said = TRUE]
               /\ shown' = IF read.frame THEN read ELSE NoFrame
          ELSE UNCHANGED <<request, shown>>
  /\ UNCHANGED <<session, target, generation, stateVars, workers, threadVars, linkVars>>

-----------------------------------------------------------------------------
(* A frame worker.  A read superseded before it has the slot never starts; *)
(* one superseded as it runs goes to its end and hands nothing back.       *)

Becomes(w, next) == workers' = (workers \ {w}) \cup {next}

TakeSlot(w) ==
  /\ w.stage = "waiting"
  /\ \A v \in workers : v.stage = "waiting"
  /\ IF Wanted(w) THEN Becomes(w, [w EXCEPT !.stage = "reading"])
                  ELSE workers' = workers \ {w}
  /\ UNCHANGED <<loopVars, stateVars, handed, threadVars, linkVars>>

(* The read, and the flag a fatal one sets, wanted or not: a connection    *)
(* whose client latched fails every read fatally.                          *)
Read(w) ==
  /\ w.stage = "reading"
  /\ \E found \in {"frame"} \cup (FrameFaults \cap {"read", "fatal"}) :
       /\ LET done(frame) == Becomes(w, [w EXCEPT !.stage = "done", !.frame = frame,
                                                   !.wanted = Wanted(w)])
          IN CASE w.reader = Unavailable ->
                    done(FALSE) /\ UNCHANGED linkVars
               [] w.reader = Offline ->
                    found # "fatal" /\ done(found = "frame") /\ UNCHANGED linkVars
               [] OTHER ->
                    IF w.reader \in dead \/ found = "fatal"
                      THEN /\ done(FALSE)
                           /\ dead' = dead \cup {w.reader}
                           /\ frameLatched' = [frameLatched EXCEPT ![w.session] = TRUE]
                           /\ UNCHANGED connection
                      ELSE done(found = "frame") /\ UNCHANGED linkVars
  /\ UNCHANGED <<loopVars, stateVars, handed, threadVars>>

NeedsRebuild(w) ==
  \/ w.reader = Unavailable
  \/ w.reader \in Connections /\ frameLatched[w.session]

(* The slot let go, with what the worker hands over first: the rebuild,    *)
(* superseded or not, then what was read while it is wanted.               *)
FinishRead(w) ==
  /\ w.stage = "done"
  /\ workers' = workers \ {w}
  /\ handed' = handed
       \o (IF NeedsRebuild(w) THEN <<[what |-> "rebuild", read |-> w]>> ELSE <<>>)
       \o (IF w.wanted THEN <<[what |-> "result", read |-> w]>> ELSE <<>>)
  /\ UNCHANGED <<loopVars, stateVars, threadVars, linkVars>>

-----------------------------------------------------------------------------
(* The reader thread of session s.                                         *)

InSession(s) == s = session

Goes(s, pc) == reader' = [reader EXCEPT ![s] = pc]

(* The face opens: its material reader is published with it.               *)
Open(s) ==
  /\ reader[s] = "opening"
  /\ IF InSession(s)
       THEN /\ open' = TRUE /\ repaint' = TRUE
            /\ published' \in {<<s, 1>>, Offline}
            /\ Goes(s, "idle")
       ELSE Goes(s, "ended") /\ UNCHANGED <<open, repaint, published>>
  /\ UNCHANGED <<loopVars, reloads, forget, workers, handed, refreshes, linkVars>>

(* reload: the view starts over, and the frame is forgotten at the paint   *)
(* that follows; the rows that land bring what the pane is to show.        *)
Reload(s) ==
  /\ reader[s] = "idle" /\ InSession(s) /\ reloads < MaxReload
  /\ reloads' = reloads + 1
  /\ target' = NoEvent
  /\ forget' = TRUE /\ repaint' = TRUE
  /\ UNCHANGED <<session, request, generation, shown, open, published, workers, handed,
                 threadVars, linkVars>>

RowsLand(s) ==
  /\ reader[s] = "idle" /\ InSession(s) /\ target = NoEvent
  /\ target' \in Events
  /\ repaint' = TRUE
  /\ UNCHANGED <<session, request, generation, shown, open, reloads, forget, published,
                 workers, handed, threadVars, linkVars>>

(* refresh_reader: the material connection is made anew if it is latched,  *)
(* and a reader for it is published.                                       *)
TakeRefresh(s) ==
  /\ reader[s] = "idle" /\ refreshes[s] > 0
  /\ refreshes' = [refreshes EXCEPT ![s] = @ - 1]
  /\ Goes(s, IF ~InSession(s) THEN "idle"
             ELSE IF frameLatched[s] THEN "connecting" ELSE "publishing")
  /\ UNCHANGED <<loopVars, stateVars, workers, handed, linkVars>>

(* reconnect, and the reader made of it; a connect that fails, or reaches  *)
(* another Runtime, leaves the connection and the flag as they are.  At    *)
(* the bound MaxConnection it always fails.                                *)
Reconnect(s) ==
  /\ reader[s] = "connecting" /\ connection[s] < MaxConnection
  /\ connection' = [connection EXCEPT ![s] = @ + 1]
  /\ frameLatched' = [frameLatched EXCEPT ![s] = FALSE]
  /\ Goes(s, "publishing")
  /\ UNCHANGED <<loopVars, stateVars, workers, handed, refreshes, dead>>

Publishes(s, made) ==
  /\ published' = IF InSession(s) THEN made ELSE published
  /\ Goes(s, "idle")
  /\ UNCHANGED <<loopVars, open, reloads, forget, repaint, workers, handed, refreshes,
                 linkVars>>

ReconnectLost(s) ==
  /\ reader[s] = "connecting"
  /\ "connect" \in FrameFaults \/ connection[s] = MaxConnection
  /\ Publishes(s, Unavailable)

PublishReader(s) ==
  reader[s] = "publishing" /\ Publishes(s, <<s, connection[s]>>)

(* The reader panics: the session fails, and the thread ends.              *)
Panic(s) ==
  /\ "panic" \in FrameFaults /\ reader[s] \in {"idle", "connecting", "publishing"}
  /\ Goes(s, "ended")
  /\ IF InSession(s) THEN open' = FALSE /\ repaint' = TRUE ELSE UNCHANGED <<open, repaint>>
  /\ UNCHANGED <<loopVars, reloads, forget, published, workers, handed, refreshes, linkVars>>

-----------------------------------------------------------------------------
Loop == Select \/ Repaint \/ Reopen \/ HandRebuild \/ PaintRead

Worker(w) == TakeSlot(w) \/ Read(w) \/ FinishRead(w)

Refreshing(s) ==
  TakeRefresh(s) \/ Reconnect(s) \/ ReconnectLost(s) \/ PublishReader(s)

ReaderThread(s) == Open(s) \/ Reload(s) \/ RowsLand(s) \/ Refreshing(s) \/ Panic(s)

FrameNext ==
  \/ Loop
  \/ \E w \in workers : Worker(w)
  \/ \E s \in Sessions : ReaderThread(s)

FrameSpec == FrameInit /\ [][FrameNext]_frameVars

-----------------------------------------------------------------------------
(* What must hold.                                                         *)

\* The frame on the pane is the one its request is for - that event, of the
\* session the window has, read after the last reload began unless its paint
\* is still to come - however slow its read was and whatever was picked,
\* reopened or reloaded meanwhile (frame.rs: a slow read never paints a stale
\* frame).
PaneShowsItsRequest ==
  shown # NoFrame =>
    /\ request # NoRequest /\ request.said
    /\ shown.event = request.event /\ shown.gen = request.gen
    /\ shown.session = session
    /\ forget \/ shown.reload = reloads
=============================================================================
