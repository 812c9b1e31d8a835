-------------------------------- MODULE Cache --------------------------------
\* The model tool's cache (model/src/acmodel/cache): runs that look nodes up by verifying traces,
\* compute the others, keep them, and evict down to the size cap, while other processes do the
\* same on one index and one folder of blobs, any of them ends between two steps, and a blob's
\* bytes are damaged. The index is SQLite's: what a run commits is one step, and what it has
\* queued until then no other run sees.
\* A node's evaluator is the set of its computations: each the inputs it reads, in order, with
\* what they must be for it to read on, and the value it comes to (core/graph.py). A hash is what
\* it is a hash of, and every value has the same size.
EXTENDS Integers, Sequences, FiniteSets

CONSTANTS
    Processes,
    Nodes, Goals,   \* the graph's nodes, and those a run is asked for
    Inputs,         \* what a run may find in the model and the state: functions of the leaves
    Versions,       \* of the evaluators
    Computations,   \* per version and node
    Values,         \* what nodes come to
    NotYet,         \* a node the run has not come to
    Settings           \* bounds of runs, of damages and of runs at one time, and cache.max_bytes

Specs == Versions \X Nodes

\* What an evaluator reads next depends only on what it has read: two computations of a node read
\* the same until one of the values they read differs.
Deterministic(computations) ==
    \A c, d \in computations : c # d =>
        \E i \in DOMAIN c.reads \cap DOMAIN d.reads :
            /\ \A j \in 1 .. i - 1 : c.reads[j] = d.reads[j]
            /\ c.reads[i].item = d.reads[i].item /\ c.reads[i].value # d.reads[i].value

ASSUME CacheAssumption ==
    /\ \A spec \in Specs : Deterministic(Computations[spec])
    /\ \A spec \in Specs : \A c \in Computations[spec] : c.value \in Values
    /\ Versions # {} /\ Inputs # {} /\ Goals \subseteq Nodes
    /\ NotYet \notin Values
    /\ Settings \subseteq [runs : Nat, damages : Nat, atOnce : Nat, cap : Nat]

VARIABLES
    setting,       \* the setting at hand
    index,      \* the table `nodes`: per key of a trace its last use
    uses,       \* the use counter
    blobs,      \* the blobs that are there
    damaged,    \* those of them whose bytes hash to something else
    session,        \* per process its run
    tally,      \* runs begun and blobs damaged, for the bounds
    together    \* history: two runs were under way at one time

cacheVars == <<setting, index, uses, blobs, damaged, session, tally, together>>

NoRun == [pc |-> "off", used |-> 0, version |-> CHOOSE v \in Versions : TRUE,
          inputs |-> CHOOSE i \in Inputs : TRUE,
          stack |-> <<>>, memo |-> [n \in Nodes |-> NotYet],
          looked |-> {}, traces |-> [n \in Nodes |-> {}], corrupt |-> {},
          valid |-> {}, queue |-> <<>>, doomed |-> {}]

Going == {p \in Processes : session[p].pc # "off"}
ValueOf(key) == key.computation.value

-----------------------------------------------------------------------------
\* What a run knows.

SpecOf(r, n) == <<r.version, n>>
Known(r, item) == item \in Nodes => r.memo[item] # NotYet
Current(r, item) == IF item \in Nodes THEN r.memo[item] ELSE r.inputs[item]
Fits(r, read) == Known(r, read.item) /\ Current(r, read.item) = read.value
Differs(r, read) == Known(r, read.item) /\ Current(r, read.item) # read.value

\* Session.lookup checks a trace's reads one by one and stops at the first difference; a node it
\* comes to that is not computed yet is computed first (Need). Graph.compute reads the same way.
Holds(r, c) == \A i \in DOMAIN c.reads : Fits(r, c.reads[i])
Fails(r, c) ==
    \E i \in DOMAIN c.reads :
        Differs(r, c.reads[i]) /\ \A j \in 1 .. i - 1 : Fits(r, c.reads[j])
Asks(r, c, item) ==
    \E i \in DOMAIN c.reads :
        /\ c.reads[i].item = item /\ ~Known(r, item)
        /\ \A j \in 1 .. i - 1 : Fits(r, c.reads[j])

-----------------------------------------------------------------------------
\* A run begins.

\* Store.begin reads the use counter, and writes it in a transaction of its own.
Begin(p) ==
    /\ session[p].pc = "off" /\ tally.runs < setting.runs /\ Cardinality(Going) < setting.atOnce
    /\ \E version \in Versions, inputs \in Inputs :
           session' = [session EXCEPT ![p] = [NoRun EXCEPT !.pc = "begin", !.used = uses + 1,
                                          !.version = version, !.inputs = inputs]]
    /\ tally' = [tally EXCEPT !.runs = @ + 1]
    /\ together' = (together \/ Going # {})
    /\ UNCHANGED <<setting, index, uses, blobs, damaged>>

Begun(p) ==
    /\ session[p].pc = "begin"
    /\ uses' = session[p].used /\ session' = [session EXCEPT ![p].pc = "work"]
    /\ UNCHANGED <<setting, index, blobs, damaged, tally, together>>

-----------------------------------------------------------------------------
\* The nodes of a run (core/common.py solve, Graph.cached).

Top(r) == r.stack[Len(r.stack)]
Pop(stack) == SubSeq(stack, 1, Len(stack) - 1)
Working(p) == session[p].pc = "work" /\ session[p].stack # <<>>

\* The next node a run is asked for.
Root(p) ==
    /\ session[p].pc = "work" /\ session[p].stack = <<>>
    /\ \E n \in Goals : session[p].memo[n] = NotYet /\ session' = [session EXCEPT ![p].stack = <<n>>]
    /\ UNCHANGED <<setting, index, uses, blobs, damaged, tally, together>>

\* A mutant: an evaluator's version is no part of a node's spec.
FoundAnyVersion(r, n) == {key \in DOMAIN index : key.spec[2] = n}

Found(r, n) == {key \in DOMAIN index : key.spec = SpecOf(r, n)}

\* Session.traces: the index is asked once for the traces of a node.
Select(p) ==
    /\ Working(p)
    /\ LET n == Top(session[p])
       IN  /\ n \notin session[p].looked
           /\ session' = [session EXCEPT
                  ![p].looked = @ \cup {n},
                  ![p].traces[n] = Found(session[p], n)]
    /\ UNCHANGED <<setting, index, uses, blobs, damaged, tally, together>>

\* The traces of the node at hand that were not met corrupt.
Traces(r) == r.traces[Top(r)] \ r.corrupt
AtHand(p) == Working(p) /\ Top(session[p]) \in session[p].looked

\* A node that is needed first, by the check of a trace or by the computation. One that waits for
\* itself is a defect with which the run fails.
Need(p) ==
    /\ AtHand(p)
    /\ LET r == session[p]
           found == {key.computation : key \in Traces(r)}
       IN  \E item \in Nodes :
               /\ \A i \in DOMAIN r.stack : r.stack[i] # item
               /\ \/ \E c \in found : Asks(r, c, item)
                  \/ /\ \A c \in found : Fails(r, c)
                     /\ \E c \in Computations[SpecOf(r, Top(r))] : Asks(r, c, item)
               /\ session' = [session EXCEPT ![p].stack = Append(@, item)]
    /\ UNCHANGED <<setting, index, uses, blobs, damaged, tally, together>>

\* Session.lookup finds a trace that holds and Store.read_blob its bytes: used only when they hash
\* to its name, and the trace's last use is queued.
Reuse(p) ==
    /\ AtHand(p)
    /\ \E key \in Traces(session[p]) :
           /\ Holds(session[p], key.computation)
           /\ IF ValueOf(key) \in blobs \ damaged
              THEN session' = [session EXCEPT
                       ![p].memo[Top(session[p])] = ValueOf(key), ![p].stack = Pop(@),
                       ![p].valid = @ \cup {ValueOf(key)},
                       ![p].queue = Append(@, [do |-> "touch", key |-> key])]
              ELSE session' = [session EXCEPT ![p].corrupt = @ \cup {key}]
    /\ UNCHANGED <<setting, index, uses, blobs, damaged, tally, together>>

\* Session.save and Store.put: no trace holds, the node is computed. Its blob is written now,
\* unless the right bytes are there or this process has met them; its trace is queued.
Compute(p) ==
    /\ AtHand(p)
    /\ LET r == session[p]
           n == Top(r)
       IN  /\ \A key \in Traces(r) : Fails(r, key.computation)
           /\ \E c \in Computations[SpecOf(r, n)] :
                  /\ Holds(r, c)
                  /\ IF c.value \in r.valid
                     THEN UNCHANGED <<blobs, damaged>>
                     ELSE blobs' = blobs \cup {c.value} /\ damaged' = damaged \ {c.value}
                  /\ session' = [session EXCEPT
                         ![p].memo[n] = c.value, ![p].stack = Pop(@),
                         ![p].valid = @ \cup {c.value},
                         ![p].queue = Append(@, [do |-> "keep",
                             key |-> [spec |-> SpecOf(r, n), computation |-> c]])]
    /\ UNCHANGED <<setting, index, uses, tally, together>>

-----------------------------------------------------------------------------
\* A run ends.

\* Store.flush: what was queued, in order. A trace that is gone is not touched.
KeptKeys(r) == {r.queue[i].key : i \in {j \in DOMAIN r.queue : r.queue[j].do = "keep"}}
Touched(r) == {r.queue[i].key : i \in DOMAIN r.queue}
Flushed(r) ==
    [key \in DOMAIN index \cup KeptKeys(r) |-> IF key \in Touched(r) THEN r.used ELSE index[key]]

Named(keys) == {ValueOf(key) : key \in keys}

\* A mutant: a blob goes with the first trace that named it.
FreedAtOnce(gone, left) == Named(gone)

\* The blobs that no trace names any more.
Freed(gone, left) == Named(gone) \ Named(left)

\* Store.plan: the least recently used traces, until the values that the others name fit; those
\* used at or after `keep` stay.
Plans(rows, keep) ==
    LET old == {key \in DOMAIN rows : rows[key] < keep}
        Over(gone) == Cardinality(Named(DOMAIN rows \ gone)) > setting.cap
    IN  {gone \in SUBSET old :
            /\ \A key \in gone, other \in old \ gone : rows[key] <= rows[other]
            /\ gone = old \/ ~Over(gone)
            /\ gone # {} => \E key \in gone :
                   Over(gone \ {key}) /\ \A other \in gone : rows[other] <= rows[key]}

\* Session.finish: the queue, the eviction and the commit are one transaction; the files follow.
Finish(p) ==
    /\ session[p].pc = "work" /\ session[p].stack = <<>>
    /\ \A n \in Goals : session[p].memo[n] # NotYet
    /\ LET rows == Flushed(session[p])
       IN  \E gone \in Plans(rows, session[p].used) :
               LET left == DOMAIN rows \ gone
               IN  /\ index' = [key \in left |-> rows[key]]
                   /\ session' = [session EXCEPT ![p].pc = "removing",
                                         ![p].doomed = Freed(gone, left)]
    /\ UNCHANGED <<setting, uses, blobs, damaged, tally, together>>

\* Store.remove: the blobs that no trace named when the eviction was planned.
Remove(p) ==
    /\ session[p].pc = "removing"
    /\ \E value \in session[p].doomed :
           /\ blobs' = blobs \ {value} /\ damaged' = damaged \ {value}
           /\ session' = [session EXCEPT ![p].doomed = @ \ {value}, ![p].valid = @ \ {value}]
    /\ UNCHANGED <<setting, index, uses, tally, together>>

Close(p) ==
    /\ session[p].pc = "removing" /\ session[p].doomed = {}
    /\ session' = [session EXCEPT ![p] = NoRun]
    /\ UNCHANGED <<setting, index, uses, blobs, damaged, tally, together>>

\* A run fails, or its process ends, between any two steps: what it did not commit is lost.
RunEnds(p) ==
    /\ session[p].pc # "off" /\ session' = [session EXCEPT ![p] = NoRun]
    /\ UNCHANGED <<setting, index, uses, blobs, damaged, tally, together>>

-----------------------------------------------------------------------------
\* `cache gc --apply`, when no run is in progress: the eviction, then the blobs it frees and those
\* no trace names. It may end before it has removed them all.
Gc ==
    /\ Going = {}
    /\ \E gone \in Plans(index, uses + 1) :
           LET left == DOMAIN index \ gone
           IN  /\ index' = [key \in left |-> index[key]]
               /\ \E removed \in SUBSET (Freed(gone, left) \cup (blobs \ Named(DOMAIN index))) :
                      blobs' = blobs \ removed /\ damaged' = damaged \ removed
    /\ UNCHANGED <<setting, uses, session, tally, together>>

\* The bytes of a blob come to hash to something else.
Damage ==
    /\ tally.damages < setting.damages
    /\ \E value \in blobs : damaged' = damaged \cup {value}
    /\ tally' = [tally EXCEPT !.damages = @ + 1]
    /\ UNCHANGED <<setting, index, uses, blobs, session, together>>

-----------------------------------------------------------------------------
CacheInit ==
    /\ setting \in Settings
    /\ index = <<>> /\ uses = 0 /\ blobs = {} /\ damaged = {}
    /\ session = [p \in Processes |-> NoRun]
    /\ tally = [runs |-> 0, damages |-> 0] /\ together = FALSE

RunStep(p) ==
    \/ Begin(p) \/ Begun(p) \/ Root(p) \/ Select(p) \/ Need(p) \/ Reuse(p) \/ Compute(p)
    \/ Finish(p) \/ Remove(p) \/ Close(p) \/ RunEnds(p)

CacheNext == \/ \E p \in Processes : RunStep(p)
        \/ Gc \/ Damage

CacheSpec == CacheInit /\ [][CacheNext]_cacheVars

-----------------------------------------------------------------------------
\* Whatever other runs keep and evict meanwhile, and whatever is damaged: a node's value in a run,
\* reused or computed, is the one that its evaluator comes to from what this run finds.
ServedAsComputed ==
    \A p \in Processes : \A n \in Nodes :
        session[p].memo[n] # NotYet =>
            \E c \in Computations[SpecOf(session[p], n)] :
                Holds(session[p], c) /\ session[p].memo[n] = c.value

\* As long as runs follow one another, a trace in the index has its blob, wherever a run or a `gc`
\* ended: blobs are written before their traces and removed after them.
IndexHasItsBlobs == ~together => Named(DOMAIN index) \subseteq blobs
=============================================================================
