------------------------------ MODULE MCModelTool -----------------------------
\* Three parts of the model tool that share a run, each in behaviours of its own while the others
\* rest: the engine's worker pool (EnginePool), the cache (Cache) and the watch (Watch).
EXTENDS EnginePool, Cache, Watch

CONSTANTS
    First,      \* what the watched files say at first
    Parts       \* the parts that run

VARIABLES part

-----------------------------------------------------------------------------
\* The cache's graph: `top` reads `x` and then, unless it is 0, `low`; `low` reads `x`, and the second
\* version of its evaluator comes to something else.
Reads(item, value) == [item |-> item, value |-> value]
Comes(reads, value) == [reads |-> reads, value |-> value]

Inputs3 == [{"x"} -> {"0", "1", "2"}]

LowOf(version) ==
    {Comes(<<Reads("x", "0")>>, "A"), Comes(<<Reads("x", "1")>>, "A"),
     Comes(<<Reads("x", "2")>>, IF version = 1 THEN "B" ELSE "A")}

TopOf ==
    {Comes(<<Reads("x", "0")>>, "B")}
        \cup {Comes(<<Reads("x", x), Reads("low", low)>>, IF low = "A" THEN "C" ELSE "A") :
                 x \in {"1", "2"}, low \in {"A", "B"}}

Computed == [spec \in {1, 2} \X {"low", "top"} |-> IF spec[2] = "low" THEN LowOf(spec[1]) ELSE TopOf]

\* Two runs at one time; three that follow one another, with a blob damaged; with more room.
Setting(runs, damages, atOnce, cap) ==
    [runs |-> runs, damages |-> damages, atOnce |-> atOnce, cap |-> cap]
CheckedSettings == {Setting(2, 0, 2, 1), Setting(3, 1, 1, 1), Setting(3, 0, 1, 2)}

\* Two changes and one end of the watch; one change and two ends, with workers kept warm.
Desk(edits, ends, warmed) == [edits |-> edits, ends |-> ends, warm |-> warmed]
CheckedDesks == {Desk(2, 1, FALSE), Desk(1, 2, TRUE)}

-----------------------------------------------------------------------------
MCInit ==
    /\ part \in Parts
    /\ Init
    /\ CacheInit /\ (part # "cache" => setting = CHOOSE s \in Settings : TRUE)
    /\ WatchInit /\ \A f \in Watched : disk[f].bytes \in First
    /\ part # "watch" => /\ desk = CHOOSE d \in Desks : TRUE
                         /\ \A f \in Watched : disk[f].bytes = Absent

MCNext ==
    /\ \/ part = "pool" /\ Next /\ UNCHANGED <<cacheVars, watchVars>>
       \/ part = "cache" /\ CacheNext /\ UNCHANGED <<vars, watchVars>>
       \/ part = "watch" /\ WatchNext /\ UNCHANGED <<vars, cacheVars>>
    /\ UNCHANGED part

MCSpec == MCInit /\ [][MCNext]_<<part, vars, cacheVars, watchVars>> /\ WF_vars(Host)
=============================================================================
