------------------------------ MODULE MCWrites ------------------------------
\* The instance of Writes that TLC checks: eight desks, each with its own writes and bounds.
EXTENDS Writes

CONSTANTS alice, bob

Desk(fields) == [fields |-> fields, scheduling |-> FALSE, versioned |-> TRUE, accounts |-> {alice},
                 online |-> BOOLEAN, presses |-> 1, epochs |-> 1, versions |-> 2, others |-> 2,
                 outages |-> 1]

CheckedDesks ==
    {Desk({"TopBar"}),
     [Desk({"EvidenceDays"}) EXCEPT !.versioned = FALSE],
     [Desk({"Backends"}) EXCEPT !.epochs = 2, !.outages = 0],
     [Desk({"Idle", "Start"}) EXCEPT !.versions = 3, !.outages = 0],
     [Desk({"Idle", "Start"}) EXCEPT !.accounts = {alice, bob}, !.presses = 2, !.versions = 1,
                                     !.others = 1, !.outages = 0],
     [Desk({"Quiet"}) EXCEPT !.online = {FALSE}, !.presses = 2, !.versions = 3, !.others = 1,
                             !.outages = 0],
     [Desk({"Quiet"}) EXCEPT !.versions = 3, !.outages = 0],
     [Desk({}) EXCEPT !.scheduling = TRUE, !.presses = 2, !.outages = 0]}
=============================================================================
