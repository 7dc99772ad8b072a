----------------------------- MODULE MCCdpRelay -----------------------------
EXTENDS CdpRelay

CONSTANTS t1, t2

\* One command per target; they share an id that Stolosio may choose too.
MCCommands ==
    {[session |-> t1, id |-> -2, method |-> "navigate"],
     [session |-> t2, id |-> -2, method |-> "evaluate"]}
=============================================================================
