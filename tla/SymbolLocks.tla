---------------------------- MODULE SymbolLocks -----------------------------
(***************************************************************************)
(* What the trading engine promises about markets, without orders, reports *)
(* or money: an execution acquires all the symbols of one trading path at  *)
(* once, only when none of them is held, and gives them back all at once.  *)
(* (src/include/Worker.h:5-7, "keeping track of balance and reserved       *)
(* symbols"; src/include/ReservedTrades.h.)                                *)
(***************************************************************************)
CONSTANTS
    Holders,   \* execution ids
    Locks,     \* symbols
    Bundles    \* the sets of symbols that are acquired together

VARIABLES
    held,      \* live holder -> the bundle it holds
    used       \* holders that have acquired once; an id is never used again

lockVars == <<held, used>>

LocksInit ==
    /\ held = << >>
    /\ used = {}

Acquire(h, bundle) ==
    /\ h \in Holders \ used
    /\ \A g \in DOMAIN held : held[g] \cap bundle = {}
    /\ held' = [g \in DOMAIN held \cup {h} |->
                   IF g = h THEN bundle ELSE held[g]]
    /\ used' = used \cup {h}

Release(h) ==
    /\ h \in DOMAIN held
    /\ held' = [g \in DOMAIN held \ {h} |-> held[g]]
    /\ UNCHANGED used

LocksNext ==
    \/ \E h \in Holders, bundle \in Bundles : Acquire(h, bundle)
    \/ \E h \in Holders : Release(h)

LocksSpec == LocksInit /\ [][LocksNext]_lockVars
=============================================================================
