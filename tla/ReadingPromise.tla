--------------------------- MODULE ReadingPromise ---------------------------
(***************************************************************************)
(* What the integration promises of its readings (README, "Entity          *)
(* Behavior"): a reading comes on display only with a packet newer than    *)
(* every one that gave a reading before; it is withdrawn when it can no    *)
(* longer be vouched for; and what was withdrawn or lost in a restart does *)
(* not come back.  Only the removal of the entry forgets its readings.     *)
(***************************************************************************)
EXTENDS Integers

CONSTANTS
    Dates,    \* the packets' timestamps
    Nothing   \* no reading

VARIABLES
    display,  \* the date of the reading on display, or Nothing
    newest    \* the date of the newest reading ever on display, or Nothing

promise == <<display, newest>>

PromiseInit == display = Nothing /\ newest = Nothing

Publish(ts) ==
    /\ newest = Nothing \/ ts > newest
    /\ display' = ts
    /\ newest' = ts

Withdraw ==
    /\ display' = Nothing
    /\ UNCHANGED newest

Forget ==
    /\ display' = Nothing
    /\ newest' = Nothing

PromiseNext == (\E ts \in Dates : Publish(ts)) \/ Withdraw \/ Forget

PromiseSpec == PromiseInit /\ [][PromiseNext]_promise
=============================================================================
