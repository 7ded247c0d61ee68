------------------------------ MODULE SampleMap ------------------------------
(***************************************************************************)
(* What the sample store promises its callers: a map from config entries   *)
(* to samples in which each change is of one entry at a time, with a       *)
(* durable copy that only ever becomes the whole map as it stands.  The    *)
(* map falls back to the durable copy when Home Assistant restarts and at  *)
(* no other time.                                                          *)
(***************************************************************************)
EXTENDS Integers

CONSTANTS Entries, Samples, None

VARIABLES
    known,    \* what a load returns
    durable,  \* what survives a restart
    boot      \* parity of the number of restarts

vars == <<known, durable, boot>>

Init ==
    /\ known = [e \in Entries |-> None]
    /\ durable = known
    /\ boot = 0

(* a save or a removal: one entry changes *)
Change(e) ==
    /\ \E v \in Samples \cup {None} : known' = [known EXCEPT ![e] = v]
    /\ UNCHANGED <<durable, boot>>

Flush ==
    /\ durable' = known
    /\ UNCHANGED <<known, boot>>

(* the interrupted flush may still reach the durable copy *)
Restart ==
    /\ durable' \in {durable, known}
    /\ known' = durable'
    /\ boot' = 1 - boot

Next == (\E e \in Entries : Change(e)) \/ Flush \/ Restart

Spec == Init /\ [][Next]_vars
=============================================================================
