----------------------------- MODULE SampleStore -----------------------------
(***************************************************************************)
(* PerificGridPowerSampleStore (store.py): one object for all config       *)
(* entries, called by any number of tasks.  Every call takes the asyncio   *)
(* lock, reads the file the first time (_async_load_data), and a change    *)
(* writes the whole dictionary back before it returns.                     *)
(*                                                                         *)
(* A task waits at three places: for the lock, for Store.async_load and    *)
(* for Store.async_save.  It can be cancelled at each of them, which gives *)
(* the lock up; a file write already handed to the executor then lands or  *)
(* does not.  asyncio.Lock serves its waiters in order: the first task of  *)
(* the queue has the lock.                                                 *)
(***************************************************************************)
EXTENDS Integers, Sequences, SequencesExt

CONSTANTS
    Entries,   \* config entry ids
    Samples,   \* stored samples, of which only equality matters
    Tasks,     \* tasks that may be inside the store at the same time
    None,      \* Python's None: no sample of that entry
    Unloaded   \* _data before the file is read

ASSUME NamesAssumption ==
    /\ None \notin Samples
    /\ Unloaded \notin [Entries -> Samples \cup {None}]

VARIABLES
    data,    \* the dictionary _data, an absent key being None
    disk,    \* the file, an absent key being None
    queue,   \* the lock: its holder, then its waiters
    pc,      \* where each task is
    call,    \* the call each task is or was last in, None before the first
    boot     \* parity of the number of restarts of Home Assistant

vars == <<data, disk, queue, pc, call, boot>>

Call == [kind : {"load", "remove"}, entry : Entries, sample : {None}]
            \cup [kind : {"save"}, entry : Entries, sample : Samples]

Files == [Entries -> Samples \cup {None}]

Init ==
    /\ data = Unloaded
    /\ disk = [e \in Entries |-> None]
    /\ queue = <<>>
    /\ pc = [t \in Tasks |-> "idle"]
    /\ call = [t \in Tasks |-> None]
    /\ boot = 0

-----------------------------------------------------------------------------
HasLock(t) == queue # <<>> /\ t = Head(queue)

Enqueue(t) == Append(queue, t)

Release(t) == RemoveAt(queue, CHOOSE i \in DOMAIN queue : queue[i] = t)

Return(t) ==
    /\ pc' = [pc EXCEPT ![t] = "idle"]
    /\ queue' = Release(t)

(* Once the dictionary d is there the rest of a call runs to its write, or *)
(* to its end if it changes nothing.                                       *)
Changed(d, c) == [d EXCEPT ![c.entry] = c.sample]

MustWrite(d, c) ==
    \/ c.kind = "save"
    \/ c.kind = "remove" /\ d[c.entry] # None

Apply(t, d) ==
    LET c == call[t]
    IN IF MustWrite(d, c)
       THEN /\ data' = Changed(d, c)
            /\ pc' = [pc EXCEPT ![t] = "writing"]
            /\ UNCHANGED queue
       ELSE /\ data' = d
            /\ Return(t)

-----------------------------------------------------------------------------
(* async_load_sample, async_save_sample or async_remove_sample is called *)
Enter(t, c) ==
    /\ pc[t] = "idle"
    /\ call' = [call EXCEPT ![t] = c]
    /\ pc' = [pc EXCEPT ![t] = "waiting"]
    /\ queue' = Enqueue(t)
    /\ UNCHANGED <<data, disk, boot>>

(* the dictionary is used without the lock *)
AcquireUnlocked(t) ==
    /\ pc[t] = "waiting"
    /\ IF data = Unloaded
       THEN /\ pc' = [pc EXCEPT ![t] = "reading"]
            /\ UNCHANGED <<data, queue>>
       ELSE Apply(t, data)
    /\ UNCHANGED <<disk, call, boot>>

Acquire(t) ==
    /\ pc[t] = "waiting"
    /\ HasLock(t)
    /\ IF data = Unloaded
       THEN /\ pc' = [pc EXCEPT ![t] = "reading"]
            /\ UNCHANGED <<data, queue>>
       ELSE Apply(t, data)
    /\ UNCHANGED <<disk, call, boot>>

(* Store.async_load returns *)
ReadFile(t) ==
    /\ pc[t] = "reading"
    /\ Apply(t, disk)
    /\ UNCHANGED <<disk, call, boot>>

(* a call that wrote does not give the lock back *)
WriteFileKeepingLock(t) ==
    /\ pc[t] = "writing"
    /\ disk' = data
    /\ pc' = [pc EXCEPT ![t] = "idle"]
    /\ UNCHANGED <<queue, data, call, boot>>

(* Store.async_save returns *)
WriteFile(t) ==
    /\ pc[t] = "writing"
    /\ disk' = data
    /\ Return(t)
    /\ UNCHANGED <<data, call, boot>>

Cancel(t) ==
    /\ pc[t] # "idle"
    /\ Return(t)
    /\ disk' \in IF pc[t] = "writing" THEN {disk, data} ELSE {disk}
    /\ UNCHANGED <<data, call, boot>>

Crash ==
    /\ data' = Unloaded
    /\ disk' \in IF \E t \in Tasks : pc[t] = "writing" THEN {disk, data} ELSE {disk}
    /\ queue' = <<>>
    /\ pc' = [t \in Tasks |-> "idle"]
    /\ boot' = 1 - boot
    /\ UNCHANGED call

Step(t) == Acquire(t) \/ ReadFile(t) \/ WriteFile(t)

Next ==
    \/ \E t \in Tasks : Step(t) \/ Cancel(t) \/ \E c \in Call : Enter(t, c)
    \/ Crash

(* The event loop runs every task that can run, and files are read and     *)
(* written in finite time.  Nobody has to call, to cancel or to crash.     *)
Spec == Init /\ [][Next]_vars /\ \A t \in Tasks : WF_vars(Step(t))

-----------------------------------------------------------------------------
(* Properties *)

(* The types, and that a task is in the queue once exactly while in a call. *)
TypeOK ==
    /\ data \in Files \cup {Unloaded}
    /\ disk \in Files
    /\ queue \in Seq(Tasks)
    /\ Range(queue) = {t \in Tasks : pc[t] # "idle"}
    /\ IsInjective(queue)
    /\ pc \in [Tasks -> {"idle", "waiting", "reading", "writing"}]
    /\ call \in [Tasks -> Call \cup {None}]
    /\ \A t \in Tasks : pc[t] # "idle" => call[t] \in Call
    /\ boot \in 0 .. 1

(* The first calls of several entries read the file once between them:     *)
(* past the lock there is one task, and the dictionary is replaced by the  *)
(* file's contents only while it is not there.                             *)
OneInside ==
    /\ \A t, u \in Tasks :
          pc[t] \in {"reading", "writing"} /\ pc[u] \in {"reading", "writing"} => t = u
    /\ \A t \in Tasks : pc[t] = "reading" => data = Unloaded

(* When a save returns, the file holds its sample for its entry, and when  *)
(* a removal returns after a write, nothing: no other task's call got in   *)
(* between the change of the dictionary and the write.                     *)
ReturnedIsDurable ==
    [][\A t \in Tasks :
          WriteFile(t) => disk'[call[t].entry] = call[t].sample]_vars

(* Without a restart, no sample of any entry is lost or brought back by    *)
(* the calls of another: the store is the one-entry-at-a-time map.         *)
Map == INSTANCE SampleMap WITH
          known   <- IF data = Unloaded THEN disk ELSE data,
          durable <- disk
ImplementsMap == Map!Spec

(* Every call returns, whatever the other tasks do: the lock is fair, and  *)
(* a cancelled task gives it up.                                           *)
CallsEnd == \A t \in Tasks : pc[t] # "idle" ~> pc[t] = "idle"
=============================================================================
