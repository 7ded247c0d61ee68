-------------------------- MODULE SampleStoreProofs --------------------------
(***************************************************************************)
(* For any numbers of entries, samples and tasks: in the sample store one  *)
(* task is past the lock, what a call returned for is on disk, and the     *)
(* store implements SampleMap.                                             *)
(*                                                                         *)
(* The argument is the invariant Inv.  A task that is past the lock heads  *)
(* the queue (Inside), so that there is one; the dictionary is absent      *)
(* exactly while that task reads the file; and while a task writes, the    *)
(* dictionary still has what its call put there (Unsaved), because to      *)
(* change it another task would have to head the queue.                    *)
(***************************************************************************)
EXTENDS SampleStore, SequenceTheorems, TLAPS

Inside ==
    \A t \in Tasks :
        /\ pc[t] \in {"reading", "writing"} => HasLock(t)
        /\ pc[t] = "reading" => data = Unloaded

Unsaved ==
    \A t \in Tasks :
        pc[t] = "writing" =>
            /\ data # Unloaded
            /\ data[call[t].entry] = call[t].sample

Inv == TypeOK /\ Inside /\ Unsaved

-----------------------------------------------------------------------------
(* The queue. *)

(* A task is taken out of a queue it is in once: the others stay as they   *)
(* were, and so does the head if it was another.                           *)
LEMMA RemoveFacts ==
    ASSUME NEW S, NEW q \in Seq(S), IsInjective(q),
           NEW i \in DOMAIN q
    PROVE  LET r == RemoveAt(q, i)
           IN /\ r \in Seq(S)
              /\ IsInjective(r)
              /\ Range(r) = Range(q) \ {q[i]}
              /\ q[i] # Head(q) => r # <<>> /\ Head(r) = Head(q)
<1> DEFINE r == RemoveAt(q, i)
<1>1. i \in 1 .. Len(q) /\ Len(q) \in Nat
  OBVIOUS
<1> DEFINE before == SubSeq(q, 1, i - 1)
           after  == SubSeq(q, i + 1, Len(q))
<1>10. /\ before \in Seq(S)
      /\ Len(before) = i - 1
      /\ \A k \in 1 .. i - 1 : before[k] = q[k]
  <2>1. \A k \in 1 .. i - 1 : q[k] \in S
    BY <1>1
  <2> QED
    BY <1>1, <2>1, SubSeqProperties
<1>11. /\ after \in Seq(S)
      /\ Len(after) = Len(q) - i
      /\ \A k \in 1 .. Len(q) - i : after[k] = q[i + k]
  <2>1. \A k \in i + 1 .. Len(q) : q[k] \in S
    BY <1>1
  <2>2. /\ after \in Seq(S)
        /\ Len(after) = IF i + 1 <= Len(q) THEN Len(q) - (i + 1) + 1 ELSE 0
        /\ \A k \in 1 .. Len(q) - (i + 1) + 1 : after[k] = q[(i + 1) + k - 1]
    <3>1. i + 1 \in Int /\ Len(q) \in Int
      BY <1>1
    <3> HIDE DEF after
    <3> QED
      BY <3>1, <2>1, SubSeqProperties DEF after
  <2> QED
    BY <1>1, <2>2
<1>12. r = before \o after
  BY DEF RemoveAt
<1> HIDE DEF r, before, after
<1>2. r \in Seq(S) /\ Len(r) = Len(q) - 1
  BY <1>1, <1>10, <1>11, <1>12, ConcatProperties
<1>3. \A k \in 1 .. Len(r) : r[k] = IF k < i THEN q[k] ELSE q[k + 1]
  <2> TAKE k \in 1 .. Len(r)
  <2>1. r[k] = IF k <= i - 1 THEN before[k] ELSE after[k - (i - 1)]
    BY <1>1, <1>2, <1>10, <1>11, <1>12, ConcatProperties
  <2>2. CASE k < i
    BY <2>1, <2>2, <1>1, <1>10
  <2>3. CASE k >= i
    BY <2>1, <2>3, <1>1, <1>2, <1>11
  <2> QED
    BY <2>2, <2>3, <1>1
<1>4. DOMAIN r = 1 .. Len(r) /\ DOMAIN q = 1 .. Len(q)
  BY <1>2
<1>5. IsInjective(r)
  <2>1. SUFFICES ASSUME NEW k \in 1 .. Len(r), NEW l \in 1 .. Len(r), r[k] = r[l]
                 PROVE  k = l
    BY <1>4 DEF IsInjective
  <2> DEFINE At(n) == IF n < i THEN n ELSE n + 1
  <2>2. /\ At(k) \in 1 .. Len(q) /\ r[k] = q[At(k)]
        /\ At(l) \in 1 .. Len(q) /\ r[l] = q[At(l)]
    BY <1>1, <1>2, <1>3
  <2>3. At(k) = At(l)
    BY <2>1, <2>2, <1>4 DEF IsInjective
  <2> QED
    BY <2>3, <1>1
<1>6. Range(r) = Range(q) \ {q[i]}
  <2>1. ASSUME NEW x \in Range(r) PROVE x \in Range(q) /\ x # q[i]
    BY <1>1, <1>2, <1>3, <1>4 DEF Range, IsInjective
  <2>2. ASSUME NEW x \in Range(q), x # q[i] PROVE x \in Range(r)
    <3>1. PICK k \in 1 .. Len(q) : q[k] = x
      BY <1>4 DEF Range
    <3>2. CASE k < i
      BY <3>1, <3>2, <1>1, <1>2, <1>3, <1>4 DEF Range
    <3>3. CASE k > i
      <4>1. k - 1 \in 1 .. Len(r) /\ r[k - 1] = x
        BY <3>1, <3>3, <1>1, <1>2, <1>3
      <4> QED
        BY <4>1, <1>4 DEF Range
    <3> QED
      BY <3>1, <3>2, <3>3, <2>2, <1>1
  <2> QED
    BY <2>1, <2>2
<1>7. q[i] # Head(q) => r # <<>> /\ Head(r) = Head(q)
  <2> SUFFICES ASSUME q[i] # Head(q) PROVE r # <<>> /\ Head(r) = Head(q)
    OBVIOUS
  <2>1. i > 1 /\ 1 \in 1 .. Len(r)
    BY <1>1, <1>2
  <2> QED
    BY <2>1, <1>1, <1>2, <1>3
<1> QED
  BY <1>2, <1>5, <1>6, <1>7 DEF r

(* What is left of the queue when a task returns or is cancelled. *)
LEMMA ReleaseFacts ==
    ASSUME TypeOK, NEW t \in Tasks, pc[t] # "idle"
    PROVE  /\ Release(t) \in Seq(Tasks)
           /\ IsInjective(Release(t))
           /\ Range(Release(t)) = Range(queue) \ {t}
           /\ \A u \in Tasks \ {t} : HasLock(u) =>
                 Release(t) # <<>> /\ Head(Release(t)) = u
<1>1. \E i \in DOMAIN queue : queue[i] = t
  BY DEF TypeOK, Range
<1> DEFINE i == CHOOSE i \in DOMAIN queue : queue[i] = t
<1>2. i \in DOMAIN queue /\ queue[i] = t
  BY <1>1
<1>3. Release(t) = RemoveAt(queue, i)
  BY DEF Release
<1> HIDE DEF i
<1>4. queue \in Seq(Tasks) /\ IsInjective(queue)
  BY DEF TypeOK
<1> QED
  BY <1>2, <1>3, <1>4, RemoveFacts DEF HasLock

(* A new waiter goes to the end. *)
LEMMA EnqueueFacts ==
    ASSUME TypeOK, NEW t \in Tasks, pc[t] = "idle"
    PROVE  /\ Enqueue(t) \in Seq(Tasks)
           /\ IsInjective(Enqueue(t))
           /\ Range(Enqueue(t)) = Range(queue) \cup {t}
           /\ \A u \in Tasks : HasLock(u) => Enqueue(t) # <<>> /\ Head(Enqueue(t)) = u
<1>1. queue \in Seq(Tasks) /\ IsInjective(queue) /\ t \notin Range(queue)
  BY DEF TypeOK
<1> DEFINE r == Enqueue(t)
<1>2. r \in Seq(Tasks) /\ Len(r) = Len(queue) + 1
  BY <1>1 DEF Enqueue
<1>3. \A k \in 1 .. Len(r) : r[k] = IF k <= Len(queue) THEN queue[k] ELSE t
  BY <1>1 DEF Enqueue
<1> HIDE DEF r
<1>4. DOMAIN r = 1 .. Len(r) /\ DOMAIN queue = 1 .. Len(queue) /\ Len(queue) \in Nat
  BY <1>1, <1>2
<1>5. \A k \in 1 .. Len(queue) : queue[k] # t
  BY <1>1, <1>4 DEF Range
<1>6. IsInjective(r)
  BY <1>1, <1>2, <1>3, <1>4, <1>5 DEF IsInjective
<1>7. Range(r) = Range(queue) \cup {t}
  <2>1. Range(r) \subseteq Range(queue) \cup {t}
    BY <1>2, <1>3, <1>4 DEF Range
  <2>2. \A k \in 1 .. Len(queue) : k \in 1 .. Len(r) /\ r[k] = queue[k]
    BY <1>2, <1>3, <1>4
  <2>3. Len(r) \in 1 .. Len(r) /\ r[Len(r)] = t
    BY <1>2, <1>3, <1>4
  <2> QED
    BY <2>1, <2>2, <2>3, <1>4 DEF Range
<1>8. \A u \in Tasks : HasLock(u) => r # <<>> /\ Head(r) = u
  BY <1>1, <1>2, <1>3, <1>4 DEF HasLock
<1> QED
  BY <1>2, <1>6, <1>7, <1>8 DEF r

-----------------------------------------------------------------------------
(* The invariant. *)

LEMMA CallTypes ==
    \A c \in Call : c.entry \in Entries /\ c.sample \in Samples \cup {None}
                        /\ c.kind \in {"load", "save", "remove"}
BY DEF Call

(* The part of the invariant about a step's tasks other than t, which is   *)
(* in the queue or just came: they keep their places.                      *)
LEMMA HeadIsOne ==
    ASSUME NEW t \in Tasks, NEW u \in Tasks, HasLock(t), HasLock(u)
    PROVE  t = u
BY DEF HasLock

LEMMA ChangedType ==
    ASSUME NEW d \in Files, NEW c \in Call
    PROVE  /\ Changed(d, c) \in Files
           /\ Changed(d, c) # Unloaded
           /\ Changed(d, c)[c.entry] = c.sample
BY CallTypes, NamesAssumption DEF Changed, Files

LEMMA InitInv == Init => Inv
<1> SUFFICES ASSUME Init PROVE Inv
  OBVIOUS
<1>1. queue \in Seq(Tasks) /\ Range(queue) = {} /\ IsInjective(queue)
  BY DEF Init, Range, IsInjective
<1>2. \A t \in Tasks : pc[t] = "idle"
  BY DEF Init
<1>3. TypeOK
  BY <1>1, <1>2 DEF Init, TypeOK, Files
<1> QED
  BY <1>2, <1>3 DEF Inv, Inside, Unsaved

(* A call begins. *)
LEMMA EnterInv ==
    ASSUME Inv, NEW t \in Tasks, NEW c \in Call, Enter(t, c)
    PROVE  Inv'
<1>1. TypeOK /\ Inside /\ Unsaved
  BY DEF Inv
<1>2. /\ pc[t] = "idle"
      /\ call' = [call EXCEPT ![t] = c]
      /\ pc' = [pc EXCEPT ![t] = "waiting"]
      /\ queue' = Enqueue(t)
      /\ data' = data /\ disk' = disk /\ boot' = boot
  BY DEF Enter
<1>3. /\ Enqueue(t) \in Seq(Tasks)
      /\ IsInjective(Enqueue(t))
      /\ Range(Enqueue(t)) = Range(queue) \cup {t}
      /\ \A u \in Tasks : HasLock(u) => HasLock(u)'
  BY <1>1, <1>2, EnqueueFacts DEF HasLock
<1>4. TypeOK'
  <2>1. pc' \in [Tasks -> {"idle", "waiting", "reading", "writing"}]
    BY <1>1, <1>2 DEF TypeOK
  <2>2. /\ call' \in [Tasks -> Call \cup {None}]
        /\ \A u \in Tasks : pc'[u] # "idle" => call'[u] \in Call
    BY <1>1, <1>2 DEF TypeOK
  <2>3. Range(queue') = {u \in Tasks : pc'[u] # "idle"}
    BY <1>1, <1>2, <1>3 DEF TypeOK
  <2> QED
    BY <1>1, <1>2, <1>3, <2>1, <2>2, <2>3 DEF TypeOK
<1>5. \A u \in Tasks : pc'[u] \in {"reading", "writing"} =>
          u # t /\ pc'[u] = pc[u] /\ call'[u] = call[u]
  BY <1>1, <1>2 DEF TypeOK
<1>6. Inside'
  BY <1>1, <1>2, <1>3, <1>5 DEF Inside
<1>7. Unsaved'
  BY <1>1, <1>2, <1>5 DEF Unsaved
<1> QED
  BY <1>4, <1>6, <1>7 DEF Inv

(* A call's task leaves the queue: what is left of the invariant. *)
LEMMA ReturnInv ==
    ASSUME Inv, NEW t \in Tasks, pc[t] # "idle", Return(t), UNCHANGED <<call, boot>>,
           data' \in Files \cup {Unloaded}, disk' \in Files,
           \A u \in Tasks \ {t} : pc[u] \in {"reading", "writing"} => data' = data
    PROVE  Inv'
<1>1. TypeOK /\ Inside /\ Unsaved
  BY DEF Inv
<1>2. pc' = [pc EXCEPT ![t] = "idle"] /\ queue' = Release(t)
  BY DEF Return
<1>3. /\ Release(t) \in Seq(Tasks)
      /\ IsInjective(Release(t))
      /\ Range(Release(t)) = Range(queue) \ {t}
      /\ \A u \in Tasks \ {t} : HasLock(u) => HasLock(u)'
  BY <1>1, <1>2, ReleaseFacts DEF HasLock
<1>4. TypeOK'
  <2>1. pc' \in [Tasks -> {"idle", "waiting", "reading", "writing"}]
    BY <1>1, <1>2 DEF TypeOK
  <2>2. \A u \in Tasks : pc'[u] # "idle" => call'[u] \in Call
    BY <1>1, <1>2 DEF TypeOK
  <2>3. Range(queue') = {u \in Tasks : pc'[u] # "idle"}
    BY <1>1, <1>2, <1>3 DEF TypeOK
  <2> QED
    BY <1>1, <1>2, <1>3, <2>1, <2>2, <2>3 DEF TypeOK
<1>5. \A u \in Tasks : pc'[u] \in {"reading", "writing"} =>
          u # t /\ pc'[u] = pc[u] /\ data' = data
  BY <1>1, <1>2 DEF TypeOK
<1>6. Inside'
  BY <1>1, <1>3, <1>5 DEF Inside
<1>7. Unsaved'
  BY <1>1, <1>5 DEF Unsaved
<1> QED
  BY <1>4, <1>6, <1>7 DEF Inv

(* The holder of the lock applies its call to the dictionary. *)
LEMMA ApplyInv ==
    ASSUME Inv, NEW t \in Tasks, NEW d \in Files, HasLock(t), pc[t] # "idle",
           Apply(t, d), UNCHANGED <<disk, call, boot>>
    PROVE  Inv'
<1>1. TypeOK /\ Inside /\ Unsaved
  BY DEF Inv
<1>2. call[t] \in Call
  BY <1>1 DEF TypeOK
<1>3. \A u \in Tasks \ {t} : pc[u] \notin {"reading", "writing"}
  BY <1>1, HeadIsOne DEF Inside
<1>4. CASE MustWrite(d, call[t])
  <2>1. /\ data' = Changed(d, call[t])
        /\ pc' = [pc EXCEPT ![t] = "writing"]
        /\ queue' = queue
    BY <1>4 DEF Apply
  <2>2. data' \in Files /\ data' # Unloaded /\ data'[call[t].entry] = call[t].sample
    BY <1>2, <2>1, ChangedType
  <2>3. \A u \in Tasks : pc'[u] = IF u = t THEN "writing" ELSE pc[u]
    BY <1>1, <2>1 DEF TypeOK
  <2>4. TypeOK'
    <3>1. pc' \in [Tasks -> {"idle", "waiting", "reading", "writing"}]
      BY <1>1, <2>1 DEF TypeOK
    <3>2. {u \in Tasks : pc'[u] # "idle"} = {u \in Tasks : pc[u] # "idle"}
      BY <2>3
    <3> QED
      BY <1>1, <1>2, <2>1, <2>2, <2>3, <3>1, <3>2 DEF TypeOK
  <2>5. Inside'
    BY <1>3, <2>1, <2>3 DEF Inside, HasLock
  <2>6. Unsaved'
    BY <1>3, <2>2, <2>3 DEF Unsaved
  <2> QED
    BY <2>4, <2>5, <2>6 DEF Inv
<1>5. CASE ~MustWrite(d, call[t])
  <2>1. data' = d /\ Return(t)
    BY <1>5 DEF Apply
  <2>2. disk' \in Files
    BY <1>1 DEF TypeOK
  <2> QED
    BY <1>3, <2>1, <2>2, ReturnInv
<1> QED
  BY <1>4, <1>5

LEMMA AcquireInv ==
    ASSUME Inv, NEW t \in Tasks, Acquire(t)
    PROVE  Inv'
<1>1. TypeOK /\ Inside /\ Unsaved
  BY DEF Inv
<1>2. pc[t] = "waiting" /\ HasLock(t) /\ UNCHANGED <<disk, call, boot>>
  BY DEF Acquire
<1>3. CASE data = Unloaded
  <2>1. pc' = [pc EXCEPT ![t] = "reading"] /\ data' = data /\ queue' = queue
    BY <1>3 DEF Acquire
  <2>2. \A u \in Tasks : pc'[u] = IF u = t THEN "reading" ELSE pc[u]
    BY <1>1, <2>1 DEF TypeOK
  <2>3. TypeOK'
    <3>1. pc' \in [Tasks -> {"idle", "waiting", "reading", "writing"}]
      BY <1>1, <2>1 DEF TypeOK
    <3>2. {u \in Tasks : pc'[u] # "idle"} = {u \in Tasks : pc[u] # "idle"}
      BY <1>2, <2>2
    <3>3. \A u \in Tasks : pc'[u] # "idle" => call'[u] \in Call
      BY <1>1, <1>2, <2>2 DEF TypeOK
    <3> QED
      BY <1>1, <1>2, <2>1, <3>1, <3>2, <3>3 DEF TypeOK
  <2>4. Inside'
    BY <1>1, <1>2, <1>3, <2>1, <2>2 DEF Inside, HasLock
  <2>5. Unsaved'
    BY <1>1, <1>2, <2>1, <2>2 DEF Unsaved
  <2> QED
    BY <2>3, <2>4, <2>5 DEF Inv
<1>4. CASE data # Unloaded
  <2>1. data \in Files /\ Apply(t, data)
    BY <1>1, <1>4 DEF Acquire, TypeOK
  <2> QED
    BY <1>2, <2>1, ApplyInv
<1> QED
  BY <1>3, <1>4

LEMMA ReadFileInv ==
    ASSUME Inv, NEW t \in Tasks, ReadFile(t)
    PROVE  Inv'
<1>1. disk \in Files /\ HasLock(t) /\ pc[t] # "idle"
  BY DEF Inv, TypeOK, Inside, ReadFile
<1> QED
  BY <1>1, ApplyInv DEF ReadFile

LEMMA WriteFileInv ==
    ASSUME Inv, NEW t \in Tasks, WriteFile(t)
    PROVE  Inv'
<1>1. /\ pc[t] = "writing" /\ disk' = data /\ Return(t)
      /\ data' = data /\ UNCHANGED <<call, boot>>
  BY DEF WriteFile
<1>2. data \in Files
  BY <1>1 DEF Inv, TypeOK, Unsaved
<1> QED
  BY <1>1, <1>2, ReturnInv

LEMMA CancelInv ==
    ASSUME Inv, NEW t \in Tasks, Cancel(t)
    PROVE  Inv'
<1>1. /\ pc[t] # "idle" /\ Return(t)
      /\ disk' \in IF pc[t] = "writing" THEN {disk, data} ELSE {disk}
      /\ data' = data /\ UNCHANGED <<call, boot>>
  BY DEF Cancel
<1>2. disk' \in Files /\ data' \in Files \cup {Unloaded}
  BY <1>1 DEF Inv, TypeOK, Unsaved
<1> QED
  BY <1>1, <1>2, ReturnInv

LEMMA CrashInv ==
    ASSUME Inv, Crash
    PROVE  Inv'
<1>1. TypeOK /\ Unsaved
  BY DEF Inv
<1>2. disk' \in Files
  BY <1>1 DEF Crash, TypeOK, Unsaved
<1>3. queue' \in Seq(Tasks) /\ Range(queue') = {} /\ IsInjective(queue')
  BY DEF Crash, Range, IsInjective
<1>4. \A t \in Tasks : pc'[t] = "idle"
  BY DEF Crash
<1>5. TypeOK'
  <2>1. boot' \in 0 .. 1
    BY <1>1 DEF Crash, TypeOK
  <2>2. pc' \in [Tasks -> {"idle", "waiting", "reading", "writing"}]
    BY DEF Crash
  <2> QED
    BY <1>1, <1>2, <1>3, <1>4, <2>1, <2>2 DEF Crash, TypeOK
<1> QED
  BY <1>4, <1>5 DEF Inv, Inside, Unsaved

LEMMA NextInv == Inv /\ [Next]_vars => Inv'
<1> SUFFICES ASSUME Inv, [Next]_vars PROVE Inv'
  OBVIOUS
<1>1. CASE Crash
  BY <1>1, CrashInv
<1>2. CASE UNCHANGED vars
  BY <1>2 DEF vars, Inv, TypeOK, Inside, Unsaved, HasLock
<1>3. ASSUME NEW t \in Tasks, Step(t) \/ Cancel(t) PROVE Inv'
  BY <1>3, AcquireInv, ReadFileInv, WriteFileInv, CancelInv DEF Step
<1>4. ASSUME NEW t \in Tasks, NEW c \in Call, Enter(t, c) PROVE Inv'
  BY <1>4, EnterInv
<1> QED
  BY <1>1, <1>2, <1>3, <1>4 DEF Next

THEOREM Invariance == Spec => []Inv
BY InitInv, NextInv, PTL DEF Spec

-----------------------------------------------------------------------------
(* The types hold, and the queue is that of the tasks in a call: the       *)
(* asyncio lock never has a waiter twice, nor one that went away.          *)
THEOREM TypeCorrect == Spec => []TypeOK
<1>1. Inv => TypeOK
  BY DEF Inv
<1> QED
  BY <1>1, Invariance, PTL

(* However many tasks call and are cancelled, one at a time reads or       *)
(* writes the file, and the dictionary is read once.                       *)
THEOREM OneInsideCorrect == Spec => []OneInside
<1>1. Inv => OneInside
  BY HeadIsOne DEF Inv, Inside, OneInside
<1> QED
  BY <1>1, Invariance, PTL

(* When a change returns, the file has it. *)
THEOREM ReturnedIsDurableCorrect == Spec => ReturnedIsDurable
<1>1. Inv /\ [Next]_vars =>
        [\A t \in Tasks : WriteFile(t) => disk'[call[t].entry] = call[t].sample]_vars
  BY DEF Inv, Unsaved, WriteFile
<1> QED
  BY <1>1, Invariance, PTL DEF Spec, ReturnedIsDurable

-----------------------------------------------------------------------------
(* The refinement: what a load would return is the dictionary, or the file *)
(* while there is no dictionary.                                           *)

Known == IF data = Unloaded THEN disk ELSE data

LEMMA MapInit == Init => Map!Init
BY DEF Init, Map!Init

(* A call applied to the dictionary, or to the file's contents that become *)
(* the dictionary, changes one entry or nothing.                           *)
LEMMA ApplyStep ==
    ASSUME Inv, NEW t \in Tasks, pc[t] # "idle", Apply(t, Known), UNCHANGED <<disk, boot>>
    PROVE  [Map!Next]_(Map!vars)
<1>1. Known \in Files /\ call[t] \in Call
  BY DEF Inv, TypeOK, Known
<1>2. Known # Unloaded
  BY <1>1, NamesAssumption DEF Files
<1>3. CASE data' = Known
  <2>1. Known' = Known
    BY <1>2, <1>3 DEF Known
  <2> QED
    BY <2>1 DEF Known, Map!vars
<1>4. CASE data' = Changed(Known, call[t])
  <2>1. data' # Unloaded
    BY <1>1, <1>4, ChangedType
  <2>2. /\ call[t].entry \in Entries /\ call[t].sample \in Samples \cup {None}
        /\ Known' = [Known EXCEPT ![call[t].entry] = call[t].sample]
    BY <1>1, <1>4, <2>1, CallTypes DEF Known, Changed
  <2>3. Map!Change(call[t].entry)
    BY <2>2 DEF Map!Change, Known
  <2> QED
    BY <2>2, <2>3 DEF Map!Next
<1> QED
  BY <1>3, <1>4 DEF Apply

LEMMA MapStep == Inv /\ [Next]_vars => [Map!Next]_(Map!vars)
<1> SUFFICES ASSUME Inv, [Next]_vars PROVE [Map!Next]_(Map!vars)
  OBVIOUS
<1>1. TypeOK /\ Inside /\ Unsaved
  BY DEF Inv
<1>2. ASSUME UNCHANGED <<data, disk, boot>> PROVE [Map!Next]_(Map!vars)
  BY <1>2 DEF Map!vars
<1>3. ASSUME data # Unloaded, disk' = data, UNCHANGED <<data, boot>>
      PROVE  [Map!Next]_(Map!vars)
  BY <1>3 DEF Map!Next, Map!Flush
<1>4. ASSUME NEW t \in Tasks, Acquire(t) PROVE [Map!Next]_(Map!vars)
  <2>1. CASE data = Unloaded
    BY <1>2, <1>4, <2>1 DEF Acquire
  <2>2. CASE data # Unloaded
    <3>1. Apply(t, Known) /\ pc[t] # "idle" /\ UNCHANGED <<disk, boot>>
      BY <1>4, <2>2 DEF Acquire, Known
    <3> QED
      BY <3>1, ApplyStep
  <2> QED
    BY <2>1, <2>2
<1>5. ASSUME NEW t \in Tasks, ReadFile(t) PROVE [Map!Next]_(Map!vars)
  <2>1. data = Unloaded /\ Apply(t, disk) /\ pc[t] # "idle" /\ UNCHANGED <<disk, boot>>
    BY <1>1, <1>5 DEF ReadFile, Inside
  <2>2. Apply(t, Known)
    BY <2>1 DEF Known
  <2> QED
    BY <2>1, <2>2, ApplyStep
<1>6. ASSUME NEW t \in Tasks, WriteFile(t) PROVE [Map!Next]_(Map!vars)
  BY <1>1, <1>3, <1>6 DEF WriteFile, Unsaved
<1>7. ASSUME NEW t \in Tasks, Cancel(t) PROVE [Map!Next]_(Map!vars)
  BY <1>1, <1>2, <1>3, <1>7 DEF Cancel, Unsaved
<1>8. ASSUME NEW t \in Tasks, NEW c \in Call, Enter(t, c) PROVE [Map!Next]_(Map!vars)
  BY <1>2, <1>8 DEF Enter
<1>9. CASE Crash
  <2>1. /\ data' = Unloaded /\ boot' = 1 - boot
        /\ disk' \in {disk, Known}
    BY <1>1, <1>9 DEF Crash, Unsaved, Known
  <2> QED
    BY <2>1 DEF Known, Map!Next, Map!Restart
<1> QED
  BY <1>2, <1>4, <1>5, <1>6, <1>7, <1>8, <1>9 DEF Next, Step, vars

(* Without a restart no entry's sample is lost or brought back by a call   *)
(* of another entry: every step of the store is a step of the map.         *)
THEOREM ImplementsMapCorrect == Spec => ImplementsMap
BY MapInit, MapStep, Invariance, PTL DEF Spec, ImplementsMap, Map!Spec
=============================================================================
