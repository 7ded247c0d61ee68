-------------------------- MODULE PerificApiProofs --------------------------
(***************************************************************************)
(* What the client makes of a body, for bodies of any length and every     *)
(* meter, age and instant.                                                 *)
(***************************************************************************)
EXTENDS PerificApi, SequenceTheorems, WellFoundedInduction, TLAPS

(* A history of the answer: it is what Parse made of the body. *)
AnswerInv ==
    /\ answer = None => body = None
    /\ body # None => /\ call # None
                      /\ \E at \in Instants : answer = Parse(call, body, at)

IInv == TypeOK /\ AnswerInv

-----------------------------------------------------------------------------
(* A non-empty set of numbers has a least one, and Min is it. *)
LEMMA MinFacts ==
    ASSUME NEW T, T \subseteq Nat, T # {}
    PROVE  Min(T) \in T /\ \A y \in T : Min(T) <= y
  <1> DEFINE R == OpToRel(<, Nat)
  <1>1. IsWellFoundedOn(R, Nat)
    BY NatLessThanWellFounded
  <1>2. \A x, y \in Nat : <<x, y>> \in R <=> x < y
    BY DEF OpToRel
  <1> HIDE DEF R
  <1>3. PICK x \in T : \A y \in T : ~ (<<y, x>> \in R)
    BY <1>1, WFMin
  <1>4. \A y \in T : ~ (y < x)
    BY <1>2, <1>3
  <1>5. \A y \in T : x \in Int /\ y \in Int
    OBVIOUS
  <1>6. \E z \in T : \A y \in T : z =< y
    BY <1>4, <1>5
  <1> QED BY <1>6 DEF Min

(* The indices of a body are numbers from one on. *)
LEMMA BodyFacts ==
    ASSUME NEW packets \in Body
    PROVE  /\ DOMAIN packets = 1 .. Len(packets)
           /\ DOMAIN packets \subseteq Nat
           /\ \A i \in DOMAIN packets : packets[i] \in Packet \cup {Malformed}
  BY DEF Body

LEMMA BodiesAreBodies == Bodies \subseteq Body
  <1> SUFFICES ASSUME NEW n \in 1 .. MaxPackets,
                      NEW b \in [1 .. n -> Packet \cup {Malformed}]
               PROVE  b \in Body
    BY DEF Bodies
  <1>1. n \in Nat /\ n > 0
    BY ApiAssumption
  <1>2. b \in Seq(Packet \cup {Malformed}) /\ Len(b) = n
    BY <1>1
  <1>3. b # <<>>
    BY <1>1, <1>2
  <1> QED BY <1>2, <1>3 DEF Body

(* One packet: what it takes to get a sample, or the stale error, from it. *)
LEMMA ParsePacketFacts ==
    ASSUME NEW p \in Packet, NEW maxAge, NEW at
    PROVE  LET r == ParsePacket(p, maxAge, at)
               complete == Malformed \notin {p.hwi, p.hwo, p.ts}
           IN /\ r.problem \in {NoProblem, StaleError, DataError}
              /\ r.problem = NoProblem =>
                    /\ complete /\ p.ItemId # Malformed
                    /\ ~Stale(p.ts, maxAge, at)
                    /\ r = Gives(<<SampleOf(p)>>)
              /\ r.problem = StaleError =>
                    /\ complete /\ Stale(p.ts, maxAge, at)
                    /\ r = Stales(p.ts)
              /\ r.problem = DataError => r = Fails(DataError)
              /\ complete /\ p.ItemId # Malformed => r.problem # DataError
  BY DEF ParsePacket, Fails, Stales, Gives, NoProblem, StaleError, DataError

LEMMA SampleType ==
    ASSUME NEW p \in Packet, Malformed \notin {p.hwi, p.hwo, p.ts}, p.ItemId # Malformed
    PROVE  SampleOf(p) \in Sample
  BY DEF Packet, SampleOf, Sample, Identifier, JsonId

(* A poll of a meter reads the meter's first packet, or fails. *)
LEMMA ParseLatestFacts ==
    ASSUME NEW packets \in Body, NEW item \in Items, NEW maxAge, NEW at,
           ParseLatest(packets, item, maxAge, at) # Fails(DataError)
    PROVE  \E i \in DOMAIN packets :
              /\ IsFirstOf(i, packets, item)
              /\ packets[i] \in Packet
              /\ ParseLatest(packets, item, maxAge, at) = ParsePacket(packets[i], maxAge, at)
  <1> DEFINE stops == StopsAt(packets, item)
             i == Min(stops)
  <1>1. item # None
    BY ApiAssumption
  <1>2. /\ stops # {} /\ packets[i] # Malformed /\ packets[i].ItemId # Malformed
        /\ ParseLatest(packets, item, maxAge, at) = ParsePacket(packets[i], maxAge, at)
    BY <1>1 DEF ParseLatest
  <1>3. stops \subseteq DOMAIN packets /\ stops \subseteq Nat
    BY BodyFacts DEF StopsAt
  <1>4. i \in stops /\ \A j \in stops : i <= j
    BY <1>2, <1>3, MinFacts
  <1>5. i \in DOMAIN packets /\ i \in Nat
    BY <1>3, <1>4
  <1>6. Identifier(packets[i].ItemId) = item
    BY <1>2, <1>4 DEF StopsAt
  <1>7. ASSUME NEW j \in DOMAIN packets, j < i
        PROVE  j \notin stops
    <2>1. j \in Nat
      BY BodyFacts
    <2> QED BY <1>4, <1>5, <1>7, <2>1
  <1>8. IsFirstOf(i, packets, item)
    BY <1>2, <1>6, <1>7 DEF IsFirstOf, StopsAt
  <1>9. packets[i] \in Packet
    BY <1>2, <1>5, BodyFacts
  <1> QED BY <1>2, <1>5, <1>8, <1>9

(* The same with no meter given: the only packet there is. *)
LEMMA ParseOnlyFacts ==
    ASSUME NEW packets \in Body, NEW maxAge, NEW at,
           ParseLatest(packets, None, maxAge, at) # Fails(DataError)
    PROVE  \E p \in Packet : ParseLatest(packets, None, maxAge, at) = ParsePacket(p, maxAge, at)
  <1> DEFINE i == Min(DOMAIN packets)
  <1>1. DOMAIN packets # {} /\ packets[i] # Malformed
        /\ ParseLatest(packets, None, maxAge, at) = ParsePacket(packets[i], maxAge, at)
    BY DEF ParseLatest
  <1>2. i \in DOMAIN packets
    BY <1>1, BodyFacts, MinFacts
  <1> QED BY <1>1, <1>2, BodyFacts

(* Discovery reads every packet, or none. *)
LEMMA ParseAllFacts ==
    ASSUME NEW packets \in Body, NEW maxAge, NEW at
    PROVE  LET r == ParseAll(packets, maxAge, at)
           IN \/ \E i \in DOMAIN packets :
                    /\ r = ParseElement(packets[i], maxAge, at)
                    /\ r.problem # NoProblem
              \/ /\ r = Gives([i \in DOMAIN packets |-> SampleOf(packets[i])])
                 /\ \A i \in DOMAIN packets :
                       /\ packets[i] \in Packet
                       /\ ParsePacket(packets[i], maxAge, at).problem = NoProblem
  <1> DEFINE problems == {i \in DOMAIN packets :
                             ParseElement(packets[i], maxAge, at).problem # NoProblem}
  <1>1. CASE problems # {}
    <2>1. problems \subseteq Nat
      BY BodyFacts
    <2>2. Min(problems) \in problems
      BY <1>1, <2>1, MinFacts
    <2> QED BY <1>1, <2>2 DEF ParseAll
  <1>2. CASE problems = {}
    <2>1. \A i \in DOMAIN packets : ParseElement(packets[i], maxAge, at).problem = NoProblem
      BY <1>2
    <2>2. \A i \in DOMAIN packets : packets[i] # Malformed
      BY <2>1 DEF ParseElement, Fails, DataError, NoProblem
    <2> QED BY <1>2, <2>1, <2>2, BodyFacts DEF ParseAll, ParseElement
  <1> QED BY <1>1, <1>2

(* Each outcome is an answer. *)
LEMMA FailsType ==
    ASSUME NEW problem \in Problems
    PROVE  Fails(problem) \in Answer
  BY DEF Fails, Answer

LEMMA ParsePacketType ==
    ASSUME NEW p \in Packet, NEW maxAge, NEW at
    PROVE  ParsePacket(p, maxAge, at) \in Answer
  <1> DEFINE r == ParsePacket(p, maxAge, at)
  <1>1. CASE r.problem = NoProblem
    <2>1. SampleOf(p) \in Sample /\ r = Gives(<<SampleOf(p)>>)
      BY <1>1, ParsePacketFacts, SampleType
    <2> QED BY <2>1 DEF Gives, Answer, Problems
  <1>2. CASE r.problem = StaleError
    <2>1. r = Stales(p.ts) /\ p.ts \in Timestamps
      BY <1>2, ParsePacketFacts DEF Packet
    <2> QED BY <2>1 DEF Stales, Answer, Problems
  <1>3. CASE r.problem = DataError
    BY <1>3, ParsePacketFacts, FailsType DEF Problems
  <1> QED BY <1>1, <1>2, <1>3, ParsePacketFacts

LEMMA ParseType ==
    ASSUME NEW c \in Calls, NEW packets \in Body, NEW at
    PROVE  Parse(c, packets, at) \in Answer
  <1>1. DataError \in Problems /\ NoProblem \in Problems
    BY DEF Problems
  <1>2. CASE c.all
    <2> DEFINE r == ParseAll(packets, c.maxAge, at)
    <2>1. CASE \E i \in DOMAIN packets : r = ParseElement(packets[i], c.maxAge, at)
      BY <1>1, <2>1, BodyFacts, FailsType, ParsePacketType, <1>2 DEF ParseElement, Parse
    <2>2. CASE /\ r = Gives([i \in DOMAIN packets |-> SampleOf(packets[i])])
               /\ \A i \in DOMAIN packets :
                     /\ packets[i] \in Packet
                     /\ ParsePacket(packets[i], c.maxAge, at).problem = NoProblem
      <3>1. ASSUME NEW i \in DOMAIN packets PROVE SampleOf(packets[i]) \in Sample
        <4>1. /\ packets[i] \in Packet
              /\ ParsePacket(packets[i], c.maxAge, at).problem = NoProblem
          BY <2>2
        <4>2. /\ Malformed \notin {packets[i].hwi, packets[i].hwo, packets[i].ts}
              /\ packets[i].ItemId # Malformed
          BY <4>1, ParsePacketFacts
        <4> QED BY <4>1, <4>2, SampleType
      <3>2. [i \in DOMAIN packets |-> SampleOf(packets[i])] \in Seq(Sample)
        BY <3>1, BodyFacts DEF Body
      <3> QED BY <1>1, <1>2, <2>2, <3>2 DEF Gives, Answer, Parse
    <2> QED BY <1>2, <2>1, <2>2, ParseAllFacts DEF Parse
  <1>3. CASE ~c.all
    <2>1. c.item \in Items \cup {None}
      BY <1>3 DEF Calls, Poll, Discovery
    <2>2. Parse(c, packets, at) = ParseLatest(packets, c.item, c.maxAge, at)
      BY <1>3 DEF Parse
    <2>3. CASE Parse(c, packets, at) = Fails(DataError)
      BY <1>1, <2>3, FailsType
    <2>4. CASE Parse(c, packets, at) # Fails(DataError)
      BY <2>1, <2>2, <2>4, ParseLatestFacts, ParseOnlyFacts, ParsePacketType
    <2> QED BY <2>3, <2>4
  <1> QED BY <1>2, <1>3

-----------------------------------------------------------------------------
LEMMA InitIInv == Init => IInv
  BY DEF Init, IInv, TypeOK, AnswerInv

LEMMA NextIInv == IInv /\ [Next]_vars => IInv'
  <1> SUFFICES ASSUME IInv, [Next]_vars PROVE IInv'
    OBVIOUS
  <1> USE DEF IInv, TypeOK
  <1>1. ASSUME NEW c \in Calls, Ask(c) PROVE IInv'
    BY <1>1 DEF Ask, AnswerInv
  <1>2. CASE Tick
    BY <1>2 DEF Tick, AnswerInv
  <1>3. ASSUME Waiting, NEW packets \in Bodies, Reply(packets) PROVE IInv'
    <2>1. packets \in Body /\ call \in Calls /\ call # None
      BY <1>3, BodiesAreBodies DEF Waiting
    <2>2. answer' \in Answer
      BY <1>3, <2>1, ParseType DEF Reply
    <2> QED BY <1>3, <2>1, <2>2, AnswerAssumption DEF Reply, AnswerInv
  <1>4. CASE NoReply
    <2>1. answer' \in Answer /\ body = None /\ UNCHANGED <<now, call, body>>
      BY <1>4, FailsType DEF NoReply, Waiting, Problems, AnswerInv
    <2> QED BY <2>1 DEF AnswerInv
  <1>5. CASE UNCHANGED vars
    BY <1>5 DEF vars, AnswerInv
  <1> QED BY <1>1, <1>2, <1>3, <1>4, <1>5 DEF Next

(* The client's state keeps its types, whatever comes back. *)
THEOREM TypeCorrect == Spec => []TypeOK
  <1>1. IInv => TypeOK
    BY DEF IInv
  <1> QED BY <1>1, InitIInv, NextIInv, PTL DEF Spec

(* With it, an answer with a body is what Parse made of that body. *)
THEOREM Invariance == Spec => []IInv
  BY InitIInv, NextIInv, PTL DEF Spec

-----------------------------------------------------------------------------
(* A call that fails otherwise gives neither a sample nor the stale error. *)
LEMMA FailsFacts ==
    ASSUME NEW problem \in {AuthError, ResponseError, ConnectionError, DataError}
    PROVE  Fails(problem).problem \notin {NoProblem, StaleError}
  <1>1. Fails(problem).problem = problem
    BY DEF Fails
  <1>2. problem # NoProblem
    BY DEF AuthError, ResponseError, ConnectionError, DataError, NoProblem
  <1>3. problem # StaleError
    BY DEF AuthError, ResponseError, ConnectionError, DataError, StaleError
  <1> QED BY <1>1, <1>2, <1>3

(* A poll of a meter that gets a sample or a stale answer. *)
LEMMA PollFacts ==
    ASSUME NEW packets \in Body, NEW item \in Items, NEW at,
           Parse(Poll(item), packets, at).problem \in {NoProblem, StaleError}
    PROVE  \E i \in DOMAIN packets :
              /\ IsFirstOf(i, packets, item)
              /\ packets[i] \in Packet
              /\ Parse(Poll(item), packets, at) = ParsePacket(packets[i], MaxAge, at)
  <1>1. Parse(Poll(item), packets, at) = ParseLatest(packets, item, MaxAge, at)
    BY DEF Parse, Poll
  <1>2. ParseLatest(packets, item, MaxAge, at) # Fails(DataError)
    BY <1>1, FailsFacts
  <1> QED BY <1>1, <1>2, ParseLatestFacts

(* _raise_if_stale with a greatest age is the age's two bounds. *)
LEMMA StaleFacts ==
    ASSUME NEW ts \in Timestamps, NEW at \in Instants
    PROVE  Stale(ts, MaxAge, at) <=> ~WithinAge(ts, at)
  <1>1. MaxAge # None
    BY ApiAssumption, AgeAssumption
  <1>2. ts \in Int
    BY NumbersAssumption
  <1>3. at \in Int /\ MaxAge \in Int
    BY ApiAssumption, AgeAssumption
  <1>4. (ts > at + MaxAge \/ at - ts > MaxAge) <=> ~(ts - at <= MaxAge /\ at - ts <= MaxAge)
    BY <1>2, <1>3
  <1> QED BY <1>1, <1>4 DEF Stale, WithinAge

(* The step that ends a poll with a sample or a stale answer has a body. *)
LEMMA PollStep ==
    ASSUME IInv, Next, answer = None, answer' # None,
           NEW item \in Items, call = Poll(item),
           answer'.problem \in {NoProblem, StaleError}
    PROVE  \E i \in DOMAIN body' :
              /\ IsFirstOf(i, body', item)
              /\ body'[i] \in Packet
              /\ answer' = ParsePacket(body'[i], MaxAge, now)
  <1>1. ASSUME NEW c \in Calls, Ask(c) PROVE FALSE
    BY <1>1 DEF Ask
  <1>2. CASE Tick
    BY <1>2 DEF Tick
  <1>3. ASSUME NEW packets \in Bodies, Reply(packets)
        PROVE  \E i \in DOMAIN body' :
                  /\ IsFirstOf(i, body', item)
                  /\ body'[i] \in Packet
                  /\ answer' = ParsePacket(body'[i], MaxAge, now)
    <2>1. packets \in Body
      BY BodiesAreBodies
    <2>2. body' = packets /\ answer' = Parse(Poll(item), packets, now)
      BY <1>3 DEF Reply
    <2> QED BY <2>1, <2>2, PollFacts
  <1>4. CASE NoReply
    BY <1>4, FailsFacts DEF NoReply
  <1> QED BY <1>1, <1>2, <1>3, <1>4 DEF Next

(* A poll returns the meter's own first packet, within the age bound of    *)
(* the instant at which the client's _request came back.                   *)
THEOREM PollIsOwnAndFreshCorrect == Spec => PollIsOwnAndFresh
  <1>1. ASSUME IInv, [Next]_vars, answer = None, answer' # None,
               NEW item \in Items, call = Poll(item),
               answer'.problem = NoProblem
        PROVE  \E i \in DOMAIN body' :
                  /\ IsFirstOf(i, body', item)
                  /\ answer'.samples = <<SampleOf(body'[i])>>
                  /\ WithinAge(body'[i].ts, now)
    <2>1. Next
      BY <1>1 DEF vars
    <2>2. PICK i \in DOMAIN body' :
              /\ IsFirstOf(i, body', item)
              /\ body'[i] \in Packet
              /\ answer' = ParsePacket(body'[i], MaxAge, now)
      BY <1>1, <2>1, PollStep
    <2>3. /\ Malformed \notin {body'[i].hwi, body'[i].hwo, body'[i].ts}
          /\ ~Stale(body'[i].ts, MaxAge, now)
          /\ answer' = Gives(<<SampleOf(body'[i])>>)
      BY <1>1, <2>2, ParsePacketFacts
    <2>4. body'[i].ts \in Timestamps /\ now \in Instants
      BY <1>1, <2>2, <2>3 DEF Packet, IInv, TypeOK
    <2>5. WithinAge(body'[i].ts, now)
      BY <2>3, <2>4, StaleFacts
    <2> QED BY <2>2, <2>3, <2>5 DEF Gives
  <1>2. IInv /\ [Next]_vars =>
           [ /\ answer = None /\ answer' # None
             /\ call \in {Poll(item) : item \in Items}
             /\ answer'.problem = NoProblem
             => \E i \in DOMAIN body' :
                   /\ IsFirstOf(i, body', call.item)
                   /\ answer'.samples = <<SampleOf(body'[i])>>
                   /\ WithinAge(body'[i].ts, now) ]_vars
    <2> SUFFICES ASSUME IInv, [Next]_vars, answer = None, answer' # None,
                        NEW item \in Items, call = Poll(item),
                        answer'.problem = NoProblem
                 PROVE  \E i \in DOMAIN body' :
                           /\ IsFirstOf(i, body', call.item)
                           /\ answer'.samples = <<SampleOf(body'[i])>>
                           /\ WithinAge(body'[i].ts, now)
      OBVIOUS
    <2>1. call.item = item
      BY DEF Poll
    <2> QED BY <1>1, <2>1
  <1> QED BY <1>2, Invariance, PTL DEF Spec, PollIsOwnAndFresh

(* A stale answer is the meter's own packet's, and that is out of bounds. *)
THEOREM StaleIsOwnCorrect == Spec => StaleIsOwn
  <1>1. ASSUME IInv, [Next]_vars, answer = None, answer' # None,
               NEW item \in Items, call = Poll(item),
               answer'.problem = StaleError
        PROVE  \E i \in DOMAIN body' :
                  /\ IsFirstOf(i, body', item)
                  /\ answer'.timestamp = body'[i].ts
                  /\ ~WithinAge(body'[i].ts, now)
    <2>1. Next
      BY <1>1 DEF vars
    <2>2. PICK i \in DOMAIN body' :
              /\ IsFirstOf(i, body', item)
              /\ body'[i] \in Packet
              /\ answer' = ParsePacket(body'[i], MaxAge, now)
      BY <1>1, <2>1, PollStep
    <2>3. /\ Malformed \notin {body'[i].hwi, body'[i].hwo, body'[i].ts}
          /\ Stale(body'[i].ts, MaxAge, now)
          /\ answer' = Stales(body'[i].ts)
      BY <1>1, <2>2, ParsePacketFacts
    <2>4. body'[i].ts \in Timestamps /\ now \in Instants
      BY <1>1, <2>2, <2>3 DEF Packet, IInv, TypeOK
    <2>5. ~WithinAge(body'[i].ts, now)
      BY <2>3, <2>4, StaleFacts
    <2> QED BY <2>2, <2>3, <2>5 DEF Stales
  <1>2. IInv /\ [Next]_vars =>
           [ /\ answer = None /\ answer' # None
             /\ call \in {Poll(item) : item \in Items}
             /\ answer'.problem = StaleError
             => \E i \in DOMAIN body' :
                   /\ IsFirstOf(i, body', call.item)
                   /\ answer'.timestamp = body'[i].ts
                   /\ ~WithinAge(body'[i].ts, now) ]_vars
    <2> SUFFICES ASSUME IInv, [Next]_vars, answer = None, answer' # None,
                        NEW item \in Items, call = Poll(item),
                        answer'.problem = StaleError
                 PROVE  \E i \in DOMAIN body' :
                           /\ IsFirstOf(i, body', call.item)
                           /\ answer'.timestamp = body'[i].ts
                           /\ ~WithinAge(body'[i].ts, now)
      OBVIOUS
    <2>1. call.item = item
      BY DEF Poll
    <2> QED BY <1>1, <2>1
  <1> QED BY <1>2, Invariance, PTL DEF Spec, StaleIsOwn

(* A meter found by discovery can be polled from the same body: all its    *)
(* packets can be read, so the selection stops at the meter's own.         *)
THEOREM OfferedCanBePolledCorrect == Spec => []OfferedCanBePolled
  <1>1. ASSUME IInv, call = Discovery, body # None, answer.problem = NoProblem,
               NEW i \in DOMAIN answer.samples, NEW at \in Instants
        PROVE  Parse(Poll(answer.samples[i].item_id), body, at).problem
                   \in {NoProblem, StaleError}
    <2>1. body \in Body
      BY <1>1 DEF IInv, TypeOK
    <2>2. PICK t \in Instants : answer = ParseAll(body, None, t)
      BY <1>1 DEF IInv, AnswerInv, Parse, Discovery
    <2>3. /\ answer = Gives([j \in DOMAIN body |-> SampleOf(body[j])])
          /\ \A j \in DOMAIN body :
                /\ body[j] \in Packet
                /\ ParsePacket(body[j], None, t).problem = NoProblem
      BY <1>1, <2>1, <2>2, ParseAllFacts
    <2>4. ASSUME NEW j \in DOMAIN body
          PROVE  /\ body[j] \in Packet /\ body[j] # Malformed
                 /\ Malformed \notin {body[j].hwi, body[j].hwo, body[j].ts}
                 /\ body[j].ItemId # Malformed
      <3>1. /\ body[j] \in Packet
            /\ ParsePacket(body[j], None, t).problem = NoProblem
        BY <2>3
      <3> QED BY <3>1, ParsePacketFacts, ApiAssumption
    <2> DEFINE item == answer.samples[i].item_id
               stops == StopsAt(body, item)
               k == Min(stops)
    <2>5. i \in DOMAIN body /\ item = Identifier(body[i].ItemId)
      BY <1>1, <2>3 DEF Gives, SampleOf
    <2>6. item \in Items
      BY <2>4, <2>5 DEF Packet, JsonId, Identifier
    <2>7. stops # {} /\ stops \subseteq DOMAIN body /\ stops \subseteq Nat
      BY <2>1, <2>5, BodyFacts DEF StopsAt
    <2>8. k \in DOMAIN body
      BY <2>7, MinFacts
    <2>9. item # None
      BY <2>6, ApiAssumption
    <2> HIDE DEF item
    <2>10. Parse(Poll(item), body, at) = ParsePacket(body[k], MaxAge, at)
      BY <2>4, <2>7, <2>8, <2>9 DEF Parse, Poll, ParseLatest
    <2>11. ParsePacket(body[k], MaxAge, at).problem \in {NoProblem, StaleError}
      BY <2>4, <2>8, ParsePacketFacts
    <2>12. Parse(Poll(item), body, at).problem \in {NoProblem, StaleError}
      BY <2>10, <2>11
    <2> QED BY <2>12 DEF item
  <1>2. IInv => OfferedCanBePolled
    BY <1>1 DEF OfferedCanBePolled
  <1> QED BY <1>2, Invariance, PTL
=============================================================================
