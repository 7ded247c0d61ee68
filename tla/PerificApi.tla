----------------------------- MODULE PerificApi -----------------------------
(***************************************************************************)
(* The client of custom_components/perific/api.py: what it makes of the    *)
(* cloud's answer to /getlatestpackets, for the coordinator's poll of one  *)
(* meter and for the config flow's discovery of all of them.               *)
(*                                                                         *)
(* A body is a sequence of packets or a value that is not a non-empty      *)
(* list.  Of a packet the models keep the four values the client takes,    *)
(* each of them possibly Malformed: absent, of the wrong JSON type, or     *)
(* inside an object that is.  An ItemId may be a JSON number or a string.  *)
(* Data errors are told apart as the coordinator does: stale or not.       *)
(***************************************************************************)
EXTENDS PacketAge, FiniteSetsExt, Sequences

CONSTANTS
    Malformed,   \* any JSON value that is not what the client needs there
    Instants,    \* values of the wall clock, in the packets' time units
    MaxPackets   \* bound: packets in one body

VARIABLES
    now,     \* time.time()
    call,    \* the call in progress, or the one just answered, or None
    body,    \* history: what came back for it
    answer   \* what the call returned or raised, None while it waits

vars == <<now, call, body, answer>>

-----------------------------------------------------------------------------
(* JSON, as far as the client looks into it. *)

JsonId == [type : {"int", "str"}, text : Items]

Packet == [ItemId : JsonId \cup {Malformed},
           hwi    : Energies \cup {Malformed},
           hwo    : Energies \cup {Malformed},
           ts     : Timestamps \cup {Malformed}]

Body == Seq(Packet \cup {Malformed}) \ {<<>>}

ASSUME ApiAssumption ==
    /\ Malformed \notin JsonId \cup Packet \cup Energies \cup Timestamps
    /\ None \notin Items
    /\ Instants \subseteq Int
    /\ MaxPackets \in Nat

(* _require_identifier: str(value) *)
Identifier(id) == id.text

-----------------------------------------------------------------------------
(* What a call ends with. *)

NoProblem       == "none"
AuthError       == "PerificAuthError"
ResponseError   == "PerificResponseError"
ConnectionError == "PerificConnectionError"
DataError       == "PerificDataError"
StaleError      == "PerificDataError, LatestPackets.PhaseMinute.ts.stale"
Problems == {NoProblem, AuthError, ResponseError, ConnectionError, DataError, StaleError}

Answer == [problem   : Problems,
           samples   : Seq(Sample),
           timestamp : Timestamps \cup {None}]

ASSUME AnswerAssumption == None \notin Answer

Fails(problem) == [problem |-> problem, samples |-> <<>>, timestamp |-> None]
Stales(ts)     == [problem |-> StaleError, samples |-> <<>>, timestamp |-> ts]
Gives(samples) == [problem |-> NoProblem, samples |-> samples, timestamp |-> None]

SampleOf(packet) ==
    [item_id           |-> Identifier(packet.ItemId),
     import_energy_kwh |-> packet.hwi,
     export_energy_kwh |-> packet.hwo,
     timestamp         |-> packet.ts]

(* the export counter is passed on unread *)
ParseImportOnly(packet, maxAge, at) ==
    IF Malformed \in {packet.hwi, packet.ts} THEN Fails(DataError)
    ELSE IF Stale(packet.ts, maxAge, at) THEN Stales(packet.ts)
    ELSE IF packet.ItemId = Malformed THEN Fails(DataError)
    ELSE Gives(<<SampleOf(packet)>>)

(* _parse_meter_packet of a JSON object: the timestamp is judged before    *)
(* the ItemId is read                                                      *)
ParsePacket(packet, maxAge, at) ==
    IF Malformed \in {packet.hwi, packet.hwo, packet.ts} THEN Fails(DataError)
    ELSE IF Stale(packet.ts, maxAge, at) THEN Stales(packet.ts)
    ELSE IF packet.ItemId = Malformed THEN Fails(DataError)
    ELSE Gives(<<SampleOf(packet)>>)

(* a numeric ItemId is not made a string before it is compared *)
FirstByString(packets, item) ==
    {i \in DOMAIN packets :
        \/ packets[i] = Malformed
        \/ packets[i].ItemId \in {Malformed, [type |-> "str", text |-> item]}}

(* Where _select_packet stops: at the meter, or at a packet it cannot read. *)
StopsAt(packets, item) ==
    {i \in DOMAIN packets :
        \/ packets[i] = Malformed
        \/ packets[i].ItemId = Malformed
        \/ Identifier(packets[i].ItemId) = item}

(* parse_latest_meter_sample *)
ParseLatest(packets, item, maxAge, at) ==
    LET stops    == IF item = None THEN DOMAIN packets ELSE StopsAt(packets, item)
        selected == packets[Min(stops)]
    IN IF \/ item = None /\ Len(packets) # 1
          \/ stops = {}
          \/ selected = Malformed
          \/ selected.ItemId = Malformed
       THEN Fails(DataError)
       ELSE ParsePacket(selected, maxAge, at)

ParseElement(value, maxAge, at) ==
    IF value = Malformed THEN Fails(DataError) ELSE ParsePacket(value, maxAge, at)

(* parse_latest_meter_samples: all of them, or the first packet's problem  *)
ParseAll(packets, maxAge, at) ==
    LET problems == {i \in DOMAIN packets :
                        ParseElement(packets[i], maxAge, at).problem # NoProblem}
    IN IF problems # {} THEN ParseElement(packets[Min(problems)], maxAge, at)
       ELSE Gives([i \in DOMAIN packets |-> SampleOf(packets[i])])

-----------------------------------------------------------------------------
(* A poll has a meter and a greatest age; the one the coordinator makes    *)
(* names its meter.  Discovery has neither.                                *)
Poll(item) == [all |-> FALSE, item |-> item, maxAge |-> MaxAge]
Discovery  == [all |-> TRUE, item |-> None, maxAge |-> None]
Calls == {Poll(item) : item \in Items \cup {None}} \cup {Discovery}

(* every packet is read before the meter's own is looked for *)
ParseAllThenSelect(c, packets, at) ==
    LET all == ParseAll(packets, c.maxAge, at)
    IN IF c.all \/ all.problem # NoProblem THEN all
       ELSE ParseLatest(packets, c.item, c.maxAge, at)

Parse(c, packets, at) ==
    IF c.all THEN ParseAll(packets, c.maxAge, at)
    ELSE ParseLatest(packets, c.item, c.maxAge, at)

Init ==
    /\ now \in Instants
    /\ call = None
    /\ body = None
    /\ answer = None

Ask(c) ==
    /\ call = None \/ answer # None
    /\ call' = c
    /\ body' = None
    /\ answer' = None
    /\ UNCHANGED now

Tick ==
    /\ answer = None
    /\ now + 1 \in Instants
    /\ now' = now + 1
    /\ UNCHANGED <<call, body, answer>>

Waiting == call # None /\ answer = None

(* a 2xx answer, read at the instant it has come in *)
Reply(packets) ==
    /\ body' = packets
    /\ answer' = Parse(call, packets, now)
    /\ UNCHANGED <<now, call>>

(* a status, an exception of the HTTP library, or a text that is no list   *)
NoReply ==
    /\ Waiting
    /\ \E problem \in {AuthError, ResponseError, ConnectionError, DataError} :
          answer' = Fails(problem)
    /\ UNCHANGED <<now, call, body>>

Bodies == UNION {[1 .. n -> Packet \cup {Malformed}] : n \in 1 .. MaxPackets}

Next ==
    \/ \E c \in Calls : Ask(c)
    \/ Tick
    \/ Waiting /\ \E packets \in Bodies : Reply(packets)
    \/ NoReply

Spec == Init /\ [][Next]_vars

-----------------------------------------------------------------------------
(* Properties *)

(* The types of the client's state. *)
TypeOK ==
    /\ now \in Instants
    /\ call \in Calls \cup {None}
    /\ body \in Body \cup {None}
    /\ answer \in Answer \cup {None}

(* i is the first packet of the meter *)
IsFirstOf(i, packets, item) ==
    /\ packets[i] # Malformed
    /\ packets[i].ItemId # Malformed
    /\ Identifier(packets[i].ItemId) = item
    /\ \A j \in DOMAIN packets : j < i =>
          /\ packets[j] # Malformed
          /\ packets[j].ItemId # Malformed
          /\ Identifier(packets[j].ItemId) # item

WithinAge(ts, at) == ts - at <= MaxAge /\ at - ts <= MaxAge

(* A poll of a meter that returns a sample returns that of the meter's own *)
(* first packet, dated within the greatest age of the instant at which the *)
(* poll returns, however long the request took: neither older nor ahead.   *)
PollIsOwnAndFresh ==
    [][ /\ answer = None /\ answer' # None
        /\ call \in {Poll(item) : item \in Items}
        /\ answer'.problem = NoProblem
        => \E i \in DOMAIN body' :
              /\ IsFirstOf(i, body', call.item)
              /\ answer'.samples = <<SampleOf(body'[i])>>
              /\ WithinAge(body'[i].ts, now) ]_vars

(* A stale answer, which makes the coordinator withdraw its reading, is    *)
(* about the polled meter's own packet: another meter's stale packet in    *)
(* the same body does not count, and the timestamp reported is the one     *)
(* that is out of bounds.                                                  *)
StaleIsOwn ==
    [][ /\ answer = None /\ answer' # None
        /\ call \in {Poll(item) : item \in Items}
        /\ answer'.problem = StaleError
        => \E i \in DOMAIN body' :
              /\ IsFirstOf(i, body', call.item)
              /\ answer'.timestamp = body'[i].ts
              /\ ~WithinAge(body'[i].ts, now) ]_vars

(* A meter that the config flow offers can be polled: had the body that    *)
(* discovery accepted come to a poll of any meter in it, the poll would    *)
(* have given a sample or found it stale.                                  *)
OfferedCanBePolled ==
    call = Discovery /\ body # None /\ answer.problem = NoProblem =>
        \A i \in DOMAIN answer.samples : \A at \in Instants :
            Parse(Poll(answer.samples[i].item_id), body, at).problem
                \in {NoProblem, StaleError}
=============================================================================
