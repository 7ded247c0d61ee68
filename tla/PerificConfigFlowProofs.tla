----------------------- MODULE PerificConfigFlowProofs -----------------------
(***************************************************************************)
(* The properties of the flows and entries, for any number of accounts,    *)
(* meters, entries, flows and concurrent submissions.                      *)
(***************************************************************************)
EXTENDS PerificConfigFlow, TLAPS

(* An entry's token and unique id, old or new, are of its account. *)
EntryInv ==
    \A e \in Entries : Exists(e) =>
        /\ entries[e].token = entries[e].user
        /\ \/ entries[e].unique_id = EntryUniqueId(entries[e].user, entries[e].item)
           \/ entries[e].unique_id = LegacyUniqueId(entries[e].user)

(* Unique ids are unique. *)
UniqueInv ==
    \A d, e \in Entries : Exists(d) /\ Exists(e) /\ d # e =>
        entries[d].unique_id # entries[e].unique_id

(* A reauth flow's entry exists and has the flow's unique id; a user flow  *)
(* has none, and pending meters once it shows them.                        *)
FlowInv ==
    /\ \A f \in Flows : InProgress(f) =>
          IF flows[f].source = "reauth"
          THEN /\ flows[f].entry \in Entries
               /\ Exists(flows[f].entry)
               /\ flows[f].unique_id = entries[flows[f].entry].unique_id
               /\ flows[f].step = "reauth_confirm"
          ELSE /\ flows[f].entry = None
               /\ flows[f].unique_id = None
               /\ flows[f].step = "meter" => flows[f].pending # None
    /\ \A f, g \in Flows :
          InProgress(f) /\ InProgress(g) /\ flows[f].source = "reauth"
              /\ flows[g].source = "reauth" /\ flows[f].entry = flows[g].entry => f = g

(* A submission knows its flow's source and entry, as long as that is open. *)
RequestInv ==
    \A r \in requests :
        /\ r.source = "reauth" => r.entry \in Entries
        /\ r.source = "user" => r.entry = None
        /\ InProgress(r.flow) => flows[r.flow].source = r.source /\ flows[r.flow].entry = r.entry

IInv ==
    /\ TypeOK
    /\ OneEntryPerMeter
    /\ EntryInv
    /\ UniqueInv
    /\ FlowInv
    /\ RequestInv
    /\ StoppedIsAskedFor

-----------------------------------------------------------------------------
(* What a flow in progress, an entry, and a pending list are. *)
LEMMA RecordFacts ==
    ASSUME TypeOK
    PROVE  /\ \A e \in Entries : Exists(e) => entries[e] \in Entry
           /\ \A f \in Flows : InProgress(f) => flows[f] \in Flow
           /\ \A r \in requests : r \in Request /\ r.flow \in Flows /\ r.user \in Users
  BY DEF TypeOK, Exists, InProgress, Request

(* Unique ids of either kind name their account. *)
LEMMA UniqueIdFacts ==
    ASSUME NEW user, NEW item
    PROVE  EntryUniqueId(user, item).user = user /\ LegacyUniqueId(user).user = user
  BY DEF EntryUniqueId, LegacyUniqueId

(* A reauth flow that takes an entry's credentials takes its own account's. *)
LEMMA AcceptsOwn ==
    ASSUME TypeOK, EntryInv, NEW r \in requests, r.entry \in Entries,
           Exists(r.entry), Accepts(r)
    PROVE  entries[r.entry].user = r.user
  <1> DEFINE entry == entries[r.entry]
  <1>1. entry.unique_id.user = entry.user
    BY UniqueIdFacts DEF EntryInv
  <1>2. ReauthUniqueId(r.user, entry.item, entry).user = r.user
    BY UniqueIdFacts DEF ReauthUniqueId
  <1> QED BY <1>1, <1>2 DEF Accepts

(* No other flow is about the unique id of a reauth flow in progress. *)
LEMMA NoOtherFlow ==
    ASSUME TypeOK, UniqueInv, FlowInv,
           NEW f \in Flows, InProgress(f), flows[f].source = "reauth"
    PROVE  ~AlreadyInProgress(f, entries[flows[f].entry].unique_id)
  <1> SUFFICES ASSUME NEW g \in Flows \ {f}, InProgress(g),
                      flows[g].unique_id = entries[flows[f].entry].unique_id
               PROVE  FALSE
    BY DEF AlreadyInProgress
  <1>1. flows[f].entry \in Entries /\ Exists(flows[f].entry)
    BY DEF FlowInv
  <1>2. entries[flows[f].entry].unique_id # None
    BY <1>1, RecordFacts, RecordAssumption DEF Entry
  <1>3. flows[g].source = "reauth"
    BY <1>2 DEF FlowInv
  <1>4. /\ flows[g].entry \in Entries /\ Exists(flows[g].entry)
        /\ flows[g].unique_id = entries[flows[g].entry].unique_id
    BY <1>3 DEF FlowInv
  <1>5. flows[g].entry = flows[f].entry
    BY <1>1, <1>4 DEF UniqueInv
  <1> QED BY <1>3, <1>5 DEF FlowInv

(* Both kinds of unique id are recognised. *)
LEMMA RightAccount == IInv => RightAccountSucceeds
  <1> SUFFICES ASSUME IInv, NEW r \in requests, r.source = "reauth", InProgress(r.flow),
                      entries[r.entry].user = r.user
               PROVE  Accepts(r)
    BY DEF RightAccountSucceeds
  <1> DEFINE entry == entries[r.entry]
  <1>1. r.flow \in Flows /\ flows[r.flow].source = "reauth" /\ flows[r.flow].entry = r.entry
    BY RecordFacts DEF IInv, RequestInv
  <1>2. r.entry \in Entries /\ Exists(r.entry)
    BY <1>1 DEF IInv, FlowInv
  <1>3. ReauthUniqueId(r.user, entry.item, entry) = entry.unique_id
    BY <1>2 DEF IInv, EntryInv, ReauthUniqueId
  <1>4. ~AlreadyInProgress(r.flow, entry.unique_id)
    BY <1>1, NoOtherFlow DEF IInv
  <1> QED BY <1>3, <1>4 DEF Accepts

-----------------------------------------------------------------------------
LEMMA InitIInv == Init => IInv
  <1> SUFFICES ASSUME Init PROVE IInv
    OBVIOUS
  <1>1. ASSUME NEW e \in Entries, Exists(e)
        PROVE  /\ entries[e] \in Entry
               /\ entries[e].token = entries[e].user
               /\ entries[e].unique_id = LegacyUniqueId(entries[e].user)
               /\ entries[e].state = "polling"
    <2>1. PICK u \in Users, i \in Items :
             entries[e] = [user |-> u, item |-> i, token |-> u,
                           unique_id |-> LegacyUniqueId(u), state |-> "polling"]
      BY <1>1 DEF Init, Exists
    <2>2. LegacyUniqueId(u) \in UniqueId
      BY DEF LegacyUniqueId, UniqueId
    <2> QED BY <2>1, <2>2 DEF Entry
  <1>2. \A d, e \in Entries : Exists(d) /\ Exists(e) /\ d # e => entries[d].user # entries[e].user
    BY DEF Init
  <1>3. entries \in [Entries -> Entry \cup {None}]
    <2>1. entries = [e \in Entries |-> entries[e]]
      BY DEF Init
    <2> QED BY <1>1, <2>1 DEF Exists
  <1>4. \A f \in Flows : ~InProgress(f)
    BY DEF Init, InProgress
  <1>5. TypeOK
    BY <1>3 DEF Init, TypeOK
  <1>6. UniqueInv
    BY <1>1, <1>2, UniqueIdFacts DEF UniqueInv
  <1>7. OneEntryPerMeter /\ EntryInv
    BY <1>1, <1>2 DEF OneEntryPerMeter, EntryInv
  <1>8. FlowInv /\ RequestInv /\ StoppedIsAskedFor
    BY <1>1, <1>4 DEF Init, FlowInv, RequestInv, StoppedIsAskedFor
  <1> QED BY <1>5, <1>6, <1>7, <1>8 DEF IInv

-----------------------------------------------------------------------------
(* A step that at most removes entries and changes what they do. *)
KeepsEntries ==
    \A e \in Entries : entries'[e] # None =>
        /\ entries[e] # None
        /\ entries'[e].user = entries[e].user
        /\ entries'[e].item = entries[e].item
        /\ entries'[e].token = entries[e].token
        /\ entries'[e].unique_id = entries[e].unique_id

(* A step that at most ends flows and moves user flows on. *)
KeepsFlows ==
    \A f \in Flows : flows'[f] # None =>
        /\ flows[f] # None
        /\ flows'[f].source = flows[f].source
        /\ flows'[f].entry = flows[f].entry
        /\ flows'[f].unique_id = flows[f].unique_id
        /\ flows[f].source = "reauth" => /\ flows'[f].step = "reauth_confirm"
                                         /\ entries'[flows[f].entry] # None
        /\ flows[f].source # "reauth" /\ flows'[f].step = "meter" => flows'[f].pending # None

(* A step after which every stopped entry was stopped and is still asked for. *)
KeepsAsking ==
    \A e \in Entries : entries'[e] # None /\ entries'[e].state = "stopped" =>
        /\ entries[e] # None
        /\ entries[e].state = "stopped"
        /\ e \in dismissed => e \in dismissed'
        /\ \A f \in Flows :
              flows[f] # None /\ flows[f].source = "reauth" /\ flows[f].entry = e =>
                  \/ flows'[f] # None /\ flows'[f].source = "reauth" /\ flows'[f].entry = e
                  \/ e \in dismissed'

LEMMA KeptEntries ==
    ASSUME IInv, KeepsEntries
    PROVE  OneEntryPerMeter' /\ EntryInv' /\ UniqueInv'
  <1>1. OneEntryPerMeter'
    BY DEF IInv, KeepsEntries, OneEntryPerMeter, Exists
  <1>2. EntryInv'
    BY DEF IInv, KeepsEntries, EntryInv, Exists
  <1>3. UniqueInv'
    BY DEF IInv, KeepsEntries, UniqueInv, Exists
  <1> QED BY <1>1, <1>2, <1>3

LEMMA KeptFlows ==
    ASSUME IInv, KeepsEntries, KeepsFlows
    PROVE  FlowInv'
  <1>1. ASSUME NEW f \in Flows, flows'[f] # None
        PROVE  IF flows'[f].source = "reauth"
               THEN /\ flows'[f].entry \in Entries
                    /\ entries'[flows'[f].entry] # None
                    /\ flows'[f].unique_id = entries'[flows'[f].entry].unique_id
                    /\ flows'[f].step = "reauth_confirm"
               ELSE /\ flows'[f].entry = None
                    /\ flows'[f].unique_id = None
                    /\ flows'[f].step = "meter" => flows'[f].pending # None
    BY <1>1 DEF IInv, KeepsEntries, KeepsFlows, FlowInv, InProgress, Exists
  <1>2. ASSUME NEW f \in Flows, NEW g \in Flows, flows'[f] # None, flows'[g] # None,
               flows'[f].source = "reauth", flows'[g].source = "reauth",
               flows'[f].entry = flows'[g].entry
        PROVE  f = g
    BY <1>2 DEF IInv, KeepsFlows, FlowInv, InProgress
  <1> QED BY <1>1, <1>2 DEF FlowInv, InProgress, Exists

LEMMA KeptRequests ==
    ASSUME IInv, KeepsFlows, requests' \subseteq requests
    PROVE  RequestInv'
  BY RecordFacts DEF IInv, KeepsFlows, RequestInv, InProgress

LEMMA KeptAsking ==
    ASSUME IInv, KeepsAsking
    PROVE  StoppedIsAskedFor'
  BY DEF IInv, KeepsAsking, StoppedIsAskedFor, Reauthenticating, InProgress, Exists

(* So a step that keeps all of this and the types keeps the invariant. *)
LEMMA KeptIInv ==
    ASSUME IInv, TypeOK', KeepsEntries, KeepsFlows, KeepsAsking, requests' \subseteq requests
    PROVE  IInv'
  BY KeptEntries, KeptFlows, KeptRequests, KeptAsking DEF IInv

(* Ending one flow, or none, and nothing about entries. *)
LEMMA EndFlowKeeps ==
    ASSUME IInv, NEW f \in Flows, EndFlow(f), UNCHANGED entries
    PROVE  KeepsEntries /\ KeepsFlows /\ flows' \in [Flows -> Flow \cup {None}]
  <1>1. KeepsEntries
    BY DEF KeepsEntries
  <1>2. \A g \in Flows : flows'[g] # None => flows'[g] = flows[g]
    BY DEF EndFlow, IInv, TypeOK
  <1>3. KeepsFlows
    BY <1>2 DEF KeepsFlows, IInv, FlowInv, InProgress, Exists
  <1>4. flows' \in [Flows -> Flow \cup {None}]
    BY DEF EndFlow, IInv, TypeOK
  <1> QED BY <1>1, <1>3, <1>4

-----------------------------------------------------------------------------
(* One lemma per action. *)

LEMMA StartUserIInv ==
    ASSUME IInv, NEW f \in Flows, StartUser(f)
    PROVE  IInv'
  <1>1. flows[f] = None /\ \A r \in requests : r.flow # f
    BY DEF StartUser, Unused, InProgress
  <1>2. UserFlow \in Flow /\ UserFlow # None
    BY RecordAssumption DEF UserFlow, Flow
  <1>3. /\ flows'[f] = UserFlow
        /\ \A g \in Flows \ {f} : flows'[g] = flows[g]
        /\ UNCHANGED <<entries, requests, dismissed>>
    BY DEF StartUser, IInv, TypeOK
  <1>4. TypeOK'
    BY <1>2 DEF StartUser, IInv, TypeOK
  <1>5. KeepsEntries
    BY <1>3 DEF KeepsEntries
  <1>6. OneEntryPerMeter' /\ EntryInv' /\ UniqueInv'
    BY <1>5, KeptEntries
  <1>7. FlowInv'
    BY <1>3 DEF IInv, FlowInv, InProgress, Exists, UserFlow
  <1>8. RequestInv'
    BY <1>1, <1>3, RecordFacts DEF IInv, RequestInv, InProgress
  <1>9. KeepsAsking
    BY <1>1, <1>3 DEF KeepsAsking
  <1> QED BY <1>4, <1>6, <1>7, <1>8, <1>9, KeptAsking DEF IInv

LEMMA SubmitIInv ==
    ASSUME IInv, NEW f \in Flows, NEW user \in Users, Submit(f, user)
    PROVE  IInv'
  <1> DEFINE r == [flow |-> f, source |-> flows[f].source, entry |-> flows[f].entry, user |-> user]
  <1>1. flows[f] \in Flow /\ flows[f] # None
    BY RecordFacts DEF IInv, Submit, InProgress
  <1>2. r \in Request
    BY <1>1 DEF Request, Flow
  <1>3. requests' = requests \cup {r} /\ UNCHANGED <<entries, flows, dismissed>>
    BY DEF Submit
  <1>4. TypeOK'
    BY <1>2, <1>3 DEF IInv, TypeOK
  <1>5. r.source = "reauth" => r.entry \in Entries
    BY <1>1 DEF IInv, FlowInv, InProgress
  <1>6. r.source = "user" => r.entry = None
    BY <1>1 DEF IInv, FlowInv, InProgress
  <1>7. RequestInv'
    BY <1>3, <1>5, <1>6 DEF IInv, RequestInv, InProgress
  <1>8. OneEntryPerMeter' /\ EntryInv' /\ UniqueInv' /\ FlowInv' /\ StoppedIsAskedFor'
    BY <1>3 DEF IInv, OneEntryPerMeter, EntryInv, UniqueInv, FlowInv, StoppedIsAskedFor,
                Exists, InProgress, Reauthenticating
  <1> QED BY <1>4, <1>7, <1>8 DEF IInv

(* A user flow put on another step is still a flow. *)
LEMMA ValidationFailsIInv ==
    ASSUME IInv, NEW r \in requests, ValidationFails(r)
    PROVE  IInv'
  <1>1. r.flow \in Flows /\ (InProgress(r.flow) => flows[r.flow].source = r.source)
    BY RecordFacts DEF IInv, RequestInv
  <1>2. requests' \subseteq requests /\ UNCHANGED <<entries, dismissed>>
    BY DEF ValidationFails
  <1>3. \A f \in Flows : \/ flows'[f] = flows[f]
                        \/ /\ f = r.flow /\ InProgress(f) /\ r.source = "user"
                           /\ flows'[f] = [flows[f] EXCEPT !.step = "user"]
    BY <1>1 DEF ValidationFails, IInv, TypeOK
  <1>4. \A f \in Flows : InProgress(f) => [flows[f] EXCEPT !.step = "user"] \in Flow
    BY RecordFacts DEF IInv, Flow
  <1>5. flows' = [f \in Flows |-> flows'[f]]
    BY DEF ValidationFails, IInv, TypeOK
  <1>6. \A f \in Flows : flows'[f] \in Flow \cup {None}
    BY <1>3, <1>4 DEF IInv, TypeOK
  <1>7. flows' \in [Flows -> Flow \cup {None}]
    BY <1>5, <1>6
  <1>8. TypeOK'
    BY <1>2, <1>7 DEF IInv, TypeOK
  <1>9. KeepsEntries
    BY <1>2 DEF KeepsEntries
  <1>10. ASSUME NEW f \in Flows, flows'[f] # None
         PROVE  /\ flows[f] # None
                /\ flows'[f].source = flows[f].source
                /\ flows'[f].entry = flows[f].entry
                /\ flows'[f].unique_id = flows[f].unique_id
                /\ flows[f].source = "reauth" => /\ flows'[f].step = "reauth_confirm"
                                                 /\ entries'[flows[f].entry] # None
                /\ flows[f].source # "reauth" /\ flows'[f].step = "meter" => flows'[f].pending # None
    <2>1. CASE flows'[f] = flows[f]
      BY <1>2, <1>10, <2>1 DEF IInv, FlowInv, InProgress, Exists
    <2>2. CASE /\ f = r.flow /\ InProgress(f) /\ r.source = "user"
               /\ flows'[f] = [flows[f] EXCEPT !.step = "user"]
      <3>1. flows[f].source = "user" /\ flows[f] \in Flow /\ flows[f] # None
        BY <1>1, <2>2, RecordFacts DEF IInv, InProgress
      <3> QED BY <2>2, <3>1 DEF Flow
    <2> QED BY <1>3, <2>1, <2>2
  <1>11. KeepsFlows
    BY <1>10 DEF KeepsFlows
  <1>12. KeepsAsking
    BY <1>1, <1>2, <1>3 DEF KeepsAsking
  <1> QED BY <1>2, <1>8, <1>9, <1>11, <1>12, KeptIInv

LEMMA UserValidatedIInv ==
    ASSUME IInv, NEW r \in requests, UserValidated(r)
    PROVE  IInv'
  <1>1. /\ r.flow \in Flows /\ r.user \in Users
        /\ InProgress(r.flow) => flows[r.flow].source = "user"
    BY RecordFacts DEF IInv, RequestInv, UserValidated
  <1>2. requests' \subseteq requests /\ UNCHANGED <<entries, dismissed>>
    BY DEF UserValidated
  <1>3. PICK meters \in (SUBSET Items) \ {{}} :
           flows' = IF InProgress(r.flow)
                    THEN [flows EXCEPT ![r.flow].pending = [user |-> r.user, meters |-> meters],
                                       ![r.flow].step = "meter"]
                    ELSE flows
    BY DEF UserValidated
  <1> DEFINE p == [user |-> r.user, meters |-> meters]
             moved(f) == [flows[f] EXCEPT !.pending = p, !.step = "meter"]
  <1>4. p \in Pending /\ p # None
    BY <1>1, RecordAssumption DEF Pending
  <1> HIDE DEF p
  <1>5. \A f \in Flows : \/ flows'[f] = flows[f]
                        \/ /\ f = r.flow
                           /\ InProgress(f)
                           /\ flows'[f] = moved(f)
    <2>1. CASE ~InProgress(r.flow)
      BY <1>3, <2>1
    <2>2. CASE InProgress(r.flow)
      <3>1. flows' = [flows EXCEPT ![r.flow] = moved(r.flow)]
        BY <1>3, <2>2 DEF p
      <3> HIDE DEF moved
      <3> QED BY <2>2, <3>1 DEF IInv, TypeOK
    <2> QED BY <2>1, <2>2
  <1>6. ASSUME NEW f \in Flows, InProgress(f)
        PROVE  /\ moved(f) \in Flow
               /\ moved(f).source = flows[f].source
               /\ moved(f).entry = flows[f].entry
               /\ moved(f).unique_id = flows[f].unique_id
               /\ moved(f).pending = p
    <2>1. flows[f] \in Flow
      BY <1>6, RecordFacts DEF IInv
    <2> QED BY <2>1, <1>4 DEF Flow
  <1> HIDE DEF moved
  <1>7. flows' = [f \in Flows |-> flows'[f]]
    BY <1>3 DEF IInv, TypeOK
  <1>8. \A f \in Flows : flows'[f] \in Flow \cup {None}
    BY <1>5, <1>6 DEF IInv, TypeOK
  <1>9. flows' \in [Flows -> Flow \cup {None}]
    BY <1>7, <1>8
  <1>10. TypeOK'
    BY <1>2, <1>9 DEF IInv, TypeOK
  <1>11. KeepsEntries
    BY <1>2 DEF KeepsEntries
  <1>12. KeepsFlows
    <2> SUFFICES ASSUME NEW f \in Flows, flows'[f] # None
                 PROVE  /\ flows[f] # None
                        /\ flows'[f].source = flows[f].source
                        /\ flows'[f].entry = flows[f].entry
                        /\ flows'[f].unique_id = flows[f].unique_id
                        /\ flows[f].source = "reauth" => /\ flows'[f].step = "reauth_confirm"
                                                         /\ entries'[flows[f].entry] # None
                        /\ flows[f].source # "reauth" /\ flows'[f].step = "meter"
                               => flows'[f].pending # None
      BY DEF KeepsFlows
    <2>1. CASE flows'[f] = flows[f]
      BY <1>2, <2>1 DEF IInv, FlowInv, InProgress, Exists
    <2>2. CASE f = r.flow /\ InProgress(f) /\ flows'[f] = moved(f)
      BY <1>1, <1>4, <1>6, <2>2 DEF InProgress
    <2> QED BY <1>5, <2>1, <2>2
  <1>13. KeepsAsking
    BY <1>1, <1>2, <1>5 DEF KeepsAsking
  <1> QED BY <1>2, <1>10, <1>11, <1>12, <1>13, KeptIInv

(* A flow that ends leaves a stopped entry dismissed.                      *)
LEMMA DismissIInv ==
    ASSUME IInv, NEW f \in Flows, Dismiss(f)
    PROVE  IInv'
  <1>1. /\ EndFlow(f) /\ InProgress(f) /\ UNCHANGED <<entries, requests>>
        /\ dismissed' = dismissed \cup ({flows[f].entry} \ {None})
    BY DEF Dismiss
  <1>2. KeepsEntries /\ KeepsFlows /\ flows' \in [Flows -> Flow \cup {None}]
    BY <1>1, EndFlowKeeps
  <1>3. flows[f].entry \in Entries \cup {None}
    BY <1>1, RecordFacts DEF IInv, Flow
  <1>4. TypeOK'
    BY <1>1, <1>2, <1>3 DEF IInv, TypeOK
  <1>5. \A g \in Flows \ {f} : flows'[g] = flows[g]
    BY <1>1 DEF EndFlow, IInv, TypeOK
  <1>6. KeepsAsking
    BY <1>1, <1>5, ConfigAssumption DEF KeepsAsking
  <1> QED BY <1>1, <1>2, <1>4, <1>6, KeptIInv

LEMMA ReauthRefusedIInv ==
    ASSUME IInv, NEW r \in requests, ReauthRefused(r)
    PROVE  IInv'
  <1>1. /\ EndFlow(r.flow) /\ UNCHANGED entries /\ requests' \subseteq requests
        /\ dismissed' = IF InProgress(r.flow) THEN dismissed \cup {r.entry} ELSE dismissed
        /\ r.source = "reauth"
    BY DEF ReauthRefused
  <1>2. /\ r.flow \in Flows /\ r.entry \in Entries
        /\ InProgress(r.flow) => flows[r.flow].entry = r.entry
    BY <1>1, RecordFacts DEF IInv, RequestInv
  <1>3. KeepsEntries /\ KeepsFlows /\ flows' \in [Flows -> Flow \cup {None}]
    BY <1>1, <1>2, EndFlowKeeps
  <1>4. TypeOK'
    BY <1>1, <1>2, <1>3 DEF IInv, TypeOK
  <1>5. \A g \in Flows \ {r.flow} : flows'[g] = flows[g]
    BY <1>1, <1>2 DEF EndFlow, IInv, TypeOK
  <1>6. KeepsAsking
    BY <1>1, <1>2, <1>5 DEF KeepsAsking, InProgress
  <1> QED BY <1>1, <1>3, <1>4, <1>6, KeptIInv

LEMMA ReauthOfRemovedIInv ==
    ASSUME IInv, NEW r \in requests, ReauthOfRemoved(r)
    PROVE  IInv'
  <1>1. requests' \subseteq requests /\ UNCHANGED <<entries, flows, dismissed>>
    BY DEF ReauthOfRemoved
  <1>2. TypeOK'
    BY <1>1 DEF IInv, TypeOK
  <1>3. KeepsEntries /\ KeepsAsking
    BY <1>1 DEF KeepsEntries, KeepsAsking
  <1>4. KeepsFlows
    BY <1>1 DEF KeepsFlows, IInv, FlowInv, InProgress, Exists
  <1> QED BY <1>1, <1>2, <1>3, <1>4, KeptIInv

(* Another state of an entry, or new data of the same account. *)
LEMMA EntryKept ==
    ASSUME IInv, NEW e \in Entries, Exists(e),
           NEW new, entries' = [entries EXCEPT ![e] = new],
           new \in Entry,
           new.user = entries[e].user, new.item = entries[e].item,
           new.token = entries[e].token, new.unique_id = entries[e].unique_id
    PROVE  /\ entries' \in [Entries -> Entry \cup {None}]
           /\ KeepsEntries
           /\ entries'[e] = new
           /\ \A d \in Entries \ {e} : entries'[d] = entries[d]
           /\ \A d \in Entries : Exists(d) => entries'[d] # None
  <1>1. /\ entries' \in [Entries -> Entry \cup {None}]
        /\ entries'[e] = new
        /\ \A d \in Entries \ {e} : entries'[d] = entries[d]
    BY DEF IInv, TypeOK
  <1>2. new # None
    BY RecordAssumption
  <1>3. KeepsEntries
    BY <1>1 DEF KeepsEntries, Exists
  <1>4. \A d \in Entries : Exists(d) => entries'[d] # None
    BY <1>1, <1>2 DEF Exists
  <1> QED BY <1>1, <1>3, <1>4

LEMMA EntryState ==
    ASSUME NEW entry \in Entry, NEW state \in {"polling", "stopped", "reloading"}
    PROVE  LET new == [entry EXCEPT !.state = state]
           IN /\ new \in Entry
              /\ new.user = entry.user /\ new.item = entry.item
              /\ new.token = entry.token /\ new.unique_id = entry.unique_id
              /\ new.state = state
  BY DEF Entry

(* A reload of an entry that exists, from or to polling. *)
LEMMA StateStepIInv ==
    ASSUME IInv, NEW e \in Entries, Exists(e), NEW state \in {"polling", "reloading"},
           entries' = [entries EXCEPT ![e] = [entries[e] EXCEPT !.state = state]],
           UNCHANGED <<flows, requests, dismissed>>
    PROVE  IInv'
  <1> DEFINE new == [entries[e] EXCEPT !.state = state]
  <1>1. entries[e] \in Entry
    BY RecordFacts DEF IInv
  <1>2. /\ new \in Entry /\ new.state = state
        /\ new.user = entries[e].user /\ new.item = entries[e].item
        /\ new.token = entries[e].token /\ new.unique_id = entries[e].unique_id
    <2>1. state \in {"polling", "stopped", "reloading"}
      OBVIOUS
    <2> QED BY <1>1, <2>1, EntryState
  <1> HIDE DEF new
  <1>3. entries' = [entries EXCEPT ![e] = new]
    BY DEF new
  <1>4. /\ entries' \in [Entries -> Entry \cup {None}]
        /\ KeepsEntries
        /\ entries'[e] = new
        /\ \A d \in Entries \ {e} : entries'[d] = entries[d]
        /\ \A d \in Entries : Exists(d) => entries'[d] # None
    BY <1>2, <1>3, EntryKept
  <1>5. TypeOK'
    BY <1>4 DEF IInv, TypeOK
  <1>6. KeepsFlows
    BY <1>4 DEF KeepsFlows, IInv, FlowInv, InProgress
  <1>7. new.state # "stopped"
    BY <1>2
  <1>8. KeepsAsking
    BY <1>4, <1>7 DEF KeepsAsking
  <1> QED BY <1>4, <1>5, <1>6, <1>8, KeptIInv

LEMMA ReloadIInv ==
    ASSUME IInv, NEW e \in Entries, Reload(e) \/ Reloaded(e)
    PROVE  IInv'
  <1>1. CASE Reload(e)
    BY <1>1, StateStepIInv DEF Reload
  <1>2. CASE Reloaded(e)
    BY <1>2, StateStepIInv DEF Reloaded
  <1> QED BY <1>1, <1>2

(* The update of a reauthentication: the account is the entry's own. *)
LEMMA ReauthAcceptedIInv ==
    ASSUME IInv, NEW r \in requests, ReauthAccepted(r)
    PROVE  IInv'
  <1> DEFINE e == r.entry
             new == Updated(entries[e], r.user)
  <1>1. /\ EndFlow(r.flow) /\ requests' \subseteq requests /\ UNCHANGED dismissed
        /\ r.source = "reauth" /\ Exists(e) /\ Accepts(r)
        /\ entries' = [entries EXCEPT ![e] = new]
    BY DEF ReauthAccepted
  <1>2. /\ r.flow \in Flows /\ e \in Entries
        /\ InProgress(r.flow) => flows[r.flow].entry = e
    BY <1>1, RecordFacts DEF IInv, RequestInv
  <1>3. entries[e].user = r.user
    BY <1>1, <1>2, AcceptsOwn DEF IInv
  <1>4. entries[e] \in Entry /\ entries[e].token = r.user
    BY <1>1, <1>2, <1>3, RecordFacts DEF IInv, EntryInv
  <1>5. /\ new \in Entry /\ new.state = "reloading"
        /\ new.user = entries[e].user /\ new.item = entries[e].item
        /\ new.token = entries[e].token /\ new.unique_id = entries[e].unique_id
    BY <1>3, <1>4 DEF Updated, Entry
  <1> HIDE DEF new
  <1>6. /\ entries' \in [Entries -> Entry \cup {None}]
        /\ KeepsEntries
        /\ entries'[e] = new
        /\ \A d \in Entries \ {e} : entries'[d] = entries[d]
        /\ \A d \in Entries : Exists(d) => entries'[d] # None
    BY <1>1, <1>2, <1>5, EntryKept
  <1>7. /\ \A g \in Flows : flows'[g] # None => flows'[g] = flows[g]
        /\ \A g \in Flows \ {r.flow} : flows'[g] = flows[g]
        /\ flows' \in [Flows -> Flow \cup {None}]
    BY <1>1, <1>2 DEF EndFlow, IInv, TypeOK
  <1>8. KeepsFlows
    BY <1>6, <1>7 DEF KeepsFlows, IInv, FlowInv, InProgress
  <1>9. TypeOK'
    BY <1>1, <1>6, <1>7 DEF IInv, TypeOK
  <1>10. KeepsAsking
    BY <1>1, <1>2, <1>5, <1>6, <1>7 DEF KeepsAsking, InProgress
  <1> QED BY <1>1, <1>6, <1>8, <1>9, <1>10, KeptIInv

(* A new entry: neither its meter nor its unique id was taken. *)
LEMMA ChooseMeterIInv ==
    ASSUME IInv, NEW f \in Flows, NEW item \in Items, ChooseMeter(f, item)
    PROVE  IInv'
  <1> DEFINE user == flows[f].pending.user
             uid == EntryUniqueId(user, item)
  <1>1. /\ EndFlow(f) /\ InProgress(f) /\ UNCHANGED <<requests, dismissed>>
        /\ flows[f].step = "meter"
    BY DEF ChooseMeter, EndFlow
  <1>2. flows[f].source # "reauth"
    BY <1>1 DEF IInv, FlowInv
  <1>3. \A g \in Flows \ {f} : flows'[g] = flows[g]
    BY <1>1 DEF EndFlow, IInv, TypeOK
  <1>4. CASE UNCHANGED entries
    <2>1. KeepsEntries /\ KeepsFlows /\ flows' \in [Flows -> Flow \cup {None}]
      BY <1>1, <1>4, EndFlowKeeps
    <2>2. TypeOK'
      BY <1>1, <1>4, <2>1 DEF IInv, TypeOK
    <2>3. KeepsAsking
      BY <1>1, <1>2, <1>3, <1>4 DEF KeepsAsking
    <2> QED BY <1>1, <2>1, <2>2, <2>3, KeptIInv
  <1>5. CASE /\ ~EntryConfigured(user, item)
             /\ ~UniqueIdConfigured(uid)
             /\ \E e \in Entries : NewEntry(e) /\ entries' = [entries EXCEPT ![e] = Created(user, item)]
    <2>1. PICK e \in Entries : NewEntry(e) /\ entries' = [entries EXCEPT ![e] = Created(user, item)]
      BY <1>5
    <2> DEFINE new == Created(user, item)
    <2>2. flows[f].pending \in Pending
      BY <1>1, <1>2, RecordFacts DEF IInv, FlowInv, Flow
    <2>3. user \in Users
      BY <2>2 DEF Pending
    <2> HIDE DEF user
    <2>4. uid \in UniqueId
      BY <2>3 DEF EntryUniqueId, UniqueId
    <2>5. /\ new \in Entry /\ new.state = "polling"
          /\ new.user = user /\ new.token = user /\ new.item = item /\ new.unique_id = uid
      BY <2>3, <2>4 DEF Created, Entry
    <2> HIDE DEF new, uid
    <2>6. /\ entries' \in [Entries -> Entry \cup {None}]
          /\ entries'[e] = new /\ entries[e] = None /\ new # None
          /\ \A d \in Entries \ {e} : entries'[d] = entries[d]
      BY <2>1, <2>5, RecordAssumption DEF IInv, TypeOK, NewEntry, Exists, new
    <2>7. \A d \in Entries : Exists(d) => /\ entries[d].user # user \/ entries[d].item # item
                                         /\ entries[d].unique_id # uid
      BY <1>5 DEF EntryConfigured, UniqueIdConfigured
    <2>8. OneEntryPerMeter'
      BY <2>5, <2>6, <2>7 DEF IInv, OneEntryPerMeter, Exists
    <2>9. UniqueInv'
      BY <2>5, <2>6, <2>7 DEF IInv, UniqueInv, Exists
    <2>10. EntryInv'
      BY <2>5, <2>6 DEF IInv, EntryInv, Exists, uid
    <2>11. /\ \A g \in Flows : flows'[g] # None => flows'[g] = flows[g]
           /\ flows' \in [Flows -> Flow \cup {None}]
      BY <1>1 DEF EndFlow, IInv, TypeOK
    <2>12. FlowInv'
      BY <2>6, <2>11 DEF IInv, FlowInv, InProgress, Exists
    <2>13. RequestInv'
      BY <1>1, <2>11, RecordFacts DEF IInv, RequestInv, InProgress
    <2>14. TypeOK'
      BY <1>1, <2>6, <2>11 DEF IInv, TypeOK
    <2>15. KeepsAsking
      BY <1>1, <1>2, <1>3, <2>5, <2>6 DEF KeepsAsking
    <2> QED BY <2>8, <2>9, <2>10, <2>12, <2>13, <2>14, <2>15, KeptAsking DEF IInv
  <1> QED BY <1>4, <1>5 DEF ChooseMeter

(* A rejected token: the entry stops, and a flow is or gets open for it. *)
LEMMA RejectedIInv ==
    ASSUME IInv, NEW e \in Entries, Rejected(e)
    PROVE  IInv'
  <1> DEFINE new == [entries[e] EXCEPT !.state = "stopped"]
  <1>1. /\ Exists(e) /\ UNCHANGED requests /\ dismissed' = dismissed \ {e}
        /\ entries' = [entries EXCEPT ![e] = new] \/ UNCHANGED entries
    BY DEF Rejected
  <1>2. entries[e] \in Entry
    BY <1>1, RecordFacts DEF IInv
  <1>3. /\ new \in Entry
        /\ new.user = entries[e].user /\ new.item = entries[e].item
        /\ new.token = entries[e].token /\ new.unique_id = entries[e].unique_id
    BY <1>2 DEF Entry
  <1> HIDE DEF new
  <1>4. /\ entries' \in [Entries -> Entry \cup {None}]
        /\ KeepsEntries
        /\ \A d \in Entries \ {e} : entries'[d] = entries[d]
        /\ \A d \in Entries : Exists(d) => entries'[d] # None
    <2>1. CASE entries' = [entries EXCEPT ![e] = new]
      BY <1>1, <1>3, <2>1, EntryKept
    <2>2. CASE UNCHANGED entries
      BY <2>2 DEF KeepsEntries, IInv, TypeOK, Exists
    <2> QED BY <1>1, <2>1, <2>2
  <1>5. OneEntryPerMeter' /\ EntryInv' /\ UniqueInv'
    BY <1>4, KeptEntries
  <1>6. CASE Reauthenticating(e) /\ UNCHANGED flows
    <2>1. TypeOK'
      BY <1>1, <1>4, <1>6 DEF IInv, TypeOK
    <2>2. KeepsFlows
      BY <1>4, <1>6 DEF KeepsFlows, IInv, FlowInv, InProgress
    <2>3. FlowInv' /\ RequestInv'
      BY <1>1, <1>4, <2>2, KeptFlows, KeptRequests
    <2>4. StoppedIsAskedFor'
      BY <1>1, <1>4, <1>6 DEF IInv, StoppedIsAskedFor, Reauthenticating, Exists, InProgress
    <2> QED BY <1>5, <2>1, <2>3, <2>4 DEF IInv
  <1>7. CASE /\ ~Reauthenticating(e)
             /\ \E f \in Flows : Unused(f) /\ flows' = [flows EXCEPT ![f] = ReauthFlow(e)]
    <2>1. PICK f \in Flows : Unused(f) /\ flows' = [flows EXCEPT ![f] = ReauthFlow(e)]
      BY <1>7
    <2>2. /\ ReauthFlow(e) \in Flow /\ ReauthFlow(e) # None
          /\ ReauthFlow(e).source = "reauth" /\ ReauthFlow(e).entry = e
          /\ ReauthFlow(e).step = "reauth_confirm"
          /\ ReauthFlow(e).unique_id = entries[e].unique_id
      <3>1. ReauthFlow(e) \in Flow
        BY <1>2 DEF ReauthFlow, Flow, Entry
      <3>2. ReauthFlow(e) # None
        BY <3>1, RecordAssumption
      <3> QED BY <3>1, <3>2 DEF ReauthFlow
    <2>3. /\ flows[f] = None /\ flows'[f] = ReauthFlow(e)
          /\ \A g \in Flows \ {f} : flows'[g] = flows[g]
          /\ flows' \in [Flows -> Flow \cup {None}]
          /\ \A r \in requests : r.flow # f
      BY <2>1, <2>2 DEF IInv, TypeOK, Unused, InProgress
    <2>4. TypeOK'
      BY <1>1, <1>4, <2>3 DEF IInv, TypeOK
    <2>5. entries'[e] # None /\ entries'[e].unique_id = entries[e].unique_id
      BY <1>1, <1>4 DEF KeepsEntries
    <2>6. ASSUME NEW g \in Flows, flows'[g] # None
          PROVE  IF flows'[g].source = "reauth"
                 THEN /\ flows'[g].entry \in Entries
                      /\ entries'[flows'[g].entry] # None
                      /\ flows'[g].unique_id = entries'[flows'[g].entry].unique_id
                      /\ flows'[g].step = "reauth_confirm"
                 ELSE /\ flows'[g].entry = None
                      /\ flows'[g].unique_id = None
                      /\ flows'[g].step = "meter" => flows'[g].pending # None
      <3>1. CASE g = f
        BY <2>2, <2>3, <2>5, <3>1
      <3>2. CASE g # f
        BY <1>4, <2>3, <2>6, <3>2 DEF IInv, FlowInv, InProgress, Exists, KeepsEntries
      <3> QED BY <3>1, <3>2
    <2>7. ASSUME NEW g \in Flows, NEW h \in Flows, flows'[g] # None, flows'[h] # None,
                 flows'[g].source = "reauth", flows'[h].source = "reauth",
                 flows'[g].entry = flows'[h].entry
          PROVE  g = h
      BY <1>7, <2>2, <2>3, <2>7 DEF IInv, FlowInv, InProgress, Reauthenticating
    <2>8. FlowInv'
      BY <2>6, <2>7 DEF FlowInv, InProgress, Exists
    <2>9. RequestInv'
      BY <1>1, <2>3, RecordFacts DEF IInv, RequestInv, InProgress
    <2>10. StoppedIsAskedFor'
      BY <1>1, <1>4, <2>2, <2>3 DEF IInv, StoppedIsAskedFor, Reauthenticating, Exists, InProgress
    <2> QED BY <1>5, <2>4, <2>8, <2>9, <2>10 DEF IInv
  <1> QED BY <1>6, <1>7 DEF Rejected

LEMMA RemoveIInv ==
    ASSUME IInv, NEW e \in Entries, Remove(e)
    PROVE  IInv'
  <1>1. /\ UNCHANGED requests /\ dismissed' = dismissed \ {e}
        /\ entries'[e] = None /\ \A d \in Entries \ {e} : entries'[d] = entries[d]
        /\ entries' \in [Entries -> Entry \cup {None}]
    BY DEF Remove, IInv, TypeOK
  <1>2. \A f \in Flows :
           IF InProgress(f) /\ flows[f].source = "reauth" /\ flows[f].entry = e
           THEN flows'[f] = None ELSE flows'[f] = flows[f]
    BY DEF Remove
  <1>3. flows' \in [Flows -> Flow \cup {None}]
    <2>1. \A f \in Flows : flows'[f] \in Flow \cup {None}
      BY <1>2 DEF IInv, TypeOK
    <2>2. flows' = [f \in Flows |-> flows'[f]]
      BY DEF Remove
    <2> QED BY <2>1, <2>2
  <1>4. TypeOK'
    BY <1>1, <1>3 DEF IInv, TypeOK
  <1>5. KeepsEntries
    BY <1>1 DEF KeepsEntries
  <1>6. KeepsFlows
    BY <1>1, <1>2 DEF KeepsFlows, IInv, FlowInv, InProgress, Exists
  <1>7. KeepsAsking
    BY <1>1, <1>2 DEF KeepsAsking
  <1> QED BY <1>1, <1>4, <1>5, <1>6, <1>7, KeptIInv

LEMMA RestartIInv ==
    ASSUME IInv, Restart
    PROVE  IInv'
  <1>1. flows' = [f \in Flows |-> None] /\ requests' = {} /\ dismissed' = {}
    BY DEF Restart
  <1>2. ASSUME NEW e \in Entries
        PROVE  \/ entries'[e] = None
               \/ /\ entries[e] # None
                  /\ entries'[e] \in Entry
                  /\ entries'[e].user = entries[e].user
                  /\ entries'[e].item = entries[e].item
                  /\ entries'[e].token = entries[e].token
                  /\ entries'[e].unique_id = entries[e].unique_id
                  /\ entries'[e].state = "polling"
    <2>1. CASE ~Exists(e)
      BY <2>1 DEF Restart
    <2>2. CASE Exists(e)
      <3>1. entries[e] \in Entry
        BY <2>2, RecordFacts DEF IInv
      <3>2. entries'[e] = [entries[e] EXCEPT !.state = "polling"]
        BY <2>2 DEF Restart
      <3>3. entries[e] # None
        BY <2>2 DEF Exists
      <3> DEFINE new == [entries[e] EXCEPT !.state = "polling"]
      <3>4. /\ new \in Entry
            /\ new.user = entries[e].user /\ new.item = entries[e].item
            /\ new.token = entries[e].token /\ new.unique_id = entries[e].unique_id
            /\ new.state = "polling"
        BY <3>1 DEF Entry
      <3> HIDE DEF new
      <3>5. entries'[e] = new
        BY <3>2 DEF new
      <3> QED BY <3>3, <3>4, <3>5
    <2> QED BY <2>1, <2>2
  <1>3. entries' \in [Entries -> Entry \cup {None}]
    <2>1. entries' = [e \in Entries |-> entries'[e]]
      BY DEF Restart
    <2> QED BY <1>2, <2>1
  <1>4. TypeOK'
    BY <1>1, <1>3 DEF TypeOK
  <1>5. KeepsEntries
    BY <1>2 DEF KeepsEntries
  <1>6. KeepsFlows
    BY <1>1 DEF KeepsFlows
  <1>7. KeepsAsking
    BY <1>2 DEF KeepsAsking
  <1> QED BY <1>1, <1>4, <1>5, <1>6, <1>7, KeptIInv

(* What an entry is of, its token included, stays the same. *)
SameMeter(e) ==
    /\ entries'[e].user = entries[e].user
    /\ entries'[e].item = entries[e].item
    /\ entries'[e].unique_id = entries[e].unique_id
    /\ entries'[e].token = entries[e].user

(* No step changes which account and meter an entry is of: only            *)
(* ReauthAccepted writes an account, and that is the entry's own.          *)
LEMMA EntriesKept ==
    ASSUME IInv, Next, NEW e \in Entries, Exists(e), entries'[e] # None
    PROVE  SameMeter(e)
  <1>1. entries[e] \in Entry /\ entries[e].token = entries[e].user
    BY RecordFacts DEF IInv, EntryInv
  <1>2. \A state \in {"polling", "stopped", "reloading"} :
           entries'[e] = [entries[e] EXCEPT !.state = state] => SameMeter(e)
    BY <1>1 DEF Entry, SameMeter
  <1>3. entries'[e] = entries[e] => SameMeter(e)
    BY <1>1 DEF SameMeter
  <1>4. CASE UNCHANGED entries
    BY <1>3, <1>4
  <1>5. ASSUME NEW f \in Flows, NEW item \in Items, ChooseMeter(f, item) PROVE SameMeter(e)
    <2>1. CASE UNCHANGED entries
      BY <1>4, <2>1
    <2>2. CASE \E d \in Entries : NewEntry(d) /\ entries' =
                  [entries EXCEPT ![d] = Created(flows[f].pending.user, item)]
      BY <1>3, <2>2 DEF NewEntry, IInv, TypeOK
    <2> QED BY <1>5, <2>1, <2>2 DEF ChooseMeter
  <1>6. ASSUME NEW r \in requests, ReauthAccepted(r) PROVE SameMeter(e)
    <2>1. r.entry \in Entries
      BY <1>6 DEF ReauthAccepted, IInv, RequestInv
    <2>2. CASE r.entry = e
      <3>1. entries[e].user = r.user
        BY <1>6, <2>2, AcceptsOwn DEF ReauthAccepted, IInv
      <3>2. entries'[e] = Updated(entries[e], r.user)
        BY <1>6, <2>2 DEF ReauthAccepted, IInv, TypeOK
      <3> QED BY <1>1, <3>1, <3>2 DEF Updated, Entry, SameMeter
    <2>3. CASE r.entry # e
      <3>1. entries'[e] = entries[e]
        BY <1>6, <2>1, <2>3 DEF ReauthAccepted, IInv, TypeOK
      <3> QED BY <1>3, <3>1
    <2> QED BY <2>2, <2>3
  <1>7. ASSUME NEW d \in Entries, NEW state \in {"polling", "stopped", "reloading"},
               entries' = [entries EXCEPT ![d].state = state]
        PROVE  SameMeter(e)
    <2>1. CASE d = e
      <3>1. entries'[e] = [entries[e] EXCEPT !.state = state]
        BY <1>7, <2>1 DEF IInv, TypeOK
      <3> QED BY <1>2, <3>1
    <2>2. CASE d # e
      <3>1. entries'[e] = entries[e]
        BY <1>7, <2>2 DEF IInv, TypeOK
      <3> QED BY <1>3, <3>1
    <2> QED BY <2>1, <2>2
  <1>8. ASSUME NEW d \in Entries, Rejected(d) \/ Reload(d) \/ Reloaded(d) PROVE SameMeter(e)
    BY <1>4, <1>7, <1>8 DEF Rejected, Reload, Reloaded
  <1>9. ASSUME NEW d \in Entries, Remove(d) PROVE SameMeter(e)
    <2>1. entries'[e] = entries[e]
      BY <1>9 DEF Remove, IInv, TypeOK
    <2> QED BY <1>3, <2>1
  <1>10. CASE Restart
    <2>1. entries'[e] = [entries[e] EXCEPT !.state = "polling"]
      BY <1>10 DEF Restart
    <2> QED BY <1>2, <2>1
  <1>11. SameMeter(e)
    BY <1>4, <1>5, <1>6, <1>8, <1>9, <1>10
       DEF Next, StartUser, Submit, Dismiss, ValidationFails, UserValidated,
           ReauthRefused, ReauthOfRemoved
  <1> QED BY <1>11

LEMMA NextIInv == IInv /\ [Next]_vars => IInv'
  <1> SUFFICES ASSUME IInv, [Next]_vars PROVE IInv'
    OBVIOUS
  <1>1. CASE UNCHANGED vars
    <2>1. TypeOK' /\ KeepsEntries /\ KeepsAsking /\ requests' \subseteq requests
      BY <1>1 DEF vars, IInv, TypeOK, KeepsEntries, KeepsAsking
    <2>2. KeepsFlows
      BY <1>1 DEF vars, KeepsFlows, IInv, FlowInv, InProgress, Exists
    <2> QED BY <2>1, <2>2, KeptIInv
  <1>2. CASE Next
    BY <1>2, StartUserIInv, SubmitIInv, ChooseMeterIInv, DismissIInv, ValidationFailsIInv,
       UserValidatedIInv, ReauthAcceptedIInv, ReauthRefusedIInv, ReauthOfRemovedIInv,
       RejectedIInv, ReloadIInv, RemoveIInv, RestartIInv DEF Next
  <1> QED BY <1>1, <1>2

(* The inductive invariant always holds. *)
THEOREM Invariance == Spec => []IInv
  BY InitIInv, NextIInv, PTL DEF Spec

(* Entries, flows and submissions keep their types. *)
THEOREM TypeCorrect == Spec => []TypeOK
  <1>1. IInv => TypeOK
    BY DEF IInv
  <1> QED BY <1>1, Invariance, PTL

(* Concurrent user flows never create two entries for one meter, because   *)
(* async_step_meter checks and creates without waiting in between.         *)
THEOREM OneEntryPerMeterCorrect == Spec => []OneEntryPerMeter
  <1>1. IInv => OneEntryPerMeter
    BY DEF IInv
  <1> QED BY <1>1, Invariance, PTL

(* async_step_reauth_confirm never refuses the entry's own account.        *)
THEOREM RightAccountCorrect == Spec => []RightAccountSucceeds
  BY RightAccount, Invariance, PTL

(* An entry whose polling a rejected token has ended has a reauth flow     *)
(* open, unless a flow for it was ended without success.                   *)
THEOREM StoppedIsAskedForCorrect == Spec => []StoppedIsAskedFor
  <1>1. IInv => StoppedIsAskedFor
    BY DEF IInv
  <1> QED BY <1>1, Invariance, PTL

(* An entry stays of its account and meter, under the same unique id, with *)
(* a token of that account, through every reauthentication.                *)
THEOREM EntryKeepsItsMeterCorrect == Spec => EntryKeepsItsMeter
  <1>1. ASSUME IInv, [Next]_vars, NEW e \in Entries, Exists(e), entries'[e] # None
        PROVE  /\ entries'[e].user = entries[e].user
               /\ entries'[e].item = entries[e].item
               /\ entries'[e].unique_id = entries[e].unique_id
               /\ entries'[e].token = entries[e].user
    <2>1. CASE Next
      BY <1>1, <2>1, EntriesKept DEF SameMeter
    <2>2. CASE UNCHANGED vars
      BY <1>1, <2>2 DEF vars, IInv, EntryInv
    <2> QED BY <1>1, <2>1, <2>2
  <1>2. IInv /\ [Next]_vars =>
           [\A e \in Entries : Exists(e) /\ Exists(e)' =>
               /\ entries'[e].user = entries[e].user
               /\ entries'[e].item = entries[e].item
               /\ entries'[e].unique_id = entries[e].unique_id
               /\ entries'[e].token = entries[e].user]_vars
    BY <1>1 DEF Exists
  <1> QED BY <1>2, Invariance, PTL DEF Spec, EntryKeepsItsMeter
=============================================================================
