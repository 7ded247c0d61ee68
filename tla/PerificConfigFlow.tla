-------------------------- MODULE PerificConfigFlow --------------------------
(***************************************************************************)
(* The config and reauthentication flows of                                *)
(* custom_components/perific/config_flow.py, several of them at once, with *)
(* the entries they create and update.                                     *)
(*                                                                         *)
(* A form may be submitted again while the first submission still waits    *)
(* for the cloud, and a submission runs on when its flow, or the entry it  *)
(* is about, goes away: it is a request of its own.  Between the cloud's   *)
(* answer and the end of a step nothing waits.  Home Assistant's part      *)
(* (flow manager, entries, reload) is external.                            *)
(***************************************************************************)
EXTENDS FiniteSets, Naturals

CONSTANTS
    Users,         \* user_id of the accounts
    Items,         \* ItemIds of meters; an account may see any of them
    Entries,       \* entry_id
    Flows,         \* flow_id
    None,
    MaxRequests    \* bound: submissions waiting for the cloud

ASSUME ConfigAssumption ==
    /\ None \notin Users \cup Items \cup Entries \cup Flows
    /\ MaxRequests \in Nat

VARIABLES
    entries,    \* the config entries
    flows,      \* the flows in progress
    requests,   \* the submissions in _async_validate_credentials
    dismissed   \* history: entries whose last reauth flow the user ended

vars == <<entries, flows, requests, dismissed>>

-----------------------------------------------------------------------------
(* f"{user_id}_{item_id}"; a legacy unique id is the user_id alone.  No    *)
(* id is taken to look like one of the other kind.                         *)
UniqueId == [user : Users, item : Items \cup {None}]
EntryUniqueId(user, item) == [user |-> user, item |-> item]
LegacyUniqueId(user)      == [user |-> user, item |-> None]

Entry == [user      : Users,      \* data[CONF_USER_ID]
          item      : Items,      \* data[CONF_ITEM_ID]
          token     : Users,      \* data[CONF_TOKEN]: whose it is
          unique_id : UniqueId,
          state     : {"polling", "stopped", "reloading"}]

Pending == [user : Users, meters : (SUBSET Items) \ {{}}]

Flow == [source    : {"user", "reauth"},
         entry     : Entries \cup {None},
         step      : {"user", "meter", "reauth_confirm"},
         pending   : Pending \cup {None},      \* _pending_config
         unique_id : UniqueId \cup {None}]     \* the flow's context

Request == [flow : Flows, source : {"user", "reauth"}, entry : Entries \cup {None}, user : Users]

ASSUME RecordAssumption ==
    /\ None \notin UniqueId
    /\ None \notin Entry
    /\ None \notin Pending
    /\ None \notin Flow

Exists(e) == entries[e] # None
InProgress(f) == flows[f] # None

(* Ids are never used twice, so one that nothing refers to is a new one. *)
Unused(f) == ~InProgress(f) /\ \A r \in requests : r.flow # f
NewEntry(e) == ~Exists(e) /\ \A r \in requests : r.entry # e

UserFlow == [source |-> "user", entry |-> None, step |-> "user", pending |-> None, unique_id |-> None]

ReauthFlow(e) == [source |-> "reauth", entry |-> e, step |-> "reauth_confirm", pending |-> None,
                  unique_id |-> entries[e].unique_id]

Reauthenticating(e) == \E f \in Flows : InProgress(f) /\ flows[f].source = "reauth" /\ flows[f].entry = e

Init ==
    /\ entries \in [Entries -> {None} \cup
          {[user |-> u, item |-> i, token |-> u, unique_id |-> LegacyUniqueId(u), state |-> "polling"] :
              u \in Users, i \in Items}]
    /\ \A d, e \in Entries : Exists(d) /\ Exists(e) /\ d # e => entries[d].user # entries[e].user
    /\ flows = [f \in Flows |-> None]
    /\ requests = {}
    /\ dismissed = {}

-----------------------------------------------------------------------------
(* Forms *)

StartUser(f) ==
    /\ Unused(f)
    /\ flows' = [flows EXCEPT ![f] = UserFlow]
    /\ UNCHANGED <<entries, requests, dismissed>>

(* async_step_user or async_step_reauth_confirm with credentials of user's *)
Submit(f, user) ==
    /\ InProgress(f)
    /\ flows[f].step # "meter"
    /\ Cardinality(requests) < MaxRequests
    /\ requests' = requests \cup
          {[flow |-> f, source |-> flows[f].source, entry |-> flows[f].entry, user |-> user]}
    /\ UNCHANGED <<entries, flows, dismissed>>

(* invalid_auth, cannot_connect or no_meter: the first form again *)
ValidationFails(r) ==
    /\ requests' = requests \ {r}
    /\ flows' = IF InProgress(r.flow) /\ r.source = "user"
                THEN [flows EXCEPT ![r.flow].step = "user"] ELSE flows
    /\ UNCHANGED <<entries, dismissed>>

(* async_step_user goes on to async_step_meter, which shows its form *)
UserValidated(r) ==
    /\ r.source = "user"
    /\ requests' = requests \ {r}
    /\ \E meters \in (SUBSET Items) \ {{}} :
          flows' = IF InProgress(r.flow)
                   THEN [flows EXCEPT ![r.flow].pending = [user |-> r.user, meters |-> meters],
                                      ![r.flow].step = "meter"]
                   ELSE flows
    /\ UNCHANGED <<entries, dismissed>>

(* only unique ids are compared *)
ConfiguredByUniqueId(user, item) ==
    \E e \in Entries : Exists(e) /\ entries[e].unique_id = EntryUniqueId(user, item)

(* _async_entry_configured *)
EntryConfigured(user, item) ==
    \E e \in Entries : Exists(e) /\ entries[e].user = user /\ entries[e].item = item

(* async_set_unique_id aborts when another flow is about the unique id *)
AlreadyInProgress(f, unique_id) ==
    \E g \in Flows \ {f} : InProgress(g) /\ flows[g].unique_id = unique_id

UniqueIdConfigured(unique_id) == \E e \in Entries : Exists(e) /\ entries[e].unique_id = unique_id

(* the item chosen does not get into the entry's data *)
CreatedWithoutItem(user, item) ==
    [user |-> user, item |-> None, token |-> user,
     unique_id |-> EntryUniqueId(user, item), state |-> "polling"]

Created(user, item) ==
    [user |-> user, item |-> item, token |-> user,
     unique_id |-> EntryUniqueId(user, item), state |-> "polling"]

(* async_step_meter with one of the meters listed; any other is refused *)
ChooseMeter(f, item) ==
    /\ InProgress(f)
    /\ flows[f].step = "meter"
    /\ item \in flows[f].pending.meters
    /\ flows' = [flows EXCEPT ![f] = None]
    /\ LET user == flows[f].pending.user
           unique_id == EntryUniqueId(user, item)
       IN \/ /\ \/ EntryConfigured(user, item)
                \/ AlreadyInProgress(f, unique_id)
                \/ UniqueIdConfigured(unique_id)
             /\ UNCHANGED entries
          \/ /\ ~EntryConfigured(user, item)
             /\ ~AlreadyInProgress(f, unique_id)
             /\ ~UniqueIdConfigured(unique_id)
             /\ \E e \in Entries : NewEntry(e) /\ entries' = [entries EXCEPT ![e] = Created(user, item)]
    /\ UNCHANGED <<requests, dismissed>>

-----------------------------------------------------------------------------
(* Reauthentication *)

(* whatever account the credentials are of *)
TrustedUniqueId(user, item, entry) == entry.unique_id

(* legacy unique ids forgotten *)
NewUniqueId(user, item, entry) == EntryUniqueId(user, item)

(* _reauth_unique_id *)
ReauthUniqueId(user, item, entry) ==
    IF entry.unique_id = EntryUniqueId(user, item) THEN EntryUniqueId(user, item)
    ELSE LegacyUniqueId(user)

(* the new token is left for the next restart *)
UpdatedOnly(entry, user) == [entry EXCEPT !.user = user, !.token = user]

(* async_update_reload_and_abort with the data of validated credentials *)
Updated(entry, user) == [entry EXCEPT !.user = user, !.token = user, !.state = "reloading"]

EndFlow(f) == flows' = [flows EXCEPT ![f] = None]

(* What async_step_reauth_confirm does with valid credentials. *)
Accepts(r) ==
    LET entry == entries[r.entry]
        unique_id == ReauthUniqueId(r.user, entry.item, entry)
    IN ~AlreadyInProgress(r.flow, unique_id) /\ unique_id = entry.unique_id

ReauthAccepted(r) ==
    /\ r.source = "reauth"
    /\ Exists(r.entry)
    /\ Accepts(r)
    /\ entries' = [entries EXCEPT ![r.entry] = Updated(@, r.user)]
    /\ requests' = requests \ {r}
    /\ EndFlow(r.flow)
    /\ UNCHANGED dismissed

(* wrong_account, or already_in_progress *)
ReauthRefused(r) ==
    /\ r.source = "reauth"
    /\ Exists(r.entry)
    /\ ~Accepts(r)
    /\ requests' = requests \ {r}
    /\ dismissed' = IF InProgress(r.flow) THEN dismissed \cup {r.entry} ELSE dismissed
    /\ EndFlow(r.flow)
    /\ UNCHANGED entries

(* _get_reauth_entry raises: the entry is gone, and its flows with it *)
ReauthOfRemoved(r) ==
    /\ r.source = "reauth"
    /\ ~Exists(r.entry)
    /\ requests' = requests \ {r}
    /\ UNCHANGED <<entries, flows, dismissed>>

-----------------------------------------------------------------------------
(* Home Assistant and the cloud *)

(* ConfigEntryAuthFailed of the coordinator stops its polling and starts a *)
(* reauth flow unless there is one.  It may be of a refresh that began     *)
(* with the old token, before a reload that is already scheduled.          *)
Rejected(e) ==
    /\ Exists(e)
    /\ entries[e].state # "stopped"
    /\ entries' = IF entries[e].state = "polling"
                  THEN [entries EXCEPT ![e].state = "stopped"] ELSE entries
    /\ \/ /\ Reauthenticating(e)
          /\ UNCHANGED flows
       \/ /\ ~Reauthenticating(e)
          /\ \E f \in Flows : Unused(f) /\ flows' = [flows EXCEPT ![f] = ReauthFlow(e)]
    /\ dismissed' = dismissed \ {e}
    /\ UNCHANGED requests

Reload(e) ==
    /\ Exists(e)
    /\ entries[e].state # "reloading"
    /\ entries' = [entries EXCEPT ![e].state = "reloading"]
    /\ UNCHANGED <<flows, requests, dismissed>>

Reloaded(e) ==
    /\ Exists(e)
    /\ entries[e].state = "reloading"
    /\ entries' = [entries EXCEPT ![e].state = "polling"]
    /\ UNCHANGED <<flows, requests, dismissed>>

Remove(e) ==
    /\ Exists(e)
    /\ entries' = [entries EXCEPT ![e] = None]
    /\ flows' = [f \in Flows |-> IF InProgress(f) /\ flows[f].source = "reauth" /\ flows[f].entry = e
                                 THEN None ELSE flows[f]]
    /\ dismissed' = dismissed \ {e}
    /\ UNCHANGED requests

(* the user closes a flow *)
Dismiss(f) ==
    /\ InProgress(f)
    /\ EndFlow(f)
    /\ dismissed' = dismissed \cup ({flows[f].entry} \ {None})
    /\ UNCHANGED <<entries, requests>>

(* flows are not kept over a restart of Home Assistant *)
Restart ==
    /\ entries' = [e \in Entries |-> IF Exists(e) THEN [entries[e] EXCEPT !.state = "polling"] ELSE None]
    /\ flows' = [f \in Flows |-> None]
    /\ requests' = {}
    /\ dismissed' = {}

Next ==
    \/ \E f \in Flows : StartUser(f)
    \/ \E f \in Flows, user \in Users : Submit(f, user)
    \/ \E f \in Flows, item \in Items : ChooseMeter(f, item)
    \/ \E f \in Flows : Dismiss(f)
    \/ \E r \in requests : ValidationFails(r)
    \/ \E r \in requests : UserValidated(r)
    \/ \E r \in requests : ReauthAccepted(r)
    \/ \E r \in requests : ReauthRefused(r)
    \/ \E r \in requests : ReauthOfRemoved(r)
    \/ \E e \in Entries : Rejected(e)
    \/ \E e \in Entries : Reload(e)
    \/ \E e \in Entries : Reloaded(e)
    \/ \E e \in Entries : Remove(e)
    \/ Restart

Spec == Init /\ [][Next]_vars

-----------------------------------------------------------------------------
(* Properties *)

(* The types of entries, flows and requests. *)
TypeOK ==
    /\ entries \in [Entries -> Entry \cup {None}]
    /\ flows \in [Flows -> Flow \cup {None}]
    /\ requests \subseteq Request
    /\ dismissed \subseteq Entries

(* No meter of an account has two entries, of whatever age: not when two   *)
(* flows for it get past their credentials before either creates one.      *)
OneEntryPerMeter ==
    \A d, e \in Entries : Exists(d) /\ Exists(e) /\ d # e =>
        \/ entries[d].user # entries[e].user
        \/ entries[d].item # entries[e].item

(* Nothing changes which account and meter an entry is of, on which its    *)
(* entities' ids depend, and its token is always that account's: not the   *)
(* submission of a flow that is over, nor another account's credentials.   *)
EntryKeepsItsMeter ==
    [][\A e \in Entries : Exists(e) /\ Exists(e)' =>
          /\ entries'[e].user = entries[e].user
          /\ entries'[e].item = entries[e].item
          /\ entries'[e].unique_id = entries[e].unique_id
          /\ entries'[e].token = entries[e].user]_vars

(* Valid credentials of the entry's own account, given to a flow that is   *)
(* still open, are never refused, however old the entry is and whatever    *)
(* other flows there are.                                                  *)
RightAccountSucceeds ==
    \A r \in requests :
        r.source = "reauth" /\ InProgress(r.flow) /\ entries[r.entry].user = r.user => Accepts(r)

(* An entry that has stopped polling over its token has a reauth flow open *)
(* unless the user closed it or gave another account's credentials.        *)
StoppedIsAskedFor ==
    \A e \in Entries : Exists(e) /\ entries[e].state = "stopped" =>
        Reauthenticating(e) \/ e \in dismissed
=============================================================================
