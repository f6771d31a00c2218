--------------------------- MODULE BedrockCatalogue ---------------------------
(***************************************************************************)
(* The model side of adapters/bedrock.py: the session table, the catalogue *)
(* cached per (profile, region), the default model picked from it and the  *)
(* sticky model of each session.  One backend object serves several        *)
(* sessions (core/backend.py); every call is a task of its own and is      *)
(* suspended in the two control-plane listings, which run in the executor. *)
(* Each initialize() brings a configuration of its own.  The state object  *)
(* that it makes is named by the call, and keeps that configuration.       *)
(***************************************************************************)
EXTENDS Naturals, SequencesExt, Selection

CONSTANTS
    Sessions, Calls,
    Configs,     \* what initialize() is called with: [place, prefer]
    Cold,        \* the configuration that list_models uses without a session
    Models,      \* foundation models
    Profiles,    \* ids of inference profiles
    Accounts,    \* what the control plane can list in each place
    Builtin,     \* _DEFAULT_PREFERENCE: the models that match each substring
    Requested,   \* the model id that a host passes
    None, Absent

\* Ids tell models from profiles, and both from "no model".
ASSUME NoneAssumption == None \notin Calls \cup Models \cup Profiles \cup {Requested}
ASSUME PreferenceAssumption == Builtin \in Seq(SUBSET Models)

Places == {cfg.place : cfg \in Configs \cup {Cold}}
\* The entries of the two listings; rank: the place in the order of (family, name).
ModelEntry == [model : Models, types : SUBSET STRING, text : BOOLEAN, streaming : BOOLEAN,
               rank : Nat]
ProfileEntry == [id : Profiles, scope : {"regional", "global", "other"}, models : SUBSET Models]
ASSUME AccountsAssumption ==
    \A offers \in Accounts, p \in Places :
        offers[p].models \in Seq(ModelEntry) /\ offers[p].profiles \in Seq(ProfileEntry)

VARIABLES
    account,     \* the listings, per place; fixed
    table,       \* _sessions: per session its state, or None
    order,       \* the keys of _sessions in insertion order
    sticky,      \* per state: current_model_id
    active,      \* per state: active
    clients,     \* _control_clients: the places that have one
    cache,       \* _catalogue_cache
    fallback,    \* _fallback_default
    op, session, \* per call: the method and the session it is about
    state,       \* per send_message: the state it found
    from,        \* per call: the configuration its catalogue is fetched with;
                 \* of an initialize(), also that of the state it made
    step         \* per call: where it is
VARIABLES        \* history
    degraded,    \* places whose profile listing failed once
    failed,      \* calls whose model listing failed
    popped,      \* initialisations whose session was closed in the meantime
    earlier,     \* per state: the initialisations of its session that were
                 \* still listing when it was made
    used         \* per state: the model of its last message, if its
                 \* initialize() had returned before
routing == <<table, order, active, earlier>>
models == <<sticky, fallback, used>>
calls == <<op, session, state, from>>
vars == <<account, routing, models, clients, cache, calls, step, degraded, failed, popped>>

-----------------------------------------------------------------------------
(* The catalogue built from the two listings. *)

\* A streaming text model that can be invoked on demand or through a profile.
Eligible(e) ==
    e.text /\ e.streaming /\ e.types \cap {"ON_DEMAND", "INFERENCE_PROFILE"} # {}

PassesListed == [pass \in 1..3 |-> {"regional", "global", "other"}]
\* _index_inference_profiles: three passes, and the first profile of a model stays.
Passes == <<{"regional"}, {"global"}, {"regional", "global", "other"}>>
Pass(index, scopes, profiles) ==
    LET admitted(m) == Only(profiles, {p \in ToSet(profiles) : p.scope \in scopes /\ m \in p.models})
    IN  [m \in Models |-> IF index[m] # None \/ admitted(m) = <<>> THEN index[m]
                          ELSE admitted(m)[1].id]
Index(profiles) ==
    Pass(Pass(Pass([m \in Models |-> None], Passes[1], profiles), Passes[2], profiles),
         Passes[3], profiles)

\* The id to invoke: a profile's when the model cannot be called on demand.
InvocableId(e, index) == IF "ON_DEMAND" \in e.types THEN e.model ELSE index[e.model]

\* list.sort is stable: an entry goes behind those of its rank.
Inserted(sorted, e) == Only(sorted, {x \in ToSet(sorted) : x.rank <= e.rank}) \o <<e>>
                       \o Only(sorted, {x \in ToSet(sorted) : x.rank > e.rank})
Sorted(entries) ==
    LET first[n \in 0..Len(entries)] ==
            IF n = 0 THEN <<>> ELSE Inserted(first[n - 1], entries[n])
    IN  first[Len(entries)]

Catalogue(listing, profiles) ==
    LET index == Index(profiles)
        kept == {e \in ToSet(listing) : Eligible(e) /\ InvocableId(e, index) # None}
        sorted == Sorted(Only(listing, kept))
    IN  [k \in DOMAIN sorted |->
            [model |-> sorted[k].model, id |-> InvocableId(sorted[k], index)]]

\* _pick_default_model: the first substring that any model matches decides.
Default(catalogue, prefer) ==
    LET preference == <<prefer>> \o Builtin
        matches(k) == Only(catalogue, {e \in ToSet(catalogue) : e.model \in preference[k]})
        hits == {k \in DOMAIN preference : matches(k) # <<>>}
        first == CHOOSE k \in hits : \A l \in hits : k <= l
    IN  IF catalogue = <<>> THEN None
        ELSE IF hits = {} THEN catalogue[1].id ELSE matches(first)[1].id

-----------------------------------------------------------------------------
Init ==
    /\ account \in Accounts
    /\ table = [s \in Sessions |-> None] /\ order = <<>>
    /\ active = [c \in Calls |-> TRUE]
    /\ sticky = [c \in Calls |-> None] /\ fallback = None
    /\ clients = {} /\ cache = [p \in Places |-> Absent]
    /\ op = [c \in Calls |-> "none"] /\ session = [c \in Calls |-> None]
    /\ state = [c \in Calls |-> None] /\ from = [c \in Calls |-> Cold]
    /\ step = [c \in Calls |-> "idle"]
    /\ degraded = {} /\ failed = {} /\ popped = {}
    /\ earlier = [c \in Calls |-> {}] /\ used = [c \in Calls |-> None]

Goto(c, s) == step' = [step EXCEPT ![c] = s]
Pending(c) == step[c] \in {"models", "profiles"}

\* The message goes out with this model, which becomes the session's.
StreamWith(st, model) ==
    /\ sticky' = [sticky EXCEPT ![st] = model]
    /\ used' = [used EXCEPT ![st] = IF step[st] = "returned" THEN model ELSE None]

StoreDefaultInLatest(c, default) ==
    /\ Goto(c, "returned")
    /\ sticky' = IF order' = <<>> THEN sticky
                 ELSE [sticky EXCEPT ![table'[Last(order')]] = default]
    /\ UNCHANGED used
\* initialize stores its default in the state that the table has by now,
\* which another initialize() may have put there.
StoreDefault(c, default) ==
    LET st == table'[session'[c]]
    IN  /\ IF st = None THEN Goto(c, "raised") /\ UNCHANGED sticky
           ELSE Goto(c, "returned") /\ sticky' = [sticky EXCEPT ![st] = default]
        /\ UNCHANGED used

\* What each method does with the catalogue, without another suspension.
Settle(c, catalogue) ==
    LET default == Default(catalogue, from'[c].prefer)
    IN  \/ /\ op'[c] = "list" \/ (op'[c] = "initialize" /\ default = None)
           /\ Goto(c, "returned") /\ UNCHANGED models
        \/ /\ op'[c] = "initialize" /\ default # None
           /\ fallback' = default /\ StoreDefault(c, default)
        \/ /\ op'[c] = "send" /\ default = None
           /\ Goto(c, "refused") /\ UNCHANGED models
        \/ /\ op'[c] = "send" /\ default # None
           /\ fallback' = default /\ StreamWith(state'[c], default)
           /\ Goto(c, "returned")

\* _fetch_catalogue up to its first suspension: a cached catalogue, a client
\* that cannot be made (no boto3, no such profile), or the first listing with
\* the place's client, which is made once.
Fetch(c) ==
    LET place == from'[c].place
    IN  \/ cache[place] # Absent /\ Settle(c, cache[place]) /\ UNCHANGED <<clients, failed>>
        \/ /\ cache[place] = Absent /\ place \notin clients
           /\ Settle(c, <<>>) /\ failed' = failed \cup {c} /\ UNCHANGED clients
        \/ /\ cache[place] = Absent
           /\ Goto(c, "models") /\ clients' = clients \cup {place}
           /\ UNCHANGED <<models, failed>>

Begins(c, method, s, cfg) ==
    /\ step[c] = "idle"
    /\ op' = [op EXCEPT ![c] = method]
    /\ session' = [session EXCEPT ![c] = s]
    /\ from' = [from EXCEPT ![c] = cfg]
    /\ UNCHANGED <<account, cache, degraded>>

\* A new state takes the session's place in the table, if it has one.
CallInitialize(c, s, cfg) ==
    /\ Begins(c, "initialize", s, cfg)
    /\ table' = [table EXCEPT ![s] = c]
    /\ order' = IF table[s] = None THEN Append(order, s) ELSE order
    /\ earlier' = [earlier EXCEPT ![c] =
         {d \in Calls : Pending(d) /\ op[d] = "initialize" /\ session[d] = s}]
    /\ Fetch(c)
    /\ UNCHANGED <<active, state, popped>>

\* state.config of the session's state.
ConfigOf(s) == IF table[s] = None THEN Cold ELSE from[table[s]]
Serving(s) == table[s] # None /\ active[table[s]]

\* The model: the one asked for, else the session's last, else the default.
CallSend(c, s, model) ==
    LET last == IF model # None THEN model ELSE sticky[table[s]]
    IN  /\ Begins(c, "send", s, ConfigOf(s))
        /\ state' = [state EXCEPT ![c] = table[s]]
        /\ \/ /\ ~Serving(s)
              /\ Goto(c, "inactive") /\ UNCHANGED <<models, clients, failed>>
           \/ /\ Serving(s) /\ last # None
              /\ Goto(c, "returned") /\ StreamWith(table[s], last)
              /\ UNCHANGED <<fallback, clients, failed>>
           \/ Serving(s) /\ last = None /\ Fetch(c)
        /\ UNCHANGED <<routing, popped>>

\* list_models asks for the last key of _sessions.
Latest == IF order = <<>> THEN Cold ELSE ConfigOf(Last(order))
CallList(c) ==
    /\ Begins(c, "list", None, Latest)
    /\ Fetch(c)
    /\ UNCHANGED <<routing, state, popped>>

-----------------------------------------------------------------------------
(* The listings' answers, and what ends or happens beside a pending call. *)

ModelsListed(c) ==
    /\ step[c] = "models"
    /\ Goto(c, "profiles")
    /\ UNCHANGED <<account, routing, models, clients, cache, calls, degraded, failed, popped>>

ModelsFailedCached(c) ==
    /\ step[c] = "models"
    /\ failed' = failed \cup {c}
    /\ cache' = [cache EXCEPT ![from[c].place] = <<>>]
    /\ UNCHANGED <<account, routing, clients, calls, degraded, popped>>
    /\ Settle(c, <<>>)
\* Nothing is cached: the next call tries again.
ModelsFailed(c) ==
    /\ step[c] = "models"
    /\ failed' = failed \cup {c}
    /\ UNCHANGED <<account, routing, clients, cache, calls, degraded, popped>>
    /\ Settle(c, <<>>)

\* The result is cached, also over what another call has cached by now.
Store(c, catalogue) ==
    /\ cache' = [cache EXCEPT ![from[c].place] = catalogue]
    /\ UNCHANGED <<account, routing, clients, calls, failed, popped>>
    /\ Settle(c, catalogue)

ProfilesListed(c) ==
    /\ step[c] = "profiles"
    /\ UNCHANGED degraded
    /\ LET offer == account[from[c].place] IN Store(c, Catalogue(offer.models, offer.profiles))

ProfilesFailed(c) ==
    /\ step[c] = "profiles"
    /\ degraded' = degraded \cup {from[c].place}
    /\ Store(c, Catalogue(account[from[c].place].models, <<>>))

Cancelled(c) ==
    /\ Pending(c)
    /\ Goto(c, "cancelled")
    /\ UNCHANGED <<account, routing, models, clients, cache, calls, degraded, failed, popped>>

Cancel(s) ==
    /\ table[s] # None /\ active[table[s]]
    /\ active' = [active EXCEPT ![table[s]] = FALSE]
    /\ UNCHANGED <<account, table, order, earlier, models, clients, cache, calls, step>>
    /\ UNCHANGED <<degraded, failed, popped>>

CloseLatest(s) ==
    /\ table[s] # None
    /\ table' = [table EXCEPT ![Last(order)] = None]
    /\ order' = Front(order)
    /\ popped' = popped \cup {c \in Calls : Pending(c) /\ session[c] = s}
    /\ UNCHANGED <<account, active, earlier, models, clients, cache, calls, step, degraded, failed>>
Close(s) ==
    /\ table[s] # None
    /\ table' = [table EXCEPT ![s] = None]
    /\ \E i \in DOMAIN order : order[i] = s /\ order' = RemoveAt(order, i)
    /\ popped' = popped \cup {c \in Calls : Pending(c) /\ session[c] = s}
    /\ UNCHANGED <<account, active, earlier, models, clients, cache, calls, step, degraded, failed>>

Next ==
    \/ \E c \in Calls :
         \/ \E s \in Sessions : \/ \E cfg \in Configs : CallInitialize(c, s, cfg)
                               \/ \E model \in {None, Requested} : CallSend(c, s, model)
         \/ CallList(c)
         \/ ModelsListed(c) \/ ModelsFailed(c) \/ ProfilesListed(c) \/ ProfilesFailed(c)
         \/ Cancelled(c)
    \/ \E s \in Sessions : Cancel(s) \/ Close(s)

Spec == Init /\ [][Next]_vars

-----------------------------------------------------------------------------
(* Properties. *)

\* _sessions as a Python dictionary: its keys are those in use, each once.
TypeOK ==
    /\ table \in [Sessions -> Calls \cup {None}] /\ active \in [Calls -> BOOLEAN]
    /\ order \in Seq(Sessions) /\ IsInjective(order)
    /\ ToSet(order) = {s \in Sessions : table[s] # None}
    /\ op \in [Calls -> {"none", "initialize", "send", "list"}]
    /\ session \in [Calls -> Sessions \cup {None}] /\ state \in [Calls -> Calls \cup {None}]
    /\ step \in [Calls -> {"idle", "models", "profiles", "returned", "raised",
                            "refused", "inactive", "cancelled"}]
    /\ from \in [Calls -> Configs \cup {Cold}] /\ earlier \in [Calls -> SUBSET Calls]
    /\ {degraded, clients} \subseteq SUBSET Places /\ {failed, popped} \subseteq SUBSET Calls

\* What the control plane of a place really offers: the best profile of a model
\* is a regional one, then a global one, and the earliest listed of its kind.
Rank(p) == CASE p.scope = "regional" -> 1 [] p.scope = "global" -> 2 [] OTHER -> 3
BestProfile(profiles, m) ==
    LET of == {i \in DOMAIN profiles : m \in profiles[i].models}
        Better(i, j) == \/ Rank(profiles[i]) < Rank(profiles[j])
                        \/ Rank(profiles[i]) = Rank(profiles[j]) /\ i <= j
    IN  profiles[CHOOSE i \in of : \A j \in of : Better(i, j)].id
OnDemand(offer) == {e \in ToSet(offer.models) : Eligible(e) /\ "ON_DEMAND" \in e.types}
ViaProfile(offer) == {e \in ToSet(offer.models) \ OnDemand(offer) :
    Eligible(e) /\ \E p \in ToSet(offer.profiles) : e.model \in p.models}
Bare(offer) == {[model |-> e.model, id |-> e.model] : e \in OnDemand(offer)}
Profiled(offer) == {[model |-> e.model, id |-> BestProfile(offer.profiles, e.model)] :
                       e \in ViaProfile(offer)}
\* The ids that can be invoked.
Invocable(offer) == {e.id : e \in Bare(offer) \cup Profiled(offer)}

\* The cached catalogue of a place is that place's, each model with an id that
\* can be invoked there and with its best profile, however many calls fetched
\* it at once; it lacks the profile-only models just when it was stored by a
\* call whose profile listing failed.
CacheIsThePlaces ==
    \A p \in Places : cache[p] # Absent =>
        \/ ToSet(cache[p]) = Bare(account[p]) \cup Profiled(account[p])
        \/ p \in degraded /\ ToSet(cache[p]) = Bare(account[p])

\* A state's model is the host's or one that can be invoked where the state was
\* configured.  The one other source is line 253: an initialisation of the same
\* session that was still listing, perhaps elsewhere, when the state was made.
\* Never is it a default of another session, of a later initialisation, or of
\* one that was over by then, however the listings interleave.
Offer(c) == account[from[c].place]
OwnModel ==
    \A st \in Calls : sticky[st] # None =>
        \/ sticky[st] \in {Requested} \cup Invocable(Offer(st))
        \/ \E c \in earlier[st] : step[c] = "returned" /\ sticky[st] \in Invocable(Offer(c))

\* initialize() fails only because its session was closed while it waited.
RaisesOnlyIfClosed == \A c \in Calls : step[c] = "raised" => c \in popped

\* A message is refused for want of a model only when the place offers none, or
\* this call's listing failed, or an earlier profile listing there did: a
\* failed listing of the models is not remembered.
RefusedForCause ==
    \A c \in Calls : step[c] = "refused" =>
        LET p == from[c].place
            offer == account[p]
        IN  \/ Bare(offer) \cup Profiled(offer) = {}
            \/ c \in failed
            \/ Bare(offer) = {} /\ p \in degraded

(* What the code's own words promise and the code does not keep. *)

\* "Stay on whatever the adapter last used for this session" (core/backend.py:
\* 69-71), "sticky inside one session" (bedrock.py:99-100): what a message
\* without a model would use is the model of the session's last message, when
\* that one was sent after initialize() returned.
StaysOnLastUsed == \A st \in Calls : used[st] # None => sticky[st] = used[st]
===============================================================================
