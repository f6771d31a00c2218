------------------------ MODULE BedrockCatalogueProofs ------------------------
(***************************************************************************)
(* Proofs about BedrockCatalogue, for any sessions, calls and accounts.    *)
(* First what the interleaving of pending calls does to the session table  *)
(* (IInv; it holds whatever Catalogue and Default compute), then what      *)
(* Catalogue and Default compute, then which place's models each state can *)
(* get (PInv, relative to IInv).                                           *)
(***************************************************************************)
EXTENDS BedrockCatalogue, SequenceLemmas, TLAPS

Steps == {"idle", "models", "profiles", "returned", "raised", "refused", "inactive", "cancelled"}

\* The types, in two parts: what a call is about, and what it ends with.
Routes ==
    /\ table \in [Sessions -> Calls \cup {None}] /\ active \in [Calls -> BOOLEAN]
    /\ order \in Seq(Sessions) /\ IsInjective(order)
    /\ ToSet(order) = {s \in Sessions : table[s] # None}
    /\ op \in [Calls -> {"none", "initialize", "send", "list"}]
    /\ session \in [Calls -> Sessions \cup {None}] /\ state \in [Calls -> Calls \cup {None}]
    /\ from \in [Calls -> Configs \cup {Cold}] /\ earlier \in [Calls -> SUBSET Calls]
    /\ degraded \subseteq Places /\ clients \subseteq Places
    /\ failed \subseteq Calls /\ popped \subseteq Calls
Values ==
    /\ step \in [Calls -> Steps]
    /\ sticky = [c \in Calls |-> sticky[c]] /\ used = [c \in Calls |-> used[c]]

\* The session of a pending initialisation is in the table, or was closed.
Known == \A c \in Calls :
    Pending(c) /\ op[c] = "initialize" =>
        session[c] \in Sessions /\ (table[session[c]] # None \/ c \in popped)

\* A send_message that waits for a catalogue has a state to store its model in.
HasState == \A c \in Calls : Pending(c) /\ op[c] = "send" => state[c] \in Calls

IInv == Routes /\ Values /\ Known /\ HasState /\ RaisesOnlyIfClosed

-----------------------------------------------------------------------------
(* What a method does with its catalogue. *)

\* Only models of states are written.
LEMMA SettleModels ==
  ASSUME NEW c \in Calls, NEW catalogue, Settle(c, catalogue),
         sticky = [d \in Calls |-> sticky[d]], used = [d \in Calls |-> used[d]]
  PROVE  sticky' = [d \in Calls |-> sticky'[d]] /\ used' = [d \in Calls |-> used'[d]]
<1> DEFINE default == Default(catalogue, from'[c].prefer)
<1> HIDE DEF default
<1>1. CASE UNCHANGED models
  BY <1>1 DEF models
<1>2. CASE StoreDefault(c, default)
  BY <1>2 DEF StoreDefault
<1>3. CASE StreamWith(state'[c], default)
  BY <1>3 DEF StreamWith
<1> QED  BY <1>1, <1>2, <1>3 DEF Settle, default

\* The call is over, and only an initialisation whose session is gone raised.
LEMMA SettleStep ==
  ASSUME NEW c \in Calls, NEW catalogue, Settle(c, catalogue), step \in [Calls -> Steps]
  PROVE  /\ step' \in [Calls -> Steps] /\ \A d \in Calls \ {c} : step'[d] = step[d]
         /\ step'[c] \in {"returned", "refused", "raised"}
         /\ step'[c] = "raised" => op'[c] = "initialize" /\ table'[session'[c]] = None
<1> DEFINE default == Default(catalogue, from'[c].prefer)
<1> HIDE DEF default
<1>1. CASE Goto(c, "returned") \/ Goto(c, "refused")
  BY <1>1 DEF Goto, Steps
<1>2. CASE op'[c] = "initialize" /\ StoreDefault(c, default)
  BY <1>2 DEF StoreDefault, Goto, Steps
<1> QED  BY <1>1, <1>2 DEF Settle, default

\* A call that is past its last suspension leaves the others as they were.
LEMMA SettleInv ==
  ASSUME IInv, NEW c \in Calls, NEW catalogue, Settle(c, catalogue), Routes', UNCHANGED popped,
         \A s \in Sessions : table[s] # None => table'[s] # None,
         \A d \in Calls \ {c} : op'[d] = op[d] /\ session'[d] = session[d] /\ state'[d] = state[d],
         op'[c] = "initialize" =>
            session'[c] \in Sessions /\ (table'[session'[c]] # None \/ c \in popped)
  PROVE  IInv'
<1>1. sticky' = [d \in Calls |-> sticky'[d]] /\ used' = [d \in Calls |-> used'[d]]
  BY SettleModels DEF IInv, Values
<1>2. /\ step' \in [Calls -> Steps] /\ \A d \in Calls \ {c} : step'[d] = step[d]
      /\ step'[c] \in {"returned", "refused", "raised"}
      /\ step'[c] = "raised" => op'[c] = "initialize" /\ table'[session'[c]] = None
  BY SettleStep DEF IInv, Values
<1>4. Known' /\ HasState'
  BY <1>2 DEF IInv, Known, HasState, Pending
<1>5. RaisesOnlyIfClosed'
  BY <1>2 DEF IInv, RaisesOnlyIfClosed
<1> QED  BY <1>1, <1>2, <1>4, <1>5 DEF IInv, Values

\* A step that only moves calls, none of them to "raised", to a listing without
\* its session or out of the table unseen.
LEMMA MoveInv ==
  ASSUME IInv, NEW c \in Calls, NEW s \in Steps \ {"raised"}, Goto(c, s), Routes',
         UNCHANGED <<models, popped>>,
         \A r \in Sessions : table[r] # None => table'[r] # None,
         \A d \in Calls \ {c} : op'[d] = op[d] /\ session'[d] = session[d] /\ state'[d] = state[d],
         s \in {"models", "profiles"} /\ op'[c] = "initialize" =>
            session'[c] \in Sessions /\ (table'[session'[c]] # None \/ c \in popped),
         s \in {"models", "profiles"} /\ op'[c] = "send" => state'[c] \in Calls
  PROVE  IInv'
<1>1. step' \in [Calls -> Steps] /\ step'[c] = s /\ \A d \in Calls \ {c} : step'[d] = step[d]
  BY DEF Goto, IInv, Values
<1>2. Values'
  BY <1>1 DEF IInv, Values, models
<1>3. Known' /\ HasState'
  BY <1>1 DEF IInv, Known, HasState, Pending
<1>4. RaisesOnlyIfClosed'
  BY <1>1 DEF IInv, RaisesOnlyIfClosed
<1> QED  BY <1>2, <1>3, <1>4 DEF IInv

-----------------------------------------------------------------------------
(* The calls. *)

LEMMA InitIInv == Init => IInv
<1> SUFFICES ASSUME Init PROVE IInv
  OBVIOUS
<1>1. Routes
  BY DEF Init, Routes, IsInjective, ToSet
<1>2. Values /\ Known /\ HasState /\ RaisesOnlyIfClosed
  BY DEF Init, Values, Steps, Known, HasState, Pending, RaisesOnlyIfClosed
<1> QED  BY <1>1, <1>2 DEF IInv

\* A catalogue at hand or none at all settles the call; else it waits.
LEMMA FetchInv ==
  ASSUME IInv, NEW c \in Calls, Fetch(c), Routes', UNCHANGED popped,
         \A s \in Sessions : table[s] # None => table'[s] # None,
         \A d \in Calls \ {c} : op'[d] = op[d] /\ session'[d] = session[d] /\ state'[d] = state[d],
         op'[c] = "initialize" => session'[c] \in Sessions /\ table'[session'[c]] # None,
         op'[c] = "send" => state'[c] \in Calls
  PROVE  IInv'
<1>1. CASE \E catalogue : Settle(c, catalogue)
  BY <1>1, SettleInv
<1>2. CASE Goto(c, "models") /\ UNCHANGED models
  BY <1>2, MoveInv DEF Steps
<1> QED  BY <1>1, <1>2 DEF Fetch

\* What a call is about, once it has begun.
LEMMA BeginsRoutes ==
  ASSUME IInv, NEW c \in Calls, NEW method \in {"initialize", "send", "list"},
         NEW s \in Sessions \cup {None}, NEW cfg \in Configs \cup {Cold}, Begins(c, method, s, cfg)
  PROVE  /\ op' \in [Calls -> {"none", "initialize", "send", "list"}] /\ op'[c] = method
         /\ session' \in [Calls -> Sessions \cup {None}] /\ session'[c] = s
         /\ from' \in [Calls -> Configs \cup {Cold}]
         /\ \A d \in Calls \ {c} : op'[d] = op[d] /\ session'[d] = session[d]
         /\ UNCHANGED degraded
BY DEF Begins, IInv, Routes

\* A fetch fails at once or not at all, and may make the client of its place.
LEMMA FetchFailed ==
  ASSUME IInv, NEW c \in Calls, Fetch(c), from' \in [Calls -> Configs \cup {Cold}]
  PROVE  failed' \subseteq Calls /\ clients' \subseteq Places
<1>1. from'[c].place \in Places  BY DEF Places
<1> QED  BY <1>1 DEF Fetch, IInv, Routes

\* The configuration of a session is one of those given.
LEMMA ConfigOfIs == ASSUME IInv, NEW s \in Sessions PROVE ConfigOf(s) \in Configs \cup {Cold}
BY DEF ConfigOf, IInv, Routes

LEMMA CallInitializeInv ==
  ASSUME IInv, NEW c \in Calls, NEW s \in Sessions, NEW cfg \in Configs, CallInitialize(c, s, cfg)
  PROVE  IInv'
<1>1. /\ Begins(c, "initialize", s, cfg) /\ Fetch(c)
      /\ table' = [table EXCEPT ![s] = c]
      /\ order' = IF table[s] = None THEN Append(order, s) ELSE order
      /\ UNCHANGED <<active, state, popped>>
  BY DEF CallInitialize
<1>2. /\ op' \in [Calls -> {"none", "initialize", "send", "list"}] /\ op'[c] = "initialize"
      /\ session' \in [Calls -> Sessions \cup {None}] /\ session'[c] = s
      /\ from' \in [Calls -> Configs \cup {Cold}]
      /\ \A d \in Calls \ {c} : op'[d] = op[d] /\ session'[d] = session[d]
      /\ UNCHANGED degraded
  BY <1>1, BeginsRoutes
<1>3. table' \in [Sessions -> Calls \cup {None}] /\ table'[s] # None
      /\ \A r \in Sessions : table'[r] # None <=> table[r] # None \/ r = s
  BY <1>1, NoneAssumption DEF IInv, Routes
<1>4. order' \in Seq(Sessions) /\ IsInjective(order') /\ ToSet(order') = {r \in Sessions : table'[r] # None}
  <2>0. order \in Seq(Sessions) /\ IsInjective(order) /\ ToSet(order) = {r \in Sessions : table[r] # None}
    BY DEF IInv, Routes
  <2>1. CASE table[s] = None
    <3>1. s \notin ToSet(order)  BY <2>0, <2>1
    <3>2. IsInjective(order') /\ ToSet(order') = ToSet(order) \cup {s} /\ order' \in Seq(Sessions)
      BY <1>1, <2>0, <2>1, <3>1, AppendedElement
    <3> QED  BY <1>3, <2>0, <3>2
  <2>2. CASE table[s] # None
    BY <1>1, <1>3, <2>0, <2>2
  <2> QED  BY <2>1, <2>2
<1>5. earlier' \in [Calls -> SUBSET Calls]
  BY DEF CallInitialize, IInv, Routes
<1>6. Routes'
  BY <1>1, <1>2, <1>3, <1>4, <1>5, FetchFailed DEF IInv, Routes
<1> QED  BY <1>1, <1>2, <1>3, <1>6, FetchInv

LEMMA CallSendInv ==
  ASSUME IInv, NEW c \in Calls, NEW s \in Sessions, NEW model, CallSend(c, s, model) PROVE IInv'
<1> DEFINE last == IF model # None THEN model ELSE sticky[table[s]]
<1>1. /\ Begins(c, "send", s, ConfigOf(s)) /\ state' = [state EXCEPT ![c] = table[s]]
      /\ UNCHANGED <<table, order, active, earlier, popped>>
      /\ \/ ~Serving(s) /\ Goto(c, "inactive") /\ UNCHANGED <<models, clients, failed>>
         \/ /\ Serving(s) /\ Goto(c, "returned") /\ StreamWith(table[s], last)
            /\ UNCHANGED <<fallback, clients, failed>>
         \/ Serving(s) /\ Fetch(c)
  BY DEF CallSend, routing
<1> HIDE DEF last
<1>2. /\ op' \in [Calls -> {"none", "initialize", "send", "list"}] /\ op'[c] = "send"
      /\ session' \in [Calls -> Sessions \cup {None}]
      /\ from' \in [Calls -> Configs \cup {Cold}]
      /\ \A d \in Calls \ {c} : op'[d] = op[d] /\ session'[d] = session[d]
      /\ UNCHANGED degraded
  BY <1>1, ConfigOfIs, BeginsRoutes
<1>3. /\ state' \in [Calls -> Calls \cup {None}] /\ state'[c] = table[s]
      /\ \A d \in Calls \ {c} : state'[d] = state[d]
  BY <1>1 DEF IInv, Routes
<1>4. Routes'
  <2>1. failed' \subseteq Calls /\ clients' \subseteq Places
    BY <1>1, <1>2, FetchFailed DEF IInv, Routes
  <2> QED  BY <1>1, <1>2, <1>3, <2>1 DEF IInv, Routes
<1>5. Serving(s) => state'[c] \in Calls
  BY <1>3 DEF Serving, IInv, Routes
<1>6. CASE Goto(c, "inactive") /\ UNCHANGED models
  BY <1>1, <1>2, <1>3, <1>4, <1>6, MoveInv DEF Steps
<1>7. CASE Goto(c, "returned") /\ StreamWith(table[s], last)
  <2>1. step' \in [Calls -> Steps] /\ step'[c] = "returned" /\ \A d \in Calls \ {c} : step'[d] = step[d]
    BY <1>7 DEF Goto, Steps, IInv, Values
  <2>2. Values'
    BY <1>7, <2>1 DEF StreamWith, IInv, Values
  <2>3. Known' /\ HasState' /\ RaisesOnlyIfClosed'
    BY <1>1, <1>2, <1>3, <2>1 DEF IInv, Known, HasState, RaisesOnlyIfClosed, Pending
  <2> QED  BY <1>4, <2>2, <2>3 DEF IInv
<1>8. CASE Serving(s) /\ Fetch(c)
  BY <1>1, <1>2, <1>3, <1>4, <1>5, <1>8, FetchInv
<1> QED  BY <1>1, <1>6, <1>7, <1>8

LEMMA CallListInv ==
  ASSUME IInv, NEW c \in Calls, CallList(c) PROVE IInv'
<1>1. /\ Begins(c, "list", None, Latest) /\ Fetch(c)
      /\ UNCHANGED <<table, order, active, earlier, state, popped>>
  BY DEF CallList, routing
<1>2. Latest \in Configs \cup {Cold}
  <2>1. CASE order = <<>>  BY <2>1 DEF Latest
  <2>2. CASE order # <<>>
    <3>1. order[Len(order)] \in Sessions  BY <2>2 DEF IInv, Routes
    <3> QED  BY <2>2, <3>1, ConfigOfIs DEF Latest, Last
  <2> QED  BY <2>1, <2>2
<1>3. /\ op' \in [Calls -> {"none", "initialize", "send", "list"}] /\ op'[c] = "list"
      /\ session' \in [Calls -> Sessions \cup {None}]
      /\ from' \in [Calls -> Configs \cup {Cold}]
      /\ \A d \in Calls \ {c} : op'[d] = op[d] /\ session'[d] = session[d]
      /\ UNCHANGED degraded
  BY <1>1, <1>2, BeginsRoutes
<1>4. Routes'
  BY <1>1, <1>3, FetchFailed DEF IInv, Routes
<1> QED  BY <1>1, <1>3, <1>4, FetchInv

-----------------------------------------------------------------------------
(* The listings' answers, cancellations and closes. *)

LEMMA PendingInv ==
  ASSUME IInv, NEW c \in Calls,
         ModelsListed(c) \/ ModelsFailed(c) \/ ProfilesListed(c) \/ ProfilesFailed(c) \/ Cancelled(c)
  PROVE  IInv'
<1>1. Pending(c) /\ UNCHANGED <<table, order, active, earlier, op, session, state, from, clients, popped>>
  BY DEF ModelsListed, ModelsFailed, ProfilesListed, ProfilesFailed, Store, Cancelled, Pending,
     routing, calls
<1>2. /\ op[c] = "initialize" => session[c] \in Sessions /\ (table[session[c]] # None \/ c \in popped)
      /\ op[c] = "send" => state[c] \in Calls
  BY <1>1 DEF IInv, Known, HasState
<1>3. failed' \subseteq Calls /\ degraded' \subseteq Places
  <2>1. from[c].place \in Places  BY DEF IInv, Routes, Places
  <2> QED
    BY <2>1 DEF ModelsListed, ModelsFailed, ProfilesListed, ProfilesFailed, Store, Cancelled, IInv, Routes
<1>4. Routes'
  BY <1>1, <1>3 DEF IInv, Routes
<1>5. CASE ModelsListed(c) \/ Cancelled(c)
  <2>1. \E s \in {"profiles", "cancelled"} : Goto(c, s) /\ UNCHANGED models
    BY <1>5 DEF ModelsListed, Cancelled
  <2> QED  BY <1>1, <1>2, <1>4, <2>1, MoveInv DEF Steps
<1>6. CASE ModelsFailed(c) \/ ProfilesListed(c) \/ ProfilesFailed(c)
  <2>1. PICK catalogue : Settle(c, catalogue)
    BY <1>6 DEF ModelsFailed, ProfilesListed, ProfilesFailed, Store
  <2> QED  BY <1>1, <1>2, <1>4, <2>1, SettleInv
<1> QED  BY <1>5, <1>6

LEMMA CancelInv ==
  ASSUME IInv, NEW s \in Sessions, Cancel(s) PROVE IInv'
BY DEF Cancel, IInv, Routes, Values, Known, HasState, Pending, RaisesOnlyIfClosed,
   models, calls

LEMMA CloseInv ==
  ASSUME IInv, NEW s \in Sessions, Close(s) PROVE IInv'
<1>1. /\ table' = [table EXCEPT ![s] = None]
      /\ popped' = popped \cup {c \in Calls : Pending(c) /\ session[c] = s}
      /\ UNCHANGED <<active, earlier, models, clients, calls, step, degraded, failed>>
  BY DEF Close
<1>2. PICK i \in DOMAIN order : order[i] = s /\ order' = RemoveAt(order, i)
  BY DEF Close
<1>3. table' \in [Sessions -> Calls \cup {None}]
      /\ \A r \in Sessions : table'[r] # None <=> table[r] # None /\ r # s
  BY <1>1 DEF IInv, Routes
<1>4. order' \in Seq(Sessions) /\ IsInjective(order') /\ ToSet(order') = {r \in Sessions : table'[r] # None}
  <2>1. order \in Seq(Sessions) /\ IsInjective(order) /\ ToSet(order) = {r \in Sessions : table[r] # None}
    BY DEF IInv, Routes
  <2>2. order' \in Seq(Sessions)  BY <1>2, <2>1, Removed
  <2>3. IsInjective(order') /\ ToSet(order') = ToSet(order) \ {s}
    BY <1>2, <2>1, RemovedElement
  <2> QED  BY <1>3, <2>1, <2>2, <2>3
<1>5. Routes'
  BY <1>1, <1>3, <1>4 DEF IInv, Routes, calls
<1>6. Known'
  <2> SUFFICES ASSUME NEW c \in Calls, Pending(c), op[c] = "initialize"
               PROVE  session[c] \in Sessions /\ (table'[session[c]] # None \/ c \in popped')
    BY <1>1 DEF Known, Pending, calls
  <2>1. session[c] \in Sessions /\ (table[session[c]] # None \/ c \in popped)
    BY DEF IInv, Known
  <2> QED  BY <1>1, <1>3, <2>1
<1>7. Values' /\ HasState' /\ RaisesOnlyIfClosed'
  BY <1>1 DEF IInv, Values, HasState, Pending, RaisesOnlyIfClosed, models, calls
<1> QED  BY <1>5, <1>6, <1>7 DEF IInv

LEMMA NextIInv == IInv /\ [Next]_vars => IInv'
<1> SUFFICES ASSUME IInv, [Next]_vars PROVE IInv'
  OBVIOUS
<1>1. CASE UNCHANGED vars
  BY <1>1 DEF vars, routing, models, calls, IInv, Routes, Values, Known, HasState, Pending,
     RaisesOnlyIfClosed
<1>2. CASE Next
  BY <1>2, CallInitializeInv, CallSendInv, CallListInv, PendingInv, CancelInv, CloseInv DEF Next
<1> QED  BY <1>1, <1>2

\* The session table, the types and the calls stay consistent over every step:
\* the invariant that the first two properties follow from.
THEOREM Invariance == Spec => []IInv
<1> QED  BY InitIInv, NextIInv, PTL DEF Spec

(***************************************************************************)
(* Every variable keeps its type, and the insertion order that             *)
(* _latest_config reads has each session of the table once.                *)
(***************************************************************************)
THEOREM TypeCorrect == Spec => []TypeOK
<1>1. IInv => TypeOK  BY DEF IInv, Routes, Values, Steps, TypeOK
<1> QED  BY <1>1, Invariance, PTL

(***************************************************************************)
(* The KeyError of initialize() (bedrock.py:253) has one cause: its        *)
(* session was closed while it waited for the catalogue.                   *)
(***************************************************************************)
THEOREM OnlyCloseMakesItRaise == Spec => []RaisesOnlyIfClosed
<1>1. IInv => RaisesOnlyIfClosed  BY DEF IInv
<1> QED  BY <1>1, Invariance, PTL
-----------------------------------------------------------------------------
(***************************************************************************)
(* What the catalogue of a place holds, and what is picked from it.        *)
(***************************************************************************)

\* The default is one of the catalogue's ids, if there is any.
LEMMA DefaultIs ==
  ASSUME NEW A, NEW catalogue \in Seq(A), NEW prefer
  PROVE  /\ catalogue = <<>> => Default(catalogue, prefer) = None
         /\ catalogue # <<>> => \E e \in ToSet(catalogue) : Default(catalogue, prefer) = e.id
<1> DEFINE preference == <<prefer>> \o Builtin
           matches(k) == Only(catalogue, {e \in ToSet(catalogue) : e.model \in preference[k]})
           hits == {k \in DOMAIN preference : matches(k) # <<>>}
           first == CHOOSE k \in hits : \A l \in hits : k <= l
<1>1. catalogue = <<>> => Default(catalogue, prefer) = None  BY DEF Default
<1>2. ASSUME catalogue # <<>> PROVE \E e \in ToSet(catalogue) : Default(catalogue, prefer) = e.id
  <2>1. CASE hits = {}
    <3>1. catalogue[1] \in ToSet(catalogue)  BY <1>2 DEF ToSet
    <3>2. Default(catalogue, prefer) = catalogue[1].id  BY <1>2, <2>1 DEF Default
    <3> QED  BY <3>1, <3>2
  <2>2. CASE hits # {}
    <3>1. hits \subseteq Nat
      <4>1. preference \in Seq({prefer} \cup SUBSET Models)  BY PreferenceAssumption
      <4>2. DOMAIN preference \subseteq Nat  BY <4>1
      <4> QED  BY <4>2
    <3>2. Default(catalogue, prefer) = matches(first)[1].id  BY <1>2, <2>2 DEF Default
    <3> HIDE DEF hits
    <3>3. \E k \in hits : \A l \in hits : k <= l  BY <2>2, <3>1, Least
    <3>4. first \in hits  BY <3>3
    <3> HIDE DEF first
    <3>5. matches(first) # <<>>  BY <3>4 DEF hits
    <3>6. matches(first) \in Seq(A)  BY OnlyIsSeq
    <3>7. ToSet(matches(first)) \subseteq ToSet(catalogue)  BY OnlySet
    <3> HIDE DEF matches
    <3>8. matches(first)[1] \in ToSet(matches(first))  BY <3>5, <3>6 DEF ToSet
    <3> QED  BY <3>2, <3>7, <3>8
  <2> QED  BY <2>1, <2>2
<1> QED  BY <1>1, <1>2

\* The profiles that give a model an id in a pass.
Offers(profiles, scopes, m) ==
    {i \in DOMAIN profiles : profiles[i].scope \in scopes /\ m \in profiles[i].models}

LEMMA PassIs ==
  ASSUME NEW profiles \in Seq(ProfileEntry), NEW index, NEW scopes, NEW m \in Models
  PROVE  /\ index[m] # None \/ Offers(profiles, scopes, m) = {} => Pass(index, scopes, profiles)[m] = index[m]
         /\ index[m] = None /\ Offers(profiles, scopes, m) # {} =>
              \E i \in Offers(profiles, scopes, m) :
                 /\ Pass(index, scopes, profiles)[m] = profiles[i].id
                 /\ \A j \in Offers(profiles, scopes, m) : i <= j
<1> DEFINE S == {p \in ToSet(profiles) : p.scope \in scopes /\ m \in p.models}
           o == Only(profiles, S)
<1>1. Pass(index, scopes, profiles)[m] = IF index[m] # None \/ o = <<>> THEN index[m] ELSE o[1].id
  BY DEF Pass
<1>2. FirstOf(profiles, S)  BY OnlyFirst
<1>3. \A i \in DOMAIN profiles : profiles[i] \in S <=> i \in Offers(profiles, scopes, m)
  BY DEF ToSet, Offers
<1>4. Offers(profiles, scopes, m) \subseteq DOMAIN profiles  BY DEF Offers
<1>5. DOMAIN profiles \subseteq Nat  OBVIOUS
<1> HIDE DEF S
<1>6. o = <<>> <=> Offers(profiles, scopes, m) = {}
  BY <1>2, <1>3, <1>4 DEF FirstOf
<1>7. ASSUME o # <<>>
      PROVE \E i \in Offers(profiles, scopes, m) : o[1] = profiles[i] /\ \A j \in Offers(profiles, scopes, m) : i <= j
  <2>1. PICK i \in DOMAIN profiles : /\ profiles[i] \in S /\ o[1] = profiles[i]
                                     /\ \A j \in DOMAIN profiles : j < i => profiles[j] \notin S
    BY <1>2, <1>7 DEF FirstOf
  <2>2. i \in Offers(profiles, scopes, m)  BY <1>3, <2>1
  <2>3. \A j \in Offers(profiles, scopes, m) : ~(j < i)  BY <1>3, <1>4, <2>1
  <2>4. \A j \in Offers(profiles, scopes, m) : i <= j  BY <1>4, <1>5, <2>1, <2>3
  <2> QED  BY <2>1, <2>2, <2>4
<1> HIDE DEF o
<1> QED  BY <1>1, <1>6, <1>7

\* The index gives each model its best profile.
Best(profiles, m, i) ==
    \A j \in DOMAIN profiles : m \in profiles[j].models =>
        \/ Rank(profiles[i]) < Rank(profiles[j])
        \/ Rank(profiles[i]) = Rank(profiles[j]) /\ i <= j

LEMMA IndexIs ==
  ASSUME NEW profiles \in Seq(ProfileEntry), NEW m \in Models
  PROVE  /\ (\A i \in DOMAIN profiles : m \notin profiles[i].models) => Index(profiles)[m] = None
         /\ (\E i \in DOMAIN profiles : m \in profiles[i].models) =>
              \E i \in DOMAIN profiles : /\ m \in profiles[i].models /\ Index(profiles)[m] = profiles[i].id
                                         /\ Best(profiles, m, i)
<1> DEFINE R == {"regional"}  G == {"global"}  W == {"regional", "global", "other"}
           none == [x \in Models |-> None]
           a == Pass(none, R, profiles)
           b == Pass(a, G, profiles)
           c == Pass(b, W, profiles)
           OR == Offers(profiles, R, m)
           OG == Offers(profiles, G, m)
           OW == Offers(profiles, W, m)
<1>1. Index(profiles) = c  BY DEF Index, Passes
<1>2. \A i \in DOMAIN profiles : /\ profiles[i].scope \in W /\ profiles[i].id # None
                                 /\ profiles[i].scope = "regional" <=> Rank(profiles[i]) = 1
                                 /\ profiles[i].scope = "global" <=> Rank(profiles[i]) = 2
                                 /\ profiles[i].scope = "other" <=> Rank(profiles[i]) = 3
  <2> SUFFICES ASSUME NEW i \in DOMAIN profiles
               PROVE  /\ profiles[i].scope \in W /\ profiles[i].id # None
                      /\ profiles[i].scope = "regional" <=> Rank(profiles[i]) = 1
                      /\ profiles[i].scope = "global" <=> Rank(profiles[i]) = 2
                      /\ profiles[i].scope = "other" <=> Rank(profiles[i]) = 3
    OBVIOUS
  <2>1. profiles[i] \in ProfileEntry  OBVIOUS
  <2>2. profiles[i].scope \in W /\ profiles[i].id # None  BY <2>1, NoneAssumption DEF ProfileEntry
  <2> QED  BY <2>2 DEF Rank
<1>3. none[m] = None  OBVIOUS
<1>4. /\ none[m] # None \/ OR = {} => a[m] = none[m]
      /\ none[m] = None /\ OR # {} => \E i \in OR : a[m] = profiles[i].id /\ \A j \in OR : i <= j
  BY PassIs
<1> HIDE DEF none, a
<1>5. /\ a[m] # None \/ OG = {} => b[m] = a[m]
      /\ a[m] = None /\ OG # {} => \E i \in OG : b[m] = profiles[i].id /\ \A j \in OG : i <= j
  BY PassIs
<1> HIDE DEF b
<1>6. /\ b[m] # None \/ OW = {} => c[m] = b[m]
      /\ b[m] = None /\ OW # {} => \E i \in OW : c[m] = profiles[i].id /\ \A j \in OW : i <= j
  BY PassIs
<1> HIDE DEF c
<1>7. /\ OR = {i \in DOMAIN profiles : Rank(profiles[i]) = 1 /\ m \in profiles[i].models}
      /\ OG = {i \in DOMAIN profiles : Rank(profiles[i]) = 2 /\ m \in profiles[i].models}
      /\ OW = {i \in DOMAIN profiles : m \in profiles[i].models}
  BY <1>2 DEF Offers
<1>8. \A i \in DOMAIN profiles : Rank(profiles[i]) \in {1, 2, 3}  BY <1>2
<1>9. \A i \in DOMAIN profiles : profiles[i].id # None  BY <1>2
<1> HIDE DEF OR, OG, OW, R, G, W
<1>10. CASE OR # {}
  <2>1. PICK i \in OR : a[m] = profiles[i].id /\ \A j \in OR : i <= j  BY <1>3, <1>4, <1>10
  <2>2. i \in DOMAIN profiles /\ m \in profiles[i].models /\ Rank(profiles[i]) = 1  BY <1>7
  <2>3. c[m] = profiles[i].id  BY <1>5, <1>6, <1>9, <2>1, <2>2
  <2>4. Best(profiles, m, i)  BY <1>7, <1>8, <2>1, <2>2 DEF Best
  <2> QED  BY <1>1, <2>2, <2>3, <2>4
<1>11. CASE OR = {} /\ OG # {}
  <2>1. PICK i \in OG : b[m] = profiles[i].id /\ \A j \in OG : i <= j  BY <1>3, <1>4, <1>5, <1>11
  <2>2. i \in DOMAIN profiles /\ m \in profiles[i].models /\ Rank(profiles[i]) = 2  BY <1>7
  <2>3. c[m] = profiles[i].id  BY <1>6, <1>9, <2>1, <2>2
  <2>4. Best(profiles, m, i)  BY <1>7, <1>8, <1>11, <2>1, <2>2 DEF Best
  <2> QED  BY <1>1, <2>2, <2>3, <2>4
<1>12. CASE OR = {} /\ OG = {} /\ OW # {}
  <2>1. PICK i \in OW : c[m] = profiles[i].id /\ \A j \in OW : i <= j  BY <1>3, <1>4, <1>5, <1>6, <1>12
  <2>2. i \in DOMAIN profiles /\ m \in profiles[i].models  BY <1>7
  <2>3. \A j \in DOMAIN profiles : m \in profiles[j].models => Rank(profiles[j]) = 3
    BY <1>7, <1>8, <1>12
  <2>4. Best(profiles, m, i)  BY <1>7, <2>1, <2>2, <2>3 DEF Best
  <2> QED  BY <1>1, <2>1, <2>2, <2>4
<1>13. CASE OW = {}
  <2>1. OR = {} /\ OG = {}  BY <1>7, <1>13
  <2>2. c[m] = None  BY <1>3, <1>4, <1>5, <1>6, <1>13, <2>1
  <2> QED  BY <1>1, <1>7, <1>13, <2>2
<1> QED  BY <1>10, <1>11, <1>12, <1>13

\* Of two best profiles of a model there is one.
LEMMA BestIs ==
  ASSUME NEW profiles \in Seq(ProfileEntry), NEW m \in Models,
         \E i \in DOMAIN profiles : m \in profiles[i].models
  PROVE  BestProfile(profiles, m) = Index(profiles)[m]
<1> DEFINE of == {i \in DOMAIN profiles : m \in profiles[i].models}
           P(i) == \A j \in of : \/ Rank(profiles[i]) < Rank(profiles[j])
                                 \/ Rank(profiles[i]) = Rank(profiles[j]) /\ i <= j
           x == CHOOSE i \in of : P(i)
<1>1. BestProfile(profiles, m) = profiles[x].id  BY DEF BestProfile
<1>2. PICK i \in DOMAIN profiles : /\ m \in profiles[i].models /\ Index(profiles)[m] = profiles[i].id
                                   /\ Best(profiles, m, i)
  BY IndexIs
<1>3. i \in of /\ P(i)  BY <1>2 DEF Best
<1>4. x \in of /\ P(x)  BY <1>3
<1> HIDE DEF x
<1>5. \A j \in DOMAIN profiles : Rank(profiles[j]) \in Nat /\ j \in Nat  BY DEF Rank
<1>6. x = i  BY <1>3, <1>4, <1>5
<1> QED  BY <1>1, <1>2, <1>6

-----------------------------------------------------------------------------
\* Sorting only moves the entries.
SortedBy(entries, n, f) ==
    f = [k \in 0..n |-> IF k = 0 THEN <<>> ELSE Inserted(f[k - 1], entries[k])]
\* One entry of the sort.
SortStep(entries, k, f) == IF k = 0 THEN <<>> ELSE Inserted(f[k - 1], entries[k])

LEMMA SortedExists ==
  ASSUME NEW entries, NEW m \in Nat
  PROVE  \E f : SortedBy(entries, m, f)
<1> DEFINE T == {k \in Nat : \E f : SortedBy(entries, k, f)}
<1>1. 0 \in T
  <2>1. SortedBy(entries, 0, [k \in 0..0 |-> <<>>])  BY DEF SortedBy
  <2> QED  BY <2>1
<1>2. ASSUME NEW k \in Nat, k \in T PROVE k + 1 \in T
  <2>1. PICK f : SortedBy(entries, k, f)  BY <1>2
  <2> DEFINE e == Inserted(f[k], entries[k + 1])
             g == [n \in 0..(k + 1) |-> IF n = k + 1 THEN e ELSE f[n]]
  <2>2. \A n \in 0..k : f[n] = SortStep(entries, n, f)  BY <2>1 DEF SortedBy, SortStep
  <2>3. \A n \in 0..(k + 1) : g[n] = SortStep(entries, n, g)
    <3> SUFFICES ASSUME NEW n \in 0..(k + 1) PROVE g[n] = SortStep(entries, n, g)
      OBVIOUS
    <3>1. CASE n = k + 1
      <4>1. g[k + 1] = e /\ g[k] = f[k] /\ k + 1 # 0 /\ (k + 1) - 1 = k  OBVIOUS
      <4> HIDE DEF g
      <4> QED  BY <3>1, <4>1 DEF SortStep
    <3>2. CASE n # k + 1
      <4>1. n \in 0..k /\ g[n] = f[n]  BY <3>2
      <4>2. n # 0 => g[n - 1] = f[n - 1]  BY <3>2
      <4> HIDE DEF g
      <4> QED  BY <2>2, <4>1, <4>2 DEF SortStep
    <3> QED  BY <3>1, <3>2
  <2>4. SortedBy(entries, k + 1, g)
    <3>1. g = [n \in 0..(k + 1) |-> g[n]]  OBVIOUS
    <3> HIDE DEF g
    <3> QED  BY <2>3, <3>1 DEF SortedBy, SortStep
  <2> QED  BY <2>4
<1> HIDE DEF T
<1>3. m \in T  BY <1>1, <1>2, Induction
<1> QED  BY <1>3 DEF T

\* Inserting adds the one entry.
LEMMA InsertedSet ==
  ASSUME NEW s \in Seq(ModelEntry), NEW e \in ModelEntry
  PROVE  Inserted(s, e) \in Seq(ModelEntry) /\ ToSet(Inserted(s, e)) = ToSet(s) \cup {e}
<1> DEFINE L == {x \in ToSet(s) : x.rank <= e.rank}  H == {x \in ToSet(s) : x.rank > e.rank}
<1>1. /\ Only(s, L) \in Seq(ModelEntry) /\ Only(s, H) \in Seq(ModelEntry)
      /\ ToSet(Only(s, L)) = ToSet(s) \cap L /\ ToSet(Only(s, H)) = ToSet(s) \cap H
  BY OnlyIsSeq, OnlySet
<1>2. L \cup H = ToSet(s)
  <2>1. \A x \in ToSet(s) : x \in ModelEntry  BY DEF ToSet
  <2>2. \A x \in ModelEntry : x.rank \in Nat  BY DEF ModelEntry
  <2>3. e.rank \in Nat  BY <2>2
  <2> QED  BY <2>1, <2>2, <2>3
<1>3. \A a, b \in Seq(ModelEntry) : a \o b \in Seq(ModelEntry) /\ ToSet(a \o b) = ToSet(a) \cup ToSet(b)
  BY ConcatSet
<1>4. Inserted(s, e) = (Only(s, L) \o <<e>>) \o Only(s, H)  BY DEF Inserted
<1> HIDE DEF L, H
<1>5. <<e>> \in Seq(ModelEntry) /\ ToSet(<<e>>) = {e}  BY DEF ToSet
<1>6. Only(s, L) \o <<e>> \in Seq(ModelEntry) /\ ToSet(Only(s, L) \o <<e>>) = ToSet(Only(s, L)) \cup {e}
  BY <1>1, <1>3, <1>5
<1>7. /\ (Only(s, L) \o <<e>>) \o Only(s, H) \in Seq(ModelEntry)
      /\ ToSet((Only(s, L) \o <<e>>) \o Only(s, H)) = ToSet(Only(s, L) \o <<e>>) \cup ToSet(Only(s, H))
  BY <1>1, <1>3, <1>6
<1> QED  BY <1>1, <1>2, <1>4, <1>6, <1>7

\* Sorting neither loses nor invents an entry.
LEMMA SortedSet ==
  ASSUME NEW entries \in Seq(ModelEntry)
  PROVE  Sorted(entries) \in Seq(ModelEntry) /\ ToSet(Sorted(entries)) = ToSet(entries)
<1> DEFINE f == CHOOSE f : SortedBy(entries, Len(entries), f)
           N == Len(entries)
<1>1. N \in Nat /\ DOMAIN entries = 1..N  OBVIOUS
<1>2. SortedBy(entries, N, f)  BY <1>1, SortedExists
<1>3. Sorted(entries) = f[N]  BY DEF Sorted, SortedBy
<1> HIDE DEF f
<1>4. \A k \in 0..N : f[k] = SortStep(entries, k, f)  BY <1>2 DEF SortedBy, SortStep
<1> DEFINE First(k) == {entries[i] : i \in 1..k}
           T == {k \in Nat : k <= N => f[k] \in Seq(ModelEntry) /\ ToSet(f[k]) = First(k)}
<1>5. 0 \in T
  <2>1. 0 \in 0..N  BY <1>1
  <2>2. f[0] = <<>>  BY <1>4, <2>1 DEF SortStep
  <2>3. ToSet(<<>>) = {} /\ First(0) = {} /\ <<>> \in Seq(ModelEntry) /\ 0 \in Nat  BY DEF ToSet
  <2> HIDE DEF First
  <2> QED  BY <2>2, <2>3
<1>6. ASSUME NEW k \in Nat, k \in T PROVE k + 1 \in T
  <2> SUFFICES ASSUME k + 1 <= N PROVE f[k + 1] \in Seq(ModelEntry) /\ ToSet(f[k + 1]) = First(k + 1)
    OBVIOUS
  <2>1. f[k] \in Seq(ModelEntry) /\ ToSet(f[k]) = First(k)  BY <1>1, <1>6
  <2>2. k + 1 \in 0..N /\ k + 1 # 0 /\ (k + 1) - 1 = k /\ k + 1 \in 1..N  BY <1>1
  <2>3. f[k + 1] = Inserted(f[k], entries[k + 1])  BY <1>4, <2>2 DEF SortStep
  <2>4. entries[k + 1] \in ModelEntry  BY <1>1, <2>2
  <2>5. f[k + 1] \in Seq(ModelEntry) /\ ToSet(f[k + 1]) = First(k) \cup {entries[k + 1]}
    BY <2>1, <2>3, <2>4, InsertedSet
  <2>6. First(k + 1) = First(k) \cup {entries[k + 1]}
    <3>1. \A i \in Nat : i \in 1..(k + 1) <=> i \in 1..k \/ i = k + 1  OBVIOUS
    <3> QED  BY <3>1
  <2> QED  BY <2>5, <2>6
<1> HIDE DEF T
<1>7. N \in T  BY <1>1, <1>5, <1>6, Induction
<1>8. First(N) = ToSet(entries)  BY <1>1 DEF ToSet
<1> HIDE DEF First, N
<1>9. N \in Nat => N <= N  OBVIOUS
<1>10. f[N] \in Seq(ModelEntry) /\ ToSet(f[N]) = First(N)  BY <1>1, <1>7, <1>9 DEF T
<1> QED  BY <1>3, <1>8, <1>10

\* The catalogue holds the eligible models that have an id to invoke.
LEMMA CatalogueSet ==
  ASSUME NEW listing \in Seq(ModelEntry), NEW profiles
  PROVE  /\ Catalogue(listing, profiles) \in Seq({[model |-> e.model, id |-> InvocableId(e, Index(profiles))] : e \in ModelEntry})
         /\ ToSet(Catalogue(listing, profiles)) =
              {[model |-> e.model, id |-> InvocableId(e, Index(profiles))] :
                 e \in {d \in ToSet(listing) : Eligible(d) /\ InvocableId(d, Index(profiles)) # None}}
<1> DEFINE kept == {d \in ToSet(listing) : Eligible(d) /\ InvocableId(d, Index(profiles)) # None}
           V(e) == [model |-> e.model, id |-> InvocableId(e, Index(profiles))]
           s == Sorted(Only(listing, kept))
<1>1. Only(listing, kept) \in Seq(ModelEntry) /\ ToSet(Only(listing, kept)) = ToSet(listing) \cap kept
  BY OnlyIsSeq, OnlySet
<1>2. s \in Seq(ModelEntry) /\ ToSet(s) = kept  BY <1>1, SortedSet
<1>3. Catalogue(listing, profiles) = [k \in DOMAIN s |-> V(s[k])]  BY DEF Catalogue
<1> HIDE DEF s, kept
<1> DEFINE c == [k \in DOMAIN s |-> V(s[k])]
           W == {V(e) : e \in ModelEntry}
<1>4. DOMAIN s = 1..Len(s) /\ Len(s) \in Nat /\ \A k \in 1..Len(s) : s[k] \in ModelEntry  BY <1>2
<1>5. c \in Seq(W)
  <2>1. c \in [1..Len(s) -> W]  BY <1>4
  <2> HIDE DEF c, W
  <2> QED  BY <1>4, <2>1, Listed
<1>6. DOMAIN c = DOMAIN s /\ \A k \in DOMAIN s : c[k] = V(s[k])  OBVIOUS
<1> HIDE DEF c, V
<1>7. ToSet(c) = {V(e) : e \in ToSet(s)}  BY <1>6 DEF ToSet
<1> QED  BY <1>2, <1>3, <1>5, <1>7 DEF c, V, kept

\* The catalogue is a finite list of its elements.
LEMMA CatalogueListed ==
  ASSUME NEW listing \in Seq(ModelEntry), NEW profiles
  PROVE  Catalogue(listing, profiles) \in Seq(ToSet(Catalogue(listing, profiles)))
<1> DEFINE q == Catalogue(listing, profiles)
<1>1. PICK W : q \in Seq(W)  BY CatalogueSet
<1> HIDE DEF q
<1>2. q = [k \in 1..Len(q) |-> q[k]] /\ Len(q) \in Nat /\ DOMAIN q = 1..Len(q)  BY <1>1
<1>3. q \in [1..Len(q) -> ToSet(q)]  BY <1>2 DEF ToSet
<1>4. q \in Seq(ToSet(q))  BY <1>2, <1>3, Listed
<1> QED  BY <1>4 DEF q

\* A place's catalogue with its profiles, and without them.
LEMMA PlaceCatalogue ==
  ASSUME NEW offer, offer.models \in Seq(ModelEntry), offer.profiles \in Seq(ProfileEntry)
  PROVE  /\ ToSet(Catalogue(offer.models, offer.profiles)) = Bare(offer) \cup Profiled(offer)
         /\ ToSet(Catalogue(offer.models, <<>>)) = Bare(offer)
<1> DEFINE listing == offer.models  profiles == offer.profiles
<1>1. listing \in Seq(ModelEntry) /\ profiles \in Seq(ProfileEntry)  OBVIOUS
<1>2. \A e \in ToSet(listing) : e \in ModelEntry /\ e.model \in Models /\ e.model # None
  <2>1. \A e \in ToSet(listing) : e \in ModelEntry
    <3> HIDE DEF listing
    <3> QED  BY <1>1 DEF ToSet
  <2>2. \A e \in ModelEntry : e.model \in Models /\ e.model # None
    BY NoneAssumption DEF ModelEntry
  <2> QED  BY <2>1, <2>2
<1>3. OnDemand(offer) = {e \in ToSet(listing) : Eligible(e) /\ "ON_DEMAND" \in e.types}
  BY DEF OnDemand
<1>4. ToSet(profiles) = {profiles[i] : i \in DOMAIN profiles}  BY DEF ToSet
<1>5. ViaProfile(offer) = {e \in ToSet(listing) : /\ Eligible(e) /\ "ON_DEMAND" \notin e.types
                                             /\ \E i \in DOMAIN profiles : e.model \in profiles[i].models}
  BY <1>3, <1>4 DEF ViaProfile
<1>6. Profiled(offer) = {[model |-> e.model, id |-> BestProfile(profiles, e.model)] : e \in ViaProfile(offer)}
  BY DEF Profiled
<1> HIDE DEF listing, profiles
<1>7. ToSet(Catalogue(listing, profiles)) = Bare(offer) \cup Profiled(offer)
  <2> DEFINE kept == {d \in ToSet(listing) : Eligible(d) /\ InvocableId(d, Index(profiles)) # None}
             V(e) == [model |-> e.model, id |-> InvocableId(e, Index(profiles))]
  <2>1. ToSet(Catalogue(listing, profiles)) = {V(e) : e \in kept}  BY <1>1, CatalogueSet
  <2>2. \A e \in ToSet(listing) : "ON_DEMAND" \in e.types => InvocableId(e, Index(profiles)) = e.model
    BY DEF InvocableId
  <2>3. \A e \in ToSet(listing) : "ON_DEMAND" \notin e.types =>
           InvocableId(e, Index(profiles)) = Index(profiles)[e.model]
    BY DEF InvocableId
  <2>4. ASSUME NEW e \in ToSet(listing), "ON_DEMAND" \notin e.types,
               \E i \in DOMAIN profiles : e.model \in profiles[i].models
        PROVE  Index(profiles)[e.model] # None /\ BestProfile(profiles, e.model) = Index(profiles)[e.model]
    <3>1. PICK i \in DOMAIN profiles : Index(profiles)[e.model] = profiles[i].id
      BY <1>1, <1>2, <2>4, IndexIs
    <3>2. profiles[i] \in ProfileEntry  BY <1>1
    <3>3. \A q \in ProfileEntry : q.id # None  BY NoneAssumption DEF ProfileEntry
    <3> QED  BY <1>1, <1>2, <2>4, <3>1, <3>2, <3>3, BestIs
  <2>5. \A e \in ToSet(listing) : (\A i \in DOMAIN profiles : e.model \notin profiles[i].models) =>
           Index(profiles)[e.model] = None
    BY <1>1, <1>2, IndexIs
  <2>6. kept = OnDemand(offer) \cup ViaProfile(offer)
    <3>1. \A e \in kept : e \in OnDemand(offer) \/ e \in ViaProfile(offer)  BY <1>3, <1>5, <2>3, <2>5
    <3>2. \A e \in OnDemand(offer) : e \in kept  BY <1>2, <1>3, <2>2
    <3>3. \A e \in ViaProfile(offer) : e \in kept  BY <1>5, <2>3, <2>4
    <3> QED  BY <3>1, <3>2, <3>3
  <2>7. \A e \in OnDemand(offer) : V(e) = [model |-> e.model, id |-> e.model]  BY <1>3, <2>2
  <2>8. \A e \in ViaProfile(offer) : V(e) = [model |-> e.model, id |-> BestProfile(profiles, e.model)]
    BY <1>5, <2>3, <2>4
  <2>9. Bare(offer) = {V(e) : e \in OnDemand(offer)}
    <3> HIDE DEF V
    <3> QED  BY <2>7 DEF Bare
  <2>10. Profiled(offer) = {V(e) : e \in ViaProfile(offer)}
    <3> HIDE DEF V
    <3> QED  BY <1>6, <2>8
  <2> HIDE DEF V, kept
  <2> QED  BY <2>1, <2>6, <2>9, <2>10
<1>8. ToSet(Catalogue(listing, <<>>)) = Bare(offer)
  <2> DEFINE kept == {d \in ToSet(listing) : Eligible(d) /\ InvocableId(d, Index(<<>>)) # None}
             V(e) == [model |-> e.model, id |-> InvocableId(e, Index(<<>>))]
  <2>1. ToSet(Catalogue(listing, <<>>)) = {V(e) : e \in kept}  BY <1>1, CatalogueSet
  <2>2. \A e \in ToSet(listing) : "ON_DEMAND" \in e.types => InvocableId(e, Index(<<>>)) = e.model
    BY DEF InvocableId
  <2>3. \A e \in ToSet(listing) : "ON_DEMAND" \notin e.types => InvocableId(e, Index(<<>>)) = None
    <3>1. <<>> \in Seq(ProfileEntry) /\ DOMAIN <<>> = {}  OBVIOUS
    <3>2. \A m \in Models : Index(<<>>)[m] = None  BY <3>1, IndexIs
    <3> QED  BY <1>2, <3>2 DEF InvocableId
  <2>4. kept = OnDemand(offer)  BY <1>2, <1>3, <2>2, <2>3
  <2>5. \A e \in OnDemand(offer) : V(e) = [model |-> e.model, id |-> e.model]  BY <1>3, <2>2
  <2> HIDE DEF V, kept
  <2> QED  BY <2>1, <2>4, <2>5 DEF Bare
<1> QED  BY <1>7, <1>8 DEF listing, profiles

-----------------------------------------------------------------------------
(***************************************************************************)
(* Each state gets the models of its own place, or inherits a default.     *)
(***************************************************************************)

\* A list that can be the catalogue of what a place offers.
Fits(offer, poor, q) ==
    /\ q \in Seq(ToSet(q))
    /\ \/ ToSet(q) = Bare(offer) \cup Profiled(offer)
       \/ poor /\ ToSet(q) = Bare(offer)

Accounted == account \in Accounts /\ cache = [p \in Places |-> cache[p]]
Cached == \A p \in Places : cache[p] # Absent => Fits(account[p], p \in degraded, cache[p])

\* A call that has not begun is no initialisation yet.
Fresh == \A c \in Calls : step[c] = "idle" => op[c] = "none"

\* The table's states, and the one that a message waits to use, were made by an
\* initialisation, and the message fetches with its configuration.
Tabled == \A s \in Sessions : table[s] # None => op[table[s]] = "initialize"
Waiting == \A c \in Calls : Pending(c) /\ op[c] = "send" =>
    op[state[c]] = "initialize" /\ from[c] = from[state[c]]

\* A pending initialisation stores its default in the state that it made, or in
\* one that was made while it was listing.
Inherits == \A c \in Calls : Pending(c) /\ op[c] = "initialize" =>
    LET st == table[session[c]] IN st # None => st = c \/ c \in earlier[st]

\* OwnModel, for one state and one model.
MayHave(st, model) ==
    \/ model \in {Requested} \cup Invocable(Offer(st))
    \/ \E c \in earlier[st] : step[c] = "returned" /\ model \in Invocable(Offer(c))
Stuck == \A st \in Calls : sticky[st] # None => op[st] = "initialize" /\ MayHave(st, sticky[st])

PInv == /\ Accounted /\ Cached /\ Fresh /\ Tabled /\ Waiting /\ Inherits /\ Stuck
        /\ RefusedForCause

\* Every id on offer is one.
LEMMA OffersHaveIds ==
  ASSUME NEW offer, offer.models \in Seq(ModelEntry), offer.profiles \in Seq(ProfileEntry)
  PROVE  None \notin Invocable(offer)
<1> DEFINE listing == offer.models  profiles == offer.profiles
<1>1. listing \in Seq(ModelEntry) /\ profiles \in Seq(ProfileEntry)  OBVIOUS
<1>2. \A e \in ToSet(listing) : e.model \in Models /\ e.model # None
  <2>1. \A e \in ToSet(listing) : e \in ModelEntry
    <3> HIDE DEF listing
    <3> QED  BY <1>1 DEF ToSet
  <2>2. \A e \in ModelEntry : e.model \in Models /\ e.model # None
    BY NoneAssumption DEF ModelEntry
  <2> QED  BY <2>1, <2>2
<1>3. ToSet(profiles) = {profiles[i] : i \in DOMAIN profiles}  BY DEF ToSet
<1>4. /\ \A e \in OnDemand(offer) : e \in ToSet(listing)
      /\ \A e \in ViaProfile(offer) : e \in ToSet(listing)
                                  /\ \E i \in DOMAIN profiles : e.model \in profiles[i].models
  BY <1>3 DEF OnDemand, ViaProfile
<1>5. Profiled(offer) = {[model |-> e.model, id |-> BestProfile(profiles, e.model)] : e \in ViaProfile(offer)}
  BY DEF Profiled
<1> HIDE DEF listing, profiles
<1>6. \A e \in Bare(offer) : e.id # None  BY <1>2, <1>4 DEF Bare
<1>7. ASSUME NEW e \in ViaProfile(offer) PROVE BestProfile(profiles, e.model) # None
  <2>1. e.model \in Models /\ \E i \in DOMAIN profiles : e.model \in profiles[i].models
    BY <1>2, <1>4
  <2>2. PICK i \in DOMAIN profiles : Index(profiles)[e.model] = profiles[i].id
    BY <1>1, <2>1, IndexIs
  <2>3. profiles[i] \in ProfileEntry  BY <1>1
  <2>4. \A q \in ProfileEntry : q.id # None  BY NoneAssumption DEF ProfileEntry
  <2> QED  BY <1>1, <2>1, <2>2, <2>3, <2>4, BestIs
<1>8. \A e \in Profiled(offer) : e.id # None  BY <1>5, <1>7
<1> QED  BY <1>6, <1>8 DEF Invocable

\* The default of a place's catalogue is one of the place's ids, and there is
\* none only if the catalogue is empty.
LEMMA DefaultFits ==
  ASSUME NEW offer, offer.models \in Seq(ModelEntry), offer.profiles \in Seq(ProfileEntry),
         NEW poor, NEW catalogue, Fits(offer, poor, catalogue), NEW prefer
  PROVE  /\ Default(catalogue, prefer) = None => ToSet(catalogue) = {}
         /\ Default(catalogue, prefer) # None => Default(catalogue, prefer) \in Invocable(offer)
<1>1. catalogue \in Seq(ToSet(catalogue)) /\ ToSet(catalogue) \subseteq Bare(offer) \cup Profiled(offer)
  BY DEF Fits
<1>2. /\ catalogue = <<>> => Default(catalogue, prefer) = None
      /\ catalogue # <<>> => \E e \in ToSet(catalogue) : Default(catalogue, prefer) = e.id
  BY <1>1, DefaultIs
<1>3. catalogue = <<>> => ToSet(catalogue) = {}  BY DEF ToSet
<1>4. catalogue # <<>> => Default(catalogue, prefer) \in Invocable(offer)
  BY <1>1, <1>2 DEF Invocable
<1> QED  BY <1>2, <1>3, <1>4, OffersHaveIds

-----------------------------------------------------------------------------
(* What a step of one call leaves alone. *)

Others(c) == \A d \in Calls \ {c} :
    op'[d] = op[d] /\ session'[d] = session[d] /\ state'[d] = state[d] /\ from'[d] = from[d]
    /\ earlier'[d] = earlier[d]
Grows == failed \subseteq failed' /\ degraded \subseteq degraded' /\ UNCHANGED account
Stays(c) ==
    /\ step[c] # "returned"
    /\ op[c] = "initialize" => op'[c] = "initialize" /\ session'[c] = session[c]
                               /\ from'[c] = from[c] /\ earlier'[c] = earlier[c]
OwnState(c) == op'[c] = "send" =>
    state'[c] \in Calls /\ op'[state'[c]] = "initialize" /\ from'[c] = from'[state'[c]]
Heir(c) == op'[c] = "initialize" =>
    LET st == table'[session'[c]]
    IN  st # None => st \in Calls /\ op'[st] = "initialize" /\ (st = c \/ c \in earlier'[st])

\* A catalogue that is the place's own, or none because the listing failed.
Answers(c, catalogue) ==
    \/ Fits(account[from'[c].place], from'[c].place \in degraded', catalogue)
    \/ catalogue = <<>> /\ c \in failed'

\* The listings of a place are lists of well-formed entries.
LEMMA PlaceOffers ==
  ASSUME account \in Accounts, NEW p \in Places
  PROVE  account[p].models \in Seq(ModelEntry) /\ account[p].profiles \in Seq(ProfileEntry)
BY AccountsAssumption

\* Without a catalogue there is no default.
LEMMA NoCatalogue == ASSUME NEW prefer PROVE Default(<<>>, prefer) = None
<1>1. <<>> \in Seq({})  OBVIOUS
<1> QED  BY <1>1, DefaultIs

\* What a state may have, it may have after any step of one call.
LEMMA StillMayHave ==
  ASSUME IInv, NEW c \in Calls, Grows, Others(c), Stays(c), \A d \in Calls \ {c} : step'[d] = step[d],
         NEW st \in Calls, op[st] = "initialize", NEW model, MayHave(st, model)
  PROVE  op'[st] = "initialize" /\ MayHave(st, model)'
<1>1. op'[st] = "initialize" /\ from'[st] = from[st] /\ earlier'[st] = earlier[st] /\ account' = account
  BY DEF Others, Stays, Grows
<1>2. CASE model \in {Requested} \cup Invocable(Offer(st))
  BY <1>1, <1>2 DEF MayHave, Offer
<1>3. CASE \E d \in earlier[st] : step[d] = "returned" /\ model \in Invocable(Offer(d))
  <2>1. PICK d \in earlier[st] : step[d] = "returned" /\ model \in Invocable(Offer(d))
    BY <1>3
  <2>2. d \in Calls \ {c}  BY <2>1 DEF Stays, IInv, Routes
  <2>3. step'[d] = "returned" /\ from'[d] = from[d]  BY <2>1, <2>2 DEF Others
  <2> QED  BY <1>1, <2>1, <2>3 DEF MayHave, Offer
<1> QED  BY <1>2, <1>3 DEF MayHave

\* The model that a settled call stores is one that the state may have.
LEMMA SettleStuck ==
  ASSUME IInv, PInv, IInv', NEW c \in Calls, NEW catalogue, Settle(c, catalogue),
         Grows, Others(c), Stays(c), OwnState(c), Heir(c), Answers(c, catalogue)
  PROVE  Stuck'
<1> DEFINE p == from'[c].place
<1>0. PICK default : default = Default(catalogue, from'[c].prefer)
  OBVIOUS
<1>1. \A d \in Calls \ {c} : step'[d] = step[d]  BY SettleStep DEF IInv, Values
<1>2. account' = account  BY DEF Grows
<1>3. ASSUME default # None PROVE default \in Invocable(account[p])
  <2>1. catalogue # <<>>  BY <1>0, <1>3, NoCatalogue
  <2>2. Fits(account[p], p \in degraded', catalogue)  BY <2>1 DEF Answers
  <2>3. p \in Places  BY DEF IInv, Routes, Places
  <2>4. account[p].models \in Seq(ModelEntry) /\ account[p].profiles \in Seq(ProfileEntry)
    BY <2>3, PlaceOffers DEF PInv, Accounted
  <2> QED  BY <1>0, <1>3, <2>2, <2>4, DefaultFits
<1>4. \/ sticky' = sticky
      \/ \E st \in Calls : /\ sticky' = [sticky EXCEPT ![st] = default] /\ op'[st] = "initialize"
                           /\ MayHave(st, default)'
  <2>1. CASE UNCHANGED models  BY <2>1 DEF models
  <2>2. CASE op'[c] = "initialize" /\ default # None /\ StoreDefault(c, default)
    <3>0. PICK st : st = table'[session'[c]]
      OBVIOUS
    <3>1. CASE st = None  BY <2>2, <3>0, <3>1 DEF StoreDefault
    <3>2. CASE st # None
      <4>1. st \in Calls /\ op'[st] = "initialize" /\ (st = c \/ c \in earlier'[st])
        BY <2>2, <3>0, <3>2 DEF Heir
      <4>2. sticky' = [sticky EXCEPT ![st] = default] /\ Goto(c, "returned")
        BY <2>2, <3>0, <3>2 DEF StoreDefault
      <4>3. step'[c] = "returned"  BY <4>2 DEF Goto, IInv, Values
      <4>4. MayHave(st, default)'
        <5>1. from'[c].place = p /\ default \in Invocable(account'[p])  BY <1>2, <1>3, <2>2
        <5> HIDE DEF p
        <5> QED  BY <4>1, <4>3, <5>1 DEF MayHave, Offer
      <4> QED  BY <4>1, <4>2, <4>4
    <3> QED  BY <3>1, <3>2
  <2>3. CASE op'[c] = "send" /\ default # None /\ StreamWith(state'[c], default)
    <3>0. PICK st : st = state'[c]
      OBVIOUS
    <3>1. st \in Calls /\ op'[st] = "initialize" /\ from'[c] = from'[st]
      BY <2>3, <3>0 DEF OwnState
    <3>2. sticky' = [sticky EXCEPT ![st] = default]  BY <2>3, <3>0 DEF StreamWith
    <3>3. MayHave(st, default)'
      BY <1>2, <1>3, <2>3, <3>1 DEF MayHave, Offer
    <3> QED  BY <3>1, <3>2, <3>3
  <2> QED  BY <1>0, <2>1, <2>2, <2>3 DEF Settle
<1>5. ASSUME NEW d \in Calls, sticky'[d] # None
      PROVE  op'[d] = "initialize" /\ MayHave(d, sticky[d])'
  <2>1. CASE sticky'[d] = sticky[d]
    <3>1. op[d] = "initialize" /\ MayHave(d, sticky[d])  BY <1>5, <2>1 DEF PInv, Stuck
    <3>2. op'[d] = "initialize"  BY <3>1 DEF Others, Stays
    <3>3. \A m : m = sticky[d] => MayHave(d, m)'
      <4> SUFFICES ASSUME NEW m, m = sticky[d] PROVE MayHave(d, m)'
        OBVIOUS
      <4> QED  BY <1>1, <3>1, StillMayHave
    <3> QED  BY <2>1, <3>2, <3>3 DEF MayHave
  <2>2. CASE sticky'[d] # sticky[d]
    BY <1>4, <2>2 DEF IInv, Values
  <2> QED  BY <2>1, <2>2
<1> QED  BY <1>5 DEF Stuck

\* The messages that wait go on waiting with the configuration of their state.
LEMMA StillWaiting ==
  ASSUME IInv, PInv, NEW c \in Calls, Others(c), Stays(c), \A d \in Calls \ {c} : step'[d] = step[d],
         Pending(c)' => OwnState(c)
  PROVE  Waiting'
<1>1. \A d \in Calls : op[d] = "initialize" => op'[d] = "initialize" /\ from'[d] = from[d]
  BY DEF Others, Stays
<1>2. ASSUME NEW d \in Calls \ {c}, Pending(d)', op'[d] = "send"
      PROVE  op'[state'[d]] = "initialize" /\ from'[d] = from'[state'[d]]
  <2>1. Pending(d) /\ op[d] = "send" /\ state'[d] = state[d] /\ from'[d] = from[d]
    BY <1>2 DEF Pending, Others
  <2>2. state[d] \in Calls /\ op[state[d]] = "initialize" /\ from[d] = from[state[d]]
    BY <2>1 DEF PInv, Waiting, IInv, HasState
  <2> QED  BY <1>1, <2>1, <2>2
<1>3. Pending(c)' /\ op'[c] = "send" => op'[state'[c]] = "initialize" /\ from'[c] = from'[state'[c]]
  BY DEF OwnState
<1> QED  BY <1>2, <1>3 DEF Waiting

\* A settled call was refused for a reason, and so were the others.
LEMMA SettleRefused ==
  ASSUME IInv, PInv, NEW c \in Calls, NEW catalogue, Settle(c, catalogue),
         Grows, Others(c), from'[c].place \in Places, Answers(c, catalogue)
  PROVE  RefusedForCause'
<1> DEFINE default == Default(catalogue, from'[c].prefer)
<1>1. account' = account  BY DEF Grows
<1>2. step' \in [Calls -> Steps] /\ \A d \in Calls \ {c} : step'[d] = step[d]
  BY SettleStep DEF IInv, Values
<1>3. step'[c] = "refused" => default = None
  <2> HIDE DEF default
  <2>1. ASSUME Goto(c, "returned") \/ Goto(c, "raised") PROVE step'[c] # "refused"
    BY <2>1 DEF Goto, IInv, Values
  <2> QED  BY <2>1 DEF Settle, StoreDefault, default
<1> DEFINE p == from'[c].place  offer == account[p]
<1>4. ASSUME default = None
      PROVE  \/ Bare(offer) \cup Profiled(offer) = {} \/ c \in failed'
             \/ Bare(offer) = {} /\ p \in degraded'
  <2>1. CASE Fits(offer, p \in degraded', catalogue)
    <3>1. offer.models \in Seq(ModelEntry) /\ offer.profiles \in Seq(ProfileEntry)
      BY PlaceOffers DEF PInv, Accounted
    <3>2. ToSet(catalogue) = {}  BY <1>4, <2>1, <3>1, DefaultFits
    <3> HIDE DEF offer
    <3> QED  BY <2>1, <3>2 DEF Fits
  <2> QED  BY <2>1 DEF Answers
<1> HIDE DEF default
<1>5. ASSUME NEW d \in Calls \ {c}, step'[d] = "refused"
      PROVE  LET r == from'[d].place
             IN  \/ Bare(account[r]) \cup Profiled(account[r]) = {} \/ d \in failed'
                 \/ Bare(account[r]) = {} /\ r \in degraded'
  BY <1>2, <1>5 DEF PInv, RefusedForCause, Others, Grows
<1> QED  BY <1>1, <1>3, <1>4, <1>5 DEF RefusedForCause

\* A call that is past its last suspension.
LEMMA SettlePlaces ==
  ASSUME IInv, PInv, IInv', NEW c \in Calls, NEW catalogue, Settle(c, catalogue),
         Grows, Others(c), Stays(c), OwnState(c), Heir(c), Answers(c, catalogue)
  PROVE  Fresh' /\ Waiting' /\ Stuck' /\ RefusedForCause'
<1>1. /\ step'[c] \in {"returned", "refused", "raised"} /\ \A d \in Calls \ {c} : step'[d] = step[d]
  BY SettleStep DEF IInv, Values
<1>2. Fresh' BY <1>1 DEF PInv, Fresh, Others
<1>3. Waiting'
  <2>1. ~Pending(c)'  BY <1>1 DEF Pending
  <2> QED  BY <1>1, <2>1, StillWaiting
<1>4. Stuck'  BY SettleStuck
<1>5. RefusedForCause'
  <2>1. from'[c].place \in Places  BY DEF IInv, Routes, Places
  <2> QED  BY <2>1, SettleRefused
<1> QED  BY <1>2, <1>3, <1>4, <1>5

\* A call that waits for a listing, or ends without a catalogue.
LEMMA MovePlaces ==
  ASSUME IInv, PInv, NEW c \in Calls, NEW s \in Steps \ {"idle", "refused"}, Goto(c, s),
         Grows, Others(c), Stays(c), sticky' = sticky,
         s \in {"models", "profiles"} => OwnState(c)
  PROVE  Fresh' /\ Waiting' /\ Stuck' /\ RefusedForCause'
<1>1. step' \in [Calls -> Steps] /\ step'[c] = s /\ \A d \in Calls \ {c} : step'[d] = step[d]
  BY DEF Goto, IInv, Values
<1>2. account' = account  BY DEF Grows
<1>3. Fresh'  BY <1>1 DEF PInv, Fresh, Others
<1>4. Waiting'
  <2>1. Pending(c)' => OwnState(c)  BY <1>1 DEF Pending
  <2> QED  BY <1>1, <2>1, StillWaiting
<1>5. Stuck'
  <2>1. ASSUME NEW d \in Calls, sticky'[d] # None
        PROVE  op'[d] = "initialize" /\ MayHave(d, sticky[d])'
    <3>1. op[d] = "initialize" /\ MayHave(d, sticky[d])  BY <2>1 DEF PInv, Stuck
    <3>2. PICK m : m = sticky[d]
      OBVIOUS
    <3>3. op'[d] = "initialize" /\ MayHave(d, m)'  BY <1>1, <3>1, <3>2, StillMayHave
    <3> QED  BY <3>2, <3>3 DEF MayHave
  <2> QED  BY <2>1 DEF Stuck
<1>6. RefusedForCause'
  <2>1. ASSUME NEW d \in Calls, step'[d] = "refused" PROVE step[d] = "refused" /\ from'[d] = from[d]
    BY <1>1, <2>1 DEF Others
  <2> QED  BY <1>2, <2>1 DEF PInv, RefusedForCause, Grows
<1> QED  BY <1>3, <1>4, <1>5, <1>6

\* A cache that is not written stays right.
LEMMA SameCache ==
  ASSUME IInv, PInv, Grows, cache' = cache
  PROVE  Accounted' /\ Cached'
<1>1. account' = account /\ degraded \subseteq degraded'  BY DEF Grows
<1>2. \A p \in Places : Fits(account[p], p \in degraded, cache[p]) =>
                        Fits(account[p], p \in degraded', cache[p])
  BY <1>1 DEF Fits
<1> QED  BY <1>1, <1>2 DEF PInv, Accounted, Cached

\* A step that puts nothing into the table: an initialisation that goes on still
\* stores its default in its own state or in a later one.
LEMMA SameTable ==
  ASSUME IInv, PInv, NEW c \in Calls, Others(c), Stays(c), earlier' = earlier,
         \A d \in Calls \ {c} : step'[d] = step[d],
         op'[c] = "initialize" => op[c] = "initialize" /\ Pending(c),
         \A s \in Sessions : table'[s] \in {table[s], None}
  PROVE  Tabled' /\ Inherits' /\ Heir(c)
<1>1. \A s \in Sessions : table'[s] # None =>
         table'[s] = table[s] /\ table[s] \in Calls /\ op'[table[s]] = "initialize"
  BY DEF PInv, Tabled, Others, Stays, IInv, Routes
<1>2. ASSUME NEW d \in Calls, d = c \/ Pending(d)', op'[d] = "initialize"
      PROVE  /\ Pending(d) /\ op[d] = "initialize" /\ session'[d] = session[d]
             /\ session[d] \in Sessions
  <2>1. Pending(d) /\ op[d] = "initialize" /\ session'[d] = session[d]
    BY <1>2 DEF Others, Stays, Pending
  <2> QED  BY <2>1 DEF IInv, Known
<1>3. Tabled'  BY <1>1 DEF Tabled
<1>4. ASSUME NEW d \in Calls, d = c \/ Pending(d)', op'[d] = "initialize", table'[session'[d]] # None
      PROVE  table'[session'[d]] = d \/ d \in earlier'[table'[session'[d]]]
  BY <1>1, <1>2, <1>4 DEF PInv, Inherits
<1>5. Inherits'  BY <1>4 DEF Inherits
<1>6. Heir(c)
  <2>1. op'[c] = "initialize" => session'[c] \in Sessions  BY <1>2
  <2> QED  BY <1>1, <1>4, <2>1 DEF Heir
<1> QED  BY <1>3, <1>5, <1>6

\* The first half of a fetch.
LEMMA FetchPlaces ==
  ASSUME IInv, PInv, IInv', NEW c \in Calls, Fetch(c), Grows, cache' = cache, Others(c), Stays(c),
         OwnState(c), Heir(c), Tabled', Inherits'
  PROVE  PInv'
<1>1. from'[c].place \in Places  BY DEF IInv, Routes, Places
<1>2. Accounted' /\ Cached'  BY SameCache
<1>3. CASE cache[from'[c].place] # Absent /\ Settle(c, cache[from'[c].place])
  <2> DEFINE p == from'[c].place
  <2>1. Fits(account[p], p \in degraded', cache[p])
    <3>1. Fits(account[p], p \in degraded, cache[p])  BY <1>1, <1>3 DEF PInv, Cached
    <3> QED  BY <3>1 DEF Fits, Grows
  <2>2. Answers(c, cache[p])  BY <2>1 DEF Answers
  <2> QED  BY <1>2, <1>3, <2>2, SettlePlaces DEF PInv
<1>4. CASE Settle(c, <<>>) /\ failed' = failed \cup {c}
  <2>1. Answers(c, <<>>)  BY <1>4 DEF Answers
  <2> QED  BY <1>2, <1>4, <2>1, SettlePlaces DEF PInv
<1>5. CASE Goto(c, "models") /\ UNCHANGED models
  <2>1. "models" \in Steps \ {"idle", "refused"} /\ sticky' = sticky  BY <1>5 DEF Steps, models
  <2> QED  BY <1>2, <1>5, <2>1, MovePlaces DEF PInv
<1> QED  BY <1>3, <1>4, <1>5 DEF Fetch

\* A failed fetch is remembered, no earlier one is forgotten, and only the call
\* that fetches moves.
LEMMA FetchGrows ==
  ASSUME step \in [Calls -> Steps], NEW c \in Calls, Fetch(c)
  PROVE  failed \subseteq failed' /\ \A d \in Calls \ {c} : step'[d] = step[d]
<1>1. failed \subseteq failed'  BY DEF Fetch
<1>2. CASE \E catalogue : Settle(c, catalogue)  BY <1>1, <1>2, SettleStep
<1>3. CASE Goto(c, "models")  BY <1>1, <1>3 DEF Goto
<1> QED  BY <1>2, <1>3 DEF Fetch

\* A call that begins leaves the others, and was no initialisation.
LEMMA BeginsStays ==
  ASSUME IInv, PInv, NEW c \in Calls, NEW method \in {"initialize", "send", "list"}, NEW s, NEW cfg,
         Begins(c, method, s, cfg), \A d \in Calls \ {c} : state'[d] = state[d],
         \A d \in Calls \ {c} : earlier'[d] = earlier[d]
  PROVE  /\ Others(c) /\ Stays(c) /\ op[c] = "none"
         /\ op'[c] = method /\ session'[c] = s /\ from'[c] = cfg
<1>1. op[c] = "none" /\ step[c] = "idle"  BY DEF Begins, PInv, Fresh
<1>2. op'[c] = method /\ session'[c] = s /\ from'[c] = cfg  BY DEF Begins, IInv, Routes
<1>3. Others(c)  BY DEF Begins, Others, IInv, Routes
<1> QED  BY <1>1, <1>2, <1>3 DEF Stays

\* The new state knows all that were listing for its session when it was made.
LEMMA CallInitializePlaces ==
  ASSUME IInv, PInv, IInv', NEW c \in Calls, NEW s \in Sessions, NEW cfg \in Configs,
         CallInitialize(c, s, cfg)
  PROVE  PInv'
<1>1. /\ Begins(c, "initialize", s, cfg) /\ Fetch(c) /\ table' = [table EXCEPT ![s] = c]
      /\ UNCHANGED state
  BY DEF CallInitialize
<1>2. /\ earlier'[c] = {d \in Calls : Pending(d) /\ op[d] = "initialize" /\ session[d] = s}
      /\ \A d \in Calls \ {c} : earlier'[d] = earlier[d]
  BY DEF CallInitialize, IInv, Routes
<1>3. Others(c) /\ Stays(c) /\ op[c] = "none" /\ op'[c] = "initialize" /\ session'[c] = s
  BY <1>1, <1>2, BeginsStays
<1>4. /\ Grows /\ cache' = cache /\ \A d \in Calls \ {c} : step'[d] = step[d]
  BY <1>1, FetchGrows DEF Begins, Grows, IInv, Values
<1>5. table'[s] = c /\ \A r \in Sessions \ {s} : table'[r] = table[r]
  BY <1>1 DEF IInv, Routes
<1>6. \A r \in Sessions : table[r] # None => table[r] \in Calls \ {c} /\ op[table[r]] = "initialize"
  BY <1>3 DEF PInv, Tabled, IInv, Routes
<1>7. Tabled'
  BY <1>3, <1>5, <1>6 DEF Tabled, Others
<1>8. Inherits'
  <2> SUFFICES ASSUME NEW d \in Calls, Pending(d)', op'[d] = "initialize", table'[session'[d]] # None
               PROVE  table'[session'[d]] = d \/ d \in earlier'[table'[session'[d]]]
    BY DEF Inherits
  <2>1. CASE d = c  BY <1>3, <1>5, <2>1
  <2>2. CASE d # c
    <3>1. Pending(d) /\ op[d] = "initialize" /\ session'[d] = session[d]
      BY <1>3, <1>4, <2>2 DEF Others, Pending
    <3>2. session[d] \in Sessions  BY <3>1 DEF IInv, Known
    <3>3. CASE session[d] = s  BY <1>2, <1>5, <3>1, <3>3
    <3>4. CASE session[d] # s  BY <1>2, <1>5, <1>6, <3>1, <3>2, <3>4 DEF PInv, Inherits
    <3> QED  BY <3>3, <3>4
  <2> QED  BY <2>1, <2>2
<1>9. OwnState(c) /\ Heir(c)  BY <1>3, <1>5 DEF OwnState, Heir
<1> QED  BY <1>1, <1>3, <1>4, <1>7, <1>8, <1>9, FetchPlaces

\* A message that needs no default stores its session's own model again, or the
\* host's; one that needs it fetches.
LEMMA CallSendPlaces ==
  ASSUME IInv, PInv, IInv', NEW c \in Calls, NEW s \in Sessions, NEW model \in {None, Requested},
         CallSend(c, s, model)
  PROVE  PInv'
<1> DEFINE last == IF model # None THEN model ELSE sticky[table[s]]
<1>1. /\ Begins(c, "send", s, ConfigOf(s)) /\ state' = [state EXCEPT ![c] = table[s]]
      /\ UNCHANGED <<table, order, active, earlier, popped>>
      /\ \/ ~Serving(s) /\ Goto(c, "inactive") /\ UNCHANGED <<models, failed>>
         \/ /\ Serving(s) /\ last # None /\ Goto(c, "returned") /\ StreamWith(table[s], last)
            /\ UNCHANGED <<fallback, failed>>
         \/ Serving(s) /\ Fetch(c)
  BY DEF CallSend, routing
<1>2. state'[c] = table[s] /\ \A d \in Calls \ {c} : state'[d] = state[d]
  BY <1>1 DEF IInv, Routes
<1>3. /\ Others(c) /\ Stays(c) /\ op[c] = "none"
      /\ op'[c] = "send" /\ session'[c] = s /\ from'[c] = ConfigOf(s)
  BY <1>1, <1>2, BeginsStays
<1>4. Grows /\ cache' = cache /\ \A d \in Calls \ {c} : step'[d] = step[d]
  <2>1. CASE Fetch(c)  BY <1>1, <2>1, FetchGrows DEF Begins, Grows, IInv, Values
  <2>2. CASE UNCHANGED failed /\ (Goto(c, "inactive") \/ Goto(c, "returned"))
    BY <1>1, <2>2 DEF Begins, Grows, Goto, IInv, Values
  <2> HIDE DEF last
  <2> QED  BY <1>1, <2>1, <2>2
<1>5. Tabled' /\ Inherits' /\ Heir(c)  BY <1>1, <1>3, <1>4, SameTable
<1>6. Serving(s) => table[s] \in Calls /\ op[table[s]] = "initialize" /\ from[table[s]] = ConfigOf(s)
  BY DEF Serving, ConfigOf, PInv, Tabled, IInv, Routes
<1>7. Accounted' /\ Cached'  BY <1>4, SameCache
<1>8. CASE Goto(c, "inactive") /\ UNCHANGED models
  <2>1. "inactive" \in Steps \ {"idle", "refused"} /\ sticky' = sticky  BY <1>8 DEF Steps, models
  <2> QED  BY <1>3, <1>4, <1>5, <1>7, <1>8, <2>1, MovePlaces DEF PInv
<1>9. CASE Serving(s) /\ last # None /\ Goto(c, "returned") /\ StreamWith(table[s], last)
  <2>0. PICK st : st = table[s]
    OBVIOUS
  <2>1. st \in Calls /\ op[st] = "initialize"  BY <1>6, <1>9, <2>0
  <2>2. sticky' = [sticky EXCEPT ![st] = last]  BY <1>9, <2>0 DEF StreamWith
  <2>3. MayHave(st, last)
    BY <1>9, <2>0, <2>1 DEF PInv, Stuck, MayHave
  <2>4. PICK m : m = last
    OBVIOUS
  <2> HIDE DEF last
  <2>5. MayHave(st, m)'  BY <1>3, <1>4, <2>1, <2>3, <2>4, StillMayHave
  <2>6. Stuck'
    <3> SUFFICES ASSUME NEW e \in Calls, sticky'[e] # None
                 PROVE  op'[e] = "initialize" /\ MayHave(e, sticky[e])'
      BY DEF Stuck
    <3>1. CASE e = st
      <4>1. sticky'[e] = m  BY <2>1, <2>2, <2>4, <3>1 DEF IInv, Values
      <4>2. op'[e] = "initialize"  BY <1>3, <2>1, <3>1 DEF Others, Stays
      <4> QED  BY <2>5, <3>1, <4>1, <4>2 DEF MayHave
    <3>2. CASE e # st
      <4>1. sticky'[e] = sticky[e]  BY <2>2, <3>2 DEF IInv, Values
      <4>2. op[e] = "initialize" /\ MayHave(e, sticky[e])  BY <4>1 DEF PInv, Stuck
      <4>3. PICK n : n = sticky[e]
        OBVIOUS
      <4>4. op'[e] = "initialize" /\ MayHave(e, n)'  BY <1>3, <1>4, <4>2, <4>3, StillMayHave
      <4> QED  BY <4>1, <4>3, <4>4 DEF MayHave
    <3> QED  BY <3>1, <3>2
  <2>7. step'[c] = "returned"  BY <1>9 DEF Goto, IInv, Values
  <2>8. Fresh'  BY <1>3, <1>4, <2>7 DEF PInv, Fresh, Others
  <2>9. Waiting'
    <3>1. ~Pending(c)'  BY <2>7 DEF Pending
    <3> QED  BY <1>3, <1>4, <3>1, StillWaiting
  <2>10. RefusedForCause'
    <3>1. ASSUME NEW e \in Calls, step'[e] = "refused" PROVE step[e] = "refused" /\ from'[e] = from[e]
      BY <1>3, <1>4, <2>7, <3>1 DEF Others
    <3> QED  BY <1>4, <3>1 DEF PInv, RefusedForCause, Grows
  <2> QED  BY <1>5, <1>7, <2>6, <2>8, <2>9, <2>10 DEF PInv
<1>10. CASE Serving(s) /\ Fetch(c)
  <2>1. OwnState(c)
    BY <1>2, <1>3, <1>6, <1>10 DEF OwnState, Others
  <2> QED  BY <1>3, <1>4, <1>5, <1>10, <2>1, FetchPlaces
<1> HIDE DEF last
<1> QED  BY <1>1, <1>8, <1>9, <1>10

LEMMA CallListPlaces ==
  ASSUME IInv, PInv, IInv', NEW c \in Calls, CallList(c) PROVE PInv'
<1>1. /\ Begins(c, "list", None, Latest) /\ Fetch(c)
      /\ UNCHANGED <<table, order, active, earlier, state, popped>>
  BY DEF CallList, routing
<1>2. Others(c) /\ Stays(c) /\ op'[c] = "list"  BY <1>1, BeginsStays
<1>3. Grows /\ cache' = cache /\ \A d \in Calls \ {c} : step'[d] = step[d]
  BY <1>1, FetchGrows DEF Begins, Grows, IInv, Values
<1>4. Tabled' /\ Inherits' /\ Heir(c)  BY <1>1, <1>2, <1>3, SameTable
<1>5. OwnState(c)  BY <1>2 DEF OwnState
<1> QED  BY <1>1, <1>2, <1>3, <1>4, <1>5, FetchPlaces

-----------------------------------------------------------------------------
(* The listings' answers. *)

\* What a call stores for its place is the place's own.
LEMMA StorePlaces ==
  ASSUME IInv, PInv, IInv', NEW c \in Calls, NEW catalogue, Store(c, catalogue), Pending(c),
         degraded \subseteq degraded',
         Fits(account[from[c].place], from[c].place \in degraded', catalogue)
  PROVE  PInv'
<1> DEFINE p == from[c].place
<1>1. /\ cache' = [cache EXCEPT ![p] = catalogue] /\ Settle(c, catalogue)
      /\ UNCHANGED <<account, table, earlier, op, session, state, from, failed>>
  BY DEF Store, routing, calls
<1>2. Others(c) /\ Stays(c) /\ Grows
  BY <1>1 DEF Others, Stays, Grows, Pending
<1>3. OwnState(c)
  BY <1>1 DEF OwnState, PInv, Waiting, IInv, HasState
<1>4. Tabled' /\ Inherits' /\ Heir(c)
  <2>1. \A d \in Calls \ {c} : step'[d] = step[d]  BY <1>1, SettleStep DEF IInv, Values
  <2> QED  BY <1>1, <1>2, <2>1, SameTable
<1>5. Answers(c, catalogue)  BY <1>1 DEF Answers
<1>6. Accounted' /\ Cached'
  <2>1. p \in Places  BY DEF IInv, Routes, Places
  <2>2. \A q \in Places : cache'[q] = IF q = p THEN catalogue ELSE cache[q]
    BY <1>1, <2>1 DEF PInv, Accounted
  <2>3. Accounted'  BY <1>1 DEF PInv, Accounted
  <2>4. \A q \in Places : Fits(account[q], q \in degraded, cache[q]) =>
                          Fits(account[q], q \in degraded', cache[q])
    BY DEF Fits
  <2>5. Cached'
    <3> HIDE DEF p
    <3>1. ASSUME NEW q \in Places, cache'[q] # Absent
          PROVE  Fits(account[q], q \in degraded', cache'[q])
      <4>1. CASE q = p  BY <2>2, <4>1 DEF p
      <4>2. CASE q # p  BY <2>2, <2>4, <3>1, <4>2 DEF PInv, Cached
      <4> QED  BY <4>1, <4>2
    <3> QED  BY <1>1, <3>1 DEF Cached
  <2> QED  BY <2>3, <2>5
<1>7. Fresh' /\ Waiting' /\ Stuck' /\ RefusedForCause'
  BY <1>1, <1>2, <1>3, <1>4, <1>5, SettlePlaces
<1> QED  BY <1>4, <1>6, <1>7 DEF PInv

\* Each answer of a listing.
LEMMA PendingPlaces ==
  ASSUME IInv, PInv, IInv', NEW c \in Calls,
         ModelsListed(c) \/ ModelsFailed(c) \/ ProfilesListed(c) \/ ProfilesFailed(c) \/ Cancelled(c)
  PROVE  PInv'
<1> DEFINE p == from[c].place
<1>0. Pending(c) /\ p \in Places
  BY DEF ModelsListed, ModelsFailed, ProfilesListed, ProfilesFailed, Cancelled, Pending,
     IInv, Routes, Places
<1>1. account[p].models \in Seq(ModelEntry) /\ account[p].profiles \in Seq(ProfileEntry)
  BY <1>0, PlaceOffers DEF PInv, Accounted
<1>2. CASE ModelsListed(c) \/ Cancelled(c)
  <2>1. UNCHANGED <<account, table, earlier, cache, sticky, op, session, state, from, failed, degraded>>
    BY <1>2 DEF ModelsListed, Cancelled, routing, models, calls
  <2>2. Others(c) /\ Stays(c) /\ Grows
    BY <1>0, <2>1 DEF Others, Stays, Grows, Pending
  <2>3. OwnState(c)  BY <1>0, <2>1 DEF OwnState, PInv, Waiting, IInv, HasState
  <2>4. Tabled' /\ Inherits' /\ Heir(c)
    <3>1. \A d \in Calls \ {c} : step'[d] = step[d]
      BY <1>2 DEF ModelsListed, Cancelled, Goto, IInv, Values
    <3> QED  BY <1>0, <2>1, <2>2, <3>1, SameTable
  <2>5. Accounted' /\ Cached'  BY <2>1, <2>2, SameCache
  <2>6. \E s \in Steps \ {"idle", "refused"} : Goto(c, s)
    <3>1. "profiles" \in Steps \ {"idle", "refused"} /\ "cancelled" \in Steps \ {"idle", "refused"}
      BY DEF Steps
    <3> QED  BY <1>2, <3>1 DEF ModelsListed, Cancelled
  <2> QED  BY <2>1, <2>2, <2>3, <2>4, <2>5, <2>6, MovePlaces DEF PInv
<1>3. CASE ModelsFailed(c)
  <2>1. /\ UNCHANGED <<account, table, earlier, cache, op, session, state, from, degraded>>
        /\ failed' = failed \cup {c} /\ Settle(c, <<>>)
    BY <1>3 DEF ModelsFailed, routing, calls
  <2>2. Others(c) /\ Stays(c) /\ Grows
    BY <1>0, <2>1 DEF Others, Stays, Grows, Pending
  <2>3. OwnState(c)  BY <1>0, <2>1 DEF OwnState, PInv, Waiting, IInv, HasState
  <2>4. Tabled' /\ Inherits' /\ Heir(c)
    <3>1. \A d \in Calls \ {c} : step'[d] = step[d]  BY <2>1, SettleStep DEF IInv, Values
    <3> QED  BY <1>0, <2>1, <2>2, <3>1, SameTable
  <2>5. Accounted' /\ Cached'  BY <2>1, <2>2, SameCache
  <2>6. Answers(c, <<>>)  BY <2>1 DEF Answers
  <2> QED  BY <2>1, <2>2, <2>3, <2>4, <2>5, <2>6, SettlePlaces DEF PInv
<1>4. CASE ProfilesListed(c)
  <2> DEFINE q == Catalogue(account[p].models, account[p].profiles)
  <2>1. Store(c, q) /\ degraded' = degraded  BY <1>4 DEF ProfilesListed
  <2>2. q \in Seq(ToSet(q))  BY <1>1, CatalogueListed
  <2>3. Fits(account[p], p \in degraded', q)  BY <1>1, <2>2, PlaceCatalogue DEF Fits
  <2> QED  BY <1>0, <2>1, <2>3, StorePlaces
<1>5. CASE ProfilesFailed(c)
  <2> DEFINE q == Catalogue(account[p].models, <<>>)
  <2>1. Store(c, q) /\ degraded' = degraded \cup {p}  BY <1>5 DEF ProfilesFailed
  <2>2. q \in Seq(ToSet(q))  BY <1>1, CatalogueListed
  <2>3. Fits(account[p], p \in degraded', q)  BY <1>1, <2>1, <2>2, PlaceCatalogue DEF Fits
  <2> QED  BY <1>0, <2>1, <2>3, StorePlaces
<1> QED  BY <1>2, <1>3, <1>4, <1>5

-----------------------------------------------------------------------------
LEMMA InitPInv == Init => PInv
<1> SUFFICES ASSUME Init PROVE PInv
  OBVIOUS
<1>1. Accounted /\ Cached  BY DEF Init, Accounted, Cached
<1>2. Fresh /\ Tabled /\ Waiting /\ Inherits /\ Stuck /\ RefusedForCause
  BY DEF Init, Fresh, Tabled, Waiting, Inherits, Pending, Stuck, RefusedForCause
<1> QED  BY <1>1, <1>2 DEF PInv

LEMMA NextPInv == IInv /\ PInv /\ [Next]_vars => PInv'
<1> SUFFICES ASSUME IInv, PInv, [Next]_vars PROVE PInv'
  OBVIOUS
<1>1. IInv'  BY NextIInv
<1>2. CASE \E s \in Sessions : Cancel(s) \/ Close(s)
  <2>1. PICK s \in Sessions : Cancel(s) \/ Close(s)  BY <1>2
  <2>2. UNCHANGED <<account, earlier, cache, sticky, op, session, state, from, step, degraded, failed>>
    BY <2>1 DEF Cancel, Close, models, calls
  <2>3. \A r \in Sessions : table'[r] \in {table[r], None}
    BY <2>1 DEF Cancel, Close, IInv, Routes
  <2>4. Tabled'  BY <2>2, <2>3 DEF PInv, Tabled
  <2>5. Inherits'
    <3>1. \A c \in Calls : Pending(c) /\ op[c] = "initialize" => session[c] \in Sessions
      BY DEF IInv, Known
    <3> QED  BY <2>2, <2>3, <3>1 DEF PInv, Inherits, Pending
  <2> QED
    BY <2>2, <2>4, <2>5 DEF PInv, Accounted, Cached, Fresh, Waiting, Pending, Stuck, MayHave, Offer,
       RefusedForCause
<1>3. CASE UNCHANGED vars
  BY <1>3 DEF vars, routing, models, calls, PInv, Accounted, Cached, Fresh, Tabled, Waiting,
     Inherits, Pending, Stuck, MayHave, Offer, RefusedForCause
<1> QED
  BY <1>1, <1>2, <1>3, CallInitializePlaces, CallSendPlaces, CallListPlaces, PendingPlaces DEF Next

\* Whatever the calls' interleaving, a cache, a state and a pending call are about
\* one place, and a pending initialisation writes to its own state or to one that
\* knows of it: the invariant that the next three properties follow from.
THEOREM PlacesInvariance == Spec => []PInv
<1> QED  BY InitPInv, NextPInv, Invariance, PTL DEF Spec

(***************************************************************************)
(* For any accounts and any interleaving of fetches: what is cached for a  *)
(* place is that place's catalogue, each model with its best profile, or,  *)
(* after a failed profile listing, without the profile-only models.        *)
(***************************************************************************)
THEOREM CacheIsRight == Spec => []CacheIsThePlaces
<1>1. PInv => CacheIsThePlaces  BY DEF PInv, Cached, Fits, CacheIsThePlaces
<1> QED  BY <1>1, PlacesInvariance, PTL

(***************************************************************************)
(* A state's model is the host's, or one that can be invoked where the     *)
(* state was configured, or the late default of an initialisation of its   *)
(* session that was still listing when the state was made (line 253).      *)
(***************************************************************************)
THEOREM ModelIsOfItsPlace == Spec => []OwnModel
<1>1. PInv => OwnModel  BY DEF PInv, Stuck, MayHave, OwnModel
<1> QED  BY <1>1, PlacesInvariance, PTL

(***************************************************************************)
(* A message is refused for want of a model only with a cause.             *)
(***************************************************************************)
THEOREM RefusalHasCause == Spec => []RefusedForCause
<1>1. PInv => RefusedForCause  BY DEF PInv
<1> QED  BY <1>1, PlacesInvariance, PTL
===============================================================================
