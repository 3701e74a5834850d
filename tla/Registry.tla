------------------------------ MODULE Registry ------------------------------
(***************************************************************************)
(* Registry<T: Observer> of src/src/registry.rs: the intent -> services    *)
(* index, the known-services set, the transaction-scoped change tracking   *)
(* (TransactionalRegistryUpdate; transition is in ChangeTracking) and the  *)
(* observer it notifies, here a Composite of two sinks that each keep a   *)
(* copy of the index built only from the change batches they receive.      *)
(*                                                                         *)
(* upsert takes &mut self and never suspends, so one call is one atomic    *)
(* step; inside it the order of the code is kept: validation, pruning of   *)
(* external_services_by_intent, pruning of known_services, the binding     *)
(* loop over the intent list, registration, observation.                   *)
(*                                                                         *)
(* A service configuration is a record [id, endpoint]; `endpoint` stands   *)
(* for the url and the locality, which only take part in equality.  An    *)
(* intent configuration is a record [namespace, intent] whose namespace    *)
(* is a sequence of characters, so that the reserved-namespace check is   *)
(* modelled by what it does.                                               *)
(***************************************************************************)
EXTENDS ChangeTracking, FiniteSets, Sequences, SequencesExt, TLC

CONSTANTS
    ServiceIds,   \* ServiceId values (name, version)
    Endpoints,    \* (url, locality) pairs a configuration can carry
    Intents,      \* IntentConfiguration values requests may name
    AsciiLower,   \* ASCII case folding of the characters used in namespaces
    MaxIntents,   \* longest intent list of one upsert request
    PanickingSinks \* the observers behind the Composite whose on_change may panic

VARIABLES
    external_services_by_intent,  \* HashMap<IntentConfiguration, HashSet<ServiceConfiguration>>
    known_services,               \* HashSet<ServiceConfiguration>
    views,                        \* the index as rebuilt by each observer sink
    lastBatch,                    \* the change batch of the last upsert, {} if none
    lastResult,                   \* what the last upsert returned: "Ok" or "Err"
    panicked                      \* an upsert hit a panic (impossible transition, bad index)

vars == <<external_services_by_intent, known_services, views, lastBatch, lastResult, panicked>>

Configs == [id : ServiceIds, endpoint : Endpoints]

\* IntentKind, by its Display strings.
IntentKind == {"discover", "inspect", "read", "write", "invoke", "subscribe"}

\* IntentConfiguration { namespace, intent }: a namespace is any string.
IsIntentConfiguration(i) ==
    /\ DOMAIN i = {"namespace", "intent"}
    /\ i.namespace \in Seq(DOMAIN AsciiLower)
    /\ i.intent \in IntentKind

ASSUME \A i \in Intents : IsIntentConfiguration(i)

Requests == SeqOf(Intents, MaxIntents)

Sinks == {"left", "right"}

ASSUME PanickingSinks \subseteq Sinks

\* Change::Add and Change::Modify carry the intent's (non-empty) service set,
\* Change::Remove carries none.
Change ==
    [kind : {"Add", "Modify"}, intent : Intents, services : (SUBSET Configs) \ {{}}]
    \cup [kind : {"Remove"}, intent : Intents, services : {{}}]

IsIndex(f) ==
    /\ DOMAIN f \subseteq Intents
    /\ \A i \in DOMAIN f : f[i] \subseteq Configs

-----------------------------------------------------------------------------
(* Reserved-namespace check, upsert lines 69-77.                           *)

SYSTEM_NAMESPACE == <<"s", "y", "s", "t", "e", "m">>

SYSTEM_NAMESPACE_PREFIX == Append(SYSTEM_NAMESPACE, ".")

EqIgnoreAsciiCase(a, b) ==
    /\ Len(a) = Len(b)
    /\ \A k \in 1..Len(a) : AsciiLower[a[k]] = AsciiLower[b[k]]

StartsWithIgnoreAsciiCase(string, prefix) ==
    /\ Len(string) >= Len(prefix)
    /\ EqIgnoreAsciiCase(SubSeq(string, 1, Len(prefix)), prefix)

\* Mutant: the prefix test is missing, "system.x" is accepted.
IsProtectedExactOnly(ic) == EqIgnoreAsciiCase(ic.namespace, SYSTEM_NAMESPACE)

IsProtected(ic) ==
    \/ EqIgnoreAsciiCase(ic.namespace, SYSTEM_NAMESPACE)
    \/ StartsWithIgnoreAsciiCase(ic.namespace, SYSTEM_NAMESPACE_PREFIX)

-----------------------------------------------------------------------------
(* TransactionalRegistryUpdate::observe, upsert lines 122-131.           *)

\* observe: one Change per tracked intent, Add and Modify carrying the
\* intent's service set read from the registry after the mutation.
ChangeOf(changes, registry, intent) ==
    [kind     |-> changes[intent],
     intent   |-> intent,
     services |-> IF changes[intent] = "Remove" THEN {} ELSE registry[intent]]

\* registry.external_services_by_intent[intent] panics on a missing key.
ObservePanics(changes, registry) ==
    \/ Bug \in Range(changes)
    \/ \E i \in DOMAIN changes : changes[i] # "Remove" /\ i \notin DOMAIN registry

Observe(changes, registry) ==
    {ChangeOf(changes, registry, i) : i \in DOMAIN changes}

-----------------------------------------------------------------------------
(* The pruning and binding steps of upsert, lines 141-180.                 *)

\* services.retain(|service| service.id != service_configuration.id)
Retained(index, intent, id) == {s \in index[intent] : s.id # id}

\* external_services_by_intent.retain: entries left empty are deleted.
\* Mutant: the retain closure returns true, keeping emptied entries.
PruneBindingsKeepEmpty(index, id) == [i \in DOMAIN index |-> Retained(index, i, id)]

PruneBindings(index, id) ==
    [i \in {j \in DOMAIN index : Retained(index, j, id) # {}} |-> Retained(index, i, id)]

\* The transitions recorded by the retain closure: only where the set shrank.
PruneChanges(index, id) ==
    [i \in {j \in DOMAIN index : Retained(index, j, id) # index[j]} |->
        IF Retained(index, i, id) = {} THEN "Remove" ELSE "Modify"]

\* known_services.retain(|service| service.id != service_configuration.id)
\* Mutant: the stale configuration is not removed from known_services.
PruneKnownSkipped(known, id) == known

PruneKnown(known, id) == {s \in known : s.id # id}

\* One iteration of the `for intent_configuration in intent_configurations`
\* loop on st = [index, changes]: track the transition, then insert into the
\* entry, creating it when missing.
\* Mutant: a new entry is created empty, the insert only reaches existing ones.
BindIntentEmptyOnCreate(c, st, ic) ==
    LET present == ic \in DOMAIN st.index
    IN  [index   |-> IF present
                     THEN [st.index EXCEPT ![ic] = @ \cup {c}]
                     ELSE (ic :> {}) @@ st.index,
         changes |-> Transition(st.changes, ic, IF present THEN "Modify" ELSE "Add")]

BindIntent(c, st, ic) ==
    LET present == ic \in DOMAIN st.index
    IN  [index   |-> IF present
                     THEN [st.index EXCEPT ![ic] = @ \cup {c}]
                     ELSE (ic :> {c}) @@ st.index,
         changes |-> Transition(st.changes, ic, IF present THEN "Modify" ELSE "Add")]

-----------------------------------------------------------------------------
(* Observer side: Composite::on_change and the sinks behind it.            *)

\* A sink rebuilds the index from a batch: Add and Modify set the intent's
\* services, Remove deletes the entry.
ApplyBatch(view, batch) ==
    LET removed == {ch.intent : ch \in {b \in batch : b.kind = "Remove"}}
        set     == {b \in batch : b.kind # "Remove"}
        kept    == (DOMAIN view \ removed) \cup {ch.intent : ch \in set}
    IN  [i \in kept |-> IF \E ch \in set : ch.intent = i
                        THEN (CHOOSE ch \in set : ch.intent = i).services
                        ELSE view[i]]

\* The sinks that have applied the batch when on_change of sink `stop`
\* panics ("none": no panic): a panicking sink applies nothing, and a panic
\* in the left one unwinds before the right one is called.
Reached(stop) == CASE stop = "none" -> Sinks [] stop = "left" -> {} [] stop = "right" -> {"left"}

\* Composite forwards changes.clone() to the left observer, then changes
\* to the right one.
\* Mutant: on_change forwards the batch to the left observer only.
CompositeOnChangeLeftOnly(vs, batch, stop) ==
    [s \in Sinks |-> IF s \in Reached(stop) /\ s = "left" THEN ApplyBatch(vs[s], batch) ELSE vs[s]]

CompositeOnChange(vs, batch, stop) ==
    [s \in Sinks |-> IF s \in Reached(stop) THEN ApplyBatch(vs[s], batch) ELSE vs[s]]

-----------------------------------------------------------------------------

HasService(key) == key \in known_services

Init ==
    /\ external_services_by_intent = [i \in {} |-> {}]
    /\ known_services = {}
    /\ views = [s \in Sinks |-> [i \in {} |-> {}]]
    /\ lastBatch = {}
    /\ lastResult = "Ok"
    /\ panicked = FALSE

\* upsert returns Err before touching any state.
UpsertRejected(c, ics) ==
    /\ ~panicked
    /\ \E k \in 1..Len(ics) : IsProtected(ics[k])
    /\ lastBatch' = {}
    /\ lastResult' = "Err"
    /\ UNCHANGED <<external_services_by_intent, known_services, views, panicked>>

\* Mutant: the observer is notified before the service is inserted into
\* known_services, so a panicking observer skips the insert.
UpsertNotifyBeforeRegister(c, ics, stop) ==
    LET index  == external_services_by_intent
        st0    == [index |-> PruneBindings(index, c.id),
                   changes |-> PruneChanges(index, c.id)]
        st     == FoldLeft(LAMBDA s, ic : BindIntent(c, s, ic), st0, ics)
        batch  == Observe(st.changes, st.index)
        notify == DOMAIN st.changes # {}
    IN  /\ ~panicked
        /\ \A k \in 1..Len(ics) : ~IsProtected(ics[k])
        /\ stop # "none" => notify
        /\ external_services_by_intent' = st.index
        /\ known_services' = PruneKnown(known_services, c.id) \cup (IF stop = "none" THEN {c} ELSE {})
        /\ lastResult' = IF stop = "none" THEN "Ok" ELSE "ObserverPanic"
        /\ panicked' = ObservePanics(st.changes, st.index)
        /\ lastBatch' = IF notify /\ ~panicked' THEN batch ELSE {}
        /\ views' = IF notify /\ ~panicked' THEN CompositeOnChange(views, batch, stop) ELSE views

\* The whole of upsert after validation; `stop` is the sink whose on_change
\* panics, if any: the panic unwinds out of upsert after every mutation,
\* so the caller gets no Ok and the registry keeps the committed state.
Upsert(c, ics, stop) ==
    LET index  == external_services_by_intent
        st0    == [index |-> PruneBindings(index, c.id),
                   changes |-> PruneChanges(index, c.id)]
        st     == FoldLeft(LAMBDA s, ic : BindIntent(c, s, ic), st0, ics)
        batch  == Observe(st.changes, st.index)
        notify == DOMAIN st.changes # {}
    IN  /\ ~panicked
        /\ \A k \in 1..Len(ics) : ~IsProtected(ics[k])
        /\ stop # "none" => notify
        /\ external_services_by_intent' = st.index
        /\ known_services' = PruneKnown(known_services, c.id) \cup {c}
        /\ lastResult' = IF stop = "none" THEN "Ok" ELSE "ObserverPanic"
        /\ panicked' = ObservePanics(st.changes, st.index)
        /\ lastBatch' = IF notify /\ ~panicked' THEN batch ELSE {}
        /\ views' = IF notify /\ ~panicked' THEN CompositeOnChange(views, batch, stop) ELSE views

Next == \E c \in Configs, ics \in Requests :
            \/ UpsertRejected(c, ics)
            \/ \E stop \in {"none"} \cup PanickingSinks : Upsert(c, ics, stop)

Spec == Init /\ [][Next]_vars

-----------------------------------------------------------------------------
(* Properties.                                                             *)

TypeOK ==
    /\ IsIndex(external_services_by_intent)
    /\ known_services \subseteq Configs
    /\ DOMAIN views = Sinks /\ \A s \in Sinks : IsIndex(views[s])
    /\ lastBatch \subseteq Change
    /\ lastResult \in {"Ok", "Err", "ObserverPanic"}
    /\ panicked \in BOOLEAN

\* No sequence of upserts drives TransactionalRegistryUpdate::transition into
\* its panic! arm, or makes observe index an intent the registry no longer
\* has: the prune-then-bind order of upsert keeps every (from, to) pair
\* recorded for one intent inside the merge table.
NoPanic == ~panicked

\* The index never keeps an intent whose service set is empty: the retain
\* closure of upsert drops such entries, and observe relies on it to tell
\* Add from Modify on the next upsert.
NoEmptyEntry ==
    \A i \in DOMAIN external_services_by_intent : external_services_by_intent[i] # {}

\* Every configuration bound to an intent is the one has_service reports for
\* its id, and has_service reports at most one configuration per id: the
\* two retain calls of upsert prune by ServiceId, not by full equality, so a
\* re-registration under a new url or locality replaces the old one in both
\* indices while other versions of the same name stay untouched.
BindingsMatchKnown ==
    /\ \A i \in DOMAIN external_services_by_intent :
           \A s \in external_services_by_intent[i] : HasService(s)
    /\ \A s, t \in known_services : s.id = t.id => s = t

\* No intent whose namespace is "system" or starts with "system.", ignoring
\* ASCII case, is ever bound: the check at the top of upsert rejects any
\* request naming one.  Stated with the lowercased namespace, independently
\* of the byte-wise comparison the code uses.
Lowered(ns) == [k \in DOMAIN ns |-> AsciiLower[ns[k]]]

ReservedNamespace(ns) ==
    \/ Lowered(ns) = <<"s", "y", "s", "t", "e", "m">>
    \/ IsPrefix(<<"s", "y", "s", "t", "e", "m", ".">>, Lowered(ns))

NoReservedBinding ==
    \A i \in DOMAIN external_services_by_intent : ~ReservedNamespace(i.namespace)

\* Each observer behind the Composite, rebuilding the index only from the
\* change batches upsert hands it, holds exactly the registry's index after
\* every upsert: no affected intent is left out of a batch, none carries a
\* stale service set, and the right observer gets the whole batch although
\* the left one has already traversed it.
SinksInSync ==
    ~panicked => \A s \in Sinks : views[s] = external_services_by_intent

\* upsert implements the declarative catalog of RegistryCatalog: its change
\* tracking computes the net effect of the whole transaction on every
\* touched intent, one change per intent.
Catalog == INSTANCE RegistryCatalog WITH
    Config     <- Configs,
    Intent     <- Intents,
    Protected  <- {i \in Intents : ReservedNamespace(i.namespace)},
    bindings   <- external_services_by_intent,
    known      <- known_services,
    notified   <- lastBatch

RefinesCatalog == Catalog!Spec

=============================================================================
