--------------------------- MODULE RegistryCatalog ---------------------------
(***************************************************************************)
(* What Registry::upsert (src/src/registry.rs) promises, stated without    *)
(* the change-tracking machinery: one upsert is one atomic step that       *)
(*   - is rejected, leaving the catalog unchanged and notifying nobody,    *)
(*     when any requested intent is protected;                             *)
(*   - otherwise replaces every binding of the service's id by bindings    *)
(*     of the new configuration to exactly the requested intents, keeps    *)
(*     one known configuration per id, and notifies the net effect on      *)
(*     each intent it touched: Add (absent before), Remove (absent after)  *)
(*     or Modify (present before and after), with the final service set.   *)
(* `notified` is the batch handed to the observer by the last upsert, or   *)
(* {} when the observer was not called.                                    *)
(***************************************************************************)
EXTENDS FiniteSets, Sequences, SequencesExt

CONSTANTS
    Config,       \* service configurations, records with an `id` field
    Intent,       \* intent configurations a request may name
    Protected,    \* the intents in the reserved namespace
    MaxIntents    \* longest intent list of one request

VARIABLES bindings, known, notified

vars == <<bindings, known, notified>>

Requests == SeqOf(Intent, MaxIntents)

\* Services bound to intent i before the step, {} when i has no entry.
BoundTo(i) == IF i \in DOMAIN bindings THEN bindings[i] ELSE {}

Init ==
    /\ bindings = [i \in {} |-> {}]
    /\ known = {}
    /\ notified = {}

UpsertRejected(c, ics) ==
    /\ ToSet(ics) \cap Protected # {}
    /\ notified' = {}
    /\ UNCHANGED <<bindings, known>>

UpsertCommitted(c, ics) ==
    LET NewSet(i) == {s \in BoundTo(i) : s.id # c.id}
                        \cup (IF i \in ToSet(ics) THEN {c} ELSE {})
        after     == {i \in DOMAIN bindings \cup ToSet(ics) : NewSet(i) # {}}
        touched   == {i \in DOMAIN bindings : \E s \in bindings[i] : s.id = c.id}
                        \cup ToSet(ics)
        Net(i)    == CASE i \notin DOMAIN bindings
                            -> [kind |-> "Add", intent |-> i, services |-> NewSet(i)]
                       [] i \notin after
                            -> [kind |-> "Remove", intent |-> i, services |-> {}]
                       [] OTHER
                            -> [kind |-> "Modify", intent |-> i, services |-> NewSet(i)]
    IN  /\ ToSet(ics) \cap Protected = {}
        /\ bindings' = [i \in after |-> NewSet(i)]
        /\ known' = {s \in known : s.id # c.id} \cup {c}
        /\ notified' = {Net(i) : i \in touched}

Next == \E c \in Config, ics \in Requests :
            UpsertRejected(c, ics) \/ UpsertCommitted(c, ics)

Spec == Init /\ [][Next]_vars
=============================================================================
