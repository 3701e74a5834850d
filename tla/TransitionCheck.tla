--------------------------- MODULE TransitionCheck ---------------------------
(***************************************************************************)
(* The kind of change upsert reports for one intent: transition folded     *)
(* over the events upsert records for that intent, compared with the net   *)
(* effect of those events on the intent's entry in                         *)
(* external_services_by_intent.                                            *)
(*                                                                         *)
(* The behaviours enumerate every sequence of events up to MaxEvents long, *)
(* from an entry that did or did not exist before the upsert; the          *)
(* invariant checks the fold on those upsert can record.                  *)
(***************************************************************************)
EXTENDS ChangeTracking, Naturals, Sequences, SequencesExt

CONSTANT MaxEvents    \* events recorded for one intent in one upsert

VARIABLES
    existed,    \* the intent had an entry before the upsert
    events      \* the ChangeKinds recorded for the intent, in order

vars == <<existed, events>>

TheIntent == "intent"

\* TransactionalRegistryUpdate::new() and one changes.transition(intent, e)
\* per event; "None" when the intent was never tracked.
Tracked(es) ==
    LET changes == FoldLeft(LAMBDA ch, e : Transition(ch, TheIntent, e), <<>>, es)
    IN  IF TheIntent \in DOMAIN changes THEN changes[TheIntent] ELSE "None"

\* The events the entry allows, in order: Add creates a missing entry,
\* Remove and Modify change an existing one, and Remove deletes it.
RECURSIVE Possible(_, _)
Possible(present, es) ==
    IF es = <<>> THEN TRUE
    ELSE /\ (Head(es) = "Add") = ~present
         /\ Possible(Head(es) # "Remove", Tail(es))

\* The net effect on the entry: created, deleted, or changed in place.
NetEffect(present, es) ==
    LET after == IF es = <<>> THEN present ELSE Last(es) # "Remove"
    IN  CASE es = <<>>              -> "None"
          [] present /\ after       -> "Modify"
          [] present /\ ~after      -> "Remove"
          [] ~present /\ after      -> "Add"
          [] OTHER                  -> "None"

\* The events one upsert records for an intent: the retain over
\* external_services_by_intent records at most one, Remove when the entry
\* loses its last service and Modify otherwise; then the binding loop
\* records Add for a missing entry and Modify for an existing one, once per
\* occurrence of the intent in the request.
UpsertEvents(present, es) ==
    /\ Possible(present, es)
    /\ \A k \in 2..Len(es) : es[k] # "Remove"

Init ==
    /\ existed \in BOOLEAN
    /\ events = <<>>

Record(e) ==
    /\ Len(events) < MaxEvents
    /\ events' = Append(events, e)
    /\ UNCHANGED existed

Next == \E e \in Kinds : Record(e)

Spec == Init /\ [][Next]_vars

-----------------------------------------------------------------------------
(* Properties.                                                             *)

\* For every event sequence upsert can record for an intent (a prune event,
\* then the bindings, duplicates in the intent list included), the kind
\* transition leaves tracked is the net effect on the entry, and never the
\* panic! arm: observe reports the intent as added, removed or modified
\* exactly as its entry was.
TransitionIsNetEffect ==
    UpsertEvents(existed, events) => Tracked(events) = NetEffect(existed, events)

=============================================================================
