--------------------------- MODULE ChangeTracking ---------------------------
(***************************************************************************)
(* TransactionalRegistryUpdate::transition of src/src/registry.rs, lines   *)
(* 83-120: the kind of change recorded for an intent within one upsert,    *)
(* merged with each further change to the same intent.  A map from intent  *)
(* to kind is a TLA+ function; the panic! arm yields the value Bug.        *)
(***************************************************************************)
EXTENDS TLC

Kinds == {"Add", "Remove", "Modify"}

Bug == "Bug"    \* the panic! arm of TransactionalRegistryUpdate::transition

\* The merge rule of transition: (from, to) -> value; any pair missing here
\* reaches the panic! arm.
\* Mutant: the (Remove, Add) row is missing.
TransitionTableNoReAdd ==
    (<<"Modify", "Modify">> :> "Modify") @@ (<<"Add", "Modify">> :> "Add")

\* Mutant: (Add, Modify) resolves to Modify instead of keeping Add.
TransitionTableAddThenModify ==
    (<<"Remove", "Add">> :> "Modify")
    @@ (<<"Modify", "Modify">> :> "Modify")
    @@ (<<"Add", "Modify">> :> "Modify")

TransitionTable ==
    (<<"Remove", "Add">> :> "Modify")
    @@ (<<"Modify", "Modify">> :> "Modify")
    @@ (<<"Add", "Modify">> :> "Add")

Transition(changes, intent, to) ==
    LET value == CASE intent \notin DOMAIN changes -> to
                   [] <<changes[intent], to>> \in DOMAIN TransitionTable
                        -> TransitionTable[<<changes[intent], to>>]
                   [] OTHER -> Bug
    IN  (intent :> value) @@ changes
=============================================================================
