----------------------------- MODULE MCRegistry -----------------------------
(* Registry with two service ids, two endpoints, two ordinary intents and  *)
(* two reserved ones, and requests of up to two intents (so duplicates and *)
(* a reserved intent next to an ordinary one both occur).                  *)
EXTENDS Registry

CONSTANTS svcA, svcB, url1, url2

MCServiceIds == {svcA, svcB}

MCEndpoints == {url1, url2}

\* "n" and "systemx" (no separator, as long as the prefix) are accepted;
\* "System.r", "sYstem." (exactly the prefix) and "SYSTEM" are reserved.
MCIntents ==
    { [namespace |-> <<"n">>, intent |-> "read"],
      [namespace |-> <<"s", "y", "s", "t", "e", "m", "x">>, intent |-> "invoke"],
      [namespace |-> <<"S", "y", "s", "t", "e", "m", ".", "r">>, intent |-> "read"],
      [namespace |-> <<"s", "Y", "s", "t", "e", "m", ".">>, intent |-> "write"],
      [namespace |-> <<"S", "Y", "S", "T", "E", "M">>, intent |-> "read"] }

MCAsciiLower ==
    [c \in {"s", "y", "t", "e", "m", "x", "n", "r", "."} |-> c]
    @@ ("S" :> "s") @@ ("Y" :> "y") @@ ("T" :> "t") @@ ("E" :> "e") @@ ("M" :> "m")

\* The registry's own state without the observers' views: what the registry
\* does never depends on the views, so states that differ only in them are
\* merged when no checked property reads the views.
RegistryView ==
    <<external_services_by_intent, known_services, lastBatch, lastResult, panicked>>
=============================================================================
