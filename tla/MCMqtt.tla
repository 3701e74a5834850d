------------------------------- MODULE MCMqtt -------------------------------
(* Topic filters for MqttMessaging: exact filters select their own topic;  *)
(* the wildcard filter (as "bridge/+" would) selects both topics.          *)
EXTENDS MqttMessaging, TLC

CONSTANTS t1, t2, wild

ExactFilters == [t \in {t1, t2} |-> {t}]

WildcardFilter == wild :> {t1, t2}
=============================================================================
