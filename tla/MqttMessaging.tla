---------------------------- MODULE MqttMessaging ----------------------------
(***************************************************************************)
(* MqttMessaging of src/car-bridge/src/messaging.rs: one paho AsyncClient, *)
(* the bounded async_channel that client.get_stream creates, and the       *)
(* streams Subscriber::subscribe builds on clones of its receiver.         *)
(*                                                                         *)
(* The environment is paho and the broker: once connected, the broker      *)
(* sends messages on subscribed topics; paho's message callback try_sends  *)
(* them into the channel (dropping them when it is full) and its           *)
(* connection-lost callback try_sends None.  async_channel is              *)
(* multi-consumer: a message is received by exactly one receiver clone.   *)
(*                                                                         *)
(* connect asks for MQTT v5 and sets no Session Expiry Interval, so the    *)
(* broker ends the session, and its subscriptions, when the network        *)
(* connection closes: every connection starts with no subscription, and    *)
(* nothing is held for the client while it is offline.                     *)
(*                                                                         *)
(* subscribe hands its `topic` argument to the broker as a topic filter;   *)
(* Matches gives the topics each filter selects.  The car-bridge process   *)
(* may restart (MaxRestarts).                                              *)
(*                                                                         *)
(* A message is an id 1..MaxMessages; its fate records where it ended.     *)
(***************************************************************************)
EXTENDS Naturals, Sequences, FiniteSets, SequencesExt

CONSTANTS
    Streams,          \* callers of subscribe, one stream each
    Topics,           \* topic names messages are published on
    Matches,          \* topic filter -> the topics it selects
    Capacity,         \* MQTT_CLIENT_BUFFER_SIZE (200 in the code)
    MaxMessages,      \* messages the broker sends in one behaviour
    MaxDisconnects,   \* connection losses in one behaviour
    MaxRestarts,      \* restarts of the car-bridge process in one behaviour
    None              \* the None paho sends on connection loss

ASSUME Capacity \in Nat \ {0} /\ MaxMessages \in Nat
ASSUME MaxDisconnects \in Nat /\ MaxRestarts \in Nat

VARIABLES
    clientPc,      \* connect: "created" -> "streaming" -> "connected" | "failed"
    pc,            \* per stream: "idle", "awaiting", "orphaned", "acked", "active", "failed"
    topicOf,       \* per stream: the topic (filter) passed to subscribe
    channel,       \* the async_channel buffer: message ids and None
    publishResult, \* what the last publish returned
    connected,     \* the client is connected to the broker
    brokerSubs,    \* topic filters of the client's session at the broker
    sent,          \* messages the broker has sent so far
    msgTopic,      \* topic of each sent message
    fate,          \* per message, see Fates
    disconnects,   \* connection losses so far
    restarts       \* process restarts so far

clientVars == <<clientPc, pc, topicOf, channel, publishResult>>
brokerVars == <<connected, brokerSubs>>
msgVars    == <<sent, msgTopic, fate>>
countVars  == <<disconnects, restarts>>
vars       == <<clientVars, brokerVars, msgVars, countVars>>

Msgs == 1..MaxMessages

Filters == DOMAIN Matches

NoTopic == "none"

\* "queued": in the channel;
\* "overflow": dropped by try_send on a full channel; "lost": in the channel
\* when the process restarted.
Fates == {"unsent", "queued", "yielded", "filtered", "overflow", "lost"}

\* Process memory of a freshly started car-bridge, before MqttMessaging::connect.
ClientInit ==
    /\ clientPc = "created"
    /\ pc = [s \in Streams |-> "idle"]
    /\ topicOf = [s \in Streams |-> NoTopic]
    /\ channel = <<>>
    /\ publishResult = "none"

Init ==
    /\ ClientInit
    /\ connected = FALSE /\ brokerSubs = {}
    /\ sent = 0
    /\ msgTopic = [m \in Msgs |-> NoTopic]
    /\ fate = [m \in Msgs |-> "unsent"]
    /\ disconnects = 0 /\ restarts = 0

-----------------------------------------------------------------------------
(* MqttMessaging::connect, lines 45-86.                                    *)

\* client.get_stream(MQTT_CLIENT_BUFFER_SIZE), before connecting.
GetStream ==
    /\ clientPc = "created"
    /\ clientPc' = "streaming"
    /\ UNCHANGED <<pc, topicOf, channel, publishResult, brokerVars, msgVars, countVars>>

\* client.connect(...).await succeeds, with the client id
\* "car-bridge-{client_id}"; the broker starts a session with no
\* subscription.
Connect ==
    /\ clientPc = "streaming"
    /\ clientPc' = "connected"
    /\ connected' = TRUE
    /\ UNCHANGED <<pc, topicOf, channel, publishResult, brokerSubs, msgVars, countVars>>

\* AsyncClient::new (line 66) or client.connect(...).await (line 83)
\* fails: connect returns Err.
ConnectFailed ==
    /\ clientPc \in {"created", "streaming"}
    /\ clientPc' = "failed"
    /\ UNCHANGED <<pc, topicOf, channel, publishResult, brokerVars, msgVars, countVars>>

-----------------------------------------------------------------------------
(* Subscriber::subscribe, lines 94-121, and Publisher::publish, 129-131.   *)

\* client.subscribe(topic, QOS_2) is sent; the caller awaits it.  While the
\* connection is down nothing reaches the broker ("orphaned").
Subscribe(s, t) ==
    /\ clientPc = "connected"
    /\ pc[s] = "idle"
    /\ pc' = [pc EXCEPT ![s] = IF connected THEN "awaiting" ELSE "orphaned"]
    /\ topicOf' = [topicOf EXCEPT ![s] = t]
    /\ UNCHANGED <<clientPc, channel, publishResult, brokerVars, msgVars, countVars>>

\* The broker grants the subscription sent on the live connection;
\* deliveries may start before the awaiting caller resumes.
SubscribeGranted(s) ==
    /\ pc[s] = "awaiting"
    /\ connected
    /\ brokerSubs' = brokerSubs \cup {topicOf[s]}
    /\ pc' = [pc EXCEPT ![s] = "acked"]
    /\ UNCHANGED <<clientPc, topicOf, channel, publishResult, connected,
                   msgVars, countVars>>

\* The await fails (map_err_with): subscribe returns Err, no stream.  paho
\* fails the token of a subscribe that no live connection carries; it may
\* also leave it pending, so this step is not assumed to happen.
SubscribeFailed(s) ==
    /\ pc[s] = "orphaned"
    /\ pc' = [pc EXCEPT ![s] = "failed"]
    /\ UNCHANGED <<clientPc, topicOf, channel, publishResult, brokerVars, msgVars, countVars>>

\* The caller resumes: receiver.clone() and the stream is returned.
SubscribeReturns(s) ==
    /\ pc[s] = "acked"
    /\ pc' = [pc EXCEPT ![s] = "active"]
    /\ UNCHANGED <<clientPc, topicOf, channel, publishResult, brokerVars, msgVars, countVars>>

\* Line 108: a message is kept only if its topic equals the string passed
\* to subscribe.
Keeps(s, m) == msgTopic[m] = topicOf[s]

\* Lines 106-117: the loop goes on after every item, None included.
\* Mutant: `while let Some(Some(message))`, the stream ends on None.
LoopAfterEndsOnNone(s, m) == IF m = None THEN "ended" ELSE pc[s]

LoopAfter(s, m) == pc[s]

\* One turn of the stream! loop: receiver.next().await takes the head of
\* the shared channel; a message on the stream's topic is yielded, any other
\* message is dropped, None is logged.
Receive(s) ==
    /\ pc[s] = "active"
    /\ channel # <<>>
    /\ LET m == Head(channel) IN
         /\ fate' = IF m = None THEN fate
                    ELSE [fate EXCEPT ![m] = IF Keeps(s, m) THEN "yielded" ELSE "filtered"]
         /\ pc' = [pc EXCEPT ![s] = LoopAfter(s, m)]
    /\ channel' = Tail(channel)
    /\ UNCHANGED <<clientPc, topicOf, publishResult, brokerVars, sent, msgTopic, countVars>>

\* client.publish(...).await: without offline buffering configured, paho
\* refuses to publish while the connection is down and publish returns Err.
Publish ==
    /\ clientPc = "connected"
    /\ publishResult' = IF connected THEN "Ok" ELSE "Err"
    /\ UNCHANGED <<clientPc, pc, topicOf, channel, brokerVars, msgVars, countVars>>

-----------------------------------------------------------------------------
(* Environment: the broker, paho's callbacks, the car-bridge process.     *)

\* The broker sends the next message on a topic some filter of the session
\* matches (QoS 2), and paho's message callback try_sends it into the
\* channel, dropping it when the channel is full.
BrokerSend(t) ==
    /\ connected
    /\ \E f \in brokerSubs : t \in Matches[f]
    /\ sent < MaxMessages
    /\ LET m == sent + 1 IN
         /\ sent' = m
         /\ msgTopic' = [msgTopic EXCEPT ![m] = t]
         /\ IF Len(channel) >= Capacity
            THEN /\ fate' = [fate EXCEPT ![m] = "overflow"]
                 /\ UNCHANGED channel
            ELSE /\ fate' = [fate EXCEPT ![m] = "queued"]
                 /\ channel' = Append(channel, m)
    /\ UNCHANGED <<clientPc, pc, topicOf, publishResult, connected, brokerSubs, countVars>>

\* The connection drops: the session ends with it (no Session Expiry
\* Interval), a subscribe in flight is orphaned, and the connection-lost
\* callback try_sends None.
ConnectionLost ==
    /\ connected
    /\ disconnects < MaxDisconnects
    /\ connected' = FALSE
    /\ disconnects' = disconnects + 1
    /\ brokerSubs' = {}
    /\ pc' = [s \in Streams |-> IF pc[s] = "awaiting" THEN "orphaned" ELSE pc[s]]
    /\ channel' = IF Len(channel) < Capacity THEN Append(channel, None) ELSE channel
    /\ UNCHANGED <<clientPc, topicOf, publishResult, msgVars, restarts>>

\* automatic_reconnect: the client connects again and the broker starts a
\* new session; nothing in the code subscribes again.
Reconnect ==
    /\ clientPc = "connected"
    /\ ~connected
    /\ connected' = TRUE
    /\ UNCHANGED <<clientPc, pc, topicOf, channel, publishResult, brokerSubs, msgVars, countVars>>

\* The car-bridge process ends (Drop's best-effort disconnect, or a crash)
\* and starts again.  Its memory is gone, the messages in the channel with
\* it, and its connection and session with the broker.
Restart ==
    /\ clientPc # "created"
    /\ restarts < MaxRestarts
    /\ restarts' = restarts + 1
    /\ clientPc' = "created" /\ channel' = <<>> /\ publishResult' = "none"
    /\ pc' = [s \in Streams |-> "idle"] /\ topicOf' = [s \in Streams |-> NoTopic]
    /\ connected' = FALSE /\ brokerSubs' = {}
    /\ fate' = [m \in Msgs |-> IF fate[m] = "queued" THEN "lost" ELSE fate[m]]
    /\ UNCHANGED <<sent, msgTopic, disconnects>>

Next ==
    \/ GetStream \/ Connect \/ ConnectFailed \/ Publish
    \/ \E s \in Streams, f \in Filters : Subscribe(s, f)
    \/ \E s \in Streams :
         SubscribeGranted(s) \/ SubscribeFailed(s) \/ SubscribeReturns(s) \/ Receive(s)
    \/ \E t \in Topics : BrokerSend(t)
    \/ ConnectionLost \/ Reconnect \/ Restart

\* The owner of each returned stream keeps polling it, and the runtime keeps
\* driving the connection and the subscribe round trip.
Fairness ==
    /\ \A s \in Streams : WF_vars(Receive(s)) /\ WF_vars(SubscribeReturns(s))
    /\ WF_vars(Reconnect)

Spec == Init /\ [][Next]_vars /\ Fairness

-----------------------------------------------------------------------------
(* Properties.                                                             *)

TypeOK ==
    /\ clientPc \in {"created", "streaming", "connected", "failed"}
    /\ pc \in [Streams -> {"idle", "awaiting", "orphaned", "acked", "active", "failed"}]
    /\ topicOf \in [Streams -> Filters \cup {NoTopic}]
    /\ channel \in Seq(Msgs \cup {None}) /\ Len(channel) <= Capacity
    /\ publishResult \in {"none", "Ok", "Err"}
    /\ connected \in BOOLEAN
    /\ brokerSubs \in SUBSET Filters
    /\ sent \in 0..MaxMessages
    /\ msgTopic \in [Msgs -> Topics \cup {NoTopic}]
    /\ fate \in [Msgs -> Fates]
    /\ disconnects \in 0..MaxDisconnects /\ restarts \in 0..MaxRestarts

\* No message the broker delivers on a subscribed topic is thrown away by a
\* stream: whichever receiver clone takes it off the shared channel is the
\* stream of its topic (the QoS 2 comment of subscribe: the requests these
\* messages carry must arrive).
NoMessageFiltered == \A m \in Msgs : fate[m] # "filtered"

\* Every message accepted into the channel is eventually yielded by a stream,
\* across connection losses (the None paho sends is logged and the stream
\* keeps reading), unless the process restarts first.
QueuedEventuallyYielded ==
    \A m \in Msgs : fate[m] = "queued" ~> fate[m] \in {"yielded", "lost"}

\* Every stream subscribe has returned keeps receiving its topic: the broker
\* still holds its subscription whenever the client is connected, across
\* connection losses and automatic reconnects (what the comment at lines
\* 51-54 expects of session persistence).
StreamsStaySubscribed ==
    connected => \A s \in Streams : pc[s] = "active" => topicOf[s] \in brokerSubs

\* No message the broker sent is lost to a restart of car-bridge while the
\* number of outstanding messages stays within the buffer (the comment
\* before get_stream: only more outstanding messages than the buffer holds
\* may be lost).
NoLossWithinBuffer == \A m \in Msgs : fate[m] # "lost"

=============================================================================
