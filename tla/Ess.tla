--------------------------------- MODULE Ess ---------------------------------
(***************************************************************************)
(* Ess<T> of src/common/src/ess.rs: the gRPC ChannelService `open` and     *)
(* `serve_subscriptions` over the EventSubSystem it wraps.                 *)
(*                                                                         *)
(* The EventSubSystem crate is not in this repository; its boundary is     *)
(* taken from how ess.rs and its tests use it: read_events registers a     *)
(* subscriber and returns its stream, register_subscriptions fails for an  *)
(* unknown subscriber and otherwise returns one Subscription per source,   *)
(* which sees the events published on its source from then on, and        *)
(* Subscription::serve forwards each with a sequence number from 1.        *)
(*                                                                         *)
(* Events are numbered per source (the value of the k-th publication on a  *)
(* source is k).  Stream items carry a `task` field naming the serving     *)
(* task that sent them; it exists only for the properties.                 *)
(***************************************************************************)
EXTENDS Naturals, Sequences, SequencesExt

CONSTANTS
    ChannelIds,   \* the ids Uuid::new_v4 may return
    Sources,      \* event ids a SubscribeIntent may name
    MaxTasks,     \* serving tasks spawned in one behaviour
    MaxPublish    \* publications per source in one behaviour

VARIABLES
    opened,       \* channel ids read_events has registered
    closed,       \* channels whose client dropped the response stream
    stream,       \* per channel: the items sent to its response stream
    tasks,        \* the spawned serving tasks, in spawn order
    published,    \* per source: publications so far
    result        \* outcome of the last serve_subscriptions

vars == <<opened, closed, stream, tasks, published, result>>

Task == [chan : ChannelIds, source : Sources, start : 0..MaxPublish,
         next : 0..MaxPublish, seq : 0..MaxPublish, done : BOOLEAN]

\* Event { source, value, seq, timestamp }, without the timestamp.
EventItem == [task : 1..MaxTasks, source : Sources, value : 1..MaxPublish,
              seq : 1..MaxPublish]

\* Ess::new: an EventSubSystem with no subscriber.
Init ==
    /\ opened = {}
    /\ closed = {}
    /\ stream = [c \in ChannelIds |-> <<>>]
    /\ tasks = <<>>
    /\ published = [e \in Sources |-> 0]
    /\ result = "Ok"

\* open: a fresh Uuid becomes the channel id, read_events registers it, and
\* the id is returned in the x-chariott-channel-id metadata.
Open(id) ==
    /\ id \notin opened
    /\ opened' = opened \cup {id}
    /\ UNCHANGED <<closed, stream, tasks, published, result>>

\* register_subscriptions succeeds only for a subscriber read_events
\* registered.
KnownSubscriber(id) == id \in opened

\* The task spawned for a subscription to `e`, seeing the publications
\* from the next one on.
\* Mutant: the serve future is created but never spawned.
NewTaskNotSpawned(id, e) ==
    [chan |-> id, source |-> e, start |-> published[e], next |-> published[e],
     seq |-> 0, done |-> TRUE]

NewTask(id, e) ==
    [chan |-> id, source |-> e, start |-> published[e], next |-> published[e],
     seq |-> 0, done |-> FALSE]

\* serve_subscriptions: register_subscriptions for the channel id and the
\* requested sources (duplicates included); an unknown channel maps to
\* FailedPrecondition, otherwise one serving task is spawned per
\* subscription, each starting at the source's next publication.
ServeSubscriptions(id, sources) ==
    /\ Len(tasks) + Len(sources) <= MaxTasks
    /\ IF KnownSubscriber(id)
       THEN /\ tasks' = tasks \o [k \in 1..Len(sources) |-> NewTask(id, sources[k])]
            /\ result' = "Ok"
       ELSE /\ result' = "FailedPrecondition"
            /\ UNCHANGED tasks
    /\ UNCHANGED <<opened, closed, stream, published>>

\* EventSubSystem::publish on one source.
Publish(e) ==
    /\ published[e] < MaxPublish
    /\ published' = [published EXCEPT ![e] = @ + 1]
    /\ UNCHANGED <<opened, closed, stream, tasks, result>>

\* The closure: the Event for task k's next publication, seq counting from 1.
\* Mutant: the closure numbers events from 0.
EventOfSeqFromZero(k) ==
    [task |-> k, source |-> tasks[k].source, value |-> tasks[k].next + 1, seq |-> tasks[k].seq]

EventOf(k) ==
    [task |-> k, source |-> tasks[k].source, value |-> tasks[k].next + 1, seq |-> tasks[k].seq + 1]

\* Subscription::serve ends when sending into the subscriber's stream fails,
\* which happens once the client has dropped it.
SendFails(k) == tasks[k].chan \in closed

\* One turn of a serving task: it receives the next publication of its
\* source and sends the Event built by the closure, with seq counting from
\* 1; when the client is gone the send fails and the task ends.
Serve(k) ==
    LET t == tasks[k] IN
    /\ ~t.done
    /\ t.next < published[t.source]
    /\ IF SendFails(k)
       THEN /\ tasks' = [tasks EXCEPT ![k].done = TRUE]
            /\ UNCHANGED stream
       ELSE /\ stream' = [stream EXCEPT ![t.chan] = Append(@, EventOf(k))]
            /\ tasks' = [tasks EXCEPT ![k].next = @ + 1, ![k].seq = @ + 1]
    /\ UNCHANGED <<opened, closed, published, result>>

\* The client drops its response stream.
Disconnect(id) ==
    /\ id \in opened \ closed
    /\ closed' = closed \cup {id}
    /\ UNCHANGED <<opened, stream, tasks, published, result>>

Next ==
    \/ \E id \in ChannelIds : Open(id) \/ Disconnect(id)
    \/ \E id \in ChannelIds, sources \in SeqOf(Sources, 2) : ServeSubscriptions(id, sources)
    \/ \E e \in Sources : Publish(e)
    \/ \E k \in 1..Len(tasks) : Serve(k)

\* Spawned tasks are run by the tokio runtime.
Spec == Init /\ [][Next]_vars /\ \A k \in 1..MaxTasks : WF_vars(k <= Len(tasks) /\ Serve(k))

-----------------------------------------------------------------------------
(* Properties.                                                             *)

TypeOK ==
    /\ opened \subseteq ChannelIds /\ closed \subseteq opened
    /\ stream \in [ChannelIds -> Seq(EventItem)]
    /\ tasks \in Seq(Task) /\ Len(tasks) <= MaxTasks
    /\ published \in [Sources -> 0..MaxPublish]
    /\ result \in {"Ok", "FailedPrecondition"}

\* Every publication on a subscribed source is eventually sent to the
\* subscriber's stream, unless the client has gone.
EventuallyServed ==
    \A k \in 1..MaxTasks, v \in 1..MaxPublish :
        (k <= Len(tasks) /\ tasks[k].start < v /\ v <= published[tasks[k].source])
            ~> (k <= Len(tasks) /\ (tasks[k].next >= v \/ tasks[k].chan \in closed))

=============================================================================
