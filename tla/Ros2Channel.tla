----------------------------- MODULE Ros2Channel -----------------------------
(***************************************************************************)
(* Ros2Channel (include/data_proxy/ros2_channel.h): the publishers and     *)
(* subscriptions it creates on demand, each map under a mutex of its own,  *)
(* used by the main thread and by coroutines on any executor thread.       *)
(*                                                                         *)
(* create_publisher, create_subscription and Publisher::publish are        *)
(* external and may throw.  will_pulish and subscribe hold their mutex     *)
(* with a lock_guard; publish locks and unlocks by hand, so an exception   *)
(* leaves publishers_mutex_ locked.  The caller is a coroutine:            *)
(* CoTask::promise_type::unhandled_exception stores the exception and the  *)
(* coroutine ends, the process goes on.                                    *)
(***************************************************************************)
EXTENDS Naturals

CONSTANTS
  Caller,      \* coroutines (and the main thread) that use the channel
  Topic,
  Nobody,      \* a mutex is free
  MayThrow,    \* TRUE: the external calls may throw
  MaxCalls     \* bound: calls per caller

Ros2Assumption ==
  Topic # {} /\ Nobody \notin Caller /\ MayThrow \in BOOLEAN /\ MaxCalls \in Nat

VARIABLES
  publishers, publishers_mutex_,     \* topics in the map; holder or Nobody
  subscribers, subscribers_mutex_,
  madePublishers, madeSubscriptions, \* history: external objects per topic
  pc, topic,                         \* per caller, see PC
  calls                              \* calls made, per caller

pubs == <<publishers, madePublishers>>
subs == <<subscribers, madeSubscriptions>>
vars == <<publishers, publishers_mutex_, subscribers, subscribers_mutex_,
          madePublishers, madeSubscriptions, pc, topic, calls>>

\* "will", "publish", "subscribe": waiting for the mutex; "*-in": holding it;
\* "*-create": the topic is not in the map; "send": publish has its publisher;
\* "ended": the coroutine died of an exception, "abandoned": and left
\* publishers_mutex_ locked.
PC == {"idle", "will", "will-in", "will-create", "publish", "publish-in",
       "publish-create", "send", "subscribe", "subscribe-in", "ended",
       "abandoned"}

Init ==
  /\ publishers = {} /\ publishers_mutex_ = Nobody
  /\ subscribers = {} /\ subscribers_mutex_ = Nobody
  /\ madePublishers = [t \in Topic |-> 0]
  /\ madeSubscriptions = [t \in Topic |-> 0]
  /\ pc = [c \in Caller |-> "idle"]
  /\ topic = [c \in Caller |-> CHOOSE t \in Topic : TRUE]
  /\ calls = [c \in Caller |-> 0]

Call(c) ==
  /\ pc[c] = "idle" /\ calls[c] < MaxCalls
  /\ \E op \in {"will", "publish", "subscribe"}, t \in Topic :
       pc' = [pc EXCEPT ![c] = op] /\ topic' = [topic EXCEPT ![c] = t]
  /\ calls' = [calls EXCEPT ![c] = @ + 1]
  /\ UNCHANGED <<publishers_mutex_, subscribers_mutex_, pubs, subs>>

\* Fault: publish takes no lock around the lookup.
LockPublishersRacy(c) ==
  /\ pc[c] \in {"will", "publish"}
  /\ pc[c] = "will" => publishers_mutex_ = Nobody
  /\ publishers_mutex_' = IF pc[c] = "will" THEN c ELSE publishers_mutex_
  /\ pc' = [pc EXCEPT ![c] = IF @ = "will" THEN "will-in" ELSE "publish-in"]
  /\ UNCHANGED <<subscribers_mutex_, pubs, subs, topic, calls>>

\* publishers_mutex_.lock(), by will_pulish's lock_guard or by publish.
LockPublishers(c) ==
  /\ pc[c] \in {"will", "publish"}
  /\ publishers_mutex_ = Nobody
  /\ publishers_mutex_' = c
  /\ pc' = [pc EXCEPT ![c] = IF @ = "will" THEN "will-in" ELSE "publish-in"]
  /\ UNCHANGED <<subscribers_mutex_, pubs, subs, topic, calls>>

\* Fault: will_pulish returns false without unlocking, as a hand-written
\* unlock would have it.
ContainsKeepsLock(c) ==
  /\ pc[c] \in {"will-in", "publish-in"}
  /\ pc' = [pc EXCEPT ![c] =
              CASE topic[c] \in publishers -> IF @ = "will-in" THEN "idle" ELSE "send"
                [] OTHER -> IF @ = "will-in" THEN "will-create" ELSE "publish-create"]
  /\ UNCHANGED <<publishers_mutex_, subscribers_mutex_, pubs, subs, topic, calls>>

\* publishers.contains(topic): then will_pulish returns false, releasing the
\* lock, and publish goes on to use the publisher.
Contains(c) ==
  /\ \/ /\ pc[c] = "will-in" /\ topic[c] \in publishers
        /\ pc' = [pc EXCEPT ![c] = "idle"] /\ publishers_mutex_' = Nobody
     \/ /\ pc[c] = "publish-in" /\ topic[c] \in publishers
        /\ pc' = [pc EXCEPT ![c] = "send"] /\ UNCHANGED publishers_mutex_
     \/ /\ pc[c] \in {"will-in", "publish-in"} /\ topic[c] \notin publishers
        /\ pc' = [pc EXCEPT ![c] = IF @ = "will-in" THEN "will-create"
                                   ELSE "publish-create"]
        /\ UNCHANGED publishers_mutex_
  /\ UNCHANGED <<subscribers_mutex_, pubs, subs, topic, calls>>

\* publishers[topic] = create_publisher(...), created before it is stored.
CreatePublisher(c) ==
  /\ pc[c] \in {"will-create", "publish-create"}
  /\ publishers' = publishers \cup {topic[c]}
  /\ madePublishers' = [madePublishers EXCEPT ![topic[c]] = @ + 1]
  /\ IF pc[c] = "will-create"
     THEN pc' = [pc EXCEPT ![c] = "idle"] /\ publishers_mutex_' = Nobody
     ELSE pc' = [pc EXCEPT ![c] = "send"] /\ UNCHANGED publishers_mutex_
  /\ UNCHANGED <<subscribers_mutex_, subs, topic, calls>>

\* create_publisher throws: the lock_guard of will_pulish releases the mutex.
CreateThrows(c) ==
  /\ MayThrow
  /\ \/ /\ pc[c] = "will-create"
        /\ pc' = [pc EXCEPT ![c] = "ended"] /\ publishers_mutex_' = Nobody
     \/ /\ pc[c] = "publish-create"
        /\ pc' = [pc EXCEPT ![c] = "abandoned"] /\ UNCHANGED publishers_mutex_
  /\ UNCHANGED <<subscribers_mutex_, pubs, subs, topic, calls>>

\* pub->publish(msg), then unlock() unless it threw.
Send(c) ==
  /\ pc[c] = "send"
  /\ \/ pc' = [pc EXCEPT ![c] = "idle"] /\ publishers_mutex_' = Nobody
     \/ /\ MayThrow
        /\ pc' = [pc EXCEPT ![c] = "abandoned"]
        /\ UNCHANGED publishers_mutex_
  /\ UNCHANGED <<subscribers_mutex_, pubs, subs, topic, calls>>

LockSubscribers(c) ==
  /\ pc[c] = "subscribe"
  /\ subscribers_mutex_ = Nobody
  /\ subscribers_mutex_' = c
  /\ pc' = [pc EXCEPT ![c] = "subscribe-in"]
  /\ UNCHANGED <<publishers_mutex_, pubs, subs, topic, calls>>

\* Fault: an exception of create_subscription leaves the mutex locked.
SubscribeKeepsLock(c) ==
  /\ pc[c] = "subscribe-in"
  /\ \/ /\ topic[c] \in subscribers /\ subscribers_mutex_' = Nobody
        /\ pc' = [pc EXCEPT ![c] = "idle"] /\ UNCHANGED subs
     \/ /\ topic[c] \notin subscribers /\ MayThrow
        /\ pc' = [pc EXCEPT ![c] = "ended"]
        /\ UNCHANGED <<subscribers_mutex_, subs>>
  /\ UNCHANGED <<publishers_mutex_, pubs, topic, calls>>

\* subscribe under the lock_guard.
Subscribe(c) ==
  /\ pc[c] = "subscribe-in"
  /\ subscribers_mutex_' = Nobody
  /\ \/ /\ topic[c] \in subscribers
        /\ pc' = [pc EXCEPT ![c] = "idle"] /\ UNCHANGED subs
     \/ /\ topic[c] \notin subscribers
        /\ subscribers' = subscribers \cup {topic[c]}
        /\ madeSubscriptions' = [madeSubscriptions EXCEPT ![topic[c]] = @ + 1]
        /\ pc' = [pc EXCEPT ![c] = "idle"]
     \/ /\ topic[c] \notin subscribers /\ MayThrow
        /\ pc' = [pc EXCEPT ![c] = "ended"] /\ UNCHANGED subs
  /\ UNCHANGED <<publishers_mutex_, pubs, topic, calls>>

Step(c) ==
  \/ LockPublishers(c) \/ Contains(c) \/ CreatePublisher(c) \/ CreateThrows(c)
  \/ Send(c)
  \/ LockSubscribers(c) \/ Subscribe(c)

Next == \E c \in Caller : Call(c) \/ Step(c)

Spec == Init /\ [][Next]_vars

(***************************************************************************)
(* Properties                                                              *)
(***************************************************************************)
\* Types; each map lists the topics an object was created for.
TypeOK ==
  /\ publishers \in SUBSET Topic /\ subscribers \in SUBSET Topic
  /\ publishers_mutex_ \in Caller \cup {Nobody}
  /\ subscribers_mutex_ \in Caller \cup {Nobody}
  /\ madePublishers \in [Topic -> Nat] /\ madeSubscriptions \in [Topic -> Nat]
  /\ pc \in [Caller -> PC] /\ topic \in [Caller -> Topic]
  /\ calls \in [Caller -> 0..MaxCalls]
  /\ publishers = {t \in Topic : madePublishers[t] > 0}
  /\ subscribers = {t \in Topic : madeSubscriptions[t] > 0}

\* However will_pulish, publish and subscribe interleave on the executor's
\* threads, a topic gets one publisher (a second would replace the one whose
\* pointer publish is using) and one subscription (a second would push every
\* message of the topic to the bus twice).
OnePerTopic ==
  \A t \in Topic : madePublishers[t] <= 1 /\ madeSubscriptions[t] <= 1

\* A mutex nobody can release: held by a caller that is not in the function
\* that locked it.  Exceptions do this to publishers_mutex_ only, and only in
\* publish; subscribers_mutex_ always comes back.
OnlyPublishAbandons ==
  \A c \in Caller :
    /\ publishers_mutex_ = c =>
         pc[c] \in {"will-in", "will-create", "publish-in", "publish-create",
                    "send", "abandoned"}
    /\ subscribers_mutex_ = c => pc[c] = "subscribe-in"

\* Every call returns or throws, unless some publish threw before: after that,
\* will_pulish and publish wait forever and only subscribe still returns.
CallsReturn ==
  \A c \in Caller :
    /\ pc[c] \in {"will", "publish"} ~>
         pc[c] \in {"idle", "ended"} \/ \E d \in Caller : pc[d] = "abandoned"
    /\ pc[c] = "subscribe" ~> pc[c] \in {"idle", "ended"}
===============================================================================
