----------------------------- MODULE MqttChannel -----------------------------
(***************************************************************************)
(* MqttChannel (include/data_proxy/mqtt_channel.h) and its one user,       *)
(* SchedulerLogic::init: the topics the channel remembers, what it does    *)
(* when the connection breaks and comes back, and the race between         *)
(* subscribe() on the main thread and on_connect on the mosquitto thread.  *)
(*                                                                         *)
(* The mosquitto library and the broker are external.  The channel uses    *)
(* mosquittopp's default constructor, which asks for a clean session: the  *)
(* broker forgets the subscriptions of a connection when it ends.          *)
(* subscribe() fails while there is no socket; loop_forever reconnects     *)
(* until it succeeds.  publish() changes nothing in the channel.           *)
(***************************************************************************)
EXTENDS Naturals

CONSTANTS
  Topic,       \* topics SchedulerLogic::init subscribes to
  MaxLosses    \* bound: connections lost

\* SchedulerLogic::init subscribes to at least one topic.
MqttAssumption == Topic # {} /\ MaxLosses \in Nat

VARIABLES
  main,               \* LogicMgr::start: "init", "start", "subscribe", "done"
  todo,               \* topics SchedulerLogic::init has not passed yet
  refused,            \* topics for which subscribe() returned false
  call, topic,        \* per thread: where it is in subscribe(), with what
  subscribe_topics_, disconnected_,
  loop,               \* the mosquitto thread: "unborn", "idle", "iterate"
  visit,              \* topics on_connect has still to pass to subscribe()
  torn,               \* history: insert() ran while on_connect iterated
  link,               \* external, the socket: see Link
  asked, granted,     \* external: SUBSCRIBEs under way / held by the broker
  losses              \* connections lost so far

chan == <<subscribe_topics_, disconnected_>>
user == <<main, todo>>
net == <<link, asked, granted, losses>>
vars == <<main, todo, refused, call, topic, subscribe_topics_, disconnected_,
          loop, visit, torn, link, asked, granted, losses>>

Thread == {"main", "loop"}

\* "nohost": init never got to connect(); "none": no socket; "open": CONNECT
\* sent; "up": CONNACK received; "broken": lost, and not noticed yet.
Link == {"nohost", "none", "open", "up", "broken"}

Init ==
  /\ main = "init" /\ todo = Topic /\ refused = {}
  /\ call = [th \in Thread |-> "out"]
  /\ topic = [th \in Thread |-> CHOOSE t \in Topic : TRUE]
  /\ subscribe_topics_ = {} /\ disconnected_ = FALSE
  /\ loop = "unborn" /\ visit = {} /\ torn = FALSE
  /\ link = "nohost" /\ asked = {} /\ granted = {} /\ losses = 0

\* init(): username_pw_set fails, or connect() fails, or both succeed.  Its
\* result is false in every case (`return r` with r = MOSQ_ERR_SUCCESS = 0),
\* and LogicMgr::start ignores it.
Connect ==
  /\ main = "init"
  /\ main' = "start"
  /\ link' \in {"nohost", "none", "open"}
  /\ UNCHANGED <<todo, refused, call, topic, chan, loop, visit, torn, asked,
                 granted, losses>>

\* ThreadTask::start: the thread of loop_forever.
StartLoop ==
  /\ main = "start"
  /\ main' = "subscribe"
  /\ loop' = "idle"
  /\ UNCHANGED <<todo, refused, call, topic, chan, visit, torn, net>>

\* SchedulerLogic::init: the next subscribe() call, or none left.
NextSubscribe ==
  /\ main = "subscribe" /\ call["main"] = "out"
  /\ \/ /\ todo = {} /\ main' = "done"
        /\ UNCHANGED <<todo, call, topic>>
     \/ \E t \in todo :
          /\ todo' = todo \ {t}
          /\ topic' = [topic EXCEPT !["main"] = t]
          /\ call' = [call EXCEPT !["main"] = "test"]
          /\ UNCHANGED main
  /\ UNCHANGED <<refused, chan, loop, visit, torn, net>>

(***************************************************************************)
(* subscribe(topic), on either thread                                      *)
(***************************************************************************)
\* Fault: the test is the wrong way round.
ContainsInverted(th) ==
  /\ call[th] = "test"
  /\ call' = [call EXCEPT ![th] =
                IF topic[th] \in subscribe_topics_ THEN "ask" ELSE "out"]
  /\ UNCHANGED <<user, refused, topic, chan, loop, visit, torn, net>>

\* `if (subscribe_topics_.contains(topic)) return true`
Contains(th) ==
  /\ call[th] = "test"
  /\ call' = [call EXCEPT ![th] =
                IF topic[th] \in subscribe_topics_ THEN "out" ELSE "ask"]
  /\ UNCHANGED <<user, refused, topic, chan, loop, visit, torn, net>>

\* Fault: the error of the library is logged and then forgotten.
AskUnchecked(th) ==
  /\ call[th] = "ask"
  /\ call' = [call EXCEPT ![th] = "insert"]
  /\ asked' = IF link \in {"open", "up"} THEN asked \cup {topic[th]} ELSE asked
  /\ UNCHANGED <<user, refused, topic, chan, loop, visit, torn, link, granted,
                 losses>>

\* mosquittopp::subscribe: fails without a socket, may fail otherwise; on a
\* connection that is lost already it succeeds and the packet goes nowhere.
Ask(th) ==
  /\ call[th] = "ask"
  /\ \/ /\ refused' = refused \cup {topic[th]}
        /\ call' = [call EXCEPT ![th] = "out"]
        /\ UNCHANGED asked
     \/ /\ link \in {"open", "up", "broken"}
        /\ call' = [call EXCEPT ![th] = "insert"]
        /\ asked' = IF link = "broken" THEN asked ELSE asked \cup {topic[th]}
        /\ UNCHANGED refused
  /\ UNCHANGED <<user, topic, chan, loop, visit, torn, link, granted, losses>>

\* subscribe_topics_.insert(topic), with no lock: an insertion during
\* on_connect's iteration is a data race, after which the iteration may visit
\* anything.
Insert(th) ==
  /\ call[th] = "insert"
  /\ call' = [call EXCEPT ![th] = "out"]
  /\ subscribe_topics_' = subscribe_topics_ \cup {topic[th]}
  /\ IF loop = "iterate" /\ topic[th] \notin subscribe_topics_
     THEN torn' = TRUE /\ visit' \in SUBSET subscribe_topics_'
     ELSE UNCHANGED <<torn, visit>>
  /\ UNCHANGED <<user, refused, topic, disconnected_, loop, net>>

(***************************************************************************)
(* The mosquitto thread                                                    *)
(***************************************************************************)
\* The broker's answer to CONNECT: accepted, or refused and then closed.
Connack ==
  /\ loop = "idle" /\ link = "open"
  /\ \/ link' = "up" /\ UNCHANGED <<asked, granted, losses>>
     \/ /\ link' = "broken" /\ losses < MaxLosses
        /\ asked' = {} /\ granted' = {} /\ losses' = losses + 1

\* Fault: on_connect always goes through the topics.
OnConnectAlways ==
  /\ Connack
  /\ loop' = "iterate" /\ visit' = subscribe_topics_
  /\ UNCHANGED <<user, refused, call, topic, chan, torn>>

\* on_connect(rc): rc is only logged, a refused connection is treated like an
\* accepted one.
OnConnect ==
  /\ Connack
  /\ IF disconnected_
     THEN loop' = "iterate" /\ visit' = subscribe_topics_
     ELSE UNCHANGED <<loop, visit>>
  /\ UNCHANGED <<user, refused, call, topic, chan, torn>>

\* Fault: the callback returns with its last subscribe() still under way.
IterateLeaves ==
  /\ loop = "iterate" /\ call["loop"] = "out"
  /\ \E t \in visit :
       /\ visit' = visit \ {t}
       /\ topic' = [topic EXCEPT !["loop"] = t]
       /\ call' = [call EXCEPT !["loop"] = "test"]
       /\ loop' = IF visit' = {} THEN "idle" ELSE "iterate"
  /\ UNCHANGED <<user, refused, chan, torn, net>>

\* `for (const auto& topic : subscribe_topics_) subscribe(topic)`
Iterate ==
  /\ loop = "iterate" /\ call["loop"] = "out"
  /\ \/ /\ visit = {} /\ loop' = "idle"
        /\ UNCHANGED <<visit, call, topic>>
     \/ \E t \in visit :
          /\ visit' = visit \ {t}
          /\ topic' = [topic EXCEPT !["loop"] = t]
          /\ call' = [call EXCEPT !["loop"] = "test"]
          /\ UNCHANGED loop
  /\ UNCHANGED <<user, refused, chan, torn, net>>

\* The library notices the loss and calls on_disconnect; disconnected_ is
\* never reset.
OnDisconnect ==
  /\ loop = "idle" /\ link = "broken"
  /\ link' = "none"
  /\ disconnected_' = TRUE
  /\ UNCHANGED <<user, refused, call, topic, subscribe_topics_, loop, visit,
                 torn, asked, granted, losses>>

(***************************************************************************)
(* External: loop_forever's reconnection, the broker, the network          *)
(***************************************************************************)
Reconnect ==
  /\ loop = "idle" /\ link = "none"
  /\ link' = "open"
  /\ UNCHANGED <<user, refused, call, topic, chan, loop, visit, torn, asked,
                 granted, losses>>

Grant(t) ==
  /\ link = "up" /\ t \in asked
  /\ asked' = asked \ {t} /\ granted' = granted \cup {t}
  /\ UNCHANGED <<user, refused, call, topic, chan, loop, visit, torn, link,
                 losses>>

Lose ==
  /\ link \in {"open", "up"} /\ losses < MaxLosses
  /\ link' = "broken" /\ asked' = {} /\ granted' = {}
  /\ losses' = losses + 1
  /\ UNCHANGED <<user, refused, call, topic, chan, loop, visit, torn>>

Done ==
  /\ main = "done" /\ call["main"] = "out"
  /\ UNCHANGED vars

Next ==
  \/ Connect \/ StartLoop \/ NextSubscribe
  \/ \E th \in Thread : Contains(th) \/ Ask(th) \/ Insert(th)
  \/ OnConnect \/ Iterate \/ OnDisconnect \/ Reconnect
  \/ \E t \in Topic : Grant(t)
  \/ Lose \/ Done

Spec == Init /\ [][Next]_vars

(***************************************************************************)
(* Properties                                                              *)
(***************************************************************************)
\* Types; the mosquitto thread is in subscribe() only from on_connect.
TypeOK ==
  /\ main \in {"init", "start", "subscribe", "done"}
  /\ todo \in SUBSET Topic /\ refused \in SUBSET Topic
  /\ call \in [Thread -> {"out", "test", "ask", "insert"}]
  /\ topic \in [Thread -> Topic]
  /\ subscribe_topics_ \in SUBSET Topic /\ disconnected_ \in BOOLEAN
  /\ loop \in {"unborn", "idle", "iterate"} /\ visit \in SUBSET Topic
  /\ torn \in BOOLEAN /\ link \in Link
  /\ asked \in SUBSET Topic /\ granted \in SUBSET Topic
  /\ losses \in 0..MaxLosses
  /\ call["loop"] # "out" => loop = "iterate"

\* subscribe_topics_ has no lock, and the initial connection is acknowledged
\* while SchedulerLogic::init is inserting into it: only the test of
\* disconnected_ in on_connect keeps the two threads apart.  The set is
\* iterated and inserted into at once only after a connection was lost.
RaceNeedsReconnect == torn => disconnected_

\* Until the first connection is lost, a topic is remembered only when its
\* SUBSCRIBE has been handed to the library, although the subscription, the
\* CONNACK and the insertion interleave freely.
FirstSessionComplete ==
  losses = 0 => subscribe_topics_ \subseteq asked \cup granted

\* SchedulerLogic::init ignores the results of subscribe(), so nothing retries:
\* every topic ends up subscribed at the broker unless a subscribe() failed
\* (as all do when init() did not connect) or a connection was lost.
Heard == granted = Topic \/ refused # {} \/ losses > 0
EventuallyHeard == <>Heard
===============================================================================
