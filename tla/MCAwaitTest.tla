----------------------------- MODULE MCAwaitTest -----------------------------
(***************************************************************************)
(* AwaitProtocol on the coroutines of src/logic/test.cpp: each has one     *)
(* await, built before its loop and never destroyed, so a coroutine and    *)
(* its await share one model value.  SharedAwait stands for the            *)
(* handle_shared_msg1 coroutines, NormalAwait for handle_msg1.  The        *)
(* coroutines in OnlyShared compete for a name of their own; a behaviour   *)
(* has messages of one of the two names.                                   *)
(***************************************************************************)
EXTENDS AwaitProtocol

CONSTANTS SharedAwait, NormalAwait, OnlyShared

TestAwait == SharedAwait \cup NormalAwait \cup OnlyShared
TestName == {"msg1", "only_shared", "__RemoveTimer"}
TestOwner == [a \in TestAwait |-> a]
TestKind == [a \in TestAwait |-> IF a \in NormalAwait THEN "Normal" ELSE "Shared"]
TestWaitName == [a \in TestAwait |-> IF a \in OnlyShared THEN "only_shared" ELSE "msg1"]
TestAccept == [a \in TestAwait |-> 1..MaxMsg]
TestProgram == [a \in TestAwait |-> <<a>>]
TestDispatcherOf == [n \in TestName |-> "dispatch"]

\* Bound: the messages of a behaviour have one name.
OneName == pushed'["msg1"] = 0 \/ pushed'["only_shared"] = 0

TestSpec == Init /\ [][Next /\ OneName]_vars /\ Fairness
==============================================================================
