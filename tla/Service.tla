------------------------------- MODULE Service -------------------------------
(* What a client may rely on when it talks to a gateway, on a table of one *)
(* counter: an answered call took effect at one instant between the call   *)
(* and its answer, and the answer is that of the instant.  A call that is  *)
(* refused promises nothing: it may have taken effect, or do so yet.       *)
EXTENDS Integers

CONSTANTS Request, Kinds    \* Kinds \subseteq {"read", "ensure", "increment"}

VARIABLES counter, calls

None == -1

Resulting(kind, n) ==
    CASE kind = "read"      -> n
      [] kind = "ensure"    -> IF n = 0 THEN 1 ELSE n
      [] kind = "increment" -> n + 1

ServiceInit ==
    /\ counter = 0
    /\ calls = [q \in Request |-> [kind |-> "none", effect |-> None, reply |-> "none", value |-> None]]

Call(q, kind) ==
    /\ calls[q].kind = "none"
    /\ calls' = [calls EXCEPT ![q].kind = kind]
    /\ UNCHANGED counter

TakeEffect(q) ==
    /\ calls[q].kind # "none"
    /\ calls[q].effect = None
    /\ calls[q].reply # "ok"
    /\ counter' = Resulting(calls[q].kind, counter)
    /\ calls' = [calls EXCEPT ![q].effect = counter']

Answer(q) ==
    /\ calls[q].kind # "none"
    /\ calls[q].effect # None
    /\ calls[q].reply = "none"
    /\ calls' = [calls EXCEPT ![q].reply = "ok", ![q].value = calls[q].effect]
    /\ UNCHANGED counter

Refuse(q) ==
    /\ calls[q].kind # "none"
    /\ calls[q].reply = "none"
    /\ calls' = [calls EXCEPT ![q].reply = "refused"]
    /\ UNCHANGED counter

ServiceNext ==
    \E q \in Request :
        \/ \E kind \in Kinds : Call(q, kind)
        \/ TakeEffect(q) \/ Answer(q) \/ Refuse(q)

(* A crash of the gateway refuses every call it has in hand at once.       *)
RefuseAll ==
    /\ calls' = [q \in Request |->
                    IF calls[q].kind # "none" /\ calls[q].reply = "none"
                    THEN [calls[q] EXCEPT !.reply = "refused"] ELSE calls[q]]
    /\ UNCHANGED counter

ServiceSpec == ServiceInit /\ [][ServiceNext \/ RefuseAll]_<<counter, calls>>
=============================================================================
