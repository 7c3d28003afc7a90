----------------------------- MODULE Migrations -----------------------------
(* Pushes of migrations: the command line client's migrate, which lists    *)
(* what is applied and posts the rest of a directory one file after the    *)
(* other, the gateways that handle the posts, and the contract that marks  *)
(* a migration as applied in the plan that makes its changes.  Several     *)
(* people push at once and through several gateways, answers are lost,     *)
(* handlers die, and a failed push is started again.                       *)
(*                                                                         *)
(* The SQL of a migration is left out but for how often it has taken       *)
(* effect.  A version is the sequence of digits a file name starts with.   *)
EXTENDS Integers, Sequences, FiniteSets, SequencesExt

CONSTANTS
    Push,           \* people who push
    Gateway,        \* the gateways of one contract
    Files,          \* the versions of the migrations there are
    Directories,    \* the sets of versions a checkout may hold
    MaxRuns,        \* bound: how often each starts migrate
    MaxWrites       \* bound: commits of other writers

(* The order of the texts, String.localeCompare on digits.                 *)
TextBefore(v, w) ==
    \E i \in 1..Len(w) :
        /\ i - 1 <= Len(v)
        /\ SubSeq(v, 1, i - 1) = SubSeq(w, 1, i - 1)
        /\ i > Len(v) \/ v[i] < w[i]

(* The number a version writes: its place in the order of versions.        *)
Number(v) == FoldLeft(LAMBDA n, digit : 10 * n + digit, 0, v)

Earlier(v) == {w \in Files : Number(w) < Number(v)}

(* Versions are timestamps of one width, whose texts are in the order of   *)
(* their numbers, and a checkout that holds a migration holds all those    *)
(* that came before it.                                                    *)
ASSUME VersionsAssumption ==
    /\ \A v \in Files : Number(v) \in Nat
    /\ \A v, w \in Files : v # w => (TextBefore(v, w) <=> Number(v) < Number(w))
    /\ Directories \subseteq SUBSET Files
    /\ \A D \in Directories : \A v \in D : Earlier(v) \subseteq D

VARIABLES
    revision,       \* the contract's
    applied,        \* appliedMigrations, and Database.migrations of a replay
    ran,            \* how often a migration's SQL has taken effect
    pushes,         \* the state of each pusher's latest migrate
    posts,       \* POST /admin/v1/migrations and their handlers
    transactions    \* plans the node has accepted and not yet mined

vars == <<revision, applied, ran, pushes, posts, transactions>>
contract == <<revision, applied, ran>>

Stage == {"idle", "listing", "pushing", "waiting", "failed", "done"}
PushState == [stage : Stage, run : Nat, files : SUBSET Files, remaining : SUBSET Files]
Posted == [push : Push, run : Nat, version : Files, gateway : Gateway,
            stage : {"queued", "sending", "committed", "reverted", "ok", "error"}]
Transaction == [push : Push, run : Nat, version : Files, revision : Nat]

Init ==
    /\ revision = 0
    /\ applied = {}
    /\ ran = [v \in Files |-> 0]
    /\ pushes = [p \in Push |-> [stage |-> "idle", run |-> 0, files |-> {}, remaining |-> {}]]
    /\ posts = {}
    /\ transactions = {}

----------------------------------------------------------------------------
(* The client.                                                             *)
Turn(p, stage) == pushes' = [pushes EXCEPT ![p].stage = stage]

(* migrate starts: the files are read once.                                *)
Begin(p, D) ==
    /\ pushes[p].stage \in {"idle", "failed", "done"}
    /\ pushes[p].run < MaxRuns
    /\ pushes' = [pushes EXCEPT ![p] =
                    [stage |-> "listing", run |-> @.run + 1, files |-> D, remaining |-> D]]
    /\ UNCHANGED <<contract, posts, transactions>>

(* GET /admin/v1/migrations: what is applied is listed once and not again. *)
List(p) ==
    /\ pushes[p].stage = "listing"
    /\ pushes' = [pushes EXCEPT ![p].stage = "pushing", ![p].remaining = @ \ applied]
    /\ UNCHANGED <<contract, posts, transactions>>

ListFails(p) ==
    /\ pushes[p].stage = "listing"
    /\ Turn(p, "failed")
    /\ UNCHANGED <<contract, posts, transactions>>

(* The next file, in the order of the texts, goes to some gateway.         *)
Post(p, g) ==
    \E v \in pushes[p].remaining :
        /\ pushes[p].stage = "pushing"
        /\ \A w \in pushes[p].remaining \ {v} : TextBefore(v, w)
        /\ posts' = posts \cup {[push |-> p, run |-> pushes[p].run, version |-> v,
                                       gateway |-> g, stage |-> "queued"]}
        /\ Turn(p, "waiting")
        /\ UNCHANGED <<contract, transactions>>

Finish(p) ==
    /\ pushes[p].stage = "pushing"
    /\ pushes[p].remaining = {}
    /\ Turn(p, "done")
    /\ UNCHANGED <<contract, posts, transactions>>

Awaited(q) == pushes[q.push].stage = "waiting" /\ pushes[q.push].run = q.run

ReceiveAndGoOn(q) ==     \* fault: responseJson does not look at the status
    /\ q.stage \in {"ok", "error"}
    /\ Awaited(q)
    /\ pushes' = [pushes EXCEPT ![q.push].stage = "pushing",
                                ![q.push].remaining = @ \ {q.version}]
    /\ posts' = posts \ {q}
    /\ UNCHANGED <<contract, transactions>>

(* An answer arrives; the loop goes on only after a success.               *)
Receive(q) ==
    /\ q.stage \in {"ok", "error"}
    /\ Awaited(q)
    /\ pushes' = [pushes EXCEPT ![q.push].stage = IF q.stage = "ok" THEN "pushing" ELSE "failed",
                                ![q.push].remaining = @ \ {q.version}]
    /\ posts' = posts \ {q}
    /\ UNCHANGED <<contract, transactions>>

(* The connection is lost: the request may still be handled, now or later. *)
GiveUp(p) ==
    /\ pushes[p].stage = "waiting"
    /\ Turn(p, "failed")
    /\ posts' = {q \in posts : q.push # p \/ q.stage \notin {"ok", "error"}}
    /\ UNCHANGED <<contract, transactions>>

----------------------------------------------------------------------------
(* The gateways.  A handler that sends holds its gateway's writer lock     *)
(* until it has answered.                                                  *)
Locked(g) == \E q \in posts : q.gateway = g /\ q.stage \in {"sending", "committed", "reverted"}

Moved(q, stage) == (posts \ {q}) \cup {[q EXCEPT !.stage = stage]}

(* An answer nobody waits for is lost.                                     *)
Answered(q, stage) == IF Awaited(q) THEN Moved(q, stage) ELSE posts \ {q}

(* apply_migration on a snapshot: what is applied is a success without a   *)
(* transaction; otherwise the plan of the changes and the mark is sent.    *)
Skip(q) ==
    /\ q.stage = "queued" /\ ~ Locked(q.gateway)
    /\ q.version \in applied
    /\ posts' = Answered(q, "ok")
    /\ UNCHANGED <<contract, pushes, transactions>>

Send(q) ==
    /\ q.stage = "queued" /\ ~ Locked(q.gateway)
    /\ q.version \notin applied
    /\ posts' = Moved(q, "sending")
    /\ transactions' = transactions \cup {[push |-> q.push, run |-> q.run,
                                           version |-> q.version, revision |-> revision]}
    /\ UNCHANGED <<contract, pushes>>

(* Authentication, the SQL or a call of the node fails before anything is  *)
(* sent.                                                                   *)
Refuse(q) ==
    /\ q.stage = "queued" /\ ~ Locked(q.gateway)
    /\ posts' = Answered(q, "error")
    /\ UNCHANGED <<contract, pushes, transactions>>

Answer(q) ==
    /\ q.stage \in {"committed", "reverted"}
    /\ posts' = Answered(q, IF q.stage = "committed" THEN "ok" ELSE "error")
    /\ UNCHANGED <<contract, pushes, transactions>>

(* The acknowledgement, the receipt or the snapshot read for the answer is *)
(* lost, and the handler answers with an error; or the gateway dies or the *)
(* client hangs up, and it does not answer.  The transaction stays.        *)
Abandon(q) ==
    /\ q.stage \in {"sending", "committed", "reverted"}
    /\ posts' \in {Answered(q, "error"), posts \ {q}}
    /\ UNCHANGED <<contract, pushes, transactions>>

----------------------------------------------------------------------------
(* The contract.                                                           *)
Admitted(t) == t.revision = revision /\ t.version \notin applied

RunUnmarked(v) ==    \* fault: the plan leaves the mark out
    /\ ran' = [ran EXCEPT ![v] = @ + 1]
    /\ revision' = revision + 1
    /\ UNCHANGED applied

(* The operations of a migration's plan, the mark included.                *)
Run(v) ==
    /\ ran' = [ran EXCEPT ![v] = @ + 1]
    /\ applied' = applied \cup {v}
    /\ revision' = revision + 1

(* The handler that waits for a transaction's receipt.                     *)
Waits(q, t) == q.stage = "sending" /\ q.push = t.push /\ q.run = t.run /\ q.version = t.version

Mined(t, outcome) ==
    /\ transactions' = transactions \ {t}
    /\ posts' = {IF Waits(q, t) THEN [q EXCEPT !.stage = outcome] ELSE q : q \in posts}
    /\ UNCHANGED pushes

Commit(t) ==
    /\ Admitted(t)
    /\ Run(t.version)
    /\ Mined(t, "committed")

Revert(t) ==
    /\ ~ Admitted(t)
    /\ Mined(t, "reverted")
    /\ UNCHANGED contract

(* Another plan is committed.                                              *)
OtherWrite ==
    /\ revision < MaxWrites + Cardinality(applied)
    /\ revision' = revision + 1
    /\ UNCHANGED <<applied, ran, pushes, posts, transactions>>

----------------------------------------------------------------------------
ClientStep(p) ==
    \/ \E D \in Directories : Begin(p, D)
    \/ List(p)
    \/ ListFails(p)
    \/ \E g \in Gateway : Post(p, g)
    \/ Finish(p)
    \/ GiveUp(p)

HandlerStep(q) == Receive(q) \/ Skip(q) \/ Send(q) \/ Refuse(q) \/ Answer(q) \/ Abandon(q)

Next ==
    \/ \E p \in Push : ClientStep(p)
    \/ \E q \in posts : HandlerStep(q)
    \/ \E t \in transactions : Commit(t) \/ Revert(t)
    \/ OtherWrite

Spec == Init /\ [][Next]_vars

----------------------------------------------------------------------------
(* A migration takes effect at most once, whoever pushes it, however often *)
(* and whatever is lost; and a push that reports success has applied every *)
(* file of its directory.                                                  *)
PushesApplyOnce ==
    /\ \A v \in Files : ran[v] <= 1
    /\ \A p \in Push : pushes[p].stage = "done" => \A v \in pushes[p].files : ran[v] = 1

(* Migrations take effect in the order of their versions: one that runs    *)
(* finds everything earlier applied, also when pushes race and requests of *)
(* abandoned pushes are handled late.                                      *)
MigrationsFollowVersions ==
    [][\A v \in Files : ran'[v] # ran[v] => \A w \in Earlier(v) : ran[w] = 1]_vars
=============================================================================
