----------------------------- MODULE TransitKeys -----------------------------
(***************************************************************************)
(* The key and namespace half of openbao/main.go.  Every request is a      *)
(* handler goroutine, in any of the processes deployed against the same    *)
(* OpenBao, or a CLI process; it issues one HTTP call after another and    *)
(* shares nothing but the server with the others.  A step is the server    *)
(* handling a call, or the handler handling the answer, which may be stale *)
(* by then.                                                                *)
(*                                                                         *)
(* A handler is a sequence of stages, each a helper of main.go that first  *)
(* runs ensureTransitMounted (phases "mounts" and "enable") and then sends *)
(* its own call (phase "call").  "ensure" is the bare ensureTransitMounted *)
(* ensureTransitKey starts with.                                           *)
(***************************************************************************)
EXTENDS BaoServer, FiniteSets

CONSTANTS
  Workers,      \* concurrent handlers
  Ops,          \* the requests the clients send
  MaxRequests,  \* bound: requests sent in a behaviour
  MaxFaults     \* bound: lost calls, retries, bad bodies and crashes

NoOp   == "none"
NsOps  == {"createNs", "deleteNs"}
KeyOps == {"create", "delete", "rotate"}
Sweeps == {"listAll", "ensureAll"}
AllOps == KeyOps \cup NsOps \cup Sweeps \cup {"info", "list", "namespaces"}

ASSUME OpsAssumption   == Ops \subseteq AllOps
ASSUME BoundAssumption == MaxRequests \in Nat /\ MaxFaults \in Nat

VARIABLES
  job,      \* job[w]: the request worker w handles or last handled
  ans,      \* ans[w]: the server's answer to w's call, not yet handled
  orphans,  \* calls left behind by an abandoned attempt, still under way
  reqs,     \* requests sent so far
  faults,   \* faults so far
  \* History variables, read by the properties only.
  eff,      \* eff[w]: how often the server did what w's request asks for
  seen,     \* seen[w]: where w's key existed at some time since w began
  kept,     \* kept[w]: the namespaces that exist ever since w began
  alone,    \* alone[w]: nobody else was creating w's key since w began
  promise   \* promise[n][k]: what was last acknowledged of key k in n

history == <<eff, seen, kept, alone, promise>>
vars    == <<baoVars, job, ans, orphans, reqs, faults, history>>

Stages   == {"idle", "ensure", "create", "config", "override", "delete",
             "rotate", "info", "list", "namespaces", "createNs", "deleteNs"}
Jobs     == [op : AllOps \cup {NoOp}, ns : Namespaces, key : Keys,
             allow : {"unset", "true", "false"}, stage : Stages,
             phase : {"idle", "mounts", "enable", "call"},
             status : {"none", "ok", "rejected", "gateway"},
             todo : SUBSET Namespaces, listed : SUBSET Namespaces,
             done : SUBSET Namespaces, failed : SUBSET Namespaces]
Promises == {"none", "deletable", "protected", "gone"}

AnyKey == CHOOSE k \in Keys : TRUE

Idle == [op |-> NoOp, ns |-> Root, key |-> AnyKey,
         allow |-> "unset", stage |-> "idle", phase |-> "idle",
         status |-> "none", todo |-> {}, listed |-> {}, done |-> {},
         failed |-> {}]

Init ==
  /\ BaoInit
  /\ job = [w \in Workers |-> Idle]
  /\ ans = [w \in Workers |-> Pending]
  /\ orphans = {}
  /\ reqs = 0
  /\ faults = 0
  /\ eff = [w \in Workers |-> 0]
  /\ seen = [w \in Workers |-> {}]
  /\ kept = [w \in Workers |-> {}]
  /\ alone = [w \in Workers |-> FALSE]
  /\ promise = [n \in Namespaces |-> [k \in Keys |-> "none"]]

Busy(w)  == job[w].phase # "idle"
Swept(j) == j.op \in Sweeps

-----------------------------------------------------------------------------
\* The call a handler is waiting for.
CallKind(j) ==
  CASE j.phase # "call" -> j.phase
    [] j.phase = "call" /\ j.stage \in {"config", "override"} -> "config"
    [] OTHER -> j.stage

CallOf(j) == [kind |-> CallKind(j), ns |-> j.ns, key |-> j.key,
              arg |-> j.stage = "config" \/ j.allow = "true"]

\* The namespace calls of the API go to the root and mount nothing.
Enter(j, s) ==
  [j EXCEPT !.stage = s,
            !.phase = IF s \in NsOps \cup {"namespaces"} THEN "call" ELSE "mounts"]

FirstStage(op) == IF op \in Sweeps THEN "namespaces" ELSE op

\* Mutant: the handler answers and stays in its stage.
ReplyKeepsStage(j, st) == [j EXCEPT !.phase = "idle", !.status = st]

Reply(j, st) == [j EXCEPT !.stage = "idle", !.phase = "idle", !.status = st]

\* Mutant: the loop does not advance.
OnwardRepeats(j) ==
  IF j.todo = {}
    THEN {Reply(j, "ok")}
    ELSE {Enter([j EXCEPT !.ns = CHOOSE n \in j.todo : TRUE],
                IF j.op = "ensureAll" THEN "ensure" ELSE "list")}

\* The bodies of the for loops: the next namespace, in the order listed.
Onward(j) ==
  IF j.todo = {}
    THEN {Reply(j, "ok")}
    ELSE {Enter([j EXCEPT !.ns = n, !.todo = @ \ {n}],
                IF j.op = "ensureAll" THEN "ensure" ELSE "list") : n \in j.todo}

\* One namespace of a sweep, or the whole request, succeeded or failed.  A
\* listing of all keys leaves out the namespaces it failed on and says nothing.
Succeed(j) ==
  IF Swept(j) THEN Onward([j EXCEPT !.done = @ \cup {j.ns}])
              ELSE {Reply(j, "ok")}

\* Mutant: break instead of continue.
FailStopsSweep(j) == {Reply(j, IF Swept(j) THEN "ok" ELSE "gateway")}

Fail(j) ==
  IF Swept(j) THEN Onward([j EXCEPT !.failed = @ \cup {j.ns}])
              ELSE {Reply(j, "gateway")}

\* Mutant: allow_delete as a bool, not a pointer: false is not set.
ConfiguredForgetsFalse(j) ==
  IF j.op = "create" /\ j.allow = "true" THEN {Enter(j, "override")}
                                         ELSE Succeed(j)

\* The stage after "config": what the caller of createTransitKey does next.
Configured(j) ==
  IF j.op = "create" /\ j.allow # "unset" THEN {Enter(j, "override")}
                                          ELSE Succeed(j)

\* ensureTransitMounted returned nil.
Mounted(j) ==
  IF j.stage = "ensure" THEN {Enter(j, "list")} ELSE {[j EXCEPT !.phase = "call"]}

\* ensureTransitMounted returned an error: listTransitKeys ignores it, the
\* two configurations only log theirs.
MountFailed(j) ==
  CASE j.stage = "list"     -> {[j EXCEPT !.phase = "call"]}
    [] j.stage = "config"   -> Configured(j)
    [] j.stage = "override" -> Succeed(j)
    [] OTHER                -> Fail(j)

-----------------------------------------------------------------------------
(***************************************************************************)
(* What a handler does with answer a: one action for each place it waits   *)
(* at.  A creation or a deletion nobody interfered with promises something *)
(* when it is acknowledged.                                                *)
(***************************************************************************)
PromiseOf(j) ==
  CASE j.op = "delete"                        -> "gone"
    [] j.op = "create" /\ j.allow = "false"  -> "protected"
    [] OTHER                                  -> "deletable"

Acknowledges(w, j) ==
  /\ j.phase = "idle" /\ j.status = "ok"
  /\ j.op \in {"create", "delete"}
  /\ alone[w]

Continue(w, next) ==
  \E j \in next :
    /\ job' = [job EXCEPT ![w] = j]
    /\ promise' = IF Acknowledges(w, j)
                    THEN [promise EXCEPT ![j.ns][j.key] = PromiseOf(j)]
                    ELSE promise

\* Mutant: a missing engine is taken for a mounted one.
MountsAnsweredNoEnable(w, a) ==
  /\ job[w].phase = "mounts"
  /\ Continue(w, IF a.st = "ok" THEN Mounted(job[w]) ELSE MountFailed(job[w]))

MountsAnswered(w, a) ==
  /\ job[w].phase = "mounts"
  /\ Continue(w, IF a.st # "ok" THEN MountFailed(job[w])
                 ELSE IF "transit" \in a.set THEN Mounted(job[w])
                 ELSE {[job[w] EXCEPT !.phase = "enable"]})

EnableAnswered(w, a) ==
  /\ job[w].phase = "enable"
  /\ Continue(w, IF a.st = "ok" THEN Mounted(job[w]) ELSE MountFailed(job[w]))

\* Mutant: the error of the creation is dropped.
CreateAnsweredUnchecked(w, a) ==
  /\ job[w].phase = "call" /\ job[w].stage = "create"
  /\ Continue(w, {Enter(job[w], "config")})

CreateAnswered(w, a) ==
  /\ job[w].phase = "call" /\ job[w].stage = "create"
  /\ Continue(w, IF a.st = "ok" THEN {Enter(job[w], "config")} ELSE Fail(job[w]))

\* A failure of either configuration is logged and forgotten.
ConfigAnswered(w) ==
  /\ job[w].phase = "call" /\ job[w].stage = "config"
  /\ Continue(w, Configured(job[w]))

OverrideAnswered(w) ==
  /\ job[w].phase = "call" /\ job[w].stage = "override"
  /\ Continue(w, Succeed(job[w]))

\* The helpers with one call of their own: its outcome is the outcome.
Settled(w, a, s) ==
  /\ job[w].phase = "call" /\ job[w].stage = s
  /\ Continue(w, IF a.st = "ok" THEN Succeed(job[w]) ELSE Fail(job[w]))

DeleteAnswered(w, a)          == Settled(w, a, "delete")
RotateAnswered(w, a)          == Settled(w, a, "rotate")
InfoAnswered(w, a)            == Settled(w, a, "info")
CreateNamespaceAnswered(w, a) == Settled(w, a, "createNs")
DeleteNamespaceAnswered(w, a) == Settled(w, a, "deleteNs")

\* Mutant: any key in the list will do.
ListAnsweredAnyKey(w, a) ==
  /\ job[w].phase = "call" /\ job[w].stage = "list"
  /\ Continue(w, IF a.st = "err" THEN Fail(job[w]) ELSE Succeed(job[w]))

\* A 404 is an empty list; ensureTransitKey looks its key up in the list.
KeysListed(a) == IF a.st = "ok" THEN a.set ELSE {}

ListAnswered(w, a) ==
  /\ job[w].phase = "call" /\ job[w].stage = "list"
  /\ Continue(w, IF a.st \notin {"ok", "notfound"} THEN Fail(job[w])
                 ELSE IF job[w].op = "ensureAll" /\ job[w].key \notin KeysListed(a)
                   THEN {Enter(job[w], "create")}
                 ELSE Succeed(job[w]))

\* A listing that is missing or denied stands for the root alone.
NamespacesListed(a) == IF a.st = "ok" THEN a.set \cap Namespaces ELSE {Root}

NamespacesAnswered(w, a) ==
  /\ job[w].phase = "call" /\ job[w].stage = "namespaces"
  /\ LET names == NamespacesListed(a)
         known == [job[w] EXCEPT !.listed = names, !.todo = names]
     IN  Continue(w, IF a.st = "err" THEN {Reply(job[w], "gateway")}
                     ELSE IF Swept(job[w]) THEN Onward(known)
                     ELSE {Reply([known EXCEPT !.todo = {}], "ok")})

Handle(w, a) ==
  /\ \/ MountsAnswered(w, a)
     \/ EnableAnswered(w, a)
     \/ CreateAnswered(w, a)
     \/ ConfigAnswered(w)
     \/ OverrideAnswered(w)
     \/ DeleteAnswered(w, a)
     \/ RotateAnswered(w, a)
     \/ InfoAnswered(w, a)
     \/ CreateNamespaceAnswered(w, a)
     \/ DeleteNamespaceAnswered(w, a)
     \/ ListAnswered(w, a)
     \/ NamespacesAnswered(w, a)
  /\ ans' = [ans EXCEPT ![w] = Pending]
  /\ UNCHANGED <<baoVars, reqs, eff, seen, kept, alone>>

-----------------------------------------------------------------------------
\* Requests.  Handler i is disturbed by handler j when j may create i's key.
Creators == {"create", "ensureAll"}

Disturbs(j, i) ==
  /\ j.op \in Creators /\ i.op \in Creators \cup {"delete"}
  /\ i.key = j.key
  /\ i.ns = j.ns \/ "ensureAll" \in {i.op, j.op}

\* A handler begins with request op for key k of namespace n.
Begin(w, op, n, k, allow) ==
  /\ op \in Ops /\ ~Busy(w) /\ reqs < MaxRequests
  /\ LET j == Enter([Idle EXCEPT !.op = op, !.ns = n, !.key = k, !.allow = allow],
                    FirstStage(op))
     IN  /\ job' = [job EXCEPT ![w] = j]
         /\ alone' = [v \in Workers |->
              IF v = w THEN \A u \in Workers \ {w} : Busy(u) => ~Disturbs(job[u], j)
                       ELSE alone[v] /\ (Busy(v) => ~Disturbs(j, job[v]))]
         /\ promise' = [m \in Namespaces |-> [q \in Keys |->
                          IF q = k /\ (op = "ensureAll" \/ (op = "create" /\ m = n))
                            THEN "none" ELSE promise[m][q]]]
  /\ reqs' = reqs + 1
  /\ eff' = [eff EXCEPT ![w] = 0]
  /\ seen' = [seen EXCEPT ![w] = {m \in Namespaces : Present(m, k)}]
  /\ kept' = [kept EXCEPT ![w] = live]
  /\ UNCHANGED <<baoVars, ans, orphans, faults>>

\* The handlers of serve's ServeMux.
NamespacesCollection(w) ==
  \/ Begin(w, "namespaces", Root, AnyKey, "unset")
  \/ \E n \in Namespaces \ {Root} : Begin(w, "createNs", n, AnyKey, "unset")

NamespaceItem(w) ==
  \E n \in Namespaces \ {Root} : Begin(w, "deleteNs", n, AnyKey, "unset")

\* Listing without a namespace lists them all; the root is named by "".
KeysCollection(w) ==
  \/ Begin(w, "listAll", Root, AnyKey, "unset")
  \/ \E n \in Namespaces \ {Root} : Begin(w, "list", n, AnyKey, "unset")
  \/ \E n \in Namespaces, k \in Keys, allow \in {"unset", "true", "false"} :
       Begin(w, "create", n, k, allow)

\* The path names the namespace; the root has no name, but an escaped slash
\* stands for it (module Routing).
KeysItem(w) ==
  \E op \in {"delete", "rotate", "info"}, n \in Namespaces, k \in Keys :
    Begin(w, op, n, k, "unset")

EnsureAllNamespaces(w) ==
  \E k \in Keys : Begin(w, "ensureAll", Root, k, "unset")

\* The CLI runs one operation, in a namespace of its own (mustNamespace).
CliOperation(w) ==
  \/ \E op \in {"namespaces", "listAll"} : Begin(w, op, Root, AnyKey, "unset")
  \/ \E k \in Keys : Begin(w, "ensureAll", Root, k, "unset")
  \/ \E op \in NsOps \cup {"list"}, n \in Namespaces \ {Root} :
       Begin(w, op, n, AnyKey, "unset")
  \/ \E op \in KeyOps, n \in Namespaces \ {Root}, k \in Keys :
       Begin(w, op, n, k, "unset")

\* A malformed request, a wrong method: answered before any call is made.
Reject(w, op) ==
  /\ ~Busy(w) /\ reqs < MaxRequests
  /\ job' = [job EXCEPT ![w] = [Idle EXCEPT !.op = op, !.status = "rejected"]]
  /\ reqs' = reqs + 1
  /\ eff' = [eff EXCEPT ![w] = 0]
  /\ UNCHANGED <<baoVars, ans, orphans, faults, seen, kept, alone, promise>>

-----------------------------------------------------------------------------
\* The server.  What it changes is entered in the history.
Witness ==
  /\ seen' = [w \in Workers |->
               seen[w] \cup {n \in Namespaces : keys'[n][job[w].key] # Absent}]
  /\ kept' = [w \in Workers |-> kept[w] \cap live']

Exec(w) ==
  /\ Busy(w) /\ ans[w] = Pending
  /\ \E ok \in BOOLEAN :
       /\ Serve(CallOf(job[w]), ok)
       /\ ans' = [ans EXCEPT ![w] = AnswerTo(CallOf(job[w]), ok)]
       /\ eff' = IF ok /\ CallKind(job[w]) = job[w].op
                 THEN [eff EXCEPT ![w] = @ + 1] ELSE eff
  /\ Witness
  /\ UNCHANGED <<job, orphans, reqs, faults, alone, promise>>

ExecOrphan(c) ==
  /\ \E ok \in BOOLEAN : Serve(c, ok)
  /\ Witness
  /\ orphans' = orphans \ {c}
  /\ UNCHANGED <<job, ans, reqs, faults, eff, alone, promise>>

Recv(w) ==
  /\ ans[w] # Pending
  /\ Handle(w, ans[w])
  /\ UNCHANGED <<orphans, faults>>

-----------------------------------------------------------------------------
\* Faults.  A call that is given up may be under way to the server still.
Abandoned(w) ==
  IF Busy(w) /\ ans[w] = Pending /\ CallKind(job[w]) \in Writes
    THEN {CallOf(job[w])} ELSE {}

Fault ==
  /\ faults < MaxFaults
  /\ faults' = faults + 1

\* The call fails: no answer within 30 seconds, a broken connection, a 5xx.
Timeout(w) ==
  /\ Fault /\ Busy(w)
  /\ orphans' = orphans \cup Abandoned(w)
  /\ Handle(w, [st |-> "err", set |-> {}])

\* The client library sends the call again by itself.
Retry(w) ==
  /\ Fault /\ Busy(w)
  /\ orphans' = orphans \cup Abandoned(w)
  /\ ans' = [ans EXCEPT ![w] = Pending]
  /\ UNCHANGED <<baoVars, job, reqs, history>>

\* A body that does not decode: the error is dropped, the map is empty.
Garble(w) ==
  /\ Fault /\ Busy(w)
  /\ ans[w].st = "ok" /\ CallKind(job[w]) \in {"mounts", "list", "namespaces"}
  /\ Handle(w, [st |-> "ok", set |-> {}])
  /\ UNCHANGED orphans

\* The process, and with it the handler, is gone; the caller gets no answer.
Crash(w) ==
  /\ Fault /\ Busy(w)
  /\ orphans' = orphans \cup Abandoned(w)
  /\ job' = [job EXCEPT ![w] = Idle]
  /\ ans' = [ans EXCEPT ![w] = Pending]
  /\ UNCHANGED <<baoVars, reqs, history>>

Next ==
  \/ \E w \in Workers : NamespacesCollection(w)
  \/ \E w \in Workers : NamespaceItem(w)
  \/ \E w \in Workers : KeysCollection(w)
  \/ \E w \in Workers : KeysItem(w)
  \/ \E w \in Workers : EnsureAllNamespaces(w)
  \/ \E w \in Workers : CliOperation(w)
  \/ \E w \in Workers, op \in Ops : Reject(w, op)
  \/ \E w \in Workers : Exec(w)
  \/ \E w \in Workers : Recv(w)
  \/ \E w \in Workers : Timeout(w)
  \/ \E w \in Workers : Retry(w)
  \/ \E w \in Workers : Garble(w)
  \/ \E w \in Workers : Crash(w)
  \/ \E c \in orphans : ExecOrphan(c)

Spec == Init /\ [][Next]_vars

\* Calls are answered or time out (30 seconds), and goroutines are scheduled.
Fairness == \A w \in Workers : WF_vars(Exec(w)) /\ WF_vars(Recv(w))

FairSpec == Spec /\ Fairness

-----------------------------------------------------------------------------
\* The variables have their types; a worker is idle in stage and phase at once,
\* and a request it works on has not been answered yet.
TypeOK ==
  /\ BaoTypeOK
  /\ job \in [Workers -> Jobs]
  /\ \A w \in Workers : /\ job[w].stage = "idle" <=> job[w].phase = "idle"
                        /\ Busy(w) => job[w].status = "none"
  /\ ans \in [Workers -> Answers]
  /\ orphans \subseteq Calls
  /\ reqs \in 0..MaxRequests /\ faults \in 0..MaxFaults
  /\ eff \in [Workers -> Nat]
  /\ seen \in [Workers -> SUBSET Namespaces]
  /\ kept \in [Workers -> SUBSET Namespaces]
  /\ alone \in [Workers -> BOOLEAN]
  /\ promise \in [Namespaces -> [Keys -> Promises]]

\* A request to create, delete or rotate that is answered 2xx was carried out
\* by the server, whatever is lost or repeated; without faults once, and one
\* answered 502 not at all.
TruthfulReply ==
  \A w \in Workers : job[w].op \in KeyOps \cup NsOps =>
    /\ job[w].status = "ok" => eff[w] >= 1
    /\ job[w].status = "ok" /\ faults = 0 => eff[w] = 1
    /\ job[w].status = "gateway" /\ faults = 0 => eff[w] = 0

\* The report of ensure-all: the key was, at some time during the request, in
\* every namespace reported "ensured", whoever created or deleted it meanwhile;
\* and each namespace listed is reported once, as ensured or as failed.
ReportSound ==
  \A w \in Workers : job[w].op = "ensureAll" =>
    /\ job[w].done \subseteq seen[w]
    /\ job[w].done \cap job[w].failed = {}
    /\ job[w].status = "ok" => job[w].done \cup job[w].failed = job[w].listed

\* The namespaces in the reply to a sweep: list-all has no place for failures.
Reported(j) == IF j.op = "listAll" THEN j.done ELSE j.done \cup j.failed

\* With a token that may list namespaces, a sweep answered 200 reports every
\* child that existed all along, whichever others came and went while it ran.
SweepCovers ==
  \A w \in Workers :
    CanListNamespaces /\ faults = 0 /\ Swept(job[w]) /\ job[w].status = "ok"
      => kept[w] \ {Root} \subseteq Reported(job[w])

\* What the API acknowledges stays true until someone asks for the key again:
\* a created key has the deletion policy asked for, a deleted key is gone.  An
\* abandoned call that arrives late may break this, so it is said of the time
\* before the first fault.
AcknowledgedHolds ==
  faults = 0 =>
    \A n \in Namespaces, k \in Keys :
      /\ promise[n][k] = "gone" => ~Present(n, k)
      /\ promise[n][k] = "deletable" /\ Present(n, k) => keys[n][k].deletable
      /\ promise[n][k] = "protected" /\ Present(n, k) => ~keys[n][k].deletable

\* After any key request, a failed one too, the transit engine is mounted if
\* the namespace has been there all along: a request that lost the race to
\* mount it can be sent again and finds the engine.
EngineLeftMounted ==
  \A w \in Workers : LET j == job[w] IN
    (j.op \in KeyOps \cup {"info"} /\ j.status \in {"ok", "gateway"} /\ faults = 0)
      => (j.ns \in kept[w] => j.ns \in mounted)

\* "enables the transit engine at the given path if not already mounted": a
\* creation does not fail in a namespace that is there all along.
EngineMountedIfNeeded ==
  \A w \in Workers :
    job[w].op = "create" /\ job[w].status = "gateway" /\ faults = 0
      => job[w].ns \notin kept[w]

\* "Ensure a key exists": a key created with allow_delete false stays protected
\* when the only other request ever sent is an ensure-all of the same key.
ProtectionSurvivesEnsure ==
  \A v, w \in Workers :
    (/\ v # w /\ reqs = 2 /\ faults = 0
     /\ job[v].op = "create" /\ job[v].allow = "false" /\ job[v].status = "ok"
     /\ job[w].op = "ensureAll" /\ job[w].key = job[v].key
     /\ Present(job[v].ns, job[v].key))
      => ~keys[job[v].ns][job[v].key].deletable

\* Every request is answered, or dies with its process: no handler waits for
\* ever, and a sweep ends however the namespaces change under it.
EveryRequestAnswered == \A w \in Workers : []<>~Busy(w)
=============================================================================
