------------------------- MODULE TransitRepliesProofs -------------------------
(***************************************************************************)
(* What the answers of the key and namespace half say: that an operation   *)
(* was carried out, that the engine is there, that a sweep left out no     *)
(* namespace.                                                              *)
(***************************************************************************)
EXTENDS TransitKeysProofs

-----------------------------------------------------------------------------
(***************************************************************************)
(* The requests that concern one namespace and make calls of one kind; a   *)
(* creation goes on to configure its key.                                  *)
(***************************************************************************)
PlainOps == KeyOps \cup NsOps \cup {"info"}

\* The stages of such a request.
StageOK(j) ==
  j.op \in PlainOps =>
    /\ \/ j.stage \in {"idle", j.op}
       \/ j.op = "create" /\ j.stage \in {"config", "override"}
    /\ j.op \in NsOps /\ j.stage # "idle" => j.phase = "call"

\* And an answer waits for a busy worker only.
StageInv == \A w \in Workers : StageOK(job[w]) /\ (~Busy(w) => ans[w] = Pending)

At(i, stage, phase) == i.stage = stage /\ i.phase = phase /\ i.status = "none"
Replied(i, st)      == i.stage = "idle" /\ i.phase = "idle" /\ i.status = st

AfterConfig(j, i) ==
  IF j.op = "create" /\ j.allow # "unset" THEN At(i, "override", "mounts") ELSE Replied(i, "ok")

\* How answer a moves job j of such a request on to job i.
Moves(j, a, i) ==
  /\ i.op = j.op /\ i.ns = j.ns /\ i.key = j.key /\ i.allow = j.allow
  /\ j.phase \in {"mounts", "enable"} =>
       IF a.st = "ok"
         THEN At(i, j.stage, IF j.phase = "mounts" /\ "transit" \notin a.set
                               THEN "enable" ELSE "call")
       ELSE IF j.stage = "config"   THEN AfterConfig(j, i)
       ELSE IF j.stage = "override" THEN Replied(i, "ok")
       ELSE Replied(i, "gateway")
  /\ j.phase = "call" =>
       IF j.stage = "config" THEN AfterConfig(j, i)
       ELSE IF j.stage = "override" THEN Replied(i, "ok")
       ELSE IF a.st # "ok" THEN Replied(i, "gateway")
       ELSE IF j.stage = "create" THEN At(i, "config", "mounts")
       ELSE Replied(i, "ok")

\* A step of worker w from its job to job i.
StepsTo(w, i) ==
  /\ job' = [job EXCEPT ![w] = i]
  /\ promise' = IF Acknowledges(w, i)
                  THEN [promise EXCEPT ![i.ns][i.key] = PromiseOf(i)]
                  ELSE promise

LEMMA ReplyForm ==
  ASSUME NEW j \in Jobs, NEW st
  PROVE  LET i == Reply(j, st)
         IN  Replied(i, st) /\ i.op = j.op /\ i.ns = j.ns /\ i.key = j.key /\ i.allow = j.allow
BY DEF Reply, Replied, Jobs

LEMMA EnterForm ==
  ASSUME NEW j \in Jobs, j.status = "none", NEW s \in Stages
  PROVE  LET i == Enter(j, s)
         IN  /\ At(i, s, IF s \in NsOps \cup {"namespaces"} THEN "call" ELSE "mounts")
             /\ i.op = j.op /\ i.ns = j.ns /\ i.key = j.key /\ i.allow = j.allow
BY DEF Enter, At, Jobs

\* Every action of a handler is such a move, if its request is of that kind.
LEMMA PlainHandle ==
  ASSUME TypeOK, NEW w \in Workers, NEW a, Busy(w), Handle(w, a),
         job[w].op \in PlainOps, StageOK(job[w])
  PROVE  \E i \in Jobs : StepsTo(w, i) /\ Moves(job[w], a, i)
<1> DEFINE j == job[w]
<1>1. /\ j \in Jobs /\ j.phase \in {"mounts", "enable", "call"} /\ j.status = "none"
      /\ j.stage \in {j.op, "config", "override"} /\ j.stage # "idle"
      /\ j.stage \in {"config", "override"} => j.op = "create"
      /\ ~Swept(j)
  BY DEF TypeOK, Jobs, Busy, StageOK, Swept, Sweeps, PlainOps, KeyOps, NsOps
<1> HIDE DEF j
<1>2. \A next : Continue(w, next) => \E i \in next : StepsTo(w, i)
  BY DEF Continue, StepsTo
<1>3. /\ Succeed(j) = {Reply(j, "ok")} /\ Fail(j) = {Reply(j, "gateway")}
      /\ Configured(j) = IF j.op = "create" /\ j.allow # "unset" THEN {Enter(j, "override")}
                         ELSE {Reply(j, "ok")}
  BY <1>1 DEF Succeed, Fail, Configured
<1>4. /\ \A st \in {"ok", "gateway"} : Reply(j, st) \in Jobs
      /\ \A s \in {"config", "override"} : Enter(j, s) \in Jobs
  BY <1>1, ReplyType, EnterType DEF GoodJobs, Stages
<1>5. CASE j.phase # "call"
  <2>1. Continue(w, IF a.st # "ok" THEN MountFailed(j)
                    ELSE IF j.phase = "mounts" /\ "transit" \notin a.set
                      THEN {[j EXCEPT !.phase = "enable"]}
                    ELSE Mounted(j))
    BY <1>1, <1>5 DEF Handle, MountsAnswered, EnableAnswered, CreateAnswered, ConfigAnswered,
       OverrideAnswered, Settled, DeleteAnswered, RotateAnswered, InfoAnswered,
       CreateNamespaceAnswered, DeleteNamespaceAnswered, ListAnswered, NamespacesAnswered, j
  <2>2. Mounted(j) = {[j EXCEPT !.phase = "call"]}
    BY <1>1 DEF Mounted, PlainOps, KeyOps, NsOps, j
  <2>3. MountFailed(j) = IF j.stage = "config" THEN Configured(j)
                         ELSE IF j.stage = "override" THEN Succeed(j) ELSE Fail(j)
    BY <1>1 DEF MountFailed, PlainOps, KeyOps, NsOps, j
  <2>4. \A p \in {"enable", "call"} :
          /\ [j EXCEPT !.phase = p] \in Jobs /\ At([j EXCEPT !.phase = p], j.stage, p)
          /\ [j EXCEPT !.phase = p].op = j.op /\ [j EXCEPT !.phase = p].ns = j.ns
          /\ [j EXCEPT !.phase = p].key = j.key /\ [j EXCEPT !.phase = p].allow = j.allow
    BY <1>1 DEF At, Jobs
  <2>5. CASE a.st = "ok"
    <3>1. PICK p \in {"enable", "call"} :
            /\ StepsTo(w, [j EXCEPT !.phase = p])
            /\ p = IF j.phase = "mounts" /\ "transit" \notin a.set THEN "enable" ELSE "call"
      BY <1>2, <2>1, <2>2, <2>5
    <3>2. QED
      BY <1>5, <2>4, <2>5, <3>1 DEF Moves, j
  <2>6. CASE a.st # "ok"
    <3>1. \/ j.stage = "config" /\ j.op = "create" /\ j.allow # "unset"
             /\ StepsTo(w, Enter(j, "override"))
          \/ /\ j.stage = "config" => ~(j.op = "create" /\ j.allow # "unset")
             /\ j.stage \in {"config", "override"}
             /\ StepsTo(w, Reply(j, "ok"))
          \/ j.stage \notin {"config", "override"} /\ StepsTo(w, Reply(j, "gateway"))
      BY <1>2, <1>3, <2>1, <2>3, <2>6
    <3>2. QED
      BY <1>1, <1>4, <1>5, <2>6, <3>1, ReplyForm, EnterForm
         DEF Moves, AfterConfig, NsOps, Stages, j
  <2>7. QED
    BY <2>5, <2>6
<1>6. CASE j.phase = "call"
  <2>1. Continue(w, IF j.stage = "config" THEN Configured(j)
                    ELSE IF j.stage = "override" THEN Succeed(j)
                    ELSE IF a.st # "ok" THEN Fail(j)
                    ELSE IF j.stage = "create" THEN {Enter(j, "config")}
                    ELSE Succeed(j))
    BY <1>1, <1>6 DEF Handle, MountsAnswered, EnableAnswered, CreateAnswered, ConfigAnswered,
       OverrideAnswered, Settled, DeleteAnswered, RotateAnswered, InfoAnswered,
       CreateNamespaceAnswered, DeleteNamespaceAnswered, ListAnswered, NamespacesAnswered,
       PlainOps, KeyOps, NsOps, j
  <2>2. \/ j.stage = "config" /\ j.op = "create" /\ j.allow # "unset"
           /\ StepsTo(w, Enter(j, "override"))
        \/ j.stage = "config" /\ ~(j.op = "create" /\ j.allow # "unset")
           /\ StepsTo(w, Reply(j, "ok"))
        \/ j.stage = "override" /\ StepsTo(w, Reply(j, "ok"))
        \/ j.stage \notin {"config", "override"} /\ a.st # "ok" /\ StepsTo(w, Reply(j, "gateway"))
        \/ j.stage = "create" /\ a.st = "ok" /\ StepsTo(w, Enter(j, "config"))
        \/ j.stage \notin {"config", "override", "create"} /\ a.st = "ok"
           /\ StepsTo(w, Reply(j, "ok"))
    BY <1>2, <1>3, <2>1
  <2>3. QED
    BY <1>1, <1>4, <1>6, <2>2, ReplyForm, EnterForm DEF Moves, AfterConfig, NsOps, Stages, j
<1>7. QED
  BY <1>5, <1>6

\* No step of a handler turns its request into another.
Same(i, j) ==
  i.op = j.op /\ i.key = j.key /\ (~Swept(j) => i.ns = j.ns)

LEMMA RequestKept ==
  ASSUME NEW j \in Jobs, j.status = "none"
  PROVE  /\ \A i \in Onward(j) : i.op = j.op /\ i.key = j.key
         /\ \A i \in Succeed(j) \cup Fail(j) \cup Configured(j) \cup Mounted(j)
                     \cup MountFailed(j) : Same(i, j)
<1>1. ASSUME NEW k \in Jobs, k.op = j.op, k.key = j.key
      PROVE  \A i \in Onward(k) : i.op = j.op /\ i.key = j.key
  <2>1. CASE k.todo = {}
    BY <1>1, <2>1 DEF Onward, Reply, Jobs
  <2>2. CASE k.todo # {}
    <3> DEFINE m(n) == [k EXCEPT !.ns = n, !.todo = @ \ {n}]
    <3>1. \A n \in k.todo : m(n) \in Jobs /\ m(n).op = j.op /\ m(n).key = j.key
      BY <1>1 DEF Jobs
    <3>2. \A i \in Jobs : \A s : Enter(i, s).op = i.op /\ Enter(i, s).key = i.key
      BY DEF Enter, Jobs
    <3>3. \A i \in Onward(k) : \E n \in k.todo : \E s : i = Enter(m(n), s)
      BY <2>2 DEF Onward
    <3> HIDE DEF m
    <3>4. QED
      BY <3>1, <3>2, <3>3
  <2>3. QED
    BY <2>1, <2>2
<1>2. /\ \A st : Same(Reply(j, st), j)
      /\ \A s \in Stages : Same(Enter(j, s), j)
      /\ Same([j EXCEPT !.phase = "call"], j)
  BY DEF Reply, Enter, Same, Jobs
<1>3. /\ [j EXCEPT !.done = @ \cup {j.ns}] \in Jobs
      /\ [j EXCEPT !.done = @ \cup {j.ns}].op = j.op
      /\ [j EXCEPT !.done = @ \cup {j.ns}].key = j.key
      /\ [j EXCEPT !.failed = @ \cup {j.ns}] \in Jobs
      /\ [j EXCEPT !.failed = @ \cup {j.ns}].op = j.op
      /\ [j EXCEPT !.failed = @ \cup {j.ns}].key = j.key
  BY DEF Jobs
<1>4. \A i \in Succeed(j) \cup Fail(j) : Same(i, j)
  BY <1>1, <1>2, <1>3 DEF Succeed, Fail, Same
<1>5. \A i \in Configured(j) : Same(i, j)
  BY <1>2, <1>4 DEF Configured, Stages
<1>6. \A i \in Mounted(j) \cup MountFailed(j) : Same(i, j)
  BY <1>2, <1>4, <1>5 DEF Mounted, MountFailed, Stages
<1>7. QED
  BY <1>1, <1>4, <1>5, <1>6

LEMMA HandleKeeps ==
  ASSUME TypeOK, NEW w \in Workers, NEW a \in Answers, Busy(w), Handle(w, a)
  PROVE  \E i : StepsTo(w, i) /\ Same(i, job[w])
<1> DEFINE j == job[w]
<1>1. j \in Jobs /\ j.status = "none"
  BY DEF TypeOK, Busy
<1>2. /\ \A s \in Stages : Same(Enter(j, s), j)
      /\ \A st : Same(Reply(j, st), j)
      /\ \A p : Same([j EXCEPT !.phase = p], j)
  BY <1>1 DEF Enter, Reply, Same, Jobs
<1>3. \E next : Continue(w, next) /\ \A i \in next : Same(i, j)
  <2>1. CASE MountsAnswered(w, a) \/ EnableAnswered(w, a)
    BY <1>1, <1>2, <2>1, RequestKept DEF MountsAnswered, EnableAnswered
  <2>2. CASE CreateAnswered(w, a) \/ ListAnswered(w, a)
    BY <1>1, <1>2, <2>2, RequestKept DEF CreateAnswered, ListAnswered, Stages
  <2>3. CASE ConfigAnswered(w) \/ OverrideAnswered(w) \/ \E s \in Stages : Settled(w, a, s)
    BY <1>1, <2>3, RequestKept DEF ConfigAnswered, OverrideAnswered, Settled
  <2>4. CASE NamespacesAnswered(w, a)
    <3> DEFINE names == NamespacesListed(a)
               known == [j EXCEPT !.listed = names, !.todo = names]
    <3>1. /\ known \in Jobs /\ known.op = j.op /\ known.key = j.key /\ known.status = "none"
          /\ Same(Reply([known EXCEPT !.todo = {}], "ok"), j)
      BY <1>1, RootAssumption DEF NamespacesListed, Reply, Same, Jobs
    <3>2. Swept(j) => \A i \in Onward(known) : Same(i, j)
      BY <3>1, RequestKept DEF Same
    <3>3. QED
      BY <1>2, <2>4, <3>1, <3>2 DEF NamespacesAnswered
  <2>5. QED
    BY <2>1, <2>2, <2>3, <2>4
       DEF Handle, DeleteAnswered, RotateAnswered, InfoAnswered, CreateNamespaceAnswered,
           DeleteNamespaceAnswered, Stages
<1>4. QED
  BY <1>3 DEF Continue, StepsTo

\* What a handler does with an answer, whatever its request.
LEMMA HandleForm ==
  ASSUME TypeOK, StageInv, NEW w \in Workers, NEW a \in Answers, Handle(w, a)
  PROVE  /\ Busy(w)
         /\ \A u \in Workers \ {w} : job'[u] = job[u] /\ ans'[u] = ans[u]
         /\ Same(job'[w], job[w]) /\ ans'[w] = Pending /\ StepsTo(w, job'[w])
         /\ job[w].op \in PlainOps => Moves(job[w], a, job'[w])
         /\ UNCHANGED <<baoVars, reqs, eff, seen, kept, alone>>
<1>1. Busy(w)
  BY HandleBusy
<1>2. \A i : StepsTo(w, i) => job'[w] = i
  BY DEF StepsTo, TypeOK
<1>3. Same(job'[w], job[w]) /\ StepsTo(w, job'[w])
  BY <1>1, <1>2, HandleKeeps
<1>4. job[w].op \in PlainOps => Moves(job[w], a, job'[w])
  BY <1>1, <1>2, PlainHandle DEF StageInv
<1>5. /\ ans' = [ans EXCEPT ![w] = Pending]
      /\ UNCHANGED <<baoVars, reqs, eff, seen, kept, alone>>
  BY DEF Handle
<1>6. QED
  BY <1>1, <1>3, <1>4, <1>5 DEF StepsTo, TypeOK

\* What a request begins with.
LEMMA BeginForm ==
  ASSUME TypeOK, StageInv, NEW w \in Workers, NEW op \in AllOps, NEW n \in Namespaces,
         NEW k \in Keys, NEW allow \in {"unset", "true", "false"},
         Begin(w, op, n, k, allow)
  PROVE  /\ job'[w].op = op /\ job'[w].ns = n /\ job'[w].key = k
         /\ job'[w].stage = FirstStage(op) /\ job'[w].status = "none"
         /\ job'[w].phase = IF op \in NsOps \cup Sweeps \cup {"namespaces"} THEN "call" ELSE "mounts"
         /\ job'[w].todo = {} /\ job'[w].done = {} /\ job'[w].failed = {}
         /\ \A u \in Workers \ {w} : job'[u] = job[u]
         /\ ~Busy(w) /\ ans[w] = Pending /\ UNCHANGED <<baoVars, ans, orphans, faults>>
         /\ eff' = [eff EXCEPT ![w] = 0] /\ kept' = [kept EXCEPT ![w] = live]
<1> DEFINE i == [Idle EXCEPT !.op = op, !.ns = n, !.key = k, !.allow = allow]
           j == Enter(i, FirstStage(op))
<1>1. i \in Jobs /\ i.op = op /\ i.ns = n /\ i.key = k /\ i.status = "none"
      /\ i.todo = {} /\ i.done = {} /\ i.failed = {}
  BY RootAssumption, KeysAssumption DEF Idle, AnyKey, Jobs, Stages, NoOp
<1>2. /\ FirstStage(op) \in NsOps \cup {"namespaces"}
           <=> op \in NsOps \cup Sweeps \cup {"namespaces"}
      /\ FirstStage(op) \in Stages
  BY DEF FirstStage, AllOps, NsOps, KeyOps, Sweeps, Stages
<1> HIDE DEF i
<1>3. /\ j.op = i.op /\ j.ns = i.ns /\ j.key = i.key /\ j.status = i.status
      /\ j.todo = i.todo /\ j.done = i.done /\ j.failed = i.failed
      /\ j.stage = FirstStage(op)
      /\ j.phase = IF FirstStage(op) \in NsOps \cup {"namespaces"} THEN "call" ELSE "mounts"
  BY <1>1 DEF Enter, Jobs
<1>4. job' = [job EXCEPT ![w] = j] /\ ~Busy(w)
      /\ UNCHANGED <<baoVars, ans, orphans, faults>>
      /\ eff' = [eff EXCEPT ![w] = 0] /\ kept' = [kept EXCEPT ![w] = live]
  BY DEF Begin, i
<1>5. ans[w] = Pending
  BY <1>4 DEF StageInv
<1> HIDE DEF j
<1>6. job'[w] = j
  BY <1>4 DEF TypeOK
<1>7. \A u \in Workers \ {w} : job'[u] = job[u]
  BY <1>4 DEF TypeOK
<1>8. QED
  BY <1>1, <1>2, <1>3, <1>4, <1>5, <1>6, <1>7

\* A request of one kind for one namespace stays in its own stages.
LEMMA MovesStage ==
  ASSUME NEW j \in Jobs, NEW i \in Jobs, NEW a, j.phase # "idle", StageOK(j),
         i.op = j.op, j.op \in PlainOps => Moves(j, a, i)
  PROVE  StageOK(i)
BY DEF Moves, AfterConfig, At, Replied, StageOK, Jobs, PlainOps, KeyOps, NsOps

\* Every step keeps a request in the stages of its kind.
LEMMA StageStep ==
  ASSUME TypeOK, TypeOK', StageInv, [Next]_vars
  PROVE  StageInv'
<1>1. ASSUME NEW w \in Workers, NEW a \in Answers, Handle(w, a)
      PROVE  StageInv'
  <2>1. /\ Busy(w) /\ Same(job'[w], job[w]) /\ ans'[w] = Pending
        /\ \A u \in Workers \ {w} : job'[u] = job[u] /\ ans'[u] = ans[u]
        /\ job[w].op \in PlainOps => Moves(job[w], a, job'[w])
    BY <1>1, HandleForm
  <2>2. StageOK(job'[w])
    BY <2>1, MovesStage DEF TypeOK, StageInv, Busy, Same
  <2>3. QED
    BY <2>1, <2>2 DEF StageInv, Busy
<1>2. ASSUME NEW w \in Workers,
             \/ NamespacesCollection(w) \/ NamespaceItem(w) \/ KeysCollection(w)
             \/ KeysItem(w) \/ EnsureAllNamespaces(w) \/ CliOperation(w)
      PROVE  StageInv'
  <2>1. PICK op \in AllOps, n \in Namespaces, k \in Keys, allow \in {"unset", "true", "false"} :
               Begin(w, op, n, k, allow)
    BY <1>2, RequestBegins
  <2>2. /\ job'[w].op = op /\ job'[w].stage = FirstStage(op)
        /\ job'[w].phase = IF op \in NsOps \cup Sweeps \cup {"namespaces"} THEN "call" ELSE "mounts"
        /\ \A u \in Workers \ {w} : job'[u] = job[u]
        /\ ans' = ans
    BY <2>1, BeginForm
  <2>3. StageOK(job'[w])
    BY <2>2 DEF StageOK, FirstStage, PlainOps, KeyOps, NsOps, Sweeps
  <2>4. QED
    BY <2>2, <2>3 DEF StageInv, Busy
<1>3. ASSUME NEW w \in Workers, NEW op \in Ops, Reject(w, op)
      PROVE  StageInv'
  <2>1. StageOK([Idle EXCEPT !.op = op, !.status = "rejected"])
    BY DEF Idle, StageOK
  <2>2. QED
    BY <1>3, <2>1 DEF Reject, StageInv, Busy, TypeOK
<1>4. ASSUME NEW w \in Workers, Exec(w)
      PROVE  StageInv'
  BY <1>4 DEF Exec, StageInv, Busy, TypeOK
<1>5. ASSUME NEW w \in Workers, Recv(w) \/ Timeout(w) \/ Garble(w)
      PROVE  StageInv'
  <2>1. \E a \in Answers : Handle(w, a)
    BY <1>5 DEF Recv, Timeout, Garble, TypeOK, Answers
  <2>2. QED
    BY <1>1, <2>1
<1>6. ASSUME NEW w \in Workers, Retry(w)
      PROVE  StageInv'
  BY <1>6 DEF Retry, StageInv, Busy, TypeOK
<1>7. ASSUME NEW w \in Workers, Crash(w)
      PROVE  StageInv'
  <2>1. StageOK(Idle)
    BY DEF Idle, StageOK, NoOp, PlainOps, KeyOps, NsOps
  <2>2. QED
    BY <1>7, <2>1 DEF Crash, StageInv, Busy, TypeOK
<1>8. ASSUME NEW c \in orphans, ExecOrphan(c)
      PROVE  StageInv'
  BY <1>8 DEF ExecOrphan, StageInv, Busy
<1>9. CASE UNCHANGED vars
  BY <1>9 DEF vars, StageInv, Busy
<1>10. QED
  BY <1>2, <1>3, <1>4, <1>5, <1>6, <1>7, <1>8, <1>9 DEF Next

\* So the stages are as they should be in every state.
LEMMA StageHolds == Spec => []StageInv
<1>1. Init => StageInv
  BY DEF Init, Idle, NoOp, StageInv, StageOK, PlainOps, KeyOps, NsOps, Busy
<1>2. TypeOK /\ TypeOK' /\ StageInv /\ [Next]_vars => StageInv'
  BY StageStep
<1>3. QED
  BY <1>1, <1>2, TypeCorrect, PTL DEF Spec

-----------------------------------------------------------------------------
(***************************************************************************)
(* Replies are truthful.  TruthfulReply speaks of answered requests; the   *)
(* strengthening counts what the server did of a request under way, as far *)
(* as the stage and the answer tell: a request that configures its key, or *)
(* has a positive answer to its own call, was carried out.                 *)
(***************************************************************************)
Counted == KeyOps \cup NsOps

\* Of job j, its answer a, the e times the server did what it asks for, f faults.
TruthOK(j, a, e, f) ==
  j.op \in Counted =>
    /\ (\/ j.stage \in {"config", "override"}
        \/ j.stage = j.op /\ j.phase = "call" /\ a.st = "ok"
        \/ j.status = "ok") => e >= 1 /\ (f = 0 => e = 1)
    /\ (\/ j.stage = j.op /\ (j.phase = "call" => a.st # "ok")
        \/ j.status = "gateway") => (f = 0 => e = 0)

TruthInv == \A w \in Workers : TruthOK(job[w], ans[w], eff[w], faults)

\* A handler that handles answer b, or in its place a fault's answer a, keeps
\* the count.
LEMMA MovesTruth ==
  ASSUME NEW j \in GoodJobs, NEW i \in Jobs, NEW a, NEW b, NEW e \in Nat, NEW f \in Nat,
         NEW g \in Nat, j.phase # "idle", StageOK(j), i.op = j.op,
         j.op \in PlainOps => Moves(j, a, i), TruthOK(j, b, e, f),
         \/ a = b /\ g = f
         \/ (a.st = "ok" => b.st = "ok") /\ g > 0
  PROVE  TruthOK(i, Pending, e, g)
<1>1. SUFFICES ASSUME j.op \in Counted
               PROVE  TruthOK(i, Pending, e, g)
  BY DEF TruthOK
<1>2. /\ Moves(j, a, i) /\ j.op \in PlainOps /\ i.op \in Counted
      /\ j.phase \in {"mounts", "enable", "call"} /\ j.status = "none" /\ j.stage # "idle"
      /\ j.op \notin {"config", "override", "idle"}
  BY <1>1 DEF Counted, PlainOps, KeyOps, NsOps, GoodJobs, Jobs
<1>3. /\ Pending.st # "ok"
      /\ a.st = "ok" => b.st = "ok"
      /\ g = 0 => f = 0 /\ a = b
  BY DEF Pending
<1>4. CASE j.stage \in {"config", "override"}
  <2>1. e >= 1 /\ (g = 0 => e = 1)
    BY <1>1, <1>3, <1>4 DEF TruthOK
  <2>2. i.stage # i.op /\ i.status # "gateway"
    BY <1>2, <1>4 DEF Moves, AfterConfig, At, Replied
  <2>3. QED
    BY <1>2, <2>1, <2>2 DEF TruthOK
<1>5. CASE j.stage \notin {"config", "override"}
  <2>1. j.stage = j.op
    BY <1>2, <1>5 DEF StageOK
  <2>2. CASE j.phase # "call"
    <3>1. /\ i.stage = i.op \/ i.status = "gateway"
          /\ i.stage \notin {"config", "override"} /\ i.status # "ok"
      BY <1>2, <1>5, <2>1, <2>2 DEF Moves, At, Replied
    <3>2. g = 0 => e = 0
      BY <1>1, <1>3, <2>1, <2>2 DEF TruthOK
    <3>3. QED
      BY <1>3, <3>1, <3>2 DEF TruthOK
  <2>3. CASE j.phase = "call" /\ a.st # "ok"
    <3>1. i.status = "gateway" /\ i.stage \notin {"config", "override"}
      BY <1>2, <1>5, <2>3 DEF Moves, Replied
    <3>2. g = 0 => e = 0
      BY <1>1, <1>3, <2>1, <2>3 DEF TruthOK
    <3>3. QED
      BY <1>3, <3>1, <3>2 DEF TruthOK
  <2>4. CASE j.phase = "call" /\ a.st = "ok"
    <3>1. i.stage # i.op /\ i.status # "gateway"
      BY <1>2, <1>5, <2>4 DEF Moves, At, Replied
    <3>2. e >= 1 /\ (g = 0 => e = 1)
      BY <1>1, <1>3, <2>1, <2>4 DEF TruthOK
    <3>3. QED
      BY <1>2, <3>1, <3>2 DEF TruthOK
  <2>5. QED
    BY <2>2, <2>3, <2>4
<1>6. QED
  BY <1>4, <1>5

\* More faults, less to promise.
LEMMA FaultTruth ==
  ASSUME NEW j, NEW a, NEW e, NEW f \in Nat, TruthOK(j, a, e, f)
  PROVE  TruthOK(j, a, e, f + 1)
<1>1. f + 1 # 0
  OBVIOUS
<1>2. QED
  BY <1>1 DEF TruthOK

\* The server counts what it does of a request, and its answer says so.
LEMMA ExecTruth ==
  ASSUME NEW j \in GoodJobs, NEW e \in Nat, NEW f, NEW ok \in BOOLEAN,
         StageOK(j), j.phase # "idle", TruthOK(j, Pending, e, f)
  PROVE  TruthOK(j, AnswerTo(CallOf(j), ok),
                 IF ok /\ CallKind(j) = j.op THEN e + 1 ELSE e, f)
<1>1. SUFFICES ASSUME j.op \in Counted
               PROVE  TruthOK(j, AnswerTo(CallOf(j), ok),
                              IF ok /\ CallKind(j) = j.op THEN e + 1 ELSE e, f)
  BY DEF TruthOK
<1>2. AnswerTo(CallOf(j), ok).st = "ok" <=> ok
  BY DEF AnswerTo, Refusal
<1>3. j.op \in PlainOps /\ j.op \notin {"config", "override", "mounts", "enable"}
  BY <1>1 DEF Counted, PlainOps, KeyOps, NsOps
<1>4. CallKind(j) = j.op <=> j.phase = "call" /\ j.stage = j.op
  BY <1>3 DEF CallKind, Jobs, GoodJobs
<1>5. j.stage = j.op \/ j.stage \in {"config", "override"}
  BY <1>3 DEF StageOK, GoodJobs
<1>6. Pending.st # "ok"
  BY DEF Pending
<1> DEFINE a == AnswerTo(CallOf(j), ok)
           asked == j.phase = "call" /\ j.stage = j.op
<1>7. /\ j.stage \in {"config", "override"} \/ j.status = "ok" => e >= 1 /\ (f = 0 => e = 1)
      /\ j.stage = j.op \/ j.status = "gateway" => (f = 0 => e = 0)
      /\ asked => j.stage = j.op
  BY <1>1, <1>6 DEF TruthOK
<1> HIDE DEF a
<1>8. CASE ok /\ asked
  <2>1. TruthOK(j, a, e + 1, f)
    <3>1. a.st = "ok" /\ j.status = "none"
      BY <1>2, <1>8 DEF a, GoodJobs
    <3>2. f = 0 => e = 0
      BY <1>7, <1>8
    <3>3. e + 1 >= 1 /\ (f = 0 => e + 1 = 1)
      BY <3>2
    <3>4. QED
      BY <1>8, <3>1, <3>3 DEF TruthOK
  <2>2. QED
    BY <1>4, <1>8, <2>1 DEF a
<1>9. CASE ~(ok /\ asked)
  <2>1. asked => a.st # "ok"
    BY <1>2, <1>9 DEF a
  <2>2. TruthOK(j, a, e, f)
    BY <1>7, <2>1 DEF TruthOK
  <2>3. QED
    BY <1>4, <1>9, <2>2 DEF a
<1>10. QED
  BY <1>8, <1>9

\* Handling an answer, or a fault in its place, keeps every worker's count.
LEMMA HandleTruth ==
  ASSUME TypeOK, TypeOK', StageInv, TruthInv, NEW w \in Workers, NEW a \in Answers, Handle(w, a),
         \/ a = ans[w] /\ faults' = faults
         \/ (a.st = "ok" => ans[w].st = "ok") /\ faults' = faults + 1
  PROVE  TruthInv'
<1>1. /\ Busy(w) /\ Same(job'[w], job[w]) /\ ans'[w] = Pending /\ eff' = eff
      /\ \A u \in Workers \ {w} : job'[u] = job[u] /\ ans'[u] = ans[u]
      /\ job[w].op \in PlainOps => Moves(job[w], a, job'[w])
  BY HandleForm
<1>2. /\ faults \in Nat /\ faults' \in Nat
      /\ \A u \in Workers : eff[u] \in Nat /\ job[u] \in GoodJobs /\ job'[u] \in Jobs
  BY BoundAssumption DEF TypeOK, GoodJobs, Busy
<1>3. TruthOK(job'[w], Pending, eff[w], faults')
  <2>1. \/ a = ans[w] /\ faults' = faults
        \/ (a.st = "ok" => ans[w].st = "ok") /\ faults' > 0
    BY <1>2
  <2>2. /\ job[w].phase # "idle" /\ StageOK(job[w]) /\ job'[w].op = job[w].op
        /\ TruthOK(job[w], ans[w], eff[w], faults)
    BY <1>1 DEF Busy, StageInv, Same, TruthInv
  <2>3. QED
    BY <1>1, <1>2, <2>1, <2>2, MovesTruth
<1>4. ASSUME NEW u \in Workers \ {w}
      PROVE  TruthOK(job[u], ans[u], eff[u], faults')
  <2>1. TruthOK(job[u], ans[u], eff[u], faults)
    BY DEF TruthInv
  <2>2. TruthOK(job[u], ans[u], eff[u], faults + 1)
    BY <1>2, <2>1, FaultTruth
  <2>3. QED
    BY <2>1, <2>2
<1>5. QED
  BY <1>1, <1>3, <1>4 DEF TruthInv

\* No step makes an answer say more or less than the server did.
LEMMA TruthStep ==
  ASSUME TypeOK, TypeOK', StageInv, TruthInv, [Next]_vars
  PROVE  TruthInv'
<1> USE DEF Pending
<1>1. /\ faults \in Nat
      /\ \A u \in Workers : /\ eff[u] \in Nat /\ job[u] \in GoodJobs
                            /\ TruthOK(job[u], ans[u], eff[u], faults)
  BY BoundAssumption DEF TypeOK, GoodJobs, Busy, TruthInv
<1>2. \A j : j.op \notin Counted => \A a, e, f : TruthOK(j, a, e, f)
  BY DEF TruthOK
<1>3. ASSUME NEW w \in Workers,
             \/ NamespacesCollection(w) \/ NamespaceItem(w) \/ KeysCollection(w)
             \/ KeysItem(w) \/ EnsureAllNamespaces(w) \/ CliOperation(w)
      PROVE  TruthInv'
  <2>1. PICK op \in AllOps, n \in Namespaces, k \in Keys, allow \in {"unset", "true", "false"} :
               Begin(w, op, n, k, allow)
    BY <1>3, RequestBegins
  <2>2. /\ job'[w].op = op /\ job'[w].stage = FirstStage(op) /\ job'[w].status = "none"
        /\ \A u \in Workers \ {w} : job'[u] = job[u]
        /\ ans[w] = Pending /\ ans' = ans /\ faults' = faults
        /\ eff' = [eff EXCEPT ![w] = 0]
    BY <2>1, BeginForm
  <2>3. TruthOK(job'[w], ans'[w], 0, faults')
    BY <2>2 DEF TruthOK, FirstStage, Counted, KeyOps, NsOps, Sweeps
  <2>4. eff'[w] = 0 /\ \A u \in Workers \ {w} : eff'[u] = eff[u]
    BY <2>2 DEF TypeOK
  <2>5. QED
    BY <1>1, <2>2, <2>3, <2>4 DEF TruthInv
<1>4. ASSUME NEW w \in Workers, NEW op \in Ops, Reject(w, op)
      PROVE  TruthInv'
  <2> DEFINE j == [Idle EXCEPT !.op = op, !.status = "rejected"]
  <2>1. j.stage = "idle" /\ j.status = "rejected" /\ j.op = op /\ op # "idle"
    BY OpsAssumption DEF Idle, AllOps, KeyOps, NsOps, Sweeps
  <2>2. \A a, e, f : TruthOK(j, a, e, f)
    BY <2>1 DEF TruthOK
  <2>3. /\ job'[w] = j /\ ans' = ans /\ faults' = faults
        /\ \A u \in Workers \ {w} : job'[u] = job[u] /\ eff'[u] = eff[u]
    BY <1>4 DEF Reject, TypeOK
  <2>4. QED
    BY <1>1, <2>2, <2>3 DEF TruthInv
<1>5. ASSUME NEW w \in Workers, Exec(w)
      PROVE  TruthInv'
  <2>1. PICK ok \in BOOLEAN :
          /\ ans' = [ans EXCEPT ![w] = AnswerTo(CallOf(job[w]), ok)]
          /\ eff' = IF ok /\ CallKind(job[w]) = job[w].op
                    THEN [eff EXCEPT ![w] = @ + 1] ELSE eff
    BY <1>5 DEF Exec
  <2>2. job' = job /\ faults' = faults /\ Busy(w) /\ ans[w] = Pending
    BY <1>5 DEF Exec
  <2>3. TruthOK(job[w], AnswerTo(CallOf(job[w]), ok),
                IF ok /\ CallKind(job[w]) = job[w].op THEN eff[w] + 1 ELSE eff[w], faults)
    BY <1>1, <2>2, ExecTruth DEF Busy, StageInv
  <2>4. eff'[w] = IF ok /\ CallKind(job[w]) = job[w].op THEN eff[w] + 1 ELSE eff[w]
    BY <2>1 DEF TypeOK
  <2>5. ans'[w] = AnswerTo(CallOf(job[w]), ok)
    BY <2>1 DEF TypeOK
  <2>6. \A u \in Workers \ {w} : eff'[u] = eff[u] /\ ans'[u] = ans[u]
    BY <2>1 DEF TypeOK
  <2>7. QED
    BY <1>1, <2>2, <2>3, <2>4, <2>5, <2>6 DEF TruthInv
<1>6. ASSUME NEW w \in Workers, Recv(w)
      PROVE  TruthInv'
  BY <1>6, HandleTruth DEF Recv, TypeOK
<1>7. ASSUME NEW w \in Workers, Timeout(w)
      PROVE  TruthInv'
  <2>1. [st |-> "err", set |-> {}] \in Answers
    BY DEF Answers
  <2>2. QED
    BY <1>7, <2>1, HandleTruth DEF Timeout, Fault
<1>8. ASSUME NEW w \in Workers, Garble(w)
      PROVE  TruthInv'
  <2>1. [st |-> "ok", set |-> {}] \in Answers
    BY DEF Answers
  <2>2. QED
    BY <1>8, <2>1, HandleTruth DEF Garble, Fault
<1>9. ASSUME NEW w \in Workers, Retry(w) \/ Crash(w)
      PROVE  TruthInv'
  <2>1. /\ job'[w] \in {job[w], Idle} /\ ans'[w] = Pending /\ eff' = eff /\ faults' = faults + 1
        /\ \A u \in Workers \ {w} : job'[u] = job[u] /\ ans'[u] = ans[u]
    BY <1>9 DEF Retry, Crash, Fault, history, TypeOK
  <2>2. \A u \in Workers : TruthOK(job[u], ans[u], eff[u], faults + 1)
    BY <1>1, FaultTruth
  <2>3. Idle.op \notin Counted
    BY DEF Idle, NoOp, Counted, KeyOps, NsOps
  <2>4. faults + 1 # 0
    BY <1>1
  <2>5. TruthOK(job[w], Pending, eff[w], faults + 1)
    BY <2>2, <2>4 DEF TruthOK
  <2>6. QED
    BY <1>2, <2>1, <2>2, <2>3, <2>5 DEF TruthInv
<1>10. ASSUME NEW c \in orphans, ExecOrphan(c)
       PROVE  TruthInv'
  BY <1>1, <1>10 DEF ExecOrphan, TruthInv
<1>11. CASE UNCHANGED vars
  BY <1>1, <1>11 DEF vars, history, TruthInv
<1>12. QED
  BY <1>3, <1>4, <1>5, <1>6, <1>7, <1>8, <1>9, <1>10, <1>11 DEF Next

\* A request to create, delete or rotate that is answered 2xx was carried out,
\* for any number of requests and faults; without faults exactly once, and one
\* answered 502 was not.
THEOREM RepliesAreTruthful == Spec => []TruthfulReply
<1>1. Init => TruthInv
  BY DEF Init, Idle, NoOp, TruthInv, TruthOK, Counted, KeyOps, NsOps
<1>2. TypeOK /\ TypeOK' /\ StageInv /\ TruthInv /\ [Next]_vars => TruthInv'
  BY TruthStep
<1>3. TruthInv => TruthfulReply
  BY DEF TruthInv, TruthOK, TruthfulReply, Counted
<1>4. QED
  BY <1>1, <1>2, <1>3, TypeCorrect, StageHolds, PTL DEF Spec

-----------------------------------------------------------------------------
(***************************************************************************)
(* The engine is left mounted.  While a request in a namespace that is     *)
(* there all along goes on without faults, the phase it is in and the      *)
(* answer it has say whether the engine is there.                          *)
(***************************************************************************)
\* Of job j, its answer a, the namespaces K that exist since it began, f faults.
EngineOK(j, a, K, M, f) ==
  j.op \in KeyOps \cup {"info"} /\ f = 0 /\ j.ns \in K =>
    /\ j.phase = "mounts" =>
         a = Pending \/ (a.st = "ok" /\ ("transit" \in a.set => j.ns \in M))
    /\ j.phase = "enable" => a = Pending \/ j.ns \in M
    /\ j.phase = "call" \/ j.status \in {"ok", "gateway"} => j.ns \in M

EngineInv ==
  \A w \in Workers : kept[w] \subseteq live /\ EngineOK(job[w], ans[w], kept[w], mounted, faults)

\* What the server does to the engines of namespaces K that are there: it keeps
\* those of the namespaces it keeps, tells the truth of them, and mounts them.
LEMMA ServeEngine ==
  ASSUME NEW c, NEW ok \in BOOLEAN, Serve(c, ok), NEW K, K \subseteq live
  PROVE  /\ (K \cap live') \cap mounted \subseteq mounted'
         /\ c.kind = "mounts" /\ c.ns \in K => ok /\ mounted' = mounted
         /\ c.kind = "enable" /\ c.ns \in K => c.ns \in mounted'
<1>1. Verdicts(c) = IF c.kind \in {"createNs", "deleteNs"} THEN {TRUE} \cup {Accepts(c)}
                    ELSE {Accepts(c)}
  BY DEF Verdicts
<1>2. CASE ~ok
  <2>1. mounted' = mounted
    BY <1>2 DEF Serve, baoVars
  <2>2. c.kind \in {"mounts", "enable"} => ~Accepts(c)
    BY <1>1, <1>2 DEF Serve
  <2>3. c.kind = "mounts" => c.ns \notin K
    BY <2>2 DEF Accepts
  <2>4. c.kind = "enable" => c.ns \notin K \/ c.ns \in mounted
    BY <2>2 DEF Accepts
  <2>5. QED
    BY <2>1, <2>3, <2>4
<1>3. CASE ok
  <2>1. Apply(c)
    BY <1>3 DEF Serve
  <2>2. (K \cap live') \cap mounted \subseteq mounted'
    BY <2>1 DEF Apply, baoVars, EnableTransit, CreateKey, ConfigKey, DeleteKey, RotateKey,
       CreateNamespace, DeleteNamespace
  <2>3. c.kind = "mounts" => mounted' = mounted
    BY <2>1 DEF Apply, baoVars, EnableTransit, CreateKey, ConfigKey, DeleteKey, RotateKey,
       CreateNamespace, DeleteNamespace
  <2>4. c.kind = "enable" => c.ns \in mounted'
    BY <2>1 DEF Apply, Reads, baoVars, EnableTransit, CreateKey, ConfigKey, DeleteKey, RotateKey,
       CreateNamespace, DeleteNamespace
  <2>5. QED
    BY <1>3, <2>2, <2>3, <2>4
<1>4. QED
  BY <1>2, <1>3

\* A handler goes on to its own call only if the engine is there.
LEMMA MovesEngine ==
  ASSUME NEW j \in GoodJobs, NEW i \in Jobs, NEW a, NEW K, NEW M, NEW f,
         j.phase # "idle", a # Pending, i.op = j.op,
         j.op \in PlainOps => Moves(j, a, i), EngineOK(j, a, K, M, f)
  PROVE  EngineOK(i, Pending, K, M, f)
<1>1. SUFFICES ASSUME j.op \in KeyOps \cup {"info"}, f = 0, i.ns \in K
               PROVE  EngineOK(i, Pending, K, M, f)
  BY DEF EngineOK
<1>2. Moves(j, a, i) /\ j.ns \in K /\ i.ns = j.ns
  BY <1>1 DEF PlainOps, Moves
<1>3. j.phase \in {"mounts", "enable", "call"}
  BY DEF GoodJobs, Jobs
<1>4. CASE j.phase = "mounts"
  <2>1. a.st = "ok" /\ ("transit" \in a.set => j.ns \in M)
    BY <1>1, <1>2, <1>4 DEF EngineOK
  <2>2. i.phase \in {"call", "enable"} /\ i.status = "none" /\ (i.phase = "call" => "transit" \in a.set)
    BY <1>2, <1>4, <2>1 DEF Moves, At
  <2>3. QED
    BY <1>2, <2>1, <2>2 DEF EngineOK
<1>5. CASE j.phase \in {"enable", "call"}
  <2>1. i.ns \in M
    BY <1>1, <1>2, <1>5 DEF EngineOK
  <2>2. QED
    BY <2>1 DEF EngineOK
<1>6. QED
  BY <1>3, <1>4, <1>5

\* What the server does for others does not take the engine away.
LEMMA KeptEngine ==
  ASSUME NEW j, NEW a, NEW K, NEW L, NEW M, NEW N, NEW f,
         EngineOK(j, a, K, M, f), L \subseteq K, L \cap M \subseteq N
  PROVE  EngineOK(j, a, L, N, f)
BY DEF EngineOK

\* And its answers to the request itself say whether the engine is there.
LEMMA ExecEngine ==
  ASSUME NEW j \in GoodJobs, NEW K, NEW L, NEW f, NEW ok \in BOOLEAN, j.phase # "idle",
         EngineOK(j, Pending, K, mounted, f), K \subseteq live, L = K \cap live',
         Serve(CallOf(j), ok)
  PROVE  EngineOK(j, AnswerTo(CallOf(j), ok), L, mounted', f)
<1> DEFINE c == CallOf(j)
           a == AnswerTo(c, ok)
<1>1. /\ L \cap mounted \subseteq mounted'
      /\ c.kind = "mounts" /\ c.ns \in K => ok /\ mounted' = mounted
      /\ c.kind = "enable" /\ c.ns \in K => c.ns \in mounted'
  BY ServeEngine
<1>2. c.ns = j.ns /\ (j.phase \in {"mounts", "enable"} => c.kind = j.phase)
  BY DEF CallOf, CallKind
<1>3. ok => a.st = "ok" /\ a.set = Listing(c)
  BY DEF AnswerTo
<1>4. c.kind = "mounts" /\ "transit" \in Listing(c) => c.ns \in mounted
  BY DEF Listing
<1> HIDE DEF c, a
<1>5. ASSUME j.op \in KeyOps \cup {"info"}, f = 0, j.ns \in L
      PROVE  /\ j.phase = "mounts" => a.st = "ok" /\ ("transit" \in a.set => j.ns \in mounted')
             /\ j.phase = "enable" => j.ns \in mounted'
             /\ j.phase = "call" \/ j.status \in {"ok", "gateway"} => j.ns \in mounted'
  BY <1>1, <1>2, <1>3, <1>4, <1>5 DEF EngineOK
<1>6. QED
  BY <1>5 DEF EngineOK, a, c

\* Every step leaves the engine of a request where the request left it.
LEMMA EngineStep ==
  ASSUME TypeOK, TypeOK', StageInv, EngineInv, [Next]_vars
  PROVE  EngineInv'
<1>1. /\ faults \in Nat
      /\ \A u \in Workers : /\ kept[u] \subseteq live /\ job[u] \in GoodJobs
                            /\ EngineOK(job[u], ans[u], kept[u], mounted, faults)
  BY BoundAssumption DEF TypeOK, GoodJobs, Busy, EngineInv
<1>2. ASSUME faults' = faults + 1, UNCHANGED <<live, kept>>
      PROVE  EngineInv'
  <2>1. faults' # 0
    BY <1>1, <1>2
  <2>2. QED
    BY <1>1, <1>2, <2>1 DEF EngineInv, EngineOK
<1>3. ASSUME NEW w \in Workers,
             \/ NamespacesCollection(w) \/ NamespaceItem(w) \/ KeysCollection(w)
             \/ KeysItem(w) \/ EnsureAllNamespaces(w) \/ CliOperation(w)
      PROVE  EngineInv'
  <2>1. PICK op \in AllOps, n \in Namespaces, k \in Keys, allow \in {"unset", "true", "false"} :
               Begin(w, op, n, k, allow)
    BY <1>3, RequestBegins
  <2>2. /\ job'[w].op = op /\ job'[w].status = "none"
        /\ job'[w].phase = IF op \in NsOps \cup Sweeps \cup {"namespaces"} THEN "call" ELSE "mounts"
        /\ \A u \in Workers \ {w} : job'[u] = job[u]
        /\ ans[w] = Pending /\ ans' = ans /\ faults' = faults /\ baoVars' = baoVars
        /\ kept' = [kept EXCEPT ![w] = live]
    BY <2>1, BeginForm
  <2>3. \A K, M, f : EngineOK(job'[w], Pending, K, M, f)
    BY <2>2 DEF EngineOK, KeyOps, NsOps, Sweeps
  <2>4. live' = live /\ mounted' = mounted
    BY <2>2 DEF baoVars
  <2>5. kept'[w] = live /\ \A u \in Workers \ {w} : kept'[u] = kept[u]
    BY <2>2 DEF TypeOK
  <2>6. QED
    BY <1>1, <2>2, <2>3, <2>4, <2>5 DEF EngineInv
<1>4. ASSUME NEW w \in Workers, NEW op \in Ops, Reject(w, op)
      PROVE  EngineInv'
  <2> DEFINE j == [Idle EXCEPT !.op = op, !.status = "rejected"]
  <2>1. \A a, K, M, f : EngineOK(j, a, K, M, f)
    BY DEF Idle, EngineOK
  <2>2. /\ job'[w] = j /\ ans' = ans /\ faults' = faults /\ kept' = kept
        /\ live' = live /\ mounted' = mounted
        /\ \A u \in Workers \ {w} : job'[u] = job[u]
    BY <1>4 DEF Reject, TypeOK, baoVars
  <2>3. QED
    BY <1>1, <2>1, <2>2 DEF EngineInv
<1>5. ASSUME NEW c, NEW ok \in BOOLEAN, Serve(c, ok), Witness, NEW u \in Workers
      PROVE  /\ kept'[u] = kept[u] \cap live'
             /\ EngineOK(job[u], ans[u], kept'[u], mounted', faults)
  <2>1. kept'[u] = kept[u] \cap live'
    BY <1>5 DEF Witness
  <2>2. kept'[u] \cap mounted \subseteq mounted'
    BY <1>1, <1>5, <2>1, ServeEngine
  <2>3. QED
    BY <1>1, <2>1, <2>2, KeptEngine
<1>6. ASSUME NEW w \in Workers, Exec(w)
      PROVE  EngineInv'
  <2>1. PICK ok \in BOOLEAN :
          /\ Serve(CallOf(job[w]), ok)
          /\ ans' = [ans EXCEPT ![w] = AnswerTo(CallOf(job[w]), ok)]
    BY <1>6 DEF Exec
  <2>2. job' = job /\ faults' = faults /\ Witness /\ job[w].phase # "idle" /\ ans[w] = Pending
    BY <1>6 DEF Exec, Busy
  <2>3. \A u \in Workers : /\ kept'[u] = kept[u] \cap live'
                           /\ EngineOK(job[u], ans[u], kept'[u], mounted', faults)
    BY <1>5, <2>1, <2>2
  <2>4. EngineOK(job[w], AnswerTo(CallOf(job[w]), ok), kept'[w], mounted', faults)
    BY <1>1, <2>1, <2>2, <2>3, ExecEngine
  <2>5. /\ ans'[w] = AnswerTo(CallOf(job[w]), ok)
        /\ \A u \in Workers \ {w} : ans'[u] = ans[u]
    BY <2>1 DEF TypeOK
  <2>6. QED
    BY <2>2, <2>3, <2>4, <2>5 DEF EngineInv
<1>7. ASSUME NEW w \in Workers, Recv(w)
      PROVE  EngineInv'
  <2>1. ans[w] \in Answers /\ ans[w] # Pending /\ Handle(w, ans[w]) /\ faults' = faults
    BY <1>7 DEF Recv, TypeOK
  <2>2. /\ Busy(w) /\ job'[w].op = job[w].op /\ ans'[w] = Pending
        /\ \A u \in Workers \ {w} : job'[u] = job[u] /\ ans'[u] = ans[u]
        /\ job[w].op \in PlainOps => Moves(job[w], ans[w], job'[w])
        /\ kept' = kept /\ live' = live /\ mounted' = mounted
    BY <2>1, HandleForm DEF Same, baoVars
  <2>3. EngineOK(job'[w], Pending, kept[w], mounted, faults)
    <3>1. job'[w] \in Jobs /\ job[w].phase # "idle"
      BY <2>2 DEF TypeOK, Busy
    <3>2. QED
      BY <1>1, <2>1, <2>2, <3>1, MovesEngine
  <2>4. QED
    BY <1>1, <2>1, <2>2, <2>3 DEF EngineInv
<1>8. ASSUME NEW w \in Workers, Timeout(w) \/ Garble(w) \/ Retry(w) \/ Crash(w)
      PROVE  EngineInv'
  BY <1>2, <1>8 DEF Timeout, Garble, Retry, Crash, Fault, Handle, history, baoVars
<1>9. ASSUME NEW c \in orphans, ExecOrphan(c)
      PROVE  EngineInv'
  <2>1. /\ job' = job /\ ans' = ans /\ faults' = faults /\ Witness
        /\ \E ok \in BOOLEAN : Serve(c, ok)
    BY <1>9 DEF ExecOrphan
  <2>2. \A u \in Workers : /\ kept'[u] = kept[u] \cap live'
                           /\ EngineOK(job[u], ans[u], kept'[u], mounted', faults)
    BY <1>5, <2>1
  <2>3. QED
    BY <2>1, <2>2 DEF EngineInv
<1>10. CASE UNCHANGED vars
  BY <1>1, <1>10 DEF vars, baoVars, history, EngineInv
<1>11. QED
  BY <1>3, <1>4, <1>6, <1>7, <1>8, <1>9, <1>10 DEF Next

\* And so in every state.
LEMMA EngineHolds == Spec => []EngineInv
<1>1. Init => EngineInv
  BY DEF Init, Idle, NoOp, EngineInv, EngineOK, KeyOps
<1>2. TypeOK /\ TypeOK' /\ StageInv /\ EngineInv /\ [Next]_vars => EngineInv'
  BY EngineStep
<1>3. QED
  BY <1>1, <1>2, TypeCorrect, StageHolds, PTL DEF Spec

\* After any key request, a failed one too, the transit engine is mounted if
\* the namespace has been there all along, for any number of requests that
\* mount engines, create and delete namespaces meanwhile.
THEOREM EngineIsLeftMounted == Spec => []EngineLeftMounted
<1>1. EngineInv => EngineLeftMounted
  BY DEF EngineInv, EngineOK, EngineLeftMounted
<1>2. QED
  BY <1>1, EngineHolds, PTL

-----------------------------------------------------------------------------
(***************************************************************************)
(* A sweep leaves no namespace out: from the listing on, each namespace    *)
(* that is there all along is dealt with, at hand or still to do.          *)
(***************************************************************************)
\* Of job j, its answer a and the children C that exist since it began.
CoverOK(j, a, C) ==
  Swept(j) =>
    /\ j.stage \in {"idle", "namespaces"} \cup AtHand
    /\ j.stage = "namespaces" =>
         /\ j.phase = "call" /\ (a = Pending \/ a.st \in {"ok", "notfound"})
         /\ a.st = "ok" => C \subseteq a.set
         /\ a.st = "notfound" => C = {}
    /\ j.stage \in AtHand => C \subseteq Covered(j) \cup j.todo \cup {j.ns}
    /\ j.status = "ok" => C \subseteq Covered(j)

CoverInv ==
  \A w \in Workers :
    CanListNamespaces /\ faults = 0 => CoverOK(job[w], ans[w], kept[w] \ {Root})

\* The loop of a sweep goes on with nothing left out.
LEMMA OnwardCover ==
  ASSUME NEW j \in Jobs, NEW C, Swept(j), j.status = "none", C \subseteq Covered(j) \cup j.todo
  PROVE  \A i \in Onward(j) : CoverOK(i, Pending, C)
<1>1. CASE j.todo = {}
  <2>1. CoverOK(Reply(j, "ok"), Pending, C)
    BY <1>1 DEF Reply, CoverOK, Covered, AtHand, Jobs
  <2>2. QED
    BY <1>1, <2>1 DEF Onward
<1>2. CASE j.todo # {}
  <2> DEFINE m(n) == [j EXCEPT !.ns = n, !.todo = @ \ {n}]
  <2>1. \A n \in j.todo : /\ m(n) \in Jobs /\ m(n).status = "none"
                          /\ C \subseteq Covered(m(n)) \cup m(n).todo \cup {m(n).ns}
    BY DEF Covered, Jobs
  <2>2. \A i \in Onward(j) : \E n \in j.todo : \E s \in {"ensure", "list"} : i = Enter(m(n), s)
    BY <1>2 DEF Onward
  <2> HIDE DEF m
  <2>3. \A k \in Jobs : \A s \in {"ensure", "list"} :
          k.status = "none" /\ C \subseteq Covered(k) \cup k.todo \cup {k.ns}
            => CoverOK(Enter(k, s), Pending, C)
    BY DEF Enter, CoverOK, Covered, AtHand, NsOps, Jobs
  <2>4. QED
    BY <2>1, <2>2, <2>3
<1>3. QED
  BY <1>1, <1>2

\* The namespace at hand is done or failed.
LEMMA OutcomeCover ==
  ASSUME NEW j \in Jobs, NEW C, Swept(j), j.status = "none",
         C \subseteq Covered(j) \cup j.todo \cup {j.ns}
  PROVE  \A i \in Succeed(j) \cup Fail(j) : CoverOK(i, Pending, C)
<1> DEFINE d == [j EXCEPT !.done = @ \cup {j.ns}]
           f == [j EXCEPT !.failed = @ \cup {j.ns}]
<1>1. \A k \in {d, f} : k \in Jobs /\ Swept(k) /\ k.status = "none" /\ C \subseteq Covered(k) \cup k.todo
  BY DEF Swept, Covered, Jobs
<1> HIDE DEF d, f
<1>2. \A k \in {d, f} : \A i \in Onward(k) : CoverOK(i, Pending, C)
  BY <1>1, OnwardCover
<1>3. QED
  BY <1>2 DEF Succeed, Fail, d, f

\* The namespace at hand stays at hand.
LEMMA StayCover ==
  ASSUME NEW j \in Jobs, NEW C, Swept(j), j.status = "none", j.stage \in AtHand,
         C \subseteq Covered(j) \cup j.todo \cup {j.ns}
  PROVE  /\ \A s \in AtHand : CoverOK(Enter(j, s), Pending, C)
         /\ \A p : CoverOK([j EXCEPT !.phase = p], Pending, C)
BY DEF Enter, CoverOK, Covered, AtHand, NsOps, Jobs

\* ensureTransitMounted and the configuration for the namespace at hand.
LEMMA MountCover ==
  ASSUME NEW j \in Jobs, NEW C, Swept(j), j.status = "none", j.stage \in AtHand,
         C \subseteq Covered(j) \cup j.todo \cup {j.ns}
  PROVE  \A i \in Configured(j) \cup Mounted(j) \cup MountFailed(j) : CoverOK(i, Pending, C)
<1>1. Configured(j) = Succeed(j) /\ j.stage # "override"
  BY DEF Configured, Swept, Sweeps, AtHand
<1>2. \A i \in Configured(j) : CoverOK(i, Pending, C)
  BY <1>1, OutcomeCover
<1>3. \A i \in Mounted(j) : CoverOK(i, Pending, C)
  <2>1. CoverOK(Enter(j, "list"), Pending, C) /\ CoverOK([j EXCEPT !.phase = "call"], Pending, C)
    BY StayCover DEF AtHand
  <2>2. QED
    BY <2>1 DEF Mounted
<1>4. \A i \in MountFailed(j) : CoverOK(i, Pending, C)
  BY <1>1, <1>2, StayCover, OutcomeCover DEF MountFailed
<1>5. QED
  BY <1>2, <1>3, <1>4

\* A handler of a sweep leaves no namespace out, whatever it is answered.
LEMMA HandleCover ==
  ASSUME TypeOK, NEW w \in Workers, NEW a \in Answers, a # Pending, Busy(w), Handle(w, a),
         NEW C \in SUBSET Namespaces, Swept(job[w]), CoverOK(job[w], a, C)
  PROVE  \E i : StepsTo(w, i) /\ CoverOK(i, Pending, C)
<1> DEFINE j == job[w]
<1>1. j \in Jobs /\ j.status = "none" /\ j.stage # "idle" /\ Swept(j)
  BY DEF TypeOK, Busy
<1>2. j.stage \in {"namespaces"} \cup AtHand
  BY <1>1 DEF CoverOK
<1>3. \E next : Continue(w, next) /\ \A i \in next : CoverOK(i, Pending, C)
  <2>1. CASE j.stage = "namespaces"
    <3> DEFINE names == NamespacesListed(a)
               known == [j EXCEPT !.listed = names, !.todo = names]
    <3>1. NamespacesAnswered(w, a)
      BY <2>1 DEF Handle, CoverOK, MountsAnswered, EnableAnswered, CreateAnswered,
         ConfigAnswered, OverrideAnswered, Settled, DeleteAnswered, RotateAnswered,
         InfoAnswered, CreateNamespaceAnswered, DeleteNamespaceAnswered, ListAnswered
    <3>2. C \subseteq names
      BY <1>1, <2>1 DEF CoverOK, NamespacesListed
    <3>3. known \in Jobs /\ Swept(known) /\ known.status = "none" /\ known.todo = names
      BY <1>1, RootAssumption DEF NamespacesListed, Swept, Jobs
    <3>4. \A i \in Onward(known) : CoverOK(i, Pending, C)
      BY <3>2, <3>3, OnwardCover
    <3>5. CoverOK(Reply(j, "gateway"), Pending, C)
      BY <1>1 DEF Reply, CoverOK, AtHand, Jobs
    <3>6. QED
      BY <1>1, <3>1, <3>4, <3>5 DEF NamespacesAnswered
  <2>2. CASE j.stage \in AtHand
    <3>1. C \subseteq Covered(j) \cup j.todo \cup {j.ns}
      BY <1>1, <2>2 DEF CoverOK
    <3>2. \A i \in Succeed(j) \cup Fail(j) \cup Configured(j) \cup Mounted(j) \cup MountFailed(j) :
            CoverOK(i, Pending, C)
      BY <1>1, <2>2, <3>1, OutcomeCover, MountCover
    <3>3. /\ \A s \in AtHand : CoverOK(Enter(j, s), Pending, C)
          /\ CoverOK([j EXCEPT !.phase = "enable"], Pending, C)
      BY <1>1, <2>2, <3>1, StayCover
    <3>4. CASE MountsAnswered(w, a) \/ EnableAnswered(w, a)
      BY <3>2, <3>3, <3>4 DEF MountsAnswered, EnableAnswered
    <3>5. CASE CreateAnswered(w, a) \/ ConfigAnswered(w) \/ ListAnswered(w, a)
      BY <3>2, <3>3, <3>5 DEF CreateAnswered, ConfigAnswered, ListAnswered, AtHand
    <3>6. QED
      BY <2>2, <3>4, <3>5
         DEF Handle, OverrideAnswered, Settled, DeleteAnswered, RotateAnswered,
             InfoAnswered, CreateNamespaceAnswered, DeleteNamespaceAnswered,
             NamespacesAnswered, AtHand
  <2>3. QED
    BY <1>2, <2>1, <2>2
<1>4. QED
  BY <1>3 DEF Continue, StepsTo

\* The server lists every child there is, and says so if there is none.
LEMMA ExecCover ==
  ASSUME NEW j \in GoodJobs, NEW K, K \subseteq live, NEW ok \in BOOLEAN, CanListNamespaces,
         Serve(CallOf(j), ok), CoverOK(j, Pending, K \ {Root}), j.phase # "idle"
  PROVE  CoverOK(j, AnswerTo(CallOf(j), ok), (K \cap live') \ {Root})
<1> DEFINE c == CallOf(j)
           a == AnswerTo(c, ok)
<1>1. ASSUME Swept(j), j.stage = "namespaces"
      PROVE  /\ a.st \in {"ok", "notfound"}
             /\ a.st = "ok" => K \ {Root} \subseteq a.set
             /\ a.st = "notfound" => K \ {Root} = {}
  <2>1. c.kind = "namespaces"
    BY <1>1 DEF CoverOK, CallOf, CallKind
  <2>2. /\ ok <=> live # {Root}
        /\ Listing(c) = live \ {Root} /\ Refusal(c) = "notfound"
    BY <2>1 DEF Serve, Verdicts, Accepts, Listing, Refusal
  <2>3. QED
    BY <2>2 DEF AnswerTo
<1> HIDE DEF a, c
<1>2. CoverOK(j, a, (K \cap live') \ {Root})
  BY <1>1 DEF CoverOK
<1>3. QED
  BY <1>2 DEF a, c

\* The fewer namespaces stayed, the less there is to cover.
LEMMA FewerCover ==
  ASSUME NEW j, NEW a, NEW C, NEW D, CoverOK(j, a, C), D \subseteq C
  PROVE  CoverOK(j, a, D)
BY DEF CoverOK

\* No step of a sweep, or of anyone else, leaves a namespace out.
LEMMA CoverStep ==
  ASSUME TypeOK, TypeOK', StageInv, EngineInv, CoverInv, [Next]_vars
  PROVE  CoverInv'
<1> SUFFICES ASSUME CanListNamespaces, faults' = 0
             PROVE  CoverInv'
  BY DEF CoverInv
<1>1. /\ faults = 0 \/ faults' # faults
      /\ ~Fault
  BY BoundAssumption DEF TypeOK, Fault
<1>2. faults = 0 =>
        \A u \in Workers : /\ kept[u] \subseteq live /\ kept[u] \subseteq Namespaces
                           /\ job[u] \in GoodJobs
                           /\ CoverOK(job[u], ans[u], kept[u] \ {Root})
  BY DEF TypeOK, BaoTypeOK, GoodJobs, Busy, EngineInv, CoverInv
<1>3. ASSUME NEW w \in Workers,
             \/ NamespacesCollection(w) \/ NamespaceItem(w) \/ KeysCollection(w)
             \/ KeysItem(w) \/ EnsureAllNamespaces(w) \/ CliOperation(w)
      PROVE  CoverInv'
  <2>1. PICK op \in AllOps, n \in Namespaces, k \in Keys, allow \in {"unset", "true", "false"} :
               Begin(w, op, n, k, allow)
    BY <1>3, RequestBegins
  <2>2. /\ job'[w].op = op /\ job'[w].stage = FirstStage(op) /\ job'[w].status = "none"
        /\ job'[w].phase = IF op \in NsOps \cup Sweeps \cup {"namespaces"} THEN "call" ELSE "mounts"
        /\ \A u \in Workers \ {w} : job'[u] = job[u]
        /\ ans[w] = Pending /\ ans' = ans /\ faults' = faults
        /\ kept' = [kept EXCEPT ![w] = live]
    BY <2>1, BeginForm
  <2>3. \A C : CoverOK(job'[w], Pending, C)
    BY <2>2 DEF CoverOK, Swept, FirstStage, AtHand, Pending
  <2>4. \A u \in Workers \ {w} : kept'[u] = kept[u]
    BY <2>2 DEF TypeOK
  <2>5. QED
    BY <1>2, <2>2, <2>3, <2>4 DEF CoverInv
<1>4. ASSUME NEW w \in Workers, NEW op \in Ops, Reject(w, op)
      PROVE  CoverInv'
  <2> DEFINE j == [Idle EXCEPT !.op = op, !.status = "rejected"]
  <2>1. \A a, C : CoverOK(j, a, C)
    BY DEF Idle, CoverOK, AtHand
  <2>2. /\ job'[w] = j /\ ans' = ans /\ faults' = faults /\ kept' = kept
        /\ \A u \in Workers \ {w} : job'[u] = job[u]
    BY <1>4 DEF Reject, TypeOK
  <2>3. QED
    BY <1>2, <2>1, <2>2 DEF CoverInv
<1>5. ASSUME Witness, faults = 0, NEW u \in Workers
      PROVE  /\ kept'[u] = kept[u] \cap live'
             /\ CoverOK(job[u], ans[u], kept'[u] \ {Root})
  <2>1. kept'[u] = kept[u] \cap live'
    BY <1>5 DEF Witness
  <2>2. QED
    BY <1>2, <1>5, <2>1, FewerCover
<1>6. ASSUME NEW w \in Workers, Exec(w)
      PROVE  CoverInv'
  <2>1. PICK ok \in BOOLEAN :
          /\ Serve(CallOf(job[w]), ok)
          /\ ans' = [ans EXCEPT ![w] = AnswerTo(CallOf(job[w]), ok)]
    BY <1>6 DEF Exec
  <2>2. /\ job' = job /\ faults' = faults /\ faults = 0 /\ Witness
        /\ job[w].phase # "idle" /\ ans[w] = Pending
    BY <1>6 DEF Exec, Busy
  <2>3. \A u \in Workers : /\ kept'[u] = kept[u] \cap live'
                           /\ CoverOK(job[u], ans[u], kept'[u] \ {Root})
    BY <1>5, <2>2
  <2>4. CoverOK(job[w], AnswerTo(CallOf(job[w]), ok), kept'[w] \ {Root})
    BY <1>2, <2>1, <2>2, <2>3, ExecCover
  <2>5. /\ ans'[w] = AnswerTo(CallOf(job[w]), ok)
        /\ \A u \in Workers \ {w} : ans'[u] = ans[u]
    BY <2>1 DEF TypeOK
  <2>6. QED
    BY <2>2, <2>3, <2>4, <2>5 DEF CoverInv
<1>7. ASSUME NEW w \in Workers, Recv(w)
      PROVE  CoverInv'
  <2>1. ans[w] \in Answers /\ ans[w] # Pending /\ Handle(w, ans[w]) /\ faults = 0
    BY <1>7 DEF Recv, TypeOK
  <2>2. /\ Busy(w) /\ job'[w].op = job[w].op /\ ans'[w] = Pending /\ kept' = kept
        /\ \A u \in Workers \ {w} : job'[u] = job[u] /\ ans'[u] = ans[u]
    BY <2>1, HandleForm DEF Same
  <2>3. CoverOK(job'[w], Pending, kept[w] \ {Root})
    <3>1. CASE ~Swept(job[w])
      BY <2>2, <3>1 DEF Swept, CoverOK
    <3>2. CASE Swept(job[w])
      <4>1. \E i : StepsTo(w, i) /\ CoverOK(i, Pending, kept[w] \ {Root})
        BY <1>2, <2>1, <2>2, <3>2, HandleCover
      <4>2. QED
        BY <4>1 DEF StepsTo, TypeOK
    <3>3. QED
      BY <3>1, <3>2
  <2>4. QED
    BY <1>2, <2>1, <2>2, <2>3 DEF CoverInv
<1>8. ASSUME NEW w \in Workers, Timeout(w) \/ Garble(w) \/ Retry(w) \/ Crash(w)
      PROVE  CoverInv'
  BY <1>1, <1>8 DEF Timeout, Garble, Retry, Crash
<1>9. ASSUME NEW c \in orphans, ExecOrphan(c)
      PROVE  CoverInv'
  <2>1. job' = job /\ ans' = ans /\ faults' = faults /\ faults = 0 /\ Witness
    BY <1>9 DEF ExecOrphan
  <2>2. QED
    BY <1>5, <2>1 DEF CoverInv
<1>10. CASE UNCHANGED vars
  BY <1>2, <1>10 DEF vars, history, CoverInv
<1>11. QED
  BY <1>3, <1>4, <1>6, <1>7, <1>8, <1>9, <1>10 DEF Next

-----------------------------------------------------------------------------
(***************************************************************************)
(* A listing of all keys fails on no namespace before the first fault: a   *)
(* mount that failed is ignored, and the server answers a list or says     *)
(* that there is nothing to list.                                          *)
(***************************************************************************)
ListsOK(j, a) ==
  j.op = "listAll" =>
    /\ j.stage \in {"idle", "namespaces", "list"} /\ j.failed = {}
    /\ j.stage = "namespaces" => j.phase = "call"
    /\ j.stage = "list" /\ j.phase = "call" => a = Pending \/ a.st \in {"ok", "notfound"}

ListInv == faults = 0 => \A w \in Workers : ListsOK(job[w], ans[w])

LEMMA OnwardLists ==
  ASSUME NEW j \in Jobs, j.op = "listAll", j.failed = {}
  PROVE  \A i \in Onward(j) : ListsOK(i, Pending)
<1>1. CASE j.todo = {}
  BY <1>1 DEF Onward, Reply, ListsOK, Jobs
<1>2. CASE j.todo # {}
  <2>1. ASSUME NEW n \in j.todo
        PROVE  ListsOK(Enter([j EXCEPT !.ns = n, !.todo = @ \ {n}], "list"), Pending)
    BY <2>1 DEF Enter, ListsOK, NsOps, Jobs
  <2>2. QED
    BY <1>2, <2>1 DEF Onward
<1>3. QED
  BY <1>1, <1>2

\* Whatever a listing of all keys is answered, it has failed on nothing.
LEMMA HandleLists ==
  ASSUME TypeOK, NEW w \in Workers, NEW a \in Answers, a # Pending, Busy(w), Handle(w, a),
         job[w].op = "listAll", ListsOK(job[w], a)
  PROVE  \E i : StepsTo(w, i) /\ ListsOK(i, Pending)
<1> DEFINE j == job[w]
<1>1. /\ j \in Jobs /\ j.status = "none" /\ j.op = "listAll" /\ Swept(j)
      /\ j.stage \in {"namespaces", "list"} /\ j.failed = {}
      /\ j.stage = "namespaces" => j.phase = "call"
      /\ j.stage = "list" /\ j.phase = "call" => a.st \in {"ok", "notfound"}
  BY DEF TypeOK, Busy, ListsOK, Swept, Sweeps
<1>2. CASE j.stage = "namespaces"
  <2> DEFINE names == NamespacesListed(a)
             known == [j EXCEPT !.listed = names, !.todo = names]
  <2>1. NamespacesAnswered(w, a)
    BY <1>1, <1>2 DEF Handle, MountsAnswered, EnableAnswered, CreateAnswered,
       ConfigAnswered, OverrideAnswered, Settled, DeleteAnswered, RotateAnswered,
       InfoAnswered, CreateNamespaceAnswered, DeleteNamespaceAnswered, ListAnswered
  <2>2. known \in Jobs /\ known.op = "listAll" /\ known.failed = {}
    BY <1>1, RootAssumption DEF NamespacesListed, Jobs
  <2>3. \A i \in Onward(known) : ListsOK(i, Pending)
    BY <2>2, OnwardLists
  <2>4. ListsOK(Reply(j, "gateway"), Pending)
    BY <1>1 DEF Reply, ListsOK, Jobs
  <2>5. \E next : Continue(w, next) /\ \A i \in next : ListsOK(i, Pending)
    BY <1>1, <2>1, <2>3, <2>4 DEF NamespacesAnswered
  <2>6. QED
    BY <2>5 DEF Continue, StepsTo
<1>3. CASE j.stage = "list" /\ j.phase # "call"
  <2>1. \A p : ListsOK([j EXCEPT !.phase = p], Pending)
    BY <1>1, <1>3 DEF ListsOK, Jobs
  <2>2. Mounted(j) = {[j EXCEPT !.phase = "call"]} /\ MountFailed(j) = {[j EXCEPT !.phase = "call"]}
    BY <1>3 DEF Mounted, MountFailed
  <2>3. MountsAnswered(w, a) \/ EnableAnswered(w, a)
    BY <1>1, <1>3 DEF Handle, CreateAnswered, ConfigAnswered, OverrideAnswered, Settled,
       DeleteAnswered, RotateAnswered, InfoAnswered, CreateNamespaceAnswered,
       DeleteNamespaceAnswered, ListAnswered, NamespacesAnswered
  <2>4. \E p : Continue(w, {[j EXCEPT !.phase = p]})
    BY <2>2, <2>3 DEF MountsAnswered, EnableAnswered
  <2>5. QED
    BY <2>1, <2>4 DEF Continue, StepsTo
<1>4. CASE j.stage = "list" /\ j.phase = "call"
  <2> DEFINE d == [j EXCEPT !.done = @ \cup {j.ns}]
  <2>1. ListAnswered(w, a)
    BY <1>1, <1>4 DEF Handle, MountsAnswered, EnableAnswered, CreateAnswered,
       ConfigAnswered, OverrideAnswered, Settled, DeleteAnswered, RotateAnswered,
       InfoAnswered, CreateNamespaceAnswered, DeleteNamespaceAnswered, NamespacesAnswered
  <2>2. d \in Jobs /\ d.op = "listAll" /\ d.failed = {}
    BY <1>1 DEF Jobs
  <2>3. Continue(w, Onward(d))
    BY <1>1, <1>4, <2>1 DEF ListAnswered, Succeed
  <2>4. \A i \in Onward(d) : ListsOK(i, Pending)
    BY <2>2, OnwardLists
  <2>5. QED
    BY <2>3, <2>4 DEF Continue, StepsTo
<1>5. QED
  BY <1>1, <1>2, <1>3, <1>4

LEMMA ListStep ==
  ASSUME TypeOK, TypeOK', StageInv, ListInv, [Next]_vars
  PROVE  ListInv'
<1> SUFFICES ASSUME faults' = 0
             PROVE  ListInv'
  BY DEF ListInv
<1>1. (faults = 0 \/ faults' # faults) /\ ~Fault
  BY BoundAssumption DEF TypeOK, Fault
<1>2. faults = 0 => \A u \in Workers : ListsOK(job[u], ans[u])
  BY DEF ListInv
<1>3. ASSUME NEW w \in Workers,
             \/ NamespacesCollection(w) \/ NamespaceItem(w) \/ KeysCollection(w)
             \/ KeysItem(w) \/ EnsureAllNamespaces(w) \/ CliOperation(w)
      PROVE  ListInv'
  <2>1. PICK op \in AllOps, n \in Namespaces, k \in Keys, allow \in {"unset", "true", "false"} :
               Begin(w, op, n, k, allow)
    BY <1>3, RequestBegins
  <2>2. /\ job'[w].op = op /\ job'[w].stage = FirstStage(op) /\ job'[w].failed = {}
        /\ job'[w].phase = IF op \in NsOps \cup Sweeps \cup {"namespaces"} THEN "call" ELSE "mounts"
        /\ \A u \in Workers \ {w} : job'[u] = job[u]
        /\ ans[w] = Pending /\ ans' = ans /\ faults' = faults
    BY <2>1, BeginForm
  <2>3. ListsOK(job'[w], Pending)
    BY <2>2 DEF ListsOK, FirstStage, Sweeps
  <2>4. QED
    BY <1>2, <2>2, <2>3 DEF ListInv
<1>4. ASSUME NEW w \in Workers, NEW op \in Ops, Reject(w, op)
      PROVE  ListInv'
  <2> DEFINE j == [Idle EXCEPT !.op = op, !.status = "rejected"]
  <2>1. \A a : ListsOK(j, a)
    BY DEF Idle, ListsOK
  <2>2. /\ job'[w] = j /\ ans' = ans /\ faults' = faults
        /\ \A u \in Workers \ {w} : job'[u] = job[u]
    BY <1>4 DEF Reject, TypeOK
  <2>3. QED
    BY <1>2, <2>1, <2>2 DEF ListInv
<1>5. ASSUME NEW w \in Workers, Exec(w)
      PROVE  ListInv'
  <2>1. PICK ok \in BOOLEAN : ans' = [ans EXCEPT ![w] = AnswerTo(CallOf(job[w]), ok)]
    BY <1>5 DEF Exec
  <2>2. job' = job /\ faults' = faults /\ ListsOK(job[w], ans[w])
    BY <1>2, <1>5 DEF Exec
  <2>3. job[w].stage = "list" /\ job[w].phase = "call" => CallOf(job[w]).kind = "list"
    BY DEF CallOf, CallKind
  <2>4. \A c : c.kind = "list" => AnswerTo(c, ok).st \in {"ok", "notfound"}
    BY DEF AnswerTo, Refusal
  <2>5. ListsOK(job[w], AnswerTo(CallOf(job[w]), ok))
    BY <2>2, <2>3, <2>4 DEF ListsOK
  <2>6. /\ ans'[w] = AnswerTo(CallOf(job[w]), ok)
        /\ \A u \in Workers \ {w} : ans'[u] = ans[u]
    BY <2>1 DEF TypeOK
  <2>7. QED
    BY <1>2, <2>2, <2>5, <2>6 DEF ListInv
<1>6. ASSUME NEW w \in Workers, Recv(w)
      PROVE  ListInv'
  <2>1. ans[w] \in Answers /\ ans[w] # Pending /\ Handle(w, ans[w]) /\ faults = 0
    BY <1>6 DEF Recv, TypeOK
  <2>2. /\ Busy(w) /\ job'[w].op = job[w].op /\ ans'[w] = Pending
        /\ \A u \in Workers \ {w} : job'[u] = job[u] /\ ans'[u] = ans[u]
    BY <2>1, HandleForm DEF Same
  <2>3. ListsOK(job'[w], Pending)
    <3>1. CASE job[w].op # "listAll"
      BY <2>2, <3>1 DEF ListsOK
    <3>2. CASE job[w].op = "listAll"
      <4>1. \E i : StepsTo(w, i) /\ ListsOK(i, Pending)
        BY <1>2, <2>1, <2>2, <3>2, HandleLists
      <4>2. QED
        BY <4>1 DEF StepsTo, TypeOK
    <3>3. QED
      BY <3>1, <3>2
  <2>4. QED
    BY <1>2, <2>1, <2>2, <2>3 DEF ListInv
<1>7. ASSUME NEW w \in Workers, Timeout(w) \/ Garble(w) \/ Retry(w) \/ Crash(w)
      PROVE  ListInv'
  BY <1>1, <1>7 DEF Timeout, Garble, Retry, Crash
<1>8. ASSUME NEW c \in orphans, ExecOrphan(c)
      PROVE  ListInv'
  BY <1>2, <1>8 DEF ExecOrphan, ListInv
<1>9. CASE UNCHANGED vars
  BY <1>2, <1>9 DEF vars, ListInv
<1>10. QED
  BY <1>3, <1>4, <1>5, <1>6, <1>7, <1>8, <1>9 DEF Next

\* With a token that may list namespaces, a sweep answered 200 reports every
\* child that existed all along, for any number of namespaces and of requests
\* that create and delete them while it runs.
THEOREM SweepsCover == Spec => []SweepCovers
<1>1. Init => CoverInv
  BY DEF Init, Idle, NoOp, Swept, Sweeps, CoverInv, CoverOK
<1>2. TypeOK /\ TypeOK' /\ StageInv /\ EngineInv /\ CoverInv /\ [Next]_vars => CoverInv'
  BY CoverStep
<1>3. Init => ListInv
  BY DEF Init, Idle, NoOp, ListInv, ListsOK
<1>4. TypeOK /\ TypeOK' /\ StageInv /\ ListInv /\ [Next]_vars => ListInv'
  BY ListStep
<1>5. CoverInv /\ ListInv => SweepCovers
  BY DEF CoverInv, CoverOK, Covered, ListInv, ListsOK, SweepCovers, Reported
<1>6. QED
  BY <1>1, <1>2, <1>3, <1>4, <1>5, TypeCorrect, StageHolds, EngineHolds, PTL DEF Spec
=============================================================================
