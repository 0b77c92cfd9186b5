-------------------------- MODULE TransitKeysProofs --------------------------
(***************************************************************************)
(* What holds of TransitKeys for any number of workers, namespaces, keys,  *)
(* requests and faults.                                                    *)
(***************************************************************************)
EXTENDS TransitKeys, TLAPS

-----------------------------------------------------------------------------
(***************************************************************************)
(* The operators on jobs stay within Jobs and GoodJobs.                    *)
(***************************************************************************)
GoodJobs == {j \in Jobs : /\ j.stage = "idle" <=> j.phase = "idle"
                          /\ j.phase # "idle" => j.status = "none"}

\* A busy job is good in any stage it enters.
LEMMA EnterType ==
  ASSUME NEW j \in Jobs, j.status = "none", NEW s \in Stages \ {"idle"}
  PROVE  Enter(j, s) \in GoodJobs
<1>1. \A p \in {"call", "mounts"} : [j EXCEPT !.stage = s, !.phase = p] \in GoodJobs
  BY DEF GoodJobs, Jobs, Stages
<1>2. QED
  BY <1>1 DEF Enter

\* An answered job is idle in stage and phase.
LEMMA ReplyType ==
  ASSUME NEW j \in Jobs, NEW st \in {"none", "ok", "rejected", "gateway"}
  PROVE  Reply(j, st) \in GoodJobs
BY DEF Reply, GoodJobs, Jobs, Stages

\* So is every job a for loop goes on with.
LEMMA OnwardType ==
  ASSUME NEW j \in Jobs, j.status = "none"
  PROVE  Onward(j) \subseteq GoodJobs
<1>1. CASE j.todo = {}
  BY <1>1, ReplyType DEF Onward
<1>2. CASE j.todo # {}
  <2>1. ASSUME NEW n \in j.todo
        PROVE  /\ [j EXCEPT !.ns = n, !.todo = @ \ {n}] \in Jobs
               /\ [j EXCEPT !.ns = n, !.todo = @ \ {n}].status = "none"
    BY DEF Jobs
  <2>2. QED
    BY <1>2, <2>1, EnterType DEF Onward, Stages
<1>3. QED
  BY <1>1, <1>2

\* And every job a stage leads to.
LEMMA OutcomeType ==
  ASSUME NEW j \in Jobs, j.status = "none"
  PROVE  /\ Succeed(j) \subseteq GoodJobs
         /\ Fail(j) \subseteq GoodJobs
         /\ Configured(j) \subseteq GoodJobs
<1>1. /\ [j EXCEPT !.done = @ \cup {j.ns}] \in Jobs
      /\ [j EXCEPT !.done = @ \cup {j.ns}].status = "none"
  BY DEF Jobs
<1>2. /\ [j EXCEPT !.failed = @ \cup {j.ns}] \in Jobs
      /\ [j EXCEPT !.failed = @ \cup {j.ns}].status = "none"
  BY DEF Jobs
<1>3. Succeed(j) \subseteq GoodJobs
  BY <1>1, OnwardType, ReplyType DEF Succeed
<1>4. Fail(j) \subseteq GoodJobs
  BY <1>2, OnwardType, ReplyType DEF Fail
<1>5. Configured(j) \subseteq GoodJobs
  BY <1>3, EnterType DEF Configured, Stages
<1>6. QED
  BY <1>3, <1>4, <1>5

\* ensureTransitMounted leaves a good job, whether it succeeds or fails.
LEMMA MountType ==
  ASSUME NEW j \in GoodJobs, j.phase # "idle"
  PROVE  /\ Mounted(j) \subseteq GoodJobs
         /\ MountFailed(j) \subseteq GoodJobs
         /\ [j EXCEPT !.phase = "enable"] \in GoodJobs
<1>1. /\ [j EXCEPT !.phase = "call"] \in GoodJobs
      /\ [j EXCEPT !.phase = "enable"] \in GoodJobs
  BY DEF GoodJobs, Jobs
<1>2. Mounted(j) \subseteq GoodJobs
  BY <1>1, EnterType DEF Mounted, Stages, GoodJobs
<1>3. MountFailed(j) \subseteq GoodJobs
  BY <1>1, OutcomeType DEF MountFailed, GoodJobs
<1>4. QED
  BY <1>1, <1>2, <1>3

-----------------------------------------------------------------------------
(***************************************************************************)
(* Type correctness.  TypeOK is inductive as it stands.                    *)
(***************************************************************************)
\* The calls a handler sends are well typed, those it may leave behind too.
LEMMA CallType ==
  ASSUME TypeOK, NEW w \in Workers
  PROVE  /\ CallOf(job[w]).ns \in Namespaces
         /\ CallOf(job[w]).key \in Keys
         /\ CallOf(job[w]).arg \in BOOLEAN
         /\ Abandoned(w) \subseteq Calls
<1>1. job[w] \in Jobs
  BY DEF TypeOK
<1>2. /\ CallOf(job[w]).ns \in Namespaces
      /\ CallOf(job[w]).key \in Keys
      /\ CallOf(job[w]).arg \in BOOLEAN
  BY <1>1 DEF CallOf, Jobs
<1>3. ASSUME CallKind(job[w]) \in Writes
      PROVE  CallOf(job[w]) \in Calls
  BY <1>1, <1>3 DEF CallOf, Calls, Kinds, Jobs
<1>4. QED
  BY <1>2, <1>3 DEF Abandoned

\* The server keeps its state well typed whatever the call.
LEMMA ServeType ==
  ASSUME BaoTypeOK, NEW c, c.ns \in Namespaces, c.key \in Keys, c.arg \in BOOLEAN,
         NEW ok \in BOOLEAN, Serve(c, ok)
  PROVE  BaoTypeOK'
<1>1. CASE UNCHANGED baoVars
  BY <1>1 DEF BaoTypeOK, baoVars
<1>2. CASE EnableTransit(c)
  BY <1>2 DEF BaoTypeOK, EnableTransit
<1>3. CASE CreateKey(c)
  BY <1>3, FlagAssumption DEF BaoTypeOK, CreateKey, KeyState
<1>4. CASE ConfigKey(c)
  <2>1. [keys[c.ns][c.key] EXCEPT !.deletable = c.arg] \in KeyState
    BY DEF BaoTypeOK, KeyState
  <2>2. QED
    BY <1>4, <2>1 DEF BaoTypeOK, ConfigKey
<1>5. CASE DeleteKey(c)
  BY <1>5 DEF BaoTypeOK, DeleteKey, KeyState, Absent
<1>6. CASE RotateKey(c)
  <2>1. [keys[c.ns][c.key] EXCEPT !.version = @ + 1] \in KeyState
    BY DEF BaoTypeOK, KeyState
  <2>2. QED
    BY <1>6, <2>1 DEF BaoTypeOK, RotateKey
<1>7. CASE CreateNamespace(c)
  BY <1>7 DEF BaoTypeOK, CreateNamespace
<1>8. CASE DeleteNamespace(c)
  BY <1>8 DEF BaoTypeOK, DeleteNamespace, KeyState, Absent
<1>9. QED
  BY <1>1, <1>2, <1>3, <1>4, <1>5, <1>6, <1>7, <1>8 DEF Serve, Apply

\* Its answers are answers.
LEMMA AnswerType ==
  ASSUME BaoTypeOK, NEW c, NEW ok \in BOOLEAN
  PROVE  AnswerTo(c, ok) \in Answers
<1>1. Listing(c) \subseteq Names
  BY DEF BaoTypeOK, Listing, Names
<1>2. Refusal(c) \in {"notfound", "denied", "err"}
  BY DEF Refusal
<1>3. QED
  BY <1>1, <1>2 DEF AnswerTo, Answers

\* What a handler does with an answer keeps its job good and waits for nothing.
LEMMA ContinueType ==
  ASSUME TypeOK, NEW w \in Workers, NEW next \in SUBSET GoodJobs, Continue(w, next)
  PROVE  /\ job' \in [Workers -> Jobs]
         /\ \A v \in Workers : job'[v] \in GoodJobs
         /\ promise' \in [Namespaces -> [Keys -> Promises]]
<1>1. PICK j \in next :
        /\ job' = [job EXCEPT ![w] = j]
        /\ promise' = IF Acknowledges(w, j)
                        THEN [promise EXCEPT ![j.ns][j.key] = PromiseOf(j)]
                        ELSE promise
  BY DEF Continue
<1>2. j \in Jobs /\ j \in GoodJobs
  BY DEF GoodJobs
<1>3. j.ns \in Namespaces /\ j.key \in Keys /\ PromiseOf(j) \in Promises
  BY <1>2 DEF Jobs, PromiseOf, Promises
<1>4. \A v \in Workers : job[v] \in GoodJobs
  BY DEF TypeOK, GoodJobs, Busy
<1>5. QED
  BY <1>1, <1>2, <1>3, <1>4 DEF TypeOK

\* Only a busy worker has an answer to handle.
LEMMA HandleBusy ==
  ASSUME NEW w, NEW a, Handle(w, a)
  PROVE  Busy(w)
BY DEF Handle, MountsAnswered, EnableAnswered, CreateAnswered, ConfigAnswered,
   OverrideAnswered, Settled, DeleteAnswered, RotateAnswered, InfoAnswered,
   CreateNamespaceAnswered, DeleteNamespaceAnswered, ListAnswered,
   NamespacesAnswered, Busy

\* Every way to handle an answer.
LEMMA HandleType ==
  ASSUME TypeOK, NEW w \in Workers, NEW a \in Answers, Busy(w), Handle(w, a)
  PROVE  /\ BaoTypeOK'
         /\ job' \in [Workers -> Jobs]
         /\ \A v \in Workers : job'[v] \in GoodJobs
         /\ ans' \in [Workers -> Answers]
         /\ promise' \in [Namespaces -> [Keys -> Promises]]
         /\ UNCHANGED <<reqs, eff, seen, kept, alone>>
<1> DEFINE j == job[w]
<1>1. j \in Jobs /\ j \in GoodJobs /\ j.phase # "idle" /\ j.status = "none"
  BY DEF TypeOK, GoodJobs, Busy
<1>2. \E next \in SUBSET GoodJobs : Continue(w, next)
  <2>1. CASE MountsAnswered(w, a)
    BY <1>1, <2>1, MountType DEF MountsAnswered
  <2>2. CASE EnableAnswered(w, a)
    BY <1>1, <2>2, MountType DEF EnableAnswered
  <2>3. CASE CreateAnswered(w, a)
    <3>1. Enter(j, "config") \in GoodJobs
      BY <1>1, EnterType DEF Stages
    <3>2. QED
      BY <1>1, <2>3, <3>1, OutcomeType DEF CreateAnswered
  <2>4. CASE ConfigAnswered(w)
    BY <1>1, <2>4, OutcomeType DEF ConfigAnswered
  <2>5. CASE OverrideAnswered(w)
    BY <1>1, <2>5, OutcomeType DEF OverrideAnswered
  <2>6. CASE \E s \in Stages : Settled(w, a, s)
    BY <1>1, <2>6, OutcomeType DEF Settled
  <2>7. CASE ListAnswered(w, a)
    <3>1. Enter(j, "create") \in GoodJobs
      BY <1>1, EnterType DEF Stages
    <3>2. QED
      BY <1>1, <2>7, <3>1, OutcomeType DEF ListAnswered
  <2>8. CASE NamespacesAnswered(w, a)
    <3> DEFINE names == NamespacesListed(a)
               known == [j EXCEPT !.listed = names, !.todo = names]
    <3>1. names \subseteq Namespaces
      BY RootAssumption DEF NamespacesListed
    <3>2. /\ known \in Jobs /\ known.status = "none"
          /\ [known EXCEPT !.todo = {}] \in Jobs
      BY <1>1, <3>1 DEF Jobs
    <3>3. /\ {Reply(j, "gateway")} \subseteq GoodJobs
          /\ Onward(known) \subseteq GoodJobs
          /\ {Reply([known EXCEPT !.todo = {}], "ok")} \subseteq GoodJobs
      BY <1>1, <3>2, ReplyType, OnwardType
    <3>4. QED
      BY <2>8, <3>3 DEF NamespacesAnswered
  <2>9. QED
    BY <2>1, <2>2, <2>3, <2>4, <2>5, <2>6, <2>7, <2>8
       DEF Handle, DeleteAnswered, RotateAnswered, InfoAnswered,
           CreateNamespaceAnswered, DeleteNamespaceAnswered, Stages
<1>3. BaoTypeOK'
  BY DEF Handle, TypeOK, BaoTypeOK, baoVars
<1>4. ans' \in [Workers -> Answers]
  BY DEF Handle, TypeOK, Answers, Pending
<1>5. QED
  BY <1>2, <1>3, <1>4, ContinueType DEF Handle

\* A request begins with a good job.
LEMMA BeginType ==
  ASSUME TypeOK, NEW w \in Workers, NEW op \in AllOps, NEW n \in Namespaces,
         NEW k \in Keys, NEW allow \in {"unset", "true", "false"},
         Begin(w, op, n, k, allow)
  PROVE  TypeOK'
<1> DEFINE i == [Idle EXCEPT !.op = op, !.ns = n, !.key = k, !.allow = allow]
           j == Enter(i, FirstStage(op))
<1>1. i \in Jobs /\ i.status = "none"
  BY RootAssumption, KeysAssumption DEF Idle, AnyKey, Jobs, Stages, NoOp
<1>2. FirstStage(op) \in Stages \ {"idle"}
  BY DEF FirstStage, AllOps, KeyOps, NsOps, Sweeps, Stages
<1>3. j \in Jobs /\ j \in GoodJobs
  BY <1>1, <1>2, EnterType DEF GoodJobs
<1>4. job' = [job EXCEPT ![w] = j]
  BY DEF Begin
<1>5. /\ job' \in [Workers -> Jobs]
      /\ \A v \in Workers : job'[v] \in GoodJobs
  BY <1>3, <1>4 DEF TypeOK, GoodJobs, Busy
<1>6. /\ alone' \in [Workers -> BOOLEAN]
      /\ promise' \in [Namespaces -> [Keys -> Promises]]
  BY DEF Begin, TypeOK, Promises
<1>7. reqs' \in 0..MaxRequests
  BY BoundAssumption DEF Begin, TypeOK
<1>8. /\ BaoTypeOK' /\ ans' \in [Workers -> Answers] /\ orphans' \subseteq Calls
      /\ faults' \in 0..MaxFaults
  BY DEF Begin, TypeOK, BaoTypeOK, baoVars
<1>9. /\ eff' \in [Workers -> Nat]
      /\ seen' \in [Workers -> SUBSET Namespaces]
      /\ kept' \in [Workers -> SUBSET Namespaces]
  BY DEF Begin, TypeOK, BaoTypeOK
<1>10. QED
  BY <1>5, <1>6, <1>7, <1>8, <1>9 DEF TypeOK, GoodJobs, Busy

\* Which worker begins a request, of which kind, the server decides by its mux.
LEMMA RequestBegins ==
  ASSUME NEW w \in Workers,
         \/ NamespacesCollection(w) \/ NamespaceItem(w) \/ KeysCollection(w)
         \/ KeysItem(w) \/ EnsureAllNamespaces(w) \/ CliOperation(w)
  PROVE  \E op \in AllOps, n \in Namespaces, k \in Keys,
            allow \in {"unset", "true", "false"} : Begin(w, op, n, k, allow)
<1>1. AnyKey \in Keys
  BY KeysAssumption DEF AnyKey
<1>2. QED
  BY <1>1, RootAssumption
     DEF NamespacesCollection, NamespaceItem, KeysCollection, KeysItem,
         EnsureAllNamespaces, CliOperation, AllOps, KeyOps, NsOps, Sweeps

\* The history stays well typed while the server changes its state.
LEMMA WitnessType ==
  ASSUME TypeOK, BaoTypeOK', Witness
  PROVE  /\ seen' \in [Workers -> SUBSET Namespaces]
         /\ kept' \in [Workers -> SUBSET Namespaces]
BY DEF Witness, TypeOK, BaoTypeOK

\* One step of the server, a handler or a fault keeps the types.
LEMMA TypeStep ==
  ASSUME TypeOK, [Next]_vars
  PROVE  TypeOK'
<1>1. ASSUME NEW w \in Workers,
             \/ NamespacesCollection(w) \/ NamespaceItem(w) \/ KeysCollection(w)
             \/ KeysItem(w) \/ EnsureAllNamespaces(w) \/ CliOperation(w)
      PROVE  TypeOK'
  BY <1>1, RequestBegins, BeginType
<1>2. ASSUME NEW w \in Workers, NEW op \in Ops, Reject(w, op)
      PROVE  TypeOK'
  <2>1. [Idle EXCEPT !.op = op, !.status = "rejected"] \in GoodJobs
    BY OpsAssumption, RootAssumption, KeysAssumption
       DEF Idle, AnyKey, Jobs, GoodJobs, Stages, NoOp
  <2>2. /\ job' \in [Workers -> Jobs]
        /\ \A v \in Workers : job'[v] \in GoodJobs
    BY <1>2, <2>1 DEF Reject, TypeOK, GoodJobs, Busy
  <2>3. reqs' \in 0..MaxRequests /\ eff' \in [Workers -> Nat]
    BY <1>2, BoundAssumption DEF Reject, TypeOK
  <2>4. QED
    BY <1>2, <2>2, <2>3 DEF Reject, TypeOK, BaoTypeOK, baoVars, GoodJobs, Busy
<1>3. ASSUME NEW w \in Workers, Exec(w)
      PROVE  TypeOK'
  <2>1. PICK ok \in BOOLEAN :
          /\ Serve(CallOf(job[w]), ok)
          /\ ans' = [ans EXCEPT ![w] = AnswerTo(CallOf(job[w]), ok)]
          /\ eff' = IF ok /\ CallKind(job[w]) = job[w].op
                    THEN [eff EXCEPT ![w] = @ + 1] ELSE eff
    BY <1>3 DEF Exec
  <2>2. BaoTypeOK'
    BY <2>1, CallType, ServeType DEF TypeOK
  <2>3. ans' \in [Workers -> Answers] /\ eff' \in [Workers -> Nat]
    BY <2>1, AnswerType DEF TypeOK
  <2>4. QED
    BY <1>3, <2>2, <2>3, WitnessType DEF Exec, TypeOK, Busy
<1>4. ASSUME NEW w \in Workers, Recv(w)
      PROVE  TypeOK'
  <2>1. Busy(w)
    BY <1>4, HandleBusy DEF Recv
  <2>2. QED
    BY <1>4, <2>1, HandleType DEF Recv, TypeOK, GoodJobs, Busy
<1>5. ASSUME NEW w \in Workers, Timeout(w)
      PROVE  TypeOK'
  <2>1. [st |-> "err", set |-> {}] \in Answers
    BY DEF Answers
  <2>2. QED
    BY <1>5, <2>1, CallType, HandleType, BoundAssumption DEF Timeout, Fault, TypeOK, GoodJobs, Busy
<1>6. ASSUME NEW w \in Workers, Retry(w)
      PROVE  TypeOK'
  <2>1. Pending \in Answers
    BY DEF Answers, Pending
  <2>2. QED
    BY <1>6, <2>1, CallType, BoundAssumption
       DEF Retry, Fault, TypeOK, BaoTypeOK, baoVars, history, Busy
<1>7. ASSUME NEW w \in Workers, Garble(w)
      PROVE  TypeOK'
  <2>1. [st |-> "ok", set |-> {}] \in Answers
    BY DEF Answers
  <2>2. QED
    BY <1>7, <2>1, HandleType, BoundAssumption DEF Garble, Fault, TypeOK, GoodJobs, Busy
<1>8. ASSUME NEW w \in Workers, Crash(w)
      PROVE  TypeOK'
  <2>1. Pending \in Answers /\ Idle \in GoodJobs
    BY RootAssumption, KeysAssumption
       DEF Answers, Pending, Idle, AnyKey, Jobs, GoodJobs, Stages, NoOp
  <2>2. QED
    BY <1>8, <2>1, CallType, BoundAssumption
       DEF Crash, Fault, TypeOK, BaoTypeOK, baoVars, history, GoodJobs, Busy
<1>9. ASSUME NEW c \in orphans, ExecOrphan(c)
      PROVE  TypeOK'
  <2>1. c.ns \in Namespaces /\ c.key \in Keys /\ c.arg \in BOOLEAN
    BY DEF TypeOK, Calls
  <2>2. BaoTypeOK'
    BY <1>9, <2>1, ServeType DEF ExecOrphan, TypeOK
  <2>3. QED
    BY <1>9, <2>2, WitnessType DEF ExecOrphan, TypeOK, Busy
<1>10. CASE UNCHANGED vars
  BY <1>10 DEF TypeOK, BaoTypeOK, vars, baoVars, history, Busy
<1>11. QED
  BY <1>1, <1>2, <1>3, <1>4, <1>5, <1>6, <1>7, <1>8, <1>9, <1>10 DEF Next

\* The variables have their types in every state the API reaches, whatever the
\* numbers of workers, names, requests and faults.
THEOREM TypeCorrect == Spec => []TypeOK
<1>1. Init => TypeOK
  <2>1. Idle \in GoodJobs
    BY RootAssumption, KeysAssumption
       DEF Idle, AnyKey, Jobs, GoodJobs, Stages, NoOp
  <2>2. Absent \in KeyState /\ Pending \in Answers
    BY DEF Absent, KeyState, Pending, Answers
  <2>3. QED
    BY <2>1, <2>2, BoundAssumption
       DEF Init, BaoInit, TypeOK, BaoTypeOK, GoodJobs, Promises, Busy
<1>2. TypeOK /\ [Next]_vars => TypeOK'
  BY TypeStep
<1>3. QED
  BY <1>1, <1>2, PTL DEF Spec

-----------------------------------------------------------------------------
(***************************************************************************)
(* The report of ensure-all is sound.  ReportSound says nothing of a sweep *)
(* under way; the strengthening does: the namespaces listed are split into *)
(* done, failed, the one at hand and those still to do, and the key has    *)
(* been in the namespace at hand when a stage or an answer says so.        *)
(***************************************************************************)
Covered(j) == j.done \cup j.failed

\* Of job j, whose key was in the namespaces S at some time since it began.
SweepOK(j, S) ==
  j.op = "ensureAll" =>
    /\ j.stage \in {"idle", "namespaces", "ensure", "list", "create", "config"}
    /\ j.done \subseteq S
    /\ j.done \cap j.failed = {}
    /\ j.todo \cap Covered(j) = {}
    /\ j.stage = "namespaces" => Covered(j) = {} /\ j.phase = "call"
    /\ j.stage \in {"ensure", "list", "create", "config"} =>
         /\ j.ns \notin j.todo \cup Covered(j)
         /\ j.listed = Covered(j) \cup j.todo \cup {j.ns}
    /\ j.stage = "config" => j.ns \in S
    /\ j.status = "ok" => j.listed = Covered(j)

\* Of an answer a that job j has not handled yet.
AnswerOK(j, a, S) ==
  (/\ j.op = "ensureAll" /\ j.phase = "call" /\ a.st = "ok"
   /\ j.stage = "create" \/ (j.stage = "list" /\ j.key \in a.set))
    => j.ns \in S

ReportInv ==
  \A w \in Workers : /\ SweepOK(job[w], seen[w])
                     /\ AnswerOK(job[w], ans[w], seen[w])

\* No step of a handler turns its request into another.
LEMMA OpKept ==
  ASSUME NEW j \in Jobs
  PROVE  /\ \A i \in Onward(j) : i.op = j.op
         /\ \A i \in Succeed(j) \cup Fail(j) : i.op = j.op
         /\ \A i \in Configured(j) \cup Mounted(j) \cup MountFailed(j) : i.op = j.op
<1>1. /\ \A st \in {"ok", "gateway"} : Reply(j, st).op = j.op
      /\ \A s \in Stages : Enter(j, s).op = j.op
      /\ [j EXCEPT !.phase = "call"].op = j.op
  BY DEF Reply, Enter, Jobs
<1>2. ASSUME NEW k \in Jobs, k.op = j.op
      PROVE  \A i \in Onward(k) : i.op = j.op
  BY <1>2 DEF Onward, Reply, Enter, Jobs
<1>3. /\ [j EXCEPT !.done = @ \cup {j.ns}] \in Jobs
      /\ [j EXCEPT !.done = @ \cup {j.ns}].op = j.op
      /\ [j EXCEPT !.failed = @ \cup {j.ns}] \in Jobs
      /\ [j EXCEPT !.failed = @ \cup {j.ns}].op = j.op
  BY DEF Jobs
<1>4. \A i \in Succeed(j) \cup Fail(j) : i.op = j.op
  BY <1>1, <1>2, <1>3 DEF Succeed, Fail
<1>5. \A i \in Configured(j) : i.op = j.op
  BY <1>1, <1>4 DEF Configured, Stages
<1>6. \A i \in Mounted(j) \cup MountFailed(j) : i.op = j.op
  BY <1>1, <1>4, <1>5 DEF Mounted, MountFailed, Stages
<1>7. QED
  BY <1>2, <1>4, <1>5, <1>6

\* The loop goes on from namespaces that are split as they should be.
LEMMA OnwardSweep ==
  ASSUME NEW j \in Jobs, NEW S, j.op = "ensureAll", j.status = "none",
         j.done \subseteq S, j.done \cap j.failed = {}, j.todo \cap Covered(j) = {},
         j.listed = Covered(j) \cup j.todo
  PROVE  \A i \in Onward(j) : SweepOK(i, S)
<1>1. CASE j.todo = {}
  <2>1. SweepOK(Reply(j, "ok"), S)
    BY <1>1 DEF Reply, SweepOK, Covered, Jobs
  <2>2. QED
    BY <1>1, <2>1 DEF Onward
<1>2. CASE j.todo # {}
  <2>1. ASSUME NEW n \in j.todo
        PROVE  SweepOK(Enter([j EXCEPT !.ns = n, !.todo = @ \ {n}], "ensure"), S)
    BY <2>1 DEF Enter, SweepOK, Covered, Jobs, NsOps
  <2>2. QED
    BY <1>2, <2>1 DEF Onward
<1>3. QED
  BY <1>1, <1>2

AtHand == {"ensure", "list", "create", "config"}

\* One namespace done or failed, and on.
LEMMA OutcomeSweep ==
  ASSUME NEW j \in Jobs, NEW S, j.op = "ensureAll", j.status = "none",
         j.stage \in AtHand, SweepOK(j, S)
  PROVE  /\ j.ns \in S => \A i \in Succeed(j) : SweepOK(i, S)
         /\ \A i \in Fail(j) : SweepOK(i, S)
<1> DEFINE d == [j EXCEPT !.done = @ \cup {j.ns}]
           f == [j EXCEPT !.failed = @ \cup {j.ns}]
<1>1. Swept(j)
  BY DEF Swept, Sweeps
<1>2. ASSUME j.ns \in S
      PROVE  \A i \in Succeed(j) : SweepOK(i, S)
  <2>1. /\ d \in Jobs /\ d.op = "ensureAll" /\ d.status = "none"
        /\ d.done = j.done \cup {j.ns} /\ d.failed = j.failed
        /\ d.todo = j.todo /\ d.listed = j.listed
    BY DEF Jobs
  <2>2. /\ d.done \subseteq S /\ d.done \cap d.failed = {}
        /\ d.todo \cap Covered(d) = {} /\ d.listed = Covered(d) \cup d.todo
    BY <1>2, <2>1 DEF SweepOK, Covered, AtHand
  <2>3. QED
    BY <1>1, <2>1, <2>2, OnwardSweep DEF Succeed
<1>3. \A i \in Fail(j) : SweepOK(i, S)
  <2>1. /\ f \in Jobs /\ f.op = "ensureAll" /\ f.status = "none"
        /\ f.failed = j.failed \cup {j.ns} /\ f.done = j.done
        /\ f.todo = j.todo /\ f.listed = j.listed
    BY DEF Jobs
  <2>2. /\ f.done \subseteq S /\ f.done \cap f.failed = {}
        /\ f.todo \cap Covered(f) = {} /\ f.listed = Covered(f) \cup f.todo
    BY <2>1 DEF SweepOK, Covered, AtHand
  <2>3. QED
    BY <1>1, <2>1, <2>2, OnwardSweep DEF Fail
<1>4. QED
  BY <1>2, <1>3

\* From one stage to the next, for the same namespace.
LEMMA EnterSweep ==
  ASSUME NEW j \in Jobs, NEW S, j.op = "ensureAll", j.status = "none",
         j.stage \in AtHand, SweepOK(j, S),
         NEW s \in {"list", "create", "config"}, s = "config" => j.ns \in S
  PROVE  SweepOK(Enter(j, s), S)
<1>1. ASSUME NEW p \in {"call", "mounts"}
      PROVE  SweepOK([j EXCEPT !.stage = s, !.phase = p], S)
  BY DEF SweepOK, Covered, AtHand, Jobs
<1>2. QED
  BY <1>1 DEF Enter

\* ensureTransitMounted, for the namespace at hand.
LEMMA MountSweep ==
  ASSUME NEW j \in Jobs, NEW S, j.op = "ensureAll", j.status = "none",
         j.stage \in AtHand, SweepOK(j, S)
  PROVE  \A i \in Mounted(j) \cup MountFailed(j)
                  \cup {[j EXCEPT !.phase = "enable"]} : SweepOK(i, S)
<1>1. /\ SweepOK([j EXCEPT !.phase = "call"], S)
      /\ SweepOK([j EXCEPT !.phase = "enable"], S)
  BY DEF SweepOK, Covered, AtHand, Jobs
<1>2. \A i \in Mounted(j) : SweepOK(i, S)
  BY <1>1, EnterSweep DEF Mounted
<1>3. CASE j.stage = "config"
  <2>1. j.ns \in S
    BY <1>3 DEF SweepOK
  <2>2. \A i \in Configured(j) : SweepOK(i, S)
    BY <2>1, OutcomeSweep DEF Configured
  <2>3. QED
    BY <1>1, <1>2, <1>3, <2>2 DEF MountFailed
<1>4. CASE j.stage # "config"
  BY <1>1, <1>2, <1>4, OutcomeSweep DEF MountFailed, AtHand
<1>5. QED
  BY <1>3, <1>4

\* A handler that handles an answer it may trust keeps its report sound.
LEMMA HandleSweep ==
  ASSUME TypeOK, NEW w \in Workers, NEW a \in Answers, Busy(w), Handle(w, a),
         SweepOK(job[w], seen[w]), AnswerOK(job[w], a, seen[w])
  PROVE  /\ \A v \in Workers : SweepOK(job[v], seen[v]) => SweepOK(job'[v], seen'[v])
         /\ \A v \in Workers : AnswerOK(job[v], ans[v], seen[v])
                               => AnswerOK(job'[v], ans'[v], seen'[v])
<1> DEFINE j == job[w]
           S == seen[w]
<1>1. j \in Jobs /\ j.phase # "idle" /\ j.status = "none"
  BY DEF TypeOK, Busy
<1>2. PICK next : /\ Continue(w, next)
                  /\ \A i \in next : SweepOK(i, S)
  <2>1. CASE j.op # "ensureAll"
    <3>1. \A s \in Stages : Enter(j, s).op = j.op
      BY <1>1 DEF Enter, Jobs
    <3>2. \E next : Continue(w, next) /\ \A i \in next : i.op = j.op
      <4>1. CASE MountsAnswered(w, a)
        <5>1. [j EXCEPT !.phase = "enable"].op = j.op
          BY <1>1 DEF Jobs
        <5>2. \A i \in Mounted(j) \cup MountFailed(j)
                        \cup {[j EXCEPT !.phase = "enable"]} : i.op = j.op
          BY <1>1, <5>1, OpKept
        <5>3. QED
          BY <4>1, <5>2 DEF MountsAnswered
      <4>2. CASE EnableAnswered(w, a)
        BY <1>1, <4>2, OpKept DEF EnableAnswered
      <4>3. CASE CreateAnswered(w, a)
        BY <1>1, <3>1, <4>3, OpKept DEF CreateAnswered, Stages
      <4>4. CASE ConfigAnswered(w)
        BY <1>1, <4>4, OpKept DEF ConfigAnswered
      <4>5. CASE OverrideAnswered(w)
        BY <1>1, <4>5, OpKept DEF OverrideAnswered
      <4>6. CASE \E s \in Stages : Settled(w, a, s)
        BY <1>1, <4>6, OpKept DEF Settled
      <4>7. CASE ListAnswered(w, a)
        BY <1>1, <2>1, <4>7, OpKept DEF ListAnswered
      <4>8. CASE NamespacesAnswered(w, a)
        <5> DEFINE names == NamespacesListed(a)
                   known == [j EXCEPT !.listed = names, !.todo = names]
        <5>1. /\ known \in Jobs /\ known.op = j.op
              /\ Reply([known EXCEPT !.todo = {}], "ok").op = j.op
              /\ Reply(j, "gateway").op = j.op
          BY <1>1, RootAssumption DEF NamespacesListed, Reply, Jobs
        <5>2. \A i \in Onward(known) : i.op = j.op
          BY <5>1, OpKept
        <5>3. QED
          BY <4>8, <5>1, <5>2 DEF NamespacesAnswered
      <4>9. QED
        BY <4>1, <4>2, <4>3, <4>4, <4>5, <4>6, <4>7, <4>8
           DEF Handle, DeleteAnswered, RotateAnswered, InfoAnswered,
               CreateNamespaceAnswered, DeleteNamespaceAnswered, Stages
    <3>3. QED
      BY <2>1, <3>2 DEF SweepOK
  <2>2. CASE j.op = "ensureAll" /\ j.stage = "namespaces"
    <3> DEFINE names == NamespacesListed(a)
               known == [j EXCEPT !.listed = names, !.todo = names]
    <3>1. NamespacesAnswered(w, a)
      BY <2>2 DEF Handle, SweepOK, MountsAnswered, EnableAnswered, CreateAnswered, 
         ConfigAnswered, OverrideAnswered, Settled, DeleteAnswered, RotateAnswered,
         InfoAnswered, CreateNamespaceAnswered, DeleteNamespaceAnswered,
         ListAnswered, NsOps
    <3>2. Swept(j)
      BY <2>2 DEF Swept, Sweeps
    <3>3. /\ known \in Jobs /\ known.op = "ensureAll" /\ known.status = "none"
          /\ Covered(known) = {} /\ known.listed = known.todo /\ known.done = {}
      BY <1>1, <2>2, RootAssumption DEF NamespacesListed, Jobs, SweepOK, Covered
    <3>4. \A i \in Onward(known) : SweepOK(i, S)
      BY <3>3, OnwardSweep DEF Covered
    <3>5. SweepOK(Reply(j, "gateway"), S)
      BY <1>1, <2>2 DEF Reply, SweepOK, Covered, Jobs
    <3>6. QED
      BY <3>1, <3>2, <3>4, <3>5 DEF NamespacesAnswered
  <2>3. CASE j.op = "ensureAll" /\ j.stage \in AtHand
    <3>1. CASE MountsAnswered(w, a)
      BY <1>1, <2>3, <3>1, MountSweep DEF MountsAnswered
    <3>2. CASE EnableAnswered(w, a)
      BY <1>1, <2>3, <3>2, MountSweep DEF EnableAnswered
    <3>3. CASE CreateAnswered(w, a)
      <4>1. a.st = "ok" => SweepOK(Enter(j, "config"), S)
        BY <1>1, <2>3, <3>3, EnterSweep DEF CreateAnswered, AnswerOK
      <4>2. QED
        BY <1>1, <2>3, <3>3, <4>1, OutcomeSweep DEF CreateAnswered
    <3>4. CASE ConfigAnswered(w)
      <4>1. j.ns \in S
        BY <2>3, <3>4 DEF ConfigAnswered, SweepOK
      <4>2. QED
        BY <1>1, <2>3, <3>4, <4>1, OutcomeSweep DEF ConfigAnswered, Configured
    <3>5. CASE ListAnswered(w, a)
      <4>1. SweepOK(Enter(j, "create"), S)
        BY <1>1, <2>3, EnterSweep
      <4>2. j.key \in KeysListed(a) => j.ns \in S
        BY <2>3, <3>5 DEF ListAnswered, KeysListed, AnswerOK
      <4>3. QED
        BY <1>1, <2>3, <3>5, <4>1, <4>2, OutcomeSweep DEF ListAnswered
    <3>6. QED
      BY <2>3, <3>1, <3>2, <3>3, <3>4, <3>5
         DEF Handle, OverrideAnswered, Settled, DeleteAnswered, RotateAnswered,
             InfoAnswered, CreateNamespaceAnswered, DeleteNamespaceAnswered,
             NamespacesAnswered, AtHand
  <2>4. QED
    BY <1>1, <2>1, <2>2, <2>3 DEF SweepOK, AtHand, TypeOK
<1>3. /\ \E i \in next : job' = [job EXCEPT ![w] = i]
      /\ ans' = [ans EXCEPT ![w] = Pending]
      /\ seen' = seen
  BY <1>2 DEF Continue, Handle
<1>4. Pending.st # "ok"
  BY DEF Pending
<1>5. QED
  BY <1>2, <1>3, <1>4 DEF TypeOK, AnswerOK

\* A request begins with nothing swept.
LEMMA BeginSweep ==
  ASSUME TypeOK, NEW w \in Workers, NEW op \in AllOps, NEW n \in Namespaces,
         NEW k \in Keys, NEW allow \in {"unset", "true", "false"},
         Begin(w, op, n, k, allow), ReportInv
  PROVE  ReportInv'
<1> DEFINE i == [Idle EXCEPT !.op = op, !.ns = n, !.key = k, !.allow = allow]
           j == Enter(i, FirstStage(op))
<1>1. i \in Jobs /\ i.op = op /\ Covered(i) = {} /\ i.todo = {} /\ i.status = "none"
  BY RootAssumption, KeysAssumption DEF Idle, AnyKey, Jobs, Stages, NoOp, Covered
<1>2. \A S : SweepOK(j, S)
  <2>1. CASE op # "ensureAll"
    BY <1>1, <2>1 DEF Enter, SweepOK, Jobs
  <2>2. CASE op = "ensureAll"
    <3>1. j = [i EXCEPT !.stage = "namespaces", !.phase = "call"]
      BY <2>2 DEF Enter, FirstStage, Sweeps
    <3>2. /\ j.stage = "namespaces" /\ j.phase = "call" /\ j.status = "none"
          /\ j.done = i.done /\ j.failed = i.failed /\ j.todo = {}
      BY <1>1, <3>1 DEF Jobs
    <3>3. QED
      BY <1>1, <3>2 DEF SweepOK, Covered
  <2>3. QED
    BY <2>1, <2>2
<1>3. \A a, S : ~AnswerOK(j, a, S) => j.stage \in {"create", "list"} /\ j.op = "ensureAll"
  BY DEF AnswerOK
<1>4. \A a, S : AnswerOK(j, a, S)
  BY <1>1, <1>3 DEF Enter, FirstStage, Sweeps, Jobs
<1>5. /\ job' = [job EXCEPT ![w] = j] /\ ans' = ans
      /\ seen' = [seen EXCEPT ![w] = {m \in Namespaces : Present(m, k)}]
  BY DEF Begin
<1>6. QED
  BY <1>2, <1>4, <1>5 DEF ReportInv, TypeOK

\* What the server does is seen: the history grows, and an accepted creation
\* and a key in a listing are in it.
LEMMA ServeSeen ==
  ASSUME TypeOK, BaoTypeOK', Witness, job' = job, NEW c, NEW ok \in BOOLEAN,
         Serve(c, ok), NEW w \in Workers
  PROVE  /\ seen[w] \subseteq seen'[w]
         /\ (/\ ok /\ c.ns \in Namespaces /\ c.key = job[w].key
             /\ c.kind = "create" \/ (c.kind = "list" /\ c.key \in Listing(c)))
             => c.ns \in seen'[w]
<1>1. seen'[w] = seen[w] \cup {n \in Namespaces : keys'[n][job[w].key] # Absent}
  BY DEF Witness
<1>2. job[w].key \in Keys
  BY DEF TypeOK, Jobs
<1>3. ASSUME ok, c.ns \in Namespaces, c.key = job[w].key, c.kind = "create"
      PROVE  keys'[c.ns][c.key] # Absent
  <2>1. CreateKey(c)
    BY <1>3 DEF Serve, Apply, Reads, EnableTransit, ConfigKey, DeleteKey, RotateKey,
       CreateNamespace, DeleteNamespace
  <2>2. QED
    BY <1>2, <1>3, <2>1 DEF CreateKey, Present, Absent, TypeOK, BaoTypeOK
<1>4. ASSUME ok, c.ns \in Namespaces, c.key = job[w].key, c.kind = "list",
             c.key \in Listing(c)
      PROVE  keys'[c.ns][c.key] # Absent
  <2>1. Present(c.ns, c.key)
    BY <1>4 DEF Listing
  <2>2. keys' = keys
    BY <1>4 DEF Serve, Apply, EnableTransit, CreateKey, ConfigKey, DeleteKey,
       RotateKey, CreateNamespace, DeleteNamespace, baoVars
  <2>3. QED
    BY <2>1, <2>2 DEF Present
<1>5. QED
  BY <1>1, <1>3, <1>4

\* A longer history, and a job as it was, are as sound as before.
LEMMA SeenMore ==
  ASSUME NEW j, NEW a, NEW S, NEW T, S \subseteq T
  PROVE  /\ SweepOK(j, S) => SweepOK(j, T)
         /\ AnswerOK(j, a, S) => AnswerOK(j, a, T)
BY DEF SweepOK, AnswerOK

\* One step of the server, a handler or a fault keeps every report sound.
LEMMA ReportStep ==
  ASSUME TypeOK, TypeOK', ReportInv, [Next]_vars
  PROVE  ReportInv'
<1>1. ASSUME NEW w \in Workers,
             \/ NamespacesCollection(w) \/ NamespaceItem(w) \/ KeysCollection(w)
             \/ KeysItem(w) \/ EnsureAllNamespaces(w) \/ CliOperation(w)
      PROVE  ReportInv'
  BY <1>1, RequestBegins, BeginSweep
<1>2. ASSUME NEW w \in Workers, NEW op \in Ops, Reject(w, op)
      PROVE  ReportInv'
  <2> DEFINE j == [Idle EXCEPT !.op = op, !.status = "rejected"]
  <2>1. \A S, a : SweepOK(j, S) /\ AnswerOK(j, a, S)
    BY DEF Idle, SweepOK, AnswerOK, Covered
  <2>2. job' = [job EXCEPT ![w] = j] /\ ans' = ans /\ seen' = seen
    BY <1>2 DEF Reject
  <2>3. QED
    BY <2>1, <2>2 DEF ReportInv, TypeOK
<1>3. ASSUME NEW w \in Workers, Exec(w)
      PROVE  ReportInv'
  <2> DEFINE c == CallOf(job[w])
  <2>1. PICK ok \in BOOLEAN : /\ Serve(c, ok)
                              /\ ans' = [ans EXCEPT ![w] = AnswerTo(c, ok)]
    BY <1>3 DEF Exec
  <2>2. Witness /\ job' = job /\ BaoTypeOK'
    BY <1>3 DEF Exec, TypeOK
  <2>3. \A v \in Workers : seen[v] \subseteq seen'[v]
    BY <2>1, <2>2, ServeSeen
  <2>4. AnswerOK(job[w], AnswerTo(c, ok), seen'[w])
    <3>1. SUFFICES ASSUME job[w].phase = "call", ok,
                     \/ job[w].stage = "create"
                     \/ job[w].stage = "list" /\ job[w].key \in Listing(c)
                   PROVE  job[w].ns \in seen'[w]
      BY DEF AnswerOK, AnswerTo, Refusal
    <3>2. /\ c.kind = job[w].stage /\ c.ns = job[w].ns /\ c.key = job[w].key
          /\ c.ns \in Namespaces
      BY <3>1, CallType DEF CallOf, CallKind
    <3>3. QED
      BY <2>1, <2>2, <3>1, <3>2, ServeSeen
  <2>5. QED
    BY <2>1, <2>2, <2>3, <2>4, SeenMore DEF ReportInv, TypeOK
<1>4. ASSUME NEW w \in Workers, Recv(w)
      PROVE  ReportInv'
  <2>1. ans[w] \in Answers
    BY DEF TypeOK
  <2>2. QED
    BY <1>4, <2>1, HandleBusy, HandleSweep DEF Recv, ReportInv
<1>5. ASSUME NEW w \in Workers, Timeout(w)
      PROVE  ReportInv'
  <2> DEFINE a == [st |-> "err", set |-> {}]
  <2>1. a \in Answers /\ AnswerOK(job[w], a, seen[w])
    BY DEF Answers, AnswerOK
  <2>2. QED
    BY <1>5, <2>1, HandleSweep DEF Timeout, ReportInv
<1>6. ASSUME NEW w \in Workers, Retry(w)
      PROVE  ReportInv'
  BY <1>6 DEF Retry, ReportInv, AnswerOK, Pending, history, TypeOK
<1>7. ASSUME NEW w \in Workers, Garble(w)
      PROVE  ReportInv'
  <2> DEFINE a == [st |-> "ok", set |-> {}]
  <2>1. a \in Answers
    BY DEF Answers
  <2>2. AnswerOK(job[w], a, seen[w])
    BY <1>7 DEF Garble, AnswerOK, CallKind
  <2>3. QED
    BY <1>7, <2>1, <2>2, HandleSweep DEF Garble, ReportInv
<1>8. ASSUME NEW w \in Workers, Crash(w)
      PROVE  ReportInv'
  <2>1. \A S, a : SweepOK(Idle, S) /\ AnswerOK(Idle, a, S)
    BY DEF Idle, SweepOK, AnswerOK, NoOp
  <2>2. QED
    BY <1>8, <2>1 DEF Crash, ReportInv, history, TypeOK
<1>9. ASSUME NEW c \in orphans, ExecOrphan(c)
      PROVE  ReportInv'
  <2>1. Witness /\ job' = job /\ ans' = ans /\ BaoTypeOK'
    BY <1>9 DEF ExecOrphan, TypeOK
  <2>2. \A v \in Workers : seen[v] \subseteq seen'[v]
    BY <1>9, <2>1, ServeSeen DEF ExecOrphan
  <2>3. QED
    BY <2>1, <2>2, SeenMore DEF ReportInv
<1>10. CASE UNCHANGED vars
  BY <1>10 DEF ReportInv, vars, history
<1>11. QED
  BY <1>1, <1>2, <1>3, <1>4, <1>5, <1>6, <1>7, <1>8, <1>9, <1>10 DEF Next

\* What ensure-all reports is so, for any number of namespaces and of requests
\* that create and delete keys and namespaces while it runs, whatever is lost,
\* repeated or garbled: "ensured" names only namespaces that had the key at
\* some time during the request, and no listed namespace goes unreported.
THEOREM ReportIsSound == Spec => []ReportSound
<1>1. Init => ReportInv
  BY DEF Init, Idle, NoOp, ReportInv, SweepOK, AnswerOK
<1>2. TypeOK /\ TypeOK' /\ ReportInv /\ [Next]_vars => ReportInv'
  BY ReportStep
<1>3. ReportInv => ReportSound
  BY DEF ReportInv, ReportSound, SweepOK, Covered
<1>4. QED
  BY <1>1, <1>2, <1>3, TypeCorrect, PTL DEF Spec
=============================================================================
